-------------------------- MODULE ServiceRunProofs --------------------------
(***************************************************************************)
(* What is served, cached and recorded belongs together, for every number  *)
(* of requests, programs and threads, any hash function and every          *)
(* combination of failing files, failing inserts, hang-ups and restarts.   *)
(***************************************************************************)
EXTENDS ExecutionServiceProofs, FiniteSetTheorems

-----------------------------------------------------------------------------
(* The inductive invariant.                                                *)

(***************************************************************************)
(* Nothing has been done for a request that has not got the mutex yet.     *)
(***************************************************************************)
Untouched(h) ==
  /\ fs[h] = "none" /\ job[h] = "none" /\ h \notin dirs
  /\ result[h] = "none" /\ response[h] = NoResponse /\ insertion[h] = "none"

(***************************************************************************)
(* How far the state of an execution has come, by where its handler is.    *)
(***************************************************************************)
StageOf(h) ==
  /\ pc[h] \in {"idle", "waiting", "rejected"} => Untouched(h)
  /\ pc[h] = "waiting" => request[h] \in ExecuteRequest \cup {InfoRequest}
  /\ pc[h] \in Executing =>
       /\ request[h] \in ExecuteRequest
       /\ response[h] = NoResponse /\ insertion[h] = "none"
  /\ pc[h] \in Preparing => job[h] = "none"
  /\ pc[h] \in Preparing \cup {"run"} => result[h] = "none"
  /\ pc[h] = "run" => fs[h] = "ok"
  /\ pc[h] = "rmdir" /\ fs[h] = "ok" => h \notin dirs
  /\ pc[h] \in {"recording", "answered"} =>
       fs[h] # "queued" /\ (h \in dirs => fs[h] = "err")
  /\ pc[h] = "recording" => insertion[h] # "none"
  /\ pc[h] = "answered" /\ response[h] # NoResponse =>
       insertion[h] \in {"ok", "err"}

(***************************************************************************)
(* What a job, its result and the response say of each other.              *)
(***************************************************************************)
OutcomeOf(h) ==
  /\ job[h] # "none" => request[h] \in ExecuteRequest
  /\ stdout[h] # NoOutput <=> job[h] = "ok"
  /\ job[h] = "ok" => stdout[h].program = request[h].program
  /\ result[h] = "ok" => job[h] = "ok"
  /\ insertion[h] # "duplicate"
  /\ insertion[h] # "none" => response[h] # NoResponse
  /\ response[h] # NoResponse =>
       response[h].execution_id = h /\ request[h] \in ExecuteRequest

StagesOK == \A h \in Handlers : StageOf(h) /\ OutcomeOf(h)

(***************************************************************************)
(* A task of the pool is one that its handler awaits, or awaited when it   *)
(* was dropped, and the only one of its kind.                              *)
(***************************************************************************)
IsRun(task) == task.kind = "run"

PoolOK ==
  /\ \A i \in DOMAIN queue :
       LET h == queue[i].of
       IN  IF IsRun(queue[i]) THEN job[h] = "queued"
           ELSE fs[h] = "queued" /\ pc[h] \in {queue[i].kind, "cancelled"}
  /\ \A i, j \in DOMAIN queue :
       queue[i].of = queue[j].of /\ (IsRun(queue[i]) <=> IsRun(queue[j]))
         => i = j

(***************************************************************************)
(* Nobody queues for the mutex twice.                                      *)
(***************************************************************************)
LineOK ==
  /\ WaitersInLine
  /\ \A i, j \in DOMAIN waiters : waiters[i] = waiters[j] => i = j

(***************************************************************************)
(* A stored response is the one its execution was answered with.           *)
(***************************************************************************)
StoredOK ==
  /\ CacheHoldsRuns
  /\ \A s \in DOMAIN entries :
       LET r == entries[s].response
       IN  /\ response[r.execution_id] = r
           /\ pc[r.execution_id] \in {"recording", "answered", "cancelled"}

(***************************************************************************)
(* A success that is answered is the success of some run, of a program     *)
(* with the hash of the one that was asked for.                            *)
(***************************************************************************)
Ran(program) ==
  \E g \in Handlers : result[g] = "ok" /\ request[g].program = program

SuccessesOK ==
  \A h \in Handlers :
    response[h] # NoResponse /\ response[h].success =>
      /\ response[h].stdout # NoOutput
      /\ HashOf[response[h].stdout.program] = HashOf[request[h].program]
      /\ Ran(response[h].stdout.program)

(***************************************************************************)
(* The rows are those of the inserts that went through.                    *)
(***************************************************************************)
RowOf(h) ==
  [id |-> response[h].execution_id, program |-> request[h].program,
   success |-> response[h].success]

TableOK ==
  /\ \A h \in Handlers : insertion[h] = "ok" => RowOf(h) \in rows
  /\ \A row \in rows : insertion[row.id] = "ok" /\ row = RowOf(row.id)

(***************************************************************************)
(* Each handler that got the mutex has looked something up at most once.   *)
(***************************************************************************)
Admitted == {h \in Handlers : pc[h] \notin {"idle", "waiting"}}
LookupsOK == hits + misses <= Cardinality(Admitted)

(***************************************************************************)
(* Faults that are switched off leave no trace.                            *)
(***************************************************************************)
FaultsOK ==
  /\ ~DbFaults => \A h \in Handlers : insertion[h] # "err"
  /\ ~Cancels => \A h \in Handlers : pc[h] # "cancelled"

ServiceInv ==
  /\ TypeOK
  /\ MutexInv
  /\ StagesOK
  /\ PoolOK
  /\ LineOK
  /\ StoredOK
  /\ SuccessesOK
  /\ TableOK
  /\ LookupsOK
  /\ FaultsOK

-----------------------------------------------------------------------------
(* Types.                                                                  *)

PcTypes == {"idle"} \cup Suspended \cup Ended
RequestTypes == ExecuteRequest \cup {InfoRequest, NoRequest}
TaskTypes == [kind : Preparing \cup {"run", "rmdir"}, of : Handlers]
FsTypes == {"none", "queued", "ok", "err"}
JobTypes == {"none", "queued", "running", "ok", "err"}
InsertionTypes == {"none", "sent", "ok", "err", "duplicate"}

ControlType ==
  /\ pc \in [Handlers -> PcTypes]
  /\ request \in [Handlers -> RequestTypes]
  /\ holder \in Handlers \cup {Nobody}
  /\ waiters \in Seq(Handlers)

PoolType ==
  /\ queue \in Seq(TaskTypes)
  /\ fs \in [Handlers -> FsTypes]
  /\ job \in [Handlers -> JobTypes]
  /\ dirs \subseteq Handlers
  /\ stdout \in [Handlers -> Output \cup {NoOutput}]

AnswerType ==
  /\ result \in [Handlers -> {"none", "ok", "err"}]
  /\ response \in [Handlers -> Response \cup {NoResponse}]
  /\ insertion \in [Handlers -> InsertionTypes]
  /\ rows \subseteq Row

CacheType ==
  /\ Cache!IsEntryMap(entries)
  /\ hits \in Nat
  /\ misses \in Nat

LEMMA TypeSplit ==
  /\ TypeOK => ControlType /\ PoolType /\ AnswerType /\ CacheType
  /\ ControlType /\ PoolType /\ AnswerType /\ CacheType /\ LookupsOK => TypeOK
<1>1. TypeOK => ControlType /\ PoolType /\ AnswerType /\ CacheType
  BY DEF TypeOK, ControlType, PoolType, AnswerType, CacheType, Cache!TypeOK,
         PcTypes, RequestTypes, TaskTypes, FsTypes, JobTypes, InsertionTypes
<1>2. ASSUME CacheType, LookupsOK
      PROVE  Cache!TypeOK
  <2>1. /\ Cardinality(Admitted) \in Nat
        /\ Cardinality(Handlers) \in Nat
        /\ Cardinality(Admitted) <= Cardinality(Handlers)
    BY HandlersAssumption, FS_Subset, FS_CardinalityType DEF Admitted
  <2>2. QED
    BY <1>2, <2>1 DEF CacheType, LookupsOK, Cache!TypeOK
<1>3. ControlType /\ PoolType /\ AnswerType /\ CacheType /\ LookupsOK => TypeOK
  BY <1>2
  DEF TypeOK, ControlType, PoolType, AnswerType,
      PcTypes, RequestTypes, TaskTypes, FsTypes, JobTypes, InsertionTypes
<1>4. QED
  BY <1>1, <1>3

-----------------------------------------------------------------------------
(* Steps, by the variables they change.                                    *)

(***************************************************************************)
(* What a handler or the pool does for h leaves the others where they are. *)
(***************************************************************************)
SameFor(g) ==
  /\ pc'[g] = pc[g] /\ request'[g] = request[g]
  /\ fs'[g] = fs[g] /\ job'[g] = job[g] /\ (g \in dirs' <=> g \in dirs)
  /\ stdout'[g] = stdout[g] /\ result'[g] = result[g]
  /\ response'[g] = response[g] /\ insertion'[g] = insertion[g]

OnlyFor(h) == \A g \in Handlers \ {h} : SameFor(g)

StepOf(h) ==
  \/ Reject(h) \/ Arrive(h) \/ HandlerStep(h) \/ Cancel(h)
  \/ PoolStep(h) \/ FailJob(h) \/ FinishJob(h)
  \/ DbStep(h)

LEMMA LineServed ==
  ASSUME ControlType, LineOK, NEW h \in Handlers, pc[h] = "waiting"
  PROVE  /\ waiters # << >>
         /\ Tail(waiters) \in Seq(Handlers)
         /\ Len(Tail(waiters)) = Len(waiters) - 1
         /\ \A i \in 1 .. Len(waiters) - 1 : Tail(waiters)[i] = waiters[i + 1]
<1>1. waiters \in Seq(Handlers) /\ waiters # << >>
  BY DEF ControlType, LineOK, WaitersInLine
<1>2. QED
  BY <1>1

LEMMA ControlTypeKept ==
  ASSUME ControlType, LineOK, NEW h \in Handlers, StepOf(h)
  PROVE  ControlType'
<1>0. /\ PcTypes = {"idle"} \cup Suspended \cup Ended
      /\ Suspended = {"waiting", "recording", "mkdir", "readme", "write", "run", "rmdir"}
      /\ Ended = {"answered", "failed", "rejected", "cancelled", "lost"}
  BY DEF PcTypes, Suspended, Executing, Preparing, Ended
<1>1. CASE Reject(h)
  BY <1>0, <1>1 DEF ControlType, Reject, Goto, lockVars
<1>2. CASE Arrive(h)
  BY <1>0, <1>2 DEF ControlType, Arrive, Goto, RequestTypes
<1>3. CASE HandlerStep(h)
  <2>1. /\ pc' \in [Handlers -> PcTypes]
        /\ request' = request
        /\ holder' \in Handlers \cup {Nobody}
    BY <1>0, <1>3
    DEF ControlType, HandlerStep, ServeInfo, BeginHit, BeginExecution,
        ResumePreparing, ResumeWritten, FailPreparing, ResumeJob, Timeout,
        CleanUp, ResumeCleanedUp, Answer, Goto, Record, lockVars
  <2>2. waiters' = waiters \/ (pc[h] = "waiting" /\ waiters' = Tail(waiters))
    <3>1. CASE ServeInfo(h) \/ BeginHit(h) \/ BeginExecution(h)
      BY <3>1 DEF ServeInfo, BeginHit, BeginExecution, Acquire
    <3>2. CASE ~(ServeInfo(h) \/ BeginHit(h) \/ BeginExecution(h))
      BY <1>3, <3>2
      DEF HandlerStep, ResumePreparing, ResumeWritten, FailPreparing,
          ResumeJob, Timeout, CleanUp, ResumeCleanedUp, Answer, lockVars
    <3>3. QED
      BY <3>1, <3>2
  <2>3. QED
    BY <2>1, <2>2, LineServed DEF ControlType
<1>4. CASE Cancel(h)
  <2>1. waiters' \in Seq(Handlers)
    <3>1. CASE pc[h] = "waiting"
      <4>1. PICK i \in DOMAIN waiters :
              waiters' = [j \in 1 .. Len(waiters) - 1 |->
                            waiters[IF j < i THEN j ELSE j + 1]]
        BY <1>4, <3>1 DEF Cancel, LeaveLine
      <4>2. /\ Len(waiters) \in Nat \ {0} /\ i \in 1 .. Len(waiters)
            /\ \A j \in 1 .. Len(waiters) : waiters[j] \in Handlers
        BY DEF ControlType
      <4>3. \A j \in 1 .. Len(waiters) - 1 :
              (IF j < i THEN j ELSE j + 1) \in 1 .. Len(waiters)
        BY <4>2
      <4>4. waiters' \in [1 .. Len(waiters) - 1 -> Handlers]
        BY <4>1, <4>2, <4>3
      <4>5. QED
        BY <4>2, <4>4
    <3>2. CASE pc[h] # "waiting"
      BY <1>4, <3>2 DEF Cancel, ControlType
    <3>3. QED
      BY <3>1, <3>2
  <2>2. QED
    BY <1>0, <1>4, <2>1 DEF ControlType, Cancel, Goto
<1>5. CASE PoolStep(h) \/ FailJob(h) \/ FinishJob(h) \/ DbStep(h)
  BY <1>5
  DEF ControlType, PoolStep, RunFs, FailFs, StartJob, FailJob, FinishJob,
      DbStep, ExecuteInsert, FailInsert, lockVars
<1>6. QED
  BY <1>1, <1>2, <1>3, <1>4, <1>5 DEF StepOf

LEMMA PoolTypeKept ==
  ASSUME ControlType, PoolType, StagesOK, NEW h \in Handlers, StepOf(h)
  PROVE  PoolType'
<1>1. CASE PoolStep(h)
  <2>1. /\ queue # << >>
        /\ queue' = Tail(queue)
        /\ fs' \in [Handlers -> FsTypes]
        /\ job' \in [Handlers -> JobTypes]
        /\ stdout' = stdout
    BY <1>1
    DEF PoolType, PoolStep, RunFs, FailFs, StartJob, Take, FsTypes, JobTypes
  <2>2. dirs' \in {dirs, dirs \cup {h}, dirs \ {h}}
    BY <1>1 DEF PoolStep, RunFs, FailFs, StartJob
  <2>3. QED
    BY <2>1, <2>2 DEF PoolType
<1>2. CASE FailJob(h)
  BY <1>2 DEF PoolType, FailJob, JobTypes
<1>3. CASE FinishJob(h)
  <2>1. request[h].program \in Program
    <3>1. request[h] \in ExecuteRequest
      BY <1>3 DEF FinishJob, StagesOK, OutcomeOf
    <3>2. QED
      BY <3>1 DEF ExecuteRequest
  <2>2. PICK text \in Texts :
          stdout' = [stdout EXCEPT
                       ![h] = [program |-> request[h].program, text |-> text]]
    BY <1>3 DEF FinishJob
  <2>3. stdout' \in [Handlers -> Output \cup {NoOutput}]
    BY <2>1, <2>2 DEF PoolType, Output
  <2>4. QED
    BY <1>3, <2>3 DEF PoolType, FinishJob, JobTypes
<1>4. CASE HandlerStep(h)
  <2>1. /\ dirs' = dirs /\ stdout' = stdout
        /\ fs' \in [Handlers -> FsTypes]
        /\ job' \in [Handlers -> JobTypes]
    BY <1>4
    DEF PoolType, HandlerStep, ServeInfo, BeginHit, BeginExecution,
        ResumePreparing, ResumeWritten, FailPreparing, ResumeJob, Timeout,
        CleanUp, ResumeCleanedUp, Answer, SubmitFs, SubmitJob, poolVars,
        FsTypes, JobTypes
  <2>2. \/ queue' = queue
        \/ \E kind \in Preparing \cup {"run", "rmdir"} :
             queue' = Append(queue, Task(kind, h))
    BY <1>4
    DEF HandlerStep, ServeInfo, BeginHit, BeginExecution,
        ResumePreparing, ResumeWritten, FailPreparing, ResumeJob, Timeout,
        CleanUp, ResumeCleanedUp, Answer, SubmitFs, SubmitJob, poolVars,
        Preparing
  <2>3. \A kind \in Preparing \cup {"run", "rmdir"} : Task(kind, h) \in TaskTypes
    BY DEF Task, TaskTypes
  <2>4. queue' \in Seq(TaskTypes)
    BY <2>2, <2>3 DEF PoolType
  <2>5. QED
    BY <2>1, <2>4 DEF PoolType
<1>5. CASE Reject(h) \/ Arrive(h) \/ Cancel(h) \/ DbStep(h)
  BY <1>5
  DEF PoolType, Reject, Arrive, Cancel, DbStep, ExecuteInsert, FailInsert,
      poolVars
<1>6. QED
  BY <1>1, <1>2, <1>3, <1>4, <1>5 DEF StepOf

-----------------------------------------------------------------------------
(* The cache.                                                              *)

(***************************************************************************)
(* What MakeRoom leaves are entries that were there, in their slots.       *)
(***************************************************************************)
Remnant(kept, es) ==
  /\ DOMAIN kept \subseteq DOMAIN es
  /\ kept = [s \in DOMAIN kept |-> es[s]]

LEMMA RoomIsRemnant ==
  ASSUME NEW es, es = [s \in DOMAIN es |-> es[s]],
         NEW kept \in Cache!MakeRoom(es)
  PROVE  Remnant(kept, es)
<1>1. Remnant(Cache!EvictExpired(es), es)
  BY DEF Remnant, Cache!EvictExpired, Cache!FreshSlots, Cache!Keep
<1>2. ASSUME NEW m, Remnant(m, es), NEW n \in Cache!EvictLru(m)
      PROVE  Remnant(n, es)
  <2>1. CASE n = m
    BY <1>2, <2>1
  <2>2. ASSUME NEW s, n = Cache!Keep(m, DOMAIN m \ {s})
        PROVE  Remnant(n, es)
    BY <1>2, <2>2 DEF Remnant, Cache!Keep
  <2>3. QED
    BY <1>2, <2>1, <2>2 DEF Cache!EvictLru
<1>3. Remnant(es, es)
  BY DEF Remnant
<1>4. PICK m \in {es, Cache!EvictExpired(es)} :
        kept \in (IF Cache!IsFull(m) THEN Cache!EvictLru(m) ELSE {m})
  BY DEF Cache!MakeRoom
<1>5. Remnant(m, es)
  BY <1>1, <1>3, <1>4
<1>6. QED
  BY <1>2, <1>4, <1>5

(***************************************************************************)
(* An insert puts its response where its key belongs; what else is in the  *)
(* cache was in it before.                                                 *)
(***************************************************************************)
LEMMA InsertPuts ==
  ASSUME CacheType, NEW program, NEW r, Cache!Insert(program, r)
  PROVE  LET e == [response |-> r, elapsed |-> 0, ttl |-> Ttl]
         IN  /\ hits' = hits /\ misses' = misses
             /\ DOMAIN entries' \subseteq DOMAIN entries \cup {HashOf[program]}
             /\ \A s \in DOMAIN entries' :
                  entries'[s] = IF s = HashOf[program] THEN e ELSE entries[s]
             /\ entries' = [s \in DOMAIN entries' |-> entries'[s]]
<1> DEFINE e == [response |-> r, elapsed |-> 0, ttl |-> Ttl]
<1>1. PICK kept \in Cache!MakeRoom(entries) :
        entries' = Cache!Put(kept, HashOf[program], e)
  BY DEF Cache!Insert, Cache!InsertWithTtl
<1>2. Remnant(kept, entries)
  BY <1>1, RoomIsRemnant DEF CacheType, Cache!IsEntryMap
<1>3. hits' = hits /\ misses' = misses
  BY DEF Cache!Insert, Cache!InsertWithTtl
<1>4. QED
  BY <1>1, <1>2, <1>3 DEF Remnant, Cache!Put

-----------------------------------------------------------------------------
(* One handler at a time.                                                  *)

LEMMA Types == ASSUME TypeOK PROVE ControlType /\ PoolType /\ AnswerType /\ CacheType
  BY TypeSplit

LEMMA StepIsLocal ==
  ASSUME TypeOK, NEW h \in Handlers, StepOf(h)
  PROVE  OnlyFor(h)
<1>1. ControlType /\ PoolType /\ AnswerType
  BY Types
<1> USE <1>1 DEF ControlType, PoolType, AnswerType, OnlyFor, SameFor
<1>2. CASE Reject(h) \/ Arrive(h) \/ Cancel(h)
  BY <1>2 DEF Reject, Arrive, Cancel, Goto, poolVars, dbVars
<1>3. CASE ServeInfo(h) \/ BeginHit(h) \/ Answer(h)
  BY <1>3 DEF ServeInfo, BeginHit, Answer, Record, Goto, poolVars, dbVars
<1>4. CASE BeginExecution(h) \/ ResumePreparing(h) \/ ResumeWritten(h)
  BY <1>4
  DEF BeginExecution, ResumePreparing, ResumeWritten, SubmitFs, SubmitJob,
      Goto, dbVars
<1>5. CASE FailPreparing(h) \/ ResumeCleanedUp(h)
  BY <1>5 DEF FailPreparing, ResumeCleanedUp, Record, Goto, poolVars, dbVars
<1>6. CASE ResumeJob(h) \/ Timeout(h)
  BY <1>6 DEF ResumeJob, Timeout, CleanUp, SubmitFs, Goto, dbVars
<1>7. CASE PoolStep(h)
  BY <1>7 DEF PoolStep, RunFs, FailFs, StartJob, dbVars
<1>8. CASE FailJob(h) \/ FinishJob(h) \/ DbStep(h)
  BY <1>8
  DEF FailJob, FinishJob, DbStep, ExecuteInsert, FailInsert, poolVars, dbVars
<1>9. QED
  BY <1>2, <1>3, <1>4, <1>5, <1>6, <1>7, <1>8 DEF StepOf, HandlerStep

LEMMA OthersKeepStage ==
  ASSUME StagesOK, NEW h \in Handlers, OnlyFor(h), (StageOf(h) /\ OutcomeOf(h))'
  PROVE  StagesOK'
<1>1. ASSUME NEW g \in Handlers \ {h}
      PROVE  (StageOf(g) /\ OutcomeOf(g))'
  <2>1. StageOf(g) /\ OutcomeOf(g) /\ SameFor(g)
    BY DEF StagesOK, OnlyFor
  <2>2. QED
    BY <2>1 DEF StageOf, OutcomeOf, SameFor, Untouched
<1>2. QED
  BY <1>1 DEF StagesOK

(***************************************************************************)
(* The first task of the pool, when a thread takes it.                     *)
(***************************************************************************)
LEMMA TakenTask ==
  ASSUME PoolType, PoolOK, NEW h \in Handlers, NEW kinds, Take(kinds, h)
  PROVE  /\ 1 \in DOMAIN queue
         /\ queue[1] = Head(queue) /\ queue[1].of = h /\ queue[1].kind \in kinds
         /\ queue' \in Seq(TaskTypes)
         /\ DOMAIN queue' = 1 .. Len(queue) - 1
         /\ DOMAIN queue = 1 .. Len(queue) /\ Len(queue) \in Nat
         /\ \A i \in DOMAIN queue' : queue'[i] = queue[i + 1]
         /\ IF IsRun(queue[1]) THEN job[h] = "queued"
            ELSE fs[h] = "queued" /\ pc[h] \in {queue[1].kind, "cancelled"}
<1>1. /\ queue \in Seq(TaskTypes) /\ queue # << >> /\ queue' = Tail(queue)
      /\ Head(queue).of = h /\ Head(queue).kind \in kinds
  BY DEF Take, PoolType
<1>2. /\ 1 \in DOMAIN queue /\ queue[1] = Head(queue)
      /\ Len(queue) \in Nat /\ DOMAIN queue = 1 .. Len(queue)
  BY <1>1
<1>3. /\ queue' \in Seq(TaskTypes) /\ DOMAIN queue' = 1 .. Len(queue) - 1
      /\ \A i \in DOMAIN queue' : queue'[i] = queue[i + 1]
  BY <1>1
<1>4. QED
  BY <1>1, <1>2, <1>3 DEF PoolOK

LEMMA StagesKept ==
  ASSUME TypeOK, StagesOK, PoolOK, TableOK, NEW h \in Handlers, StepOf(h)
  PROVE  StagesOK'
<1>0. ControlType /\ PoolType /\ AnswerType /\ CacheType
  BY Types
<1>1. OnlyFor(h)
  BY StepIsLocal
<1>2. StageOf(h) /\ OutcomeOf(h)
  BY DEF StagesOK
<1>3. SUFFICES (StageOf(h) /\ OutcomeOf(h))'
  BY <1>1, OthersKeepStage
<1>4. /\ Preparing = {"mkdir", "readme", "write"}
      /\ Executing = {"mkdir", "readme", "write", "run", "rmdir"}
  BY DEF Preparing, Executing
<1> USE <1>0, <1>2, <1>4
    DEF ControlType, PoolType, AnswerType, StageOf, OutcomeOf, Untouched
<1>5. CASE Reject(h) \/ Arrive(h)
  BY <1>5 DEF Reject, Arrive, Goto, poolVars, dbVars
<1>6. CASE ServeInfo(h)
  BY <1>6 DEF ServeInfo, Acquire, Goto, poolVars, dbVars
<1>7. CASE BeginHit(h)
  <2>1. PICK r \in Response : Record(h, Renewed(r, h))
    BY <1>7 DEF BeginHit, CacheType, Cache!IsEntryMap, Cache!Entry
  <2>2. /\ Renewed(r, h) \in Response
        /\ Renewed(r, h).execution_id = h
    BY DEF Response, Renewed
  <2>3. Renewed(r, h) # NoResponse
    BY <2>2, CacheAssumption
  <2>4. request[h] \in ExecuteRequest
    BY <1>7 DEF BeginHit, Acquire, InfoRequest
  <2>5. QED
    BY <1>7, <2>1, <2>2, <2>3, <2>4
    DEF BeginHit, Acquire, Record, Goto, poolVars
<1>8. CASE BeginExecution(h)
  <2>1. request[h] \in ExecuteRequest
    BY <1>8 DEF BeginExecution, Acquire, InfoRequest
  <2>2. QED
    BY <1>8, <2>1 DEF BeginExecution, Acquire, SubmitFs, Goto, dbVars
<1>9. CASE ResumePreparing(h) \/ ResumeWritten(h)
  BY <1>9
  DEF ResumePreparing, ResumeWritten, SubmitFs, SubmitJob, Goto, dbVars
<1>10. CASE FailPreparing(h)
  BY <1>10 DEF FailPreparing, Goto, poolVars, dbVars
<1>11. CASE ResumeJob(h) \/ Timeout(h)
  BY <1>11 DEF ResumeJob, Timeout, CleanUp, SubmitFs, Goto, dbVars
<1>12. CASE ResumeCleanedUp(h)
  <2>1. Built(h) \in Response /\ Built(h).execution_id = h
    BY DEF Built, Response
  <2>2. Built(h) # NoResponse
    BY <2>1, CacheAssumption
  <2>3. QED
    BY <1>12, <2>1, <2>2 DEF ResumeCleanedUp, Record, Goto, poolVars
<1>13. CASE Answer(h)
  BY <1>13 DEF Answer, Goto, poolVars, dbVars
<1>14. CASE Cancel(h)
  BY <1>14 DEF Cancel, Goto, poolVars
<1>15. CASE RunFs(h) \/ FailFs(h)
  <2>1. Take(Preparing \cup {"rmdir"}, h)
    BY <1>15 DEF RunFs, FailFs
  <2>2. /\ queue[1] = Head(queue) /\ ~IsRun(queue[1])
        /\ fs[h] = "queued" /\ pc[h] \in {queue[1].kind, "cancelled"}
        /\ queue[1].kind \in Preparing \cup {"rmdir"}
    BY <2>1, TakenTask DEF IsRun
  <2>3. QED
    BY <1>15, <2>2 DEF RunFs, FailFs, dbVars
<1>16. CASE StartJob(h)
  <2>1. job[h] = "queued"
    BY <1>16, TakenTask DEF StartJob, IsRun
  <2>2. QED
    BY <1>16, <2>1 DEF StartJob, dbVars
<1>17. CASE FailJob(h)
  BY <1>17 DEF FailJob, dbVars
<1>18. CASE FinishJob(h)
  <2>1. PICK text \in Texts :
          stdout' = [stdout EXCEPT
                       ![h] = [program |-> request[h].program, text |-> text]]
    BY <1>18 DEF FinishJob
  <2>2. [program |-> request[h].program, text |-> text] # NoOutput
    BY DEF NoOutput
  <2>3. QED
    BY <1>18, <2>1, <2>2 DEF FinishJob, dbVars
<1>19. CASE ExecuteInsert(h)
  <2>1. ~ \E old \in rows : old.id = response[h].execution_id
    BY <1>19 DEF ExecuteInsert, TableOK
  <2>2. insertion' = [insertion EXCEPT ![h] = "ok"]
    BY <1>19, <2>1 DEF ExecuteInsert
  <2>3. QED
    BY <1>19, <2>2 DEF ExecuteInsert, poolVars
<1>20. CASE FailInsert(h)
  BY <1>20 DEF FailInsert, poolVars
<1>21. QED
  BY <1>5, <1>6, <1>7, <1>8, <1>9, <1>10, <1>11, <1>12, <1>13, <1>14, <1>15,
     <1>16, <1>17, <1>18, <1>19, <1>20
  DEF StepOf, HandlerStep, PoolStep, DbStep

(***************************************************************************)
(* Outcomes that others refer to are final: a success and its output, a    *)
(* response, a row.                                                        *)
(***************************************************************************)
Settled ==
  \A g \in Handlers :
    /\ result[g] = "ok" =>
         result'[g] = "ok" /\ request'[g] = request[g] /\ stdout'[g] = stdout[g]
    /\ response[g] # NoResponse =>
         response'[g] = response[g] /\ request'[g] = request[g]
    /\ insertion[g] = "ok" => insertion'[g] = "ok"

LEMMA StepsSettle ==
  ASSUME TypeOK, StagesOK, PoolOK, NEW h \in Handlers, StepOf(h)
  PROVE  Settled
<1>0. ControlType /\ PoolType /\ AnswerType /\ CacheType
  BY Types
<1>1. OnlyFor(h)
  BY StepIsLocal
<1>2. StageOf(h) /\ OutcomeOf(h)
  BY DEF StagesOK
<1>3. ASSUME NEW g \in Handlers \ {h}
      PROVE  /\ result'[g] = result[g] /\ request'[g] = request[g]
             /\ stdout'[g] = stdout[g] /\ response'[g] = response[g]
             /\ insertion'[g] = insertion[g]
  BY <1>1 DEF OnlyFor, SameFor
<1>4. SUFFICES /\ result[h] = "ok" =>
                    /\ result'[h] = "ok" /\ request'[h] = request[h]
                    /\ stdout'[h] = stdout[h]
               /\ response[h] # NoResponse =>
                    response'[h] = response[h] /\ request'[h] = request[h]
               /\ insertion[h] = "ok" => insertion'[h] = "ok"
  BY <1>3 DEF Settled
<1>5. /\ Preparing = {"mkdir", "readme", "write"}
      /\ Executing = {"mkdir", "readme", "write", "run", "rmdir"}
  BY DEF Preparing, Executing
<1> USE <1>0, <1>2, <1>5
    DEF ControlType, PoolType, AnswerType, StageOf, OutcomeOf, Untouched
<1>6. CASE Reject(h) \/ Arrive(h) \/ ServeInfo(h)
  BY <1>6 DEF Reject, Arrive, ServeInfo, poolVars, dbVars
<1>7. CASE BeginHit(h)
  BY <1>7 DEF BeginHit, Acquire, Record, poolVars
<1>8. CASE BeginExecution(h) \/ ResumePreparing(h) \/ ResumeWritten(h)
  BY <1>8 DEF BeginExecution, ResumePreparing, ResumeWritten, dbVars
<1>9. CASE FailPreparing(h) \/ Answer(h)
  BY <1>9 DEF FailPreparing, Answer, poolVars, dbVars
<1>10. CASE ResumeJob(h) \/ Timeout(h)
  BY <1>10 DEF ResumeJob, Timeout, CleanUp, dbVars
<1>11. CASE ResumeCleanedUp(h)
  BY <1>11 DEF ResumeCleanedUp, Record, poolVars
<1>12. CASE Cancel(h)
  BY <1>12 DEF Cancel, poolVars
<1>13. CASE PoolStep(h)
  BY <1>13 DEF PoolStep, RunFs, FailFs, StartJob, dbVars
<1>14. CASE FailJob(h) \/ FinishJob(h)
  BY <1>14 DEF FailJob, FinishJob, dbVars
<1>15. CASE DbStep(h)
  BY <1>15 DEF DbStep, ExecuteInsert, FailInsert, poolVars
<1>16. QED
  BY <1>6, <1>7, <1>8, <1>9, <1>10, <1>11, <1>12, <1>13, <1>14, <1>15
  DEF StepOf, HandlerStep

-----------------------------------------------------------------------------
(* The pool.                                                               *)

LEMMA TasksTyped ==
  ASSUME PoolType
  PROVE  /\ DOMAIN queue = 1 .. Len(queue) /\ Len(queue) \in Nat
         /\ \A i \in DOMAIN queue : queue[i].of \in Handlers
<1>1. queue \in Seq(TaskTypes)
  BY DEF PoolType
<1>2. /\ DOMAIN queue = 1 .. Len(queue) /\ Len(queue) \in Nat
      /\ \A i \in DOMAIN queue : queue[i] \in TaskTypes
  BY <1>1
<1>3. QED
  BY <1>2 DEF TaskTypes

LEMMA PoolFrame ==
  ASSUME PoolType, PoolOK, NEW h \in Handlers, OnlyFor(h), queue' = queue,
         \/ /\ fs'[h] = fs[h] /\ job'[h] = job[h]
            /\ pc'[h] \in {pc[h], "cancelled"} \/ fs[h] # "queued"
         \/ /\ fs'[h] = fs[h] /\ pc'[h] = pc[h] /\ job[h] = "running"
  PROVE  PoolOK'
<1>1. ASSUME NEW i \in DOMAIN queue
      PROVE  LET g == queue[i].of
             IN  IF IsRun(queue[i]) THEN job'[g] = "queued"
                 ELSE fs'[g] = "queued" /\ pc'[g] \in {queue[i].kind, "cancelled"}
  <2>1. queue[i].of \in Handlers
    BY TasksTyped
  <2>2. CASE queue[i].of = h
    BY <2>2 DEF PoolOK
  <2>3. CASE queue[i].of # h
    BY <2>1, <2>3 DEF PoolOK, OnlyFor, SameFor
  <2>4. QED
    BY <2>2, <2>3
<1>2. QED
  BY <1>1 DEF PoolOK, IsRun

LEMMA PoolSubmits ==
  ASSUME PoolType, PoolOK, NEW h \in Handlers, OnlyFor(h),
         NEW kind \in Preparing \cup {"run", "rmdir"},
         queue' = Append(queue, Task(kind, h)),
         IF kind = "run"
         THEN /\ job[h] # "queued" /\ job'[h] = "queued"
              /\ fs'[h] = fs[h] /\ fs[h] # "queued"
         ELSE /\ fs[h] # "queued" /\ fs'[h] = "queued" /\ pc'[h] = kind
              /\ job'[h] = job[h]
  PROVE  PoolOK'
<1> DEFINE n == Len(queue)
<1>1. /\ n \in Nat /\ DOMAIN queue = 1 .. n /\ DOMAIN queue' = 1 .. n + 1
      /\ queue'[n + 1] = Task(kind, h)
      /\ \A i \in 1 .. n : queue'[i] = queue[i] /\ queue[i].of \in Handlers
  <2>1. Task(kind, h) \in TaskTypes
    BY DEF Task, TaskTypes
  <2>2. queue \in Seq(TaskTypes)
    BY DEF PoolType
  <2>3. \A i \in 1 .. Len(queue) : queue[i] \in TaskTypes
    BY <2>2
  <2>4. QED
    BY <2>1, <2>2, <2>3 DEF TaskTypes
<1>2. \A i \in 1 .. n : queue[i].of = h =>
        IF kind = "run" THEN IsRun(queue[i]) => FALSE ELSE IsRun(queue[i])
  BY <1>1 DEF PoolOK
<1>3. ASSUME NEW i \in 1 .. n
      PROVE  LET g == queue[i].of
             IN  IF IsRun(queue[i]) THEN job'[g] = "queued"
                 ELSE fs'[g] = "queued" /\ pc'[g] \in {queue[i].kind, "cancelled"}
  <2>1. CASE queue[i].of = h
    BY <1>1, <2>1 DEF PoolOK
  <2>2. CASE queue[i].of # h
    BY <1>1, <2>2 DEF PoolOK, OnlyFor, SameFor
  <2>3. QED
    BY <2>1, <2>2
<1>4. Task(kind, h).of = h /\ (IsRun(Task(kind, h)) <=> kind = "run")
      /\ Task(kind, h).kind = kind
  BY DEF Task, IsRun
<1>5. \A i \in DOMAIN queue' :
        LET g == queue'[i].of
        IN  IF IsRun(queue'[i]) THEN job'[g] = "queued"
            ELSE fs'[g] = "queued" /\ pc'[g] \in {queue'[i].kind, "cancelled"}
  <2>1. ASSUME NEW i \in 1 .. n + 1
        PROVE  LET g == queue'[i].of
               IN  IF IsRun(queue'[i]) THEN job'[g] = "queued"
                   ELSE fs'[g] = "queued" /\ pc'[g] \in {queue'[i].kind, "cancelled"}
    <3>1. CASE i = n + 1
      BY <1>1, <1>4, <3>1
    <3>2. CASE i \in 1 .. n
      BY <1>1, <1>3, <3>2
    <3>3. QED
      BY <1>1, <3>1, <3>2
  <2>2. QED
    BY <1>1, <2>1
<1>6. \A i, j \in DOMAIN queue' :
        queue'[i].of = queue'[j].of /\ (IsRun(queue'[i]) <=> IsRun(queue'[j]))
          => i = j
  <2>1. \A i, j \in 1 .. n :
          queue[i].of = queue[j].of /\ (IsRun(queue[i]) <=> IsRun(queue[j]))
            => i = j
    BY <1>1 DEF PoolOK
  <2>2. QED
    BY <1>1, <1>2, <1>4, <2>1
<1>7. QED
  BY <1>5, <1>6 DEF PoolOK, IsRun

LEMMA PoolTakes ==
  ASSUME PoolType, PoolOK, NEW h \in Handlers, NEW kinds, Take(kinds, h),
         OnlyFor(h), pc'[h] = pc[h],
         IF IsRun(queue[1]) THEN fs'[h] = fs[h] ELSE job'[h] = job[h]
  PROVE  PoolOK'
<1>1. /\ DOMAIN queue' = 1 .. Len(queue) - 1
      /\ DOMAIN queue = 1 .. Len(queue) /\ Len(queue) \in Nat
      /\ \A i \in DOMAIN queue' : queue'[i] = queue[i + 1]
      /\ 1 \in DOMAIN queue /\ queue[1].of = h
  BY TakenTask
<1>2. \A i \in DOMAIN queue' :
        queue[i + 1].of = h => (IsRun(queue[i + 1]) <=> ~IsRun(queue[1]))
  BY <1>1 DEF PoolOK
<1>3. \A i \in DOMAIN queue' : queue[i + 1].of \in Handlers
  BY <1>1, TasksTyped
<1>4. ASSUME NEW i \in DOMAIN queue'
      PROVE  LET g == queue'[i].of
             IN  IF IsRun(queue'[i]) THEN job'[g] = "queued"
                 ELSE fs'[g] = "queued" /\ pc'[g] \in {queue'[i].kind, "cancelled"}
  <2>1. /\ i + 1 \in DOMAIN queue /\ queue'[i] = queue[i + 1]
    BY <1>1
  <2>2. CASE queue[i + 1].of = h
    BY <1>2, <2>1, <2>2 DEF PoolOK
  <2>3. CASE queue[i + 1].of # h
    BY <1>3, <2>1, <2>3 DEF PoolOK, OnlyFor, SameFor
  <2>4. QED
    BY <2>2, <2>3
<1>5. \A i, j \in DOMAIN queue' :
        queue'[i].of = queue'[j].of /\ (IsRun(queue'[i]) <=> IsRun(queue'[j]))
          => i = j
  <2>1. ASSUME NEW i \in DOMAIN queue', NEW j \in DOMAIN queue',
               queue'[i].of = queue'[j].of, IsRun(queue'[i]) <=> IsRun(queue'[j])
        PROVE  i = j
    <3>1. i + 1 \in DOMAIN queue /\ j + 1 \in DOMAIN queue
      BY <1>1
    <3>2. i + 1 = j + 1
      BY <1>1, <2>1, <3>1 DEF PoolOK
    <3>3. QED
      BY <1>1, <3>2
  <2>2. QED
    BY <2>1
<1>6. QED
  BY <1>4, <1>5 DEF PoolOK, IsRun

LEMMA PoolKept ==
  ASSUME TypeOK, StagesOK, PoolOK, NEW h \in Handlers, StepOf(h)
  PROVE  PoolOK'
<1>0. ControlType /\ PoolType /\ AnswerType
  BY Types
<1>1. OnlyFor(h)
  BY StepIsLocal
<1>2. StageOf(h) /\ OutcomeOf(h)
  BY DEF StagesOK
<1>5. /\ Preparing = {"mkdir", "readme", "write"}
      /\ Executing = {"mkdir", "readme", "write", "run", "rmdir"}
  BY DEF Preparing, Executing
<1> USE <1>0, <1>1, <1>2, <1>5
    DEF ControlType, PoolType, StageOf, OutcomeOf, Untouched
<1>6. CASE Reject(h) \/ Arrive(h) \/ ServeInfo(h) \/ BeginHit(h)
  <2>1. /\ fs[h] # "queued" /\ queue' = queue
        /\ fs'[h] = fs[h] /\ job'[h] = job[h]
    BY <1>6 DEF Reject, Arrive, ServeInfo, BeginHit, Acquire, poolVars
  <2>2. QED
    BY <2>1, PoolFrame
<1>7. CASE FailPreparing(h) \/ ResumeCleanedUp(h) \/ Answer(h)
  <2>1. /\ fs[h] # "queued" /\ queue' = queue
        /\ fs'[h] = fs[h] /\ job'[h] = job[h]
    BY <1>7 DEF FailPreparing, ResumeCleanedUp, Answer, poolVars
  <2>2. QED
    BY <2>1, PoolFrame
<1>8. CASE BeginExecution(h) \/ ResumePreparing(h)
  <2>1. PICK kind \in Preparing : SubmitFs(kind, h) /\ pc'[h] = kind
    BY <1>8 DEF BeginExecution, ResumePreparing, Goto
  <2>2. fs[h] # "queued" /\ job'[h] = job[h] /\ fs'[h] = "queued"
    BY <1>8, <2>1 DEF BeginExecution, ResumePreparing, Acquire, SubmitFs
  <2>3. QED
    BY <2>1, <2>2, PoolSubmits DEF SubmitFs
<1>9. CASE ResumeWritten(h)
  <2>1. /\ queue' = Append(queue, Task("run", h))
        /\ job[h] # "queued" /\ job'[h] = "queued"
        /\ fs'[h] = fs[h] /\ fs[h] # "queued"
    BY <1>9 DEF ResumeWritten, SubmitJob
  <2>2. QED
    BY <2>1, PoolSubmits
<1>10. CASE ResumeJob(h) \/ Timeout(h)
  <2>1. /\ fs[h] # "queued" /\ pc'[h] = "rmdir" /\ job'[h] = job[h]
    BY <1>10 DEF ResumeJob, Timeout, CleanUp, Goto
  <2>2. CASE h \in dirs
    <3>1. /\ queue' = Append(queue, Task("rmdir", h)) /\ fs'[h] = "queued"
      BY <1>10, <2>2 DEF ResumeJob, Timeout, CleanUp, SubmitFs
    <3>2. QED
      BY <2>1, <3>1, PoolSubmits
  <2>3. CASE h \notin dirs
    <3>1. queue' = queue /\ fs'[h] = "ok" /\ fs[h] = "ok"
      BY <1>10, <2>3 DEF ResumeJob, Timeout, CleanUp
    <3>2. QED
      BY <2>1, <3>1, PoolFrame
  <2>4. QED
    BY <2>2, <2>3
<1>11. CASE Cancel(h)
  <2>1. queue' = queue /\ fs'[h] = fs[h] /\ job'[h] = job[h] /\ pc'[h] = "cancelled"
    BY <1>11 DEF Cancel, Goto, poolVars
  <2>2. QED
    BY <2>1, PoolFrame
<1>12. CASE FailJob(h) \/ FinishJob(h)
  <2>1. /\ queue' = queue /\ fs'[h] = fs[h] /\ pc'[h] = pc[h]
        /\ job[h] = "running"
    BY <1>12 DEF FailJob, FinishJob
  <2>2. QED
    BY <2>1, PoolFrame
<1>13. CASE DbStep(h)
  <2>1. queue' = queue /\ fs'[h] = fs[h] /\ job'[h] = job[h] /\ pc'[h] = pc[h]
    BY <1>13 DEF DbStep, ExecuteInsert, FailInsert, poolVars
  <2>2. QED
    BY <2>1, PoolFrame
<1>14. CASE RunFs(h) \/ FailFs(h)
  <2>1. /\ Take(Preparing \cup {"rmdir"}, h)
        /\ pc'[h] = pc[h] /\ job'[h] = job[h]
    BY <1>14 DEF RunFs, FailFs
  <2>2. ~IsRun(queue[1])
    <3>1. queue[1].kind \in Preparing \cup {"rmdir"}
      BY <2>1, TakenTask
    <3>2. QED
      BY <3>1 DEF IsRun
  <2>3. QED
    BY <2>1, <2>2, PoolTakes
<1>15. CASE StartJob(h)
  <2>1. Take({"run"}, h) /\ pc'[h] = pc[h] /\ fs'[h] = fs[h]
    BY <1>15 DEF StartJob
  <2>2. IsRun(queue[1])
    BY <2>1, TakenTask DEF IsRun
  <2>3. QED
    BY <2>1, <2>2, PoolTakes
<1>16. QED
  BY <1>6, <1>7, <1>8, <1>9, <1>10, <1>11, <1>12, <1>13, <1>14, <1>15
  DEF StepOf, HandlerStep, PoolStep

-----------------------------------------------------------------------------
(* The mutex's queue.                                                      *)

\* What a step of h may do to the queue.
Stays(h) == waiters' = waiters /\ (pc'[h] = "waiting" <=> pc[h] = "waiting")

Joins(h) ==
  /\ pc[h] = "idle" /\ pc'[h] = "waiting"
  /\ waiters' = Append(waiters, h)

\* Only a handler that hangs up leaves from any other place than the first.
Leaves(h, k) ==
  /\ pc[h] = "waiting" /\ pc'[h] # "waiting"
  /\ waiters[k] = h
  /\ k = 1 \/ pc'[h] = "cancelled"
  /\ DOMAIN waiters' = 1 .. Len(waiters) - 1
  /\ \A j \in DOMAIN waiters' :
       waiters'[j] = waiters[IF j < k THEN j ELSE j + 1]

(***************************************************************************)
(* A step leaves the queue alone, joins it at the end or leaves it.        *)
(***************************************************************************)
LEMMA LineSteps ==
  ASSUME TypeOK, LineOK, NEW h \in Handlers, StepOf(h)
  PROVE  Stays(h) \/ Joins(h) \/ \E k \in DOMAIN waiters : Leaves(h, k)
<1>0. /\ ControlType
      /\ waiters \in Seq(Handlers)
      /\ DOMAIN waiters = 1 .. Len(waiters) /\ Len(waiters) \in Nat
  BY Types DEF ControlType
<1> USE <1>0
<1>1. CASE Arrive(h)
  BY <1>1 DEF Arrive, Goto, ControlType, Joins
<1>2. CASE ServeInfo(h) \/ BeginHit(h) \/ BeginExecution(h)
  <2>1. Acquire(h) /\ pc'[h] # "waiting"
    BY <1>2 DEF ServeInfo, BeginHit, BeginExecution, Record, Goto, ControlType
  <2>2. /\ pc[h] = "waiting" /\ Head(waiters) = h /\ waiters' = Tail(waiters)
    BY <2>1 DEF Acquire
  <2>3. /\ waiters # << >>
        /\ Tail(waiters) \in Seq(Handlers)
        /\ Len(Tail(waiters)) = Len(waiters) - 1
        /\ \A i \in 1 .. Len(waiters) - 1 : Tail(waiters)[i] = waiters[i + 1]
    BY <2>2, LineServed
  <2>4. 1 \in DOMAIN waiters /\ waiters[1] = h
    BY <2>2, <2>3
  <2>5. /\ DOMAIN waiters' = 1 .. Len(waiters) - 1
        /\ \A j \in DOMAIN waiters' :
             waiters'[j] = waiters[IF j < 1 THEN j ELSE j + 1]
    BY <2>2, <2>3
  <2>6. Leaves(h, 1)
    BY <2>1, <2>2, <2>4, <2>5 DEF Leaves
  <2>7. QED
    BY <2>4, <2>6
<1>3. CASE Cancel(h)
  <2>1. pc'[h] = "cancelled"
    BY <1>3 DEF Cancel, Goto, ControlType
  <2>2. CASE pc[h] = "waiting"
    <3>1. PICK k \in DOMAIN waiters :
            /\ waiters[k] = h
            /\ waiters' = [j \in 1 .. Len(waiters) - 1 |->
                             waiters[IF j < k THEN j ELSE j + 1]]
      BY <1>3, <2>2 DEF Cancel, LeaveLine
    <3>2. /\ DOMAIN waiters' = 1 .. Len(waiters) - 1
          /\ \A j \in DOMAIN waiters' :
               waiters'[j] = waiters[IF j < k THEN j ELSE j + 1]
      BY <3>1
    <3>3. Leaves(h, k)
      BY <2>1, <2>2, <3>1, <3>2 DEF Leaves
    <3>4. QED
      BY <3>3
  <2>3. CASE pc[h] # "waiting"
    BY <1>3, <2>1, <2>3 DEF Cancel, Stays
  <2>4. QED
    BY <2>2, <2>3
<1>4. CASE Reject(h) \/ ResumePreparing(h) \/ ResumeWritten(h) \/ FailPreparing(h)
  BY <1>4
  DEF Reject, ResumePreparing, ResumeWritten, FailPreparing, Goto, lockVars,
      ControlType, Preparing, Stays
<1>5. CASE ResumeJob(h) \/ Timeout(h) \/ ResumeCleanedUp(h) \/ Answer(h)
  BY <1>5
  DEF ResumeJob, Timeout, CleanUp, ResumeCleanedUp, Record, Answer, Goto,
      lockVars, ControlType, Stays
<1>6. CASE PoolStep(h) \/ FailJob(h) \/ FinishJob(h) \/ DbStep(h)
  BY <1>6
  DEF PoolStep, RunFs, FailFs, StartJob, FailJob, FinishJob, DbStep,
      ExecuteInsert, FailInsert, lockVars, Stays
<1>7. QED
  BY <1>1, <1>2, <1>3, <1>4, <1>5, <1>6 DEF StepOf, HandlerStep

LEMMA LineKept ==
  ASSUME TypeOK, LineOK, NEW h \in Handlers, StepOf(h)
  PROVE  LineOK'
<1>0. /\ ControlType
      /\ waiters \in Seq(Handlers)
      /\ DOMAIN waiters = 1 .. Len(waiters) /\ Len(waiters) \in Nat
  BY Types DEF ControlType
<1>1. OnlyFor(h)
  BY StepIsLocal
<1>2. \A g \in Handlers \ {h} : pc'[g] = pc[g]
  BY <1>1 DEF OnlyFor, SameFor
<1> USE <1>0
<1>3. ASSUME waiters' = waiters, pc'[h] = "waiting" <=> pc[h] = "waiting"
      PROVE  LineOK'
  <2>1. \A g \in Handlers : pc'[g] = "waiting" <=> pc[g] = "waiting"
    BY <1>2, <1>3
  <2>2. QED
    BY <1>3, <2>1 DEF LineOK, WaitersInLine
<1>4. CASE Joins(h)
  <2>1. /\ pc[h] = "idle" /\ pc'[h] = "waiting"
        /\ waiters' = Append(waiters, h)
    BY <1>4 DEF Joins
  <2>2. /\ DOMAIN waiters' = 1 .. Len(waiters) + 1
        /\ waiters'[Len(waiters) + 1] = h
        /\ \A i \in 1 .. Len(waiters) : waiters'[i] = waiters[i]
    BY <2>1
  <2>3. \A i \in 1 .. Len(waiters) : waiters[i] # h
    BY <2>1 DEF LineOK, WaitersInLine
  <2>4. ASSUME NEW g \in Handlers
        PROVE  pc'[g] = "waiting" <=> \E i \in DOMAIN waiters' : waiters'[i] = g
    <3>1. CASE g = h
      BY <2>1, <2>2, <3>1
    <3>2. CASE g # h
      <4>1. pc[g] = "waiting" <=> \E i \in 1 .. Len(waiters) : waiters[i] = g
        BY DEF LineOK, WaitersInLine
      <4>2. QED
        BY <1>2, <2>2, <3>2, <4>1
    <3>3. QED
      BY <3>1, <3>2
  <2>5. \A i, j \in DOMAIN waiters' : waiters'[i] = waiters'[j] => i = j
    BY <2>2, <2>3 DEF LineOK
  <2>6. QED
    BY <2>4, <2>5 DEF LineOK, WaitersInLine
<1>5. ASSUME NEW k \in DOMAIN waiters, Leaves(h, k)
      PROVE  LineOK'
  <2> USE <1>5 DEF Leaves
  <2>1. \A j \in DOMAIN waiters' :
          (IF j < k THEN j ELSE j + 1) \in DOMAIN waiters \ {k}
    BY <1>5
  <2>2. \A i \in DOMAIN waiters \ {k} :
          \E j \in DOMAIN waiters' : i = IF j < k THEN j ELSE j + 1
    <3>1. ASSUME NEW i \in DOMAIN waiters \ {k}
          PROVE  \E j \in DOMAIN waiters' : i = IF j < k THEN j ELSE j + 1
      <4>1. CASE i < k
        BY <1>5, <4>1
      <4>2. CASE i > k
        <5>1. i - 1 \in DOMAIN waiters' /\ ~(i - 1 < k) /\ i = (i - 1) + 1
          BY <1>5, <4>2
        <5>2. QED
          BY <5>1
      <4>3. QED
        BY <4>1, <4>2
    <3>2. QED
      BY <3>1
  <2>3. \A i \in DOMAIN waiters \ {k} : waiters[i] # h
    BY <1>5 DEF LineOK
  <2>4. ASSUME NEW g \in Handlers
        PROVE  pc'[g] = "waiting" <=> \E i \in DOMAIN waiters' : waiters'[i] = g
    <3>1. CASE g = h
      BY <1>5, <2>1, <2>3, <3>1
    <3>2. CASE g # h
      <4>1. pc[g] = "waiting" <=> \E i \in DOMAIN waiters \ {k} : waiters[i] = g
        BY <1>5, <3>2 DEF LineOK, WaitersInLine
      <4>2. (\E i \in DOMAIN waiters \ {k} : waiters[i] = g)
              <=> \E j \in DOMAIN waiters' : waiters'[j] = g
        BY <1>5, <2>1, <2>2
      <4>3. QED
        BY <1>2, <3>2, <4>1, <4>2
    <3>3. QED
      BY <3>1, <3>2
  <2>5. ASSUME NEW i \in DOMAIN waiters', NEW j \in DOMAIN waiters',
               waiters'[i] = waiters'[j]
        PROVE  i = j
    <3>1. (IF i < k THEN i ELSE i + 1) = (IF j < k THEN j ELSE j + 1)
      BY <1>5, <2>1, <2>5 DEF LineOK
    <3>2. QED
      BY <1>5, <3>1
  <2>6. QED
    BY <2>4, <2>5 DEF LineOK, WaitersInLine
<1>6. QED
  BY <1>3, <1>4, <1>5, LineSteps DEF Stays

\* g waits for the mutex ahead of h.
AheadOf(g, h) ==
  \E i, j \in DOMAIN waiters : i < j /\ waiters[i] = g /\ waiters[j] = h

\* A step in which h does not get the mutex and g stays ahead of it, unless
\* one of them is gone from the queue.
KeepsOrder(g, h) ==
  /\ pc'[h] \in {"waiting", "cancelled", "lost"}
  /\ pc'[g] = "waiting" /\ pc'[h] = "waiting" => AheadOf(g, h)'

(***************************************************************************)
(* No step of a handler lets one that waits overtake another.              *)
(***************************************************************************)
LEMMA OrderKept ==
  ASSUME TypeOK, LineOK, NEW k \in Handlers, StepOf(k),
         NEW g \in Handlers, NEW h \in Handlers, AheadOf(g, h)
  PROVE  KeepsOrder(g, h)
<1>0. /\ waiters \in Seq(Handlers)
      /\ DOMAIN waiters = 1 .. Len(waiters) /\ Len(waiters) \in Nat
  BY Types DEF ControlType
<1> USE <1>0
<1>1. \A f \in Handlers \ {k} : pc'[f] = pc[f]
  BY StepIsLocal DEF OnlyFor, SameFor
<1>2. PICK i \in DOMAIN waiters, j \in DOMAIN waiters :
        i < j /\ waiters[i] = g /\ waiters[j] = h
  BY DEF AheadOf
<1>3. pc[g] = "waiting" /\ pc[h] = "waiting"
  BY <1>2 DEF LineOK, WaitersInLine
<1>4. CASE Stays(k)
  <2>1. AheadOf(g, h)'
    BY <1>2, <1>4 DEF Stays, AheadOf
  <2>2. pc'[h] = "waiting"
    BY <1>1, <1>3, <1>4 DEF Stays
  <2>3. QED
    BY <2>1, <2>2 DEF KeepsOrder
<1>5. CASE Joins(k)
  <2>1. pc'[h] = "waiting"
    BY <1>1, <1>3, <1>5 DEF Joins
  <2>2. /\ i \in DOMAIN waiters' /\ j \in DOMAIN waiters'
        /\ waiters'[i] = g /\ waiters'[j] = h
    BY <1>2, <1>5 DEF Joins
  <2>3. AheadOf(g, h)'
    BY <1>2, <2>2 DEF AheadOf
  <2>4. QED
    BY <2>1, <2>3 DEF KeepsOrder
<1>6. ASSUME NEW p \in DOMAIN waiters, Leaves(k, p)
      PROVE  KeepsOrder(g, h)
  <2> USE <1>6 DEF Leaves
  <2>1. CASE k = h
    <3>1. p = j
      BY <1>2, <2>1 DEF LineOK
    <3>2. pc'[h] = "cancelled"
      BY <1>2, <2>1, <3>1
    <3>3. QED
      BY <3>2 DEF KeepsOrder
  <2>2. CASE k # h
    <3>1. pc'[h] = "waiting"
      BY <1>1, <1>3, <2>2
    <3>2. CASE k = g
      BY <3>1, <3>2 DEF KeepsOrder
    <3>3. CASE k # g
      <4>1. i # p /\ j # p
        BY <1>2, <2>2, <3>3
      <4> DEFINE Place(n) == IF n < p THEN n ELSE n - 1
      <4>2. ASSUME NEW n \in DOMAIN waiters, n # p
            PROVE  /\ Place(n) \in DOMAIN waiters'
                   /\ waiters'[Place(n)] = waiters[n]
        <5>1. CASE n < p
          BY <4>2, <5>1
        <5>2. CASE n > p
          <6>1. n - 1 \in DOMAIN waiters' /\ ~(n - 1 < p) /\ Place(n) = n - 1
                /\ (n - 1) + 1 = n
            BY <4>2, <5>2
          <6>2. QED
            BY <6>1
        <5>3. QED
          BY <4>2, <5>1, <5>2
      <4>3. Place(i) < Place(j)
        BY <1>2, <4>1
      <4> HIDE DEF Place
      <4>4. AheadOf(g, h)'
        BY <1>2, <4>1, <4>2, <4>3 DEF AheadOf
      <4>5. QED
        BY <3>1, <4>4 DEF KeepsOrder
    <3>4. QED
      BY <3>2, <3>3
  <2>3. QED
    BY <2>1, <2>2
<1>7. QED
  BY <1>4, <1>5, <1>6, LineSteps

-----------------------------------------------------------------------------
(* Answers and the table.                                                  *)

LEMMA BuiltIsResponse ==
  ASSUME PoolType, NEW h \in Handlers
  PROVE  Built(h) \in Response /\ Built(h) # NoResponse
<1>1. Built(h) \in Response
  BY DEF PoolType, Built, Response
<1>2. QED
  BY <1>1, CacheAssumption

LEMMA StoredIsResponse ==
  ASSUME CacheType, NEW s \in DOMAIN entries
  PROVE  LET r == entries[s].response
         IN  r \in Response /\ r # NoResponse /\ r.execution_id \in Handlers
<1> DEFINE r == entries[s].response
<1>1. r \in Response
  BY DEF CacheType, Cache!IsEntryMap, Cache!Entry
<1>2. r.execution_id \in Handlers
  BY <1>1 DEF Response
<1>3. QED
  BY <1>1, <1>2, CacheAssumption

LEMMA RenewedIsResponse ==
  ASSUME CacheType, NEW s \in DOMAIN entries, NEW h \in Handlers
  PROVE  LET r == Renewed(entries[s].response, h)
         IN  /\ r \in Response /\ r # NoResponse /\ r.execution_id = h
             /\ r.success = entries[s].response.success
             /\ r.stdout = entries[s].response.stdout
<1> DEFINE r == entries[s].response
<1>1. r \in Response
  BY StoredIsResponse
<1>2. /\ Renewed(r, h) \in Response
      /\ Renewed(r, h).execution_id = h
      /\ Renewed(r, h).success = r.success
      /\ Renewed(r, h).stdout = r.stdout
  BY <1>1 DEF Response, Renewed
<1>3. QED
  BY <1>1, <1>2, CacheAssumption

LEMMA RowIsTyped ==
  ASSUME AnswerType, StagesOK, NEW h \in Handlers, insertion[h] # "none"
  PROVE  RowOf(h) \in Row /\ RowOf(h).id = h
<1>1. /\ response[h] # NoResponse /\ response[h].execution_id = h
      /\ request[h] \in ExecuteRequest
  BY DEF StagesOK, OutcomeOf
<1>2. response[h] \in Response
  BY <1>1 DEF AnswerType
<1>3. QED
  BY <1>1, <1>2 DEF Response, ExecuteRequest, RowOf, Row

LEMMA AnswerTypeKept ==
  ASSUME TypeOK, StagesOK, NEW h \in Handlers, StepOf(h)
  PROVE  AnswerType'
<1>0. ControlType /\ PoolType /\ AnswerType /\ CacheType
  BY Types
<1> USE <1>0 DEF AnswerType, InsertionTypes
<1>1. CASE BeginHit(h)
  <2>1. PICK s \in DOMAIN entries : Record(h, Renewed(entries[s].response, h))
    BY <1>1 DEF BeginHit
  <2>2. QED
    BY <1>1, <2>1, RenewedIsResponse DEF BeginHit, Record
<1>2. CASE ResumeCleanedUp(h)
  BY <1>2, BuiltIsResponse DEF ResumeCleanedUp, Record
<1>3. CASE ResumeJob(h) \/ Timeout(h)
  BY <1>3 DEF ResumeJob, Timeout, CleanUp, dbVars
<1>4. CASE ExecuteInsert(h)
  <2>1. RowOf(h) \in Row
    BY <1>4, RowIsTyped DEF ExecuteInsert
  <2>2. QED
    BY <1>4, <2>1 DEF ExecuteInsert, RowOf
<1>5. CASE FailInsert(h) \/ Cancel(h)
  BY <1>5 DEF FailInsert, Cancel
<1>6. CASE Reject(h) \/ Arrive(h) \/ ServeInfo(h) \/ BeginExecution(h)
  BY <1>6 DEF Reject, Arrive, ServeInfo, BeginExecution, dbVars
<1>7. CASE \/ ResumePreparing(h) \/ ResumeWritten(h) \/ FailPreparing(h)
           \/ Answer(h)
  BY <1>7 DEF ResumePreparing, ResumeWritten, FailPreparing, Answer, dbVars
<1>8. CASE PoolStep(h) \/ FailJob(h) \/ FinishJob(h)
  BY <1>8 DEF PoolStep, RunFs, FailFs, StartJob, FailJob, FinishJob, dbVars
<1>9. QED
  BY <1>1, <1>2, <1>3, <1>4, <1>5, <1>6, <1>7, <1>8
  DEF StepOf, HandlerStep, DbStep

(***************************************************************************)
(* Whatever has been recorded stays recorded, and nothing else appears.    *)
(***************************************************************************)
LEMMA TableFrame ==
  ASSUME AnswerType, StagesOK, TableOK, Settled, rows' = rows,
         \A g \in Handlers : insertion'[g] = "ok" => insertion[g] = "ok"
  PROVE  TableOK'
<1>1. ASSUME NEW g \in Handlers, insertion[g] = "ok"
      PROVE  RowOf(g)' = RowOf(g)
  <2>1. response[g] # NoResponse
    BY <1>1 DEF StagesOK, OutcomeOf
  <2>2. response'[g] = response[g] /\ request'[g] = request[g]
    BY <2>1 DEF Settled
  <2>3. QED
    BY <2>2 DEF RowOf
<1>2. \A row \in rows : row.id \in Handlers
  BY DEF AnswerType, Row
<1>3. QED
  BY <1>1, <1>2 DEF TableOK, Settled

LEMMA TableKept ==
  ASSUME TypeOK, StagesOK, PoolOK, TableOK, NEW h \in Handlers, StepOf(h)
  PROVE  TableOK'
<1>0. ControlType /\ PoolType /\ AnswerType
  BY Types
<1>1. OnlyFor(h) /\ Settled
  BY StepIsLocal, StepsSettle
<1>2. \A g \in Handlers \ {h} : insertion'[g] = insertion[g]
  BY <1>1 DEF OnlyFor, SameFor
<1>3. CASE ExecuteInsert(h)
  <2>1. RowOf(h) \in Row /\ RowOf(h).id = h
    BY <1>0, <1>3, RowIsTyped DEF ExecuteInsert
  <2>2. \A row \in rows : row.id # h
    BY <1>3 DEF ExecuteInsert, TableOK
  <2>3. /\ rows' = rows \cup {RowOf(h)}
        /\ insertion' = [insertion EXCEPT ![h] = "ok"]
        /\ \A g \in Handlers : RowOf(g)' = RowOf(g)
    BY <1>3, <2>1, <2>2 DEF ExecuteInsert, RowOf
  <2>4. \A row \in rows : row.id \in Handlers
    BY <1>0 DEF AnswerType, Row
  <2>5. \A g \in Handlers : insertion'[g] = "ok" => RowOf(g)' \in rows'
    BY <1>0, <2>3 DEF AnswerType, TableOK
  <2>6. ASSUME NEW row \in rows'
        PROVE  insertion'[row.id] = "ok" /\ row = RowOf(row.id)'
    BY <1>0, <2>1, <2>3, <2>4 DEF AnswerType, TableOK
  <2>7. QED
    BY <2>5, <2>6 DEF TableOK
<1>4. CASE ~ExecuteInsert(h)
  <2>1. rows' = rows /\ (insertion'[h] = "ok" => insertion[h] = "ok")
    <3>1. CASE Reject(h) \/ Arrive(h) \/ ServeInfo(h) \/ BeginExecution(h)
      BY <3>1 DEF Reject, Arrive, ServeInfo, BeginExecution, dbVars
    <3>2. CASE BeginHit(h) \/ ResumeCleanedUp(h)
      BY <1>0, <3>2 DEF BeginHit, ResumeCleanedUp, Record, AnswerType
    <3>3. CASE \/ ResumePreparing(h) \/ ResumeWritten(h) \/ FailPreparing(h)
               \/ ResumeJob(h) \/ Timeout(h) \/ Answer(h)
      BY <3>3
      DEF ResumePreparing, ResumeWritten, FailPreparing, ResumeJob, Timeout,
          CleanUp, Answer, dbVars
    <3>4. CASE Cancel(h) \/ FailInsert(h)
      BY <1>0, <3>4 DEF Cancel, FailInsert, AnswerType
    <3>5. CASE PoolStep(h) \/ FailJob(h) \/ FinishJob(h)
      BY <3>5 DEF PoolStep, RunFs, FailFs, StartJob, FailJob, FinishJob, dbVars
    <3>6. QED
      BY <1>4, <3>1, <3>2, <3>3, <3>4, <3>5 DEF StepOf, HandlerStep, DbStep
  <2>2. \A g \in Handlers : insertion'[g] = "ok" => insertion[g] = "ok"
    BY <1>2, <2>1
  <2>3. QED
    BY <1>0, <1>1, <2>1, <2>2, TableFrame
<1>5. QED
  BY <1>3, <1>4

-----------------------------------------------------------------------------
(* What is stored.                                                         *)

(***************************************************************************)
(* The hash of a key is a slot, and a key says no less than its program.   *)
(***************************************************************************)
LEMMA KeyOfProgram ==
  ASSUME NEW h \in Handlers, request[h] \in ExecuteRequest
  PROVE  /\ request[h].program \in Program
         /\ CacheKey(request[h].program) = request[h].program
         /\ HashOf[CacheKey(request[h].program)] \in Slots
<1>1. request[h].program \in Program
  BY DEF ExecuteRequest
<1>2. CacheKey(request[h].program) = request[h].program
  BY <1>1 DEF CacheKey, Program
<1>3. QED
  BY <1>1, <1>2, CacheAssumption

(***************************************************************************)
(* The instance of the cache has a copy of IsFiniteSet.                    *)
(***************************************************************************)
LEMMA FiniteAlike == \A S : Cache!IsFiniteSet(S) <=> IsFiniteSet(S)
  BY DEF Cache!IsFiniteSet, IsFiniteSet

LEMMA SubmapTyped ==
  ASSUME CacheType, DOMAIN entries' \subseteq DOMAIN entries,
         entries' = [s \in DOMAIN entries' |-> entries[s]],
         hits' \in Nat, misses' \in Nat
  PROVE  CacheType'
<1>1. IsFiniteSet(DOMAIN entries')
  BY FS_Subset, FiniteAlike DEF CacheType, Cache!IsEntryMap
<1>2. QED
  BY <1>1, FiniteAlike DEF CacheType, Cache!IsEntryMap

LEMMA CacheTypeKept ==
  ASSUME TypeOK, StagesOK, NEW h \in Handlers, StepOf(h)
  PROVE  CacheType'
<1>0. PoolType /\ CacheType
  BY Types
<1>1. CASE BeginExecution(h)
  <2>1. CASE entries' = entries /\ hits' = hits /\ misses' = misses
    BY <1>0, <2>1 DEF CacheType
  <2>2. CASE Cache!GetMiss(CacheKey(request[h].program), NoResponse)
    BY <1>0, <2>2, SubmapTyped DEF Cache!GetMiss, Cache!Keep, CacheType
  <2>3. QED
    BY <1>1, <2>1, <2>2 DEF BeginExecution, cacheVars
<1>2. CASE BeginHit(h)
  <2>1. entries' = entries /\ hits' = hits + 1 /\ misses' = misses
    BY <1>2 DEF BeginHit, Cache!GetHit
  <2>2. QED
    BY <1>0, <2>1 DEF CacheType
<1>3. CASE ResumeCleanedUp(h)
  <2>1. CASE UNCHANGED cacheVars
    BY <1>0, <2>1 DEF CacheType, cacheVars
  <2>2. CASE Cache!Insert(CacheKey(request[h].program), Built(h))
    <3> DEFINE slot == HashOf[CacheKey(request[h].program)]
               e == [response |-> Built(h), elapsed |-> 0, ttl |-> Ttl]
    <3>1. request[h] \in ExecuteRequest
      BY <1>3 DEF ResumeCleanedUp, StagesOK, StageOf, Executing
    <3>2. slot \in Slots
      BY <3>1, KeyOfProgram
    <3>3. e \in Cache!Entry
      BY <1>0, BuiltIsResponse, CacheAssumption DEF Cache!Entry, Cache!Elapsed
    <3>4. /\ hits' = hits /\ misses' = misses
          /\ DOMAIN entries' \subseteq DOMAIN entries \cup {slot}
          /\ \A s \in DOMAIN entries' :
               entries'[s] = IF s = slot THEN e ELSE entries[s]
          /\ entries' = [s \in DOMAIN entries' |-> entries'[s]]
      BY <1>0, <2>2, InsertPuts
    <3>5. IsFiniteSet(DOMAIN entries')
      <4>1. IsFiniteSet(DOMAIN entries \cup {slot})
        BY <1>0, FS_AddElement, FiniteAlike DEF CacheType, Cache!IsEntryMap
      <4>2. QED
        BY <3>4, <4>1, FS_Subset
    <3>6. \A s \in DOMAIN entries' : entries'[s] \in Cache!Entry
      BY <1>0, <3>3, <3>4 DEF CacheType, Cache!IsEntryMap
    <3>7. DOMAIN entries' \subseteq Slots
      BY <1>0, <3>2, <3>4 DEF CacheType, Cache!IsEntryMap
    <3>8. QED
      BY <1>0, <3>4, <3>5, <3>6, <3>7, FiniteAlike DEF CacheType, Cache!IsEntryMap
  <2>3. QED
    BY <1>3, <2>1, <2>2 DEF ResumeCleanedUp
<1>4. CASE ~(BeginExecution(h) \/ BeginHit(h) \/ ResumeCleanedUp(h))
  <2>1. UNCHANGED cacheVars
    BY <1>4
    DEF StepOf, HandlerStep, Reject, Arrive, ServeInfo, ResumePreparing,
        ResumeWritten, FailPreparing, ResumeJob, Timeout, CleanUp, Answer,
        Cancel, PoolStep, RunFs, FailFs, StartJob, FailJob, FinishJob, DbStep,
        ExecuteInsert, FailInsert
  <2>2. QED
    BY <1>0, <2>1 DEF CacheType, cacheVars
<1>5. QED
  BY <1>1, <1>2, <1>3, <1>4

(***************************************************************************)
(* Slots are emptied, or filled with the response of an execution that     *)
(* ends.                                                                   *)
(***************************************************************************)
Stored(s) ==
  LET r == entries[s].response
      g == r.execution_id
  IN  /\ r.success /\ ~r.cached
      /\ result[g] = "ok"
      /\ r.stdout = stdout[g]
      /\ r.stdout # NoOutput
      /\ HashOf[r.stdout.program] = s
      /\ response[g] = r
      /\ pc[g] \in {"recording", "answered", "cancelled"}

LEMMA StoredEach == StoredOK <=> \A s \in DOMAIN entries : Stored(s)
  BY DEF StoredOK, CacheHoldsRuns, Stored

LEMMA StoredStays ==
  ASSUME CacheType, StoredOK, Settled,
         \A g \in Handlers :
           pc[g] \in {"recording", "answered", "cancelled"} =>
             pc'[g] \in {"recording", "answered", "cancelled"},
         NEW s \in DOMAIN entries, s \in DOMAIN entries',
         entries'[s].response = entries[s].response
  PROVE  Stored(s)'
<1> DEFINE r == entries[s].response
           g == r.execution_id
<1>1. g \in Handlers /\ r # NoResponse
  BY StoredIsResponse
<1>2. Stored(s)
  BY StoredEach
<1>3. /\ result'[g] = "ok" /\ stdout'[g] = stdout[g]
      /\ response'[g] = response[g]
      /\ pc'[g] \in {"recording", "answered", "cancelled"}
  BY <1>1, <1>2 DEF Stored, Settled
<1>4. QED
  BY <1>2, <1>3 DEF Stored

LEMMA EndsAreKept ==
  ASSUME TypeOK, NEW h \in Handlers, StepOf(h), NEW g \in Handlers,
         pc[g] \in {"recording", "answered", "cancelled"}
  PROVE  pc'[g] \in {"recording", "answered", "cancelled"}
<1>1. ControlType /\ OnlyFor(h)
  BY Types, StepIsLocal
<1>2. CASE g # h
  BY <1>1, <1>2 DEF OnlyFor, SameFor
<1>3. CASE g = h
  <2>1. CASE Answer(h) \/ Cancel(h)
    BY <1>1, <1>3, <2>1 DEF Answer, Cancel, Goto, ControlType
  <2>2. CASE PoolStep(h) \/ FailJob(h) \/ FinishJob(h) \/ DbStep(h)
    BY <1>3, <2>2
    DEF PoolStep, RunFs, FailFs, StartJob, FailJob, FinishJob, DbStep,
        ExecuteInsert, FailInsert
  <2>3. CASE Reject(h) \/ Arrive(h) \/ ServeInfo(h) \/ BeginHit(h) \/ BeginExecution(h)
    BY <1>3, <2>3 DEF Reject, Arrive, ServeInfo, BeginHit, BeginExecution, Acquire
  <2>4. CASE \/ ResumePreparing(h) \/ ResumeWritten(h) \/ FailPreparing(h)
             \/ ResumeJob(h) \/ Timeout(h) \/ ResumeCleanedUp(h)
    BY <1>3, <2>4
    DEF ResumePreparing, ResumeWritten, FailPreparing, ResumeJob, Timeout,
        ResumeCleanedUp, Preparing
  <2>5. QED
    BY <2>1, <2>2, <2>3, <2>4 DEF StepOf, HandlerStep
<1>4. QED
  BY <1>2, <1>3

(***************************************************************************)
(* No step but the end of an execution stores anything.                    *)
(***************************************************************************)
LEMMA OnlyEndsStore ==
  ASSUME NEW h \in Handlers, StepOf(h),
         ~(ResumeCleanedUp(h)
             /\ Cache!Insert(CacheKey(request[h].program), Built(h))
             /\ Built(h).success)
  PROVE  \A s \in DOMAIN entries' :
           s \in DOMAIN entries /\ entries'[s] = entries[s]
<1>1. CASE BeginExecution(h)
  BY <1>1 DEF BeginExecution, Cache!GetMiss, Cache!Keep, cacheVars
<1>2. CASE BeginHit(h)
  BY <1>2 DEF BeginHit, Cache!GetHit
<1>3. CASE ResumeCleanedUp(h)
  BY <1>3 DEF ResumeCleanedUp, cacheVars
<1>4. CASE ~(BeginExecution(h) \/ BeginHit(h) \/ ResumeCleanedUp(h))
  <2>1. UNCHANGED cacheVars
    BY <1>4
    DEF StepOf, HandlerStep, Reject, Arrive, ServeInfo, ResumePreparing,
        ResumeWritten, FailPreparing, ResumeJob, Timeout, CleanUp, Answer,
        Cancel, PoolStep, RunFs, FailFs, StartJob, FailJob, FinishJob, DbStep,
        ExecuteInsert, FailInsert
  <2>2. QED
    BY <2>1 DEF cacheVars
<1>5. QED
  BY <1>1, <1>2, <1>3, <1>4

(***************************************************************************)
(* The response of a successful execution, when it is built.               *)
(***************************************************************************)
LEMMA SuccessIsBuilt ==
  ASSUME TypeOK, StagesOK, NEW h \in Handlers, ResumeCleanedUp(h),
         Built(h).success
  PROVE  /\ result[h] = "ok" /\ request[h] \in ExecuteRequest
         /\ stdout[h] # NoOutput
         /\ stdout[h].program = request[h].program
         /\ UNCHANGED <<request, stdout, result>>
         /\ pc'[h] = "recording" /\ response'[h] = Built(h)
<1>1. ControlType /\ AnswerType
  BY Types
<1>2. result[h] = "ok"
  BY DEF Built
<1>3. /\ request[h] \in ExecuteRequest /\ stdout[h] # NoOutput
      /\ stdout[h].program = request[h].program
  BY <1>2 DEF ResumeCleanedUp, StagesOK, StageOf, OutcomeOf, Executing
<1>4. QED
  BY <1>1, <1>2, <1>3
  DEF ControlType, AnswerType, ResumeCleanedUp, Record, Goto, poolVars

LEMMA StoredKept ==
  ASSUME TypeOK, StagesOK, PoolOK, StoredOK, NEW h \in Handlers, StepOf(h)
  PROVE  StoredOK'
<1>0. PoolType /\ CacheType /\ Settled
  BY Types, StepsSettle
<1>1. \A g \in Handlers :
        pc[g] \in {"recording", "answered", "cancelled"} =>
          pc'[g] \in {"recording", "answered", "cancelled"}
  BY EndsAreKept
<1>2. CASE /\ ResumeCleanedUp(h)
           /\ Cache!Insert(CacheKey(request[h].program), Built(h))
           /\ Built(h).success
  <2> DEFINE slot == HashOf[CacheKey(request[h].program)]
             e == [response |-> Built(h), elapsed |-> 0, ttl |-> Ttl]
  <2>1. /\ DOMAIN entries' \subseteq DOMAIN entries \cup {slot}
        /\ \A s \in DOMAIN entries' :
             entries'[s] = IF s = slot THEN e ELSE entries[s]
    BY <1>0, <1>2, InsertPuts
  <2>2. ASSUME NEW s \in DOMAIN entries', s = slot
        PROVE  Stored(s)'
    <3>1. entries'[s].response = Built(h)
      BY <2>1, <2>2
    <3>2. /\ Built(h).execution_id = h /\ ~Built(h).cached
          /\ Built(h).stdout = stdout[h]
      BY DEF Built
    <3>3. HashOf[stdout[h].program] = s
      BY <1>2, <2>2, SuccessIsBuilt, KeyOfProgram
    <3>4. QED
      BY <1>2, <3>1, <3>2, <3>3, SuccessIsBuilt DEF Stored
  <2>3. ASSUME NEW s \in DOMAIN entries', s # slot
        PROVE  Stored(s)'
    BY <1>0, <1>1, <2>1, <2>3, StoredStays
  <2>4. QED
    BY <2>2, <2>3 DEF StoredOK, CacheHoldsRuns, Stored
<1>3. CASE ~(/\ ResumeCleanedUp(h)
             /\ Cache!Insert(CacheKey(request[h].program), Built(h))
             /\ Built(h).success)
  <2>1. ASSUME NEW s \in DOMAIN entries'
        PROVE  Stored(s)'
    BY <1>0, <1>1, <1>3, OnlyEndsStore, StoredStays
  <2>2. QED
    BY <2>1 DEF StoredOK, CacheHoldsRuns, Stored
<1>4. QED
  BY <1>2, <1>3

(***************************************************************************)
(* A success that is answered is a run's, or a stored run's.               *)
(***************************************************************************)
AnsweredFor(h) ==
  response[h] # NoResponse /\ response[h].success =>
    /\ response[h].stdout # NoOutput
    /\ HashOf[response[h].stdout.program] = HashOf[request[h].program]
    /\ Ran(response[h].stdout.program)

LEMMA SuccessesKept ==
  ASSUME TypeOK, StagesOK, PoolOK, StoredOK, SuccessesOK,
         NEW h \in Handlers, StepOf(h)
  PROVE  SuccessesOK'
<1>0. ControlType /\ PoolType /\ AnswerType /\ CacheType /\ Settled /\ OnlyFor(h)
  BY Types, StepsSettle, StepIsLocal
<1>1. \A program : Ran(program) => Ran(program)'
  BY <1>0 DEF Ran, Settled
<1>2. ASSUME NEW g \in Handlers, response'[g] = response[g],
             request'[g] = request[g] \/ response[g] = NoResponse
      PROVE  AnsweredFor(g)'
  <2>1. AnsweredFor(g)
    BY DEF SuccessesOK, AnsweredFor
  <2>2. QED
    BY <1>1, <1>2, <2>1 DEF AnsweredFor
<1>3. \A g \in Handlers \ {h} : AnsweredFor(g)'
  BY <1>0, <1>2 DEF OnlyFor, SameFor
<1>4. CASE BeginHit(h)
  <2>1. PICK s \in DOMAIN entries :
          /\ Cache!GetHit(CacheKey(request[h].program), entries[s].response)
          /\ Record(h, Renewed(entries[s].response, h))
    BY <1>4 DEF BeginHit
  <2>2. request[h] \in ExecuteRequest /\ request' = request
    BY <1>4 DEF BeginHit, Acquire, StagesOK, StageOf, InfoRequest
  <2> DEFINE slot == HashOf[CacheKey(request[h].program)]
             r == entries[slot].response
  <2>3. slot \in DOMAIN entries /\ entries[s].response = r
    BY <2>1 DEF Cache!GetHit, Cache!FreshSlots
  <2>4. Stored(slot)
    BY <2>3, StoredEach
  <2>5. /\ response'[h] = Renewed(r, h)
        /\ Renewed(r, h).stdout = r.stdout
    BY <1>0, <2>1, <2>3, RenewedIsResponse DEF Record, AnswerType
  <2>6. r.execution_id \in Handlers
    BY <1>0, <2>3, StoredIsResponse
  <2>7. HashOf[r.stdout.program] = HashOf[request[h].program]
    BY <2>2, <2>4, KeyOfProgram DEF Stored
  <2>8. Ran(r.stdout.program)
    <3>1. result[r.execution_id] = "ok" /\ r.stdout = stdout[r.execution_id]
      BY <2>4 DEF Stored
    <3>2. stdout[r.execution_id].program = request[r.execution_id].program
      BY <2>6, <3>1 DEF StagesOK, OutcomeOf
    <3>3. QED
      BY <2>6, <3>1, <3>2 DEF Ran
  <2>9. AnsweredFor(h)'
    BY <1>1, <2>2, <2>4, <2>5, <2>7, <2>8 DEF AnsweredFor, Stored
  <2>10. QED
    BY <1>3, <2>9 DEF SuccessesOK, AnsweredFor
<1>5. CASE ResumeCleanedUp(h)
  <2>1. response'[h] = Built(h)
    BY <1>0, <1>5 DEF ResumeCleanedUp, Record, AnswerType
  <2>2. CASE Built(h).success
    <3>1. /\ result'[h] = "ok" /\ request'[h] = request[h]
          /\ stdout[h] # NoOutput
          /\ stdout[h].program = request[h].program
      BY <1>5, <2>2, SuccessIsBuilt
    <3>2. Ran(stdout[h].program)'
      <4>1. /\ stdout' = stdout /\ result'[h] = "ok"
            /\ request'[h].program = stdout[h].program
        BY <1>5, <2>2, <3>1, SuccessIsBuilt
      <4>2. QED
        BY <4>1 DEF Ran
    <3>3. Built(h).stdout = stdout[h] /\ stdout' = stdout
      BY <1>5, <2>2, SuccessIsBuilt DEF Built
    <3>4. AnsweredFor(h)'
      BY <2>1, <3>1, <3>2, <3>3 DEF AnsweredFor
    <3>5. QED
      BY <1>3, <3>4 DEF SuccessesOK, AnsweredFor
  <2>3. CASE ~Built(h).success
    <3>1. AnsweredFor(h)'
      BY <2>1, <2>3 DEF AnsweredFor
    <3>2. QED
      BY <1>3, <3>1 DEF SuccessesOK, AnsweredFor
  <2>4. QED
    BY <2>2, <2>3
<1>6. CASE ~(BeginHit(h) \/ ResumeCleanedUp(h))
  <2>1. response' = response
    BY <1>6
    DEF StepOf, HandlerStep, Reject, Arrive, ServeInfo, BeginExecution,
        ResumePreparing, ResumeWritten, FailPreparing, ResumeJob, Timeout,
        CleanUp, Answer, Cancel, PoolStep, RunFs, FailFs, StartJob, FailJob,
        FinishJob, DbStep, ExecuteInsert, FailInsert
  <2>2. request'[h] = request[h] \/ response[h] = NoResponse
    BY <1>0 DEF Settled
  <2>3. AnsweredFor(h)'
    BY <1>2, <2>1, <2>2
  <2>4. QED
    BY <1>3, <2>3 DEF SuccessesOK, AnsweredFor
<1>7. QED
  BY <1>4, <1>5, <1>6

-----------------------------------------------------------------------------
(* The counters of the cache, and the switches for faults.                 *)

LEMMA LookupsKept ==
  ASSUME TypeOK, LookupsOK, NEW h \in Handlers, StepOf(h)
  PROVE  LookupsOK'
<1>0. ControlType /\ CacheType /\ OnlyFor(h)
  BY Types, StepIsLocal
<1>1. \A g \in Handlers \ {h} : pc'[g] = pc[g]
  BY <1>0 DEF OnlyFor, SameFor
<1>2. /\ IsFiniteSet(Admitted) /\ Cardinality(Admitted) \in Nat
      /\ IsFiniteSet(Admitted') /\ Cardinality(Admitted') \in Nat
  <2>1. Admitted \in SUBSET Handlers /\ Admitted' \in SUBSET Handlers
    BY DEF Admitted
  <2>2. IsFiniteSet(Admitted) /\ IsFiniteSet(Admitted')
    BY <2>1, HandlersAssumption, FS_Subset
  <2>3. QED
    BY <2>2, FS_CardinalityType
<1>3. ASSUME hits' = hits, misses' = misses,
             pc[h] \notin {"idle", "waiting"} => pc'[h] \notin {"idle", "waiting"}
      PROVE  LookupsOK'
  <2>1. Admitted \in SUBSET Admitted'
    BY <1>1, <1>3 DEF Admitted
  <2>2. Cardinality(Admitted) <= Cardinality(Admitted')
    BY <1>2, <2>1, FS_Subset
  <2>3. QED
    BY <1>0, <1>2, <1>3, <2>2 DEF LookupsOK, CacheType
<1>4. ASSUME pc[h] = "waiting", pc'[h] \notin {"idle", "waiting"},
             hits' + misses' <= hits + misses + 1,
             hits' \in Nat, misses' \in Nat
      PROVE  LookupsOK'
  <2>1. Admitted' = Admitted \cup {h} /\ h \notin Admitted
    BY <1>1, <1>4 DEF Admitted
  <2>2. Cardinality(Admitted') = Cardinality(Admitted) + 1
    BY <1>2, <2>1, FS_AddElement
  <2>3. /\ hits \in Nat /\ misses \in Nat
        /\ hits + misses <= Cardinality(Admitted)
    BY <1>0 DEF LookupsOK, CacheType
  <2>4. hits' + misses' <= Cardinality(Admitted')
    <3>1. /\ hits' \in Nat /\ misses' \in Nat
          /\ hits' + misses' <= hits + misses + 1
      BY <1>4
    <3>2. Cardinality(Admitted) \in Nat /\ Cardinality(Admitted') \in Nat
      BY <1>2
    <3>3. \A a, b, c, d, m, n \in Nat :
            a + b <= m + n + 1 /\ m + n <= c /\ d = c + 1 => a + b <= d
      OBVIOUS
    <3>4. QED
      BY <2>2, <2>3, <3>1, <3>2, <3>3
  <2>5. QED
    BY <2>4 DEF LookupsOK
<1>5. CASE BeginHit(h) \/ BeginExecution(h)
  <2>1. pc[h] = "waiting" /\ pc'[h] \notin {"idle", "waiting"}
    BY <1>0, <1>5
    DEF BeginHit, BeginExecution, Acquire, Record, Goto, ControlType
  <2>2. /\ hits' + misses' <= hits + misses + 1
        /\ hits' \in Nat /\ misses' \in Nat
    BY <1>0, <1>5
    DEF BeginHit, BeginExecution, Cache!GetHit, Cache!GetMiss, cacheVars,
        CacheType
  <2>3. QED
    BY <1>4, <2>1, <2>2
<1>6. CASE ResumeCleanedUp(h)
  <2>1. hits' = hits /\ misses' = misses
    BY <1>6 DEF ResumeCleanedUp, cacheVars, Cache!Insert, Cache!InsertWithTtl
  <2>2. pc'[h] = "recording"
    BY <1>0, <1>6 DEF ResumeCleanedUp, Record, Goto, ControlType
  <2>3. QED
    BY <1>3, <2>1, <2>2
<1>7. CASE ~(BeginHit(h) \/ BeginExecution(h) \/ ResumeCleanedUp(h))
  <2>1. hits' = hits /\ misses' = misses
    BY <1>7
    DEF StepOf, HandlerStep, Reject, Arrive, ServeInfo, ResumePreparing,
        ResumeWritten, FailPreparing, ResumeJob, Timeout, CleanUp, Answer,
        Cancel, PoolStep, RunFs, FailFs, StartJob, FailJob, FinishJob, DbStep,
        ExecuteInsert, FailInsert, cacheVars
  <2>2. pc[h] \notin {"idle", "waiting"} => pc'[h] \notin {"idle", "waiting"}
    <3>1. CASE Arrive(h)
      BY <3>1 DEF Arrive
    <3>2. CASE \/ Reject(h) \/ ServeInfo(h) \/ ResumePreparing(h)
               \/ ResumeWritten(h) \/ FailPreparing(h)
      BY <1>0, <3>2
      DEF Reject, ServeInfo, ResumePreparing, ResumeWritten, FailPreparing,
          Goto, ControlType
    <3>3. CASE ResumeJob(h) \/ Timeout(h) \/ Answer(h) \/ Cancel(h)
      BY <1>0, <3>3
      DEF ResumeJob, Timeout, CleanUp, Answer, Cancel, Goto, ControlType
    <3>4. CASE PoolStep(h) \/ FailJob(h) \/ FinishJob(h) \/ DbStep(h)
      BY <3>4
      DEF PoolStep, RunFs, FailFs, StartJob, FailJob, FinishJob, DbStep,
          ExecuteInsert, FailInsert
    <3>5. QED
      BY <1>7, <3>1, <3>2, <3>3, <3>4 DEF StepOf, HandlerStep
  <2>3. QED
    BY <1>3, <2>1, <2>2
<1>8. QED
  BY <1>5, <1>6, <1>7

LEMMA FaultsKept ==
  ASSUME TypeOK, FaultsOK, NEW h \in Handlers, StepOf(h)
  PROVE  FaultsOK'
<1>0. ControlType /\ AnswerType /\ OnlyFor(h)
  BY Types, StepIsLocal
<1>1. \A g \in Handlers \ {h} : pc'[g] = pc[g] /\ insertion'[g] = insertion[g]
  BY <1>0 DEF OnlyFor, SameFor
<1>2. insertion'[h] = "err" => insertion[h] = "err" \/ DbFaults
  BY <1>0
  DEF StepOf, HandlerStep, Reject, Arrive, ServeInfo, BeginHit, BeginExecution,
      ResumePreparing, ResumeWritten, FailPreparing, ResumeJob, Timeout,
      CleanUp, ResumeCleanedUp, Record, Answer, Cancel, PoolStep, RunFs,
      FailFs, StartJob, FailJob, FinishJob, DbStep, ExecuteInsert, FailInsert,
      dbVars, AnswerType
<1>3. pc'[h] = "cancelled" => pc[h] = "cancelled" \/ Cancels
  BY <1>0
  DEF StepOf, HandlerStep, Reject, Arrive, ServeInfo, BeginHit, BeginExecution,
      ResumePreparing, ResumeWritten, FailPreparing, ResumeJob, Timeout,
      CleanUp, ResumeCleanedUp, Record, Answer, Cancel, PoolStep, RunFs,
      FailFs, StartJob, FailJob, FinishJob, DbStep, ExecuteInsert, FailInsert,
      Goto, ControlType
<1>4. QED
  BY <1>1, <1>2, <1>3 DEF FaultsOK

-----------------------------------------------------------------------------
(* What is not a step of one handler.                                      *)

LEMMA InitServiceInv == Init => ServiceInv
<1> SUFFICES ASSUME Init PROVE ServiceInv
  OBVIOUS
<1>1. MutexInv
  BY InitMutexInv
<1>2. StagesOK
  BY DEF Init, StagesOK, StageOf, OutcomeOf, Untouched, Executing, Preparing
<1>3. PoolOK /\ LineOK /\ FaultsOK
  BY DEF Init, PoolOK, LineOK, WaitersInLine, FaultsOK
<1>4. DOMAIN entries = {} /\ hits = 0 /\ misses = 0
  BY DEF Init, Cache!Init
<1>5. StoredOK
  BY <1>4 DEF StoredOK, CacheHoldsRuns
<1>6. SuccessesOK /\ TableOK
  BY DEF Init, SuccessesOK, TableOK
<1>7. LookupsOK
  <2>1. Admitted = {}
    BY DEF Init, Admitted
  <2>2. QED
    BY <1>4, <2>1, FS_EmptySet DEF LookupsOK
<1>8. TypeOK
  <2>1. CacheType
    <3>1. IsFiniteSet(DOMAIN entries)
      BY <1>4, FS_EmptySet
    <3>2. entries = [s \in {} |-> NoResponse]
      BY DEF Init, Cache!Init
    <3>3. QED
      BY <1>4, <3>1, <3>2, FiniteAlike DEF CacheType, Cache!IsEntryMap
  <2>2. ControlType
    BY DEF Init, ControlType, PcTypes, RequestTypes
  <2>3. PoolType
    BY DEF Init, PoolType, FsTypes, JobTypes
  <2>4. AnswerType
    BY DEF Init, AnswerType, InsertionTypes
  <2>5. QED
    BY <1>7, <2>1, <2>2, <2>3, <2>4, TypeSplit
<1>9. QED
  BY <1>1, <1>2, <1>3, <1>5, <1>6, <1>7, <1>8 DEF ServiceInv

LEMMA StepKeepsServiceInv ==
  ASSUME ServiceInv, NEW h \in Handlers, StepOf(h)
  PROVE  ServiceInv'
<1>1. /\ TypeOK /\ MutexInv /\ StagesOK /\ PoolOK /\ LineOK /\ StoredOK
      /\ SuccessesOK /\ TableOK /\ LookupsOK /\ FaultsOK
  BY DEF ServiceInv
<1>2. ControlType /\ PoolType /\ AnswerType /\ CacheType
  BY <1>1, Types
<1>3. ControlType'
  BY <1>1, <1>2, ControlTypeKept
<1>4. PoolType' /\ AnswerType' /\ CacheType'
  BY <1>1, <1>2, PoolTypeKept, AnswerTypeKept, CacheTypeKept
<1>5. LookupsOK'
  BY <1>1, LookupsKept
<1>6. TypeOK'
  <2>1. (ControlType /\ PoolType /\ AnswerType /\ CacheType /\ LookupsOK => TypeOK)'
    BY TypeSplit, PTL
  <2>2. QED
    BY <1>3, <1>4, <1>5, <2>1
<1>7. MutexInv'
  <2>1. Next
    BY DEF StepOf, Next
  <2>2. QED
    BY <1>1, <2>1, NextMutexInv
<1>8. StagesOK' /\ PoolOK' /\ LineOK' /\ StoredOK' /\ SuccessesOK'
  BY <1>1, StagesKept, PoolKept, LineKept, StoredKept, SuccessesKept
<1>9. TableOK' /\ FaultsOK'
  BY <1>1, TableKept, FaultsKept
<1>10. QED
  BY <1>5, <1>6, <1>7, <1>8, <1>9 DEF ServiceInv

(***************************************************************************)
(* Handlers, pool and table do not notice what only the cache sees.        *)
(***************************************************************************)
LEMMA CacheTaskKeepsServiceInv ==
  ASSUME ServiceInv, ClearCache \/ CleanupTask \/ Tick
  PROVE  ServiceInv'
<1>1. /\ TypeOK /\ MutexInv /\ StagesOK /\ PoolOK /\ LineOK /\ StoredOK
      /\ SuccessesOK /\ TableOK /\ LookupsOK /\ FaultsOK
  BY DEF ServiceInv
<1>2. ControlType /\ PoolType /\ AnswerType /\ CacheType
  BY <1>1, Types
<1>3. UNCHANGED <<pc, request, holder, waiters, queue, fs, job, dirs, stdout,
                  result, response, insertion, rows>>
  BY DEF ClearCache, CleanupTask, Tick, OutsideCache, lockVars, poolVars, dbVars
<1>4. MutexInv'
  BY <1>1, CacheTasksKeepInv
<1>5. /\ ControlType' /\ PoolType' /\ AnswerType' /\ StagesOK' /\ PoolOK'
      /\ LineOK' /\ SuccessesOK' /\ TableOK' /\ FaultsOK'
  <2>1. ControlType' /\ PoolType' /\ AnswerType'
    BY <1>2, <1>3 DEF ControlType, PoolType, AnswerType
  <2>2. StagesOK'
    BY <1>1, <1>3 DEF StagesOK, StageOf, OutcomeOf, Untouched
  <2>3. PoolOK' /\ LineOK' /\ FaultsOK'
    BY <1>1, <1>3 DEF PoolOK, IsRun, LineOK, WaitersInLine, FaultsOK
  <2>4. SuccessesOK' /\ TableOK'
    BY <1>1, <1>3 DEF SuccessesOK, Ran, TableOK, RowOf
  <2>5. QED
    BY <2>1, <2>2, <2>3, <2>4
<1>6. /\ DOMAIN entries' \subseteq DOMAIN entries
      /\ \A s \in DOMAIN entries' : entries'[s].response = entries[s].response
  <2>1. CASE ClearCache \/ CleanupTask
    BY <2>1
    DEF ClearCache, CleanupTask, Cache!Clear, Cache!CleanupExpired,
        Cache!EvictExpired, Cache!FreshSlots, Cache!Keep
  <2>2. CASE Tick
    <3>1. \A s \in DOMAIN entries : entries[s] \in Cache!Entry
      BY <1>2 DEF CacheType, Cache!IsEntryMap
    <3>2. QED
      BY <2>2, <3>1 DEF Tick, Cache!Tick, Cache!Entry
  <2>3. QED
    BY <2>1, <2>2
<1>7. StoredOK'
  BY <1>1, <1>3, <1>6 DEF StoredOK, CacheHoldsRuns
<1>8. CacheType'
  <2>1. CASE ClearCache \/ CleanupTask
    <3>1. hits' \in Nat /\ misses' \in Nat
      BY <1>2, <2>1
      DEF ClearCache, CleanupTask, Cache!Clear, Cache!CleanupExpired, CacheType
    <3>2. PICK S : entries' = [s \in S |-> entries[s]]
      BY <2>1
      DEF ClearCache, CleanupTask, Cache!Clear, Cache!CleanupExpired,
          Cache!EvictExpired, Cache!Keep
    <3>3. entries' = [s \in DOMAIN entries' |-> entries[s]]
      BY <3>2
    <3>4. QED
      BY <1>2, <1>6, <3>1, <3>3, SubmapTyped
  <2>2. CASE Tick
    <3>1. /\ DOMAIN entries' = DOMAIN entries
          /\ entries' = [s \in DOMAIN entries' |-> entries'[s]]
          /\ hits' = hits /\ misses' = misses
      BY <2>2 DEF Tick, Cache!Tick
    <3>2. ASSUME NEW s \in DOMAIN entries
          PROVE  entries'[s] \in Cache!Entry
      <4>1. entries[s] \in Cache!Entry
        BY <1>2 DEF CacheType, Cache!IsEntryMap
      <4>2. entries'[s] = [entries[s] EXCEPT
                             !.elapsed = IF @ > Ttl THEN @ ELSE @ + 1]
        BY <2>2 DEF Tick, Cache!Tick
      <4>3. QED
        BY <4>1, <4>2, CacheAssumption DEF Cache!Entry, Cache!Elapsed
    <3>3. QED
      BY <1>2, <3>1, <3>2, FiniteAlike DEF CacheType, Cache!IsEntryMap
  <2>3. QED
    BY <2>1, <2>2
<1>9. LookupsOK'
  <2>1. Admitted' = Admitted
    BY <1>3 DEF Admitted
  <2>2. CASE hits' = hits /\ misses' = misses
    BY <1>1, <2>1, <2>2 DEF LookupsOK
  <2>3. CASE hits' = 0 /\ misses' = 0
    <3>1. Admitted \in SUBSET Handlers
      BY DEF Admitted
    <3>2. Cardinality(Admitted) \in Nat
      BY <3>1, HandlersAssumption, FS_Subset, FS_CardinalityType
    <3>3. QED
      BY <2>1, <2>3, <3>2 DEF LookupsOK
  <2>4. QED
    BY <2>2, <2>3
    DEF ClearCache, CleanupTask, Tick, Cache!Clear, Cache!CleanupExpired,
        Cache!Tick
<1>10. TypeOK'
  <2>1. (ControlType /\ PoolType /\ AnswerType /\ CacheType /\ LookupsOK => TypeOK)'
    BY TypeSplit, PTL
  <2>2. QED
    BY <1>5, <1>8, <1>9, <2>1
<1>11. QED
  BY <1>4, <1>5, <1>7, <1>9, <1>10 DEF ServiceInv

(***************************************************************************)
(* A restart forgets what is under way and keeps what is finished.         *)
(***************************************************************************)
LEMMA RestartKeepsServiceInv ==
  ASSUME ServiceInv, Restart
  PROVE  ServiceInv'
<1>1. /\ TypeOK /\ MutexInv /\ StagesOK /\ PoolOK /\ LineOK /\ StoredOK
      /\ SuccessesOK /\ TableOK /\ LookupsOK /\ FaultsOK
  BY DEF ServiceInv
<1>2. ControlType /\ PoolType /\ AnswerType /\ CacheType
  BY <1>1, Types
<1>3. MutexInv'
  BY <1>1, RestartKeepsInv
<1>4. /\ pc' = [h \in Handlers |-> IF pc[h] \in Suspended THEN "lost" ELSE pc[h]]
      /\ holder' = Nobody /\ waiters' = << >> /\ queue' = << >>
      /\ fs' = [h \in Handlers |-> IF fs[h] = "queued" THEN "none" ELSE fs[h]]
      /\ job' = [h \in Handlers |->
                   IF job[h] \in {"queued", "running"} THEN "none" ELSE job[h]]
      /\ insertion' = [h \in Handlers |->
                         IF insertion[h] = "sent" THEN "none" ELSE insertion[h]]
      /\ DOMAIN entries' = {} /\ hits' = 0 /\ misses' = 0
      /\ UNCHANGED <<request, dirs, stdout, result, response, rows>>
  BY DEF Restart, Cache!Keep
<1>5. /\ Suspended = {"waiting", "recording", "mkdir", "readme", "write", "run", "rmdir"}
      /\ Ended = {"answered", "failed", "rejected", "cancelled", "lost"}
      /\ Executing = {"mkdir", "readme", "write", "run", "rmdir"}
      /\ Preparing = {"mkdir", "readme", "write"}
  BY DEF Suspended, Executing, Preparing, Ended
<1>6. ControlType'
  BY <1>2, <1>4, <1>5 DEF ControlType, PcTypes
<1>7. PoolType'
  BY <1>2, <1>4 DEF PoolType, FsTypes, JobTypes
<1>8. AnswerType'
  BY <1>2, <1>4 DEF AnswerType, InsertionTypes
<1>9. CacheType'
  <2>1. IsFiniteSet(DOMAIN entries')
    BY <1>4, FS_EmptySet
  <2>2. entries' = [s \in {} |-> entries[s]]
    BY DEF Restart, Cache!Keep
  <2>3. QED
    BY <1>4, <2>1, <2>2, FiniteAlike DEF CacheType, Cache!IsEntryMap
<1>10. StagesOK'
  <2>1. ASSUME NEW h \in Handlers
        PROVE  (StageOf(h) /\ OutcomeOf(h))'
    <3>1. StageOf(h) /\ OutcomeOf(h)
      BY <1>1 DEF StagesOK
    <3>2. StageOf(h)'
      BY <1>4, <1>5, <3>1 DEF StageOf, OutcomeOf, Untouched
    <3>3. OutcomeOf(h)'
      BY <1>4, <1>5, <3>1 DEF OutcomeOf
    <3>4. QED
      BY <3>2, <3>3
  <2>2. QED
    BY <2>1 DEF StagesOK
<1>11. PoolOK' /\ LineOK' /\ StoredOK' /\ FaultsOK'
  <2>1. PoolOK'
    BY <1>4 DEF PoolOK
  <2>2. LineOK'
    BY <1>4, <1>5 DEF LineOK, WaitersInLine
  <2>3. StoredOK'
    BY <1>4 DEF StoredOK, CacheHoldsRuns
  <2>4. FaultsOK'
    BY <1>1, <1>4 DEF FaultsOK
  <2>5. QED
    BY <2>1, <2>2, <2>3, <2>4
<1>12. SuccessesOK'
  BY <1>1, <1>4 DEF SuccessesOK, Ran
<1>13. TableOK'
  <2>1. Settled /\ \A g \in Handlers : insertion'[g] = "ok" => insertion[g] = "ok"
    BY <1>4 DEF Settled
  <2>2. QED
    BY <1>1, <1>2, <1>4, <2>1, TableFrame
<1>14. LookupsOK'
  <2>1. Admitted' \in SUBSET Handlers
    BY DEF Admitted
  <2>2. Cardinality(Admitted') \in Nat
    BY <2>1, HandlersAssumption, FS_Subset, FS_CardinalityType
  <2>3. QED
    BY <1>4, <2>2 DEF LookupsOK
<1>15. TypeOK'
  <2>1. (ControlType /\ PoolType /\ AnswerType /\ CacheType /\ LookupsOK => TypeOK)'
    BY TypeSplit, PTL
  <2>2. QED
    BY <1>6, <1>7, <1>8, <1>9, <1>14, <2>1
<1>16. QED
  BY <1>3, <1>10, <1>11, <1>12, <1>13, <1>14, <1>15 DEF ServiceInv

LEMMA StutterKeepsServiceInv ==
  ASSUME ServiceInv, UNCHANGED vars
  PROVE  ServiceInv'
<1>1. UNCHANGED <<pc, request, holder, waiters, queue, fs, job, dirs, stdout,
                  result, response, insertion, rows, entries, hits, misses>>
  BY DEF vars, lockVars, poolVars, dbVars, cacheVars
<1>2. MutexInv'
  BY NextMutexInv DEF ServiceInv
<1>3. /\ TypeOK' /\ StagesOK' /\ PoolOK' /\ LineOK' /\ StoredOK'
  BY <1>1
  DEF ServiceInv, TypeOK, Cache!TypeOK, StagesOK, StageOf, OutcomeOf,
      Untouched, PoolOK, IsRun, LineOK, WaitersInLine, StoredOK,
      CacheHoldsRuns
<1>4. SuccessesOK' /\ TableOK' /\ LookupsOK' /\ FaultsOK'
  BY <1>1
  DEF ServiceInv, SuccessesOK, Ran, TableOK, RowOf, LookupsOK, Admitted,
      FaultsOK
<1>5. QED
  BY <1>2, <1>3, <1>4 DEF ServiceInv

LEMMA ServiceInvariant == Spec => []ServiceInv
<1>1. ServiceInv /\ [Next]_vars => ServiceInv'
  <2> SUFFICES ASSUME ServiceInv, [Next]_vars PROVE ServiceInv'
    OBVIOUS
  <2>1. ASSUME NEW h \in Handlers, StepOf(h)
        PROVE  ServiceInv'
    BY <2>1, StepKeepsServiceInv
  <2>2. CASE ClearCache \/ CleanupTask \/ Tick
    BY <2>2, CacheTaskKeepsServiceInv
  <2>3. CASE Restart
    BY <2>3, RestartKeepsServiceInv
  <2>4. CASE UNCHANGED vars
    BY <2>4, StutterKeepsServiceInv
  <2>5. QED
    BY <2>1, <2>2, <2>3, <2>4 DEF Next, StepOf
<1>2. QED
  BY <1>1, InitServiceInv, PTL DEF Spec

-----------------------------------------------------------------------------
(* The properties.                                                         *)

(***************************************************************************)
(* Whatever is refused, times out, fails, hangs up or restarts, the state  *)
(* of the service is well formed and the lookups counted are no more than  *)
(* the requests.                                                           *)
(***************************************************************************)
THEOREM ServiceTypeCorrect == Spec => []TypeOK
<1>1. ServiceInv => TypeOK
  BY DEF ServiceInv
<1>2. QED
  BY <1>1, ServiceInvariant, PTL

(***************************************************************************)
(* The mutex is held by the handler that is at work and its queue is the   *)
(* handlers that wait, so a request that is dropped blocks nobody.         *)
(***************************************************************************)
THEOREM MutexStaysConsistent == Spec => []MutexConsistent
<1>1. ServiceInv => MutexConsistent
  BY DEF ServiceInv, MutexInv, LineOK, MutexConsistent
<1>2. QED
  BY <1>1, ServiceInvariant, PTL

(***************************************************************************)
(* The mutex is fair: whatever times out, fails or hangs up, a request     *)
(* never gets it before one that has been waiting longer.                  *)
(***************************************************************************)
THEOREM NobodyOvertakes ==
  Spec => [][\A g, h \in Handlers : AheadOf(g, h) => KeepsOrder(g, h)]_vars
<1> DEFINE Orderly == \A g, h \in Handlers : AheadOf(g, h) => KeepsOrder(g, h)
<1>1. ServiceInv /\ [Next]_vars => [Orderly]_vars
  <2> SUFFICES ASSUME ServiceInv, Next, NEW g \in Handlers, NEW h \in Handlers,
                      AheadOf(g, h)
               PROVE  KeepsOrder(g, h)
    OBVIOUS
  <2>1. TypeOK /\ LineOK
    BY DEF ServiceInv
  <2>2. CASE \E k \in Handlers : StepOf(k)
    BY <2>1, <2>2, OrderKept
  <2>3. /\ waiters \in Seq(Handlers) /\ pc \in [Handlers -> PcTypes]
        /\ pc[h] = "waiting"
    BY <2>1, Types DEF ControlType, LineOK, WaitersInLine, AheadOf
  <2>4. CASE ClearCache \/ CleanupTask \/ Tick
    <3>1. pc' = pc /\ waiters' = waiters
      BY <2>4 DEF ClearCache, CleanupTask, Tick, OutsideCache, lockVars
    <3>2. QED
      BY <2>3, <3>1 DEF KeepsOrder, AheadOf
  <2>5. CASE Restart
    <3>1. pc'[h] = "lost"
      BY <2>3, <2>5 DEF Restart, Suspended
    <3>2. QED
      BY <3>1 DEF KeepsOrder
  <2>6. QED
    BY <2>2, <2>4, <2>5 DEF Next, StepOf
<1>2. QED
  BY <1>1, ServiceInvariant, PTL DEF Spec

(***************************************************************************)
(* The cache holds only complete, successful runs under their own ids:     *)
(* neither a job that goes on after its timeout nor a hang-up between the  *)
(* end of the job and the insert can put anything else there.              *)
(***************************************************************************)
THEOREM CachedAreRuns == Spec => []CacheHoldsRuns
<1>1. ServiceInv => CacheHoldsRuns
  BY DEF ServiceInv, StoredOK
<1>2. QED
  BY <1>1, ServiceInvariant, PTL

(***************************************************************************)
(* If keys have hashes of their own, every success that is answered is an  *)
(* output of the program that was asked for.                               *)
(***************************************************************************)
THEOREM OwnProgramServed == Spec => []ServesOwnProgram
<1>1. ServiceInv => ServesOwnProgram
  <2> SUFFICES ASSUME ServiceInv, InjectiveHash, NEW h \in Handlers,
                      response[h] # NoResponse, response[h].success
               PROVE  /\ response[h].stdout # NoOutput
                      /\ response[h].stdout.program = request[h].program
    BY DEF ServesOwnProgram
  <2>1. /\ TypeOK /\ StagesOK /\ SuccessesOK
    BY DEF ServiceInv
  <2>2. /\ response[h].stdout # NoOutput
        /\ HashOf[response[h].stdout.program] = HashOf[request[h].program]
    BY <2>1 DEF SuccessesOK
  <2>3. response[h] \in Response /\ request[h] \in ExecuteRequest
    BY <2>1, Types DEF AnswerType, StagesOK, OutcomeOf
  <2>4. response[h].stdout \in Output /\ request[h].program \in Program
    BY <2>2, <2>3 DEF Response, ExecuteRequest
  <2>5. response[h].stdout.program \in Program
    BY <2>4 DEF Output
  <2>6. QED
    BY <2>2, <2>4, <2>5 DEF InjectiveHash
<1>2. QED
  BY <1>1, ServiceInvariant, PTL

(***************************************************************************)
(* Each answered execution has a row of its own in the table, unless the   *)
(* database refused it, over any number of restarts.                       *)
(***************************************************************************)
THEOREM AnswersRecorded == Spec => []AnsweredAreRecorded
<1>1. ServiceInv => AnsweredAreRecorded
  <2> SUFFICES ASSUME ServiceInv PROVE AnsweredAreRecorded
    OBVIOUS
  <2>1. StagesOK /\ TableOK
    BY DEF ServiceInv
  <2>2. ASSUME NEW h \in Served
        PROVE  /\ response[h].execution_id = h
               /\ insertion[h] = "err" \/ RowOf(h) \in rows
    BY <2>1 DEF Served, StagesOK, StageOf, OutcomeOf, TableOK
  <2>3. QED
    BY <2>2 DEF AnsweredAreRecorded, RowOf
<1>2. QED
  BY <1>1, ServiceInvariant, PTL

(***************************************************************************)
(* Where the database works and no client hangs up, what is in the cache   *)
(* is in the table, or its INSERT is awaited.                              *)
(***************************************************************************)
THEOREM CachedRecorded == Spec => []CachedAreRecorded
<1>1. ServiceInv => CachedAreRecorded
  <2> SUFFICES ASSUME ServiceInv, ~DbFaults, ~Cancels, NEW s \in DOMAIN entries
               PROVE  LET id == entries[s].response.execution_id
                      IN  pc[id] = "recording" \/ \E row \in rows : row.id = id
    BY DEF CachedAreRecorded
  <2> DEFINE id == entries[s].response.execution_id
  <2>1. /\ TypeOK /\ StagesOK /\ StoredOK /\ TableOK /\ FaultsOK
    BY DEF ServiceInv
  <2>2. /\ id \in Handlers /\ entries[s].response # NoResponse
    BY <2>1, Types, StoredIsResponse
  <2>3. /\ response[id] = entries[s].response
        /\ pc[id] \in {"recording", "answered", "cancelled"}
    BY <2>1 DEF StoredOK
  <2>4. CASE pc[id] = "answered"
    <3>1. insertion[id] = "ok"
      BY <2>1, <2>2, <2>3, <2>4 DEF StagesOK, StageOf, FaultsOK
    <3>2. RowOf(id) \in rows /\ RowOf(id).id = id
      BY <2>1, <2>2, <2>3, <3>1 DEF TableOK, RowOf
    <3>3. QED
      BY <3>2
  <2>5. QED
    BY <2>1, <2>2, <2>3, <2>4 DEF FaultsOK
<1>2. QED
  BY <1>1, ServiceInvariant, PTL

(***************************************************************************)
(* An execution that ends with a response leaves its directory behind only *)
(* if its removal failed; no file operation still under way for it can     *)
(* make the directory again.                                               *)
(***************************************************************************)
THEOREM SandboxesReclaimed == Spec => []SandboxReclaimed
<1>1. ServiceInv => SandboxReclaimed
  <2> SUFFICES ASSUME ServiceInv, NEW h \in dirs
               PROVE  \/ pc[h] \in Executing \cup {"failed", "cancelled", "lost"}
                      \/ fs[h] = "err"
    BY DEF SandboxReclaimed
  <2>1. TypeOK /\ StageOf(h)
    BY Types DEF ServiceInv, StagesOK, PoolType
  <2>2. h \in Handlers /\ pc[h] \in PcTypes
    BY <2>1, Types DEF PoolType, ControlType
  <2>3. pc[h] \notin {"idle", "waiting", "rejected"}
    BY <2>1 DEF StageOf, Untouched
  <2>4. pc[h] \in {"recording", "answered"} => fs[h] = "err"
    BY <2>1 DEF StageOf
  <2>5. QED
    BY <2>2, <2>3, <2>4 DEF PcTypes, Suspended, Ended
<1>2. QED
  BY <1>1, ServiceInvariant, PTL

(***************************************************************************)
(* Every row that claims a success is about a program that succeeded, also *)
(* the rows of hits, of clients that are gone and from before a restart.   *)
(***************************************************************************)
THEOREM SuccessesHappened == Spec => []RecordedSuccessesHappened
<1>1. ServiceInv /\ ServesOwnProgram => RecordedSuccessesHappened
  <2> SUFFICES ASSUME ServiceInv, ServesOwnProgram, InjectiveHash,
                      NEW row \in rows, row.success
               PROVE  Ran(row.program)
    BY DEF RecordedSuccessesHappened, Ran
  <2> DEFINE h == row.id
  <2>1. TypeOK /\ StagesOK /\ SuccessesOK /\ TableOK
    BY DEF ServiceInv
  <2>2. h \in Handlers
    BY <2>1, Types DEF AnswerType, Row
  <2>3. insertion[h] = "ok" /\ row = RowOf(h)
    BY <2>1 DEF TableOK
  <2>4. response[h] # NoResponse /\ response[h].success
    BY <2>1, <2>2, <2>3 DEF StagesOK, OutcomeOf, RowOf
  <2>5. response[h].stdout.program = request[h].program
    BY <2>2, <2>4 DEF ServesOwnProgram
  <2>6. Ran(response[h].stdout.program)
    BY <2>1, <2>2, <2>4 DEF SuccessesOK
  <2>7. row.program = request[h].program
    BY <2>3 DEF RowOf
  <2>8. QED
    BY <2>5, <2>6, <2>7
<1>2. QED
  BY <1>1, ServiceInvariant, OwnProgramServed, PTL

-----------------------------------------------------------------------------
(* What the clients are promised.                                          *)

(***************************************************************************)
(* A success that is no hit is the run of its own request; a hit has no    *)
(* run of its own, and both its request and that of the run allow caching. *)
(***************************************************************************)
Lends(g, h) ==
  /\ result[g] = "ok"
  /\ stdout[g] = response[h].stdout
  /\ request[g].use_cache

SourceOf(h) ==
  response[h] # NoResponse =>
    /\ response[h].success /\ ~response[h].cached =>
         result[h] = "ok" /\ response[h].stdout = stdout[h]
    /\ response[h].success /\ response[h].cached =>
         /\ result[h] # "ok" /\ request[h].use_cache
         /\ \E g \in Handlers : Lends(g, h)
    /\ ~response[h].success => result[h] # "ok"

Lendable(s) == request[entries[s].response.execution_id].use_cache

PromiseInv ==
  /\ \A h \in Handlers : pc[h] = "idle" => request[h] = NoRequest
  /\ \A h \in Handlers : SourceOf(h)
  /\ \A s \in DOMAIN entries : Lendable(s)

LEMMA IdleKept ==
  ASSUME TypeOK, PromiseInv, NEW h \in Handlers, StepOf(h)
  PROVE  \A g \in Handlers : pc'[g] = "idle" => request'[g] = NoRequest
<1>0. ControlType /\ OnlyFor(h)
  BY Types, StepIsLocal
<1>1. pc'[h] = "idle" => pc[h] = "idle" /\ request'[h] = request[h]
  <2>1. CASE Reject(h) \/ Arrive(h) \/ Cancel(h) \/ ServeInfo(h)
    BY <1>0, <2>1
    DEF Reject, Arrive, Cancel, ServeInfo, Goto, ControlType
  <2>2. CASE BeginHit(h) \/ BeginExecution(h) \/ FailPreparing(h)
    BY <1>0, <2>2
    DEF BeginHit, BeginExecution, FailPreparing, Record, Goto, ControlType
  <2>3. CASE ResumePreparing(h) \/ ResumeWritten(h) \/ Answer(h)
    BY <1>0, <2>3
    DEF ResumePreparing, ResumeWritten, Answer, Goto, ControlType
  <2>4. CASE ResumeJob(h) \/ Timeout(h) \/ ResumeCleanedUp(h)
    BY <1>0, <2>4
    DEF ResumeJob, Timeout, CleanUp, ResumeCleanedUp, Record, Goto, ControlType
  <2>5. CASE PoolStep(h) \/ FailJob(h) \/ FinishJob(h) \/ DbStep(h)
    BY <2>5
    DEF PoolStep, RunFs, FailFs, StartJob, FailJob, FinishJob, DbStep,
        ExecuteInsert, FailInsert
  <2>6. QED
    BY <2>1, <2>2, <2>3, <2>4, <2>5 DEF StepOf, HandlerStep
<1>2. QED
  BY <1>0, <1>1 DEF PromiseInv, OnlyFor, SameFor

(***************************************************************************)
(* A response that stands keeps its source.                                *)
(***************************************************************************)
LEMMA SourceStays ==
  ASSUME Settled, NEW h \in Handlers, SourceOf(h),
         response'[h] = response[h],
         response[h] # NoResponse => result'[h] = result[h]
  PROVE  SourceOf(h)'
<1>1. SUFFICES ASSUME response[h] # NoResponse PROVE SourceOf(h)'
  BY DEF SourceOf
<1>2. request'[h] = request[h]
  BY <1>1 DEF Settled
<1>3. \A g \in Handlers : Lends(g, h) => Lends(g, h)'
  BY DEF Lends, Settled
<1>4. result[h] = "ok" => stdout'[h] = stdout[h]
  BY DEF Settled
<1>5. QED
  BY <1>1, <1>2, <1>3, <1>4 DEF SourceOf

(***************************************************************************)
(* Only the two ends of an execution, and the end of its job, say how it   *)
(* went.                                                                   *)
(***************************************************************************)
LEMMA OnlyEndsTell ==
  ASSUME NEW h \in Handlers, StepOf(h), ~BeginHit(h), ~ResumeCleanedUp(h)
  PROVE  /\ response' = response
         /\ pc[h] = "run" \/ result' = result
<1>1. CASE Reject(h) \/ Arrive(h) \/ Cancel(h) \/ ServeInfo(h)
  BY <1>1 DEF Reject, Arrive, Cancel, ServeInfo
<1>2. CASE BeginExecution(h) \/ ResumePreparing(h) \/ ResumeWritten(h)
  BY <1>2 DEF BeginExecution, ResumePreparing, ResumeWritten
<1>3. CASE FailPreparing(h) \/ Answer(h) \/ ResumeJob(h) \/ Timeout(h)
  BY <1>3 DEF FailPreparing, Answer, ResumeJob, Timeout, CleanUp
<1>4. CASE PoolStep(h) \/ FailJob(h) \/ FinishJob(h) \/ DbStep(h)
  BY <1>4
  DEF PoolStep, RunFs, FailFs, StartJob, FailJob, FinishJob, DbStep,
      ExecuteInsert, FailInsert
<1>5. QED
  BY <1>1, <1>2, <1>3, <1>4 DEF StepOf, HandlerStep

LEMMA SourcesKept ==
  ASSUME ServiceInv, PromiseInv, NEW h \in Handlers, StepOf(h)
  PROVE  \A g \in Handlers : SourceOf(g)'
<1>0. /\ TypeOK /\ StagesOK /\ PoolOK /\ StoredOK
      /\ ControlType /\ PoolType /\ AnswerType /\ CacheType
      /\ Settled /\ OnlyFor(h)
  BY Types, StepsSettle, StepIsLocal DEF ServiceInv
<1>1. \A g \in Handlers \ {h} : SourceOf(g)'
  BY <1>0, SourceStays DEF PromiseInv, OnlyFor, SameFor
<1>2. CASE BeginHit(h)
  <2>1. PICK s \in DOMAIN entries : Record(h, Renewed(entries[s].response, h))
    BY <1>2 DEF BeginHit
  <2> DEFINE r == entries[s].response
             g == r.execution_id
  <2>2. /\ response'[h] = Renewed(r, h)
        /\ Renewed(r, h).stdout = r.stdout
        /\ Renewed(r, h).success = r.success
    BY <1>0, <2>1, RenewedIsResponse DEF Record, AnswerType
  <2>3. Renewed(r, h).cached
    <3>1. r \in Response
      BY <1>0, StoredIsResponse
    <3>2. QED
      BY <3>1 DEF Renewed, Response
  <2>4. /\ result[h] = "none" /\ result' = result /\ stdout' = stdout
        /\ request' = request /\ request[h].use_cache
    <3>1. result[h] = "none"
      BY <1>0, <1>2 DEF BeginHit, Acquire, StagesOK, StageOf, Untouched
    <3>2. QED
      BY <1>2, <3>1 DEF BeginHit, poolVars
  <2>5. /\ g \in Handlers /\ result[g] = "ok" /\ r.stdout = stdout[g]
        /\ r.success /\ request[g].use_cache
    <3>1. g \in Handlers
      BY <1>0, StoredIsResponse
    <3>2. Stored(s) /\ Lendable(s)
      BY <1>0, StoredEach DEF PromiseInv
    <3>3. QED
      BY <3>1, <3>2 DEF Stored, Lendable
  <2>6. \E x \in Handlers : Lends(x, h)'
    <3>1. PICK x \in Handlers : x = g
      BY <2>5
    <3>2. Lends(x, h)'
      BY <2>2, <2>4, <2>5, <3>1 DEF Lends
    <3>3. QED
      BY <3>2
  <2>7. SourceOf(h)'
    BY <2>2, <2>3, <2>4, <2>5, <2>6 DEF SourceOf
  <2>8. QED
    BY <1>1, <2>7
<1>3. CASE ResumeCleanedUp(h)
  <2>1. /\ response'[h] = Built(h)
        /\ result' = result /\ stdout' = stdout
    BY <1>0, <1>3 DEF ResumeCleanedUp, Record, AnswerType, poolVars
  <2>2. /\ Built(h).success <=> result[h] = "ok"
        /\ ~Built(h).cached
        /\ Built(h).stdout = stdout[h]
    BY DEF Built
  <2>3. SourceOf(h)'
    BY <2>1, <2>2 DEF SourceOf
  <2>4. QED
    BY <1>1, <2>3
<1>4. CASE ~BeginHit(h) /\ ~ResumeCleanedUp(h)
  <2>1. response'[h] = response[h] /\ (pc[h] = "run" \/ result'[h] = result[h])
    BY <1>4, OnlyEndsTell
  <2>2. pc[h] = "run" => response[h] = NoResponse
    BY <1>0 DEF StagesOK, StageOf, Executing
  <2>3. SourceOf(h)'
    BY <1>0, <2>1, <2>2, SourceStays DEF PromiseInv
  <2>4. QED
    BY <1>1, <2>3
<1>5. QED
  BY <1>2, <1>3, <1>4

LEMMA LendableKept ==
  ASSUME ServiceInv, PromiseInv, NEW h \in Handlers, StepOf(h)
  PROVE  \A s \in DOMAIN entries' : Lendable(s)'
<1>0. /\ TypeOK /\ StagesOK /\ PoolOK /\ StoredOK /\ CacheType /\ Settled
  BY Types, StepsSettle DEF ServiceInv
<1>1. ASSUME NEW s \in DOMAIN entries, s \in DOMAIN entries',
             entries'[s] = entries[s]
      PROVE  Lendable(s)'
  <2> DEFINE g == entries[s].response.execution_id
  <2>1. g \in Handlers /\ result[g] = "ok" /\ request[g].use_cache
    BY <1>0, StoredIsResponse, StoredEach DEF Stored, PromiseInv, Lendable
  <2>2. request'[g] = request[g]
    BY <1>0, <2>1 DEF Settled
  <2>3. QED
    BY <1>1, <2>1, <2>2 DEF Lendable
<1>2. CASE /\ ResumeCleanedUp(h) /\ request[h].use_cache
           /\ Cache!Insert(CacheKey(request[h].program), Built(h))
           /\ Built(h).success
  <2> DEFINE slot == HashOf[CacheKey(request[h].program)]
             e == [response |-> Built(h), elapsed |-> 0, ttl |-> Ttl]
  <2>1. /\ DOMAIN entries' \subseteq DOMAIN entries \cup {slot}
        /\ \A s \in DOMAIN entries' :
             entries'[s] = IF s = slot THEN e ELSE entries[s]
    BY <1>0, <1>2, InsertPuts
  <2>2. request[h].use_cache /\ request' = request
    BY <1>2 DEF ResumeCleanedUp
  <2>3. ASSUME NEW s \in DOMAIN entries'
        PROVE  Lendable(s)'
    <3>1. CASE s = slot
      BY <2>1, <2>2, <3>1 DEF Lendable, Built
    <3>2. CASE s # slot
      BY <1>1, <2>1, <3>2
    <3>3. QED
      BY <3>1, <3>2
  <2>4. QED
    BY <2>3
<1>3. CASE ResumeCleanedUp(h) /\ UNCHANGED cacheVars
  BY <1>1, <1>3 DEF cacheVars
<1>4. CASE ~(/\ ResumeCleanedUp(h)
             /\ Cache!Insert(CacheKey(request[h].program), Built(h))
             /\ Built(h).success)
  BY <1>1, <1>4, OnlyEndsStore
<1>5. QED
  BY <1>2, <1>3, <1>4 DEF ResumeCleanedUp

LEMMA PromiseInvariant == Spec => []PromiseInv
<1>1. Init => PromiseInv
  BY DEF Init, PromiseInv, SourceOf, Cache!Init
<1>2. ServiceInv /\ PromiseInv /\ [Next]_vars => PromiseInv'
  <2> SUFFICES ASSUME ServiceInv, PromiseInv, [Next]_vars PROVE PromiseInv'
    OBVIOUS
  <2>1. ASSUME NEW h \in Handlers, StepOf(h)
        PROVE  PromiseInv'
    BY <2>1, IdleKept, SourcesKept, LendableKept DEF PromiseInv, ServiceInv
  <2>2. ASSUME \A h \in Handlers : pc'[h] = "idle" => pc[h] = "idle",
               UNCHANGED <<request, result, stdout, response>>,
               DOMAIN entries' \subseteq DOMAIN entries,
               \A s \in DOMAIN entries' :
                 entries'[s].response = entries[s].response
        PROVE  PromiseInv'
    <3>1. \A h \in Handlers : SourceOf(h)'
      BY <2>2 DEF PromiseInv, SourceOf, Lends
    <3>2. \A s \in DOMAIN entries' : Lendable(s)'
      BY <2>2 DEF PromiseInv, Lendable
    <3>3. QED
      BY <2>2, <3>1, <3>2 DEF PromiseInv
  <2>3. CASE ClearCache \/ CleanupTask
    BY <2>2, <2>3
    DEF ClearCache, CleanupTask, OutsideCache, poolVars, Cache!Clear,
        Cache!CleanupExpired, Cache!EvictExpired, Cache!FreshSlots, Cache!Keep
  <2>4. CASE Tick
    <3>1. \A s \in DOMAIN entries : entries[s] \in Cache!Entry
      BY Types DEF ServiceInv, CacheType, Cache!IsEntryMap
    <3>2. QED
      BY <2>2, <2>4, <3>1
      DEF Tick, OutsideCache, poolVars, Cache!Tick, Cache!Entry
  <2>5. CASE Restart
    <3>1. \A h \in Handlers : pc'[h] = "idle" => pc[h] = "idle"
      BY <2>5 DEF Restart
    <3>2. QED
      BY <2>2, <2>5, <3>1 DEF Restart, Cache!Keep
  <2>6. CASE UNCHANGED vars
    BY <2>2, <2>6 DEF vars, poolVars, cacheVars
  <2>7. QED
    BY <2>1, <2>3, <2>4, <2>5, <2>6 DEF Next, StepOf
<1>3. QED
  BY <1>1, <1>2, ServiceInvariant, PTL DEF Spec

-----------------------------------------------------------------------------
(* The refinement.                                                         *)

Gone == {"failed", "cancelled", "lost"}

(***************************************************************************)
(* What a step for h shows of the others.                                  *)
(***************************************************************************)
LEMMA OthersSee ==
  ASSUME TypeOK, NEW h \in Handlers, StepOf(h)
  PROVE  /\ Runs' = [Runs EXCEPT ![h] = Runs'[h]]
         /\ Answers' = [Answers EXCEPT ![h] = Answers'[h]]
<1>1. OnlyFor(h)
  BY StepIsLocal
<1>2. \A g \in Handlers \ {h} : Runs'[g] = Runs[g] /\ Answers'[g] = Answers[g]
  BY <1>1 DEF OnlyFor, SameFor, Runs, Answers
<1>3. /\ Runs = [g \in Handlers |-> Runs[g]]
      /\ Runs' = [g \in Handlers |-> Runs'[g]]
      /\ Answers = [g \in Handlers |-> Answers[g]]
      /\ Answers' = [g \in Handlers |-> Answers'[g]]
  BY DEF Runs, Answers
<1>4. QED
  BY <1>2, <1>3

(***************************************************************************)
(* What has come of an execution may be told its client.                   *)
(***************************************************************************)
OutcomeFor(h) ==
  IF response[h].success
  THEN Promise!Success(response[h].stdout, response[h].cached)
  ELSE Promise!Failure

LEMMA RowTells ==
  ASSUME NEW h \in Handlers, response[h].execution_id = h,
         response[h].success \in BOOLEAN
  PROVE  Promise!RowFor(h, OutcomeFor(h)) = RowOf(h)
<1>1. OutcomeFor(h).kind = "success" <=> response[h].success
  BY DEF OutcomeFor, Promise!Success, Promise!Failure
<1>2. (OutcomeFor(h).kind = "success") = response[h].success
  <2>1. CASE response[h].success
    <3>1. (OutcomeFor(h).kind = "success") = TRUE /\ response[h].success = TRUE
      BY <1>1, <2>1
    <3>2. QED
      BY <3>1
  <2>2. CASE ~response[h].success
    <3>1. (OutcomeFor(h).kind = "success") = FALSE /\ response[h].success = FALSE
      BY <1>1, <2>2
    <3>2. QED
      BY <3>1
  <2>3. QED
    BY <2>1, <2>2
<1>3. QED
  BY <1>2 DEF Promise!RowFor, RowOf

LEMMA OutcomePromised ==
  ASSUME ServiceInv, PromiseInv, NEW h \in Handlers, response[h] # NoResponse
  PROVE  /\ OutcomeFor(h) \in Promise!Outcomes(h)
         /\ Promise!RowFor(h, OutcomeFor(h)) = RowOf(h)
<1>1. /\ PoolType /\ AnswerType /\ StagesOK /\ SuccessesOK /\ SourceOf(h)
  BY Types DEF ServiceInv, PromiseInv
<1>2. response[h] \in Response /\ response[h].execution_id = h
  BY <1>1 DEF AnswerType, StagesOK, OutcomeOf
<1>3. response[h].success \in BOOLEAN /\ response[h].cached \in BOOLEAN
  BY <1>2 DEF Response
<1>row. Promise!RowFor(h, OutcomeFor(h)) = RowOf(h)
  BY <1>2, <1>3, RowTells
<1>4. CASE response[h].success /\ ~response[h].cached
  <2>1. result[h] = "ok" /\ response[h].stdout = stdout[h]
    BY <1>1, <1>4 DEF SourceOf
  <2>2. stdout[h] # NoOutput
    BY <1>1, <2>1 DEF StagesOK, OutcomeOf
  <2>3. Runs[h] = stdout[h]
    BY <2>1 DEF Runs
  <2>4. OutcomeFor(h) = Promise!Success(Runs[h], FALSE)
    BY <1>3, <1>4, <2>1, <2>3 DEF OutcomeFor
  <2>5. QED
    BY <1>row, <2>2, <2>3, <2>4 DEF Promise!Outcomes
<1>5. CASE response[h].success /\ response[h].cached
  <2>1. result[h] # "ok" /\ request[h].use_cache
    BY <1>1, <1>5 DEF SourceOf
  <2>2. PICK g \in Handlers : Lends(g, h)
    BY <1>1, <1>5 DEF SourceOf
  <2>3. Runs[h] = NoOutput /\ Runs[g] = stdout[g]
    BY <2>1, <2>2 DEF Runs, Lends
  <2>4. /\ stdout[g] # NoOutput /\ stdout[g] = response[h].stdout
        /\ HashOf[stdout[g].program] = HashOf[request[h].program]
        /\ request[g].use_cache
    BY <1>1, <1>5, <2>2 DEF SuccessesOK, Lends
  <2>5. g \in Promise!Sources(h)
    BY <2>1, <2>3, <2>4 DEF Promise!Sources
  <2>6. OutcomeFor(h) = Promise!Success(Runs[g], TRUE)
    BY <1>3, <1>5, <2>3, <2>4 DEF OutcomeFor
  <2>7. OutcomeFor(h) \in Promise!Outcomes(h)
    BY <2>3, <2>5, <2>6 DEF Promise!Outcomes
  <2>8. QED
    BY <1>row, <2>7
<1>6. CASE ~response[h].success
  <2>1. OutcomeFor(h) = Promise!Failure /\ Runs[h] = NoOutput
    BY <1>1, <1>6 DEF SourceOf, OutcomeFor, Runs
  <2>2. QED
    BY <1>row, <2>1 DEF Promise!Outcomes
<1>7. QED
  BY <1>3, <1>4, <1>5, <1>6

(***************************************************************************)
(* Where a handler is, and what its client has got.                        *)
(***************************************************************************)
LEMMA AnswerAt ==
  ASSUME NEW h \in Handlers
  PROVE  /\ pc[h] \in Gone => Answers[h] = Promise!Dropped
         /\ pc[h] \notin Gone \cup {"answered"} => Answers[h] = Promise!Pending
         /\ response[h] = NoResponse /\ pc[h] \notin Gone =>
              Answers[h] = Promise!Pending
         /\ pc[h] = "answered" /\ response[h] # NoResponse =>
              Answers[h] = OutcomeFor(h)
  BY DEF Answers, Gone, Promise!Dropped, Promise!Pending, OutcomeFor,
         Promise!Success, Promise!Failure

LEMMA AnswerThen ==
  ASSUME NEW h \in Handlers
  PROVE  /\ pc'[h] \in Gone => Answers'[h] = Promise!Dropped
         /\ pc'[h] \notin Gone \cup {"answered"} =>
              Answers'[h] = Promise!Pending
         /\ response'[h] = NoResponse /\ pc'[h] \notin Gone =>
              Answers'[h] = Promise!Pending
         /\ pc'[h] = "answered" /\ response'[h] # NoResponse =>
              Answers'[h] = OutcomeFor(h)'
  BY DEF Answers, Gone, Promise!Dropped, Promise!Pending, OutcomeFor,
         Promise!Success, Promise!Failure

(***************************************************************************)
(* A step that shows its own client nothing shows nobody anything.         *)
(***************************************************************************)
LEMMA NothingShown ==
  ASSUME TypeOK, NEW h \in Handlers, StepOf(h),
         Runs'[h] = Runs[h], Answers'[h] = Answers[h]
  PROVE  Runs' = Runs /\ Answers' = Answers
<1>1. /\ Runs' = [Runs EXCEPT ![h] = Runs[h]]
      /\ Answers' = [Answers EXCEPT ![h] = Answers[h]]
  BY OthersSee
<1>2. /\ Runs = [g \in Handlers |-> Runs[g]]
      /\ Answers = [g \in Handlers |-> Answers[g]]
  BY DEF Runs, Answers
<1>3. QED
  BY <1>1, <1>2

Unseen == UNCHANGED Promise!promiseVars

(***************************************************************************)
(* What happens before the program runs.                                   *)
(***************************************************************************)
LEMMA AdmissionKeepsPromise ==
  ASSUME ServiceInv, PromiseInv, NEW h \in Handlers,
         \/ Reject(h) \/ Arrive(h) \/ ServeInfo(h)
         \/ BeginHit(h) \/ BeginExecution(h)
  PROVE  Promise!Next \/ Unseen
<1>1. /\ TypeOK /\ StagesOK /\ ControlType /\ PoolType /\ AnswerType
      /\ StepOf(h)
  BY Types DEF ServiceInv, StepOf, HandlerStep
<1>2. /\ pc[h] \in {"idle", "waiting"}
      /\ response[h] = NoResponse /\ result[h] = "none"
  BY <1>1
  DEF Reject, Arrive, ServeInfo, BeginHit, BeginExecution, Acquire, StagesOK,
      StageOf, Untouched
<1>3. /\ result' = result /\ stdout' = stdout /\ rows' = rows
      /\ Runs'[h] = Runs[h]
  BY DEF Reject, Arrive, ServeInfo, BeginHit, BeginExecution, poolVars, dbVars,
         Runs
<1>4. Answers'[h] = Promise!Pending /\ Answers[h] = Promise!Pending
  <2>1. pc[h] \notin Gone
    BY <1>2 DEF Gone
  <2>2. CASE Reject(h) \/ Arrive(h) \/ BeginHit(h) \/ BeginExecution(h)
    <3>1. pc'[h] \notin Gone \cup {"answered"}
      BY <1>1, <2>2
      DEF Reject, Arrive, BeginHit, BeginExecution, Record, Goto, ControlType,
          Gone
    <3>2. QED
      BY <1>2, <2>1, <3>1, AnswerAt, AnswerThen
  <2>3. CASE ServeInfo(h)
    <3>1. pc'[h] \notin Gone /\ response'[h] = NoResponse
      BY <1>1, <1>2, <2>3 DEF ServeInfo, Goto, ControlType, Gone
    <3>2. QED
      BY <1>2, <2>1, <3>1, AnswerAt, AnswerThen
  <2>4. QED
    BY <2>2, <2>3
<1>5. Runs' = Runs /\ Answers' = Answers
  BY <1>1, <1>3, <1>4, NothingShown
<1>6. CASE Reject(h) \/ ServeInfo(h)
  BY <1>3, <1>5, <1>6
  DEF Reject, ServeInfo, lockVars, Unseen, Promise!promiseVars
<1>7. CASE Arrive(h)
  <2>1. request[h] = NoRequest /\ holder' = holder
    BY <1>7 DEF Arrive, PromiseInv
  <2>2. PICK r \in ExecuteRequest \cup {InfoRequest} :
          request' = [request EXCEPT ![h] = r]
    BY <1>7 DEF Arrive
  <2>3. Promise!Ask(h, r)
    BY <1>3, <1>5, <2>1, <2>2 DEF Promise!Ask
  <2>4. QED
    BY <2>3 DEF Promise!Next
<1>8. CASE BeginHit(h) \/ BeginExecution(h)
  <2>1. /\ holder = Nobody /\ holder' = h /\ request' = request
        /\ request[h].to = "/execute" /\ pc[h] = "waiting"
    BY <1>8 DEF BeginHit, BeginExecution, Acquire
  <2>2. request[h] \in ExecuteRequest
    BY <1>1, <2>1 DEF StagesOK, StageOf, InfoRequest
  <2>3. Promise!TakeTurn(h)
    BY <1>3, <1>4, <1>5, <2>1, <2>2 DEF Promise!TakeTurn
  <2>4. QED
    BY <2>3 DEF Promise!Next
<1>9. QED
  BY <1>6, <1>7, <1>8

(***************************************************************************)
(* The client sees nothing of how its program is run, only that it ended   *)
(* in time; what a job puts out later is never shown.                      *)
(***************************************************************************)
LEMMA ExecutionKeepsPromise ==
  ASSUME ServiceInv, PromiseInv, NEW h \in Handlers,
         \/ ResumePreparing(h) \/ ResumeWritten(h)
         \/ ResumeJob(h) \/ Timeout(h) \/ ResumeCleanedUp(h)
  PROVE  Promise!Next \/ Unseen
<1>1. /\ TypeOK /\ StagesOK /\ HolderRuns /\ ControlType /\ PoolType
      /\ AnswerType /\ StepOf(h)
  BY Types DEF ServiceInv, MutexInv, StepOf, HandlerStep
<1>2. /\ request' = request /\ holder' = holder /\ rows' = rows
      /\ stdout' = stdout
  BY DEF ResumePreparing, ResumeWritten, ResumeJob, Timeout, CleanUp,
         ResumeCleanedUp, lockVars, dbVars, poolVars
<1>3. Answers'[h] = Answers[h]
  <2>1. pc[h] \notin Gone \cup {"answered"}
    BY DEF ResumePreparing, ResumeWritten, ResumeJob, Timeout, CleanUp,
           ResumeCleanedUp, Gone
  <2>2. pc'[h] \notin Gone \cup {"answered"}
    BY <1>1
    DEF ResumePreparing, ResumeWritten, ResumeJob, Timeout, CleanUp,
        ResumeCleanedUp, Record, Goto, ControlType, Gone
  <2>3. QED
    BY <2>1, <2>2, AnswerAt, AnswerThen
<1>4. CASE Runs'[h] = Runs[h]
  BY <1>1, <1>2, <1>3, <1>4, NothingShown DEF Unseen, Promise!promiseVars
<1>5. CASE ResumePreparing(h) \/ ResumeWritten(h) \/ ResumeCleanedUp(h)
  BY <1>4, <1>5 DEF ResumePreparing, ResumeWritten, ResumeCleanedUp, poolVars,
                    Runs
<1>6. CASE ResumeJob(h) \/ Timeout(h)
  <2>1. /\ pc[h] = "run" /\ result[h] = "none"
        /\ result' = [result EXCEPT ![h] = IF ResumeJob(h) THEN job[h] ELSE "err"]
    BY <1>1, <1>6 DEF ResumeJob, Timeout, CleanUp, StagesOK, StageOf
  <2>2. Runs[h] = NoOutput
    BY <2>1 DEF Runs
  <2>3. CASE result'[h] = "ok"
    <3>1. /\ job[h] = "ok" /\ stdout[h] # NoOutput
          /\ stdout[h].program = request[h].program
      BY <1>1, <2>1, <2>3 DEF AnswerType, StagesOK, OutcomeOf
    <3>2. PICK text \in Texts :
            stdout[h] = [program |-> request[h].program, text |-> text]
      BY <1>1, <3>1 DEF PoolType, Output
    <3>3. Runs'[h] = stdout[h]
      BY <1>2, <2>3 DEF Runs
    <3>4. Runs' = [Runs EXCEPT ![h] = stdout[h]]
      BY <1>1, <3>3, OthersSee
    <3>5. Answers' = Answers
      <4>1. Answers' = [Answers EXCEPT ![h] = Answers[h]]
        BY <1>1, <1>3, OthersSee
      <4>2. Answers = [g \in Handlers |-> Answers[g]]
        BY DEF Answers
      <4>3. QED
        BY <4>1, <4>2
    <3>6. holder = h
      BY <1>1, <2>1 DEF HolderRuns, Executing
    <3>7. Promise!Run(h, text)
      BY <1>2, <2>2, <3>2, <3>4, <3>5, <3>6 DEF Promise!Run
    <3>8. QED
      BY <3>7 DEF Promise!Next
  <2>4. CASE result'[h] # "ok"
    BY <1>4, <2>2, <2>4 DEF Runs
  <2>5. QED
    BY <2>3, <2>4
<1>7. QED
  BY <1>5, <1>6

LEMMA PoolKeepsPromise ==
  ASSUME ServiceInv, NEW h \in Handlers,
         PoolStep(h) \/ FailJob(h) \/ FinishJob(h) \/ FailInsert(h)
  PROVE  Unseen
<1>1. /\ TypeOK /\ StagesOK /\ PoolType /\ StepOf(h)
  BY Types DEF ServiceInv, StepOf, DbStep
<1>2. UNCHANGED <<pc, request, holder, result, response, rows>>
  BY DEF PoolStep, RunFs, FailFs, StartJob, FailJob, FinishJob, FailInsert,
         lockVars, dbVars
<1>3. result[h] = "ok" => stdout'[h] = stdout[h]
  <2>1. CASE FinishJob(h)
    BY <1>1, <2>1 DEF FinishJob, StagesOK, OutcomeOf
  <2>2. CASE ~FinishJob(h)
    BY <2>2 DEF PoolStep, RunFs, FailFs, StartJob, FailJob, FailInsert, poolVars
  <2>3. QED
    BY <2>1, <2>2
<1>4. Runs'[h] = Runs[h] /\ Answers'[h] = Answers[h]
  BY <1>2, <1>3 DEF Runs, Answers
<1>5. QED
  BY <1>1, <1>2, <1>4, NothingShown DEF Unseen, Promise!promiseVars

(***************************************************************************)
(* The INSERT of an execution, be its client still there or not.           *)
(***************************************************************************)
LEMMA InsertKeepsPromise ==
  ASSUME ServiceInv, PromiseInv, NEW h \in Handlers, ExecuteInsert(h)
  PROVE  Promise!Next
<1>1. /\ TypeOK /\ StagesOK /\ HolderRuns /\ TableOK /\ ControlType
      /\ AnswerType /\ StepOf(h)
  BY Types DEF ServiceInv, MutexInv, StepOf, DbStep
<1>2. /\ insertion[h] = "sent" /\ response[h] # NoResponse
      /\ response[h].execution_id = h /\ request[h] \in ExecuteRequest
  BY <1>1 DEF ExecuteInsert, StagesOK, OutcomeOf
<1>3. \A row \in rows : row.id # h
  BY <1>1, <1>2 DEF TableOK
<1>4. /\ rows' = rows \cup {RowOf(h)}
      /\ UNCHANGED <<pc, request, holder, stdout, result, response>>
  BY <1>2, <1>3 DEF ExecuteInsert, RowOf, lockVars, poolVars
<1>5. Runs' = Runs /\ Answers' = Answers
  BY <1>4 DEF Runs, Answers
<1>6. holder = h \/ Answers[h] = Promise!Dropped
  <2>1. pc[h] \in {"recording"} \cup Gone
    BY <1>1, <1>2
    DEF StagesOK, StageOf, Untouched, ControlType, PcTypes, Suspended, Ended,
        Gone
  <2>2. QED
    BY <1>1, <2>1, AnswerAt DEF HolderRuns
<1>7. /\ OutcomeFor(h) \in Promise!Outcomes(h)
      /\ Promise!RowFor(h, OutcomeFor(h)) = RowOf(h)
  BY <1>2, OutcomePromised
<1>8. Promise!Enter(h)
  BY <1>2, <1>3, <1>4, <1>5, <1>6, <1>7
  DEF Promise!Enter, Promise!Unrecorded
<1>9. QED
  BY <1>8 DEF Promise!Next

(***************************************************************************)
(* The client is answered after the INSERT.                                *)
(***************************************************************************)
LEMMA AnswerKeepsPromise ==
  ASSUME ServiceInv, PromiseInv, NEW h \in Handlers, Answer(h)
  PROVE  Promise!Next
<1>1. /\ TypeOK /\ StagesOK /\ HolderRuns /\ TableOK /\ FaultsOK
      /\ ControlType /\ AnswerType /\ StepOf(h)
  BY Types DEF ServiceInv, MutexInv, StepOf, HandlerStep
<1>2. /\ pc[h] = "recording" /\ response[h] # NoResponse
      /\ insertion[h] \in {"ok", "err"}
  BY <1>1 DEF Answer, StagesOK, OutcomeOf
<1>3. /\ UNCHANGED <<request, result, stdout, response, rows>>
      /\ holder' = Nobody /\ pc'[h] = "answered"
  BY <1>1 DEF Answer, Goto, poolVars, dbVars, ControlType
<1>4. /\ OutcomeFor(h) \in Promise!Outcomes(h)
      /\ Promise!RowFor(h, OutcomeFor(h)) = RowOf(h)
  BY <1>2, OutcomePromised
<1>5. Runs' = Runs
  BY <1>3 DEF Runs
<1>6. Answers' = [Answers EXCEPT ![h] = OutcomeFor(h)]
  <2>1. OutcomeFor(h)' = OutcomeFor(h)
    BY <1>3 DEF OutcomeFor, Promise!Success, Promise!Failure
  <2>2. Answers'[h] = OutcomeFor(h)
    BY <1>2, <1>3, <2>1, AnswerThen
  <2>3. QED
    BY <1>1, <2>2, OthersSee
<1>7. RowOf(h) \in rows \/ (DbFaults /\ Promise!Unrecorded(h))
  <2>1. CASE insertion[h] = "ok"
    BY <1>1, <2>1 DEF TableOK
  <2>2. CASE insertion[h] = "err"
    BY <1>1, <2>2 DEF TableOK, FaultsOK, Promise!Unrecorded
  <2>3. QED
    BY <1>2, <2>1, <2>2
<1>8. holder = h
  BY <1>1, <1>2 DEF HolderRuns
<1>9. Promise!Reply(h)
  BY <1>3, <1>4, <1>5, <1>6, <1>7, <1>8 DEF Promise!Reply
<1>10. QED
  BY <1>9 DEF Promise!Next

(***************************************************************************)
(* A request that fails before its job, or whose client hangs up.          *)
(***************************************************************************)
LEMMA EndKeepsPromise ==
  ASSUME ServiceInv, NEW h \in Handlers, FailPreparing(h) \/ Cancel(h)
  PROVE  Promise!Next
<1>1. /\ TypeOK /\ HolderRuns /\ ControlType /\ StepOf(h)
  BY Types DEF ServiceInv, MutexInv, StepOf, HandlerStep
<1>2. UNCHANGED <<request, result, stdout, rows>>
  BY DEF FailPreparing, Cancel, poolVars, dbVars
<1>3. pc[h] \notin Gone \cup {"answered"} /\ pc'[h] \in Gone
  BY <1>1
  DEF FailPreparing, Cancel, Goto, ControlType, Preparing, Executing,
      Suspended, Gone
<1>4. holder' = IF holder = h THEN Nobody ELSE holder
  BY <1>1 DEF FailPreparing, Cancel, HolderRuns, Executing
<1>5. Runs' = Runs
  BY <1>2 DEF Runs
<1>6. Answers[h] = Promise!Pending
  BY <1>3, AnswerAt
<1>7. Answers' = [g \in Handlers |->
                    IF g \in {h} THEN Promise!Dropped ELSE Answers[g]]
  <2>1. Answers' = [Answers EXCEPT ![h] = Promise!Dropped]
    BY <1>1, <1>3, AnswerThen, OthersSee
  <2>2. Answers = [g \in Handlers |-> Answers[g]]
    BY DEF Answers
  <2>3. QED
    BY <2>1, <2>2
<1>8. Promise!Drop({h})
  BY <1>2, <1>4, <1>5, <1>6, <1>7 DEF Promise!Drop
<1>9. QED
  BY <1>8 DEF Promise!Next

(***************************************************************************)
(* A restart drops all who are waiting for something.                      *)
(***************************************************************************)
LEMMA RestartKeepsPromise ==
  ASSUME ServiceInv, Restart
  PROVE  Promise!Next
<1> DEFINE S == {h \in Handlers : pc[h] \in Suspended}
<1>1. HolderRuns /\ ControlType
  BY Types DEF ServiceInv, MutexInv
<1>2. /\ UNCHANGED <<request, result, stdout, response, rows>>
      /\ holder' = Nobody
      /\ pc' = [h \in Handlers |->
                  IF pc[h] \in Suspended THEN "lost" ELSE pc[h]]
  BY DEF Restart
<1>3. Runs' = Runs
  BY <1>2 DEF Runs
<1>4. \A h \in S : Answers[h] = Promise!Pending
  <2>1. \A h \in S : pc[h] \notin Gone \cup {"answered"}
    BY DEF Suspended, Executing, Preparing, Gone
  <2>2. QED
    BY <2>1, AnswerAt
<1>5. Answers' = [h \in Handlers |-> IF h \in S THEN Promise!Dropped ELSE Answers[h]]
  <2>1. ASSUME NEW h \in Handlers
        PROVE  Answers'[h] = IF h \in S THEN Promise!Dropped ELSE Answers[h]
    <3>1. CASE h \in S
      BY <1>2, <3>1, AnswerThen DEF Gone
    <3>2. CASE h \notin S
      <4>1. pc'[h] = pc[h]
        BY <1>2, <3>2
      <4>2. QED
        BY <1>2, <3>2, <4>1 DEF Answers
    <3>3. QED
      BY <3>1, <3>2
  <2>2. Answers' = [h \in Handlers |-> Answers'[h]]
    BY DEF Answers
  <2>3. QED
    BY <2>1, <2>2
<1>6. holder' = IF holder \in S THEN Nobody ELSE holder
  <2>1. holder \in Handlers => holder \in S
    BY <1>1 DEF HolderRuns, Suspended
  <2>2. QED
    BY <1>1, <1>2, <2>1 DEF ControlType
<1>7. S \in SUBSET Handlers /\ Promise!Drop(S)
  BY <1>2, <1>3, <1>4, <1>5, <1>6 DEF Promise!Drop
<1>8. QED
  BY <1>7 DEF Promise!Next

LEMMA NextKeepsPromise ==
  ASSUME ServiceInv, PromiseInv, [Next]_vars
  PROVE  [Promise!Next]_(Promise!promiseVars)
<1>1. SUFFICES Promise!Next \/ Unseen
  BY DEF Unseen
<1>2. ASSUME NEW h \in Handlers, StepOf(h)
      PROVE  Promise!Next \/ Unseen
  <2>1. CASE \/ Reject(h) \/ Arrive(h) \/ ServeInfo(h)
             \/ BeginHit(h) \/ BeginExecution(h)
    BY <2>1, AdmissionKeepsPromise
  <2>2. CASE \/ ResumePreparing(h) \/ ResumeWritten(h)
             \/ ResumeJob(h) \/ Timeout(h) \/ ResumeCleanedUp(h)
    BY <2>2, ExecutionKeepsPromise
  <2>3. CASE PoolStep(h) \/ FailJob(h) \/ FinishJob(h) \/ FailInsert(h)
    BY <2>3, PoolKeepsPromise
  <2>4. CASE ExecuteInsert(h)
    BY <2>4, InsertKeepsPromise
  <2>5. CASE Answer(h)
    BY <2>5, AnswerKeepsPromise
  <2>6. CASE FailPreparing(h) \/ Cancel(h)
    BY <2>6, EndKeepsPromise
  <2>7. QED
    BY <1>2, <2>1, <2>2, <2>3, <2>4, <2>5, <2>6 DEF StepOf, HandlerStep, DbStep
<1>3. CASE ClearCache \/ CleanupTask \/ Tick \/ UNCHANGED vars
  <2>1. UNCHANGED <<pc, request, holder, stdout, result, response, rows>>
    BY <1>3
    DEF ClearCache, CleanupTask, Tick, OutsideCache, vars, lockVars, poolVars,
        dbVars
  <2>2. QED
    BY <2>1 DEF Unseen, Promise!promiseVars, Runs, Answers
<1>4. CASE Restart
  BY <1>4, RestartKeepsPromise
<1>5. QED
  BY <1>2, <1>3, <1>4 DEF Next, StepOf

(***************************************************************************)
(* The service keeps its promise for any number of clients, programs and   *)
(* threads, any hash function and capacity, and under all the faults of    *)
(* the model: a client cannot tell it from a clerk who serves one request  *)
(* after the other and never loses or mixes up what a program put out.     *)
(***************************************************************************)
THEOREM ServiceKeepsPromise == Spec => ImplementsPromise
<1>1. Init => Promise!Init
  BY DEF Init, Promise!Init, Runs, Answers, Promise!Pending
<1>2. ServiceInv /\ PromiseInv /\ [Next]_vars
        => [Promise!Next]_(Promise!promiseVars)
  BY NextKeepsPromise
<1>3. QED
  BY <1>1, <1>2, ServiceInvariant, PromiseInvariant, PTL
  DEF Spec, ImplementsPromise, Promise!Spec

=============================================================================
