-------------------------- MODULE ExecutionService --------------------------
(***************************************************************************)
(* The path of a request through the service: the handlers of              *)
(* src/src/http_server.rs, the mutex around the runtime manager, the       *)
(* execution of src/src/wasm_runtime.rs with its sandbox directory and its *)
(* blocking job, the response cache and the executions table.              *)
(*                                                                         *)
(* A handler is an async task that serves one request and suspends at each *)
(* await; between two awaits it is one action, because what it does there  *)
(* to shared state is at most one call of the cache.  Files and programs   *)
(* run on tokio's blocking pool: a FIFO queue served by PoolSize threads.  *)
(* A job the handler no longer waits for stays in the pool.                *)
(*                                                                         *)
(* A handler stands for the execution id it draws, which is fresh.         *)
(***************************************************************************)
EXTENDS Naturals, FiniteSets, Sequences

CONSTANTS
  Handlers,    \* the requests that ever arrive, and their execution ids
  Nobody,      \* the holder of a free mutex
  Languages,
  Codes,       \* accepted program texts, each with its timeout_ms
  Runaway,     \* the codes whose interpreter process never ends
  Slots, HashOf, NoResponse, Capacity, Ttl,  \* as in ExecutionCache
  PoolSize,    \* max_blocking_threads of the tokio runtime
  FsFaults,    \* whether file operations may fail
  DbFaults,    \* whether inserting a row may fail
  Cancels,     \* whether a client may hang up
  Restarts     \* whether the process may die and be started again

Program == [language : Languages, code : Codes]

ASSUME NobodyAssumption == Nobody \notin Handlers
ASSUME HandlersAssumption == IsFiniteSet(Handlers)
ASSUME RunawayAssumption == Runaway \subseteq Codes
ASSUME PoolAssumption == PoolSize \in Nat \ {0}
ASSUME FaultsAssumption == {FsFaults, DbFaults, Cancels, Restarts} \subseteq BOOLEAN

VARIABLES
  pc,         \* where each handler is suspended
  request,    \* the request of each handler
  holder,     \* who has runtime_manager locked
  waiters,    \* the queue of that mutex, first come first served
  queue,      \* tasks of the blocking pool that no thread has taken yet
  fs,         \* outcome of the file operation each handler awaits
  job,        \* the blocking job of each handler
  dirs,       \* the executions that have a sandbox directory
  stdout,     \* stdout_buffer of each execution
  result,     \* what execute_with_timeout returned to each handler
  response,   \* the response each handler answers with
  insertion,  \* the INSERT statement of each handler
  rows,       \* the executions table
  entries, hits, misses  \* the cache

Texts == {"output", "diagnostics"}
Output == [program : Program, text : Texts]
NoOutput == << >>

Response ==
  [execution_id : Handlers, success : BOOLEAN, cached : BOOLEAN,
   stdout : Output \cup {NoOutput}]

Row == [id : Handlers, program : Program, success : BOOLEAN]

ExecuteRequest ==
  [to : {"/execute"}, program : Program, use_cache : BOOLEAN]

\* A request to /functions or /warmup/stats.
InfoRequest == [to |-> "/functions"]
NoRequest == [to |-> "nowhere"]

Preparing == {"mkdir", "readme", "write"}
Executing == Preparing \cup {"run", "rmdir"}
Suspended == {"waiting", "recording"} \cup Executing
Ended == {"answered", "failed", "rejected", "cancelled", "lost"}

Cache == INSTANCE ExecutionCache
  WITH Keys <- Program, Responses <- Response,
       DefaultTtl <- Ttl, MaxTtl <- Ttl, Ttls <- {},
       MaxLookups <- Cardinality(Handlers), StrictClock <- FALSE

ASSUME CacheAssumption ==
  /\ HashOf \in [Program -> Slots]
  /\ Capacity \in Nat
  /\ Ttl \in Nat
  /\ NoResponse \notin Response

cacheVars == <<entries, hits, misses>>
lockVars == <<holder, waiters>>
poolVars == <<queue, fs, job, dirs, stdout>>
dbVars == <<insertion, rows>>
vars == <<pc, request, lockVars, poolVars, result, response, dbVars, cacheVars>>

\* Mutant of CacheKey: the language is not part of the key.
CacheKeyOfCode(program) ==
  [language |-> CHOOSE l \in Languages : TRUE, code |-> program.code]

\* CacheKey::new on the request of a handler.
CacheKey(program) == [language |-> program.language, code |-> program.code]

-----------------------------------------------------------------------------

Init ==
  /\ pc = [h \in Handlers |-> "idle"]
  /\ request = [h \in Handlers |-> NoRequest]
  /\ holder = Nobody
  /\ waiters = << >>
  /\ queue = << >>
  /\ fs = [h \in Handlers |-> "none"]
  /\ job = [h \in Handlers |-> "none"]
  /\ dirs = {}
  /\ stdout = [h \in Handlers |-> NoOutput]
  /\ result = [h \in Handlers |-> "none"]
  /\ response = [h \in Handlers |-> NoResponse]
  /\ insertion = [h \in Handlers |-> "none"]
  /\ rows = {}
  /\ Cache!Init

Goto(h, label) == pc' = [pc EXCEPT ![h] = label]

-----------------------------------------------------------------------------
(* The blocking pool.                                                      *)

Task(kind, h) == [kind |-> kind, of |-> h]

\* tokio::fs::create_dir_all, write or remove_dir_all hands over its work.
SubmitFs(kind, h) ==
  /\ queue' = Append(queue, Task(kind, h))
  /\ fs' = [fs EXCEPT ![h] = "queued"]

\* task::spawn_blocking in execute_with_timeout.
SubmitJob(h) ==
  /\ queue' = Append(queue, Task("run", h))
  /\ job' = [job EXCEPT ![h] = "queued"]

FreeThread == Cardinality({h \in Handlers : job[h] = "running"}) < PoolSize

\* A free thread takes the first task, of handler h.
Take(kinds, h) ==
  /\ FreeThread
  /\ queue # << >>
  /\ Head(queue).kind \in kinds
  /\ Head(queue).of = h
  /\ queue' = Tail(queue)

RunFs(h) ==
  /\ Take(Preparing \cup {"rmdir"}, h)
  /\ fs' = [fs EXCEPT ![h] = "ok"]
  /\ dirs' = CASE Head(queue).kind = "mkdir" -> dirs \cup {h}
               [] Head(queue).kind = "rmdir" -> dirs \ {h}
               [] OTHER -> dirs
  /\ UNCHANGED <<pc, request, lockVars, job, stdout, result, response, dbVars,
                 cacheVars>>

FailFs(h) ==
  /\ FsFaults
  /\ Take(Preparing \cup {"rmdir"}, h)
  /\ fs' = [fs EXCEPT ![h] = "err"]
  /\ UNCHANGED <<pc, request, lockVars, job, dirs, stdout, result, response,
                 dbVars, cacheVars>>

\* execute_in_wasm up to the interpreter; preopened_dir needs the directory.
StartJob(h) ==
  /\ Take({"run"}, h)
  /\ job' = [job EXCEPT ![h] = IF h \in dirs THEN "running" ELSE "err"]
  /\ UNCHANGED <<pc, request, lockVars, fs, dirs, stdout, result, response,
                 dbVars, cacheVars>>

\* The module does not link or instantiate, or the job panics, which
\* execute_with_timeout turns into an error as well.
FailJob(h) ==
  /\ job[h] = "running"
  /\ job' = [job EXCEPT ![h] = "err"]
  /\ UNCHANGED <<pc, request, lockVars, queue, fs, dirs, stdout, result,
                 response, dbVars, cacheVars>>

\* The interpreter ends, with or without complaints on its stderr; whatever
\* its exit status, its output is appended to the buffer and the job is Ok.
FinishJob(h) ==
  /\ job[h] = "running"
  /\ request[h].program.code \notin Runaway
  /\ job' = [job EXCEPT ![h] = "ok"]
  /\ \E text \in Texts :
       stdout' = [stdout EXCEPT
                    ![h] = [program |-> request[h].program, text |-> text]]
  /\ UNCHANGED <<pc, request, lockVars, queue, fs, dirs, result, response,
                 dbVars, cacheVars>>

-----------------------------------------------------------------------------
(* The handlers.                                                           *)

\* execute_handler returns 400 for an empty or an oversized code.
Reject(h) ==
  /\ pc[h] = "idle"
  /\ Goto(h, "rejected")
  /\ UNCHANGED <<request, lockVars, poolVars, result, response, dbVars,
                 cacheVars>>

\* A handler asks for the mutex.
Arrive(h) ==
  /\ pc[h] = "idle"
  /\ \E r \in ExecuteRequest \cup {InfoRequest} :
       request' = [request EXCEPT ![h] = r]
  /\ Goto(h, "waiting")
  /\ waiters' = Append(waiters, h)
  /\ UNCHANGED <<holder, poolVars, result, response, dbVars, cacheVars>>

\* Mutant of Acquire: the manager is locked for reading only.
AcquireShared(h) ==
  /\ pc[h] = "waiting"
  /\ Head(waiters) = h
  /\ waiters' = Tail(waiters)

\* runtime_manager.lock().await returns to h.
Acquire(h) ==
  /\ pc[h] = "waiting"
  /\ holder = Nobody
  /\ Head(waiters) = h
  /\ waiters' = Tail(waiters)

\* functions_handler and warmup_stats_handler lock, read and unlock.
ServeInfo(h) ==
  /\ Acquire(h)
  /\ request[h] = InfoRequest
  /\ Goto(h, "answered")
  /\ UNCHANGED <<request, holder, poolVars, result, response, dbVars,
                 cacheVars>>

\* record_execution starts for the response r of h.
Record(h, r) ==
  /\ Goto(h, "recording")
  /\ response' = [response EXCEPT ![h] = r]
  /\ insertion' = [insertion EXCEPT ![h] = "sent"]

\* Mutants of Renewed: the id of the stored response, or the nil id.
RenewedInPart(r, h) == [r EXCEPT !.cached = TRUE]
RenewedWithNil(r, h) == [r EXCEPT !.execution_id = Nobody, !.cached = TRUE]

\* A cached response under a fresh execution id, marked as cached.
Renewed(r, h) == [r EXCEPT !.execution_id = h, !.cached = TRUE]

\* execute_code_with_cache finds a response.
BeginHit(h) ==
  /\ Acquire(h)
  /\ request[h].to = "/execute"
  /\ request[h].use_cache
  /\ \E cached \in {entries[s].response : s \in DOMAIN entries} :
       /\ Cache!GetHit(CacheKey(request[h].program), cached)
       /\ Record(h, Renewed(cached, h))
  /\ holder' = h
  /\ UNCHANGED <<request, poolVars, result, rows>>

\* execute_code starts with the creation of the sandbox directory.
BeginExecution(h) ==
  /\ Acquire(h)
  /\ request[h].to = "/execute"
  /\ IF request[h].use_cache
     THEN Cache!GetMiss(CacheKey(request[h].program), NoResponse)
     ELSE UNCHANGED cacheVars
  /\ holder' = h
  /\ Goto(h, "mkdir")
  /\ SubmitFs("mkdir", h)
  /\ UNCHANGED <<request, job, dirs, stdout, result, response, dbVars>>

\* prepare_sandbox_dir and the write of the wrapped code, await by await.
ResumePreparing(h) ==
  /\ fs[h] = "ok"
  /\ \/ pc[h] = "mkdir" /\ Goto(h, "readme") /\ SubmitFs("readme", h)
     \/ pc[h] = "readme" /\ Goto(h, "write") /\ SubmitFs("write", h)
  /\ UNCHANGED <<request, lockVars, job, dirs, stdout, result, response,
                 dbVars, cacheVars>>

\* execute_with_timeout spawns the job and starts the timer.
ResumeWritten(h) ==
  /\ pc[h] = "write"
  /\ fs[h] = "ok"
  /\ Goto(h, "run")
  /\ SubmitJob(h)
  /\ UNCHANGED <<request, lockVars, fs, dirs, stdout, result, response,
                 dbVars, cacheVars>>

\* The ? operators before the job: the handler answers 500 and unlocks.
FailPreparing(h) ==
  /\ pc[h] \in Preparing
  /\ fs[h] = "err"
  /\ Goto(h, "failed")
  /\ holder' = Nobody
  /\ UNCHANGED <<request, waiters, poolVars, result, response, dbVars,
                 cacheVars>>

\* Mutant of CleanUp: cleanup_sandbox_dir follows only a successful run.
CleanUpAfterSuccess(h, r) ==
  /\ result' = [result EXCEPT ![h] = r]
  /\ Goto(h, "rmdir")
  /\ IF r = "ok"
     THEN SubmitFs("rmdir", h)
     ELSE fs' = [fs EXCEPT ![h] = "ok"] /\ UNCHANGED queue
  /\ UNCHANGED <<request, lockVars, job, dirs, stdout, response, dbVars,
                 cacheVars>>

\* cleanup_sandbox_dir, after execute_with_timeout has returned r.
CleanUp(h, r) ==
  /\ result' = [result EXCEPT ![h] = r]
  /\ Goto(h, "rmdir")
  /\ IF h \in dirs
     THEN SubmitFs("rmdir", h)
     ELSE fs' = [fs EXCEPT ![h] = "ok"] /\ UNCHANGED queue
  /\ UNCHANGED <<request, lockVars, job, dirs, stdout, response, dbVars,
                 cacheVars>>

\* The job is over, even if the timer has run out as well.
ResumeJob(h) ==
  /\ pc[h] = "run"
  /\ job[h] \in {"ok", "err"}
  /\ CleanUp(h, job[h])

\* The timer runs out first.  The job is neither stopped nor taken back.
Timeout(h) ==
  /\ pc[h] = "run"
  /\ job[h] \in {"queued", "running"}
  /\ CleanUp(h, "err")

\* Mutants of Built: success is read from the job, or from its output, and
\* not from what execute_with_timeout returned.
BuiltFromJob(h) ==
  [execution_id |-> h, success |-> job[h] = "ok", cached |-> FALSE,
   stdout |-> stdout[h]]
BuiltFromOutput(h) ==
  [execution_id |-> h, success |-> stdout[h] # NoOutput, cached |-> FALSE,
   stdout |-> stdout[h]]

\* The response execute_code builds from the result and the buffers.
Built(h) ==
  [execution_id |-> h, success |-> result[h] = "ok", cached |-> FALSE,
   stdout |-> stdout[h]]

\* execute_code returns, whether or not the directory could be removed, and
\* execute_code_with_cache stores a successful response.
ResumeCleanedUp(h) ==
  /\ pc[h] = "rmdir"
  /\ fs[h] \in {"ok", "err"}
  /\ IF request[h].use_cache /\ Built(h).success
     THEN Cache!Insert(CacheKey(request[h].program), Built(h))
     ELSE UNCHANGED cacheVars
  /\ Record(h, Built(h))
  /\ UNCHANGED <<request, lockVars, poolVars, result, rows>>

\* The connection's thread executes the INSERT; id is the PRIMARY KEY.
ExecuteInsert(h) ==
  /\ insertion[h] = "sent"
  /\ LET row == [id |-> response[h].execution_id,
                 program |-> request[h].program,
                 success |-> response[h].success]
     IN  IF \E old \in rows : old.id = row.id
         THEN /\ insertion' = [insertion EXCEPT ![h] = "duplicate"]
              /\ UNCHANGED rows
         ELSE /\ insertion' = [insertion EXCEPT ![h] = "ok"]
              /\ rows' = rows \cup {row}
  /\ UNCHANGED <<pc, request, lockVars, poolVars, result, response, cacheVars>>

FailInsert(h) ==
  /\ DbFaults
  /\ insertion[h] = "sent"
  /\ insertion' = [insertion EXCEPT ![h] = "err"]
  /\ UNCHANGED <<pc, request, lockVars, poolVars, result, response, rows,
                 cacheVars>>

\* Mutant of Answer: the handler does not wait for the INSERT.
AnswerAtOnce(h) ==
  /\ pc[h] = "recording"
  /\ Goto(h, "answered")
  /\ holder' = Nobody
  /\ UNCHANGED <<request, waiters, poolVars, result, response, dbVars,
                 cacheVars>>

\* The handler answers 200, also after a failed INSERT, and unlocks.
Answer(h) ==
  /\ pc[h] = "recording"
  /\ insertion[h] \in {"ok", "err", "duplicate"}
  /\ Goto(h, "answered")
  /\ holder' = Nobody
  /\ UNCHANGED <<request, waiters, poolVars, result, response, dbVars,
                 cacheVars>>

\* A handler whose future is dropped gives up its place in the queue.
LeaveLine(h) ==
  \E i \in DOMAIN waiters :
    /\ waiters[i] = h
    /\ waiters' = [j \in 1 .. Len(waiters) - 1 |->
                     waiters[IF j < i THEN j ELSE j + 1]]

\* Mutant of Cancel: the handler keeps its place in the mutex's queue.
CancelInLine(h) ==
  /\ Cancels
  /\ pc[h] \in Suspended
  /\ Goto(h, "cancelled")
  /\ holder' = IF holder = h THEN Nobody ELSE holder
  /\ UNCHANGED <<request, waiters, poolVars, result, response, dbVars,
                 cacheVars>>

\* Mutant of Cancel: a task nobody has taken yet vanishes with the handler.
CancelTakesBack(h) ==
  /\ Cancels
  /\ pc[h] \in Suspended
  /\ Goto(h, "cancelled")
  /\ holder' = IF holder = h THEN Nobody ELSE holder
  /\ waiters' = SelectSeq(waiters, LAMBDA w : w # h)
  /\ queue' = SelectSeq(queue, LAMBDA task : task.of # h)
  /\ UNCHANGED <<request, fs, job, dirs, stdout, result, response, dbVars,
                 cacheVars>>

\* The client hangs up and the future of the handler is dropped where it is
\* suspended: the mutex is released, tasks in the pool stay there, and an
\* INSERT may or may not have been handed to the connection yet.
Cancel(h) ==
  /\ Cancels
  /\ pc[h] \in Suspended
  /\ Goto(h, "cancelled")
  /\ holder' = IF holder = h THEN Nobody ELSE holder
  /\ IF pc[h] = "waiting" THEN LeaveLine(h) ELSE UNCHANGED waiters
  /\ \E i \in IF insertion[h] = "sent" THEN {"sent", "none"}
              ELSE {insertion[h]} :
       insertion' = [insertion EXCEPT ![h] = i]
  /\ UNCHANGED <<request, poolVars, result, response, rows, cacheVars>>

-----------------------------------------------------------------------------
(* What reaches the cache without the mutex.                               *)

OutsideCache ==
  <<pc, request, lockVars, poolVars, result, response, dbVars>>

\* cache_clear_handler.
ClearCache ==
  /\ Cache!Clear(Cardinality(DOMAIN entries))
  /\ UNCHANGED OutsideCache

\* An iteration of the task that spawn_cache_cleanup_task starts.
CleanupTask ==
  /\ Cache!CleanupExpired
  /\ UNCHANGED OutsideCache

Tick ==
  /\ Cache!Tick
  /\ UNCHANGED OutsideCache

\* The process dies and main starts it again: the table and the sandbox
\* directories are on disk, all else is gone.  An INSERT that was sent but
\* not executed never will be.
Restart ==
  /\ Restarts
  /\ pc' = [h \in Handlers |-> IF pc[h] \in Suspended THEN "lost" ELSE pc[h]]
  /\ holder' = Nobody
  /\ waiters' = << >>
  /\ queue' = << >>
  /\ fs' = [h \in Handlers |-> IF fs[h] = "queued" THEN "none" ELSE fs[h]]
  /\ job' = [h \in Handlers |->
               IF job[h] \in {"queued", "running"} THEN "none" ELSE job[h]]
  /\ insertion' = [h \in Handlers |->
                     IF insertion[h] = "sent" THEN "none" ELSE insertion[h]]
  /\ entries' = Cache!Keep(entries, {})
  /\ hits' = 0
  /\ misses' = 0
  /\ UNCHANGED <<request, dirs, stdout, result, response, rows>>

-----------------------------------------------------------------------------

HandlerStep(h) ==
  \/ ServeInfo(h)
  \/ BeginHit(h)
  \/ BeginExecution(h)
  \/ ResumePreparing(h)
  \/ ResumeWritten(h)
  \/ FailPreparing(h)
  \/ ResumeJob(h)
  \/ Timeout(h)
  \/ ResumeCleanedUp(h)
  \/ Answer(h)

PoolStep(h) == RunFs(h) \/ FailFs(h) \/ StartJob(h)

DbStep(h) == ExecuteInsert(h) \/ FailInsert(h)

Next ==
  \/ \E h \in Handlers :
       \/ Reject(h) \/ Arrive(h) \/ HandlerStep(h) \/ Cancel(h)
       \/ PoolStep(h) \/ FailJob(h) \/ FinishJob(h)
       \/ DbStep(h)
  \/ ClearCache
  \/ CleanupTask
  \/ Tick
  \/ Restart

Spec == Init /\ [][Next]_vars

\* The runtime polls every task that is ready, the threads of the pool and
\* of the database run, an interpreter that is not in an endless loop ends,
\* and the timer fires.  Nobody owes a request, a hang-up or a fault.
Fairness ==
  /\ \A h \in Handlers :
       /\ WF_vars(HandlerStep(h))
       /\ WF_vars(DbStep(h))
       /\ WF_vars(FinishJob(h))
  /\ WF_vars(\E h \in Handlers : PoolStep(h))

FairSpec == Spec /\ Fairness

-----------------------------------------------------------------------------

TypeOK ==
  /\ pc \in [Handlers -> {"idle"} \cup Suspended \cup Ended]
  /\ request \in [Handlers -> ExecuteRequest \cup {InfoRequest, NoRequest}]
  /\ holder \in Handlers \cup {Nobody}
  /\ waiters \in Seq(Handlers)
  /\ queue \in Seq([kind : Preparing \cup {"run", "rmdir"}, of : Handlers])
  /\ fs \in [Handlers -> {"none", "queued", "ok", "err"}]
  /\ job \in [Handlers -> {"none", "queued", "running", "ok", "err"}]
  /\ dirs \subseteq Handlers
  /\ stdout \in [Handlers -> Output \cup {NoOutput}]
  /\ result \in [Handlers -> {"none", "ok", "err"}]
  /\ response \in [Handlers -> Response \cup {NoResponse}]
  /\ insertion \in [Handlers -> {"none", "sent", "ok", "err", "duplicate"}]
  /\ rows \subseteq Row
  /\ Cache!TypeOK

Holds(s, r) == s \in DOMAIN entries /\ entries[s].response = r

(***************************************************************************)
(* Between the lookup that missed and the insert of the response, nobody   *)
(* fills the slot of the handler's key: execute_handler keeps the manager  *)
(* locked across the whole execution, so no two handlers run the same      *)
(* program for the cache at once, and the insert in                        *)
(* execute_code_with_cache never replaces a response.                      *)
(***************************************************************************)
MissedSlotStaysEmpty ==
  \A h \in Handlers :
    pc[h] \in Executing /\ request[h].use_cache =>
      HashOf[CacheKey(request[h].program)] \notin DOMAIN entries

(***************************************************************************)
(* Every stored response was built by the execution whose id it carries:   *)
(* that run returned Ok in time, its output is complete and its program's  *)
(* own, and the response is not itself a copy made for a later request.    *)
(***************************************************************************)
CacheHoldsRuns ==
  \A s \in DOMAIN entries :
    LET r == entries[s].response
    IN  /\ r.success /\ ~r.cached
        /\ result[r.execution_id] = "ok"
        /\ r.stdout = stdout[r.execution_id]
        /\ r.stdout # NoOutput
        /\ HashOf[r.stdout.program] = s

(***************************************************************************)
(* A successful response, cached or not, carries the output of the program *)
(* that was asked for, provided no two keys share a 64-bit hash string.    *)
(***************************************************************************)
InjectiveHash == \A p, q \in Program : HashOf[p] = HashOf[q] => p = q

ServesOwnProgram ==
  InjectiveHash =>
    \A h \in Handlers :
      response[h] # NoResponse /\ response[h].success =>
        /\ response[h].stdout # NoOutput
        /\ response[h].stdout.program = request[h].program

(***************************************************************************)
(* Unless the database itself refused it, each answered execution is in    *)
(* the table under the id the client was given, with its own program and   *)
(* outcome, and in a row of its own: no two answers share an id, be they   *)
(* runs or hits, even if the process has been restarted since.             *)
(***************************************************************************)
Served == {h \in Handlers : pc[h] = "answered" /\ response[h] # NoResponse}

AnsweredAreRecorded ==
  /\ \A h \in Served :
       insertion[h] = "err"
         \/ [id |-> response[h].execution_id, program |-> request[h].program,
              success |-> response[h].success] \in rows
  /\ \A g, h \in Served :
       response[g].execution_id = response[h].execution_id => g = h

(***************************************************************************)
(* Unless the database fails or a client hangs up, a response is in the    *)
(* cache only if its own execution is in the table or about to be: a hit   *)
(* never refers to a run the statistics will not know of.                  *)
(***************************************************************************)
CachedAreRecorded ==
  ~DbFaults /\ ~Cancels =>
    \A s \in DOMAIN entries :
      LET id == entries[s].response.execution_id
      IN  pc[id] = "recording" \/ \E row \in rows : row.id = id

(***************************************************************************)
(* An execution that ends with a response leaves a sandbox directory       *)
(* behind only if cleanup_sandbox_dir itself failed, even after a timeout, *)
(* and nothing creates the directory again.  The ? operators before the    *)
(* job, a client that hangs up and a restart do leave it behind.           *)
(***************************************************************************)
SandboxReclaimed ==
  \A h \in dirs :
    pc[h] \in Executing \cup {"failed", "cancelled", "lost"} \/ fs[h] = "err"

(***************************************************************************)
(* A row that claims success is about a program that did succeed under     *)
(* some request, whatever was lost on the way: through the cache, a fresh  *)
(* id and the INSERT of a client that is gone, no success is made up.      *)
(***************************************************************************)
RecordedSuccessesHappened ==
  InjectiveHash =>
    \A row \in rows :
      row.success =>
        \E h \in Handlers :
          result[h] = "ok" /\ request[h].program = row.program

(***************************************************************************)
(* The mutex is held exactly by the handler that is suspended in an        *)
(* execution or a recording, and its queue is exactly the handlers that    *)
(* wait: whichever await a request is refused or dropped at, nobody is     *)
(* left waiting behind a handler that is gone.                             *)
(***************************************************************************)
HolderRuns ==
  \A h \in Handlers : pc[h] \in Executing \cup {"recording"} <=> holder = h

WaitersInLine ==
  \A h \in Handlers :
    pc[h] = "waiting" <=> \E i \in DOMAIN waiters : waiters[i] = h

MutexConsistent == HolderRuns /\ WaitersInLine

(***************************************************************************)
(* Every request that asks for the mutex is answered, refused with an      *)
(* error or given up by its client, whatever fails on the way, as          *)
(* "Execution timed out" and max_execution_time_ms have it.                *)
(***************************************************************************)
WaitersServed ==
  \A h \in Handlers : pc[h] = "waiting" ~> pc[h] \in Ended

(***************************************************************************)
(* A job that was handed to the pool ends, whether or not its handler is   *)
(* still there: timeouts and hang-ups do not let tasks pile up for ever.   *)
(***************************************************************************)
JobsEnd ==
  \A h \in Handlers : job[h] = "queued" ~> job[h] \in {"ok", "err"}

(***************************************************************************)
(* What "Execution failed, not caching" in execute_code_with_cache says of *)
(* the cache: it keeps no response of a program that failed.               *)
(***************************************************************************)
FailedProgramsNotCached ==
  \A s \in DOMAIN entries : entries[s].response.stdout.text # "diagnostics"

-----------------------------------------------------------------------------
(* The refinement mapping: what the clients see.                           *)

\* The runs that ended in time.
Runs == [h \in Handlers |-> IF result[h] = "ok" THEN stdout[h] ELSE NoOutput]

Answers ==
  [h \in Handlers |->
     IF pc[h] \in {"failed", "cancelled", "lost"} THEN [kind |-> "dropped"]
     ELSE IF pc[h] # "answered" \/ response[h] = NoResponse
     THEN [kind |-> "pending"]
     ELSE IF response[h].success
     THEN [kind |-> "success", cached |-> response[h].cached,
           stdout |-> response[h].stdout]
     ELSE [kind |-> "failure"]]

Promise == INSTANCE ExecutionPromise
  WITH Clients <- Handlers, Executions <- ExecuteRequest,
       Requests <- ExecuteRequest \cup {InfoRequest}, Lossy <- DbFaults,
       asked <- request, turn <- holder, runs <- Runs, answer <- Answers,
       table <- rows

(***************************************************************************)
(* Timers, files, pool, cache and restarts are invisible to the clients:   *)
(* each gets its own run, complete, or a failure without one, or the run   *)
(* of another client with the same key that allowed it to be cached; its   *)
(* row is in the table by then and agrees; what has been answered or       *)
(* recorded is never changed; and all is as if they were served one by     *)
(* one.                                                                    *)
(***************************************************************************)
ImplementsPromise == Promise!Spec

=============================================================================
