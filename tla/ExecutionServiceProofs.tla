----------------------- MODULE ExecutionServiceProofs -----------------------
(***************************************************************************)
(* The mutex around the runtime manager, for every number of handlers,     *)
(* programs and threads and whatever fails: executions exclude each other, *)
(* and a slot that was looked up in vain is still empty when the response  *)
(* is stored.                                                              *)
(***************************************************************************)
EXTENDS ExecutionService, TLAPS

(***************************************************************************)
(* The domains that updates at one handler rely on.                        *)
(***************************************************************************)
Domains == DOMAIN pc = Handlers /\ DOMAIN request = Handlers

(***************************************************************************)
(* The inductive invariant.  MissedSlotStaysEmpty alone is not inductive:  *)
(* an insert by another handler would fill the slot, and only HolderRuns   *)
(* excludes that there is one.                                             *)
(***************************************************************************)
MutexInv == Domains /\ HolderRuns /\ MissedSlotStaysEmpty

LEMMA InitMutexInv == Init => MutexInv
  BY NobodyAssumption
  DEF Init, MutexInv, Domains, HolderRuns, MissedSlotStaysEmpty, Executing,
      Preparing

-----------------------------------------------------------------------------

(***************************************************************************)
(* Pool threads, the database and jobs touch neither the mutex nor the     *)
(* cache, nor do they move a handler.                                      *)
(***************************************************************************)
LEMMA OutsideHandlers ==
  ASSUME MutexInv, UNCHANGED <<pc, request, holder, entries>>
  PROVE  MutexInv'
BY DEF MutexInv, Domains, HolderRuns, MissedSlotStaysEmpty

(***************************************************************************)
(* A step within an execution keeps the mutex and the cache.               *)
(***************************************************************************)
LEMMA WithinExecution ==
  ASSUME MutexInv, NEW h \in Handlers, pc[h] \in Executing,
         NEW label \in Executing, Goto(h, label),
         UNCHANGED <<request, holder, entries>>
  PROVE  MutexInv'
BY DEF MutexInv, Domains, HolderRuns, MissedSlotStaysEmpty, Goto

(***************************************************************************)
(* The holder may leave the mutex to nobody.                               *)
(***************************************************************************)
LEMMA HolderLeaves ==
  ASSUME MutexInv, NEW h \in Handlers, holder = h,
         NEW label \in Ended, Goto(h, label), holder' = Nobody,
         UNCHANGED <<request, entries>>
  PROVE  MutexInv'
<1>1. label \notin Executing \cup {"recording"}
  BY DEF Ended, Executing, Preparing
<1>2. Domains' /\ HolderRuns'
  BY <1>1, NobodyAssumption DEF MutexInv, Domains, HolderRuns, Goto
<1>3. MissedSlotStaysEmpty'
  BY <1>1 DEF MutexInv, Domains, MissedSlotStaysEmpty, Goto
<1>4. QED
  BY <1>2, <1>3 DEF MutexInv

(***************************************************************************)
(* A handler outside the mutex moves to another place outside it.          *)
(***************************************************************************)
LEMMA StaysOutside ==
  ASSUME MutexInv, NEW h \in Handlers,
         pc[h] \notin Executing \cup {"recording"},
         NEW label, label \notin Executing \cup {"recording"}, Goto(h, label),
         \A g \in Handlers \ {h} : request'[g] = request[g],
         DOMAIN request' = Handlers,
         UNCHANGED <<holder, entries>>
  PROVE  MutexInv'
<1>1. Domains' /\ HolderRuns'
  BY DEF MutexInv, Domains, HolderRuns, Goto
<1>2. MissedSlotStaysEmpty'
  BY DEF MutexInv, Domains, MissedSlotStaysEmpty, Goto
<1>3. QED
  BY <1>1, <1>2 DEF MutexInv

-----------------------------------------------------------------------------

(***************************************************************************)
(* execute_code_with_cache takes the free mutex and misses, or there is no *)
(* lookup: the slot of a handler that uses the cache is empty afterwards.  *)
(***************************************************************************)
LEMMA BeginExecutionKeepsInv ==
  ASSUME MutexInv, NEW h \in Handlers, BeginExecution(h)
  PROVE  MutexInv'
<1>1. /\ pc[h] = "waiting" /\ holder = Nobody /\ holder' = h
      /\ pc' = [pc EXCEPT ![h] = "mkdir"]
      /\ request' = request
  BY DEF BeginExecution, Acquire, Goto
<1>2. \A g \in Handlers : pc[g] \notin Executing \cup {"recording"}
  BY <1>1, NobodyAssumption DEF MutexInv, HolderRuns
<1>3. Domains' /\ HolderRuns'
  BY <1>1, <1>2 DEF MutexInv, Domains, HolderRuns, Executing, Preparing
<1>4. request[h].use_cache =>
        HashOf[CacheKey(request[h].program)] \notin DOMAIN entries'
  BY DEF BeginExecution, Cache!GetMiss, Cache!Keep
<1>5. MissedSlotStaysEmpty'
  BY <1>1, <1>2, <1>4 DEF MutexInv, Domains, MissedSlotStaysEmpty
<1>6. QED
  BY <1>3, <1>5 DEF MutexInv

(***************************************************************************)
(* execute_code_with_cache takes the free mutex and hits.                  *)
(***************************************************************************)
LEMMA BeginHitKeepsInv ==
  ASSUME MutexInv, NEW h \in Handlers, BeginHit(h)
  PROVE  MutexInv'
<1>1. /\ pc[h] = "waiting" /\ holder = Nobody /\ holder' = h
      /\ pc' = [pc EXCEPT ![h] = "recording"]
      /\ request' = request /\ entries' = entries
  BY DEF BeginHit, Acquire, Record, Goto, Cache!GetHit
<1>2. \A g \in Handlers : pc[g] \notin Executing \cup {"recording"}
  BY <1>1, NobodyAssumption DEF MutexInv, HolderRuns
<1>3. "recording" \notin Executing
  BY DEF Executing, Preparing
<1>4. QED
  BY <1>1, <1>2, <1>3
  DEF MutexInv, Domains, HolderRuns, MissedSlotStaysEmpty

(***************************************************************************)
(* When the holder stores its response no other handler is executing, so   *)
(* no slot that was missed is filled.                                      *)
(***************************************************************************)
LEMMA ResumeCleanedUpKeepsInv ==
  ASSUME MutexInv, NEW h \in Handlers, ResumeCleanedUp(h)
  PROVE  MutexInv'
<1>1. /\ pc[h] = "rmdir"
      /\ pc' = [pc EXCEPT ![h] = "recording"]
      /\ request' = request /\ holder' = holder
  BY DEF ResumeCleanedUp, Record, Goto, lockVars
<1>2. holder = h
  BY <1>1 DEF MutexInv, HolderRuns, Executing
<1>3. "recording" \notin Executing
  BY DEF Executing, Preparing
<1>4. \A g \in Handlers : pc'[g] \notin Executing
  BY <1>1, <1>2, <1>3 DEF MutexInv, Domains, HolderRuns
<1>5. QED
  BY <1>1, <1>2, <1>4 DEF MutexInv, Domains, HolderRuns, MissedSlotStaysEmpty

(***************************************************************************)
(* The client of h hangs up wherever h is suspended.                       *)
(***************************************************************************)
LEMMA CancelKeepsInv ==
  ASSUME MutexInv, NEW h \in Handlers, Cancel(h)
  PROVE  MutexInv'
<1>1. /\ pc[h] \in Suspended
      /\ Goto(h, "cancelled")
      /\ holder' = IF holder = h THEN Nobody ELSE holder
      /\ UNCHANGED <<request, entries>>
  BY DEF Cancel, cacheVars
<1>2. CASE holder = h
  BY <1>1, <1>2, HolderLeaves DEF Ended
<1>3. CASE holder # h
  <2>1. pc[h] \notin Executing \cup {"recording"}
    BY <1>3 DEF MutexInv, HolderRuns
  <2>2. "cancelled" \notin Executing \cup {"recording"}
    BY DEF Executing, Preparing
  <2>3. QED
    BY <1>1, <1>3, <2>1, <2>2, StaysOutside DEF MutexInv, Domains
<1>4. QED
  BY <1>2, <1>3

(***************************************************************************)
(* Clearing, sweeping and ageing the cache fill no slot.                   *)
(***************************************************************************)
LEMMA CacheTasksKeepInv ==
  ASSUME MutexInv, ClearCache \/ CleanupTask \/ Tick
  PROVE  MutexInv'
<1>1. UNCHANGED <<pc, request, holder>>
  BY DEF ClearCache, CleanupTask, Tick, OutsideCache, lockVars
<1>2. DOMAIN entries' \subseteq DOMAIN entries
  BY DEF ClearCache, CleanupTask, Tick, Cache!Clear, Cache!CleanupExpired,
         Cache!Tick, Cache!EvictExpired, Cache!FreshSlots, Cache!Keep
<1>3. QED
  BY <1>1, <1>2 DEF MutexInv, Domains, HolderRuns, MissedSlotStaysEmpty

(***************************************************************************)
(* A restart leaves no handler in the mutex.                               *)
(***************************************************************************)
LEMMA RestartKeepsInv ==
  ASSUME MutexInv, Restart
  PROVE  MutexInv'
<1>1. /\ pc' = [h \in Handlers |-> IF pc[h] \in Suspended THEN "lost" ELSE pc[h]]
      /\ holder' = Nobody
      /\ request' = request
  BY DEF Restart
<1>2. /\ Executing \cup {"recording"} \subseteq Suspended
      /\ "lost" \notin Executing \cup {"recording"}
  BY DEF Suspended, Executing, Preparing
<1>3. \A h \in Handlers : pc'[h] \notin Executing \cup {"recording"}
  BY <1>1, <1>2
<1>4. Domains' /\ HolderRuns'
  BY <1>1, <1>3, NobodyAssumption DEF MutexInv, Domains, HolderRuns
<1>5. MissedSlotStaysEmpty'
  BY <1>3 DEF MissedSlotStaysEmpty
<1>6. QED
  BY <1>4, <1>5 DEF MutexInv

-----------------------------------------------------------------------------

LEMMA HandlerStepKeepsInv ==
  ASSUME MutexInv, NEW h \in Handlers, HandlerStep(h)
  PROVE  MutexInv'
<1>1. CASE ServeInfo(h)
  <2>1. pc[h] = "waiting" /\ Goto(h, "answered")
        /\ UNCHANGED <<request, holder, entries>>
    BY <1>1 DEF ServeInfo, Acquire, cacheVars
  <2>2. {"waiting", "answered"} \cap (Executing \cup {"recording"}) = {}
    BY DEF Executing, Preparing
  <2>3. QED
    BY <2>1, <2>2, StaysOutside DEF MutexInv, Domains
<1>2. CASE BeginHit(h)
  BY <1>2, BeginHitKeepsInv
<1>3. CASE BeginExecution(h)
  BY <1>3, BeginExecutionKeepsInv
<1>4. CASE ResumePreparing(h) \/ ResumeWritten(h)
  <2>1. PICK label \in Executing : Goto(h, label)
    BY <1>4 DEF ResumePreparing, ResumeWritten, Executing, Preparing
  <2>2. pc[h] \in Executing /\ UNCHANGED <<request, holder, entries>>
    BY <1>4
    DEF ResumePreparing, ResumeWritten, Executing, Preparing, lockVars,
        cacheVars
  <2>3. QED
    BY <2>1, <2>2, WithinExecution
<1>5. CASE FailPreparing(h)
  <2>1. /\ pc[h] \in Executing /\ Goto(h, "failed") /\ holder' = Nobody
        /\ UNCHANGED <<request, entries>>
    BY <1>5 DEF FailPreparing, Executing, cacheVars
  <2>2. holder = h
    BY <2>1 DEF MutexInv, HolderRuns
  <2>3. QED
    BY <2>1, <2>2, HolderLeaves DEF Ended
<1>6. CASE ResumeJob(h) \/ Timeout(h)
  <2>1. /\ pc[h] \in Executing /\ Goto(h, "rmdir")
        /\ UNCHANGED <<request, holder, entries>>
    BY <1>6 DEF ResumeJob, Timeout, CleanUp, Executing, lockVars, cacheVars
  <2>2. QED
    BY <2>1, WithinExecution DEF Executing
<1>7. CASE ResumeCleanedUp(h)
  BY <1>7, ResumeCleanedUpKeepsInv
<1>8. CASE Answer(h)
  <2>1. /\ pc[h] = "recording" /\ Goto(h, "answered") /\ holder' = Nobody
        /\ UNCHANGED <<request, entries>>
    BY <1>8 DEF Answer, cacheVars
  <2>2. holder = h
    BY <2>1 DEF MutexInv, HolderRuns
  <2>3. QED
    BY <2>1, <2>2, HolderLeaves DEF Ended
<1>9. QED
  BY <1>1, <1>2, <1>3, <1>4, <1>5, <1>6, <1>7, <1>8 DEF HandlerStep

LEMMA NextMutexInv == MutexInv /\ [Next]_vars => MutexInv'
<1> SUFFICES ASSUME MutexInv, [Next]_vars PROVE MutexInv'
  OBVIOUS
<1>1. ASSUME NEW h \in Handlers, Reject(h) \/ Arrive(h)
      PROVE  MutexInv'
  <2>1. PICK label \in {"rejected", "waiting"} : Goto(h, label)
    BY <1>1 DEF Reject, Arrive
  <2>2. /\ pc[h] = "idle"
        /\ DOMAIN request' = DOMAIN request
        /\ \A g \in Handlers \ {h} : request'[g] = request[g]
        /\ UNCHANGED <<holder, entries>>
    BY <1>1 DEF Reject, Arrive, lockVars, cacheVars, MutexInv, Domains
  <2>3. {"idle", "rejected", "waiting"} \cap (Executing \cup {"recording"}) = {}
    BY DEF Executing, Preparing
  <2>4. QED
    BY <2>1, <2>2, <2>3, StaysOutside DEF MutexInv, Domains
<1>2. ASSUME NEW h \in Handlers, HandlerStep(h)
      PROVE  MutexInv'
  BY <1>2, HandlerStepKeepsInv
<1>3. ASSUME NEW h \in Handlers, Cancel(h)
      PROVE  MutexInv'
  BY <1>3, CancelKeepsInv
<1>4. ASSUME NEW h \in Handlers,
             PoolStep(h) \/ FailJob(h) \/ FinishJob(h) \/ DbStep(h)
      PROVE  MutexInv'
  <2>1. UNCHANGED <<pc, request, holder, entries>>
    BY <1>4
    DEF PoolStep, RunFs, FailFs, StartJob, FailJob, FinishJob, DbStep,
        ExecuteInsert, FailInsert, lockVars, cacheVars
  <2>2. QED
    BY <2>1, OutsideHandlers
<1>5. CASE ClearCache \/ CleanupTask \/ Tick
  BY <1>5, CacheTasksKeepInv
<1>6. CASE Restart
  BY <1>6, RestartKeepsInv
<1>7. CASE UNCHANGED vars
  BY <1>7, OutsideHandlers DEF vars, lockVars, cacheVars
<1>8. QED
  BY <1>1, <1>2, <1>3, <1>4, <1>5, <1>6, <1>7 DEF Next

LEMMA MutexInvariant == Spec => []MutexInv
  BY InitMutexInv, NextMutexInv, PTL DEF Spec

(***************************************************************************)
(* The mutex is held by exactly the handler that executes or records, at   *)
(* every await where a request is refused, timed out or dropped.           *)
(***************************************************************************)
THEOREM ExecutionsExclusive == Spec => []HolderRuns
<1>1. MutexInv => HolderRuns
  BY DEF MutexInv
<1>2. QED
  BY <1>1, MutexInvariant, PTL

(***************************************************************************)
(* The slot that a lookup missed is empty until the response of that       *)
(* execution is stored in it, whatever hashes collide and whatever other   *)
(* handlers, the cleanup task and /cache/clear do meanwhile.               *)
(***************************************************************************)
THEOREM MissedSlotsStayEmpty == Spec => []MissedSlotStaysEmpty
<1>1. MutexInv => MissedSlotStaysEmpty
  BY DEF MutexInv
<1>2. QED
  BY <1>1, MutexInvariant, PTL

=============================================================================
