-------------------------- MODULE ExecutionPromise --------------------------
(***************************************************************************)
(* What the service promises its clients and the readers of the executions *)
(* table, as if one clerk without a cache, timers or files served the      *)
(* clients one after the other.  A client whose turn it is may have its    *)
(* program run, at most once; it is then answered with that run, or, if    *)
(* there was none, with a failure or with the run of an earlier client     *)
(* whose program has the same hash.  A row for it is in the table first,   *)
(* and says the same.  A client may be dropped at any time, and a row for  *)
(* it may still follow.                                                    *)
(***************************************************************************)
CONSTANTS
  Clients, Nobody,
  Executions,  \* what clients ask of /execute
  Requests,    \* what clients ask at all
  NoRequest, NoOutput,
  Texts,       \* what a run may put out
  HashOf,
  Lossy        \* whether the table may refuse a row

VARIABLES
  asked,   \* the request of each client
  turn,    \* the client that is being served
  runs,    \* the output of each client's run
  answer,  \* what each client has got
  table    \* the executions table

promiseVars == <<asked, turn, runs, answer, table>>

Pending == [kind |-> "pending"]
Dropped == [kind |-> "dropped"]
Failure == [kind |-> "failure"]
Success(output, cached) ==
  [kind |-> "success", cached |-> cached, stdout |-> output]

Init ==
  /\ asked = [c \in Clients |-> NoRequest]
  /\ turn = Nobody
  /\ runs = [c \in Clients |-> NoOutput]
  /\ answer = [c \in Clients |-> Pending]
  /\ table = {}

Ask(c, r) ==
  /\ asked[c] = NoRequest
  /\ asked' = [asked EXCEPT ![c] = r]
  /\ UNCHANGED <<turn, runs, answer, table>>

TakeTurn(c) ==
  /\ turn = Nobody
  /\ asked[c] \in Executions
  /\ answer[c] = Pending
  /\ turn' = c
  /\ UNCHANGED <<asked, runs, answer, table>>

\* The client's program runs and ends well.
Run(c, text) ==
  /\ turn = c
  /\ runs[c] = NoOutput
  /\ runs' = [runs EXCEPT ![c] = [program |-> asked[c].program, text |-> text]]
  /\ UNCHANGED <<asked, turn, answer, table>>

\* The clients whose run may serve c as well.
Sources(c) ==
  {g \in Clients :
     /\ runs[g] # NoOutput
     /\ asked[g].use_cache /\ asked[c].use_cache
     /\ HashOf[runs[g].program] = HashOf[asked[c].program]}

\* What c may be told.
Outcomes(c) ==
  IF runs[c] # NoOutput
  THEN {Success(runs[c], FALSE)}
  ELSE {Failure} \cup {Success(runs[g], TRUE) : g \in Sources(c)}

RowFor(c, outcome) ==
  [id |-> c, program |-> asked[c].program, success |-> outcome.kind = "success"]

Unrecorded(c) == \A row \in table : row.id # c

\* The row of c, if it may still be dropped or has been already.
Enter(c) ==
  /\ turn = c \/ answer[c] = Dropped
  /\ asked[c] \in Executions
  /\ Unrecorded(c)
  /\ \E outcome \in Outcomes(c) : table' = table \cup {RowFor(c, outcome)}
  /\ UNCHANGED <<asked, turn, runs, answer>>

Reply(c) ==
  /\ turn = c
  /\ \E outcome \in Outcomes(c) :
       /\ RowFor(c, outcome) \in table \/ (Lossy /\ Unrecorded(c))
       /\ answer' = [answer EXCEPT ![c] = outcome]
  /\ turn' = Nobody
  /\ UNCHANGED <<asked, runs, table>>

\* Clients get no answer, or one with status 500.
Drop(S) ==
  /\ \A c \in S : answer[c] = Pending
  /\ answer' = [c \in Clients |-> IF c \in S THEN Dropped ELSE answer[c]]
  /\ turn' = IF turn \in S THEN Nobody ELSE turn
  /\ UNCHANGED <<asked, runs, table>>

Next ==
  \/ \E c \in Clients :
       \/ \E r \in Requests : Ask(c, r)
       \/ TakeTurn(c)
       \/ \E text \in Texts : Run(c, text)
       \/ Enter(c)
       \/ Reply(c)
  \/ \E S \in SUBSET Clients : Drop(S)

Spec == Init /\ [][Next]_promiseVars

=============================================================================
