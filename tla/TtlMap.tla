------------------------------- MODULE TtlMap -------------------------------
(***************************************************************************)
(* What the response cache promises to a caller who only looks up and      *)
(* stores: a map whose bindings vanish at the very tick they outlive their *)
(* ttl, and which gives up a live binding only when it is asked to, or     *)
(* when Capacity bindings are still live as a new one is stored; then it   *)
(* gives up one that no other live binding predates.  How and when expired *)
(* bindings are reclaimed is not the caller's business.                    *)
(***************************************************************************)
EXTENDS Naturals, FiniteSets

CONSTANTS
  Keys, Slots, HashOf, Responses, NoResponse,
  Capacity, DefaultTtl, Ttls

VARIABLES
  live,   \* the bindings a lookup can still return
  answer  \* the key and the result of the last lookup

mapVars == <<live, answer>>

\* The bindings of m in the slots of S.
On(m, S) == [s \in S |-> m[s]]

Init ==
  /\ live = [s \in {} |-> NoResponse]
  /\ answer = << >>

Lookup(k) ==
  /\ answer' = <<k, IF HashOf[k] \in DOMAIN live
                    THEN live[HashOf[k]].response
                    ELSE NoResponse>>
  /\ UNCHANGED live

\* The live bindings created before now that no other live binding predates.
Eldest(m) ==
  {s \in DOMAIN m : m[s].elapsed > 0
                    /\ \A t \in DOMAIN m : m[t].elapsed <= m[s].elapsed}

\* What survives a store: everything, or everything but one eldest binding.
Survivors(m) ==
  IF Cardinality(DOMAIN m) < Capacity \/ Eldest(m) = {}
  THEN {DOMAIN m}
  ELSE {DOMAIN m \ {s} : s \in Eldest(m)}

Store(k, r, ttl) ==
  /\ \E S \in Survivors(live) :
       live' = [s \in S \cup {HashOf[k]} |->
                  IF s = HashOf[k]
                  THEN [response |-> r, elapsed |-> 0, ttl |-> ttl]
                  ELSE live[s]]
  /\ UNCHANGED answer

Forget(k) ==
  /\ live' = On(live, DOMAIN live \ {HashOf[k]})
  /\ UNCHANGED answer

ForgetAll ==
  /\ live' = On(live, {})
  /\ UNCHANGED answer

\* Time passes, and a binding in the last tick of its life is gone.
Age ==
  /\ live' = [s \in {t \in DOMAIN live : live[t].elapsed < live[t].ttl} |->
                [live[s] EXCEPT !.elapsed = @ + 1]]
  /\ UNCHANGED answer

Next ==
  \/ \E k \in Keys : Lookup(k) \/ Forget(k)
  \/ \E k \in Keys, r \in Responses, ttl \in Ttls \cup {DefaultTtl} :
       Store(k, r, ttl)
  \/ ForgetAll
  \/ Age

Spec == Init /\ [][Next]_mapVars

=============================================================================
