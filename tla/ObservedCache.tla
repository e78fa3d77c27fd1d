--------------------------- MODULE ObservedCache ----------------------------
(***************************************************************************)
(* The response cache together with what its callers see.  The variable    *)
(* answer records the last lookup and its result, and the cache is shown   *)
(* to implement the map TtlMap describes: the caller of the lazily swept   *)
(* cache of src/src/cache.rs cannot tell it from one that drops a response *)
(* the moment it expires.                                                  *)
(***************************************************************************)
EXTENDS ExecutionCache

VARIABLE answer

observedVars == <<entries, hits, misses, answer>>

ObservedInit ==
  /\ Init
  /\ answer = << >>

ObservedGet(k, result) ==
  /\ Get(k, result)
  /\ answer' = <<k, result>>

ObservedUpdate ==
  /\ \/ \E k \in Keys, r \in Responses : Insert(k, r)
     \/ \E k \in Keys, r \in Responses, ttl \in Ttls : InsertWithTtl(k, r, ttl)
     \/ \E k \in Keys : Invalidate(k)
     \/ Clear(Cardinality(DOMAIN entries))
     \/ CleanupExpired
     \/ Tick
  /\ UNCHANGED answer

ObservedNext ==
  \/ \E k \in Keys, result \in Responses \cup {NoResponse} :
       ObservedGet(k, result)
  \/ ObservedUpdate

ObservedSpec == ObservedInit /\ [][ObservedNext]_observedVars

\* The refinement mapping: a binding is live as long as its entry is fresh.
Promise == INSTANCE TtlMap WITH live <- EvictExpired(entries)

(***************************************************************************)
(* Every lookup, insert, eviction, invalidation, clear, sweep and tick of  *)
(* the cache is a step that the promised map allows, or invisible: a       *)
(* lookup never returns a response past its ttl and never misses one that  *)
(* is live; an insert loses no live response unless Capacity of them are   *)
(* live, and then one of the oldest; a sweep loses none.                   *)
(***************************************************************************)
ImplementsTtlMap == Promise!Spec

=============================================================================
