--------------------------- MODULE ExecutionCache ---------------------------
(***************************************************************************)
(* The response cache of src/src/cache.rs: a map from the hash string of a *)
(* cache key to an entry with a creation time and a time to live, guarded  *)
(* by one mutex, so that each method is one atomic action.                 *)
(*                                                                         *)
(* A method that returns something takes the returned value as its last    *)
(* parameter: Get(k, result) is a step in which get(k) returns result.     *)
(*                                                                         *)
(* An entry carries created_at.elapsed() in place of created_at: the code  *)
(* only ever compares creation times with each other and with the present. *)
(* The elapsed time saturates one tick above MaxTtl, where the entry has   *)
(* expired whatever its ttl; expired entries are swept before the oldest   *)
(* entry is looked for, so their order among themselves never matters.     *)
(***************************************************************************)
EXTENDS Naturals, FiniteSets

CONSTANTS
  Keys,        \* CacheKey: language, hash of the code, timeout_ms
  Slots,       \* the 64-bit strings to_hash_string can return
  HashOf,      \* to_hash_string, as a function from Keys to Slots
  Responses,   \* ExecuteResponse values
  NoResponse,  \* None
  Capacity,    \* CacheInner.capacity
  DefaultTtl,  \* CacheInner.default_ttl, in ticks
  Ttls,        \* the ttls a caller of insert_with_ttl passes
  MaxTtl,      \* bounds every ttl, and so the elapsed times told apart
  MaxLookups,  \* bounds hits + misses between two clears
  StrictClock  \* whether two readings of Instant::now() always differ

ASSUME HashAssumption == HashOf \in [Keys -> Slots]
ASSUME CapacityAssumption == Capacity \in Nat
ASSUME TtlAssumption ==
  MaxTtl \in Nat /\ DefaultTtl \in 0 .. MaxTtl /\ Ttls \subseteq 0 .. MaxTtl
ASSUME LookupsAssumption == MaxLookups \in Nat
ASSUME ClockAssumption == StrictClock \in BOOLEAN
ASSUME NoResponseAssumption == NoResponse \notin Responses

VARIABLES
  entries,  \* CacheInner.entries: a function on the occupied slots
  hits,     \* CacheInner.hits
  misses    \* CacheInner.misses

cacheVars == <<entries, hits, misses>>

Elapsed == 0 .. MaxTtl + 1

Entry == [response : Responses, elapsed : Elapsed, ttl : 0 .. MaxTtl]

\* The values that entries takes: finite maps from slots to entries.
IsEntryMap(es) ==
  /\ DOMAIN es \subseteq Slots
  /\ IsFiniteSet(DOMAIN es)
  /\ es \in [DOMAIN es -> Entry]

-----------------------------------------------------------------------------

\* CacheEntry::is_expired.
Expired(e) == e.elapsed > e.ttl

\* The entries of es in the slots of S, as retain and remove leave them.
Keep(es, S) == [s \in S |-> es[s]]

FreshSlots(es) == {s \in DOMAIN es : ~Expired(es[s])}

\* HashMap::insert: adds a binding or replaces the one in that slot.
Put(es, slot, e) ==
  [s \in DOMAIN es \cup {slot} |-> IF s = slot THEN e ELSE es[s]]

EvictExpired(es) == Keep(es, FreshSlots(es))

\* The entries evict_lru can settle on: created strictly before now, none
\* older.  The hash map is iterated in no particular order.
Oldest(es) ==
  {s \in DOMAIN es : /\ es[s].elapsed > 0
                     /\ \A t \in DOMAIN es : es[t].elapsed <= es[s].elapsed}

\* The maps evict_lru can leave; es itself when nothing predates now.
EvictLru(es) ==
  IF Oldest(es) = {} THEN {es}
  ELSE {Keep(es, DOMAIN es \ {s}) : s \in Oldest(es)}

\* Mutant of IsFull: room is made one insert too late.
IsFullLate(es) == Cardinality(DOMAIN es) > Capacity

IsFull(es) == Cardinality(DOMAIN es) >= Capacity

\* Mutant of MakeRoom: the oldest entry goes before expired ones are swept.
MakeRoomUnswept(es) == IF IsFull(es) THEN EvictLru(es) ELSE {es}

\* The maps that insert_with_ttl can be left with before it adds its entry.
MakeRoom(es) ==
  LET swept == IF IsFull(es) THEN EvictExpired(es) ELSE es
  IN  IF IsFull(swept) THEN EvictLru(swept) ELSE {swept}

-----------------------------------------------------------------------------

Init ==
  /\ entries = [s \in {} |-> NoResponse]
  /\ hits = 0
  /\ misses = 0

GetHit(k, result) ==
  /\ HashOf[k] \in FreshSlots(entries)
  /\ result = entries[HashOf[k]].response
  /\ hits' = hits + 1
  /\ UNCHANGED <<entries, misses>>

\* Mutant of GetMiss: a lookup that finds an expired entry counts twice.
GetMissTwice(k, result) ==
  /\ HashOf[k] \notin FreshSlots(entries)
  /\ result = NoResponse
  /\ entries' = Keep(entries, DOMAIN entries \ {HashOf[k]})
  /\ misses' = misses + (IF HashOf[k] \in DOMAIN entries THEN 2 ELSE 1)
  /\ UNCHANGED hits

GetMiss(k, result) ==
  /\ HashOf[k] \notin FreshSlots(entries)
  /\ result = NoResponse
  /\ entries' = Keep(entries, DOMAIN entries \ {HashOf[k]})
  /\ misses' = misses + 1
  /\ UNCHANGED hits

\* ExecutionCache::get; an expired entry is removed and counts as a miss.
Get(k, result) ==
  /\ hits + misses < MaxLookups
  /\ GetHit(k, result) \/ GetMiss(k, result)

\* ExecutionCache::insert_with_ttl with Some(ttl).
InsertWithTtl(k, r, ttl) ==
  /\ StrictClock => \A s \in DOMAIN entries : entries[s].elapsed > 0
  /\ \E kept \in MakeRoom(entries) :
       entries' = Put(kept, HashOf[k],
                      [response |-> r, elapsed |-> 0, ttl |-> ttl])
  /\ UNCHANGED <<hits, misses>>

\* ExecutionCache::insert.
Insert(k, r) == InsertWithTtl(k, r, DefaultTtl)

\* ExecutionCache::invalidate.
Invalidate(k) ==
  /\ entries' = Keep(entries, DOMAIN entries \ {HashOf[k]})
  /\ UNCHANGED <<hits, misses>>

\* ExecutionCache::clear, which also forgets the counters.
Clear(cleared) ==
  /\ cleared = Cardinality(DOMAIN entries)
  /\ entries' = Keep(entries, {})
  /\ hits' = 0
  /\ misses' = 0

\* Mutant of CleanupExpired: the task sweeps only a full cache.
CleanupWhenFull ==
  /\ entries' = IF IsFull(entries) THEN EvictExpired(entries) ELSE entries
  /\ UNCHANGED <<hits, misses>>

\* ExecutionCache::cleanup_expired, run every minute by the cleanup task.
CleanupExpired ==
  /\ entries' = EvictExpired(entries)
  /\ UNCHANGED <<hits, misses>>

\* The clock behind Instant::now() moves on.
Tick ==
  /\ entries' = [s \in DOMAIN entries |->
                   [entries[s] EXCEPT
                      !.elapsed = IF @ > MaxTtl THEN @ ELSE @ + 1]]
  /\ UNCHANGED <<hits, misses>>

Next ==
  \/ \E k \in Keys, result \in Responses \cup {NoResponse} : Get(k, result)
  \/ \E k \in Keys, r \in Responses : Insert(k, r)
  \/ \E k \in Keys, r \in Responses, ttl \in Ttls : InsertWithTtl(k, r, ttl)
  \/ \E k \in Keys : Invalidate(k)
  \/ Clear(Cardinality(DOMAIN entries))
  \/ CleanupExpired
  \/ Tick

Spec == Init /\ [][Next]_cacheVars

\* The cleanup task loops on an interval for as long as the process lives;
\* nothing makes anybody call the other methods.
FairSpec == Spec /\ WF_cacheVars(CleanupExpired)

-----------------------------------------------------------------------------

(***************************************************************************)
(* The entries are a finite map from slots to well-formed entries and the  *)
(* lookup counters stay within the bound of the model.                     *)
(***************************************************************************)
TypeOK ==
  /\ IsEntryMap(entries)
  /\ hits \in Nat
  /\ misses \in Nat
  /\ hits + misses <= MaxLookups

(***************************************************************************)
(* When no two readings of the clock coincide, insert_with_ttl never lets  *)
(* the map grow past its capacity: sweeping expired entries or else        *)
(* evicting one entry always makes room.  A cache of capacity 0 still      *)
(* holds the entry inserted last (the evictions have nothing to evict).    *)
(***************************************************************************)
LenBounded ==
  StrictClock =>
    Cardinality(DOMAIN entries) <= (IF Capacity = 0 THEN 1 ELSE Capacity)

(***************************************************************************)
(* A response that has outlived its ttl does not stay in memory for ever,  *)
(* even if its key is never looked up again: the cleanup task drops it, or *)
(* an insert, invalidate or clear gets there first.                        *)
(***************************************************************************)
HoldsExpired(slot) == slot \in DOMAIN entries \ FreshSlots(entries)

ExpiredEventuallyDropped ==
  \A slot \in Slots : HoldsExpired(slot) ~> ~HoldsExpired(slot)

=============================================================================
