------------------------ MODULE ExecutionCacheProofs ------------------------
(***************************************************************************)
(* Type correctness and the capacity bound of the response cache, for      *)
(* every number of keys and slots, every capacity and every ttl.           *)
(***************************************************************************)
EXTENDS ExecutionCache, FiniteSetTheorems, TLAPS

-----------------------------------------------------------------------------
(* The maps an operation builds from the entries.                          *)

(***************************************************************************)
(* remove and retain leave a map of some of the entries (cache.rs 94, 137, *)
(* 152, 159, 165).                                                         *)
(***************************************************************************)
LEMMA KeepIsEntryMap ==
  ASSUME NEW es, IsEntryMap(es), NEW S, S \subseteq DOMAIN es
  PROVE  /\ IsEntryMap(Keep(es, S))
         /\ DOMAIN Keep(es, S) = S
         /\ \A s \in S : Keep(es, S)[s] = es[s]
<1>1. IsFiniteSet(S)
  BY FS_Subset DEF IsEntryMap
<1>2. QED
  BY <1>1 DEF IsEntryMap, Keep

(***************************************************************************)
(* HashMap::insert leaves a map with one slot more, or the same slots.     *)
(***************************************************************************)
LEMMA PutIsEntryMap ==
  ASSUME NEW es, IsEntryMap(es), NEW slot \in Slots, NEW e \in Entry
  PROVE  /\ IsEntryMap(Put(es, slot, e))
         /\ DOMAIN Put(es, slot, e) = DOMAIN es \cup {slot}
         /\ Cardinality(DOMAIN Put(es, slot, e)) <= Cardinality(DOMAIN es) + 1
<1>1. /\ IsFiniteSet(DOMAIN es \cup {slot})
      /\ Cardinality(DOMAIN es \cup {slot}) <= Cardinality(DOMAIN es) + 1
  <2>1. IsFiniteSet(DOMAIN es) /\ Cardinality(DOMAIN es) \in Nat
    BY FS_CardinalityType DEF IsEntryMap
  <2>2. /\ IsFiniteSet(DOMAIN es \cup {slot})
        /\ \/ Cardinality(DOMAIN es \cup {slot}) = Cardinality(DOMAIN es)
           \/ Cardinality(DOMAIN es \cup {slot}) = Cardinality(DOMAIN es) + 1
    BY <2>1, FS_AddElement
  <2>3. QED
    BY <2>1, <2>2
<1>2. QED
  BY <1>1 DEF IsEntryMap, Put

(***************************************************************************)
(* If any entry predates now there is an oldest entry, so evict_lru finds  *)
(* a victim.                                                               *)
(***************************************************************************)
LEMMA OldestExists ==
  ASSUME NEW es, IsEntryMap(es),
         \E s \in DOMAIN es : es[s].elapsed > 0
  PROVE  Oldest(es) # {}
<1> DEFINE Left(s) == MaxTtl + 1 - es[s].elapsed
           T == {Left(s) : s \in DOMAIN es}
<1>1. \A s \in DOMAIN es : es[s].elapsed \in 0 .. MaxTtl + 1
  BY DEF IsEntryMap, Entry, Elapsed
<1>2. MaxTtl \in Nat
  BY TtlAssumption
<1>3. \A s \in DOMAIN es : Left(s) \in Nat
  BY <1>1, <1>2
<1>4. T \subseteq Nat /\ T # {}
  <2>1. DOMAIN es # {}
    OBVIOUS
  <2>2. QED
    BY <1>3, <2>1
<1>5. PICK x \in T : \A y \in T : ~ (<<y, x>> \in OpToRel(<, Nat))
  <2> HIDE DEF T
  <2>1. QED
    BY <1>4, NatLessThanWellFounded, WFMin
<1>6. \A y \in T : x <= y
  <2> HIDE DEF T
  <2>1. TAKE y \in T
  <2>2. x \in Nat /\ y \in Nat
    BY <1>4, <1>5
  <2>3. ~ (y < x)
    BY <1>5, <2>2 DEF OpToRel
  <2>4. QED
    BY <2>2, <2>3
<1>7. PICK s \in DOMAIN es : x = Left(s)
  BY DEF T
<1>8. \A t \in DOMAIN es : es[t].elapsed <= es[s].elapsed
  <2>1. TAKE t \in DOMAIN es
  <2>2. Left(s) <= Left(t)
    BY <1>6, <1>7
  <2>3. QED
    BY <2>2, <1>1, <1>2
<1>9. es[s].elapsed > 0
  <2>1. PICK t \in DOMAIN es : es[t].elapsed > 0
    OBVIOUS
  <2>2. es[t].elapsed <= es[s].elapsed
    BY <1>8
  <2>3. QED
    BY <1>1, <1>2, <2>1, <2>2
<1>10. QED
  BY <1>8, <1>9 DEF Oldest

(***************************************************************************)
(* Making room only takes entries away.                                    *)
(***************************************************************************)
LEMMA MakeRoomKeeps ==
  ASSUME NEW es, IsEntryMap(es), NEW kept \in MakeRoom(es)
  PROVE  /\ IsEntryMap(kept)
         /\ DOMAIN kept \subseteq DOMAIN es
<1>1. /\ IsEntryMap(EvictExpired(es))
      /\ DOMAIN EvictExpired(es) \subseteq DOMAIN es
  BY KeepIsEntryMap DEF EvictExpired, FreshSlots
<1>2. ASSUME NEW m, IsEntryMap(m), NEW n \in EvictLru(m)
      PROVE  IsEntryMap(n) /\ DOMAIN n \subseteq DOMAIN m
  <2>1. CASE n = m
    BY <1>2, <2>1
  <2>2. ASSUME NEW s, n = Keep(m, DOMAIN m \ {s})
        PROVE  IsEntryMap(n) /\ DOMAIN n \subseteq DOMAIN m
    <3>1. DOMAIN m \ {s} \subseteq DOMAIN m
      OBVIOUS
    <3>2. QED
      BY <1>2, <2>2, <3>1, KeepIsEntryMap
  <2>3. QED
    BY <1>2, <2>1, <2>2 DEF EvictLru
<1>3. QED
  BY <1>1, <1>2 DEF MakeRoom

(***************************************************************************)
(* When every stored entry predates now, insert_with_ttl makes room for    *)
(* one more entry in a cache that is within its capacity; in a cache of    *)
(* capacity 0 that holds one entry, it empties the cache.                  *)
(***************************************************************************)
LEMMA MakeRoomBound ==
  ASSUME NEW es, IsEntryMap(es), NEW kept \in MakeRoom(es),
         \A s \in DOMAIN es : es[s].elapsed > 0,
         Cardinality(DOMAIN es) <= (IF Capacity = 0 THEN 1 ELSE Capacity)
  PROVE  Cardinality(DOMAIN kept) + 1 <= (IF Capacity = 0 THEN 1 ELSE Capacity)
<1> DEFINE Bound == IF Capacity = 0 THEN 1 ELSE Capacity
<1>1. PICK m : /\ m = (IF IsFull(es) THEN EvictExpired(es) ELSE es)
               /\ kept \in (IF IsFull(m) THEN EvictLru(m) ELSE {m})
  BY DEF MakeRoom
<1>2. /\ IsEntryMap(m)
      /\ DOMAIN m \subseteq DOMAIN es
      /\ \A s \in DOMAIN m : m[s] = es[s]
  BY <1>1, KeepIsEntryMap DEF EvictExpired, FreshSlots
<1>3. /\ Cardinality(DOMAIN m) \in Nat
      /\ Cardinality(DOMAIN es) \in Nat
      /\ Cardinality(DOMAIN m) <= Cardinality(DOMAIN es)
  BY <1>2, FS_Subset, FS_CardinalityType DEF IsEntryMap
<1>4. CASE ~IsFull(m)
  BY <1>1, <1>3, <1>4, CapacityAssumption DEF IsFull
<1>5. CASE IsFull(m) /\ DOMAIN m = {}
  <2>1. Cardinality(DOMAIN m) = 0
    BY <1>5, FS_EmptySet
  <2>2. Capacity = 0 /\ Oldest(m) = {}
    BY <1>5, <2>1, CapacityAssumption DEF IsFull, Oldest
  <2>3. kept = m
    BY <1>1, <1>5, <2>2 DEF EvictLru
  <2>4. QED
    BY <2>1, <2>2, <2>3
<1>6. CASE IsFull(m) /\ DOMAIN m # {}
  <2>1. Oldest(m) # {}
    <3>1. \E s \in DOMAIN m : m[s].elapsed > 0
      BY <1>2, <1>6
    <3>2. QED
      BY <1>2, <3>1, OldestExists
  <2>2. PICK s \in DOMAIN m : kept = Keep(m, DOMAIN m \ {s})
    BY <1>1, <1>6, <2>1 DEF EvictLru, Oldest
  <2>3. DOMAIN kept = DOMAIN m \ {s}
    BY <2>2 DEF Keep
  <2>4. Cardinality(DOMAIN kept) = Cardinality(DOMAIN m) - 1
    BY <1>2, <2>3, FS_RemoveElement DEF IsEntryMap
  <2>5. QED
    BY <1>3, <2>4, CapacityAssumption
<1>7. QED
  BY <1>4, <1>5, <1>6

(***************************************************************************)
(* In a full cache of which any entry predates now, insert_with_ttl gives  *)
(* up an entry before it adds one.                                         *)
(***************************************************************************)
LEMMA MakeRoomShrinks ==
  ASSUME NEW es, IsEntryMap(es), IsFull(es), NEW kept \in MakeRoom(es),
         NEW s \in DOMAIN es, es[s].elapsed > 0
  PROVE  Cardinality(DOMAIN kept) + 1 <= Cardinality(DOMAIN es)
<1> DEFINE m == EvictExpired(es)
<1>1. kept \in (IF IsFull(m) THEN EvictLru(m) ELSE {m})
  BY DEF MakeRoom
<1>2. /\ IsEntryMap(m)
      /\ DOMAIN m \subseteq DOMAIN es
      /\ \A t \in DOMAIN m : m[t] = es[t]
  BY KeepIsEntryMap DEF EvictExpired, FreshSlots
<1> HIDE DEF m
<1>3. /\ IsFiniteSet(DOMAIN es) /\ IsFiniteSet(DOMAIN m)
      /\ Cardinality(DOMAIN m) \in Nat /\ Cardinality(DOMAIN es) \in Nat
      /\ Cardinality(DOMAIN m) <= Cardinality(DOMAIN es)
  BY <1>2, FS_Subset, FS_CardinalityType DEF IsEntryMap
<1>4. CASE ~IsFull(m)
  BY <1>1, <1>3, <1>4, CapacityAssumption DEF IsFull
<1>5. CASE IsFull(m) /\ Oldest(m) # {}
  <2>1. PICK t \in DOMAIN m : kept = Keep(m, DOMAIN m \ {t})
    BY <1>1, <1>5 DEF EvictLru, Oldest
  <2>2. DOMAIN kept = DOMAIN m \ {t}
    BY <2>1 DEF Keep
  <2>3. Cardinality(DOMAIN kept) = Cardinality(DOMAIN m) - 1
    BY <1>3, <2>2, FS_RemoveElement
  <2>4. QED
    BY <1>3, <2>3
<1>6. CASE IsFull(m) /\ Oldest(m) = {}
  <2>1. kept = m
    BY <1>1, <1>6 DEF EvictLru
  <2>2. s \notin DOMAIN m
    BY <1>2, <1>6, OldestExists
  <2>3. Cardinality(DOMAIN m) # Cardinality(DOMAIN es)
    BY <1>2, <1>3, <2>2, FS_Subset
  <2>4. QED
    BY <1>3, <2>1, <2>3
<1>7. QED
  BY <1>4, <1>5, <1>6

-----------------------------------------------------------------------------

(***************************************************************************)
(* TypeOK and LenBounded are inductive together.                           *)
(***************************************************************************)
CacheInv == TypeOK /\ LenBounded

LEMMA InitCacheInv == Init => CacheInv
<1> SUFFICES ASSUME Init PROVE CacheInv
  OBVIOUS
<1>1. DOMAIN entries = {}
  BY DEF Init
<1>2. IsFiniteSet({}) /\ Cardinality({}) = 0
  BY FS_EmptySet
<1>3. IsEntryMap(entries)
  BY <1>1, <1>2 DEF Init, IsEntryMap
<1>4. QED
  BY <1>1, <1>2, <1>3, CapacityAssumption, LookupsAssumption
  DEF Init, CacheInv, TypeOK, LenBounded

(***************************************************************************)
(* Removing entries keeps the invariant, whatever happens to the counters  *)
(* within their bound.                                                     *)
(***************************************************************************)
LEMMA RemovalKeepsInv ==
  ASSUME CacheInv, NEW S, S \subseteq DOMAIN entries,
         entries' = Keep(entries, S),
         hits' \in Nat, misses' \in Nat, hits' + misses' <= MaxLookups
  PROVE  CacheInv'
<1>1. IsEntryMap(entries') /\ DOMAIN entries' = S
  BY KeepIsEntryMap DEF CacheInv, TypeOK
<1>2. /\ Cardinality(S) \in Nat
      /\ Cardinality(DOMAIN entries) \in Nat
      /\ Cardinality(S) <= Cardinality(DOMAIN entries)
  BY FS_Subset, FS_CardinalityType DEF CacheInv, TypeOK, IsEntryMap
<1>3. QED
  BY <1>1, <1>2, CapacityAssumption DEF CacheInv, TypeOK, LenBounded

LEMMA InsertKeepsInv ==
  ASSUME CacheInv, NEW k \in Keys, NEW r \in Responses, NEW ttl \in 0 .. MaxTtl,
         InsertWithTtl(k, r, ttl)
  PROVE  CacheInv'
<1> DEFINE e == [response |-> r, elapsed |-> 0, ttl |-> ttl]
<1>1. PICK kept \in MakeRoom(entries) : entries' = Put(kept, HashOf[k], e)
  BY DEF InsertWithTtl
<1>2. IsEntryMap(kept)
  BY <1>1, MakeRoomKeeps DEF CacheInv, TypeOK
<1>3. HashOf[k] \in Slots
  BY HashAssumption
<1>4. e \in Entry
  BY TtlAssumption DEF Entry, Elapsed
<1>5. /\ IsEntryMap(entries')
      /\ Cardinality(DOMAIN entries') <= Cardinality(DOMAIN kept) + 1
  BY <1>1, <1>2, <1>3, <1>4, PutIsEntryMap
<1>6. TypeOK'
  BY <1>5 DEF CacheInv, TypeOK, InsertWithTtl
<1>7. LenBounded'
  <2>1. SUFFICES ASSUME StrictClock
                 PROVE  Cardinality(DOMAIN entries')
                          <= (IF Capacity = 0 THEN 1 ELSE Capacity)
    BY DEF LenBounded
  <2>2. \A s \in DOMAIN entries : entries[s].elapsed > 0
    BY <2>1 DEF InsertWithTtl
  <2>3. Cardinality(DOMAIN kept) + 1 <= (IF Capacity = 0 THEN 1 ELSE Capacity)
    BY <1>1, <2>1, <2>2, MakeRoomBound DEF CacheInv, TypeOK, LenBounded
  <2>4. Cardinality(DOMAIN kept) \in Nat /\ Cardinality(DOMAIN entries') \in Nat
    BY <1>2, <1>5, FS_CardinalityType DEF IsEntryMap
  <2>5. QED
    BY <1>5, <2>3, <2>4, CapacityAssumption
<1>8. QED
  BY <1>6, <1>7 DEF CacheInv

LEMMA TickKeepsInv ==
  ASSUME CacheInv, Tick
  PROVE  CacheInv'
<1>1. DOMAIN entries' = DOMAIN entries
  BY DEF Tick
<1>2. ASSUME NEW s \in DOMAIN entries
      PROVE  entries'[s] \in Entry
  <2>1. entries[s] \in Entry
    BY DEF CacheInv, TypeOK, IsEntryMap
  <2>2. entries'[s] = [entries[s] EXCEPT
                         !.elapsed = IF @ > MaxTtl THEN @ ELSE @ + 1]
    BY DEF Tick
  <2>3. QED
    BY <2>1, <2>2, TtlAssumption DEF Entry, Elapsed
<1>3. entries' \in [DOMAIN entries -> Entry]
  BY <1>2 DEF Tick
<1>4. QED
  BY <1>1, <1>3 DEF Tick, CacheInv, TypeOK, LenBounded, IsEntryMap

LEMMA NextCacheInv == CacheInv /\ [Next]_cacheVars => CacheInv'
<1> SUFFICES ASSUME CacheInv, [Next]_cacheVars PROVE CacheInv'
  OBVIOUS
<1>1. ASSUME NEW k \in Keys, NEW result, Get(k, result)
      PROVE  CacheInv'
  <2>1. hits' \in Nat /\ misses' \in Nat /\ hits' + misses' <= MaxLookups
    BY <1>1, LookupsAssumption DEF Get, GetHit, GetMiss, CacheInv, TypeOK
  <2>2. CASE GetHit(k, result)
    BY <2>1, <2>2 DEF GetHit, CacheInv, TypeOK, LenBounded
  <2>3. CASE GetMiss(k, result)
    BY <2>1, <2>3, RemovalKeepsInv DEF GetMiss
  <2>4. QED
    BY <1>1, <2>2, <2>3 DEF Get
<1>2. ASSUME NEW k \in Keys, NEW r \in Responses, Insert(k, r)
      PROVE  CacheInv'
  BY <1>2, InsertKeepsInv, TtlAssumption DEF Insert
<1>3. ASSUME NEW k \in Keys, NEW r \in Responses, NEW ttl \in Ttls,
             InsertWithTtl(k, r, ttl)
      PROVE  CacheInv'
  BY <1>3, InsertKeepsInv, TtlAssumption
<1>4. ASSUME NEW k \in Keys, Invalidate(k)
      PROVE  CacheInv'
  BY <1>4, RemovalKeepsInv DEF Invalidate, CacheInv, TypeOK
<1>5. ASSUME NEW cleared, Clear(cleared)
      PROVE  CacheInv'
  BY <1>5, RemovalKeepsInv, LookupsAssumption DEF Clear
<1>6. CASE CleanupExpired
  BY <1>6, RemovalKeepsInv
  DEF CleanupExpired, EvictExpired, FreshSlots, CacheInv, TypeOK
<1>7. CASE Tick
  BY <1>7, TickKeepsInv
<1>8. CASE UNCHANGED cacheVars
  BY <1>8 DEF cacheVars, CacheInv, TypeOK, LenBounded
<1>9. QED
  BY <1>1, <1>2, <1>3, <1>4, <1>5, <1>6, <1>7, <1>8 DEF Next

LEMMA CacheInvariant == Spec => []CacheInv
  BY InitCacheInv, NextCacheInv, PTL DEF Spec

(***************************************************************************)
(* Whatever is called in whatever order, the cache stays a finite map from *)
(* slots to well-formed entries.                                           *)
(***************************************************************************)
THEOREM CacheTypeCorrect == Spec => []TypeOK
<1>1. CacheInv => TypeOK
  BY DEF CacheInv
<1>2. QED
  BY <1>1, CacheInvariant, PTL

(***************************************************************************)
(* Under a clock whose readings all differ, no sequence of calls makes the *)
(* cache hold more than Capacity entries, or one if Capacity is 0.         *)
(***************************************************************************)
THEOREM CacheLenBounded == Spec => []LenBounded
<1>1. CacheInv => LenBounded
  BY DEF CacheInv
<1>2. QED
  BY <1>1, CacheInvariant, PTL

\* A step that adds an entry to a cache without room.
GrowsWhenFull ==
  IsFull(entries) /\ Cardinality(DOMAIN entries') > Cardinality(DOMAIN entries)

(***************************************************************************)
(* Whatever the clock and the capacity, a full cache grows only when every *)
(* entry in it was created at the very reading of the clock that the       *)
(* insert takes: the one case in which evict_lru, which compares strictly  *)
(* with Instant::now(), finds no victim.                                   *)
(***************************************************************************)
THEOREM GrowthNeedsOneReading ==
  Spec => [][GrowsWhenFull => \A s \in DOMAIN entries : entries[s].elapsed = 0]_cacheVars
<1> DEFINE AllNow == \A s \in DOMAIN entries : entries[s].elapsed = 0
<1>1. TypeOK /\ [Next]_cacheVars => [GrowsWhenFull => AllNow]_cacheVars
  <2> SUFFICES ASSUME TypeOK, Next, GrowsWhenFull PROVE AllNow
    OBVIOUS
  <2>1. /\ IsEntryMap(entries) /\ IsFiniteSet(DOMAIN entries)
        /\ Cardinality(DOMAIN entries) \in Nat
    BY FS_CardinalityType DEF TypeOK, IsEntryMap
  <2>2. ASSUME DOMAIN entries' \subseteq DOMAIN entries PROVE FALSE
    <3>1. /\ Cardinality(DOMAIN entries') \in Nat
          /\ Cardinality(DOMAIN entries') <= Cardinality(DOMAIN entries)
      BY <2>1, <2>2, FS_Subset, FS_CardinalityType
    <3>2. QED
      BY <2>1, <3>1 DEF GrowsWhenFull
  <2>3. PICK k \in Keys, r \in Responses, ttl \in 0 .. MaxTtl :
          InsertWithTtl(k, r, ttl)
    <3>1. ASSUME NEW k \in Keys, NEW result, Get(k, result) PROVE FALSE
      BY <2>2, <3>1 DEF Get, GetHit, GetMiss, Keep
    <3>2. ASSUME NEW k \in Keys, Invalidate(k) PROVE FALSE
      BY <2>2, <3>2 DEF Invalidate, Keep
    <3>3. ASSUME NEW cleared, Clear(cleared) PROVE FALSE
      BY <2>2, <3>3 DEF Clear, Keep
    <3>4. CASE CleanupExpired
      BY <2>2, <3>4 DEF CleanupExpired, EvictExpired, FreshSlots, Keep
    <3>5. CASE Tick
      BY <2>2, <3>5 DEF Tick
    <3>6. QED
      BY <3>1, <3>2, <3>3, <3>4, <3>5, TtlAssumption DEF Next, Insert
  <2>4. PICK kept \in MakeRoom(entries) :
          entries' = Put(kept, HashOf[k], [response |-> r, elapsed |-> 0, ttl |-> ttl])
    BY <2>3 DEF InsertWithTtl
  <2>5. IsEntryMap(kept) /\ Cardinality(DOMAIN kept) \in Nat
    BY <2>1, MakeRoomKeeps, FS_CardinalityType DEF IsEntryMap
  <2>6. Cardinality(DOMAIN entries') <= Cardinality(DOMAIN kept) + 1
    <3>1. HashOf[k] \in Slots
      BY HashAssumption
    <3>2. [response |-> r, elapsed |-> 0, ttl |-> ttl] \in Entry
      BY TtlAssumption DEF Entry, Elapsed
    <3>3. QED
      BY <2>4, <2>5, <3>1, <3>2, PutIsEntryMap
  <2>7. IsFiniteSet(DOMAIN entries') /\ Cardinality(DOMAIN entries') \in Nat
    <3>1. DOMAIN entries' = DOMAIN kept \cup {HashOf[k]}
      BY <2>4 DEF Put
    <3>2. IsFiniteSet(DOMAIN entries')
      BY <2>5, <3>1, FS_AddElement DEF IsEntryMap
    <3>3. QED
      BY <3>2, FS_CardinalityType
  <2>8. ASSUME NEW s \in DOMAIN entries, entries[s].elapsed # 0 PROVE FALSE
    <3>1. entries[s].elapsed > 0
      BY <2>1, <2>8, TtlAssumption DEF IsEntryMap, Entry, Elapsed
    <3>2. Cardinality(DOMAIN kept) + 1 <= Cardinality(DOMAIN entries)
      BY <2>1, <3>1, MakeRoomShrinks DEF GrowsWhenFull
    <3>3. QED
      BY <2>1, <2>5, <2>6, <2>7, <3>2 DEF GrowsWhenFull
  <2>9. QED
    BY <2>8
<1>2. QED
  BY <1>1, CacheTypeCorrect, PTL DEF Spec

=============================================================================
