------------------------ MODULE ObservedCacheProofs -------------------------
(***************************************************************************)
(* The response cache implements the map that TtlMap promises, for every   *)
(* number of keys, any collisions among their hashes, every capacity and   *)
(* every ttl.  The refinement mapping forgets the expired entries, so each *)
(* step of the proof says what an operation does to the fresh ones.        *)
(***************************************************************************)
EXTENDS ObservedCache, ExecutionCacheProofs

-----------------------------------------------------------------------------
(* The fresh part of the maps an operation builds.                         *)

LEMMA FreshPart ==
  ASSUME NEW es
  PROVE  /\ DOMAIN EvictExpired(es) = FreshSlots(es)
         /\ \A s \in FreshSlots(es) : EvictExpired(es)[s] = es[s]
         /\ FreshSlots(es) \subseteq DOMAIN es
BY DEF EvictExpired, Keep, FreshSlots

(***************************************************************************)
(* Removing entries removes the same ones from the fresh part.             *)
(***************************************************************************)
LEMMA FreshPartOfKeep ==
  ASSUME NEW es, NEW S, S \subseteq DOMAIN es
  PROVE  EvictExpired(Keep(es, S)) = Keep(EvictExpired(es), S \cap FreshSlots(es))
<1>1. DOMAIN Keep(es, S) = S /\ \A s \in S : Keep(es, S)[s] = es[s]
  BY DEF Keep
<1>2. FreshSlots(Keep(es, S)) = S \cap FreshSlots(es)
  BY <1>1 DEF FreshSlots
<1>3. EvictExpired(Keep(es, S)) = [s \in S \cap FreshSlots(es) |-> es[s]]
  BY <1>1, <1>2 DEF EvictExpired, Keep
<1>4. Keep(EvictExpired(es), S \cap FreshSlots(es))
        = [s \in S \cap FreshSlots(es) |-> es[s]]
  BY FreshPart DEF Keep
<1>5. QED
  BY <1>3, <1>4

(***************************************************************************)
(* Sweeping twice is sweeping once.                                        *)
(***************************************************************************)
LEMMA SweptIsFresh ==
  ASSUME NEW es
  PROVE  EvictExpired(EvictExpired(es)) = EvictExpired(es)
<1>1. FreshSlots(es) \cap FreshSlots(es) = FreshSlots(es)
  OBVIOUS
<1>2. EvictExpired(EvictExpired(es)) = Keep(EvictExpired(es), FreshSlots(es))
  BY <1>1, FreshPart, FreshPartOfKeep DEF EvictExpired
<1>3. QED
  BY <1>2, FreshPart DEF EvictExpired, Keep

(***************************************************************************)
(* HashMap::insert of a new, hence fresh, entry.                           *)
(***************************************************************************)
LEMMA FreshPartOfPut ==
  ASSUME NEW es, NEW slot, NEW e, ~Expired(e)
  PROVE  EvictExpired(Put(es, slot, e)) = Put(EvictExpired(es), slot, e)
<1>1. /\ DOMAIN Put(es, slot, e) = DOMAIN es \cup {slot}
      /\ Put(es, slot, e)[slot] = e
      /\ \A s \in DOMAIN es \ {slot} : Put(es, slot, e)[s] = es[s]
  BY DEF Put
<1>2. FreshSlots(Put(es, slot, e)) = FreshSlots(es) \cup {slot}
  BY <1>1 DEF FreshSlots
<1>3. EvictExpired(Put(es, slot, e))
        = [s \in FreshSlots(es) \cup {slot} |-> Put(es, slot, e)[s]]
  BY <1>2 DEF EvictExpired, Keep
<1>4. Put(EvictExpired(es), slot, e)
        = [s \in FreshSlots(es) \cup {slot} |->
             IF s = slot THEN e ELSE EvictExpired(es)[s]]
  BY FreshPart DEF Put
<1>5. \A s \in FreshSlots(es) \cup {slot} :
        Put(es, slot, e)[s] = IF s = slot THEN e ELSE EvictExpired(es)[s]
  BY <1>1, FreshPart
<1>6. QED
  BY <1>3, <1>4, <1>5

(***************************************************************************)
(* TtlMap's notion of cardinality is the one the cache counts with.        *)
(***************************************************************************)
LEMMA SameCardinality == \A S : Promise!Cardinality(S) = Cardinality(S)
  BY DEF Promise!Cardinality, Cardinality

(***************************************************************************)
(* What insert_with_ttl evicts, seen on the fresh part: nothing, unless    *)
(* the fresh entries alone fill the cache, and then one of the eldest.     *)
(***************************************************************************)
LEMMA SurvivorsOfMakeRoom ==
  ASSUME NEW es, IsEntryMap(es), NEW kept \in MakeRoom(es)
  PROVE  FreshSlots(kept) \in Promise!Survivors(EvictExpired(es))
         /\ \A s \in FreshSlots(kept) : kept[s] = EvictExpired(es)[s]
<1> DEFINE fresh == EvictExpired(es)
<1>1. /\ Cardinality(DOMAIN fresh) \in Nat
      /\ Cardinality(DOMAIN es) \in Nat
      /\ Cardinality(DOMAIN fresh) <= Cardinality(DOMAIN es)
  BY FreshPart, FS_Subset, FS_CardinalityType DEF IsEntryMap
<1>2. CASE ~IsFull(es)
  <2>1. kept = es
    BY <1>2 DEF MakeRoom
  <2>2. Cardinality(DOMAIN fresh) < Capacity
    BY <1>1, <1>2, CapacityAssumption DEF IsFull
  <2>3. Promise!Survivors(fresh) = {DOMAIN fresh}
    BY <2>2, SameCardinality DEF Promise!Survivors
  <2>4. QED
    BY <2>1, <2>3, FreshPart
<1>3. CASE IsFull(es) /\ ~IsFull(fresh)
  <2>1. kept = fresh
    BY <1>3 DEF MakeRoom
  <2>2. FreshSlots(fresh) = DOMAIN fresh
    BY SweptIsFresh, FreshPart
  <2>3. Cardinality(DOMAIN fresh) < Capacity
    BY <1>1, <1>3, CapacityAssumption DEF IsFull
  <2>4. Promise!Survivors(fresh) = {DOMAIN fresh}
    BY <2>3, SameCardinality DEF Promise!Survivors
  <2>5. QED
    BY <2>1, <2>2, <2>4
<1>4. CASE IsFull(es) /\ IsFull(fresh)
  <2>1. kept \in EvictLru(fresh)
    BY <1>4 DEF MakeRoom
  <2>2. FreshSlots(fresh) = DOMAIN fresh
    BY SweptIsFresh, FreshPart
  <2>3. Oldest(fresh) = Promise!Eldest(fresh)
    BY DEF Oldest, Promise!Eldest
  <2>4. ~(Cardinality(DOMAIN fresh) < Capacity)
    BY <1>1, <1>4, CapacityAssumption DEF IsFull
  <2>5. CASE Oldest(fresh) = {}
    <3>1. kept = fresh
      BY <2>1, <2>5 DEF EvictLru
    <3>2. QED
      BY <3>1, <2>2, <2>3, <2>5 DEF Promise!Survivors
  <2>6. CASE Oldest(fresh) # {}
    <3>1. PICK s \in Oldest(fresh) : kept = Keep(fresh, DOMAIN fresh \ {s})
      BY <2>1, <2>6 DEF EvictLru
    <3>2. /\ DOMAIN kept = DOMAIN fresh \ {s}
          /\ \A t \in DOMAIN kept : kept[t] = fresh[t]
      BY <3>1 DEF Keep
    <3>3. FreshSlots(kept) = DOMAIN kept
      BY <3>2, <2>2 DEF FreshSlots
    <3>4. Promise!Survivors(fresh)
            = {DOMAIN fresh \ {t} : t \in Promise!Eldest(fresh)}
      BY <2>3, <2>4, <2>6, SameCardinality DEF Promise!Survivors
    <3>5. QED
      BY <3>1, <3>2, <3>3, <3>4, <2>3
  <2>7. QED
    BY <2>5, <2>6
<1>5. QED
  BY <1>2, <1>3, <1>4

-----------------------------------------------------------------------------
(* Each operation is a step of the promised map, or invisible.             *)

LEMMA ObservedInitRefines == ObservedInit => Promise!Init
<1> SUFFICES ASSUME ObservedInit PROVE Promise!Init
  OBVIOUS
<1>1. DOMAIN entries = {} /\ answer = << >>
  BY DEF ObservedInit, Init
<1>2. FreshSlots(entries) = {}
  BY <1>1 DEF FreshSlots
<1>3. EvictExpired(entries) = [s \in {} |-> NoResponse]
  BY <1>2 DEF EvictExpired, Keep
<1>4. QED
  BY <1>1, <1>3 DEF Promise!Init

LEMMA GetRefines ==
  ASSUME NEW k \in Keys, NEW res, ObservedGet(k, res)
  PROVE  Promise!Lookup(k)
<1> DEFINE slot == HashOf[k]
<1>1. CASE GetHit(k, res)
  BY <1>1, FreshPart DEF ObservedGet, GetHit, Promise!Lookup
<1>2. CASE GetMiss(k, res)
  <2>1. entries' = Keep(entries, DOMAIN entries \ {slot})
        /\ slot \notin FreshSlots(entries)
    BY <1>2 DEF GetMiss
  <2>2. (DOMAIN entries \ {slot}) \cap FreshSlots(entries) = FreshSlots(entries)
    BY <2>1, FreshPart
  <2>3. EvictExpired(entries') = Keep(EvictExpired(entries), FreshSlots(entries))
    BY <2>1, <2>2, FreshPartOfKeep
  <2>4. EvictExpired(entries') = EvictExpired(entries)
    BY <2>3, FreshPart DEF EvictExpired, Keep
  <2>5. answer' = <<k, NoResponse>>
    BY <1>2 DEF ObservedGet, GetMiss
  <2>6. QED
    BY <2>1, <2>4, <2>5, FreshPart DEF Promise!Lookup
<1>3. QED
  BY <1>1, <1>2 DEF ObservedGet, Get

LEMMA InsertRefines ==
  ASSUME TypeOK, NEW k \in Keys, NEW r \in Responses, NEW ttl \in 0 .. MaxTtl,
         InsertWithTtl(k, r, ttl), UNCHANGED answer
  PROVE  Promise!Store(k, r, ttl)
<1> DEFINE e == [response |-> r, elapsed |-> 0, ttl |-> ttl]
           slot == HashOf[k]
           live == EvictExpired(entries)
<1>1. PICK kept \in MakeRoom(entries) : entries' = Put(kept, slot, e)
  BY DEF InsertWithTtl
<1>2. ~Expired(e)
  BY TtlAssumption DEF Expired
<1>3. EvictExpired(entries') = Put(EvictExpired(kept), slot, e)
  BY <1>1, <1>2, FreshPartOfPut
<1>4. /\ FreshSlots(kept) \in Promise!Survivors(live)
      /\ \A s \in FreshSlots(kept) : kept[s] = live[s]
  BY <1>1, SurvivorsOfMakeRoom DEF TypeOK
<1>5. \A s \in FreshSlots(kept) : EvictExpired(kept)[s] = live[s]
  BY <1>4, FreshPart
<1>6. EvictExpired(entries')
        = [s \in FreshSlots(kept) \cup {slot} |->
             IF s = slot THEN e ELSE live[s]]
  BY <1>3, <1>5, FreshPart DEF Put
<1>7. QED
  BY <1>4, <1>6 DEF Promise!Store

LEMMA RemovalRefines ==
  ASSUME NEW S, S \subseteq DOMAIN entries, entries' = Keep(entries, S)
  PROVE  EvictExpired(entries')
           = Promise!On(EvictExpired(entries), S \cap FreshSlots(entries))
BY FreshPartOfKeep DEF Keep, Promise!On

LEMMA InvalidateRefines ==
  ASSUME NEW k \in Keys, Invalidate(k), UNCHANGED answer
  PROVE  Promise!Forget(k)
<1>1. EvictExpired(entries')
        = Promise!On(EvictExpired(entries),
                     (DOMAIN entries \ {HashOf[k]}) \cap FreshSlots(entries))
  BY RemovalRefines DEF Invalidate
<1>2. (DOMAIN entries \ {HashOf[k]}) \cap FreshSlots(entries)
        = DOMAIN EvictExpired(entries) \ {HashOf[k]}
  BY FreshPart
<1>3. QED
  BY <1>1, <1>2 DEF Promise!Forget

LEMMA ClearRefines ==
  ASSUME NEW cleared, Clear(cleared), UNCHANGED answer
  PROVE  Promise!ForgetAll
<1>1. EvictExpired(entries')
        = Promise!On(EvictExpired(entries), {} \cap FreshSlots(entries))
  BY RemovalRefines DEF Clear
<1>2. {} \cap FreshSlots(entries) = {}
  OBVIOUS
<1>3. QED
  BY <1>1, <1>2 DEF Promise!ForgetAll

LEMMA TickRefines ==
  ASSUME TypeOK, Tick, UNCHANGED answer
  PROVE  Promise!Age
<1> DEFINE live == EvictExpired(entries)
           Young == {s \in DOMAIN live : live[s].elapsed < live[s].ttl}
<1>1. DOMAIN entries' = DOMAIN entries
  BY DEF Tick
<1>2. ASSUME NEW s \in DOMAIN entries
      PROVE  /\ entries[s] \in Entry
             /\ s \in FreshSlots(entries') <=> entries[s].elapsed < entries[s].ttl
             /\ entries[s].elapsed < entries[s].ttl =>
                  entries'[s] = [entries[s] EXCEPT !.elapsed = @ + 1]
  <2>1. entries[s] \in Entry
    BY DEF TypeOK, IsEntryMap
  <2>2. entries'[s] = [entries[s] EXCEPT
                         !.elapsed = IF @ > MaxTtl THEN @ ELSE @ + 1]
    BY DEF Tick
  <2>3. /\ entries'[s].ttl = entries[s].ttl
        /\ entries'[s].elapsed = IF entries[s].elapsed > MaxTtl
                                 THEN entries[s].elapsed
                                 ELSE entries[s].elapsed + 1
    BY <2>1, <2>2 DEF Entry
  <2>4. s \in FreshSlots(entries') <=> entries'[s].elapsed <= entries[s].ttl
    BY <1>1, <2>1, <2>3, TtlAssumption DEF FreshSlots, Expired, Entry, Elapsed
  <2>5. s \in FreshSlots(entries') <=> entries[s].elapsed < entries[s].ttl
    BY <2>1, <2>3, <2>4, TtlAssumption DEF Entry, Elapsed
  <2>6. entries[s].elapsed < entries[s].ttl => ~(entries[s].elapsed > MaxTtl)
    BY <2>1, TtlAssumption DEF Entry, Elapsed
  <2>7. QED
    BY <2>1, <2>2, <2>5, <2>6
<1>3. \A s \in DOMAIN entries :
        entries[s].elapsed < entries[s].ttl => s \in FreshSlots(entries)
  <2>1. TAKE s \in DOMAIN entries
  <2>2. entries[s] \in Entry
    BY <1>2
  <2>3. QED
    BY <2>2, TtlAssumption DEF FreshSlots, Expired, Entry, Elapsed
<1>4. Young = FreshSlots(entries')
  BY <1>1, <1>2, <1>3, FreshPart
<1>5. EvictExpired(entries')
        = [s \in Young |-> [live[s] EXCEPT !.elapsed = @ + 1]]
  <2>1. EvictExpired(entries') = [s \in Young |-> entries'[s]]
    BY <1>4 DEF EvictExpired, Keep
  <2>2. \A s \in Young : entries'[s] = [live[s] EXCEPT !.elapsed = @ + 1]
    BY <1>2, FreshPart
  <2>3. QED
    BY <2>1, <2>2
<1>6. QED
  BY <1>5 DEF Promise!Age

LEMMA ObservedNextRefines ==
  TypeOK /\ [ObservedNext]_observedVars => [Promise!Next]_(Promise!mapVars)
<1> SUFFICES ASSUME TypeOK, [ObservedNext]_observedVars
             PROVE  [Promise!Next]_(Promise!mapVars)
  OBVIOUS
<1>1. ASSUME NEW k \in Keys, NEW res, ObservedGet(k, res)
      PROVE  Promise!Next
  BY <1>1, GetRefines DEF Promise!Next
<1>2. ASSUME NEW k \in Keys, NEW r \in Responses, Insert(k, r),
             UNCHANGED answer
      PROVE  Promise!Next
  <2>1. Promise!Store(k, r, DefaultTtl)
    BY <1>2, InsertRefines, TtlAssumption DEF Insert
  <2>2. QED
    BY <2>1 DEF Promise!Next
<1>3. ASSUME NEW k \in Keys, NEW r \in Responses, NEW ttl \in Ttls,
             InsertWithTtl(k, r, ttl), UNCHANGED answer
      PROVE  Promise!Next
  <2>1. Promise!Store(k, r, ttl)
    BY <1>3, InsertRefines, TtlAssumption
  <2>2. QED
    BY <2>1 DEF Promise!Next
<1>4. ASSUME NEW k \in Keys, Invalidate(k), UNCHANGED answer
      PROVE  Promise!Next
  BY <1>4, InvalidateRefines DEF Promise!Next
<1>5. ASSUME NEW cleared, Clear(cleared), UNCHANGED answer
      PROVE  Promise!Next
  BY <1>5, ClearRefines DEF Promise!Next
<1>6. CASE CleanupExpired /\ UNCHANGED answer
  BY <1>6, SweptIsFresh DEF CleanupExpired, Promise!mapVars
<1>7. CASE Tick /\ UNCHANGED answer
  BY <1>7, TickRefines DEF Promise!Next
<1>8. CASE UNCHANGED observedVars
  BY <1>8 DEF observedVars, Promise!mapVars
<1>9. QED
  BY <1>1, <1>2, <1>3, <1>4, <1>5, <1>6, <1>7, <1>8
  DEF ObservedNext, ObservedUpdate

(***************************************************************************)
(* The answers recorded besides the cache do not influence it.             *)
(***************************************************************************)
LEMMA ObservedIsCache == ObservedSpec => Spec
<1>1. ObservedInit => Init
  BY DEF ObservedInit
<1>2. [ObservedNext]_observedVars => [Next]_cacheVars
  BY DEF ObservedNext, ObservedUpdate, ObservedGet, Next, observedVars,
         cacheVars
<1>3. QED
  BY <1>1, <1>2, PTL DEF ObservedSpec, Spec

(***************************************************************************)
(* A caller of get, insert, invalidate and clear cannot tell the cache,    *)
(* with its lazy expiry and its sweeps, from the promised map.             *)
(***************************************************************************)
THEOREM CacheKeepsPromise == ObservedSpec => ImplementsTtlMap
<1>1. Spec => []TypeOK
  BY CacheTypeCorrect
<1>2. QED
  BY <1>1, ObservedIsCache, ObservedInitRefines, ObservedNextRefines, PTL
  DEF ObservedSpec, ImplementsTtlMap, Promise!Spec

=============================================================================
