---------------------------- MODULE CacheProofs -----------------------------
(***************************************************************************)
(* The invariants of class Cache, for any keys, entries, allocator and     *)
(* capacity.  CoherentCache is inductive together with the types; it gives *)
(* the bound, because an eviction then always finds a stored key at the    *)
(* back of the list, and the retention of recent entries, because the list *)
(* is as long as the map is large.                                         *)
(***************************************************************************)
EXTENDS CacheRetention, CacheOpsProofs

-----------------------------------------------------------------------------
(* The invariants of Spec.                                                  *)

IInv == TypeOK /\ Coherent

\* The empty cache satisfies the invariant,
LEMMA InitIInv == Init => IInv
BY EmptyCacheCoherent DEF Init, IInv, TypeOK, Coherent

\* and every member function keeps it.
LEMMA NextIInv == IInv /\ [Next]_vars => IInv'
<1> SUFFICES ASSUME IInv, [Next]_vars
             PROVE  IInv'
  OBVIOUS
<1> USE DEF IInv, TypeOK, Coherent
<1>1. ASSUME NEW t \in Threads, NEW k \in Keys, Get(t, k)
      PROVE  IInv'
  BY <1>1, LookupType DEF Get
<1>2. ASSUME NEW k \in Keys, NEW e \in Entries, Put(k, e)
      PROVE  IInv'
  BY <1>2, PutCoherent DEF Put
<1>3. ASSUME NEW k \in Keys, RemoveKey(k)
      PROVE  IInv'
  BY <1>3, RemoveCoherent DEF RemoveKey
<1>4. CASE Clear
  BY <1>4, EmptyCacheCoherent DEF Clear
<1>5. CASE UNCHANGED vars
  BY <1>5 DEF vars
<1>. QED  BY <1>1, <1>2, <1>3, <1>4, <1>5 DEF Next

\* In every reachable state the containers and the results of get have their
\* types.
THEOREM CacheTypeOK == Spec => []TypeOK
<1>1. Spec => []IInv
  BY InitIInv, NextIInv, PTL DEF Spec
<1>2. IInv => TypeOK
  BY DEF IInv
<1>. QED  BY <1>1, <1>2, PTL

\* In every reachable state the map, the list and the iterators agree, so that
\* no iterator dangles: updateAccessOrder and remove erase through key_to_iterator_
\* with defined behaviour only.
THEOREM CacheCoherent == Spec => []Coherent
<1>1. Spec => []IInv
  BY InitIInv, NextIInv, PTL DEF Spec
<1>2. IInv => Coherent
  BY DEF IInv
<1>. QED  BY <1>1, <1>2, PTL

\* The cache never holds more than max_entries_ responses, in any reachable
\* state and for any capacity.
THEOREM CacheBounded == Spec => []Bounded
<1> DEFINE bound == IF MaxEntries = 0 THEN 1 ELSE MaxEntries
           BInv == IInv /\ Bounded
<1>1. bound \in Nat
  BY MaxEntriesAssumption
<1>2. ASSUME IInv, Stored(cache)' \subseteq Stored(cache), Bounded
      PROVE  Bounded'
  <2>1. IsFiniteSet(Stored(cache))
    BY <1>2, ListCoversMap DEF IInv, TypeOK, Coherent
  <2>2. /\ IsFiniteSet(Stored(cache'))
        /\ Cardinality(Stored(cache')) <= Cardinality(Stored(cache))
    BY <1>2, <2>1, FS_Subset
  <2>3. Cardinality(Stored(cache')) \in Nat /\ Cardinality(Stored(cache)) \in Nat
    BY <2>1, <2>2, FS_CardinalityType
  <2>. QED  BY <1>1, <1>2, <2>2, <2>3 DEF Bounded
<1>3. Init => BInv
  <2> SUFFICES ASSUME Init PROVE Bounded
    BY InitIInv
  <2>1. Cardinality(Stored(cache)) = 0
    BY EmptyCacheCoherent, FS_EmptySet DEF Init
  <2>. QED  BY <1>1, <2>1 DEF Bounded
<1>4. BInv /\ [Next]_vars => BInv'
  <2> SUFFICES ASSUME IInv, Bounded, [Next]_vars
               PROVE  Bounded'
    BY NextIInv
  <2>1. ASSUME NEW t \in Threads, NEW k \in Keys, Get(t, k)
        PROVE  Bounded'
    BY <2>1 DEF Get, Bounded
  <2>2. ASSUME NEW k \in Keys, NEW e \in Entries, Put(k, e)
        PROVE  Bounded'
    <3>1. Stored(cache') = Stored(MakeRoom(cache)) \cup {k}
      BY <2>2, PutCoherent DEF IInv, TypeOK, Coherent, Put
    <3>2. Cardinality(Stored(MakeRoom(cache)) \cup {k}) <= bound
      <4> HIDE DEF bound
      <4>1. bound = (IF MaxEntries = 0 THEN 1 ELSE MaxEntries)
        BY DEF bound
      <4>2. Cardinality(Stored(cache)) <= bound
        BY <4>1 DEF Bounded
      <4>. QED  BY <1>1, <4>1, <4>2, PutBounded DEF IInv, TypeOK, Coherent
    <3>. QED  BY <3>1, <3>2 DEF Bounded
  <2>3. ASSUME NEW k \in Keys, RemoveKey(k)
        PROVE  Bounded'
    <3>1. Stored(cache') = Stored(cache) \ {k}
      BY <2>3, RemoveCoherent DEF IInv, TypeOK, Coherent, RemoveKey
    <3>. QED  BY <1>2, <3>1
  <2>4. CASE Clear
    BY <1>2, <2>4, EmptyCacheCoherent DEF Clear
  <2>5. CASE UNCHANGED vars
    BY <2>5 DEF vars, Bounded
  <2>. QED  BY <2>1, <2>2, <2>3, <2>4, <2>5 DEF Next
<1>5. BInv => Bounded
  OBVIOUS
<1> HIDE DEF BInv
<1>. QED  BY <1>3, <1>4, <1>5, PTL DEF Spec

-----------------------------------------------------------------------------
(* Retention: RSpec, with the history of puts.                              *)

RInv == IInv /\ since \in [Keys -> 0 .. MaxEntries] /\ Retained /\ PositionBound

\* No put has been made at first,
LEMMA InitRInv == RInit => RInv
<1> SUFFICES ASSUME RInit PROVE RInv
  OBVIOUS
<1>1. IInv
  BY InitIInv DEF RInit
<1>2. DOMAIN cache.access_order = {}
  BY DEF RInit, Init, EmptyCache
<1>. QED
  BY <1>1, <1>2, MaxEntriesAssumption DEF RInit, RInv, Retained, PositionBound

\* and every call counts the puts as PositionBound wants.
LEMMA NextRInv == RInv /\ [RNext]_hvars => RInv'
<1> SUFFICES ASSUME RInv, [RNext]_hvars
             PROVE  RInv'
  OBVIOUS
<1>1. IInv'
  BY NextIInv DEF RInv, RNext, RGet, RPut, RRemoveKey, RClear, Next, hvars, vars
<1>2. /\ cache \in Caches
      /\ CoherentCache(cache)
      /\ since \in [Keys -> 0 .. MaxEntries]
  BY DEF RInv, IInv, TypeOK, Coherent
<1>3. \A i \in DOMAIN cache.access_order :
         /\ i \in Nat
         /\ cache.access_order[i].key \in Keys
  <2>1. cache.access_order \in Seq(Node)
    BY <1>2 DEF Caches
  <2>2. /\ DOMAIN cache.access_order = 1 .. Len(cache.access_order)
        /\ Len(cache.access_order) \in Nat
    BY <2>1, LenProperties
  <2>3. \A i \in 1 .. Len(cache.access_order) : cache.access_order[i] \in Node
    BY <2>1, ElementOfSeq
  <2>. QED  BY <2>2, <2>3 DEF Node
<1>4. ASSUME NEW t \in Threads, NEW k \in Keys, RGet(t, k)
      PROVE  RInv'
  BY <1>1, <1>4 DEF RGet, Get, RInv, Retained, PositionBound
<1>5. ASSUME NEW k \in Keys, NEW e \in Entries, RPut(k, e)
      PROVE  RInv'
  <2>1. PICK n \in FreeNodes(Insert(MakeRoom(cache), k, e), k) :
           cache' = UpdateAccessOrder(Insert(MakeRoom(cache), k, e), k, n)
    BY <1>5 DEF RPut, Put
  <2>2. since' = [x \in Keys |-> IF x = k THEN 0
                                 ELSE IF since[x] < MaxEntries THEN since[x] + 1
                                 ELSE MaxEntries]
    BY <1>5 DEF RPut
  <2>3. /\ since' \in [Keys -> 0 .. MaxEntries]
        /\ since'[k] = 0
        /\ \A x \in Keys \ {k} :
              since'[x] < MaxEntries =>
                 /\ since[x] < MaxEntries
                 /\ since'[x] = since[x] + 1
    BY <1>2, <2>2, MaxEntriesAssumption
  <2>4. Retained'
    <3> SUFFICES ASSUME NEW x \in Keys, since'[x] < MaxEntries, x # k
                 PROVE  x \in Stored(MakeRoom(cache))
      <4>1. Stored(cache') = Stored(MakeRoom(cache)) \cup {k}
        BY <1>2, <2>1, PutCoherent
      <4>. QED  BY <4>1 DEF Retained
    <3>1. x \in Stored(cache)
      BY <2>3 DEF RInv, Retained
    <3>2. CASE x \notin Stored(MakeRoom(cache))
      <4> DEFINE len == Len(cache.access_order)
      <4>1. /\ len \in DOMAIN cache.access_order
            /\ cache.access_order[len].key = x
            /\ len >= MaxEntries
        BY <1>2, <3>1, <3>2, MakeRoomCoherent
      <4> HIDE DEF len
      <4>2. len <= since[x] + 1
        BY <2>3, <4>1 DEF RInv, PositionBound
      <4>. QED  BY <1>2, <1>3, <2>3, <4>1, <4>2, MaxEntriesAssumption
    <3>. QED  BY <3>2
  <2>5. PositionBound'
    <3> SUFFICES ASSUME NEW i \in DOMAIN cache'.access_order,
                        since'[cache'.access_order[i].key] < MaxEntries
                 PROVE  i <= since'[cache'.access_order[i].key] + 1
      BY DEF PositionBound
    <3>1. \/ i = 1 /\ cache'.access_order[i].key = k
          \/ \E j \in DOMAIN cache.access_order :
                /\ cache'.access_order[i] = cache.access_order[j]
                /\ i <= j + 1
                /\ cache.access_order[j].key # k
      BY <1>2, <2>1, PutOrder
    <3>2. CASE i = 1 /\ cache'.access_order[i].key = k
      BY <2>3, <3>2
    <3>3. CASE \E j \in DOMAIN cache.access_order :
                  /\ cache'.access_order[i] = cache.access_order[j]
                  /\ i <= j + 1
                  /\ cache.access_order[j].key # k
      <4>1. PICK j \in DOMAIN cache.access_order :
               /\ cache'.access_order[i] = cache.access_order[j]
               /\ i <= j + 1
               /\ cache.access_order[j].key # k
        BY <3>3
      <4> DEFINE y == cache.access_order[j].key
      <4>2. y \in Keys \ {k} /\ since'[y] < MaxEntries
        BY <1>3, <4>1
      <4>3. j <= since[y] + 1
        BY <2>3, <4>2 DEF RInv, PositionBound
      <4>4. i \in Nat
        BY <1>1, LenProperties DEF IInv, TypeOK, Caches
      <4>5. j \in Nat /\ since[y] \in Nat
        BY <1>2, <1>3, <4>2
      <4>6. since'[y] = since[y] + 1 /\ cache'.access_order[i].key = y
        BY <2>3, <4>1, <4>2
      <4> HIDE DEF y
      <4>. QED  BY <4>1, <4>3, <4>4, <4>5, <4>6
    <3>. QED  BY <3>1, <3>2, <3>3
  <2>. QED  BY <1>1, <2>3, <2>4, <2>5 DEF RInv
<1>6. ASSUME NEW k \in Keys, RRemoveKey(k)
      PROVE  RInv'
  <2>1. /\ Stored(cache') = Stored(cache) \ {k}
        /\ cache'.access_order = Unlinked(cache, k)
    BY <1>2, <1>6, RemoveCoherent DEF RRemoveKey, RemoveKey
  <2>2. since' = [since EXCEPT ![k] = MaxEntries]
    BY <1>6 DEF RRemoveKey
  <2>3. /\ since' \in [Keys -> 0 .. MaxEntries]
        /\ since'[k] = MaxEntries
        /\ \A x \in Keys \ {k} : since'[x] = since[x]
    BY <1>2, <2>2, MaxEntriesAssumption
  <2>4. Retained'
    BY <1>2, <2>1, <2>3, MaxEntriesAssumption DEF RInv, Retained
  <2>5. PositionBound'
    <3> SUFFICES ASSUME NEW i \in DOMAIN cache'.access_order,
                        since'[cache'.access_order[i].key] < MaxEntries
                 PROVE  i <= since'[cache'.access_order[i].key] + 1
      BY DEF PositionBound
    <3>1. /\ Unlinked(cache, k) \in Seq(Node)
          /\ \A h \in 1 .. Len(Unlinked(cache, k)) :
                \E j \in 1 .. Len(cache.access_order) :
                   /\ Unlinked(cache, k)[h] = cache.access_order[j]
                   /\ h <= j
                   /\ cache.access_order[j].key # k
      BY <1>2, UnlinkedProperties DEF CoherentCache
    <3>2. /\ DOMAIN cache'.access_order = 1 .. Len(Unlinked(cache, k))
          /\ DOMAIN cache.access_order = 1 .. Len(cache.access_order)
          /\ i \in Nat
      BY <1>2, <2>1, <3>1, LenProperties DEF Caches
    <3>3. PICK j \in DOMAIN cache.access_order :
             /\ cache'.access_order[i] = cache.access_order[j]
             /\ i <= j
             /\ cache.access_order[j].key # k
      BY <2>1, <3>1, <3>2
    <3> DEFINE y == cache.access_order[j].key
    <3>4. y \in Keys \ {k} /\ since'[y] = since[y]
      BY <1>3, <2>3, <3>3
    <3>5. j <= since[y] + 1
      BY <3>3, <3>4 DEF RInv, PositionBound
    <3>6. j \in Nat /\ since[y] \in Nat
      BY <1>2, <1>3, <3>4
    <3>7. cache'.access_order[i].key = y
      BY <3>3
    <3> HIDE DEF y
    <3>. QED  BY <3>2, <3>3, <3>4, <3>5, <3>6, <3>7
  <2>. QED  BY <1>1, <2>3, <2>4, <2>5 DEF RInv
<1>7. CASE RClear
  <2>1. since' = [k \in Keys |-> MaxEntries] /\ cache' = EmptyCache
    BY <1>7 DEF RClear, Clear
  <2>2. DOMAIN cache'.access_order = {}
    BY <2>1 DEF EmptyCache
  <2>. QED
    BY <1>1, <2>1, <2>2, MaxEntriesAssumption DEF RInv, Retained, PositionBound
<1>8. CASE UNCHANGED hvars
  BY <1>1, <1>8 DEF hvars, RInv, Retained, PositionBound
<1>. QED  BY <1>4, <1>5, <1>6, <1>7, <1>8 DEF RNext

\* A response survives the next MaxEntries - 1 puts, whichever keys they store:
\* whatever put evicts was stored at least MaxEntries puts ago.
THEOREM CacheRetained == RSpec => []Retained
<1>1. RSpec => []RInv
  BY InitRInv, NextRInv, PTL DEF RSpec
<1>2. RInv => Retained
  BY DEF RInv
<1>. QED  BY <1>1, <1>2, PTL

\* A stored key moves towards the back of the list by at most one place with
\* each put of another key.
THEOREM CachePositionBound == RSpec => []PositionBound
<1>1. RSpec => []RInv
  BY InitRInv, NextRInv, PTL DEF RSpec
<1>2. RInv => PositionBound
  BY DEF RInv
<1>. QED  BY <1>1, <1>2, PTL

-----------------------------------------------------------------------------
(* The entry a get returns.                                                 *)

\* Making room leaves the other entries as they are.
LEMMA MakeRoomEntries ==
  ASSUME NEW c \in Caches, NEW k \in Stored(MakeRoom(c))
  PROVE  k \in Stored(c) /\ MakeRoom(c).cache_map[k] = c.cache_map[k]
<1>1. c.cache_map \in Maps(Entries)
  BY DEF Caches
<1>2. CASE MakeRoom(c) = c
  BY <1>2
<1>3. CASE MakeRoom(c) # c
  <2>1. c.access_order # <<>> /\ MakeRoom(c) = EvictOldest(c)
    BY <1>3 DEF MakeRoom, EvictOldest
  <2>2. PICK z : MakeRoom(c).cache_map = Erase(c.cache_map, z)
    BY <2>1 DEF EvictOldest
  <2>3. /\ DOMAIN Erase(c.cache_map, z) = DOMAIN c.cache_map \ {z}
        /\ \A x \in DOMAIN c.cache_map \ {z} :
              Erase(c.cache_map, z)[x] = c.cache_map[x]
    BY <1>1, EraseProperties
  <2>. QED  BY <2>2, <2>3 DEF Stored
<1>. QED  BY <1>2, <1>3

LInv ==
  /\ IInv
  /\ latest \in [Keys -> Entries \cup {Nullopt}]
  /\ GetReturnsLatest

\* Nothing is stored at first,
LEMMA InitLInv == RInit => LInv
<1> SUFFICES ASSUME RInit PROVE LInv
  OBVIOUS
<1>1. IInv
  BY InitIInv DEF RInit
<1>2. Stored(cache) = {}
  BY EmptyCacheCoherent DEF RInit, Init
<1>. QED  BY <1>1, <1>2 DEF RInit, LInv, GetReturnsLatest, Lookup

\* and every call leaves each stored key with its latest entry.
LEMMA NextLInv == LInv /\ [RNext]_hvars => LInv'
<1> SUFFICES ASSUME LInv, [RNext]_hvars
             PROVE  LInv'
  OBVIOUS
<1>1. IInv'
  BY NextIInv DEF LInv, RNext, RGet, RPut, RRemoveKey, RClear, Next, hvars, vars
<1>2. /\ cache \in Caches
      /\ CoherentCache(cache)
      /\ latest \in [Keys -> Entries \cup {Nullopt}]
      /\ \A x \in Keys : Lookup(cache, x) \in {latest[x], Nullopt}
  BY DEF LInv, IInv, TypeOK, Coherent, GetReturnsLatest
<1>3. ASSUME NEW t \in Threads, NEW k \in Keys, RGet(t, k)
      PROVE  LInv'
  BY <1>1, <1>2, <1>3 DEF RGet, Get, LInv, GetReturnsLatest
<1>4. ASSUME NEW k \in Keys, NEW e \in Entries, RPut(k, e)
      PROVE  LInv'
  <2> DEFINE roomy == MakeRoom(cache)
             filled == Insert(roomy, k, e)
  <2>1. PICK n \in FreeNodes(filled, k) : cache' = UpdateAccessOrder(filled, k, n)
    BY <1>4 DEF RPut, Put
  <2>2. roomy.cache_map \in Maps(Entries)
    BY <1>2, MakeRoomCoherent DEF Caches
  <2>3. cache'.cache_map = Assign(roomy.cache_map, k, e)
    <3>1. roomy \in Caches
      BY <1>2, MakeRoomCoherent
    <3>2. filled.cache_map = Assign(roomy.cache_map, k, e)
      BY <3>1 DEF Insert, Caches
    <3>. QED  BY <2>1, <3>2 DEF UpdateAccessOrder
  <2> HIDE DEF roomy, filled
  <2>4. /\ Stored(cache') = Stored(roomy) \cup {k}
        /\ cache'.cache_map[k] = e
        /\ \A x \in Stored(roomy) \ {k} : cache'.cache_map[x] = roomy.cache_map[x]
    <3> DEFINE map == roomy.cache_map
    <3>1. map \in Maps(Entries)
      BY <2>2
    <3> HIDE DEF map
    <3>2. /\ DOMAIN Assign(map, k, e) = DOMAIN map \cup {k}
          /\ Assign(map, k, e)[k] = e
          /\ \A x \in DOMAIN map \ {k} : Assign(map, k, e)[x] = map[x]
      BY <3>1, AssignProperties
    <3>. QED  BY <2>3, <3>2 DEF Stored, map
  <2>5. latest' = [latest EXCEPT ![k] = e]
    BY <1>4 DEF RPut
  <2>6. ASSUME NEW x \in Keys, x # k
        PROVE  Lookup(cache', x) \in {latest'[x], Nullopt}
    <3>1. latest'[x] = latest[x]
      BY <1>2, <2>5, <2>6
    <3>2. CASE x \in Stored(roomy)
      <4>1. x \in Stored(cache) /\ roomy.cache_map[x] = cache.cache_map[x]
        BY <1>2, <3>2, MakeRoomEntries DEF roomy
      <4>2. x \in Stored(cache') /\ cache'.cache_map[x] = roomy.cache_map[x]
        BY <2>4, <2>6, <3>2
      <4>. QED  BY <1>2, <3>1, <4>1, <4>2 DEF Lookup
    <3>3. CASE x \notin Stored(roomy)
      <4>1. x \notin Stored(cache')
        BY <2>4, <2>6, <3>3
      <4>. QED  BY <4>1 DEF Lookup
    <3>. QED  BY <3>2, <3>3
  <2>7. Lookup(cache', k) = latest'[k]
    <3>1. latest'[k] = e
      BY <1>2, <2>5
    <3>. QED  BY <2>4, <3>1 DEF Lookup
  <2>8. latest' \in [Keys -> Entries \cup {Nullopt}]
    BY <1>2, <2>5
  <2>9. GetReturnsLatest'
    BY <2>6, <2>7 DEF GetReturnsLatest
  <2>. QED  BY <1>1, <2>8, <2>9 DEF LInv
<1>5. ASSUME NEW k \in Keys, RRemoveKey(k)
      PROVE  LInv'
  <2>1. cache'.cache_map = Erase(cache.cache_map, k)
    BY <1>2, <1>5 DEF RRemoveKey, RemoveKey, EraseOrder, EraseEntry, Caches
  <2>2. cache.cache_map \in Maps(Entries)
    BY <1>2 DEF Caches
  <2>3. /\ Stored(cache') = Stored(cache) \ {k}
        /\ \A x \in Stored(cache) \ {k} : cache'.cache_map[x] = cache.cache_map[x]
    <3>1. /\ DOMAIN Erase(cache.cache_map, k) = DOMAIN cache.cache_map \ {k}
          /\ \A x \in DOMAIN cache.cache_map \ {k} :
                Erase(cache.cache_map, k)[x] = cache.cache_map[x]
      BY <2>2, EraseProperties
    <3>. QED  BY <2>1, <3>1 DEF Stored
  <2>4. latest' = [latest EXCEPT ![k] = Nullopt]
    BY <1>5 DEF RRemoveKey
  <2>5. GetReturnsLatest'
    BY <1>2, <2>3, <2>4 DEF GetReturnsLatest, Lookup
  <2>6. latest' \in [Keys -> Entries \cup {Nullopt}]
    BY <1>2, <2>4
  <2>. QED  BY <1>1, <2>5, <2>6 DEF LInv
<1>6. CASE RClear
  <2>1. Stored(cache') = {}
    BY <1>6, EmptyCacheCoherent DEF RClear, Clear
  <2>. QED  BY <1>1, <1>6, <2>1 DEF RClear, LInv, GetReturnsLatest, Lookup
<1>7. CASE UNCHANGED hvars
  BY <1>1, <1>2, <1>7 DEF hvars, LInv, GetReturnsLatest
<1>. QED  BY <1>3, <1>4, <1>5, <1>6, <1>7 DEF RNext

\* A get returns the response stored last under its key, or none, in every
\* reachable state: neither eviction nor removal mixes up the entries.
THEOREM CacheGetReturnsLatest == RSpec => []GetReturnsLatest
<1>1. RSpec => []LInv
  BY InitLInv, NextLInv, PTL DEF RSpec
<1>2. LInv => GetReturnsLatest
  BY DEF LInv
<1>. QED  BY <1>1, <1>2, PTL

\* The types hold of the histories too, in every reachable state.
THEOREM CacheHistoryTypeOK == RSpec => []RTypeOK
<1>1. RSpec => [](RInv /\ LInv)
  BY InitRInv, NextRInv, InitLInv, NextLInv, PTL DEF RSpec
<1>2. RInv /\ LInv => RTypeOK
  BY DEF RInv, LInv, IInv, RTypeOK
<1>. QED  BY <1>1, <1>2, PTL-----------------------------------------------------------------------------
(* The containers implement the one list of CacheContract.                  *)

\* The list a list of nodes and a map amount to.
Paired(order, map) ==
  [i \in DOMAIN order |-> [key |-> order[i].key, entry |-> map[order[i].key]]]

\* The abstract list is the access order with the map's entries.
LEMMA ContentsPaired == Contents = Paired(cache.access_order, cache.cache_map)
BY DEF Contents, Paired

Pairs(map) == [key : Keys, entry : {map[k] : k \in Keys}]

\* What that list has at each place.
LEMMA PairedElements ==
  ASSUME NEW order \in Seq(Node), NEW map
  PROVE  /\ Paired(order, map) \in Seq(Pairs(map))
         /\ Len(Paired(order, map)) = Len(order)
         /\ \A i \in 1 .. Len(order) :
               /\ Paired(order, map)[i].key = order[i].key
               /\ Paired(order, map)[i]
                    = [key |-> order[i].key, entry |-> map[order[i].key]]
<1> DEFINE list == Paired(order, map)
           n == Len(order)
<1>1. n \in Nat /\ DOMAIN order = 1 .. n /\ \A i \in 1 .. n : order[i].key \in Keys
  <2>1. n \in Nat /\ DOMAIN order = 1 .. n
    BY LenProperties
  <2>2. \A i \in 1 .. n : order[i] \in Node
    BY ElementOfSeq
  <2>. QED  BY <2>1, <2>2 DEF Node
<1>2. list = [i \in 1 .. n |-> [key |-> order[i].key, entry |-> map[order[i].key]]]
  BY <1>1 DEF Paired
<1>. HIDE DEF list, n
<1>3. \A i \in 1 .. n : [key |-> order[i].key, entry |-> map[order[i].key]] \in Pairs(map)
  BY <1>1 DEF Pairs
<1>4. list \in [1 .. n -> Pairs(map)]
  BY <1>2, <1>3
<1>5. list \in Seq(Pairs(map)) /\ Len(list) = n
  BY <1>1, <1>4, IsASeq, LenProperties
<1>. QED  BY <1>2, <1>5 DEF list, n

\* Two lists of nodes that agree, and whose maps agree on their keys, amount to
\* the same list.
LEMMA SameSequence ==
  ASSUME NEW S, NEW T, NEW s \in Seq(S), NEW t \in Seq(T), Len(s) = Len(t),
         \A i \in 1 .. Len(s) : s[i] = t[i]
  PROVE  s = t
<1>1. s \in Seq(S \cup T) /\ t \in Seq(S \cup T)
  BY SeqMonotonic
<1>. QED  BY <1>1, SeqEqual

\* Where a key has its node, and what unlinking makes of the list.
LEMMA UnlinkedAt ==
  ASSUME NEW c \in Caches, ListIndexed(c), NEW k \in Keys
  PROVE  \/ /\ Unlinked(c, k) = c.access_order
            /\ \A j \in 1 .. Len(c.access_order) : c.access_order[j].key # k
         \/ \E p \in 1 .. Len(c.access_order) :
               /\ Unlinked(c, k) = RemoveAt(c.access_order, p)
               /\ \A j \in 1 .. Len(c.access_order) : c.access_order[j].key = k <=> j = p
<1> DEFINE order == c.access_order
           iter == c.key_to_iterator
<1>1. order \in Seq(Node) /\ Len(order) \in Nat /\ DOMAIN order = 1 .. Len(order)
  BY LenProperties DEF Caches
<1>2. \A i \in 1 .. Len(order) :
         order[i].key \in DOMAIN iter /\ iter[order[i].key] = order[i].id
  BY <1>1 DEF ListIndexed, NodesIndexed
<1>3. \A i, j \in 1 .. Len(order) : order[i].id = order[j].id => i = j
  BY <1>1 DEF ListIndexed, NodesDistinct
<1>4. CASE k \notin DOMAIN iter
  <2>1. Unlinked(c, k) = order
    BY <1>4 DEF Unlinked
  <2>2. \A j \in 1 .. Len(order) : order[j].key # k
    BY <1>2, <1>4
  <2>. QED  BY <2>1, <2>2
<1>5. CASE k \in DOMAIN iter
  <2>1. PICK p \in 1 .. Len(order) : order[p] = [id |-> iter[k], key |-> k]
    BY <1>1, <1>5 DEF ListIndexed, IteratorsValid
  <2>2. order[p].id = iter[k] /\ order[p].key = k
    BY <2>1
  <2>3. Unlinked(c, k) = ListErase(order, order[p].id)
    BY <1>5, <2>2 DEF Unlinked
  <2>4. Unlinked(c, k) = RemoveAt(order, p)
    BY <1>1, <1>3, <2>3, ListEraseAt
  <2>. HIDE DEF order, iter
  <2>5. \A j \in 1 .. Len(order) : order[j].key = k <=> j = p
    BY <1>2, <1>3, <2>2
  <2>. QED  BY <2>4, <2>5 DEF order
<1>. QED  BY <1>4, <1>5

\* Removing a key from the contract's list: none to remove, or the one there is.
LEMMA SameRemoveFirstMatch ==
  ASSUME NEW list, NEW k
  PROVE  Contract!Without(list, k) = IF \E i \in 1 .. Len(list) : list[i].key = k
                                     THEN RemoveAt(list, Min({i \in 1 .. Len(list) : list[i].key = k}))
                                     ELSE list
<1> DEFINE I == {i \in 1 .. Len(list) : list[i].key = k}
<1>1. \A i : Contract!RemoveAt(list, i) = RemoveAt(list, i)
  BY DEF Contract!RemoveAt, RemoveAt
<1>2. Contract!Min(I) = Min(I)
  BY DEF Contract!Min, Min
<1>3. I # {} <=> \E i \in 1 .. Len(list) : list[i].key = k
  OBVIOUS
<1>4. Contract!SelectInSeq(list, LAMBDA r : r.key = k) = IF I # {} THEN Min(I) ELSE 0
  BY <1>2 DEF Contract!SelectInSeq
<1>5. Contract!Without(list, k) = IF \E i \in 1 .. Len(list) : list[i].key = k
                                  THEN RemoveAt(list, Contract!SelectInSeq(list, LAMBDA r : r.key = k))
                                  ELSE list
  BY <1>1 DEF Contract!Without, Contract!RemoveFirstMatch
<1>. QED  BY <1>3, <1>4, <1>5

\* Taking out a key that is not in the list changes nothing.
LEMMA WithoutAbsent ==
  ASSUME NEW list, NEW k, \A j \in 1 .. Len(list) : list[j].key # k
  PROVE  Contract!Without(list, k) = list
BY SameRemoveFirstMatch

\* Taking out a key removes its one place.
LEMMA WithoutAt ==
  ASSUME NEW list, NEW k, NEW p \in 1 .. Len(list),
         \A j \in 1 .. Len(list) : list[j].key = k <=> j = p
  PROVE  Contract!Without(list, k) = RemoveAt(list, p)
<1> DEFINE I == {i \in 1 .. Len(list) : list[i].key = k}
<1>1. I = {p}
  OBVIOUS
<1>2. p \in Int /\ \E i \in 1 .. Len(list) : list[i].key = k
  OBVIOUS
<1>3. Min(I) = p
  BY <1>1, <1>2 DEF Min
<1>. QED  BY <1>2, <1>3, SameRemoveFirstMatch

\* Unlinking a node takes its response out of the list, whatever the map then
\* says of its key.
LEMMA PairedUnlinked ==
  ASSUME NEW c \in Caches, ListIndexed(c), NEW k \in Keys, NEW map,
         \A i \in 1 .. Len(c.access_order) :
            c.access_order[i].key # k =>
               map[c.access_order[i].key] = c.cache_map[c.access_order[i].key]
  PROVE  Paired(Unlinked(c, k), map)
           = Contract!Without(Paired(c.access_order, c.cache_map), k)
<1> DEFINE order == c.access_order
           rest == Unlinked(c, k)
           old == c.cache_map
           list == Paired(order, old)
           left == Paired(rest, map)
<1>1. order \in Seq(Node) /\ Len(order) \in Nat
  BY LenProperties DEF Caches
<1>2. rest \in Seq(Node)
  BY UnlinkedProperties
<1>3. \A i \in 1 .. Len(order) : order[i].key # k => map[order[i].key] = old[order[i].key]
  OBVIOUS
<1>4. \/ rest = order /\ \A j \in 1 .. Len(order) : order[j].key # k
      \/ \E p \in 1 .. Len(order) :
            /\ rest = RemoveAt(order, p)
            /\ \A j \in 1 .. Len(order) : order[j].key = k <=> j = p
  BY UnlinkedAt
<1>. HIDE DEF order, rest, old
<1>5. list \in Seq(Pairs(old)) /\ Len(list) = Len(order)
  BY <1>1, PairedElements
<1>6. \A i \in 1 .. Len(order) :
         /\ list[i].key = order[i].key
         /\ list[i] = [key |-> order[i].key, entry |-> old[order[i].key]]
  BY <1>1, PairedElements
<1>7. left \in Seq(Pairs(map)) /\ Len(left) = Len(rest)
  BY <1>2, PairedElements
<1>8. \A i \in 1 .. Len(rest) :
         left[i] = [key |-> rest[i].key, entry |-> map[rest[i].key]]
  BY <1>2, PairedElements
<1>. HIDE DEF list, left
<1>9. CASE rest = order /\ \A j \in 1 .. Len(order) : order[j].key # k
  <2>1. \A j \in 1 .. Len(list) : list[j].key # k
    BY <1>5, <1>6, <1>9
  <2>2. Contract!Without(list, k) = list
    BY <2>1, WithoutAbsent
  <2>3. ASSUME NEW j \in 1 .. Len(left) PROVE left[j] = list[j]
    <3>1. j \in 1 .. Len(order) /\ rest[j] = order[j]
      BY <1>7, <1>9
    <3>2. left[j] = [key |-> order[j].key, entry |-> map[order[j].key]]
      BY <1>7, <1>8, <3>1
    <3>3. list[j] = [key |-> order[j].key, entry |-> old[order[j].key]]
      BY <1>6, <3>1
    <3>. QED  BY <1>3, <1>9, <3>1, <3>2, <3>3
  <2>4. left = list
    BY <1>5, <1>7, <1>9, <2>3, SameSequence
  <2>. QED  BY <2>2, <2>4 DEF left, list, rest, order, old
<1>10. ASSUME NEW p \in 1 .. Len(order), rest = RemoveAt(order, p),
              \A j \in 1 .. Len(order) : order[j].key = k <=> j = p
       PROVE  left = Contract!Without(list, k)
  <2>1. \A j \in 1 .. Len(list) : list[j].key = k <=> j = p
    BY <1>5, <1>6, <1>10
  <2>2. Contract!Without(list, k) = RemoveAt(list, p)
    BY <1>5, <2>1, WithoutAt
  <2>3. /\ RemoveAt(list, p) \in Seq(Pairs(old))
        /\ Len(RemoveAt(list, p)) = Len(order) - 1
        /\ \A j \in 1 .. Len(order) - 1 :
              RemoveAt(list, p)[j] = IF j < p THEN list[j] ELSE list[j + 1]
    <3>1. list \in Seq(Pairs(old)) /\ p \in 1 .. Len(list)
      BY <1>5
    <3>. QED  BY ONLY <1>5, <3>1, RemoveAtProperties
  <2>5. Len(rest) = Len(order) - 1
    BY <1>1, <1>10, RemoveAtProperties
  <2>6. \A j \in 1 .. Len(order) - 1 :
           rest[j] = IF j < p THEN order[j] ELSE order[j + 1]
    BY <1>1, <1>10, RemoveAtProperties
  <2>7. ASSUME NEW j \in 1 .. Len(order) - 1
        PROVE  left[j] = RemoveAt(list, p)[j]
    <3> DEFINE i == IF j < p THEN j ELSE j + 1
    <3>1. i \in 1 .. Len(order) /\ i # p
      BY <1>1
    <3>2. rest[j] = order[i] /\ RemoveAt(list, p)[j] = list[i]
      BY <2>3, <2>6
    <3>. HIDE DEF i
    <3>3. map[order[i].key] = old[order[i].key]
      BY <1>3, <1>10, <3>1
    <3>4. left[j] = [key |-> order[i].key, entry |-> map[order[i].key]]
      BY <1>8, <2>5, <3>2
    <3>5. list[i] = [key |-> order[i].key, entry |-> old[order[i].key]]
      BY <1>6, <3>1
    <3>. QED  BY <3>2, <3>3, <3>4, <3>5
  <2>8. left = RemoveAt(list, p)
    BY <1>7, <2>3, <2>5, <2>7, SameSequence
  <2>. QED  BY <2>2, <2>8
<1>. QED  BY <1>4, <1>9, <1>10 DEF left, list, rest, order, old

\* Giving up the last node gives up the last response.
LEMMA PairedFront ==
  ASSUME NEW order \in Seq(Node), order # <<>>, NEW map, NEW map2,
         \A i \in 1 .. Len(order) - 1 : map2[order[i].key] = map[order[i].key]
  PROVE  Paired(Front(order), map2) = Front(Paired(order, map))
<1> DEFINE list == Paired(order, map)
           left == Paired(Front(order), map2)
<1>1. /\ Front(order) \in Seq(Node) /\ Len(order) \in Nat \ {0}
      /\ Len(Front(order)) = Len(order) - 1
      /\ \A j \in 1 .. Len(order) - 1 : Front(order)[j] = order[j]
  BY FrontProperties
<1>2. list \in Seq(Pairs(map)) /\ Len(list) = Len(order)
  BY PairedElements
<1>3. \A i \in 1 .. Len(order) :
         list[i] = [key |-> order[i].key, entry |-> map[order[i].key]]
  BY PairedElements
<1>4. left \in Seq(Pairs(map2)) /\ Len(left) = Len(order) - 1
  BY <1>1, PairedElements
<1>5. \A i \in 1 .. Len(order) - 1 :
         left[i] = [key |-> Front(order)[i].key, entry |-> map2[Front(order)[i].key]]
  BY <1>1, PairedElements
<1>. HIDE DEF list, left
<1>6. list # <<>>
  BY <1>1, <1>2, EmptySeq
<1>7. /\ Front(list) \in Seq(Pairs(map)) /\ Len(Front(list)) = Len(order) - 1
      /\ \A j \in 1 .. Len(order) - 1 : Front(list)[j] = list[j]
  BY <1>2, <1>6, FrontProperties
<1>8. ASSUME NEW j \in 1 .. Len(order) - 1
      PROVE  left[j] = Front(list)[j]
  <2>1. j \in 1 .. Len(order)
    BY <1>1
  <2>2. list[j] = [key |-> order[j].key, entry |-> map[order[j].key]]
    BY <1>3, <2>1
  <2>3. left[j] = [key |-> order[j].key, entry |-> map2[order[j].key]]
    BY <1>1, <1>5
  <2>. QED  BY <1>7, <2>2, <2>3
<1>. QED  BY <1>4, <1>7, <1>8, SameSequence DEF list, left

\* A node in front is a response in front.
LEMMA PairedPushFront ==
  ASSUME NEW rest \in Seq(Node), NEW node \in Node, NEW map
  PROVE  Paired(<<node>> \o rest, map)
           = <<[key |-> node.key, entry |-> map[node.key]]>> \o Paired(rest, map)
<1> DEFINE order == <<node>> \o rest
           first == [key |-> node.key, entry |-> map[node.key]]
           list == Paired(rest, map)
           left == Paired(order, map)
<1>1. /\ order \in Seq(Node) /\ Len(order) = Len(rest) + 1 /\ order[1] = node
      /\ \A j \in 1 .. Len(rest) : order[j + 1] = rest[j]
  BY PushFrontProperties
<1>2. Len(rest) \in Nat /\ first \in Pairs(map)
  BY LenProperties DEF Node, Pairs
<1>. HIDE DEF order
<1>3. list \in Seq(Pairs(map)) /\ Len(list) = Len(rest)
  BY PairedElements
<1>4. \A i \in 1 .. Len(rest) :
         list[i] = [key |-> rest[i].key, entry |-> map[rest[i].key]]
  BY PairedElements
<1>5. left \in Seq(Pairs(map)) /\ Len(left) = Len(rest) + 1
  BY <1>1, PairedElements
<1>6. \A i \in 1 .. Len(rest) + 1 :
         left[i] = [key |-> order[i].key, entry |-> map[order[i].key]]
  BY <1>1, PairedElements
<1>. HIDE DEF list, left
<1>7. /\ <<first>> \o list \in Seq(Pairs(map)) /\ Len(<<first>> \o list) = Len(rest) + 1
      /\ (<<first>> \o list)[1] = first
      /\ \A j \in 1 .. Len(rest) : (<<first>> \o list)[j + 1] = list[j]
  <2>. HIDE DEF first
  <2>. QED  BY <1>2, <1>3, PushFrontProperties
<1>8. ASSUME NEW i \in 1 .. Len(rest) + 1
      PROVE  left[i] = (<<first>> \o list)[i]
  <2>1. CASE i = 1
    <3>1. left[1] = first
      BY <1>1, <1>2, <1>6
    <3>. QED  BY <1>7, <2>1, <3>1
  <2>2. CASE i # 1
    <3>1. i - 1 \in 1 .. Len(rest) /\ (i - 1) + 1 = i
      BY <1>2, <2>2
    <3>. HIDE DEF first
    <3>2. order[i] = rest[i - 1] /\ (<<first>> \o list)[i] = list[i - 1]
      BY <1>1, <1>7, <3>1
    <3>3. left[i] = [key |-> rest[i - 1].key, entry |-> map[rest[i - 1].key]]
      BY <1>6, <3>2
    <3>. QED  BY <1>4, <3>1, <3>2, <3>3
  <2>. QED  BY <2>1, <2>2
<1>. HIDE DEF first
<1>9. left = <<first>> \o list
  BY <1>5, <1>7, <1>8, SameSequence
<1>. QED  BY <1>9 DEF left, list, order, first

\* put on the containers is put on the list: the last response gives way at
\* capacity, the old response under the key is taken out, the new one is first.
LEMMA PutPaired ==
  ASSUME NEW c \in Caches, CoherentCache(c), NEW k \in Keys, NEW e \in Entries,
         NEW n \in FreeNodes(Insert(MakeRoom(c), k, e), k)
  PROVE  LET after == UpdateAccessOrder(Insert(MakeRoom(c), k, e), k, n)
             list == Paired(c.access_order, c.cache_map)
             kept == IF Len(list) >= MaxEntries /\ list # <<>> THEN Contract!Front(list)
                     ELSE list
         IN  Paired(after.access_order, after.cache_map)
               = <<[key |-> k, entry |-> e]>> \o Contract!Without(kept, k)
<1> DEFINE roomy == MakeRoom(c)
           filled == Insert(roomy, k, e)
           rest == Unlinked(filled, k)
           node == [id |-> n, key |-> k]
           list == Paired(c.access_order, c.cache_map)
           kept == IF Len(list) >= MaxEntries /\ list # <<>> THEN Contract!Front(list) ELSE list
<1>1. roomy \in Caches /\ CoherentCache(roomy)
  BY MakeRoomCoherent
<1>2. /\ ListIndexed(c) /\ c.access_order \in Seq(Node)
      /\ Cardinality(Stored(c)) = Len(c.access_order)
  BY ListCoversMap DEF CoherentCache, Caches
<1>3. kept = Paired(roomy.access_order, roomy.cache_map)
  <2>1. Len(list) = Len(c.access_order) /\ list \in Seq(Pairs(c.cache_map))
    BY <1>2, PairedElements
  <2>2. list # <<>> <=> c.access_order # <<>>
    BY <1>2, <2>1, EmptySeq
  <2>3. CASE Len(list) >= MaxEntries /\ list # <<>>
    <3>1. roomy = EvictOldest(c) /\ c.access_order # <<>>
      BY <1>2, <2>1, <2>2, <2>3 DEF MakeRoom
    <3>2. /\ Stored(roomy) = DOMAIN roomy.key_to_iterator
          /\ \A x \in Stored(roomy) : roomy.cache_map[x] = c.cache_map[x]
          /\ roomy.access_order = Front(c.access_order)
      BY <1>1, <1>2, <3>1, EvictOldestProperties DEF CoherentCache, SameKeys
    <3>3. /\ Len(roomy.access_order) = Len(c.access_order) - 1
          /\ \A j \in 1 .. Len(c.access_order) - 1 :
                roomy.access_order[j] = c.access_order[j]
      BY <1>2, <3>1, <3>2, FrontProperties
    <3>4. \A i \in DOMAIN roomy.access_order : roomy.access_order[i].key \in Stored(roomy)
      BY <1>1, <3>2 DEF CoherentCache, ListIndexed, NodesIndexed
    <3>5. DOMAIN roomy.access_order = 1 .. Len(roomy.access_order)
      BY <1>1, LenProperties DEF Caches
    <3>6. \A i \in 1 .. Len(c.access_order) - 1 :
             roomy.cache_map[c.access_order[i].key] = c.cache_map[c.access_order[i].key]
      <4>. HIDE DEF roomy
      <4>. QED  BY <3>2, <3>3, <3>4, <3>5
    <3>7. Paired(Front(c.access_order), roomy.cache_map) = Front(list)
      <4>. HIDE DEF roomy
      <4>. QED  BY <1>2, <3>1, <3>6, PairedFront
    <3>8. Contract!Front(list) = Front(list)
      BY DEF Contract!Front, Front
    <3>. QED  BY <2>3, <3>2, <3>7, <3>8
  <2>4. CASE ~ (Len(list) >= MaxEntries /\ list # <<>>)
    <3>1. roomy = c
      BY <1>2, <2>1, <2>2, <2>4 DEF MakeRoom, EvictOldest
    <3>. QED  BY <2>4, <3>1
  <2>. QED  BY <2>3, <2>4
<1>4. /\ filled \in Caches /\ ListIndexed(filled)
      /\ filled.access_order = roomy.access_order
      /\ filled.key_to_iterator = roomy.key_to_iterator
  BY <1>1, InsertIndexed DEF CoherentCache
<1>5. rest = Unlinked(roomy, k)
  BY <1>4 DEF Unlinked
<1>6. /\ filled.cache_map = Assign(roomy.cache_map, k, e)
      /\ roomy.cache_map \in Maps(Entries)
  BY <1>1 DEF Insert, Caches
<1>7. /\ filled.cache_map[k] = e
      /\ \A x \in Stored(roomy) \ {k} : filled.cache_map[x] = roomy.cache_map[x]
  <2> DEFINE old == roomy.cache_map
  <2>1. old \in Maps(Entries)
    BY <1>6
  <2>2. Stored(roomy) = DOMAIN old
    BY DEF Stored
  <2>3. filled.cache_map = Assign(old, k, e)
    BY <1>6
  <2>. HIDE DEF old, filled, roomy
  <2>4. /\ Assign(old, k, e)[k] = e
        /\ \A x \in DOMAIN old \ {k} : Assign(old, k, e)[x] = old[x]
    <3>1. Assign(old, k, e) = [x \in DOMAIN old \cup {k} |-> IF x = k THEN e ELSE old[x]]
      BY Zenon DEF Assign
    <3>. QED  BY ONLY <3>1
  <2>5. \A x \in Stored(roomy) \ {k} : filled.cache_map[x] = old[x]
    BY <2>2, <2>3, <2>4
  <2>. QED  BY <2>3, <2>4, <2>5 DEF old
<1>8. \A i \in 1 .. Len(roomy.access_order) :
         roomy.access_order[i].key # k =>
            filled.cache_map[roomy.access_order[i].key]
              = roomy.cache_map[roomy.access_order[i].key]
  <2>1. DOMAIN roomy.access_order = 1 .. Len(roomy.access_order)
    BY <1>1, LenProperties DEF Caches
  <2>2. \A i \in 1 .. Len(roomy.access_order) : roomy.access_order[i].key \in Stored(roomy)
    BY <1>1, <2>1 DEF CoherentCache, ListIndexed, NodesIndexed, SameKeys
  <2>. HIDE DEF roomy, filled
  <2>. QED  BY <1>7, <2>2
<1>9. Paired(rest, filled.cache_map) = Contract!Without(kept, k)
  <2>1. ListIndexed(roomy)
    BY <1>1 DEF CoherentCache
  <2>. HIDE DEF roomy, filled, rest, kept
  <2>. QED  BY <1>1, <1>3, <1>5, <1>8, <2>1, PairedUnlinked
<1>10. rest \in Seq(Node) /\ node \in Node
  <2>1. n \in Nodes
    BY DEF FreeNodes
  <2>. QED  BY <1>4, <2>1, UnlinkedProperties DEF Node
<1>11. /\ UpdateAccessOrder(filled, k, n).access_order = <<node>> \o rest
       /\ UpdateAccessOrder(filled, k, n).cache_map = filled.cache_map
  BY DEF UpdateAccessOrder
<1>12. Paired(<<node>> \o rest, filled.cache_map)
         = <<[key |-> k, entry |-> filled.cache_map[k]]>> \o Paired(rest, filled.cache_map)
  <2>1. node.key = k
    OBVIOUS
  <2>. HIDE DEF node, rest, filled
  <2>2. Paired(<<node>> \o rest, filled.cache_map)
          = <<[key |-> node.key, entry |-> filled.cache_map[node.key]]>>
              \o Paired(rest, filled.cache_map)
    BY <1>10, PairedPushFront
  <2>. QED  BY <2>1, <2>2
<1>. HIDE DEF rest, filled, node, kept
<1>. QED  BY <1>7, <1>9, <1>11, <1>12 DEF filled, kept

\* What get returns is the response under the key in the list.
LEMMA LookupPaired ==
  ASSUME TypeOK, Coherent, NEW k \in Keys
  PROVE  Lookup(cache, k) = Contract!Newest(k)
<1> DEFINE order == cache.access_order
           At(i) == i \in DOMAIN Contents /\ Contents[i].key = k
<1>1. /\ order \in Seq(Node) /\ DOMAIN order = 1 .. Len(order)
      /\ Stored(cache) = DOMAIN cache.key_to_iterator
  BY LenProperties DEF TypeOK, Caches, Coherent, CoherentCache, SameKeys
<1>2. /\ DOMAIN Contents = DOMAIN order
      /\ \A i \in DOMAIN order : /\ Contents[i].key = order[i].key
                                 /\ Contents[i].entry = cache.cache_map[order[i].key]
  BY DEF Contents
<1>3. CASE k \in Stored(cache)
  <2>1. PICK p \in DOMAIN order : order[p] = [id |-> cache.key_to_iterator[k], key |-> k]
    BY <1>1, <1>3 DEF Coherent, CoherentCache, ListIndexed, IteratorsValid
  <2>2. order[p].key = k
    BY <2>1
  <2>. HIDE DEF order
  <2>3. \E i \in DOMAIN Contents : Contents[i].key = k
    BY <1>2, <2>2
  <2> DEFINE chosen == CHOOSE i \in DOMAIN Contents : Contents[i].key = k
  <2>4. chosen \in DOMAIN Contents /\ Contents[chosen].key = k
    BY <2>3
  <2>5. Contract!Newest(k) = Contents[chosen].entry
    BY <2>3 DEF Contract!Newest
  <2>6. Contents[chosen].entry = cache.cache_map[k]
    <3>. HIDE DEF chosen
    <3>. QED  BY <1>2, <2>4
  <2>. QED  BY <1>3, <2>5, <2>6 DEF Lookup
<1>4. CASE k \notin Stored(cache)
  <2>1. \A i \in DOMAIN order : order[i].key \in Stored(cache)
    BY <1>1 DEF Coherent, CoherentCache, ListIndexed, NodesIndexed
  <2>. HIDE DEF order
  <2>2. ~ \E i \in DOMAIN Contents : Contents[i].key = k
    BY <1>2, <1>4, <2>1
  <2>. QED  BY <1>4, <2>2 DEF Lookup, Contract!Newest
<1>. QED  BY <1>3, <1>4

\* An empty cache is the empty list.
LEMMA EmptyContents ==
  ASSUME cache = EmptyCache
  PROVE  Contents = <<>>
<1>1. cache.access_order = <<>>
  BY DEF EmptyCache
<1>2. DOMAIN cache.access_order = {}
  BY <1>1
<1>. QED  BY <1>2 DEF Contents

\* Every member function of the class is the operation of the contract.
LEMMA NextImplements == IInv /\ [Next]_vars => [Contract!Next]_Contract!vars
<1> SUFFICES ASSUME IInv, [Next]_vars
             PROVE  Contract!Next \/ UNCHANGED Contract!vars
  OBVIOUS
<1>1. cache \in Caches /\ CoherentCache(cache)
  BY DEF IInv, TypeOK, Coherent
<1>2. ASSUME NEW t \in Threads, NEW k \in Keys, Get(t, k)
      PROVE  Contract!Get(t, k)
  <2>1. Contents' = Contents
    BY <1>2 DEF Get, Contents
  <2>. QED  BY <1>2, <2>1, LookupPaired DEF IInv, Get, Contract!Get
<1>3. ASSUME NEW k \in Keys, NEW e \in Entries, Put(k, e)
      PROVE  Contract!Put(k, e)
  <2>1. PICK n \in FreeNodes(Insert(MakeRoom(cache), k, e), k) :
           cache' = UpdateAccessOrder(Insert(MakeRoom(cache), k, e), k, n)
    BY <1>3 DEF Put
  <2>2. Contents' = Paired(cache'.access_order, cache'.cache_map)
    BY DEF Contents, Paired
  <2> DEFINE kept == IF Len(Contents) >= MaxEntries /\ Contents # <<>>
                     THEN Contract!Front(Contents) ELSE Contents
  <2>3. Contents' = <<[key |-> k, entry |-> e]>> \o Contract!Without(kept, k)
    <3>1. Contents = Paired(cache.access_order, cache.cache_map)
      BY ContentsPaired
    <3>. QED  BY <1>1, <2>1, <2>2, <3>1, PutPaired
  <2>4. got' = got
    BY <1>3 DEF Put
  <2>. QED  BY <2>3, <2>4 DEF Contract!Put
<1>4. ASSUME NEW k \in Keys, RemoveKey(k)
      PROVE  Contract!RemoveKey(k)
  <2> DEFINE half == EraseEntry(cache, k)
             after == EraseOrder(half, k)
  <2>1. cache' = after /\ got' = got
    BY <1>4 DEF RemoveKey
  <2>2. /\ half \in Caches /\ ListIndexed(half)
        /\ half.access_order = cache.access_order
        /\ half.key_to_iterator = cache.key_to_iterator
    BY <1>1, EraseEntryIndexed DEF CoherentCache
  <2>3. /\ after.access_order = Unlinked(cache, k)
        /\ after.cache_map = Erase(cache.cache_map, k)
    BY <2>2 DEF EraseOrder, EraseEntry, Unlinked, Caches
  <2>4. \A x \in Stored(cache) \ {k} : after.cache_map[x] = cache.cache_map[x]
    <3> DEFINE old == cache.cache_map
    <3>1. old \in Maps(Entries)
      BY <1>1 DEF Caches
    <3>2. Stored(cache) = DOMAIN old /\ after.cache_map = Erase(old, k)
      BY <2>3 DEF Stored
    <3>. HIDE DEF old
    <3>3. \A x \in DOMAIN old \ {k} : Erase(old, k)[x] = old[x]
      BY <3>1, EraseProperties
    <3>. HIDE DEF after, half
    <3>4. \A x \in Stored(cache) \ {k} : after.cache_map[x] = old[x]
      BY <3>2, <3>3
    <3>. QED  BY <3>4 DEF old
  <2>5. \A i \in 1 .. Len(cache.access_order) :
           cache.access_order[i].key \in Stored(cache)
    <3>1. DOMAIN cache.access_order = 1 .. Len(cache.access_order)
      BY <1>1, LenProperties DEF Caches
    <3>. QED
      BY <1>1, <3>1 DEF CoherentCache, ListIndexed, NodesIndexed, SameKeys
  <2>. HIDE DEF after, half
  <2>6. \A i \in 1 .. Len(cache.access_order) :
           cache.access_order[i].key # k =>
              after.cache_map[cache.access_order[i].key]
                = cache.cache_map[cache.access_order[i].key]
    BY <2>4, <2>5
  <2>7. Paired(Unlinked(cache, k), after.cache_map)
          = Contract!Without(Paired(cache.access_order, cache.cache_map), k)
    BY <1>1, <2>6, PairedUnlinked DEF CoherentCache
  <2>8. Contents' = Paired(Unlinked(cache, k), after.cache_map)
    BY <2>1, <2>3 DEF Contents, Paired
  <2>. QED  BY <2>1, <2>7, <2>8, ContentsPaired DEF Contract!RemoveKey
<1>5. CASE Clear
  <2>1. cache' = EmptyCache /\ got' = got
    BY <1>5 DEF Clear
  <2>2. DOMAIN cache'.access_order = {}
    BY <2>1 DEF EmptyCache
  <2>3. Contents' = <<>>
    BY <2>2 DEF Contents
  <2>. QED  BY <2>1, <2>3 DEF Contract!Next, Contract!Clear
<1>6. CASE UNCHANGED vars
  BY <1>6 DEF vars, Contract!vars, Contents
<1>. QED  BY <1>2, <1>3, <1>4, <1>5, <1>6 DEF Next, Contract!Next

\* Map, list and iterators together behave as one list of responses ordered by
\* their last put: for any keys, any capacity and any allocator no get, put,
\* eviction or removal shows that there are three containers.
THEOREM CacheImplementsContract == Spec => ImplementsContract
<1>1. Init => Contract!Init
  BY EmptyContents DEF Init, Contract!Init
<1>2. Spec => []IInv
  BY InitIInv, NextIInv, PTL DEF Spec
<1>. QED  BY <1>1, <1>2, NextImplements, PTL DEF Spec, ImplementsContract, Contract!Spec
=============================================================================
