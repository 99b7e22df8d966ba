-------------------------- MODULE SharedCacheProofs --------------------------
(***************************************************************************)
(* Class Cache under cache_mutex_, for any number of threads and calls and *)
(* any keys, entries, allocator and capacity: the mutex excludes, nobody   *)
(* sees the containers halfway through a change, and the calls amount to   *)
(* the atomic member functions of Cache.                                   *)
(*                                                                         *)
(* The inductive invariant says who holds the mutex (Mutex), that a body   *)
(* runs on the call it belongs to (CallMatches), and where the containers  *)
(* stand with respect to the last finished body (Progress, Settled).  A    *)
(* step of the writer then concerns no other thread, because no other one  *)
(* is in a body.                                                           *)
(***************************************************************************)
EXTENDS SharedCacheHistory, CacheOpsProofs

GetCalls == [op : {"get"}, key : Keys]
PutCalls == [op : {"put"}, key : Keys, entry : Entries]
RemoveCalls == [op : {"remove"}, key : Keys]
ClearCalls == [op : {"clear"}]

\* readers and writer are exactly the threads in a body, and a writer is alone.
Mutex ==
  /\ readers = {t \in Threads : pc[t] \in Reading}
  /\ \A t \in Threads : pc[t] \in Writing <=> writer = t
  /\ writer # NoThread => readers = {}

CallMatches ==
  \A t \in Threads :
     /\ pc[t] \in {"lock_shared", "find"} => call[t] \in GetCalls
     /\ pc[t] = "lock" => call[t] \in PutCalls \cup RemoveCalls \cup ClearCalls
     /\ pc[t] \in {"evict", "insert", "order"} => call[t] \in PutCalls
     /\ pc[t] \in {"erase", "erase_order"} => call[t] \in RemoveCalls

Settled ==
  /\ committed \in Caches
  /\ CoherentCache(committed)
  /\ writer = NoThread => cache = committed

HInv == TypeOK /\ Mutex /\ CallMatches /\ Settled /\ Progress

-----------------------------------------------------------------------------
(* Steps of one thread.                                                     *)

LEMMA CallKinds ==
  Calls = GetCalls \cup PutCalls \cup RemoveCalls \cup ClearCalls
BY DEF Calls, GetCalls, PutCalls, RemoveCalls, ClearCalls

\* A step of t leaves the location of every other thread alone.
LEMMA GotoProperties ==
  ASSUME TypeOK, NEW t \in Threads, NEW from, NEW to \in Locations,
         Goto(t, from, to)
  PROVE  /\ pc[t] = from
         /\ pc' \in [Threads -> Locations]
         /\ pc'[t] = to
         /\ \A u \in Threads \ {t} : pc'[u] = pc[u]
BY DEF TypeOK, Goto

\* committed changes when a body makes its last change, and only then.
LEMMA Committing ==
  ASSUME TypeOK, HNext, NEW t \in Threads, NEW from, NEW to \in Locations,
         Goto(t, from, to)
  PROVE  committed' = IF from \in LastChange /\ to = "unlock"
                      THEN cache' ELSE committed
<1>1. ASSUME NEW u \in Threads, u # t, pc[u] \in LastChange
      PROVE  pc'[u] # "unlock"
  BY <1>1, GotoProperties DEF LastChange
<1>2. (\E u \in Threads : pc[u] \in LastChange /\ pc'[u] = "unlock")
        <=> from \in LastChange /\ to = "unlock"
  BY <1>1, GotoProperties
<1>. QED  BY <1>2 DEF HNext

\* A step that takes the mutex from no one and gives it to no one keeps Mutex.
LEMMA MutexKept ==
  ASSUME TypeOK, Mutex, NEW t \in Threads, NEW from, NEW to \in Locations,
         Goto(t, from, to),
         from \in Reading <=> to \in Reading,
         from \in Writing <=> to \in Writing,
         UNCHANGED <<readers, writer>>
  PROVE  Mutex'
BY GotoProperties DEF Mutex, Reading, Writing

\* While t writes, every other thread is outside the bodies.
LEMMA WriterAlone ==
  ASSUME TypeOK, Mutex, NEW t \in Threads, pc[t] \in Writing
  PROVE  /\ writer = t
         /\ writer # NoThread
         /\ \A u \in Threads \ {t} : pc[u] \notin Reading \cup Writing
BY NoThreadAssumption DEF Mutex

\* While t reads, nobody writes and the containers are settled.
LEMMA ReadersSettled ==
  ASSUME TypeOK, Mutex, NEW t \in Threads, pc[t] \in Reading
  PROVE  writer = NoThread
BY DEF Mutex, TypeOK

-----------------------------------------------------------------------------
(* A step of a body that changes the containers keeps the invariant if its  *)
(* own thread's part of it is kept.                                         *)

LEMMA ChangeHInv ==
  ASSUME HInv, HNext, NEW t \in Threads,
         NEW from \in Writing, NEW to \in Writing, NEW c \in Caches,
         Change(t, from, to, c),
         to \notin {"evict", "erase"},
         to \in {"insert", "order"} => call[t] \in PutCalls,
         to = "erase_order" => call[t] \in RemoveCalls,
         committed' \in Caches, CoherentCache(committed'),
         ProgressOf(t)'
  PROVE  HInv'
<1>1. Goto(t, from, to) /\ cache' = c
      /\ UNCHANGED <<got, readers, writer, call, calls>>
  BY DEF Change
<1>2. TypeOK /\ Mutex /\ CallMatches /\ Settled /\ Progress
  BY DEF HInv
<1>3. from \in Locations /\ to \in Locations
      /\ from \notin Reading /\ to \notin Reading
  BY DEF Locations, Reading, Writing
<1>4. pc[t] = from /\ pc' \in [Threads -> Locations] /\ pc'[t] = to
      /\ \A u \in Threads \ {t} : pc'[u] = pc[u]
  BY <1>1, <1>2, <1>3, GotoProperties
<1>5. writer = t /\ writer # NoThread
      /\ \A u \in Threads \ {t} : pc[u] \notin Reading \cup Writing
  BY <1>2, <1>4, WriterAlone
<1>6. TypeOK'
  BY <1>1, <1>2, <1>4 DEF TypeOK
<1>7. Mutex'
  BY <1>1, <1>2, <1>3, MutexKept
<1>8. CallMatches'
  <2>1. to \notin {"lock_shared", "find", "lock"}
    BY DEF Writing
  <2>. QED  BY <1>1, <1>2, <1>4, <2>1 DEF CallMatches
<1>9. Settled'
  BY <1>1, <1>5 DEF Settled
<1>10. Progress'
  BY <1>4, <1>5 DEF Progress, ProgressOf, Writing
<1>. QED  BY <1>6, <1>7, <1>8, <1>9, <1>10 DEF HInv

\* A step that changes neither the containers nor committed keeps the parts of
\* the invariant that speak of them, if its own thread's part is kept.
LEMMA StillProgress ==
  ASSUME HInv, NEW t \in Threads, NEW from, NEW to \in Locations,
         Goto(t, from, to), UNCHANGED <<cache, committed>>,
         \A u \in Threads \ {t} : call'[u] = call[u],
         ProgressOf(t)'
  PROVE  Progress'
<1>1. ASSUME NEW u \in Threads \ {t}
      PROVE  ProgressOf(u)'
  <2>1. pc'[u] = pc[u] /\ call'[u] = call[u]
    BY GotoProperties DEF HInv
  <2>. QED  BY <2>1 DEF HInv, Progress, ProgressOf
<1>. QED  BY <1>1 DEF Progress

-----------------------------------------------------------------------------
(* The steps outside the bodies and the steps that take or give back the    *)
(* mutex.                                                                   *)

LEMMA BeginHInv ==
  ASSUME HInv, HNext, NEW t \in Threads, NEW c \in Calls, Begin(t, c)
  PROVE  HInv'
<1> DEFINE to == IF c.op = "get" THEN "lock_shared" ELSE "lock"
<1>1. Goto(t, "idle", to) /\ to \in Locations
      /\ to \notin Reading \cup Writing /\ "idle" \notin Reading \cup Writing
      /\ UNCHANGED <<cache, got, readers, writer>>
  BY DEF Begin, Locations, Reading, Writing
<1>2. /\ call' = [call EXCEPT ![t] = c]
      /\ calls' = [calls EXCEPT ![t] = @ + 1]
      /\ calls[t] < MaxCalls
  BY DEF Begin
<1>3. c \in GetCalls => to = "lock_shared"
  BY DEF GetCalls
<1>4. c \in PutCalls \cup RemoveCalls \cup ClearCalls => to = "lock"
  BY DEF PutCalls, RemoveCalls, ClearCalls
<1> HIDE DEF to
<1>5. pc[t] = "idle" /\ pc' \in [Threads -> Locations] /\ pc'[t] = to
      /\ \A u \in Threads \ {t} : pc'[u] = pc[u]
  BY <1>1, GotoProperties DEF HInv
<1>6. committed' = committed
  BY <1>1, Committing DEF HInv, Writing, LastChange
<1>7. TypeOK'
  <2>1. calls' \in [Threads -> 0 .. MaxCalls]
    BY <1>2, MaxCallsAssumption DEF HInv, TypeOK
  <2>. QED  BY <1>1, <1>2, <1>5, <2>1 DEF HInv, TypeOK
<1>8. Mutex'
  BY <1>1, MutexKept DEF HInv
<1>9. CallMatches'
  <2>1. call'[t] = c /\ \A u \in Threads \ {t} : call'[u] = call[u]
    BY <1>2 DEF HInv, TypeOK
  <2>2. c \in GetCalls \/ c \in PutCalls \cup RemoveCalls \cup ClearCalls
    BY CallKinds
  <2>. QED  BY <1>3, <1>4, <1>5, <2>1, <2>2 DEF HInv, CallMatches
<1>10. Settled'
  BY <1>1, <1>6 DEF HInv, Settled
<1>11. Progress'
  <2>1. \A u \in Threads \ {t} : call'[u] = call[u]
    BY <1>2 DEF HInv, TypeOK
  <2>2. ProgressOf(t)'
    BY <1>1, <1>5 DEF ProgressOf, Writing
  <2>. QED  BY <1>1, <1>6, <2>1, <2>2, StillProgress
<1>. QED  BY <1>7, <1>8, <1>9, <1>10, <1>11 DEF HInv

LEMMA LockSharedHInv ==
  ASSUME HInv, HNext, NEW t \in Threads, LockShared(t)
  PROVE  HInv'
<1>1. Goto(t, "lock_shared", "find") /\ "find" \in Locations
      /\ writer = NoThread /\ readers' = readers \cup {t}
      /\ UNCHANGED <<cache, got, writer, call, calls>>
  BY DEF LockShared, Locations, Reading
<1>2. pc[t] = "lock_shared" /\ pc' \in [Threads -> Locations] /\ pc'[t] = "find"
      /\ \A u \in Threads \ {t} : pc'[u] = pc[u]
  BY <1>1, GotoProperties DEF HInv
<1>3. committed' = committed
  BY <1>1, Committing DEF HInv, LastChange
<1>4. cache = committed
  BY <1>1 DEF HInv, Settled
<1>5. TypeOK'
  BY <1>1, <1>2 DEF HInv, TypeOK
<1>6. Mutex'
  BY <1>1, <1>2, NoThreadAssumption DEF HInv, Mutex, Reading, Writing
<1>7. CallMatches'
  BY <1>1, <1>2 DEF HInv, CallMatches
<1>8. Settled'
  BY <1>1, <1>3 DEF HInv, Settled
<1>9. ProgressOf(t)'
  BY <1>1, <1>2, <1>3, <1>4 DEF ProgressOf
<1>10. Progress'
  BY <1>1, <1>3, <1>9, StillProgress
<1>. QED  BY <1>5, <1>6, <1>7, <1>8, <1>10 DEF HInv

LEMMA FindHInv ==
  ASSUME HInv, HNext, NEW t \in Threads, Find(t)
  PROVE  /\ HInv'
         /\ cache = committed
         /\ committed' = committed
         /\ call[t].key \in Keys
<1>1. Goto(t, "find", "unlock_shared") /\ "unlock_shared" \in Locations
      /\ got' = [got EXCEPT ![t] = Lookup(cache, call[t].key)]
      /\ UNCHANGED <<cache, readers, writer, call, calls>>
  BY DEF Find, Locations, Reading
<1>2. pc[t] = "find" /\ pc' \in [Threads -> Locations]
      /\ pc'[t] = "unlock_shared" /\ \A u \in Threads \ {t} : pc'[u] = pc[u]
  BY <1>1, GotoProperties DEF HInv
<1>3. committed' = committed
  BY <1>1, Committing DEF HInv, LastChange
<1>4. cache = committed
  BY <1>2 DEF HInv, Progress, ProgressOf, Reading
<1>5. call[t].key \in Keys
  BY <1>2 DEF HInv, CallMatches, GetCalls
<1>6. TypeOK'
  <2>1. Lookup(cache, call[t].key) \in Entries \cup {Nullopt}
    BY <1>5, LookupType DEF HInv, TypeOK
  <2>. QED  BY <1>1, <1>2, <2>1 DEF HInv, TypeOK
<1>7. Mutex'
  BY <1>1, MutexKept DEF HInv, Reading, Writing
<1>8. CallMatches'
  BY <1>1, <1>2 DEF HInv, CallMatches
<1>9. Settled'
  BY <1>1, <1>3 DEF HInv, Settled
<1>10. ProgressOf(t)'
  BY <1>1, <1>2, <1>3, <1>4 DEF ProgressOf
<1>11. Progress'
  BY <1>1, <1>3, <1>10, StillProgress
<1>. QED  BY <1>3, <1>4, <1>5, <1>6, <1>7, <1>8, <1>9, <1>11 DEF HInv

LEMMA LockHInv ==
  ASSUME HInv, HNext, NEW t \in Threads, Lock(t)
  PROVE  HInv'
<1> DEFINE to == FirstStep(call[t].op)
<1>1. Goto(t, "lock", to) /\ writer = NoThread /\ readers = {} /\ writer' = t
      /\ UNCHANGED <<cache, got, readers, call, calls>>
  BY DEF Lock
<1>2. to \in {"evict", "erase", "clear_map"}
  BY DEF FirstStep
<1>3. /\ call[t] \in PutCalls => to = "evict"
      /\ call[t] \in RemoveCalls => to = "erase"
      /\ call[t] \in ClearCalls => to = "clear_map"
  BY DEF FirstStep, PutCalls, RemoveCalls, ClearCalls
<1> HIDE DEF to
<1>4. to \in Locations /\ to \in Writing /\ to \notin Reading
  BY <1>2 DEF Locations, Reading, Writing
<1>5. pc[t] = "lock" /\ pc' \in [Threads -> Locations] /\ pc'[t] = to
      /\ \A u \in Threads \ {t} : pc'[u] = pc[u]
  BY <1>1, <1>4, GotoProperties DEF HInv
<1>6. committed' = committed
  BY <1>1, <1>4, Committing DEF HInv, LastChange
<1>7. cache = committed
  BY <1>1 DEF HInv, Settled
<1>8. TypeOK'
  BY <1>1, <1>5 DEF HInv, TypeOK
<1>9. Mutex'
  <2>1. "lock" \notin Reading \cup Writing
    BY DEF Reading, Writing
  <2>2. \A u \in Threads : pc[u] \notin Writing /\ pc[u] \notin Reading
    BY <1>1, NoThreadAssumption DEF HInv, Mutex
  <2>3. \A u \in Threads : pc'[u] \notin Reading
    BY <1>4, <1>5, <2>2
  <2>4. \A u \in Threads : pc'[u] \in Writing <=> u = t
    BY <1>4, <1>5, <2>2
  <2>. QED  BY <1>1, <2>3, <2>4 DEF Mutex
<1>10. CallMatches'
  <2>1. to = "evict" => call[t] \in PutCalls
    BY <1>3, <1>5 DEF HInv, CallMatches
  <2>2. to = "erase" => call[t] \in RemoveCalls
    BY <1>3, <1>5 DEF HInv, CallMatches
  <2>. QED  BY <1>1, <1>2, <1>5, <2>1, <2>2 DEF HInv, CallMatches
<1>11. Settled'
  BY <1>1, <1>6, NoThreadAssumption DEF HInv, Settled
<1>12. ProgressOf(t)'
  BY <1>1, <1>2, <1>5, <1>6, <1>7 DEF ProgressOf
<1>13. Progress'
  BY <1>1, <1>4, <1>6, <1>12, StillProgress
<1>. QED  BY <1>8, <1>9, <1>10, <1>11, <1>13 DEF HInv

\* A thread that leaves the mutex: from is the last location of its body.
LEMMA ReturnHInv ==
  ASSUME HInv, HNext, NEW t \in Threads,
         UnlockShared(t) \/ Unlock(t)
  PROVE  HInv' /\ committed' = committed
<1>1. PICK from \in {"unlock_shared", "unlock"} :
        /\ Goto(t, from, "idle")
        /\ call' = [call EXCEPT ![t] = NoCall]
        /\ UNCHANGED <<cache, got, calls>>
        /\ from = "unlock_shared"
             => readers' = readers \ {t} /\ UNCHANGED writer
        /\ from = "unlock" => writer' = NoThread /\ UNCHANGED readers
  BY DEF UnlockShared, Unlock, Return
<1>2. "idle" \in Locations /\ "idle" \notin Reading \cup Writing
  BY DEF Locations, Reading, Writing
<1>3. pc[t] = from /\ pc' \in [Threads -> Locations] /\ pc'[t] = "idle"
      /\ \A u \in Threads \ {t} : pc'[u] = pc[u]
  BY <1>1, <1>2, GotoProperties DEF HInv
<1>4. committed' = committed
  BY <1>1, <1>2, Committing DEF HInv
<1>5. cache = committed
  BY <1>1, <1>3 DEF HInv, Progress, ProgressOf, Reading
<1>6. TypeOK'
  BY <1>1, <1>3 DEF HInv, TypeOK
<1>7. Mutex'
  <2>1. CASE from = "unlock_shared"
    <3>1. pc[t] \in Reading /\ pc[t] \notin Writing
      BY <1>3, <2>1 DEF Reading, Writing
    <3>2. \A u \in Threads : pc'[u] \in Writing <=> pc[u] \in Writing
      BY <1>2, <1>3, <3>1
    <3>3. readers' = {u \in Threads : pc'[u] \in Reading}
      BY <1>1, <1>2, <1>3, <2>1 DEF HInv, Mutex
    <3>. QED  BY <1>1, <2>1, <3>2, <3>3 DEF HInv, Mutex
  <2>2. CASE from = "unlock"
    <3>1. pc[t] \in Writing /\ pc[t] \notin Reading
      BY <1>3, <2>2 DEF Reading, Writing
    <3>2. \A u \in Threads \ {t} : pc[u] \notin Reading \cup Writing
      BY <3>1, WriterAlone DEF HInv
    <3>3. \A u \in Threads : pc'[u] \notin Writing
      BY <1>2, <1>3, <3>2
    <3>4. \A u \in Threads : pc'[u] \in Reading <=> pc[u] \in Reading
      BY <1>2, <1>3, <3>1
    <3>. QED  BY <1>1, <2>2, <3>3, <3>4, NoThreadAssumption DEF HInv, Mutex
  <2>. QED  BY <1>1, <2>1, <2>2
<1>8. CallMatches'
  BY <1>1, <1>3 DEF HInv, CallMatches, TypeOK
<1>9. Settled'
  BY <1>1, <1>4, <1>5 DEF HInv, Settled
<1>10. Progress'
  <2>1. \A u \in Threads \ {t} : call'[u] = call[u]
    BY <1>1 DEF HInv, TypeOK
  <2>2. ProgressOf(t)'
    BY <1>2, <1>3 DEF ProgressOf, Writing
  <2>. QED  BY <1>1, <1>2, <1>4, <2>1, <2>2, StillProgress
<1>. QED  BY <1>4, <1>6, <1>7, <1>8, <1>9, <1>10 DEF HInv

-----------------------------------------------------------------------------
(* The steps of the bodies.                                                 *)

\* The containers at the start of a body.
LEMMA BodyStarts ==
  ASSUME HInv, NEW t \in Threads,
         pc[t] \in {"evict", "erase", "clear_map"}
  PROVE  cache = committed
BY DEF HInv, Progress, ProgressOf

LEMMA EvictHInv ==
  ASSUME HInv, HNext, NEW t \in Threads, Evict(t)
  PROVE  HInv' /\ committed' = committed /\ got' = got
<1>1. Change(t, "evict", "insert", MakeRoom(cache))
      /\ "evict" \in Writing /\ "insert" \in Writing /\ "insert" \in Locations
  BY DEF Evict, Writing, Locations
<1>2. Goto(t, "evict", "insert") /\ cache' = MakeRoom(cache) /\ got' = got
      /\ UNCHANGED call
  BY <1>1 DEF Change
<1>3. pc[t] = "evict" /\ pc'[t] = "insert"
  BY <1>1, <1>2, GotoProperties DEF HInv
<1>4. committed' = committed /\ cache = committed
  BY <1>1, <1>2, <1>3, Committing, BodyStarts DEF HInv, LastChange
<1>5. call[t] \in PutCalls /\ MakeRoom(cache) \in Caches
      /\ committed \in Caches /\ CoherentCache(committed)
  BY <1>3, <1>4, MakeRoomCoherent DEF HInv, CallMatches, Settled
<1>6. ProgressOf(t)'
  BY <1>2, <1>3, <1>4 DEF ProgressOf, Reading
<1>7. HInv'
  BY <1>1, <1>4, <1>5, <1>6, ChangeHInv
<1>. QED  BY <1>2, <1>4, <1>7

LEMMA InsertEntryHInv ==
  ASSUME HInv, HNext, NEW t \in Threads, InsertEntry(t)
  PROVE  HInv' /\ committed' = committed /\ got' = got
<1> DEFINE k == call[t].key
           e == call[t].entry
<1>1. Change(t, "insert", "order", Insert(cache, k, e))
      /\ "insert" \in Writing /\ "order" \in Writing /\ "order" \in Locations
  BY DEF InsertEntry, Writing, Locations
<1>2. Goto(t, "insert", "order") /\ cache' = Insert(cache, k, e) /\ got' = got
      /\ UNCHANGED call
  BY <1>1 DEF Change
<1>3. pc[t] = "insert" /\ pc'[t] = "order"
  BY <1>1, <1>2, GotoProperties DEF HInv
<1>4. committed' = committed
  BY <1>1, <1>2, Committing DEF HInv, LastChange
<1>5. call[t] \in PutCalls /\ k \in Keys /\ e \in Entries
  BY <1>3 DEF HInv, CallMatches, PutCalls
<1>6. cache = MakeRoom(committed)
  BY <1>3 DEF HInv, Progress, ProgressOf
<1>7. committed \in Caches /\ CoherentCache(committed)
  BY DEF HInv, Settled
<1>8. Insert(cache, k, e) \in Caches
  BY <1>5, <1>6, <1>7, MakeRoomCoherent, InsertIndexed DEF CoherentCache
<1>9. ProgressOf(t)'
  BY <1>2, <1>3, <1>4, <1>6 DEF ProgressOf, Reading
<1>10. HInv'
  BY <1>1, <1>4, <1>5, <1>7, <1>8, <1>9, ChangeHInv
<1>. QED  BY <1>2, <1>4, <1>10

\* The last step of put is the atomic put.
LEMMA OrderHInv ==
  ASSUME HInv, HNext, NEW t \in Threads, Order(t)
  PROVE  /\ HInv'
         /\ got' = got
         /\ \E k \in Keys, e \in Entries :
               \E n \in FreeNodes(Insert(MakeRoom(committed), k, e), k) :
                  committed' =
                    UpdateAccessOrder(Insert(MakeRoom(committed), k, e), k, n)
<1> DEFINE k == call[t].key
           e == call[t].entry
           filled == Insert(MakeRoom(committed), k, e)
<1>1. PICK n \in FreeNodes(cache, k) :
        Change(t, "order", "unlock", UpdateAccessOrder(cache, k, n))
  BY DEF Order
<1>2. "order" \in Writing /\ "unlock" \in Writing /\ "unlock" \in Locations
  BY DEF Writing, Locations
<1>3. Goto(t, "order", "unlock") /\ cache' = UpdateAccessOrder(cache, k, n)
      /\ got' = got /\ UNCHANGED call
  BY <1>1 DEF Change
<1>4. pc[t] = "order" /\ pc'[t] = "unlock"
  BY <1>2, <1>3, GotoProperties DEF HInv
<1>5. committed' = cache'
  BY <1>2, <1>3, Committing DEF HInv, LastChange
<1>6. k \in Keys /\ e \in Entries
  BY <1>4 DEF HInv, CallMatches, PutCalls
<1>7. cache = filled
  BY <1>4 DEF HInv, Progress, ProgressOf
<1>8. committed \in Caches /\ CoherentCache(committed)
  BY DEF HInv, Settled
<1>9. n \in FreeNodes(filled, k) /\ committed' = UpdateAccessOrder(filled, k, n)
  BY <1>1, <1>3, <1>5, <1>7
<1>10. committed' \in Caches /\ CoherentCache(committed')
  BY <1>6, <1>8, <1>9, PutCoherent
<1>11. ProgressOf(t)'
  BY <1>4, <1>5 DEF ProgressOf
<1>12. HInv'
  <2>1. UpdateAccessOrder(cache, k, n) \in Caches
    BY <1>3, <1>5, <1>10
  <2>. QED  BY <1>1, <1>2, <1>10, <1>11, <2>1, ChangeHInv
<1>13. \E m \in FreeNodes(filled, k) : committed' = UpdateAccessOrder(filled, k, m)
  BY <1>9
<1>. QED  BY <1>3, <1>6, <1>12, <1>13

LEMMA EraseKeyHInv ==
  ASSUME HInv, HNext, NEW t \in Threads, EraseKey(t)
  PROVE  HInv' /\ committed' = committed /\ got' = got
<1> DEFINE k == call[t].key
<1>1. "erase" \in Writing /\ "erase_order" \in Writing /\ "unlock" \in Writing
      /\ "erase_order" \in Locations /\ "unlock" \in Locations
  BY DEF Writing, Locations
<1>2. pc[t] = "erase"
  BY DEF EraseKey
<1>3. cache = committed /\ call[t] \in RemoveCalls /\ k \in Keys
      /\ committed \in Caches /\ CoherentCache(committed)
  BY <1>2, BodyStarts DEF HInv, CallMatches, Settled, RemoveCalls
<1>4. CASE k \in Stored(cache)
  <2>1. Change(t, "erase", "erase_order", EraseEntry(cache, k))
    BY <1>4 DEF EraseKey
  <2>2. Goto(t, "erase", "erase_order") /\ cache' = EraseEntry(cache, k)
        /\ got' = got /\ UNCHANGED call
    BY <2>1 DEF Change
  <2>3. pc'[t] = "erase_order" /\ committed' = committed
    BY <1>1, <2>2, GotoProperties, Committing DEF HInv, LastChange
  <2>4. EraseEntry(cache, k) \in Caches
    BY <1>3, EraseEntryIndexed DEF CoherentCache
  <2>5. ProgressOf(t)'
    BY <1>3, <1>4, <2>2, <2>3 DEF ProgressOf, Reading
  <2>. QED  BY <1>1, <1>3, <2>1, <2>2, <2>3, <2>4, <2>5, ChangeHInv
<1>5. CASE k \notin Stored(cache)
  <2>1. Change(t, "erase", "unlock", cache)
    BY <1>5 DEF EraseKey
  <2>2. Goto(t, "erase", "unlock") /\ cache' = cache /\ got' = got
    BY <2>1 DEF Change
  <2>3. pc'[t] = "unlock" /\ committed' = committed
    BY <1>1, <2>2, GotoProperties, Committing DEF HInv, LastChange
  <2>4. ProgressOf(t)'
    BY <1>3, <2>2, <2>3 DEF ProgressOf
  <2>. QED  BY <1>1, <1>3, <2>1, <2>2, <2>3, <2>4, ChangeHInv
<1>. QED  BY <1>4, <1>5

\* The last step of remove is the atomic remove.
LEMMA EraseKeyOrderHInv ==
  ASSUME HInv, HNext, NEW t \in Threads, EraseKeyOrder(t)
  PROVE  /\ HInv'
         /\ got' = got
         /\ \E k \in Keys : /\ k \in Stored(committed)
                            /\ committed' = EraseOrder(EraseEntry(committed, k), k)
<1> DEFINE k == call[t].key
<1>1. Change(t, "erase_order", "unlock", EraseOrder(cache, k))
      /\ "erase_order" \in Writing /\ "unlock" \in Writing /\ "unlock" \in Locations
  BY DEF EraseKeyOrder, Writing, Locations
<1>2. Goto(t, "erase_order", "unlock") /\ cache' = EraseOrder(cache, k)
      /\ got' = got
  BY <1>1 DEF Change
<1>3. pc[t] = "erase_order" /\ pc'[t] = "unlock"
  BY <1>1, <1>2, GotoProperties DEF HInv
<1>4. committed' = cache'
  BY <1>1, <1>2, Committing DEF HInv, LastChange
<1>5. k \in Keys
  BY <1>3 DEF HInv, CallMatches, RemoveCalls
<1>6. k \in Stored(committed) /\ cache = EraseEntry(committed, k)
  BY <1>3 DEF HInv, Progress, ProgressOf
<1>7. committed \in Caches /\ CoherentCache(committed)
  BY DEF HInv, Settled
<1>8. committed' \in Caches /\ CoherentCache(committed')
  BY <1>2, <1>4, <1>5, <1>6, <1>7, RemoveCoherent
<1>9. ProgressOf(t)'
  BY <1>3, <1>4 DEF ProgressOf
<1>10. HInv'
  <2>1. EraseOrder(cache, k) \in Caches
    BY <1>2, <1>4, <1>8
  <2>. QED  BY <1>1, <1>8, <1>9, <2>1, ChangeHInv
<1>. QED  BY <1>2, <1>4, <1>5, <1>6, <1>10

LEMMA EmptyParts ==
  /\ NoEntries \in Maps(Entries)
  /\ NoIterators \in Maps(Nodes)
  /\ <<>> \in Seq(Node)
BY EmptyCacheCoherent DEF EmptyCache, Caches

LEMMA ClearMapHInv ==
  ASSUME HInv, HNext, NEW t \in Threads, ClearMap(t)
  PROVE  HInv' /\ committed' = committed /\ got' = got
<1> DEFINE c == [cache_map |-> NoEntries,
                 access_order |-> cache.access_order,
                 key_to_iterator |-> cache.key_to_iterator]
<1>1. Change(t, "clear_map", "clear_list", c)
      /\ "clear_map" \in Writing /\ "clear_list" \in Writing
      /\ "clear_list" \in Locations
  BY DEF ClearMap, Writing, Locations
<1>2. c \in Caches /\ c.cache_map = NoEntries
  BY EmptyParts DEF HInv, TypeOK, Caches
<1> HIDE DEF c
<1>3. Goto(t, "clear_map", "clear_list") /\ cache' = c /\ got' = got
  BY <1>1 DEF Change
<1>4. pc'[t] = "clear_list" /\ committed' = committed
  BY <1>1, <1>3, GotoProperties, Committing DEF HInv, LastChange
<1>5. ProgressOf(t)'
  BY <1>2, <1>3, <1>4 DEF ProgressOf, Reading
<1>6. committed' \in Caches /\ CoherentCache(committed')
  BY <1>4 DEF HInv, Settled
<1>. QED  BY <1>1, <1>2, <1>3, <1>4, <1>5, <1>6, ChangeHInv

LEMMA ClearListHInv ==
  ASSUME HInv, HNext, NEW t \in Threads, ClearList(t)
  PROVE  HInv' /\ committed' = committed /\ got' = got
<1> DEFINE c == [cache_map |-> cache.cache_map,
                 access_order |-> <<>>,
                 key_to_iterator |-> cache.key_to_iterator]
<1>1. Change(t, "clear_list", "clear_iterators", c)
      /\ "clear_list" \in Writing /\ "clear_iterators" \in Writing
      /\ "clear_iterators" \in Locations
  BY DEF ClearList, Writing, Locations
<1>2. Goto(t, "clear_list", "clear_iterators") /\ cache' = c /\ got' = got
  BY <1>1 DEF Change
<1>3. pc[t] = "clear_list" /\ pc'[t] = "clear_iterators" /\ committed' = committed
  BY <1>1, <1>2, GotoProperties, Committing DEF HInv, LastChange
<1>4. cache.cache_map = NoEntries
  BY <1>3 DEF HInv, Progress, ProgressOf
<1>5. c \in Caches /\ c.cache_map = NoEntries /\ c.access_order = <<>>
  BY <1>4, EmptyParts DEF HInv, TypeOK, Caches
<1> HIDE DEF c
<1>6. ProgressOf(t)'
  BY <1>2, <1>3, <1>5 DEF ProgressOf, Reading
<1>7. committed' \in Caches /\ CoherentCache(committed')
  BY <1>3 DEF HInv, Settled
<1>. QED  BY <1>1, <1>2, <1>3, <1>5, <1>6, <1>7, ChangeHInv

\* The last step of clear is the atomic clear.
LEMMA ClearIteratorsHInv ==
  ASSUME HInv, HNext, NEW t \in Threads, ClearIterators(t)
  PROVE  HInv' /\ committed' = EmptyCache /\ got' = got
<1> DEFINE c == [cache_map |-> cache.cache_map,
                 access_order |-> cache.access_order,
                 key_to_iterator |-> NoIterators]
<1>1. Change(t, "clear_iterators", "unlock", c)
      /\ "clear_iterators" \in Writing /\ "unlock" \in Writing
      /\ "unlock" \in Locations
  BY DEF ClearIterators, Writing, Locations
<1>2. Goto(t, "clear_iterators", "unlock") /\ cache' = c /\ got' = got
  BY <1>1 DEF Change
<1>3. pc[t] = "clear_iterators" /\ pc'[t] = "unlock" /\ committed' = cache'
  BY <1>1, <1>2, GotoProperties, Committing DEF HInv, LastChange
<1>4. cache.cache_map = NoEntries /\ cache.access_order = <<>>
  BY <1>3 DEF HInv, Progress, ProgressOf
<1>5. c = EmptyCache
  BY <1>4 DEF EmptyCache
<1> HIDE DEF c
<1>6. ProgressOf(t)'
  BY <1>3 DEF ProgressOf
<1>. QED  BY <1>1, <1>2, <1>3, <1>5, <1>6, EmptyCacheCoherent, ChangeHInv

-----------------------------------------------------------------------------
(* The invariant, and what each step is to an observer of the committed     *)
(* containers and the results of get.                                       *)

LEMMA InitHInv == HInit => HInv
<1> SUFFICES ASSUME HInit PROVE HInv
  OBVIOUS
<1>1. /\ cache = EmptyCache /\ committed = EmptyCache
      /\ got = [t \in Threads |-> Nullopt]
      /\ readers = {} /\ writer = NoThread
      /\ pc = [t \in Threads |-> "idle"]
      /\ call = [t \in Threads |-> NoCall]
      /\ calls = [t \in Threads |-> 0]
  BY DEF HInit, Init
<1>2. \A t \in Threads : pc[t] = "idle" /\ "idle" \in Locations
  BY <1>1 DEF Locations
<1>3. TypeOK
  BY <1>1, <1>2, EmptyCacheCoherent, MaxCallsAssumption DEF TypeOK
<1>4. Mutex
  BY <1>1, NoThreadAssumption DEF Mutex, Reading, Writing
<1>5. CallMatches
  BY <1>1 DEF CallMatches
<1>6. Settled
  BY <1>1, EmptyCacheCoherent DEF Settled
<1>7. Progress
  BY <1>1 DEF Progress, ProgressOf, Reading
<1>. QED  BY <1>3, <1>4, <1>5, <1>6, <1>7 DEF HInv

StutterHere == committed' = committed /\ got' = got

GetHere ==
  /\ committed' = committed
  /\ \E t \in Threads, k \in Keys :
        got' = [got EXCEPT ![t] = Lookup(committed, k)]

PutHere ==
  /\ got' = got
  /\ \E k \in Keys, e \in Entries :
        \E n \in FreeNodes(Insert(MakeRoom(committed), k, e), k) :
           committed' = UpdateAccessOrder(Insert(MakeRoom(committed), k, e), k, n)

RemoveHere ==
  /\ got' = got
  /\ \E k \in Keys : /\ k \in Stored(committed)
                     /\ committed' = EraseOrder(EraseEntry(committed, k), k)

ClearHere == got' = got /\ committed' = EmptyCache

LEMMA StepHInv ==
  ASSUME HInv, [HNext]_hvars
  PROVE  /\ HInv'
         /\ StutterHere \/ GetHere \/ PutHere \/ RemoveHere \/ ClearHere
<1>1. ASSUME HNext, NEW t \in Threads, NEW c \in Calls, Begin(t, c)
      PROVE  HInv' /\ StutterHere
  <2>1. Goto(t, "idle", IF c.op = "get" THEN "lock_shared" ELSE "lock")
        /\ got' = got
    BY <1>1 DEF Begin
  <2>2. (IF c.op = "get" THEN "lock_shared" ELSE "lock") \in Locations
    BY DEF Locations
  <2>3. committed' = committed
    BY <1>1, <2>1, <2>2, Committing DEF HInv, LastChange
  <2>. QED  BY <1>1, <2>1, <2>3, BeginHInv DEF StutterHere
<1>2. ASSUME HNext, NEW t \in Threads, LockShared(t)
      PROVE  HInv' /\ StutterHere
  <2>1. Goto(t, "lock_shared", "find") /\ "find" \in Locations /\ got' = got
    BY <1>2 DEF LockShared, Locations, Reading
  <2>2. committed' = committed
    BY <1>2, <2>1, Committing DEF HInv, LastChange
  <2>. QED  BY <1>2, <2>1, <2>2, LockSharedHInv DEF StutterHere
<1>3. ASSUME HNext, NEW t \in Threads, Find(t)
      PROVE  HInv' /\ GetHere
  <2>1. got' = [got EXCEPT ![t] = Lookup(cache, call[t].key)]
    BY <1>3 DEF Find
  <2>2. HInv' /\ cache = committed /\ committed' = committed /\ call[t].key \in Keys
    BY <1>3, FindHInv
  <2>3. got' = [got EXCEPT ![t] = Lookup(committed, call[t].key)]
    BY <2>1, <2>2
  <2>. QED  BY <2>2, <2>3 DEF GetHere
<1>4. ASSUME HNext, NEW t \in Threads, UnlockShared(t) \/ Unlock(t)
      PROVE  HInv' /\ StutterHere
  BY <1>4, ReturnHInv DEF StutterHere, UnlockShared, Unlock, Return
<1>5. ASSUME HNext, NEW t \in Threads, Lock(t)
      PROVE  HInv' /\ StutterHere
  <2>1. Goto(t, "lock", FirstStep(call[t].op)) /\ got' = got
    BY <1>5 DEF Lock
  <2>2. FirstStep(call[t].op) \in Locations
    BY DEF FirstStep, Locations, Writing
  <2>3. committed' = committed
    <3>1. "lock" \notin LastChange
      BY DEF LastChange
    <3>. QED  BY <1>5, <2>1, <2>2, <3>1, Committing DEF HInv
  <2>. QED  BY <1>5, <2>1, <2>3, LockHInv DEF StutterHere
<1>6. ASSUME HNext, NEW t \in Threads,
             Evict(t) \/ InsertEntry(t) \/ EraseKey(t) \/ ClearMap(t) \/ ClearList(t)
      PROVE  HInv' /\ StutterHere
  BY <1>6, EvictHInv, InsertEntryHInv, EraseKeyHInv, ClearMapHInv, ClearListHInv
  DEF StutterHere
<1>7. ASSUME HNext, NEW t \in Threads, Order(t)
      PROVE  HInv' /\ PutHere
  BY <1>7, OrderHInv DEF PutHere
<1>8. ASSUME HNext, NEW t \in Threads, EraseKeyOrder(t)
      PROVE  HInv' /\ RemoveHere
  BY <1>8, EraseKeyOrderHInv DEF RemoveHere
<1>9. ASSUME HNext, NEW t \in Threads, ClearIterators(t)
      PROVE  HInv' /\ ClearHere
  BY <1>9, ClearIteratorsHInv DEF ClearHere
<1>10. CASE UNCHANGED hvars
  BY <1>10 DEF hvars, HInv, TypeOK, Mutex, CallMatches, Settled, Progress,
               ProgressOf, StutterHere
<1>11. CASE HNext /\ Done /\ UNCHANGED vars
  <2>1. committed' = committed
    <3>1. \A t \in Threads : pc[t] \notin LastChange
      BY <1>11 DEF Done, LastChange
    <3>. QED  BY <1>11, <3>1 DEF HNext
  <2>. QED  BY <1>10, <1>11, <2>1 DEF vars, hvars
<1>12. CASE HNext
  <2>1. Next
    BY <1>12 DEF HNext
  <2>. QED  BY <1>1, <1>2, <1>3, <1>4, <1>5, <1>6, <1>7, <1>8, <1>9, <1>11, <1>12, <2>1
            DEF Next, Step
<1>. QED  BY <1>10, <1>12

LEMMA SharedInvariant == HSpec => []HInv
BY InitHInv, StepHInv, PTL DEF HSpec

\* Every variable of the threads, the mutex and the containers has its type.
THEOREM SharedCacheTypeOK == HSpec => []TypeOK
<1>1. HInv => TypeOK
  BY DEF HInv
<1>. QED  BY <1>1, SharedInvariant, PTL

\* WriterLock and ReaderLock do what they are for: while one thread is in the
\* body of put, remove or clear, no other one is in the body of any call.
THEOREM SharedCacheExclusiveWriter == HSpec => []ExclusiveWriter
<1>1. HInv => ExclusiveWriter
  <2> SUFFICES ASSUME HInv, NEW t \in Threads, NEW u \in Threads,
                      pc[t] \in Writing, t # u
               PROVE  pc[u] \notin Writing \cup Reading
    BY DEF ExclusiveWriter
  <2>. QED  BY WriterAlone DEF HInv
<1>. QED  BY <1>1, SharedInvariant, PTL

\* A get, and whoever is about to change the containers, finds the map, the
\* list and the iterators in agreement.
THEOREM SharedCacheNoTornReads == HSpec => []NoTornReads
<1>1. HInv => NoTornReads
  BY DEF HInv, Progress, ProgressOf, Settled, NoTornReads, Reading
<1>. QED  BY <1>1, SharedInvariant, PTL

\* Each body finds and leaves the containers where the calls finished before it
\* and its own steps so far have taken them.
THEOREM SharedCacheProgress == HSpec => []Progress
<1>1. HInv => Progress
  BY DEF HInv
<1>. QED  BY <1>1, SharedInvariant, PTL

-----------------------------------------------------------------------------
(* The refinement to Cache.  Atomic has operators of its own on the         *)
(* containers, which are the same.                                          *)

LEMMA SameListErase ==
  ASSUME NEW order, NEW it
  PROVE  Atomic!ListErase(order, it) = ListErase(order, it)
BY DEF Atomic!ListErase, ListErase,
       Atomic!RemoveFirstMatch, RemoveFirstMatch, Atomic!RemoveAt, RemoveAt,
       Atomic!SelectInSeq, SelectInSeq, Atomic!Min, Min

LEMMA SameContainers ==
  /\ Atomic!EmptyCache = EmptyCache
  /\ \A c : Atomic!Stored(c) = Stored(c)
  /\ \A c, k : Atomic!Unlinked(c, k) = Unlinked(c, k)
BY SameListErase
DEF Atomic!EmptyCache, EmptyCache, Atomic!NoEntries, NoEntries,
    Atomic!NoIterators, NoIterators, Atomic!Stored, Stored,
    Atomic!Unlinked, Unlinked

LEMMA SameMaps ==
  ASSUME NEW f, NEW k, NEW v
  PROVE  /\ Atomic!Erase(f, k) = Erase(f, k)
         /\ Atomic!Assign(f, k, v) = Assign(f, k, v)
BY DEF Atomic!Erase, Erase, Atomic!Restrict, Restrict, Atomic!Assign, Assign

LEMMA SameMakeRoom ==
  ASSUME NEW c
  PROVE  Atomic!MakeRoom(c) = MakeRoom(c)
<1>1. Atomic!EvictOldest(c) = EvictOldest(c)
  BY SameMaps DEF Atomic!EvictOldest, EvictOldest, Atomic!Last, Last,
                  Atomic!Front, Front
<1>2. Atomic!Cardinality(Stored(c)) = Cardinality(Stored(c))
  BY DEF Atomic!Cardinality, Cardinality
<1>. QED  BY <1>1, <1>2, SameContainers DEF Atomic!MakeRoom, MakeRoom

LEMMA SameOperations ==
  ASSUME NEW c, NEW k, NEW e, NEW n
  PROVE  /\ Atomic!Lookup(c, k) = Lookup(c, k)
         /\ Atomic!Insert(c, k, e) = Insert(c, k, e)
         /\ Atomic!FreeNodes(c, k) = FreeNodes(c, k)
         /\ Atomic!UpdateAccessOrder(c, k, n) = UpdateAccessOrder(c, k, n)
         /\ Atomic!EraseEntry(c, k) = EraseEntry(c, k)
         /\ Atomic!EraseOrder(c, k) = EraseOrder(c, k)
<1>1. Atomic!Lookup(c, k) = Lookup(c, k)
  BY SameContainers DEF Atomic!Lookup, Lookup
<1>2. Atomic!Insert(c, k, e) = Insert(c, k, e)
  BY SameMaps DEF Atomic!Insert, Insert
<1>3. Atomic!FreeNodes(c, k) = FreeNodes(c, k)
  BY SameContainers DEF Atomic!FreeNodes, FreeNodes
<1>4. Atomic!UpdateAccessOrder(c, k, n) = UpdateAccessOrder(c, k, n)
  BY SameContainers, SameMaps DEF Atomic!UpdateAccessOrder, UpdateAccessOrder
<1>5. Atomic!EraseEntry(c, k) = EraseEntry(c, k)
  BY SameMaps DEF Atomic!EraseEntry, EraseEntry
<1>6. Atomic!EraseOrder(c, k) = EraseOrder(c, k)
  BY SameContainers, SameMaps DEF Atomic!EraseOrder, EraseOrder
<1>. QED  BY <1>1, <1>2, <1>3, <1>4, <1>5, <1>6

\* Every step is a step of Cache on committed and got, or leaves both alone.
LEMMA StepRefines ==
  ASSUME StutterHere \/ GetHere \/ PutHere \/ RemoveHere \/ ClearHere
  PROVE  [Atomic!Next]_(Atomic!vars)
<1>1. CASE StutterHere
  BY <1>1 DEF StutterHere, Atomic!vars
<1>2. CASE GetHere
  <2>1. \E t \in Threads, k \in Keys : Atomic!Get(t, k)
    BY <1>2, SameOperations DEF GetHere, Atomic!Get
  <2>. QED  BY <2>1 DEF Atomic!Next
<1>3. CASE PutHere
  <2>1. PICK k \in Keys, e \in Entries :
          \E n \in FreeNodes(Insert(MakeRoom(committed), k, e), k) :
             committed' = UpdateAccessOrder(Insert(MakeRoom(committed), k, e), k, n)
    BY <1>3 DEF PutHere
  <2>2. Atomic!Put(k, e)
    <3> DEFINE filled == Insert(MakeRoom(committed), k, e)
    <3>1. Atomic!Insert(Atomic!MakeRoom(committed), k, e) = filled
      BY SameMakeRoom, SameOperations
    <3>2. Atomic!FreeNodes(filled, k) = FreeNodes(filled, k)
      BY SameOperations
    <3>3. \A n : Atomic!UpdateAccessOrder(filled, k, n) = UpdateAccessOrder(filled, k, n)
      BY SameOperations
    <3>4. got' = got
      BY <1>3 DEF PutHere
    <3> HIDE DEF filled
    <3>5. \E n \in FreeNodes(filled, k) : committed' = UpdateAccessOrder(filled, k, n)
      BY <2>1 DEF filled
    <3>. QED  BY <3>1, <3>2, <3>3, <3>4, <3>5 DEF Atomic!Put
  <2>. QED  BY <2>2 DEF Atomic!Next
<1>4. CASE RemoveHere
  <2>1. PICK k \in Keys : /\ k \in Stored(committed)
                          /\ committed' = EraseOrder(EraseEntry(committed, k), k)
    BY <1>4 DEF RemoveHere
  <2>2. Atomic!EraseOrder(Atomic!EraseEntry(committed, k), k)
          = EraseOrder(EraseEntry(committed, k), k)
    BY SameOperations
  <2>3. Atomic!RemoveKey(k)
    BY <1>4, <2>1, <2>2, SameContainers DEF RemoveHere, Atomic!RemoveKey
  <2>. QED  BY <2>3 DEF Atomic!Next
<1>5. CASE ClearHere
  BY <1>5, SameContainers DEF ClearHere, Atomic!Clear, Atomic!Next
<1>. QED  BY <1>1, <1>2, <1>3, <1>4, <1>5

\* The lock and the bodies implement the atomic member functions of Cache: the
\* calls of any number of threads amount to one whole call after the other, and
\* a get returns what the calls finished before it left.
THEOREM SharedCacheImplementsCache == HSpec => ImplementsCache
<1>1. HInit => Atomic!Init
  BY SameContainers DEF HInit, Init, Atomic!Init
<1>2. HInv /\ [HNext]_hvars => [Atomic!Next]_(Atomic!vars)
  BY StepHInv, StepRefines
<1>. QED  BY <1>1, <1>2, SharedInvariant, PTL DEF HSpec, ImplementsCache, Atomic!Spec
=============================================================================
