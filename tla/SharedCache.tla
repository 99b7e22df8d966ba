---------------------------- MODULE SharedCache -----------------------------
(***************************************************************************)
(* Class Cache as the connection threads run it: cache_mutex_, a           *)
(* std::shared_mutex that get takes through a ReaderLock and put, remove   *)
(* and clear through a WriterLock, and the bodies of the member functions  *)
(* one container operation or helper call at a time.  A thread is between  *)
(* two calls ("idle"), waiting for the mutex ("lock_shared", "lock"), in a *)
(* body, or in the destructor of its lock ("unlock_shared", "unlock").     *)
(*                                                                         *)
(* The mutex admits readers whenever no writer holds it, even while a      *)
(* writer waits: the C++ standard promises no more.                        *)
(***************************************************************************)
EXTENDS CacheOps

CONSTANTS Threads,
          NoThread,    \* nobody holds the mutex exclusively
          MaxCalls     \* bound: calls a thread makes (a connection makes two)

ASSUME NoThreadAssumption == NoThread \notin Threads
ASSUME MaxCallsAssumption == MaxCalls \in Nat

VARIABLES cache,       \* the three containers
          got,         \* got[t]: what the last get of t returned
          readers,     \* threads holding cache_mutex_ shared
          writer,      \* the thread holding it exclusively
          pc,
          call,        \* call[t]: the call thread t is in
          calls        \* calls[t]: how many it has begun

vars == <<cache, got, readers, writer, pc, call, calls>>

NoCall == [op |-> "none"]

Calls == [op : {"get", "remove"}, key : Keys]
           \cup [op : {"put"}, key : Keys, entry : Entries]
           \cup [op : {"clear"}]

Reading == {"find", "unlock_shared"}
Writing == {"evict", "insert", "order", "erase", "erase_order",
            "clear_map", "clear_list", "clear_iterators", "unlock"}
Locations == {"idle", "lock_shared", "lock"} \cup Reading \cup Writing

Init ==
  /\ cache = EmptyCache
  /\ got = [t \in Threads |-> Nullopt]
  /\ readers = {}
  /\ writer = NoThread
  /\ pc = [t \in Threads |-> "idle"]
  /\ call = [t \in Threads |-> NoCall]
  /\ calls = [t \in Threads |-> 0]

-----------------------------------------------------------------------------

Goto(t, from, to) == pc[t] = from /\ pc' = [pc EXCEPT ![t] = to]

Begin(t, c) ==
  /\ calls[t] < MaxCalls
  /\ Goto(t, "idle", IF c.op = "get" THEN "lock_shared" ELSE "lock")
  /\ call' = [call EXCEPT ![t] = c]
  /\ calls' = [calls EXCEPT ![t] = @ + 1]
  /\ UNCHANGED <<cache, got, readers, writer>>

Return(t, from) ==
  /\ Goto(t, from, "idle")
  /\ call' = [call EXCEPT ![t] = NoCall]
  /\ UNCHANGED <<cache, got, calls>>

(* ReaderLock, WriterLock. *)

\* Variant of LockShared: no lock at all.
ReadUnlocked(t) ==
  /\ Goto(t, "lock_shared", "find")
  /\ readers' = readers \cup {t}
  /\ UNCHANGED <<cache, got, writer, call, calls>>

LockShared(t) ==
  /\ Goto(t, "lock_shared", "find")
  /\ writer = NoThread
  /\ readers' = readers \cup {t}
  /\ UNCHANGED <<cache, got, writer, call, calls>>

UnlockShared(t) ==
  /\ Return(t, "unlock_shared")
  /\ readers' = readers \ {t}
  /\ UNCHANGED writer

FirstStep(op) == CASE op = "put" -> "evict"
                   [] op = "remove" -> "erase"
                   [] OTHER -> "clear_map"

\* Variants of Lock: beside readers; beside another writer.
LockBesideReaders(t) ==
  /\ Goto(t, "lock", FirstStep(call[t].op))
  /\ writer = NoThread
  /\ writer' = t
  /\ UNCHANGED <<cache, got, readers, call, calls>>

LockBesideWriter(t) ==
  /\ Goto(t, "lock", FirstStep(call[t].op))
  /\ readers = {}
  /\ writer' = t
  /\ UNCHANGED <<cache, got, readers, call, calls>>

Lock(t) ==
  /\ Goto(t, "lock", FirstStep(call[t].op))
  /\ writer = NoThread /\ readers = {}
  /\ writer' = t
  /\ UNCHANGED <<cache, got, readers, call, calls>>

Unlock(t) ==
  /\ Return(t, "unlock")
  /\ writer' = NoThread
  /\ UNCHANGED readers

(* get, under the shared lock. *)

Find(t) ==
  /\ Goto(t, "find", "unlock_shared")
  /\ got' = [got EXCEPT ![t] = Lookup(cache, call[t].key)]
  /\ UNCHANGED <<cache, readers, writer, call, calls>>

(* put, remove and clear, under the exclusive lock. *)

Change(t, from, to, c) ==
  /\ Goto(t, from, to)
  /\ cache' = c
  /\ UNCHANGED <<got, readers, writer, call, calls>>

Evict(t) == Change(t, "evict", "insert", MakeRoom(cache))

InsertEntry(t) ==
  /\ pc[t] = "insert"
  /\ Change(t, "insert", "order", Insert(cache, call[t].key, call[t].entry))

Order(t) ==
  /\ pc[t] = "order"
  /\ \E n \in FreeNodes(cache, call[t].key) :
        Change(t, "order", "unlock", UpdateAccessOrder(cache, call[t].key, n))

EraseKey(t) ==
  /\ pc[t] = "erase"
  /\ IF call[t].key \in Stored(cache)
     THEN Change(t, "erase", "erase_order", EraseEntry(cache, call[t].key))
     ELSE Change(t, "erase", "unlock", cache)

EraseKeyOrder(t) ==
  /\ pc[t] = "erase_order"
  /\ Change(t, "erase_order", "unlock", EraseOrder(cache, call[t].key))

ClearMap(t) ==
  Change(t, "clear_map", "clear_list",
         [cache_map |-> NoEntries,
          access_order |-> cache.access_order,
          key_to_iterator |-> cache.key_to_iterator])

\* Variant of ClearList: forgotten.
ClearListForgotten(t) == Change(t, "clear_list", "clear_iterators", cache)

ClearList(t) ==
  Change(t, "clear_list", "clear_iterators",
         [cache_map |-> cache.cache_map,
          access_order |-> <<>>,
          key_to_iterator |-> cache.key_to_iterator])

ClearIterators(t) ==
  Change(t, "clear_iterators", "unlock",
         [cache_map |-> cache.cache_map,
          access_order |-> cache.access_order,
          key_to_iterator |-> NoIterators])

-----------------------------------------------------------------------------

Step(t) ==
  \/ LockShared(t) \/ Find(t) \/ UnlockShared(t)
  \/ Lock(t) \/ Unlock(t)
  \/ Evict(t) \/ InsertEntry(t) \/ Order(t)
  \/ EraseKey(t) \/ EraseKeyOrder(t)
  \/ ClearMap(t) \/ ClearList(t) \/ ClearIterators(t)

\* Every thread has made all its calls.
Done == \A t \in Threads : pc[t] = "idle" /\ calls[t] = MaxCalls

Next ==
  \/ \E t \in Threads, c \in Calls : Begin(t, c)
  \/ \E t \in Threads : Step(t)
  \/ Done /\ UNCHANGED vars

Spec == Init /\ [][Next]_vars

-----------------------------------------------------------------------------

TypeOK ==
  /\ cache \in Caches
  /\ got \in [Threads -> Entries \cup {Nullopt}]
  /\ readers \subseteq Threads
  /\ writer \in Threads \cup {NoThread}
  /\ pc \in [Threads -> Locations]
  /\ call \in [Threads -> Calls \cup {NoCall}]
  /\ calls \in [Threads -> 0 .. MaxCalls]

\* Whoever looks into the containers, a reader in find or a thread that is
\* about to lock them, finds the map, the list and the iterators in agreement:
\* the halves of put, remove and clear are never seen.
NoTornReads ==
  (\E t \in Threads : pc[t] \in {"find", "evict", "erase", "clear_map"})
     => CoherentCache(cache)

\* No two threads are in bodies of which one changes the containers.
ExclusiveWriter ==
  \A t, u \in Threads :
     pc[t] \in Writing /\ t # u => pc[u] \notin Writing \cup Reading
=============================================================================
