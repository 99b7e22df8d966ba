------------------------- MODULE SharedCacheHistory -------------------------
(***************************************************************************)
(* The refinement of SharedCache to Cache.  The history variable committed *)
(* holds the containers as the last finished body left them: each put,     *)
(* remove and clear takes effect at once at its last change, before its    *)
(* thread lets go of the mutex.                                            *)
(***************************************************************************)
EXTENDS SharedCache

VARIABLE committed

hvars == <<cache, got, readers, writer, pc, call, calls, committed>>

LastChange == {"order", "erase_order", "clear_iterators"}

HInit == Init /\ committed = cache

HNext ==
  /\ Next
  /\ committed' = IF \E t \in Threads : pc[t] \in LastChange /\ pc'[t] = "unlock"
                  THEN cache'
                  ELSE committed

HSpec == HInit /\ [][HNext]_hvars

\* Where the containers stand while t is in a body.
ProgressOf(t) ==
  /\ pc[t] \in Reading \cup {"evict", "erase", "clear_map", "unlock"}
        => cache = committed
  /\ pc[t] = "insert" => cache = MakeRoom(committed)
  /\ pc[t] = "order"
        => cache = Insert(MakeRoom(committed), call[t].key, call[t].entry)
  /\ pc[t] = "erase_order"
        => /\ call[t].key \in Stored(committed)
           /\ cache = EraseEntry(committed, call[t].key)
  /\ pc[t] = "clear_list" => cache.cache_map = NoEntries
  /\ pc[t] = "clear_iterators"
        => cache.cache_map = NoEntries /\ cache.access_order = <<>>

\* Between the first and the last change of a body the containers are exactly
\* as far from the last finished body's as the helper calls made so far take
\* them: nothing another thread does comes in between.
Progress == \A t \in Threads : ProgressOf(t)

Atomic == INSTANCE Cache WITH cache <- committed

\* Under the mutex the calls of the threads amount to whole member functions,
\* one after the other: what a get returns is what the puts, removes and clears
\* finished before it left, never a part of one.
ImplementsCache == Atomic!Spec
=============================================================================
