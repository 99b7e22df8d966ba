----------------------------- MODULE CacheUsage -----------------------------
(***************************************************************************)
(* Which entry an eviction gives up.  The history variable used lists the  *)
(* keys in the order of their last use, latest first, where a use is a put *)
(* or a get that finds the key.                                            *)
(***************************************************************************)
EXTENDS Cache

VARIABLE used

uvars == <<cache, got, used>>

Touched(k) == <<k>> \o RemoveFirst(used, k)

UInit == Init /\ used = <<>>

UNext ==
  \/ \E t \in Threads, k \in Keys :
        /\ Get(t, k)
        /\ used' = IF k \in Stored(cache) THEN Touched(k) ELSE used
  \/ \E k \in Keys, e \in Entries : Put(k, e) /\ used' = Touched(k)
  \/ \E k \in Keys : RemoveKey(k) /\ used' = RemoveFirst(used, k)
  \/ Clear /\ used' = <<>>

USpec == UInit /\ [][UNext]_uvars

UsedAt(k) == CHOOSE i \in DOMAIN used : used[i] = k

\* The entry that a put of a new key evicts is the least recently used of those
\* stored: every other one was stored or looked up after it.
EvictsLeastRecentlyUsed ==
  [][\A k \in Keys \ Stored(cache), e \in Entries :
        Put(k, e) =>
          \A victim \in Stored(cache) \ Stored(cache)' :
             \A other \in Stored(cache) : UsedAt(other) <= UsedAt(victim)]_uvars
=============================================================================
