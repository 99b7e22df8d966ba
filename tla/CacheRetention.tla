--------------------------- MODULE CacheRetention ---------------------------
(***************************************************************************)
(* How long an entry stays in the cache, and which one it is.  The history *)
(* variable since[k] counts the puts that followed the last put of k, up   *)
(* to MaxEntries, at which the count says nothing more; it starts there,   *)
(* and remove and clear put it back there.  latest[k] is the entry of the  *)
(* last put of k, Nullopt before the first one and after remove and clear. *)
(***************************************************************************)
EXTENDS Cache

VARIABLES since, latest

hvars == <<cache, got, since, latest>>

RInit ==
  /\ Init
  /\ since = [k \in Keys |-> MaxEntries]
  /\ latest = [k \in Keys |-> Nullopt]

RGet(t, k) == Get(t, k) /\ UNCHANGED <<since, latest>>

RPut(k, e) ==
  /\ Put(k, e)
  /\ since' = [x \in Keys |-> IF x = k THEN 0
                              ELSE IF since[x] < MaxEntries THEN since[x] + 1
                              ELSE MaxEntries]
  /\ latest' = [latest EXCEPT ![k] = e]

RRemoveKey(k) ==
  /\ RemoveKey(k)
  /\ since' = [since EXCEPT ![k] = MaxEntries]
  /\ latest' = [latest EXCEPT ![k] = Nullopt]

RClear ==
  /\ Clear
  /\ since' = [k \in Keys |-> MaxEntries]
  /\ latest' = [k \in Keys |-> Nullopt]

RNext ==
  \/ \E t \in Threads, k \in Keys : RGet(t, k)
  \/ \E k \in Keys, e \in Entries : RPut(k, e)
  \/ \E k \in Keys : RRemoveKey(k)
  \/ RClear

RSpec == RInit /\ [][RNext]_hvars

RTypeOK ==
  /\ TypeOK
  /\ since \in [Keys -> 0 .. MaxEntries]
  /\ latest \in [Keys -> Entries \cup {Nullopt}]

\* A response that was stored, and not removed or cleared, is still in the
\* cache as long as fewer than MaxEntries puts followed, whichever keys they
\* stored and however often they replaced the same one.
Retained == \A k \in Keys : since[k] < MaxEntries => k \in Stored(cache)

\* The strengthening that makes Retained inductive: a key moves one position
\* towards the back with each put of another key, and no faster.
PositionBound ==
  \A i \in DOMAIN cache.access_order :
     since[cache.access_order[i].key] < MaxEntries
        => i <= since[cache.access_order[i].key] + 1

\* A get returns the response stored last under its key, or none: a response
\* that put replaced, or that remove or clear took out, never comes back.
GetReturnsLatest ==
  \A k \in Keys : Lookup(cache, k) \in {latest[k], Nullopt}
=============================================================================
