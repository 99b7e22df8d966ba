--------------------------- MODULE CacheContract ----------------------------
(***************************************************************************)
(* What class Cache promises the threads that use it, without its          *)
(* containers: one list of stored responses, the most recently stored      *)
(* first.  Storing moves a key to the front with its new response; at      *)
(* capacity the response stored longest ago is given up first.  A lookup   *)
(* returns the last response stored under its key and changes nothing.     *)
(***************************************************************************)
EXTENDS Naturals, Sequences, SequencesExt

CONSTANTS Keys, Entries, MaxEntries, Nullopt, Threads

VARIABLES responses,   \* sequence of [key, entry], newest store first
          got

vars == <<responses, got>>

Response == [key : Keys, entry : Entries]

Without(list, k) == RemoveFirstMatch(list, LAMBDA r : r.key = k)

Newest(k) ==
  IF \E i \in DOMAIN responses : responses[i].key = k
  THEN responses[CHOOSE i \in DOMAIN responses : responses[i].key = k].entry
  ELSE Nullopt

Init ==
  /\ responses = <<>>
  /\ got = [t \in Threads |-> Nullopt]

Get(t, k) ==
  /\ got' = [got EXCEPT ![t] = Newest(k)]
  /\ UNCHANGED responses

Put(k, e) ==
  LET kept == IF Len(responses) >= MaxEntries /\ responses # <<>>
              THEN Front(responses)
              ELSE responses
  IN /\ responses' = <<[key |-> k, entry |-> e]>> \o Without(kept, k)
     /\ UNCHANGED got

RemoveKey(k) ==
  /\ responses' = Without(responses, k)
  /\ UNCHANGED got

Clear ==
  /\ responses' = <<>>
  /\ UNCHANGED got

Next ==
  \/ \E t \in Threads, k \in Keys : Get(t, k)
  \/ \E k \in Keys, e \in Entries : Put(k, e)
  \/ \E k \in Keys : RemoveKey(k)
  \/ Clear

Spec == Init /\ [][Next]_vars
=============================================================================
