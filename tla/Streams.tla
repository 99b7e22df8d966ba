------------------------------ MODULE Streams -------------------------------
(***************************************************************************)
(* One connection of the proxy as its thread sees it: the byte streams to  *)
(* and from its client and its origin, the calls recv and send on them,    *)
(* and the two peers (external).  A unit stands for some consecutive bytes *)
(* that the code tells apart; recv may cut a stream between any two.       *)
(***************************************************************************)
EXTENDS Integers, Sequences, SequencesExt

CONSTANTS Units,         \* what the peers' streams are made of
          Encounters,    \* pairs of a request [method, host, port, wire]
                         \* and what the origin sends, see Exchange; to a
                         \* CONNECT [wire]
          MaxRecv,       \* BUFFER_SIZE, in units
          MaxSend        \* what the kernel takes before the peer reads

\* What the proxy says itself: a tunnel's 200 and the error responses.
Statuses == {"200", "400", "500", "501", "502"}

ASSUME StreamsAssumption ==
  /\ MaxRecv \in Nat \ {0} /\ MaxSend \in Nat \ {0}
  /\ Units \cap Statuses = {}
  /\ \A e \in Encounters : /\ e = <<e[1], e[2]>>
                           /\ e[1].wire \in Seq(Units) /\ e[2].wire \in Seq(Units)

VARIABLES request,       \* what the client sends on this connection
          message,       \* what the origin sends
          link,          \* link[p]: what the kernel knows of the peer p
          arrived,       \* arrived[p]: units of p that have arrived
          taken,         \* taken[p]: units of p the thread has received
          given,         \* given[p]: what the kernel took for p
          read,          \* read[p]: how much of that p has read
          pc,            \* where the thread is
          out            \* what sendAll has still to send

peers == <<request, message>>
streams == <<link, arrived, taken, given, read>>

Peers == {"client", "origin"}
Other(p) == IF p = "client" THEN "origin" ELSE "client"

Wire(p) == IF p = "client" THEN request.wire ELSE message.wire

StreamsInit ==
  /\ \E e \in Encounters : request = e[1] /\ message = e[2]
  /\ link = [p \in Peers |-> IF p = "client" THEN "open" ELSE "none"]
  /\ arrived = [p \in Peers |-> 0]
  /\ taken = [p \in Peers |-> 0]
  /\ given = [p \in Peers |-> <<>>]
  /\ read = [p \in Peers |-> 0]
  /\ out = <<>>

-----------------------------------------------------------------------------
(* The peers.  Each may stop at any time, leave in an orderly way (its end  *)
(* of stream arrives behind its data) or break off.                         *)

PeerSends(p) ==
  /\ link[p] = "open" /\ arrived[p] < Len(Wire(p))
  /\ arrived' = [arrived EXCEPT ![p] = @ + 1]
  /\ UNCHANGED <<peers, link, taken, given, read>>

PeerReads(p) ==
  /\ link[p] \in {"open", "shut"} /\ read[p] < Len(given[p])
  /\ read' = [read EXCEPT ![p] = @ + 1]
  /\ UNCHANGED <<peers, link, arrived, taken, given>>

PeerShuts(p) ==
  /\ link[p] = "open"
  /\ link' = [link EXCEPT ![p] = "shut"]
  /\ UNCHANGED <<peers, arrived, taken, given, read>>

PeerResets(p) ==
  /\ link[p] \in {"open", "shut"}
  /\ link' = [link EXCEPT ![p] = "reset"]
  /\ UNCHANGED <<peers, arrived, taken, given, read>>

PeerStep(p) == PeerSends(p) \/ PeerReads(p) \/ PeerShuts(p) \/ PeerResets(p)

Left(p) == link[p] \in {"shut", "reset"}

-----------------------------------------------------------------------------
(* System calls of the thread.                                              *)

\* What has arrived is received before the end of stream or the error.
Readable(p) == taken[p] < arrived[p] \/ Left(p)

\* Variant of Received: a whole buffer, whatever recv has returned.
ReceivedFull(p) == SubSeq(Wire(p), taken[p] + 1, taken[p] + MaxRecv)

\* The units recv returns, at most a buffer full; none for 0 and for -1, which
\* every caller treats alike.
Received(p) ==
  LET queued == SubSeq(Wire(p), taken[p] + 1, arrived[p])
  IN  SubSeq(queued, 1, IF Len(queued) < MaxRecv THEN Len(queued) ELSE MaxRecv)

\* A blocking recv waits for Readable; after a poll it is known.
Recv(p) ==
  /\ Readable(p)
  /\ taken' = [taken EXCEPT ![p] = @ + Len(Received(p))]
  /\ UNCHANGED <<link, arrived, given, read>>

Room(p) == MaxSend - (Len(given[p]) - read[p])

Connected ==
  /\ link' = [link EXCEPT !["origin"] = "open"]
  /\ UNCHANGED <<arrived, taken, given, read>>

\* Variant of SendSome: what one send did not take is forgotten.
SendOnce(p) ==
  LET n == IF Len(out) < Room(p) THEN Len(out) ELSE Room(p)
  IN  /\ link[p] # "reset" /\ n > 0
      /\ given' = [given EXCEPT ![p] = @ \o SubSeq(out, 1, n)]
      /\ out' = <<>>
      /\ UNCHANGED <<link, arrived, taken, read>>

\* One turn of sendAll's loop that gets something through.
SendSome(p) ==
  LET n == IF Len(out) < Room(p) THEN Len(out) ELSE Room(p)
  IN  /\ link[p] # "reset" /\ n > 0
      /\ given' = [given EXCEPT ![p] = @ \o SubSeq(out, 1, n)]
      /\ out' = SubSeq(out, n + 1, Len(out))
      /\ UNCHANGED <<link, arrived, taken, read>>

\* sendAll has something left to send and send fails.  On a socket that is
\* not blocking it fails also for want of room.
SendFails(p) == out # <<>> /\ link[p] = "reset"
SendFailsNow(p) == out # <<>> /\ (link[p] = "reset" \/ Room(p) = 0)

Goto(from, to) == pc = from /\ pc' = to

\* sendErrorResponse, up to the end of the connection.
Error(from, status) ==
  /\ Goto(from, "error")
  /\ out' = <<status>>

\* The proxy says something itself only before all or behind all that it
\* passes on.
IsOwn(units, i) == i \in DOMAIN units /\ units[i] \in Statuses

WithoutOwn(units) ==
  SubSeq(units, IF IsOwn(units, 1) THEN 2 ELSE 1,
                IF IsOwn(units, Len(units)) THEN Len(units) - 1 ELSE Len(units))

\* What p was given of the other peer's stream.
Passed(p) == WithoutOwn(given[p])

StreamsTypeOK ==
  /\ <<request, message>> \in Encounters
  /\ link \in [Peers -> {"none", "open", "shut", "reset"}]
  /\ {arrived, taken, read} \subseteq [Peers -> Nat]
  /\ given \in [Peers -> Seq(Units \cup Statuses)]
  /\ out \in Seq(Units \cup Statuses)
  /\ \A p \in Peers : /\ taken[p] \in 0 .. arrived[p]
                      /\ arrived[p] \in 0 .. Len(Wire(p))
                      /\ read[p] \in 0 .. Len(given[p])
                      /\ Room(p) \in 0 .. MaxSend
=============================================================================
