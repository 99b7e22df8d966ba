----------------------------- MODULE Connection -----------------------------
(***************************************************************************)
(* handle_connection (handler.cpp) over the byte streams: one recv of the  *)
(* request, then an exchange with an origin or a tunnel to one, then the   *)
(* end.  The cache is not looked into: a GET is one that misses.           *)
(***************************************************************************)
EXTENDS Exchange, Tunnel

vars == <<peers, streams, pc, out, header, framing, body, stored, tunnel>>

exchange == <<header, framing, body, stored>>

TunnelLocations == {"poll", "client", "origin", "to client", "to origin", "hangup"}

Locations ==
  {"recv", "forward", "request", "header", "relay", "parse", "body", "pass",
   "store", "dial", "establish", "error", "finish", "ended"} \cup TunnelLocations

Init == StreamsInit /\ ExchangeInit /\ TunnelInit /\ pc = "recv"

\* The request is what one recv returns.  Request::parse rejects it without
\* the empty line that ends its header.  What a recv takes behind the header
\* goes with a POST to the origin; behind a CONNECT it goes nowhere.
ReceiveRequest ==
  LET received == Received("client")
      method == request.method
  IN  /\ Recv("client")
      /\ CASE received = <<>> -> Goto("recv", "ended") /\ UNCHANGED out
           [] received # <<>> /\ "blank" \notin ToSet(received) -> Error("recv", "400")
           [] "blank" \in ToSet(received) /\ method = "other" -> Error("recv", "501")
           [] "blank" \in ToSet(received) /\ method = "CONNECT" ->
                Goto("recv", "dial") /\ UNCHANGED out
           [] OTHER -> Goto("recv", "forward") /\ UNCHANGED out
      /\ request_str' = received
      /\ early' = IF method = "CONNECT" THEN Len(received) ELSE 0
      /\ UNCHANGED <<peers, response_str, framing, body, stored,
                     revents, closed, dropped>>

\* sendErrorResponse, whose result nobody looks at.
SendError ==
  /\ \/ pc = "error" /\ SendSome("client") /\ UNCHANGED pc
     \/ /\ out = <<>> \/ SendFails("client")
        /\ Goto("error", "finish")
        /\ out' = <<>>
        /\ UNCHANGED streams
  /\ UNCHANGED <<peers, exchange, tunnel>>

\* shutdownWrite or close, and the thread ends.
Finish ==
  /\ Goto("finish", "ended")
  /\ UNCHANGED <<peers, streams, out, exchange, tunnel>>

ThreadStep ==
  \/ ReceiveRequest \/ SendError \/ Finish
  \/ ExchangeStep /\ UNCHANGED tunnel
  \/ TunnelStep /\ UNCHANGED exchange

\* After the thread's end nothing depends on the peers.
Environment ==
  \/ /\ pc # "ended"
     /\ \E p \in Peers : PeerStep(p)
     /\ UNCHANGED <<pc, out, exchange, tunnel>>
  \/ PollFails /\ UNCHANGED exchange
  \/ pc = "ended" /\ UNCHANGED vars

Next == ThreadStep \/ Environment

Spec == Init /\ [][Next]_vars

\* The thread runs.  Nothing is assumed of the peers.
FairSpec == Spec /\ WF_vars(ThreadStep)

-----------------------------------------------------------------------------

TypeOK ==
  /\ StreamsTypeOK
  /\ pc \in Locations
  /\ {request_str, response_str, response_buffer, buf} \subseteq Seq(Units)
  /\ stored \in Seq(Units) \cup {NotStored}
  /\ content_length \in 0 .. SizeMax
  /\ is_chunked \in BOOLEAN
  /\ body_received \in Nat
  /\ revents \in [in : SUBSET Peers, hup : SUBSET Peers, failed : BOOLEAN]
  /\ closed \subseteq Peers /\ dropped \subseteq Peers
  /\ early \in 0 .. MaxRecv

-----------------------------------------------------------------------------
(* Both directions are pipes.  A tunnel begins behind what the first recv   *)
(* took; the client's stream has what the proxy says itself taken out.      *)

Begun == request.method = "CONNECT" => early > 0

SentByClient ==
  IF Begun THEN SubSeq(request.wire, early + 1, arrived["client"]) ELSE <<>>

SentByOrigin == SubSeq(message.wire, 1, arrived["origin"])

ToOrigin == INSTANCE Pipe WITH sent <- SentByClient,
                               received <- Passed("origin"),
                               open <- pc # "ended"

ToClient == INSTANCE Pipe WITH sent <- SentByOrigin,
                               received <- Passed("client"),
                               open <- pc # "ended"

\* Through any mixture of partial sends, would-block failures, half-closes and
\* resets the origin gets a beginning of what its client sent: nothing is
\* skipped, repeated or reordered, and nothing comes after the end.
ClientToOrigin == ToOrigin!Spec

\* The same for the client, whose header and body come out of two loops.
OriginToClient == ToClient!Spec

\* The body loop ends by itself, with the origin still there, only if the
\* client has the whole response.  Excepted are the two contents that the code
\* takes for the end or the length: one that looks like a last chunk, and one
\* that reads like a Content-Length, came with a header that has none, and is
\* searched like it (handler.cpp:396-401).
StopsOnlyWhenComplete ==
  /\ pc = "store" /\ ~ Left("origin")
  /\ "zero" \notin ToSet(message.wire)
  /\ "length" \in ToSet(BodyPart) => FramedByLength(message.wire)
  => Passed("client") = message.wire

\* What is stored is exactly the body that the client was given, the part
\* that came with the header and every recv after it.
CachedIsForwarded ==
  stored # NotStored => IsSuffix(<<"blank">> \o stored, Passed("client"))

\* If a tunnel ends because one side closed, all that this side had sent
\* before was handed to the other: its end of stream does not overtake data.
\* (A reset, or a receiver too slow for the non-blocking send, may lose some.)
ClosingSideDelivered ==
  /\ request.method = "CONNECT" /\ pc = "ended"
  /\ link["origin"] # "none" /\ "reset" \notin {link[p] : p \in Peers}
  /\ dropped = {} /\ ~ revents.failed
  => \/ link["client"] = "shut" /\ Passed("origin") = SentByClient
     \/ link["origin"] = "shut" /\ Passed("client") = SentByOrigin

\* A blocking send to a peer that is there and does not read.
Blocked ==
  \E p \in Peers : /\ pc \in IF p = "client" THEN {"relay", "pass", "error", "establish"}
                             ELSE {"request"}
                   /\ out # <<>> /\ Room(p) = 0 /\ link[p] # "reset"

\* The thread outlives its origin, or either side of its tunnel, only while it
\* is blocked in a send.
EndsWhenPeerLeaves ==
  /\ Left("origin") ~> pc = "ended" \/ Blocked
  /\ pc \in TunnelLocations /\ Left("client") ~> pc = "ended"

\* A response with a Content-Length ends the thread though the origin keeps
\* the connection open, if some of its body is still to come after the header.
LengthEnds ==
  /\ pc = "body" /\ 0 < content_length /\ ~ is_chunked
  /\ body_received < content_length
  /\ content_length = Len(message.wire) - 2
  /\ arrived["origin"] = Len(message.wire)
  ~> pc = "ended" \/ Blocked

\* What a hit serves is what the origin has sent as content: the body to its
\* end, without the lines of chunked coding, which a hit does not announce.
Coding == {"size", "last", "end"}

HitServesContent ==
  stored # NotStored =>
    stored = SelectSeq(SubSeq(message.wire, 3, Len(message.wire)),
                       LAMBDA unit : unit \notin Coding)
=============================================================================
