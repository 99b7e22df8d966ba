------------------------------- MODULE Tunnel -------------------------------
(***************************************************************************)
(* processConnectRequest and tunnelTraffic (handler.cpp): after a CONNECT  *)
(* the thread polls both sockets, which it has made non-blocking, and      *)
(* passes on what one recv returns, first to the origin, then to the       *)
(* client.  The 30 s timeout of poll only polls again.                     *)
(***************************************************************************)
EXTENDS Streams, FiniteSets

VARIABLES revents,       \* what poll returned: sets of peers, by event
          closed,        \* client_closed and server_closed
          early,         \* how much of the client's stream the first recv took
          dropped        \* history: peers to whom a send failed

tunnel == <<revents, closed, early, dropped>>

NoEvents == [in |-> {}, hup |-> {}, failed |-> FALSE]

TunnelInit == revents = NoEvents /\ closed = {} /\ early = 0 /\ dropped = {}

\* As in Forward, but the host is not looked at: gethostbyname does not find
\* the empty name.
Dial ==
  /\ \/ Error("dial", "500") /\ UNCHANGED streams
     \/ request.port # "text" /\ Error("dial", "502") /\ UNCHANGED streams
     \/ /\ request.port # "text" /\ request.host # "none"
        /\ Goto("dial", "establish")
        /\ out' = <<"200">>
        /\ Connected
  /\ UNCHANGED <<peers, tunnel>>

Establish ==
  /\ \/ pc = "establish" /\ SendSome("client") /\ UNCHANGED pc
     \/ out = <<>> /\ Goto("establish", "poll") /\ UNCHANGED <<streams, out>>
     \/ /\ SendFails("client")
        /\ Goto("establish", "finish")
        /\ out' = <<>>
        /\ UNCHANGED streams
  /\ UNCHANGED <<peers, tunnel>>

\* Variant of Hangups: a peer that has only ended its stream counts.
HangupsHalf == {p \in Peers : Left(p)}

\* POLLHUP and POLLERR come with a broken connection, not with the end of one
\* stream.
Hangups == {p \in Peers : link[p] = "reset"}

Poll ==
  /\ Goto("poll", "client")
  /\ \E p \in Peers : Readable(p)
  /\ revents' = [in |-> {p \in Peers : Readable(p)}, hup |-> Hangups, failed |-> FALSE]
  /\ UNCHANGED <<peers, streams, out, closed, early, dropped>>

PollFails ==
  /\ Goto("poll", "finish")
  /\ revents' = [NoEvents EXCEPT !.failed = TRUE]
  /\ UNCHANGED <<peers, streams, out, closed, early, dropped>>

\* Where the thread receives from p, where it passes that on, and what is next.
Passing(p) == IF p = "client" THEN "to origin" ELSE "to client"
After(p) == IF p = "client" THEN "origin" ELSE "hangup"

\* Variant of IsClosed: a recv of nothing is no event.
NeverClosed(units) == FALSE

IsClosed(units) == units = <<>>

TakeFrom(p) ==
  /\ pc = p
  /\ IF p \notin revents.in
     THEN Goto(p, After(p)) /\ UNCHANGED <<streams, out, closed>>
     ELSE /\ Recv(p)
          /\ out' = Received(p)
          /\ IF IsClosed(Received(p))
             THEN closed' = closed \cup {p} /\ Goto(p, After(p))
             ELSE Goto(p, Passing(p)) /\ UNCHANGED closed
  /\ UNCHANGED <<peers, revents, early, dropped>>

\* Variant of MarkClosed: what was not sent is skipped.
SkipUnsent(p) == closed

MarkClosed(p) == closed \cup {p}

PassOn(p) ==
  /\ \/ pc = Passing(p) /\ SendSome(Other(p)) /\ UNCHANGED <<pc, closed, dropped>>
     \/ /\ out = <<>>
        /\ Goto(Passing(p), After(p))
        /\ UNCHANGED <<streams, out, closed, dropped>>
     \/ /\ SendFailsNow(Other(p))
        /\ Goto(Passing(p), After(p))
        /\ closed' = MarkClosed(Other(p))
        /\ dropped' = dropped \cup {Other(p)}
        /\ out' = <<>>
        /\ UNCHANGED streams
  /\ UNCHANGED <<peers, revents, early>>

CheckHangup ==
  /\ Goto("hangup", IF revents.hup = {} /\ closed = {} THEN "poll" ELSE "finish")
  /\ revents' = NoEvents
  /\ UNCHANGED <<peers, streams, out, closed, early, dropped>>

TunnelStep ==
  \/ Dial \/ Establish \/ Poll \/ CheckHangup
  \/ \E p \in Peers : TakeFrom(p) \/ PassOn(p)
=============================================================================
