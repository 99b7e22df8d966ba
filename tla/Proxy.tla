------------------------------- MODULE Proxy --------------------------------
(***************************************************************************)
(* The connection threads of class Handler (handler.cpp) around the shared *)
(* cache: one thread per accepted connection, one request per connection.  *)
(* A GET looks into the cache and is served from it or forwarded; a POST   *)
(* is forwarded; a 200 answer to a GET is stored if its header allows.     *)
(*                                                                         *)
(* The cache is CacheContract, which the containers and the lock are shown *)
(* to implement; what a response's header means for the cache is           *)
(* ResponseOps; CONNECT and the byte stream are modelled apart.            *)
(***************************************************************************)
EXTENDS ResponseOps, FiniteSets

CONSTANTS Threads,        \* threads that exist at the same time
          Hosts, NoHost,  \* NoHost: a request without a Host header
          Ports, Uris,
          Policies,       \* header lines an origin may send behind the Date
          MaxEntries,
          Nullopt,
          MaxVersion,     \* bound: versions of a resource
          MaxConnections, \* bound: connections accepted
          Start, End      \* the clock runs from Start to End

ASSUME ProxyAssumption ==
  /\ NoHost \notin Hosts
  /\ Policies \subseteq Seq(Lines)
  /\ \A policy \in Policies : \A i \in DOMAIN policy : policy[i].name # "Date"
  /\ Start \in Nat /\ End \in Nat /\ Start <= End
  /\ Start .. End \subseteq Times
  /\ MaxVersion \in Nat \ {0}
  /\ MaxConnections \in Nat

Resources == Hosts \X Ports \X Uris

\* What arrives on a connection: a request, a method the proxy does not know,
\* something that is no request, or nothing.
Requests ==
  [method : {"GET", "POST", "CONNECT"}, host : Hosts \cup {NoHost}, port : Ports, uri : Uris]
    \cup [method : {"other", "invalid", "closed"}]

\* What an origin sends: the version of which resource, under which status
\* ("length" is a 200 with a Content-Length, in its header or in text that came
\* with it, that std::stoi rejects), which header.
Answers == [resource : Resources, version : 1 .. MaxVersion,
            kind : {"200", "404", "length"}, head : Seq(Lines)]

VARIABLES responses,      \* the cache, newest store first
          got,            \* got[t]: what the cache returned to t
          resolved,       \* the static hostent of gethostbyname
          pc, request,
          peer,           \* peer[t]: host and port the origin socket of t is at
          answer,         \* answer[t]: what that origin sent
          sent,           \* sent[t]: what t has sent to its client
          gone,           \* gone[t]: its client left before the end
          origin,         \* origin[r]: when each version of r was published
          connections,    \* how many were accepted
          now

vars == <<responses, got, resolved, pc, request, peer, answer, sent, gone,
          origin, connections, now>>

NoRequest == [method |-> "none"]
NoPeer == <<>>
NoAnswer == [kind |-> "none"]

Locations == {"idle", "recv", "lookup", "check", "serve", "forward", "resolve",
              "connect", "await", "relay", "body", "store", "tunnel", "close"}

\* The key of the cache leaves the port out.
Url(req) == <<req.host, req.uri>>

TheCache == INSTANCE CacheContract
              WITH Keys <- (Hosts \cup {NoHost}) \X Uris, Entries <- {}

All(value) == [t \in Threads |-> value]

Init ==
  /\ TheCache!Init
  /\ resolved = NoHost
  /\ pc = All("idle")
  /\ request = All(NoRequest)
  /\ peer = All(NoPeer)
  /\ answer = All(NoAnswer)
  /\ sent = All(<<>>)
  /\ gone = All(FALSE)
  /\ origin = [r \in Resources |-> <<Start>>]
  /\ connections = 0
  /\ now = Start

-----------------------------------------------------------------------------
(* Steps of a thread change its own part of the state, and the cache or the *)
(* resolver's buffer where they say so.                                     *)

environment == <<origin, connections, now>>
theCache == <<responses, got>>
exchange == <<peer, answer>>

Goto(t, from, to) == pc[t] = from /\ pc' = [pc EXCEPT ![t] = to]

\* sendAll to the client: TRUE, or FALSE because the client left.
Send(t, parts) ==
  /\ sent' = [sent EXCEPT ![t] = @ \o parts]
  /\ UNCHANGED gone

ClientGone(t) ==
  /\ gone' = [gone EXCEPT ![t] = TRUE]
  /\ UNCHANGED sent

\* sendErrorResponse does not look whether its message was sent.
SendError(t, status) == Send(t, <<status>>) \/ ClientGone(t)

\* main accepts a connection and create_connection_thread starts its thread.
Accept(t, req) ==
  /\ connections < MaxConnections
  /\ connections' = connections + 1
  /\ Goto(t, "idle", "recv")
  /\ request' = [request EXCEPT ![t] = req]
  /\ UNCHANGED <<theCache, resolved, exchange, sent, gone, origin, now>>

\* handle_connection, down to the choice of the method.
HandleConnection(t) ==
  LET method == request[t].method
  IN  /\ Goto(t, "recv", CASE method = "GET" -> "lookup"
                           [] method = "POST" -> "forward"
                           [] method = "CONNECT" -> "resolve"
                           [] OTHER -> "close")
      /\ CASE method = "invalid" -> SendError(t, "400")
           [] method = "other" -> SendError(t, "501")
           [] method = "closed" -> ClientGone(t)
           [] OTHER -> UNCHANGED <<sent, gone>>
      /\ UNCHANGED <<theCache, resolved, request, exchange, environment>>

(* processGetRequest *)

Lookup(t) ==
  /\ Goto(t, "lookup", "check")
  /\ TheCache!Get(t, Url(request[t]))
  /\ UNCHANGED <<resolved, request, exchange, sent, gone, environment>>

\* Variant of Valid: any entry will do.
ValidIfStored(t) == got[t] # Nullopt

\* The clock is read here, some time after the lookup.
Valid(t) == got[t] # Nullopt /\ ~ IsExpired(got[t].expiry, now)

Check(t) ==
  /\ Goto(t, "check", IF Valid(t) THEN "serve" ELSE "forward")
  /\ UNCHANGED <<theCache, resolved, request, exchange, sent, gone, environment>>

Serve(t) ==
  /\ Goto(t, "serve", "close")
  /\ Send(t, <<"head", "body">>) \/ ClientGone(t)
  /\ answer' = [answer EXCEPT ![t] = got[t].answer]
  /\ UNCHANGED <<theCache, resolved, request, peer, environment>>

(* forwardRequest *)

Forward(t) ==
  /\ pc[t] = "forward"
  /\ IF request[t].host = NoHost
     THEN Goto(t, "forward", "close") /\ SendError(t, "400")
     ELSE Goto(t, "forward", "resolve") /\ UNCHANGED <<sent, gone>>
  /\ UNCHANGED <<theCache, resolved, request, exchange, environment>>

\* What handle_connection's catch answers before anything was sent: asctime's
\* buffer overwritten by another thread, no descriptor left for a socket, a
\* port that std::stoi rejects.
InternalError(t) ==
  /\ \/ pc[t] = "recv" /\ request[t].method \notin {"invalid", "closed"}
     \/ pc[t] = "forward" /\ request[t].host # NoHost
  /\ Goto(t, pc[t], "close")
  /\ SendError(t, "500")
  /\ UNCHANGED <<theCache, resolved, request, exchange, environment>>

\* Variant of BadGateway: no answer.
GiveUpSilently(t) ==
  /\ pc[t] \in {"resolve", "connect", "await"}
  /\ Goto(t, pc[t], "close")
  /\ UNCHANGED <<theCache, resolved, request, exchange, sent, gone, environment>>

\* The failures that end in 502: no such host, no connection, no answer.
BadGateway(t) ==
  /\ pc[t] \in {"resolve", "connect", "await"}
  /\ Goto(t, pc[t], "close")
  /\ SendError(t, "502")
  /\ UNCHANGED <<theCache, resolved, request, exchange, environment>>

\* gethostbyname returns a pointer to one buffer for the whole process.  The
\* empty name, which processConnectRequest does not look for, has no address.
Resolve(t) ==
  /\ Goto(t, "resolve", "connect")
  /\ request[t].host # NoHost
  /\ resolved' = request[t].host
  /\ UNCHANGED <<theCache, request, exchange, sent, gone, environment>>

Connect(t) ==
  /\ Goto(t, "connect", IF request[t].method = "CONNECT" THEN "tunnel" ELSE "await")
  /\ peer' = [peer EXCEPT ![t] = <<resolved, request[t].port>>]
  /\ UNCHANGED <<theCache, resolved, request, answer, sent, gone, environment>>

\* The client is told, then everything passes through; see module Tunnel.
TunnelTraffic(t) ==
  /\ Goto(t, "tunnel", "close")
  /\ Send(t, <<"200">>) \/ ClientGone(t)
  /\ UNCHANGED <<theCache, resolved, request, exchange, environment>>

\* The origin gets the request and sends its answer, dated.  A POST that it
\* accepts makes a new version.
OriginAnswers(t, kind, policy) ==
  LET r == <<peer[t][1], peer[t][2], request[t].uri>>
      post == request[t].method = "POST" /\ kind = "200"
  IN  /\ Goto(t, "await", "relay")
      /\ post => Len(origin[r]) < MaxVersion
      /\ origin' = IF post THEN [origin EXCEPT ![r] = Append(@, now)] ELSE origin
      /\ answer' = [answer EXCEPT ![t] =
                      [resource |-> r, version |-> Len(origin'[r]), kind |-> kind,
                       head |-> <<[name |-> "Date", time |-> now]>> \o policy]]
      /\ UNCHANGED <<theCache, resolved, request, peer, sent, gone, connections,
                     now>>

\* The header goes to the client before it is looked into; std::stoi may then
\* throw, and handle_connection sends a 500 behind it.
Relay(t) ==
  /\ pc[t] = "relay"
  /\ \/ /\ answer[t].kind = "length"
        /\ Goto(t, "relay", "close")
        /\ Send(t, <<"head", "500">>) \/ ClientGone(t)
     \/ /\ answer[t].kind # "length"
        /\ Goto(t, "relay", "body")
        /\ Send(t, <<"head">>)
     \/ /\ answer[t].kind # "length"
        /\ Goto(t, "relay", "close")
        /\ ClientGone(t)
  /\ UNCHANGED <<theCache, resolved, request, exchange, environment>>

\* Variant of IsCacheable: the status is not looked at.
IsGet(t) == request[t].method = "GET"

IsCacheable(t) == request[t].method = "GET" /\ answer[t].kind = "200"

\* The body loop, see module Exchange: it goes on in the same way after a
\* complete body and after a cut one, and returns at once if the client left.
ReceiveBody(t) ==
  /\ pc[t] = "body"
  /\ \/ /\ Goto(t, "body", IF IsCacheable(t) THEN "store" ELSE "close")
        /\ Send(t, <<"body">>)
     \/ /\ Goto(t, "body", "close")
        /\ ClientGone(t)
  /\ UNCHANGED <<theCache, resolved, request, exchange, environment>>

Store(t) ==
  LET parsed == Parse(answer[t].head)
      entry == [answer |-> answer[t], method |-> request[t].method,
                expiry |-> Expiry(parsed, now)]
  IN  /\ Goto(t, "store", "close")
      /\ IF IsStorable(parsed)
         THEN TheCache!Put(Url(request[t]), entry)
         ELSE UNCHANGED theCache
      /\ UNCHANGED <<resolved, request, exchange, sent, gone, environment>>

\* Where a thread sends to its client, or to its origin.
Sending(t) ==
  \/ pc[t] \in {"serve", "forward", "resolve", "connect", "await", "relay", "body",
               "tunnel"}
  \/ pc[t] = "recv" /\ request[t].method # "closed"

\* A send to a peer that has left may also raise SIGPIPE, which the program
\* neither ignores nor handles: the process ends with all its threads, and
\* docker-compose starts it again.
Sigpipe ==
  /\ \E t \in Threads : Sending(t)
  /\ responses' = <<>> /\ got' = All(Nullopt) /\ resolved' = NoHost
  /\ pc' = All("idle") /\ request' = All(NoRequest)
  /\ peer' = All(NoPeer) /\ answer' = All(NoAnswer)
  /\ sent' = All(<<>>) /\ gone' = All(FALSE)
  /\ UNCHANGED environment

\* shutdownWrite, and the thread ends.
Close(t) ==
  /\ Goto(t, "close", "idle")
  /\ request' = [request EXCEPT ![t] = NoRequest]
  /\ got' = [got EXCEPT ![t] = Nullopt]
  /\ peer' = [peer EXCEPT ![t] = NoPeer]
  /\ answer' = [answer EXCEPT ![t] = NoAnswer]
  /\ sent' = [sent EXCEPT ![t] = <<>>]
  /\ gone' = [gone EXCEPT ![t] = FALSE]
  /\ UNCHANGED <<responses, resolved, environment>>

-----------------------------------------------------------------------------
(* Around the proxy.                                                        *)

Publish(r) ==
  /\ Len(origin[r]) < MaxVersion
  /\ origin' = [origin EXCEPT ![r] = Append(@, now)]
  /\ UNCHANGED <<theCache, resolved, pc, request, exchange, sent, gone,
                 connections, now>>

Tick ==
  /\ now < End
  /\ now' = now + 1
  /\ UNCHANGED <<theCache, resolved, pc, request, exchange, sent, gone, origin,
                 connections>>

Kinds == {"200", "404", "length"}

Step(t) ==
  \/ HandleConnection(t)
  \/ Lookup(t) \/ Check(t) \/ Serve(t)
  \/ Forward(t) \/ InternalError(t) \/ BadGateway(t) \/ Resolve(t) \/ Connect(t)
  \/ \E kind \in Kinds, policy \in Policies : OriginAnswers(t, kind, policy)
  \/ Relay(t) \/ ReceiveBody(t) \/ Store(t) \/ TunnelTraffic(t) \/ Close(t)

Done == connections = MaxConnections /\ \A t \in Threads : pc[t] = "idle"

Next ==
  \/ \E t \in Threads, req \in Requests : Accept(t, req)
  \/ \E t \in Threads : Step(t)
  \/ Sigpipe
  \/ \E r \in Resources : Publish(r)
  \/ Tick
  \/ Done /\ UNCHANGED vars

Spec == Init /\ [][Next]_vars

-----------------------------------------------------------------------------

Entries ==
  [answer : Answers, method : {"GET", "POST"},
   expiry : [creation_time : Times, expires_time : Int,
             requires_validation : BOOLEAN]]

Parts == {"head", "body", "200", "400", "500", "501", "502"}

TypeOK ==
  /\ responses \in Seq([key : (Hosts \cup {NoHost}) \X Uris, entry : Entries])
  /\ got \in [Threads -> Entries \cup {Nullopt}]
  /\ resolved \in Hosts \cup {NoHost}
  /\ pc \in [Threads -> Locations]
  /\ request \in [Threads -> Requests \cup {NoRequest}]
  /\ peer \in [Threads -> Hosts \X Ports \cup {NoPeer}]
  /\ answer \in [Threads -> Answers \cup {NoAnswer}]
  /\ sent \in [Threads -> Seq(Parts)]
  /\ gone \in [Threads -> BOOLEAN]
  /\ origin \in [Resources -> Seq(Start .. End)]
  /\ connections \in 0 .. MaxConnections
  /\ now \in Start .. End

Statuses == {"head", "200", "400", "500", "501", "502"}

\* Whatever fails on the way, the client gets exactly one response, unless it
\* left or the process was killed: no path through handle_connection answers
\* twice or not at all.  The exception is an answer in which the code finds a
\* Content-Length that std::stoi rejects.
AnsweredOnce ==
  \A t \in Threads :
     pc[t] = "close" /\ ~ gone[t] =>
        Cardinality({i \in DOMAIN sent[t] : sent[t][i] \in Statuses})
          = IF answer[t].kind = "length" THEN 2 ELSE 1

\* The Cache-Control lines of a header, and the ages they state.
ControlsOf(head) ==
  {head[i] : i \in {j \in DOMAIN head : head[j].name = "Cache-Control"}}
SMaxAgesOf(head) == {line.s_maxage : line \in ControlsOf(head)} \ {NoAge}
MaxAgesOf(head) == {line.max_age : line \in ControlsOf(head)} \ {NoAge}

\* Only what an origin answered to a GET with 200 under a header that could be
\* read, and whose last Cache-Control line does not say no-store, is in the
\* cache, whichever threads ran in between.
OnlyCacheable ==
  \A i \in DOMAIN responses :
     LET entry == responses[i].entry
         head == entry.answer.head
     IN  /\ entry.method = "GET" /\ entry.answer.kind = "200"
         /\ \A j \in DOMAIN head :
               /\ head[j].name # "unreadable"
               /\ head[j].name = "Cache-Control" /\ "no-store" \in head[j].directives
                  => \E k \in DOMAIN head : k > j /\ head[k].name = "Cache-Control"

\* When a thread decides to serve a response that states an age, and none that
\* is not above 0, the origin has not replaced that version for longer than the
\* age, however long the thread that stored it was held up between the answer
\* and the put.
BoundedStaleness ==
  [][\A t \in Threads :
        pc[t] = "check" /\ pc'[t] = "serve" =>
           LET a == got[t].answer
               replaced == origin[a.resource]
               shared == SMaxAgesOf(a.head)
               ages == MaxAgesOf(a.head)
           IN  /\ a.version < Len(replaced)
               /\ shared \cup ages # {}
               /\ \A age \in shared \cup ages : age > 0
               => \E age \in IF shared # {} THEN shared ELSE ages :
                     now <= replaced[a.version + 1] + age]_vars

\* A client gets the answer of the host it asked for.
HostMatches ==
  \A t \in Threads :
     pc[t] = "close" /\ answer[t] # NoAnswer
        => answer[t].resource[1] = request[t].host

\* A client that leaves costs the others nothing: the end of one connection
\* ends no other.
OthersUndisturbed ==
  [][\A t \in Threads :
        pc[t] # "idle" /\ pc'[t] = "idle"
          => \A u \in Threads \ {t} : pc'[u] = pc[u]]_vars
=============================================================================
