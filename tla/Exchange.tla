------------------------------ MODULE Exchange ------------------------------
(***************************************************************************)
(* forwardRequest (handler.cpp): the request goes to the origin as it was  *)
(* received, the response comes back recv by recv.  The header is what     *)
(* arrives until its empty line, with whatever of the body came along; the *)
(* body is read until its length or its last chunk is seen or the origin   *)
(* is gone; then a 200 answer to a GET is stored.                          *)
(*                                                                         *)
(* A response is a record [status, length, no_store, wire].  Units of its  *)
(* wire: "length" is a Content-Length that std::stoi reads, as the integer *)
(* length, "bad" one that it rejects, "chunked" a Transfer-Encoding:       *)
(* chunked, "head" any other part of the header but for the empty line     *)
(* "blank".  The same texts may also be content.  In the body "last" and   *)
(* "end" are the two halves of a last chunk, "zero" and "crlf" are content *)
(* with the same bytes and "size" is a chunk's size line.                  *)
(***************************************************************************)
EXTENDS Streams

CONSTANTS SizeMax,       \* SIZE_MAX, the largest size_t
          NotStored

\* Where the empty line that ends a header is.
BlankAt(units) == SelectInSeq(units, LAMBDA unit : unit = "blank")

\* What is behind it.
Behind(units) ==
  IF "blank" \in ToSet(units) THEN SubSeq(units, BlankAt(units) + 1, Len(units)) ELSE <<>>

\* The first Content-Length in a text, wherever in it.
LengthAt(units) == SelectInSeq(units, LAMBDA unit : unit \in {"length", "bad"})

\* A Content-Length is in the header.
FramedByLength(wire) == \E i \in 1 .. BlankAt(wire) : wire[i] = "length"

\* An origin sends no more content than its Content-Length says, and the last
\* chunk last.
ASSUME ExchangeAssumption ==
  /\ SizeMax \in Nat
  /\ \A e \in Encounters :
       LET wire == e[2].wire
       IN  e[1].method # "CONNECT" =>
             /\ e[2].length \in Int
             /\ FramedByLength(wire) => Len(Behind(wire)) <= e[2].length % (SizeMax + 1)
             /\ \A i \in DOMAIN wire : wire[i] = "last" => i = Len(wire) - 1

VARIABLES request_str,     \* what the first recv returned
          response_str,    \* what was received as the header
          response_buffer, \* the body, for the cache
          buf,             \* the last recv of the body
          content_length, is_chunked, body_received,
          stored           \* the data of the cache entry made of it

header == <<request_str, response_str>>
framing == <<content_length, is_chunked>>
body == <<response_buffer, buf, body_received>>

ExchangeInit ==
  /\ request_str = <<>> /\ response_str = <<>>
  /\ response_buffer = <<>> /\ buf = <<>> /\ body_received = 0
  /\ content_length = 0 /\ is_chunked = FALSE
  /\ stored = NotStored

IsCacheable == request.method = "GET" /\ message.status = "200"

-----------------------------------------------------------------------------

\* std::stoi may throw for the port, and the constructor for want of a
\* descriptor; gethostbyname or connect may fail at any time.
Forward ==
  /\ \/ /\ request.host = "none"
        /\ Error("forward", "400")
        /\ UNCHANGED streams
     \/ /\ request.host # "none"
        /\ Error("forward", "500")
        /\ UNCHANGED streams
     \/ /\ request.host # "none" /\ request.port # "text"
        /\ \/ Error("forward", "502") /\ UNCHANGED streams
           \/ Goto("forward", "request") /\ out' = request_str /\ Connected
  /\ UNCHANGED <<peers, header, framing, body, stored>>

SendRequest ==
  /\ \/ pc = "request" /\ SendSome("origin") /\ UNCHANGED pc
     \/ /\ out = <<>>
        /\ Goto("request", "header")
        /\ UNCHANGED <<streams, out>>
     \/ /\ SendFails("origin")
        /\ Error("request", "502")
        /\ UNCHANGED streams
  /\ UNCHANGED <<peers, header, framing, body, stored>>

\* The first while loop, one recv; a header that ends early is passed on too.
ReceiveHeader ==
  LET received == Received("origin")
      whole == response_str \o received
  IN  /\ pc = "header"
      /\ Recv("origin")
      /\ response_str' = whole
      /\ IF whole = <<>>
         THEN Error("header", "502")
         ELSE IF received = <<>> \/ "blank" \in ToSet(whole)
              THEN Goto("header", "relay") /\ out' = whole
              ELSE Goto("header", "header") /\ UNCHANGED out
      /\ UNCHANGED <<peers, request_str, framing, body, stored>>

RelayHeader ==
  /\ \/ pc = "relay" /\ SendSome("client") /\ UNCHANGED pc
     \/ /\ out = <<>>
        /\ Goto("relay", "parse")
        /\ UNCHANGED <<streams, out>>
     \/ /\ SendFails("client")
        /\ Goto("relay", "finish")
        /\ out' = <<>>
        /\ UNCHANGED streams
  /\ UNCHANGED <<peers, header, framing, body, stored>>

\* What of the body came with the header.
BodyPart == Behind(response_str)

\* Variants of FirstPart and Counted: the body received with the header is not
\* cached; the header counts.
NoFirstPart == <<>>
CountedFromStart == Len(response_str)

FirstPart == BodyPart
Counted == Len(BodyPart)

\* Both fields are searched in all of response_str, with the part of the body
\* that is in it: content that reads like one counts if the header has none.
\* The int that std::stoi returns becomes a size_t.
ParseFraming ==
  LET at == LengthAt(response_str)
  IN  /\ pc = "parse"
      /\ IF at # 0 /\ response_str[at] = "bad"
         THEN Error("parse", "500") /\ UNCHANGED <<framing, body>>
         ELSE /\ Goto("parse", "body")
              /\ content_length' = IF at = 0 THEN 0 ELSE message.length % (SizeMax + 1)
              /\ is_chunked' = ("chunked" \in ToSet(response_str))
              /\ body_received' = Counted
              /\ response_buffer' = IF IsCacheable THEN FirstPart ELSE <<>>
              /\ UNCHANGED <<buf, out>>
      /\ UNCHANGED <<peers, streams, header, stored>>

\* The second while loop: recv; 0 and -1 end it like a complete body.
ReceiveBody ==
  LET received == Received("origin")
  IN  /\ Recv("origin")
      /\ buf' = received
      /\ out' = received
      /\ Goto("body", IF received = <<>> THEN "store" ELSE "pass")
      /\ UNCHANGED <<peers, header, framing, response_buffer, body_received, stored>>

\* Variant of LengthReached: one more is awaited.
LengthExceeded(n) == content_length > 0 /\ ~ is_chunked /\ n > content_length

LengthReached(n) == content_length > 0 /\ ~ is_chunked /\ n >= content_length

\* The last bytes of this recv look like a last chunk.
EndsInLastChunk ==
  LET n == Len(buf)
  IN  n >= 2 /\ buf[n - 1] \in {"last", "zero"} /\ buf[n] \in {"end", "crlf"}

PassBody ==
  /\ \/ pc = "pass" /\ SendSome("client") /\ UNCHANGED <<pc, body>>
     \/ /\ pc = "pass" /\ out = <<>>
        /\ response_buffer' = IF IsCacheable THEN response_buffer \o buf ELSE <<>>
        /\ body_received' = body_received + Len(buf)
        /\ Goto("pass", IF \/ LengthReached(body_received')
                           \/ is_chunked /\ EndsInLastChunk
                        THEN "store" ELSE "body")
        /\ UNCHANGED <<streams, out, buf>>
     \/ /\ SendFails("client")
        /\ Goto("pass", "finish")
        /\ out' = <<>>
        /\ UNCHANGED <<streams, body>>
  /\ UNCHANGED <<peers, header, framing, stored>>

\* Response's constructor throws for a header without its empty line.
Store ==
  /\ Goto("store", "finish")
  /\ stored' = IF IsCacheable /\ "blank" \in ToSet(response_str) /\ ~ message.no_store
               THEN response_buffer ELSE NotStored
  /\ UNCHANGED <<peers, streams, out, header, framing, body>>

ExchangeStep ==
  \/ Forward \/ SendRequest \/ ReceiveHeader \/ RelayHeader \/ ParseFraming
  \/ ReceiveBody \/ PassBody \/ Store
=============================================================================
