---------------------------- MODULE MCConnection ----------------------------
(* A small instance of one connection for TLC.                              *)
EXTENDS Connection

Ask(method, wire) == [method |-> method, host |-> "name", port |-> "number", wire |-> wire]

Get == Ask("GET", <<"line", "blank">>)
Post == Ask("POST", <<"blank", "p1", "p2">>)
Tunnelled == Ask("CONNECT", <<"blank", "c1", "c2", "c3">>)

\* Two units fit into one recv: the third request's header does not, the
\* POST's body and the tunnel's data begin in the recv of the header.
Rejected ==
  {[Get EXCEPT !.host = "none"],
   [Post EXCEPT !.port = "text"],
   Ask("GET", <<"line", "more", "blank">>),
   Ask("other", <<"blank">>),
   [Tunnelled EXCEPT !.port = "text"]}

Answer(status, length, no_store, wire) ==
  [status |-> status, length |-> length, no_store |-> no_store, wire |-> wire]

Whole == Answer("200", 3, FALSE, <<"length", "blank", "d1", "d2", "d3">>)

\* The last two have no Content-Length but in their content.
Answers ==
  {Whole,
   Answer("200", 2, TRUE, <<"length", "blank", "chunked", "d2">>),
   Answer("200", -1, FALSE, <<"length", "blank", "d1">>),
   Answer("200", 0, FALSE, <<"bad", "blank">>),
   Answer("404", 0, FALSE, <<"head", "blank", "d1">>),
   Answer("200", 0, FALSE, <<"chunked", "blank", "size", "d1", "last", "end">>),
   Answer("200", 0, FALSE, <<"chunked", "blank", "zero", "crlf", "last", "end">>),
   Answer("200", 2, FALSE, <<"head", "blank", "length", "d2", "d3">>),
   Answer("200", 0, FALSE, <<"head", "blank", "bad", "d2">>)}

MCEncounters ==
  {Get} \X Answers \cup (Rejected \cup {Post}) \X {Whole}
    \cup {Tunnelled} \X {[wire |-> <<"o1", "o2", "o3">>]}

MCUnits == UNION {ToSet(e[1].wire) \cup ToSet(e[2].wire) : e \in MCEncounters}

\* One GET, answered with a Content-Length.
MCOneGet == {<<Get, Whole>>}
=============================================================================
