---------------------------- MODULE Descriptors -----------------------------
(***************************************************************************)
(* The file descriptors of the process: main's accept loop, the            *)
(* shared_ptr<TcpSocket> of each connection, which main's variable, the    *)
(* ThreadData and the thread hold, and the socket a thread opens to its    *)
(* origin.  The last holder of a TcpSocket closes its descriptor; three    *)
(* early returns of handle_connection have by then closed it already, by   *)
(* its number.                                                             *)
(***************************************************************************)
EXTENDS Naturals, FiniteSets

CONSTANTS Conns,         \* the connections, in no particular order
          None,          \* no connection, no descriptor, no file
          MaxFd          \* bound: descriptors of the process

VARIABLES listening,     \* bind and listen have both succeeded
          table,         \* table[fd]: the open file, as the kernel sees it
          reserved,      \* the descriptor accept took before it waits
          mainpc,        \* "start", "accept", "waiting", "assign" or "create"
          accepted,      \* the connection accept has just returned
          kept,          \* the connection main's client_socket refers to
          pc,            \* pc[c]: where the thread of connection c is
          clientFd,      \* clientFd[c]: socket_fd_ of its client's TcpSocket
          originFd,      \* originFd[c]: socket_fd_ of its origin's
          refused        \* the connections whose origin's socket got no options

vars == <<listening, table, reserved, mainpc, accepted, kept, pc, clientFd, originFd,
          refused>>

Fds == 1 .. MaxFd
Files == {"client", "origin"} \X Conns
Reserved == <<"reserved">>

ASSUME DescriptorsAssumption ==
  /\ MaxFd \in Nat \ {0}
  /\ None \notin Conns \cup Fds \cup Files \cup {Reserved}

Free == {fd \in Fds : table[fd] = None}
Lowest(S) == CHOOSE fd \in S : \A other \in S : fd <= other

Init ==
  /\ listening = FALSE
  /\ table = [fd \in Fds |-> None]
  /\ reserved = None
  /\ mainpc = "start"
  /\ accepted = None
  /\ kept = None
  /\ pc = [c \in Conns |-> "absent"]
  /\ clientFd = [c \in Conns |-> None]
  /\ originFd = [c \in Conns |-> None]
  /\ refused = {}

-----------------------------------------------------------------------------
(* The kernel (external).                                                   *)

\* close(fd) of a descriptor that is not open, or is reserved, fails and
\* changes nothing.
CloseFd(fd) ==
  table' = IF fd \in Fds /\ table[fd] \in Files
           THEN [table EXCEPT ![fd] = None]
           ELSE table

-----------------------------------------------------------------------------
(* main.                                                                    *)

\* bind and listen on the server's socket, whose descriptor is not counted
\* here: main does not look at their results.
Start ==
  /\ mainpc = "start"
  /\ listening' \in BOOLEAN
  /\ mainpc' = "accept"
  /\ UNCHANGED <<table, reserved, accepted, kept, pc, clientFd, originFd, refused>>

\* accept takes a descriptor as it is entered; with none left, or on a socket
\* that does not listen, it fails at once: there is nullptr to assign.
AcceptEnter ==
  /\ mainpc = "accept"
  /\ IF listening /\ Free # {}
     THEN /\ reserved' = Lowest(Free)
          /\ table' = [table EXCEPT ![Lowest(Free)] = Reserved]
          /\ mainpc' = "waiting"
     ELSE mainpc' = "assign" /\ UNCHANGED <<table, reserved>>
  /\ UNCHANGED <<listening, accepted, kept, pc, clientFd, originFd, refused>>

\* An accept that waited can fail as well (a connection aborted before it was
\* returned, a signal): the kernel takes its descriptor back.
AcceptFails ==
  /\ mainpc = "waiting"
  /\ table' = [table EXCEPT ![reserved] = None]
  /\ reserved' = None
  /\ mainpc' = "assign"
  /\ UNCHANGED <<listening, accepted, kept, pc, clientFd, originFd, refused>>

\* TcpSocket::accept wraps the new descriptor.
AcceptReturn(c) ==
  /\ mainpc = "waiting" /\ pc[c] = "absent"
  /\ table' = [table EXCEPT ![reserved] = <<"client", c>>]
  /\ clientFd' = [clientFd EXCEPT ![c] = reserved]
  /\ accepted' = c
  /\ reserved' = None
  /\ pc' = [pc EXCEPT ![c] = "accepted"]
  /\ mainpc' = "assign"
  /\ UNCHANGED <<listening, kept, originFd, refused>>

\* The thread of c holds its client's TcpSocket.
HoldsClient(c) == pc[c] \in {"recv", "closed", "options", "relay", "finish"}

\* client_socket = accept(): the TcpSocket it referred to before loses a
\* holder, perhaps its last, also when the accept failed and there is none to
\* take its place.
Assign ==
  /\ mainpc = "assign"
  /\ IF kept # None /\ ~ HoldsClient(kept)
     THEN /\ CloseFd(clientFd[kept])
          /\ clientFd' = [clientFd EXCEPT ![kept] = None]
     ELSE UNCHANGED <<table, clientFd>>
  /\ kept' = accepted
  /\ accepted' = None
  /\ mainpc' = IF accepted = None THEN "accept" ELSE "create"
  /\ UNCHANGED <<listening, reserved, pc, originFd, refused>>

\* create_connection_thread: pthread_create succeeds, or fails and leaves the
\* connection to the next assignment.
CreateThread ==
  /\ mainpc = "create"
  /\ mainpc' = "accept"
  /\ \E next \in {"recv", "ended"} : pc' = [pc EXCEPT ![kept] = next]
  /\ UNCHANGED <<listening, table, reserved, accepted, kept, clientFd, originFd, refused>>

-----------------------------------------------------------------------------
(* The threads.                                                             *)

Goto(c, from, to) == pc[c] = from /\ pc' = [pc EXCEPT ![c] = to]

main == <<listening, reserved, mainpc, accepted, kept>>

\* recv fails, or returns 0, or the request is invalid: close(client_fd), and
\* return.
CloseByNumber(c) ==
  /\ Goto(c, "recv", "closed")
  /\ CloseFd(clientFd[c])
  /\ UNCHANGED <<main, clientFd, originFd, refused>>

\* A request answered without the origin: from the cache or with an error.
AnswerAlone(c) ==
  /\ Goto(c, "recv", "finish")
  /\ UNCHANGED <<table, main, clientFd, originFd, refused>>

\* Variant of OpenOrigin: the constructor does not check what socket returned.
OpenOriginUnchecked(c) ==
  /\ Goto(c, "recv", "options")
  /\ IF Free = {}
     THEN originFd' = [originFd EXCEPT ![c] = 0] /\ UNCHANGED table
     ELSE /\ originFd' = [originFd EXCEPT ![c] = Lowest(Free)]
          /\ table' = [table EXCEPT ![Lowest(Free)] = <<"origin", c>>]
  /\ UNCHANGED <<main, clientFd, refused>>

\* make_shared<TcpSocket>() in forwardRequest and processConnectRequest: the
\* constructor's socket(), which throws with no descriptor left,
OpenOrigin(c) ==
  /\ pc[c] = "recv"
  /\ IF Free = {}
     THEN Goto(c, "recv", "finish") /\ UNCHANGED <<table, originFd>>
     ELSE /\ Goto(c, "recv", "options")
          /\ originFd' = [originFd EXCEPT ![c] = Lowest(Free)]
          /\ table' = [table EXCEPT ![Lowest(Free)] = <<"origin", c>>]
  /\ UNCHANGED <<main, clientFd, refused>>

\* and its setsockopt, of the number it got.  When that fails the constructor
\* throws too: no TcpSocket has come to be and no destructor closes the number.
SetOptions(c) ==
  /\ \/ /\ originFd[c] \in Fds /\ table[originFd[c]] \in Files
        /\ Goto(c, "options", "relay")
        /\ UNCHANGED <<originFd, refused>>
     \/ /\ Goto(c, "options", "finish")
        /\ originFd' = [originFd EXCEPT ![c] = None]
        /\ refused' = refused \cup {c}
  /\ UNCHANGED <<table, main, clientFd>>

\* Every return and exception of forwardRequest destroys its server_socket.
CloseOrigin(c) ==
  /\ Goto(c, "relay", "finish")
  /\ CloseFd(originFd[c])
  /\ originFd' = [originFd EXCEPT ![c] = None]
  /\ UNCHANGED <<main, clientFd, refused>>

\* Variant of End: the destructor does not close.
EndWithoutClose(c) ==
  /\ pc[c] \in {"closed", "finish"}
  /\ Goto(c, pc[c], "ended")
  /\ UNCHANGED <<table, clientFd, main, originFd, refused>>

\* The thread returns and lets go of the client's TcpSocket; main may still
\* hold it.
End(c) ==
  /\ pc[c] \in {"closed", "finish"}
  /\ Goto(c, pc[c], "ended")
  /\ IF kept = c
     THEN UNCHANGED <<table, clientFd>>
     ELSE CloseFd(clientFd[c]) /\ clientFd' = [clientFd EXCEPT ![c] = None]
  /\ UNCHANGED <<main, originFd, refused>>

-----------------------------------------------------------------------------

Next ==
  \/ Start \/ AcceptEnter \/ AcceptFails \/ Assign \/ CreateThread
  \/ \E c \in Conns : AcceptReturn(c)
  \/ \E c \in Conns : CloseByNumber(c) \/ AnswerAlone(c) \/ OpenOrigin(c)
                        \/ SetOptions(c) \/ CloseOrigin(c) \/ End(c)

Spec == Init /\ [][Next]_vars

TypeOK ==
  /\ listening \in BOOLEAN
  /\ table \in [Fds -> Files \cup {Reserved, None}]
  /\ reserved \in Fds \cup {None}
  /\ mainpc \in {"start", "accept", "waiting", "assign", "create"}
  /\ accepted \in Conns \cup {None}
  /\ kept \in Conns \cup {None}
  /\ pc \in [Conns -> {"absent", "accepted", "recv", "closed", "options",
                       "relay", "finish", "ended"}]
  /\ clientFd \in [Conns -> Fds \cup {None}]
  /\ originFd \in [Conns -> Fds \cup {None}]
  /\ refused \subseteq Conns

\* No descriptor stays open behind its connection: once the thread has ended,
\* or could not be created, and main's variable has moved on, to another
\* connection or to nullptr, the client's socket is closed; the origin's is as
\* soon as the exchange is over.  Excepted is the one leak the code has, of a
\* constructor that throws after its socket() succeeded (socket.cpp:24-26).
NothingLeaks ==
  \A c \in Conns, fd \in Fds :
     /\ table[fd] = <<"client", c>> =>
           \/ pc[c] \in {"accepted", "recv", "options", "relay", "finish"}
           \/ kept = c
     /\ table[fd] = <<"origin", c>> =>
           pc[c] \in {"options", "relay"} \/ c \in refused

\* A thread that exchanges bytes with its client and its origin does so over
\* the sockets it was given and opened, not over one of another connection.
OwnSockets ==
  \A c \in Conns :
     pc[c] = "relay" => /\ table[clientFd[c]] = <<"client", c>>
                        /\ table[originFd[c]] = <<"origin", c>>
=============================================================================
