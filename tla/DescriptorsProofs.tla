-------------------------- MODULE DescriptorsProofs -------------------------
(***************************************************************************)
(* No descriptor is left open behind its connection, for any number of     *)
(* connections and descriptors, but those of the constructors that throw   *)
(* after their socket() succeeded.                                         *)
(***************************************************************************)
EXTENDS Descriptors, WellFoundedInduction, TLAPS

\* Where each step of main left its variables.
MainCoherent ==
  /\ mainpc = "waiting" => reserved \in Fds
  /\ mainpc = "assign" =>
        accepted = None \/ (accepted \in Conns /\ pc[accepted] = "accepted")
  /\ mainpc # "assign" => accepted = None
  /\ mainpc = "create" => kept \in Conns /\ pc[kept] = "accepted"

\* A connection has at most the one open file its TcpSocket knows of, so that
\* whoever closes that number leaves none; a thread that has closed its client
\* by number has none left, whoever uses the number now.  An origin's file no
\* TcpSocket knows of is one of a constructor that threw: its connection opens
\* no other.
TableCoherent ==
  \A c \in Conns, fd \in Fds :
     /\ table[fd] = <<"client", c>> =>
           clientFd[c] = fd /\ pc[c] \notin {"absent", "closed"}
     /\ table[fd] = <<"origin", c>> => originFd[c] = fd \/ c \in refused

\* A connection whose origin's socket got no options has its exchange behind it.
RefusedOver == \A c \in refused : pc[c] \in {"finish", "ended"}

\* The inductive invariant.
IInv == TypeOK /\ MainCoherent /\ TableCoherent /\ RefusedOver /\ NothingLeaks

\* A file of one connection is no other file, no reservation and not None.
LEMMA DistinctFiles ==
  ASSUME NEW c \in Conns
  PROVE  /\ <<"client", c>> \in Files /\ <<"origin", c>> \in Files
         /\ \A d \in Conns : /\ <<"client", c>> # <<"origin", d>>
                             /\ <<"client", c>> = <<"client", d>> => c = d
                             /\ <<"origin", c>> = <<"origin", d>> => c = d
         /\ Reserved \notin {<<"client", c>>, <<"origin", c>>}
         /\ None \notin {<<"client", c>>, <<"origin", c>>}
<1>1. <<"client", c>> \in Files /\ <<"origin", c>> \in Files
  BY DEF Files
<1>2. None \notin {<<"client", c>>, <<"origin", c>>}
  BY <1>1, DescriptorsAssumption
<1>. QED  BY <1>1, <1>2 DEF Reserved

\* A set of natural numbers that is not empty has a least member:
\* the lowest free descriptor.
LEMMA SmallestMember ==
  ASSUME NEW S \in SUBSET Nat, S # {}
  PROVE  \E m \in S : \A n \in S : m <= n
<1> DEFINE less == {pair \in Nat \X Nat : pair[1] < pair[2]}
<1>1. IsWellFoundedOn(less, Nat)
  BY NatLessThanWellFounded DEF OpToRel
<1>2. PICK m \in S : \A n \in S : <<n, m>> \notin less
  <2> HIDE DEF less
  <2>. QED  BY <1>1, WFMin
<1>3. ASSUME NEW n \in S PROVE m <= n
  <2>1. m \in Nat /\ n \in Nat
    BY <1>2
  <2>2. <<n, m>> \notin less
    BY <1>2
  <2>3. ~ (n < m)
    BY <2>1, <2>2
  <2>. QED  BY <2>1, <2>3
<1>. QED  BY <1>2, <1>3

\* The kernel hands out a descriptor that is free, the lowest there is.
LEMMA LowestIsFree ==
  ASSUME Free # {}
  PROVE  Lowest(Free) \in Fds /\ table[Lowest(Free)] = None
<1>1. Free \in SUBSET Nat
  BY DescriptorsAssumption DEF Free, Fds
<1>2. \E m \in Free : \A n \in Free : m <= n
  BY <1>1, SmallestMember
<1>3. Lowest(Free) \in Free
  BY <1>2 DEF Lowest
<1>. QED  BY <1>3 DEF Free

\* A close by number leaves every other entry, and no file at its own.
LEMMA CloseFdEffect ==
  ASSUME TypeOK, NEW f \in Fds \cup {None}, CloseFd(f)
  PROVE  /\ table' \in [Fds -> Files \cup {Reserved, None}]
         /\ \A fd \in Fds : \/ table'[fd] = table[fd] /\ (fd = f => table[fd] \notin Files)
                            \/ table'[fd] = None
<1>1. None \notin Fds
  BY DescriptorsAssumption
<1>. QED  BY <1>1 DEF CloseFd, TypeOK

\* So the files that are left after a close were there before it, elsewhere.
LEMMA CloseFdLeaves ==
  ASSUME TypeOK, NEW f \in Fds \cup {None}, CloseFd(f), NEW c \in Conns, NEW fd \in Fds
  PROVE  /\ table'[fd] = <<"client", c>> => table[fd] = <<"client", c>> /\ fd # f
         /\ table'[fd] = <<"origin", c>> => table[fd] = <<"origin", c>> /\ fd # f
BY CloseFdEffect, DistinctFiles

\* The invariant holds of a process that has just started,
LEMMA InitIInv == Init => IInv
<1>1. SUFFICES ASSUME Init PROVE IInv
  OBVIOUS
<1>2. TypeOK
  BY <1>1 DEF Init, TypeOK
<1>3. MainCoherent
  BY <1>1 DEF Init, MainCoherent
<1>4. ASSUME NEW c \in Conns, NEW fd \in Fds
      PROVE  table[fd] \notin {<<"client", c>>, <<"origin", c>>}
  BY <1>1, DistinctFiles DEF Init
<1>5. RefusedOver
  BY <1>1 DEF Init, RefusedOver
<1>. QED  BY <1>2, <1>3, <1>4, <1>5 DEF IInv, TableCoherent, NothingLeaks

\* and main, the threads and the kernel keep it.
LEMMA NextIInv == IInv /\ [Next]_vars => IInv'
<1>. SUFFICES ASSUME IInv, [Next]_vars PROVE IInv'
  OBVIOUS
<1>. USE DEF IInv
<1>0. None \notin Conns /\ None \notin Fds
  BY DescriptorsAssumption
<1>1. CASE Start
  <2>1. TypeOK'
    BY <1>1 DEF Start, TypeOK
  <2>. QED
    BY <1>1, <2>1 DEF Start, MainCoherent, TableCoherent, RefusedOver, NothingLeaks
<1>2. CASE AcceptEnter
  <2>1. CASE listening /\ Free # {}
    <3>. DEFINE new == Lowest(Free)
    <3>1. new \in Fds
      BY <2>1, LowestIsFree
    <3>2. /\ table' = [table EXCEPT ![new] = Reserved]
          /\ reserved' = new /\ mainpc' = "waiting"
          /\ UNCHANGED <<listening, accepted, kept, pc, clientFd, originFd, refused>>
      BY <1>2, <2>1 DEF AcceptEnter
    <3>. HIDE DEF new
    <3>3. TypeOK'
      BY <3>1, <3>2 DEF TypeOK
    <3>4. MainCoherent'
      BY <1>2, <3>1, <3>2 DEF AcceptEnter, MainCoherent
    <3>5. ASSUME NEW c \in Conns, NEW fd \in Fds
          PROVE  /\ table'[fd] = <<"client", c>> => table[fd] = <<"client", c>>
                 /\ table'[fd] = <<"origin", c>> => table[fd] = <<"origin", c>>
      BY <3>1, <3>2, DistinctFiles DEF TypeOK
    <3>. QED
      BY <3>2, <3>3, <3>4, <3>5 DEF TableCoherent, RefusedOver, NothingLeaks
  <2>2. CASE ~ (listening /\ Free # {})
    <3>1. /\ mainpc = "accept" /\ mainpc' = "assign"
          /\ UNCHANGED <<listening, table, reserved, accepted, kept, pc, clientFd,
                         originFd, refused>>
      BY <1>2, <2>2 DEF AcceptEnter
    <3>2. MainCoherent'
      BY <3>1 DEF MainCoherent
    <3>. QED
      BY <3>1, <3>2 DEF TypeOK, TableCoherent, RefusedOver, NothingLeaks
  <2>. QED  BY <2>1, <2>2
<1>3. CASE AcceptFails
  <2>1. /\ reserved \in Fds
        /\ table' = [table EXCEPT ![reserved] = None]
        /\ mainpc = "waiting" /\ mainpc' = "assign" /\ reserved' = None
        /\ UNCHANGED <<listening, accepted, kept, pc, clientFd, originFd, refused>>
    BY <1>3 DEF AcceptFails, MainCoherent
  <2>2. TypeOK'
    BY <2>1 DEF TypeOK
  <2>3. MainCoherent'
    BY <2>1 DEF MainCoherent
  <2>4. ASSUME NEW c \in Conns, NEW fd \in Fds
        PROVE  /\ table'[fd] = <<"client", c>> => table[fd] = <<"client", c>>
               /\ table'[fd] = <<"origin", c>> => table[fd] = <<"origin", c>>
    BY <2>1, DistinctFiles DEF TypeOK
  <2>. QED
    BY <2>1, <2>2, <2>3, <2>4 DEF TableCoherent, RefusedOver, NothingLeaks
<1>4. CASE Assign
  <2>1. TypeOK'
    <3>1. CASE kept # None /\ ~ HoldsClient(kept)
      <4>1. kept \in Conns /\ clientFd[kept] \in Fds \cup {None}
        BY <3>1 DEF TypeOK
      <4>2. CloseFd(clientFd[kept]) /\ clientFd' = [clientFd EXCEPT ![kept] = None]
        BY <1>4, <3>1 DEF Assign
      <4>3. table' \in [Fds -> Files \cup {Reserved, None}]
        BY <4>1, <4>2, CloseFdEffect
      <4>. QED  BY <1>4, <4>2, <4>3 DEF Assign, TypeOK
    <3>2. CASE ~ (kept # None /\ ~ HoldsClient(kept))
      BY <1>4, <3>2 DEF Assign, TypeOK
    <3>. QED  BY <3>1, <3>2
  <2>2. MainCoherent'
    BY <1>4 DEF Assign, MainCoherent
  <2>3. TableCoherent' /\ RefusedOver' /\ NothingLeaks'
    <3>1. CASE kept # None /\ ~ HoldsClient(kept)
      <4>1. kept \in Conns /\ clientFd[kept] \in Fds \cup {None}
        BY <3>1 DEF TypeOK
      <4>2. CloseFd(clientFd[kept]) /\ clientFd' = [clientFd EXCEPT ![kept] = None]
        BY <1>4, <3>1 DEF Assign
      <4>3. ASSUME NEW c \in Conns, NEW fd \in Fds
            PROVE  /\ table'[fd] = <<"client", c>> =>
                         table[fd] = <<"client", c>> /\ fd # clientFd[kept]
                   /\ table'[fd] = <<"origin", c>> => table[fd] = <<"origin", c>>
        BY <4>1, <4>2, CloseFdLeaves
      <4>4. ASSUME NEW c \in Conns, NEW fd \in Fds, table'[fd] = <<"client", c>>
            PROVE  c # kept
        BY <4>3, <4>4 DEF TableCoherent
      <4>. QED
        BY <1>4, <4>1, <4>2, <4>3, <4>4
        DEF Assign, TableCoherent, RefusedOver, NothingLeaks, TypeOK
    <3>2. CASE ~ (kept # None /\ ~ HoldsClient(kept))
      <4>1. UNCHANGED <<table, clientFd, originFd, pc, refused>> /\ kept' = accepted
        BY <1>4, <3>2 DEF Assign
      <4>2. ASSUME NEW c \in Conns, NEW fd \in Fds, table[fd] = <<"client", c>>, kept = c
            PROVE  pc[c] \in {"recv", "options", "relay", "finish"}
        BY <1>0, <3>2, <4>2 DEF HoldsClient, TableCoherent
      <4>. QED
        BY <4>1, <4>2 DEF TableCoherent, RefusedOver, NothingLeaks
    <3>. QED  BY <3>1, <3>2
  <2>. QED  BY <2>1, <2>2, <2>3
<1>5. CASE CreateThread
  <2>1. PICK next \in {"recv", "ended"} : pc' = [pc EXCEPT ![kept] = next]
    BY <1>5 DEF CreateThread
  <2>2. kept \in Conns /\ pc[kept] = "accepted"
    BY <1>5 DEF CreateThread, MainCoherent
  <2>3. TypeOK'
    BY <1>5, <2>1, <2>2 DEF CreateThread, TypeOK
  <2>4. MainCoherent'
    BY <1>5 DEF CreateThread, MainCoherent
  <2>. QED
    BY <1>5, <2>1, <2>2, <2>3, <2>4
    DEF CreateThread, TableCoherent, RefusedOver, NothingLeaks, TypeOK
<1>6. ASSUME NEW c \in Conns, AcceptReturn(c) PROVE IInv'
  <2>1. reserved \in Fds
    BY <1>6 DEF AcceptReturn, MainCoherent
  <2>2. TypeOK'
    BY <1>6, <2>1, DistinctFiles DEF AcceptReturn, TypeOK
  <2>3. MainCoherent'
    BY <1>6 DEF AcceptReturn, MainCoherent, TypeOK
  <2>4. ASSUME NEW d \in Conns, NEW fd \in Fds, table'[fd] = <<"client", d>>
        PROVE  \/ d = c /\ fd = reserved
               \/ d # c /\ table[fd] = <<"client", d>>
    <3>1. table' = [table EXCEPT ![reserved] = <<"client", c>>] /\ pc[c] = "absent"
      BY <1>6 DEF AcceptReturn
    <3>2. CASE fd = reserved
      <4>1. table'[fd] = <<"client", c>>
        BY <2>1, <3>1, <3>2 DEF TypeOK
      <4>2. <<"client", c>> = <<"client", d>>
        BY <2>4, <4>1
      <4>3. c = d
        BY <4>2
      <4>. QED  BY <3>2, <4>3
    <3>3. CASE fd # reserved
      <4>1. table[fd] = <<"client", d>>
        BY <2>1, <2>4, <3>1, <3>3 DEF TypeOK
      <4>2. pc[d] # "absent"
        BY <4>1 DEF TableCoherent
      <4>. QED  BY <3>1, <4>1, <4>2
    <3>. QED  BY <3>2, <3>3
  <2>5. ASSUME NEW d \in Conns, NEW fd \in Fds, table'[fd] = <<"origin", d>>
        PROVE  table[fd] = <<"origin", d>>
    BY <1>6, <2>1, <2>5, DistinctFiles DEF AcceptReturn, TypeOK
  <2>6. ASSUME NEW fd \in Fds PROVE table[fd] # <<"origin", c>>
    BY <1>6, <2>6 DEF AcceptReturn, NothingLeaks, RefusedOver
  <2>7. /\ clientFd' = [clientFd EXCEPT ![c] = reserved]
        /\ pc' = [pc EXCEPT ![c] = "accepted"]
        /\ originFd' = originFd /\ kept' = kept /\ refused' = refused
    BY <1>6 DEF AcceptReturn
  <2>8. TableCoherent'
    BY <2>4, <2>5, <2>7 DEF TableCoherent, TypeOK
  <2>9. NothingLeaks'
    BY <2>4, <2>5, <2>6, <2>7 DEF NothingLeaks, TypeOK
  <2>10. RefusedOver'
    BY <1>6, <2>7 DEF AcceptReturn, RefusedOver, TypeOK
  <2>. QED  BY <2>2, <2>3, <2>8, <2>9, <2>10
<1>7. ASSUME NEW c \in Conns, CloseByNumber(c) PROVE IInv'
  <2>1. clientFd[c] \in Fds \cup {None} /\ CloseFd(clientFd[c])
    BY <1>7 DEF CloseByNumber, TypeOK
  <2>2. /\ pc[c] = "recv" /\ pc' = [pc EXCEPT ![c] = "closed"]
        /\ UNCHANGED <<main, clientFd, originFd, refused>>
    BY <1>7 DEF CloseByNumber, Goto
  <2>3. TypeOK'
    BY <2>1, <2>2, CloseFdEffect DEF TypeOK, main
  <2>4. MainCoherent'
    BY <2>2 DEF MainCoherent, TypeOK, main
  <2>5. ASSUME NEW d \in Conns, NEW fd \in Fds
        PROVE  /\ table'[fd] = <<"client", d>> =>
                    table[fd] = <<"client", d>> /\ fd # clientFd[c]
               /\ table'[fd] = <<"origin", d>> =>
                    table[fd] = <<"origin", d>> /\ fd # clientFd[c]
    BY <2>1, CloseFdLeaves
  <2>6. ASSUME NEW d \in Conns, NEW fd \in Fds, table'[fd] = <<"client", d>>
        PROVE  d # c
    BY <2>5, <2>6 DEF TableCoherent
  <2>7. TableCoherent'
    BY <2>2, <2>5, <2>6 DEF TableCoherent, TypeOK
  <2>8. NothingLeaks'
    BY <2>2, <2>5, <2>6 DEF NothingLeaks, TypeOK, main
  <2>9. RefusedOver'
    BY <2>2 DEF RefusedOver, TypeOK
  <2>. QED  BY <2>3, <2>4, <2>7, <2>8, <2>9
<1>8. ASSUME NEW c \in Conns, AnswerAlone(c) PROVE IInv'
  <2>1. TypeOK'
    BY <1>8 DEF AnswerAlone, Goto, TypeOK, main
  <2>. QED
    BY <1>8, <2>1
    DEF AnswerAlone, Goto, MainCoherent, TableCoherent, RefusedOver, NothingLeaks, TypeOK, main
<1>9. ASSUME NEW c \in Conns, OpenOrigin(c) PROVE IInv'
  <2>1. CASE Free = {}
    <3>1. /\ pc[c] = "recv" /\ pc' = [pc EXCEPT ![c] = "finish"]
          /\ UNCHANGED <<table, main, clientFd, originFd, refused>>
      BY <1>9, <2>1 DEF OpenOrigin, Goto
    <3>. QED
      BY <3>1 DEF MainCoherent, TableCoherent, RefusedOver, NothingLeaks, TypeOK, main
  <2>2. CASE Free # {}
    <3>. DEFINE new == Lowest(Free)
    <3>1. new \in Fds
      BY <2>2, LowestIsFree
    <3>2. /\ pc[c] = "recv" /\ pc' = [pc EXCEPT ![c] = "options"]
          /\ originFd' = [originFd EXCEPT ![c] = new]
          /\ table' = [table EXCEPT ![new] = <<"origin", c>>]
          /\ UNCHANGED <<main, clientFd, refused>>
      BY <1>9, <2>2 DEF OpenOrigin, Goto
    <3>. HIDE DEF new
    <3>3. TypeOK'
      BY <3>1, <3>2, DistinctFiles DEF TypeOK, main
    <3>4. MainCoherent'
      BY <3>2 DEF MainCoherent, TypeOK, main
    <3>5. ASSUME NEW d \in Conns, NEW fd \in Fds, table'[fd] = <<"client", d>>
          PROVE  table[fd] = <<"client", d>>
      BY <3>1, <3>2, <3>5, DistinctFiles DEF TypeOK
    <3>6. ASSUME NEW d \in Conns, NEW fd \in Fds, table'[fd] = <<"origin", d>>
          PROVE  \/ d = c /\ fd = new
                 \/ d # c /\ table[fd] = <<"origin", d>>
      <4>1. CASE fd = new
        <5>1. table'[fd] = <<"origin", c>>
          BY <3>1, <3>2, <4>1 DEF TypeOK
        <5>2. <<"origin", c>> = <<"origin", d>>
          BY <3>6, <5>1
        <5>3. c = d
          BY <5>2
        <5>. QED  BY <4>1, <5>3
      <4>2. CASE fd # new
        <5>1. table[fd] = <<"origin", d>>
          BY <3>1, <3>2, <3>6, <4>2 DEF TypeOK
        <5>2. pc[d] # "recv"
          BY <5>1 DEF NothingLeaks, RefusedOver
        <5>. QED  BY <3>2, <5>1, <5>2
      <4>. QED  BY <4>1, <4>2
    <3>7. TableCoherent'
      BY <3>2, <3>5, <3>6 DEF TableCoherent, TypeOK
    <3>8. NothingLeaks'
      BY <3>2, <3>5, <3>6 DEF NothingLeaks, TypeOK, main
    <3>9. RefusedOver'
      BY <3>2 DEF RefusedOver, TypeOK
    <3>. QED  BY <3>3, <3>4, <3>7, <3>8, <3>9
  <2>. QED  BY <2>1, <2>2
<1>10. ASSUME NEW c \in Conns, SetOptions(c) PROVE IInv'
  <2>1. pc[c] = "options" /\ UNCHANGED <<table, main, clientFd>>
    BY <1>10 DEF SetOptions, Goto
  <2>2. CASE /\ pc' = [pc EXCEPT ![c] = "relay"]
             /\ UNCHANGED <<originFd, refused>>
    BY <2>1, <2>2
    DEF MainCoherent, TableCoherent, RefusedOver, NothingLeaks, TypeOK, main
  <2>3. CASE /\ pc' = [pc EXCEPT ![c] = "finish"]
             /\ originFd' = [originFd EXCEPT ![c] = None]
             /\ refused' = refused \cup {c}
    <3>1. TypeOK'
      BY <2>1, <2>3 DEF TypeOK, main
    <3>2. MainCoherent'
      BY <2>1, <2>3 DEF MainCoherent, TypeOK, main
    <3>3. TableCoherent'
      BY <2>1, <2>3 DEF TableCoherent, TypeOK
    <3>4. RefusedOver'
      BY <2>1, <2>3 DEF RefusedOver, TypeOK
    <3>5. NothingLeaks'
      BY <2>1, <2>3 DEF NothingLeaks, TypeOK, main
    <3>. QED  BY <3>1, <3>2, <3>3, <3>4, <3>5
  <2>. QED  BY <1>10, <2>2, <2>3 DEF SetOptions, Goto
<1>11. ASSUME NEW c \in Conns, CloseOrigin(c) PROVE IInv'
  <2>1. originFd[c] \in Fds \cup {None} /\ CloseFd(originFd[c])
    BY <1>11 DEF CloseOrigin, TypeOK
  <2>2. /\ pc[c] = "relay" /\ pc' = [pc EXCEPT ![c] = "finish"]
        /\ originFd' = [originFd EXCEPT ![c] = None]
        /\ UNCHANGED <<main, clientFd, refused>>
    BY <1>11 DEF CloseOrigin, Goto
  <2>3. TypeOK'
    BY <2>1, <2>2, CloseFdEffect DEF TypeOK, main
  <2>4. MainCoherent'
    BY <2>2 DEF MainCoherent, TypeOK, main
  <2>5. ASSUME NEW d \in Conns, NEW fd \in Fds
        PROVE  /\ table'[fd] = <<"client", d>> =>
                    table[fd] = <<"client", d>> /\ fd # originFd[c]
               /\ table'[fd] = <<"origin", d>> =>
                    table[fd] = <<"origin", d>> /\ fd # originFd[c]
    BY <2>1, CloseFdLeaves
  <2>6. ASSUME NEW d \in Conns, NEW fd \in Fds, table'[fd] = <<"origin", d>>
        PROVE  d # c
    BY <2>2, <2>5, <2>6 DEF TableCoherent, RefusedOver
  <2>7. TableCoherent'
    BY <2>2, <2>5, <2>6 DEF TableCoherent, TypeOK
  <2>8. NothingLeaks'
    BY <2>2, <2>5, <2>6 DEF NothingLeaks, TypeOK, main
  <2>9. RefusedOver'
    BY <2>2 DEF RefusedOver, TypeOK
  <2>. QED  BY <2>3, <2>4, <2>7, <2>8, <2>9
<1>12. ASSUME NEW c \in Conns, End(c) PROVE IInv'
  <2>1. /\ pc[c] \in {"closed", "finish"} /\ pc' = [pc EXCEPT ![c] = "ended"]
        /\ UNCHANGED <<main, originFd, refused>>
    BY <1>12 DEF End, Goto
  <2>2. MainCoherent'
    BY <2>1 DEF MainCoherent, TypeOK, main
  <2>3. CASE kept = c
    BY <1>12, <2>1, <2>2, <2>3
    DEF End, TableCoherent, RefusedOver, NothingLeaks, TypeOK, main
  <2>4. CASE kept # c
    <3>1. /\ clientFd[c] \in Fds \cup {None} /\ CloseFd(clientFd[c])
          /\ clientFd' = [clientFd EXCEPT ![c] = None]
      BY <1>12, <2>4 DEF End, TypeOK
    <3>2. TypeOK'
      BY <2>1, <3>1, CloseFdEffect DEF TypeOK, main
    <3>3. ASSUME NEW d \in Conns, NEW fd \in Fds
          PROVE  /\ table'[fd] = <<"client", d>> =>
                      table[fd] = <<"client", d>> /\ fd # clientFd[c]
                 /\ table'[fd] = <<"origin", d>> =>
                      table[fd] = <<"origin", d>> /\ fd # clientFd[c]
      BY <3>1, CloseFdLeaves
    <3>4. ASSUME NEW d \in Conns, NEW fd \in Fds, table'[fd] = <<"client", d>>
          PROVE  d # c
      BY <3>3, <3>4 DEF TableCoherent
    <3>5. TableCoherent'
      BY <2>1, <3>1, <3>3, <3>4 DEF TableCoherent, TypeOK
    <3>6. NothingLeaks'
      BY <2>1, <3>3, <3>4 DEF NothingLeaks, TypeOK, main
    <3>7. RefusedOver'
      BY <2>1 DEF RefusedOver, TypeOK
    <3>. QED  BY <2>2, <3>2, <3>5, <3>6, <3>7
  <2>. QED  BY <2>3, <2>4
<1>13. CASE UNCHANGED vars
  BY <1>13 DEF vars, TypeOK, MainCoherent, TableCoherent, RefusedOver, NothingLeaks
<1>. QED
  BY <1>1, <1>2, <1>3, <1>4, <1>5, <1>6, <1>7, <1>8, <1>9, <1>10, <1>11,
     <1>12, <1>13 DEF Next

\* The inductive invariant holds in every state of the process.
THEOREM InductiveInvariant == Spec => []IInv
BY InitIInv, NextIInv, PTL DEF Spec

\* Every descriptor a TcpSocket or main holds is one of the process's, also
\* after the table was full, an accept failed or pthread_create did.
THEOREM TypeCorrect == Spec => []TypeOK
<1>1. IInv => TypeOK
  BY DEF IInv
<1>. QED  BY <1>1, InductiveInvariant, PTL

\* Whatever order threads end in, and whoever lets go of a client's TcpSocket
\* last, main or the thread, and whether main goes on to another connection or
\* its accept fails: no descriptor stays open behind its connection, but that of
\* a constructor that throws after its socket() succeeded.
THEOREM NoLeak == Spec => []NothingLeaks
<1>1. IInv => NothingLeaks
  BY DEF IInv
<1>. QED  BY <1>1, InductiveInvariant, PTL
=============================================================================
