-------------------------- MODULE ConnectionProofs --------------------------
(***************************************************************************)
(* What one connection owes its two byte streams, for every request, every *)
(* answer, every buffer size and every choice of the peers: both           *)
(* directions are pipes, the cache gets what the client got, the body loop *)
(* ends by itself only with the whole response, and the end of a tunnel    *)
(* does not overtake its data.                                             *)
(***************************************************************************)
EXTENDS Connection, SequenceTheorems, WellFoundedInduction, TLAPS

-----------------------------------------------------------------------------
(* Sequences that are part of a stream.                                     *)

\* s is what a stream holds behind its first n units, or a beginning of that.
Follows(s, wire, n) ==
  n + Len(s) <= Len(wire) /\ \A i \in 1 .. Len(s) : s[i] = wire[n + i]

\* Sequences of one length with the same elements are one sequence.
LEMMA SameUnits ==
  ASSUME NEW S, NEW s \in Seq(S), NEW T, NEW t \in Seq(T), Len(s) = Len(t),
         \A i \in 1 .. Len(s) : s[i] = t[i]
  PROVE  s = t
<1>1. /\ s \in [1 .. Len(s) -> S] /\ t \in [1 .. Len(t) -> T]
      /\ DOMAIN s = 1 .. Len(s) /\ DOMAIN t = 1 .. Len(t)
  BY LenProperties
<1>. QED  BY <1>1

\* What a part of a sequence is made of.
LEMMA PartOf ==
  ASSUME NEW S, NEW s \in Seq(S), NEW m \in 1 .. Len(s) + 1, NEW n \in m - 1 .. Len(s)
  PROVE  /\ SubSeq(s, m, n) \in Seq(S)
         /\ Len(SubSeq(s, m, n)) = n - m + 1
         /\ \A i \in 1 .. n - m + 1 : SubSeq(s, m, n)[i] = s[m + i - 1]
<1>. DEFINE part == SubSeq(s, m, n)
<1>1. Len(s) \in Nat /\ \A i \in 1 .. Len(s) : s[i] \in S
  BY LenProperties, ElementOfSeq
<1>2. part \in Seq(S)
  BY <1>1
<1>3. Len(part) = n - m + 1
  BY <1>1
<1>4. \A i \in 1 .. n - m + 1 : part[i] = s[m + i - 1]
  BY <1>1
<1>. QED  BY <1>2, <1>3, <1>4

\* What two sequences one behind the other are made of.
LEMMA Joined ==
  ASSUME NEW S, NEW s \in Seq(S), NEW t \in Seq(S)
  PROVE  /\ s \o t \in Seq(S)
         /\ Len(s \o t) = Len(s) + Len(t)
         /\ \A i \in 1 .. Len(s) : (s \o t)[i] = s[i]
         /\ \A i \in 1 .. Len(t) : (s \o t)[Len(s) + i] = t[i]
<1>1. Len(s) \in Nat /\ Len(t) \in Nat
  BY LenProperties
<1>2. s \o t \in Seq(S) /\ Len(s \o t) = Len(s) + Len(t)
  BY <1>1
<1>3. \A i \in 1 .. Len(s) : (s \o t)[i] = s[i]
  BY <1>1
<1>4. \A i \in 1 .. Len(t) : (s \o t)[Len(s) + i] = t[i]
  BY <1>1
<1>. QED  BY <1>2, <1>3, <1>4

\* A sequence has no elements exactly if it is the empty one.
LEMMA NoUnits ==
  ASSUME NEW S, NEW s \in Seq(S)
  PROVE  /\ Len(s) \in Nat
         /\ s = <<>> <=> Len(s) = 0
         /\ \A i \in 1 .. Len(s) : s[i] \in S
         /\ DOMAIN s = 1 .. Len(s)
BY LenProperties, ElementOfSeq, EmptySeq

\* The first and the last part of what follows in a stream.
LEMMA FollowsSplit ==
  ASSUME NEW S, NEW wire \in Seq(S), NEW T, NEW s \in Seq(T), NEW k \in Nat,
         NEW n \in 0 .. Len(s), Follows(s, wire, k)
  PROVE  /\ SubSeq(s, 1, n) \in Seq(T) /\ Len(SubSeq(s, 1, n)) = n
         /\ SubSeq(s, n + 1, Len(s)) \in Seq(T)
         /\ Len(SubSeq(s, n + 1, Len(s))) = Len(s) - n
         /\ Follows(SubSeq(s, 1, n), wire, k)
         /\ Follows(SubSeq(s, n + 1, Len(s)), wire, k + n)
<1>. DEFINE first == SubSeq(s, 1, n)
            rest == SubSeq(s, n + 1, Len(s))
<1>1. Len(s) \in Nat /\ Len(wire) \in Nat
  BY LenProperties
<1>2. /\ first \in Seq(T) /\ Len(first) = n
      /\ \A i \in 1 .. n : first[i] = s[i]
  BY <1>1, PartOf
<1>3. /\ rest \in Seq(T) /\ Len(rest) = Len(s) - n
      /\ \A i \in 1 .. Len(s) - n : rest[i] = s[n + i]
  <2>1. n + 1 \in 1 .. Len(s) + 1 /\ Len(s) \in (n + 1) - 1 .. Len(s)
    BY <1>1
  <2>2. /\ rest \in Seq(T) /\ Len(rest) = Len(s) - (n + 1) + 1
        /\ \A i \in 1 .. Len(s) - (n + 1) + 1 : rest[i] = s[(n + 1) + i - 1]
    BY <2>1, PartOf
  <2>3. Len(s) - (n + 1) + 1 = Len(s) - n
    BY <1>1
  <2>4. \A i \in 1 .. Len(s) - n : (n + 1) + i - 1 = n + i
    BY <1>1
  <2>. HIDE DEF rest
  <2>. QED  BY <2>2, <2>3, <2>4
<1>. HIDE DEF first, rest
<1>4. k + Len(s) <= Len(wire) /\ \A i \in 1 .. Len(s) : s[i] = wire[k + i]
  BY DEF Follows
<1>5. ASSUME NEW i \in 1 .. Len(s) - n PROVE rest[i] = wire[(k + n) + i]
  <2>1. n + i \in 1 .. Len(s) /\ k + (n + i) = (k + n) + i
    BY <1>1
  <2>. QED  BY <1>3, <1>4, <2>1
<1>6. Follows(first, wire, k)
  <2>1. k + n <= Len(wire)
    BY <1>1, <1>4
  <2>2. \A i \in 1 .. n : i \in 1 .. Len(s)
    BY <1>1
  <2>. QED  BY <1>2, <1>4, <2>1, <2>2 DEF Follows
<1>7. Follows(rest, wire, k + n)
  <2>1. (k + n) + (Len(s) - n) <= Len(wire)
    BY <1>1, <1>4
  <2>. QED  BY <1>3, <1>5, <2>1 DEF Follows
<1>. QED  BY <1>2, <1>3, <1>6, <1>7 DEF first, rest

\* One part of a stream and the next make a longer one.
LEMMA FollowsJoin ==
  ASSUME NEW S, NEW wire \in Seq(S), NEW T, NEW s \in Seq(T), NEW t \in Seq(T),
         NEW k \in Nat, Follows(s, wire, k), Follows(t, wire, k + Len(s))
  PROVE  Follows(s \o t, wire, k)
<1>1. Len(s) \in Nat /\ Len(t) \in Nat /\ Len(wire) \in Nat
  BY LenProperties
<1>2. /\ Len(s \o t) = Len(s) + Len(t)
      /\ \A i \in 1 .. Len(s) : (s \o t)[i] = s[i]
      /\ \A i \in 1 .. Len(t) : (s \o t)[Len(s) + i] = t[i]
  BY Joined
<1>3. /\ \A i \in 1 .. Len(s) : s[i] = wire[k + i]
      /\ \A i \in 1 .. Len(t) : t[i] = wire[k + Len(s) + i]
      /\ k + Len(s) + Len(t) <= Len(wire)
  BY DEF Follows
<1>4. ASSUME NEW i \in 1 .. Len(s) + Len(t) PROVE (s \o t)[i] = wire[k + i]
  <2>1. CASE i <= Len(s)
    <3>1. i \in 1 .. Len(s)
      BY <1>1, <2>1
    <3>. QED  BY <1>2, <1>3, <3>1
  <2>2. CASE ~ (i <= Len(s))
    <3>1. i - Len(s) \in 1 .. Len(t) /\ Len(s) + (i - Len(s)) = i
      BY <1>1, <2>2
    <3>2. k + Len(s) + (i - Len(s)) = k + i
      BY <1>1
    <3>3. (s \o t)[i] = t[i - Len(s)]
      BY <1>2, <3>1
    <3>4. t[i - Len(s)] = wire[k + i]
      BY <1>3, <3>1, <3>2
    <3>. QED  BY <3>3, <3>4
  <2>. QED  BY <2>1, <2>2
<1>. QED  BY <1>1, <1>2, <1>3, <1>4 DEF Follows

\* Nothing follows anywhere in a stream.
LEMMA NothingFollows ==
  ASSUME NEW S, NEW wire \in Seq(S), NEW k \in 0 .. Len(wire)
  PROVE  Follows(<<>>, wire, k)
BY EmptySeq, LenProperties DEF Follows

\* What follows behind n units of a stream, as a part of it: a beginning of all
\* that has arrived, or the whole of it.
LEMMA FollowsPrefix ==
  ASSUME NEW S, NEW wire \in Seq(S), NEW T, NEW s \in Seq(T), NEW k \in Nat,
         NEW n \in k .. Len(wire), Follows(s, wire, k), k + Len(s) <= n
  PROVE  /\ IsPrefix(s, SubSeq(wire, k + 1, n))
         /\ k + Len(s) = n => s = SubSeq(wire, k + 1, n)
         /\ SubSeq(wire, k + 1, n) \in Seq(S)
         /\ Len(SubSeq(wire, k + 1, n)) = n - k
<1>. DEFINE part == SubSeq(wire, k + 1, n)
            start == SubSeq(part, 1, Len(s))
<1>1. /\ Len(s) \in Nat /\ Len(wire) \in Nat
      /\ \A i \in 1 .. Len(s) : s[i] = wire[k + i]
  BY LenProperties DEF Follows
<1>2. /\ part \in Seq(S) /\ Len(part) = n - k
      /\ \A i \in 1 .. n - k : part[i] = wire[k + i]
  <2>1. k + 1 \in 1 .. Len(wire) + 1 /\ n \in (k + 1) - 1 .. Len(wire)
    BY <1>1
  <2>2. /\ part \in Seq(S) /\ Len(part) = n - (k + 1) + 1
        /\ \A i \in 1 .. n - (k + 1) + 1 : part[i] = wire[(k + 1) + i - 1]
    BY <2>1, PartOf
  <2>3. n - (k + 1) + 1 = n - k /\ \A i \in 1 .. n - k : (k + 1) + i - 1 = k + i
    BY <1>1
  <2>. HIDE DEF part
  <2>. QED  BY <2>2, <2>3
<1>. HIDE DEF part
<1>3. /\ start \in Seq(S) /\ Len(start) = Len(s)
      /\ \A i \in 1 .. Len(s) : start[i] = part[i]
  <2>1. Len(s) \in 1 - 1 .. Len(part)
    BY <1>1, <1>2
  <2>2. 1 \in 1 .. Len(part) + 1 /\ Len(s) - 1 + 1 = Len(s)
    BY <1>1, <1>2
  <2>. QED  BY <1>2, <2>1, <2>2, PartOf
<1>. HIDE DEF start
<1>4. \A i \in 1 .. Len(s) : s[i] = start[i]
  <2>1. \A i \in 1 .. Len(s) : i \in 1 .. n - k
    BY <1>1
  <2>. QED  BY <1>1, <1>2, <1>3, <2>1
<1>5. s = start
  BY <1>3, <1>4, SameUnits
<1>6. SubSeq(s, 1, Len(s)) = s
  <2>1. /\ SubSeq(s, 1, Len(s)) \in Seq(T) /\ Len(SubSeq(s, 1, Len(s))) = Len(s)
        /\ \A i \in 1 .. Len(s) : SubSeq(s, 1, Len(s))[i] = s[i]
    BY <1>1, PartOf
  <2>. QED  BY <2>1, SameUnits
<1>7. IsPrefix(s, part)
  <2>1. Len(s) <= Len(part)
    BY <1>1, <1>2
  <2>. QED  BY <1>5, <1>6, <2>1 DEF IsPrefix, start
<1>8. ASSUME k + Len(s) = n PROVE s = part
  <2>1. Len(s) = Len(part)
    BY <1>1, <1>2, <1>8
  <2>2. \A i \in 1 .. Len(s) : s[i] = part[i]
    BY <1>3, <1>4
  <2>. QED  BY <1>2, <2>1, <2>2, SameUnits
<1>. QED  BY <1>2, <1>7, <1>8 DEF part

\* Nothing that follows in a stream of units is a word of the proxy's own.
LEMMA FollowsUnits ==
  ASSUME NEW wire \in Seq(Units), NEW T, NEW s \in Seq(T), NEW k \in Nat,
         Follows(s, wire, k)
  PROVE  s \in Seq(Units) /\ \A i \in 1 .. Len(s) : s[i] \in Units /\ s[i] \notin Statuses
<1>1. Len(s) \in Nat /\ Len(wire) \in Nat
  BY LenProperties
<1>2. ASSUME NEW i \in 1 .. Len(s) PROVE s[i] \in Units /\ s[i] \notin Statuses
  <2>1. k + i \in 1 .. Len(wire) /\ s[i] = wire[k + i]
    BY <1>1 DEF Follows
  <2>. QED  BY <2>1, ElementOfSeq, StreamsAssumption
<1>3. s \in Seq(Units)
  <2>1. s \in [1 .. Len(s) -> T]
    BY LenProperties
  <2>. QED  BY <1>1, <1>2, <2>1
<1>. QED  BY <1>2, <1>3

-----------------------------------------------------------------------------
(* Where a header ends.                                                     *)

\* A set of natural numbers that is not empty has a least member:
\* the first match of a search.
LEMMA SmallestMember ==
  ASSUME NEW S \in SUBSET Nat, S # {}
  PROVE  \E m \in S : \A n \in S : m <= n
<1> DEFINE less == {pair \in Nat \X Nat : pair[1] < pair[2]}
<1>1. IsWellFoundedOn(less, Nat)
  BY NatLessThanWellFounded DEF OpToRel
<1>2. PICK m \in S : \A n \in S : <<n, m>> \notin less
  <2> HIDE DEF less
  <2>. QED  BY <1>1, WFMin
<1>3. ASSUME NEW n \in S PROVE m <= n
  <2>1. m \in Nat /\ n \in Nat
    BY <1>2
  <2>2. <<n, m>> \notin less
    BY <1>2
  <2>3. ~ (n < m)
    BY <2>1, <2>2
  <2>. QED  BY <2>1, <2>3
<1>. QED  BY <1>2, <1>3

\* The empty line is at a place of its own, the same in a longer beginning of
\* the stream.
LEMMA BlankPlace ==
  ASSUME NEW S, NEW s \in Seq(S), "blank" \in ToSet(s)
  PROVE  /\ BlankAt(s) \in 1 .. Len(s) /\ s[BlankAt(s)] = "blank"
         /\ \A i \in 1 .. Len(s) : s[i] = "blank" => BlankAt(s) <= i
<1>. DEFINE places == {i \in 1 .. Len(s) : s[i] = "blank"}
<1>1. Len(s) \in Nat /\ DOMAIN s = 1 .. Len(s)
  BY LenProperties
<1>2. places \in SUBSET Nat /\ places # {}
  BY <1>1 DEF ToSet
<1>3. BlankAt(s) = Min(places)
  BY <1>2 DEF BlankAt, SelectInSeq
<1>4. \E m \in places : \A n \in places : m <= n
  <2>. HIDE DEF places
  <2>. QED  BY <1>2, SmallestMember
<1>5. Min(places) \in places /\ \A n \in places : Min(places) <= n
  <2>. HIDE DEF places
  <2>. QED  BY <1>4 DEF Min
<1>. QED  BY <1>3, <1>5

\* The empty line is where it is in the whole stream.
LEMMA BlankOfBeginning ==
  ASSUME NEW S, NEW s \in Seq(S), NEW T, NEW wire \in Seq(T), Follows(s, wire, 0),
         "blank" \in ToSet(s)
  PROVE  "blank" \in ToSet(wire) /\ BlankAt(wire) = BlankAt(s)
<1>1. /\ Len(s) \in Nat /\ Len(wire) \in Nat /\ DOMAIN wire = 1 .. Len(wire)
      /\ Len(s) <= Len(wire) /\ \A i \in 1 .. Len(s) : s[i] = wire[i]
  <2>1. Len(s) \in Nat /\ Len(wire) \in Nat /\ DOMAIN wire = 1 .. Len(wire)
    BY LenProperties
  <2>2. \A i \in 1 .. Len(s) : 0 + i = i
    BY <2>1
  <2>. QED  BY <2>1, <2>2 DEF Follows
<1>. DEFINE a == BlankAt(s)
            b == BlankAt(wire)
<1>2. a \in 1 .. Len(s) /\ s[a] = "blank" /\ \A i \in 1 .. Len(s) : s[i] = "blank" => a <= i
  BY BlankPlace
<1>. HIDE DEF a
<1>3. a \in 1 .. Len(wire) /\ wire[a] = "blank"
  BY <1>1, <1>2
<1>4. "blank" \in ToSet(wire)
  BY <1>1, <1>3 DEF ToSet
<1>5. /\ b \in 1 .. Len(wire) /\ wire[b] = "blank"
      /\ \A i \in 1 .. Len(wire) : wire[i] = "blank" => b <= i
  BY <1>4, BlankPlace
<1>. HIDE DEF b
<1>6. b <= a
  BY <1>3, <1>5
<1>7. b \in 1 .. Len(s) /\ s[b] = "blank"
  BY <1>1, <1>2, <1>5, <1>6
<1>8. a <= b
  BY <1>2, <1>7
<1>. QED  BY <1>2, <1>4, <1>5, <1>6, <1>8 DEF a, b

\* A Content-Length that is found is at a place of its own.
LEMMA LengthPlace ==
  ASSUME NEW S, NEW s \in Seq(S), LengthAt(s) # 0
  PROVE  /\ LengthAt(s) \in 1 .. Len(s)
         /\ s[LengthAt(s)] \in {"length", "bad"}
<1>. DEFINE places == {i \in 1 .. Len(s) : s[i] \in {"length", "bad"}}
<1>1. places # {} /\ LengthAt(s) = Min(places)
  BY DEF LengthAt, SelectInSeq
<1>2. Len(s) \in Nat
  BY LenProperties
<1>3. places \in SUBSET Nat
  BY <1>2
<1>4. \E m \in places : \A n \in places : m <= n
  <2>. HIDE DEF places
  <2>. QED  BY <1>1, <1>3, SmallestMember
<1>5. Min(places) \in places
  <2>. HIDE DEF places
  <2>. QED  BY <1>4 DEF Min
<1>. QED  BY <1>1, <1>5

\* What is behind the empty line is the stream from there on.
LEMMA BehindFollows ==
  ASSUME NEW S, NEW s \in Seq(S), NEW T, NEW wire \in Seq(T), Follows(s, wire, 0),
         "blank" \in ToSet(s)
  PROVE  /\ Behind(s) \in Seq(S) /\ Len(Behind(s)) = Len(s) - BlankAt(s)
         /\ Follows(Behind(s), wire, BlankAt(s))
<1>. DEFINE a == BlankAt(s)
<1>1. a \in 0 .. Len(s) /\ Len(s) \in Nat
  BY BlankPlace, LenProperties
<1>2. Behind(s) = SubSeq(s, a + 1, Len(s))
  BY DEF Behind
<1>. HIDE DEF a
<1>3. /\ SubSeq(s, a + 1, Len(s)) \in Seq(S)
      /\ Len(SubSeq(s, a + 1, Len(s))) = Len(s) - a
      /\ Follows(SubSeq(s, a + 1, Len(s)), wire, 0 + a)
  BY <1>1, FollowsSplit
<1>4. 0 + a = a
  BY <1>1
<1>. QED  BY <1>2, <1>3, <1>4 DEF a

-----------------------------------------------------------------------------
(* What the proxy passes on and what it says itself.                        *)

\* Nothing given, nothing passed on.
LEMMA NothingPassed == WithoutOwn(<<>>) = <<>>
<1>1. Len(<<>>) = 0
  BY EmptySeq
<1>2. ~ IsOwn(<<>>, 1) /\ ~ IsOwn(<<>>, 0)
  BY DEF IsOwn
<1>3. WithoutOwn(<<>>) = SubSeq(<<>>, 1, 0)
  BY <1>1, <1>2 DEF WithoutOwn
<1>. QED  BY <1>3, SubSeqEmpty

\* What is passed on is a sequence.
LEMMA PassedType ==
  ASSUME NEW S, NEW g \in Seq(S)
  PROVE  /\ WithoutOwn(g) \in Seq(S)
         /\ Len(WithoutOwn(g)) \in Nat
<1>. DEFINE m == IF IsOwn(g, 1) THEN 2 ELSE 1
            n == IF IsOwn(g, Len(g)) THEN Len(g) - 1 ELSE Len(g)
<1>1. Len(g) \in Nat /\ \A i \in 1 .. Len(g) : g[i] \in S
  BY LenProperties, ElementOfSeq
<1>2. m \in {1, 2} /\ n \in Int /\ n <= Len(g)
  BY <1>1
<1>. HIDE DEF m, n
<1>3. \A i \in m .. n : g[i] \in S
  BY <1>1, <1>2
<1>4. SubSeq(g, m, n) \in Seq(S)
  BY <1>2, <1>3, SubSeqProperties
<1>. QED  BY <1>4, LenProperties DEF WithoutOwn, m, n

\* What has no word of the proxy's own is all passed on.
LEMMA AllPassed ==
  ASSUME NEW S, NEW g \in Seq(S), \A i \in 1 .. Len(g) : g[i] \notin Statuses
  PROVE  WithoutOwn(g) = g
<1>1. Len(g) \in Nat /\ DOMAIN g = 1 .. Len(g)
  BY LenProperties
<1>2. ~ IsOwn(g, 1) /\ ~ IsOwn(g, Len(g))
  BY <1>1 DEF IsOwn
<1>3. WithoutOwn(g) = SubSeq(g, 1, Len(g))
  BY <1>2 DEF WithoutOwn
<1>4. /\ SubSeq(g, 1, Len(g)) \in Seq(S) /\ Len(SubSeq(g, 1, Len(g))) = Len(g)
      /\ \A i \in 1 .. Len(g) : SubSeq(g, 1, Len(g))[i] = g[i]
  BY <1>1, PartOf
<1>. QED  BY <1>3, <1>4, SameUnits

\* What the proxy may say first, or 0 if that is not what it has said.
Lead(g) == IF IsOwn(g, 1) THEN 1 ELSE 0

\* As long as the proxy's last word is not its own, or its only one, what is
\* passed on is all behind the first.
LEMMA PassedBehindLead ==
  ASSUME NEW S, NEW g \in Seq(S), Len(g) <= 1 \/ g[Len(g)] \notin Statuses
  PROVE  /\ Lead(g) \in {0, 1} /\ Lead(g) <= Len(g)
         /\ Len(WithoutOwn(g)) = Len(g) - Lead(g)
         /\ \A i \in 1 .. Len(g) - Lead(g) : WithoutOwn(g)[i] = g[Lead(g) + i]
<1>. DEFINE a == Lead(g)
            part == SubSeq(g, a + 1, Len(g))
<1>1. Len(g) \in Nat /\ DOMAIN g = 1 .. Len(g)
  BY LenProperties
<1>2. a \in {0, 1} /\ a <= Len(g)
  BY <1>1 DEF Lead, IsOwn
<1>3. /\ part \in Seq(S) /\ Len(part) = Len(g) - a
      /\ \A i \in 1 .. Len(g) - a : part[i] = g[a + i]
  <2>. HIDE DEF a
  <2>1. a + 1 \in 1 .. Len(g) + 1 /\ Len(g) \in (a + 1) - 1 .. Len(g)
    BY <1>1, <1>2
  <2>2. /\ part \in Seq(S) /\ Len(part) = Len(g) - (a + 1) + 1
        /\ \A i \in 1 .. Len(g) - (a + 1) + 1 : part[i] = g[(a + 1) + i - 1]
    BY <2>1, PartOf
  <2>3. Len(g) - (a + 1) + 1 = Len(g) - a
    BY <1>1, <1>2
  <2>4. \A i \in 1 .. Len(g) - a : (a + 1) + i - 1 = a + i
    BY <1>1, <1>2
  <2>. HIDE DEF part
  <2>. QED  BY <2>2, <2>3, <2>4
<1>4. WithoutOwn(g) = part
  <2>1. CASE ~ IsOwn(g, Len(g))
    <3>1. (IF IsOwn(g, 1) THEN 2 ELSE 1) = a + 1
      BY DEF Lead
    <3>. QED  BY <2>1, <3>1 DEF WithoutOwn
  <2>2. CASE IsOwn(g, Len(g))
    <3>1. Len(g) = 1 /\ IsOwn(g, 1) /\ a = 1
      BY <1>1, <2>2 DEF IsOwn, Lead
    <3>2. WithoutOwn(g) = SubSeq(g, 2, 0)
      BY <3>1 DEF WithoutOwn
    <3>3. SubSeq(g, 2, 0) = <<>>
      BY SubSeqEmpty
    <3>4. part = <<>>
      <4>1. Len(part) = 0
        BY <1>3, <3>1
      <4>. HIDE DEF part
      <4>. QED  BY <1>3, <4>1, NoUnits
    <3>. QED  BY <3>2, <3>3, <3>4
  <2>. QED  BY <2>1, <2>2
<1>. HIDE DEF part
<1>. QED  BY <1>2, <1>3, <1>4 DEF a

\* The proxy has said nothing itself behind what it has passed on.
MayGoOn(g) == Len(g) <= 1 \/ g[Len(g)] \notin Statuses

NoOwn(c) == \A i \in 1 .. Len(c) : c[i] \notin Statuses

\* What is handed on next comes behind what was passed on before.
LEMMA PassedMore ==
  ASSUME NEW S, NEW g \in Seq(S), NEW c \in Seq(S), c # <<>>, MayGoOn(g), NoOwn(c)
  PROVE  /\ WithoutOwn(g \o c) = WithoutOwn(g) \o c
         /\ g \o c \in Seq(S) /\ g \o c # <<>> /\ Len(g \o c) = Len(g) + Len(c)
         /\ (g \o c)[Len(g \o c)] \notin Statuses
<1>. USE DEF MayGoOn, NoOwn
<1>. DEFINE a == Lead(g)
            more == g \o c
            old == WithoutOwn(g)
            new == WithoutOwn(more)
<1>1. /\ Len(g) \in Nat /\ Len(c) \in Nat /\ Len(c) # 0
      /\ DOMAIN g = 1 .. Len(g)
  BY NoUnits
<1>2. /\ more \in Seq(S) /\ Len(more) = Len(g) + Len(c)
      /\ \A i \in 1 .. Len(g) : more[i] = g[i]
      /\ \A i \in 1 .. Len(c) : more[Len(g) + i] = c[i]
  BY Joined
<1>. HIDE DEF more
<1>3. DOMAIN more = 1 .. Len(more) /\ more # <<>>
  BY <1>1, <1>2, NoUnits
<1>4. more[Len(more)] \notin Statuses
  BY <1>1, <1>2
<1>5. Lead(more) = a
  <2>1. CASE Len(g) = 0
    <3>1. more[1] = c[1] /\ 1 \in 1 .. Len(c)
      BY <1>1, <1>2, <2>1
    <3>2. ~ IsOwn(more, 1)
      BY <3>1 DEF IsOwn
    <3>3. ~ IsOwn(g, 1)
      BY <1>1, <2>1 DEF IsOwn
    <3>. QED  BY <3>2, <3>3 DEF Lead
  <2>2. CASE Len(g) # 0
    <3>1. more[1] = g[1] /\ 1 \in DOMAIN more /\ 1 \in DOMAIN g
      BY <1>1, <1>2, <1>3, <2>2
    <3>2. IsOwn(more, 1) <=> IsOwn(g, 1)
      BY <3>1 DEF IsOwn
    <3>. QED  BY <3>2 DEF Lead
  <2>. QED  BY <2>1, <2>2
<1>6. /\ a \in {0, 1} /\ a <= Len(g)
      /\ old \in Seq(S) /\ Len(old) = Len(g) - a
      /\ \A i \in 1 .. Len(g) - a : old[i] = g[a + i]
  BY PassedBehindLead, PassedType
<1>7. /\ new \in Seq(S) /\ Len(new) = Len(g) + Len(c) - a
      /\ \A i \in 1 .. Len(g) + Len(c) - a : new[i] = more[a + i]
  <2>1. /\ Len(new) = Len(more) - Lead(more)
        /\ \A i \in 1 .. Len(more) - Lead(more) : new[i] = more[Lead(more) + i]
    BY <1>2, <1>4, PassedBehindLead
  <2>2. new \in Seq(S)
    BY <1>2, PassedType
  <2>. HIDE DEF a
  <2>3. Len(more) - Lead(more) = Len(g) + Len(c) - a
    BY <1>1, <1>2, <1>5, <1>6
  <2>. HIDE DEF new
  <2>4. \A i \in 1 .. Len(g) + Len(c) - a : new[i] = more[a + i]
    BY <1>5, <2>1, <2>3
  <2>. QED  BY <2>1, <2>2, <2>3, <2>4
<1>. HIDE DEF a, old, new
<1>8. /\ old \o c \in Seq(S) /\ Len(old \o c) = Len(g) - a + Len(c)
      /\ \A i \in 1 .. Len(g) - a : (old \o c)[i] = old[i]
      /\ \A i \in 1 .. Len(c) : (old \o c)[Len(g) - a + i] = c[i]
  <2>1. /\ old \o c \in Seq(S) /\ Len(old \o c) = Len(old) + Len(c)
        /\ \A i \in 1 .. Len(old) : (old \o c)[i] = old[i]
        /\ \A i \in 1 .. Len(c) : (old \o c)[Len(old) + i] = c[i]
    <3>1. old \in Seq(S)
      BY <1>6
    <3>2. ASSUME NEW s \in Seq(S), NEW t \in Seq(S)
          PROVE  /\ s \o t \in Seq(S) /\ Len(s \o t) = Len(s) + Len(t)
                 /\ \A i \in 1 .. Len(s) : (s \o t)[i] = s[i]
                 /\ \A i \in 1 .. Len(t) : (s \o t)[Len(s) + i] = t[i]
      BY Joined
    <3>. QED  BY <3>1, <3>2
  <2>. DEFINE both == old \o c
  <2>. HIDE DEF both
  <2>2. /\ both \in Seq(S) /\ Len(both) = Len(old) + Len(c)
        /\ \A i \in 1 .. Len(old) : both[i] = old[i]
        /\ \A i \in 1 .. Len(c) : both[Len(old) + i] = c[i]
    BY <2>1 DEF both
  <2>3. Len(old) = Len(g) - a
    BY <1>6
  <2>4. /\ both \in Seq(S) /\ Len(both) = Len(g) - a + Len(c)
        /\ \A i \in 1 .. Len(g) - a : both[i] = old[i]
        /\ \A i \in 1 .. Len(c) : both[Len(g) - a + i] = c[i]
    BY <2>2, <2>3
  <2>. QED  BY <2>4 DEF both
<1>9. ASSUME NEW i \in 1 .. Len(g) + Len(c) - a PROVE new[i] = (old \o c)[i]
  <2>1. CASE i <= Len(g) - a
    <3>1. i \in 1 .. Len(g) - a /\ a + i \in 1 .. Len(g)
      BY <1>1, <1>6, <2>1
    <3>. QED  BY <1>2, <1>6, <1>7, <1>8, <3>1
  <2>2. CASE ~ (i <= Len(g) - a)
    <3>. DEFINE j == i - (Len(g) - a)
    <3>1. j \in 1 .. Len(c) /\ Len(g) - a + j = i /\ Len(g) + j = a + i
      BY <1>1, <1>6, <2>2
    <3>. HIDE DEF j
    <3>2. new[i] = c[j]
      BY <1>2, <1>7, <3>1
    <3>3. (old \o c)[i] = c[j]
      BY <1>8, <3>1
    <3>. QED  BY <3>2, <3>3
  <2>. QED  BY <2>1, <2>2
<1>10. new = old \o c
  <2>1. Len(new) = Len(old \o c)
    BY <1>1, <1>6, <1>7, <1>8
  <2>. QED  BY <1>7, <1>8, <1>9, <2>1, SameUnits
<1>. QED  BY <1>2, <1>3, <1>4, <1>10 DEF more, old, new

\* What the proxy says itself behind all that is not passed on.
LEMMA PassedAnswer ==
  ASSUME NEW S, NEW g \in Seq(S), NEW status \in Statuses \cap S,
         g = <<>> \/ g[Len(g)] \notin Statuses
  PROVE  /\ WithoutOwn(g \o <<status>>) = WithoutOwn(g)
         /\ g \o <<status>> \in Seq(S) /\ Len(g \o <<status>>) = Len(g) + 1
<1>. DEFINE c == <<status>>
            more == g \o c
<1>1. c \in Seq(S) /\ Len(c) = 1 /\ c[1] = status
  OBVIOUS
<1>2. Len(g) \in Nat /\ (g = <<>> <=> Len(g) = 0) /\ DOMAIN g = 1 .. Len(g)
  BY NoUnits
<1>. HIDE DEF c
<1>3. /\ more \in Seq(S) /\ Len(more) = Len(g) + 1
      /\ \A i \in 1 .. Len(g) : more[i] = g[i]
      /\ more[Len(g) + 1] = status
  <2>1. /\ g \o c \in Seq(S) /\ Len(g \o c) = Len(g) + Len(c)
        /\ \A i \in 1 .. Len(g) : (g \o c)[i] = g[i]
        /\ \A i \in 1 .. Len(c) : (g \o c)[Len(g) + i] = c[i]
    <3>1. c \in Seq(S)
      BY <1>1
    <3>2. ASSUME NEW s \in Seq(S), NEW t \in Seq(S)
          PROVE  /\ s \o t \in Seq(S) /\ Len(s \o t) = Len(s) + Len(t)
                 /\ \A i \in 1 .. Len(s) : (s \o t)[i] = s[i]
                 /\ \A i \in 1 .. Len(t) : (s \o t)[Len(s) + i] = t[i]
      BY Joined
    <3>. QED  BY ONLY g \in Seq(S), <3>1, <3>2
  <2>2. 1 \in 1 .. Len(c)
    BY <1>1
  <2>3. (g \o c)[Len(g) + 1] = c[1]
    BY <2>1, <2>2
  <2>. QED  BY <1>1, <2>1, <2>3
<1>. HIDE DEF more
<1>4. DOMAIN more = 1 .. Len(more)
  BY <1>3, LenProperties
<1>5. IsOwn(more, Len(more))
  BY <1>2, <1>3, <1>4 DEF IsOwn
<1>6. CASE g = <<>>
  <2>1. Len(more) = 1 /\ IsOwn(more, 1)
    BY <1>2, <1>3, <1>5, <1>6
  <2>2. WithoutOwn(more) = SubSeq(more, 2, 0)
    BY <1>5, <2>1 DEF WithoutOwn
  <2>. QED  BY <1>3, <1>6, <2>2, NothingPassed, SubSeqEmpty DEF more, c
<1>7. CASE g # <<>>
  <2>. DEFINE m == IF IsOwn(g, 1) THEN 2 ELSE 1
  <2>1. IsOwn(more, 1) <=> IsOwn(g, 1)
    BY <1>2, <1>3, <1>4, <1>7 DEF IsOwn
  <2>2. WithoutOwn(more) = SubSeq(more, m, Len(g))
    BY <1>2, <1>3, <1>5, <2>1 DEF WithoutOwn
  <2>3. ~ IsOwn(g, Len(g))
    BY <1>2, <1>7 DEF IsOwn
  <2>4. WithoutOwn(g) = SubSeq(g, m, Len(g))
    BY <2>3 DEF WithoutOwn
  <2>5. m \in 1 .. 2 /\ Len(g) \in Nat \ {0}
    BY <1>2, <1>7
  <2>. HIDE DEF m
  <2>. DEFINE x == SubSeq(more, m, Len(g))
              y == SubSeq(g, m, Len(g))
  <2>6. /\ x \in Seq(S) /\ Len(x) = Len(g) - m + 1
        /\ \A i \in 1 .. Len(g) - m + 1 : x[i] = more[m + i - 1]
    <3>1. m \in 1 .. Len(more) + 1 /\ Len(g) \in m - 1 .. Len(more)
      BY <1>3, <2>5
    <3>. QED  BY <1>3, <3>1, PartOf
  <2>7. /\ y \in Seq(S) /\ Len(y) = Len(g) - m + 1
        /\ \A i \in 1 .. Len(g) - m + 1 : y[i] = g[m + i - 1]
    <3>1. m \in 1 .. Len(g) + 1 /\ Len(g) \in m - 1 .. Len(g)
      BY <2>5
    <3>. QED  BY <3>1, PartOf
  <2>. HIDE DEF x, y
  <2>8. ASSUME NEW i \in 1 .. Len(g) - m + 1 PROVE x[i] = y[i]
    <3>1. m + i - 1 \in 1 .. Len(g)
      BY <2>5
    <3>. QED  BY <1>3, <2>6, <2>7, <3>1
  <2>9. x = y
    BY <2>6, <2>7, <2>8, SameUnits
  <2>. QED  BY <1>3, <2>2, <2>4, <2>9 DEF x, y, more, c
<1>. QED  BY <1>3, <1>6, <1>7 DEF more, c

-----------------------------------------------------------------------------
(* The invariant.                                                           *)

IsTunnel == request.method = "CONNECT"

ExchangeLocations ==
  {"forward", "request", "header", "relay", "parse", "body", "pass", "store"}

\* Which part of the program the thread is in, and whether it has reached the
\* origin and begun the tunnel.
Where ==
  /\ pc = "recv" => /\ taken["client"] = 0 /\ early = 0
                    /\ given["origin"] = <<>> /\ out = <<>>
  /\ IsTunnel => pc \notin ExchangeLocations
  /\ ~ IsTunnel => pc \notin TunnelLocations \cup {"dial", "establish"} /\ early = 0
  /\ pc \in {"recv", "forward", "dial"} => link["origin"] = "none"
  /\ IsTunnel /\ pc = "error" => link["origin"] = "none"
  /\ IsTunnel /\ early = 0 =>
       /\ pc \in {"recv", "ended"} /\ link["origin"] = "none"
       /\ given["origin"] = <<>>
  /\ link["origin"] = "none" => arrived["origin"] = 0

\* What the origin is given follows in the client's stream behind what the
\* first recv took of a tunnel, and what is being sent follows behind that;
\* nothing that was received is missing unless a send has failed.
OriginGets ==
  LET n == early + Len(given["origin"])
  IN  /\ n <= taken["client"]
      /\ Follows(given["origin"], request.wire, early)
      /\ pc \in {"request", "to origin"} =>
           Follows(out, request.wire, n) /\ n + Len(out) = taken["client"]
      /\ IsTunnel /\ pc # "to origin" /\ "origin" \notin dropped => n = taken["client"]
      /\ pc = "forward" =>
           /\ given["origin"] = <<>>
           /\ Follows(request_str, request.wire, 0) /\ Len(request_str) = taken["client"]

\* The tunnel's loop goes on only while neither side is closed, and a failed
\* send closes a side.
LoopFlags ==
  /\ dropped \subseteq closed
  /\ pc \notin {"origin", "to client", "hangup", "finish", "ended"} => closed = {}
  /\ pc \in {"origin", "to client"} => "client" \notin dropped
  /\ ~ IsTunnel => closed = {}

\* The same for the client, and when the proxy may still say something itself.
ClientGets ==
  LET g == given["client"]
      n == Len(WithoutOwn(g))
      open == \/ g = <<>> \/ g[Len(g)] \notin Statuses
              \/ IsTunnel /\ Len(g) = 1
  IN  /\ n <= taken["origin"]
      /\ Follows(WithoutOwn(g), message.wire, 0)
      /\ pc \notin {"error", "finish", "ended"} => open
      /\ pc \in {"recv", "forward", "dial", "request", "header"} => g = <<>>
      /\ pc = "establish" /\ out # <<>> => g = <<>> /\ out = <<"200">>
      /\ pc = "error" /\ out # <<>> =>
           /\ g = <<>> \/ g[Len(g)] \notin Statuses
           /\ \E status \in Statuses : out = <<status>>
      /\ pc \in {"relay", "pass", "to client"} =>
           Follows(out, message.wire, n) /\ n + Len(out) = taken["origin"]
      /\ pc \in {"parse", "body", "store"} => n = taken["origin"]
      /\ IsTunnel /\ pc # "to client" /\ "client" \notin dropped => n = taken["origin"]

\* What was received as the header is the beginning of the origin's stream.
HeaderReceived ==
  /\ Follows(response_str, message.wire, 0)
  /\ pc \in {"header", "relay", "parse"} => Len(response_str) = taken["origin"]
  /\ pc \in {"recv", "forward", "request"} => response_str = <<>> /\ taken["origin"] = 0
  /\ pc \in {"relay", "parse", "body", "pass", "store"} =>
       Left("origin") \/ "blank" \in ToSet(response_str)

\* What is kept for the cache is the origin's stream from behind the empty
\* line up to what was passed on.
BodyKept ==
  LET start == BlankAt(response_str)
      pending == IF pc = "pass" THEN Len(buf) ELSE 0
      n == Len(WithoutOwn(given["client"]))
  IN  /\ pc = "pass" => /\ Len(buf) <= taken["origin"]
                        /\ Follows(buf, message.wire, taken["origin"] - Len(buf))
      /\ pc \in {"body", "pass", "store"} /\ "blank" \in ToSet(response_str) =>
           /\ start + body_received + pending = taken["origin"]
           /\ IsCacheable => /\ Follows(response_buffer, message.wire, start)
                             /\ Len(response_buffer) = body_received
      /\ stored # NotStored =>
           /\ pc \in {"finish", "ended"}
           /\ stored \in Seq(Units)
           /\ "blank" \in ToSet(response_str)
           /\ Follows(stored, message.wire, start)
           /\ start + Len(stored) = n

\* Where the length came from that the body loop counts to, and why the loop
\* has ended.
LoopEnded ==
  /\ pc \in {"body", "pass", "store"} /\ content_length > 0 =>
       /\ "length" \in ToSet(response_str)
       /\ content_length = message.length % (SizeMax + 1)
  /\ pc = "store" =>
       \/ Left("origin")
       \/ LengthReached(body_received)
       \/ /\ EndsInLastChunk
          /\ Len(buf) <= taken["origin"]
          /\ Follows(buf, message.wire, taken["origin"] - Len(buf))

\* Why the tunnel's loop has ended, and what a closed side has sent.
TunnelEnded ==
  /\ \A p \in closed \ dropped : Left(p) /\ taken[p] = arrived[p]
  /\ \A p \in revents.hup : link[p] = "reset"
  /\ IsTunnel /\ pc \in {"finish", "ended"} /\ link["origin"] # "none" =>
       closed # {} \/ (\E p \in Peers : link[p] = "reset") \/ revents.failed

IInv ==
  /\ TypeOK /\ Where /\ OriginGets /\ LoopFlags /\ ClientGets
  /\ HeaderReceived /\ BodyKept /\ LoopEnded /\ TunnelEnded

-----------------------------------------------------------------------------
(* Types.                                                                   *)

Words == Units \cup Statuses

\* What the two peers may send is made of units.
LEMMA Wires ==
  ASSUME StreamsTypeOK
  PROVE  request.wire \in Seq(Units) /\ message.wire \in Seq(Units)
<1>1. <<request, message>> \in Encounters
  BY DEF StreamsTypeOK
<1>2. /\ <<request, message>>[1].wire \in Seq(Units)
      /\ <<request, message>>[2].wire \in Seq(Units)
  BY <1>1, StreamsAssumption
<1>. QED  BY <1>2

\* The counters as numbers.
LEMMA Counters ==
  ASSUME StreamsTypeOK, NEW p \in Peers
  PROVE  /\ taken[p] \in Nat /\ arrived[p] \in Nat /\ read[p] \in Nat
         /\ taken[p] <= arrived[p] /\ arrived[p] <= Len(Wire(p))
         /\ read[p] <= Len(given[p]) /\ given[p] \in Seq(Words) /\ Len(given[p]) \in Nat
         /\ Len(Wire(p)) \in Nat /\ Wire(p) \in Seq(Units)
<1>1. taken[p] \in Nat /\ arrived[p] \in Nat /\ read[p] \in Nat /\ given[p] \in Seq(Words)
  BY DEF StreamsTypeOK, Words
<1>2. Wire(p) \in Seq(Units)
  BY Wires DEF Wire
<1>3. Len(Wire(p)) \in Nat /\ Len(given[p]) \in Nat
  BY <1>1, <1>2, LenProperties
<1>4. /\ taken[p] \in 0 .. arrived[p] /\ arrived[p] \in 0 .. Len(Wire(p))
      /\ read[p] \in 0 .. Len(given[p])
  BY DEF StreamsTypeOK
<1>. QED  BY <1>1, <1>2, <1>3, <1>4

\* What a recv returns is what follows in the peer's stream, something if
\* anything has arrived.
LEMMA ReceivedFollows ==
  ASSUME StreamsTypeOK, NEW p \in Peers
  PROVE  /\ Received(p) \in Seq(Units) /\ Len(Received(p)) \in 0 .. MaxRecv
         /\ taken[p] + Len(Received(p)) <= arrived[p]
         /\ Follows(Received(p), Wire(p), taken[p])
         /\ Received(p) = <<>> <=> taken[p] = arrived[p]
<1>. DEFINE wire == Wire(p)
            t == taken[p]
            a == arrived[p]
            queued == SubSeq(wire, t + 1, a)
            n == IF Len(queued) < MaxRecv THEN Len(queued) ELSE MaxRecv
<1>1. /\ t \in Nat /\ a \in Nat /\ t <= a /\ a <= Len(wire)
      /\ wire \in Seq(Units) /\ Len(wire) \in Nat
  BY Counters
<1>2. MaxRecv \in Nat \ {0}
  BY StreamsAssumption
<1>3. Received(p) = SubSeq(queued, 1, n)
  BY DEF Received
<1>. HIDE DEF wire, t, a
<1>4. /\ queued \in Seq(Units) /\ Len(queued) = a - t
      /\ \A i \in 1 .. a - t : queued[i] = wire[t + i]
  <2>1. t + 1 \in 1 .. Len(wire) + 1 /\ a \in (t + 1) - 1 .. Len(wire)
    BY <1>1
  <2>2. /\ queued \in Seq(Units) /\ Len(queued) = a - (t + 1) + 1
        /\ \A i \in 1 .. a - (t + 1) + 1 : queued[i] = wire[(t + 1) + i - 1]
    BY <1>1, <2>1, PartOf
  <2>3. a - (t + 1) + 1 = a - t /\ \A i \in 1 .. a - t : (t + 1) + i - 1 = t + i
    BY <1>1
  <2>. HIDE DEF queued
  <2>. QED  BY <2>2, <2>3
<1>. HIDE DEF queued
<1>5. n \in 0 .. Len(queued) /\ n <= MaxRecv /\ (n = 0 <=> t = a)
  BY <1>1, <1>2, <1>4
<1>6. Follows(queued, wire, t)
  <2>1. t + Len(queued) <= Len(wire)
    BY <1>1, <1>4
  <2>. QED  BY <1>4, <2>1 DEF Follows
<1>. HIDE DEF n
<1>7. /\ SubSeq(queued, 1, n) \in Seq(Units) /\ Len(SubSeq(queued, 1, n)) = n
      /\ Follows(SubSeq(queued, 1, n), wire, t)
  BY <1>1, <1>4, <1>5, <1>6, FollowsSplit
<1>8. t + n <= a
  BY <1>1, <1>4, <1>5
<1>9. n \in 0 .. MaxRecv
  BY <1>2, <1>4, <1>5
<1>. DEFINE r == SubSeq(queued, 1, n)
<1>10. r = <<>> <=> n = 0
  BY <1>7, NoUnits
<1>. HIDE DEF r
<1>11. Received(p) = r /\ r \in Seq(Units) /\ Len(r) = n /\ Follows(r, wire, t)
  BY <1>3, <1>7 DEF r
<1>. QED  BY <1>5, <1>8, <1>9, <1>10, <1>11 DEF wire, t, a

\* One send takes a first part of out that is not empty, as far as there is
\* room.
LEMMA SendSomeParts ==
  ASSUME StreamsTypeOK, NEW p \in Peers, SendSome(p)
  PROVE  \E n \in 1 .. Len(out) :
            /\ n <= Room(p)
            /\ given' = [given EXCEPT ![p] = given[p] \o SubSeq(out, 1, n)]
            /\ given'[p] = given[p] \o SubSeq(out, 1, n)
            /\ given'[Other(p)] = given[Other(p)]
            /\ out' = SubSeq(out, n + 1, Len(out))
            /\ SubSeq(out, 1, n) \in Seq(Words) /\ Len(SubSeq(out, 1, n)) = n
            /\ given'[p] \in Seq(Words) /\ Len(given'[p]) = Len(given[p]) + n
            /\ out' \in Seq(Words) /\ Len(out') = Len(out) - n
<1>. DEFINE n == IF Len(out) < Room(p) THEN Len(out) ELSE Room(p)
            c == SubSeq(out, 1, n)
<1>1. /\ given' = [given EXCEPT ![p] = given[p] \o c]
      /\ out' = SubSeq(out, n + 1, Len(out))
      /\ n > 0
  BY DEF SendSome
<1>2. /\ out \in Seq(Words) /\ Len(out) \in Nat
      /\ given \in [Peers -> Seq(Words)] /\ Room(p) \in Nat
  <2>1. out \in Seq(Words) /\ given \in [Peers -> Seq(Words)] /\ Room(p) \in 0 .. MaxSend
    BY DEF StreamsTypeOK, Words
  <2>. QED  BY <2>1, LenProperties, StreamsAssumption
<1>3. n \in 1 .. Len(out) /\ n <= Room(p)
  BY <1>1, <1>2
<1>. HIDE DEF n
<1>4. c \in Seq(Words) /\ Len(c) = n
  BY <1>2, <1>3, PartOf
<1>5. /\ SubSeq(out, n + 1, Len(out)) \in Seq(Words)
      /\ Len(SubSeq(out, n + 1, Len(out))) = Len(out) - n
  <2>1. n + 1 \in 1 .. Len(out) + 1 /\ Len(out) \in (n + 1) - 1 .. Len(out)
    BY <1>2, <1>3
  <2>2. Len(out) - (n + 1) + 1 = Len(out) - n
    BY <1>2, <1>3
  <2>. QED  BY <1>2, <2>1, <2>2, PartOf
<1>. HIDE DEF c
<1>6. given[p] \o c \in Seq(Words) /\ Len(given[p] \o c) = Len(given[p]) + n
  <2>1. given[p] \in Seq(Words)
    BY <1>2
  <2>. QED  BY <1>4, <2>1, Joined
<1>7. Other(p) \in Peers /\ Other(p) # p
  BY DEF Other, Peers
<1>8. given'[p] = given[p] \o c /\ given'[Other(p)] = given[Other(p)]
  BY <1>1, <1>2, <1>7
<1>. QED  BY <1>1, <1>3, <1>4, <1>5, <1>6, <1>8 DEF c

\* What one step may do to the streams.
StreamsStep ==
  /\ UNCHANGED peers
  /\ \/ UNCHANGED streams
     \/ \E p \in Peers : Recv(p) \/ SendSome(p) \/ PeerStep(p)
     \/ Connected

\* Every step does one of these things to the streams.
LEMMA NextStreamsStep == [Next]_vars => StreamsStep
<1> SUFFICES ASSUME [Next]_vars PROVE StreamsStep
  OBVIOUS
<1>. USE DEF StreamsStep
<1>0. "client" \in Peers /\ "origin" \in Peers /\ \A p \in Peers : Other(p) \in Peers
  BY DEF Peers, Other
<1>1. CASE ReceiveRequest
  BY <1>0, <1>1 DEF ReceiveRequest
<1>2. CASE SendError
  BY <1>0, <1>2 DEF SendError
<1>3. CASE Finish
  BY <1>3 DEF Finish
<1>4. CASE Forward
  BY <1>4 DEF Forward
<1>5. CASE SendRequest
  BY <1>0, <1>5 DEF SendRequest
<1>6. CASE ReceiveHeader
  BY <1>0, <1>6 DEF ReceiveHeader
<1>7. CASE RelayHeader
  BY <1>0, <1>7 DEF RelayHeader
<1>8. CASE ParseFraming
  BY <1>8 DEF ParseFraming
<1>9. CASE ReceiveBody
  BY <1>0, <1>9 DEF ReceiveBody
<1>10. CASE PassBody
  BY <1>0, <1>10 DEF PassBody
<1>11. CASE Store
  BY <1>11 DEF Store
<1>12. CASE Dial
  BY <1>12 DEF Dial
<1>13. CASE Establish
  BY <1>0, <1>13 DEF Establish
<1>14. CASE Poll
  BY <1>14 DEF Poll
<1>15. CASE CheckHangup
  BY <1>15 DEF CheckHangup
<1>16. ASSUME NEW p \in Peers, TakeFrom(p) PROVE StreamsStep
  BY <1>16 DEF TakeFrom
<1>17. ASSUME NEW p \in Peers, PassOn(p) PROVE StreamsStep
  BY <1>0, <1>17 DEF PassOn
<1>18. CASE Environment
  BY <1>18 DEF Environment, PeerStep, PeerSends, PeerReads, PeerShuts, PeerResets, PollFails,
    vars
<1>19. CASE UNCHANGED vars
  BY <1>19 DEF vars
<1>. QED
  BY <1>1, <1>2, <1>3, <1>4, <1>5, <1>6, <1>7, <1>8, <1>9, <1>10, <1>11, <1>12, <1>13,
     <1>14, <1>15, <1>16, <1>17, <1>18, <1>19
  DEF Next, ThreadStep, ExchangeStep, TunnelStep

\* What the types of the streams amount to.
StreamBounds ==
  /\ <<request, message>> \in Encounters
  /\ link \in [Peers -> {"none", "open", "shut", "reset"}]
  /\ taken \in [Peers -> Nat] /\ arrived \in [Peers -> Nat] /\ read \in [Peers -> Nat]
  /\ given \in [Peers -> Seq(Words)]
  /\ \A p \in Peers : /\ taken[p] \in 0 .. arrived[p]
                      /\ arrived[p] \in 0 .. Len(Wire(p))
                      /\ read[p] \in 0 .. Len(given[p])
                      /\ Len(given[p]) - read[p] <= MaxSend
                      /\ Len(given[p]) \in Nat

\* None of them breaks the types of the streams.
LEMMA StreamsTyped ==
  ASSUME StreamsTypeOK, StreamsStep, out' \in Seq(Words)
  PROVE  StreamsTypeOK'
<1>1. StreamBounds
  <2>1. \A p \in Peers : MaxSend - (Len(given[p]) - read[p]) \in 0 .. MaxSend
    BY DEF StreamsTypeOK, Room
  <2>2. ASSUME NEW p \in Peers PROVE Len(given[p]) - read[p] <= MaxSend
    BY <2>1, Counters, StreamsAssumption
  <2>. QED  BY <2>2, Counters DEF StreamsTypeOK, Words, StreamBounds
<1>2. \A p \in Peers : /\ Wire(p)' = Wire(p) /\ Len(Wire(p)) \in Nat
                       /\ Len(given[p]) \in Nat
  BY Counters DEF StreamsStep, peers, Wire
<1>3. SUFFICES StreamBounds'
  <2>1. \A p \in Peers : Room(p)' = MaxSend - (Len(given'[p]) - read'[p])
    BY DEF Room
  <2>2. ASSUME NEW p \in Peers, Len(given'[p]) - read'[p] <= MaxSend,
               Len(given'[p]) \in Nat, read'[p] \in 0 .. Len(given'[p])
        PROVE  MaxSend - (Len(given'[p]) - read'[p]) \in 0 .. MaxSend
    BY <2>2, StreamsAssumption
  <2>. QED  BY <2>1, <2>2 DEF StreamsTypeOK, Words, StreamBounds
<1>. USE DEF StreamBounds
<1>4. <<request, message>>' \in Encounters
  BY <1>1 DEF StreamsStep, peers
<1>5. CASE UNCHANGED streams
  BY <1>1, <1>2, <1>4, <1>5 DEF streams
<1>6. ASSUME NEW p \in Peers, Recv(p) PROVE StreamBounds'
  <2>. DEFINE n == Len(Received(p))
  <2>1. n \in Nat /\ taken[p] + n <= arrived[p]
    BY ReceivedFollows
  <2>2. taken' = [taken EXCEPT ![p] = @ + n] /\ UNCHANGED <<link, arrived, given, read>>
    BY <1>6 DEF Recv
  <2>. HIDE DEF n
  <2>. QED  BY <1>1, <1>2, <1>4, <2>1, <2>2
<1>7. ASSUME NEW p \in Peers, SendSome(p) PROVE StreamBounds'
  <2>1. PICK n \in 1 .. Len(out) :
           /\ n <= Room(p)
           /\ given' = [given EXCEPT ![p] = given[p] \o SubSeq(out, 1, n)]
           /\ given'[p] \in Seq(Words) /\ Len(given'[p]) = Len(given[p]) + n
    BY <1>7, SendSomeParts
  <2>2. UNCHANGED <<link, arrived, taken, read>>
    BY <1>7 DEF SendSome
  <2>3. /\ given' \in [Peers -> Seq(Words)]
        /\ \A q \in Peers : q # p => given'[q] = given[q]
    <3>. DEFINE more == given[p] \o SubSeq(out, 1, n)
    <3>1. given' = [given EXCEPT ![p] = more] /\ more \in Seq(Words)
      BY <1>1, <2>1
    <3>. HIDE DEF more
    <3>. QED  BY <1>1, <3>1
  <2>4. n \in Nat /\ Len(given[p]) - read[p] + n <= MaxSend
    <3>1. Len(out) \in Nat
      BY LenProperties DEF StreamsTypeOK
    <3>2. n \in Nat /\ n <= MaxSend - (Len(given[p]) - read[p])
      BY <2>1, <3>1 DEF Room
    <3>. QED  BY <1>2, <3>2, Counters, StreamsAssumption
  <2>5. \A q \in Peers : /\ read'[q] \in 0 .. Len(given'[q])
                         /\ Len(given'[q]) - read'[q] <= MaxSend
                         /\ Len(given'[q]) \in Nat
    <3>. SUFFICES ASSUME NEW q \in Peers
                  PROVE  /\ read'[q] \in 0 .. Len(given'[q])
                         /\ Len(given'[q]) - read'[q] <= MaxSend
                         /\ Len(given'[q]) \in Nat
      OBVIOUS
    <3>1. read'[q] = read[q] /\ read[q] \in 0 .. Len(given[q]) /\ Len(given[q]) \in Nat
          /\ Len(given[q]) - read[q] <= MaxSend
      BY <1>1, <1>2, <2>2
    <3>2. CASE q = p
      BY <2>1, <2>4, <3>1, <3>2
    <3>3. CASE q # p
      BY <2>3, <3>1, <3>3
    <3>. QED  BY <3>2, <3>3
  <2>6. \A q \in Peers : taken'[q] \in 0 .. arrived'[q] /\ arrived'[q] \in 0 .. Len(Wire(q))'
    BY <1>1, <1>2, <2>2
  <2>. QED  BY <1>1, <1>4, <2>2, <2>3, <2>5, <2>6
<1>8. CASE Connected
  <2>1. link' = [link EXCEPT !["origin"] = "open"] /\ UNCHANGED <<arrived, taken, given, read>>
    BY <1>8 DEF Connected
  <2>. QED  BY <1>1, <1>2, <1>4, <2>1
<1>9. ASSUME NEW p \in Peers, PeerSends(p) PROVE StreamBounds'
  <2>1. /\ arrived[p] < Len(Wire(p))
        /\ arrived' = [arrived EXCEPT ![p] = @ + 1]
        /\ UNCHANGED <<link, taken, given, read>>
    BY <1>9 DEF PeerSends
  <2>. QED  BY <1>1, <1>2, <1>4, <2>1
<1>10. ASSUME NEW p \in Peers, PeerReads(p) PROVE StreamBounds'
  <2>1. /\ read[p] < Len(given[p])
        /\ read' = [read EXCEPT ![p] = @ + 1]
        /\ UNCHANGED <<link, arrived, taken, given>>
    BY <1>10 DEF PeerReads
  <2>2. \A q \in Peers : /\ read'[q] \in 0 .. Len(given'[q])
                         /\ Len(given'[q]) - read'[q] <= MaxSend
                         /\ Len(given'[q]) \in Nat
    <3>. SUFFICES ASSUME NEW q \in Peers
                  PROVE  /\ read'[q] \in 0 .. Len(given'[q])
                         /\ Len(given'[q]) - read'[q] <= MaxSend
                         /\ Len(given'[q]) \in Nat
      OBVIOUS
    <3>1. /\ read[q] \in 0 .. Len(given[q]) /\ Len(given[q]) \in Nat
          /\ Len(given[q]) - read[q] <= MaxSend /\ given'[q] = given[q]
      BY <1>1, <2>1
    <3>2. CASE q = p
      <4>1. read'[q] = read[q] + 1 /\ read[q] < Len(given[q])
        BY <1>1, <2>1, <3>2
      <4>. QED  BY <3>1, <4>1, StreamsAssumption
    <3>3. CASE q # p
      BY <1>1, <2>1, <3>1, <3>3
    <3>. QED  BY <3>2, <3>3
  <2>3. read' \in [Peers -> Nat]
    BY <1>1, <2>1
  <2>4. \A q \in Peers : taken'[q] \in 0 .. arrived'[q] /\ arrived'[q] \in 0 .. Len(Wire(q))'
    BY <1>1, <1>2, <2>1
  <2>. QED  BY <1>1, <1>4, <2>1, <2>2, <2>3, <2>4
<1>11. ASSUME NEW p \in Peers, PeerShuts(p) PROVE StreamBounds'
  BY <1>1, <1>2, <1>4, <1>11 DEF PeerShuts
<1>12. ASSUME NEW p \in Peers, PeerResets(p) PROVE StreamBounds'
  BY <1>1, <1>2, <1>4, <1>12 DEF PeerResets
<1>. QED
  BY <1>5, <1>6, <1>7, <1>8, <1>9, <1>10, <1>11, <1>12 DEF StreamsStep, PeerStep

\* The types of what is not a stream.
LocalsOK ==
  /\ pc \in Locations
  /\ request_str \in Seq(Units) /\ response_str \in Seq(Units)
  /\ response_buffer \in Seq(Units) /\ buf \in Seq(Units)
  /\ stored \in Seq(Units) \cup {NotStored}
  /\ content_length \in 0 .. SizeMax
  /\ is_chunked \in BOOLEAN
  /\ body_received \in Nat
  /\ revents \in [in : SUBSET Peers, hup : SUBSET Peers, failed : BOOLEAN]
  /\ closed \subseteq Peers /\ dropped \subseteq Peers
  /\ early \in 0 .. MaxRecv

\* The two parts of the types.
LEMMA TypesSplit == TypeOK <=> StreamsTypeOK /\ LocalsOK
BY DEF TypeOK, LocalsOK

\* What is sent is made of units and of words of the proxy's own.
LEMMA WordsOf ==
  /\ Seq(Units) \subseteq Seq(Words)
  /\ <<>> \in Seq(Words) /\ <<>> \in Seq(Units)
  /\ \A status \in Statuses : <<status>> \in Seq(Words)
<1>1. Units \subseteq Words /\ Statuses \subseteq Words
  BY DEF Words
<1>2. ASSUME NEW s \in Seq(Units) PROVE s \in Seq(Words)
  <2>1. s \in [1 .. Len(s) -> Units] /\ Len(s) \in Nat
    BY LenProperties
  <2>2. s \in [1 .. Len(s) -> Words]
    BY <1>1, <2>1
  <2>. QED  BY <2>1, <2>2
<1>3. ASSUME NEW status \in Statuses PROVE <<status>> \in Seq(Words)
  BY <1>1, <1>3
<1>. QED  BY <1>2, <1>3, EmptySeq

\* Every step keeps the types.
LEMMA NextTypeOK == IInv /\ [Next]_vars => TypeOK'
<1> SUFFICES ASSUME IInv, [Next]_vars PROVE TypeOK'
  OBVIOUS
<1>0. SUFFICES out' \in Seq(Words) /\ LocalsOK'
  <2>1. StreamsTypeOK
    BY DEF IInv, TypeOK
  <2>2. StreamsStep
    BY NextStreamsStep
  <2>3. TypeOK' <=> StreamsTypeOK' /\ LocalsOK'
    BY DEF TypeOK, LocalsOK
  <2>. QED  BY <2>1, <2>2, <2>3, StreamsTyped
<1>1. StreamsTypeOK /\ LocalsOK /\ out \in Seq(Words) /\ Where
  BY TypesSplit DEF IInv, StreamsTypeOK, Words
<1>2. \A p \in Peers : /\ Received(p) \in Seq(Units) /\ Received(p) \in Seq(Words)
                       /\ Len(Received(p)) \in 0 .. MaxRecv
  BY <1>1, ReceivedFollows, WordsOf
<1>3. /\ request_str \in Seq(Words) /\ <<>> \in Seq(Words) /\ <<>> \in Seq(Units)
      /\ \A status \in Statuses : <<status>> \in Seq(Words)
      /\ {"200", "400", "500", "501", "502"} = Statuses
  BY <1>1, WordsOf DEF LocalsOK, Statuses
<1>4. ASSUME NEW p \in Peers, SendSome(p) PROVE out' \in Seq(Words)
  BY <1>1, <1>4, SendSomeParts
<1>5. "client" \in Peers /\ "origin" \in Peers /\ \A p \in Peers : Other(p) \in Peers
  BY DEF Peers, Other
<1>6. 0 \in 0 .. MaxRecv /\ 0 \in 0 .. SizeMax
  BY StreamsAssumption, ExchangeAssumption
<1>7. CASE ReceiveRequest
  <2>1. /\ request_str' = Received("client")
        /\ early' = IF request.method = "CONNECT" THEN Len(Received("client")) ELSE 0
        /\ UNCHANGED <<response_str, framing, body, stored, revents, closed, dropped>>
    BY <1>7 DEF ReceiveRequest
  <2>2. out' \in Seq(Words) /\ pc' \in Locations
    BY <1>1, <1>3, <1>7 DEF ReceiveRequest, Error, Goto, Locations
  <2>. QED  BY <1>1, <1>2, <1>5, <1>6, <2>1, <2>2 DEF LocalsOK, framing, body
<1>. USE DEF exchange, tunnel, header, framing, body, Goto, Error
<1>8. CASE SendError
  <2>1. out' \in Seq(Words) /\ pc' \in Locations
    BY <1>1, <1>3, <1>4, <1>5, <1>8 DEF SendError, Locations, LocalsOK
  <2>. QED  BY <1>1, <1>8, <2>1 DEF LocalsOK, SendError
<1>9. CASE Finish
  <2>1. out' \in Seq(Words) /\ pc' \in Locations
    BY <1>1, <1>9 DEF Finish, Locations
  <2>. QED  BY <1>1, <1>9, <2>1 DEF LocalsOK, Finish
<1>10. CASE Forward /\ UNCHANGED tunnel
  <2>1. out' \in Seq(Words) /\ pc' \in Locations
    BY <1>1, <1>3, <1>10 DEF Forward, Locations
  <2>. QED  BY <1>1, <1>10, <2>1 DEF LocalsOK, Forward
<1>11. CASE SendRequest /\ UNCHANGED tunnel
  <2>1. out' \in Seq(Words) /\ pc' \in Locations
    BY <1>1, <1>3, <1>4, <1>5, <1>11 DEF SendRequest, Locations, LocalsOK
  <2>. QED  BY <1>1, <1>11, <2>1 DEF LocalsOK, SendRequest
<1>12. CASE ReceiveHeader /\ UNCHANGED tunnel
  <2>. DEFINE whole == response_str \o Received("origin")
  <2>1. whole \in Seq(Units) /\ whole \in Seq(Words)
    BY <1>1, <1>2, <1>5, Joined, WordsOf DEF LocalsOK
  <2>2. response_str' = whole /\ UNCHANGED <<request_str, framing, body, stored>>
    BY <1>12 DEF ReceiveHeader
  <2>3. out' \in {out, whole, <<"502">>} /\ pc' \in Locations
    BY <1>12 DEF ReceiveHeader, Locations
  <2>. HIDE DEF whole
  <2>. QED  BY <1>1, <1>3, <1>12, <2>1, <2>2, <2>3 DEF LocalsOK
<1>13. CASE RelayHeader /\ UNCHANGED tunnel
  <2>1. out' \in Seq(Words) /\ pc' \in Locations
    BY <1>1, <1>3, <1>4, <1>5, <1>13 DEF RelayHeader, Locations, LocalsOK
  <2>. QED  BY <1>1, <1>13, <2>1 DEF LocalsOK, RelayHeader
<1>14. CASE ParseFraming /\ UNCHANGED tunnel
  <2>1. BodyPart \in Seq(Units) /\ Len(BodyPart) \in Nat
    <3>1. CASE "blank" \in ToSet(response_str)
      <4>1. BlankAt(response_str) \in 1 .. Len(response_str) /\ Len(response_str) \in Nat
        BY <1>1, <3>1, BlankPlace, LenProperties DEF LocalsOK
      <4>2. SubSeq(response_str, BlankAt(response_str) + 1, Len(response_str)) \in Seq(Units)
        <5>. DEFINE b == BlankAt(response_str)
        <5>. HIDE DEF b
        <5>1. b + 1 \in 1 .. Len(response_str) + 1 /\ Len(response_str) \in (b + 1) - 1 .. Len(response_str)
          BY <4>1 DEF b
        <5>2. SubSeq(response_str, b + 1, Len(response_str)) \in Seq(Units)
          BY <1>1, <5>1, PartOf DEF LocalsOK
        <5>. QED  BY <5>2 DEF b
      <4>. QED  BY <3>1, <4>2, LenProperties DEF BodyPart, Behind
    <3>2. CASE "blank" \notin ToSet(response_str)
      BY <3>2, EmptySeq DEF BodyPart, Behind
    <3>. QED  BY <3>1, <3>2
  <2>2. out' \in Seq(Words) /\ pc' \in Locations
    BY <1>1, <1>3, <1>14 DEF ParseFraming, Locations
  <2>3. content_length' \in 0 .. SizeMax
    <3>1. <<request, message>> \in Encounters /\ request.method # "CONNECT"
      BY <1>1, <1>14 DEF StreamsTypeOK, Where, IsTunnel, ExchangeLocations, ParseFraming
    <3>2. <<request, message>>[1].method # "CONNECT" => <<request, message>>[2].length \in Int
      BY <3>1, ExchangeAssumption
    <3>3. message.length \in Int
      BY <3>1, <3>2
    <3>4. content_length' \in {0, content_length, message.length % (SizeMax + 1)}
      <4>1. CASE LengthAt(response_str) # 0 /\ response_str[LengthAt(response_str)] = "bad"
        BY <1>14, <4>1 DEF ParseFraming
      <4>2. CASE ~ (LengthAt(response_str) # 0
                       /\ response_str[LengthAt(response_str)] = "bad")
        BY <1>14, <4>2 DEF ParseFraming
      <4>. QED  BY <4>1, <4>2
    <3>5. ASSUME NEW x \in Int PROVE x % (SizeMax + 1) \in 0 .. SizeMax
      BY ExchangeAssumption
    <3>. QED  BY <1>1, <1>6, <3>3, <3>4, <3>5 DEF LocalsOK
  <2>4. is_chunked' \in BOOLEAN /\ buf' = buf
    <3>1. buf' = buf
      BY <1>14 DEF ParseFraming
    <3>2. \/ is_chunked' = is_chunked
          \/ is_chunked' = ("chunked" \in ToSet(response_str))
      BY <1>14, Zenon DEF ParseFraming
    <3>3. is_chunked \in BOOLEAN
      BY <1>1 DEF LocalsOK
    <3>4. ("chunked" \in ToSet(response_str)) \in BOOLEAN
      OBVIOUS
    <3>. QED  BY ONLY <3>1, <3>2, <3>3, <3>4
  <2>5. body_received' \in Nat /\ response_buffer' \in Seq(Units)
    BY <1>1, <1>3, <1>14, <2>1 DEF ParseFraming, LocalsOK, Counted, FirstPart
  <2>. QED  BY <1>1, <1>14, <2>2, <2>3, <2>4, <2>5 DEF LocalsOK, ParseFraming
<1>15. CASE ReceiveBody /\ UNCHANGED tunnel
  <2>1. out' \in Seq(Words) /\ pc' \in Locations /\ buf' \in Seq(Units)
    BY <1>1, <1>2, <1>5, <1>15 DEF ReceiveBody, Locations
  <2>. QED  BY <1>1, <1>15, <2>1 DEF LocalsOK, ReceiveBody
<1>16. CASE PassBody /\ UNCHANGED tunnel
  <2>1. out' \in Seq(Words) /\ pc' \in Locations
    BY <1>1, <1>3, <1>4, <1>5, <1>16 DEF PassBody, Locations, LocalsOK
  <2>2. response_buffer \o buf \in Seq(Units) /\ body_received + Len(buf) \in Nat
    <3>1. Len(buf) \in Nat /\ body_received \in Nat
      BY <1>1, LenProperties DEF LocalsOK
    <3>. QED  BY <1>1, <3>1, Joined DEF LocalsOK
  <2>3. body_received' \in Nat /\ response_buffer' \in Seq(Units) /\ buf' = buf
    BY <1>1, <1>3, <1>16, <2>2 DEF PassBody, LocalsOK
  <2>. QED  BY <1>1, <1>16, <2>1, <2>3 DEF LocalsOK, PassBody
<1>17. CASE Store /\ UNCHANGED tunnel
  <2>1. out' \in Seq(Words) /\ pc' \in Locations /\ stored' \in Seq(Units) \cup {NotStored}
    BY <1>1, <1>17 DEF Store, Locations, LocalsOK
  <2>. QED  BY <1>1, <1>17, <2>1 DEF LocalsOK, Store
<1>18. CASE Dial /\ UNCHANGED exchange
  <2>1. out' \in Seq(Words) /\ pc' \in Locations
    BY <1>1, <1>3, <1>18 DEF Dial, Locations
  <2>. QED  BY <1>1, <1>18, <2>1 DEF LocalsOK, Dial
<1>19. CASE Establish /\ UNCHANGED exchange
  <2>1. out' \in Seq(Words) /\ pc' \in Locations
    BY <1>1, <1>3, <1>4, <1>5, <1>19 DEF Establish, Locations, LocalsOK, TunnelLocations
  <2>. QED  BY <1>1, <1>19, <2>1 DEF LocalsOK, Establish
<1>20. CASE Poll /\ UNCHANGED exchange
  <2>1. out' \in Seq(Words) /\ pc' \in Locations
    BY <1>1, <1>20 DEF Poll, Locations, TunnelLocations
  <2>2. revents' \in [in : SUBSET Peers, hup : SUBSET Peers, failed : BOOLEAN]
    BY <1>20 DEF Poll, Hangups
  <2>. QED  BY <1>1, <1>20, <2>1, <2>2 DEF LocalsOK, Poll
<1>21. CASE CheckHangup /\ UNCHANGED exchange
  <2>1. out' \in Seq(Words) /\ pc' \in Locations
    BY <1>1, <1>21 DEF CheckHangup, Locations, TunnelLocations
  <2>2. revents' \in [in : SUBSET Peers, hup : SUBSET Peers, failed : BOOLEAN]
    BY <1>21 DEF CheckHangup, NoEvents
  <2>. QED  BY <1>1, <1>21, <2>1, <2>2 DEF LocalsOK, CheckHangup
<1>22. ASSUME NEW p \in Peers, TakeFrom(p), UNCHANGED exchange PROVE out' \in Seq(Words) /\ LocalsOK'
  <2>1. out' \in Seq(Words)
    BY <1>1, <1>2, <1>22 DEF TakeFrom
  <2>2. pc' \in {After(p), Passing(p)} /\ closed' \in {closed, closed \cup {p}}
    BY <1>22 DEF TakeFrom
  <2>3. After(p) \in Locations /\ Passing(p) \in Locations
    BY DEF After, Passing, Locations, TunnelLocations
  <2>4. pc' \in Locations /\ closed' \subseteq Peers
    BY <1>1, <2>2, <2>3 DEF LocalsOK
  <2>. QED  BY <1>1, <1>22, <2>1, <2>4 DEF LocalsOK, TakeFrom
<1>23. ASSUME NEW p \in Peers, PassOn(p), UNCHANGED exchange PROVE out' \in Seq(Words) /\ LocalsOK'
  <2>1. out' \in Seq(Words)
    BY <1>1, <1>3, <1>4, <1>5, <1>23 DEF PassOn
  <2>2. /\ pc' \in {pc, After(p)} /\ closed' \in {closed, closed \cup {Other(p)}}
        /\ dropped' \in {dropped, dropped \cup {Other(p)}}
    BY <1>23 DEF PassOn, MarkClosed
  <2>3. After(p) \in Locations
    BY DEF After, Locations, TunnelLocations
  <2>4. pc' \in Locations /\ closed' \subseteq Peers /\ dropped' \subseteq Peers
    BY <1>1, <1>5, <2>2, <2>3 DEF LocalsOK
  <2>. QED  BY <1>1, <1>23, <2>1, <2>4 DEF LocalsOK, PassOn
<1>24. CASE Environment
  <2>1. CASE PollFails /\ UNCHANGED exchange
    <3>1. out' \in Seq(Words) /\ pc' \in Locations
      BY <1>1, <2>1 DEF PollFails, Locations, TunnelLocations
    <3>2. revents' \in [in : SUBSET Peers, hup : SUBSET Peers, failed : BOOLEAN]
      BY <2>1 DEF PollFails, NoEvents
    <3>. QED  BY <1>1, <2>1, <3>1, <3>2 DEF LocalsOK, PollFails
  <2>2. CASE UNCHANGED <<pc, out, exchange, tunnel>>
    BY <1>1, <2>2 DEF LocalsOK
  <2>. QED  BY <1>24, <2>1, <2>2 DEF Environment, vars
<1>25. CASE UNCHANGED vars
  BY <1>1, <1>25 DEF LocalsOK, vars
<1>. QED
  BY <1>7, <1>8, <1>9, <1>10, <1>11, <1>12, <1>13, <1>14, <1>15, <1>16, <1>17, <1>18, <1>19,
     <1>20, <1>21, <1>22, <1>23, <1>24, <1>25
  DEF Next, ThreadStep, ExchangeStep, TunnelStep

-----------------------------------------------------------------------------
(* Each step keeps the invariant.                                           *)

Kept ==
  /\ Where /\ OriginGets /\ LoopFlags /\ ClientGets
  /\ HeaderReceived /\ BodyKept /\ LoopEnded /\ TunnelEnded

\* The types that the steps below use.
KeptTypes ==
  /\ request.wire \in Seq(Units) /\ message.wire \in Seq(Units)
  /\ link \in [Peers -> {"none", "open", "shut", "reset"}]
  /\ taken \in [Peers -> Nat] /\ arrived \in [Peers -> Nat]
  /\ given \in [Peers -> Seq(Words)] /\ out \in Seq(Words)
  /\ \A p \in Peers : given[p] \in Seq(Words) /\ Len(given[p]) \in Nat
                     /\ taken[p] <= arrived[p] /\ arrived[p] <= Len(Wire(p))
  /\ Len(WithoutOwn(given["client"])) \in Nat
  /\ early \in Nat /\ body_received \in Nat
  /\ closed \subseteq Peers /\ dropped \subseteq Peers /\ revents.hup \subseteq Peers
  /\ response_str \in Seq(Units) /\ response_buffer \in Seq(Units)
  /\ buf \in Seq(Units) /\ request_str \in Seq(Units)
  /\ Len(<<>>) = 0 /\ Len(out) \in Nat /\ (out = <<>> <=> Len(out) = 0)
  /\ Len(response_str) \in Nat /\ Len(response_buffer) \in Nat /\ Len(buf) \in Nat

\* They follow from the invariant.
LEMMA KeptTypesHold ==
  ASSUME IInv
  PROVE  KeptTypes
<1>1. StreamsTypeOK /\ LocalsOK
  BY TypesSplit DEF IInv
<1>2. request.wire \in Seq(Units) /\ message.wire \in Seq(Units)
  BY <1>1, Wires
<1>3. /\ link \in [Peers -> {"none", "open", "shut", "reset"}]
      /\ taken \in [Peers -> Nat] /\ arrived \in [Peers -> Nat]
      /\ given \in [Peers -> Seq(Words)] /\ out \in Seq(Words)
  BY <1>1 DEF StreamsTypeOK, Words
<1>4. \A p \in Peers : given[p] \in Seq(Words) /\ Len(given[p]) \in Nat
                     /\ taken[p] <= arrived[p] /\ arrived[p] <= Len(Wire(p))
  BY <1>1, Counters
<1>5. Len(WithoutOwn(given["client"])) \in Nat
  BY <1>4, PassedType DEF Peers
<1>6. /\ early \in Nat /\ body_received \in Nat
      /\ closed \subseteq Peers /\ dropped \subseteq Peers /\ revents.hup \subseteq Peers
      /\ response_str \in Seq(Units) /\ response_buffer \in Seq(Units)
      /\ buf \in Seq(Units) /\ request_str \in Seq(Units)
  BY <1>1, StreamsAssumption DEF LocalsOK
<1>7. Len(<<>>) = 0 /\ Len(out) \in Nat /\ (out = <<>> <=> Len(out) = 0)
  BY <1>3, EmptySeq, NoUnits
<1>8. Len(response_str) \in Nat /\ Len(response_buffer) \in Nat /\ Len(buf) \in Nat
  BY <1>6, LenProperties
<1>. QED  BY <1>2, <1>3, <1>4, <1>5, <1>6, <1>7, <1>8 DEF KeptTypes

\* What a recv from the origin returns, and from the client.
LEMMA OriginReceived ==
  ASSUME IInv
  PROVE  LET r == Received("origin")
         IN  /\ r \in Seq(Units) /\ Len(r) \in Nat /\ (r = <<>> <=> Len(r) = 0)
             /\ taken["origin"] + Len(r) <= arrived["origin"]
             /\ Follows(r, message.wire, taken["origin"])
             /\ r = <<>> <=> taken["origin"] = arrived["origin"]
<1>1. StreamsTypeOK /\ "origin" \in Peers /\ Wire("origin") = message.wire
  BY TypesSplit DEF IInv, Peers, Wire
<1>2. /\ Received("origin") \in Seq(Units)
      /\ taken["origin"] + Len(Received("origin")) <= arrived["origin"]
      /\ Follows(Received("origin"), message.wire, taken["origin"])
      /\ Received("origin") = <<>> <=> taken["origin"] = arrived["origin"]
  BY <1>1, ReceivedFollows
<1>3. Len(Received("origin")) \in Nat /\ (Received("origin") = <<>> <=> Len(Received("origin")) = 0)
  BY <1>2, NoUnits
<1>. QED  BY <1>2, <1>3

\* What recv adds to a received stream comes next on the client's wire.
LEMMA ClientReceived ==
  ASSUME IInv
  PROVE  LET r == Received("client")
         IN  /\ r \in Seq(Units) /\ Len(r) \in Nat /\ (r = <<>> <=> Len(r) = 0)
             /\ taken["client"] + Len(r) <= arrived["client"]
             /\ Follows(r, request.wire, taken["client"])
             /\ r = <<>> <=> taken["client"] = arrived["client"]
<1>1. StreamsTypeOK /\ "client" \in Peers /\ Wire("client") = request.wire
  BY TypesSplit DEF IInv, Peers, Wire
<1>2. /\ Received("client") \in Seq(Units)
      /\ taken["client"] + Len(Received("client")) <= arrived["client"]
      /\ Follows(Received("client"), request.wire, taken["client"])
      /\ Received("client") = <<>> <=> taken["client"] = arrived["client"]
  BY <1>1, ReceivedFollows
<1>3. Len(Received("client")) \in Nat /\ (Received("client") = <<>> <=> Len(Received("client")) = 0)
  BY <1>2, NoUnits
<1>. QED  BY <1>2, <1>3

\* When nothing is left to send, all that was received has been passed on.
LEMMA AllSent ==
  ASSUME IInv, out = <<>>
  PROVE  /\ pc \in {"relay", "pass", "to client"} =>
              Len(WithoutOwn(given["client"])) = taken["origin"]
         /\ pc \in {"request", "to origin"} =>
              early + Len(given["origin"]) = taken["client"]
<1>1. KeptTypes /\ Len(out) = 0
  BY KeptTypesHold DEF KeptTypes
<1>2. /\ Len(WithoutOwn(given["client"])) \in Nat /\ taken["origin"] \in Nat
      /\ taken["client"] \in Nat /\ early \in Nat /\ Len(given["origin"]) \in Nat
  BY <1>1 DEF KeptTypes, Peers
<1>3. ASSUME pc \in {"relay", "pass", "to client"}
      PROVE  Len(WithoutOwn(given["client"])) = taken["origin"]
  <2>1. Len(WithoutOwn(given["client"])) + Len(out) = taken["origin"]
    BY <1>3 DEF IInv, ClientGets
  <2>. QED  BY <1>1, <1>2, <2>1
<1>4. ASSUME pc \in {"request", "to origin"}
      PROVE  early + Len(given["origin"]) = taken["client"]
  <2>1. (early + Len(given["origin"])) + Len(out) = taken["client"]
    BY <1>4 DEF IInv, OriginGets
  <2>. QED  BY <1>1, <1>2, <2>1
<1>. QED  BY <1>3, <1>4

\* The thread's last step.
LEMMA FinishKeeps ==
  ASSUME IInv, Finish
  PROVE  Kept'
<1>. USE DEF IInv, exchange, tunnel, header, framing, body, streams, peers, Goto, Error,
     IsTunnel, ExchangeLocations, TunnelLocations, Left, Peers
<1>Where. Where'
  BY DEF Where, Finish
<1>OriginGets. OriginGets'
  BY DEF OriginGets, Where, LoopFlags, Finish
<1>LoopFlags. LoopFlags'
  BY DEF LoopFlags, Where, Finish
<1>ClientGets. ClientGets'
  BY DEF ClientGets, Where, LoopFlags, Finish
<1>HeaderReceived. HeaderReceived'
  BY DEF HeaderReceived, Finish
<1>BodyKept. BodyKept'
  BY DEF BodyKept, Finish
<1>LoopEnded. LoopEnded'
  BY DEF LoopEnded, Finish
<1>TunnelEnded. TunnelEnded'
  BY DEF TunnelEnded, Where, LoopFlags, Finish
<1>. QED  BY <1>Where, <1>OriginGets, <1>LoopFlags, <1>ClientGets, <1>HeaderReceived,
     <1>BodyKept, <1>LoopEnded, <1>TunnelEnded DEF Kept

\* The response is kept for the cache, or not.
LEMMA StoreKeeps ==
  ASSUME IInv, Store, UNCHANGED tunnel
  PROVE  Kept'
<1>. USE DEF IInv, exchange, tunnel, header, framing, body, streams, peers, Goto, Error,
     IsTunnel, ExchangeLocations, TunnelLocations, Left, Peers
<1>types. KeptTypes
  BY KeptTypesHold
<1>Where. Where'
  BY DEF Where, Store
<1>OriginGets. OriginGets'
  BY DEF OriginGets, Where, LoopFlags, Store
<1>LoopFlags. LoopFlags'
  BY DEF LoopFlags, Where, Store
<1>ClientGets. ClientGets'
  BY DEF ClientGets, Where, LoopFlags, Store
<1>HeaderReceived. HeaderReceived'
  BY DEF HeaderReceived, Store
<1>BodyKept. BodyKept'
  <2>1. /\ pc = "store" /\ pc' = "finish"
        /\ stored' = IF IsCacheable /\ "blank" \in ToSet(response_str) /\ ~ message.no_store
                     THEN response_buffer ELSE NotStored
        /\ UNCHANGED <<peers, streams, header, framing, body>>
    BY DEF Store
  <2>2. CASE stored' = NotStored
    BY <2>1, <2>2 DEF BodyKept
  <2>3. CASE stored' # NotStored
    <3>1. stored' = response_buffer /\ IsCacheable /\ "blank" \in ToSet(response_str)
      BY <2>1, <2>3
    <3>2. /\ BlankAt(response_str) + body_received + 0 = taken["origin"]
          /\ Follows(response_buffer, message.wire, BlankAt(response_str))
          /\ Len(response_buffer) = body_received
      BY <2>1, <3>1 DEF BodyKept
    <3>3. Len(WithoutOwn(given["client"])) = taken["origin"]
      BY <2>1 DEF ClientGets
    <3>4. BlankAt(response_str) \in Nat
      BY <1>types, <3>1, BlankPlace DEF KeptTypes
    <3>5. BlankAt(response_str) + Len(response_buffer) = Len(WithoutOwn(given["client"]))
      BY <1>types, <3>2, <3>3, <3>4 DEF KeptTypes
    <3>. QED  BY <1>types, <2>1, <3>1, <3>2, <3>5 DEF BodyKept, KeptTypes
  <2>. QED  BY <2>2, <2>3
<1>LoopEnded. LoopEnded'
  BY DEF LoopEnded, Store
<1>TunnelEnded. TunnelEnded'
  BY DEF TunnelEnded, Where, LoopFlags, Store
<1>. QED  BY <1>Where, <1>OriginGets, <1>LoopFlags, <1>ClientGets, <1>HeaderReceived,
     <1>BodyKept, <1>LoopEnded, <1>TunnelEnded DEF Kept

\* poll returns.
LEMMA PollKeeps ==
  ASSUME IInv, Poll, UNCHANGED exchange
  PROVE  Kept'
<1>. USE DEF IInv, exchange, tunnel, header, framing, body, streams, peers, Goto, Error,
     IsTunnel, ExchangeLocations, TunnelLocations, Left, Peers
<1>Where. Where'
  BY DEF Where, Poll, Hangups
<1>OriginGets. OriginGets'
  BY DEF OriginGets, Where, LoopFlags, Poll, Hangups
<1>LoopFlags. LoopFlags'
  BY DEF LoopFlags, Where, Poll, Hangups
<1>ClientGets. ClientGets'
  BY DEF ClientGets, Where, LoopFlags, Poll, Hangups
<1>HeaderReceived. HeaderReceived'
  BY DEF HeaderReceived, Poll, Hangups
<1>BodyKept. BodyKept'
  BY DEF BodyKept, Poll, Hangups
<1>LoopEnded. LoopEnded'
  BY DEF LoopEnded, Poll, Hangups
<1>TunnelEnded. TunnelEnded'
  BY DEF TunnelEnded, Where, LoopFlags, Poll, Hangups
<1>. QED  BY <1>Where, <1>OriginGets, <1>LoopFlags, <1>ClientGets, <1>HeaderReceived,
     <1>BodyKept, <1>LoopEnded, <1>TunnelEnded DEF Kept

\* poll fails.
LEMMA PollFailsKeeps ==
  ASSUME IInv, PollFails, UNCHANGED exchange
  PROVE  Kept'
<1>. USE DEF IInv, exchange, tunnel, header, framing, body, streams, peers, Goto, Error,
     IsTunnel, ExchangeLocations, TunnelLocations, Left, Peers
<1>Where. Where'
  BY DEF Where, PollFails, NoEvents
<1>OriginGets. OriginGets'
  BY DEF OriginGets, Where, LoopFlags, PollFails, NoEvents
<1>LoopFlags. LoopFlags'
  BY DEF LoopFlags, Where, PollFails, NoEvents
<1>ClientGets. ClientGets'
  BY DEF ClientGets, Where, LoopFlags, PollFails, NoEvents
<1>HeaderReceived. HeaderReceived'
  BY DEF HeaderReceived, PollFails, NoEvents
<1>BodyKept. BodyKept'
  BY DEF BodyKept, PollFails, NoEvents
<1>LoopEnded. LoopEnded'
  BY DEF LoopEnded, PollFails, NoEvents
<1>TunnelEnded. TunnelEnded'
  BY DEF TunnelEnded, Where, LoopFlags, PollFails, NoEvents
<1>. QED  BY <1>Where, <1>OriginGets, <1>LoopFlags, <1>ClientGets, <1>HeaderReceived,
     <1>BodyKept, <1>LoopEnded, <1>TunnelEnded DEF Kept

\* The end of one turn of the tunnel's loop.
LEMMA CheckHangupKeeps ==
  ASSUME IInv, CheckHangup, UNCHANGED exchange
  PROVE  Kept'
<1>. USE DEF IInv, exchange, tunnel, header, framing, body, streams, peers, Goto, Error,
     IsTunnel, ExchangeLocations, TunnelLocations, Left, Peers
<1>types. KeptTypes
  BY KeptTypesHold
<1>Where. Where'
  BY DEF Where, CheckHangup, NoEvents
<1>OriginGets. OriginGets'
  BY DEF OriginGets, Where, LoopFlags, CheckHangup, NoEvents
<1>LoopFlags. LoopFlags'
  BY DEF LoopFlags, Where, CheckHangup, NoEvents
<1>ClientGets. ClientGets'
  BY DEF ClientGets, Where, LoopFlags, CheckHangup, NoEvents
<1>HeaderReceived. HeaderReceived'
  BY DEF HeaderReceived, CheckHangup, NoEvents
<1>BodyKept. BodyKept'
  BY DEF BodyKept, CheckHangup, NoEvents
<1>LoopEnded. LoopEnded'
  BY DEF LoopEnded, CheckHangup, NoEvents
<1>TunnelEnded. TunnelEnded'
  BY <1>types DEF TunnelEnded, Where, LoopFlags, CheckHangup, NoEvents, KeptTypes
<1>. QED  BY <1>Where, <1>OriginGets, <1>LoopFlags, <1>ClientGets, <1>HeaderReceived,
     <1>BodyKept, <1>LoopEnded, <1>TunnelEnded DEF Kept

\* What is known of a tunnel's end stays true while the thread's flags stay and
\* peers that have left do not come back.
LEMMA TunnelEndedKept ==
  ASSUME KeptTypes, TunnelEnded, UNCHANGED <<request, closed, dropped, revents, taken>>,
         \A p \in Peers : /\ Left(p) => Left(p)' /\ arrived'[p] = arrived[p]
                          /\ link[p] = "reset" => link'[p] = "reset",
         IsTunnel /\ pc' \in {"finish", "ended"} =>
            pc' = pc /\ (link["origin"] = "none" => link'["origin"] = "none")
  PROVE  TunnelEnded'
<1>1. closed \subseteq Peers /\ revents.hup \subseteq Peers
  BY DEF KeptTypes
<1>2. \A p \in closed' \ dropped' : Left(p)' /\ taken'[p] = arrived'[p]
  BY <1>1 DEF TunnelEnded
<1>3. \A p \in revents'.hup : link'[p] = "reset"
  BY <1>1 DEF TunnelEnded
<1>4. IsTunnel' /\ pc' \in {"finish", "ended"} /\ link'["origin"] # "none" =>
         closed' # {} \/ (\E p \in Peers : link'[p] = "reset") \/ revents'.failed
  BY DEF TunnelEnded, IsTunnel
<1>. QED  BY <1>2, <1>3, <1>4 DEF TunnelEnded, Left

\* The origin is dialled for a request, or cannot be.
LEMMA ForwardKeeps ==
  ASSUME IInv, Forward, UNCHANGED tunnel
  PROVE  Kept'
<1>. USE DEF IInv, exchange, tunnel, header, framing, body, streams, peers, Goto, Error,
     IsTunnel, ExchangeLocations, TunnelLocations, Left, Peers
<1>types. KeptTypes
  BY KeptTypesHold
<1>Where. Where'
  BY DEF Where, Forward, Connected
<1>OriginGets. OriginGets'
  <2>1. /\ pc = "forward" /\ early = 0 /\ ~ IsTunnel /\ given["origin"] = <<>>
        /\ Follows(request_str, request.wire, 0) /\ Len(request_str) = taken["client"]
        /\ Follows(given["origin"], request.wire, 0)
        /\ early' = early /\ given' = given /\ taken' = taken /\ request' = request
        /\ \/ pc' = "error"
           \/ pc' = "request" /\ out' = request_str
    BY DEF Where, OriginGets, Forward, Connected
  <2>2. Len(given["origin"]) = 0 /\ taken["client"] \in Nat
    BY <1>types, <2>1 DEF KeptTypes
  <2>3. early + Len(given["origin"]) = 0 /\ early' + Len(given'["origin"]) = 0
    BY <2>1, <2>2
  <2>4. 0 + Len(request_str) = taken["client"]
    BY <1>types, <2>1 DEF KeptTypes
  <2>5. /\ Follows(given'["origin"], request'.wire, early') /\ 0 <= taken'["client"]
        /\ pc' \notin {"to origin", "forward"} /\ request'.method # "CONNECT"
    <3>1. given'["origin"] = given["origin"] /\ request'.wire = request.wire /\ early' = 0
      BY <2>1
    <3>2. Follows(given'["origin"], request'.wire, early')
      BY <2>1, <3>1
    <3>3. 0 <= taken'["client"] /\ pc' \notin {"to origin", "forward"}
      <4>1. taken'["client"] = taken["client"]
        BY <2>1
      <4>2. pc' \notin {"to origin", "forward"}
        BY <2>1
      <4>3. 0 <= taken["client"]
        BY <2>2
      <4>. QED  BY ONLY <4>1, <4>2, <4>3
    <3>4. request'.method # "CONNECT"
      BY <2>1
    <3>. QED  BY <3>2, <3>3, <3>4
  <2>6. pc' = "request" => Follows(out', request'.wire, 0) /\ 0 + Len(out') = taken'["client"]
    BY <2>1, <2>4
  <2>. QED  BY <2>3, <2>5, <2>6 DEF OriginGets
<1>LoopFlags. LoopFlags'
  BY DEF LoopFlags, Where, Forward, Connected
<1>ClientGets. ClientGets'
  BY DEF ClientGets, Where, LoopFlags, Forward, Connected, Statuses
<1>HeaderReceived. HeaderReceived'
  BY DEF HeaderReceived, Forward, Connected
<1>BodyKept. BodyKept'
  BY DEF BodyKept, Forward, Connected
<1>LoopEnded. LoopEnded'
  BY DEF LoopEnded, Forward, Connected
<1>TunnelEnded. TunnelEnded'
  <2>1. /\ UNCHANGED <<request, closed, dropped, revents, taken>>
        /\ pc' \notin {"finish", "ended"}
    BY DEF Forward, Connected
  <2>2. \A p \in Peers : /\ link[p] \in {"shut", "reset"} => link'[p] = link[p]
                         /\ arrived'[p] = arrived[p]
    BY <1>types DEF Forward, Connected, Where, KeptTypes
  <2>. QED  BY <1>types, <2>1, <2>2, TunnelEndedKept
<1>. QED  BY <1>Where, <1>OriginGets, <1>LoopFlags, <1>ClientGets, <1>HeaderReceived,
     <1>BodyKept, <1>LoopEnded, <1>TunnelEnded DEF Kept

\* The origin is dialled for a tunnel, or cannot be.
LEMMA DialKeeps ==
  ASSUME IInv, Dial, UNCHANGED exchange
  PROVE  Kept'
<1>. USE DEF IInv, exchange, tunnel, header, framing, body, streams, peers, Goto, Error,
     IsTunnel, ExchangeLocations, TunnelLocations, Left, Peers
<1>types. KeptTypes
  BY KeptTypesHold
<1>Where. Where'
  BY DEF Where, Dial, Connected
<1>OriginGets. OriginGets'
  BY DEF OriginGets, Where, LoopFlags, Dial, Connected
<1>LoopFlags. LoopFlags'
  BY DEF LoopFlags, Where, Dial, Connected
<1>ClientGets. ClientGets'
  BY DEF ClientGets, Where, LoopFlags, Dial, Connected, Statuses
<1>HeaderReceived. HeaderReceived'
  BY DEF HeaderReceived, Dial, Connected
<1>BodyKept. BodyKept'
  BY DEF BodyKept, Dial, Connected
<1>LoopEnded. LoopEnded'
  BY DEF LoopEnded, Dial, Connected
<1>TunnelEnded. TunnelEnded'
  BY <1>types DEF TunnelEnded, Where, LoopFlags, Dial, Connected, KeptTypes
<1>. QED  BY <1>Where, <1>OriginGets, <1>LoopFlags, <1>ClientGets, <1>HeaderReceived,
     <1>BodyKept, <1>LoopEnded, <1>TunnelEnded DEF Kept

\* The request has been sent, or cannot be.
LEMMA SendRequestKeeps ==
  ASSUME IInv, SendRequest, ~ SendSome("origin"), UNCHANGED tunnel
  PROVE  Kept'
<1>. USE DEF IInv, exchange, tunnel, header, framing, body, streams, peers, Goto, Error,
     IsTunnel, ExchangeLocations, TunnelLocations, Left, Peers
<1>types. KeptTypes
  BY KeptTypesHold
<1>Where. Where'
  BY DEF Where, SendRequest
<1>OriginGets. OriginGets'
  BY DEF OriginGets, Where, LoopFlags, SendRequest
<1>LoopFlags. LoopFlags'
  BY DEF LoopFlags, Where, SendRequest
<1>ClientGets. ClientGets'
  BY DEF ClientGets, Where, LoopFlags, SendRequest, Statuses
<1>HeaderReceived. HeaderReceived'
  BY <1>types DEF HeaderReceived, SendRequest, KeptTypes
<1>BodyKept. BodyKept'
  BY DEF BodyKept, SendRequest
<1>LoopEnded. LoopEnded'
  BY DEF LoopEnded, SendRequest
<1>TunnelEnded. TunnelEnded'
  BY DEF TunnelEnded, Where, LoopFlags, SendRequest
<1>. QED  BY <1>Where, <1>OriginGets, <1>LoopFlags, <1>ClientGets, <1>HeaderReceived,
     <1>BodyKept, <1>LoopEnded, <1>TunnelEnded DEF Kept

\* The header has been sent, or cannot be.
LEMMA RelayHeaderKeeps ==
  ASSUME IInv, RelayHeader, ~ SendSome("client"), UNCHANGED tunnel
  PROVE  Kept'
<1>. USE DEF IInv, exchange, tunnel, header, framing, body, streams, peers, Goto, Error,
     IsTunnel, ExchangeLocations, TunnelLocations, Left, Peers
<1>types. KeptTypes
  BY KeptTypesHold
<1>sent. out = <<>> => Len(WithoutOwn(given["client"])) = taken["origin"] \/ pc \notin {"relay", "pass"}
  BY AllSent
<1>Where. Where'
  BY DEF Where, RelayHeader
<1>OriginGets. OriginGets'
  BY DEF OriginGets, Where, LoopFlags, RelayHeader
<1>LoopFlags. LoopFlags'
  BY DEF LoopFlags, Where, RelayHeader
<1>ClientGets. ClientGets'
  BY <1>types, <1>sent DEF ClientGets, Where, LoopFlags, RelayHeader
<1>HeaderReceived. HeaderReceived'
  BY DEF HeaderReceived, RelayHeader
<1>BodyKept. BodyKept'
  BY DEF BodyKept, RelayHeader
<1>LoopEnded. LoopEnded'
  BY DEF LoopEnded, RelayHeader
<1>TunnelEnded. TunnelEnded'
  BY DEF TunnelEnded, Where, LoopFlags, RelayHeader
<1>. QED  BY <1>Where, <1>OriginGets, <1>LoopFlags, <1>ClientGets, <1>HeaderReceived,
     <1>BodyKept, <1>LoopEnded, <1>TunnelEnded DEF Kept

\* A part of the body has been sent, or cannot be.
LEMMA PassBodyKeeps ==
  ASSUME IInv, PassBody, ~ SendSome("client"), UNCHANGED tunnel
  PROVE  Kept'
<1>. USE DEF IInv, exchange, tunnel, header, framing, body, streams, peers, Goto, Error,
     IsTunnel, ExchangeLocations, TunnelLocations, Left, Peers
<1>types. KeptTypes
  BY KeptTypesHold
<1>sent. out = <<>> => Len(WithoutOwn(given["client"])) = taken["origin"] \/ pc \notin {"relay", "pass"}
  BY AllSent
<1>Where. Where'
  BY DEF Where, PassBody
<1>OriginGets. OriginGets'
  BY DEF OriginGets, Where, LoopFlags, PassBody
<1>LoopFlags. LoopFlags'
  BY DEF LoopFlags, Where, PassBody
<1>ClientGets. ClientGets'
  BY <1>types, <1>sent DEF ClientGets, Where, LoopFlags, PassBody
<1>HeaderReceived. HeaderReceived'
  BY DEF HeaderReceived, PassBody
<1>BodyKept. BodyKept'
  <2>1. CASE pc' = "finish"
    BY <2>1 DEF BodyKept, PassBody
  <2>2. CASE pc' # "finish"
    <3>. DEFINE start == BlankAt(response_str)
    <3>1. /\ pc = "pass" /\ pc' \in {"body", "store"}
          /\ response_buffer' = IF IsCacheable THEN response_buffer \o buf ELSE <<>>
          /\ body_received' = body_received + Len(buf)
          /\ UNCHANGED <<request, message, taken, given, response_str, stored, buf>>
      BY <2>2 DEF PassBody
    <3>2. stored = NotStored
      BY <3>1 DEF BodyKept
    <3>3. CASE "blank" \notin ToSet(response_str)
      BY <3>1, <3>2, <3>3 DEF BodyKept
    <3>4. CASE "blank" \in ToSet(response_str)
      <4>1. start \in Nat
        BY <1>types, <3>4, BlankPlace DEF KeptTypes
      <4>2. /\ start + body_received + Len(buf) = taken["origin"]
            /\ IsCacheable => /\ Follows(response_buffer, message.wire, start)
                              /\ Len(response_buffer) = body_received
            /\ Follows(buf, message.wire, taken["origin"] - Len(buf))
        BY <3>1, <3>4 DEF BodyKept
      <4>numbers. body_received \in Nat /\ Len(buf) \in Nat /\ taken["origin"] \in Nat
        BY <1>types DEF KeptTypes
      <4>3. start + body_received' + 0 = taken["origin"]
        BY ONLY <3>1, <4>1, <4>2, <4>numbers
      <4>4. ASSUME IsCacheable
            PROVE  /\ Follows(response_buffer', message.wire, start)
                   /\ Len(response_buffer') = body_received'
        <5>1. taken["origin"] - Len(buf) = start + Len(response_buffer)
          BY ONLY <4>1, <4>2, <4>4, <4>numbers
        <5>2. Follows(buf, message.wire, start + Len(response_buffer))
          BY <4>2, <5>1
        <5>3. response_buffer \in Seq(Units) /\ buf \in Seq(Units) /\ message.wire \in Seq(Units)
          BY <1>types DEF KeptTypes
        <5>4. Follows(response_buffer \o buf, message.wire, start)
          BY <4>1, <4>2, <4>4, <5>2, <5>3, FollowsJoin
        <5>5. Len(response_buffer \o buf) = Len(response_buffer) + Len(buf)
          BY <5>3, Joined
        <5>. QED  BY <3>1, <4>2, <4>4, <5>4, <5>5
      <4>. QED  BY <3>1, <3>2, <4>3, <4>4 DEF BodyKept, IsCacheable
    <3>. QED  BY <3>3, <3>4
  <2>. QED  BY <2>1, <2>2
<1>LoopEnded. LoopEnded'
  BY DEF LoopEnded, PassBody, LengthReached, EndsInLastChunk, BodyKept
<1>TunnelEnded. TunnelEnded'
  BY DEF TunnelEnded, Where, LoopFlags, PassBody
<1>. QED  BY <1>Where, <1>OriginGets, <1>LoopFlags, <1>ClientGets, <1>HeaderReceived,
     <1>BodyKept, <1>LoopEnded, <1>TunnelEnded DEF Kept

\* The 200 has been sent, or cannot be.
LEMMA EstablishKeeps ==
  ASSUME IInv, Establish, ~ SendSome("client"), UNCHANGED exchange
  PROVE  Kept'
<1>. USE DEF IInv, exchange, tunnel, header, framing, body, streams, peers, Goto, Error,
     IsTunnel, ExchangeLocations, TunnelLocations, Left, Peers
<1>types. KeptTypes
  BY KeptTypesHold
<1>Where. Where'
  BY DEF Where, Establish, SendFails
<1>OriginGets. OriginGets'
  BY DEF OriginGets, Where, LoopFlags, Establish, SendFails
<1>LoopFlags. LoopFlags'
  BY DEF LoopFlags, Where, Establish, SendFails
<1>ClientGets. ClientGets'
  BY DEF ClientGets, Where, LoopFlags, Establish, SendFails
<1>HeaderReceived. HeaderReceived'
  BY DEF HeaderReceived, Establish, SendFails
<1>BodyKept. BodyKept'
  BY DEF BodyKept, Establish, SendFails
<1>LoopEnded. LoopEnded'
  BY DEF LoopEnded, Establish, SendFails
<1>TunnelEnded. TunnelEnded'
  BY <1>types DEF TunnelEnded, Where, LoopFlags, Establish, SendFails, KeptTypes
<1>. QED  BY <1>Where, <1>OriginGets, <1>LoopFlags, <1>ClientGets, <1>HeaderReceived,
     <1>BodyKept, <1>LoopEnded, <1>TunnelEnded DEF Kept

\* The error response has been sent, or cannot be.
LEMMA SendErrorKeeps ==
  ASSUME IInv, SendError, ~ SendSome("client")
  PROVE  Kept'
<1>. USE DEF IInv, exchange, tunnel, header, framing, body, streams, peers, Goto, Error,
     IsTunnel, ExchangeLocations, TunnelLocations, Left, Peers
<1>Where. Where'
  BY DEF Where, SendError
<1>OriginGets. OriginGets'
  BY DEF OriginGets, Where, LoopFlags, SendError
<1>LoopFlags. LoopFlags'
  BY DEF LoopFlags, Where, SendError
<1>ClientGets. ClientGets'
  BY DEF ClientGets, Where, LoopFlags, SendError
<1>HeaderReceived. HeaderReceived'
  BY DEF HeaderReceived, SendError
<1>BodyKept. BodyKept'
  BY DEF BodyKept, SendError
<1>LoopEnded. LoopEnded'
  BY DEF LoopEnded, SendError
<1>TunnelEnded. TunnelEnded'
  BY DEF TunnelEnded, Where, LoopFlags, SendError
<1>. QED  BY <1>Where, <1>OriginGets, <1>LoopFlags, <1>ClientGets, <1>HeaderReceived,
     <1>BodyKept, <1>LoopEnded, <1>TunnelEnded DEF Kept

\* One recv of the body.
LEMMA ReceiveBodyKeeps ==
  ASSUME IInv, ReceiveBody, UNCHANGED tunnel
  PROVE  Kept'
<1>. USE DEF IInv, exchange, tunnel, header, framing, body, streams, peers, Goto, Error,
     IsTunnel, ExchangeLocations, TunnelLocations, Left, Peers
<1>types. KeptTypes
  BY KeptTypesHold
<1>recv. /\ Received("origin") \in Seq(Units) /\ Len(Received("origin")) \in Nat
      /\ (Received("origin") = <<>> <=> Len(Received("origin")) = 0)
      /\ taken["origin"] + Len(Received("origin")) <= arrived["origin"]
      /\ Follows(Received("origin"), message.wire, taken["origin"])
      /\ (Received("origin") = <<>> <=> taken["origin"] = arrived["origin"])
  BY OriginReceived
<1>taken. /\ taken'["origin"] = taken["origin"] + Len(Received("origin"))
      /\ taken'["client"] = taken["client"]
  BY <1>types DEF ReceiveBody, Recv, KeptTypes
<1>Where. Where'
  BY DEF Where, ReceiveBody, Recv
<1>OriginGets. OriginGets'
  BY DEF OriginGets, Where, LoopFlags, ReceiveBody, Recv
<1>LoopFlags. LoopFlags'
  BY DEF LoopFlags, Where, ReceiveBody, Recv
<1>ClientGets. ClientGets'
  <2>1. /\ pc = "body" /\ pc' \in {"pass", "store"} /\ out' = Received("origin")
        /\ pc' = "store" => Received("origin") = <<>>
        /\ UNCHANGED <<request, message, given, dropped>>
    BY DEF ReceiveBody, Recv
  <2>2. Len(WithoutOwn(given["client"])) = taken["origin"]
    BY <2>1 DEF ClientGets
  <2>3. taken["origin"] \in Nat
    BY <1>types DEF KeptTypes
  <2>4. Len(WithoutOwn(given["client"])) <= taken'["origin"]
    BY <1>recv, <1>taken, <2>2, <2>3
  <2>5. pc' = "store" => Len(WithoutOwn(given["client"])) = taken'["origin"]
    BY <1>recv, <1>taken, <2>1, <2>2, <2>3
  <2>6. Follows(out', message.wire, Len(WithoutOwn(given["client"])))
    BY <1>recv, <2>1, <2>2
  <2>7. ~ IsTunnel
    BY <2>1 DEF Where
  <2>. QED  BY <1>taken, <2>1, <2>2, <2>4, <2>5, <2>6, <2>7 DEF ClientGets
<1>HeaderReceived. HeaderReceived'
  BY DEF HeaderReceived, ReceiveBody, Recv
<1>BodyKept. BodyKept'
  <2>1. /\ pc = "body" /\ pc' \in {"pass", "store"} /\ buf' = Received("origin")
        /\ pc' = "store" => Received("origin") = <<>>
        /\ UNCHANGED <<request, message, given, response_str, response_buffer, body_received, stored>>
    BY DEF ReceiveBody, Recv
  <2>2. /\ taken["origin"] \in Nat /\ taken'["origin"] \in Nat
        /\ Len(buf') \in Nat /\ Len(buf') <= taken'["origin"]
        /\ taken'["origin"] - Len(buf') = taken["origin"]
        /\ pc' = "store" => Len(buf') = 0
    <3>1. taken["origin"] \in Nat
      BY <1>types DEF KeptTypes
    <3>2. Len(buf') = Len(Received("origin")) /\ (pc' = "store" => Len(Received("origin")) = 0)
      BY <1>recv, <2>1
    <3>. QED  BY ONLY <1>recv, <1>taken, <3>1, <3>2
  <2>3. Follows(buf', message.wire, taken'["origin"] - Len(buf'))
    BY <1>recv, <2>1, <2>2
  <2>4. stored = NotStored
    BY <2>1 DEF BodyKept
  <2>5. CASE "blank" \notin ToSet(response_str)
    BY <2>1, <2>2, <2>3, <2>4, <2>5 DEF BodyKept
  <2>6. CASE "blank" \in ToSet(response_str)
    <3>1. BlankAt(response_str) \in Nat
      BY <1>types, <2>6, BlankPlace DEF KeptTypes
    <3>2. /\ BlankAt(response_str) + body_received + 0 = taken["origin"]
          /\ IsCacheable => /\ Follows(response_buffer, message.wire, BlankAt(response_str))
                            /\ Len(response_buffer) = body_received
      BY <2>1, <2>6 DEF BodyKept
    <3>3. BlankAt(response_str) + body_received + (IF pc' = "pass" THEN Len(buf') ELSE 0)
            = taken'["origin"]
      <4>1. body_received \in Nat
        BY <1>types DEF KeptTypes
      <4>2. CASE pc' = "pass"
        <5>1. taken["origin"] + Len(buf') = taken'["origin"]
          BY <2>2
        <5>2. BlankAt(response_str) + body_received + Len(buf') = taken'["origin"]
          BY <2>2, <3>1, <3>2, <4>1, <5>1
        <5>. QED  BY <4>2, <5>2
      <4>3. CASE pc' = "store"
        <5>1. taken["origin"] = taken'["origin"]
          BY <2>2, <4>3
        <5>2. BlankAt(response_str) + body_received + 0 = taken'["origin"]
          BY <3>2, <5>1
        <5>. QED  BY <4>3, <5>2
      <4>. QED  BY <2>1, <4>2, <4>3
    <3>4. pc' # "finish" /\ pc' # "ended" /\ stored' = NotStored /\ (IsCacheable' <=> IsCacheable)
      BY <2>1, <2>4 DEF IsCacheable
    <3>5. /\ UNCHANGED <<message, response_str, response_buffer, body_received>>
          /\ Len(buf') <= taken'["origin"]
      BY <2>1, <2>2
    <3>. QED  BY ONLY <2>3, <2>6, <3>2, <3>3, <3>4, <3>5 DEF BodyKept
  <2>. QED  BY <2>5, <2>6
<1>LoopEnded. LoopEnded'
  <2>1. /\ pc = "body" /\ pc' \in {"pass", "store"}
        /\ pc' = "store" => Received("origin") = <<>>
        /\ Readable("origin")
        /\ UNCHANGED <<message, response_str, content_length, link>>
    BY DEF ReceiveBody, Recv
  <2>2. pc' = "store" => Left("origin")
    BY <1>types, <1>recv, <2>1 DEF Readable, KeptTypes
  <2>. QED  BY <2>1, <2>2 DEF LoopEnded
<1>TunnelEnded. TunnelEnded'
  BY DEF TunnelEnded, Where, LoopFlags, ReceiveBody, Recv
<1>. QED  BY <1>Where, <1>OriginGets, <1>LoopFlags, <1>ClientGets, <1>HeaderReceived,
     <1>BodyKept, <1>LoopEnded, <1>TunnelEnded DEF Kept

\* One recv of the header.
LEMMA ReceiveHeaderKeeps ==
  ASSUME IInv, ReceiveHeader, UNCHANGED tunnel
  PROVE  Kept'
<1>. USE DEF IInv, exchange, tunnel, header, framing, body, streams, peers, Goto, Error,
     IsTunnel, ExchangeLocations, TunnelLocations, Left, Peers
<1>types. KeptTypes
  BY KeptTypesHold
<1>recv. /\ Received("origin") \in Seq(Units) /\ Len(Received("origin")) \in Nat
      /\ (Received("origin") = <<>> <=> Len(Received("origin")) = 0)
      /\ taken["origin"] + Len(Received("origin")) <= arrived["origin"]
      /\ Follows(Received("origin"), message.wire, taken["origin"])
      /\ (Received("origin") = <<>> <=> taken["origin"] = arrived["origin"])
  BY OriginReceived
<1>taken. /\ taken'["origin"] = taken["origin"] + Len(Received("origin"))
      /\ taken'["client"] = taken["client"]
  BY <1>types DEF ReceiveHeader, Recv, KeptTypes
<1>step. /\ pc = "header" /\ pc' \in {"header", "relay", "error"}
         /\ response_str' = response_str \o Received("origin")
         /\ pc' = "relay" => /\ out' = response_str \o Received("origin")
                             /\ \/ Received("origin") = <<>>
                                \/ "blank" \in ToSet(response_str')
         /\ pc' = "error" => out' = <<"502">>
         /\ Readable("origin")
         /\ UNCHANGED <<request, message, given, link, early, dropped, stored>>
  BY DEF ReceiveHeader, Recv
<1>whole. /\ Follows(response_str', message.wire, 0)
          /\ Len(response_str') = taken'["origin"]
  <2>1. /\ Follows(response_str, message.wire, 0) /\ Len(response_str) = taken["origin"]
        /\ response_str \in Seq(Units) /\ message.wire \in Seq(Units) /\ Len(response_str) \in Nat
    BY <1>types, <1>step DEF HeaderReceived, KeptTypes
  <2>2. 0 + Len(response_str) = taken["origin"]
    BY <2>1
  <2>3. Follows(Received("origin"), message.wire, 0 + Len(response_str))
    BY <1>recv, <2>2
  <2>4. Follows(response_str \o Received("origin"), message.wire, 0)
    BY <1>recv, <2>1, <2>3, FollowsJoin
  <2>5. Len(response_str \o Received("origin")) = Len(response_str) + Len(Received("origin"))
    BY <1>recv, <2>1, Joined
  <2>. QED  BY <1>step, <1>taken, <2>1, <2>4, <2>5
<1>Where. Where'
  BY DEF Where, ReceiveHeader, Recv
<1>OriginGets. OriginGets'
  BY <1>step, <1>taken DEF OriginGets, Where, LoopFlags
<1>LoopFlags. LoopFlags'
  BY DEF LoopFlags, Where, ReceiveHeader, Recv
<1>ClientGets. ClientGets'
  <2>1. given["client"] = <<>> /\ WithoutOwn(given["client"]) = <<>>
    BY <1>step, NothingPassed DEF ClientGets
  <2>2. /\ Len(WithoutOwn(given["client"])) = 0 /\ taken'["origin"] \in Nat
        /\ 0 + Len(response_str') = taken'["origin"]
    BY <1>types, <1>recv, <1>taken, <1>whole, <2>1 DEF KeptTypes
  <2>3. pc' = "relay" => out' = response_str'
    BY <1>step
  <2>4. ~ IsTunnel
    BY <1>step DEF Where
  <2>5. Follows(WithoutOwn(given["client"]), message.wire, 0)
    BY DEF ClientGets
  <2>6. given'["client"] = <<>> /\ WithoutOwn(given'["client"]) = <<>> /\ Len(<<>>) = 0
    BY <1>types, <1>step, <2>1 DEF KeptTypes
  <2>7. Follows(WithoutOwn(given'["client"]), message'.wire, 0)
    BY <1>step, <2>1, <2>5, <2>6
  <2>8. Len(WithoutOwn(given'["client"])) <= taken'["origin"]
    BY <2>2, <2>6
  <2>9. pc' = "relay" => Follows(out', message'.wire, 0) /\ 0 + Len(out') = taken'["origin"]
    BY <1>step, <1>whole, <2>2, <2>3
  <2>10. pc' = "error" => \E status \in Statuses : out' = <<status>>
    BY <1>step DEF Statuses
  <2>11. pc' \in {"header", "relay", "error"} /\ ~ IsTunnel'
    BY <1>step, <2>4
  <2>. HIDE DEF Error, Goto
  <2>. QED  BY ONLY <2>6, <2>7, <2>8, <2>9, <2>10, <2>11 DEF ClientGets
<1>HeaderReceived. HeaderReceived'
  <2>1. pc' = "relay" => Left("origin") \/ "blank" \in ToSet(response_str')
    BY <1>types, <1>recv, <1>step DEF Readable, KeptTypes
  <2>. QED  BY <1>step, <1>whole, <2>1 DEF HeaderReceived
<1>BodyKept. BodyKept'
  BY DEF BodyKept, ReceiveHeader, Recv
<1>LoopEnded. LoopEnded'
  BY DEF LoopEnded, ReceiveHeader, Recv
<1>TunnelEnded. TunnelEnded'
  BY DEF TunnelEnded, Where, LoopFlags, ReceiveHeader, Recv
<1>. QED  BY <1>Where, <1>OriginGets, <1>LoopFlags, <1>ClientGets, <1>HeaderReceived,
     <1>BodyKept, <1>LoopEnded, <1>TunnelEnded DEF Kept

\* The framing is read off what was received as the header.
LEMMA ParseFramingKeeps ==
  ASSUME IInv, ParseFraming, UNCHANGED tunnel
  PROVE  Kept'
<1>. USE DEF IInv, exchange, tunnel, header, framing, body, streams, peers, Goto, Error,
     IsTunnel, ExchangeLocations, TunnelLocations, Left, Peers
<1>types. KeptTypes
  BY KeptTypesHold
<1>Where. Where'
  BY DEF Where, ParseFraming
<1>OriginGets. OriginGets'
  BY DEF OriginGets, Where, LoopFlags, ParseFraming
<1>LoopFlags. LoopFlags'
  BY DEF LoopFlags, Where, ParseFraming
<1>ClientGets. ClientGets'
  BY DEF ClientGets, Where, LoopFlags, ParseFraming, Statuses
<1>HeaderReceived. HeaderReceived'
  BY DEF HeaderReceived, ParseFraming
<1>BodyKept. BodyKept'
  <2>1. CASE pc' = "error"
    BY <2>1 DEF BodyKept, ParseFraming
  <2>2. CASE pc' # "error"
    <3>1. /\ pc = "parse" /\ pc' = "body"
          /\ body_received' = Len(Behind(response_str))
          /\ response_buffer' = IF IsCacheable THEN Behind(response_str) ELSE <<>>
          /\ UNCHANGED <<request, message, taken, given, response_str, stored>>
      BY <2>2 DEF ParseFraming, Counted, FirstPart, BodyPart
    <3>2. stored = NotStored
      BY <3>1 DEF BodyKept
    <3>3. CASE "blank" \notin ToSet(response_str)
      BY <3>1, <3>2, <3>3 DEF BodyKept
    <3>4. CASE "blank" \in ToSet(response_str)
      <4>1. /\ Follows(response_str, message.wire, 0) /\ Len(response_str) = taken["origin"]
            /\ response_str \in Seq(Units) /\ message.wire \in Seq(Units) /\ Len(response_str) \in Nat
        BY <1>types, <3>1 DEF HeaderReceived, KeptTypes
      <4>2. /\ Len(Behind(response_str)) = Len(response_str) - BlankAt(response_str)
            /\ Follows(Behind(response_str), message.wire, BlankAt(response_str))
        BY <3>4, <4>1, BehindFollows
      <4>3. BlankAt(response_str) \in Nat
        BY <3>4, <4>1, BlankPlace
      <4>4. BlankAt(response_str) + Len(Behind(response_str)) + 0 = taken["origin"]
        BY <4>1, <4>2, <4>3
      <4>. QED  BY <3>1, <3>2, <4>2, <4>4 DEF BodyKept, IsCacheable
    <3>. QED  BY <3>3, <3>4
  <2>. QED  BY <2>1, <2>2
<1>LoopEnded. LoopEnded'
  <2>1. CASE pc' = "error"
    BY <2>1 DEF LoopEnded, ParseFraming
  <2>2. CASE pc' # "error"
    <3>. DEFINE at == LengthAt(response_str)
    <3>1. /\ pc' = "body" /\ UNCHANGED <<message, response_str>>
          /\ at # 0 => response_str[at] # "bad"
          /\ content_length' = IF at = 0 THEN 0 ELSE message.length % (SizeMax + 1)
      BY <2>2 DEF ParseFraming
    <3>2. ASSUME at # 0 PROVE "length" \in ToSet(response_str)
      <4>1. response_str \in Seq(Units) /\ DOMAIN response_str = 1 .. Len(response_str)
        BY <1>types, LenProperties DEF KeptTypes
      <4>2. at \in 1 .. Len(response_str) /\ response_str[at] \in {"length", "bad"}
        BY <3>2, <4>1, LengthPlace
      <4>. HIDE DEF at
      <4>. QED  BY <3>1, <3>2, <4>1, <4>2 DEF ToSet
    <3>. HIDE DEF at
    <3>3. ~ (0 > 0)
      OBVIOUS
    <3>. QED  BY <3>1, <3>2, <3>3 DEF LoopEnded
  <2>. QED  BY <2>1, <2>2
<1>TunnelEnded. TunnelEnded'
  BY DEF TunnelEnded, Where, LoopFlags, ParseFraming
<1>. QED  BY <1>Where, <1>OriginGets, <1>LoopFlags, <1>ClientGets, <1>HeaderReceived,
     <1>BodyKept, <1>LoopEnded, <1>TunnelEnded DEF Kept

\* The first recv.
LEMMA ReceiveRequestKeeps ==
  ASSUME IInv, ReceiveRequest
  PROVE  Kept'
<1>. USE DEF IInv, exchange, tunnel, header, framing, body, streams, peers, Goto, Error,
     IsTunnel, ExchangeLocations, TunnelLocations, Left, Peers
<1>types. KeptTypes
  BY KeptTypesHold
<1>recv. /\ Received("client") \in Seq(Units) /\ Len(Received("client")) \in Nat
      /\ (Received("client") = <<>> <=> Len(Received("client")) = 0)
      /\ taken["client"] + Len(Received("client")) <= arrived["client"]
      /\ Follows(Received("client"), request.wire, taken["client"])
      /\ (Received("client") = <<>> <=> taken["client"] = arrived["client"])
  BY ClientReceived
<1>taken. /\ taken'["client"] = taken["client"] + Len(Received("client"))
      /\ taken'["origin"] = taken["origin"]
  BY <1>types DEF ReceiveRequest, Recv, KeptTypes
<1>step. /\ pc = "recv" /\ pc' \in {"ended", "error", "dial", "forward"}
         /\ pc' = "ended" <=> Received("client") = <<>>
         /\ pc' = "dial" => IsTunnel
         /\ pc' = "forward" => ~ IsTunnel
         /\ pc' = "error" => \E status \in Statuses : out' = <<status>>
         /\ request_str' = Received("client")
         /\ early' = IF IsTunnel THEN Len(Received("client")) ELSE 0
         /\ UNCHANGED <<request, message, given, link, arrived, response_str, stored, closed, dropped>>
  <2>1. ToSet(<<>>) = {}
    BY DEF ToSet
  <2>. QED  BY <2>1 DEF ReceiveRequest, Recv, Statuses
<1>start. /\ taken["client"] = 0 /\ early = 0 /\ given["origin"] = <<>> /\ link["origin"] = "none"
          /\ arrived["origin"] = 0 /\ Len(given["origin"]) = 0
          /\ taken'["client"] = Len(Received("client"))
  BY <1>types, <1>recv, <1>step, <1>taken DEF Where, KeptTypes
<1>Where. Where'
  BY <1>step, <1>start, <1>recv DEF Where
<1>OriginGets. OriginGets'
  <2>1. early' + Len(given'["origin"]) = IF IsTunnel THEN Len(Received("client")) ELSE 0
    BY <1>recv, <1>step, <1>start
  <2>2. Follows(given["origin"], request.wire, early')
    <3>1. early' \in 0 .. Len(request.wire) /\ request.wire \in Seq(Units)
      BY <1>types, <1>recv, <1>step, <1>start DEF KeptTypes, Follows
    <3>. QED  BY <1>start, <3>1, NothingFollows
  <2>3. ~ IsTunnel => Follows(request_str', request.wire, 0)
    BY <1>recv, <1>step, <1>start
  <2>4. /\ given'["origin"] = <<>> /\ Follows(given'["origin"], request'.wire, early')
        /\ (~ IsTunnel)' => Follows(request_str', request'.wire, 0)
        /\ Len(request_str') = taken'["client"]
    BY <1>recv, <1>step, <1>start, <2>2, <2>3
  <2>5. /\ early' + Len(given'["origin"]) <= taken'["client"]
        /\ IsTunnel' => early' + Len(given'["origin"]) = taken'["client"]
    BY <1>recv, <1>step, <1>start, <2>1
  <2>6. pc' \notin {"request", "to origin"} /\ (pc' = "forward" => ~ IsTunnel')
    BY <1>step
  <2>. QED  BY ONLY <2>4, <2>5, <2>6 DEF OriginGets
<1>LoopFlags. LoopFlags'
  BY DEF LoopFlags, Where, ReceiveRequest, Recv
<1>ClientGets. ClientGets'
  BY <1>step, <1>taken DEF ClientGets, Where, LoopFlags
<1>HeaderReceived. HeaderReceived'
  BY DEF HeaderReceived, ReceiveRequest, Recv
<1>BodyKept. BodyKept'
  BY DEF BodyKept, ReceiveRequest, Recv
<1>LoopEnded. LoopEnded'
  BY DEF LoopEnded, ReceiveRequest, Recv
<1>TunnelEnded. TunnelEnded'
  BY DEF TunnelEnded, Where, LoopFlags, ReceiveRequest, Recv
<1>. QED  BY <1>Where, <1>OriginGets, <1>LoopFlags, <1>ClientGets, <1>HeaderReceived,
     <1>BodyKept, <1>LoopEnded, <1>TunnelEnded DEF Kept

\* Some of what the client has sent goes to the origin.
LEMMA SendsToOriginKeeps ==
  ASSUME IInv, SendSome("origin"), pc \in {"request", "to origin"},
         UNCHANGED <<peers, pc, exchange, tunnel>>
  PROVE  Kept'
<1>. USE DEF exchange, tunnel, header, framing, body, peers, Goto, Error, IsTunnel,
     ExchangeLocations, TunnelLocations, Left, Peers
<1>types. KeptTypes
  BY KeptTypesHold
<1>. DEFINE g == given["origin"]
            k == early + Len(g)
<1>1. PICK n \in 1 .. Len(out) :
        /\ given'["origin"] = g \o SubSeq(out, 1, n)
        /\ given'["client"] = given["client"]
        /\ out' = SubSeq(out, n + 1, Len(out))
        /\ SubSeq(out, 1, n) \in Seq(Words) /\ Len(SubSeq(out, 1, n)) = n
        /\ Len(given'["origin"]) = Len(g) + n
        /\ Len(out') = Len(out) - n
  BY SendSomeParts DEF IInv, TypeOK, Other
<1>2. UNCHANGED <<link, arrived, taken, read, request, message, pc, early, dropped, closed,
                  revents, request_str, response_str, response_buffer, buf,
                  content_length, is_chunked, body_received, stored>>
  BY DEF SendSome
<1>3. /\ g \in Seq(Words) /\ Len(g) \in Nat /\ out \in Seq(Words) /\ Len(out) \in Nat
      /\ early \in Nat /\ k \in Nat /\ request.wire \in Seq(Units) /\ n \in 0 .. Len(out)
      /\ taken["client"] \in Nat
  <2>1. /\ g \in Seq(Words) /\ Len(g) \in Nat /\ out \in Seq(Words) /\ Len(out) \in Nat
        /\ early \in Nat /\ request.wire \in Seq(Units) /\ taken["client"] \in Nat
    BY <1>types DEF KeptTypes
  <2>2. n \in 1 .. Len(out)
    BY <1>1
  <2>. HIDE DEF g
  <2>. QED  BY ONLY <2>1, <2>2
<1>4. /\ Follows(g, request.wire, early) /\ Follows(out, request.wire, k)
      /\ k + Len(out) = taken["client"]
  BY DEF IInv, OriginGets
<1>5. /\ Follows(SubSeq(out, 1, n), request.wire, k)
      /\ Follows(SubSeq(out, n + 1, Len(out)), request.wire, k + n)
  BY <1>3, <1>4, FollowsSplit
<1>6. Follows(g \o SubSeq(out, 1, n), request.wire, early)
  BY <1>1, <1>3, <1>4, <1>5, FollowsJoin
<1>7. /\ early' + Len(given'["origin"]) = k + n
      /\ k + n <= taken["client"]
      /\ (k + n) + Len(out') = taken["client"]
  <2>1. /\ early' = early /\ Len(given'["origin"]) = Len(g) + n /\ Len(out') = Len(out) - n
        /\ k + Len(out) = taken["client"] /\ k = early + Len(g)
    BY <1>1, <1>2, <1>4
  <2>2. early \in Nat /\ Len(g) \in Nat /\ n \in 0 .. Len(out) /\ Len(out) \in Nat
    BY <1>3
  <2>. HIDE DEF g, k
  <2>3. early' + Len(given'["origin"]) = k + n
    BY ONLY <2>1, <2>2
  <2>4. k + n <= taken["client"] /\ (k + n) + Len(out') = taken["client"]
    BY ONLY <2>1, <2>2
  <2>. QED  BY <2>3, <2>4
<1>. HIDE DEF g, k
<1>Where. Where'
  BY <1>2 DEF IInv, Where
<1>OriginGets. OriginGets'
  <2>1. Follows(given'["origin"], request'.wire, early')
    BY <1>1, <1>2, <1>6
  <2>2. Follows(out', request'.wire, early' + Len(given'["origin"]))
    BY <1>1, <1>2, <1>5, <1>7
  <2>3. /\ early' + Len(given'["origin"]) <= taken'["client"]
        /\ early' + Len(given'["origin"]) + Len(out') = taken'["client"]
    BY <1>2, <1>7
  <2>4. IsTunnel' => pc' = "to origin"
    BY <1>2 DEF IInv, Where
  <2>5. pc' # "forward"
    BY <1>2
  <2>. QED  BY ONLY <2>1, <2>2, <2>3, <2>4, <2>5 DEF OriginGets
<1>LoopFlags. LoopFlags'
  BY <1>2 DEF IInv, LoopFlags
<1>ClientGets. ClientGets'
  BY <1>1, <1>2 DEF IInv, ClientGets
<1>HeaderReceived. HeaderReceived'
  BY <1>2 DEF IInv, HeaderReceived
<1>BodyKept. BodyKept'
  BY <1>1, <1>2 DEF IInv, BodyKept, IsCacheable
<1>LoopEnded. LoopEnded'
  BY <1>2 DEF IInv, LoopEnded, LengthReached, EndsInLastChunk
<1>TunnelEnded. TunnelEnded'
  BY <1>2 DEF IInv, TunnelEnded
<1>. QED
  BY <1>Where, <1>OriginGets, <1>LoopFlags, <1>ClientGets, <1>HeaderReceived, <1>BodyKept,
     <1>LoopEnded, <1>TunnelEnded DEF Kept

\* Some of what the origin has sent goes to the client.
LEMMA SendsToClientKeeps ==
  ASSUME IInv, SendSome("client"), pc \in {"relay", "pass", "to client"},
         UNCHANGED <<peers, pc, exchange, tunnel>>
  PROVE  Kept'
<1>. USE DEF exchange, tunnel, header, framing, body, peers, Goto, Error, IsTunnel,
     ExchangeLocations, TunnelLocations, Left, Peers
<1>types. KeptTypes
  BY KeptTypesHold
<1>. DEFINE g == given["client"]
            passed == WithoutOwn(g)
            k == Len(passed)
<1>1. PICK n \in 1 .. Len(out) :
        /\ given'["client"] = g \o SubSeq(out, 1, n)
        /\ given'["origin"] = given["origin"]
        /\ out' = SubSeq(out, n + 1, Len(out))
        /\ SubSeq(out, 1, n) \in Seq(Words) /\ Len(SubSeq(out, 1, n)) = n
        /\ Len(out') = Len(out) - n
  BY SendSomeParts DEF IInv, TypeOK, Other
<1>2. UNCHANGED <<link, arrived, taken, read, request, message, pc, early, dropped, closed,
                  revents, request_str, response_str, response_buffer, buf,
                  content_length, is_chunked, body_received, stored>>
  BY DEF SendSome
<1>. DEFINE c == SubSeq(out, 1, n)
<1>3. /\ g \in Seq(Words) /\ Len(g) \in Nat /\ out \in Seq(Words) /\ Len(out) \in Nat
      /\ k \in Nat /\ passed \in Seq(Words) /\ message.wire \in Seq(Units) /\ n \in 0 .. Len(out)
      /\ taken["origin"] \in Nat
  <2>1. /\ g \in Seq(Words) /\ Len(g) \in Nat /\ out \in Seq(Words) /\ Len(out) \in Nat
        /\ message.wire \in Seq(Units) /\ taken["origin"] \in Nat
    BY <1>types DEF KeptTypes
  <2>. HIDE DEF g
  <2>2. passed \in Seq(Words) /\ k \in Nat
    BY <2>1, PassedType
  <2>3. n \in 1 .. Len(out)
    BY <1>1
  <2>. QED  BY ONLY <2>1, <2>2, <2>3
<1>4. /\ Follows(passed, message.wire, 0) /\ Follows(out, message.wire, k)
      /\ k + Len(out) = taken["origin"]
      /\ \/ g = <<>>
         \/ g[Len(g)] \notin Statuses
         \/ IsTunnel /\ Len(g) = 1
  BY DEF IInv, ClientGets
<1>5. /\ Follows(c, message.wire, k)
      /\ Follows(SubSeq(out, n + 1, Len(out)), message.wire, k + n)
  BY <1>3, <1>4, FollowsSplit
<1>6. c # <<>> /\ \A i \in 1 .. Len(c) : c[i] \notin Statuses
  <2>1. c \in Seq(Words) /\ Len(c) # 0
    <3>1. c \in Seq(Words) /\ Len(c) = n
      BY <1>1
    <3>2. n # 0
      <4>1. n \in 1 .. Len(out) /\ Len(out) \in Nat
        BY <1>1, <1>3
      <4>. QED  BY ONLY <4>1
    <3>. QED  BY <3>1, <3>2
  <2>2. \A i \in 1 .. Len(c) : c[i] \notin Statuses
    BY <1>3, <1>5, <2>1, FollowsUnits
  <2>. HIDE DEF c
  <2>. QED  BY <2>1, <2>2, NoUnits
<1>7. Len(g) <= 1 \/ g[Len(g)] \notin Statuses
  <2>1. g = <<>> => Len(g) = 0
    BY EmptySeq
  <2>. HIDE DEF g
  <2>. QED  BY ONLY <1>4, <2>1
<1>8. /\ WithoutOwn(g \o c) = passed \o c
      /\ (g \o c)[Len(g \o c)] \notin Statuses
  <2>1. c \in Seq(Words)
    BY <1>1
  <2>. HIDE DEF g, c
  <2>2. MayGoOn(g) /\ NoOwn(c) /\ c # <<>>
    BY <1>6, <1>7 DEF MayGoOn, NoOwn
  <2>3. g \in Seq(Words)
    BY <1>3
  <2>. QED  BY ONLY <2>1, <2>2, <2>3, PassedMore
<1>9. Follows(passed \o c, message.wire, 0)
  <2>. HIDE DEF passed, c
  <2>1. 0 + Len(passed) = k
    BY ONLY <1>3 DEF k
  <2>2. Follows(c, message.wire, 0 + Len(passed))
    BY <1>5, <2>1
  <2>3. c \in Seq(Words)
    BY <1>1 DEF c
  <2>. QED  BY <1>3, <1>4, <2>2, <2>3, FollowsJoin
<1>10. Len(passed \o c) = k + n
  <2>1. Len(passed \o c) = Len(passed) + Len(c)
    <3>1. c \in Seq(Words) /\ passed \in Seq(Words)
      BY <1>1, <1>3
    <3>. HIDE DEF c, passed
    <3>. QED  BY <3>1, Joined
  <2>. QED  BY <1>1, <2>1
<1>11. /\ k + n <= taken["origin"]
       /\ (k + n) + Len(out') = taken["origin"]
  <2>1. /\ Len(out') = Len(out) - n /\ k + Len(out) = taken["origin"]
        /\ k \in Nat /\ n \in 0 .. Len(out) /\ Len(out) \in Nat
    BY <1>1, <1>3, <1>4
  <2>. HIDE DEF k
  <2>. QED  BY ONLY <2>1
<1>12. /\ given'["client"] = g \o c /\ WithoutOwn(given'["client"]) = passed \o c
       /\ Len(WithoutOwn(given'["client"])) = k + n
  BY <1>1, <1>8, <1>10
<1>. HIDE DEF g, passed, k, c
<1>Where. Where'
  BY <1>1, <1>2 DEF IInv, Where
<1>OriginGets. OriginGets'
  BY <1>1, <1>2 DEF IInv, OriginGets
<1>LoopFlags. LoopFlags'
  BY <1>2 DEF IInv, LoopFlags
<1>ClientGets. ClientGets'
  <2>1. Follows(WithoutOwn(given'["client"]), message'.wire, 0)
    BY <1>2, <1>9, <1>12
  <2>2. Follows(out', message'.wire, Len(WithoutOwn(given'["client"])))
    BY <1>1, <1>2, <1>5, <1>12
  <2>3. /\ Len(WithoutOwn(given'["client"])) <= taken'["origin"]
        /\ Len(WithoutOwn(given'["client"])) + Len(out') = taken'["origin"]
    BY <1>2, <1>11, <1>12
  <2>4. given'["client"][Len(given'["client"])] \notin Statuses
    BY <1>8, <1>12
  <2>5. IsTunnel' => pc' = "to client"
    BY <1>2 DEF IInv, Where
  <2>6. pc' \in {"relay", "pass", "to client"}
    BY <1>2
  <2>. QED  BY ONLY <2>1, <2>2, <2>3, <2>4, <2>5, <2>6 DEF ClientGets
<1>HeaderReceived. HeaderReceived'
  BY <1>2 DEF IInv, HeaderReceived
<1>BodyKept. BodyKept'
  BY <1>1, <1>2 DEF IInv, BodyKept, IsCacheable
<1>LoopEnded. LoopEnded'
  BY <1>2 DEF IInv, LoopEnded, LengthReached, EndsInLastChunk
<1>TunnelEnded. TunnelEnded'
  BY <1>2 DEF IInv, TunnelEnded
<1>. QED
  BY <1>Where, <1>OriginGets, <1>LoopFlags, <1>ClientGets, <1>HeaderReceived, <1>BodyKept,
     <1>LoopEnded, <1>TunnelEnded DEF Kept

\* What the proxy says itself is not of the origin's stream.
LEMMA SaysToClient ==
  ASSUME IInv, SendSome("client"), pc \in {"establish", "error"},
         UNCHANGED <<peers, pc, exchange, tunnel>>
  PROVE  /\ given'["origin"] = given["origin"]
         /\ out # <<>> /\ out' = <<>>
         /\ WithoutOwn(given'["client"]) = WithoutOwn(given["client"])
         /\ Len(given'["client"]) = Len(given["client"]) + 1
<1>. USE DEF exchange, tunnel, header, framing, body, peers, Goto, Error, IsTunnel,
     ExchangeLocations, TunnelLocations, Left, Peers
<1>types. KeptTypes
  BY KeptTypesHold
<1>. DEFINE g == given["client"]
<1>1. PICK n \in 1 .. Len(out) :
        /\ given'["client"] = g \o SubSeq(out, 1, n)
        /\ given'["origin"] = given["origin"]
        /\ out' = SubSeq(out, n + 1, Len(out))
        /\ out' \in Seq(Words) /\ Len(out') = Len(out) - n
  BY SendSomeParts DEF IInv, TypeOK, Other
<1>2. UNCHANGED <<link, arrived, taken, read, request, message, pc, early, dropped, closed,
                  revents, request_str, response_str, response_buffer, buf,
                  content_length, is_chunked, body_received, stored>>
  BY DEF SendSome
<1>3. g \in Seq(Words) /\ Len(g) \in Nat /\ out \in Seq(Words) /\ Len(out) \in Nat
  BY <1>types DEF KeptTypes
<1>4. out # <<>>
  BY <1>1, EmptySeq
<1>5. PICK status \in Statuses : out = <<status>>
  BY <1>4 DEF IInv, ClientGets, Statuses
<1>6. g = <<>> \/ g[Len(g)] \notin Statuses
  BY <1>4 DEF IInv, ClientGets
<1>7. given'["client"] = g \o <<status>> /\ out' = <<>>
  <2>1. Len(out) = 1
    BY <1>5
  <2>2. n = 1
    BY <1>1, <2>1
  <2>3. SubSeq(out, 1, n) = <<status>>
    <3>1. /\ SubSeq(out, 1, 1) \in Seq(Words) /\ Len(SubSeq(out, 1, 1)) = 1
          /\ \A i \in 1 .. 1 : SubSeq(out, 1, 1)[i] = out[i]
      <4>1. 1 \in 1 .. Len(out) + 1 /\ 1 \in 1 - 1 .. Len(out) /\ 1 - 1 + 1 = 1
        BY <2>1
      <4>2. /\ SubSeq(out, 1, 1) \in Seq(Words) /\ Len(SubSeq(out, 1, 1)) = 1 - 1 + 1
            /\ \A i \in 1 .. 1 - 1 + 1 : SubSeq(out, 1, 1)[i] = out[1 + i - 1]
        BY <1>3, <4>1, PartOf
      <4>3. \A i \in 1 .. 1 : 1 + i - 1 = i
        OBVIOUS
      <4>. QED  BY <4>1, <4>2, <4>3
    <3>2. SubSeq(out, 1, 1) = out
      BY <1>3, <2>1, <3>1, SameUnits
    <3>. QED  BY <1>5, <2>2, <3>2
  <2>4. Len(out') = 0
    BY <1>1, <2>1, <2>2
  <2>. QED  BY <1>1, <2>3, <2>4, NoUnits
<1>8. WithoutOwn(given'["client"]) = WithoutOwn(g) /\ Len(given'["client"]) = Len(g) + 1
  <2>1. status \in Statuses \cap Words
    BY DEF Words
  <2>. HIDE DEF g
  <2>. QED  BY <1>3, <1>6, <1>7, <2>1, PassedAnswer
<1>. QED  BY <1>1, <1>4, <1>7, <1>8

\* The proxy's own word goes to the client.
LEMMA SaysToClientKeeps ==
  ASSUME IInv, SendSome("client"), pc \in {"establish", "error"},
         UNCHANGED <<peers, pc, exchange, tunnel>>
  PROVE  Kept'
<1>. USE DEF exchange, tunnel, header, framing, body, peers, Goto, Error, IsTunnel,
     ExchangeLocations, TunnelLocations, Left, Peers
<1>types. KeptTypes
  BY KeptTypesHold
<1>. DEFINE g == given["client"]
<1>1. /\ given'["origin"] = given["origin"] /\ out # <<>> /\ out' = <<>>
      /\ WithoutOwn(given'["client"]) = WithoutOwn(g)
      /\ Len(given'["client"]) = Len(g) + 1
  BY SaysToClient
<1>2. UNCHANGED <<link, arrived, taken, read, request, message, pc, early, dropped, closed,
                  revents, request_str, response_str, response_buffer, buf,
                  content_length, is_chunked, body_received, stored>>
  BY DEF SendSome
<1>Where. Where'
  BY <1>1, <1>2 DEF IInv, Where
<1>OriginGets. OriginGets'
  BY <1>1, <1>2 DEF IInv, OriginGets
<1>LoopFlags. LoopFlags'
  BY <1>2 DEF IInv, LoopFlags
<1>ClientGets. ClientGets'
  <2>1. pc = "establish" => IsTunnel /\ Len(given'["client"]) = 1
    <3>1. ASSUME pc = "establish" PROVE IsTunnel /\ g = <<>>
      BY <1>1, <3>1 DEF IInv, ClientGets, Where
    <3>. QED  BY <1>1, <3>1, EmptySeq
  <2>. HIDE DEF g
  <2>2. WithoutOwn(given'["client"]) = WithoutOwn(given["client"])
    BY <1>1 DEF g
  <2>. QED  BY <1>1, <1>2, <2>1, <2>2 DEF IInv, ClientGets
<1>HeaderReceived. HeaderReceived'
  BY <1>2 DEF IInv, HeaderReceived
<1>BodyKept. BodyKept'
  BY <1>1, <1>2 DEF IInv, BodyKept, IsCacheable
<1>LoopEnded. LoopEnded'
  BY <1>2 DEF IInv, LoopEnded, LengthReached, EndsInLastChunk
<1>TunnelEnded. TunnelEnded'
  BY <1>2 DEF IInv, TunnelEnded
<1>. QED
  BY <1>Where, <1>OriginGets, <1>LoopFlags, <1>ClientGets, <1>HeaderReceived, <1>BodyKept,
     <1>LoopEnded, <1>TunnelEnded DEF Kept

\* One recv of the tunnel from the client.
LEMMA TakeFromClientKeeps ==
  ASSUME IInv, TakeFrom("client"), UNCHANGED exchange
  PROVE  Kept'
<1>. USE DEF exchange, tunnel, header, framing, body, peers, Goto, Error, IsTunnel,
     ExchangeLocations, TunnelLocations, Left, Peers
<1>types. KeptTypes
  BY KeptTypesHold
<1>recv. LET r == Received("client")
         IN  /\ Len(r) \in Nat /\ (r = <<>> <=> Len(r) = 0)
             /\ Follows(r, request.wire, taken["client"])
             /\ r = <<>> <=> taken["client"] = arrived["client"]
  BY ClientReceived
<1>0. /\ pc = "client" /\ IsTunnel /\ closed = {} /\ dropped = {}
      /\ early + Len(given["origin"]) = taken["client"]
      /\ Len(WithoutOwn(given["client"])) = taken["origin"]
  <2>1. pc = "client"
    BY DEF TakeFrom
  <2>2. IsTunnel
    BY <2>1 DEF IInv, Where
  <2>3. closed = {}
    BY <2>1 DEF IInv, LoopFlags
  <2>4. dropped = {}
    BY <2>3 DEF IInv, LoopFlags
  <2>. QED  BY <2>1, <2>2, <2>3, <2>4 DEF IInv, OriginGets, ClientGets
<1>1. /\ pc' \in {"origin", "to origin"}
      /\ UNCHANGED <<link, arrived, given, request, message, early, dropped,
                     revents, request_str, response_str, response_buffer, buf,
                     content_length, is_chunked, body_received, stored>>
      /\ taken'["origin"] = taken["origin"]
  BY <1>types DEF TakeFrom, Recv, After, Passing, streams, KeptTypes
<1>2. \/ /\ pc' = "origin" /\ closed' = closed /\ taken'["client"] = taken["client"]
      \/ /\ pc' = "origin" /\ closed' = {"client"} /\ taken'["client"] = taken["client"]
         /\ Readable("client") /\ taken["client"] = arrived["client"]
      \/ /\ pc' = "to origin" /\ closed' = closed /\ out' = Received("client")
         /\ taken'["client"] = taken["client"] + Len(Received("client"))
  <2>1. CASE "client" \notin revents.in
    BY <2>1 DEF TakeFrom, After, streams
  <2>2. CASE "client" \in revents.in
    <3>1. /\ Readable("client")
          /\ taken'["client"] = taken["client"] + Len(Received("client"))
          /\ out' = Received("client")
      BY <1>types, <2>2 DEF TakeFrom, Recv, KeptTypes
    <3>2. CASE Received("client") = <<>>
      <4>1. taken'["client"] = taken["client"]
        BY <1>types, <1>recv, <3>1, <3>2 DEF KeptTypes
      <4>. QED  BY <1>0, <1>recv, <2>2, <3>1, <3>2, <4>1 DEF TakeFrom, After, IsClosed
    <3>3. CASE Received("client") # <<>>
      BY <2>2, <3>1, <3>3 DEF TakeFrom, Passing, IsClosed
    <3>. QED  BY <3>2, <3>3
  <2>. QED  BY <2>1, <2>2
<1>Where. Where'
  BY <1>0, <1>1 DEF IInv, Where
<1>OriginGets. OriginGets'
  <2>1. /\ early' + Len(given'["origin"]) = taken["client"]
        /\ Follows(given'["origin"], request'.wire, early')
    BY <1>0, <1>1 DEF IInv, OriginGets
  <2>2. pc' = "origin" => early' + Len(given'["origin"]) = taken'["client"]
    BY <1>2, <2>1
  <2>3. pc' = "to origin" =>
          /\ Follows(out', request'.wire, early' + Len(given'["origin"]))
          /\ early' + Len(given'["origin"]) + Len(out') = taken'["client"]
    BY <1>1, <1>2, <1>recv, <2>1
  <2>4. early' + Len(given'["origin"]) <= taken'["client"]
    <3>1. taken["client"] \in Nat
      BY <1>types DEF KeptTypes
    <3>2. taken'["client"] \in {taken["client"], taken["client"] + Len(Received("client"))}
      BY <1>2
    <3>3. taken["client"] <= taken'["client"]
      BY <1>recv, <3>1, <3>2
    <3>. QED  BY <2>1, <3>3
  <2>. QED  BY ONLY <1>1, <2>1, <2>2, <2>3, <2>4 DEF OriginGets
<1>LoopFlags. LoopFlags'
  BY <1>0, <1>1, <1>2 DEF LoopFlags
<1>ClientGets. ClientGets'
  BY <1>0, <1>1 DEF IInv, ClientGets
<1>HeaderReceived. HeaderReceived'
  BY <1>1 DEF IInv, HeaderReceived
<1>BodyKept. BodyKept'
  BY <1>0, <1>1 DEF IInv, BodyKept
<1>LoopEnded. LoopEnded'
  BY <1>1 DEF IInv, LoopEnded
<1>TunnelEnded. TunnelEnded'
  <2>1. ASSUME NEW q \in closed' \ dropped'
        PROVE  link'[q] \in {"shut", "reset"} /\ taken'[q] = arrived'[q]
    <3>1. /\ q = "client" /\ taken'["client"] = taken["client"] /\ Readable("client")
          /\ taken["client"] = arrived["client"] /\ arrived["client"] \in Nat
      BY <1>types, <1>0, <1>2 DEF KeptTypes
    <3>2. link["client"] \in {"shut", "reset"}
      BY ONLY <3>1 DEF Readable, Left
    <3>. QED  BY <1>1, <3>1, <3>2
  <2>2. \A q \in revents'.hup : link'[q] = "reset"
    BY <1>1 DEF IInv, TunnelEnded
  <2>3. pc' \notin {"finish", "ended"}
    BY <1>1
  <2>. QED  BY ONLY <2>1, <2>2, <2>3 DEF TunnelEnded, Left
<1>. QED
  BY <1>Where, <1>OriginGets, <1>LoopFlags, <1>ClientGets, <1>HeaderReceived, <1>BodyKept,
     <1>LoopEnded, <1>TunnelEnded DEF Kept

\* One recv of the tunnel from the origin.
LEMMA TakeFromOriginKeeps ==
  ASSUME IInv, TakeFrom("origin"), UNCHANGED exchange
  PROVE  Kept'
<1>. USE DEF exchange, tunnel, header, framing, body, peers, Goto, Error, IsTunnel,
     ExchangeLocations, TunnelLocations, Left, Peers
<1>types. KeptTypes
  BY KeptTypesHold
<1>recv. LET r == Received("origin")
         IN  /\ Len(r) \in Nat /\ (r = <<>> <=> Len(r) = 0)
             /\ Follows(r, message.wire, taken["origin"])
             /\ taken["origin"] + Len(r) <= arrived["origin"]
             /\ r = <<>> <=> taken["origin"] = arrived["origin"]
  BY OriginReceived
<1>0. /\ pc = "origin" /\ IsTunnel /\ "client" \notin dropped
      /\ Len(WithoutOwn(given["client"])) = taken["origin"]
  <2>1. pc = "origin"
    BY DEF TakeFrom
  <2>2. IsTunnel
    BY <2>1 DEF IInv, Where
  <2>3. "client" \notin dropped
    BY <2>1 DEF IInv, LoopFlags
  <2>. QED  BY <2>1, <2>2, <2>3 DEF IInv, ClientGets
<1>1. /\ pc' \in {"hangup", "to client"}
      /\ UNCHANGED <<link, arrived, given, request, message, early, dropped,
                     revents, request_str, response_str, response_buffer, buf,
                     content_length, is_chunked, body_received, stored>>
      /\ taken'["client"] = taken["client"]
  BY <1>types DEF TakeFrom, Recv, After, Passing, streams, KeptTypes
<1>2. \/ /\ pc' = "hangup" /\ closed' = closed /\ taken'["origin"] = taken["origin"]
      \/ /\ pc' = "hangup" /\ closed' = closed \cup {"origin"}
         /\ taken'["origin"] = taken["origin"]
         /\ Readable("origin") /\ taken["origin"] = arrived["origin"]
      \/ /\ pc' = "to client" /\ closed' = closed /\ out' = Received("origin")
         /\ taken'["origin"] = taken["origin"] + Len(Received("origin"))
         /\ taken["origin"] # arrived["origin"]
  <2>1. CASE "origin" \notin revents.in
    BY <2>1 DEF TakeFrom, After, streams
  <2>2. CASE "origin" \in revents.in
    <3>1. /\ Readable("origin")
          /\ taken'["origin"] = taken["origin"] + Len(Received("origin"))
          /\ out' = Received("origin")
      BY <1>types, <2>2 DEF TakeFrom, Recv, KeptTypes
    <3>2. CASE Received("origin") = <<>>
      <4>1. taken'["origin"] = taken["origin"]
        BY <1>types, <1>recv, <3>1, <3>2 DEF KeptTypes
      <4>. QED  BY <1>0, <1>recv, <2>2, <3>1, <3>2, <4>1 DEF TakeFrom, After, IsClosed
    <3>3. CASE Received("origin") # <<>>
      BY <1>recv, <2>2, <3>1, <3>3 DEF TakeFrom, Passing, IsClosed
    <3>. QED  BY <3>2, <3>3
  <2>. QED  BY <2>1, <2>2
<1>Where. Where'
  BY <1>0, <1>1 DEF IInv, Where
<1>OriginGets. OriginGets'
  BY <1>0, <1>1 DEF IInv, OriginGets
<1>LoopFlags. LoopFlags'
  BY <1>0, <1>1, <1>2 DEF IInv, LoopFlags
<1>ClientGets. ClientGets'
  <2>. DEFINE g == given["client"]
  <2>1. /\ given'["client"] = g /\ message' = message
        /\ Follows(WithoutOwn(g), message.wire, 0)
        /\ Len(WithoutOwn(g)) = taken["origin"]
        /\ \/ g = <<>>
           \/ g[Len(g)] \notin Statuses
           \/ IsTunnel /\ Len(g) = 1
    BY <1>0, <1>1 DEF IInv, ClientGets
  <2>. HIDE DEF g
  <2>2. pc' = "hangup" => Len(WithoutOwn(g)) = taken'["origin"]
    BY <1>2, <2>1
  <2>3. pc' = "to client" => /\ Follows(out', message.wire, Len(WithoutOwn(g)))
                            /\ Len(WithoutOwn(g)) + Len(out') = taken'["origin"]
    BY <1>2, <1>recv, <2>1
  <2>4. Len(WithoutOwn(g)) <= taken'["origin"]
    <3>1. taken["origin"] \in Nat
      BY <1>types DEF KeptTypes
    <3>2. taken'["origin"] \in {taken["origin"], taken["origin"] + Len(Received("origin"))}
      BY <1>2
    <3>3. taken["origin"] <= taken'["origin"]
      BY <1>recv, <3>1, <3>2
    <3>. QED  BY <2>1, <3>3
  <2>5. IsTunnel' = IsTunnel
    BY <1>1
  <2>. QED  BY ONLY <1>1, <2>1, <2>2, <2>3, <2>4, <2>5 DEF ClientGets
<1>HeaderReceived. HeaderReceived'
  BY <1>0, <1>1 DEF IInv, HeaderReceived
<1>BodyKept. BodyKept'
  BY <1>0, <1>1 DEF IInv, BodyKept
<1>LoopEnded. LoopEnded'
  BY <1>0, <1>1 DEF IInv, LoopEnded
<1>TunnelEnded. TunnelEnded'
  <2>1. ASSUME NEW q \in closed' \ dropped'
        PROVE  link'[q] \in {"shut", "reset"} /\ taken'[q] = arrived'[q]
    <3>1. CASE q \in closed
      <4>1. link[q] \in {"shut", "reset"} /\ taken[q] = arrived[q] /\ q \in Peers
        BY <1>types, <1>1, <3>1 DEF IInv, TunnelEnded, KeptTypes
      <4>2. taken'[q] = taken[q]
        BY <1>1, <1>2, <4>1
      <4>. QED  BY <1>1, <4>1, <4>2
    <3>2. CASE q \notin closed
      <4>1. /\ q = "origin" /\ taken'["origin"] = taken["origin"] /\ Readable("origin")
            /\ taken["origin"] = arrived["origin"] /\ arrived["origin"] \in Nat
        BY <1>types, <1>2, <3>2 DEF KeptTypes
      <4>2. link["origin"] \in {"shut", "reset"}
        BY ONLY <4>1 DEF Readable, Left
      <4>. QED  BY <1>1, <4>1, <4>2
    <3>. QED  BY <3>1, <3>2
  <2>2. \A q \in revents'.hup : link'[q] = "reset"
    BY <1>1 DEF IInv, TunnelEnded
  <2>3. pc' \notin {"finish", "ended"}
    BY <1>1
  <2>. QED  BY ONLY <2>1, <2>2, <2>3 DEF TunnelEnded, Left
<1>. QED
  BY <1>Where, <1>OriginGets, <1>LoopFlags, <1>ClientGets, <1>HeaderReceived, <1>BodyKept,
     <1>LoopEnded, <1>TunnelEnded DEF Kept

\* What the tunnel has received has been passed on, or cannot be.
LEMMA PassOnKeeps ==
  ASSUME IInv, NEW p \in Peers, PassOn(p), ~ SendSome(Other(p)), UNCHANGED exchange
  PROVE  Kept'
<1>. USE DEF exchange, tunnel, header, framing, body, peers, Goto, Error, IsTunnel,
     ExchangeLocations, TunnelLocations, Left, Peers
<1>types. KeptTypes
  BY KeptTypesHold
<1>1. /\ pc = Passing(p) /\ pc' = After(p)
      /\ UNCHANGED <<link, arrived, taken, given, request, message, early,
                     revents, request_str, response_str, response_buffer, buf,
                     content_length, is_chunked, body_received, stored>>
  BY DEF PassOn, streams
<1>2. IsTunnel
  BY <1>1 DEF IInv, Where, Passing
<1>3. \/ /\ out = <<>> /\ closed' = closed /\ dropped' = dropped
      \/ /\ closed' = closed \cup {Other(p)} /\ dropped' = dropped \cup {Other(p)}
  BY DEF PassOn, MarkClosed
<1>4. p = "client" => /\ pc = "to origin" /\ pc' = "origin" /\ Other(p) = "origin"
                      /\ closed = {} /\ dropped = {}
  BY <1>1 DEF Passing, After, Other, IInv, LoopFlags
<1>5. p = "origin" => pc = "to client" /\ pc' = "hangup" /\ Other(p) = "client"
  BY <1>1 DEF Passing, After, Other
<1>6. p \in {"client", "origin"}
  OBVIOUS
<1>7. out = <<>> => /\ p = "client" => early + Len(given["origin"]) = taken["client"]
                    /\ p = "origin" => Len(WithoutOwn(given["client"])) = taken["origin"]
  BY <1>4, <1>5, AllSent
<1>Where. Where'
  BY <1>1, <1>2, <1>4, <1>5, <1>6 DEF IInv, Where
<1>OriginGets. OriginGets'
  BY <1>1, <1>2, <1>3, <1>4, <1>5, <1>6, <1>7 DEF IInv, OriginGets
<1>LoopFlags. LoopFlags'
  BY <1>1, <1>2, <1>3, <1>4, <1>5, <1>6 DEF IInv, LoopFlags
<1>ClientGets. ClientGets'
  BY <1>1, <1>2, <1>3, <1>4, <1>5, <1>6, <1>7 DEF IInv, ClientGets
<1>HeaderReceived. HeaderReceived'
  BY <1>1, <1>4, <1>5, <1>6 DEF IInv, HeaderReceived
<1>BodyKept. BodyKept'
  BY <1>1, <1>4, <1>5, <1>6 DEF IInv, BodyKept
<1>LoopEnded. LoopEnded'
  BY <1>1, <1>4, <1>5, <1>6 DEF IInv, LoopEnded
<1>TunnelEnded. TunnelEnded'
  BY <1>1, <1>3, <1>4, <1>5, <1>6 DEF IInv, TunnelEnded
<1>. QED
  BY <1>Where, <1>OriginGets, <1>LoopFlags, <1>ClientGets, <1>HeaderReceived, <1>BodyKept,
     <1>LoopEnded, <1>TunnelEnded DEF Kept

\* A peer sends, reads, ends its stream or breaks off.
LEMMA PeerStepKeeps ==
  ASSUME IInv, NEW p \in Peers, PeerStep(p), UNCHANGED <<pc, out, exchange, tunnel>>
  PROVE  Kept'
<1>. USE DEF exchange, tunnel, header, framing, body, peers, Goto, Error, IsTunnel,
     ExchangeLocations, TunnelLocations, Left, Peers
<1>types. KeptTypes
  BY KeptTypesHold
<1>1. UNCHANGED <<taken, given, request, message, pc, out, early, dropped, closed,
                  revents, request_str, response_str, response_buffer, buf,
                  content_length, is_chunked, body_received, stored>>
  BY DEF PeerStep, PeerSends, PeerReads, PeerShuts, PeerResets
<1>2. \A q \in Peers : /\ Left(q) => Left(q)' /\ arrived'[q] = arrived[q]
                       /\ link[q] = "reset" => link'[q] = "reset"
                       /\ link[q] = "none" <=> link'[q] = "none"
                       /\ link[q] = "none" => arrived'[q] = arrived[q]
  <2>1. CASE PeerSends(p)
    BY <1>types, <2>1 DEF PeerSends, KeptTypes
  <2>2. CASE PeerReads(p)
    BY <2>2 DEF PeerReads
  <2>3. CASE PeerShuts(p)
    BY <1>types, <2>3 DEF PeerShuts, KeptTypes
  <2>4. CASE PeerResets(p)
    BY <1>types, <2>4 DEF PeerResets, KeptTypes
  <2>. QED  BY <2>1, <2>2, <2>3, <2>4 DEF PeerStep
<1>Where. Where'
  BY <1>1, <1>2 DEF IInv, Where
<1>OriginGets. OriginGets'
  BY <1>1 DEF IInv, OriginGets
<1>LoopFlags. LoopFlags'
  BY <1>1 DEF IInv, LoopFlags
<1>ClientGets. ClientGets'
  BY <1>1 DEF IInv, ClientGets
<1>HeaderReceived. HeaderReceived'
  BY <1>1, <1>2 DEF IInv, HeaderReceived
<1>BodyKept. BodyKept'
  BY <1>1 DEF IInv, BodyKept, IsCacheable
<1>LoopEnded. LoopEnded'
  BY <1>1, <1>2 DEF IInv, LoopEnded, LengthReached, EndsInLastChunk
<1>TunnelEnded. TunnelEnded'
  BY <1>types, <1>1, <1>2, TunnelEndedKept DEF IInv
<1>. QED
  BY <1>Where, <1>OriginGets, <1>LoopFlags, <1>ClientGets, <1>HeaderReceived, <1>BodyKept,
     <1>LoopEnded, <1>TunnelEnded DEF Kept

\* A step that changes nothing.
LEMMA StutterKeeps ==
  ASSUME IInv, UNCHANGED vars
  PROVE  Kept'
<1>1. UNCHANGED <<request, message, link, arrived, taken, given, read, pc, out, early, dropped,
                  closed, revents, request_str, response_str, response_buffer, buf,
                  content_length, is_chunked, body_received, stored>>
  BY DEF vars, peers, streams, header, framing, body, tunnel
<1>2. /\ Where' /\ OriginGets' /\ LoopFlags' /\ ClientGets'
  <2>1. Where' /\ LoopFlags'
    BY <1>1 DEF IInv, Where, LoopFlags, IsTunnel
  <2>2. OriginGets'
    BY <1>1 DEF IInv, OriginGets, IsTunnel
  <2>3. ClientGets'
    BY <1>1 DEF IInv, ClientGets, IsTunnel
  <2>. QED  BY <2>1, <2>2, <2>3
<1>3. HeaderReceived' /\ BodyKept' /\ LoopEnded' /\ TunnelEnded'
  BY <1>1 DEF IInv, HeaderReceived, BodyKept, LoopEnded, TunnelEnded, Left, IsTunnel,
              IsCacheable, LengthReached, EndsInLastChunk
<1>. QED  BY <1>2, <1>3 DEF Kept

-----------------------------------------------------------------------------
(* The invariant holds.                                                     *)

\* A send that takes something is neither done nor failed.
LEMMA SendSomeOnly ==
  ASSUME IInv, NEW p \in Peers, SendSome(p)
  PROVE  out # <<>> /\ ~ SendFails(p) /\ ~ SendFailsNow(p)
<1>1. StreamsTypeOK
  BY DEF IInv, TypeOK
<1>2. PICK n \in 1 .. Len(out) : n <= Room(p)
  BY <1>1, SendSomeParts
<1>3. Len(out) \in Nat /\ (out = <<>> <=> Len(out) = 0)
  BY KeptTypesHold DEF KeptTypes
<1>4. out # <<>>
  BY <1>2, <1>3
<1>5. Room(p) # 0
  BY <1>2
<1>. QED  BY <1>4, <1>5 DEF SendFails, SendFailsNow, SendSome

\* Every step keeps the invariant, action by action.
LEMMA NextKept == IInv /\ [Next]_vars => Kept'
<1> SUFFICES ASSUME IInv, [Next]_vars PROVE Kept'
  OBVIOUS
<1>0. "client" \in Peers /\ "origin" \in Peers /\ Other("origin") = "client"
      /\ Other("client") = "origin"
  BY DEF Peers, Other
<1>1. CASE ReceiveRequest
  BY <1>1, ReceiveRequestKeeps
<1>2. CASE SendError
  <2>1. CASE SendSome("client")
    <3>1. pc = "error" /\ UNCHANGED <<peers, pc, exchange, tunnel>>
      BY <1>0, <1>2, <2>1, SendSomeOnly DEF SendError
    <3>. QED  BY <2>1, <3>1, SaysToClientKeeps
  <2>. QED  BY <1>2, <2>1, SendErrorKeeps
<1>3. CASE Finish
  BY <1>3, FinishKeeps
<1>4. CASE Forward /\ UNCHANGED tunnel
  BY <1>4, ForwardKeeps
<1>5. CASE SendRequest /\ UNCHANGED tunnel
  <2>1. CASE SendSome("origin")
    <3>1. pc = "request" /\ UNCHANGED <<peers, pc, exchange, tunnel>>
      BY <1>0, <1>5, <2>1, SendSomeOnly DEF SendRequest, Goto, exchange
    <3>. QED  BY <2>1, <3>1, SendsToOriginKeeps
  <2>. QED  BY <1>5, <2>1, SendRequestKeeps
<1>6. CASE ReceiveHeader /\ UNCHANGED tunnel
  BY <1>6, ReceiveHeaderKeeps
<1>7. CASE RelayHeader /\ UNCHANGED tunnel
  <2>1. CASE SendSome("client")
    <3>1. pc = "relay" /\ UNCHANGED <<peers, pc, exchange, tunnel>>
      BY <1>0, <1>7, <2>1, SendSomeOnly DEF RelayHeader, Goto, exchange
    <3>. QED  BY <2>1, <3>1, SendsToClientKeeps
  <2>. QED  BY <1>7, <2>1, RelayHeaderKeeps
<1>8. CASE ParseFraming /\ UNCHANGED tunnel
  BY <1>8, ParseFramingKeeps
<1>9. CASE ReceiveBody /\ UNCHANGED tunnel
  BY <1>9, ReceiveBodyKeeps
<1>10. CASE PassBody /\ UNCHANGED tunnel
  <2>1. CASE SendSome("client")
    <3>1. pc = "pass" /\ UNCHANGED <<peers, pc, exchange, tunnel>>
      BY <1>0, <1>10, <2>1, SendSomeOnly DEF PassBody, Goto, exchange
    <3>. QED  BY <2>1, <3>1, SendsToClientKeeps
  <2>. QED  BY <1>10, <2>1, PassBodyKeeps
<1>11. CASE Store /\ UNCHANGED tunnel
  BY <1>11, StoreKeeps
<1>12. CASE Dial /\ UNCHANGED exchange
  BY <1>12, DialKeeps
<1>13. CASE Establish /\ UNCHANGED exchange
  <2>1. CASE SendSome("client")
    <3>1. pc = "establish" /\ UNCHANGED <<peers, pc, exchange, tunnel>>
      BY <1>0, <1>13, <2>1, SendSomeOnly DEF Establish
    <3>. QED  BY <2>1, <3>1, SaysToClientKeeps
  <2>. QED  BY <1>13, <2>1, EstablishKeeps
<1>14. CASE Poll /\ UNCHANGED exchange
  BY <1>14, PollKeeps
<1>15. CASE CheckHangup /\ UNCHANGED exchange
  BY <1>15, CheckHangupKeeps
<1>16. ASSUME NEW p \in Peers, TakeFrom(p), UNCHANGED exchange PROVE Kept'
  <2>1. CASE p = "client"
    BY <1>16, <2>1, TakeFromClientKeeps
  <2>2. CASE p = "origin"
    BY <1>16, <2>2, TakeFromOriginKeeps
  <2>. QED  BY <2>1, <2>2 DEF Peers
<1>17. ASSUME NEW p \in Peers, PassOn(p), UNCHANGED exchange PROVE Kept'
  <2>1. CASE SendSome(Other(p))
    <3>0. out # <<>> /\ ~ SendFailsNow(Other(p))
      <4>1. Other(p) \in Peers
        BY DEF Other, Peers
      <4>. QED  BY <2>1, <4>1, SendSomeOnly
    <3>1. pc = Passing(p) /\ UNCHANGED <<peers, pc, exchange, tunnel>>
      BY <1>17, <3>0 DEF PassOn, tunnel
    <3>2. CASE p = "client"
      <4>1. pc = "to origin" /\ SendSome("origin")
        BY <1>0, <2>1, <3>1, <3>2 DEF Passing
      <4>. QED  BY <3>1, <4>1, SendsToOriginKeeps
    <3>3. CASE p = "origin"
      <4>1. pc = "to client" /\ SendSome("client")
        BY <1>0, <2>1, <3>1, <3>3 DEF Passing
      <4>. QED  BY <3>1, <4>1, SendsToClientKeeps
    <3>. QED  BY <3>2, <3>3 DEF Peers
  <2>. QED  BY <1>17, <2>1, PassOnKeeps
<1>18. CASE Environment
  <2>1. ASSUME NEW p \in Peers, PeerStep(p), UNCHANGED <<pc, out, exchange, tunnel>>
        PROVE  Kept'
    BY <2>1, PeerStepKeeps
  <2>2. CASE PollFails /\ UNCHANGED exchange
    BY <2>2, PollFailsKeeps
  <2>3. CASE UNCHANGED vars
    BY <2>3, StutterKeeps
  <2>. QED  BY <1>18, <2>1, <2>2, <2>3 DEF Environment
<1>19. CASE UNCHANGED vars
  BY <1>19, StutterKeeps
<1>. QED
  BY <1>1, <1>2, <1>3, <1>4, <1>5, <1>6, <1>7, <1>8, <1>9, <1>10, <1>11, <1>12, <1>13,
     <1>14, <1>15, <1>16, <1>17, <1>18, <1>19
  DEF Next, ThreadStep, ExchangeStep, TunnelStep

\* The invariant is inductive: steps keep it, and it holds at first.
LEMMA NextIInv == IInv /\ [Next]_vars => IInv'
BY NextTypeOK, NextKept DEF IInv, Kept

\* The invariant holds of a connection that was just accepted.
LEMMA InitIInv == Init => IInv
<1> SUFFICES ASSUME Init PROVE IInv
  OBVIOUS
<1>1. /\ <<request, message>> \in Encounters
      /\ link = [p \in Peers |-> IF p = "client" THEN "open" ELSE "none"]
      /\ arrived = [p \in Peers |-> 0] /\ taken = [p \in Peers |-> 0]
      /\ given = [p \in Peers |-> <<>>] /\ read = [p \in Peers |-> 0]
      /\ out = <<>> /\ pc = "recv"
      /\ request_str = <<>> /\ response_str = <<>> /\ response_buffer = <<>> /\ buf = <<>>
      /\ body_received = 0 /\ content_length = 0 /\ is_chunked = FALSE /\ stored = NotStored
      /\ revents = NoEvents /\ closed = {} /\ early = 0 /\ dropped = {}
  <2>1. <<request, message>> \in Encounters
    <3>1. PICK e \in Encounters : request = e[1] /\ message = e[2]
      BY DEF Init, StreamsInit
    <3>2. e = <<e[1], e[2]>>
      BY <3>1, StreamsAssumption
    <3>. QED  BY <3>1, <3>2
  <2>. QED  BY <2>1 DEF Init, StreamsInit, ExchangeInit, TunnelInit
<1>2. request.wire \in Seq(Units) /\ message.wire \in Seq(Units)
  <2>1. /\ <<request, message>>[1].wire \in Seq(Units)
        /\ <<request, message>>[2].wire \in Seq(Units)
    BY <1>1, StreamsAssumption
  <2>. QED  BY <2>1
<1>3. \A p \in Peers : /\ Wire(p) \in Seq(Units) /\ Len(Wire(p)) \in Nat
                       /\ given[p] = <<>> /\ Len(given[p]) = 0
  BY <1>1, <1>2, EmptySeq, LenProperties DEF Wire
<1>4. TypeOK
  <2>1. /\ \A p \in Peers : Room(p) = MaxSend
        /\ MaxSend \in 0 .. MaxSend /\ 0 \in 0 .. MaxRecv /\ 0 \in 0 .. SizeMax
    BY <1>1, <1>3, StreamsAssumption, ExchangeAssumption DEF Room
  <2>2. StreamsTypeOK
    BY <1>1, <1>3, <2>1, EmptySeq DEF StreamsTypeOK
  <2>3. LocalsOK
    BY <1>1, <2>1, EmptySeq DEF LocalsOK, Locations, NoEvents
  <2>. QED  BY <2>2, <2>3, TypesSplit
<1>5. /\ WithoutOwn(<<>>) = <<>> /\ Len(<<>>) = 0
      /\ Follows(<<>>, request.wire, 0) /\ Follows(<<>>, message.wire, 0)
  <2>1. Len(request.wire) \in Nat /\ Len(message.wire) \in Nat
    BY <1>2, LenProperties
  <2>. QED  BY <1>2, <2>1, NothingPassed, NothingFollows, EmptySeq
<1>. USE DEF Peers
<1>6. Where
  BY <1>1 DEF Where, ExchangeLocations, TunnelLocations
<1>7. OriginGets
  BY <1>1, <1>5 DEF OriginGets
<1>8. LoopFlags
  BY <1>1 DEF LoopFlags
<1>9. ClientGets
  BY <1>1, <1>5 DEF ClientGets
<1>10. HeaderReceived
  BY <1>1, <1>5 DEF HeaderReceived
<1>11. BodyKept
  BY <1>1 DEF BodyKept
<1>12. LoopEnded
  BY <1>1 DEF LoopEnded
<1>13. TunnelEnded
  BY <1>1 DEF TunnelEnded, NoEvents
<1>. QED  BY <1>4, <1>6, <1>7, <1>8, <1>9, <1>10, <1>11, <1>12, <1>13 DEF IInv

\* What holds in every state of a connection: where the thread is, what each
\* side has been given of the other's stream, what is kept for the cache, and
\* why each of the loops has ended.
THEOREM InductiveInvariant == Spec => []IInv
<1>. QED  BY InitIInv, NextIInv, PTL DEF Spec

\* The variables keep their types, no more is received than has arrived and no
\* more is in the kernel than it takes: TypeOK holds in every state.
THEOREM TypeCorrect == Spec => []TypeOK
<1>1. IInv => TypeOK
  BY DEF IInv
<1>. QED  BY <1>1, InductiveInvariant, PTL

\* What is stored is exactly the body that the client was given, the part that
\* came with the header and every recv after it: CachedIsForwarded holds in
\* every state.
THEOREM CachedForwarded == Spec => []CachedIsForwarded
<1>1. IInv => CachedIsForwarded
  <2> SUFFICES ASSUME IInv, stored # NotStored
               PROVE  IsSuffix(<<"blank">> \o stored, Passed("client"))
    BY DEF CachedIsForwarded
  <2>. DEFINE g == WithoutOwn(given["client"])
              k == BlankAt(response_str)
              s == <<"blank">> \o stored
  <2>1. /\ g \in Seq(Words) /\ Len(g) \in Nat /\ response_str \in Seq(Units)
        /\ Len(response_str) \in Nat
    BY KeptTypesHold, PassedType DEF KeptTypes, Peers
  <2>2. /\ Follows(g, message.wire, 0) /\ Follows(response_str, message.wire, 0)
        /\ Follows(stored, message.wire, k) /\ k + Len(stored) = Len(g)
        /\ "blank" \in ToSet(response_str) /\ stored \in Seq(Units)
    BY DEF IInv, ClientGets, HeaderReceived, BodyKept
  <2>3. k \in 1 .. Len(response_str) /\ response_str[k] = "blank"
    BY <2>1, <2>2, BlankPlace
  <2>4. /\ Len(stored) \in Nat
        /\ \A i \in 1 .. Len(stored) : stored[i] = message.wire[k + i]
        /\ \A i \in 1 .. Len(g) : g[i] = message.wire[0 + i]
        /\ \A i \in 1 .. Len(response_str) : response_str[i] = message.wire[0 + i]
    BY <2>2, LenProperties DEF Follows
  <2>5. /\ s \in Seq(Units \cup {"blank"}) /\ Len(s) = 1 + Len(stored)
        /\ s[1] = "blank" /\ \A i \in 1 .. Len(stored) : s[1 + i] = stored[i]
    <3>1. <<"blank">> \in Seq(Units \cup {"blank"}) /\ Len(<<"blank">>) = 1
          /\ <<"blank">>[1] = "blank" /\ 1 \in 1 .. 1
      OBVIOUS
    <3>2. stored \in Seq(Units \cup {"blank"})
      BY <2>2
    <3>. DEFINE b == <<"blank">>
    <3>. HIDE DEF b
    <3>3. /\ b \o stored \in Seq(Units \cup {"blank"})
          /\ Len(b \o stored) = Len(b) + Len(stored)
          /\ \A i \in 1 .. Len(b) : (b \o stored)[i] = b[i]
          /\ \A i \in 1 .. Len(stored) : (b \o stored)[Len(b) + i] = stored[i]
      BY <3>1, <3>2, Joined DEF b
    <3>. QED  BY <3>1, <3>3 DEF b
  <2>. HIDE DEF g, k, s
  <2>6. Len(s) <= Len(g) /\ Len(s) \in Nat
    BY <2>1, <2>2, <2>3, <2>4, <2>5
  <2>7. ASSUME NEW i \in 1 .. Len(s)
        PROVE  s[Len(s) - i + 1] = g[Len(g) - i + 1]
    <3>. DEFINE j == Len(s) - i
    <3>1. j \in 0 .. Len(stored) /\ Len(s) - i + 1 = 1 + j /\ Len(g) - i + 1 = k + j
          /\ k + j \in 1 .. Len(g)
      <4>1. /\ Len(s) = 1 + Len(stored) /\ Len(stored) \in Nat /\ k + Len(stored) = Len(g)
            /\ k \in Nat /\ k # 0
        BY <2>1, <2>2, <2>3, <2>4, <2>5
      <4>. QED  BY ONLY <4>1, i \in 1 .. Len(s)
    <3>. HIDE DEF j
    <3>2. g[k + j] = message.wire[k + j]
      <4>1. 0 + (k + j) = k + j
        BY <2>3, <3>1
      <4>. QED  BY <2>4, <3>1, <4>1
    <3>3. CASE j = 0
      <4>1. k + j = k /\ 0 + k = k /\ 1 + j = 1
        BY <2>3, <3>3
      <4>2. response_str[k] = message.wire[0 + k]
        BY <2>3, <2>4
      <4>. QED  BY <2>3, <2>5, <3>1, <3>2, <4>1, <4>2
    <3>4. CASE j # 0
      <4>1. j \in 1 .. Len(stored)
        BY <2>4, <3>1, <3>4
      <4>2. s[1 + j] = stored[j] /\ stored[j] = message.wire[k + j]
        BY <2>4, <2>5, <4>1
      <4>. QED  BY <3>1, <3>2, <4>2
    <3>. QED  BY <3>3, <3>4
  <2>8. IsSuffix(s, g)
    <3>1. Len(Reverse(s)) = Len(s) /\ Len(Reverse(g)) = Len(g)
      BY <2>1, <2>6 DEF Reverse
    <3>2. SubSeq(Reverse(s), 1, Len(s)) = SubSeq(Reverse(g), 1, Len(s))
      <4>1. /\ Reverse(s) = [i \in 1 .. Len(s) |-> s[(Len(s) - i) + 1]]
            /\ Reverse(g) = [i \in 1 .. Len(g) |-> g[(Len(g) - i) + 1]]
        BY DEF Reverse
      <4>2. Reverse(s) \in Seq(Units \cup {"blank"}) /\ Reverse(g) \in Seq(Words)
        BY <2>1, <2>5, <2>6, <4>1, ElementOfSeq
      <4>3. /\ SubSeq(Reverse(s), 1, Len(s)) \in Seq(Units \cup {"blank"})
            /\ Len(SubSeq(Reverse(s), 1, Len(s))) = Len(s)
            /\ \A i \in 1 .. Len(s) : SubSeq(Reverse(s), 1, Len(s))[i] = Reverse(s)[i]
        BY <2>6, <3>1, <4>2, PartOf
      <4>4. /\ SubSeq(Reverse(g), 1, Len(s)) \in Seq(Words)
            /\ Len(SubSeq(Reverse(g), 1, Len(s))) = Len(s)
            /\ \A i \in 1 .. Len(s) : SubSeq(Reverse(g), 1, Len(s))[i] = Reverse(g)[i]
        BY <2>1, <2>6, <3>1, <4>2, PartOf
      <4>5. ASSUME NEW i \in 1 .. Len(s) PROVE Reverse(s)[i] = Reverse(g)[i]
        <5>1. i \in 1 .. Len(g)
          BY <2>1, <2>6
        <5>. QED  BY <2>7, <4>1, <5>1
      <4>. HIDE DEF Reverse
      <4>. QED  BY <4>3, <4>4, <4>5, SameUnits
    <3>. QED  BY <2>6, <3>1, <3>2 DEF IsSuffix, IsPrefix
  <2>. QED  BY <2>8 DEF Passed, g, s
<1>. QED  BY <1>1, InductiveInvariant, PTL

-----------------------------------------------------------------------------
(* What the invariant says.                                                 *)

\* What follows in a stream up to a place is that part of it.
LEMMA FollowsUpTo ==
  ASSUME NEW S, NEW wire \in Seq(S), NEW T, NEW s \in Seq(T), NEW k \in Nat,
         NEW n \in k .. Len(wire), Follows(s, wire, k), k + Len(s) = n
  PROVE  s = SubSeq(wire, k + 1, n)
<1>1. k + Len(s) <= n
  BY LenProperties
<1>. QED  BY <1>1, FollowsPrefix

\* The body loop ends by itself, with the origin still there, only if the
\* client has the whole response; content that looks like a last chunk apart,
\* and content that came with a header without Content-Length and reads like
\* one: StopsOnlyWhenComplete holds in every state.
THEOREM StopsWhenComplete == Spec => []StopsOnlyWhenComplete
<1>1. IInv => StopsOnlyWhenComplete
  <2> SUFFICES ASSUME IInv, pc = "store", ~ Left("origin"), "zero" \notin ToSet(message.wire),
                      "length" \in ToSet(BodyPart) => FramedByLength(message.wire)
               PROVE  WithoutOwn(given["client"]) = message.wire
    BY DEF StopsOnlyWhenComplete, Passed
  <2>. DEFINE g == WithoutOwn(given["client"])
              wire == message.wire
              k == BlankAt(response_str)
  <2>1. /\ g \in Seq(Words) /\ Len(g) \in Nat /\ wire \in Seq(Units) /\ Len(wire) \in Nat
        /\ DOMAIN wire = 1 .. Len(wire) /\ response_str \in Seq(Units)
        /\ Len(response_str) \in Nat /\ body_received \in Nat
        /\ buf \in Seq(Units) /\ Len(buf) \in Nat /\ taken["origin"] \in Nat
    BY KeptTypesHold, PassedType, LenProperties DEF KeptTypes, Peers
  <2>2. /\ Follows(g, wire, 0) /\ Len(g) = taken["origin"]
        /\ Follows(response_str, wire, 0) /\ "blank" \in ToSet(response_str)
        /\ k + body_received + 0 = taken["origin"]
    BY DEF IInv, ClientGets, HeaderReceived, BodyKept
  <2>3. request.method # "CONNECT"
    BY DEF IInv, Where, IsTunnel, ExchangeLocations
  <2>4. /\ FramedByLength(wire) => Len(Behind(wire)) <= message.length % (SizeMax + 1)
        /\ \A i \in DOMAIN wire : wire[i] = "last" => i = Len(wire) - 1
    <3>1. <<request, message>> \in Encounters
      BY DEF IInv, TypeOK, StreamsTypeOK
    <3>. DEFINE e == <<request, message>>
    <3>2. e[1] = request /\ e[2] = message
      OBVIOUS
    <3>. HIDE DEF e
    <3>3. LET w == e[2].wire
          IN  e[1].method # "CONNECT" =>
                /\ FramedByLength(w) => Len(Behind(w)) <= e[2].length % (SizeMax + 1)
                /\ \A i \in DOMAIN w : w[i] = "last" => i = Len(w) - 1
      BY <3>1, ExchangeAssumption DEF e
    <3>. QED  BY <2>3, <3>2, <3>3
  <2>5. /\ Len(g) <= Len(wire) /\ \A i \in 1 .. Len(g) : g[i] = wire[i]
    <3>1. 0 + Len(g) <= Len(wire) /\ \A i \in 1 .. Len(g) : g[i] = wire[0 + i]
      BY <2>2 DEF Follows
    <3>2. \A i \in 1 .. Len(g) : 0 + i = i
      BY <2>1
    <3>. HIDE DEF g, wire
    <3>. QED  BY <2>1, <3>1, <3>2
  <2>6. "blank" \in ToSet(wire) /\ BlankAt(wire) = k
    BY <2>1, <2>2, BlankOfBeginning
  <2>7. k \in 1 .. Len(response_str)
    BY <2>1, <2>2, BlankPlace
  <2>8. Len(Behind(wire)) = Len(wire) - k
    <3>1. \A i \in 1 .. Len(wire) : 0 + i = i
      BY <2>1
    <3>2. Follows(wire, wire, 0)
      BY <2>1, <3>1 DEF Follows
    <3>3. Len(Behind(wire)) = Len(wire) - BlankAt(wire)
      BY <2>1, <2>6, <3>2, BehindFollows
    <3>. QED  BY <2>6, <3>3
  <2>9. \/ LengthReached(body_received)
        \/ /\ EndsInLastChunk
           /\ Len(buf) <= taken["origin"]
           /\ Follows(buf, wire, taken["origin"] - Len(buf))
    BY DEF IInv, LoopEnded
  <2>10. Len(g) = Len(wire)
    <3>1. CASE LengthReached(body_received)
      <4>1. content_length > 0 /\ body_received >= content_length
        BY <3>1 DEF LengthReached
      <4>2. /\ "length" \in ToSet(response_str)
            /\ content_length = message.length % (SizeMax + 1)
        BY <4>1 DEF IInv, LoopEnded
      <4>3. FramedByLength(wire)
        <5>1. PICK i \in 1 .. Len(response_str) : response_str[i] = "length"
          BY <2>1, <4>2, LenProperties DEF ToSet
        <5>2. wire[i] = "length"
          <6>1. response_str[i] = wire[0 + i] /\ 0 + i = i
            BY <2>1, <2>2 DEF Follows
          <6>. QED  BY <5>1, <6>1
        <5>3. CASE i <= k
          <6>1. i \in 1 .. BlankAt(wire)
            <7>. HIDE DEF k, wire
            <7>. QED  BY <2>1, <2>6, <2>7, <5>3
          <6>. QED  BY <5>2, <6>1 DEF FramedByLength
        <5>4. CASE ~ (i <= k)
          <6>1. /\ BodyPart \in Seq(Units) /\ Len(BodyPart) = Len(response_str) - k
                /\ Follows(BodyPart, wire, k)
            BY <2>1, <2>2, BehindFollows DEF BodyPart
          <6>2. /\ i - k \in 1 .. Len(BodyPart) /\ k + (i - k) = i
                /\ DOMAIN BodyPart = 1 .. Len(BodyPart)
            <7>1. DOMAIN BodyPart = 1 .. Len(BodyPart)
              BY <6>1, LenProperties
            <7>. HIDE DEF k, wire
            <7>. QED  BY <2>1, <2>7, <5>4, <6>1, <7>1
          <6>3. BodyPart[i - k] = "length"
            <7>1. BodyPart[i - k] = wire[k + (i - k)]
              BY <6>1, <6>2 DEF Follows
            <7>. QED  BY <5>2, <6>2, <7>1
          <6>4. "length" \in ToSet(BodyPart)
            BY <6>2, <6>3 DEF ToSet
          <6>. QED  BY <6>4
        <5>. QED  BY <5>3, <5>4
      <4>4. content_length \in Nat
        BY ExchangeAssumption DEF IInv, TypeOK
      <4>5. Len(wire) - k <= content_length
        BY <2>4, <2>8, <4>2, <4>3
      <4>. HIDE DEF g, wire, k
      <4>. QED  BY ONLY <2>1, <2>2, <2>5, <2>7, <4>1, <4>4, <4>5
    <3>2. CASE /\ EndsInLastChunk
               /\ Len(buf) <= taken["origin"]
               /\ Follows(buf, wire, taken["origin"] - Len(buf))
      <4>. DEFINE n == Len(buf)
                  at == taken["origin"] - n
      <4>1. n >= 2 /\ buf[n - 1] \in {"last", "zero"}
        BY <3>2 DEF EndsInLastChunk
      <4>2. at \in Nat /\ n - 1 \in 1 .. n /\ at + (n - 1) = taken["origin"] - 1
        <5>1. n \in Nat /\ taken["origin"] \in Nat /\ n <= taken["origin"]
          BY <2>1, <3>2
        <5>. HIDE DEF n
        <5>. QED  BY ONLY <4>1, <5>1
      <4>3. buf[n - 1] = wire[at + (n - 1)]
        BY <3>2, <4>2 DEF Follows
      <4>4. taken["origin"] - 1 \in DOMAIN wire
        <5>. HIDE DEF g, wire
        <5>1. taken["origin"] - 1 \in 1 .. Len(wire)
          BY <2>1, <2>2, <2>5, <3>2, <4>1
        <5>. QED  BY <2>1, <5>1
      <4>5. wire[taken["origin"] - 1] \in {"last", "zero"}
        BY <4>1, <4>2, <4>3
      <4>6. wire[taken["origin"] - 1] # "zero"
        BY <4>4 DEF ToSet
      <4>7. taken["origin"] - 1 = Len(wire) - 1
        BY <2>4, <4>4, <4>5, <4>6
      <4>. HIDE DEF g, wire
      <4>. QED  BY <2>1, <2>2, <4>7
    <3>. QED  BY <2>9, <3>1, <3>2
  <2>. HIDE DEF g, wire
  <2>11. g = wire
    BY <2>1, <2>5, <2>10, SameUnits
  <2>. QED  BY <2>11 DEF g, wire
<1>. QED  BY <1>1, InductiveInvariant, PTL

\* What the origin of a tunnel has been given, and the client of either, in
\* terms of the streams.
Handed ==
  /\ Passed("origin") = given["origin"] /\ given["origin"] \in Seq(Units)
  /\ Len(given["origin"]) \in Nat /\ early \in Nat
  /\ request.wire \in Seq(Units) /\ Len(request.wire) \in Nat
  /\ arrived["client"] \in early .. Len(request.wire)
  /\ early + Len(given["origin"]) <= arrived["client"]
  /\ Follows(given["origin"], request.wire, early)
  /\ Passed("client") \in Seq(Words) /\ Len(Passed("client")) \in Nat
  /\ message.wire \in Seq(Units) /\ Len(message.wire) \in Nat
  /\ arrived["origin"] \in 0 .. Len(message.wire)
  /\ Len(Passed("client")) <= arrived["origin"]
  /\ Follows(Passed("client"), message.wire, 0)

\* All of that follows from the invariant.
LEMMA HandedOn == IInv => Handed
<1> SUFFICES ASSUME IInv PROVE Handed
  OBVIOUS
<1>1. /\ given["origin"] \in Seq(Words) /\ Len(given["origin"]) \in Nat /\ early \in Nat
      /\ request.wire \in Seq(Units) /\ message.wire \in Seq(Units)
      /\ given["client"] \in Seq(Words) /\ Len(WithoutOwn(given["client"])) \in Nat
      /\ taken["client"] \in Nat /\ taken["origin"] \in Nat
      /\ arrived["client"] \in Nat /\ arrived["origin"] \in Nat
      /\ taken["client"] <= arrived["client"] /\ taken["origin"] <= arrived["origin"]
      /\ arrived["client"] <= Len(request.wire) /\ arrived["origin"] <= Len(message.wire)
  BY KeptTypesHold DEF KeptTypes, Peers, Wire
<1>2. Len(request.wire) \in Nat /\ Len(message.wire) \in Nat
  BY <1>1, LenProperties
<1>3. /\ early + Len(given["origin"]) <= taken["client"]
      /\ Follows(given["origin"], request.wire, early)
      /\ Len(WithoutOwn(given["client"])) <= taken["origin"]
      /\ Follows(WithoutOwn(given["client"]), message.wire, 0)
  BY DEF IInv, OriginGets, ClientGets
<1>4. /\ given["origin"] \in Seq(Units)
      /\ \A i \in 1 .. Len(given["origin"]) : given["origin"][i] \notin Statuses
  BY <1>1, <1>3, FollowsUnits
<1>5. Passed("origin") = given["origin"]
  BY <1>4, AllPassed DEF Passed
<1>6. Passed("client") \in Seq(Words) /\ Len(Passed("client")) \in Nat
  BY <1>1, PassedType DEF Passed
<1>7. /\ arrived["client"] \in early .. Len(request.wire)
      /\ early + Len(given["origin"]) <= arrived["client"]
      /\ arrived["origin"] \in 0 .. Len(message.wire)
  BY <1>1, <1>2, <1>3
<1>8. Len(Passed("client")) <= arrived["origin"] /\ Follows(Passed("client"), message.wire, 0)
  <2>1. Passed("client") = WithoutOwn(given["client"])
    BY DEF Passed
  <2>2. Len(WithoutOwn(given["client"])) <= arrived["origin"]
    BY <1>1, <1>3
  <2>. QED  BY <1>3, <2>1, <2>2
<1>. QED  BY <1>1, <1>2, <1>3, <1>4, <1>5, <1>6, <1>7, <1>8 DEF Handed

\* If a tunnel ends because one side closed, all that this side had sent before
\* was handed to the other: ClosingSideDelivered holds in every state.
THEOREM ClosedIsDelivered == Spec => []ClosingSideDelivered
<1>1. IInv => ClosingSideDelivered
  <2> SUFFICES ASSUME IInv, request.method = "CONNECT", pc = "ended", link["origin"] # "none",
                      "reset" \notin {link[p] : p \in Peers}, dropped = {}, ~ revents.failed
               PROVE  \/ link["client"] = "shut" /\ Passed("origin") = SentByClient
                      \/ link["origin"] = "shut" /\ Passed("client") = SentByOrigin
    BY DEF ClosingSideDelivered
  <2>1. closed # {}
    BY DEF IInv, TunnelEnded, IsTunnel
  <2>2. PICK p \in Peers : /\ p \in closed /\ link[p] \in {"shut", "reset"}
                          /\ taken[p] = arrived[p]
    BY <2>1, KeptTypesHold DEF IInv, TunnelEnded, Left, KeptTypes
  <2>3. link[p] = "shut"
    BY <2>2
  <2>4. CASE p = "client"
    <3>1. early + Len(given["origin"]) = arrived["client"]
      BY <2>2, <2>4 DEF IInv, OriginGets, IsTunnel
    <3>2. given["origin"] = SubSeq(request.wire, early + 1, arrived["client"])
      <4>1. /\ given["origin"] \in Seq(Units) /\ early \in Nat
            /\ request.wire \in Seq(Units)
            /\ arrived["client"] \in early .. Len(request.wire)
            /\ Follows(given["origin"], request.wire, early)
            /\ early + Len(given["origin"]) <= arrived["client"]
        BY HandedOn DEF Handed
      <4>. QED  BY <3>1, <4>1, FollowsUpTo
    <3>3. Begun
      <4>1. early # 0 /\ early \in Nat
        BY HandedOn DEF Handed, IInv, Where, IsTunnel
      <4>2. early > 0
        BY ONLY <4>1
      <4>. QED  BY <4>2 DEF Begun
    <3>. QED  BY <2>3, <2>4, <3>2, <3>3, HandedOn DEF Handed, SentByClient
  <2>5. CASE p = "origin"
    <3>1. Len(Passed("client")) = arrived["origin"]
      BY <2>2, <2>5 DEF IInv, ClientGets, IsTunnel, Passed
    <3>2. Passed("client") = SubSeq(message.wire, 0 + 1, arrived["origin"])
      <4>1. /\ Passed("client") \in Seq(Words) /\ message.wire \in Seq(Units)
            /\ arrived["origin"] \in 0 .. Len(message.wire)
            /\ Follows(Passed("client"), message.wire, 0)
            /\ Len(Passed("client")) \in Nat
        BY HandedOn DEF Handed
      <4>2. 0 + Len(Passed("client")) = arrived["origin"] /\ 0 \in Nat
        BY <3>1, <4>1
      <4>. QED  BY <4>1, <4>2, FollowsUpTo
    <3>. QED  BY <2>3, <2>5, <3>2 DEF SentByOrigin
  <2>. QED  BY <2>4, <2>5 DEF Peers
<1>. QED  BY <1>1, InductiveInvariant, PTL

-----------------------------------------------------------------------------
(* Both directions implement Pipe.                                          *)

\* One beginning of a stream is a prefix of a longer one.
LEMMA BeginningsPrefix ==
  ASSUME NEW S, NEW wire \in Seq(S), NEW T, NEW s \in Seq(T), NEW U, NEW t \in Seq(U),
         NEW k \in Nat, Follows(s, wire, k), Follows(t, wire, k), Len(s) <= Len(t)
  PROVE  IsPrefix(s, t) /\ (Len(s) = Len(t) => s = t) /\ (Len(s) # Len(t) => s # t)
<1>1. Len(s) \in Nat /\ Len(t) \in Nat
  BY LenProperties
<1>2. \A i \in 1 .. Len(s) : s[i] = t[i]
  <2>1. \A i \in 1 .. Len(s) : i \in 1 .. Len(t)
    BY <1>1
  <2>. QED  BY <2>1 DEF Follows
<1>3. /\ SubSeq(s, 1, Len(s)) \in Seq(T) /\ Len(SubSeq(s, 1, Len(s))) = Len(s)
      /\ \A i \in 1 .. Len(s) : SubSeq(s, 1, Len(s))[i] = s[i]
  BY <1>1, PartOf
<1>4. /\ SubSeq(t, 1, Len(s)) \in Seq(U) /\ Len(SubSeq(t, 1, Len(s))) = Len(s)
      /\ \A i \in 1 .. Len(s) : SubSeq(t, 1, Len(s))[i] = t[i]
  BY <1>1, PartOf
<1>5. SubSeq(s, 1, Len(s)) = SubSeq(t, 1, Len(s))
  BY <1>2, <1>3, <1>4, SameUnits
<1>6. IsPrefix(s, t)
  BY <1>5 DEF IsPrefix
<1>7. Len(s) = Len(t) => s = t
  BY <1>2, SameUnits
<1>. QED  BY <1>6, <1>7

\* A part of a stream follows in it.
LEMMA PartFollows ==
  ASSUME NEW S, NEW wire \in Seq(S), NEW k \in Nat, NEW n \in k .. Len(wire)
  PROVE  /\ SubSeq(wire, k + 1, n) \in Seq(S) /\ Len(SubSeq(wire, k + 1, n)) = n - k
         /\ Follows(SubSeq(wire, k + 1, n), wire, k)
<1>. DEFINE part == SubSeq(wire, k + 1, n)
<1>1. Len(wire) \in Nat
  BY LenProperties
<1>2. /\ part \in Seq(S) /\ Len(part) = n - k
      /\ \A i \in 1 .. n - k : part[i] = wire[k + i]
  <2>1. k + 1 \in 1 .. Len(wire) + 1 /\ n \in (k + 1) - 1 .. Len(wire)
    BY <1>1
  <2>2. /\ part \in Seq(S) /\ Len(part) = n - (k + 1) + 1
        /\ \A i \in 1 .. n - (k + 1) + 1 : part[i] = wire[(k + 1) + i - 1]
    BY <2>1, PartOf
  <2>3. n - (k + 1) + 1 = n - k /\ \A i \in 1 .. n - k : (k + 1) + i - 1 = k + i
    BY <1>1
  <2>. HIDE DEF part
  <2>. QED  BY <2>2, <2>3
<1>3. k + (n - k) <= Len(wire)
  BY <1>1
<1>. HIDE DEF part
<1>4. Follows(part, wire, k)
  BY <1>2, <1>3 DEF Follows
<1>. QED  BY <1>2, <1>4 DEF part

\* What a step does to the two streams as their receivers see them: a peer
\* sends one unit, one send takes something, the first recv tells where a
\* tunnel begins, or the streams stay as they are.
PeerSendsOne ==
  \E p \in Peers :
    /\ arrived' = [arrived EXCEPT ![p] = @ + 1]
    /\ UNCHANGED <<pc, early, given>>

ThreadSends ==
  /\ \E p \in Peers : SendSome(p)
  /\ UNCHANGED <<pc, exchange, tunnel>>
  /\ pc # "ended"
  /\ SendSome("origin") => pc \in {"request", "to origin"}
  /\ SendSome("client") => pc \in {"relay", "pass", "to client", "establish", "error"}

FirstRecv ==
  /\ pc = "recv"
  /\ pc' = "ended" => early' = 0
  /\ ~ IsTunnel => early' = 0
  /\ early' \in Nat
  /\ UNCHANGED <<arrived, given>>

StaysAsItIs ==
  /\ UNCHANGED <<arrived, given, early>>
  /\ pc = "ended" => pc' = "ended"

\* Every step is one of these.
LEMMA StepKinds ==
  ASSUME IInv, [Next]_vars
  PROVE  /\ UNCHANGED peers
         /\ PeerSendsOne \/ ThreadSends \/ FirstRecv \/ StaysAsItIs
<1>. USE DEF streams, tunnel, Goto, Error
<1>0. /\ "client" \in Peers /\ "origin" \in Peers /\ \A p \in Peers : Other(p) \in Peers
      /\ \A p \in Peers : p = "client" \/ p = "origin"
  BY DEF Peers, Other
<1>1. UNCHANGED peers
  BY NextStreamsStep DEF StreamsStep
<1>send. ASSUME NEW p \in Peers, SendSome(p)
         PROVE  /\ out # <<>> /\ ~ SendFails(p) /\ ~ SendFailsNow(p)
                /\ \A q \in Peers : SendSome(q) => q = p
  <2>1. out # <<>> /\ ~ SendFails(p) /\ ~ SendFailsNow(p)
    BY <1>send, SendSomeOnly
  <2>2. ASSUME NEW q \in Peers, SendSome(q), q # p PROVE FALSE
    <3>1. given'[Other(p)] = given[Other(p)] /\ Other(p) = q
      BY <1>send, <2>2, TypesSplit, SendSomeParts DEF IInv, Other, Peers
    <3>2. PICK n \in 1 .. Len(out) : Len(given'[q]) = Len(given[q]) + n
      BY <2>2, TypesSplit, SendSomeParts DEF IInv
    <3>3. Len(given[q]) \in Nat /\ n \in 1 .. Len(out) /\ Len(out) \in Nat
      BY <3>2, KeptTypesHold DEF KeptTypes
    <3>4. Len(given[q]) = Len(given[q]) + n
      BY <3>1, <3>2
    <3>. QED  BY ONLY <3>3, <3>4
  <2>. QED  BY <2>1, <2>2
<1>. DEFINE Kinds == PeerSendsOne \/ ThreadSends \/ FirstRecv \/ StaysAsItIs
<1>2. CASE ReceiveRequest
  <2>1. early' \in Nat /\ (~ IsTunnel => early' = 0)
    BY <1>2, ClientReceived DEF ReceiveRequest, IsTunnel
  <2>2. pc' = "ended" => Received("client") = <<>>
    BY <1>2 DEF ReceiveRequest
  <2>3. pc' = "ended" => early' = 0
    BY <1>2, <2>2, EmptySeq DEF ReceiveRequest
  <2>4. pc = "recv" /\ UNCHANGED <<arrived, given>>
    BY <1>2 DEF ReceiveRequest, Recv
  <2>. QED  BY <1>1, <2>1, <2>3, <2>4 DEF FirstRecv
<1>3. CASE SendError
  BY <1>0, <1>3, <1>send DEF SendError, ThreadSends, StaysAsItIs
<1>4. CASE Finish
  BY <1>4 DEF Finish, StaysAsItIs
<1>5. CASE Forward /\ UNCHANGED tunnel
  BY <1>5 DEF Forward, Connected, StaysAsItIs
<1>6. CASE SendRequest /\ UNCHANGED tunnel
  BY <1>0, <1>6, <1>send DEF SendRequest, ThreadSends, StaysAsItIs, exchange
<1>7. CASE ReceiveHeader /\ UNCHANGED tunnel
  BY <1>7 DEF ReceiveHeader, Recv, StaysAsItIs
<1>8. CASE RelayHeader /\ UNCHANGED tunnel
  BY <1>0, <1>8, <1>send DEF RelayHeader, ThreadSends, StaysAsItIs, exchange
<1>9. CASE ParseFraming /\ UNCHANGED tunnel
  BY <1>9 DEF ParseFraming, StaysAsItIs
<1>10. CASE ReceiveBody /\ UNCHANGED tunnel
  BY <1>10 DEF ReceiveBody, Recv, StaysAsItIs
<1>11. CASE PassBody /\ UNCHANGED tunnel
  BY <1>0, <1>11, <1>send DEF PassBody, ThreadSends, StaysAsItIs, exchange
<1>12. CASE Store /\ UNCHANGED tunnel
  BY <1>12 DEF Store, StaysAsItIs
<1>13. CASE Dial /\ UNCHANGED exchange
  BY <1>13 DEF Dial, Connected, StaysAsItIs
<1>14. CASE Establish /\ UNCHANGED exchange
  BY <1>0, <1>14, <1>send DEF Establish, ThreadSends, StaysAsItIs
<1>15. CASE Poll /\ UNCHANGED exchange
  BY <1>15 DEF Poll, StaysAsItIs
<1>16. CASE CheckHangup /\ UNCHANGED exchange
  BY <1>16 DEF CheckHangup, StaysAsItIs
<1>17. ASSUME NEW p \in Peers, TakeFrom(p), UNCHANGED exchange PROVE StaysAsItIs
  BY <1>0, <1>17 DEF TakeFrom, Recv, StaysAsItIs
<1>18. ASSUME NEW p \in Peers, PassOn(p), UNCHANGED exchange
       PROVE  ThreadSends \/ StaysAsItIs
  <2>1. pc = Passing(p) /\ pc # "ended"
    BY <1>18 DEF PassOn, Passing
  <2>2. CASE SendSome(Other(p))
    <3>1. UNCHANGED <<pc, exchange, tunnel>>
      BY <1>0, <1>18, <1>send, <2>2 DEF PassOn
    <3>2. CASE p = "client"
      <4>1. pc = "to origin" /\ Other(p) = "origin" /\ "client" # "origin"
        BY <2>1, <3>2 DEF Passing, Other
      <4>2. ~ SendSome("client")
        BY <1>0, <1>send, <2>2, <4>1
      <4>. QED  BY <1>0, <2>1, <2>2, <3>1, <4>1, <4>2 DEF ThreadSends
    <3>3. CASE p = "origin"
      <4>1. pc = "to client" /\ Other(p) = "client" /\ "client" # "origin"
        BY <2>1, <3>3 DEF Passing, Other
      <4>2. ~ SendSome("origin")
        BY <1>0, <1>send, <2>2, <4>1
      <4>. QED  BY <1>0, <2>1, <2>2, <3>1, <4>1, <4>2 DEF ThreadSends
    <3>. QED  BY <1>0, <3>2, <3>3
  <2>3. CASE ~ SendSome(Other(p))
    BY <1>18, <2>1, <2>3 DEF PassOn, StaysAsItIs
  <2>. QED  BY <2>2, <2>3
<1>19. CASE Environment
  <2>1. ASSUME NEW p \in Peers, PeerStep(p), UNCHANGED <<pc, out, exchange, tunnel>>
        PROVE  PeerSendsOne \/ StaysAsItIs
    BY <2>1 DEF PeerStep, PeerSends, PeerReads, PeerShuts, PeerResets, PeerSendsOne, StaysAsItIs
  <2>2. CASE PollFails /\ UNCHANGED exchange
    BY <2>2 DEF PollFails, StaysAsItIs
  <2>3. CASE UNCHANGED vars
    BY <2>3 DEF vars, StaysAsItIs
  <2>. QED  BY <1>1, <1>19, <2>1, <2>2, <2>3 DEF Environment
<1>20. CASE UNCHANGED vars
  BY <1>20 DEF vars, StaysAsItIs
<1>21. Kinds
  BY <1>2, <1>3, <1>4, <1>5, <1>6, <1>7, <1>8, <1>9, <1>10, <1>11, <1>12, <1>13,
     <1>14, <1>15, <1>16, <1>17, <1>18, <1>19, <1>20
  DEF Next, ThreadStep, ExchangeStep, TunnelStep
<1>. QED  BY <1>1, <1>21

\* The client's stream up to where it has arrived, as the origin of this
\* connection should see it.
LEMMA ClientStream ==
  IInv => /\ Begun => /\ SentByClient \in Seq(Units)
                      /\ Len(SentByClient) = arrived["client"] - early
                      /\ Follows(SentByClient, request.wire, early)
          /\ ~ Begun => SentByClient = <<>> /\ given["origin"] = <<>>
          /\ IsPrefix(Passed("origin"), SentByClient)
<1> SUFFICES ASSUME IInv
             PROVE  /\ Begun => /\ SentByClient \in Seq(Units)
                                /\ Len(SentByClient) = arrived["client"] - early
                                /\ Follows(SentByClient, request.wire, early)
                    /\ ~ Begun => SentByClient = <<>> /\ given["origin"] = <<>>
                    /\ IsPrefix(Passed("origin"), SentByClient)
  OBVIOUS
<1>1. Handed
  BY HandedOn
<1>2. ASSUME Begun
      PROVE  /\ SentByClient \in Seq(Units)
             /\ Len(SentByClient) = arrived["client"] - early
             /\ Follows(SentByClient, request.wire, early)
             /\ IsPrefix(Passed("origin"), SentByClient)
  <2>. DEFINE s == SubSeq(request.wire, early + 1, arrived["client"])
              g == given["origin"]
  <2>1. SentByClient = s
    BY <1>2 DEF SentByClient
  <2>2. s \in Seq(Units) /\ Len(s) = arrived["client"] - early /\ Follows(s, request.wire, early)
    BY <1>1, PartFollows DEF Handed
  <2>3. /\ g \in Seq(Units) /\ Len(g) \in Nat /\ early \in Nat /\ request.wire \in Seq(Units)
        /\ arrived["client"] \in early .. Len(request.wire)
        /\ early + Len(g) <= arrived["client"]
        /\ Follows(g, request.wire, early) /\ Passed("origin") = g
        /\ Len(request.wire) \in Nat
    BY <1>1 DEF Handed
  <2>. HIDE DEF s, g
  <2>4. Len(g) <= Len(s)
    BY ONLY <2>2, <2>3
  <2>5. IsPrefix(g, s)
    BY ONLY <2>2, <2>3, <2>4, BeginningsPrefix
  <2>. QED  BY <2>1, <2>2, <2>3, <2>5
<1>3. ASSUME ~ Begun
      PROVE  /\ SentByClient = <<>> /\ given["origin"] = <<>>
             /\ IsPrefix(Passed("origin"), SentByClient)
  <2>1. IsTunnel /\ early = 0
    <3>1. request.method = "CONNECT" /\ ~ (early > 0) /\ early \in Nat
      BY <1>1, <1>3 DEF Begun, Handed
    <3>. QED  BY <3>1 DEF IsTunnel
  <2>2. given["origin"] = <<>> /\ SentByClient = <<>> /\ Passed("origin") = <<>>
    BY <1>1, <1>3, <2>1 DEF IInv, Where, SentByClient, Handed
  <2>3. IsPrefix(<<>>, <<>>)
    BY EmptySeq DEF IsPrefix
  <2>. QED  BY <2>2, <2>3
<1>. QED  BY <1>2, <1>3

\* The origin gets a beginning of what its client sent, in order, each unit
\* once, and nothing more once the thread has ended: every behaviour of the
\* connection satisfies ClientToOrigin.
THEOREM ClientToOriginIsPipe == Spec => ClientToOrigin
<1>1. Init => ToOrigin!Init
  <2> SUFFICES ASSUME Init PROVE ToOrigin!Init
    OBVIOUS
  <2>1. /\ arrived["client"] = 0 /\ given["origin"] = <<>> /\ early = 0 /\ pc = "recv"
    BY DEF Init, StreamsInit, TunnelInit, Peers
  <2>2. SentByClient = <<>>
    <3>1. SubSeq(request.wire, 0 + 1, 0) = <<>>
      BY SubSeqEmpty
    <3>. QED  BY <2>1, <3>1 DEF SentByClient
  <2>3. Passed("origin") = <<>>
    BY <2>1, NothingPassed DEF Passed
  <2>. QED  BY <2>1, <2>2, <2>3 DEF ToOrigin!Init
<1>2. IInv /\ IInv' /\ [Next]_vars => [ToOrigin!Next]_<<SentByClient, Passed("origin"), pc # "ended">>
  <2> SUFFICES ASSUME IInv, IInv', [Next]_vars
               PROVE  ToOrigin!Next \/ UNCHANGED <<SentByClient, Passed("origin"), pc # "ended">>
    OBVIOUS
  <2>. DEFINE sent == SentByClient
              received == Passed("origin")
              open == pc # "ended"
  <2>1. /\ Handed /\ Handed'
        /\ Begun => /\ sent \in Seq(Units) /\ Len(sent) = arrived["client"] - early
                    /\ Follows(sent, request.wire, early)
        /\ ~ Begun => sent = <<>> /\ given["origin"] = <<>>
        /\ Begun' => /\ sent' \in Seq(Units) /\ Len(sent') = arrived'["client"] - early'
                     /\ Follows(sent', request'.wire, early')
        /\ (~ Begun)' => sent' = <<>> /\ given'["origin"] = <<>>
        /\ IsPrefix(received, sent) /\ IsPrefix(received', sent')
    <3>1. Handed /\ Handed'
      BY HandedOn, PTL
    <3>2. /\ Begun => /\ SentByClient \in Seq(Units)
                      /\ Len(SentByClient) = arrived["client"] - early
                      /\ Follows(SentByClient, request.wire, early)
          /\ ~ Begun => SentByClient = <<>> /\ given["origin"] = <<>>
          /\ IsPrefix(Passed("origin"), SentByClient)
      BY ClientStream
    <3>3. (/\ Begun => /\ SentByClient \in Seq(Units)
                       /\ Len(SentByClient) = arrived["client"] - early
                       /\ Follows(SentByClient, request.wire, early)
           /\ ~ Begun => SentByClient = <<>> /\ given["origin"] = <<>>
           /\ IsPrefix(Passed("origin"), SentByClient))'
      BY ClientStream, PTL
    <3>. QED  BY <3>1, <3>2, <3>3
  <2>2. /\ request' = request /\ message' = message
        /\ PeerSendsOne \/ ThreadSends \/ FirstRecv \/ StaysAsItIs
    BY StepKinds DEF peers
  <2>3. ToOrigin!Next <=>
          \/ /\ IsPrefix(sent, sent') /\ sent' # sent
             /\ received' = received /\ open' = open
          \/ /\ open /\ open' = open /\ sent' = sent
             /\ IsPrefix(received, received') /\ received' # received
             /\ IsPrefix(received', sent)
          \/ /\ open /\ open' = FALSE /\ sent' = sent /\ received' = received
    BY DEF ToOrigin!Next, ToOrigin!Send, ToOrigin!Deliver, ToOrigin!Finish,
           ToOrigin!IsStrictPrefix, ToOrigin!IsPrefix, IsPrefix
  <2>4. given' = given => received' = received
    BY DEF Passed
  <2>5. early' = early /\ arrived'["client"] = arrived["client"] => sent' = sent
    BY <2>2 DEF SentByClient, Begun
  <2>6. open = (pc # "ended") /\ open' = (pc' # "ended")
    OBVIOUS
  <2>7. CASE StaysAsItIs
    <3>1. sent' = sent /\ received' = received /\ (pc = "ended" => pc' = "ended")
      BY <2>4, <2>5, <2>7 DEF StaysAsItIs
    <3>. QED  BY <2>3, <3>1
  <2>8. CASE PeerSendsOne
    <3>1. PICK p \in Peers : /\ arrived' = [arrived EXCEPT ![p] = @ + 1]
                            /\ UNCHANGED <<pc, early, given>>
      BY <2>8 DEF PeerSendsOne
    <3>2. received' = received /\ open' = open
      BY <2>4, <3>1
    <3>3. CASE sent' = sent
      BY <3>2, <3>3
    <3>4. CASE sent' # sent
      <4>1. arrived'["client"] # arrived["client"]
        BY <2>5, <3>1, <3>4
      <4>2. arrived'["client"] = arrived["client"] + 1 /\ arrived["client"] \in Nat
        BY <3>1, <4>1, KeptTypesHold DEF KeptTypes, Peers
      <4>3. Begun' <=> Begun
        BY <2>2, <3>1 DEF Begun
      <4>4. Begun
        BY <2>1, <3>4, <4>3
      <4>5. /\ sent \in Seq(Units) /\ sent' \in Seq(Units)
            /\ Follows(sent, request.wire, early) /\ Follows(sent', request.wire, early)
            /\ Len(sent) = arrived["client"] - early
            /\ Len(sent') = arrived'["client"] - early
            /\ early \in Nat /\ request.wire \in Seq(Units)
        BY <2>1, <2>2, <3>1, <4>3, <4>4 DEF Handed
      <4>. HIDE DEF sent, received, open
      <4>6. Len(sent) <= Len(sent')
        BY ONLY <4>2, <4>5
      <4>7. IsPrefix(sent, sent')
        BY ONLY <4>5, <4>6, BeginningsPrefix
      <4>. QED  BY <2>3, <3>2, <3>4, <4>7
    <3>. QED  BY <3>3, <3>4
  <2>9. CASE ThreadSends
    <3>1. /\ UNCHANGED <<pc, early, arrived>> /\ open
          /\ SendSome("origin") \/ SendSome("client")
      BY <2>9 DEF ThreadSends, SendSome, tunnel, Peers
    <3>2. sent' = sent /\ open' = open /\ open
      BY <2>5, <3>1
    <3>3. CASE SendSome("origin")
      <4>1. PICK n \in 1 .. Len(out) : Len(given'["origin"]) = Len(given["origin"]) + n
        BY <3>3, TypesSplit, SendSomeParts DEF IInv, Peers
      <4>2. /\ received = given["origin"] /\ received' = given'["origin"]
            /\ received \in Seq(Units) /\ received' \in Seq(Units)
            /\ Len(received) \in Nat
            /\ Follows(received, request.wire, early) /\ Follows(received', request.wire, early)
            /\ early \in Nat /\ request.wire \in Seq(Units)
        BY <2>1, <2>2, <3>1 DEF Handed
      <4>3. Len(received') = Len(received) + n /\ n \in Nat \ {0}
        <5>1. Len(out) \in Nat
          BY KeptTypesHold DEF KeptTypes
        <5>. QED  BY <4>1, <4>2, <5>1
      <4>. HIDE DEF sent, received, open
      <4>4. Len(received) <= Len(received') /\ Len(received) # Len(received')
        BY ONLY <4>2, <4>3
      <4>5. IsPrefix(received, received') /\ received # received'
        BY ONLY <4>2, <4>4, BeginningsPrefix
      <4>6. IsPrefix(received', sent)
        <5>1. IsPrefix(received', sent')
          BY <2>1 DEF sent, received
        <5>. QED  BY ONLY <3>2, <5>1
      <4>. QED  BY <2>3, <3>2, <4>5, <4>6
    <3>4. CASE ~ SendSome("origin")
      <4>1. given'["origin"] = given["origin"]
        BY <3>1, <3>4, TypesSplit, SendSomeParts DEF IInv, Peers, Other
      <4>. QED  BY <3>2, <4>1 DEF Passed
    <3>. QED  BY <3>3, <3>4
  <2>10. CASE FirstRecv
    <3>1. /\ received' = received /\ open /\ early = 0 /\ arrived' = arrived
          /\ pc' = "ended" => early' = 0
          /\ ~ IsTunnel => early' = 0
      BY <2>4, <2>10 DEF FirstRecv, IInv, Where
    <3>2. CASE sent' = sent
      BY <2>3, <3>1, <3>2
    <3>3. CASE sent' # sent
      <4>1. early' # 0 /\ IsTunnel /\ pc' # "ended"
        BY <2>5, <3>1, <3>3
      <4>2. sent = <<>>
        BY <3>1, <4>1 DEF SentByClient, Begun, IsTunnel
      <4>3. sent' \in Seq(Units)
        BY <2>1, EmptySeq
      <4>4. IsPrefix(<<>>, sent')
        <5>. HIDE DEF sent
        <5>1. Len(<<>>) = 0 /\ Len(sent') \in Nat /\ SubSeq(<<>>, 1, 0) = <<>> /\ SubSeq(sent', 1, 0) = <<>>
          BY <4>3, EmptySeq, LenProperties, SubSeqEmpty
        <5>. QED  BY <5>1 DEF IsPrefix
      <4>. QED  BY <2>3, <3>1, <3>3, <4>1, <4>2, <4>4
    <3>. QED  BY <3>2, <3>3
  <2>. QED  BY <2>2, <2>7, <2>8, <2>9, <2>10
<1>. QED  BY <1>1, <1>2, InductiveInvariant, PTL DEF Spec, ClientToOrigin, ToOrigin!Spec

\* The origin's stream up to where it has arrived, as the client of this
\* connection should see it.
LEMMA OriginStream ==
  IInv => /\ SentByOrigin \in Seq(Units) /\ Len(SentByOrigin) = arrived["origin"]
          /\ Follows(SentByOrigin, message.wire, 0)
          /\ IsPrefix(Passed("client"), SentByOrigin)
<1> SUFFICES ASSUME IInv
             PROVE  /\ SentByOrigin \in Seq(Units) /\ Len(SentByOrigin) = arrived["origin"]
                    /\ Follows(SentByOrigin, message.wire, 0)
                    /\ IsPrefix(Passed("client"), SentByOrigin)
  OBVIOUS
<1>. DEFINE s == SubSeq(message.wire, 0 + 1, arrived["origin"])
            g == Passed("client")
<1>1. SentByOrigin = s
  BY DEF SentByOrigin
<1>2. /\ g \in Seq(Words) /\ Len(g) \in Nat /\ message.wire \in Seq(Units)
      /\ arrived["origin"] \in 0 .. Len(message.wire)
      /\ Len(g) <= arrived["origin"] /\ Follows(g, message.wire, 0)
      /\ Len(message.wire) \in Nat
  BY HandedOn DEF Handed
<1>3. s \in Seq(Units) /\ Len(s) = arrived["origin"] - 0 /\ Follows(s, message.wire, 0)
  BY <1>2, PartFollows
<1>. HIDE DEF s, g
<1>4. Len(s) = arrived["origin"] /\ Len(g) <= Len(s)
  BY ONLY <1>2, <1>3
<1>5. IsPrefix(g, s)
  BY ONLY <1>2, <1>3, <1>4, BeginningsPrefix
<1>. QED  BY <1>1, <1>3, <1>4, <1>5 DEF g

\* The client gets a beginning of what the origin sent, in order, each unit
\* once, apart from what the proxy says itself: every behaviour of the
\* connection satisfies OriginToClient.
THEOREM OriginToClientIsPipe == Spec => OriginToClient
<1>1. Init => ToClient!Init
  <2> SUFFICES ASSUME Init PROVE ToClient!Init
    OBVIOUS
  <2>1. /\ arrived["origin"] = 0 /\ given["client"] = <<>> /\ pc = "recv"
    BY DEF Init, StreamsInit, Peers
  <2>2. SentByOrigin = <<>>
    BY <2>1, SubSeqEmpty DEF SentByOrigin
  <2>3. Passed("client") = <<>>
    BY <2>1, NothingPassed DEF Passed
  <2>. QED  BY <2>1, <2>2, <2>3 DEF ToClient!Init
<1>2. IInv /\ IInv' /\ [Next]_vars => [ToClient!Next]_<<SentByOrigin, Passed("client"), pc # "ended">>
  <2> SUFFICES ASSUME IInv, IInv', [Next]_vars
               PROVE  ToClient!Next \/ UNCHANGED <<SentByOrigin, Passed("client"), pc # "ended">>
    OBVIOUS
  <2>. DEFINE sent == SentByOrigin
              received == Passed("client")
              open == pc # "ended"
  <2>1. /\ Handed /\ Handed'
        /\ sent \in Seq(Units) /\ Len(sent) = arrived["origin"]
        /\ Follows(sent, message.wire, 0)
        /\ sent' \in Seq(Units) /\ Len(sent') = arrived'["origin"]
        /\ Follows(sent', message'.wire, 0)
        /\ IsPrefix(received, sent) /\ IsPrefix(received', sent')
    <3>1. Handed /\ Handed'
      BY HandedOn, PTL
    <3>2. /\ SentByOrigin \in Seq(Units) /\ Len(SentByOrigin) = arrived["origin"]
          /\ Follows(SentByOrigin, message.wire, 0)
          /\ IsPrefix(Passed("client"), SentByOrigin)
      BY OriginStream
    <3>3. (/\ SentByOrigin \in Seq(Units) /\ Len(SentByOrigin) = arrived["origin"]
           /\ Follows(SentByOrigin, message.wire, 0)
           /\ IsPrefix(Passed("client"), SentByOrigin))'
      BY OriginStream, PTL
    <3>. QED  BY <3>1, <3>2, <3>3
  <2>2. /\ request' = request /\ message' = message
        /\ PeerSendsOne \/ ThreadSends \/ FirstRecv \/ StaysAsItIs
    BY StepKinds DEF peers
  <2>3. ToClient!Next <=>
          \/ /\ IsPrefix(sent, sent') /\ sent' # sent
             /\ received' = received /\ open' = open
          \/ /\ open /\ open' = open /\ sent' = sent
             /\ IsPrefix(received, received') /\ received' # received
             /\ IsPrefix(received', sent)
          \/ /\ open /\ open' = FALSE /\ sent' = sent /\ received' = received
    BY DEF ToClient!Next, ToClient!Send, ToClient!Deliver, ToClient!Finish,
           ToClient!IsStrictPrefix, ToClient!IsPrefix, IsPrefix
  <2>4. given'["client"] = given["client"] => received' = received
    BY DEF Passed
  <2>5. arrived'["origin"] = arrived["origin"] => sent' = sent
    BY <2>2 DEF SentByOrigin
  <2>6. open = (pc # "ended") /\ open' = (pc' # "ended")
    OBVIOUS
  <2>7. CASE StaysAsItIs \/ FirstRecv
    <3>1. sent' = sent /\ received' = received /\ (pc = "ended" => pc' = "ended")
      BY <2>4, <2>5, <2>7 DEF StaysAsItIs, FirstRecv
    <3>. QED  BY <2>3, <3>1
  <2>8. CASE PeerSendsOne
    <3>1. PICK p \in Peers : /\ arrived' = [arrived EXCEPT ![p] = @ + 1]
                            /\ UNCHANGED <<pc, early, given>>
      BY <2>8 DEF PeerSendsOne
    <3>2. received' = received /\ open' = open
      BY <2>4, <3>1
    <3>3. CASE sent' = sent
      BY <3>2, <3>3
    <3>4. CASE sent' # sent
      <4>1. arrived'["origin"] # arrived["origin"]
        BY <2>5, <3>4
      <4>2. arrived'["origin"] = arrived["origin"] + 1 /\ arrived["origin"] \in Nat
        BY <3>1, <4>1, KeptTypesHold DEF KeptTypes, Peers
      <4>3. /\ sent \in Seq(Units) /\ sent' \in Seq(Units) /\ message.wire \in Seq(Units)
            /\ Follows(sent, message.wire, 0) /\ Follows(sent', message.wire, 0)
            /\ Len(sent) = arrived["origin"] /\ Len(sent') = arrived'["origin"] /\ 0 \in Nat
        BY <2>1, <2>2 DEF Handed
      <4>. HIDE DEF sent, received, open
      <4>4. Len(sent) <= Len(sent')
        BY ONLY <4>2, <4>3
      <4>5. IsPrefix(sent, sent')
        BY ONLY <4>3, <4>4, BeginningsPrefix
      <4>. QED  BY <2>3, <3>2, <3>4, <4>5
    <3>. QED  BY <3>3, <3>4
  <2>9. CASE ThreadSends
    <3>1. /\ UNCHANGED <<pc, early, arrived, taken>> /\ open
          /\ SendSome("origin") \/ SendSome("client")
          /\ SendSome("client") => pc \in {"relay", "pass", "to client", "establish", "error"}
          /\ UNCHANGED <<peers, pc, exchange, tunnel>>
      BY <2>2, <2>9 DEF ThreadSends, SendSome, tunnel, Peers, peers
    <3>2. sent' = sent /\ open' = open /\ open
      BY <2>5, <3>1
    <3>3. CASE SendSome("client") /\ pc \in {"relay", "pass", "to client"}
      <4>1. PICK n \in 1 .. Len(out) : Len(out') = Len(out) - n
        BY <3>3, TypesSplit, SendSomeParts DEF IInv, Peers
      <4>2. /\ Len(received) + Len(out) = taken["origin"]
            /\ Len(received') + Len(out') = taken'["origin"]
            /\ taken'["origin"] = taken["origin"]
        <5>1. Len(received) + Len(out) = taken["origin"]
          BY <3>3 DEF IInv, ClientGets, Passed
        <5>2. Len(received') + Len(out') = taken'["origin"]
          BY <3>1, <3>3 DEF IInv, ClientGets, Passed
        <5>. QED  BY <3>1, <5>1, <5>2
      <4>3. /\ received \in Seq(Words) /\ received' \in Seq(Words)
            /\ Len(received) \in Nat /\ Len(received') \in Nat
            /\ Follows(received, message.wire, 0) /\ Follows(received', message.wire, 0)
            /\ message.wire \in Seq(Units) /\ 0 \in Nat
        BY <2>1, <2>2 DEF Handed
      <4>4. n \in 1 .. Len(out) /\ Len(out) \in Nat
        BY <4>1, KeptTypesHold DEF KeptTypes
      <4>. HIDE DEF sent, received, open
      <4>5. Len(received) <= Len(received') /\ Len(received) # Len(received')
        BY ONLY <4>1, <4>2, <4>3, <4>4
      <4>6. IsPrefix(received, received') /\ received # received'
        BY ONLY <4>3, <4>5, BeginningsPrefix
      <4>7. IsPrefix(received', sent)
        <5>1. IsPrefix(received', sent')
          BY <2>1 DEF sent, received
        <5>. QED  BY ONLY <3>2, <5>1
      <4>. QED  BY <2>3, <3>2, <4>6, <4>7
    <3>4. CASE SendSome("client") /\ pc \in {"establish", "error"}
      <4>1. WithoutOwn(given'["client"]) = WithoutOwn(given["client"])
        BY <3>1, <3>4, SaysToClient
      <4>. QED  BY <3>2, <4>1 DEF Passed
    <3>5. CASE ~ SendSome("client")
      <4>1. given'["client"] = given["client"]
        BY <3>1, <3>5, TypesSplit, SendSomeParts DEF IInv, Peers, Other
      <4>. QED  BY <2>4, <3>2, <4>1
    <3>. QED  BY <3>1, <3>3, <3>4, <3>5
  <2>. QED  BY <2>2, <2>7, <2>8, <2>9
<1>. QED  BY <1>1, <1>2, InductiveInvariant, PTL DEF Spec, OriginToClient, ToClient!Spec
=============================================================================
