------------------------- MODULE ResponseOpsProofs --------------------------
(***************************************************************************)
(* What parse makes of a header of any length, and what the times a cache  *)
(* entry keeps are worth.  Response and Proxy both rest on these lemmas.   *)
(*                                                                         *)
(* Inductions speak of sets where a textbook speaks of predicates, so that *)
(* a proof can cite them with a set it defines.                            *)
(***************************************************************************)
EXTENDS ResponseOps, SequenceTheorems, WellFoundedInduction, TLAPS

-----------------------------------------------------------------------------
(* Natural numbers.                                                         *)

\* A set of natural numbers that is not empty has a least member.
LEMMA SmallestMember ==
  ASSUME NEW S \in SUBSET Nat, S # {}
  PROVE  \E m \in S : \A n \in S : m <= n
<1> DEFINE less == {pair \in Nat \X Nat : pair[1] < pair[2]}
<1>1. IsWellFoundedOn(less, Nat)
  BY NatLessThanWellFounded DEF OpToRel
<1>2. PICK m \in S : \A n \in S : <<n, m>> \notin less
  <2> HIDE DEF less
  <2>. QED  BY <1>1, WFMin
<1>3. ASSUME NEW n \in S PROVE m <= n
  <2>1. m \in Nat /\ n \in Nat
    BY <1>2
  <2>2. <<n, m>> \notin less
    BY <1>2
  <2>3. ~ (n < m)
    BY <2>1, <2>2
  <2>. QED  BY <2>1, <2>3
<1>. QED  BY <1>2, <1>3

\* A set of natural numbers that contains 0 and with each number the next
\* contains them all.
LEMMA SetInduction ==
  ASSUME NEW P \in SUBSET Nat, 0 \in P, \A n \in P : n + 1 \in P
  PROVE  \A n \in Nat : n \in P
<1>1. SUFFICES ASSUME Nat \ P # {} PROVE FALSE
  OBVIOUS
<1>2. PICK m \in Nat \ P : \A n \in Nat \ P : m <= n
  BY <1>1, SmallestMember
<1>3. m - 1 \in Nat
  BY <1>2
<1>4. m - 1 \in P
  BY <1>2, <1>3
<1>. QED  BY <1>2, <1>3, <1>4

\* The same up to a bound.
LEMMA BoundedInduction ==
  ASSUME NEW b \in Nat, NEW P, 0 \in P, \A n \in 0 .. b - 1 : n \in P => n + 1 \in P
  PROVE  \A n \in 0 .. b : n \in P
<1> DEFINE Q == {n \in Nat : n <= b => n \in P}
<1>1. 0 \in Q
  OBVIOUS
<1>2. ASSUME NEW n \in Q PROVE n + 1 \in Q
  BY <1>2
<1>3. \A n \in Nat : n \in Q
  <2> HIDE DEF Q
  <2>1. Q \in SUBSET Nat
    BY DEF Q
  <2>. QED  BY <1>1, <1>2, <2>1, SetInduction
<1>. QED  BY <1>3

\* A set of natural numbers that is bounded and not empty has a greatest
\* member: the last of the header lines with one name.
LEMMA GreatestMember ==
  ASSUME NEW b \in Nat, NEW S \in SUBSET (0 .. b), S # {}
  PROVE  \E m \in S : \A n \in S : n <= m
<1> DEFINE T == {b - n : n \in S}
<1>1. T \in SUBSET Nat /\ T # {}
  <2>1. \A n \in S : b - n \in Nat
    OBVIOUS
  <2>2. T \in SUBSET Nat
    BY <2>1
  <2>. QED  BY <2>2
<1>2. PICK d \in T : \A e \in T : d <= e
  BY <1>1, SmallestMember
<1>3. PICK m \in S : d = b - m
  BY <1>2
<1>4. ASSUME NEW n \in S PROVE n <= m
  <2>1. b - m <= b - n
    BY <1>2, <1>3
  <2>. QED  BY <2>1
<1>. QED  BY <1>4
-----------------------------------------------------------------------------
(* Times.                                                                   *)

\* from_time_t keeps a time the clock can tell and never makes one later.
LEMMA FromTimeProperties ==
  ASSUME NEW t \in Int, -MaxTime <= t
  PROVE  /\ FromTime(t) \in -MaxTime .. MaxTime - 1
         /\ FromTime(t) <= t
         /\ t < MaxTime => FromTime(t) = t
<1> DEFINE M == 2 * MaxTime
           r == (t + MaxTime) % M
<1>1. MaxTime \in Nat \ {0} /\ M \in Nat \ {0} /\ t + MaxTime \in Nat
  BY TimesAssumption
<1>2. r \in 0 .. M - 1
  BY <1>1
<1>3. r <= t + MaxTime
  BY <1>1
<1>4. t + MaxTime < M => r = t + MaxTime
  BY <1>1
<1>5. FromTime(t) = r - MaxTime
  BY DEF FromTime
<1>6. M = MaxTime + MaxTime
  BY <1>1
<1>. HIDE DEF r, M
<1>. QED  BY <1>1, <1>2, <1>3, <1>4, <1>5, <1>6

-----------------------------------------------------------------------------
(* Header lines.                                                            *)

\* The kinds of lines and what each has.
LEMMA LineKinds ==
  ASSUME NEW line \in Lines
  PROVE  /\ line.name \in {"Cache-Control", "Date", "Expires", "unreadable", "other"}
         /\ line.name = "Cache-Control" => /\ line.directives \in SUBSET Directives
                                           /\ line.s_maxage \in Ages \cup {NoAge}
                                           /\ line.max_age \in Ages \cup {NoAge}
         /\ line.name \in {"Date", "Expires"} => line.time \in Times \cup {UnreadableTime}
<1>1. CASE line \in CacheControlLines
  BY <1>1 DEF CacheControlLines
<1>2. CASE line \in TimeLines
  BY <1>2 DEF TimeLines
<1>3. CASE line \in OtherLines
  BY <1>3 DEF OtherLines
<1>. QED  BY <1>1, <1>2, <1>3 DEF Lines

\* An age is a number, and a positive one was stated by a header.
LEMMA AgesAreIntegers == \A age \in Ages \cup {Absent} : age \in Int /\ (age > 0 => age \in Ages)
BY AgesAssumption DEF Absent

\* The types of what is computed from a Response object.
ParsedType == [date : Times \cup {0, UnreadableTime},
               expire_time : Times \cup {0, UnreadableTime},
               directives : SUBSET Directives,
               s_max_age : Ages \cup {Absent},
               max_age : Ages \cup {Absent},
               invalid : BOOLEAN]

\* When a response expires, as a number with its least value.
LEMMA ExpireTimeType ==
  ASSUME NEW r \in ParsedType
  PROVE  ExpireTime(r) \in Int /\ -MaxTime <= ExpireTime(r)
<1>1. \A t \in Times \cup {0, UnreadableTime} : t \in Int /\ t >= -1
  BY TimesAssumption DEF UnreadableTime
<1>2. r.date \in Int /\ r.expire_time \in Int /\ r.date >= -1 /\ r.expire_time >= -1
  BY <1>1 DEF ParsedType
<1>3. r.s_max_age \in Int /\ r.max_age \in Int
  BY AgesAreIntegers DEF ParsedType
<1>. QED  BY <1>2, <1>3, TimesAssumption DEF ExpireTime

\* What is kept in a cache entry of the times and of validation.
LEMMA ExpiryType ==
  ASSUME NEW r \in ParsedType, NEW t \in Nat
  PROVE  Expiry(r, t) \in [creation_time : Nat, expires_time : Int,
                           requires_validation : BOOLEAN]
<1>1. FromTime(ExpireTime(r)) \in Int
  BY ExpireTimeType, FromTimeProperties, TimesAssumption
<1>2. NeedsValidation(r, t) \in BOOLEAN
  BY DEF NeedsValidation
<1>. QED  BY <1>1, <1>2 DEF Expiry

\* A line that was read leaves a Response object.
LEMMA ParseLineType ==
  ASSUME NEW r \in ParsedType, NEW line \in Lines
  PROVE  ParseLine(r, line) \in ParsedType
<1>1. CASE line.name = "Cache-Control"
  BY <1>1, LineKinds DEF ParseLine, ProcessCacheControl, ParsedType
<1>2. CASE line.name \in {"Date", "Expires"}
  BY <1>2, LineKinds DEF ParseLine, ParsedType
<1>3. CASE line.name \notin {"Cache-Control", "Date", "Expires"}
  BY <1>3, LineKinds DEF ParseLine, ParsedType
<1>. QED  BY <1>1, <1>2, <1>3

-----------------------------------------------------------------------------
(* The whole header.                                                        *)

\* What a Response object shares with the first n lines of its header: a line
\* that cannot be read is noticed, the last Cache-Control line decides the
\* directives, the ages are stated by some Cache-Control line, and the date
\* stays that of the first line if no other line gives one.
AgreesWith(r, lines, n) ==
  /\ \A i \in 1 .. n : lines[i].name = "unreadable" => r.invalid
  /\ \A i \in 1 .. n :
        /\ lines[i].name = "Cache-Control"
        /\ \A j \in i + 1 .. n : lines[j].name # "Cache-Control"
        => r.directives = lines[i].directives
  /\ \/ /\ r.s_max_age = Absent
        /\ \A i \in 1 .. n : lines[i].name = "Cache-Control" => lines[i].s_maxage = NoAge
     \/ \E i \in 1 .. n : lines[i].name = "Cache-Control" /\ lines[i].s_maxage = r.s_max_age
  /\ \/ /\ r.max_age = Absent
        /\ \A i \in 1 .. n : lines[i].name = "Cache-Control" => lines[i].max_age = NoAge
     \/ \E i \in 1 .. n : lines[i].name = "Cache-Control" /\ lines[i].max_age = r.max_age
  /\ n > 0 /\ lines[1].name = "Date" /\ (\A i \in 2 .. n : lines[i].name # "Date")
        => r.date = lines[1].time

\* One more line keeps the agreement.
LEMMA ParseLineAgrees ==
  ASSUME NEW lines \in Seq(Lines), NEW n \in 0 .. Len(lines) - 1,
         NEW r \in ParsedType, AgreesWith(r, lines, n)
  PROVE  AgreesWith(ParseLine(r, lines[n + 1]), lines, n + 1)
<1> DEFINE line == lines[n + 1]
           q == ParseLine(r, line)
<1>1. Len(lines) \in Nat /\ n + 1 \in 1 .. Len(lines) /\ line \in Lines
  BY ElementOfSeq, LenProperties
<1>2. /\ \A i \in 1 .. n + 1 : i \in 1 .. n \/ i = n + 1
      /\ \A i \in 1 .. n : i \in 1 .. n + 1 /\ i # n + 1 /\ n + 1 \in i + 1 .. n + 1
      /\ \A i \in 1 .. n : \A j \in i + 1 .. n : j \in i + 1 .. n + 1
      /\ n + 1 > 0 /\ n + 1 \in 1 .. n + 1
  BY <1>1
<1>3. line.name # "unreadable" => q.invalid = r.invalid
  BY LineKinds, <1>1 DEF ParseLine, ProcessCacheControl, ParsedType
<1>4. line.name = "unreadable" => q.invalid
  BY DEF ParseLine, ParsedType
<1>5. line.name = "Cache-Control" =>
        /\ q.directives = line.directives
        /\ q.s_max_age = IF line.s_maxage = NoAge THEN r.s_max_age ELSE line.s_maxage
        /\ q.max_age = IF line.max_age = NoAge THEN r.max_age ELSE line.max_age
  BY DEF ParseLine, ProcessCacheControl, ParsedType
<1>6. line.name # "Cache-Control" =>
        /\ q.directives = r.directives
        /\ q.s_max_age = r.s_max_age /\ q.max_age = r.max_age
  BY LineKinds, <1>1 DEF ParseLine, ParsedType
<1>7. q.date = IF line.name = "Date" THEN line.time ELSE r.date
  BY LineKinds, <1>1 DEF ParseLine, ProcessCacheControl, ParsedType
<1>. HIDE DEF q
<1>8. \A i \in 1 .. n + 1 : lines[i].name = "unreadable" => q.invalid
  BY <1>2, <1>3, <1>4 DEF AgreesWith
<1>9. ASSUME NEW i \in 1 .. n + 1, lines[i].name = "Cache-Control",
             \A j \in i + 1 .. n + 1 : lines[j].name # "Cache-Control"
      PROVE  q.directives = lines[i].directives
  <2>1. CASE i = n + 1
    BY <1>5, <1>9, <2>1
  <2>2. CASE i \in 1 .. n
    BY <1>2, <1>6, <1>9, <2>2 DEF AgreesWith
  <2>. QED  BY <1>2, <2>1, <2>2
<1>10. \/ /\ q.s_max_age = Absent
          /\ \A i \in 1 .. n + 1 :
                lines[i].name = "Cache-Control" => lines[i].s_maxage = NoAge
       \/ \E i \in 1 .. n + 1 :
             lines[i].name = "Cache-Control" /\ lines[i].s_maxage = q.s_max_age
  BY <1>2, <1>5, <1>6 DEF AgreesWith
<1>11. \/ /\ q.max_age = Absent
          /\ \A i \in 1 .. n + 1 :
                lines[i].name = "Cache-Control" => lines[i].max_age = NoAge
       \/ \E i \in 1 .. n + 1 :
             lines[i].name = "Cache-Control" /\ lines[i].max_age = q.max_age
  BY <1>2, <1>5, <1>6 DEF AgreesWith
<1>12. ASSUME lines[1].name = "Date", \A i \in 2 .. n + 1 : lines[i].name # "Date"
       PROVE  q.date = lines[1].time
  <2>1. CASE n = 0
    BY <1>7, <1>12, <2>1
  <2>2. CASE n # 0
    <3>1. n > 0 /\ n + 1 \in 2 .. n + 1 /\ \A i \in 2 .. n : i \in 2 .. n + 1
      BY <1>1, <2>2
    <3>2. r.date = lines[1].time
      BY <1>12, <3>1 DEF AgreesWith
    <3>. QED  BY <1>7, <1>12, <3>1, <3>2
  <2>. QED  BY <2>1, <2>2
<1>13. AgreesWith(q, lines, n + 1)
  <2>. HIDE DEF line
  <2>. QED  BY <1>8, <1>9, <1>10, <1>11, <1>12 DEF AgreesWith
<1>. QED  BY <1>13 DEF q

\* What parse returns agrees with the whole header.
LEMMA ParseAgrees ==
  ASSUME NEW lines \in Seq(Lines)
  PROVE  Parse(lines) \in ParsedType /\ AgreesWith(Parse(lines), lines, Len(lines))
<1> DEFINE N == Len(lines)
           Next(f, n) == IF n = 0 THEN NoHeaders ELSE ParseLine(f[n - 1], lines[n])
           IsLoop(f, n) == f = [i \in 0 .. n |-> Next(f, i)]
           Good(f, n) == /\ IsLoop(f, n)
                         /\ \A i \in 0 .. n : /\ f[i] \in ParsedType
                                              /\ AgreesWith(f[i], lines, i)
           P == {n \in 0 .. N : \E f : Good(f, n)}
<1>1. N \in Nat /\ \A i \in 1 .. N : lines[i] \in Lines
  BY ElementOfSeq, LenProperties
<1>2. 0 \in P
  <2> DEFINE f == [i \in 0 .. 0 |-> NoHeaders]
  <2>1. IsLoop(f, 0)
    OBVIOUS
  <2>2. NoHeaders \in ParsedType
    BY DEF NoHeaders, ParsedType, Absent
  <2>3. AgreesWith(NoHeaders, lines, 0)
    BY DEF AgreesWith, NoHeaders
  <2>4. Good(f, 0)
    BY <2>1, <2>2, <2>3
  <2>. HIDE DEF f, Good
  <2>5. \E h : Good(h, 0)
    BY <2>4
  <2>. QED  BY <1>1, <2>5
<1>3. ASSUME NEW n \in 0 .. N - 1, n \in P PROVE n + 1 \in P
  <2>1. PICK f : Good(f, n)
    BY <1>3
  <2> DEFINE last == ParseLine(f[n], lines[n + 1])
             g == [i \in 0 .. n + 1 |-> IF i = n + 1 THEN last ELSE f[i]]
  <2>2. /\ n \in Nat /\ n + 1 \in 1 .. N /\ n \in 0 .. n
        /\ \A i \in 0 .. n + 1 : i \in 0 .. n \/ i = n + 1
        /\ \A i \in 0 .. n : i # n + 1 /\ i \in 0 .. n + 1
    BY <1>1
  <2>3. last \in ParsedType
    BY <1>1, <2>1, <2>2, ParseLineType
  <2>4. AgreesWith(last, lines, n + 1)
    BY <1>1, <2>1, <2>2, ParseLineAgrees
  <2>5. \A i \in 0 .. n : g[i] = f[i]
    BY <2>2
  <2>6. g[n + 1] = last
    BY <2>2
  <2>7. ASSUME NEW i \in 0 .. n + 1 PROVE g[i] = Next(g, i)
    <3>1. CASE i = n + 1
      <4>1. Next(g, i) = ParseLine(g[n], lines[n + 1])
        BY <2>2, <3>1
      <4>. QED  BY <2>2, <2>5, <2>6, <3>1, <4>1
    <3>2. CASE i \in 0 .. n
      <4>1. f[i] = Next(f, i)
        BY <2>1, <3>2
      <4>2. i # 0 => i - 1 \in 0 .. n
        BY <2>2, <3>2
      <4>. QED  BY <2>5, <3>2, <4>1, <4>2
    <3>. QED  BY <2>2, <3>1, <3>2
  <2>8. IsLoop(g, n + 1)
    BY <2>7
  <2>9. Good(g, n + 1)
    BY <2>1, <2>2, <2>3, <2>4, <2>5, <2>6, <2>8
  <2>. HIDE DEF g, Good
  <2>10. \E h : Good(h, n + 1)
    BY <2>9
  <2>11. n + 1 \in 0 .. N
    BY <1>1
  <2>. QED  BY <2>10, <2>11
<1>4. PICK f : Good(f, N)
  <2>1. \A n \in 0 .. N : n \in P
    <3>. HIDE DEF P, N
    <3>. QED  BY <1>1, <1>2, <1>3, BoundedInduction
  <2>2. N \in P
    <3>. HIDE DEF P, N
    <3>. QED  BY <1>1, <2>1
  <2>. HIDE DEF Good
  <2>. QED  BY <2>2
<1> DEFINE after == CHOOSE h : IsLoop(h, N)
<1>5. IsLoop(after, N)
  BY <1>4
<1>6. Parse(lines) = after[N]
  BY DEF Parse
<1>7. \A i \in 0 .. N : after[i] = f[i]
  <2> DEFINE Q == {i \in 0 .. N : after[i] = f[i]}
  <2>1. \A i \in 0 .. N : after[i] = Next(after, i) /\ f[i] = Next(f, i)
    <3>. HIDE DEF after
    <3>. QED  BY <1>4, <1>5
  <2>2. 0 \in Q
    <3>. HIDE DEF after
    <3>1. 0 \in 0 .. N
      BY <1>1
    <3>2. after[0] = NoHeaders /\ f[0] = NoHeaders
      BY <2>1, <3>1
    <3>. QED  BY <3>1, <3>2
  <2>3. ASSUME NEW i \in 0 .. N - 1, i \in Q PROVE i + 1 \in Q
    <3>. HIDE DEF after
    <3>1. i + 1 \in 0 .. N /\ i + 1 # 0 /\ (i + 1) - 1 = i
      BY <1>1
    <3>. QED  BY <2>1, <2>3, <3>1
  <2>. HIDE DEF after
  <2>4. \A i \in 0 .. N : i \in Q
    <3>. HIDE DEF Q, N
    <3>. QED  BY <1>1, <2>2, <2>3, BoundedInduction
  <2>. QED  BY <2>4
<1>. HIDE DEF after
<1>. QED  BY <1>1, <1>4, <1>6, <1>7
=============================================================================
