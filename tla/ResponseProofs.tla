--------------------------- MODULE ResponseProofs ---------------------------
(***************************************************************************)
(* What a served response's header allows, for any header of any length,   *)
(* any ages and any range of the clock.                                    *)
(***************************************************************************)
EXTENDS Response, ResponseOpsProofs

-----------------------------------------------------------------------------
(* Header lines.                                                            *)

\* What one more line adds to what the header says.
LEMMA OneMoreLine ==
  ASSUME lines \in Seq(Lines), NEW line \in Lines, lines' = Append(lines, line)
  PROVE  /\ lines' \in Seq(Lines)
         /\ CacheControls' = IF line.name = "Cache-Control" THEN CacheControls \cup {line}
                             ELSE CacheControls
         /\ \A name \in {"Date", "Expires"} :
               LastTime'[name] = IF line.name = name THEN line.time ELSE LastTime[name]
<1> DEFINE n == Len(lines)
<1>1. /\ n \in Nat /\ DOMAIN lines = 1 .. n /\ DOMAIN lines' = 1 .. n + 1
      /\ lines' \in Seq(Lines) /\ lines'[n + 1] = line
      /\ \A i \in 1 .. n : lines'[i] = lines[i]
  BY AppendProperties, LenProperties
<1>. HIDE DEF n
<1>2. ASSUME NEW name
      PROVE  Stated(name)' = IF line.name = name THEN Stated(name) \cup {n + 1}
                             ELSE Stated(name)
  BY <1>1 DEF Stated
<1>3. CacheControls' = IF line.name = "Cache-Control" THEN CacheControls \cup {line}
                       ELSE CacheControls
  <2>1. Stated("Cache-Control") \subseteq 1 .. n
    BY <1>1 DEF Stated
  <2>2. CASE line.name = "Cache-Control"
    <3>1. Stated("Cache-Control")' = Stated("Cache-Control") \cup {n + 1}
      BY <1>2, <2>2
    <3>. QED  BY <1>1, <2>1, <2>2, <3>1 DEF CacheControls
  <2>3. CASE line.name # "Cache-Control"
    <3>1. Stated("Cache-Control")' = Stated("Cache-Control")
      BY <1>2, <2>3
    <3>. QED  BY <1>1, <2>1, <2>3, <3>1 DEF CacheControls
  <2>. QED  BY <2>2, <2>3
<1>4. ASSUME NEW name \in {"Date", "Expires"}
      PROVE  LastTime'[name] = IF line.name = name THEN line.time ELSE LastTime[name]
  <2>. DEFINE S == Stated(name)
  <2>1. \A j \in S : j \in 1 .. n
    BY <1>1 DEF Stated
  <2>2. CASE line.name = name
    <3>1. Stated(name)' = S \cup {n + 1}
      BY <1>2, <2>2
    <3>2. \A j \in S \cup {n + 1} : n + 1 >= j /\ (j >= n + 1 => j = n + 1)
      <4>. HIDE DEF S
      <4>. QED  BY <1>1, <2>1
    <3>3. Max(S \cup {n + 1}) = n + 1
      <4>. HIDE DEF S
      <4>. QED  BY <3>2 DEF Max
    <3>4. LastTime'[name] = lines'[Max(Stated(name)')].time
      BY <3>1 DEF LastTime
    <3>. QED  BY <1>1, <2>2, <3>1, <3>3, <3>4
  <2>3. CASE line.name # name
    <3>1. Stated(name)' = S
      BY <1>2, <2>3
    <3>2. CASE S = {}
      BY <2>3, <3>1, <3>2 DEF LastTime
    <3>3. CASE S # {}
      <4>1. \E i \in S : \A j \in S : i >= j
        <5>1. S \in SUBSET (0 .. n)
          <6>. HIDE DEF S
          <6>. QED  BY <1>1, <2>1
        <5>. HIDE DEF S
        <5>. QED  BY <1>1, <3>3, <5>1, GreatestMember
      <4>2. Max(S) \in S
        <5>. HIDE DEF S
        <5>. QED  BY <4>1 DEF Max
      <4>3. lines'[Max(S)] = lines[Max(S)]
        BY <1>1, <2>1, <4>2
      <4>. QED  BY <2>3, <3>1, <3>3, <4>3 DEF LastTime
    <3>. QED  BY <3>2, <3>3
  <2>. QED  BY <2>2, <2>3
<1>. QED  BY <1>1, <1>3, <1>4

-----------------------------------------------------------------------------
(* The inductive invariant.                                                 *)

\* An age the Response object has is one that some Cache-Control line states;
\* it has none only if none does.
Collected(age, stated) == IF stated = {} THEN age = Absent ELSE age \in stated

\* parse's loop, line by line: the last Date and Expires count, the ages of
\* any Cache-Control line, the flags of the only one.
ParsedFaithful ==
  /\ parsed.date = LastTime["Date"]
  /\ parsed.expire_time = LastTime["Expires"]
  /\ Collected(parsed.s_max_age, SMaxAges)
  /\ Collected(parsed.max_age, MaxAges)
  /\ \A line \in CacheControls :
        CacheControls = {line} => parsed.directives = line.directives

\* An entry is what Expiry made of the object when the entry was created.
EntryFaithful ==
  state = "stored" =>
    /\ IsStorable(parsed)
    /\ entry = Expiry(parsed, entry.creation_time)
    /\ entry.creation_time <= now

ClockBounded == now \in Nat /\ now < MaxTime

IInv == TypeOK /\ ParsedFaithful /\ EntryFaithful /\ ClockBounded

\* What the header says, and what was made of it, change only in parse's loop.
LEMMA FaithfulStable ==
  ASSUME ParsedFaithful, UNCHANGED <<lines, parsed>>
  PROVE  ParsedFaithful'
<1>1. \A name : Stated(name)' = Stated(name)
  BY DEF Stated
<1>2. CacheControls' = CacheControls
  BY <1>1 DEF CacheControls
<1>3. SMaxAges' = SMaxAges /\ MaxAges' = MaxAges
  BY <1>2 DEF SMaxAges, MaxAges
<1>4. LastTime'["Date"] = LastTime["Date"] /\ LastTime'["Expires"] = LastTime["Expires"]
  BY <1>1 DEF LastTime
<1>. QED  BY <1>2, <1>3, <1>4 DEF ParsedFaithful

\* A new Response satisfies the invariant,
LEMMA InitIInv == Init => IInv
<1>1. SUFFICES ASSUME Init PROVE IInv
  OBVIOUS
<1>2. TypeOK
  BY <1>1, EmptySeq, ClockAssumption DEF Init, TypeOK, NoHeaders, NoEntry, Absent
<1>3. \A name : Stated(name) = {}
  BY <1>1, EmptySeq DEF Init, Stated
<1>4. CacheControls = {} /\ SMaxAges = {} /\ MaxAges = {}
  BY <1>3 DEF CacheControls, SMaxAges, MaxAges
<1>5. ParsedFaithful
  BY <1>1, <1>3, <1>4 DEF Init, ParsedFaithful, LastTime, NoHeaders, Collected
<1>6. EntryFaithful /\ ClockBounded
  BY <1>1, ClockAssumption, TimesAssumption DEF Init, EntryFaithful, ClockBounded
<1>. QED  BY <1>2, <1>5, <1>6 DEF IInv

\* The step of parse's loop keeps the object true to the lines.
LEMMA ReadLineFaithful ==
  ASSUME IInv, NEW line \in Lines, ReadLine(line)
  PROVE  ParsedFaithful'
<1>1. /\ lines \in Seq(Lines) /\ parsed \in ParsedType
      /\ lines' = Append(lines, line) /\ parsed' = ParseLine(parsed, line)
  BY DEF IInv, TypeOK, ReadLine, ParsedType
<1>2. /\ CacheControls' = IF line.name = "Cache-Control" THEN CacheControls \cup {line}
                          ELSE CacheControls
      /\ LastTime'["Date"] = IF line.name = "Date" THEN line.time ELSE LastTime["Date"]
      /\ LastTime'["Expires"] = IF line.name = "Expires" THEN line.time
                                ELSE LastTime["Expires"]
  <2>1. CacheControls' = IF line.name = "Cache-Control" THEN CacheControls \cup {line}
                         ELSE CacheControls
    BY <1>1, OneMoreLine
  <2>2. LastTime'["Date"] = IF line.name = "Date" THEN line.time ELSE LastTime["Date"]
    BY <1>1, OneMoreLine
  <2>3. LastTime'["Expires"] = IF line.name = "Expires" THEN line.time
                               ELSE LastTime["Expires"]
    BY <1>1, OneMoreLine
  <2>. QED  BY <2>1, <2>2, <2>3
<1>3. ParsedFaithful
  BY DEF IInv
<1>4. CASE line.name = "Cache-Control"
  <2>1. parsed' = ProcessCacheControl(parsed, line)
    BY <1>1, <1>4 DEF ParseLine
  <2>2. SMaxAges' = SMaxAges \cup ({line.s_maxage} \ {NoAge})
    BY <1>2, <1>4 DEF SMaxAges
  <2>3. MaxAges' = MaxAges \cup ({line.max_age} \ {NoAge})
    BY <1>2, <1>4 DEF MaxAges
  <2>4. /\ parsed'.date = parsed.date /\ parsed'.expire_time = parsed.expire_time
        /\ parsed'.directives = line.directives
        /\ parsed'.s_max_age = IF line.s_maxage = NoAge THEN parsed.s_max_age
                               ELSE line.s_maxage
        /\ parsed'.max_age = IF line.max_age = NoAge THEN parsed.max_age
                             ELSE line.max_age
    BY <1>1, <2>1 DEF ProcessCacheControl, ParsedType
  <2>5. Collected(parsed.s_max_age, SMaxAges)'
    BY <1>3, <2>2, <2>4 DEF ParsedFaithful, Collected
  <2>6. Collected(parsed.max_age, MaxAges)'
    BY <1>3, <2>3, <2>4 DEF ParsedFaithful, Collected
  <2>7. \A l \in CacheControls' : CacheControls' = {l} => parsed'.directives = l.directives
    BY <1>2, <1>4, <2>4
  <2>. QED
    BY <1>2, <1>3, <1>4, <2>4, <2>5, <2>6, <2>7 DEF ParsedFaithful
<1>5. CASE line.name # "Cache-Control"
  <2>1. CacheControls' = CacheControls
    BY <1>2, <1>5
  <2>2. SMaxAges' = SMaxAges /\ MaxAges' = MaxAges
    BY <2>1 DEF SMaxAges, MaxAges
  <2>3. /\ parsed'.directives = parsed.directives
        /\ parsed'.s_max_age = parsed.s_max_age /\ parsed'.max_age = parsed.max_age
        /\ parsed'.date = IF line.name = "Date" THEN line.time ELSE parsed.date
        /\ parsed'.expire_time = IF line.name = "Expires" THEN line.time
                                 ELSE parsed.expire_time
    BY <1>1, <1>5, LineKinds DEF ParseLine, ParsedType
  <2>. QED  BY <1>2, <1>3, <2>1, <2>2, <2>3 DEF ParsedFaithful
<1>. QED  BY <1>4, <1>5

\* and parse, the put and the clock keep it.
LEMMA NextIInv == IInv /\ [Next]_vars => IInv'
<1>. SUFFICES ASSUME IInv, [Next]_vars PROVE IInv'
  OBVIOUS
<1>1. ASSUME NEW line \in Lines, ReadLine(line) PROVE IInv'
  <2>1. lines \in Seq(Lines) /\ parsed \in ParsedType
    BY DEF IInv, TypeOK, ParsedType
  <2>2. lines' \in Seq(Lines)
    BY <1>1, <2>1, OneMoreLine DEF ReadLine
  <2>3. parsed' \in ParsedType
    BY <1>1, <2>1, ParseLineType DEF ReadLine
  <2>4. TypeOK'
    BY <1>1, <2>2, <2>3 DEF ReadLine, IInv, TypeOK, ParsedType
  <2>5. EntryFaithful' /\ ClockBounded'
    BY <1>1 DEF ReadLine, EntryFaithful, ClockBounded, IInv
  <2>. QED  BY <1>1, <2>4, <2>5, ReadLineFaithful DEF IInv
<1>2. CASE Finish
  <2>1. parsed \in ParsedType /\ now \in Nat
    BY DEF IInv, TypeOK, ParsedType
  <2>2. UNCHANGED <<lines, parsed, now>>
    BY <1>2 DEF Finish
  <2>3. CASE IsStorable(parsed)
    <3>1. state' = "stored" /\ entry' = Expiry(parsed, now)
      BY <1>2, <2>3 DEF Finish
    <3>2. entry' \in [creation_time : Nat, expires_time : Int, requires_validation : BOOLEAN]
      BY <2>1, <3>1, ExpiryType
    <3>3. entry'.creation_time = now
      BY <3>1 DEF Expiry
    <3>4. TypeOK'
      BY <2>2, <3>1, <3>2 DEF IInv, TypeOK
    <3>5. EntryFaithful'
      BY <2>1, <2>2, <2>3, <3>1, <3>3 DEF EntryFaithful
    <3>. QED  BY <2>2, <3>4, <3>5, FaithfulStable DEF IInv, ClockBounded
  <2>4. CASE ~ IsStorable(parsed)
    <3>1. state' = "refused" /\ entry' = entry
      BY <1>2, <2>4 DEF Finish
    <3>2. TypeOK'
      BY <2>2, <3>1 DEF IInv, TypeOK
    <3>. QED
      BY <2>2, <3>1, <3>2, FaithfulStable DEF IInv, EntryFaithful, ClockBounded
  <2>. QED  BY <2>3, <2>4
<1>3. CASE Tick
  <2>1. UNCHANGED <<lines, parsed, state, entry>> /\ now' = now + 1 /\ now < End
    BY <1>3 DEF Tick
  <2>2. TypeOK'
    BY <2>1 DEF IInv, TypeOK
  <2>3. EntryFaithful'
    BY <2>1 DEF IInv, TypeOK, EntryFaithful
  <2>4. ClockBounded'
    BY <2>1, ClockAssumption, TimesAssumption DEF IInv, ClockBounded
  <2>. QED  BY <2>1, <2>2, <2>3, <2>4, FaithfulStable DEF IInv
<1>4. CASE UNCHANGED vars
  <2>1. UNCHANGED <<lines, parsed, state, entry, now>>
    BY <1>4 DEF vars
  <2>2. TypeOK' /\ EntryFaithful' /\ ClockBounded'
    BY <2>1 DEF IInv, TypeOK, EntryFaithful, ClockBounded
  <2>. QED  BY <2>1, <2>2, FaithfulStable DEF IInv
<1>. QED  BY <1>1, <1>2, <1>3, <1>4 DEF Next
-----------------------------------------------------------------------------
(* What being served from the cache says of the header.                     *)

\* The members of the Response object, as numbers.
LEMMA ParsedNumbers ==
  ASSUME IInv
  PROVE  /\ parsed \in ParsedType
         /\ LastTime["Date"] \in Int /\ LastTime["Date"] >= -1
         /\ LastTime["Expires"] \in Int /\ LastTime["Expires"] >= -1
         /\ LastTime["Date"] < MaxTime /\ LastTime["Expires"] < MaxTime
         /\ parsed.s_max_age \in Int /\ parsed.max_age \in Int
<1>1. parsed \in ParsedType
  BY DEF IInv, TypeOK, ParsedType
<1>2. \A t \in Times \cup {0, UnreadableTime} : t \in Int /\ t >= -1 /\ t < MaxTime
  BY TimesAssumption DEF UnreadableTime
<1>3. LastTime["Date"] = parsed.date /\ LastTime["Expires"] = parsed.expire_time
  BY DEF IInv, ParsedFaithful
<1>4. parsed.date \in Times \cup {0, UnreadableTime}
      /\ parsed.expire_time \in Times \cup {0, UnreadableTime}
  BY <1>1 DEF ParsedType
<1>5. parsed.s_max_age \in Ages \cup {Absent} /\ parsed.max_age \in Ages \cup {Absent}
  BY <1>1 DEF ParsedType
<1>. QED  BY <1>1, <1>2, <1>3, <1>4, <1>5, AgesAreIntegers

\* An entry that is served was fresh when it was created, asks for no
\* validation, and its expiry, as far as the clock can tell it, is not over.
LEMMA ServedEntry ==
  ASSUME IInv, Served
  PROVE  \E created \in Nat :
            /\ created <= now
            /\ IsFresh(parsed, created) /\ ~ NeedsValidation(parsed, created)
            /\ \/ FromTime(ExpireTime(parsed)) = 0
               \/ now <= FromTime(ExpireTime(parsed))
<1> DEFINE created == entry.creation_time
<1>1. created \in Nat /\ created <= now /\ entry = Expiry(parsed, created) /\ now \in Nat
  BY DEF IInv, TypeOK, EntryFaithful, Served
<1>2. /\ entry.requires_validation = NeedsValidation(parsed, created)
      /\ entry.expires_time = FromTime(ExpireTime(parsed))
  <2>. HIDE DEF created
  <2>. QED  BY <1>1 DEF Expiry
<1>3. ~ entry.requires_validation
      /\ (entry.expires_time = 0 \/ ~ (now > entry.expires_time))
  BY DEF Served, IsExpired
<1>4. ~ NeedsValidation(parsed, created) /\ IsFresh(parsed, created)
  BY <1>2, <1>3 DEF NeedsValidation
<1>5. FromTime(ExpireTime(parsed)) \in Int
  BY ParsedNumbers, ExpireTimeType, FromTimeProperties, TimesAssumption
<1>. QED  BY <1>1, <1>2, <1>3, <1>4, <1>5

\* An expiry after the epoch is not reached while the entry is served, also if
\* it is too late for the clock.
LEMMA ServedUntil ==
  ASSUME IInv, Served, ExpireTime(parsed) > 0
  PROVE  now <= ExpireTime(parsed)
<1>1. ExpireTime(parsed) \in Int /\ -MaxTime <= ExpireTime(parsed)
  BY ParsedNumbers, ExpireTimeType
<1>2. /\ FromTime(ExpireTime(parsed)) \in Int
      /\ FromTime(ExpireTime(parsed)) <= ExpireTime(parsed)
      /\ ExpireTime(parsed) < MaxTime => FromTime(ExpireTime(parsed)) = ExpireTime(parsed)
  BY <1>1, FromTimeProperties, TimesAssumption
<1>3. FromTime(ExpireTime(parsed)) = 0 \/ now <= FromTime(ExpireTime(parsed))
  BY ServedEntry
<1>4. now \in Nat /\ now < MaxTime /\ MaxTime \in Nat
  BY TimesAssumption DEF IInv, ClockBounded
<1>. QED  BY <1>1, <1>2, <1>3, <1>4

\* It says that an entry is served within its lifetime only,
LEMMA LifetimeKept == IInv => ServedWithinLifetime
<1>. SUFFICES ASSUME IInv, Served, \A age \in SMaxAges \cup MaxAges : age > 0
             PROVE  IF SMaxAges \cup MaxAges = {}
                    THEN LastTime["Expires"] # 0 => now <= LastTime["Expires"]
                    ELSE \E age \in IF SMaxAges # {} THEN SMaxAges ELSE MaxAges :
                            now <= LastTime["Date"] + age
  BY DEF ServedWithinLifetime
<1>1. /\ Collected(parsed.s_max_age, SMaxAges) /\ Collected(parsed.max_age, MaxAges)
      /\ parsed.date = LastTime["Date"] /\ parsed.expire_time = LastTime["Expires"]
  BY DEF IInv, ParsedFaithful
<1>2. /\ parsed.s_max_age \in Ages \cup {Absent} /\ parsed.max_age \in Ages \cup {Absent}
      /\ parsed.s_max_age \in Int /\ parsed.max_age \in Int
  BY ParsedNumbers DEF ParsedType
<1>4. now \in Nat
  BY DEF IInv, ClockBounded
<1>5. PICK created \in Nat : /\ created <= now
                             /\ IsFresh(parsed, created)
                             /\ \/ FromTime(ExpireTime(parsed)) = 0
                                \/ now <= FromTime(ExpireTime(parsed))
  BY ServedEntry
<1>6. LastTime["Date"] \in Int /\ LastTime["Expires"] \in Int /\ LastTime["Expires"] >= -1
  BY ParsedNumbers
<1>7. CASE SMaxAges # {}
  <2>1. parsed.s_max_age \in SMaxAges
    BY <1>1, <1>7 DEF Collected
  <2>2. parsed.s_max_age > 0
    BY <2>1
  <2>3. ExpireTime(parsed) = LastTime["Date"] + parsed.s_max_age
    BY <1>1, <2>2 DEF ExpireTime
  <2>4. parsed.s_max_age > created - LastTime["Date"]
    BY <1>1, <1>5, <2>2 DEF IsFresh
  <2>5. ExpireTime(parsed) > 0
    BY <1>2, <1>6, <2>3, <2>4
  <2>. QED  BY <1>7, <2>1, <2>3, <2>5, ServedUntil
<1>8. CASE SMaxAges = {} /\ MaxAges # {}
  <2>1. parsed.max_age \in MaxAges /\ parsed.s_max_age = Absent
    BY <1>1, <1>8 DEF Collected
  <2>2. parsed.max_age > 0 /\ ~ (parsed.s_max_age > 0)
    BY <2>1 DEF Absent
  <2>3. ExpireTime(parsed) = LastTime["Date"] + parsed.max_age
    BY <1>1, <2>2 DEF ExpireTime
  <2>4. parsed.max_age > created - LastTime["Date"]
    BY <1>1, <1>5, <2>2 DEF IsFresh
  <2>5. ExpireTime(parsed) > 0
    BY <1>2, <1>6, <2>3, <2>4
  <2>. QED  BY <1>8, <2>1, <2>3, <2>5, ServedUntil
<1>9. CASE SMaxAges = {} /\ MaxAges = {}
  <2>1. ~ (parsed.max_age > 0) /\ ~ (parsed.s_max_age > 0)
    BY <1>1, <1>9 DEF Collected, Absent
  <2>2. ExpireTime(parsed) = LastTime["Expires"]
    BY <1>1, <2>1 DEF ExpireTime
  <2>3. CASE LastTime["Expires"] > 0
    BY <1>9, <2>2, <2>3, ServedUntil
  <2>4. CASE LastTime["Expires"] = -1
    <3>1. FromTime(-1) = -1
      BY FromTimeProperties, TimesAssumption
    <3>. QED  BY <1>4, <1>5, <2>2, <2>4, <3>1
  <2>5. CASE LastTime["Expires"] = 0
    BY <1>9, <2>5
  <2>. QED  BY <1>6, <2>3, <2>4, <2>5
<1>. QED  BY <1>7, <1>8, <1>9

\* that a fresh one is served,
LEMMA FreshServed == IInv => FreshIsServed
<1>. SUFFICES
       ASSUME IInv, NEW line \in CacheControls,
              state = "stored", CacheControls = {line}, line.directives = {},
              NEW age, age = IF line.s_maxage = NoAge THEN line.max_age ELSE line.s_maxage,
              age # NoAge, age > 0, entry.creation_time < LastTime["Date"] + age,
              now <= LastTime["Date"] + age, LastTime["Date"] + age < MaxTime
       PROVE  Served
  BY DEF FreshIsServed
<1> DEFINE created == entry.creation_time
<1>1. line \in Lines /\ line.name = "Cache-Control"
  <2>1. lines \in Seq(Lines)
    BY DEF IInv, TypeOK
  <2>2. PICK i \in DOMAIN lines : line = lines[i] /\ line.name = "Cache-Control"
    BY DEF CacheControls, Stated
  <2>. QED  BY <2>1, <2>2, ElementOfSeq, LenProperties
<1>2. line.s_maxage \in Ages \cup {NoAge} /\ line.max_age \in Ages \cup {NoAge}
  BY <1>1, LineKinds
<1>3. SMaxAges = {line.s_maxage} \ {NoAge} /\ MaxAges = {line.max_age} \ {NoAge}
  BY DEF SMaxAges, MaxAges
<1>4. /\ parsed.s_max_age = IF line.s_maxage = NoAge THEN Absent ELSE line.s_maxage
      /\ parsed.max_age = IF line.max_age = NoAge THEN Absent ELSE line.max_age
      /\ parsed.directives = {} /\ parsed.date = LastTime["Date"]
  BY <1>3 DEF IInv, ParsedFaithful, Collected
<1>5. /\ \A a \in Ages : a \in Int
      /\ LastTime["Date"] \in Int /\ parsed \in ParsedType
  BY ParsedNumbers, AgesAreIntegers
<1>6. age \in Int
  BY <1>2, <1>5
<1>7. /\ created \in Nat /\ entry = Expiry(parsed, created) /\ now \in Nat
  BY DEF IInv, TypeOK, EntryFaithful
<1>8. ExpireTime(parsed) = LastTime["Date"] + age
  BY <1>4 DEF ExpireTime, Absent
<1>9. IsFresh(parsed, created)
  BY <1>4, <1>5, <1>6, <1>7 DEF IsFresh, Absent
<1>10. ~ NeedsValidation(parsed, created)
  BY <1>4, <1>9 DEF NeedsValidation
<1>11. FromTime(ExpireTime(parsed)) = ExpireTime(parsed)
  BY <1>5, <1>8, ExpireTimeType, FromTimeProperties
<1>12. /\ entry.requires_validation = NeedsValidation(parsed, created)
       /\ entry.expires_time = FromTime(ExpireTime(parsed))
  <2>. HIDE DEF created
  <2>. QED  BY <1>7 DEF Expiry
<1>13. ~ (now > LastTime["Date"] + age)
  BY <1>5, <1>6, <1>7
<1>. QED  BY <1>8, <1>10, <1>11, <1>12, <1>13 DEF Served, IsExpired

\* and that one which asks for validation is not.
LEMMA ValidationAsked == IInv => ValidationIsAsked
<1>. SUFFICES ASSUME IInv, Served, NEW l \in CacheControls, CacheControls = {l},
                    l.directives \cap {"no-cache", "must-revalidate"} # {}
             PROVE  FALSE
  BY DEF ValidationIsAsked
<1>1. parsed.directives = l.directives
  BY DEF IInv, ParsedFaithful
<1>2. PICK created \in Nat : ~ NeedsValidation(parsed, created)
  BY ServedEntry
<1>. QED  BY <1>1, <1>2 DEF NeedsValidation

-----------------------------------------------------------------------------

\* The inductive invariant holds for every header and every clock.
THEOREM InductiveInvariant == Spec => []IInv
BY InitIInv, NextIInv, PTL DEF Spec

\* Whatever lines are read in whatever order, the members of the Response
\* object and of the entry stay in their ranges.
THEOREM TypeCorrect == Spec => []TypeOK
<1>1. IInv => TypeOK
  BY DEF IInv
<1>. QED  BY <1>1, InductiveInvariant, PTL

\* No response whose ages, if it states any, are above 0 is served beyond the
\* lifetime its header states, counted from its Date, whatever the order of its lines and however far the expiry lies
\* beyond the range of system_clock.
THEOREM NeverServedStale == Spec => []ServedWithinLifetime
BY InductiveInvariant, LifetimeKept, PTL

\* A response that may be cached and arrived fresh is served for as long as
\* its Cache-Control line says.
THEOREM ServedWhileFresh == Spec => []FreshIsServed
BY InductiveInvariant, FreshServed, PTL

\* no-cache and must-revalidate keep a stored response from being served.
THEOREM NeverServedUnvalidated == Spec => []ValidationIsAsked
BY InductiveInvariant, ValidationAsked, PTL
=============================================================================
