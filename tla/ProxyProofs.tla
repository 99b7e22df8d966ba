---------------------------- MODULE ProxyProofs -----------------------------
(***************************************************************************)
(* What the connection threads owe their clients and the cache, for any    *)
(* number of threads, connections, hosts and resources, any headers an     *)
(* origin may send and any range of the clock: every client gets one       *)
(* response, the cache holds only what may be stored, and what is served   *)
(* has not been replaced for longer than its age.                          *)
(***************************************************************************)
EXTENDS Proxy, ResponseOpsProofs, FiniteSetTheorems

-----------------------------------------------------------------------------
(* The inductive invariant.                                                 *)

\* An answer's header has the date at which the origin sent it, and whatever
\* replaced its version was published since.
DatedIn(a, published, time) ==
  LET versions == published[a.resource]
  IN  /\ Len(a.head) > 0
      /\ a.head[1].name = "Date" /\ a.head[1].time \in Start .. time
      /\ \A i \in 2 .. Len(a.head) : a.head[i].name # "Date"
      /\ a.version \in 1 .. Len(versions)
      /\ \A k \in a.version + 1 .. Len(versions) : a.head[1].time <= versions[k]

\* A cache entry is a storable answer to a GET, and what Expiry made of its
\* header when it was stored.
Kept(e, published, time) ==
  /\ e \in Entries
  /\ e.method = "GET" /\ e.answer.kind = "200"
  /\ IsStorable(Parse(e.answer.head))
  /\ e.expiry = Expiry(Parse(e.answer.head), e.expiry.creation_time)
  /\ DatedIn(e.answer, published, time)

CacheKept ==
  /\ \A i \in DOMAIN responses : Kept(responses[i].entry, origin, now)
  /\ \A t \in Threads : got[t] # Nullopt => Kept(got[t], origin, now)

OriginCounted == \A r \in Resources : Len(origin[r]) \in 1 .. MaxVersion

\* What the place of a thread says of its request, the resolver and its origin.
RequestAtPlace(t) ==
  /\ pc[t] = "recv" => request[t] \in Requests
  /\ pc[t] \in {"lookup", "check", "serve", "store"} => request[t].method = "GET"
  /\ pc[t] \in {"forward", "await", "relay", "body"} => request[t].method \in {"GET", "POST"}
  /\ pc[t] \in {"resolve", "connect"} => request[t].method \in {"GET", "POST", "CONNECT"}
  /\ pc[t] = "connect" => resolved \in Hosts
  /\ pc[t] = "await" => peer[t] \in Hosts \X Ports
  /\ pc[t] = "serve" => got[t] # Nullopt

AnswerAtPlace(t) ==
  /\ pc[t] \in {"relay", "body", "store"} =>
        answer[t] \in Answers /\ DatedIn(answer[t], origin, now)
  /\ pc[t] \in {"body", "store"} => answer[t].kind # "length"
  /\ pc[t] = "store" => answer[t].kind = "200"
  /\ pc[t] \notin {"relay", "body", "store", "close"} => answer[t] = NoAnswer

\* What a client has that got its one response.
OneAnswer ==
  {<<status>> : status \in {"200", "400", "500", "501", "502"}} \cup {<<"head", "body">>}

SentAtPlace(t) ==
  /\ pc[t] \notin {"body", "store", "close"} => sent[t] = <<>>
  /\ pc[t] = "body" => sent[t] = <<"head">>
  /\ pc[t] = "store" => sent[t] = <<"head", "body">>
  /\ pc[t] = "close" /\ ~ gone[t] =>
        IF answer[t].kind = "length" THEN sent[t] = <<"head", "500">>
        ELSE sent[t] \in OneAnswer

AtPlace(t) == RequestAtPlace(t) /\ AnswerAtPlace(t) /\ SentAtPlace(t)

IInv == /\ TypeOK /\ CacheKept /\ OriginCounted
        /\ \A t \in Threads : AtPlace(t)

-----------------------------------------------------------------------------
(* What the operators return.                                               *)

\* Every reading of the clock is a time that a header can carry.
LEMMA ClockFacts ==
  /\ Start \in Nat /\ End \in Nat /\ Start \in Start .. End
  /\ \A time \in Start .. End : time \in Times /\ time \in Nat /\ time < MaxTime /\ time > 0
BY ProxyAssumption, TimesAssumption

\* A request of a method the proxy knows has the parts of one.
LEMMA RequestParts ==
  ASSUME NEW req \in Requests \cup {NoRequest}
  PROVE  /\ req.method \in {"GET", "POST", "CONNECT"} =>
               req.host \in Hosts \cup {NoHost} /\ req.port \in Ports /\ req.uri \in Uris
         /\ req \in Requests => req.method \in {"GET", "POST", "CONNECT", "other",
                                                "invalid", "closed"}
BY DEF Requests, NoRequest

\* What a thread may send in one go.
LEMMA PartsSent ==
  /\ \A status \in Statuses \cup {"body"} : <<status>> \in Seq(Parts)
  /\ <<"head", "body">> \in Seq(Parts) /\ <<"head", "500">> \in Seq(Parts)
  /\ <<>> \in Seq(Parts)
  /\ <<"head">> \o <<"body">> = <<"head", "body">>
<1>1. Statuses \cup {"body"} \subseteq Parts
  BY DEF Parts, Statuses
<1>2. \A part \in Parts : <<part>> \in Seq(Parts)
  OBVIOUS
<1>3. \A p, q \in Parts : <<p, q>> \in Seq(Parts)
  OBVIOUS
<1>4. "head" \in Parts /\ "body" \in Parts /\ "500" \in Parts
  BY DEF Parts
<1>5. <<"head">> \o <<"body">> = <<"head", "body">>
  <2> DEFINE h == <<"head">>
             b == <<"body">>
  <2>1. h \in Seq(Parts) /\ b \in Seq(Parts) /\ Len(h) = 1 /\ Len(b) = 1
    BY <1>2, <1>4
  <2>2. h[1] = "head" /\ b[1] = "body"
    OBVIOUS
  <2> HIDE DEF h, b
  <2>3. /\ h \o b \in Seq(Parts) /\ Len(h \o b) = 2
        /\ (h \o b)[1] = h[1] /\ (h \o b)[2] = b[1]
    BY <2>1, ConcatProperties
  <2> DEFINE c == <<"head", "body">>
  <2>4. c \in Seq(Parts) /\ Len(c) = 2 /\ c[1] = "head" /\ c[2] = "body"
    BY <1>3, <1>4
  <2> HIDE DEF c
  <2>5. \A i \in 1 .. 2 : (h \o b)[i] = c[i]
    <3>1. \A i \in 1 .. 2 : i = 1 \/ i = 2
      OBVIOUS
    <3>. QED  BY <2>2, <2>3, <2>4, <3>1
  <2>6. h \o b = c
    BY <2>3, <2>4, <2>5, SeqEqual
  <2>. QED  BY <2>6 DEF h, b, c
<1>. QED  BY <1>1, <1>2, <1>3, <1>4, <1>5, EmptySeq

\* sendAll adds to what this client has.
LEMMA SendEffect ==
  ASSUME TypeOK, NEW t \in Threads, NEW parts \in Seq(Parts), Send(t, parts)
  PROVE  /\ sent' \in [Threads -> Seq(Parts)] /\ gone' = gone
         /\ sent'[t] = sent[t] \o parts
         /\ sent[t] = <<>> => sent'[t] = parts
         /\ \A u \in Threads \ {t} : sent'[u] = sent[u] /\ gone'[u] = gone[u]
<1>1. sent \in [Threads -> Seq(Parts)] /\ gone \in [Threads -> BOOLEAN]
  BY DEF TypeOK
<1>2. sent' = [sent EXCEPT ![t] = @ \o parts] /\ gone' = gone
  BY DEF Send
<1>3. sent[t] \o parts \in Seq(Parts)
  BY <1>1, ConcatProperties
<1>4. <<>> \o parts = parts
  BY EmptySeq, ConcatEmptySeq
<1>. QED  BY <1>1, <1>2, <1>3, <1>4

\* A thread whose client has gone is about to close, whatever it was sending.
LEMMA ClientGoneEffect ==
  ASSUME TypeOK, NEW t \in Threads, ClientGone(t)
  PROVE  /\ sent' = sent /\ gone' \in [Threads -> BOOLEAN]
         /\ gone'[t] = TRUE
         /\ \A u \in Threads \ {t} : sent'[u] = sent[u] /\ gone'[u] = gone[u]
BY DEF TypeOK, ClientGone

\* sendErrorResponse: one status, or nobody to get it.
LEMMA SendErrorEffect ==
  ASSUME TypeOK, NEW t \in Threads, NEW status \in {"400", "500", "501", "502"},
         sent[t] = <<>>, SendError(t, status)
  PROVE  /\ sent' \in [Threads -> Seq(Parts)] /\ gone' \in [Threads -> BOOLEAN]
         /\ gone'[t] \/ sent'[t] \in OneAnswer
         /\ \A u \in Threads \ {t} : sent'[u] = sent[u] /\ gone'[u] = gone[u]
<1>1. <<status>> \in Seq(Parts)
  BY PartsSent DEF Statuses
<1>2. CASE Send(t, <<status>>)
  <2>1. /\ sent' \in [Threads -> Seq(Parts)] /\ gone' = gone
        /\ sent'[t] = <<status>>
        /\ \A u \in Threads \ {t} : sent'[u] = sent[u] /\ gone'[u] = gone[u]
    BY <1>1, <1>2, SendEffect
  <2>2. <<status>> \in OneAnswer
    BY DEF OneAnswer
  <2>3. gone \in [Threads -> BOOLEAN]
    BY DEF TypeOK
  <2>. QED  BY <2>1, <2>2, <2>3
<1>3. CASE ClientGone(t)
  BY <1>3, ClientGoneEffect DEF TypeOK
<1>. QED  BY <1>2, <1>3 DEF SendError

\* The entry a store makes.
LEMMA ExpiryInRange ==
  ASSUME NEW lines \in Seq(Lines), NEW time \in Start .. End
  PROVE  /\ Expiry(Parse(lines), time) \in [creation_time : Times, expires_time : Int,
                                            requires_validation : BOOLEAN]
         /\ Expiry(Parse(lines), time).creation_time = time
<1>1. Parse(lines) \in ParsedType
  BY ParseAgrees
<1>2. Expiry(Parse(lines), time) \in [creation_time : Nat, expires_time : Int,
                                      requires_validation : BOOLEAN]
  BY <1>1, ClockFacts, ExpiryType
<1>3. Expiry(Parse(lines), time).creation_time = time
  BY DEF Expiry
<1>4. time \in Times
  BY ClockFacts
<1>. QED  BY <1>2, <1>3, <1>4

-----------------------------------------------------------------------------
(* The cache, as CacheContract has it.                                      *)

\* A sequence without one of its elements has no others.
LEMMA WithoutOne ==
  ASSUME NEW S, NEW s \in Seq(S), NEW i \in 1 .. Len(s)
  PROVE  /\ TheCache!RemoveAt(s, i) \in Seq(S)
         /\ \A j \in DOMAIN TheCache!RemoveAt(s, i) :
               \E k \in DOMAIN s : TheCache!RemoveAt(s, i)[j] = s[k]
<1> DEFINE T == {s[k] : k \in DOMAIN s}
           front == SubSeq(s, 1, i - 1)
           back == SubSeq(s, i + 1, Len(s))
<1>1. Len(s) \in Nat /\ DOMAIN s = 1 .. Len(s) /\ T \subseteq S
  BY ElementOfSeq, LenProperties
<1>2. front \in Seq(T)
  BY <1>1, SubSeqProperties
<1>3. back \in Seq(T)
  <2>1. \A j \in i + 1 .. Len(s) : s[j] \in T
    BY <1>1
  <2>. QED  BY <1>1, <2>1, SubSeqProperties
<1>4. front \o back \in Seq(T)
  BY <1>2, <1>3, ConcatProperties
<1>5. TheCache!RemoveAt(s, i) = front \o back
  BY DEF TheCache!RemoveAt
<1>6. \A j \in DOMAIN (front \o back) : (front \o back)[j] \in T
  <2>. HIDE DEF front, back, T
  <2>. QED  BY <1>4, ElementOfSeq, LenProperties
<1>7. front \o back \in Seq(S)
  <2>. HIDE DEF front, back, T
  <2>. QED  BY <1>1, <1>4
<1>. QED  BY <1>5, <1>6, <1>7

CachedResponses == [key : (Hosts \cup {NoHost}) \X Uris, entry : Entries]

\* A put adds its entry and keeps others at most.
LEMMA PutEffect ==
  ASSUME TypeOK, NEW k \in (Hosts \cup {NoHost}) \X Uris, NEW e \in Entries,
         TheCache!Put(k, e)
  PROVE  /\ responses' \in Seq(CachedResponses) /\ got' = got
         /\ \A i \in DOMAIN responses' :
               \/ responses'[i].entry = e
               \/ \E j \in DOMAIN responses : responses'[i] = responses[j]
<1> DEFINE kept == IF Len(responses) >= MaxEntries /\ responses # <<>>
                   THEN TheCache!Front(responses) ELSE responses
           rest == TheCache!Without(kept, k)
           T == {responses[j] : j \in DOMAIN responses}
           new == [key |-> k, entry |-> e]
<1>1. /\ responses \in Seq(CachedResponses) /\ Len(responses) \in Nat
      /\ DOMAIN responses = 1 .. Len(responses)
  BY LenProperties DEF TypeOK, CachedResponses
<1>2. responses' = <<new>> \o rest /\ got' = got
  BY DEF TheCache!Put
<1>3. T \subseteq CachedResponses /\ new \in CachedResponses
  <2>1. \A j \in DOMAIN responses : responses[j] \in CachedResponses
    BY <1>1, ElementOfSeq
  <2>2. new \in CachedResponses
    BY DEF CachedResponses
  <2>. QED  BY <2>1, <2>2
<1>4. responses \in Seq(T)
  BY <1>1
<1>5. kept \in Seq(T)
  <2>1. CASE Len(responses) >= MaxEntries /\ responses # <<>>
    <3>1. TheCache!Front(responses) = SubSeq(responses, 1, Len(responses) - 1)
      BY DEF TheCache!Front
    <3>2. SubSeq(responses, 1, Len(responses) - 1) \in Seq(T)
      <4>1. \A j \in 1 .. Len(responses) - 1 : responses[j] \in T
        BY <1>1
      <4>2. Len(responses) - 1 \in Int
        BY <1>1
      <4>. HIDE DEF T
      <4>. QED  BY <1>1, <1>4, <4>1, <4>2, SubSeqProperties
    <3>. QED  BY <2>1, <3>1, <3>2
  <2>2. CASE ~ (Len(responses) >= MaxEntries /\ responses # <<>>)
    BY <1>4, <2>2
  <2>. QED  BY <2>1, <2>2
<1>6. rest \in Seq(T)
  <2> HIDE DEF kept, T
  <2> DEFINE Matches(r) == r.key = k
             I == {i \in 1 .. Len(kept) : Matches(kept[i])}
             at == TheCache!SelectInSeq(kept, LAMBDA r : r.key = k)
  <2>1. rest = IF \E i \in 1 .. Len(kept) : kept[i].key = k
               THEN TheCache!RemoveAt(kept, at) ELSE kept
    BY DEF TheCache!Without, TheCache!RemoveFirstMatch
  <2>2. CASE \E i \in 1 .. Len(kept) : kept[i].key = k
    <3>1. I # {} /\ I \in SUBSET Nat
      BY <2>2
    <3>2. at = TheCache!Min(I)
      BY <3>1 DEF TheCache!SelectInSeq
    <3>3. \E i \in I : \A j \in I : i <= j
      <4>. HIDE DEF I
      <4>. QED  BY <3>1, SmallestMember
    <3>4. TheCache!Min(I) \in I
      <4>. HIDE DEF I
      <4>. QED  BY <3>3 DEF TheCache!Min
    <3>5. at \in 1 .. Len(kept)
      BY <3>2, <3>4
    <3>6. TheCache!RemoveAt(kept, at) \in Seq(T)
      <4>. HIDE DEF at
      <4>. QED  BY <1>5, <3>5, WithoutOne
    <3>. QED  BY <2>1, <2>2, <3>6
  <2>3. CASE ~ \E i \in 1 .. Len(kept) : kept[i].key = k
    BY <1>5, <2>1, <2>3
  <2>. QED  BY <2>2, <2>3
<1>7. <<new>> \o rest \in Seq(T \cup {new})
  <2>1. <<new>> \in Seq(T \cup {new})
    OBVIOUS
  <2>2. rest \in Seq(T \cup {new})
    <3>. HIDE DEF T, rest, new
    <3>. QED  BY <1>6, SeqMonotonic
  <2>. HIDE DEF T, rest, new
  <2>. QED  BY <2>1, <2>2, ConcatProperties
<1>8. \A i \in DOMAIN responses' : responses'[i] \in T \cup {new}
  <2>. HIDE DEF T, rest, new
  <2>. QED  BY <1>2, <1>7, ElementOfSeq, LenProperties
<1>9. responses' \in Seq(CachedResponses)
  <2>1. T \cup {new} \subseteq CachedResponses
    BY <1>3
  <2>. HIDE DEF T, rest, new
  <2>. QED  BY <1>2, <1>7, <2>1, SeqMonotonic
<1>10. new.entry = e
  OBVIOUS
<1>. QED  BY <1>2, <1>8, <1>9, <1>10

\* A lookup returns nothing, or an entry of the cache.
LEMMA NewestEntry ==
  ASSUME TypeOK, NEW k
  PROVE  \/ TheCache!Newest(k) = Nullopt
         \/ \E i \in DOMAIN responses : TheCache!Newest(k) = responses[i].entry
BY DEF TheCache!Newest

-----------------------------------------------------------------------------
(* Time and what the origins publish.                                       *)

\* Versions are only added, at times that go forward.
Later(p, n, q, m) ==
  /\ n <= m
  /\ \A r \in Resources :
        /\ Len(p[r]) <= Len(q[r])
        /\ \A i \in 1 .. Len(p[r]) : q[r][i] = p[r][i]
        /\ \A i \in Len(p[r]) + 1 .. Len(q[r]) : n <= q[r][i]

\* Time and new versions leave an answer as old as it was.
LEMMA StillDated ==
  ASSUME NEW p \in [Resources -> Seq(Start .. End)], NEW n \in Start .. End,
         NEW q \in [Resources -> Seq(Start .. End)], NEW m \in Start .. End,
         Later(p, n, q, m), NEW a \in Answers, DatedIn(a, p, n)
  PROVE  DatedIn(a, q, m)
<1> DEFINE r == a.resource
           d == a.head[1].time
<1>1. r \in Resources /\ a.version \in Nat
  BY DEF Answers
<1>2. /\ Len(p[r]) \in Nat /\ Len(q[r]) \in Nat /\ Len(p[r]) <= Len(q[r])
      /\ \A i \in 1 .. Len(p[r]) : p[r][i] \in Nat
      /\ \A i \in 1 .. Len(q[r]) : q[r][i] \in Nat
      /\ n \in Nat /\ m \in Nat /\ n <= m /\ Start \in Nat
  <2>1. p[r] \in Seq(Start .. End) /\ q[r] \in Seq(Start .. End)
    BY <1>1
  <2>2. \A i \in Start .. End : i \in Nat
    BY ClockFacts
  <2>3. Len(p[r]) \in Nat /\ Len(q[r]) \in Nat
    BY <2>1, LenProperties
  <2>4. /\ \A i \in 1 .. Len(p[r]) : p[r][i] \in Start .. End
        /\ \A i \in 1 .. Len(q[r]) : q[r][i] \in Start .. End
    BY <2>1, ElementOfSeq
  <2>. QED  BY <1>1, <2>2, <2>3, <2>4, ClockFacts DEF Later
<1>3. d \in Start .. n /\ a.version \in 1 .. Len(p[r])
  BY DEF DatedIn
<1>4. d \in Start .. m /\ a.version \in 1 .. Len(q[r])
  <2>1. /\ Len(p[r]) \in Nat /\ Len(q[r]) \in Nat /\ Len(p[r]) <= Len(q[r])
        /\ n \in Nat /\ m \in Nat /\ n <= m /\ Start \in Nat
    BY <1>2
  <2>. HIDE DEF d, r
  <2>. QED  BY ONLY <1>3, <2>1
<1>5. ASSUME NEW k \in a.version + 1 .. Len(q[r]) PROVE d <= q[r][k]
  <2>1. CASE k <= Len(p[r])
    <3>1. k \in a.version + 1 .. Len(p[r]) /\ k \in 1 .. Len(p[r])
      BY <1>2, <1>3, <2>1
    <3>. QED  BY <1>1, <3>1 DEF DatedIn, Later
  <2>2. CASE ~ (k <= Len(p[r]))
    <3>1. k \in Len(p[r]) + 1 .. Len(q[r]) /\ k \in 1 .. Len(q[r])
      BY <1>2, <1>3, <2>2
    <3>2. n <= q[r][k]
      BY <1>1, <3>1 DEF Later
    <3>3. d \in Int /\ d <= n /\ n \in Int /\ q[r][k] \in Int
      <4>1. q[r][k] \in Nat
        BY <1>2, <3>1
      <4>2. d \in Start .. n /\ Start \in Nat /\ n \in Nat
        BY <1>2, <1>3
      <4>3. d \in Int /\ d <= n
        <5>. HIDE DEF d
        <5>. QED  BY <4>2
      <4>. QED  BY <4>1, <4>2, <4>3
    <3>. HIDE DEF d, r
    <3>. QED  BY ONLY <3>2, <3>3
  <2>. QED  BY <2>1, <2>2
<1>. QED  BY <1>4, <1>5 DEF DatedIn

\* So they leave a cache entry what it was when it was stored.
LEMMA StillKept ==
  ASSUME NEW p \in [Resources -> Seq(Start .. End)], NEW n \in Start .. End,
         NEW q \in [Resources -> Seq(Start .. End)], NEW m \in Start .. End,
         Later(p, n, q, m), NEW e, Kept(e, p, n)
  PROVE  Kept(e, q, m)
<1>1. e.answer \in Answers /\ DatedIn(e.answer, p, n)
  BY DEF Kept, Entries
<1>2. DatedIn(e.answer, q, m)
  BY <1>1, StillDated
<1>. QED  BY <1>2 DEF Kept

\* Nothing happens in no time.
LEMMA SameTime ==
  ASSUME TypeOK, UNCHANGED <<origin, now>>
  PROVE  Later(origin, now, origin', now')
<1>1. now \in Nat /\ \A r \in Resources : Len(origin[r]) \in Nat
  BY LenProperties, ClockFacts DEF TypeOK
<1>2. \A r \in Resources : Len(origin[r]) + 1 .. Len(origin[r]) = {}
  BY <1>1
<1>. QED  BY <1>1, <1>2 DEF Later

\* A new version of a resource, of now.
LEMMA NewVersion ==
  ASSUME TypeOK, OriginCounted, NEW r \in Resources, Len(origin[r]) < MaxVersion,
         origin' = [origin EXCEPT ![r] = Append(@, now)], now' = now
  PROVE  /\ origin' \in [Resources -> Seq(Start .. End)]
         /\ OriginCounted'
         /\ Later(origin, now, origin', now')
         /\ Len(origin'[r]) = Len(origin[r]) + 1
<1>1. /\ origin \in [Resources -> Seq(Start .. End)] /\ now \in Start .. End
      /\ now \in Nat /\ MaxVersion \in Nat
  BY ClockFacts, ProxyAssumption DEF TypeOK
<1>2. /\ origin'[r] = Append(origin[r], now)
      /\ \A s \in Resources \ {r} : origin'[s] = origin[s]
  BY <1>1
<1>3. /\ Append(origin[r], now) \in Seq(Start .. End)
      /\ Len(Append(origin[r], now)) = Len(origin[r]) + 1
      /\ Append(origin[r], now)[Len(origin[r]) + 1] = now
      /\ \A i \in 1 .. Len(origin[r]) : Append(origin[r], now)[i] = origin[r][i]
  <2>1. origin[r] \in Seq(Start .. End)
    BY <1>1
  <2>. QED  BY <1>1, <2>1, AppendProperties
<1>4. \A s \in Resources : Len(origin[s]) \in Nat
  BY <1>1, LenProperties
<1>5. origin' \in [Resources -> Seq(Start .. End)]
  BY <1>1, <1>3
<1>6. OriginCounted'
  <2>1. Len(origin'[r]) \in 1 .. MaxVersion
    BY <1>1, <1>2, <1>3, <1>4
  <2>. QED  BY <1>2, <2>1 DEF OriginCounted
<1>7. Later(origin, now, origin', now')
  <2>1. ASSUME NEW s \in Resources
        PROVE  /\ Len(origin[s]) <= Len(origin'[s])
               /\ \A i \in 1 .. Len(origin[s]) : origin'[s][i] = origin[s][i]
               /\ \A i \in Len(origin[s]) + 1 .. Len(origin'[s]) : now <= origin'[s][i]
    <3>1. CASE s = r
      <4>1. \A i \in Len(origin[r]) + 1 .. Len(origin[r]) + 1 : i = Len(origin[r]) + 1
        BY <1>4
      <4>. QED  BY <1>1, <1>2, <1>3, <1>4, <3>1, <4>1
    <3>2. CASE s # r
      <4>1. origin'[s] = origin[s] /\ Len(origin'[s]) = Len(origin[s])
        BY <1>2, <3>2
      <4>2. \A i \in Len(origin[s]) + 1 .. Len(origin[s]) : FALSE
        BY <1>4
      <4>. QED  BY <1>4, <4>1, <4>2
    <3>. QED  BY <3>1, <3>2
  <2>. QED  BY <1>1, <2>1 DEF Later
<1>. QED  BY <1>2, <1>3, <1>5, <1>6, <1>7

-----------------------------------------------------------------------------
(* What one thread does leaves the others where they are.                   *)

Untouched(t) ==
  /\ pc'[t] = pc[t] /\ request'[t] = request[t] /\ peer'[t] = peer[t]
  /\ answer'[t] = answer[t] /\ sent'[t] = sent[t] /\ gone'[t] = gone[t]
  /\ got'[t] = got[t]

\* A thread whose variables do not change stays where it is.
LEMMA UntouchedAtPlace ==
  ASSUME TypeOK, TypeOK', Later(origin, now, origin', now'),
         resolved' = resolved \/ resolved' \in Hosts,
         NEW t \in Threads, AtPlace(t), Untouched(t)
  PROVE  AtPlace(t)'
<1>1. RequestAtPlace(t)'
  BY DEF AtPlace, RequestAtPlace, Untouched
<1>2. AnswerAtPlace(t)'
  <2>1. \A a \in Answers : DatedIn(a, origin, now) => DatedIn(a, origin', now')
    BY StillDated DEF TypeOK
  <2>. QED  BY <2>1 DEF AtPlace, AnswerAtPlace, Untouched
<1>3. SentAtPlace(t)'
  BY DEF AtPlace, SentAtPlace, Untouched
<1>. QED  BY <1>1, <1>2, <1>3 DEF AtPlace

\* The cache stays as good as it was while time goes on.
LEMMA CacheStays ==
  ASSUME TypeOK, TypeOK', Later(origin, now, origin', now'), CacheKept,
         responses' = responses,
         \A t \in Threads : got'[t] \in {got[t], Nullopt}
  PROVE  CacheKept'
<1>1. \A e : Kept(e, origin, now) => Kept(e, origin', now')
  BY StillKept DEF TypeOK
<1>. QED  BY <1>1 DEF CacheKept

\* A step that changes one thread's variables is judged by that thread and
\* the cache.
LEMMA OneThreadMoves ==
  ASSUME IInv, TypeOK', CacheKept', OriginCounted',
         Later(origin, now, origin', now'),
         resolved' = resolved \/ resolved' \in Hosts,
         NEW t \in Threads, AtPlace(t)', \A u \in Threads \ {t} : Untouched(u)
  PROVE  IInv'
<1>1. \A u \in Threads \ {t} : AtPlace(u)'
  BY UntouchedAtPlace DEF IInv
<1>. QED  BY <1>1 DEF IInv

\* A step that only moves a thread and sends to its client.
LEMMA QuietStep ==
  ASSUME IInv, NEW t \in Threads, NEW place \in Locations, Goto(t, pc[t], place),
         sent' \in [Threads -> Seq(Parts)], gone' \in [Threads -> BOOLEAN],
         \A u \in Threads \ {t} : sent'[u] = sent[u] /\ gone'[u] = gone[u],
         UNCHANGED <<theCache, resolved, request, exchange, environment>>,
         AtPlace(t)'
  PROVE  IInv'
<1>1. TypeOK'
  BY DEF IInv, TypeOK, Goto, theCache, exchange, environment
<1>2. Later(origin, now, origin', now')
  BY SameTime DEF IInv, environment
<1>3. CacheKept'
  BY <1>1, <1>2, CacheStays DEF IInv, theCache
<1>4. OriginCounted'
  BY DEF IInv, OriginCounted, environment
<1>5. \A u \in Threads \ {t} : Untouched(u)
  BY DEF IInv, TypeOK, Untouched, Goto, theCache, exchange, environment
<1>. QED  BY <1>1, <1>2, <1>3, <1>4, <1>5, OneThreadMoves

-----------------------------------------------------------------------------
(* The steps of a thread, one by one.                                       *)

\* handle_connection keeps the invariant: a request, an error, or no request.
LEMMA HandleConnectionIInv ==
  ASSUME IInv, NEW t \in Threads, HandleConnection(t)
  PROVE  IInv'
<1> DEFINE method == request[t].method
           place == CASE method = "GET" -> "lookup"
                      [] method = "POST" -> "forward"
                      [] method = "CONNECT" -> "resolve"
                      [] OTHER -> "close"
<1>1. /\ TypeOK /\ pc[t] = "recv" /\ pc \in [Threads -> Locations]
      /\ sent[t] = <<>> /\ answer[t] = NoAnswer
      /\ request[t] \in Requests
  BY DEF IInv, TypeOK, AtPlace, RequestAtPlace, AnswerAtPlace, SentAtPlace,
         HandleConnection, Goto
<1>2. /\ Goto(t, "recv", place)
      /\ UNCHANGED <<theCache, resolved, request, exchange, environment>>
  BY DEF HandleConnection
<1>3. place \in Locations /\ pc' \in [Threads -> Locations] /\ pc'[t] = place
  BY <1>1, <1>2 DEF Locations, Goto
<1>4. method \in {"GET", "POST", "CONNECT", "other", "invalid", "closed"}
  BY <1>1, RequestParts
<1>5. /\ sent' \in [Threads -> Seq(Parts)] /\ gone' \in [Threads -> BOOLEAN]
      /\ \A u \in Threads \ {t} : sent'[u] = sent[u] /\ gone'[u] = gone[u]
      /\ method \in {"GET", "POST", "CONNECT"} => sent'[t] = <<>>
      /\ method \notin {"GET", "POST", "CONNECT"} => gone'[t] \/ sent'[t] \in OneAnswer
  <2>1. CASE method = "invalid"
    <3>1. SendError(t, "400")
      BY <2>1 DEF HandleConnection
    <3>. QED  BY <1>1, <2>1, <3>1, SendErrorEffect
  <2>2. CASE method = "other"
    <3>1. SendError(t, "501")
      BY <2>2 DEF HandleConnection
    <3>. QED  BY <1>1, <2>2, <3>1, SendErrorEffect
  <2>3. CASE method = "closed"
    <3>1. ClientGone(t)
      BY <2>3 DEF HandleConnection
    <3>. QED  BY <1>1, <2>3, <3>1, ClientGoneEffect DEF TypeOK
  <2>4. CASE method \in {"GET", "POST", "CONNECT"}
    <3>1. UNCHANGED <<sent, gone>>
      BY <2>4 DEF HandleConnection
    <3>. QED  BY <1>1, <2>4, <3>1 DEF TypeOK
  <2>. QED  BY <1>4, <2>1, <2>2, <2>3, <2>4
<1>6. request'[t] = request[t] /\ answer'[t] = answer[t]
  BY <1>2 DEF exchange
<1>7. place = "close" <=> method \notin {"GET", "POST", "CONNECT"}
  BY <1>4
<1>8. place \in {"lookup", "forward", "resolve", "close"}
  OBVIOUS
<1>9. /\ place = "lookup" => method = "GET"
      /\ place = "forward" => method = "POST"
      /\ place = "resolve" => method = "CONNECT"
  OBVIOUS
<1>10. AtPlace(t)'
  <2>. HIDE DEF place
  <2>1. RequestAtPlace(t)'
    BY <1>3, <1>6, <1>8, <1>9 DEF RequestAtPlace
  <2>2. AnswerAtPlace(t)'
    BY <1>1, <1>3, <1>6, <1>8 DEF AnswerAtPlace
  <2>3. SentAtPlace(t)'
    BY <1>1, <1>3, <1>5, <1>6, <1>7, <1>8 DEF SentAtPlace, NoAnswer
  <2>. QED  BY <2>1, <2>2, <2>3 DEF AtPlace
<1>11. Goto(t, pc[t], place)
  BY <1>1, <1>2 DEF Goto
<1>. HIDE DEF place
<1>. QED  BY <1>2, <1>3, <1>5, <1>10, <1>11, QuietStep

\* So does the choice of processGetRequest after the lookup.
LEMMA CheckIInv ==
  ASSUME IInv, NEW t \in Threads, Check(t)
  PROVE  IInv'
<1> DEFINE place == IF Valid(t) THEN "serve" ELSE "forward"
<1>1. /\ TypeOK /\ pc[t] = "check" /\ pc \in [Threads -> Locations]
      /\ sent[t] = <<>> /\ answer[t] = NoAnswer /\ request[t].method = "GET"
  BY DEF IInv, TypeOK, AtPlace, RequestAtPlace, AnswerAtPlace, SentAtPlace, Check, Goto
<1>2. /\ Goto(t, pc[t], place) /\ UNCHANGED <<sent, gone>>
      /\ UNCHANGED <<theCache, resolved, request, exchange, environment>>
  BY DEF Check, Goto
<1>3. place \in Locations /\ pc'[t] = place /\ place \in {"serve", "forward"}
  BY <1>1, <1>2 DEF Locations, Goto
<1>4. /\ request'[t] = request[t] /\ answer'[t] = answer[t]
      /\ sent'[t] = <<>> /\ got'[t] = got[t]
  BY <1>1, <1>2 DEF exchange, theCache
<1>5. place = "serve" => got[t] # Nullopt
  BY DEF Valid
<1>6. AtPlace(t)'
  <2>. HIDE DEF place
  <2>1. RequestAtPlace(t)'
    BY <1>1, <1>3, <1>4, <1>5 DEF RequestAtPlace
  <2>2. AnswerAtPlace(t)'
    BY <1>1, <1>3, <1>4 DEF AnswerAtPlace
  <2>3. SentAtPlace(t)'
    BY <1>3, <1>4 DEF SentAtPlace
  <2>. QED  BY <2>1, <2>2, <2>3 DEF AtPlace
<1>. HIDE DEF place
<1>. QED  BY <1>1, <1>2, <1>3, <1>6, QuietStep DEF TypeOK

\* A step that ends the connection with an error before anything was sent.
LEMMA ErrorIInv ==
  ASSUME IInv, NEW t \in Threads, NEW status \in {"400", "500", "501", "502"},
         pc[t] \notin {"relay", "body", "store", "close"},
         Goto(t, pc[t], "close"), SendError(t, status),
         UNCHANGED <<theCache, resolved, request, exchange, environment>>
  PROVE  IInv'
<1>1. TypeOK /\ sent[t] = <<>> /\ answer[t] = NoAnswer /\ pc \in [Threads -> Locations]
  BY DEF IInv, TypeOK, AtPlace, AnswerAtPlace, SentAtPlace
<1>2. "close" \in Locations /\ pc'[t] = "close" /\ answer'[t] = NoAnswer
  BY <1>1 DEF Locations, Goto, exchange
<1>3. AtPlace(t)'
  <2>1. gone'[t] \/ sent'[t] \in OneAnswer
    BY <1>1, SendErrorEffect
  <2>2. RequestAtPlace(t)' /\ AnswerAtPlace(t)'
    BY <1>2 DEF RequestAtPlace, AnswerAtPlace
  <2>3. SentAtPlace(t)'
    BY <1>2, <2>1 DEF SentAtPlace, NoAnswer
  <2>. QED  BY <2>2, <2>3 DEF AtPlace
<1>4. /\ sent' \in [Threads -> Seq(Parts)] /\ gone' \in [Threads -> BOOLEAN]
      /\ \A u \in Threads \ {t} : sent'[u] = sent[u] /\ gone'[u] = gone[u]
  BY <1>1, SendErrorEffect
<1>. QED  BY <1>2, <1>3, <1>4, QuietStep

\* So do the exits of forwardRequest and the tunnel before anything was sent:
\* an exception,
LEMMA InternalErrorIInv ==
  ASSUME IInv, NEW t \in Threads, InternalError(t)
  PROVE  IInv'
BY ErrorIInv DEF InternalError

\* an origin out of reach,
LEMMA BadGatewayIInv ==
  ASSUME IInv, NEW t \in Threads, BadGateway(t)
  PROVE  IInv'
BY ErrorIInv DEF BadGateway

\* the way into forwardRequest,
LEMMA ForwardIInv ==
  ASSUME IInv, NEW t \in Threads, Forward(t)
  PROVE  IInv'
<1>1. CASE request[t].host = NoHost
  BY <1>1, ErrorIInv DEF Forward
<1>2. CASE request[t].host # NoHost
  <2>1. /\ TypeOK /\ sent[t] = <<>> /\ answer[t] = NoAnswer /\ pc[t] = "forward"
        /\ pc \in [Threads -> Locations] /\ request[t].method \in {"GET", "POST"}
    BY DEF IInv, TypeOK, AtPlace, RequestAtPlace, AnswerAtPlace, SentAtPlace, Forward
  <2>2. /\ Goto(t, pc[t], "resolve") /\ UNCHANGED <<sent, gone>>
        /\ UNCHANGED <<theCache, resolved, request, exchange, environment>>
    BY <1>2, <2>1 DEF Forward
  <2>3. "resolve" \in Locations /\ pc'[t] = "resolve"
    BY <2>1, <2>2 DEF Locations, Goto
  <2>4. AtPlace(t)'
    BY <2>1, <2>2, <2>3 DEF AtPlace, RequestAtPlace, AnswerAtPlace, SentAtPlace, exchange
  <2>. QED  BY <2>1, <2>2, <2>3, <2>4, QuietStep DEF TypeOK
<1>. QED  BY <1>1, <1>2

\* and the tunnel.
LEMMA TunnelTrafficIInv ==
  ASSUME IInv, NEW t \in Threads, TunnelTraffic(t)
  PROVE  IInv'
<1>1. /\ TypeOK /\ pc[t] = "tunnel" /\ pc \in [Threads -> Locations]
      /\ sent[t] = <<>> /\ answer[t] = NoAnswer
  BY DEF IInv, TypeOK, AtPlace, AnswerAtPlace, SentAtPlace, TunnelTraffic, Goto
<1>2. /\ Goto(t, pc[t], "close") /\ "close" \in Locations
      /\ UNCHANGED <<theCache, resolved, request, exchange, environment>>
  BY <1>1 DEF TunnelTraffic, Goto, Locations
<1>3. /\ sent' \in [Threads -> Seq(Parts)] /\ gone' \in [Threads -> BOOLEAN]
      /\ \A u \in Threads \ {t} : sent'[u] = sent[u] /\ gone'[u] = gone[u]
      /\ gone'[t] \/ sent'[t] \in OneAnswer
  <2>1. <<"200">> \in Seq(Parts) /\ <<"200">> \in OneAnswer
    BY PartsSent DEF Statuses, OneAnswer
  <2>2. CASE Send(t, <<"200">>)
    BY <1>1, <2>1, <2>2, SendEffect DEF TypeOK
  <2>3. CASE ClientGone(t)
    BY <1>1, <2>3, ClientGoneEffect DEF TypeOK
  <2>. QED  BY <2>2, <2>3 DEF TunnelTraffic
<1>4. AtPlace(t)'
  <2>1. pc'[t] = "close" /\ answer'[t] = NoAnswer
    BY <1>1, <1>2 DEF Goto, exchange
  <2>2. RequestAtPlace(t)' /\ AnswerAtPlace(t)'
    BY <2>1 DEF RequestAtPlace, AnswerAtPlace
  <2>3. SentAtPlace(t)'
    BY <1>3, <2>1 DEF SentAtPlace, NoAnswer
  <2>. QED  BY <2>2, <2>3 DEF AtPlace
<1>. QED  BY <1>2, <1>3, <1>4, QuietStep

\* The header goes out once, and a length that cannot be read is answered again.
LEMMA RelayIInv ==
  ASSUME IInv, NEW t \in Threads, Relay(t)
  PROVE  IInv'
<1>1. /\ TypeOK /\ pc[t] = "relay" /\ pc \in [Threads -> Locations]
      /\ sent[t] = <<>> /\ answer[t] \in Answers /\ DatedIn(answer[t], origin, now)
      /\ request[t].method \in {"GET", "POST"}
  BY DEF IInv, TypeOK, AtPlace, RequestAtPlace, AnswerAtPlace, SentAtPlace, Relay
<1>2. /\ UNCHANGED <<theCache, resolved, request, exchange, environment>>
      /\ UNCHANGED <<request, answer, origin, now>>
  BY DEF Relay, exchange, environment
<1>3. "close" \in Locations /\ "body" \in Locations
  BY DEF Locations
<1>4. <<"head">> \in Seq(Parts) /\ <<"head", "500">> \in Seq(Parts)
  BY PartsSent DEF Statuses
<1>5. CASE Goto(t, "relay", "close") /\ ClientGone(t)
  <2>1. /\ sent' = sent /\ gone' \in [Threads -> BOOLEAN] /\ gone'[t]
        /\ \A u \in Threads \ {t} : sent'[u] = sent[u] /\ gone'[u] = gone[u]
    BY <1>1, <1>5, ClientGoneEffect
  <2>2. pc'[t] = "close" /\ Goto(t, pc[t], "close")
    BY <1>1, <1>5 DEF Goto
  <2>3. AtPlace(t)'
    BY <2>1, <2>2 DEF AtPlace, RequestAtPlace, AnswerAtPlace, SentAtPlace
  <2>. QED  BY <1>1, <1>2, <1>3, <2>1, <2>2, <2>3, QuietStep DEF TypeOK
<1>6. CASE answer[t].kind = "length" /\ Goto(t, "relay", "close") /\ Send(t, <<"head", "500">>)
  <2>1. /\ sent' \in [Threads -> Seq(Parts)] /\ gone' = gone
        /\ sent'[t] = <<"head", "500">>
        /\ \A u \in Threads \ {t} : sent'[u] = sent[u] /\ gone'[u] = gone[u]
    BY <1>1, <1>4, <1>6, SendEffect
  <2>2. pc'[t] = "close" /\ Goto(t, pc[t], "close") /\ answer'[t].kind = "length"
    BY <1>1, <1>2, <1>6 DEF Goto
  <2>3. AtPlace(t)'
    BY <2>1, <2>2 DEF AtPlace, RequestAtPlace, AnswerAtPlace, SentAtPlace
  <2>. QED  BY <1>1, <1>2, <1>3, <2>1, <2>2, <2>3, QuietStep DEF TypeOK
<1>7. CASE answer[t].kind # "length" /\ Goto(t, "relay", "body") /\ Send(t, <<"head">>)
  <2>1. /\ sent' \in [Threads -> Seq(Parts)] /\ gone' = gone /\ sent'[t] = <<"head">>
        /\ \A u \in Threads \ {t} : sent'[u] = sent[u] /\ gone'[u] = gone[u]
    BY <1>1, <1>4, <1>7, SendEffect
  <2>2. pc'[t] = "body" /\ Goto(t, pc[t], "body") /\ answer'[t].kind # "length"
    BY <1>1, <1>2, <1>7 DEF Goto
  <2>3. AtPlace(t)'
    BY <1>1, <1>2, <2>1, <2>2 DEF AtPlace, RequestAtPlace, AnswerAtPlace, SentAtPlace
  <2>. QED  BY <1>1, <1>2, <1>3, <2>1, <2>2, <2>3, QuietStep DEF TypeOK
<1>. QED  BY <1>5, <1>6, <1>7 DEF Relay

\* The body follows its header, and only a GET's 200 goes to the cache.
LEMMA ReceiveBodyIInv ==
  ASSUME IInv, NEW t \in Threads, ReceiveBody(t)
  PROVE  IInv'
<1> DEFINE place == IF IsCacheable(t) THEN "store" ELSE "close"
<1>1. /\ TypeOK /\ pc[t] = "body" /\ pc \in [Threads -> Locations]
      /\ sent \in [Threads -> Seq(Parts)]
      /\ sent[t] = <<"head">> /\ answer[t] \in Answers /\ DatedIn(answer[t], origin, now)
      /\ answer[t].kind # "length"
  BY DEF IInv, TypeOK, AtPlace, RequestAtPlace, AnswerAtPlace, SentAtPlace, ReceiveBody
<1>2. /\ UNCHANGED <<theCache, resolved, request, exchange, environment>>
      /\ UNCHANGED <<request, answer, origin, now>>
  BY DEF ReceiveBody, exchange, environment
<1>3. "close" \in Locations /\ "store" \in Locations
  BY DEF Locations
<1>4. CASE Goto(t, "body", "close") /\ ClientGone(t)
  <2>1. /\ sent' = sent /\ gone' \in [Threads -> BOOLEAN] /\ gone'[t]
        /\ \A u \in Threads \ {t} : sent'[u] = sent[u] /\ gone'[u] = gone[u]
    BY <1>1, <1>4, ClientGoneEffect
  <2>2. pc'[t] = "close" /\ Goto(t, pc[t], "close")
    BY <1>1, <1>4 DEF Goto
  <2>3. AtPlace(t)'
    BY <2>1, <2>2 DEF AtPlace, RequestAtPlace, AnswerAtPlace, SentAtPlace
  <2>. QED  BY <1>1, <1>2, <1>3, <2>1, <2>2, <2>3, QuietStep
<1>5. CASE Goto(t, "body", place) /\ Send(t, <<"body">>)
  <2>1. /\ sent' \in [Threads -> Seq(Parts)] /\ gone' = gone
        /\ sent'[t] = <<"head", "body">>
        /\ \A u \in Threads \ {t} : sent'[u] = sent[u] /\ gone'[u] = gone[u]
    BY <1>1, <1>5, SendEffect, PartsSent
  <2>2. /\ pc'[t] = place /\ Goto(t, pc[t], place) /\ place \in {"store", "close"}
        /\ place = "store" => request[t].method = "GET" /\ answer[t].kind = "200"
    BY <1>1, <1>5 DEF Goto, IsCacheable
  <2> HIDE DEF place
  <2>3. RequestAtPlace(t)'
    BY <1>2, <2>2 DEF RequestAtPlace
  <2>4. AnswerAtPlace(t)'
    BY <1>1, <1>2, <2>2 DEF AnswerAtPlace
  <2>5. SentAtPlace(t)'
    BY <1>1, <1>2, <2>1, <2>2 DEF SentAtPlace, OneAnswer
  <2>. QED
    BY <1>1, <1>2, <1>3, <2>1, <2>2, <2>3, <2>4, <2>5, QuietStep DEF AtPlace, TypeOK
<1>. QED  BY <1>4, <1>5 DEF ReceiveBody

\* What a lookup returns is an entry of the cache.
LEMMA LookupIInv ==
  ASSUME IInv, NEW t \in Threads, Lookup(t)
  PROVE  IInv'
<1> DEFINE found == TheCache!Newest(Url(request[t]))
<1>1. /\ TypeOK /\ CacheKept /\ pc[t] = "lookup" /\ pc \in [Threads -> Locations]
      /\ sent[t] = <<>> /\ answer[t] = NoAnswer /\ request[t].method = "GET"
      /\ got \in [Threads -> Entries \cup {Nullopt}]
  BY DEF IInv, TypeOK, AtPlace, RequestAtPlace, AnswerAtPlace, SentAtPlace, Lookup, Goto
<1>2. /\ pc' = [pc EXCEPT ![t] = "check"]
      /\ got' = [got EXCEPT ![t] = found] /\ responses' = responses
      /\ UNCHANGED <<resolved, request, peer, answer, sent, gone, origin, connections, now>>
  BY DEF Lookup, Goto, TheCache!Get, exchange, environment
<1>3. found = Nullopt \/ Kept(found, origin, now)
  BY <1>1, NewestEntry DEF CacheKept
<1>4. found \in Entries \cup {Nullopt}
  BY <1>3 DEF Kept
<1> HIDE DEF found
<1>5. TypeOK'
  <2>1. got' \in [Threads -> Entries \cup {Nullopt}] /\ pc' \in [Threads -> Locations]
    BY <1>1, <1>2, <1>4 DEF Locations
  <2>. QED  BY <1>1, <1>2, <2>1 DEF TypeOK
<1>6. CacheKept'
  BY <1>1, <1>2, <1>3 DEF CacheKept
<1>7. Later(origin, now, origin', now') /\ OriginCounted'
  BY <1>1, <1>2, SameTime DEF IInv, OriginCounted
<1>8. \A u \in Threads \ {t} : Untouched(u)
  BY <1>1, <1>2 DEF Untouched
<1>9. AtPlace(t)'
  <2>1. pc'[t] = "check"
    BY <1>1, <1>2
  <2>. QED
    BY <1>1, <1>2, <2>1 DEF AtPlace, RequestAtPlace, AnswerAtPlace, SentAtPlace
<1>. QED  BY <1>2, <1>5, <1>6, <1>7, <1>8, <1>9, OneThreadMoves

\* A cached answer goes out whole, and it is a 200.
LEMMA ServeIInv ==
  ASSUME IInv, NEW t \in Threads, Serve(t)
  PROVE  IInv'
<1>1. /\ TypeOK /\ CacheKept /\ pc[t] = "serve" /\ pc \in [Threads -> Locations]
      /\ sent[t] = <<>> /\ got[t] # Nullopt
      /\ answer \in [Threads -> Answers \cup {NoAnswer}]
  BY DEF IInv, TypeOK, AtPlace, RequestAtPlace, SentAtPlace, Serve, Goto
<1>2. /\ pc' = [pc EXCEPT ![t] = "close"]
      /\ answer' = [answer EXCEPT ![t] = got[t].answer]
      /\ UNCHANGED <<responses, got, resolved, request, peer, origin, connections, now>>
  BY DEF Serve, Goto, theCache, environment
<1>3. got[t].answer \in Answers /\ got[t].answer.kind = "200"
  BY <1>1 DEF CacheKept, Kept, Entries
<1>4. /\ sent' \in [Threads -> Seq(Parts)] /\ gone' \in [Threads -> BOOLEAN]
      /\ \A u \in Threads \ {t} : sent'[u] = sent[u] /\ gone'[u] = gone[u]
      /\ gone'[t] \/ sent'[t] \in OneAnswer
  <2>1. <<"head", "body">> \in Seq(Parts) /\ <<"head", "body">> \in OneAnswer
    BY PartsSent DEF OneAnswer
  <2>2. CASE Send(t, <<"head", "body">>)
    BY <1>1, <2>1, <2>2, SendEffect DEF TypeOK
  <2>3. CASE ClientGone(t)
    BY <1>1, <2>3, ClientGoneEffect DEF TypeOK
  <2>. QED  BY <2>2, <2>3 DEF Serve
<1>5. TypeOK'
  <2>1. answer' \in [Threads -> Answers \cup {NoAnswer}] /\ pc' \in [Threads -> Locations]
    BY <1>1, <1>2, <1>3 DEF Locations
  <2>. QED  BY <1>1, <1>2, <1>4, <2>1 DEF TypeOK
<1>6. CacheKept'
  BY <1>1, <1>2 DEF CacheKept
<1>7. Later(origin, now, origin', now') /\ OriginCounted'
  BY <1>1, <1>2, SameTime DEF IInv, OriginCounted
<1>8. \A u \in Threads \ {t} : Untouched(u)
  BY <1>1, <1>2, <1>4 DEF Untouched
<1>9. AtPlace(t)'
  <2>1. pc'[t] = "close" /\ answer'[t].kind = "200"
    BY <1>1, <1>2, <1>3
  <2>2. RequestAtPlace(t)' /\ AnswerAtPlace(t)'
    BY <2>1 DEF RequestAtPlace, AnswerAtPlace
  <2>3. SentAtPlace(t)'
    BY <1>4, <2>1 DEF SentAtPlace
  <2>. QED  BY <2>2, <2>3 DEF AtPlace
<1>. QED  BY <1>2, <1>5, <1>6, <1>7, <1>8, <1>9, OneThreadMoves

\* The resolver returns a host, its own or another thread's.
LEMMA ResolveIInv ==
  ASSUME IInv, NEW t \in Threads, Resolve(t)
  PROVE  IInv'
<1>1. /\ TypeOK /\ CacheKept /\ pc[t] = "resolve" /\ pc \in [Threads -> Locations]
      /\ sent[t] = <<>> /\ answer[t] = NoAnswer /\ request[t] \in Requests \cup {NoRequest}
      /\ request[t].method \in {"GET", "POST", "CONNECT"}
  BY DEF IInv, TypeOK, AtPlace, RequestAtPlace, AnswerAtPlace, SentAtPlace, Resolve, Goto
<1>2. request[t].host \in Hosts
  BY <1>1, RequestParts DEF Resolve
<1>3. /\ pc' = [pc EXCEPT ![t] = "connect"] /\ resolved' = request[t].host
      /\ UNCHANGED <<responses, got, request, peer, answer, sent, gone, origin,
                     connections, now>>
  BY DEF Resolve, Goto, theCache, exchange, environment
<1>4. TypeOK'
  <2>1. resolved' \in Hosts \cup {NoHost} /\ pc' \in [Threads -> Locations]
    BY <1>1, <1>2, <1>3 DEF Locations
  <2>. QED  BY <1>1, <1>3, <2>1 DEF TypeOK
<1>5. CacheKept'
  BY <1>1, <1>3 DEF CacheKept
<1>6. Later(origin, now, origin', now') /\ OriginCounted'
  BY <1>1, <1>3, SameTime DEF IInv, OriginCounted
<1>7. \A u \in Threads \ {t} : Untouched(u)
  BY <1>1, <1>3 DEF Untouched
<1>8. AtPlace(t)'
  <2>1. pc'[t] = "connect" /\ resolved' \in Hosts
    BY <1>1, <1>2, <1>3
  <2>. QED
    BY <1>1, <1>3, <2>1 DEF AtPlace, RequestAtPlace, AnswerAtPlace, SentAtPlace
<1>. QED  BY <1>2, <1>3, <1>4, <1>5, <1>6, <1>7, <1>8, OneThreadMoves

\* A connected thread has a peer.
LEMMA ConnectIInv ==
  ASSUME IInv, NEW t \in Threads, Connect(t)
  PROVE  IInv'
<1> DEFINE place == IF request[t].method = "CONNECT" THEN "tunnel" ELSE "await"
           at == <<resolved, request[t].port>>
<1>1. /\ TypeOK /\ CacheKept /\ pc[t] = "connect" /\ pc \in [Threads -> Locations]
      /\ sent[t] = <<>> /\ answer[t] = NoAnswer /\ request[t] \in Requests \cup {NoRequest}
      /\ request[t].method \in {"GET", "POST", "CONNECT"}
      /\ resolved \in Hosts /\ peer \in [Threads -> Hosts \X Ports \cup {NoPeer}]
  BY DEF IInv, TypeOK, AtPlace, RequestAtPlace, AnswerAtPlace, SentAtPlace, Connect, Goto
<1>2. at \in Hosts \X Ports
  BY <1>1, RequestParts
<1>3. /\ pc' = [pc EXCEPT ![t] = place] /\ peer' = [peer EXCEPT ![t] = at]
      /\ UNCHANGED <<responses, got, resolved, request, answer, sent, gone, origin,
                     connections, now>>
  BY DEF Connect, Goto, theCache, environment
<1>4. /\ place \in {"tunnel", "await"} /\ place \in Locations
      /\ place = "await" => request[t].method \in {"GET", "POST"}
  BY <1>1 DEF Locations
<1> HIDE DEF place, at
<1>5. TypeOK'
  <2>1. peer' \in [Threads -> Hosts \X Ports \cup {NoPeer}] /\ pc' \in [Threads -> Locations]
    BY <1>1, <1>2, <1>3, <1>4
  <2>. QED  BY <1>1, <1>3, <2>1 DEF TypeOK
<1>6. CacheKept'
  BY <1>1, <1>3 DEF CacheKept
<1>7. Later(origin, now, origin', now') /\ OriginCounted'
  BY <1>1, <1>3, SameTime DEF IInv, OriginCounted
<1>8. \A u \in Threads \ {t} : Untouched(u)
  BY <1>1, <1>3 DEF Untouched
<1>9. AtPlace(t)'
  <2>1. pc'[t] = place /\ peer'[t] \in Hosts \X Ports
    BY <1>1, <1>2, <1>3
  <2>. QED
    BY <1>1, <1>3, <1>4, <2>1 DEF AtPlace, RequestAtPlace, AnswerAtPlace, SentAtPlace
<1>. QED  BY <1>3, <1>5, <1>6, <1>7, <1>8, <1>9, OneThreadMoves

\* The header an origin sends: the Date, then a policy that has none.
LEMMA DatedHead ==
  ASSUME NEW date \in TimeLines, NEW policy \in Policies
  PROVE  /\ <<date>> \o policy \in Seq(Lines) /\ Len(<<date>> \o policy) > 0
         /\ (<<date>> \o policy)[1] = date
         /\ \A i \in 2 .. Len(<<date>> \o policy) :
               (<<date>> \o policy)[i].name # "Date"
<1> DEFINE head == <<date>> \o policy
<1>1. date \in Lines
  BY DEF Lines
<1>2. policy \in Seq(Lines) /\ \A i \in 1 .. Len(policy) : policy[i].name # "Date"
  BY ProxyAssumption, LenProperties
<1>3. <<date>> \in Seq(Lines) /\ Len(<<date>>) = 1 /\ <<date>>[1] = date
  BY <1>1
<1>4. Len(policy) \in Nat
  BY <1>2, LenProperties
<1>5. /\ head \in Seq(Lines) /\ Len(head) = 1 + Len(policy)
      /\ \A i \in 1 .. 1 + Len(policy) :
            head[i] = IF i <= 1 THEN date ELSE policy[i - 1]
  <2> DEFINE first == <<date>>
  <2>1. first \in Seq(Lines) /\ Len(first) = 1 /\ first[1] = date
    BY <1>3
  <2> HIDE DEF first
  <2>2. head = first \o policy
    BY DEF first
  <2>3. /\ first \o policy \in Seq(Lines)
        /\ Len(first \o policy) = Len(first) + Len(policy)
        /\ \A i \in 1 .. Len(first) + Len(policy) :
              (first \o policy)[i] = IF i <= Len(first) THEN first[i]
                                     ELSE policy[i - Len(first)]
    BY <1>2, <2>1, ConcatProperties
  <2>4. \A i \in 1 .. 1 + Len(policy) : i <= 1 => i = 1
    BY <1>4
  <2>. QED  BY <2>1, <2>2, <2>3, <2>4
<1>6. \A i \in 2 .. 1 + Len(policy) :
         i \in 1 .. 1 + Len(policy) /\ ~ (i <= 1) /\ i - 1 \in 1 .. Len(policy)
  BY <1>4
<1>7. 1 \in 1 .. 1 + Len(policy)
  BY <1>4
<1>8. /\ head \in Seq(Lines) /\ Len(head) > 0 /\ head[1] = date
      /\ \A i \in 2 .. Len(head) : head[i].name # "Date"
  <2> HIDE DEF head
  <2>. QED  BY <1>2, <1>4, <1>5, <1>6, <1>7
<1>. QED  BY <1>8

\* An origin dates its answer with the present and the version it has now.
LEMMA OriginAnswersIInv ==
  ASSUME IInv, NEW t \in Threads, NEW kind \in Kinds, NEW policy \in Policies,
         OriginAnswers(t, kind, policy)
  PROVE  IInv'
<1> DEFINE r == <<peer[t][1], peer[t][2], request[t].uri>>
           post == request[t].method = "POST" /\ kind = "200"
           date == [name |-> "Date", time |-> now]
           head == <<date>> \o policy
           a == [resource |-> r, version |-> Len(origin'[r]), kind |-> kind,
                 head |-> head]
<1>1. /\ TypeOK /\ CacheKept /\ OriginCounted
      /\ pc[t] = "await" /\ pc \in [Threads -> Locations]
      /\ sent[t] = <<>> /\ request[t] \in Requests \cup {NoRequest}
      /\ request[t].method \in {"GET", "POST"}
      /\ peer[t] \in Hosts \X Ports
      /\ answer \in [Threads -> Answers \cup {NoAnswer}]
      /\ now \in Start .. End /\ origin \in [Resources -> Seq(Start .. End)]
  BY DEF IInv, TypeOK, AtPlace, RequestAtPlace, AnswerAtPlace, SentAtPlace,
         OriginAnswers, Goto
<1>2. r \in Resources
  BY <1>1, RequestParts DEF Resources
<1>3. /\ pc' = [pc EXCEPT ![t] = "relay"]
      /\ answer' = [answer EXCEPT ![t] = a]
      /\ UNCHANGED <<responses, got, resolved, request, peer, sent, gone,
                     connections, now>>
  BY DEF OriginAnswers, Goto, theCache
<1>4. /\ head \in Seq(Lines) /\ Len(head) > 0 /\ head[1] = date
      /\ \A i \in 2 .. Len(head) : head[i].name # "Date"
  <2>1. date \in TimeLines
    BY <1>1, ClockFacts DEF TimeLines
  <2> HIDE DEF date
  <2>. QED  BY <2>1, DatedHead
<1>5. /\ origin' \in [Resources -> Seq(Start .. End)] /\ OriginCounted'
      /\ Later(origin, now, origin', now')
  <2>1. CASE post
    <3>1. Len(origin[r]) < MaxVersion /\ origin' = [origin EXCEPT ![r] = Append(@, now)]
      BY <2>1 DEF OriginAnswers
    <3>. HIDE DEF r
    <3>. QED  BY <1>1, <1>2, <1>3, <3>1, NewVersion
  <2>2. CASE ~ post
    <3>1. origin' = origin
      BY <2>2 DEF OriginAnswers
    <3>. QED  BY <1>1, <1>3, <3>1, SameTime DEF OriginCounted
  <2>. QED  BY <2>1, <2>2
<1> HIDE DEF r, date, head
<1>6. Len(origin'[r]) \in 1 .. MaxVersion
  BY <1>2, <1>5 DEF OriginCounted
<1>7. a \in Answers
  BY <1>2, <1>4, <1>6 DEF Answers, Kinds
<1>8. DatedIn(a, origin', now')
  <2>1. date.name = "Date" /\ date.time = now
    BY DEF date
  <2>2. now \in Start .. now
    BY <1>1, ClockFacts
  <2>3. /\ a.head = head /\ a.resource = r /\ a.version = Len(origin'[r])
    OBVIOUS
  <2>4. Len(origin'[r]) \in Nat /\ Len(origin'[r]) \in 1 .. Len(origin'[r])
    BY <1>6, ProxyAssumption
  <2>5. \A k \in Len(origin'[r]) + 1 .. Len(origin'[r]) : FALSE
    BY <2>4
  <2> HIDE DEF a
  <2>. QED  BY <1>3, <1>4, <2>1, <2>2, <2>3, <2>4, <2>5 DEF DatedIn
<1> HIDE DEF a
<1>9. TypeOK'
  <2>1. answer' \in [Threads -> Answers \cup {NoAnswer}] /\ pc' \in [Threads -> Locations]
    BY <1>1, <1>3, <1>7 DEF Locations
  <2>. QED  BY <1>1, <1>3, <1>5, <2>1 DEF TypeOK
<1>10. CacheKept'
  BY <1>1, <1>3, <1>5, <1>9, CacheStays
<1>11. \A u \in Threads \ {t} : Untouched(u)
  BY <1>1, <1>3 DEF Untouched
<1>12. AtPlace(t)'
  <2>1. pc'[t] = "relay" /\ answer'[t] = a /\ sent'[t] = <<>> /\ request'[t] = request[t]
    BY <1>1, <1>3
  <2>. QED
    BY <1>1, <1>7, <1>8, <2>1 DEF AtPlace, RequestAtPlace, AnswerAtPlace, SentAtPlace
<1>. QED  BY <1>3, <1>5, <1>9, <1>10, <1>11, <1>12, OneThreadMoves

\* What is put in the cache is a storable answer to a GET.
LEMMA StoreIInv ==
  ASSUME IInv, NEW t \in Threads, Store(t)
  PROVE  IInv'
<1> DEFINE parsed == Parse(answer[t].head)
           e == [answer |-> answer[t], method |-> request[t].method,
                 expiry |-> Expiry(parsed, now)]
           k == Url(request[t])
<1>1. /\ TypeOK /\ CacheKept /\ pc[t] = "store" /\ pc \in [Threads -> Locations]
      /\ answer[t] \in Answers /\ DatedIn(answer[t], origin, now)
      /\ answer[t].kind = "200" /\ sent[t] = <<"head", "body">>
      /\ request[t] \in Requests \cup {NoRequest} /\ request[t].method = "GET"
      /\ now \in Start .. End
  BY DEF IInv, TypeOK, AtPlace, RequestAtPlace, AnswerAtPlace, SentAtPlace, Store, Goto
<1>2. /\ pc' = [pc EXCEPT ![t] = "close"]
      /\ UNCHANGED <<resolved, request, peer, answer, sent, gone, origin,
                     connections, now>>
  BY DEF Store, Goto, exchange, environment
<1>3. k \in (Hosts \cup {NoHost}) \X Uris
  BY <1>1, RequestParts DEF Url
<1>4. answer[t].head \in Seq(Lines)
  BY <1>1 DEF Answers
<1>5. /\ Expiry(parsed, now) \in [creation_time : Times, expires_time : Int,
                                  requires_validation : BOOLEAN]
      /\ Expiry(parsed, now).creation_time = now
  BY <1>1, <1>4, ExpiryInRange
<1>6. /\ e.answer = answer[t] /\ e.method = request[t].method
      /\ e.expiry = Expiry(parsed, now)
  OBVIOUS
<1>7. e \in Entries
  BY <1>1, <1>5 DEF Entries
<1>8. \/ IsStorable(parsed) /\ TheCache!Put(k, e)
      \/ UNCHANGED theCache
  BY DEF Store
<1> HIDE DEF k, e
<1>9. IsStorable(parsed) => Kept(e, origin, now)
  BY <1>1, <1>5, <1>6, <1>7 DEF Kept
<1>10. /\ responses' \in Seq(CachedResponses) /\ got' = got
       /\ \A i \in DOMAIN responses' :
             \/ Kept(responses'[i].entry, origin, now)
             \/ \E j \in DOMAIN responses : responses'[i] = responses[j]
  <2>1. CASE IsStorable(parsed) /\ TheCache!Put(k, e)
    <3>1. /\ responses' \in Seq(CachedResponses) /\ got' = got
          /\ \A i \in DOMAIN responses' :
                \/ responses'[i].entry = e
                \/ \E j \in DOMAIN responses : responses'[i] = responses[j]
      BY <1>1, <1>3, <1>7, <2>1, PutEffect
    <3>. QED  BY <1>9, <2>1, <3>1
  <2>2. CASE UNCHANGED theCache
    BY <1>1, <2>2 DEF theCache, TypeOK, CachedResponses
  <2>. QED  BY <1>8, <2>1, <2>2
<1>11. TypeOK'
  <2>1. pc' \in [Threads -> Locations]
    BY <1>1, <1>2 DEF Locations
  <2>2. responses' \in Seq([key : (Hosts \cup {NoHost}) \X Uris, entry : Entries])
    BY <1>10 DEF CachedResponses
  <2>. QED  BY <1>1, <1>2, <1>10, <2>1, <2>2 DEF TypeOK
<1>12. CacheKept'
  <2>1. \A i \in DOMAIN responses' : Kept(responses'[i].entry, origin, now)
    BY <1>1, <1>10 DEF CacheKept
  <2>. QED  BY <1>1, <1>2, <1>10, <2>1 DEF CacheKept
<1>13. Later(origin, now, origin', now') /\ OriginCounted'
  BY <1>1, <1>2, SameTime DEF IInv, OriginCounted
<1>14. \A u \in Threads \ {t} : Untouched(u)
  BY <1>1, <1>2, <1>10 DEF Untouched
<1>15. AtPlace(t)'
  <2>1. pc'[t] = "close" /\ answer'[t].kind = "200" /\ sent'[t] = <<"head", "body">>
    BY <1>1, <1>2
  <2>2. RequestAtPlace(t)' /\ AnswerAtPlace(t)'
    BY <2>1 DEF RequestAtPlace, AnswerAtPlace
  <2>3. SentAtPlace(t)'
    BY <2>1 DEF SentAtPlace, OneAnswer
  <2>. QED  BY <2>2, <2>3 DEF AtPlace
<1>. QED  BY <1>2, <1>11, <1>12, <1>13, <1>14, <1>15, OneThreadMoves

\* A thread that is idle is at its place.
LEMMA IdleAtPlace ==
  ASSUME NEW t \in Threads, pc[t] = "idle", answer[t] = NoAnswer, sent[t] = <<>>
  PROVE  AtPlace(t)
BY DEF AtPlace, RequestAtPlace, AnswerAtPlace, SentAtPlace

\* A connection that has been closed leaves its thread as it was at first.
LEMMA CloseIInv ==
  ASSUME IInv, NEW t \in Threads, Close(t)
  PROVE  IInv'
<1>1. TypeOK /\ CacheKept /\ pc \in [Threads -> Locations]
  BY DEF IInv, TypeOK
<1>2. /\ pc' = [pc EXCEPT ![t] = "idle"]
      /\ request' = [request EXCEPT ![t] = NoRequest]
      /\ got' = [got EXCEPT ![t] = Nullopt]
      /\ peer' = [peer EXCEPT ![t] = NoPeer]
      /\ answer' = [answer EXCEPT ![t] = NoAnswer]
      /\ sent' = [sent EXCEPT ![t] = <<>>]
      /\ gone' = [gone EXCEPT ![t] = FALSE]
      /\ UNCHANGED <<responses, resolved, origin, connections, now>>
  BY DEF Close, Goto, environment
<1>3. TypeOK'
  BY <1>1, <1>2, PartsSent DEF TypeOK, Locations
<1>4. Later(origin, now, origin', now') /\ OriginCounted'
  BY <1>1, <1>2, SameTime DEF IInv, OriginCounted
<1>5. CacheKept'
  <2>1. \A u \in Threads : got'[u] \in {got[u], Nullopt}
    BY <1>1, <1>2 DEF TypeOK
  <2>. QED  BY <1>1, <1>2, <1>3, <1>4, <2>1, CacheStays
<1>6. \A u \in Threads \ {t} : Untouched(u)
  BY <1>1, <1>2 DEF Untouched, TypeOK
<1>7. AtPlace(t)'
  <2>1. pc'[t] = "idle" /\ answer'[t] = NoAnswer /\ sent'[t] = <<>>
    BY <1>1, <1>2 DEF TypeOK
  <2>. QED  BY <2>1 DEF AtPlace, RequestAtPlace, AnswerAtPlace, SentAtPlace
<1>. QED  BY <1>2, <1>3, <1>4, <1>5, <1>6, <1>7, OneThreadMoves

\* A new connection starts with a request nobody has answered.
LEMMA AcceptIInv ==
  ASSUME IInv, NEW t \in Threads, NEW req \in Requests, Accept(t, req)
  PROVE  IInv'
<1>1. /\ TypeOK /\ CacheKept /\ pc[t] = "idle" /\ pc \in [Threads -> Locations]
      /\ sent[t] = <<>> /\ answer[t] = NoAnswer
      /\ connections \in 0 .. MaxConnections
  BY DEF IInv, TypeOK, AtPlace, AnswerAtPlace, SentAtPlace, Accept, Goto
<1>2. /\ pc' = [pc EXCEPT ![t] = "recv"]
      /\ request' = [request EXCEPT ![t] = req]
      /\ connections < MaxConnections /\ connections' = connections + 1
      /\ UNCHANGED <<responses, got, resolved, peer, answer, sent, gone, origin, now>>
  BY DEF Accept, Goto, theCache, exchange
<1>3. TypeOK'
  <2>1. connections' \in 0 .. MaxConnections
    BY <1>1, <1>2, ProxyAssumption
  <2>2. pc' \in [Threads -> Locations] /\ request' \in [Threads -> Requests \cup {NoRequest}]
    BY <1>1, <1>2 DEF TypeOK, Locations
  <2>. QED  BY <1>1, <1>2, <2>1, <2>2 DEF TypeOK
<1>4. Later(origin, now, origin', now') /\ OriginCounted' /\ CacheKept'
  BY <1>1, <1>2, SameTime DEF IInv, OriginCounted, CacheKept
<1>5. \A u \in Threads \ {t} : Untouched(u)
  BY <1>1, <1>2 DEF Untouched, TypeOK
<1>6. AtPlace(t)'
  <2>1. /\ pc'[t] = "recv" /\ request'[t] = req /\ answer'[t] = NoAnswer
        /\ sent'[t] = <<>>
    BY <1>1, <1>2 DEF TypeOK
  <2>. QED  BY <2>1 DEF AtPlace, RequestAtPlace, AnswerAtPlace, SentAtPlace
<1>. QED  BY <1>2, <1>3, <1>4, <1>5, <1>6, OneThreadMoves

-----------------------------------------------------------------------------
(* The process and what is around it.                                       *)

\* A process that has just started has no connection and an empty cache.
LEMMA FreshStart ==
  ASSUME TypeOK, TypeOK', OriginCounted, UNCHANGED environment, responses' = <<>>,
         got' = All(Nullopt), pc' = All("idle"), answer' = All(NoAnswer),
         sent' = All(<<>>)
  PROVE  IInv'
<1>1. CacheKept'
  BY EmptySeq DEF CacheKept, All
<1>2. OriginCounted'
  BY DEF OriginCounted, environment
<1>3. \A t \in Threads : AtPlace(t)'
  <2>1. \A t \in Threads : pc'[t] = "idle" /\ answer'[t] = NoAnswer /\ sent'[t] = <<>>
    BY DEF All
  <2>. QED  BY <2>1 DEF AtPlace, RequestAtPlace, AnswerAtPlace, SentAtPlace
<1>. QED  BY <1>1, <1>2, <1>3 DEF IInv

\* So a SIGPIPE and the restart keep the invariant.
LEMMA SigpipeIInv ==
  ASSUME IInv, Sigpipe
  PROVE  IInv'
<1>1. TypeOK'
  <2>1. \A S : <<>> \in Seq(S)
    BY EmptySeq
  <2>. QED  BY <2>1 DEF IInv, TypeOK, Sigpipe, All, Locations, environment
<1>. QED  BY <1>1, FreshStart DEF IInv, Sigpipe

\* What happens around the proxy moves no thread.
LEMMA AroundIInv ==
  ASSUME IInv, TypeOK', OriginCounted', Later(origin, now, origin', now'),
         UNCHANGED <<responses, got, resolved, pc, request, peer, answer, sent, gone>>
  PROVE  IInv'
<1>1. CacheKept'
  BY CacheStays DEF IInv
<1>2. \A t \in Threads : AtPlace(t)'
  <2>1. \A t \in Threads : Untouched(t)
    BY DEF Untouched
  <2>. QED  BY <2>1, UntouchedAtPlace DEF IInv
<1>. QED  BY <1>1, <1>2 DEF IInv

\* A new version is dated no earlier than the answers that went out before it.
LEMMA PublishIInv ==
  ASSUME IInv, NEW r \in Resources, Publish(r)
  PROVE  IInv'
<1>1. /\ Len(origin[r]) < MaxVersion /\ origin' = [origin EXCEPT ![r] = Append(@, now)]
      /\ UNCHANGED <<responses, got, resolved, pc, request, peer, answer, sent, gone,
                     connections, now>>
  BY DEF Publish, theCache, exchange
<1>2. /\ origin' \in [Resources -> Seq(Start .. End)] /\ OriginCounted'
      /\ Later(origin, now, origin', now')
  BY <1>1, NewVersion DEF IInv
<1>3. TypeOK'
  BY <1>1, <1>2 DEF IInv, TypeOK
<1>. QED  BY <1>1, <1>2, <1>3, AroundIInv

\* The clock disturbs nothing.
LEMMA TickIInv ==
  ASSUME IInv, Tick
  PROVE  IInv'
<1>1. /\ now < End /\ now' = now + 1
      /\ UNCHANGED <<responses, got, resolved, pc, request, peer, answer, sent, gone,
                     origin, connections>>
  BY DEF Tick, theCache, exchange
<1>2. now \in Start .. End /\ now' \in Start .. End /\ now \in Nat /\ now <= now'
  BY <1>1, ClockFacts DEF IInv, TypeOK
<1>3. TypeOK' /\ OriginCounted'
  BY <1>1, <1>2 DEF IInv, TypeOK, OriginCounted
<1>4. Later(origin, now, origin', now')
  <2>1. \A r \in Resources : Len(origin[r]) \in Nat
    BY LenProperties DEF IInv, TypeOK
  <2>2. \A r \in Resources : \A i \in Len(origin[r]) + 1 .. Len(origin[r]) : FALSE
    BY <2>1
  <2>. QED  BY <1>1, <1>2, <2>1, <2>2 DEF Later
<1>. QED  BY <1>1, <1>3, <1>4, AroundIInv

-----------------------------------------------------------------------------
(* The invariant holds.                                                     *)

\* The program starts within the invariant,
LEMMA InitIInv == Init => IInv
<1>1. SUFFICES ASSUME Init PROVE IInv
  OBVIOUS
<1>2. /\ responses = <<>> /\ got = [t \in Threads |-> Nullopt] /\ resolved = NoHost
      /\ pc = All("idle") /\ request = All(NoRequest) /\ peer = All(NoPeer)
      /\ answer = All(NoAnswer) /\ sent = All(<<>>) /\ gone = All(FALSE)
      /\ origin = [r \in Resources |-> <<Start>>] /\ connections = 0 /\ now = Start
  BY <1>1 DEF Init, TheCache!Init
<1>3. \A S : <<>> \in Seq(S)
  BY EmptySeq
<1>4. <<Start>> \in Seq(Start .. End) /\ Len(<<Start>>) = 1
  BY ClockFacts
<1>5. TypeOK
  BY <1>2, <1>3, <1>4, ClockFacts, ProxyAssumption DEF TypeOK, All, Locations
<1>6. CacheKept
  BY <1>2, EmptySeq DEF CacheKept
<1>7. OriginCounted
  BY <1>2, <1>4, ProxyAssumption DEF OriginCounted
<1>8. \A t \in Threads : AtPlace(t)
  <2>1. \A t \in Threads : pc[t] = "idle" /\ answer[t] = NoAnswer /\ sent[t] = <<>>
    BY <1>2 DEF All
  <2>. QED  BY <2>1, IdleAtPlace
<1>. QED  BY <1>5, <1>6, <1>7, <1>8 DEF IInv

\* every step of a thread keeps it,
LEMMA StepIInv ==
  ASSUME IInv, NEW t \in Threads, Step(t)
  PROVE  IInv'
<1>1. CASE \E kind \in Kinds, policy \in Policies : OriginAnswers(t, kind, policy)
  BY <1>1, OriginAnswersIInv
<1>2. CASE HandleConnection(t) \/ Lookup(t) \/ Check(t) \/ Serve(t) \/ Forward(t)
  BY <1>2, HandleConnectionIInv, LookupIInv, CheckIInv, ServeIInv, ForwardIInv
<1>3. CASE InternalError(t) \/ BadGateway(t) \/ Resolve(t) \/ Connect(t)
  BY <1>3, InternalErrorIInv, BadGatewayIInv, ResolveIInv, ConnectIInv
<1>4. CASE Relay(t) \/ ReceiveBody(t) \/ Store(t) \/ TunnelTraffic(t) \/ Close(t)
  BY <1>4, RelayIInv, ReceiveBodyIInv, StoreIInv, TunnelTrafficIInv, CloseIInv
<1>. QED  BY <1>1, <1>2, <1>3, <1>4 DEF Step

\* and so does every step of the system.
LEMMA NextIInv == IInv /\ [Next]_vars => IInv'
<1>1. SUFFICES ASSUME IInv, [Next]_vars PROVE IInv'
  OBVIOUS
<1>2. CASE \E t \in Threads, req \in Requests : Accept(t, req)
  BY <1>1, <1>2, AcceptIInv
<1>3. CASE \E t \in Threads : Step(t)
  BY <1>1, <1>3, StepIInv
<1>4. CASE Sigpipe
  BY <1>1, <1>4, SigpipeIInv
<1>5. CASE \E r \in Resources : Publish(r)
  BY <1>1, <1>5, PublishIInv
<1>6. CASE Tick
  BY <1>1, <1>6, TickIInv
<1>7. CASE UNCHANGED vars
  <2>1. TypeOK' /\ OriginCounted'
    BY <1>1, <1>7 DEF IInv, TypeOK, OriginCounted, vars
  <2>2. Later(origin, now, origin', now')
    BY <1>1, <1>7, SameTime DEF IInv, vars
  <2>. QED  BY <1>1, <1>7, <2>1, <2>2, AroundIInv DEF vars
<1>. QED  BY <1>1, <1>2, <1>3, <1>4, <1>5, <1>6, <1>7 DEF Next

\* The inductive invariant holds in every reachable state of the proxy:
\* handler.cpp's connection threads around the cache.
THEOREM InductiveInvariant == Spec => []IInv
BY InitIInv, NextIInv, PTL DEF Spec

\* Threads, sockets, cache and origins keep their types; the entries that are
\* stored have an expiry, and the buffer of gethostbyname holds a host when it
\* is read (handler.cpp, socket.cpp:114).
THEOREM TypeCorrect == Spec => []TypeOK
<1>1. IInv => TypeOK
  BY DEF IInv
<1>. QED  BY <1>1, InductiveInvariant, PTL

-----------------------------------------------------------------------------
(* One response for each client.                                            *)

\* One answer has one status line.
LEMMA OneStatus ==
  /\ \A s \in OneAnswer : Cardinality({i \in DOMAIN s : s[i] \in Statuses}) = 1
  /\ Cardinality({i \in DOMAIN <<"head", "500">> : <<"head", "500">>[i] \in Statuses}) = 2
<1>1. Cardinality({1}) = 1
  BY FS_Singleton
<1>2. Cardinality({1, 2}) = 2
  <2>1. IsFiniteSet({1}) /\ 2 \notin {1}
    <3>1. IsFiniteSet({1})
      BY FS_Singleton
    <3>2. 2 \notin {1}
      OBVIOUS
    <3>. QED  BY <3>1, <3>2
  <2>2. Cardinality({1} \cup {2}) = Cardinality({1}) + 1
    BY <2>1, FS_AddElement
  <2>3. {1} \cup {2} = {1, 2}
    OBVIOUS
  <2>. QED  BY <1>1, <2>2, <2>3
<1>3. ASSUME NEW status \in {"200", "400", "500", "501", "502"}
      PROVE  {i \in DOMAIN <<status>> : <<status>>[i] \in Statuses} = {1}
  BY DEF Statuses
<1>4. {i \in DOMAIN <<"head", "body">> : <<"head", "body">>[i] \in Statuses} = {1}
  BY DEF Statuses
<1>5. {i \in DOMAIN <<"head", "500">> : <<"head", "500">>[i] \in Statuses} = {1, 2}
  BY DEF Statuses
<1>. QED  BY <1>1, <1>2, <1>3, <1>4, <1>5 DEF OneAnswer

\* A thread that is about to close has sent one answer, or two after a length
\* it could not read.
LEMMA AnswerIsOne == IInv => AnsweredOnce
<1>1. SUFFICES ASSUME IInv, NEW t \in Threads, pc[t] = "close", ~ gone[t]
               PROVE  Cardinality({i \in DOMAIN sent[t] : sent[t][i] \in Statuses})
                        = IF answer[t].kind = "length" THEN 2 ELSE 1
  BY DEF AnsweredOnce
<1>2. IF answer[t].kind = "length" THEN sent[t] = <<"head", "500">>
      ELSE sent[t] \in OneAnswer
  BY <1>1 DEF IInv, AtPlace, SentAtPlace
<1>. QED  BY <1>2, OneStatus

\* No path through handle_connection answers its client twice or not at all,
\* but for a Content-Length that std::stoi rejects (handler.cpp:99-187).
THEOREM OneResponseEach == Spec => []AnsweredOnce
BY AnswerIsOne, InductiveInvariant, PTL

-----------------------------------------------------------------------------
(* What is in the cache.                                                    *)

\* What IsStorable accepts has a readable header whose last Cache-Control line
\* does not forbid storing.
LEMMA CachedIsCacheable == IInv => OnlyCacheable
<1>1. SUFFICES ASSUME IInv, NEW n \in DOMAIN responses
               PROVE  LET entry == responses[n].entry
                          head == entry.answer.head
                      IN  /\ entry.method = "GET" /\ entry.answer.kind = "200"
                          /\ \A j \in DOMAIN head :
                                /\ head[j].name # "unreadable"
                                /\ head[j].name = "Cache-Control"
                                      /\ "no-store" \in head[j].directives
                                   => \E k \in DOMAIN head :
                                         k > j /\ head[k].name = "Cache-Control"
  BY DEF OnlyCacheable
<1> DEFINE entry == responses[n].entry
           head == entry.answer.head
           r == Parse(head)
<1>2. /\ entry.method = "GET" /\ entry.answer.kind = "200" /\ head \in Seq(Lines)
      /\ ~ r.invalid /\ "no-store" \notin r.directives
  BY <1>1 DEF IInv, CacheKept, Kept, IsStorable, Entries, Answers
<1>3. DOMAIN head = 1 .. Len(head) /\ Len(head) \in Nat
  BY <1>2, LenProperties
<1>4. AgreesWith(r, head, Len(head))
  BY <1>2, ParseAgrees
<1> HIDE DEF r, head
<1>5. ASSUME NEW j \in DOMAIN head PROVE head[j].name # "unreadable"
  BY <1>2, <1>3, <1>4 DEF AgreesWith
<1>6. ASSUME NEW j \in DOMAIN head, head[j].name = "Cache-Control",
             "no-store" \in head[j].directives
      PROVE  \E k \in DOMAIN head : k > j /\ head[k].name = "Cache-Control"
  <2>1. SUFFICES ASSUME \A k \in DOMAIN head : k > j => head[k].name # "Cache-Control"
                 PROVE  FALSE
    OBVIOUS
  <2>2. \A k \in j + 1 .. Len(head) : k \in DOMAIN head /\ k > j
    BY <1>3
  <2>3. \A k \in j + 1 .. Len(head) : head[k].name # "Cache-Control"
    BY <2>1, <2>2
  <2>4. r.directives = head[j].directives
    BY <1>3, <1>4, <1>6, <2>3 DEF AgreesWith
  <2>. QED  BY <1>2, <1>6, <2>4
<1>. QED  BY <1>2, <1>5, <1>6 DEF head

\* forwardRequest puts nothing into the cache that a header it could read
\* forbids, nor anything but a 200 answer to a GET (handler.cpp:457-510).
THEOREM CacheableOnly == Spec => []OnlyCacheable
BY CachedIsCacheable, InductiveInvariant, PTL

-----------------------------------------------------------------------------
(* What is served.                                                          *)

\* A thread that starts to serve has found its entry valid, just now.
LEMMA ServedIsValid ==
  ASSUME TypeOK, [Next]_vars, NEW t \in Threads, pc[t] = "check", pc'[t] = "serve"
  PROVE  Valid(t)
<1>1. pc \in [Threads -> Locations]
  BY DEF TypeOK
<1>2. \A u \in Threads : \A from, to :
         Goto(u, from, to) => pc'[t] = IF u = t THEN to ELSE pc[t]
  BY <1>1 DEF Goto
<1>3. \A u \in Threads : \A from, to :
         Goto(u, from, to) => u = t /\ from = "check" /\ to = "serve"
  BY <1>2 DEF Goto
<1>4. ASSUME NEW u \in Threads, Step(u) PROVE Check(u) /\ u = t
  <2>1. ~ HandleConnection(u)
    BY <1>3 DEF HandleConnection
  <2>2. ~ Lookup(u) /\ ~ Serve(u)
    BY <1>3 DEF Lookup, Serve
  <2>3. ~ Forward(u) /\ ~ InternalError(u) /\ ~ BadGateway(u)
    BY <1>3 DEF Forward, InternalError, BadGateway
  <2>4. ~ Resolve(u) /\ ~ Connect(u)
    BY <1>3 DEF Resolve, Connect
  <2>5. \A kind \in Kinds, policy \in Policies : ~ OriginAnswers(u, kind, policy)
    BY <1>3 DEF OriginAnswers
  <2>6. ~ Relay(u) /\ ~ ReceiveBody(u) /\ ~ Store(u)
    BY <1>3 DEF Relay, ReceiveBody, Store
  <2>7. ~ TunnelTraffic(u) /\ ~ Close(u)
    BY <1>3 DEF TunnelTraffic, Close
  <2>8. Check(u)
    BY <1>4, <2>1, <2>2, <2>3, <2>4, <2>5, <2>6, <2>7 DEF Step
  <2>. QED  BY <1>3, <2>8 DEF Check
<1>5. CASE \E u \in Threads : Step(u)
  <2>1. Check(t)
    BY <1>4, <1>5
  <2>2. Goto(t, "check", IF Valid(t) THEN "serve" ELSE "forward")
    BY <2>1 DEF Check
  <2>. QED  BY <1>3, <2>2
<1>6. ~ \E u \in Threads, req \in Requests : Accept(u, req)
  BY <1>3 DEF Accept
<1>7. ~ Sigpipe
  BY DEF Sigpipe, All
<1>8. ~ \E r \in Resources : Publish(r)
  BY DEF Publish
<1>9. ~ Tick /\ ~ UNCHANGED vars
  BY DEF Tick, vars
<1>. QED  BY <1>5, <1>6, <1>7, <1>8, <1>9 DEF Next

\* What a header that states ages, all of them above 0, leaves in a Response.
LEMMA StatedAge ==
  ASSUME NEW head \in Seq(Lines), NEW r \in ParsedType, AgreesWith(r, head, Len(head)),
         \A age \in SMaxAgesOf(head) \cup MaxAgesOf(head) : age > 0,
         SMaxAgesOf(head) \cup MaxAgesOf(head) # {}
  PROVE  \E age \in IF SMaxAgesOf(head) # {} THEN SMaxAgesOf(head) ELSE MaxAgesOf(head) :
            age \in Nat /\ ExpireTime(r) = r.date + age
<1>1. /\ DOMAIN head = 1 .. Len(head) /\ Len(head) \in Nat
      /\ \A i \in 1 .. Len(head) : head[i] \in Lines
  BY ElementOfSeq, LenProperties
<1>2. /\ \A i \in 1 .. Len(head) : head[i].name = "Cache-Control" =>
            head[i] \in ControlsOf(head)
      /\ \A line \in ControlsOf(head) :
            \E i \in 1 .. Len(head) : line = head[i] /\ line.name = "Cache-Control"
  BY <1>1 DEF ControlsOf
<1>3. r.s_max_age \in Ages \cup {Absent} /\ r.max_age \in Ages \cup {Absent}
  BY DEF ParsedType
<1>4. \A age \in Ages \cup {Absent} : age # NoAge /\ (age > 0 => age \in Nat)
  BY AgesAssumption DEF Absent
<1>5. \/ r.s_max_age = Absent /\ SMaxAgesOf(head) = {}
      \/ r.s_max_age \in SMaxAgesOf(head)
  <2>1. CASE /\ r.s_max_age = Absent
             /\ \A i \in 1 .. Len(head) :
                   head[i].name = "Cache-Control" => head[i].s_maxage = NoAge
    <3>1. \A line \in ControlsOf(head) : line.s_maxage = NoAge
      BY <1>2, <2>1
    <3>. QED  BY <2>1, <3>1 DEF SMaxAgesOf
  <2>2. CASE \E i \in 1 .. Len(head) :
                head[i].name = "Cache-Control" /\ head[i].s_maxage = r.s_max_age
    <3>1. PICK i \in 1 .. Len(head) :
            head[i].name = "Cache-Control" /\ r.s_max_age = head[i].s_maxage
      BY <2>2
    <3>2. head[i] \in ControlsOf(head) /\ head[i].s_maxage # NoAge
      BY <1>2, <1>3, <1>4, <3>1
    <3>. QED  BY <3>1, <3>2 DEF SMaxAgesOf
  <2>. QED  BY <2>1, <2>2 DEF AgreesWith
<1>6. \/ r.max_age = Absent /\ MaxAgesOf(head) = {}
      \/ r.max_age \in MaxAgesOf(head)
  <2>1. CASE /\ r.max_age = Absent
             /\ \A i \in 1 .. Len(head) :
                   head[i].name = "Cache-Control" => head[i].max_age = NoAge
    <3>1. \A line \in ControlsOf(head) : line.max_age = NoAge
      BY <1>2, <2>1
    <3>. QED  BY <2>1, <3>1 DEF MaxAgesOf
  <2>2. CASE \E i \in 1 .. Len(head) :
                head[i].name = "Cache-Control" /\ head[i].max_age = r.max_age
    <3>1. PICK i \in 1 .. Len(head) :
            head[i].name = "Cache-Control" /\ r.max_age = head[i].max_age
      BY <2>2
    <3>2. head[i] \in ControlsOf(head) /\ head[i].max_age # NoAge
      BY <1>2, <1>3, <1>4, <3>1
    <3>. QED  BY <3>1, <3>2 DEF MaxAgesOf
  <2>. QED  BY <2>1, <2>2 DEF AgreesWith
<1>7. CASE r.s_max_age \in SMaxAgesOf(head)
  <2>1. r.s_max_age \in Nat /\ r.s_max_age > 0
    BY <1>3, <1>4, <1>7
  <2>. QED  BY <1>7, <2>1 DEF ExpireTime
<1>8. CASE r.s_max_age = Absent /\ SMaxAgesOf(head) = {}
  <2>1. r.max_age \in MaxAgesOf(head)
    BY <1>6, <1>8
  <2>2. r.max_age \in Nat /\ r.max_age > 0
    BY <1>3, <1>4, <2>1
  <2>3. ~ (r.s_max_age > 0)
    BY <1>8 DEF Absent
  <2>. QED  BY <1>8, <2>1, <2>2, <2>3 DEF ExpireTime
<1>. QED  BY <1>5, <1>7, <1>8

\* An entry that is not expired is within the age its header states, counted
\* from its date.
LEMMA ValidWithinAge ==
  ASSUME NEW e, Kept(e, origin, now), TypeOK, ~ IsExpired(e.expiry, now),
         SMaxAgesOf(e.answer.head) \cup MaxAgesOf(e.answer.head) # {},
         \A age \in SMaxAgesOf(e.answer.head) \cup MaxAgesOf(e.answer.head) : age > 0
  PROVE  \E age \in IF SMaxAgesOf(e.answer.head) # {} THEN SMaxAgesOf(e.answer.head)
                    ELSE MaxAgesOf(e.answer.head) :
            age \in Nat /\ now <= e.answer.head[1].time + age
<1> DEFINE head == e.answer.head
           r == Parse(head)
           t == ExpireTime(r)
<1>1. /\ head \in Seq(Lines) /\ e.expiry = Expiry(r, e.expiry.creation_time)
      /\ DatedIn(e.answer, origin, now)
  BY DEF Kept, Entries, Answers
<1>2. r \in ParsedType /\ AgreesWith(r, head, Len(head))
  BY <1>1, ParseAgrees
<1>3. r.date = head[1].time
  <2>1. /\ Len(head) > 0 /\ head[1].name = "Date"
        /\ \A i \in 2 .. Len(head) : head[i].name # "Date"
    BY <1>1 DEF DatedIn
  <2> HIDE DEF head, r
  <2>. QED  BY <1>2, <2>1 DEF AgreesWith
<1>4. PICK age \in IF SMaxAgesOf(head) # {} THEN SMaxAgesOf(head) ELSE MaxAgesOf(head) :
         age \in Nat /\ t = r.date + age
  <2> HIDE DEF r
  <2>. QED  BY <1>1, <1>2, StatedAge
<1>5. head[1].time \in Nat /\ head[1].time > 0 /\ now \in Nat /\ now < MaxTime
  <2>1. head[1].time \in Start .. now /\ now \in Start .. End
    BY <1>1 DEF DatedIn, TypeOK
  <2>2. now \in Nat /\ Start \in Nat /\ Start > 0 /\ now < MaxTime
    BY <2>1, ClockFacts
  <2> HIDE DEF head
  <2>. QED  BY <2>1, <2>2
<1>6. t \in Int /\ -MaxTime <= t /\ t > 0
  <2>1. t \in Int /\ -MaxTime <= t
    BY <1>2, ExpireTimeType
  <2>2. t = head[1].time + age /\ age \in Nat
    BY <1>3, <1>4
  <2> HIDE DEF t, head
  <2>. QED  BY <1>5, <2>1, <2>2
<1>7. /\ FromTime(t) \in Int /\ FromTime(t) <= t /\ (t < MaxTime => FromTime(t) = t)
  BY <1>6, FromTimeProperties, TimesAssumption
<1>8. e.expiry.expires_time = FromTime(t)
  BY <1>1 DEF Expiry
<1>9. FromTime(t) = 0 \/ now <= FromTime(t)
  <2> HIDE DEF t
  <2>. QED  BY <1>5, <1>7, <1>8 DEF IsExpired
<1>10. now <= t
  <2> HIDE DEF t
  <2>1. MaxTime \in Nat
    BY TimesAssumption
  <2>2. CASE FromTime(t) = 0 /\ t < MaxTime
    BY <1>5, <1>6, <1>7, <1>9, <2>1, <2>2
  <2>. QED  BY <1>5, <1>6, <1>7, <1>9, <2>1, <2>2
<1>. QED  BY <1>3, <1>4, <1>10

\* An entry that passes the check of its expiry is of a version that was current
\* less than its age ago.
LEMMA ServedIsRecent == IInv /\ [Next]_vars =>
  \A t \in Threads :
     pc[t] = "check" /\ pc'[t] = "serve" =>
        LET a == got[t].answer
            replaced == origin[a.resource]
            shared == SMaxAgesOf(a.head)
            ages == MaxAgesOf(a.head)
        IN  /\ a.version < Len(replaced)
            /\ shared \cup ages # {}
            /\ \A age \in shared \cup ages : age > 0
            => \E age \in IF shared # {} THEN shared ELSE ages :
                  now <= replaced[a.version + 1] + age
<1>1. SUFFICES ASSUME IInv, [Next]_vars, NEW t \in Threads,
                      pc[t] = "check", pc'[t] = "serve",
                      NEW a, a = got[t].answer,
                      a.version < Len(origin[a.resource]),
                      SMaxAgesOf(a.head) \cup MaxAgesOf(a.head) # {},
                      \A age \in SMaxAgesOf(a.head) \cup MaxAgesOf(a.head) : age > 0
               PROVE  \E age \in IF SMaxAgesOf(a.head) # {} THEN SMaxAgesOf(a.head)
                                 ELSE MaxAgesOf(a.head) :
                         now <= origin[a.resource][a.version + 1] + age
  OBVIOUS
<1>2. got[t] # Nullopt /\ ~ IsExpired(got[t].expiry, now)
  BY <1>1, ServedIsValid DEF IInv, Valid
<1>3. Kept(got[t], origin, now)
  BY <1>1, <1>2 DEF IInv, CacheKept
<1>4. PICK age \in IF SMaxAgesOf(a.head) # {} THEN SMaxAgesOf(a.head)
                   ELSE MaxAgesOf(a.head) :
         age \in Nat /\ now <= a.head[1].time + age
  BY <1>1, <1>2, <1>3, ValidWithinAge DEF IInv
<1>5. a \in Answers /\ DatedIn(a, origin, now)
  BY <1>1, <1>3 DEF Kept, Entries
<1>6. a.head[1].time <= origin[a.resource][a.version + 1]
  <2>1. a.version \in Nat /\ a.resource \in Resources
    BY <1>5 DEF Answers
  <2>2. Len(origin[a.resource]) \in Nat
    BY <1>1, <2>1, LenProperties DEF IInv, TypeOK
  <2>3. a.version + 1 \in a.version + 1 .. Len(origin[a.resource])
    BY <1>1, <2>1, <2>2
  <2>. QED  BY <1>5, <2>3 DEF DatedIn
<1>7. /\ a.head[1].time \in Int /\ now \in Int
      /\ origin[a.resource][a.version + 1] \in Int
  <2>1. a.version \in Nat /\ a.resource \in Resources
    BY <1>5 DEF Answers
  <2>2. origin[a.resource] \in Seq(Start .. End) /\ now \in Start .. End
    BY <1>1, <2>1 DEF IInv, TypeOK
  <2>3. Len(origin[a.resource]) \in Nat
    BY <2>2, LenProperties
  <2>4. a.version + 1 \in 1 .. Len(origin[a.resource])
    BY <1>1, <2>1, <2>3
  <2>5. origin[a.resource][a.version + 1] \in Start .. End
    BY <2>2, <2>4, ElementOfSeq
  <2>6. a.head[1].time \in Start .. now
    BY <1>5 DEF DatedIn
  <2>. QED  BY <2>2, <2>5, <2>6, ClockFacts
<1>. QED  BY <1>4, <1>6, <1>7

\* What processGetRequest serves has not been replaced at the origin for
\* longer than the age its header states, if all it states are above 0, however long the thread that stored
\* it took and whatever other threads stored meanwhile (handler.cpp:189-217).
THEOREM ServedRecent == Spec => BoundedStaleness
<1>1. IInv /\ [Next]_vars =>
        \A t \in Threads :
           pc[t] = "check" /\ pc'[t] = "serve" =>
              LET a == got[t].answer
                  replaced == origin[a.resource]
                  shared == SMaxAgesOf(a.head)
                  ages == MaxAgesOf(a.head)
              IN  /\ a.version < Len(replaced)
                  /\ shared \cup ages # {}
                  /\ \A age \in shared \cup ages : age > 0
                  => \E age \in IF shared # {} THEN shared ELSE ages :
                        now <= replaced[a.version + 1] + age
  BY ServedIsRecent
<1>. QED  BY <1>1, InductiveInvariant, PTL DEF Spec, BoundedStaleness
=============================================================================
