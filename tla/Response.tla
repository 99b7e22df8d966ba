------------------------------ MODULE Response ------------------------------
(***************************************************************************)
(* A 200 response to a GET on its way into the cache: its header lines are *)
(* parsed one by one, the freshness computed once at the end, and the      *)
(* entry consulted at later times.                                         *)
(***************************************************************************)
EXTENDS ResponseOps, FiniteSets

CONSTANTS MaxLines,      \* bound: header lines of one response
          MaxControls,   \* bound: Cache-Control lines among them
          Start, End     \* the clock runs from Start to End

ASSUME ClockAssumption ==
  /\ Start \in Nat \ {0}
  /\ End \in 0 .. MaxTime - 1
ASSUME BoundsAssumption == MaxLines \in Nat /\ MaxControls \in Nat

VARIABLES lines,         \* the header lines so far
          parsed,        \* the Response object
          state,         \* "parsing", "stored" or "refused"
          entry,         \* the expiry of the cache entry, once stored
          now

vars == <<lines, parsed, state, entry, now>>

\* Where the header has lines of a name.
Stated(name) == {i \in DOMAIN lines : lines[i].name = name}

NoEntry == [creation_time |-> 0, expires_time |-> 0, requires_validation |-> TRUE]

Init ==
  /\ lines = <<>>
  /\ parsed = NoHeaders
  /\ state = "parsing"
  /\ entry = NoEntry
  /\ now \in Start .. End

\* One turn of parse's loop.  An exception leaves the constructor, and
\* forwardRequest then stores nothing.
ReadLine(line) ==
  /\ state = "parsing"
  /\ Len(lines) < MaxLines
  /\ line.name = "Cache-Control" => Cardinality(Stated("Cache-Control")) < MaxControls
  /\ lines' = Append(lines, line)
  /\ parsed' = ParseLine(parsed, line)
  /\ state' = IF parsed'.invalid THEN "refused" ELSE "parsing"
  /\ UNCHANGED <<entry, now>>

\* The end of the header: manage_cache_time, validate_freshness, and the part
\* of forwardRequest that fills the entry.
Finish ==
  /\ state = "parsing"
  /\ IF IsStorable(parsed)
     THEN state' = "stored" /\ entry' = Expiry(parsed, now)
     ELSE state' = "refused" /\ UNCHANGED entry
  /\ UNCHANGED <<lines, parsed, now>>

\* The clock matters once there is an entry to consult; it starts anywhere.
Tick ==
  /\ state = "stored"
  /\ now < End
  /\ now' = now + 1
  /\ UNCHANGED <<lines, parsed, state, entry>>

Next ==
  \/ \E line \in Lines : ReadLine(line)
  \/ Finish
  \/ Tick

Spec == Init /\ [][Next]_vars

-----------------------------------------------------------------------------
(* What the header lines say.                                               *)

CacheControls == {lines[i] : i \in Stated("Cache-Control")}

SMaxAges == {l.s_maxage : l \in CacheControls} \ {NoAge}
MaxAges == {l.max_age : l \in CacheControls} \ {NoAge}

LastTime ==
  [name \in {"Date", "Expires"} |->
     IF Stated(name) = {} THEN 0 ELSE lines[Max(Stated(name))].time]

Served == state = "stored" /\ ~ IsExpired(entry, now)

-----------------------------------------------------------------------------

TypeOK ==
  /\ lines \in Seq(Lines)
  /\ parsed \in [date : Times \cup {0, UnreadableTime},
                 expire_time : Times \cup {0, UnreadableTime},
                 directives : SUBSET Directives,
                 s_max_age : Ages \cup {Absent},
                 max_age : Ages \cup {Absent},
                 invalid : BOOLEAN]
  /\ state \in {"parsing", "stored", "refused"}
  /\ entry \in [creation_time : Nat, expires_time : Int, requires_validation : BOOLEAN]
  /\ now \in Nat

\* A stored response is never served beyond the lifetime its header states,
\* counted from its Date and not from its arrival: s-maxage before max-age
\* before Expires, whatever the order of the lines, and also if its end is
\* beyond what the clock can tell.  Excepted are headers with an age that is
\* not above 0: the code takes it for none given (see ZeroAgeIsStale).
ServedWithinLifetime ==
  Served /\ (\A age \in SMaxAges \cup MaxAges : age > 0) =>
    IF SMaxAges \cup MaxAges = {}
    THEN LastTime["Expires"] # 0 => now <= LastTime["Expires"]
    ELSE \E age \in IF SMaxAges # {} THEN SMaxAges ELSE MaxAges :
            now <= LastTime["Date"] + age

\* A response with one Cache-Control line that neither forbids storing nor
\* asks for validation, and that arrived fresh, is served without going to
\* the origin for as long as the line says it is fresh, up to the last time
\* the clock can tell.
FreshIsServed ==
  \A line \in CacheControls :
     LET age == IF line.s_maxage = NoAge THEN line.max_age ELSE line.s_maxage
     IN  /\ state = "stored"
         /\ CacheControls = {line} /\ line.directives = {}
         /\ age # NoAge /\ age > 0
         /\ entry.creation_time < LastTime["Date"] + age
         /\ now <= LastTime["Date"] + age
         /\ LastTime["Date"] + age < MaxTime
         => Served

\* A response whose Cache-Control line asks for validation is never served
\* from the cache, fresh or not.
ValidationIsAsked ==
  \A l \in CacheControls :
     CacheControls = {l}
       /\ l.directives \cap {"no-cache", "must-revalidate"} # {} => ~ Served

\* An age of 0 makes a response stale at once.
ZeroAgeIsStale ==
  MaxAges = {0} /\ SMaxAges = {} => ~ Served
=============================================================================
