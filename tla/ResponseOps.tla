---------------------------- MODULE ResponseOps -----------------------------
(***************************************************************************)
(* What class Response makes of the header lines of an HTTP response, and  *)
(* when a CacheEntry made from it is expired.  Times are whole seconds; 0  *)
(* is the epoch, which the code also uses for "no time given".             *)
(***************************************************************************)
EXTENDS Integers, Sequences, SequencesExt

CONSTANTS Ages,          \* what std::stol may read behind s-maxage= or max-age=
          NoAge,         \* a line without the directive
          Times,         \* times a Date or Expires header may state
          MaxTime        \* the seconds after 1970 that system_clock counts

\* The initial max_age_ and s_max_age_; a line may state the same number.
Absent == -1

ASSUME AgesAssumption ==
  /\ Ages \subseteq Int
  /\ NoAge \notin Ages \cup {Absent}
ASSUME TimesAssumption ==
  /\ MaxTime \in Nat \ {0}
  /\ Times \subseteq 1 .. MaxTime - 1

\* parse_time of a text strptime cannot read: timegm of an all-zero tm, a day
\* in 1899.
UnreadableTime == -1

\* The code also looks for private, but nothing consults the flag.
Directives == {"no-store", "no-cache", "must-revalidate"}

\* Header lines, as far as parse tells them apart.  A field name in other
\* letters than the code's matches none of its cases.  An unreadable line is
\* one whose number std::stol or std::stoi rejects with an exception, or the
\* end of the input before the empty line that ends the header.
CacheControlLines ==
  [name : {"Cache-Control"}, directives : SUBSET Directives,
   s_maxage : Ages \cup {NoAge}, max_age : Ages \cup {NoAge}]
TimeLines == [name : {"Date", "Expires"}, time : Times \cup {UnreadableTime}]
OtherLines == [name : {"unreadable", "other"}]
Lines == CacheControlLines \cup TimeLines \cup OtherLines

-----------------------------------------------------------------------------

\* The members of a Response before its first header line; directives stands
\* for the flags process_cache_control sets and for headers_map["Cache-Control"].
NoHeaders == [date |-> 0, expire_time |-> 0, directives |-> {},
              s_max_age |-> Absent, max_age |-> Absent, invalid |-> FALSE]

\* Variant of ProcessCacheControl: an age that is not stated is reset to 0.
ProcessAndReset(r, line) ==
  [r EXCEPT !.directives = line.directives,
            !.s_max_age = IF line.s_maxage = NoAge THEN 0 ELSE line.s_maxage,
            !.max_age = IF line.max_age = NoAge THEN 0 ELSE line.max_age]

\* Each Cache-Control line replaces the flags of the lines before it, but
\* leaves an age it does not state.
ProcessCacheControl(r, line) ==
  [r EXCEPT !.directives = line.directives,
            !.s_max_age = IF line.s_maxage = NoAge THEN @ ELSE line.s_maxage,
            !.max_age = IF line.max_age = NoAge THEN @ ELSE line.max_age]

ParseLine(r, line) ==
  CASE line.name = "unreadable" -> [r EXCEPT !.invalid = TRUE]
    [] line.name = "Date" -> [r EXCEPT !.date = line.time]
    [] line.name = "Expires" -> [r EXCEPT !.expire_time = line.time]
    [] line.name = "Cache-Control" -> ProcessCacheControl(r, line)
    [] OTHER -> r

\* parse's loop: the Response after the last line.
Parse(lines) ==
  LET after[n \in 0 .. Len(lines)] ==
        IF n = 0 THEN NoHeaders ELSE ParseLine(after[n - 1], lines[n])
  IN  after[Len(lines)]

ExpireTime(r) ==
  IF r.s_max_age > 0 THEN r.date + r.s_max_age
  ELSE IF r.max_age > 0 THEN r.date + r.max_age
  ELSE r.expire_time

IsFresh(r, now) ==
  IF r.s_max_age > 0 THEN r.s_max_age > now - r.date
  ELSE IF r.max_age > 0 THEN r.max_age > now - r.date
  ELSE r.expire_time > 0 => r.expire_time > now

\* Variant of NeedsValidation: the directives are not looked at.
StaleNeedsValidation(r, now) == ~ IsFresh(r, now)

NeedsValidation(r, now) ==
  ~ IsFresh(r, now) \/ {"must-revalidate", "no-cache"} \cap r.directives # {}

-----------------------------------------------------------------------------
(* The cache entry.                                                         *)

\* system_clock::from_time_t counts in nanoseconds of 64 bits: a time that is
\* too late comes out before 1970.
FromTime(t) == ((t + MaxTime) % (2 * MaxTime)) - MaxTime

IsStorable(r) == ~ r.invalid /\ "no-store" \notin r.directives

\* Variants of Expiry: counted from the arrival; creation_time not set.
ExpiryFromArrival(r, now) ==
  [creation_time |-> now,
   expires_time |-> IF r.max_age > 0 THEN now + r.max_age ELSE ExpireTime(r),
   requires_validation |-> NeedsValidation(r, now)]

ExpiryWithoutCreation(r, now) ==
  [creation_time |-> 0,
   expires_time |-> ExpireTime(r),
   requires_validation |-> NeedsValidation(r, now)]

Expiry(r, now) == [creation_time |-> now,
                   expires_time |-> FromTime(ExpireTime(r)),
                   requires_validation |-> NeedsValidation(r, now)]

\* Variant of IsExpired: expired in its last second.
IsExpiredEarly(entry, now) ==
  \/ entry.requires_validation
  \/ entry.expires_time # 0 /\ now >= entry.expires_time

IsExpired(entry, now) ==
  \/ entry.requires_validation
  \/ entry.expires_time # 0 /\ now > entry.expires_time
=============================================================================
