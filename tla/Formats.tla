------------------------------ MODULE Formats -------------------------------
(***************************************************************************)
(* Conversions at the edge of the server: HTTP byte ranges                 *)
(* (handlers/mod.rs), durations of the configuration (config.rs), and the  *)
(* times and intervals of the scheduler (refresh.rs, storage.rs).          *)
(***************************************************************************)
EXTENDS QueryModel

-----------------------------------------------------------------------------
(***************************************************************************)
(* Range: a unit and a list of ranges.  A part of a range is absent, a     *)
(* number that fits u64, or something else.                                *)
(***************************************************************************)
Absent == [kind |-> "none", n |-> 0]
Num(n) == [kind |-> "num", n |-> n]
Bad == [kind |-> "bad", n |-> 0]

Ignored == [kind |-> "ignored", start |-> 0, end |-> 0]
Unsatisfiable == [kind |-> "unsatisfiable", start |-> 0, end |-> 0]

\* Mutation of Bounds: an end past the last byte is kept.
BoundsUncapped(r, total) ==
    IF r.start.kind = "none"
    THEN [start |-> total - Min({r.end.n, total}), end |-> total - 1]
    ELSE [start |-> r.start.n,
          end |-> IF r.end.kind = "none" THEN total - 1 ELSE r.end.n]

\* Both ends, of a range whose parts are numbers.
Bounds(r, total) ==
    IF r.start.kind = "none"
    THEN [start |-> total - Min({r.end.n, total}), end |-> total - 1]
    ELSE [start |-> r.start.n,
          end |-> IF r.end.kind = "none" THEN total - 1 ELSE Min({r.end.n, total - 1})]

\* parse_byte_range: only the first range of the list counts.
parse_byte_range(header, total) ==
    IF header.unit # "bytes" \/ ~Head(header.ranges).dash THEN Ignored
    ELSE LET r == Head(header.ranges)
             suffix == r.start.kind = "none"
             malformed == \/ r.start.kind = "bad" \/ r.end.kind = "bad"
                          \/ suffix /\ (r.end.kind = "none" \/ r.end.n = 0)
         IN IF total = 0 \/ malformed THEN Unsatisfiable
            ELSE LET b == Bounds(r, total) IN
                 IF b.start > b.end \/ b.start >= total THEN Unsatisfiable
                 ELSE [kind |-> "range", start |-> b.start, end |-> b.end]

\* serve_bytes_with_range: the status and the bytes, for an optional header.
serve_bytes_with_range(headers, total) ==
    LET r == IF headers = {} THEN Ignored
             ELSE parse_byte_range(CHOOSE h \in headers : TRUE, total)
    IN CASE r.kind = "unsatisfiable" -> [status |-> 416, bytes |-> {}]
         [] r.kind = "range" -> [status |-> 206, bytes |-> r.start .. r.end]
         [] OTHER -> [status |-> 200, bytes |-> 0 .. total - 1]

\* The bytes of the file a range asks for.
Wanted(r, total) ==
    {i \in 0 .. total - 1 :
        IF r.start.kind = "none" THEN i + r.end.n >= total
        ELSE i >= r.start.n /\ (r.end.kind = "num" => i <= r.end.n)}

\* An answer holds exactly the bytes the first range asks for, or says that
\* there are none; without a range it holds them all.
RangeServed(headers, total) ==
    LET a == serve_bytes_with_range(headers, total) IN
    \A h \in headers :
        LET r == Head(h.ranges) IN
        (h.unit = "bytes" /\ r.dash /\ "bad" \notin {r.start.kind, r.end.kind}
           /\ ~(r.start.kind = "none" /\ r.end.kind = "none"))
          => /\ a.bytes = Wanted(r, total)
             /\ a.status = IF a.bytes = {} THEN 416 ELSE 206

-----------------------------------------------------------------------------
(***************************************************************************)
(* Durations, in milliseconds.  Numbers and products are u64 and wrap.     *)
(***************************************************************************)
UnitSeconds == [s |-> 1, m |-> 60, h |-> 3600, d |-> 86400]

\* parse_duration, of a number and a unit.
parse_duration(n, unit) ==
    IF unit = "ms" THEN n ELSE 1000 * ((n * UnitSeconds[unit]) % Word)

\* format_duration: the coarsest unit that divides it.
format_duration(d) ==
    LET ms == d % Word
        exact(u) == ms % (1000 * UnitSeconds[u]) = 0
        in(u) == [n |-> ms \div (1000 * UnitSeconds[u]), unit |-> u]
    IN IF ms = 0 THEN [n |-> 0, unit |-> "s"]
       ELSE IF exact("d") THEN in("d")
       ELSE IF exact("h") THEN in("h")
       ELSE IF exact("m") THEN in("m")
       ELSE IF exact("s") THEN in("s")
       ELSE [n |-> ms, unit |-> "ms"]

\* A configured duration survives the file it is written to.
DurationKept(n, unit) ==
    LET d == parse_duration(n, unit)
        t == format_duration(d)
    IN d < Word => parse_duration(t.n, t.unit) = d

-----------------------------------------------------------------------------
(***************************************************************************)
(* The calendar, and the interval of a dataset that keeps failing.         *)
(***************************************************************************)
is_leap(y) == (y % 4 = 0 /\ y % 100 # 0) \/ y % 400 = 0

YearDays(y) == IF is_leap(y) THEN 366 ELSE 365

MonthDays(y) ==
    <<31, IF is_leap(y) THEN 29 ELSE 28, 31, 30, 31, 30, 31, 31, 30, 31, 30, 31>>

\* The two loops of days_to_ymd.  A year has 365 days at least, so the first
\* has ended after days \div 365 rounds; the second ends where month stays.
TakeYears(days) ==
    LET at[k \in 0 .. days \div 365] ==
          IF k = 0 THEN [year |-> 1970, days |-> days]
          ELSE LET a == at[k - 1] IN
               IF a.days < YearDays(a.year) THEN a
               ELSE [year |-> a.year + 1, days |-> a.days - YearDays(a.year)]
    IN at[days \div 365]

TakeMonths(months, days) ==
    LET at[k \in 0 .. 12] ==
          IF k = 0 THEN [month |-> 1, days |-> days]
          ELSE LET a == at[k - 1] IN
               IF a.month # k \/ a.days < months[k] THEN a
               ELSE [month |-> k + 1, days |-> a.days - months[k]]
    IN at[12]

days_to_ymd(days) ==
    LET y == TakeYears(days)
        m == TakeMonths(MonthDays(y.year), y.days)
    IN [year |-> y.year, month |-> m.month, day |-> m.days + 1]

\* format_rfc3339_secs, now_rfc3339.
format_rfc3339_secs(secs) ==
    LET t == secs % 86400 IN
    [date |-> days_to_ymd(secs \div 86400),
     hh |-> t \div 3600, mm |-> (t % 3600) \div 60, ss |-> t % 60]

\* The days since 1970 before a year, and those of the year before a month, by
\* the rules of the Gregorian calendar.
DaysBeforeYear(year) ==
    LET y == year - 1 IN 365 * (y - 1969) + (y \div 4 - y \div 100 + y \div 400) - 477

DaysBeforeMonth(year, month) ==
    <<0, 31, 59, 90, 120, 151, 181, 212, 243, 273, 304, 334>>[month]
    + IF month > 2 /\ is_leap(year) THEN 1 ELSE 0

SecondsOf(t) ==
    LET days == DaysBeforeYear(t.date.year) + DaysBeforeMonth(t.date.year, t.date.month)
                + t.date.day - 1
    IN 86400 * days + 3600 * t.hh + 60 * t.mm + t.ss

\* The time the status of a dataset reports is the time that was meant, in a
\* month of its length.
TimeFaithful(secs) ==
    LET t == format_rfc3339_secs(secs) IN
    /\ SecondsOf(t) = secs
    /\ t.date.month \in 1 .. 12
    /\ t.date.day \in 1 .. MonthDays(t.date.year)[t.date.month]
    /\ t.hh < 24 /\ t.mm < 60 /\ t.ss < 60

\* backoff_interval.
backoff_interval(base, consecutive_failures) ==
    base * 2 ^ Min({consecutive_failures, 3})

\* Retries of a failing dataset come later and later, and never later than
\* eight times its interval.
BackoffBounded(base, failures) ==
    /\ backoff_interval(base, failures) \in base .. 8 * base
    /\ backoff_interval(base, failures + 1) >= backoff_interval(base, failures)
=============================================================================
