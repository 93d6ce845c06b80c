------------------------------ MODULE CivilDays ------------------------------
(***************************************************************************)
(* The timestamps of queue and library items (parse_rfc3339 and            *)
(* days_from_civil of crates/arr/src/apply.rs): a text such as             *)
(* 2020-02-29T18:00:00+06:00 becomes seconds since 1970-01-01.  The model  *)
(* walks the calendar hour by hour, reads the clock in every zone, and     *)
(* compares what the text is read as with the hours that have passed.      *)
(***************************************************************************)
EXTENDS Integers

CONSTANTS
    StartYears,  \* the walk begins on January 1 of one of them
    Days,        \* and goes on for so many days
    Hours,       \* hours between two looks at the clock, a divisor of 24
    Zones        \* offsets in hours, smaller than a day

\* What an instance gives the constants.
CivilAssumption ==
    /\ StartYears \subseteq Nat /\ Days \in Nat
    /\ Hours \in 1..24 /\ 24 % Hours = 0
    /\ Zones \subseteq -23..23

VARIABLES utc,      \* the date and the hour in UTC
          elapsed,  \* the hours since the walk began
          start
vars == <<utc, elapsed, start>>

-----------------------------------------------------------------------------
(* The code *)

\* Division of Rust, which truncates, on the two signs it meets.
Truncated(a, b) == IF a >= 0 THEN a \div b ELSE -((-a) \div b)

DaysFromCivil(y, m, d) ==
    LET year == IF m <= 2 THEN y - 1 ELSE y
        era == Truncated(IF year >= 0 THEN year ELSE year - 399, 400)
        yoe == year - era * 400
        mp == IF m > 2 THEN m - 3 ELSE m + 9
        doy == (153 * mp + 2) \div 5 + d - 1
    IN  era * 146097 + yoe * 365 + yoe \div 4 - yoe \div 100 + doy - 719468

\* parse_rfc3339, in hours.
Parsed(text) == DaysFromCivil(text.y, text.m, text.d) * 24 + text.h - text.zone

-----------------------------------------------------------------------------
(* The calendar *)

Leap(y) == y % 4 = 0 /\ (y % 100 # 0 \/ y % 400 = 0)

LastDay(y, m) ==
    IF m = 2 THEN (IF Leap(y) THEN 29 ELSE 28) ELSE IF m \in {4, 6, 9, 11} THEN 30 ELSE 31

Tomorrow(t) ==
    IF t.d < LastDay(t.y, t.m) THEN [t EXCEPT !.d = @ + 1]
    ELSE IF t.m < 12 THEN [t EXCEPT !.m = @ + 1, !.d = 1]
    ELSE [t EXCEPT !.y = @ + 1, !.m = 1, !.d = 1]

Yesterday(t) ==
    IF t.d > 1 THEN [t EXCEPT !.d = @ - 1]
    ELSE IF t.m > 1 THEN [t EXCEPT !.m = @ - 1, !.d = LastDay(t.y, t.m - 1)]
    ELSE [t EXCEPT !.y = @ - 1, !.m = 12, !.d = 31]

\* The clock on the wall of a zone.
Local(t, zone) ==
    LET h == t.h + zone
        day == IF h > 23 THEN Tomorrow(t) ELSE IF h < 0 THEN Yesterday(t) ELSE t
    IN  [y |-> day.y, m |-> day.m, d |-> day.d, h |-> h % 24, zone |-> zone]

Init ==
    /\ start \in StartYears
    /\ utc = [y |-> start, m |-> 1, d |-> 1, h |-> 0]
    /\ elapsed = 0

Tick ==
    /\ elapsed < Days * 24
    /\ elapsed' = elapsed + Hours
    /\ utc' = IF utc.h + Hours < 24 THEN [utc EXCEPT !.h = @ + Hours]
              ELSE [Tomorrow(utc) EXCEPT !.h = 0]
    /\ UNCHANGED start

Spec == Init /\ [][Tick]_vars

-----------------------------------------------------------------------------
(* Properties *)

\* The number a timestamp is read as grows with the time it names, whatever
\* zone it is written in, over leap days, the ends of months and years, and
\* centuries; and its zero is 1970-01-01.
ReadsTheInstant ==
    /\ \A zone \in Zones : Parsed(Local(utc, zone)) = DaysFromCivil(start, 1, 1) * 24 + elapsed
    /\ utc = [y |-> 1970, m |-> 1, d |-> 1, h |-> 0] => Parsed(Local(utc, 0)) = 0
=============================================================================
