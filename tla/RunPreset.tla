------------------------------ MODULE RunPreset ------------------------------
(***************************************************************************)
(* Preset low-peak windows: which occurrence of a recurring window a run   *)
(* submitted now is scheduled into (run_preset.go), and when a daily,      *)
(* weekly or monthly cadence is due (cadence.go).                          *)
(*                                                                         *)
(* An instant is a number of hours in the panel time zone.  The calendar   *)
(* is a parameter: hours in a day, days in a week, the lengths of months.  *)
(***************************************************************************)
EXTENDS Integers, FiniteSets, FiniteSetsExt

CONSTANTS
    HoursPerDay,
    DaysPerWeek,
    MonthStart,   \* first day of each month, a function from 0..n
    MaxBack       \* bound of the search for the next occurrence (800)

ASSUME CalendarAssumption ==
    /\ HoursPerDay \in Nat \ {0} /\ DaysPerWeek \in Nat \ {0} /\ MaxBack \in Nat
    /\ IsFiniteSet(DOMAIN MonthStart) /\ MonthStart \in [DOMAIN MonthStart -> Nat]
    /\ DOMAIN MonthStart = 0..Cardinality(DOMAIN MonthStart) - 1
    /\ MonthStart[0] = 0
    /\ \A m \in DOMAIN MonthStart \ {0} : MonthStart[m - 1] < MonthStart[m]

Day(t) == t \div HoursPerDay
Hour(t) == t % HoursPerDay
Weekday(t) == Day(t) % DaysPerWeek
MonthOf(t) == CHOOSE m \in DOMAIN MonthStart :
    /\ MonthStart[m] <= Day(t)
    /\ m + 1 \in DOMAIN MonthStart => Day(t) < MonthStart[m + 1]
Months == {m \in DOMAIN MonthStart : m + 1 \in DOMAIN MonthStart}
LastDay(m) == MonthStart[m + 1] - MonthStart[m]

\* atClamped: day d (from 1) of month m at hour h; a day the month does not
\* have is its last.
AtClamped(m, d, h) ==
    (MonthStart[m] + (IF d > LastDay(m) THEN LastDay(m) ELSE d) - 1) * HoursPerDay + h

\* An anchor is a weekday or a day of the month, and an hour.
\* windowAt(k): the k-th occurrence relative to a base near now; an end at or
\* before the start is in the next period.
Roll(s, e, next) == [s |-> s, e |-> IF e > s THEN e ELSE next]

DailyAt(start, stop, now, k) ==
    LET d == (Day(now) + k) * HoursPerDay IN
    Roll(d + start.h, d + stop.h, d + HoursPerDay + stop.h)

WeeklyAt(start, stop, now, k) ==
    LET back == (Weekday(now) - start.d + DaysPerWeek) % DaysPerWeek
        base == (Day(now) - back + DaysPerWeek * k) * HoursPerDay
        span == ((stop.d - start.d + DaysPerWeek) % DaysPerWeek) * HoursPerDay IN
    Roll(base + start.h, base + span + stop.h,
         base + span + DaysPerWeek * HoursPerDay + stop.h)

MonthlyAt(start, stop, now, k) ==
    LET m == MonthOf(now) + k IN
    Roll(AtClamped(m, start.d, start.h), AtClamped(m, stop.d, stop.h),
         AtClamped(m + 1, stop.d, stop.h))

WindowAt(freq, iv, now, k) ==
    CASE freq = "daily"   -> DailyAt(iv.start, iv.stop, now, k)
      [] freq = "weekly"  -> WeeklyAt(iv.start, iv.stop, now, k)
      [] freq = "monthly" -> MonthlyAt(iv.start, iv.stop, now, k)

\* The occurrences the calendar of the model can express.
Expressible(freq, now, k) ==
    freq = "monthly" => MonthOf(now) + k >= 0 /\ MonthOf(now) + k + 1 \in Months

\* Mutant: the search starts at the current period.
NextIntervalFromNow(freq, iv, now) ==
    WindowAt(freq, iv, now,
        Min({k \in 0..MaxBack : Expressible(freq, now, k) /\ WindowAt(freq, iv, now, k).e > now}))

\* nextInterval: from one period back, the first occurrence that ends after now.
NextInterval(freq, iv, now) ==
    WindowAt(freq, iv, now,
        Min({k \in -1..MaxBack : Expressible(freq, now, k) /\ WindowAt(freq, iv, now, k).e > now}))

\* nextWindow: over the union of the intervals, the occurrence that ends first.
NextWindow(freq, ivs, now) ==
    LET all == {NextInterval(freq, iv, now) : iv \in ivs} IN
    CHOOSE w \in all : \A v \in all : w.e <= v.e

\* blockEnd: the end of the block now is in, the latest where blocks overlap.
Blocks(freq, ivs, now) == {w \in {NextInterval(freq, iv, now) : iv \in ivs} : w.s <= now}
BlockEnd(freq, ivs, now) == Max({w.e : w \in Blocks(freq, ivs, now)})

\* resolvePresetWindow: the start condition and the end of the occurrence (0
\* stands for none: an inverted preset is gated at admission instead).
ResolvePresetWindow(p, now) ==
    IF p.invert
    THEN [runAt |-> IF Blocks(p.freq, p.ivs, now) = {} THEN 0 ELSE BlockEnd(p.freq, p.ivs, now),
          until |-> 0]
    ELSE LET w == NextWindow(p.freq, p.ivs, now) IN [runAt |-> w.s, until |-> w.e]

\* cadenceDue: a matching day, at or after the hour, not yet stamped.
CadenceDue(c, last, now) ==
    /\ c.freq = "weekly" => Weekday(now) = c.d
    /\ c.freq = "monthly" =>
          Day(now) = Day(AtClamped(MonthOf(now), c.d, 0))
    /\ Hour(now) >= c.h
    /\ last # Day(now)
=============================================================================
