----------------------------- MODULE QuietHours -----------------------------
(***************************************************************************)
(* Quiet hours as the configuration states them, two times of a day that   *)
(* may enclose midnight, and days as the stable id of a match counts them. *)
(* Time is counted in units of which DayLength make a day.                 *)
(***************************************************************************)
EXTENDS Integers

CONSTANTS
  DayLength,  \* clock units of a day
  Offset      \* of the configured time zone, ahead of UTC

ASSUME DayAssumption == DayLength \in Nat \ {0} /\ Offset \in Nat

TimesOfDay == 0..(DayLength - 1)

Day(t) == t \div DayLength

LocalTime(t) == (t + Offset) % DayLength

QuietHoursConfig ==
  [enabled : BOOLEAN, start : TimesOfDay, end : TimesOfDay,
   behavior : {"defer", "suppress"}]

\* Mutant: the window of one day is used for overnight windows too.
InQuietHoursSameDay(t, qh) == qh.enabled /\ qh.start <= t /\ t < qh.end

InQuietHours(t, qh) ==
  /\ qh.enabled
  /\ qh.start # qh.end
  /\ IF qh.start < qh.end
       THEN qh.start <= t /\ t < qh.end
       ELSE t >= qh.start \/ t < qh.end

-----------------------------------------------------------------------------
(* What a quiet window means: it begins at its start and lasts until the    *)
(* clock next shows its end.                                                *)

\* How long after the clock showed a it next shows b.
Until(a, b) == IF a <= b THEN b - a ELSE b - a + DayLength

Covered(t, qh) == qh.enabled /\ Until(qh.start, t) < Until(qh.start, qh.end)

=============================================================================
