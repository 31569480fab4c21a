------------------------------ MODULE Schedule ------------------------------
(***************************************************************************)
(* Schedules of internal/policy/group.go: on some days of the week a       *)
(* window from one minute of the day to another, past midnight when it     *)
(* ends before it starts.                                                  *)
(***************************************************************************)
EXTENDS Integers

CONSTANTS WeekDays, DayMinutes   \* 7 and 1440

ASSUME CalendarAssumption == /\ WeekDays \in Nat /\ WeekDays > 1
                             /\ DayMinutes \in Nat /\ DayMinutes > 1

Days == 0..(WeekDays - 1)        \* time.Weekday
Minutes == 0..(DayMinutes - 1)   \* minutesOfDay
Windows == [days : (SUBSET Days) \ {{}}, from : Minutes, to : Minutes]

yesterday(day) == IF day = 0 THEN WeekDays - 1 ELSE day - 1

ActiveAt(s, day, minute) ==
  IF s.from = s.to THEN day \in s.days
  ELSE IF s.from < s.to THEN day \in s.days /\ minute >= s.from /\ minute < s.to
  ELSE IF minute >= s.from THEN day \in s.days
  ELSE yesterday(day) \in s.days /\ minute < s.to
-----------------------------------------------------------------------------
(* What a schedule means.  A window opens on each of its days and lasts as *)
(* long as the clock needs from one bound to the other; with equal bounds  *)
(* it is the day itself.                                                   *)
DaysSince(d, day) == IF d <= day THEN day - d ELSE day - d + WeekDays
Elapsed(s, d, day, minute) == DaysSince(d, day) * DayMinutes + minute - s.from
Length(s) == IF s.from < s.to THEN s.to - s.from ELSE s.to - s.from + DayMinutes

InWindow(s, day, minute) ==
  IF s.from = s.to THEN day \in s.days
  ELSE \E d \in s.days : Elapsed(s, d, day, minute) \in 0..(Length(s) - 1)
=============================================================================
