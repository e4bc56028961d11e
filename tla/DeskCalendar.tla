----------------------------- MODULE DeskCalendar -----------------------------
(***************************************************************************)
(* When a clock job of the schedule fires next (backend/app/schedule.py:   *)
(* next_weekday_at, upcoming_fires, is_closed), and what the schedule page *)
(* announces of it.                                                        *)
(*                                                                         *)
(* An instant is a day, counted from some Monday, and a second of that     *)
(* day, both in the venue's own time; a time zone whose clock is put       *)
(* forward over the time of a job is not modelled.                         *)
(***************************************************************************)
EXTENDS Integers

Seconds  == {s \in Int : 0 <= s /\ s < 24 * 60 * 60}
Instants == [day : Int, second : Seconds]

Weekday(day) == day % 7 <= 4

Before(a, b) == \/ a.day < b.day
                \/ a.day = b.day /\ a.second < b.second

(* The day of the next time `at' after now: today if it is still to come,   *)
(* and no Saturday or Sunday.                                               *)
FirstDay(now, at) == IF now.second < at THEN now.day ELSE now.day + 1
SkipWeekend(day)  == CASE day % 7 = 5 -> day + 2
                       [] day % 7 = 6 -> day + 1
                       [] OTHER       -> day

NextWeekdayAt(now, at) == [day |-> SkipWeekend(FirstDay(now, at)), second |-> at]

(* is_closed: at the time the worker takes up a fire. *)
IsClosed(row, now) == ~row.enabled \/ now.day \in row.closed

(* upcoming_fires: the fires of a venue that the page announces. *)
UpcomingFires(row, now) == IF IsClosed(row, now) THEN {}
                           ELSE {NextWeekdayAt(now, at) : at \in row.times}

Rows == [enabled : BOOLEAN, closed : SUBSET Int, times : SUBSET Seconds]
================================================================================
