----------------------------- MODULE DeskDateProofs -----------------------------
(***************************************************************************)
(* What is true of every instant, schedule and age: the next fire of a job *)
(* and what is announced of it (DeskCalendar), and the horizon a return is *)
(* filed under (TrackRecord).                                              *)
(***************************************************************************)
EXTENDS DeskCalendar, TrackRecord, TLAPS

(* next_weekday_at gives an instant after now, at the time asked for, from  *)
(* Monday to Friday.                                                        *)
THEOREM NextIsAhead ==
  ASSUME NEW now \in Instants, NEW at \in Seconds
  PROVE  LET next == NextWeekdayAt(now, at) IN
         /\ next \in Instants /\ next.second = at
         /\ Before(now, next) /\ Weekday(next.day)
<1>1. /\ now.day \in Int /\ now.second \in Int /\ at \in Int
  <2>1. now.day \in Int /\ now.second \in Seconds
    BY DEF Instants
  <2>2. \A second \in Seconds : second \in Int
    BY DEF Seconds
  <2> QED BY <2>1, <2>2
<1>2. FirstDay(now, at) \in Int /\ FirstDay(now, at) >= now.day
  BY <1>1 DEF FirstDay
<1>3. FirstDay(now, at) = now.day => now.second < at
  BY <1>1 DEF FirstDay
<1>4. ASSUME NEW d \in Int
      PROVE  /\ SkipWeekend(d) \in Int /\ SkipWeekend(d) >= d
             /\ Weekday(SkipWeekend(d))
  <2>1. d % 7 \in 0..6
    BY <1>4
  <2>2. CASE d % 7 = 5
    <3>1. SkipWeekend(d) = d + 2
      BY <2>2 DEF SkipWeekend
    <3>2. (d + 2) % 7 = 0
      BY <1>4, <2>2
    <3> QED BY <3>1, <3>2, <1>4 DEF Weekday
  <2>3. CASE d % 7 = 6
    <3>1. SkipWeekend(d) = d + 1
      BY <2>3 DEF SkipWeekend
    <3>2. (d + 1) % 7 = 0
      BY <1>4, <2>3
    <3> QED BY <3>1, <3>2, <1>4 DEF Weekday
  <2>4. CASE d % 7 # 5 /\ d % 7 # 6
    <3>1. SkipWeekend(d) = d
      BY <2>4 DEF SkipWeekend
    <3> QED BY <3>1, <2>1, <2>4, <1>4 DEF Weekday
  <2> QED BY <2>2, <2>3, <2>4
<1> DEFINE next == NextWeekdayAt(now, at)
<1>5. next.day = SkipWeekend(FirstDay(now, at)) /\ next.second = at
  BY DEF NextWeekdayAt
<1>6. next \in Instants
  BY <1>2, <1>4 DEF NextWeekdayAt, Instants
<1>7. Weekday(next.day)
  BY <1>2, <1>4, <1>5
<1>8. Before(now, next)
  BY <1>1, <1>2, <1>3, <1>4, <1>5 DEF Before
<1> QED
  BY <1>5, <1>6, <1>7, <1>8

(* No occurrence is passed over: the one it gives is the first.  So it is   *)
(* when the cron job of the slot fires, whose trigger is "mon-fri".         *)
THEOREM NextIsFirst ==
  ASSUME NEW now \in Instants, NEW at \in Seconds, NEW day \in Int,
         Before(now, [day |-> day, second |-> at]), Weekday(day)
  PROVE  NextWeekdayAt(now, at).day <= day
<1>1. /\ now.day \in Int /\ now.second \in Int /\ at \in Int
  <2>1. now.day \in Int /\ now.second \in Seconds
    BY DEF Instants
  <2>2. \A second \in Seconds : second \in Int
    BY DEF Seconds
  <2> QED BY <2>1, <2>2
<1> DEFINE first == FirstDay(now, at)
<1>2. first \in Int /\ first <= day
  BY <1>1 DEF FirstDay, Before
<1>3. ASSUME NEW d \in Int, d <= day
      PROVE  SkipWeekend(d) <= day
  <2>1. CASE d % 7 = 5
    <3>1. SkipWeekend(d) = d + 2
      BY <2>1 DEF SkipWeekend
    <3>2. (d + 1) % 7 = 6
      BY <2>1
    <3>3. day # d /\ day # d + 1
      BY <2>1, <3>2 DEF Weekday
    <3> QED BY <3>1, <3>3, <1>3
  <2>2. CASE d % 7 = 6
    <3>1. SkipWeekend(d) = d + 1
      BY <2>2 DEF SkipWeekend
    <3>2. day # d
      BY <2>2 DEF Weekday
    <3> QED BY <3>1, <3>2, <1>3
  <2>3. CASE d % 7 # 5 /\ d % 7 # 6
    BY <2>3, <1>3 DEF SkipWeekend
  <2> QED BY <2>1, <2>2, <2>3
<1> QED
  BY <1>2, <1>3 DEF NextWeekdayAt

(* A fire that is announced for today is not one the worker will skip.      *)
THEOREM TodayIsKept ==
  ASSUME NEW row \in Rows, NEW now \in Instants,
         NEW fire \in UpcomingFires(row, now), fire.day = now.day
  PROVE  ~IsClosed(row, fire)
BY DEF UpcomingFires, IsClosed

(* For later days the page is no guide: it announces a fire of a day that   *)
(* is closed, and nothing of the open day after a closed one, as it looks   *)
(* at today's date for both.                                                *)
THEOREM LaterDaysAreNot ==
  \E row \in Rows, now \in Instants :
    /\ \E fire \in UpcomingFires(row, now) : IsClosed(row, fire)
    /\ \E yesterday \in Instants, again \in Rows :
         /\ Before(yesterday, now) /\ UpcomingFires(again, yesterday) = {}
         /\ \E at \in again.times : ~IsClosed(again, NextWeekdayAt(yesterday, at))
<1> DEFINE row   == [enabled |-> TRUE, closed |-> {2}, times |-> {30}]
           again == [enabled |-> TRUE, closed |-> {0}, times |-> {30}]
           now       == [day |-> 1, second |-> 60]
           yesterday == [day |-> 0, second |-> 60]
<1>1. row \in Rows /\ again \in Rows /\ now \in Instants /\ yesterday \in Instants
  BY DEF Rows, Instants, Seconds
<1>2. /\ NextWeekdayAt(now, 30) = [day |-> 2, second |-> 30]
      /\ NextWeekdayAt(yesterday, 30) = [day |-> 1, second |-> 30]
  <2>1. 2 % 7 = 2 /\ 1 % 7 = 1
    OBVIOUS
  <2> QED BY <2>1 DEF NextWeekdayAt, FirstDay, SkipWeekend
<1>3. [day |-> 2, second |-> 30] \in UpcomingFires(row, now)
  BY <1>2 DEF UpcomingFires, IsClosed
<1>4. IsClosed(row, [day |-> 2, second |-> 30])
  BY DEF IsClosed
<1>5. Before(yesterday, now) /\ UpcomingFires(again, yesterday) = {}
  BY DEF Before, UpcomingFires, IsClosed
<1>6. ~IsClosed(again, NextWeekdayAt(yesterday, 30)) /\ 30 \in again.times
  BY <1>2 DEF IsClosed
<1> HIDE DEF row, again, now, yesterday
<1> QED
  BY <1>1, <1>3, <1>4, <1>5, <1>6

--------------------------------------------------------------------------------

(* "Forward returns of past accumulate calls" (snapshots.py:166) for 30, 90 *)
(* and 180 days: whatever the ages of the returns, all that are old enough  *)
(* for any horizon are in the bucket of 30 days, and the others are empty.  *)
THEOREM OnlyTheShortest ==
  ASSUME NEW ages \in SUBSET Int
  PROVE  /\ Bucket(30, ages) = {days \in ages : OldEnough(days) # {}}
         /\ Bucket(90, ages) = {} /\ Bucket(180, ages) = {}
<1>1. ASSUME NEW days \in ages, OldEnough(days) # {}
      PROVE  30 \in OldEnough(days)
  <2>1. PICK h \in Horizons : 100 * days >= 85 * h
    BY <1>1 DEF OldEnough
  <2> QED BY <2>1 DEF OldEnough, Horizons
<1>2. ASSUME NEW days \in ages, OldEnough(days) # {}
      PROVE  FiledUnder(days) = {30}
  <2>1. 30 \in OldEnough(days)
    BY <1>1, <1>2
  <2>2. \A h \in OldEnough(days) : h \in Int /\ 30 <= h
    BY DEF OldEnough, Horizons
  <2> QED BY <2>1, <2>2 DEF FiledUnder
<1>3. ASSUME NEW days \in ages, OldEnough(days) = {}
      PROVE  FiledUnder(days) = {}
  BY <1>3 DEF FiledUnder
<1>4. Bucket(30, ages) = {days \in ages : OldEnough(days) # {}}
  BY <1>2, <1>3, Zenon DEF Bucket
<1>5. ASSUME NEW h \in {90, 180}
      PROVE  Bucket(h, ages) = {}
  <2>1. h # 30
    OBVIOUS
  <2>2. \A days \in ages : h \notin FiledUnder(days)
    BY <1>2, <1>3, <2>1
  <2> QED BY <2>2 DEF Bucket
<1> QED
  BY <1>4, <1>5
================================================================================
