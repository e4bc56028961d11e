-------------------------- MODULE DeskSchedulerProofs --------------------------
(***************************************************************************)
(* The scheduler's line of fires, for any venues, times and bounds: each   *)
(* fire is handled once and in order and starts at most one run, the jobs  *)
(* are those of the stored schedule as long as saves do not overlap, and   *)
(* with a database that works what is recorded and notified is true.       *)
(*                                                                         *)
(* EachFireOnce is an equation between sequences; InOrder says the same by *)
(* position, which is what a step can be followed through.  OneRunPerFire  *)
(* is not inductive alone: NoneAhead adds that no run belongs to a fire    *)
(* that has not been taken out of the queue.                               *)
(***************************************************************************)
EXTENDS DeskScheduler, SequenceTheorems, TLAPS

RunRows == [venue : Venues \cup {Nowhere}, fire : Nat, appetite : Appetites,
            status : Statuses]

Shape ==
  /\ queue \in Seq(Nat) /\ handled \in Seq(Nat) /\ fired \in Nat /\ lost \in Nat
  /\ fired <= MaxFires
  /\ worker \in [at : {"idle", "waiting", "watching"}, fire : Nat, run : Nat]
  /\ origin \in [Fires -> (Venues \cup {Nowhere}) \X AllSlots]
  /\ market \in Venues /\ appetite \in Appetites
  /\ active \in Nat /\ next \in Nat /\ next > 0 /\ runs \in [Runs -> RunRows]

(* EachFireOnce by position. *)
InOrder ==
  /\ fired - lost = Len(handled) + Len(InHand) + Len(queue)
  /\ \A i \in 1..Len(handled) : handled[i] = lost + i
  /\ worker.at # "idle" => worker.fire = lost + Len(handled) + 1
  /\ \A i \in 1..Len(queue) : queue[i] = lost + Len(handled) + Len(InHand) + i

LineInv == Shape /\ InOrder /\ OneRunPerFire /\ NoneAhead

--------------------------------------------------------------------------------
(* The line. *)

LEMMA HandIsShort ==
  ASSUME Shape
  PROVE  /\ InHand \in Seq(Nat)
         /\ worker.at = "idle" => InHand = <<>> /\ Len(InHand) = 0
         /\ worker.at # "idle" => InHand = <<worker.fire>> /\ Len(InHand) = 1
BY DEF Shape, InHand

(* s holds the n numbers from k + 1 on, in order.                           *)
Counts(s, k, n) == s \in Seq(Nat) /\ Len(s) = n /\ \A i \in 1..n : s[i] = k + i

LEMMA CountsOnward ==
  ASSUME NEW k \in Nat, NEW m \in Nat, NEW n \in Nat, NEW a, NEW b,
         Counts(a, k, m), Counts(b, k + m, n)
  PROVE  Counts(a \o b, k, m + n)
<1>1. /\ a \in Seq(Nat) /\ Len(a) = m /\ \A i \in 1..m : a[i] = k + i
      /\ b \in Seq(Nat) /\ Len(b) = n /\ \A i \in 1..n : b[i] = k + m + i
  BY DEF Counts
<1>2. /\ a \o b \in Seq(Nat) /\ Len(a \o b) = m + n
      /\ \A i \in 1..(m + n) : (a \o b)[i] = IF i <= m THEN a[i] ELSE b[i - m]
  BY <1>1, ConcatProperties
<1>3. ASSUME NEW i \in 1..(m + n)
      PROVE  (a \o b)[i] = k + i
  <2>1. CASE i <= m
    <3>1. (a \o b)[i] = a[i] /\ i \in 1..m
      BY <1>2, <2>1
    <3> QED BY <1>1, <3>1
  <2>2. CASE ~(i <= m)
    <3>1. (a \o b)[i] = b[i - m] /\ i - m \in 1..n
      BY <1>2, <2>2
    <3>2. b[i - m] = k + m + (i - m)
      BY <1>1, <3>1
    <3> QED BY <3>1, <3>2
  <2> QED BY <2>1, <2>2
<1> QED BY <1>2, <1>3 DEF Counts

LEMMA CountsIsRange ==
  ASSUME NEW k \in Nat, NEW n \in Nat, NEW s, Counts(s, k, n)
  PROVE  s = [i \in 1..n |-> k + i]
<1> DEFINE r == [i \in 1..n |-> k + i]
<1>1. r \in Seq(Nat) /\ Len(r) = n /\ \A i \in 1..n : r[i] = k + i
  OBVIOUS
<1> HIDE DEF r
<1>2. s = r
  BY <1>1, SeqEqual DEF Counts
<1> QED BY <1>2 DEF r

LEMMA InOrderIsEachOnce ==
  ASSUME Shape, InOrder
  PROVE  EachFireOnce
<1>1. PICK la \in Nat, lb \in Nat, lc \in Nat :
        la = Len(handled) /\ lb = Len(InHand) /\ lc = Len(queue)
  BY LenProperties, HandIsShort DEF Shape
<1>2. lost \in Nat /\ fired \in Nat
  BY DEF Shape
<1>3. Counts(handled, lost, la)
  BY <1>1 DEF InOrder, Counts, Shape
<1>4. Counts(InHand, lost + la, lb)
  <2>1. CASE worker.at = "idle"
    <3>1. InHand \in Seq(Nat) /\ lb = 0
      BY <2>1, <1>1, HandIsShort
    <3> QED BY <3>1, <1>1 DEF Counts
  <2>2. CASE worker.at # "idle"
    <3>1. InHand \in Seq(Nat) /\ InHand = <<worker.fire>> /\ lb = 1
      BY <2>2, <1>1, HandIsShort
    <3>2. InHand[1] = worker.fire
      BY <3>1
    <3>3. worker.fire = lost + la + 1
      BY <2>2, <1>1 DEF InOrder
    <3>4. \A i \in 1..1 : InHand[i] = lost + la + i
      BY <3>2, <3>3
    <3> QED BY <3>1, <3>4, <1>1 DEF Counts
  <2> QED BY <2>1, <2>2
<1>5. Counts(queue, lost + (la + lb), lc)
  <2>1. \A i \in 1..lc : queue[i] = lost + (la + lb) + i
    BY <1>1, <1>2 DEF InOrder
  <2> QED BY <2>1, <1>1 DEF Counts, Shape
<1>6. Counts(handled \o InHand, lost, la + lb)
  BY <1>2, <1>3, <1>4, CountsOnward
<1>7. PICK m \in Nat : m = la + lb
  OBVIOUS
<1>8. Counts((handled \o InHand) \o queue, lost, m + lc)
  BY <1>2, <1>5, <1>6, <1>7, CountsOnward
<1>9. PICK n \in Nat : n = m + lc
  OBVIOUS
<1>10. n = fired - lost
  BY <1>1, <1>2, <1>7, <1>9 DEF InOrder
<1> QED BY <1>2, <1>8, <1>9, <1>10, CountsIsRange DEF EachFireOnce

--------------------------------------------------------------------------------
(* Where the line is. *)

LEMMA RunsAreNumbers == Runs \subseteq Nat \ {0}
BY SchedulerAssumption DEF Runs

LEMMA ReachedIs ==
  ASSUME Shape
  PROVE  /\ Len(handled) \in Nat /\ Len(queue) \in Nat /\ Reached \in Nat
         /\ worker.at = "idle" => Reached = lost + Len(handled)
         /\ worker.at # "idle" => Reached = lost + Len(handled) + 1
<1>1. Len(handled) \in Nat /\ Len(queue) \in Nat /\ lost \in Nat
  BY LenProperties DEF Shape
<1>2. Reached = lost + Len(handled) + Len(InHand)
  BY DEF Reached
<1>3. /\ worker.at = "idle" => Len(InHand) = 0
      /\ worker.at # "idle" => Len(InHand) = 1
  BY HandIsShort
<1>4. Reached \in Nat
  BY <1>1, <1>2, <1>3
<1>5. ASSUME worker.at = "idle" PROVE Reached = lost + Len(handled)
  BY <1>1, <1>2, <1>3, <1>5
<1>6. ASSUME worker.at # "idle" PROVE Reached = lost + Len(handled) + 1
  BY <1>1, <1>2, <1>3, <1>6
<1> QED BY <1>1, <1>4, <1>5, <1>6

(* The fire in hand is the one the line has reached; none is beyond it.     *)
LEMMA ReachedFired ==
  ASSUME Shape, InOrder
  PROVE  /\ Reached <= fired
         /\ worker.at # "idle" => worker.fire = Reached /\ worker.fire \in Fires
<1>1. /\ Reached = lost + Len(handled) + Len(InHand)
      /\ fired - lost = Len(handled) + Len(InHand) + Len(queue)
  BY DEF Reached, InOrder
<1>2. /\ Len(handled) \in Nat /\ Len(queue) \in Nat /\ lost \in Nat /\ fired \in Nat
      /\ Len(InHand) \in Nat /\ fired <= MaxFires
  BY ReachedIs, HandIsShort DEF Shape
<1>3. Reached <= fired
  BY <1>1, <1>2
<1>4. ASSUME worker.at # "idle"
      PROVE  worker.fire = Reached /\ worker.fire \in Fires
  <2>1. worker.fire = lost + Len(handled) + 1 /\ Reached = lost + Len(handled) + 1
    BY <1>4, ReachedIs DEF InOrder
  <2>2. worker.fire \in Nat /\ worker.fire >= 1 /\ worker.fire <= MaxFires
    BY <2>1, <1>2, <1>3, SchedulerAssumption
  <2> QED BY <2>1, <2>2, SchedulerAssumption DEF Fires
<1> QED BY <1>3, <1>4

(* The fire at the head of the queue is the next one in the line.           *)
LEMMA HeadIsNext ==
  ASSUME Shape, InOrder, worker.at = "idle", queue # <<>>
  PROVE  /\ Head(queue) = lost + Len(handled) + 1 /\ Head(queue) = Reached + 1
         /\ Head(queue) \in Fires /\ Head(queue) <= fired
         /\ Tail(queue) \in Seq(Nat) /\ Len(Tail(queue)) = Len(queue) - 1
         /\ Len(queue) >= 1
         /\ \A i \in 1..Len(Tail(queue)) : Tail(queue)[i] = lost + Len(handled) + 1 + i
<1>1. /\ queue \in Seq(Nat) /\ lost \in Nat /\ fired \in Nat /\ fired <= MaxFires
      /\ Len(handled) \in Nat /\ Len(queue) \in Nat /\ Reached = lost + Len(handled)
      /\ Len(InHand) = 0
  BY ReachedIs, HandIsShort DEF Shape
<1>2. Len(queue) >= 1
  BY <1>1, EmptySeq
<1>3. /\ fired - lost = Len(handled) + Len(queue)
      /\ \A i \in 1..Len(queue) : queue[i] = lost + Len(handled) + i
  BY <1>1 DEF InOrder
<1>4. Head(queue) = queue[1]
  BY <1>1, <1>2
<1>5. Head(queue) = lost + Len(handled) + 1
  BY <1>1, <1>2, <1>3, <1>4
<1>6. Head(queue) \in Nat /\ Head(queue) >= 1 /\ Head(queue) <= fired
  BY <1>1, <1>2, <1>3, <1>5
<1>7. Head(queue) \in Fires
  BY <1>1, <1>6, SchedulerAssumption DEF Fires
<1>8. /\ Tail(queue) \in Seq(Nat) /\ Len(Tail(queue)) = Len(queue) - 1
      /\ \A i \in 1..Len(Tail(queue)) : Tail(queue)[i] = queue[i + 1]
  BY <1>1, HeadTailProperties
<1>9. ASSUME NEW i \in 1..Len(Tail(queue))
      PROVE  Tail(queue)[i] = lost + Len(handled) + 1 + i
  <2>1. i + 1 \in 1..Len(queue) /\ Tail(queue)[i] = queue[i + 1]
    BY <1>1, <1>8
  <2>2. queue[i + 1] = lost + Len(handled) + (i + 1)
    BY <1>3, <2>1
  <2> QED BY <2>1, <2>2, <1>1
<1> QED BY <1>1, <1>2, <1>5, <1>6, <1>7, <1>8, <1>9

--------------------------------------------------------------------------------
(* The line moves on. *)

LEMMA AppendIs ==
  ASSUME NEW s \in Seq(Nat), NEW e \in Nat
  PROVE  /\ Append(s, e) \in Seq(Nat) /\ Len(Append(s, e)) = Len(s) + 1
         /\ \A i \in 1..Len(s) : Append(s, e)[i] = s[i]
         /\ Append(s, e)[Len(s) + 1] = e
OBVIOUS

LEMMA IdleIsIdle == Idle \in [at : {"idle", "waiting", "watching"}, fire : Nat, run : Nat]
                    /\ Idle.at = "idle"
BY DEF Idle

(* A fire waits. *)
LEMMA EnqueueOrder ==
  ASSUME Shape, InOrder, Shape', queue' = Append(queue, fired + 1), fired' = fired + 1,
         UNCHANGED <<handled, lost, worker>>
  PROVE  InOrder' /\ Reached' = Reached
<1>1. InHand' = InHand /\ Reached' = Reached
  BY DEF InHand, Reached
<1>2. /\ queue \in Seq(Nat) /\ fired \in Nat /\ lost \in Nat
      /\ Len(handled) \in Nat /\ Len(queue) \in Nat /\ Len(InHand) \in Nat
  BY ReachedIs, HandIsShort DEF Shape
<1>3. /\ Len(queue') = Len(queue) + 1
      /\ \A i \in 1..Len(queue) : queue'[i] = queue[i]
      /\ queue'[Len(queue) + 1] = fired + 1
  BY <1>2, AppendIs
<1>4. /\ fired - lost = Len(handled) + Len(InHand) + Len(queue)
      /\ \A i \in 1..Len(queue) : queue[i] = lost + Len(handled) + Len(InHand) + i
  BY DEF InOrder
<1>5. ASSUME NEW i \in 1..Len(queue')
      PROVE  queue'[i] = lost + Len(handled) + Len(InHand) + i
  <2>1. CASE i <= Len(queue)
    <3>1. i \in 1..Len(queue)
      BY <2>1, <1>2, <1>3
    <3> QED BY <3>1, <1>3, <1>4
  <2>2. CASE ~(i <= Len(queue))
    <3>1. i = Len(queue) + 1
      BY <2>2, <1>2, <1>3
    <3>2. queue'[i] = fired + 1
      BY <3>1, <1>3
    <3>3. fired + 1 = lost + Len(handled) + Len(InHand) + i
      BY <3>1, <1>2, <1>4
    <3> QED BY <3>2, <3>3
  <2> QED BY <2>1, <2>2
<1>6. fired' - lost' = Len(handled') + Len(InHand)' + Len(queue')
  BY <1>1, <1>2, <1>3, <1>4
<1>7. /\ \A i \in 1..Len(handled') : handled'[i] = lost' + i
      /\ worker'.at # "idle" => worker'.fire = lost' + Len(handled') + 1
  BY DEF InOrder
<1> QED BY <1>1, <1>5, <1>6, <1>7 DEF InOrder

(* The fire at the head is taken in hand. *)
LEMMA TakeOrder ==
  ASSUME Shape, InOrder, Shape', worker.at = "idle", queue # <<>>,
         queue' = Tail(queue), worker'.at # "idle", worker'.fire = Head(queue),
         UNCHANGED <<handled, lost, fired>>
  PROVE  InOrder' /\ Reached' = Reached + 1
<1>1. /\ Head(queue) = lost + Len(handled) + 1 /\ Head(queue) = Reached + 1
      /\ Len(Tail(queue)) = Len(queue) - 1
      /\ \A i \in 1..Len(Tail(queue)) : Tail(queue)[i] = lost + Len(handled) + 1 + i
  BY HeadIsNext
<1>2. /\ lost \in Nat /\ fired \in Nat /\ Len(handled) \in Nat /\ Len(queue) \in Nat
      /\ Reached = lost + Len(handled) /\ Len(InHand) = 0
  BY ReachedIs, HandIsShort DEF Shape
<1>3. Len(InHand)' = 1 /\ Reached' = lost + Len(handled) + 1
  <2>1. InHand' = <<worker'.fire>>
    BY DEF InHand
  <2>2. Len(InHand)' = 1
    BY <2>1
  <2>3. Reached' = lost + Len(handled) + Len(InHand)'
    BY DEF Reached
  <2> QED BY <2>2, <2>3
<1>4. fired - lost = Len(handled) + Len(queue)
  BY <1>2 DEF InOrder
<1>5. fired' - lost' = Len(handled') + Len(InHand)' + Len(queue')
  BY <1>1, <1>2, <1>3, <1>4
<1>6. worker'.fire = lost' + Len(handled') + 1
  BY <1>1
<1>7. \A i \in 1..Len(handled') : handled'[i] = lost' + i
  BY DEF InOrder
<1>8. \A i \in 1..Len(queue') : queue'[i] = lost' + Len(handled') + Len(InHand)' + i
  BY <1>1, <1>3
<1> QED BY <1>2, <1>3, <1>5, <1>6, <1>7, <1>8 DEF InOrder

(* The fire at the head is done with at once. *)
LEMMA SkipOrder ==
  ASSUME Shape, InOrder, Shape', worker.at = "idle", queue # <<>>,
         queue' = Tail(queue), DoneWith(Head(queue)), UNCHANGED <<lost, fired>>
  PROVE  InOrder' /\ Reached' = Reached + 1
<1>1. /\ Head(queue) = lost + Len(handled) + 1 /\ Head(queue) = Reached + 1
      /\ Head(queue) \in Nat /\ Len(Tail(queue)) = Len(queue) - 1
      /\ \A i \in 1..Len(Tail(queue)) : Tail(queue)[i] = lost + Len(handled) + 1 + i
  BY HeadIsNext, SchedulerAssumption DEF Fires
<1>2. /\ lost \in Nat /\ fired \in Nat /\ Len(handled) \in Nat /\ Len(queue) \in Nat
      /\ Reached = lost + Len(handled) /\ Len(InHand) = 0 /\ handled \in Seq(Nat)
  BY ReachedIs, HandIsShort DEF Shape
<1>3. /\ handled' = Append(handled, Head(queue)) /\ worker'.at = "idle"
  BY IdleIsIdle DEF DoneWith
<1>4. /\ Len(handled') = Len(handled) + 1
      /\ \A i \in 1..Len(handled) : handled'[i] = handled[i]
      /\ handled'[Len(handled) + 1] = Head(queue)
  BY <1>1, <1>2, <1>3, AppendIs
<1>5. Len(InHand)' = 0 /\ Reached' = lost + Len(handled')
  <2>1. InHand' = <<>>
    BY <1>3 DEF InHand
  <2>2. Len(InHand)' = 0
    BY <2>1
  <2>3. Reached' = lost + Len(handled') + Len(InHand)'
    BY DEF Reached
  <2> QED BY <2>2, <2>3, <1>2, <1>4
<1>6. fired - lost = Len(handled) + Len(queue)
  BY <1>2 DEF InOrder
<1>7. fired' - lost' = Len(handled') + Len(InHand)' + Len(queue')
  BY <1>1, <1>2, <1>4, <1>5, <1>6
<1>8. ASSUME NEW i \in 1..Len(handled')
      PROVE  handled'[i] = lost + i
  <2>1. CASE i <= Len(handled)
    <3>1. i \in 1..Len(handled)
      BY <2>1, <1>2, <1>4
    <3> QED BY <3>1, <1>4 DEF InOrder
  <2>2. CASE ~(i <= Len(handled))
    <3>1. i = Len(handled) + 1
      BY <2>2, <1>2, <1>4
    <3> QED BY <3>1, <1>1, <1>2, <1>4
  <2> QED BY <2>1, <2>2
<1>9. \A i \in 1..Len(queue') : queue'[i] = lost' + Len(handled') + Len(InHand)' + i
  <2> TAKE i \in 1..Len(queue')
  <2>1. queue'[i] = lost + Len(handled) + 1 + i
    BY <1>1
  <2> QED BY <2>1, <1>1, <1>2, <1>4, <1>5
<1>10. Reached' = Reached + 1
  BY <1>2, <1>4, <1>5
<1> QED BY <1>3, <1>7, <1>8, <1>9, <1>10 DEF InOrder

(* The fire in hand is done with. *)
LEMMA DoneOrder ==
  ASSUME Shape, InOrder, Shape', worker.at # "idle", DoneWith(worker.fire),
         UNCHANGED <<queue, lost, fired>>
  PROVE  InOrder' /\ Reached' = Reached
<1>1. worker.fire = lost + Len(handled) + 1 /\ worker.fire \in Nat
  BY DEF InOrder, Shape
<1>2. /\ lost \in Nat /\ fired \in Nat /\ Len(handled) \in Nat /\ Len(queue) \in Nat
      /\ Reached = lost + Len(handled) + 1 /\ Len(InHand) = 1 /\ handled \in Seq(Nat)
  BY ReachedIs, HandIsShort DEF Shape
<1>3. handled' = Append(handled, worker.fire) /\ worker'.at = "idle"
  BY IdleIsIdle DEF DoneWith
<1>4. /\ Len(handled') = Len(handled) + 1
      /\ \A i \in 1..Len(handled) : handled'[i] = handled[i]
      /\ handled'[Len(handled) + 1] = worker.fire
  BY <1>1, <1>2, <1>3, AppendIs
<1>5. Len(InHand)' = 0 /\ Reached' = lost + Len(handled')
  <2>1. InHand' = <<>>
    BY <1>3 DEF InHand
  <2>2. Len(InHand)' = 0
    BY <2>1
  <2>3. Reached' = lost + Len(handled') + Len(InHand)'
    BY DEF Reached
  <2> QED BY <2>2, <2>3, <1>2, <1>4
<1>6. /\ fired - lost = Len(handled) + 1 + Len(queue)
      /\ \A i \in 1..Len(queue) : queue[i] = lost + Len(handled) + 1 + i
  BY <1>2 DEF InOrder
<1>7. fired' - lost' = Len(handled') + Len(InHand)' + Len(queue')
  BY <1>2, <1>4, <1>5, <1>6
<1>8. ASSUME NEW i \in 1..Len(handled')
      PROVE  handled'[i] = lost + i
  <2>1. CASE i <= Len(handled)
    <3>1. i \in 1..Len(handled)
      BY <2>1, <1>2, <1>4
    <3> QED BY <3>1, <1>4 DEF InOrder
  <2>2. CASE ~(i <= Len(handled))
    <3>1. i = Len(handled) + 1
      BY <2>2, <1>2, <1>4
    <3> QED BY <3>1, <1>1, <1>2, <1>4
  <2> QED BY <2>1, <2>2
<1>9. \A i \in 1..Len(queue') : queue'[i] = lost' + Len(handled') + Len(InHand)' + i
  <2> TAKE i \in 1..Len(queue')
  <2>1. queue'[i] = lost + Len(handled) + 1 + i
    BY <1>6
  <2> QED BY <2>1, <1>2, <1>4, <1>5
<1>10. Reached' = Reached
  BY <1>2, <1>4, <1>5
<1> QED BY <1>3, <1>7, <1>8, <1>9, <1>10 DEF InOrder

--------------------------------------------------------------------------------
(* The runs. *)

LEMMA Ahead ==
  ASSUME LineInv, NEW r \in Runs
  PROVE  runs[r].fire <= Reached /\ (r >= next => runs[r].fire = 0)
<1>1. NoneAhead
  BY DEF LineInv
<1> QED BY <1>1 DEF NoneAhead

(* No run starts: rows may change their status, and the worker goes home,   *)
(* waits for a fire without a run, or watches the run it was watching.      *)
LEMMA RunsStay ==
  ASSUME LineInv, Shape', InOrder',
         \A r \in Runs : runs'[r].fire = runs[r].fire /\ runs'[r].venue = runs[r].venue,
         \A n \in 1..fired : origin'[n] = origin[n],
         next' = next, active' \in {0, active}, lost' <= fired', Reached <= Reached',
         \/ worker'.at = "idle"
         \/ worker'.at = "waiting" /\ \A r \in Runs : runs[r].fire # worker'.fire
         \/ worker' = worker
  PROVE  OneRunPerFire' /\ NoneAhead'
<1>1. /\ Reached \in Nat /\ Reached <= fired /\ fired \in Nat /\ next \in Nat
      /\ next > 0 /\ active \in Nat
      /\ \A r \in Runs : runs[r].fire \in Nat
  BY ReachedIs, ReachedFired DEF LineInv, Shape, RunRows
<1>2. Reached' \in Nat
  BY DEF Shape, Reached, InHand
<1>3. \A r, s \in Runs : r < s /\ runs'[s].fire # 0 => runs'[r].fire < runs'[s].fire
  BY DEF LineInv, OneRunPerFire
<1>4. ASSUME NEW r \in Runs, runs'[r].fire # 0
      PROVE  origin'[runs'[r].fire][1] \in {runs'[r].venue, Nowhere}
  <2>1. runs[r].fire # 0 /\ runs[r].fire <= Reached
    BY <1>4, Ahead
  <2>2. runs[r].fire \in 1..fired
    BY <2>1, <1>1
  <2>3. origin[runs[r].fire][1] \in {runs[r].venue, Nowhere}
    BY <2>1 DEF LineInv, OneRunPerFire
  <2> QED BY <2>2, <2>3
<1>5. ASSUME worker'.at = "watching"
      PROVE  /\ runs'[worker'.run].fire = worker'.fire
             /\ worker'.run \in Runs /\ worker'.run < next'
  <2>1. worker' = worker
    BY <1>5
  <2>2. /\ runs[worker.run].fire = worker.fire
        /\ worker.run \in Runs /\ worker.run < next
    BY <1>5, <2>1 DEF LineInv, OneRunPerFire, NoneAhead
  <2> QED BY <2>1, <2>2
<1>6. ASSUME worker'.at = "waiting"
      PROVE  \A r \in Runs : runs'[r].fire # worker'.fire
  BY <1>6 DEF LineInv, OneRunPerFire
<1>7. ASSUME NEW r \in Runs
      PROVE  runs'[r].fire <= Reached' /\ (r >= next' => runs'[r].fire = 0)
  <2>1. runs[r].fire <= Reached /\ (r >= next => runs[r].fire = 0)
    BY Ahead
  <2> QED BY <2>1, <1>1, <1>2
<1>8. active' < next'
  BY <1>1 DEF LineInv, NoneAhead
<1> QED BY <1>3, <1>4, <1>5, <1>6, <1>7, <1>8 DEF OneRunPerFire, NoneAhead

(* A run starts, for nobody's fire or for one beyond those that have runs.  *)
LEMMA RunStarts ==
  ASSUME LineInv, Shape', InOrder',
         NEW row \in RunRows, Begin(row), UNCHANGED <<origin, lost, fired>>,
         Reached <= Reached',
         \/ row.fire = 0 /\ worker' = worker
         \/ /\ row.fire # 0 /\ row.fire <= Reached'
            /\ \A r \in Runs : runs[r].fire < row.fire
            /\ origin[row.fire][1] \in {row.venue, Nowhere}
            /\ worker' = [at |-> "watching", fire |-> row.fire, run |-> next]
  PROVE  OneRunPerFire' /\ NoneAhead'
<1>1. /\ Reached \in Nat /\ next \in Nat /\ Runs \subseteq Nat \ {0}
      /\ row.fire \in Nat /\ runs \in [Runs -> RunRows]
      /\ \A r \in Runs : runs[r].fire \in Nat
  BY ReachedIs, RunsAreNumbers DEF LineInv, Shape, RunRows
<1>2. Reached' \in Nat
  BY DEF Shape, Reached, InHand
<1>3. /\ next \in Runs /\ active' = next /\ next' = next + 1
      /\ \A r \in Runs : runs'[r] = IF r = next THEN row ELSE runs[r]
  BY <1>1 DEF Begin
<1>4. \A r \in Runs : r >= next => runs[r].fire = 0
  BY Ahead
<1>5. ASSUME NEW r \in Runs, NEW s \in Runs, r < s, runs'[s].fire # 0
      PROVE  runs'[r].fire < runs'[s].fire
  <2>1. s <= next
    BY <1>1, <1>3, <1>4, <1>5
  <2>2. CASE s = next
    <3>1. r # next /\ runs'[r] = runs[r] /\ runs'[s] = row
      BY <2>2, <1>1, <1>3, <1>5
    <3> QED BY <3>1, <1>5
  <2>3. CASE s # next
    <3>1. r # next /\ runs'[r] = runs[r] /\ runs'[s] = runs[s]
      BY <2>1, <2>3, <1>1, <1>3, <1>5
    <3> QED BY <3>1, <1>5 DEF LineInv, OneRunPerFire
  <2> QED BY <2>2, <2>3
<1>6. ASSUME NEW r \in Runs, runs'[r].fire # 0
      PROVE  origin'[runs'[r].fire][1] \in {runs'[r].venue, Nowhere}
  <2>1. CASE r = next
    BY <2>1, <1>3, <1>6
  <2>2. CASE r # next
    BY <2>2, <1>3, <1>6 DEF LineInv, OneRunPerFire
  <2> QED BY <2>1, <2>2
<1>7. ASSUME worker'.at = "watching"
      PROVE  /\ runs'[worker'.run].fire = worker'.fire
             /\ worker'.run \in Runs /\ worker'.run < next'
  <2>1. CASE worker' = worker
    <3>1. /\ runs[worker.run].fire = worker.fire
          /\ worker.run \in Runs /\ worker.run < next
      BY <2>1, <1>7 DEF LineInv, OneRunPerFire, NoneAhead
    <3>2. worker.run # next
      BY <3>1, <1>1
    <3>3. runs'[worker.run] = runs[worker.run]
      BY <3>1, <3>2, <1>3
    <3>4. worker.run < next'
      <4>1. worker.run \in Nat
        BY <3>1, <1>1
      <4>2. next' = next + 1 /\ next \in Nat /\ worker.run < next
        BY <3>1, <1>1, <1>3
      <4> HIDE <2>1
      <4> QED BY <4>1, <4>2
    <3> QED BY <2>1, <3>1, <3>3, <3>4
  <2>2. CASE worker' = [at |-> "watching", fire |-> row.fire, run |-> next]
    BY <2>2, <1>1, <1>3
  <2> QED BY <2>1, <2>2
<1>8. ASSUME worker'.at = "waiting"
      PROVE  \A r \in Runs : runs'[r].fire # worker'.fire
  <2>1. worker' = worker /\ row.fire = 0
    BY <1>8
  <2>2. \A r \in Runs : runs[r].fire # worker.fire
    BY <1>8, <2>1 DEF LineInv, OneRunPerFire
  <2>3. runs[next].fire = 0
    BY <1>1, <1>3, <1>4
  <2> QED BY <2>1, <2>2, <2>3, <1>3
<1>9. ASSUME NEW r \in Runs
      PROVE  runs'[r].fire <= Reached' /\ (r >= next' => runs'[r].fire = 0)
  <2>1. runs[r].fire <= Reached
    BY Ahead
  <2>2. runs'[r].fire <= Reached'
    BY <2>1, <1>1, <1>2, <1>3
  <2>3. ASSUME r >= next'
        PROVE  runs'[r].fire = 0
    <3>1. r # next /\ r >= next
      BY <2>3, <1>1, <1>3
    <3> QED BY <3>1, <1>3, <1>4
  <2> QED BY <2>2, <2>3
<1>10. active' < next' /\ lost' <= fired'
  BY <1>1, <1>3 DEF LineInv, NoneAhead
<1> QED BY <1>5, <1>6, <1>7, <1>8, <1>9, <1>10 DEF OneRunPerFire, NoneAhead

--------------------------------------------------------------------------------
(* The steps. *)

LEMMA InitKeeps == Init => LineInv
<1> SUFFICES ASSUME Init PROVE LineInv
  OBVIOUS
<1>1. /\ queue = <<>> /\ handled = <<>> /\ fired = 0 /\ lost = 0 /\ worker = Idle
      /\ active = 0 /\ next = 1 /\ market \in Venues /\ appetite \in Appetites
      /\ origin = [n \in Fires |-> <<Nowhere, "interval">>]
      /\ runs = [r \in Runs |-> [venue |-> Nowhere, fire |-> 0,
                                 appetite |-> CHOOSE a \in Appetites : TRUE,
                                 status |-> "none"]]
  BY DEF Init
<1>2. worker.at = "idle" /\ InHand = <<>> /\ Len(InHand) = 0
  BY <1>1, IdleIsIdle DEF InHand
<1>3. Shape
  <2>1. runs \in [Runs -> RunRows]
    <3>1. (CHOOSE a \in Appetites : TRUE) \in Appetites
      BY SchedulerAssumption
    <3> QED BY <1>1, <3>1 DEF RunRows, Statuses
  <2>2. origin \in [Fires -> (Venues \cup {Nowhere}) \X AllSlots]
    BY <1>1 DEF AllSlots
  <2>3. queue \in Seq(Nat) /\ handled \in Seq(Nat) /\ fired <= MaxFires
    BY <1>1, SchedulerAssumption
  <2> QED BY <1>1, <2>1, <2>2, <2>3, IdleIsIdle DEF Shape
<1>4. InOrder
  <2>1. Len(queue) = 0 /\ Len(handled) = 0
    BY <1>1
  <2>2. fired - lost = Len(handled) + Len(InHand) + Len(queue)
    BY <1>1, <1>2, <2>1
  <2>3. (\A i \in 1..Len(handled) : handled[i] = lost + i) /\
        (\A i \in 1..Len(queue) : queue[i] = lost + Len(handled) + Len(InHand) + i)
    BY <2>1
  <2> QED BY <1>2, <2>2, <2>3 DEF InOrder
<1>5. \A r \in Runs : runs[r].fire = 0
  BY <1>1
<1>6. OneRunPerFire
  BY <1>2, <1>5 DEF OneRunPerFire
<1>7. NoneAhead
  <2>1. Reached = 0
    BY <1>2, <1>3, <1>1, ReachedIs
  <2> QED BY <1>1, <1>2, <1>5, <2>1 DEF NoneAhead
<1> QED BY <1>3, <1>4, <1>6, <1>7 DEF LineInv

(* A step that concerns neither the line nor the runs. *)
LEMMA ElsewhereKeeps ==
  ASSUME LineInv, UNCHANGED <<backlog, desk>>, market' \in Venues, appetite' \in Appetites
  PROVE  LineInv'
<1>1. UNCHANGED <<queue, fired, origin, worker, handled, lost, active, next, runs>>
  BY DEF backlog, desk
<1>2. Shape'
  BY <1>1 DEF LineInv, Shape
<1>3. InHand' = InHand /\ Reached' = Reached
  BY <1>1 DEF InHand, Reached
<1>4. InOrder'
  BY <1>1, <1>3 DEF LineInv, InOrder
<1>5. OneRunPerFire'
  BY <1>1 DEF LineInv, OneRunPerFire
<1>6. NoneAhead'
  BY <1>1, <1>3 DEF LineInv, NoneAhead
<1> QED BY <1>2, <1>4, <1>5, <1>6 DEF LineInv

LEMMA FireKeeps ==
  ASSUME LineInv, NEW v \in Venues \cup {Nowhere}, NEW s \in AllSlots, Enqueue(v, s)
  PROVE  LineInv'
<1>1. /\ fired < MaxFires /\ fired' = fired + 1 /\ queue' = Append(queue, fired + 1)
      /\ origin' = [origin EXCEPT ![fired + 1] = <<v, s>>]
      /\ UNCHANGED <<worker, handled, lost, active, next, runs, market, appetite>>
  BY DEF Enqueue, Queued, settings, desk
<1>2. Shape /\ InOrder /\ fired \in Nat
  BY DEF LineInv, Shape
<1>3. Shape'
  <2>1. queue' \in Seq(Nat)
    BY <1>1, <1>2, AppendIs DEF Shape
  <2>2. fired' \in Nat /\ fired' <= MaxFires
    BY <1>1, <1>2, SchedulerAssumption
  <2>3. origin' \in [Fires -> (Venues \cup {Nowhere}) \X AllSlots]
    BY <1>1, <1>2 DEF Shape
  <2> QED BY <1>1, <1>2, <2>1, <2>2, <2>3 DEF Shape
<1>4. InOrder' /\ Reached' = Reached
  BY <1>1, <1>2, <1>3, EnqueueOrder
<1>5. \A n \in 1..fired : origin'[n] = origin[n]
  BY <1>1, <1>2, SchedulerAssumption DEF Shape, Fires
<1>6. active' \in {0, active} /\ lost' <= fired' /\ Reached <= Reached'
  BY <1>1, <1>2, <1>4, ReachedIs DEF LineInv, NoneAhead, Shape
<1>7. OneRunPerFire' /\ NoneAhead'
  BY <1>1, <1>3, <1>4, <1>5, <1>6, RunsStay
<1> QED BY <1>3, <1>4, <1>7 DEF LineInv

(* The row of a run that start creates for fire n. *)
RowFor(n) == [venue |-> IF origin[n][1] = Nowhere THEN market ELSE origin[n][1],
              fire |-> n, appetite |-> EnvAppetite, status |-> "running"]

LEMMA RowForIs ==
  ASSUME Shape, NEW n \in Fires
  PROVE  /\ RowFor(n) \in RunRows /\ RowFor(n).fire = n /\ n # 0
         /\ origin[n][1] \in {RowFor(n).venue, Nowhere}
<1>1. origin[n][1] \in Venues \cup {Nowhere} /\ market \in Venues
  BY DEF Shape
<1>2. n \in Nat /\ n # 0 /\ EnvAppetite \in Appetites
  BY SchedulerAssumption DEF Fires, EnvAppetite
<1> QED BY <1>1, <1>2 DEF RowFor, RunRows, Statuses

LEMMA BeginsShape ==
  ASSUME Shape, NEW row \in RunRows, Begin(row)
  PROVE  /\ active' \in Nat /\ next' \in Nat /\ next' > 0 /\ runs' \in [Runs -> RunRows]
         /\ next \in Nat
BY RunsAreNumbers DEF Shape, Begin

(* The worker starts the run of fire n, which is the next or the one in hand. *)
LEMMA StartKeeps ==
  ASSUME LineInv, NEW n \in Fires, StartFor(n),
         \/ worker.at = "idle" /\ queue # <<>> /\ queue' = Tail(queue) /\ n = Head(queue)
         \/ worker.at = "waiting" /\ queue' = queue /\ n = worker.fire,
         UNCHANGED <<market, appetite, fired, origin, lost>>
  PROVE  LineInv'
<1>1. /\ Begin(RowFor(n)) /\ UNCHANGED handled
      /\ worker' = [at |-> "watching", fire |-> n, run |-> next]
  BY DEF StartFor, RowFor
<1>2. /\ RowFor(n) \in RunRows /\ RowFor(n).fire = n /\ n # 0 /\ n \in Nat
      /\ origin[n][1] \in {RowFor(n).venue, Nowhere}
  BY RowForIs, SchedulerAssumption DEF LineInv, Fires
<1>3. Shape /\ InOrder
  BY DEF LineInv
<1>4. Shape'
  <2>1. queue' \in Seq(Nat)
    BY <1>3, HeadIsNext DEF Shape
  <2>2. worker' \in [at : {"idle", "waiting", "watching"}, fire : Nat, run : Nat]
    BY <1>1, <1>2, <1>3, BeginsShape
  <2> QED BY <1>1, <1>2, <1>3, <2>1, <2>2, BeginsShape DEF Shape
<1>5. /\ InOrder' /\ n <= Reached' /\ Reached <= Reached'
      /\ \A r \in Runs : runs[r].fire < n
  <2>1. Reached \in Nat /\ \A r \in Runs : runs[r].fire \in Nat /\ runs[r].fire <= Reached
    BY <1>3, ReachedIs, Ahead DEF Shape, RunRows
  <2>2. CASE worker.at = "idle"
    <3>1. queue # <<>> /\ queue' = Tail(queue) /\ n = Head(queue) /\ n = Reached + 1
      BY <2>2, <1>3, HeadIsNext
    <3>2. InOrder' /\ Reached' = Reached + 1
      BY <2>2, <3>1, <1>1, <1>3, <1>4, TakeOrder
    <3> QED BY <2>1, <3>1, <3>2
  <2>3. CASE worker.at # "idle"
    <3>1. worker.at = "waiting" /\ queue' = queue /\ n = worker.fire /\ n = Reached
      BY <2>3, <1>3, ReachedFired
    <3>2. InHand' = InHand /\ Reached' = Reached
      BY <2>3, <3>1, <1>1 DEF InHand, Reached
    <3>3. InOrder'
      BY <2>3, <3>1, <3>2, <1>1, <1>3 DEF InOrder
    <3>4. \A r \in Runs : runs[r].fire # n
      BY <3>1 DEF LineInv, OneRunPerFire
    <3> QED BY <2>1, <3>1, <3>2, <3>3, <3>4
  <2> QED BY <2>2, <2>3
<1>6. OneRunPerFire' /\ NoneAhead'
  BY <1>1, <1>2, <1>4, <1>5, RunStarts
<1> QED BY <1>4, <1>5, <1>6 DEF LineInv

(* The fire at the head is done with without a run. *)
LEMMA SkipKeeps ==
  ASSUME LineInv, worker.at = "idle", queue # <<>>, queue' = Tail(queue),
         DoneWith(Head(queue)), UNCHANGED <<market, appetite, fired, origin, lost, desk>>
  PROVE  LineInv'
<1>1. /\ Shape /\ InOrder
      /\ UNCHANGED <<active, next, runs>>
  BY DEF LineInv, desk
<1>2. handled' = Append(handled, Head(queue)) /\ worker' = Idle
  BY DEF DoneWith
<1>3. Shape'
  <2>1. Head(queue) \in Nat /\ queue' \in Seq(Nat)
    BY <1>1, HeadIsNext, SchedulerAssumption DEF Fires
  <2>2. handled' \in Seq(Nat)
    BY <2>1, <1>1, <1>2, AppendIs DEF Shape
  <2> QED BY <1>1, <1>2, <2>1, <2>2, IdleIsIdle DEF Shape
<1>4. InOrder' /\ Reached' = Reached + 1
  BY <1>1, <1>3, SkipOrder
<1>5. Reached <= Reached' /\ active' \in {0, active} /\ lost' <= fired'
  BY <1>1, <1>4, ReachedIs DEF LineInv, NoneAhead
<1>6. OneRunPerFire' /\ NoneAhead'
  BY <1>1, <1>2, <1>3, <1>4, <1>5, IdleIsIdle, RunsStay
<1> QED BY <1>3, <1>4, <1>6 DEF LineInv

(* The fire in hand is done with: its run is over, or it is given up.       *)
LEMMA DoneKeeps ==
  ASSUME LineInv, worker.at # "idle", DoneWith(worker.fire),
         UNCHANGED <<market, appetite, queue, fired, origin, lost, desk>>
  PROVE  LineInv'
<1>1. /\ Shape /\ InOrder
      /\ UNCHANGED <<active, next, runs>>
  BY DEF LineInv, desk
<1>2. handled' = Append(handled, worker.fire) /\ worker' = Idle
  BY DEF DoneWith
<1>3. Shape'
  <2>1. handled' \in Seq(Nat)
    BY <1>1, <1>2, AppendIs DEF Shape
  <2> QED BY <1>1, <1>2, <2>1, IdleIsIdle DEF Shape
<1>4. InOrder' /\ Reached' = Reached
  BY <1>1, <1>3, DoneOrder
<1>5. Reached <= Reached' /\ active' \in {0, active} /\ lost' <= fired'
  BY <1>1, <1>4, ReachedIs DEF LineInv, NoneAhead
<1>6. OneRunPerFire' /\ NoneAhead'
  BY <1>1, <1>2, <1>3, <1>4, <1>5, IdleIsIdle, RunsStay
<1> QED BY <1>3, <1>4, <1>6 DEF LineInv

(* The worker finds the desk busy and waits with the fire in hand. *)
LEMMA WaitKeeps ==
  ASSUME LineInv, worker.at = "idle", queue # <<>>, queue' = Tail(queue),
         worker' = [at |-> "waiting", fire |-> Head(queue), run |-> 0],
         UNCHANGED <<market, appetite, fired, origin, lost, handled, desk>>
  PROVE  LineInv'
<1>1. /\ Shape /\ InOrder
      /\ UNCHANGED <<active, next, runs>>
  BY DEF LineInv, desk
<1>2. Head(queue) \in Nat /\ queue' \in Seq(Nat) /\ Head(queue) = Reached + 1
  BY <1>1, HeadIsNext, SchedulerAssumption DEF Fires
<1>3. Shape'
  <2>1. worker' \in [at : {"idle", "waiting", "watching"}, fire : Nat, run : Nat]
    BY <1>2
  <2> QED BY <1>1, <1>2, <2>1 DEF Shape
<1>4. InOrder' /\ Reached' = Reached + 1
  BY <1>1, <1>3, TakeOrder
<1>5. Reached <= Reached' /\ active' \in {0, active} /\ lost' <= fired'
  BY <1>1, <1>4, ReachedIs DEF LineInv, NoneAhead
<1>6. \A r \in Runs : runs[r].fire # worker'.fire
  <2> TAKE r \in Runs
  <2>1. runs[r].fire \in Nat /\ runs[r].fire <= Reached /\ Reached \in Nat
    BY <1>1, Ahead, ReachedIs DEF Shape, RunRows
  <2> QED BY <2>1, <1>2
<1>7. OneRunPerFire' /\ NoneAhead'
  BY <1>1, <1>3, <1>4, <1>5, <1>6, RunsStay
<1> QED BY <1>3, <1>4, <1>7 DEF LineInv

LEMMA DequeueKeeps ==
  ASSUME LineInv, Dequeue
  PROVE  LineInv'
<1> DEFINE n == Head(queue)
<1>1. /\ worker.at = "idle" /\ queue # <<>> /\ queue' = Tail(queue)
      /\ UNCHANGED <<market, appetite, fired, origin, lost>>
      /\ n \in Fires
  BY HeadIsNext DEF Dequeue, settings, LineInv
<1>2. \/ DoneWith(n) /\ UNCHANGED desk
      \/ /\ worker' = [at |-> "waiting", fire |-> n, run |-> 0]
         /\ UNCHANGED <<handled, desk>>
      \/ StartFor(n)
  BY DEF Dequeue, GiveUp
<1>3. CASE DoneWith(n) /\ UNCHANGED desk
  BY <1>1, <1>3, SkipKeeps
<1>4. CASE /\ worker' = [at |-> "waiting", fire |-> n, run |-> 0]
           /\ UNCHANGED <<handled, desk>>
  BY <1>1, <1>4, WaitKeeps
<1>5. CASE StartFor(n)
  BY <1>1, <1>5, StartKeeps
<1> QED BY <1>2, <1>3, <1>4, <1>5

LEMMA ProceedKeeps ==
  ASSUME LineInv, Proceed
  PROVE  LineInv'
<1>1. /\ worker.at = "waiting" /\ worker.at # "idle" /\ worker.fire \in Fires
      /\ UNCHANGED <<market, appetite, queue, fired, origin, lost>>
  BY ReachedFired DEF Proceed, settings, LineInv
<1>2. CASE StartFor(worker.fire)
  BY <1>1, <1>2, StartKeeps
<1>3. CASE DoneWith(worker.fire) /\ UNCHANGED desk
  BY <1>1, <1>3, DoneKeeps
<1> QED BY <1>2, <1>3 DEF Proceed, GiveUp

LEMMA ConcludeKeeps ==
  ASSUME LineInv, Conclude
  PROVE  LineInv'
<1>1. /\ worker.at # "idle" /\ DoneWith(worker.fire)
      /\ UNCHANGED <<market, appetite, queue, fired, origin, lost, desk>>
  BY DEF Conclude, GiveUp, settings
<1> QED BY <1>1, DoneKeeps

(* The line stays where it is and so does the worker. *)
LEMMA LineStays ==
  ASSUME LineInv, UNCHANGED backlog
  PROVE  InOrder' /\ Reached' = Reached
BY DEF LineInv, InOrder, InHand, Reached, backlog

LEMMA ManualKeeps ==
  ASSUME LineInv, ManualStart
  PROVE  LineInv'
<1>1. UNCHANGED <<queue, fired, origin, worker, handled, lost, market, appetite>>
  BY DEF ManualStart, backlog, settings
<1>2. PICK v \in Venues, a \in Appetites \cup {appetite} :
        Begin([venue |-> v, fire |-> 0, appetite |-> a, status |-> "running"])
  BY DEF ManualStart
<1>3. appetite \in Appetites
  BY DEF LineInv, Shape
<1> DEFINE row == [venue |-> v, fire |-> 0, appetite |-> a, status |-> "running"]
<1>4. row \in RunRows /\ row.fire = 0
  BY <1>3 DEF RunRows, Statuses
<1> HIDE DEF row
<1>5. Begin(row)
  BY <1>2 DEF row
<1>6. Shape'
  BY <1>1, <1>4, <1>5, BeginsShape DEF LineInv, Shape
<1>7. InOrder' /\ Reached' = Reached
  BY <1>1, LineStays DEF backlog
<1>8. Reached <= Reached'
  BY <1>7, ReachedIs DEF LineInv
<1>9. OneRunPerFire' /\ NoneAhead'
  BY <1>1, <1>4, <1>5, <1>6, <1>7, <1>8, RunStarts
<1> QED BY <1>6, <1>7, <1>9 DEF LineInv

(* Only the status of one run changes. *)
LEMMA StatusIsRow ==
  ASSUME Shape, NEW r \in Runs, NEW out \in Statuses
  PROVE  LET new == [runs EXCEPT ![r].status = out] IN
         /\ new \in [Runs -> RunRows]
         /\ \A s \in Runs : new[s].fire = runs[s].fire /\ new[s].venue = runs[s].venue
<1> DEFINE new == [runs EXCEPT ![r].status = out]
<1>1. runs \in [Runs -> RunRows] /\ runs[r] \in RunRows
  BY DEF Shape
<1>2. [runs[r] EXCEPT !.status = out] \in RunRows
  BY <1>1 DEF RunRows
<1>3. new \in [Runs -> RunRows]
  BY <1>1, <1>2
<1>4. \A s \in Runs : new[s].fire = runs[s].fire /\ new[s].venue = runs[s].venue
  <2> TAKE s \in Runs
  <2>1. CASE s = r
    BY <2>1, <1>1 DEF RunRows
  <2>2. CASE s # r
    BY <2>2, <1>1
  <2> QED BY <2>1, <2>2
<1> QED BY <1>3, <1>4

LEMMA RowsKeep ==
  ASSUME LineInv, UNCHANGED <<backlog, settings, next>>, active' \in {0, active},
         runs' \in [Runs -> RunRows],
         \A s \in Runs : runs'[s].fire = runs[s].fire /\ runs'[s].venue = runs[s].venue
  PROVE  LineInv'
<1>1. UNCHANGED <<queue, fired, origin, worker, handled, lost, market, appetite, next>>
  BY DEF backlog, settings
<1>2. Shape'
  BY <1>1 DEF LineInv, Shape
<1>3. InOrder' /\ Reached' = Reached
  BY LineStays
<1>4. Reached <= Reached' /\ lost' <= fired'
  BY <1>1, <1>3, ReachedIs DEF LineInv, NoneAhead
<1>5. OneRunPerFire' /\ NoneAhead'
  BY <1>1, <1>2, <1>3, <1>4, RunsStay
<1> QED BY <1>2, <1>3, <1>5 DEF LineInv

LEMMA RunEndsKeeps ==
  ASSUME LineInv, active \in Runs, RunEnds
  PROVE  LineInv'
<1>1. PICK out \in {"completed", "failed", "running"} :
        runs' = [runs EXCEPT ![active].status = out]
  BY DEF RunEnds
<1>2. out \in Statuses
  BY DEF Statuses
<1>3. active' = 0 /\ UNCHANGED <<backlog, settings, next>>
  BY DEF RunEnds
<1>4. /\ runs' \in [Runs -> RunRows]
      /\ \A s \in Runs : runs'[s].fire = runs[s].fire /\ runs'[s].venue = runs[s].venue
  BY <1>1, <1>2, StatusIsRow DEF LineInv
<1> QED BY <1>3, <1>4, RowsKeep

LEMMA PruneKeeps ==
  ASSUME LineInv, NEW r \in Runs, Prune(r)
  PROVE  LineInv'
<1>1. /\ runs' = [runs EXCEPT ![r].status = "pruned"] /\ "pruned" \in Statuses
      /\ active' = active /\ UNCHANGED <<backlog, settings, next>>
  BY DEF Prune, Statuses
<1>2. /\ runs' \in [Runs -> RunRows]
      /\ \A s \in Runs : runs'[s].fire = runs[s].fire /\ runs'[s].venue = runs[s].venue
  BY <1>1, StatusIsRow DEF LineInv
<1> QED BY <1>1, <1>2, RowsKeep

LEMMA RestartKeeps ==
  ASSUME LineInv, Restart
  PROVE  LineInv'
<1>1. /\ queue' = <<>> /\ handled' = <<>> /\ worker' = Idle /\ lost' = fired /\ active' = 0
      /\ UNCHANGED <<fired, origin, next, market, appetite>>
      /\ runs' = [r \in Runs |-> IF runs[r].status = "running"
                                 THEN [runs[r] EXCEPT !.status = "failed"] ELSE runs[r]]
  BY DEF Restart, settings
<1>2. /\ Shape /\ InOrder /\ fired \in Nat /\ runs \in [Runs -> RunRows]
  BY DEF LineInv, Shape
<1>3. \A r \in Runs : /\ runs'[r] \in RunRows
                      /\ runs'[r].fire = runs[r].fire /\ runs'[r].venue = runs[r].venue
  <2> TAKE r \in Runs
  <2>1. runs[r] \in RunRows
    BY <1>2
  <2>2. [runs[r] EXCEPT !.status = "failed"] \in RunRows
    BY <2>1 DEF RunRows, Statuses
  <2>3. runs'[r] = IF runs[r].status = "running"
                   THEN [runs[r] EXCEPT !.status = "failed"] ELSE runs[r]
    BY <1>1
  <2> QED BY <2>1, <2>2, <2>3 DEF RunRows
<1>4. Shape'
  <2>1. runs' \in [Runs -> RunRows]
    BY <1>1, <1>3
  <2>2. queue' \in Seq(Nat) /\ handled' \in Seq(Nat)
    BY <1>1
  <2> QED BY <1>1, <1>2, <2>1, <2>2, IdleIsIdle DEF Shape
<1>5. worker'.at = "idle" /\ InHand' = <<>> /\ Len(InHand)' = 0
  BY <1>1, IdleIsIdle DEF InHand
<1>6. Len(queue') = 0 /\ Len(handled') = 0
  BY <1>1
<1>7. InOrder'
  <2>1. fired' - lost' = Len(handled') + Len(InHand)' + Len(queue')
    BY <1>1, <1>2, <1>5, <1>6
  <2>2. /\ \A i \in 1..Len(handled') : handled'[i] = lost' + i
        /\ \A i \in 1..Len(queue') : queue'[i] = lost' + Len(handled') + Len(InHand)' + i
    BY <1>6
  <2> QED BY <1>5, <2>1, <2>2 DEF InOrder
<1>8. Reached <= Reached' /\ lost' <= fired'
  <2>1. Reached' = fired
    BY <1>1, <1>2, <1>5, <1>6 DEF Reached
  <2> QED BY <2>1, <1>1, <1>2, ReachedFired
<1>9. OneRunPerFire' /\ NoneAhead'
  BY <1>1, <1>3, <1>4, <1>5, <1>7, <1>8, RunsStay
<1> QED BY <1>4, <1>7, <1>9 DEF LineInv

--------------------------------------------------------------------------------

(* The active run is one of the runs, whatever happens. *)
ActiveIsRun == active \in Runs \cup {0}

LEMMA ActiveKeeps ==
  ASSUME ActiveIsRun, Next
  PROVE  ActiveIsRun'
<1>1. active' = active \/ active' = 0 \/ active' \in Runs
  BY DEF Next, Save, Clear, Read, AddJobs, SetMarket, SetAppetite, NewDay, Fire, Enqueue,
         Dequeue, StartFor, Proceed, Conclude, ManualStart, Begin, RunEnds, Prune, Restart,
         desk
<1> QED BY <1>1 DEF ActiveIsRun

LEMMA StepKeeps ==
  ASSUME LineInv, ActiveIsRun, [Next]_vars
  PROVE  LineInv'
<1>0. market \in Venues /\ appetite \in Appetites
  BY DEF LineInv, Shape
<1>1. CASE UNCHANGED vars
  BY <1>0, <1>1, ElsewhereKeeps DEF vars, settings
<1>2. CASE \E h \in Savers : Save(h) \/ Clear(h) \/ Read(h) \/ AddJobs(h)
  BY <1>0, <1>2, ElsewhereKeeps DEF Save, Clear, Read, AddJobs, settings
<1>3. CASE SetMarket \/ SetAppetite \/ NewDay
  BY <1>0, <1>3, ElsewhereKeeps DEF SetMarket, SetAppetite, NewDay
<1>4. CASE Fire
  <2>1. \E v \in Venues \cup {Nowhere}, s \in AllSlots : Enqueue(v, s)
    BY <1>4 DEF Fire, AllSlots
  <2> QED BY <2>1, FireKeeps
<1>5. CASE Dequeue
  BY <1>5, DequeueKeeps
<1>6. CASE Proceed
  BY <1>6, ProceedKeeps
<1>7. CASE Conclude
  BY <1>7, ConcludeKeeps
<1>8. CASE ManualStart
  BY <1>8, ManualKeeps
<1>9. CASE RunEnds
  <2>1. active \in Runs
    BY <1>9 DEF RunEnds, ActiveIsRun
  <2> QED BY <1>9, <2>1, RunEndsKeeps
<1>10. CASE Restart
  BY <1>10, RestartKeeps
<1>11. CASE \E r \in Runs : Prune(r)
  BY <1>11, PruneKeeps
<1> QED BY <1>1, <1>2, <1>3, <1>4, <1>5, <1>6, <1>7, <1>8, <1>9, <1>10, <1>11 DEF Next

(* LineInv is an invariant of the scheduler, for any venues, times and      *)
(* bounds and whatever fails.                                               *)
THEOREM LineStands == Spec => [](LineInv /\ ActiveIsRun)
<1>1. Init => LineInv /\ ActiveIsRun
  BY InitKeeps DEF Init, ActiveIsRun
<1>2. LineInv /\ ActiveIsRun /\ [Next]_vars => (LineInv /\ ActiveIsRun)'
  <2> SUFFICES ASSUME LineInv, ActiveIsRun, [Next]_vars
               PROVE  LineInv' /\ ActiveIsRun'
    OBVIOUS
  <2>1. ActiveIsRun'
    <3>1. CASE UNCHANGED vars
      BY <3>1 DEF vars, desk, ActiveIsRun
    <3> QED BY <3>1, ActiveKeeps
  <2> QED BY <2>1, StepKeeps
<1> QED BY <1>1, <1>2, PTL DEF Spec

(* Overlapping jobs queue (README.md:15, DeskScheduler.enqueue and _drain): *)
(* no fire is dropped, repeated or overtaken, however many there are.       *)
THEOREM FiresInOrder == Spec => []EachFireOnce
<1>1. LineInv => EachFireOnce
  BY InOrderIsEachOnce DEF LineInv
<1> QED BY <1>1, LineStands, PTL

(* No fire starts two runs, and runs start in the order of their fires, for *)
(* the venue the fire names (_run_when_idle), whoever else starts runs.     *)
THEOREM FiresStartOnce == Spec => []OneRunPerFire
<1>1. LineInv => OneRunPerFire
  BY DEF LineInv
<1> QED BY <1>1, LineStands, PTL

--------------------------------------------------------------------------------
(* The jobs, where there is one thread that saves: what it has left behind  *)
(* at each step of a save.                                                  *)

OneSaver == \A g, h \in Savers : g = h

Stored == [Venues -> Boxes]
Pauses == [Venues -> BOOLEAN]

SaverShape ==
  /\ times \in Stored /\ enabled \in Pauses
  /\ saver \in [Savers -> [at : {"idle", "saved", "cleared", "read"},
                           times : Stored, enabled : Pauses]]

InUse == jobs = ClockJobs(times, enabled) /\ interval = (HasInterval /\ jobs = NoJobs)

JobsInv ==
  /\ SaverShape
  /\ (\A h \in Savers : saver[h].at = "idle") => InUse
  /\ \A h \in Savers :
       /\ saver[h].at \in {"cleared", "read"} => jobs = NoJobs /\ interval = FALSE
       /\ saver[h].at = "read" => saver[h].times = times /\ saver[h].enabled = enabled

LEMMA RestingIs ==
  Resting.at = "idle" /\ Resting \in [at : {"idle", "saved", "cleared", "read"},
                                      times : Stored, enabled : Pauses]
<1>1. NoJobs \in Stored
  <2> DEFINE none == [s \in Slots |-> Never]
  <2>1. none \in Boxes
    BY DEF Boxes, Slots
  <2>2. NoJobs = [v \in Venues |-> none]
    BY DEF NoJobs
  <2> HIDE DEF none
  <2> QED BY <2>1, <2>2 DEF Stored
<1> QED BY <1>1 DEF Resting, Pauses

(* Where nothing is left, what is added is all there is. *)
LEMMA ReplacingNone ==
  ASSUME NEW t, NEW on
  PROVE  Replacing(NoJobs, ClockJobs(t, on)) = ClockJobs(t, on)
<1>1. \A v \in Venues, s \in Slots : NoJobs[v][s] = Never
  BY DEF NoJobs
<1>2. \A v \in Venues, s \in Slots :
        ClockJobs(t, on)[v][s] = IF on[v] THEN t[v][s] ELSE Never
  BY DEF ClockJobs
<1>3. Replacing(NoJobs, ClockJobs(t, on)) = [v \in Venues |-> [s \in Slots |->
        IF ClockJobs(t, on)[v][s] = Never THEN Never ELSE ClockJobs(t, on)[v][s]]]
  BY <1>1 DEF Replacing
<1>4. Replacing(NoJobs, ClockJobs(t, on)) = [v \in Venues |-> [s \in Slots |->
        ClockJobs(t, on)[v][s]]]
  BY <1>3
<1> QED BY <1>2, <1>4 DEF ClockJobs

LEMMA JobsBegin == Init => JobsInv
<1> SUFFICES ASSUME Init PROVE JobsInv
  OBVIOUS
<1>1. saver = [h \in Savers |-> Resting] /\ times \in Stored /\ enabled \in Pauses
  BY DEF Init, Stored, Pauses
<1>2. InUse
  BY DEF Init, InUse
<1> QED BY <1>1, <1>2, RestingIs DEF JobsInv, SaverShape

LEMMA SavesKeep ==
  ASSUME "store" \notin Faults, OneSaver, JobsInv, NEW h \in Savers, Save(h) \/ Clear(h) \/ Read(h) \/ AddJobs(h)
  PROVE  JobsInv'
<1>0. /\ SaverShape /\ \A g \in Savers : g = h
      /\ DOMAIN saver = Savers /\ saver[h] \in [at : {"idle", "saved", "cleared", "read"},
                                               times : Stored, enabled : Pauses]
  BY DEF OneSaver, JobsInv, SaverShape
<1>1. CASE Save(h)
  <2> DEFINE new == [saver[h] EXCEPT !.at = "saved"]
  <2>1. new \in [at : {"idle", "saved", "cleared", "read"},
                 times : Stored, enabled : Pauses] /\ new.at = "saved"
    BY <1>0
  <2>2. saver' = [saver EXCEPT ![h] = new] /\ times' \in Stored /\ enabled' \in Pauses
    BY <1>1 DEF Save, Stored, Pauses
  <2> HIDE DEF new
  <2>3. SaverShape' /\ saver'[h] = new
    BY <2>1, <2>2, <1>0 DEF SaverShape
  <2> QED BY <2>1, <2>3, <1>0 DEF JobsInv
<1>2. CASE Clear(h)
  <2> DEFINE new == [saver[h] EXCEPT !.at = "cleared"]
  <2>1. new \in [at : {"idle", "saved", "cleared", "read"},
                 times : Stored, enabled : Pauses] /\ new.at = "cleared"
    BY <1>0
  <2>2. /\ saver' = [saver EXCEPT ![h] = new] /\ UNCHANGED <<times, enabled>>
        /\ jobs' = NoJobs /\ interval' = FALSE
    BY <1>2 DEF Clear, settings
  <2> HIDE DEF new
  <2>3. SaverShape' /\ saver'[h] = new
    BY <2>1, <2>2, <1>0 DEF SaverShape
  <2> QED BY <2>1, <2>2, <2>3, <1>0 DEF JobsInv
<1>3. CASE Read(h)
  <2> DEFINE new == [at |-> "read", times |-> times, enabled |-> enabled]
  <2>1. new \in [at : {"idle", "saved", "cleared", "read"},
                 times : Stored, enabled : Pauses] /\ new.at = "read"
    BY <1>0 DEF SaverShape
  <2>2. /\ saver' = [saver EXCEPT ![h] = new] /\ UNCHANGED <<times, enabled, jobs, interval>>
        /\ saver[h].at = "cleared"
    BY <1>3 DEF Read, settings
  <2>3. new.times = times /\ new.enabled = enabled
    OBVIOUS
  <2> HIDE DEF new
  <2>4. SaverShape' /\ saver'[h] = new
    BY <2>1, <2>2, <1>0 DEF SaverShape
  <2>5. jobs' = NoJobs /\ interval' = FALSE
    BY <2>2 DEF JobsInv
  <2> QED BY <2>1, <2>2, <2>3, <2>4, <2>5, <1>0 DEF JobsInv
<1>4. CASE AddJobs(h)
  <2>1. /\ saver' = [saver EXCEPT ![h] = Resting] /\ UNCHANGED <<times, enabled>>
        /\ jobs' = Replacing(jobs, ClockJobs(saver[h].times, saver[h].enabled))
        /\ interval' = (interval \/ (HasInterval
                          /\ ClockJobs(saver[h].times, saver[h].enabled) = NoJobs))
        /\ saver[h].at = "read"
    BY <1>4 DEF AddJobs, Added, settings
  <2>2. jobs = NoJobs /\ interval = FALSE /\ saver[h].times = times /\ saver[h].enabled = enabled
    BY <2>1 DEF JobsInv
  <2>3. jobs' = ClockJobs(times, enabled)
    BY <2>1, <2>2, ReplacingNone
  <2>4. interval' = (HasInterval /\ ClockJobs(times, enabled) = NoJobs)
    BY <2>1, <2>2, SchedulerAssumption
  <2>5. InUse'
    BY <2>1, <2>3, <2>4 DEF InUse
  <2>6. SaverShape' /\ saver'[h].at = "idle"
    BY <2>1, <1>0, RestingIs DEF SaverShape
  <2> QED BY <2>5, <2>6, <1>0 DEF JobsInv
<1> QED BY <1>1, <1>2, <1>3, <1>4

LEMMA JobsStep ==
  ASSUME "store" \notin Faults, OneSaver, JobsInv, [Next]_vars
  PROVE  JobsInv'
<1>1. CASE UNCHANGED <<times, enabled, saver, jobs, interval>>
  BY <1>1 DEF JobsInv, SaverShape, InUse
<1>2. CASE \E h \in Savers : Save(h) \/ Clear(h) \/ Read(h) \/ AddJobs(h)
  BY <1>2, SavesKeep
<1>3. CASE Restart
  <2>1. /\ saver' = [h \in Savers |-> Resting] /\ UNCHANGED <<times, enabled>>
        /\ jobs' = ClockJobs(times, enabled) /\ interval' = (HasInterval /\ jobs' = NoJobs)
    BY <1>3 DEF Restart, settings
  <2>2. InUse'
    BY <2>1 DEF InUse
  <2> QED BY <2>1, <2>2, RestingIs DEF JobsInv, SaverShape
<1>4. CASE \/ UNCHANGED vars \/ SetMarket \/ SetAppetite \/ NewDay \/ Fire \/ Dequeue
           \/ Proceed \/ Conclude \/ ManualStart \/ RunEnds \/ \E r \in Runs : Prune(r)
  <2>1. UNCHANGED <<times, enabled, saver, jobs, interval>>
    BY <1>4 DEF vars, settings, clock, SetMarket, SetAppetite, NewDay, Fire, Enqueue,
                Dequeue, Proceed, Conclude, ManualStart, RunEnds, Prune
  <2> QED BY <2>1, <1>1
<1> QED BY <1>2, <1>3, <1>4 DEF Next

(* With a database that works and saves that do not overlap, the jobs       *)
(* between saves are exactly those of the stored schedule (reload), with or *)
(* without the interval job; where they overlap, the run schedule_two_saves *)
(* shows that they need not be.                                             *)
THEOREM JobsAreStored == ASSUME "store" \notin Faults, OneSaver PROVE Spec => []JobsMatch
<1>1. JobsInv /\ [Next]_vars => JobsInv'
  BY JobsStep
<1>2. JobsInv => JobsMatch
  BY DEF JobsInv, JobsMatch, InUse
<1> QED BY <1>1, <1>2, JobsBegin, PTL DEF Spec

--------------------------------------------------------------------------------
(* What is recorded of the fires, with a database that works: the rows that *)
(* a step may still change are those of the active run and of runs to come, *)
(* an entry names neither, and an alarm is sent when its fire is handled.   *)

HandledTo == lost + Len(handled)

RowOf(r) ==
  /\ runs[r].status \in {"none", "running", "completed", "failed", "pruned"}
  /\ r >= next <=> runs[r].status = "none"
  /\ runs[r].status = "running" <=> r = active

EntryOf(v, s) ==
  LET entry == recorded[v][s]
      run   == runs[entry.run]
  IN  /\ entry.run # 0 =>
           /\ entry.run \in Runs /\ run.fire \in 1..HandledTo
           /\ run.venue = v /\ origin[run.fire][2] = s
           /\ entry.run # active
           /\ run.status \in {entry.status, "pruned"}
           /\ entry.status \in {"completed", "failed", "unknown"}
      /\ entry.status = "failed" => entry.run # 0 /\ alarms[run.fire] = 1

AlarmOf(n) ==
  /\ alarms[n] \in {0, 1}
  /\ n > HandledTo => alarms[n] = 0
  /\ alarms[n] = 1 => \E r \in Runs : runs[r].fire = n /\ runs[r].status \in {"failed", "pruned"}

Entries == [Venues -> [AllSlots -> [run : Nat, status : Statuses]]]

RowsInv    == \A r \in Runs : RowOf(r)
ReportsInv == /\ recorded \in Entries /\ alarms \in [Fires -> Nat]
              /\ \A v \in Venues, s \in AllSlots : EntryOf(v, s)
              /\ \A n \in Fires : AlarmOf(n)

(* The rows that there are keep their fire and venue, and their status      *)
(* unless the run ends or the row is deleted.                               *)
RowsOnward ==
  /\ \A r \in Runs : r < next =>
       /\ runs'[r].fire = runs[r].fire /\ runs'[r].venue = runs[r].venue
       /\ \/ runs'[r].status = runs[r].status
          \/ runs[r].status = "running"
          \/ runs'[r].status = "pruned"
  /\ active' \in {0, active, next}

Onward == /\ RowsOnward /\ HandledTo <= HandledTo'
          /\ \A n \in 1..fired : origin'[n] = origin[n]

LEMMA HandledIs ==
  ASSUME Shape, InOrder
  PROVE  /\ HandledTo \in Nat /\ HandledTo <= fired
         /\ worker.at # "idle" => worker.fire = HandledTo + 1 /\ worker.fire \in 1..fired
<1>1. /\ Len(handled) \in Nat /\ lost \in Nat /\ fired \in Nat /\ Reached \in Nat
      /\ Reached <= fired /\ (worker.at = "idle" => Reached = lost + Len(handled))
      /\ (worker.at # "idle" => Reached = lost + Len(handled) + 1 /\ worker.fire = Reached)
  BY ReachedIs, ReachedFired DEF Shape
<1> QED BY <1>1 DEF HandledTo

(* The rows. *)
LEMMA RowsRest ==
  ASSUME RowsInv, UNCHANGED <<active, next, runs>>
  PROVE  RowsInv' /\ RowsOnward
BY DEF RowsInv, RowOf, RowsOnward

LEMMA RowBegins ==
  ASSUME Shape, RowsInv, NEW x \in RunRows, x.status = "running", Begin(x)
  PROVE  RowsInv' /\ RowsOnward
<1>1. /\ next \in Runs /\ active = 0 /\ active' = next /\ next' = next + 1
      /\ \A r \in Runs : runs'[r] = IF r = next THEN x ELSE runs[r]
      /\ Runs \subseteq Nat \ {0} /\ next \in Nat
  BY RunsAreNumbers DEF Begin, Shape
<1>2. ASSUME NEW r \in Runs PROVE RowOf(r)'
  <2>1. RowOf(r) /\ r \in Nat /\ r # 0
    BY <1>1 DEF RowsInv
  <2>2. CASE r = next
    BY <1>1, <2>1, <2>2 DEF RowOf
  <2>3. CASE r # next
    BY <1>1, <2>1, <2>3 DEF RowOf
  <2> QED BY <2>2, <2>3
<1>3. \A r \in Runs : r < next => runs'[r] = runs[r]
  BY <1>1
<1>4. active' \in {0, active, next}
  BY <1>1
<1>5. RowsOnward
  BY <1>3, <1>4, Zenon DEF RowsOnward
<1> QED BY <1>2, <1>5 DEF RowsInv

(* The status of one row changes, to the end of the active run or to none.  *)
LEMMA RowMoves ==
  ASSUME Shape, RowsInv, active < next, NEW q \in Runs, NEW out,
         runs' = [runs EXCEPT ![q].status = out], next' = next,
         \/ q = active /\ out \in {"completed", "failed"} /\ active' = 0
         \/ q # active /\ out = "pruned" /\ q < next /\ active' = active
  PROVE  RowsInv' /\ RowsOnward
<1>1. /\ runs \in [Runs -> RunRows] /\ Runs \subseteq Nat \ {0} /\ next \in Nat
  BY RunsAreNumbers DEF Shape
<1>2. \A r \in Runs : /\ runs'[r].fire = runs[r].fire /\ runs'[r].venue = runs[r].venue
                      /\ runs'[r].status = IF r = q THEN out ELSE runs[r].status
  BY <1>1 DEF RunRows
<1>3. q < next /\ RowOf(q)
  BY DEF RowsInv
<1>4. ASSUME NEW r \in Runs PROVE RowOf(r)'
  <2>1. RowOf(r) /\ r \in Nat /\ r # 0
    BY <1>1 DEF RowsInv
  <2>2. CASE r = q
    BY <1>1, <1>2, <1>3, <2>1, <2>2 DEF RowOf
  <2>3. CASE r # q
    BY <1>1, <1>2, <1>3, <2>1, <2>3 DEF RowOf
  <2> QED BY <2>2, <2>3
<1>5. runs[q].status = "running" \/ out = "pruned"
  BY <1>3 DEF RowOf
<1>6. active' \in {0, active, next}
  OBVIOUS
<1>7. ASSUME NEW r \in Runs
      PROVE  \/ runs'[r].status = runs[r].status
             \/ runs[r].status = "running"
             \/ runs'[r].status = "pruned"
  <2>1. CASE r = q
    BY <1>2, <1>5, <2>1
  <2>2. CASE r # q
    BY <1>2, <2>2
  <2> QED BY <2>1, <2>2
<1>8. \A r \in Runs : runs'[r].fire = runs[r].fire /\ runs'[r].venue = runs[r].venue
  BY <1>2
<1>9. RowsOnward
  BY <1>6, <1>7, <1>8, Zenon DEF RowsOnward
<1> QED BY <1>4, <1>9 DEF RowsInv

LEMMA RowsRestart ==
  ASSUME Shape, RowsInv, Restart
  PROVE  RowsInv' /\ RowsOnward
<1>1. /\ runs \in [Runs -> RunRows] /\ Runs \subseteq Nat \ {0} /\ next' = next /\ active' = 0
      /\ \A r \in Runs : runs'[r] = IF runs[r].status = "running"
                                    THEN [runs[r] EXCEPT !.status = "failed"] ELSE runs[r]
  BY RunsAreNumbers DEF Shape, Restart
<1>2. \A r \in Runs : /\ runs'[r].fire = runs[r].fire /\ runs'[r].venue = runs[r].venue
                      /\ runs'[r].status = IF runs[r].status = "running" THEN "failed"
                                           ELSE runs[r].status
  BY <1>1 DEF RunRows
<1>3. ASSUME NEW r \in Runs PROVE RowOf(r)'
  <2>1. RowOf(r) /\ r # 0
    BY <1>1 DEF RowsInv
  <2> QED BY <1>1, <1>2, <2>1 DEF RowOf
<1>4. RowsOnward
  BY <1>1, <1>2 DEF RowsOnward
<1> QED BY <1>3, <1>4 DEF RowsInv

LEMMA RowsStep ==
  ASSUME "store" \notin Faults, LineInv, ActiveIsRun, RowsInv, [Next]_vars
  PROVE  RowsInv' /\ RowsOnward
<1>1. Shape /\ active < next /\ Runs \subseteq Nat \ {0} /\ next \in Nat
  BY RunsAreNumbers DEF LineInv, NoneAhead, Shape
<1>2. CASE UNCHANGED <<active, next, runs>>
  BY <1>2, RowsRest
<1>3. CASE \E n \in Fires : StartFor(n)
  <2>1. PICK n \in Fires : StartFor(n)
    BY <1>3
  <2>2. Begin(RowFor(n)) /\ RowFor(n) \in RunRows /\ RowFor(n).status = "running"
    BY <1>1, <2>1, RowForIs DEF StartFor, RowFor
  <2> QED BY <1>1, <2>2, RowBegins
<1>4. CASE ManualStart
  <2>1. PICK v \in Venues, a \in Appetites \cup {appetite} :
          Begin([venue |-> v, fire |-> 0, appetite |-> a, status |-> "running"])
    BY <1>4 DEF ManualStart
  <2> DEFINE x == [venue |-> v, fire |-> 0, appetite |-> a, status |-> "running"]
  <2>2. x \in RunRows /\ x.status = "running"
    BY <1>1 DEF RunRows, Statuses, Shape
  <2>3. Begin(x)
    BY <2>1
  <2> HIDE DEF x
  <2> QED BY <1>1, <2>2, <2>3, RowBegins
<1>5. CASE RunEnds
  <2>1. PICK out \in {"completed", "failed"} : runs' = [runs EXCEPT ![active].status = out]
    BY <1>5 DEF RunEnds
  <2>2. active \in Runs /\ next' = next /\ active' = 0
    BY <1>5 DEF RunEnds, ActiveIsRun
  <2> QED BY <1>1, <2>1, <2>2, RowMoves
<1>6. CASE \E r \in Runs : Prune(r)
  <2>1. PICK r \in Runs : Prune(r)
    BY <1>6
  <2>2. r < next /\ r # active /\ next' = next /\ active' = active
        /\ runs' = [runs EXCEPT ![r].status = "pruned"]
    BY <1>1, <2>1 DEF Prune
  <2> QED BY <1>1, <2>2, RowMoves
<1>7. CASE Restart
  BY <1>1, <1>7, RowsRestart
<1>8. CASE \/ UNCHANGED vars \/ Fire \/ SetMarket \/ SetAppetite \/ NewDay \/ Conclude
           \/ \E h \in Savers : Save(h) \/ Clear(h) \/ Read(h) \/ AddJobs(h)
  BY <1>2, <1>8 DEF vars, desk, Fire, Enqueue, SetMarket, SetAppetite, NewDay, Conclude,
       Save, Clear, Read, AddJobs
<1>9. CASE Dequeue
  <2>1. worker.at = "idle" /\ queue # <<>>
    BY <1>9 DEF Dequeue
  <2>2. Head(queue) \in Fires
    BY <2>1, HeadIsNext DEF LineInv
  <2>3. StartFor(Head(queue)) \/ UNCHANGED desk
    BY <1>9 DEF Dequeue
  <2> QED BY <1>2, <1>3, <2>2, <2>3 DEF desk
<1>10. CASE Proceed
  <2>1. worker.fire \in Fires
    BY <1>10, ReachedFired DEF Proceed, LineInv
  <2>2. StartFor(worker.fire) \/ UNCHANGED desk
    BY <1>10 DEF Proceed
  <2> QED BY <1>2, <1>3, <2>1, <2>2 DEF desk
<1> QED BY <1>4, <1>5, <1>6, <1>7, <1>8, <1>9, <1>10 DEF Next

(* Where the worker is done with a fire, one more is handled. *)
LEMMA HandledMore ==
  ASSUME Shape, NEW n \in Nat, DoneWith(n), lost' = lost
  PROVE  HandledTo' = HandledTo + 1
<1>1. handled \in Seq(Nat) /\ handled' = Append(handled, n) /\ lost \in Nat
  BY DEF Shape, DoneWith
<1>2. Len(handled') = Len(handled) + 1 /\ Len(handled) \in Nat
  BY <1>1, AppendIs, LenProperties
<1> QED BY <1>1, <1>2 DEF HandledTo

LEMMA HandledOnward ==
  ASSUME LineInv, LineInv', [Next]_vars
  PROVE  HandledTo <= HandledTo' /\ \A n \in 1..fired : origin'[n] = origin[n]
<1>1. Shape /\ InOrder /\ HandledTo \in Nat /\ HandledTo <= fired /\ fired \in Nat
  BY HandledIs DEF LineInv, Shape
<1>2. CASE UNCHANGED <<handled, lost, origin>>
  BY <1>1, <1>2 DEF HandledTo
<1>3. CASE Fire
  <2>1. PICK v \in Venues \cup {Nowhere}, s \in AllSlots : Enqueue(v, s)
    BY <1>3 DEF Fire, AllSlots
  <2>2. /\ UNCHANGED <<handled, lost>> /\ origin' = [origin EXCEPT ![fired + 1] = <<v, s>>]
    BY <2>1 DEF Enqueue
  <2>3. \A n \in 1..fired : origin'[n] = origin[n]
    BY <1>1, <2>2, SchedulerAssumption DEF Shape, Fires
  <2> QED BY <1>1, <2>2, <2>3 DEF HandledTo
<1>4. CASE Restart
  <2>1. lost' = fired /\ handled' = <<>> /\ origin' = origin
    BY <1>4 DEF Restart
  <2>2. HandledTo' = fired
    BY <1>1, <2>1 DEF HandledTo
  <2> QED BY <1>1, <2>1, <2>2
<1>5. CASE \E n \in Nat : DoneWith(n) /\ UNCHANGED <<lost, origin>>
  BY <1>1, <1>5, HandledMore
<1>6. CASE Dequeue
  <2>1. Head(queue) \in Nat
    BY <1>1, <1>6, HeadIsNext, SchedulerAssumption DEF Dequeue, Fires
  <2> QED BY <1>2, <1>5, <1>6, <2>1 DEF Dequeue, GiveUp, StartFor
<1>7. CASE Proceed \/ Conclude
  <2>1. worker.fire \in Nat
    BY <1>1 DEF Shape
  <2> QED BY <1>2, <1>5, <1>7, <2>1 DEF Proceed, Conclude, GiveUp, StartFor
<1>8. CASE \/ UNCHANGED vars \/ SetMarket \/ SetAppetite \/ NewDay
           \/ ManualStart \/ RunEnds \/ \E r \in Runs : Prune(r)
           \/ \E h \in Savers : Save(h) \/ Clear(h) \/ Read(h) \/ AddJobs(h)
  BY <1>2, <1>8 DEF vars, backlog, SetMarket, SetAppetite, NewDay, ManualStart, RunEnds, Prune,
       Save, Clear, Read, AddJobs
<1> QED BY <1>3, <1>4, <1>6, <1>7, <1>8 DEF Next

(* An entry, and an alarm, that a step leaves alone stays right. *)
LEMMA EntryStays ==
  ASSUME Shape, InOrder, Shape', RowsInv, Onward, NEW v \in Venues, NEW s \in AllSlots,
         EntryOf(v, s), recorded'[v][s] = recorded[v][s],
         \A n \in 1..HandledTo : alarms'[n] = alarms[n]
  PROVE  EntryOf(v, s)'
<1>1. PICK e : e = recorded[v][s]
  OBVIOUS
<1>2. HandledTo \in Nat /\ HandledTo <= fired /\ HandledTo <= HandledTo' /\ HandledTo' \in Nat
      /\ fired \in Nat /\ next \in Nat
  BY HandledIs, LenProperties DEF Onward, Shape, HandledTo
<1>3. CASE e.run = 0
  BY <1>1, <1>3 DEF EntryOf
<1>4. CASE e.run # 0
  <2>1. /\ e.run \in Runs /\ runs[e.run].fire \in 1..HandledTo /\ runs[e.run].venue = v
        /\ origin[runs[e.run].fire][2] = s /\ e.run # active
        /\ runs[e.run].status \in {e.status, "pruned"}
        /\ e.status \in {"completed", "failed", "unknown"}
        /\ e.status = "failed" => alarms[runs[e.run].fire] = 1
    BY <1>1, <1>4 DEF EntryOf
  <2>2. e.run < next /\ runs[e.run].status # "running" /\ e.run \in Nat
    <3>1. RowOf(e.run) /\ e.run \in Nat
      BY <2>1, RunsAreNumbers DEF RowsInv
    <3>2. runs[e.run].status # "none" /\ runs[e.run].status # "running"
      BY <2>1, <3>1 DEF RowOf
    <3> QED BY <1>2, <3>1, <3>2 DEF RowOf
  <2>3. /\ runs'[e.run].fire = runs[e.run].fire /\ runs'[e.run].venue = v
        /\ runs'[e.run].status \in {e.status, "pruned"}
    BY <2>1, <2>2 DEF Onward, RowsOnward
  <2>4. e.run # active'
    BY <1>2, <1>4, <2>1, <2>2 DEF Onward, RowsOnward
  <2>5. /\ runs[e.run].fire \in 1..fired /\ runs[e.run].fire \in 1..HandledTo'
    BY <1>2, <2>1
  <2>6. origin'[runs[e.run].fire] = origin[runs[e.run].fire]
        /\ alarms'[runs[e.run].fire] = alarms[runs[e.run].fire]
    BY <2>1, <2>5 DEF Onward
  <2> QED BY <1>1, <1>4, <2>1, <2>3, <2>4, <2>5, <2>6 DEF EntryOf
<1> QED BY <1>3, <1>4

LEMMA AlarmStays ==
  ASSUME Shape, InOrder, Shape', RowsInv, Onward, NEW n \in Fires, AlarmOf(n),
         alarms'[n] = alarms[n]
  PROVE  AlarmOf(n)'
<1>1. HandledTo \in Nat /\ HandledTo <= HandledTo' /\ HandledTo' \in Nat /\ n \in Nat
      /\ next \in Nat
  <2>1. HandledTo \in Nat /\ HandledTo <= HandledTo'
    BY HandledIs DEF Onward
  <2>2. HandledTo' \in Nat
    BY LenProperties DEF Shape, HandledTo
  <2>3. n \in Nat /\ next \in Nat
    BY SchedulerAssumption DEF Shape, Fires
  <2> QED BY <2>1, <2>2, <2>3
<1>2. alarms'[n] \in {0, 1} /\ (n > HandledTo' => alarms'[n] = 0)
  BY <1>1 DEF AlarmOf
<1>3. ASSUME alarms[n] = 1
      PROVE  \E r \in Runs : runs'[r].fire = n /\ runs'[r].status \in {"failed", "pruned"}
  <2>1. PICK r \in Runs : runs[r].fire = n /\ runs[r].status \in {"failed", "pruned"}
    BY <1>3 DEF AlarmOf
  <2>2. r < next
    BY <1>1, <2>1, RunsAreNumbers DEF RowsInv, RowOf
  <2>3. runs'[r].fire = n /\ runs'[r].status \in {"failed", "pruned"}
    BY <2>1, <2>2 DEF Onward, RowsOnward
  <2> QED BY <2>3
<1> QED BY <1>2, <1>3 DEF AlarmOf

LEMMA RecordIs ==
  ASSUME recorded \in Entries, NEW v, NEW s, NEW r \in Nat, NEW status \in Statuses,
         Record(v, s, r, status)
  PROVE  /\ recorded' \in Entries
         /\ \A w \in Venues, t \in AllSlots :
              recorded'[w][t] = IF w = v /\ t = s THEN [run |-> r, status |-> status]
                                ELSE recorded[w][t]
<1> DEFINE x == [run |-> r, status |-> status]
<1>1. x \in [run : Nat, status : Statuses]
  OBVIOUS
<1>2. recorded' = [recorded EXCEPT ![v][s] = x]
  BY DEF Record
<1> HIDE DEF x
<1>3. recorded' \in Entries
  BY <1>1, <1>2 DEF Entries
<1>4. ASSUME NEW w \in Venues, NEW t \in AllSlots
      PROVE  recorded'[w][t] = IF w = v /\ t = s THEN x ELSE recorded[w][t]
  BY <1>2 DEF Entries
<1> QED BY <1>3, <1>4 DEF x

(* The fires that a step does not report on. *)
LEMMA ReportsStay ==
  ASSUME Shape, InOrder, Shape', RowsInv, Onward, ReportsInv, UNCHANGED reports
  PROVE  ReportsInv'
<1>1. recorded' = recorded /\ alarms' = alarms
  BY DEF reports
<1>2. \A v \in Venues, s \in AllSlots : EntryOf(v, s)'
  BY <1>1, EntryStays DEF ReportsInv
<1>3. \A n \in Fires : AlarmOf(n)'
  BY <1>1, AlarmStays DEF ReportsInv
<1> QED BY <1>1, <1>2, <1>3 DEF ReportsInv

(* A fire of a closed venue is recorded as skipped. *)
LEMMA SkipReports ==
  ASSUME Shape, InOrder, Shape', RowsInv, Onward, ReportsInv, UNCHANGED alarms,
         NEW v, NEW s, Record(v, s, 0, "skipped")
  PROVE  ReportsInv'
<1>1. /\ recorded' \in Entries
      /\ \A w \in Venues, t \in AllSlots :
           recorded'[w][t] = IF w = v /\ t = s THEN [run |-> 0, status |-> "skipped"]
                             ELSE recorded[w][t]
  <2>1. recorded \in Entries /\ 0 \in Nat /\ "skipped" \in Statuses
    BY DEF ReportsInv, Statuses
  <2> QED BY <2>1, RecordIs
<1>2. ASSUME NEW w \in Venues, NEW t \in AllSlots PROVE EntryOf(w, t)'
  <2>1. CASE w = v /\ t = s
    <3>1. recorded'[w][t].run = 0 /\ recorded'[w][t].status = "skipped"
      BY <1>1, <2>1
    <3> QED BY <3>1 DEF EntryOf
  <2>2. CASE ~(w = v /\ t = s)
    <3>1. recorded'[w][t] = recorded[w][t]
      BY <1>1, <2>2
    <3> QED BY <3>1, EntryStays DEF ReportsInv
  <2> QED BY <2>1, <2>2
<1>3. \A n \in Fires : AlarmOf(n)'
  BY AlarmStays DEF ReportsInv
<1> QED BY <1>1, <1>2, <1>3 DEF ReportsInv

(* The run of a fire is over: its outcome is recorded, a failure notified. *)
LEMMA ConcludeReports ==
  ASSUME "store" \notin Faults, LineInv, LineInv', RowsInv, Onward, ReportsInv, Conclude
  PROVE  ReportsInv'
<1> DEFINE n == worker.fire
           r == worker.run
<1>1. /\ worker.at = "watching" /\ active # r /\ DoneWith(n)
      /\ Record(runs[r].venue, origin[n][2], r, StatusOf(r))
      /\ IF runs[r].status = "failed" THEN Alarm(n) ELSE UNCHANGED alarms
      /\ UNCHANGED <<active, next, runs, origin, lost>>
  BY DEF Conclude, Over, Failed, GiveUp, desk
<1>2. /\ Shape /\ InOrder /\ Shape' /\ HandledTo \in Nat /\ n = HandledTo + 1
      /\ r \in Runs /\ r < next /\ runs[r].fire = n /\ n \in Fires /\ n \in Nat
      /\ r # 0 /\ r \in Nat /\ next \in Nat /\ HandledTo' = HandledTo + 1
  BY <1>1, HandledIs, ReachedFired, HandledMore, RunsAreNumbers
  DEF LineInv, OneRunPerFire, NoneAhead, Shape
<1>3. runs[r].status \in {"completed", "failed", "pruned"}
  BY <1>1, <1>2 DEF RowsInv, RowOf
<1>4. /\ StatusOf(r) \in {"completed", "failed", "unknown"} /\ StatusOf(r) \in Statuses
      /\ runs[r].status \in {StatusOf(r), "pruned"}
      /\ StatusOf(r) = "failed" => runs[r].status = "failed"
  BY <1>3 DEF StatusOf, Statuses
<1>5. /\ alarms' \in [Fires -> Nat] /\ \A m \in Fires : m # n => alarms'[m] = alarms[m]
      /\ alarms'[n] = IF runs[r].status = "failed" THEN 1 ELSE 0
  <2>1. alarms \in [Fires -> Nat] /\ alarms[n] = 0
    BY <1>2 DEF ReportsInv, AlarmOf
  <2>2. CASE runs[r].status = "failed"
    BY <1>1, <1>2, <2>1, <2>2 DEF Alarm
  <2>3. CASE runs[r].status # "failed"
    BY <1>1, <2>1, <2>3
  <2> QED BY <2>2, <2>3
<1>6. /\ recorded' \in Entries
      /\ \A w \in Venues, t \in AllSlots :
           recorded'[w][t] = IF w = runs[r].venue /\ t = origin[n][2]
                             THEN [run |-> r, status |-> StatusOf(r)] ELSE recorded[w][t]
  BY <1>1, <1>2, <1>4, RecordIs DEF ReportsInv
<1>7. \A m \in 1..HandledTo : alarms'[m] = alarms[m]
  <2> TAKE m \in 1..HandledTo
  <2>1. m # n /\ m \in Fires
    BY <1>2, SchedulerAssumption DEF Fires
  <2> QED BY <1>5, <2>1
<1> HIDE DEF n, r
<1>8. ASSUME NEW w \in Venues, NEW t \in AllSlots PROVE EntryOf(w, t)'
  <2>1. CASE w = runs[r].venue /\ t = origin[n][2]
    <3>1. recorded'[w][t].run = r /\ recorded'[w][t].status = StatusOf(r)
      BY <1>6, <2>1
    <3>2. runs' = runs /\ origin' = origin /\ active' = active /\ n \in 1..HandledTo'
      BY <1>1, <1>2
    <3> QED BY <1>1, <1>2, <1>4, <1>5, <2>1, <3>1, <3>2 DEF EntryOf
  <2>2. CASE ~(w = runs[r].venue /\ t = origin[n][2])
    <3>1. recorded'[w][t] = recorded[w][t]
      BY <1>6, <2>2
    <3> QED BY <1>2, <1>7, <3>1, EntryStays DEF ReportsInv
  <2> QED BY <2>1, <2>2
<1>9. ASSUME NEW m \in Fires PROVE AlarmOf(m)'
  <2>1. CASE m = n
    <3>1. ~(n > HandledTo') /\ runs' = runs
      BY <1>1, <1>2
    <3> QED BY <1>2, <1>5, <2>1, <3>1 DEF AlarmOf
  <2>2. CASE m # n
    BY <1>2, <1>5, <2>2, AlarmStays DEF ReportsInv
  <2> QED BY <2>1, <2>2
<1> QED BY <1>5, <1>6, <1>8, <1>9 DEF ReportsInv

LEMMA ReportsStep ==
  ASSUME "store" \notin Faults, LineInv, LineInv', RowsInv, ReportsInv, Onward, [Next]_vars
  PROVE  ReportsInv'
<1>1. Shape /\ InOrder /\ Shape'
  BY DEF LineInv
<1>2. CASE UNCHANGED reports
  BY <1>1, <1>2, ReportsStay
<1>3. CASE Dequeue
  <2>1. \/ \E v, s : Record(v, s, 0, "skipped") /\ UNCHANGED alarms
        \/ UNCHANGED reports
    BY <1>3 DEF Dequeue, GiveUp, StartFor
  <2> QED BY <1>1, <1>2, <2>1, SkipReports
<1>4. CASE Conclude
  BY <1>4, ConcludeReports
<1>5. CASE Proceed
  BY <1>2, <1>5 DEF Proceed, GiveUp, StartFor
<1>6. CASE \/ UNCHANGED vars \/ Fire \/ SetMarket \/ SetAppetite \/ NewDay \/ Restart
           \/ ManualStart \/ RunEnds \/ \E r \in Runs : Prune(r)
           \/ \E h \in Savers : Save(h) \/ Clear(h) \/ Read(h) \/ AddJobs(h)
  BY <1>2, <1>6 DEF vars, Fire, Enqueue, SetMarket, SetAppetite, NewDay, Restart,
       ManualStart, RunEnds, Prune, Save, Clear, Read, AddJobs
<1> QED BY <1>3, <1>4, <1>5, <1>6 DEF Next

LEMMA ReportsBegin == Init => RowsInv /\ ReportsInv
<1> SUFFICES ASSUME Init PROVE RowsInv /\ ReportsInv
  OBVIOUS
<1>1. /\ active = 0 /\ next = 1 /\ alarms = [n \in Fires |-> 0]
      /\ \A r \in Runs : runs[r].status = "none"
      /\ recorded = [v \in Venues |-> [s \in AllSlots |-> NoFire]]
  BY DEF Init
<1>2. RowsInv
  BY <1>1, RunsAreNumbers DEF RowsInv, RowOf
<1>3. NoFire.run = 0 /\ NoFire.status = "none" /\ NoFire \in [run : Nat, status : Statuses]
  BY DEF NoFire, Statuses
<1>4. recorded \in Entries /\ \A v \in Venues, s \in AllSlots : recorded[v][s] = NoFire
  BY <1>1, <1>3 DEF Entries
<1>5. \A v \in Venues, s \in AllSlots : EntryOf(v, s)
  BY <1>3, <1>4 DEF EntryOf
<1>6. \A n \in Fires : AlarmOf(n)
  BY <1>1 DEF AlarmOf
<1> QED BY <1>1, <1>2, <1>4, <1>5, <1>6 DEF ReportsInv

LEMMA ReportsStand == ASSUME "store" \notin Faults PROVE Spec => [](RowsInv /\ ReportsInv)
<1>1. LineInv /\ ActiveIsRun /\ RowsInv /\ ReportsInv /\ LineInv' /\ [Next]_vars
        => (RowsInv /\ ReportsInv)'
  <2> SUFFICES ASSUME LineInv, ActiveIsRun, RowsInv, ReportsInv, LineInv', [Next]_vars
               PROVE  RowsInv' /\ ReportsInv'
    OBVIOUS
  <2>1. RowsInv' /\ Onward
    BY RowsStep, HandledOnward DEF Onward
  <2> QED BY <2>1, ReportsStep
<1> QED BY <1>1, ReportsBegin, LineStands, PTL DEF Spec

(* With a database that works the schedule state tells the truth: the run   *)
(* an entry names was started for its venue and slot, is over, and ended as *)
(* recorded (record_schedule_fire), whatever an admin, another run, pruning *)
(* or a restart does in between.                                            *)
THEOREM EntriesAreRight ==
  ASSUME "store" \notin Faults
  PROVE  Spec => []RecordedRight
<1>1. ReportsInv => RecordedRight
  BY DEF ReportsInv, EntryOf, RecordedRight
<1> QED BY <1>1, ReportsStand, PTL

(* With a database that works a scheduled run recorded as failed was        *)
(* notified exactly once, and nothing else was (notify_run_failed).         *)
THEOREM FailuresAreNotified ==
  ASSUME "store" \notin Faults
  PROVE  Spec => []FailuresNotified
<1>1. ReportsInv => FailuresNotified
  <2> SUFFICES ASSUME ReportsInv PROVE FailuresNotified
    OBVIOUS
  <2>1. \A v \in Venues, s \in AllSlots :
          recorded[v][s].status = "failed" => alarms[runs[recorded[v][s].run].fire] = 1
    BY DEF ReportsInv, EntryOf
  <2>2. \A n \in Fires : alarms[n] > 0 => alarms[n] = 1
    BY DEF ReportsInv, AlarmOf
  <2> QED BY <2>1, <2>2 DEF ReportsInv, AlarmOf, FailuresNotified
<1> QED BY <1>1, ReportsStand, PTL
================================================================================
