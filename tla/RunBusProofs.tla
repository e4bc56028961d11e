------------------------------ MODULE RunBusProofs ------------------------------
(***************************************************************************)
(* Proofs about RunBus, for every number of runs, listeners and events and *)
(* every history limit.                                                    *)
(***************************************************************************)
EXTENDS RunBus, TLAPS

(* Putting an item at the end of what waits, and taking one from its front. *)
LEMMA PutLast ==
  ASSUME NEW S, NEW s \in Seq(S), NEW t \in Seq(S), NEW e \in S
  PROVE  /\ Append(t, e) \in Seq(S)
         /\ s \o Append(t, e) = Append(s \o t, e)
         /\ Append(t, e) = t \o <<e>>
  OBVIOUS

(* The same for the queue of a listener. *)
LEMMA PutItem ==
  ASSUME NEW s \in Seq(Event \cup {Done}), NEW t \in Seq(Event \cup {Done}),
         NEW e \in Event \cup {Done}
  PROVE  /\ Append(t, e) \in Seq(Event \cup {Done})
         /\ s \o Append(t, e) = Append(s \o t, e)
         /\ Append(t, e) = t \o <<e>>
<1> DEFINE S == Event \cup {Done}
<1>1. s \in Seq(S) /\ t \in Seq(S) /\ e \in S
  OBVIOUS
<1> HIDE DEF S
<1>2. /\ Append(t, e) \in Seq(S)
      /\ s \o Append(t, e) = Append(s \o t, e)
      /\ Append(t, e) = t \o <<e>>
  BY <1>1, PutLast
<1> QED BY <1>2 DEF S

LEMMA TakeFirst ==
  ASSUME NEW S, NEW s \in Seq(S), NEW t \in Seq(S), t # <<>>
  PROVE  /\ Head(t) \in S /\ Tail(t) \in Seq(S)
         /\ Append(s, Head(t)) \o Tail(t) = s \o t
  OBVIOUS

(* Where the end mark stands in what was sent and what waits. *)
LEMMA EndReached ==
  ASSUME NEW g \in Seq(Event), NEW f \in Seq(Event), NEW q \in Seq(Event \cup {Done}),
         Done \notin Event, q # <<>>, Head(q) = Done
  PROVE  g \o q # f /\ (g \o q = f \o <<Done>> => g = f)
<1> DEFINE n == Len(g)
           S == Event
           d == Done
<1>1. n \in Nat /\ Len(f) \in Nat /\ Len(q) \in Nat /\ Len(q) >= 1 /\ q[1] = d
  OBVIOUS
<1>2. /\ Len(g \o q) = n + Len(q) /\ (g \o q)[n + 1] = d
      /\ \A i \in 1..n : (g \o q)[i] = g[i]
  BY <1>1
<1>3. \A i \in 1..Len(f) : f[i] \in S /\ (f \o <<d>>)[i] = f[i]
  OBVIOUS
<1>4. Len(f \o <<d>>) = Len(f) + 1
  OBVIOUS
<1>5. g \o q # f
  BY <1>1, <1>2, <1>3
<1>6. ASSUME g \o q = f \o <<d>> PROVE g = f
  <2>1. n + Len(q) = Len(f) + 1
    BY <1>2, <1>4, <1>6
  <2>2. ~(n < Len(f))
    <3>1. n < Len(f) => n + 1 \in 1..Len(f)
      BY <1>1
    <3> QED BY <1>2, <1>3, <1>6, <3>1
  <2>3. n = Len(f)
    BY <1>1, <2>1, <2>2
  <2>4. \A i \in 1..n : g[i] = f[i]
    BY <1>2, <1>3, <1>6, <2>3
  <2> QED BY <2>3, <2>4
<1> QED BY <1>5, <1>6

(* What is sent next is the event of the log that is due. *)
LEMMA NextDue ==
  ASSUME NEW g \in Seq(Event), NEW f \in Seq(Event), NEW q \in Seq(Event \cup {Done}),
         q # <<>>, Head(q) # Done, g \o q = f \/ g \o q = f \o <<Done>>
  PROVE  Len(g) < Len(f) /\ Head(q) = f[Len(g) + 1]
<1> DEFINE n == Len(g)
<1>1. n \in Nat /\ Len(f) \in Nat /\ Len(q) \in Nat /\ Len(q) >= 1 /\ q[1] = Head(q)
  OBVIOUS
<1>2. Len(g \o q) = n + Len(q) /\ (g \o q)[n + 1] = Head(q)
  BY <1>1
<1>3. CASE g \o q = f
  BY <1>1, <1>2, <1>3
<1>4. CASE g \o q = f \o <<Done>>
  <2>1. /\ Len(f \o <<Done>>) = Len(f) + 1 /\ (f \o <<Done>>)[Len(f) + 1] = Done
        /\ \A i \in 1..Len(f) : (f \o <<Done>>)[i] = f[i]
    OBVIOUS
  <2>2. n < Len(f)
    BY <1>1, <1>2, <1>4, <2>1
  <2>3. n + 1 \in 1..Len(f)
    BY <1>1, <2>2
  <2> QED BY <1>2, <1>4, <2>1, <2>2, <2>3
<1> QED BY <1>3, <1>4

(* _evict keeps the newest key, adds none and leaves at most MaxHistory. *)
LEMMA KeptNewest ==
  ASSUME NEW o \in Seq(Runs), o # <<>>
  PROVE  /\ Kept(o) \in Seq(Runs)
         /\ Len(Kept(o)) <= MaxHistory
         /\ Keys(Kept(o)) \subseteq Keys(o)
         /\ o[Len(o)] \in Keys(Kept(o))
<1>1. CASE Len(o) <= MaxHistory
  <2>1. Kept(o) = o
    BY <1>1 DEF Kept
  <2>2. Len(o) \in 1..Len(o)
    OBVIOUS
  <2> QED BY <1>1, <2>1, <2>2 DEF Keys
<1>2. CASE Len(o) > MaxHistory
  <2> DEFINE first == Len(o) - MaxHistory + 1
             k == SubSeq(o, first, Len(o))
  <2>1. first \in 1..Len(o) /\ Len(o) - first + 1 = MaxHistory
    BY <1>2, BusAssumption
  <2>2. Kept(o) = k
    BY <1>2, BusAssumption DEF Kept
  <2>3. k \in Seq(Runs) /\ Len(k) = MaxHistory
    BY <2>1
  <2>4. \A i \in 1..MaxHistory : k[i] = o[first + i - 1] /\ first + i - 1 \in 1..Len(o)
    BY <2>1, BusAssumption
  <2>5. k[MaxHistory] = o[Len(o)] /\ MaxHistory \in 1..MaxHistory
    BY <2>1, <2>4, BusAssumption
  <2>6. Keys(k) \subseteq Keys(o)
    BY <2>3, <2>4 DEF Keys
  <2>7. o[Len(o)] \in Keys(k)
    BY <2>3, <2>5 DEF Keys
  <2>8. Len(k) <= MaxHistory
    BY <2>3, BusAssumption
  <2> HIDE DEF k
  <2> QED BY <2>2, <2>3, <2>6, <2>7, <2>8
<1> QED BY <1>1, <1>2, BusAssumption

(* The initial states satisfy the inductive invariant. *)
LEMMA InitInv == Init => IInv
<1> SUFFICES ASSUME Init PROVE IInv OBVIOUS
<1> USE BusAssumption DEF Init
<1>1. Known = {}
  BY DEF Known, Keys
<1>2. TypeOK
  BY DEF TypeOK, Runs, Event
<1>3. KnownOrClosed /\ BoundedHistory /\ NoListenerLeft /\ HistoryIsLog /\ StartedInOrder
  BY <1>1 DEF KnownOrClosed, BoundedHistory, NoListenerLeft, HistoryIsLog, StartedInOrder
<1>4. Registered /\ Asked /\ LateIsEmpty
  BY DEF Registered, Asked, LateIsEmpty, Served
<1>5. NothingMissed /\ DoneIsComplete /\ Blank
  BY DEF NothingMissed, DoneIsComplete, Served, Blank
<1> QED BY <1>2, <1>3, <1>4, <1>5 DEF IInv

(* A key added at the end. *)
LEMMA AddKey ==
  ASSUME NEW o \in Seq(Runs), NEW r \in Runs
  PROVE  /\ Append(o, r) \in Seq(Runs) /\ Append(o, r) # <<>>
         /\ Append(o, r)[Len(Append(o, r))] = r
         /\ Keys(Append(o, r)) = Keys(o) \cup {r}
<1> DEFINE a == Append(o, r)
<1>1. /\ a \in Seq(Runs) /\ Len(a) = Len(o) + 1 /\ a[Len(o) + 1] = r
      /\ \A i \in 1..Len(o) : a[i] = o[i]
  OBVIOUS
<1>2. Len(o) \in Nat
  OBVIOUS
<1> HIDE DEF a
<1>3. Keys(a) = Keys(o) \cup {r}
  BY <1>1, <1>2 DEF Keys
<1>4. a # <<>>
  BY <1>1, <1>2
<1> QED BY <1>1, <1>3, <1>4 DEF a

(* Numbers, keys and streams under the invariant. *)
LEMMA Facts ==
  ASSUME IInv
  PROVE  /\ next \in Nat \ {0} /\ active \in Nat /\ MaxRuns \in Nat
         /\ \A r \in Runs : r \in Nat \ {0}
         /\ Known \subseteq Runs
         /\ active \in Known \cup {0} /\ active < next
         /\ \A l \in Listeners : following[l] \in Nat /\ following[l] < next
         /\ \A l \in Listeners : pc[l] # "new" => following[l] \in Runs
<1> USE BusAssumption DEF IInv
<1>1. next \in Nat \ {0} /\ active \in Nat /\ MaxRuns \in Nat /\ \A r \in Runs : r \in Nat \ {0}
  BY DEF TypeOK, Runs
<1>2. Known \subseteq Runs
  BY DEF TypeOK, Known, Keys
<1>3. active \in Known \cup {0} /\ active < next
  BY DEF KnownOrClosed, StartedInOrder
<1>4. \A l \in Listeners : following[l] \in Nat /\ following[l] < next
  BY DEF TypeOK, Asked
<1>5. \A l \in Listeners : pc[l] # "new" => following[l] \in Runs
  BY DEF TypeOK, Asked, Runs
<1> QED BY <1>1, <1>2, <1>3, <1>4, <1>5

(* start keeps the invariant: whatever it evicts was closed, so no listener *)
(* loses anything.                                                          *)
LEMMA OpenKeeps == IInv /\ Open => IInv'
<1> SUFFICES ASSUME IInv, Open PROVE IInv' OBVIOUS
<1> DEFINE o == Append(order, next)
           evicted == Known \ Keys(order')
           blank == evicted \cup {next}
<1>1. /\ active = 0 /\ next \in Runs /\ active' = next /\ next' = next + 1
      /\ order' = Kept(o) /\ closed' = closed \ evicted
      /\ history' = [r \in Runs |-> IF r \in blank THEN <<>> ELSE history[r]]
      /\ queues' = [r \in Runs |-> IF r \in evicted THEN {} ELSE queues[r]]
      /\ UNCHANGED <<queue, pc, following, got, late, log>>
  BY DEF Open, StillClosed, streamVars
<1>2. /\ TypeOK /\ KnownOrClosed /\ BoundedHistory /\ NoListenerLeft
      /\ HistoryIsLog /\ StartedInOrder /\ Registered /\ Asked /\ LateIsEmpty
      /\ NothingMissed /\ DoneIsComplete /\ Blank
  BY DEF IInv
<1>3. /\ next \in Nat \ {0} /\ Known \subseteq Runs /\ next \notin Known
      /\ \A r \in Runs : r \in Nat \ {0}
      /\ \A l \in Listeners : following[l] \in Nat /\ following[l] < next
      /\ \A l \in Listeners : pc[l] # "new" => following[l] \in Runs
  BY <1>2, Facts DEF StartedInOrder
<1>4. /\ order' \in Seq(Runs) /\ Len(order') <= MaxHistory
      /\ Known' \subseteq Known \cup {next} /\ next \in Known' /\ Known' = Keys(order')
  <2>1. /\ o \in Seq(Runs) /\ o # <<>> /\ o[Len(o)] = next
        /\ Keys(o) = Known \cup {next}
    BY <1>1, <1>2, AddKey DEF TypeOK, Known
  <2> HIDE DEF o
  <2> QED BY <1>1, <2>1, KeptNewest DEF Known
<1>5. evicted = Known \ Known' /\ closed = Known
  BY <1>1, <1>2, <1>3, <1>4 DEF KnownOrClosed
<1>6. \A r \in Runs : queues[r] = {} /\ queues'[r] = {}
  BY <1>1, <1>2, <1>3 DEF NoListenerLeft
<1> HIDE DEF o, evicted
<1>7. TypeOK'
  <2>1. history' \in [Runs -> Seq(Event)] /\ queues' \in [Runs -> SUBSET Listeners]
    BY <1>1, <1>2 DEF TypeOK
  <2>2. next' \in 1..(MaxRuns + 1) /\ active' \in 0..MaxRuns
    BY <1>1, BusAssumption DEF Runs
  <2>3. closed' \in SUBSET Runs
    BY <1>1, <1>2 DEF TypeOK
  <2> QED BY <1>1, <1>2, <1>4, <2>1, <2>2, <2>3 DEF TypeOK
<1>8. KnownOrClosed' /\ BoundedHistory'
  <2>1. closed' = Known' \ {active'} /\ active' \in Known'
    BY <1>1, <1>3, <1>4, <1>5
  <2> QED BY <1>4, <2>1 DEF KnownOrClosed, BoundedHistory
<1>9. NoListenerLeft' /\ Registered'
  BY <1>1, <1>3, <1>6 DEF NoListenerLeft, Registered
<1>10. HistoryIsLog'
  <2> SUFFICES ASSUME NEW r \in Known' PROVE history'[r] = log[r]
    BY <1>1 DEF HistoryIsLog
  <2>1. CASE r = next
    BY <2>1, <1>1, <1>2, <1>3 DEF StartedInOrder
  <2>2. CASE r # next
    <3>1. r \in Known /\ r \in Runs /\ r \notin blank
      BY <2>2, <1>3, <1>4, <1>5
    <3> QED BY <3>1, <1>1, <1>2 DEF HistoryIsLog
  <2> QED BY <2>1, <2>2
<1>11. StartedInOrder'
  <2>1. ASSUME NEW r \in Known' \cup {active'} PROVE r < next'
    <3>1. r = next \/ r \in Known
      BY <1>1, <1>4
    <3>2. r \in Nat /\ r <= next
      BY <1>2, <1>3, <3>1 DEF StartedInOrder
    <3> QED BY <1>1, <1>3, <3>2
  <2>2. \A r \in Runs : r >= next' => log'[r] = <<>>
    BY <1>1, <1>2, <1>3 DEF StartedInOrder
  <2> QED BY <2>1, <2>2 DEF StartedInOrder
<1>12. Asked' /\ LateIsEmpty'
  <2>1. Asked'
    BY <1>1, <1>2, <1>3 DEF Asked
  <2>2. LateIsEmpty'
    BY <1>1, <1>2, <1>3 DEF LateIsEmpty, TypeOK
  <2> QED BY <2>1, <2>2
<1>13. NothingMissed'
  <2> SUFFICES ASSUME NEW l \in Listeners, pc[l] \in Served
               PROVE  got[l] \o queue[l] = Promised(l)'
    BY <1>1 DEF NothingMissed, Served
  <2>1. following[l] # active /\ following[l] # active'
    BY <1>1, <1>3 DEF Served
  <2> QED BY <1>1, <1>2, <2>1 DEF NothingMissed, Promised
<1>14. DoneIsComplete'
  BY <1>1, <1>2, <1>3 DEF DoneIsComplete
<1>15. Blank'
  BY <1>1, <1>2, <1>4, <1>5 DEF Blank
<1> QED BY <1>7, <1>8, <1>9, <1>10, <1>11, <1>12, <1>13, <1>14, <1>15 DEF IInv

(* _emit keeps it: the listeners of the run get the event, and no other. *)
LEMMA PublishKeeps == ASSUME NEW s \in Stages, IInv, Publish(s) PROVE IInv'
<1> DEFINE e == <<active, s>>
<1>1. /\ active # 0 /\ order' = IF active \in Known THEN order ELSE Append(order, active)
      /\ history' = [history EXCEPT ![active] = Append(@, e)]
      /\ log' = [log EXCEPT ![active] = Append(@, e)]
      /\ queue' = [l \in Listeners |-> IF l \in queues[active] THEN Append(queue[l], e)
                                                                ELSE queue[l]]
      /\ UNCHANGED <<next, active, closed, queues, pc, following, got, late>>
  BY DEF Publish, Put, streamVars
<1>2. /\ TypeOK /\ KnownOrClosed /\ BoundedHistory /\ NoListenerLeft
      /\ HistoryIsLog /\ StartedInOrder /\ Registered /\ Asked /\ LateIsEmpty
      /\ NothingMissed /\ DoneIsComplete /\ Blank
  BY DEF IInv
<1>3. /\ active \in Runs /\ active \in Known /\ active < next /\ active \in Nat /\ next \in Nat
      /\ \A l \in Listeners : pc[l] # "new" => following[l] \in Runs
  BY <1>1, Facts
<1>4. e \in Event /\ e \in Event \cup {Done}
  BY <1>3 DEF Event
<1>5. order' = order /\ Known' = Known
  BY <1>1, <1>3 DEF Known
<1> HIDE DEF e
<1>6. TypeOK'
  <2>1. history' \in [Runs -> Seq(Event)] /\ log' \in [Runs -> Seq(Event)]
    BY <1>1, <1>2, <1>3, <1>4, PutLast DEF TypeOK
  <2>2. queue' \in [Listeners -> Seq(Event \cup {Done})]
    BY <1>1, <1>2, <1>4, PutLast DEF TypeOK
  <2> QED BY <1>1, <1>2, <1>5, <2>1, <2>2 DEF TypeOK
<1>7. KnownOrClosed' /\ BoundedHistory' /\ NoListenerLeft'
  BY <1>1, <1>2, <1>5 DEF KnownOrClosed, BoundedHistory, NoListenerLeft
<1>8. Registered' /\ Asked' /\ LateIsEmpty'
  BY <1>1, <1>2 DEF Registered, Asked, LateIsEmpty, Served
<1>9. HistoryIsLog'
  BY <1>1, <1>2, <1>3, <1>5, Facts DEF HistoryIsLog, TypeOK
<1>10. StartedInOrder'
  <2>1. \A r \in Runs : r >= next => log'[r] = log[r]
    BY <1>1, <1>2, <1>3 DEF TypeOK
  <2> QED BY <1>1, <1>2, <1>5, <2>1 DEF StartedInOrder
<1>11. NothingMissed'
  <2> SUFFICES ASSUME NEW l \in Listeners, pc[l] \in Served
               PROVE  got[l] \o queue'[l] = Promised(l)'
    BY <1>1 DEF NothingMissed, Served
  <2>1. following[l] \in Runs /\ got[l] \o queue[l] = Promised(l)
    BY <1>2, <1>3 DEF Served, NothingMissed
  <2>2. CASE following[l] = active
    <3>1. l \in queues[active] /\ l \notin late
      BY <1>2, <1>3, <2>2 DEF Registered
    <3>2. got[l] \o queue[l] = log[active]
      BY <2>1, <2>2, <3>1 DEF Promised
    <3>3. got[l] \o queue'[l] = Append(got[l] \o queue[l], e)
      <4>1. got[l] \in Seq(Event \cup {Done}) /\ queue[l] \in Seq(Event \cup {Done})
        BY <1>2 DEF TypeOK
      <4>2. queue'[l] = Append(queue[l], e)
        BY <1>1, <3>1
      <4>3. got[l] \o Append(queue[l], e) = Append(got[l] \o queue[l], e)
        BY <1>4, <4>1, PutItem
      <4> QED BY <4>2, <4>3
    <3>4. Promised(l)' = Append(log[active], e)
      BY <1>1, <1>2, <1>3, <2>2, <3>1 DEF Promised, TypeOK
    <3> QED BY <3>2, <3>3, <3>4
  <2>3. CASE following[l] # active
    <3>1. l \notin queues[active]
      BY <1>2, <1>3, <2>3 DEF Registered
    <3>2. log'[following[l]] = log[following[l]]
      BY <1>1, <1>2, <2>1, <2>3 DEF TypeOK
    <3> QED BY <1>1, <2>1, <2>3, <3>1, <3>2 DEF Promised
  <2> QED BY <2>2, <2>3
<1>12. DoneIsComplete'
  <2> SUFFICES ASSUME NEW l \in Listeners, pc[l] = "done"
               PROVE  following[l] # active /\ (l \in late \/ got[l] = log'[following[l]])
    BY <1>1 DEF DoneIsComplete
  <2> QED BY <1>1, <1>2, <1>3 DEF DoneIsComplete, TypeOK
<1>13. Blank'
  BY <1>1, <1>2, <1>3, <1>5 DEF Blank, TypeOK
<1> QED BY <1>6, <1>7, <1>8, <1>9, <1>10, <1>11, <1>12, <1>13 DEF IInv

(* Closing the run keeps it: its listeners get the end and are let go. *)
LEMMA CloseKeeps == ASSUME IInv, Close PROVE IInv'
<1>1. /\ active # 0 /\ active' = 0 /\ closed' = closed \cup {active}
      /\ queue' = [l \in Listeners |-> IF l \in queues[active] THEN Append(queue[l], Done)
                                                                ELSE queue[l]]
      /\ queues' = [queues EXCEPT ![active] = {}]
      /\ UNCHANGED <<next, order, history, pc, following, got, late, log>>
  BY DEF Close, Farewell, Put, streamVars
<1>2. /\ TypeOK /\ KnownOrClosed /\ BoundedHistory /\ NoListenerLeft
      /\ HistoryIsLog /\ StartedInOrder /\ Registered /\ Asked /\ LateIsEmpty
      /\ NothingMissed /\ DoneIsComplete /\ Blank
  BY DEF IInv
<1>3. /\ active \in Runs /\ active \in Known /\ Known \subseteq Runs
      /\ \A r \in Runs : r \in Nat \ {0}
      /\ \A l \in Listeners : pc[l] # "new" => following[l] \in Runs
  BY <1>1, Facts
<1>4. Known' = Known
  BY <1>1 DEF Known
<1>5. TypeOK'
  <2>1. queue' \in [Listeners -> Seq(Event \cup {Done})]
    <3>1. Done \in Event \cup {Done} /\ queue \in [Listeners -> Seq(Event \cup {Done})]
      BY <1>2 DEF TypeOK
    <3>2. \A l \in Listeners : Append(queue[l], Done) \in Seq(Event \cup {Done})
      BY <3>1, PutItem
    <3> QED BY <1>1, <3>1, <3>2
  <2>2. queues' \in [Runs -> SUBSET Listeners] /\ active' \in 0..MaxRuns
    <3>1. {} \in SUBSET Listeners /\ queues \in [Runs -> SUBSET Listeners]
      BY <1>2 DEF TypeOK
    <3>2. [queues EXCEPT ![active] = {}] \in [Runs -> SUBSET Listeners]
      BY <3>1
    <3> QED BY <1>1, <3>2, BusAssumption
  <2> QED BY <1>1, <1>2, <1>3, <2>1, <2>2 DEF TypeOK
<1>6. KnownOrClosed' /\ BoundedHistory' /\ HistoryIsLog'
  BY <1>1, <1>2, <1>3, <1>4 DEF KnownOrClosed, BoundedHistory, HistoryIsLog
<1>7. NoListenerLeft' /\ Registered'
  <2>1. \A r \in Runs : queues'[r] = {}
    BY <1>1, <1>2, <1>3 DEF NoListenerLeft, TypeOK
  <2>2. \A l \in Listeners : pc[l] # "new" => following[l] # active'
    BY <1>1, <1>3
  <2> QED BY <1>1, <2>1, <2>2 DEF NoListenerLeft, Registered, Served
<1>8. StartedInOrder' /\ Asked' /\ LateIsEmpty'
  <2>1. StartedInOrder'
    BY <1>1, <1>2, <1>3, <1>4, Facts DEF StartedInOrder
  <2>2. Asked'
    BY <1>1, <1>2 DEF Asked
  <2>3. LateIsEmpty'
    BY <1>1, <1>2, <1>3 DEF LateIsEmpty, Asked, TypeOK
  <2> QED BY <2>1, <2>2, <2>3
<1>9. NothingMissed'
  <2> SUFFICES ASSUME NEW l \in Listeners, pc[l] \in Served
               PROVE  got[l] \o queue'[l] = Promised(l)'
    BY <1>1 DEF NothingMissed, Served
  <2>1. /\ following[l] \in Runs /\ following[l] # active'
        /\ got[l] \o queue[l] = Promised(l)
    BY <1>1, <1>2, <1>3 DEF Served, NothingMissed
  <2>2. CASE following[l] = active
    <3>1. l \in queues[active] /\ l \notin late
      BY <1>2, <1>3, <2>2 DEF Registered
    <3>2. got[l] \o queue[l] = log[active]
      BY <2>1, <2>2, <3>1 DEF Promised
    <3>3. /\ got[l] \in Seq(Event \cup {Done}) /\ queue[l] \in Seq(Event \cup {Done})
          /\ queue'[l] = Append(queue[l], Done)
          /\ log[active] \in Seq(Event \cup {Done})
      BY <1>1, <1>2, <1>3, <3>1 DEF TypeOK
    <3>4. got[l] \o queue'[l] = log[active] \o <<Done>>
      <4>1. Done \in Event \cup {Done} /\ <<>> \in Seq(Event \cup {Done})
        OBVIOUS
      <4>2. got[l] \o Append(queue[l], Done) = Append(got[l] \o queue[l], Done)
        BY <3>3, <4>1, PutItem
      <4>3. Append(log[active], Done) = log[active] \o <<Done>>
        BY <3>3, <4>1, PutItem
      <4> QED BY <3>2, <3>3, <4>2, <4>3
    <3> QED BY <1>1, <2>1, <2>2, <3>1, <3>4 DEF Promised
  <2>3. CASE following[l] # active
    <3>1. l \notin queues[active]
      BY <1>2, <1>3, <2>3 DEF Registered
    <3> QED BY <1>1, <2>1, <2>3, <3>1 DEF Promised
  <2> QED BY <2>2, <2>3
<1>10. DoneIsComplete'
  BY <1>1, <1>2, <1>3 DEF DoneIsComplete
<1>11. Blank'
  BY <1>1, <1>2, <1>4 DEF Blank
<1> QED BY <1>5, <1>6, <1>7, <1>8, <1>9, <1>10, <1>11 DEF IInv

(* subscribe keeps it: the replay is all that the run has published so far. *)
LEMMA SubscribeKeeps ==
  ASSUME NEW l \in Listeners, NEW r \in Runs, IInv, Subscribe(l, r) PROVE IInv'
<1> DEFINE items == history[r] \o (IF Over(r) THEN <<Done>> ELSE <<>>)
<1>1. /\ pc[l] = "new" /\ r < next
      /\ queue' = [queue EXCEPT ![l] = items]
      /\ queues' = IF Over(r) THEN queues ELSE [queues EXCEPT ![r] = @ \cup {l}]
      /\ late' = IF r \in Known THEN late ELSE late \cup {l}
      /\ following' = [following EXCEPT ![l] = r]
      /\ pc' = [pc EXCEPT ![l] = "attached"]
      /\ UNCHANGED <<next, active, order, history, closed, got, log>>
  BY DEF Subscribe, Replay
<1>2. /\ TypeOK /\ KnownOrClosed /\ BoundedHistory /\ NoListenerLeft
      /\ HistoryIsLog /\ StartedInOrder /\ Registered /\ Asked /\ LateIsEmpty
      /\ NothingMissed /\ DoneIsComplete /\ Blank
  BY DEF IInv
<1>3. /\ Known \subseteq Runs /\ active \in Known \cup {0} /\ active < next
      /\ \A s \in Runs : s \in Nat \ {0}
      /\ \A k \in Listeners : pc[k] # "new" => following[k] \in Runs
  BY Facts
<1>4. Known' = Known
  BY <1>1 DEF Known
<1>5. Over(r) <=> r # active
  BY <1>2, <1>3 DEF Over, KnownOrClosed
<1>6. /\ r = active => items = log[r] /\ r \in Known
      /\ r # active /\ r \in Known => items = log[r] \o <<Done>>
      /\ r \notin Known => items = <<Done>>
      /\ items \in Seq(Event \cup {Done})
  <2>1. history[r] \in Seq(Event) /\ log[r] \in Seq(Event)
    BY <1>2 DEF TypeOK
  <2>2. r \in Known => history[r] = log[r]
    BY <1>2 DEF HistoryIsLog
  <2>3. r \notin Known => history[r] = <<>>
    BY <1>2 DEF Blank
  <2>4. \A s \in Seq(Event) : s \o <<>> = s /\ s \o <<Done>> \in Seq(Event \cup {Done})
    OBVIOUS
  <2>5. <<>> \o <<Done>> = <<Done>>
    OBVIOUS
  <2>6. CASE r = active
    <3>1. items = history[r] \o <<>> /\ r \in Known
      BY <1>3, <1>5, <2>6
    <3>2. items = log[r]
      BY <2>1, <2>2, <2>4, <3>1
    <3> HIDE DEF items
    <3>3. items \in Seq(Event \cup {Done})
      BY <2>1, <3>2
    <3> QED BY <2>6, <3>1, <3>2, <3>3
  <2>7. CASE r # active
    <3>1. items = history[r] \o <<Done>>
      BY <1>5, <2>7
    <3> HIDE DEF items
    <3> QED BY <2>1, <2>2, <2>3, <2>4, <2>5, <2>7, <3>1
  <2> QED BY <2>6, <2>7
<1> HIDE DEF items
<1>7. TypeOK'
  <2>1. queue' \in [Listeners -> Seq(Event \cup {Done})]
    BY <1>1, <1>2, <1>6 DEF TypeOK
  <2>2. queues' \in [Runs -> SUBSET Listeners] /\ late' \in SUBSET Listeners
    BY <1>1, <1>2 DEF TypeOK
  <2>3. following' \in [Listeners -> 0..MaxRuns]
    BY <1>1, <1>2 DEF TypeOK, Runs
  <2>4. pc' \in [Listeners -> {"new", "attached", "streaming", "done", "left"}]
    BY <1>1, <1>2 DEF TypeOK
  <2> QED BY <1>1, <1>2, <2>1, <2>2, <2>3, <2>4 DEF TypeOK
<1>8. KnownOrClosed' /\ BoundedHistory' /\ HistoryIsLog' /\ StartedInOrder'
  BY <1>1, <1>2, <1>4 DEF KnownOrClosed, BoundedHistory, HistoryIsLog, StartedInOrder
<1>9. NoListenerLeft'
  BY <1>1, <1>2, <1>5 DEF NoListenerLeft, TypeOK
<1>10. Registered'
  <2>1. ASSUME NEW s \in Runs, NEW k \in queues'[s] PROVE following'[k] = s /\ k \notin late'
    <3>1. CASE k = l /\ s = r /\ ~Over(r)
      BY <3>1, <1>1, <1>2, <1>5, <1>6 DEF Asked, TypeOK
    <3>2. CASE ~(k = l /\ s = r /\ ~Over(r))
      <4>1. k \in queues[s] /\ k \in Listeners
        BY <2>1, <3>2, <1>1, <1>2 DEF TypeOK
      <4>2. following[k] = s /\ k \notin late /\ s # 0
        BY <4>1, <1>2, <1>3 DEF Registered
      <4>3. k # l
        BY <4>1, <4>2, <1>1, <1>2 DEF Asked
      <4> QED BY <4>1, <4>2, <4>3, <1>1, <1>2 DEF TypeOK
    <3> QED BY <3>1, <3>2
  <2>2. ASSUME NEW k \in Listeners, pc'[k] \in Served, following'[k] = active
        PROVE  k \in queues'[active]
    <3>1. CASE k = l
      <4>1. r = active
        BY <2>2, <3>1, <1>1, <1>2 DEF TypeOK
      <4> QED BY <3>1, <4>1, <1>1, <1>2, <1>5 DEF TypeOK
    <3>2. CASE k # l
      <4>1. k \in queues[active] /\ active \in Runs
        BY <2>2, <3>2, <1>1, <1>2, <1>3 DEF Registered, Served, TypeOK
      <4> QED BY <4>1, <1>1, <1>2 DEF TypeOK
    <3> QED BY <3>1, <3>2
  <2> QED BY <1>1, <2>1, <2>2 DEF Registered
<1>11. Asked'
  BY <1>1, <1>2, <1>3 DEF Asked, TypeOK
<1>12. LateIsEmpty'
  BY <1>1, <1>2, <1>3, <1>6 DEF LateIsEmpty, Asked, TypeOK
<1>13. NothingMissed'
  <2> SUFFICES ASSUME NEW k \in Listeners, pc'[k] \in Served
               PROVE  got[k] \o queue'[k] = Promised(k)'
    BY <1>1 DEF NothingMissed
  <2>1. CASE k = l
    <3>1. got[l] = <<>> /\ l \notin late /\ queue'[l] = items /\ following'[l] = r
      BY <1>1, <1>2 DEF Asked, TypeOK
    <3>2. <<>> \o items = items
      BY <1>6
    <3>3. Promised(l)' = items
      BY <1>1, <1>3, <1>6, <3>1 DEF Promised
    <3> QED BY <2>1, <3>1, <3>2, <3>3
  <2>2. CASE k # l
    <3>1. /\ pc[k] \in Served /\ queue'[k] = queue[k] /\ following'[k] = following[k]
          /\ k \in late' <=> k \in late
      BY <2>2, <1>1, <1>2 DEF TypeOK
    <3> QED BY <1>1, <1>2, <3>1 DEF NothingMissed, Promised
  <2> QED BY <2>1, <2>2
<1>14. DoneIsComplete'
  BY <1>1, <1>2 DEF DoneIsComplete, TypeOK
<1>15. Blank'
  BY <1>1, <1>2, <1>4 DEF Blank
<1> QED BY <1>7, <1>8, <1>9, <1>10, <1>11, <1>12, <1>13, <1>14, <1>15 DEF IInv

(* The first frame is asked for. *)
LEMMA BeginKeeps == ASSUME NEW l \in Listeners, IInv, Begin(l) PROVE IInv'
<1>1. /\ pc[l] = "attached" /\ pc' = [pc EXCEPT ![l] = "streaming"]
      /\ UNCHANGED <<next, active, order, history, closed, queues, queue, following, got,
                     log, late>>
  BY DEF Begin, busVars
<1>2. /\ TypeOK /\ KnownOrClosed /\ BoundedHistory /\ NoListenerLeft
      /\ HistoryIsLog /\ StartedInOrder /\ Registered /\ Asked /\ LateIsEmpty
      /\ NothingMissed /\ DoneIsComplete /\ Blank
  BY DEF IInv
<1>3. Known' = Known
  BY <1>1 DEF Known
<1>4. TypeOK'
  <2>1. pc' \in [Listeners -> {"new", "attached", "streaming", "done", "left"}]
    BY <1>1, <1>2 DEF TypeOK
  <2> QED BY <1>1, <1>2, <2>1 DEF TypeOK
<1>5. /\ \A k \in Listeners : k = l \/ pc'[k] = pc[k]
      /\ pc'[l] = "streaming" /\ pc[l] = "attached"
  BY <1>1, <1>2 DEF TypeOK
<1>6. KnownOrClosed' /\ BoundedHistory' /\ NoListenerLeft' /\ HistoryIsLog' /\ Blank'
      /\ StartedInOrder' /\ LateIsEmpty'
  BY <1>1, <1>2, <1>3 DEF KnownOrClosed, BoundedHistory, NoListenerLeft, HistoryIsLog, Blank,
                          StartedInOrder, LateIsEmpty
<1>7. Registered' /\ Asked'
  BY <1>1, <1>2, <1>5 DEF Registered, Asked, Served
<1>8. NothingMissed'
  <2> SUFFICES ASSUME NEW k \in Listeners, pc[k] \in Served
               PROVE  got[k] \o queue[k] = Promised(k)'
    BY <1>1, <1>5 DEF NothingMissed, Served
  <2> QED BY <1>1, <1>2 DEF NothingMissed, Promised
<1>9. DoneIsComplete'
  BY <1>1, <1>2, <1>5 DEF DoneIsComplete
<1> QED BY <1>4, <1>6, <1>7, <1>8, <1>9 DEF IInv

(* What is known of an item a streaming listener takes: if it is the end,   *)
(* the listener has the whole log of its run, or the bus did not know it.   *)
LEMMA TakenItem ==
  ASSUME NEW l \in Listeners, IInv, pc[l] = "streaming", queue[l] # <<>>
  PROVE  /\ Head(queue[l]) \in Event \cup {Done}
         /\ Tail(queue[l]) \in Seq(Event \cup {Done})
         /\ Append(got[l], Head(queue[l])) \o Tail(queue[l]) = Promised(l)
         /\ Head(queue[l]) # Done => l \notin late
         /\ Head(queue[l]) = Done => /\ following[l] # active
                                     /\ l \in late \/ got[l] = log[following[l]]
<1>1. /\ TypeOK /\ Registered /\ Asked /\ LateIsEmpty /\ NothingMissed
  BY DEF IInv
<1>2. /\ got[l] \in Seq(Event) /\ queue[l] \in Seq(Event \cup {Done})
      /\ following[l] \in Runs /\ log[following[l]] \in Seq(Event)
  BY <1>1, Facts DEF TypeOK
<1>3. got[l] \o queue[l] = Promised(l)
  BY <1>1 DEF NothingMissed, Served
<1>4. Done \notin Event
  <2>1. 0 \notin Runs
    BY Facts
  <2> QED BY <2>1 DEF Event, Done
<1>5. /\ Head(queue[l]) \in Event \cup {Done} /\ Tail(queue[l]) \in Seq(Event \cup {Done})
      /\ Append(got[l], Head(queue[l])) \o Tail(queue[l]) = Promised(l)
  <2> DEFINE S == Event \cup {Done}
             g == got[l]
             q == queue[l]
  <2>1. g \in Seq(S) /\ q \in Seq(S) /\ q # <<>> /\ g \o q = Promised(l)
    BY <1>2, <1>3
  <2> HIDE DEF S, g, q
  <2>2. Head(q) \in S /\ Tail(q) \in Seq(S) /\ Append(g, Head(q)) \o Tail(q) = g \o q
    BY <2>1, TakeFirst
  <2> QED BY <2>1, <2>2 DEF S, g, q
<1>6. ASSUME l \in late PROVE Head(queue[l]) = Done
  <2>1. got[l] = <<>> /\ Promised(l) = <<Done>>
    BY <1>1, <1>6 DEF LateIsEmpty, Promised
  <2>2. <<>> \o queue[l] = queue[l]
    BY <1>2
  <2>3. queue[l] = <<Done>>
    BY <1>3, <2>1, <2>2
  <2> QED BY <2>3
<1>7. ASSUME Head(queue[l]) = Done, l \notin late
      PROVE  following[l] # active /\ got[l] = log[following[l]]
  <2>1. /\ got[l] \o queue[l] # log[following[l]]
        /\ got[l] \o queue[l] = log[following[l]] \o <<Done>> => got[l] = log[following[l]]
    BY <1>2, <1>4, <1>7, EndReached
  <2> QED BY <1>3, <1>7, <2>1 DEF Promised
<1>8. l \in late => following[l] # active
  BY <1>1 DEF LateIsEmpty
<1> QED BY <1>5, <1>6, <1>7, <1>8

(* What a request does to the invariant when it moves on and may let go of *)
(* its queue, with g the frames sent by then.                              *)
LEMMA MovesOn ==
  ASSUME NEW l \in Listeners, IInv, pc[l] # "new",
         NEW p \in {"streaming", "done", "left"}, p \in Served => pc[l] \in Served,
         pc' = [pc EXCEPT ![l] = p],
         NEW g \in Seq(Event), got' = [got EXCEPT ![l] = g], l \in late => g = <<>>,
         NEW q \in Seq(Event \cup {Done}), queue' = [queue EXCEPT ![l] = q],
         queues' = queues \/ (p # "streaming"
                              /\ queues' = [queues EXCEPT ![following[l]] = @ \ {l}]),
         UNCHANGED <<next, active, order, history, closed, following, log, late>>,
         p = "streaming" => g \o q = Promised(l),
         p = "done" => following[l] # active /\ (l \in late \/ g = log[following[l]])
  PROVE  IInv'
<1>1. /\ TypeOK /\ KnownOrClosed /\ BoundedHistory /\ NoListenerLeft
      /\ HistoryIsLog /\ StartedInOrder /\ Registered /\ Asked /\ LateIsEmpty
      /\ NothingMissed /\ DoneIsComplete /\ Blank
  BY DEF IInv
<1>2. Known' = Known
  BY DEF Known
<1>3. /\ active \in Known \cup {0} /\ Known \subseteq Runs /\ following[l] \in Runs
      /\ \A r \in Runs : r \in Nat \ {0}
      /\ \A k \in Listeners : pc[k] # "new" => following[k] \in Runs
  BY Facts
<1>4. /\ \A k \in Listeners : k = l \/ (pc'[k] = pc[k] /\ got'[k] = got[k] /\ queue'[k] = queue[k])
      /\ pc'[l] = p /\ got'[l] = g /\ queue'[l] = q
  <2>1. /\ \A k \in Listeners : k = l \/ pc'[k] = pc[k]
        /\ pc'[l] = p
    BY <1>1 DEF TypeOK
  <2>2. /\ \A k \in Listeners : k = l \/ got'[k] = got[k]
        /\ got'[l] = g
    BY <1>1 DEF TypeOK
  <2>3. /\ \A k \in Listeners : k = l \/ queue'[k] = queue[k]
        /\ queue'[l] = q
    BY <1>1 DEF TypeOK
  <2> QED BY <2>1, <2>2, <2>3
<1>5. \A r \in Runs : /\ queues'[r] \subseteq queues[r]
                      /\ \A k \in queues[r] : k \in queues'[r] \/ (k = l /\ p # "streaming")
  <2>1. CASE queues' = queues
    BY <2>1
  <2>2. CASE p # "streaming" /\ queues' = [queues EXCEPT ![following[l]] = @ \ {l}]
    <3>1. \A r \in Runs : queues'[r] = queues[r] \/ queues'[r] = queues[r] \ {l}
      BY <1>1, <1>3, <2>2 DEF TypeOK
    <3> QED BY <2>2, <3>1
  <2> QED BY <2>1, <2>2
<1>6. TypeOK'
  <2>1. pc' \in [Listeners -> {"new", "attached", "streaming", "done", "left"}]
    BY <1>1 DEF TypeOK
  <2>2. got' \in [Listeners -> Seq(Event)] /\ queue' \in [Listeners -> Seq(Event \cup {Done})]
    BY <1>1 DEF TypeOK
  <2>3. queues' \in [Runs -> SUBSET Listeners]
    BY <1>1 DEF TypeOK
  <2> QED BY <1>1, <2>1, <2>2, <2>3 DEF TypeOK
<1>7. KnownOrClosed' /\ BoundedHistory' /\ HistoryIsLog' /\ Blank' /\ StartedInOrder'
  BY <1>1, <1>2 DEF KnownOrClosed, BoundedHistory, HistoryIsLog, Blank, StartedInOrder
<1>8. NoListenerLeft'
  BY <1>1, <1>5 DEF NoListenerLeft
<1>9. Registered'
  <2>1. \A r \in Runs : \A k \in queues'[r] : following'[k] = r /\ k \notin late'
    BY <1>1, <1>5 DEF Registered
  <2>2. ASSUME NEW k \in Listeners, pc'[k] \in Served, following[k] = active
        PROVE  k \in queues'[active]
    <3>1. pc[k] \in Served /\ (k = l => p = "streaming")
      BY <1>4, <2>2 DEF Served
    <3>2. k \in queues[active] /\ active \in Runs
      BY <1>1, <1>3, <2>2, <3>1 DEF Registered, Served
    <3> QED BY <1>5, <3>1, <3>2
  <2> QED BY <2>1, <2>2 DEF Registered
<1>10. Asked' /\ LateIsEmpty'
  <2>1. Asked'
    BY <1>1, <1>4 DEF Asked
  <2>2. LateIsEmpty'
    BY <1>1, <1>4 DEF LateIsEmpty, TypeOK
  <2> QED BY <2>1, <2>2
<1>11. NothingMissed'
  <2> SUFFICES ASSUME NEW k \in Listeners, pc'[k] \in Served
               PROVE  got'[k] \o queue'[k] = Promised(k)
    BY DEF NothingMissed, Promised
  <2>1. CASE k = l
    BY <1>4, <2>1 DEF Served
  <2>2. CASE k # l
    BY <1>1, <1>4, <2>2 DEF NothingMissed
  <2> QED BY <2>1, <2>2
<1>12. DoneIsComplete'
  BY <1>1, <1>4 DEF DoneIsComplete
<1> QED BY <1>6, <1>7, <1>8, <1>9, <1>10, <1>11, <1>12 DEF IInv

(* Sending a frame or the end keeps it. *)
LEMMA TakeKeeps == ASSUME NEW l \in Listeners, IInv, Take(l) PROVE IInv'
<1> DEFINE h == Head(queue[l])
           q == Tail(queue[l])
<1>1. /\ pc[l] = "streaming" /\ queue[l] # <<>>
      /\ queue' = [queue EXCEPT ![l] = q]
      /\ UNCHANGED <<next, active, order, history, closed, following, log, late>>
  BY DEF Take
<1>2. TypeOK /\ LateIsEmpty
  BY DEF IInv
<1>3. /\ h \in Event \cup {Done} /\ q \in Seq(Event \cup {Done})
      /\ Append(got[l], h) \o q = Promised(l)
      /\ h # Done => l \notin late
      /\ h = Done => following[l] # active /\ (l \in late \/ got[l] = log[following[l]])
  <2>1. /\ Head(queue[l]) \in Event \cup {Done}
        /\ Tail(queue[l]) \in Seq(Event \cup {Done})
        /\ Append(got[l], Head(queue[l])) \o Tail(queue[l]) = Promised(l)
    BY <1>1, TakenItem
  <2>2. Head(queue[l]) # Done => l \notin late
    BY <1>1, TakenItem
  <2>3. Head(queue[l]) = Done => /\ following[l] # active
                                 /\ l \in late \/ got[l] = log[following[l]]
    BY <1>1, TakenItem
  <2> QED BY <2>1, <2>2, <2>3
<1> HIDE DEF q
<1>4. CASE h # Done
  <2>1. got' = [got EXCEPT ![l] = Append(got[l], h)] /\ pc' = pc /\ queues' = queues
    BY <1>4 DEF Take
  <2>2. pc' = [pc EXCEPT ![l] = "streaming"]
    BY <1>1, <1>2, <2>1 DEF TypeOK
  <2>3. Append(got[l], h) \in Seq(Event)
    BY <1>2, <1>3, <1>4 DEF TypeOK
  <2> DEFINE g == Append(got[l], h)
  <2>4. g \in Seq(Event) /\ got' = [got EXCEPT ![l] = g] /\ g \o q = Promised(l)
    BY <1>3, <2>1, <2>3
  <2> HIDE DEF g, h
  <2> QED BY <1>1, <1>3, <1>4, <2>1, <2>2, <2>4, MovesOn DEF Served
<1>5. CASE h = Done
  <2>1. /\ pc' = [pc EXCEPT ![l] = "done"] /\ got' = got
        /\ queues' = [queues EXCEPT ![following[l]] = @ \ {l}]
    BY <1>5 DEF Take, Unsubscribe
  <2> DEFINE g == got[l]
  <2>2. g \in Seq(Event) /\ got' = [got EXCEPT ![l] = g] /\ (l \in late => g = <<>>)
    BY <1>2, <2>1 DEF TypeOK, LateIsEmpty
  <2>3. h = Done => following[l] # active /\ (l \in late \/ g = log[following[l]])
    BY <1>3
  <2> HIDE DEF g, h
  <2> QED BY <1>1, <1>3, <1>5, <2>1, <2>2, <2>3, MovesOn DEF Served
<1> QED BY <1>4, <1>5

(* A client that goes away keeps it. *)
LEMMA LeaveKeeps == ASSUME NEW l \in Listeners, IInv, Leave(l) PROVE IInv'
<1> DEFINE g == got[l]
           q == queue[l]
<1>1. /\ pc[l] \in Served /\ pc' = [pc EXCEPT ![l] = "left"]
      /\ UNCHANGED <<next, active, order, history, closed, queue, following, got, log, late>>
      /\ queues' = queues \/ queues' = [queues EXCEPT ![following[l]] = @ \ {l}]
  BY DEF Leave, Unsubscribe
<1>2. TypeOK /\ LateIsEmpty
  BY DEF IInv
<1>3. /\ g \in Seq(Event) /\ got' = [got EXCEPT ![l] = g] /\ (l \in late => g = <<>>)
      /\ q \in Seq(Event \cup {Done}) /\ queue' = [queue EXCEPT ![l] = q]
  BY <1>1, <1>2 DEF TypeOK, LateIsEmpty
<1> HIDE DEF g, q
<1> QED BY <1>1, <1>3, MovesOn DEF Served

(* A new process keeps it: nobody is served and nothing is known. *)
LEMMA RestartKeeps == ASSUME IInv, Restart PROVE IInv'
<1>1. /\ active' = 0 /\ order' = <<>> /\ closed' = {}
      /\ history' = [r \in Runs |-> <<>>] /\ queues' = [r \in Runs |-> {}]
      /\ pc' = [l \in Listeners |-> IF pc[l] \in Served THEN "left" ELSE pc[l]]
      /\ UNCHANGED <<next, queue, following, got, log, late>>
  BY DEF Restart
<1>2. /\ TypeOK /\ StartedInOrder /\ Asked /\ LateIsEmpty /\ DoneIsComplete
  BY DEF IInv
<1>3. /\ next \in Nat \ {0} /\ \A r \in Runs : r \in Nat \ {0}
      /\ \A l \in Listeners : pc[l] # "new" => following[l] \in Runs
  BY Facts
<1>4. Known' = {}
  BY <1>1 DEF Known, Keys
<1>5. TypeOK'
  <2>1. pc' \in [Listeners -> {"new", "attached", "streaming", "done", "left"}]
    BY <1>1, <1>2 DEF TypeOK
  <2>2. order' \in Seq(Runs) /\ closed' \in SUBSET Runs /\ active' \in 0..MaxRuns
    BY <1>1, BusAssumption
  <2>3. {} \in SUBSET Listeners /\ <<>> \in Seq(Event)
    OBVIOUS
  <2> QED BY <1>1, <1>2, <2>1, <2>2, <2>3 DEF TypeOK
<1>6. /\ \A l \in Listeners : pc'[l] \notin Served
      /\ \A l \in Listeners : pc'[l] = pc[l] \/ (pc'[l] = "left" /\ pc[l] # "new")
  BY <1>1 DEF Served
<1>7. KnownOrClosed' /\ BoundedHistory' /\ NoListenerLeft' /\ HistoryIsLog' /\ Blank'
  BY <1>1, <1>4, BusAssumption DEF KnownOrClosed, BoundedHistory, NoListenerLeft,
                                   HistoryIsLog, Blank
<1>8. StartedInOrder' /\ Registered'
  BY <1>1, <1>2, <1>3, <1>4, <1>6 DEF StartedInOrder, Registered
<1>9. Asked' /\ LateIsEmpty'
  <2>1. \A l \in late : l \in Listeners /\ following[l] # 0
    BY <1>2, <1>3 DEF TypeOK, Asked
  <2>2. Asked'
    BY <1>1, <1>2, <1>6 DEF Asked
  <2> QED BY <1>1, <1>2, <2>1, <2>2 DEF LateIsEmpty
<1>10. NothingMissed' /\ DoneIsComplete'
  BY <1>1, <1>2, <1>3, <1>6 DEF NothingMissed, DoneIsComplete
<1> QED BY <1>5, <1>7, <1>8, <1>9, <1>10 DEF IInv

LEMMA StutterKeeps == ASSUME IInv, UNCHANGED vars PROVE IInv'
<1> USE DEF vars, busVars, streamVars
<1>1. Known' = Known
  BY DEF Known
<1>2. TypeOK' /\ KnownOrClosed' /\ BoundedHistory' /\ NoListenerLeft' /\ HistoryIsLog'
  BY <1>1 DEF IInv, TypeOK, KnownOrClosed, BoundedHistory, NoListenerLeft, HistoryIsLog
<1>3. Blank' /\ StartedInOrder' /\ Registered' /\ Asked' /\ LateIsEmpty'
  BY <1>1 DEF IInv, Blank, StartedInOrder, Registered, Asked, LateIsEmpty
<1>4. NothingMissed' /\ DoneIsComplete'
  BY DEF IInv, NothingMissed, Promised, DoneIsComplete
<1> QED BY <1>2, <1>3, <1>4 DEF IInv

LEMMA NextKeeps == IInv /\ [Next]_vars => IInv'
<1> SUFFICES ASSUME IInv, [Next]_vars PROVE IInv' OBVIOUS
<1>1. ASSUME NEW s \in Stages, Publish(s) PROVE IInv'
  BY <1>1, PublishKeeps
<1>2. ASSUME NEW l \in Listeners, Begin(l) \/ Take(l) \/ Leave(l) PROVE IInv'
  BY <1>2, BeginKeeps, TakeKeeps, LeaveKeeps
<1>3. ASSUME NEW l \in Listeners, NEW r \in Runs, Subscribe(l, r) PROVE IInv'
  BY <1>3, SubscribeKeeps
<1>4. CASE Open \/ Close \/ Restart \/ UNCHANGED vars
  BY <1>4, OpenKeeps, CloseKeeps, RestartKeeps, StutterKeeps
<1> QED BY <1>1, <1>2, <1>3, <1>4 DEF Next

(* The inductive invariant of the bus and its listeners. *)
THEOREM Invariance == Spec => []IInv
BY InitInv, NextKeeps, PTL DEF Spec

(* Every listener gets all events of its run, in order, and the end when    *)
(* the run is over: the replay and the live events of RunBus.subscribe and  *)
(* RunBus.publish neither overlap nor leave a gap.                          *)
THEOREM StreamsComplete == Spec => []NothingMissed
<1>1. IInv => NothingMissed
  BY DEF IInv
<1> QED BY <1>1, Invariance, PTL

(* A stream that says done has delivered every event of its run. *)
THEOREM DoneMeansComplete == Spec => []DoneIsComplete
<1>1. IInv => DoneIsComplete
  BY DEF IInv
<1> QED BY <1>1, Invariance, PTL

(* No listener stays behind at a run that was closed or evicted. *)
THEOREM ListenersGone == Spec => []NoListenerLeft
<1>1. IInv => NoListenerLeft
  BY DEF IInv
<1> QED BY <1>1, Invariance, PTL

(* The bus never holds more than max_runs histories. *)
THEOREM HistoryBounded == Spec => []BoundedHistory
<1>1. IInv => BoundedHistory
  BY DEF IInv
<1> QED BY <1>1, Invariance, PTL

(* Each step of the bus is a step of the feed or a stutter. *)
LEMMA StepRefines ==
  ASSUME IInv, IInv', [Next]_vars
  PROVE  [Feed!Next]_(Feed!feedVars)
<1>1. /\ TypeOK /\ KnownOrClosed /\ StartedInOrder /\ Asked /\ LateIsEmpty /\ NothingMissed
  BY DEF IInv
<1>2. /\ next \in Nat \ {0} /\ active \in Nat /\ active < next
      /\ active \in Known \cup {0} /\ Known \subseteq Runs
      /\ \A r \in Runs : r \in Nat \ {0}
      /\ \A l \in Listeners : following[l] < next /\ (pc[l] # "new" => following[l] \in Runs)
  BY Facts
<1> USE DEF Feed!feedVars
<1>3. CASE Open
  <2> DEFINE S == Known \ Known'
  <2>1. /\ active = 0 /\ active' = next /\ next \in Runs /\ next' = next + 1
        /\ UNCHANGED <<log, following, got, late, pc>>
    BY <1>3 DEF Open, streamVars
  <2>2. next \in Known' /\ Known' \subseteq Known \cup {next}
    <3> DEFINE o == Append(order, next)
    <3>1. o \in Seq(Runs) /\ o # <<>> /\ o[Len(o)] = next /\ Keys(o) = Known \cup {next}
      BY <1>1, <2>1, AddKey DEF TypeOK, Known
    <3>2. order' = Kept(o)
      BY <1>3 DEF Open
    <3> HIDE DEF o
    <3> QED BY <3>1, <3>2, KeptNewest DEF Known
  <2>3. S \subseteq Finished /\ S \in SUBSET Runs
    BY <1>1, <1>2, <2>1 DEF Finished, StartedInOrder
  <2>4. Lost' = Lost \cup S
    <3>1. \A r \in Runs : r < next' <=> (r < next \/ r = next)
      BY <1>2, <2>1
    <3>2. next \notin Known /\ \A r \in Known : r < next
      BY <1>1, <1>2 DEF StartedInOrder
    <3>3. Lost' = {r \in Runs : r < next'} \ Known'
      BY DEF Lost
    <3>4. ASSUME NEW r \in Runs
          PROVE  (r < next' /\ r \notin Known')
                   <=> (r < next /\ r \notin Known) \/ (r \in Known /\ r \notin Known')
      <4>1. CASE r = next
        BY <1>2, <2>2, <3>1, <3>2, <4>1
      <4>2. CASE r # next
        BY <1>2, <2>2, <3>1, <3>2, <4>2
      <4> QED BY <4>1, <4>2
    <3> QED BY <1>2, <3>3, <3>4 DEF Lost
  <2>5. Finished' = Finished
    <3>1. Finished' = {r \in Runs : r < next' /\ r # active'}
      BY DEF Finished
    <3>2. ASSUME NEW r \in Runs
          PROVE  (r < next' /\ r # active') <=> (r < next /\ r # active)
      <4>1. r \in Nat \ {0}
        BY <1>2
      <4> QED BY <1>2, <2>1, <4>1
    <3> QED BY <3>1, <3>2 DEF Finished
  <2>6. Gone' = Gone /\ Told' = Told
    BY <2>1 DEF Gone, Told
  <2>7. Feed!Forget(S)
    BY <2>1, <2>3, <2>4, <2>5, <2>6 DEF Feed!Forget
  <2> QED BY <2>3, <2>7 DEF Feed!Next
<1>4. ASSUME NEW s \in Stages, Publish(s) PROVE [Feed!Next]_(Feed!feedVars)
  <2> DEFINE e == <<active, s>>
  <2>1. /\ active \in Runs /\ e \in Event /\ active \in Known
        /\ log' = [log EXCEPT ![active] = Append(@, e)] /\ order' = order
        /\ UNCHANGED <<next, active, following, got, late, pc>>
    BY <1>2, <1>4 DEF Publish, Event, streamVars
  <2>2. Finished' = Finished /\ Lost' = Lost /\ active \notin Finished \cup Lost
    BY <2>1 DEF Finished, Lost, Known
  <2>4. Gone' = Gone /\ Told' = Told
    BY <2>1 DEF Gone, Told
  <2>3. Feed!Append1(active, e)
    BY <2>1, <2>2, <2>4 DEF Feed!Append1
  <2> QED BY <2>1, <2>3 DEF Feed!Next
<1>5. CASE Close
  <2>1. /\ active \in Runs /\ active' = 0 /\ order' = order
        /\ UNCHANGED <<next, following, got, late, log, pc>>
    BY <1>2, <1>5 DEF Close, streamVars
  <2>2. Finished' = Finished \cup {active} /\ Lost' = Lost /\ Gone' = Gone /\ Told' = Told
    BY <1>2, <2>1 DEF Finished, Lost, Gone, Told, Known
  <2>3. Feed!End(active)
    BY <2>1, <2>2 DEF Feed!End
  <2> QED BY <2>1, <2>3 DEF Feed!Next
<1>6. CASE Restart
  <2> DEFINE S == {r \in Runs : r < next}
  <2>1. /\ active' = 0 /\ Known' = {}
        /\ pc' = [l \in Listeners |-> IF pc[l] \in Served THEN "left" ELSE pc[l]]
        /\ UNCHANGED <<next, following, got, late, log>>
    BY <1>6 DEF Restart, Known, Keys
  <2>2. Finished' = Finished \cup S /\ Lost' = Lost \cup S
    BY <1>2, <2>1 DEF Finished, Lost
  <2>3. Gone' = Gone \cup {l \in Listeners : Feed!Following(l)} /\ Told' = Told
    <3>1. \A l \in Listeners : Feed!Following(l) <=> pc[l] \in Served
      BY <1>1 DEF Asked, TypeOK, Served, Told, Gone, Feed!Following
    <3>2. ASSUME NEW l \in Listeners
          PROVE  /\ pc'[l] = "left" <=> (pc[l] = "left" \/ pc[l] \in Served)
                 /\ pc'[l] = "done" <=> pc[l] = "done"
      BY <2>1 DEF Served
    <3>3. Told' = Told
      <4>1. /\ Told' = {l \in Listeners : pc'[l] = "done"}
            /\ Told = {l \in Listeners : pc[l] = "done"}
        BY DEF Told
      <4> QED BY <3>2, <4>1
    <3>4. /\ Gone' = {l \in Listeners : pc'[l] = "left"}
          /\ Gone = {l \in Listeners : pc[l] = "left"}
      BY DEF Gone
    <3>5. Gone' = Gone \cup {l \in Listeners : pc[l] \in Served}
      BY <3>2, <3>4
    <3>6. {l \in Listeners : Feed!Following(l)} = {l \in Listeners : pc[l] \in Served}
      BY <3>1
    <3> QED BY <3>3, <3>5, <3>6
  <2>4. Feed!Restart(S)
    BY <2>1, <2>2, <2>3 DEF Feed!Restart
  <2>5. S \in SUBSET Runs
    OBVIOUS
  <2> QED BY <2>4, <2>5 DEF Feed!Next
<1>7. ASSUME NEW l \in Listeners, NEW r \in Runs, Subscribe(l, r)
      PROVE  [Feed!Next]_(Feed!feedVars)
  <2>1. /\ pc[l] = "new" /\ r < next
        /\ late' = IF r \in Known THEN late ELSE late \cup {l}
        /\ following' = [following EXCEPT ![l] = r]
        /\ pc' = [pc EXCEPT ![l] = "attached"]
        /\ UNCHANGED <<next, active, order, got, log>>
    BY <1>7 DEF Subscribe
  <2>2. following[l] = 0 /\ (r \in Lost <=> r \notin Known)
    BY <1>1, <2>1 DEF Asked, Lost
  <2>3. Gone' = Gone /\ Told' = Told
    BY <1>1, <2>1 DEF Gone, Told, TypeOK
  <2>4. Finished' = Finished /\ Lost' = Lost
    BY <2>1 DEF Finished, Lost, Known
  <2>5. Feed!Attach(l, r)
    BY <2>1, <2>2, <2>3, <2>4 DEF Feed!Attach
  <2> QED BY <2>5 DEF Feed!Next
<1>8. ASSUME NEW l \in Listeners, Begin(l) PROVE [Feed!Next]_(Feed!feedVars)
  <2>1. Gone' = Gone /\ Told' = Told
    BY <1>1, <1>8 DEF Begin, Gone, Told, TypeOK
  <2>2. UNCHANGED <<next, active, order, following, got, late, log>>
    BY <1>8 DEF Begin, busVars
  <2> QED BY <2>1, <2>2 DEF Finished, Lost, Known
<1>9. ASSUME NEW l \in Listeners, Take(l) PROVE [Feed!Next]_(Feed!feedVars)
  <2>1. /\ pc[l] = "streaming" /\ queue[l] # <<>> /\ following[l] \in Runs
        /\ UNCHANGED <<next, active, order, following, late, log>>
    BY <1>2, <1>9 DEF Take
  <2>2. Finished' = Finished /\ Lost' = Lost /\ following[l] # 0 /\ l \notin Told \cup Gone
    BY <1>2, <2>1 DEF Finished, Lost, Known, Told, Gone
  <2>3. CASE Head(queue[l]) # Done
    <3>1. got' = [got EXCEPT ![l] = Append(@, Head(queue[l]))] /\ pc' = pc /\ l \notin late
      BY <1>9, <2>1, <2>3, TakenItem DEF Take
    <3>2. Len(got[l]) < Len(log[following[l]]) /\ Head(queue[l]) = log[following[l]][Len(got[l]) + 1]
      <4>1. /\ got[l] \in Seq(Event) /\ queue[l] \in Seq(Event \cup {Done})
            /\ log[following[l]] \in Seq(Event)
        BY <1>1, <2>1 DEF TypeOK
      <4>2. \/ got[l] \o queue[l] = log[following[l]]
            \/ got[l] \o queue[l] = log[following[l]] \o <<Done>>
        BY <1>1, <2>1, <3>1 DEF NothingMissed, Promised, Served
      <4> QED BY <2>1, <2>3, <4>1, <4>2, NextDue
    <3>3. Gone' = Gone /\ Told' = Told
      BY <3>1 DEF Gone, Told
    <3>4. got' = [got EXCEPT ![l] = Append(@, log[following[l]][Len(@) + 1])]
      BY <1>1, <3>1, <3>2 DEF TypeOK
    <3>5. Feed!Read(l)
      BY <2>1, <2>2, <3>1, <3>2, <3>3, <3>4 DEF Feed!Read, Feed!Following
    <3> QED BY <3>5 DEF Feed!Next
  <2>4. CASE Head(queue[l]) = Done
    <3>1. /\ pc' = [pc EXCEPT ![l] = "done"] /\ got' = got /\ following[l] # active
          /\ l \in late \/ got[l] = log[following[l]]
      BY <1>9, <2>1, <2>4, TakenItem DEF Take
    <3>2. Told' = Told \cup {l} /\ Gone' = Gone
      BY <1>1, <2>1, <3>1 DEF Told, Gone, TypeOK
    <3>3. following[l] \in Finished
      BY <1>2, <2>1, <3>1 DEF Finished
    <3>4. Feed!Finish(l)
      BY <2>1, <2>2, <3>1, <3>2, <3>3 DEF Feed!Finish, Feed!Following
    <3> QED BY <3>4 DEF Feed!Next
  <2> QED BY <2>3, <2>4
<1>10. ASSUME NEW l \in Listeners, Leave(l) PROVE [Feed!Next]_(Feed!feedVars)
  <2>1. /\ pc[l] \in Served /\ pc' = [pc EXCEPT ![l] = "left"]
        /\ UNCHANGED <<next, active, order, following, got, late, log>>
    BY <1>10 DEF Leave
  <2>2. Gone' = Gone \cup {l} /\ Told' = Told /\ l \notin Told \cup Gone
    BY <1>1, <2>1 DEF Gone, Told, TypeOK, Served
  <2>3. following[l] # 0
    BY <1>2, <2>1 DEF Served
  <2>4. Finished' = Finished /\ Lost' = Lost
    BY <2>1 DEF Finished, Lost, Known
  <2>5. Feed!Leave(l)
    BY <2>1, <2>2, <2>3, <2>4 DEF Feed!Leave, Feed!Following
  <2> QED BY <2>5 DEF Feed!Next
<1>11. CASE UNCHANGED vars
  BY <1>11 DEF vars, busVars, streamVars, Finished, Lost, Known, Gone, Told
<1> QED BY <1>3, <1>4, <1>5, <1>6, <1>7, <1>8, <1>9, <1>10, <1>11 DEF Next

(* RunBus implements the feed: to every listener the replay, the queue and  *)
(* the end mark amount to reading the run's log from its beginning.         *)
THEOREM BusKeepsFeed == Spec => FeedSpec
<1>1. Init => Feed!Init
  BY DEF Init, Feed!Init, Finished, Lost, Told, Gone, Runs
<1>2. IInv /\ IInv' /\ [Next]_vars => [Feed!Next]_(Feed!feedVars)
  BY StepRefines
<1> QED BY <1>1, <1>2, Invariance, PTL DEF Spec, FeedSpec, Feed!Spec
================================================================================
