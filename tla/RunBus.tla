--------------------------------- MODULE RunBus ---------------------------------
(***************************************************************************)
(* The in-process event bus of desk runs (RunBus in                        *)
(* backend/app/agents/orchestrator.py) with its two users: the desk, which *)
(* opens, publishes to and closes one run at a time, and the listeners,    *)
(* one per GET /runs/{run_id}/events request (run_events in api.py).       *)
(*                                                                         *)
(* Every bus operation runs on the event loop without suspending (a put on *)
(* an unbounded queue never waits), so each is one action.  The heartbeat  *)
(* of run_events writes a comment frame and changes nothing, so it is not  *)
(* an action.  Runs are numbered by their start.                           *)
(***************************************************************************)
EXTENDS Naturals, Sequences, FiniteSets

CONSTANTS Stages,      \* what an event may say
          Listeners,   \* event-stream requests, each used once
          MaxHistory,  \* _max_runs
          MaxRuns,     \* bound on the runs ever started
          MaxEvents    \* bound on the events of a run

ASSUME BusAssumption == /\ MaxHistory \in Nat \ {0}
                        /\ MaxRuns \in Nat
                        /\ MaxEvents \in Nat

VARIABLES
  next,       \* the number the next run gets
  active,     \* the desk's active run, 0 for None
  order,      \* the keys of _history, oldest first
  history,    \* _history[r], empty for a run that has no key
  closed,     \* _closed
  queues,     \* _queues[r]: the listeners registered with r
  queue,      \* queue[l]: what waits in the asyncio.Queue of listener l
  pc,         \* the request: "new", "attached", "streaming", "done" or "left"
  following,  \* the run it asked for, 0 before
  got,        \* the stage frames it has been sent
  log,        \* all that was ever published for r
  late        \* the listeners that asked for a run the bus did not know

busVars    == <<order, history, closed, queues>>
streamVars == <<pc, following, got, late>>
vars       == <<next, active, busVars, queue, streamVars, log>>

--------------------------------------------------------------------------------

Runs   == 1..MaxRuns
Event  == Runs \X Stages
Done   == <<0, "done">>       \* the None that ends a stream
Keys(o) == {o[i] : i \in 1..Len(o)}
Known  == Keys(order)
Served == {"attached", "streaming"}

Init == /\ next = 1 /\ active = 0
        /\ order = <<>> /\ closed = {}
        /\ history = [r \in Runs |-> <<>>]
        /\ queues = [r \in Runs |-> {}]
        /\ queue = [l \in Listeners |-> <<>>]
        /\ pc = [l \in Listeners |-> "new"]
        /\ following = [l \in Listeners |-> 0]
        /\ got = [l \in Listeners |-> <<>>]
        /\ log = [r \in Runs |-> <<>>]
        /\ late = {}

(* The keys that _evict leaves: the newest. *)
Kept(o) == IF Len(o) <= MaxHistory THEN o
           ELSE SubSeq(o, Len(o) - MaxHistory + 1, Len(o))

(* The closed marks that stay. *)
StillClosed(evicted) == closed \ evicted

(* start: a run becomes active and opens its history; _evict makes room. *)
Open == /\ active = 0 /\ next \in Runs
        /\ active' = next /\ next' = next + 1
        /\ order' = Kept(Append(order, next))
        /\ LET evicted == Known \ Keys(order')
               blank   == evicted \cup {next}
           IN  /\ history' = [r \in Runs |-> IF r \in blank THEN <<>> ELSE history[r]]
               /\ queues'  = [r \in Runs |-> IF r \in evicted THEN {} ELSE queues[r]]
               /\ closed'  = StillClosed(evicted)
        /\ UNCHANGED <<queue, streamVars, log>>

(* What the queues hold once e was put to the listeners S. *)
Put(S, e) == [l \in Listeners |-> IF l \in S THEN Append(queue[l], e) ELSE queue[l]]

(* publish, called by _emit. *)
Publish(s) == LET e == <<active, s>>
              IN  /\ active # 0 /\ Len(log[active]) < MaxEvents
                  /\ order'   = IF active \in Known THEN order ELSE Append(order, active)
                  /\ history' = [history EXCEPT ![active] = Append(@, e)]
                  /\ queue'   = Put(queues[active], e)
                  /\ log'     = [log EXCEPT ![active] = Append(@, e)]
                  /\ UNCHANGED <<next, active, closed, queues, streamVars>>

(* What close sends to each listener.  Mutant: nothing. *)
FarewellNone(r) == queue
Farewell(r)     == Put(queues[r], Done)

(* The end of _execute: _active_run_id is cleared and the run closed. *)
Close == /\ active # 0
         /\ closed' = closed \cup {active}
         /\ queue'  = Farewell(active)
         /\ queues' = [queues EXCEPT ![active] = {}]
         /\ active' = 0
         /\ UNCHANGED <<next, order, history, streamVars, log>>

(* Does subscribe answer the request out of the history alone?  Mutants: it *)
(* forgets the runs it does not know; it ends the stream of those it knows. *)
OverClosed(r) == r \in closed
OverKnown(r)  == r \in closed \/ r \in Known
Over(r)       == r \in closed \/ r \notin Known

(* What subscribe replays.  Mutant: only what comes from now on is sent. *)
ReplayNone(r) == <<>>
Replay(r)     == history[r]

(* run_events for a run the desk has a row of, up to the first frame. *)
Subscribe(l, r) == /\ pc[l] = "new" /\ r < next
                   /\ queue' = [queue EXCEPT ![l] =
                                  Replay(r) \o (IF Over(r) THEN <<Done>> ELSE <<>>)]
                   /\ queues' = IF Over(r) THEN queues
                                ELSE [queues EXCEPT ![r] = @ \cup {l}]
                   /\ late' = IF r \in Known THEN late ELSE late \cup {l}
                   /\ following' = [following EXCEPT ![l] = r]
                   /\ pc' = [pc EXCEPT ![l] = "attached"]
                   /\ UNCHANGED <<next, active, order, history, closed, got, log>>

Unsubscribe(l) == queues' = [queues EXCEPT ![following[l]] = @ \ {l}]

(* The server begins to iterate the response body. *)
Begin(l) == /\ pc[l] = "attached"
            /\ pc' = [pc EXCEPT ![l] = "streaming"]
            /\ UNCHANGED <<next, active, busVars, queue, following, got, log, late>>

(* gen: take the next item; an event becomes a frame, None ends the stream. *)
Take(l) == /\ pc[l] = "streaming" /\ queue[l] # <<>>
           /\ queue' = [queue EXCEPT ![l] = Tail(@)]
           /\ \/ /\ Head(queue[l]) # Done
                 /\ got' = [got EXCEPT ![l] = Append(@, Head(queue[l]))]
                 /\ UNCHANGED <<pc, queues>>
              \/ /\ Head(queue[l]) = Done
                 /\ pc' = [pc EXCEPT ![l] = "done"]
                 /\ Unsubscribe(l)
                 /\ UNCHANGED got
           /\ UNCHANGED <<next, active, order, history, closed, following, log, late>>

(* The client goes away.  Before the body is iterated the generator has not *)
(* begun, so its finally does not run and the queue stays registered.       *)
Leave(l) == /\ pc[l] \in Served
            /\ pc' = [pc EXCEPT ![l] = "left"]
            /\ IF pc[l] = "streaming" THEN Unsubscribe(l) ELSE UNCHANGED queues
            /\ UNCHANGED <<next, active, order, history, closed, queue, following,
                           got, log, late>>

(* The process is replaced: a new bus, and every connection is gone. *)
Restart == /\ next > 1
           /\ active' = 0
           /\ order' = <<>> /\ closed' = {}
           /\ history' = [r \in Runs |-> <<>>]
           /\ queues' = [r \in Runs |-> {}]
           /\ pc' = [l \in Listeners |-> IF pc[l] \in Served THEN "left" ELSE pc[l]]
           /\ UNCHANGED <<next, queue, following, got, log, late>>

Next == \/ Open \/ Close \/ Restart
        \/ \E s \in Stages : Publish(s)
        \/ \E l \in Listeners : Begin(l) \/ Take(l) \/ Leave(l)
        \/ \E l \in Listeners, r \in Runs : Subscribe(l, r)

Spec == Init /\ [][Next]_vars

(* The desk's task goes on until it closes its run (see DeskOrchestrator)   *)
(* and the event loop serves every connection; nobody is made to subscribe. *)
FairSpec == /\ Spec /\ WF_vars(Close)
            /\ \A l \in Listeners : WF_vars(Begin(l)) /\ WF_vars(Take(l))

--------------------------------------------------------------------------------

(* Every variable has its type. *)
TypeOK == /\ next \in 1..(MaxRuns + 1)
          /\ active \in 0..MaxRuns
          /\ order \in Seq(Runs)
          /\ history \in [Runs -> Seq(Event)]
          /\ closed \in SUBSET Runs
          /\ queues \in [Runs -> SUBSET Listeners]
          /\ queue \in [Listeners -> Seq(Event \cup {Done})]
          /\ pc \in [Listeners -> {"new", "attached", "streaming", "done", "left"}]
          /\ following \in [Listeners -> 0..MaxRuns]
          /\ got \in [Listeners -> Seq(Event)]
          /\ log \in [Runs -> Seq(Event)]
          /\ late \in SUBSET Listeners

(* Exactly the runs the bus knows and that are not active are closed: an    *)
(* eviction takes the mark with the history (_evict), and a closed run is   *)
(* never written again.                                                     *)
KnownOrClosed == closed = Known \ {active} /\ active \in Known \cup {0}

(* The bus holds at most max_runs histories and the marks of no others      *)
(* (test_run_bus_history_is_bounded).                                       *)
BoundedHistory == Len(order) <= MaxHistory /\ closed \subseteq Known

(* Only the run in progress has listeners: none is left behind by a run     *)
(* that was closed or evicted, even if its request vanished before the      *)
(* generator began.                                                         *)
NoListenerLeft == \A r \in Runs : queues[r] # {} => r = active

(* What a listener was sent and what waits for it is all that was published *)
(* for its run since the beginning, in order, and then the end if and only  *)
(* if the run is no longer in progress.  A listener of a run the bus does   *)
(* not know gets the end alone.                                             *)
Promised(l) == IF l \in late THEN <<Done>>
               ELSE IF following[l] = active THEN log[following[l]]
               ELSE log[following[l]] \o <<Done>>
NothingMissed == \A l \in Listeners :
                   pc[l] \in Served => got[l] \o queue[l] = Promised(l)

(* A stream that says done has delivered every event of its run, and the    *)
(* run is not in progress.                                                  *)
DoneIsComplete == \A l \in Listeners :
                    pc[l] = "done" => /\ following[l] # active
                                      /\ l \in late \/ got[l] = log[following[l]]

(* The facts about the bus from which NothingMissed follows by induction. *)
HistoryIsLog   == \A r \in Known : history[r] = log[r]
Blank          == \A r \in Runs \ Known : history[r] = <<>>
StartedInOrder == /\ \A r \in Known \cup {active} : r < next
                  /\ \A r \in Runs : r >= next => log[r] = <<>>
Registered     == /\ \A r \in Runs : \A l \in queues[r] : following[l] = r /\ l \notin late
                  /\ \A l \in Listeners : pc[l] \in Served /\ following[l] = active
                                           => l \in queues[active]
Asked          == \A l \in Listeners : /\ following[l] < next
                                       /\ pc[l] = "new" <=> following[l] = 0
                                       /\ pc[l] = "new" => got[l] = <<>> /\ l \notin late
LateIsEmpty    == \A l \in late : got[l] = <<>> /\ following[l] # active

IInv == /\ TypeOK /\ KnownOrClosed /\ BoundedHistory /\ NoListenerLeft
        /\ HistoryIsLog /\ StartedInOrder /\ Registered /\ Asked /\ LateIsEmpty
        /\ NothingMissed /\ DoneIsComplete /\ Blank

(* The bus keeps the promises of RunFeed to every listener. *)
Finished == {r \in Runs : r < next /\ r # active}
Lost     == {r \in Runs : r < next} \ Known
Told     == {l \in Listeners : pc[l] = "done"}
Gone     == {l \in Listeners : pc[l] = "left"}
Feed == INSTANCE RunFeed WITH Events <- Event, Readers <- Listeners, over <- Finished,
                              lost <- Lost, reading <- following, blank <- late,
                              ended <- Told, gone <- Gone
FeedSpec == Feed!Spec

(* Every stream that is being served comes to its end: done, or the client  *)
(* left, or the process was replaced.                                       *)
EveryStreamEnds == \A l \in Listeners :
                     pc[l] = "streaming" ~> pc[l] \in {"done", "left"}
================================================================================
