------------------------------ MODULE DeskNotices ------------------------------
(***************************************************************************)
(* What users are told: rating snapshots, watchlist changes, digests and   *)
(* alarms (backend/app/snapshots.py, backend/app/notifications.py), and    *)
(* the notices each user keeps, reads and loses.                           *)
(*                                                                         *)
(* A completed run writes its snapshots and then its notices, in worker    *)
(* threads and many transactions, each of which may fail; the scheduler's  *)
(* alarms are written beside it, and users change watchlists, preferences  *)
(* and read marks all the while (DeskWorkspace, which this module extends).*)
(***************************************************************************)
EXTENDS DeskWorkspace, Sequences

CONSTANTS Actions,   \* ratings
          Outcomes,  \* the ratings a run may come to, Unset for a name it does not rate
          Admins,    \* _admin_user_ids
          Keep,      \* KEEP_PER_USER
          MaxRuns,   \* bound on the completed runs
          MaxAlarms, \* bound on the failed scheduled runs
          MaxEvents, \* bound on runs, alarms and requests together
          Faults     \* "store": writing the snapshots fails; "unreadable": so does
                     \* reading a payload at boot; "notify": telling anybody; "restart"

ASSUME NoticesAssumption == /\ Keep \in Nat \ {0} /\ {MaxRuns, MaxAlarms, MaxEvents} \subseteq Nat
                            /\ Admins \subseteq Users /\ Unset \notin Actions
                            /\ Outcomes \subseteq [Tickers -> Actions \cup {Unset}]
                            /\ Faults \subseteq {"store", "unreadable", "notify", "restart"}

VARIABLES
  books,    \* books[r]: venue and ratings of completed run r
  shots,    \* runs whose rating snapshots are stored
  writer,   \* writer[w]: what the desk's and the scheduler's threads write
  alarms,   \* number of failed scheduled runs so far
  log,      \* log[u]: every notice ever created for u; its place is its id
  kept,     \* kept[u]: ids of the NotificationRows of u
  read,     \* read[u]: those with read_at
  reader,   \* reader[u]: what a mark_read of u has selected, NoIds if none runs
  owed,     \* history: <<user, ticker>> watched since the run completed
  cut,      \* history: users whose last pruning an error or a restart has cut off
  failed    \* history: runs whose snapshots could not be written, then or at a boot

desk    == <<books, shots, writer, alarms>>
inboxes == <<log, kept, read, reader>>
ghosts  == <<owed, cut, failed>>
vars    == <<workspace, desk, inboxes, ghosts>>

--------------------------------------------------------------------------------

Runs    == 1..Len(books)
Writers == {"desk", "scheduler"}
NoIds   == {0}

Notice(kind, run, ticker, old, new) ==
  [kind |-> kind, run |-> run, ticker |-> ticker, old |-> old, new |-> new]

(* todo: <<user, notice>> still to be created.  user: whose inbox is being  *)
(* pruned.  doomed: the rows selected for deletion.                         *)
Resting == [at |-> "idle", todo |-> {}, user |-> Unset, doomed |-> {}]

Pruning(w) == writer[w].user # Unset

Room == begun + Len(books) + alarms < MaxEvents

Init == /\ WorkspaceInit
        /\ books = <<>> /\ shots = {} /\ alarms = 0
        /\ writer = [w \in Writers |-> Resting]
        /\ log = [u \in Users |-> <<>>]
        /\ kept = [u \in Users |-> {}] /\ read = [u \in Users |-> {}]
        /\ reader = [u \in Users |-> NoIds]
        /\ owed = {} /\ cut = {} /\ failed = {}

--------------------------------------------------------------------------------
(* What a run compares. *)

(* ticker_history, newest first, without the run itself: the runs of the    *)
(* venue before r that have a stored rating of the ticker.  Mutant: only    *)
(* the newest rating is read, which is the run's own.                       *)
RatedOne(r, ticker) == {p \in shots : r \notin shots /\ books[p].venue = books[r].venue
                                                     /\ books[p].of[ticker] # Unset}
Rated(r, ticker) == {p \in shots \ {r} : /\ books[p].venue = books[r].venue
                                         /\ books[p].of[ticker] # Unset}

(* The rating a run is compared with.  Mutant: the oldest.                  *)
BeforeOldest(r, ticker) ==
  LET p == CHOOSE p \in Rated(r, ticker) : \A q \in Rated(r, ticker) : q >= p
  IN  books[p].of[ticker]
Before(r, ticker) ==
  LET p == CHOOSE p \in Rated(r, ticker) : \A q \in Rated(r, ticker) : q <= p
  IN  books[p].of[ticker]

(* _watchlist_changes: the names whose rating moved ... *)
Moved(r) == {k \in Tickers : /\ books[r].of[k] # Unset /\ Rated(r, k) # {}
                             /\ Before(r, k) # books[r].of[k]}

(* ... for everybody who watches them. *)
Changes(r) ==
  {<<x[1], Notice("watchlist_change", r, x[2], Before(r, x[2]), books[r].of[x[2]])>> :
     x \in {y \in Users \X Moved(r) : y[2] \in watch[y[1]][books[r].venue]}}

(* _digest: everybody whose stored preference is the run's venue. *)
Digests(r) == {<<u, Notice("digest", r, Unset, Unset, Unset)>> :
                 u \in {x \in Users : prefs[x].market = books[r].venue}}

--------------------------------------------------------------------------------
(* The desk's thread. *)

(* _execute: a run of venue v is stored as completed.  Its tickers are the  *)
(* universe at its start or those that the admin has named.                 *)
Complete(v, ratings) ==
  /\ writer["desk"].at = "idle" /\ Len(books) < MaxRuns /\ Room
  /\ books' = Append(books, [venue |-> v, of |-> ratings])
  /\ writer' = [writer EXCEPT !["desk"].at = "snapshotting"]
  /\ owed' = {x \in Users \X Tickers : x[2] \in watch[x[1]][v]}
  /\ UNCHANGED <<workspace, shots, alarms, inboxes, cut, failed>>

(* record_snapshots; an error is logged. *)
Snapshot ==
  /\ writer["desk"].at = "snapshotting"
  /\ \/ shots' = shots \cup {Len(books)} /\ UNCHANGED failed
     \/ "store" \in Faults /\ failed' = failed \cup {Len(books)} /\ UNCHANGED shots
  /\ writer' = [writer EXCEPT !["desk"].at = "comparing"]
  /\ UNCHANGED <<workspace, books, alarms, inboxes, owed, cut>>

(* notify_run_complete: the snapshots are read, then the watchers.          *)
Compare ==
  /\ writer["desk"].at = "comparing"
  /\ writer' = [writer EXCEPT !["desk"].at = "changes",
                              !["desk"].todo = Changes(Len(books))]
  /\ UNCHANGED <<workspace, books, shots, alarms, inboxes, ghosts>>

(* Everybody was told of the changes: the digest of a scheduled run.        *)
Digest(scheduled) ==
  /\ writer["desk"].at = "changes" /\ writer["desk"].todo = {} /\ ~Pruning("desk")
  /\ writer' = [writer EXCEPT !["desk"].at = "digests",
                  !["desk"].todo = IF scheduled THEN Digests(Len(books)) ELSE {}]
  /\ UNCHANGED <<workspace, books, shots, alarms, inboxes, ghosts>>

Rest(w) ==
  /\ writer[w].at \in {"digests", "alarms", "again"} /\ writer[w].todo = {} /\ ~Pruning(w)
  /\ writer' = [writer EXCEPT ![w] = Resting]
  /\ UNCHANGED <<workspace, books, shots, alarms, inboxes, ghosts>>

Bells(n) == {<<u, Notice("run_failed", n, Unset, Unset, Unset)>> : u \in Admins}

(* notify_run_failed, on behalf of the scheduler: in _run_when_idle, or in  *)
(* _drain's handler of an error.                                            *)
Alarm ==
  /\ writer["scheduler"].at = "idle" /\ alarms < MaxAlarms /\ Room
  /\ alarms' = alarms + 1
  /\ \E at \in {"alarms", "again"} :
       writer' = [writer EXCEPT !["scheduler"].at = at, !["scheduler"].todo = Bells(alarms')]
  /\ UNCHANGED <<workspace, books, shots, inboxes, ghosts>>

(* An error of a query or a commit, in _create and _prune too, ends the     *)
(* whole call: whom it has not told yet, it does not tell any more.         *)
(* _execute logs it and goes on.                                            *)
ChangesFail ==
  /\ "notify" \in Faults
  /\ writer["desk"].at \in {"comparing", "changes", "digests"}
  /\ writer' = [writer EXCEPT !["desk"] = Resting]
  /\ cut' = cut \cup ({writer["desk"].user} \ {Unset})
  /\ owed' = IF writer["desk"].at = "comparing" THEN {}
             ELSE owed \ {<<x[1], x[2].ticker>> : x \in writer["desk"].todo}
  /\ UNCHANGED <<workspace, books, shots, alarms, inboxes, failed>>

(* _drain begins the alarm again, for everybody, and only logs that it      *)
(* failed again.                                                            *)
AlarmFails ==
  /\ "notify" \in Faults /\ writer["scheduler"].at \in {"alarms", "again"}
  /\ writer' = [writer EXCEPT !["scheduler"] =
       IF writer["scheduler"].at = "again" THEN Resting
       ELSE [Resting EXCEPT !.at = "again", !.todo = Bells(alarms)]]
  /\ cut' = cut \cup ({writer["scheduler"].user} \ {Unset})
  /\ UNCHANGED <<workspace, books, shots, alarms, inboxes, owed, failed>>

--------------------------------------------------------------------------------
(* _create, in two transactions. *)

Create(w) ==
  /\ ~Pruning(w)
  /\ \E x \in writer[w].todo : LET u == x[1] IN
       /\ log' = [log EXCEPT ![u] = Append(@, x[2])]
       /\ kept' = [kept EXCEPT ![u] = @ \cup {Len(log'[u])}]
       /\ writer' = [writer EXCEPT ![w].todo = @ \ {x}, ![w].user = u]
  /\ UNCHANGED <<workspace, books, shots, alarms, read, reader, ghosts>>

(* rows[KEEP_PER_USER:], newest first.  Mutant: the newest are deleted.     *)
BeyondOldest(ids) == {i \in ids : Cardinality({j \in ids : j < i}) >= Keep}
Beyond(ids) == {i \in ids : Cardinality({j \in ids : j > i}) >= Keep}

(* _prune selects ... *)
SelectOld(w) ==
  /\ Pruning(w) /\ writer[w].doomed = {}
  /\ LET u == writer[w].user IN
       /\ writer' = IF Beyond(kept[u]) = {} THEN [writer EXCEPT ![w].user = Unset]
                    ELSE [writer EXCEPT ![w].doomed = Beyond(kept[u])]
       /\ cut' = cut \ {u}
  /\ UNCHANGED <<workspace, books, shots, alarms, inboxes, owed, failed>>

(* ... and deletes; what has gone meanwhile is only warned about. *)
DeleteOld(w) ==
  /\ writer[w].doomed # {}
  /\ LET u == writer[w].user IN
       /\ kept' = [kept EXCEPT ![u] = @ \ writer[w].doomed]
       /\ read' = [read EXCEPT ![u] = @ \ writer[w].doomed]
  /\ writer' = [writer EXCEPT ![w].user = Unset, ![w].doomed = {}]
  /\ UNCHANGED <<workspace, books, shots, alarms, log, reader, ghosts>>

--------------------------------------------------------------------------------
(* Readers. *)

(* mark_read selects what is unread, among the ids asked for if there are   *)
(* any: an empty list asks for all.                                         *)
SelectUnread(u, ids) ==
  /\ reader[u] = NoIds /\ begun < MaxRequests /\ Room
  /\ begun' = begun + 1
  /\ LET rows == (kept[u] \ read[u]) \cap (IF ids = {} THEN kept[u] ELSE ids) IN
       rows # {} /\ reader' = [reader EXCEPT ![u] = rows]
  /\ UNCHANGED <<tables, request, choice, wanted, mixed, desk, log, kept, read, ghosts>>

(* ... and updates it: if one of the rows was pruned meanwhile the update   *)
(* fails (StaleDataError) and none is marked.                               *)
MarkRead(u) ==
  /\ reader[u] # NoIds
  /\ read' = IF reader[u] \subseteq kept[u] THEN [read EXCEPT ![u] = @ \cup reader[u]] ELSE read
  /\ reader' = [reader EXCEPT ![u] = NoIds]
  /\ UNCHANGED <<workspace, desk, log, kept, ghosts>>

(* The process is killed and started again: threads and requests vanish,    *)
(* and the boot's backfill_snapshots writes the snapshots that are missing, *)
(* but for runs whose payload it cannot read.                               *)
Restart ==
  /\ "restart" \in Faults
  /\ failed # {} \/ \E w \in Writers : writer[w].at # "idle"
  /\ cut' = cut \cup {writer[w].user : w \in {x \in Writers : Pruning(x)}}
  /\ writer' = [w \in Writers |-> Resting]
  /\ request' = [t \in Threads |-> Free]
  /\ reader' = [u \in Users |-> NoIds]
  /\ failed' \in IF "unreadable" \in Faults THEN SUBSET (Runs \ shots) ELSE {{}}
  /\ shots' = Runs \ failed'
  /\ owed' = {}
  /\ UNCHANGED <<tables, begun, choice, wanted, mixed, books, alarms, log, kept, read>>

(* A user or admin changes the workspace meanwhile. *)
Choose == /\ WorkspaceNext /\ (begun' # begun => Room)
          /\ owed' = IF Len(books) = 0 THEN owed
                     ELSE {x \in owed : x[2] \in watch'[x[1]][books[Len(books)].venue]}
          /\ UNCHANGED <<desk, inboxes, cut, failed>>

Next == \/ \E v \in Venues, ratings \in Outcomes : Complete(v, ratings)
        \/ Snapshot \/ Compare \/ Alarm \/ ChangesFail \/ AlarmFails
        \/ \E scheduled \in BOOLEAN : Digest(scheduled)
        \/ \E w \in Writers : Create(w) \/ SelectOld(w) \/ DeleteOld(w) \/ Rest(w)
        \/ \E u \in Users : \/ MarkRead(u)
                            \/ \E ids \in SUBSET kept[u] : SelectUnread(u, ids)
        \/ Choose
        \/ Restart

Spec == Init /\ [][Next]_vars

--------------------------------------------------------------------------------

(* The run whose snapshots are being written. *)
Unwritten == {r \in Runs : r = Len(books) /\ writer["desk"].at = "snapshotting"}

TypeOK ==
  /\ WorkspaceTypeOK
  /\ Len(books) <= MaxRuns /\ shots \subseteq Runs /\ alarms \in 0..MaxAlarms
  /\ \A r \in Runs : books[r] \in [venue : Venues, of : Outcomes]
  /\ \A u \in Users : /\ read[u] \subseteq kept[u] /\ kept[u] \subseteq 1..Len(log[u])
                      /\ reader[u] \subseteq 0..Len(log[u])
  /\ owed \subseteq Users \X Tickers /\ cut \subseteq Users
  /\ failed = Runs \ (shots \cup Unwritten)

(* p is the last run of the venue before r that rated the ticker, leaving   *)
(* out those whose snapshots could not be written.                          *)
Follows(p, r, ticker) ==
  LET Rates(q) == /\ books[q].venue = books[r].venue /\ books[q].of[ticker] # Unset
                  /\ q \notin failed
  IN  p < r /\ Rates(p) /\ \A q \in (p + 1)..(r - 1) : ~Rates(q)

(* "Your watchlist name moved from {old} to {new} after the latest desk     *)
(* run": every such notice tells a move that happened, between the run it   *)
(* names and the last one before it that rated the ticker in that venue,    *)
(* and tells it to a user once, across runs of other names and venues,      *)
(* errors and restarts.  Only where the snapshots of a run between the two  *)
(* could not be written may the move be older than the latest run.          *)
NoticesTrue == [][\A u \in Users : Len(log'[u]) > Len(log[u]) =>
  LET n == log'[u][Len(log'[u])] IN n.kind = "watchlist_change" =>
    /\ n.old # n.new /\ books[n.run].of[n.ticker] = n.new
    /\ \E p \in Runs : Follows(p, n.run, n.ticker) /\ books[p].of[n.ticker] = n.old
    /\ \A i \in 1..Len(log[u]) : <<log[u][i].kind, log[u][i].run, log[u][i].ticker>>
                                  # <<n.kind, n.run, n.ticker>>]_vars

(* When the desk has no more to write, everybody who watched a name while   *)
(* the run was told about has a notice if the name moved, whether the run's *)
(* own snapshots were written or not, unless a restart or an error of the   *)
(* notices themselves came first.                                           *)
WatchersTold == Len(books) > 0 /\ writer["desk"].at = "idle" => LET r == Len(books) IN
  \A x \in owed : (\E p \in Runs : /\ Follows(p, r, x[2]) /\ books[r].of[x[2]] # Unset
                                   /\ books[p].of[x[2]] # books[r].of[x[2]])
    => \E i \in 1..Len(log[x[1]]) : LET n == log[x[1]][i] IN
         n.kind = "watchlist_change" /\ n.run = r /\ n.ticker = x[2]

(* A user keeps the newest notices, at least Keep of them if there ever     *)
(* were as many, and no more once nobody writes to that user, whatever two  *)
(* writers create and prune at the same time; only an error or a restart    *)
(* between the two leaves more, until the next notice.                      *)
NewestKept == \A u \in Users : LET n == Len(log[u])  k == Cardinality(kept[u]) IN
  /\ kept[u] = (n - k + 1)..n
  /\ k >= Keep \/ k = n
  /\ u \notin cut /\ (\A w \in Writers : writer[w].user # u) => k <= Keep
================================================================================
