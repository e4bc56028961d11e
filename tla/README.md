# A TLA+ development of the equity research desk

The repository is a research desk.  A FastAPI process (`src/backend/app`) runs a
pipeline of analysts over the tickers of one venue at a time, applies a
deterministic policy to what they propose, stores the resulting *book* and
serves it; a Next.js frontend (`src/frontend`) shows it.  This directory holds
TLA+ modules that model that program, TLC configurations that check them on
small instances, and TLAPS proofs of what matters most, for every value of the
constants.

`tlc -config <cfg> <MC module>` repeats a run, `tlapm <module>` a proof.
`PROJECT.json` lists the components, the runs, the code each definition stands
for (`map`), one mutant for each checked property, the hazards and the theorems.

## 1. The system

Everything the backend does happens in one process: one event loop, the worker
threads of `asyncio.to_thread`, and the threads in which FastAPI runs its
synchronous routes.  They share one SQL database, which survives the process.

| Part | State | Operations | Interacts with | What would make it correct |
| --- | --- | --- | --- | --- |
| **Run orchestrator** `agents/orchestrator.py` | `_active_run_id`, a lock, one task per run, the run's row | `start`, `_execute`, `_persist`, `_emit`, `shutdown`, `latest`, `repolicy` | bus, store, snapshots, notifications, policy; worker threads | one run at a time; every run is settled, across failure, shutdown and crash; an outcome is final; a stream never runs ahead of the table |
| **Run table and housekeeping** `store.py`, `db.py` | `AnalysisRunRow` | `recover_stale_runs`, `prune_run_history` | orchestrator, boot | the limit is kept, the active row is never deleted, a venue's book does not go blank |
| **Event bus and stream** `RunBus`, `api.run_events` | histories, listener queues, closed marks | `open`, `publish`, `close`, `_evict`, `subscribe`, `unsubscribe`; the response generator | orchestrator; browsers that come and vanish | every listener gets the whole log of its run, once and in order, then the end; nothing is leaked |
| **Scheduler** `scheduler.py` | APScheduler's jobs, a queue, one worker | `start`, `reload`, `enqueue`, `_drain`, `_run_when_idle` | orchestrator, schedule store, admin route | fires are handled once and in order, one run each; jobs are those of the stored schedule; what is recorded is true |
| **Schedule store and calendar** `schedule.py`, `store.py` | two JSON settings rows | parse, save, `record_schedule_fire`, `is_closed`, `upcoming_fires`, `next_weekday_at` | scheduler, admin page | the fires announced are the fires that will run |
| **Policy and books** `policy.py`, `repolicy`, `diff_recommendations` | none: a pure loop with counters | `apply_policy`, view a run under another appetite, diff two books | orchestrator, book routes | floors and caps hold; no name is held back without need; a view is the book that appetite would have made |
| **Snapshots and track record** `snapshots.py` | `RatingSnapshotRow` | record, backfill, history, `track_record` | orchestrator, pruning, boot, notifications | each completed run has its snapshots, no other has any |
| **Notifications** `notifications.py` | `NotificationRow`, at most 200 per user | watchlist changes, digest, failed run, mark read | orchestrator, scheduler, workspace | one notice for each change of a watched name; the newest 200 stay |
| **Application life cycle** `main.py` | the singletons | `lifespan`: migrate, recover, schedule; shut down | all of the above | no row is left running |
| **Accounts, sign-in, roles** `auth.py`, `passwords.py`, `store.py`, `api.py` | users, local accounts, failed logins | register, log in, role, disable, password | every mutating route | there is always an admin; the lockout counts every failure |
| **Workspace** `store.py`, `api.py` | preferences, watchlist, universe, desk defaults | get, set, add, remove, replace | frontend, notifications | the last choice of a user is what is stored |
| **Data hub** `ingest.py` | connection limits, EDGAR map, vendor call count | load a universe: adapters, retries, demo fallback | vendors, orchestrator | one vendor's failure costs data, not the run |
| **LLM client** `agents/llm.py` | calls and tokens of the run | `complete_json` with a cap, provider protocols | chief and news analyst | the cap holds; a failure falls back to the heuristic |
| **Analysts, scoring, chief** `agents/` | none | scores and texts | data hub, LLM | scores in range |
| **HTTP API** `api.py` | none | reads, mutations, 409 with the run's id | everything | reads show what is stored |
| **Rate limiting, audit** | a moving window; rows | count, append | API | |
| **Frontend: desk board and workspace** `DeskBoard.tsx`, `WorkspaceProvider.tsx`, `lib/api.ts` | book, live event, venue, appetite, watchlist | follow a run, refresh, choose, toggle | API, event stream | what is shown belongs to the venue and appetite chosen |
| **Frontend: sign-in, pages**; observability; demo data, migrations, deployment | none of their own | | | |

### What is hard here

- *Threads outlive their task.*  Cancelling a run drops a job no thread has
  picked up, but never stops a running one: it commits later, on its own, while
  the handler stores `failed`, closes the stream and prunes.
- *The desk is free before the old run is done.*  `_active_run_id` is cleared
  before the stream is closed and the history pruned; the next run executes
  while the last one still selects and deletes rows.
- *Crashes and restarts* between any two writes of a run; a shutdown that hits a
  task before its first line, in its handler or while it prunes.
- *Listeners* that come before, during and after a run, or vanish before their
  response is read; histories that are evicted under them.
- *A worker that polls.*  Between two looks of the scheduler at the desk others
  start runs, runs end and rows are pruned; two admins save schedules at once.
- *A loop with two caps, five floors and ties*, applied again for each viewer.
- *Requests side by side in threads.*  A route is several short transactions;
  what one has read another may have changed before it writes: counts of admins
  and of failed logins, mirrored roles, limits, universes, read marks.
- *Vendors and models* that refuse, ask to come back, time out or answer what
  nobody asked for, under one gather, a shared map with a lock and a cap.
- *Late answers in the browser* for a venue or appetite no longer chosen.

`PROJECT.json` lists each of these under `hazards` at the line where it bites.

## 2. The plan and the modules

Every module of the plan is here except the last.

| Module | Role |
| --- | --- |
| `RunLedger` | abstract: what the desk promises about its table of runs |
| `DeskOrchestrator` | the life of runs, their rows, threads and process; **implements `RunLedger`** |
| `DeskOrchestratorProofs` | its invariants, type correctness, safety, the bound on the history, outcomes that stay, and the refinement |
| `RunFeed` | abstract: what a reader of a run's events is promised |
| `RunBus` | the bus and the event streams; **implements `RunFeed`** |
| `RunBusProofs` | its invariant, safety and the refinement |
| `DeskScheduler` | jobs, queue, worker, saves, and the desk as the scheduler sees it |
| `DeskSchedulerProofs` | the line of fires, one run per fire, the jobs of the stored schedule, what is recorded and notified of a fire |
| `DeskPolicy` | `apply_policy` pass by pass, views and diffs |
| `DeskPolicyProofs` | the loop's invariant, floors and caps, no name skipped; exact views, tighter appetites, complete changes |
| `DeskAccounts` | registration, sign-in, lockout, roles, passwords, the mirror and the tokens, as overlapping transactions |
| `DeskAccountsProofs` | what a count, a guard or a registration in hand is sure of; the four properties |
| `DeskWorkspace` | preferences, watchlists, universes, as overlapping transactions |
| `DeskNotices` | snapshots, watchlist changes, digests, alarms, pruning and read marks; **composed with `DeskWorkspace`**, which it extends |
| `DeskNoticesProofs` | the invariants of the workspace and of the notices, and all their properties |
| `DataHub` | one load of a universe: semaphore, retries, adapters, the ticker map |
| `DeskScoring` | the scores and the baseline rating as functions of the evidence |
| `DeskPipeline` | a run from load to book; **composes `DataHub`, `DeskScoring` and the LLM client**, and extends both |
| `DeskPipelineProofs` | ranges and monotonicity of the scores for all evidence; the invariant of hub, run and agents |
| `DeskCalendar` | weekdays, closed days and the fires announced |
| `TrackRecord` | the horizon a return is filed under |
| `DeskDateProofs` | the theorems about both |
| `MC...` | definitions the configurations need |
| *`DeskClient`* | not written: the browser following, refreshing and choosing against late answers |

`DeskOrchestrator`, `RunBus` and `DeskScheduler` each look at one part in
detail and reduce the others to what it sees of them: the orchestrator keeps of
the bus what it has published and closed, the bus keeps of the desk which run is
active, the scheduler keeps of both whether the desk is busy and how a run
ended.  Composing them step for step would multiply their states without adding
an interaction, since they meet only in those variables.  Where parts read each
other's tables in the middle of their steps they are composed: notices are
written from watchlists and preferences that users change meanwhile, and what a
run fails of depends on loading, scoring and model together.

## 3. The modules and the code

**DeskOrchestrator.**  Runs are numbered by their start, so the order of
`started_at` is the order of numbers.  `pc[r]` says at which await of
`_execute` the task of run `r` is: `created` (task made, not begun), `emitting`,
`working`, `saving`, `snapshotting`, `notifying`, `announcing` in the `try`
block, `failing` and `reporting` in `except Exception`, `cancelled` in
`except CancelledError`, `unwinding` when a cancellation hits a handler,
`pruning` in `finally`.  `wait[r]` is the job it submitted to a thread.  A
thread takes the job (`ThreadBegins`; the pruning job selects its rows here),
commits or fails; `CancelAll` moves a running job to `orphans`, where it commits
later.  `Start` is one action because nothing awaits between its test and the
creation of the task.  `Boot` is `lifespan` up to its `yield`: backfill,
`recover_stale_runs`, a new orchestrator.  `status`, `stage` and `venue` are
columns of the row, `snapshots` the runs with rating snapshots, `told` and
`closed` what the bus has said.  `RunLedger` knows only rows and the runs that
something may still write.

**RunBus.**  `order` and `history` are `_history` (a dictionary keeps insertion
order), `queues` and `closed` the fields of that name; `queue[l]` is what waits
in the `asyncio.Queue` of request `l`.  Each method runs on the loop without
suspending, so each is one action, and so is each turn of the generator of
`run_events`.  `log` and `late` are history variables: what was ever published,
and who asked for a run the bus did not know.  `RunFeed` keeps apart who was told
the end (`ended`, mapped to the streams whose end mark was sent: `Told`) and who
went away or was cut off (`gone`, `Gone`); only `Finish`, which asks that
everything was read, may tell the end.

**DeskScheduler.**  `times`, `enabled`, `closed`, `market` and `appetite` are the
settings rows (`closed[v]`: today is one of the venue's closed dates), `jobs` and
`interval` the jobs APScheduler holds, `queue` and `worker` the drain task,
`recorded` the schedule state, `alarms[n]` how often fire `n` was notified as
failed.  A save is `Save`, `Clear`, `Read`, `AddJobs`: the route stores the
schedule, and `reload` removes the jobs, reads the rows and adds jobs.  A read
that fails after the removal ends the reload with no jobs at all.
`Dequeue`, `Proceed` and `Conclude` are what the worker does from one await to
the next.

**DeskPolicy.**  `ranked`, `spent`, `taken` are the local variables of
`apply_policy`, `verdict` the actions decided so far; `Consider` is one pass of
the loop's body, in the order of the code's tests.  `task` says for whom it
works: a run (`Propose`, then `Deliver` stores raw output and book) or a viewer
(`Look`, which answers at once when the run has no raw output or already has
that appetite).  `Diff` is `diff_recommendations`.

**DeskAccounts.**  `account`, `mirror` and `secret` are the tables of local
accounts, of users (the role only) and the setting of the signing secret;
`token[u]` is the secret user `u`'s token was signed with.  `request[t]` is what
server thread `t` is doing: each action from one `at` to the next is one session
of `store.py`, a read or a write, in the order in which the route of `api.py`
calls them: `Count`, `Enrol`, `Insert` for a registration, `Load`, `Guard`,
`Store`, `Audit` for an edit by an admin, `Load` and `Store` for a login that
fails or clears the count, `Mint`, `Generate`, `Mirror` for what a session
begins with.  A commit after an outdated read writes what the session computed
from that read.  `AdminEmails` are the names `SMP_ADMIN_EMAILS` lists as
`<name>@local`, which `RoleFor` makes admins whatever their account says.
`wrong` counts wrong passwords, `overtaken` notes where a commit rested on a read
that another request had overtaken, `raced` which requests had the role of their
user set by another meanwhile, and `blurred` whose role such a request wrote
last; nothing but the properties looks at them.

**DeskWorkspace and DeskNotices.**  `prefs`, `watch` and `universe` are the
tables; the requests are threads as above (`PutPreferences` with `LoadPrefs` and
`StorePrefs`, an ORM session writing the columns that it changed; `Watch` with
its check and `Add`; `Seed` and `Replace` of a universe).  A completed run
(`Complete`) is followed by its thread through `Snapshot`, `Compare`, one
`Create` per notice, each with `SelectOld` and `DeleteOld`, and `Digest`; the
scheduler's `Alarm` writes beside it.  `ChangesFail` is any error of
`notify_run_complete`, which `_execute` logs, so that whoever was not told yet is
not told; `AlarmFails` is one of `notify_run_failed`, which `_drain` begins again
once, for everybody.  `failed` are the runs whose snapshots could not be written,
then or by the backfill of a boot.  `log[u]` is every notice ever created for
`u`, a notice's place its id; `kept` and `read` are the rows there are and those
with a read mark, and `reader` is a `mark_read` between its query and its commit.

**DataHub and DeskPipeline.**  `feed[t][f]` is the coroutine of one feed of one
ticker: waiting for the semaphore, for the lock of EDGAR's ticker map, asking
its `source`-th vendor for the `attempt`-th time, done, or raised.  `Answer`
lets an adapter make any of the things of an answer that its code can make of
it, an exception where a field's type is not checked included; `LoadFails` is
the gather that raises, after which the coroutine that holds the lock goes on by
itself (`stray`).  `stage` and `todo` are the stage of `_execute` and the
tickers it has left; `Asks` says which analyst asks the model about which
ticker, `calls` is the client's counter.  A call of a hosted model is one step
(`Complete`); a cloud agent is created, streamed or polled, and deleted in the
`finally` (`Create`, `Stream`, `Poll`, `Delete`).  `Shutdown` cancels the run at
any of these points.

**DeskScoring, DeskCalendar, TrackRecord** hold no state: they are the scores
and the baseline rating in fractions of 10000, the next fire of a weekday job
and the fires announced on days and seconds of local time, and the loop that
files a return under a horizon.

## 4. What is checked

| Run | Instance | What it shows |
| --- | --- | --- |
| `desk_faults` | all seven stages, two runs, limit 1; agent, database, shutdown, crash anywhere | one run executes at a time (`SingleDesk`); pruning never takes the active row (`ActiveRowKept`); snapshots have rows; the stream is never ahead of the table (`StreamBehindStore`); the table keeps `RunLedger` (`LedgerSpec`) |
| `desk_steady` | three runs, limit 2, fairness; every fault but the database's | a closed stream means a stored outcome; the limit holds under overlapping prunings; outcomes are final and books move forward (`HistoryStands`); every run is settled, the desk comes free, every completed run is snapshotted |
| `bus_streams` | two runs of up to two events, one history kept, two requests, restarts | streams are complete, ordered and end exactly when the run is over; nothing is leaked; `RunFeed` is implemented; every stream ends |
| `schedule_faults` | two fires, an admin's run, one save or closed day, database errors (in a reload too), restarts | each fire once, in order; at most one run each; none waits for ever |
| `schedule_work` | two venues, one fire, an admin's run, two edits, restarts, pruning | records and alarms agree with the runs; saves that do not overlap leave exactly the stored jobs |
| `policy_books` | eight names (a tie in conviction, a missing sector, one below the venue's price, sectors that fill), two runs, every appetite | floors and caps at every pass; no name held back without need; a view is exact; tighter takes no more; every move between two books told once |
| `accounts` | two names, one of them in `SMP_ADMIN_EMAILS`, two threads, four requests, a lockout after two, restarts | an admin remains; the lockout counts; tokens verify; each exactly up to the overlap it names; the mirror holds the account's role or `role_for`'s, but for a name last written by a request that another one's change of role has run into |
| `workspace` | one user who is the admin, two tickers, two venues, two threads, three requests, runs and alarms in all, one notice kept; failing snapshots, unreadable books, failing notices, restarts | no choice undoes another; the watchlist limit is passed by no more than the other threads; a universe is never lost; every move of a watched name between runs whose snapshots were written is told once, unless the telling itself failed; the newest notices stay |
| `pipeline` | two runs of two tickers, filings and candles, one retry, a cap of 2, no model, hosted model or cloud agents, shutdowns | a run fails only of malformed answers; the cap is kept and used; one coroutine asks for the ticker map, and what is known is kept; no cloud agent is left behind; every run ends |

Three further runs show where the code disagrees with what the repository says:
`desk_book_blank`, `schedule_two_saves`, `book_unreadable` (section 7).  Each
property of a passing run has a mutant in `PROJECT.json`, a plausible bug in one
definition, under which TLC finds the property violated.  Each module with state
has its type invariant, `TypeOK` or a name ending in it; the orchestrator's, the
bus's, the policy's, the pipeline's and the notices' follow from proved
invariants, and any of them can be added to a configuration of its module.

**Bounds.**  `MaxRuns`, `MaxEvents`, `MaxFires`, `MaxManual`, `MaxEdits`,
`MaxRequests`, `MaxAlarms` and `MaxLost` end the otherwise unbounded growth;
`Keep`, `MaxHistory`, `LOCKOUT_AFTER`, `WatchLimit`, `MaxUniverse` and `Cap` are
the code's limits made small.  Two runs and a limit of one reach every
interleaving of a run with its predecessor's pruning, and three runs with a
limit of two let two prunings overlap a third run; no variable relates more than
two runs otherwise.  Seven stages are used where stages matter, and two (a first
and a last) where only the order of the writes after them does.  A history of
one and two runs is the smallest bus in which an open evicts a closed run that
is still listened to.  In the universe of `policy_books` each floor is missed by
some variant, a name is demoted by a full sector and, under some mix, by a full
book, with better and worse names on both sides.  Two threads are what it takes
to overtake a read.  `accounts` begins with an empty database or with any accounts
in good order, so four requests are two edits or demotions at once with a
sign-in on either side, or a lockout with another one's beside it.  In `workspace`
one kept notice and two writers make every pruning meet another, and three runs
are what a move across a run without snapshots takes.  In `pipeline` a
concurrency of two lets both tickers want the map, filings and candles are a
feed with a shared map and one with a single vendor, and the evidence is a name
nothing is known of, one with every figure at its best and one at its worst; two
runs make the map and the counter outlive a run.  The proofs need none of these
bounds.

Deadlock is checked in `policy_books`, where something can always be looked at.
Elsewhere it is not: when the bounded runs, requests or fires are used up the
desk may be idle for good, and no admin has to act.

**Fairness.**  `DeskOrchestrator`: threads and tasks that can move do (the loop
and the executor serve everything in turn, and every vendor or model call has a
timeout), the process is started again (`docker-compose.prod.yml` says
`restart: unless-stopped`), and a server that stops gets to its end.  Nothing is
assumed of starts, shutdowns or crashes, and since a crash may come at any time
a bounded number of runs, not of crashes, makes liveness meaningful: a run is
settled by its task or by the boot that follows.  `RunBus`: the desk closes its
run (which `DeskComesFree` shows of the orchestrator) and the server serves
every connection.  `DeskScheduler`: the worker polls and runs end; no job ever
has to fire.  `DeskPipeline`: a step of the run that can be taken is (every
request has a timeout), and every retry is counted; the sleep a vendor asks for
with `Retry-After` (`ingest.py:145`) has no bound in the code, so `RunConcludes`
is as good as the vendors' numbers there.  All fairness is weak.

## 5. What is proved

All of it holds for every number of runs, stages, listeners, events, fires,
accounts, threads, requests, users, tickers, vendors and calls, every limit,
every set of profiles, every list of proposals and all evidence, from the named
assumptions on constants only (`OrchestratorAssumption`, `BusAssumption`,
`SchedulerAssumption`, `PolicyAssumption`, `NamesAssumption`, `AccountsAssumption`,
`NoneAssumption`, `WorkspaceAssumption`, `NoticesAssumption`, `FeedsAssumption`,
`HubAssumption`, `PipelineAssumption`).  Those of the workspace say that there is
a thread to serve requests and finitely many of them and of tickers, and that
`Unset` is nobody's name; the others say which numbers are natural and which sets
lie in which.

- **DeskOrchestratorProofs.**  `Invariance`, `TypeCorrect`, `OneDesk`,
  `ActiveKept`, `SnapshotsKept`.  That the active row is kept is not inductive:
  it needs that only the newest run is active, that what a pruning has selected
  is older than the newest row (`StaleIsOld`: a row with `Keep` newer ones is
  not the newest, and `Keep` is not 0), and that this stays so when a run starts
  between the selection and the deletion.  `DeskKeepsLedger` maps the writers of
  the ledger to the tasks and threads that may still write a row and shows every
  step to be a ledger step or a stutter.  `StreamIsBehind`: the step a
  task has reached bounds what its stream was told, a stage whose job is done is
  in the row, and what an orphaned thread writes late is not behind (`StreamOf`).
  Three more need a database that works (`"store" \notin Faults`, the hypothesis
  of each; `desk_faults` has the other case).  `ClosedIsSettled` says at each await whether the
  row has its outcome (`SettledInv`).  `HistoryIsBounded`: what the newest run's
  pruning has selected leaves no more than `Keep` rows, whoever deletes them first
  (`KeptInv`; `SparedFit` counts the rows a selection spares).  `HistoryIsKept`: a
  settled row changes only when it is pruned, and a venue's latest book only to a
  newer one.
- **RunBusProofs.**  `NothingMissed` says that what was sent, followed by what
  waits, is the run's log and, once it is over, the end.  It needs that a
  history is the log while it is kept, that what is known and not active is
  closed, and that a request in progress is registered exactly with the active
  run.  `BusKeepsFeed` is the refinement: taking from the replayed queue is
  reading the log at the next position, an end mark may be sent only where the
  whole log was, and a stream that is cut off counts as gone, never as told.
- **DeskSchedulerProofs.**  `EachFireOnce` is an equation between sequences:
  what was handled, what is in hand and what waits are the fires since the boot.
  No step can be followed through an equation of concatenations, so `InOrder`
  says the same by position, one statement for each of the three parts, and
  `InOrderIsEachOnce` leads back.  `OneRunPerFire` is not inductive alone: a
  fire still in the queue might have a run already.  `NoneAhead` excludes that.
  `JobsAreStored` assumes `OneSaver`, which `schedule_two_saves` shows to be
  needed, and a database that works, since a failing read leaves no jobs; its invariant says what each step of a save has left behind.
  `EntriesAreRight` and `FailuresAreNotified` assume, like the properties, a
  database that works.  By `RowsInv` the running row is the active one, and
  `ReportsInv` says that an entry with a run names that of a fire already handled,
  with its status, that a failure entered was notified, and that no fire still to
  be handled has an alarm and none has two (`EntryOf`, `AlarmOf`).
- **DeskPolicyProofs.**  The two sorts are shown to be rearrangements into order
  from what `Sorted` says alone (`SortedIsInOrder`: counting what is ahead is an
  injection of the positions into themselves, hence onto).  The loop's invariant
  adds to floors and caps that the counters are those of the names taken and
  that whatever cleared the floors and was not taken met a full cap (`Beaten`);
  with the order of the ranking and the caps, `NoneSkipped` follows by counting.
  `ChangesAreComplete` needs only that ranks separate the actions.  The other two
  compare whole executions of the loop, so `Made` keeps of every book the proposal
  it came from and the verdicts (`Follows`, `Filled`).  `ViewsAreExact`: two lists
  of verdicts that follow the loop have no first difference, since a verdict
  depends on the earlier ones only; the first difference comes from a
  well-founded order, not from an induction.  `TighterAlwaysShrinks`: if the
  looser book is not full, each sector of it is full or leaves no clearing name
  out, so the names of the tighter book inject into its names sector by sector.
  It needs that a name is proposed once (`NamesAssumption`: `ingest.py:48` loads a
  ticker once and the chief rates each once); with a name twice the number of
  names would not be the number of verdicts.
- **DeskAccountsProofs.**  `AnAdminRemains` rests on what a request in hand is
  sure of: a change that takes away an admin has passed the guard, whose count
  held another, and unless the roles have changed since, that one is still
  there; a row is inserted for a user only after an account was seen.  The
  tokens and the lockout each have an invariant of their own about the reads in
  hand, so that a commit either agrees with its read or is noted in `overtaken`;
  for the mirror the invariant is that a request no other has raced still carries
  the account's role or `RoleFor`'s.
- **DeskNoticesProofs.**  The theorems are about `DeskNotices`' specification, so
  the workspace changes under the writers' hands.  `WorkspaceInv` needs that a
  request names what it is about and that a row of preferences it has found is
  still there; the columns it then writes are exactly its news (`UpdatedIs`),
  which is why `ChoicesStored` stands.  `WatchBounded` counts the requests that
  have passed the check together with the names.  `NewestKept` is not inductive
  with two writers: what one has selected for deletion the other may have
  deleted already, and the interval may have grown at its end.  `KeptInv` says
  that an inbox is an interval (`Newest`), that what is doomed lies behind `Keep`
  newer rows (`DoomedOld`), and that too many rows have somebody who will still
  delete them, or a restart to blame (`Settled`).  `NoticesTrue` and
  `WatchersTold` need the same for what the desk still has to create: each such
  notice is true and in no log yet, no two are the same (`TodoInv`), and a
  watcher of a name that moved is told, about to be told or not yet compared for
  (`OwedInv`).  Both speak of the last run that rated the name among those not in
  `failed`, so they also need that a run has its snapshots, is writing them or is
  in `failed`.  That the rating `CHOOSE`n is the last one needs a greatest
  element of a set of runs (`LastOf`), which comes from the well-founded order of
  the finite sets instead of an induction.
- **DeskPipelineProofs.**  Scores are within 0..1 whatever the vendors send, so
  pydantic never refuses a score card (`CardAlwaysFits`); so is the conviction
  of the baseline, which needs a case by case bound as it falls with the
  composite when the risk is high (`RatingAlwaysFits`); and a lower composite or
  a higher risk never rates better (`WorseNeverRatesBetter`).  The run on top of
  them has `PipelineInv`: for the hub, that a feed has a vendor to go on to, that
  whatever raised or came out of range has an odd answer behind it
  (`RaisedIsOdd`), and that who asks for the ticker map holds its lock
  (`MapLocked`); for the run, that the count of calls is what it has spent of the
  cap (`CapHolds`), that a call belongs to the analyst whose turn it is
  (`CallHolds`), and that the agents in the cloud are those lost and the one in
  use (`AgentsDeleted`).  `CausesAreKnown` is where the scores are needed: a
  score that left its range would be a failure without a cause.
- **DeskDateProofs.**  The next fire is ahead, on a weekday, at its time
  (`NextIsAhead`), and the first such (`NextIsFirst`).  What is announced for
  today will run (`TodayIsKept`); what is announced for later days need not, and
  what is not announced may (`LaterDaysAreNot`, section 7).  `OnlyTheShortest`
  of the track record: section 7.

**Only model-checked:** liveness (`DeskComesFree`, `EveryRunSettles`,
`EveryBookSnapshotted`, `EveryFireHandled`, `EveryStreamEnds`, `RunConcludes`):
fairness and ENABLED are out of the prover's reach.  Every invariant and action
property of a passing run is stated by a theorem.  Nothing here needs induction
over data or a `RECURSIVE` operator.

## 6. What the models leave out

*DeskOrchestrator.*  An update of a row is one step although the code reads the
row first: the columns written never depend on the old ones.  The payload's
status equals the row's.  Start times are strictly ordered.  `Boot` is one
step: each of its parts repeats harmlessly.  Where a stage has no await, a
cancellation hits the next `_emit` before its job begins, which leaves the same
state as one at the stage.  The lock of `start` is not modelled: nothing
suspends while it is held.

*RunBus.*  Heartbeats change nothing.  A listener of an evicted run keeps its
queue and gets what is in it, as in the code.

*DeskScheduler.*  The loop of `reload` that adds the jobs is one step.  A fire
comes while its job is registered; a fire that falls due while the process is
down, or between the removal and the addition of jobs in a reload, is one that
does not come.  The retry after `RunInProgressError` cannot be reached from one
event loop.  APScheduler's misfire and coalescing rules are external, and the
parsing of a schedule is left out.

*DeskPolicy.*  One application at a time: the code is pure and copies what it
works on.  Tickers are numbered alphabetically, scores are hundredths, texts
and notes are left out.  `min_price` of a profile is not used by the code, which
takes the venue's, so a name is just `cheap` or not.  `TighterShrinks` is about
the number of names: a tighter appetite may take a name a looser one does not,
when the floors remove a better one of the same sector.

*DeskAccounts.*  Passwords are right or wrong and tokens carry their secret;
hashes, expiry and formats are left out.  Time is `Unlock`: a lock runs out.
A secret given by the environment and Google sign-in, which have no accounts to
keep, are left out, and so is the rate limit in front of the routes.

*DeskWorkspace, DeskNotices.*  Tickers that an admin may ask for are clean.  A
notice's text and payload are its fields here.  An error of the database is
modelled where the code goes on after it: in `record_snapshots`, anywhere in
`notify_run_complete` and `notify_run_failed`, and in the update of a row that is
gone, which SQLAlchemy refuses, in `MarkRead`; an error of a request's own
transaction changes nothing.  The backfill of a boot is one step, and an error of
the database at boot, which stops it, is not modelled.  Runs and their snapshots
are not deleted here (`prune_run_history`, `store.py:261`, is an action of
`DeskOrchestrator`): a comparison whose earlier run was pruned has nothing to
compare with.  Preferences start as those of a new workspace or of one that has
been used.

*DataHub, DeskPipeline.*  Time passes in `Tick` only for the age of the ticker
map, and waits between tries are part of a try.  The counters of vendor calls
and tokens and the cached clients are left out.  Every kind of feed is
translated; the run follows two.  Divisions of the scores are rounded down.

*DeskCalendar.*  Local time without the hours that a change of the clock skips
or repeats.  *TrackRecord.*  Means and hit rates are arithmetic over the buckets.

### Not modelled

The frontend: the state of React components and the order of fetches (its
hazards are listed; `DeskClient` would be their module), its session, pages and
forms.  Rate limiting is a library's moving window; audit rows appear only where
an edit of an account writes one.  Observability logs and counts.  Demo data,
catalogues of markets, migrations and deployment have no behaviour of the
running system.  The read-only routes format what is stored, and the wording of
analyses and notices is nobody's state.

## 7. Where the code and its documents disagree

With a run that shows it:

1. `desk_book_blank`.  `prune_run_history` keeps the newest `run_history_limit`
   runs of all venues and outcomes, so enough later runs delete a venue's only
   completed book; `src/README.md:185` says a failed run never blanks the desk.
2. `schedule_two_saves`.  Two overlapping saves can leave a job that is not in
   the stored schedule; `scheduler.py:37` says the jobs are replaced from it.
3. `book_unreadable`.  The chief puts the model's draft over the baseline with
   `model_copy`, which validates nothing; with a blank thesis the completed book
   is refused by `domain.py:171`'s "narrative fields must not be empty" when it
   is read back, and is shown without recommendations.

Met while modelling, stated by a theorem or by the model alone:

4. `track_record` goes through its horizons from the shortest and stops at the
   first that fits (`snapshots.py:194`), so the columns for 90 and 180 days are
   always empty (`OnlyTheShortest`).
5. `upcoming_fires` looks at whether the venue is closed today
   (`schedule.py:181`) for a fire of a later day (`LaterDaysAreNot`).
6. A cancellation after the completed result is stored makes the handler store
   `failed` over it and leaves its rating snapshots, which `db.py:104` describes
   as those of a completed run; `RunLedger` therefore lets a writer settle its run
   more than once.
7. A scheduled run uses the appetite of the environment, not the admin's
   default, which the admin page calls the "Policy applied when the desk runs."
8. The last-admin guard, the lockout count, the mirrored role and the first
   secret are each right up to one overlap of two requests; `overtaken` and
   `blurred` in `DeskAccounts`' properties say which.
9. For a name that `SMP_ADMIN_EMAILS` lists as `<name>@local` a sign-in answers
   and mirrors the account's role (`api.py:310-319`), "user", while every request
   with the token it hands out is an admin's and mirrors "admin"
   (`auth.py:89-90`).  `MirrorAgrees` therefore allows either.
10. A run whose snapshots could not be written is invisible to
   `_watchlist_changes` (`notifications.py:114`).  A name rated accumulate, avoid
   without snapshots, avoid is told a second time to have moved "from accumulate
   to avoid after the latest desk run" (`notifications.py:139`), though the latest
   run changed nothing; with accumulate as the third rating the move back is not
   told.  `NoticesTrue` and `WatchersTold` leave such runs out, and so do not
   claim otherwise.
11. `notify_run_complete` tells one user after the other, and the first error ends
   it for all that follow (`orchestrator.py:350`); a failed alarm is begun again
   for every admin, also for those who already have it (`scheduler.py:105`).
12. `reload` removes all jobs before it reads the schedule (`scheduler.py:40`): if
   the read fails there are none until the next save or boot.
