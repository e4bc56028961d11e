--------------------------- MODULE DeskNoticesProofs ---------------------------
(***************************************************************************)
(* Proofs about what users choose (DeskWorkspace) and what they are told   *)
(* (DeskNotices), as theorems of the composition's specification.          *)
(*                                                                         *)
(* WorkspaceInv is inductive beside every step of the notices; NoticesInv  *)
(* adds what the two writers hold and owe: the notices that are still to   *)
(* be created tell what is true and are in no log yet, every watcher of a  *)
(* name that moved has been or will be told, and an inbox is an interval   *)
(* of the newest notices that somebody will prune if it is too long.       *)
(***************************************************************************)
EXTENDS DeskNotices, FiniteSetTheorems, SequenceTheorems, TLAPS

(* What the table of preferences holds for a user. *)
Row == Prefs \cup {NoPrefs}

(* What a thread is working on. *)
Work == [at : {"idle", "seeding", "loading", "storing", "adding", "replacing"},
         user : Users \cup {Unset}, venue : Venues \cup {Unset}, patch : Patches,
         row : Row, seen : SUBSET Tickers, wish : SUBSET Tickers]

(* A request names what it is about. *)
Named(q) ==
  /\ q.at \in {"seeding", "adding", "replacing"} => q.venue \in Venues
  /\ q.at \in {"loading", "storing", "adding"} => q.user \in Users
  /\ q.at \in {"adding", "replacing"} => q.wish # {}
  /\ q.at = "adding" => \E k \in Tickers : q.wish = {k}

(* A row of preferences that a request has found is still there.            *)
RowsStay == \A t \in Threads :
  request[t].at = "storing" /\ request[t].row # NoPrefs => prefs[request[t].user] # NoPrefs

RequestsFit == (\A t \in Threads : Named(request[t])) /\ RowsStay

WorkspaceInv == WorkspaceTypeOK /\ RequestsFit /\ ChoicesStored /\ WatchBounded /\ UniverseKept

--------------------------------------------------------------------------------
(* Preferences. *)

LEMMA PatchedIs ==
  ASSUME NEW row \in Prefs, NEW patch \in Patches
  PROVE  Patched(row, patch) \in Prefs
BY DEF Patched, Prefs, Patches, Columns

(* Writing the columns that the request has changed is storing what of it   *)
(* was news.                                                                *)
LEMMA UpdatedIs ==
  ASSUME NEW row \in Prefs, NEW patch \in Patches, NEW current \in Row
  PROVE  Updated(row, Patched(row, patch), current) = Patched(current, News(patch, row))
<1>1. \A c \in Columns : row[c] # Unset
  BY WorkspaceAssumption DEF Prefs, Columns
<1> QED BY <1>1 DEF Updated, Patched, News, Columns

--------------------------------------------------------------------------------
(* Requests. *)

LEMMA WorkspaceHas ==
  ASSUME WorkspaceInv
  PROVE  /\ prefs \in [Users -> Row] /\ choice = prefs
         /\ watch \in [Users -> [Venues -> SUBSET Tickers]]
         /\ universe \in [Venues -> SUBSET Tickers] /\ wanted \in [Venues -> SUBSET Tickers]
         /\ mixed \subseteq Venues /\ begun \in 0..MaxRequests
         /\ request \in [Threads -> Work]
BY DEF WorkspaceInv, WorkspaceTypeOK, ChoicesStored, Row, Work

LEMMA RequestsAre ==
  ASSUME NEW at \in {"idle", "seeding", "loading", "storing", "adding", "replacing"},
         NEW u \in Users \cup {Unset}, NEW v \in Venues \cup {Unset}
  PROVE  /\ Request(at, u, v) \in Work
         /\ Request(at, u, v).at = at /\ Request(at, u, v).user = u
         /\ Request(at, u, v).venue = v
BY DEF Request, Work, Row, NoPrefs, Patches

LEMMA FreeIs == Free \in Work /\ Free.at = "idle" /\ Named(Free)
<1>1. Free \in Work /\ Free.at = "idle"
  BY RequestsAre DEF Free
<1> QED BY <1>1 DEF Named

(* One thread goes on. *)
LEMMA OneRequest ==
  ASSUME NEW t \in Threads, NEW q \in Work, request \in [Threads -> Work],
         request' = [request EXCEPT ![t] = q]
  PROVE  /\ request' \in [Threads -> Work] /\ request'[t] = q
         /\ \A s \in Threads : s # t => request'[s] = request[s]
OBVIOUS

LEMMA AddingIs ==
  ASSUME NEW u \in Users, NEW v \in Venues
  PROVE  /\ IsFiniteSet(Adding(u, v)) /\ Cardinality(Adding(u, v)) \in Nat
         /\ Cardinality(Adding(u, v)) <= Cardinality(Threads)
         /\ Cardinality(Threads) \in Nat \ {0}
<1>1. Adding(u, v) \subseteq Threads
  BY DEF Adding
<1>2. IsFiniteSet(Threads) /\ Threads # {}
  BY WorkspaceAssumption
<1> QED BY <1>1, <1>2, FS_Subset, FS_CardinalityType, FS_EmptySet

LEMMA ListIs ==
  ASSUME NEW list \in SUBSET Tickers, NEW k \in Tickers
  PROVE  /\ IsFiniteSet(list) /\ Cardinality(list) \in Nat
         /\ Cardinality(list \cup {k}) \in Nat
         /\ Cardinality(list \cup {k}) <= Cardinality(list) + 1
         /\ Cardinality(list \ {k}) \in Nat
         /\ Cardinality(list \ {k}) <= Cardinality(list)
<1>1. IsFiniteSet(list)
  BY WorkspaceAssumption, FS_Subset
<1> QED BY <1>1, FS_CardinalityType, FS_AddElement, FS_RemoveElement, FS_Subset

(* No list grows, and nobody else is allowed to add to one. *)
LEMMA WatchKeeps ==
  ASSUME WorkspaceInv,
         \A u \in Users, v \in Venues : watch'[u][v] \subseteq watch[u][v],
         \A u \in Users, v \in Venues : Adding(u, v)' \subseteq Adding(u, v)
  PROVE  WatchBounded'
<1> SUFFICES ASSUME NEW u \in Users, NEW v \in Venues
             PROVE  Cardinality(watch'[u][v]) + Cardinality(Adding(u, v)')
                      <= WatchLimit + Cardinality(Threads) - 1
  BY DEF WatchBounded
<1>1. IsFiniteSet(watch[u][v]) /\ IsFiniteSet(Adding(u, v))
  <2>1. watch[u][v] \subseteq Tickers
    BY WorkspaceHas
  <2> QED BY <2>1, WorkspaceAssumption, FS_Subset, AddingIs
<1>2. /\ Cardinality(watch'[u][v]) \in Nat /\ Cardinality(Adding(u, v)') \in Nat
      /\ Cardinality(watch[u][v]) \in Nat /\ Cardinality(Adding(u, v)) \in Nat
      /\ Cardinality(watch'[u][v]) <= Cardinality(watch[u][v])
      /\ Cardinality(Adding(u, v)') <= Cardinality(Adding(u, v))
  BY <1>1, FS_Subset, FS_CardinalityType
<1>3. Cardinality(watch[u][v]) + Cardinality(Adding(u, v)) <= WatchLimit + Cardinality(Threads) - 1
  BY DEF WorkspaceInv, WatchBounded
<1>4. WatchLimit \in Nat /\ Cardinality(Threads) \in Nat
  BY WorkspaceAssumption, FS_CardinalityType
<1> QED BY <1>2, <1>3, <1>4

(* A request begins or ends, or reads. *)
LEMMA RequestKeeps ==
  ASSUME WorkspaceInv, NEW t \in Threads, NEW q \in Work, Named(q),
         request' = [request EXCEPT ![t] = q], UNCHANGED <<tables, choice, wanted, mixed>>,
         begun' \in 0..MaxRequests,
         q.at = "storing" /\ q.row # NoPrefs => prefs[q.user] # NoPrefs,
         q.at = "adding" => ~Full(q.user, q.venue)
  PROVE  WorkspaceInv'
<1>1. /\ request' \in [Threads -> Work] /\ request'[t] = q
      /\ \A s \in Threads : s # t => request'[s] = request[s]
  BY WorkspaceHas, OneRequest
<1>2. UNCHANGED <<prefs, watch, universe, choice, wanted, mixed>>
  BY DEF tables
<1>3. WorkspaceTypeOK'
  BY <1>1, <1>2 DEF WorkspaceInv, WorkspaceTypeOK, Work, Row
<1>4. RequestsFit'
  BY <1>1, <1>2 DEF WorkspaceInv, RequestsFit, RowsStay
<1>5. ChoicesStored' /\ UniverseKept'
  BY <1>2 DEF WorkspaceInv, ChoicesStored, UniverseKept
<1>6. CASE q.at # "adding"
  <2>1. \A u \in Users, v \in Venues : Adding(u, v)' \subseteq Adding(u, v)
    BY <1>1, <1>6 DEF Adding
  <2>2. WatchBounded'
    BY <1>2, <2>1, WatchKeeps
  <2> QED BY <1>3, <1>4, <1>5, <2>2 DEF WorkspaceInv
<1>7. CASE q.at = "adding"
  <2> SUFFICES WatchBounded'
    BY <1>3, <1>4, <1>5 DEF WorkspaceInv
  <2> SUFFICES ASSUME NEW u \in Users, NEW v \in Venues
               PROVE  Cardinality(watch[u][v]) + Cardinality(Adding(u, v)')
                        <= WatchLimit + Cardinality(Threads) - 1
    BY <1>2 DEF WatchBounded
  <2>1. IsFiniteSet(Threads) /\ Cardinality(Threads) \in Nat /\ WatchLimit \in Nat
    BY WorkspaceAssumption, FS_CardinalityType
  <2>2. CASE u = q.user /\ v = q.venue
    <3>1. Cardinality(watch[u][v]) < WatchLimit /\ Cardinality(watch[u][v]) \in Nat
      <4>1. watch[u][v] \subseteq Tickers
        BY WorkspaceHas
      <4>2. Cardinality(watch[u][v]) \in Nat
        BY <4>1, WorkspaceAssumption, FS_Subset, FS_CardinalityType
      <4> QED BY <1>7, <2>1, <2>2, <4>2 DEF Full
    <3>2. Adding(u, v)' \subseteq Threads
      BY DEF Adding
    <3>3. Cardinality(Adding(u, v)') \in Nat /\ Cardinality(Adding(u, v)') <= Cardinality(Threads)
      BY <2>1, <3>2, FS_Subset, FS_CardinalityType
    <3> QED BY <2>1, <3>1, <3>3
  <2>3. CASE ~(u = q.user /\ v = q.venue)
    <3>1. Adding(u, v)' \subseteq Adding(u, v)
      BY <1>1, <2>3 DEF Adding
    <3>2. IsFiniteSet(Adding(u, v)) /\ Cardinality(Adding(u, v)) \in Nat
      BY AddingIs
    <3>3. Cardinality(Adding(u, v)') \in Nat
          /\ Cardinality(Adding(u, v)') <= Cardinality(Adding(u, v))
      BY <3>1, <3>2, FS_Subset, FS_CardinalityType
    <3>4. Cardinality(watch[u][v]) \in Nat
      <4>1. watch[u][v] \subseteq Tickers
        BY WorkspaceHas
      <4> QED BY <4>1, WorkspaceAssumption, FS_Subset, FS_CardinalityType
    <3>5. Cardinality(watch[u][v]) + Cardinality(Adding(u, v))
            <= WatchLimit + Cardinality(Threads) - 1
      BY DEF WorkspaceInv, WatchBounded
    <3> QED BY <2>1, <3>2, <3>3, <3>4, <3>5
  <2> QED BY <2>2, <2>3
<1> QED BY <1>6, <1>7

--------------------------------------------------------------------------------
(* The transactions. *)

LEMMA SeedKeeps ==
  ASSUME WorkspaceInv, NEW t \in Threads, Seed(t)
  PROVE  WorkspaceInv'
<1> DEFINE q == request[t]
           v == q.venue
<1>1. /\ q.at = "seeding" /\ q \in Work /\ Named(q) /\ v \in Venues
      /\ UNCHANGED <<prefs, watch, begun, choice>>
  BY WorkspaceHas DEF Seed, WorkspaceInv, RequestsFit, Named
<1>2. CASE universe[v] \cap DefaultUniverse[v] # {}
  <2>1. request' = [request EXCEPT ![t] = Free] /\ UNCHANGED <<tables, begun, choice, wanted, mixed>>
    BY <1>1, <1>2 DEF Seed, Ends, tables
  <2> QED BY <2>1, FreeIs, WorkspaceHas, RequestKeeps
<1>3. CASE universe[v] \cap DefaultUniverse[v] = {}
  <2>1. /\ universe' = [universe EXCEPT ![v] = @ \cup DefaultUniverse[v]]
        /\ wanted' = [wanted EXCEPT ![v] = DefaultUniverse[v]]
        /\ mixed' = IF universe[v] # {} THEN mixed \cup {v} ELSE mixed
        /\ IF q.user = Unset THEN Ends(t)
           ELSE request' = [request EXCEPT ![t].at = "loading"]
    BY <1>1, <1>3 DEF Seed
  <2> DEFINE next == [q EXCEPT !.at = "loading"]
  <2>2. \E n \in Work : /\ request' = [request EXCEPT ![t] = n] /\ Named(n)
                        /\ n.at \notin {"storing", "adding"}
    <3>1. CASE q.user = Unset
      BY <2>1, <3>1, FreeIs DEF Ends
    <3>2. CASE q.user # Unset
      <4>1. request' = [request EXCEPT ![t] = next]
        BY <2>1, <3>2
      <4>2. next \in Work /\ next.at = "loading" /\ next.user \in Users
        BY <1>1, <3>2 DEF Work
      <4>3. Named(next)
        BY <4>2 DEF Named
      <4> HIDE DEF next
      <4> QED BY <4>1, <4>2, <4>3
    <3> QED BY <3>1, <3>2
  <2>3. PICK n \in Work : /\ request' = [request EXCEPT ![t] = n] /\ Named(n)
                          /\ n.at \notin {"storing", "adding"}
    BY <2>2
  <2>4. /\ request' \in [Threads -> Work] /\ request'[t] = n
        /\ \A s \in Threads : s # t => request'[s] = request[s]
    BY <2>3, WorkspaceHas, OneRequest
  <2>5. DefaultUniverse[v] \in SUBSET Tickers /\ DefaultUniverse[v] # {}
    BY <1>1, WorkspaceAssumption
  <2>6. /\ universe' \in [Venues -> SUBSET Tickers] /\ wanted' \in [Venues -> SUBSET Tickers]
        /\ mixed' \subseteq Venues
    BY <1>1, <2>1, <2>5, WorkspaceHas
  <2>7. WorkspaceTypeOK'
    BY <1>1, <2>4, <2>6 DEF WorkspaceInv, WorkspaceTypeOK, Work, Row
  <2>8. RequestsFit'
    BY <1>1, <2>3, <2>4 DEF WorkspaceInv, RequestsFit, RowsStay
  <2>9. ChoicesStored'
    BY <1>1 DEF WorkspaceInv, ChoicesStored
  <2>10. WatchBounded'
    <3>1. \A u \in Users, w \in Venues : Adding(u, w)' \subseteq Adding(u, w)
      BY <2>3, <2>4 DEF Adding
    <3> QED BY <1>1, <3>1, WatchKeeps
  <2>11. UniverseKept'
    <3> SUFFICES ASSUME NEW w \in Venues, wanted'[w] # {}
                 PROVE  universe'[w] # {} /\ (w \in mixed' \/ universe'[w] = wanted'[w])
      BY DEF UniverseKept
    <3>1. CASE w = v
      <4>1. universe'[v] = universe[v] \cup DefaultUniverse[v] /\ wanted'[v] = DefaultUniverse[v]
        BY <1>1, <2>1, WorkspaceHas
      <4> QED BY <2>1, <2>5, <3>1, <4>1
    <3>2. CASE w # v
      <4>1. universe'[w] = universe[w] /\ wanted'[w] = wanted[w] /\ (w \in mixed => w \in mixed')
        BY <2>1, <3>2, WorkspaceHas
      <4> QED BY <4>1 DEF WorkspaceInv, UniverseKept
    <3> QED BY <3>1, <3>2
  <2> QED BY <2>7, <2>8, <2>9, <2>10, <2>11 DEF WorkspaceInv
<1> QED BY <1>2, <1>3

(* A row of preferences is written or inserted; none is ever deleted. *)
LEMMA StoreKeeps ==
  ASSUME WorkspaceInv, NEW t \in Threads, StorePrefs(t)
  PROVE  WorkspaceInv'
<1> DEFINE q == request[t]
           u == q.user
<1>1. /\ q.at = "storing" /\ q \in Work /\ u \in Users /\ q.patch \in Patches /\ q.row \in Row
      /\ q.row # NoPrefs => prefs[u] # NoPrefs
      /\ UNCHANGED <<watch, universe, begun, wanted, mixed>>
      /\ request' = [request EXCEPT ![t] = Free]
  BY WorkspaceHas DEF StorePrefs, WorkspaceInv, RequestsFit, RowsStay, Named, Ends, Work
<1>2. Defaults \in Prefs
  BY WorkspaceAssumption DEF Defaults, Prefs
<1>3. NoPrefs \notin Prefs
  BY WorkspaceAssumption DEF NoPrefs, Prefs
<1>4. \/ UNCHANGED <<prefs, choice>>
      \/ \E row \in Prefs : /\ prefs' = [prefs EXCEPT ![u] = row]
                            /\ choice' = [choice EXCEPT ![u] = row]
  <2>1. CASE q.row = NoPrefs
    <3>1. CASE prefs[u] # NoPrefs
      BY <1>1, <2>1, <3>1 DEF StorePrefs
    <3>2. CASE prefs[u] = NoPrefs
      BY <1>1, <1>2, <2>1, <3>2, PatchedIs DEF StorePrefs
    <3> QED BY <3>1, <3>2
  <2>2. CASE q.row # NoPrefs
    <3>1. /\ prefs' = [prefs EXCEPT ![u] = Updated(q.row, Patched(q.row, q.patch), prefs[u])]
          /\ choice' = [choice EXCEPT ![u] = Patched(choice[u], News(q.patch, q.row))]
      BY <1>1, <2>2 DEF StorePrefs
    <3>2. q.row \in Prefs /\ prefs[u] \in Prefs /\ choice[u] = prefs[u]
      BY <1>1, <2>2, WorkspaceHas DEF Row
    <3>3. News(q.patch, q.row) \in Patches
      BY <1>1, <3>2 DEF News, Patches, Prefs, Columns
    <3>4. Patched(prefs[u], News(q.patch, q.row)) \in Prefs
      BY <3>2, <3>3, PatchedIs
    <3>5. Updated(q.row, Patched(q.row, q.patch), prefs[u])
            = Patched(prefs[u], News(q.patch, q.row))
      BY <1>1, <3>2, UpdatedIs DEF Row
    <3> QED BY <3>1, <3>2, <3>4, <3>5
  <2> QED BY <2>1, <2>2
<1>5. /\ prefs' \in [Users -> Row] /\ prefs' = choice'
      /\ \A w \in Users : prefs[w] # NoPrefs => prefs'[w] # NoPrefs
  <2>1. prefs \in [Users -> Row] /\ choice = prefs
    BY WorkspaceHas
  <2> QED BY <1>1, <1>3, <1>4, <2>1 DEF Row
<1>6. /\ request' \in [Threads -> Work] /\ request'[t] = Free
      /\ \A s \in Threads : s # t => request'[s] = request[s]
  BY <1>1, FreeIs, WorkspaceHas, OneRequest
<1>7. WorkspaceTypeOK'
  BY <1>1, <1>5, <1>6 DEF WorkspaceInv, WorkspaceTypeOK, Work, Row
<1>8. RequestsFit'
  <2> SUFFICES ASSUME NEW s \in Threads
               PROVE  /\ Named(request'[s])
                      /\ request'[s].at = "storing" /\ request'[s].row # NoPrefs
                           => prefs'[request'[s].user] # NoPrefs
    BY DEF RequestsFit, RowsStay
  <2>1. CASE s = t
    BY <1>6, <2>1, FreeIs
  <2>2. CASE s # t
    <3>1. Named(request[s]) /\ (request[s].at = "storing" /\ request[s].row # NoPrefs
                                  => prefs[request[s].user] # NoPrefs)
      BY DEF WorkspaceInv, RequestsFit, RowsStay
    <3>2. request[s].at = "storing" => request[s].user \in Users
      BY <3>1 DEF Named
    <3> QED BY <1>5, <1>6, <2>2, <3>1, <3>2
  <2> QED BY <2>1, <2>2
<1>9. ChoicesStored' /\ UniverseKept'
  BY <1>1, <1>5 DEF WorkspaceInv, ChoicesStored, UniverseKept
<1>10. WatchBounded'
  <2>1. \A w \in Users, v \in Venues : Adding(w, v)' \subseteq Adding(w, v)
    BY <1>6, FreeIs DEF Adding
  <2> QED BY <1>1, <2>1, WatchKeeps
<1> QED BY <1>7, <1>8, <1>9, <1>10 DEF WorkspaceInv

(* A ticker is added by one of the requests that have passed the check.     *)
LEMMA AddKeeps ==
  ASSUME WorkspaceInv, NEW t \in Threads, Add(t)
  PROVE  WorkspaceInv'
<1> DEFINE q == request[t]
<1>1. /\ q.at = "adding" /\ q \in Work /\ Named(q)
      /\ watch' = [watch EXCEPT ![q.user][q.venue] = @ \cup q.wish]
      /\ request' = [request EXCEPT ![t] = Free]
      /\ UNCHANGED <<prefs, universe, begun, choice, wanted, mixed>>
  BY WorkspaceHas DEF Add, WorkspaceInv, RequestsFit, Ends
<1>2. q.user \in Users /\ q.venue \in Venues
  BY <1>1 DEF Named
<1>3. PICK k : q.wish = {k}
  BY <1>1 DEF Named
<1>4. k \in Tickers
  BY <1>1, <1>3 DEF Work
<1>5. /\ watch' \in [Users -> [Venues -> SUBSET Tickers]]
      /\ watch'[q.user][q.venue] = watch[q.user][q.venue] \cup {k}
      /\ \A u \in Users, v \in Venues :
           u # q.user \/ v # q.venue => watch'[u][v] = watch[u][v]
  BY <1>1, <1>2, <1>3, <1>4, WorkspaceHas
<1>6. /\ request' \in [Threads -> Work] /\ request'[t] = Free
      /\ \A s \in Threads : s # t => request'[s] = request[s]
  BY <1>1, FreeIs, WorkspaceHas, OneRequest
<1>7. WorkspaceTypeOK'
  BY <1>1, <1>5, <1>6 DEF WorkspaceInv, WorkspaceTypeOK, Work, Row
<1>8. RequestsFit'
  BY <1>1, <1>6, FreeIs DEF WorkspaceInv, RequestsFit, RowsStay
<1>9. ChoicesStored' /\ UniverseKept'
  BY <1>1 DEF WorkspaceInv, ChoicesStored, UniverseKept
<1>10. WatchBounded'
  <2> SUFFICES ASSUME NEW u \in Users, NEW v \in Venues
               PROVE  Cardinality(watch'[u][v]) + Cardinality(Adding(u, v)')
                        <= WatchLimit + Cardinality(Threads) - 1
    BY DEF WatchBounded
  <2>1. /\ IsFiniteSet(Adding(u, v)) /\ Cardinality(Adding(u, v)) \in Nat
        /\ Cardinality(Threads) \in Nat /\ WatchLimit \in Nat
    BY AddingIs, WorkspaceAssumption
  <2>2. /\ Cardinality(watch[u][v]) \in Nat
        /\ Cardinality(watch[u][v] \cup {k}) \in Nat
        /\ Cardinality(watch[u][v] \cup {k}) <= Cardinality(watch[u][v]) + 1
    <3>1. watch[u][v] \subseteq Tickers
      BY WorkspaceHas
    <3> QED BY <1>4, <3>1, ListIs
  <2>3. Cardinality(watch[u][v]) + Cardinality(Adding(u, v))
          <= WatchLimit + Cardinality(Threads) - 1
    BY DEF WorkspaceInv, WatchBounded
  <2>4. CASE u = q.user /\ v = q.venue
    <3>1. t \in Adding(u, v) /\ Adding(u, v)' = Adding(u, v) \ {t}
      BY <1>1, <1>6, <2>4, FreeIs DEF Adding
    <3>2. Cardinality(Adding(u, v)') = Cardinality(Adding(u, v)) - 1
      BY <2>1, <3>1, FS_RemoveElement
    <3>3. watch'[u][v] = watch[u][v] \cup {k}
      BY <1>5, <2>4
    <3> QED BY <2>1, <2>2, <2>3, <3>2, <3>3
  <2>5. CASE u # q.user \/ v # q.venue
    <3>1. Adding(u, v)' = Adding(u, v)
      BY <1>1, <1>6, <2>5, FreeIs DEF Adding
    <3> QED BY <1>5, <2>3, <2>5, <3>1
  <2> QED BY <2>4, <2>5
<1> QED BY <1>7, <1>8, <1>9, <1>10 DEF WorkspaceInv

LEMMA UnwatchKeeps ==
  ASSUME WorkspaceInv, NEW u \in Users, NEW v \in Venues, NEW k \in Tickers, Unwatch(u, v, k)
  PROVE  WorkspaceInv'
<1>1. /\ begun < MaxRequests /\ begun' = begun + 1
      /\ watch' = [watch EXCEPT ![u][v] = @ \ {k}]
      /\ UNCHANGED <<prefs, universe, request, choice, wanted, mixed>>
  BY DEF Unwatch
<1>2. /\ watch' \in [Users -> [Venues -> SUBSET Tickers]]
      /\ \A w \in Users, x \in Venues : watch'[w][x] \subseteq watch[w][x]
  BY <1>1, WorkspaceHas
<1>3. begun' \in 0..MaxRequests
  BY <1>1, WorkspaceHas, WorkspaceAssumption
<1>4. WorkspaceTypeOK'
  BY <1>1, <1>2, <1>3 DEF WorkspaceInv, WorkspaceTypeOK
<1>5. RequestsFit' /\ ChoicesStored' /\ UniverseKept'
  BY <1>1 DEF WorkspaceInv, RequestsFit, RowsStay, ChoicesStored, UniverseKept
<1>6. WatchBounded'
  <2>1. \A w \in Users, x \in Venues : Adding(w, x)' \subseteq Adding(w, x)
    BY <1>1 DEF Adding
  <2> QED BY <1>2, <2>1, WatchKeeps
<1> QED BY <1>4, <1>5, <1>6 DEF WorkspaceInv

LEMMA ReplaceKeeps ==
  ASSUME WorkspaceInv, NEW t \in Threads, Replace(t)
  PROVE  WorkspaceInv'
<1> DEFINE q == request[t]
           v == q.venue
<1>1. /\ q.at = "replacing" /\ q \in Work /\ v \in Venues /\ q.wish # {} /\ q.wish \subseteq Tickers
      /\ request' = [request EXCEPT ![t] = Free]
      /\ UNCHANGED <<prefs, watch, begun, choice>>
  BY WorkspaceHas DEF Replace, WorkspaceInv, RequestsFit, Named, Ends, Work
<1>2. \/ UNCHANGED <<universe, wanted, mixed>>
      \/ /\ universe' = [universe EXCEPT ![v] = Replaced(universe[v], q.seen, q.wish)]
         /\ wanted' = [wanted EXCEPT ![v] = q.wish]
         /\ mixed' = IF universe[v] # q.seen THEN mixed \cup {v} ELSE mixed \ {v}
  BY DEF Replace
<1>3. CASE UNCHANGED <<universe, wanted, mixed>>
  BY <1>1, <1>3, FreeIs, WorkspaceHas, RequestKeeps DEF tables
<1>4. CASE /\ universe' = [universe EXCEPT ![v] = Replaced(universe[v], q.seen, q.wish)]
           /\ wanted' = [wanted EXCEPT ![v] = q.wish]
           /\ mixed' = IF universe[v] # q.seen THEN mixed \cup {v} ELSE mixed \ {v}
  <2> DEFINE new == Replaced(universe[v], q.seen, q.wish)
  <2>1. /\ new \subseteq Tickers /\ new # {}
        /\ universe[v] = q.seen => new = q.wish
    BY <1>1, WorkspaceHas DEF Replaced
  <2> HIDE DEF new
  <2>2. /\ universe' \in [Venues -> SUBSET Tickers] /\ wanted' \in [Venues -> SUBSET Tickers]
        /\ mixed' \subseteq Venues /\ universe'[v] = new /\ wanted'[v] = q.wish
        /\ \A w \in Venues : w # v => universe'[w] = universe[w] /\ wanted'[w] = wanted[w]
    BY <1>1, <1>4, <2>1, WorkspaceHas DEF new
  <2>3. /\ request' \in [Threads -> Work] /\ request'[t] = Free
        /\ \A s \in Threads : s # t => request'[s] = request[s]
    BY <1>1, FreeIs, WorkspaceHas, OneRequest
  <2>4. WorkspaceTypeOK'
    BY <1>1, <2>2, <2>3 DEF WorkspaceInv, WorkspaceTypeOK, Work, Row
  <2>5. RequestsFit'
    BY <1>1, <2>3, FreeIs DEF WorkspaceInv, RequestsFit, RowsStay
  <2>6. ChoicesStored'
    BY <1>1 DEF WorkspaceInv, ChoicesStored
  <2>7. WatchBounded'
    <3>1. \A u \in Users, w \in Venues : Adding(u, w)' \subseteq Adding(u, w)
      BY <2>3, FreeIs DEF Adding
    <3> QED BY <1>1, <3>1, WatchKeeps
  <2>8. UniverseKept'
    <3> SUFFICES ASSUME NEW w \in Venues, wanted'[w] # {}
                 PROVE  universe'[w] # {} /\ (w \in mixed' \/ universe'[w] = wanted'[w])
      BY DEF UniverseKept
    <3>1. CASE w = v
      BY <1>4, <2>1, <2>2, <3>1
    <3>2. CASE w # v
      BY <1>4, <2>2, <3>2 DEF WorkspaceInv, UniverseKept
    <3> QED BY <3>1, <3>2
  <2> QED BY <2>4, <2>5, <2>6, <2>7, <2>8 DEF WorkspaceInv
<1> QED BY <1>2, <1>3, <1>4

(* Whatever requests users and admins make, side by side. *)
LEMMA WorkspaceKeeps ==
  ASSUME WorkspaceInv, WorkspaceNext
  PROVE  WorkspaceInv'
<1>1. Unset \notin Users \cup Venues \cup Appetites /\ NoPrefs \in Row /\ NoPrefs \in Patches
  BY WorkspaceAssumption DEF Row, NoPrefs, Patches
<1>2. ASSUME NEW t \in Threads, NEW q \in Work, Begins(t, q), Named(q),
             UNCHANGED <<tables, choice, wanted, mixed>>, q.at # "storing",
             q.at = "adding" => ~Full(q.user, q.venue)
      PROVE  WorkspaceInv'
  <2>1. request' = [request EXCEPT ![t] = q] /\ begun' \in 0..MaxRequests
    BY <1>2, WorkspaceHas, WorkspaceAssumption DEF Begins
  <2> QED BY <1>2, <2>1, RequestKeeps
<1>3. ASSUME NEW t \in Threads, NEW u \in Users, NEW patch \in Patches, PutPreferences(t, u, patch)
      PROVE  WorkspaceInv'
  <2> DEFINE at == IF patch.market # Unset /\ universe[patch.market] = {} THEN "seeding"
                   ELSE "loading"
             q  == [Request(at, u, patch.market) EXCEPT !.patch = patch]
  <2>1. Begins(t, q) /\ UNCHANGED <<tables, choice, wanted, mixed>>
    BY <1>3 DEF PutPreferences
  <2>2. patch.market \in Venues \cup {Unset} /\ (at = "seeding" => patch.market \in Venues)
        /\ at \in {"seeding", "loading"}
    BY DEF Patches
  <2> HIDE DEF at
  <2>3. /\ q \in Work /\ q.at = at /\ q.venue = patch.market /\ q.user = u
    BY <2>2, RequestsAre DEF Work
  <2> HIDE DEF q
  <2>4. Named(q)
    BY <2>2, <2>3 DEF Named
  <2> QED BY <1>2, <2>1, <2>2, <2>3, <2>4
<1>4. ASSUME NEW t \in Threads, NEW v \in Venues, OpenVenue(t, v)
      PROVE  WorkspaceInv'
  <2> DEFINE q == Request("seeding", Unset, v)
  <2>1. Begins(t, q) /\ UNCHANGED <<tables, choice, wanted, mixed>>
    BY <1>4 DEF OpenVenue
  <2>2. q \in Work /\ q.at = "seeding" /\ q.venue = v
    BY RequestsAre
  <2> HIDE DEF q
  <2> QED BY <1>2, <2>1, <2>2 DEF Named
<1>5. ASSUME NEW t \in Threads, NEW u \in Users, NEW v \in Venues, NEW k \in Tickers,
             Watch(t, u, v, k)
      PROVE  WorkspaceInv'
  <2> DEFINE q == [Request("adding", u, v) EXCEPT !.wish = {k}]
  <2>1. Begins(t, q) /\ UNCHANGED <<tables, choice, wanted, mixed>> /\ ~Full(u, v)
    BY <1>5 DEF Watch
  <2>2. q \in Work /\ q.at = "adding" /\ q.user = u /\ q.venue = v /\ q.wish = {k}
    BY RequestsAre DEF Work
  <2> HIDE DEF q
  <2> QED BY <1>2, <2>1, <2>2 DEF Named
<1>6. ASSUME NEW t \in Threads, NEW v \in Venues, NEW wish \in Wishes, ReplaceUniverse(t, v, wish)
      PROVE  WorkspaceInv'
  <2> DEFINE q == [Request("replacing", Unset, v) EXCEPT !.seen = universe[v], !.wish = wish]
  <2>1. Begins(t, q) /\ UNCHANGED <<tables, choice, wanted, mixed>>
    BY <1>6 DEF ReplaceUniverse
  <2>2. universe[v] \in SUBSET Tickers /\ wish \in SUBSET Tickers /\ wish # {}
    BY WorkspaceHas DEF Wishes
  <2>3. q \in Work /\ q.at = "replacing" /\ q.venue = v /\ q.wish = wish
    <3> DEFINE base == Request("replacing", Unset, v)
    <3>1. base \in Work /\ base.at = "replacing" /\ base.venue = v
      BY RequestsAre
    <3>2. q = [base EXCEPT !.seen = universe[v], !.wish = wish]
      OBVIOUS
    <3> HIDE DEF base, q
    <3> QED BY <2>2, <3>1, <3>2 DEF Work
  <2> HIDE DEF q
  <2> QED BY <1>2, <2>1, <2>2, <2>3 DEF Named
<1>7. ASSUME NEW t \in Threads, LoadPrefs(t)
      PROVE  WorkspaceInv'
  <2> DEFINE q == [request[t] EXCEPT !.at = "storing", !.row = prefs[request[t].user]]
  <2>1. /\ request[t].at = "loading" /\ request' = [request EXCEPT ![t] = q]
        /\ UNCHANGED <<tables, begun, choice, wanted, mixed>>
    BY <1>7 DEF LoadPrefs
  <2>2. request[t] \in Work /\ request[t].user \in Users
    BY <2>1, WorkspaceHas DEF WorkspaceInv, RequestsFit, Named
  <2>3. prefs[request[t].user] \in Row
    BY <2>2, WorkspaceHas
  <2>4. /\ q \in Work /\ q.at = "storing" /\ q.user = request[t].user
        /\ q.row = prefs[request[t].user]
    BY <2>2, <2>3 DEF Work
  <2> HIDE DEF q
  <2> QED BY <2>1, <2>2, <2>4, WorkspaceHas, RequestKeeps DEF Named
<1> QED BY <1>3, <1>4, <1>5, <1>6, <1>7, SeedKeeps, StoreKeeps, AddKeeps, ReplaceKeeps, UnwatchKeeps
        DEF WorkspaceNext

--------------------------------------------------------------------------------
(* Notices. *)

Notes == [kind : {"watchlist_change", "digest", "run_failed"}, run : Nat,
          ticker : Tickers \cup {Unset}, old : Actions \cup {Unset}, new : Actions \cup {Unset}]

Writing == [at : {"idle", "snapshotting", "comparing", "changes", "digests", "alarms", "again"},
            todo : SUBSET (Users \X Notes), user : Users \cup {Unset}, doomed : SUBSET Nat]

DeskTypes ==
  /\ books \in Seq([venue : Venues, of : Outcomes]) /\ Len(books) <= MaxRuns
  /\ shots \subseteq Runs /\ alarms \in 0..MaxAlarms
  /\ writer \in [Writers -> Writing]
  /\ writer["desk"].at \notin {"alarms", "again"}
  /\ writer["scheduler"].at \in {"idle", "alarms", "again"}
  /\ failed = Runs \ (shots \cup Unwritten) /\ shots \cap Unwritten = {}
  /\ owed \subseteq Users \X Tickers /\ cut \subseteq Users

InboxTypes ==
  /\ log \in [Users -> Seq(Notes)]
  /\ kept \in [Users -> SUBSET Nat] /\ read \in [Users -> SUBSET Nat]
  /\ reader \in [Users -> SUBSET Nat]
  /\ \A u \in Users : /\ read[u] \subseteq kept[u] /\ kept[u] \subseteq 1..Len(log[u])
                      /\ reader[u] \subseteq 0..Len(log[u])

(* The newest notices of a user, Keep at least if there are as many. *)
Newest(u) == LET n == Len(log[u]) IN
  \E lo \in 1..(n + 1) : kept[u] = lo..n /\ (lo = 1 \/ n - lo + 1 >= Keep)

(* What a writer deletes are the oldest, behind Keep newer ones. *)
DoomedOld(w) == LET u == writer[w].user IN
  writer[w].doomed # {} =>
    /\ u \in Users
    /\ \E h \in 0..Len(log[u]) :
         /\ h <= Len(log[u]) - Keep /\ writer[w].doomed \subseteq 1..h
         /\ \A i \in kept[u] : i <= h => i \in writer[w].doomed

(* Too many are kept only while somebody will still delete them. *)
Selecting(w, u) == writer[w].user = u /\ writer[w].doomed = {}
Deleting(w, u)  == /\ writer[w].user = u /\ writer[w].doomed # {}
                   /\ \A i \in kept[u] : i <= Len(log[u]) - Keep => i \in writer[w].doomed
Pruned(u) == \A i \in kept[u] : i > Len(log[u]) - Keep
Settled(u) == \/ Pruned(u)
              \/ \E w \in Writers : Selecting(w, u) \/ Deleting(w, u)
              \/ u \in cut

KeptInv == /\ \A u \in Users : Newest(u) /\ Settled(u)
           /\ \A w \in Writers : DoomedOld(w)

(* A change of run r in name k, in the log of u or still to be told. *)
Tells(n, r, k) == n.kind = "watchlist_change" /\ n.run = r /\ n.ticker = k
Logged(u, r, k) == \E i \in 1..Len(log[u]) : Tells(log[u][i], r, k)
Owed(u, r, k)   == \E y \in writer["desk"].todo : y[1] = u /\ Tells(y[2], r, k)

(* What moved with the newest run. *)
MovedTo(k) == LET r == Len(books) IN
  \E p \in Runs : /\ Follows(p, r, k) /\ books[r].of[k] # Unset
                  /\ books[p].of[k] # books[r].of[k]

(* The notice tells what happened. *)
True(n) == LET r == Len(books) IN
  /\ n.kind = "watchlist_change" /\ n.run = r /\ r > 0 /\ n.ticker \in Tickers
  /\ n.old # n.new /\ books[r].of[n.ticker] = n.new
  /\ \E p \in Runs : Follows(p, r, n.ticker) /\ books[p].of[n.ticker] = n.old

LogInv == \A u \in Users : \A i \in 1..Len(log[u]) :
  log[u][i].kind = "watchlist_change" =>
    /\ log[u][i].run <= Len(books)
    /\ writer["desk"].at \in {"snapshotting", "comparing"} => log[u][i].run < Len(books)

TodoInv ==
  /\ \A y \in writer["scheduler"].todo : y[2].kind = "run_failed"
  /\ \A y \in writer["desk"].todo : writer["desk"].at = "digests" => y[2].kind = "digest"
  /\ writer["desk"].at \in {"idle", "snapshotting", "comparing"} => writer["desk"].todo = {}
  /\ writer["desk"].at # "idle" => Len(books) > 0
  /\ writer["desk"].at = "changes" => \A y \in writer["desk"].todo :
       /\ True(y[2]) /\ ~Logged(y[1], Len(books), y[2].ticker)
       /\ \A z \in writer["desk"].todo : y[1] = z[1] /\ y[2].ticker = z[2].ticker => y = z

OwedInv == \A x \in owed :
  /\ Len(books) > 0 /\ x[2] \in watch[x[1]][books[Len(books)].venue]
  /\ MovedTo(x[2]) =>
       \/ writer["desk"].at \in {"snapshotting", "comparing"}
       \/ Logged(x[1], Len(books), x[2])
       \/ Owed(x[1], Len(books), x[2])

NoticesInv == WorkspaceInv /\ DeskTypes /\ InboxTypes /\ KeptInv /\ LogInv /\ TodoInv /\ OwedInv

(* The workspace beside the notices. *)
LEMMA WorkspaceStays ==
  ASSUME WorkspaceInv, UNCHANGED <<tables, choice, wanted, mixed>>, begun' \in 0..MaxRequests,
         request' = request \/ request' = [t \in Threads |-> Free]
  PROVE  WorkspaceInv'
<1>1. UNCHANGED <<prefs, watch, universe, choice, wanted, mixed>>
  BY DEF tables
<1>2. /\ request' \in [Threads -> Work]
      /\ \A t \in Threads : request'[t] = request[t] \/ request'[t] = Free
  BY WorkspaceHas, FreeIs
<1>3. WorkspaceTypeOK'
  BY <1>1, <1>2 DEF WorkspaceInv, WorkspaceTypeOK, Work, Row
<1>4. RequestsFit'
  BY <1>1, <1>2, FreeIs DEF WorkspaceInv, RequestsFit, RowsStay
<1>5. ChoicesStored' /\ UniverseKept'
  BY <1>1 DEF WorkspaceInv, ChoicesStored, UniverseKept
<1>6. WatchBounded'
  <2>1. \A u \in Users, v \in Venues : Adding(u, v)' \subseteq Adding(u, v)
    BY <1>2, FreeIs DEF Adding
  <2> QED BY <1>1, <2>1, WatchKeeps
<1> QED BY <1>3, <1>4, <1>5, <1>6 DEF WorkspaceInv

LEMMA WorkspaceInNext ==
  ASSUME WorkspaceInv, Next \/ UNCHANGED vars
  PROVE  WorkspaceInv'
<1>1. CASE Choose
  BY <1>1, WorkspaceKeeps DEF Choose
<1>2. ASSUME NEW u \in Users, NEW ids, SelectUnread(u, ids)
      PROVE  WorkspaceInv'
  <2>1. begun' \in 0..MaxRequests
    BY <1>2, WorkspaceHas, WorkspaceAssumption DEF SelectUnread
  <2> QED BY <1>2, <2>1, WorkspaceStays DEF SelectUnread
<1>3. CASE Restart
  BY <1>3, WorkspaceHas, WorkspaceStays DEF Restart
<1>4. CASE UNCHANGED workspace
  BY <1>4, WorkspaceHas, WorkspaceStays DEF workspace
<1>5. Next => \/ Choose \/ Restart \/ UNCHANGED workspace
              \/ \E u \in Users : \E ids \in SUBSET kept[u] : SelectUnread(u, ids)
  BY DEF Next, Complete, Snapshot, Compare, Alarm, Digest, Create, SelectOld, DeleteOld, Rest,
         ChangesFail, AlarmFails, MarkRead
<1> QED BY <1>1, <1>2, <1>3, <1>4, <1>5 DEF vars

LEMMA WorkspaceStart == WorkspaceInit => WorkspaceInv
<1> SUFFICES ASSUME WorkspaceInit PROVE WorkspaceInv
  OBVIOUS
<1>1. Defaults \in Prefs /\ NoPrefs \in Row
  BY WorkspaceAssumption DEF Defaults, Prefs, Row
<1>2. PICK list \in SUBSET Tickers : /\ Cardinality(list) <= WatchLimit
                                     /\ watch = [u \in Users |-> [v \in Venues |-> list]]
  BY DEF WorkspaceInit
<1>3. universe \in [Venues -> SUBSET Tickers]
  BY WorkspaceAssumption DEF WorkspaceInit
<1>4. request \in [Threads -> Work] /\ \A t \in Threads : request[t] = Free
  BY FreeIs DEF WorkspaceInit
<1>5. WorkspaceTypeOK
  <2>1. prefs \in [Users -> Row]
    BY <1>1 DEF WorkspaceInit, Row
  <2>2. 0 \in 0..MaxRequests
    BY WorkspaceAssumption
  <2> QED BY <1>2, <1>3, <1>4, <2>1, <2>2 DEF WorkspaceInit, WorkspaceTypeOK, Work, Row
<1>6. RequestsFit
  BY <1>4, FreeIs DEF RequestsFit, RowsStay
<1>7. ChoicesStored /\ UniverseKept
  BY DEF WorkspaceInit, ChoicesStored, UniverseKept
<1>8. WatchBounded
  <2> SUFFICES ASSUME NEW u \in Users, NEW v \in Venues
               PROVE  Cardinality(watch[u][v]) + Cardinality(Adding(u, v))
                        <= WatchLimit + Cardinality(Threads) - 1
    BY DEF WatchBounded
  <2>1. Adding(u, v) = {} /\ Cardinality({}) = 0
    BY <1>4, FreeIs, FS_EmptySet DEF Adding
  <2>2. Cardinality(Threads) \in Nat \ {0} /\ WatchLimit \in Nat
    BY AddingIs, WorkspaceAssumption
  <2>3. Cardinality(list) \in Nat
    BY WorkspaceAssumption, FS_Subset, FS_CardinalityType
  <2>4. watch[u][v] = list
    BY <1>2
  <2> QED BY <1>2, <2>1, <2>2, <2>3, <2>4
<1> QED BY <1>5, <1>6, <1>7, <1>8 DEF WorkspaceInv

LEMMA WorkspaceHolds == Spec => []WorkspaceInv
<1>1. Init => WorkspaceInv
  BY WorkspaceStart DEF Init
<1>2. WorkspaceInv /\ [Next]_vars => WorkspaceInv'
  BY WorkspaceInNext
<1> QED BY <1>1, <1>2, PTL DEF Spec

--------------------------------------------------------------------------------
(* The desk's and the scheduler's threads. *)

LEMMA WritersAre == "desk" \in Writers /\ "scheduler" \in Writers
                    /\ \A w \in Writers : w = "desk" \/ w = "scheduler"
BY DEF Writers

LEMMA RestingIs ==
  /\ Resting \in Writing /\ Resting.at = "idle" /\ Resting.todo = {}
  /\ Resting.user = Unset /\ Resting.doomed = {}
BY DEF Resting, Writing

LEMMA NoticeIs ==
  ASSUME NEW kind \in {"watchlist_change", "digest", "run_failed"}, NEW run \in Nat,
         NEW ticker \in Tickers \cup {Unset}, NEW old \in Actions \cup {Unset},
         NEW new \in Actions \cup {Unset}
  PROVE  LET n == Notice(kind, run, ticker, old, new) IN
         /\ n \in Notes /\ n.kind = kind /\ n.run = run /\ n.ticker = ticker
         /\ n.old = old /\ n.new = new
BY DEF Notice, Notes

LEMMA DigestIs ==
  ASSUME NEW run \in Nat
  PROVE  /\ Notice("digest", run, Unset, Unset, Unset) \in Notes
         /\ Notice("digest", run, Unset, Unset, Unset).kind = "digest"
BY DEF Notice, Notes

(* A writer goes on with the record next. *)
LEMMA OneWriter ==
  ASSUME NEW w \in Writers, NEW next \in Writing, writer \in [Writers -> Writing],
         writer' = [writer EXCEPT ![w] = next]
  PROVE  /\ writer' \in [Writers -> Writing] /\ writer'[w] = next
         /\ \A v \in Writers : v # w => writer'[v] = writer[v]
OBVIOUS

LEMMA RunIs ==
  ASSUME DeskTypes, NEW r \in Runs
  PROVE  /\ books[r].venue \in Venues /\ books[r].of \in Outcomes
         /\ \A k \in Tickers : books[r].of[k] \in Actions \cup {Unset}
         /\ r \in Nat /\ r > 0
<1>1. books[r] \in [venue : Venues, of : Outcomes]
  <2>1. books \in Seq([venue : Venues, of : Outcomes]) /\ r \in 1..Len(books)
    BY DEF DeskTypes, Runs
  <2> QED BY <2>1, ElementOfSeq
<1>2. Outcomes \subseteq [Tickers -> Actions \cup {Unset}]
  BY NoticesAssumption
<1> QED BY <1>1, <1>2 DEF Runs

(* There is a last one of some runs.  The intervals that end with the n-th  *)
(* are finite sets, so one of those that begin at these runs has none of    *)
(* the others within it.                                                    *)
LEMMA LastOf ==
  ASSUME NEW n \in Nat, NEW S \in SUBSET (1..n), S # {}
  PROVE  \E p \in S : \A q \in S : q <= p
<1> DEFINE T == {p..n : p \in S}
<1>1. T \subseteq FiniteSubsetsOf(1..n) /\ T # {}
  <2>1. \A p \in S : p..n \subseteq 1..n /\ IsFiniteSet(p..n)
    BY FS_Interval
  <2> QED BY <2>1 DEF FiniteSubsetsOf
<1>2. IsWellFoundedOn(StrictSubsetOrdering(1..n), FiniteSubsetsOf(1..n))
  BY FS_StrictSubsetOrderingWellFounded
<1>3. PICK x \in T : \A y \in T : ~(<<y, x>> \in StrictSubsetOrdering(1..n))
  <2> HIDE DEF T
  <2> QED BY <1>1, <1>2, WFMin
<1>4. PICK p \in S : x = p..n
  OBVIOUS
<1>5. ASSUME NEW q \in S, q > p PROVE FALSE
  <2>1. /\ q..n \subseteq p..n /\ p \in p..n /\ p \notin q..n
        /\ q..n \subseteq 1..n /\ p..n \subseteq 1..n
    BY <1>5
  <2>2. <<q..n, p..n>> \in StrictSubsetOrdering(1..n)
    BY <2>1 DEF StrictSubsetOrdering
  <2> QED BY <1>3, <1>4, <2>2
<1>6. \A q \in S : q <= p
  BY <1>5
<1> QED BY <1>6

(* The desk's thread has no other run to write snapshots of. *)
LEMMA UnwrittenStays ==
  ASSUME UNCHANGED books,
         writer'["desk"].at = "snapshotting" <=> writer["desk"].at = "snapshotting"
  PROVE  Unwritten' = Unwritten /\ Runs' = Runs
BY DEF Unwritten, Runs

(* The run that a name is compared with is the one that its rating follows. *)
LEMMA ComparedWith ==
  ASSUME DeskTypes, Len(books) > 0, NEW k \in Tickers
  PROVE  LET r == Len(books) IN
         /\ Rated(r, k) # {} => \E p \in Runs : Follows(p, r, k) /\ Before(r, k) = books[p].of[k]
         /\ \A p \in Runs : Follows(p, r, k) => Rated(r, k) # {} /\ Before(r, k) = books[p].of[k]
<1> DEFINE r == Len(books)
           R == Rated(r, k)
           last == CHOOSE p \in R : \A q \in R : q <= p
<1>1. r \in Nat /\ Runs = 1..r /\ shots \subseteq Runs
  BY DEF DeskTypes, Runs
<1>7. \A q \in 1..(r - 1) : q \in shots <=> q \notin failed
  <2>1. failed = Runs \ (shots \cup Unwritten) /\ \A q \in Unwritten : q = r
    BY DEF DeskTypes, Unwritten
  <2> QED BY <1>1, <2>1
<1>2. \A p : p \in R <=> /\ p \in shots /\ p # r /\ books[p].venue = books[r].venue
                         /\ books[p].of[k] # Unset
  BY DEF Rated
<1>3. R \subseteq 1..(r - 1)
  <2> SUFFICES ASSUME NEW p \in R PROVE p \in 1..(r - 1)
    OBVIOUS
  <2>1. p \in 1..r /\ p # r
    BY <1>1, <1>2
  <2> QED BY <1>1, <2>1
<1>4. Before(r, k) = books[last].of[k]
  BY DEF Before
<1>5. ASSUME R # {} PROVE Follows(last, r, k) /\ last \in Runs
  <2>1. last \in R /\ \A q \in R : q <= last
    <3>1. \E p \in R : \A q \in R : q <= p
      <4>1. R \in SUBSET (1..r)
        BY <1>1, <1>3
      <4> HIDE DEF R
      <4> QED BY <1>1, <1>5, <4>1, LastOf
    <3> QED BY <3>1
  <2> HIDE DEF last, R
  <2>2. last \in 1..(r - 1)
    BY <1>3, <2>1
  <2>3. \A q \in (last + 1)..(r - 1) : q \notin R /\ q # r /\ q > last
    BY <1>1, <2>1, <2>2
  <2>4. \A q \in (last + 1)..(r - 1) : q \in 1..(r - 1)
    BY <1>1, <2>2
  <2> QED BY <1>1, <1>2, <1>7, <2>1, <2>2, <2>3, <2>4 DEF Follows
<1>6. ASSUME NEW p \in Runs, Follows(p, r, k) PROVE R # {} /\ last = p
  <2>1. /\ p < r /\ p \notin failed /\ books[p].venue = books[r].venue /\ books[p].of[k] # Unset
        /\ \A q \in (p + 1)..(r - 1) : ~(q \notin failed /\ books[q].venue = books[r].venue
                                         /\ books[q].of[k] # Unset)
    BY <1>6 DEF Follows
  <2>2. p \in R
    BY <1>1, <1>2, <1>7, <2>1
  <2>3. \A q \in R : q <= p
    BY <1>1, <1>2, <1>3, <1>7, <2>1
  <2>4. last \in R /\ \A q \in R : q <= last
    BY <2>2, <2>3
  <2> HIDE DEF last, R
  <2> QED BY <1>3, <2>2, <2>3, <2>4
<1> QED BY <1>4, <1>5, <1>6

NoticesTypes == DeskTypes /\ InboxTypes

(* A writer goes on to its next list. *)
To(w, at, todo) == [writer EXCEPT ![w] = [writer[w] EXCEPT !.at = at, !.todo = todo]]

LEMMA GoesOn ==
  ASSUME NoticesTypes, KeptInv, NEW w \in Writers,
         NEW at \in {"idle", "snapshotting", "comparing", "changes", "digests", "alarms", "again"},
         NEW todo \in SUBSET (Users \X Notes),
         writer' = To(w, at, todo),
         UNCHANGED <<inboxes, cut>>
  PROVE  /\ InboxTypes' /\ KeptInv'
         /\ writer' \in [Writers -> Writing]
         /\ writer'[w].at = at /\ writer'[w].todo = todo
         /\ \A v \in Writers : v # w => writer'[v] = writer[v]
<1>1. UNCHANGED <<log, kept, read, reader, cut>> /\ writer \in [Writers -> Writing]
  BY DEF inboxes, NoticesTypes, DeskTypes
<1>2. InboxTypes'
  BY <1>1 DEF NoticesTypes, InboxTypes
<1> DEFINE next == [writer[w] EXCEPT !.at = at, !.todo = todo]
<1>3. /\ next \in Writing /\ next.at = at /\ next.todo = todo
      /\ next.user = writer[w].user /\ next.doomed = writer[w].doomed
  <2>1. writer[w] \in Writing
    BY <1>1
  <2> QED BY <2>1 DEF Writing
<1> HIDE DEF next
<1>4. /\ writer' \in [Writers -> Writing] /\ writer'[w] = next
      /\ \A v \in Writers : v # w => writer'[v] = writer[v]
  BY <1>1, <1>3 DEF next, To
<1>5. \A v \in Writers : writer'[v].user = writer[v].user /\ writer'[v].doomed = writer[v].doomed
  BY <1>3, <1>4
<1>6. ASSUME NEW u \in Users PROVE Newest(u)' /\ Settled(u)'
  <2>1. Newest(u) /\ Settled(u)
    BY DEF KeptInv
  <2> QED BY <1>1, <1>5, <2>1 DEF Newest, Settled, Pruned, Selecting, Deleting
<1>7. ASSUME NEW v \in Writers PROVE DoomedOld(v)'
  <2>1. DoomedOld(v)
    BY DEF KeptInv
  <2> QED BY <1>1, <1>5, <2>1 DEF DoomedOld
<1> QED BY <1>2, <1>3, <1>4, <1>6, <1>7 DEF KeptInv

LEMMA DeskGoesOn ==
  ASSUME NoticesTypes, KeptInv,
         NEW at \in {"idle", "snapshotting", "comparing", "changes", "digests"},
         NEW todo \in SUBSET (Users \X Notes),
         writer' = To("desk", at, todo),
         UNCHANGED <<inboxes, cut>>
  PROVE  /\ InboxTypes' /\ KeptInv' /\ writer' \in [Writers -> Writing]
         /\ writer'["desk"].at = at /\ writer'["desk"].todo = todo
         /\ writer'["scheduler"] = writer["scheduler"]
<1>1. /\ "desk" \in Writers /\ "scheduler" \in Writers /\ "scheduler" # "desk"
      /\ at \in {"idle", "snapshotting", "comparing", "changes", "digests", "alarms", "again"}
  BY DEF Writers
<1> QED BY <1>1, GoesOn

LEMMA WriterHas ==
  ASSUME NoticesTypes, KeptInv, NEW w \in Writers
  PROVE  /\ writer[w] \in Writing
         /\ ~Pruning(w) => writer[w].user = Unset /\ writer[w].doomed = {}
         /\ Pruning(w) => writer[w].user \in Users
<1>1. writer[w] \in Writing
  BY DEF NoticesTypes, DeskTypes
<1>2. ~Pruning(w) => writer[w].doomed = {}
  BY WorkspaceAssumption DEF KeptInv, DoomedOld, Pruning
<1> QED BY <1>1, <1>2 DEF Pruning, Writing

(* What a run compares, if it is the newest: notices that tell what is true. *)
LEMMA ChangesAre ==
  ASSUME DeskTypes, WorkspaceInv, Len(books) > 0
  PROVE  LET C == Changes(Len(books)) IN
         /\ C \subseteq Users \X Notes
         /\ \A y \in C : True(y[2])
         /\ \A y \in C, z \in C : y[1] = z[1] /\ y[2].ticker = z[2].ticker => y = z
         /\ \A u \in Users, k \in Tickers :
              k \in watch[u][books[Len(books)].venue] /\ MovedTo(k)
                => \E y \in C : y[1] = u /\ Tells(y[2], Len(books), k)
<1> DEFINE r == Len(books)
           N(k) == Notice("watchlist_change", r, k, Before(r, k), books[r].of[k])
<1>1. r \in Nat /\ r \in Runs /\ shots \subseteq Runs /\ Runs = 1..r
  BY DEF DeskTypes, Runs
<1>2. ASSUME NEW k \in Moved(r)
      PROVE  /\ N(k) \in Notes /\ True(N(k)) /\ N(k).ticker = k /\ k \in Tickers
  <2>1. /\ k \in Tickers /\ books[r].of[k] # Unset /\ Rated(r, k) # {}
        /\ Before(r, k) # books[r].of[k]
    BY DEF Moved
  <2>2. PICK p \in Runs : Follows(p, r, k) /\ Before(r, k) = books[p].of[k]
    BY <2>1, ComparedWith
  <2>3. books[r].of[k] \in Actions \cup {Unset} /\ Before(r, k) \in Actions \cup {Unset}
    BY <1>1, <2>1, <2>2, RunIs
  <2>4. /\ N(k) \in Notes /\ N(k).kind = "watchlist_change" /\ N(k).run = r /\ N(k).ticker = k
        /\ N(k).old = Before(r, k) /\ N(k).new = books[r].of[k]
    BY <1>1, <2>1, <2>3, NoticeIs
  <2> HIDE DEF N
  <2> QED BY <1>1, <2>1, <2>2, <2>4 DEF True
<1>3. ASSUME NEW y \in Changes(r)
      PROVE  \E u \in Users, k \in Moved(r) : y = <<u, N(k)>> /\ k \in watch[u][books[r].venue]
  BY DEF Changes
<1>4. ASSUME NEW u \in Users, NEW k \in Moved(r), k \in watch[u][books[r].venue]
      PROVE  <<u, N(k)>> \in Changes(r)
  <2>1. <<u, k>> \in {y \in Users \X Moved(r) : y[2] \in watch[y[1]][books[r].venue]}
    BY <1>4
  <2> QED BY <2>1 DEF Changes
<1>5. ASSUME NEW k \in Tickers, MovedTo(k) PROVE k \in Moved(r)
  <2>1. PICK p \in Runs : /\ Follows(p, r, k) /\ books[r].of[k] # Unset
                          /\ books[p].of[k] # books[r].of[k]
    BY <1>5 DEF MovedTo
  <2>2. Rated(r, k) # {} /\ Before(r, k) = books[p].of[k]
    BY <2>1, ComparedWith
  <2> QED BY <2>1, <2>2 DEF Moved
<1> HIDE DEF N
<1>6. Changes(r) \subseteq Users \X Notes /\ \A y \in Changes(r) : True(y[2])
  BY <1>2, <1>3
<1>7. ASSUME NEW y \in Changes(r), NEW z \in Changes(r), y[1] = z[1], y[2].ticker = z[2].ticker
      PROVE  y = z
  <2>1. PICK u \in Users, k \in Moved(r) : y = <<u, N(k)>>
    BY <1>3
  <2>2. PICK v \in Users, l \in Moved(r) : z = <<v, N(l)>>
    BY <1>3
  <2> QED BY <1>2, <1>7, <2>1, <2>2
<1>8. ASSUME NEW u \in Users, NEW k \in Tickers, k \in watch[u][books[r].venue], MovedTo(k)
      PROVE  \E y \in Changes(r) : y[1] = u /\ Tells(y[2], r, k)
  <2>1. k \in Moved(r)
    BY <1>5, <1>8
  <2>2. <<u, N(k)>> \in Changes(r) /\ True(N(k)) /\ N(k).ticker = k
    BY <1>2, <1>4, <1>8, <2>1
  <2> QED BY <2>2 DEF Tells, True
<1> QED BY <1>6, <1>7, <1>8

(* The desk writes nothing meanwhile. *)
LEMMA DeskStays ==
  ASSUME LogInv, TodoInv, OwedInv, UNCHANGED <<books, shots, failed, log>>,
         writer'["desk"].at = writer["desk"].at, writer'["desk"].todo = writer["desk"].todo,
         \A y \in writer'["scheduler"].todo : y[2].kind = "run_failed",
         \A x \in owed' : x \in owed /\ x[2] \in watch'[x[1]][books[Len(books)].venue]
  PROVE  LogInv' /\ TodoInv' /\ OwedInv'
<1>1. LogInv'
  BY DEF LogInv
<1>2. /\ \A n : True(n)' <=> True(n)
      /\ \A u, r, k : Logged(u, r, k)' <=> Logged(u, r, k)
      /\ \A u, r, k : Owed(u, r, k)' <=> Owed(u, r, k)
      /\ \A k : MovedTo(k)' <=> MovedTo(k)
  BY DEF True, Logged, Owed, MovedTo, Follows, Runs
<1>3. TodoInv'
  BY <1>2 DEF TodoInv
<1>4. OwedInv'
  BY <1>2 DEF OwedInv
<1> QED BY <1>1, <1>3, <1>4

LEMMA CompleteKeeps ==
  ASSUME NoticesInv, NEW v \in Venues, NEW ratings \in Outcomes, Complete(v, ratings)
  PROVE  (DeskTypes /\ InboxTypes /\ KeptInv /\ LogInv /\ TodoInv /\ OwedInv)'
<1> DEFINE run == [venue |-> v, of |-> ratings]
<1>1. /\ writer["desk"].at = "idle" /\ Len(books) < MaxRuns /\ books' = Append(books, run)
      /\ writer' = To("desk", "snapshotting", writer["desk"].todo)
      /\ owed' = {x \in Users \X Tickers : x[2] \in watch[x[1]][v]}
      /\ UNCHANGED <<workspace, shots, alarms, inboxes, cut, failed>>
  <2>1. writer["desk"] \in Writing /\ writer \in [Writers -> Writing]
    BY WritersAre DEF NoticesInv, DeskTypes
  <2> QED BY <2>1 DEF Complete, To, Writing
<1>2. NoticesTypes /\ KeptInv /\ DeskTypes
  BY DEF NoticesInv, NoticesTypes
<1>3. writer["desk"].todo = {}
  BY <1>1 DEF NoticesInv, TodoInv
<1>4. /\ InboxTypes' /\ KeptInv' /\ writer' \in [Writers -> Writing]
      /\ writer'["desk"].at = "snapshotting" /\ writer'["desk"].todo = {}
      /\ writer'["scheduler"] = writer["scheduler"]
  BY <1>1, <1>2, <1>3, DeskGoesOn
<1>5. /\ books \in Seq([venue : Venues, of : Outcomes]) /\ run \in [venue : Venues, of : Outcomes]
      /\ shots \subseteq 1..Len(books) /\ MaxRuns \in Nat /\ run.venue = v
  BY <1>2, NoticesAssumption DEF DeskTypes, Runs
<1> HIDE DEF run
<1>6. /\ books' \in Seq([venue : Venues, of : Outcomes]) /\ Len(books') = Len(books) + 1
      /\ books'[Len(books')] = run /\ Len(books) \in Nat
  BY <1>1, <1>5, AppendProperties
<1>7. DeskTypes'
  <2>1. Len(books') <= MaxRuns /\ shots' \subseteq 1..Len(books')
    BY <1>1, <1>5, <1>6
  <2>2. failed' = Runs' \ (shots' \cup Unwritten') /\ shots' \cap Unwritten' = {}
    <3>1. failed = 1..Len(books) \ shots
      BY <1>1, <1>2 DEF DeskTypes, Runs, Unwritten
    <3>2. Runs' = 1..(Len(books) + 1) /\ Unwritten' = {Len(books) + 1}
      BY <1>4, <1>6 DEF Runs, Unwritten
    <3> QED BY <1>1, <1>5, <1>6, <3>1, <3>2
  <2> QED BY <1>1, <1>2, <1>4, <1>6, <2>1, <2>2 DEF DeskTypes, Runs
<1>8. LogInv'
  <2>1. UNCHANGED log
    BY <1>1 DEF inboxes
  <2>2. ASSUME NEW u \in Users, NEW i \in 1..Len(log[u]), log[u][i].kind = "watchlist_change"
        PROVE  log[u][i].run <= Len(books') /\ log[u][i].run < Len(books')
    <3>1. log[u][i].run <= Len(books)
      BY <2>2 DEF NoticesInv, LogInv
    <3>2. log[u][i].run \in Nat
      <4>1. log[u] \in Seq(Notes)
        BY <1>2 DEF NoticesTypes, InboxTypes
      <4>2. log[u][i] \in Notes
        BY <4>1, ElementOfSeq
      <4> QED BY <4>2 DEF Notes
    <3> QED BY <1>6, <3>1, <3>2
  <2> QED BY <2>1, <2>2 DEF LogInv
<1>9. TodoInv'
  BY <1>4, <1>6 DEF NoticesInv, TodoInv
<1>10. OwedInv'
  <2>1. UNCHANGED watch
    BY <1>1 DEF workspace, tables
  <2> QED BY <1>1, <1>4, <1>5, <1>6, <2>1 DEF OwedInv
<1> QED BY <1>4, <1>7, <1>8, <1>9, <1>10

LEMMA SnapshotKeeps ==
  ASSUME NoticesInv, Snapshot
  PROVE  (DeskTypes /\ InboxTypes /\ KeptInv /\ LogInv /\ TodoInv /\ OwedInv)'
<1>1. /\ writer["desk"].at = "snapshotting"
      /\ \/ shots' = shots \cup {Len(books)} /\ failed' = failed
         \/ shots' = shots /\ failed' = failed \cup {Len(books)}
      /\ writer' = To("desk", "comparing", writer["desk"].todo)
      /\ UNCHANGED <<workspace, books, alarms, inboxes, owed, cut>>
  <2>1. writer["desk"] \in Writing /\ writer \in [Writers -> Writing]
    BY WritersAre DEF NoticesInv, DeskTypes
  <2> QED BY <2>1 DEF Snapshot, To, Writing
<1>2. NoticesTypes /\ KeptInv /\ DeskTypes /\ TodoInv
  BY DEF NoticesInv, NoticesTypes
<1>3. writer["desk"].todo = {} /\ Len(books) > 0
  BY <1>1, <1>2 DEF TodoInv
<1>4. /\ InboxTypes' /\ KeptInv' /\ writer' \in [Writers -> Writing]
      /\ writer'["desk"].at = "comparing" /\ writer'["desk"].todo = {}
      /\ writer'["scheduler"] = writer["scheduler"]
  BY <1>1, <1>2, <1>3, DeskGoesOn
<1>5. UNCHANGED <<watch, log, books>>
  BY <1>1 DEF workspace, tables, inboxes
<1>6. DeskTypes'
  <2>1. Len(books) \in Nat /\ Len(books) \in Runs
    BY <1>2, <1>3 DEF DeskTypes, Runs
  <2>2. Unwritten = {Len(books)} /\ Unwritten' = {} /\ Runs' = Runs
    BY <1>1, <1>4, <2>1 DEF Unwritten, Runs
  <2>3. failed = Runs \ (shots \cup Unwritten)
    BY <1>2 DEF DeskTypes
  <2>4. failed' = Runs' \ (shots' \cup Unwritten') /\ shots' \subseteq Runs'
        /\ shots' \cap Unwritten' = {}
    <3>1. Len(books) \notin shots
      BY <1>2, <2>2 DEF DeskTypes
    <3> QED BY <1>1, <1>2, <2>1, <2>2, <2>3, <3>1 DEF DeskTypes
  <2> QED BY <1>1, <1>2, <1>4, <2>1, <2>4 DEF DeskTypes, Runs
<1>7. LogInv'
  BY <1>1, <1>4, <1>5 DEF NoticesInv, LogInv
<1>8. TodoInv'
  BY <1>2, <1>3, <1>4, <1>5 DEF TodoInv
<1>9. OwedInv'
  BY <1>1, <1>4, <1>5 DEF NoticesInv, OwedInv
<1> QED BY <1>4, <1>6, <1>7, <1>8, <1>9

LEMMA CompareKeeps ==
  ASSUME NoticesInv, Compare
  PROVE  (DeskTypes /\ InboxTypes /\ KeptInv /\ LogInv /\ TodoInv /\ OwedInv)'
<1> DEFINE r == Len(books)
<1>1. /\ writer["desk"].at = "comparing"
      /\ writer' = To("desk", "changes", Changes(r))
      /\ UNCHANGED <<workspace, books, shots, alarms, inboxes, ghosts>>
  <2>1. writer["desk"] \in Writing /\ writer \in [Writers -> Writing]
    BY WritersAre DEF NoticesInv, DeskTypes
  <2> QED BY <2>1 DEF Compare, To, Writing
<1>2. NoticesTypes /\ KeptInv /\ DeskTypes /\ TodoInv /\ WorkspaceInv
  BY DEF NoticesInv, NoticesTypes
<1>3. r > 0 /\ r \in Nat
  BY <1>1, <1>2 DEF TodoInv, DeskTypes
<1>4. /\ Changes(r) \subseteq Users \X Notes
      /\ \A y \in Changes(r) : True(y[2])
      /\ \A y \in Changes(r), z \in Changes(r) :
           y[1] = z[1] /\ y[2].ticker = z[2].ticker => y = z
      /\ \A u \in Users, k \in Tickers :
           k \in watch[u][books[r].venue] /\ MovedTo(k)
             => \E y \in Changes(r) : y[1] = u /\ Tells(y[2], r, k)
  BY <1>2, <1>3, ChangesAre
<1>5. /\ InboxTypes' /\ KeptInv' /\ writer' \in [Writers -> Writing]
      /\ writer'["desk"].at = "changes" /\ writer'["desk"].todo = Changes(r)
      /\ writer'["scheduler"] = writer["scheduler"]
  <2> HIDE DEF r
  <2>1. Changes(r) \in SUBSET (Users \X Notes)
    BY <1>4
  <2> QED BY <1>1, <1>2, <2>1, DeskGoesOn DEF ghosts
<1>6. UNCHANGED <<watch, log, books, shots, owed, cut, failed>>
  BY <1>1 DEF workspace, tables, inboxes, ghosts
<1>7. DeskTypes'
  BY <1>1, <1>2, <1>5, <1>6 DEF DeskTypes, Runs, Unwritten
<1>8. LogInv'
  BY <1>5, <1>6 DEF NoticesInv, LogInv
<1>9. TodoInv'
  <2>1. \A n : True(n)' <=> True(n)
    BY <1>6 DEF True, Follows, Runs
  <2>2. ASSUME NEW y \in Changes(r) PROVE ~Logged(y[1], r, y[2].ticker)'
    <3>1. y[1] \in Users
      BY <1>4
    <3>2. \A i \in 1..Len(log[y[1]]) : log[y[1]][i].kind = "watchlist_change"
                                         => log[y[1]][i].run < r
      BY <1>1, <3>1 DEF NoticesInv, LogInv
    <3> QED BY <1>3, <1>6, <3>2 DEF Logged, Tells
  <2> QED BY <1>2, <1>3, <1>4, <1>5, <1>6, <2>1, <2>2 DEF TodoInv
<1>10. OwedInv'
  <2> SUFFICES ASSUME NEW x \in owed
               PROVE  /\ x[2] \in watch[x[1]][books[r].venue]
                      /\ MovedTo(x[2])' => Owed(x[1], r, x[2])'
    BY <1>3, <1>6 DEF OwedInv
  <2>1. MovedTo(x[2])' <=> MovedTo(x[2])
    BY <1>6 DEF MovedTo, Follows, Runs
  <2>2. x[1] \in Users /\ x[2] \in Tickers /\ x[2] \in watch[x[1]][books[r].venue]
    BY <1>2 DEF DeskTypes, NoticesInv, OwedInv
  <2>3. MovedTo(x[2]) => \E y \in Changes(r) : y[1] = x[1] /\ Tells(y[2], r, x[2])
    BY <1>4, <2>2
  <2>4. \A y : Tells(y[2], r, x[2])' <=> Tells(y[2], r, x[2])
    BY <1>6 DEF Tells
  <2>5. r' = r
    BY <1>6
  <2> HIDE DEF r
  <2> QED BY <1>5, <2>1, <2>2, <2>3, <2>4, <2>5 DEF Owed
<1> QED BY <1>5, <1>7, <1>8, <1>9, <1>10

LEMMA DigestKeeps ==
  ASSUME NoticesInv, NEW scheduled \in BOOLEAN, Digest(scheduled)
  PROVE  (DeskTypes /\ InboxTypes /\ KeptInv /\ LogInv /\ TodoInv /\ OwedInv)'
<1> DEFINE next == IF scheduled THEN Digests(Len(books)) ELSE {}
<1>1. /\ writer["desk"].at = "changes" /\ writer["desk"].todo = {}
      /\ writer' = To("desk", "digests", next)
      /\ UNCHANGED <<workspace, books, shots, alarms, inboxes, ghosts>>
  <2>1. writer["desk"] \in Writing /\ writer \in [Writers -> Writing]
    BY WritersAre DEF NoticesInv, DeskTypes
  <2> QED BY <2>1 DEF Digest, To, Writing
<1>2. NoticesTypes /\ KeptInv /\ DeskTypes /\ TodoInv /\ LogInv /\ OwedInv
  BY DEF NoticesInv, NoticesTypes
<1>3. Len(books) > 0 /\ Len(books) \in Nat
  BY <1>1, <1>2 DEF TodoInv, DeskTypes
<1>4. next \in SUBSET (Users \X Notes) /\ \A y \in next : y[2].kind = "digest"
  <2>1. Notice("digest", Len(books), Unset, Unset, Unset) \in Notes
        /\ Notice("digest", Len(books), Unset, Unset, Unset).kind = "digest"
    BY <1>3, DigestIs
  <2> QED BY <2>1 DEF Digests
<1> HIDE DEF next
<1>5. /\ InboxTypes' /\ KeptInv' /\ writer' \in [Writers -> Writing]
      /\ writer'["desk"].at = "digests" /\ writer'["desk"].todo = next
      /\ writer'["scheduler"] = writer["scheduler"]
  BY <1>1, <1>2, <1>4, DeskGoesOn DEF ghosts
<1>6. UNCHANGED <<watch, log, books, shots, owed, cut, failed>>
  BY <1>1 DEF workspace, tables, inboxes, ghosts
<1>7. DeskTypes'
  <2>1. Unwritten' = Unwritten /\ Runs' = Runs
    BY <1>1, <1>5, <1>6, UnwrittenStays
  <2> QED BY <1>1, <1>2, <1>5, <1>6, <2>1 DEF DeskTypes
<1>8. LogInv'
  BY <1>2, <1>5, <1>6 DEF LogInv
<1>9. TodoInv'
  BY <1>2, <1>3, <1>4, <1>5, <1>6 DEF TodoInv
<1>10. OwedInv'
  <2> SUFFICES ASSUME NEW x \in owed
               PROVE  /\ x[2] \in watch[x[1]][books[Len(books)].venue]
                      /\ MovedTo(x[2])' => Logged(x[1], Len(books), x[2])'
    BY <1>3, <1>6 DEF OwedInv
  <2>1. MovedTo(x[2])' <=> MovedTo(x[2])
    BY <1>6 DEF MovedTo, Follows, Runs
  <2>2. Logged(x[1], Len(books), x[2])' <=> Logged(x[1], Len(books), x[2])
    BY <1>6 DEF Logged, Tells
  <2>3. ~Owed(x[1], Len(books), x[2])
    BY <1>1 DEF Owed
  <2> QED BY <1>1, <1>2, <2>1, <2>2, <2>3 DEF OwedInv
<1> QED BY <1>5, <1>7, <1>8, <1>9, <1>10

LEMMA RestKeeps ==
  ASSUME NoticesInv, NEW w \in Writers, Rest(w)
  PROVE  (DeskTypes /\ InboxTypes /\ KeptInv /\ LogInv /\ TodoInv /\ OwedInv)'
<1>1. NoticesTypes /\ KeptInv /\ DeskTypes /\ TodoInv /\ LogInv /\ OwedInv
  BY DEF NoticesInv, NoticesTypes
<1>2. /\ writer[w].at \in {"digests", "alarms", "again"} /\ writer[w].todo = {}
      /\ writer' = To(w, "idle", {})
      /\ UNCHANGED <<workspace, books, shots, alarms, inboxes, ghosts>>
  <2>1. writer[w] \in Writing /\ writer[w].user = Unset /\ writer[w].doomed = {}
    BY <1>1, WriterHas DEF Rest
  <2>2. [writer[w] EXCEPT !.at = "idle", !.todo = {}] = Resting
    <3> DEFINE q == [writer[w] EXCEPT !.at = "idle", !.todo = {}]
    <3>1. /\ q \in Writing /\ q.at = "idle" /\ q.todo = {} /\ q.user = Unset /\ q.doomed = {}
      BY <2>1 DEF Writing
    <3> HIDE DEF q
    <3>2. q = [at |-> q.at, todo |-> q.todo, user |-> q.user, doomed |-> q.doomed]
      BY <3>1 DEF Writing
    <3>3. q = Resting
      BY <3>1, <3>2 DEF Resting
    <3> QED BY <3>3 DEF q
  <2> QED BY <2>2 DEF Rest, To
<1>3. /\ InboxTypes' /\ KeptInv' /\ writer' \in [Writers -> Writing]
      /\ writer'[w].at = "idle" /\ writer'[w].todo = {}
      /\ \A v \in Writers : v # w => writer'[v] = writer[v]
  BY <1>1, <1>2, GoesOn DEF ghosts
<1>4. UNCHANGED <<watch, log, books, shots, owed, cut, failed>>
  BY <1>2 DEF workspace, tables, inboxes, ghosts
<1>5. "desk" \in Writers /\ "scheduler" \in Writers /\ "desk" # "scheduler"
      /\ (w = "desk" \/ w = "scheduler")
  BY DEF Writers
<1>6. DeskTypes'
  <2>1. writer'["desk"].at = "snapshotting" <=> writer["desk"].at = "snapshotting"
    BY <1>2, <1>3, <1>5
  <2>2. Unwritten' = Unwritten /\ Runs' = Runs
    BY <1>4, <2>1, UnwrittenStays
  <2> QED BY <1>1, <1>2, <1>3, <1>4, <1>5, <2>2 DEF DeskTypes
<1>7. CASE w = "scheduler"
  <2>1. writer'["desk"] = writer["desk"]
    BY <1>3, <1>5, <1>7
  <2>2. \A x \in owed : x[2] \in watch[x[1]][books[Len(books)].venue]
    BY <1>1 DEF OwedInv
  <2>3. LogInv' /\ TodoInv' /\ OwedInv'
    BY <1>1, <1>3, <1>4, <1>7, <2>1, <2>2, DeskStays
  <2> QED BY <1>3, <1>6, <2>3
<1>8. CASE w = "desk"
  <2>1. writer'["scheduler"] = writer["scheduler"] /\ writer["desk"].at = "digests"
    BY <1>1, <1>2, <1>3, <1>5, <1>8 DEF DeskTypes
  <2>2. LogInv'
    BY <1>1, <1>3, <1>4, <1>8 DEF LogInv
  <2>3. TodoInv'
    BY <1>1, <1>3, <1>4, <1>8, <2>1 DEF TodoInv
  <2>4. OwedInv'
    <3> SUFFICES ASSUME NEW x \in owed
                 PROVE  /\ Len(books) > 0 /\ x[2] \in watch[x[1]][books[Len(books)].venue]
                        /\ MovedTo(x[2])' => Logged(x[1], Len(books), x[2])'
      BY <1>4 DEF OwedInv
    <3>1. MovedTo(x[2])' <=> MovedTo(x[2])
      BY <1>4 DEF MovedTo, Follows, Runs
    <3>2. Logged(x[1], Len(books), x[2])' <=> Logged(x[1], Len(books), x[2])
      BY <1>4 DEF Logged, Tells
    <3>3. ~Owed(x[1], Len(books), x[2])
      BY <1>2, <1>8 DEF Owed
    <3> QED BY <1>1, <2>1, <3>1, <3>2, <3>3 DEF OwedInv
  <2> QED BY <1>3, <1>6, <2>2, <2>3, <2>4
<1> QED BY <1>5, <1>7, <1>8

LEMMA AlarmKeeps ==
  ASSUME NoticesInv, Alarm
  PROVE  (DeskTypes /\ InboxTypes /\ KeptInv /\ LogInv /\ TodoInv /\ OwedInv)'
<1> DEFINE bell == Notice("run_failed", alarms', Unset, Unset, Unset)
           next == Bells(alarms')
<1>1. NoticesTypes /\ KeptInv /\ DeskTypes /\ TodoInv /\ LogInv /\ OwedInv
  BY DEF NoticesInv, NoticesTypes
<1>2. /\ writer["scheduler"].at = "idle" /\ alarms < MaxAlarms /\ alarms' = alarms + 1
      /\ \E at \in {"alarms", "again"} : writer' = To("scheduler", at, next)
      /\ UNCHANGED <<workspace, books, shots, inboxes, ghosts>>
  <2>1. writer["scheduler"] \in Writing /\ writer \in [Writers -> Writing]
    BY <1>1, WritersAre DEF DeskTypes
  <2>2. PICK at \in {"alarms", "again"} :
          writer' = [writer EXCEPT !["scheduler"].at = at, !["scheduler"].todo = Bells(alarms')]
    BY DEF Alarm
  <2>3. writer' = To("scheduler", at, next)
    <3> HIDE DEF next
    <3>1. next = Bells(alarms')
      BY DEF next
    <3> QED BY <2>1, <2>2, <3>1 DEF To, Writing
  <2>4. \E a \in {"alarms", "again"} : writer' = To("scheduler", a, next)
    BY <2>3
  <2> HIDE DEF next
  <2> QED BY <2>4 DEF Alarm
<1>3. alarms' \in 0..MaxAlarms /\ alarms' \in Nat
  BY <1>1, <1>2, NoticesAssumption DEF DeskTypes
<1>4. next \in SUBSET (Users \X Notes) /\ \A y \in next : y[2].kind = "run_failed"
  <2>1. bell \in Notes /\ bell.kind = "run_failed"
    BY <1>3 DEF Notice, Notes
  <2> QED BY <2>1, NoticesAssumption DEF Bells, bell
<1>5. "desk" \in Writers /\ "scheduler" \in Writers /\ "desk" # "scheduler"
  BY DEF Writers
<1>6. PICK list \in SUBSET (Users \X Notes), at \in {"alarms", "again"} :
        writer' = To("scheduler", at, list) /\ \A y \in list : y[2].kind = "run_failed"
  BY <1>2, <1>4
<1>7. /\ InboxTypes' /\ KeptInv' /\ writer' \in [Writers -> Writing]
      /\ writer'["scheduler"].at = at /\ writer'["scheduler"].todo = list
      /\ writer'["desk"] = writer["desk"]
  <2>1. UNCHANGED <<inboxes, cut>>
    BY <1>2 DEF ghosts
  <2> HIDE DEF next
  <2> QED BY <1>1, <1>5, <1>6, <2>1, GoesOn
<1>8. UNCHANGED <<watch, log, books, shots, owed, cut, failed>>
  BY <1>2 DEF workspace, tables, inboxes, ghosts
<1>9. DeskTypes'
  <2>1. Unwritten' = Unwritten /\ Runs' = Runs
    BY <1>7, <1>8, UnwrittenStays
  <2> QED BY <1>1, <1>2, <1>3, <1>7, <1>8, <2>1 DEF DeskTypes
<1>10. \A x \in owed : x[2] \in watch[x[1]][books[Len(books)].venue]
  BY <1>1 DEF OwedInv
<1>11. LogInv' /\ TodoInv' /\ OwedInv'
  BY <1>1, <1>6, <1>7, <1>8, <1>10, DeskStays
<1> QED BY <1>7, <1>9, <1>11

LEMMA KeptStays ==
  ASSUME KeptInv, UNCHANGED <<log, kept, writer, cut>>
  PROVE  KeptInv'
BY DEF KeptInv, Newest, Settled, Pruned, Selecting, Deleting, DoomedOld

(* The rows beyond the newest Keep of an interval. *)
LEMMA BeyondIs ==
  ASSUME NEW n \in Nat, NEW lo \in Nat
  PROVE  Beyond(lo..n) = {i \in lo..n : i <= n - Keep}
<1> SUFFICES ASSUME NEW i \in lo..n
             PROVE  Cardinality({j \in lo..n : j > i}) >= Keep <=> i <= n - Keep
  BY DEF Beyond
<1> DEFINE newer == {j \in lo..n : j > i}
<1>1. newer = (i + 1)..n
  OBVIOUS
<1>2. Cardinality((i + 1)..n) = n - i
  <2>1. Cardinality((i + 1)..n) = IF i + 1 > n THEN 0 ELSE n - (i + 1) + 1
    BY FS_Interval
  <2> QED BY <2>1
<1>3. Cardinality(newer) >= Keep <=> i <= n - Keep
  <2> HIDE DEF newer
  <2> QED BY <1>1, <1>2, NoticesAssumption
<1> QED BY <1>3

LEMMA CreateKeeps ==
  ASSUME NoticesInv, NEW w \in Writers, Create(w)
  PROVE  (DeskTypes /\ InboxTypes /\ KeptInv /\ LogInv /\ TodoInv /\ OwedInv)'
<1>1. NoticesTypes /\ KeptInv /\ DeskTypes /\ TodoInv /\ LogInv /\ OwedInv /\ InboxTypes
  BY DEF NoticesInv, NoticesTypes
<1>2. PICK x \in writer[w].todo :
        /\ log' = [log EXCEPT ![x[1]] = Append(log[x[1]], x[2])]
        /\ kept' = [kept EXCEPT ![x[1]] = kept[x[1]] \cup {Len(log'[x[1]])}]
        /\ writer' = [writer EXCEPT ![w] = [writer[w] EXCEPT !.todo = writer[w].todo \ {x},
                                                              !.user = x[1]]]
  <2>1. writer[w] \in Writing /\ writer \in [Writers -> Writing]
        /\ log \in [Users -> Seq(Notes)] /\ kept \in [Users -> SUBSET Nat]
    BY <1>1 DEF DeskTypes, InboxTypes
  <2> QED BY <2>1 DEF Create, Writing
<1> DEFINE u == x[1]
           n == Len(log[u])
           next == [writer[w] EXCEPT !.todo = writer[w].todo \ {x}, !.user = u]
<1>3. /\ writer[w] \in Writing /\ writer[w].user = Unset /\ writer[w].doomed = {}
      /\ UNCHANGED <<workspace, books, shots, alarms, read, reader, owed, cut, failed>>
  BY <1>1, WriterHas DEF Create, ghosts
<1>4. x \in Users \X Notes /\ u \in Users /\ x[2] \in Notes /\ Unset \notin Users
  BY <1>3, WorkspaceAssumption DEF Writing
<1>5. /\ next \in Writing /\ next.at = writer[w].at /\ next.todo = writer[w].todo \ {x}
      /\ next.user = u /\ next.doomed = {}
  BY <1>3, <1>4 DEF Writing
<1>6. /\ writer' \in [Writers -> Writing] /\ writer'[w] = next
      /\ \A v \in Writers : v # w => writer'[v] = writer[v]
  <2>1. writer \in [Writers -> Writing] /\ writer' = [writer EXCEPT ![w] = next]
    BY <1>1, <1>2 DEF DeskTypes
  <2> HIDE DEF next
  <2> QED BY <1>5, <2>1, OneWriter
<1> HIDE DEF next
<1>7. /\ log \in [Users -> Seq(Notes)] /\ log[u] \in Seq(Notes) /\ n \in Nat
      /\ log' = [log EXCEPT ![u] = Append(log[u], x[2])]
  BY <1>1, <1>2, <1>4 DEF InboxTypes
<1>8. /\ Append(log[u], x[2]) \in Seq(Notes) /\ Len(Append(log[u], x[2])) = n + 1
      /\ \A i \in 1..n : Append(log[u], x[2])[i] = log[u][i]
      /\ Append(log[u], x[2])[n + 1] = x[2]
  BY <1>4, <1>7, AppendProperties
<1>9. /\ log' \in [Users -> Seq(Notes)] /\ log'[u] \in Seq(Notes) /\ Len(log'[u]) = n + 1
      /\ \A i \in 1..n : log'[u][i] = log[u][i]
      /\ log'[u][n + 1] = x[2]
      /\ \A v \in Users : v # u => log'[v] = log[v]
  BY <1>4, <1>7, <1>8
<1>10. /\ kept' \in [Users -> SUBSET Nat] /\ kept'[u] = kept[u] \cup {n + 1}
       /\ \A v \in Users : v # u => kept'[v] = kept[v]
  BY <1>1, <1>2, <1>4, <1>7, <1>9 DEF InboxTypes
<1>11. UNCHANGED <<watch, books, shots, alarms, read, reader, owed, cut, failed>>
  BY <1>3 DEF workspace, tables
<1>12. InboxTypes'
  <2>1. \A v \in Users : /\ read[v] \subseteq kept'[v] /\ kept'[v] \subseteq 1..Len(log'[v])
                         /\ reader[v] \subseteq 0..Len(log'[v])
    <3> SUFFICES ASSUME NEW v \in Users
                 PROVE  /\ read[v] \subseteq kept'[v] /\ kept'[v] \subseteq 1..Len(log'[v])
                        /\ reader[v] \subseteq 0..Len(log'[v])
      OBVIOUS
    <3>1. /\ read[v] \subseteq kept[v] /\ kept[v] \subseteq 1..Len(log[v])
          /\ reader[v] \subseteq 0..Len(log[v])
      BY <1>1 DEF InboxTypes
    <3>2. CASE v = u
      BY <1>7, <1>9, <1>10, <3>1, <3>2
    <3> QED BY <1>9, <1>10, <3>1, <3>2
  <2> QED BY <1>1, <1>9, <1>10, <1>11, <2>1 DEF InboxTypes
<1>13. KeptInv'
  <2>1. ASSUME NEW v \in Users, v # u PROVE Newest(v)' /\ Settled(v)'
    <3>1. Newest(v) /\ Settled(v)
      BY <1>1 DEF KeptInv
    <3>2. Newest(v)'
      BY <1>9, <1>10, <2>1, <3>1 DEF Newest
    <3>3. \A z \in Writers : (writer[z].user = v <=> writer'[z].user = v)
      BY <1>3, <1>4, <1>5, <1>6, <2>1
    <3>4. \A z \in Writers : writer[z].user = v => writer'[z] = writer[z]
      BY <1>3, <1>4, <1>6, <2>1
    <3> QED BY <1>9, <1>10, <1>11, <2>1, <3>1, <3>2, <3>3, <3>4
            DEF Settled, Pruned, Selecting, Deleting
  <2>2. Newest(u)'
    <3>1. PICK lo \in 1..(n + 1) : kept[u] = lo..n /\ (lo = 1 \/ n - lo + 1 >= Keep)
      BY <1>1, <1>4 DEF KeptInv, Newest
    <3>2. kept'[u] = lo..(n + 1) /\ (lo = 1 \/ (n + 1) - lo + 1 >= Keep)
          /\ lo \in 1..((n + 1) + 1)
      BY <1>7, <1>10, <3>1, NoticesAssumption
    <3> QED BY <1>9, <3>2 DEF Newest
  <2>3. Settled(u)'
    BY <1>5, <1>6 DEF Settled, Selecting
  <2>4. ASSUME NEW z \in Writers PROVE DoomedOld(z)'
    <3>1. CASE z = w
      BY <1>5, <1>6, <3>1 DEF DoomedOld
    <3>2. CASE z # w
      <4>1. writer'[z] = writer[z] /\ DoomedOld(z)
        BY <1>1, <1>6, <3>2 DEF KeptInv
      <4> SUFFICES ASSUME writer[z].doomed # {}
                   PROVE  /\ writer[z].user \in Users
                          /\ \E h \in 0..Len(log'[writer[z].user]) :
                               /\ h <= Len(log'[writer[z].user]) - Keep
                               /\ writer[z].doomed \subseteq 1..h
                               /\ \A i \in kept'[writer[z].user] : i <= h => i \in writer[z].doomed
        BY <4>1 DEF DoomedOld
      <4>2. PICK h \in 0..Len(log[writer[z].user]) :
              /\ writer[z].user \in Users
              /\ h <= Len(log[writer[z].user]) - Keep
              /\ writer[z].doomed \subseteq 1..h
              /\ \A i \in kept[writer[z].user] : i <= h => i \in writer[z].doomed
        BY <4>1 DEF DoomedOld
      <4>3. CASE writer[z].user # u
        BY <1>9, <1>10, <4>2, <4>3
      <4>4. CASE writer[z].user = u
        <5>1. h \in 0..n /\ h <= n - Keep /\ writer[z].doomed \subseteq 1..h
              /\ \A i \in kept[u] : i <= h => i \in writer[z].doomed
          BY <4>2, <4>4
        <5>2. h \in 0..(n + 1) /\ h <= (n + 1) - Keep /\ ~(n + 1 <= h)
          BY <1>7, <5>1, NoticesAssumption
        <5>3. h \in 0..Len(log'[u]) /\ h <= Len(log'[u]) - Keep
          BY <1>9, <5>2
        <5>4. ASSUME NEW i \in kept'[u], i <= h PROVE i \in writer[z].doomed
          BY <1>10, <5>1, <5>2, <5>4
        <5>5. \E g \in 0..Len(log'[u]) : /\ g <= Len(log'[u]) - Keep
                                         /\ writer[z].doomed \subseteq 1..g
                                         /\ \A i \in kept'[u] : i <= g => i \in writer[z].doomed
          BY <5>1, <5>3, <5>4
        <5> QED BY <4>2, <4>4, <5>5
      <4> QED BY <4>3, <4>4
    <3> QED BY <3>1, <3>2
  <2> QED BY <2>1, <2>2, <2>3, <2>4 DEF KeptInv
<1>14. DeskTypes'
  <2>1. \A z \in Writers : writer'[z].at = writer[z].at
    BY <1>5, <1>6
  <2>2. Unwritten' = Unwritten /\ Runs' = Runs
    BY <1>11, <2>1, WritersAre, UnwrittenStays
  <2> QED BY <1>1, <1>6, <1>11, <2>1, <2>2, WritersAre DEF DeskTypes
<1>15. \A v, r, k : v \in Users =>
         (Logged(v, r, k)' <=> Logged(v, r, k) \/ (v = u /\ Tells(x[2], r, k)))
  <2> SUFFICES ASSUME NEW v \in Users, NEW r, NEW k
               PROVE  Logged(v, r, k)' <=> Logged(v, r, k) \/ (v = u /\ Tells(x[2], r, k))
    OBVIOUS
  <2>1. CASE v # u
    BY <1>9, <2>1 DEF Logged, Tells
  <2>2. CASE v = u
    <3>1. 1..Len(log'[v]) = (1..n) \cup {n + 1}
      BY <1>7, <1>9, <2>2
    <3>2. Logged(v, r, k)' <=> \E i \in 1..Len(log'[v]) : Tells(log'[v][i], r, k)
      BY DEF Logged, Tells
    <3> QED BY <1>9, <2>2, <3>1, <3>2 DEF Logged
  <2> QED BY <2>1, <2>2
<1>16. /\ \A m : True(m)' <=> True(m)
       /\ \A k : MovedTo(k)' <=> MovedTo(k)
  BY <1>11 DEF True, MovedTo, Follows, Runs
<1>17. ASSUME w = "desk", writer["desk"].at = "changes"
       PROVE  /\ True(x[2])
              /\ \A y \in writer["desk"].todo \ {x} : ~(y[1] = u /\ y[2].ticker = x[2].ticker)
  BY <1>1, <1>17 DEF TodoInv
<1>18. ~(w = "desk" /\ writer["desk"].at = "changes") => x[2].kind # "watchlist_change"
  <2>1. CASE w = "scheduler"
    BY <1>1, <2>1 DEF TodoInv
  <2>2. CASE w = "desk" /\ writer["desk"].at # "changes"
    BY <1>1, <2>2, WritersAre DEF TodoInv, DeskTypes, Writing
  <2> QED BY <2>1, <2>2, WritersAre
<1>19. LogInv'
  <2>1. writer'["desk"].at = writer["desk"].at
    BY <1>5, <1>6, WritersAre
  <2> SUFFICES ASSUME NEW v \in Users, NEW i \in 1..Len(log'[v]),
                      log'[v][i].kind = "watchlist_change"
               PROVE  /\ log'[v][i].run <= Len(books)
                      /\ writer["desk"].at \in {"snapshotting", "comparing"}
                           => log'[v][i].run < Len(books)
    BY <1>11, <2>1 DEF LogInv
  <2>2. CASE i \in 1..Len(log[v]) /\ log'[v][i] = log[v][i]
    BY <1>1, <2>2 DEF LogInv
  <2>3. CASE v = u /\ i = n + 1
    <3>1. /\ log'[v][i] = x[2] /\ x[2].kind = "watchlist_change"
          /\ writer["desk"].at = "changes" /\ True(x[2])
      BY <1>9, <1>17, <1>18, <2>3
    <3>2. x[2].run = Len(books) /\ Len(books) \in Nat
      BY <1>1, <3>1 DEF True, DeskTypes
    <3> QED BY <3>1, <3>2
  <2> QED BY <1>7, <1>9, <2>2, <2>3
<1>20. /\ writer'["desk"].at = writer["desk"].at
       /\ writer'["desk"].todo \subseteq writer["desk"].todo
       /\ writer'["scheduler"].todo \subseteq writer["scheduler"].todo
       /\ w = "desk" => writer'["desk"].todo = writer["desk"].todo \ {x}
       /\ w # "desk" => writer'["desk"].todo = writer["desk"].todo
  <2>1. CASE w = "desk"
    BY <1>5, <1>6, <2>1, WritersAre
  <2>2. CASE w # "desk"
    BY <1>5, <1>6, <2>2, WritersAre
  <2> QED BY <2>1, <2>2
<1>21. TodoInv'
  <2>1. ASSUME NEW y \in writer'["desk"].todo, writer["desk"].at = "changes"
        PROVE  /\ True(y[2])' /\ ~Logged(y[1], Len(books), y[2].ticker)'
               /\ \A z \in writer'["desk"].todo :
                    y[1] = z[1] /\ y[2].ticker = z[2].ticker => y = z
    <3>1. /\ y \in writer["desk"].todo /\ writer["desk"] \in Writing /\ y[1] \in Users
      BY <1>1, <1>20, WritersAre DEF DeskTypes, Writing
    <3>2. /\ True(y[2]) /\ ~Logged(y[1], Len(books), y[2].ticker)
          /\ \A z \in writer["desk"].todo :
                y[1] = z[1] /\ y[2].ticker = z[2].ticker => y = z
      BY <1>1, <2>1, <3>1 DEF TodoInv
    <3>3. ~(y[1] = u /\ Tells(x[2], Len(books), y[2].ticker))
      BY <1>17, <1>18, <1>20, <2>1 DEF Tells
    <3>4. ~Logged(y[1], Len(books), y[2].ticker)'
      <4>1. Len(books)' = Len(books) /\ y[2].ticker' = y[2].ticker
        BY <1>11
      <4> QED BY <1>11, <1>15, <3>1, <3>2, <3>3
    <3> QED BY <1>16, <1>20, <3>2, <3>4
  <2> QED BY <1>1, <1>11, <1>20, <2>1 DEF TodoInv
<1>22. OwedInv'
  <2> SUFFICES ASSUME NEW y \in owed, MovedTo(y[2]),
                      writer["desk"].at \notin {"snapshotting", "comparing"}
               PROVE  Logged(y[1], Len(books), y[2])' \/ Owed(y[1], Len(books), y[2])'
    BY <1>1, <1>11, <1>16, <1>20 DEF OwedInv
  <2>1. y[1] \in Users /\ UNCHANGED Len(books)
    BY <1>1, <1>11 DEF DeskTypes
  <2>2. CASE Logged(y[1], Len(books), y[2])
    BY <1>15, <2>1, <2>2
  <2>3. ASSUME NEW z \in writer["desk"].todo, z[1] = y[1], Tells(z[2], Len(books), y[2])
        PROVE  Logged(y[1], Len(books), y[2])' \/ Owed(y[1], Len(books), y[2])'
    <3>1. CASE w = "desk" /\ z = x
      BY <1>15, <2>1, <2>3, <3>1
    <3>2. CASE ~(w = "desk" /\ z = x)
      <4>1. z \in writer'["desk"].todo
        BY <1>20, <3>2
      <4> QED BY <2>1, <2>3, <4>1 DEF Owed, Tells
    <3> QED BY <3>1, <3>2
  <2> QED BY <1>1, <2>2, <2>3 DEF OwedInv, Owed
<1> QED BY <1>12, <1>13, <1>14, <1>19, <1>21, <1>22

LEMMA SelectOldKeeps ==
  ASSUME NoticesInv, NEW w \in Writers, SelectOld(w)
  PROVE  (DeskTypes /\ InboxTypes /\ KeptInv /\ LogInv /\ TodoInv /\ OwedInv)'
<1>1. NoticesTypes /\ KeptInv /\ DeskTypes /\ TodoInv /\ LogInv /\ OwedInv /\ InboxTypes
  BY DEF NoticesInv, NoticesTypes
<1>2. PICK u \in Users :
        /\ writer[w] \in Writing /\ u = writer[w].user /\ u # Unset /\ writer[w].doomed = {}
        /\ UNCHANGED <<workspace, books, shots, alarms, inboxes, owed, failed>>
        /\ cut' = cut \ {u} /\ Unset \notin Users
  BY <1>1, WriterHas, WorkspaceAssumption DEF SelectOld, Pruning
<1> DEFINE n == Len(log[u])
<1>3. PICK user, doomed :
        /\ writer' = [writer EXCEPT ![w] = [writer[w] EXCEPT !.user = user, !.doomed = doomed]]
        /\ \/ user = Unset /\ doomed = {} /\ Beyond(kept[u]) = {}
           \/ user = u /\ doomed = Beyond(kept[u]) /\ doomed # {}
  <2>1. writer \in [Writers -> Writing]
    BY <1>1 DEF DeskTypes
  <2>2. CASE Beyond(kept[u]) = {}
    <3>1. writer' = [writer EXCEPT ![w] = [writer[w] EXCEPT !.user = Unset, !.doomed = {}]]
      <4>1. [writer[w] EXCEPT !.user = Unset] = [writer[w] EXCEPT !.user = Unset, !.doomed = {}]
        BY <1>2 DEF Writing
      <4>2. writer' = [writer EXCEPT ![w] = [writer[w] EXCEPT !.user = Unset]]
        BY <1>2, <2>1, <2>2 DEF SelectOld
      <4> QED BY <4>1, <4>2
    <3> QED BY <2>2, <3>1
  <2>3. CASE Beyond(kept[u]) # {}
    <3>1. writer' = [writer EXCEPT ![w] = [writer[w] EXCEPT !.user = u,
                                                             !.doomed = Beyond(kept[u])]]
      <4>1. [writer[w] EXCEPT !.doomed = Beyond(kept[u])]
              = [writer[w] EXCEPT !.user = u, !.doomed = Beyond(kept[u])]
        BY <1>2 DEF Writing
      <4>2. writer' = [writer EXCEPT ![w] = [writer[w] EXCEPT !.doomed = Beyond(kept[u])]]
        BY <1>2, <2>1, <2>3 DEF SelectOld
      <4> QED BY <4>1, <4>2
    <3> QED BY <2>3, <3>1
  <2> QED BY <2>2, <2>3
<1>4. PICK lo \in 1..(n + 1) : kept[u] = lo..n /\ (lo = 1 \/ n - lo + 1 >= Keep)
  BY <1>1, <1>2 DEF KeptInv, Newest
<1>5. n \in Nat /\ Keep \in Nat \ {0}
  <2>1. log[u] \in Seq(Notes)
    BY <1>1, <1>2 DEF InboxTypes
  <2> QED BY <2>1, LenProperties, NoticesAssumption
<1>6. Beyond(kept[u]) = {i \in kept[u] : i <= n - Keep}
  BY <1>4, <1>5, BeyondIs
<1> DEFINE next == [writer[w] EXCEPT !.user = user, !.doomed = doomed]
<1>7. /\ next \in Writing /\ next.at = writer[w].at /\ next.todo = writer[w].todo
      /\ next.user = user /\ next.doomed = doomed
  <2>1. Beyond(kept[u]) \in SUBSET Nat
    BY <1>4, <1>6
  <2>2. user \in Users \cup {Unset} /\ doomed \in SUBSET Nat
    BY <1>2, <1>3, <2>1
  <2> QED BY <1>2, <2>2 DEF Writing
<1>8. /\ writer' \in [Writers -> Writing] /\ writer'[w] = next
      /\ \A v \in Writers : v # w => writer'[v] = writer[v]
  <2>1. writer \in [Writers -> Writing] /\ writer' = [writer EXCEPT ![w] = next]
    BY <1>1, <1>3 DEF DeskTypes
  <2> HIDE DEF next
  <2> QED BY <1>7, <2>1, OneWriter
<1> HIDE DEF next
<1>9. UNCHANGED <<watch, books, shots, alarms, log, kept, read, reader, owed, failed>>
  BY <1>2 DEF workspace, tables, inboxes
<1>10. InboxTypes'
  BY <1>1, <1>9 DEF InboxTypes
<1>11. DeskTypes'
  <2>1. \A z \in Writers : writer'[z].at = writer[z].at
    BY <1>7, <1>8
  <2>2. Unwritten' = Unwritten /\ Runs' = Runs
    BY <1>9, <2>1, WritersAre, UnwrittenStays
  <2>3. cut' \subseteq cut
    BY <1>2
  <2> QED BY <1>1, <1>8, <1>9, <2>1, <2>2, <2>3, WritersAre DEF DeskTypes
<1>12. LogInv' /\ TodoInv' /\ OwedInv'
  <2>1. \A v \in Writers : writer'[v].at = writer[v].at /\ writer'[v].todo = writer[v].todo
    BY <1>7, <1>8
  <2>2. \A x \in owed : x[2] \in watch[x[1]][books[Len(books)].venue]
    BY <1>1 DEF OwedInv
  <2>3. \A y \in writer["scheduler"].todo : y[2].kind = "run_failed"
    BY <1>1 DEF TodoInv
  <2> QED BY <1>1, <1>9, <2>1, <2>2, <2>3, WritersAre, DeskStays
<1>13. KeptInv'
  <2>1. \A v \in Users : Newest(v)'
    BY <1>1, <1>9 DEF KeptInv, Newest
  <2>2. ASSUME NEW v \in Users, v # u PROVE Settled(v)'
    <3>1. Settled(v)
      BY <1>1 DEF KeptInv
    <3>2. \A z \in Writers : (writer[z].user = v <=> writer'[z].user = v)
      BY <1>2, <1>3, <1>7, <1>8, <2>2
    <3>3. \A z \in Writers : writer[z].user = v => writer'[z] = writer[z]
      BY <1>2, <1>8, <2>2
    <3>4. v \in cut <=> v \in cut'
      BY <1>2, <2>2
    <3> QED BY <1>9, <3>1, <3>2, <3>3, <3>4 DEF Settled, Pruned, Selecting, Deleting
  <2>3. Settled(u)'
    <3>1. CASE user = Unset
      <4>1. \A i \in kept[u] : i > n - Keep
        BY <1>2, <1>3, <1>4, <1>5, <1>6, <3>1
      <4> QED BY <1>9, <4>1 DEF Settled, Pruned
    <3>2. CASE user = u
      <4>1. /\ writer'[w].user = u /\ writer'[w].doomed # {}
            /\ \A i \in kept[u] : i <= n - Keep => i \in writer'[w].doomed
        BY <1>2, <1>3, <1>6, <1>7, <1>8, <3>2
      <4> QED BY <1>9, <4>1 DEF Settled, Deleting
    <3> QED BY <1>3, <3>1, <3>2
  <2>4. ASSUME NEW z \in Writers PROVE DoomedOld(z)'
    <3>1. CASE z # w
      <4>1. writer'[z] = writer[z] /\ DoomedOld(z)
        BY <1>1, <1>8, <3>1 DEF KeptInv
      <4> QED BY <1>9, <4>1 DEF DoomedOld
    <3>2. CASE z = w /\ doomed = {}
      BY <1>7, <1>8, <3>2 DEF DoomedOld
    <3>3. CASE z = w /\ doomed # {}
      <4>1. /\ writer'[w].user = u /\ writer'[w].doomed = {i \in kept[u] : i <= n - Keep}
        BY <1>3, <1>6, <1>7, <1>8, <3>3
      <4>2. /\ n - Keep \in 0..n /\ {i \in kept[u] : i <= n - Keep} \subseteq 1..(n - Keep)
        BY <1>3, <1>4, <1>5, <1>6, <3>3
      <4>3. \E h \in 0..n : /\ h <= n - Keep
                            /\ {i \in kept[u] : i <= n - Keep} \subseteq 1..h
                            /\ \A i \in kept[u] : i <= h => i \in {j \in kept[u] : j <= n - Keep}
        BY <4>2
      <4> QED BY <1>9, <3>3, <4>1, <4>3 DEF DoomedOld
    <3> QED BY <3>1, <3>2, <3>3
  <2> QED BY <2>1, <2>2, <2>3, <2>4 DEF KeptInv
<1> QED BY <1>10, <1>11, <1>12, <1>13

LEMMA DeleteOldKeeps ==
  ASSUME NoticesInv, NEW w \in Writers, DeleteOld(w)
  PROVE  (DeskTypes /\ InboxTypes /\ KeptInv /\ LogInv /\ TodoInv /\ OwedInv)'
<1>1. NoticesTypes /\ KeptInv /\ DeskTypes /\ TodoInv /\ LogInv /\ OwedInv /\ InboxTypes
  BY DEF NoticesInv, NoticesTypes
<1>2. PICK u \in Users :
        /\ writer[w] \in Writing /\ u = writer[w].user /\ writer[w].doomed # {}
        /\ kept' = [kept EXCEPT ![u] = kept[u] \ writer[w].doomed]
        /\ read' = [read EXCEPT ![u] = read[u] \ writer[w].doomed]
        /\ UNCHANGED <<workspace, books, shots, alarms, log, reader, owed, cut, failed>>
        /\ Unset \notin Users
  <2>1. writer[w] \in Writing /\ writer[w].doomed # {} /\ writer[w].user \in Users
    BY <1>1, WriterHas DEF DeleteOld, KeptInv, DoomedOld
  <2>2. kept \in [Users -> SUBSET Nat] /\ read \in [Users -> SUBSET Nat]
    BY <1>1 DEF InboxTypes
  <2> QED BY <2>1, <2>2, WorkspaceAssumption DEF DeleteOld, ghosts
<1> DEFINE n == Len(log[u])
           next == [writer[w] EXCEPT !.user = Unset, !.doomed = {}]
<1>3. /\ next \in Writing /\ next.at = writer[w].at /\ next.todo = writer[w].todo
      /\ next.user = Unset /\ next.doomed = {}
  BY <1>2 DEF Writing
<1>4. /\ writer' \in [Writers -> Writing] /\ writer'[w] = next
      /\ \A v \in Writers : v # w => writer'[v] = writer[v]
  <2>1. writer \in [Writers -> Writing] /\ writer' = [writer EXCEPT ![w] = next]
    BY <1>1, <1>2 DEF DeskTypes, DeleteOld, Writing
  <2> HIDE DEF next
  <2> QED BY <1>3, <2>1, OneWriter
<1> HIDE DEF next
<1>5. UNCHANGED <<watch, books, shots, alarms, log, reader, owed, cut, failed>>
  BY <1>2 DEF workspace, tables
<1>6. n \in Nat /\ Keep \in Nat \ {0}
  <2>1. log[u] \in Seq(Notes)
    BY <1>1, <1>2 DEF InboxTypes
  <2> QED BY <2>1, LenProperties, NoticesAssumption
<1>7. /\ kept' \in [Users -> SUBSET Nat] /\ kept'[u] = kept[u] \ writer[w].doomed
      /\ \A v \in Users : v # u => kept'[v] = kept[v]
      /\ read' \in [Users -> SUBSET Nat] /\ read'[u] = read[u] \ writer[w].doomed
      /\ \A v \in Users : v # u => read'[v] = read[v]
  BY <1>1, <1>2 DEF InboxTypes
<1>8. \A v \in Users : kept'[v] \subseteq kept[v] /\ read'[v] \subseteq kept'[v]
  BY <1>1, <1>7 DEF InboxTypes
<1>9. InboxTypes'
  BY <1>1, <1>5, <1>7, <1>8 DEF InboxTypes
<1>10. DeskTypes'
  <2>1. \A z \in Writers : writer'[z].at = writer[z].at
    BY <1>3, <1>4
  <2>2. Unwritten' = Unwritten /\ Runs' = Runs
    BY <1>5, <2>1, WritersAre, UnwrittenStays
  <2> QED BY <1>1, <1>4, <1>5, <2>1, <2>2, WritersAre DEF DeskTypes
<1>11. LogInv' /\ TodoInv' /\ OwedInv'
  <2>1. \A v \in Writers : writer'[v].at = writer[v].at /\ writer'[v].todo = writer[v].todo
    BY <1>3, <1>4
  <2>2. \A x \in owed : x[2] \in watch[x[1]][books[Len(books)].venue]
    BY <1>1 DEF OwedInv
  <2>3. \A y \in writer["scheduler"].todo : y[2].kind = "run_failed"
    BY <1>1 DEF TodoInv
  <2> QED BY <1>1, <1>5, <2>1, <2>2, <2>3, WritersAre, DeskStays
<1>12. KeptInv'
  <2>1. ASSUME NEW v \in Users, v # u PROVE Newest(v)' /\ Settled(v)'
    <3>1. Newest(v) /\ Settled(v)
      BY <1>1 DEF KeptInv
    <3>2. Newest(v)'
      BY <1>5, <1>7, <2>1, <3>1 DEF Newest
    <3>3. \A z \in Writers : writer[z].user = v => writer'[z] = writer[z]
      BY <1>2, <1>4, <2>1
    <3> QED BY <1>5, <1>7, <2>1, <3>1, <3>2, <3>3
            DEF Settled, Pruned, Selecting, Deleting
  <2>2. PICK h \in 0..n : /\ h <= n - Keep /\ writer[w].doomed \subseteq 1..h
                          /\ \A i \in kept[u] : i <= h => i \in writer[w].doomed
    BY <1>1, <1>2 DEF KeptInv, DoomedOld
  <2>3. Newest(u)'
    <3>1. PICK lo \in 1..(n + 1) : kept[u] = lo..n /\ (lo = 1 \/ n - lo + 1 >= Keep)
      BY <1>1, <1>2 DEF KeptInv, Newest
    <3>2. kept'[u] = {i \in lo..n : i > h}
      BY <1>6, <1>7, <2>2, <3>1
    <3>3. CASE h < lo
      <4>1. kept'[u] = lo..n
        BY <1>6, <3>1, <3>2, <3>3
      <4> QED BY <1>5, <3>1, <4>1 DEF Newest
    <3>4. CASE h >= lo
      <4>1. kept'[u] = (h + 1)..n /\ h + 1 \in 1..(n + 1) /\ n - (h + 1) + 1 >= Keep
        BY <1>6, <2>2, <3>1, <3>2, <3>4
      <4> QED BY <1>5, <4>1 DEF Newest
    <3> QED BY <1>6, <2>2, <3>1, <3>3, <3>4
  <2>4. Settled(u)'
    <3>1. Settled(u)
      BY <1>1 DEF KeptInv
    <3>2. CASE Pruned(u)
      BY <1>5, <1>8, <3>2 DEF Settled, Pruned
    <3>3. ASSUME NEW z \in Writers, Selecting(z, u) PROVE Settled(u)'
      <4>1. z # w
        BY <1>2, <3>3 DEF Selecting
      <4> QED BY <1>4, <3>3, <4>1 DEF Settled, Selecting
    <3>4. ASSUME NEW z \in Writers, z # w, Deleting(z, u) PROVE Settled(u)'
      <4>1. Deleting(z, u)'
        BY <1>4, <1>5, <1>8, <3>4 DEF Deleting
      <4> QED BY <4>1 DEF Settled
    <3>5. CASE Deleting(w, u)
      <4>1. Pruned(u)'
        BY <1>5, <1>6, <1>7, <1>8, <3>5, <2>2 DEF Deleting, Pruned
      <4> QED BY <4>1 DEF Settled
    <3>6. CASE u \in cut
      BY <1>5, <3>6 DEF Settled
    <3> QED BY <3>1, <3>2, <3>3, <3>4, <3>5, <3>6 DEF Settled
  <2>5. ASSUME NEW z \in Writers PROVE DoomedOld(z)'
    <3>1. CASE z # w
      <4>1. writer'[z] = writer[z] /\ DoomedOld(z)
        BY <1>1, <1>4, <3>1 DEF KeptInv
      <4> QED BY <1>5, <1>8, <4>1 DEF DoomedOld
    <3>2. CASE z = w
      BY <1>3, <1>4, <3>2 DEF DoomedOld
    <3> QED BY <3>1, <3>2
  <2> QED BY <2>1, <2>3, <2>4, <2>5 DEF KeptInv
<1> QED BY <1>9, <1>10, <1>11, <1>12

LEMMA ReadersKeep ==
  ASSUME NoticesInv, NEW u \in Users, MarkRead(u) \/ \E ids \in SUBSET kept[u] : SelectUnread(u, ids)
  PROVE  (DeskTypes /\ InboxTypes /\ KeptInv /\ LogInv /\ TodoInv /\ OwedInv)'
<1>1. NoticesTypes /\ KeptInv /\ DeskTypes /\ TodoInv /\ LogInv /\ OwedInv /\ InboxTypes
  BY DEF NoticesInv, NoticesTypes
<1>2. UNCHANGED <<books, shots, writer, alarms, log, kept, owed, cut, failed, watch>>
  BY DEF MarkRead, SelectUnread, workspace, tables, desk, ghosts
<1>3. /\ DeskTypes' /\ KeptInv'
  BY <1>1, <1>2, KeptStays DEF DeskTypes, Runs, Unwritten
<1>4. LogInv' /\ TodoInv' /\ OwedInv'
  <2>1. \A x \in owed : x[2] \in watch[x[1]][books[Len(books)].venue]
    BY <1>1 DEF OwedInv
  <2>2. \A y \in writer["scheduler"].todo : y[2].kind = "run_failed"
    BY <1>1 DEF TodoInv
  <2> QED BY <1>1, <1>2, <2>1, <2>2, DeskStays
<1>5. /\ reader[u] \in SUBSET Nat /\ read[u] \subseteq kept[u] /\ kept[u] \subseteq 1..Len(log[u])
      /\ reader \in [Users -> SUBSET Nat] /\ read \in [Users -> SUBSET Nat]
      /\ kept[u] \in SUBSET Nat /\ Len(log[u]) \in Nat
  <2>1. log[u] \in Seq(Notes)
    BY <1>1 DEF InboxTypes
  <2> QED BY <1>1, <2>1, LenProperties DEF InboxTypes
<1>6. CASE MarkRead(u)
  <2>1. /\ \/ read' = read
           \/ read' = [read EXCEPT ![u] = read[u] \cup reader[u]] /\ reader[u] \subseteq kept[u]
        /\ reader' = [reader EXCEPT ![u] = {0}]
    BY <1>5, <1>6 DEF MarkRead, NoIds
  <2>2. /\ read' \in [Users -> SUBSET Nat] /\ reader' \in [Users -> SUBSET Nat]
        /\ read'[u] \subseteq kept[u] /\ reader'[u] \subseteq 0..Len(log[u])
        /\ \A v \in Users : v # u => read'[v] = read[v] /\ reader'[v] = reader[v]
    BY <1>5, <2>1
  <2>3. InboxTypes'
    BY <1>1, <1>2, <2>2 DEF InboxTypes
  <2> QED BY <1>3, <1>4, <2>3
<1>7. ASSUME NEW ids \in SUBSET kept[u], SelectUnread(u, ids) PROVE InboxTypes'
  <2>1. PICK rows \in SUBSET kept[u] : reader' = [reader EXCEPT ![u] = rows] /\ read' = read
    BY <1>7 DEF SelectUnread
  <2>2. /\ reader' \in [Users -> SUBSET Nat] /\ reader'[u] \subseteq 0..Len(log[u])
        /\ \A v \in Users : v # u => reader'[v] = reader[v]
    BY <1>5, <2>1
  <2> QED BY <1>1, <1>2, <2>1, <2>2 DEF InboxTypes
<1> QED BY <1>3, <1>4, <1>6, <1>7

(* An error ends what a writer does. *)
LEMMA BreaksOff ==
  ASSUME NoticesInv, NEW w \in Writers, NEW next \in Writing,
         next.user = Unset, next.doomed = {},
         writer' = [writer EXCEPT ![w] = next],
         cut' = cut \cup ({writer[w].user} \ {Unset}),
         UNCHANGED inboxes
  PROVE  /\ InboxTypes' /\ KeptInv' /\ cut' \subseteq Users
         /\ writer' \in [Writers -> Writing] /\ writer'[w] = next
         /\ \A v \in Writers : v # w => writer'[v] = writer[v]
<1>1. NoticesTypes /\ KeptInv /\ DeskTypes /\ InboxTypes
  BY DEF NoticesInv, NoticesTypes
<1>2. /\ writer' \in [Writers -> Writing] /\ writer'[w] = next
      /\ \A v \in Writers : v # w => writer'[v] = writer[v]
  BY <1>1, OneWriter DEF DeskTypes
<1>3. UNCHANGED <<log, kept, read, reader>>
  BY DEF inboxes
<1>4. InboxTypes'
  BY <1>1, <1>3 DEF InboxTypes
<1>5. cut' \subseteq Users
  <2>1. writer[w].user \in Users \cup {Unset}
    BY <1>1, WriterHas DEF Writing
  <2> QED BY <1>1, <2>1 DEF DeskTypes
<1>6. KeptInv'
  <2>1. \A u \in Users : Newest(u)'
    BY <1>1, <1>3 DEF KeptInv, Newest
  <2>2. ASSUME NEW u \in Users PROVE Settled(u)'
    <3>1. Settled(u) /\ u # Unset
      BY <1>1, WorkspaceAssumption DEF KeptInv
    <3>2. CASE Pruned(u)
      BY <1>3, <3>2 DEF Settled, Pruned
    <3>3. CASE u \in cut
      BY <3>3 DEF Settled
    <3>4. ASSUME NEW v \in Writers, Selecting(v, u) \/ Deleting(v, u) PROVE Settled(u)'
      <4>1. CASE v = w
        <5>1. u \in cut'
          BY <3>1, <3>4, <4>1 DEF Selecting, Deleting
        <5> QED BY <5>1 DEF Settled
      <4>2. CASE v # w
        <5>1. (Selecting(v, u) \/ Deleting(v, u))'
          BY <1>2, <1>3, <3>4, <4>2 DEF Selecting, Deleting
        <5> QED BY <5>1 DEF Settled
      <4> QED BY <4>1, <4>2
    <3> QED BY <3>1, <3>2, <3>3, <3>4 DEF Settled
  <2>3. \A v \in Writers : DoomedOld(v)'
    BY <1>1, <1>2, <1>3 DEF KeptInv, DoomedOld
  <2> QED BY <2>1, <2>2, <2>3 DEF KeptInv
<1> QED BY <1>2, <1>4, <1>5, <1>6

LEMMA ChangesFailKeep ==
  ASSUME NoticesInv, ChangesFail
  PROVE  (DeskTypes /\ InboxTypes /\ KeptInv /\ LogInv /\ TodoInv /\ OwedInv)'
<1> DEFINE lost == {<<x[1], x[2].ticker>> : x \in writer["desk"].todo}
<1>1. NoticesTypes /\ KeptInv /\ DeskTypes /\ TodoInv /\ LogInv /\ OwedInv /\ InboxTypes
  BY DEF NoticesInv, NoticesTypes
<1>2. /\ writer["desk"].at \in {"comparing", "changes", "digests"}
      /\ writer' = [writer EXCEPT !["desk"] = Resting]
      /\ cut' = cut \cup ({writer["desk"].user} \ {Unset})
      /\ owed' = IF writer["desk"].at = "comparing" THEN {} ELSE owed \ lost
      /\ UNCHANGED <<workspace, books, shots, alarms, inboxes, failed>>
  BY DEF ChangesFail
<1>3. /\ InboxTypes' /\ KeptInv' /\ cut' \subseteq Users
      /\ writer' \in [Writers -> Writing] /\ writer'["desk"] = Resting
      /\ writer'["scheduler"] = writer["scheduler"]
  <2>1. "desk" \in Writers /\ "scheduler" \in Writers /\ "desk" # "scheduler"
    BY DEF Writers
  <2> QED BY <1>2, <2>1, RestingIs, BreaksOff
<1>4. UNCHANGED <<watch, log, books, shots, failed, alarms>> /\ owed' \subseteq owed
  BY <1>2 DEF workspace, tables, inboxes
<1>5. DeskTypes'
  <2>1. Unwritten' = Unwritten /\ Runs' = Runs
    BY <1>2, <1>3, <1>4, RestingIs, UnwrittenStays
  <2> QED BY <1>1, <1>3, <1>4, <2>1, RestingIs DEF DeskTypes
<1>6. LogInv'
  BY <1>1, <1>3, <1>4, RestingIs DEF LogInv
<1>7. TodoInv'
  BY <1>1, <1>2, <1>3, <1>4, RestingIs DEF TodoInv
<1>8. OwedInv'
  <2> SUFFICES ASSUME NEW x \in owed'
               PROVE  /\ Len(books) > 0 /\ x[2] \in watch[x[1]][books[Len(books)].venue]
                      /\ MovedTo(x[2])' => Logged(x[1], Len(books), x[2])'
    BY <1>4 DEF OwedInv
  <2>1. /\ x \in owed /\ x \in Users \X Tickers /\ x \notin lost
        /\ writer["desk"].at \in {"changes", "digests"}
    BY <1>1, <1>2, <1>4 DEF DeskTypes
  <2>2. MovedTo(x[2])' <=> MovedTo(x[2])
    BY <1>4 DEF MovedTo, Follows, Runs
  <2>3. Logged(x[1], Len(books), x[2])' <=> Logged(x[1], Len(books), x[2])
    BY <1>4 DEF Logged, Tells
  <2>4. ~Owed(x[1], Len(books), x[2])
    <3> SUFFICES ASSUME NEW y \in writer["desk"].todo, y[1] = x[1], Tells(y[2], Len(books), x[2])
                 PROVE  FALSE
      BY DEF Owed
    <3>1. <<y[1], y[2].ticker>> \in lost /\ x = <<x[1], x[2]>>
      BY <2>1
    <3> QED BY <2>1, <3>1 DEF Tells
  <2> QED BY <1>1, <2>1, <2>2, <2>3, <2>4 DEF OwedInv
<1> QED BY <1>3, <1>5, <1>6, <1>7, <1>8

LEMMA BellsAre ==
  ASSUME NEW n \in Nat
  PROVE  Bells(n) \in SUBSET (Users \X Notes) /\ \A y \in Bells(n) : y[2].kind = "run_failed"
<1>1. /\ Notice("run_failed", n, Unset, Unset, Unset) \in Notes
      /\ Notice("run_failed", n, Unset, Unset, Unset).kind = "run_failed"
  BY DEF Notice, Notes
<1> QED BY <1>1, NoticesAssumption DEF Bells

LEMMA AlarmFailsKeeps ==
  ASSUME NoticesInv, AlarmFails
  PROVE  (DeskTypes /\ InboxTypes /\ KeptInv /\ LogInv /\ TodoInv /\ OwedInv)'
<1>1. NoticesTypes /\ KeptInv /\ DeskTypes /\ TodoInv /\ LogInv /\ OwedInv /\ InboxTypes
  BY DEF NoticesInv, NoticesTypes
<1>2. Bells(alarms) \in SUBSET (Users \X Notes) /\ \A y \in Bells(alarms) : y[2].kind = "run_failed"
  <2>1. alarms \in Nat
    BY <1>1, NoticesAssumption DEF DeskTypes
  <2> QED BY <2>1, BellsAre
<1>3. PICK next \in Writing :
        /\ next.at \in {"idle", "again"} /\ next.user = Unset /\ next.doomed = {}
        /\ \A y \in next.todo : y[2].kind = "run_failed"
        /\ writer' = [writer EXCEPT !["scheduler"] = next]
  <2>1. CASE writer["scheduler"].at = "again"
    BY <2>1, RestingIs DEF AlarmFails
  <2>2. CASE writer["scheduler"].at # "again"
    <3> DEFINE next == [Resting EXCEPT !.at = "again", !.todo = Bells(alarms)]
    <3>1. /\ next \in Writing /\ next.at = "again" /\ next.user = Unset /\ next.doomed = {}
          /\ next.todo = Bells(alarms)
      BY <1>2 DEF Resting, Writing
    <3>2. writer' = [writer EXCEPT !["scheduler"] = next]
      BY <2>2 DEF AlarmFails
    <3> HIDE DEF next
    <3> QED BY <1>2, <3>1, <3>2
  <2> QED BY <2>1, <2>2
<1>4. /\ cut' = cut \cup ({writer["scheduler"].user} \ {Unset})
      /\ UNCHANGED <<workspace, books, shots, alarms, inboxes, owed, failed>>
  BY DEF AlarmFails
<1>5. /\ InboxTypes' /\ KeptInv' /\ cut' \subseteq Users
      /\ writer' \in [Writers -> Writing] /\ writer'["scheduler"] = next
      /\ writer'["desk"] = writer["desk"]
  <2>1. "desk" \in Writers /\ "scheduler" \in Writers /\ "desk" # "scheduler"
    BY DEF Writers
  <2> QED BY <1>3, <1>4, <2>1, BreaksOff
<1>6. UNCHANGED <<watch, log, books, shots, owed, failed, alarms>>
  BY <1>4 DEF workspace, tables, inboxes
<1>7. DeskTypes'
  <2>1. Unwritten' = Unwritten /\ Runs' = Runs
    BY <1>5, <1>6, UnwrittenStays
  <2> QED BY <1>1, <1>3, <1>5, <1>6, <2>1 DEF DeskTypes
<1>8. LogInv' /\ TodoInv' /\ OwedInv'
  <2>1. \A x \in owed : x[2] \in watch[x[1]][books[Len(books)].venue]
    BY <1>1 DEF OwedInv
  <2> QED BY <1>1, <1>3, <1>5, <1>6, <2>1, DeskStays
<1> QED BY <1>5, <1>7, <1>8

LEMMA RestartKeeps ==
  ASSUME NoticesInv, Restart
  PROVE  (DeskTypes /\ InboxTypes /\ KeptInv /\ LogInv /\ TodoInv /\ OwedInv)'
<1>1. NoticesTypes /\ KeptInv /\ DeskTypes /\ TodoInv /\ LogInv /\ OwedInv /\ InboxTypes
  BY DEF NoticesInv, NoticesTypes
<1>2. /\ cut' = cut \cup {writer[w].user : w \in {x \in Writers : Pruning(x)}}
      /\ \A w \in Writers : writer'[w] = Resting
      /\ writer' \in [Writers -> Writing]
      /\ failed' \subseteq Runs /\ shots' = Runs \ failed' /\ owed' = {} /\ reader' = [u \in Users |-> {0}]
      /\ UNCHANGED <<books, alarms, log, kept, read>>
  BY <1>1, RestingIs DEF Restart, NoIds, DeskTypes
<1>3. DeskTypes'
  <2>1. cut' \subseteq Users
    BY <1>1, <1>2, WriterHas DEF DeskTypes
  <2>2. writer'["desk"].at = "idle" /\ writer'["scheduler"].at = "idle"
    BY <1>2, RestingIs, WritersAre
  <2>3. Unwritten' = {} /\ Runs' = Runs
    BY <1>2, <2>2 DEF Unwritten, Runs
  <2>4. /\ failed' = Runs' \ (shots' \cup Unwritten')
        /\ shots' \cap Unwritten' = {} /\ shots' \subseteq Runs'
    BY <1>2, <2>3
  <2> QED BY <1>1, <1>2, <2>1, <2>2, <2>4 DEF DeskTypes
<1>4. InboxTypes'
  <2>1. \A u \in Users : {0} \subseteq 0..Len(log[u])
    <3> SUFFICES ASSUME NEW u \in Users PROVE 0 \in 0..Len(log[u])
      OBVIOUS
    <3>1. log[u] \in Seq(Notes)
      BY <1>1 DEF InboxTypes
    <3> QED BY <3>1, LenProperties
  <2> QED BY <1>1, <1>2, <2>1 DEF InboxTypes
<1>5. KeptInv'
  <2>1. \A u \in Users : Newest(u)'
    BY <1>1, <1>2 DEF KeptInv, Newest
  <2>2. ASSUME NEW u \in Users PROVE Settled(u)'
    <3>1. Settled(u)
      BY <1>1 DEF KeptInv
    <3>2. \A w \in Writers : writer'[w].user # u
      BY <1>2, RestingIs, WorkspaceAssumption
    <3>3. CASE Pruned(u)
      BY <1>2, <3>3 DEF Settled, Pruned
    <3>4. ASSUME NEW w \in Writers, writer[w].user = u PROVE u \in cut'
      BY <1>2, <3>4, WorkspaceAssumption DEF Pruning
    <3>5. u \in cut => u \in cut'
      BY <1>2
    <3> QED BY <3>1, <3>2, <3>3, <3>4, <3>5 DEF Settled, Selecting, Deleting
  <2>3. \A w \in Writers : DoomedOld(w)'
    BY <1>2, RestingIs DEF DoomedOld
  <2> QED BY <2>1, <2>2, <2>3 DEF KeptInv
<1>6. LogInv' /\ TodoInv' /\ OwedInv'
  BY <1>1, <1>2, RestingIs, WritersAre DEF LogInv, TodoInv, OwedInv
<1> QED BY <1>3, <1>4, <1>5, <1>6

LEMMA ChooseKeeps ==
  ASSUME NoticesInv, Choose \/ UNCHANGED vars
  PROVE  (DeskTypes /\ InboxTypes /\ KeptInv /\ LogInv /\ TodoInv /\ OwedInv)'
<1>1. NoticesTypes /\ KeptInv /\ DeskTypes /\ TodoInv /\ LogInv /\ OwedInv /\ InboxTypes
  BY DEF NoticesInv, NoticesTypes
<1>2. UNCHANGED <<books, shots, writer, alarms, log, kept, read, reader, cut, failed>>
  BY DEF Choose, vars, desk, inboxes, ghosts
<1>3. \A x \in owed' : x \in owed /\ x[2] \in watch'[x[1]][books[Len(books)].venue]
  <2>1. CASE Choose
    <3>1. Len(books) > 0 \/ owed = {}
      BY <1>1 DEF OwedInv
    <3> QED BY <2>1, <3>1 DEF Choose
  <2>2. CASE UNCHANGED vars
    <3>1. UNCHANGED <<owed, watch>>
      BY <2>2 DEF vars, workspace, tables, ghosts
    <3> QED BY <1>1, <3>1 DEF OwedInv
  <2> QED BY <2>1, <2>2
<1>4. DeskTypes' /\ InboxTypes' /\ KeptInv'
  BY <1>1, <1>2, <1>3, KeptStays DEF DeskTypes, InboxTypes, Runs, Unwritten
<1>5. LogInv' /\ TodoInv' /\ OwedInv'
  <2>1. \A y \in writer["scheduler"].todo : y[2].kind = "run_failed"
    BY <1>1 DEF TodoInv
  <2> QED BY <1>1, <1>2, <1>3, <2>1, DeskStays
<1> QED BY <1>4, <1>5

LEMMA NoticesStart == Init => NoticesInv
<1> SUFFICES ASSUME Init PROVE NoticesInv
  OBVIOUS
<1>1. WorkspaceInv
  BY WorkspaceStart DEF Init
<1>2. /\ books = <<>> /\ Len(books) = 0 /\ \A w \in Writers : writer[w] = Resting
      /\ writer \in [Writers -> Writing] /\ MaxRuns \in Nat /\ MaxAlarms \in Nat
  BY RestingIs, NoticesAssumption DEF Init
<1>3. \A u \in Users : /\ log[u] = <<>> /\ Len(log[u]) = 0 /\ kept[u] = {} /\ read[u] = {}
                       /\ reader[u] = {0}
  BY DEF Init, NoIds
<1>4. DeskTypes
  <2>1. <<>> \in Seq([venue : Venues, of : Outcomes])
    BY EmptySeq
  <2> QED BY <1>2, <2>1, RestingIs, WritersAre DEF Init, DeskTypes, Runs
<1>5. InboxTypes
  <2>1. <<>> \in Seq(Notes)
    BY EmptySeq
  <2> QED BY <1>3, <2>1 DEF Init, InboxTypes, NoIds
<1>6. KeptInv
  <2>1. ASSUME NEW u \in Users PROVE Newest(u) /\ Settled(u)
    <3>1. Len(log[u]) = 0 /\ kept[u] = {} /\ 1..0 = {} /\ 1 \in 1..(0 + 1)
      BY <1>3
    <3>2. \E lo \in 1..(0 + 1) : kept[u] = lo..0 /\ (lo = 1 \/ 0 - lo + 1 >= Keep)
      BY <3>1
    <3> QED BY <3>1, <3>2 DEF Newest, Settled, Pruned
  <2> QED BY <1>2, <2>1, RestingIs DEF KeptInv, DoomedOld
<1>7. LogInv /\ TodoInv /\ OwedInv
  BY <1>2, <1>3, RestingIs, WritersAre DEF Init, LogInv, TodoInv, OwedInv
<1> QED BY <1>1, <1>4, <1>5, <1>6, <1>7 DEF NoticesInv

LEMMA NoticesKeeps == NoticesInv /\ [Next]_vars => NoticesInv'
<1> SUFFICES ASSUME NoticesInv, [Next]_vars PROVE NoticesInv'
  OBVIOUS
<1>1. WorkspaceInv'
  BY WorkspaceInNext DEF NoticesInv
<1>2. (DeskTypes /\ InboxTypes /\ KeptInv /\ LogInv /\ TodoInv /\ OwedInv)'
  BY CompleteKeeps, SnapshotKeeps, CompareKeeps, AlarmKeeps, DigestKeeps, CreateKeeps,
     SelectOldKeeps, DeleteOldKeeps, RestKeeps, ReadersKeep, ChooseKeeps, RestartKeeps,
     ChangesFailKeep, AlarmFailsKeeps DEF Next
<1> QED BY <1>1, <1>2 DEF NoticesInv

LEMMA NoticesHold == Spec => []NoticesInv
<1> QED BY NoticesStart, NoticesKeeps, PTL DEF Spec

LEMMA CreatedIs ==
  ASSUME NoticesInv, NEW w \in Writers, Create(w)
  PROVE  \E x \in Users \X Notes :
           /\ log' = [log EXCEPT ![x[1]] = Append(log[x[1]], x[2])]
           /\ x[2].kind = "watchlist_change"
                => True(x[2]) /\ ~Logged(x[1], Len(books), x[2].ticker)
<1>1. PICK x \in writer[w].todo : log' = [log EXCEPT ![x[1]] = Append(log[x[1]], x[2])]
  <2>1. log \in [Users -> Seq(Notes)]
    BY DEF NoticesInv, InboxTypes
  <2> QED BY <2>1 DEF Create
<1>2. x \in Users \X Notes
  BY DEF NoticesInv, DeskTypes, Writing
<1>3. ASSUME x[2].kind = "watchlist_change"
      PROVE  True(x[2]) /\ ~Logged(x[1], Len(books), x[2].ticker)
  <2>1. w = "desk"
    BY <1>3, WritersAre DEF NoticesInv, TodoInv
  <2>2. writer["desk"].at = "changes"
    BY <1>3, <2>1, WritersAre DEF NoticesInv, TodoInv, DeskTypes, Writing
  <2> QED BY <2>1, <2>2 DEF NoticesInv, TodoInv
<1> QED BY <1>1, <1>2, <1>3

--------------------------------------------------------------------------------

(* set_preferences: each column of a user's row is the last choice stored   *)
(* for it, whatever two requests of one user and a restart do between the   *)
(* read of the row and the write of it: a choice of the venue never undoes  *)
(* one of the appetite, nor the other way round.                            *)
THEOREM ChoicesAreStored == Spec => []ChoicesStored
<1>1. WorkspaceInv => ChoicesStored
  BY DEF WorkspaceInv
<1> QED BY <1>1, WorkspaceHolds, PTL

(* watch and add_to_watchlist: the check of the limit and the insertion are *)
(* two transactions, so a list, with the requests that have passed the      *)
(* check, may outgrow the limit by the number of the other threads, and     *)
(* never further.                                                           *)
THEOREM WatchIsBounded == Spec => []WatchBounded
<1>1. WorkspaceInv => WatchBounded
  BY DEF WorkspaceInv
<1> QED BY <1>1, WorkspaceHolds, PTL

(* ensure_market_universe and replace_universe: a venue that has been       *)
(* opened never loses its universe, whatever admins replace at the same     *)
(* time, and it holds the list stored last, unless overlapping requests     *)
(* have mixed theirs.                                                       *)
THEOREM UniverseIsKept == Spec => []UniverseKept
<1>1. WorkspaceInv => UniverseKept
  BY DEF WorkspaceInv
<1> QED BY <1>1, WorkspaceHolds, PTL

(* The books, the stored snapshots, the inboxes and the marks of readers    *)
(* are always of their types, whatever runs, alarms, requests and restarts  *)
(* come.                                                                    *)
THEOREM NoticesTypeOK == Spec => []TypeOK
<1>1. NoticesInv => TypeOK
  <2> SUFFICES ASSUME NoticesInv PROVE TypeOK
    OBVIOUS
  <2>1. \A r \in Runs : books[r] \in [venue : Venues, of : Outcomes]
    <3> SUFFICES ASSUME NEW r \in Runs PROVE books[r] \in [venue : Venues, of : Outcomes]
      OBVIOUS
    <3>1. books \in Seq([venue : Venues, of : Outcomes]) /\ r \in 1..Len(books)
      BY DEF NoticesInv, DeskTypes, Runs
    <3> QED BY <3>1, ElementOfSeq
  <2> QED BY <2>1 DEF NoticesInv, WorkspaceInv, DeskTypes, InboxTypes, TypeOK
<1> QED BY <1>1, NoticesHold, PTL

(* _create and _prune: whatever the desk's and the scheduler's threads      *)
(* create and prune at the same time, each user keeps an interval of the    *)
(* newest notices, KEEP_PER_USER of them if there were as many, and no more *)
(* when nobody writes to that user; an error or a restart between the two   *)
(* transactions is the only excuse.                                         *)
THEOREM NewestAreKept == Spec => []NewestKept
<1>1. NoticesInv => NewestKept
  <2> SUFFICES ASSUME NoticesInv, NEW u \in Users
               PROVE  LET n == Len(log[u])  k == Cardinality(kept[u]) IN
                      /\ kept[u] = (n - k + 1)..n
                      /\ k >= Keep \/ k = n
                      /\ u \notin cut /\ (\A w \in Writers : writer[w].user # u) => k <= Keep
    BY DEF NewestKept
  <2> DEFINE n == Len(log[u])
             k == Cardinality(kept[u])
  <2>1. n \in Nat /\ Keep \in Nat \ {0}
    <3>1. log[u] \in Seq(Notes)
      BY DEF NoticesInv, InboxTypes
    <3> QED BY <3>1, LenProperties, NoticesAssumption
  <2>2. Newest(u) /\ Settled(u)
    BY DEF NoticesInv, KeptInv
  <2>3. PICK lo \in 1..(n + 1) : kept[u] = lo..n /\ (lo = 1 \/ n - lo + 1 >= Keep)
    BY <2>2 DEF Newest
  <2>4. k = n - lo + 1
    <3>1. lo \in Int /\ n \in Int
      BY <2>1
    <3>2. Cardinality(lo..n) = IF lo > n THEN 0 ELSE n - lo + 1
      <4> HIDE DEF n
      <4> QED BY <3>1, FS_Interval
    <3> QED BY <2>1, <2>3, <3>2
  <2>5. ASSUME u \notin cut, \A w \in Writers : writer[w].user # u PROVE k <= Keep
    <3>1. Pruned(u)
      BY <2>2, <2>5 DEF Settled, Selecting, Deleting
    <3>2. lo = n + 1 \/ lo > n - Keep
      BY <2>1, <2>3, <3>1 DEF Pruned
    <3> HIDE DEF k
    <3> QED BY <2>1, <2>4, <3>2
  <2>6. kept[u] = (n - k + 1)..n /\ (k >= Keep \/ k = n)
    <3> HIDE DEF k
    <3>1. n - k + 1 = lo
      BY <2>1, <2>4
    <3> QED BY <2>1, <2>3, <2>4, <3>1
  <2> QED BY <2>5, <2>6
<1> QED BY <1>1, NoticesHold, PTL

(* notify_run_complete: once the desk's thread has no more to write,        *)
(* everybody who has watched a name since the run completed has a notice of *)
(* it if its rating moved since the last run of the venue that rated it and *)
(* whose snapshots were not lost, whether the run's own could be written or *)
(* not.  Of an error of the notices themselves only those are the victims   *)
(* who were not told before it.                                             *)
THEOREM WatchersAreTold == Spec => []WatchersTold
<1>1. NoticesInv => WatchersTold
  <2> SUFFICES ASSUME NoticesInv, Len(books) > 0, writer["desk"].at = "idle", NEW x \in owed,
                      MovedTo(x[2])
               PROVE  Logged(x[1], Len(books), x[2])
    BY DEF WatchersTold, MovedTo, Logged, Tells
  <2>1. writer["desk"].todo = {}
    BY DEF NoticesInv, TodoInv
  <2> QED BY <2>1 DEF NoticesInv, OwedInv, Owed
<1> QED BY <1>1, NoticesHold, PTL

(* _watchlist_changes: every notice of a change, when it is created, tells  *)
(* a move between the run it names and the last run before it of the same   *)
(* venue that rated the name, leaving out only runs whose snapshots could   *)
(* be written neither then nor at a boot since, and it is created once.     *)
THEOREM NoticesAreTrue == Spec => NoticesTrue
<1> DEFINE TrueStep == \A u \in Users : Len(log'[u]) > Len(log[u]) =>
      LET n == log'[u][Len(log'[u])] IN n.kind = "watchlist_change" =>
        /\ n.old # n.new /\ books[n.run].of[n.ticker] = n.new
        /\ \E p \in Runs : Follows(p, n.run, n.ticker) /\ books[p].of[n.ticker] = n.old
        /\ \A i \in 1..Len(log[u]) : <<log[u][i].kind, log[u][i].run, log[u][i].ticker>>
                                      # <<n.kind, n.run, n.ticker>>
<1>1. NoticesInv /\ [Next]_vars => [TrueStep]_vars
  <2> SUFFICES ASSUME NoticesInv, Next PROVE TrueStep
    OBVIOUS
  <2>1. ASSUME NEW w \in Writers, Create(w) PROVE TrueStep
    <3> SUFFICES ASSUME NEW u \in Users, Len(log'[u]) > Len(log[u]),
                        log'[u][Len(log'[u])].kind = "watchlist_change"
                 PROVE  LET n == log'[u][Len(log'[u])] IN
          /\ n.old # n.new /\ books[n.run].of[n.ticker] = n.new
          /\ \E p \in Runs : Follows(p, n.run, n.ticker) /\ books[p].of[n.ticker] = n.old
          /\ \A i \in 1..Len(log[u]) : <<log[u][i].kind, log[u][i].run, log[u][i].ticker>>
                                        # <<n.kind, n.run, n.ticker>>
      OBVIOUS
    <3>1. PICK x \in Users \X Notes :
            /\ log' = [log EXCEPT ![x[1]] = Append(log[x[1]], x[2])]
            /\ x[2].kind = "watchlist_change"
                 => True(x[2]) /\ ~Logged(x[1], Len(books), x[2].ticker)
      BY <2>1, CreatedIs
    <3>2. log \in [Users -> Seq(Notes)] /\ log[u] \in Seq(Notes)
      BY DEF NoticesInv, InboxTypes
    <3>3. x[1] = u /\ log'[u] = Append(log[u], x[2])
      <4>1. Len(log[u]) \in Nat
        BY <3>2, LenProperties
      <4> QED BY <3>1, <3>2, <4>1
    <3>4. log'[u][Len(log'[u])] = x[2]
      BY <3>2, <3>3, AppendProperties
    <3>5. True(x[2]) /\ ~Logged(u, Len(books), x[2].ticker)
      BY <3>1, <3>3, <3>4
    <3>6. \A i \in 1..Len(log[u]) : <<log[u][i].kind, log[u][i].run, log[u][i].ticker>>
                                     # <<x[2].kind, x[2].run, x[2].ticker>>
      BY <3>5 DEF True, Logged, Tells
    <3> QED BY <3>4, <3>5, <3>6 DEF True
  <2>2. CASE UNCHANGED log
    <3>1. \A u \in Users : ~(Len(log'[u]) > Len(log[u]))
      <4> SUFFICES ASSUME NEW u \in Users PROVE ~(Len(log'[u]) > Len(log[u]))
        OBVIOUS
      <4>1. log[u] \in Seq(Notes)
        BY DEF NoticesInv, InboxTypes
      <4> QED BY <2>2, <4>1, LenProperties
    <3> QED BY <3>1
  <2>3. UNCHANGED log \/ \E w \in Writers : Create(w)
    BY DEF Next, Complete, Snapshot, Compare, Alarm, Digest, SelectOld, DeleteOld, Rest, MarkRead,
           SelectUnread, Choose, Restart, ChangesFail,
           AlarmFails, inboxes
  <2> QED BY <2>1, <2>2, <2>3
<1> QED BY <1>1, NoticesHold, PTL DEF Spec, NoticesTrue
================================================================================
