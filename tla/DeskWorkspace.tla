----------------------------- MODULE DeskWorkspace -----------------------------
(***************************************************************************)
(* What users and admins choose: preferences, watchlists and the analyzed  *)
(* universe of each venue (backend/app/store.py), and the routes of api.py *)
(* that change them.                                                       *)
(*                                                                         *)
(* As in DeskAccounts the routes run in threads, side by side, and each is *)
(* one or more short transactions: what a request has read may have been   *)
(* changed by another before it writes.                                    *)
(***************************************************************************)
EXTENDS Naturals, FiniteSets

CONSTANTS Users, Tickers,
          Threads,        \* requests the server works on at once
          Venues,         \* market ids
          Appetites,      \* risk appetites
          DefaultMarket, DefaultAppetite,   \* the desk-wide settings
          DefaultUniverse,                  \* default_universe of a venue
          MaxUniverse,    \* settings.max_universe_size
          WatchLimit,     \* 200 in watch
          MaxRequests     \* bound on the requests that change something

Unset == "unset"

ASSUME WorkspaceAssumption == /\ DefaultMarket \in Venues /\ DefaultAppetite \in Appetites
                              /\ DefaultUniverse \in [Venues -> SUBSET Tickers]
                              /\ \A v \in Venues : DefaultUniverse[v] # {}
                              /\ MaxUniverse \in Nat /\ WatchLimit \in Nat \ {0}
                              /\ MaxRequests \in Nat
                              /\ IsFiniteSet(Threads) /\ Threads # {} /\ IsFiniteSet(Tickers)
                              /\ Unset \notin Users \cup Venues \cup Appetites

VARIABLES
  prefs,     \* UserPreferenceRow of a user, NoPrefs without a row
  watch,     \* watch[u][v]: the tickers of u's watchlist
  universe,  \* universe[v]: the tickers of UniverseRow
  request,   \* request[t]: what thread t is doing
  begun,     \* number of requests so far
  choice,    \* history: the last choice of a user that was a change, per column
  wanted,    \* history: the universes asked for, in full, since the last overlap
  mixed      \* history: venues whose universe overlapping requests have written

tables    == <<prefs, watch, universe>>
workspace == <<tables, request, begun, choice, wanted, mixed>>

--------------------------------------------------------------------------------

Prefs    == [market : Venues, appetite : Appetites]
Patches  == [market : Venues \cup {Unset}, appetite : Appetites \cup {Unset}]
NoPrefs  == [market |-> Unset, appetite |-> Unset]
Defaults == [market |-> DefaultMarket, appetite |-> DefaultAppetite]
Columns  == {"market", "appetite"}

(* The columns of a patch that are not None replace those of a row.         *)
Patched(row, patch) == [c \in Columns |-> IF patch[c] = Unset THEN row[c] ELSE patch[c]]

(* What of a patch is new to whoever has read row. *)
News(patch, row) == [c \in Columns |-> IF patch[c] = row[c] THEN Unset ELSE patch[c]]

(* An ORM session updates the columns that it changed.  Mutant: all.        *)
UpdatedAll(read, set, current) == set
Updated(read, set, current) ==
  [c \in Columns |-> IF set[c] # read[c] THEN set[c] ELSE current[c]]

(* _clean_tickers: what an admin may ask for. *)
Wishes == {w \in SUBSET Tickers : w # {} /\ Cardinality(w) <= MaxUniverse}

(* row: preferences as read.  seen: universe as read.                       *)
Request(at, user, venue) ==
  [at |-> at, user |-> user, venue |-> venue, patch |-> NoPrefs, row |-> NoPrefs,
   seen |-> {}, wish |-> {}]
Free == Request("idle", Unset, Unset)

(* A new workspace, or one that has been used.                              *)
WorkspaceInit ==
  /\ \E list \in SUBSET Tickers :
       /\ Cardinality(list) <= WatchLimit
       /\ watch = [u \in Users |-> [v \in Venues |-> list]]
       /\ prefs = [u \in Users |-> IF list = {} THEN NoPrefs ELSE Defaults]
  /\ universe = [v \in Venues |-> IF v = DefaultMarket THEN DefaultUniverse[v] ELSE {}]
  /\ request = [t \in Threads |-> Free]
  /\ begun = 0
  /\ choice = prefs /\ wanted = universe /\ mixed = {}

--------------------------------------------------------------------------------

Begins(t, q) == /\ request[t].at = "idle" /\ begun < MaxRequests
                /\ begun' = begun + 1
                /\ request' = [request EXCEPT ![t] = q]
Ends(t) == request' = [request EXCEPT ![t] = Free]

(* update_preferences: a venue's universe is seeded first if need be.  An    *)
(* empty patch is accepted too.                                             *)
PutPreferences(t, u, patch) ==
  /\ LET at == IF patch.market # Unset /\ universe[patch.market] = {} THEN "seeding" ELSE "loading"
     IN  Begins(t, [Request(at, u, patch.market) EXCEPT !.patch = patch])
  /\ UNCHANGED <<tables, choice, wanted, mixed>>

(* The universe route, set_market_setting: ensure_market_universe found     *)
(* no row of the venue.                                                     *)
OpenVenue(t, v) ==
  /\ universe[v] = {}
  /\ Begins(t, Request("seeding", Unset, v))
  /\ UNCHANGED <<tables, choice, wanted, mixed>>

(* ensure_market_universe inserts the default tickers; if rows with these   *)
(* keys have appeared since it looked, the request fails.                   *)
Seed(t) ==
  LET q == request[t]  v == q.venue IN
  /\ q.at = "seeding"
  /\ IF universe[v] \cap DefaultUniverse[v] # {}
     THEN Ends(t) /\ UNCHANGED <<universe, wanted, mixed>>
     ELSE /\ universe' = [universe EXCEPT ![v] = @ \cup DefaultUniverse[v]]
          /\ wanted' = [wanted EXCEPT ![v] = DefaultUniverse[v]]
          /\ mixed' = IF universe[v] # {} THEN mixed \cup {v} ELSE mixed
          /\ IF q.user = Unset THEN Ends(t)
             ELSE request' = [request EXCEPT ![t].at = "loading"]
  /\ UNCHANGED <<prefs, watch, begun, choice>>

(* set_preferences reads the row ... *)
LoadPrefs(t) ==
  /\ request[t].at = "loading"
  /\ request' = [request EXCEPT ![t].at = "storing", ![t].row = prefs[request[t].user]]
  /\ UNCHANGED <<tables, begun, choice, wanted, mixed>>

(* ... and updates it, or inserts one that starts from the desk's defaults: *)
(* the slower of two first choices fails.                                   *)
StorePrefs(t) ==
  LET q == request[t]  u == q.user IN
  /\ q.at = "storing"
  /\ IF q.row = NoPrefs
     THEN IF prefs[u] # NoPrefs THEN UNCHANGED <<prefs, choice>>
          ELSE /\ prefs' = [prefs EXCEPT ![u] = Patched(Defaults, q.patch)]
               /\ choice' = [choice EXCEPT ![u] = Patched(Defaults, q.patch)]
     ELSE /\ prefs' = [prefs EXCEPT ![u] = Updated(q.row, Patched(q.row, q.patch), @)]
          /\ choice' = [choice EXCEPT ![u] = Patched(@, News(q.patch, q.row))]
  /\ Ends(t)
  /\ UNCHANGED <<watch, universe, begun, wanted, mixed>>

(* watch: 422 at the limit, even for a ticker already on the list.          *)
(* Mutant: one more.                                                        *)
FullPast(u, v) == Cardinality(watch[u][v]) > WatchLimit
Full(u, v) == Cardinality(watch[u][v]) >= WatchLimit
Watch(t, u, v, ticker) ==
  /\ ~Full(u, v)
  /\ Begins(t, [Request("adding", u, v) EXCEPT !.wish = {ticker}])
  /\ UNCHANGED <<tables, choice, wanted, mixed>>

(* add_to_watchlist *)
Add(t) ==
  LET q == request[t] IN
  /\ q.at = "adding"
  /\ watch' = [watch EXCEPT ![q.user][q.venue] = @ \cup q.wish]
  /\ Ends(t)
  /\ UNCHANGED <<prefs, universe, begun, choice, wanted, mixed>>

(* unwatch, remove_from_watchlist: 404 if it is not there. *)
Unwatch(u, v, ticker) ==
  /\ ticker \in watch[u][v] /\ begun < MaxRequests
  /\ begun' = begun + 1
  /\ watch' = [watch EXCEPT ![u][v] = @ \ {ticker}]
  /\ UNCHANGED <<prefs, universe, request, choice, wanted, mixed>>

(* replace_universe reads the rows of the venue ... *)
ReplaceUniverse(t, v, wish) ==
  /\ Begins(t, [Request("replacing", Unset, v) EXCEPT !.seen = universe[v], !.wish = wish])
  /\ UNCHANGED <<tables, choice, wanted, mixed>>

(* ... deletes those, and adds the new ones.  The unit of work turns a      *)
(* deletion and an insertion of one key into an update, which fails when    *)
(* the row has gone since (StaleDataError); an insertion fails when it has  *)
(* come; a deletion of what has gone is only warned about.                  *)
(* Mutant: the rows it has read are not deleted.                            *)
ReplacedNone(current, seen, wish) == current \cup wish
Replaced(current, seen, wish) == (current \ (seen \ wish)) \cup wish
Replace(t) ==
  LET q == request[t]  v == q.venue  now == universe[v] IN
  /\ q.at = "replacing"
  /\ IF (q.wish \cap q.seen) \subseteq now /\ (q.wish \ q.seen) \cap now = {}
     THEN /\ universe' = [universe EXCEPT ![v] = Replaced(now, q.seen, q.wish)]
          /\ wanted' = [wanted EXCEPT ![v] = q.wish]
          /\ mixed' = IF now # q.seen THEN mixed \cup {v} ELSE mixed \ {v}
     ELSE UNCHANGED <<universe, wanted, mixed>>
  /\ Ends(t)
  /\ UNCHANGED <<prefs, watch, begun, choice>>

WorkspaceNext ==
  \/ \E t \in Threads :
       \/ Seed(t) \/ LoadPrefs(t) \/ StorePrefs(t) \/ Add(t) \/ Replace(t)
       \/ \E u \in Users, patch \in Patches : PutPreferences(t, u, patch)
       \/ \E v \in Venues : \/ OpenVenue(t, v)
                            \/ \E wish \in Wishes : ReplaceUniverse(t, v, wish)
                            \/ \E u \in Users, k \in Tickers : Watch(t, u, v, k)
  \/ \E u \in Users, v \in Venues, k \in Tickers : Unwatch(u, v, k)

--------------------------------------------------------------------------------

WorkspaceTypeOK ==
  /\ prefs \in [Users -> Prefs \cup {NoPrefs}] /\ choice \in [Users -> Prefs \cup {NoPrefs}]
  /\ watch \in [Users -> [Venues -> SUBSET Tickers]]
  /\ universe \in [Venues -> SUBSET Tickers] /\ wanted \in [Venues -> SUBSET Tickers]
  /\ mixed \subseteq Venues /\ begun \in 0..MaxRequests
  /\ request \in [Threads ->
       [at : {"idle", "seeding", "loading", "storing", "adding", "replacing"},
        user : Users \cup {Unset}, venue : Venues \cup {Unset}, patch : Patches,
        row : Prefs \cup {NoPrefs}, seen : SUBSET Tickers, wish : SUBSET Tickers]]

(* A choice of the venue never undoes one of the appetite, nor the other    *)
(* way round, however their requests overlap: each column holds the last    *)
(* choice stored for it that was news to its request (set_preferences: one  *)
(* that repeats what the request has read is not written again).            *)
ChoicesStored == prefs = choice

(* "Watchlist limit reached (200 per venue)": the check and the insertion   *)
(* are two transactions, so requests side by side may pass the limit, but a *)
(* list, with the requests that have passed the check, never by more than   *)
(* the number of the other threads.                                         *)
Adding(u, v) == {t \in Threads : /\ request[t].at = "adding"
                                 /\ request[t].user = u /\ request[t].venue = v}
WatchBounded == \A u \in Users, v \in Venues :
  Cardinality(watch[u][v]) + Cardinality(Adding(u, v)) <= WatchLimit + Cardinality(Threads) - 1

(* A venue that has been opened never loses its universe, whatever admins   *)
(* replace at the same time, and it is the one that was stored last, unless *)
(* it is a mixture that overlapping requests have made.                     *)
UniverseKept == \A v \in Venues :
  wanted[v] # {} => universe[v] # {} /\ (v \in mixed \/ universe[v] = wanted[v])
================================================================================
