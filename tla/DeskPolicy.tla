------------------------------- MODULE DeskPolicy -------------------------------
(***************************************************************************)
(* The deterministic desk policy (backend/app/policy.py) and the books it  *)
(* makes: of a run, from what the chief analyst proposed, and of a viewer  *)
(* with another risk appetite (DeskOrchestrator.repolicy), and the changes *)
(* between two books (diff_recommendations in snapshots.py).               *)
(*                                                                         *)
(* apply_policy is a loop over the ranked recommendations that fills a     *)
(* book with caps.  One pass of its body is one step here, so that what    *)
(* the loop keeps can be stated as an invariant and proved.  It works on   *)
(* its own copies, so one application at a time stands for them all.       *)
(* Tickers are numbered in alphabetical order, scores are hundredths, and  *)
(* the texts of a recommendation, its policy_notes too, are left out.      *)
(***************************************************************************)
EXTENDS Integers, Sequences, FiniteSets

CONSTANTS Profiles,  \* a PolicyProfile for each appetite
          Sectors,   \* what sector_key may be
          Raws,      \* what the agents may propose: sequences of Rec
          MaxRuns    \* bound on the completed runs

Actions  == {"accumulate", "watch", "reduce", "avoid"}
Unit     == 0..100
Rec      == [ticker : Nat, sector : Sectors \cup {""}, action : Actions,
             conviction : Unit, composite : Unit, quality : Unit, risk : Unit,
             source_quality : Unit, sources : Nat, cheap : BOOLEAN]
Appetites == DOMAIN Profiles

Thresholds == [conviction : Unit, quality : Unit, risk : Unit, source_quality : Unit,
               sources : Nat, max_accumulate : Nat, max_per_sector : Nat]

ASSUME PolicyAssumption == /\ \A a \in Appetites : Profiles[a] \in Thresholds
                           /\ "Unknown" \in Sectors
                           /\ Raws \subseteq Seq(Rec) \ {<<>>} /\ Raws # {}
                           /\ Appetites # {} /\ MaxRuns \in Nat \ {0}

(* ingest.py:48 loads a ticker once even if it is asked for twice, and the   *)
(* chief analyst rates once what was loaded: a name is proposed once.       *)
ASSUME NamesAssumption == \A recs \in Raws : \A i, j \in DOMAIN recs :
                            recs[i].ticker = recs[j].ticker => i = j

(* The profiles of the desk.  Their min_price is not listed: apply_policy   *)
(* takes the venue's.                                                       *)
PROFILES ==
  [conservative |-> [conviction |-> 72, quality |-> 58, risk |-> 45, source_quality |-> 55,
                     sources |-> 3, max_accumulate |-> 4, max_per_sector |-> 1],
   balanced     |-> [conviction |-> 58, quality |-> 45, risk |-> 62, source_quality |-> 40,
                     sources |-> 2, max_accumulate |-> 6, max_per_sector |-> 2],
   aggressive   |-> [conviction |-> 48, quality |-> 32, risk |-> 78, source_quality |-> 28,
                     sources |-> 1, max_accumulate |-> 8, max_per_sector |-> 3]]

VARIABLES
  runs,     \* completed runs of a venue, oldest first: [raw, book, appetite]
  task,     \* what the policy works for: [kind, run, appetite]
  raw,      \* its recs
  ranked,   \* ranked
  verdict,  \* the actions decided so far, in the order of ranked
  spent,    \* sector_counts
  taken,    \* accumulate_count
  view      \* the answer of the last look: [run, appetite, repoliced, book]

loop == <<raw, ranked, verdict, spent, taken>>
vars == <<runs, task, loop, view>>

--------------------------------------------------------------------------------
(* Ranking, the floors and the order of a book. *)

(* The keys of the two sorts; Python's sort is stable, with reverse=True    *)
(* too, so equal keys keep their order.                                     *)
Higher(recs, i, j) ==
  \/ recs[i].conviction > recs[j].conviction
  \/ /\ recs[i].conviction = recs[j].conviction
     /\ \/ recs[i].composite > recs[j].composite
        \/ recs[i].composite = recs[j].composite /\ i < j

Rank == [accumulate |-> 0, watch |-> 1, reduce |-> 2, avoid |-> 3]

Listed(recs, i, j) ==
  \/ Rank[recs[i].action] < Rank[recs[j].action]
  \/ /\ Rank[recs[i].action] = Rank[recs[j].action]
     /\ \/ recs[i].conviction > recs[j].conviction
        \/ /\ recs[i].conviction = recs[j].conviction
           /\ \/ recs[i].ticker < recs[j].ticker
              \/ recs[i].ticker = recs[j].ticker /\ i < j

(* sorted: the k-th is the one with k - 1 before it. *)
Sorted(recs, before) ==
  [k \in DOMAIN recs |->
     recs[CHOOSE i \in DOMAIN recs : Cardinality(before[i]) + 1 = k]]

Ranked(recs) == Sorted(recs, [i \in DOMAIN recs |-> {j \in DOMAIN recs : Higher(recs, j, i)}])
Book(recs)   == Sorted(recs, [i \in DOMAIN recs |-> {j \in DOMAIN recs : Listed(recs, j, i)}])

SectorKey(r) == IF r.sector = "" THEN "Unknown" ELSE r.sector

(* The action before the floors: below the venue's minimum price it is      *)
(* avoid, whatever the agents say.                                          *)
Priced(r) == IF r.cheap THEN "avoid" ELSE r.action

(* Mutant: the ceiling on risk is a floor. *)
CalmFloor(r, p) == r.risk >= p.risk
Calm(r, p)      == r.risk <= p.risk

(* The floors an accumulate rating has to clear. *)
Clears(r, p) == /\ Priced(r) = "accumulate"
                /\ r.quality >= p.quality /\ Calm(r, p)
                /\ r.source_quality >= p.source_quality
                /\ r.sources >= p.sources
                /\ r.conviction >= p.conviction

(* Mutant: a cap is reached one name late. *)
FullLate(count, cap) == count > cap
Full(count, cap)     == count >= cap

--------------------------------------------------------------------------------

NoTask == [kind |-> "none", run |-> 0, appetite |-> CHOOSE a \in Appetites : TRUE]
NoView == [run |-> 0, appetite |-> CHOOSE a \in Appetites : TRUE,
           repoliced |-> FALSE, book |-> <<>>]

(* A run stored before raw recommendations were kept. *)
OldRun == [raw |-> <<>>, book |-> Book(CHOOSE r \in Raws : TRUE),
           appetite |-> CHOOSE a \in Appetites : TRUE]

Init == /\ runs \in {<<>>, <<OldRun>>}
        /\ task = NoTask /\ view = NoView
        /\ raw = <<>> /\ ranked = <<>> /\ verdict = <<>>
        /\ spent = [s \in Sectors |-> 0] /\ taken = 0

(* apply_policy is called: the recommendations are ranked, the counts zero. *)
Apply(kind, run, appetite, recs) ==
  /\ task' = [kind |-> kind, run |-> run, appetite |-> appetite]
  /\ raw' = recs /\ ranked' = Ranked(recs) /\ verdict' = <<>>
  /\ spent' = [s \in Sectors |-> 0] /\ taken' = 0

(* _execute: the chief analyst has proposed, the policy is applied. *)
Propose(recs, appetite) == /\ task.kind = "none" /\ Len(runs) < MaxRuns
                           /\ Apply("run", Len(runs) + 1, appetite, recs)
                           /\ view' = NoView
                           /\ UNCHANGED runs

(* What repolicy starts from.  Mutant: from the book, not the raw output. *)
SourceBook(run) == run.book
Source(run)     == run.raw

(* repolicy: a viewer looks at run n under an appetite. *)
Look(n, appetite) ==
  /\ task.kind = "none" /\ n \in DOMAIN runs
  /\ IF runs[n].raw = <<>> \/ runs[n].appetite = appetite
     THEN /\ view' = [run |-> n, appetite |-> appetite, repoliced |-> FALSE,
                      book |-> runs[n].book]
          /\ UNCHANGED <<task, loop>>
     ELSE /\ Apply("view", n, appetite, Source(runs[n]))
          /\ view' = NoView
  /\ UNCHANGED runs

(* How much one verdict adds to a count.  Mutant: demoted names count too. *)
CostAlways(action) == 1
Cost(action)       == IF action = "accumulate" THEN 1 ELSE 0

(* The body of the loop. *)
Consider ==
  LET p == Profiles[task.appetite]
      r == ranked[Len(verdict) + 1]
      s == SectorKey(r)
      demoted == IF Priced(r) = "accumulate" THEN "watch" ELSE Priced(r)
      action == IF \/ ~Clears(r, p)
                   \/ Full(spent[s], p.max_per_sector)
                   \/ Full(taken, p.max_accumulate)
                THEN demoted ELSE "accumulate"
  IN  /\ task.kind # "none" /\ Len(verdict) < Len(ranked)
      /\ verdict' = Append(verdict, action)
      /\ spent' = [spent EXCEPT ![s] = @ + Cost(action)]
      /\ taken' = taken + Cost(action)
      /\ UNCHANGED <<runs, task, raw, ranked, view>>

(* The loop is over: the book goes to the run table, or to the viewer. *)
Deliver ==
  LET book == Book([i \in DOMAIN ranked |-> [ranked[i] EXCEPT !.action = verdict[i]]])
  IN  /\ task.kind # "none" /\ Len(verdict) = Len(ranked)
      /\ IF task.kind = "run"
         THEN /\ runs' = Append(runs, [raw |-> raw, book |-> book, appetite |-> task.appetite])
              /\ UNCHANGED view
         ELSE /\ view' = [run |-> task.run, appetite |-> task.appetite,
                          repoliced |-> TRUE, book |-> book]
              /\ UNCHANGED runs
      /\ task' = NoTask
      /\ raw' = <<>> /\ ranked' = <<>> /\ verdict' = <<>>
      /\ spent' = [s \in Sectors |-> 0] /\ taken' = 0

Next == \/ \E recs \in Raws, a \in Appetites : Propose(recs, a)
        \/ \E n \in 1..MaxRuns, a \in Appetites : Look(n, a)
        \/ Consider \/ Deliver

Spec == Init /\ [][Next]_vars

--------------------------------------------------------------------------------
(* diff_recommendations: the moves of each name from one book to the next. *)

Tickers(book)      == {book[i].ticker : i \in DOMAIN book}
ActionOf(book, t)  == book[CHOOSE i \in DOMAIN book : book[i].ticker = t].action
Accumulated(book)  == {book[i].ticker : i \in {k \in DOMAIN book :
                                                book[k].action = "accumulate"}}
Step(current, previous, t) == Rank[ActionOf(current, t)] - Rank[ActionOf(previous, t)]

(* Mutant: a name that stays is an upgrade. *)
RaisedOrStays(change) == change <= 0
Raised(change)        == change < 0

Diff(current, previous) ==
  LET both == Tickers(current) \cap Tickers(previous)
  IN  [new_accumulate |-> Accumulated(current) \ Accumulated(previous),
       upgrades       |-> {t \in both : Raised(Step(current, previous, t))},
       downgrades     |-> {t \in both : Step(current, previous, t) > 0},
       added          |-> Tickers(current) \ Tickers(previous),
       dropped        |-> Tickers(previous) \ Tickers(current)]

--------------------------------------------------------------------------------
(* Properties. *)

Profile == Profiles[task.appetite]
Decided == 1..Len(verdict)
Taken   == {i \in Decided : verdict[i] = "accumulate"}
TakenIn(s) == {i \in Taken : SectorKey(ranked[i]) = s}

(* A completed run, as far as the policy is concerned. *)
Run == [raw : Seq(Rec), book : Seq(Rec), appetite : Appetites]

(* Runs, task, view and the variables of the loop have their types. *)
TypeOK == /\ runs \in Seq(Run)
          /\ task \in [kind : {"none", "run", "view"}, run : Nat, appetite : Appetites]
          /\ view \in [run : Nat, appetite : Appetites, repoliced : BOOLEAN, book : Seq(Rec)]
          /\ raw \in Seq(Rec) /\ ranked \in Seq(Rec) /\ verdict \in Seq(Actions)
          /\ spent \in [Sectors -> Nat] /\ taken \in Nat

(* The parts of the loop's invariant: equal or higher conviction comes      *)
(* first, the counts are those of the names taken so far, and every verdict *)
(* was right when it was given: what clears the floors is taken unless      *)
(* names ranked before it fill its sector or the book.                      *)
Ahead   == Len(verdict) <= Len(ranked)
InOrder == \A i, j \in DOMAIN ranked :
             i < j => ranked[i].conviction >= ranked[j].conviction
Counted == /\ taken = Cardinality(Taken)
           /\ \A s \in Sectors : spent[s] = Cardinality(TakenIn(s))
Capped  == /\ taken <= Profile.max_accumulate
           /\ \A s \in Sectors : spent[s] <= Profile.max_per_sector
Cleared == \A i \in Taken : Clears(ranked[i], Profile)
Beaten  == \A i \in Decided \ Taken : Clears(ranked[i], Profile) =>
             LET s == SectorKey(ranked[i])
             IN  \/ Cardinality({j \in TakenIn(s) : j < i}) >= Profile.max_per_sector
                 \/ Cardinality({j \in Taken : j < i}) >= Profile.max_accumulate

(* What every pass of apply_policy's loop keeps: its counters and verdicts  *)
(* agree with each other, with the ranking, the floors and the caps.        *)
IInv == TypeOK /\ Ahead /\ InOrder /\ Counted /\ Capped /\ Cleared /\ Beaten

(* README.md:39 "Agents propose. Policy disposes. The language model cannot *)
(* override liquidity, sector, or evidence floors": whatever was proposed,  *)
(* a name that is taken clears every floor of the appetite and the venue's  *)
(* minimum price, and the book and each sector stay within their caps.      *)
PolicyDisposes ==
  /\ \A i \in Taken : ranked[i].action = "accumulate" /\ ~ranked[i].cheap
                      /\ Clears(ranked[i], Profile)
  /\ Cardinality(Taken) <= Profile.max_accumulate
  /\ \A s \in Sectors : Cardinality(TakenIn(s)) <= Profile.max_per_sector

(* The caps hold back no name without need: if one that clears the floors   *)
(* is not taken, its sector or the book is full of names the desk is at     *)
(* least as convinced of.                                                   *)
NoNameSkipped ==
  \A i \in Decided \ Taken : Clears(ranked[i], Profile) =>
    LET better == {j \in Taken : ranked[j].conviction >= ranked[i].conviction}
    IN  \/ Cardinality(better \cap TakenIn(SectorKey(ranked[i]))) = Profile.max_per_sector
        \/ Cardinality(better) = Profile.max_accumulate

(* repolicy: "re-applying it to the chief analyst's raw output gives        *)
(* exactly the book that appetite would have produced".                     *)
ViewIsExact ==
  view.repoliced => \A n \in DOMAIN runs :
    runs[n].raw = runs[view.run].raw /\ runs[n].appetite = view.appetite
      => runs[n].book = view.book

(* test_auth.py:265 "Tighter policy can only shrink the accumulate book;    *)
(* looser can only grow it": of one run, a tighter appetite never takes     *)
(* more names (though it may take others).                                  *)
Tighter(a, b) == LET p == Profiles[a]  q == Profiles[b]
                 IN  /\ p.quality >= q.quality /\ p.risk <= q.risk
                     /\ p.source_quality >= q.source_quality
                     /\ p.sources >= q.sources /\ p.conviction >= q.conviction
                     /\ p.max_accumulate <= q.max_accumulate
                     /\ p.max_per_sector <= q.max_per_sector
TighterShrinks ==
  view.repoliced =>
    LET run == runs[view.run]
        mine   == Cardinality(Accumulated(view.book))
        stored == Cardinality(Accumulated(run.book))
    IN  /\ Tighter(view.appetite, run.appetite) => mine <= stored
        /\ Tighter(run.appetite, view.appetite) => stored <= mine

(* book_changes tells every move and tells it once: a name is in exactly    *)
(* one of the four lists if the two books differ on it and in none if they  *)
(* do not, and the changes back are the same, mirrored.                     *)
ChangesTold(a, b) ==
  LET there == Diff(a, b)
      back  == Diff(b, a)
      lists == {"upgrades", "downgrades", "added", "dropped"}
  IN  /\ \A t \in Tickers(a) \cup Tickers(b) :
           Cardinality({k \in lists : t \in there[k]}) =
             IF t \in Tickers(a) \cap Tickers(b) /\ ActionOf(a, t) = ActionOf(b, t)
             THEN 0 ELSE 1
      /\ there.upgrades = back.downgrades /\ there.added = back.dropped
ChangesComplete == \A m, n \in DOMAIN runs : ChangesTold(runs[m].book, runs[n].book)
================================================================================
