------------------------------ MODULE DeskPipeline ------------------------------
(***************************************************************************)
(* What a desk run does with its universe (DeskOrchestrator._execute): the *)
(* load (DataHub), the analysts of backend/app/agents/specialists.py, the  *)
(* scores (DeskScoring) and the chief analyst (chief.py), with the model   *)
(* they may ask (llm.py), up to the result that is stored and read back.   *)
(*                                                                         *)
(* The analysts work on one ticker after the other.  The run row, the      *)
(* events and the concurrency of runs are DeskOrchestrator's.              *)
(***************************************************************************)
EXTENDS DataHub, DeskScoring

CONSTANTS Providers,    \* configurations of the model: see Enabled
          Cap,          \* settings.llm_max_calls_per_run, 0 for none
          DemoNews,     \* tickers with news in the demo book
          DemoFilings,  \* and with filings
          Evidence,     \* what the scores of a ticker may be made of
          MaxRuns,      \* bound on the runs
          MaxLost       \* bound on the cloud agents that stay behind

ASSUME PipelineAssumption == /\ Cap \in Nat /\ MaxRuns \in Nat /\ MaxLost \in Nat
                             /\ DemoNews \subseteq Tickers /\ DemoFilings \subseteq Tickers
                             /\ Providers \subseteq {"heuristic", "gateway", "cursor"}
                             /\ Tickers # {} /\ Evidence \subseteq AnyEvidence

VARIABLES
  provider,  \* the configuration of this process
  runs,      \* number of runs so far
  stage,     \* RunStage of the run, or "cancelled"
  todo,      \* tickers the stage has still to work on
  intel,     \* intel[t]: does ticker t have news, filings, a close of zero?
  blank,     \* the chief has taken a draft with a blank thesis, case or invalidation
  calls,     \* LLMClient.calls
  call,      \* the cloud agent that is waited for
  agents,    \* number of cloud agents that exist
  lost,      \* history: those whose deletion was impossible, failed or cut off
  spent,     \* history: completions of this run
  skipped    \* history: a name of this run was left to the heuristics for the cap

book   == <<provider, runs, intel>>
model  == <<calls, call, agents, lost, spent, blank>>
vars   == <<hub, book, model, stage, todo, skipped>>

--------------------------------------------------------------------------------

(* The stages that work on the tickers, in the order of _execute. *)
Drafting == {"news_analyst", "filings_analyst", "chief_analyst"}
Following == [news_analyst         |-> "filings_analyst",
              filings_analyst      |-> "fundamentals_analyst",
              fundamentals_analyst |-> "chief_analyst",
              chief_analyst        |-> "policy"]
Over == {"idle", "completed", "failed", "cancelled"}

(* has_llm, provider_name, _complete: with a gateway, an OpenAI or an       *)
(* Anthropic key a call is one request; with a Cursor key only, a cloud     *)
(* agent is run.                                                            *)
Enabled == provider # "heuristic"
Cloud   == provider = "cursor"

NoCall  == [at |-> "none", ticker |-> "none", out |-> "none"]
Nothing == [news |-> FALSE, filings |-> FALSE, zero |-> FALSE]

Init == /\ HubInit
        /\ provider \in Providers /\ runs = 0 /\ stage = "idle"
        /\ todo = {} /\ intel = [t \in Tickers |-> Nothing] /\ blank = FALSE
        /\ calls = 0 /\ call = NoCall /\ agents = 0
        /\ lost = 0 /\ spent = 0 /\ skipped = FALSE

--------------------------------------------------------------------------------
(* A run begins and loads its universe. *)

(* reset_usage.  Mutant: the counter goes on from run to run.               *)
ResetNot == calls
Reset == 0

Begin ==
  /\ stage \in Over /\ call = NoCall /\ runs < MaxRuns
  /\ runs' = runs + 1 /\ stage' = "ingest"
  /\ BeginLoad
  /\ calls' = Reset /\ spent' = 0 /\ skipped' = FALSE /\ blank' = FALSE
  /\ UNCHANGED <<cik, age, lock, provider, intel, todo, call, agents, lost>>

Ingest == /\ stage = "ingest" /\ HubStep
          /\ UNCHANGED <<book, model, stage, todo, skipped>>

(* A straggler of a failed load, or the clock, beside everything else.      *)
Beside == /\ \/ stage # "ingest" /\ StrayEnds
             \/ Tick
          /\ UNCHANGED <<book, model, stage, todo, skipped>>

Has(t, f) == f \in Feeds /\ feed[t][f].got # "none"

(* _from_demo: what the vendors did not give comes from the demo book,      *)
(* which has no news and no filings of some names.                          *)
Loaded ==
  /\ stage = "ingest" /\ load = "loaded"
  /\ intel' = [t \in Tickers |->
       [news    |-> Has(t, "news") \/ t \in DemoNews,
        filings |-> Has(t, "filings") \/ t \in DemoFilings,
        zero    |-> Has(t, "candle") /\ feed[t]["candle"].got = "zero"]]
  /\ stage' = "news_analyst" /\ todo' = Tickers
  /\ load' = "idle" /\ feed' = [t \in Tickers |-> [f \in Feeds |-> Waiting]]
  /\ UNCHANGED <<cik, age, lock, odd, provider, runs, model, skipped>>

(* What escapes from a stage makes _execute store the run as failed.        *)
Fails == stage' = "failed" /\ todo' = {} /\ load' = "idle"

LoadFailed == /\ stage = "ingest" /\ load = "failed" /\ Fails
              /\ UNCHANGED <<feed, cik, age, lock, odd, book, model, skipped>>

--------------------------------------------------------------------------------
(* The analysts. *)

(* The next ticker, or the next stage. *)
Advance(t) == IF todo = {t} THEN stage' = Following[stage] /\ todo' = Tickers
                            ELSE todo' = todo \ {t} /\ UNCHANGED stage

(* Who asks the model about ticker t: NewsAnalyst and FilingsAnalyst if     *)
(* there is something to read, ChiefAnalyst always.                         *)
NewsAsks(t)    == stage = "news_analyst" /\ intel[t].news
FilingsAsks(t) == stage = "filings_analyst" /\ intel[t].filings
ChiefAsks(t)   == stage = "chief_analyst"
Asks(t) == Enabled /\ (NewsAsks(t) \/ FilingsAsks(t) \/ ChiefAsks(t))

(* complete_json: no call beyond the cap. *)
Capped == Cap # 0 /\ calls >= Cap

(* What pydantic makes of the scores of a ticker, and of its baseline.      *)
CardFits      == \E e \in Evidence : CardValid(e)
RatingFits    == \E e \in Evidence : RatingValid(e)
Refused == \/ stage = "fundamentals_analyst" /\ \E e \in Evidence : ~CardValid(e)
           \/ stage = "chief_analyst" /\ \E e \in Evidence : ~RatingValid(e)

(* An analyst is at ticker t; the chief has made the baseline first.        *)
Working(t) == /\ stage \in Drafting /\ t \in todo /\ call = NoCall
              /\ (stage = "chief_analyst" => RatingFits)

(* extract_events, news_bias, filing_bias, heuristic_recommendation.        *)
Heuristics(t) ==
  /\ Working(t) /\ (~Asks(t) \/ Capped)
  /\ Advance(t) /\ skipped' = (skipped \/ Asks(t))
  /\ UNCHANGED <<hub, book, model>>

(* build_scorecard *)
BuildScore(t) ==
  /\ stage = "fundamentals_analyst" /\ t \in todo
  /\ CardFits
  /\ Advance(t)
  /\ UNCHANGED <<hub, book, model, skipped>>

(* A score outside its range, or a division by a close of zero. *)
ScoreFails(t) ==
  /\ t \in todo /\ call = NoCall
  /\ (stage = "fundamentals_analyst" /\ intel[t].zero) \/ Refused
  /\ Fails
  /\ UNCHANGED <<feed, cik, age, lock, odd, book, model, skipped>>

--------------------------------------------------------------------------------
(* The model. *)

(* What a call comes to.  A draft that the schema accepts may still hold    *)
(* blank text; an answer that is not the JSON asked for is a completion all *)
(* the same, an error is not.                                               *)
Outcomes == {"draft", "blank", "invalid", "error"}
Counted(out) == IF out = "error" THEN 0 ELSE 1

(* The analyst takes the draft, or falls back to its heuristics; the        *)
(* chief's draft replaces the baseline's text unchecked (model_copy).       *)
Concludes(t, out) ==
  /\ calls' = calls + Counted(out) /\ spent' = spent + Counted(out)
  /\ blank' = (blank \/ (stage = "chief_analyst" /\ out = "blank"))
  /\ Advance(t)

CallsModel(t) == Working(t) /\ Asks(t) /\ ~Capped

(* _openai, _anthropic *)
Complete(t) ==
  /\ CallsModel(t) /\ ~Cloud
  /\ \E out \in Outcomes : Concludes(t, out)
  /\ UNCHANGED <<hub, book, call, agents, lost, skipped>>

(* _cursor_cloud creates an agent; if the answer lacks the id of its run    *)
(* the agent stays behind.                                                  *)
CreateFails(t) ==
  /\ CallsModel(t) /\ Cloud
  /\ Concludes(t, "error")
  /\ \/ UNCHANGED <<agents, lost>>
     \/ lost < MaxLost /\ agents' = agents + 1 /\ lost' = lost + 1
  /\ UNCHANGED <<hub, book, call, skipped>>
Create(t) ==
  /\ CallsModel(t) /\ Cloud
  /\ call' = [at |-> "streaming", ticker |-> t, out |-> "none"] /\ agents' = agents + 1
  /\ UNCHANGED <<hub, book, calls, lost, spent, blank, stage, todo, skipped>>

(* What the last event of a stream says: the result, an error, or neither.  *)
StreamEnds == Outcomes

(* _cursor_wait_for_run: the stream is read to its end, or it is not to be  *)
(* had and the run is polled.                                               *)
Stream ==
  /\ call.at = "streaming"
  /\ \/ \E out \in StreamEnds : call' = [call EXCEPT !.at = "deleting", !.out = out]
     \/ call' = [call EXCEPT !.at = "polling"]
  /\ UNCHANGED <<hub, book, calls, agents, lost, spent, blank, stage, todo, skipped>>

(* Until the run has ended, the time is up or a poll fails. *)
Poll ==
  /\ call.at = "polling"
  /\ \E out \in Outcomes : call' = [call EXCEPT !.at = "deleting", !.out = out]
  /\ UNCHANGED <<hub, book, calls, agents, lost, spent, blank, stage, todo, skipped>>

(* What the deletion in the `finally' does to the number of agents.         *)
(* Mutant: it is reached only with an answer.                               *)
DeletedAnswered(out) == IF out \in {"error", "cancelled"} THEN agents ELSE agents - 1
Deleted(out) == agents - 1

Delete ==
  /\ call.at = "deleting" /\ call' = NoCall
  /\ \/ agents' = Deleted(call.out) /\ UNCHANGED lost
     \/ lost < MaxLost /\ lost' = lost + 1 /\ UNCHANGED agents
  /\ IF call.out = "cancelled" THEN UNCHANGED <<calls, spent, blank, stage, todo>>
     ELSE Concludes(call.ticker, call.out)
  /\ UNCHANGED <<hub, book, skipped>>

--------------------------------------------------------------------------------

(* apply_policy and _persist. *)
Finish ==
  /\ stage = "policy" /\ stage' = "completed" /\ todo' = {}
  /\ UNCHANGED <<hub, book, model, skipped>>

(* The process is shut down in the middle of a run: its task is cancelled,  *)
(* which the `finally' of a call survives unless it was deleting already;   *)
(* an agent that was just being created stays behind.                       *)
(* The next process starts with a hub of its own.                           *)
Shutdown ==
  /\ stage \notin Over /\ stage' = "cancelled" /\ todo' = {}
  /\ \/ /\ call.at = "none" /\ UNCHANGED <<call, agents, lost>>
     \/ /\ \E t \in Tickers : CallsModel(t)
        /\ Cloud /\ lost < MaxLost
        /\ agents' = agents + 1 /\ lost' = lost + 1 /\ UNCHANGED call
     \/ /\ call.at = "deleting" /\ lost < MaxLost
        /\ lost' = lost + 1 /\ call' = NoCall /\ UNCHANGED agents
     \/ /\ call.at \in {"streaming", "polling"}
        /\ call' = [call EXCEPT !.at = "deleting", !.out = "cancelled"]
        /\ UNCHANGED <<agents, lost>>
  /\ load' = "idle" /\ odd' = FALSE /\ cik' = "unset" /\ age' = 0 /\ lock' = "free"
  /\ feed' = [t \in Tickers |-> [f \in Feeds |-> Waiting]]
  /\ UNCHANGED <<book, calls, spent, blank, skipped>>

RunStep == \/ Ingest \/ Beside \/ Loaded \/ LoadFailed \/ Stream \/ Poll \/ Delete \/ Finish
           \/ \E t \in Tickers : \/ Heuristics(t) \/ BuildScore(t) \/ ScoreFails(t)
                                 \/ Complete(t) \/ Create(t) \/ CreateFails(t)

Next == Begin \/ RunStep \/ Shutdown

Spec == Init /\ [][Next]_vars

(* Every request has a timeout, and the event loop runs what is ready.      *)
FairSpec == Spec /\ WF_vars(RunStep)

--------------------------------------------------------------------------------

TypeOK ==
  /\ HubTypeOK
  /\ provider \in Providers /\ runs \in 0..MaxRuns
  /\ stage \in Over \cup {"ingest", "policy"} \cup DOMAIN Following
  /\ todo \subseteq Tickers
  /\ intel \in [Tickers -> [news : BOOLEAN, filings : BOOLEAN, zero : BOOLEAN]]
  /\ blank \in BOOLEAN /\ skipped \in BOOLEAN
  /\ call \in [at : {"none", "streaming", "polling", "deleting"},
               ticker : Tickers \cup {"none"}, out : Outcomes \cup {"none", "cancelled"}]
  /\ calls \in Nat /\ agents \in Nat /\ spent \in Nat /\ lost \in 0..MaxLost

(* "a single vendor outage cannot fail a desk run": a run fails only if a   *)
(* vendor has answered something malformed, never because vendors were      *)
(* down, a score left its range or the model failed.  And the model is      *)
(* asked until as many completions as the cap allows are spent by this run, *)
(* never more often ("Cap LLM completions per desk run").                   *)
CausesKnown ==
  /\ stage = "failed" => odd \/ \E t \in Tickers : intel[t].zero
  /\ Cap # 0 => spent <= Cap
  /\ skipped => spent = Cap

(* The map of EDGAR's tickers is asked for by one coroutine at a time, and  *)
(* only when there is none or it is out of date; once it is known, a failed *)
(* refresh does not lose it while the process lives (_cik_for).             *)
MapKept == [][stage' # "cancelled" =>
  /\ cik = "good" => cik' = "good"
  /\ Cardinality(AskingMap') <= 1
  /\ AskingMap' \subseteq AskingMap \/ Stale]_vars

(* Every cloud agent created for a call is deleted when the call is over,   *)
(* however it ends: with an answer, an error, a timeout or a shutdown;      *)
(* unless its ids never arrived or the deletion itself failed.              *)
AgentsDeleted == agents = lost + IF call.at = "none" THEN 0 ELSE 1

(* Every run comes to an end, whatever the vendors and the model do, as     *)
(* they all have timeouts and the tries are bounded.                        *)
RunConcludes == stage = "ingest" ~> stage \in {"completed", "failed", "cancelled"}

(* "narrative fields must not be empty": what a completed run has stored is *)
(* what AnalysisResult accepts when it is read back.                        *)
BookReadable == stage = "completed" => ~blank
================================================================================
