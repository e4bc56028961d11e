-------------------------------- MODULE DataHub --------------------------------
(***************************************************************************)
(* The data hub (backend/app/ingest.py): one load of the universe asks the *)
(* vendors about every ticker, several tickers at a time and all feeds of  *)
(* a ticker at once, and fills what is missing from the demo book.         *)
(*                                                                         *)
(* Vendors are external: each request is answered, refused, told to come   *)
(* back, or lost.  What an adapter makes of an answer is one of a few      *)
(* outcomes; that a field of an unexpected type makes it raise is one.     *)
(***************************************************************************)
EXTENDS Integers, FiniteSets, Sequences

CONSTANTS Tickers,
          Feeds,        \* the feeds whose requests are followed
          Keys,         \* vendors with an API key
          Edgar,        \* market.filings = "edgar"
          ForceDemo,    \* settings.force_demo_data
          Concurrency,  \* settings.ingest_concurrency
          Retries,      \* `retries' of _get_json
          CacheTTL, FailureRetry,  \* _CIK_CACHE_TTL_SECONDS, _CIK_FAILURE_RETRY_SECONDS
          Listed        \* tickers of the EDGAR map

ASSUME HubAssumption == /\ Concurrency \in Nat \ {0} /\ Retries \in Nat
                        /\ FailureRetry \in Nat /\ CacheTTL \in Nat /\ FailureRetry <= CacheTTL
                        /\ Edgar \in BOOLEAN /\ ForceDemo \in BOOLEAN
                        /\ Listed \subseteq Tickers
                        /\ {"free", "stray"} \cap Tickers = {}

VARIABLES
  load,   \* "idle", "loading", "loaded" or "failed"
  feed,   \* feed[t][f]: the coroutine of feed f of ticker t
  cik,    \* _cik_map: "unset", "empty" or "good"
  age,    \* time since _cik_loaded_at, or since the request for the map began
  lock,   \* _cik_lock: "free", the ticker whose filings hold it, or "stray"
  odd     \* history: a malformed answer has come in this load

hub == <<load, feed, cik, age, lock, odd>>

--------------------------------------------------------------------------------
(* The adapters: the vendors each asks in turn. *)

Sources == [profile      |-> <<"finnhub">>,
            quote        |-> <<"finnhub", "alphavantage">>,
            fundamentals |-> <<"finnhub">>,
            news         |-> <<"finnhub", "newsapi">>,
            filings      |-> <<"map", "edgar">>,
            candle       |-> <<"finnhub">>,
            earnings     |-> <<"finnhub">>]

ASSUME FeedsAssumption == Feeds \subseteq DOMAIN Sources

(* What each can make of a JSON answer.  "none": not of the expected shape, *)
(* or nothing usable in it.  "raised": a field it does not check is of      *)
(* another type.                                                            *)
Profile         == {"none", "vendor", "raised"}   \* without a name: none
QuoteFinnhub    == {"none", "vendor", "raised"}   \* without a positive price: none
QuoteAlpha      == {"none", "vendor", "raised"}   \* what does not parse: none
FundamentalsOf  == {"none", "vendor", "raised"}   \* a metric that does not parse is left out
NewsFinnhub     == {"none", "few", "vendor", "raised"}   \* rows without a headline are left out
NewsNewsapi     == {"none", "vendor", "raised"}   \* so are those without a link
Filings         == {"none", "vendor", "raised"}   \* at most four of the wanted forms
CandleOf        == {"none", "vendor", "zero", "raised"}  \* a close of zero is kept
Earnings        == {"none", "vendor", "raised"}   \* the first date of the ticker's own

Yields(f, source) == CASE f = "profile"      -> Profile
                       [] f = "quote"        -> IF source = 1 THEN QuoteFinnhub ELSE QuoteAlpha
                       [] f = "fundamentals" -> FundamentalsOf
                       [] f = "news"         -> IF source = 1 THEN NewsFinnhub ELSE NewsNewsapi
                       [] f = "filings"      -> Filings
                       [] f = "candle"       -> CandleOf
                       [] f = "earnings"     -> Earnings

--------------------------------------------------------------------------------
(* One coroutine per feed. *)

At(at, source, got) == [at |-> at, source |-> source, attempt |-> 0, got |-> got]
Waiting  == At("waiting", 0, "none")    \* for the semaphore
Locking  == At("locking", 1, "none")    \* for the lock of the map
Asking(source, got) == At("asking", source, got)
Done(got) == At("done", 0, got)
Raised   == At("raised", 0, "none")

(* A vendor without a key is not asked. *)
Open(f) == {i \in 1..Len(Sources[f]) : Sources[f][i] \in Keys /\ ~ForceDemo}

(* Where a feed goes that has got `got' from its first i sources: a quote   *)
(* ends the search, fewer than three news items do not.                     *)
Turn(f, i, got) ==
  LET more == {j \in Open(f) : j > i} IN
  IF got \notin {"none", "few"} \/ more = {} THEN Done(got)
  ELSE Asking(CHOOSE j \in more : \A k \in more : j <= k, got)

Better(before, now) == IF now = "none" THEN before ELSE now

(* After the last try _get_json gives None.  Mutant: the error escapes.     *)
GaveUpRaising(f, i, got) == Raised
GaveUp(f, i, got) == Turn(f, i, got)

(* The filings of a ticker that the map does not list are skipped. *)
Lookup(t, map) == IF map = "good" /\ t \in Listed THEN Asking(2, "none") ELSE Done("none")

Started(t)  == \E f \in Feeds : feed[t][f].at # "waiting"
Finished(t) == \A f \in Feeds : feed[t][f].at = "done"

HubInit == /\ load = "idle" /\ odd = FALSE
           /\ feed = [t \in Tickers |-> [f \in Feeds |-> Waiting]]
           /\ cik = "unset" /\ age = 0 /\ lock = "free"

--------------------------------------------------------------------------------

(* load_universe *)
BeginLoad == /\ load' = "loading" /\ odd' = FALSE
             /\ feed' = [t \in Tickers |-> [f \in Feeds |-> Waiting]]

(* bound: a ticker gets past the semaphore, and _load_one gathers its feeds. *)
StartTicker(t) ==
  /\ load = "loading" /\ ~Started(t)
  /\ Cardinality({u \in Tickers : Started(u) /\ ~Finished(u)}) < Concurrency
  /\ feed' = [feed EXCEPT ![t] = [f \in Feeds |->
       IF f # "filings" THEN Turn(f, 0, "none")
       ELSE IF Edgar /\ ~ForceDemo THEN Locking ELSE Done("none")]]
  /\ UNCHANGED <<load, cik, age, lock, odd>>

(* Feed f of ticker t is answered, by a vendor or by the end of its tries.  *)
Becomes(t, f, next) == /\ feed' = [feed EXCEPT ![t][f] = next]
                       /\ odd' = (odd \/ next = Raised)

Unsettled(t, f) == load = "loading" /\ feed[t][f].at = "asking"

(* _get_json: a retryable status or a transport error, but not the last.    *)
TryAgain(t, f) ==
  /\ Unsettled(t, f) /\ feed[t][f].attempt < Retries
  /\ feed' = [feed EXCEPT ![t][f].attempt = @ + 1]
  /\ UNCHANGED <<load, cik, age, lock, odd>>

AsksMap(t, f) == f = "filings" /\ feed[t][f].source = 1

(* _get_json fails, or its JSON is read.                                    *)
Answer(t, f) ==
  LET q == feed[t][f] IN
  /\ Unsettled(t, f) /\ ~AsksMap(t, f)
  /\ \/ q.attempt = Retries /\ feed' = [feed EXCEPT ![t][f] = GaveUp(f, q.source, q.got)]
                            /\ UNCHANGED odd
     \/ \E y \in Yields(f, q.source) :
          Becomes(t, f, IF y = "raised" THEN Raised
                        ELSE Turn(f, q.source, Better(q.got, y)))
  /\ UNCHANGED <<load, cik, age, lock>>

--------------------------------------------------------------------------------
(* _cik_for: the ticker map of EDGAR, shared by all tickers and loads.      *)

(* Nobody waits for the map who can have it.  Mutant: nobody waits.         *)
UnlockedAlways == TRUE
Unlocked == lock = "free"

Stale == cik = "unset" \/ age > IF cik = "good" THEN CacheTTL ELSE FailureRetry

TakeLock(t) ==
  /\ load = "loading" /\ "filings" \in Feeds
  /\ feed[t]["filings"].at = "locking" /\ Unlocked
  /\ IF Stale
     THEN /\ lock' = t /\ age' = 0
          /\ feed' = [feed EXCEPT ![t]["filings"] = Asking(1, "none")]
     ELSE /\ feed' = [feed EXCEPT ![t]["filings"] = Lookup(t, cik)]
          /\ UNCHANGED <<lock, age>>
  /\ UNCHANGED <<load, cik, odd>>

(* A map that is known is not replaced by none.                             *)
Learned(mapping) == IF mapping = "good" \/ cik = "unset" THEN mapping ELSE cik

Saturated == CacheTTL + 1

(* `async with' releases the lock.  Mutant: it is left locked.              *)
ReleasedNot == lock
Released == "free"

(* The request for the map ends: with a map, with none, or with an error of *)
(* httpx that _get_json does not expect, which leaves it as old as it was.  *)
AnswerMap(t) ==
  /\ "filings" \in Feeds /\ Unsettled(t, "filings") /\ AsksMap(t, "filings")
  /\ \/ \E mapping \in {"empty", "good"} :
          /\ cik' = Learned(mapping)
          /\ Becomes(t, "filings", Lookup(t, cik'))
          /\ UNCHANGED age
     \/ Becomes(t, "filings", Raised) /\ age' = Saturated /\ UNCHANGED cik
  /\ lock' = Released
  /\ UNCHANGED load

--------------------------------------------------------------------------------

(* The gather is complete. *)
LoadEnds ==
  /\ load = "loading" /\ \A t \in Tickers : Finished(t)
  /\ load' = "loaded"
  /\ UNCHANGED <<feed, cik, age, lock, odd>>

(* One feed has raised: the gather raises, and the client is closed.  The   *)
(* other coroutines are not cancelled; they run into the closed client.     *)
LoadFails ==
  /\ load = "loading" /\ \E t \in Tickers, f \in Feeds : feed[t][f] = Raised
  /\ load' = "failed"
  /\ feed' = [t \in Tickers |-> [f \in Feeds |-> Waiting]]
  /\ lock' = IF lock = "free" THEN lock ELSE "stray"
  /\ UNCHANGED <<cik, age, odd>>

(* The one that held the lock may have had its answer already.              *)
StrayEnds ==
  /\ lock = "stray" /\ lock' = "free"
  /\ \/ age' = Saturated /\ UNCHANGED cik
     \/ \E mapping \in {"empty", "good"} : cik' = Learned(mapping) /\ UNCHANGED age
  /\ UNCHANGED <<load, feed, odd>>

Tick == /\ age < Saturated /\ (cik # "unset" \/ lock # "free")
        /\ age' = age + 1
        /\ UNCHANGED <<load, feed, cik, lock, odd>>

HubStep == \/ \E t \in Tickers : \/ StartTicker(t) \/ TakeLock(t) \/ AnswerMap(t)
                                 \/ \E f \in Feeds : TryAgain(t, f) \/ Answer(t, f)
           \/ LoadEnds \/ LoadFails \/ StrayEnds

--------------------------------------------------------------------------------

HubTypeOK ==
  /\ load \in {"idle", "loading", "loaded", "failed"} /\ odd \in BOOLEAN
  /\ feed \in [Tickers -> [Feeds -> [at : {"waiting", "locking", "asking", "done", "raised"},
                                     source : 0..2, attempt : 0..Retries,
                                     got : {"none", "few", "vendor", "zero"}]]]
  /\ cik \in {"unset", "empty", "good"} /\ age \in 0..Saturated
  /\ lock \in {"free", "stray"} \cup Tickers

(* The tickers whose filings have asked for the map. *)
AskingMap == {t \in Tickers : "filings" \in Feeds /\ feed[t]["filings"].at = "asking"
                                                  /\ feed[t]["filings"].source = 1}
================================================================================
