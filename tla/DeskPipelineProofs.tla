--------------------------- MODULE DeskPipelineProofs ---------------------------
(***************************************************************************)
(* Proofs about the pipeline of a desk run: first the scores (DeskScoring), *)
(* then the hub (DataHub) and the run that goes through them               *)
(* (DeskPipeline).                                                         *)
(***************************************************************************)
EXTENDS DeskPipeline, FiniteSetTheorems, TLAPS

Fraction(x) == x \in Int /\ 0 <= x /\ x <= One

LEMMA OneIs == One \in Int /\ One = 10000
BY DEF One

(* Python's clamp, with the default bounds. *)
LEMMA ScoreIsFraction ==
  ASSUME NEW value \in Int
  PROVE  Fraction(Score(value))
BY OneIs DEF Score, Clamp, AtMost, AtLeast, Fraction

LEMMA BoundsAreInts ==
  ASSUME NEW a \in Int, NEW b \in Int
  PROVE  AtMost(a, b) \in Int /\ AtMost(a, b) <= a /\ AtMost(a, b) <= b
BY DEF AtMost

LEMMA OrIsFigure ==
  ASSUME NEW value \in Figure, NEW other \in Figure
  PROVE  Or(value, other) \in Figure
BY DEF Or

LEMMA OrIsInt ==
  ASSUME NEW value \in Figure, NEW other \in Int
  PROVE  Or(value, other) \in Int
BY DEF Or, Figure

LEMMA EvidenceFields ==
  ASSUME NEW e \in AnyEvidence
  PROVE  /\ e.bias \in Int /\ e.return \in Int /\ e.vol \in Int /\ e.change \in Int
         /\ e.closes \in Int
         /\ e.roe \in Figure /\ e.profit_margin \in Figure /\ e.operating_margin \in Figure
         /\ e.revenue_growth \in Figure /\ e.debt_to_equity \in Figure
         /\ e.pe \in Figure /\ e.forward_pe \in Figure /\ e.quote_pe \in Figure
         /\ e.eps_growth \in Figure /\ e.beta \in Figure
         /\ e.spread \in Int /\ e.items \in Int /\ e.publishers \in Int /\ e.live \in Int
BY DEF AnyEvidence

LEMMA MomentumIsFraction ==
  ASSUME NEW e \in AnyEvidence
  PROVE  Fraction(Momentum(e))
<1>1. /\ e.return \in Int /\ e.vol \in Int /\ e.change \in Int
  BY EvidenceFields
<1>2. AtMost(8 * e.vol, 2500) \in Int
  BY <1>1 DEF AtMost
<1> DEFINE value == IF e.closes >= 5
                    THEN 5000 + (22 * e.return) \div 10 - AtMost(8 * e.vol, 2500)
                    ELSE 5000 + e.change \div 40
<1>3. value \in Int
  BY <1>1, <1>2
<1>4. Momentum(e) = Score(value)
  BY DEF Momentum
<1> HIDE DEF value
<1> QED BY <1>3, <1>4, ScoreIsFraction

LEMMA PartIsFraction ==
  ASSUME NEW figure \in Figures, NEW value \in Int
  PROVE  Fraction(Part(figure, value))
<1>1. AtMost(value, 4 * One) \in Int
  BY OneIs, BoundsAreInts
<1>2. CASE figure = "roe"
  <2>1. Part(figure, value) = Score(3500 + (6 * value) \div 10)
    BY <1>2 DEF Part
  <2> QED BY <2>1, ScoreIsFraction
<1>3. CASE figure = "profit_margin"
  <2>1. Part(figure, value) = Score(3500 + (14 * value) \div 10)
    BY <1>3 DEF Part
  <2> QED BY <2>1, ScoreIsFraction
<1>4. CASE figure = "operating_margin"
  <2>1. Part(figure, value) = Score(3500 + (12 * value) \div 10)
    BY <1>4 DEF Part
  <2> QED BY <2>1, ScoreIsFraction
<1>5. CASE figure = "revenue_growth"
  <2>1. Part(figure, value) = Score(4500 + (9 * value) \div 10)
    BY <1>5 DEF Part
  <2> QED BY <2>1, ScoreIsFraction
<1>6. CASE figure = "debt_to_equity"
  <2>1. Part(figure, value) = Score(10500 - AtMost(value, 4 * One) \div 5)
    BY <1>6 DEF Part
  <2>2. 10500 - AtMost(value, 4 * One) \div 5 \in Int
    BY <1>1
  <2> QED BY <2>1, <2>2, ScoreIsFraction
<1> QED BY <1>2, <1>3, <1>4, <1>5, <1>6 DEF Figures

(* A figure adds a fraction to the sum and one to the count, or nothing to  *)
(* either.                                                                  *)
LEMMA TermIsFraction ==
  ASSUME NEW e, NEW figure \in Figures, e[figure] \in Figure
  PROVE  /\ Term(e, figure) \in Int /\ Known(e, figure) \in {0, 1}
         /\ 0 <= Term(e, figure) /\ Term(e, figure) <= One * Known(e, figure)
<1>1. CASE e[figure] = None
  BY <1>1, OneIs DEF Term, Known
<1>2. CASE e[figure] # None
  <2>1. e[figure] \in Int
    BY <1>2 DEF Figure
  <2>2. Fraction(Part(figure, e[figure]))
    BY <2>1, PartIsFraction
  <2> QED BY <1>2, <2>2, OneIs DEF Term, Known, Fraction
<1> QED BY <1>1, <1>2

(* The average of numbers in a range is in the range. *)
LEMMA Average ==
  ASSUME NEW sum \in Int, NEW n \in {1, 2, 3, 4, 5}, 0 <= sum, sum <= One * n
  PROVE  Fraction(sum \div n)
<1>1. CASE n = 1  BY <1>1, OneIs DEF Fraction
<1>2. CASE n = 2  BY <1>2, OneIs DEF Fraction
<1>3. CASE n = 3  BY <1>3, OneIs DEF Fraction
<1>4. CASE n = 4  BY <1>4, OneIs DEF Fraction
<1>5. CASE n = 5  BY <1>5, OneIs DEF Fraction
<1> QED BY <1>1, <1>2, <1>3, <1>4, <1>5

LEMMA QualityIsFraction ==
  ASSUME NEW e \in AnyEvidence
  PROVE  Fraction(Quality(e))
<1>1. \A figure \in Figures :
        /\ Term(e, figure) \in Int /\ Known(e, figure) \in {0, 1}
        /\ 0 <= Term(e, figure) /\ Term(e, figure) <= One * Known(e, figure)
  <2>1. \A figure \in Figures : e[figure] \in Figure
    BY EvidenceFields DEF Figures
  <2> QED BY <2>1, TermIsFraction
<1>2. {"roe", "profit_margin", "operating_margin", "revenue_growth", "debt_to_equity"} = Figures
  BY DEF Figures
<1>3. /\ Terms(e) \in Int /\ 0 <= Terms(e) /\ Terms(e) <= One * Count(e)
      /\ Count(e) \in {0, 1, 2, 3, 4, 5}
  BY <1>1, <1>2, OneIs DEF Terms, Count
<1>4. CASE Count(e) = 0
  BY <1>4, OneIs DEF Quality, Fraction
<1>5. CASE Count(e) # 0
  <2>1. Count(e) \in {1, 2, 3, 4, 5}
    BY <1>3, <1>5
  <2>2. Fraction(Terms(e) \div Count(e))
    BY <1>3, <2>1, Average
  <2> QED BY <1>5, <2>2 DEF Quality
<1> QED BY <1>4, <1>5

LEMMA ValuationIsFraction ==
  ASSUME NEW e \in AnyEvidence
  PROVE  Fraction(Valuation(e))
<1> DEFINE pe     == Or(e.forward_pe, Or(e.pe, e.quote_pe))
           growth == Or(e.eps_growth, Or(e.revenue_growth, 0))
           value  == (55 * Attractive(pe) + 45 * Score(4000 + growth)) \div 100
<1>1. pe \in Figure
  BY EvidenceFields, OrIsFigure
<1>2. growth \in Int
  BY EvidenceFields, OrIsInt
<1>3. Valuation(e) = IF pe = None THEN 4500 ELSE IF pe <= 0 THEN 4500 ELSE Score(value)
  BY DEF Valuation
<1>4. Fraction(4500)
  BY OneIs DEF Fraction
<1>5. ASSUME pe # None
      PROVE  Fraction(Score(value))
  <2>1. pe \in Int
    BY <1>1, <1>5 DEF Figure
  <2>2. AtMost(pe, 55 * One) \in Int
    BY <2>1, OneIs, BoundsAreInts
  <2>3. (28 * One - AtMost(pe, 55 * One)) \div 28 \in Int
    BY <2>2, OneIs
  <2>4. Attractive(pe) \in Int
    BY <2>3, ScoreIsFraction DEF Attractive, Fraction
  <2>5. Score(4000 + growth) \in Int
    BY <1>2, ScoreIsFraction DEF Fraction
  <2>6. value \in Int
    BY <2>4, <2>5
  <2> QED BY <2>6, ScoreIsFraction
<1> HIDE DEF pe, value
<1> QED BY <1>3, <1>4, <1>5

LEMMA RiskIsFraction ==
  ASSUME NEW e \in AnyEvidence
  PROVE  Fraction(Risk(e))
<1>1. Or(e.beta, One) \in Int
  BY EvidenceFields, OrIsInt, OneIs
<1>2. EventRisk(e) \in Int
  BY DEF EventRisk
<1>3. AtMost(e.spread, 1200) \in Int
  BY EvidenceFields DEF AtMost
<1> DEFINE value == 2200 + (18 * (Or(e.beta, One) - One)) \div 100
                      + EventRisk(e) + 3 * AtMost(e.spread, 1200)
<1>4. value \in Int
  BY <1>1, <1>2, <1>3, OneIs
<1>5. Risk(e) = Score(value)
  BY DEF Risk
<1> HIDE DEF value
<1> QED BY <1>4, <1>5, ScoreIsFraction

LEMMA SourcesAreFraction ==
  ASSUME NEW e \in AnyEvidence
  PROVE  Fraction(SourceQuality(e))
<1>1. /\ AtMost(e.items, 6) \in Int /\ AtMost(e.publishers, 4) \in Int
      /\ AtMost(e.live, 5) \in Int
  BY EvidenceFields DEF AtMost
<1> QED BY <1>1, ScoreIsFraction DEF SourceQuality

(* The fields of a score card. *)
Fractions(card) ==
  /\ Fraction(card.news_materiality) /\ Fraction(card.fundamental_quality)
  /\ Fraction(card.valuation_attractiveness) /\ Fraction(card.momentum)
  /\ Fraction(card.risk) /\ Fraction(card.source_quality)

LEMMA PartsAreFractions ==
  ASSUME NEW e \in AnyEvidence
  PROVE  Fractions(Parts(e))
<1> DEFINE bias == 5000 + (35 * e.bias) \div 100 + IF e.events THEN 800 ELSE 0
<1>1. bias \in Int
  BY EvidenceFields
<1>2. Parts(e).news_materiality = Score(bias)
  BY DEF Parts
<1> HIDE DEF bias
<1>3. Fraction(Parts(e).news_materiality)
  BY <1>1, <1>2, ScoreIsFraction
<1>4. /\ Parts(e).fundamental_quality = Quality(e)
      /\ Parts(e).valuation_attractiveness = Valuation(e)
      /\ Parts(e).momentum = Momentum(e) /\ Parts(e).risk = Risk(e)
      /\ Parts(e).source_quality = SourceQuality(e)
  BY DEF Parts
<1> QED
  BY <1>3, <1>4, QualityIsFraction, ValuationIsFraction, MomentumIsFraction,
     RiskIsFraction, SourcesAreFraction DEF Fractions

(* The weights of composite_score add up to nine tenths less the risk's, so *)
(* a high risk keeps the composite below the top of its range.              *)
LEMMA CompositeIsBounded ==
  ASSUME NEW card, Fractions(card)
  PROVE  /\ Fraction(Composite(card))
         /\ card.risk > 7800 => Composite(card) <= 9400
<1> DEFINE sum == 22 * card.news_materiality + 22 * card.fundamental_quality
                    + 18 * card.valuation_attractiveness + 16 * card.momentum
                    + 12 * card.source_quality - 18 * card.risk
           value == sum \div 100 + 1800
<1>1. sum \in Int /\ (card.risk > 7800 => sum <= 760000)
  BY OneIs DEF Fractions, Fraction
<1> HIDE DEF sum
<1>2. value \in Int /\ (card.risk > 7800 => value <= 9400)
  BY <1>1
<1>3. Composite(card) = Score(value)
  BY DEF Composite, sum
<1> HIDE DEF value
<1>4. Fraction(Composite(card))
  BY <1>2, <1>3, ScoreIsFraction
<1>5. value <= 9400 => Score(value) <= 9400
  BY <1>2, OneIs DEF Score, Clamp, AtMost, AtLeast
<1> QED BY <1>2, <1>3, <1>4, <1>5

--------------------------------------------------------------------------------

(* build_scorecard: for every evidence the six scores and the composite are *)
(* in 0..1, so that Scorecard accepts them and the stage cannot fail here.  *)
THEOREM CardAlwaysFits ==
  ASSUME NEW e \in AnyEvidence
  PROVE  CardValid(e)
<1> DEFINE card == Parts(e)
<1>1. Fractions(card)
  BY PartsAreFractions
<1>2. Fraction(Composite(card))
  BY <1>1, CompositeIsBounded
<1>3. DOMAIN card = {"news_materiality", "fundamental_quality", "valuation_attractiveness",
                     "momentum", "risk", "source_quality"}
  BY DEF Parts
<1> HIDE DEF card
<1>4. \A x : Fraction(x) => x \in 0..One
  BY OneIs DEF Fraction
<1>5. \A part \in DOMAIN card : Fraction(card[part])
  BY <1>1, <1>3 DEF Fractions
<1>6. (\A part \in DOMAIN card : card[part] \in 0..One) /\ Composite(card) \in 0..One
  BY <1>2, <1>4, <1>5
<1> QED BY <1>6 DEF CardValid, card

(* A conviction that Recommendation accepts. *)
Sound(c, r) == /\ Conviction(c, r) \in Int
               /\ 0 <= Conviction(c, r) /\ Conviction(c, r) <= 10000

(* heuristic_recommendation: for every evidence the conviction is in 0..1,  *)
(* though it falls as the composite rises when the risk alone asks for      *)
(* "reduce" or "avoid": a risk that high keeps the composite low enough.    *)
THEOREM RatingAlwaysFits ==
  ASSUME NEW e \in AnyEvidence
  PROVE  RatingValid(e)
<1> DEFINE card == Parts(e)
           c == Composite(card)
           r == card.risk
<1>1. Fractions(card)
  BY PartsAreFractions
<1>2. Fraction(c) /\ Fraction(r) /\ (r > 7800 => c <= 9400)
  BY <1>1, CompositeIsBounded DEF Fractions
<1>3. Baseline(e).conviction = Conviction(c, r)
  BY DEF Baseline
<1> HIDE DEF card, c, r
<1>4. c \in Int /\ r \in Int /\ 0 <= c /\ c <= 10000
  BY <1>2, OneIs DEF Fraction
<1>5. ASSUME Action(c, r) = "accumulate"
      PROVE  Sound(c, r)
  <2>1. c >= 6400
    BY <1>5, <1>4 DEF Action
  <2>2. Conviction(c, r) = AtMost(9200, 5500 + (c - 5000))
    BY <1>5 DEF Conviction
  <2> QED BY <1>4, <2>1, <2>2 DEF AtMost, Sound
<1>6. ASSUME Action(c, r) = "watch"
      PROVE  Sound(c, r)
  <2>1. Conviction(c, r) = 4200 + Size(c - 5000)
    BY <1>6 DEF Conviction
  <2> QED BY <1>4, <2>1 DEF Size, Sound
<1>7. ASSUME Action(c, r) \notin {"accumulate", "watch"}
      PROVE  Sound(c, r)
  <2>1. c <= 3800 \/ r > 7800
    BY <1>7, <1>4 DEF Action
  <2>2. c <= 9400
    BY <2>1, <1>2, <1>4
  <2>3. Conviction(c, r) = AtMost(8000, 4500 + (5000 - c))
    BY <1>7 DEF Conviction
  <2> QED BY <1>4, <2>2, <2>3 DEF AtMost, Sound
<1>8. Sound(c, r)
  BY <1>5, <1>6, <1>7
<1>9. Fraction(Conviction(c, r))
  BY <1>8, OneIs DEF Sound, Fraction
<1>10. \A x : Fraction(x) => x \in 0..One
  BY OneIs DEF Fraction
<1> QED BY <1>3, <1>9, <1>10 DEF RatingValid

(* _action_from_scores: a lower composite or a higher risk never leads to a *)
(* better rating.                                                           *)
THEOREM WorseNeverRatesBetter ==
  ASSUME NEW c \in Int, NEW r \in Int, NEW lower \in Int, NEW riskier \in Int,
         lower <= c, r <= riskier
  PROVE  Rank(Action(c, r)) <= Rank(Action(lower, riskier))
<1>1. /\ Rank("accumulate") = 0 /\ Rank("watch") = 1
      /\ Rank("reduce") = 2 /\ Rank("avoid") = 3
  BY DEF Rank
<1>2. \A a \in Int, b \in Int : Rank(Action(a, b)) \in 0..3
  BY <1>1 DEF Action
<1>3. CASE Action(c, r) = "accumulate"
  BY <1>1, <1>2, <1>3
<1>4. CASE Action(c, r) = "watch"
  <2>1. ~(c >= 6400 /\ r < 6200)
    BY <1>4 DEF Action
  <2>2. Action(lower, riskier) # "accumulate"
    BY <2>1 DEF Action
  <2> QED BY <1>1, <1>4, <2>2 DEF Action
<1>5. CASE Action(c, r) = "reduce"
  <2>1. ~(c >= 6400 /\ r < 6200) /\ (c <= 3800 \/ r > 7800)
    BY <1>5 DEF Action
  <2>2. Action(lower, riskier) \in {"reduce", "avoid"}
    BY <2>1 DEF Action
  <2> QED BY <1>1, <1>5, <2>2
<1>6. CASE Action(c, r) = "avoid"
  <2>1. r > 8200
    BY <1>6 DEF Action
  <2>2. Action(lower, riskier) = "avoid"
    BY <2>1 DEF Action
  <2> QED BY <1>1, <1>6, <2>2
<1> QED BY <1>3, <1>4, <1>5, <1>6 DEF Action

--------------------------------------------------------------------------------
(* The run: what its steps keep. *)

Coroutine == [at : {"waiting", "locking", "asking", "done", "raised"},
              source : 0..2, attempt : 0..Retries,
              got : {"none", "few", "vendor", "zero"}]

(* What asks, asks one of the vendors of its feed. *)
SourcesGoOn == \A t \in Tickers, f \in Feeds :
  feed[t][f].at = "asking" => feed[t][f].source # 0

(* What has raised was given something malformed. *)
RaisedIsOdd == /\ load = "failed" => odd
               /\ \A t \in Tickers, f \in Feeds : feed[t][f].at = "raised" => odd

(* Who asks for the map has the lock. *)
MapLocked == \A t \in AskingMap : lock = t

HubInv == HubTypeOK /\ SourcesGoOn /\ RaisedIsOdd /\ MapLocked

Causes == stage = "failed" => odd \/ \E t \in Tickers : intel[t].zero

(* The cap, with the call in hand. *)
CapHolds ==
  /\ calls = spent
  /\ Cap # 0 => spent <= Cap
  /\ call.at # "none" => Cap = 0 \/ spent < Cap
  /\ skipped => Cap # 0 /\ spent = Cap

(* The call in hand is about the ticker in hand, or is being cut off.       *)
CallHolds ==
  /\ call.at = "none" => call = NoCall
  /\ call.at = "deleting" => call.out \in Outcomes \cup {"cancelled"}
  /\ call.out = "cancelled" => call.at = "deleting" /\ stage = "cancelled"
  /\ call.at # "none" /\ call.out # "cancelled" => stage \in Drafting /\ call.ticker \in todo

Stages == Over \cup {"ingest", "policy"} \cup Drafting \cup {"fundamentals_analyst"}

RunTypeOK ==
  /\ provider \in Providers /\ runs \in 0..MaxRuns
  /\ stage \in Stages /\ todo \subseteq Tickers
  /\ intel \in [Tickers -> [news : BOOLEAN, filings : BOOLEAN, zero : BOOLEAN]]
  /\ blank \in BOOLEAN /\ skipped \in BOOLEAN
  /\ call \in [at : {"none", "streaming", "polling", "deleting"},
               ticker : Tickers \cup {"none"}, out : Outcomes \cup {"none", "cancelled"}]
  /\ calls \in Nat /\ agents \in Nat /\ spent \in Nat /\ lost \in 0..MaxLost

RunInv == RunTypeOK /\ Causes /\ CapHolds /\ CallHolds /\ AgentsDeleted

PipelineInv == HubInv /\ RunInv

--------------------------------------------------------------------------------
(* The coroutines. *)

Gots == {"none", "few", "vendor", "zero"}

LEMMA SourcesAreFew ==
  /\ \A f \in DOMAIN Sources : Len(Sources[f]) \in 1..2
  /\ Len(Sources["filings"]) = 2
BY DEF Sources

LEMMA AtIs ==
  ASSUME NEW at \in {"waiting", "locking", "asking", "done", "raised"},
         NEW source \in 0..2, NEW got \in Gots
  PROVE  /\ At(at, source, got) \in Coroutine
         /\ At(at, source, got).at = at /\ At(at, source, got).source = source
BY HubAssumption DEF At, Coroutine, Gots

(* A feed goes on to a vendor behind the ones it has asked, or is done.     *)
LEMMA TurnIs ==
  ASSUME NEW f \in DOMAIN Sources, NEW i \in 0..2, NEW got \in Gots
  PROVE  /\ Turn(f, i, got) \in Coroutine
         /\ Turn(f, i, got).at \in {"asking", "done"}
         /\ Turn(f, i, got).at = "asking" => Turn(f, i, got).source > i
<1> DEFINE more == {j \in Open(f) : j > i}
           first == CHOOSE j \in more : \A k \in more : j <= k
<1>1. more \subseteq 1..2
  BY SourcesAreFew DEF Open
<1>2. CASE got \notin {"none", "few"} \/ more = {}
  <2>1. Turn(f, i, got) = Done(got)
    BY <1>2 DEF Turn
  <2> QED BY <2>1, AtIs DEF Done
<1>3. CASE got \in {"none", "few"} /\ more # {}
  <2>1. \E j \in more : \A k \in more : j <= k
    <3>1. CASE 1 \in more
      BY <1>1, <3>1
    <3>2. CASE 1 \notin more
      <4>1. more = {2}
        BY <1>1, <1>3, <3>2
      <4> QED BY <4>1
    <3> QED BY <3>1, <3>2
  <2>2. first \in more
    BY <2>1
  <2>3. first \in 1..2 /\ first > i
    BY <2>2, <1>1
  <2>4. Turn(f, i, got) = Asking(first, got)
    BY <1>3 DEF Turn
  <2> HIDE DEF first
  <2>5. Asking(first, got) \in Coroutine /\ Asking(first, got).at = "asking"
        /\ Asking(first, got).source = first
    BY <2>3, AtIs DEF Asking
  <2> QED BY <2>3, <2>4, <2>5
<1> QED BY <1>2, <1>3

(* Nothing is behind EDGAR. *)
LEMMA FilingsEnd ==
  ASSUME NEW got \in Gots
  PROVE  Turn("filings", 2, got) = Done(got)
<1>1. {j \in Open("filings") : j > 2} = {}
  BY SourcesAreFew DEF Open
<1> QED BY <1>1 DEF Turn

(* What an adapter makes of an answer.                                      *)
LEMMA YieldsAre ==
  ASSUME NEW f \in DOMAIN Sources, NEW source \in 1..2, NEW y \in Yields(f, source)
  PROVE  y \in Gots \cup {"raised"}
BY DEF Sources, Yields, Gots, Profile, QuoteFinnhub, QuoteAlpha, FundamentalsOf,
       NewsFinnhub, NewsNewsapi, Filings, CandleOf, Earnings

LEMMA StatesAre ==
  /\ Waiting \in Coroutine /\ Waiting.at = "waiting"
  /\ Locking \in Coroutine /\ Locking.at = "locking"
  /\ Raised \in Coroutine /\ Raised.at = "raised"
  /\ \A got \in Gots : Done(got) \in Coroutine /\ Done(got).at = "done"
  /\ \A map, t : Lookup(t, map) \in Coroutine
  /\ \A map, t : Lookup(t, map).at \in {"asking", "done"}
  /\ \A map, t : Lookup(t, map).at = "asking" => Lookup(t, map).source = 2
<1>1. "none" \in Gots /\ {0, 1, 2} \subseteq 0..2
  BY DEF Gots
<1>2. \A got \in Gots : Done(got) \in Coroutine /\ Done(got).at = "done"
  BY <1>1, AtIs DEF Done
<1>3. Asking(2, "none") \in Coroutine /\ Asking(2, "none").at = "asking"
      /\ Asking(2, "none").source = 2
  BY <1>1, AtIs DEF Asking
<1>4. /\ Waiting \in Coroutine /\ Waiting.at = "waiting"
      /\ Locking \in Coroutine /\ Locking.at = "locking"
      /\ Raised \in Coroutine /\ Raised.at = "raised"
  BY <1>1, AtIs DEF Waiting, Locking, Raised
<1> QED BY <1>1, <1>2, <1>3, <1>4 DEF Lookup

--------------------------------------------------------------------------------
(* The steps of the hub. *)

LEMMA FeedHas ==
  ASSUME HubInv, NEW t \in Tickers, NEW f \in Feeds
  PROVE  /\ feed[t][f] \in Coroutine /\ f \in DOMAIN Sources
         /\ feed[t][f].at = "asking" => feed[t][f].source \in 1..2
         /\ feed[t][f].got \in Gots
<1>1. feed[t][f] \in Coroutine /\ f \in DOMAIN Sources
  BY FeedsAssumption DEF HubInv, HubTypeOK, Coroutine
<1>2. feed[t][f].at = "asking" => feed[t][f].source # 0
  BY DEF HubInv, SourcesGoOn
<1> QED BY <1>1, <1>2 DEF Coroutine, Gots

Put(g, t, f, c) == [g EXCEPT ![t][f] = c]

LEMMA OneChanges ==
  ASSUME NEW g \in [Tickers -> [Feeds -> Coroutine]],
         NEW t \in Tickers, NEW f \in Feeds, NEW c \in Coroutine
  PROVE  LET h == Put(g, t, f, c) IN
         /\ h \in [Tickers -> [Feeds -> Coroutine]] /\ h[t][f] = c
         /\ \A u \in Tickers, i \in Feeds : u # t \/ i # f => h[u][i] = g[u][i]
<1> DEFINE row == [g[t] EXCEPT ![f] = c]
<1>1. /\ row \in [Feeds -> Coroutine] /\ row[f] = c
      /\ \A i \in Feeds : i # f => row[i] = g[t][i]
  OBVIOUS
<1> HIDE DEF row
<1>2. LET h == [g EXCEPT ![t] = row] IN
      /\ h \in [Tickers -> [Feeds -> Coroutine]] /\ h[t] = row
      /\ \A u \in Tickers : u # t => h[u] = g[u]
  BY <1>1
<1> QED BY <1>1, <1>2 DEF row, Put

HubHas == /\ load \in {"idle", "loading", "loaded", "failed"} /\ odd \in BOOLEAN
          /\ cik \in {"unset", "empty", "good"} /\ age \in 0..Saturated
          /\ lock \in {"free", "stray"} \cup Tickers
          /\ {0, Saturated} \subseteq 0..Saturated

LEMMA HubIs == HubInv => HubHas
BY HubAssumption DEF HubInv, HubTypeOK, HubHas, Saturated

(* One feed of one ticker moves on. *)
LEMMA FeedMoves ==
  ASSUME HubInv, NEW t \in Tickers, NEW f \in Feeds, NEW next \in Coroutine,
         feed' = Put(feed, t, f, next)
  PROVE  /\ feed' \in [Tickers -> [Feeds -> Coroutine]]
         /\ feed'[t][f] = next
         /\ \A u \in Tickers, g \in Feeds : u # t \/ g # f => feed'[u][g] = feed[u][g]
<1>1. feed \in [Tickers -> [Feeds -> Coroutine]]
  BY DEF HubInv, HubTypeOK, Coroutine
<1> QED BY <1>1, OneChanges

(* It asks a vendor, raises only if something malformed came, and asks for  *)
(* the map only with the lock, which nobody else needs.                     *)
LEMMA FeedKeeps ==
  ASSUME HubInv, NEW t \in Tickers, NEW f \in Feeds, NEW next \in Coroutine,
         feed' = Put(feed, t, f, next),
         next.at = "asking" => next.source # 0,
         next.at = "raised" => odd', odd => odd', load' = load, odd' \in BOOLEAN,
         f = "filings" /\ next.at = "asking" /\ next.source = 1 => lock' = t,
         \A u \in AskingMap \ {t} : lock' = u,
         f # "filings" => lock' = lock,
         cik' \in {"unset", "empty", "good"}, age' \in 0..Saturated,
         lock' \in {"free", "stray"} \cup Tickers
  PROVE  /\ HubInv'
         /\ \/ f = "filings" /\ next.at = "asking" /\ next.source = 1 /\ t \notin AskingMap
            \/ AskingMap' \subseteq AskingMap
<1>1. /\ feed' \in [Tickers -> [Feeds -> Coroutine]]
      /\ feed'[t][f] = next
      /\ \A u \in Tickers, g \in Feeds : u # t \/ g # f => feed'[u][g] = feed[u][g]
  BY FeedMoves
<1>2. HubTypeOK'
  BY <1>1 DEF HubInv, HubTypeOK, Coroutine
<1>3. SourcesGoOn'
  <2> SUFFICES ASSUME NEW u \in Tickers, NEW g \in Feeds
               PROVE  feed'[u][g].at = "asking" => feed'[u][g].source # 0
    BY DEF SourcesGoOn
  <2> QED BY <1>1 DEF HubInv, SourcesGoOn
<1>4. RaisedIsOdd'
  <2>1. load' = "failed" => odd'
    BY DEF HubInv, RaisedIsOdd
  <2>2. ASSUME NEW u \in Tickers, NEW g \in Feeds
        PROVE  feed'[u][g].at = "raised" => odd'
    BY <1>1 DEF HubInv, RaisedIsOdd
  <2> QED BY <2>1, <2>2 DEF RaisedIsOdd
<1>5. MapLocked'
  <2> SUFFICES ASSUME NEW u \in AskingMap' PROVE lock' = u
    BY DEF MapLocked
  <2>1. /\ u \in Tickers /\ "filings" \in Feeds
        /\ feed'[u]["filings"].at = "asking" /\ feed'[u]["filings"].source = 1
    BY DEF AskingMap
  <2>2. CASE u = t /\ f = "filings"
    BY <1>1, <2>1, <2>2
  <2>3. CASE u # t \/ f # "filings"
    <3>1. feed'[u]["filings"] = feed[u]["filings"]
      BY <1>1, <2>1, <2>3
    <3>2. u \in AskingMap
      BY <2>1, <3>1 DEF AskingMap
    <3> QED BY <2>3, <3>2 DEF HubInv, MapLocked
  <2> QED BY <2>2, <2>3
<1>6. \/ f = "filings" /\ next.at = "asking" /\ next.source = 1 /\ t \notin AskingMap
      \/ AskingMap' \subseteq AskingMap
  <2> SUFFICES ASSUME ~(f = "filings" /\ next.at = "asking" /\ next.source = 1
                          /\ t \notin AskingMap),
                      NEW u \in AskingMap'
               PROVE  u \in AskingMap
    OBVIOUS
  <2>1. /\ u \in Tickers /\ "filings" \in Feeds
        /\ feed'[u]["filings"].at = "asking" /\ feed'[u]["filings"].source = 1
    BY DEF AskingMap
  <2>2. CASE u = t /\ f = "filings"
    BY <1>1, <2>1, <2>2
  <2>3. CASE u # t \/ f # "filings"
    BY <1>1, <2>1, <2>3 DEF AskingMap
  <2> QED BY <2>2, <2>3
<1> QED BY <1>2, <1>3, <1>4, <1>5, <1>6 DEF HubInv

LEMMA StartKeeps ==
  ASSUME HubInv, NEW t \in Tickers, StartTicker(t)
  PROVE  HubInv' /\ AskingMap' \subseteq AskingMap
<1> DEFINE new(f) == IF f # "filings" THEN Turn(f, 0, "none")
                     ELSE IF Edgar /\ ~ForceDemo THEN Locking ELSE Done("none")
<1>1. /\ feed' = [feed EXCEPT ![t] = [f \in Feeds |-> new(f)]]
      /\ UNCHANGED <<load, cik, age, lock, odd>>
  BY DEF StartTicker
<1>2. \A f \in Feeds : feed[t][f].at = "waiting"
  BY DEF StartTicker, Started
<1>3. ASSUME NEW f \in Feeds
      PROVE  /\ new(f) \in Coroutine /\ new(f).at \in {"asking", "locking", "done"}
             /\ new(f).at = "asking" => f # "filings" /\ new(f).source # 0
  <2>1. f \in DOMAIN Sources /\ "none" \in Gots /\ 0 \in 0..2
    BY FeedsAssumption DEF Gots
  <2>2. CASE f # "filings"
    <3>1. /\ Turn(f, 0, "none") \in Coroutine
          /\ Turn(f, 0, "none").at \in {"asking", "done"}
          /\ Turn(f, 0, "none").at = "asking" => Turn(f, 0, "none").source > 0
      BY <2>1, TurnIs
    <3> QED BY <2>2, <3>1
  <2>3. CASE f = "filings"
    BY <2>1, <2>3, StatesAre
  <2> QED BY <2>2, <2>3
<1>4. /\ feed' \in [Tickers -> [Feeds -> Coroutine]]
      /\ \A f \in Feeds : feed'[t][f] = new(f)
      /\ \A u \in Tickers, g \in Feeds : u # t => feed'[u][g] = feed[u][g]
  <2> HIDE DEF new
  <2> QED BY <1>1, <1>3 DEF HubInv, HubTypeOK, Coroutine
<1> HIDE DEF new
<1>5. HubTypeOK'
  BY <1>1, <1>4 DEF HubInv, HubTypeOK, Coroutine, Saturated
<1>6. SourcesGoOn'
  <2> SUFFICES ASSUME NEW u \in Tickers, NEW g \in Feeds
               PROVE  feed'[u][g].at = "asking" => feed'[u][g].source # 0
    BY DEF SourcesGoOn
  <2> QED BY <1>3, <1>4 DEF HubInv, SourcesGoOn
<1>7. RaisedIsOdd'
  <2>1. ASSUME NEW u \in Tickers, NEW g \in Feeds
        PROVE  feed'[u][g].at = "raised" => odd'
    BY <1>1, <1>3, <1>4 DEF HubInv, RaisedIsOdd
  <2> QED BY <1>1, <2>1 DEF HubInv, RaisedIsOdd
<1>8. MapLocked'
  <2> SUFFICES ASSUME NEW u \in AskingMap' PROVE lock' = u
    BY DEF MapLocked
  <2>1. u \in Tickers /\ "filings" \in Feeds /\ feed'[u]["filings"].at = "asking"
        /\ feed'[u]["filings"].source = 1
    BY DEF AskingMap
  <2>2. u # t
    BY <1>3, <1>4, <2>1
  <2>3. u \in AskingMap
    BY <1>4, <2>1, <2>2 DEF AskingMap
  <2> QED BY <1>1, <2>3 DEF HubInv, MapLocked
<1>9. AskingMap' \subseteq AskingMap
  <2> SUFFICES ASSUME NEW u \in AskingMap' PROVE u \in AskingMap
    OBVIOUS
  <2>1. u \in Tickers /\ "filings" \in Feeds /\ feed'[u]["filings"].at = "asking"
        /\ feed'[u]["filings"].source = 1
    BY DEF AskingMap
  <2>2. u # t
    BY <1>3, <1>4, <2>1
  <2> QED BY <1>4, <2>1, <2>2 DEF AskingMap
<1> QED BY <1>5, <1>6, <1>7, <1>8, <1>9 DEF HubInv

LEMMA TryKeeps ==
  ASSUME HubInv, NEW t \in Tickers, NEW f \in Feeds, TryAgain(t, f)
  PROVE  HubInv' /\ AskingMap' \subseteq AskingMap
<1> DEFINE next == [feed[t][f] EXCEPT !.attempt = @ + 1]
<1>1. /\ feed[t][f].at = "asking" /\ feed[t][f].attempt < Retries
      /\ feed' = [feed EXCEPT ![t][f] = next]
      /\ UNCHANGED <<load, cik, age, lock, odd>>
  BY DEF TryAgain, Unsettled
<1>2. feed[t][f] \in Coroutine
  BY FeedHas
<1>3. /\ next \in Coroutine /\ next.at = "asking" /\ next.source = feed[t][f].source
  BY <1>1, <1>2, HubAssumption DEF Coroutine
<1> HIDE DEF next
<1>4. next.source # 0
  BY <1>1, <1>3, FeedHas
<1>5. f = "filings" /\ next.source = 1 => lock' = t /\ t \in AskingMap
  BY <1>1, <1>3 DEF HubInv, MapLocked, AskingMap
<1>6. \A u \in AskingMap \ {t} : lock' = u
  BY <1>1 DEF HubInv, MapLocked
<1>7. feed' = Put(feed, t, f, next)
  BY <1>1 DEF Put
<1>8. HubHas
  BY HubIs
<1> QED BY <1>1, <1>3, <1>4, <1>5, <1>6, <1>7, <1>8, FeedKeeps DEF HubHas

LEMMA AnswerKeeps ==
  ASSUME HubInv, NEW t \in Tickers, NEW f \in Feeds, Answer(t, f)
  PROVE  HubInv' /\ AskingMap' \subseteq AskingMap
<1> DEFINE q == feed[t][f]
           Outcome(y) == IF y = "raised" THEN Raised
                         ELSE Turn(f, q.source, Better(q.got, y))
<1>1. /\ q.at = "asking" /\ ~AsksMap(t, f) /\ UNCHANGED <<load, cik, age, lock>>
  BY DEF Answer, Unsettled
<1>2. q \in Coroutine /\ f \in DOMAIN Sources /\ q.source \in 1..2 /\ q.got \in Gots
  BY <1>1, FeedHas
<1>3. f = "filings" => q.source = 2
  BY <1>1, <1>2 DEF AsksMap
<1>4. ASSUME NEW got \in Gots
      PROVE  LET next == Turn(f, q.source, got) IN
             /\ next \in Coroutine /\ next.at # "raised"
             /\ next.at = "asking" => next.source # 0 /\ f # "filings"
  <2>1. /\ Turn(f, q.source, got) \in Coroutine
        /\ Turn(f, q.source, got).at \in {"asking", "done"}
        /\ Turn(f, q.source, got).at = "asking" => Turn(f, q.source, got).source > q.source
    BY <1>2, <1>4, TurnIs
  <2>2. f = "filings" => Turn(f, q.source, got) = Done(got)
    BY <1>3, <1>4, FilingsEnd
  <2> QED BY <1>2, <2>1, <2>2, StatesAre
<1>5. \E next \in Coroutine :
        /\ feed' = [feed EXCEPT ![t][f] = next]
        /\ next.at = "asking" => next.source # 0 /\ f # "filings"
        /\ next.at = "raised" => odd'
        /\ odd' = odd \/ odd' = TRUE
  <2>1. CASE feed' = [feed EXCEPT ![t][f] = GaveUp(f, q.source, q.got)] /\ UNCHANGED odd
    BY <1>2, <1>4, <2>1 DEF GaveUp
  <2>2. ASSUME NEW y \in Yields(f, q.source), Becomes(t, f, Outcome(y))
        PROVE  \E next \in Coroutine :
                 /\ feed' = [feed EXCEPT ![t][f] = next]
                 /\ next.at = "asking" => next.source # 0 /\ f # "filings"
                 /\ next.at = "raised" => odd'
                 /\ odd' = odd \/ odd' = TRUE
    <3>1. y \in Gots \cup {"raised"}
      BY <1>2, YieldsAre
    <3>2. /\ feed' = [feed EXCEPT ![t][f] = Outcome(y)]
          /\ odd' = (odd \/ Outcome(y) = Raised)
      BY <2>2 DEF Becomes
    <3>3. /\ Outcome(y) \in Coroutine
          /\ Outcome(y).at = "asking" => Outcome(y).source # 0 /\ f # "filings"
          /\ Outcome(y).at = "raised" => Outcome(y) = Raised
      <4>1. CASE y = "raised"
        BY <4>1, StatesAre DEF Outcome
      <4>3. CASE y # "raised"
        <5>1. Better(q.got, y) \in Gots
          BY <1>2, <3>1, <4>3 DEF Better
        <5>2. Outcome(y) = Turn(f, q.source, Better(q.got, y))
          BY <4>3 DEF Outcome
        <5> QED BY <1>4, <5>1, <5>2
      <4> HIDE DEF Outcome
      <4> QED BY <4>1, <4>3
    <3> HIDE DEF Outcome
    <3>4. odd' = odd \/ odd' = TRUE
      <4>1. odd \in BOOLEAN
        BY DEF HubInv, HubTypeOK
      <4> QED BY <3>2, <4>1
    <3> QED BY <3>2, <3>3, <3>4
  <2>3. \/ feed' = [feed EXCEPT ![t][f] = GaveUp(f, q.source, q.got)] /\ UNCHANGED odd
        \/ \E y \in Yields(f, q.source) : Becomes(t, f, Outcome(y))
    BY DEF Answer
  <2> QED BY <2>1, <2>2, <2>3
<1>6. PICK next \in Coroutine :
        /\ feed' = [feed EXCEPT ![t][f] = next]
        /\ next.at = "asking" => next.source # 0 /\ f # "filings"
        /\ next.at = "raised" => odd'
        /\ odd' = odd \/ odd' = TRUE
  BY <1>5
<1>7. \A u \in AskingMap \ {t} : lock' = u
  BY <1>1 DEF HubInv, MapLocked
<1>8. (odd => odd') /\ odd' \in BOOLEAN
  <2>1. odd \in BOOLEAN
    BY DEF HubInv, HubTypeOK
  <2>2. CASE odd' = odd
    BY <2>1, <2>2
  <2>3. CASE odd' = TRUE
    BY <2>3
  <2> QED BY <1>6, <2>2, <2>3
<1>9. HubHas
  BY HubIs
<1>10. feed' = Put(feed, t, f, next)
  BY <1>6 DEF Put
<1> HIDE DEF q
<1> QED BY <1>1, <1>6, <1>7, <1>8, <1>9, <1>10, FeedKeeps DEF HubHas

(* The lock is taken and the map asked for, or the map is looked at. *)
LEMMA TakeKeeps ==
  ASSUME HubInv, NEW t \in Tickers, TakeLock(t)
  PROVE  HubInv' /\ (AskingMap' \subseteq AskingMap \/ Stale)
<1>1. /\ "filings" \in Feeds /\ lock = "free" /\ UNCHANGED <<load, cik, odd>>
  BY DEF TakeLock, Unlocked
<1>2. AskingMap = {}
  <2>1. \A u \in Tickers : u # "free"
    BY HubAssumption
  <2> QED BY <1>1, <2>1 DEF HubInv, MapLocked, AskingMap
<1>3. HubHas
  BY HubIs
<1>4. CASE Stale
  <2>1. /\ lock' = t /\ age' = 0
        /\ feed' = Put(feed, t, "filings", Asking(1, "none"))
    BY <1>4 DEF TakeLock, Put
  <2>2. /\ Asking(1, "none") \in Coroutine /\ Asking(1, "none").at = "asking"
        /\ Asking(1, "none").source = 1
    BY AtIs DEF Asking, Gots
  <2> QED BY <1>1, <1>2, <1>3, <1>4, <2>1, <2>2, FeedKeeps DEF HubHas
<1>5. CASE ~Stale
  <2>1. /\ feed' = Put(feed, t, "filings", Lookup(t, cik))
        /\ UNCHANGED <<lock, age>>
    BY <1>5 DEF TakeLock, Put
  <2>2. /\ Lookup(t, cik) \in Coroutine /\ Lookup(t, cik).at \in {"asking", "done"}
        /\ Lookup(t, cik).at = "asking" => Lookup(t, cik).source = 2
    BY StatesAre
  <2> QED BY <1>1, <1>2, <1>3, <2>1, <2>2, FeedKeeps DEF HubHas
<1> QED BY <1>4, <1>5

(* The map comes, and who asked for it goes on. *)
LEMMA MapKeeps ==
  ASSUME HubInv, NEW t \in Tickers, AnswerMap(t)
  PROVE  HubInv' /\ AskingMap' \subseteq AskingMap
<1>1. /\ "filings" \in Feeds /\ lock' = "free" /\ UNCHANGED load
      /\ t \in AskingMap
  BY DEF AnswerMap, Released, Unsettled, AsksMap, AskingMap
<1>2. AskingMap \ {t} = {}
  BY <1>1 DEF HubInv, MapLocked
<1>3. HubHas
  BY HubIs
<1>4. ASSUME NEW mapping \in {"empty", "good"},
             cik' = Learned(mapping), Becomes(t, "filings", Lookup(t, cik')), UNCHANGED age
      PROVE  HubInv' /\ AskingMap' \subseteq AskingMap
  <2>0. PICK map : map = cik'
    OBVIOUS
  <2>1. /\ feed' = Put(feed, t, "filings", Lookup(t, map))
        /\ odd' = (odd \/ Lookup(t, map) = Raised)
    BY <1>4, <2>0 DEF Becomes, Put
  <2>2. /\ Lookup(t, map) \in Coroutine /\ Lookup(t, map).at \in {"asking", "done"}
        /\ Lookup(t, map).at = "asking" => Lookup(t, map).source = 2
        /\ Lookup(t, map) # Raised
    BY StatesAre
  <2>3. odd' = odd
    BY <1>3, <2>1, <2>2 DEF HubHas
  <2>4. cik' \in {"unset", "empty", "good"}
    BY <1>3, <1>4 DEF Learned, HubHas
  <2> QED BY <1>1, <1>2, <1>3, <1>4, <2>1, <2>2, <2>3, <2>4, FeedKeeps DEF HubHas
<1>5. ASSUME Becomes(t, "filings", Raised), age' = Saturated, UNCHANGED cik
      PROVE  HubInv' /\ AskingMap' \subseteq AskingMap
  <2>1. feed' = Put(feed, t, "filings", Raised) /\ odd' = TRUE
    BY <1>5 DEF Becomes, Put
  <2> QED BY <1>1, <1>2, <1>3, <1>5, <2>1, StatesAre, FeedKeeps DEF HubHas
<1> QED BY <1>4, <1>5 DEF AnswerMap

(* All feeds are as at the beginning of a load. *)
LEMMA ResetKeeps ==
  ASSUME HubInv, feed' = [t \in Tickers |-> [f \in Feeds |-> Waiting]],
         load' \in {"idle", "loading", "failed"}, load' = "failed" => odd',
         odd' \in BOOLEAN, cik' \in {"unset", "empty", "good"}, age' \in 0..Saturated,
         lock' \in {"free", "stray"} \cup Tickers
  PROVE  HubInv'
<1>1. /\ feed' \in [Tickers -> [Feeds -> Coroutine]]
      /\ \A t \in Tickers, f \in Feeds : feed'[t][f].at = "waiting"
  BY StatesAre
<1>2. HubTypeOK'
  BY <1>1 DEF HubTypeOK, Coroutine, Saturated
<1>3. SourcesGoOn' /\ RaisedIsOdd'
  BY <1>1 DEF SourcesGoOn, RaisedIsOdd
<1>4. MapLocked'
  BY <1>1 DEF MapLocked, AskingMap
<1> QED BY <1>2, <1>3, <1>4 DEF HubInv

(* The feeds are left as they are. *)
LEMMA StillKeeps ==
  ASSUME HubInv, feed' = feed, odd' = odd,
         load' \in {"idle", "loading", "loaded"} \/ load' = load,
         cik' \in {"unset", "empty", "good"}, age' \in 0..Saturated,
         lock' = lock \/ (lock = "stray" /\ lock' = "free")
  PROVE  HubInv'
<1>1. HubTypeOK'
  BY DEF HubInv, HubTypeOK, Saturated
<1>2. SourcesGoOn' /\ RaisedIsOdd'
  BY DEF HubInv, SourcesGoOn, RaisedIsOdd
<1>3. AskingMap' = AskingMap
  BY DEF AskingMap
<1>4. MapLocked'
  BY <1>3, HubAssumption DEF HubInv, MapLocked, AskingMap
<1> QED BY <1>1, <1>2, <1>4 DEF HubInv

LEMMA LoadFailsKeeps ==
  ASSUME HubInv, LoadFails
  PROVE  HubInv'
<1>1. /\ feed' = [t \in Tickers |-> [f \in Feeds |-> Waiting]]
      /\ load' = "failed" /\ UNCHANGED <<cik, age, odd>>
      /\ lock' = lock \/ lock' = "stray"
      /\ \E t \in Tickers, f \in Feeds : feed[t][f] = Raised
  BY DEF LoadFails
<1>2. odd
  BY <1>1, StatesAre DEF HubInv, RaisedIsOdd
<1>3. HubHas
  BY HubIs
<1> QED BY <1>1, <1>2, <1>3, ResetKeeps DEF HubHas

LEMMA StrayKeeps ==
  ASSUME HubInv, StrayEnds
  PROVE  HubInv'
<1>1. /\ lock = "stray" /\ lock' = "free" /\ UNCHANGED <<load, feed, odd>>
      /\ age' = Saturated \/ age' = age
      /\ cik' \in {cik, "empty", "good"}
  BY DEF StrayEnds, Learned
<1>2. HubHas
  BY HubIs
<1> QED BY <1>1, <1>2, StillKeeps DEF HubHas

LEMMA TickKeeps ==
  ASSUME HubInv, Tick
  PROVE  HubInv'
<1>1. HubHas
  BY HubIs
<1>2. age' \in 0..Saturated
  BY <1>1, HubAssumption DEF Tick, HubHas, Saturated
<1>3. /\ UNCHANGED <<load, feed, odd, lock>>
      /\ cik' \in {"unset", "empty", "good"}
  BY <1>1 DEF Tick, HubHas
<1> QED BY <1>1, <1>2, <1>3, StillKeeps DEF HubHas

(* What the hub asks of the map is asked under the lock and when it is due; *)
(* a map that is known stays known.                                         *)
LEMMA HubKeeps ==
  ASSUME HubInv, HubStep \/ Tick
  PROVE  HubInv' /\ (AskingMap' \subseteq AskingMap \/ Stale)
                 /\ (cik = "good" => cik' = "good")
<1>1. ASSUME feed' = feed PROVE AskingMap' \subseteq AskingMap
  BY <1>1 DEF AskingMap
<1>2. ASSUME LoadEnds PROVE HubInv'
  <2>1. HubHas
    BY HubIs
  <2>2. /\ UNCHANGED <<feed, odd, lock>> /\ load' = "loaded"
        /\ cik' \in {"unset", "empty", "good"} /\ age' \in 0..Saturated
    BY <1>2, <2>1 DEF LoadEnds, HubHas, Saturated
  <2> QED BY <2>1, <2>2, StillKeeps DEF HubHas
<1>3. ASSUME LoadFails PROVE AskingMap' = {}
  BY <1>3, StatesAre DEF LoadFails, AskingMap
<1>4. (LoadEnds \/ StrayEnds \/ Tick) => feed' = feed
  BY DEF LoadEnds, StrayEnds, Tick
<1>5. cik = "good" => cik' = "good"
  <2>1. \A m : cik = "good" => Learned(m) = "good"
    BY DEF Learned
  <2> QED BY <2>1 DEF HubStep, Tick, StartTicker, TryAgain, Answer, TakeLock, AnswerMap,
                     LoadEnds, LoadFails, StrayEnds
<1> QED BY <1>1, <1>2, <1>3, <1>4, <1>5, StartKeeps, TakeKeeps, MapKeeps, TryKeeps, AnswerKeeps,
           LoadFailsKeeps, StrayKeeps, TickKeeps DEF HubStep

--------------------------------------------------------------------------------
(* The steps of the run. *)

LEMMA TypeIs == PipelineInv => TypeOK
<1>1. DOMAIN Following = Drafting \cup {"fundamentals_analyst"}
  BY DEF Following, Drafting
<1> QED BY <1>1 DEF PipelineInv, HubInv, RunInv, RunTypeOK, Stages, TypeOK

(* The scores are never refused. *)
LEMMA NeverRefused == ~Refused
<1>1. \A e \in Evidence : CardValid(e) /\ RatingValid(e)
  BY PipelineAssumption, CardAlwaysFits, RatingAlwaysFits
<1> QED BY <1>1 DEF Refused

LEMMA AdvanceIs ==
  ASSUME RunInv, stage \in Drafting \cup {"fundamentals_analyst"}, NEW t \in Tickers, Advance(t)
  PROVE  stage' \in Stages \ Over /\ todo' \subseteq Tickers
<1>1. stage \in DOMAIN Following /\ Following[stage] \in Stages \ Over /\ stage \in Stages \ Over
  BY DEF Following, Drafting, Stages, Over
<1>2. CASE todo = {t}
  BY <1>1, <1>2 DEF Advance
<1>3. CASE todo # {t}
  BY <1>1, <1>3 DEF Advance, RunInv, RunTypeOK
<1> QED BY <1>2, <1>3

(* A call is over: one completion more, of which there was one left. *)
LEMMA ConcludesKeeps ==
  ASSUME RunInv, NEW t \in Tickers, NEW out \in Outcomes, stage \in Drafting,
         Concludes(t, out), call' = NoCall, Cap = 0 \/ spent < Cap,
         agents' = lost', lost' \in 0..MaxLost, UNCHANGED <<book, skipped>>
  PROVE  RunInv'
<1>1. /\ calls' = calls + Counted(out) /\ spent' = spent + Counted(out)
      /\ blank' \in BOOLEAN
  BY DEF Concludes, RunInv, RunTypeOK
<1>2. Counted(out) \in {0, 1}
  BY DEF Counted
<1>3. calls \in Nat /\ spent \in Nat /\ calls = spent /\ Cap \in Nat
  BY PipelineAssumption DEF RunInv, RunTypeOK, CapHolds
<1>4. ~skipped
  BY <1>3 DEF RunInv, CapHolds
<1>5. stage' \in Stages \ Over /\ todo' \subseteq Tickers
  BY AdvanceIs DEF Concludes
<1>6. NoCall \in [at : {"none", "streaming", "polling", "deleting"},
                 ticker : Tickers \cup {"none"}, out : Outcomes \cup {"none", "cancelled"}]
      /\ NoCall.at = "none" /\ NoCall.out = "none"
  BY DEF NoCall
<1>7. RunTypeOK'
  BY <1>1, <1>2, <1>3, <1>5, <1>6, PipelineAssumption DEF RunInv, RunTypeOK, book
<1>8. Causes'
  BY <1>5 DEF Causes, Over
<1>9. CapHolds'
  BY <1>1, <1>2, <1>3, <1>4, <1>6 DEF CapHolds
<1>10. CallHolds'
  BY <1>6 DEF CallHolds
<1>11. AgentsDeleted'
  <2>1. agents' = lost' /\ lost' \in Int /\ call'.at = "none"
    BY <1>6, PipelineAssumption
  <2>2. \A n \in Int : n + 0 = n
    OBVIOUS
  <2>3. agents' = lost' + 0
    BY <2>1, <2>2
  <2> QED BY <2>1, <2>3 DEF AgentsDeleted
<1> QED BY <1>7, <1>8, <1>9, <1>10, <1>11 DEF RunInv

(* The run rests: only the hub, or the stage, has moved on. *)
LEMMA StageKeeps ==
  ASSUME RunInv, call = NoCall, stage' \in Stages, todo' \subseteq Tickers,
         UNCHANGED <<model, skipped, provider, runs>>,
         intel' \in [Tickers -> [news : BOOLEAN, filings : BOOLEAN, zero : BOOLEAN]],
         Causes'
  PROVE  RunInv'
<1>1. NoCall.at = "none" /\ NoCall.out = "none"
  BY DEF NoCall
<1>2. RunTypeOK'
  BY DEF RunInv, RunTypeOK, model
<1>3. CapHolds' /\ AgentsDeleted'
  BY DEF RunInv, CapHolds, AgentsDeleted, model
<1>4. CallHolds'
  BY <1>1 DEF RunInv, CallHolds, model
<1> QED BY <1>2, <1>3, <1>4 DEF RunInv

LEMMA QuietKeeps ==
  ASSUME RunInv, UNCHANGED <<book, model, stage, todo, skipped, odd>>
  PROVE  RunInv'
<1>1. RunTypeOK'
  BY DEF RunInv, RunTypeOK, model, book
<1>2. CapHolds' /\ AgentsDeleted'
  BY DEF RunInv, CapHolds, AgentsDeleted, model
<1>3. CallHolds' /\ Causes'
  BY DEF RunInv, CallHolds, Causes, model, book
<1> QED BY <1>1, <1>2, <1>3 DEF RunInv


(* A call is over, in the middle of a stage. *)
LEMMA DeleteKeeps ==
  ASSUME PipelineInv, Delete
  PROVE  RunInv'
<1>1. /\ call.at = "deleting" /\ call' = NoCall /\ UNCHANGED <<hub, book, skipped>>
      /\ \/ agents' = agents - 1 /\ UNCHANGED lost
         \/ lost < MaxLost /\ lost' = lost + 1 /\ UNCHANGED agents
      /\ IF call.out = "cancelled" THEN UNCHANGED <<calls, spent, blank, stage, todo>>
         ELSE Concludes(call.ticker, call.out)
  BY DEF Delete, Deleted
<1>2. /\ RunInv /\ agents = lost + 1 /\ lost \in 0..MaxLost /\ agents \in Nat
      /\ call.out \in Outcomes \cup {"cancelled"}
  BY <1>1 DEF PipelineInv, RunInv, RunTypeOK, CallHolds, AgentsDeleted
<1>3. agents' = lost' /\ lost' \in 0..MaxLost
  BY <1>1, <1>2, PipelineAssumption
<1>4. CASE call.out = "cancelled"
  <2>1. stage = "cancelled" /\ stage' = stage /\ UNCHANGED <<calls, spent, blank, todo, book, skipped>>
    BY <1>1, <1>2, <1>4 DEF RunInv, CallHolds
  <2>2. NoCall \in [at : {"none", "streaming", "polling", "deleting"},
                   ticker : Tickers \cup {"none"}, out : Outcomes \cup {"none", "cancelled"}]
        /\ NoCall.at = "none" /\ NoCall.out = "none"
    BY DEF NoCall
  <2>3. RunTypeOK'
    BY <1>1, <1>2, <1>3, <2>1, <2>2 DEF RunInv, RunTypeOK, book
  <2>4. CapHolds' /\ Causes'
    BY <1>1, <1>2, <2>1, <2>2 DEF RunInv, CapHolds, Causes
  <2>5. CallHolds'
    BY <1>1, <2>2 DEF CallHolds
  <2>6. AgentsDeleted'
    <3>1. /\ agents' = lost' /\ lost' \in Int /\ call'.at = "none"
          /\ \A n \in Int : n + 0 = n
      BY <1>1, <1>3, <2>2, PipelineAssumption
    <3>2. agents' = lost' + 0
      BY <3>1
    <3> QED BY <3>1, <3>2 DEF AgentsDeleted
  <2> QED BY <2>3, <2>4, <2>5, <2>6 DEF RunInv
<1>5. CASE call.out # "cancelled"
  <2>1. /\ call.ticker \in Tickers /\ stage \in Drafting /\ call.out \in Outcomes
        /\ Cap = 0 \/ spent < Cap
    BY <1>1, <1>2, <1>5 DEF RunInv, RunTypeOK, CallHolds, CapHolds
  <2>2. Concludes(call.ticker, call.out)
    BY <1>1, <1>5
  <2> QED BY <1>1, <1>2, <1>3, <2>1, <2>2, ConcludesKeeps
<1> QED BY <1>4, <1>5

(* Completions of a request, and of an agent that could not be created. *)
LEMMA CompleteKeeps ==
  ASSUME PipelineInv, NEW t \in Tickers, Complete(t) \/ CreateFails(t)
  PROVE  RunInv'
<1>1. /\ stage \in Drafting /\ call = NoCall /\ ~Capped /\ UNCHANGED <<book, call, skipped>>
  BY DEF Complete, CreateFails, CallsModel, Working
<1>2. NoCall.at = "none"
  BY DEF NoCall
<1>3. /\ RunInv /\ agents = lost /\ lost \in 0..MaxLost
      /\ (Cap = 0 \/ spent < Cap)
  <2>1. RunInv /\ agents = lost + 0 /\ lost \in 0..MaxLost /\ lost \in Int
    BY <1>1, <1>2, PipelineAssumption DEF PipelineInv, RunInv, RunTypeOK, AgentsDeleted
  <2>2. \A n \in Int : n + 0 = n
    OBVIOUS
  <2>3. agents = lost
    BY <2>1, <2>2
  <2>4. calls = spent /\ calls \in Nat /\ Cap \in Nat
    BY <2>1, PipelineAssumption DEF RunInv, RunTypeOK, CapHolds
  <2> QED BY <1>1, <2>1, <2>3, <2>4 DEF Capped
<1>4. agents' = lost' /\ lost' \in 0..MaxLost
  <2>1. \/ UNCHANGED <<agents, lost>>
        \/ lost < MaxLost /\ agents' = agents + 1 /\ lost' = lost + 1
    BY DEF Complete, CreateFails
  <2> QED BY <1>3, <2>1, PipelineAssumption
<1>5. PICK out \in Outcomes : Concludes(t, out)
  <2>1. "error" \in Outcomes
    BY DEF Outcomes
  <2> QED BY <2>1 DEF Complete, CreateFails
<1> QED BY <1>1, <1>3, <1>4, <1>5, ConcludesKeeps

(* A cloud agent is created, and read. *)
LEMMA CallKeeps ==
  ASSUME PipelineInv, Stream \/ Poll \/ \E t \in Tickers : Create(t)
  PROVE  RunInv'
<1>1. RunInv
  BY DEF PipelineInv
<1>2. ASSUME Stream \/ Poll PROVE RunInv'
  <2>1. /\ call.at \in {"streaming", "polling"}
        /\ \/ call' = [call EXCEPT !.at = "polling"]
           \/ \E out \in Outcomes : call' = [call EXCEPT !.at = "deleting", !.out = out]
        /\ UNCHANGED <<book, calls, agents, lost, spent, blank, stage, todo, skipped, odd>>
    BY <1>2 DEF Stream, Poll, StreamEnds, hub
  <2>2. call.out # "cancelled" /\ stage \in Drafting /\ call.ticker \in todo
    BY <1>1, <2>1 DEF RunInv, CallHolds
  <2>3. call \in [at : {"none", "streaming", "polling", "deleting"},
                  ticker : Tickers \cup {"none"}, out : Outcomes \cup {"none", "cancelled"}]
    BY <1>1 DEF RunInv, RunTypeOK
  <2>4. /\ call' \in [at : {"none", "streaming", "polling", "deleting"},
                      ticker : Tickers \cup {"none"}, out : Outcomes \cup {"none", "cancelled"}]
        /\ call'.at \in {"polling", "deleting"} /\ call'.ticker = call.ticker
        /\ call'.out # "cancelled" /\ (call'.at = "deleting" => call'.out \in Outcomes)
    <3>1. "cancelled" \notin Outcomes
      BY DEF Outcomes
    <3>2. CASE call' = [call EXCEPT !.at = "polling"]
      BY <2>2, <2>3, <3>2
    <3>3. ASSUME NEW out \in Outcomes, call' = [call EXCEPT !.at = "deleting", !.out = out]
          PROVE  /\ call' \in [at : {"none", "streaming", "polling", "deleting"},
                             ticker : Tickers \cup {"none"},
                             out : Outcomes \cup {"none", "cancelled"}]
                 /\ call'.at = "deleting" /\ call'.ticker = call.ticker /\ call'.out = out
      BY <2>3, <3>1, <3>3
    <3> QED BY <2>1, <3>1, <3>2, <3>3
  <2>5. RunTypeOK'
    BY <1>1, <2>1, <2>4 DEF RunInv, RunTypeOK, book
  <2>6. CapHolds' /\ AgentsDeleted'
    BY <1>1, <2>1, <2>4 DEF RunInv, CapHolds, AgentsDeleted
  <2>7. CallHolds' /\ Causes'
    BY <1>1, <2>1, <2>2, <2>4 DEF RunInv, CallHolds, Causes, book
  <2> QED BY <2>5, <2>6, <2>7 DEF RunInv
<1>3. ASSUME NEW t \in Tickers, Create(t) PROVE RunInv'
  <2>1. /\ call' = [at |-> "streaming", ticker |-> t, out |-> "none"] /\ agents' = agents + 1
        /\ UNCHANGED <<book, calls, lost, spent, blank, stage, todo, skipped, odd>>
        /\ stage \in Drafting /\ t \in todo /\ call = NoCall /\ ~Capped
    BY <1>3 DEF Create, CallsModel, Working, hub
  <2>2. NoCall.at = "none"
    BY DEF NoCall
  <2>3. RunTypeOK'
    BY <1>1, <2>1 DEF RunInv, RunTypeOK, book
  <2>4. CapHolds'
    BY <1>1, <2>1, PipelineAssumption DEF RunInv, RunTypeOK, CapHolds, Capped
  <2>5. AgentsDeleted'
    BY <1>1, <2>1, <2>2, PipelineAssumption DEF RunInv, RunTypeOK, AgentsDeleted
  <2>6. CallHolds' /\ Causes'
    BY <1>1, <2>1 DEF RunInv, CallHolds, Causes, book
  <2> QED BY <2>3, <2>4, <2>5, <2>6 DEF RunInv
<1> QED BY <1>2, <1>3

(* The process is shut down: what is in hand is cut off. *)
LEMMA ShutdownKeeps ==
  ASSUME PipelineInv, Shutdown
  PROVE  RunInv'
<1>1. /\ RunInv /\ stage \notin Over /\ stage' = "cancelled" /\ todo' = {}
      /\ UNCHANGED <<book, calls, spent, blank, skipped>>
  BY DEF Shutdown, PipelineInv
<1>2. /\ call \in [at : {"none", "streaming", "polling", "deleting"},
                   ticker : Tickers \cup {"none"}, out : Outcomes \cup {"none", "cancelled"}]
      /\ agents \in Nat /\ lost \in 0..MaxLost /\ call.out # "cancelled"
      /\ agents = lost + IF call.at = "none" THEN 0 ELSE 1
      /\ call.at = "none" => call = NoCall
      /\ call.at = "deleting" => call.out \in Outcomes \cup {"cancelled"}
  BY <1>1 DEF RunInv, RunTypeOK, CallHolds, AgentsDeleted, Over
<1>3. NoCall \in [at : {"none", "streaming", "polling", "deleting"},
                 ticker : Tickers \cup {"none"}, out : Outcomes \cup {"none", "cancelled"}]
      /\ NoCall.at = "none" /\ NoCall.out = "none"
  BY DEF NoCall
<1>4. /\ call' \in [at : {"none", "streaming", "polling", "deleting"},
                    ticker : Tickers \cup {"none"}, out : Outcomes \cup {"none", "cancelled"}]
      /\ agents' \in Nat /\ lost' \in 0..MaxLost
      /\ agents' = lost' + IF call'.at = "none" THEN 0 ELSE 1
      /\ call'.at = "none" => call' = NoCall
      /\ call'.at # "none" => call.at # "none" /\ call'.at = "deleting" /\ call'.out = "cancelled"
  <2>1. CASE call.at = "none" /\ UNCHANGED <<call, agents, lost>>
    BY <1>2, <2>1
  <2>2. CASE call.at = "none" /\ lost < MaxLost /\ agents' = agents + 1 /\ lost' = lost + 1
             /\ UNCHANGED call
    BY <1>2, <2>2, PipelineAssumption
  <2>3. CASE call.at = "deleting" /\ lost < MaxLost /\ lost' = lost + 1 /\ call' = NoCall
             /\ UNCHANGED agents
    <3>1. /\ agents = lost + 1 /\ lost' = lost + 1 /\ agents' = agents
          /\ lost \in Int /\ lost >= 0 /\ lost < MaxLost /\ MaxLost \in Int
      BY <1>2, <2>3, PipelineAssumption
    <3>2. lost' \in 0..MaxLost /\ agents' \in Nat /\ agents' = lost' + 0
      BY <3>1
    <3> QED BY <1>3, <2>3, <3>2
  <2>4. CASE call.at \in {"streaming", "polling"}
             /\ call' = [call EXCEPT !.at = "deleting", !.out = "cancelled"]
             /\ UNCHANGED <<agents, lost>>
    BY <1>2, <2>4
  <2>5. (\E t \in Tickers : CallsModel(t)) => call.at = "none"
    BY <1>3 DEF CallsModel, Working
  <2>6. \/ call.at = "none" /\ UNCHANGED <<call, agents, lost>>
        \/ call.at = "none" /\ lost < MaxLost /\ agents' = agents + 1 /\ lost' = lost + 1
           /\ UNCHANGED call
        \/ call.at = "deleting" /\ lost < MaxLost /\ lost' = lost + 1 /\ call' = NoCall
           /\ UNCHANGED agents
        \/ call.at \in {"streaming", "polling"}
           /\ call' = [call EXCEPT !.at = "deleting", !.out = "cancelled"]
           /\ UNCHANGED <<agents, lost>>
    BY <2>5 DEF Shutdown
  <2> QED BY <2>1, <2>2, <2>3, <2>4, <2>6
<1>5. RunTypeOK'
  BY <1>1, <1>4 DEF RunInv, RunTypeOK, book, Stages, Over
<1>6. CapHolds' /\ AgentsDeleted' /\ Causes'
  BY <1>1, <1>4 DEF RunInv, CapHolds, AgentsDeleted, Causes
<1>7. CallHolds'
  BY <1>1, <1>3, <1>4 DEF CallHolds
<1> QED BY <1>5, <1>6, <1>7 DEF RunInv

(* The steps that only move the run on, or let it fail. *)
LEMMA MovesKeep ==
  ASSUME PipelineInv,
         \/ Begin \/ Loaded \/ LoadFailed \/ Finish
         \/ \E t \in Tickers : Heuristics(t) \/ BuildScore(t) \/ ScoreFails(t)
  PROVE  RunInv'
<1>1. /\ RunInv /\ HubInv
      /\ call.at = "none" => call = NoCall
      /\ call.at # "none" => stage \in Drafting \cup {"cancelled"}
  BY DEF PipelineInv, RunInv, CallHolds
<1>2. ASSUME Begin PROVE RunInv'
  <2>1. /\ call = NoCall /\ runs < MaxRuns /\ runs' = runs + 1 /\ stage' = "ingest"
        /\ calls' = 0 /\ spent' = 0 /\ skipped' = FALSE /\ blank' = FALSE
        /\ UNCHANGED <<provider, intel, todo, call, agents, lost>>
    BY <1>2 DEF Begin, Reset
  <2>2. NoCall.at = "none" /\ NoCall.out = "none"
    BY DEF NoCall
  <2>3. RunTypeOK'
    <3>1. runs' \in 0..MaxRuns
      BY <1>1, <2>1, PipelineAssumption DEF RunInv, RunTypeOK
    <3>2. stage' \in Stages /\ 0 \in Nat /\ FALSE \in BOOLEAN
      BY <2>1 DEF Stages
    <3> QED BY <1>1, <2>1, <3>1, <3>2 DEF RunInv, RunTypeOK
  <2>4. CapHolds' /\ AgentsDeleted' /\ Causes' /\ CallHolds'
    BY <1>1, <2>1, <2>2, PipelineAssumption
    DEF RunInv, CapHolds, AgentsDeleted, Causes, CallHolds
  <2> QED BY <2>3, <2>4 DEF RunInv
<1>3. ASSUME Loaded PROVE RunInv'
  <2>1. /\ stage' = "news_analyst" /\ todo' = Tickers /\ stage = "ingest"
        /\ UNCHANGED <<model, skipped, provider, runs>>
        /\ intel' \in [Tickers -> [news : BOOLEAN, filings : BOOLEAN, zero : BOOLEAN]]
    BY <1>3 DEF Loaded, Has
  <2>2. stage' \in Stages /\ Causes' /\ call = NoCall
    BY <1>1, <2>1 DEF Stages, Drafting, Causes
  <2> QED BY <1>1, <2>1, <2>2, StageKeeps
<1>4. ASSUME LoadFailed PROVE RunInv'
  <2>1. /\ stage = "ingest" /\ load = "failed" /\ stage' = "failed" /\ todo' = {}
        /\ UNCHANGED <<odd, book, model, skipped>>
    BY <1>4 DEF LoadFailed, Fails
  <2>2. odd
    BY <1>1, <2>1 DEF HubInv, RaisedIsOdd
  <2>3. stage' \in Stages /\ Causes' /\ call = NoCall
    BY <1>1, <2>1, <2>2 DEF Stages, Over, Causes, Drafting
  <2> QED BY <1>1, <2>1, <2>3, StageKeeps DEF RunInv, RunTypeOK, book
<1>5. ASSUME Finish PROVE RunInv'
  <2>1. /\ stage = "policy" /\ stage' = "completed" /\ todo' = {}
        /\ UNCHANGED <<book, model, skipped>>
    BY <1>5 DEF Finish
  <2>2. stage' \in Stages /\ Causes' /\ call = NoCall
    BY <1>1, <2>1 DEF Stages, Over, Causes, Drafting
  <2> QED BY <1>1, <2>1, <2>2, StageKeeps DEF RunInv, RunTypeOK, book
<1>6. ASSUME NEW t \in Tickers, Heuristics(t) PROVE RunInv'
  <2>1. /\ stage \in Drafting /\ t \in todo /\ call = NoCall /\ (~Asks(t) \/ Capped)
        /\ Advance(t) /\ skipped' = (skipped \/ Asks(t))
        /\ UNCHANGED <<book, model, odd>>
    BY <1>6 DEF Heuristics, Working, hub
  <2>2. stage' \in Stages \ Over /\ todo' \subseteq Tickers
    BY <1>1, <2>1, AdvanceIs
  <2>3. NoCall.at = "none" /\ NoCall.out = "none"
    BY DEF NoCall
  <2>4. RunTypeOK'
    <3>1. skipped' \in BOOLEAN
      BY <1>1, <2>1 DEF RunInv, RunTypeOK, Asks, Enabled, NewsAsks, FilingsAsks, ChiefAsks
    <3> QED BY <1>1, <2>1, <2>2, <3>1 DEF RunInv, RunTypeOK, book, model
  <2>5. CapHolds'
    <3>1. CASE Asks(t)
      <4>1. /\ Cap # 0 /\ calls >= Cap /\ calls = spent /\ spent \in Nat /\ spent <= Cap
            /\ Cap \in Nat
        BY <1>1, <2>1, <3>1, PipelineAssumption DEF RunInv, RunTypeOK, CapHolds, Capped
      <4>2. spent = Cap
        BY <4>1
      <4> QED BY <1>1, <2>1, <2>3, <4>1, <4>2 DEF RunInv, CapHolds, model
    <3>2. CASE ~Asks(t)
      <4>1. skipped' => skipped
        BY <2>1, <3>2
      <4> QED BY <1>1, <2>1, <4>1 DEF RunInv, CapHolds, model
    <3> QED BY <3>1, <3>2
  <2>6. CallHolds' /\ AgentsDeleted' /\ Causes'
    BY <1>1, <2>1, <2>2, <2>3 DEF RunInv, CallHolds, AgentsDeleted, Causes, Over, model
  <2> QED BY <2>4, <2>5, <2>6 DEF RunInv
<1>7. ASSUME NEW t \in Tickers, BuildScore(t) PROVE RunInv'
  <2>1. /\ stage = "fundamentals_analyst" /\ Advance(t) /\ UNCHANGED <<book, model, skipped>>
    BY <1>7 DEF BuildScore
  <2>2. stage' \in Stages \ Over /\ todo' \subseteq Tickers
    BY <1>1, <2>1, AdvanceIs
  <2>3. Causes' /\ call = NoCall
    BY <1>1, <2>1, <2>2 DEF Causes, Over, Drafting
  <2> QED BY <1>1, <2>1, <2>2, <2>3, StageKeeps DEF RunInv, RunTypeOK, book
<1>8. ASSUME NEW t \in Tickers, ScoreFails(t) PROVE RunInv'
  <2>1. /\ call = NoCall /\ intel[t].zero /\ stage' = "failed" /\ todo' = {}
        /\ UNCHANGED <<book, model, skipped, odd>>
    BY <1>8, NeverRefused DEF ScoreFails, Fails
  <2>2. stage' \in Stages /\ Causes'
    BY <1>1, <2>1 DEF Stages, Over, Causes, book
  <2> QED BY <1>1, <2>1, <2>2, StageKeeps DEF RunInv, RunTypeOK, book
<1> QED BY <1>2, <1>3, <1>4, <1>5, <1>6, <1>7, <1>8

LEMMA RunKeeps ==
  ASSUME PipelineInv, Next
  PROVE  RunInv'
<1>1. Ingest \/ Beside => /\ UNCHANGED <<book, model, stage, todo, skipped>>
                          /\ stage = "ingest" \/ UNCHANGED odd
  BY DEF Ingest, Beside, StrayEnds, Tick
<1>2. ASSUME Ingest \/ Beside PROVE RunInv'
  <2>1. CASE UNCHANGED odd
    BY <1>1, <1>2, <2>1, QuietKeeps DEF PipelineInv
  <2>2. CASE stage = "ingest"
    <3>1. RunInv /\ call = NoCall
      BY <2>2 DEF PipelineInv, RunInv, CallHolds, Drafting
    <3>2. stage' = "ingest" /\ Causes' /\ stage' \in Stages
      BY <1>1, <1>2, <2>2 DEF Causes, Stages
    <3> QED BY <1>1, <1>2, <3>1, <3>2, StageKeeps DEF RunInv, RunTypeOK, book
  <2> QED BY <1>1, <1>2, <2>1, <2>2
<1> QED BY <1>2, DeleteKeeps, CompleteKeeps, CallKeeps, ShutdownKeeps, MovesKeep
        DEF Next, RunStep

(* What the run does with the hub beside the steps of a load. *)
LEMMA HubBesideKeeps ==
  ASSUME PipelineInv, Next
  PROVE  /\ HubInv'
         /\ stage' # "cancelled" =>
              /\ AskingMap' \subseteq AskingMap \/ Stale
              /\ cik = "good" => cik' = "good"
<1>1. HubInv /\ HubHas
  BY HubIs DEF PipelineInv
<1>2. CASE Ingest \/ Beside
  <2>1. HubStep \/ Tick
    BY <1>2 DEF Ingest, Beside, HubStep
  <2> QED BY <1>1, <2>1, HubKeeps
<1>3. ASSUME feed' = [t \in Tickers |-> [f \in Feeds |-> Waiting]] PROVE AskingMap' = {}
  BY <1>3, StatesAre DEF AskingMap
<1>4. ASSUME feed' = feed PROVE AskingMap' \subseteq AskingMap
  BY <1>4 DEF AskingMap
<1>5. CASE Begin \/ Loaded
  <2>1. /\ feed' = [t \in Tickers |-> [f \in Feeds |-> Waiting]]
        /\ load' \in {"idle", "loading"} /\ odd' \in BOOLEAN /\ UNCHANGED <<cik, age, lock>>
    BY <1>1, <1>5 DEF Begin, BeginLoad, Loaded, HubHas
  <2> QED BY <1>1, <1>3, <2>1, ResetKeeps DEF HubHas
<1>6. CASE Shutdown
  <2>1. /\ feed' = [t \in Tickers |-> [f \in Feeds |-> Waiting]] /\ stage' = "cancelled"
        /\ load' = "idle" /\ odd' = FALSE /\ cik' = "unset" /\ age' = 0 /\ lock' = "free"
    BY <1>6 DEF Shutdown
  <2> QED BY <1>1, <2>1, ResetKeeps DEF HubHas
<1>7. CASE LoadFailed \/ \E t \in Tickers : ScoreFails(t)
  <2>1. load' = "idle" /\ UNCHANGED <<feed, cik, age, lock, odd>>
    BY <1>7 DEF LoadFailed, ScoreFails, Fails
  <2> QED BY <1>1, <1>4, <2>1, StillKeeps DEF HubHas
<1>8. CASE UNCHANGED hub
  <2>1. UNCHANGED <<load, feed, cik, age, lock, odd>>
    BY <1>8 DEF hub
  <2> QED BY <1>1, <1>4, <2>1, StillKeeps DEF HubHas
<1>9. \/ Ingest \/ Beside \/ Begin \/ Loaded \/ Shutdown \/ LoadFailed
      \/ \E t \in Tickers : ScoreFails(t)
      \/ UNCHANGED hub
  <2>1. (Stream \/ Poll \/ Delete \/ Finish) => UNCHANGED hub
    BY DEF Stream, Poll, Delete, Finish
  <2>2. \A t \in Tickers : (Heuristics(t) \/ BuildScore(t) \/ Complete(t) \/ Create(t)
                              \/ CreateFails(t)) => UNCHANGED hub
    BY DEF Heuristics, BuildScore, Complete, Create, CreateFails
  <2> QED BY <2>1, <2>2 DEF Next, RunStep
<1> QED BY <1>2, <1>5, <1>6, <1>7, <1>8, <1>9

LEMMA PipelineInit == Init => PipelineInv
<1> SUFFICES ASSUME Init PROVE PipelineInv
  OBVIOUS
<1>1. HubInit /\ \A t \in Tickers, f \in Feeds : feed[t][f].at = "waiting"
  BY StatesAre DEF Init, HubInit
<1>2. HubTypeOK
  <2>1. feed \in [Tickers -> [Feeds -> Coroutine]]
    BY <1>1, StatesAre DEF HubInit
  <2>2. 0 \in 0..Saturated
    BY HubAssumption DEF Saturated
  <2> QED BY <1>1, <2>1, <2>2 DEF HubInit, HubTypeOK, Coroutine
<1>3. HubInv
  BY <1>1, <1>2 DEF HubInit, HubInv, SourcesGoOn, RaisedIsOdd, MapLocked, AskingMap
<1>4. NoCall \in [at : {"none", "streaming", "polling", "deleting"},
                 ticker : Tickers \cup {"none"}, out : Outcomes \cup {"none", "cancelled"}]
      /\ NoCall.at = "none" /\ NoCall.out = "none"
  BY DEF NoCall
<1>5. Nothing \in [news : BOOLEAN, filings : BOOLEAN, zero : BOOLEAN]
  BY DEF Nothing
<1>6. RunTypeOK
  <2>1. intel \in [Tickers -> [news : BOOLEAN, filings : BOOLEAN, zero : BOOLEAN]]
    BY <1>5 DEF Init
  <2>2. 0 \in Nat /\ 0 \in 0..MaxRuns /\ 0 \in 0..MaxLost /\ "idle" \in Stages
    BY PipelineAssumption DEF Stages, Over
  <2> QED BY <1>4, <2>1, <2>2 DEF Init, RunTypeOK
<1>7. Causes /\ CallHolds
  BY <1>4 DEF Init, Causes, CallHolds
<1>8. CapHolds /\ AgentsDeleted
  BY <1>4, PipelineAssumption DEF Init, CapHolds, AgentsDeleted
<1> QED BY <1>3, <1>6, <1>7, <1>8 DEF PipelineInv, RunInv

(* Every step of the run, of its hub and of its model keeps the invariant.  *)
LEMMA PipelineNext == PipelineInv /\ [Next]_vars => PipelineInv'
<1> SUFFICES ASSUME PipelineInv, [Next]_vars PROVE PipelineInv'
  OBVIOUS
<1>1. CASE Next
  BY <1>1, RunKeeps, HubBesideKeeps DEF PipelineInv
<1>2. CASE UNCHANGED vars
  <2>1. /\ UNCHANGED <<load, feed, cik, age, lock, odd>>
        /\ UNCHANGED <<book, model, stage, todo, skipped, odd>>
    BY <1>2 DEF vars, hub
  <2>2. HubInv /\ HubHas
    BY HubIs DEF PipelineInv
  <2>3. HubInv'
    BY <2>1, <2>2, StillKeeps DEF HubHas
  <2>4. RunInv'
    BY <2>1, QuietKeeps DEF PipelineInv
  <2> QED BY <2>3, <2>4 DEF PipelineInv
<1> QED BY <1>1, <1>2

LEMMA PipelineHolds == Spec => []PipelineInv
BY PipelineInit, PipelineNext, PTL DEF Spec

(* The state of the run, of its hub and of its calls is always of its type: *)
(* no source is asked that a feed does not have, no count goes below zero.  *)
THEOREM PipelineTypeOK == Spec => []TypeOK
BY PipelineHolds, TypeIs, PTL

(* A run fails only if a vendor has answered something malformed or priced  *)
(* a close at zero, never because vendors are down or the model is; and the *)
(* model is asked exactly as often as the cap allows before a name is left  *)
(* to the heuristics (_execute, complete_json).                             *)
THEOREM CausesAreKnown == Spec => []CausesKnown
<1>1. PipelineInv => CausesKnown
  BY DEF PipelineInv, RunInv, Causes, CapHolds, CausesKnown
<1> QED BY <1>1, PipelineHolds, PTL

(* The cloud agents that exist are the one that is waited for and those     *)
(* whose deletion was impossible, failed or cut off (_cursor_cloud).        *)
THEOREM AgentsAreDeleted == Spec => []AgentsDeleted
<1>1. PipelineInv => AgentsDeleted
  BY DEF PipelineInv, RunInv
<1> QED BY <1>1, PipelineHolds, PTL

(* At most one coroutine asks for the map of EDGAR, only when it is due,    *)
(* and a map that is known is not lost (_cik_for).                          *)
THEOREM MapIsKept == Spec => MapKept
<1> DEFINE Kept == stage' # "cancelled" =>
                     /\ cik = "good" => cik' = "good"
                     /\ Cardinality(AskingMap') <= 1
                     /\ AskingMap' \subseteq AskingMap \/ Stale
<1>1. PipelineInv /\ PipelineInv' /\ [Next]_vars => [Kept]_vars
  <2> SUFFICES ASSUME PipelineInv, PipelineInv', Next PROVE Kept
    OBVIOUS
  <2>1. Cardinality(AskingMap') <= 1
    <3>1. AskingMap' \subseteq {lock'}
      BY DEF PipelineInv, HubInv, MapLocked
    <3>2. IsFiniteSet({lock'}) /\ Cardinality({lock'}) = 1
      BY FS_Singleton
    <3> QED BY <3>1, <3>2, FS_Subset, FS_CardinalityType
  <2> QED BY <2>1, HubBesideKeeps
<1>2. PipelineInv /\ [Next]_vars => PipelineInv'
  BY PipelineNext
<1> QED BY <1>1, <1>2, PipelineHolds, PTL DEF Spec, MapKept

================================================================================
