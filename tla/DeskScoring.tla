------------------------------ MODULE DeskScoring ------------------------------
(***************************************************************************)
(* The transparent scores of a ticker and the rating they lead to when no  *)
(* model is asked (backend/app/agents/scoring.py, chief.py).               *)
(*                                                                         *)
(* Scores are fractions of One, ten thousand, so four decimals as          *)
(* composite_score rounds; a division is rounded down.  What needs         *)
(* logarithms or text (returns, volatility, matches of the word lists) is  *)
(* part of the evidence, with any value.                                   *)
(***************************************************************************)
EXTENDS Integers

CONSTANT None      \* a figure the vendor does not give

ASSUME NoneAssumption == None \notin Int

One == 10000

AtMost(a, b) == IF a <= b THEN a ELSE b
AtLeast(a, b) == IF a >= b THEN a ELSE b
Size(a) == IF a >= 0 THEN a ELSE -a

(* clamp *)
Clamp(value, lo, hi) == AtLeast(lo, AtMost(hi, value))
Score(value) == Clamp(value, 0, One)

(* value, or other without one: Python's `or', to which zero is nothing.    *)
Or(value, other) == IF value = None THEN other ELSE IF value = 0 THEN other ELSE value

--------------------------------------------------------------------------------

(* What the scores are made of.  bullish, bearish, material: matches in a   *)
(* text.  bias: the average sentiment of the news, or the model's.          *)
Figures == {"roe", "profit_margin", "operating_margin", "revenue_growth", "debt_to_equity"}

Sentiment(bullish, bearish) == Clamp(2200 * bullish - 2400 * bearish, -One, One)
Materiality(material) == Score(2800 + 1800 * material)

(* extract_events: how much an item weighs and leans. *)
NewsEvent(text) == [materiality |-> Materiality(text.material),
                    sentiment |-> Sentiment(text.bullish, text.bearish)]
FilingEvent(form, text) ==
  [materiality |-> IF form \in {"8-K", "10-K"} THEN 7200 ELSE 5500,
   sentiment |-> (3 * Sentiment(text.bullish, text.bearish)) \div 10]

(* momentum_score: with a candle of five closes, or the change of the day   *)
(* in percent.                                                              *)
Momentum(e) == Score(IF e.closes >= 5
                     THEN 5000 + (22 * e.return) \div 10 - AtMost(8 * e.vol, 2500)
                     ELSE 5000 + e.change \div 40)

(* quality_score: the average of the figures there are. *)
Part(figure, value) ==
  Score(CASE figure = "roe"              -> 3500 + (6 * value) \div 10
          [] figure = "profit_margin"    -> 3500 + (14 * value) \div 10
          [] figure = "operating_margin" -> 3500 + (12 * value) \div 10
          [] figure = "revenue_growth"   -> 4500 + (9 * value) \div 10
          [] figure = "debt_to_equity"   -> 10500 - AtMost(value, 4 * One) \div 5)
Term(e, figure)  == IF e[figure] = None THEN 0 ELSE Part(figure, e[figure])
Known(e, figure) == IF e[figure] = None THEN 0 ELSE 1
Terms(e) == Term(e, "roe") + Term(e, "profit_margin") + Term(e, "operating_margin")
              + Term(e, "revenue_growth") + Term(e, "debt_to_equity")
Count(e) == Known(e, "roe") + Known(e, "profit_margin") + Known(e, "operating_margin")
              + Known(e, "revenue_growth") + Known(e, "debt_to_equity")
Quality(e) == IF Count(e) = 0 THEN 4500 ELSE Terms(e) \div Count(e)

(* valuation_score: a low price for the earnings, and growth. *)
Attractive(pe) == Score((28 * One - AtMost(pe, 55 * One)) \div 28)
Valuation(e) ==
  LET pe == Or(e.forward_pe, Or(e.pe, e.quote_pe))
      growth == Or(e.eps_growth, Or(e.revenue_growth, 0))
  IN  IF pe = None THEN 4500
      ELSE IF pe <= 0 THEN 4500
      ELSE Score((55 * Attractive(pe) + 45 * Score(4000 + growth)) \div 100)

(* risk_score *)
EventRisk(e) == (IF e.bearish THEN 1800 ELSE 0) + (IF e.legal THEN 1600 ELSE 0)
                  + (IF e.earnings \in 0..10 THEN 1200 ELSE 0)
Risk(e) == Score(2200 + (18 * (Or(e.beta, One) - One)) \div 100
                   + EventRisk(e) + 3 * AtMost(e.spread, 1200))

(* source_quality *)
SourceQuality(e) == Score(2000 + 800 * AtMost(e.items, 6) + 600 * AtMost(e.publishers, 4)
                               + 400 * AtMost(e.live, 5))

(* composite_score *)
Composite(card) ==
  Score((22 * card.news_materiality + 22 * card.fundamental_quality
           + 18 * card.valuation_attractiveness + 16 * card.momentum
           + 12 * card.source_quality - 18 * card.risk) \div 100 + 1800)

(* build_scorecard *)
Parts(e) ==
  [news_materiality         |-> Score(5000 + (35 * e.bias) \div 100 + IF e.events THEN 800 ELSE 0),
   fundamental_quality      |-> Quality(e),
   valuation_attractiveness |-> Valuation(e),
   momentum                 |-> Momentum(e),
   risk                     |-> Risk(e),
   source_quality           |-> SourceQuality(e)]

--------------------------------------------------------------------------------
(* _action_from_scores, from the composite c and the risk r.                *)

Action(c, r) == IF c >= 6400 /\ r < 6200 THEN "accumulate"
                ELSE IF c <= 3800 \/ r > 7800 THEN IF r > 8200 THEN "avoid" ELSE "reduce"
                ELSE "watch"

(* Mutant: without the bounds.                                              *)
ConvictionFree(c, r) == CASE Action(c, r) = "accumulate" -> 5500 + (c - 5000)
                          [] Action(c, r) = "watch"      -> 4200 + Size(c - 5000)
                          [] OTHER                       -> 4500 + (5000 - c)
Conviction(c, r) == CASE Action(c, r) = "accumulate" -> AtMost(9200, 5500 + (c - 5000))
                      [] Action(c, r) = "watch"      -> 4200 + Size(c - 5000)
                      [] OTHER                       -> AtMost(8000, 4500 + (5000 - c))

Rank(action) == CASE action = "accumulate" -> 0 [] action = "watch" -> 1
                  [] action = "reduce" -> 2 [] action = "avoid" -> 3

(* _horizon *)
Horizon(e) == IF Or(e.beta, One) > 13500 \/ Size(e.change) > 2 * One THEN "tactical_1_3m"
              ELSE IF Or(e.revenue_growth, 0) > 1200 THEN "position_1y_plus"
              ELSE "swing_3_12m"

(* heuristic_recommendation: the baseline of every rating. *)
Baseline(e) == LET card == Parts(e)  c == Composite(card) IN
  [action |-> Action(c, card.risk), conviction |-> Conviction(c, card.risk),
   horizon |-> Horizon(e)]

(* What a ticker's scores may be made of. *)
Figure == Int \cup {None}
AnyEvidence ==
  [bias : Int, events : BOOLEAN, closes : Nat, return : Int, vol : Int, change : Int,
   roe : Figure, profit_margin : Figure, operating_margin : Figure, revenue_growth : Figure,
   debt_to_equity : Figure, pe : Figure, forward_pe : Figure, quote_pe : Figure,
   eps_growth : Figure, beta : Figure, bearish : BOOLEAN, legal : BOOLEAN,
   earnings : Figure, spread : Int, items : Nat, publishers : Nat, live : Nat]

(* Scorecard and Recommendation refuse what is not in 0..1 (ge=0, le=1).    *)
CardValid(e) == LET card == Parts(e) IN
  /\ \A part \in DOMAIN card : card[part] \in 0..One
  /\ Composite(card) \in 0..One
RatingValid(e) == Baseline(e).conviction \in 0..One
================================================================================
