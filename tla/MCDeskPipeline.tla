---------------------------- MODULE MCDeskPipeline ----------------------------
(* Small instances of DeskPipeline for TLC. *)
EXTENDS DeskPipeline

CONSTANTS amd, jpm

(* A name of which nothing is known, an excellent one and a dreadful one.   *)
Unknown ==
  [bias |-> 0, events |-> FALSE, closes |-> 0, return |-> 0, vol |-> 0, change |-> 0,
   roe |-> None, profit_margin |-> None, operating_margin |-> None, revenue_growth |-> None,
   debt_to_equity |-> None, pe |-> None, forward_pe |-> None, quote_pe |-> None,
   eps_growth |-> None, beta |-> None, bearish |-> FALSE, legal |-> FALSE,
   earnings |-> None, spread |-> 0, items |-> 0, publishers |-> 0, live |-> 0]
Excellent ==
  [Unknown EXCEPT !.bias = One, !.events = TRUE, !.closes = 32, !.return = One,
     !.roe = 2 * One, !.profit_margin = One, !.revenue_growth = One, !.pe = 20000,
     !.eps_growth = One, !.beta = 1000, !.items = 12, !.publishers = 6, !.live = 12]
Dreadful ==
  [Unknown EXCEPT !.bias = -One, !.closes = 32, !.return = -9000, !.vol = 4000,
     !.roe = -2 * One, !.debt_to_equity = 9 * One, !.pe = -20000, !.beta = 4 * One,
     !.bearish = TRUE, !.legal = TRUE, !.earnings = 3, !.spread = 9000]
Names == {Unknown, Excellent, Dreadful}
================================================================================
