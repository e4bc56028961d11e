-------------------------- MODULE MCDeskOrchestrator --------------------------
(* Small instances of DeskOrchestrator for TLC. *)
EXTENDS DeskOrchestrator

(* The seven stages _execute goes through. *)
FullPipeline == <<"ingest", "news_analyst", "filings_analyst",
                  "fundamentals_analyst", "risk_analyst", "chief_analyst", "policy">>

(* A first and a last stage, where only the order of writes matters. *)
ShortPipeline == <<"ingest", "policy">>
================================================================================
