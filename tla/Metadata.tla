------------------------------ MODULE Metadata ------------------------------
(***************************************************************************)
(* What the metadata package computes for the services: what a save stores *)
(* under configured rules (RecordRules), and the periods of a company's    *)
(* fiscal year (Periods).  The two share no state; `part` says which one a *)
(* behaviour is about, and each is promised of its own behaviours.         *)
(***************************************************************************)
EXTENDS RecordRules, Periods

VARIABLE part

\* What a save stores obeys the rules and formulas, protected fields keep their value,
\* and so do fields that were not sent (rules.ts, record.ts).
RulesAreObeyed == part = "rules" => SavesObeyRules

\* Group keys split the days, drill-down and the database agree with them, periods
\* follow each other, and working time counts working hours (dates.ts, report-engine.ts).
PeriodsAreRight == part = "periods" => PeriodsFit
=============================================================================
