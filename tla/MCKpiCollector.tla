--------------------------- MODULE MCKpiCollector ---------------------------
(* Small instances of the KPI collector for TLC.                           *)
EXTENDS KpiCollector

CONSTANTS h1, h2, h3, s1, s2

TwoSubdomains == [h \in Handlers |-> IF h = h1 THEN s1 ELSE s2]
=============================================================================
