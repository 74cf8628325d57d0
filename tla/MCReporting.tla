----------------------------- MODULE MCReporting -----------------------------
(* A run of an included and an excluded scenario, with the number of results  *)
(* the CLI announces and the bundles the data source sends (DataSource) for a *)
(* given --count and a matrix of the included scenario.                       *)
EXTENDS Reporting, Plan

CONSTANTS Count, Matrix

Scenarios == << [matrix |-> Matrix, included |-> TRUE],
                [matrix |-> <<>>, included |-> FALSE] >>

NoMatrix == <<>>

Sends(i) == CountVariants(Scenarios[i].matrix) * Repetitions(Scenarios[i], Count)

MCN == Sends(1) + Sends(2)
MCIncluded == IF BundleCount(Scenarios[1], Count) > 0 THEN 1 .. Sends(1) ELSE {}
MCSize == ScenarioCount(Scenarios, Count)

=============================================================================
