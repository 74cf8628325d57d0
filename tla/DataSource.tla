----------------------------- MODULE DataSource -----------------------------
(* The nested loops of startDataSource (internal/runner/runner.go): scenario, *)
(* path through its matrix, repetition.  Each step sends one bundle; in       *)
(* Runner the bundles are the numbers 1 .. N, and the channel and the         *)
(* cancellation are modelled; CommandLine adds the plan that is sent.         *)
EXTENDS Plan, FiniteSets, SequencesExt

VARIABLES
  scenarios,   \* allScenarios of sinq(): what there is to send
  count,       \* cfg.Count
  at,          \* scenario of the outer loop
  path,        \* number of the matrix path
  rep,         \* repetition of the path
  emitted      \* bundles sent, in order: [scenario, labels, run]

sendVars == <<at, path, rep, emitted>>

SendInit == at = 1 /\ path = 0 /\ rep = 0 /\ emitted = <<>>

Current == scenarios[at]

Bundle == [scenario |-> at, labels |-> TakePath(path, Current.matrix),
           run |-> BundleCount(Current, count) > 0]

Send ==
  /\ at <= Len(scenarios)
  /\ emitted' = Append(emitted, Bundle)
  /\ IF rep + 1 < Repetitions(Current, count)
     THEN rep' = rep + 1 /\ UNCHANGED <<at, path>>
     ELSE /\ rep' = 0
          /\ IF path + 1 < CountVariants(Current.matrix)
             THEN path' = path + 1 /\ UNCHANGED at
             ELSE path' = 0 /\ at' = at + 1
  /\ UNCHANGED <<scenarios, count>>

Sent == at > Len(scenarios)

-----------------------------------------------------------------------------
(* The CLI announces as many results as the data source makes it receive:     *)
(* two computations in different packages that only agree through this count  *)
(* (handleReporting's scenarioCount).  --count 0 is the exception: it         *)
(* announces nothing for a scenario that is sent once all the same.           *)
AnnouncedIsSent ==
  Sent /\ count >= 1 => Len(emitted) = ScenarioCount(scenarios, count)

(* Every combination of labels of every scenario is sent, as often as --count *)
(* asks when the filters let the scenario run, and once otherwise; nothing    *)
(* else is sent (docs/env-matrix.md: a Cartesian product).                    *)
Combinations(matrix) ==
  { c \in [DOMAIN matrix -> UNION {ToSet(matrix[j]) : j \in DOMAIN matrix}] :
      \A j \in DOMAIN matrix : c[j] \in ToSet(matrix[j]) }

EveryVariantSent ==
  Sent => \A s \in DOMAIN scenarios :
    LET sends(c) == {i \in DOMAIN emitted : emitted[i].scenario = s /\ emitted[i].labels = c}
        included == scenarios[s].included /\ count > 0
    IN  /\ \A c \in Combinations(scenarios[s].matrix) :
             Cardinality(sends(c)) = IF included THEN count ELSE 1
        /\ \A i \in DOMAIN emitted : emitted[i].scenario = s =>
             /\ emitted[i].labels \in Combinations(scenarios[s].matrix)
             /\ emitted[i].run = included
=============================================================================
