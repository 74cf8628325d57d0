-------------------------------- MODULE Plan --------------------------------
(* What a run consists of: how many results the CLI announces to the          *)
(* reporters (sinq(), cmd/sinq/sinq.go; CountVariants,                        *)
(* internal/scenario/scenario.go), and which variants of a scenario the data  *)
(* source derives from its environment matrix                                 *)
(* (internal/runner/matrix-helpers.go).                                       *)
(*                                                                            *)
(* A scenario is a record [matrix, included].  Its matrix is a sequence of    *)
(* axes, an axis the sequence of its labels in the order the Go map happened  *)
(* to yield them; ParseConfig drops empty axes.                               *)
EXTENDS Integers, Sequences

(* CountVariants, and the total of buildAllPaths: the product of the axes.    *)
CountVariants(matrix) ==
  LET product[n \in 0 .. Len(matrix)] ==
        IF n = 0 THEN 1 ELSE product[n - 1] * Len(matrix[n])
  IN  product[Len(matrix)]

(* A loop that adds up a sequence of numbers. *)
Total(numbers) ==
  LET sum[n \in 0 .. Len(numbers)] == IF n = 0 THEN 0 ELSE sum[n - 1] + numbers[n]
  IN  sum[Len(numbers)]

(* Mutant: excluded scenarios are not announced. *)
ScenarioCountIncluded(scenarios, count) ==
  Total([i \in DOMAIN scenarios |->
           CountVariants(scenarios[i].matrix) * (IF scenarios[i].included THEN count ELSE 0)])

(* scenarioCount of sinq(): an excluded scenario counts once per variant.     *)
ScenarioCount(scenarios, count) ==
  Total([i \in DOMAIN scenarios |->
           CountVariants(scenarios[i].matrix) * (IF scenarios[i].included THEN count ELSE 1)])

(* The Count of a ScenarioBundle, and how often the data source sends each of *)
(* its variants: an excluded one is sent once, to be reported and not run.    *)
BundleCount(sc, count) == IF sc.included THEN count ELSE 0
Repetitions(sc, count) == IF BundleCount(sc, count) > 1 THEN BundleCount(sc, count) ELSE 1

(* Mutant: every axis is indexed with the whole path number. *)
TakePathUndivided(path, matrix) ==
  [j \in DOMAIN matrix |-> matrix[j][(path % Len(matrix[j])) + 1]]

(* takePath: the last axis varies fastest; path is divided by the length of   *)
(* every axis behind.                                                         *)
TakePath(path, matrix) ==
  LET rest[j \in DOMAIN matrix] ==
        IF j = Len(matrix) THEN path ELSE rest[j + 1] \div Len(matrix[j + 1])
  IN  [j \in DOMAIN matrix |-> matrix[j][(rest[j] % Len(matrix[j])) + 1]]
=============================================================================
