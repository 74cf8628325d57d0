----------------------------- MODULE CommandLine -----------------------------
(* A call of sinq, from its flags to its exit code (cmd/sinq/sinq.go): flags, *)
(* the paths one after the other, the filters, the count of results that is   *)
(* announced, the bundles of DataSource, and what the reports say of their    *)
(* results: the exit code (internal/reporter/result), the summary of the std  *)
(* format (internal/reporter/standard/report-data.go) and the totals of the   *)
(* junit format (internal/reporter/junit).                                    *)
(*                                                                            *)
(* The reporters only add up, so the results are taken in the order in which  *)
(* their bundles are sent; Reporting models the channels between, and shows   *)
(* that no result is lost there.  A run writes one of the two formats, here   *)
(* both are written.                                                          *)
EXTENDS DataSource

CONSTANTS
  Counts,        \* values of --count
  Labels,        \* labels of the axes of environment matrices
  Found,         \* scenarios there may be at a path: [matrix, tags, name]
  Filters,       \* [tagsExclude, namesExclude, tagsInclude, namesInclude]
  Endings,       \* results of scenarios that ran: [status, requests]
  MaxPaths,      \* bound: paths of the command line
  MaxScenarios,  \* bound: scenarios of a run
  MaxIncidents,  \* bound: results of a run that are lost or no plain successes
  None

(* An axis is a Go map, so no label is there twice; ParseConfig drops the     *)
(* empty ones.                                                                *)
Axes == {axis \in Seq(Labels) :
           axis # <<>> /\ \A i, k \in DOMAIN axis : axis[i] = axis[k] => i = k}

ASSUME PlanAssumption ==
  /\ Counts \subseteq Nat /\ MaxPaths \in Nat /\ MaxScenarios \in Nat
  /\ \A s \in Found : s.matrix \in Seq(Axes)

Skipped == [status |-> "Unset", requests |-> <<[status |-> "Unset", failed |-> FALSE]>>]
Passed == [status |-> "Success", requests |-> <<[status |-> "Success", failed |-> FALSE]>>]

Bad == {"Failure", "Error", "Aborted"}
Statuses == Bad \cup {"Unset", "Skipped", "Success"}

(* ScenarioRun shows this of the result of a scenario that ran; Unexplained   *)
(* is one that a panic or a failed setup ended, with nothing to see on its    *)
(* requests.                                                                  *)
Unexplained(r) ==
  r.status = "Error" /\ \A i \in DOMAIN r.requests : r.requests[i].status # "Error"

ASSUME EndingsAssumption ==
  \A r \in Endings :
    /\ r.status \in {"Success", "Failure", "Error", "Aborted"}
    /\ r.requests \in Seq([status : Statuses, failed : BOOLEAN]) \ {<<>>}
    /\ \A i \in DOMAIN r.requests : r.requests[i].status = "Failure" => r.requests[i].failed
    /\ r.status = "Success" =>
         \A i \in DOMAIN r.requests : r.requests[i].status \notin Bad /\ ~r.requests[i].failed
    /\ r.status # "Success" => \/ Unexplained(r)
                               \/ \E i \in DOMAIN r.requests :
                                    \/ r.requests[i].status = r.status
                                    \/ r.status = "Failure" /\ r.requests[i].failed

VARIABLES
  phase,        \* what comes next
  listing,      \* --list
  filter,       \* the filters
  unread,       \* paths that have not been read
  size,         \* scenarioCount
  interrupted,  \* ctx is done
  seen,         \* history: results that were reported
  lost,         \* history: some result was not reported
  incidents,    \* history: results that were lost or no plain success
  success,      \* ResultReporter.success
  counted,      \* ... and count
  tally,        \* reportData: scenarios [total, ran, successful, aborted]
  junit,        \* JUnitReport: [tests, failures, errors]
  exit          \* the exit code, or None

reportVars == <<seen, lost, incidents, success, counted, tally, junit>>
planVars == <<scenarios, count, filter, size>>
cliVars == <<planVars, sendVars, reportVars, phase, listing, unread, interrupted, exit>>

CliInit ==
  /\ phase = "flags" /\ exit = None /\ interrupted = FALSE
  /\ listing \in BOOLEAN /\ filter \in Filters /\ count \in Counts
  /\ unread \in 1 .. MaxPaths
  /\ scenarios = <<>> /\ size = 0
  /\ SendInit
  /\ seen = {} /\ lost = FALSE /\ incidents = 0
  /\ success = TRUE /\ counted = 0
  /\ tally = [total |-> 0, ran |-> 0, successful |-> 0, aborted |-> 0]
  /\ junit = [tests |-> 0, failures |-> 0, errors |-> 0]

Leave(code) == phase' = "left" /\ exit' = code

-----------------------------------------------------------------------------
Interrupt ==
  /\ ~interrupted /\ phase # "left"
  /\ interrupted' = TRUE
  /\ UNCHANGED <<planVars, sendVars, reportVars, phase, listing, unread, exit>>

(* Flags that do not parse, a treewalker that cannot be made and secrets that *)
(* cannot be read end the program; --completion, --help and --version do what *)
(* they say, unless that fails.                                               *)
LeaveEarly ==
  /\ phase = "flags"
  /\ \E code \in {0, 1} : Leave(code)
  /\ UNCHANGED <<planVars, sendVars, reportVars, listing, unread, interrupted>>

SetUp ==
  /\ phase = "flags"
  /\ phase' = "paths"
  /\ UNCHANGED <<planVars, sendVars, reportVars, listing, unread, interrupted, exit>>

(* ShouldInclude: what excludes wins, and there is no condition on tags or on *)
(* names where nothing is asked for.                                          *)
ShouldInclude(tags, name) ==
  /\ filter.tagsExclude \cap tags = {}
  /\ name \notin filter.namesExclude
  /\ filter.tagsInclude = {} \/ filter.tagsInclude \cap tags # {}
  /\ filter.namesInclude = {} \/ name \in filter.namesInclude

AsScenario(s) == [matrix |-> s.matrix, included |-> ShouldInclude(s.tags, s.name)]

(* The scenarios below a path, any number of them; none of a path that cannot *)
(* be read, or of a directory that holds none.                                *)
parseFilePath == BoundedSeq(Found, MaxScenarios - Len(scenarios))

(* The loop over the paths: after a path an interrupt is noticed.  A path     *)
(* that cannot be read, about which an error is printed, and a directory      *)
(* without a scenario, about which nothing is, both add nothing, and the next *)
(* path is read.                                                              *)
ReadPath(found) ==
  /\ phase = "paths" /\ unread > 0
  /\ unread' = unread - 1
  /\ IF interrupted
     THEN Leave(1) /\ UNCHANGED <<scenarios, size>>
     ELSE /\ scenarios' = scenarios \o [i \in DOMAIN found |-> AsScenario(found[i])]
          /\ size' = size + ScenarioCount([i \in DOMAIN found |-> AsScenario(found[i])], count)
          /\ UNCHANGED <<phase, exit>>
  /\ UNCHANGED <<count, filter, sendVars, reportVars, listing, interrupted>>

(* --list, or nothing to do, or the run. *)
PathsRead ==
  /\ phase = "paths" /\ unread = 0
  /\ IF listing THEN \E code \in {0, 1} : Leave(code)
     ELSE IF size = 0 THEN Leave(1)
     ELSE phase' = "run" /\ UNCHANGED exit
  /\ UNCHANGED <<planVars, sendVars, reportVars, listing, unread, interrupted>>

-----------------------------------------------------------------------------
Among(r, S) == \E i \in DOMAIN r.requests : r.requests[i].status \in S

(* ResultReporter.Report: after a result that is bad nothing is counted.      *)
CountResult(r) ==
  /\ success' = (success /\ r.status \notin Bad /\ ~Among(r, Bad))
  /\ counted' = IF success /\ r.status \notin Bad THEN counted + 1 ELSE counted

One(condition) == IF condition THEN 1 ELSE 0

(* Mutant: an aborted scenario is not one that ran. *)
TallyAbortedNotRun(r) ==
  [total      |-> tally.total + 1,
   ran        |-> tally.ran + One(r.status \notin {"Unset", "Skipped", "Aborted"}),
   successful |-> tally.successful + One(r.status = "Success"),
   aborted    |-> tally.aborted + One(r.status = "Aborted")]

(* report of reportData, the counts. *)
Tally(r) ==
  [total      |-> tally.total + 1,
   ran        |-> tally.ran + One(r.status \notin {"Unset", "Skipped"}),
   successful |-> tally.successful + One(r.status = "Success"),
   aborted    |-> tally.aborted + One(r.status = "Aborted")]

Requests(r, P(_)) == Cardinality({i \in DOMAIN r.requests : P(r.requests[i])})

(* Mutant: what was aborted is no error. *)
JUnitErrorsOnly(r) ==
  [tests    |-> junit.tests + Len(r.requests),
   failures |-> junit.failures + Requests(r, LAMBDA q : q.failed),
   errors   |-> junit.errors + Requests(r, LAMBDA q : q.status = "Error")]

(* JUnitReporter.Report, the totals. *)
JUnit(r) ==
  [tests    |-> junit.tests + Len(r.requests),
   failures |-> junit.failures + Requests(r, LAMBDA q : q.failed),
   errors   |-> junit.errors + Requests(r, LAMBDA q : q.status \in {"Error", "Aborted"})]

(* A bundle is sent, and its result reported. *)
Report(r) ==
  /\ phase = "run" /\ Send
  /\ IF Bundle.run THEN r \in Endings \cup {Passed} ELSE r = Skipped
  /\ r.status = "Aborted" => interrupted
  /\ incidents' = incidents + One(r \notin {Skipped, Passed})
  /\ incidents' <= MaxIncidents
  /\ CountResult(r)
  /\ tally' = Tally(r)
  /\ junit' = JUnit(r)
  /\ seen' = seen \cup {r}
  /\ UNCHANGED <<size, filter, lost, phase, listing, unread, interrupted, exit>>

(* Mutant: nobody counts the results. *)
FinishUncounted ==
  /\ phase = "run"
  /\ Sent \/ interrupted
  /\ Leave(IF success THEN 0 ELSE 1)
  /\ lost' = (lost \/ ~Sent)
  /\ UNCHANGED <<planVars, sendVars, listing, unread, interrupted,
                 seen, incidents, success, counted, tally, junit>>

(* All results have been read; after an interrupt the data source may have    *)
(* stopped early.                                                             *)
Finish ==
  /\ phase = "run"
  /\ Sent \/ interrupted
  /\ Leave(IF success /\ counted = size THEN 0 ELSE 1)
  /\ lost' = (lost \/ ~Sent)
  /\ UNCHANGED <<planVars, sendVars, listing, unread, interrupted,
                 seen, incidents, success, counted, tally, junit>>

(* After an interrupt a worker may fail to publish a result. *)
Lose ==
  /\ phase = "run" /\ interrupted /\ Send
  /\ lost' = TRUE
  /\ incidents < MaxIncidents /\ incidents' = incidents + 1
  /\ UNCHANGED <<size, filter, seen, success, counted, tally, junit,
                 phase, listing, unread, interrupted, exit>>

Left == phase = "left" /\ UNCHANGED cliVars

CliNext ==
  \/ Interrupt \/ LeaveEarly \/ SetUp
  \/ \E found \in parseFilePath : ReadPath(found)
  \/ PathsRead
  \/ \E r \in Endings \cup {Passed, Skipped} : Report(r)
  \/ Lose \/ Finish \/ Left

CliSpec == CliInit /\ [][CliNext]_cliVars

-----------------------------------------------------------------------------
(* reportEnd: the numbers of makeTally, and the word before them. *)
Missing == size - tally.total
Aborted == tally.aborted + Missing
NotRun == size - tally.ran - Missing
Failed == tally.ran - tally.successful - tally.aborted

Verdict ==
  IF NotRun = size THEN "SKIPPED"
  ELSE IF Aborted # 0 THEN "ABORTED"
  ELSE IF Failed # 0 THEN "FAILED"
  ELSE "PASSED"

RunEnded == phase = "left" /\ ~listing /\ unread = 0 /\ size > 0 /\ (seen # {} \/ lost)

(* The code the pipeline sees and the word the user reads come from two       *)
(* reporters that count on their own; they agree, also about an interrupted   *)
(* run of which any results are missing, and --count 0.  For the other counts *)
(* the word is true: ABORTED is said of interrupted runs only, FAILED if some *)
(* scenario failed and nothing was aborted or lost (reportEnd and             *)
(* ResultReporter.Report; docs/ci-cd-integration.md:9-10).                    *)
VerdictTellsExit ==
  RunEnded =>
    /\ exit = 0 <=> Verdict \in {"PASSED", "SKIPPED"}
    /\ count >= 1 =>
         /\ Verdict = "ABORTED" => interrupted
         /\ Verdict = "FAILED" => /\ \E r \in seen : r.status \in {"Failure", "Error"}
                                  /\ ~lost /\ \A r \in seen : r.status # "Aborted"
         /\ Verdict = "SKIPPED" => seen = {Skipped} /\ ~lost

(* A junit report and the exit code agree: a report of a successful run shows *)
(* no failure and no error, and one of a run that did not succeed shows some, *)
(* unless results are missing altogether, or a panic or a failed setup ended  *)
(* the scenario, which leaves its requests as they were                       *)
(* (JUnitReporter.Report and ResultReporter.Report).                          *)
JUnitTellsExit ==
  RunEnded /\ count >= 1 =>
    /\ exit = 0 => junit.failures = 0 /\ junit.errors = 0
    /\ exit = 1 => \/ junit.failures + junit.errors > 0
                   \/ lost \/ \E r \in seen : Unexplained(r)

(* Exit code 0 of a run means that there was something to report, that every  *)
(* variant of every scenario of the paths that could be read was sent, and    *)
(* that each was reported and is a success or was left out by the filters     *)
(* (docs/ci-cd-integration.md:9).  Of a path that could not be read it says   *)
(* nothing: the error is printed, and the run goes on without it.             *)
ExitZeroCoversThePlan ==
  RunEnded /\ exit = 0 /\ count >= 1 =>
    /\ Sent /\ ~lost /\ Len(emitted) = size
    /\ \A r \in seen : r.status \in {"Success", "Unset"}
    /\ (\E s \in DOMAIN scenarios : scenarios[s].included) =>
         \E r \in seen : r.status = "Success"
=============================================================================
