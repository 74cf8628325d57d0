------------------------------ MODULE Reporting ------------------------------
(* A whole run of the CLI from RunScenarios to the exit code: the Runner, the *)
(* ReporterPool that reads its results (internal/reporter/reporter.go), the   *)
(* reporters and handleReporting (cmd/sinq/sinq.go).                          *)
(*                                                                            *)
(* The pool's fan-out goroutine takes a result from resultCh and sends it to  *)
(* every reporter in turn, over a channel of Size each.  Reporter 1 is the    *)
(* ResultReporter that decides the exit code; the others write reports.  A    *)
(* writing reporter may panic or stop: the pool recovers, and goes on without *)
(* it.  With the std format, writing a result drains its printer, which the   *)
(* result shares with its copies in the other reporters' channels.            *)
EXTENDS Runner

CONSTANTS
  R,       \* number of reporters
  Size,    \* scenarioCount as sinq() computes it
  Drains   \* TRUE for the std format, FALSE for junit

Reporters == 1 .. R
Writers   == 2 .. R

ASSUME PoolAssumption ==
  /\ R \in Nat \ {0} /\ Size \in Nat /\ Drains \in BOOLEAN
  /\ None \notin {0, 1}

VARIABLES
  chan,     \* [Reporters -> results in the reporter's channel]
  fan,      \* the fan-out goroutine: where it is
  held,     \* ... the result it is handing out, or None
  nextRep,  \* ... the reporter it sends to next
  rstate,   \* [Reporters -> where the reporter is]
  writing,  \* [Writers -> result being written, or None]
  sees,     \* [Writers -> the writer found output in the printer it is copying]
  drained,  \* printers that were read to the end
  shown,    \* history: [Writers -> bundles shown together with their output]
  count,    \* ResultReporter: results that are not failing
  success,  \* ResultReporter.success
  exit      \* the exit code, None while the CLI runs

fanVars == <<fan, held, nextRep>>
writeVars == <<writing, sees, drained, shown>>
poolVars == <<chan, fanVars, rstate, writeVars, count, success, exit>>
allVars == <<vars, poolVars>>

PoolTypeOK ==
  /\ chan \in [Reporters -> SUBSET Results]
  /\ fan \in {"receive", "send", "closed", "done"}
  /\ held \in Results \cup {None}
  /\ nextRep \in 1 .. R + 1
  /\ rstate \in [Reporters -> {"reading", "writing", "timing", "done", "dead"}]
  /\ writing \in [Writers -> Results \cup {None}]
  /\ sees \in [Writers -> BOOLEAN]
  /\ drained \subseteq Tasks
  /\ shown \in [Writers -> SUBSET Tasks]
  /\ count \in 0 .. N
  /\ success \in BOOLEAN
  /\ exit \in {0, 1, None}

PoolInit ==
  /\ Init
  /\ chan = [i \in Reporters |-> {}]
  /\ fan = "receive" /\ held = None /\ nextRep = 1
  /\ rstate = [i \in Reporters |-> "reading"]
  /\ writing = [i \in Writers |-> None]
  /\ sees = [i \in Writers |-> FALSE]
  /\ drained = {}
  /\ shown = [i \in Writers |-> {}]
  /\ count = 0 /\ success = TRUE
  /\ exit = None

-----------------------------------------------------------------------------
(* The fan-out goroutine of ReporterPool.Report.                              *)
FanReceive(r) ==
  /\ fan = "receive"
  /\ Consume(r)
  /\ fan' = "send" /\ held' = r /\ nextRep' = 1
  /\ UNCHANGED <<chan, rstate, writeVars, count, success, exit>>

(* Mutant: the channels of the reporters have no room of their own. *)
FanSendTight ==
  /\ fan = "send"
  /\ chan[nextRep] = {}
  /\ rstate[nextRep] = "reading"
  /\ chan' = [chan EXCEPT ![nextRep] = @ \cup {held}]
  /\ nextRep' = nextRep + 1
  /\ IF nextRep = R THEN fan' = "receive" /\ held' = None
                    ELSE UNCHANGED <<fan, held>>
  /\ UNCHANGED <<vars, rstate, writeVars, count, success, exit>>

(* Blocks while the channel holds Size results, whether its reporter lives.   *)
FanSend ==
  /\ fan = "send"
  /\ Cardinality(chan[nextRep]) < Size
  /\ chan' = [chan EXCEPT ![nextRep] = @ \cup {held}]
  /\ nextRep' = nextRep + 1
  /\ IF nextRep = R THEN fan' = "receive" /\ held' = None
                    ELSE UNCHANGED <<fan, held>>
  /\ UNCHANGED <<vars, rstate, writeVars, count, success, exit>>

(* The results are over: close every reporter's channel. *)
FanClose ==
  /\ fan = "receive"
  /\ coord = "closed" /\ resultCh = {}
  /\ fan' = "closed"
  /\ UNCHANGED <<vars, chan, held, nextRep, rstate, writeVars, count, success, exit>>

(* The duration, which StopClock left in its channel, goes to all reporters.  *)
FanTime ==
  /\ fan = "closed"
  /\ fan' = "done"
  /\ UNCHANGED <<vars, chan, held, nextRep, rstate, writeVars, count, success, exit>>

-----------------------------------------------------------------------------
(* ResultReporter.Report.  It also looks at the statuses of the requests; of  *)
(* a scenario without a failing status they say nothing new                   *)
(* (NoSuccessOverFailure in ScenarioRun), and CommandLine has both.           *)
Failing(r) == r.status \in {"Failure", "Error", "Aborted"}

(* Mutant: only the scenarios that ran are counted. *)
ResultTakeRun(r) ==
  /\ rstate[1] = "reading"
  /\ r \in chan[1]
  /\ chan' = [chan EXCEPT ![1] = @ \ {r}]
  /\ success' = (success /\ ~Failing(r))
  /\ count' = IF success' /\ r.status # "Unset" THEN count + 1 ELSE count
  /\ UNCHANGED <<vars, fanVars, rstate, writeVars, exit>>

ResultTake(r) ==
  /\ rstate[1] = "reading"
  /\ r \in chan[1]
  /\ chan' = [chan EXCEPT ![1] = @ \ {r}]
  /\ success' = (success /\ ~Failing(r))
  /\ count' = IF success' THEN count + 1 ELSE count
  /\ UNCHANGED <<vars, fanVars, rstate, writeVars, exit>>

(* A reporter has read everything and waits for the duration. *)
EndReading(i) ==
  /\ rstate[i] = "reading"
  /\ fan \in {"closed", "done"} /\ chan[i] = {}
  /\ rstate' = [rstate EXCEPT ![i] = "timing"]
  /\ UNCHANGED <<vars, chan, fanVars, writeVars, count, success, exit>>

(* Mutant: the results are not counted against the plan. *)
ResultDoneUncounted ==
  /\ rstate[1] = "timing" /\ fan = "done"
  /\ rstate' = [rstate EXCEPT ![1] = "done"]
  /\ UNCHANGED <<vars, chan, fanVars, writeVars, count, success, exit>>

ResultDone ==
  /\ rstate[1] = "timing" /\ fan = "done"
  /\ rstate' = [rstate EXCEPT ![1] = "done"]
  /\ success' = (success /\ count = Size)
  /\ UNCHANGED <<vars, chan, fanVars, writeVars, count, exit>>

-----------------------------------------------------------------------------
(* A writing reporter: StandardReporter.Report or JUnitReporter.Report.       *)

(* It takes a result and begins to copy the output it carries.  Two writers   *)
(* may be at it at once: the printer is a bytes.Buffer without a lock.        *)
BeginWrite(i, r) ==
  /\ rstate[i] = "reading"
  /\ r \in chan[i]
  /\ chan' = [chan EXCEPT ![i] = @ \ {r}]
  /\ rstate' = [rstate EXCEPT ![i] = "writing"]
  /\ writing' = [writing EXCEPT ![i] = r]
  /\ sees' = [sees EXCEPT ![i] = r.output # None /\ r.output \notin drained]
  /\ UNCHANGED <<vars, fanVars, drained, shown, count, success, exit>>

EndWrite(i) ==
  /\ rstate[i] = "writing"
  /\ rstate' = [rstate EXCEPT ![i] = "reading"]
  /\ shown' = IF sees[i] THEN [shown EXCEPT ![i] = @ \cup {writing[i].task}] ELSE shown
  /\ drained' = IF Drains /\ sees[i] THEN drained \cup {writing[i].output} ELSE drained
  /\ writing' = [writing EXCEPT ![i] = None]
  /\ sees' = [sees EXCEPT ![i] = FALSE]
  /\ UNCHANGED <<vars, chan, fanVars, count, success, exit>>

WriterDone(i) ==
  /\ rstate[i] = "timing" /\ fan = "done"
  /\ rstate' = [rstate EXCEPT ![i] = "done"]
  /\ UNCHANGED <<vars, chan, fanVars, writeVars, count, success, exit>>

(* It panics: the pool recovers, and nobody reads its channel any more. *)
Die(i) ==
  /\ rstate[i] \in {"reading", "writing", "timing"}
  /\ rstate' = [rstate EXCEPT ![i] = "dead"]
  /\ writing' = [writing EXCEPT ![i] = None]
  /\ sees' = [sees EXCEPT ![i] = FALSE]
  /\ UNCHANGED <<vars, chan, fanVars, drained, shown, count, success, exit>>

-----------------------------------------------------------------------------
(* The pool waits for the reporters and handleReporting for errorCh too; then *)
(* the exit code is read off the ResultReporter.                              *)
Exit ==
  /\ exit = None
  /\ \A i \in Reporters : rstate[i] \in {"done", "dead"}
  /\ coord = "closed"
  /\ exit' = IF success THEN 0 ELSE 1
  /\ UNCHANGED <<vars, chan, fanVars, rstate, writeVars, count, success>>

Fan == (\E r \in resultCh : FanReceive(r)) \/ FanSend \/ FanClose \/ FanTime

ResultReporter == (\E r \in chan[1] : ResultTake(r)) \/ EndReading(1) \/ ResultDone

Writer(i) ==
  \/ \E r \in chan[i] : BeginWrite(i, r)
  \/ EndWrite(i) \/ EndReading(i) \/ WriterDone(i)

PoolDone == exit # None /\ UNCHANGED allVars

PoolNext ==
  \/ RunnerStep /\ exit = None /\ UNCHANGED poolVars
  \/ Fan \/ ResultReporter
  \/ \E i \in Writers : Writer(i) \/ Die(i)
  \/ Exit
  \/ PoolDone

PoolFairness ==
  /\ WF_allVars(Source /\ UNCHANGED poolVars)
  /\ WF_allVars(Coordinator /\ UNCHANGED poolVars)
  /\ \A w \in Workers : WF_allVars(Worker(w) /\ UNCHANGED poolVars)
  /\ WF_allVars(Fan) /\ WF_allVars(ResultReporter) /\ WF_allVars(Exit)
  /\ \A i \in Writers : WF_allVars(Writer(i))

PoolSpec == PoolInit /\ [][PoolNext]_allVars /\ PoolFairness

-----------------------------------------------------------------------------
(* Exit code 0 promises that every bundle of the plan was reported, and none  *)
(* of them failed, errored or was aborted (docs/ci-cd-integration.md:9): no   *)
(* result lost to a cancellation, to a full channel or to a dead reporter can *)
(* make a run look green.                                                     *)
ExitZeroMeansAllPassed ==
  exit = 0 =>
    /\ {r.task : r \in delivered} = Tasks
    /\ \A r \in delivered : ~Failing(r)

(* Exit code 1 has a reason: some scenario did not pass, or the run was       *)
(* interrupted.  A reporter that died is none.                                *)
ExitOneHasReason ==
  exit = 1 => canceled \/ \E r \in delivered : Failing(r)

(* The CLI comes to an exit code, whoever interrupts it and whichever writer  *)
(* dies: nothing waits for ever on a channel of the pool.                     *)
AlwaysExits == <>(exit # None)

(* A report that was written to its end shows the output of every scenario    *)
(* that ran (docs/man.md:76, "Capture lua output and show it in the report"). *)
OutputInEveryReport ==
  \A i \in Writers : rstate[i] = "done" =>
    \A r \in delivered : r.task \in Included => r.task \in shown[i]
=============================================================================
