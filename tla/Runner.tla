------------------------------- MODULE Runner -------------------------------
(* One call of Runner.RunScenarios (internal/runner/runner.go) with its       *)
(* workers (internal/runner/worker.go): the data source goroutine feeds the   *)
(* bundles of the plan into taskCh, workers take them, run them or pass them  *)
(* through when the filters excluded them, and publish one result each; a     *)
(* coordinator closes the result channel when all workers have returned.  A   *)
(* signal may cancel the context at any moment.  Whoever reads the results    *)
(* (reporter.ReporterPool) is the action Consume here.                        *)
(*                                                                            *)
(* The bundles are numbered in the order the data source sends them, one per  *)
(* scenario, matrix path and repetition.  taskCh is a FIFO with one sender,   *)
(* so two counters are all there is to it: bundles taken + 1 .. sent are in   *)
(* the channel.  The results in resultCh are a set: nothing depends on their  *)
(* order.  What happens inside a scenario is ScenarioRun's subject; here it   *)
(* ends with some status.                                                     *)
EXTENDS Integers, FiniteSets

CONSTANTS
  Workers,   \* the worker goroutines
  N,         \* number of bundles the plan has
  Included,  \* the bundles whose scenario passed the filters (run = true)
  None

Tasks    == 1 .. N
Statuses == {"Unset", "Success", "Failure", "Error", "Aborted"}
Capacity == Cardinality(Workers)   \* of taskCh and of resultCh: cfg.Workers

ASSUME PlanAssumption ==
  /\ N \in Nat
  /\ Included \subseteq Tasks
  /\ None \notin Tasks
  /\ IsFiniteSet(Workers) /\ Workers # {}   \* -w is a PositiveIntValue

VARIABLES
  canceled,    \* ctx is done: SIGINT or SIGTERM
  sent,        \* how many bundles the data source has put into taskCh
  taskClosed,  \* the data source has closed taskCh and returned
  taken,       \* how many bundles workers have received from taskCh
  pc,          \* [Workers -> where the worker is]
  task,        \* [Workers -> bundle in hand or None]
  status,      \* [Workers -> Status of the result being built]
  printer,     \* [Workers -> bundle whose Lua context, and printer, w.lc is]
  resultCh,    \* set of results in the result channel
  coord,       \* the goroutine of RunScenarios that waits for the workers
  delivered,   \* history: results that were read from resultCh
  dropped      \* history: bundles whose result was given up

workerVars == <<pc, task, status, printer>>
vars == <<canceled, sent, taskClosed, taken, workerVars, resultCh, coord,
          delivered, dropped>>

Results == [task : Tasks, status : Statuses, output : Tasks \cup {None}]

TypeOK ==
  /\ canceled \in BOOLEAN /\ taskClosed \in BOOLEAN
  /\ sent \in 0 .. N /\ taken \in 0 .. N
  /\ pc \in [Workers -> {"idle", "running", "reporting", "exited"}]
  /\ task \in [Workers -> Tasks \cup {None}]
  /\ status \in [Workers -> Statuses]
  /\ printer \in [Workers -> Tasks \cup {None}]
  /\ resultCh \subseteq Results /\ delivered \subseteq Results
  /\ coord \in {"waiting", "timed", "closed"}
  /\ dropped \subseteq Tasks

Init ==
  /\ canceled = FALSE /\ taskClosed = FALSE
  /\ sent = 0 /\ taken = 0
  /\ pc = [w \in Workers |-> "idle"]
  /\ task = [w \in Workers |-> None]
  /\ status = [w \in Workers |-> "Unset"]
  /\ printer = [w \in Workers |-> None]
  /\ resultCh = {} /\ delivered = {} /\ dropped = {}
  /\ coord = "waiting"

Cancel ==
  /\ ~canceled
  /\ canceled' = TRUE
  /\ UNCHANGED <<sent, taskClosed, taken, workerVars, resultCh, coord, delivered, dropped>>

-----------------------------------------------------------------------------
(* The data source: startDataSource.  With the context done and room in the   *)
(* channel its select may go either way.                                      *)
SendTask ==
  /\ ~taskClosed
  /\ sent < N
  /\ sent - taken < Capacity
  /\ sent' = sent + 1
  /\ UNCHANGED <<canceled, taskClosed, taken, workerVars, resultCh, coord, delivered, dropped>>

(* Mutant: the data source does not look at the context. *)
CloseTasksAtEnd ==
  /\ ~taskClosed
  /\ sent = N
  /\ taskClosed' = TRUE
  /\ UNCHANGED <<canceled, sent, taken, workerVars, resultCh, coord, delivered, dropped>>

(* Mutant: the channel is closed only when the loops are broken off. *)
CloseTasksInterrupted ==
  /\ ~taskClosed
  /\ canceled
  /\ taskClosed' = TRUE
  /\ UNCHANGED <<canceled, sent, taken, workerVars, resultCh, coord, delivered, dropped>>

CloseTasks ==
  /\ ~taskClosed
  /\ sent = N \/ canceled
  /\ taskClosed' = TRUE
  /\ UNCHANGED <<canceled, sent, taken, workerVars, resultCh, coord, delivered, dropped>>

-----------------------------------------------------------------------------
(* A worker: worker.run, processScenario, reportResult.                       *)

(* The select receives a bundle.  A scenario to run gets a new Lua context,   *)
(* with a printer of its own; an excluded one goes straight to reportResult,  *)
(* and leaves the context of the worker's previous scenario in place.         *)
TakeTask(w) ==
  /\ pc[w] = "idle"
  /\ taken < sent
  /\ taken' = taken + 1
  /\ task' = [task EXCEPT ![w] = taken + 1]
  /\ status' = [status EXCEPT ![w] = "Unset"]
  /\ IF taken + 1 \in Included
     THEN /\ pc' = [pc EXCEPT ![w] = "running"]
          /\ printer' = [printer EXCEPT ![w] = taken + 1]
     ELSE /\ pc' = [pc EXCEPT ![w] = "reporting"]
          /\ UNCHANGED printer
  /\ UNCHANGED <<canceled, sent, taskClosed, resultCh, coord, delivered, dropped>>

(* The select finds taskCh closed and empty, or takes ctx.Done(). *)
ExitWorker(w) ==
  /\ pc[w] = "idle"
  /\ (taskClosed /\ taken = sent) \/ canceled
  /\ pc' = [pc EXCEPT ![w] = "exited"]
  /\ UNCHANGED <<canceled, sent, taskClosed, taken, task, status, printer, resultCh,
                 coord, delivered, dropped>>

(* The request chain ends, or panics (Error).  A request is Aborted only      *)
(* because the run was canceled: a timeout of the scenario is an Error.       *)
EndScenario(w, s) ==
  /\ pc[w] = "running"
  /\ s = "Aborted" => canceled
  /\ status' = [status EXCEPT ![w] = s]
  /\ pc' = [pc EXCEPT ![w] = "reporting"]
  /\ UNCHANGED <<canceled, sent, taskClosed, taken, task, printer, resultCh, coord,
                 delivered, dropped>>

ResultOf(w) == [task |-> task[w], status |-> status[w], output |-> printer[w]]

(* Mutant: the result is published and the worker forgets to move on. *)
PublishTwice(w) ==
  /\ pc[w] = "reporting"
  /\ Cardinality(resultCh) < Capacity
  /\ resultCh' = resultCh \cup {ResultOf(w)}
  /\ UNCHANGED <<canceled, sent, taskClosed, taken, workerVars, coord, delivered, dropped>>

(* reportResult: the select sends the result ... *)
Publish(w) ==
  /\ pc[w] = "reporting"
  /\ Cardinality(resultCh) < Capacity
  /\ resultCh' = resultCh \cup {ResultOf(w)}
  /\ pc' = [pc EXCEPT ![w] = "idle"]
  /\ task' = [task EXCEPT ![w] = None]
  /\ UNCHANGED <<canceled, sent, taskClosed, taken, status, printer, coord, delivered, dropped>>

(* Mutant: the result is given up as soon as the channel is full. *)
DropWhenFull(w) ==
  /\ pc[w] = "reporting"
  /\ canceled \/ Cardinality(resultCh) >= Capacity
  /\ dropped' = dropped \cup {task[w]}
  /\ pc' = [pc EXCEPT ![w] = "idle"]
  /\ task' = [task EXCEPT ![w] = None]
  /\ UNCHANGED <<canceled, sent, taskClosed, taken, status, printer, resultCh, coord, delivered>>

(* ... or takes reportCtx.Done(), even when there is room in the channel.     *)
DropResult(w) ==
  /\ pc[w] = "reporting"
  /\ canceled
  /\ dropped' = dropped \cup {task[w]}
  /\ pc' = [pc EXCEPT ![w] = "idle"]
  /\ task' = [task EXCEPT ![w] = None]
  /\ UNCHANGED <<canceled, sent, taskClosed, taken, status, printer, resultCh, coord, delivered>>

-----------------------------------------------------------------------------
(* The coordinator.                                                           *)

(* Mutant: the coordinator does not wait for the last worker. *)
StopClockEarly ==
  /\ coord = "waiting"
  /\ taskClosed
  /\ \E w \in Workers : pc[w] = "exited"
  /\ coord' = "timed"
  /\ UNCHANGED <<canceled, sent, taskClosed, taken, workerVars, resultCh, delivered, dropped>>

(* wg.Wait() returned; the duration goes into a channel with room for it. *)
StopClock ==
  /\ coord = "waiting"
  /\ \A w \in Workers : pc[w] = "exited"
  /\ coord' = "timed"
  /\ UNCHANGED <<canceled, sent, taskClosed, taken, workerVars, resultCh, delivered, dropped>>

(* The deferred closes of errorCh, resultCh and durationCh. *)
CloseResults ==
  /\ coord = "timed"
  /\ coord' = "closed"
  /\ UNCHANGED <<canceled, sent, taskClosed, taken, workerVars, resultCh, delivered, dropped>>

(* The reader of the results. *)
Consume(r) ==
  /\ r \in resultCh
  /\ resultCh' = resultCh \ {r}
  /\ delivered' = delivered \cup {r}
  /\ UNCHANGED <<canceled, sent, taskClosed, taken, workerVars, coord, dropped>>

-----------------------------------------------------------------------------
Source == SendTask \/ CloseTasks

Worker(w) ==
  \/ TakeTask(w) \/ ExitWorker(w)
  \/ \E s \in Statuses \ {"Unset"} : EndScenario(w, s)
  \/ Publish(w) \/ DropResult(w)

Coordinator == StopClock \/ CloseResults

Read == \E r \in resultCh : Consume(r)

RunnerStep == Cancel \/ Source \/ (\E w \in Workers : Worker(w)) \/ Coordinator

Done == coord = "closed" /\ taskClosed /\ resultCh = {} /\ UNCHANGED vars

Next == RunnerStep \/ Read \/ Done

(* Goroutines are scheduled, and a scenario ends: its context, its HTTP       *)
(* client and every script have timeouts.  Nothing is assumed of the reader.  *)
Fairness ==
  /\ WF_vars(Source) /\ WF_vars(Coordinator)
  /\ \A w \in Workers : WF_vars(Worker(w))

Spec == Init /\ [][Next]_vars /\ Fairness

-----------------------------------------------------------------------------
Reported == resultCh \cup delivered

Holding(w) == pc[w] \in {"running", "reporting"}

(* No bundle is in two places: no two results are for one bundle, no worker   *)
(* holds a bundle that is reported or given up, and no two workers hold the   *)
(* same one (one send per repetition, one reportResult per bundle).           *)
ReportedOnce ==
  /\ \A r, s \in Reported : r.task = s.task => r = s
  /\ \A r \in Reported : r.task \notin dropped
  /\ \A w \in Workers : Holding(w) =>
       /\ task[w] \notin dropped
       /\ \A r \in Reported : r.task # task[w]
       /\ \A v \in Workers : Holding(v) /\ task[v] = task[w] => v = w

(* When the results end and nobody interrupted the run, every bundle of the   *)
(* plan has its result, the excluded ones included: what handleReporting      *)
(* counts on when it compares the count with scenarioCount.                   *)
CompleteUnlessCanceled ==
  coord = "closed" /\ ~canceled => {r.task : r \in Reported} = Tasks

(* Nobody sends on a closed channel: once the coordinator is past its wait,   *)
(* no worker is left that could publish.                                      *)
NoSendAfterClose ==
  coord # "waiting" => \A w \in Workers : pc[w] = "exited"

(* The output a result carries was printed by the scenario it reports.        *)
OutputIsOwn == \A r \in Reported : r.output \in {None, r.task}

(* An interrupted run ends, and its data source with it, even when nobody     *)
(* reads a single result: no goroutine stays blocked on a channel.            *)
StopsWhenCanceled == canceled ~> coord = "closed" /\ taskClosed

(* With a reader that goes on reading, every run ends and all that was        *)
(* published is read.                                                         *)
EndsWhenRead == WF_vars(Read) => <>[](coord = "closed" /\ taskClosed /\ resultCh = {})
=============================================================================
