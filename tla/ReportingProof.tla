--------------------------- MODULE ReportingProof ---------------------------
(* First the runner, for any number of workers and any plan: every result is  *)
(* reported once.  Then what the exit code says, for any number of workers,   *)
(* bundles and reporters: the runner's own invariant goes on holding with     *)
(* reporters attached to it, and says which results there can be; the second  *)
(* one follows each of them to the count of the ResultReporter.               *)
EXTENDS Reporting, Runner, FiniteSetTheorems, TLAPS

(* Where the counters and the channel's end stand to each other. *)
CounterInv ==
  /\ taken <= sent
  /\ taskClosed /\ ~canceled => sent = N

(* A worker leaves only when nothing is left, or the run was canceled. *)
WorkerInv ==
  \A w \in Workers :
    /\ Holding(w) => task[w] \in 1 .. taken
    /\ pc[w] = "exited" /\ ~canceled => taskClosed /\ taken = sent

DropInv == dropped # {} => canceled

PastInv ==
  /\ \A r \in Reported : r.task <= taken
  /\ \A i \in dropped : i <= taken

(* Every bundle that was taken is with a worker, reported or given up. *)
Accounted ==
  \A i \in 1 .. taken :
    \/ \E w \in Workers : Holding(w) /\ task[w] = i
    \/ \E r \in Reported : r.task = i
    \/ i \in dropped

IInv ==
  /\ TypeOK /\ CounterInv /\ WorkerInv /\ DropInv /\ PastInv /\ Accounted
  /\ ReportedOnce /\ NoSendAfterClose
-----------------------------------------------------------------------------
LEMMA InitIInv == Init => IInv
<1> SUFFICES ASSUME Init PROVE IInv
  OBVIOUS
<1>1. TypeOK
  <2>1. canceled \in BOOLEAN /\ taskClosed \in BOOLEAN
    BY DEF Init
  <2>2. sent \in 0 .. N /\ taken \in 0 .. N
    BY PlanAssumption DEF Init
  <2>3. pc \in [Workers -> {"idle", "running", "reporting", "exited"}]
    BY DEF Init
  <2>4. /\ task \in [Workers -> Tasks \cup {None}]
        /\ printer \in [Workers -> Tasks \cup {None}]
        /\ status \in [Workers -> Statuses]
    BY DEF Init, Statuses
  <2>5. resultCh \subseteq Results /\ delivered \subseteq Results /\ dropped \subseteq Tasks
    BY DEF Init
  <2>6. coord \in {"waiting", "timed", "closed"}
    BY DEF Init
  <2> QED
    BY <2>1, <2>2, <2>3, <2>4, <2>5, <2>6 DEF TypeOK
<1>2. CounterInv /\ WorkerInv /\ DropInv /\ PastInv /\ Accounted
  BY PlanAssumption
  DEF Init, CounterInv, WorkerInv, DropInv, PastInv, Accounted, Holding, Reported
<1>3. ReportedOnce /\ NoSendAfterClose
  BY DEF Init, ReportedOnce, NoSendAfterClose, Holding, Reported
<1> QED
  BY <1>1, <1>2, <1>3 DEF IInv

(* One step per action. *)
LEMMA StepIInv == IInv /\ [Next]_vars => IInv'
<1> SUFFICES ASSUME IInv, [Next]_vars PROVE IInv'
  OBVIOUS
<1> USE PlanAssumption
    DEF IInv, TypeOK, CounterInv, WorkerInv, DropInv, PastInv, Accounted, ReportedOnce,
        NoSendAfterClose, Tasks, Statuses, Holding, Reported, Results, workerVars
<1>1. CASE Cancel
  BY <1>1 DEF Cancel
<1>2. CASE SendTask
  BY <1>2 DEF SendTask
<1>3. CASE CloseTasks
  BY <1>3 DEF CloseTasks
<1>4. CASE \E w \in Workers : TakeTask(w)
  <2> PICK w \in Workers : TakeTask(w)
    BY <1>4
  <2> USE DEF TakeTask
  <2>1. TypeOK'
    OBVIOUS
  <2>2. CounterInv' /\ DropInv' /\ PastInv'
    OBVIOUS
  <2>3. WorkerInv'
    OBVIOUS
  <2>4. Accounted'
    OBVIOUS
  <2>5. ReportedOnce' /\ NoSendAfterClose'
    OBVIOUS
  <2> QED
    BY <2>1, <2>2, <2>3, <2>4, <2>5
<1>5. CASE \E w \in Workers : ExitWorker(w)
  BY <1>5 DEF ExitWorker
<1>6. CASE \E w \in Workers, s \in Statuses \ {"Unset"} : EndScenario(w, s)
  <2> PICK w \in Workers, s \in Statuses \ {"Unset"} : EndScenario(w, s)
    BY <1>6
  <2> USE DEF EndScenario
  <2>1. TypeOK'
    OBVIOUS
  <2>2. CounterInv' /\ DropInv' /\ PastInv'
    OBVIOUS
  <2>3. WorkerInv'
    OBVIOUS
  <2>4. Accounted'
    OBVIOUS
  <2>5. ReportedOnce' /\ NoSendAfterClose'
    OBVIOUS
  <2> QED
    BY <2>1, <2>2, <2>3, <2>4, <2>5
<1>7. CASE \E w \in Workers : Publish(w)
  <2> PICK w \in Workers : Publish(w)
    BY <1>7
  <2> USE DEF Publish, ResultOf
  <2>1. TypeOK'
    OBVIOUS
  <2>2. CounterInv' /\ DropInv' /\ PastInv'
    OBVIOUS
  <2>3. WorkerInv'
    OBVIOUS
  <2>4. Accounted'
    <3> SUFFICES ASSUME NEW i \in 1 .. taken
                 PROVE  \/ \E v \in Workers : Holding(v)' /\ task'[v] = i
                        \/ \E r \in Reported' : r.task = i
                        \/ i \in dropped'
      OBVIOUS
    <3>1. CASE task[w] = i
      <4>1. ResultOf(w) \in Reported' /\ ResultOf(w).task = i
        BY <3>1
      <4> QED
        BY <4>1
    <3>2. CASE \E v \in Workers \ {w} : Holding(v) /\ task[v] = i
      BY <3>2
    <3>3. CASE (\E r \in Reported : r.task = i) \/ i \in dropped
      BY <3>3
    <3> QED
      BY <3>1, <3>2, <3>3
  <2>5. ReportedOnce' /\ NoSendAfterClose'
    OBVIOUS
  <2> QED
    BY <2>1, <2>2, <2>3, <2>4, <2>5
<1>8. CASE \E w \in Workers : DropResult(w)
  <2> PICK w \in Workers : DropResult(w)
    BY <1>8
  <2> USE DEF DropResult
  <2>1. TypeOK'
    <3>1. task[w] \in Tasks
      OBVIOUS
    <3>2. dropped' \subseteq Tasks
      BY <3>1
    <3>3. /\ pc' \in [Workers -> {"idle", "running", "reporting", "exited"}]
          /\ task' \in [Workers -> Tasks \cup {None}]
      OBVIOUS
    <3> QED
      BY <3>2, <3>3
  <2>2. CounterInv' /\ DropInv' /\ PastInv'
    OBVIOUS
  <2>3. WorkerInv'
    OBVIOUS
  <2>4. Accounted'
    <3> SUFFICES ASSUME NEW i \in 1 .. taken
                 PROVE  \/ \E v \in Workers : Holding(v)' /\ task'[v] = i
                        \/ \E r \in Reported' : r.task = i
                        \/ i \in dropped'
      OBVIOUS
    <3>1. CASE task[w] = i
      BY <3>1
    <3>2. CASE \E v \in Workers \ {w} : Holding(v) /\ task[v] = i
      BY <3>2
    <3>3. CASE (\E r \in Reported : r.task = i) \/ i \in dropped
      BY <3>3
    <3> QED
      BY <3>1, <3>2, <3>3
  <2>5. ReportedOnce' /\ NoSendAfterClose'
    OBVIOUS
  <2> QED
    BY <2>1, <2>2, <2>3, <2>4, <2>5
<1>9. CASE StopClock
  BY <1>9 DEF StopClock
<1>10. CASE CloseResults
  BY <1>10 DEF CloseResults
<1>11. CASE \E r \in resultCh : Consume(r)
  BY <1>11 DEF Consume
<1>12. CASE UNCHANGED vars
  BY <1>12 DEF vars
<1> QED
  BY <1>1, <1>2, <1>3, <1>4, <1>5, <1>6, <1>7, <1>8, <1>9, <1>10, <1>11, <1>12
  DEF Next, RunnerStep, Source, Worker, Coordinator, Read, Done

THEOREM Invariance == Spec => []IInv
  BY InitIInv, StepIInv, PTL DEF Spec

(* Every variable keeps its type. *)
THEOREM TypeCorrect == Spec => []TypeOK
  BY Invariance, PTL DEF IInv

(* Each bundle is in one place: in hand, reported, or given up. *)
THEOREM OnceOnly == Spec => []ReportedOnce
  BY Invariance, PTL DEF IInv

(* No worker can send once the channels are about to be closed. *)
THEOREM NoPanicOnClose == Spec => []NoSendAfterClose
  BY Invariance, PTL DEF IInv

LEMMA IInvComplete == IInv => CompleteUnlessCanceled
<1> SUFFICES ASSUME IInv, coord = "closed", ~canceled
             PROVE  {r.task : r \in Reported} = Tasks
  BY DEF CompleteUnlessCanceled
<1> USE PlanAssumption DEF IInv, TypeOK
<1>1. \A w \in Workers : pc[w] = "exited"
  BY DEF NoSendAfterClose
<1>2. taken = N
  BY <1>1 DEF WorkerInv, CounterInv
<1>3. dropped = {}
  BY DEF DropInv
<1>4. \A i \in Tasks : \E r \in Reported : r.task = i
  BY <1>1, <1>2, <1>3 DEF Accounted, Holding, Tasks
<1>5. \A r \in Reported : r.task \in Tasks
  BY DEF Reported, Results
<1> QED
  BY <1>4, <1>5

(* A run nobody interrupts has a result for every bundle when the channels    *)
(* close: its workers have left only with taskCh closed and empty, and what   *)
(* was taken is accounted for.                                                *)
THEOREM Complete == Spec => []CompleteUnlessCanceled
  BY IInvComplete, Invariance, PTL

-----------------------------------------------------------------------------
(* The result the fan-out has taken and not yet given to the ResultReporter.  *)
Pending == IF fan = "send" /\ nextRep = 1 THEN {held} ELSE {}

(* The results the ResultReporter has counted, unless one of them failed. *)
Counted == delivered \ (chan[1] \cup Pending)

Shape ==
  /\ chan \in [Reporters -> SUBSET Results]
  /\ rstate \in [Reporters -> {"reading", "writing", "timing", "done", "dead"}]
  /\ fan \in {"receive", "send", "closed", "done"}
  /\ nextRep \in Nat \ {0} /\ (fan = "send" => held \in Results)
  /\ count \in Nat /\ success \in BOOLEAN

(* Every result is in one place on its way to the ResultReporter. *)
WayInv ==
  /\ IsFiniteSet(delivered)
  /\ resultCh \cap delivered = {}
  /\ chan[1] \subseteq delivered
  /\ Pending \subseteq delivered \ chan[1]

(* The results are over when a reporter comes to the end of its channel. *)
EndInv ==
  /\ rstate[1] \in {"reading", "timing", "done"}
  /\ rstate[1] # "reading" => fan \in {"closed", "done"} /\ chan[1] = {}
  /\ rstate[1] = "done" => fan = "done"
  /\ fan \in {"closed", "done"} => coord = "closed" /\ resultCh = {}

(* What count and success are about. *)
TallyInv ==
  /\ success => count = Cardinality(Counted) /\ \A r \in Counted : ~Failing(r)
  /\ ~success => \/ \E r \in delivered : Failing(r)
                 \/ rstate[1] = "done" /\ Cardinality(delivered) # Size
  /\ success /\ rstate[1] = "done" => count = Size

ExitInv == exit # None => rstate[1] = "done" /\ exit = IF success THEN 0 ELSE 1

PoolInv == IInv /\ Shape /\ WayInv /\ EndInv /\ TallyInv /\ ExitInv
-----------------------------------------------------------------------------
(* At the start nothing is delivered, and nothing counted. *)
LEMMA InitPoolInv == PoolInit => PoolInv
<1> SUFFICES ASSUME PoolInit PROVE PoolInv
  OBVIOUS
<1> USE PoolAssumption DEF PoolInit, Reporters
<1>1. IInv
  BY InitIInv
<1>2. Shape
  BY DEF Shape
<1>3. delivered = {} /\ resultCh = {} /\ chan[1] = {} /\ Pending = {} /\ Counted = {}
  BY DEF Init, Pending, Counted
<1>4. WayInv
  BY <1>3, FS_EmptySet DEF WayInv
<1>5. TallyInv
  BY <1>3, FS_EmptySet DEF TallyInv
<1>6. EndInv /\ ExitInv
  BY DEF EndInv, ExitInv
<1> QED
  BY <1>1, <1>2, <1>4, <1>5, <1>6 DEF PoolInv

(* A step of the runner delivers nothing.                                     *)
LEMMA RunnerKeeps ==
  ASSUME PoolInv, RunnerStep, UNCHANGED poolVars, exit = None
  PROVE  PoolInv'
<1> USE DEF poolVars, fanVars, writeVars
<1>1. IInv'
  BY StepIInv DEF PoolInv, Next
<1>2. delivered' = delivered /\ (coord = "closed" => coord' = "closed")
  BY DEF RunnerStep, Cancel, Source, SendTask, CloseTasks, Worker, TakeTask, ExitWorker,
         EndScenario, Publish, DropResult, Coordinator, StopClock, CloseResults
<1>3. \/ resultCh' = resultCh
      \/ \E w \in Workers : Publish(w)
  BY DEF RunnerStep, Cancel, Source, SendTask, CloseTasks, Worker, TakeTask, ExitWorker,
         EndScenario, DropResult, Coordinator, StopClock, CloseResults
<1>4. CASE resultCh' = resultCh
  BY <1>1, <1>2, <1>4
  DEF PoolInv, Shape, WayInv, EndInv, TallyInv, ExitInv, Pending, Counted
<1>5. CASE \E w \in Workers : Publish(w)
  <2> PICK w \in Workers : Publish(w)
    BY <1>5
  <2>1. ResultOf(w) \notin delivered
    BY DEF PoolInv, IInv, ReportedOnce, Holding, Reported, Publish, ResultOf
  <2>2. coord # "closed"
    BY DEF PoolInv, IInv, NoSendAfterClose, Publish
  <2>3. resultCh' = resultCh \cup {ResultOf(w)}
    BY DEF Publish
  <2> QED
    BY <1>1, <1>2, <2>1, <2>2, <2>3
    DEF PoolInv, Shape, WayInv, EndInv, TallyInv, ExitInv, Pending, Counted
<1> QED
  BY <1>3, <1>4, <1>5

(* A result that is received is pending until it is in the first channel, and *)
(* is not counted before.                                                     *)
LEMMA FanKeeps == PoolInv /\ Fan => PoolInv'
<1> SUFFICES ASSUME PoolInv, Fan PROVE PoolInv'
  OBVIOUS
<1> USE PoolAssumption DEF PoolInv, Shape, Reporters, poolVars, fanVars, writeVars
<1>1. CASE \E r \in resultCh : FanReceive(r)
  <2> PICK r \in resultCh : FanReceive(r)
    BY <1>1
  <2> USE DEF FanReceive
  <2>1. IInv'
    BY StepIInv DEF Next, Read
  <2>2. delivered' = delivered \cup {r} /\ resultCh' = resultCh \ {r} /\ coord' = coord
    BY DEF Consume
  <2>3. Pending = {} /\ Pending' = {r} /\ chan' = chan
    BY DEF Pending
  <2>4. WayInv'
    BY <2>2, <2>3, FS_AddElement DEF WayInv
  <2>5. Counted' = Counted
    BY <2>2, <2>3 DEF WayInv, Counted
  <2>6. rstate[1] = "reading"
    BY DEF EndInv
  <2>7. r \in Results
    BY DEF IInv, TypeOK
  <2> QED
    BY <2>1, <2>2, <2>3, <2>4, <2>5, <2>6, <2>7 DEF EndInv, TallyInv, ExitInv
<1>2. CASE FanSend
  <2> USE <1>2 DEF FanSend
  <2>1. IInv'
    BY StepIInv
  <2>2. delivered' = delivered /\ resultCh' = resultCh /\ coord' = coord
    BY DEF vars
  <2>3. Shape'
    <3>1. nextRep \in DOMAIN chan => chan[nextRep] \cup {held} \in SUBSET Results
      OBVIOUS
    <3>2. chan' \in [Reporters -> SUBSET Results]
      BY <3>1
    <3>3. nextRep' \in Nat \ {0} /\ (fan' = "send" => held' \in Results)
      OBVIOUS
    <3>4. fan' \in {"receive", "send", "closed", "done"}
      OBVIOUS
    <3> QED
      BY <3>2, <3>3, <3>4 DEF Shape
  <2>4. chan'[1] \cup Pending' = chan[1] \cup Pending
    BY DEF Pending
  <2>5. Pending' \subseteq Pending \ chan'[1]
    BY DEF Pending
  <2>6. WayInv'
    BY <2>2, <2>4, <2>5 DEF WayInv
  <2>7. Counted' = Counted
    BY <2>2, <2>4 DEF Counted
  <2>8. rstate[1] = "reading"
    BY DEF EndInv
  <2> QED
    BY <2>1, <2>2, <2>3, <2>6, <2>7, <2>8 DEF EndInv, TallyInv, ExitInv
<1>3. CASE FanClose \/ FanTime
  <2> USE <1>3 DEF FanClose, FanTime
  <2>1. IInv'
    BY StepIInv
  <2>2. UNCHANGED <<delivered, resultCh, coord, chan, rstate, count, success, exit>>
    BY DEF vars
  <2>3. Pending = {} /\ Pending' = {}
    BY DEF Pending
  <2>4. WayInv' /\ Counted' = Counted
    BY <2>2, <2>3 DEF WayInv, Counted
  <2>5. EndInv'
    BY <2>2 DEF EndInv
  <2>6. Shape'
    BY <2>2 DEF Shape
  <2> QED
    BY <2>1, <2>2, <2>4, <2>5, <2>6 DEF TallyInv, ExitInv
<1> QED
  BY <1>1, <1>2, <1>3 DEF Fan

(* The one result taken from the first channel is the one newly counted.      *)
LEMMA ResultReporterKeeps == PoolInv /\ ResultReporter => PoolInv'
<1> SUFFICES ASSUME PoolInv, ResultReporter PROVE PoolInv'
  OBVIOUS
<1> USE PoolAssumption DEF PoolInv, Shape, Reporters, poolVars, fanVars, writeVars
<1>1. CASE \E r \in chan[1] : ResultTake(r)
  <2> PICK r \in chan[1] : ResultTake(r)
    BY <1>1
  <2> USE DEF ResultTake
  <2>1. IInv'
    BY StepIInv
  <2>2. UNCHANGED <<delivered, resultCh, coord, fan, held, nextRep, rstate, exit>>
    BY DEF vars
  <2>3. Pending' = Pending
    BY <2>2 DEF Pending
  <2>4. chan'[1] = chan[1] \ {r} /\ Shape'
    BY <2>2 DEF Shape
  <2>5. WayInv'
    BY <2>2, <2>3, <2>4 DEF WayInv
  <2>6. r \notin Counted /\ Counted' = Counted \cup {r}
    BY <2>2, <2>3, <2>4 DEF Counted, WayInv
  <2>7. IsFiniteSet(Counted)
    BY FS_Subset DEF WayInv, Counted
  <2>8. Cardinality(Counted') = Cardinality(Counted) + 1
    BY <2>6, <2>7, FS_AddElement
  <2>9. success' => success /\ ~Failing(r) /\ count' = count + 1
    OBVIOUS
  <2>10. ~success' => ~success \/ Failing(r)
    OBVIOUS
  <2>11. TallyInv'
    BY <2>2, <2>5, <2>6, <2>8, <2>9, <2>10 DEF TallyInv, WayInv, Failing
  <2>12. EndInv'
    BY <2>2, <2>4 DEF EndInv
  <2>13. exit = None
    BY DEF ExitInv
  <2> QED
    BY <2>1, <2>2, <2>4, <2>5, <2>11, <2>12, <2>13 DEF ExitInv
<1>2. CASE EndReading(1)
  <2> USE <1>2 DEF EndReading
  <2>1. IInv'
    BY StepIInv
  <2>2. UNCHANGED <<delivered, resultCh, coord, chan, fan, held, nextRep, count, success, exit>>
    BY DEF vars
  <2>3. Pending' = Pending /\ Counted' = Counted
    BY <2>2 DEF Pending, Counted
  <2>4. Shape' /\ rstate'[1] = "timing"
    BY <2>2 DEF Shape
  <2>5. WayInv' /\ EndInv'
    BY <2>2, <2>3, <2>4 DEF WayInv, EndInv
  <2>6. TallyInv'
    BY <2>2, <2>3, <2>4 DEF TallyInv
  <2> QED
    BY <2>1, <2>2, <2>4, <2>5, <2>6 DEF ExitInv
<1>3. CASE ResultDone
  <2> USE <1>3 DEF ResultDone
  <2>1. IInv'
    BY StepIInv
  <2>2. UNCHANGED <<delivered, resultCh, coord, chan, fan, held, nextRep, count, exit>>
    BY DEF vars
  <2>3. Pending' = Pending /\ Counted' = Counted
    BY <2>2 DEF Pending, Counted
  <2>4. Shape' /\ rstate'[1] = "done"
    BY <2>2 DEF Shape
  <2>5. WayInv' /\ EndInv'
    BY <2>2, <2>3, <2>4 DEF WayInv, EndInv
  <2>6. Counted = delivered
    BY DEF Counted, Pending, EndInv
  <2>7. success' => success /\ count = Size
    OBVIOUS
  <2>8. ~success' => ~success \/ count # Size
    OBVIOUS
  <2>9. TallyInv'
    BY <2>2, <2>3, <2>4, <2>6, <2>7, <2>8 DEF TallyInv
  <2> QED
    BY <2>1, <2>2, <2>4, <2>5, <2>9 DEF ExitInv
<1> QED
  BY <1>1, <1>2, <1>3 DEF ResultReporter

(* What the other reporters do, dying included, does not touch the first.     *)
LEMMA WriterKeeps ==
  ASSUME PoolInv, NEW i \in Writers, Writer(i) \/ Die(i)
  PROVE  PoolInv'
<1> USE PoolAssumption DEF PoolInv, Shape, Reporters, Writers, poolVars, fanVars, writeVars
<1>1. /\ UNCHANGED <<vars, fan, held, nextRep, count, success, exit>>
      /\ chan' \in [Reporters -> SUBSET Results] /\ chan'[1] = chan[1]
  <2>1. CASE \E r \in chan[i] : BeginWrite(i, r)
    BY <2>1 DEF BeginWrite
  <2>2. CASE EndWrite(i) \/ EndReading(i) \/ WriterDone(i) \/ Die(i)
    BY <2>2 DEF EndWrite, EndReading, WriterDone, Die
  <2> QED
    BY <2>1, <2>2 DEF Writer
<1>2. /\ rstate' \in [Reporters -> {"reading", "writing", "timing", "done", "dead"}]
      /\ rstate'[1] = rstate[1]
  BY DEF Writer, BeginWrite, EndWrite, EndReading, WriterDone, Die
<1>3. IInv'
  BY <1>1, StepIInv
<1>4. UNCHANGED <<delivered, resultCh, coord>>
  BY <1>1 DEF vars
<1>5. Pending' = Pending /\ Counted' = Counted
  BY <1>1, <1>4 DEF Pending, Counted
<1>6. Shape' /\ WayInv' /\ EndInv'
  BY <1>1, <1>2, <1>4, <1>5 DEF Shape, WayInv, EndInv
<1>7. TallyInv' /\ ExitInv'
  BY <1>1, <1>2, <1>4, <1>5 DEF TallyInv, ExitInv
<1> QED
  BY <1>3, <1>6, <1>7

(* The exit code is read off when the ResultReporter is done. *)
LEMMA ExitKeeps == PoolInv /\ Exit => PoolInv'
<1> SUFFICES ASSUME PoolInv, Exit PROVE PoolInv'
  OBVIOUS
<1> USE PoolAssumption DEF PoolInv, Shape, Reporters, poolVars, fanVars, writeVars, Exit
<1>1. UNCHANGED <<vars, chan, fan, held, nextRep, rstate, count, success>>
  OBVIOUS
<1>2. IInv'
  BY <1>1, StepIInv
<1>3. UNCHANGED <<delivered, resultCh, coord>>
  BY <1>1 DEF vars
<1>4. Pending' = Pending /\ Counted' = Counted
  BY <1>1, <1>3 DEF Pending, Counted
<1>5. Shape' /\ WayInv' /\ EndInv' /\ TallyInv'
  BY <1>1, <1>3, <1>4 DEF Shape, WayInv, EndInv, TallyInv
<1>6. rstate[1] = "done"
  BY DEF EndInv
<1>7. ExitInv'
  BY <1>1, <1>6 DEF ExitInv
<1> QED
  BY <1>2, <1>5, <1>7

(* One step per disjunct of PoolNext. *)
LEMMA PoolStep == PoolInv /\ [PoolNext]_allVars => PoolInv'
<1> SUFFICES ASSUME PoolInv, [PoolNext]_allVars PROVE PoolInv'
  OBVIOUS
<1>1. CASE RunnerStep /\ exit = None /\ UNCHANGED poolVars
  BY <1>1, RunnerKeeps
<1>2. CASE Fan
  BY <1>2, FanKeeps
<1>3. CASE ResultReporter
  BY <1>3, ResultReporterKeeps
<1>4. CASE \E i \in Writers : Writer(i) \/ Die(i)
  BY <1>4, WriterKeeps
<1>5. CASE Exit
  BY <1>5, ExitKeeps
<1>6. CASE UNCHANGED allVars
  <2>1. IInv'
    BY <1>6, StepIInv DEF PoolInv, allVars
  <2>2. UNCHANGED <<delivered, resultCh, coord>> /\ UNCHANGED poolVars
    BY <1>6 DEF allVars, vars
  <2> QED
    BY <2>1, <2>2
    DEF PoolInv, Shape, WayInv, EndInv, TallyInv, ExitInv, Pending, Counted, poolVars, fanVars
<1> QED
  BY <1>1, <1>2, <1>3, <1>4, <1>5, <1>6 DEF PoolNext, PoolDone

(* Every result is on its way to the count, or in it. *)
THEOREM PoolInvariance == PoolSpec => []PoolInv
  BY InitPoolInv, PoolStep, PTL DEF PoolSpec
-----------------------------------------------------------------------------
(* Results of different bundles differ, so N results are all there can be.    *)
LEMMA AllDelivered ==
  ASSUME PoolInv, Cardinality(delivered) = N
  PROVE  {r.task : r \in delivered} = Tasks
<1> USE PlanAssumption DEF PoolInv, WayInv, IInv, TypeOK
<1> DEFINE Number == [r \in delivered |-> r.task]
<1>1. \A r \in delivered : r.task \in Tasks
  BY DEF Results
<1>2. \A r, s \in delivered : r.task = s.task => r = s
  BY DEF ReportedOnce, Reported
<1>3. Number \in Injection(delivered, Tasks)
  BY <1>1, <1>2 DEF Injection, IsInjective
<1>4. IsFiniteSet(Tasks) /\ Cardinality(Tasks) = N
  BY FS_Interval DEF Tasks
<1>5. Number \in Surjection(delivered, Tasks)
  BY <1>3, <1>4, FS_Injection
<1>6. \A t \in Tasks : \E r \in delivered : Number[r] = t
  BY <1>5 DEF Surjection
<1> QED
  BY <1>1, <1>6

(* ... and if all bundles have results there are N of them. *)
LEMMA AllCounted ==
  ASSUME PoolInv, {r.task : r \in delivered} = Tasks
  PROVE  Cardinality(delivered) = N
<1> USE PlanAssumption DEF PoolInv, WayInv, IInv, TypeOK
<1> DEFINE Number == [r \in delivered |-> r.task]
<1>1. \A r, s \in delivered : r.task = s.task => r = s
  BY DEF ReportedOnce, Reported
<1>2. Number \in Injection(delivered, Tasks) /\ Number \in Surjection(delivered, Tasks)
  BY <1>1 DEF Injection, IsInjective, Surjection
<1>3. IsFiniteSet(Tasks) /\ Cardinality(Tasks) = N
  BY FS_Interval DEF Tasks
<1> QED
  BY <1>2, <1>3, FS_Injection

(* Exit code 0 is given only if every bundle of the plan was reported, and    *)
(* none of them failed: the results counted are all that were delivered, they *)
(* are as many as announced, and no two are of one bundle.                    *)
THEOREM ZeroMeansAllPassed ==
  ASSUME Size = N
  PROVE  PoolSpec => []ExitZeroMeansAllPassed
<1>1. PoolInv => ExitZeroMeansAllPassed
  <2> SUFFICES ASSUME PoolInv, exit = 0
               PROVE  /\ {r.task : r \in delivered} = Tasks
                      /\ \A r \in delivered : ~Failing(r)
    BY DEF ExitZeroMeansAllPassed
  <2>1. success /\ rstate[1] = "done"
    BY PoolAssumption DEF PoolInv, ExitInv
  <2>2. Counted = delivered
    BY <2>1 DEF PoolInv, EndInv, Counted, Pending
  <2>3. Cardinality(delivered) = N /\ \A r \in delivered : ~Failing(r)
    BY <2>1, <2>2 DEF PoolInv, TallyInv
  <2> QED
    BY <2>3, AllDelivered
<1> QED
  BY <1>1, PoolInvariance, PTL

(* Exit code 1 is given only if a bundle did not pass or the run was          *)
(* interrupted: without an interrupt the runner is complete, so the count is  *)
(* not what went wrong.                                                       *)
THEOREM OneHasReason ==
  ASSUME Size = N
  PROVE  PoolSpec => []ExitOneHasReason
<1>1. PoolInv => ExitOneHasReason
  <2> SUFFICES ASSUME PoolInv, exit = 1, ~canceled
               PROVE  \E r \in delivered : Failing(r)
    BY DEF ExitOneHasReason
  <2>1. ~success /\ rstate[1] = "done"
    BY PoolAssumption DEF PoolInv, ExitInv
  <2>2. coord = "closed" /\ resultCh = {}
    BY <2>1 DEF PoolInv, EndInv
  <2>3. {r.task : r \in delivered} = Tasks
    BY <2>2, IInvComplete DEF PoolInv, CompleteUnlessCanceled, Reported
  <2> QED
    BY <2>1, <2>3, AllCounted DEF PoolInv, TallyInv
<1> QED
  BY <1>1, PoolInvariance, PTL
-----------------------------------------------------------------------------
(* Room in the channels, and types. *)

(* Nothing is in a channel of the pool that was not delivered, and what the   *)
(* fan-out holds is not yet in the channels it has still to send to.          *)
RoomInv ==
  /\ \A i \in Reporters : chan[i] \subseteq delivered
  /\ fan = "send" => /\ nextRep \in Reporters /\ held \in delivered
                     /\ \A i \in nextRep .. R : held \notin chan[i]

(* A writer that is writing has a result, and copies output only if there is. *)
WriteInv ==
  \A i \in Writers : /\ rstate[i] = "writing" => writing[i] \in Results
                     /\ sees[i] => writing[i] \in Results /\ writing[i].output # None

CountInv == count <= Cardinality(Counted)

(* What TypeOK says of the variables that no other invariant is about. *)
RestOK ==
  /\ held \in Results \cup {None} /\ nextRep \in 1 .. R + 1
  /\ writing \in [Writers -> Results \cup {None}]
  /\ sees \in [Writers -> BOOLEAN]
  /\ drained \subseteq Tasks /\ shown \in [Writers -> SUBSET Tasks]

ChannelInv == RoomInv /\ WriteInv /\ CountInv /\ RestOK

(* At the start all channels are empty. *)
LEMMA InitChannelInv == PoolInit => ChannelInv
<1> SUFFICES ASSUME PoolInit PROVE ChannelInv
  OBVIOUS
<1>1. \A i \in Reporters : chan[i] = {}
  BY DEF PoolInit
<1>2. RoomInv
  BY <1>1 DEF PoolInit, RoomInv
<1>3. WriteInv
  <2>1. \A i \in Writers : ~sees[i] /\ rstate[i] # "writing"
    BY PoolAssumption DEF PoolInit, Writers, Reporters
  <2> QED BY <2>1 DEF WriteInv
<1>4. Counted = {} /\ count = 0
  BY DEF PoolInit, Init, Counted
<1>5. CountInv
  BY <1>4, FS_EmptySet DEF CountInv
<1>6. RestOK
  BY PoolAssumption DEF PoolInit, RestOK
<1> QED BY <1>2, <1>3, <1>5, <1>6 DEF ChannelInv

(* Delivered results and counted ones are finitely many. *)
LEMMA CountedFinite ==
  ASSUME PoolInv
  PROVE  /\ IsFiniteSet(delivered) /\ IsFiniteSet(Counted)
         /\ Cardinality(delivered) \in Nat /\ Cardinality(Counted) \in Nat
         /\ Cardinality(Counted) <= Cardinality(delivered)
<1>1. IsFiniteSet(delivered) /\ Counted \subseteq delivered
  BY DEF PoolInv, WayInv, Counted
<1> QED BY <1>1, FS_Subset, FS_CardinalityType

(* The runner does not know of the channels of the pool. *)
LEMMA RunnerKeepsChannels ==
  ASSUME PoolInv, ChannelInv, RunnerStep, UNCHANGED poolVars
  PROVE  ChannelInv'
<1>1. delivered' = delivered
  BY DEF RunnerStep, Cancel, Source, SendTask, CloseTasks, Worker, TakeTask, ExitWorker,
         EndScenario, Publish, DropResult, Coordinator, StopClock, CloseResults
<1>2. UNCHANGED <<chan, fan, held, nextRep, rstate, writing, sees, drained, shown, count>>
  BY DEF poolVars, fanVars, writeVars
<1>3. Counted' = Counted
  BY <1>1, <1>2 DEF Counted, Pending
<1> QED BY <1>1, <1>2, <1>3 DEF ChannelInv, RoomInv, WriteInv, CountInv, RestOK

(* A result that is received is in no channel; the fan-out fills them one by  *)
(* one.                                                                       *)
LEMMA FanKeepsChannels ==
  ASSUME PoolInv, PoolInv', ChannelInv, Fan
  PROVE  ChannelInv'
<1>1. R \in Nat \ {0} /\ Reporters = 1 .. R
  BY PoolAssumption DEF Reporters
<1>2. UNCHANGED <<rstate, writing, sees, drained, shown, count>>
  BY DEF Fan, FanReceive, FanSend, FanClose, FanTime, writeVars
<1>3. WriteInv'
  BY <1>2 DEF ChannelInv, WriteInv
<1>4. CASE \E r \in resultCh : FanReceive(r)
  <2> PICK r \in resultCh : FanReceive(r)
    BY <1>4
  <2>1. /\ fan = "receive" /\ fan' = "send" /\ held' = r /\ nextRep' = 1 /\ chan' = chan
        /\ delivered' = delivered \cup {r} /\ r \notin delivered /\ r \in Results
    BY DEF FanReceive, Consume, PoolInv, WayInv, IInv, TypeOK
  <2>2. RoomInv'
    BY <1>1, <2>1 DEF ChannelInv, RoomInv
  <2>3. Counted' = Counted
    BY <2>1 DEF Counted, Pending, PoolInv, WayInv
  <2>4. RestOK'
    BY <1>1, <1>2, <2>1 DEF ChannelInv, RestOK
  <2> QED BY <1>2, <1>3, <2>2, <2>3, <2>4 DEF ChannelInv, CountInv
<1>5. CASE FanSend
  <2>1. /\ fan = "send" /\ chan' = [chan EXCEPT ![nextRep] = @ \cup {held}]
        /\ nextRep' = nextRep + 1 /\ delivered' = delivered
        /\ nextRep = R => fan' = "receive" /\ held' = None
        /\ nextRep # R => fan' = "send" /\ held' = held
    BY <1>5 DEF FanSend, vars
  <2>2. nextRep \in 1 .. R /\ held \in delivered /\ \A i \in nextRep .. R : held \notin chan[i]
    BY <1>1, <2>1 DEF ChannelInv, RoomInv
  <2>3. /\ chan'[nextRep] = chan[nextRep] \cup {held}
        /\ \A i \in Reporters : i # nextRep => chan'[i] = chan[i]
    BY <1>1, <2>1, <2>2 DEF PoolInv, Shape
  <2>4. RoomInv'
    <3>1. \A i \in Reporters : chan'[i] \subseteq delivered'
      BY <1>1, <2>1, <2>2, <2>3 DEF ChannelInv, RoomInv
    <3>2. ASSUME fan' = "send"
          PROVE  /\ nextRep' \in Reporters /\ held' \in delivered'
                 /\ \A i \in nextRep' .. R : held' \notin chan'[i]
      <4>1. nextRep # R /\ held' = held /\ nextRep' \in 1 .. R
        BY <1>1, <2>1, <2>2, <3>2
      <4>2. \A i \in nextRep' .. R : i \in nextRep .. R /\ i # nextRep /\ i \in Reporters
        BY <1>1, <2>1, <2>2
      <4> QED BY <1>1, <2>1, <2>2, <2>3, <4>1, <4>2
    <3> QED BY <3>1, <3>2 DEF RoomInv
  <2>5. Counted' = Counted
    BY <1>1, <2>1, <2>2, <2>3 DEF Counted, Pending
  <2>6. RestOK'
    BY <1>1, <1>2, <2>1, <2>2 DEF ChannelInv, RestOK
  <2> QED BY <1>2, <1>3, <2>4, <2>5, <2>6 DEF ChannelInv, CountInv
<1>6. CASE FanClose \/ FanTime
  <2>1. /\ UNCHANGED <<delivered, chan, held, nextRep>> /\ fan # "send" /\ fan' # "send"
    BY <1>6 DEF FanClose, FanTime, vars
  <2>2. Counted' = Counted
    BY <2>1 DEF Counted, Pending
  <2> QED BY <1>2, <1>3, <2>1, <2>2 DEF ChannelInv, RoomInv, CountInv, RestOK
<1> QED BY <1>4, <1>5, <1>6 DEF Fan

(* Whoever reads from a channel makes room in it. *)
LEMMA ReportersKeepChannels ==
  ASSUME PoolInv, PoolInv', ChannelInv, NEW i \in Reporters,
         \/ ResultReporter /\ i = 1
         \/ i \in Writers /\ (Writer(i) \/ Die(i))
  PROVE  ChannelInv'
<1>1. UNCHANGED <<delivered, fan, held, nextRep>> /\ \A j \in Reporters : chan'[j] \subseteq chan[j]
  BY DEF ResultReporter, ResultTake, ResultDone, Writer, BeginWrite, EndReading, EndWrite,
         WriterDone, Die, vars, fanVars, PoolInv, Shape
<1>2. RoomInv'
  BY <1>1, PoolAssumption DEF ChannelInv, RoomInv, Reporters
<1>3. CASE ResultReporter /\ i = 1
  <2>1. UNCHANGED <<writing, sees, drained, shown>> /\ \A j \in Writers : rstate'[j] = rstate[j]
    BY <1>3, PoolAssumption
    DEF ResultReporter, ResultTake, ResultDone, EndReading, writeVars, PoolInv, Shape,
        Writers, Reporters
  <2>2. WriteInv' /\ RestOK'
    BY <1>1, <2>1 DEF ChannelInv, WriteInv, RestOK
  <2>3. CountInv'
    <3>1. CASE \E r \in chan[1] : ResultTake(r)
      <4> PICK r \in chan[1] : ResultTake(r)
        BY <3>1
      <4>1. chan'[1] = chan[1] \ {r} /\ (count' = count + 1 \/ count' = count)
        BY PoolAssumption DEF ResultTake, PoolInv, Shape, Reporters
      <4>2. Pending' = Pending
        BY <1>1 DEF Pending
      <4>3. r \notin Counted /\ Counted' = Counted \cup {r}
        BY <1>1, <4>1, <4>2 DEF Counted, PoolInv, WayInv
      <4>4. Cardinality(Counted') = Cardinality(Counted) + 1
        BY <4>3, CountedFinite, FS_AddElement
      <4> QED BY <4>1, <4>4, CountedFinite DEF ChannelInv, CountInv, PoolInv, Shape
    <3>2. CASE EndReading(1) \/ ResultDone
      <4>1. count' = count /\ chan' = chan
        BY <3>2 DEF EndReading, ResultDone
      <4>2. Counted' = Counted
        BY <1>1, <4>1 DEF Counted, Pending
      <4> QED BY <4>1, <4>2 DEF ChannelInv, CountInv
    <3> QED BY <1>3, <3>1, <3>2 DEF ResultReporter
  <2> QED BY <1>2, <2>2, <2>3 DEF ChannelInv
<1>4. CASE i \in Writers /\ (Writer(i) \/ Die(i))
  <2>1. i # 1 /\ i \in Writers
    BY <1>4, PoolAssumption DEF Writers
  <2>2. CountInv'
    <3>1. count' = count /\ chan'[1] = chan[1]
      BY <1>4, <2>1, PoolAssumption
      DEF Writer, BeginWrite, EndReading, EndWrite, WriterDone, Die, PoolInv, Shape, Reporters
    <3>2. Counted' = Counted
      BY <1>1, <3>1 DEF Counted, Pending
    <3> QED BY <3>1, <3>2 DEF ChannelInv, CountInv
  <2>3. WriteInv' /\ RestOK'
    <3>0. /\ rstate \in [Reporters -> {"reading", "writing", "timing", "done", "dead"}]
          /\ Writers \subseteq Reporters /\ chan[i] \subseteq Results
      BY PoolAssumption DEF PoolInv, Shape, Reporters, Writers
    <3>1. ASSUME NEW r \in chan[i], BeginWrite(i, r) PROVE WriteInv' /\ RestOK'
      <4>1. /\ r \in Results /\ rstate' = [rstate EXCEPT ![i] = "writing"]
            /\ writing' = [writing EXCEPT ![i] = r]
            /\ sees' = [sees EXCEPT ![i] = r.output # None /\ r.output \notin drained]
            /\ drained' = drained /\ shown' = shown
        BY <3>0, <3>1 DEF BeginWrite
      <4>2. /\ sees' \in [Writers -> BOOLEAN] /\ (sees'[i] => r.output # None)
            /\ \A j \in Writers \ {i} : sees'[j] = sees[j]
        BY <2>1, <4>1, Zenon DEF ChannelInv, RestOK
      <4>3. /\ writing' \in [Writers -> Results \cup {None}] /\ writing'[i] = r
            /\ \A j \in Writers \ {i} : writing'[j] = writing[j] /\ rstate'[j] = rstate[j]
        BY <2>1, <3>0, <4>1 DEF ChannelInv, RestOK
      <4>4. WriteInv'
        BY <4>1, <4>2, <4>3 DEF ChannelInv, WriteInv
      <4>5. RestOK'
        BY <1>1, <4>1, <4>2, <4>3 DEF ChannelInv, RestOK
      <4> QED BY <4>4, <4>5
    <3>2. CASE EndWrite(i)
      <4>1. /\ rstate[i] = "writing" /\ rstate' = [rstate EXCEPT ![i] = "reading"]
            /\ writing' = [writing EXCEPT ![i] = None] /\ sees' = [sees EXCEPT ![i] = FALSE]
        BY <3>2 DEF EndWrite
      <4>2. /\ sees' \in [Writers -> BOOLEAN] /\ ~sees'[i]
            /\ \A j \in Writers \ {i} : sees'[j] = sees[j]
        BY <2>1, <4>1 DEF ChannelInv, RestOK
      <4>3. /\ writing' \in [Writers -> Results \cup {None}] /\ rstate'[i] # "writing"
            /\ \A j \in Writers \ {i} : writing'[j] = writing[j] /\ rstate'[j] = rstate[j]
        BY <2>1, <3>0, <4>1 DEF ChannelInv, RestOK
      <4>4. WriteInv'
        BY <4>2, <4>3 DEF ChannelInv, WriteInv
      <4>5. writing[i] \in Results /\ (sees[i] => writing[i].output # None)
        BY <2>1, <4>1 DEF ChannelInv, WriteInv
      <4>6. writing[i].task \in Tasks /\ (sees[i] => writing[i].output \in Tasks)
        BY <4>5 DEF Results
      <4>7. drained' \subseteq Tasks /\ shown' \in [Writers -> SUBSET Tasks]
        <5>1. CASE sees[i]
          <6>1. shown' = [shown EXCEPT ![i] = @ \cup {writing[i].task}]
                /\ drained' \subseteq drained \cup {writing[i].output}
            BY <3>2, <5>1 DEF EndWrite
          <6>2. shown[i] \cup {writing[i].task} \in SUBSET Tasks
            BY <2>1, <4>6 DEF ChannelInv, RestOK
          <6> QED BY <2>1, <4>6, <5>1, <6>1, <6>2 DEF ChannelInv, RestOK
        <5>2. CASE ~sees[i]
          BY <3>2, <5>2 DEF EndWrite, ChannelInv, RestOK
        <5> QED BY <5>1, <5>2
      <4>8. RestOK'
        BY <1>1, <4>2, <4>3, <4>7 DEF ChannelInv, RestOK
      <4> QED BY <4>4, <4>8
    <3>3. CASE EndReading(i) \/ WriterDone(i)
      <4>1. UNCHANGED <<writing, sees, drained, shown>> /\ rstate'[i] # "writing"
            /\ \A j \in Writers \ {i} : rstate'[j] = rstate[j]
        BY <2>1, <3>0, <3>3 DEF EndReading, WriterDone, writeVars
      <4> QED BY <1>1, <4>1 DEF ChannelInv, WriteInv, RestOK
    <3>4. CASE Die(i)
      <4>1. /\ rstate' = [rstate EXCEPT ![i] = "dead"] /\ drained' = drained /\ shown' = shown
            /\ writing' = [writing EXCEPT ![i] = None] /\ sees' = [sees EXCEPT ![i] = FALSE]
        BY <3>4 DEF Die
      <4>2. /\ sees' \in [Writers -> BOOLEAN] /\ ~sees'[i]
            /\ \A j \in Writers \ {i} : sees'[j] = sees[j]
        BY <2>1, <4>1 DEF ChannelInv, RestOK
      <4>3. /\ writing' \in [Writers -> Results \cup {None}] /\ rstate'[i] # "writing"
            /\ \A j \in Writers \ {i} : writing'[j] = writing[j] /\ rstate'[j] = rstate[j]
        BY <2>1, <3>0, <4>1 DEF ChannelInv, RestOK
      <4>4. WriteInv'
        BY <4>2, <4>3 DEF ChannelInv, WriteInv
      <4> QED BY <1>1, <4>1, <4>2, <4>3, <4>4 DEF ChannelInv, RestOK
    <3> QED BY <1>4, <3>1, <3>2, <3>3, <3>4 DEF Writer
  <2> QED BY <1>2, <2>2, <2>3 DEF ChannelInv
<1> QED BY <1>3, <1>4

(* One step per disjunct of PoolNext. *)
LEMMA StepChannelInv ==
  PoolInv /\ PoolInv' /\ ChannelInv /\ [PoolNext]_allVars => ChannelInv'
<1> SUFFICES ASSUME PoolInv, PoolInv', ChannelInv, [PoolNext]_allVars PROVE ChannelInv'
  OBVIOUS
<1>1. CASE RunnerStep /\ exit = None /\ UNCHANGED poolVars
  BY <1>1, RunnerKeepsChannels
<1>2. CASE Fan
  BY <1>2, FanKeepsChannels
<1>3. CASE ResultReporter
  <2>1. 1 \in Reporters
    BY PoolAssumption DEF Reporters
  <2> QED BY <1>3, <2>1, ReportersKeepChannels
<1>4. CASE \E i \in Writers : Writer(i) \/ Die(i)
  <2>1. Writers \subseteq Reporters
    BY PoolAssumption DEF Writers, Reporters
  <2> QED BY <1>4, <2>1, ReportersKeepChannels
<1>5. CASE Exit \/ UNCHANGED allVars
  <2>1. UNCHANGED <<delivered, chan, fan, held, nextRep, rstate, writing, sees, drained, shown,
                    count>>
    BY <1>5 DEF Exit, allVars, vars, poolVars, fanVars, writeVars
  <2>2. Counted' = Counted
    BY <2>1 DEF Counted, Pending
  <2> QED BY <2>1, <2>2 DEF ChannelInv, RoomInv, WriteInv, CountInv, RestOK
<1> QED BY <1>1, <1>2, <1>3, <1>4, <1>5 DEF PoolNext, PoolDone

(* What is in the channels was delivered, and nothing is in one twice. *)
THEOREM ChannelInvariance == PoolSpec => []ChannelInv
<1>1. PoolSpec => []PoolInv
  BY PoolInvariance
<1>2. PoolInit => ChannelInv
  BY InitChannelInv
<1>3. PoolInv /\ PoolInv' /\ ChannelInv /\ [PoolNext]_allVars => ChannelInv'
  BY StepChannelInv
<1> QED BY <1>1, <1>2, <1>3, PTL DEF PoolSpec

(* Results of different bundles differ, so there are at most N. *)
LEMMA AtMostN == ASSUME PoolInv PROVE Cardinality(delivered) <= N
<1> USE PlanAssumption DEF PoolInv, WayInv, IInv, TypeOK
<1> DEFINE Number == [r \in delivered |-> r.task]
<1>1. \A r \in delivered : r.task \in Tasks
  BY DEF Results
<1>2. \A r, s \in delivered : r.task = s.task => r = s
  BY DEF ReportedOnce, Reported
<1>3. Number \in Injection(delivered, Tasks)
  BY <1>1, <1>2 DEF Injection, IsInjective
<1>4. IsFiniteSet(Tasks) /\ Cardinality(Tasks) = N
  BY FS_Interval DEF Tasks
<1> QED BY <1>3, <1>4, FS_Injection

(* Every variable of the pool keeps its type; the ResultReporter counts no    *)
(* more results than the plan has bundles.                                    *)
THEOREM PoolTypeCorrect == PoolSpec => [](TypeOK /\ PoolTypeOK)
<1>1. PoolInv /\ ChannelInv => TypeOK /\ PoolTypeOK
  <2> SUFFICES ASSUME PoolInv, ChannelInv PROVE TypeOK /\ PoolTypeOK
    OBVIOUS
  <2>1. TypeOK
    BY DEF PoolInv, IInv
  <2>2. count \in 0 .. N
    BY AtMostN, CountedFinite, PlanAssumption DEF PoolInv, Shape, ChannelInv, CountInv
  <2>3. exit \in {0, 1, None}
    BY DEF PoolInv, ExitInv
  <2> QED BY <2>1, <2>2, <2>3 DEF PoolInv, Shape, ChannelInv, RestOK, PoolTypeOK
<1> QED BY <1>1, PoolInvariance, ChannelInvariance, PTL

(* The fan-out never waits for a reporter, though it may have died and nobody *)
(* reads its channel any more: each channel has room for all results of the   *)
(* plan (ReporterPool.AddReporter), and none is sent twice.  This is why a    *)
(* reporter that panics cannot keep the others, and with them the program,    *)
(* from coming to an end.                                                     *)
THEOREM FanNeverWaits ==
  ASSUME Size = N
  PROVE  PoolSpec => [](fan = "send" => Cardinality(chan[nextRep]) < Size)
<1>1. PoolInv /\ ChannelInv => (fan = "send" => Cardinality(chan[nextRep]) < Size)
  <2> SUFFICES ASSUME PoolInv, ChannelInv, fan = "send" PROVE Cardinality(chan[nextRep]) < Size
    OBVIOUS
  <2>1. /\ nextRep \in Reporters /\ held \in delivered /\ chan[nextRep] \subseteq delivered
        /\ held \notin chan[nextRep]
    BY PoolAssumption DEF ChannelInv, RoomInv, Reporters
  <2>2. IsFiniteSet(chan[nextRep]) /\ Cardinality(chan[nextRep]) \in Nat
    BY <2>1, CountedFinite, FS_Subset, FS_CardinalityType
  <2>3. Cardinality(chan[nextRep] \cup {held}) = Cardinality(chan[nextRep]) + 1
    BY <2>1, <2>2, FS_AddElement
  <2>4. Cardinality(chan[nextRep] \cup {held}) <= Cardinality(delivered)
    BY <2>1, CountedFinite, FS_Subset
  <2> QED BY <2>2, <2>3, <2>4, AtMostN, CountedFinite, PlanAssumption
<1> QED BY <1>1, PoolInvariance, ChannelInvariance, PTL

(* With the pool as its reader the runner does what it does with any reader:  *)
(* the fan-out's receive is Consume, and nothing else of the pool reaches     *)
(* into the runner.  What is proved of Spec's safety holds of whole runs.     *)
THEOREM PoolIsAReader == PoolSpec => Init /\ [][Next]_vars
<1>1. PoolInit => Init
  BY DEF PoolInit
<1>2. [PoolNext]_allVars => [Next]_vars
  <2> SUFFICES ASSUME [PoolNext]_allVars PROVE [Next]_vars
    OBVIOUS
  <2>1. CASE RunnerStep
    BY <2>1 DEF Next
  <2>2. CASE Fan
    BY <2>2 DEF Fan, FanReceive, FanSend, FanClose, FanTime, Next, Read
  <2>3. CASE ResultReporter
    BY <2>3 DEF ResultReporter, ResultTake, EndReading, ResultDone
  <2>4. CASE \E i \in Writers : Writer(i) \/ Die(i)
    BY <2>4 DEF Writer, BeginWrite, EndWrite, EndReading, WriterDone, Die
  <2>5. CASE Exit \/ UNCHANGED allVars
    BY <2>5 DEF Exit, allVars
  <2> QED BY <2>1, <2>2, <2>3, <2>4, <2>5 DEF PoolNext, PoolDone
<1> QED BY <1>1, <1>2, PTL DEF PoolSpec
=============================================================================
