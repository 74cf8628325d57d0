-------------------------- MODULE ScenarioRunProof --------------------------
(* Proofs about ScenarioRun for every chain length, every choice of hooks,    *)
(* every retry limit, with and without fail_fast.                             *)
EXTENDS ScenarioRun, Sequences, TLAPS

(* Errors and interrupts end the chain, so a scenario that still runs has     *)
(* passed so far or has a failed assertion to show.                           *)
Verdict ==
  /\ status \in {"Error", "Aborted"} => pc = "ended"
  /\ status = "Failure" => \E i \in Requests : failed[i]
  /\ pc # "next" /\ pc # "ended" => cur \in Requests

(* Whether an interrupt was really noticed as one. *)
Interrupts == ctx = "canceled" => runCanceled

IInv ==
  /\ TypeOK /\ Verdict /\ Interrupts
  /\ NoSuccessOverFailure /\ ReasonIsOnARequest
  /\ AbortedOnlyIfInterrupted /\ SuccessReachedTheEnd /\ ErrorOutranksFailure

LEMMA InitIInv == Init => IInv
<1> SUFFICES ASSUME Init PROVE IInv
  OBVIOUS
<1> USE DEF Init
<1>1. TypeOK
  <2>1. /\ requestIdx \in 1 .. N + 1 /\ cur \in 0 .. N
        /\ retries \in 0 .. MaxRetries + 1
    BY ScenarioAssumption
  <2>2. reqStatus \in [Requests -> Statuses] /\ failed \in [Requests -> BOOLEAN]
    BY DEF Statuses
  <2> QED
    BY <2>1, <2>2 DEF TypeOK
<1>2. Verdict /\ Interrupts
  BY DEF Verdict, Interrupts
<1>3. NoSuccessOverFailure /\ ReasonIsOnARequest
  BY DEF NoSuccessOverFailure, ReasonIsOnARequest
<1>4. AbortedOnlyIfInterrupted /\ SuccessReachedTheEnd /\ ErrorOutranksFailure
  BY DEF AbortedOnlyIfInterrupted, SuccessReachedTheEnd, ErrorOutranksFailure
<1> QED
  BY <1>1, <1>2, <1>3, <1>4 DEF IInv

(* Stop in any of its uses: what it needs is a request in hand, and an        *)
(* interrupt to speak of when it says Aborted.                                *)
LEMMA StopIInv ==
  ASSUME IInv, cur \in Requests,
         NEW s \in {"Error", "Aborted"}, NEW reason \in {"context", "error"},
         s = "Aborted" => runCanceled,
         pc # "ended", Stop(s, reason)
  PROVE  IInv'
<1> USE ScenarioAssumption DEF IInv, Stop, contexts, flow, request
<1>1. TypeOK'
  BY DEF TypeOK, Statuses
<1>2. Verdict' /\ Interrupts'
  BY DEF TypeOK, Verdict, Interrupts
<1>3. NoSuccessOverFailure' /\ ReasonIsOnARequest'
  BY DEF TypeOK, NoSuccessOverFailure, ReasonIsOnARequest
<1>4. AbortedOnlyIfInterrupted' /\ SuccessReachedTheEnd'
  BY DEF AbortedOnlyIfInterrupted, SuccessReachedTheEnd
<1>5. ErrorOutranksFailure'
  BY DEF TypeOK, ErrorOutranksFailure
<1> QED
  BY <1>1, <1>2, <1>3, <1>4, <1>5

(* One step per action. *)
LEMMA StepIInv == IInv /\ [Next]_vars => IInv'
<1> SUFFICES ASSUME IInv, [Next]_vars PROVE IInv'
  OBVIOUS
<1> DEFINE Moves == {"pre", "materialize", "parse", "send", "retry", "wait", "assert", "post"}
<1>a. /\ pc \in Moves => cur \in Requests
      /\ ContextStatus \in {"Error", "Aborted"}
      /\ ContextStatus = "Aborted" => runCanceled
  BY DEF IInv, Verdict, Interrupts, ContextStatus
<1>b. ASSUME ScriptStops, pc \in Moves PROVE IInv'
  BY <1>a, <1>b, StopIInv DEF ScriptStops
<1> USE ScenarioAssumption
    DEF IInv, TypeOK, Statuses, Verdict, Interrupts, NoSuccessOverFailure, ReasonIsOnARequest,
        AbortedOnlyIfInterrupted, SuccessReachedTheEnd, ErrorOutranksFailure, ScriptJumps, contexts, flow, request
<1>1. CASE Expire
  BY <1>1 DEF Expire
<1>2. CASE Cancel
  BY <1>2 DEF Cancel
<1>3. CASE StartRequest
  <2>1. /\ pc = "next" /\ requestIdx \in Requests
        /\ cur' = requestIdx /\ requestIdx' = requestIdx + 1
        /\ retries' = 0 /\ cache' = FALSE /\ skip' = FALSE
        /\ UNCHANGED <<ctx, runCanceled, failFast, failed>>
    BY <1>3 DEF StartRequest, Requests
  <2>2. /\ cur' \in 0 .. N /\ cur' \in Requests /\ requestIdx' \in 1 .. N + 1
        /\ retries' \in 0 .. MaxRetries + 1
    BY <2>1 DEF Requests
  <2>3. CASE Dead
    <3>1. PICK s \in {"Error", "Aborted"} :
            /\ s = "Aborted" => runCanceled
            /\ status' = s /\ reqStatus' = [reqStatus EXCEPT ![requestIdx] = s]
            /\ pc' = "ended" /\ why' = "context"
      BY <1>3, <1>a, <2>3 DEF StartRequest
    <3>2. reqStatus' \in [Requests -> Statuses] /\ reqStatus'[requestIdx] = status'
      BY <2>1, <3>1
    <3>3. TypeOK'
      BY <2>1, <2>2, <3>1, <3>2
    <3> QED
      BY <2>1, <2>2, <3>1, <3>2, <3>3
  <2>4. CASE ~Dead
    <3>1. /\ reqStatus' = [reqStatus EXCEPT ![requestIdx] = "Unset"] /\ pc' = "pre"
          /\ UNCHANGED <<status, why>>
      BY <1>3, <2>4 DEF StartRequest
    <3>2. reqStatus' \in [Requests -> Statuses]
      BY <2>1, <3>1
    <3>3. TypeOK'
      BY <2>1, <2>2, <3>1, <3>2
    <3> QED
      BY <2>1, <2>2, <3>1, <3>2, <3>3
  <2> QED
    BY <2>3, <2>4
<1>4. CASE EndChain
  BY <1>4 DEF EndChain
<1>5. CASE Passes
  BY <1>5 DEF Passes, Pass
<1>6. CASE ScriptFails
  BY <1>6, <1>b DEF ScriptFails, Fails
<1>7. CASE RunPre
  BY <1>7, <1>a DEF RunPre
<1>8. CASE Materialize
  BY <1>8 DEF Materialize
<1>9. CASE MaterializeFails
  BY <1>9, <1>b DEF MaterializeFails
<1>10. CASE ParseRequest
  BY <1>10 DEF ParseRequest
<1>11. CASE ParseFails
  BY <1>11, <1>a, StopIInv DEF ParseFails
<1>12. CASE TooManyRetries
  BY <1>12, <1>a, StopIInv DEF TooManyRetries
<1>13. CASE Send
  BY <1>13 DEF Send
<1>14. CASE SendFails
  BY <1>14, <1>a, StopIInv DEF SendFails
<1>15. CASE RunRetry
  BY <1>15 DEF RunRetry
<1>16. CASE RetryTimer
  BY <1>16 DEF RetryTimer
<1>17. CASE RetryInterrupted
  BY <1>17, <1>a, StopIInv DEF RetryInterrupted
<1>18. CASE AssertPasses
  BY <1>18 DEF AssertPasses
<1>19. CASE AssertFails
  BY <1>19, <1>a DEF AssertFails
<1>20. CASE FinishRequest
  BY <1>20, <1>a DEF FinishRequest, Finalized
<1>21. CASE Panic
  BY <1>21, <1>a DEF Panic, Finalized
<1>22. CASE UNCHANGED vars
  BY <1>22 DEF vars
<1> QED
  BY <1>1, <1>2, <1>3, <1>4, <1>5, <1>6, <1>7, <1>8, <1>9, <1>10, <1>11, <1>12, <1>13,
     <1>14, <1>15, <1>16, <1>17, <1>18, <1>19, <1>20, <1>21, <1>22
  DEF Next, Step, Ended

THEOREM Invariance == Spec => []IInv
  BY InitIInv, StepIInv, PTL DEF Spec

(* Every variable keeps its type, the retry counter its limit included. *)
THEOREM TypeCorrect == Spec => []TypeOK
  BY Invariance, PTL DEF IInv

(* A failed, errored or aborted request never ends in a successful scenario,  *)
(* whatever the scripts make of the chain.                                    *)
THEOREM NoFalseSuccess == Spec => []NoSuccessOverFailure
  BY Invariance, PTL DEF IInv

(* A scenario that is not a success has a request to show for it. *)
THEOREM Reasoned == Spec => []ReasonIsOnARequest
  BY Invariance, PTL DEF IInv

(* Aborted is said only of interrupted runs. *)
THEOREM AbortedMeansInterrupted == Spec => []AbortedOnlyIfInterrupted
  BY Invariance, PTL DEF IInv

(* A success came to the end of its chain. *)
THEOREM SuccessIsComplete == Spec => []SuccessReachedTheEnd
  BY Invariance, PTL DEF IInv

(* An error or an interrupt is the last word on its request and its scenario. *)
THEOREM ErrorsOutrank == Spec => []ErrorOutranksFailure
  BY Invariance, PTL DEF IInv
-----------------------------------------------------------------------------
(* What a report finds in the result of a scenario. *)

(* A request that failed has its assertions on record, for they are never     *)
(* taken back; a panic is an error of the scenario.                           *)
RecordInv ==
  /\ \A i \in Requests : reqStatus[i] = "Failure" => failed[i]
  /\ why = "panic" => pc = "ended" /\ status = "Error"

(* Only AssertFails makes a request fail, and it keeps the assertions.        *)
LEMMA StepRecordInv == IInv /\ RecordInv /\ [Next]_vars => RecordInv'
<1> SUFFICES ASSUME IInv, RecordInv, [Next]_vars PROVE RecordInv'
  OBVIOUS
<1>1. /\ reqStatus \in [Requests -> Statuses] /\ failed \in [Requests -> BOOLEAN]
      /\ requestIdx \in 1 .. N + 1 /\ ContextStatus # "Failure"
  BY DEF IInv, TypeOK, ContextStatus
<1>2. CASE Stop("Error", why') \/ Stop("Aborted", why')
  <2>1. /\ \A i \in Requests : reqStatus'[i] = reqStatus[i] \/ reqStatus'[i] # "Failure"
        /\ failed' = failed /\ pc' = "ended" /\ status' \in {"Error", "Aborted"}
    BY <1>1, <1>2 DEF Stop
  <2>2. why' = "panic" => status' = "Error"
    BY <1>2 DEF Next, Step, Expire, Cancel, StartRequest, EndChain, Passes, Pass, ScriptFails,
       Fails, ScriptStops, Stop, RunPre, Materialize, MaterializeFails, ParseRequest,
       ParseFails, TooManyRetries, Send, SendFails, RunRetry, RetryTimer, RetryInterrupted,
       AssertPasses, AssertFails, FinishRequest, Panic, Ended, vars, RecordInv
  <2> QED BY <2>1, <2>2 DEF RecordInv
<1>3. CASE StartRequest
  BY <1>1, <1>3, ScenarioAssumption DEF StartRequest, RecordInv, Requests
<1>4. CASE RunPre
  BY <1>1, <1>4 DEF RunPre, RecordInv
<1>5. CASE AssertFails
  BY <1>1, <1>5 DEF AssertFails, RecordInv
<1>6. CASE FinishRequest
  BY <1>1, <1>6 DEF FinishRequest, Finalized, RecordInv
<1>7. CASE Panic
  BY <1>1, <1>7 DEF Panic, Finalized, RecordInv
<1>8. CASE UNCHANGED <<reqStatus, failed, status>> /\ (why' = why \/ why' = "end")
           /\ (pc = "ended" => pc' = "ended")
  BY <1>8 DEF RecordInv
<1> QED
  BY <1>2, <1>3, <1>4, <1>5, <1>6, <1>7, <1>8
  DEF Next, Step, Expire, Cancel, EndChain, Passes, Pass, ScriptFails, Fails, ScriptStops, Stop,
      Materialize, MaterializeFails, ParseRequest, ParseFails, TooManyRetries, Send, SendFails,
      RunRetry, RetryTimer, RetryInterrupted, AssertPasses, Ended, vars, flow, request,
      ContextStatus, contexts

(* The result as the reporters see it. *)
Result ==
  [status   |-> status,
   requests |-> [i \in Requests |-> [status |-> reqStatus[i], failed |-> failed[i]]]]

(* What CommandLine assumes of the results its reporters add up               *)
(* (EndingsAssumption there), said of a scenario with at least one request.   *)
AnEnding(r) ==
  LET bad == {"Failure", "Error", "Aborted"} IN
  /\ r.status \in bad \cup {"Success"}
  /\ r.requests \in Seq([status : Statuses, failed : BOOLEAN]) \ {<<>>}
  /\ \A i \in DOMAIN r.requests : r.requests[i].status = "Failure" => r.requests[i].failed
  /\ r.status = "Success" =>
       \A i \in DOMAIN r.requests : r.requests[i].status \notin bad /\ ~r.requests[i].failed
  /\ r.status # "Success" =>
       \/ r.status = "Error" /\ \A i \in DOMAIN r.requests : r.requests[i].status # "Error"
       \/ \E i \in DOMAIN r.requests :
            \/ r.requests[i].status = r.status
            \/ r.status = "Failure" /\ r.requests[i].failed

(* Every scenario that ends, however it does, has a result that the reporters *)
(* of CommandLine are shown to add up right.                                  *)
THEOREM ResultsAreEndings == ASSUME N # 0 PROVE Spec => [](pc = "ended" => AnEnding(Result))
<1>1. Init => RecordInv
  BY DEF Init, RecordInv
<1>2. IInv /\ RecordInv => (pc = "ended" => AnEnding(Result))
  <2> SUFFICES ASSUME IInv, RecordInv, pc = "ended" PROVE AnEnding(Result)
    OBVIOUS
  <2> DEFINE q == Result.requests
             S == [status : Statuses, failed : BOOLEAN]
  <2>1. /\ Result.status = status /\ q \in [Requests -> S]
        /\ \A i \in Requests : q[i].status = reqStatus[i] /\ q[i].failed = failed[i]
    <3>1. /\ \A i \in Requests : reqStatus[i] \in Statuses /\ failed[i] \in BOOLEAN
      BY DEF IInv, TypeOK
    <3> QED BY <3>1 DEF Result
  <2> HIDE DEF q
  <2>2. q \in Seq(S) /\ q # <<>> /\ DOMAIN q = Requests
    <3>1. N \in Nat \ {0} /\ Requests = 1 .. N
      BY ScenarioAssumption DEF Requests
    <3> HIDE DEF S
    <3>2. q \in Seq(S) /\ DOMAIN q = Requests
      <4>1. q \in [1 .. N -> S]
        BY <2>1, <3>1
      <4> QED BY <3>1, <4>1
    <3>3. 1 \in DOMAIN q /\ DOMAIN <<>> = {}
      BY <3>1, <3>2
    <3> QED BY <3>2, <3>3
  <2>3. status \in {"Success", "Failure", "Error", "Aborted"}
    BY DEF IInv, TypeOK
  <2>4. \A i \in DOMAIN q : q[i].status = "Failure" => q[i].failed
    BY <2>1, <2>2 DEF RecordInv
  <2>5. status = "Success" =>
          \A i \in DOMAIN q : q[i].status \notin {"Failure", "Error", "Aborted"} /\ ~q[i].failed
    BY <2>1, <2>2 DEF IInv, NoSuccessOverFailure
  <2>6. status # "Success" =>
          \/ status = "Error" /\ \A i \in DOMAIN q : q[i].status # "Error"
          \/ \E i \in DOMAIN q : q[i].status = status \/ (status = "Failure" /\ q[i].failed)
    <3>1. CASE why = "panic"
      BY <2>1, <2>2, <3>1 DEF RecordInv
    <3>2. CASE why # "panic"
      BY <2>1, <2>2, <3>2 DEF IInv, ReasonIsOnARequest
    <3> QED BY <3>1, <3>2
  <2> QED BY <2>1, <2>2, <2>3, <2>4, <2>5, <2>6 DEF AnEnding, q
<1> QED BY <1>1, <1>2, StepRecordInv, Invariance, PTL DEF Spec
=============================================================================
