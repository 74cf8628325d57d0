----------------------------- MODULE ScenarioRun -----------------------------
(* One run of one scenario by one worker: processScenario and processRequest  *)
(* (internal/runner/worker.go) and the RequestProcessor                       *)
(* (internal/runner/request-processor.go).  A scenario is a chain of          *)
(* requests; every request goes through its hooks and through materializing,  *)
(* parsing and sending.  Any script may change which request comes next, the  *)
(* RETRY script may send again, and at any moment the context may end, by the *)
(* scenario's timeout or because the run is interrupted.                      *)
(*                                                                            *)
(* Scripts, server and files are abstracted to what can come of them: success *)
(* with some effect, or an error.  A script that finds the context ended      *)
(* fails: gopher-lua polls it at every instruction.  FailedAssertions is      *)
(* abstracted to whether there are any.  Requests are numbered from 1.        *)
EXTENDS Integers

CONSTANTS
  N,           \* number of requests in the chain
  Hooks,       \* [1..N -> set of the hooks and inline scripts the request has]
  MaxRetries   \* scenarioBp.Config.MaxRetries

Requests  == 1 .. N
HookNames == {"pre", "inline", "retry", "assert", "post"}
Statuses  == {"Unset", "Skipped", "Aborted", "Success", "Error", "Failure"}

ASSUME ScenarioAssumption ==
  /\ N \in Nat /\ MaxRetries \in Nat
  /\ Hooks \in [Requests -> SUBSET HookNames]

VARIABLES
  ctx,          \* the scenario's context: "live", "canceled" or "expired"
  runCanceled,  \* the context of the whole run was canceled
  failFast,     \* scenarioBp.Config.FailFast
  pc,           \* what comes next
  requestIdx,   \* w.requestIdx: the request the loop takes next
  cur,          \* oldRequestIdx: the request in hand
  status,       \* status of processScenario, then result.Status
  reqStatus,    \* [Requests -> requestResults[i].Status]
  failed,       \* [Requests -> requestResults[i].FailedAssertions is not empty]
  retries,      \* p.retries
  cache,        \* p.cache
  skip,         \* p.skip
  why           \* history: what ended the chain

flow == <<requestIdx, cur>>
request == <<retries, cache, skip>>
contexts == <<ctx, runCanceled, failFast>>
vars == <<contexts, pc, flow, status, reqStatus, failed, request, why>>

TypeOK ==
  /\ ctx \in {"live", "canceled", "expired"} /\ runCanceled \in BOOLEAN
  /\ failFast \in BOOLEAN
  /\ pc \in {"next", "pre", "materialize", "parse", "send", "retry", "wait",
             "assert", "post", "ended"}
  /\ requestIdx \in 1 .. N + 1 /\ cur \in 0 .. N
  /\ status \in {"Success", "Failure", "Error", "Aborted"}
  /\ reqStatus \in [Requests -> Statuses]
  /\ failed \in [Requests -> BOOLEAN]
  /\ retries \in 0 .. MaxRetries + 1
  /\ cache \in BOOLEAN /\ skip \in BOOLEAN
  /\ why \in {"running", "end", "context", "error", "failfast", "panic"}

Init ==
  /\ ctx = "live" /\ runCanceled = FALSE
  /\ failFast \in BOOLEAN
  /\ pc = "next" /\ requestIdx = 1 /\ cur = 0
  /\ status = "Success"
  /\ reqStatus = [i \in Requests |-> "Unset"]
  /\ failed = [i \in Requests |-> FALSE]
  /\ retries = 0 /\ cache = FALSE /\ skip = FALSE
  /\ why = "running"

-----------------------------------------------------------------------------
(* The context.  Its error is the first one: a cancellation after the timeout *)
(* leaves it DeadlineExceeded.                                                *)
Expire ==
  /\ pc # "ended"
  /\ ctx = "live"
  /\ ctx' = "expired"
  /\ UNCHANGED <<runCanceled, failFast, pc, flow, status, reqStatus, failed, request, why>>

Cancel ==
  /\ ~runCanceled
  /\ runCanceled' = TRUE
  /\ ctx' = IF ctx = "live" THEN "canceled" ELSE ctx
  /\ UNCHANGED <<failFast, pc, flow, status, reqStatus, failed, request, why>>

(* Mutant: only an interrupt is noticed, not the timeout. *)
DeadIfCanceled == ctx = "canceled"

(* ctx.Err() # nil *)
Dead == ctx # "live"

(* What handleError makes of ctx.Err(). *)
ContextStatus == IF ctx = "canceled" THEN "Aborted" ELSE "Error"

Has(hook) == hook \in Hooks[cur]

(* The next request after a script: the one it would have been, one chosen by *)
(* setNextRequest (an index out of range is ignored), or none after           *)
(* finishScenario.                                                            *)
ScriptJumps == requestIdx' \in 1 .. N + 1

(* Mutant: an error is noted on the request only. *)
StopRequestOnly(s, reason) ==
  /\ pc' = "ended" /\ why' = reason
  /\ reqStatus' = [reqStatus EXCEPT ![cur] = s]
  /\ UNCHANGED <<contexts, flow, status, failed, request>>

(* Mutant: a scenario that has failed stays a failure. *)
StopKeepsFailure(s, reason) ==
  /\ pc' = "ended" /\ why' = reason
  /\ status' = IF status = "Failure" THEN status ELSE s
  /\ reqStatus' = [reqStatus EXCEPT ![cur] = s]
  /\ UNCHANGED <<contexts, flow, failed, request>>

(* handleError and the return false that follows: request and scenario get    *)
(* the status, and the chain ends.                                            *)
Stop(s, reason) ==
  /\ pc' = "ended" /\ why' = reason
  /\ status' = s
  /\ reqStatus' = [reqStatus EXCEPT ![cur] = s]
  /\ UNCHANGED <<contexts, flow, failed, request>>

(* A script that fails, or is stopped by its own timeout, or finds the        *)
(* context ended: gopher-lua reports all of them as a script error.           *)
ScriptStops == Stop("Error", IF Dead THEN "context" ELSE "error")

-----------------------------------------------------------------------------
(* Mutant: the request in hand is not marked when the chain is cut. *)
StartRequestUnmarked ==
  /\ pc = "next" /\ requestIdx <= N
  /\ cur' = requestIdx /\ requestIdx' = requestIdx + 1
  /\ retries' = 0 /\ cache' = FALSE /\ skip' = FALSE
  /\ IF Dead
     THEN /\ status' = ContextStatus
          /\ pc' = "ended" /\ why' = "context"
          /\ UNCHANGED reqStatus
     ELSE /\ reqStatus' = [reqStatus EXCEPT ![requestIdx] = "Unset"]
          /\ pc' = "pre"
          /\ UNCHANGED <<status, why>>
  /\ UNCHANGED <<contexts, failed>>

(* The loop of processScenario takes the next request, and processRequest     *)
(* looks at the context first.                                                *)
StartRequest ==
  /\ pc = "next" /\ requestIdx <= N
  /\ cur' = requestIdx /\ requestIdx' = requestIdx + 1
  /\ retries' = 0 /\ cache' = FALSE /\ skip' = FALSE
  /\ IF Dead
     THEN /\ status' = ContextStatus
          /\ reqStatus' = [reqStatus EXCEPT ![requestIdx] = ContextStatus]
          /\ pc' = "ended" /\ why' = "context"
     ELSE /\ reqStatus' = [reqStatus EXCEPT ![requestIdx] = "Unset"]
          /\ pc' = "pre"
          /\ UNCHANGED <<status, why>>
  /\ UNCHANGED <<contexts, failed>>

EndChain ==
  /\ pc = "next" /\ requestIdx > N
  /\ pc' = "ended" /\ why' = "end"
  /\ UNCHANGED <<contexts, flow, status, reqStatus, failed, request>>

(* Hooks that are absent are passed over without a look at the context.       *)
Pass(hook, at, to) ==
  /\ pc = at /\ ~Has(hook)
  /\ pc' = to
  /\ UNCHANGED <<contexts, flow, status, reqStatus, failed, request, why>>

Fails(hook, at) == pc = at /\ Has(hook) /\ ScriptStops

(* runPre: the script may turn the cache on, and may skip the request: then   *)
(* its other hooks are passed over and the chain goes on.                     *)
RunPre ==
  /\ pc = "pre" /\ Has("pre") /\ ~Dead
  /\ ScriptJumps
  /\ cache' \in BOOLEAN /\ skip' \in BOOLEAN
  /\ IF skip'
     THEN pc' = "next" /\ reqStatus' = [reqStatus EXCEPT ![cur] = "Skipped"]
     ELSE pc' = "materialize" /\ UNCHANGED reqStatus
  /\ UNCHANGED <<contexts, cur, status, failed, retries, why>>

(* materialize writes the text out and runs the scripts inside it.  It looks  *)
(* at the context before every part of the text: a context that ended is      *)
(* reported by an error of its own, so the request is an Error, not Aborted.  *)
Materialize ==
  /\ pc = "materialize" /\ ~Dead
  /\ IF Has("inline") THEN ScriptJumps ELSE UNCHANGED requestIdx
  /\ pc' = "parse"
  /\ UNCHANGED <<contexts, cur, status, reqStatus, failed, request, why>>

MaterializeFails == pc = "materialize" /\ ScriptStops

(* parse looks at the context between the parts of the request. *)
ParseRequest ==
  /\ pc = "parse" /\ ~Dead
  /\ pc' = "send"
  /\ UNCHANGED <<contexts, flow, status, reqStatus, failed, request, why>>

(* A context that ended shows as itself or, in the request line, as the       *)
(* parser's own error.                                                        *)
ParseFails ==
  /\ pc = "parse"
  /\ \/ Stop("Error", IF Dead THEN "context" ELSE "error")
     \/ Dead /\ Stop(ContextStatus, "context")

(* Mutant: the number of retries is not limited. *)
SendUnlimited ==
  /\ pc = "send"
  /\ Dead => cache
  /\ retries' = retries + 1
  /\ pc' = "retry"
  /\ UNCHANGED <<contexts, flow, status, reqStatus, failed, cache, skip, why>>

TooManyRetries ==
  /\ pc = "send" /\ retries > MaxRetries
  /\ Stop("Error", "error")

(* A response arrives.  A request from the cache may be answered by a stored  *)
(* response, or by a flight of another worker, after its context ended.       *)
Send ==
  /\ pc = "send" /\ retries <= MaxRetries
  /\ Dead => cache
  /\ retries' = retries + 1
  /\ pc' = "retry"
  /\ UNCHANGED <<contexts, flow, status, reqStatus, failed, cache, skip, why>>

(* Mutant: every failed send is taken for an interrupt. *)
SendFailsAborted ==
  /\ pc = "send" /\ retries <= MaxRetries
  /\ Stop("Aborted", "error")

(* send or sendCached returns an error: the transport's, the file's or, when  *)
(* the context ended, its own.  The flight of a cached request runs under the *)
(* run's context and may come back canceled.                                  *)
SendFails ==
  /\ pc = "send" /\ retries <= MaxRetries
  /\ \/ Stop("Error", "error")
     \/ Dead /\ Stop(ContextStatus, "context")
     \/ cache /\ runCanceled /\ Stop("Aborted", "context")

(* runRetry: a negative number ends the loop, zero sends at once, a positive  *)
(* one waits.                                                                 *)
RunRetry ==
  /\ pc = "retry" /\ Has("retry") /\ ~Dead
  /\ ScriptJumps
  /\ pc' \in {"assert", "send", "wait"}
  /\ UNCHANGED <<contexts, cur, status, reqStatus, failed, request, why>>

(* The select of the wait: the timer may win over a context that has ended.   *)
RetryTimer ==
  /\ pc = "wait"
  /\ pc' = "send"
  /\ UNCHANGED <<contexts, flow, status, reqStatus, failed, request, why>>

RetryInterrupted ==
  /\ pc = "wait" /\ Dead
  /\ Stop(ContextStatus, "context")

(* runAssert without a failed assertion. *)
AssertPasses ==
  /\ pc = "assert" /\ Has("assert") /\ ~Dead
  /\ ScriptJumps
  /\ pc' = "post"
  /\ UNCHANGED <<contexts, cur, status, reqStatus, failed, request, why>>

(* Mutant: failing fast ends the chain before the scenario is marked. *)
AssertFailsEarly ==
  /\ pc = "assert" /\ Has("assert") /\ ~Dead
  /\ ScriptJumps
  /\ reqStatus' = [reqStatus EXCEPT ![cur] = "Failure"]
  /\ failed' = [failed EXCEPT ![cur] = TRUE]
  /\ IF failFast THEN pc' = "ended" /\ why' = "failfast" /\ UNCHANGED status
                 ELSE pc' = "post" /\ status' = "Failure" /\ UNCHANGED why
  /\ UNCHANGED <<contexts, cur, request>>

(* runAssert with failed assertions, and what processRequest does with them.  *)
AssertFails ==
  /\ pc = "assert" /\ Has("assert") /\ ~Dead
  /\ ScriptJumps
  /\ status' = "Failure"
  /\ reqStatus' = [reqStatus EXCEPT ![cur] = "Failure"]
  /\ failed' = [failed EXCEPT ![cur] = TRUE]
  /\ IF failFast THEN pc' = "ended" /\ why' = "failfast"
                 ELSE pc' = "post" /\ UNCHANGED why
  /\ UNCHANGED <<contexts, cur, request>>

(* finalize: a request nothing was noted of has succeeded. *)
Finalized == [reqStatus EXCEPT ![cur] = IF @ = "Unset" THEN "Success" ELSE @]

(* runPost, or no POST script, and the end of the request. *)
FinishRequest ==
  /\ pc = "post"
  /\ IF Has("post") THEN ~Dead /\ ScriptJumps ELSE UNCHANGED requestIdx
  /\ reqStatus' = Finalized
  /\ pc' = "next"
  /\ UNCHANGED <<contexts, cur, status, failed, request, why>>

(* A panic anywhere in processRequest: the deferred finalize runs, and then   *)
(* the recover of processScenario.                                            *)
Panic ==
  /\ pc \notin {"next", "ended"}
  /\ reqStatus' = Finalized
  /\ status' = "Error"
  /\ pc' = "ended" /\ why' = "panic"
  /\ UNCHANGED <<contexts, flow, failed, request>>

-----------------------------------------------------------------------------
Passes ==
  \/ Pass("pre", "pre", "materialize") \/ Pass("retry", "retry", "assert")
  \/ Pass("assert", "assert", "post")

ScriptFails ==
  \/ Fails("pre", "pre") \/ Fails("retry", "retry")
  \/ Fails("assert", "assert") \/ Fails("post", "post")

Step ==
  \/ StartRequest \/ EndChain
  \/ Passes \/ ScriptFails
  \/ RunPre \/ Materialize \/ MaterializeFails \/ ParseRequest \/ ParseFails
  \/ TooManyRetries \/ Send \/ SendFails
  \/ RunRetry \/ RetryTimer \/ RetryInterrupted
  \/ AssertPasses \/ AssertFails \/ FinishRequest

Ended == pc = "ended" /\ UNCHANGED vars

Next == Expire \/ Cancel \/ Step \/ Panic \/ Ended

(* The worker goes on, and the timer of context.WithTimeout fires.  Sends and *)
(* scripts end: both have timeouts of their own.                              *)
Fairness == WF_vars(Step) /\ WF_vars(Expire)

Spec == Init /\ [][Next]_vars /\ Fairness

-----------------------------------------------------------------------------
(* A request that failed, errored or was aborted, or that has failed          *)
(* assertions on record from an earlier pass, leaves the scenario without the *)
(* status Success: whatever a script does to the chain afterwards, jumping    *)
(* back over the request included.  ResultReporter and report counts of       *)
(* scenarios depend on it.                                                    *)
NoSuccessOverFailure ==
  \A i \in Requests :
    reqStatus[i] \in {"Failure", "Error", "Aborted"} \/ failed[i] => status # "Success"

(* A scenario that is not a success shows on some request what happened, or a *)
(* panic ended it: the report never says FAILED with nothing to look at.      *)
ReasonIsOnARequest ==
  pc = "ended" /\ status # "Success" /\ why # "panic" =>
    \E i \in Requests : reqStatus[i] = status \/ (status = "Failure" /\ failed[i])

(* Aborted is said of scenarios only when the run was interrupted. *)
AbortedOnlyIfInterrupted == status = "Aborted" => runCanceled

(* A success came to the end of its chain: nothing cut it short. *)
SuccessReachedTheEnd == pc = "ended" /\ status = "Success" => why = "end"

(* An error or an interrupt is of the last request the chain came to, and of  *)
(* no other: jumps leave no earlier one behind.  The scenario ends with it    *)
(* and has its status, even if an assertion failed before (handleError and    *)
(* the status of processScenario, which processRequest returns); without this *)
(* an interrupted scenario would be counted as a failed one.                  *)
ErrorOutranksFailure ==
  \A i \in Requests :
    reqStatus[i] \in {"Error", "Aborted"} =>
      pc = "ended" /\ i = cur /\ status = reqStatus[i]

(* Every scenario ends, the one whose scripts jump in circles, retry for ever *)
(* or find everything in the cache included.                                  *)
Terminates == <>(pc = "ended")

=============================================================================
