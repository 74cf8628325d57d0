--------------------------- MODULE CodeCachesProof ---------------------------
(* Proofs about CodeCaches, for any number of workers, scripts, modules and   *)
(* contents of files.                                                         *)
EXTENDS CodeCaches, TLAPS

(* A flight reads only while its key has nothing.  The second lookup makes it *)
(* so, and it stays so because no two flights of a key overlap.               *)
NoReadOnceStored == \A k \in Keys : phase[k] = "reading" => cache[k] = None

WorkerInv ==
  \A w \in Workers :
    /\ key[w] # None <=> pc[w] \in {"lookup", "join", "wait"}
    /\ inbox[w] # None => pc[w] = "wait"
    /\ inbox[w] \in Answers => cache[key[w]] = inbox[w]

FlightInv ==
  \A k \in Keys :
    /\ phase[k] = "finished" => result[k] # None
    /\ result[k] \in Answers => cache[k] = result[k]

WaiterInv ==
  \A k \in Keys : \A w \in waiters[k] :
    pc[w] = "wait" /\ key[w] = k /\ inbox[w] = None

CacheInv == \A k \in Keys : cache[k] # None => cache[k].for = k

ServedInv == \A s \in served : cache[s.req] = s.answer

IInv ==
  /\ TypeOK
  /\ NoReadOnceStored /\ NoLostWaiter
  /\ WorkerInv /\ FlightInv /\ WaiterInv /\ CacheInv /\ ServedInv

-----------------------------------------------------------------------------
LEMMA InitIInv == Init => IInv
  BY KeyAssumption, ValueAssumption
  DEF Init, IInv, TypeOK, NoReadOnceStored, NoLostWaiter, WorkerInv, FlightInv,
      WaiterInv, CacheInv, ServedInv, Results, Answers

(* One step per action. *)
LEMMA StepIInv == IInv /\ [Next]_vars => IInv'
<1> SUFFICES ASSUME IInv, [Next]_vars PROVE IInv'
  OBVIOUS
<1> USE KeyAssumption, ValueAssumption
    DEF IInv, TypeOK, NoReadOnceStored, NoLostWaiter, WorkerInv, FlightInv,
        WaiterInv, CacheInv, ServedInv, Results, Answers, flightVars, workerVars
<1>1. CASE \E w \in Workers, s \in Scripts : Compile(w, s)
  BY <1>1 DEF Compile, Ask, Keys
<1>2. CASE \E w \in Workers, m \in Modules : Require(w, m)
  BY <1>2 DEF Require, Ask, Keys
<1>3. CASE \E w \in Workers : EndScript(w)
  BY <1>3 DEF EndScript
<1>4. CASE \E w \in Workers : LookupHit(w)
  BY <1>4 DEF LookupHit, Return
<1>5. CASE \E w \in Workers : LookupMiss(w)
  BY <1>5 DEF LookupMiss
<1>6. CASE \E w \in Workers : Join(w)
  BY <1>6 DEF Join
<1>7. CASE \E w \in Workers : Receive(w)
  BY <1>7 DEF Receive, Return
<1>8. CASE \E w \in Workers : Abandon(w)
  BY <1>8 DEF Abandon
<1>9. CASE \E k \in Keys : FlightHit(k)
  BY <1>9 DEF FlightHit, FinishFlight
<1>10. CASE \E k \in Keys : FlightMiss(k)
  BY <1>10 DEF FlightMiss
<1>11. CASE \E k \in Keys, body \in Codes \cup {Broken} : phase[k] = "reading" /\ Keep(k, body)
  BY <1>11 DEF Keep, FinishFlight
<1>12. CASE \E k \in Keys : GiveUp(k)
  BY <1>12 DEF GiveUp, FinishFlight
<1>13. CASE \E k \in Keys : Deliver(k)
  BY <1>13 DEF Deliver
<1>14. CASE UNCHANGED vars
  BY <1>14 DEF vars
<1> QED
  BY <1>1, <1>2, <1>3, <1>4, <1>5, <1>6, <1>7, <1>8, <1>9, <1>10, <1>11, <1>12, <1>13, <1>14
  DEF Next, WorkerStep, FlightStep, Build, LoadFails

THEOREM Invariance == Spec => []IInv
  BY InitIInv, StepIInv, PTL DEF Spec

-----------------------------------------------------------------------------
(* Every variable of the two caches keeps its type.                           *)
THEOREM TypeCorrect == Spec => []TypeOK
  BY Invariance, PTL DEF IInv

(* All workers are given the same code, or the same error, for a key: what    *)
(* was served is what the cache holds, and is held for good.                  *)
THEOREM OneCode == Spec => []OneCodePerKey
<1>1. IInv => OneCodePerKey
  BY DEF IInv, ServedInv, OneCodePerKey
<1> QED
  BY <1>1, Invariance, PTL

(* No waiting worker is forgotten by its flight, not even by one that panics. *)
THEOREM NoLost == Spec => []NoLostWaiter
  BY Invariance, PTL DEF IInv

-----------------------------------------------------------------------------
(* The safety part of the implementation of AnswerOnce.                       *)
LEMMA InitOnce == Init => Once!Init
  BY DEF Init, Once!Init

LEMMA StepOnce == IInv /\ [Next]_vars => [Once!Next]_Once!vars
<1> SUFFICES ASSUME IInv, [Next]_vars PROVE [Once!Next]_Once!vars
  OBVIOUS
<1> USE KeyAssumption, ValueAssumption DEF IInv, TypeOK, Results, Once!vars
<1>1. CASE \E w \in Workers, k \in Keys : pc[w] \in {"idle", "running"} /\ Ask(w, k)
  <2> PICK w \in Workers, k \in Keys : pc[w] \in {"idle", "running"} /\ Ask(w, k)
    BY <1>1
  <2>1. Once!Ask(w, k)
    BY DEF Ask, Once!Ask, WorkerInv
  <2> QED
    BY <2>1 DEF Once!Next
<1>2. CASE \E w \in Workers : LookupHit(w)
  <2> PICK w \in Workers : LookupHit(w)
    BY <1>2
  <2>1. key[w] \in Keys /\ cache[key[w]] \in Answers
    BY DEF LookupHit, WorkerInv
  <2>2. Once!Give(w)
    BY <2>1 DEF LookupHit, Return, Once!Give
  <2> QED
    BY <2>2 DEF Once!Next, Once!Reply
<1>3. CASE \E w \in Workers : Receive(w)
  <2> PICK w \in Workers : Receive(w)
    BY <1>3
  <2>1. key[w] \in Keys
    BY DEF Receive, WorkerInv
  <2>2. CASE inbox[w] \in Answers
    <3>1. cache[key[w]] = inbox[w]
      BY <2>2 DEF WorkerInv
    <3>2. Once!Give(w)
      BY <2>1, <2>2, <3>1 DEF Receive, Return, Once!Give
    <3> QED
      BY <3>2 DEF Once!Next, Once!Reply
  <2>3. CASE inbox[w] \notin Answers
    <3>1. Once!Refuse(w)
      BY <2>1, <2>3 DEF Receive, Return, Once!Refuse
    <3> QED
      BY <3>1 DEF Once!Next, Once!Reply
  <2> QED
    BY <2>2, <2>3
<1>4. CASE \E w \in Workers : Abandon(w)
  <2> PICK w \in Workers : Abandon(w)
    BY <1>4
  <2>1. Once!Refuse(w)
    BY DEF Abandon, Once!Refuse, WorkerInv
  <2> QED
    BY <2>1 DEF Once!Next, Once!Reply
<1>5. CASE \E k \in Keys, body \in Codes \cup {Broken} : phase[k] = "reading" /\ Keep(k, body)
  <2> PICK k \in Keys, body \in Codes \cup {Broken} : phase[k] = "reading" /\ Keep(k, body)
    BY <1>5
  <2> DEFINE a == [for |-> k, body |-> body]
  <2>1. a \in Once!Answers
    BY DEF Once!Answers
  <2>2. Once!Settle(k, a)
    BY <2>1 DEF Keep, FinishFlight, NoReadOnceStored, workerVars, Once!Settle
  <2> QED
    BY <2>1, <2>2 DEF Once!Next
<1>6. CASE UNCHANGED <<cache, key, served>>
  BY <1>6
<1> QED
  BY <1>1, <1>2, <1>3, <1>4, <1>5, <1>6
  DEF Next, vars, WorkerStep, FlightStep, Compile, Require, Keys, EndScript, flightVars,
      workerVars, LookupMiss, Join, FlightHit, FinishFlight, FlightMiss, Build, LoadFails,
      GiveUp, Deliver

(* Every behaviour of the two caches is a behaviour of AnswerOnce (its        *)
(* fairness is left to the model checker).                                    *)
THEOREM ImplementsSafely == Spec => Once!Init /\ [][Once!Next]_Once!vars
  BY InitOnce, StepOnce, Invariance, PTL DEF Spec
=============================================================================
