-------------------------- MODULE RequestCacheProof --------------------------
(* Proofs about RequestCache, for any number of workers, requests, keys and   *)
(* response bodies.                                                           *)
EXTENDS RequestCache, TLAPS

(* The parts of the inductive invariant beyond TypeOK, NoFetchOnceStored and  *)
(* NoLostWaiter.                                                              *)
WorkerInv ==
  \A w \in Workers :
    /\ pc[w] = "idle" <=> req[w] = None
    /\ inbox[w] # None => pc[w] = "wait"
    /\ inbox[w] \in Answers => cache[KeyFor(w)] = inbox[w]

FlightInv ==
  \A k \in Keys :
    /\ phase[k] # "none" => leader[k] \in Requests /\ KeyOf[leader[k]] = k
    /\ phase[k] = "finished" => result[k] # None
    /\ result[k] \in Answers => cache[k] = result[k]

WaiterInv ==
  \A k \in Keys : \A w \in waiters[k] :
    pc[w] = "wait" /\ KeyFor(w) = k /\ inbox[w] = None

CacheInv == \A k \in Keys : cache[k] # None => KeyOf[cache[k].for] = k

ServedInv == \A s \in served : cache[KeyOf[s.req]] = s.answer

IInv ==
  /\ TypeOK
  /\ NoFetchOnceStored /\ NoLostWaiter
  /\ WorkerInv /\ FlightInv /\ WaiterInv /\ CacheInv /\ ServedInv

-----------------------------------------------------------------------------
LEMMA InitIInv == Init => IInv
  BY KeyAssumption, ValueAssumption
  DEF Init, IInv, TypeOK, NoFetchOnceStored, NoLostWaiter, WorkerInv, FlightInv,
      WaiterInv, CacheInv, ServedInv, Results, Answers

(* One step per action. *)
LEMMA StepIInv == IInv /\ [Next]_vars => IInv'
<1> SUFFICES ASSUME IInv, [Next]_vars PROVE IInv'
  OBVIOUS
<1> USE KeyAssumption, ValueAssumption
    DEF IInv, TypeOK, NoFetchOnceStored, NoLostWaiter, WorkerInv, FlightInv,
        WaiterInv, CacheInv, ServedInv, KeyFor, Results, Answers, Fetching,
        flightVars, workerVars
<1>1. CASE \E w \in Workers, r \in Requests : Begin(w, r)
  BY <1>1 DEF Begin
<1>2. CASE \E w \in Workers : LookupHit(w)
  BY <1>2 DEF LookupHit, Return
<1>3. CASE \E w \in Workers : LookupMiss(w)
  BY <1>3 DEF LookupMiss
<1>4. CASE \E w \in Workers : StartFlight(w)
  BY <1>4 DEF StartFlight
<1>5. CASE \E w \in Workers : JoinFlight(w)
  BY <1>5 DEF JoinFlight
<1>6. CASE \E w \in Workers : Receive(w)
  BY <1>6 DEF Receive, Return
<1>7. CASE \E w \in Workers : Abandon(w)
  BY <1>7 DEF Abandon, Return
<1>8. CASE \E k \in Keys : FlightHit(k)
  BY <1>8 DEF FlightHit, FinishFlight
<1>9. CASE \E k \in Keys : FlightMiss(k)
  BY <1>9 DEF FlightMiss
<1>10. CASE \E k \in Keys : OpenBody(k)
  BY <1>10 DEF OpenBody
<1>11. CASE \E k \in Keys : Send(k)
  BY <1>11 DEF Send
<1>12. CASE \E k \in Keys, body \in Bodies \cup {Broken} : Store(k, body)
  BY <1>12 DEF Store, FinishFlight
<1>13. CASE \E k \in Keys : FailFlight(k)
  BY <1>13 DEF FailFlight, FinishFlight
<1>14. CASE \E k \in Keys : Deliver(k)
  BY <1>14 DEF Deliver
<1>15. CASE UNCHANGED vars
  BY <1>15 DEF vars
<1> QED
  BY <1>1, <1>2, <1>3, <1>4, <1>5, <1>6, <1>7, <1>8, <1>9, <1>10, <1>11, <1>12, <1>13, <1>14, <1>15
  DEF Next, WorkerStep, Join, FlightStep

THEOREM Invariance == Spec => []IInv
  BY InitIInv, StepIInv, PTL DEF Spec

-----------------------------------------------------------------------------
(* Every variable keeps its type.                                             *)
THEOREM TypeCorrect == Spec => []TypeOK
  BY Invariance, PTL DEF IInv

(* All the answers ever returned for a key are the same answer: the served    *)
(* ones are what the cache holds (ServedInv).                                 *)
THEOREM OneAnswer == Spec => []OneAnswerPerKey
<1>1. IInv => OneAnswerPerKey
  BY DEF IInv, ServedInv, OneAnswerPerKey
<1> QED
  BY <1>1, Invariance, PTL

(* Where a key tells different requests apart, an answer is always the answer *)
(* to the request it is given for.  Without the assumption this fails: see    *)
(* MCRequestCacheAmbiguous.                                                   *)
THEOREM OwnAnswers ==
  ASSUME \A r, s \in Requests : KeyOf[r] = KeyOf[s] => DataOf[r] = DataOf[s]
  PROVE  Spec => []OwnAnswer
<1>1. IInv => OwnAnswer
  BY KeyAssumption, ValueAssumption
  DEF IInv, TypeOK, ServedInv, CacheInv, OwnAnswer, Answers, Results
<1> QED
  BY <1>1, Invariance, PTL

(* Nothing is fetched for a key that has a stored response.                   *)
THEOREM NoFetch == Spec => []NoFetchOnceStored
  BY Invariance, PTL DEF IInv

(* No waiting worker is forgotten by its flight.                              *)
THEOREM NoLost == Spec => []NoLostWaiter
  BY Invariance, PTL DEF IInv

(* A stored entry stays: Store is the one action that writes the cache, and   *)
(* it runs when its flight is reading, which NoFetchOnceStored excludes once   *)
(* there is an entry.                                                         *)
LEMMA StepStored ==
  ASSUME IInv, [Next]_vars, NEW k \in Keys, cache[k] # None
  PROVE  cache'[k] = cache[k]
<1>1. CASE \E l \in Keys, body \in Bodies \cup {Broken} : Store(l, body)
  BY <1>1 DEF Store, IInv, TypeOK, NoFetchOnceStored, Fetching
<1>2. CASE UNCHANGED cache
  BY <1>2
<1> QED
  BY <1>1, <1>2 DEF Next, vars, WorkerStep, FlightStep, Begin, LookupHit, LookupMiss,
     Join, StartFlight, JoinFlight, Receive, Abandon, FlightHit, FlightMiss, OpenBody,
     Send, FailFlight, Deliver

THEOREM Stored == Spec => StoredForGood
<1>1. IInv /\ [Next]_vars => [\A k \in Keys : cache[k] # None => cache'[k] = cache[k]]_vars
  BY StepStored
<1> QED
  BY <1>1, Invariance, PTL DEF Spec, StoredForGood

-----------------------------------------------------------------------------
(* The safety part of the implementation of AnswerOnce: joining, looking up   *)
(* and flying are stutters, the first store of a key settles it, and what a    *)
(* worker takes from its channel is what the key was settled with (WorkerInv). *)
LEMMA InitOnce == Init => Once!Init
  BY DEF Init, Once!Init

LEMMA StepOnce == IInv /\ [Next]_vars => [Once!Next]_Once!vars
<1> SUFFICES ASSUME IInv, [Next]_vars PROVE [Once!Next]_Once!vars
  OBVIOUS
<1> USE KeyAssumption, ValueAssumption DEF IInv, TypeOK, KeyFor, Results, Once!vars
<1>1. CASE \E w \in Workers, r \in Requests : Begin(w, r)
  <2> PICK w \in Workers, r \in Requests : Begin(w, r)
    BY <1>1
  <2>1. Once!Ask(w, r)
    BY DEF Begin, Once!Ask, WorkerInv
  <2> QED
    BY <2>1 DEF Once!Next
<1>2. CASE \E w \in Workers : LookupHit(w)
  <2> PICK w \in Workers : LookupHit(w)
    BY <1>2
  <2>1. Once!Give(w)
    BY DEF LookupHit, Return, Once!Give, WorkerInv
  <2> QED
    BY <2>1 DEF Once!Next, Once!Reply
<1>3. CASE \E w \in Workers : Receive(w)
  <2> PICK w \in Workers : Receive(w)
    BY <1>3
  <2>1. CASE inbox[w] \in Answers
    <3>1. cache[KeyOf[req[w]]] = inbox[w] /\ req[w] # None
      BY <2>1 DEF Receive, WorkerInv
    <3>2. Once!Give(w)
      BY <2>1, <3>1 DEF Receive, Return, Once!Give
    <3> QED
      BY <3>2 DEF Once!Next, Once!Reply
  <2>2. CASE inbox[w] \notin Answers
    <3>1. Once!Refuse(w)
      BY <2>2 DEF Receive, Return, Once!Refuse, WorkerInv
    <3> QED
      BY <3>1 DEF Once!Next, Once!Reply
  <2> QED
    BY <2>1, <2>2
<1>4. CASE \E w \in Workers : Abandon(w)
  <2> PICK w \in Workers : Abandon(w)
    BY <1>4
  <2>1. Once!Refuse(w)
    BY DEF Abandon, Return, Once!Refuse, WorkerInv
  <2> QED
    BY <2>1 DEF Once!Next, Once!Reply
<1>5. CASE \E k \in Keys, body \in Bodies \cup {Broken} : Store(k, body)
  <2> PICK k \in Keys, body \in Bodies \cup {Broken} : Store(k, body)
    BY <1>5
  <2> DEFINE a == [for |-> leader[k], body |-> body]
  <2>1. a \in Once!Answers /\ KeyOf[a.for] = k
    BY DEF Store, FlightInv, Once!Answers
  <2>2. Once!Settle(k, a)
    BY <2>1 DEF Store, FlightInv, NoFetchOnceStored, Fetching, workerVars, Once!Settle
  <2> QED
    BY <2>1, <2>2 DEF Once!Next
<1>6. CASE UNCHANGED <<cache, req, served>>
  BY <1>6
<1> QED
  BY <1>1, <1>2, <1>3, <1>4, <1>5, <1>6
  DEF Next, vars, WorkerStep, FlightStep, flightVars, workerVars, LookupMiss, Join,
      StartFlight, JoinFlight, FlightHit, FlightMiss, OpenBody, Send, FailFlight, Deliver

(* Every behaviour of the cache is a behaviour of AnswerOnce (its fairness is *)
(* left to the model checker).                                                *)
THEOREM ImplementsSafely == Spec => Once!Init /\ [][Once!Next]_Once!vars
  BY InitOnce, StepOnce, Invariance, PTL DEF Spec
=============================================================================
