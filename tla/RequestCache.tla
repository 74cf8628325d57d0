---------------------------- MODULE RequestCache ----------------------------
(* The cache of HTTP responses shared by all workers of a run:               *)
(* internal/runner/cached-request-processor.go, with its caller sendCached    *)
(* of internal/runner/request-processor.go.                                   *)
(*                                                                            *)
(* A worker looks its key up without a lock (sync.Map), and on a miss joins   *)
(* the singleflight group: the first worker of a key starts a flight, later   *)
(* ones wait for it.  The flight runs in a goroutine of its own, under the    *)
(* context of the run and not of the worker, so it goes on when every worker  *)
(* that waits for it has given up.  Between the first lookup and the join     *)
(* another flight of the same key may start, store and end: the flight looks  *)
(* the key up again before it sends anything.                                 *)
(*                                                                            *)
(* A response is abstracted to the request it was made for and to one of      *)
(* Bodies, chosen by the server; two sends may get different bodies.          *)
EXTENDS FiniteSets

CONSTANTS
  Workers,   \* goroutines of the runner
  Requests,  \* the attempts that go through sendCached
  Keys,      \* values of actualKey
  KeyOf,     \* [Requests -> Keys]
  DataOf,    \* [Requests -> what the request consists of, whoever makes it]
  Bodies,    \* what a server can answer
  Broken,    \* makeIntermediate's error: the response could not be read or saved
  Refused,   \* an error the cache does not keep (body not opened, send failed, panic)
  None       \* no entry, no result

(* What Store puts under a key: the pair (res, err) of makeIntermediate.      *)
Answers == [for : Requests, body : Bodies \cup {Broken}]
Results == Answers \cup {Refused}

ASSUME KeyAssumption   == KeyOf \in [Requests -> Keys]
ASSUME ValueAssumption ==
  /\ None \notin Results
  /\ None \notin Requests
  /\ Refused \notin Answers

VARIABLES
  cache,     \* [Keys -> answer or None]: sp.cache
  phase,     \* [Keys -> what the flight of the key is about to do, or "none"]
  leader,    \* [Keys -> the request the flight of the key was started with]
  waiters,   \* [Keys -> workers whose channel the flight will send to]
  result,    \* [Keys -> what the flight returned, None while it runs]
  pc,        \* [Workers -> where the worker is in sendCached]
  req,       \* [Workers -> the request it is sending, None when idle]
  inbox,     \* [Workers -> what is in the channel DoChan gave it]
  served     \* history: [req, answer] for every answer returned to a worker

flightVars == <<phase, leader, waiters, result>>
workerVars == <<pc, req, inbox>>
vars == <<cache, flightVars, workerVars, served>>

Fetching == {"opening", "sending", "reading"}

TypeOK ==
  /\ cache \in [Keys -> Answers \cup {None}]
  /\ phase \in [Keys -> {"none", "started", "finished"} \cup Fetching]
  /\ leader \in [Keys -> Requests \cup {None}]
  /\ waiters \in [Keys -> SUBSET Workers]
  /\ result \in [Keys -> Results \cup {None}]
  /\ pc \in [Workers -> {"idle", "lookup", "join", "wait"}]
  /\ req \in [Workers -> Requests \cup {None}]
  /\ inbox \in [Workers -> Results \cup {None}]
  /\ served \subseteq [req : Requests, answer : Answers]

Init ==
  /\ cache = [k \in Keys |-> None]
  /\ phase = [k \in Keys |-> "none"]
  /\ leader = [k \in Keys |-> None]
  /\ waiters = [k \in Keys |-> {}]
  /\ result = [k \in Keys |-> None]
  /\ pc = [w \in Workers |-> "idle"]
  /\ req = [w \in Workers |-> None]
  /\ inbox = [w \in Workers |-> None]
  /\ served = {}

(* The key the worker's request has (actualKey). *)
KeyFor(w) == KeyOf[req[w]]

-----------------------------------------------------------------------------
(* The worker: sendCached.                                                    *)

Return(w) ==
  /\ pc' = [pc EXCEPT ![w] = "idle"]
  /\ req' = [req EXCEPT ![w] = None]

(* The worker enters sendCached with some request and computes its key.       *)
Begin(w, r) ==
  /\ pc[w] = "idle"
  /\ pc' = [pc EXCEPT ![w] = "lookup"]
  /\ req' = [req EXCEPT ![w] = r]
  /\ UNCHANGED <<cache, flightVars, inbox, served>>

LookupHit(w) ==
  /\ pc[w] = "lookup"
  /\ cache[KeyFor(w)] # None
  /\ served' = served \cup {[req |-> req[w], answer |-> cache[KeyFor(w)]]}
  /\ Return(w)
  /\ UNCHANGED <<cache, flightVars, inbox>>

LookupMiss(w) ==
  /\ pc[w] = "lookup"
  /\ cache[KeyFor(w)] = None
  /\ pc' = [pc EXCEPT ![w] = "join"]
  /\ UNCHANGED <<cache, flightVars, req, inbox, served>>

(* DoChan with no call of the key under way: a new goroutine runs the flight. *)
StartFlight(w) ==
  /\ pc[w] = "join"
  /\ phase[KeyFor(w)] = "none"
  /\ phase' = [phase EXCEPT ![KeyFor(w)] = "started"]
  /\ leader' = [leader EXCEPT ![KeyFor(w)] = req[w]]
  /\ waiters' = [waiters EXCEPT ![KeyFor(w)] = {w}]
  /\ pc' = [pc EXCEPT ![w] = "wait"]
  /\ UNCHANGED <<cache, result, req, inbox, served>>

(* DoChan with a call of the key under way: one more channel to send to.      *)
JoinFlight(w) ==
  /\ pc[w] = "join"
  /\ phase[KeyFor(w)] # "none"
  /\ waiters' = [waiters EXCEPT ![KeyFor(w)] = @ \cup {w}]
  /\ pc' = [pc EXCEPT ![w] = "wait"]
  /\ UNCHANGED <<cache, phase, leader, result, req, inbox, served>>

Join(w) == StartFlight(w) \/ JoinFlight(w)

(* The select takes the result: an answer is returned, an error that is not   *)
(* cached ends the request.                                                   *)
Receive(w) ==
  /\ pc[w] = "wait"
  /\ inbox[w] # None
  /\ served' = IF inbox[w] \in Answers
               THEN served \cup {[req |-> req[w], answer |-> inbox[w]]}
               ELSE served
  /\ Return(w)
  /\ inbox' = [inbox EXCEPT ![w] = None]
  /\ UNCHANGED <<cache, flightVars>>

(* The select takes ctx.Done(): scenario timeout or cancellation.  It may win *)
(* over a result that is already there.  The abandoned channel is buffered,   *)
(* so the flight's send to it is lost and blocks nobody: the worker leaves    *)
(* the waiters.                                                               *)
Abandon(w) ==
  /\ pc[w] = "wait"
  /\ Return(w)
  /\ inbox' = [inbox EXCEPT ![w] = None]
  /\ waiters' = [waiters EXCEPT ![KeyFor(w)] = @ \ {w}]
  /\ UNCHANGED <<cache, phase, leader, result, served>>

-----------------------------------------------------------------------------
(* The flight of a key: the function process gives to DoChan.                 *)

(* The flight has returned r, and Deliver is what remains.                    *)
FinishFlight(k, r) ==
  /\ phase' = [phase EXCEPT ![k] = "finished"]
  /\ result' = [result EXCEPT ![k] = r]

(* The second lookup, inside the flight. *)
FlightHit(k) ==
  /\ phase[k] = "started"
  /\ cache[k] # None
  /\ FinishFlight(k, cache[k])
  /\ UNCHANGED <<cache, leader, waiters, workerVars, served>>

(* Mutant: the flight does not look the key up again. *)
FlightMissUnchecked(k) ==
  /\ phase[k] = "started"
  /\ phase' = [phase EXCEPT ![k] = "opening"]
  /\ UNCHANGED <<cache, leader, waiters, result, workerVars, served>>

FlightMiss(k) ==
  /\ phase[k] = "started"
  /\ cache[k] = None
  /\ phase' = [phase EXCEPT ![k] = "opening"]
  /\ UNCHANGED <<cache, leader, waiters, result, workerVars, served>>

(* getBody opened the payload. *)
OpenBody(k) ==
  /\ phase[k] = "opening"
  /\ phase' = [phase EXCEPT ![k] = "sending"]
  /\ UNCHANGED <<cache, leader, waiters, result, workerVars, served>>

(* client.Do returned a response. *)
Send(k) ==
  /\ phase[k] = "sending"
  /\ phase' = [phase EXCEPT ![k] = "reading"]
  /\ UNCHANGED <<cache, leader, waiters, result, workerVars, served>>

(* makeIntermediate read or saved the response, or failed to: both are stored. *)
Store(k, body) ==
  /\ phase[k] = "reading"
  /\ LET answer == [for |-> leader[k], body |-> body] IN
       /\ cache' = [cache EXCEPT ![k] = answer]
       /\ FinishFlight(k, answer)
  /\ UNCHANGED <<leader, waiters, workerVars, served>>

(* Mutant: every error is cached. *)
FailFlightCached(k) ==
  /\ phase[k] \in Fetching
  /\ cache' = [cache EXCEPT ![k] = Refused]
  /\ FinishFlight(k, Refused)
  /\ UNCHANGED <<leader, waiters, workerVars, served>>

(* Mutant: a flight that dies takes its waiters with it. *)
FailFlightSilent(k) ==
  /\ phase[k] \in Fetching
  /\ phase' = [phase EXCEPT ![k] = "none"]
  /\ leader' = [leader EXCEPT ![k] = None]
  /\ waiters' = [waiters EXCEPT ![k] = {}]
  /\ UNCHANGED <<cache, result, workerVars, served>>

(* The payload could not be opened, the transport failed, the cache timeout   *)
(* or the end of the run cut the send short, or the flight panicked: the      *)
(* error is returned and nothing is stored.                                   *)
FailFlight(k) ==
  /\ phase[k] \in Fetching
  /\ FinishFlight(k, Refused)
  /\ UNCHANGED <<cache, leader, waiters, workerVars, served>>

(* singleflight, under its lock: forget the call and send to every channel.   *)
Deliver(k) ==
  /\ phase[k] = "finished"
  /\ phase' = [phase EXCEPT ![k] = "none"]
  /\ leader' = [leader EXCEPT ![k] = None]
  /\ waiters' = [waiters EXCEPT ![k] = {}]
  /\ result' = [result EXCEPT ![k] = None]
  /\ inbox' = [w \in Workers |-> IF w \in waiters[k] THEN result[k] ELSE inbox[w]]
  /\ UNCHANGED <<cache, pc, req, served>>

-----------------------------------------------------------------------------
WorkerStep(w) ==
  \/ LookupHit(w) \/ LookupMiss(w)
  \/ Join(w)
  \/ Receive(w)

FlightStep(k) ==
  \/ FlightHit(k) \/ FlightMiss(k)
  \/ OpenBody(k) \/ Send(k)
  \/ \E body \in Bodies \cup {Broken} : Store(k, body)
  \/ FailFlight(k)
  \/ Deliver(k)

Next ==
  \/ \E w \in Workers, r \in Requests : Begin(w, r)
  \/ \E w \in Workers : WorkerStep(w) \/ Abandon(w)
  \/ \E k \in Keys : FlightStep(k)

(* Goroutines are scheduled, and every step of a flight ends: client.Do and   *)
(* the reading of the response run under CacheTimeout.                        *)
Fairness ==
  /\ \A w \in Workers : WF_vars(WorkerStep(w))
  /\ \A k \in Keys : WF_vars(FlightStep(k))

Spec == Init /\ [][Next]_vars /\ Fairness

-----------------------------------------------------------------------------
(* Two workers that were ever answered for one key, by the cache, by a flight *)
(* they started or by one they joined, at whatever distance in time, got the  *)
(* same answer (lookup and process).                                          *)
OneAnswerPerKey ==
  \A a, b \in served : KeyOf[a.req] = KeyOf[b.req] => a.answer = b.answer

(* A worker that is answered is given the answer to the request it made:      *)
(* same text, attached file, target file, workspace, cookies and attempt,     *)
(* whichever scenario asked first (docs/lua-api.md:100, "The cache is based   *)
(* on the data sent over the wire and any attached filenames (attach,         *)
(* saveResponseTo)").                                                         *)
OwnAnswer == \A s \in served : DataOf[s.answer.for] = DataOf[s.req]

(* A flight that is on its way to the server, or back from it, has nothing in *)
(* the cache to use instead: the response of a key is fetched only while no   *)
(* response of the key is stored (the second lookup, process).                *)
NoFetchOnceStored ==
  \A k \in Keys : cache[k] # None => phase[k] \notin Fetching

(* A stored entry is never replaced or removed (sp.cache.Store): whoever asks *)
(* for the same is given the same until the run ends.  docs/runner.md:38 says *)
(* both that a response is cached for the duration of --cache-timeout and     *)
(* that the cache keeps everything until the suite finishes.  The code does   *)
(* the latter: the timeout is that of the flight's client (getDefaultClient), *)
(* and no entry has an age.                                                   *)
StoredForGood ==
  [][\A k \in Keys : cache[k] # None => cache'[k] = cache[k]]_vars

(* A worker that waits either has its result in its channel or is still on    *)
(* the list of a flight that has not delivered yet: no waiter is forgotten by *)
(* a flight that ends while the worker joins (DoChan and its select).         *)
NoLostWaiter ==
  \A w \in Workers : pc[w] = "wait" /\ inbox[w] = None
    => phase[KeyFor(w)] # "none" /\ w \in waiters[KeyFor(w)]

(* Every call of sendCached returns, even when no context ever ends.          *)
EveryCallReturns == \A w \in Workers : pc[w] # "idle" ~> pc[w] = "idle"

(* The cache implements AnswerOnce. *)
Once == INSTANCE AnswerOnce WITH
  Bodies <- Bodies \cup {Broken},
  answer <- cache,
  asking <- req

(* Every behaviour of the cache is one of AnswerOnce, liveness included: each *)
(* key settles on one answer, and workers are handed it or refused.           *)
ImplementsAnswerOnce == Once!Spec
=============================================================================
