----------------------------- MODULE CodeCaches -----------------------------
(* The two caches of Lua code that the workers of a run share: compiled       *)
(* scripts (internal/runner/cached-compiler.go) and the modules that scripts  *)
(* require (internal/runner/cached-loader.go).                                *)
(*                                                                            *)
(* Both are a sync.Map in front of a singleflight group, and they differ in   *)
(* everything that can go wrong.  compileScript blocks in Do until the flight *)
(* ends, keeps no errors, and a panic in the flight becomes a panic of every  *)
(* worker that waits.  load waits in a select and may leave it when its       *)
(* context ends, keeps errors like results, and turns a panic into an error   *)
(* that is not kept.                                                          *)
(*                                                                            *)
(* What a flight makes is abstracted to one of Codes: the file of a module    *)
(* may change between two readings, so two flights may make different code.   *)
EXTENDS FiniteSets

CONSTANTS
  Workers,   \* goroutines of the runner
  Scripts,   \* hashes of scripts, as compileScript computes them
  Modules,   \* module names
  Codes,     \* what parsing and compiling can make
  Broken,    \* an error: file not found, unreadable, or a syntax error
  Refused,   \* what is returned and not kept: an error of compileScript, a panic
  None       \* nothing

Keys == Scripts \cup Modules

(* What may be stored under a key, and what a flight may return.              *)
Answers == [for : Keys, body : Codes \cup {Broken}]
Results == Answers \cup {Refused}

ASSUME KeyAssumption   == Scripts \cap Modules = {}
ASSUME ValueAssumption ==
  /\ None \notin Results
  /\ None \notin Keys
  /\ Refused \notin Answers
  /\ Broken \notin Codes

VARIABLES
  cache,     \* [Keys -> answer or None]: cc.cache and c.cache
  phase,     \* [Keys -> what the flight of the key is about to do, or "none"]
  waiters,   \* [Keys -> workers that are told what the flight returns]
  result,    \* [Keys -> what the flight returned, None while it runs]
  pc,        \* [Workers -> where the worker is]
  key,       \* [Workers -> script or module asked for, None if none is]
  inbox,     \* [Workers -> what the flight told the worker]
  served     \* history: [req, answer] for every answer returned to a worker

flightVars == <<phase, waiters, result>>
workerVars == <<pc, key, inbox>>
vars == <<cache, flightVars, workerVars, served>>

TypeOK ==
  /\ cache \in [Keys -> Answers \cup {None}]
  /\ phase \in [Keys -> {"none", "started", "reading", "finished"}]
  /\ waiters \in [Keys -> SUBSET Workers]
  /\ result \in [Keys -> Results \cup {None}]
  /\ pc \in [Workers -> {"idle", "running", "lookup", "join", "wait"}]
  /\ key \in [Workers -> Keys \cup {None}]
  /\ inbox \in [Workers -> Results \cup {None}]
  /\ served \subseteq [req : Keys, answer : Answers]

Init ==
  /\ cache = [k \in Keys |-> None]
  /\ phase = [k \in Keys |-> "none"]
  /\ waiters = [k \in Keys |-> {}]
  /\ result = [k \in Keys |-> None]
  /\ pc = [w \in Workers |-> "idle"]
  /\ key = [w \in Workers |-> None]
  /\ inbox = [w \in Workers |-> None]
  /\ served = {}

-----------------------------------------------------------------------------
(* A worker: executeAndExtractValue, and require in the script it runs.       *)

Ask(w, k) ==
  /\ pc' = [pc EXCEPT ![w] = "lookup"]
  /\ key' = [key EXCEPT ![w] = k]
  /\ UNCHANGED <<cache, flightVars, inbox, served>>

(* A hook is due: its script is compiled, unless that was done before. *)
Compile(w, s) == pc[w] = "idle" /\ Ask(w, s)

(* The script that runs requires a module; load is the second of Lua's loaders. *)
Require(w, m) == pc[w] = "running" /\ Ask(w, m)

(* The script is over: it returned, or an error ended it. *)
EndScript(w) ==
  /\ pc[w] = "running"
  /\ pc' = [pc EXCEPT ![w] = "idle"]
  /\ UNCHANGED <<cache, flightVars, key, inbox, served>>

(* The worker is told r.  With compiled code, or with whatever load pushed on *)
(* the stack (an error of load is a string there, which a script may catch),  *)
(* it runs on; a script that was not compiled is not run.                     *)
Return(w, r) ==
  /\ pc' = [pc EXCEPT ![w] = IF key[w] \in Modules \/ r \in Answers
                             THEN "running" ELSE "idle"]
  /\ key' = [key EXCEPT ![w] = None]
  /\ served' = IF r \in Answers
               THEN served \cup {[req |-> key[w], answer |-> r]} ELSE served

LookupHit(w) ==
  /\ pc[w] = "lookup"
  /\ cache[key[w]] # None
  /\ Return(w, cache[key[w]])
  /\ UNCHANGED <<cache, flightVars, inbox>>

LookupMiss(w) ==
  /\ pc[w] = "lookup"
  /\ cache[key[w]] = None
  /\ pc' = [pc EXCEPT ![w] = "join"]
  /\ UNCHANGED <<cache, flightVars, key, inbox, served>>

(* Do or DoChan: the first worker of a key starts its flight, later ones wait *)
(* for it.                                                                    *)
Join(w) ==
  /\ pc[w] = "join"
  /\ phase' = [phase EXCEPT ![key[w]] = IF @ = "none" THEN "started" ELSE @]
  /\ waiters' = [waiters EXCEPT ![key[w]] = @ \cup {w}]
  /\ pc' = [pc EXCEPT ![w] = "wait"]
  /\ UNCHANGED <<cache, result, key, inbox, served>>

Receive(w) ==
  /\ pc[w] = "wait"
  /\ inbox[w] # None
  /\ Return(w, inbox[w])
  /\ inbox' = [inbox EXCEPT ![w] = None]
  /\ UNCHANGED <<cache, flightVars>>

(* The select of load takes ls.Context().Done(); it pushes "Context canceled" *)
(* and the script, which has the same context, ends at its next instruction.  *)
Abandon(w) ==
  /\ pc[w] = "wait"
  /\ key[w] \in Modules
  /\ pc' = [pc EXCEPT ![w] = "idle"]
  /\ key' = [key EXCEPT ![w] = None]
  /\ inbox' = [inbox EXCEPT ![w] = None]
  /\ waiters' = [waiters EXCEPT ![key[w]] = @ \ {w}]
  /\ UNCHANGED <<cache, phase, result, served>>

-----------------------------------------------------------------------------
(* The flight of a key: the function given to Do or to DoChan.                *)

FinishFlight(k, r) ==
  /\ phase' = [phase EXCEPT ![k] = "finished"]
  /\ result' = [result EXCEPT ![k] = r]
  /\ UNCHANGED <<waiters, workerVars, served>>

(* The second lookup. *)
FlightHit(k) ==
  /\ phase[k] = "started"
  /\ cache[k] # None
  /\ FinishFlight(k, cache[k])
  /\ UNCHANGED cache

(* Mutant: the flight trusts the lookup before it. *)
FlightMissUnchecked(k) ==
  /\ phase[k] = "started"
  /\ phase' = [phase EXCEPT ![k] = "reading"]
  /\ UNCHANGED <<cache, waiters, result, workerVars, served>>

FlightMiss(k) ==
  /\ phase[k] = "started"
  /\ cache[k] = None
  /\ phase' = [phase EXCEPT ![k] = "reading"]
  /\ UNCHANGED <<cache, waiters, result, workerVars, served>>

Keep(k, body) ==
  LET answer == [for |-> k, body |-> body] IN
  /\ cache' = [cache EXCEPT ![k] = answer]
  /\ FinishFlight(k, answer)

(* Parsed and compiled. *)
Build(k, code) == phase[k] = "reading" /\ Keep(k, code)

(* Mutant: load does not keep its errors. *)
LoadFailsUnkept(m) ==
  /\ phase[m] = "reading"
  /\ FinishFlight(m, [for |-> m, body |-> Broken])
  /\ UNCHANGED cache

(* loadFile found no file or could not open it, or the file is no Lua. *)
LoadFails(m) == phase[m] = "reading" /\ Keep(m, Broken)

(* Mutant: a panic ends the flight, and whoever waits for it is not told. *)
GiveUpSilent(k) ==
  /\ phase[k] = "reading"
  /\ phase' = [phase EXCEPT ![k] = "none"]
  /\ waiters' = [waiters EXCEPT ![k] = {}]
  /\ UNCHANGED <<cache, result, workerVars, served>>

(* A panic, which singleflightSafe makes an error of load and singleflight a  *)
(* panic of every caller of compileScript (a worker recovers from it, and its *)
(* script is not run); or, of a script, an error of the parser.               *)
GiveUp(k) ==
  /\ phase[k] = "reading"
  /\ FinishFlight(k, Refused)
  /\ UNCHANGED cache

(* singleflight, under its lock: forget the call and tell all that wait. *)
Deliver(k) ==
  /\ phase[k] = "finished"
  /\ phase' = [phase EXCEPT ![k] = "none"]
  /\ waiters' = [waiters EXCEPT ![k] = {}]
  /\ result' = [result EXCEPT ![k] = None]
  /\ inbox' = [w \in Workers |-> IF w \in waiters[k] THEN result[k] ELSE inbox[w]]
  /\ UNCHANGED <<cache, pc, key, served>>

-----------------------------------------------------------------------------
WorkerStep(w) == LookupHit(w) \/ LookupMiss(w) \/ Join(w) \/ Receive(w)

FlightStep(k) ==
  \/ FlightHit(k) \/ FlightMiss(k)
  \/ \E code \in Codes : Build(k, code)
  \/ k \in Modules /\ LoadFails(k)
  \/ GiveUp(k)
  \/ Deliver(k)

Next ==
  \/ \E w \in Workers, s \in Scripts : Compile(w, s)
  \/ \E w \in Workers, m \in Modules : Require(w, m)
  \/ \E w \in Workers : EndScript(w) \/ WorkerStep(w) \/ Abandon(w)
  \/ \E k \in Keys : FlightStep(k)

(* Goroutines are scheduled; a flight reads one file and parses it, and does  *)
(* not wait for another flight.                                               *)
Fairness ==
  /\ \A w \in Workers : WF_vars(WorkerStep(w))
  /\ \A k \in Keys : WF_vars(FlightStep(k))

Spec == Init /\ [][Next]_vars /\ Fairness

-----------------------------------------------------------------------------
(* All workers that were ever given a script or a module were given the same, *)
(* a failure to load included, whatever became of the file in between and     *)
(* whether they looked it up, led a flight or joined one (compileScript,      *)
(* load).                                                                     *)
OneCodePerKey ==
  \A a, b \in served : a.req = b.req => a.answer = b.answer

(* Whoever waits in compileScript, which no context can interrupt, or in load *)
(* has been told or will be: a flight that ends, in whatever way, tells all.  *)
NoLostWaiter ==
  \A w \in Workers : pc[w] = "wait" /\ inbox[w] = None
    => phase[key[w]] # "none" /\ w \in waiters[key[w]]

(* Every compilation and every require comes back, although nothing bounds    *)
(* the wait in compileScript.                                                 *)
EveryCallReturns ==
  \A w \in Workers : pc[w] \in {"lookup", "join", "wait"} ~> pc[w] \in {"idle", "running"}

Once == INSTANCE AnswerOnce WITH
  Requests <- Keys,
  KeyOf <- [k \in Keys |-> k],
  Bodies <- Codes \cup {Broken},
  answer <- cache,
  asking <- key

(* The two caches promise what the request cache promises, and keep it:       *)
(* liveness included, they implement AnswerOnce.                              *)
ImplementsAnswerOnce == Once!Spec
=============================================================================
