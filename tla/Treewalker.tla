----------------------------- MODULE Treewalker -----------------------------
(* One call of ParseFiletree (internal/treewalker/treewalker.go) with its     *)
(* workers (internal/treewalker/worker.go).  One goroutine explores the       *)
(* directories depth first and sends the file list of every leaf to taskCh;   *)
(* workers turn such a list into a scenario, file by file, through two caches *)
(* they share; two goroutines collect the scenarios and the errors, and two   *)
(* more close the channels of both when the workers have left.                *)
(*                                                                            *)
(* Directories are numbered in the order the exploration enters them.  Files  *)
(* are what matters of their content: the requests of a scenario are the      *)
(* request files it was built from, its configuration the configuration files *)
(* that were merged into the default, in order.  Any directory may turn out   *)
(* unreadable and any file may fail to open or to parse.                      *)
EXTENDS Integers, Sequences, FiniteSets, SequencesExt

CONSTANTS
  Workers,      \* cfg.Workers goroutines
  Parent,       \* [directory -> the directory it is in, 0 for the root]
  Files,        \* [directory -> its files, in natural order]
  ConfigFiles,  \* the files that end in .scenario; the others end in .sinq
  MaxFailures,  \* bound: how many things fail to be read, opened or parsed
  None

Dirs     == DOMAIN Parent
AllFiles == UNION {ToSet(Files[d]) : d \in Dirs}
Capacity == Cardinality(Workers)   \* of taskCh and of errorCh

(* The root is the first directory, and what is below a directory comes after *)
(* it.  A file is its path: no other directory has it.                        *)
ASSUME TreeAssumption ==
  /\ Parent \in Seq(Nat) \ {<<>>} /\ DOMAIN Files = Dirs
  /\ \A d \in Dirs : IF d = 1 THEN Parent[d] = 0 ELSE Parent[d] \in 1 .. d - 1
  /\ \A d \in Dirs : Files[d] \in Seq(AllFiles)
  /\ \A d, e \in Dirs : \A i \in DOMAIN Files[d], j \in DOMAIN Files[e] :
       Files[d][i] = Files[e][j] => d = e /\ i = j
  /\ IsFiniteSet(Workers) /\ Workers # {}
  /\ None \notin Dirs /\ MaxFailures \in Nat

Inside[d \in Dirs] == IF d = 1 THEN {1} ELSE Inside[Parent[d]] \cup {d}

Leaf(d) == \A c \in Dirs : Parent[c] # d

(* exploreFS's toPrepend: what a directory inherits, and its own files.       *)
TaskFiles[d \in Dirs] ==
  IF d = 1 THEN Files[d] ELSE TaskFiles[Parent[d]] \o Files[d]

(* A leaf with no file of its own is no scenario. *)
HasTask(d) == Leaf(d) /\ Files[d] # <<>>

(* Where the exploration goes on when it does not descend into d. *)
Past(d) == CHOOSE e \in d + 1 .. Len(Parent) + 1 :
             /\ e \in Dirs => d \notin Inside[e]
             /\ \A f \in d + 1 .. e - 1 : d \in Inside[f]

VARIABLES
  canceled,      \* ctx is done
  at,            \* exploreFS: the directory it is in, past the last when finished
  epc,           \* ... and where it is there
  taskCh,        \* leaves whose task is in the channel
  pc,            \* [Workers -> where the worker is]
  task,          \* [Workers -> leaf it works on, or None]
  todo,          \* [Workers -> files of the task that it has not handled yet]
  config,        \* [Workers -> configuration files merged into scenarioConfig]
  requests,      \* [Workers -> request files in requestBlueprints]
  configCache,   \* [ConfigFiles -> what is cached under the file, or None]
  requestCache,  \* request files that are cached
  errorCh,       \* number of errors in the channel
  errorClosed,   \* errorCh is closed
  resultClosed,  \* resultCh is closed
  gotError,      \* allErr of the collecting goroutine is not empty
  results,       \* res: scenarios collected, each [leaf, config, requests]
  outcome,       \* "running", "ok", "error", or "panic"
  failures       \* history: how often something could not be read, opened or parsed

explorer == <<at, epc>>
worker == <<pc, task, todo, config, requests>>
caches == <<configCache, requestCache>>
ends == <<errorClosed, resultClosed>>
vars == <<canceled, explorer, taskCh, worker, caches, errorCh, ends, gotError, results,
          outcome, failures>>

Scenarios == [leaf : Dirs, config : Seq(ConfigFiles), requests : Seq(AllFiles \ ConfigFiles)]

TypeOK ==
  /\ canceled \in BOOLEAN
  /\ at \in 1 .. Len(Parent) + 1
  /\ epc \in {"enter", "reading", "sending", "failing", "done"}
  /\ taskCh \in Seq(Dirs) /\ Len(taskCh) <= Capacity
  /\ pc \in [Workers -> {"idle", "files", "parse", "report", "exited"}]
  /\ task \in [Workers -> Dirs \cup {None}]
  /\ todo \in [Workers -> Seq(AllFiles)]
  /\ config \in [Workers -> Seq(ConfigFiles)]
  /\ requests \in [Workers -> Seq(AllFiles \ ConfigFiles)]
  /\ configCache \in [ConfigFiles -> Seq(ConfigFiles) \cup {None}]
  /\ requestCache \subseteq AllFiles \ ConfigFiles
  /\ errorCh \in 0 .. Capacity
  /\ errorClosed \in BOOLEAN /\ resultClosed \in BOOLEAN
  /\ gotError \in BOOLEAN /\ failures \in 0 .. MaxFailures
  /\ results \subseteq Scenarios
  /\ outcome \in {"running", "ok", "error", "panic"}

Init ==
  /\ canceled = FALSE
  /\ at = 1 /\ epc = "enter"
  /\ taskCh = <<>>
  /\ pc = [w \in Workers |-> "idle"]
  /\ task = [w \in Workers |-> None]
  /\ todo = [w \in Workers |-> <<>>]
  /\ config = [w \in Workers |-> <<>>]
  /\ requests = [w \in Workers |-> <<>>]
  /\ configCache = [f \in ConfigFiles |-> None]
  /\ requestCache = {}
  /\ errorCh = 0
  /\ errorClosed = FALSE /\ resultClosed = FALSE
  /\ gotError = FALSE /\ failures = 0
  /\ results = {}
  /\ outcome = "running"

Cancel ==
  /\ ~canceled
  /\ canceled' = TRUE
  /\ UNCHANGED <<explorer, taskCh, worker, caches, errorCh, ends, gotError, results,
                 outcome, failures>>

-----------------------------------------------------------------------------
(* The exploration: exploreFS and startExploration.                           *)

ExploreOn(d) == at' = d /\ epc' = "enter"

(* A directory is entered only while the context lives. *)
EnterDir ==
  /\ epc = "enter" /\ at \in Dirs
  /\ IF canceled THEN ExploreOn(Past(at)) ELSE epc' = "reading" /\ UNCHANGED at
  /\ UNCHANGED <<canceled, taskCh, worker, caches, errorCh, ends, gotError, results,
                 outcome, failures>>

(* ReadDir succeeds: a leaf with files is a task, and otherwise the first     *)
(* directory in it comes next, or whatever follows.                           *)
ReadDir ==
  /\ epc = "reading"
  /\ IF HasTask(at) THEN epc' = "sending" /\ UNCHANGED at ELSE ExploreOn(at + 1)
  /\ UNCHANGED <<canceled, taskCh, worker, caches, errorCh, ends, gotError, results,
                 outcome, failures>>

ReadDirFails ==
  /\ epc = "reading" /\ failures < MaxFailures
  /\ epc' = "failing"
  /\ failures' = failures + 1
  /\ UNCHANGED <<canceled, at, taskCh, worker, caches, errorCh, ends, gotError, results,
                 outcome>>

SendTask ==
  /\ epc = "sending" /\ Len(taskCh) < Capacity
  /\ taskCh' = Append(taskCh, at)
  /\ ExploreOn(Past(at))
  /\ UNCHANGED <<canceled, worker, caches, errorCh, ends, gotError, results, outcome, failures>>

(* ctx.Done() in the select: the leaf is given up, though there may be room.  *)
DropTask ==
  /\ epc = "sending" /\ canceled
  /\ ExploreOn(Past(at))
  /\ UNCHANGED <<canceled, taskCh, worker, caches, errorCh, ends, gotError, results,
                 outcome, failures>>

SendError ==
  /\ epc = "failing" /\ ~errorClosed /\ errorCh < Capacity
  /\ errorCh' = errorCh + 1
  /\ ExploreOn(Past(at))
  /\ UNCHANGED <<canceled, taskCh, worker, caches, ends, gotError, results, outcome, failures>>

DropError ==
  /\ epc = "failing" /\ canceled
  /\ ExploreOn(Past(at))
  /\ UNCHANGED <<canceled, taskCh, worker, caches, errorCh, ends, gotError, results,
                 outcome, failures>>

(* The send of the select on a channel that is closed: it is ready, and if it *)
(* is taken the program panics.                                               *)
SendErrorClosed ==
  /\ epc = "failing" /\ errorClosed
  /\ outcome' = "panic"
  /\ UNCHANGED <<canceled, explorer, taskCh, worker, caches, errorCh, ends, gotError,
                 results, failures>>

(* Mutant: a canceled exploration returns without closing taskCh. *)
EndExplorationQuiet ==
  /\ epc = "enter" /\ at \notin Dirs /\ ~canceled
  /\ epc' = "done"
  /\ UNCHANGED <<canceled, at, taskCh, worker, caches, errorCh, ends, gotError, results,
                 outcome, failures>>

(* The deferred close of taskCh, and wg.Done. *)
EndExploration ==
  /\ epc = "enter" /\ at \notin Dirs
  /\ epc' = "done"
  /\ UNCHANGED <<canceled, at, taskCh, worker, caches, errorCh, ends, gotError, results,
                 outcome, failures>>

-----------------------------------------------------------------------------
(* A worker: run and runTask.                                                 *)

(* Mutant: the configuration of the previous task is not put back to the default. *)
TakeTaskKeepConfig(w) ==
  /\ pc[w] = "idle" /\ taskCh # <<>>
  /\ taskCh' = Tail(taskCh)
  /\ IF canceled
     THEN pc' = [pc EXCEPT ![w] = "exited"] /\ UNCHANGED <<task, todo, config, requests>>
     ELSE /\ pc' = [pc EXCEPT ![w] = "files"]
          /\ task' = [task EXCEPT ![w] = Head(taskCh)]
          /\ todo' = [todo EXCEPT ![w] = TaskFiles[Head(taskCh)]]
          /\ requests' = [requests EXCEPT ![w] = <<>>]
          /\ UNCHANGED config
  /\ UNCHANGED <<canceled, explorer, caches, errorCh, ends, gotError, results, outcome,
                 failures>>

(* The worker leaves when it finds the context done, its task with it.        *)
TakeTask(w) ==
  /\ pc[w] = "idle" /\ taskCh # <<>>
  /\ taskCh' = Tail(taskCh)
  /\ IF canceled
     THEN pc' = [pc EXCEPT ![w] = "exited"] /\ UNCHANGED <<task, todo, config, requests>>
     ELSE /\ pc' = [pc EXCEPT ![w] = "files"]
          /\ task' = [task EXCEPT ![w] = Head(taskCh)]
          /\ todo' = [todo EXCEPT ![w] = TaskFiles[Head(taskCh)]]
          /\ config' = [config EXCEPT ![w] = <<>>]
          /\ requests' = [requests EXCEPT ![w] = <<>>]
  /\ UNCHANGED <<canceled, explorer, caches, errorCh, ends, gotError, results, outcome,
                 failures>>

(* taskCh is closed and empty; a worker without a task does not look at the   *)
(* context.                                                                   *)
ExitWorker(w) ==
  /\ pc[w] = "idle" /\ taskCh = <<>> /\ epc = "done"
  /\ pc' = [pc EXCEPT ![w] = "exited"]
  /\ UNCHANGED <<canceled, explorer, taskCh, task, todo, config, requests, caches, errorCh,
                 ends, gotError, results, outcome, failures>>

File(w) == Head(todo[w])

NextFile(w) ==
  /\ todo' = [todo EXCEPT ![w] = Tail(@)]
  /\ pc' = [pc EXCEPT ![w] = "files"]

(* readCache, under the read lock.  A cached configuration replaces what the  *)
(* worker has: it holds everything inherited before the file.                 *)
CacheHit(w) ==
  /\ pc[w] = "files" /\ todo[w] # <<>>
  /\ \/ /\ File(w) \in ConfigFiles /\ configCache[File(w)] # None
        /\ config' = [config EXCEPT ![w] = configCache[File(w)]]
        /\ UNCHANGED requests
     \/ /\ File(w) \in requestCache
        /\ requests' = [requests EXCEPT ![w] = Append(@, File(w))]
        /\ UNCHANGED config
  /\ NextFile(w)
  /\ UNCHANGED <<canceled, explorer, taskCh, task, caches, errorCh, ends, gotError, results,
                 outcome, failures>>

CacheMiss(w) ==
  /\ pc[w] = "files" /\ todo[w] # <<>>
  /\ IF File(w) \in ConfigFiles THEN configCache[File(w)] = None ELSE File(w) \notin requestCache
  /\ pc' = [pc EXCEPT ![w] = "parse"]
  /\ UNCHANGED <<canceled, explorer, taskCh, task, todo, config, requests, caches, errorCh,
                 ends, gotError, results, outcome, failures>>

(* Mutant: the file is cached without what was inherited before it. *)
ParseConfigAlone(w) ==
  /\ pc[w] = "parse" /\ File(w) \in ConfigFiles
  /\ config' = [config EXCEPT ![w] = Append(@, File(w))]
  /\ configCache' = [configCache EXCEPT ![File(w)] = <<File(w)>>]
  /\ NextFile(w)
  /\ UNCHANGED <<canceled, explorer, taskCh, task, requests, requestCache, errorCh, ends,
                 gotError, results, outcome, failures>>

(* The file is opened and merged, and a copy of the outcome cached.           *)
ParseConfig(w) ==
  /\ pc[w] = "parse" /\ File(w) \in ConfigFiles
  /\ config' = [config EXCEPT ![w] = Append(@, File(w))]
  /\ configCache' = [configCache EXCEPT ![File(w)] = config'[w]]
  /\ NextFile(w)
  /\ UNCHANGED <<canceled, explorer, taskCh, task, requests, requestCache, errorCh, ends,
                 gotError, results, outcome, failures>>

ParseRequest(w) ==
  /\ pc[w] = "parse" /\ File(w) \notin ConfigFiles
  /\ requests' = [requests EXCEPT ![w] = Append(@, File(w))]
  /\ requestCache' = requestCache \cup {File(w)}
  /\ NextFile(w)
  /\ UNCHANGED <<canceled, explorer, taskCh, task, config, configCache, errorCh, ends,
                 gotError, results, outcome, failures>>

(* The file cannot be opened or parsed.  What was read of a configuration     *)
(* before the error may stay.                                                 *)
ParseFails(w) ==
  /\ pc[w] = "parse" /\ failures < MaxFailures
  /\ pc' = [pc EXCEPT ![w] = "report"]
  /\ \/ File(w) \in ConfigFiles /\ config' = [config EXCEPT ![w] = Append(@, File(w))]
     \/ UNCHANGED config
  /\ failures' = failures + 1
  /\ UNCHANGED <<canceled, explorer, taskCh, task, todo, requests, caches, errorCh, ends,
                 gotError, results, outcome>>

(* The worker blocks until there is room, whatever the context says. *)
ReportError(w) ==
  /\ pc[w] = "report" /\ errorCh < Capacity
  /\ errorCh' = errorCh + 1
  /\ NextFile(w)
  /\ UNCHANGED <<canceled, explorer, taskCh, task, config, requests, caches, ends, gotError,
                 results, outcome, failures>>

(* A task with requests is a scenario, handed to the collecting goroutine.    *)
EndTask(w) ==
  /\ pc[w] = "files" /\ todo[w] = <<>>
  /\ results' = IF requests[w] = <<>> THEN results
                ELSE results \cup {[leaf |-> task[w], config |-> config[w],
                                    requests |-> requests[w]]}
  /\ pc' = [pc EXCEPT ![w] = "idle"]
  /\ task' = [task EXCEPT ![w] = None]
  /\ UNCHANGED <<canceled, explorer, taskCh, todo, config, requests, caches, errorCh, ends,
                 gotError, outcome, failures>>

-----------------------------------------------------------------------------
(* The goroutines of ParseFiletree and runWorkers.                            *)

CollectError ==
  /\ errorCh > 0
  /\ errorCh' = errorCh - 1
  /\ gotError' = TRUE
  /\ UNCHANGED <<canceled, explorer, taskCh, worker, caches, ends, results, outcome, failures>>

WorkersLeft == \A w \in Workers : pc[w] = "exited"

CloseErrors ==
  /\ WorkersLeft /\ ~errorClosed
  /\ errorClosed' = TRUE
  /\ UNCHANGED <<canceled, explorer, taskCh, worker, caches, errorCh, resultClosed, gotError,
                 results, outcome, failures>>

CloseResults ==
  /\ WorkersLeft /\ ~resultClosed
  /\ resultClosed' = TRUE
  /\ UNCHANGED <<canceled, explorer, taskCh, worker, caches, errorCh, errorClosed, gotError,
                 results, outcome, failures>>

(* Mutant: the goroutine that collects the errors is not waited for. *)
ReturnEarly ==
  /\ outcome = "running"
  /\ epc = "done" /\ resultClosed
  /\ outcome' = IF gotError \/ canceled THEN "error" ELSE "ok"
  /\ UNCHANGED <<canceled, explorer, taskCh, worker, caches, errorCh, ends, gotError, results,
                 failures>>

(* coordinatorWG.Wait returns: the exploration has ended, and both collecting *)
(* goroutines have come to the end of their channel.  Errors and the cause of *)
(* a cancellation are joined.                                                 *)
Return ==
  /\ outcome = "running"
  /\ epc = "done" /\ errorClosed /\ errorCh = 0 /\ resultClosed
  /\ outcome' = IF gotError \/ canceled THEN "error" ELSE "ok"
  /\ UNCHANGED <<canceled, explorer, taskCh, worker, caches, errorCh, ends, gotError, results,
                 failures>>

-----------------------------------------------------------------------------
Explore ==
  \/ EnterDir \/ ReadDir \/ ReadDirFails
  \/ SendTask \/ DropTask \/ SendError \/ DropError \/ SendErrorClosed
  \/ EndExploration

Work(w) ==
  \/ TakeTask(w) \/ ExitWorker(w)
  \/ CacheHit(w) \/ CacheMiss(w)
  \/ ParseConfig(w) \/ ParseRequest(w) \/ ParseFails(w)
  \/ ReportError(w) \/ EndTask(w)

Coordinate == CollectError \/ CloseErrors \/ CloseResults \/ Return

Ended == outcome # "running" /\ UNCHANGED vars

Next ==
  \/ /\ outcome = "running"
     /\ Cancel \/ Explore \/ (\E w \in Workers : Work(w)) \/ Coordinate
  \/ Ended

(* Goroutines are scheduled, and the file system answers.                     *)
Fairness ==
  /\ WF_vars(outcome = "running" /\ Explore)
  /\ \A w \in Workers : WF_vars(outcome = "running" /\ Work(w))
  /\ WF_vars(outcome = "running" /\ Coordinate)

Spec == Init /\ [][Next]_vars /\ Fairness

-----------------------------------------------------------------------------
(* What the set leaves of the first n files, and of all of them. *)
Kept(files, set, n) ==
  LET kept[k \in 0 .. n] ==
        IF k = 0 THEN <<>>
        ELSE IF files[k] \in set THEN Append(kept[k - 1], files[k]) ELSE kept[k - 1]
  IN  kept[n]

InOrder(files, set) == Kept(files, set, Len(files))

(* The scenario a leaf describes: all files on the way to it, in order.       *)
Blueprint(d) ==
  [leaf     |-> d,
   config   |-> InOrder(TaskFiles[d], ConfigFiles),
   requests |-> InOrder(TaskFiles[d], AllFiles \ ConfigFiles)]

Blueprints == {b \in {Blueprint(d) : d \in {e \in Dirs : HasTask(e)}} : b.requests # <<>>}

(* When ParseFiletree returns without an error the scenarios are the ones the *)
(* tree describes: none is lost to a cancellation that nobody hears of, and   *)
(* each has its own inherited configuration, whichever worker filled the      *)
(* cache and with which task.                                                 *)
ExactWhenNoError == outcome = "ok" => results = Blueprints

(* Even with errors and cancellations a scenario never has anything of a      *)
(* sibling: its configuration and its requests come from the way to its leaf, *)
(* in the order of that way (docs/treewalker.md, "Sibling leaf directories    *)
(* are completely isolated").                                                 *)
SiblingsIsolated ==
  \A r \in results :
    /\ \E s \in SUBSET ConfigFiles : r.config = InOrder(TaskFiles[r.leaf], s)
    /\ \E s \in SUBSET (AllFiles \ ConfigFiles) : r.requests = InOrder(TaskFiles[r.leaf], s)

(* ParseFiletree returns an error if anything failed or the context ended     *)
(* while it worked, and only then: none of the errors sent is overtaken by    *)
(* the return.                                                                *)
NoErrorLost ==
  /\ outcome = "ok" => failures = 0 /\ ~canceled
  /\ outcome = "error" => failures > 0 \/ canceled

(* The walk ends, whatever fails and whenever it is canceled, although each   *)
(* of its goroutines waits for another: the exploration for room, workers for *)
(* the end of the exploration, the closers for the workers, the caller for    *)
(* all of them.  A panic counts as an end here, see NeverPanics.              *)
Terminates == <>(outcome # "running")

(* TestTreewalker_Cancellation of internal/treewalker/treewalker_test.go:330  *)
(* expects of a canceled walk that it returns: "Treewalker failed to exit     *)
(* after context cancellation (Deadlock detected)" is its failure.            *)
NeverPanics == outcome # "panic"
=============================================================================
