# TLA+ specifications of sinq

sinq runs chains of HTTP requests ("scenarios") that are written as files in a
directory tree, with Lua hooks around every request, many scenarios at a time.
This directory holds TLA+ models of the parts of it that are hard to test:
what happens when workers, goroutines, timeouts and interrupts meet, and what
its parsers, its merging and its sorting do with inputs nobody wrote a test
for. TLC checks the models on small instances, and TLAPS proves the most
important properties for instances of every size.

Paths below are relative to the repository's `src/`; `runner/`, `reporter/`,
`treewalker/` and so on are directories of `internal/`.

## 1. The system

`cmd/sinq/sinq.go` reads the options, lets the **treewalker** turn paths into
scenarios, counts the results to be expected, starts the **runner** and hands
its result channel to the **reporter pool**, whose result reporter decides the
exit code. A signal cancels one context that all of them share.

| Component | State it keeps | Operations | Talks to |
|---|---|---|---|
| Treewalker (`treewalker/`) | task and result channels, error channel, caches of parsed configuration and request files, wait groups | explore the file tree, parse a configuration, parse a request file, parse secrets | CLI (channels), scenario parsers, file system |
| Plan of a run (`sinq.go`, `scenario.CountVariants`, `runner/matrix-helpers.go`) | counts, matrix paths | count results, enumerate matrix paths, repeat | runner, reporters (the count) |
| Runner (`runner/runner.go`, `runner/worker.go`) | `taskCh`, `resultCh`, `durationCh`, wait group, each worker's Lua context | feed bundles, take one, run it, report it, wait, close | reporter pool (channels), request lifecycle (call) |
| Request lifecycle (`runner/worker.go`, `runner/request-processor.go`, `runner/lua-utility.go`, `runner/parser.go`) | `requestIdx`, request and scenario status, failed assertions, retries, the flags scripts set | PRE, materialize, parse, send, RETRY, ASSERT, POST, finalize | Lua (callbacks), request cache, HTTP client |
| Request cache (`runner/cached-request-processor.go`) | `sync.Map` of responses, a singleflight group | lookup, start or join a flight, store, fail, deliver | workers, HTTP client |
| Redirect policy (`worker.go:252-257`) | `len(via)` | `CheckRedirect` | `net/http` |
| Script and module caches (`runner/cached-compiler.go`, `runner/cached-loader.go`) | maps of compiled scripts and loaded modules, singleflight groups | compile a script, load a module, give up waiting | workers, file system |
| Reporter pool (`reporter/`) | one channel per reporter, the fan-out goroutine, `success` and a count, printers shared by reporters | fan out, take, write, finish, recover from a panic | runner, CLI |
| Lua API (`luapi/`) | sandboxed Lua states | bindings for JSON, JWT, crypto, generators, assertions | scripts |
| Script and request file parsers (`scenario/scenario-parser.go`, `scenario/scenario.go`, `scanner/`) | a scanner's position, the text token being read, the blueprints so far | find the end of a script, split a file into requests, unescape | treewalker |
| Request text parser (`runner/parser.go`) | a scanner's position | request line, headers, body | request lifecycle |
| Scenario and CLI configuration (`scenario/config-parser.go`, `config/`) | the configuration being built | parse files and flags, merge env, filter scenarios | treewalker, CLI |
| Helpers (`natsort/`, `envs/`, `ui/`, `timer/`) | none or a spinner | compare names, merge environments, print | everybody |
| Report writers (`reporter/standard/`, `reporter/junit/`) | tallies, totals | add a result, name the verdict, lay out a report | reporter pool |
| Command line program (`sinq.go`) | scenarios found, the announced count, the context of the run | flags, paths, filters, `--list`, run, exit code | everybody |

### Behaviours that are hard

- **Request cache.** A lookup without a lock followed by a singleflight call:
  another flight may start, store and end in between. Flights outlive the
  workers that wait for them; waiting workers give up at any moment.
  *Correct* means: one answer for ever per key, the right one for each asker,
  nobody waits in vain.
- **Runner.** Bounded channels on both sides of the workers, a context that may
  end while any of them is blocked, channels closed by a goroutine that does not
  write to them. *Correct*: each bundle has at most one result, exactly one if
  nobody interrupts; nothing is sent on a closed channel; everything ends.
- **Request lifecycle.** Scripts may jump anywhere in the chain, finish it,
  retry and skip; the context may end between any two checks, and every check
  reports it in its own way. *Correct*: a failure is never forgotten, a success
  came to the end of its chain, the chain stops with its context, and it ends.
- **Plan.** Two computations in two packages must agree on a number.
  *Correct*: as many results as announced, each combination of the matrix as
  often as asked.
- **Reporting.** Results cross three channels; a reporter may panic and leave
  its channel unread; two reporters read one buffer. *Correct*: exit code 0
  only if every bundle was reported and passed, 1 only for a reason, always one
  of them.
- **Script and module caches.** The same pattern twice, with every detail
  different: one blocks without a context, one selects; one keeps its errors, one
  does not; one makes panics of panics, one makes errors of them. *Correct*: all
  workers run the same code, and every call returns.
- **Parsers.** Hand-written, character by character, with one byte of lookahead
  here and there; braces inside Lua strings, long strings and comments; delimiters
  that may turn out not to be any; texts that end anywhere. *Correct*: a script ends
  where Lua says, a file is the sequence of its sections, what is written is sent.
- **Environments and order.** One map is merged from five places in two packages;
  the order of a chain is the order of a sort whose comparison mixes numbers and
  text. *Correct*: the last layer that says something about a path decides it;
  the order is one.
- **Command line.** Paths that cannot be read, filters that exclude everything,
  counts of zero, an interrupt between two paths; exit code, summary and junit
  totals are computed by different reporters. *Correct*: the three agree, and a
  zero covers the whole plan.
- **Treewalker.** A pipeline of goroutines whose error channel is closed while a
  producer may still use it; caches that hand out shared maps. *Correct*: every
  file is handled once with its own configuration, and the pipeline ends.

`PROJECT.json` lists these hazards one by one, at the line where they bite, with
the properties that watch them.

## 2. The modules

| Module | Models | Extends / instantiates |
|---|---|---|
| `AnswerOnce` | what a cache behind a singleflight group promises, abstractly | |
| `RequestCache` | `cachedRequestProcessor` and `sendCached` | instantiates `AnswerOnce` |
| `RequestKey` | `getHash`, the cache key | |
| `CodeCaches` | `compileScript`, `load`, `singleflightSafe` | instantiates `AnswerOnce` |
| `Runner` | `RunScenarios`, `startDataSource`, `worker.run`, `reportResult` | |
| `Plan` | `CountVariants`, `scenarioCount`, `buildAllPaths` and `takePath` as operators | |
| `DataSource` | the loops of `startDataSource` | `Plan` |
| `CommandLine` | `sinq()` from flags to exit code, `ShouldInclude`, the tallies of the reports | `DataSource` |
| `Reporting` | `ReporterPool`, reporters, `handleReporting` | `Runner` |
| `ScenarioRun` | `processScenario`, `processRequest`, `RequestProcessor` | |
| `Treewalker` | `ParseFiletree`, `exploreFS`, `runWorkers`, the workers and their caches | |
| `ScriptLexer` | `parseScript` and the Lua lexer below it | |
| `RequestFile` | `lexToken`, `parseText`, `parseDelimiter`, `ParseRequestBlueprints`, `escapePayload` | |
| `RequestText` | `requestParser` of `runner/parser.go` | |
| `NaturalOrder` | `natsort.Compare`, and the sorting of a directory | |
| `Environments` | `DeepMerge`, `parseKeyVal`, and everybody who calls them | |
| `Redirects` | `CheckRedirect` and the default client's policy | |
| `…Proof` | theorems about the module of that name; `ReportingProof` also about `Runner`, `AlgorithmsProof` about `NaturalOrder`, `ScriptLexer`, `Environments` and `Redirects`, `RequestsProof` about `RequestFile` and `RequestText` | that module, `TLAPS`; `RequestsProof` extends `AlgorithmsProof` |
| `MC…` | small instances for TLC; `MCAlgorithms` joins the six sequential modules | the module of that name |

Definitions named "Mutant" in a comment are deliberately wrong variants of the
definition that follows them. No specification uses them: they exist to show
that each property would notice such a mistake.

### RequestCache

`cache` is `sp.cache`. A worker is in `sendCached`: computing its key (`Begin`),
at the first lookup, at `DoChan`, or in the select. The flight of a key is the
function that `process` gives to `DoChan`, one action per step that can be
interleaved with anything: the second lookup, opening the body, sending, reading
and storing. `waiters` are the channels of the singleflight call, `inbox` what
is in them. `Deliver` is singleflight's own: under its lock it forgets the call
and sends to all channels. `Abandon` is `ctx.Done()` in the select; it may win
over a result. Errors are kept apart: `Broken` is an error of
`makeIntermediate`, which is stored like a response, `Refused` one that is not.
A response is abstracted to the request it was made for and one of `Bodies`.
What the cookie jar does with the `Set-Cookie` of a cached answer is left out.

`RequestKey` keeps what matters about the key: which fields are fed to the
hash, in which order and without separators. The hash itself is taken to be
injective.

`AnswerOnce` says what the cache is for: each key settles on one answer, and
whoever asks is given that answer or refused. `ImplementsAnswerOnce` checks the
refinement, under the mapping `answer <- cache`, `asking <- req`.

### Runner

Bundles are numbers in the order in which they are sent, so `taskCh` is the
interval `taken + 1 .. sent`; its capacity, like that of `resultCh`, is the
number of workers. `Cancel` may happen at any moment. A select with several
ready cases may take any of them: the data source may send or stop, a worker may
take a bundle or leave, publish a result or drop it. `printer[w]` is the bundle
whose Lua context `w.lc` still is: an excluded bundle does not get a new one.
`errorCh` is left out: its senders are a nil context (`worker.go:113`), a cookie jar
that cannot be made (`:240`) and a failed `setupScenarioEnvironment` (`:277`), and none
of them happens: the last function has no return but `nil`.

### CodeCaches

One module for both caches: `Scripts` and `Modules` are their keys, and the actions
that only one of them has say so. A worker compiles a script before it runs it
(`Compile`), and requires modules from it (`Require`). A flight looks again, reads
and compiles. What it makes is one of `Codes`, chosen anew each time, since
the file of a module may change while the program runs. The three ways to fail are
kept apart because the code treats them differently: an error of `load` is stored
(`LoadFails`), an error of `compileScript` is not, and a panic is not in either
(`GiveUp`). `Abandon` exists only for modules: `Do` in `compileScript` has no select.
Where `loadFile` looks for a module is abstracted to found or not.

### Plan, DataSource and CommandLine

A matrix is a sequence of axes, an axis a sequence of labels; Go's map order is
covered by the plans being arbitrary sequences. `TakePath` is the mixed-radix
decomposition of a path number; sums and products over a matrix are recursive
functions, so that they can be reasoned about. `DataSource` sends one bundle per step.
`Axes` and `Labels` say what a matrix may consist of; no axis is empty, since
`ParseConfig` drops those.

`CommandLine` extends it with everything around: `LeaveEarly` stands for flags,
completion, help and secrets, which end the program before it does anything;
`ReadPath` is one turn of the loop over the paths, each with any number of scenarios,
`unread` the number of paths left;
`phase` says what comes next. Each bundle's result is then reported, or lost if the
run was interrupted, to the three computations of the reporters: `success` and
`counted` of the `ResultReporter`, `tally` of the std format, `junit`. They only add
up, so results are taken in the order in which they were sent; that none is lost
in the channels is the subject of `Reporting`. `Endings` are the results a
scenario can have according to `ScenarioRun`; `EndingsAssumption` says which. An Error
without a request to show for it comes of a panic, or of a setup that fails, which is
not reachable.

### ScenarioRun

`pc` follows `processRequest`: `next` (the loop of `processScenario`), `pre`,
`materialize`, `parse`, `send`, `retry`, `wait`, `assert`, `post`. A script may set the
next request anywhere (`ScriptJumps`) wherever the code runs one. `Stop` is
`handleError` with the `return false` after it. The status that an ended context
leads to depends on where it is noticed: a script becomes an Error whatever
ended the context, the other places tell an interrupt (Aborted) from a timeout
(Error). A panic runs the deferred `finalize` before `recover`, as the code does.
Failed assertions are abstracted to whether there are any; they survive a second
pass over the request while its status does not. An assertion function that a
script keeps and calls from another hook is left out, and so is what a request
looks like on the wire. A skipped request is marked `Skipped`, as
`worker.go:172-175` does; `docs/lua-api.md:101` says "marked as `Aborted`".

### Reporting

`Reporting` extends `Runner` with the pool: the fan-out goroutine, a channel per
reporter with room for `Size` results (`scenarioCount`), the result reporter
(reporter 1), writers that may die at any moment, and the exit code. Runner's
`Consume` becomes the receive of the fan-out. A standard writer copies the
printer of a result in two steps, and in doing so drains it for everybody.
What the reports look like is left out.

### Treewalker

Directories are numbered in the order in which `exploreFS` enters them, so its
recursion is a counter (`at`) with a way to skip what is below a directory
(`Past`). `epc` is where the exploration is in a directory: about to look at the
context, reading, blocked on `taskCh`, blocked on `errorCh`. A task is the leaf
it was made for; `TaskFiles` are its paths. A file stands for its content: a
configuration is the list of files merged into the default, a scenario's
requests the files they come from. Any directory may be unreadable, any file
may fail to open or to parse; a configuration that fails may leave part of
itself behind, as `parseScenarioConfig` writes into its argument. `Cancel` may
happen at any moment. A send on the closed `errorCh` is an action of its own,
`SendErrorClosed`, since a select that has it and `ctx.Done()` may take either.
The goroutine that collects scenarios receives from an unbuffered channel, so
`EndTask` is send and receive in one. The order in which a directory is listed is
`NaturalOrder`'s subject, what the command line adds to the environment
`Environments`'. The default name and the list of tags are left out.

### ScriptLexer, RequestFile, RequestText

Each reads one character per step, and may be at the end of its input after any.

`ScriptLexer` follows the calls of the parser: `lexer` is the function that
will see the next character, `level` and `layer` count the `=` of long brackets.
The reference is written the other way round, token by token over the whole text:
`Boundaries` are the places where tokens start, and `EndsInLua` counts braces among
them. `Inputs` only bounds what TLC reads.

In `RequestFile` a script is one symbol, named or inline. This hides the newlines in a
script, which matter in a `###` line: the first of them ends the header
(`scenario-parser.go:203`), within the script or not. The model is of files whose
`###` lines have no such script. `reader` is the
function that reads on; a token is its places in the file, so unescaping is a
sequence of places, and `Outcome` is what `ParseRequestBlueprints` returns if the
file ends here. The reference sees the file as lines and sections, and says of each
place of a section what it is: an escape, a script, a blank that is dropped
(`Leading`), or content. Scripts with other special names than `PRE` are treated
like it and represented by it.

`RequestText` is about the text that is left when scripts have been replaced by
what they returned. `parse` is the parser as functions of places, which hand on
where they leave off. The reference (`WellFormed` and what follows) sees lines, given by
where they start, and their words, which are maximal stretches without a space. On both
sides a word or a value is the set of its places, so that a header is told from another
one with the same characters. A URL is one character, and so are the two names of headers
that the parser knows. A text of one line, a request line with a blank after it, is
returned before `scanHeaders` has made a `Header` (`NilHeader`): it is sent with the
user agent of `net/http`. If such a request is a cached one and the jar has a cookie
for it, adding the cookie to the missing `Header` panics (`request-processor.go:284`),
which makes the scenario an Error; in `ScenarioRun` that is a `Panic` like any other.

### NaturalOrder and Environments

A name is a sequence of integers, digits and others below and above them; a
directory is sorted entry by entry as `SortFunc` does with short slices, which
only works if `Compare` is transitive. `MaxInt` is the largest number `Atoi` takes.
Names may have leading zeros, as in `01_login.sinq`; `Sortable` excepts directories in
which they are all that two names differ in, and names with numbers beyond `MaxInt`.

`Environments` merges what `-e` or `-s` say, the files of a path, the command
line over them, and the labels of a matrix path. A value is a leaf or an object, an
object a function of all names of fields (`Keys`) with `NoValue` where it has no such
field. `Nesting` bounds how deep objects are within each other, in the instance and as
a parameter of the recursion of `DeepMerge`. `parseKeyVal` follows the loop of the code
down the path (`onTheWay`) and then says what has changed on the way back up
(`changed`), where the code writes in place.
Sharing of maps between copies is left out: `DeepMerge` writes into its first
argument, which the callers have cloned.

### Redirects

One exchange with a server that redirects `chain` times: `CheckRedirect` of the
scenario's client, the default policy of the cached requests' client, and what
`Client.Do` makes of either. `len(via)` is `made`, the requests sent so far, so a limit of
`n` allows `n` requests, which is `n - 1` redirects, and a limit of 0 still allows the first.

## 3. The runs

| Run | Question | Instance | Result |
|---|---|---|---|
| `request_cache` | Do all interleavings leave one answer per key, each request its own, no waiter forgotten, and implement `AnswerOnce`? | 2 workers, 2 requests, 2 keys computed by `RequestKey`, one body and a read error; 23,876 states | holds |
| `request_key_ambiguous` | … when two requests have the same bytes in a row? | attach `data` against save to `data` | `OwnAnswer` fails |
| `runner` | Are results neither lost nor doubled, channels never used after closing, and does it end? | 2 workers, 3 bundles, one excluded; 47,957 states | holds |
| `runner_output` | Does each result carry its own output? | the same | `OutputIsOwn` fails |
| `command_line` | Are all variants sent, as many as announced, and do exit code, summary and junit totals say the same? | 1 or 2 paths, up to 2 scenarios in all, 6 kinds of them, 5 filters, count 0 to 2, 8 kinds of results, an interrupt; 725,078 states | holds (announced as sent for count ≥ 1) |
| `scenario_run` | Is a failure ever forgotten, an error outranked, a chain endless? | 3 requests with all, two and no hooks, 1 retry, with and without `fail_fast`; 14,808 states | holds |
| `reporting` | Does the exit code tell what happened, and does it come? | 2 workers, an included and an excluded scenario, 2 reporters; 83,254 states | holds |
| `reporting_output` | Does every report show the output? | one worker, 3 reporters | `OutputInEveryReport` fails |
| `treewalker` | Does a walk yield the scenarios of its tree, or say that it did not, and end? | 2 workers, 2 leaves below a directory with 3 files, one beside it, one failure; 70,451 states | holds |
| `treewalker_panic` | … and never panic? | the same | `NeverPanics` fails |
| `code_caches` | Does everybody get the same code and come back, and do both caches implement `AnswerOnce`? | 2 workers, 1 script, 1 module, 2 outcomes of compiling; 4,449 states | holds |
| `algorithms` | Do the sequential parts compute what their reference definitions say? | all short inputs, see below; 358,120 states | holds |

### What the failing runs show

1. `request-processor.go:199`: `getHash` writes the names of the attached file
   and of the target file one after the other, so attaching `data` and saving to
   `data` are one key, and the second request is answered by the first's response.
2. `worker.go:101`: an excluded scenario is reported with the printer of the
   scenario its worker ran before; with `--print` that output appears twice, unless a
   standard report has drained the buffer by then (3.).
3. `report-data.go:178`: `reportOutput` drains the buffer of a result. With
   `--out` two standard reporters share it, and one of them shows nothing.
4. `treewalker.go:68`: after a cancellation the workers leave and `errorCh` is
   closed while the exploration may still be reading a directory. If that
   fails, its select may choose the send on the closed channel, which panics.

### Disagreements without a run of their own

They show in the models as well: as a premise of a property, as a case its comment
excludes, or as the definition that differs from the text.

- `worker.go:140` and `request-processor.go:48-55`: a timeout makes a scenario an
  Error; `docs/runner.md:43-47` says Aborted. See `ContextStatus` in `ScenarioRun`.
- `worker.go:172-175`: a skipped request is `Skipped`; `docs/lua-api.md:101` says
  Aborted.
- `worker.go:253`: the limit counts the first request, so one redirect fewer
  than `max_redirects` is followed, except by cached requests, which ignore it. At
  the limit (which `OwnClientKeepsLimit` pins to the request) the request fails; `docs/scenario.md:54` says that the redirect is
  returned as the response (`Refused` and `GiveUp` in `Redirects`).
- `sinq.go:281`: with `--count 0` an included scenario announces no result but
  the data source still sends one (`ScenarioCount` against `Repetitions` in `Plan`);
  as soon as another scenario is excluded the run proceeds, and the exit code
  is 1 although nothing failed. The channels of the reporters have room for the
  announced number too, so a writer that panics in such a run leaves the
  fan-out blocked. The passing runs of `Reporting` use a count of 1, and its
  theorems have the premise that as many results are announced as sent.
- `sinq.go:254`: a path that cannot be read prints an error, and the run goes on and
  may end with 0, which `docs/ci-cd-integration.md:9-10` reserves for valid arguments
  (`ReadPath`, and the comment of `ExitZeroCoversThePlan`).
- `docs/ci-cd-integration.md:26` has panics among the causes of a junit `<error>`.
  A panic leaves the requests of the scenario without an
  error, so the report shows none although the exit code is 1 (`Unexplained`).
- `scenario-parser.go:502-521`: the second bracket of a closer of another level is
  consumed, so in `[[ ]=]]` the `]]` is missed and the script seems to go on
  (`SharedCloser` in `ScriptLexer`).
- A `###` line that the end of the file cuts off is text, and escapes and scripts in
  it are left as they are (`OpenHeader` in `RequestFile`).
- A request that is one line without a newline after it is rejected ("Unexpected
  end of file"), also when a `###` line follows, because the newline before that is
  stripped; a header `Name:value` without a blank is rejected (`RequestText`).
- The example of `docs/scenario.md:9-16` does not run: `POST /api/auth` has no absolute
  URL, which `validateURL` rejects, and its body comes right after the request line,
  where `scanHeaders` reads a header (`TextIsSent`).
- `docs/runner.md:38` says that a response is cached "for the duration specified by
  `--cache-timeout`", and in the same paragraph that the cache keeps everything until the
  suite finishes. The latter is true: `cached-request-processor.go:60` and `:78` use the
  timeout for the flight only, and a stored answer never expires (`StoredForGood`).
- `scanner/` classifies bytes by `unicode.IsSpace`: 0x85 and 0xA0 inside UTF-8
  characters count as space. The models have no such bytes.
- `natsort.Compare` calls each of `01.x` and `1.x` less than the other, and is not
  transitive on numbers beyond int64 (`Alike` and `Counted` in `NaturalOrder`; the
  property excludes such pairs and such numbers, and no other names).
- `-e a=5 -e a.y=2` is one layer, in which the second replaces the first: an `a.x` of
  a file stays (the comment of `LastWriterWins`).

### Bounds, and why they are enough

- *request_cache*: the races are between one worker and one flight, or between
  two workers on one key, and two workers produce all of them: a late join, a
  flight that outlives its leader, a second flight after the first stored or
  failed. A second key shows that keys do not disturb one another. Workers call
  `sendCached` again and again, without a bound.
- *runner*: three bundles against a channel of two make the source and the
  publishers block; one bundle is excluded.
- *reporting*: a channel as large as the number of results never fills, which is
  the point of the code; two bundles suffice to have one lost and one
  delivered.
- *scenario_run*: three requests give jumps back, forward and onto the request
  itself, over requests with and without hooks; one retry reaches the limit.
- *treewalker*: three tasks can fill a `taskCh` of two and make the exploration wait
  (never for good: a worker that leaves takes a task with it, so `ctx.Done()` in
  the send of `exploreFS` is not even needed). Two scenarios share cached files, one
  of which inherits another; the third must have none of them. One thing fails,
  anywhere (`MaxFailures`).
- *command_line*: two paths show what is reset between them and that one
  may be unreadable while the other is not; `MaxScenarios` bounds the scenarios of all
  paths together, which may be both of one path; matrices with axes of different
  lengths distinguish the digits of a path number; `MaxIncidents` bounds the results
  that are lost or no plain successes, two of which can hide each other.
- *code_caches*: as *request_cache*; script and module share nothing but the
  workers, so one of each is enough. Two codes let two flights differ.
- *algorithms*: `Inputs`, `Files` and `Texts` are sets of alphabets with a length,
  and TLC reads all words of each. The alphabets bring together the characters that
  interact (brackets of three levels; dashes, brackets and newlines; quotes and
  backslashes), and the lengths are those at which each construct occurs once with
  something before and after it. Directories have up to three names of up to three
  chunks, which is what a failure of transitivity needs. Two settings, two files
  and one label, nested up to three deep (`Nesting` 2). `Chains` goes past both limits, the
  scenario's and the default client's ten.

Deadlock is checked in every run but `algorithms`: where a system is done, it says
so in a stuttering action of its own (`Done`, `PoolDone`, `Ended`). The inputs of
`algorithms` are of bounded length and simply end.

### Fairness

Weak fairness of a goroutine's steps, as Go's scheduler gives it, and the
following, which the code provides: a flight ends because `client.Do` and the
reading of the response run under `CacheTimeout`; a scenario in `Runner` ends
because its context, its client and its scripts have timeouts (`ScenarioRun`
is the evidence: `Terminates`); the timer of `context.WithTimeout` fires; a flight of
`CodeCaches` ends because it reads one file and waits for no other flight, and a panic
in it is an end as well. `CommandLine` and `algorithms` have safety only. Nothing
is assumed of interrupts, of panics of a reporter, or of a reader of results in
`StopsWhenCanceled`; `EndsWhenRead` assumes one and says so in its statement.

## 4. The proofs

All theorems hold for every value of the constants that satisfies the `ASSUME`s
of the module, each of which TLC evaluates on the instances of the runs:

| Module | Assumption | Says |
|---|---|---|
| `RequestCache` | `KeyAssumption`, `ValueAssumption` | keys are a function of requests; error values are not answers |
| `Runner` | `PlanAssumption` | some workers, a plan of a natural number of bundles |
| `ScenarioRun` | `ScenarioAssumption` | natural bounds, hooks per request |
| `Reporting` | `PoolAssumption` | some reporters |
| `Treewalker` | `TreeAssumption` | directories in the order of the exploration, a file is in one directory |
| `CommandLine` | `PlanAssumption` | counts are natural numbers (`sinq.go` rejects others), matrices sequences of axes |
| `CommandLine` | `EndingsAssumption` | what results a scenario can have; `ResultsAreEndings` proves it of `ScenarioRun` |
| `NaturalOrder` | `NameAssumption` | names are sequences of bytes, and not empty |
| `RequestText` | `TextAssumption` | a text begins with a sequence |
| `Environments` | `EnvAssumption`, `PathAssumption` | files and settings hold objects nested no deeper than `Nesting`, along paths that are not empty |
| `Redirects` | `RedirectAssumption` | natural limits |

**RequestCacheProof.** `TypeCorrect`, `OneAnswer`, `NoFetch`, `NoLost`, `Stored`,
`OwnAnswers` and `ImplementsSafely`. That all served answers of a key agree is not
inductive. `IInv` adds why: what was served is what the cache holds
(`ServedInv`), a worker's inbox and a flight's result hold the cached answer or
an error (`WorkerInv`, `FlightInv`), the channels of a flight belong to workers
that wait for its key (`WaiterInv`), and an answer was made for a request of its
key (`CacheInv`). The step that needs all of it is `Store`: it may write only
because `NoFetchOnceStored` says that a flight that reads has nothing stored.
`OwnAnswers` has a premise, that the key tells different requests apart; it is the
premise that `request_key_ambiguous` shows to be false of `getHash`.
`ImplementsSafely` is the refinement of `AnswerOnce` without its fairness.

**ReportingProof, the runner.** `TypeCorrect`, `OnceOnly`, `NoPanicOnClose`, `Complete`. The
invariant accounts for every bundle that was taken: it is in a worker's hands,
reported, or given up (`Accounted`), and is given up only after a cancellation
(`DropInv`). A worker leaves an uninterrupted run only when the channel is
closed and empty (`WorkerInv`), and it is closed only when all was sent
(`CounterInv`). Together: when the channels close, every bundle is reported.

**ScenarioRunProof.** `TypeCorrect`, `NoFalseSuccess`, `Reasoned`,
`AbortedMeansInterrupted`, `SuccessIsComplete`, `ErrorsOutrank`. The
invariant adds that Error and Aborted end the chain at once, that a Failure has a
failed assertion on record which nothing erases, and that a canceled context
comes from a canceled run (`Verdict`, `Interrupts`). `StopIInv` is the lemma for
all the places that end in `handleError`. `ResultsAreEndings` joins this module to
`CommandLine`: it proves of every finished scenario of at least one request what
`EndingsAssumption` takes for granted there, with `RecordInv` (a Failure on
a request has its failed assertion) as the part that is not yet in the others.

**CodeCachesProof.** `TypeCorrect`, `OneCode`, `NoLost`, `ImplementsSafely`. The
argument is the one of the request cache, and it needs the same second lookup:
a flight that reads has nothing stored (`FlightMiss`), although the file it reads may
have changed. `NoLost` covers the flights that end in a panic.

**ReportingProof, the pool.** `ZeroMeansAllPassed`, `OneHasReason`. The proof builds on
the runner's: every step of the pool is a step of `Runner` or a stutter, so `IInv` of
the runner holds with the reporters attached. `PoolInv` adds where a delivered result
is: held by the fan-out (`Pending`), in the first channel, or `Counted`, and that
`count` is the cardinality of the last while nothing failed (`TallyInv`). A count
of N, with no two results for one bundle (`ReportedOnce`), leaves no bundle out
(`AllDelivered`). The other direction needs `CompleteUnlessCanceled`. Both have the
premise `Size = N`, that as many results were announced as the plan has bundles:
`Announced`, proved of the data source, is the evidence, and `--count 0` the
exception. `FanNeverWaits` is why a reporter that died, whose channel nobody reads
any more, holds nobody up: whenever the fan-out sends, the channel has room.
Its invariant (`ChannelInv`) counts what went into each channel: what
is in there, with the result the fan-out holds, are different delivered bundles, of
which there are N. `PoolTypeCorrect` is the type invariant of runner and pool, and
`PoolIsAReader` the refinement: with the pool attached the runner implements its
own specification, whose `Consume` stands for any reader.

**TreewalkerProof.** `ErrorsReturned`: every failure is in the hands of the
exploration or of a worker, in the channel, or collected (`OnItsWay`), unless the
walk was canceled; and the channel is closed only when no worker is left
(`CloseInv`). `PanicsOnlyWhenCanceled` bounds the panic that `treewalker_panic`
exhibits: no other walk can meet it, since without a cancellation the workers
leave only when the exploration has closed `taskCh`. `Isolated` and
`Exact` say what the caches have to do with it: two leaves share cached slices and
maps of the directories above them, and still each scenario holds the files of
its own way down, in order, or, if something failed, a part of them. `WalkInv` has a
part for each place in which a file can be: the caches (only the file
itself, or a broken version of it once it failed), the work of a worker (a prefix of
the way to its leaf, `SamePrefix`), a scenario under construction, one that
was collected; and it accounts for the tasks: sent, in hand, done or lost to
an error. `Exact` follows because without an error none is lost. `TypeCorrect` also
bounds the two channels.

**CommandLineProof.** `Announced`: the sum that `CountVariants` makes before anything
runs is the number of bundles that the loops of `startDataSource` send, for all
scenarios, filters, matrices and counts but 0. `EveryVariant`: each combination of
labels is sent equally often and no other, since `takePath` is a bijection between
path numbers and combinations (`TakePathInjective`, `TakePathSurjective`, by induction over
the axes). The invariant states at every position of the loops how many bundles
are due (`PositionInv`, `Due`) and how often each combination was sent (`VariantInv`).
`VerdictAgrees`, `JUnitAgrees` and `ExitZeroIsComplete` are about the end: three
reporters each make a verdict of their own of the same results, and the invariant
says how the three relate after every single one (`ResultInv`, `JUnitInv`,
`CoverInv`). They rest on `EndingsAssumption`.

**AlgorithmsProof.** `Sorted`: a directory of any size, with names of any length, is
in natural order once it is sorted, if its names are `Sortable`. It rests on
`CompareIsAnOrder`, which is what any sorting algorithm needs of `Compare`, and so
also covers directories too long for the insertion that the model uses: of two
names that are not `Alike` exactly one is less than the other, and it never goes round in
a circle. The proof takes `Compare` apart: it is the lexicographic order of two
sequences of chunks (`CompareIsLex`, `LexOrder`), in which a number counts by its value, so
that each chunk is replaced by the one way to write it without leading zeros (`Canon`);
these are strictly ordered (`ChunksOrdered`). That the excepted pairs are those with more or
fewer zeros and no others is `AlikeButForZeros`: names with the same chunks are the same
(`ChunkifyInjective`), and a number without leading zeros has one way to be written
(`NumberOfInjective`).

`ScriptEnds` is about scripts of any length over any alphabet. The lexer reads from
left to right, the reference looks at the whole text, and what follows may
change what a character is: a dash turns out to begin a comment, a bracket to open a
long one, or not. So the invariant speaks of all texts that begin with what was read.
`Settled` says that a place starts a token whatever follows, `InToken` that
in addition the depth of the lexer is the number of Lua's braces that are open there,
and `PlaceInv` has a line for each place of the lexer: where the token it is in
began, and why that token has not ended. `NextToken` moves on to the next one. The
delicate line is that of a long bracket: a closer of another level consumes
its second bracket, after which the lexer is blind to a closer that begins there, so the
invariant accounts for every bracket that might begin one (`MayClose`, `Spent`).
From the first construct that the property excludes on, nothing is claimed
(`Poisoned`). TLC has checked the invariant, with all texts up to a length in place of
all texts, before it was proved.

`LastWriter` is about objects of any fields, nested to any depth, any number of layers
and any settings. An environment that was merged from layers would be hard to
say anything about, so the proof is about one merge at a time: what is at the end of a
path in `DeepMerge(m, i)` is what `i` says about the path if it says anything, and
otherwise what `m` says (`Merged`, by going down the path in all three objects at once;
the cases are an object over an object, over anything else, and something that blocks the
way). `ParseIsMerge` shows that the loop of `parseKeyVal` does the same as merging the
setting as an object of its own, so the command line is a sequence of layers as well,
and `LastDecides` becomes inductive for both (`LayerAdded`). That a merge needs no look
at how deep its objects are is `MergeLevels`.

`LimitKept` is about `Redirects`, for every limit and every server: the number of requests
made, and which servers get an answer out of it, are what `max_redirects` says, exactly.

**RequestsProof, the file.** `RequestsSections` is about files of any length over any
alphabet, without any assumption. The reference looks at a whole section, and what
follows may change what a place means: three `#` become a header when the line ends,
the newline before them is dropped then, and a `#` may be the first of three. So
the proof is about a section that grows by one place. What a place is depends on
what comes before it only, so that everything but the new place is settled
(`SectionGrown`, which goes by the definition of `Escapes`, a recursive function, whose
meaning is `EscapesDef`); only the end of a section takes something back, its last
newline (`SectionCut`, `SectionEnds`). The invariant `FileInv` has four parts.
`HeadersRead`: the headers so far are those the parser found, the newest is the name of
the last blueprint, and what may still become one is what `reader` and `hash` are
about. `TextRead`: the token being read begins at the first place that is not yet in
the last blueprint, holds no script and nothing that is dropped, begins behind a
whole escape, and `escaped`, `hasEscapes` and the readers that skip blanks are right
about it. `LastRead`: the last blueprint has the content of its section up to there, and
the scripts since the blueprint before it. `Finished`: every earlier blueprint is its
section, and each section with content is one. A script or the end of a line turns the
open text into a token (`PayloadAppend`, with `EscapePayloadLists` for what unescaping a
token yields: all its places but the escapes, in order, none behind its end), a
delimiter moves the last blueprint to `Finished` or renames it. From an error on
nothing is claimed, and a line that the file's end cuts off (`OpenHeader`) is
excepted, as in the property. TLC checked `FileInv` on the words of the run before
it was proved.

**RequestsProof, the text.** `TextSent` is about texts of any length over any characters,
with `IsText`, that the text is a sequence, as its invariant: `TextIsSent` itself holds of every
sequence (`ParsedText`), since each step parses the text anew. Its premise is the one
of the property, that a carriage return has a newline behind it (`LinesEnd`). The proof
follows the parser along the lines of the reference. A place of the parser is within a
line or where it ends (`OnLine`), and what matters there is the set of words of the line
that are left (`Rest`): `scanWord` takes the first of them (`Scan`), `nextLine` fails
exactly if there is one (`NextLineDef`). So three words are read of the first line and
counted at the same time (`CountDown`), and the line is accepted as the reference would
(`FirstLine`). `scanHeaders` is a recursive function; `ScanHeadersDef` unfolds it, by
induction from the end of the text, which needs that every header makes progress
(`LaterIsLater`). What it finds from a line on (`HeadersOK`) is proved from the last header
back to the first (`HeadersFound`): a later Host or User-Agent hides this one
(`ValueStep`), any other header comes before those behind it (`OthersStep`), and an error
stays one. `TrimSame` is why values are compared without the blanks around them. At both
ends, `AfterRequestLine` and `AfterHeaders` say which line the headers begin with, and
where the body begins.

**Induction.** What a recursive function computes is proved by the least
counterexample (the least natural number at which the claim fails), or by
`NatSetInduction`, the induction principle with a set in place of a predicate.

**Only model-checked.** Liveness and everything that rests on fairness
(`EveryCallReturns`, `StopsWhenCanceled`, `EndsWhenRead`, `Terminates`, `AlwaysExits`,
the fairness of `AnswerOnce`): the prover has no rule for it. Every invariant that a
passing run checks is also proved.

## 5. Not modelled

- *Lua API* (`luapi/`): conversions of values (JSON, JWT, digests, random data) and
  bindings. What they do to the control of a scenario (jumps, failed assertions,
  skipping, caching) is in `ScenarioRun`; the rest has no state.
- *Decoding*: units of sizes and durations, the syntax of tags and of `env_matrix`,
  the flags other than `-e`, `-s`, `--count`, `--list` and the filters. A file or a flag
  that does not decode is a file that fails to parse, or `LeaveEarly`.
- *Maps that copies share*: `slices.Clone` of a matrix copies references to its maps.
  A file only appends whole axes to it (`config-parser.go:53`), and a merge only
  reads them, so no one can see the sharing.
- *Report writers' layout, spinner, terminal detection, completion, file system
  wrapper*: output and I/O.
- *The cookie jar*: which cookies it adds to which attempt, and what it does with the
  `Set-Cookie` of a cached answer.
- *Retry delays*: the timer of a retry may fire at any time in `ScenarioRun`, so an
  overflow of the delay is not visible.
- A race inside `bytes.Buffer` may tear the output it holds; the model has whole
  copies that find it full or empty.

## 6. Plan

Of what is left, in this order:

1. The cookie jar as part of `RequestCache`: a retry adds cookies to a request whose
   key was computed before.
2. The checks of `ParseConfig` as a function of its fields, with what a file that
   fails leaves of its values in the configuration of the files after it.
