# A formal model of AuthMapper

AuthMapper maps the HTTP endpoints of a code base and says which of them are
protected by authentication. It has two engines that share a process but no
code paths:

* the **legacy scan**: regular expressions from JSON rulepacks, run over every
  file, classified, compared with a baseline, reported, and turned into an exit
  code;
* the **evidence scan** (v2): an adapter turns one package into an evidence
  graph, the core validates the graph and derives a verdict per endpoint, and a
  policy, with expiring exceptions, turns the verdicts into a gate.

This directory holds TLA+ modules that model the parts of that program whose
correctness depends on order, combination or time, the TLC configurations that
check them, and TLAPS proofs of the properties that matter most. Paths below are
relative to `src/src/authmapper/`.

## Inventory

| Component | State | Operations | Interacts with | What is hard | What must hold |
|---|---|---|---|---|---|
| Regex execution, `core/safety.py` (`SafeMatcher`) | worker process, task queue, result queue, call counter | `finditer`, `close`, `_ensure_worker`, `_teardown_worker`, `_worker_loop` | one child process over two `multiprocessing` queues; the engine's `finally` | timeout racing a late answer, worker death, a worker that outlives its kill, Ctrl-C at any line, feeder threads, pipe capacity | an answer belongs to its call; no child escapes; every call returns |
| Evidence graph, `core/v2/graph.py`, `model.py` | an immutable graph | `validate` | built by adapters, read by the resolver and the gate | reachability along relations, provenance closure, interplay of nine groups of records | an accepted enforcement proof really links an endpoint to a guard |
| Resolver, `core/v2/resolver.py` | none | `resolve_endpoints` | graph in, verdicts out | order of the conditions | ambiguity beats proof; weak signals are inert |
| Express adapter, `adapters/express*.py` | per-file tables of receivers, mounts, orders | `analyze`, `build_graph` | source text in, graph out | names against objects, order, mounts across files, identifiers | GUARDED endpoints are enforced; reported paths are served; no route vanishes |
| Policy and gate, `core/v2/policy.py`, `app/evidence_gate.py` | none | `evaluate_evidence_policy`, `classify_gate_exit` | report and policy in, issues and exit class out | maturity, applicability, coverage and provenance combined | exit 0 means protected; setup failures dominate |
| Exceptions, `core/v2/exceptions.py` | the audit while it runs; a document edited between runs | `apply_evidence_exceptions`, `replace_evidence_exception` | gate violations, calendar | expiry, drift of the endpoint, two exceptions for one violation | one exception suppresses one violation, and fails closed |
| Legacy engine, `core/engine.py`, `regex_analyzer.py`, `classifier.py`, `walker.py` | result under construction | `scan`, per-file analysis | matcher, rulepacks, file system | one file or pack failing, timeouts, coverage accounting | no unread file counts as analysed |
| Runner, baseline, configuration, CLI: `app/runner.py`, `app/baseline.py`, `app/config.py`, `cli.py` | baseline file, report file | `run`, `write_baseline`, exit codes | engine, file system across runs | baseline written from an incomplete run, masking | a baseline hides only what it lists |
| JavaScript and Rust frontends, `frontends/javascript.py`, `rust.py` | the loop's counters, the sources kept, the diagnostics | `parse`, `analyze` | the disk (sources, `package.json`, `Cargo.toml`), adapters | limits that end a loop, manifests that are missing or broken, links, a disk that changes while it is read, exceptions nobody handles | nothing disappears in silence; trouble is said; what ends an analysis is known |
| Evidence scan, `app/evidence_runner.py` | the report under construction | `run_adapter_evidence_scan` | disk, frontend, adapter, core, policy, command line | three readings of one project, files left out, failures that must reach every verdict | a satisfied gate has seen everything |
| Ownership, `frontends/conformance.py` | claims merged so far | `resolve_ownership` | adapters' claims | order and repetition of claims, spellings of one file | at most one owner, whatever the order |
| Terminal UI, `tui/app.py`, `tui/input.py` | selection, window, filters, search text, mode, bytes of an unfinished key | key events | key decoder, result, report file | indices into a list that shrinks and grows, keys split over reads, resizing, failed exports | the selection is on the screen; one can always leave |
| Rulepacks, manifests, reporters, explanations, drawing | none | load, render | | | pure functions and formatting |

## Modules

| Module | Models | State | Actions |
|---|---|---|---|
| `MatchService` | what `finditer` promises: one call at a time, each answered or failed, until a worker outlives being killed | `pending`, `outcome`, `broken` | `Request`, `Answer`, `Fail` |
| `SafeMatcher` | `core/safety.py`: `SafeMatcher`, `_worker_loop` | the parent's place (`pc`, `after`), the call (`req`, `why`, `outcome`), `_worker` (`handle`), the processes (`proc`, `job`, `doomed`), both queues (`feeder`, `taskPipe`, `resultPipe`, `partial`) | `Finditer`, `Spawn`, `Put`, `Receive`, `Timeout`, `Close`, `CheckWorker`, `Terminate`, `JoinTerminated`, `Kill`, `JoinKilled`, `CloseWorker`, `CloseRaises`, `DropQueues` in the parent; `Boot`, `Take`, `Search`, `BeginWrite`, `EndWrite`, `TakeSentinel` in the child; `Flush` (the queue's feeder thread), `Crash`, `Die` (a signal arrives), `Interrupt` |
| `EvidenceGraph` | `core/v2/graph.py` (`Valid`) and `core/v2/resolver.py` (`Verdict`), as operators on a graph | none | none |
| `EvidenceAssembly` | any adapter that puts a graph together record by record | `graph` | `AddFact`, `Relate`, `Associate`, `Prove`, `Notice`, `Doubt`, `LeaveUnresolved`, `LoseCoverage` |
| `ExpressAdapter` | `adapters/express.py`, `adapters/express_semantics.py`: from statements to a graph | none | none |
| `ExpressScan` | the scan, and the Express program it scanned, run | `source`, `report`, `request`, `served` | `Write`, `Scan`; `Arrive`, `ThroughUse`, `IntoMount`, `ToRoute`, `Leave` (external: Express) |
| `EvidenceGate` | `core/v2/policy.py`, `core/v2/exceptions.py`, `app/evidence_gate.py` and the evidence branch of `cli.py` | the exception document, the calendar, the command's variables, the run before | `Start`, `Load`, `Examine`, `Conclude`, `Return`; `Grant`, `Withdraw`, `Replace`, `Tick` |
| `LegacyScan` | `core/engine.py`, `core/walker.py`, `core/regex_analyzer.py`, `core/classifier.py`, `app/config.py`, `app/runner.py`, `app/baseline.py` and the legacy branch of `cli.py` | the code, `.authmap.json`, the baseline file; the command's settings, scan result, gate and status | `Begin`, `Visit`, `Report`, `Gate`, `WriteBaseline`, `Clear`; `Edit`, `Configure`, `Damage` |
| `JavaScriptFrontend` | `frontends/javascript.py`: `parse` and `analyze`, and the disk they read | the disk (`file`, `manifest`, `changes`), `collected`, `stage`, the loop's `pending` and `total`, `sources`, `diagnostics` | `Analyze`, `ParseOne` (one source: kept, or one of five ways to be left out), `ParseDone`, `SummariseNext`, `ReturnAnalysis`, `FailAnalysis`; `DiskChanges` (external) |
| `RustFrontend` | `frontends/rust.py`, on the loop of `JavaScriptFrontend` | besides, the package being read (`owner`), `packages`, `summaries` | `AnalyzeRust`, `ParseRust`, `SelectWorkspace`, `WorkspaceIsGone`, `ReadDependencies`, `SummariseRust`, `FailRust` |
| `EvidenceRun` | `app/evidence_runner.py` with the Express adapter's `applicability` and `analyze`, from the disk to the exit class | besides the frontend's, `policy`, `first` (the first applicability), `analysis`, `outcome` | `Collect`, `Read`, `Decide`, `Parsed`, `SummariseOne`, `Analyzed`, `Extract`, `Finish`, `Fail`; `Change` (external) |
| `Ownership` | `resolve_ownership` in `frontends/conformance.py` | `claims`, `next`, `merged`, `phase`, `decisions` | `Merge`, `Refuse`, `Decide` |
| `Tui` | `tui/app.py`, `tui/input.py` | `unread` (bytes of an unfinished key), `ui` (selection, window, filters, modes), `height`, `report`, `screen`, `ended` | `Type`, `ExportFails`, `EndOfInput`, `InterruptRead`, `Interrupted` |
| `SafeMatcherProofs`, `EvidenceGateProofs`, `LegacyScanProofs`, `EvidenceRunProofs`, `RustFrontendProofs`, `OwnershipProofs`, `TuiProofs` | theorems about the module in their name (`EvidenceRunProofs` also: `JavaScriptFrontend`) | | |
| `EvidenceGraphProofs` | theorems about `EvidenceGraph`, `EvidenceAssembly`, `ExpressAdapter` and `ExpressScan` | | |
| `MC*` | the instances TLC checks | | |

`ExpressScan` extends `ExpressAdapter`, which extends `EvidenceGraph`; so do
`EvidenceAssembly` and `EvidenceGate`: the graph an adapter builds, the verdicts
and the gate are checked with the same validator and the same resolver.
`EvidenceRun` extends `JavaScriptFrontend` and `ExpressAdapter` and instantiates
`EvidenceGate` for the policy: it is the evidence scan as a whole.
`SafeMatcher` implements `MatchService` (`ImplementsService`), under the mapping
`pending <- req`, `broken <- Outlived`. Definitions that begin with "Faulty variant"
are not part of a model: each is a bug the code could have, and the properties
are tested by putting it in place of the definition that follows it.

### How the models read the code

* **`SafeMatcher`**. The parent is single threaded, so `pc` tells where it is:
  before `_ensure_worker`, at `put`, at `get(timeout=...)`, in `recv_bytes` once
  a message has begun, or in `_teardown_worker`. A `multiprocessing.Queue` is a
  buffer, a feeder thread and a pipe of bounded capacity; a text or an answer
  either fits in the pipe or needs a reader. A crash can happen to a worker in
  any state, Ctrl-C to a parent that waits, and then the engine's `finally`
  closes the matcher. `_teardown_worker` is taken line by line (`Stopping`): the
  worker runs on between `is_alive`, `terminate`, `join`, `kill` and `close`, and
  may end between any two of them. A signal sent to it is `doomed` until it
  arrives (`Die`). `join` returns after a second with the worker gone or not; one
  that is still there after the kill makes `Process.close` raise `ValueError`,
  which leaves worker and queues to the next call (`CloseRaises`).
* **`EvidenceGraph`**. A graph is a record of sets of records. Every check
  `validate` makes on identifiers, references, associations, proofs, ambiguity,
  cycles and advisory bases is a conjunct of `Valid`. Where the code searches
  (`_relation_path_nodes`) the model states what the search returns; which one
  of equally short paths the code takes is left open. `EvidenceAssembly` ties up
  to two facts to an endpoint: a claim, and beside it a weak signal (`Notice`) or,
  after a proof, an ambiguity (`Doubt`).
* **`ExpressAdapter`**. A statement records which node patterns of the adapter
  match it; identifiers keep what distinguishes them in the code (kind, file,
  position, method, argument). The tables the adapter keeps by name, and its
  peculiarities (a second declaration of a receiver's name removes it, a third
  adds it again), are as in the code. A receiver is looked up by name at the end
  of the first pass; in the run beside it a name means what JavaScript gives it
  where it is used.
* **`EvidenceGate`**. Reports are arbitrary valid graphs with reported
  capabilities. The loop of `apply_evidence_exceptions` is one action per
  exception, in the order of their ids. Dates are numbers.
* **`JavaScriptFrontend`**. A file is absent, unreadable, or one of `Contents`: a
  size, whether it parses, and its import and export statements. `Target` resolves
  links, `Position` is the alphabetical order the loop goes by, `Upwards` the
  directories `nearest_package` climbs. Two exceptions have no handler: a text of
  the tree that is not UTF-8, or a tree deeper than `walk` can recurse (a source that
  is not `legible`; either shows when it is summarised), and a manifest nested deeper
  than its parser can recurse (`nested`); they end in the stage `failed`. A diagnostic is kept with the coverage
  record it is paired with; `via` says under which path a source was collected,
  which its id does not. The disk may change between any two readings, at most
  `MaxChanges` times.
* **`RustFrontend`**. The checks before parsing are those of the other frontend,
  one by one. What belongs to a source is put together from three readings of
  manifests, each an action of its own: the nearest `Cargo.toml`, the outermost
  one with a workspace, and that one again. `RustRaises` is the union of what
  `text`, `walk` and `_load_toml` raise without a handler.
* **`EvidenceRun`**. The project is collected once and read three times: for
  applicability, for analysis, and by the applicability that analysis asks for
  again. The first reading says whether the adapter is active, the second is what
  the graph is built from. The adapter takes texts out of the trees itself, and decodes
  whole files (`decodes`); whether it comes across what it cannot decode depends on the
  nodes it asks for, so `Fail` is possible wherever such a source is looked at and
  certain where a file is decoded as a whole. The graph is built by the operators of `ExpressAdapter`, the
  verdicts and the gate are those of `EvidenceGraph` and `EvidenceGate`.
* **`Ownership`**. A subject is the sequence of its segments between slashes;
  normalisation (backslashes, doubled slashes, `/./`, a leading `./`, slashes at
  either end) is done on it in the code's order. `Decisions` is a function of the
  merged claims, as in the code's second loop.
* **`Tui`**. A key is put together byte by byte by the reader of either platform,
  then dispatched to the handler of the mode, then the frame is drawn, which is
  where the window follows the selection in the terminal's present height. The
  export in the middle of a key may fail, which ends the application.
* **`LegacyScan`**. A file is visited as a whole; each pack that supports it may
  fail on it, whatever the reason. Lines carry what the patterns find on them: a
  route, a guard, a suppression comment. Files are visited in any order, which
  the code fixes but no property depends on. A fingerprint is the triple the code
  hashes. A document (project file, pack, baseline) is good, missing, refused by
  its reader, or makes its reader raise what it does not catch.

## Runs

| Run | Shows | Bounds and why they are enough |
|---|---|---|
| `matcher` | No child escapes. As long as killed workers die, an answer returned by a call was computed for that call, between calls nothing is left in a queue or a worker, and `SafeMatcher` implements `MatchService`. An endless search is reaped; every call returns or raises unless a text or an answer was cut off inside a pipe (`Unread`, `HalfAnswered`) | Two processes (the matcher never holds more than one), two call names (one served, one for what is left of another: `FreshId` takes a name only when nothing mentions it), one worker that outlives its kill, a task of each kind: quick, endless, raising, too large for the task pipe, with too large an answer. Calls are unbounded: names are reused |
| `evidence_graph` | An accepted graph that calls an endpoint GUARDED meets the contract; no guard rests on advisory facts; an ambiguity is not outvoted by a valid proof on the same endpoint; weak signals change no verdict | Every graph over a skeleton of two endpoints with up to two further facts and two relations, and a claim, a weak signal or an ambiguity, a proof and an unresolved record about them, valid or not: enough for a direct, a global, a backwards, an upwards and a foreign link and for a two-step advisory derivation |
| `express_supported` | What is GUARDED cannot be reached without credentials; an endpoint is reported under the path it answers unless UNRESOLVED; a route that answers is reported or something is reported as open; the adapter builds only graphs the core accepts | An application file with a local router and up to three further statements, an imported router with one, and every request: enough for guards before and after routes, two mounts of a local router, mount middleware, chains, computed paths, and public declarations |
| `express_twice` (violated) | Finding 1 | Two mounts of one imported router |
| `evidence_gate` | What success, a violation and a setup error mean; one exception for one violation; no exception excuses a setup error; an audit fails closed; neither the order of exceptions nor waiting helps; only verified, active capabilities block | Two endpoints in seven postures, three policies, six exceptions (two of one id, two for one violation, one that ends before it begins) of which the document holds two at a time, four days: every exception has a day before, on and after each of its dates |
| `legacy_gate` | A scan on which a pack failed never succeeds; strict coverage and baselines are complete; a gate that passes let through only what the baseline accepted; a fresh baseline keeps quiet; status 1 means findings | Four files: one routed, one that two packs support (one of them takes the file as the endpoint), one no pack supports, one ignored; nine command lines, four project files; commands, edits and damaged baselines in any sequence, without bound |
| `frontend` | A source collected is parsed, diagnosed, or the project is; a broken package, an ambiguous name and an import from another package are errors of the analysis | Every set of four paths (a link and a TypeScript file among them) over two packages, six contents (one of them not legible), a manifest nested too deeply, each limit within reach, one change of the disk at any time: enough for every exit of the loop, each in front of and behind another source |
| `rust_frontend` | On a disk at rest an exception leaves the analysis only for an illegible source or a manifest nested too deeply; what an analysis is silent about is resolved, with the crate the manifests name | Three sets of sources over a crate and a workspace member, every pair of manifests (missing, broken, nested too deeply, a workspace, a member that inherits, both), a source that is not legible, one change: enough for an inherited dependency that is missing, shadowed or declared, and for a workspace that vanishes between its two readings |
| `scan` | A satisfied gate saw every file its adapter takes; verdicts rest on sources read without error; a project at rest in which the adapter is inactive fails closed; endpoints lie in files the adapter owns | An application, an imported router, a package of its own for the router, links to files the collection excludes, a test, sources that do not decode or are nested too deeply; 1968 projects at rest, each with and without a policy, and the two-file ones (`Restless`) with one change at any time. The change is bounded to those disks because the readings of further files repeat the same race |
| `scan_race` (violated) | Finding 2 | Two files, one change |
| `ownership` | At most one owner, who earned it; the decisions do not depend on order or repetition; a further claim never hands a declaration over | Every tuple of up to four claims out of fifteen: three adapters, two declarations, five spellings of one of them, every state and role, and three claims that are refused. Four are two claims, one repeated, and one that comes between |
| `tui` | The selection is a listed finding inside the window; the bytes of Escape, Enter and q leave from every mode, and from the middle of every key | Nine findings in a window of seven or eight rows, filters and searches that leave nine, eight, one or none, one character of search text, two platforms, 24 bytes: sequences of keys are unbounded |

Deadlock is checked except where the system may stop: `EvidenceAssembly` has no
more records to add, a parent cut off in a pipe waits for ever (`matcher`), an
exception ends an analysis, a scan is over when it has its outcome, the
claims are decided once, and the terminal application ends.

**Bounds.** `MaxFacts`, `MaxRelations` (`EvidenceAssembly`), `MaxStatements`
(`ExpressScan`), `MaxSurvivals` (`SafeMatcher`), `MaxDay`, `MaxExceptions` (`EvidenceGate`), `MaxChanges`
(`JavaScriptFrontend`, `RustFrontend`, `EvidenceRun`), `MaxClaims` (`Ownership`)
and `MaxQuery` (`Tui`) are guards of the actions that would grow the state;
`Restless` says which disks change in `scan`; `NoOrder` and the factor of ten in
`Order` separate statement positions from argument positions. `MaxFiles`,
`MaxBytes`, `MaxTotal` and `MaxSummaries` are no bounds of the model but the
limits of the code, made small. Nothing else is bounded. The spellings in
`ownership` have at most one `.` segment and none at the end: the code's single
`replace` leaves `a/././b` and `a/.` as they are, so declarations spelled that way
are two, which the checked property does not claim otherwise.

**Fairness.** Only `SafeMatcher` has liveness properties. `LiveSpec` assumes weak
fairness of the parent's own steps (a running thread runs), of `Timeout` (the
clock advances, and `get` honours its timeout), of a live worker's steps (the
operating system schedules it), of `Flush` (the feeder is a thread of the parent)
and of `Die` (a signal sent to the worker arrives, though not necessarily within the
second that `join` waits). Nothing else forces a crash, and nothing a call, a close
or a Ctrl-C.

## Proofs

`SafeMatcherProofs` proves, for any number of processes, calls and tasks of every
kind, from `SafeMatcherAssumption` (`None` is neither a process nor a call; the
kinds are subsets of the tasks): `TypeCorrect`, `NoStaleAnswer`, `NoOrphan`,
`CleanBetweenCalls` and, with `Refinement`, that every behaviour is one of the
match service. `NoOrphan` holds through every step of the teardown, and even when
`close` raises; the others promise nothing once a killed worker has outlived its
join (`Outlived`), for then they are false (`SafeMatcher_outlived.cfg`). None of the safety properties is inductive: that an answer belongs
to its call depends on where the call has been. `IInv` adds what the argument
needs: while the parent waits, its call is in exactly one of the feeder, the pipe,
the worker and the answer queue (`CallInOnePlace`), and whenever the parent is
outside a call, or has just torn the worker down, nothing is anywhere
(`CleanIsQuiet`). `Invariance` proves it action by action. The refinement maps
`Finditer` to `Request`, the receipt of an answer to `Answer`, the end of a call
that timed out or was interrupted to `Fail`, and everything else to a stutter;
`CloseRaises` ends the promise (`broken`).

`EvidenceGateProofs` proves, for all reports, policies, exceptions and calendars
allowed by `EvidenceGateAssumption`: `TypeCorrect`, `OneForOne`,
`SetupDominates`, `PassMeansProtected`, `AdvisoryNeverBlocks` and
`ExceptionsInForce`. The invariant relates what is left of the violations to the
audit so far: each consumed entry took one violation out of the rest, entries are
distinct, only violations an exception may name were taken, and the exit is the
class of what is left. `PassMeansProtected` follows from it, the definition of
`Violations`, and the fact that no exception names a setup error.
`NoExceptionIsIdle`, `OrderIsImmaterial` and `TimeOnlyRevokes` compare one audit
with another one, of an earlier day or a reordered document. `AuditInv` carries
the comparison: the loop goes by id and an exception is consumed if those before it
leave one violation that it names (`SpentInTurn`); any `Plan` by which every
exception of the document would be consumed is what the audit does
(`PlanIsFollowed`); and the run before ended as its own plan says
(`PreviousIsSettled`). They need `OneAdapterAssumption`: the report is of one
adapter, as `run_adapter_evidence_scan` writes it. With the records of two adapters
in one report, an exception can name several violations of one rule, and then
neither `AuditFailsClosed` nor `OrderDoesNotMatter` holds.

`LegacyScanProofs` proves, for all files, packs, settings and command lines allowed
by `LegacyScanAssumption` (settings that reach a run were validated, `None` is none
of the values it stands against): `TypeCorrect`, `PartialNeverPasses` and
`ThresholdsAgree` outright; `GateIsSound` where the walk can list every directory
(`Sealed = {}`); `OneMeansFindings` and `FreshBaselineIsQuiet` where every document
can be decoded (`Decodable`); and `StrictIsComplete` under both. The two hypotheses
are exactly what `LegacyScan_unlisted.cfg` and `LegacyScan_exit.cfg` violate (see
Findings). The properties speak of the end of a command, and nothing in them says
how it got there: `IInv` adds that every file the walker has passed is in the
coverage with the status its fate deserves, and with all its findings if no pack
failed (`VisitedAreAccounted`); that a file with an error is covered by an ERROR
record (`ErrorsAreCovered`); that the baseline holds the fingerprints of what was
accepted last, or cannot be used (`BaselineIsAccepted`); and that the exit status
was computed from findings, errors and coverage (`StatusIsEarned`). `BaselineInv`
relates a scan to the tree and the settings: it finds nothing but what is in sight
(`FindingsAreInSight`), all of which a baseline that was written without an error
holds (`RecordedIsAccepted`). `ThresholdsAgree` is about a property that no run
checks: the gates by state and by severity are the same gates.

`EvidenceGraphProofs` proves, for graphs of any size: an ambiguity about an
endpoint leaves it UNRESOLVED in every graph the core accepts
(`AmbiguityAlwaysDecides`), a weak indicator added to a graph, or tied to an
endpoint, changes no verdict (`WeakSignalsAlwaysInert`), what GUARDED needs
(`GuardedNeeds`), that it meets the contract of an enforcement proof
(`GuardedAlwaysMeetsContract`), and that nothing such a proof was derived from, in
any number of steps, is advisory (`GuardNeverRestsOnAdvisory`). The second is a
property of steps: the verdict is shown to be a function of those parts of the graph
that such a step leaves alone. The last two compare the searches of the validator,
which go step by step, with reachability as the contract means it: `Stages` grows
until it is closed under the edges, and no later than after as many stages as there
are edges, because the stages before it are strictly larger each. That needs
finite graphs (`GraphInv`; records derived from finitely many others, in
`EvidenceAssemblyAssumption`).

Its third part is about the Express adapter: `BuiltGraphIsValid` says that the graph
of every program within `OneCallPerMethod` passes every check of the core, and `AdapterGraphAlwaysValid` that no
scan is refused. Programs have any number of files, statements, calls and
handlers. The lemmas follow the conjuncts of `Valid`. Each group of records is listed
by what its records are of (a statement, a call, a handler, a claim about an
endpoint), and one identifier belongs to one of those (`IdsAreUnique`); every
reference is to a record that the same statement, or the one it is mounted or declared
by, puts into the graph (`ReferencesAreOfTheGraph`). The climb along mounts ends
because a receiver seen twice ends it (`ClimbedIs`). Derivations descend from proofs
to claims, from these to endpoints, and end at evidence and relations
(`DerivationsDescend`), so nothing derives from itself; and what a proof rests on, in
any number of steps, has nothing to do with an ambiguity, the one advisory fact the
adapter makes (`Firm`, `ProofsAreFirm`). The path of an enforcement proof is the one
relation that holds its guard (`OneRelationPath`, `EnforcementHolds`). The invariant
about the scan, `ScanInv`, only says that statements are added to a program and that
what was reported stands. `OneCallPerMethod` is the one hypothesis: the calls of a chain name different methods,
and a public declaration stands above a single call. Both conditions are needed, since
identifiers are made of a position and a method: without the second,
`ExpressScan_chain.cfg` shows a scan that is refused. TLC evaluates the hypothesis for
the statements of `express_supported`, which meet it.

`EvidenceRunProofs` proves, for any project, any limits and any number of changes of
the disk: of the frontend, `NoSourceEverDisappears`, which is inductive as it stands,
and `TroubleIsAlwaysDiagnosed`, whose `IInv` says that a source is kept once, that it
is pending until it is summarised, and that from then on what is wrong with it has
been said; of the scan as a whole, `SatisfiedSawEverySource`, `RestFailsClosed`,
`VerdictsAreClean` and `EndpointsHaveOwners`. `RunInv` says what each phase knows of
the readings so far: nothing collected is left out of either without an error
(`NothingIsSkipped`); a scan that ends with an exception has no outcome; the first decides the applicability (`FirstIsFounded`), graph
and outcome are of the second (`OutcomeIsOfAnalysis`); and on a disk at rest both
take the same turns of `parse`'s loop, to the same sources (`ReadingsAgree`, with
`Course`, the loop as a function of the number of turns). The verdicts lead through
the gate into the graph: a policy that passes (`EvidenceRunAssumption`: policies are
valid) found its coverage analyzed, and coverage is analyzed only without an error.

`RustFrontendProofs` proves `StillDiskIsAlwaysAnalyzed`: on a disk at rest an
analysis that ends with an exception met a source that is not legible or a manifest
that is nested too deeply (`Culprit`). Nothing else can be the reason: the workspace
manifest is read a second time without a handler, but while the disk is at rest none
is needed, since `_workspace_manifest` only selects what it could read. `IInv` carries
the selection over the step between the two readings; that a first and a last
directory exist at all (`FirstPosition`, `LastPosition`) follows from the naturals
being well founded. `SilenceAlwaysMeansResolved` says what the absence of a
diagnostic is worth: `SilenceInv` follows each path from the collection to its
summary, and says of every step that it either keeps the path or mentions it.

`OwnershipProofs` proves, for any claims in any number: `TypeCorrect`,
`OneOwnerAlways` (so `_validate_decisions` never raises), `OwnerIsStable` and
`OrderIsIrrelevant`. The merge loop is related to the claims read so far from both
sides: nothing merged is invented (`NothingInvented`), nothing read is forgotten
(`NothingForgotten`), keys are unique, and the evidence of a key is the union of
what was read under it (`EvidenceIsUnited`); with these the merged claims equal a
reference that looks at the set of claims only. `SelectionsAreEarned` is about
spellings. Each of the four steps of `_normalize_identity` keeps a subsequence of the
text with all the segments that lead somewhere, and to keep some of what was kept is
to keep some of it at once (`KeepKeep`): so an identity leads where its text does, as
a path, for every text that is not refused (`NormalizedLeads`). The converse needs
more: `a/././b` and `a/b` lead to one place and are two identities. A text is spelled
well (`WellSpelled`) when every "." in it stands before a segment that leads
somewhere, and such a text, unless it is refused, is normalised to the canonical form
of where it leads (`NormalizedIsCanonical`). The theorem assumes
`ClaimsAreWellSpelled`, which TLC evaluates for the claims of the run, and it rests on
`ReadClaimsAreSound`: whatever was read without a refusal passed `validate_claim`.

`TuiProofs` proves, for any findings, bytes and terminal heights: `IInv` (the
selection is within the list and the window, and the two prompts are never open
together), from it `SelectionAlwaysShown` and `AlwaysAWayOut`, for the bytes of both
platforms' readers: whatever has been read of a key, Escape, Enter and q either
complete it or stand as keys of their own, and the q that is left over quits. Each handler keeps
the selection within the list (`NormalKeyIsGood`, `SearchKeyIsGood`,
`ExportKeyIsGood`), whatever the list has become; the frame then keeps it within
the window (`DrawnIsShown`).

What a loop or a search computes is a recursive function in these modules, and two
facts about such functions are proved where they are needed, from the naturals
being well founded (`LeastNumber`): that the function is defined, since a function
that satisfies the first k equations extends to one that satisfies the next, and
that a set of numbers with zero and all successors is all of them (`SetInduction`),
which takes the place of induction over a predicate.

Only model-checked, and why:

* liveness (`FinditerReturns`, `RunawayReaped`): fairness and
  `ENABLED` are beyond the prover;
* the Express properties about the program at run time (`GuardedIsEnforced`,
  `ReportedPathIsServed`, `ServedIsReported`): they hold for the documented
  envelope, which the run enumerates (`SupportedMain`, `SupportedChild`), and fail
  outside it, as the findings show; for all programs there is nothing to prove.

## Findings

Each is the counterexample of a run that states what the documentation says.

1. `express_twice`: an imported router mounted once behind a guard and once
   without is reported GUARDED for all its routes.
2. `scan_race`: applicability is decided on one reading of the project and the graph
   is built from another. When a `package.json` loses express in between, the
   report says every capability is active, has no endpoint, and satisfies the gate.

Further statements of the documentation that the code refutes, each with a
configuration that shows it (`tlc -config X.cfg` on the MC module of that name):

* `ExpressScan_conditional.cfg`: an `app.use(guard)` inside an `if` is an
  enforcement proof for every later route;
* `ExpressScan_chain.cfg`: a public declaration above a chain of methods gives two
  records one id, and the whole package's scan is refused;
* `LegacyScan_exit.cfg`: a baseline, project file or pack that is not UTF-8 (or a
  pack whose pattern does not compile) ends the command with a traceback and status
  1, which means findings;
* `LegacyScan_unlisted.cfg`: a directory that cannot be listed leaves no coverage
  record, and `--strict-coverage` succeeds;
* `SafeMatcher_outlived.cfg`: `_teardown_worker` means to leave no worker behind
  (`core/safety.py:193`), but `close()` raises `ValueError` of a worker that is still
  there a second after it was killed. The exception leaves `finditer`, the worker and
  its queues are kept, and the answer in them is returned to the next call;
* `ExpressScan_redeclared.cfg`: from a name's third declaration on, a guard registered
  on the second receiver counts for the routes of the third (beside an unresolved
  record, which does not touch the verdict);
* `Tui_escape.cfg`: the help overlay says that Escape cancels the search and closes
  the overlay (`tui/widgets.py:270`). On Unix the reader waits for another byte after
  it and takes that for the second one of a sequence, so Escape shows no effect until
  the next key, which is lost: Escape and q leave nothing;
* `EvidenceRun_downgrade.cfg`: a source the frontend could not resolve is a failure
  with coverage of its own; the adapter keeps its diagnostic and drops the coverage.

Met on the way, without a run of their own:

* the docstring of `_load_accepted_baseline` says a missing baseline is treated as
  empty; `load_baseline` raises and the run ends with 2, as the model has it;
* the regex budget starts before the worker does, so a slow start is reported as a
  regex timeout;
* a computed mount prefix leaves a record about the mount, but the routes below it
  keep a definite verdict;
* an imported router mounted on a local router that is itself mounted loses the
  outer prefix; `express_supported` mounts imported routers on the application;
* a chain that names one method twice (`router.route("/a").get(f).get(g)`, which
  Express runs in turn) makes two endpoints of one id (`adapters/express.py:690`), and
  the whole package's scan is refused;
* a suppression comment on an endpoint's line also suppresses an endpoint on the
  next one;
* adding a guard elsewhere in a file turns an accepted EXPOSED into an UNKNOWN,
  which the baseline does not know;
* `_teardown_worker` joins the task queue's feeder thread: when a text larger than
  the pipe is still on its way and the worker is gone, nobody reads it, and
  `finditer` waits instead of raising `RegexTimeout` (`Unread`); a worker that dies
  in the middle of writing an answer leaves the parent in `recv_bytes`
  (`HalfAnswered`);
* a file collected under two paths (a link and its target) makes every id of it
  twice, and the report is refused;
* a declaration spelled with `/././`, or with `/.` at its end, is another
  declaration to `resolve_ownership`;
* `_workspace_manifest` passes over a manifest it cannot read, and the second
  reading of the one it selected has no handler: if that file changes in between,
  the whole Rust analysis ends with an exception;
* `text` and `walk` (`frontends/_treesitter.py:14-21`) decode and recurse without a
  handler, so one source with a string in another encoding, or one nested too deeply,
  ends the analysis of the whole project. `UnicodeDecodeError` is a `ValueError`, so the
  command ends with 2 (`cli.py:288`); `RecursionError` is not, and ends it with a
  traceback and status 1, which means findings;
* a trailing comma in a use tree makes `_expand_use` add a binding of the prefix;
* on Unix the key reader gives up after three bytes of an escape sequence, so Page
  Up, Page Down and Delete, which take four, are never decoded, though the help
  overlay (`tui/widgets.py:265`) says that the first two turn the page;
* at the end of input the browser reads Escape for ever, and draws each time;
* an export that fails ends the browser in the alternate screen.

## What is not modelled

* **In `SafeMatcher`**: Ctrl-C between two lines of `_ensure_worker` or
  `_teardown_worker`. A worker that is about to be killed (`doomed`) takes no step of
  its own: what it might still do it could as well have done just before the signal.
  Reading files, redaction and path confinement are pure functions or single I/O
  calls.
* **In `ExpressAdapter`**: catch-all handlers (`app.use(handler)`), mounts of an
  imported router without a prefix or in an array, callback and factory
  parameters, re-exports, and parsing.
* **In the frontends**: a source's turn in the JavaScript `parse` is one step: a change
  of the disk falls between two sources, not between the reading of one and that of
  its `package.json` (the Rust frontend's readings are steps of their own). What the
  parser recognises is part of a source (statements, bindings, the paths a use tree
  expands to); the generic syntax lists, which no adapter reads, are left out.
* **In `EvidenceRun`**: adapter packages and the registry, explanations, wording.
* **In `EvidenceGate`**: advisories and the wording of issues, and schema
  validation of policies.
* **In `LegacyScan`**: the AST analyzer, `--interactive`, output, glob
  translation, symbolic links and decoding. A command reads files and settings
  that do not change under it. Packs given with `--rulepacks` matter only for
  whether they load: what they find is what `Packs` says.
* **In `Tui`**: the order of the list, and with it what the sort mode changes.
* **Whole components**: reporters, manifests, explanations, the AST analyzer and the
  drawing of cells: functions of finished values, without state, order or time.

## Plan

1. `SafeMatcher`, `MatchService`, `SafeMatcherProofs`: the one truly concurrent
   part. Done.
2. `EvidenceGraph`, `EvidenceAssembly`: validator and resolver. Done.
3. `ExpressAdapter`, `ExpressScan`: the adapter beside the program it scans. Done
   for the documented envelope.
4. `EvidenceGate`, `EvidenceGateProofs`: policy, exceptions, calendar, exit class.
   Done.
5. `LegacyScan`: settings, walker, engine, classifier, gate, baseline, exit
   status. Done, with the failure of a pack left open rather than composed with
   `MatchService`.
6. `LegacyScanProofs`. Done.
7. `EvidenceGraphProofs`. Done, the searches included.
8. `JavaScriptFrontend`, `RustFrontend` and their proofs. Done.
9. `EvidenceRun`, `EvidenceRunProofs`: the evidence scan as a whole, while the disk
   changes. Done.
10. `Ownership`, `OwnershipProofs`. Done.
11. `Tui`, `TuiProofs`. Done.
12. Express composition beyond default exports (array mounts, callbacks,
    re-exports) and catch-all handlers. Left.
13. `AdapterGraphIsValid` for all programs the adapter supports. Done.
