----------------------------- MODULE EvidenceRun -----------------------------
(***************************************************************************)
(* run_adapter_evidence_scan (app/evidence_runner.py) with the Express     *)
(* adapter, from the files on disk to the exit code of the command line.   *)
(*                                                                         *)
(* The project is collected once and read three times: applicability reads *)
(* it, analyze reads it again and then asks for the applicability once     *)
(* more.  The first reading says whether the adapter is active, the second *)
(* is what the graph is built from, and the disk may change all the while. *)
(*                                                                         *)
(* A source also has, for the adapter,                                     *)
(*   binds     a name that is bound to express                             *)
(*   loose     route calls on app or router in a module with exports       *)
(*   program   its statements, as in ExpressAdapter; a mount of an imported *)
(*             router names the module: [.. module, inline], where inline  *)
(*             is recv.use(prefix, require(module))                        *)
(*   decodes   the file is UTF-8 from end to end: text decodes nodes, the  *)
(*             adapter whole files as well                                 *)
(***************************************************************************)
EXTENDS JavaScriptFrontend, ExpressAdapter

CONSTANTS
  Suffix, Stem, Folders,     \* of a path: its suffix, its stem, the folders it is in
  Policy,                    \* the evidence policies, None for a scan without a gate
  Restless                   \* bound: the disks that change during a run

Extensions      == {".js", ".mjs", ".cjs"}     \* ExpressAdapter.source_extensions
DefaultExcludes == {".git", ".hg", ".svn", ".tox", ".venv", "__pycache__", "build", "coverage",
                    "dist", "node_modules", "vendor", "venv"}
FileExcludes    == {"test", "tests", "spec", "specs"}

ExpressId == <<"express">>      \* its id and version, a tuple like every identifier here

VARIABLES
  policy,      \* the policy of this run
  first,       \* what the first reading says of applicability, or None
  analysis,    \* the sources and diagnostics of the second reading, or None
  outcome      \* the report and the exit class, or None

caseVars == <<policy, first, analysis, outcome>>
vars     == <<disk, collected, stage, reading, caseVars>>

Gate == INSTANCE EvidenceGate WITH
          Reports <- {}, Policies <- {}, ExceptionOptions <- {}, MaxDay <- 0, MaxExceptions <- 0,
          today <- 0, document <- {}, phase <- "idle", report <- None, policy <- None,
          violations <- {}, loaded <- {}, now <- 0, remaining <- {}, audit <- <<>>, exit <- None,
          previous <- None

\* EvidencePolicy refuses anything else.
ASSUME EvidenceRunAssumption == \A p \in Policy \ {None} : Gate!ValidPolicy(p)

-----------------------------------------------------------------------------
(* Collection and applicability *)

\* _collect_sources
Collects(p) ==
  /\ p \in Inside /\ IsFile(p)
  /\ Suffix[p] \in Extensions
  /\ Folders[p] \cap DefaultExcludes = {}
  /\ Stem[p] \notin FileExcludes
  /\ Folders[p] \cap FileExcludes = {}

\* _has_express_dependency: only then is the tree searched for bindings.
Declared(read) == {s \in read : s.manifest = "express"}

\* _source_is_active
Active(s) == s.manifest = "express" /\ s.content.binds

\* Faulty variant: the dependency alone activates.
ApplicabilityByDependency(read, diags) ==
  [state    |-> IF diags # {} THEN "ambiguous"
                ELSE IF \E s \in read : s.manifest = "express" THEN "active" ELSE "inactive",
   evidence |-> {s.path : s \in {x \in read : Active(x)}}]

\* Faulty variant: evidence is told apart by package.
ApplicabilityByPackage(read, diags) ==
  LET active == {s \in read : Active(s)}
  IN  [state    |-> IF diags # {} THEN "ambiguous" ELSE IF active # {} THEN "active" ELSE "inactive",
       evidence |-> {s.path : s \in {x \in active : \A y \in active : y.package = x.package
                                                       => Position[x.via] <= Position[y.via]}}]

\* applicability; only bindings carry a span, so its evidence is by source.
Applicability(read, diags) ==
  [state    |-> IF diags # {} THEN "ambiguous"
                ELSE IF \E s \in read : Active(s) THEN "active" ELSE "inactive",
   evidence |-> {s.path : s \in {x \in read : Active(x)}}]

\* _first_unowned_route_call: an error in a module that cannot be active.
Unowned(read) ==
  {Failure("unowned", s.via, 0, "error", Nowhere)
     : s \in {x \in Declared(read) : ~x.content.binds /\ x.content.loose}}

ApplicabilityError == [id |-> <<"applicability">>, via |-> Nowhere, level |-> "error",
                       span |-> Nowhere, coverage |-> Nowhere]

-----------------------------------------------------------------------------
(* From the second reading to the graph *)

\* An inline require is resolved below the package, an import below the project.
WithinPackage(s, target) ==
  IF target # Nowhere /\ s.package \in Range(Upwards[Parent[target]]) THEN target ELSE Nowhere

MountTarget(s, m) ==
  LET target == ResolveLocalModule(s.path, m.module)
  IN  IF m.inline THEN WithinPackage(s, target) ELSE target

\* The programs as the adapter sees them: a source that is not active has no
\* statements, and a mount leads to an active source or nowhere.
Programs(read) ==
  LET active == {s \in read : Active(s)}
      seen(s, stmt) ==
        IF stmt.op # "mount" \/ stmt.module = None THEN stmt
        ELSE LET target == MountTarget(s, stmt)
             IN  IF target \in {x.path : x \in active} THEN [stmt EXCEPT !.file = target]
                 ELSE [op |-> "none"]
  IN  [f \in File |->
         IF \E s \in active : s.path = f
         THEN LET s == CHOOSE x \in active : x.path = f
              IN  [i \in DOMAIN s.content.program |-> seen(s, s.content.program[i])]
         ELSE <<>>]

Errors(diags) == {d \in diags : d.level = "error"}

\* Faulty variant: only errors that name the file count.
FailedByName(diags, f) == \E d \in Errors(diags) : d.span = f

Failed(diags, f) == \E d \in Errors(diags) : d.span \in {Nowhere, f}

\* build_express_graph with the diagnostics of the analysis.
GraphOf(program, diags) ==
  LET g == BuildGraph(program)
  IN  [g EXCEPT
        !.provenance  = {[id |-> p.id, capability |-> p.capability, adapter |-> ExpressId] : p \in @},
        !.coverage    = {[c EXCEPT !.status = IF Failed(diags, c.target[2]) THEN "error" ELSE @] : c \in @},
        !.diagnostics = {[id |-> d.id, level |-> d.level, subject |-> None, derived |-> {}, via |-> d.via]
                           : d \in diags}]

\* The same source under two paths declares everything twice.
DeclaredTwice(read) ==
  \E s, t \in {x \in read : Active(x)} :
    s # t /\ s.path = t.path /\ \E i \in DOMAIN s.content.program : s.content.program[i].op = "router"

Maturity(c) == IF c = "public_override" THEN "experimental" ELSE "verified"

\* The capabilities go with the first reading, the graph with the second.
Report(g) ==
  [graph |-> g,
   capabilities |-> {[adapter |-> ExpressId, capability |-> c, maturity |-> Maturity(c),
                      applicability |-> first.state] : c \in Capability \cup {"public_override"}}]

Exit(g) == IF policy = None THEN "reported" ELSE Gate!ExitClass(Gate!Violations(policy, Report(g)))

Outcome(g) ==
  IF DeclaredTwice(analysis.sources) \/ ~Valid(g)
  THEN [exit |-> "refused", verdict |-> <<>>, coverage |-> {}]
  ELSE [exit     |-> Exit(g),
        verdict  |-> [e \in IdsOf(Endpoints(g)) |-> Verdict(g, ById(g.facts, e))],
        coverage |-> {[file |-> c.target[2], status |-> c.status] : c \in g.coverage}]

-----------------------------------------------------------------------------
Init ==
  /\ AnyDisk /\ policy \in Policy
  /\ collected = {} /\ stage = "start"
  /\ pending = {} /\ total = 0 /\ sources = {} /\ diagnostics = {}
  /\ first = None /\ analysis = None /\ outcome = None

Collect ==
  /\ stage = "start"
  /\ collected' = {p \in Path : Collects(p)}
  /\ BeginParse(collected')
  /\ stage' = "applicability"
  /\ UNCHANGED <<disk, caseVars>>

Reading == stage \in {"applicability", "analysis", "again"}

Read(p) == Reading /\ ReadOne(p) /\ UNCHANGED <<disk, collected, stage, caseVars>>

\* applicability is decided; analyze begins.
Decide ==
  /\ stage = "applicability" /\ pending = {}
  /\ first' = Applicability(sources, diagnostics)
  /\ BeginParse(collected)
  /\ stage' = "analysis"
  /\ UNCHANGED <<disk, collected, policy, analysis, outcome>>

Parsed ==
  /\ stage = "analysis" /\ BeginSummaries
  /\ stage' = "summaries"
  /\ UNCHANGED <<disk, collected, caseVars>>

SummariseOne(s) == stage = "summaries" /\ Summarise(s) /\ UNCHANGED <<disk, collected, stage, caseVars>>

Analysis(read, diags, graph) == [sources |-> read, diagnostics |-> diags, graph |-> graph]

\* The frontend has returned; applicability parses the project once more.
Analyzed ==
  /\ stage = "summaries" /\ pending = {}
  /\ \A s \in Declared(sources) : s.content.binds \/ s.content.decodes
  /\ analysis' = Analysis(sources, diagnostics \cup Unowned(sources), None)
  /\ BeginParse(collected)
  /\ stage' = "again"
  /\ UNCHANGED <<disk, collected, policy, first, outcome>>

\* The rest of analyze, and build_graph: what is extracted is what was read the
\* second time, except where a mount leads.
Extract ==
  LET again == Applicability(sources, diagnostics)
      diags == IF again.state = "ambiguous" /\ analysis.diagnostics = {} THEN {ApplicabilityError}
               ELSE analysis.diagnostics
  IN  /\ stage = "again" /\ pending = {}
      /\ \A s \in analysis.sources : Active(s) => s.content.decodes
      /\ \E program \in {Programs(analysis.sources)} :
           analysis' = Analysis(analysis.sources, diags, GraphOf(program, diags))
      /\ stage' = "extracted"
      /\ UNCHANGED <<disk, collected, reading, policy, first, outcome>>

\* The report and the gate.
Finish ==
  /\ stage = "extracted"
  /\ outcome' = Outcome(analysis.graph)
  /\ stage' = "done"
  /\ UNCHANGED <<disk, collected, reading, policy, first, analysis>>

\* The adapter asks for other nodes than the frontend: it may come across one
\* that cannot be decoded, and may not.
MayRaise(read) == \E s \in Declared(read) : ~(s.content.legible /\ s.content.decodes)

\* An exception out of the frontend, out of applicability, or out of what analyze
\* does around its own call of it.
Raises ==
  \/ Reading /\ \E p \in pending : Due(p) /\ KeepRaises(p)
  \/ stage = "summaries" /\ \E s \in sources : SummariseRaises(s)
  \/ stage \in {"applicability", "summaries", "again"} /\ pending = {} /\ MayRaise(sources)
  \/ stage = "again" /\ pending = {} /\ MayRaise(analysis.sources)

\* The scan ends without a report, and without an exit class of the gate.
Fail == Raises /\ stage' = "failed" /\ UNCHANGED <<disk, collected, reading, caseVars>>

Work == \/ Collect
        \/ \E p \in Path : Read(p)
        \/ Decide \/ Parsed \/ Analyzed \/ Extract \/ Finish \/ Fail
        \/ \E s \in sources : SummariseOne(s)

\* What happens before the collection is part of the initial state, and what
\* happens after the extraction changes nothing.
Change ==
  /\ stage \notin {"start", "extracted", "done", "failed"}
  /\ changes = 0 => file \in Restless
  /\ DiskChanges
  /\ UNCHANGED <<collected, stage, reading, caseVars>>

Next == Work \/ Change

Spec == Init /\ [][Next]_vars

-----------------------------------------------------------------------------
(* Properties *)

Done       == outcome # None
Satisfied  == Done /\ outcome.exit = "satisfied"
ActivePaths(read) == {s.path : s \in {x \in read : Active(x)}}
Still      == changes = 0

\* ownership: the collected paths that have evidence of their own.
Owned == {p \in collected : p \in first.evidence}

\* A satisfied gate has seen the whole project: every source that was collected
\* was read and parsed in the reading the graph is built from, with its package,
\* whatever the disk did between the readings.
SatisfiedSawEverything ==
  Satisfied => /\ \A p \in collected :
                    \E s \in analysis.sources : s.via = p /\ s.manifest # "broken"
               /\ Errors(analysis.diagnostics) = {}

\* An endpoint has a verdict only if nothing went wrong in its file or in the
\* project as a whole.
VerdictsRestOnCleanSources ==
  Done => \A e \in DOMAIN outcome.verdict :
            outcome.verdict[e] # "UNRESOLVED"
              => \A d \in Errors(analysis.diagnostics) : d.span \notin {Nowhere, e[2]}

\* On a disk at rest the three readings agree: a gate is satisfied only if the
\* graph it judged came from an adapter that was active.
StillProjectFailsClosed == Still /\ Satisfied => ActivePaths(analysis.sources) # {}

\* On a disk at rest, a file whose endpoints are reported is a file the
\* explanation says the adapter owns, unless the file is known by a link alone:
\* owners come from the first reading, endpoints from the second.
EndpointsAreOwned ==
  Still /\ Done => \A e \in DOMAIN outcome.verdict : e[2] \in Owned \/ e[2] \notin collected

-----------------------------------------------------------------------------
(* What the documentation says and the code does not do *)

\* Inactive required input fails closed.
InactiveFailsClosed == Satisfied => ActivePaths(analysis.sources) # {}

\* An adapter may not hide or downgrade failed analysis: a file the frontend
\* recorded as failed is not reported as analyzed.
FailureIsNotDowngraded ==
  Done => \A d \in analysis.diagnostics, c \in outcome.coverage :
            d.coverage = "error" /\ d.span = c.file => c.status # "analyzed"

-----------------------------------------------------------------------------
(* The inductive invariant *)

\* Nothing is an error yet, and p was read, with its package, or warned about.
SeenBy(p, read, diags) ==
  Errors(diags) = {} => IF Target[p] \in Parseable
                        THEN \E s \in read : s.via = p /\ s.manifest # "broken"
                        ELSE diags # {}

AfterFirst  == stage \in {"analysis", "summaries", "again", "extracted", "done"}
AfterSecond == stage \in {"again", "extracted", "done"}

RunTypes ==
  /\ stage \in {"start", "applicability", "analysis", "summaries", "again", "extracted", "done", "failed"}
  /\ changes \in Nat /\ total \in Nat /\ policy \in Policy
  /\ collected \subseteq Path
  /\ Reading => pending \subseteq collected

\* Either reading leaves nothing out without an error.
NothingIsSkipped ==
  /\ Reading => \A p \in collected : p \in pending \/ SeenBy(p, sources, diagnostics)
  /\ stage = "summaries" => \A p \in collected : SeenBy(p, sources, diagnostics)
  /\ AfterSecond => \A p \in collected : SeenBy(p, analysis.sources, analysis.diagnostics)

\* What the first reading decides.
FirstIsFounded ==
  AfterFirst => /\ first.state = "active" => first.evidence # {}
                /\ first.state # "ambiguous" => \A p \in collected : Target[p] \in Parseable

\* Graph and outcome are of the second.
OutcomeIsOfAnalysis ==
  /\ stage \in {"extracted", "done"}
       => analysis.graph = GraphOf(Programs(analysis.sources), analysis.diagnostics)
  /\ outcome = IF stage = "done" THEN Outcome(analysis.graph) ELSE None

\* Where a reading is: what is left to read, the bytes read, the paths kept.
Progress == [pending |-> pending, total |-> total, kept |-> {s.via : s \in sources}]

\* One turn of parse's loop over files that stay as they are.
Turn(r, files) ==
  LET p     == CHOOSE x \in r.pending : \A q \in r.pending : Position[x] <= Position[q]
      c     == files[Target[p]]
      taken == Target[p] \in Parseable /\ c \in Contents /\ c.size <= MaxBytes
  IN  IF r.pending = {} THEN r
      ELSE [pending |-> IF taken /\ r.total + c.size > MaxTotal THEN {} ELSE r.pending \ {p},
            total   |-> IF taken THEN r.total + c.size ELSE r.total,
            kept    |-> IF taken /\ r.total + c.size <= MaxTotal /\ c.parses THEN r.kept \cup {p}
                        ELSE r.kept]

\* Where a reading is after n turns.
Course(paths, files) ==
  LET After[n \in 0 .. Cardinality(paths)] ==
        IF n = 0 THEN [pending |-> IF Cardinality(paths) > MaxFiles THEN {} ELSE paths,
                       total |-> 0, kept |-> {}]
        ELSE Turn(After[n - 1], files)
  IN  After

\* The sources every reading of the disk as it is ends with.
Yield == {SourceAt(p) : p \in Course(collected, file)[Cardinality(collected)].kept}

\* On a disk at rest every reading takes the same course, to the same sources.
ReadingsAgree ==
  Still =>
    /\ Reading =>
         /\ \A s \in sources : s = SourceAt(s.via)
         /\ \E n \in 0 .. Cardinality(collected) :
              /\ n + Cardinality(pending) <= Cardinality(collected)
              /\ Course(collected, file)[n] = Progress
    /\ AfterFirst => first.evidence = ActivePaths(Yield)
    /\ stage = "summaries" => sources = Yield
    /\ AfterSecond => analysis.sources = Yield

RunInv == RunTypes /\ NothingIsSkipped /\ FirstIsFounded /\ OutcomeIsOfAnalysis /\ ReadingsAgree
=============================================================================
