------------------------- MODULE JavaScriptFrontend -------------------------
(***************************************************************************)
(* JavaScriptFrontend (frontends/javascript.py): parse reads the sources   *)
(* one by one within budgets, analyze goes on to their imports and         *)
(* exports.  Nothing is kept between two calls, and every file is read     *)
(* when its turn comes: the disk may change between any two steps.         *)
(*                                                                         *)
(* The parser is left out.  What a source holds is a record                *)
(*   [size, parses, legible, statements, ..]                               *)
(* where a statement is what imports and exports recognise of it:          *)
(*   [op |-> "import" or "export", module, bindings]                       *)
(* with a <<name there, name here>> per binding, "default" and "*" being   *)
(* names as well; a module that is not local resolves to nothing.          *)
(*                                                                         *)
(* A source is legible when text can decode every node it is asked for and *)
(* its tree is no deeper than walk can recurse (frontends/_treesitter.py). *)
(* Neither needs to be so of a source that parses.                         *)
(*                                                                         *)
(* A directory stands for its package.json, which is "absent", "broken",   *)
(* "nested", deeper than the parser recurses, or an object that declares   *)
(* "express" or is "plain".                                                *)
(***************************************************************************)
EXTENDS Naturals, Sequences, FiniteSets

CONSTANTS
  Path,          \* the source paths of the project, links included
  Directory,     \* the directories
  Target,        \* path.resolve(): where a path leads
  Position,      \* the place of a path in alphabetical order
  Inside,        \* the paths below the project root
  Parent,        \* the directory a path is in
  Upwards,       \* a directory and those above it, up to the project root
  Parseable,     \* the paths with a supported suffix
  ModulePaths,   \* the paths a local module name may stand for, in order
  Contents,      \* what a file may hold
  Checkouts,     \* what the files hold to begin with
  Requests,      \* the source_paths analyze may be given
  Manifests,     \* what a package.json may hold
  MaxFiles, MaxBytes, MaxTotal, MaxSummaries,      \* the resource limits
  MaxChanges     \* bound on what happens to the disk

Absent     == [fault |-> "absent"]
Unreadable == [fault |-> "unreadable"]
Nowhere    == "nowhere"    \* no package, no module, no file in particular
OnDisk == Contents \cup {Absent, Unreadable}

ASSUME FrontendAssumption ==
  /\ Target \in [Path -> Path] /\ \A p \in Path : Target[Target[p]] = Target[p]
  /\ Position \in [Path -> Nat] /\ \A p, q \in Path : Position[p] = Position[q] => p = q
  /\ Parent \in [Path -> Directory]
  /\ Upwards \in [Directory -> Seq(Directory)]
  /\ \A c \in Contents : c.size \in Nat /\ c.legible \in BOOLEAN
  /\ Checkouts \subseteq [Path -> OnDisk] /\ Requests \subseteq SUBSET Path
  /\ {MaxFiles, MaxBytes, MaxTotal, MaxSummaries, MaxChanges} \subseteq Nat
  /\ IsFiniteSet(Path)
  /\ {Absent, Unreadable} \cap Contents = {}

VARIABLES
  file,          \* what each file holds
  manifest,      \* what each package.json holds
  changes,       \* how often the disk changed
  collected,     \* source_paths
  stage,         \* where the frontend is; "failed" when an exception has left it
  pending,       \* what the loop has still to visit
  total,         \* total_bytes
  sources,       \* the sources parsed
  diagnostics    \* diagnostics, each with the coverage record it is paired with

disk    == <<file, manifest, changes>>
reading == <<pending, total, sources, diagnostics>>

-----------------------------------------------------------------------------
(* Files, packages, modules *)

IsFile(p) == file[Target[p]] # Absent

\* nearest_package
NearestPackage(d) ==
  LET found == {i \in DOMAIN Upwards[d] : manifest[Upwards[d][i]] # "absent"}
  IN  IF found = {} THEN Nowhere
      ELSE Upwards[d][CHOOSE i \in found : \A j \in found : i <= j]

\* The name starts with a dot.
LocalModule(module) == \E p \in Path : module \in DOMAIN ModulePaths[p]

\* resolve_local_module: what a candidate is counts, not where a link leads.
ResolveLocalModule(p, module) ==
  LET C == IF LocalModule(module) THEN ModulePaths[Target[p]][module] ELSE <<>>
      found == {i \in DOMAIN C : IsFile(C[i]) /\ C[i] \in Inside}
  IN  IF found = {} THEN Nowhere ELSE C[CHOOSE i \in found : \A j \in found : i <= j]

\* A source: `via` is the path it was collected under.
SourceAt(p) ==
  LET package == NearestPackage(Parent[Target[p]])
  IN  [via |-> p, path |-> Target[p], content |-> file[Target[p]], package |-> package,
       manifest |-> IF package = Nowhere THEN Nowhere ELSE manifest[package]]

-----------------------------------------------------------------------------
(* Diagnostics.  An id names the resolved path, so two paths that lead to  *)
(* one file have the same ids; `via` tells such records apart.             *)

Failure(kind, p, at, level, status) ==
  [id |-> <<kind, Target[p], at>>, via |-> p, level |-> level, span |-> Target[p], coverage |-> status]

TooManyFiles == [id |-> <<"files">>, via |-> Nowhere, level |-> "error", span |-> Nowhere, coverage |-> "error"]
TotalExceeded(p) ==
  [id |-> <<"total">>, via |-> p, level |-> "error", span |-> Target[p], coverage |-> "error"]
TooManySummaries(p) ==
  [id |-> <<"summaries">>, via |-> p, level |-> "error", span |-> Target[p], coverage |-> "error"]

Due(p) == p \in pending /\ \A q \in pending : Position[p] <= Position[q]

-----------------------------------------------------------------------------
(* parse *)

BeginParse(paths) ==
  /\ total' = 0 /\ sources' = {}
  /\ IF Cardinality(paths) > MaxFiles
     THEN pending' = {} /\ diagnostics' = {TooManyFiles}
     ELSE pending' = paths /\ diagnostics' = {}

Reject(p, kind, level, status) ==
  /\ pending' = pending \ {p}
  /\ diagnostics' = diagnostics \cup {Failure(kind, p, 0, level, status)}
  /\ UNCHANGED sources

SkipUnsupported(p) ==
  /\ Target[p] \notin Parseable
  /\ Reject(p, "unsupported", "warning", "unsupported")
  /\ UNCHANGED total

SkipUnreadable(p) ==
  /\ Target[p] \in Parseable /\ file[Target[p]] \in {Absent, Unreadable}
  /\ Reject(p, "read", "error", "error")
  /\ UNCHANGED total

Readable(p) == Target[p] \in Parseable /\ file[Target[p]] \in Contents
Size(p)     == file[Target[p]].size

SkipOversized(p) ==
  /\ Readable(p) /\ Size(p) > MaxBytes
  /\ Reject(p, "source", "error", "error")
  /\ UNCHANGED total

\* Faulty variant: the files that are left go unmentioned.
StopSilently(p) ==
  /\ Readable(p) /\ Size(p) <= MaxBytes /\ total + Size(p) > MaxTotal
  /\ total' = total + Size(p)
  /\ pending' = {}
  /\ UNCHANGED <<sources, diagnostics>>

\* The loop is left: nothing is said of the files that were still to come.
StopAtTotal(p) ==
  /\ Readable(p) /\ Size(p) <= MaxBytes /\ total + Size(p) > MaxTotal
  /\ total' = total + Size(p)
  /\ pending' = {}
  /\ diagnostics' = diagnostics \cup {TotalExceeded(p)}
  /\ UNCHANGED sources

Fits(p) == Readable(p) /\ Size(p) <= MaxBytes /\ total + Size(p) <= MaxTotal

\* Faulty variant: a source that does not parse is not mentioned.
SkipUnmentioned(p) ==
  /\ Fits(p) /\ ~file[Target[p]].parses
  /\ total' = total + Size(p)
  /\ pending' = pending \ {p}
  /\ UNCHANGED <<sources, diagnostics>>

SkipUnparseable(p) ==
  /\ Fits(p) /\ ~file[Target[p]].parses
  /\ total' = total + Size(p)
  /\ Reject(p, "parse", "error", "error")

\* json.loads does not return, and its RecursionError has no handler.
KeepRaises(p) == Fits(p) /\ file[Target[p]].parses /\ SourceAt(p).manifest = "nested"

\* A broken package.json is diagnosed, the source is kept all the same.
Keep(p) ==
  /\ Fits(p) /\ file[Target[p]].parses /\ SourceAt(p).manifest # "nested"
  /\ total' = total + Size(p)
  /\ pending' = pending \ {p}
  /\ sources' = sources \cup {SourceAt(p)}
  /\ diagnostics' = IF SourceAt(p).manifest = "broken"
                    THEN diagnostics \cup {Failure("package", p, 0, "error", "error")}
                    ELSE diagnostics

\* One iteration of parse's loop.
ReadOne(p) ==
  /\ Due(p)
  /\ \/ SkipUnsupported(p) \/ SkipUnreadable(p) \/ SkipOversized(p) \/ StopAtTotal(p)
     \/ SkipUnparseable(p) \/ Keep(p)

-----------------------------------------------------------------------------
(* analyze: module summaries *)

Bindings(s, op) ==
  UNION {{[module |-> s.content.statements[i].module, name |-> b[1], local |-> b[2], at |-> <<i, b>>]
            : b \in s.content.statements[i].bindings}
           : i \in {j \in DOMAIN s.content.statements : s.content.statements[j].op = op}}

Imports(s) == Bindings(s, "import")
Exports(s) == Bindings(s, "export")

UnresolvedBindings(s, bindings) ==
  {b \in bindings : LocalModule(b.module) /\ ResolveLocalModule(s.path, b.module) = Nowhere}

\* Names bound to more than one thing.
Ambiguous(s) ==
  {b.local : b \in {x \in Imports(s) :
                      \E y \in Imports(s) : y.local = x.local /\ <<y.module, y.name>> # <<x.module, x.name>>}}

CrossesPackage(s, b) ==
  LET target == ResolveLocalModule(s.path, b.module)
      package == IF target = Nowhere THEN Nowhere ELSE NearestPackage(Parent[target])
  IN  /\ target # Nowhere /\ s.package # Nowhere
      /\ package \notin {Nowhere, s.package}

\* Faulty variant: names are not compared.
ModuleDiagnosticsWithoutNames(s) ==
  {Failure("import", s.via, b.at, "warning", "error") : b \in UnresolvedBindings(s, Imports(s))}
    \cup {Failure("package-boundary", s.via, b.at, "error", "error")
             : b \in {x \in Imports(s) : CrossesPackage(s, x)}}

ModuleDiagnostics(s) ==
  {Failure("import", s.via, b.at, "warning", "error") : b \in UnresolvedBindings(s, Imports(s))}
    \cup {Failure("export", s.via, b.at, "warning", "error") : b \in UnresolvedBindings(s, Exports(s))}
    \cup {Failure("binding", s.via, n, "error", "error") : n \in Ambiguous(s)}
    \cup {Failure("package-boundary", s.via, b.at, "error", "error")
             : b \in {x \in Imports(s) : CrossesPackage(s, x)}}

Summarised == {s \in sources : s.via \notin pending}

BeginSummaries == pending = {} /\ pending' = {s.via : s \in sources} /\ UNCHANGED <<total, sources, diagnostics>>

SummariesFull == Cardinality(Summarised) >= MaxSummaries

\* imports, exports and syntax take texts out of the tree without a handler.
SummariseRaises(s) == Due(s.via) /\ ~SummariesFull /\ ~s.content.legible

Summarise(s) ==
  /\ s \in sources /\ Due(s.via) /\ (SummariesFull \/ s.content.legible)
  /\ IF SummariesFull
     THEN /\ pending' = {}
          /\ diagnostics' = diagnostics \cup {TooManySummaries(s.via)}
     ELSE /\ pending' = pending \ {s.via}
          /\ diagnostics' = diagnostics \cup ModuleDiagnostics(s)
  /\ UNCHANGED <<total, sources>>

-----------------------------------------------------------------------------
(* The disk (external): editors, builds, checkouts *)

ChangeFile(p, c) ==
  /\ changes < MaxChanges /\ changes' = changes + 1
  /\ Target[p] = p /\ file[p] # c
  /\ file' = [file EXCEPT ![p] = c]
  /\ UNCHANGED manifest

ChangeManifest(d, m) ==
  /\ changes < MaxChanges /\ changes' = changes + 1
  /\ manifest[d] # m
  /\ manifest' = [manifest EXCEPT ![d] = m]
  /\ UNCHANGED file

DiskChanges ==
  \/ \E p \in Path, c \in OnDisk : ChangeFile(p, c)
  \/ \E d \in Directory, m \in Manifests \cup {"absent", "broken"} : ChangeManifest(d, m)

AnyDisk == /\ file \in Checkouts
           /\ manifest \in [Directory -> Manifests \cup {"absent", "broken"}]
           /\ changes = 0

-----------------------------------------------------------------------------
(* analyze on its own, again and again *)

frontendVars == <<disk, collected, stage, reading>>

FrontendInit ==
  /\ AnyDisk /\ collected = {} /\ stage = "idle"
  /\ pending = {} /\ total = 0 /\ sources = {} /\ diagnostics = {}

Analyze(paths) ==
  /\ stage \in {"idle", "failed"} /\ stage' = "parse"
  /\ collected' = paths /\ BeginParse(paths)
  /\ UNCHANGED disk

ParseOne(p) == stage = "parse" /\ ReadOne(p) /\ UNCHANGED <<disk, collected, stage>>

ParseDone == stage = "parse" /\ BeginSummaries /\ stage' = "summaries" /\ UNCHANGED <<disk, collected>>

SummariseNext(s) == stage = "summaries" /\ Summarise(s) /\ UNCHANGED <<disk, collected, stage>>

ReturnAnalysis ==
  /\ stage = "summaries" /\ pending = {} /\ stage' = "idle"
  /\ UNCHANGED <<disk, collected, reading>>

\* An exception leaves analyze at the source whose turn it is.
SourceRaises == \/ stage = "parse" /\ \E p \in pending : Due(p) /\ KeepRaises(p)
                \/ stage = "summaries" /\ \E s \in sources : SummariseRaises(s)

FailAnalysis == SourceRaises /\ stage' = "failed" /\ UNCHANGED <<disk, collected, reading>>

FrontendNext ==
  \/ \E paths \in Requests : Analyze(paths)
  \/ \E p \in Path : ParseOne(p)
  \/ ParseDone
  \/ \E s \in sources : SummariseNext(s)
  \/ ReturnAnalysis
  \/ FailAnalysis
  \/ DiskChanges /\ UNCHANGED <<collected, stage, reading>>

FrontendSpec == FrontendInit /\ [][FrontendNext]_frontendVars

-----------------------------------------------------------------------------
(* Properties of the frontend *)

Mentioned(p) == \E d \in diagnostics : d.via = p
Truncated    == \E d \in diagnostics : d.level = "error" /\ d.id[1] \in {"files", "total", "summaries"}

\* No source disappears: when parse has left it behind it is parsed, or has a
\* diagnostic of its own, or parse gave up on the project with an error, whatever
\* happened to the disk meanwhile.  An exception before its turn is no return.
NoSourceDisappears ==
  \A p \in collected :
    \/ stage \in {"parse", "failed"} /\ p \in pending
    \/ p \in {s.via : s \in sources} \/ Mentioned(p) \/ Truncated

\* A source whose package is broken, or which binds one name to two things, or
\* imports from another package, is never returned without an error.
TroubleIsDiagnosed ==
  \A s \in sources :
    LET Has(kind) == \E d \in diagnostics : d.via = s.via /\ d.level = "error" /\ d.id[1] = kind
    IN  /\ s.manifest = "broken" => Has("package")
        /\ stage = "idle" /\ Ambiguous(s) # {} => Has("binding") \/ Truncated
        /\ stage = "idle" /\ changes = 0 /\ (\E b \in Imports(s) : CrossesPackage(s, b))
             => Has("package-boundary") \/ Truncated
=============================================================================
