---------------------------- MODULE RustFrontend ----------------------------
(***************************************************************************)
(* RustFrontend (frontends/rust.py).  Its loop over the sources is the one *)
(* of JavaScriptFrontend, check by check; what differs is what belongs to  *)
(* a source: a Cargo package, which is put together from up to three       *)
(* readings of Cargo.toml files, one of them without a handler.            *)
(*                                                                         *)
(* A manifest is "absent", "broken", "nested" deeper than tomllib          *)
(* recurses, or a text; Cargo[text] is                                     *)
(*   [package, workspace, shared, dependencies]                            *)
(* where `package` and `workspace` say which tables it has, `shared` is    *)
(* workspace.dependencies as <<alias, package>> pairs and a dependency is  *)
(* [alias, kind, inherited, package].  A statement is a use [op, names],   *)
(* with the first name of every path it expands to, a mod [op, form,       *)
(* module], a macro or a cfg.                                              *)
(***************************************************************************)
EXTENDS JavaScriptFrontend

CONSTANTS
  Cargo,         \* what the text of a Cargo.toml says
  Identifier     \* of an alias: its name in Rust, with "_" for "-"

VARIABLES
  owner,         \* the source whose package is being read, and what is known of it
  packages,      \* packages: the package read last of each manifest
  summaries      \* the module summaries

cargo == <<owner, packages, summaries>>

Package(d, w, deps) == [manifest |-> d, workspace |-> w, dependencies |-> deps]
NoPackage == Package(Nowhere, Nowhere, {})
Nobody    == [via |-> Nowhere]

RustSource(p, content, package) ==
  [via |-> p, path |-> Target[p], content |-> content, package |-> package]

Loads(d) == manifest[d] \notin {"absent", "broken", "nested"}
Says(d)  == Cargo[manifest[d]]

-----------------------------------------------------------------------------
(* Packages *)

\* _owning_package, up to the first reading.
PackageErrors(p, d) ==
  IF d = Nowhere THEN {Failure("package", p, 0, "error", "error")}
  ELSE IF ~Loads(d)
  THEN {[Failure("manifest", p, 0, "error", "error") EXCEPT !.id = <<"manifest", d>>, !.span = d]}
  ELSE IF ~Says(d).package THEN {Failure("package", p, 0, "error", "error")}
  ELSE {}

\* A source that parses is read, and the package it may belong to.
FindPackage(p) ==
  LET d == NearestPackage(Parent[Target[p]])
      errors == PackageErrors(p, d)
  IN  /\ Fits(p) /\ file[Target[p]].parses /\ (d # Nowhere => manifest[d] # "nested")
      /\ total' = total + Size(p)
      /\ pending' = pending \ {p}
      /\ diagnostics' = diagnostics \cup errors
      /\ IF errors # {}
         THEN /\ sources' = sources \cup {RustSource(p, file[Target[p]], NoPackage)}
              /\ UNCHANGED <<stage, owner>>
         ELSE /\ stage' = "workspace"
              /\ owner' = [via |-> p, content |-> file[Target[p]], manifest |-> d, says |-> Says(d),
                           workspace |-> Nowhere]
              /\ UNCHANGED sources

\* Faulty variant: a manifest need not be one that can be read.
WorkspaceUnread(d) ==
  LET above == {i \in DOMAIN Upwards[d] : manifest[Upwards[d][i]] # "absent"}
  IN  IF above = {} THEN Nowhere ELSE Upwards[d][CHOOSE i \in above : \A j \in above : j <= i]

\* _workspace_manifest: the outermost; those that cannot be read are passed over.
Workspace(d) ==
  LET above == {i \in DOMAIN Upwards[d] : Loads(Upwards[d][i]) /\ Says(Upwards[d][i]).workspace}
  IN  IF above = {} THEN Nowhere ELSE Upwards[d][CHOOSE i \in above : \A j \in above : j <= i]

SelectWorkspace ==
  /\ stage = "workspace" /\ stage' = "dependencies"
  /\ \A i \in DOMAIN Upwards[owner.manifest] : manifest[Upwards[owner.manifest][i]] # "nested"
  /\ owner' = [owner EXCEPT !.workspace = Workspace(owner.manifest)]
  /\ UNCHANGED <<disk, collected, reading, packages, summaries>>

\* The workspace manifest was read to select it and is read again, this time
\* without a handler.
WorkspaceIsGone ==
  /\ stage = "dependencies" /\ owner.workspace # Nowhere /\ ~Loads(owner.workspace)
  /\ stage' = "failed"
  /\ UNCHANGED <<disk, collected, reading, cargo>>

Shared == IF owner.workspace = Nowhere \/ ~Says(owner.workspace).workspace THEN {}
          ELSE Says(owner.workspace).shared

Undeclared(x) == x.inherited /\ \A e \in Shared : e[1] # x.alias

\* Faulty variant: only for what the program itself is built with.
InheritanceErrorsOfProgram ==
  {[Failure("inheritance", owner.via, x.alias, "error", "error")
      EXCEPT !.id = <<"inheritance", owner.manifest, x.alias>>, !.span = owner.manifest]
     : x \in {y \in owner.says.dependencies : y.kind = "dependencies" /\ Undeclared(y)}}

InheritanceErrors ==
  {[Failure("inheritance", owner.via, x.alias, "error", "error")
      EXCEPT !.id = <<"inheritance", owner.manifest, x.alias>>, !.span = owner.manifest]
     : x \in {y \in owner.says.dependencies : Undeclared(y)}}

\* _dependencies
Dependencies ==
  {[alias |-> x.alias, kind |-> x.kind,
    package |-> IF x.inherited THEN (CHOOSE e \in Shared : e[1] = x.alias)[2] ELSE x.package]
     : x \in {y \in owner.says.dependencies : ~Undeclared(y)}}

ReadDependencies ==
  /\ stage = "dependencies" /\ (owner.workspace # Nowhere => Loads(owner.workspace))
  /\ \E package \in {Package(owner.manifest, owner.workspace, Dependencies)} :
       /\ packages' = {x \in packages : x.manifest # owner.manifest} \cup {package}
       /\ sources' = sources \cup {RustSource(owner.via, owner.content, package)}
  /\ diagnostics' = diagnostics \cup InheritanceErrors
  /\ stage' = "parse" /\ owner' = Nobody
  /\ UNCHANGED <<disk, collected, pending, total, summaries>>

-----------------------------------------------------------------------------
(* Module summaries *)

Local   == {"crate", "self", "super"}
Builtin == {"alloc", "core", "std"}

\* _uses: where a name comes from.  Cargo refuses two packages for one name;
\* here the last in alphabetical order would win.
Origin(s, name) ==
  LET named == {d \in s.package.dependencies : Identifier[d.alias] = name}
  IN  CASE name \in Local   -> "local"
        [] name \in Builtin -> "builtin"
        [] OTHER -> IF named = {} THEN Nowhere ELSE (CHOOSE d \in named : TRUE).package

Statements(s, op) == {i \in DOMAIN s.content.statements : s.content.statements[i].op = op}

Uses(s) == UNION {{[at |-> i, name |-> n, origin |-> Origin(s, n)] : n \in s.content.statements[i].names}
                    : i \in Statements(s, "use")}

\* _resolve_module: what a candidate leads to has to be in the project.
Candidates(s, module) ==
  LET C == ModulePaths[s.path][module]
  IN  {i \in DOMAIN C : IsFile(C[i]) /\ Target[C[i]] \in Inside}

ModuleTarget(s, stmt) ==
  LET found == Candidates(s, stmt.module)
  IN  IF stmt.form = "file" /\ Cardinality(found) = 1
      THEN Target[ModulePaths[s.path][stmt.module][CHOOSE i \in found : TRUE]]
      ELSE Nowhere

Modules(s) == {[at |-> i, target |-> ModuleTarget(s, s.content.statements[i])] : i \in Statements(s, "mod")}

UnresolvedModules(s) ==
  {m.at : m \in {x \in Modules(s) : x.target = Nowhere /\ s.content.statements[x.at].form # "inline"}}

RustDiagnostics(s) ==
  {Failure("use", s.via, u.at, "warning", "unsupported") : u \in {x \in Uses(s) : x.origin = Nowhere}}
    \cup {Failure("module", s.via, i, "warning", "unsupported") : i \in UnresolvedModules(s)}
    \cup {Failure("macro", s.via, i, "warning", "unsupported") : i \in Statements(s, "macro")}
    \cup {Failure("cfg", s.via, i, "warning", "unsupported") : i \in Statements(s, "cfg")}

EnoughSummaries == Cardinality(summaries) >= MaxSummaries

SummariseRust(s) ==
  /\ stage = "summaries" /\ Due(s.via) /\ (EnoughSummaries \/ s.content.legible)
  /\ IF EnoughSummaries
     THEN /\ pending' = {}
          /\ diagnostics' = diagnostics \cup {TooManySummaries(s.via)}
          /\ UNCHANGED summaries
     ELSE /\ pending' = pending \ {s.via}
          /\ summaries' = summaries \cup {[via |-> s.via, uses |-> Uses(s), modules |-> Modules(s)]}
          /\ diagnostics' = diagnostics \cup RustDiagnostics(s)
  /\ UNCHANGED <<disk, collected, stage, total, sources, owner, packages>>

-----------------------------------------------------------------------------
(* Exceptions that nothing handles                                         *)

\* The nearest manifest, or one that is passed on the way to the workspace, is
\* nested too deeply; or _uses, _modules and _syntax, which take texts out of
\* the tree, are at a source that is not legible.
RustRaises ==
  \/ /\ stage = "parse"
     /\ \E p \in Path :
          /\ Due(p) /\ Fits(p) /\ file[Target[p]].parses
          /\ NearestPackage(Parent[Target[p]]) # Nowhere
          /\ manifest[NearestPackage(Parent[Target[p]])] = "nested"
  \/ /\ stage = "workspace"
     /\ \E i \in DOMAIN Upwards[owner.manifest] : manifest[Upwards[owner.manifest][i]] = "nested"
  \/ /\ stage = "summaries"
     /\ \E s \in sources : Due(s.via) /\ ~EnoughSummaries /\ ~s.content.legible

FailRust == RustRaises /\ stage' = "failed" /\ UNCHANGED <<disk, collected, reading, cargo>>

rustVars == <<frontendVars, cargo>>

RustInit == FrontendInit /\ owner = Nobody /\ packages = {} /\ summaries = {}

AnalyzeRust(paths) == Analyze(paths) /\ owner' = Nobody /\ packages' = {} /\ summaries' = {}

\* The checks the two frontends share.
RejectRust(p) ==
  /\ SkipUnsupported(p) \/ SkipUnreadable(p) \/ SkipOversized(p) \/ StopAtTotal(p) \/ SkipUnparseable(p)
  /\ UNCHANGED <<stage, owner>>

ParseRust(p) ==
  /\ stage = "parse" /\ Due(p)
  /\ RejectRust(p) \/ FindPackage(p)
  /\ UNCHANGED <<disk, collected, packages, summaries>>

RustNext ==
  \/ \E paths \in Requests : AnalyzeRust(paths)
  \/ \E p \in Path : ParseRust(p)
  \/ SelectWorkspace \/ WorkspaceIsGone \/ ReadDependencies \/ FailRust
  \/ ParseDone /\ UNCHANGED cargo
  \/ \E s \in sources : SummariseRust(s)
  \/ ReturnAnalysis /\ UNCHANGED cargo
  \/ DiskChanges /\ UNCHANGED <<collected, stage, reading, cargo>>

RustSpec == RustInit /\ [][RustNext]_rustVars

-----------------------------------------------------------------------------
(* Properties of the Rust frontend *)

\* The crates that go by a name, as the manifests on disk have it: at most one,
\* when the manifest is one that Cargo accepts.
Crate(x, w) == IF ~x.inherited THEN x.package
               ELSE (CHOOSE e \in (IF w = Nowhere THEN {} ELSE Says(w).shared) : e[1] = x.alias)[2]

CratesOf(d, name) == {Crate(x, Workspace(d)) : x \in {y \in Says(d).dependencies : Identifier[y.alias] = name}}

\* On a disk at rest an exception leaves the analysis for one of two reasons: a
\* source that was kept is not legible, or a manifest is nested too deeply.  Nothing
\* else about sources and manifests makes it fail; those that cannot be read, do
\* not parse, or lack what others need of them are diagnosed, although the
\* workspace manifest is read again without a handler.
StillDiskIsAnalyzed ==
  stage = "failed" /\ changes = 0 =>
    \/ \E s \in sources : ~s.content.legible
    \/ \E d \in Directory : manifest[d] = "nested"

\* The source is resolved.
Resolved(s, m) ==
  /\ s.package # NoPackage
  /\ \A u \in m.uses : u.origin # Nowhere
  /\ \A x \in m.modules : x.target = Nowhere => s.content.statements[x.at].form = "inline"
  /\ Statements(s, "macro") = {} /\ Statements(s, "cfg") = {}
  /\ changes = 0 =>
       /\ {d.alias : d \in s.package.dependencies} = {d.alias : d \in Says(s.package.manifest).dependencies}
       /\ \A u \in m.uses : u.name \notin Local \cup Builtin
                              => u.origin \in CratesOf(NearestPackage(Parent[s.path]), u.name)

\* What an analysis says nothing about it has resolved: the source is there with
\* its package, every dependency that package inherits exists, every name it
\* uses has an origin, every module one file, and nothing was left unexpanded.
\* On a disk at rest the origins are the crates the manifests name.
SilenceMeansResolved ==
  stage = "idle" /\ ~Truncated =>
    \A p \in collected : ~Mentioned(p) =>
      \E s \in sources, m \in summaries : s.via = p /\ m.via = p /\ Resolved(s, m)

-----------------------------------------------------------------------------
(* What makes silence mean something, from one step to the next *)

\* The source whose package is being read is known by the manifests on disk.
OwnerIsKnown ==
  /\ owner = [via |-> owner.via, content |-> owner.content, manifest |-> owner.manifest, says |-> owner.says,
              workspace |-> owner.workspace]
  /\ owner.manifest \in Directory /\ owner.manifest # Nowhere
  /\ changes = 0 =>
       /\ owner.manifest = NearestPackage(Parent[Target[owner.via]])
       /\ owner.says = Says(owner.manifest)
       /\ stage = "dependencies" => owner.workspace = Workspace(owner.manifest)

\* All that a manifest depends on.
Everything(d) ==
  {[alias |-> x.alias, kind |-> x.kind, package |-> Crate(x, Workspace(d))] : x \in Says(d).dependencies}

\* Unless there is a diagnostic, a source has the package it belongs to.
HasItsPackage(s) ==
  ~Mentioned(s.via) =>
    /\ s.package # NoPackage
    /\ changes = 0 => /\ s.package.manifest = NearestPackage(Parent[s.path])
                      /\ s.package.dependencies = Everything(s.package.manifest)

\* A path collected is in one place after each step, or accounted for.
PathsAreAccountedFor ==
  \A p \in collected :
    \/ stage = "failed"
    \/ stage \in {"parse", "workspace", "dependencies"} /\ p \in pending
    \/ stage \in {"workspace", "dependencies"} /\ p = owner.via
    \/ p \in {s.via : s \in sources} \/ Mentioned(p) \/ Truncated

\* The summary is that of the source, and says all there is to say.
Summarises(m, s) ==
  /\ m.via = s.via /\ m.uses = Uses(s)
  /\ ~Mentioned(s.via) =>
       /\ \A u \in m.uses : u.origin # Nowhere
       /\ \A x \in m.modules : x.target = Nowhere => s.content.statements[x.at].form = "inline"
       /\ Statements(s, "macro") = {} /\ Statements(s, "cfg") = {}

SourcesAreSummarised ==
  \A p \in {s.via : s \in sources} :
    p \in pending \/ Truncated \/ \E s \in sources, m \in summaries : s.via = p /\ Summarises(m, s)

SilenceInv ==
  /\ stage \in {"workspace", "dependencies"} => OwnerIsKnown
  /\ \A s \in sources : s.path = Target[s.via] /\ HasItsPackage(s)
  /\ PathsAreAccountedFor
  /\ stage \in {"summaries", "idle"} => SourcesAreSummarised
  /\ stage = "idle" => pending = {}
=============================================================================
