------------------------- MODULE RustFrontendProofs -------------------------
(***************************************************************************)
(* Proofs about RustFrontend, for any project, any manifests, any limits   *)
(* and any number of changes: as long as the disk is at rest, an exception *)
(* is the fault of a source that is not legible or a manifest nested too   *)
(* deeply, and an analysis that is silent about a source has resolved what *)
(* the source names.                                                       *)
(***************************************************************************)
EXTENDS RustFrontend, WellFoundedInduction, TLAPS

-----------------------------------------------------------------------------
(* The manifests that are found.  nearest_package takes the first of the   *)
(* directories upwards, _workspace_manifest the last.                      *)

\* A set of positions that is not empty has a first one.
LEMMA FirstPosition ==
  ASSUME NEW S \in SUBSET Nat, S # {}
  PROVE  \E i \in S : \A j \in S : i <= j
<1> DEFINE less == {pair \in Nat \X Nat : pair[1] < pair[2]}
<1>1. IsWellFoundedOn(less, Nat)
  BY NatLessThanWellFounded, Zenon DEF OpToRel
<1>2. PICK i \in S : \A j \in S : <<j, i>> \notin less
  <2> HIDE DEF less
  <2> QED
    BY <1>1, WFMin, Zenon
<1>3. ASSUME NEW j \in S PROVE i <= j
  <2>1. i \in Nat /\ j \in Nat /\ ~(j < i)
    BY <1>2, <1>3
  <2> QED
    BY <2>1
<1> QED
  BY <1>3

\* A set of positions of a sequence has a last one too.
LEMMA LastPosition ==
  ASSUME NEW n \in Nat, NEW S \in SUBSET (1 .. n), S # {}
  PROVE  \E i \in S : \A j \in S : j <= i
<1> DEFINE T == {n - i : i \in S}
<1>1. T \in SUBSET Nat /\ T # {}
  <2>1. \A i \in S : i \in 1 .. n
    OBVIOUS
  <2>2. \A i \in S : n - i \in Nat
    BY <2>1
  <2> QED
    BY <2>2
<1>2. PICK t \in T : \A u \in T : t <= u
  BY <1>1, FirstPosition
<1>3. PICK i \in S : t = n - i
  OBVIOUS
<1>4. ASSUME NEW j \in S PROVE j <= i
  <2>1. n - j \in T /\ t <= n - j
    BY <1>2
  <2> QED
    BY <1>3, <2>1
<1> QED
  BY <1>4

\* The nearest Cargo.toml is in a directory of the project.
LEMMA NearestIsADirectory ==
  ASSUME NEW p \in Path, NearestPackage(Parent[Target[p]]) # Nowhere
  PROVE  NearestPackage(Parent[Target[p]]) \in Directory
<1> DEFINE d == Parent[Target[p]]
           found == {i \in DOMAIN Upwards[d] : manifest[Upwards[d][i]] # "absent"}
<1>1. d \in Directory /\ Upwards[d] \in Seq(Directory)
  BY FrontendAssumption DEF FrontendAssumption
<1>2. DOMAIN Upwards[d] = 1 .. Len(Upwards[d]) /\ Len(Upwards[d]) \in Nat
  BY <1>1
<1>3. found # {}
  BY DEF NearestPackage
<1>4. \E i \in found : \A j \in found : i <= j
  <2>1. found \in SUBSET Nat
    BY <1>2
  <2> HIDE DEF found
  <2> QED
    BY <1>3, <2>1, FirstPosition
<1>5. (CHOOSE i \in found : \A j \in found : i <= j) \in DOMAIN Upwards[d]
  BY <1>4
<1>6. NearestPackage(d) = Upwards[d][CHOOSE i \in found : \A j \in found : i <= j]
  BY <1>3 DEF NearestPackage
<1> HIDE DEF found
<1> QED
  BY <1>1, <1>2, <1>5, <1>6

\* The workspace manifest selected is one that was read, with a workspace table.
LEMMA WorkspaceLoads ==
  ASSUME NEW d \in Directory, Workspace(d) # Nowhere
  PROVE  Loads(Workspace(d)) /\ Says(Workspace(d)).workspace
<1> DEFINE above == {i \in DOMAIN Upwards[d] : Loads(Upwards[d][i]) /\ Says(Upwards[d][i]).workspace}
<1>1. Upwards[d] \in Seq(Directory)
  BY FrontendAssumption DEF FrontendAssumption
<1>2. DOMAIN Upwards[d] = 1 .. Len(Upwards[d]) /\ Len(Upwards[d]) \in Nat
  BY <1>1
<1>3. above # {}
  BY DEF Workspace
<1>4. \E i \in above : \A j \in above : j <= i
  <2>1. above \in SUBSET (1 .. Len(Upwards[d]))
    BY <1>2
  <2> HIDE DEF above
  <2> QED
    BY <1>2, <1>3, <2>1, LastPosition
<1>5. (CHOOSE i \in above : \A j \in above : j <= i) \in above
  BY <1>4
<1>6. Workspace(d) = Upwards[d][CHOOSE i \in above : \A j \in above : j <= i]
  BY <1>3 DEF Workspace
<1> QED
  BY <1>5, <1>6

-----------------------------------------------------------------------------
(* The inductive invariant: between the two readings of a workspace        *)
(* manifest, what was selected can still be read.                          *)

\* What an exception on a disk at rest can be about.
Culprit == \/ \E s \in sources : ~s.content.legible
           \/ \E d \in Directory : manifest[d] = "nested"

IInv ==
  /\ changes \in Nat
  /\ stage = "workspace" => owner.manifest \in Directory
  /\ stage = "dependencies" /\ changes = 0 => owner.workspace = Nowhere \/ Loads(owner.workspace)
  /\ stage = "failed" => changes > 0 \/ Culprit

\* The steps between which the disk is left alone, and which select nothing.
LEMMA OtherSteps ==
  ASSUME IInv, UNCHANGED disk, stage' \in {"idle", "parse", "summaries"}
  PROVE  IInv'
  BY DEF IInv, disk

\* A change of the disk is counted.
LEMMA ChangesAreCounted ==
  ASSUME changes \in Nat, DiskChanges
  PROVE  changes' \in Nat /\ changes' > 0
<1>1. changes' = changes + 1
  BY DEF DiskChanges, ChangeFile, ChangeManifest
<1> QED
  BY <1>1

\* An exception that nothing handles is about a source or a manifest.
LEMMA FailureHasCulprit ==
  ASSUME IInv, FailRust
  PROVE  stage' = "failed" /\ UNCHANGED disk /\ UNCHANGED sources /\ Culprit
<1>1. RustRaises /\ stage' = "failed" /\ UNCHANGED disk /\ UNCHANGED sources
  BY DEF FailRust, reading
<1>2. CASE \E p \in Path : /\ NearestPackage(Parent[Target[p]]) # Nowhere
                          /\ manifest[NearestPackage(Parent[Target[p]])] = "nested"
  BY <1>1, <1>2, NearestIsADirectory DEF Culprit
<1>3. CASE stage = "workspace" /\ \E i \in DOMAIN Upwards[owner.manifest] :
                                    manifest[Upwards[owner.manifest][i]] = "nested"
  <2>1. owner.manifest \in Directory
    BY <1>3 DEF IInv
  <2>2. Upwards[owner.manifest] \in Seq(Directory)
    BY <2>1, FrontendAssumption DEF FrontendAssumption
  <2>3. \A i \in DOMAIN Upwards[owner.manifest] : Upwards[owner.manifest][i] \in Directory
    BY <2>2
  <2> QED
    BY <1>1, <1>3, <2>3 DEF Culprit
<1>4. CASE \E s \in sources : ~s.content.legible
  BY <1>1, <1>4 DEF Culprit
<1> QED
  BY <1>1, <1>2, <1>3, <1>4 DEF RustRaises, Fits, Readable

\* The invariant holds before an analysis and after each step.
THEOREM Invariance == RustSpec => []IInv
<1>1. RustInit => IInv
  BY DEF RustInit, FrontendInit, AnyDisk, IInv
<1>2. IInv /\ [RustNext]_rustVars => IInv'
  <2> SUFFICES ASSUME IInv, [RustNext]_rustVars PROVE IInv'
    OBVIOUS
  <2>1. ASSUME NEW paths \in Requests, AnalyzeRust(paths) PROVE IInv'
    BY <2>1, OtherSteps DEF AnalyzeRust, Analyze
  <2>2. ASSUME NEW p \in Path, ParseRust(p) PROVE IInv'
    <3>1. stage = "parse" /\ UNCHANGED disk
      BY <2>2 DEF ParseRust
    <3>2. CASE RejectRust(p)
      BY <3>1, <3>2, OtherSteps DEF RejectRust
    <3>3. CASE FindPackage(p)
      <4> DEFINE d == NearestPackage(Parent[Target[p]])
      <4>1. CASE PackageErrors(p, d) # {}
        <5>1. stage' = "parse"
          BY <3>1, <3>3, <4>1 DEF FindPackage
        <5> QED
          BY <3>1, <5>1, OtherSteps
      <4>2. CASE PackageErrors(p, d) = {}
        <5>1. stage' = "workspace" /\ owner'.manifest = d
          BY <3>3, <4>2 DEF FindPackage
        <5>2. d # Nowhere
          BY <4>2 DEF PackageErrors
        <5>3. d \in Directory
          BY <5>2, NearestIsADirectory
        <5> QED
          BY <3>1, <5>1, <5>3 DEF IInv, disk
      <4> QED
        BY <4>1, <4>2
    <3> QED
      BY <2>2, <3>2, <3>3 DEF ParseRust
  <2>3. CASE SelectWorkspace
    <3>1. /\ owner.manifest \in Directory /\ stage' = "dependencies" /\ UNCHANGED disk
          /\ owner' = [owner EXCEPT !.workspace = Workspace(owner.manifest)]
      BY <2>3 DEF SelectWorkspace, IInv
    <3>2. Workspace(owner.manifest) # Nowhere => Loads(Workspace(owner.manifest))
      BY <3>1, WorkspaceLoads
    <3>3. \A e : Loads(e)' <=> Loads(e)
      BY <3>1 DEF Loads, disk
    <3> QED
      BY <3>1, <3>2, <3>3 DEF IInv, disk
  <2>4. CASE WorkspaceIsGone
    BY <2>4 DEF WorkspaceIsGone, IInv, disk
  <2>5. CASE ReadDependencies
    BY <2>5, OtherSteps DEF ReadDependencies
  <2>6. CASE ParseDone \/ ReturnAnalysis
    BY <2>6, OtherSteps DEF ParseDone, ReturnAnalysis
  <2>7. ASSUME NEW s \in sources, SummariseRust(s) PROVE IInv'
    BY <2>7, OtherSteps DEF SummariseRust
  <2>8. CASE DiskChanges /\ UNCHANGED <<collected, stage, reading, cargo>>
    BY <2>8, ChangesAreCounted DEF IInv, cargo
  <2>9. CASE UNCHANGED rustVars
    BY <2>9 DEF IInv, rustVars, frontendVars, cargo, disk, reading, Loads, Culprit
  <2>10. CASE FailRust
    BY <2>10, FailureHasCulprit DEF IInv, disk, Culprit
  <2> QED
    BY <2>1, <2>2, <2>3, <2>4, <2>5, <2>6, <2>7, <2>8, <2>9, <2>10 DEF RustNext
<1> QED
  BY <1>1, <1>2, PTL DEF RustSpec

\* On a disk at rest only a source that is not legible (text and walk, which _uses,
\* _modules and _syntax call) and a manifest nested too deeply (tomllib) make the
\* analysis fail: the second reading of the workspace manifest (_owning_package) has
\* no handler, and needs none, since _workspace_manifest selects what it could read.
THEOREM StillDiskIsAlwaysAnalyzed == RustSpec => []StillDiskIsAnalyzed
<1>1. IInv => StillDiskIsAnalyzed
  BY DEF IInv, StillDiskIsAnalyzed, Culprit
<1> QED
  BY <1>1, Invariance, PTL
-----------------------------------------------------------------------------
(* What an analysis says nothing about it has resolved.  The inductive     *)
(* invariant is SilenceInv of RustFrontend: nothing collected gets lost,   *)
(* a source without a diagnostic has the package that the manifests on     *)
(* disk describe, and one summary is made for it.                          *)

\* What is known of the manifests changes with them alone.
LEMMA ManifestsStay ==
  ASSUME manifest' = manifest, NEW d
  PROVE  /\ NearestPackage(d)' = NearestPackage(d) /\ Says(d)' = Says(d)
         /\ Workspace(d)' = Workspace(d) /\ Everything(d)' = Everything(d)
<1>1. Workspace(d)' = Workspace(d)
  BY DEF Workspace, Loads, Says
<1>2. \A x : Crate(x, Workspace(d))' = Crate(x, Workspace(d))
  BY <1>1 DEF Crate, Says
<1> QED
  BY <1>1, <1>2 DEF NearestPackage, Everything, Says

\* A source has its package as long as the disk is left alone, and nothing has
\* to be shown once it changed.
LEMMA PackageStays ==
  ASSUME NEW s, HasItsPackage(s), diagnostics \subseteq diagnostics', UNCHANGED disk \/ changes' # 0
  PROVE  HasItsPackage(s)'
<1>1. Mentioned(s.via) => Mentioned(s.via)'
  BY DEF Mentioned
<1>2. CASE changes' # 0
  BY <1>1, <1>2 DEF HasItsPackage
<1>3. CASE UNCHANGED disk
  <2>1. changes' = changes /\ manifest' = manifest
    BY <1>3 DEF disk
  <2>2. \A d : NearestPackage(d)' = NearestPackage(d) /\ Everything(d)' = Everything(d)
    BY <2>1, ManifestsStay
  <2> QED
    BY <1>1, <2>1, <2>2 DEF HasItsPackage
<1> QED
  BY <1>2, <1>3

\* The summaries made stay what they are.
LEMMA SummariesStay ==
  ASSUME SourcesAreSummarised, sources' = sources, summaries \subseteq summaries',
         diagnostics \subseteq diagnostics', NEW p \in {s.via : s \in sources}
  PROVE  p \in pending \/ Truncated' \/ \E s \in sources', m \in summaries' : s.via = p /\ Summarises(m, s)'
<1>1. \A q : Mentioned(q) => Mentioned(q)'
  BY DEF Mentioned
<1>2. Truncated => Truncated'
  BY DEF Truncated
<1>3. ASSUME NEW s \in sources, NEW m \in summaries, Summarises(m, s) PROVE Summarises(m, s)'
  <2>1. Uses(s)' = Uses(s) /\ Statements(s, "macro")' = Statements(s, "macro")
        /\ Statements(s, "cfg")' = Statements(s, "cfg")
    BY DEF Uses, Statements, Origin
  <2> QED
    BY <1>1, <1>3, <2>1 DEF Summarises
<1> QED
  BY <1>2, <1>3 DEF SourcesAreSummarised

\* What the checks the two frontends share do to the records.
LEMMA RejectedIsMentioned ==
  ASSUME NEW p, RejectRust(p)
  PROVE  /\ diagnostics \subseteq diagnostics' /\ sources' = sources
         /\ Truncated' \/ (pending' = pending \ {p} /\ Mentioned(p)')
<1>1. ASSUME NEW kind, NEW level, NEW status, Reject(p, kind, level, status)
      PROVE  /\ pending' = pending \ {p} /\ diagnostics \subseteq diagnostics' /\ sources' = sources
             /\ Mentioned(p)'
  <2>1. Failure(kind, p, 0, level, status).via = p
    BY DEF Failure
  <2> QED
    BY <1>1, <2>1 DEF Reject, Mentioned
<1>2. CASE StopAtTotal(p)
  <2>1. TotalExceeded(p).level = "error" /\ TotalExceeded(p).id[1] = "total"
    BY DEF TotalExceeded
  <2> QED
    BY <1>2, <2>1 DEF StopAtTotal, Truncated
<1>3. CASE SkipUnsupported(p) \/ SkipUnreadable(p) \/ SkipOversized(p) \/ SkipUnparseable(p)
  BY <1>1, <1>3 DEF SkipUnsupported, SkipUnreadable, SkipOversized, SkipUnparseable
<1> QED
  BY <1>2, <1>3 DEF RejectRust

\* A package that cannot be read has a diagnostic at the source that needs it.
LEMMA PackageErrorsNameTheSource ==
  ASSUME NEW p, NEW d, NEW x \in PackageErrors(p, d)
  PROVE  x.via = p
<1>1. \A kind, at, level, status : Failure(kind, p, at, level, status).via = p
  BY DEF Failure
<1>2. [Failure("manifest", p, 0, "error", "error") EXCEPT !.id = <<"manifest", d>>, !.span = d].via = p
  BY DEF Failure
<1> QED
  BY <1>1, <1>2 DEF PackageErrors

\* So has a dependency that is inherited from nowhere.
LEMMA InheritanceErrorsNameTheSource ==
  ASSUME NEW x \in InheritanceErrors
  PROVE  x.via = owner.via
  BY DEF InheritanceErrors, Failure

\* When nothing is inherited from nowhere, all that the manifest depends on is
\* among the dependencies read, at the workspace selected.
LEMMA EverythingIsRead ==
  ASSUME InheritanceErrors = {}, owner.says = Says(owner.manifest), owner.manifest \in Directory,
         owner.workspace = Workspace(owner.manifest)
  PROVE  Dependencies = Everything(owner.manifest)
<1> DEFINE d == owner.manifest
           w == owner.workspace
<1>1. \A x \in Says(d).dependencies : ~Undeclared(x)
  BY DEF InheritanceErrors
<1>2. Shared = IF w = Nowhere THEN {} ELSE Says(w).shared
  <2>1. w # Nowhere => Says(w).workspace
    BY WorkspaceLoads
  <2> QED
    BY <2>1 DEF Shared
<1>3. \A x : Crate(x, w) = IF x.inherited THEN (CHOOSE e \in Shared : e[1] = x.alias)[2] ELSE x.package
  BY <1>2 DEF Crate
<1>4. \A x \in Says(d).dependencies :
         (IF x.inherited THEN (CHOOSE e \in Shared : e[1] = x.alias)[2] ELSE x.package) = Crate(x, w)
  BY <1>3
<1>5. {y \in owner.says.dependencies : ~Undeclared(y)} = Says(d).dependencies
  BY <1>1
<1> QED
  BY <1>4, <1>5 DEF Dependencies, Everything

\* A path of the loop is read, or turned down with a diagnostic.
LEMMA OneIsReadOrMentioned ==
  ASSUME SilenceInv, NEW p \in Path, ParseRust(p)
  PROVE  SilenceInv'
<1>1. stage = "parse" /\ UNCHANGED disk /\ UNCHANGED <<collected, summaries>>
  BY DEF ParseRust
<1>2. CASE RejectRust(p)
  <2>1. /\ diagnostics \subseteq diagnostics' /\ sources' = sources /\ stage' = stage
        /\ Truncated' \/ (pending' = pending \ {p} /\ Mentioned(p)')
    BY <1>2, RejectedIsMentioned DEF RejectRust
  <2>2. \A s \in sources' : s.path = Target[s.via] /\ HasItsPackage(s)'
    BY <1>1, <2>1, PackageStays DEF SilenceInv
  <2>3. PathsAreAccountedFor'
    BY <1>1, <2>1 DEF SilenceInv, PathsAreAccountedFor, Mentioned, Truncated
  <2> QED
    BY <1>1, <2>1, <2>2, <2>3 DEF SilenceInv
<1>3. CASE FindPackage(p)
  <2> DEFINE d == NearestPackage(Parent[Target[p]])
  <2>1. pending' = pending \ {p} /\ diagnostics' = diagnostics \cup PackageErrors(p, d)
    BY <1>3 DEF FindPackage
  <2>2. CASE PackageErrors(p, d) # {}
    <3>0. PICK new : new = RustSource(p, file[Target[p]], NoPackage)
      OBVIOUS
    <3>1. sources' = sources \cup {new} /\ stage' = "parse"
      BY <1>1, <1>3, <2>2, <3>0 DEF FindPackage
    <3>2. Mentioned(p)'
      BY <2>1, <2>2, PackageErrorsNameTheSource DEF Mentioned
    <3>3. new.via = p /\ new.path = Target[p]
      BY <3>0 DEF RustSource
    <3>4. HasItsPackage(new)'
      BY <3>2, <3>3 DEF HasItsPackage
    <3>5. \A s \in sources' : s.path = Target[s.via] /\ HasItsPackage(s)'
      BY <1>1, <2>1, <3>1, <3>3, <3>4, PackageStays DEF SilenceInv
    <3>6. PathsAreAccountedFor'
      BY <1>1, <2>1, <3>1, <3>2 DEF SilenceInv, PathsAreAccountedFor, Mentioned, Truncated
    <3> QED
      BY <3>1, <3>5, <3>6 DEF SilenceInv
  <2>3. CASE PackageErrors(p, d) = {}
    <3>1. /\ stage' = "workspace" /\ sources' = sources /\ diagnostics' = diagnostics
          /\ owner'.via = p /\ owner'.manifest = d /\ owner'.says = Says(d)
      BY <1>3, <2>1, <2>3 DEF FindPackage
    <3>2. d # Nowhere
      BY <2>3 DEF PackageErrors
    <3>3. OwnerIsKnown'
      <4>1. d' = d /\ Says(d)' = Says(d)
        BY <1>1, ManifestsStay DEF disk
      <4> QED
        BY <1>3, <2>3, <3>1, <3>2, <4>1, NearestIsADirectory DEF OwnerIsKnown, FindPackage
    <3>4. \A s \in sources' : s.path = Target[s.via] /\ HasItsPackage(s)'
      BY <1>1, <2>1, <3>1, PackageStays DEF SilenceInv
    <3>5. PathsAreAccountedFor'
      BY <1>1, <2>1, <3>1 DEF SilenceInv, PathsAreAccountedFor, Mentioned, Truncated
    <3> QED
      BY <3>1, <3>3, <3>4, <3>5 DEF SilenceInv
  <2> QED
    BY <2>2, <2>3
<1> QED
  BY <1>2, <1>3 DEF ParseRust

\* A source whose package has been read has what the manifests say, or a
\* diagnostic.
LEMMA PackageIsRead ==
  ASSUME SilenceInv, ReadDependencies
  PROVE  SilenceInv'
<1>0. PICK new : new = RustSource(owner.via, owner.content,
                                   Package(owner.manifest, owner.workspace, Dependencies))
  OBVIOUS
<1>1. /\ stage = "dependencies" /\ stage' = "parse" /\ UNCHANGED disk /\ UNCHANGED <<collected, pending>>
      /\ sources' = sources \cup {new} /\ diagnostics' = diagnostics \cup InheritanceErrors
  BY <1>0 DEF ReadDependencies
<1>2. /\ new.via = owner.via /\ new.path = Target[owner.via]
      /\ new.package = Package(owner.manifest, owner.workspace, Dependencies)
  BY <1>0 DEF RustSource
<1>3. new.package.manifest = owner.manifest /\ new.package.dependencies = Dependencies /\ new.package # NoPackage
  <2>1. owner.manifest # Nowhere
    BY <1>1 DEF SilenceInv, OwnerIsKnown
  <2> QED
    BY <1>2, <2>1 DEF Package, NoPackage
<1>4. HasItsPackage(new)'
  <2>1. CASE InheritanceErrors # {}
    <3>1. Mentioned(new.via)'
      BY <1>1, <1>2, <2>1, InheritanceErrorsNameTheSource DEF Mentioned
    <3> QED
      BY <3>1 DEF HasItsPackage
  <2>2. CASE InheritanceErrors = {}
    <3>1. changes' = changes /\ manifest' = manifest
      BY <1>1 DEF disk
    <3>2. ASSUME changes = 0
          PROVE  /\ new.package.manifest = NearestPackage(Parent[new.path])
                 /\ new.package.dependencies = Everything(new.package.manifest)
      BY <1>1, <1>2, <1>3, <2>2, <3>2, EverythingIsRead DEF SilenceInv, OwnerIsKnown
    <3>3. /\ NearestPackage(Parent[new.path])' = NearestPackage(Parent[new.path])
          /\ Everything(new.package.manifest)' = Everything(new.package.manifest)
      BY <3>1, ManifestsStay
    <3> QED
      BY <1>2, <1>3, <3>1, <3>2, <3>3 DEF HasItsPackage
  <2> QED
    BY <2>1, <2>2
<1>5. \A s \in sources' : s.path = Target[s.via] /\ HasItsPackage(s)'
  BY <1>1, <1>2, <1>4, PackageStays DEF SilenceInv
<1>6. PathsAreAccountedFor'
  BY <1>1, <1>2 DEF SilenceInv, PathsAreAccountedFor, Mentioned, Truncated
<1> QED
  BY <1>1, <1>5, <1>6 DEF SilenceInv

\* What stays unresolved in a source has a diagnostic at the source.
LEMMA SummaryIsComplete ==
  ASSUME NEW s, NEW m, m = [via |-> s.via, uses |-> Uses(s), modules |-> Modules(s)],
         diagnostics' = diagnostics \cup RustDiagnostics(s)
  PROVE  Summarises(m, s)'
<1>1. m.via = s.via /\ m.uses = Uses(s) /\ m.modules = Modules(s)
  OBVIOUS
<1>2. \A kind, at, level, status : Failure(kind, s.via, at, level, status).via = s.via
  BY DEF Failure
<1>3. RustDiagnostics(s) # {} => Mentioned(s.via)'
  BY <1>2 DEF RustDiagnostics, Mentioned
<1>4. RustDiagnostics(s) = {} => /\ \A u \in m.uses : u.origin # Nowhere
                                 /\ UnresolvedModules(s) = {}
                                 /\ Statements(s, "macro") = {} /\ Statements(s, "cfg") = {}
  BY <1>1 DEF RustDiagnostics
<1>5. UnresolvedModules(s) = {} =>
        \A x \in m.modules : x.target = Nowhere => s.content.statements[x.at].form = "inline"
  BY <1>1 DEF UnresolvedModules
<1>6. Uses(s)' = Uses(s) /\ Statements(s, "macro")' = Statements(s, "macro")
      /\ Statements(s, "cfg")' = Statements(s, "cfg")
  BY DEF Uses, Statements, Origin
<1> QED
  BY <1>1, <1>3, <1>4, <1>5, <1>6 DEF Summarises

\* A source is summarised, or the analysis says that it gave up.
LEMMA OneIsSummarised ==
  ASSUME SilenceInv, NEW s \in sources, SummariseRust(s)
  PROVE  SilenceInv'
<1>1. /\ stage = "summaries" /\ stage' = "summaries" /\ UNCHANGED disk /\ UNCHANGED collected
      /\ sources' = sources /\ diagnostics \subseteq diagnostics' /\ summaries \subseteq summaries'
  BY DEF SummariseRust
<1>2. \A t \in sources' : t.path = Target[t.via] /\ HasItsPackage(t)'
  BY <1>1, PackageStays DEF SilenceInv
<1>3. PathsAreAccountedFor'
  BY <1>1 DEF SilenceInv, PathsAreAccountedFor, Mentioned, Truncated
<1>4. SourcesAreSummarised'
  <2>1. CASE Cardinality(summaries) >= MaxSummaries
    <3>1. TooManySummaries(s.via).level = "error" /\ TooManySummaries(s.via).id[1] = "summaries"
      BY DEF TooManySummaries
    <3>2. Truncated'
      BY <2>1, <3>1 DEF SummariseRust, EnoughSummaries, Truncated
    <3> QED
      BY <3>2 DEF SourcesAreSummarised
  <2>2. CASE ~(Cardinality(summaries) >= MaxSummaries)
    <3>1. PICK m : m = [via |-> s.via, uses |-> Uses(s), modules |-> Modules(s)]
      OBVIOUS
    <3>2. /\ pending' = pending \ {s.via} /\ summaries' = summaries \cup {m}
          /\ diagnostics' = diagnostics \cup RustDiagnostics(s)
      BY <2>2, <3>1 DEF SummariseRust, EnoughSummaries
    <3>3. Summarises(m, s)'
      BY <3>1, <3>2, SummaryIsComplete
    <3>4. SourcesAreSummarised
      BY <1>1 DEF SilenceInv
    <3>5. ASSUME NEW p \in {t.via : t \in sources}
          PROVE  p \in pending' \/ Truncated' \/ \E t \in sources', n \in summaries' : t.via = p /\ Summarises(n, t)'
      BY <1>1, <3>2, <3>3, <3>4, SummariesStay
    <3> QED
      BY <1>1, <3>5 DEF SourcesAreSummarised
  <2> QED
    BY <2>1, <2>2
<1> QED
  BY <1>1, <1>2, <1>3, <1>4 DEF SilenceInv

\* Nothing is lost by a step that leaves the records alone.
LEMMA RecordsStay ==
  ASSUME SilenceInv, UNCHANGED <<collected, stage, reading, cargo>>, UNCHANGED disk \/ changes' # 0
  PROVE  SilenceInv'
<1>1. UNCHANGED <<collected, stage, pending, sources, diagnostics, owner, summaries>>
  BY DEF reading, cargo
<1>2. stage \in {"workspace", "dependencies"} => OwnerIsKnown'
  <2>1. CASE changes' # 0
    BY <1>1, <2>1 DEF SilenceInv, OwnerIsKnown
  <2>2. CASE UNCHANGED disk
    <3>1. manifest' = manifest /\ changes' = changes
      BY <2>2 DEF disk
    <3>2. \A d : NearestPackage(d)' = NearestPackage(d) /\ Says(d)' = Says(d) /\ Workspace(d)' = Workspace(d)
      BY <3>1, ManifestsStay
    <3> QED
      BY <1>1, <3>1, <3>2 DEF SilenceInv, OwnerIsKnown
  <2> QED
    BY <2>1, <2>2
<1>3. \A s \in sources' : s.path = Target[s.via] /\ HasItsPackage(s)'
  BY <1>1, PackageStays DEF SilenceInv
<1>4. PathsAreAccountedFor'
  BY <1>1 DEF SilenceInv, PathsAreAccountedFor, Mentioned, Truncated
<1>5. SourcesAreSummarised => SourcesAreSummarised'
  BY <1>1, SummariesStay DEF SourcesAreSummarised
<1> QED
  BY <1>1, <1>2, <1>3, <1>4, <1>5 DEF SilenceInv

\* The invariant holds before an analysis and after each step.
THEOREM SilenceIsKept == RustSpec => []SilenceInv
<1>1. RustInit => SilenceInv
  BY DEF RustInit, FrontendInit, SilenceInv, PathsAreAccountedFor, SourcesAreSummarised
<1>2. IInv /\ SilenceInv /\ [RustNext]_rustVars => SilenceInv'
  <2> SUFFICES ASSUME IInv, SilenceInv, [RustNext]_rustVars PROVE SilenceInv'
    OBVIOUS
  <2>1. ASSUME NEW paths \in Requests, AnalyzeRust(paths) PROVE SilenceInv'
    <3>1. TooManyFiles.level = "error" /\ TooManyFiles.id[1] = "files"
      BY DEF TooManyFiles
    <3>2. stage' = "parse" /\ sources' = {} /\ collected' = paths /\ (pending' = paths \/ Truncated')
      BY <2>1, <3>1 DEF AnalyzeRust, Analyze, BeginParse, Truncated
    <3> QED
      BY <3>2 DEF SilenceInv, PathsAreAccountedFor
  <2>2. ASSUME NEW p \in Path, ParseRust(p) PROVE SilenceInv'
    BY <2>2, OneIsReadOrMentioned
  <2>3. CASE SelectWorkspace
    <3>1. /\ stage = "workspace" /\ stage' = "dependencies" /\ UNCHANGED disk
          /\ UNCHANGED <<collected, pending, sources, diagnostics>>
          /\ owner' = [owner EXCEPT !.workspace = Workspace(owner.manifest)]
      BY <2>3 DEF SelectWorkspace, reading
    <3>2. owner'.via = owner.via /\ owner'.manifest = owner.manifest /\ owner'.says = owner.says
          /\ owner'.workspace = Workspace(owner.manifest) /\ owner'.content = owner.content
      BY <3>1 DEF SilenceInv, OwnerIsKnown
    <3>3. OwnerIsKnown'
      <4>1. changes' = changes /\ manifest' = manifest
        BY <3>1 DEF disk
      <4>2. \A d : NearestPackage(d)' = NearestPackage(d) /\ Says(d)' = Says(d) /\ Workspace(d)' = Workspace(d)
        BY <4>1, ManifestsStay
      <4>3. owner' = [via |-> owner'.via, content |-> owner'.content, manifest |-> owner'.manifest,
                      says |-> owner'.says, workspace |-> owner'.workspace]
        BY <3>1, <3>2 DEF SilenceInv, OwnerIsKnown
      <4> QED
        BY <3>1, <3>2, <4>1, <4>2, <4>3 DEF SilenceInv, OwnerIsKnown
    <3>4. \A s \in sources' : s.path = Target[s.via] /\ HasItsPackage(s)'
      BY <3>1, PackageStays DEF SilenceInv
    <3>5. PathsAreAccountedFor'
      BY <3>1, <3>2 DEF SilenceInv, PathsAreAccountedFor, Mentioned, Truncated
    <3> QED
      BY <3>1, <3>3, <3>4, <3>5 DEF SilenceInv
  <2>4. CASE WorkspaceIsGone
    <3>1. stage' = "failed" /\ UNCHANGED disk /\ sources' = sources /\ diagnostics' = diagnostics
      BY <2>4 DEF WorkspaceIsGone, reading
    <3>2. \A s \in sources' : s.path = Target[s.via] /\ HasItsPackage(s)'
      BY <3>1, PackageStays DEF SilenceInv
    <3> QED
      BY <3>1, <3>2 DEF SilenceInv, PathsAreAccountedFor
  <2>5. CASE ReadDependencies
    BY <2>5, PackageIsRead
  <2>6. CASE ParseDone /\ UNCHANGED cargo
    <3>1. /\ stage = "parse" /\ stage' = "summaries" /\ pending = {} /\ pending' = {s.via : s \in sources}
          /\ UNCHANGED disk /\ UNCHANGED <<collected, sources, diagnostics>>
      BY <2>6 DEF ParseDone, BeginSummaries
    <3>2. \A s \in sources' : s.path = Target[s.via] /\ HasItsPackage(s)'
      BY <3>1, PackageStays DEF SilenceInv
    <3>3. PathsAreAccountedFor'
      BY <3>1 DEF SilenceInv, PathsAreAccountedFor, Mentioned, Truncated
    <3>4. SourcesAreSummarised'
      BY <3>1 DEF SourcesAreSummarised
    <3> QED
      BY <3>1, <3>2, <3>3, <3>4 DEF SilenceInv
  <2>7. ASSUME NEW s \in sources, SummariseRust(s) PROVE SilenceInv'
    BY <2>7, OneIsSummarised
  <2>8. CASE ReturnAnalysis /\ UNCHANGED cargo
    <3>1. /\ stage = "summaries" /\ pending = {} /\ stage' = "idle" /\ UNCHANGED disk
          /\ UNCHANGED <<collected, pending, sources, diagnostics, summaries>>
      BY <2>8 DEF ReturnAnalysis, reading, cargo
    <3>2. \A s \in sources' : s.path = Target[s.via] /\ HasItsPackage(s)'
      BY <3>1, PackageStays DEF SilenceInv
    <3>3. PathsAreAccountedFor'
      BY <3>1 DEF SilenceInv, PathsAreAccountedFor, Mentioned, Truncated
    <3>4. SourcesAreSummarised'
      BY <3>1, SummariesStay DEF SilenceInv, SourcesAreSummarised
    <3> QED
      BY <3>1, <3>2, <3>3, <3>4 DEF SilenceInv
  <2>9. CASE DiskChanges /\ UNCHANGED <<collected, stage, reading, cargo>>
    <3>1. changes' # 0
      BY <2>9, ChangesAreCounted DEF IInv
    <3> QED
      BY <2>9, <3>1, RecordsStay
  <2>10. CASE UNCHANGED rustVars
    BY <2>10, RecordsStay DEF rustVars, frontendVars
  <2>11. CASE FailRust
    <3>1. stage' = "failed" /\ UNCHANGED disk /\ sources' = sources /\ diagnostics' = diagnostics
      BY <2>11 DEF FailRust, reading
    <3>2. \A s \in sources' : s.path = Target[s.via] /\ HasItsPackage(s)'
      BY <3>1, PackageStays DEF SilenceInv
    <3> QED
      BY <3>1, <3>2 DEF SilenceInv, PathsAreAccountedFor
  <2> QED
    BY <2>1, <2>2, <2>3, <2>4, <2>5, <2>6, <2>7, <2>8, <2>9, <2>10, <2>11 DEF RustNext
<1> QED
  BY <1>1, <1>2, Invariance, PTL DEF RustSpec

\* An analysis that ends without a diagnostic for a source has resolved it: its
\* package, the crates its uses lead to, its modules (_owning_package, _uses,
\* _modules, _syntax).
THEOREM SilenceAlwaysMeansResolved == RustSpec => []SilenceMeansResolved
<1>1. SilenceInv => SilenceMeansResolved
  <2> SUFFICES ASSUME SilenceInv, stage = "idle", ~Truncated, NEW p \in collected, ~Mentioned(p)
               PROVE  \E s \in sources, m \in summaries : s.via = p /\ m.via = p /\ Resolved(s, m)
    BY DEF SilenceMeansResolved
  <2>1. p \in {s.via : s \in sources}
    BY DEF SilenceInv, PathsAreAccountedFor
  <2>2. PICK s \in sources, m \in summaries : s.via = p /\ Summarises(m, s)
    BY <2>1 DEF SilenceInv, SourcesAreSummarised
  <2>3. /\ s.path = Target[p] /\ s.package # NoPackage
        /\ changes = 0 => /\ s.package.manifest = NearestPackage(Parent[s.path])
                          /\ s.package.dependencies = Everything(s.package.manifest)
    BY <2>2 DEF SilenceInv, HasItsPackage
  <2>4. ASSUME changes = 0
        PROVE  {d.alias : d \in s.package.dependencies} = {d.alias : d \in Says(s.package.manifest).dependencies}
    <3> DEFINE D == Says(s.package.manifest).dependencies
               w == Workspace(s.package.manifest)
    <3>1. s.package.dependencies = {[alias |-> x.alias, kind |-> x.kind, package |-> Crate(x, w)] : x \in D}
      BY <2>3, <2>4 DEF Everything
    <3> HIDE DEF D, w
    <3>2. \A d \in s.package.dependencies : \E x \in D : d.alias = x.alias
      BY <3>1
    <3>3. ASSUME NEW x \in D PROVE \E d \in s.package.dependencies : d.alias = x.alias
      <4>1. [alias |-> x.alias, kind |-> x.kind, package |-> Crate(x, w)] \in s.package.dependencies
        BY <3>1
      <4> QED
        BY <4>1
    <3>4. {d.alias : d \in s.package.dependencies} = {x.alias : x \in D}
      BY <3>2, <3>3
    <3> QED
      BY <3>4 DEF D
  <2>5. ASSUME changes = 0, NEW u \in m.uses, u.name \notin Local \cup Builtin
        PROVE  u.origin \in CratesOf(NearestPackage(Parent[s.path]), u.name)
    <3> DEFINE named == {d \in s.package.dependencies : Identifier[d.alias] = u.name}
    <3>1. u.origin = Origin(s, u.name) /\ u.origin # Nowhere
      BY <2>2 DEF Summarises, Uses
    <3>2. named # {} /\ u.origin = (CHOOSE d \in named : TRUE).package
      BY <2>5, <3>1 DEF Origin
    <3>3. PICK d \in named : u.origin = d.package
      BY <3>2
    <3>4. PICK x \in Says(s.package.manifest).dependencies :
            d.alias = x.alias /\ d.package = Crate(x, Workspace(s.package.manifest))
      BY <2>3, <2>5, <3>3 DEF Everything
    <3> QED
      BY <2>3, <2>5, <3>3, <3>4 DEF CratesOf
  <2> QED
    BY <2>2, <2>3, <2>4, <2>5 DEF Resolved, Summarises
<1> QED
  BY <1>1, SilenceIsKept, PTL
=============================================================================
