-------------------------- MODULE EvidenceRunProofs --------------------------
(***************************************************************************)
(* Proofs about the reading of a project: by JavaScriptFrontend alone      *)
(* (first part), and by an evidence scan, which reads it three times, from *)
(* the disk to the gate (second part); for any project, any limits, any    *)
(* policies and any number of changes of the disk while it is read.        *)
(***************************************************************************)
EXTENDS EvidenceRun, FiniteSetTheorems, WellFoundedInduction, TLAPS

-----------------------------------------------------------------------------
(* The frontend: no source disappears.  The property is inductive as it    *)
(* stands.                                                                 *)

\* What one iteration of parse does to the records.
LEMMA OneIsAccountedFor ==
  ASSUME NEW p, ReadOne(p)
  PROVE  /\ p \in pending /\ diagnostics \subseteq diagnostics' /\ sources \subseteq sources'
         /\ pending' \subseteq pending
         /\ \/ /\ pending' = pending \ {p}
               /\ p \in {s.via : s \in sources'} \/ \E d \in diagnostics' : d.via = p
            \/ \E d \in diagnostics' : d.level = "error" /\ d.id[1] = "total"
<1>1. p \in pending
  BY DEF ReadOne, Due
<1>2. ASSUME NEW kind, NEW level, NEW status, Reject(p, kind, level, status)
      PROVE  /\ pending' = pending \ {p} /\ diagnostics \subseteq diagnostics' /\ sources' = sources
             /\ \E d \in diagnostics' : d.via = p
  <2>1. Failure(kind, p, 0, level, status).via = p
    BY DEF Failure
  <2> QED
    BY <1>2, <2>1 DEF Reject
<1>3. CASE StopAtTotal(p)
  <2>1. TotalExceeded(p).level = "error" /\ TotalExceeded(p).id[1] = "total"
    BY DEF TotalExceeded
  <2> QED
    BY <1>1, <1>3, <2>1 DEF StopAtTotal
<1>4. CASE Keep(p)
  <2>1. SourceAt(p).via = p
    BY DEF SourceAt
  <2> QED
    BY <1>1, <1>4, <2>1 DEF Keep
<1>5. CASE SkipUnsupported(p) \/ SkipUnreadable(p) \/ SkipOversized(p) \/ SkipUnparseable(p)
  BY <1>1, <1>2, <1>5 DEF SkipUnsupported, SkipUnreadable, SkipOversized, SkipUnparseable
<1> QED
  BY <1>3, <1>4, <1>5 DEF ReadOne

\* Every path collected is in the same place after each step, or accounted for.
THEOREM NoSourceEverDisappears == FrontendSpec => []NoSourceDisappears
<1>1. FrontendInit => NoSourceDisappears
  BY DEF FrontendInit, NoSourceDisappears
<1>2. NoSourceDisappears /\ [FrontendNext]_frontendVars => NoSourceDisappears'
  <2> SUFFICES ASSUME NoSourceDisappears, [FrontendNext]_frontendVars PROVE NoSourceDisappears'
    OBVIOUS
  <2> USE DEF Mentioned, Truncated
  <2>1. ASSUME NEW paths \in Requests, Analyze(paths) PROVE NoSourceDisappears'
    <3>1. TooManyFiles.level = "error" /\ TooManyFiles.id[1] = "files"
      BY DEF TooManyFiles
    <3> QED
      BY <2>1, <3>1 DEF Analyze, BeginParse, NoSourceDisappears
  <2>2. ASSUME NEW p \in Path, ParseOne(p) PROVE NoSourceDisappears'
    <3>1. ReadOne(p) /\ stage = "parse" /\ stage' = "parse" /\ collected' = collected
      BY <2>2 DEF ParseOne
    <3> QED
      BY <3>1, OneIsAccountedFor DEF NoSourceDisappears
  <2>3. CASE ParseDone
    BY <2>3 DEF ParseDone, BeginSummaries, NoSourceDisappears
  <2>4. ASSUME NEW s \in sources, SummariseNext(s) PROVE NoSourceDisappears'
    <3>1. sources' = sources /\ diagnostics \subseteq diagnostics' /\ collected' = collected
          /\ stage = "summaries" /\ stage' = "summaries"
      BY <2>4 DEF SummariseNext, Summarise, disk
    <3> QED
      BY <3>1 DEF NoSourceDisappears
  <2>5. CASE ReturnAnalysis
    BY <2>5 DEF ReturnAnalysis, NoSourceDisappears, reading
  <2>6. CASE DiskChanges /\ UNCHANGED <<collected, stage, reading>>
    BY <2>6 DEF NoSourceDisappears, reading
  <2>7. CASE UNCHANGED frontendVars
    BY <2>7 DEF NoSourceDisappears, reading, frontendVars
  <2>8. CASE FailAnalysis
    BY <2>8 DEF FailAnalysis, NoSourceDisappears, reading
  <2> QED
    BY <2>1, <2>2, <2>3, <2>4, <2>5, <2>6, <2>7, <2>8 DEF FrontendNext
<1> QED
  BY <1>1, <1>2, PTL DEF FrontendSpec

-----------------------------------------------------------------------------
(* Trouble is diagnosed.  A source is kept once, and is summarised before  *)
(* the analysis is returned; between the two, its diagnostics are awaited, *)
(* in vain if an exception ends the analysis.                              *)

Has(s, kind) == \E d \in diagnostics : d.via = s.via /\ d.level = "error" /\ d.id[1] = kind

\* What has been said of a source once it is summarised.
Settled(s) ==
  \/ Truncated
  \/ /\ Ambiguous(s) # {} => Has(s, "binding")
     /\ changes = 0 /\ (\E b \in Imports(s) : CrossesPackage(s, b)) => Has(s, "package-boundary")

IInv ==
  /\ stage \in {"idle", "parse", "summaries", "failed"} /\ changes \in Nat
  /\ \A s, t \in sources : s.via = t.via => s = t
  /\ stage = "parse" => \A s \in sources : s.via \notin pending
  /\ stage = "idle" => pending = {}
  /\ \A s \in sources : s.manifest = "broken" => Has(s, "package")
  /\ \A s \in sources : stage \in {"summaries", "idle"} /\ s.via \notin pending => Settled(s)

\* A record once made stays, and what it settles stays settled.
LEMMA SettledStays ==
  ASSUME NEW s, Settled(s), diagnostics \subseteq diagnostics', UNCHANGED disk
  PROVE  Settled(s)'
<1>1. Truncated => Truncated'
  BY DEF Truncated
<1>2. \A kind : Has(s, kind) => Has(s, kind)'
  BY DEF Has
<1>3. UNCHANGED <<file, manifest, changes>>
  BY DEF disk
<1>4. \A b : CrossesPackage(s, b)' <=> CrossesPackage(s, b)
  BY <1>3 DEF CrossesPackage, ResolveLocalModule, LocalModule, IsFile, NearestPackage
<1> QED
  BY <1>1, <1>2, <1>3, <1>4 DEF Settled

\* Summarising a source settles it.
LEMMA SummariesSettle ==
  ASSUME NEW s, UNCHANGED disk,
         \/ TooManySummaries(s.via) \in diagnostics'
         \/ ModuleDiagnostics(s) \subseteq diagnostics'
  PROVE  Settled(s)'
<1>1. CASE TooManySummaries(s.via) \in diagnostics'
  <2>1. TooManySummaries(s.via).level = "error" /\ TooManySummaries(s.via).id[1] = "summaries"
    BY DEF TooManySummaries
  <2> QED
    BY <1>1, <2>1 DEF Settled, Truncated
<1>2. CASE ModuleDiagnostics(s) \subseteq diagnostics'
  <2>1. \A kind, at : LET d == Failure(kind, s.via, at, "error", "error")
                      IN  d.via = s.via /\ d.level = "error" /\ d.id[1] = kind
    BY DEF Failure
  <2>2. Ambiguous(s) # {} => Has(s, "binding")'
    <3>1. ASSUME NEW n \in Ambiguous(s)
          PROVE  Failure("binding", s.via, n, "error", "error") \in diagnostics'
      BY <1>2, <3>1 DEF ModuleDiagnostics
    <3> QED
      BY <2>1, <3>1 DEF Has
  <2>3. (\E b \in Imports(s) : CrossesPackage(s, b)) => Has(s, "package-boundary")'
    <3>1. ASSUME NEW b \in Imports(s), CrossesPackage(s, b)
          PROVE  Failure("package-boundary", s.via, b.at, "error", "error") \in diagnostics'
      BY <1>2, <3>1 DEF ModuleDiagnostics
    <3> QED
      BY <2>1, <3>1 DEF Has
  <2>4. UNCHANGED <<file, manifest, changes>>
    BY DEF disk
  <2>5. \A b : CrossesPackage(s, b)' <=> CrossesPackage(s, b)
    BY <2>4 DEF CrossesPackage, ResolveLocalModule, LocalModule, IsFile, NearestPackage
  <2> QED
    BY <2>2, <2>3, <2>5 DEF Settled
<1> QED
  BY <1>1, <1>2

\* A source that parse keeps is new, and its broken package is diagnosed.
LEMMA KeptOnce ==
  ASSUME NEW p, ReadOne(p)
  PROVE  /\ pending' \subseteq pending /\ p \notin pending' /\ diagnostics \subseteq diagnostics'
         /\ \A s \in sources' \ sources :
              /\ s.via = p /\ s = SourceAt(p)
              /\ s.manifest = "broken" =>
                   \E d \in diagnostics' : d.via = p /\ d.level = "error" /\ d.id[1] = "package"
<1>1. CASE Keep(p)
  <2>1. SourceAt(p).via = p
    BY DEF SourceAt
  <2>2. LET d == Failure("package", p, 0, "error", "error")
        IN  d.via = p /\ d.level = "error" /\ d.id[1] = "package"
    BY DEF Failure
  <2> QED
    BY <1>1, <2>1, <2>2 DEF Keep
<1>2. CASE ~Keep(p)
  BY <1>2 DEF ReadOne, Reject, SkipUnsupported, SkipUnreadable, SkipOversized, SkipUnparseable, StopAtTotal
<1> QED
  BY <1>1, <1>2

\* Action by action.
LEMMA NextIInv == IInv /\ [FrontendNext]_frontendVars => IInv'
<1> SUFFICES ASSUME IInv, [FrontendNext]_frontendVars PROVE IInv'
  OBVIOUS
<1>1. ASSUME NEW paths \in Requests, Analyze(paths) PROVE IInv'
  BY <1>1 DEF Analyze, BeginParse, IInv, disk
<1>2. ASSUME NEW p \in Path, ParseOne(p) PROVE IInv'
  <2>1. stage = "parse" /\ stage' = "parse" /\ changes' = changes /\ ReadOne(p) /\ p \in pending
    BY <1>2 DEF ParseOne, disk, ReadOne, Due
  <2>2. \A s, t \in sources' : s.via = t.via => s = t
    BY <2>1, KeptOnce DEF IInv
  <2>3. \A s \in sources' : s.via \notin pending'
    BY <2>1, KeptOnce DEF IInv
  <2>4. \A s \in sources' : s.manifest = "broken" => Has(s, "package")'
    BY <2>1, KeptOnce DEF IInv, Has
  <2> QED
    BY <2>1, <2>2, <2>3, <2>4 DEF IInv
<1>3. CASE ParseDone
  BY <1>3 DEF ParseDone, BeginSummaries, IInv, Has, disk
<1>4. ASSUME NEW s \in sources, SummariseNext(s) PROVE IInv'
  <2>1. /\ stage = "summaries" /\ stage' = "summaries" /\ sources' = sources /\ UNCHANGED disk
        /\ diagnostics \subseteq diagnostics'
        /\ \/ TooManySummaries(s.via) \in diagnostics'
           \/ pending' = pending \ {s.via} /\ ModuleDiagnostics(s) \subseteq diagnostics'
    BY <1>4 DEF SummariseNext, Summarise, SummariesFull
  <2>2. Settled(s)'
    BY <2>1, SummariesSettle
  <2>3. ASSUME NEW t \in sources, t.via \notin pending' PROVE Settled(t)'
    <3>1. CASE t.via \notin pending
      BY <2>1, <3>1, SettledStays DEF IInv
    <3>2. CASE TooManySummaries(s.via) \in diagnostics'
      <4>1. TooManySummaries(s.via).level = "error" /\ TooManySummaries(s.via).id[1] = "summaries"
        BY DEF TooManySummaries
      <4> QED
        BY <3>2, <4>1 DEF Settled, Truncated
    <3>3. CASE pending' = pending \ {s.via} /\ t.via \in pending
      BY <2>2, <2>3, <3>3 DEF IInv
    <3> QED
      BY <2>1, <3>1, <3>2, <3>3
  <2>4. \A t \in sources : t.manifest = "broken" => Has(t, "package")'
    BY <2>1 DEF IInv, Has
  <2>5. changes' = changes
    BY <2>1 DEF disk
  <2> QED
    BY <2>1, <2>3, <2>4, <2>5 DEF IInv
<1>5. ASSUME UNCHANGED <<disk, collected, reading>>, stage' = stage \/ ReturnAnalysis PROVE IInv'
  <2>1. /\ UNCHANGED disk /\ changes' = changes /\ pending' = pending /\ sources' = sources
        /\ diagnostics' = diagnostics
    BY <1>5 DEF disk, reading
  <2>2. stage' = stage \/ (stage = "summaries" /\ stage' = "idle" /\ pending = {})
    BY <1>5 DEF ReturnAnalysis
  <2>3. \A t \in sources : stage' \in {"summaries", "idle"} /\ t.via \notin pending => Settled(t)'
    BY <2>1, <2>2, SettledStays DEF IInv
  <2>4. \A t \in sources : t.manifest = "broken" => Has(t, "package")'
    BY <2>1 DEF IInv, Has
  <2> QED
    BY <2>1, <2>2, <2>3, <2>4 DEF IInv
<1>6. CASE DiskChanges /\ UNCHANGED <<collected, stage, reading>>
  <2>1. /\ changes' = changes + 1 /\ stage' = stage /\ pending' = pending /\ sources' = sources
        /\ diagnostics' = diagnostics
    BY <1>6 DEF DiskChanges, ChangeFile, ChangeManifest, reading
  <2>2. changes' \in Nat /\ changes' # 0
    BY <2>1 DEF IInv
  <2>3. ASSUME NEW t \in sources, Settled(t) PROVE Settled(t)'
    <3>1. CASE Truncated
      BY <2>1, <3>1 DEF Settled, Truncated
    <3>2. CASE Ambiguous(t) # {} => Has(t, "binding")
      BY <2>1, <2>2, <3>2 DEF Settled, Has
    <3> QED
      BY <2>3, <3>1, <3>2 DEF Settled
  <2>4. \A t \in sources : t.manifest = "broken" => Has(t, "package")'
    BY <2>1 DEF IInv, Has
  <2> QED
    BY <2>1, <2>2, <2>3, <2>4 DEF IInv
<1>7. CASE ReturnAnalysis
  BY <1>5, <1>7 DEF ReturnAnalysis
<1>8. CASE UNCHANGED frontendVars
  BY <1>5, <1>8 DEF frontendVars
<1>9. CASE FailAnalysis
  <2>1. /\ stage' = "failed" /\ changes' = changes /\ sources' = sources /\ diagnostics' = diagnostics
    BY <1>9 DEF FailAnalysis, disk, reading
  <2>2. \A t \in sources : t.manifest = "broken" => Has(t, "package")'
    BY <2>1 DEF IInv, Has
  <2> QED
    BY <2>1, <2>2 DEF IInv
<1> QED
  BY <1>1, <1>2, <1>3, <1>4, <1>6, <1>7, <1>8, <1>9 DEF FrontendNext

\* The inductive invariant of the frontend.
THEOREM Invariance == FrontendSpec => []IInv
<1>1. FrontendInit => IInv
  BY DEF FrontendInit, AnyDisk, IInv
<1> QED
  BY <1>1, NextIInv, PTL DEF FrontendSpec

\* A broken package, a name bound twice, an import of another package: whatever
\* the sources, the analysis that keeps one of them says so or gave up.
THEOREM TroubleIsAlwaysDiagnosed == FrontendSpec => []TroubleIsDiagnosed
<1>1. IInv => TroubleIsDiagnosed
  BY DEF IInv, TroubleIsDiagnosed, Settled, Has
<1> QED
  BY <1>1, Invariance, PTL

-----------------------------------------------------------------------------
(* The scan.  First, what one reading leaves out, and what it says of it.  *)

LEMMA OneIsCounted ==
  ASSUME NEW p, ReadOne(p), total \in Nat
  PROVE  total' \in Nat
<1>1. Readable(p) => Size(p) \in Nat
  BY FrontendAssumption DEF FrontendAssumption, Readable, Size
<1> QED
  BY <1>1 DEF ReadOne, SkipUnsupported, SkipUnreadable, SkipOversized, StopAtTotal, SkipUnparseable, Keep,
              Fits

LEMMA RunTypesNext == RunTypes /\ [Next]_vars => RunTypes'
<1> SUFFICES ASSUME RunTypes, [Next]_vars PROVE RunTypes'
  OBVIOUS
<1> USE DEF RunTypes, Reading
<1>1. CASE Collect
  BY <1>1 DEF Collect, BeginParse, disk, caseVars
<1>2. ASSUME NEW p \in Path, Read(p) PROVE RunTypes'
  <2>1. pending' \subseteq pending
    BY <1>2, KeptOnce DEF Read
  <2>2. total' \in Nat
    BY <1>2, OneIsCounted DEF Read
  <2> QED
    BY <1>2, <2>1, <2>2 DEF Read, disk, caseVars
<1>3. CASE Decide
  BY <1>3 DEF Decide, BeginParse, disk
<1>4. CASE Parsed
  BY <1>4 DEF Parsed, BeginSummaries, disk, caseVars
<1>5. ASSUME NEW s \in sources, SummariseOne(s) PROVE RunTypes'
  BY <1>5 DEF SummariseOne, Summarise, disk, caseVars
<1>6. CASE Analyzed
  BY <1>6 DEF Analyzed, BeginParse, disk
<1>7. CASE Extract
  BY <1>7 DEF Extract, disk, reading
<1>8. CASE Finish
  BY <1>8 DEF Finish, disk, reading
<1>9. CASE Change
  <2>1. changes' = changes + 1
    BY <1>9 DEF Change, DiskChanges, ChangeFile, ChangeManifest
  <2> QED
    BY <1>9, <2>1 DEF Change, reading, caseVars
<1>10. CASE UNCHANGED vars
  BY <1>10 DEF vars, disk, reading, caseVars
<1>11. CASE Fail
  BY <1>11 DEF Fail, disk, reading, caseVars
<1> QED
  BY <1>1, <1>2, <1>3, <1>4, <1>5, <1>6, <1>7, <1>8, <1>9, <1>10, <1>11 DEF Next, Work

\* What was seen stays seen.
LEMMA SeenStays ==
  ASSUME NEW p, NEW read, NEW diags, NEW more, NEW said, SeenBy(p, read, diags),
         read \subseteq more, diags \subseteq said
  PROVE  SeenBy(p, more, said)
BY DEF SeenBy, Errors

\* One turn leaves a path behind that it has seen, or an error.
LEMMA OneIsSeen ==
  ASSUME NEW p, ReadOne(p)
  PROVE  /\ sources \subseteq sources' /\ diagnostics \subseteq diagnostics'
         /\ \/ Errors(diagnostics') # {}
            \/ pending' = pending \ {p} /\ SeenBy(p, sources', diagnostics')
<1>1. \A kind, level, status : Failure(kind, p, 0, level, status).level = level
  BY DEF Failure
<1>2. ASSUME NEW kind, NEW status, Reject(p, kind, "error", status)
      PROVE  /\ sources \subseteq sources' /\ diagnostics \subseteq diagnostics'
             /\ Errors(diagnostics') # {}
  BY <1>1, <1>2 DEF Reject, Errors
<1>3. CASE SkipUnsupported(p)
  BY <1>3 DEF SkipUnsupported, Reject, SeenBy
<1>4. CASE SkipUnreadable(p) \/ SkipOversized(p) \/ SkipUnparseable(p)
  BY <1>2, <1>4 DEF SkipUnreadable, SkipOversized, SkipUnparseable
<1>5. CASE StopAtTotal(p)
  <2>1. TotalExceeded(p).level = "error"
    BY DEF TotalExceeded
  <2> QED
    BY <1>5, <2>1 DEF StopAtTotal, Errors
<1>6. CASE Keep(p)
  <2>1. SourceAt(p).via = p /\ Target[p] \in Parseable
    BY <1>6 DEF Keep, Fits, Readable, SourceAt
  <2>2. CASE SourceAt(p).manifest = "broken"
    BY <1>1, <1>6, <2>2 DEF Keep, Errors
  <2>3. CASE SourceAt(p).manifest # "broken"
    BY <1>6, <2>1, <2>3 DEF Keep, SeenBy
  <2> QED
    BY <1>6, <2>2, <2>3 DEF Keep
<1> QED
  BY <1>3, <1>4, <1>5, <1>6 DEF ReadOne

\* A reading that begins has everything before it, or has given up.
LEMMA BeginningIsSeen ==
  ASSUME NEW paths, BeginParse(paths)
  PROVE  \A p \in paths : p \in pending' \/ SeenBy(p, sources', diagnostics')
<1>1. TooManyFiles.level = "error"
  BY DEF TooManyFiles
<1> QED
  BY <1>1 DEF BeginParse, SeenBy, Errors

LEMMA NothingIsSkippedNext == RunTypes /\ NothingIsSkipped /\ [Next]_vars => NothingIsSkipped'
<1> SUFFICES ASSUME RunTypes, NothingIsSkipped, [Next]_vars PROVE NothingIsSkipped'
  OBVIOUS
<1> USE DEF NothingIsSkipped, Reading, AfterSecond
<1>1. CASE Collect
  <2>1. BeginParse(collected') /\ stage' = "applicability"
    BY <1>1 DEF Collect
  <2> QED
    BY <2>1, BeginningIsSeen
<1>2. ASSUME NEW p \in Path, Read(p) PROVE NothingIsSkipped'
  <2>1. Reading /\ ReadOne(p) /\ stage' = stage /\ collected' = collected /\ analysis' = analysis
    BY <1>2 DEF Read, caseVars
  <2>2. ASSUME NEW q \in collected PROVE q \in pending' \/ SeenBy(q, sources', diagnostics')
    <3>1. CASE Errors(diagnostics') # {}
      BY <3>1 DEF SeenBy
    <3>2. CASE pending' = pending \ {p} /\ SeenBy(p, sources', diagnostics')
      BY <2>1, <3>2, OneIsSeen, SeenStays
    <3> QED
      BY <2>1, <3>1, <3>2, OneIsSeen
  <2> QED
    BY <2>1, <2>2
<1>3. CASE Decide
  <2>1. BeginParse(collected) /\ stage' = "analysis" /\ collected' = collected
    BY <1>3 DEF Decide
  <2> QED
    BY <2>1, BeginningIsSeen
<1>4. CASE Parsed
  BY <1>4 DEF Parsed, BeginSummaries
<1>5. ASSUME NEW s \in sources, SummariseOne(s) PROVE NothingIsSkipped'
  <2>1. /\ stage = "summaries" /\ stage' = "summaries" /\ collected' = collected
        /\ sources' = sources /\ diagnostics \subseteq diagnostics'
    BY <1>5 DEF SummariseOne, Summarise
  <2>2. \A p : SeenBy(p, sources, diagnostics) => SeenBy(p, sources', diagnostics')
    BY <2>1, SeenStays
  <2> QED
    BY <2>1, <2>2
<1>6. CASE Analyzed
  <2>1. BeginParse(collected) /\ stage = "summaries" /\ stage' = "again" /\ collected' = collected
    BY <1>6 DEF Analyzed
  <2>2. analysis'.sources = sources /\ diagnostics \subseteq analysis'.diagnostics
    BY <1>6 DEF Analyzed, Analysis
  <2>3. \A p : SeenBy(p, sources, diagnostics) => SeenBy(p, analysis'.sources, analysis'.diagnostics)
    BY <2>2, SeenStays
  <2> QED
    BY <2>1, <2>3, BeginningIsSeen
<1>7. CASE Extract
  <2>1. stage = "again" /\ stage' = "extracted" /\ collected' = collected
    BY <1>7 DEF Extract
  <2>2. analysis'.sources = analysis.sources /\ analysis.diagnostics \subseteq analysis'.diagnostics
    BY <1>7 DEF Extract, Analysis
  <2>3. \A p : SeenBy(p, analysis.sources, analysis.diagnostics)
                => SeenBy(p, analysis'.sources, analysis'.diagnostics)
    BY <2>2, SeenStays
  <2> QED
    BY <2>1, <2>3
<1>8. CASE Finish
  BY <1>8 DEF Finish
<1>9. CASE Change
  BY <1>9 DEF Change, reading, caseVars
<1>10. CASE UNCHANGED vars
  BY <1>10 DEF vars, reading, caseVars
<1>11. CASE Fail
  BY <1>11 DEF Fail
<1> QED
  BY <1>1, <1>2, <1>3, <1>4, <1>5, <1>6, <1>7, <1>8, <1>9, <1>10, <1>11 DEF Next, Work

\* What the first reading says rests on what it saw.
LEMMA FirstIsFoundedNext == NothingIsSkipped /\ FirstIsFounded /\ [Next]_vars => FirstIsFounded'
<1> SUFFICES ASSUME NothingIsSkipped, FirstIsFounded, [Next]_vars PROVE FirstIsFounded'
  OBVIOUS
<1>1. CASE Decide
  <2>1. /\ stage = "applicability" /\ pending = {} /\ collected' = collected
        /\ first' = Applicability(sources, diagnostics)
    BY <1>1 DEF Decide
  <2>2. first'.state # "ambiguous" => diagnostics = {}
    BY <2>1 DEF Applicability
  <2>3. first'.state = "active" => first'.evidence # {}
    BY <2>1 DEF Applicability
  <2>4. \A p \in collected : SeenBy(p, sources, diagnostics)
    BY <2>1 DEF NothingIsSkipped, Reading
  <2>5. diagnostics = {} => \A p \in collected : Target[p] \in Parseable
    BY <2>4 DEF SeenBy, Errors
  <2> QED
    BY <2>1, <2>2, <2>3, <2>5 DEF FirstIsFounded
<1>2. CASE Collect
  BY <1>2 DEF Collect, FirstIsFounded, AfterFirst
<1>3. CASE UNCHANGED <<first, collected>> /\ (AfterFirst' => AfterFirst)
  BY <1>3 DEF FirstIsFounded
<1>4. ASSUME NEW p \in Path, Read(p) PROVE FirstIsFounded'
  BY <1>3, <1>4 DEF Read, caseVars, AfterFirst
<1>5. ASSUME NEW s \in sources, SummariseOne(s) PROVE FirstIsFounded'
  BY <1>3, <1>5 DEF SummariseOne, caseVars, AfterFirst
<1>6. CASE Parsed \/ Analyzed \/ Extract \/ Finish
  BY <1>3, <1>6 DEF Parsed, Analyzed, Extract, Finish, caseVars, AfterFirst
<1>7. CASE Change \/ UNCHANGED vars
  BY <1>3, <1>7 DEF Change, vars, caseVars, AfterFirst
<1>8. CASE Fail
  BY <1>3, <1>8 DEF Fail, caseVars, AfterFirst
<1> QED
  BY <1>1, <1>2, <1>4, <1>5, <1>6, <1>7, <1>8 DEF Next, Work

-----------------------------------------------------------------------------
(* The graph and the outcome are of the second reading.                    *)

\* What a source stands for changes only with the disk.
LEMMA SourcesStay ==
  ASSUME UNCHANGED disk
  PROVE  \A p : SourceAt(p)' = SourceAt(p)
<1>1. file' = file /\ manifest' = manifest
  BY DEF disk
<1> QED
  BY <1>1 DEF SourceAt, NearestPackage

LEMMA ProgramsStay ==
  ASSUME UNCHANGED disk, NEW read
  PROVE  Programs(read)' = Programs(read)
<1>1. file' = file
  BY DEF disk
<1>2. \A p, m : ResolveLocalModule(p, m)' = ResolveLocalModule(p, m)
  BY <1>1 DEF ResolveLocalModule, IsFile, LocalModule
<1>3. \A s, m : MountTarget(s, m)' = MountTarget(s, m)
  BY <1>2 DEF MountTarget, WithinPackage
<1> QED
  BY <1>3 DEF Programs

LEMMA OutcomeStays ==
  ASSUME UNCHANGED <<policy, first, analysis>>, NEW g
  PROVE  Outcome(g)' = Outcome(g)
<1>1. policy' = policy /\ first' = first /\ analysis' = analysis
  OBVIOUS
<1>2. Report(g)' = Report(g)
  BY <1>1 DEF Report
<1>3. Exit(g)' = Exit(g)
  BY <1>1, <1>2 DEF Exit
<1> QED
  BY <1>1, <1>3 DEF Outcome

LEMMA OutcomeIsOfAnalysisNext ==
  RunTypes /\ OutcomeIsOfAnalysis /\ [Next]_vars => OutcomeIsOfAnalysis'
<1> SUFFICES ASSUME RunTypes, OutcomeIsOfAnalysis, [Next]_vars PROVE OutcomeIsOfAnalysis'
  OBVIOUS
<1>1. CASE Extract
  <2>1. PICK read, diags : analysis' = Analysis(read, diags, GraphOf(Programs(read), diags))
    BY <1>1 DEF Extract
  <2>2. UNCHANGED disk /\ stage = "again" /\ stage' = "extracted" /\ outcome' = outcome
    BY <1>1 DEF Extract
  <2>3. Programs(read)' = Programs(read)
    BY <2>2, ProgramsStay
  <2>4. analysis'.sources = read /\ analysis'.diagnostics = diags
        /\ analysis'.graph = GraphOf(Programs(read), diags)
    BY <2>1 DEF Analysis
  <2>5. Programs(analysis.sources)' = Programs(read)'
    BY <2>4 DEF Programs
  <2> QED
    BY <2>2, <2>3, <2>4, <2>5 DEF OutcomeIsOfAnalysis
<1>2. ASSUME UNCHANGED <<disk, analysis>>, stage \in {"extracted", "done"}
      PROVE  (analysis.graph = GraphOf(Programs(analysis.sources), analysis.diagnostics))'
  <2>1. PICK read : read = analysis.sources
    OBVIOUS
  <2>2. Programs(read)' = Programs(read)
    BY <1>2, ProgramsStay
  <2>3. Programs(analysis.sources)' = Programs(read)'
    BY <1>2, <2>1 DEF Programs
  <2> QED
    BY <1>2, <2>1, <2>2, <2>3 DEF OutcomeIsOfAnalysis
<1>3. ASSUME UNCHANGED <<policy, first, analysis>>
      PROVE  Outcome(analysis.graph)' = Outcome(analysis.graph)
  <2>1. PICK g : g = analysis.graph
    OBVIOUS
  <2>2. Outcome(g)' = Outcome(g)
    BY <1>3, OutcomeStays
  <2> QED
    BY <1>3, <2>1, <2>2
<1>4. CASE Finish
  <2>1. /\ stage = "extracted" /\ stage' = "done" /\ outcome' = Outcome(analysis.graph)
        /\ UNCHANGED <<disk, policy, first, analysis>>
    BY <1>4 DEF Finish
  <2> QED
    BY <1>2, <1>3, <2>1 DEF OutcomeIsOfAnalysis
<1>5. CASE UNCHANGED vars
  <2>1. UNCHANGED <<disk, policy, first, analysis, stage, outcome>>
    BY <1>5 DEF vars, caseVars
  <2> QED
    BY <1>2, <1>3, <2>1 DEF OutcomeIsOfAnalysis
<1>6. CASE outcome' = outcome /\ stage # "done" /\ stage' \notin {"extracted", "done"}
  BY <1>6 DEF OutcomeIsOfAnalysis
<1>7. ASSUME NEW p \in Path, Read(p) PROVE OutcomeIsOfAnalysis'
  BY <1>6, <1>7 DEF Read, Reading, caseVars
<1>8. ASSUME NEW s \in sources, SummariseOne(s) PROVE OutcomeIsOfAnalysis'
  BY <1>6, <1>8 DEF SummariseOne, caseVars
<1>9. CASE Collect \/ Decide \/ Parsed \/ Analyzed
  BY <1>6, <1>9 DEF Collect, Decide, Parsed, Analyzed, caseVars
<1>10. CASE Change
  BY <1>6, <1>10 DEF Change, caseVars
<1>11. CASE Fail
  <2>1. stage # "done" /\ stage' = "failed" /\ outcome' = outcome
    BY <1>11 DEF Fail, Raises, Reading, caseVars
  <2> QED
    BY <1>6, <2>1
<1> QED
  BY <1>1, <1>4, <1>5, <1>7, <1>8, <1>9, <1>10, <1>11 DEF Next, Work

-----------------------------------------------------------------------------
(* The course of a reading.  Course is a recursive function: that it is    *)
(* defined, and what holds of it, is shown by the least number for which   *)
(* it fails.                                                               *)

\* A set of numbers that is not empty has a least one.
LEMMA LeastNumber ==
  ASSUME NEW S \in SUBSET Nat, S # {}
  PROVE  \E i \in S : \A j \in S : i <= j
<1> DEFINE less == {pair \in Nat \X Nat : pair[1] < pair[2]}
<1>1. IsWellFoundedOn(less, Nat)
  BY NatLessThanWellFounded, Zenon DEF OpToRel
<1>2. PICK i \in S : \A j \in S : <<j, i>> \notin less
  <2> HIDE DEF less
  <2> QED
    BY <1>1, WFMin, Zenon
<1>3. ASSUME NEW j \in S PROVE i <= j
  <2>1. i \in Nat /\ j \in Nat /\ ~(j < i)
    BY <1>2, <1>3
  <2> QED
    BY <2>1
<1> QED
  BY <1>3

\* Induction, with a set in the place of a predicate.
LEMMA SetInduction ==
  ASSUME NEW P \in SUBSET Nat, 0 \in P, \A n \in P : n + 1 \in P
  PROVE  P = Nat
<1> SUFFICES ASSUME Nat \ P # {} PROVE FALSE
  OBVIOUS
<1>1. PICK n \in Nat \ P : \A m \in Nat \ P : n <= m
  BY LeastNumber
<1>2. n - 1 \in P
  BY <1>1
<1> QED
  BY <1>1, <1>2

\* Where a reading begins.
Outset(paths) ==
  [pending |-> IF Cardinality(paths) > MaxFiles THEN {} ELSE paths, total |-> 0, kept |-> {}]

\* The course is what its definition says.
LEMMA CourseIs ==
  ASSUME NEW paths, IsFiniteSet(paths), NEW files
  PROVE  /\ Cardinality(paths) \in Nat
         /\ Course(paths, files) = [n \in 0 .. Cardinality(paths) |->
              IF n = 0 THEN Outset(paths) ELSE Turn(Course(paths, files)[n - 1], files)]
<1> DEFINE N == Cardinality(paths)
           Is(g, k) == g = [n \in 0 .. k |-> IF n = 0 THEN Outset(paths) ELSE Turn(g[n - 1], files)]
           P == {k \in Nat : \E g : Is(g, k)}
<1>1. N \in Nat
  BY FS_CardinalityType
<1>2. 0 \in P
  <2>1. Is([n \in 0 .. 0 |-> Outset(paths)], 0)
    OBVIOUS
  <2> QED
    BY <2>1
<1>3. ASSUME NEW k \in P PROVE k + 1 \in P
  <2>1. PICK g : Is(g, k)
    OBVIOUS
  <2>2. PICK h : h = [n \in 0 .. k + 1 |-> IF n = k + 1 THEN Turn(g[k], files) ELSE g[n]]
    OBVIOUS
  <2>3. Is(h, k + 1)
    BY <2>1, <2>2
  <2> QED
    BY <2>3
<1>4. P = Nat
  <2>1. P \in SUBSET Nat
    OBVIOUS
  <2> HIDE DEF P
  <2> QED
    BY <1>2, <1>3, <2>1, SetInduction
<1>5. \E g : Is(g, N)
  BY <1>1, <1>4
<1>6. Course(paths, files) = CHOOSE g : Is(g, N)
  BY DEF Course, Outset
<1>7. Is(Course(paths, files), N)
  <2> HIDE DEF Is
  <2> QED
    BY <1>5, <1>6
<1> QED
  BY <1>1, <1>7

LEMMA TurnByTurn ==
  ASSUME NEW paths, IsFiniteSet(paths), NEW files
  PROVE  /\ Cardinality(paths) \in Nat
         /\ Course(paths, files)[0] = Outset(paths)
         /\ \A k \in Nat : k + 1 <= Cardinality(paths)
              => Course(paths, files)[k + 1] = Turn(Course(paths, files)[k], files)
<1> DEFINE N == Cardinality(paths)
           C == Course(paths, files)
<1>1. N \in Nat /\ C = [n \in 0 .. N |-> IF n = 0 THEN Outset(paths) ELSE Turn(C[n - 1], files)]
  BY CourseIs
<1> HIDE DEF N, C
<1>2. C[0] = Outset(paths)
  BY <1>1
<1>3. ASSUME NEW k \in Nat, k + 1 <= N PROVE C[k + 1] = Turn(C[k], files)
  <2>1. k + 1 \in 0 .. N /\ k + 1 # 0 /\ (k + 1) - 1 = k
    BY <1>1, <1>3
  <2> QED
    BY <1>1, <2>1
<1> QED
  BY <1>1, <1>2, <1>3 DEF N, C

\* Once nothing is left to read nothing happens any more.
LEMMA CourseEnds ==
  ASSUME NEW paths, IsFiniteSet(paths), NEW files, NEW n \in 0 .. Cardinality(paths),
         Course(paths, files)[n].pending = {}
  PROVE  Course(paths, files)[Cardinality(paths)] = Course(paths, files)[n]
<1> DEFINE N == Cardinality(paths)
           C == Course(paths, files)
           P == {k \in Nat : n + k <= N => C[n + k] = C[n]}
<1>1. /\ N \in Nat /\ n \in Nat /\ n <= N /\ C[n].pending = {}
      /\ \A k \in Nat : k + 1 <= N => C[k + 1] = Turn(C[k], files)
  BY TurnByTurn
<1> HIDE DEF N, C
<1>2. Turn(C[n], files) = C[n]
  BY <1>1 DEF Turn
<1>3. 0 \in P
  BY <1>1
<1>4. ASSUME NEW k \in P PROVE k + 1 \in P
  <2> SUFFICES ASSUME n + (k + 1) <= N PROVE C[n + (k + 1)] = C[n]
    OBVIOUS
  <2>1. k \in Nat /\ n + k \in Nat /\ n + (k + 1) = (n + k) + 1 /\ n + k <= N
    BY <1>1
  <2>2. C[n + k] = C[n]
    BY <2>1
  <2>3. C[(n + k) + 1] = Turn(C[n + k], files)
    BY <1>1, <2>1
  <2> QED
    BY <1>2, <2>1, <2>2, <2>3
<1>5. P = Nat
  <2>1. P \in SUBSET Nat
    OBVIOUS
  <2> HIDE DEF P
  <2> QED
    BY <1>3, <1>4, <2>1, SetInduction
<1>6. N - n \in Nat /\ n + (N - n) = N
  BY <1>1
<1>7. C[n + (N - n)] = C[n]
  <2>1. N - n \in P /\ n + (N - n) <= N
    BY <1>1, <1>5, <1>6
  <2> QED
    BY <2>1
<1> QED
  BY <1>6, <1>7 DEF N, C

\* One iteration of parse is one turn of the course.
LEMMA OneIsATurn ==
  ASSUME NEW p, ReadOne(p), pending \subseteq Path, total \in Nat
  PROVE  Progress' = Turn(Progress, file)
<1>1. p \in pending /\ p \in Path /\ \A q \in pending : Position[p] <= Position[q]
  BY DEF ReadOne, Due
<1>2. ASSUME NEW x \in pending, \A q \in pending : Position[x] <= Position[q] PROVE x = p
  <2>1. Position[x] \in Nat /\ Position[p] \in Nat
    BY <1>1, <1>2, FrontendAssumption DEF FrontendAssumption
  <2>2. Position[x] = Position[p]
    BY <1>1, <1>2, <2>1
  <2> QED
    BY <1>1, <1>2, <2>2, FrontendAssumption DEF FrontendAssumption
<1>3. p = CHOOSE x \in pending : \A q \in pending : Position[x] <= Position[q]
  BY <1>1, <1>2
<1> DEFINE c == file[Target[p]]
           taken == Target[p] \in Parseable /\ c \in Contents /\ c.size <= MaxBytes
           vias == {s.via : s \in sources}
<1>4. Turn(Progress, file) =
        [pending |-> IF taken /\ total + c.size > MaxTotal THEN {} ELSE pending \ {p},
         total   |-> IF taken THEN total + c.size ELSE total,
         kept    |-> IF taken /\ total + c.size <= MaxTotal /\ c.parses THEN vias \cup {p} ELSE vias]
  <2>1. Progress.pending = pending /\ Progress.total = total /\ Progress.kept = vias
    BY DEF Progress
  <2> QED
    BY <1>1, <1>3, <2>1 DEF Turn
<1>5. taken => total + c.size \in Nat
  BY FrontendAssumption DEF FrontendAssumption
<1>6. Target[p] \in Parseable /\ c \in {Absent, Unreadable} => ~taken
  BY FrontendAssumption DEF FrontendAssumption
<1>7. MaxTotal \in Nat /\ MaxBytes \in Nat
  BY FrontendAssumption DEF FrontendAssumption
<1>8. c \in Contents => c.size \in Nat
  BY FrontendAssumption DEF FrontendAssumption
<1>9. CASE SkipUnsupported(p)
  BY <1>4, <1>9 DEF SkipUnsupported, Reject, Progress
<1>10. CASE SkipUnreadable(p)
  BY <1>4, <1>6, <1>10 DEF SkipUnreadable, Reject, Progress
<1>11. CASE SkipOversized(p)
  <2>1. ~taken
    BY <1>7, <1>8, <1>11 DEF SkipOversized, Readable, Size
  <2> QED
    BY <1>4, <1>11, <2>1 DEF SkipOversized, Reject, Progress
<1>12. CASE StopAtTotal(p)
  <2>1. taken /\ total + c.size > MaxTotal /\ ~(total + c.size <= MaxTotal)
    BY <1>5, <1>7, <1>12 DEF StopAtTotal, Readable, Size
  <2>2. pending' = {} /\ total' = total + c.size /\ sources' = sources
    BY <1>12 DEF StopAtTotal, Size
  <2> QED
    BY <1>4, <2>1, <2>2 DEF Progress
<1>13. CASE SkipUnparseable(p)
  <2>1. taken /\ ~(total + c.size > MaxTotal) /\ ~c.parses
    BY <1>5, <1>7, <1>13 DEF SkipUnparseable, Fits, Readable, Size
  <2>2. pending' = pending \ {p} /\ total' = total + c.size /\ sources' = sources
    BY <1>13 DEF SkipUnparseable, Reject, Size
  <2> QED
    BY <1>4, <2>1, <2>2 DEF Progress
<1>14. CASE Keep(p)
  <2>1. taken /\ ~(total + c.size > MaxTotal) /\ total + c.size <= MaxTotal /\ c.parses
    BY <1>5, <1>7, <1>14 DEF Keep, Fits, Readable, Size
  <2>2. pending' = pending \ {p} /\ total' = total + c.size /\ sources' = sources \cup {SourceAt(p)}
    BY <1>14 DEF Keep, Size
  <2>3. {s.via : s \in sources'} = vias \cup {p}
    <3>1. SourceAt(p).via = p
      BY DEF SourceAt
    <3> HIDE DEF taken, c
    <3> QED
      BY <2>2, <3>1
  <2> HIDE DEF taken, c, vias
  <2> QED
    BY <1>4, <2>1, <2>2, <2>3 DEF Progress
<1> QED
  BY <1>9, <1>10, <1>11, <1>12, <1>13, <1>14 DEF ReadOne

LEMMA YieldStays ==
  ASSUME UNCHANGED <<disk, collected>>
  PROVE  Yield' = Yield
<1>1. \A p : SourceAt(p)' = SourceAt(p)
  BY SourcesStay
<1>2. file' = file /\ collected' = collected
  BY DEF disk
<1> QED
  BY <1>1, <1>2 DEF Yield

\* A reading that begins is at the outset of its course.
LEMMA BeginningIsOutset ==
  ASSUME NEW paths, BeginParse(paths), IsFiniteSet(paths)
  PROVE  /\ Progress' = Outset(paths) /\ sources' = {}
         /\ Cardinality(pending') <= Cardinality(paths)
<1>1. Progress' = Outset(paths) /\ sources' = {} /\ (pending' = {} \/ pending' = paths)
  BY DEF BeginParse, Progress, Outset
<1>2. Cardinality(paths) \in Nat /\ Cardinality({}) = 0
  BY FS_CardinalityType, FS_EmptySet
<1> QED
  BY <1>1, <1>2

\* A reading that has nothing left to read has what every reading yields.
LEMMA EndIsYield ==
  ASSUME RunTypes, IsFiniteSet(collected), pending = {},
         \A s \in sources : s = SourceAt(s.via),
         NEW n \in 0 .. Cardinality(collected), Course(collected, file)[n] = Progress
  PROVE  sources = Yield
<1>1. Progress.pending = {} /\ Progress.kept = {s.via : s \in sources}
  BY DEF Progress
<1>2. Course(collected, file)[Cardinality(collected)].kept = {s.via : s \in sources}
  BY <1>1, CourseEnds
<1> QED
  BY <1>2 DEF Yield

\* What a disk at rest gives to one reading it gives to the next.
LEMMA ReadingsAgreeNext == RunTypes /\ ReadingsAgree /\ [Next]_vars => ReadingsAgree'
<1> SUFFICES ASSUME RunTypes, ReadingsAgree, [Next]_vars, Still' PROVE ReadingsAgree'
  BY DEF ReadingsAgree
<1>1. Still /\ UNCHANGED disk
  <2>1. CASE Change
    BY <2>1 DEF Change, DiskChanges, ChangeFile, ChangeManifest, Still, RunTypes
  <2>2. CASE ~Change
    BY <2>2 DEF Next, Work, Collect, Read, Decide, Parsed, SummariseOne, Analyzed, Extract, Finish, Fail,
                vars, Still, disk
  <2> QED
    BY <2>1, <2>2
<1>2. file' = file
  BY <1>1 DEF disk
<1>3. IsFiniteSet(collected)
  BY FrontendAssumption, FS_Subset DEF FrontendAssumption, RunTypes
<1>4. ASSUME NEW paths, IsFiniteSet(paths), collected' = paths, BeginParse(paths)
      PROVE  /\ \A s \in sources' : s = SourceAt(s.via)'
             /\ \E n \in 0 .. Cardinality(collected') :
                  /\ n + Cardinality(pending') <= Cardinality(collected')
                  /\ Course(collected', file')[n] = Progress'
  <2>1. Progress' = Outset(paths) /\ sources' = {} /\ Cardinality(pending') <= Cardinality(paths)
    BY <1>4, BeginningIsOutset
  <2>2. Cardinality(paths) \in Nat /\ Course(paths, file)[0] = Outset(paths)
    BY <1>4, TurnByTurn
  <2>3. IsFiniteSet(pending')
    BY <1>4, FS_EmptySet DEF BeginParse
  <2>4. Cardinality(pending') \in Nat
    BY <2>3, FS_CardinalityType
  <2> QED
    BY <1>2, <1>4, <2>1, <2>2, <2>4
<1>5. CASE Collect
  <2>1. PICK paths : paths = collected'
    OBVIOUS
  <2>2. paths \subseteq Path /\ BeginParse(paths) /\ stage' = "applicability"
    BY <1>5, <2>1 DEF Collect, BeginParse
  <2>3. IsFiniteSet(paths)
    BY <2>2, FrontendAssumption, FS_Subset DEF FrontendAssumption
  <2> QED
    BY <1>4, <2>1, <2>2, <2>3 DEF ReadingsAgree, AfterFirst, AfterSecond
<1>6. ASSUME NEW p \in Path, Read(p) PROVE ReadingsAgree'
  <2>1. Reading /\ ReadOne(p) /\ UNCHANGED <<collected, stage, first, analysis>>
    BY <1>6 DEF Read, caseVars
  <2>2. PICK n \in 0 .. Cardinality(collected) :
          n + Cardinality(pending) <= Cardinality(collected) /\ Course(collected, file)[n] = Progress
    BY <1>1, <2>1 DEF ReadingsAgree
  <2>3. pending \subseteq collected /\ p \in pending /\ total \in Nat /\ pending \subseteq Path
    BY <2>1 DEF RunTypes, ReadOne, Due
  <2>4. IsFiniteSet(pending) /\ Cardinality(pending) \in Nat /\ Cardinality(collected) \in Nat
    BY <1>3, <2>3, FS_Subset, FS_CardinalityType
  <2>5. Cardinality(pending \ {p}) = Cardinality(pending) - 1 /\ Cardinality(pending \ {p}) \in Nat
    BY <2>3, <2>4, FS_RemoveElement, FS_CardinalityType
  <2>6. Cardinality({}) = 0
    BY FS_EmptySet
  <2>7. pending' = {} \/ pending' = pending \ {p}
    BY <2>1 DEF ReadOne, SkipUnsupported, SkipUnreadable, SkipOversized, StopAtTotal, SkipUnparseable, Keep,
                Reject
  <2>8. n + 1 + Cardinality(pending') <= Cardinality(collected) /\ n + 1 <= Cardinality(collected)
        /\ n \in Nat /\ n + 1 \in 0 .. Cardinality(collected)
    BY <2>2, <2>4, <2>5, <2>6, <2>7
  <2>9. Course(collected, file)[n + 1] = Progress'
    <3>1. Course(collected, file)[n + 1] = Turn(Course(collected, file)[n], file)
      BY <1>3, <2>8, TurnByTurn
    <3> QED
      BY <2>1, <2>2, <2>3, <3>1, OneIsATurn
  <2>10. \A s \in sources' : s = SourceAt(s.via)'
    <3>1. \A s \in sources' : s = SourceAt(s.via)
      BY <1>1, <2>1, KeptOnce DEF ReadingsAgree
    <3>2. \A q : SourceAt(q)' = SourceAt(q)
      BY <1>1, SourcesStay
    <3> QED
      BY <3>1, <3>2
  <2>11. Yield' = Yield
    BY <1>1, <2>1, YieldStays
  <2>12. AfterFirst' => first'.evidence = ActivePaths(Yield')
    BY <1>1, <2>1, <2>11 DEF ReadingsAgree, AfterFirst
  <2>13. AfterSecond' => analysis'.sources = Yield'
    BY <1>1, <2>1, <2>11 DEF ReadingsAgree, AfterSecond
  <2>14. stage' # "summaries"
    BY <2>1 DEF Reading
  <2>15. \E k \in 0 .. Cardinality(collected') :
           k + Cardinality(pending') <= Cardinality(collected') /\ Course(collected', file')[k] = Progress'
    BY <1>2, <2>1, <2>8, <2>9
  <2> QED
    BY <2>10, <2>12, <2>13, <2>14, <2>15 DEF ReadingsAgree
<1>7. CASE Decide
  <2>1. /\ stage = "applicability" /\ pending = {} /\ collected' = collected /\ stage' = "analysis"
        /\ first' = Applicability(sources, diagnostics) /\ BeginParse(collected)
    BY <1>7 DEF Decide
  <2>2. sources = Yield
    BY <1>1, <1>3, <2>1, EndIsYield DEF ReadingsAgree, Reading
  <2>3. first'.evidence = ActivePaths(sources)
    BY <2>1 DEF Applicability, ActivePaths
  <2>4. Yield' = Yield
    BY <1>1, <2>1, YieldStays
  <2> QED
    BY <1>3, <1>4, <2>1, <2>2, <2>3, <2>4 DEF ReadingsAgree, AfterFirst, AfterSecond
<1>8. CASE Parsed
  <2>1. /\ stage = "analysis" /\ pending = {} /\ stage' = "summaries"
        /\ UNCHANGED <<collected, sources, first>>
    BY <1>8 DEF Parsed, BeginSummaries, caseVars
  <2>2. sources = Yield
    BY <1>1, <1>3, <2>1, EndIsYield DEF ReadingsAgree, Reading
  <2>3. Yield' = Yield
    BY <1>1, <2>1, YieldStays
  <2> QED
    BY <1>1, <2>1, <2>2, <2>3 DEF ReadingsAgree, Reading, AfterFirst, AfterSecond
<1>9. CASE Analyzed
  <2>1. /\ stage = "summaries" /\ stage' = "again" /\ UNCHANGED <<collected, first>>
        /\ BeginParse(collected) /\ analysis'.sources = sources
    BY <1>9 DEF Analyzed, Analysis
  <2>2. sources = Yield
    BY <1>1, <2>1 DEF ReadingsAgree
  <2>3. Yield' = Yield
    BY <1>1, <2>1, YieldStays
  <2> QED
    BY <1>1, <1>3, <1>4, <2>1, <2>2, <2>3 DEF ReadingsAgree, AfterFirst, AfterSecond
<1>10. CASE /\ UNCHANGED <<collected, first>> /\ stage' \in {"summaries", "extracted", "done"}
            /\ AfterFirst /\ (stage' = "summaries" => stage = "summaries" /\ sources' = sources)
            /\ (AfterSecond' => AfterSecond /\ analysis'.sources = analysis.sources)
  <2>1. Yield' = Yield
    BY <1>1, <1>10, YieldStays
  <2> QED
    BY <1>1, <1>10, <2>1 DEF ReadingsAgree, Reading, AfterFirst, AfterSecond
<1>11. ASSUME NEW s \in sources, SummariseOne(s) PROVE ReadingsAgree'
  BY <1>10, <1>11 DEF SummariseOne, Summarise, caseVars, AfterFirst, AfterSecond
<1>12. CASE Extract
  <2>1. analysis'.sources = analysis.sources
    BY <1>12 DEF Extract, Analysis
  <2> QED
    BY <1>10, <1>12, <2>1 DEF Extract, AfterFirst, AfterSecond
<1>13. CASE Finish
  BY <1>10, <1>13 DEF Finish, AfterFirst, AfterSecond
<1>14. CASE UNCHANGED vars
  <2>1. UNCHANGED <<disk, collected, stage, pending, total, sources, first, analysis>>
    BY <1>14 DEF vars, reading, caseVars
  <2>2. Yield' = Yield /\ (\A q : SourceAt(q)' = SourceAt(q)) /\ Progress' = Progress
    BY <2>1, YieldStays, SourcesStay DEF Progress
  <2> QED
    BY <1>1, <1>2, <2>1, <2>2 DEF ReadingsAgree, Reading, AfterFirst, AfterSecond
<1>15. CASE Change
  BY <1>1, <1>15 DEF Change, DiskChanges, ChangeFile, ChangeManifest, Still, RunTypes
<1>16. CASE Fail
  <2>1. stage' = "failed"
    BY <1>16 DEF Fail
  <2> QED
    BY <2>1 DEF ReadingsAgree, Reading, AfterFirst, AfterSecond
<1> QED
  BY <1>5, <1>6, <1>7, <1>8, <1>9, <1>11, <1>12, <1>13, <1>14, <1>15, <1>16 DEF Next, Work

-----------------------------------------------------------------------------
(* The theorems of the scan *)

LEMMA RunInit == Init => RunInv
BY FS_EmptySet
   DEF Init, AnyDisk, RunInv, RunTypes, NothingIsSkipped, FirstIsFounded, OutcomeIsOfAnalysis, ReadingsAgree,
       Reading, AfterFirst, AfterSecond

\* The inductive invariant of the scan, action by action in the lemmas above.
THEOREM RunInvariance == Spec => []RunInv
<1>1. RunInv /\ [Next]_vars => RunInv'
  BY RunTypesNext, NothingIsSkippedNext, FirstIsFoundedNext, OutcomeIsOfAnalysisNext, ReadingsAgreeNext
     DEF RunInv
<1> QED
  BY <1>1, RunInit, PTL DEF Spec

LEMMA BuildGraphIs ==
  ASSUME NEW program
  PROVE  /\ DOMAIN BuildGraph(program) = DOMAIN EmptyGraph
         /\ BuildGraph(program).facts = Facts(program)
         /\ BuildGraph(program).coverage = Coverage(program)
BY DEF BuildGraph, EmptyGraph

\* The diagnostics and the coverage of the graph are those of the analysis.
LEMMA GraphOfIs ==
  ASSUME NEW program, NEW diags
  PROVE  /\ GraphOf(program, diags).diagnostics =
              {[id |-> d.id, level |-> d.level, subject |-> None, derived |-> {}, via |-> d.via] : d \in diags}
         /\ GraphOf(program, diags).coverage =
              {[c EXCEPT !.status = IF Failed(diags, c.target[2]) THEN "error" ELSE @]
                 : c \in Coverage(program)}
         /\ GraphOf(program, diags).facts = Facts(program)
<1>1. {"diagnostics", "coverage", "facts", "provenance"} \subseteq DOMAIN BuildGraph(program)
  BY BuildGraphIs DEF EmptyGraph
<1> DEFINE g == BuildGraph(program)
<1> HIDE DEF g
<1>2. {"diagnostics", "coverage", "facts", "provenance"} \subseteq DOMAIN g
  BY <1>1 DEF g
<1>3. GraphOf(program, diags) =
        [g EXCEPT
          !.provenance  = {[id |-> p.id, capability |-> p.capability, adapter |-> ExpressId] : p \in @},
          !.coverage    = {[c EXCEPT !.status = IF Failed(diags, c.target[2]) THEN "error" ELSE @] : c \in @},
          !.diagnostics = {[id |-> d.id, level |-> d.level, subject |-> None, derived |-> {}, via |-> d.via]
                             : d \in diags}]
  BY DEF GraphOf, g
<1>4. /\ GraphOf(program, diags).diagnostics =
              {[id |-> d.id, level |-> d.level, subject |-> None, derived |-> {}, via |-> d.via] : d \in diags}
      /\ GraphOf(program, diags).coverage =
              {[c EXCEPT !.status = IF Failed(diags, c.target[2]) THEN "error" ELSE @] : c \in g.coverage}
      /\ GraphOf(program, diags).facts = g.facts
  BY <1>2, <1>3
<1> QED
  BY <1>4, BuildGraphIs DEF g

\* A satisfied gate had an adapter that was active, and no error.
LEMMA SatisfiedMeans ==
  ASSUME RunInv, Satisfied
  PROVE  stage = "done" /\ first.state = "active" /\ Errors(analysis.diagnostics) = {}
<1> DEFINE g == GraphOf(Programs(analysis.sources), analysis.diagnostics)
           V == Gate!Violations(policy, Report(g))
<1>1. stage = "done" /\ analysis.graph = g /\ outcome = Outcome(g) /\ policy \in Policy
  BY DEF RunInv, RunTypes, OutcomeIsOfAnalysis, Satisfied, Done
<1> HIDE DEF g
<1>2. Exit(g) = "satisfied"
  BY <1>1 DEF Satisfied, Outcome
<1>3. policy # None /\ V = {}
  BY <1>2 DEF Exit, Gate!ExitClass
<1>4. Gate!ValidPolicy(policy)
  BY <1>1, <1>3, EvidenceRunAssumption DEF EvidenceRunAssumption
<1>5. PICK r : r \in policy.requirements
  BY <1>4 DEF Gate!ValidPolicy
<1>6. Gate!RequirementMet(Report(g), r)
  BY <1>3, <1>5 DEF Gate!Violations
<1>7. first.state = "active"
  BY <1>6 DEF Gate!RequirementMet, Gate!Reported, Report
<1>8. \A d \in g.diagnostics : d.level # "error"
  BY <1>3 DEF Gate!Violations, Report
<1>9. ASSUME NEW d \in analysis.diagnostics PROVE d.level # "error"
  <2>1. [id |-> d.id, level |-> d.level, subject |-> None, derived |-> {}, via |-> d.via] \in g.diagnostics
    BY GraphOfIs DEF g
  <2> QED
    BY <1>8, <2>1
<1> QED
  BY <1>1, <1>7, <1>9 DEF Errors

\* A satisfied gate has seen the whole project: every source collected was read
\* and parsed, with its package, in the reading the graph is from, and nothing in
\* it was an error, whatever the disk did between the readings (analyze,
\* applicability, evaluate_evidence_policy).
THEOREM SatisfiedSawEverySource == Spec => []SatisfiedSawEverything
<1>1. RunInv => SatisfiedSawEverything
  <2> SUFFICES ASSUME RunInv, Satisfied
               PROVE  /\ \A p \in collected : \E s \in analysis.sources : s.via = p /\ s.manifest # "broken"
                      /\ Errors(analysis.diagnostics) = {}
    BY DEF SatisfiedSawEverything
  <2>1. stage = "done" /\ first.state = "active" /\ Errors(analysis.diagnostics) = {}
    BY SatisfiedMeans
  <2>2. \A p \in collected : Target[p] \in Parseable
    BY <2>1 DEF RunInv, FirstIsFounded, AfterFirst
  <2>3. \A p \in collected : SeenBy(p, analysis.sources, analysis.diagnostics)
    BY <2>1 DEF RunInv, NothingIsSkipped, AfterSecond
  <2> QED
    BY <2>1, <2>2, <2>3 DEF SeenBy
<1> QED
  BY <1>1, RunInvariance, PTL

\* On a disk at rest a satisfied gate judged the graph of an active adapter
\* (applicability before and after analyze).
THEOREM RestFailsClosed == Spec => []StillProjectFailsClosed
<1>1. RunInv => StillProjectFailsClosed
  <2> SUFFICES ASSUME RunInv, Still, Satisfied PROVE ActivePaths(analysis.sources) # {}
    BY DEF StillProjectFailsClosed
  <2>1. stage = "done" /\ first.state = "active"
    BY SatisfiedMeans
  <2>2. first.evidence # {}
    BY <2>1 DEF RunInv, FirstIsFounded, AfterFirst
  <2>3. first.evidence = ActivePaths(Yield) /\ analysis.sources = Yield
    BY <2>1 DEF RunInv, ReadingsAgree, AfterFirst, AfterSecond
  <2> QED
    BY <2>2, <2>3
<1> QED
  BY <1>1, RunInvariance, PTL

\* What a run that is over has reported: the verdicts of the endpoints of its
\* graph, or nothing.
LEMMA ReportedEndpoint ==
  ASSUME RunInv, Done, NEW e \in DOMAIN outcome.verdict
  PROVE  LET g == GraphOf(Programs(analysis.sources), analysis.diagnostics)
         IN  /\ stage = "done"
             /\ e \in IdsOf(Endpoints(g))
             /\ outcome.verdict[e] = Verdict(g, ById(g.facts, e))
<1> DEFINE g == GraphOf(Programs(analysis.sources), analysis.diagnostics)
<1>1. stage = "done" /\ analysis.graph = g /\ outcome = Outcome(g)
  BY DEF RunInv, OutcomeIsOfAnalysis, Done
<1> HIDE DEF g
<1>2. CASE DeclaredTwice(analysis.sources) \/ ~Valid(g)
  <2>1. outcome.verdict = <<>>
    BY <1>1, <1>2 DEF Outcome
  <2> QED
    BY <2>1
<1>3. CASE ~(DeclaredTwice(analysis.sources) \/ ~Valid(g))
  <2>1. outcome.verdict = [x \in IdsOf(Endpoints(g)) |-> Verdict(g, ById(g.facts, x))]
    BY <1>1, <1>3 DEF Outcome
  <2> QED
    BY <1>1, <2>1 DEF g
<1> QED
  BY <1>2, <1>3

\* A coverage record of the graph that says analyzed is of a file without errors.
LEMMA AnalyzedIsClean ==
  ASSUME NEW program, NEW diags, NEW c \in GraphOf(program, diags).coverage, c.status = "analyzed"
  PROVE  ~Failed(diags, c.target[2])
<1>1. PICK d \in Coverage(program) :
        c = [d EXCEPT !.status = IF Failed(diags, d.target[2]) THEN "error" ELSE @]
  BY GraphOfIs
<1>2. PICK r \in Routes(program), k \in Capability :
        d = [id |-> <<"coverage", EndpointId(program, r), k>>, target |-> EndpointId(program, r),
             capability |-> k, status |-> CoverageStatus(program, r, k), provenance |-> Provenance(k)]
  BY <1>1 DEF Coverage
<1> QED
  BY <1>1, <1>2

\* A verdict other than UNRESOLVED is of an endpoint whose file, and the project
\* as a whole, came through the analysis without an error (resolve_endpoints over
\* the coverage build_express_graph reports).
THEOREM VerdictsAreClean == Spec => []VerdictsRestOnCleanSources
<1>1. RunInv => VerdictsRestOnCleanSources
  <2> SUFFICES ASSUME RunInv, Done, NEW e \in DOMAIN outcome.verdict, outcome.verdict[e] # "UNRESOLVED",
                      NEW d \in Errors(analysis.diagnostics)
               PROVE  d.span \notin {Nowhere, e[2]}
    BY DEF VerdictsRestOnCleanSources
  <2> DEFINE g == GraphOf(Programs(analysis.sources), analysis.diagnostics)
             f == ById(g.facts, e)
  <2>1. e \in IdsOf(Endpoints(g)) /\ outcome.verdict[e] = Verdict(g, f)
    BY ReportedEndpoint
  <2>2. f.id = e
    BY <2>1 DEF IdsOf, Endpoints, ById
  <2> HIDE DEF f
  <2>3. Covered(g, f)
    BY <2>1 DEF Verdict, Doubtful
  <2>4. PICK c \in g.coverage : c.target = e /\ c.status = "analyzed"
    BY <2>2, <2>3 DEF Covered, Capability
  <2>5. ~Failed(analysis.diagnostics, e[2])
    BY <2>4, AnalyzedIsClean
  <2> QED
    BY <2>5 DEF Failed
<1> QED
  BY <1>1, RunInvariance, PTL

\* Only an active source has statements.
LEMMA ProgramsAreOfActive ==
  ASSUME NEW read, NEW f \in File, NEW i \in DOMAIN Programs(read)[f]
  PROVE  f \in ActivePaths(read)
<1> SUFFICES ASSUME f \notin ActivePaths(read) PROVE FALSE
  OBVIOUS
<1>1. ~\E s \in {x \in read : Active(x)} : s.path = f
  BY DEF ActivePaths
<1>2. Programs(read)[f] = <<>>
  BY <1>1 DEF Programs
<1> QED
  BY <1>2

\* An endpoint of a graph is in a file that has statements.
LEMMA EndpointsAreOfFiles ==
  ASSUME NEW program, NEW diags, NEW e \in IdsOf(Endpoints(GraphOf(program, diags)))
  PROVE  e[2] \in File /\ \E i \in DOMAIN program[e[2]] : TRUE
<1>1. PICK f \in Facts(program) : f.kind \in EndpointKinds /\ f.id = e
  BY GraphOfIs DEF IdsOf, Endpoints
<1>2. \A kind, c : Evidence(kind, program, c).kind = kind
  BY DEF Evidence
<1>3. PICK r \in Routes(program) : f = Endpoint(program, r)
  BY <1>1, <1>2 DEF Facts, EndpointKinds
<1>4. e[2] = r[1]
  BY <1>1, <1>3 DEF Endpoint, EndpointId, Id
<1>5. PICK s \in Positions(program) : r[1] = s[1]
  BY DEF Routes
<1>6. PICK p \in File : \E i \in DOMAIN program[p] : s = <<p, i>>
  BY <1>5 DEF Positions
<1> QED
  BY <1>4, <1>5, <1>6

\* On a disk at rest every reported endpoint is in a file the first reading found
\* active, though it is the second reading the endpoints are from (ownership over
\* the evidence of applicability).
THEOREM EndpointsHaveOwners == Spec => []EndpointsAreOwned
<1>1. RunInv => EndpointsAreOwned
  <2> SUFFICES ASSUME RunInv, Still, Done, NEW e \in DOMAIN outcome.verdict, e[2] \in collected
               PROVE  e[2] \in Owned
    BY DEF EndpointsAreOwned
  <2>1. /\ stage = "done"
        /\ e \in IdsOf(Endpoints(GraphOf(Programs(analysis.sources), analysis.diagnostics)))
    BY ReportedEndpoint
  <2>2. e[2] \in ActivePaths(analysis.sources)
    BY <2>1, EndpointsAreOfFiles, ProgramsAreOfActive
  <2>3. first.evidence = ActivePaths(Yield) /\ analysis.sources = Yield
    BY <2>1 DEF RunInv, ReadingsAgree, AfterFirst, AfterSecond
  <2> QED
    BY <2>2, <2>3 DEF Owned
<1> QED
  BY <1>1, RunInvariance, PTL
=============================================================================
