-------------------------- MODULE LegacyScanProofs --------------------------
(***************************************************************************)
(* Proofs about LegacyScan, for any files, packs, settings and commands:   *)
(* what the exit status of a command says about its scan.  The induction   *)
(* is on IInv: every file the walker has passed is accounted for in the    *)
(* coverage or in the findings, and the exit status was computed from both.*)
(***************************************************************************)
EXTENDS LegacyScan, TLAPS

-----------------------------------------------------------------------------
(* One file *)

\* What a pack finds carries the file's name and a state it can have; EXPOSED
\* is only said with high confidence (RegexAnalyzer.analyze).
LEMMA Classified ==
  ASSUME NEW p, NEW f, NEW c, NEW public, NEW x \in Analyze(p, f, c, public)
  PROVE  /\ x.file = f /\ x.state \in States /\ x.confidence \in {"medium", "high"}
         /\ x.state = "EXPOSED" => x.confidence = "high"
<1>1. PICK e \in Endpoints(p, f, c) : x = Classify(p, f, c, e, public)
  BY DEF Analyze
<1>2. e.confidence \in {"medium", "high"}
  BY <1>1 DEF Endpoints
<1>3. EffectiveConfidence(p, e, c) \in {"medium", "high"}
  BY <1>2 DEF EffectiveConfidence
<1>4. /\ x.file = f
      /\ x.confidence = EffectiveConfidence(p, e, c)
      /\ x.state = ClassifyState(SameLineGuard(e, c), EffectiveConfidence(p, e, c),
                                 LooksPublic(e.route, p, public))
  BY <1>1 DEF Classify
<1>5. /\ x.state \in States
      /\ x.state = "EXPOSED" => EffectiveConfidence(p, e, c) = "high"
  BY <1>4 DEF ClassifyState, States
<1> QED BY <1>3, <1>4, <1>5

\* A file is rejected with one of three statuses, or not at all
\* (FileWalker.walk).
LEMMA RejectedStatus ==
  ASSUME NEW f
  PROVE  /\ Rejected(f) \in {"EXCLUDED", "UNSUPPORTED", "SKIPPED", None}
         /\ ~Ignored(f, config.excludes) => Rejected(f) # "EXCLUDED"
         /\ ~Ignored(f, config.excludes) /\ Supporting(f) # {} /\ Readable(f) => Rejected(f) = None
BY LegacyScanAssumption DEF LegacyScanAssumption, Rejected, Statuses

\* The settings a command runs with are valid (RunConfig.merged_with_file).
LEMMA ConfigIsValid ==
  ASSUME NEW c \in Commands, project \in ProjectFiles
  PROVE  /\ ConfigOf(c).min_confidence \in Confidences
         /\ ConfigOf(c).excludes \subseteq Dirs
         /\ ConfigOf(c).strict_coverage \in BOOLEAN
<1>1. ValidSettings(c.given) /\ ValidSettings(project.settings)
  BY LegacyScanAssumption DEF LegacyScanAssumption
<1>2. /\ Default.min_confidence = "medium" /\ Default.excludes = {}
      /\ Default.strict_coverage = FALSE
      /\ Default["min_confidence"] = "medium" /\ Default["excludes"] = {}
      /\ Default["strict_coverage"] = FALSE
  BY DEF Default
<1>3. /\ ConfigOf(c).min_confidence \in Confidences
      /\ ConfigOf(c).excludes \subseteq Dirs
      /\ ConfigOf(c).strict_coverage \in BOOLEAN
  BY <1>1, <1>2 DEF ConfigOf, Merged, Setting, ValidSettings, Confidences
<1> QED BY <1>3
-----------------------------------------------------------------------------
(* The inductive invariant *)

\* Nothing has been scanned and no baseline exists at first.
LEMMA InitIsSound == Init => IInv
<1> SUFFICES ASSUME Init PROVE IInv
  OBVIOUS
<1>1. TypeOK
  <2>1. Default.min_confidence \in Confidences /\ Default.excludes \subseteq Dirs
        /\ Default.strict_coverage \in BOOLEAN
    BY DEF Default, Confidences
  <2> QED BY <2>1 DEF Init, TypeOK, Broken, Unusable
<1>2. Fresh /\ FindingsAreClassified /\ WalkIsOver /\ WriteIsAsked /\ ErrorsAreCovered
  BY DEF Init, Fresh, FindingsAreClassified, WalkIsOver, WriteIsAsked, ErrorsAreCovered
<1>3. VisitedAreAccounted /\ BaselineIsAccepted /\ StatusIsEarned
  BY DEF Init, VisitedAreAccounted, BaselineIsAccepted, StatusIsEarned, Broken
<1> QED BY <1>1, <1>2, <1>3 DEF IInv

\* The rest of a command is undisturbed by what people do between commands.
LEMMA PeopleStep ==
  ASSUME IInv,
         \/ \E f \in Files : \E c \in Contents(f) : Edit(f, c)
         \/ \E s \in ProjectFiles : Configure(s)
         \/ \E d \in Damages : Damage(d)
  PROVE  IInv'
<1> USE DEF IInv
<1>1. /\ phase = "idle" /\ phase' = "idle"
      /\ UNCHANGED <<command, config, pending, findings, errors, coverage, gating, status, accepted>>
  BY DEF Edit, Configure, Damage, scan
<1>2. TypeOK'
  <2>1. CASE \E f \in Files : \E c \in Contents(f) : Edit(f, c)
    <3>0. PICK f \in Files : \E c \in Contents(f) : Edit(f, c)
      BY <2>1
    <3>1. PICK c \in Contents(f) : Edit(f, c)
      BY <3>0
    <3>2. code' \in [Files -> UNION {Contents(g) : g \in Files}] /\ \A g \in Files : code'[g] \in Contents(g)
      BY <3>1 DEF Edit, TypeOK
    <3> QED BY <1>1, <3>1, <3>2 DEF Edit, TypeOK
  <2>2. CASE \E s \in ProjectFiles : Configure(s)
    BY <1>1, <2>2 DEF Configure, TypeOK
  <2>3. CASE \E d \in Damages : Damage(d)
    <3>1. baseline'.form \in Unusable
      BY <2>3, LegacyScanAssumption DEF Damage, Broken, LegacyScanAssumption
    <3> QED BY <1>1, <2>3, <3>1 DEF Damage, TypeOK
  <2> QED BY <2>1, <2>2, <2>3
<1>3. Fresh' /\ FindingsAreClassified' /\ WalkIsOver' /\ WriteIsAsked' /\ ErrorsAreCovered'
  BY <1>1 DEF Fresh, FindingsAreClassified, WalkIsOver, WriteIsAsked, ErrorsAreCovered, Record
<1>4. VisitedAreAccounted' /\ StatusIsEarned'
  BY <1>1 DEF VisitedAreAccounted, StatusIsEarned
<1>5. BaselineIsAccepted'
  <2>1. CASE baseline' = baseline
    BY <1>1, <2>1 DEF BaselineIsAccepted
  <2>2. CASE \E d \in Damages : baseline' = Broken(d)
    BY <2>2, LegacyScanAssumption
    DEF BaselineIsAccepted, Broken, LegacyScanAssumption, Unusable, Decodable
  <2> QED BY <2>1, <2>2 DEF Edit, Configure, Damage
<1> QED BY <1>2, <1>3, <1>4, <1>5

\* A command begins with nothing, or ends before it has begun.
LEMMA BeginStep ==
  ASSUME IInv, NEW c \in Commands, Begin(c)
  PROVE  IInv'
<1> USE DEF IInv
<1>1. /\ phase = "idle" /\ command' = c
      /\ UNCHANGED <<code, project, baseline, accepted, findings, errors, coverage, gating>>
  BY DEF Begin, env
<1>2. /\ findings = {} /\ errors = {} /\ coverage = {} /\ gating = {} /\ status = None /\ pending = {}
  BY <1>1 DEF Fresh, WalkIsOver
<1>3. \/ /\ phase' = "done" /\ status' = 2 /\ UNCHANGED <<config, pending>>
      \/ /\ phase' = "done" /\ status' = 1 /\ Yields(c, "undecodable")
         /\ UNCHANGED <<config, pending>>
      \/ phase' = "scan" /\ config' = ConfigOf(c) /\ pending' = Listed /\ status' = None
  BY <1>1, <1>2 DEF Begin, Exit, Traceback
<1>4. TypeOK'
  <2>1. /\ config'.min_confidence \in Confidences /\ config'.excludes \subseteq Dirs
        /\ config'.strict_coverage \in BOOLEAN
    BY <1>3, ConfigIsValid DEF TypeOK
  <2>2. pending' \subseteq Files /\ status' \in {0, 1, 2, None} /\ phase' \in {"scan", "done"}
    BY <1>2, <1>3 DEF Listed
  <2> QED BY <1>1, <1>2, <2>1, <2>2 DEF TypeOK
<1>5. Fresh' /\ FindingsAreClassified' /\ WalkIsOver' /\ WriteIsAsked' /\ ErrorsAreCovered'
  BY <1>1, <1>2, <1>3 DEF Fresh, FindingsAreClassified, WalkIsOver, WriteIsAsked, ErrorsAreCovered
<1>6. BaselineIsAccepted'
  BY <1>1 DEF BaselineIsAccepted
<1>7. Decodable => ~Yields(c, "undecodable")
  <2> SUFFICES ASSUME Decodable PROVE ~Yields(c, "undecodable")
    OBVIOUS
  <2>1. ProjectOutcome # "undecodable"
    BY DEF ProjectOutcome, Decodable, TypeOK
  <2>2. ~PacksYield(c, "undecodable")
    BY DEF PacksYield, Decodable
  <2> QED BY <2>1, <2>2 DEF Yields
<1>8. VisitedAreAccounted' /\ StatusIsEarned'
  <2>1. CASE phase' = "scan"
    BY <1>1, <1>3, <2>1 DEF VisitedAreAccounted, StatusIsEarned, Listed
  <2>2. CASE phase' = "done"
    BY <1>1, <1>3, <1>7, <2>2 DEF VisitedAreAccounted, StatusIsEarned
  <2> QED BY <1>3, <2>1, <2>2
<1> QED BY <1>4, <1>5, <1>6, <1>8

\* A visit accounts for one more file and takes nothing away.
LEMMA VisitStep ==
  ASSUME IInv, NEW f \in Files, Visit(f)
  PROVE  IInv'
<1> USE DEF IInv
<1>1. /\ phase = "scan" /\ f \in pending /\ pending' = pending \ {f}
      /\ UNCHANGED <<code, project, baseline, accepted, recorded, phase, command, config, gating, status>>
  BY DEF Visit, env
<1> DEFINE new == findings' \ findings
<1>2. /\ findings \subseteq findings' /\ coverage \subseteq coverage' /\ errors \subseteq errors'
      /\ \A x \in new : \E p \in Supporting(f) : x \in Analyze(p, f, code[f], config.public_paths)
      /\ \A r \in coverage' \ coverage : r.file = f /\ r.status \in Statuses
      /\ \A e \in errors' \ errors : e.file = f /\ Record(f, "ERROR") \in coverage'
      /\ Relevant(f) =>
           \/ Rejected(f) # None /\ Record(f, Rejected(f)) \in coverage'
           \/ /\ Rejected(f) = None
              /\ \/ Record(f, "ERROR") \in coverage'
                 \/ /\ Record(f, "ANALYZED") \in coverage'
                    /\ \A p \in Supporting(f) :
                         Analyze(p, f, code[f], config.public_paths) \subseteq findings'
  <2>1. CASE ~Relevant(f) /\ UNCHANGED <<findings, errors, coverage>>
    BY <2>1
  <2>2. CASE /\ Relevant(f) /\ Rejected(f) # None
             /\ coverage' = coverage \cup {Record(f, Rejected(f))}
             /\ UNCHANGED <<findings, errors>>
    <3>1. \A r \in coverage' \ coverage : r.file = f /\ r.status \in Statuses
      BY <2>2, RejectedStatus DEF Record, Statuses
    <3> QED BY <2>2, <3>1
  <2>3. CASE /\ Relevant(f) /\ Rejected(f) = None
             /\ \E failing \in SUBSET Supporting(f) :
                  /\ findings' = findings \cup
                       UNION {Analyze(p, f, code[f], config.public_paths) : p \in Supporting(f) \ failing}
                  /\ errors' = errors \cup {[file |-> f, pack |-> p.name] : p \in failing}
                  /\ coverage' = coverage \cup {Record(f, IF failing = {} THEN "ANALYZED" ELSE "ERROR")}
    <3>1. PICK failing \in SUBSET Supporting(f) :
                  /\ findings' = findings \cup
                       UNION {Analyze(p, f, code[f], config.public_paths) : p \in Supporting(f) \ failing}
                  /\ errors' = errors \cup {[file |-> f, pack |-> p.name] : p \in failing}
                  /\ coverage' = coverage \cup {Record(f, IF failing = {} THEN "ANALYZED" ELSE "ERROR")}
      BY <2>3
    <3>2. \A x \in new : \E p \in Supporting(f) : x \in Analyze(p, f, code[f], config.public_paths)
      BY <3>1
    <3>3. \A r \in coverage' \ coverage : r.file = f /\ r.status \in Statuses
      BY <3>1 DEF Record, Statuses
    <3>4. failing = {} => /\ Record(f, "ANALYZED") \in coverage'
                          /\ \A p \in Supporting(f) :
                               Analyze(p, f, code[f], config.public_paths) \subseteq findings'
      BY <3>1
    <3>5. failing # {} => Record(f, "ERROR") \in coverage'
      BY <3>1
    <3>6. \A e \in errors' \ errors : e.file = f /\ failing # {}
      BY <3>1
    <3>7. findings \subseteq findings' /\ coverage \subseteq coverage' /\ errors \subseteq errors'
      BY <3>1
    <3> QED BY <2>3, <3>2, <3>3, <3>4, <3>5, <3>6, <3>7
  <2> QED BY <2>1, <2>2, <2>3 DEF Visit
<1>3. \A x \in new : /\ x.file = f /\ x.state \in States /\ x.confidence \in {"medium", "high"}
                     /\ x.state = "EXPOSED" => x.confidence = "high"
  BY <1>2, Classified
<1>4. TypeOK'
  <2>1. /\ pending' \subseteq Files /\ gating' \subseteq findings'
        /\ \A x \in findings' : x.state \in States /\ x.confidence \in Confidences /\ x.file \in Files
    BY <1>1, <1>2, <1>3 DEF TypeOK, Confidences
  <2>2. (\A e \in errors' : e.file \in Files) /\ \A r \in coverage' : r.file \in Files /\ r.status \in Statuses
    BY <1>2 DEF TypeOK
  <2> QED BY <1>1, <2>1, <2>2 DEF TypeOK
<1>5. Fresh' /\ WalkIsOver' /\ WriteIsAsked' /\ BaselineIsAccepted' /\ StatusIsEarned'
  BY <1>1 DEF Fresh, WalkIsOver, WriteIsAsked, BaselineIsAccepted, StatusIsEarned
<1>6. FindingsAreClassified'
  BY <1>2, <1>3 DEF FindingsAreClassified
<1>7. ErrorsAreCovered'
  BY <1>2 DEF ErrorsAreCovered, Record
<1>8. VisitedAreAccounted'
  <2> SUFFICES ASSUME NEW g \in Listed, g \notin pending', Relevant(g) PROVE Accounted(g)'
    BY <1>1 DEF VisitedAreAccounted, Accounted, Relevant, Supporting
  <2>1. Rejected(g)' = Rejected(g)
    BY <1>1 DEF Rejected, Readable
  <2>2. CASE g = f
    BY <1>1, <1>2, <2>1, <2>2 DEF Accounted, Record
  <2>3. CASE g # f
    <3>1. Accounted(g)
      BY <1>1, <2>3 DEF VisitedAreAccounted
    <3> QED BY <1>1, <1>2, <2>1, <3>1 DEF Accounted, Record
  <2> QED BY <2>2, <2>3
<1> QED BY <1>4, <1>5, <1>6, <1>7, <1>8

\* The report is the end of the walk (run_scan, build_reporter).
LEMMA ReportStep ==
  ASSUME IInv, Report
  PROVE  IInv'
<1> USE DEF IInv
<1>1. /\ phase = "scan" /\ pending = {} /\ pending' = {}
      /\ \/ phase' = "gate" /\ status' = status
         \/ phase' = "done" /\ status' = 2
      /\ UNCHANGED <<code, project, baseline, accepted, command, config, findings, errors,
                     coverage, gating>>
  BY DEF Report, Scanned, Exit, env, scan
<1>2. TypeOK' /\ Fresh' /\ FindingsAreClassified' /\ WalkIsOver' /\ WriteIsAsked' /\ ErrorsAreCovered' /\ BaselineIsAccepted'
  BY <1>1 DEF TypeOK, Fresh, FindingsAreClassified, WalkIsOver, WriteIsAsked, ErrorsAreCovered, BaselineIsAccepted
<1>3. VisitedAreAccounted'
  BY <1>1 DEF VisitedAreAccounted, Accounted, Relevant, Supporting, Rejected, Readable
<1>4. StatusIsEarned'
  BY <1>1 DEF StatusIsEarned
<1> QED BY <1>2, <1>3, <1>4

\* A run that is judged against what the last baseline accepted.
LEMMA JudgeStep ==
  ASSUME IInv, phase = "gate", NEW prints, Judge(prints), UNCHANGED <<env, command, config, scan>>,
         \A f \in findings : Serious(f) /\ Fingerprint(f) \in prints => command.baseline /\ AcceptedBefore(f)
  PROVE  IInv'
<1> USE DEF IInv
<1>1. /\ pending = {} /\ gating' = GatingFindings(prints)
      /\ UNCHANGED <<code, project, baseline, accepted, command, config, pending, findings, errors, coverage>>
  BY DEF Judge, WalkIsOver, WriteIsAsked, env, scan
<1>2. \/ command.write /\ phase' = "write" /\ status' = status
      \/ ~command.write /\ phase' = "done" /\ status' = ExitCode(gating')
  BY <1>1 DEF Judge, Exit
<1>3. gating' \subseteq findings
  BY <1>1 DEF GatingFindings, SortedFindings
<1>4. ExitCode(gating') \in {0, 1, 2}
  BY DEF ExitCode
<1>5. TypeOK' /\ Fresh' /\ FindingsAreClassified' /\ WalkIsOver' /\ WriteIsAsked' /\ ErrorsAreCovered' /\ BaselineIsAccepted'
  BY <1>1, <1>2, <1>3, <1>4
  DEF TypeOK, Fresh, FindingsAreClassified, WalkIsOver, WriteIsAsked, ErrorsAreCovered, BaselineIsAccepted
<1>6. VisitedAreAccounted'
  <2>1. \A f \in Listed : Accounted(f)
    BY <1>1 DEF VisitedAreAccounted
  <2>2. \A f \in Listed : Accounted(f)'
    BY <1>1, <2>1 DEF Accounted, Relevant, Supporting, Rejected, Readable
  <2> QED BY <1>2, <2>2 DEF VisitedAreAccounted
<1>7. StatusIsEarned'
  <2> SUFFICES ASSUME phase' = "done", ~command.write, status' = ExitCode(gating')
               PROVE  StatusIsEarned'
    BY <1>2 DEF StatusIsEarned
  <2>1. status' = 0 => errors = {} /\ CoverageErrors = {} /\ gating' = {}
    BY DEF ExitCode
  <2>2. status' = 1 => gating' # {}
    BY DEF ExitCode
  <2>3. status' # 2 /\ config.strict_coverage => Incomplete = {}
    BY DEF ExitCode
  <2>4. ASSUME status' = 0, NEW f \in findings, Serious(f)
        PROVE  command.baseline /\ AcceptedBefore(f)
    BY <1>1, <2>1, <2>4 DEF GatingFindings, SortedFindings, Serious
  <2>5. (CoverageErrors = {})' = (CoverageErrors = {}) /\ (Incomplete = {})' = (Incomplete = {})
    BY <1>1 DEF CoverageErrors, Incomplete
  <2>6. \A f \in findings : /\ Serious(f)' = Serious(f)
                            /\ AcceptedBefore(f)' = AcceptedBefore(f)
    BY <1>1 DEF Serious, AcceptedBefore, TripsGate
  <2> QED BY <1>1, <2>1, <2>2, <2>3, <2>4, <2>5, <2>6 DEF StatusIsEarned
<1> QED BY <1>5, <1>6, <1>7

\* A gate without a usable baseline judges every finding, or the command ends
\* (main).
LEMMA GateStep ==
  ASSUME IInv, Gate
  PROVE  IInv'
<1> USE DEF IInv
<1>1. phase = "gate" /\ UNCHANGED <<env, command, config, scan>>
  BY DEF Gate
<1>2. CASE Judge({})
  <2>1. \A f \in findings : Fingerprint(f) \notin {}
    OBVIOUS
  <2> QED BY <1>1, <1>2, <2>1, JudgeStep
<1>3. CASE command.baseline /\ baseline.form = "good" /\ Judge(baseline.prints)
  <2>1. \A f \in findings : Fingerprint(f) \in baseline.prints => AcceptedBefore(f)
    BY <1>3 DEF BaselineIsAccepted, Fingerprint, AcceptedBefore
  <2> QED BY <1>1, <1>3, <2>1, JudgeStep
<1>4. CASE /\ phase' = "done" /\ UNCHANGED gating
           /\ \/ status' = 2
              \/ baseline.form = "undecodable" /\ status' = 1
  <2>1. pending = {} /\ pending' = {}
        /\ UNCHANGED <<code, project, baseline, accepted, command, config, findings, errors, coverage, gating>>
    BY <1>1, <1>4 DEF WalkIsOver, WriteIsAsked, env, scan
  <2>2. Decodable => status' = 2
    BY <1>4 DEF BaselineIsAccepted
  <2>3. TypeOK' /\ Fresh' /\ FindingsAreClassified' /\ WalkIsOver' /\ WriteIsAsked' /\ ErrorsAreCovered' /\ BaselineIsAccepted'
    BY <1>4, <2>1 DEF TypeOK, Fresh, FindingsAreClassified, WalkIsOver, WriteIsAsked, ErrorsAreCovered, BaselineIsAccepted
  <2>4. VisitedAreAccounted' /\ StatusIsEarned'
    BY <1>4, <2>1, <2>2 DEF VisitedAreAccounted, StatusIsEarned
  <2> QED BY <2>3, <2>4
<1>5. \/ Judge({})
      \/ command.baseline /\ baseline.form = "good" /\ Judge(baseline.prints)
      \/ Exit(2) /\ UNCHANGED gating
      \/ baseline.form = "undecodable" /\ Exit(1) /\ UNCHANGED gating
  BY DEF Gate, Traceback
<1>6. ASSUME Exit(2) \/ (baseline.form = "undecodable" /\ Exit(1)), UNCHANGED gating
      PROVE  /\ phase' = "done" /\ UNCHANGED gating
             /\ \/ status' = 2
                \/ baseline.form = "undecodable" /\ status' = 1
  BY <1>6 DEF Exit
<1> QED BY <1>2, <1>3, <1>4, <1>5, <1>6

\* A baseline is written from a complete scan (main, build_baseline).
LEMMA WriteBaselineStep ==
  ASSUME IInv, WriteBaseline
  PROVE  IInv'
<1> USE DEF IInv
<1>1. /\ phase = "write" /\ phase' = "done" /\ pending = {}
      /\ UNCHANGED <<code, project, command, config, pending, findings, errors, coverage, gating>>
  BY DEF WriteBaseline, WalkIsOver, WriteIsAsked, Exit, scan
<1>2. \/ status' = 2
      \/ status' = 0 /\ Incomplete = {}
  BY DEF WriteBaseline, Exit
<1>3. \/ UNCHANGED <<baseline, accepted>>
      \/ /\ baseline' = [form |-> "good", prints |-> {Fingerprint(f) : f \in SortedFindings}]
         /\ accepted' = SortedFindings
      \/ baseline' = Broken("malformed") /\ UNCHANGED accepted
  BY DEF WriteBaseline, SortedFindings
<1>4. TypeOK'
  <2>1. baseline'.form \in Unusable \cup {"good"}
    BY <1>3 DEF TypeOK, Broken, Unusable
  <2> QED BY <1>1, <1>2, <2>1 DEF TypeOK
<1>5. Fresh' /\ FindingsAreClassified' /\ WalkIsOver' /\ WriteIsAsked' /\ ErrorsAreCovered'
  BY <1>1 DEF Fresh, FindingsAreClassified, WalkIsOver, WriteIsAsked, ErrorsAreCovered
<1>6. BaselineIsAccepted'
  BY <1>3 DEF BaselineIsAccepted, Broken, Fingerprint
<1>7. VisitedAreAccounted'
  <2>1. \A f \in Listed : Accounted(f)
    BY <1>1 DEF VisitedAreAccounted
  <2>2. \A f \in Listed : Accounted(f)'
    BY <1>1, <2>1 DEF Accounted, Relevant, Supporting, Rejected, Readable
  <2> QED BY <1>1, <2>2 DEF VisitedAreAccounted
<1>8. StatusIsEarned'
  <2>1. command.write
    BY <1>1 DEF WriteIsAsked
  <2>2. Incomplete = {} => CoverageErrors = {} /\ errors = {}
    <3>1. CoverageErrors \subseteq Incomplete
      BY DEF Incomplete, CoverageErrors
    <3>2. \A e \in errors : Record(e.file, "ERROR") \in CoverageErrors
      BY DEF CoverageErrors, ErrorsAreCovered, Record
    <3> QED BY <3>1, <3>2
  <2>3. (CoverageErrors = {})' = (CoverageErrors = {}) /\ (Incomplete = {})' = (Incomplete = {})
    BY <1>1 DEF CoverageErrors, Incomplete
  <2> QED BY <1>1, <1>2, <2>1, <2>2, <2>3 DEF StatusIsEarned
<1> QED BY <1>4, <1>5, <1>6, <1>7, <1>8

\* The next process starts from the initial state.
LEMMA ClearStep ==
  ASSUME IInv, Clear
  PROVE  IInv'
<1> USE DEF IInv
<1>1. TypeOK'
  <2>1. Default.min_confidence \in Confidences /\ Default.excludes \subseteq Dirs
        /\ Default.strict_coverage \in BOOLEAN
    BY DEF Default, Confidences
  <2> QED BY <2>1 DEF Clear, TypeOK, env
<1>2. Fresh' /\ FindingsAreClassified' /\ WalkIsOver' /\ WriteIsAsked' /\ ErrorsAreCovered'
  BY DEF Clear, Fresh, FindingsAreClassified, WalkIsOver, WriteIsAsked, ErrorsAreCovered
<1>3. VisitedAreAccounted' /\ StatusIsEarned' /\ BaselineIsAccepted'
  BY DEF Clear, VisitedAreAccounted, StatusIsEarned, BaselineIsAccepted, env
<1> QED BY <1>1, <1>2, <1>3

\* IInv holds in every state of every run of commands.
THEOREM Invariance == Spec => []IInv
<1>1. IInv /\ [Next]_vars => IInv'
  <2> SUFFICES ASSUME IInv, [Next]_vars PROVE IInv'
    OBVIOUS
  <2>1. CASE \E c \in Commands : Begin(c)
    BY <2>1, BeginStep
  <2>2. CASE \E f \in Files : Visit(f)
    BY <2>2, VisitStep
  <2>3. CASE Report
    BY <2>3, ReportStep
  <2>4. CASE Gate
    BY <2>4, GateStep
  <2>5. CASE WriteBaseline
    BY <2>5, WriteBaselineStep
  <2>6. CASE Clear
    BY <2>6, ClearStep
  <2>7. CASE \/ \E f \in Files : \E c \in Contents(f) : Edit(f, c)
             \/ \E s \in ProjectFiles : Configure(s)
             \/ \E d \in Damages : Damage(d)
    BY <2>7, PeopleStep
  <2>8. CASE UNCHANGED vars
    <3>1. UNCHANGED <<code, project, baseline, accepted, phase, command, config, pending,
                      findings, errors, coverage, gating, status>>
      BY <2>8 DEF vars, env, scan
    <3>2. TypeOK' /\ Fresh' /\ FindingsAreClassified' /\ WalkIsOver' /\ WriteIsAsked' /\ ErrorsAreCovered'
      BY <3>1 DEF IInv, TypeOK, Fresh, FindingsAreClassified, WalkIsOver, WriteIsAsked, ErrorsAreCovered
    <3>3. BaselineIsAccepted'
      BY <3>1 DEF IInv, BaselineIsAccepted
    <3>4. VisitedAreAccounted' /\ StatusIsEarned'
      BY <3>1 DEF IInv, VisitedAreAccounted, StatusIsEarned, Accounted, Relevant, Supporting,
                  Rejected, Readable, Incomplete, CoverageErrors, Serious, AcceptedBefore, TripsGate
    <3> QED BY <3>2, <3>3, <3>4 DEF IInv
  <2> QED BY <2>1, <2>2, <2>3, <2>4, <2>5, <2>6, <2>7, <2>8 DEF Next
<1> QED BY InitIsSound, <1>1, PTL DEF Spec

-----------------------------------------------------------------------------
(* What the exit status says *)

\* The state of a command stays well-typed.
THEOREM TypeCorrect == Spec => []TypeOK
<1>1. IInv => TypeOK
  BY DEF IInv
<1> QED BY Invariance, <1>1, PTL

\* A command on which any pack failed on any file never exits with 0,
\* neither after the gate nor after --write-baseline (_exit_code, main).
THEOREM PartialNeverPasses == Spec => []PartialScanNeverPasses
<1>1. IInv => PartialScanNeverPasses
  BY DEF IInv, StatusIsEarned, PartialScanNeverPasses, Done
<1> QED BY Invariance, <1>1, PTL

\* --fail-on EXPOSED is --fail-on HIGH and CRITICAL, --fail-on UNKNOWN is
\* --fail-on MEDIUM and LOW: an endpoint is never EXPOSED with less than high
\* confidence (classify_state, severity_for, _trips_gate).
THEOREM ThresholdsAgree == Spec => []GatesAgree
<1>1. IInv => GatesAgree
  <2> SUFFICES ASSUME IInv, NEW f \in findings
               PROVE  /\ TripsGate(f, "EXPOSED") = TripsGate(f, "CRITICAL")
                      /\ TripsGate(f, "EXPOSED") = TripsGate(f, "HIGH")
                      /\ TripsGate(f, "UNKNOWN") = TripsGate(f, "MEDIUM")
                      /\ TripsGate(f, "UNKNOWN") = TripsGate(f, "LOW")
    BY DEF GatesAgree
  <2>1. None \notin {"EXPOSED", "UNKNOWN", "CRITICAL", "HIGH", "MEDIUM", "LOW"}
    BY LegacyScanAssumption DEF LegacyScanAssumption, Severities
  <2>2. /\ SeverityRank["INFO"] = 0 /\ SeverityRank["LOW"] = 1 /\ SeverityRank["MEDIUM"] = 2
        /\ SeverityRank["HIGH"] = 3 /\ SeverityRank["CRITICAL"] = 4
    BY DEF SeverityRank
  <2>3. \/ f.state = "EXPOSED" /\ Severity(f) = "CRITICAL"
        \/ f.state = "UNKNOWN" /\ Severity(f) = "MEDIUM"
        \/ f.state \in {"PROTECTED", "PUBLIC"} /\ Severity(f) = "INFO"
    BY DEF IInv, TypeOK, States, FindingsAreClassified, Severity
  <2> QED BY <2>1, <2>2, <2>3 DEF TripsGate, ByState
<1> QED BY Invariance, <1>1, PTL

\* Where the scan can list every directory, a file the walk was to cover and
\* that no pack failed on was analyzed, if nothing it skipped is tolerated.
LEMMA NothingIsMissed ==
  ASSUME Sealed = {}, \A g \in Listed : Accounted(g),
         NEW f \in Files, Relevant(f), ~Ignored(f, config.excludes), CoverageErrors = {},
         Incomplete = {} \/ Rejected(f) = None
  PROVE  /\ Record(f, "ANALYZED") \in coverage
         /\ \A p \in Supporting(f) : Analyze(p, f, code[f], config.public_paths) \subseteq findings
<1>1. Accounted(f)
  BY DEF Listed
<1>2. Record(f, "ERROR") \notin coverage
  BY DEF CoverageErrors, Record
<1>3. Rejected(f) = None
  <2> SUFFICES ASSUME Rejected(f) # None PROVE FALSE
    OBVIOUS
  <2>1. Record(f, Rejected(f)) \in coverage /\ Rejected(f) \in {"UNSUPPORTED", "SKIPPED"}
    BY <1>1, RejectedStatus DEF Accounted
  <2> QED BY <2>1 DEF Incomplete, Record
<1> QED BY <1>1, <1>2, <1>3 DEF Accounted

\* With --strict-coverage or --write-baseline a command ends with 2, or every
\* pack analyzed every file it supports and policy does not exclude, provided
\* the walk can list every directory and every document can be decoded.
THEOREM StrictIsComplete ==
  ASSUME Sealed = {}, Decodable
  PROVE  Spec => []StrictCoverageIsComplete
<1>1. IInv => StrictCoverageIsComplete
  <2> SUFFICES ASSUME IInv, phase = "done", status # 2, config.strict_coverage \/ command.write,
                      NEW f \in Files, Relevant(f), ~Ignored(f, config.excludes)
               PROVE  /\ Record(f, "ANALYZED") \in coverage
                      /\ \A p \in Supporting(f) :
                           Analyze(p, f, code[f], config.public_paths) \subseteq findings
    BY DEF StrictCoverageIsComplete, Done
  <2>1. Incomplete = {}
    BY DEF IInv, StatusIsEarned
  <2>2. CoverageErrors = {}
    BY <2>1 DEF Incomplete, CoverageErrors
  <2>3. \A g \in Listed : Accounted(g)
    BY DEF IInv, VisitedAreAccounted
  <2> QED BY <2>1, <2>2, <2>3, NothingIsMissed
<1> QED BY Invariance, <1>1, PTL

\* A gate that is passed has let through only endpoints of the state, route
\* and file of one the last baseline was made from, whatever happened to code,
\* settings and baseline since, provided the walk can list every directory.
THEOREM GateIsSound ==
  ASSUME Sealed = {}
  PROVE  Spec => []GateHolds
<1>1. IInv => GateHolds
  <2> SUFFICES ASSUME IInv, phase = "done", status = 0, ~command.write, NEW x \in Truth, Serious(x)
               PROVE  command.baseline /\ AcceptedBefore(x)
    BY DEF GateHolds, Done, Serious, AcceptedBefore
  <2>1. PICK f \in Files : /\ ~Ignored(f, config.excludes) /\ Readable(f)
                           /\ \E p \in Supporting(f) : x \in Analyze(p, f, code[f], config.public_paths)
    BY DEF Truth
  <2>2. Relevant(f) /\ Rejected(f) = None
    BY <2>1, RejectedStatus DEF Relevant
  <2>3. CoverageErrors = {}
    BY DEF IInv, StatusIsEarned
  <2>4. \A g \in Listed : Accounted(g)
    BY DEF IInv, VisitedAreAccounted
  <2>5. x \in findings
    BY <2>1, <2>2, <2>3, <2>4, NothingIsMissed
  <2> QED BY <2>5 DEF IInv, StatusIsEarned
<1> QED BY Invariance, <1>1, PTL

\* Exit status 1 means that findings reached --fail-on, provided every document
\* can be decoded (main, _gating_findings).
THEOREM OneMeansFindings ==
  ASSUME Decodable
  PROVE  Spec => []ExitOneMeansFindings
<1>1. IInv => ExitOneMeansFindings
  BY DEF IInv, StatusIsEarned, ExitOneMeansFindings, Done
<1> QED BY Invariance, <1>1, PTL

-----------------------------------------------------------------------------
(* A fresh baseline is quiet *)

\* What is in sight depends on the code and the project file only.
LEMMA SightIsStable ==
  ASSUME UNCHANGED <<code, project>>
  PROVE  /\ PublicPaths' = PublicPaths
         /\ \A excludes : InSight(excludes)' = InSight(excludes)
<1>1. PublicPaths' = PublicPaths
  BY DEF PublicPaths
<1>2. \A f : Readable(f)' = Readable(f)
  BY DEF Readable
<1> QED BY <1>1, <1>2 DEF InSight

\* Public routes are never given on the command line.
LEMMA PublicPathsAreTheProjects ==
  ASSUME NEW c \in Commands
  PROVE  ConfigOf(c).public_paths = PublicPaths
<1>1. "public_paths" \notin DOMAIN c.given
  BY LegacyScanAssumption DEF LegacyScanAssumption
<1>2. "public_paths" \in Setting /\ Default["public_paths"] = {}
  BY DEF Setting, Default
<1> QED BY <1>1, <1>2 DEF ConfigOf, Merged, PublicPaths

\* A command that has just begun has found nothing.
LEMMA BeginInSight ==
  ASSUME IInv, IInv', BaselineInv, NEW c \in Commands, Begin(c)
  PROVE  BaselineInv'
<1>1. /\ phase = "idle" /\ findings = {} /\ gating = {}
      /\ UNCHANGED <<code, project, baseline, accepted, recorded, findings, gating>>
      /\ \/ phase' = "done"
         \/ phase' = "scan" /\ config' = ConfigOf(c) /\ pending' = Listed
  BY DEF Begin, Exit, Traceback, env, IInv, Fresh
<1>2. FindingsAreInSight'
  BY <1>1, SightIsStable, PublicPathsAreTheProjects DEF FindingsAreInSight, Listed
<1>3. RecordedIsAccepted'
  BY <1>1, SightIsStable DEF BaselineInv, RecordedIsAccepted
<1>4. Decodable => BaselineQuiets'
  BY <1>1 DEF IInv, StatusIsEarned, BaselineQuiets, Done
<1> QED BY <1>2, <1>3, <1>4 DEF BaselineInv, Decodable

\* A visit finds what is in sight.
LEMMA VisitInSight ==
  ASSUME IInv, BaselineInv, NEW f \in Files, Visit(f)
  PROVE  BaselineInv'
<1>1. /\ phase = "scan" /\ phase' = "scan" /\ f \in pending /\ pending' = pending \ {f}
      /\ UNCHANGED <<code, project, accepted, recorded, config>>
  BY DEF Visit, env
<1>2. /\ pending \subseteq Listed /\ config.public_paths = PublicPaths
      /\ findings \subseteq InSight(config.excludes)
  BY <1>1 DEF BaselineInv, FindingsAreInSight
<1>3. findings' \subseteq InSight(config.excludes)
  <2>1. CASE findings' = findings
    BY <1>2, <2>1
  <2>2. CASE /\ Rejected(f) = None
             /\ \E failing \in SUBSET Supporting(f) : findings' = findings \cup
                  UNION {Analyze(p, f, code[f], config.public_paths) : p \in Supporting(f) \ failing}
    <3> SUFFICES ASSUME NEW x \in findings', x \notin findings PROVE x \in InSight(config.excludes)
      BY <1>2
    <3>1. PICK p \in Supporting(f) : x \in Analyze(p, f, code[f], PublicPaths)
      BY <1>2, <2>2
    <3>2. None \notin {"EXCLUDED", "UNSUPPORTED", "SKIPPED"}
      BY LegacyScanAssumption DEF LegacyScanAssumption, Statuses
    <3>3. ~Ignored(f, config.excludes) /\ Readable(f)
      <4>1. Supporting(f) # {}
        BY <3>1
      <4> QED BY <2>2, <3>2, <4>1 DEF Rejected
    <3>4. f \in {g \in Listed : ~Ignored(g, config.excludes) /\ Readable(g)}
      BY <1>1, <1>2, <3>3
    <3> QED BY <3>1, <3>4 DEF InSight
  <2> QED BY <2>1, <2>2 DEF Visit
<1>4. FindingsAreInSight'
  BY <1>1, <1>2, <1>3, SightIsStable DEF FindingsAreInSight, Listed
<1>5. RecordedIsAccepted'
  BY <1>1, SightIsStable DEF BaselineInv, RecordedIsAccepted
<1>6. BaselineQuiets'
  BY <1>1 DEF BaselineQuiets, Done
<1> QED BY <1>4, <1>5, <1>6 DEF BaselineInv, Decodable

\* A baseline made from all that is in sight leaves a gate nothing to fail on.
LEMMA GateIsQuiet ==
  ASSUME IInv, BaselineInv, Gate, Decodable,
         phase' = "done", command.baseline, baseline.form = "good", recorded = config.excludes
  PROVE  status' # 1
<1>1. phase = "gate"
  BY DEF Gate
<1>2. ASSUME NEW prints, GatingFindings(prints) = {}, Judge(prints)
      PROVE  status' # 1
  BY <1>2 DEF Judge, Exit, ExitCode
<1>3. CASE config.fail_on = None
  <2>1. GatingFindings({}) = {}
    BY <1>3 DEF GatingFindings, TripsGate
  <2>2. Judge({})
    BY <1>3 DEF Gate
  <2> QED BY <1>2, <2>1, <2>2
<1>4. CASE config.fail_on # None
  <2>1. Judge(baseline.prints) \/ status' = 2
    BY <1>4 DEF Gate, Exit
  <2>2. GatingFindings(baseline.prints) = {}
    <3> SUFFICES ASSUME NEW f \in findings, ~f.suppressed PROVE Fingerprint(f) \in baseline.prints
      BY DEF GatingFindings, SortedFindings
    <3>1. recorded # None
      BY LegacyScanAssumption DEF LegacyScanAssumption, IInv, TypeOK
    <3>2. f \in InSight(recorded)
      BY <1>1 DEF BaselineInv, FindingsAreInSight
    <3>3. f \in accepted
      BY <3>1, <3>2 DEF BaselineInv, RecordedIsAccepted
    <3>4. baseline.prints = {Fingerprint(g) : g \in accepted}
      BY DEF IInv, BaselineIsAccepted
    <3> QED BY <3>3, <3>4
  <2> QED BY <1>2, <2>1, <2>2
<1> QED BY <1>3, <1>4

\* A gate reads the findings and changes none.
LEMMA GateInSight ==
  ASSUME IInv, BaselineInv, Gate
  PROVE  BaselineInv'
<1>1. /\ phase = "gate"
      /\ UNCHANGED <<code, project, baseline, accepted, recorded, command, config, pending, findings>>
  BY DEF Gate, env, scan
<1>2. FindingsAreInSight'
  BY <1>1, SightIsStable DEF BaselineInv, FindingsAreInSight, Listed
<1>3. RecordedIsAccepted'
  BY <1>1, SightIsStable DEF BaselineInv, RecordedIsAccepted
<1>4. Decodable => BaselineQuiets'
  BY <1>1, GateIsQuiet DEF BaselineQuiets, Done
<1> QED BY <1>2, <1>3, <1>4 DEF BaselineInv, Decodable

\* A baseline is made from a complete scan: from everything in sight.
LEMMA WriteBaselineInSight ==
  ASSUME IInv, BaselineInv, WriteBaseline
  PROVE  BaselineInv'
<1>1. /\ phase = "write" /\ phase' = "done" /\ pending = {}
      /\ UNCHANGED <<code, project, command, config, pending, findings>>
  BY DEF WriteBaseline, IInv, WalkIsOver, Exit, scan
<1>2. status' # 1 /\ (UNCHANGED <<accepted, recorded>> \/
                       (/\ Incomplete = {} /\ recorded' = config.excludes
                        /\ accepted' = {f \in findings : ~f.suppressed}))
  BY DEF WriteBaseline, Exit
<1>3. ASSUME Incomplete = {} PROVE InSight(config.excludes) \subseteq findings
  <2> SUFFICES ASSUME NEW x \in InSight(config.excludes) PROVE x \in findings
    OBVIOUS
  <2>1. PICK f \in Listed : /\ ~Ignored(f, config.excludes) /\ Readable(f)
                            /\ \E p \in Supporting(f) : x \in Analyze(p, f, code[f], PublicPaths)
    BY DEF InSight
  <2>2. Relevant(f) /\ Rejected(f) = None
    BY <2>1, RejectedStatus DEF Relevant
  <2>3. Accounted(f)
    BY <1>1 DEF IInv, VisitedAreAccounted
  <2>4. Record(f, "ERROR") \notin coverage
    BY <1>3 DEF Incomplete, Record
  <2>5. config.public_paths = PublicPaths
    BY <1>1 DEF BaselineInv, FindingsAreInSight
  <2> QED BY <2>1, <2>2, <2>3, <2>4, <2>5 DEF Accounted
<1>4. RecordedIsAccepted'
  <2>1. CASE UNCHANGED <<accepted, recorded>>
    BY <1>1, <2>1, SightIsStable DEF BaselineInv, RecordedIsAccepted
  <2>2. CASE /\ Incomplete = {} /\ recorded' = config.excludes
             /\ accepted' = {f \in findings : ~f.suppressed}
    BY <1>1, <1>3, <2>2, SightIsStable DEF RecordedIsAccepted
  <2> QED BY <1>2, <2>1, <2>2
<1>5. FindingsAreInSight' /\ BaselineQuiets'
  BY <1>1, <1>2 DEF FindingsAreInSight, BaselineQuiets, Done
<1> QED BY <1>4, <1>5 DEF BaselineInv, Decodable

\* What people do between commands, the end of a command, and the report.
LEMMA OtherInSight ==
  ASSUME IInv, BaselineInv,
         \/ \E f \in Files : \E c \in Contents(f) : Edit(f, c)
         \/ \E s \in ProjectFiles : Configure(s)
         \/ \E d \in Damages : Damage(d)
         \/ Clear \/ Report
  PROVE  BaselineInv'
<1>1. CASE \/ \E f \in Files : \E c \in Contents(f) : Edit(f, c)
           \/ \E s \in ProjectFiles : Configure(s)
  <2>1. phase' = "idle" /\ recorded' = None
    BY <1>1 DEF Edit, Configure
  <2> QED BY <2>1 DEF BaselineInv, FindingsAreInSight, RecordedIsAccepted, BaselineQuiets, Done, Decodable
<1>2. CASE (\E d \in Damages : Damage(d)) \/ Clear
  <2>1. phase' = "idle" /\ UNCHANGED <<code, project, accepted, recorded>>
    BY <1>2 DEF Damage, Clear, env
  <2>2. RecordedIsAccepted'
    BY <2>1, SightIsStable DEF BaselineInv, RecordedIsAccepted
  <2> QED BY <2>1, <2>2 DEF BaselineInv, FindingsAreInSight, BaselineQuiets, Done, Decodable
<1>3. CASE Report
  <2>1. /\ phase = "scan" /\ (phase' = "gate" \/ (phase' = "done" /\ status' = 2))
        /\ UNCHANGED <<code, project, accepted, recorded, config, pending, findings>>
    BY <1>3 DEF Report, Scanned, Exit, env, scan
  <2>2. RecordedIsAccepted' /\ FindingsAreInSight'
    BY <2>1, SightIsStable DEF BaselineInv, RecordedIsAccepted, FindingsAreInSight, Listed
  <2> QED BY <2>1, <2>2 DEF BaselineInv, BaselineQuiets, Done, Decodable
<1> QED BY <1>1, <1>2, <1>3

\* While code and settings stay as they are, a gate that reads the baseline just
\* written, with the same excludes, never fails for findings, whatever the tree,
\* the packs and the threshold, provided every document can be decoded
\* (build_baseline and _gating_findings over two commands).
THEOREM FreshBaselineIsQuiet ==
  ASSUME Decodable
  PROVE  Spec => []BaselineQuiets
<1>1. Init => BaselineInv
  BY DEF Init, BaselineInv, FindingsAreInSight, RecordedIsAccepted, BaselineQuiets, Done
<1>2. IInv /\ IInv' /\ BaselineInv /\ [Next]_vars => BaselineInv'
  <2> SUFFICES ASSUME IInv, IInv', BaselineInv, [Next]_vars PROVE BaselineInv'
    OBVIOUS
  <2>1. ASSUME NEW c \in Commands, Begin(c) PROVE BaselineInv'
    BY <2>1, BeginInSight
  <2>2. ASSUME NEW f \in Files, Visit(f) PROVE BaselineInv'
    BY <2>2, VisitInSight
  <2>3. CASE Gate
    BY <2>3, GateInSight
  <2>4. CASE WriteBaseline
    BY <2>4, WriteBaselineInSight
  <2>5. CASE UNCHANGED vars
    <3>1. UNCHANGED <<code, project, baseline, accepted, recorded, phase, command, config, pending,
                      findings, status>>
      BY <2>5 DEF vars, env, scan
    <3>2. RecordedIsAccepted' /\ FindingsAreInSight'
      BY <3>1, SightIsStable DEF BaselineInv, RecordedIsAccepted, FindingsAreInSight, Listed
    <3> QED BY <3>1, <3>2 DEF BaselineInv, BaselineQuiets, Done, Decodable
  <2> QED BY <2>1, <2>2, <2>3, <2>4, <2>5, OtherInSight DEF Next
<1>3. BaselineInv => BaselineQuiets
  BY DEF BaselineInv
<1> QED BY <1>1, <1>2, <1>3, Invariance, PTL DEF Spec
=============================================================================
