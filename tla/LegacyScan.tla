----------------------------- MODULE LegacyScan ------------------------------
(***************************************************************************)
(* The legacy command: settings merged with .authmap.json (app/config.py), *)
(* one scan (core/engine.py, core/walker.py, core/regex_analyzer.py,       *)
(* core/classifier.py), the report, the gate with its accepted baseline    *)
(* (app/runner.py, app/baseline.py) and the exit status (cli.py), command  *)
(* after command while people edit the code, the settings and the baseline.*)
(*                                                                         *)
(* A route stands for a method and a path, and a set of public routes is   *)
(* closed under path segments.  A fingerprint is the triple it hashes.     *)
(* A command reads settings and files that do not change under it.  The    *)
(* experimental AST analyzer is off.                                       *)
(***************************************************************************)
EXTENDS Naturals, Sequences

CONSTANTS
  None,            \* no value
  Files,           \* the files below the project root
  Dirs,            \* directory names
  DirsOf(_),       \* the directories above a file
  Sealed,          \* directories the scan cannot list
  Eligible,        \* files with the suffix of a source language
  IgnoreFile,      \* files .authmapignore (or a default exclusion) names
  Packs,           \* rule packs: [files, model, exempt]
  Contents(_),     \* what a file may hold: [readable, guard, lines]
  ProjectFiles,    \* what .authmap.json may be
  Commands,        \* the command lines: [given, baseline, write, report, packs],
                   \* packs being the documents --rulepacks adds to Packs
  Damages          \* what may happen to the baseline file

Setting   == {"excludes", "fail_on", "min_confidence", "public_paths", "strict_coverage"}
\* A document is read (good), or it is missing, or its reader refuses it, or
\* it raises what its reader does not catch: bytes that are not UTF-8, a pack's
\* pattern that does not compile.
Unusable  == {"absent", "malformed", "undecodable"}

States      == {"PROTECTED", "EXPOSED", "UNKNOWN", "PUBLIC"}
Severities  == {"INFO", "LOW", "MEDIUM", "HIGH", "CRITICAL"}
Confidences == {"low", "medium", "high"}
Statuses    == {"ANALYZED", "EXCLUDED", "UNSUPPORTED", "SKIPPED", "ERROR"}

\* Settings are refused otherwise.
ValidSettings(s) ==
  /\ DOMAIN s \subseteq Setting
  /\ "excludes" \in DOMAIN s => s.excludes \subseteq Dirs
  /\ "min_confidence" \in DOMAIN s => s.min_confidence \in Confidences
  /\ "strict_coverage" \in DOMAIN s => s.strict_coverage \in BOOLEAN
  /\ "fail_on" \in DOMAIN s => s.fail_on \in {"EXPOSED", "UNKNOWN"} \cup Severities

ASSUME LegacyScanAssumption ==
  /\ None \notin Statuses \cup {"EXPOSED", "UNKNOWN"} \cup Severities
  /\ None \notin {0, 1, 2}
  /\ \A D \in SUBSET Dirs : None # D
  /\ \A f \in Files : DirsOf(f) \subseteq Dirs
  /\ Damages \subseteq Unusable
  /\ \A s \in ProjectFiles : /\ s.form \in Unusable \cup {"good"}
                             /\ ValidSettings(s.settings)
                             /\ s.form # "good" => DOMAIN s.settings = {}
  /\ \A p \in Packs : p.files \subseteq Files
  /\ \A c \in Commands : /\ ValidSettings(c.given) /\ "public_paths" \notin DOMAIN c.given
                         /\ \A i \in DOMAIN c.packs : c.packs[i] \in {"good", "malformed", "undecodable"}

VARIABLES
  code,         \* the files' contents
  project,      \* .authmap.json: [form, settings]
  baseline,     \* the baseline file: [form, prints]
  phase,        \* where the command is
  command,      \* its arguments
  config,       \* its settings, merged
  pending,      \* files the walker has not come to
  findings, errors, coverage,   \* the ScanResult
  gating,       \* findings that fail the run
  status,       \* the exit status, None while it runs
  accepted,     \* history: what the last baseline written was made from
  recorded      \* history: the excludes it was written under, None once
                \* the code or the settings changed

env  == <<code, project, baseline, accepted, recorded>>
scan == <<pending, findings, errors, coverage>>
vars == <<env, phase, command, config, scan, gating, status>>

-----------------------------------------------------------------------------
(* Settings: what the command line gives, then the project file's, then the
   default. *)

Default == [excludes |-> {}, fail_on |-> None, min_confidence |-> "medium",
            public_paths |-> {}, strict_coverage |-> FALSE]

Merged(given, file) ==
  [s \in Setting |-> IF s \in DOMAIN given THEN given[s]
                     ELSE IF s \in DOMAIN file THEN file[s]
                     ELSE Default[s]]

-----------------------------------------------------------------------------
(* Classification of one endpoint *)

\* Endpoints one pack finds in a file, with the confidence of the discovery.
Endpoints(p, f, c) ==
  IF p.model = "file"
  THEN {[line |-> 1, route |-> f, confidence |-> "medium"]}
  ELSE {[line |-> i, route |-> c.lines[i].route, confidence |-> "high"]
          : i \in {j \in DOMAIN c.lines : c.lines[j].route # None}}

FileScopeGuard(c) == c.guard

SameLineGuard(e, c) == e.line \in DOMAIN c.lines /\ c.lines[e.line].guard

EffectiveConfidence(p, e, c) ==
  CASE SameLineGuard(e, c) -> "high"
    [] ~SameLineGuard(e, c) /\ FileScopeGuard(c) -> IF p.model = "file" THEN e.confidence ELSE "medium"
    [] OTHER -> e.confidence

ClassifyState(guarded, confidence, public) ==
  CASE public                            -> "PUBLIC"
    [] ~public /\ guarded                -> "PROTECTED"
    [] ~public /\ ~guarded /\ confidence = "high" -> "EXPOSED"
    [] OTHER                             -> "UNKNOWN"

LooksPublic(route, p, public) == route \in p.exempt \cup public

\* authmap:ignore on the endpoint's line or the one above it.
Suppressed(e, c) == \E i \in {e.line - 1, e.line} \cap DOMAIN c.lines : c.lines[i].muted

Classify(p, f, c, e, public) ==
  LET confidence == EffectiveConfidence(p, e, c)
  IN  [file |-> f, line |-> e.line, route |-> e.route, confidence |-> confidence,
       state |-> ClassifyState(SameLineGuard(e, c), confidence, LooksPublic(e.route, p, public)),
       suppressed |-> Suppressed(e, c)]

Analyze(p, f, c, public) == {Classify(p, f, c, e, public) : e \in Endpoints(p, f, c)}

\* Ranks of severity and confidence; the severity of a finding.
Severity(finding) ==
  CASE finding.state = "EXPOSED" -> IF finding.confidence = "high" THEN "CRITICAL" ELSE "HIGH"
    [] finding.state = "UNKNOWN" -> "MEDIUM"
    [] OTHER                     -> "INFO"
SeverityRank == [INFO |-> 0, LOW |-> 1, MEDIUM |-> 2, HIGH |-> 3, CRITICAL |-> 4]
ConfidenceRank == [low |-> 0, medium |-> 1, high |-> 2]

-----------------------------------------------------------------------------
(* The walk *)

Supporting(f) == {p \in Packs : f \in p.files}
Ignored(f, excludes) == f \in IgnoreFile \/ DirsOf(f) \cap excludes # {}
\* A directory that cannot be listed is passed over.
Listed == {f \in Files : DirsOf(f) \cap Sealed = {}}
Relevant(f) == f \in Eligible \/ Supporting(f) # {}

\* read_text_safely gives the text: not too large, not binary, not refused.
Readable(f) == code[f].readable

Record(f, s) == [file |-> f, status |-> s]
Rejected(f) ==
  CASE Ignored(f, config.excludes)                                -> "EXCLUDED"
    [] ~Ignored(f, config.excludes) /\ Supporting(f) = {}         -> "UNSUPPORTED"
    [] ~Ignored(f, config.excludes) /\ Supporting(f) # {} /\ ~Readable(f) -> "SKIPPED"
    [] OTHER                                                      -> None

\* Faulty variant: what could not be read is not missing.
IncompleteWithoutSkipped == {r \in coverage : r.status \in {"UNSUPPORTED", "ERROR"}}

Incomplete     == {r \in coverage : r.status \in {"UNSUPPORTED", "SKIPPED", "ERROR"}}
CoverageErrors == {r \in coverage : r.status = "ERROR"}

-----------------------------------------------------------------------------
(* The gate *)

\* Faulty variant: an endpoint is known whatever its state was.
StatelessFingerprint(f) == <<f.route, f.file>>

Fingerprint(f) == <<f.state, f.route, f.file>>
SortedFindings == {f \in findings : ~f.suppressed}

\* A threshold is a state or a severity.
ByState(threshold) == threshold \in {"EXPOSED", "UNKNOWN"}

TripsGate(f, threshold) ==
  /\ threshold # None
  /\ IF ByState(threshold)
     THEN f.state = "EXPOSED" \/ (f.state = "UNKNOWN" /\ threshold = "UNKNOWN")
     ELSE SeverityRank[Severity(f)] >= SeverityRank[threshold]

GatingFindings(prints) ==
  {f \in SortedFindings :
     /\ ConfidenceRank[f.confidence] >= ConfidenceRank[config.min_confidence]
     /\ Fingerprint(f) \notin prints
     /\ TripsGate(f, config.fail_on)}

\* Faulty variant: an incomplete analysis is a failed gate.
BluntExitCode(failing) == IF errors # {} \/ Incomplete # {} \/ failing # {} THEN 1 ELSE 0

ExitCode(failing) ==
  IF \/ errors # {} \/ CoverageErrors # {}
     \/ config.strict_coverage /\ Incomplete # {}
  THEN 2 ELSE IF failing # {} THEN 1 ELSE 0

-----------------------------------------------------------------------------
(* The command *)

\* parser.error: a baseline is written without a gate.
ValidArgs(c) == c.write => ~c.baseline /\ "fail_on" \notin DOMAIN c.given

Broken(form) == [form |-> form, prints |-> {}]

\* .authmap.json may be missing.
ProjectOutcome == IF project.form = "absent" THEN "good" ELSE project.form

\* Packs are loaded one by one, up to the first bad one.
PacksYield(c, outcome) ==
  IF outcome = "good" THEN \A i \in DOMAIN c.packs : c.packs[i] = "good"
  ELSE \E i \in DOMAIN c.packs : c.packs[i] = outcome /\ \A j \in 1 .. (i - 1) : c.packs[j] = "good"

\* The project file is read before the packs.
Yields(c, outcome) == IF ProjectOutcome # "good" THEN outcome = ProjectOutcome
                                                 ELSE PacksYield(c, outcome)

ConfigOf(c) == Merged(c.given, project.settings)

Init ==
  /\ code \in {c \in [Files -> UNION {Contents(f) : f \in Files}] : \A f \in Files : c[f] \in Contents(f)}
  /\ project \in ProjectFiles
  /\ baseline = Broken("absent")
  /\ accepted = {} /\ recorded = None
  /\ phase = "idle" /\ command = None /\ config = Default
  /\ pending = {} /\ findings = {} /\ errors = {} /\ coverage = {}
  /\ gating = {} /\ status = None

\* The process ends: main returns, or an exception nobody catches makes
\* the interpreter exit with 1.
Exit(n) == phase' = "done" /\ status' = n
Traceback == Exit(1)

\* _validate_args, _build_config, then _load_rulepacks, then the walker's start.
Begin(c) ==
  /\ phase = "idle"
  /\ command' = c
  /\ \/ /\ ~ValidArgs(c) \/ Yields(c, "malformed")
        /\ Exit(2)
        /\ UNCHANGED <<config, pending>>
     \/ /\ ValidArgs(c) /\ Yields(c, "undecodable")
        /\ Traceback
        /\ UNCHANGED <<config, pending>>
     \/ /\ ValidArgs(c) /\ Yields(c, "good")
        /\ config' = ConfigOf(c)
        /\ pending' = Listed
        /\ phase' = "scan" /\ UNCHANGED status
  /\ UNCHANGED <<env, findings, errors, coverage, gating>>

\* Faulty variant: a file counts as analyzed whichever pack failed on it.
VisitRegardless(f) ==
  /\ phase = "scan" /\ f \in pending
  /\ pending' = pending \ {f}
  /\ IF ~Relevant(f) THEN UNCHANGED <<findings, errors, coverage>>
     ELSE IF Rejected(f) # None
          THEN coverage' = coverage \cup {Record(f, Rejected(f))} /\ UNCHANGED <<findings, errors>>
          ELSE \E failing \in SUBSET Supporting(f) :
                 /\ findings' = findings \cup
                      UNION {Analyze(p, f, code[f], config.public_paths) : p \in Supporting(f) \ failing}
                 /\ errors' = errors \cup {[file |-> f, pack |-> p.name] : p \in failing}
                 /\ coverage' = coverage \cup {Record(f, "ANALYZED")}
  /\ UNCHANGED <<env, phase, command, config, gating, status>>

\* The walker comes to f.  Any of the packs may fail on it (a pattern that
\* takes too long, a worker that dies); the others' findings stay.
Visit(f) ==
  /\ phase = "scan" /\ f \in pending
  /\ pending' = pending \ {f}
  /\ \/ /\ ~Relevant(f)
        /\ UNCHANGED <<findings, errors, coverage>>
     \/ /\ Relevant(f) /\ Rejected(f) # None
        /\ coverage' = coverage \cup {Record(f, Rejected(f))}
        /\ UNCHANGED <<findings, errors>>
     \/ /\ Relevant(f) /\ Rejected(f) = None
        /\ \E failing \in SUBSET Supporting(f) :
             /\ findings' = findings \cup
                  UNION {Analyze(p, f, code[f], config.public_paths) : p \in Supporting(f) \ failing}
             /\ errors' = errors \cup {[file |-> f, pack |-> p.name] : p \in failing}
             /\ coverage' = coverage \cup {Record(f, IF failing = {} THEN "ANALYZED" ELSE "ERROR")}
  /\ UNCHANGED <<env, phase, command, config, gating, status>>

Scanned == phase = "scan" /\ pending = {}

\* The report is written before anything is gated, and may fail to be.
Report ==
  /\ Scanned
  /\ \/ phase' = "gate" /\ UNCHANGED status
     \/ command.report /\ Exit(2)
  /\ UNCHANGED <<env, command, config, scan, gating>>

\* _gating_findings and _exit_code.  The baseline is read only when there is
\* a gate; --write-baseline disregards the exit code.
Judge(prints) ==
  /\ gating' = GatingFindings(prints)
  /\ IF command.write THEN phase' = "write" /\ UNCHANGED status
                      ELSE Exit(ExitCode(GatingFindings(prints)))

Gate ==
  /\ phase = "gate"
  /\ IF config.fail_on = None \/ ~command.baseline
     THEN Judge({})
     ELSE \/ baseline.form \in {"absent", "malformed"} /\ Exit(2) /\ UNCHANGED gating
          \/ baseline.form = "undecodable" /\ Traceback /\ UNCHANGED gating
          \/ baseline.form = "good" /\ Judge(baseline.prints)
  /\ UNCHANGED <<env, command, config, scan>>

\* Faulty variant: an incomplete scan makes a baseline too.
WriteBaselineAnyway ==
  /\ phase = "write" /\ Exit(0)
  /\ baseline' = [form |-> "good", prints |-> {Fingerprint(f) : f \in SortedFindings}]
  /\ accepted' = SortedFindings
  /\ recorded' = config.excludes
  /\ UNCHANGED <<code, project, command, config, scan, gating>>

\* build_baseline and write_text.  A write that fails, or a command killed
\* in the middle of it, leaves the file as it was or cut short.
WriteBaseline ==
  /\ phase = "write"
  /\ \/ /\ Incomplete # {} /\ Exit(2)
        /\ UNCHANGED <<baseline, accepted, recorded>>
     \/ /\ Incomplete = {} /\ Exit(0)
        /\ baseline' = [form |-> "good", prints |-> {Fingerprint(f) : f \in SortedFindings}]
        /\ accepted' = {f \in findings : ~f.suppressed}
        /\ recorded' = config.excludes
     \/ /\ Incomplete = {} /\ Exit(2)
        /\ baseline' \in {baseline, Broken("malformed")}
        /\ UNCHANGED <<accepted, recorded>>
  /\ UNCHANGED <<code, project, command, config, scan, gating>>

\* The next command starts from nothing.
Clear ==
  /\ phase = "done"
  /\ phase' = "idle" /\ command' = None /\ config' = Default
  /\ pending' = {} /\ findings' = {} /\ errors' = {} /\ coverage' = {}
  /\ gating' = {} /\ status' = None
  /\ UNCHANGED env

-----------------------------------------------------------------------------
(* People, between commands *)

Edit(f, c) ==
  /\ phase = "idle" /\ c # code[f]
  /\ code' = [code EXCEPT ![f] = c]
  /\ recorded' = None
  /\ UNCHANGED <<project, baseline, accepted, phase, command, config, scan, gating, status>>

Configure(s) ==
  /\ phase = "idle" /\ s # project
  /\ project' = s
  /\ recorded' = None
  /\ UNCHANGED <<code, baseline, accepted, phase, command, config, scan, gating, status>>

Damage(d) ==
  /\ phase = "idle" /\ baseline.form # d
  /\ baseline' = Broken(d)
  /\ UNCHANGED <<code, project, accepted, recorded, phase, command, config, scan, gating, status>>

Next ==
  \/ \E c \in Commands : Begin(c)
  \/ \E f \in Files : Visit(f)
  \/ Report \/ Gate \/ WriteBaseline \/ Clear
  \/ \E f \in Files : \E c \in Contents(f) : Edit(f, c)
  \/ \E s \in ProjectFiles : Configure(s)
  \/ \E d \in Damages : Damage(d)

Spec == Init /\ [][Next]_vars

-----------------------------------------------------------------------------
(* Properties *)

TypeOK ==
  /\ code \in [Files -> UNION {Contents(f) : f \in Files}]
  /\ \A f \in Files : code[f] \in Contents(f)
  /\ project \in ProjectFiles
  /\ baseline.form \in Unusable \cup {"good"}
  /\ phase \in {"idle", "scan", "gate", "write", "done"}
  /\ command \in Commands \cup {None}
  /\ config.min_confidence \in Confidences
  /\ config.excludes \subseteq Dirs /\ config.strict_coverage \in BOOLEAN
  /\ pending \subseteq Files
  /\ \A f \in findings : f.state \in States /\ f.confidence \in Confidences /\ f.file \in Files
  /\ gating \subseteq findings
  /\ \A e \in errors : e.file \in Files
  /\ \A r \in coverage : r.file \in Files /\ r.status \in Statuses
  /\ status \in {0, 1, 2, None}

Done == phase = "done"

\* What an analysis of everything in sight would find.
Truth == UNION {UNION {Analyze(p, f, code[f], config.public_paths) : p \in Supporting(f)}
                  : f \in {g \in Files : ~Ignored(g, config.excludes) /\ Readable(g)}}

\* An analysis in which some pack failed on some file never ends in success,
\* neither for the gate nor for a baseline (Engine.scan, _exit_code, main).
PartialScanNeverPasses == Done /\ errors # {} => status # 0

\* With --strict-coverage, or when a baseline is made, every relevant file
\* that policy does not exclude was analyzed by every pack that supports it,
\* or the command ends with 2.
StrictCoverageIsComplete ==
  Done /\ status # 2 /\ (config.strict_coverage \/ command.write) =>
    \A f \in Files : Relevant(f) /\ ~Ignored(f, config.excludes) =>
      /\ Record(f, "ANALYZED") \in coverage
      /\ \A p \in Supporting(f) : Analyze(p, f, code[f], config.public_paths) \subseteq findings

\* A gate that is passed has let through only what the last baseline was made
\* from: every other finding at or above the thresholds would have failed it,
\* however findings were suppressed, changed state or were baselined before.
GateHolds ==
  Done /\ status = 0 /\ ~command.write =>
    \A f \in Truth :
      /\ ~f.suppressed
      /\ ConfidenceRank[f.confidence] >= ConfidenceRank[config.min_confidence]
      /\ TripsGate(f, config.fail_on)
      => /\ command.baseline
         /\ \E g \in accepted : g.state = f.state /\ g.route = f.route /\ g.file = f.file

\* While neither code nor settings change, a command that reads the baseline
\* just written never fails for findings, whichever threshold it asks for.
BaselineQuiets ==
  Done /\ command.baseline /\ baseline.form = "good" /\ recorded = config.excludes => status # 1

\* The thresholds by state and by severity are the same gates, and no endpoint
\* falls between them (classify_state, severity_for, _effective_confidence and
\* _trips_gate together).
GatesAgree ==
  \A f \in findings : \A pair \in {<<"EXPOSED", "CRITICAL">>, <<"EXPOSED", "HIGH">>,
                                   <<"UNKNOWN", "MEDIUM">>, <<"UNKNOWN", "LOW">>} :
    TripsGate(f, pair[1]) = TripsGate(f, pair[2])

\* Exit status 1 says that there are findings at or above --fail-on.
ExitOneMeansFindings == Done /\ status = 1 => gating # {}

-----------------------------------------------------------------------------
(* The inductive invariant behind the safety properties *)

\* Every document is good, missing or refused by its reader.
Decodable ==
  /\ "undecodable" \notin Damages
  /\ \A s \in ProjectFiles : s.form # "undecodable"
  /\ \A c \in Commands : \A i \in DOMAIN c.packs : c.packs[i] # "undecodable"

\* What is left of a command when the next one begins.
Fresh == phase = "idle" => /\ findings = {} /\ errors = {} /\ coverage = {}
                           /\ gating = {} /\ status = None

\* Analyze and Classify bound what a finding can be.
FindingsAreClassified ==
  \A f \in findings : f.state = "EXPOSED" => f.confidence = "high"

WalkIsOver     == phase \in {"idle", "gate", "write", "done"} => pending = {}
WriteIsAsked   == phase = "write" => command.write

\* A file on which a pack failed is recorded as such.
ErrorsAreCovered == \A e \in errors : Record(e.file, "ERROR") \in coverage

\* What a visit leaves of a file.
Accounted(f) ==
  Relevant(f) =>
    IF Rejected(f) # None THEN Record(f, Rejected(f)) \in coverage
    ELSE \/ Record(f, "ERROR") \in coverage
         \/ /\ Record(f, "ANALYZED") \in coverage
            /\ \A p \in Supporting(f) : Analyze(p, f, code[f], config.public_paths) \subseteq findings

\* No file the walker has passed is lost.  (Commands that end before the walk
\* end with 2, or with 1 if a document cannot be decoded.)
VisitedAreAccounted ==
  /\ phase \in {"scan", "gate", "write"} => \A f \in Listed \ pending : Accounted(f)
  /\ phase = "done" /\ (status = 0 \/ (Decodable /\ status # 2)) => \A f \in Listed : Accounted(f)

\* The baseline is the one written last, or none that can be used.
BaselineIsAccepted ==
  /\ baseline.form = "good" => baseline.prints = {Fingerprint(f) : f \in accepted}
  /\ Decodable => baseline.form # "undecodable"

\* Findings the gate would fail on.
Serious(f) ==
  /\ ~f.suppressed
  /\ ConfidenceRank[f.confidence] >= ConfidenceRank[config.min_confidence]
  /\ TripsGate(f, config.fail_on)
AcceptedBefore(f) == \E g \in accepted : g.state = f.state /\ g.route = f.route /\ g.file = f.file

\* What the exit status of a command says of its scan.
StatusIsEarned ==
  phase = "done" =>
    /\ status = 0 => errors = {} /\ CoverageErrors = {}
    /\ status = 0 /\ ~command.write =>
         \A f \in findings : Serious(f) => command.baseline /\ AcceptedBefore(f)
    /\ Decodable /\ status # 2 /\ (config.strict_coverage \/ command.write) => Incomplete = {}
    /\ Decodable /\ status = 1 => gating # {}

IInv == /\ TypeOK
        /\ Fresh
        /\ FindingsAreClassified
        /\ WalkIsOver
        /\ WriteIsAsked
        /\ ErrorsAreCovered
        /\ VisitedAreAccounted
        /\ BaselineIsAccepted
        /\ StatusIsEarned

-----------------------------------------------------------------------------
(* What makes a fresh baseline quiet *)

\* The routes declared public, which only the project file can do.
PublicPaths == IF "public_paths" \in DOMAIN project.settings THEN project.settings.public_paths ELSE {}

\* Everything a scan can find under these excludes.
InSight(excludes) ==
  UNION {UNION {Analyze(p, f, code[f], PublicPaths) : p \in Supporting(f)}
           : f \in {g \in Listed : ~Ignored(g, excludes) /\ Readable(g)}}

\* A scan under way finds nothing else.
FindingsAreInSight ==
  phase \in {"scan", "gate", "write"} => /\ pending \subseteq Listed
                                        /\ config.public_paths = PublicPaths
                                        /\ findings \subseteq InSight(config.excludes)

\* While neither code nor settings change, the baseline was made from all of it.
RecordedIsAccepted ==
  recorded # None => {f \in InSight(recorded) : ~f.suppressed} \subseteq accepted

\* Inductive together with IInv.
BaselineInv == /\ FindingsAreInSight
               /\ RecordedIsAccepted
               /\ Decodable => BaselineQuiets
=============================================================================
