----------------------------- MODULE EvidenceGate -----------------------------
(***************************************************************************)
(* The evidence gate: evaluate_evidence_policy (core/v2/policy.py),        *)
(* apply_evidence_exceptions (core/v2/exceptions.py), classify_gate_exit   *)
(* (app/evidence_gate.py), in the order the command line runs them         *)
(* (cli.py), over days on which people edit the exception document and the *)
(* scanned code changes.                                                   *)
(*                                                                         *)
(* A report is [graph, capabilities].  The graph is one of EvidenceGraph,  *)
(* whose provenance records name an adapter as well; an adapter stands for *)
(* its id and version.  An exception's method, path and fingerprint stand  *)
(* as one pair <<kind, path>>; a date is a number of days.                 *)
(***************************************************************************)
EXTENDS EvidenceGraph

CONSTANTS
  Reports,            \* what scans of the code may report
  Policies,           \* the policies a project may use
  ExceptionOptions,   \* the exceptions people may grant
  MaxDay, MaxExceptions    \* bounds on the days and on the document

\* A policy is refused otherwise: it requires something, no capability twice,
\* and never the maturity "unavailable".
ValidPolicy(p) ==
  /\ p.requirements # {}
  /\ \A r \in p.requirements : r.minimum \in {"experimental", "verified"}
  /\ \A r, q \in p.requirements :
       r.id = q.id \/ (r.adapter = q.adapter /\ r.capability = q.capability) => r = q

\* A report is refused otherwise: its graph is validated again, and it names
\* no capability twice.
ValidReport(r) ==
  /\ Valid(r.graph)
  /\ \A c, d \in r.capabilities : c.adapter = d.adapter /\ c.capability = d.capability => c = d

\* A scan runs one adapter (run_adapter_evidence_scan), and a coverage record
\* is about one of the four capabilities (CoverageRecord).
OneAdapter(r) ==
  /\ \A p, q \in r.graph.provenance : p.adapter = q.adapter
  /\ \A c \in r.graph.coverage : c.capability \in Capability

ASSUME OneAdapterAssumption == \A r \in Reports : OneAdapter(r)

ASSUME EvidenceGateAssumption ==
  /\ MaxDay \in Nat /\ MaxExceptions \in Nat
  /\ None \notin Nat
  /\ \A r \in Reports : ValidReport(r)
  /\ \A p \in Policies : ValidPolicy(p)
  /\ \A x \in ExceptionOptions :
       x.id \in Nat /\ x.created \in Nat /\ {x.expires, x.review} \subseteq Nat \cup {None}

VARIABLES
  today,        \* the calendar
  document,     \* the exceptions in the file
  phase,        \* where the command is
  report, policy,
  violations,   \* gate.violations before the audit
  loaded,       \* the exceptions read from the file
  now,          \* the date the audit uses
  remaining,    \* violations not suppressed yet
  audit,        \* id |-> [state, issue] of the exceptions examined
  exit,         \* the exit class so far
  previous      \* history: the finished run this one repeats, or None

runVars == <<report, policy, violations, loaded, now, remaining, audit, exit, previous>>
vars    == <<today, document, phase, runVars>>

-----------------------------------------------------------------------------
(* evaluate_evidence_policy *)

SetupKinds == {"analysis_error", "capability_requirement", "exception_audit"}
Issue(kind, subject, requirement) == [kind |-> kind, subject |-> subject, requirement |-> requirement]

Rank(m) == CASE m = "unavailable" -> 0 [] m = "experimental" -> 1 [] m = "verified" -> 2

Reported(rep, r) == {c \in rep.capabilities : c.adapter = r.adapter /\ c.capability = r.capability}

\* _requirement_failure
RequirementMet(rep, r) ==
  /\ \E c \in Reported(rep, r) : c.applicability = "active" /\ Rank(c.maturity) >= Rank(r.minimum)
  /\ r.capability \in Capability
       => \E p \in rep.graph.provenance : p.adapter = r.adapter /\ p.capability = r.capability

\* Faulty variant: any maturity that meets the requirement is relied on.
MetRequirements(pol, rep) == {r \in pol.requirements : RequirementMet(rep, r)}

\* Requirements that are met by a verified capability.
SelectedRequirements(pol, rep) ==
  {r \in pol.requirements : /\ RequirementMet(rep, r)
                            /\ \E c \in Reported(rep, r) : c.maturity = "verified"}

SelectedCapabilities(pol, rep) == {<<r.adapter, r.capability>> : r \in SelectedRequirements(pol, rep)}

\* The adapter that reported a coverage record, or any record naming a provenance.
Source(g, provenance) == ById(g.provenance, provenance).adapter

Owned(g, e, a) == \E c \in g.coverage : c.target = e.id /\ Source(g, c.provenance) = a

\* _verified_assurance_endpoints: all four capabilities of one adapter are
\* selected, and it has a record of each for the endpoint.
Assured(pol, rep, e) ==
  \E a \in {r.adapter : r \in pol.requirements} :
    \A c \in Capability :
      /\ <<a, c>> \in SelectedCapabilities(pol, rep)
      /\ \E x \in rep.graph.coverage : /\ x.target = e.id /\ x.capability = c
                                       /\ Source(rep.graph, x.provenance) = a

\* _has_selected_auth_proof
ProvenBySelected(pol, rep, e) ==
  \E p \in ValidProofs(rep.graph, e, "auth_enforcement"), s \in rep.graph.provenance :
    /\ s.id \in p.derived /\ s.capability = "auth_association"
    /\ <<s.adapter, s.capability>> \in SelectedCapabilities(pol, rep)

When(condition, issue) == IF condition THEN {issue} ELSE {}

\* Faulty variant: a declaration of publicness excuses the endpoint.
TrustedVerdictViolations(pol, rep, e) ==
  When(Assured(pol, rep, e) /\ pol.failOnUnguarded /\ Verdict(rep.graph, e) = "UNGUARDED",
       Issue("unguarded", e.id, None))

\* The violations an endpoint's verdict gives rise to.
VerdictViolations(pol, rep, e) ==
  LET verdict == Verdict(rep.graph, e)
  IN  IF ~Assured(pol, rep, e) THEN {}
      ELSE When(verdict = "GUARDED" /\ ~ProvenBySelected(pol, rep, e),
                Issue("capability_requirement", e.id, None))
             \cup When(verdict \in {"UNGUARDED", "DECLARED_PUBLIC"} /\ pol.failOnUnguarded,
                       Issue("unguarded", e.id, None))
             \cup When(verdict = "UNRESOLVED" /\ pol.failOnUnresolved,
                       Issue("unresolved", e.id, None))

RequiredCoverage(pol, rep) == {r \in SelectedRequirements(pol, rep) : r.capability \in Capability}

Recorded(g, r) == {c \in g.coverage : c.capability = r.capability /\ Source(g, c.provenance) = r.adapter}

\* Records of a selected capability that are not analyzed.
IncompleteRecords(pol, rep) ==
  UNION {{Issue("incomplete_coverage", c.id, r.id)
            : c \in {x \in Recorded(rep.graph, r) : x.status # "analyzed"}}
           : r \in RequiredCoverage(pol, rep)}

\* Endpoints without such a record, although the adapter has others of them.
MissingRecords(pol, rep) ==
  UNION {{Issue("incomplete_coverage", e.id, r.id)
            : e \in {x \in Endpoints(rep.graph) : /\ Owned(rep.graph, x, r.adapter)
                                                  /\ \A c \in Recorded(rep.graph, r) : c.target # x.id}}
           : r \in RequiredCoverage(pol, rep)}

CoverageViolations(pol, rep) ==
  IF pol.failOnIncompleteCoverage THEN IncompleteRecords(pol, rep) \cup MissingRecords(pol, rep) ELSE {}

PostureViolations(pol, rep) == UNION {VerdictViolations(pol, rep, e) : e \in Endpoints(rep.graph)}

Violations(pol, rep) ==
  {Issue("analysis_error", d.id, None) : d \in {x \in rep.graph.diagnostics : x.level = "error"}}
    \cup {Issue("capability_requirement", r.adapter, r.id)
            : r \in {x \in pol.requirements : ~RequirementMet(rep, x)}}
    \cup PostureViolations(pol, rep)
    \cup CoverageViolations(pol, rep)

\* Faulty variant: an unfinished audit is just another violation.
LenientExitClass(issues) == IF issues # {} THEN "violation" ELSE "satisfied"

\* classify_gate_exit
ExitClass(issues) ==
  IF \E i \in issues : i.kind \in SetupKinds THEN "setup_error"
  ELSE IF issues # {} THEN "violation" ELSE "satisfied"

-----------------------------------------------------------------------------
(* Exceptions *)

\* The loader's checks: an exception is well formed on its own, ids and
\* identities are unique.
Wellformed(x) ==
  /\ {x.expires, x.review} # {None}
  /\ \A d \in {x.expires, x.review} \ {None} : d >= x.created
  /\ x.identity.violation \in {"unguarded", "unresolved"}
  /\ x.authorizing = x.identity.policy

Accepted(doc) ==
  /\ \A x \in doc : Wellformed(x)
  /\ \A x, y \in doc : x.id = y.id \/ x.identity = y.identity => x = y

\* Faulty variant: the last day is still granted.
GenerousBoundaryState(x, date) ==
  IF date < x.created THEN "invalid"
  ELSE IF x.expires # None /\ date > x.expires THEN "expired"
  ELSE IF x.review # None /\ date > x.review THEN "review_due"
  ELSE "active"

\* Faulty variants: due on the day only; an exception in force has no state.
OnTheDayBoundaryState(x, date) ==
  IF date < x.created THEN "invalid"
  ELSE IF date = x.expires THEN "expired"
  ELSE IF date = x.review THEN "review_due"
  ELSE "active"

\* _boundary_state; "active" stands for None.
BoundaryState(x, date) ==
  IF date < x.created THEN "invalid"
  ELSE IF x.expires # None /\ date >= x.expires THEN "expired"
  ELSE IF x.review # None /\ date >= x.review THEN "review_due"
  ELSE "active"

\* _matches
Matches(x, issue, pol, rep) ==
  LET identity == x.identity
      g == rep.graph
  IN  /\ identity.policy = pol.id
      /\ identity.violation = issue.kind
      /\ \E e \in Endpoints(g) :
           /\ e.id = issue.subject /\ e.path # None
           /\ <<e.kind, e.path>> = identity.endpoint
           /\ \E c \in g.coverage : /\ c.target = e.id /\ c.capability = identity.capability
                                    /\ Source(g, c.provenance) = identity.adapter
      /\ \E r \in pol.requirements : /\ r.adapter = identity.adapter
                                     /\ r.capability = identity.capability
                                     /\ r.minimum = identity.maturity
      /\ \E c \in rep.capabilities : /\ c.adapter = identity.adapter
                                     /\ c.capability = identity.capability
                                     /\ c.maturity = identity.maturity
                                     /\ c.applicability = "active"

FailedStates == {"expired", "review_due", "unmatched", "invalid"}
AuditIssue   == Issue("exception_audit", "exceptions", None)

-----------------------------------------------------------------------------
(* People and time.  Once the command has read the document and the clock  *)
(* it looks at neither again: what happens meanwhile can as well happen    *)
(* afterwards.                                                             *)

Unread == phase \in {"idle", "gated"}

Tick == Unread /\ today < MaxDay /\ today' = today + 1 /\ UNCHANGED <<document, phase, runVars>>

\* Between two runs that are compared only the calendar moves.
Editable == Unread /\ previous = None

\* The file is edited by hand: nothing is checked before it is loaded.
Grant(x) ==
  /\ Editable /\ Cardinality(document) < MaxExceptions
  /\ document' = document \cup {x}
  /\ UNCHANGED <<today, phase, runVars>>

Withdraw(x) == Editable /\ document' = document \ {x} /\ UNCHANGED <<today, phase, runVars>>

\* replace_evidence_exception
Replace(old, new) ==
  LET doc == {x \in document : x.id # old} \cup {new}
  IN  /\ Editable
      /\ Accepted(document) /\ new.id # old /\ old \in IdsOf(document)
      /\ Wellformed(new) /\ Accepted(doc)
      /\ document' = doc
      /\ UNCHANGED <<today, phase, runVars>>

-----------------------------------------------------------------------------
(* One run of the command *)

\* The scan, the policy, and the first evaluation.  A run is compared with one
\* before it only if it repeats it.
Start(pol, rep, audited) ==
  /\ phase = "idle"
  /\ previous # None => audited /\ rep = previous.report /\ pol = previous.policy
  /\ report' = rep /\ policy' = pol
  /\ violations' = Violations(pol, rep)
  /\ remaining' = violations'
  /\ exit' = ExitClass(violations')
  /\ phase' = IF audited THEN "gated" ELSE "done"
  /\ UNCHANGED <<today, document, loaded, audit, now, previous>>

\* load_evidence_exceptions, and the clock read after it.  A document that is
\* refused ends the command.
Load ==
  /\ phase = "gated"
  /\ IF Accepted(document)
     THEN /\ loaded' = document /\ now' = today /\ phase' = "auditing"
          /\ UNCHANGED exit
     ELSE /\ exit' = "setup_error" /\ phase' = "done"
          /\ UNCHANGED <<loaded, now>>
  /\ UNCHANGED <<today, document, report, policy, violations, remaining, audit, previous>>

Pending == {x \in loaded : x.id \notin DOMAIN audit}

\* The loop goes by id.
Due(x) == phase = "auditing" /\ x \in Pending /\ \A y \in Pending : x.id <= y.id

Concerned(x) == {i \in remaining : Matches(x, i, policy, report)}

Note(x, state, issue) ==
  audit' = [i \in DOMAIN audit \cup {x.id} |-> IF i = x.id THEN [state |-> state, issue |-> issue]
                                               ELSE audit[i]]

\* Faulty variant: a suppressed violation can be spent again.
ExamineWithoutSpending(x) ==
  /\ Due(x)
  /\ IF BoundaryState(x, now) # "active" THEN Note(x, BoundaryState(x, now), None)
     ELSE IF Cardinality(Concerned(x)) # 1
          THEN Note(x, IF Concerned(x) = {} THEN "unmatched" ELSE "invalid", None)
          ELSE \E i \in Concerned(x) : Note(x, "consumed", i)
  /\ UNCHANGED <<today, document, phase, report, policy, violations, loaded, now, exit, previous,
                 remaining>>

\* One iteration of apply_evidence_exceptions' loop.
Examine(x) ==
  /\ Due(x)
  /\ \/ /\ BoundaryState(x, now) # "active"
        /\ Note(x, BoundaryState(x, now), None)
        /\ UNCHANGED remaining
     \/ /\ BoundaryState(x, now) = "active"
        /\ Cardinality(Concerned(x)) # 1
        /\ Note(x, IF Concerned(x) = {} THEN "unmatched" ELSE "invalid", None)
        /\ UNCHANGED remaining
     \/ /\ BoundaryState(x, now) = "active"
        /\ \E i \in Concerned(x) : /\ Concerned(x) = {i}
                                   /\ Note(x, "consumed", i)
                                   /\ remaining' = remaining \ {i}
  /\ UNCHANGED <<today, document, phase, report, policy, violations, loaded, now, exit, previous>>

Failed == \E i \in DOMAIN audit : audit[i].state \in FailedStates

\* Faulty variant: a failed audit adds nothing.
ConcludeRegardless ==
  /\ phase = "auditing" /\ Pending = {}
  /\ exit' = ExitClass(remaining)
  /\ phase' = "done"
  /\ UNCHANGED <<today, document, report, policy, violations, loaded, now, remaining, audit, previous>>

\* The rest of apply_evidence_exceptions, and the final exit class.
Conclude ==
  /\ phase = "auditing" /\ Pending = {}
  /\ remaining' = remaining \cup When(Failed, AuditIssue)
  /\ exit' = ExitClass(remaining')
  /\ phase' = "done"
  /\ UNCHANGED <<today, document, report, policy, violations, loaded, now, audit, previous>>

\* The command ends; its result may be remembered for comparison.
Return(remembered) ==
  /\ phase = "done"
  /\ phase' = "idle"
  /\ previous' = IF remembered THEN [report |-> report, policy |-> policy, loaded |-> loaded,
                                    now |-> now, exit |-> exit] ELSE None
  /\ report' = None /\ policy' = None /\ violations' = {} /\ remaining' = {}
  /\ loaded' = {} /\ audit' = <<>> /\ now' = None /\ exit' = None
  /\ UNCHANGED <<today, document>>

Init ==
  /\ today = 0 /\ document = {} /\ phase = "idle"
  /\ report = None /\ policy = None /\ violations = {} /\ remaining = {}
  /\ loaded = {} /\ audit = <<>> /\ now = None /\ exit = None /\ previous = None

Next ==
  \/ Tick
  \/ \E x \in ExceptionOptions : Grant(x)
  \/ \E x \in document : Withdraw(x) \/ \E y \in ExceptionOptions : Replace(x.id, y)
  \/ \E pol \in Policies, rep \in Reports, audited \in BOOLEAN : Start(pol, rep, audited)
  \/ Load
  \/ \E x \in loaded : Examine(x)
  \/ Conclude
  \/ \E remembered \in BOOLEAN : (remembered => now # None /\ document = loaded) /\ Return(remembered)

Spec == Init /\ [][Next]_vars

-----------------------------------------------------------------------------
(* Properties *)

Exits  == {"satisfied", "violation", "setup_error"}
States == {"consumed"} \cup FailedStates
Kinds  == SetupKinds \cup {"unguarded", "unresolved", "incomplete_coverage"}

TypeOK ==
  /\ today \in 0 .. MaxDay
  /\ document \subseteq ExceptionOptions /\ loaded \subseteq ExceptionOptions
  /\ phase \in {"idle", "gated", "auditing", "done"}
  /\ report \in Reports \cup {None} /\ policy \in Policies \cup {None}
  /\ \A i \in violations \cup remaining : i.kind \in Kinds
  /\ now \in 0 .. MaxDay \cup {None}
  /\ DOMAIN audit \subseteq IdsOf(loaded)
  /\ \A i \in DOMAIN audit : audit[i].state \in States
  /\ exit \in Exits \cup {None}

InForce(x, date) == /\ x.created <= date
                    /\ \A d \in {x.expires, x.review} \ {None} : date < d

Finished == phase = "done"

Consumed == {i \in DOMAIN audit : audit[i].state = "consumed"}

\* A strict policy that is satisfied means: every endpoint of a verified
\* adapter is guarded by a proof of that adapter's auth capability and fully
\* covered, or an exception in force names it; and nothing went wrong in the
\* analysis (evaluate_evidence_policy with apply_evidence_exceptions).
PassIsEarned ==
  (/\ Finished /\ exit = "satisfied"
   /\ policy.failOnUnguarded /\ policy.failOnUnresolved /\ policy.failOnIncompleteCoverage)
  => /\ \A d \in report.graph.diagnostics : d.level # "error"
     /\ \A e \in Endpoints(report.graph) : Assured(policy, report, e) =>
          /\ \/ /\ Verdict(report.graph, e) = "GUARDED"
                /\ ProvenBySelected(policy, report, e)
             \/ \E x \in loaded : InForce(x, now) /\ x.identity.endpoint = <<e.kind, e.path>>
          /\ Covered(report.graph, e)

\* Every exception consumed has suppressed one violation, and every violation
\* suppressed has cost one exception (the loop of apply_evidence_exceptions).
OneExceptionOneViolation ==
  /\ \A i, j \in Consumed : audit[i].issue = audit[j].issue => i = j
  /\ violations \ remaining = {audit[i].issue : i \in Consumed}

\* An analysis error, an unmet requirement or an unproven guard can not be
\* excused: the command ends with a setup error whatever is granted.
SetupOutranksExceptions ==
  Finished /\ (\E v \in violations : v.kind \in SetupKinds) => exit = "setup_error"

\* A command that audits exceptions and does not end with a setup error has
\* only exceptions that are in force and name exactly one violation of this
\* very report: none has expired, drifted from its endpoint, or become
\* unnecessary.
AuditFailsClosed ==
  Finished /\ exit # "setup_error" =>
    \A x \in loaded : /\ InForce(x, now)
                      /\ Cardinality({v \in violations : Matches(x, v, policy, report)}) = 1

\* The result does not depend on the order in which the exceptions are
\* examined, although each one changes what is left for the next.
OrderDoesNotMatter ==
  Finished =>
    remaining \ {AuditIssue} =
      {v \in violations : \A x \in loaded :
         InForce(x, now) => {i \in violations : Matches(x, i, policy, report)} # {v}}

Severity(e) == CASE e = "satisfied" -> 0 [] e = "violation" -> 1 [] e = "setup_error" -> 2

\* As days go by, the same code, policy and exceptions never get a better
\* result, unless an exception was dated in the future.
WaitingNeverHelps ==
  Finished /\ previous # None /\ previous.loaded = loaded
    /\ (\A x \in loaded : x.created <= previous.now)
  => Severity(exit) >= Severity(previous.exit)

\* What an adapter does that is verified and active in this report.
VerifiedOf(adapter) ==
  {c.capability : c \in {y \in report.capabilities : /\ y.adapter = adapter
                                                     /\ y.maturity = "verified"
                                                     /\ y.applicability = "active"}}

\* A build fails with a violation over an endpoint's verdict only if one adapter
\* covers it with all four capabilities verified and active, and over coverage
\* only if the missing capability is (docs/reference/evidence-policy.md, "Auth
\* posture blocks only when").
OnlyVerifiedBlocks ==
  Finished /\ exit = "violation" =>
    \A i \in remaining : \E x \in report.graph.coverage :
      LET adapter == Source(report.graph, x.provenance)
      IN  /\ i.subject \in {x.id, x.target}
          /\ \/ Capability \subseteq VerifiedOf(adapter)
             \/ /\ i.kind = "incomplete_coverage"
                /\ \E r \in policy.requirements : /\ r.id = i.requirement /\ r.adapter = adapter
                                                  /\ r.capability \in VerifiedOf(adapter)

-----------------------------------------------------------------------------
(* The inductive invariant *)

\* What holds at every step of a run: the evaluation is of the report and
\* policy at hand, every exception consumed is in force and names the violation
\* it suppressed, and a run that has ended without a setup error has examined
\* every exception and classified what was left.
RunIsCoherent ==
  /\ phase # "idle" => /\ report \in Reports /\ policy \in Policies
                       /\ violations = Violations(policy, report)
  /\ phase = "idle" => violations = {}
  /\ phase \in {"idle", "gated"} => loaded = {} /\ audit = <<>> /\ remaining = violations
  /\ Accepted(loaded)
  /\ remaining \subseteq violations \cup {AuditIssue}
  /\ phase # "done" => remaining \subseteq violations
  /\ loaded # {} => now \in 0 .. MaxDay

ConsumedIsNamed ==
  \A x \in loaded : x.id \in Consumed =>
    /\ InForce(x, now)
    /\ audit[x.id].issue \in violations \ remaining
    /\ Matches(x, audit[x.id].issue, policy, report)

ExitIsSettled ==
  phase = "done" =>
    \/ exit = "setup_error"
    \/ /\ exit = ExitClass(remaining)
       /\ Pending = {}
       /\ Failed => AuditIssue \in remaining

\* The inductive invariant of the gate.
IInv == TypeOK /\ RunIsCoherent /\ OneExceptionOneViolation /\ ConsumedIsNamed /\ ExitIsSettled

-----------------------------------------------------------------------------
(* What the audit has spent, exception by exception *)

Named(x)  == {v \in violations : Matches(x, v, policy, report)}
Before(x) == {y \in loaded : y.id \in Consumed /\ y.id < x.id}

\* The loop goes by id, and an exception is consumed if exactly one violation
\* it names is left by those before it.
SpentInTurn ==
  /\ \A x, y \in loaded : x.id \in DOMAIN audit /\ y.id \notin DOMAIN audit => x.id < y.id
  /\ \A x \in loaded : x.id \in Consumed =>
       Named(x) \ {audit[y.id].issue : y \in Before(x)} = {audit[x.id].issue}

\* A finished audit has examined everything and classified what was left.
AuditIsComplete ==
  /\ Finished => Pending = {}
  /\ phase = "auditing" => now # None
  /\ now # None => phase \in {"auditing", "done"} /\ now <= today
  /\ Finished /\ now # None => exit = ExitClass(remaining)
  /\ remaining \subseteq violations \/ Failed

\* With one adapter the exceptions before it make no difference: one that was
\* consumed names no other violation, and one in force that names a single
\* violation has it removed.
SpentAlone ==
  /\ \A x \in loaded : x.id \in Consumed => Named(x) = {audit[x.id].issue}
  /\ \A x \in loaded, v \in violations :
       x.id \in DOMAIN audit /\ InForce(x, now) /\ Named(x) = {v} => v \notin remaining

\* plan: exception |-> the violation it is to suppress, so that every exception
\* of doc is consumed on that date.
Plan(plan, doc, date, pol, rep) ==
  \A x \in doc :
    /\ InForce(x, date)
    /\ {v \in Violations(pol, rep) : Matches(x, v, pol, rep)} \ {plan[y] : y \in {z \in doc : z.id < x.id}}
         = {plan[x]}

\* Where there is such a plan the audit follows it.
PlanIsFollowed ==
  \A plan \in [loaded -> violations] : Plan(plan, loaded, now, policy, report) =>
    \A x \in loaded : x.id \in DOMAIN audit => x.id \in Consumed /\ audit[x.id].issue = plan[x]

\* The run remembered was of an earlier day, of the document as it still is,
\* and followed its plan if there was one; the run at hand repeats it.
PreviousIsSettled ==
  previous # None =>
    /\ previous.exit \in Exits
    /\ previous.now \in 0 .. today
    /\ now # None => previous.now <= now
    /\ phase # "idle" => report = previous.report /\ policy = previous.policy
    /\ Finished => now # None \/ exit = "setup_error"
    /\ \A plan \in [previous.loaded -> Violations(previous.policy, previous.report)] :
         Plan(plan, previous.loaded, previous.now, previous.policy, previous.report) =>
           previous.exit = ExitClass(Violations(previous.policy, previous.report)
                                       \ {plan[x] : x \in previous.loaded})

\* Inductive together with IInv.
AuditInv == SpentInTurn /\ AuditIsComplete /\ SpentAlone /\ PlanIsFollowed /\ PreviousIsSettled
=============================================================================
