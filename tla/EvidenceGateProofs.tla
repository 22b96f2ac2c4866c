-------------------------- MODULE EvidenceGateProofs --------------------------
(***************************************************************************)
(* Proofs about EvidenceGate: its inductive invariant, and what an exit    *)
(* class says whatever the reports, policies and exceptions are.           *)
(***************************************************************************)
EXTENDS EvidenceGate, FiniteSetTheorems, TLAPS

Excusable == {"unguarded", "unresolved"}

\* An issue the evaluation raises has one of the kinds of GateIssueKind.
LEMMA VerdictKinds ==
  ASSUME NEW pol, NEW rep, NEW e, NEW i \in VerdictViolations(pol, rep, e)
  PROVE  i.kind \in Kinds
  BY DEF VerdictViolations, When, Issue, Kinds, SetupKinds

\* Gaps in the coverage are of one kind.
LEMMA CoverageKinds ==
  ASSUME NEW pol, NEW rep, NEW i \in CoverageViolations(pol, rep)
  PROVE  i.kind = "incomplete_coverage"
  BY DEF CoverageViolations, IncompleteRecords, MissingRecords, Issue

\* The same of every violation of a report.
LEMMA ViolationKinds ==
  ASSUME NEW pol, NEW rep, NEW i \in Violations(pol, rep)
  PROVE  i.kind \in Kinds
  <1>1. CASE i \in CoverageViolations(pol, rep)
    BY <1>1, CoverageKinds DEF Kinds
  <1>2. CASE \E e \in Endpoints(rep.graph) : i \in VerdictViolations(pol, rep, e)
    BY <1>2, VerdictKinds
  <1>3. CASE i.kind \in SetupKinds
    BY <1>3 DEF Kinds
  <1> QED
    BY <1>1, <1>2, <1>3 DEF Violations, PostureViolations, Issue, SetupKinds

\* classify_gate_exit always gives an exit class.
LEMMA ExitClassType ==
  ASSUME NEW S
  PROVE  ExitClass(S) \in Exits
  BY DEF ExitClass, Exits

\* _boundary_state gives a failed state or finds the exception in force.
LEMMA BoundaryStateType ==
  ASSUME NEW x \in ExceptionOptions, NEW d \in Nat
  PROVE  /\ BoundaryState(x, d) # "active" => BoundaryState(x, d) \in FailedStates
         /\ BoundaryState(x, d) = "active" => InForce(x, d)
  <1>1. /\ x.created \in Nat
        /\ x.expires \in Nat \cup {None} /\ x.review \in Nat \cup {None}
    BY EvidenceGateAssumption
  <1> QED
    BY <1>1, EvidenceGateAssumption DEF BoundaryState, InForce, FailedStates

\* An exception only ever matches what it is allowed to excuse.
LEMMA MatchIsExcusable ==
  ASSUME NEW x, Wellformed(x), NEW i, NEW pol, NEW rep, Matches(x, i, pol, rep)
  PROVE  i.kind \in Excusable
  BY DEF Wellformed, Matches, Excusable

\* Before the first command nothing has been examined.
LEMMA InitIInv == Init => IInv
  <1> SUFFICES ASSUME Init PROVE IInv
    OBVIOUS
  <1>1. TypeOK
    BY EvidenceGateAssumption DEF Init, TypeOK
  <1>2. RunIsCoherent
    BY DEF Init, RunIsCoherent, Accepted
  <1>3. OneExceptionOneViolation /\ ConsumedIsNamed /\ ExitIsSettled
    BY DEF Init, OneExceptionOneViolation, ConsumedIsNamed, ExitIsSettled, Consumed
  <1> QED
    BY <1>1, <1>2, <1>3 DEF IInv

\* Editing the document and letting days pass does not touch a run.
LEMMA OutsideStep ==
  ASSUME IInv, UNCHANGED <<phase, runVars>>,
         today' \in 0 .. MaxDay, document' \subseteq ExceptionOptions
  PROVE  IInv'
  <1> USE DEF runVars
  <1>1. TypeOK'
    BY DEF IInv, TypeOK
  <1>2. RunIsCoherent'
    BY DEF IInv, RunIsCoherent
  <1>3. OneExceptionOneViolation'
    BY DEF IInv, OneExceptionOneViolation, Consumed
  <1>4. ConsumedIsNamed'
    BY DEF IInv, ConsumedIsNamed, Consumed
  <1>5. ExitIsSettled'
    BY DEF IInv, ExitIsSettled, Pending, Failed
  <1> QED
    BY <1>1, <1>2, <1>3, <1>4, <1>5 DEF IInv

\* The first evaluation.
LEMMA StartStep ==
  ASSUME IInv, NEW pol \in Policies, NEW rep \in Reports, NEW audited \in BOOLEAN,
         Start(pol, rep, audited)
  PROVE  IInv'
  <1>1. loaded = {} /\ audit = <<>> /\ loaded' = {} /\ audit' = <<>>
    BY DEF IInv, RunIsCoherent, Start
  <1>2. TypeOK'
    <2>1. \A i \in violations' \cup remaining' : i.kind \in Kinds
      BY ViolationKinds DEF Start
    <2>2. exit' \in Exits
      BY ExitClassType DEF Start
    <2> QED
      BY <1>1, <2>1, <2>2 DEF IInv, TypeOK, Start
  <1>3. RunIsCoherent'
    BY <1>1 DEF RunIsCoherent, Start, Accepted
  <1>4. OneExceptionOneViolation' /\ ConsumedIsNamed'
    BY <1>1 DEF Start, OneExceptionOneViolation, ConsumedIsNamed, Consumed
  <1>5. ExitIsSettled'
    BY <1>1 DEF Start, ExitIsSettled, Pending, Failed
  <1> QED
    BY <1>2, <1>3, <1>4, <1>5 DEF IInv

\* Reading the document, or refusing it.
LEMMA LoadStep ==
  ASSUME IInv, Load
  PROVE  IInv'
  <1>1. loaded = {} /\ audit = <<>> /\ audit' = <<>> /\ remaining = violations /\ phase = "gated"
    BY DEF IInv, RunIsCoherent, Load
  <1>2. TypeOK'
    BY <1>1 DEF IInv, TypeOK, Load, Exits
  <1>3. RunIsCoherent'
    BY <1>1 DEF IInv, TypeOK, RunIsCoherent, Load
  <1>4. OneExceptionOneViolation' /\ ConsumedIsNamed'
    BY <1>1 DEF Load, OneExceptionOneViolation, ConsumedIsNamed, Consumed
  <1>5. ExitIsSettled'
    BY <1>1 DEF Load, ExitIsSettled
  <1> QED
    BY <1>2, <1>3, <1>4, <1>5 DEF IInv

\* One exception examined: what it writes in the audit, and what is left.
LEMMA ExamineAudit ==
  ASSUME IInv, NEW x \in loaded, Examine(x)
  PROVE  /\ x.id \notin DOMAIN audit
         /\ DOMAIN audit' = DOMAIN audit \cup {x.id}
         /\ \A i \in DOMAIN audit : audit'[i] = audit[i]
         /\ \/ audit'[x.id].state \in FailedStates /\ remaining' = remaining
            \/ /\ audit'[x.id].state = "consumed"
               /\ audit'[x.id].issue \in remaining
               /\ Matches(x, audit'[x.id].issue, policy, report)
               /\ InForce(x, now)
               /\ remaining' = remaining \ {audit'[x.id].issue}
  <1>1. x \in ExceptionOptions /\ now \in Nat
    BY EvidenceGateAssumption DEF IInv, TypeOK, RunIsCoherent
  <1>2. x.id \notin DOMAIN audit
    BY DEF Examine, Due, Pending
  <1>3. /\ BoundaryState(x, now) # "active" => BoundaryState(x, now) \in FailedStates
        /\ BoundaryState(x, now) = "active" => InForce(x, now)
    BY <1>1, BoundaryStateType
  <1>4. ASSUME NEW state, NEW issue, Note(x, state, issue)
        PROVE  /\ DOMAIN audit' = DOMAIN audit \cup {x.id}
               /\ \A i \in DOMAIN audit : audit'[i] = audit[i]
               /\ audit'[x.id] = [state |-> state, issue |-> issue]
    BY <1>2, <1>4 DEF Note
  <1>5. CASE BoundaryState(x, now) # "active"
    <2>1. Note(x, BoundaryState(x, now), None) /\ remaining' = remaining
      BY <1>5 DEF Examine
    <2>2. /\ DOMAIN audit' = DOMAIN audit \cup {x.id}
          /\ \A j \in DOMAIN audit : audit'[j] = audit[j]
          /\ audit'[x.id] = [state |-> BoundaryState(x, now), issue |-> None]
      BY <1>4, <2>1
    <2> QED
      BY <1>2, <1>3, <1>5, <2>1, <2>2
  <1>6. CASE BoundaryState(x, now) = "active" /\ remaining' = remaining
             /\ Note(x, IF Concerned(x) = {} THEN "unmatched" ELSE "invalid", None)
    <2> DEFINE failure == IF Concerned(x) = {} THEN "unmatched" ELSE "invalid"
    <2>1. failure \in FailedStates /\ Note(x, failure, None)
      BY <1>6 DEF FailedStates
    <2> HIDE DEF failure
    <2>2. /\ DOMAIN audit' = DOMAIN audit \cup {x.id}
          /\ \A j \in DOMAIN audit : audit'[j] = audit[j]
          /\ audit'[x.id].state \in FailedStates
      <3>1. audit'[x.id] = [state |-> failure, issue |-> None]
        BY <1>4, <2>1
      <3> QED
        BY <1>4, <2>1, <3>1
    <2> QED
      BY <1>2, <1>6, <2>2
  <1>7. CASE BoundaryState(x, now) = "active"
             /\ \E i \in Concerned(x) : Note(x, "consumed", i) /\ remaining' = remaining \ {i}
    <2>1. PICK i \in Concerned(x) : Note(x, "consumed", i) /\ remaining' = remaining \ {i}
      BY <1>7
    <2>2. i \in remaining /\ Matches(x, i, policy, report)
      BY DEF Concerned
    <2>3. /\ DOMAIN audit' = DOMAIN audit \cup {x.id}
          /\ \A j \in DOMAIN audit : audit'[j] = audit[j]
          /\ audit'[x.id] = [state |-> "consumed", issue |-> i]
      BY <1>4, <2>1
    <2> QED
      BY <1>2, <1>3, <1>7, <2>1, <2>2, <2>3
  <1> QED
    BY <1>5, <1>6, <1>7 DEF Examine

\* Examining an exception.
LEMMA ExamineStep ==
  ASSUME IInv, NEW x \in loaded, Examine(x)
  PROVE  IInv'
  <1> DEFINE new == audit'[x.id]
  <1>1. /\ UNCHANGED <<today, document, phase, report, policy, violations, loaded, now, exit, previous>>
        /\ phase = "auditing"
    BY DEF Examine, Due
  <1>2. /\ x.id \notin DOMAIN audit
        /\ DOMAIN audit' = DOMAIN audit \cup {x.id}
        /\ \A i \in DOMAIN audit : audit'[i] = audit[i]
        /\ \/ new.state \in FailedStates /\ remaining' = remaining
           \/ /\ new.state = "consumed"
              /\ new.issue \in remaining
              /\ Matches(x, new.issue, policy, report)
              /\ InForce(x, now)
              /\ remaining' = remaining \ {new.issue}
    BY ExamineAudit
  <1> HIDE DEF new
  <1>3. remaining \subseteq violations /\ remaining' \subseteq remaining
    BY <1>1, <1>2 DEF IInv, RunIsCoherent
  <1>4. "consumed" \notin FailedStates
    BY DEF FailedStates
  <1>5. TypeOK'
    <2>1. x.id \in IdsOf(loaded) /\ DOMAIN audit' \subseteq IdsOf(loaded)'
      BY <1>1, <1>2 DEF IInv, TypeOK, IdsOf
    <2>2. \A i \in DOMAIN audit' : audit'[i].state \in States
      BY <1>2 DEF IInv, TypeOK, States, new
    <2> QED
      BY <1>1, <1>3, <2>1, <2>2 DEF IInv, TypeOK
  <1>6. RunIsCoherent'
    BY <1>1, <1>3 DEF IInv, RunIsCoherent
  <1>7. CASE new.state \in FailedStates /\ remaining' = remaining
    <2>1. Consumed' = Consumed /\ \A i \in Consumed : audit'[i] = audit[i]
      BY <1>2, <1>4, <1>7 DEF Consumed, new
    <2>2. OneExceptionOneViolation'
      BY <1>1, <1>7, <2>1 DEF IInv, OneExceptionOneViolation
    <2>3. ConsumedIsNamed'
      BY <1>1, <1>7, <2>1 DEF IInv, ConsumedIsNamed
    <2> QED
      BY <2>2, <2>3, <1>1, <1>5, <1>6 DEF IInv, ExitIsSettled
  <1>8. CASE /\ new.state = "consumed" /\ new.issue \in remaining
             /\ Matches(x, new.issue, policy, report) /\ InForce(x, now)
             /\ remaining' = remaining \ {new.issue}
    <2>1. /\ Consumed' = Consumed \cup {x.id} /\ x.id \notin Consumed
          /\ \A i \in Consumed : audit'[i] = audit[i]
          /\ audit'[x.id] = new
      BY <1>2, <1>8 DEF Consumed, new
    <2>2. violations \ remaining = {audit[i].issue : i \in Consumed}
      BY DEF IInv, OneExceptionOneViolation
    <2>3. OneExceptionOneViolation'
      <3>1. \A i, j \in Consumed' : audit'[i].issue = audit'[j].issue => i = j
        BY <1>8, <2>1, <2>2 DEF IInv, OneExceptionOneViolation
      <3>2. (violations \ remaining)' = (violations \ remaining) \cup {new.issue}
        BY <1>1, <1>3, <1>8
      <3>3. {audit'[i].issue : i \in Consumed'} = {audit[i].issue : i \in Consumed} \cup {new.issue}
        BY <2>1
      <3> QED
        BY <2>2, <3>1, <3>2, <3>3 DEF OneExceptionOneViolation
    <2>4. ConsumedIsNamed'
      <3> SUFFICES ASSUME NEW y \in loaded', y.id \in Consumed'
                   PROVE  /\ InForce(y, now) /\ audit'[y.id].issue \in violations \ remaining'
                          /\ Matches(y, audit'[y.id].issue, policy, report)
        BY <1>1 DEF ConsumedIsNamed
      <3>1. CASE y.id = x.id
        <4>1. y = x
          BY <1>1, <3>1 DEF IInv, RunIsCoherent, Accepted
        <4> QED
          BY <1>3, <1>8, <2>1, <4>1
      <3>2. CASE y.id \in Consumed
        <4>1. /\ InForce(y, now) /\ audit[y.id].issue \in violations \ remaining
              /\ Matches(y, audit[y.id].issue, policy, report)
          BY <1>1, <3>2 DEF IInv, ConsumedIsNamed
        <4> QED
          BY <1>3, <2>1, <3>2, <4>1
      <3> QED
        BY <2>1, <3>1, <3>2
    <2> QED
      BY <2>3, <2>4, <1>1, <1>5, <1>6 DEF IInv, ExitIsSettled
  <1> QED
    BY <1>2, <1>7, <1>8

\* Closing the audit.
LEMMA ConcludeStep ==
  ASSUME IInv, Conclude
  PROVE  IInv'
  <1>1. /\ UNCHANGED <<today, document, report, policy, violations, loaded, now, audit, previous>>
        /\ phase = "auditing" /\ phase' = "done" /\ Pending = {}
        /\ remaining' = remaining \cup When(Failed, AuditIssue)
        /\ exit' = ExitClass(remaining')
    BY DEF Conclude
  <1>2. \A i \in remaining' : i \in remaining \/ i = AuditIssue
    BY <1>1 DEF When
  <1>3. AuditIssue.kind = "exception_audit" /\ AuditIssue.kind \in Kinds
    BY DEF AuditIssue, Issue, Kinds, SetupKinds
  <1>4. TypeOK'
    <2>1. exit' \in Exits
      BY <1>1, ExitClassType
    <2>2. \A i \in violations' \cup remaining' : i.kind \in Kinds
      BY <1>1, <1>2, <1>3 DEF IInv, TypeOK
    <2> QED
      BY <1>1, <2>1, <2>2 DEF IInv, TypeOK
  <1>5. RunIsCoherent'
    <2>1. remaining' \subseteq violations' \cup {AuditIssue}
      BY <1>1, <1>2 DEF IInv, RunIsCoherent
    <2> QED
      BY <1>1, <2>1 DEF IInv, RunIsCoherent
  <1>6. \A x \in loaded : x.id \in Consumed =>
          /\ InForce(x, now) /\ audit[x.id].issue \in violations \ remaining
          /\ Matches(x, audit[x.id].issue, policy, report)
    BY DEF IInv, ConsumedIsNamed
  <1>7. Consumed' = Consumed
    BY <1>1 DEF Consumed
  <1>8. \A x \in loaded : x.id \in Consumed => audit[x.id].issue # AuditIssue
    <2>1. ASSUME NEW x \in loaded, x.id \in Consumed PROVE audit[x.id].issue.kind \in Excusable
      BY <1>6, <2>1, MatchIsExcusable DEF IInv, RunIsCoherent, Accepted
    <2> QED
      BY <1>3, <2>1 DEF Excusable
  <1>9. violations \ remaining = {audit[i].issue : i \in Consumed}
    BY DEF IInv, OneExceptionOneViolation
  <1>10. \A i \in Consumed : \E x \in loaded : x.id = i
    BY DEF IInv, TypeOK, Consumed, IdsOf
  <1>11. AuditIssue \notin violations \ remaining
    BY <1>8, <1>9, <1>10
  <1>12. violations \ remaining' = violations \ remaining
    BY <1>1, <1>2, <1>11
  <1>13. OneExceptionOneViolation'
    BY <1>1, <1>7, <1>12 DEF IInv, OneExceptionOneViolation
  <1>14. ConsumedIsNamed'
    BY <1>1, <1>6, <1>7, <1>12 DEF ConsumedIsNamed
  <1>15. ExitIsSettled'
    <2>1. Failed => AuditIssue \in remaining'
      BY <1>1 DEF When
    <2>2. Pending' = {} /\ Failed' = Failed
      BY <1>1 DEF Pending, Failed
    <2> QED
      BY <1>1, <2>1, <2>2 DEF ExitIsSettled
  <1> QED
    BY <1>4, <1>5, <1>13, <1>14, <1>15 DEF IInv

\* The end of a command.
LEMMA ReturnStep ==
  ASSUME IInv, NEW remembered \in BOOLEAN, Return(remembered)
  PROVE  IInv'
  <1>1. /\ UNCHANGED <<today, document>> /\ phase' = "idle"
        /\ report' = None /\ policy' = None /\ violations' = {} /\ remaining' = {}
        /\ loaded' = {} /\ audit' = <<>> /\ now' = None /\ exit' = None
    BY DEF Return
  <1>2. TypeOK'
    BY <1>1 DEF IInv, TypeOK
  <1>3. RunIsCoherent' /\ OneExceptionOneViolation' /\ ConsumedIsNamed' /\ ExitIsSettled'
    BY <1>1 DEF RunIsCoherent, Accepted, OneExceptionOneViolation, ConsumedIsNamed, ExitIsSettled, Consumed
  <1> QED
    BY <1>2, <1>3 DEF IInv

\* IInv is inductive.
LEMMA NextStep == IInv /\ [Next]_vars => IInv'
  <1> SUFFICES ASSUME IInv, [Next]_vars PROVE IInv'
    OBVIOUS
  <1>1. today \in 0 .. MaxDay /\ document \subseteq ExceptionOptions /\ today \in Nat /\ MaxDay \in Nat
    BY EvidenceGateAssumption DEF IInv, TypeOK
  <1>2. CASE Tick
    BY <1>1, <1>2, OutsideStep DEF Tick
  <1>3. ASSUME NEW x \in ExceptionOptions, Grant(x) PROVE IInv'
    BY <1>1, <1>3, OutsideStep DEF Grant
  <1>4. ASSUME NEW x \in document, Withdraw(x) PROVE IInv'
    BY <1>1, <1>4, OutsideStep DEF Withdraw
  <1>5. ASSUME NEW x \in document, NEW y \in ExceptionOptions, Replace(x.id, y) PROVE IInv'
    BY <1>1, <1>5, OutsideStep DEF Replace
  <1>6. ASSUME NEW pol \in Policies, NEW rep \in Reports, NEW audited \in BOOLEAN,
               Start(pol, rep, audited)
        PROVE  IInv'
    BY <1>6, StartStep
  <1>7. CASE Load
    BY <1>7, LoadStep
  <1>8. ASSUME NEW x \in loaded, Examine(x) PROVE IInv'
    BY <1>8, ExamineStep
  <1>9. CASE Conclude
    BY <1>9, ConcludeStep
  <1>10. ASSUME NEW remembered \in BOOLEAN, Return(remembered) PROVE IInv'
    BY <1>10, ReturnStep
  <1>11. CASE UNCHANGED vars
    BY <1>1, <1>11, OutsideStep DEF vars, runVars
  <1> QED
    BY <1>2, <1>3, <1>4, <1>5, <1>6, <1>7, <1>8, <1>9, <1>10, <1>11 DEF Next

\* Whatever is scanned and granted, IInv always holds.
THEOREM Invariance == Spec => []IInv
  <1> QED
    BY InitIInv, NextStep, PTL DEF Spec

\* The gate's variables keep their types.
THEOREM TypeCorrect == Spec => []TypeOK
  <1>1. IInv => TypeOK
    BY DEF IInv
  <1> QED
    BY <1>1, Invariance, PTL

\* apply_evidence_exceptions spends one exception on each violation it removes.
THEOREM OneForOne == Spec => []OneExceptionOneViolation
  <1>1. IInv => OneExceptionOneViolation
    BY DEF IInv
  <1> QED
    BY <1>1, Invariance, PTL

\* A violation is gone only because an exception in force names it.
LEMMA SuppressedIsNamed ==
  ASSUME IInv, NEW v \in violations \ remaining
  PROVE  v.kind \in Excusable /\ \E x \in loaded : InForce(x, now) /\ Matches(x, v, policy, report)
  <1>1. PICK i \in Consumed : v = audit[i].issue
    BY DEF IInv, OneExceptionOneViolation
  <1>2. PICK x \in loaded : x.id = i
    BY DEF IInv, TypeOK, Consumed, IdsOf
  <1>3. InForce(x, now) /\ Matches(x, v, policy, report)
    BY <1>1, <1>2 DEF IInv, ConsumedIsNamed
  <1>4. Wellformed(x)
    BY DEF IInv, RunIsCoherent, Accepted
  <1> QED
    BY <1>3, <1>4, MatchIsExcusable

\* No exception changes the exit class of a run with an analysis error, an unmet
\* requirement or an unproven guard (classify_gate_exit).
THEOREM SetupDominates == Spec => []SetupOutranksExceptions
  <1>1. IInv => SetupOutranksExceptions
    <2> SUFFICES ASSUME IInv, Finished, exit # "setup_error",
                        NEW v \in violations, v.kind \in SetupKinds
                 PROVE  FALSE
      BY DEF SetupOutranksExceptions
    <2>1. v.kind \notin Excusable
      BY DEF SetupKinds, Excusable
    <2>2. v \in remaining
      BY <2>1, SuppressedIsNamed
    <2>3. exit = ExitClass(remaining)
      BY DEF IInv, ExitIsSettled, Finished
    <2> QED
      BY <2>2, <2>3 DEF ExitClass
  <1> QED
    BY <1>1, Invariance, PTL

\* A run that does not end with a setup error has no exception that has not
\* begun, has expired or is due for review (the loop of apply_evidence_exceptions).
THEOREM ExceptionsInForce ==
  Spec => [](Finished /\ exit # "setup_error" => \A x \in loaded : InForce(x, now))
  <1>1. IInv => (Finished /\ exit # "setup_error" => \A x \in loaded : InForce(x, now))
    <2> SUFFICES ASSUME IInv, Finished, exit # "setup_error", NEW x \in loaded
                 PROVE  InForce(x, now)
      OBVIOUS
    <2>1. /\ exit = ExitClass(remaining) /\ Pending = {}
          /\ Failed => AuditIssue \in remaining
      BY DEF IInv, ExitIsSettled, Finished
    <2>2. ~Failed
      BY <2>1 DEF ExitClass, AuditIssue, Issue, SetupKinds
    <2>3. x.id \in DOMAIN audit
      BY <2>1 DEF Pending
    <2>4. x.id \in Consumed
      BY <2>2, <2>3 DEF IInv, TypeOK, States, Consumed, Failed
    <2> QED
      BY <2>4 DEF IInv, ConsumedIsNamed
  <1> QED
    BY <1>1, Invariance, PTL

\* A selected requirement on a graph capability whose records for an endpoint
\* are not all analyzed is a violation, under a policy that asks for coverage.
LEMMA CoverageIsDemanded ==
  ASSUME NEW pol, NEW rep, pol.failOnIncompleteCoverage,
         NEW a, NEW c \in Capability, <<a, c>> \in SelectedCapabilities(pol, rep),
         NEW x \in rep.graph.coverage, x.capability = c, Source(rep.graph, x.provenance) = a,
         x.status # "analyzed"
  PROVE  \E v \in Violations(pol, rep) : v.kind = "incomplete_coverage"
  <1>1. PICK r \in SelectedRequirements(pol, rep) : r.adapter = a /\ r.capability = c
    BY DEF SelectedCapabilities
  <1>2. r \in RequiredCoverage(pol, rep) /\ x \in Recorded(rep.graph, r)
    BY <1>1 DEF RequiredCoverage, Recorded
  <1>3. Issue("incomplete_coverage", x.id, r.id) \in IncompleteRecords(pol, rep)
    BY <1>2 DEF IncompleteRecords
  <1>4. Issue("incomplete_coverage", x.id, r.id) \in Violations(pol, rep)
    BY <1>3 DEF CoverageViolations, Violations
  <1> QED
    BY <1>4 DEF Issue

\* What an assured endpoint's verdict costs under a strict policy.
LEMMA VerdictIsCharged ==
  ASSUME NEW pol, NEW rep, NEW e \in Endpoints(rep.graph), Assured(pol, rep, e),
         pol.failOnUnguarded, pol.failOnUnresolved,
         ~(Verdict(rep.graph, e) = "GUARDED" /\ ProvenBySelected(pol, rep, e))
  PROVE  \E v \in Violations(pol, rep) :
           v.subject = e.id /\ v.kind \in {"capability_requirement", "unguarded", "unresolved"}
  <1>1. Verdict(rep.graph, e) \in {"GUARDED", "UNGUARDED", "DECLARED_PUBLIC", "UNRESOLVED"}
    BY DEF Verdict
  <1>2. PICK v \in VerdictViolations(pol, rep, e) :
          v.subject = e.id /\ v.kind \in {"capability_requirement", "unguarded", "unresolved"}
    <2>1. CASE Verdict(rep.graph, e) = "GUARDED"
      <3>1. Issue("capability_requirement", e.id, None) \in VerdictViolations(pol, rep, e)
        BY <2>1 DEF VerdictViolations, When
      <3> QED
        BY <3>1 DEF Issue
    <2>2. CASE Verdict(rep.graph, e) \in {"UNGUARDED", "DECLARED_PUBLIC"}
      <3>1. Issue("unguarded", e.id, None) \in VerdictViolations(pol, rep, e)
        BY <2>2 DEF VerdictViolations, When
      <3> QED
        BY <3>1 DEF Issue
    <2>3. CASE Verdict(rep.graph, e) = "UNRESOLVED"
      <3>1. Issue("unresolved", e.id, None) \in VerdictViolations(pol, rep, e)
        BY <2>3 DEF VerdictViolations, When
      <3> QED
        BY <3>1 DEF Issue
    <2> QED
      BY <1>1, <2>1, <2>2, <2>3
  <1>3. v \in Violations(pol, rep)
    BY DEF PostureViolations, Violations
  <1> QED
    BY <1>2, <1>3

\* A satisfied strict policy: each assured endpoint is guarded by a selected
\* proof or named by an exception in force, and completely covered, and the
\* analysis met no error (evaluate_evidence_policy, apply_evidence_exceptions).
THEOREM PassMeansProtected == Spec => []PassIsEarned
  <1>1. IInv => PassIsEarned
    <2> SUFFICES ASSUME IInv, Finished, exit = "satisfied", policy.failOnUnguarded,
                        policy.failOnUnresolved, policy.failOnIncompleteCoverage
                 PROVE  /\ \A d \in report.graph.diagnostics : d.level # "error"
                        /\ \A e \in Endpoints(report.graph) : Assured(policy, report, e) =>
                             /\ \/ /\ Verdict(report.graph, e) = "GUARDED"
                                   /\ ProvenBySelected(policy, report, e)
                                \/ \E x \in loaded : InForce(x, now)
                                                     /\ x.identity.endpoint = <<e.kind, e.path>>
                             /\ Covered(report.graph, e)
      BY DEF PassIsEarned
    <2>1. /\ remaining = {} /\ violations = Violations(policy, report)
          /\ report \in Reports
      BY DEF IInv, ExitIsSettled, RunIsCoherent, Finished, ExitClass
    <2>2. \A v \in Violations(policy, report) :
            /\ v.kind \in Excusable
            /\ \E x \in loaded : InForce(x, now) /\ Matches(x, v, policy, report)
      BY <2>1, SuppressedIsNamed
    <2>3. UniqueIds(report.graph)
      BY <2>1, EvidenceGateAssumption DEF Valid, ValidReport
    <2>4. ASSUME NEW d \in report.graph.diagnostics PROVE d.level # "error"
      <3> SUFFICES ASSUME d.level = "error" PROVE FALSE
        OBVIOUS
      <3>1. Issue("analysis_error", d.id, None) \in Violations(policy, report)
        BY DEF Violations
      <3> QED
        BY <2>2, <3>1 DEF Issue, Excusable
    <2>5. ASSUME NEW e \in Endpoints(report.graph), Assured(policy, report, e)
          PROVE  \/ Verdict(report.graph, e) = "GUARDED" /\ ProvenBySelected(policy, report, e)
                 \/ \E x \in loaded : InForce(x, now) /\ x.identity.endpoint = <<e.kind, e.path>>
      <3> SUFFICES ASSUME ~(Verdict(report.graph, e) = "GUARDED" /\ ProvenBySelected(policy, report, e))
                   PROVE  \E x \in loaded : InForce(x, now) /\ x.identity.endpoint = <<e.kind, e.path>>
        OBVIOUS
      <3>1. PICK v \in Violations(policy, report) : v.subject = e.id
        BY <2>5, VerdictIsCharged
      <3>2. PICK x \in loaded : InForce(x, now) /\ Matches(x, v, policy, report)
        BY <2>2
      <3>3. PICK f \in Endpoints(report.graph) : f.id = e.id /\ <<f.kind, f.path>> = x.identity.endpoint
        BY <3>1, <3>2 DEF Matches
      <3>4. f = e
        <4>1. f \in report.graph.facts /\ e \in report.graph.facts
          BY DEF Endpoints
        <4>2. Groups(report.graph)[2] = report.graph.facts /\ 2 \in DOMAIN Groups(report.graph)
          BY DEF Groups
        <4> QED
          BY <2>3, <3>3, <4>1, <4>2 DEF UniqueIds
      <3> QED
        BY <3>2, <3>3, <3>4
    <2>6. ASSUME NEW e \in Endpoints(report.graph), Assured(policy, report, e)
          PROVE  Covered(report.graph, e)
      <3>1. PICK a \in {r.adapter : r \in policy.requirements} : \A c \in Capability :
              /\ <<a, c>> \in SelectedCapabilities(policy, report)
              /\ \E x \in report.graph.coverage : /\ x.target = e.id /\ x.capability = c
                                                  /\ Source(report.graph, x.provenance) = a
        BY <2>6 DEF Assured
      <3>2. ASSUME NEW c \in Capability
            PROVE  \E x \in report.graph.coverage : x.target = e.id /\ x.capability = c
                                                    /\ x.status = "analyzed"
        <4>1. PICK x \in report.graph.coverage : /\ x.target = e.id /\ x.capability = c
                                                 /\ Source(report.graph, x.provenance) = a
          BY <3>1
        <4>2. x.status = "analyzed"
          <5> SUFFICES ASSUME x.status # "analyzed" PROVE FALSE
            OBVIOUS
          <5>1. <<a, c>> \in SelectedCapabilities(policy, report)
            BY <3>1
          <5>2. PICK v \in Violations(policy, report) : v.kind = "incomplete_coverage"
            BY <4>1, <5>1, CoverageIsDemanded, Zenon
          <5> QED
            BY <2>2, <5>2 DEF Excusable
        <4> QED
          BY <4>1, <4>2
      <3> QED
        BY <3>2 DEF Covered
    <2> QED
      BY <2>4, <2>5, <2>6
  <1> QED
    BY <1>1, Invariance, PTL

\* A selected requirement's capability is verified and active.
LEMMA SelectedIsVerified ==
  ASSUME report \in Reports, NEW r \in SelectedRequirements(policy, report)
  PROVE  r \in policy.requirements /\ r.capability \in VerifiedOf(r.adapter)
  <1>1. PICK c \in Reported(report, r) : c.applicability = "active"
    BY DEF SelectedRequirements, RequirementMet
  <1>2. PICK d \in Reported(report, r) : d.maturity = "verified"
    BY DEF SelectedRequirements
  <1>3. c = d
    BY EvidenceGateAssumption DEF Reported, ValidReport
  <1>4. /\ c \in report.capabilities /\ c.adapter = r.adapter /\ c.capability = r.capability
        /\ c.maturity = "verified" /\ c.applicability = "active"
    BY <1>1, <1>2, <1>3 DEF Reported
  <1>5. r.capability \in VerifiedOf(r.adapter)
    BY <1>4 DEF VerifiedOf
  <1> QED
    BY <1>5 DEF SelectedRequirements

\* Advisory and experimental capabilities never fail a build with a violation
\* (_verified_assurance_endpoints and the coverage checks of
\* evaluate_evidence_policy).
THEOREM AdvisoryNeverBlocks == Spec => []OnlyVerifiedBlocks
  <1>1. IInv => OnlyVerifiedBlocks
    <2> SUFFICES ASSUME IInv, Finished, exit = "violation", NEW i \in remaining
                 PROVE  \E x \in report.graph.coverage :
                          LET adapter == Source(report.graph, x.provenance)
                          IN  /\ i.subject \in {x.id, x.target}
                              /\ \/ Capability \subseteq VerifiedOf(adapter)
                                 \/ /\ i.kind = "incomplete_coverage"
                                    /\ \E r \in policy.requirements :
                                         /\ r.id = i.requirement /\ r.adapter = adapter
                                         /\ r.capability \in VerifiedOf(adapter)
      BY DEF OnlyVerifiedBlocks
    <2>1. i.kind \notin SetupKinds
      BY DEF IInv, ExitIsSettled, Finished, ExitClass
    <2>2. i \in Violations(policy, report) /\ report \in Reports
      BY <2>1 DEF IInv, RunIsCoherent, Finished, AuditIssue, Issue, SetupKinds
    <2>3. \/ i \in PostureViolations(policy, report)
          \/ i \in CoverageViolations(policy, report)
      BY <2>1, <2>2 DEF Violations, Issue, SetupKinds
    <2>4. ASSUME NEW e \in Endpoints(report.graph), i \in VerdictViolations(policy, report, e)
          PROVE  \E x \in report.graph.coverage :
                   /\ i.subject = x.target
                   /\ Capability \subseteq VerifiedOf(Source(report.graph, x.provenance))
      <3>1. i.subject = e.id /\ Assured(policy, report, e)
        BY <2>4 DEF VerdictViolations, When, Issue
      <3>2. PICK a \in {r.adapter : r \in policy.requirements} : \A c \in Capability :
              /\ <<a, c>> \in SelectedCapabilities(policy, report)
              /\ \E x \in report.graph.coverage : /\ x.target = e.id /\ x.capability = c
                                                  /\ Source(report.graph, x.provenance) = a
        BY <3>1 DEF Assured
      <3>3. ASSUME NEW c \in Capability PROVE c \in VerifiedOf(a)
        <4>1. PICK r \in SelectedRequirements(policy, report) : r.adapter = a /\ r.capability = c
          BY <3>2 DEF SelectedCapabilities
        <4> QED
          BY <2>2, <4>1, SelectedIsVerified
      <3>4. PICK x \in report.graph.coverage : x.target = e.id /\ Source(report.graph, x.provenance) = a
        BY <3>2 DEF Capability
      <3> QED
        BY <3>1, <3>3, <3>4
    <2>5. ASSUME i \in CoverageViolations(policy, report)
          PROVE  \E x \in report.graph.coverage, r \in SelectedRequirements(policy, report) :
                   /\ i.subject \in {x.id, x.target} /\ r.adapter = Source(report.graph, x.provenance)
                   /\ r.id = i.requirement /\ i.kind = "incomplete_coverage"
      <3>1. CASE i \in IncompleteRecords(policy, report)
        <4>1. PICK r \in RequiredCoverage(policy, report) :
                \E c \in Recorded(report.graph, r) : i = Issue("incomplete_coverage", c.id, r.id)
          BY <3>1 DEF IncompleteRecords
        <4>2. PICK c \in Recorded(report.graph, r) : i = Issue("incomplete_coverage", c.id, r.id)
          BY <4>1
        <4> QED
          BY <4>2 DEF RequiredCoverage, Recorded, Issue
      <3>2. CASE i \in MissingRecords(policy, report)
        <4>1. PICK r \in RequiredCoverage(policy, report), e \in Endpoints(report.graph) :
                i = Issue("incomplete_coverage", e.id, r.id) /\ Owned(report.graph, e, r.adapter)
          BY <3>2 DEF MissingRecords
        <4> QED
          BY <4>1 DEF RequiredCoverage, Owned, Issue
      <3> QED
        BY <2>5, <3>1, <3>2 DEF CoverageViolations
    <2>6. CASE i \in PostureViolations(policy, report)
      <3>1. PICK e \in Endpoints(report.graph) : i \in VerdictViolations(policy, report, e)
        BY <2>6 DEF PostureViolations
      <3> QED
        BY <2>4, <3>1
    <2>7. CASE i \in CoverageViolations(policy, report)
      <3>1. PICK x \in report.graph.coverage, r \in SelectedRequirements(policy, report) :
              /\ i.subject \in {x.id, x.target} /\ r.adapter = Source(report.graph, x.provenance)
              /\ r.id = i.requirement /\ i.kind = "incomplete_coverage"
        BY <2>5, <2>7
      <3>2. r \in policy.requirements /\ r.capability \in VerifiedOf(r.adapter)
        BY <2>2, SelectedIsVerified
      <3> QED
        BY <3>1, <3>2
    <2> QED
      BY <2>3, <2>6, <2>7
  <1> QED
    BY <1>1, Invariance, PTL

-----------------------------------------------------------------------------
(* What the audit has spent *)

\* A violation of the evaluation is never the audit's own issue.
LEMMA AuditIsNoViolation ==
  ASSUME NEW pol, NEW rep
  PROVE  AuditIssue \notin Violations(pol, rep)
  <1> SUFFICES ASSUME AuditIssue \in Violations(pol, rep) PROVE FALSE
    OBVIOUS
  <1>1. AuditIssue.kind = "exception_audit"
    BY DEF AuditIssue, Issue
  <1>2. CASE AuditIssue \in CoverageViolations(pol, rep)
    BY <1>1, <1>2, CoverageKinds
  <1>3. CASE \E e \in Endpoints(rep.graph) : AuditIssue \in VerdictViolations(pol, rep, e)
    BY <1>1, <1>3 DEF VerdictViolations, When, Issue
  <1>4. CASE AuditIssue.kind \in {"analysis_error", "capability_requirement"}
    BY <1>1, <1>4
  <1> QED
    BY <1>2, <1>3, <1>4 DEF Violations, PostureViolations, Issue

\* _boundary_state finds an exception in force on every day it was granted for.
LEMMA InForceIsActive ==
  ASSUME NEW x \in ExceptionOptions, NEW d \in Nat, InForce(x, d)
  PROVE  BoundaryState(x, d) = "active"
  <1>1. /\ x.created \in Nat
        /\ x.expires \in Nat \cup {None} /\ x.review \in Nat \cup {None}
    BY EvidenceGateAssumption
  <1> QED
    BY <1>1, EvidenceGateAssumption DEF BoundaryState, InForce

\* The two ways an examination ends: the exception fails, and if it is in force
\* it does not name exactly one violation that is left; or it suppresses the
\* one it names.
LEMMA ExamineChoice ==
  ASSUME IInv, NEW x \in loaded, Examine(x)
  PROVE  /\ UNCHANGED <<today, phase, report, policy, violations, loaded, now, exit, previous>>
         /\ phase = "auditing" /\ x.id \notin DOMAIN audit
         /\ \A y \in Pending : x.id <= y.id
         /\ DOMAIN audit' = DOMAIN audit \cup {x.id}
         /\ \A i \in DOMAIN audit : audit'[i] = audit[i]
         /\ \/ /\ audit'[x.id].state \in FailedStates /\ remaining' = remaining
               /\ InForce(x, now) => \A i : Concerned(x) # {i}
            \/ /\ audit'[x.id].state = "consumed"
               /\ Concerned(x) = {audit'[x.id].issue}
               /\ remaining' = remaining \ {audit'[x.id].issue}
  <1>1. x \in ExceptionOptions /\ now \in Nat
    BY EvidenceGateAssumption DEF IInv, TypeOK, RunIsCoherent
  <1>2. /\ UNCHANGED <<today, phase, report, policy, violations, loaded, now, exit, previous>>
        /\ phase = "auditing" /\ x.id \notin DOMAIN audit
        /\ \A y \in Pending : x.id <= y.id
    BY DEF Examine, Due, Pending
  <1>3. /\ DOMAIN audit' = DOMAIN audit \cup {x.id}
        /\ \A i \in DOMAIN audit : audit'[i] = audit[i]
        /\ \/ audit'[x.id].state \in FailedStates /\ remaining' = remaining
           \/ /\ audit'[x.id].state = "consumed"
              /\ remaining' = remaining \ {audit'[x.id].issue}
    BY ExamineAudit
  <1>4. ASSUME NEW state, NEW issue, Note(x, state, issue)
        PROVE  audit'[x.id] = [state |-> state, issue |-> issue]
    BY <1>2, <1>4 DEF Note
  <1>5. "consumed" \notin FailedStates
    BY DEF FailedStates
  <1>6. CASE BoundaryState(x, now) # "active"
    <2>1. ~InForce(x, now)
      BY <1>1, <1>6, InForceIsActive
    <2>2. Note(x, BoundaryState(x, now), None) /\ remaining' = remaining
      BY <1>6 DEF Examine
    <2>3. audit'[x.id] = [state |-> BoundaryState(x, now), issue |-> None]
      BY <1>4, <2>2
    <2>4. BoundaryState(x, now) \in FailedStates
      BY <1>1, <1>6, BoundaryStateType
    <2> QED
      BY <1>2, <1>3, <2>1, <2>2, <2>3, <2>4
  <1>7. CASE BoundaryState(x, now) = "active" /\ Cardinality(Concerned(x)) # 1
             /\ Note(x, IF Concerned(x) = {} THEN "unmatched" ELSE "invalid", None)
             /\ remaining' = remaining
    <2>1. \A i : Concerned(x) # {i}
      BY <1>7, FS_Singleton
    <2> DEFINE failure == IF Concerned(x) = {} THEN "unmatched" ELSE "invalid"
    <2>2. Note(x, failure, None) /\ failure \in FailedStates
      BY <1>7 DEF FailedStates
    <2> HIDE DEF failure
    <2>3. audit'[x.id] = [state |-> failure, issue |-> None]
      BY <1>4, <2>2
    <2>4. audit'[x.id].state \in FailedStates
      BY <2>2, <2>3
    <2> QED
      BY <1>2, <1>3, <1>7, <2>1, <2>4
  <1>8. CASE \E i \in Concerned(x) : /\ Concerned(x) = {i} /\ Note(x, "consumed", i)
                                     /\ remaining' = remaining \ {i}
    <2>1. PICK i \in Concerned(x) : /\ Concerned(x) = {i} /\ Note(x, "consumed", i)
                                    /\ remaining' = remaining \ {i}
      BY <1>8
    <2>2. audit'[x.id] = [state |-> "consumed", issue |-> i]
      BY <1>4, <2>1
    <2> QED
      BY <1>2, <1>3, <2>1, <2>2
  <1> QED
    BY <1>6, <1>7, <1>8 DEF Examine

\* What an exception names among the violations that are left, when its turn
\* comes: what it names at all, without what those before it have suppressed.
LEMMA ConcernedIsLeft ==
  ASSUME IInv, NEW x \in loaded, phase = "auditing"
  PROVE  Concerned(x) = Named(x) \ {audit[y.id].issue : y \in {z \in loaded : z.id \in Consumed}}
  <1>1. remaining \subseteq violations
    BY DEF IInv, RunIsCoherent
  <1>2. violations \ remaining = {audit[i].issue : i \in Consumed}
    BY DEF IInv, OneExceptionOneViolation
  <1>3. \A i \in Consumed : \E y \in loaded : y.id = i
    BY DEF IInv, TypeOK, Consumed, IdsOf
  <1>4. {audit[i].issue : i \in Consumed} = {audit[y.id].issue : y \in {z \in loaded : z.id \in Consumed}}
    BY <1>3
  <1>5. Concerned(x) = Named(x) \ (violations \ remaining)
    BY <1>1 DEF Concerned, Named
  <1> QED
    BY <1>2, <1>4, <1>5

\* Exceptions have numbers and are told apart by them.
LEMMA LoadedIds ==
  ASSUME IInv
  PROVE  /\ \A x \in loaded : x.id \in Nat
         /\ \A x, y \in loaded : x.id = y.id => x = y
         /\ \A x \in loaded : Wellformed(x)
  BY EvidenceGateAssumption DEF IInv, TypeOK, RunIsCoherent, Accepted

\* Examining an exception keeps the order and the account of what was spent.
LEMMA ExamineInTurn ==
  ASSUME IInv, SpentInTurn, NEW x \in loaded, Examine(x)
  PROVE  SpentInTurn'
  <1>1. /\ UNCHANGED <<today, phase, report, policy, violations, loaded, now, exit, previous>>
        /\ phase = "auditing" /\ x.id \notin DOMAIN audit
        /\ \A y \in Pending : x.id <= y.id
        /\ DOMAIN audit' = DOMAIN audit \cup {x.id}
        /\ \A i \in DOMAIN audit : audit'[i] = audit[i]
        /\ \/ audit'[x.id].state \in FailedStates
           \/ audit'[x.id].state = "consumed" /\ Concerned(x) = {audit'[x.id].issue}
    BY ExamineChoice
  <1>2. /\ \A y \in loaded : y.id \in Nat
        /\ \A y, z \in loaded : y.id = z.id => y = z
    BY LoadedIds
  <1>3. \A y, z \in loaded : y.id \in DOMAIN audit /\ z.id \notin DOMAIN audit => y.id < z.id
    BY DEF SpentInTurn
  <1>4. \A y, z \in loaded : y.id \in DOMAIN audit' /\ z.id \notin DOMAIN audit' => y.id < z.id
    <2> SUFFICES ASSUME NEW y \in loaded, NEW z \in loaded,
                        y.id \in DOMAIN audit', z.id \notin DOMAIN audit'
                 PROVE  y.id < z.id
      OBVIOUS
    <2>1. CASE y.id \in DOMAIN audit
      BY <1>1, <1>3, <2>1
    <2>2. CASE y.id = x.id
      <3>1. z \in Pending /\ z.id # x.id
        BY <1>1 DEF Pending
      <3> QED
        BY <1>1, <1>2, <2>2, <3>1
    <2> QED
      BY <1>1, <2>1, <2>2
  <1>5. \A i \in Consumed : i \in DOMAIN audit /\ i # x.id /\ i \in Consumed' /\ audit'[i] = audit[i]
    BY <1>1 DEF Consumed
  <1>6. \A i \in Consumed' : i \in Consumed \/ i = x.id
    BY <1>1, <1>5 DEF Consumed
  <1>7. \A y \in loaded : Named(y)' = Named(y)
    BY <1>1 DEF Named
  <1>8. ASSUME NEW y \in loaded, y.id \in DOMAIN audit
        PROVE  /\ Before(y)' = Before(y)
               /\ {audit'[z.id].issue : z \in Before(y)'} = {audit[z.id].issue : z \in Before(y)}
    <2>1. y.id < x.id
      BY <1>1, <1>3, <1>8
    <2>2. ~(x.id < y.id)
      BY <1>2, <2>1
    <2>3. Before(y)' = Before(y)
      BY <1>1, <1>5, <1>6, <2>2 DEF Before
    <2>4. \A z \in Before(y) : audit'[z.id] = audit[z.id]
      BY <1>5 DEF Before
    <2> QED
      BY <2>3, <2>4
  <1>9. ASSUME NEW y \in loaded, y.id \in Consumed'
        PROVE  Named(y) \ {audit'[z.id].issue : z \in Before(y)'} = {audit'[y.id].issue}
    <2>1. CASE y.id \in Consumed
      <3>1. Named(y) \ {audit[z.id].issue : z \in Before(y)} = {audit[y.id].issue}
        BY <2>1 DEF SpentInTurn
      <3>2. y.id \in DOMAIN audit /\ audit'[y.id] = audit[y.id]
        BY <1>5, <2>1
      <3> QED
        BY <1>8, <3>1, <3>2
    <2>2. CASE y.id = x.id
      <3>1. y = x
        BY <1>2, <2>2
      <3>2. Concerned(x) = {audit'[x.id].issue}
        <4>1. audit'[x.id].state = "consumed" /\ "consumed" \notin FailedStates
          BY <1>9, <2>2 DEF Consumed, FailedStates
        <4> QED
          BY <1>1, <4>1
      <3>3. Before(x)' = {z \in loaded : z.id \in Consumed}
        <4>1. \A z \in loaded : z.id \in Consumed => z.id < x.id
          BY <1>1, <1>3, <1>5
        <4>2. ~(x.id < x.id)
          BY <1>2
        <4> QED
          BY <1>1, <1>5, <1>6, <4>1, <4>2 DEF Before
      <3>4. \A z \in Before(x)' : audit'[z.id] = audit[z.id]
        BY <1>5, <3>3
      <3>5. {audit'[z.id].issue : z \in Before(x)'} = {audit[z.id].issue : z \in {w \in loaded : w.id \in Consumed}}
        BY <3>3, <3>4
      <3> QED
        BY <1>1, <3>1, <3>2, <3>5, ConcernedIsLeft
    <2> QED
      BY <1>6, <1>9, <2>1, <2>2
  <1> QED
    BY <1>1, <1>4, <1>7, <1>9 DEF SpentInTurn

\* Examining an exception follows the plan, if there is one.
LEMMA ExamineFollowsPlan ==
  ASSUME IInv, SpentInTurn, PlanIsFollowed, NEW x \in loaded, Examine(x)
  PROVE  PlanIsFollowed'
  <1>1. /\ UNCHANGED <<today, phase, report, policy, violations, loaded, now, exit, previous>>
        /\ phase = "auditing" /\ x.id \notin DOMAIN audit
        /\ \A y \in Pending : x.id <= y.id
        /\ DOMAIN audit' = DOMAIN audit \cup {x.id}
        /\ \A i \in DOMAIN audit : audit'[i] = audit[i]
        /\ \/ InForce(x, now) => \A i : Concerned(x) # {i}
           \/ audit'[x.id].state = "consumed" /\ Concerned(x) = {audit'[x.id].issue}
    BY ExamineChoice
  <1>2. /\ \A y \in loaded : y.id \in Nat
        /\ \A y, z \in loaded : y.id = z.id => y = z
    BY LoadedIds
  <1>3. SUFFICES ASSUME NEW plan \in [loaded -> violations], Plan(plan, loaded, now, policy, report),
                        NEW y \in loaded, y.id \in DOMAIN audit'
                 PROVE  y.id \in Consumed' /\ audit'[y.id].issue = plan[y]
    BY <1>1 DEF PlanIsFollowed
  <1>4. \A z \in loaded : z.id \in DOMAIN audit => z.id \in Consumed /\ audit[z.id].issue = plan[z]
    BY <1>3 DEF PlanIsFollowed
  <1>5. CASE y.id \in DOMAIN audit
    BY <1>1, <1>4, <1>5 DEF Consumed
  <1>6. CASE y.id = x.id
    <2>1. y = x
      BY <1>2, <1>6
    <2>2. {z \in loaded : z.id \in Consumed} = {z \in loaded : z.id < x.id}
      <3>1. ASSUME NEW z \in loaded, z.id \in Consumed PROVE z.id < x.id
        BY <1>1, <3>1 DEF SpentInTurn, Consumed
      <3>2. ASSUME NEW z \in loaded, z.id < x.id PROVE z.id \in Consumed
        <4>1. z \notin Pending
          BY <1>1, <1>2, <3>2
        <4> QED
          BY <1>4, <4>1 DEF Pending
      <3> QED
        BY <3>1, <3>2
    <2>3. \A z \in {w \in loaded : w.id < x.id} : audit[z.id].issue = plan[z]
      BY <1>4, <2>2 DEF Consumed
    <2>4. {audit[z.id].issue : z \in {w \in loaded : w.id \in Consumed}} = {plan[z] : z \in {w \in loaded : w.id < x.id}}
      BY <2>2, <2>3
    <2>5. violations = Violations(policy, report)
      BY <1>1 DEF IInv, RunIsCoherent
    <2>6. InForce(x, now) /\ Named(x) \ {plan[z] : z \in {w \in loaded : w.id < x.id}} = {plan[x]}
      BY <1>3, <2>5 DEF Plan, Named
    <2>7. Concerned(x) = {plan[x]}
      BY <1>1, <2>4, <2>6, ConcernedIsLeft
    <2>8. audit'[x.id].state = "consumed" /\ {audit'[x.id].issue} = {plan[x]}
      BY <1>1, <2>6, <2>7
    <2>9. x.id \in Consumed'
      BY <1>1, <2>8 DEF Consumed
    <2> QED
      BY <2>1, <2>8, <2>9
  <1> QED
    BY <1>1, <1>3, <1>5, <1>6

\* An endpoint whose verdict is a violation has a record of every capability,
\* and they are all of the adapter that wrote the report.
LEMMA ViolationIsRecorded ==
  ASSUME NEW pol, NEW rep \in Reports, NEW v \in Violations(pol, rep), v.kind \in Excusable,
         NEW e \in Endpoints(rep.graph), e.id = v.subject,
         NEW c \in rep.graph.coverage
  PROVE  \E d \in rep.graph.coverage :
           /\ d.target = e.id /\ d.capability = c.capability
           /\ Source(rep.graph, d.provenance) = Source(rep.graph, c.provenance)
  <1>1. PICK f \in Endpoints(rep.graph) : v \in VerdictViolations(pol, rep, f)
    <2>1. v \notin CoverageViolations(pol, rep)
      BY CoverageKinds DEF Excusable
    <2>2. v.kind \notin {"analysis_error", "capability_requirement"}
      BY DEF Excusable
    <2> QED
      BY <2>1, <2>2 DEF Violations, PostureViolations, Issue
  <1>2. f.id = e.id /\ Assured(pol, rep, f)
    BY <1>1 DEF VerdictViolations, When, Issue
  <1>3. /\ c.capability \in Capability
        /\ \A p, q \in rep.graph.provenance : p.adapter = q.adapter
    BY OneAdapterAssumption DEF OneAdapter
  <1>4. PICK d \in rep.graph.coverage : d.target = f.id /\ d.capability = c.capability
    BY <1>2, <1>3 DEF Assured
  <1>5. ASSUME NEW r \in rep.graph.coverage
        PROVE  \E p \in rep.graph.provenance : Source(rep.graph, r.provenance) = p.adapter
    <2>1. PICK p \in rep.graph.provenance : p.id = r.provenance
      BY EvidenceGateAssumption DEF ValidReport, Valid, ReferencesAreKnown
    <2>2. ById(rep.graph.provenance, r.provenance) \in rep.graph.provenance
      BY <2>1 DEF ById
    <2> QED
      BY <2>2 DEF Source
  <1>6. PICK p \in rep.graph.provenance : Source(rep.graph, c.provenance) = p.adapter
    BY <1>5
  <1>7. PICK q \in rep.graph.provenance : Source(rep.graph, d.provenance) = q.adapter
    BY <1>5
  <1>8. Source(rep.graph, d.provenance) = Source(rep.graph, c.provenance)
    BY <1>3, <1>6, <1>7
  <1> QED
    BY <1>2, <1>4, <1>8

\* Two exceptions that name one violation in common name the same ones.
LEMMA NamesCoincide ==
  ASSUME NEW pol, NEW rep \in Reports, NEW v \in Violations(pol, rep), NEW w \in Violations(pol, rep),
         NEW x, NEW y, Wellformed(x), Wellformed(y),
         Matches(x, v, pol, rep), Matches(y, v, pol, rep), Matches(x, w, pol, rep)
  PROVE  Matches(y, w, pol, rep)
  <1> DEFINE g == rep.graph
  <1>1. PICK e \in Endpoints(g) : e.id = v.subject /\ <<e.kind, e.path>> = x.identity.endpoint
    BY DEF Matches
  <1>2. PICK d \in Endpoints(g), c \in g.coverage :
          /\ d.id = v.subject /\ <<d.kind, d.path>> = y.identity.endpoint
          /\ c.target = d.id /\ c.capability = y.identity.capability
          /\ Source(g, c.provenance) = y.identity.adapter
    BY DEF Matches
  <1>3. PICK f \in Endpoints(g) : /\ f.id = w.subject /\ f.path # None
                                  /\ <<f.kind, f.path>> = x.identity.endpoint
    BY DEF Matches
  <1>4. d = e
    <2>1. d \in g.facts /\ e \in g.facts
      BY DEF Endpoints
    <2>2. Groups(g)[2] = g.facts /\ 2 \in DOMAIN Groups(g)
      BY DEF Groups
    <2>3. UniqueIds(g)
      BY EvidenceGateAssumption DEF Valid, ValidReport
    <2> QED
      BY <1>1, <1>2, <2>1, <2>2, <2>3 DEF UniqueIds
  <1>5. w.kind \in Excusable
    BY MatchIsExcusable
  <1>6. PICK b \in g.coverage : /\ b.target = f.id /\ b.capability = c.capability
                                /\ Source(g, b.provenance) = Source(g, c.provenance)
    BY <1>3, <1>5, ViolationIsRecorded
  <1>7. y.identity.violation = w.kind
    BY DEF Matches
  <1>8. <<f.kind, f.path>> = y.identity.endpoint
    BY <1>1, <1>2, <1>3, <1>4
  <1>9. \E a \in Endpoints(g) :
          /\ a.id = w.subject /\ a.path # None
          /\ <<a.kind, a.path>> = y.identity.endpoint
          /\ \E r \in g.coverage : /\ r.target = a.id /\ r.capability = y.identity.capability
                                   /\ Source(g, r.provenance) = y.identity.adapter
    BY <1>2, <1>3, <1>6, <1>8
  <1>10. /\ y.identity.policy = pol.id
         /\ \E r \in pol.requirements : /\ r.adapter = y.identity.adapter
                                        /\ r.capability = y.identity.capability
                                        /\ r.minimum = y.identity.maturity
         /\ \E r \in rep.capabilities : /\ r.adapter = y.identity.adapter
                                        /\ r.capability = y.identity.capability
                                        /\ r.maturity = y.identity.maturity
                                        /\ r.applicability = "active"
    BY DEF Matches
  <1> QED
    BY <1>7, <1>9, <1>10 DEF Matches

\* With one adapter, what was spent before makes no difference to an examination.
LEMMA ExamineAlone ==
  ASSUME IInv, SpentAlone, NEW x \in loaded, Examine(x)
  PROVE  SpentAlone'
  <1>1. /\ UNCHANGED <<today, phase, report, policy, violations, loaded, now, exit, previous>>
        /\ phase = "auditing" /\ x.id \notin DOMAIN audit
        /\ DOMAIN audit' = DOMAIN audit \cup {x.id}
        /\ \A i \in DOMAIN audit : audit'[i] = audit[i]
        /\ \/ /\ audit'[x.id].state \in FailedStates /\ remaining' = remaining
              /\ InForce(x, now) => \A i : Concerned(x) # {i}
           \/ /\ audit'[x.id].state = "consumed"
              /\ Concerned(x) = {audit'[x.id].issue}
              /\ remaining' = remaining \ {audit'[x.id].issue}
    BY ExamineChoice
  <1>2. \A y, z \in loaded : y.id = z.id => y = z
    BY LoadedIds
  <1>3. /\ report \in Reports /\ violations = Violations(policy, report) /\ remaining \subseteq violations
    BY <1>1 DEF IInv, RunIsCoherent
  <1>4. \A y \in loaded : Named(y)' = Named(y) /\ (InForce(y, now))' = InForce(y, now)
    BY <1>1 DEF Named, InForce
  <1>5. Concerned(x) = Named(x) \cap remaining
    BY <1>3 DEF Concerned, Named
  <1>6. ASSUME NEW i, Concerned(x) = {i} PROVE Named(x) = {i}
    <2>1. i \in Named(x) /\ i \in remaining
      BY <1>5, <1>6
    <2> SUFFICES ASSUME NEW j \in Named(x), j # i PROVE FALSE
      BY <2>1
    <2>2. j \in violations \ remaining
      BY <1>5, <1>6 DEF Named
    <2>3. PICK k \in Consumed : j = audit[k].issue
      BY <2>2 DEF IInv, OneExceptionOneViolation
    <2>4. PICK y \in loaded : y.id = k
      BY DEF IInv, TypeOK, Consumed, IdsOf
    <2>5. Named(y) = {j}
      BY <2>3, <2>4 DEF SpentAlone
    <2>6. Matches(y, j, policy, report) /\ Matches(x, j, policy, report) /\ Matches(x, i, policy, report)
      BY <2>1, <2>5 DEF Named
    <2>7. i \in violations /\ j \in violations
      BY <1>3, <2>1, <2>2
    <2>8. Wellformed(x) /\ Wellformed(y)
      BY LoadedIds
    <2>9. Matches(y, i, policy, report)
      BY <1>3, <2>6, <2>7, <2>8, NamesCoincide
    <2> QED
      BY <2>5, <2>7, <2>9 DEF Named
  <1>7. ASSUME NEW y \in loaded, y.id \in Consumed'
        PROVE  Named(y) = {audit'[y.id].issue}
    <2>1. CASE y.id = x.id
      <3>1. audit'[x.id].state = "consumed" /\ "consumed" \notin FailedStates
        BY <1>7, <2>1 DEF Consumed, FailedStates
      <3> QED
        BY <1>1, <1>2, <1>6, <2>1, <3>1
    <2>2. CASE y.id # x.id
      <3>1. y.id \in Consumed /\ audit'[y.id] = audit[y.id]
        BY <1>1, <1>7, <2>2 DEF Consumed
      <3> QED
        BY <3>1 DEF SpentAlone
    <2> QED
      BY <2>1, <2>2
  <1>8. ASSUME NEW y \in loaded, NEW v \in violations, y.id \in DOMAIN audit', InForce(y, now), Named(y) = {v}
        PROVE  v \notin remaining'
    <2>1. CASE y.id \in DOMAIN audit
      <3>1. v \notin remaining
        BY <1>8, <2>1 DEF SpentAlone
      <3> QED
        BY <1>1, <3>1
    <2>2. CASE y.id = x.id
      <3>1. y = x
        BY <1>2, <2>2
      <3>2. CASE v \in remaining
        <4>1. Concerned(x) = {v}
          BY <1>5, <1>8, <3>1, <3>2
        <4> QED
          BY <1>1, <1>8, <3>1, <4>1
      <3> QED
        BY <1>1, <3>2
    <2> QED
      BY <1>1, <1>8, <2>1, <2>2
  <1> QED
    BY <1>1, <1>4, <1>7, <1>8 DEF SpentAlone

\* Before the first command nothing was spent.
LEMMA InitAudit == Init => AuditInv
  BY DEF Init, AuditInv, SpentInTurn, AuditIsComplete, SpentAlone, PlanIsFollowed, PreviousIsSettled,
         Consumed, Finished, Pending

\* Days pass and the document is edited, the run stays as it is.
LEMMA OutsideAudit ==
  ASSUME IInv, AuditInv, UNCHANGED <<phase, runVars>>, today' \in Nat, today <= today'
  PROVE  AuditInv'
  <1> USE DEF runVars
  <1>1. SpentInTurn'
    BY DEF AuditInv, SpentInTurn, Consumed, Named, Before
  <1>2. SpentAlone'
    BY DEF AuditInv, SpentAlone, Consumed, Named, InForce
  <1>3. PlanIsFollowed'
    BY DEF AuditInv, PlanIsFollowed, Plan, Consumed
  <1>4. today \in Nat /\ (now # None => now \in Nat)
    BY EvidenceGateAssumption DEF IInv, TypeOK
  <1>5. AuditIsComplete'
    BY <1>4 DEF AuditInv, AuditIsComplete, Finished, Pending, Failed
  <1>6. PreviousIsSettled'
    <2> DEFINE P == \A plan \in [previous.loaded -> Violations(previous.policy, previous.report)] :
                      Plan(plan, previous.loaded, previous.now, previous.policy, previous.report) =>
                        previous.exit = ExitClass(Violations(previous.policy, previous.report)
                                                    \ {plan[x] : x \in previous.loaded})
    <2>1. P' <=> P
      BY DEF Plan
    <2> HIDE DEF P
    <2> SUFFICES ASSUME previous # None
                 PROVE  /\ previous.exit \in Exits /\ previous.now \in 0 .. today'
                        /\ now # None => previous.now <= now
                        /\ phase # "idle" => report = previous.report /\ policy = previous.policy
                        /\ Finished => now # None \/ exit = "setup_error"
                        /\ P
      BY <2>1 DEF PreviousIsSettled, P, Finished
    <2>2. previous.now \in 0 .. today
      BY DEF AuditInv, PreviousIsSettled
    <2>3. previous.now \in 0 .. today'
      BY <1>4, <2>2
    <2> QED
      BY <2>3 DEF AuditInv, PreviousIsSettled, P
  <1> QED
    BY <1>1, <1>2, <1>3, <1>5, <1>6 DEF AuditInv

\* A run that starts has spent nothing.
LEMMA StartAudit ==
  ASSUME IInv, AuditInv, NEW pol \in Policies, NEW rep \in Reports, NEW audited \in BOOLEAN,
         Start(pol, rep, audited)
  PROVE  AuditInv'
  <1>1. /\ loaded = {} /\ audit = <<>> /\ loaded' = {} /\ audit' = <<>>
        /\ UNCHANGED <<today, now, previous>>
        /\ remaining' = violations' /\ now = None /\ now' = None
        /\ phase' \in {"gated", "done"} /\ phase' # "auditing"
    BY DEF IInv, RunIsCoherent, AuditInv, AuditIsComplete, Start
  <1>2. SpentInTurn' /\ SpentAlone' /\ PlanIsFollowed'
    BY <1>1 DEF SpentInTurn, SpentAlone, PlanIsFollowed
  <1>3. AuditIsComplete'
    BY <1>1 DEF AuditIsComplete, Finished, Pending
  <1>4. PreviousIsSettled'
    <2>1. previous # None => /\ phase' = "gated" /\ report' = previous.report /\ policy' = previous.policy
      BY DEF Start
    <2> QED
      BY <1>1, <2>1 DEF AuditInv, PreviousIsSettled, Finished, Plan
  <1> QED
    BY <1>2, <1>3, <1>4 DEF AuditInv

\* Reading the document spends nothing; the clock is read on the same day.
LEMMA LoadAudit ==
  ASSUME IInv, AuditInv, Load
  PROVE  AuditInv'
  <1>1. /\ loaded = {} /\ audit = <<>> /\ audit' = <<>> /\ now = None
        /\ phase = "gated" /\ remaining = violations
        /\ UNCHANGED <<today, report, policy, violations, remaining, previous>>
        /\ \/ phase' = "auditing" /\ now' = today
           \/ phase' = "done" /\ now' = now /\ exit' = "setup_error" /\ loaded' = loaded
    BY DEF IInv, RunIsCoherent, AuditInv, AuditIsComplete, Load
  <1>2. today \in Nat /\ today # None
    BY EvidenceGateAssumption DEF IInv, TypeOK
  <1>3. SpentInTurn' /\ SpentAlone' /\ PlanIsFollowed'
    BY <1>1 DEF SpentInTurn, SpentAlone, PlanIsFollowed, Consumed
  <1>4. AuditIsComplete'
    BY <1>1, <1>2 DEF AuditIsComplete, Finished, Pending
  <1>5. PreviousIsSettled'
    BY <1>1, <1>2 DEF AuditInv, PreviousIsSettled, Finished, Plan
  <1> QED
    BY <1>3, <1>4, <1>5 DEF AuditInv

\* Examining an exception keeps the account.
LEMMA ExamineKeepsAccount ==
  ASSUME IInv, AuditInv, NEW x \in loaded, Examine(x)
  PROVE  AuditInv'
  <1>1. /\ UNCHANGED <<today, phase, report, policy, violations, loaded, now, exit, previous>>
        /\ phase = "auditing"
        /\ remaining' \subseteq remaining
    BY ExamineChoice
  <1>2. SpentInTurn' /\ SpentAlone' /\ PlanIsFollowed'
    BY ExamineInTurn, ExamineAlone, ExamineFollowsPlan DEF AuditInv
  <1>3. remaining \subseteq violations
    BY <1>1 DEF IInv, RunIsCoherent
  <1>4. AuditIsComplete'
    BY <1>1, <1>3 DEF AuditInv, AuditIsComplete, Finished
  <1>5. PreviousIsSettled'
    BY <1>1 DEF AuditInv, PreviousIsSettled, Finished, Plan
  <1> QED
    BY <1>2, <1>4, <1>5 DEF AuditInv

\* So does closing the audit.
LEMMA ConcludeAudit ==
  ASSUME IInv, AuditInv, Conclude
  PROVE  AuditInv'
  <1>1. /\ UNCHANGED <<today, document, report, policy, violations, loaded, now, audit, previous>>
        /\ phase = "auditing" /\ phase' = "done" /\ Pending = {}
        /\ remaining' = remaining \cup When(Failed, AuditIssue)
        /\ exit' = ExitClass(remaining')
    BY DEF Conclude
  <1>2. \A i \in remaining' : i \in remaining \/ (i = AuditIssue /\ Failed)
    BY <1>1 DEF When
  <1>3. remaining \subseteq violations /\ violations = Violations(policy, report)
    BY <1>1 DEF IInv, RunIsCoherent
  <1>4. AuditIssue \notin violations
    BY <1>3, AuditIsNoViolation
  <1>5. SpentInTurn' /\ PlanIsFollowed'
    BY <1>1 DEF AuditInv, SpentInTurn, PlanIsFollowed, Plan, Consumed, Named, Before
  <1>6. SpentAlone'
    <2>1. \A y \in loaded : y.id \in Consumed => Named(y) = {audit[y.id].issue}
      BY DEF AuditInv, SpentAlone
    <2>2. \A y \in loaded, v \in violations :
            y.id \in DOMAIN audit /\ InForce(y, now) /\ Named(y) = {v} => v \notin remaining
      BY DEF AuditInv, SpentAlone
    <2>3. \A v \in violations : v \notin remaining => v \notin remaining'
      BY <1>2, <1>4
    <2> QED
      BY <1>1, <2>1, <2>2, <2>3 DEF SpentAlone, Named, Consumed, InForce
  <1>7. AuditIsComplete'
    <2>1. Pending' = {} /\ (Failed' <=> Failed)
      BY <1>1 DEF Pending, Failed
    <2>2. remaining' \subseteq violations' \/ Failed'
      BY <1>1, <1>2, <1>3, <2>1
    <2> QED
      BY <1>1, <2>1, <2>2 DEF AuditInv, AuditIsComplete, Finished
  <1>8. PreviousIsSettled'
    <2>1. now # None
      BY <1>1 DEF AuditInv, AuditIsComplete
    <2> QED
      BY <1>1, <2>1 DEF AuditInv, PreviousIsSettled, Finished, Plan
  <1> QED
    BY <1>5, <1>6, <1>7, <1>8 DEF AuditInv

\* A finished run that had a plan leaves what the plan did not name.
LEMMA PlanDecides ==
  ASSUME IInv, AuditInv, Finished, now # None,
         NEW plan \in [loaded -> violations], Plan(plan, loaded, now, policy, report)
  PROVE  exit = ExitClass(violations \ {plan[x] : x \in loaded})
  <1>1. \A x \in loaded : x.id \in DOMAIN audit
    BY DEF AuditInv, AuditIsComplete, Pending
  <1>2. \A x \in loaded : x.id \in Consumed /\ audit[x.id].issue = plan[x]
    BY <1>1 DEF AuditInv, PlanIsFollowed
  <1>3. \A i \in DOMAIN audit : \E x \in loaded : x.id = i
    BY DEF IInv, TypeOK, IdsOf
  <1>4. ~Failed
    BY <1>2, <1>3 DEF Failed, Consumed, FailedStates
  <1>5. {audit[i].issue : i \in Consumed} = {plan[x] : x \in loaded}
    <2>1. \A i \in Consumed : \E x \in loaded : x.id = i
      BY <1>3 DEF Consumed
    <2> QED
      BY <1>2, <2>1
  <1>6. violations \ remaining = {plan[x] : x \in loaded}
    BY <1>5 DEF IInv, OneExceptionOneViolation
  <1>7. remaining \subseteq violations
    BY <1>4 DEF AuditInv, AuditIsComplete
  <1>8. remaining = violations \ {plan[x] : x \in loaded}
    BY <1>6, <1>7
  <1> QED
    BY <1>8 DEF AuditInv, AuditIsComplete

\* The command ends, and what it did may be remembered.
LEMMA ReturnAudit ==
  ASSUME IInv, AuditInv, NEW remembered \in BOOLEAN,
         remembered => now # None /\ document = loaded, Return(remembered)
  PROVE  AuditInv'
  <1>1. /\ UNCHANGED <<today, document>> /\ phase = "done" /\ phase' = "idle"
        /\ remaining' = {} /\ violations' = {} /\ loaded' = {} /\ audit' = <<>> /\ now' = None
    BY DEF Return
  <1>2. SpentInTurn' /\ SpentAlone' /\ PlanIsFollowed'
    BY <1>1 DEF SpentInTurn, SpentAlone, PlanIsFollowed
  <1>3. AuditIsComplete'
    BY <1>1 DEF AuditIsComplete, Finished
  <1>4. CASE previous' = None
    BY <1>2, <1>3, <1>4 DEF AuditInv, PreviousIsSettled
  <1>5. CASE /\ remembered
             /\ previous' = [report |-> report, policy |-> policy, loaded |-> loaded,
                             now |-> now, exit |-> exit]
    <2>1. /\ previous'.report = report /\ previous'.policy = policy /\ previous'.loaded = loaded
          /\ previous'.now = now /\ previous'.exit = exit
      BY <1>5
    <2>2. now # None /\ now \in 0 .. MaxDay /\ now <= today /\ today \in Nat /\ MaxDay \in Nat
      BY <1>5, EvidenceGateAssumption DEF IInv, TypeOK, AuditInv, AuditIsComplete
    <2>3. now \in 0 .. today'
      BY <1>1, <2>2
    <2>4. exit \in Exits
      BY <1>1, <2>2, ExitClassType DEF AuditInv, AuditIsComplete, Finished
    <2>5. violations = Violations(policy, report)
      BY <1>1 DEF IInv, RunIsCoherent
    <2>6. \A plan \in [loaded -> violations] : Plan(plan, loaded, now, policy, report) =>
            exit = ExitClass(violations \ {plan[x] : x \in loaded})
      BY <1>1, <2>2, PlanDecides DEF Finished
    <2>7. PreviousIsSettled'
      <3>1. /\ previous'.exit \in Exits /\ previous'.now \in 0 .. today'
            /\ \A plan \in [previous'.loaded -> Violations(previous'.policy, previous'.report)] :
                 Plan(plan, previous'.loaded, previous'.now, previous'.policy, previous'.report) =>
                   previous'.exit = ExitClass(Violations(previous'.policy, previous'.report)
                                                \ {plan[x] : x \in previous'.loaded})
        BY <2>1, <2>3, <2>4, <2>5, <2>6
      <3> QED
        BY <1>1, <3>1 DEF PreviousIsSettled, Finished, Plan
    <2> QED
      BY <1>2, <1>3, <2>7 DEF AuditInv
  <1> QED
    BY <1>4, <1>5 DEF Return

\* AuditInv is inductive, given IInv.
LEMMA NextAudit == IInv /\ IInv' /\ AuditInv /\ [Next]_vars => AuditInv'
  <1> SUFFICES ASSUME IInv, IInv', AuditInv, [Next]_vars PROVE AuditInv'
    OBVIOUS
  <1>1. today \in Nat /\ today' \in Nat /\ today <= today
    BY EvidenceGateAssumption DEF IInv, TypeOK
  <1>2. CASE Tick
    BY <1>1, <1>2, OutsideAudit DEF Tick
  <1>3. ASSUME NEW x \in ExceptionOptions, Grant(x) PROVE AuditInv'
    BY <1>1, <1>3, OutsideAudit DEF Grant
  <1>4. ASSUME NEW x \in document, Withdraw(x) PROVE AuditInv'
    BY <1>1, <1>4, OutsideAudit DEF Withdraw
  <1>5. ASSUME NEW x \in document, NEW y \in ExceptionOptions, Replace(x.id, y) PROVE AuditInv'
    BY <1>1, <1>5, OutsideAudit DEF Replace
  <1>6. ASSUME NEW pol \in Policies, NEW rep \in Reports, NEW audited \in BOOLEAN,
               Start(pol, rep, audited)
        PROVE  AuditInv'
    BY <1>6, StartAudit
  <1>7. CASE Load
    BY <1>7, LoadAudit
  <1>8. ASSUME NEW x \in loaded, Examine(x) PROVE AuditInv'
    BY <1>8, ExamineKeepsAccount
  <1>9. CASE Conclude
    BY <1>9, ConcludeAudit
  <1>10. ASSUME NEW remembered \in BOOLEAN, remembered => now # None /\ document = loaded,
                Return(remembered)
         PROVE  AuditInv'
    BY <1>10, ReturnAudit
  <1>11. CASE UNCHANGED vars
    BY <1>1, <1>11, OutsideAudit DEF vars, runVars
  <1> QED
    BY <1>2, <1>3, <1>4, <1>5, <1>6, <1>7, <1>8, <1>9, <1>10, <1>11 DEF Next

\* The account of the audit is kept at every step of every run.
THEOREM AccountIsKept == Spec => []AuditInv
  <1> QED
    BY InitAudit, NextAudit, Invariance, PTL DEF Spec

\* When the command does not end with a setup error no exception has failed:
\* each one was examined and has suppressed the violation it names.
LEMMA NothingFailed ==
  ASSUME IInv, AuditInv, Finished, exit # "setup_error"
  PROVE  /\ ~Failed
         /\ \A x \in loaded : x.id \in Consumed
  <1>1. exit = ExitClass(remaining) /\ (Failed => AuditIssue \in remaining)
    BY DEF IInv, ExitIsSettled, Finished
  <1>2. AuditIssue.kind \in SetupKinds
    BY DEF AuditIssue, Issue, SetupKinds
  <1>3. ~Failed
    BY <1>1, <1>2 DEF ExitClass
  <1>4. \A x \in loaded : x.id \in DOMAIN audit
    BY DEF AuditInv, AuditIsComplete, Pending
  <1>5. \A i \in DOMAIN audit : audit[i].state \in States
    BY DEF IInv, TypeOK
  <1> QED
    BY <1>3, <1>4, <1>5 DEF Failed, Consumed, States

\* The audit fails closed: a command that ends without a setup error has only
\* exceptions in force, each naming exactly one violation of the report, those
\* suppressed by other exceptions included (apply_evidence_exceptions).
THEOREM NoExceptionIsIdle == Spec => []AuditFailsClosed
  <1>1. IInv /\ AuditInv => AuditFailsClosed
    <2> SUFFICES ASSUME IInv, AuditInv, Finished, exit # "setup_error", NEW x \in loaded
                 PROVE  /\ InForce(x, now)
                        /\ Cardinality({v \in violations : Matches(x, v, policy, report)}) = 1
      BY DEF AuditFailsClosed
    <2>1. x.id \in Consumed
      BY NothingFailed
    <2>2. InForce(x, now)
      BY <2>1 DEF IInv, ConsumedIsNamed
    <2>3. {v \in violations : Matches(x, v, policy, report)} = {audit[x.id].issue}
      BY <2>1 DEF AuditInv, SpentAlone, Named
    <2> QED
      BY <2>2, <2>3, FS_Singleton
  <1> QED
    BY <1>1, Invariance, AccountIsKept, PTL

\* What an audit leaves is what no exception in force names alone, in whatever
\* order the exceptions are examined.
THEOREM OrderIsImmaterial == Spec => []OrderDoesNotMatter
  <1>1. IInv /\ AuditInv => OrderDoesNotMatter
    <2> DEFINE unnamed == {v \in violations : \A x \in loaded : InForce(x, now) => Named(x) # {v}}
    <2> SUFFICES ASSUME IInv, AuditInv, Finished
                 PROVE  remaining \ {AuditIssue} = unnamed
      BY DEF OrderDoesNotMatter, Named
    <2>1. /\ violations = Violations(policy, report)
          /\ remaining \subseteq violations \cup {AuditIssue}
      BY DEF IInv, RunIsCoherent, Finished
    <2>2. AuditIssue \notin violations
      BY <2>1, AuditIsNoViolation
    <2>3. ASSUME NEW v \in remaining, v # AuditIssue PROVE v \in unnamed
      <3>1. v \in violations
        BY <2>1, <2>3
      <3>2. \A x \in loaded : x.id \in DOMAIN audit
        BY DEF AuditInv, AuditIsComplete, Pending
      <3> QED
        BY <3>1, <3>2 DEF AuditInv, SpentAlone
    <2>4. ASSUME NEW v \in unnamed PROVE v \in remaining
      <3> SUFFICES ASSUME v \notin remaining PROVE FALSE
        OBVIOUS
      <3>1. PICK i \in Consumed : v = audit[i].issue
        BY DEF IInv, OneExceptionOneViolation
      <3>2. PICK x \in loaded : x.id = i
        BY DEF IInv, TypeOK, Consumed, IdsOf
      <3>3. InForce(x, now)
        BY <3>1, <3>2 DEF IInv, ConsumedIsNamed
      <3>4. Named(x) = {v}
        BY <3>1, <3>2 DEF AuditInv, SpentAlone
      <3> QED
        BY <3>3, <3>4
    <2> QED
      BY <2>2, <2>3, <2>4
  <1> QED
    BY <1>1, Invariance, AccountIsKept, PTL

\* Exit classes are ranked.
LEMMA SeverityOfExit ==
  ASSUME NEW e \in Exits
  PROVE  Severity(e) \in 0 .. 2 /\ Severity("setup_error") = 2
  BY DEF Exits, Severity

\* The same report, policy and exceptions never get a better exit class on a
\* later day (_boundary_state and classify_gate_exit).
THEOREM TimeOnlyRevokes == Spec => []WaitingNeverHelps
  <1>1. IInv /\ AuditInv => WaitingNeverHelps
    <2> SUFFICES ASSUME IInv, AuditInv, Finished, previous # None, previous.loaded = loaded,
                        \A x \in loaded : x.created <= previous.now
                 PROVE  Severity(exit) >= Severity(previous.exit)
      BY DEF WaitingNeverHelps
    <2>1. /\ previous.exit \in Exits /\ previous.now \in Nat
          /\ now # None => previous.now <= now
          /\ report = previous.report /\ policy = previous.policy
          /\ now # None \/ exit = "setup_error"
          /\ \A plan \in [loaded -> Violations(policy, report)] :
               Plan(plan, loaded, previous.now, policy, report) =>
                 previous.exit = ExitClass(Violations(policy, report) \ {plan[x] : x \in loaded})
      BY DEF AuditInv, PreviousIsSettled, Finished
    <2>2. CASE exit = "setup_error"
      <3>1. Severity(previous.exit) \in 0 .. 2 /\ Severity(exit) = 2
        BY <2>1, <2>2, SeverityOfExit
      <3> QED
        BY <3>1
    <2>3. CASE exit # "setup_error"
      <3> DEFINE plan == [x \in loaded |-> audit[x.id].issue]
      <3>1. now # None /\ now \in Nat /\ previous.now <= now
        BY <2>1, <2>3, EvidenceGateAssumption DEF IInv, TypeOK
      <3>2. violations = Violations(policy, report)
        BY DEF IInv, RunIsCoherent, Finished
      <3>3. \A x \in loaded : x.id \in Consumed
        BY <2>3, NothingFailed
      <3>4. \A x \in loaded : InForce(x, now) /\ audit[x.id].issue \in violations
        BY <3>3 DEF IInv, ConsumedIsNamed
      <3>5. plan \in [loaded -> violations]
        BY <3>4
      <3>6. ASSUME NEW x \in loaded
            PROVE  Named(x) \ {plan[y] : y \in {z \in loaded : z.id < x.id}} = {plan[x]}
        <4>1. Before(x) = {z \in loaded : z.id < x.id}
          BY <3>3 DEF Before
        <4>2. Named(x) \ {audit[y.id].issue : y \in Before(x)} = {audit[x.id].issue}
          BY <3>3 DEF AuditInv, SpentInTurn
        <4>3. \A y \in {z \in loaded : z.id < x.id} : plan[y] = audit[y.id].issue
          OBVIOUS
        <4>4. {plan[y] : y \in {z \in loaded : z.id < x.id}} = {audit[y.id].issue : y \in Before(x)}
          BY <4>1, <4>3
        <4> QED
          BY <4>2, <4>4
      <3>7. \A x \in loaded : InForce(x, previous.now)
        <4> SUFFICES ASSUME NEW x \in loaded PROVE InForce(x, previous.now)
          OBVIOUS
        <4>1. /\ x.created \in Nat /\ {x.expires, x.review} \subseteq Nat \cup {None}
          BY EvidenceGateAssumption DEF IInv, TypeOK
        <4> QED
          BY <2>1, <3>1, <3>4, <4>1 DEF InForce
      <3> HIDE DEF plan
      <3>8. Plan(plan, loaded, now, policy, report)
        BY <3>2, <3>4, <3>6 DEF Plan, Named
      <3>9. Plan(plan, loaded, previous.now, policy, report)
        BY <3>2, <3>6, <3>7 DEF Plan, Named
      <3>10. previous.exit = ExitClass(violations \ {plan[x] : x \in loaded})
        BY <2>1, <3>2, <3>5, <3>9
      <3>11. exit = ExitClass(violations \ {plan[x] : x \in loaded})
        BY <3>1, <3>5, <3>8, PlanDecides
      <3>12. exit = previous.exit /\ Severity(exit) \in 0 .. 2
        BY <2>1, <3>10, <3>11, SeverityOfExit
      <3> QED
        BY <3>12
    <2> QED
      BY <2>2, <2>3
  <1> QED
    BY <1>1, Invariance, AccountIsKept, PTL

=============================================================================
