--------------------------- MODULE MCEvidenceGate ---------------------------
(* Model-checking instance: one adapter, two endpoints in several postures, *)
(* strict and lax policies, and exceptions that expire, overlap or drift.   *)
EXTENDS EvidenceGate, TLC

Adapter == "express"
Posture == {"guarded", "unsourced", "unguarded", "public", "ambiguous", "skipped", "unrecorded"}

Subj(i, parent)     == [id |-> i, parent |-> parent, derived |-> {}]
Prov(c)             == [id |-> "prov " \o c, capability |-> c, adapter |-> Adapter]
Cov(e, c, status)   == [id |-> e \o " " \o c, target |-> e, capability |-> c, status |-> status,
                        provenance |-> "prov " \o c]
EndpointFact(e, path) == [id |-> e, kind |-> "endpoint_declaration", subject |-> "route " \o e,
                          path |-> path, derived |-> {}]
EvidenceFact(e, kind) == [id |-> "fact " \o e, kind |-> kind, subject |-> "mw", path |-> None,
                          derived |-> {}]
Bind(e)  == [id |-> "bind " \o e, endpoint |-> e, evidence |-> "fact " \o e, scope |-> "scope " \o e,
             derived |-> {e, "fact " \o e, "ref " \o e}]
Ref(e)   == [id |-> "ref " \o e, kind |-> "references", source |-> "route " \o e, target |-> "mw",
             derived |-> {}]
Proof(e, kind, sourced) ==
  [id |-> "proof " \o e, kind |-> kind, endpoint |-> e, facts |-> {"fact " \o e},
   associations |-> {"bind " \o e}, relations |-> {"ref " \o e},
   derived |-> {e, "fact " \o e, "bind " \o e, "ref " \o e}
                 \cup (IF sourced THEN {"prov auth_association"} ELSE {})]

EvidenceKind(p) == CASE p \in {"guarded", "unsourced"} -> {"auth_enforcement"}
                     [] p = "public" -> {"public_declaration"}
                     [] p = "ambiguous" -> {"auth_ambiguity"}
                     [] OTHER -> {}

\* posture: endpoint |-> Posture; path: endpoint |-> its route.
GraphOf(posture, path, errors) ==
  LET E     == DOMAIN posture
      With  == {e \in E : EvidenceKind(posture[e]) # {}}
      Rec(e, c) == CASE posture[e] = "skipped" /\ c = "scope_resolution" -> {Cov(e, c, "skipped")}
                     [] posture[e] = "unrecorded" /\ c = "scope_resolution" -> {}
                     [] OTHER -> {Cov(e, c, "analyzed")}
  IN  [EmptyGraph EXCEPT
        !.subjects = {Subj("mw", None)} \cup {Subj("route " \o e, None) : e \in E},
        !.scopes = {[id |-> "scope " \o e, kind |-> "route", subject |-> "route " \o e,
                     parent |-> None, derived |-> {}] : e \in E},
        !.facts = {EndpointFact(e, path[e]) : e \in E}
                    \cup UNION {{EvidenceFact(e, k) : k \in EvidenceKind(posture[e])} : e \in E},
        !.relations = {Ref(e) : e \in With},
        !.associations = {Bind(e) : e \in With},
        !.proofs = {Proof(e, "auth_enforcement", posture[e] = "guarded")
                      : e \in {x \in E : posture[x] \in {"guarded", "unsourced"}}}
                     \cup {Proof(e, "public_policy", FALSE) : e \in {x \in E : posture[x] = "public"}},
        !.unresolved = {[id |-> "open " \o e, subject |-> e, derived |-> {"bind " \o e, "fact " \o e}]
                          : e \in {x \in E : posture[x] = "ambiguous"}},
        !.diagnostics = {[id |-> d, level |-> "error", subject |-> None, derived |-> {}] : d \in errors},
        !.provenance = {Prov(c) : c \in Capability},
        !.coverage = UNION {Rec(e, c) : e \in E, c \in Capability}]

CapabilitiesOf(maturity, applicability) ==
  {[adapter |-> Adapter, capability |-> c, maturity |-> IF c = "auth_association" THEN maturity ELSE "verified",
    applicability |-> applicability] : c \in Capability}

Rep(p1, p2, path2, errors, maturity, applicability) ==
  [graph |-> GraphOf(("e1" :> p1) @@ ("e2" :> p2), ("e1" :> "/a") @@ ("e2" :> path2), errors),
   capabilities |-> CapabilitiesOf(maturity, applicability)]

MCReports ==
  {Rep(p, "unguarded", "/b", {}, "verified", "active") : p \in Posture}
    \cup {Rep(p, "unguarded", "/a", {}, "verified", "active") : p \in {"unguarded", "public", "guarded"}}
    \cup {Rep(p, "guarded", "/b", {}, "verified", "active") : p \in {"guarded", "unguarded", "ambiguous"}}
    \cup {Rep("unguarded", "guarded", "/b", {}, "experimental", "active"),
          Rep("guarded", "unguarded", "/b", {}, "verified", "inactive"),
          Rep("guarded", "unguarded", "/b", {"parse error"}, "verified", "active")}

Requirement(c, minimum) == [id |-> c, adapter |-> Adapter, capability |-> c, minimum |-> minimum]
Pol(strict, minimum) ==
  [id |-> "assurance", requirements |-> {Requirement(c, minimum) : c \in Capability},
   failOnUnguarded |-> TRUE, failOnUnresolved |-> strict, failOnIncompleteCoverage |-> strict]
MCPolicies == {Pol(TRUE, "verified"), Pol(FALSE, "experimental"),
               [Pol(TRUE, "verified") EXCEPT !.requirements = {Requirement("auth_association", "verified")}]}

Exc(id, path, capability, maturity, violation, created, expires, review) ==
  [id |-> id, created |-> created, expires |-> expires, review |-> review, authorizing |-> "assurance",
   identity |-> [endpoint |-> <<"endpoint_declaration", path>>, adapter |-> Adapter,
                 capability |-> capability, maturity |-> maturity, violation |-> violation,
                 policy |-> "assurance"]]

MCExceptionOptions ==
  {Exc(1, "/a", "auth_association", "verified", "unguarded", 0, 2, None),
   Exc(2, "/b", "auth_association", "verified", "unguarded", 1, None, 2),
   Exc(3, "/a", "endpoint_discovery", "verified", "unguarded", 0, 2, 1),
   Exc(4, "/a", "auth_association", "verified", "unresolved", 0, 3, None),
   Exc(1, "/b", "endpoint_discovery", "verified", "unguarded", 0, None, 1),
   Exc(5, "/b", "scope_resolution", "verified", "unguarded", 2, 1, None)}
=============================================================================
