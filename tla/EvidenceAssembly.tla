-------------------------- MODULE EvidenceAssembly --------------------------
(***************************************************************************)
(* A graph as an adapter may build it, one record at a time, well formed   *)
(* or not: two endpoints of one application and one middleware, between    *)
(* which facts, relations, associations, proofs, unresolved records and    *)
(* coverage are put in many combinations.  The core must refuse the graph  *)
(* (Valid) or give it a verdict that the evidence contract allows.         *)
(* Records come in the order of their references (claims after the facts   *)
(* and relations they name) and at most one thing is left in doubt: both   *)
(* only bound the number of graphs.                                        *)
(***************************************************************************)
EXTENDS EvidenceGraph

CONSTANTS
  FactOptions,        \* facts an adapter may add
  RelationOptions,    \* relations it may add
  ScopeIds,           \* scopes an association may name
  MaxFacts, MaxRelations    \* bounds on the graphs explored

ASSUME EvidenceAssemblyAssumption ==
  /\ MaxFacts \in Nat /\ MaxRelations \in Nat
  /\ \A f \in FactOptions : f.kind \in FactKinds \ EndpointKinds
  /\ \A x \in FactOptions \cup RelationOptions : IsFiniteSet(x.derived)

VARIABLE graph

Subject(i, parent)           == [id |-> i, parent |-> parent, derived |-> {}]
Scope(i, kind, subj, parent) == [id |-> i, kind |-> kind, subject |-> subj,
                                 parent |-> parent, derived |-> {}]
EndpointFact(i, subj)        == [id |-> i, kind |-> "endpoint_declaration", subject |-> subj,
                                 path |-> "/", derived |-> {}]
CoverageOf(e, c)             == [id |-> e \o c, target |-> e, capability |-> c,
                                 status |-> "analyzed", provenance |-> c]

Skeleton ==
  [EmptyGraph EXCEPT
     !.subjects   = {Subject("app", None), Subject("r1", "app"), Subject("r2", "app"),
                     Subject("mw", "app")},
     !.scopes     = {Scope("sApp", "application", "app", None),
                     Scope("s1", "route", "r1", "sApp"), Scope("s2", "route", "r2", None)},
     !.facts      = {EndpointFact("e1", "r1"), EndpointFact("e2", "r2")},
     !.provenance = {[id |-> c, capability |-> c] : c \in Capability},
     !.coverage   = {CoverageOf(e, c) : e \in {"e1", "e2"}, c \in Capability}]

AssemblyInit == graph = Skeleton

Doubted == \/ graph.unresolved # {}
           \/ \E c \in graph.coverage : c.status # "analyzed"

AddFact(f) ==
  /\ Cardinality(graph.facts) < 2 + MaxFacts
  /\ f \notin graph.facts
  /\ f.kind # "weak_indicator" => graph.associations = {}
  /\ graph' = [graph EXCEPT !.facts = @ \cup {f}]

Relate(r) ==
  /\ Cardinality(graph.relations) < MaxRelations
  /\ r \notin graph.relations /\ graph.associations = {}
  /\ graph' = [graph EXCEPT !.relations = @ \cup {r}]

\* A claim: one, about any fact but a weak one, over any scope, with more or less of
\* the provenance it needs.
Associate(e, f, s, derived) ==
  /\ {a \in graph.associations : a.id = "claim"} = {}
  /\ f.kind \notin {"weak_indicator"}
  /\ graph' = [graph EXCEPT !.associations = @ \cup
                 {[id |-> "claim", endpoint |-> e, evidence |-> f.id, scope |-> s,
                   derived |-> derived]}]

\* What else is said about the first endpoint: one remark at most.
Remarks == {a \in graph.associations : a.id \in {"notice", "doubt"}}

\* A weak signal noticed on the way to the endpoint.
Notice(f) ==
  /\ f.kind = "weak_indicator"
  /\ Remarks = {}
  /\ graph' = [graph EXCEPT !.associations = @ \cup
                 {[id |-> "notice", endpoint |-> "e1", evidence |-> f.id, scope |-> "s1",
                   derived |-> {"e1", f.id}]}]

\* An ambiguity met at the endpoint beside what is already proved.
Doubt(f) ==
  /\ f.kind = "auth_ambiguity"
  /\ graph.proofs # {}
  /\ Remarks = {}
  /\ graph' = [graph EXCEPT !.associations = @ \cup
                 {[id |-> "doubt", endpoint |-> "e1", evidence |-> f.id, scope |-> "s1",
                   derived |-> {"e1", f.id}]}]

Prove(kind, a, facts, relations) ==
  /\ graph.proofs = {}
  /\ graph' = [graph EXCEPT !.proofs =
                 {[id |-> "proof", kind |-> kind, endpoint |-> a.endpoint, facts |-> facts,
                   associations |-> {a.id}, relations |-> relations,
                   derived |-> {a.endpoint, a.id} \cup facts \cup relations]}]

LeaveUnresolved(i, derived) ==
  /\ ~Doubted
  /\ graph' = [graph EXCEPT !.unresolved = {[id |-> "open", subject |-> i, derived |-> derived]}]

\* The adapter could not analyse one capability for one endpoint.
LoseCoverage(c, status) ==
  /\ ~Doubted
  /\ graph' = [graph EXCEPT !.coverage = (@ \ {c}) \cup {[c EXCEPT !.status = status]}]

AssemblyNext ==
  \/ \E f \in FactOptions : AddFact(f)
  \/ \E r \in RelationOptions : Relate(r)
  \/ \E f \in graph.facts \ Endpoints(graph), e \in {"e1", "e2"}, s \in ScopeIds :
       \/ Associate(e, f, s, {e, f.id} \cup IdsOf(graph.relations))
       \/ s = "s1" /\ Associate(e, f, s, {f.id} \cup IdsOf(graph.relations))
       \/ e = "e1" /\ s = "s1" /\ (Notice(f) \/ Doubt(f))
  \/ \E a \in graph.associations, kind \in {"auth_enforcement", "public_policy"},
        R \in SUBSET IdsOf(graph.relations) :
       (kind = "public_policy" => R = {}) /\ Prove(kind, a, {a.evidence}, R)
  \/ \E i \in {"e1", "r1"} :
       \/ LeaveUnresolved(i, {})
       \/ \E a \in graph.associations : LeaveUnresolved(i, {a.id, a.evidence})
  \/ \E c \in Skeleton.coverage :
       c.target = "e1" /\ c.capability = "scope_resolution" /\ LoseCoverage(c, "skipped")

AssemblySpec == AssemblyInit /\ [][AssemblyNext]_graph

-----------------------------------------------------------------------------
(* What GUARDED promises, stated without the validator's algorithm: the    *)
(* list of docs/reference/v2-evidence-contracts.md ("Proven Auth           *)
(* Enforcement").                                                          *)

\* The structure of the program as the graph tells it: relations forward, a
\* scope to its parent, and a scope and its subject either way.
Structure(g) ==
  {<<r.source, r.target>> : r \in {x \in g.relations : x.kind \in ForwardKinds}}
    \cup {<<s.id, s.parent>> : s \in {x \in g.scopes : x.parent # None}}
    \cup {<<s.id, s.subject>> : s \in g.scopes} \cup {<<s.subject, s.id>> : s \in g.scopes}

EvidenceFor(g, e, a) ==
  /\ a.endpoint = e.id
  /\ \E f \in OfKind(g.facts, "auth_enforcement") :
       /\ a.evidence = f.id
       /\ {a.scope, f.subject} \subseteq ReachableFrom({e.id, e.subject}, Structure(g))
  /\ \E p \in g.proofs : /\ p.kind = "auth_enforcement" /\ p.endpoint = e.id
                         /\ {e.id, a.id, a.evidence} \subseteq p.derived
                         /\ p.relations # {}

\* GUARDED needs an enforcement fact that the program's structure leads the
\* endpoint to, a proof that retains its derivation, full coverage and nothing
\* left unresolved (resolve_endpoints after validate).
GuardedMeetsContract ==
  Valid(graph) =>
    \A e \in Endpoints(graph) :
      Verdict(graph, e) = "GUARDED" =>
        /\ \E a \in graph.associations : EvidenceFor(graph, e, a)
        /\ \A c \in Capability : \E x \in graph.coverage :
             x.target = e.id /\ x.capability = c /\ x.status = "analyzed"
        /\ \A u \in graph.unresolved : u.subject \notin {e.id, e.subject}

\* No identity use, session, weak indicator or ambiguity is among what a
\* GUARDED verdict was derived from, however indirectly.
GuardRestsOnNoAdvisory ==
  Valid(graph) =>
    \A e \in Endpoints(graph), p \in graph.proofs :
      Verdict(graph, e) = "GUARDED" /\ p.endpoint = e.id =>
        \A f \in graph.facts :
          f.id \in ReachableFrom({p.id}, Derivations(graph)) => f.kind \notin AdvisoryKinds

\* An ambiguity about an endpoint always leaves it UNRESOLVED: it is neither
\* dropped nor outvoted by a proof (_validate_auth_ambiguity with the resolver).
AmbiguityIsNeverOutvoted ==
  Valid(graph) =>
    \A e \in Endpoints(graph) :
      "auth_ambiguity" \in AssociatedKinds(graph, e) => Verdict(graph, e) = "UNRESOLVED"

\* A weak signal, however associated, never changes a verdict.
WeakSignalsAreInert ==
  [][/\ \/ \E f \in graph'.facts \ graph.facts : f.kind = "weak_indicator"
        \/ \E a \in graph'.associations \ graph.associations : a.id = "notice"
     /\ Valid(graph) /\ Valid(graph')
     => \A e \in Endpoints(graph) : Verdict(graph', e) = Verdict(graph, e)]_graph

-----------------------------------------------------------------------------
(* Every graph that is put together is finite: searches end.               *)

FiniteGraph(g) ==
  \A k \in DOMAIN Derivable(g) :
    IsFiniteSet(Derivable(g)[k]) /\ \A x \in Derivable(g)[k] : IsFiniteSet(x.derived)

Fields == DOMAIN EmptyGraph

GraphInv ==
  /\ DOMAIN graph = Fields /\ FiniteGraph(graph)
  /\ \A p \in graph.proofs : p.kind \in {"auth_enforcement", "public_policy"}
=============================================================================
