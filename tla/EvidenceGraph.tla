--------------------------- MODULE EvidenceGraph ---------------------------
(***************************************************************************)
(* The evidence graph an adapter hands to the core (core/v2/graph.py), the *)
(* structural rules EvidenceGraph.validate enforces on it, and the verdict *)
(* resolve_endpoints (core/v2/resolver.py) derives for each endpoint.      *)
(*                                                                         *)
(* A graph is a record of sets of records; every record has an `id`, and   *)
(* `derived` is its derived_from.  Spans, names and wording are left out;  *)
(* id lists are sets, their order (which the adapters sort) is not kept.   *)
(***************************************************************************)
EXTENDS Naturals, Sequences, FiniteSets

CONSTANT None      \* Python's None

EndpointKinds == {"endpoint_declaration", "route_identity"}
AdvisoryKinds == {"auth_ambiguity", "identity_use", "session_presence", "weak_indicator"}
FactKinds     == EndpointKinds \cup AdvisoryKinds
                   \cup {"auth_enforcement", "public_declaration", "routing_predicate"}
ForwardKinds  == {"contains", "composes", "references"}
Capability    == {"endpoint_discovery", "route_composition",
                  "scope_resolution", "auth_association"}
Status        == {"analyzed", "excluded", "unsupported", "skipped", "error"}
Verdicts      == {"GUARDED", "UNGUARDED", "DECLARED_PUBLIC", "UNRESOLVED"}

EmptyGraph ==
  [subjects |-> {}, facts |-> {}, scopes |-> {}, relations |-> {},
   associations |-> {}, proofs |-> {}, unresolved |-> {}, diagnostics |-> {},
   provenance |-> {}, coverage |-> {}]

IdsOf(S)     == {x.id : x \in S}
ById(S, i)   == CHOOSE x \in S : x.id = i
OfKind(S, k) == {x \in S : x.kind = k}

Endpoints(g) == {f \in g.facts : f.kind \in EndpointKinds}

Groups(g) == <<g.subjects, g.facts, g.scopes, g.relations, g.associations, g.proofs,
               g.unresolved, g.diagnostics, g.provenance, g.coverage>>

Ids(g) == UNION {IdsOf(Groups(g)[i]) : i \in DOMAIN Groups(g)}

\* The records that carry derived_from.
Derivable(g) == <<g.subjects, g.facts, g.scopes, g.relations, g.associations,
                  g.proofs, g.unresolved, g.diagnostics>>

\* i |-> j: some record named i is derived from j.
Derivations(g) ==
  UNION {UNION {{<<x.id, j>> : j \in x.derived} : x \in Derivable(g)[k]}
           : k \in DOMAIN Derivable(g)}

-----------------------------------------------------------------------------
(* Reachability *)

\* Stages(S, R)[n]: what n steps along the pairs of R lead to from S.
Stages(S, R) ==
  LET Within[n \in 0 .. Cardinality(R)] ==
        IF n = 0 THEN S
        ELSE UNION {{x} \cup {e[2] : e \in {f \in R : f[1] = x}} : x \in Within[n - 1]}
  IN  Within

\* Everything reachable from S along the pairs of R, S included.
ReachableFrom(S, R) == Stages(S, R)[Cardinality(R)]

\* Walks[n]: the walks of n edges of R that begin in S.
Walks(S, R, N) ==
  LET Walk[n \in 1 .. N] ==
        IF n = 1 THEN {e \in R : e[1] \in S}
        ELSE LET shorter == Walk[n - 1]
             IN  UNION {{Append(w, e[2]) : e \in {f \in R : f[1] = w[n]}} : w \in shorter}
  IN  Walk

NoPath == [found |-> FALSE, nodes |-> {}]

\* The pairs the selected relations let a search follow
\* (_forward_relation_step): source to target only.
EdgesEitherWay(rels) ==      \* faulty variant
  {<<r.source, r.target>> : r \in rels} \cup {<<r.target, r.source>> : r \in rels}

Edges(rels) == {<<r.source, r.target>> : r \in {x \in rels : x.kind \in ForwardKinds}}

\* _relation_path_nodes: breadth-first search along the selected relations.
\* A selected relation that touches a node outside `allowed`, or ends in a
\* start-only node, refuses the whole selection.
RelationPath(g, starts, targets, selected, allowed, startOnly) ==
  LET rels  == {r \in g.relations : r.id \in selected}
      edges == Edges(rels)
      N     == Cardinality(edges)
      walks == Walks(starts, edges, N)
      hits(n) == {w \in walks[n] : w[n + 1] \in targets}
      lengths == {n \in 1 .. N : hits(n) # {}}
  IN  IF \/ \E r \in rels : r.source \notin allowed \/ r.target \notin allowed \/ r.target \in startOnly
         \/ lengths = {}
      THEN NoPath
      ELSE LET shortest == CHOOSE n \in lengths : \A m \in lengths : n <= m
               path     == CHOOSE w \in hits(shortest) : TRUE
           IN  [found |-> TRUE, nodes |-> {path[i] : i \in DOMAIN path}]

\* _scope_region: the scope, its ancestors and their subjects.
ScopeRegion(g, scope) ==
  LET parents   == {<<s.id, s.parent>> : s \in {x \in g.scopes : x.parent # None}}
      ancestors == {s \in g.scopes : s.id \in ReachableFrom({scope.id}, parents)}
  IN  IdsOf(ancestors) \cup {s.subject : s \in ancestors}

-----------------------------------------------------------------------------
(* Enforcement associations *)

\* _validate_enforcement_association with the relations a proof selects, or
\* those of the association's own derivation.
EnforcementPath(g, a, selected) ==
  LET endpoint    == ById(g.facts, a.endpoint)
      evidence    == ById(g.facts, a.evidence)
      scope       == ById(g.scopes, a.scope)
      endpointIds == {endpoint.id, endpoint.subject}
                       \cup IdsOf({s \in g.scopes : s.subject = endpoint.subject})
      structural  == IdsOf(g.subjects) \cup IdsOf(g.scopes) \cup {endpoint.id}
      ownRoute    == scope.kind = "route" /\ scope.subject = endpoint.subject
      scopePath   == IF ownRoute THEN [found |-> TRUE, nodes |-> {}]
                     ELSE RelationPath(g, endpointIds, {scope.id, scope.subject},
                                       selected, structural, {endpoint.id})
      evidencePath == RelationPath(g, endpointIds \cup ScopeRegion(g, scope),
                                   {evidence.subject}, selected, structural, {endpoint.id})
  IN  IF /\ selected # {}
         /\ {a.endpoint, a.evidence} \subseteq a.derived
         /\ scopePath.found
         /\ evidencePath.found
      THEN [found |-> TRUE,
            nodes |-> {a.scope, endpoint.subject, evidence.subject, scope.subject}
                        \cup scopePath.nodes \cup evidencePath.nodes]
      ELSE NoPath

OwnRelations(g, a) == a.derived \cap IdsOf(g.relations)

-----------------------------------------------------------------------------
(* EvidenceGraph.validate, rule by rule *)

UniqueIds(g) ==
  \A k, l \in DOMAIN Groups(g) : \A x \in Groups(g)[k], y \in Groups(g)[l] :
    x.id = y.id => k = l /\ x = y

KnownOrNone(S, i) == i = None \/ i \in S

ReferencesAreKnown(g) ==
  LET ids == Ids(g) IN
  /\ \A s \in g.subjects : KnownOrNone(IdsOf(g.subjects), s.parent)
  /\ \A f \in g.facts : /\ f.subject \in IdsOf(g.subjects)
                        /\ f.kind = "route_identity" => f.derived # {}
                        /\ f.path # None => f.kind \in EndpointKinds
  /\ \A s \in g.scopes : /\ s.subject \in IdsOf(g.subjects)
                         /\ KnownOrNone(IdsOf(g.scopes), s.parent)
  /\ \A r \in g.relations : {r.source, r.target} \subseteq ids
  /\ \A x \in g.unresolved \cup g.diagnostics : KnownOrNone(ids, x.subject)
  /\ \A c \in g.coverage :
       /\ c.target \in ids
       /\ \E p \in g.provenance : p.id = c.provenance /\ p.capability = c.capability
  /\ \A d \in Derivations(g) : d[2] \in ids

AssociationsAreSound(g) ==
  \A a \in g.associations :
    /\ a.endpoint \in IdsOf(Endpoints(g))
    /\ a.evidence \in IdsOf(g.facts)
    /\ a.scope \in IdsOf(g.scopes)
    /\ a.derived # {}
    /\ ById(g.facts, a.evidence).kind = "auth_enforcement"
         => EnforcementPath(g, a, OwnRelations(g, a)).found

Selected(p) == {p.endpoint} \cup p.facts \cup p.associations \cup p.relations

ProofsAreSound(g) ==
  \A p \in g.proofs :
    /\ p.endpoint \in IdsOf(Endpoints(g))
    /\ p.facts # {} /\ p.facts \subseteq IdsOf(g.facts)
    /\ p.associations # {} /\ p.associations \subseteq IdsOf(g.associations)
    /\ p.relations \subseteq IdsOf(g.relations)
    /\ p.kind = "auth_enforcement" => p.relations # {}
    /\ Selected(p) \subseteq p.derived
    /\ \A a \in {x \in g.associations : x.id \in p.associations} :
         /\ a.endpoint = p.endpoint
         /\ a.evidence \in p.facts
         /\ p.kind = "auth_enforcement" => /\ p.relations \subseteq a.derived
                                           /\ EnforcementPath(g, a, p.relations).found

\* _validate_auth_ambiguity, and the rule that an ambiguity is associated.
AmbiguityIsExplicit(g) ==
  LET facts   == IdsOf(OfKind(g.facts, "auth_ambiguity"))
      assocs  == {a \in g.associations : a.evidence \in facts}
      Marks(u) == u.derived \cap (facts \cup IdsOf(assocs))
  IN  /\ facts \subseteq {a.evidence : a \in assocs}
      /\ \A u \in {x \in g.unresolved : Marks(x) # {}} :
           \E a \in assocs : /\ Marks(u) = {a.id, a.evidence}
                             /\ a.endpoint = u.subject
      /\ \A a \in assocs :
           /\ ById(g.scopes, a.scope).subject = ById(g.facts, a.endpoint).subject
           /\ {a.endpoint, a.evidence} \subseteq a.derived
           /\ \E u \in g.unresolved : /\ {a.id, a.evidence} \subseteq u.derived
                                      /\ u.subject = a.endpoint

DerivationIsAcyclic(g) ==
  LET D == Derivations(g)
  IN  \A d \in D : d[1] \notin ReachableFrom({d[2]}, D)

PathNodes(g, p) ==
  UNION {EnforcementPath(g, a, p.relations).nodes
           : a \in {x \in g.associations : x.id \in p.associations}}

\* Faulty variant: only what the proof names, not what that was derived from.
DirectBasis(g, p) == Selected(p) \cup PathNodes(g, p) \cup {p.id}

\* Everything an enforcement proof rests on.
Basis(g, p) == ReachableFrom(Selected(p) \cup PathNodes(g, p) \cup {p.id}, Derivations(g))

\* _reject_advisory_enforcement_derivations
NoAdvisoryEnforcement(g) ==
  \A p \in OfKind(g.proofs, "auth_enforcement") :
    \A f \in g.facts : f.id \in Basis(g, p) => f.kind \notin AdvisoryKinds

Valid(g) == /\ UniqueIds(g)
            /\ ReferencesAreKnown(g)
            /\ AssociationsAreSound(g)
            /\ ProofsAreSound(g)
            /\ AmbiguityIsExplicit(g)
            /\ DerivationIsAcyclic(g)
            /\ NoAdvisoryEnforcement(g)

-----------------------------------------------------------------------------
(* resolve_endpoints *)

RequiredFact(kind) == IF kind = "public_policy" THEN "public_declaration" ELSE kind

\* _proof_is_valid
ProofIsValid(g, p) ==
  LET evidence == {f.id : f \in {x \in g.facts : x.id \in p.facts /\ x.kind = RequiredFact(p.kind)}}
  IN  /\ evidence # {} /\ p.associations # {}
      /\ \A a \in {x \in g.associations : x.id \in p.associations} :
           a.endpoint = p.endpoint /\ a.evidence \in evidence

Covered(g, e) ==
  Capability \subseteq {c.capability : c \in {x \in g.coverage : x.target = e.id /\ x.status = "analyzed"}}

Unresolved(g, e) == {u \in g.unresolved : u.subject \in {e.id, e.subject}}

ProofsFor(g, e) == {p \in g.proofs : p.endpoint = e.id}

ValidProofs(g, e, kind) == {p \in ProofsFor(g, e) : p.kind = kind /\ ProofIsValid(g, p)}

AssociatedKinds(g, e) ==
  {f.kind : f \in {x \in g.facts : \E a \in g.associations : a.endpoint = e.id /\ a.evidence = x.id}}

\* Faulty variant: weak indicators count as claims.
AnyUnprovenClaim(g, e) ==
  /\ AssociatedKinds(g, e) # {}
  /\ \A p \in ProofsFor(g, e) : ~ProofIsValid(g, p)

\* An auth or public claim nobody proved.
UnprovenClaim(g, e) ==
  /\ {"auth_enforcement", "public_declaration"} \cap AssociatedKinds(g, e) # {}
  /\ \A p \in ProofsFor(g, e) : ~ProofIsValid(g, p)

Doubtful(g, e) == \/ Unresolved(g, e) # {}
                  \/ ~Covered(g, e)
                  \/ UnprovenClaim(g, e)
                  \/ \E p \in ProofsFor(g, e) : ~ProofIsValid(g, p)

\* Faulty variant: the proofs are looked at before what leaves the endpoint in doubt.
VerdictByProofFirst(g, e) ==
  IF ValidProofs(g, e, "public_policy") # {} THEN "DECLARED_PUBLIC"
  ELSE IF ValidProofs(g, e, "auth_enforcement") # {} THEN "GUARDED"
  ELSE IF Doubtful(g, e) THEN "UNRESOLVED"
  ELSE "UNGUARDED"

Verdict(g, e) ==
  IF Doubtful(g, e) THEN "UNRESOLVED"
  ELSE IF ValidProofs(g, e, "public_policy") # {} THEN "DECLARED_PUBLIC"
  ELSE IF ValidProofs(g, e, "auth_enforcement") # {} THEN "GUARDED"
  ELSE "UNGUARDED"
=============================================================================
