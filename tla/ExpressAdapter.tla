--------------------------- MODULE ExpressAdapter ---------------------------
(***************************************************************************)
(* ExpressAdapter.analyze (adapters/express.py) and build_express_graph    *)
(* (adapters/express_semantics.py): from the statements of a JavaScript    *)
(* package to an evidence graph.                                           *)
(*                                                                         *)
(* A program is a sequence of statements per file.  Parsing is left out: a *)
(* statement is a record that says what the adapter's node patterns        *)
(* recognise in it.  A name, a path or a middleware is a member of a small *)
(* set; a path is a sequence of segments.                                  *)
(*                                                                         *)
(*   [op |-> "router", name]                    const name = express.Router() *)
(*   [op |-> "use", recv, mw, optional]         recv.use(mw), if optional   *)
(*        within an if statement, which the adapter does not look at        *)
(*   [op |-> "route", recv, path, calls, public]                            *)
(*        recv.get(path, h1 .. hn), or recv.route(path).get(..).post(..):   *)
(*        `calls` has a [method, handlers] per method                       *)
(*   [op |-> "mount", recv, prefix, mws, file, child]                       *)
(*        recv.use(prefix, m1 .. mn, child): the default export of `file`,  *)
(*        or the receiver `child` of the same file when file = None         *)
(*                                                                         *)
(* The last element of a call's handlers is its handler, the others are    *)
(* middlewares.  An identifier is <<kind, file, statement, method,         *)
(* argument, label>>: start_byte is the statement's position for every     *)
(* call of a chain, so only the method tells their identifiers apart.      *)
(***************************************************************************)
EXTENDS EvidenceGraph, SequencesExt

CONSTANTS
  File,        \* JavaScript sources of one package
  Export,      \* the name each file exports by default
  Computed     \* a path or prefix that is not a string literal

Enforcing == {"jwt", "custom"}      \* passport.authenticate("jwt"), declared custom auth
AuthNames == {"custom", "authlike"} \* what _auth_looking recognises
Handlers  == Enforcing \cup {"authlike", "plain"}

Positions(src) == UNION {{<<f, i>> : i \in DOMAIN src[f]} : f \in File}
At(src, s)     == src[s[1]][s[2]]
Id(kind, s, method, j, label) == <<kind, s[1], s[2], method, j, label>>
NoMethod       == ""      \* in the identifiers of what is not part of a route

-----------------------------------------------------------------------------
(* Receivers *)

Declarations(src, f, n) ==
  {s \in Positions(src) : s[1] = f /\ At(src, s).op = "router" /\ At(src, s).name = n}

Latest(S) == CHOOSE s \in S : \A t \in S : t[2] <= s[2]

\* A second declaration of a name removes it, a third adds it again: the
\* declarations that leave a subject and a scope behind.
Kept(src, f, n) ==
  {s \in Declarations(src, f, n) :
     Cardinality({t \in Declarations(src, f, n) : t[2] <= s[2]}) % 2 = 1}

\* receivers.get(name) at the end of the first pass over the file.
Receiver(src, f, n) ==
  LET D == Declarations(src, f, n)
  IN  IF Cardinality(D) % 2 = 1 THEN Latest(D) ELSE None

\* The subject another file's mount finds under that name.
Exported(src, f, n) == IF Kept(src, f, n) = {} THEN None ELSE Latest(Kept(src, f, n))

AllKept(src) == {s \in Positions(src) : /\ At(src, s).op = "router"
                                        /\ s \in Kept(src, s[1], At(src, s).name)}

RecvSubject(s) == Id("subject", s, NoMethod, 0, "receiver")
RecvScope(s)   == Id("scope", s, NoMethod, 0, "receiver")

-----------------------------------------------------------------------------
(* Mounts *)

\* What _extract_file makes of recv.use(prefix, child) within a file.
LocalMounts(src) ==
  {s \in Positions(src) :
     LET m == At(src, s)
     IN  /\ m.op = "mount" /\ m.file = None /\ m.mws = <<>>
         /\ Receiver(src, s[1], m.recv) # None
         /\ Receiver(src, s[1], m.child) # None}

\* What _external_mounts makes of recv.use(prefix, .., imported router).
ExternalMounts(src) ==
  {s \in Positions(src) :
     LET m == At(src, s)
     IN  /\ m.op = "mount" /\ m.file # None /\ m.prefix # Computed
         /\ Exported(src, s[1], m.recv) # None
         /\ Exported(src, m.file, Export[m.file]) # None}

MountRelation(s) == Id("relation", s, NoMethod, 0, "mount")

\* Entries of the two `mounts` tables: child |-> (parent, prefix, relation).
LocalTable(src) ==
  {[child |-> Receiver(src, s[1], At(src, s).child), parent |-> Receiver(src, s[1], At(src, s).recv),
    prefix |-> At(src, s).prefix, relation |-> MountRelation(s)]
     : s \in {t \in LocalMounts(src) : At(src, t).prefix # Computed}}

ExternalTable(src) ==
  {[child |-> Exported(src, At(src, s).file, Export[At(src, s).file]),
    parent |-> Exported(src, s[1], At(src, s).recv),
    prefix |-> At(src, s).prefix, relation |-> MountRelation(s)] : s \in ExternalMounts(src)}

\* _mount_path and _external_mount_path: the prefix of a receiver, the mounts
\* it comes from, and whether there was a choice.
MountPath(recv, table) ==
  LET receivers == {recv} \cup {m.parent : m \in table}
      Climb[c \in receivers \X SUBSET receivers] ==      \* a receiver, and those seen
        LET entries == {m \in table : m.child = c[1]}
            m       == CHOOSE x \in entries : TRUE
            outer   == Climb[<<m.parent, c[2] \cup {c[1]}>>]
        IN  IF c[1] \in c[2] THEN [prefix |-> <<>>, relations |-> {}, ambiguous |-> TRUE]
            ELSE IF entries = {} THEN [prefix |-> <<>>, relations |-> {}, ambiguous |-> FALSE]
            ELSE IF Cardinality(entries) > 1
            THEN [prefix |-> <<>>, relations |-> {x.relation : x \in entries}, ambiguous |-> TRUE]
            ELSE [prefix |-> outer.prefix \o m.prefix,
                  relations |-> outer.relations \cup {m.relation},
                  ambiguous |-> outer.ambiguous]
  IN  Climb[<<recv, {}>>]

-----------------------------------------------------------------------------
(* Routes: one per method of a route statement on a known receiver *)

Routes(src) ==
  UNION {{<<s[1], s[2], k>> : k \in DOMAIN At(src, s).calls}
           : s \in {t \in Positions(src) :
                      /\ At(src, t).op = "route"
                      /\ At(src, t).path # Computed
                      /\ Receiver(src, t[1], At(src, t).recv) # None}}

RecvOf(src, r)     == Receiver(src, r[1], At(src, r).recv)
CallOf(src, r)     == At(src, r).calls[r[3]]
MethodOf(src, r)   == CallOf(src, r).method
HandlersOf(src, r) == CallOf(src, r).handlers
Order(s, k)        == s[2] * 10 + k        \* the running `order` of a file

RouteSubject(src, r)  == Id("subject", r, MethodOf(src, r), 0, "route")
RouteScope(src, r)    == Id("scope", r, MethodOf(src, r), 0, "route")
EndpointId(src, r)    == Id("fact", r, MethodOf(src, r), 0, "endpoint")
\* Faulty variant: the handlers of a call share their position.
HandlerByCall(src, r, j) == Id("subject", r, MethodOf(src, r), r[3] * 10, "handler")

HandlerSubject(src, r, j)  == Id("subject", r, MethodOf(src, r), r[3] * 10 + j, "handler")
HandlerRelation(src, r, j) == Id("relation", r, MethodOf(src, r), r[3] * 10 + j, "handler")
PublicSubject(r)           == Id("subject", r, NoMethod, 0, "public")
PublicFact(r)              == Id("fact", r, NoMethod, 0, "public")
PublicRelation(src, r)     == Id("relation", r, MethodOf(src, r), 0, "public")

LocalPath(src, r)    == MountPath(RecvOf(src, r), LocalTable(src))
ExternalPath(src, r) == MountPath(RecvOf(src, r), ExternalTable(src))

\* Faulty variant: the outer prefix is put after the inner path.
ReportedPathSwapped(src, r) ==
  LET local == LocalPath(src, r).prefix \o At(src, r).path
  IN  IF ExternalPath(src, r).ambiguous THEN local ELSE local \o ExternalPath(src, r).prefix

\* The path an endpoint is reported under.
ReportedPath(src, r) ==
  LET local == LocalPath(src, r).prefix \o At(src, r).path
  IN  IF ExternalPath(src, r).ambiguous THEN local ELSE ExternalPath(src, r).prefix \o local

\* The relations by which a route refers to what it is declared with.
OwnReferences(src, r) ==
  {HandlerRelation(src, r, j) : j \in DOMAIN HandlersOf(src, r)}
    \cup (IF At(src, r).public THEN {PublicRelation(src, r)} ELSE {})

Endpoint(src, r) ==
  [id |-> EndpointId(src, r), kind |-> "endpoint_declaration", subject |-> RouteSubject(src, r),
   path |-> ReportedPath(src, r),
   derived |-> OwnReferences(src, r) \cup LocalPath(src, r).relations
                 \cup (IF ExternalPath(src, r).ambiguous THEN {} ELSE ExternalPath(src, r).relations)]

-----------------------------------------------------------------------------
(* The records of the artifact *)

Subj(i, kind, name, parent, span) ==
  [id |-> i, kind |-> kind, name |-> name, parent |-> parent, span |-> span, derived |-> {}]
Rel(i, kind, source, target, order) ==
  [id |-> i, kind |-> kind, source |-> source, target |-> target, order |-> order, derived |-> {}]
NoOrder == 1000      \* relations that carry no order

\* recv.use(mw) on a known receiver.
Uses(src) == {s \in Positions(src) : /\ At(src, s).op = "use"
                                     /\ Receiver(src, s[1], At(src, s).recv) # None}
UseSubject(s) == Id("subject", s, NoMethod, 1, "middleware")

\* Middlewares of a mount of an imported router.
MountMiddlewares(src) ==
  UNION {{<<s[1], s[2], j>> : j \in DOMAIN At(src, s).mws} : s \in ExternalMounts(src)}
MountMwSubject(m) == Id("subject", m, NoMethod, m[3], "mount-middleware")
MountChild(src, m) == Exported(src, At(src, m).file, Export[At(src, m).file])

RoutesAndHandlers(src) ==
  UNION {{<<r, j>> : j \in DOMAIN HandlersOf(src, r)} : r \in Routes(src)}

\* Only the last argument is the handler.
HandlerKind(src, r, j) == IF j < Len(HandlersOf(src, r)) THEN "middleware" ELSE "handler"

Public(src) == {r \in Routes(src) : At(src, r).public}

Subjects(src) ==
  {Subj(RecvSubject(s), "object_property", At(src, s).name, None, s) : s \in AllKept(src)}
    \cup {Subj(RouteSubject(src, r), "route_call", "route", RecvSubject(RecvOf(src, r)), r)
             : r \in Routes(src)}
    \cup {Subj(HandlerSubject(src, h[1], h[2]), HandlerKind(src, h[1], h[2]),
                HandlersOf(src, h[1])[h[2]], RouteSubject(src, h[1]), h[1])
             : h \in RoutesAndHandlers(src)}
    \cup {Subj(PublicSubject(r), "public_declaration", "v1", RouteSubject(src, r), r)
             : r \in Public(src)}
    \cup {Subj(UseSubject(s), "middleware", At(src, s).mw,
                RecvSubject(Receiver(src, s[1], At(src, s).recv)), s) : s \in Uses(src)}
    \cup {Subj(MountMwSubject(m), "middleware", At(src, m).mws[m[3]],
                RecvSubject(MountChild(src, m)), m) : m \in MountMiddlewares(src)}

Scopes(src) ==
  {[id |-> RecvScope(s), kind |-> "component", subject |-> RecvSubject(s), parent |-> None,
    span |-> s, derived |-> {}] : s \in AllKept(src)}
    \cup {[id |-> RouteScope(src, r), kind |-> "route", subject |-> RouteSubject(src, r),
           parent |-> RecvScope(RecvOf(src, r)), span |-> r, derived |-> {}] : r \in Routes(src)}

\* A mount's middleware runs before everything in the router it mounts.
MountOrder(m) == 0

RegistrationOf(src, r) ==
  Rel(Id("relation", r, MethodOf(src, r), 0, "registration"), "contains",
      RecvScope(RecvOf(src, r)), RouteScope(src, r), Order(r, r[3]))

Relations(src) ==
  {RegistrationOf(src, r) : r \in Routes(src)}
    \cup {Rel(HandlerRelation(src, h[1], h[2]), "references", RouteSubject(src, h[1]),
              HandlerSubject(src, h[1], h[2]), h[2]) : h \in RoutesAndHandlers(src)}
    \cup {Rel(PublicRelation(src, r), "references", RouteSubject(src, r), PublicSubject(r), NoOrder)
             : r \in Public(src)}
    \cup {Rel(Id("relation", s, NoMethod, 0, "middleware"), "contains",
              RecvScope(Receiver(src, s[1], At(src, s).recv)), UseSubject(s), Order(s, 0))
             : s \in Uses(src)}
    \cup {Rel(m.relation, "composes", RecvScope(m.parent), RecvScope(m.child), NoOrder)
             : m \in LocalTable(src) \cup ExternalTable(src)}
    \cup {Rel(Id("relation", m, NoMethod, m[3], "mount-middleware"), "contains",
              RecvScope(MountChild(src, m)), MountMwSubject(m), MountOrder(m))
             : m \in MountMiddlewares(src)}

Open(i, subj, derived) == [id |-> i, subject |-> subj, derived |-> derived]

\* Faulty variant: a computed path is skipped without a record.
UnresolvedMounts(src) ==
  {Open(<<"ambiguous-mount", EndpointId(src, r)>>, EndpointId(src, r), LocalPath(src, r).relations)
     : r \in {x \in Routes(src) : LocalPath(src, x).ambiguous}}

UnresolvedOf(src) ==
  {Open(Id("unresolved", s, NoMethod, 0, "dynamic-route"), RecvSubject(Receiver(src, s[1], At(src, s).recv)), {})
     : s \in {t \in Positions(src) : /\ At(src, t).op = "route" /\ At(src, t).path = Computed
                                     /\ Receiver(src, t[1], At(src, t).recv) # None}}
    \cup {Open(Id("unresolved", s, NoMethod, 0, "dynamic-mount"),
               RecvSubject(Receiver(src, s[1], At(src, s).child)), {})
             : s \in {t \in LocalMounts(src) : At(src, t).prefix = Computed}}
    \cup {Open(Id("unresolved", s, NoMethod, 0, "duplicate-receiver"), None, {})
             : s \in {t \in Positions(src) : At(src, t).op = "router"} \ AllKept(src)}
    \cup {Open(<<"ambiguous-mount", EndpointId(src, r)>>, EndpointId(src, r),
               LocalPath(src, r).relations)
             : r \in {x \in Routes(src) : LocalPath(src, x).ambiguous}}

-----------------------------------------------------------------------------
(* build_express_graph *)

\* Faulty variant: a later app.use counts as well.
OrderedAnyhow(src, r, rel) == rel.source = RecvScope(RecvOf(src, r)) /\ rel.order # NoOrder

\* Registered on the route's own receiver, before the route.
ReceiverOrdered(src, r, rel) ==
  /\ rel.source = RecvScope(RecvOf(src, r))
  /\ rel.order # NoOrder
  /\ rel.order < Order(r, r[3])

\* The handlers and middlewares that bear on a route, with the relation that
\* says so.
Candidates(src, r) ==
  {c \in Subjects(src) \X Relations(src) :
     /\ c[2].target = c[1].id
     /\ c[1].kind \in {"handler", "middleware"}
     /\ \/ c[2].source \in {RouteSubject(src, r), RouteScope(src, r)}
        \/ ReceiverOrdered(src, r, c[2])}

\* Faulty variant: the handler itself counts as a guard.
EnforcesAnyhow(t) == t.name \in Enforcing

Enforces(t)  == t.kind = "middleware" /\ t.name \in Enforcing
LooksAuth(t) == ~Enforces(t) /\ t.name \in AuthNames

Enforcement(src) == UNION {{<<r, c[1].id, c[2].id>> : c \in {x \in Candidates(src, r) : Enforces(x[1])}}
                             : r \in Routes(src)}
Ambiguity(src)   == UNION {{<<r, c[1].id, c[2].id>> : c \in {x \in Candidates(src, r) : LooksAuth(x[1])}}
                             : r \in Routes(src)}
PublicPolicy(src) == {<<r, PublicSubject(r), PublicRelation(src, r)>> : r \in Public(src)}

\* A record about an endpoint and a subject: the group, the kind within it.
Named(group, kind, src, c) == <<group, kind, EndpointId(src, c[1]), c[2]>>

EvidenceId(kind, src, c) == IF kind = "public_declaration" THEN PublicFact(c[1])
                                                          ELSE Named("evidence", kind, src, c)

Evidence(kind, src, c) ==
  [id |-> EvidenceId(kind, src, c), kind |-> kind, subject |-> c[2], path |-> None, derived |-> {}]

Association(kind, src, c) ==
  [id |-> Named("association", kind, src, c), endpoint |-> EndpointId(src, c[1]),
   evidence |-> EvidenceId(kind, src, c), scope |-> RouteScope(src, c[1]),
   derived |-> {EvidenceId(kind, src, c), EndpointId(src, c[1])}
                 \cup (IF kind = "auth_ambiguity" THEN {} ELSE {c[3]})]

Provenance(c) == <<"provenance", c>>

ProofOf(kind, factKind, src, c) ==
  [id |-> Named("proof", kind, src, c), kind |-> kind, endpoint |-> EndpointId(src, c[1]),
   facts |-> {EvidenceId(factKind, src, c)},
   associations |-> {Named("association", factKind, src, c)},
   relations |-> {c[3]},
   derived |-> {Named("association", factKind, src, c), EvidenceId(factKind, src, c),
                EndpointId(src, c[1]), c[3]}
                 \cup (IF kind = "auth_enforcement" THEN {Provenance("auth_association")} ELSE {})]

\* _coverage_status, with no diagnostic of level error.
CoverageStatus(src, r, c) ==
  IF c # "endpoint_discovery" /\ \E u \in UnresolvedOf(src) : u.subject = EndpointId(src, r)
  THEN "unsupported" ELSE "analyzed"

Facts(src) ==
  {Endpoint(src, r) : r \in Routes(src)}
    \cup {Evidence("public_declaration", src, c) : c \in PublicPolicy(src)}
    \cup {Evidence("auth_enforcement", src, c) : c \in Enforcement(src)}
    \cup {Evidence("auth_ambiguity", src, c) : c \in Ambiguity(src)}

Associations(src) ==
  {Association("public_declaration", src, c) : c \in PublicPolicy(src)}
    \cup {Association("auth_enforcement", src, c) : c \in Enforcement(src)}
    \cup {Association("auth_ambiguity", src, c) : c \in Ambiguity(src)}

Proofs(src) ==
  {ProofOf("public_policy", "public_declaration", src, c) : c \in PublicPolicy(src)}
    \cup {ProofOf("auth_enforcement", "auth_enforcement", src, c) : c \in Enforcement(src)}

\* What the extraction left open, and every ambiguous guard.
LeftOpen(src) ==
  UnresolvedOf(src)
    \cup {Open(Named("doubt", "auth_ambiguity", src, c), EndpointId(src, c[1]),
               {Named("association", "auth_ambiguity", src, c), EvidenceId("auth_ambiguity", src, c)})
             : c \in Ambiguity(src)}

Coverage(src) ==
  {[id |-> <<"coverage", EndpointId(src, r), c>>, target |-> EndpointId(src, r), capability |-> c,
    status |-> CoverageStatus(src, r, c), provenance |-> Provenance(c)]
     : r \in Routes(src), c \in Capability}

BuildGraph(src) ==
  [EmptyGraph EXCEPT
     !.subjects     = Subjects(src),
     !.facts        = Facts(src),
     !.scopes       = Scopes(src),
     !.relations    = Relations(src),
     !.associations = Associations(src),
     !.proofs       = Proofs(src),
     !.unresolved   = LeftOpen(src),
     !.provenance   = {[id |-> Provenance(c), capability |-> c] : c \in Capability},
     !.coverage     = Coverage(src)]
=============================================================================
