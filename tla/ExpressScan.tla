----------------------------- MODULE ExpressScan -----------------------------
(***************************************************************************)
(* The Express evidence scan beside the program it scans.                  *)
(*                                                                         *)
(* A program is written statement by statement, scanned once (analyze,     *)
(* build_graph, resolve_endpoints), and then run: Express dispatches       *)
(* requests through the layers the statements registered.  The scan sees   *)
(* names, the run sees objects; the properties compare the two.            *)
(*                                                                         *)
(* Express itself is external: a layer is tried in registration order, a   *)
(* mounted router gets the rest of the path, an enforcing middleware ends  *)
(* the request of a caller without credentials.                            *)
(***************************************************************************)
EXTENDS ExpressAdapter

CONSTANTS
  Main,            \* the file the application is created in
  Header,          \* the statements each file begins with
  Statements,      \* the statements that may follow, per file
  MaxStatements,   \* how many, per file
  MountedOnce,     \* programs mount an imported router at most once
  Paths            \* the paths requests ask for

InARow(s) == s \in Seq(Range(s))

\* Calls, handlers and middlewares come in a row.
WellFormed(stmt) ==
  /\ stmt.op = "mount" => InARow(stmt.mws)
  /\ stmt.op = "route" =>
       InARow(stmt.calls) /\ \A k \in DOMAIN stmt.calls : InARow(stmt.calls[k].handlers)

\* What the scopes of receivers are called: None is not among them.
ScopeNames == {"scope"} \X File \X Nat \X {NoMethod} \X {0} \X {"receiver"}

ASSUME ExpressScanAssumption ==
  /\ None \notin ScopeNames
  /\ IsFiniteSet(File) /\ Main \in File /\ DOMAIN Header = File
  /\ \A f \in File :
       /\ InARow(Header[f]) /\ Header[f] # <<>> /\ MaxStatements[f] \in Nat
       /\ \A stmt \in Range(Header[f]) \cup Statements[f] : WellFormed(stmt)

\* What identifiers tell apart: the calls of a chain name different methods, and a
\* public declaration stands above a single call.
CallsAreDistinct(stmt) ==
  stmt.op = "route" =>
    \A k, l \in DOMAIN stmt.calls :
      stmt.calls[k].method = stmt.calls[l].method \/ stmt.public => k = l

OneCallPerMethod ==
  \A f \in File : \A stmt \in Range(Header[f]) \cup Statements[f] : CallsAreDistinct(stmt)

VARIABLES
  source,     \* the statements of each file
  report,     \* what the scan said, or None
  request,    \* the request being dispatched, or None
  served      \* the route that answered the last request, or None

vars == <<source, report, request, served>>

-----------------------------------------------------------------------------
(* The scan *)

Scanned(src) ==
  LET g == BuildGraph(src)
      valid == Valid(g)
  IN  [valid      |-> valid,
       verdict    |-> [r \in Routes(src) |->
                         IF valid THEN Verdict(g, CHOOSE e \in Endpoints(g) : e.id = EndpointId(src, r))
                                  ELSE "UNRESOLVED"],
       path       |-> [r \in Routes(src) |-> ReportedPath(src, r)],
       unresolved |-> g.unresolved # {}]

Reported(r) == r \in DOMAIN report.verdict

Init == source = Header /\ report = None /\ request = None /\ served = None

Write(f, stmt) ==
  /\ report = None
  /\ Len(source[f]) < Len(Header[f]) + MaxStatements[f]
  /\ source' = [source EXCEPT ![f] = Append(@, stmt)]
  /\ MountedOnce => \A m, n \in ExternalTable(source') : m.child = n.child => m = n
  /\ UNCHANGED <<report, request, served>>

Scan ==
  /\ report = None
  /\ report' = Scanned(source)
  /\ UNCHANGED <<source, request, served>>

-----------------------------------------------------------------------------
(* The run (external): Express resolves a name where it is used *)

\* The receiver a name stands for at a statement: its latest declaration.
Bound(f, n, i) ==
  LET D == {s \in Declarations(source, f, n) : s[2] < i}
  IN  IF D = {} THEN None ELSE Latest(D)

BoundAtEnd(f, n) == Bound(f, n, Len(source[f]) + 1)

Mounted(s) == IF At(source, s).file = None THEN Bound(s[1], At(source, s).child, s[2])
              ELSE BoundAtEnd(At(source, s).file, Export[At(source, s).file])

\* The layers of a receiver, in registration order.
LayersFrom(recv, i) ==
  {s \in Positions(source) : /\ s[1] = recv[1] /\ s[2] >= i
                             /\ At(source, s).op # "router"
                             /\ Bound(s[1], At(source, s).recv, s[2]) = recv}

\* What a computed path turns out to be at run time.
Actual(p) == IF p = Computed THEN <<"x">> ELSE p

Frame(recv, i, rest) == [recv |-> recv, at |-> i, rest |-> rest]
Top == Last(request.stack)

Arrive(path, credentials) ==
  /\ report # None /\ request = None
  /\ request' = [path |-> path, credentials |-> credentials,
                 stack |-> <<Frame(BoundAtEnd(Main, Export[Main]), 1, path)>>]
  /\ served' = None
  /\ UNCHANGED <<source, report>>

\* A middleware passes a request on, or ends it.
MayPass(mw) == mw \in Enforcing => request.credentials
MayStop(mw) == (mw \in Enforcing /\ ~request.credentials) \/ mw = "authlike"

MayPassAll(s) == \A j \in DOMAIN s : MayPass(s[j])
MayStopAny(s) == \E j \in DOMAIN s : MayStop(s[j])

NextLayer == LET L == LayersFrom(Top.recv, Top.at)
             IN  CHOOSE s \in L : \A t \in L : s[2] <= t[2]

Running == request # None /\ request.stack # <<>> /\ LayersFrom(Top.recv, Top.at) # {}

GoOn(stack) == request' = [request EXCEPT !.stack = stack] /\ UNCHANGED <<source, report, served>>
Finish(by)  == request' = None /\ served' = by /\ UNCHANGED <<source, report>>

Past(s) == [request.stack EXCEPT ![Len(request.stack)].at = s[2] + 1]

ThroughUse ==
  /\ Running
  /\ At(source, NextLayer).op = "use"
  /\ \/ MayPass(At(source, NextLayer).mw) /\ GoOn(Past(NextLayer))
     \/ At(source, NextLayer).optional /\ GoOn(Past(NextLayer))
     \/ MayStop(At(source, NextLayer).mw) /\ Finish(None)

IntoMount ==
  LET s == NextLayer
      m == At(source, s)
  IN  /\ Running
      /\ m.op = "mount"
      /\ IF IsPrefix(Actual(m.prefix), Top.rest)
         THEN \/ /\ MayPassAll(m.mws)
                 /\ Mounted(s) # None
                 /\ GoOn(Append(Past(s), Frame(Mounted(s), 1,
                           SubSeq(Top.rest, Len(Actual(m.prefix)) + 1, Len(Top.rest)))))
              \/ MayStopAny(m.mws) /\ Finish(None)
         ELSE GoOn(Past(s))

ToRoute ==
  LET s == NextLayer
      r == At(source, s)
  IN  /\ Running
      /\ r.op = "route"
      /\ IF Actual(r.path) = Top.rest
         THEN \E k \in DOMAIN r.calls :
                \/ MayPassAll(Front(r.calls[k].handlers)) /\ Finish(<<s[1], s[2], k>>)
                \/ MayStopAny(Front(r.calls[k].handlers)) /\ Finish(None)
         ELSE GoOn(Past(s))

\* The end of a router: back to the one it is mounted in, or not found.
Leave ==
  /\ request # None /\ LayersFrom(Top.recv, Top.at) = {}
  /\ IF Len(request.stack) = 1 THEN Finish(None) ELSE GoOn(Front(request.stack))

Next ==
  \/ \E f \in File : \E stmt \in Statements[f] : Write(f, stmt)
  \/ Scan
  \/ \E p \in Paths, c \in BOOLEAN : Arrive(p, c)
  \/ ThroughUse \/ IntoMount \/ ToRoute \/ Leave

Spec == Init /\ [][Next]_vars

-----------------------------------------------------------------------------
(* Properties *)

\* A caller without credentials never reaches the handler of an endpoint the
\* scan called GUARDED.
GuardedIsEnforced ==
  [][served' # None /\ served' # served /\ Reported(served') /\ report.verdict[served'] = "GUARDED"
       => request.credentials]_vars

\* Unless an endpoint is UNRESOLVED, it is reported under the path it answers.
ReportedPathIsServed ==
  [][request # None /\ served' # None /\ Reported(served') /\ report.verdict[served'] # "UNRESOLVED"
       => report.path[served'] = request.path]_vars

\* A route that answers is in the report, or the report says that something
\* could not be resolved.
ServedIsReported ==
  [][served' # None /\ served' # served => Reported(served') \/ report.unresolved]_vars

\* The adapter never builds a graph the core refuses.
AdapterGraphIsValid == report # None => report.valid

=============================================================================
