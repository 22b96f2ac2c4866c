------------------------------ MODULE Ownership ------------------------------
(***************************************************************************)
(* resolve_ownership (frontends/conformance.py): which adapter owns a      *)
(* declaration that several claim.  The claims come as a tuple, in any     *)
(* order, some of them twice and under different spellings; they are       *)
(* merged one by one, and then decided group by group.                     *)
(*                                                                         *)
(* A claim is [subject, group, adapter, state, role, evidence, known]:     *)
(* `known` holds the ids of its applicability's evidence, `evidence` those *)
(* it refers to.  Subject and group are the segments of their text between *)
(* slashes of either kind.                                                 *)
(***************************************************************************)
EXTENDS Naturals, Sequences, FiniteSets, SequencesExt

CONSTANTS
  Options,       \* the claims adapters may make
  MaxClaims      \* bound on the claims of one call

Roles  == {"owner", "metadata"}
States == {"active", "inactive", "ambiguous"}

ASSUME OwnershipAssumption ==
  /\ MaxClaims \in Nat
  /\ \A c \in Options : c.state \in States /\ {c.subject, c.group} \subseteq Seq(STRING)

VARIABLES
  claims,       \* the tuple resolve_ownership is given
  next,         \* how many of them have been read
  merged,       \* merged
  phase,        \* "merging", "refused" by a ValueError, "invalid" when the last check
                \* fails, or "done"
  decisions     \* the result

vars == <<claims, next, merged, phase, decisions>>

-----------------------------------------------------------------------------
(* _normalize_identity *)

\* The elements of s at the positions in I, in order.
Keep(s, I) == [k \in 1 .. Cardinality(I) |->
                 s[CHOOSE i \in I : Cardinality({j \in I : j <= i}) = k]]

\* "//" becomes "/", as long as there is one: an empty segment stays only at the
\* front and at the back.
Collapsed(s) == Keep(s, {i \in DOMAIN s : s[i] # "" \/ i \in {1, Len(s)}})

\* "/./" becomes "/", once, from left to right: a segment "." between two others
\* goes unless the one before it went.
Undotted(s) ==
  LET Goes[i \in 0 .. Len(s)] == i > 1 /\ i < Len(s) /\ s[i] = "." /\ ~Goes[i - 1]
  IN  Keep(s, {i \in DOMAIN s : ~Goes[i]})

WithoutPrefix(s) == IF Len(s) > 1 /\ s[1] = "." THEN Tail(s) ELSE s

\* rstrip("/")
Stripped(s) == Keep(s, {i \in DOMAIN s : i = 1 \/ \E j \in i .. Len(s) : s[j] # ""})

\* Faulty variant: doubled slashes stay.
NormalizedButSlashes(s) == Stripped(WithoutPrefix(Undotted(s)))

Normalized(s) == Stripped(WithoutPrefix(Undotted(Collapsed(s))))

Empty == <<"">>

-----------------------------------------------------------------------------
(* _normalized_claims *)

Key(c) == <<Normalized(c.subject), Normalized(c.group), c.adapter>>

\* What a claim must be on its own.
Sound(c) ==
  /\ c.role \in Roles
  /\ Normalized(c.subject) # Empty /\ Normalized(c.group) # Empty
  /\ c.evidence \subseteq c.known
  /\ c.role = "owner" /\ c.state # "inactive" => c.evidence # {}

Previous(c) == {x \in merged : <<x.subject, x.group, x.adapter>> = Key(c)}

Agrees(c) == \A x \in Previous(c) : x.role = c.role /\ x.state = c.state

AsNormalized(c, evidence) ==
  [subject |-> Normalized(c.subject), group |-> Normalized(c.group), adapter |-> c.adapter,
   state |-> c.state, role |-> c.role, evidence |-> evidence]

Refuse ==
  /\ phase = "merging" /\ next < Len(claims)
  /\ LET c == claims[next + 1] IN ~Sound(c) \/ ~Agrees(c)
  /\ phase' = "refused"
  /\ UNCHANGED <<claims, next, merged, decisions>>

\* Faulty variant: the later claim replaces the earlier one.
Replacing(c) == (merged \ Previous(c)) \cup {AsNormalized(c, c.evidence)}

\* Faulty variant: a claim made twice is there twice.
Adding(c) == merged \cup {AsNormalized(c, c.evidence)}

\* merged[key] = ..: one claim per key, with the evidence of both.
Merging(c) ==
  (merged \ Previous(c))
    \cup {AsNormalized(c, c.evidence \cup UNION {x.evidence : x \in Previous(c)})}

Merge ==
  /\ phase = "merging" /\ next < Len(claims)
  /\ LET c == claims[next + 1]
     IN  /\ Sound(c) /\ Agrees(c)
         /\ merged' = Merging(c)
  /\ next' = next + 1
  /\ UNCHANGED <<claims, phase, decisions>>

-----------------------------------------------------------------------------
(* resolve_ownership, a group at a time *)

GroupOf(cs, c) == {x \in cs : x.subject = c.subject /\ x.group = c.group}

Contenders(cs) == {x \in cs : x.role = "owner" /\ x.state \in {"active", "ambiguous"}}

Adapters(cs) == {x.adapter : x \in Contenders(cs)}

\* Faulty variant: doubts about its own applicability do not disqualify an adapter.
AmbiguousByNumber(cs) == \E a, b \in Adapters(cs) : a # b

Ambiguous(cs) == \/ \E a, b \in Adapters(cs) : a # b
                 \/ \E x \in Contenders(cs) : x.state = "ambiguous"

\* Faulty variant: among several adapters the first wins.
StandingOfFirst(cs, c) ==
  IF c \in Contenders(cs) /\ c.adapter = (CHOOSE a \in Adapters(cs) : TRUE) THEN "selected"
  ELSE "rejected"

\* The state of one decision.
Standing(cs, c) ==
  IF c.role = "metadata" \/ c.state = "inactive" THEN "rejected"
  ELSE IF Ambiguous(cs) THEN "ambiguous"
  ELSE IF Adapters(cs) = {c.adapter} THEN "selected"
  ELSE "rejected"

Decisions(cs) ==
  {[subject |-> c.subject, group |-> c.group, adapter |-> c.adapter,
    state |-> Standing(GroupOf(cs, c), c), evidence |-> c.evidence] : c \in cs}

\* _validate_decisions
Consistent(ds) ==
  \A d, e \in ds :
    d.subject = e.subject /\ d.group = e.group /\ d.state = "selected"
      => (e.state = "selected" => e = d) /\ e.state # "ambiguous"

Decide ==
  /\ phase = "merging" /\ next = Len(claims)
  /\ decisions' = Decisions(merged)
  /\ phase' = IF Consistent(decisions') THEN "done" ELSE "invalid"
  /\ UNCHANGED <<claims, next, merged>>

Init ==
  /\ claims \in BoundedSeq(Options, MaxClaims)
  /\ next = 0 /\ merged = {} /\ phase = "merging" /\ decisions = {}

Next == Merge \/ Refuse \/ Decide

Spec == Init /\ [][Next]_vars

-----------------------------------------------------------------------------
(* Properties *)

Read == {claims[i] : i \in 1 .. next}

TypeOK ==
  /\ next \in 0 .. Len(claims)
  /\ phase \in {"merging", "refused", "invalid", "done"}
  /\ \A i \in DOMAIN claims : claims[i] \in Options
  /\ \A c \in merged : c.state \in States /\ c.role \in Roles
  /\ \A c, d \in merged : <<c.subject, c.group, c.adapter>> = <<d.subject, d.group, d.adapter>> => c = d

\* Whatever was merged so far, a group has one owner at most, and none while
\* anything in it is ambiguous: the check at the end of resolve_ownership can
\* never fail.
OneOwner == Consistent(Decisions(merged)) /\ phase # "invalid"

\* Where a text leads as a path, whatever its spelling.
Steps(s)     == {i \in DOMAIN s : s[i] \notin {"", "."} \/ (i = 1 /\ s[i] = "")}
Canonical(s) == Keep(s, Steps(s))

SameDeclaration(c, d) ==
  Canonical(c.subject) = Canonical(d.subject) /\ Canonical(c.group) = Canonical(d.group)

\* An adapter owns a declaration only if it claimed it as active, with evidence,
\* and if no other adapter claimed to own the same declaration, under any
\* spelling of it, without being inactive.
SelectionIsEarned ==
  phase = "done" =>
    \A d \in decisions : d.state = "selected" =>
      /\ d.evidence # {}
      /\ \E i \in DOMAIN claims :
           /\ SameDeclaration(claims[i], d) /\ claims[i].adapter = d.adapter
           /\ claims[i].role = "owner" /\ claims[i].state = "active"
      /\ \A i \in DOMAIN claims :
           /\ SameDeclaration(claims[i], d) /\ claims[i].adapter # d.adapter
           /\ claims[i].role = "owner"
           => claims[i].state = "inactive"

SameIdentity(c, d) ==
  Normalized(c.subject) = Normalized(d.subject) /\ Normalized(c.group) = Normalized(d.group)

\* Every "." of a text stands before a segment that leads somewhere; "a/././b" and
\* "a/." are not spelled well, and normalisation leaves a "." in them.
WellSpelled(s) ==
  \A i \in DOMAIN s : s[i] = "." =>
    \E j \in DOMAIN s : i < j /\ s[j] \notin {"", "."} /\ \A k \in DOMAIN s : i < k /\ k < j => s[k] = ""

\* Of the claims that are not refused: "./" leads nowhere and is.
ClaimsAreWellSpelled ==
  \A c \in Options : Sound(c) => WellSpelled(c.subject) /\ WellSpelled(c.group)

\* The decision about an adapter's claims to a declaration, from all the claims
\* together: no order, no merging.
Reference(c) ==
  LET Rivals == {claims[i] : i \in {j \in DOMAIN claims : SameIdentity(claims[j], c)}}
      Own    == {x \in Rivals : x.adapter = c.adapter}
      Wants(x) == x.role = "owner" /\ x.state # "inactive"
      Doubt  == \/ \E x, y \in Rivals : Wants(x) /\ Wants(y) /\ x.adapter # y.adapter
                \/ \E x \in Rivals : Wants(x) /\ x.state = "ambiguous"
  IN  [subject |-> Normalized(c.subject), group |-> Normalized(c.group), adapter |-> c.adapter,
       state |-> IF ~Wants(c) THEN "rejected" ELSE IF Doubt THEN "ambiguous" ELSE "selected",
       evidence |-> UNION {x.evidence : x \in Own}]

\* The result does not depend on the order of the claims or on how often one is
\* made: it is what the reference says of them as a set.
OrderDoesNotMatter == phase = "done" => decisions = {Reference(claims[i]) : i \in DOMAIN claims}

Owners == {[subject |-> d.subject, group |-> d.group, adapter |-> d.adapter]
             : d \in {x \in Decisions(merged) : x.state = "selected"}}

\* One more claim can take a declaration away from its owner, it can never give
\* it to another.
OwnerNeverChanges ==
  [][\A o \in Owners, n \in Owners' :
       o.subject = n.subject /\ o.group = n.group => o.adapter = n.adapter]_vars
=============================================================================
