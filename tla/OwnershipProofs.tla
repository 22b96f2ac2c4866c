-------------------------- MODULE OwnershipProofs --------------------------
(***************************************************************************)
(* Proofs about Ownership, for any claims and any number of them.  The     *)
(* induction is on IInv: what has been merged stands for exactly the       *)
(* claims that were read, one claim for each key, with its role and state  *)
(* and the evidence of all the claims with that key.  The second part is   *)
(* about spellings: what _normalize_identity keeps of a text, in order.    *)
(***************************************************************************)
EXTENDS Ownership, FiniteSetTheorems, SequenceTheorems, WellFoundedInduction, TLAPS

KeyOf(x) == <<x.subject, x.group, x.adapter>>

\* The claim at i was merged into x.
StandsFor(x, i) ==
  KeyOf(x) = Key(claims[i]) /\ x.role = claims[i].role /\ x.state = claims[i].state

HasEvidenceOf(x, n) ==
  \A e : e \in x.evidence <=> \E i \in 1 .. n : Key(claims[i]) = KeyOf(x) /\ e \in claims[i].evidence

KeysAreUnique    == \A x, y \in merged : KeyOf(x) = KeyOf(y) => x = y
NothingInvented  == \A x \in merged : \E i \in 1 .. next : StandsFor(x, i)
NothingForgotten == \A i \in 1 .. next : \E x \in merged : StandsFor(x, i)
EvidenceIsUnited == \A x \in merged : HasEvidenceOf(x, next)

IInv ==
  /\ next \in 0 .. Len(claims)
  /\ claims \in Seq(Options)
  /\ phase \in {"merging", "refused", "invalid", "done"}
  /\ phase \in {"invalid", "done"} =>
       next = Len(claims) /\ decisions = Decisions(merged) /\ (phase = "done" <=> Consistent(decisions))
  /\ \A x \in merged : x.role \in Roles
  /\ KeysAreUnique /\ NothingInvented /\ NothingForgotten /\ EvidenceIsUnited

-----------------------------------------------------------------------------
(* One group of claims *)

\* A selected claim is one of the contenders of its group, and they are all of
\* one adapter.
LEMMA SelectedIsAlone ==
  ASSUME NEW cs, NEW x \in cs, x.role \in Roles, x.state \in States,
         Standing(GroupOf(cs, x), x) = "selected"
  PROVE  /\ x \in Contenders(GroupOf(cs, x))
         /\ Adapters(GroupOf(cs, x)) = {x.adapter}
         /\ ~Ambiguous(GroupOf(cs, x))
BY DEF Standing, GroupOf, Contenders, Roles, States

\* Two claims to one declaration are weighed in the same group.
LEMMA OneGroup ==
  ASSUME NEW cs, NEW x, NEW y, x.subject = y.subject, x.group = y.group
  PROVE  GroupOf(cs, x) = GroupOf(cs, y)
BY DEF GroupOf

\* The check at the end of resolve_ownership holds of the decisions about any
\* claims with different keys: at most one owner, and none beside an ambiguity.
LEMMA AlwaysConsistent ==
  ASSUME NEW cs, \A x \in cs : x.role \in Roles /\ x.state \in States,
         \A x, y \in cs : KeyOf(x) = KeyOf(y) => x = y
  PROVE  Consistent(Decisions(cs))
<1> SUFFICES ASSUME NEW d \in Decisions(cs), NEW e \in Decisions(cs),
                    d.subject = e.subject, d.group = e.group, d.state = "selected"
             PROVE  (e.state = "selected" => e = d) /\ e.state # "ambiguous"
  BY DEF Consistent
<1>1. PICK x \in cs :
        d = [subject |-> x.subject, group |-> x.group, adapter |-> x.adapter,
             state |-> Standing(GroupOf(cs, x), x), evidence |-> x.evidence]
  BY DEF Decisions
<1>2. PICK y \in cs :
        e = [subject |-> y.subject, group |-> y.group, adapter |-> y.adapter,
             state |-> Standing(GroupOf(cs, y), y), evidence |-> y.evidence]
  BY DEF Decisions
<1>3. x.subject = y.subject /\ x.group = y.group /\ Standing(GroupOf(cs, x), x) = "selected"
  BY <1>1, <1>2
<1>4. GroupOf(cs, x) = GroupOf(cs, y)
  BY <1>3, OneGroup
<1>5. Adapters(GroupOf(cs, x)) = {x.adapter} /\ ~Ambiguous(GroupOf(cs, x))
  BY <1>3, SelectedIsAlone
<1>6. e.state # "ambiguous"
  <2>1. Standing(GroupOf(cs, y), y) # "ambiguous"
    BY <1>4, <1>5 DEF Standing
  <2> QED BY <1>2, <2>1
<1>7. ASSUME e.state = "selected" PROVE e = d
  <2>1. Standing(GroupOf(cs, y), y) = "selected"
    BY <1>2, <1>7
  <2>2. Adapters(GroupOf(cs, y)) = {y.adapter}
    BY <2>1, SelectedIsAlone
  <2>3. x.adapter = y.adapter
    BY <1>4, <1>5, <2>2
  <2>4. x = y
    BY <1>3, <2>3 DEF KeyOf
  <2> QED BY <1>1, <1>2, <2>4
<1> QED BY <1>6, <1>7

-----------------------------------------------------------------------------
(* The induction *)

\* States of the claims that were merged.
LEMMA StatesOfMerged ==
  ASSUME IInv PROVE \A x \in merged : x.state \in States
<1> SUFFICES ASSUME NEW x \in merged PROVE x.state \in States
  OBVIOUS
<1>1. PICK i \in 1 .. next : StandsFor(x, i)
  BY DEF IInv, NothingInvented
<1>2. claims[i] \in Options
  BY DEF IInv
<1> QED BY <1>1, <1>2, OwnershipAssumption DEF StandsFor, OwnershipAssumption

\* What a merge puts in the place of the claims with the same key.
LEMMA MergedClaim ==
  ASSUME NEW c, NEW ev
  PROVE  LET n == AsNormalized(c, ev)
         IN  KeyOf(n) = Key(c) /\ n.role = c.role /\ n.state = c.state /\ n.evidence = ev
BY DEF AsNormalized, KeyOf, Key

\* Nothing is read, nothing is merged.
LEMMA InitIInv == Init => IInv
<1> SUFFICES ASSUME Init PROVE IInv
  OBVIOUS
<1>1. claims \in Seq(Options) /\ Len(claims) \in Nat
  <2>1. PICK m \in 0 .. MaxClaims : claims \in [1 .. m -> Options]
    BY OwnershipAssumption DEF Init, BoundedSeq, SeqOf, OwnershipAssumption
  <2> QED BY <2>1, OwnershipAssumption DEF OwnershipAssumption
<1> QED
  BY <1>1 DEF Init, IInv, KeysAreUnique, NothingInvented, NothingForgotten, EvidenceIsUnited

\* One more claim is merged into those of its key.
LEMMA MergeIInv == IInv /\ Merge => IInv'
<1> SUFFICES ASSUME IInv, Merge PROVE IInv'
  OBVIOUS
<1> DEFINE c  == claims[next + 1]
           ev == c.evidence \cup UNION {x.evidence : x \in Previous(c)}
           n  == AsNormalized(c, ev)
<1>1. /\ next \in Nat /\ next + 1 \in 1 .. Len(claims) /\ next' = next + 1
      /\ claims' = claims /\ claims \in Seq(Options) /\ phase = "merging" /\ phase' = phase
  BY DEF IInv, Merge
<1>2. merged' = (merged \ Previous(c)) \cup {n} /\ Sound(c) /\ Agrees(c)
  BY DEF Merge, Merging
<1>3. KeyOf(n) = Key(c) /\ n.role = c.role /\ n.state = c.state /\ n.evidence = ev
  BY MergedClaim
<1>4. \A x : x \in Previous(c) <=> x \in merged /\ KeyOf(x) = Key(c)
  BY DEF Previous, KeyOf
<1> HIDE DEF n
<1>5. \A x \in merged' : x.role \in Roles
  BY <1>2, <1>3 DEF IInv, Sound
<1>6. KeysAreUnique'
  <2> SUFFICES ASSUME NEW x \in merged', NEW y \in merged', KeyOf(x) = KeyOf(y) PROVE x = y
    BY DEF KeysAreUnique, KeyOf
  <2> QED BY <1>2, <1>3, <1>4 DEF IInv, KeysAreUnique
<1>7. \A x, i : StandsFor(x, i)' <=> StandsFor(x, i)
  BY <1>1 DEF StandsFor, KeyOf, Key
<1>8. StandsFor(n, next + 1)
  BY <1>3 DEF StandsFor
<1>9. NothingInvented'
  <2> SUFFICES ASSUME NEW x \in merged' PROVE \E i \in 1 .. next' : StandsFor(x, i)
    BY <1>7 DEF NothingInvented
  <2>1. CASE x = n
    BY <1>1, <1>8, <2>1
  <2>2. CASE x \in merged
    BY <1>1, <2>2 DEF IInv, NothingInvented
  <2> QED BY <1>2, <2>1, <2>2
<1>10. NothingForgotten'
  <2> SUFFICES ASSUME NEW i \in 1 .. next' PROVE \E x \in merged' : StandsFor(x, i)
    BY <1>7 DEF NothingForgotten
  <2>1. n \in merged'
    BY <1>2
  <2>2. CASE i = next + 1
    BY <1>8, <2>1, <2>2
  <2>3. CASE i \in 1 .. next
    <3>1. PICK x \in merged : StandsFor(x, i)
      BY <2>3 DEF IInv, NothingForgotten
    <3>2. CASE x \in Previous(c)
      <4>1. KeyOf(x) = Key(c) /\ x.role = c.role /\ x.state = c.state
        BY <1>2, <1>4, <3>2 DEF Agrees
      <4>2. StandsFor(n, i)
        BY <1>3, <3>1, <4>1 DEF StandsFor
      <4> QED BY <2>1, <4>2
    <3>3. CASE x \notin Previous(c)
      BY <1>2, <3>1, <3>3
    <3> QED BY <3>2, <3>3
  <2> QED BY <1>1, <2>2, <2>3
<1>11. EvidenceIsUnited'
  <2> SUFFICES ASSUME NEW x \in merged', NEW e
               PROVE  e \in x.evidence <=>
                        \E i \in 1 .. next + 1 : Key(claims[i]) = KeyOf(x) /\ e \in claims[i].evidence
    BY <1>1 DEF EvidenceIsUnited, HasEvidenceOf, KeyOf, Key
  <2>1. \A y \in merged : e \in y.evidence <=>
                \E i \in 1 .. next : Key(claims[i]) = KeyOf(y) /\ e \in claims[i].evidence
    BY DEF IInv, EvidenceIsUnited, HasEvidenceOf
  <2>2. CASE x \in merged /\ KeyOf(x) # Key(c)
    BY <1>1, <2>1, <2>2
  <2>3. CASE x = n
    <3>1. e \in ev <=> e \in c.evidence \/ \E y \in Previous(c) : e \in y.evidence
      OBVIOUS
    <3>2. (\E y \in Previous(c) : e \in y.evidence)
            <=> \E i \in 1 .. next : Key(claims[i]) = Key(c) /\ e \in claims[i].evidence
      <4>1. ASSUME NEW y \in Previous(c), e \in y.evidence
            PROVE  \E i \in 1 .. next : Key(claims[i]) = Key(c) /\ e \in claims[i].evidence
        BY <1>4, <2>1, <4>1
      <4>2. ASSUME NEW i \in 1 .. next, Key(claims[i]) = Key(c), e \in claims[i].evidence
            PROVE  \E y \in Previous(c) : e \in y.evidence
        <5>1. PICK y \in merged : StandsFor(y, i)
          BY DEF IInv, NothingForgotten
        <5>2. y \in Previous(c)
          BY <1>4, <4>2, <5>1 DEF StandsFor
        <5>3. e \in y.evidence
          BY <2>1, <4>2, <5>1 DEF StandsFor
        <5> QED BY <5>2, <5>3
      <4> QED BY <4>1, <4>2
    <3>3. (\E i \in 1 .. next + 1 : Key(claims[i]) = Key(c) /\ e \in claims[i].evidence)
            <=> \/ e \in c.evidence
                \/ \E i \in 1 .. next : Key(claims[i]) = Key(c) /\ e \in claims[i].evidence
      BY <1>1
    <3> QED BY <1>3, <2>3, <3>1, <3>2, <3>3
  <2> QED BY <1>2, <1>4, <2>2, <2>3
<1>12. next' \in 0 .. Len(claims')
  BY <1>1
<1> QED
  BY <1>1, <1>5, <1>6, <1>9, <1>10, <1>11, <1>12 DEF IInv

\* Every step: a claim merged, a claim refused, the decisions.
LEMMA NextIInv == IInv /\ [Next]_vars => IInv'
<1> SUFFICES ASSUME IInv, [Next]_vars PROVE IInv'
  OBVIOUS
<1>1. CASE Merge
  BY <1>1, MergeIInv
<1>2. ASSUME UNCHANGED <<claims, next, merged>>
      PROVE  /\ (\A x, i : StandsFor(x, i)' <=> StandsFor(x, i))
             /\ (KeysAreUnique /\ NothingInvented /\ NothingForgotten /\ EvidenceIsUnited)'
             /\ (next \in 0 .. Len(claims) /\ claims \in Seq(Options) /\ \A x \in merged : x.role \in Roles)'
             /\ Decisions(merged)' = Decisions(merged)
  BY <1>2 DEF IInv, KeysAreUnique, NothingInvented, NothingForgotten, EvidenceIsUnited, HasEvidenceOf,
              StandsFor, KeyOf, Key, Decisions
<1>3. CASE Refuse
  BY <1>2, <1>3 DEF Refuse, IInv
<1>4. CASE Decide
  <2>1. next' = Len(claims') /\ decisions' = Decisions(merged) /\ UNCHANGED <<claims, next, merged>>
        /\ phase' = IF Consistent(decisions') THEN "done" ELSE "invalid"
    BY <1>4 DEF Decide
  <2>2. Consistent(decisions)' <=> Consistent(decisions')
    BY DEF Consistent
  <2> QED BY <1>2, <2>1, <2>2 DEF IInv
<1>5. CASE UNCHANGED vars
  <2>1. Consistent(decisions)' <=> Consistent(decisions)
    BY <1>5 DEF vars, Consistent
  <2> QED BY <1>2, <1>5, <2>1 DEF vars, IInv
<1> QED BY <1>1, <1>3, <1>4, <1>5 DEF Next

\* The inductive invariant holds: merged stands for the claims that were read.
THEOREM Invariance == Spec => []IInv
BY InitIInv, NextIInv, PTL DEF Spec

\* The type invariant: one claim for each key, with a role and a state.
THEOREM TypeCorrect == Spec => []TypeOK
<1>1. IInv => TypeOK
  <2> SUFFICES ASSUME IInv PROVE TypeOK
    OBVIOUS
  <2>1. \A c \in merged : c.state \in States
    BY StatesOfMerged
  <2> QED
    BY <2>1 DEF IInv, TypeOK, KeysAreUnique, KeyOf
<1> QED
  BY <1>1, Invariance, PTL

\* At any moment of the merge a group has one owner at most, and none while
\* anything in it is ambiguous: _validate_decisions never raises.
THEOREM OneOwnerAlways == Spec => []OneOwner
<1>1. IInv => OneOwner
  <2> SUFFICES ASSUME IInv PROVE OneOwner
    OBVIOUS
  <2>1. \A x \in merged : x.role \in Roles /\ x.state \in States
    BY StatesOfMerged DEF IInv
  <2>2. \A x, y \in merged : KeyOf(x) = KeyOf(y) => x = y
    BY DEF IInv, KeysAreUnique
  <2>3. Consistent(Decisions(merged))
    BY <2>1, <2>2, AlwaysConsistent
  <2> QED
    BY <2>3 DEF IInv, OneOwner
<1> QED
  BY <1>1, Invariance, PTL

-----------------------------------------------------------------------------
(* What one more claim can do *)

\* An owner comes from a claim that is alone in its group.
LEMMA OwnerIsContender ==
  ASSUME NEW cs, \A x \in cs : x.role \in Roles /\ x.state \in States,
         NEW d \in Decisions(cs), d.state = "selected"
  PROVE  \E x \in cs : /\ x.subject = d.subject /\ x.group = d.group /\ x.adapter = d.adapter
                       /\ x \in Contenders(cs)
                       /\ Adapters(GroupOf(cs, x)) = {x.adapter}
<1>1. PICK x \in cs :
        d = [subject |-> x.subject, group |-> x.group, adapter |-> x.adapter,
             state |-> Standing(GroupOf(cs, x), x), evidence |-> x.evidence]
  BY DEF Decisions
<1>2. x \in Contenders(GroupOf(cs, x)) /\ Adapters(GroupOf(cs, x)) = {x.adapter}
  BY <1>1, SelectedIsAlone
<1>3. x \in Contenders(cs)
  BY <1>2 DEF Contenders, GroupOf
<1> QED
  BY <1>1, <1>2, <1>3

\* A merge keeps what a claim wants: the same key, role and state remain.
LEMMA MergeKeeps ==
  ASSUME Merge, NEW x \in merged
  PROVE  \E y \in merged' : KeyOf(y) = KeyOf(x) /\ y.role = x.role /\ y.state = x.state
<1> DEFINE c  == claims[next + 1]
           ev == c.evidence \cup UNION {z.evidence : z \in Previous(c)}
           n  == AsNormalized(c, ev)
<1>1. merged' = (merged \ Previous(c)) \cup {n} /\ Agrees(c)
  BY DEF Merge, Merging
<1>2. KeyOf(n) = Key(c) /\ n.role = c.role /\ n.state = c.state
  BY MergedClaim
<1>3. x \in Previous(c) => KeyOf(x) = Key(c) /\ x.role = c.role /\ x.state = c.state
  BY <1>1 DEF Agrees, Previous, KeyOf
<1> HIDE DEF n
<1> QED
  BY <1>1, <1>2, <1>3

\* One more claim can put an owner in doubt, it can never hand the declaration
\* to another adapter (the merging loop of _normalized_claims).
THEOREM OwnerIsStable == Spec => OwnerNeverChanges
<1>1. ASSUME IInv, IInv', [Next]_vars
      PROVE  \A o \in Owners, n \in Owners' :
               o.subject = n.subject /\ o.group = n.group => o.adapter = n.adapter
  <2> SUFFICES ASSUME NEW o \in Owners, NEW n \in Owners', o.subject = n.subject, o.group = n.group
               PROVE  o.adapter = n.adapter
    OBVIOUS
  <2>1. /\ \A x \in merged : x.role \in Roles /\ x.state \in States
        /\ \A x \in merged' : x.role \in Roles /\ x.state \in States
    <3>1. (\A x \in merged : x.state \in States)'
      BY <1>1, StatesOfMerged, PTL
    <3> QED
      BY <1>1, <3>1, StatesOfMerged DEF IInv, States
  <2>2. PICK d \in Decisions(merged) :
          d.state = "selected" /\ d.subject = o.subject /\ d.group = o.group /\ d.adapter = o.adapter
    BY DEF Owners
  <2>3. PICK e \in Decisions(merged') :
          e.state = "selected" /\ e.subject = n.subject /\ e.group = n.group /\ e.adapter = n.adapter
    BY DEF Owners, Decisions
  <2>4. PICK x \in merged : /\ x.subject = o.subject /\ x.group = o.group /\ x.adapter = o.adapter
                            /\ x \in Contenders(merged)
    BY <2>1, <2>2, OwnerIsContender
  <2>5. PICK y \in merged' : /\ y.subject = n.subject /\ y.group = n.group /\ y.adapter = n.adapter
                             /\ Adapters(GroupOf(merged', y)) = {y.adapter}
    BY <2>1, <2>3, OwnerIsContender
  <2>6. PICK z \in merged' : KeyOf(z) = KeyOf(x) /\ z.role = x.role /\ z.state = x.state
    <3>1. CASE Merge
      BY <3>1, MergeKeeps
    <3>2. CASE merged' = merged
      BY <3>2
    <3> QED
      BY <1>1, <3>1, <3>2 DEF Next, Refuse, Decide, vars
  <2>7. z \in Contenders(GroupOf(merged', y)) /\ z.adapter = x.adapter
    BY <2>4, <2>5, <2>6 DEF KeyOf, Contenders, GroupOf
  <2>8. z.adapter \in Adapters(GroupOf(merged', y))
    BY <2>7 DEF Adapters
  <2> QED
    BY <2>4, <2>5, <2>7, <2>8
<1>2. OwnerNeverChanges <=>
        [][\A o \in Owners, n \in Owners' :
             o.subject = n.subject /\ o.group = n.group => o.adapter = n.adapter]_vars
  BY DEF OwnerNeverChanges
<1> QED
  BY <1>1, <1>2, Invariance, PTL DEF Spec

-----------------------------------------------------------------------------
(* The result as a function of the claims *)

\* The claims that are decided together are those to the same declaration.
LEMMA GroupIsRivals ==
  ASSUME IInv, next = Len(claims), NEW x \in merged, NEW i \in DOMAIN claims, StandsFor(x, i)
  PROVE  \A a, st :
           (\E y \in GroupOf(merged, x) : y.adapter = a /\ y.role = "owner" /\ y.state = st)
             <=> \E j \in DOMAIN claims : /\ SameIdentity(claims[j], claims[i])
                                         /\ claims[j].adapter = a
                                         /\ claims[j].role = "owner" /\ claims[j].state = st
<1>1. DOMAIN claims = 1 .. next
  BY DEF IInv
<1>2. x.subject = Normalized(claims[i].subject) /\ x.group = Normalized(claims[i].group)
  BY DEF StandsFor, KeyOf, Key
<1> SUFFICES ASSUME NEW a, NEW st
             PROVE  (\E y \in GroupOf(merged, x) : y.adapter = a /\ y.role = "owner" /\ y.state = st)
                      <=> \E j \in DOMAIN claims : /\ SameIdentity(claims[j], claims[i])
                                                  /\ claims[j].adapter = a
                                                  /\ claims[j].role = "owner" /\ claims[j].state = st
  OBVIOUS
<1>3. ASSUME NEW y \in GroupOf(merged, x), y.adapter = a, y.role = "owner", y.state = st
      PROVE  \E j \in DOMAIN claims : /\ SameIdentity(claims[j], claims[i])
                                     /\ claims[j].adapter = a
                                     /\ claims[j].role = "owner" /\ claims[j].state = st
  <2>1. y \in merged /\ y.subject = x.subject /\ y.group = x.group
    BY DEF GroupOf
  <2>2. PICK j \in 1 .. next : StandsFor(y, j)
    BY <2>1 DEF IInv, NothingInvented
  <2> QED
    BY <1>1, <1>2, <1>3, <2>1, <2>2 DEF StandsFor, KeyOf, Key, SameIdentity
<1>4. ASSUME NEW j \in DOMAIN claims, SameIdentity(claims[j], claims[i]), claims[j].adapter = a,
             claims[j].role = "owner", claims[j].state = st
      PROVE  \E y \in GroupOf(merged, x) : y.adapter = a /\ y.role = "owner" /\ y.state = st
  <2>1. PICK y \in merged : StandsFor(y, j)
    BY <1>1 DEF IInv, NothingForgotten
  <2> QED
    BY <1>2, <1>4, <2>1 DEF StandsFor, KeyOf, Key, SameIdentity, GroupOf
<1> QED
  BY <1>3, <1>4

Wants(x)    == x.role = "owner" /\ x.state # "inactive"
RivalsOf(c) == {claims[j] : j \in {k \in DOMAIN claims : SameIdentity(claims[k], c)}}
Doubted(c)  == \/ \E a, b \in RivalsOf(c) : Wants(a) /\ Wants(b) /\ a.adapter # b.adapter
               \/ \E a \in RivalsOf(c) : Wants(a) /\ a.state = "ambiguous"

\* The reference merge of one key, written out.
LEMMA ReferenceIs ==
  ASSUME NEW c
  PROVE  Reference(c) =
           [subject |-> Normalized(c.subject), group |-> Normalized(c.group), adapter |-> c.adapter,
            state |-> IF ~Wants(c) THEN "rejected" ELSE IF Doubted(c) THEN "ambiguous" ELSE "selected",
            evidence |-> UNION {x.evidence : x \in {y \in RivalsOf(c) : y.adapter = c.adapter}}]
BY DEF Reference, Wants, RivalsOf, Doubted

\* The merged group is as doubtful as the claims it came from.
LEMMA SameDoubt ==
  ASSUME IInv, next = Len(claims), NEW x \in merged, NEW i \in DOMAIN claims, StandsFor(x, i)
  PROVE  Ambiguous(GroupOf(merged, x)) <=> Doubted(claims[i])
<1> DEFINE G == GroupOf(merged, x)
<1>1. \A j \in DOMAIN claims : claims[j].state \in States
  BY OwnershipAssumption DEF IInv, OwnershipAssumption
<1>2. \A y \in G : y.state \in States
  BY StatesOfMerged DEF GroupOf
<1>3. \A a, st :
        (\E y \in G : y.adapter = a /\ y.role = "owner" /\ y.state = st)
          <=> \E r \in RivalsOf(claims[i]) : r.adapter = a /\ r.role = "owner" /\ r.state = st
  BY GroupIsRivals DEF RivalsOf
<1>4. \A r \in RivalsOf(claims[i]) : r.state \in States
  BY <1>1 DEF RivalsOf
<1> HIDE DEF G
<1>5. \A a : a \in Adapters(G) <=> \E r \in RivalsOf(claims[i]) : Wants(r) /\ r.adapter = a
  <2>1. \A a : a \in Adapters(G) <=>
          \E y \in G : y.adapter = a /\ y.role = "owner" /\ y.state \in {"active", "ambiguous"}
    BY DEF Adapters, Contenders
  <2>2. \A r \in RivalsOf(claims[i]) : Wants(r) <=> r.role = "owner" /\ r.state \in {"active", "ambiguous"}
    BY <1>4 DEF Wants, States
  <2> QED
    BY <1>3, <2>1, <2>2
<1>6. (\E y \in Contenders(G) : y.state = "ambiguous")
        <=> \E r \in RivalsOf(claims[i]) : Wants(r) /\ r.state = "ambiguous"
  <2>1. (\E y \in Contenders(G) : y.state = "ambiguous")
          <=> \E a : \E y \in G : y.adapter = a /\ y.role = "owner" /\ y.state = "ambiguous"
    BY DEF Contenders
  <2>2. (\E r \in RivalsOf(claims[i]) : Wants(r) /\ r.state = "ambiguous")
          <=> \E a : \E r \in RivalsOf(claims[i]) : r.adapter = a /\ r.role = "owner" /\ r.state = "ambiguous"
    BY DEF Wants
  <2> QED
    BY <1>3, <2>1, <2>2
<1>7. (\E a, b \in Adapters(G) : a # b)
        <=> \E a, b \in RivalsOf(claims[i]) : Wants(a) /\ Wants(b) /\ a.adapter # b.adapter
  <2>1. ASSUME NEW a \in Adapters(G), NEW b \in Adapters(G), a # b
        PROVE  \E r, t \in RivalsOf(claims[i]) : Wants(r) /\ Wants(t) /\ r.adapter # t.adapter
    <3>1. PICK r \in RivalsOf(claims[i]) : Wants(r) /\ r.adapter = a
      BY <1>5
    <3>2. PICK t \in RivalsOf(claims[i]) : Wants(t) /\ t.adapter = b
      BY <1>5
    <3> QED
      BY <2>1, <3>1, <3>2
  <2>2. ASSUME NEW r \in RivalsOf(claims[i]), NEW t \in RivalsOf(claims[i]),
               Wants(r), Wants(t), r.adapter # t.adapter
        PROVE  \E a, b \in Adapters(G) : a # b
    BY <1>5, <2>2
  <2> QED
    BY <2>1, <2>2
<1>8. Ambiguous(G) <=> Doubted(claims[i])
  BY <1>6, <1>7, Zenon DEF Ambiguous, Doubted
<1> QED
  BY <1>8 DEF G

\* The decision about a merged claim is the reference for each claim merged in it.
LEMMA DecisionIsReference ==
  ASSUME IInv, next = Len(claims), NEW x \in merged, NEW i \in DOMAIN claims, StandsFor(x, i)
  PROVE  [subject |-> x.subject, group |-> x.group, adapter |-> x.adapter,
          state |-> Standing(GroupOf(merged, x), x), evidence |-> x.evidence] = Reference(claims[i])
<1> DEFINE c == claims[i]
           G == GroupOf(merged, x)
<1>1. /\ x.subject = Normalized(c.subject) /\ x.group = Normalized(c.group) /\ x.adapter = c.adapter
      /\ x.role = c.role /\ x.state = c.state
  BY DEF StandsFor, KeyOf, Key
<1>2. x.role \in Roles /\ x.state \in States
  BY StatesOfMerged DEF IInv
<1>3. Ambiguous(G) <=> Doubted(c)
  BY SameDoubt
<1>4. x \in G
  BY DEF GroupOf
<1> HIDE DEF c, G
<1>5. Standing(G, x) = IF ~Wants(c) THEN "rejected" ELSE IF Doubted(c) THEN "ambiguous" ELSE "selected"
  <2>1. CASE ~Wants(c)
    BY <1>1, <1>2, <2>1 DEF Wants, Standing, Roles
  <2>2. CASE Wants(c) /\ Doubted(c)
    BY <1>1, <1>2, <1>3, <2>2 DEF Wants, Standing, Roles
  <2>3. CASE Wants(c) /\ ~Doubted(c)
    <3>1. x \in Contenders(G)
      BY <1>1, <1>2, <1>4, <2>3 DEF Wants, Contenders, States
    <3>2. Adapters(G) = {c.adapter}
      BY <1>1, <1>3, <2>3, <3>1 DEF Adapters, Ambiguous
    <3> QED
      BY <1>1, <1>2, <1>3, <2>3, <3>2 DEF Wants, Standing, Roles
  <2> QED
    BY <2>1, <2>2, <2>3
<1>6. x.evidence = UNION {y.evidence : y \in {r \in RivalsOf(c) : r.adapter = c.adapter}}
  <2>1. \A e : e \in x.evidence <=>
          \E j \in DOMAIN claims : Key(claims[j]) = KeyOf(x) /\ e \in claims[j].evidence
    BY DEF IInv, EvidenceIsUnited, HasEvidenceOf
  <2>2. \A j \in DOMAIN claims :
          Key(claims[j]) = KeyOf(x) <=> SameIdentity(claims[j], c) /\ claims[j].adapter = c.adapter
    BY <1>1 DEF Key, KeyOf, SameIdentity
  <2>3. \A e : e \in UNION {y.evidence : y \in {r \in RivalsOf(c) : r.adapter = c.adapter}} <=>
          \E j \in DOMAIN claims :
            SameIdentity(claims[j], c) /\ claims[j].adapter = c.adapter /\ e \in claims[j].evidence
    BY DEF RivalsOf
  <2> QED
    BY <2>1, <2>2, <2>3
<1>7. Reference(c) =
           [subject |-> Normalized(c.subject), group |-> Normalized(c.group), adapter |-> c.adapter,
            state |-> IF ~Wants(c) THEN "rejected" ELSE IF Doubted(c) THEN "ambiguous" ELSE "selected",
            evidence |-> UNION {y.evidence : y \in {r \in RivalsOf(c) : r.adapter = c.adapter}}]
  BY ReferenceIs
<1>8. [subject |-> x.subject, group |-> x.group, adapter |-> x.adapter,
       state |-> Standing(G, x), evidence |-> x.evidence] = Reference(c)
  BY <1>1, <1>5, <1>6, <1>7
<1> QED
  BY <1>8 DEF c, G

\* What resolve_ownership returns is a function of the set of claims: neither
\* their order nor repetitions show in it.
THEOREM OrderIsIrrelevant == Spec => []OrderDoesNotMatter
<1>1. IInv => OrderDoesNotMatter
  <2> SUFFICES ASSUME IInv, phase = "done"
               PROVE  decisions = {Reference(claims[i]) : i \in DOMAIN claims}
    BY DEF OrderDoesNotMatter
  <2> DEFINE D(x) == [subject |-> x.subject, group |-> x.group, adapter |-> x.adapter,
                      state |-> Standing(GroupOf(merged, x), x), evidence |-> x.evidence]
  <2>1. next = Len(claims) /\ decisions = {D(x) : x \in merged} /\ DOMAIN claims = 1 .. next
    BY DEF IInv, Decisions
  <2>2. \A x \in merged : \E i \in 1 .. next : StandsFor(x, i)
    BY DEF IInv, NothingInvented
  <2>3. \A i \in 1 .. next : \E x \in merged : StandsFor(x, i)
    BY DEF IInv, NothingForgotten
  <2>4. \A x \in merged, i \in 1 .. next : StandsFor(x, i) => D(x) = Reference(claims[i])
    BY <2>1, DecisionIsReference
  <2> HIDE DEF D
  <2> QED
    BY <2>1, <2>2, <2>3, <2>4
<1> QED
  BY <1>1, Invariance, PTL

-----------------------------------------------------------------------------
(* Spellings: what Keep keeps, in order *)

Rank(I, i)  == Cardinality({j \in I : j <= i})
Nth(I, k)   == CHOOSE i \in I : Rank(I, i) = k

\* Keep takes the elements of s one by one.
LEMMA KeepIs ==
  ASSUME NEW s, NEW I
  PROVE  Keep(s, I) = [k \in 1 .. Cardinality(I) |-> s[Nth(I, k)]]
BY DEF Keep, Nth, Rank

\* A bijection does not change how many there are.
LEMMA SameNumber ==
  ASSUME NEW S, NEW T, IsFiniteSet(S), NEW f \in [S -> T],
         \A x, y \in S : f[x] = f[y] => x = y,
         \A t \in T : \E x \in S : f[x] = t
  PROVE  IsFiniteSet(T) /\ Cardinality(T) = Cardinality(S)
<1>1. f \in Bijection(S, T)
  BY DEF Bijection, Injection, IsInjective, Surjection
<1>2. ExistsBijection(S, T)
  BY <1>1 DEF ExistsBijection
<1> QED
  BY <1>2, FS_Bijection

\* The rank of a position grows with it.
LEMMA RankGrows ==
  ASSUME NEW n \in Nat, NEW I \in SUBSET (1 .. n)
  PROVE  /\ IsFiniteSet(I) /\ Cardinality(I) \in Nat
         /\ \A i \in I : Rank(I, i) \in 1 .. Cardinality(I)
         /\ \A i, j \in I : i < j => Rank(I, i) < Rank(I, j)
<1>1. IsFiniteSet(I) /\ Cardinality(I) \in Nat
  <2>1. IsFiniteSet(1 .. n)
    BY FS_Interval
  <2> QED
    BY <2>1, FS_Subset, FS_CardinalityType
<1>2. ASSUME NEW i \in I PROVE Rank(I, i) \in 1 .. Cardinality(I)
  <2> DEFINE D == {j \in I : j <= i}
  <2>1. D \in SUBSET I /\ i \in D
    OBVIOUS
  <2>2. IsFiniteSet(D) /\ Cardinality(D) <= Cardinality(I) /\ Cardinality(D) \in Nat
    BY <1>1, <2>1, FS_Subset, FS_CardinalityType
  <2>3. Cardinality(D) # 0
    BY <2>1, <2>2, FS_EmptySet
  <2>4. Rank(I, i) = Cardinality(D)
    BY DEF Rank
  <2> HIDE DEF D
  <2> QED
    BY <1>1, <2>2, <2>3, <2>4
<1>3. ASSUME NEW i \in I, NEW j \in I, i < j PROVE Rank(I, i) < Rank(I, j)
  <2> DEFINE D == {k \in I : k <= i}
             E == {k \in I : k <= j}
  <2>1. D \in SUBSET E /\ E \in SUBSET I /\ j \in E /\ j \notin D
    <3>1. \A k \in I : k \in Int
      OBVIOUS
    <3>2. \A k \in I : k <= i => k <= j
      BY <1>3, <3>1
    <3>3. ~(j <= i) /\ j <= j
      BY <1>3, <3>1
    <3> QED
      BY <3>2, <3>3
  <2>2. IsFiniteSet(E)
    BY <1>1, <2>1, FS_Subset
  <2>3. Cardinality(D) <= Cardinality(E) /\ Cardinality(D) # Cardinality(E) /\ IsFiniteSet(D)
    BY <2>1, <2>2, FS_Subset
  <2>4. Cardinality(D) \in Nat /\ Cardinality(E) \in Nat
    BY <2>2, <2>3, FS_CardinalityType
  <2> QED
    BY <2>3, <2>4 DEF Rank
<1> QED
  BY <1>1, <1>2, <1>3

\* The positions in order: every rank is that of one of them.
LEMMA NthIs ==
  ASSUME NEW n \in Nat, NEW I \in SUBSET (1 .. n)
  PROVE  /\ \A k \in 1 .. Cardinality(I) : Nth(I, k) \in I /\ Rank(I, Nth(I, k)) = k
         /\ \A i \in I : Nth(I, Rank(I, i)) = i
<1>1. /\ IsFiniteSet(I) /\ Cardinality(I) \in Nat
      /\ \A i \in I : Rank(I, i) \in 1 .. Cardinality(I)
      /\ \A i, j \in I : i < j => Rank(I, i) < Rank(I, j)
  BY RankGrows
<1>2. \A i, j \in I : Rank(I, i) = Rank(I, j) => i = j
  <2> SUFFICES ASSUME NEW i \in I, NEW j \in I, Rank(I, i) = Rank(I, j) PROVE i = j
    OBVIOUS
  <2>1. Rank(I, i) \in Nat /\ Rank(I, j) \in Nat /\ i \in Nat /\ j \in Nat
    BY <1>1
  <2>2. ~(i < j) /\ ~(j < i)
    BY <1>1, <2>1
  <2> QED
    BY <2>1, <2>2
<1>3. \A k \in 1 .. Cardinality(I) : \E i \in I : Rank(I, i) = k
  <2> DEFINE T == 1 .. Cardinality(I)
             f == [i \in I |-> Rank(I, i)]
  <2>1. IsFiniteSet(T) /\ Cardinality(T) = Cardinality(I)
    BY <1>1, FS_Interval
  <2>2. f \in Injection(I, T)
    BY <1>1, <1>2 DEF Injection, IsInjective
  <2>3. f \in Surjection(I, T)
    BY <2>1, <2>2, FS_Injection
  <2> QED
    BY <2>3 DEF Surjection
<1>4. ASSUME NEW k \in 1 .. Cardinality(I) PROVE Nth(I, k) \in I /\ Rank(I, Nth(I, k)) = k
  BY <1>3 DEF Nth
<1>5. ASSUME NEW i \in I PROVE Nth(I, Rank(I, i)) = i
  <2>1. Rank(I, i) \in 1 .. Cardinality(I)
    BY <1>1
  <2> QED
    BY <1>2, <1>4, <2>1
<1> QED
  BY <1>4, <1>5

\* Positions and their ranks are in the same order.
LEMMA NthGrows ==
  ASSUME NEW n \in Nat, NEW I \in SUBSET (1 .. n),
         NEW k \in 1 .. Cardinality(I), NEW m \in 1 .. Cardinality(I)
  PROVE  Nth(I, k) <= Nth(I, m) <=> k <= m
<1> DEFINE a == Nth(I, k)
           b == Nth(I, m)
<1>1. a \in I /\ b \in I /\ Rank(I, a) = k /\ Rank(I, b) = m
  BY NthIs
<1>2. (a < b => k < m) /\ (b < a => m < k)
  BY <1>1, RankGrows
<1>3. a \in Int /\ b \in Int /\ k \in Int /\ m \in Int /\ (a = b => k = m)
  <2>1. \A i \in I : i \in Int
    OBVIOUS
  <2>2. Cardinality(I) \in Nat
    BY RankGrows
  <2>3. k \in Int /\ m \in Int
    BY <2>2
  <2> HIDE DEF a, b
  <2> QED
    BY <1>1, <2>1, <2>3
<1> HIDE DEF a, b
<1>4. a <= b <=> k <= m
  BY <1>2, <1>3
<1> QED
  BY <1>4 DEF a, b

\* The ranks of those positions in I that are in J.
Ranks(I, J) == {k \in 1 .. Cardinality(I) : Nth(I, k) \in J}

\* To keep some of what was kept is to keep some of it at once.
LEMMA KeepKeep ==
  ASSUME NEW n \in Nat, NEW s, NEW I \in SUBSET (1 .. n), NEW J \in SUBSET I
  PROVE  Keep(Keep(s, I), Ranks(I, J)) = Keep(s, J)
<1> DEFINE N == Cardinality(I)
           K == Ranks(I, J)
<1>0. K \in SUBSET (1 .. N) /\ \A k \in 1 .. N : k \in K <=> Nth(I, k) \in J
  BY DEF Ranks
<1> HIDE DEF K
<1>1. /\ \A k \in 1 .. N : Nth(I, k) \in I /\ Rank(I, Nth(I, k)) = k
      /\ \A i \in I : Nth(I, Rank(I, i)) = i /\ Rank(I, i) \in 1 .. N
      /\ N \in Nat
  BY NthIs, RankGrows
<1>2. J \in SUBSET (1 .. n) /\ K \in SUBSET (1 .. N)
  BY <1>0
<1>3. ASSUME NEW m \in K PROVE Rank(K, m) = Rank(J, Nth(I, m))
  <2> DEFINE D == {k \in K : k <= m}
             E == {j \in J : j <= Nth(I, m)}
             f == [k \in D |-> Nth(I, k)]
  <2>0. m \in 1 .. N
    BY <1>0
  <2>1. \A k \in 1 .. N : Nth(I, k) <= Nth(I, m) <=> k <= m
    BY <2>0, NthGrows
  <2>2. f \in [D -> E]
    <3>1. \A k \in D : Nth(I, k) \in E
      BY <1>0, <2>0, <2>1
    <3> HIDE DEF D, E
    <3> QED
      BY <3>1
  <2>3. \A x, y \in D : f[x] = f[y] => x = y
    <3>1. \A x, y \in D : Nth(I, x) = Nth(I, y) => x = y
      BY <1>0, <1>1
    <3> HIDE DEF D
    <3> QED
      BY <3>1
  <2>4. \A j \in E : \E x \in D : f[x] = j
    <3> SUFFICES ASSUME NEW j \in E PROVE Rank(I, j) \in D /\ f[Rank(I, j)] = j
      OBVIOUS
    <3>1. j \in I /\ j \in J /\ Nth(I, Rank(I, j)) = j /\ Rank(I, j) \in 1 .. N /\ j <= Nth(I, m)
      BY <1>1
    <3>2. Rank(I, j) \in D
      BY <1>0, <2>1, <3>1
    <3> QED
      BY <3>1, <3>2
  <2>5. IsFiniteSet(D)
    <3>1. IsFiniteSet(1 .. N)
      BY <1>1, FS_Interval
    <3>2. D \in SUBSET (1 .. N)
      BY <1>2
    <3> HIDE DEF D, N
    <3> QED
      BY <3>1, <3>2, FS_Subset
  <2>6. Rank(K, m) = Cardinality(D) /\ Rank(J, Nth(I, m)) = Cardinality(E)
    BY DEF Rank
  <2> HIDE DEF D, E, f
  <2> QED
    BY <2>2, <2>3, <2>4, <2>5, <2>6, SameNumber
<1>4. Cardinality(K) = Cardinality(J)
  <2> DEFINE f == [k \in K |-> Nth(I, k)]
  <2>1. f \in [K -> J]
    BY <1>0
  <2>2. \A x, y \in K : f[x] = f[y] => x = y
    BY <1>0, <1>1
  <2>3. \A j \in J : \E x \in K : f[x] = j
    <3> SUFFICES ASSUME NEW j \in J PROVE Rank(I, j) \in K /\ f[Rank(I, j)] = j
      OBVIOUS
    <3> QED
      BY <1>0, <1>1
  <2>4. IsFiniteSet(K)
    <3>1. IsFiniteSet(1 .. N)
      BY <1>1, FS_Interval
    <3> QED
      BY <1>2, <3>1, FS_Subset
  <2> HIDE DEF f
  <2> QED
    BY <2>1, <2>2, <2>3, <2>4, SameNumber
<1> HIDE DEF N
<1>5. ASSUME NEW k \in 1 .. Cardinality(K) PROVE Nth(K, k) \in 1 .. N /\ Nth(J, k) = Nth(I, Nth(K, k))
  <2>1. Nth(K, k) \in K /\ Rank(K, Nth(K, k)) = k
    BY <1>1, <1>2, NthIs
  <2>2. Nth(I, Nth(K, k)) \in J
    BY <1>0, <2>1
  <2>3. Rank(J, Nth(I, Nth(K, k))) = k /\ Nth(K, k) \in 1 .. N
    BY <1>0, <1>3, <2>1
  <2>4. Nth(J, Rank(J, Nth(I, Nth(K, k)))) = Nth(I, Nth(K, k))
    BY <1>2, <2>2, NthIs
  <2> QED
    BY <2>3, <2>4
<1>6. Keep(s, I) = [k \in 1 .. N |-> s[Nth(I, k)]]
  BY KeepIs DEF N
<1>7. Keep(Keep(s, I), K) = [k \in 1 .. Cardinality(K) |-> s[Nth(I, Nth(K, k))]]
  BY <1>5, <1>6, KeepIs
<1>8. Keep(s, J) = [k \in 1 .. Cardinality(J) |-> s[Nth(J, k)]]
  BY KeepIs
<1>9. Keep(Keep(s, I), K) = Keep(s, J)
  BY <1>4, <1>5, <1>7, <1>8
<1> QED
  BY <1>9 DEF K, N

\* The first position stays the first, and the last the last.
LEMMA EndsStay ==
  ASSUME NEW n \in Nat, NEW I \in SUBSET (1 .. n), NEW k \in 1 .. Cardinality(I)
  PROVE  /\ Nth(I, k) = 1 => k = 1
         /\ k = 1 /\ 1 \in I => Nth(I, k) = 1
         /\ Nth(I, k) = n => k = Cardinality(I)
<1>1. Nth(I, k) \in I /\ Rank(I, Nth(I, k)) = k
  BY NthIs
<1>2. \A i \in I : i \in Int /\ 1 <= i /\ i <= n
  OBVIOUS
<1>3. 1 \in I => Rank(I, 1) = 1
  <2> SUFFICES ASSUME 1 \in I PROVE Rank(I, 1) = 1
    OBVIOUS
  <2>1. {j \in I : j <= 1} = {1}
    <3>1. \A j \in I : j <= 1 <=> j = 1
      BY <1>2
    <3> QED
      BY <3>1
  <2> QED
    BY <2>1, FS_Singleton DEF Rank
<1>4. Rank(I, n) = Cardinality(I)
  <2>1. {j \in I : j <= n} = I
    BY <1>2
  <2> QED
    BY <2>1 DEF Rank
<1>5. 1 \in I => Nth(I, 1) = 1
  BY <1>3, NthIs
<1> QED
  BY <1>1, <1>3, <1>4, <1>5

LEMMA DomainIs ==
  ASSUME NEW S, NEW s \in Seq(S) PROVE DOMAIN s = 1 .. Len(s)
OBVIOUS

\* What is kept is a sequence of the same kind.
LEMMA KeptIs ==
  ASSUME NEW S, NEW s \in Seq(S), NEW I \in SUBSET (1 .. Len(s))
  PROVE  /\ Len(s) \in Nat /\ Cardinality(I) \in Nat
         /\ Keep(s, I) \in Seq(S) /\ Len(Keep(s, I)) = Cardinality(I)
         /\ DOMAIN Keep(s, I) = 1 .. Cardinality(I)
         /\ \A k \in 1 .. Cardinality(I) : Nth(I, k) \in I /\ Keep(s, I)[k] = s[Nth(I, k)]
<1> DEFINE N == Cardinality(I)
           t == [k \in 1 .. N |-> s[Nth(I, k)]]
<1>1. Len(s) \in Nat
  OBVIOUS
<1>2. N \in Nat
  BY <1>1, RankGrows
<1>3. \A k \in 1 .. N : Nth(I, k) \in I
  BY <1>1, NthIs
<1>4. \A k \in 1 .. N : s[Nth(I, k)] \in S
  <2>1. \A i \in I : s[i] \in S
    BY <1>1
  <2> QED
    BY <1>3, <2>1
<1>5. Keep(s, I) = t
  BY KeepIs
<1> HIDE DEF N
<1>6. t \in Seq(S) /\ Len(t) = N
  BY <1>2, <1>4
<1> QED
  BY <1>1, <1>2, <1>3, <1>5, <1>6 DEF N

\* A kept sequence leads where the whole one does, if only empty segments and dots
\* were left out, and not the first.
LEMMA StepsStay ==
  ASSUME NEW S, NEW s \in Seq(S), NEW I \in SUBSET (1 .. Len(s)), Steps(s) \subseteq I,
         1 \in DOMAIN s => 1 \in I
  PROVE  Canonical(Keep(s, I)) = Canonical(s)
<1> DEFINE t == Keep(s, I)
           N == Cardinality(I)
<1>1. /\ Len(s) \in Nat /\ N \in Nat /\ DOMAIN t = 1 .. N
      /\ \A k \in 1 .. N : Nth(I, k) \in I /\ t[k] = s[Nth(I, k)]
  BY KeptIs
<1>2. DOMAIN s = 1 .. Len(s)
  OBVIOUS
<1>3. ASSUME NEW k \in 1 .. N PROVE k = 1 <=> Nth(I, k) = 1
  <2>1. Nth(I, k) \in 1 .. Len(s)
    BY <1>1
  <2>2. 1 \in DOMAIN s
    BY <1>1, <1>2, <2>1
  <2> QED
    BY <1>1, <2>2, EndsStay
<1> HIDE DEF t, N
<1>4. ASSUME NEW k \in 1 .. N PROVE k \in Steps(t) <=> Nth(I, k) \in Steps(s)
  <2>1. t[k] = s[Nth(I, k)] /\ Nth(I, k) \in DOMAIN s /\ k \in DOMAIN t
    BY <1>1, <1>2
  <2> QED
    BY <1>3, <2>1 DEF Steps
<1>5. Steps(t) = Ranks(I, Steps(s))
  <2>1. Steps(t) \subseteq 1 .. N
    BY <1>1 DEF Steps
  <2> QED
    BY <1>4, <2>1 DEF Ranks, N
<1>6. Keep(Keep(s, I), Ranks(I, Steps(s))) = Keep(s, Steps(s))
  BY <1>1, KeepKeep
<1> QED
  BY <1>5, <1>6 DEF Canonical, t

\* If the empty segments that stay are at the ends, they are at the ends of what
\* is kept.
LEMMA EmptiesAtTheEnds ==
  ASSUME NEW S, NEW s \in Seq(S), NEW I \in SUBSET (1 .. Len(s)),
         \A i \in I : s[i] = "" => i \in {1, Len(s)}
  PROVE  \A k \in DOMAIN Keep(s, I) : Keep(s, I)[k] = "" => k \in {1, Len(Keep(s, I))}
<1>1. /\ Len(s) \in Nat /\ Len(Keep(s, I)) = Cardinality(I)
      /\ DOMAIN Keep(s, I) = 1 .. Cardinality(I)
      /\ \A k \in 1 .. Cardinality(I) : Nth(I, k) \in I /\ Keep(s, I)[k] = s[Nth(I, k)]
  BY KeptIs
<1>2. ASSUME NEW k \in 1 .. Cardinality(I), Keep(s, I)[k] = "" PROVE k \in {1, Cardinality(I)}
  <2>1. Nth(I, k) \in {1, Len(s)}
    BY <1>1, <1>2
  <2>2. (Nth(I, k) = 1 => k = 1) /\ (Nth(I, k) = Len(s) => k = Cardinality(I))
    <3> DEFINE n == Len(s)
    <3>1. n \in Nat /\ I \in SUBSET (1 .. n)
      BY <1>1
    <3> HIDE DEF n
    <3>2. (Nth(I, k) = 1 => k = 1) /\ (Nth(I, k) = n => k = Cardinality(I))
      BY <3>1, EndsStay
    <3> QED
      BY <3>2 DEF n
  <2> QED
    BY <2>1, <2>2
<1> QED
  BY <1>1, <1>2

-----------------------------------------------------------------------------
(* _normalize_identity leads nowhere else *)

\* A set of numbers that is not empty has a least one.
LEMMA LeastNumber ==
  ASSUME NEW S \in SUBSET Nat, S # {}
  PROVE  \E i \in S : \A j \in S : i <= j
<1> DEFINE less == {pair \in Nat \X Nat : pair[1] < pair[2]}
<1>1. IsWellFoundedOn(less, Nat)
  BY NatLessThanWellFounded, Zenon DEF OpToRel
<1>2. PICK i \in S : \A j \in S : <<j, i>> \notin less
  <2> HIDE DEF less
  <2> QED
    BY <1>1, WFMin, Zenon
<1>3. ASSUME NEW j \in S PROVE i <= j
  <2>1. i \in Nat /\ j \in Nat /\ ~(j < i)
    BY <1>2, <1>3
  <2> QED
    BY <2>1
<1> QED
  BY <1>3

\* Induction, with a set in the place of a predicate.
LEMMA SetInduction ==
  ASSUME NEW P \in SUBSET Nat, 0 \in P, \A n \in P : n + 1 \in P
  PROVE  P = Nat
<1> SUFFICES ASSUME Nat \ P # {} PROVE FALSE
  OBVIOUS
<1>1. PICK n \in Nat \ P : \A m \in Nat \ P : n <= m
  BY LeastNumber
<1>2. n - 1 \in P
  BY <1>1
<1> QED
  BY <1>1, <1>2

LEMMA CollapsedLeads ==
  ASSUME NEW S, NEW s \in Seq(S)
  PROVE  /\ Collapsed(s) \in Seq(S) /\ Canonical(Collapsed(s)) = Canonical(s)
         /\ \A k \in DOMAIN Collapsed(s) : Collapsed(s)[k] = "" => k \in {1, Len(Collapsed(s))}
<1> DEFINE I == {i \in DOMAIN s : s[i] # "" \/ i \in {1, Len(s)}}
<1>1. I \in SUBSET (1 .. Len(s)) /\ Steps(s) \subseteq I /\ (1 \in DOMAIN s => 1 \in I)
      /\ \A i \in I : s[i] = "" => i \in {1, Len(s)}
  <2>1. DOMAIN s = 1 .. Len(s)
    OBVIOUS
  <2>2. \A i \in Steps(s) : i \in DOMAIN s /\ (s[i] # "" \/ i = 1)
    BY DEF Steps
  <2> QED
    BY <2>1, <2>2
<1>2. Collapsed(s) = Keep(s, I)
  BY DEF Collapsed
<1> HIDE DEF I
<1>3. Keep(s, I) \in Seq(S)
  BY <1>1, KeptIs
<1>4. Canonical(Keep(s, I)) = Canonical(s)
  BY <1>1, StepsStay
<1>5. \A k \in DOMAIN Keep(s, I) : Keep(s, I)[k] = "" => k \in {1, Len(Keep(s, I))}
  BY <1>1, EmptiesAtTheEnds
<1> QED
  BY <1>2, <1>3, <1>4, <1>5

\* What goes is a dot, and not the first segment.
LEMMA OnlyDotsGo ==
  ASSUME NEW S, NEW s \in Seq(S)
  PROVE  \E I \in SUBSET (1 .. Len(s)) :
           Undotted(s) = Keep(s, I) /\ \A i \in (1 .. Len(s)) \ I : i # 1 /\ s[i] = "."
<1> DEFINE n == Len(s)
           Is(g, k) == g = [i \in 0 .. k |-> i > 1 /\ i < n /\ s[i] = "." /\ ~g[i - 1]]
           P == {k \in Nat : \E g : Is(g, k)}
<1>1. n \in Nat /\ DOMAIN s = 1 .. n
  OBVIOUS
<1>2. 0 \in P
  <2>1. \A i \in 0 .. 0 : ~(i > 1)
    OBVIOUS
  <2>2. Is([i \in 0 .. 0 |-> FALSE], 0)
    BY <2>1, Zenon
  <2> QED
    BY <2>2
<1>3. ASSUME NEW k \in P PROVE k + 1 \in P
  <2>1. PICK g : Is(g, k)
    OBVIOUS
  <2>2. PICK h : h = [i \in 0 .. k + 1 |->
                        IF i = k + 1 THEN k + 1 > 1 /\ k + 1 < n /\ s[k + 1] = "." /\ ~g[k] ELSE g[i]]
    OBVIOUS
  <2>3. Is(h, k + 1)
    BY <2>1, <2>2
  <2> QED
    BY <2>3
<1>4. P = Nat
  <2>1. P \in SUBSET Nat
    OBVIOUS
  <2> HIDE DEF P
  <2> QED
    BY <1>2, <1>3, <2>1, SetInduction
<1>5. \E g : Is(g, n)
  BY <1>1, <1>4
<1> DEFINE G == CHOOSE g : Is(g, n)
           I == {i \in DOMAIN s : ~G[i]}
<1>6. Undotted(s) = Keep(s, I)
  BY DEF Undotted
<1>7. Is(G, n)
  <2> HIDE DEF Is
  <2> QED
    BY <1>5
<1> HIDE DEF G
<1>8. \A i \in (1 .. n) \ I : i # 1 /\ s[i] = "."
  <2>1. \A i \in 0 .. n : G[i] <=> i > 1 /\ i < n /\ s[i] = "." /\ ~G[i - 1]
    BY <1>7, Zenon
  <2>2. \A i \in 1 .. n : i \in 0 .. n /\ (i > 1 => i # 1)
    BY <1>1
  <2>3. \A i \in (1 .. n) \ I : G[i]
    BY <1>1, Zenon
  <2> QED
    BY <2>1, <2>2, <2>3, Zenon
<1>9. I \in SUBSET (1 .. n)
  BY <1>1
<1> QED
  BY <1>6, <1>8, <1>9

LEMMA UndottedLeads ==
  ASSUME NEW S, NEW s \in Seq(S), \A k \in DOMAIN s : s[k] = "" => k \in {1, Len(s)}
  PROVE  /\ Undotted(s) \in Seq(S) /\ Canonical(Undotted(s)) = Canonical(s)
         /\ \A k \in DOMAIN Undotted(s) : Undotted(s)[k] = "" => k \in {1, Len(Undotted(s))}
<1>1. PICK I \in SUBSET (1 .. Len(s)) :
        Undotted(s) = Keep(s, I) /\ \A i \in (1 .. Len(s)) \ I : i # 1 /\ s[i] = "."
  BY OnlyDotsGo
<1>2. DOMAIN s = 1 .. Len(s)
  BY DomainIs, Zenon
<1>3. Steps(s) \subseteq I
  <2>1. \A i \in Steps(s) : i \in DOMAIN s /\ (s[i] # "." \/ i = 1)
    BY DEF Steps
  <2> QED
    BY <1>1, <1>2, <2>1
<1>4. (1 \in DOMAIN s => 1 \in I) /\ \A i \in I : s[i] = "" => i \in {1, Len(s)}
  BY <1>1, <1>2
<1>5. Keep(s, I) \in Seq(S)
  BY KeptIs
<1>6. Canonical(Keep(s, I)) = Canonical(s)
  BY <1>3, <1>4, StepsStay
<1>7. \A k \in DOMAIN Keep(s, I) : Keep(s, I)[k] = "" => k \in {1, Len(Keep(s, I))}
  BY <1>4, EmptiesAtTheEnds
<1> QED
  BY <1>1, <1>5, <1>6, <1>7

LEMMA StrippedLeads ==
  ASSUME NEW S, NEW s \in Seq(S)
  PROVE  Canonical(Stripped(s)) = Canonical(s)
<1> DEFINE I == {i \in DOMAIN s : i = 1 \/ \E j \in i .. Len(s) : s[j] # ""}
<1>1. ASSUME NEW i \in DOMAIN s, s[i] # "" PROVE i \in I
  <2>1. i \in i .. Len(s)
    OBVIOUS
  <2> QED
    BY <1>1, <2>1
<1>2. I \in SUBSET (1 .. Len(s)) /\ Steps(s) \subseteq I /\ (1 \in DOMAIN s => 1 \in I)
  <2>1. DOMAIN s = 1 .. Len(s) /\ (1 \in DOMAIN s => 1 \in I)
    OBVIOUS
  <2>2. \A i \in Steps(s) : i \in DOMAIN s /\ (s[i] # "" \/ i = 1)
    BY DEF Steps
  <2>3. I \subseteq DOMAIN s
    OBVIOUS
  <2> HIDE DEF I
  <2> QED
    BY <1>1, <2>1, <2>2, <2>3
<1>3. Stripped(s) = Keep(s, I)
  BY DEF Stripped
<1> HIDE DEF I
<1> QED
  BY <1>2, <1>3, StepsStay

\* All positions but the first.
LEMMA AllButFirst ==
  ASSUME NEW n \in Nat, n > 1
  PROVE  /\ 2 .. n \in SUBSET (1 .. n) /\ Cardinality(2 .. n) = n - 1
         /\ \A k \in 1 .. n - 1 : Nth(2 .. n, k) = k + 1
         /\ \A k \in 1 .. n - 1 : k + 1 \in 1 .. n /\ k + 1 # 1 /\ (k = 1 => k + 1 = 2)
         /\ \A i \in 1 .. n : i # 1 => i \in 2 .. n
<1> DEFINE I == 2 .. n
<1>1. I \in SUBSET (1 .. n) /\ Cardinality(I) = n - 1
  BY FS_Interval
<1>2. ASSUME NEW k \in 1 .. n - 1 PROVE Nth(I, k) = k + 1
  <2>1. k + 1 \in I /\ {j \in I : j <= k + 1} = 2 .. k + 1
    OBVIOUS
  <2>2. Cardinality(2 .. k + 1) = k
    <3>1. 2 \in Int /\ k + 1 \in Int /\ 2 <= k + 1 /\ (k + 1) - 2 + 1 = k
      OBVIOUS
    <3> QED
      BY <3>1, FS_Interval
  <2>3. Rank(I, k + 1) = k
    BY <2>1, <2>2 DEF Rank
  <2> HIDE DEF I
  <2>4. Nth(I, Rank(I, k + 1)) = k + 1
    BY <1>1, <2>1, NthIs
  <2> QED
    BY <2>3, <2>4
<1>3. /\ \A k \in 1 .. n - 1 : k + 1 \in 1 .. n /\ k + 1 # 1 /\ (k = 1 => k + 1 = 2)
      /\ \A i \in 1 .. n : i # 1 => i \in 2 .. n
  OBVIOUS
<1> QED
  BY <1>1, <1>2, <1>3

LEMMA TailIs ==
  ASSUME NEW S, NEW s \in Seq(S), Len(s) > 1
  PROVE  /\ Tail(s) \in Seq(S) /\ DOMAIN Tail(s) = 1 .. Len(s) - 1 /\ Len(Tail(s)) = Len(s) - 1
         /\ Tail(s) = [k \in 1 .. Len(s) - 1 |-> Tail(s)[k]]
         /\ \A k \in 1 .. Len(s) - 1 : Tail(s)[k] = s[k + 1]
<1>1. s # <<>>
  OBVIOUS
<1>2. /\ Tail(s) \in Seq(S) /\ Len(Tail(s)) = Len(s) - 1
      /\ \A k \in 1 .. Len(Tail(s)) : Tail(s)[k] = s[k + 1]
  BY <1>1, HeadTailProperties
<1>3. DOMAIN Tail(s) = 1 .. Len(Tail(s)) /\ Tail(s) \in [1 .. Len(Tail(s)) -> S]
  BY <1>2, LenProperties
<1>4. Tail(s) = [k \in 1 .. Len(Tail(s)) |-> Tail(s)[k]]
  <2> DEFINE t == Tail(s)
             D == 1 .. Len(t)
  <2>1. t \in [D -> S]
    BY <1>3
  <2> HIDE DEF t, D
  <2>2. t = [k \in D |-> t[k]]
    BY <2>1, Zenon
  <2> QED
    BY <2>2 DEF t, D
<1> QED
  BY <1>2, <1>3, <1>4, Zenon

\* A leading dot goes, with the slash behind it.
LEMMA PrefixLeads ==
  ASSUME NEW S, NEW s \in Seq(S), Len(s) > 1, s[1] = ".", s[2] # ""
  PROVE  Canonical(Tail(s)) = Canonical(s)
<1> DEFINE n == Len(s)
           I == 2 .. n
           t == Tail(s)
<1>1. n \in Nat /\ n > 1 /\ DOMAIN s = 1 .. n
  BY LenProperties
<1>2. /\ I \in SUBSET (1 .. n) /\ Cardinality(I) = n - 1
      /\ \A k \in 1 .. n - 1 : Nth(I, k) = k + 1
      /\ \A k \in 1 .. n - 1 : k + 1 \in 1 .. n /\ k + 1 # 1 /\ (k = 1 => k + 1 = 2)
      /\ \A i \in 1 .. n : i # 1 => i \in I
  <2> HIDE DEF n
  <2> QED
    BY <1>1, AllButFirst
<1>3. t \in Seq(S) /\ DOMAIN t = 1 .. n - 1 /\ t = [k \in 1 .. n - 1 |-> t[k]]
      /\ \A k \in 1 .. n - 1 : t[k] = s[k + 1]
  BY TailIs
<1> HIDE DEF t, I
<1>4. Keep(s, I) = t
  <2>1. Keep(s, I) = [k \in 1 .. n - 1 |-> s[Nth(I, k)]]
    BY <1>2, KeepIs
  <2>2. [k \in 1 .. n - 1 |-> s[Nth(I, k)]] = [k \in 1 .. n - 1 |-> t[k]]
    <3> HIDE DEF n
    <3> QED
      BY <1>2, <1>3, Zenon
  <2> HIDE DEF n
  <2> QED
    BY <1>3, <2>1, <2>2, Zenon
<1>5. Steps(s) \in SUBSET I
  <2>1. \A i \in Steps(s) : i \in DOMAIN s /\ i # 1
    BY DEF Steps
  <2> HIDE DEF n
  <2>2. \A i \in Steps(s) : i \in I
    BY <1>1, <1>2, <2>1, Zenon
  <2> QED
    BY <2>2
<1>6. ASSUME NEW k \in 1 .. n - 1 PROVE k \in Steps(t) <=> Nth(I, k) \in Steps(s)
  <2>1. t[k] = s[k + 1] /\ k \in DOMAIN t /\ Nth(I, k) = k + 1
    BY <1>2, <1>3
  <2>2. k + 1 \in DOMAIN s /\ k + 1 # 1 /\ (k = 1 => t[k] # "")
    <3> HIDE DEF n
    <3>1. k + 1 \in 1 .. n /\ k + 1 # 1 /\ (k = 1 => k + 1 = 2)
      BY <1>2
    <3> QED
      BY <1>1, <2>1, <3>1, Zenon
  <2> QED
    BY <2>1, <2>2, Zenon DEF Steps
<1> HIDE DEF n
<1>7. Steps(t) = Ranks(I, Steps(s))
  <2>1. Steps(t) \subseteq 1 .. n - 1
    BY <1>3 DEF Steps
  <2> QED
    BY <1>2, <1>6, <2>1 DEF Ranks
<1>8. Keep(Keep(s, I), Ranks(I, Steps(s))) = Keep(s, Steps(s))
  BY <1>1, <1>2, <1>5, KeepKeep
<1> QED
  BY <1>4, <1>7, <1>8 DEF Canonical, t

LEMMA OnlyOne == ASSUME NEW e PROVE [k \in 1 .. 1 |-> e] = <<e>>
OBVIOUS

\* What is empty after rstrip("/").
LEMMA EmptyStays == Stripped(<<"">>) = Empty
<1> DEFINE s == <<"">>
           I == {i \in DOMAIN s : i = 1 \/ \E j \in i .. Len(s) : s[j] # ""}
<1>1. Len(s) = 1 /\ DOMAIN s = 1 .. 1 /\ s[1] = ""
  OBVIOUS
<1>2. I = {1}
  <2>1. \A i : i \in 1 .. 1 <=> i = 1
    OBVIOUS
  <2> HIDE DEF s
  <2> QED
    BY <1>1, <2>1
<1>3. Cardinality({1}) = 1
  BY FS_Singleton
<1>4. Nth({1}, 1) = 1
  <2>1. 1 \in 1 .. Cardinality({1}) /\ {1} \in SUBSET (1 .. 1) /\ 1 \in Nat
    BY <1>3
  <2>2. Nth({1}, 1) \in {1}
    BY <2>1, NthIs
  <2> QED
    BY <2>2
<1>5. Stripped(s) = Keep(s, {1})
  BY <1>2 DEF Stripped
<1>6. Keep(s, {1}) = [k \in 1 .. 1 |-> s[Nth({1}, k)]]
  BY <1>3, KeepIs
<1>7. [k \in 1 .. 1 |-> s[Nth({1}, k)]] = <<"">>
  <2>1. \A k \in 1 .. 1 : s[Nth({1}, k)] = ""
    <3>1. \A k \in 1 .. 1 : k = 1
      OBVIOUS
    <3> HIDE DEF s
    <3> QED
      BY <1>1, <1>4, <3>1, Zenon
  <2>2. [k \in 1 .. 1 |-> s[Nth({1}, k)]] = [k \in 1 .. 1 |-> ""]
    <3> HIDE DEF s
    <3> QED
      BY <2>1, Zenon
  <2>3. [k \in 1 .. 1 |-> ""] = <<"">>
    BY OnlyOne
  <2> QED
    BY <2>2, <2>3, Zenon
<1> QED
  BY <1>5, <1>6, <1>7 DEF Empty, s

\* A text that is not refused leads, normalised, where it leads as it is written.
LEMMA NormalizedLeads ==
  ASSUME NEW S, NEW s \in Seq(S), Normalized(s) # Empty
  PROVE  Canonical(Normalized(s)) = Canonical(s)
<1> DEFINE c == Collapsed(s)
           u == Undotted(c)
           w == WithoutPrefix(u)
<1>1. /\ c \in Seq(S) /\ Canonical(c) = Canonical(s)
      /\ \A k \in DOMAIN c : c[k] = "" => k \in {1, Len(c)}
  BY CollapsedLeads
<1> HIDE DEF c
<1>2. /\ u \in Seq(S) /\ Canonical(u) = Canonical(c)
      /\ \A k \in DOMAIN u : u[k] = "" => k \in {1, Len(u)}
  BY <1>1, UndottedLeads
<1>3. Normalized(s) = Stripped(w)
  BY DEF Normalized, c
<1> HIDE DEF u
<1>4. w \in Seq(S) /\ Canonical(w) = Canonical(u)
  <2>1. CASE ~(Len(u) > 1 /\ u[1] = ".")
    BY <1>2, <2>1 DEF WithoutPrefix
  <2>2. CASE Len(u) > 1 /\ u[1] = "." /\ u[2] # ""
    <3>1. w = Tail(u)
      BY <2>2 DEF WithoutPrefix
    <3>2. Tail(u) \in Seq(S)
      BY <1>2, <2>2, TailIs
    <3> QED
      BY <1>2, <2>2, <3>1, <3>2, PrefixLeads
  <2>3. CASE Len(u) > 1 /\ u[1] = "." /\ u[2] = ""
    <3>1. Len(u) = 2
      <4>1. Len(u) \in Nat /\ DOMAIN u = 1 .. Len(u)
        BY <1>2, LenProperties
      <4>2. 2 \in DOMAIN u
        <5> DEFINE n == Len(u)
        <5>1. n \in Nat /\ n > 1
          BY <2>3, <4>1
        <5> HIDE DEF n
        <5>2. 2 \in 1 .. n
          BY <5>1
        <5> QED
          BY <4>1, <5>2, Zenon DEF n
      <4> QED
        BY <1>2, <2>3, <4>2
    <3>2. w = Tail(u)
      BY <2>3 DEF WithoutPrefix
    <3>3. w = <<"">>
      <4>1. /\ Tail(u) = [k \in 1 .. Len(u) - 1 |-> Tail(u)[k]]
            /\ \A k \in 1 .. Len(u) - 1 : Tail(u)[k] = u[k + 1]
        BY <1>2, <2>3, TailIs
      <4>2. Tail(u) = [k \in 1 .. 1 |-> Tail(u)[k]] /\ \A k \in 1 .. 1 : Tail(u)[k] = u[k + 1]
        BY <3>1, <4>1
      <4>3. \A k \in 1 .. 1 : k + 1 = 2
        OBVIOUS
      <4>4. \A k \in 1 .. 1 : Tail(u)[k] = ""
        BY <2>3, <4>2, <4>3, Zenon
      <4>5. Tail(u) = [k \in 1 .. 1 |-> ""]
        BY <4>2, <4>4, Zenon
      <4>6. [k \in 1 .. 1 |-> ""] = <<"">>
        BY OnlyOne
      <4> QED
        BY <3>2, <4>5, <4>6, Zenon
    <3> QED
      BY <1>3, <3>3, EmptyStays
  <2> QED
    BY <2>1, <2>2, <2>3
<1> HIDE DEF w
<1>5. Canonical(Stripped(w)) = Canonical(w)
  BY <1>4, StrippedLeads
<1> QED
  BY <1>1, <1>2, <1>3, <1>4, <1>5

-----------------------------------------------------------------------------
(* What is spelled well is normalised to where it leads *)

\* Neighbours among the positions are neighbours in what is kept.
LEMMA NextRank ==
  ASSUME NEW n \in Nat, NEW I \in SUBSET (1 .. n), NEW a \in I, NEW b \in I, a < b,
         \A i \in I : ~(a < i /\ i < b)
  PROVE  Rank(I, b) = Rank(I, a) + 1
<1> DEFINE A == {i \in I : i <= a}
<1>1. \A i \in I : i \in Int
  OBVIOUS
<1>2. {i \in I : i <= b} = A \cup {b}
  <2>1. \A i \in I : i <= b <=> i <= a \/ i = b
    <3> SUFFICES ASSUME NEW i \in I PROVE i <= b <=> i <= a \/ i = b
      OBVIOUS
    <3>1. i \in Int /\ a \in Int /\ b \in Int /\ ~(a < i /\ i < b)
      BY <1>1
    <3> QED
      BY <3>1
  <2> QED
    BY <2>1
<1>3. b \notin A /\ A \in SUBSET I
  BY <1>1
<1>4. IsFiniteSet(A)
  BY <1>3, RankGrows, FS_Subset
<1>5. Cardinality(A \cup {b}) = Cardinality(A) + 1
  <2> HIDE DEF A
  <2> QED
    BY <1>3, <1>4, FS_AddElement
<1> QED
  BY <1>2, <1>5 DEF Rank

\* Kept whole, a sequence is what it was.
LEMMA KeepAll ==
  ASSUME NEW S, NEW s \in Seq(S)
  PROVE  Keep(s, 1 .. Len(s)) = s
<1> DEFINE n == Len(s)
           I == 1 .. n
<1>1. n \in Nat /\ s \in [I -> S]
  BY LenProperties
<1> HIDE DEF n
<1>2. Cardinality(I) = n /\ I \in SUBSET (1 .. n)
  BY <1>1, FS_Interval
<1>3. ASSUME NEW k \in I PROVE Nth(I, k) = k
  <2>1. {j \in I : j <= k} = 1 .. k
    BY <1>1
  <2>2. Cardinality(1 .. k) = k
    BY <1>1, FS_Interval
  <2>3. Rank(I, k) = k
    BY <2>1, <2>2 DEF Rank
  <2>4. Nth(I, Rank(I, k)) = k
    BY <1>1, <1>2, NthIs
  <2> QED
    BY <2>3, <2>4
<1>4. Keep(s, I) = [k \in I |-> s[Nth(I, k)]]
  BY <1>2, KeepIs
<1> HIDE DEF I
<1>5. Keep(s, I) = [k \in I |-> s[k]]
  BY <1>3, <1>4, Zenon
<1>6. s = [k \in I |-> s[k]]
  BY <1>1, Zenon
<1> QED
  BY <1>5, <1>6 DEF I, n

\* Every "." is followed by a segment that leads somewhere.
DotsLead(s) == \A k \in DOMAIN s : s[k] = "." => k + 1 \in DOMAIN s /\ s[k + 1] \notin {"", "."}

LEMMA CollapsedDotsLead ==
  ASSUME NEW S, NEW s \in Seq(S), WellSpelled(s)
  PROVE  DotsLead(Collapsed(s))
<1> DEFINE n == Len(s)
           I == {i \in DOMAIN s : s[i] # "" \/ i \in {1, Len(s)}}
           N == Cardinality(I)
<1>1. n \in Nat /\ DOMAIN s = 1 .. n
  BY LenProperties
<1>2. I \in SUBSET (1 .. n) /\ \A i \in 1 .. n : i \in I <=> s[i] # "" \/ i = 1 \/ i = n
  BY <1>1, Zenon
<1>3. Collapsed(s) = Keep(s, I)
  BY DEF Collapsed
<1> HIDE DEF I
<1>4. /\ DOMAIN Keep(s, I) = 1 .. N
      /\ \A k \in 1 .. N : Nth(I, k) \in I /\ Keep(s, I)[k] = s[Nth(I, k)]
  <2>1. I \in SUBSET (1 .. Len(s))
    BY <1>2
  <2> QED
    BY <2>1, KeptIs, Zenon
<1> HIDE DEF n
<1>5. /\ \A k \in 1 .. N : Rank(I, Nth(I, k)) = k
      /\ \A i \in I : Nth(I, Rank(I, i)) = i /\ Rank(I, i) \in 1 .. N
  BY <1>1, <1>2, NthIs, RankGrows
<1> SUFFICES ASSUME NEW k \in 1 .. N, Keep(s, I)[k] = "."
             PROVE  k + 1 \in 1 .. N /\ Keep(s, I)[k + 1] \notin {"", "."}
  BY <1>3, <1>4 DEF DotsLead
<1>6. PICK i \in I : i = Nth(I, k) /\ s[i] = "." /\ Rank(I, i) = k
  BY <1>4, <1>5
<1>7. PICK j \in 1 .. n : i < j /\ s[j] \notin {"", "."} /\ \A m \in 1 .. n : i < m /\ m < j => s[m] = ""
  BY <1>1, <1>2, <1>6 DEF WellSpelled
<1>8. j \in I
  BY <1>2, <1>7
<1>9. ASSUME NEW m \in I, i < m, m < j PROVE FALSE
  <2>1. m \in 1 .. n /\ i \in 1 .. n
    BY <1>2
  <2>2. s[m] = ""
    BY <1>7, <1>9, <2>1
  <2>3. m = 1 \/ m = n
    BY <1>2, <2>1, <2>2
  <2> HIDE <1>7
  <2>4. i \in Int /\ m \in Int /\ j \in Int /\ 1 <= i /\ j <= n /\ n \in Int
    BY <1>1, <2>1
  <2> QED
    BY <1>9, <2>3, <2>4
<1>10. Rank(I, j) = k + 1
  <2>1. i < j
    BY <1>7
  <2>2. Rank(I, j) = Rank(I, i) + 1
    BY <1>1, <1>2, <1>8, <1>9, <2>1, NextRank
  <2> QED
    BY <1>6, <2>2
<1>11. k + 1 \in 1 .. N /\ Nth(I, k + 1) = j
  BY <1>5, <1>8, <1>10
<1> QED
  BY <1>4, <1>7, <1>11

\* Where every "." leads somewhere, _normalize_identity leaves none but the first.
LEMMA UndottedDots ==
  ASSUME NEW S, NEW s \in Seq(S), DotsLead(s)
  PROVE  LET I == {i \in 1 .. Len(s) : i = 1 \/ s[i] # "."} IN Undotted(s) = Keep(s, I)
<1> DEFINE n == Len(s)
           Is(g, k) == g = [i \in 0 .. k |-> i > 1 /\ i < n /\ s[i] = "." /\ ~g[i - 1]]
           g0 == [i \in 0 .. n |-> i > 1 /\ i < n /\ s[i] = "."]
           G == CHOOSE g : Is(g, n)
           I == {i \in DOMAIN s : ~G[i]}
<1>1. n \in Nat /\ DOMAIN s = 1 .. n
  BY LenProperties
<1>2. ASSUME NEW i \in 0 .. n, i > 1, i < n, s[i] = "." PROVE ~g0[i - 1]
  <2>1. i - 1 \in 0 .. n /\ (i - 1 > 1 => i - 1 \in 1 .. n /\ (i - 1) + 1 = i)
    BY <1>1, <1>2
  <2>2. CASE i - 1 > 1 /\ s[i - 1] = "."
    <3>1. s[(i - 1) + 1] \notin {"", "."}
      BY <1>1, <2>1, <2>2, Zenon DEF DotsLead
    <3> QED
      BY <1>2, <2>1, <2>2, <3>1
  <2>3. CASE ~(i - 1 > 1 /\ s[i - 1] = ".")
    BY <2>1, <2>3
  <2> QED
    BY <2>2, <2>3
<1>3. Is(g0, n)
  <2>1. \A i \in 0 .. n : (i > 1 /\ i < n /\ s[i] = "." /\ ~g0[i - 1]) <=> (i > 1 /\ i < n /\ s[i] = ".")
    <3> HIDE DEF g0
    <3> QED
      BY <1>2, Zenon
  <2> QED
    BY <2>1, Zenon
<1>4. Is(G, n)
  <2> HIDE DEF Is
  <2> QED
    BY <1>3
<1>5. Undotted(s) = Keep(s, I)
  BY DEF Undotted
<1> HIDE DEF G, g0
<1>6. \A i \in 0 .. n : G[i] <=> i > 1 /\ i < n /\ s[i] = "." /\ ~G[i - 1]
  BY <1>4, Zenon
<1>7. ASSUME NEW i \in 1 .. n PROVE ~G[i] <=> i = 1 \/ s[i] # "."
  <2>1. i \in 0 .. n /\ (i > 1 <=> i # 1)
    <3> HIDE DEF n
    <3> QED
      BY <1>1
  <2>2. ASSUME s[i] = ".", i # 1 PROVE i < n /\ ~G[i - 1]
    <3>1. i + 1 \in 1 .. n
      BY <1>1, <2>2, Zenon DEF DotsLead
    <3>2. i < n /\ i - 1 \in 0 .. n /\ (i - 1) + 1 = i /\ (i - 1 > 1 => i - 1 \in 1 .. n)
      BY <1>1, <2>2, <3>1
    <3>3. i - 1 > 1 => s[i - 1] # "."
      <4> SUFFICES ASSUME i - 1 > 1, s[i - 1] = "." PROVE FALSE
        OBVIOUS
      <4>1. s[(i - 1) + 1] \notin {"", "."}
        BY <1>1, <3>2, Zenon DEF DotsLead
      <4> QED
        BY <2>2, <3>2, <4>1
    <3>4. ~G[i - 1]
      BY <1>6, <3>2, <3>3, Zenon
    <3> QED
      BY <3>2, <3>4
  <2> QED
    BY <1>6, <2>1, <2>2, Zenon
<1>8. I = {i \in 1 .. n : i = 1 \/ s[i] # "."}
  BY <1>1, <1>7
<1> QED
  BY <1>5, <1>8

\* Only the first segment may be a dot, and then one that leads somewhere follows.
LEMMA UndottedIs ==
  ASSUME NEW S, NEW s \in Seq(S), DotsLead(s)
  PROVE  \A k \in DOMAIN Undotted(s) : Undotted(s)[k] = "." =>
           k = 1 /\ Len(Undotted(s)) > 1 /\ Undotted(s)[2] # "."
<1> DEFINE n == Len(s)
           I == {i \in 1 .. n : i = 1 \/ s[i] # "."}
           N == Cardinality(I)
           t == Keep(s, I)
<1>1. n \in Nat /\ DOMAIN s = 1 .. n /\ I \in SUBSET (1 .. n)
  BY LenProperties
<1>2. Undotted(s) = t
  BY UndottedDots
<1>3. \A i \in 1 .. n : i \in I <=> i = 1 \/ s[i] # "."
  OBVIOUS
<1> HIDE DEF I
<1>4. /\ DOMAIN t = 1 .. N /\ Len(t) = N /\ N \in Nat
      /\ \A k \in 1 .. N : Nth(I, k) \in I /\ t[k] = s[Nth(I, k)]
  BY <1>1, KeptIs
<1> HIDE DEF t, n
<1> SUFFICES ASSUME NEW k \in 1 .. N, t[k] = "." PROVE k = 1 /\ N > 1 /\ t[2] # "."
  BY <1>2, <1>4
<1>5. Nth(I, k) = 1 /\ s[1] = "." /\ 1 \in 1 .. n
  BY <1>1, <1>3, <1>4
<1>6. k = 1
  BY <1>1, <1>5, EndsStay
<1>7. 2 \in 1 .. n /\ s[2] \notin {"", "."}
  <2>1. 1 + 1 \in 1 .. n /\ s[1 + 1] \notin {"", "."}
    BY <1>1, <1>5, Zenon DEF DotsLead
  <2>2. 1 + 1 = 2
    OBVIOUS
  <2> QED
    BY <2>1, <2>2, Zenon
<1>8. 1 \in I /\ 2 \in I
  BY <1>3, <1>5, <1>7
<1>9. Rank(I, 2) = Rank(I, 1) + 1
  <2>1. \A i \in I : ~(1 < i /\ i < 2)
    BY <1>1
  <2>2. 1 < 2
    OBVIOUS
  <2> QED
    BY <1>1, <1>8, <2>1, <2>2, NextRank, Zenon
<1>10. Rank(I, 1) = 1
  BY <1>1, <1>4, <1>5, <1>6, NthIs
<1>11. 2 \in 1 .. N /\ Nth(I, 2) = 2
  <2>1. Rank(I, 2) = 2
    BY <1>9, <1>10
  <2>2. Rank(I, 2) \in 1 .. N /\ Nth(I, Rank(I, 2)) = 2
    BY <1>1, <1>8, RankGrows, NthIs
  <2> QED
    BY <2>1, <2>2
<1>12. t[2] # "."
  BY <1>4, <1>7, <1>11
<1> QED
  BY <1>4, <1>6, <1>11, <1>12

LEMMA OnlyItself == ASSUME NEW n \in Nat PROVE \A j \in n .. n : j = n
OBVIOUS

\* rstrip("/") leaves an empty segment in front only.
LEMMA StrippedIs ==
  ASSUME NEW S, NEW s \in Seq(S), \A k \in DOMAIN s : s[k] = "" => k \in {1, Len(s)},
         \A k \in DOMAIN s : s[k] # "."
  PROVE  /\ Stripped(s) \in Seq(S)
         /\ \A k \in DOMAIN Stripped(s) : Stripped(s)[k] # "." /\ (Stripped(s)[k] = "" => k = 1)
<1> DEFINE n == Len(s)
           I == {i \in DOMAIN s : i = 1 \/ \E j \in i .. Len(s) : s[j] # ""}
           N == Cardinality(I)
           t == Keep(s, I)
<1>1. n \in Nat /\ DOMAIN s = 1 .. n /\ I \in SUBSET (1 .. n)
  BY LenProperties
<1>2. Stripped(s) = t
  BY DEF Stripped
<1>3. \A i \in I : i = 1 \/ \E j \in i .. n : s[j] # ""
  OBVIOUS
<1> HIDE DEF I
<1>4. /\ t \in Seq(S) /\ DOMAIN t = 1 .. N
      /\ \A k \in 1 .. N : Nth(I, k) \in I /\ t[k] = s[Nth(I, k)]
  BY <1>1, KeptIs
<1> HIDE DEF t
<1>5. ASSUME NEW k \in 1 .. N PROVE t[k] # "." /\ (t[k] = "" => k = 1)
  <2>1. PICK i \in I : i = Nth(I, k) /\ t[k] = s[i]
    BY <1>4
  <2>2. i \in 1 .. n
    BY <1>1
  <2>3. t[k] # "."
    BY <1>1, <2>1, <2>2, Zenon
  <2>4. ASSUME t[k] = "" PROVE k = 1
    <3>1. i = 1 \/ i = n
      BY <1>1, <2>1, <2>2, <2>4, Zenon
    <3>2. i = 1
      <4>1. CASE i = n
        <5>1. \A j \in i .. n : j = i
          <6> HIDE DEF n
          <6>1. \A j \in n .. n : j = n
            BY <1>1, OnlyItself
          <6> QED
            BY <4>1, <6>1, Zenon
        <5> QED
          BY <1>3, <2>1, <2>4, <5>1, Zenon
      <4> QED
        BY <3>1, <4>1
    <3> HIDE DEF n
    <3>3. Nth(I, k) = 1 => k = 1
      BY <1>1, EndsStay
    <3> QED
      BY <2>1, <3>2, <3>3
  <2> QED
    BY <2>3, <2>4
<1> QED
  BY <1>2, <1>4, <1>5

\* A text that is spelled well and not refused is normalised to its canonical form.
THEOREM NormalizedIsCanonical ==
  ASSUME NEW S, NEW s \in Seq(S), WellSpelled(s), Normalized(s) # Empty
  PROVE  Normalized(s) = Canonical(s)
<1> DEFINE c == Collapsed(s)
           u == Undotted(c)
           w == WithoutPrefix(u)
           z == Stripped(w)
<1>1. /\ c \in Seq(S) /\ DotsLead(c)
      /\ \A k \in DOMAIN c : c[k] = "" => k \in {1, Len(c)}
  BY CollapsedLeads, CollapsedDotsLead
<1> HIDE DEF c
<1>2. /\ u \in Seq(S)
      /\ \A k \in DOMAIN u : u[k] = "" => k \in {1, Len(u)}
      /\ \A k \in DOMAIN u : u[k] = "." => k = 1 /\ Len(u) > 1 /\ u[2] # "."
  BY <1>1, UndottedLeads, UndottedIs
<1> HIDE DEF u
<1>3. /\ w \in Seq(S)
      /\ \A k \in DOMAIN w : w[k] = "" => k \in {1, Len(w)}
      /\ \A k \in DOMAIN w : w[k] # "."
  <2>1. CASE ~(Len(u) > 1 /\ u[1] = ".")
    <3>1. w = u
      BY <2>1 DEF WithoutPrefix
    <3> QED
      BY <1>2, <2>1, <3>1
  <2>2. CASE Len(u) > 1 /\ u[1] = "."
    <3> DEFINE n == Len(u)
    <3>1. w = Tail(u)
      BY <2>2 DEF WithoutPrefix
    <3>2. /\ w \in Seq(S) /\ DOMAIN w = 1 .. n - 1 /\ \A k \in 1 .. n - 1 : w[k] = u[k + 1]
      BY <1>2, <2>2, <3>1, TailIs
    <3>3. n \in Nat /\ DOMAIN u = 1 .. n
      BY <1>2, LenProperties
    <3>4. Len(w) = n - 1
      BY <1>2, <2>2, <3>1, TailIs
    <3> HIDE DEF n
    <3>5. ASSUME NEW k \in 1 .. n - 1
          PROVE  k + 1 \in 1 .. n /\ k + 1 # 1 /\ (k + 1 = n => k = n - 1)
      BY <3>3
    <3>6. ASSUME NEW k \in 1 .. n - 1 PROVE w[k] # "." /\ (w[k] = "" => k = n - 1)
      <4>1. k + 1 \in DOMAIN u /\ w[k] = u[k + 1] /\ k + 1 # 1 /\ (k + 1 = n => k = n - 1)
        BY <3>2, <3>3, <3>5, Zenon
      <4>2. u[k + 1] # "."
        BY <1>2, <4>1, Zenon
      <4>3. u[k + 1] = "" => k + 1 = n
        BY <1>2, <4>1, Zenon DEF n
      <4> QED
        BY <4>1, <4>2, <4>3, Zenon
    <3> QED
      BY <3>2, <3>4, <3>6
  <2> QED
    BY <2>1, <2>2
<1>4. Normalized(s) = z
  BY DEF Normalized, c, u
<1> HIDE DEF w
<1>5. z \in Seq(S) /\ \A k \in DOMAIN z : z[k] # "." /\ (z[k] = "" => k = 1)
  BY <1>3, StrippedIs
<1> HIDE DEF z
<1>6. Canonical(z) = z
  <2>1. DOMAIN z = 1 .. Len(z)
    BY <1>5, LenProperties
  <2>2. Steps(z) = 1 .. Len(z)
    BY <1>5, <2>1 DEF Steps
  <2> QED
    BY <1>5, <2>2, KeepAll DEF Canonical
<1> QED
  BY <1>4, <1>6, NormalizedLeads

-----------------------------------------------------------------------------
(* Who owns a declaration *)

AllSound == \A i \in 1 .. next : Sound(claims[i])

\* Only sound claims are read to the end.
THEOREM ReadClaimsAreSound == Spec => []AllSound
<1>1. Init => AllSound
  BY DEF Init, AllSound
<1>2. IInv /\ AllSound /\ [Next]_vars => AllSound'
  <2> SUFFICES ASSUME IInv, AllSound, [Next]_vars PROVE AllSound'
    OBVIOUS
  <2>1. CASE Merge
    <3>1. next' = next + 1 /\ claims' = claims /\ Sound(claims[next + 1]) /\ next \in Nat
      BY <2>1 DEF Merge, IInv
    <3>2. \A c : Sound(c)' <=> Sound(c)
      BY DEF Sound
    <3>3. \A i \in 1 .. next + 1 : i \in 1 .. next \/ i = next + 1
      BY <3>1
    <3> QED
      BY <3>1, <3>2, <3>3 DEF AllSound
  <2>2. CASE UNCHANGED <<claims, next>>
    BY <2>2 DEF AllSound, Sound
  <2> QED
    BY <2>1, <2>2 DEF Next, Refuse, Decide, vars
<1> QED
  BY <1>1, <1>2, Invariance, PTL DEF Spec

\* An identity that was not refused leads where its text does.
LEMMA IdentityLeads ==
  ASSUME IInv, AllSound, NEW i \in 1 .. next
  PROVE  /\ Canonical(Normalized(claims[i].subject)) = Canonical(claims[i].subject)
         /\ Canonical(Normalized(claims[i].group)) = Canonical(claims[i].group)
<1>1. claims[i] \in Options
  BY DEF IInv
<1>2. claims[i].subject \in Seq(STRING) /\ claims[i].group \in Seq(STRING)
  BY <1>1, OwnershipAssumption DEF OwnershipAssumption
<1>3. Normalized(claims[i].subject) # Empty /\ Normalized(claims[i].group) # Empty
  BY DEF AllSound, Sound
<1> QED
  BY <1>2, <1>3, NormalizedLeads

\* An identity that is spelled well, and was not refused, is where its text leads.
LEMMA IdentityIsCanonical ==
  ASSUME IInv, AllSound, ClaimsAreWellSpelled, NEW i \in 1 .. next
  PROVE  /\ Normalized(claims[i].subject) = Canonical(claims[i].subject)
         /\ Normalized(claims[i].group) = Canonical(claims[i].group)
<1>1. claims[i] \in Options
  BY DEF IInv
<1>2. claims[i].subject \in Seq(STRING) /\ claims[i].group \in Seq(STRING)
  BY <1>1, OwnershipAssumption DEF OwnershipAssumption
<1>3. Normalized(claims[i].subject) # Empty /\ Normalized(claims[i].group) # Empty
  BY DEF AllSound, Sound
<1>4. WellSpelled(claims[i].subject) /\ WellSpelled(claims[i].group)
  BY <1>1 DEF ClaimsAreWellSpelled, AllSound
<1> QED
  BY <1>2, <1>3, <1>4, NormalizedIsCanonical

\* A selected adapter claimed the declaration as active, with evidence, and every
\* other adapter that claimed to own it, under any spelling, is inactive: where
\* claims are spelled well, resolve_ownership hands nothing to anyone who did not
\* earn it.
THEOREM SelectionsAreEarned ==
  ASSUME ClaimsAreWellSpelled PROVE Spec => []SelectionIsEarned
<1>1. IInv /\ AllSound => SelectionIsEarned
  <2> SUFFICES ASSUME IInv, AllSound, phase = "done", NEW d \in decisions, d.state = "selected"
               PROVE  /\ d.evidence # {}
                      /\ \E i \in DOMAIN claims :
                           /\ SameDeclaration(claims[i], d) /\ claims[i].adapter = d.adapter
                           /\ claims[i].role = "owner" /\ claims[i].state = "active"
                      /\ \A i \in DOMAIN claims :
                           /\ SameDeclaration(claims[i], d) /\ claims[i].adapter # d.adapter
                           /\ claims[i].role = "owner"
                           => claims[i].state = "inactive"
    BY DEF SelectionIsEarned
  <2>1. next = Len(claims) /\ decisions = Decisions(merged) /\ DOMAIN claims = 1 .. next
    BY DEF IInv
  <2>2. PICK x \in merged :
          d = [subject |-> x.subject, group |-> x.group, adapter |-> x.adapter,
               state |-> Standing(GroupOf(merged, x), x), evidence |-> x.evidence]
    BY <2>1 DEF Decisions
  <2> DEFINE G == GroupOf(merged, x)
  <2>3. x \in Contenders(G) /\ Adapters(G) = {x.adapter} /\ ~Ambiguous(G)
    <3>1. x.role \in Roles /\ x.state \in States
      BY StatesOfMerged DEF IInv
    <3> QED
      BY <2>2, <3>1, SelectedIsAlone
  <2>4. x.role = "owner" /\ x.state = "active"
    BY <2>3 DEF Contenders, Ambiguous
  <2>5. PICK i \in 1 .. next : StandsFor(x, i)
    BY DEF IInv, NothingInvented
  <2>6. /\ x.subject = Normalized(claims[i].subject) /\ x.group = Normalized(claims[i].group)
        /\ x.adapter = claims[i].adapter
        /\ claims[i].role = "owner" /\ claims[i].state = "active"
    BY <2>4, <2>5 DEF StandsFor, KeyOf, Key
  <2>7. d.subject = x.subject /\ d.group = x.group /\ d.adapter = x.adapter /\ d.evidence = x.evidence
    BY <2>2
  <2>8. SameDeclaration(claims[i], d)
    BY <2>6, <2>7, IdentityLeads DEF SameDeclaration
  <2>9. d.evidence # {}
    <3>1. PICK e : e \in claims[i].evidence
      BY <2>6 DEF AllSound, Sound
    <3>2. e \in x.evidence
      BY <2>5, <3>1 DEF IInv, EvidenceIsUnited, HasEvidenceOf, StandsFor
    <3> QED
      BY <2>7, <3>2
  <2>10. ASSUME NEW j \in DOMAIN claims, SameDeclaration(claims[j], d),
                claims[j].adapter # d.adapter, claims[j].role = "owner",
                claims[j].state # "inactive"
         PROVE  FALSE
    <3>1. SameDeclaration(claims[j], claims[i])
      BY <2>8, <2>10 DEF SameDeclaration
    <3>2. claims[i] \in Options /\ claims[j] \in Options /\ claims[j].state \in States
      BY <2>1, OwnershipAssumption DEF IInv, OwnershipAssumption
    <3>3. SameIdentity(claims[j], claims[i])
      BY <2>1, <3>1, IdentityIsCanonical DEF SameDeclaration, SameIdentity
    <3>4. PICK y \in merged : StandsFor(y, j)
      BY <2>1 DEF IInv, NothingForgotten
    <3>5. /\ y.subject = x.subject /\ y.group = x.group /\ y.adapter = claims[j].adapter
          /\ y.role = "owner" /\ y.state = claims[j].state
      BY <2>6, <2>10, <3>3, <3>4 DEF StandsFor, KeyOf, Key, SameIdentity
    <3>6. y \in Contenders(G)
      BY <2>10, <3>2, <3>5 DEF Contenders, GroupOf, States
    <3>7. y.adapter \in Adapters(G)
      BY <3>6 DEF Adapters
    <3> QED
      BY <2>3, <2>7, <2>10, <3>5, <3>7
  <2> QED
    BY <2>1, <2>6, <2>7, <2>8, <2>9, <2>10
<1> QED
  BY <1>1, Invariance, ReadClaimsAreSound, PTL
=============================================================================
