------------------------ MODULE EvidenceGraphProofs -------------------------
(***************************************************************************)
(* Proofs about the evidence graph: the facts about one graph (first       *)
(* part) hold for any graph whatever, however an adapter built it; those   *)
(* about a step (second part) for any facts and relations it may add; the  *)
(* third part shows that the graphs of the Express adapter are valid.      *)
(***************************************************************************)
EXTENDS EvidenceAssembly, ExpressScan, FiniteSetTheorems, WellFoundedInduction, TLAPS

-----------------------------------------------------------------------------
(* Reachability.  The validator's searches all go through ReachableFrom    *)
(* and Walks, which are recursive functions: that they are defined, and    *)
(* what holds of them, is shown by the least number for which it fails.    *)

\* A set of numbers that is not empty has a least one.
LEMMA LeastNumber ==
  ASSUME NEW S \in SUBSET Nat, S # {}
  PROVE  \E i \in S : \A j \in S : i <= j
<1> DEFINE less == {pair \in Nat \X Nat : pair[1] < pair[2]}
<1>1. IsWellFoundedOn(less, Nat)
  BY NatLessThanWellFounded, Zenon DEF OpToRel
<1>2. PICK i \in S : \A j \in S : <<j, i>> \notin less
  <2> HIDE DEF less
  <2> QED
    BY <1>1, WFMin, Zenon
<1>3. ASSUME NEW j \in S PROVE i <= j
  <2>1. i \in Nat /\ j \in Nat /\ ~(j < i)
    BY <1>2, <1>3
  <2> QED
    BY <2>1
<1> QED
  BY <1>3

\* Induction, with a set in the place of a predicate.
LEMMA SetInduction ==
  ASSUME NEW P \in SUBSET Nat, 0 \in P, \A n \in P : n + 1 \in P
  PROVE  P = Nat
<1> SUFFICES ASSUME Nat \ P # {} PROVE FALSE
  OBVIOUS
<1>1. PICK n \in Nat \ P : \A m \in Nat \ P : n <= m
  BY LeastNumber
<1>2. n - 1 \in P
  BY <1>1
<1> QED
  BY <1>1, <1>2

\* The values of a function on a finite set are finitely many.
LEMMA FiniteImage ==
  ASSUME NEW f, IsFiniteSet(DOMAIN f)
  PROVE  IsFiniteSet({f[x] : x \in DOMAIN f})
<1> DEFINE T == {f[x] : x \in DOMAIN f}
           h == [x \in DOMAIN f |-> f[x]]
<1>1. h \in Surjection(DOMAIN f, T)
  BY DEF Surjection
<1> QED
  BY <1>1, FS_Surjection

\* One stage: what is there, and what a pair leads to from there.
Further(X, R) == UNION {{x} \cup {e[2] : e \in {f \in R : f[1] = x}} : x \in X}

\* The stages are what their definition says.
LEMMA StagesAre ==
  ASSUME NEW S, NEW R, IsFiniteSet(R)
  PROVE  /\ Cardinality(R) \in Nat
         /\ Stages(S, R) = [n \in 0 .. Cardinality(R) |-> IF n = 0 THEN S ELSE Further(Stages(S, R)[n - 1], R)]
<1> DEFINE N == Cardinality(R)
           Is(g, k) == g = [n \in 0 .. k |-> IF n = 0 THEN S ELSE Further(g[n - 1], R)]
           P == {k \in Nat : \E g : Is(g, k)}
<1>1. N \in Nat
  BY FS_CardinalityType
<1>2. 0 \in P
  <2>1. Is([n \in 0 .. 0 |-> S], 0)
    OBVIOUS
  <2> QED
    BY <2>1
<1>3. ASSUME NEW k \in P PROVE k + 1 \in P
  <2>1. PICK g : Is(g, k)
    OBVIOUS
  <2>2. PICK h : h = [n \in 0 .. k + 1 |-> IF n = k + 1 THEN Further(g[k], R) ELSE g[n]]
    OBVIOUS
  <2>3. Is(h, k + 1)
    BY <2>1, <2>2
  <2> QED
    BY <2>3
<1>4. P = Nat
  <2>1. P \in SUBSET Nat
    OBVIOUS
  <2> HIDE DEF P
  <2> QED
    BY <1>2, <1>3, <2>1, SetInduction
<1>5. \E g : Is(g, N)
  BY <1>1, <1>4
<1>6. Stages(S, R) = CHOOSE g : Is(g, N)
  BY DEF Stages, Further
<1>7. Is(Stages(S, R), N)
  <2> HIDE DEF Is
  <2> QED
    BY <1>5, <1>6
<1> QED
  BY <1>1, <1>7

LEMMA StageByStage ==
  ASSUME NEW S, NEW R, IsFiniteSet(R)
  PROVE  /\ Cardinality(R) \in Nat /\ Stages(S, R)[0] = S
         /\ \A k \in Nat : k + 1 <= Cardinality(R) => Stages(S, R)[k + 1] = Further(Stages(S, R)[k], R)
<1> DEFINE N == Cardinality(R)
           W == Stages(S, R)
<1>1. N \in Nat /\ W = [n \in 0 .. N |-> IF n = 0 THEN S ELSE Further(W[n - 1], R)]
  BY StagesAre
<1> HIDE DEF N, W
<1>2. W[0] = S
  BY <1>1
<1>3. ASSUME NEW k \in Nat, k + 1 <= N PROVE W[k + 1] = Further(W[k], R)
  <2>1. k + 1 \in 0 .. N /\ k + 1 # 0 /\ (k + 1) - 1 = k
    BY <1>1, <1>3
  <2> QED
    BY <1>1, <2>1
<1> QED
  BY <1>1, <1>2, <1>3 DEF N, W

\* No pair leads out of X.
Closed(X, R) == \A e \in R : e[1] \in X => e[2] \in X

LEMMA FurtherIs ==
  ASSUME NEW X, NEW R, NEW y
  PROVE  y \in Further(X, R) <=> y \in X \/ \E e \in R : e[1] \in X /\ e[2] = y
BY DEF Further

\* Whatever contains S and is closed contains all that is reachable from S.
LEMMA ReachIsLeast ==
  ASSUME NEW S, NEW R, IsFiniteSet(R), NEW T, S \subseteq T, Closed(T, R)
  PROVE  S \subseteq ReachableFrom(S, R) /\ ReachableFrom(S, R) \subseteq T
<1> DEFINE N == Cardinality(R)
           W == Stages(S, R)
           P == {k \in Nat : k <= N => S \subseteq W[k] /\ W[k] \subseteq T}
<1>1. N \in Nat /\ W[0] = S /\ \A k \in Nat : k + 1 <= N => W[k + 1] = Further(W[k], R)
  BY StageByStage
<1> HIDE DEF N, W
<1>2. 0 \in P
  BY <1>1
<1>3. ASSUME NEW k \in P PROVE k + 1 \in P
  <2> SUFFICES ASSUME k + 1 <= N PROVE S \subseteq W[k + 1] /\ W[k + 1] \subseteq T
    OBVIOUS
  <2>1. k \in Nat /\ k <= N
    BY <1>1
  <2>2. S \subseteq W[k] /\ W[k] \subseteq T /\ W[k + 1] = Further(W[k], R)
    BY <1>1, <2>1
  <2> QED
    BY <2>2, FurtherIs DEF Closed
<1>4. P = Nat
  <2>1. P \in SUBSET Nat
    OBVIOUS
  <2> HIDE DEF P
  <2> QED
    BY <1>2, <1>3, <2>1, SetInduction
<1>5. S \subseteq W[N] /\ W[N] \subseteq T
  <2>1. N \in P
    BY <1>1, <1>4
  <2> QED
    BY <1>1, <2>1
<1> QED
  BY <1>5 DEF ReachableFrom, N, W

\* What is reachable is closed: were each stage to add something, each would
\* come with a pair that no earlier stage had used, one more than there are.
LEMMA ReachIsClosed ==
  ASSUME NEW S, NEW R, IsFiniteSet(R)
  PROVE  Closed(ReachableFrom(S, R), R)
<1> DEFINE N == Cardinality(R)
           W == Stages(S, R)
           Used(k) == {e \in R : e[1] \in W[k]}
<1>1. N \in Nat /\ W[0] = S /\ \A k \in Nat : k + 1 <= N => W[k + 1] = Further(W[k], R)
  BY StageByStage
<1>2. \A k \in Nat : IsFiniteSet(Used(k)) /\ Cardinality(Used(k)) \in Nat /\ Cardinality(Used(k)) <= N
  BY FS_Subset, FS_CardinalityType
<1> HIDE DEF N, W
<1>3. ASSUME NEW k \in Nat, k + 1 <= N, Closed(W[k], R)
      PROVE  W[k + 1] = W[k]
  <2>1. W[k + 1] = Further(W[k], R)
    BY <1>1, <1>3
  <2>2. \A y : y \in Further(W[k], R) <=> y \in W[k]
    BY <1>3, FurtherIs DEF Closed
  <2>3. Further(W[k], R) = W[k]
    BY <2>2, Zenon
  <2> QED
    BY <2>1, <2>3
<1>4. ASSUME NEW k \in Nat, k + 1 <= N, ~Closed(W[k + 1], R), ~Closed(W[k], R)
      PROVE  Cardinality(Used(k + 1)) > Cardinality(Used(k))
  <2>1. W[k + 1] = Further(W[k], R)
    BY <1>1, <1>4
  <2>2. Used(k) \subseteq Used(k + 1)
    BY <2>1, FurtherIs
  <2>3. PICK e \in R : e[1] \in W[k + 1] /\ e[2] \notin W[k + 1]
    BY <1>4 DEF Closed
  <2>4. e[1] \notin W[k]
    BY <2>1, <2>3, FurtherIs
  <2>5. Used(k) # Used(k + 1)
    BY <2>3, <2>4
  <2>6. IsFiniteSet(Used(k + 1)) /\ Cardinality(Used(k)) \in Nat /\ Cardinality(Used(k + 1)) \in Nat
    <3>1. k + 1 \in Nat
      OBVIOUS
    <3> HIDE DEF Used
    <3> QED
      BY <1>2, <3>1
  <2> HIDE DEF Used
  <2> QED
    BY <2>2, <2>5, <2>6, FS_Subset
<1> DEFINE P == {k \in Nat : k <= N => Closed(W[k], R) \/ Cardinality(Used(k)) > k}
<1>5. 0 \in P
  <2> SUFFICES ASSUME ~Closed(W[0], R) PROVE Cardinality(Used(0)) > 0
    OBVIOUS
  <2>1. Used(0) # {}
    BY DEF Closed
  <2>2. IsFiniteSet(Used(0)) /\ Cardinality(Used(0)) \in Nat
    BY <1>2
  <2> HIDE DEF Used
  <2> QED
    BY <2>1, <2>2, FS_EmptySet
<1>6. ASSUME NEW k \in P PROVE k + 1 \in P
  <2> SUFFICES ASSUME k + 1 <= N, ~Closed(W[k + 1], R) PROVE Cardinality(Used(k + 1)) > k + 1
    OBVIOUS
  <2>1. k \in Nat /\ k <= N
    BY <1>1
  <2>2. ~Closed(W[k], R)
    BY <1>3, <2>1
  <2>3. Cardinality(Used(k)) > k
    BY <2>1, <2>2
  <2>4. Cardinality(Used(k)) \in Nat /\ Cardinality(Used(k + 1)) \in Nat
    <3>1. k + 1 \in Nat
      BY <2>1
    <3> HIDE DEF Used
    <3> QED
      BY <1>2, <2>1, <3>1
  <2>5. Cardinality(Used(k + 1)) > Cardinality(Used(k))
    BY <1>4, <2>1, <2>2
  <2> HIDE DEF Used
  <2> QED
    BY <2>1, <2>3, <2>4, <2>5
<1>7. P = Nat
  <2>1. P \in SUBSET Nat
    OBVIOUS
  <2> HIDE DEF P
  <2> QED
    BY <1>5, <1>6, <2>1, SetInduction
<1>8. Closed(W[N], R)
  <2>1. N \in P
    BY <1>1, <1>7
  <2>2. Cardinality(Used(N)) \in Nat /\ Cardinality(Used(N)) <= N
    BY <1>1, <1>2
  <2> HIDE DEF Used
  <2> QED
    BY <1>1, <2>1, <2>2
<1> QED
  BY <1>8 DEF ReachableFrom, N, W

\* What there is to begin with is reachable.
LEMMA ReachContains ==
  ASSUME NEW S, NEW R, IsFiniteSet(R)
  PROVE  S \subseteq ReachableFrom(S, R)
<1>1. Closed(S \cup {e[2] : e \in R}, R)
  BY DEF Closed
<1> QED
  BY <1>1, ReachIsLeast

\* More to begin with, more to reach.
LEMMA ReachGrows ==
  ASSUME NEW S, NEW T, S \subseteq T, NEW R, IsFiniteSet(R)
  PROVE  ReachableFrom(S, R) \subseteq ReachableFrom(T, R)
<1>1. T \subseteq ReachableFrom(T, R) /\ Closed(ReachableFrom(T, R), R)
  BY ReachContains, ReachIsClosed
<1> QED
  BY <1>1, ReachIsLeast

\* The walks are what their definition says.
LEMMA WalksAre ==
  ASSUME NEW S, NEW R, NEW N \in Nat
  PROVE  Walks(S, R, N) =
           [n \in 1 .. N |->
              IF n = 1 THEN {e \in R : e[1] \in S}
              ELSE UNION {{Append(w, e[2]) : e \in {f \in R : f[1] = w[n]}} : w \in Walks(S, R, N)[n - 1]}]
<1> DEFINE Longer(X, n) == UNION {{Append(w, e[2]) : e \in {f \in R : f[1] = w[n]}} : w \in X}
           First == {e \in R : e[1] \in S}
           Is(g, k) == g = [n \in 1 .. k |-> IF n = 1 THEN First ELSE Longer(g[n - 1], n)]
           P == {k \in Nat : \E g : Is(g, k)}
<1>0. Walks(S, R, N) = CHOOSE g : Is(g, N)
  BY DEF Walks
<1> HIDE DEF Longer, First
<1>1. 0 \in P
  <2>1. Is([n \in 1 .. 0 |-> First], 0)
    OBVIOUS
  <2> QED
    BY <2>1
<1>2. ASSUME NEW k \in P PROVE k + 1 \in P
  <2>1. PICK g : Is(g, k)
    OBVIOUS
  <2>2. PICK h : h = [n \in 1 .. k + 1 |-> IF n = 1 THEN First
                                           ELSE IF n = k + 1 THEN Longer(g[k], k + 1) ELSE g[n]]
    OBVIOUS
  <2>3. \A n \in 1 .. k : h[n] = g[n]
    BY <2>1, <2>2
  <2>4. Is(h, k + 1)
    BY <2>1, <2>2, <2>3
  <2> QED
    BY <2>4
<1>3. P = Nat
  <2>1. P \in SUBSET Nat
    OBVIOUS
  <2> HIDE DEF P
  <2> QED
    BY <1>1, <1>2, <2>1, SetInduction
<1>4. \E g : Is(g, N)
  BY <1>3
<1>5. Is(Walks(S, R, N), N)
  <2> HIDE DEF Is
  <2> QED
    BY <1>0, <1>4
<1> QED
  BY <1>5 DEF Longer, First

\* A walk never leaves what is closed.
LEMMA WalksStay ==
  ASSUME NEW S, NEW R, NEW N \in Nat, \A e \in R : e = <<e[1], e[2]>>,
         NEW T, S \subseteq T, Closed(T, R), NEW n \in 1 .. N, NEW w \in Walks(S, R, N)[n]
  PROVE  w[n + 1] \in T
<1> DEFINE W == Walks(S, R, N)
           Ok(k) == \A v \in W[k] : v \in Seq(T) /\ Len(v) = k + 1
           P == {k \in Nat : k + 1 <= N => Ok(k + 1)}
<1>1. W = [k \in 1 .. N |->
             IF k = 1 THEN {e \in R : e[1] \in S}
             ELSE UNION {{Append(v, e[2]) : e \in {f \in R : f[1] = v[k]}} : v \in W[k - 1]}]
  BY WalksAre
<1> HIDE DEF W
<1>2. 0 \in P
  <2> SUFFICES ASSUME 1 <= N, NEW v \in W[1] PROVE v \in Seq(T) /\ Len(v) = 2
    OBVIOUS
  <2>1. v \in R /\ v[1] \in T /\ v[2] \in T
    BY <1>1 DEF Closed
  <2>2. PICK a \in T, b \in T : v = <<a, b>>
    BY <2>1
  <2>3. <<a, b>> \in Seq(T) /\ Len(<<a, b>>) = 2
    OBVIOUS
  <2> QED
    BY <2>2, <2>3
<1>3. ASSUME NEW k \in P PROVE k + 1 \in P
  <2> SUFFICES ASSUME k + 2 <= N, NEW v \in W[k + 2] PROVE v \in Seq(T) /\ Len(v) = k + 3
    OBVIOUS
  <2>1. k \in Nat /\ k + 1 <= N /\ k + 2 \in 1 .. N /\ k + 2 # 1 /\ (k + 2) - 1 = k + 1
    OBVIOUS
  <2>2. W[k + 2] = UNION {{Append(u, e[2]) : e \in {f \in R : f[1] = u[k + 2]}} : u \in W[k + 1]}
    BY <1>1, <2>1
  <2>3. PICK u \in W[k + 1], e \in R : e[1] = u[k + 2] /\ v = Append(u, e[2])
    BY <2>2
  <2>4. u \in Seq(T) /\ Len(u) = k + 2
    BY <2>1
  <2>5. e[2] \in T
    BY <2>1, <2>3, <2>4 DEF Closed
  <2> QED
    BY <2>1, <2>3, <2>4, <2>5
<1>4. P = Nat
  <2>1. P \in SUBSET Nat
    OBVIOUS
  <2> HIDE DEF P
  <2> QED
    BY <1>2, <1>3, <2>1, SetInduction
<1>5. Ok(n)
  <2>1. n - 1 \in P /\ (n - 1) + 1 = n
    BY <1>4
  <2> QED
    BY <2>1
<1> QED
  BY <1>5 DEF W

\* A search that succeeds ends where the structure leads to.
LEMMA PathsStay ==
  ASSUME NEW g, IsFiniteSet(g.relations), NEW starts, NEW targets, NEW selected, NEW allowed, NEW startOnly,
         RelationPath(g, starts, targets, selected, allowed, startOnly).found,
         NEW T, starts \subseteq T, Closed(T, Edges(g.relations))
  PROVE  targets \cap T # {}
<1> DEFINE rels  == {r \in g.relations : r.id \in selected}
           edges == Edges(rels)
           N     == Cardinality(edges)
           W     == Walks(starts, edges, N)
           hits(n) == {w \in W[n] : w[n + 1] \in targets}
           lengths == {n \in 1 .. N : hits(n) # {}}
<1>1. lengths # {}
  BY DEF RelationPath, NoPath
<1>2. N \in Nat
  <2> DEFINE forward == {x \in rels : x.kind \in ForwardKinds}
             pair == [r \in forward |-> <<r.source, r.target>>]
  <2>1. IsFiniteSet(forward)
    BY FS_Subset
  <2>2. edges = {pair[r] : r \in DOMAIN pair}
    BY DEF Edges
  <2> QED
    BY <2>1, <2>2, FiniteImage, FS_CardinalityType
<1>3. PICK n \in 1 .. N : hits(n) # {}
  BY <1>1
<1>4. PICK w \in W[n] : w[n + 1] \in targets
  BY <1>3
<1>5. Closed(T, edges) /\ \A e \in edges : e = <<e[1], e[2]>>
  BY DEF Closed, Edges
<1> HIDE DEF edges, N
<1>6. w[n + 1] \in T
  BY <1>2, <1>4, <1>5, WalksStay
<1> QED
  BY <1>4, <1>6

\* Graphs that are finite have finitely many derivations and edges.
LEMMA FiniteDerivations ==
  ASSUME NEW g, FiniteGraph(g)
  PROVE  IsFiniteSet(Derivations(g)) /\ IsFiniteSet(Structure(g)) /\ IsFiniteSet(g.relations)
<1>1. IsFiniteSet(g.relations) /\ IsFiniteSet(g.scopes)
  <2>1. 3 \in DOMAIN Derivable(g) /\ 4 \in DOMAIN Derivable(g)
        /\ Derivable(g)[3] = g.scopes /\ Derivable(g)[4] = g.relations
    BY DEF Derivable
  <2> QED
    BY <2>1 DEF FiniteGraph
<1>2. ASSUME NEW x, IsFiniteSet(x.derived) PROVE IsFiniteSet({<<x.id, j>> : j \in x.derived})
  <2> DEFINE f == [j \in x.derived |-> <<x.id, j>>]
  <2>1. {<<x.id, j>> : j \in x.derived} = {f[j] : j \in DOMAIN f}
    OBVIOUS
  <2> QED
    BY <1>2, <2>1, FiniteImage
<1>3. ASSUME NEW X, IsFiniteSet(X), \A x \in X : IsFiniteSet(x.derived)
      PROVE  IsFiniteSet(UNION {{<<x.id, j>> : j \in x.derived} : x \in X})
  <2> DEFINE f == [x \in X |-> {<<x.id, j>> : j \in x.derived}]
  <2>1. {{<<x.id, j>> : j \in x.derived} : x \in X} = {f[x] : x \in DOMAIN f}
    OBVIOUS
  <2>2. IsFiniteSet({f[x] : x \in DOMAIN f})
    BY <1>3, FiniteImage
  <2>3. \A t \in {f[x] : x \in DOMAIN f} : IsFiniteSet(t)
    BY <1>2, <1>3
  <2> HIDE DEF f
  <2> QED
    BY <2>1, <2>2, <2>3, FS_UNION
<1>4. IsFiniteSet(Derivations(g))
  <2> DEFINE K == DOMAIN Derivable(g)
             D(k) == UNION {{<<x.id, j>> : j \in x.derived} : x \in Derivable(g)[k]}
             f == [k \in K |-> D(k)]
  <2>1. IsFiniteSet(K)
    <3>1. K \subseteq {1, 2, 3, 4, 5, 6, 7, 8}
      BY DEF Derivable
    <3>2. K \in SUBSET Nat /\ \A k \in K : k <= 8
      BY <3>1
    <3> HIDE DEF K
    <3> QED
      BY <3>2, FS_BoundedSetOfNaturals
  <2>2. \A k \in K : IsFiniteSet(D(k))
    BY <1>3 DEF FiniteGraph
  <2> HIDE DEF K, D
  <2>3. IsFiniteSet({f[k] : k \in DOMAIN f})
    BY <2>1, FiniteImage
  <2>4. IsFiniteSet(UNION {f[k] : k \in DOMAIN f})
    BY <2>2, <2>3, FS_UNION
  <2>5. Derivations(g) = UNION {f[k] : k \in DOMAIN f}
    BY DEF Derivations, K, D
  <2> QED
    BY <2>4, <2>5
<1>5. IsFiniteSet(Structure(g))
  <2> DEFINE forward == {x \in g.relations : x.kind \in ForwardKinds}
             nested  == {x \in g.scopes : x.parent # None}
             f1 == [r \in forward |-> <<r.source, r.target>>]
             f2 == [s \in nested |-> <<s.id, s.parent>>]
             f3 == [s \in g.scopes |-> <<s.id, s.subject>>]
             f4 == [s \in g.scopes |-> <<s.subject, s.id>>]
  <2>1. IsFiniteSet(forward) /\ IsFiniteSet(nested)
    BY <1>1, FS_Subset
  <2>2. /\ IsFiniteSet({f1[x] : x \in DOMAIN f1}) /\ IsFiniteSet({f2[x] : x \in DOMAIN f2})
        /\ IsFiniteSet({f3[x] : x \in DOMAIN f3}) /\ IsFiniteSet({f4[x] : x \in DOMAIN f4})
    BY <1>1, <2>1, FiniteImage
  <2>3. Structure(g) = {f1[x] : x \in DOMAIN f1} \cup {f2[x] : x \in DOMAIN f2}
                         \cup {f3[x] : x \in DOMAIN f3} \cup {f4[x] : x \in DOMAIN f4}
    BY DEF Structure
  <2>4. \A A, B : IsFiniteSet(A) /\ IsFiniteSet(B) => IsFiniteSet(A \cup B)
    BY FS_Union
  <2> DEFINE e1 == {f1[x] : x \in DOMAIN f1}
             e2 == {f2[x] : x \in DOMAIN f2}
             e3 == {f3[x] : x \in DOMAIN f3}
             e4 == {f4[x] : x \in DOMAIN f4}
  <2>5. /\ IsFiniteSet(e1) /\ IsFiniteSet(e2) /\ IsFiniteSet(e3) /\ IsFiniteSet(e4)
        /\ Structure(g) = ((e1 \cup e2) \cup e3) \cup e4
    BY <2>2, <2>3, Zenon
  <2> HIDE DEF e1, e2, e3, e4
  <2>6. IsFiniteSet((e1 \cup e2) \cup e3)
    BY <2>4, <2>5
  <2> QED
    BY <2>4, <2>5, <2>6
<1> QED
  BY <1>1, <1>4, <1>5

-----------------------------------------------------------------------------
(* Any graph *)

\* Anything in doubt about an endpoint leaves it UNRESOLVED.
LEMMA DoubtIsUnresolved ==
  ASSUME NEW g, NEW e, Doubtful(g, e)
  PROVE  Verdict(g, e) = "UNRESOLVED"
BY DEF Verdict

\* A valid graph never lets a proof outvote an ambiguity
\* (_validate_auth_ambiguity, then resolve_endpoints).
LEMMA AmbiguityDecides ==
  ASSUME NEW g, Valid(g), NEW e, "auth_ambiguity" \in AssociatedKinds(g, e)
  PROVE  Verdict(g, e) = "UNRESOLVED"
<1>1. PICK x \in g.facts : x.kind = "auth_ambiguity"
                           /\ \E a \in g.associations : a.endpoint = e.id /\ a.evidence = x.id
  BY DEF AssociatedKinds
<1>2. PICK a \in g.associations : a.endpoint = e.id /\ a.evidence = x.id
  BY <1>1
<1>3. a.evidence \in IdsOf(OfKind(g.facts, "auth_ambiguity"))
  BY <1>1, <1>2 DEF IdsOf, OfKind
<1>4. \E u \in g.unresolved : u.subject = a.endpoint
  BY <1>2, <1>3 DEF Valid, AmbiguityIsExplicit
<1>5. Unresolved(g, e) # {}
  BY <1>2, <1>4 DEF Unresolved
<1> QED
  BY <1>5, DoubtIsUnresolved DEF Doubtful

\* What a valid graph needs before it calls an endpoint GUARDED: full coverage,
\* nothing unresolved, and a proof of enforcement with relations of its own, one
\* of whose associations ties this very endpoint to a fact of enforcement and
\* passes the path check (resolve_endpoints, _validate_enforcement_association).
THEOREM GuardedNeeds ==
  ASSUME NEW g, Valid(g), NEW e, Verdict(g, e) = "GUARDED"
  PROVE  /\ \A c \in Capability : \E x \in g.coverage :
              x.target = e.id /\ x.capability = c /\ x.status = "analyzed"
         /\ \A u \in g.unresolved : u.subject \notin {e.id, e.subject}
         /\ \E p \in g.proofs, a \in g.associations, f \in OfKind(g.facts, "auth_enforcement") :
              /\ p.kind = "auth_enforcement" /\ p.endpoint = e.id /\ p.relations # {}
              /\ {e.id, a.id, f.id} \subseteq p.derived
              /\ a.endpoint = e.id /\ a.evidence = f.id
              /\ EnforcementPath(g, a, p.relations).found
<1>1. ~Doubtful(g, e) /\ ValidProofs(g, e, "auth_enforcement") # {}
  BY DEF Verdict
<1>2. \A c \in Capability : \E x \in g.coverage :
        x.target = e.id /\ x.capability = c /\ x.status = "analyzed"
  BY <1>1 DEF Doubtful, Covered
<1>3. \A u \in g.unresolved : u.subject \notin {e.id, e.subject}
  BY <1>1 DEF Doubtful, Unresolved
<1>4. PICK p \in g.proofs : p.endpoint = e.id /\ p.kind = "auth_enforcement" /\ ProofIsValid(g, p)
  BY <1>1 DEF ValidProofs, ProofsFor
<1>5. /\ p.associations # {} /\ p.associations \subseteq IdsOf(g.associations)
      /\ p.relations # {} /\ Selected(p) \subseteq p.derived
      /\ \A a \in {x \in g.associations : x.id \in p.associations} :
           a.evidence \in p.facts /\ EnforcementPath(g, a, p.relations).found
  BY <1>4 DEF Valid, ProofsAreSound
<1>6. PICK a \in g.associations : a.id \in p.associations
  BY <1>5 DEF IdsOf
<1>7. /\ a.endpoint = p.endpoint
      /\ a.evidence \in {f.id : f \in {x \in g.facts : x.id \in p.facts /\ x.kind = RequiredFact(p.kind)}}
  BY <1>4, <1>6 DEF ProofIsValid
<1>8. PICK f \in g.facts : f.kind = "auth_enforcement" /\ a.evidence = f.id
  BY <1>4, <1>7 DEF RequiredFact
<1>9. {e.id, a.id, f.id} \subseteq p.derived
  BY <1>4, <1>5, <1>6, <1>8 DEF Selected
<1> QED
  BY <1>2, <1>3, <1>4, <1>5, <1>6, <1>7, <1>8, <1>9 DEF OfKind

\* GUARDED meets the contract in every finite graph that is valid: the program's
\* structure leads from the endpoint to the scope of the claim and to the subject
\* of the enforcement (_validate_enforcement_association, _relation_path_nodes).
LEMMA GuardedIsReached ==
  ASSUME NEW g, FiniteGraph(g), Valid(g), NEW e \in Endpoints(g), Verdict(g, e) = "GUARDED"
  PROVE  \E a \in g.associations : EvidenceFor(g, e, a)
<1>1. PICK p \in g.proofs, a \in g.associations, f \in OfKind(g.facts, "auth_enforcement") :
        /\ p.kind = "auth_enforcement" /\ p.endpoint = e.id /\ p.relations # {}
        /\ {e.id, a.id, f.id} \subseteq p.derived
        /\ a.endpoint = e.id /\ a.evidence = f.id
        /\ EnforcementPath(g, a, p.relations).found
  BY GuardedNeeds
<1>2. f \in g.facts /\ e \in g.facts
  BY DEF OfKind, Endpoints
<1>3. ById(g.facts, a.endpoint) = e /\ ById(g.facts, a.evidence) = f
  <2>1. \A x, y \in g.facts : x.id = y.id => x = y
    <3>1. 2 \in DOMAIN Groups(g) /\ Groups(g)[2] = g.facts
      BY DEF Groups
    <3> QED
      BY <3>1 DEF Valid, UniqueIds
  <2> QED
    BY <1>1, <1>2, <2>1 DEF ById
<1> DEFINE scope == ById(g.scopes, a.scope)
<1>4. scope \in g.scopes /\ scope.id = a.scope
  <2>1. a.scope \in IdsOf(g.scopes)
    BY DEF Valid, AssociationsAreSound
  <2> QED
    BY <2>1 DEF IdsOf, ById
<1> HIDE DEF scope
<1> DEFINE T == ReachableFrom({e.id, e.subject}, Structure(g))
           ids == {e.id, e.subject} \cup IdsOf({s \in g.scopes : s.subject = e.subject})
<1>5. IsFiniteSet(Structure(g)) /\ IsFiniteSet(g.relations) /\ IsFiniteSet(g.scopes)
  <2>1. 3 \in DOMAIN Derivable(g) /\ Derivable(g)[3] = g.scopes
    BY DEF Derivable
  <2> QED
    BY <2>1, FiniteDerivations DEF FiniteGraph
<1>6. {e.id, e.subject} \subseteq T /\ Closed(T, Structure(g))
  BY <1>5, ReachContains, ReachIsClosed
<1> HIDE DEF T
<1>7. /\ \A s \in g.scopes : (s.subject \in T <=> s.id \in T) /\ (s.parent # None /\ s.id \in T => s.parent \in T)
      /\ Closed(T, Edges(g.relations))
  <2>1. ASSUME NEW s \in g.scopes PROVE (s.subject \in T <=> s.id \in T) /\ (s.parent # None /\ s.id \in T => s.parent \in T)
    <3>1. <<s.id, s.subject>> \in Structure(g) /\ <<s.subject, s.id>> \in Structure(g)
          /\ (s.parent # None => <<s.id, s.parent>> \in Structure(g))
      BY DEF Structure
    <3> QED
      BY <1>6, <3>1 DEF Closed
  <2>2. Edges(g.relations) \subseteq Structure(g)
    BY DEF Edges, Structure
  <2> QED
    BY <1>6, <2>1, <2>2 DEF Closed
<1>8. ids \subseteq T
  BY <1>6, <1>7 DEF IdsOf
<1> DEFINE structural == IdsOf(g.subjects) \cup IdsOf(g.scopes) \cup {e.id}
<1>9. /\ \/ scope.kind = "route" /\ scope.subject = e.subject
         \/ RelationPath(g, ids, {scope.id, scope.subject}, p.relations, structural, {e.id}).found
      /\ RelationPath(g, ids \cup ScopeRegion(g, scope), {f.subject}, p.relations, structural, {e.id}).found
  BY <1>1, <1>3 DEF EnforcementPath, NoPath, scope
<1> HIDE DEF structural, ids
<1>10. scope.id \in T
  <2>1. CASE scope.subject = e.subject
    BY <1>4, <1>6, <1>7, <2>1
  <2>2. CASE RelationPath(g, ids, {scope.id, scope.subject}, p.relations, structural, {e.id}).found
    <3>1. {scope.id, scope.subject} \cap T # {}
      BY <1>5, <1>7, <1>8, <2>2, PathsStay
    <3> QED
      BY <1>4, <1>7, <3>1
  <2> QED
    BY <1>9, <2>1, <2>2
<1>11. ScopeRegion(g, scope) \subseteq T
  <2> DEFINE nested  == {x \in g.scopes : x.parent # None}
             parents == {<<s.id, s.parent>> : s \in nested}
             up      == [s \in nested |-> <<s.id, s.parent>>]
  <2>1. IsFiniteSet(parents)
    <3>1. IsFiniteSet(nested)
      BY <1>5, FS_Subset
    <3>2. parents = {up[s] : s \in DOMAIN up}
      OBVIOUS
    <3> HIDE DEF parents
    <3> QED
      BY <3>1, <3>2, FiniteImage
  <2>2. Closed(T, parents)
    BY <1>7 DEF Closed
  <2>3. ReachableFrom({scope.id}, parents) \subseteq T
    <3> HIDE DEF parents
    <3> QED
      BY <1>10, <2>1, <2>2, ReachIsLeast
  <2>4. \A s \in g.scopes : s.id \in ReachableFrom({scope.id}, parents) => s.id \in T /\ s.subject \in T
    BY <1>7, <2>3
  <2> QED
    BY <2>4 DEF ScopeRegion, IdsOf
<1>12. f.subject \in T
  <2>1. {f.subject} \cap T # {}
    BY <1>5, <1>7, <1>8, <1>9, <1>11, PathsStay
  <2> QED
    BY <2>1
<1> QED
  BY <1>1, <1>4, <1>10, <1>12 DEF EvidenceFor, T

\* No advisory fact is among what the proofs of a GUARDED endpoint were derived
\* from (_reject_advisory_enforcement_derivations).
LEMMA NoAdvisoryBehindAGuard ==
  ASSUME NEW g, FiniteGraph(g), Valid(g), NEW e, Verdict(g, e) = "GUARDED",
         NEW p \in g.proofs, p.endpoint = e.id, p.kind \in {"auth_enforcement", "public_policy"},
         NEW f \in g.facts, f.id \in ReachableFrom({p.id}, Derivations(g))
  PROVE  f.kind \notin AdvisoryKinds
<1>1. ~Doubtful(g, e) /\ ValidProofs(g, e, "public_policy") = {}
  BY DEF Verdict
<1>2. ProofIsValid(g, p)
  BY <1>1 DEF Doubtful, ProofsFor
<1>3. p.kind = "auth_enforcement"
  BY <1>1, <1>2 DEF ValidProofs, ProofsFor
<1>4. ReachableFrom({p.id}, Derivations(g)) \subseteq Basis(g, p)
  BY FiniteDerivations, ReachGrows DEF Basis
<1> QED
  BY <1>3, <1>4 DEF Valid, NoAdvisoryEnforcement, OfKind

-----------------------------------------------------------------------------
(* What an adapter adds *)

\* The verdict is a function of these parts of a graph.
LEMMA SameVerdict ==
  ASSUME NEW g, NEW h, NEW e,
         Unresolved(g, e) = Unresolved(h, e), Covered(g, e) = Covered(h, e),
         UnprovenClaim(g, e) = UnprovenClaim(h, e),
         g.proofs = h.proofs, \A p \in g.proofs : ProofIsValid(g, p) = ProofIsValid(h, p)
  PROVE  Verdict(g, e) = Verdict(h, e)
<1>1. ProofsFor(g, e) = ProofsFor(h, e)
  BY DEF ProofsFor
<1>2. Doubtful(g, e) = Doubtful(h, e)
  BY <1>1 DEF Doubtful, ProofsFor
<1>3. \A kind : ValidProofs(g, e, kind) = ValidProofs(h, e, kind)
  BY <1>1 DEF ValidProofs, ProofsFor
<1> QED
  BY <1>2, <1>3 DEF Verdict

\* One more weak indicator among the facts.
LEMMA WeakFactIsInert ==
  ASSUME NEW g, NEW h, NEW f, NEW e, f.kind = "weak_indicator",
         h.facts = g.facts \cup {f}, h.associations = g.associations, h.proofs = g.proofs,
         h.unresolved = g.unresolved, h.coverage = g.coverage,
         \A p \in g.proofs : p.kind \in {"auth_enforcement", "public_policy"}
  PROVE  Verdict(g, e) = Verdict(h, e)
<1>1. Unresolved(g, e) = Unresolved(h, e) /\ Covered(g, e) = Covered(h, e)
  BY DEF Unresolved, Covered
<1>2. ASSUME NEW p \in g.proofs PROVE ProofIsValid(g, p) = ProofIsValid(h, p)
  <2>1. RequiredFact(p.kind) # "weak_indicator"
    BY <1>2 DEF RequiredFact
  <2>2. {x \in g.facts : x.id \in p.facts /\ x.kind = RequiredFact(p.kind)}
          = {x \in h.facts : x.id \in p.facts /\ x.kind = RequiredFact(p.kind)}
    BY <2>1
  <2> QED
    BY <2>2 DEF ProofIsValid
<1>3. {"auth_enforcement", "public_declaration"} \cap AssociatedKinds(g, e)
        = {"auth_enforcement", "public_declaration"} \cap AssociatedKinds(h, e)
  BY DEF AssociatedKinds
<1>4. UnprovenClaim(g, e) = UnprovenClaim(h, e)
  BY <1>2, <1>3 DEF UnprovenClaim, ProofsFor
<1> QED
  BY <1>1, <1>2, <1>4, SameVerdict

\* One more association, of a weak indicator, that no proof names.
LEMMA WeakAssociationIsInert ==
  ASSUME NEW g, NEW h, NEW a, NEW e, UniqueIds(h), Valid(g),
         \E f \in g.facts : f.kind = "weak_indicator" /\ a.evidence = f.id,
         a.id \notin IdsOf(g.associations), h.associations = g.associations \cup {a},
         h.facts = g.facts, h.proofs = g.proofs, h.unresolved = g.unresolved, h.coverage = g.coverage
  PROVE  Verdict(g, e) = Verdict(h, e)
<1>1. Unresolved(g, e) = Unresolved(h, e) /\ Covered(g, e) = Covered(h, e)
  BY DEF Unresolved, Covered
<1>2. ASSUME NEW p \in g.proofs PROVE ProofIsValid(g, p) = ProofIsValid(h, p)
  <2>1. a.id \notin p.associations
    BY DEF Valid, ProofsAreSound
  <2>2. {x \in g.associations : x.id \in p.associations} = {x \in h.associations : x.id \in p.associations}
    BY <2>1
  <2> QED
    BY <2>2 DEF ProofIsValid
<1>3. \A x, y \in h.facts : x.id = y.id => x = y
  <2>1. 2 \in DOMAIN Groups(h) /\ Groups(h)[2] = h.facts
    BY DEF Groups
  <2> QED
    BY <2>1 DEF UniqueIds
<1>4. \A x \in g.facts : a.evidence = x.id => x.kind = "weak_indicator"
  BY <1>3
<1>5. {"auth_enforcement", "public_declaration"} \cap AssociatedKinds(g, e)
        = {"auth_enforcement", "public_declaration"} \cap AssociatedKinds(h, e)
  <2>1. \A k \in {"auth_enforcement", "public_declaration"} :
          k \in AssociatedKinds(h, e) => k \in AssociatedKinds(g, e)
    BY <1>4 DEF AssociatedKinds
  <2>2. AssociatedKinds(g, e) \subseteq AssociatedKinds(h, e)
    BY DEF AssociatedKinds
  <2> QED
    BY <2>1, <2>2
<1>6. UnprovenClaim(g, e) = UnprovenClaim(h, e)
  BY <1>2, <1>5 DEF UnprovenClaim, ProofsFor
<1> QED
  BY <1>1, <1>2, <1>6, SameVerdict

-----------------------------------------------------------------------------
(* The theorems of the specification *)

\* Every record has finitely many predecessors, and there are finitely many.
Small(X) == IsFiniteSet(X) /\ \A x \in X : IsFiniteSet(x.derived)

LEMMA FiniteGraphIs ==
  ASSUME NEW g
  PROVE  FiniteGraph(g) <=> /\ Small(g.subjects) /\ Small(g.facts) /\ Small(g.scopes) /\ Small(g.relations)
                            /\ Small(g.associations) /\ Small(g.proofs) /\ Small(g.unresolved)
                            /\ Small(g.diagnostics)
<1>1. DOMAIN Derivable(g) = {1, 2, 3, 4, 5, 6, 7, 8}
  BY DEF Derivable
<1>2. /\ Derivable(g)[1] = g.subjects /\ Derivable(g)[2] = g.facts /\ Derivable(g)[3] = g.scopes
      /\ Derivable(g)[4] = g.relations /\ Derivable(g)[5] = g.associations /\ Derivable(g)[6] = g.proofs
      /\ Derivable(g)[7] = g.unresolved /\ Derivable(g)[8] = g.diagnostics
  BY DEF Derivable
<1> QED
  BY <1>1, <1>2 DEF FiniteGraph, Small

LEMMA OneMore ==
  ASSUME NEW X, Small(X), NEW x, IsFiniteSet(x.derived)
  PROVE  Small(X \cup {x})
BY FS_AddElement DEF Small

LEMMA OnlyOne ==
  ASSUME NEW x, IsFiniteSet(x.derived)
  PROVE  Small({x})
BY FS_Singleton DEF Small

\* Two things are finitely many.
LEMMA PairIsFinite == \A x, y : IsFiniteSet({x, y})
<1> SUFFICES ASSUME NEW x, NEW y PROVE IsFiniteSet({x, y})
  OBVIOUS
<1>1. IsFiniteSet({x}) /\ IsFiniteSet({y})
  BY FS_Singleton
<1>2. IsFiniteSet({x} \cup {y})
  BY <1>1, FS_Union
<1>3. {x, y} = {x} \cup {y}
  OBVIOUS
<1> QED
  BY <1>2, <1>3

LEMMA InitInv == AssemblyInit => GraphInv
<1> SUFFICES ASSUME AssemblyInit PROVE GraphInv
  OBVIOUS
<1>1. DOMAIN Skeleton = Fields /\ Skeleton.proofs = {}
  BY DEF Skeleton, EmptyGraph, Fields
<1>2. IsFiniteSet({})
  BY FS_EmptySet
<1>3. Small({})
  BY <1>2 DEF Small
<1>4. \A A, x : Small(A) /\ x.derived = {} => Small(A \cup {x})
  BY <1>2, OneMore
<1>5. Small(Skeleton.subjects)
  <2>1. Skeleton.subjects = ((({} \cup {Subject("app", None)}) \cup {Subject("r1", "app")})
                                \cup {Subject("r2", "app")}) \cup {Subject("mw", "app")}
    BY DEF Skeleton, EmptyGraph
  <2>2. \A i, q : Subject(i, q).derived = {}
    BY DEF Subject
  <2>3. Small({} \cup {Subject("app", None)})
    BY <1>3, <1>4, <2>2
  <2>4. Small(({} \cup {Subject("app", None)}) \cup {Subject("r1", "app")})
    BY <1>4, <2>2, <2>3
  <2>5. Small((({} \cup {Subject("app", None)}) \cup {Subject("r1", "app")}) \cup {Subject("r2", "app")})
    BY <1>4, <2>2, <2>4
  <2>6. Small(((({} \cup {Subject("app", None)}) \cup {Subject("r1", "app")}) \cup {Subject("r2", "app")})
                \cup {Subject("mw", "app")})
    BY <1>4, <2>2, <2>5
  <2> QED
    BY <2>1, <2>6
<1>6. Small(Skeleton.scopes)
  <2>1. Skeleton.scopes = (({} \cup {Scope("sApp", "application", "app", None)})
                             \cup {Scope("s1", "route", "r1", "sApp")}) \cup {Scope("s2", "route", "r2", None)}
    BY DEF Skeleton, EmptyGraph
  <2>2. \A i, k, t, q : Scope(i, k, t, q).derived = {}
    BY DEF Scope
  <2>3. Small({} \cup {Scope("sApp", "application", "app", None)})
    BY <1>3, <1>4, <2>2
  <2>4. Small(({} \cup {Scope("sApp", "application", "app", None)})
                \cup {Scope("s1", "route", "r1", "sApp")})
    BY <1>4, <2>2, <2>3
  <2> QED
    BY <1>4, <2>1, <2>2, <2>4
<1>7. Small(Skeleton.facts)
  <2>1. Skeleton.facts = ({} \cup {EndpointFact("e1", "r1")}) \cup {EndpointFact("e2", "r2")}
    BY DEF Skeleton, EmptyGraph
  <2>2. \A i, t : EndpointFact(i, t).derived = {}
    BY DEF EndpointFact
  <2> QED
    BY <1>3, <1>4, <2>1, <2>2
<1>8. /\ Skeleton.relations = {} /\ Skeleton.associations = {} /\ Skeleton.proofs = {}
      /\ Skeleton.unresolved = {} /\ Skeleton.diagnostics = {}
  BY DEF Skeleton, EmptyGraph
<1>9. FiniteGraph(Skeleton)
  BY <1>3, <1>5, <1>6, <1>7, <1>8, FiniteGraphIs
<1> QED
  BY <1>1, <1>9 DEF AssemblyInit, GraphInv

\* What a step changes, and what it leaves alone.
LEMMA StepOf ==
  ASSUME GraphInv, AssemblyNext
  PROVE  /\ DOMAIN graph' = Fields
         /\ \/ \E f : /\ graph'.facts = graph.facts \cup {f} /\ f \notin graph.facts
                      /\ graph'.associations = graph.associations /\ graph'.proofs = graph.proofs
                      /\ graph'.unresolved = graph.unresolved /\ graph'.coverage = graph.coverage
            \/ \E f \in graph.facts : \E a :
                 /\ f.kind = "weak_indicator" /\ a.id = "notice" /\ a.evidence = f.id
                 /\ a.id \notin IdsOf(graph.associations)
                 /\ graph'.facts = graph.facts /\ graph'.associations = graph.associations \cup {a}
                 /\ graph'.proofs = graph.proofs
                 /\ graph'.unresolved = graph.unresolved /\ graph'.coverage = graph.coverage
            \/ /\ graph'.facts = graph.facts
               /\ \A a \in graph'.associations \ graph.associations : a.id # "notice"
               /\ \A p \in graph'.proofs \ graph.proofs : p.kind \in {"auth_enforcement", "public_policy"}
<1>1. ASSUME NEW f \in FactOptions, AddFact(f)
      PROVE  /\ DOMAIN graph' = Fields
             /\ graph'.facts = graph.facts \cup {f} /\ f \notin graph.facts
             /\ graph'.associations = graph.associations /\ graph'.proofs = graph.proofs
             /\ graph'.unresolved = graph.unresolved /\ graph'.coverage = graph.coverage
  BY <1>1 DEF AddFact, GraphInv, Fields, EmptyGraph
<1>2. ASSUME NEW r, Relate(r)
      PROVE  /\ DOMAIN graph' = Fields /\ graph'.facts = graph.facts
             /\ graph'.associations = graph.associations /\ graph'.proofs = graph.proofs
  BY <1>2 DEF Relate, GraphInv, Fields, EmptyGraph
<1>3. ASSUME NEW e, NEW f, NEW s, NEW D, Associate(e, f, s, D)
      PROVE  /\ DOMAIN graph' = Fields /\ graph'.facts = graph.facts
             /\ \A a \in graph'.associations \ graph.associations : a.id = "claim"
             /\ graph'.proofs = graph.proofs
  BY <1>3 DEF Associate, GraphInv, Fields, EmptyGraph
<1>4. ASSUME NEW f \in graph.facts, Notice(f)
      PROVE  /\ DOMAIN graph' = Fields
             /\ \E a : /\ f.kind = "weak_indicator" /\ a.id = "notice" /\ a.evidence = f.id
                       /\ a.id \notin IdsOf(graph.associations)
                       /\ graph'.facts = graph.facts /\ graph'.associations = graph.associations \cup {a}
                       /\ graph'.proofs = graph.proofs
                       /\ graph'.unresolved = graph.unresolved /\ graph'.coverage = graph.coverage
  <2> DEFINE a == [id |-> "notice", endpoint |-> "e1", evidence |-> f.id, scope |-> "s1",
                   derived |-> {"e1", f.id}]
  <2>1. a.id = "notice" /\ a.evidence = f.id
    OBVIOUS
  <2>2. graph' = [graph EXCEPT !.associations = @ \cup {a}] /\ f.kind = "weak_indicator"
    BY <1>4 DEF Notice
  <2>3. "notice" \notin IdsOf(graph.associations)
    BY <1>4 DEF Notice, Remarks, IdsOf
  <2> HIDE DEF a
  <2>4. /\ DOMAIN graph' = Fields
        /\ graph'.facts = graph.facts /\ graph'.associations = graph.associations \cup {a}
        /\ graph'.proofs = graph.proofs
        /\ graph'.unresolved = graph.unresolved /\ graph'.coverage = graph.coverage
    BY <2>2 DEF GraphInv, Fields, EmptyGraph
  <2> QED
    BY <2>1, <2>2, <2>3, <2>4
<1>5. ASSUME NEW kind \in {"auth_enforcement", "public_policy"}, NEW a, NEW facts, NEW R,
             Prove(kind, a, facts, R)
      PROVE  /\ DOMAIN graph' = Fields /\ graph'.facts = graph.facts
             /\ graph'.associations = graph.associations
             /\ \A p \in graph'.proofs : p.kind = kind
  BY <1>5 DEF Prove, GraphInv, Fields, EmptyGraph
<1>6. ASSUME NEW i, NEW D, LeaveUnresolved(i, D)
      PROVE  /\ DOMAIN graph' = Fields /\ graph'.facts = graph.facts
             /\ graph'.associations = graph.associations /\ graph'.proofs = graph.proofs
  BY <1>6 DEF LeaveUnresolved, GraphInv, Fields, EmptyGraph
<1>7. ASSUME NEW c, NEW status, LoseCoverage(c, status)
      PROVE  /\ DOMAIN graph' = Fields /\ graph'.facts = graph.facts
             /\ graph'.associations = graph.associations /\ graph'.proofs = graph.proofs
  BY <1>7 DEF LoseCoverage, GraphInv, Fields, EmptyGraph
<1>14. ASSUME NEW f, Doubt(f)
       PROVE  /\ DOMAIN graph' = Fields /\ graph'.facts = graph.facts
              /\ \A a \in graph'.associations \ graph.associations : a.id = "doubt"
              /\ graph'.proofs = graph.proofs
  BY <1>14 DEF Doubt, GraphInv, Fields, EmptyGraph
<1>8. CASE \E f \in FactOptions : AddFact(f)
  BY <1>1, <1>8
<1>9. CASE \E r \in RelationOptions : Relate(r)
  BY <1>2, <1>9
<1>10. CASE \E f \in graph.facts \ Endpoints(graph), e \in {"e1", "e2"}, s \in ScopeIds :
              \/ Associate(e, f, s, {e, f.id} \cup IdsOf(graph.relations))
              \/ s = "s1" /\ Associate(e, f, s, {f.id} \cup IdsOf(graph.relations))
              \/ e = "e1" /\ s = "s1" /\ (Notice(f) \/ Doubt(f))
  <2>1. CASE \E e, f, s, D : Associate(e, f, s, D)
    BY <1>3, <2>1
  <2>2. CASE \E f \in graph.facts : Notice(f)
    BY <1>4, <2>2
  <2>3. CASE \E f : Doubt(f)
    BY <1>14, <2>3
  <2> QED
    BY <1>10, <2>1, <2>2, <2>3
<1>11. CASE \E a \in graph.associations, kind \in {"auth_enforcement", "public_policy"},
              R \in SUBSET IdsOf(graph.relations) :
              (kind = "public_policy" => R = {}) /\ Prove(kind, a, {a.evidence}, R)
  BY <1>5, <1>11
<1>12. CASE \E i \in {"e1", "r1"} :
              \/ LeaveUnresolved(i, {})
              \/ \E a \in graph.associations : LeaveUnresolved(i, {a.id, a.evidence})
  BY <1>6, <1>12
<1>13. CASE \E c \in Skeleton.coverage :
              c.target = "e1" /\ c.capability = "scope_resolution" /\ LoseCoverage(c, "skipped")
  BY <1>7, <1>13
<1> QED
  BY <1>8, <1>9, <1>10, <1>11, <1>12, <1>13 DEF AssemblyNext

\* The records that are added are derived from finitely many.
LEMMA StepIsFinite ==
  ASSUME GraphInv, AssemblyNext
  PROVE  FiniteGraph(graph')
<1>1. /\ Small(graph.subjects) /\ Small(graph.facts) /\ Small(graph.scopes) /\ Small(graph.relations)
      /\ Small(graph.associations) /\ Small(graph.proofs) /\ Small(graph.unresolved) /\ Small(graph.diagnostics)
  BY FiniteGraphIs DEF GraphInv
<1>2. IsFiniteSet(IdsOf(graph.relations))
  <2> DEFINE f == [r \in graph.relations |-> r.id]
  <2>1. IdsOf(graph.relations) = {f[r] : r \in DOMAIN f}
    BY DEF IdsOf
  <2>2. IsFiniteSet(DOMAIN f)
    BY <1>1 DEF Small
  <2> HIDE DEF f
  <2> QED
    BY <2>1, <2>2, FiniteImage
<1>3. \A A, B : IsFiniteSet(A) /\ IsFiniteSet(B) => IsFiniteSet(A \cup B)
  BY FS_Union
<1>4. \A x, y : IsFiniteSet({x, y})
  BY PairIsFinite
<1>5. ASSUME NEW f \in FactOptions, AddFact(f) PROVE FiniteGraph(graph')
  <2>1. Small(graph.facts \cup {f})
    BY <1>1, OneMore, EvidenceAssemblyAssumption DEF EvidenceAssemblyAssumption
  <2>2. graph' = [graph EXCEPT !.facts = graph.facts \cup {f}]
    BY <1>5 DEF AddFact
  <2> QED
    BY <1>1, <2>1, <2>2, FiniteGraphIs DEF GraphInv, Fields, EmptyGraph
<1>6. ASSUME NEW r \in RelationOptions, Relate(r) PROVE FiniteGraph(graph')
  <2>1. Small(graph.relations \cup {r})
    BY <1>1, OneMore, EvidenceAssemblyAssumption DEF EvidenceAssemblyAssumption
  <2>2. graph' = [graph EXCEPT !.relations = graph.relations \cup {r}]
    BY <1>6 DEF Relate
  <2> QED
    BY <1>1, <2>1, <2>2, FiniteGraphIs DEF GraphInv, Fields, EmptyGraph
<1>7. ASSUME NEW a, IsFiniteSet(a.derived), graph' = [graph EXCEPT !.associations = graph.associations \cup {a}]
      PROVE  FiniteGraph(graph')
  <2>1. Small(graph.associations \cup {a})
    BY <1>1, <1>7, OneMore
  <2> QED
    BY <1>1, <1>7, <2>1, FiniteGraphIs DEF GraphInv, Fields, EmptyGraph
<1>8. ASSUME NEW e, NEW f, NEW s, NEW D, IsFiniteSet(D), Associate(e, f, s, D) PROVE FiniteGraph(graph')
  <2> DEFINE a == [id |-> "claim", endpoint |-> e, evidence |-> f.id, scope |-> s, derived |-> D]
  <2>1. graph' = [graph EXCEPT !.associations = graph.associations \cup {a}] /\ IsFiniteSet(a.derived)
    BY <1>8 DEF Associate
  <2> HIDE DEF a
  <2> QED
    BY <1>7, <2>1
<1>9. ASSUME NEW f, NEW id, NEW a, a = [id |-> id, endpoint |-> "e1", evidence |-> f.id, scope |-> "s1",
                                        derived |-> {"e1", f.id}],
             graph' = [graph EXCEPT !.associations = graph.associations \cup {a}]
      PROVE  FiniteGraph(graph')
  <2>1. IsFiniteSet(a.derived)
    BY <1>4, <1>9
  <2> QED
    BY <1>7, <1>9, <2>1
<1>10. ASSUME NEW kind, NEW a, NEW R \in SUBSET IdsOf(graph.relations), Prove(kind, a, {a.evidence}, R)
       PROVE  FiniteGraph(graph')
  <2> DEFINE p == [id |-> "proof", kind |-> kind, endpoint |-> a.endpoint, facts |-> {a.evidence},
                   associations |-> {a.id}, relations |-> R,
                   derived |-> {a.endpoint, a.id} \cup {a.evidence} \cup R]
  <2>1. graph' = [graph EXCEPT !.proofs = {p}]
    BY <1>10 DEF Prove
  <2>2. IsFiniteSet(R)
    BY <1>2, FS_Subset
  <2>3. IsFiniteSet(p.derived)
    BY <1>3, <1>4, <2>2, FS_Singleton
  <2> HIDE DEF p
  <2>4. Small({p})
    BY <2>3, OnlyOne
  <2> QED
    BY <1>1, <2>1, <2>4, FiniteGraphIs DEF GraphInv, Fields, EmptyGraph
<1>11. ASSUME NEW i, NEW D, IsFiniteSet(D), LeaveUnresolved(i, D) PROVE FiniteGraph(graph')
  <2> DEFINE u == [id |-> "open", subject |-> i, derived |-> D]
  <2>1. graph' = [graph EXCEPT !.unresolved = {u}] /\ IsFiniteSet(u.derived)
    BY <1>11 DEF LeaveUnresolved
  <2> HIDE DEF u
  <2>2. Small({u})
    BY <2>1, OnlyOne
  <2> QED
    BY <1>1, <2>1, <2>2, FiniteGraphIs DEF GraphInv, Fields, EmptyGraph
<1>12. ASSUME NEW c, NEW status, LoseCoverage(c, status) PROVE FiniteGraph(graph')
  <2>1. PICK X : graph' = [graph EXCEPT !.coverage = X]
    BY <1>12 DEF LoseCoverage
  <2> QED
    BY <1>1, <2>1, FiniteGraphIs DEF GraphInv, Fields, EmptyGraph
<1>13. IsFiniteSet({})
  BY FS_EmptySet
<1>14. ASSUME NEW f, NEW e, NEW s,
              \/ Associate(e, f, s, {e, f.id} \cup IdsOf(graph.relations))
              \/ Associate(e, f, s, {f.id} \cup IdsOf(graph.relations))
              \/ Notice(f) \/ Doubt(f)
       PROVE  FiniteGraph(graph')
  <2>1. IsFiniteSet({e, f.id} \cup IdsOf(graph.relations)) /\ IsFiniteSet({f.id} \cup IdsOf(graph.relations))
    BY <1>2, <1>3, <1>4, FS_Singleton
  <2>2. CASE Notice(f) \/ Doubt(f)
    BY <1>9, <2>2 DEF Notice, Doubt
  <2> QED
    BY <1>8, <1>14, <2>1, <2>2
<1> QED
  BY <1>4, <1>5, <1>6, <1>10, <1>11, <1>12, <1>13, <1>14 DEF AssemblyNext

LEMMA NextInv == GraphInv /\ [AssemblyNext]_graph => GraphInv'
<1> SUFFICES ASSUME GraphInv, [AssemblyNext]_graph PROVE GraphInv'
  OBVIOUS
<1>1. CASE AssemblyNext
  BY <1>1, StepOf, StepIsFinite DEF GraphInv
<1>2. CASE UNCHANGED graph
  BY <1>2 DEF GraphInv
<1> QED
  BY <1>1, <1>2

\* The inductive invariant: whatever an adapter adds, the graph stays finite, so
\* that the validator's searches end, and every proof is one of enforcement or
\* of public access.
THEOREM Invariance == AssemblySpec => []GraphInv
BY InitInv, NextInv, PTL DEF AssemblySpec

\* An ambiguity about an endpoint leaves it UNRESOLVED in every valid graph.
THEOREM AmbiguityAlwaysDecides == AssemblySpec => []AmbiguityIsNeverOutvoted
<1>1. AmbiguityIsNeverOutvoted
  BY AmbiguityDecides DEF AmbiguityIsNeverOutvoted
<1> QED
  BY <1>1, PTL

\* A step that adds a weak signal changes no verdict.
LEMMA WeakStepIsInert ==
  ASSUME GraphInv, AssemblyNext, Valid(graph), Valid(graph'),
         \/ \E f \in graph'.facts \ graph.facts : f.kind = "weak_indicator"
         \/ \E a \in graph'.associations \ graph.associations : a.id = "notice",
         NEW e
  PROVE  Verdict(graph', e) = Verdict(graph, e)
<1>1. ASSUME NEW f, f \notin graph.facts, graph'.facts = graph.facts \cup {f},
             graph'.associations = graph.associations, graph'.proofs = graph.proofs,
             graph'.unresolved = graph.unresolved, graph'.coverage = graph.coverage
      PROVE  Verdict(graph', e) = Verdict(graph, e)
  <2>1. f.kind = "weak_indicator"
    BY <1>1
  <2> QED
    BY <1>1, <2>1, WeakFactIsInert DEF GraphInv
<1>2. ASSUME NEW f \in graph.facts, NEW a, f.kind = "weak_indicator", a.evidence = f.id,
             a.id \notin IdsOf(graph.associations),
             graph'.facts = graph.facts, graph'.associations = graph.associations \cup {a},
             graph'.proofs = graph.proofs,
             graph'.unresolved = graph.unresolved, graph'.coverage = graph.coverage
      PROVE  Verdict(graph', e) = Verdict(graph, e)
  BY <1>2, WeakAssociationIsInert DEF Valid
<1> QED
  BY <1>1, <1>2, StepOf

\* A weak signal, however associated, never changes a verdict.
THEOREM WeakSignalsAlwaysInert == AssemblySpec => WeakSignalsAreInert
<1>1. ASSUME GraphInv, [AssemblyNext]_graph
      PROVE  [Valid(graph) /\ Valid(graph')
                /\ \/ \E f \in graph'.facts \ graph.facts : f.kind = "weak_indicator"
                   \/ \E a \in graph'.associations \ graph.associations : a.id = "notice"
              => \A e \in Endpoints(graph) : Verdict(graph', e) = Verdict(graph, e)]_graph
  BY <1>1, WeakStepIsInert
<1> QED
  BY <1>1, Invariance, PTL DEF AssemblySpec, WeakSignalsAreInert

\* GUARDED means what the evidence contract says, in every valid graph an adapter
\* may put together.
THEOREM GuardedAlwaysMeetsContract == AssemblySpec => []GuardedMeetsContract
<1>1. GraphInv => GuardedMeetsContract
  BY GuardedNeeds, GuardedIsReached DEF GraphInv, GuardedMeetsContract
<1> QED
  BY <1>1, Invariance, PTL

\* A GUARDED verdict never goes back to an advisory fact.
THEOREM GuardNeverRestsOnAdvisory == AssemblySpec => []GuardRestsOnNoAdvisory
<1>1. GraphInv => GuardRestsOnNoAdvisory
  BY NoAdvisoryBehindAGuard DEF GraphInv, GuardRestsOnNoAdvisory
<1> QED
  BY <1>1, Invariance, PTL

-----------------------------------------------------------------------------
(* The graphs the Express adapter builds.  What the core requires of a     *)
(* graph holds of BuildGraph(src) for every program src whose calls the    *)
(* identifiers tell apart, however many files and statements it has: the   *)
(* records by what they are of, one identifier per record, every reference *)
(* to a record, and the derivations, which go down from proofs to claims   *)
(* to endpoints to relations.                                              *)

\* The body of MountPath's recursion.
Climbed(climb, table, c) ==
  LET entries == {m \in table : m.child = c[1]}
      m       == CHOOSE x \in entries : TRUE
      outer   == climb[<<m.parent, c[2] \cup {c[1]}>>]
  IN  IF c[1] \in c[2] THEN [prefix |-> <<>>, relations |-> {}, ambiguous |-> TRUE]
      ELSE IF entries = {} THEN [prefix |-> <<>>, relations |-> {}, ambiguous |-> FALSE]
      ELSE IF Cardinality(entries) > 1
      THEN [prefix |-> <<>>, relations |-> {x.relation : x \in entries}, ambiguous |-> TRUE]
      ELSE [prefix |-> outer.prefix \o m.prefix,
            relations |-> outer.relations \cup {m.relation},
            ambiguous |-> outer.ambiguous]

\* What the climb looks up is where it goes next: the receiver it is at is then seen.
Onward(c, receivers) ==
  {n \in receivers \X SUBSET receivers : c[1] \notin c[2] /\ n[2] = c[2] \cup {c[1]}}

\* One step of the climb depends on what the climb finds further up only, and adds no
\* relation that is not of the table.
LEMMA ClimbedIs ==
  ASSUME NEW climb, NEW other, NEW table, NEW receivers, \A m \in table : m.parent \in receivers,
         NEW c \in receivers \X SUBSET receivers
  PROVE  /\ (\A n \in Onward(c, receivers) : other[n] = climb[n])
              => Climbed(other, table, c) = Climbed(climb, table, c)
         /\ (\A n \in Onward(c, receivers) : climb[n].relations \subseteq {m.relation : m \in table})
              => Climbed(climb, table, c).relations \subseteq {m.relation : m \in table}
<1> DEFINE entries == {m \in table : m.child = c[1]}
           m       == CHOOSE x \in entries : TRUE
           n       == <<m.parent, c[2] \cup {c[1]}>>
<1>1. c[1] \in receivers /\ c[2] \in SUBSET receivers
  OBVIOUS
<1>2. ASSUME entries # {}, c[1] \notin c[2] PROVE m \in table /\ n \in Onward(c, receivers)
  <2>1. m \in entries
    BY <1>2
  <2> QED
    BY <1>1, <1>2, <2>1 DEF Onward
<1>3. CASE c[1] \in c[2]
  BY <1>3 DEF Climbed
<1>4. CASE c[1] \notin c[2] /\ entries = {}
  BY <1>4 DEF Climbed
<1>5. CASE c[1] \notin c[2] /\ entries # {} /\ Cardinality(entries) > 1
  BY <1>5 DEF Climbed
<1>6. CASE c[1] \notin c[2] /\ entries # {} /\ ~(Cardinality(entries) > 1)
  <2>1. \A f : Climbed(f, table, c) = [prefix |-> f[n].prefix \o m.prefix,
                                       relations |-> f[n].relations \cup {m.relation},
                                       ambiguous |-> f[n].ambiguous]
    BY <1>6 DEF Climbed
  <2>2. m \in table /\ n \in Onward(c, receivers)
    BY <1>2, <1>6
  <2> HIDE DEF m, n
  <2>3. ASSUME \A k \in Onward(c, receivers) : other[k] = climb[k]
        PROVE  Climbed(other, table, c) = Climbed(climb, table, c)
    <3>1. other[n] = climb[n]
      BY <2>2, <2>3
    <3> QED
      BY <2>1, <3>1
  <2>4. ASSUME climb[n].relations \subseteq {x.relation : x \in table}
        PROVE  Climbed(climb, table, c).relations \subseteq {x.relation : x \in table}
    <3>1. PICK prefix : Climbed(climb, table, c) = [prefix |-> prefix,
                          relations |-> climb[n].relations \cup {m.relation}, ambiguous |-> climb[n].ambiguous]
      BY <2>1, Zenon
    <3>2. Climbed(climb, table, c).relations = climb[n].relations \cup {m.relation}
      BY <3>1
    <3> QED
      BY <2>2, <2>4, <3>2
  <2> QED
    BY <1>6, <2>2, <2>3, <2>4
<1> QED
  BY <1>3, <1>4, <1>5, <1>6

\* The first half of it alone, as an equality.
LEMMA ClimbedAlike ==
  ASSUME NEW climb, NEW other, NEW table, NEW receivers, \A m \in table : m.parent \in receivers,
         NEW c \in receivers \X SUBSET receivers, \A n \in Onward(c, receivers) : other[n] = climb[n]
  PROVE  Climbed(other, table, c) = Climbed(climb, table, c)
BY ClimbedIs

\* MountPath is what its recursion says, over a finite table: each step up adds a
\* receiver to those seen, and no relation is found that is not of the table.
LEMMA MountPathIs ==
  ASSUME NEW recv, NEW table, IsFiniteSet(table)
  PROVE  MountPath(recv, table).relations \subseteq {m.relation : m \in table}
<1> DEFINE receivers == {recv} \cup {m.parent : m \in table}
           D == receivers \X SUBSET receivers
           Level(k) == {c \in D : Cardinality(receivers \ c[2]) <= k}
           Is(g, S) == g = [c \in S |-> Climbed(g, table, c)]
           P == {k \in Nat : \E g : Is(g, Level(k))}
           relations == {m.relation : m \in table}
           Climb == CHOOSE g : Is(g, D)
<1>1. IsFiniteSet(receivers) /\ \A m \in table : m.parent \in receivers
  <2> DEFINE parent == [m \in table |-> m.parent]
  <2>1. IsFiniteSet({parent[m] : m \in DOMAIN parent})
    BY FiniteImage
  <2>2. {m.parent : m \in table} = {parent[m] : m \in DOMAIN parent}
    OBVIOUS
  <2> QED
    BY <2>1, <2>2, FS_AddElement, FS_Union, FS_Singleton
<1> HIDE DEF receivers
<1>0. ASSUME NEW g, NEW h, NEW c \in D, \A n \in Onward(c, receivers) : h[n] = g[n]
      PROVE  Climbed(h, table, c) = Climbed(g, table, c)
  BY <1>0, <1>1, ClimbedAlike
<1>2. ASSUME NEW c \in D PROVE IsFiniteSet(receivers \ c[2]) /\ Cardinality(receivers \ c[2]) \in Nat
  BY <1>1, FS_Subset, FS_CardinalityType
<1>3. ASSUME NEW k \in Nat, NEW c \in Level(k + 1), NEW n \in Onward(c, receivers)
      PROVE  n \in Level(k)
  <2>1. n \in D /\ c \in D /\ c[1] \in receivers \ c[2] /\ receivers \ n[2] = (receivers \ c[2]) \ {c[1]}
    BY DEF Onward
  <2>2. Cardinality(receivers \ n[2]) = Cardinality(receivers \ c[2]) - 1
    <3>1. IsFiniteSet(receivers \ c[2])
      BY <1>2, <2>1
    <3>2. Cardinality((receivers \ c[2]) \ {c[1]}) = Cardinality(receivers \ c[2]) - 1
      BY <2>1, <3>1, FS_RemoveElement
    <3> QED
      BY <2>1, <3>2
  <2>3. Cardinality(receivers \ c[2]) <= k + 1 /\ Cardinality(receivers \ c[2]) \in Nat
    BY <1>2, <2>1
  <2> HIDE DEF D
  <2> QED
    BY <2>1, <2>2, <2>3
<1>4. ASSUME NEW c \in Level(0) PROVE c \in D /\ c[1] \in c[2] /\ Onward(c, receivers) = {}
  <2>1. c \in D /\ Cardinality(receivers \ c[2]) = 0
    BY <1>2
  <2>2. receivers \ c[2] = {}
    BY <1>2, <2>1, FS_EmptySet
  <2> QED
    BY <2>1, <2>2 DEF Onward
<1>5. 0 \in P
  <2> DEFINE g == [c \in Level(0) |-> Climbed(recv, table, c)]
  <2>1. \A c \in Level(0) : Climbed(recv, table, c) = Climbed(g, table, c)
    BY <1>4 DEF Climbed
  <2>2. Is(g, Level(0))
    <3> HIDE DEF Level
    <3> QED
      BY <2>1
  <2> QED
    BY <2>2
<1>6. ASSUME NEW k \in P PROVE k + 1 \in P
  <2>1. PICK g : Is(g, Level(k))
    OBVIOUS
  <2>2. PICK h : h = [c \in Level(k + 1) |-> IF c \in Level(k) THEN g[c] ELSE Climbed(g, table, c)]
    OBVIOUS
  <2>3. k \in Nat /\ Level(k + 1) \subseteq D
    OBVIOUS
  <2>4. ASSUME NEW c \in Level(k) PROVE c \in Level(k + 1)
    <3>1. c \in D /\ Cardinality(receivers \ c[2]) <= k /\ Cardinality(receivers \ c[2]) \in Nat
      BY <1>2
    <3> QED
      BY <2>3, <3>1
  <2>5. ASSUME NEW c \in Level(k + 1) PROVE h[c] = Climbed(h, table, c)
    <3>1. h[c] = Climbed(g, table, c)
      <4> HIDE DEF Level
      <4> QED
        BY <2>1, <2>2
    <3>2. ASSUME NEW n \in Onward(c, receivers) PROVE h[n] = g[n]
      <4>1. n \in Level(k)
        BY <1>3, <2>3
      <4> HIDE DEF Level
      <4> QED
        BY <2>2, <2>4, <4>1
    <3>3. c \in D
      BY <2>3
    <3>4. Climbed(h, table, c) = Climbed(g, table, c)
      BY <1>0, <3>2, <3>3, Zenon
    <3> QED
      BY <3>1, <3>4
  <2>6. Is(h, Level(k + 1))
    <3> HIDE DEF Level
    <3> QED
      BY <2>2, <2>5
  <2>7. k + 1 \in Nat
    BY <2>3
  <2> HIDE DEF Is, Level
  <2> QED
    BY <2>6, <2>7, Zenon
<1>7. P = Nat
  <2>1. P \in SUBSET Nat
    OBVIOUS
  <2> HIDE DEF P
  <2> QED
    BY <1>5, <1>6, <2>1, SetInduction
<1>8. PICK K \in Nat : Level(K) = D
  <2>1. Cardinality(receivers) \in Nat
    BY <1>1, FS_CardinalityType
  <2>2. ASSUME NEW c \in D PROVE Cardinality(receivers \ c[2]) <= Cardinality(receivers)
    BY <1>1, FS_Subset
  <2>3. Level(Cardinality(receivers)) = D
    BY <2>2
  <2> QED
    BY <2>1, <2>3
<1>9. Is(Climb, D)
  <2>1. \E g : Is(g, D)
    BY <1>7, <1>8
  <2> HIDE DEF Is
  <2> QED
    BY <2>1
<1>10. MountPath(recv, table) = Climb[<<recv, {}>>]
  BY DEF MountPath, Climbed, receivers
<1> HIDE DEF Climb
<1>11. \A c \in D : Climb[c] = Climbed(Climb, table, c)
  BY <1>9
<1> DEFINE Q == {k \in Nat : \A c \in Level(k) : Climb[c].relations \subseteq relations}
<1>12. ASSUME NEW c \in D, \A n \in Onward(c, receivers) : Climb[n].relations \subseteq relations
       PROVE  Climb[c].relations \subseteq relations
  BY <1>1, <1>11, <1>12, ClimbedIs
<1>13. 0 \in Q
  <2> HIDE DEF Level, relations, D
  <2> QED
    BY <1>4, <1>12
<1>14. ASSUME NEW k \in Q PROVE k + 1 \in Q
  <2>1. \A c \in Level(k + 1) : c \in D /\ \A n \in Onward(c, receivers) : n \in Level(k)
    BY <1>3
  <2> HIDE DEF Level, relations, D
  <2> QED
    BY <1>12, <2>1
<1>15. Q = Nat
  <2>1. Q \in SUBSET Nat
    OBVIOUS
  <2> HIDE DEF Q
  <2> QED
    BY <1>13, <1>14, <2>1, SetInduction
<1>16. <<recv, {}>> \in D
  BY DEF receivers
<1> QED
  BY <1>8, <1>10, <1>15, <1>16

\* A program whose statements are well formed and whose calls identifiers tell apart.
IsProgram(src) ==
  /\ DOMAIN src = File
  /\ \A f \in File : InARow(src[f])
  /\ \A s \in Positions(src) : WellFormed(At(src, s)) /\ CallsAreDistinct(At(src, s))

\* A row is a finite sequence.
LEMMA RowIs ==
  ASSUME NEW s, InARow(s)
  PROVE  Len(s) \in Nat /\ DOMAIN s = 1 .. Len(s) /\ IsFiniteSet(DOMAIN s) /\ DOMAIN s \subseteq Nat
<1>1. Len(s) \in Nat /\ DOMAIN s = 1 .. Len(s)
  BY DEF InARow
<1> QED
  BY <1>1, FS_Interval

\* A position is a file and the place of a statement in it.
LEMMA PositionIs ==
  ASSUME NEW src, IsProgram(src), NEW s \in Positions(src)
  PROVE  s[1] \in File /\ s[2] \in DOMAIN src[s[1]] /\ s[2] \in Nat /\ s = <<s[1], s[2]>>
<1>1. PICK f \in File : \E i \in DOMAIN src[f] : s = <<f, i>>
  BY DEF Positions
<1>2. DOMAIN src[f] \subseteq Nat
  BY RowIs DEF IsProgram
<1> QED
  BY <1>1, <1>2

\* A program has finitely many statements.
LEMMA FinitePositions ==
  ASSUME NEW src, IsProgram(src)
  PROVE  IsFiniteSet(Positions(src))
<1> DEFINE row == [f \in File |-> {<<f, i>> : i \in DOMAIN src[f]}]
<1>1. ASSUME NEW f \in File PROVE IsFiniteSet(row[f])
  <2> DEFINE at == [i \in DOMAIN src[f] |-> <<f, i>>]
  <2>1. IsFiniteSet({at[i] : i \in DOMAIN at})
    BY RowIs, FiniteImage DEF IsProgram
  <2>2. row[f] = {at[i] : i \in DOMAIN at}
    OBVIOUS
  <2> QED
    BY <2>1, <2>2
<1>2. IsFiniteSet({row[f] : f \in DOMAIN row})
  BY ExpressScanAssumption, FiniteImage DEF ExpressScanAssumption
<1>3. Positions(src) = UNION {row[f] : f \in DOMAIN row}
  BY DEF Positions
<1>4. \A T \in {row[f] : f \in DOMAIN row} : IsFiniteSet(T)
  BY <1>1
<1> QED
  BY <1>2, <1>3, <1>4, FS_UNION

\* The latest of some positions in one file is one of them, and no other is later.
LEMMA LatestIs ==
  ASSUME NEW src, IsProgram(src), NEW S \in SUBSET Positions(src), S # {},
         \A s, t \in S : s[1] = t[1]
  PROVE  Latest(S) \in S /\ \A t \in S : t[2] <= Latest(S)[2]
<1>1. \A s \in S : s[1] \in File /\ s[2] \in DOMAIN src[s[1]] /\ s[2] \in Nat
  BY PositionIs
<1>2. PICK f \in File : \A s \in S : s[1] = f
  BY <1>1
<1>3. PICK N \in Nat : DOMAIN src[f] = 1 .. N
  BY RowIs DEF IsProgram
<1> DEFINE M == {n \in Nat : \E s \in S : n = N - s[2]}
<1>4. M \in SUBSET Nat /\ M # {}
  <2>1. PICK s \in S : TRUE
    OBVIOUS
  <2>2. N - s[2] \in Nat
    BY <1>1, <1>2, <1>3
  <2> QED
    BY <2>1, <2>2
<1>5. PICK n \in M : \A k \in M : n <= k
  <2> HIDE DEF M
  <2> QED
    BY <1>4, LeastNumber
<1>6. PICK s \in S : n = N - s[2]
  BY <1>5
<1>7. ASSUME NEW t \in S PROVE t[2] <= s[2]
  <2>1. s[2] \in Nat /\ t[2] \in Nat /\ t[2] <= N
    BY <1>1, <1>2, <1>3
  <2>2. N - t[2] \in M
    BY <2>1
  <2>3. n <= N - t[2] /\ n = N - s[2]
    BY <1>5, <1>6, <2>2
  <2> QED
    BY <2>1, <2>3
<1> QED
  BY <1>6, <1>7 DEF Latest

\* Declarations are positions, and those kept are among all that are.
LEMMA DeclarationsAre ==
  ASSUME NEW src, IsProgram(src), NEW f, NEW n
  PROVE  /\ Declarations(src, f, n) \in SUBSET Positions(src) /\ Kept(src, f, n) \in SUBSET AllKept(src)
         /\ IsFiniteSet(Declarations(src, f, n))
<1>1. Declarations(src, f, n) \in SUBSET Positions(src)
  BY DEF Declarations
<1>2. Kept(src, f, n) \in SUBSET AllKept(src)
  BY DEF Kept, AllKept, Declarations
<1> QED
  BY <1>1, <1>2, FinitePositions, FS_Subset

\* The receivers a program uses leave a subject and a scope behind.
LEMMA ReceiverIsKept ==
  ASSUME NEW src, IsProgram(src), NEW f, NEW n
  PROVE  /\ Receiver(src, f, n) # None => Receiver(src, f, n) \in AllKept(src)
         /\ Exported(src, f, n) # None => Exported(src, f, n) \in AllKept(src)
<1> DEFINE D == Declarations(src, f, n)
<1>1. D \in SUBSET Positions(src) /\ Kept(src, f, n) \in SUBSET AllKept(src) /\ IsFiniteSet(D)
  BY DeclarationsAre
<1>2. Kept(src, f, n) \subseteq D /\ \A s \in D : s[1] = f
  BY DEF Kept, Declarations
<1>3. ASSUME Receiver(src, f, n) # None PROVE Receiver(src, f, n) \in AllKept(src)
  <2>1. Cardinality(D) % 2 = 1 /\ Receiver(src, f, n) = Latest(D)
    BY <1>3 DEF Receiver
  <2>2. D # {}
    BY <2>1, FS_EmptySet
  <2>3. Latest(D) \in D /\ \A t \in D : t[2] <= Latest(D)[2]
    <3> HIDE DEF D
    <3> QED
      BY <1>1, <1>2, <2>2, LatestIs
  <2>4. {t \in D : t[2] <= Latest(D)[2]} = D
    BY <2>3
  <2>5. Latest(D) \in Kept(src, f, n)
    BY <2>1, <2>3, <2>4 DEF Kept
  <2> QED
    BY <1>1, <2>1, <2>5
<1>4. ASSUME Exported(src, f, n) # None PROVE Exported(src, f, n) \in AllKept(src)
  <2>1. Kept(src, f, n) # {} /\ Exported(src, f, n) = Latest(Kept(src, f, n))
    BY <1>4 DEF Exported
  <2>2. Kept(src, f, n) \in SUBSET Positions(src)
    BY <1>1, <1>2
  <2>3. Latest(Kept(src, f, n)) \in Kept(src, f, n)
    BY <1>2, <2>1, <2>2, LatestIs
  <2> QED
    BY <1>1, <2>1, <2>3
<1> QED
  BY <1>3, <1>4

\* Identifiers are equal only part by part.
LEMMA IdIs ==
  ASSUME NEW k, NEW s, NEW m, NEW j, NEW l
  PROVE  /\ Id(k, s, m, j, l)[1] = k /\ Id(k, s, m, j, l)[2] = s[1] /\ Id(k, s, m, j, l)[3] = s[2]
         /\ Id(k, s, m, j, l)[4] = m /\ Id(k, s, m, j, l)[5] = j /\ Id(k, s, m, j, l)[6] = l
BY DEF Id

\* A route is a call of a route statement, on a receiver that is kept.
LEMMA RouteIs ==
  ASSUME NEW src, IsProgram(src), NEW r \in Routes(src)
  PROVE  /\ r = <<r[1], r[2], r[3]>> /\ <<r[1], r[2]>> \in Positions(src)
         /\ At(src, r).op = "route" /\ At(src, r) = At(src, <<r[1], r[2]>>)
         /\ r[3] \in DOMAIN At(src, r).calls /\ r[3] \in Nat
         /\ DOMAIN HandlersOf(src, r) \subseteq Nat /\ IsFiniteSet(DOMAIN HandlersOf(src, r))
         /\ RecvOf(src, r) \in AllKept(src)
<1>1. PICK s \in Positions(src) :
        /\ At(src, s).op = "route" /\ Receiver(src, s[1], At(src, s).recv) # None
        /\ \E k \in DOMAIN At(src, s).calls : r = <<s[1], s[2], k>>
  BY DEF Routes
<1>2. PICK k \in DOMAIN At(src, s).calls : r = <<s[1], s[2], k>>
  BY <1>1
<1>3. s = <<s[1], s[2]>> /\ s[1] \in File
  BY PositionIs
<1>4. r[1] = s[1] /\ r[2] = s[2] /\ r[3] = k /\ r = <<r[1], r[2], r[3]>>
  BY <1>2
<1>5. At(src, r) = At(src, s) /\ <<r[1], r[2]>> = s
  BY <1>3, <1>4 DEF At
<1>6. /\ InARow(At(src, s).calls)
      /\ \A i \in DOMAIN At(src, s).calls : InARow(At(src, s).calls[i].handlers)
  BY <1>1 DEF IsProgram, WellFormed
<1>7. k \in Nat
  BY <1>6, RowIs
<1>8. HandlersOf(src, r) = At(src, s).calls[k].handlers
  BY <1>4, <1>5 DEF HandlersOf, CallOf
<1>9. DOMAIN HandlersOf(src, r) \subseteq Nat /\ IsFiniteSet(DOMAIN HandlersOf(src, r))
  BY <1>6, <1>8, RowIs
<1>10. RecvOf(src, r) \in AllKept(src)
  BY <1>1, <1>3, <1>4, <1>5, ReceiverIsKept DEF RecvOf
<1> QED
  BY <1>1, <1>4, <1>5, <1>7, <1>9, <1>10

\* A position and a method tell routes apart, and a public route is alone at its position.
LEMMA SameRoute ==
  ASSUME NEW src, IsProgram(src), NEW r \in Routes(src), NEW q \in Routes(src),
         r[1] = q[1], r[2] = q[2], MethodOf(src, r) = MethodOf(src, q) \/ At(src, r).public
  PROVE  r = q
<1>1. /\ r = <<r[1], r[2], r[3]>> /\ q = <<q[1], q[2], q[3]>> /\ <<r[1], r[2]>> \in Positions(src)
      /\ At(src, r).op = "route" /\ At(src, r) = At(src, <<r[1], r[2]>>) /\ At(src, q) = At(src, r)
      /\ r[3] \in DOMAIN At(src, r).calls /\ q[3] \in DOMAIN At(src, r).calls
  BY RouteIs DEF At
<1>2. CallsAreDistinct(At(src, r))
  BY <1>1 DEF IsProgram
<1>3. MethodOf(src, r) = At(src, r).calls[r[3]].method /\ MethodOf(src, q) = At(src, r).calls[q[3]].method
  BY <1>1 DEF MethodOf, CallOf
<1>4. r[3] = q[3]
  BY <1>1, <1>2, <1>3 DEF CallsAreDistinct
<1> QED
  BY <1>1, <1>4

\* The arithmetic of a handler's place: call number times ten, plus its place in the call.
LEMMA SameSum == ASSUME NEW a \in Nat, NEW i \in Nat, NEW j \in Nat, a * 10 + i = a * 10 + j PROVE i = j
OBVIOUS

\* Each identifier of a route belongs to one route, and each of its handlers to one.
LEMMA OneRoute ==
  ASSUME NEW src, IsProgram(src), NEW r \in Routes(src), NEW q \in Routes(src)
  PROVE  /\ RouteSubject(src, r) = RouteSubject(src, q) => r = q
         /\ RouteScope(src, r) = RouteScope(src, q) => r = q
         /\ EndpointId(src, r) = EndpointId(src, q) => r = q
         /\ \A l : Id("relation", r, MethodOf(src, r), 0, l) = Id("relation", q, MethodOf(src, q), 0, l) => r = q
BY IdIs, SameRoute DEF RouteSubject, RouteScope, EndpointId

\* Each identifier of a handler belongs to one handler (position, method, call * 10 + place).
LEMMA OneHandler ==
  ASSUME NEW src, IsProgram(src), NEW g \in RoutesAndHandlers(src), NEW h \in RoutesAndHandlers(src)
  PROVE  /\ g = <<g[1], g[2]>> /\ g[1] \in Routes(src) /\ g[2] \in DOMAIN HandlersOf(src, g[1])
         /\ HandlerSubject(src, g[1], g[2]) = HandlerSubject(src, h[1], h[2]) => g = h
         /\ HandlerRelation(src, g[1], g[2]) = HandlerRelation(src, h[1], h[2]) => g = h
<1>1. \A x \in RoutesAndHandlers(src) :
        /\ x = <<x[1], x[2]>> /\ x[1] \in Routes(src) /\ x[2] \in DOMAIN HandlersOf(src, x[1])
        /\ x[2] \in Nat /\ x[1][3] \in Nat
  <2>1. \A r \in Routes(src) : DOMAIN HandlersOf(src, r) \subseteq Nat /\ r[3] \in Nat
    BY RouteIs
  <2> QED
    BY <2>1 DEF RoutesAndHandlers
<1>2. ASSUME g[1] = h[1], g[1][3] * 10 + g[2] = h[1][3] * 10 + h[2] PROVE g = h
  <2>1. g[2] = h[2]
    BY <1>1, <1>2, SameSum
  <2> QED
    BY <1>1, <1>2, <2>1
<1>3. ASSUME HandlerSubject(src, g[1], g[2]) = HandlerSubject(src, h[1], h[2])
             \/ HandlerRelation(src, g[1], g[2]) = HandlerRelation(src, h[1], h[2])
      PROVE  g = h
  <2>1. /\ g[1][1] = h[1][1] /\ g[1][2] = h[1][2] /\ MethodOf(src, g[1]) = MethodOf(src, h[1])
        /\ g[1][3] * 10 + g[2] = h[1][3] * 10 + h[2]
    BY <1>3, IdIs DEF HandlerSubject, HandlerRelation
  <2>2. g[1] = h[1]
    BY <1>1, <2>1, SameRoute
  <2> QED
    BY <1>2, <2>1, <2>2
<1> QED
  BY <1>1, <1>3

\* What a mount statement puts in its table.
EntryOf(src, s) ==
  IF At(src, s).file = None
  THEN [child |-> Receiver(src, s[1], At(src, s).child), parent |-> Receiver(src, s[1], At(src, s).recv),
        prefix |-> At(src, s).prefix, relation |-> MountRelation(s)]
  ELSE [child |-> Exported(src, At(src, s).file, Export[At(src, s).file]),
        parent |-> Exported(src, s[1], At(src, s).recv),
        prefix |-> At(src, s).prefix, relation |-> MountRelation(s)]

\* The entries of the two tables are one per mount, between receivers that are kept.
LEMMA MountIs ==
  ASSUME NEW src, IsProgram(src), NEW m \in LocalTable(src) \cup ExternalTable(src)
  PROVE  \E s \in Positions(src) :
           /\ At(src, s).op = "mount" /\ m = EntryOf(src, s) /\ m.relation = MountRelation(s)
           /\ m.parent \in AllKept(src) /\ m.child \in AllKept(src)
<1>1. CASE m \in LocalTable(src)
  <2>1. PICK s \in LocalMounts(src) :
          m = [child |-> Receiver(src, s[1], At(src, s).child), parent |-> Receiver(src, s[1], At(src, s).recv),
               prefix |-> At(src, s).prefix, relation |-> MountRelation(s)]
    BY <1>1 DEF LocalTable
  <2>2. /\ s \in Positions(src) /\ At(src, s).op = "mount" /\ At(src, s).file = None
        /\ Receiver(src, s[1], At(src, s).recv) # None /\ Receiver(src, s[1], At(src, s).child) # None
    BY DEF LocalMounts
  <2> QED
    BY <2>1, <2>2, ReceiverIsKept DEF EntryOf
<1>2. CASE m \in ExternalTable(src)
  <2>1. PICK s \in ExternalMounts(src) :
          m = [child |-> Exported(src, At(src, s).file, Export[At(src, s).file]),
               parent |-> Exported(src, s[1], At(src, s).recv),
               prefix |-> At(src, s).prefix, relation |-> MountRelation(s)]
    BY <1>2 DEF ExternalTable
  <2>2. /\ s \in Positions(src) /\ At(src, s).op = "mount" /\ At(src, s).file # None
        /\ Exported(src, s[1], At(src, s).recv) # None
        /\ Exported(src, At(src, s).file, Export[At(src, s).file]) # None
    BY DEF ExternalMounts
  <2> QED
    BY <2>1, <2>2, ReceiverIsKept DEF EntryOf
<1> QED
  BY <1>1, <1>2

\* What is kept is declared.
LEMMA KeptIs ==
  ASSUME NEW src, IsProgram(src), NEW s \in AllKept(src)
  PROVE  s \in Positions(src) /\ At(src, s).op = "router"
BY DEF AllKept

\* A use that counts is on a receiver that is kept.
LEMMA UseIs ==
  ASSUME NEW src, IsProgram(src), NEW s \in Uses(src)
  PROVE  /\ s \in Positions(src) /\ At(src, s).op = "use"
         /\ Receiver(src, s[1], At(src, s).recv) \in AllKept(src)
BY ReceiverIsKept DEF Uses

\* A mount's middleware is an argument of a mount whose child is kept.
LEMMA MountMiddlewareIs ==
  ASSUME NEW src, IsProgram(src), NEW m \in MountMiddlewares(src)
  PROVE  /\ m = <<m[1], m[2], m[3]>> /\ <<m[1], m[2]>> \in Positions(src)
         /\ m[3] \in DOMAIN At(src, <<m[1], m[2]>>).mws /\ <<m[1], m[2]>> \in ExternalMounts(src)
         /\ At(src, m) = At(src, <<m[1], m[2]>>) /\ MountChild(src, m) \in AllKept(src)
<1>1. PICK s \in ExternalMounts(src) : \E j \in DOMAIN At(src, s).mws : m = <<s[1], s[2], j>>
  BY DEF MountMiddlewares
<1>2. s \in Positions(src) /\ Exported(src, At(src, s).file, Export[At(src, s).file]) # None
  BY DEF ExternalMounts
<1>3. s = <<s[1], s[2]>>
  BY <1>2, PositionIs
<1>4. m[1] = s[1] /\ m[2] = s[2] /\ m = <<m[1], m[2], m[3]>> /\ m[3] \in DOMAIN At(src, s).mws
  BY <1>1
<1>5. At(src, m) = At(src, s)
  BY <1>4 DEF At
<1>6. MountChild(src, m) \in AllKept(src)
  BY <1>2, <1>5, ReceiverIsKept DEF MountChild
<1> QED
  BY <1>2, <1>3, <1>4, <1>5, <1>6

\* What relates a route to a middleware or handler, and what it is to it.
Bearers(src) ==
  {<<HandlerSubject(src, h[1], h[2]), HandlerRelation(src, h[1], h[2])>> : h \in RoutesAndHandlers(src)}
    \cup {<<UseSubject(s), Id("relation", s, NoMethod, 0, "middleware")>> : s \in Uses(src)}
    \cup {<<MountMwSubject(m), Id("relation", m, NoMethod, m[3], "mount-middleware")>> : m \in MountMiddlewares(src)}

\* A bearer's label says where it was written.
LEMMA BearerIs ==
  ASSUME NEW src, NEW b \in Bearers(src)
  PROVE  \/ b[1][6] = "handler" /\ \E h \in RoutesAndHandlers(src) :
              b = <<HandlerSubject(src, h[1], h[2]), HandlerRelation(src, h[1], h[2])>>
         \/ b[1][6] = "middleware" /\ \E s \in Uses(src) :
              b = <<UseSubject(s), Id("relation", s, NoMethod, 0, "middleware")>>
         \/ b[1][6] = "mount-middleware" /\ \E m \in MountMiddlewares(src) :
              b = <<MountMwSubject(m), Id("relation", m, NoMethod, m[3], "mount-middleware")>>
<1>1. CASE \E h \in RoutesAndHandlers(src) :
             b = <<HandlerSubject(src, h[1], h[2]), HandlerRelation(src, h[1], h[2])>>
  BY <1>1, IdIs DEF HandlerSubject
<1>2. CASE \E s \in Uses(src) : b = <<UseSubject(s), Id("relation", s, NoMethod, 0, "middleware")>>
  BY <1>2, IdIs DEF UseSubject
<1>3. CASE \E m \in MountMiddlewares(src) :
             b = <<MountMwSubject(m), Id("relation", m, NoMethod, m[3], "mount-middleware")>>
  BY <1>3, IdIs DEF MountMwSubject
<1> QED
  BY <1>1, <1>2, <1>3 DEF Bearers

\* What bears on a route does so by one relation.
LEMMA OneBearer ==
  ASSUME NEW src, IsProgram(src), NEW b \in Bearers(src), NEW c \in Bearers(src), b[1] = c[1]
  PROVE  b = c
<1>1. CASE b[1][6] = "handler"
  <2>1. PICK h \in RoutesAndHandlers(src) :
          b = <<HandlerSubject(src, h[1], h[2]), HandlerRelation(src, h[1], h[2])>>
    BY <1>1, BearerIs
  <2>2. PICK g \in RoutesAndHandlers(src) :
          c = <<HandlerSubject(src, g[1], g[2]), HandlerRelation(src, g[1], g[2])>>
    BY <1>1, BearerIs
  <2>3. HandlerSubject(src, h[1], h[2]) = HandlerSubject(src, g[1], g[2])
    BY <2>1, <2>2
  <2> QED
    BY <2>1, <2>2, <2>3, OneHandler
<1>2. CASE b[1][6] = "middleware"
  <2>1. PICK s \in Uses(src) : b = <<UseSubject(s), Id("relation", s, NoMethod, 0, "middleware")>>
    BY <1>2, BearerIs
  <2>2. PICK t \in Uses(src) : c = <<UseSubject(t), Id("relation", t, NoMethod, 0, "middleware")>>
    BY <1>2, BearerIs
  <2>3. UseSubject(s) = UseSubject(t)
    BY <2>1, <2>2
  <2>4. s[1] = t[1] /\ s[2] = t[2]
    BY <2>3, IdIs DEF UseSubject
  <2>5. s = t
    BY <2>4, UseIs, PositionIs
  <2> QED
    BY <2>1, <2>2, <2>5
<1>3. CASE b[1][6] = "mount-middleware"
  <2>1. PICK m \in MountMiddlewares(src) :
          b = <<MountMwSubject(m), Id("relation", m, NoMethod, m[3], "mount-middleware")>>
    BY <1>3, BearerIs
  <2>2. PICK n \in MountMiddlewares(src) :
          c = <<MountMwSubject(n), Id("relation", n, NoMethod, n[3], "mount-middleware")>>
    BY <1>3, BearerIs
  <2>3. MountMwSubject(m) = MountMwSubject(n)
    BY <2>1, <2>2
  <2>4. m[1] = n[1] /\ m[2] = n[2] /\ m[3] = n[3]
    BY <2>3, IdIs DEF MountMwSubject
  <2>5. m = <<m[1], m[2], m[3]>> /\ n = <<n[1], n[2], n[3]>>
    BY MountMiddlewareIs
  <2>6. m = n
    BY <2>4, <2>5
  <2> QED
    BY <2>1, <2>2, <2>6
<1> QED
  BY <1>1, <1>2, <1>3, BearerIs

\* The relations of a program, one case per statement that makes them.
LEMMA RelationIs ==
  ASSUME NEW src, IsProgram(src), NEW x \in Relations(src)
  PROVE  /\ x.id[1] = "relation" /\ x.kind \in ForwardKinds /\ x.derived = {}
         /\ \/ <<x.target, x.id>> \in Bearers(src)
            \/ x.target[1] = "scope"
            \/ \E r \in Public(src) : x.target = PublicSubject(r)
<1>1. CASE \E r \in Routes(src) : x = RegistrationOf(src, r)
  BY <1>1, IdIs DEF RegistrationOf, Rel, ForwardKinds, RouteScope
<1>2. CASE \E h \in RoutesAndHandlers(src) :
             x = Rel(HandlerRelation(src, h[1], h[2]), "references", RouteSubject(src, h[1]),
                     HandlerSubject(src, h[1], h[2]), h[2])
  BY <1>2, IdIs DEF Rel, ForwardKinds, Bearers, HandlerRelation
<1>3. CASE \E r \in Public(src) :
             x = Rel(PublicRelation(src, r), "references", RouteSubject(src, r), PublicSubject(r), NoOrder)
  BY <1>3, IdIs DEF Rel, ForwardKinds, PublicRelation
<1>4. CASE \E s \in Uses(src) :
             x = Rel(Id("relation", s, NoMethod, 0, "middleware"), "contains",
                     RecvScope(Receiver(src, s[1], At(src, s).recv)), UseSubject(s), Order(s, 0))
  BY <1>4, IdIs DEF Rel, ForwardKinds, Bearers
<1>5. CASE \E m \in LocalTable(src) \cup ExternalTable(src) :
             x = Rel(m.relation, "composes", RecvScope(m.parent), RecvScope(m.child), NoOrder)
  BY <1>5, IdIs, MountIs DEF Rel, ForwardKinds, RecvScope, MountRelation
<1>6. CASE \E m \in MountMiddlewares(src) :
             x = Rel(Id("relation", m, NoMethod, m[3], "mount-middleware"), "contains",
                     RecvScope(MountChild(src, m)), MountMwSubject(m), MountOrder(m))
  BY <1>6, IdIs DEF Rel, ForwardKinds, Bearers
<1> QED
  BY <1>1, <1>2, <1>3, <1>4, <1>5, <1>6 DEF Relations

\* What may be a guard is named as a bearer is.
LEMMA SubjectIs ==
  ASSUME NEW src, NEW x \in Subjects(src)
  PROVE  /\ x.id[1] = "subject" /\ x.derived = {}
         /\ x.kind \in {"handler", "middleware"} => \E i : <<x.id, i>> \in Bearers(src)
<1>1. CASE \E s \in AllKept(src) : x = Subj(RecvSubject(s), "object_property", At(src, s).name, None, s)
  BY <1>1, IdIs DEF Subj, RecvSubject
<1>2. CASE \E r \in Routes(src) :
             x = Subj(RouteSubject(src, r), "route_call", "route", RecvSubject(RecvOf(src, r)), r)
  BY <1>2, IdIs DEF Subj, RouteSubject
<1>3. CASE \E h \in RoutesAndHandlers(src) :
             x = Subj(HandlerSubject(src, h[1], h[2]), HandlerKind(src, h[1], h[2]),
                      HandlersOf(src, h[1])[h[2]], RouteSubject(src, h[1]), h[1])
  <2>1. PICK h \in RoutesAndHandlers(src) : x.id = HandlerSubject(src, h[1], h[2]) /\ x.derived = {}
    BY <1>3 DEF Subj
  <2>2. <<x.id, HandlerRelation(src, h[1], h[2])>> \in Bearers(src)
    BY <2>1 DEF Bearers
  <2>3. x.id[1] = "subject"
    BY <2>1, IdIs DEF HandlerSubject
  <2> QED
    BY <2>1, <2>2, <2>3
<1>4. CASE \E r \in Public(src) :
             x = Subj(PublicSubject(r), "public_declaration", "v1", RouteSubject(src, r), r)
  BY <1>4, IdIs DEF Subj, PublicSubject
<1>5. CASE \E s \in Uses(src) :
             x = Subj(UseSubject(s), "middleware", At(src, s).mw,
                      RecvSubject(Receiver(src, s[1], At(src, s).recv)), s)
  <2>1. PICK s \in Uses(src) : x.id = UseSubject(s) /\ x.derived = {}
    BY <1>5 DEF Subj
  <2>2. <<x.id, Id("relation", s, NoMethod, 0, "middleware")>> \in Bearers(src)
    BY <2>1 DEF Bearers
  <2>3. x.id[1] = "subject"
    BY <2>1, IdIs DEF UseSubject
  <2> QED
    BY <2>1, <2>2, <2>3
<1>6. CASE \E m \in MountMiddlewares(src) :
             x = Subj(MountMwSubject(m), "middleware", At(src, m).mws[m[3]],
                      RecvSubject(MountChild(src, m)), m)
  <2>1. PICK m \in MountMiddlewares(src) : x.id = MountMwSubject(m) /\ x.derived = {}
    BY <1>6 DEF Subj
  <2>2. <<x.id, Id("relation", m, NoMethod, m[3], "mount-middleware")>> \in Bearers(src)
    BY <2>1 DEF Bearers
  <2>3. x.id[1] = "subject"
    BY <2>1, IdIs DEF MountMwSubject
  <2> QED
    BY <2>1, <2>2, <2>3
<1> QED
  BY <1>1, <1>2, <1>3, <1>4, <1>5, <1>6 DEF Subjects

\* What bears on a route: a handler or a middleware, and the one relation that says so.
LEMMA CandidateIs ==
  ASSUME NEW src, IsProgram(src), NEW r \in Routes(src), NEW c \in Candidates(src, r)
  PROVE  /\ c[1] \in Subjects(src) /\ c[2] \in Relations(src)
         /\ <<c[1].id, c[2].id>> \in Bearers(src)
         /\ c[2].target = c[1].id /\ c[2].kind \in ForwardKinds
         /\ c[2].source \in {RouteSubject(src, r), RouteScope(src, r), RecvScope(RecvOf(src, r))}
<1>1. /\ c[1] \in Subjects(src) /\ c[2] \in Relations(src) /\ c[2].target = c[1].id
      /\ c[1].kind \in {"handler", "middleware"}
      /\ c[2].source \in {RouteSubject(src, r), RouteScope(src, r), RecvScope(RecvOf(src, r))}
  BY DEF Candidates, ReceiverOrdered
<1>2. c[2].kind \in ForwardKinds
  BY <1>1, RelationIs
<1>3. PICK i : <<c[1].id, i>> \in Bearers(src)
  BY <1>1, SubjectIs
<1>4. c[1].id[1] = "subject"
  BY <1>1, SubjectIs
<1>5. \A q \in Public(src) : c[1].id # PublicSubject(q)
  <2>1. c[1].id[6] \in {"handler", "middleware", "mount-middleware"}
    BY <1>3, BearerIs
  <2> QED
    BY <2>1, IdIs DEF PublicSubject
<1>6. <<c[2].target, c[2].id>> \in Bearers(src)
  BY <1>1, <1>4, <1>5, RelationIs
<1> QED
  BY <1>1, <1>2, <1>6

\* A mark: a route, what bears on it, and the relation that says so; by the kind of
\* evidence the mark is.
Kinds == {"public_declaration", "auth_enforcement", "auth_ambiguity"}

Marks(src, kind) ==
  IF kind = "public_declaration" THEN PublicPolicy(src)
  ELSE IF kind = "auth_enforcement" THEN Enforcement(src)
  ELSE Ambiguity(src)

\* The marks by name.
LEMMA MarksAre ==
  ASSUME NEW src
  PROVE  /\ Marks(src, "public_declaration") = PublicPolicy(src)
         /\ Marks(src, "auth_enforcement") = Enforcement(src)
         /\ Marks(src, "auth_ambiguity") = Ambiguity(src)
BY DEF Marks

\* The evidence of a program, one record per mark.
LEMMA ByMark ==
  ASSUME NEW src
  PROVE  /\ \A x : x \in Facts(src) <=> \/ \E r \in Routes(src) : x = Endpoint(src, r)
                                        \/ \E k \in Kinds : \E c \in Marks(src, k) : x = Evidence(k, src, c)
         /\ \A x : x \in Associations(src) <=> \E k \in Kinds : \E c \in Marks(src, k) : x = Association(k, src, c)
<1>1. /\ Marks(src, "public_declaration") = PublicPolicy(src)
      /\ Marks(src, "auth_enforcement") = Enforcement(src)
      /\ Marks(src, "auth_ambiguity") = Ambiguity(src)
  BY MarksAre
<1>2. \A x : x \in Facts(src) <=> \/ \E r \in Routes(src) : x = Endpoint(src, r)
                                  \/ \E k \in Kinds : \E c \in Marks(src, k) : x = Evidence(k, src, c)
  BY <1>1 DEF Facts, Kinds
<1>3. \A x : x \in Associations(src) <=> \E k \in Kinds : \E c \in Marks(src, k) : x = Association(k, src, c)
  BY <1>1 DEF Associations, Kinds
<1> QED
  BY <1>2, <1>3

\* A mark names a route, a subject and a relation from the route's own scopes to that subject.
LEMMA MarkIs ==
  ASSUME NEW src, IsProgram(src), NEW k \in Kinds, NEW c \in Marks(src, k)
  PROVE  /\ c = <<c[1], c[2], c[3]>> /\ c[1] \in Routes(src)
         /\ \E x \in Subjects(src) : x.id = c[2]
         /\ \E x \in Relations(src) :
              /\ x.id = c[3] /\ x.target = c[2] /\ x.kind \in ForwardKinds
              /\ x.source \in {RouteSubject(src, c[1]), RouteScope(src, c[1]), RecvScope(RecvOf(src, c[1]))}
         /\ k = "public_declaration" => /\ c[1] \in Public(src) /\ c[2] = PublicSubject(c[1])
                                        /\ c[3] = PublicRelation(src, c[1])
         /\ k # "public_declaration" => <<c[2], c[3]>> \in Bearers(src)
<1>1. CASE k = "public_declaration"
  <2>1. PICK r \in Public(src) : c = <<r, PublicSubject(r), PublicRelation(src, r)>>
    BY <1>1, MarksAre DEF PublicPolicy
  <2>2. r \in Routes(src) /\ c[1] = r /\ c[2] = PublicSubject(r) /\ c[3] = PublicRelation(src, r)
    BY <2>1 DEF Public
  <2>3. Subj(PublicSubject(r), "public_declaration", "v1", RouteSubject(src, r), r) \in Subjects(src)
    BY DEF Subjects
  <2>4. Rel(PublicRelation(src, r), "references", RouteSubject(src, r), PublicSubject(r), NoOrder) \in Relations(src)
    BY DEF Relations
  <2>5. \E x \in Subjects(src) : x.id = c[2]
    BY <2>2, <2>3 DEF Subj
  <2>6. \E x \in Relations(src) : /\ x.id = c[3] /\ x.target = c[2] /\ x.kind \in ForwardKinds
                                  /\ x.source = RouteSubject(src, c[1])
    BY <2>2, <2>4 DEF Rel, ForwardKinds
  <2> QED
    BY <1>1, <2>1, <2>2, <2>5, <2>6
<1>2. CASE k # "public_declaration"
  <2>1. c \in Enforcement(src) \cup Ambiguity(src)
    BY <1>2, MarksAre DEF Kinds
  <2>0. PICK r \in Routes(src) : \E d \in Candidates(src, r) : c = <<r, d[1].id, d[2].id>>
    BY <2>1 DEF Enforcement, Ambiguity
  <2>2. PICK d \in Candidates(src, r) : c = <<r, d[1].id, d[2].id>>
    BY <2>0
  <2>3. c[1] = r /\ c[2] = d[1].id /\ c[3] = d[2].id /\ c = <<c[1], c[2], c[3]>>
    BY <2>2
  <2> QED
    BY <1>2, <2>3, CandidateIs
<1> QED
  BY <1>1, <1>2

\* A route and what bears on it make one mark.
LEMMA OneMark ==
  ASSUME NEW src, IsProgram(src), NEW k \in Kinds, NEW c \in Marks(src, k), NEW d \in Marks(src, k),
         c[1] = d[1], c[2] = d[2]
  PROVE  c = d
<1>1. c = <<c[1], c[2], c[3]>> /\ d = <<d[1], d[2], d[3]>>
  BY MarkIs
<1>2. CASE k = "public_declaration"
  <2>1. c[3] = PublicRelation(src, c[1]) /\ d[3] = PublicRelation(src, d[1])
    BY <1>2, MarkIs
  <2> QED
    BY <1>1, <2>1
<1>3. CASE k # "public_declaration"
  <2>1. <<c[2], c[3]>> \in Bearers(src) /\ <<d[2], d[3]>> \in Bearers(src)
    BY <1>3, MarkIs
  <2>2. <<c[2], c[3]>> = <<d[2], d[3]>>
    BY <2>1, OneBearer
  <2> QED
    BY <1>1, <2>2
<1> QED
  BY <1>2, <1>3

-----------------------------------------------------------------------------
(* Identifiers *)

\* The parts of a name.
LEMMA NamedIs ==
  ASSUME NEW group, NEW kind, NEW src, NEW c
  PROVE  /\ Named(group, kind, src, c)[1] = group /\ Named(group, kind, src, c)[2] = kind
         /\ Named(group, kind, src, c)[3] = EndpointId(src, c[1]) /\ Named(group, kind, src, c)[4] = c[2]
BY DEF Named

\* One name, one mark.
LEMMA OneName ==
  ASSUME NEW src, IsProgram(src), NEW group, NEW k, NEW l \in Kinds, NEW c \in Marks(src, l),
         NEW m, NEW d \in Marks(src, l), Named(group, k, src, c) = Named(group, m, src, d)
  PROVE  k = m /\ c = d
<1>1. k = m /\ EndpointId(src, c[1]) = EndpointId(src, d[1]) /\ c[2] = d[2]
  BY NamedIs
<1>2. c[1] \in Routes(src) /\ d[1] \in Routes(src)
  BY MarkIs
<1>3. c[1] = d[1]
  BY <1>1, <1>2, OneRoute
<1> QED
  BY <1>1, <1>3, OneMark

\* A public declaration is named by its position, other evidence by endpoint and subject.
LEMMA EvidenceIdIs ==
  ASSUME NEW src, IsProgram(src), NEW k \in Kinds, NEW c \in Marks(src, k)
  PROVE  IF k = "public_declaration"
         THEN EvidenceId(k, src, c) = PublicFact(c[1]) /\ EvidenceId(k, src, c)[1] = "fact"
              /\ EvidenceId(k, src, c)[6] = "public"
         ELSE EvidenceId(k, src, c) = Named("evidence", k, src, c) /\ EvidenceId(k, src, c)[1] = "evidence"
BY IdIs, NamedIs DEF EvidenceId, PublicFact

\* One evidence record, one mark.
LEMMA OneEvidence ==
  ASSUME NEW src, IsProgram(src), NEW k \in Kinds, NEW c \in Marks(src, k),
         NEW l \in Kinds, NEW d \in Marks(src, l), EvidenceId(k, src, c) = EvidenceId(l, src, d)
  PROVE  k = l /\ c = d
<1>1. CASE k = "public_declaration"
  <2>1. l = "public_declaration"
    BY <1>1, EvidenceIdIs
  <2>2. PublicFact(c[1]) = PublicFact(d[1])
    BY <1>1, <2>1, EvidenceIdIs
  <2>3. c[1][1] = d[1][1] /\ c[1][2] = d[1][2]
    BY <2>2, IdIs DEF PublicFact
  <2>4. c[1] \in Public(src) /\ c[1] \in Routes(src) /\ d[1] \in Routes(src)
        /\ c[2] = PublicSubject(c[1]) /\ d[2] = PublicSubject(d[1])
    BY <1>1, <2>1, MarkIs
  <2>5. c[1] = d[1]
    BY <2>3, <2>4, SameRoute DEF Public
  <2> QED
    BY <1>1, <2>1, <2>4, <2>5, OneMark
<1>2. CASE k # "public_declaration"
  <2>1. l # "public_declaration"
    BY <1>2, EvidenceIdIs
  <2>2. Named("evidence", k, src, c) = Named("evidence", l, src, d)
    BY <1>2, <2>1, EvidenceIdIs
  <2>3. k = l
    BY <2>2, NamedIs
  <2> QED
    BY <2>2, <2>3, OneName
<1> QED
  BY <1>1, <1>2

\* No two scopes share an identifier.
LEMMA OneScope ==
  ASSUME NEW src, IsProgram(src), NEW x \in Scopes(src), NEW y \in Scopes(src), x.id = y.id
  PROVE  x = y
<1> DEFINE Of(s) == [id |-> RecvScope(s), kind |-> "component", subject |-> RecvSubject(s), parent |-> None,
                     span |-> s, derived |-> {}]
           For(r) == [id |-> RouteScope(src, r), kind |-> "route", subject |-> RouteSubject(src, r),
                      parent |-> RecvScope(RecvOf(src, r)), span |-> r, derived |-> {}]
<1>1. ASSUME NEW z \in Scopes(src)
      PROVE  \/ z.id[6] = "receiver" /\ \E s \in AllKept(src) : z = Of(s)
             \/ z.id[6] = "route" /\ \E r \in Routes(src) : z = For(r)
  <2>1. CASE \E s \in AllKept(src) : z = Of(s)
    <3>1. PICK s \in AllKept(src) : z = Of(s)
      BY <2>1
    <3>2. RecvScope(s)[6] = "receiver"
      BY IdIs DEF RecvScope
    <3> QED
      BY <3>1, <3>2
  <2>2. CASE \E r \in Routes(src) : z = For(r)
    <3>1. PICK r \in Routes(src) : z = For(r)
      BY <2>2
    <3>2. RouteScope(src, r)[6] = "route"
      BY IdIs DEF RouteScope
    <3> QED
      BY <3>1, <3>2
  <2> QED
    BY <2>1, <2>2 DEF Scopes
<1>2. CASE x.id[6] = "receiver"
  <2>1. PICK s \in AllKept(src) : x = Of(s)
    BY <1>1, <1>2
  <2>2. PICK t \in AllKept(src) : y = Of(t)
    BY <1>1, <1>2
  <2>3. s[1] = t[1] /\ s[2] = t[2]
    BY <2>1, <2>2, IdIs DEF RecvScope
  <2>4. s = t
    BY <2>3, KeptIs, PositionIs
  <2> QED
    BY <2>1, <2>2, <2>4
<1>3. CASE x.id[6] = "route"
  <2>1. PICK r \in Routes(src) : x = For(r)
    BY <1>1, <1>3
  <2>2. PICK q \in Routes(src) : y = For(q)
    BY <1>1, <1>3
  <2>3. RouteScope(src, r) = RouteScope(src, q)
    BY <2>1, <2>2
  <2>4. r = q
    BY <2>3, OneRoute
  <2> QED
    BY <2>1, <2>2, <2>4
<1> QED
  BY <1>1, <1>2, <1>3

\* Subjects, by what they are of.
SubjectReceiver(src, s) ==
  Subj(RecvSubject(s), "object_property", At(src, s).name, None, s)
SubjectRoute(src, r) ==
  Subj(RouteSubject(src, r), "route_call", "route", RecvSubject(RecvOf(src, r)), r)
SubjectHandler(src, h) ==
  Subj(HandlerSubject(src, h[1], h[2]), HandlerKind(src, h[1], h[2]),
      HandlersOf(src, h[1])[h[2]], RouteSubject(src, h[1]), h[1])
SubjectPublic(src, r) ==
  Subj(PublicSubject(r), "public_declaration", "v1", RouteSubject(src, r), r)
SubjectUse(src, s) ==
  Subj(UseSubject(s), "middleware", At(src, s).mw,
      RecvSubject(Receiver(src, s[1], At(src, s).recv)), s)
SubjectMountMw(src, m) ==
  Subj(MountMwSubject(m), "middleware", At(src, m).mws[m[3]],
      RecvSubject(MountChild(src, m)), m)

\* A subject's label says what it is of.
LEMMA SubjectLabels ==
  ASSUME NEW src, IsProgram(src), NEW x \in Subjects(src)
  PROVE  \/ x.id[6] = "receiver" /\ \E s \in AllKept(src) : x = SubjectReceiver(src, s)
         \/ x.id[6] = "route" /\ \E r \in Routes(src) : x = SubjectRoute(src, r)
         \/ x.id[6] = "handler" /\ \E h \in RoutesAndHandlers(src) : x = SubjectHandler(src, h)
         \/ x.id[6] = "public" /\ \E r \in Public(src) : x = SubjectPublic(src, r)
         \/ x.id[6] = "middleware" /\ \E s \in Uses(src) : x = SubjectUse(src, s)
         \/ x.id[6] = "mount-middleware" /\ \E m \in MountMiddlewares(src) : x = SubjectMountMw(src, m)
<1>1. CASE \E s \in AllKept(src) : x = SubjectReceiver(src, s)
  <2>1. PICK s \in AllKept(src) : x = SubjectReceiver(src, s)
    BY <1>1
  <2>2. x.id = RecvSubject(s)
    BY <2>1 DEF SubjectReceiver, Subj
  <2>3. x.id[6] = "receiver"
    BY <2>2, IdIs DEF RecvSubject
  <2> QED
    BY <2>1, <2>3
<1>2. CASE \E r \in Routes(src) : x = SubjectRoute(src, r)
  <2>1. PICK r \in Routes(src) : x = SubjectRoute(src, r)
    BY <1>2
  <2>2. x.id = RouteSubject(src, r)
    BY <2>1 DEF SubjectRoute, Subj
  <2>3. x.id[6] = "route"
    BY <2>2, IdIs DEF RouteSubject
  <2> QED
    BY <2>1, <2>3
<1>3. CASE \E h \in RoutesAndHandlers(src) : x = SubjectHandler(src, h)
  <2>1. PICK h \in RoutesAndHandlers(src) : x = SubjectHandler(src, h)
    BY <1>3
  <2>2. x.id = HandlerSubject(src, h[1], h[2])
    BY <2>1 DEF SubjectHandler, Subj
  <2>3. x.id[6] = "handler"
    BY <2>2, IdIs DEF HandlerSubject
  <2> QED
    BY <2>1, <2>3
<1>4. CASE \E r \in Public(src) : x = SubjectPublic(src, r)
  <2>1. PICK r \in Public(src) : x = SubjectPublic(src, r)
    BY <1>4
  <2>2. x.id = PublicSubject(r)
    BY <2>1 DEF SubjectPublic, Subj
  <2>3. x.id[6] = "public"
    BY <2>2, IdIs DEF PublicSubject
  <2> QED
    BY <2>1, <2>3
<1>5. CASE \E s \in Uses(src) : x = SubjectUse(src, s)
  <2>1. PICK s \in Uses(src) : x = SubjectUse(src, s)
    BY <1>5
  <2>2. x.id = UseSubject(s)
    BY <2>1 DEF SubjectUse, Subj
  <2>3. x.id[6] = "middleware"
    BY <2>2, IdIs DEF UseSubject
  <2> QED
    BY <2>1, <2>3
<1>6. CASE \E m \in MountMiddlewares(src) : x = SubjectMountMw(src, m)
  <2>1. PICK m \in MountMiddlewares(src) : x = SubjectMountMw(src, m)
    BY <1>6
  <2>2. x.id = MountMwSubject(m)
    BY <2>1 DEF SubjectMountMw, Subj
  <2>3. x.id[6] = "mount-middleware"
    BY <2>2, IdIs DEF MountMwSubject
  <2> QED
    BY <2>1, <2>3
<1> QED
  BY <1>1, <1>2, <1>3, <1>4, <1>5, <1>6 DEF
     Subjects, SubjectReceiver, SubjectRoute, SubjectHandler, SubjectPublic, SubjectUse,
     SubjectMountMw

\* No two subjects share an identifier.
LEMMA OneSubject ==
  ASSUME NEW src, IsProgram(src), NEW x \in Subjects(src), NEW y \in Subjects(src), x.id = y.id
  PROVE  x = y
<1>1. CASE x.id[6] = "receiver"
  <2>1. PICK s \in AllKept(src) : x = SubjectReceiver(src, s)
    BY <1>1, SubjectLabels
  <2>2. PICK t \in AllKept(src) : y = SubjectReceiver(src, t)
    BY <1>1, SubjectLabels
  <2>3. RecvSubject(s) = RecvSubject(t)
    BY <2>1, <2>2 DEF SubjectReceiver, Subj
  <2>4. s = t
    <3>1. s[1] = t[1] /\ s[2] = t[2]
      BY <2>3, IdIs DEF RecvSubject
    <3> QED
      BY <3>1, KeptIs, PositionIs
  <2> QED
    BY <2>1, <2>2, <2>4
<1>2. CASE x.id[6] = "route"
  <2>1. PICK r \in Routes(src) : x = SubjectRoute(src, r)
    BY <1>2, SubjectLabels
  <2>2. PICK q \in Routes(src) : y = SubjectRoute(src, q)
    BY <1>2, SubjectLabels
  <2>3. RouteSubject(src, r) = RouteSubject(src, q)
    BY <2>1, <2>2 DEF SubjectRoute, Subj
  <2>4. r = q
    BY <2>3, OneRoute
  <2> QED
    BY <2>1, <2>2, <2>4
<1>3. CASE x.id[6] = "handler"
  <2>1. PICK h \in RoutesAndHandlers(src) : x = SubjectHandler(src, h)
    BY <1>3, SubjectLabels
  <2>2. PICK g \in RoutesAndHandlers(src) : y = SubjectHandler(src, g)
    BY <1>3, SubjectLabels
  <2>3. HandlerSubject(src, h[1], h[2]) = HandlerSubject(src, g[1], g[2])
    BY <2>1, <2>2 DEF SubjectHandler, Subj
  <2>4. h = g
    BY <2>3, OneHandler
  <2> QED
    BY <2>1, <2>2, <2>4
<1>4. CASE x.id[6] = "public"
  <2>1. PICK r \in Public(src) : x = SubjectPublic(src, r)
    BY <1>4, SubjectLabels
  <2>2. PICK q \in Public(src) : y = SubjectPublic(src, q)
    BY <1>4, SubjectLabels
  <2>3. PublicSubject(r) = PublicSubject(q)
    BY <2>1, <2>2 DEF SubjectPublic, Subj
  <2>4. r = q
    <3>1. r[1] = q[1] /\ r[2] = q[2]
      BY <2>3, IdIs DEF PublicSubject
    <3> QED
      BY <3>1, SameRoute DEF Public
  <2> QED
    BY <2>1, <2>2, <2>4
<1>5. CASE x.id[6] = "middleware"
  <2>1. PICK s \in Uses(src) : x = SubjectUse(src, s)
    BY <1>5, SubjectLabels
  <2>2. PICK t \in Uses(src) : y = SubjectUse(src, t)
    BY <1>5, SubjectLabels
  <2>3. UseSubject(s) = UseSubject(t)
    BY <2>1, <2>2 DEF SubjectUse, Subj
  <2>4. s = t
    <3>1. s[1] = t[1] /\ s[2] = t[2]
      BY <2>3, IdIs DEF UseSubject
    <3> QED
      BY <3>1, UseIs, PositionIs
  <2> QED
    BY <2>1, <2>2, <2>4
<1>6. CASE x.id[6] = "mount-middleware"
  <2>1. PICK m \in MountMiddlewares(src) : x = SubjectMountMw(src, m)
    BY <1>6, SubjectLabels
  <2>2. PICK n \in MountMiddlewares(src) : y = SubjectMountMw(src, n)
    BY <1>6, SubjectLabels
  <2>3. MountMwSubject(m) = MountMwSubject(n)
    BY <2>1, <2>2 DEF SubjectMountMw, Subj
  <2>4. m = n
    <3>1. m[1] = n[1] /\ m[2] = n[2] /\ m[3] = n[3]
      BY <2>3, IdIs DEF MountMwSubject
    <3>2. m = <<m[1], m[2], m[3]>> /\ n = <<n[1], n[2], n[3]>>
      BY MountMiddlewareIs
    <3> QED
      BY <3>1, <3>2
  <2> QED
    BY <2>1, <2>2, <2>4
<1> QED
  BY <1>1, <1>2, <1>3, <1>4, <1>5, <1>6, SubjectLabels

\* Relations, by what they are of.
RelationRegistration(src, r) ==
  RegistrationOf(src, r)
RelationHandler(src, h) ==
  Rel(HandlerRelation(src, h[1], h[2]), "references", RouteSubject(src, h[1]),
      HandlerSubject(src, h[1], h[2]), h[2])
RelationPublic(src, r) ==
  Rel(PublicRelation(src, r), "references", RouteSubject(src, r), PublicSubject(r), NoOrder)
RelationUse(src, s) ==
  Rel(Id("relation", s, NoMethod, 0, "middleware"), "contains",
      RecvScope(Receiver(src, s[1], At(src, s).recv)), UseSubject(s), Order(s, 0))
RelationMount(src, m) ==
  Rel(m.relation, "composes", RecvScope(m.parent), RecvScope(m.child), NoOrder)
RelationMountMw(src, m) ==
  Rel(Id("relation", m, NoMethod, m[3], "mount-middleware"), "contains",
      RecvScope(MountChild(src, m)), MountMwSubject(m), MountOrder(m))

\* A relation's label says what it is of.
LEMMA RelationLabels ==
  ASSUME NEW src, IsProgram(src), NEW x \in Relations(src)
  PROVE  \/ x.id[6] = "registration" /\ \E r \in Routes(src) : x = RelationRegistration(src, r)
         \/ x.id[6] = "handler" /\ \E h \in RoutesAndHandlers(src) : x = RelationHandler(src, h)
         \/ x.id[6] = "public" /\ \E r \in Public(src) : x = RelationPublic(src, r)
         \/ x.id[6] = "middleware" /\ \E s \in Uses(src) : x = RelationUse(src, s)
         \/ x.id[6] = "mount" /\ \E m \in LocalTable(src) \cup ExternalTable(src) : x = RelationMount(src, m)
         \/ x.id[6] = "mount-middleware" /\ \E m \in MountMiddlewares(src) : x = RelationMountMw(src, m)
<1>1. CASE \E r \in Routes(src) : x = RelationRegistration(src, r)
  <2>1. PICK r \in Routes(src) : x = RelationRegistration(src, r)
    BY <1>1
  <2>2. x.id = Id("relation", r, MethodOf(src, r), 0, "registration")
    BY <2>1 DEF RelationRegistration, Rel, RegistrationOf
  <2>3. x.id[6] = "registration"
    BY <2>2, IdIs
  <2> QED
    BY <2>1, <2>3
<1>2. CASE \E h \in RoutesAndHandlers(src) : x = RelationHandler(src, h)
  <2>1. PICK h \in RoutesAndHandlers(src) : x = RelationHandler(src, h)
    BY <1>2
  <2>2. x.id = HandlerRelation(src, h[1], h[2])
    BY <2>1 DEF RelationHandler, Rel
  <2>3. x.id[6] = "handler"
    BY <2>2, IdIs DEF HandlerRelation
  <2> QED
    BY <2>1, <2>3
<1>3. CASE \E r \in Public(src) : x = RelationPublic(src, r)
  <2>1. PICK r \in Public(src) : x = RelationPublic(src, r)
    BY <1>3
  <2>2. x.id = PublicRelation(src, r)
    BY <2>1 DEF RelationPublic, Rel
  <2>3. x.id[6] = "public"
    BY <2>2, IdIs DEF PublicRelation
  <2> QED
    BY <2>1, <2>3
<1>4. CASE \E s \in Uses(src) : x = RelationUse(src, s)
  <2>1. PICK s \in Uses(src) : x = RelationUse(src, s)
    BY <1>4
  <2>2. x.id = Id("relation", s, NoMethod, 0, "middleware")
    BY <2>1 DEF RelationUse, Rel
  <2>3. x.id[6] = "middleware"
    BY <2>2, IdIs
  <2> QED
    BY <2>1, <2>3
<1>5. CASE \E m \in LocalTable(src) \cup ExternalTable(src) : x = RelationMount(src, m)
  <2>1. PICK m \in LocalTable(src) \cup ExternalTable(src) : x = RelationMount(src, m)
    BY <1>5
  <2>2. x.id = m.relation
    BY <2>1 DEF RelationMount, Rel
  <2>3. x.id[6] = "mount"
    BY <2>2, MountIs, IdIs DEF MountRelation
  <2> QED
    BY <2>1, <2>3
<1>6. CASE \E m \in MountMiddlewares(src) : x = RelationMountMw(src, m)
  <2>1. PICK m \in MountMiddlewares(src) : x = RelationMountMw(src, m)
    BY <1>6
  <2>2. x.id = Id("relation", m, NoMethod, m[3], "mount-middleware")
    BY <2>1 DEF RelationMountMw, Rel
  <2>3. x.id[6] = "mount-middleware"
    BY <2>2, IdIs
  <2> QED
    BY <2>1, <2>3
<1> QED
  BY <1>1, <1>2, <1>3, <1>4, <1>5, <1>6 DEF
     Relations, RelationRegistration, RelationHandler, RelationPublic, RelationUse, RelationMount,
     RelationMountMw

\* No two relations share an identifier.
LEMMA OneRelation ==
  ASSUME NEW src, IsProgram(src), NEW x \in Relations(src), NEW y \in Relations(src), x.id = y.id
  PROVE  x = y
<1>1. CASE x.id[6] = "registration"
  <2>1. PICK r \in Routes(src) : x = RelationRegistration(src, r)
    BY <1>1, RelationLabels
  <2>2. PICK q \in Routes(src) : y = RelationRegistration(src, q)
    BY <1>1, RelationLabels
  <2>3. Id("relation", r, MethodOf(src, r), 0, "registration") = Id("relation", q, MethodOf(src, q), 0, "registration")
    BY <2>1, <2>2 DEF RelationRegistration, Rel, RegistrationOf
  <2>4. r = q
    BY <2>3, OneRoute
  <2> QED
    BY <2>1, <2>2, <2>4
<1>2. CASE x.id[6] = "handler"
  <2>1. PICK h \in RoutesAndHandlers(src) : x = RelationHandler(src, h)
    BY <1>2, RelationLabels
  <2>2. PICK g \in RoutesAndHandlers(src) : y = RelationHandler(src, g)
    BY <1>2, RelationLabels
  <2>3. HandlerRelation(src, h[1], h[2]) = HandlerRelation(src, g[1], g[2])
    BY <2>1, <2>2 DEF RelationHandler, Rel
  <2>4. h = g
    BY <2>3, OneHandler
  <2> QED
    BY <2>1, <2>2, <2>4
<1>3. CASE x.id[6] = "public"
  <2>1. PICK r \in Public(src) : x = RelationPublic(src, r)
    BY <1>3, RelationLabels
  <2>2. PICK q \in Public(src) : y = RelationPublic(src, q)
    BY <1>3, RelationLabels
  <2>3. PublicRelation(src, r) = PublicRelation(src, q)
    BY <2>1, <2>2 DEF RelationPublic, Rel
  <2>4. r = q
    <3>1. r[1] = q[1] /\ r[2] = q[2]
      BY <2>3, IdIs DEF PublicRelation
    <3> QED
      BY <3>1, SameRoute DEF Public
  <2> QED
    BY <2>1, <2>2, <2>4
<1>4. CASE x.id[6] = "middleware"
  <2>1. PICK s \in Uses(src) : x = RelationUse(src, s)
    BY <1>4, RelationLabels
  <2>2. PICK t \in Uses(src) : y = RelationUse(src, t)
    BY <1>4, RelationLabels
  <2>3. Id("relation", s, NoMethod, 0, "middleware") = Id("relation", t, NoMethod, 0, "middleware")
    BY <2>1, <2>2 DEF RelationUse, Rel
  <2>4. s = t
    <3>1. s[1] = t[1] /\ s[2] = t[2]
      BY <2>3, IdIs
    <3> QED
      BY <3>1, UseIs, PositionIs
  <2> QED
    BY <2>1, <2>2, <2>4
<1>5. CASE x.id[6] = "mount"
  <2>1. PICK m \in LocalTable(src) \cup ExternalTable(src) : x = RelationMount(src, m)
    BY <1>5, RelationLabels
  <2>2. PICK n \in LocalTable(src) \cup ExternalTable(src) : y = RelationMount(src, n)
    BY <1>5, RelationLabels
  <2>3. m.relation = n.relation
    BY <2>1, <2>2 DEF RelationMount, Rel
  <2>4. m = n
    <3>1. PICK s \in Positions(src) : m = EntryOf(src, s) /\ m.relation = MountRelation(s)
      BY MountIs
    <3>2. PICK t \in Positions(src) : n = EntryOf(src, t) /\ n.relation = MountRelation(t)
      BY MountIs
    <3>3. s[1] = t[1] /\ s[2] = t[2]
      BY <2>3, <3>1, <3>2, IdIs DEF MountRelation
    <3>4. s = t
      BY <3>3, PositionIs
    <3> QED
      BY <3>1, <3>2, <3>4
  <2> QED
    BY <2>1, <2>2, <2>4
<1>6. CASE x.id[6] = "mount-middleware"
  <2>1. PICK m \in MountMiddlewares(src) : x = RelationMountMw(src, m)
    BY <1>6, RelationLabels
  <2>2. PICK n \in MountMiddlewares(src) : y = RelationMountMw(src, n)
    BY <1>6, RelationLabels
  <2>3. Id("relation", m, NoMethod, m[3], "mount-middleware") = Id("relation", n, NoMethod, n[3], "mount-middleware")
    BY <2>1, <2>2 DEF RelationMountMw, Rel
  <2>4. m = n
    <3>1. m[1] = n[1] /\ m[2] = n[2] /\ m[3] = n[3]
      BY <2>3, IdIs
    <3>2. m = <<m[1], m[2], m[3]>> /\ n = <<n[1], n[2], n[3]>>
      BY MountMiddlewareIs
    <3> QED
      BY <3>1, <3>2
  <2> QED
    BY <2>1, <2>2, <2>4
<1> QED
  BY <1>1, <1>2, <1>3, <1>4, <1>5, <1>6, RelationLabels

\* A position is its file and its place.
LEMMA OnePosition ==
  ASSUME NEW src, IsProgram(src), NEW s \in Positions(src), NEW t \in Positions(src), s[1] = t[1], s[2] = t[2]
  PROVE  s = t
BY PositionIs

\* An endpoint's fields.
LEMMA EndpointIs ==
  ASSUME NEW src, NEW r
  PROVE  /\ Endpoint(src, r).id = EndpointId(src, r) /\ EndpointId(src, r)[1] = "fact"
         /\ EndpointId(src, r)[6] = "endpoint" /\ Endpoint(src, r).kind = "endpoint_declaration"
         /\ Endpoint(src, r).subject = RouteSubject(src, r)
BY IdIs DEF Endpoint, EndpointId

\* The fields of an evidence record.
LEMMA EvidenceIs ==
  ASSUME NEW k, NEW src, NEW c
  PROVE  /\ Evidence(k, src, c).id = EvidenceId(k, src, c) /\ Evidence(k, src, c).kind = k
         /\ Evidence(k, src, c).subject = c[2] /\ Evidence(k, src, c).path = None
         /\ Evidence(k, src, c).derived = {}
BY DEF Evidence

\* No two facts share an identifier.
LEMMA OneFact ==
  ASSUME NEW src, IsProgram(src), NEW x \in Facts(src), NEW y \in Facts(src), x.id = y.id
  PROVE  x = y
<1>1. CASE \E r \in Routes(src) : x = Endpoint(src, r)
  <2>1. PICK r \in Routes(src) : x = Endpoint(src, r)
    BY <1>1
  <2>2. x.id[1] = "fact" /\ x.id[6] = "endpoint"
    BY <2>1, EndpointIs
  <2>3. ASSUME NEW k \in Kinds, NEW c \in Marks(src, k), y = Evidence(k, src, c) PROVE FALSE
    BY <2>2, <2>3, EvidenceIs, EvidenceIdIs
  <2>4. PICK q \in Routes(src) : y = Endpoint(src, q)
    BY <2>3, ByMark
  <2>5. EndpointId(src, r) = EndpointId(src, q)
    BY <2>1, <2>4, EndpointIs
  <2> QED
    BY <2>1, <2>4, <2>5, OneRoute
<1>2. CASE \E k \in Kinds : \E c \in Marks(src, k) : x = Evidence(k, src, c)
  <2>1. PICK k \in Kinds : \E c \in Marks(src, k) : x = Evidence(k, src, c)
    BY <1>2
  <2>2. PICK c \in Marks(src, k) : x = Evidence(k, src, c)
    BY <2>1
  <2>3. x.id[1] = "evidence" \/ x.id[6] = "public"
    BY <2>2, EvidenceIs, EvidenceIdIs
  <2>4. ASSUME NEW q \in Routes(src), y = Endpoint(src, q) PROVE FALSE
    BY <2>3, <2>4, EndpointIs
  <2>5. PICK l \in Kinds : \E d \in Marks(src, l) : y = Evidence(l, src, d)
    BY <2>4, ByMark
  <2>6. PICK d \in Marks(src, l) : y = Evidence(l, src, d)
    BY <2>5
  <2>7. EvidenceId(k, src, c) = EvidenceId(l, src, d)
    BY <2>2, <2>6, EvidenceIs
  <2> QED
    BY <2>2, <2>6, <2>7, OneEvidence
<1> QED
  BY <1>1, <1>2, ByMark

\* The fields of an association.
LEMMA AssociationIs ==
  ASSUME NEW k, NEW src, NEW c
  PROVE  /\ Association(k, src, c).id = Named("association", k, src, c)
         /\ Association(k, src, c).endpoint = EndpointId(src, c[1])
         /\ Association(k, src, c).evidence = EvidenceId(k, src, c)
         /\ Association(k, src, c).scope = RouteScope(src, c[1])
         /\ Association(k, src, c).derived =
              {EvidenceId(k, src, c), EndpointId(src, c[1])} \cup (IF k = "auth_ambiguity" THEN {} ELSE {c[3]})
BY DEF Association

\* No two associations share an identifier.
LEMMA OneAssociation ==
  ASSUME NEW src, IsProgram(src), NEW x \in Associations(src), NEW y \in Associations(src), x.id = y.id
  PROVE  x = y
<1>1. PICK k \in Kinds : \E c \in Marks(src, k) : x = Association(k, src, c)
  BY ByMark
<1>2. PICK c \in Marks(src, k) : x = Association(k, src, c)
  BY <1>1
<1>3. PICK l \in Kinds : \E d \in Marks(src, l) : y = Association(l, src, d)
  BY ByMark
<1>4. PICK d \in Marks(src, l) : y = Association(l, src, d)
  BY <1>3
<1>5. Named("association", k, src, c) = Named("association", l, src, d)
  BY <1>2, <1>4, AssociationIs
<1>6. k = l
  BY <1>5, NamedIs
<1>7. c = d
  BY <1>5, <1>6, OneName
<1> QED
  BY <1>2, <1>4, <1>6, <1>7

\* What a mark proves, if its kind is one that proves something.
ProofKind(k) == IF k = "public_declaration" THEN "public_policy" ELSE k
Proving == {"public_declaration", "auth_enforcement"}

\* The fields of a proof.
LEMMA ProofOfIs ==
  ASSUME NEW p, NEW k, NEW src, NEW c
  PROVE  LET x == ProofOf(p, k, src, c) IN
         /\ x.id = Named("proof", p, src, c) /\ x.kind = p
         /\ x.endpoint = EndpointId(src, c[1]) /\ x.facts = {EvidenceId(k, src, c)}
         /\ x.associations = {Named("association", k, src, c)} /\ x.relations = {c[3]}
         /\ x.derived = {Named("association", k, src, c), EvidenceId(k, src, c), EndpointId(src, c[1]), c[3]}
              \cup (IF p = "auth_enforcement" THEN {Provenance("auth_association")} ELSE {})
BY DEF ProofOf

\* Every proof is of a mark that proves something.
LEMMA ProofIs ==
  ASSUME NEW src, NEW x \in Proofs(src)
  PROVE  \E k \in Proving : \E c \in Marks(src, k) : x = ProofOf(ProofKind(k), k, src, c)
<1>1. CASE \E c \in PublicPolicy(src) : x = ProofOf("public_policy", "public_declaration", src, c)
  <2>1. PICK c \in Marks(src, "public_declaration") : x = ProofOf("public_policy", "public_declaration", src, c)
    BY <1>1, MarksAre
  <2>2. ProofKind("public_declaration") = "public_policy" /\ "public_declaration" \in Proving
    BY DEF ProofKind, Proving
  <2> QED
    BY <2>1, <2>2
<1>2. CASE \E c \in Enforcement(src) : x = ProofOf("auth_enforcement", "auth_enforcement", src, c)
  <2>1. PICK c \in Marks(src, "auth_enforcement") : x = ProofOf("auth_enforcement", "auth_enforcement", src, c)
    BY <1>2, MarksAre
  <2>2. ProofKind("auth_enforcement") = "auth_enforcement" /\ "auth_enforcement" \in Proving
    BY DEF ProofKind, Proving
  <2> QED
    BY <2>1, <2>2
<1> QED
  BY <1>1, <1>2 DEF Proofs

\* No two proofs share an identifier.
LEMMA OneProof ==
  ASSUME NEW src, IsProgram(src), NEW x \in Proofs(src), NEW y \in Proofs(src), x.id = y.id
  PROVE  x = y
<1>1. PICK k \in Proving : \E c \in Marks(src, k) : x = ProofOf(ProofKind(k), k, src, c)
  BY ProofIs
<1>2. PICK c \in Marks(src, k) : x = ProofOf(ProofKind(k), k, src, c)
  BY <1>1
<1>3. PICK l \in Proving : \E d \in Marks(src, l) : y = ProofOf(ProofKind(l), l, src, d)
  BY ProofIs
<1>4. PICK d \in Marks(src, l) : y = ProofOf(ProofKind(l), l, src, d)
  BY <1>3
<1>5. Named("proof", ProofKind(k), src, c) = Named("proof", ProofKind(l), src, d)
  BY <1>2, <1>4, ProofOfIs
<1>6. k = l /\ k \in Kinds
  <2>1. ProofKind(k) = ProofKind(l)
    BY <1>5, NamedIs
  <2> QED
    BY <2>1 DEF ProofKind, Proving, Kinds
<1>7. c = d
  BY <1>5, <1>6, OneName
<1> QED
  BY <1>2, <1>4, <1>6, <1>7

\* What is left open where a statement cannot be read, at an endpoint whose receiver is
\* mounted in several ways, and about a mark that may be a guard.
OpenAt(src, s, label) ==
  Open(Id("unresolved", s, NoMethod, 0, label),
       IF label = "dynamic-route" THEN RecvSubject(Receiver(src, s[1], At(src, s).recv))
       ELSE IF label = "dynamic-mount" THEN RecvSubject(Receiver(src, s[1], At(src, s).child))
       ELSE None, {})
OpenMount(src, r) ==
  Open(<<"ambiguous-mount", EndpointId(src, r)>>, EndpointId(src, r), LocalPath(src, r).relations)
OpenDoubt(src, c) ==
  Open(Named("doubt", "auth_ambiguity", src, c), EndpointId(src, c[1]),
       {Named("association", "auth_ambiguity", src, c), EvidenceId("auth_ambiguity", src, c)})

\* What is left open is left open for one of these reasons, and about something kept.
LEMMA LeftOpenIs ==
  ASSUME NEW src, IsProgram(src), NEW x \in LeftOpen(src)
  PROVE  \/ /\ x.id[1] = "unresolved" /\ x.derived = {}
            /\ x.subject # None => \E t \in AllKept(src) : x.subject = RecvSubject(t)
            /\ \E s \in Positions(src) : \E l : x = OpenAt(src, s, l) /\ x.id[6] = l
         \/ x.id[1] = "ambiguous-mount" /\ \E r \in Routes(src) : x = OpenMount(src, r)
         \/ x.id[1] = "doubt" /\ \E c \in Marks(src, "auth_ambiguity") : x = OpenDoubt(src, c)
<1>1. ASSUME NEW s \in Positions(src), NEW l, x = OpenAt(src, s, l)
      PROVE  x.id[1] = "unresolved" /\ x.derived = {} /\ x.id[6] = l
  BY <1>1, IdIs DEF OpenAt, Open
<1>2. CASE \E s \in Positions(src) :
             /\ At(src, s).op = "route" /\ Receiver(src, s[1], At(src, s).recv) # None
             /\ x = Open(Id("unresolved", s, NoMethod, 0, "dynamic-route"),
                         RecvSubject(Receiver(src, s[1], At(src, s).recv)), {})
  <2>1. PICK s \in Positions(src) :
             /\ Receiver(src, s[1], At(src, s).recv) # None
             /\ x = Open(Id("unresolved", s, NoMethod, 0, "dynamic-route"),
                         RecvSubject(Receiver(src, s[1], At(src, s).recv)), {})
    BY <1>2
  <2>2. x = OpenAt(src, s, "dynamic-route")
    BY <2>1 DEF OpenAt
  <2>3. x.subject = RecvSubject(Receiver(src, s[1], At(src, s).recv))
    BY <2>1 DEF Open
  <2> QED
    BY <1>1, <2>1, <2>2, <2>3, ReceiverIsKept
<1>3. CASE \E s \in LocalMounts(src) :
             x = Open(Id("unresolved", s, NoMethod, 0, "dynamic-mount"),
                      RecvSubject(Receiver(src, s[1], At(src, s).child)), {})
  <2>1. PICK s \in LocalMounts(src) :
             x = Open(Id("unresolved", s, NoMethod, 0, "dynamic-mount"),
                      RecvSubject(Receiver(src, s[1], At(src, s).child)), {})
    BY <1>3
  <2>2. x = OpenAt(src, s, "dynamic-mount")
    BY <2>1 DEF OpenAt
  <2>3. x.subject = RecvSubject(Receiver(src, s[1], At(src, s).child))
    BY <2>1 DEF Open
  <2>4. s \in Positions(src) /\ Receiver(src, s[1], At(src, s).child) # None
    BY DEF LocalMounts
  <2> QED
    BY <1>1, <2>2, <2>3, <2>4, ReceiverIsKept
<1>4. CASE \E s \in Positions(src) : x = Open(Id("unresolved", s, NoMethod, 0, "duplicate-receiver"), None, {})
  <2>1. PICK s \in Positions(src) : x = Open(Id("unresolved", s, NoMethod, 0, "duplicate-receiver"), None, {})
    BY <1>4
  <2>2. x = OpenAt(src, s, "duplicate-receiver")
    BY <2>1 DEF OpenAt
  <2>3. x.subject = None
    BY <2>1 DEF Open
  <2> QED
    BY <1>1, <2>2, <2>3
<1>5. CASE \E r \in Routes(src) : x = OpenMount(src, r)
  BY <1>5 DEF OpenMount, Open
<1>6. CASE \E c \in Ambiguity(src) : x = OpenDoubt(src, c)
  <2>1. PICK c \in Marks(src, "auth_ambiguity") : x = OpenDoubt(src, c)
    BY <1>6, MarksAre
  <2>2. x.id = Named("doubt", "auth_ambiguity", src, c)
    BY <2>1 DEF OpenDoubt, Open
  <2> QED
    BY <2>1, <2>2, NamedIs
<1> QED
  BY <1>2, <1>3, <1>4, <1>5, <1>6 DEF LeftOpen, UnresolvedOf, OpenMount, OpenDoubt

\* No two unresolved records share an identifier.
LEMMA OneOpen ==
  ASSUME NEW src, IsProgram(src), NEW x \in LeftOpen(src), NEW y \in LeftOpen(src), x.id = y.id
  PROVE  x = y
<1>1. CASE x.id[1] = "unresolved"
  <2>1. PICK s \in Positions(src) : x = OpenAt(src, s, x.id[6])
    BY <1>1, LeftOpenIs
  <2>2. PICK t \in Positions(src) : y = OpenAt(src, t, x.id[6])
    BY <1>1, LeftOpenIs
  <2>3. Id("unresolved", s, NoMethod, 0, x.id[6]) = Id("unresolved", t, NoMethod, 0, x.id[6])
    BY <2>1, <2>2 DEF OpenAt, Open
  <2>4. s = t
    BY <2>3, IdIs, OnePosition
  <2> QED
    BY <2>1, <2>2, <2>4
<1>2. CASE x.id[1] = "ambiguous-mount"
  <2>1. PICK r \in Routes(src) : x = OpenMount(src, r)
    BY <1>2, LeftOpenIs
  <2>2. PICK q \in Routes(src) : y = OpenMount(src, q)
    BY <1>2, LeftOpenIs
  <2>3. EndpointId(src, r) = EndpointId(src, q)
    BY <2>1, <2>2 DEF OpenMount, Open
  <2> QED
    BY <2>1, <2>2, <2>3, OneRoute
<1>3. CASE x.id[1] = "doubt"
  <2>1. PICK c \in Marks(src, "auth_ambiguity") : x = OpenDoubt(src, c)
    BY <1>3, LeftOpenIs
  <2>2. PICK d \in Marks(src, "auth_ambiguity") : y = OpenDoubt(src, d)
    BY <1>3, LeftOpenIs
  <2>3. Named("doubt", "auth_ambiguity", src, c) = Named("doubt", "auth_ambiguity", src, d)
    BY <2>1, <2>2 DEF OpenDoubt, Open
  <2>4. c = d
    BY <2>3, OneName DEF Kinds
  <2> QED
    BY <2>1, <2>2, <2>4
<1> QED
  BY <1>1, <1>2, <1>3, LeftOpenIs

\* The fields of a coverage record.
LEMMA CoverageIs ==
  ASSUME NEW src, NEW x \in Coverage(src)
  PROVE  \E r \in Routes(src), c \in Capability :
           /\ x.id = <<"coverage", EndpointId(src, r), c>> /\ x.target = EndpointId(src, r)
           /\ x.capability = c /\ x.provenance = Provenance(c)
           /\ x = [id |-> <<"coverage", EndpointId(src, r), c>>, target |-> EndpointId(src, r), capability |-> c,
                   status |-> CoverageStatus(src, r, c), provenance |-> Provenance(c)]
BY DEF Coverage

\* No two coverage records share an identifier.
LEMMA OneCoverage ==
  ASSUME NEW src, IsProgram(src), NEW x \in Coverage(src), NEW y \in Coverage(src), x.id = y.id
  PROVE  x = y
<1> DEFINE Of(r, c) == [id |-> <<"coverage", EndpointId(src, r), c>>, target |-> EndpointId(src, r), capability |-> c,
                        status |-> CoverageStatus(src, r, c), provenance |-> Provenance(c)]
<1>1. PICK r \in Routes(src), c \in Capability : x.id = <<"coverage", EndpointId(src, r), c>> /\ x = Of(r, c)
  BY CoverageIs
<1>2. PICK q \in Routes(src), d \in Capability : y.id = <<"coverage", EndpointId(src, q), d>> /\ y = Of(q, d)
  BY CoverageIs
<1>3. EndpointId(src, r) = EndpointId(src, q) /\ c = d
  BY <1>1, <1>2
<1>4. r = q
  BY <1>3, OneRoute
<1> QED
  BY <1>1, <1>2, <1>3, <1>4

-----------------------------------------------------------------------------
(* The graph *)

\* The groups of the graph the adapter builds.
LEMMA GraphIs ==
  ASSUME NEW src
  PROVE  LET g == BuildGraph(src) IN
         /\ g.subjects = Subjects(src) /\ g.facts = Facts(src) /\ g.scopes = Scopes(src)
         /\ g.relations = Relations(src) /\ g.associations = Associations(src) /\ g.proofs = Proofs(src)
         /\ g.unresolved = LeftOpen(src) /\ g.diagnostics = {} /\ g.coverage = Coverage(src)
         /\ g.provenance = {[id |-> Provenance(c), capability |-> c] : c \in Capability}
BY DEF BuildGraph, EmptyGraph

\* The groups of any graph, by number.
LEMMA GroupsAre ==
  ASSUME NEW g
  PROVE  /\ DOMAIN Groups(g) = {1, 2, 3, 4, 5, 6, 7, 8, 9, 10}
         /\ Groups(g)[1] = g.subjects /\ Groups(g)[2] = g.facts /\ Groups(g)[3] = g.scopes
         /\ Groups(g)[4] = g.relations /\ Groups(g)[5] = g.associations /\ Groups(g)[6] = g.proofs
         /\ Groups(g)[7] = g.unresolved /\ Groups(g)[8] = g.diagnostics
         /\ Groups(g)[9] = g.provenance /\ Groups(g)[10] = g.coverage
BY DEF Groups

\* The group whose identifiers begin with a tag.
GroupOf(tag) ==
  IF tag = "subject" THEN 1
  ELSE IF tag \in {"fact", "evidence"} THEN 2
  ELSE IF tag = "scope" THEN 3
  ELSE IF tag = "relation" THEN 4
  ELSE IF tag = "association" THEN 5
  ELSE IF tag = "proof" THEN 6
  ELSE IF tag \in {"unresolved", "ambiguous-mount", "doubt"} THEN 7
  ELSE IF tag = "provenance" THEN 9
  ELSE 10

\* A fact is an endpoint or the evidence of a mark.
LEMMA FactIs ==
  ASSUME NEW src, IsProgram(src), NEW x \in Facts(src)
  PROVE  \/ x.id[1] = "fact" /\ x.kind = "endpoint_declaration" /\ \E r \in Routes(src) : x = Endpoint(src, r)
         \/ x.id[1] \in {"fact", "evidence"} /\ x.kind \in Kinds /\ x.derived = {} /\ x.path = None
            /\ \E c \in Marks(src, x.kind) : x = Evidence(x.kind, src, c)
<1>1. CASE \E r \in Routes(src) : x = Endpoint(src, r)
  <2>1. PICK r \in Routes(src) : x = Endpoint(src, r)
    BY <1>1
  <2>2. x.id[1] = "fact" /\ x.kind = "endpoint_declaration"
    BY <2>1, EndpointIs
  <2> QED
    BY <2>1, <2>2
<1>2. CASE \E k \in Kinds : \E c \in Marks(src, k) : x = Evidence(k, src, c)
  <2>1. PICK k \in Kinds : \E c \in Marks(src, k) : x = Evidence(k, src, c)
    BY <1>2
  <2>2. PICK c \in Marks(src, k) : x = Evidence(k, src, c)
    BY <2>1
  <2>3. x.kind = k /\ x.derived = {} /\ x.path = None /\ x.id = EvidenceId(k, src, c)
    BY <2>2, EvidenceIs
  <2>4. x.id[1] \in {"fact", "evidence"}
    BY <2>3, EvidenceIdIs
  <2> QED
    BY <2>2, <2>3, <2>4
<1> QED
  BY <1>1, <1>2, ByMark

\* A scope is a receiver's or a route's, the latter within the former.
LEMMA ScopeIs ==
  ASSUME NEW src, NEW x \in Scopes(src)
  PROVE  /\ x.id[1] = "scope" /\ x.derived = {}
         /\ \/ \E s \in AllKept(src) : /\ x.id = RecvScope(s) /\ x.kind = "component"
                                       /\ x.subject = RecvSubject(s) /\ x.parent = None
            \/ \E r \in Routes(src) : /\ x.id = RouteScope(src, r) /\ x.kind = "route"
                                      /\ x.subject = RouteSubject(src, r)
                                      /\ x.parent = RecvScope(RecvOf(src, r))
<1>1. ASSUME NEW s \in AllKept(src),
             x = [id |-> RecvScope(s), kind |-> "component", subject |-> RecvSubject(s), parent |-> None,
                  span |-> s, derived |-> {}]
      PROVE  x.id[1] = "scope" /\ x.derived = {} /\ x.id = RecvScope(s) /\ x.kind = "component"
             /\ x.subject = RecvSubject(s) /\ x.parent = None
  BY <1>1, IdIs DEF RecvScope
<1>2. ASSUME NEW r \in Routes(src),
             x = [id |-> RouteScope(src, r), kind |-> "route", subject |-> RouteSubject(src, r),
                  parent |-> RecvScope(RecvOf(src, r)), span |-> r, derived |-> {}]
      PROVE  x.id[1] = "scope" /\ x.derived = {} /\ x.id = RouteScope(src, r) /\ x.kind = "route"
             /\ x.subject = RouteSubject(src, r) /\ x.parent = RecvScope(RecvOf(src, r))
  BY <1>2, IdIs DEF RouteScope
<1> QED
  BY <1>1, <1>2 DEF Scopes

\* Every association is of a mark.
LEMMA AssociationOfMark ==
  ASSUME NEW src, NEW x \in Associations(src)
  PROVE  \E k \in Kinds : \E c \in Marks(src, k) : x = Association(k, src, c)
BY ByMark

\* A record's identifier says which group it is of.
LEMMA TagsAre ==
  ASSUME NEW src, IsProgram(src), NEW k \in DOMAIN Groups(BuildGraph(src)), NEW x \in Groups(BuildGraph(src))[k]
  PROVE  GroupOf(x.id[1]) = k
<1> DEFINE g == BuildGraph(src)
<1>1. /\ g.subjects = Subjects(src) /\ g.facts = Facts(src) /\ g.scopes = Scopes(src)
      /\ g.relations = Relations(src) /\ g.associations = Associations(src) /\ g.proofs = Proofs(src)
      /\ g.unresolved = LeftOpen(src) /\ g.diagnostics = {} /\ g.coverage = Coverage(src)
      /\ g.provenance = {[id |-> Provenance(c), capability |-> c] : c \in Capability}
  BY GraphIs
<1>2. k \in {1, 2, 3, 4, 5, 6, 7, 8, 9, 10} /\ x \in Groups(g)[k]
  BY GroupsAre
<1> HIDE DEF g
<1>3. /\ Groups(g)[1] = g.subjects /\ Groups(g)[2] = g.facts /\ Groups(g)[3] = g.scopes
      /\ Groups(g)[4] = g.relations /\ Groups(g)[5] = g.associations /\ Groups(g)[6] = g.proofs
      /\ Groups(g)[7] = g.unresolved /\ Groups(g)[8] = g.diagnostics
      /\ Groups(g)[9] = g.provenance /\ Groups(g)[10] = g.coverage
  BY GroupsAre
<1>4. k = 1 => x.id[1] = "subject"
  BY <1>1, <1>2, <1>3, SubjectIs
<1>5. k = 2 => x.id[1] \in {"fact", "evidence"}
  BY <1>1, <1>2, <1>3, FactIs
<1>6. k = 3 => x.id[1] = "scope"
  BY <1>1, <1>2, <1>3, ScopeIs
<1>7. ASSUME k = 4 PROVE x.id[1] = "relation"
  <2>1. x \in Relations(src)
    BY <1>1, <1>2, <1>3, <1>7
  <2> QED
    BY <2>1, RelationIs
<1>8. ASSUME k = 5 PROVE x.id[1] = "association"
  <2>1. PICK l \in Kinds : \E c \in Marks(src, l) : x = Association(l, src, c)
    BY <1>1, <1>2, <1>3, <1>8, AssociationOfMark
  <2>2. PICK c \in Marks(src, l) : x = Association(l, src, c)
    BY <2>1
  <2>3. x.id = Named("association", l, src, c)
    BY <2>2, AssociationIs
  <2> QED
    BY <2>3, NamedIs
<1>9. ASSUME k = 6 PROVE x.id[1] = "proof"
  <2>1. PICK l \in Proving : \E c \in Marks(src, l) : x = ProofOf(ProofKind(l), l, src, c)
    BY <1>1, <1>2, <1>3, <1>9, ProofIs
  <2>2. PICK c \in Marks(src, l) : x = ProofOf(ProofKind(l), l, src, c)
    BY <2>1
  <2>3. x.id = Named("proof", ProofKind(l), src, c)
    BY <2>2, ProofOfIs
  <2> QED
    BY <2>3, NamedIs
<1>10. k = 7 => x.id[1] \in {"unresolved", "ambiguous-mount", "doubt"}
  BY <1>1, <1>2, <1>3, LeftOpenIs
<1>11. k # 8
  BY <1>1, <1>2, <1>3
<1>12. ASSUME k = 9 PROVE x.id[1] = "provenance"
  <2>1. PICK c \in Capability : x = [id |-> Provenance(c), capability |-> c]
    BY <1>1, <1>2, <1>3, <1>12
  <2> QED
    BY <2>1 DEF Provenance
<1>13. ASSUME k = 10 PROVE x.id[1] = "coverage"
  <2>1. PICK r \in Routes(src), c \in Capability : x.id = <<"coverage", EndpointId(src, r), c>>
    BY <1>1, <1>2, <1>3, <1>13, CoverageIs
  <2> QED
    BY <2>1
<1> QED
  BY <1>2, <1>4, <1>5, <1>6, <1>7, <1>8, <1>9, <1>10, <1>11, <1>12, <1>13 DEF GroupOf

\* The first rule of the validator: no identifier is used twice, in one group or across groups.
LEMMA IdsAreUnique ==
  ASSUME NEW src, IsProgram(src)
  PROVE  UniqueIds(BuildGraph(src))
<1> DEFINE g == BuildGraph(src)
<1>1. /\ g.subjects = Subjects(src) /\ g.facts = Facts(src) /\ g.scopes = Scopes(src)
      /\ g.relations = Relations(src) /\ g.associations = Associations(src) /\ g.proofs = Proofs(src)
      /\ g.unresolved = LeftOpen(src) /\ g.diagnostics = {} /\ g.coverage = Coverage(src)
      /\ g.provenance = {[id |-> Provenance(c), capability |-> c] : c \in Capability}
  BY GraphIs
<1>2. SUFFICES ASSUME NEW k \in DOMAIN Groups(g), NEW l \in DOMAIN Groups(g),
                      NEW x \in Groups(g)[k], NEW y \in Groups(g)[l], x.id = y.id
               PROVE  k = l /\ x = y
  BY DEF UniqueIds
<1>3. k = l
  BY <1>2, TagsAre
<1>4. k \in {1, 2, 3, 4, 5, 6, 7, 8, 9, 10}
  BY GroupsAre
<1>5. x \in Groups(g)[k] /\ y \in Groups(g)[k] /\ x.id = y.id
  BY <1>2, <1>3
<1> HIDE DEF g
<1>6. /\ Groups(g)[1] = g.subjects /\ Groups(g)[2] = g.facts /\ Groups(g)[3] = g.scopes
      /\ Groups(g)[4] = g.relations /\ Groups(g)[5] = g.associations /\ Groups(g)[6] = g.proofs
      /\ Groups(g)[7] = g.unresolved /\ Groups(g)[8] = g.diagnostics
      /\ Groups(g)[9] = g.provenance /\ Groups(g)[10] = g.coverage
  BY GroupsAre
<1>7. k \in {1, 2, 3, 4, 5} => x = y
  BY <1>1, <1>5, <1>6, OneSubject, OneFact, OneScope, OneRelation, OneAssociation
<1>8. k \in {6, 7, 8, 10} => x = y
  BY <1>1, <1>5, <1>6, OneProof, OneOpen, OneCoverage
<1>9. ASSUME k = 9 PROVE x = y
  <2>1. PICK c \in Capability : x = [id |-> Provenance(c), capability |-> c]
    BY <1>1, <1>5, <1>6, <1>9
  <2>2. PICK d \in Capability : y = [id |-> Provenance(d), capability |-> d]
    BY <1>1, <1>5, <1>6, <1>9
  <2>3. Provenance(c) = Provenance(d)
    BY <1>5, <2>1, <2>2
  <2> QED
    BY <2>1, <2>2, <2>3 DEF Provenance
<1> QED
  BY <1>3, <1>4, <1>7, <1>8, <1>9

-----------------------------------------------------------------------------
(* References *)

\* The mount tables are finite.
LEMMA FiniteTables ==
  ASSUME NEW src, IsProgram(src)
  PROVE  IsFiniteSet(LocalTable(src)) /\ IsFiniteSet(ExternalTable(src)) /\ IsFiniteSet(ExternalMounts(src))
<1> DEFINE L == {t \in LocalMounts(src) : At(src, t).prefix # Computed}
           local == [s \in L |->
              [child |-> Receiver(src, s[1], At(src, s).child), parent |-> Receiver(src, s[1], At(src, s).recv),
               prefix |-> At(src, s).prefix, relation |-> MountRelation(s)]]
           X == ExternalMounts(src)
           outer == [s \in X |->
              [child |-> Exported(src, At(src, s).file, Export[At(src, s).file]),
               parent |-> Exported(src, s[1], At(src, s).recv),
               prefix |-> At(src, s).prefix, relation |-> MountRelation(s)]]
<1>1. IsFiniteSet(L) /\ IsFiniteSet(X)
  <2>1. L \subseteq Positions(src) /\ X \subseteq Positions(src)
    BY DEF LocalMounts, ExternalMounts
  <2> QED
    BY <2>1, FinitePositions, FS_Subset
<1>2. IsFiniteSet({local[s] : s \in DOMAIN local})
  BY <1>1, FiniteImage
<1>3. IsFiniteSet({outer[s] : s \in DOMAIN outer})
  BY <1>1, FiniteImage
<1>4. LocalTable(src) = {local[s] : s \in DOMAIN local}
  BY DEF LocalTable
<1>5. ExternalTable(src) = {outer[s] : s \in DOMAIN outer}
  BY DEF ExternalTable
<1> QED
  BY <1>1, <1>2, <1>3, <1>4, <1>5

\* What records are called names a record.
LEMMA OfReceivers ==
  ASSUME NEW src, NEW s \in AllKept(src)
  PROVE  RecvSubject(s) \in IdsOf(Subjects(src)) /\ RecvScope(s) \in IdsOf(Scopes(src))
<1>1. SubjectReceiver(src, s) \in Subjects(src)
  BY DEF Subjects, SubjectReceiver
<1>2. SubjectReceiver(src, s).id = RecvSubject(s)
  BY DEF SubjectReceiver, Subj
<1>3. PICK x \in Scopes(src) : x = [id |-> RecvScope(s), kind |-> "component", subject |-> RecvSubject(s),
                                    parent |-> None, span |-> s, derived |-> {}]
  BY DEF Scopes
<1> QED
  BY <1>1, <1>2, <1>3 DEF IdsOf

\* The records a route leaves behind.
LEMMA OfRoutes ==
  ASSUME NEW src, NEW r \in Routes(src)
  PROVE  /\ RouteSubject(src, r) \in IdsOf(Subjects(src)) /\ RouteScope(src, r) \in IdsOf(Scopes(src))
         /\ Endpoint(src, r) \in Facts(src) /\ EndpointId(src, r) \in IdsOf(Facts(src))
         /\ \A j \in DOMAIN HandlersOf(src, r) :
              HandlerSubject(src, r, j) \in IdsOf(Subjects(src)) /\ HandlerRelation(src, r, j) \in IdsOf(Relations(src))
         /\ At(src, r).public => /\ PublicSubject(r) \in IdsOf(Subjects(src))
                                 /\ PublicRelation(src, r) \in IdsOf(Relations(src))
<1>1. RouteSubject(src, r) \in IdsOf(Subjects(src))
  <2>1. SubjectRoute(src, r) \in Subjects(src)
    BY DEF Subjects, SubjectRoute
  <2>2. SubjectRoute(src, r).id = RouteSubject(src, r)
    BY DEF SubjectRoute, Subj
  <2> QED
    BY <2>1, <2>2 DEF IdsOf
<1>2. RouteScope(src, r) \in IdsOf(Scopes(src))
  <2>1. PICK x \in Scopes(src) : x = [id |-> RouteScope(src, r), kind |-> "route", subject |-> RouteSubject(src, r),
                                      parent |-> RecvScope(RecvOf(src, r)), span |-> r, derived |-> {}]
    BY DEF Scopes
  <2> QED
    BY <2>1 DEF IdsOf
<1>3. Endpoint(src, r) \in Facts(src) /\ EndpointId(src, r) \in IdsOf(Facts(src))
  <2>1. Endpoint(src, r) \in Facts(src)
    BY DEF Facts
  <2> QED
    BY <2>1, EndpointIs DEF IdsOf
<1>4. ASSUME NEW j \in DOMAIN HandlersOf(src, r)
      PROVE  HandlerSubject(src, r, j) \in IdsOf(Subjects(src)) /\ HandlerRelation(src, r, j) \in IdsOf(Relations(src))
  <2> DEFINE h == <<r, j>>
  <2>1. h \in RoutesAndHandlers(src) /\ h[1] = r /\ h[2] = j
    BY DEF RoutesAndHandlers
  <2> HIDE DEF h
  <2>2. SubjectHandler(src, h) \in Subjects(src) /\ RelationHandler(src, h) \in Relations(src)
    BY <2>1 DEF Subjects, SubjectHandler, Relations, RelationHandler
  <2>3. SubjectHandler(src, h).id = HandlerSubject(src, r, j) /\ RelationHandler(src, h).id = HandlerRelation(src, r, j)
    BY <2>1 DEF SubjectHandler, Subj, RelationHandler, Rel
  <2> QED
    BY <2>2, <2>3 DEF IdsOf
<1>5. ASSUME At(src, r).public
      PROVE  PublicSubject(r) \in IdsOf(Subjects(src)) /\ PublicRelation(src, r) \in IdsOf(Relations(src))
  <2>1. r \in Public(src)
    BY <1>5 DEF Public
  <2>2. SubjectPublic(src, r) \in Subjects(src) /\ RelationPublic(src, r) \in Relations(src)
    BY <2>1 DEF Subjects, SubjectPublic, Relations, RelationPublic
  <2>3. SubjectPublic(src, r).id = PublicSubject(r) /\ RelationPublic(src, r).id = PublicRelation(src, r)
    BY DEF SubjectPublic, Subj, RelationPublic, Rel
  <2> QED
    BY <2>2, <2>3 DEF IdsOf
<1> QED
  BY <1>1, <1>2, <1>3, <1>4, <1>5

\* The subjects of middlewares.
LEMMA OfMiddlewares ==
  ASSUME NEW src
  PROVE  /\ \A s \in Uses(src) : UseSubject(s) \in IdsOf(Subjects(src))
         /\ \A m \in MountMiddlewares(src) : MountMwSubject(m) \in IdsOf(Subjects(src))
<1>1. ASSUME NEW s \in Uses(src) PROVE UseSubject(s) \in IdsOf(Subjects(src))
  <2>1. SubjectUse(src, s) \in Subjects(src)
    BY DEF Subjects, SubjectUse
  <2>2. SubjectUse(src, s).id = UseSubject(s)
    BY DEF SubjectUse, Subj
  <2> QED
    BY <2>1, <2>2 DEF IdsOf
<1>2. ASSUME NEW m \in MountMiddlewares(src) PROVE MountMwSubject(m) \in IdsOf(Subjects(src))
  <2>1. SubjectMountMw(src, m) \in Subjects(src)
    BY DEF Subjects, SubjectMountMw
  <2>2. SubjectMountMw(src, m).id = MountMwSubject(m)
    BY DEF SubjectMountMw, Subj
  <2> QED
    BY <2>1, <2>2 DEF IdsOf
<1> QED
  BY <1>1, <1>2

\* The mounts a path is made of have relations.
LEMMA MountsAreRelated ==
  ASSUME NEW src, IsProgram(src), NEW r
  PROVE  /\ LocalPath(src, r).relations \subseteq IdsOf(Relations(src))
         /\ ExternalPath(src, r).relations \subseteq IdsOf(Relations(src))
<1>1. ASSUME NEW m \in LocalTable(src) \cup ExternalTable(src)
      PROVE  m.relation \in IdsOf(Relations(src))
  <2>1. RelationMount(src, m) \in Relations(src)
    BY DEF Relations, RelationMount
  <2>2. RelationMount(src, m).id = m.relation
    BY DEF RelationMount, Rel
  <2> QED
    BY <2>1, <2>2 DEF IdsOf
<1>2. LocalPath(src, r).relations \subseteq {m.relation : m \in LocalTable(src)}
  BY FiniteTables, MountPathIs DEF LocalPath
<1>3. ExternalPath(src, r).relations \subseteq {m.relation : m \in ExternalTable(src)}
  BY FiniteTables, MountPathIs DEF ExternalPath
<1> QED
  BY <1>1, <1>2, <1>3

\* The records a mark refers to and leaves behind.
LEMMA OfMarks ==
  ASSUME NEW src, IsProgram(src), NEW k \in Kinds, NEW c \in Marks(src, k)
  PROVE  /\ c[2] \in IdsOf(Subjects(src)) /\ c[3] \in IdsOf(Relations(src))
         /\ EndpointId(src, c[1]) \in IdsOf(Facts(src)) /\ RouteScope(src, c[1]) \in IdsOf(Scopes(src))
         /\ Evidence(k, src, c) \in Facts(src) /\ EvidenceId(k, src, c) \in IdsOf(Facts(src))
         /\ Association(k, src, c) \in Associations(src)
         /\ Named("association", k, src, c) \in IdsOf(Associations(src))
<1>1. c[2] \in IdsOf(Subjects(src)) /\ c[3] \in IdsOf(Relations(src))
  <2>1. \E x \in Subjects(src) : x.id = c[2]
    BY MarkIs
  <2>2. \E x \in Relations(src) : x.id = c[3]
    BY MarkIs
  <2> QED
    BY <2>1, <2>2 DEF IdsOf
<1>2. c[1] \in Routes(src)
  BY MarkIs
<1>3. Evidence(k, src, c) \in Facts(src) /\ Association(k, src, c) \in Associations(src)
  BY ByMark
<1>4. EvidenceId(k, src, c) \in IdsOf(Facts(src))
  BY <1>3, EvidenceIs DEF IdsOf
<1>5. Named("association", k, src, c) \in IdsOf(Associations(src))
  BY <1>3, AssociationIs DEF IdsOf
<1> QED
  BY <1>1, <1>2, <1>3, <1>4, <1>5, OfRoutes

\* Endpoints refer to relations of the program.
LEMMA EndpointRests ==
  ASSUME NEW src, IsProgram(src), NEW r \in Routes(src)
  PROVE  Endpoint(src, r).derived \subseteq IdsOf(Relations(src))
<1>1. OwnReferences(src, r) \subseteq IdsOf(Relations(src))
  BY OfRoutes DEF OwnReferences
<1>2. Endpoint(src, r).derived =
        OwnReferences(src, r) \cup LocalPath(src, r).relations
          \cup (IF ExternalPath(src, r).ambiguous THEN {} ELSE ExternalPath(src, r).relations)
  BY DEF Endpoint
<1> QED
  BY <1>1, <1>2, MountsAreRelated

\* The groups of any graph that carry derived_from.
LEMMA DerivableIs ==
  ASSUME NEW g
  PROVE  /\ DOMAIN Derivable(g) = {1, 2, 3, 4, 5, 6, 7, 8}
         /\ Derivable(g)[1] = g.subjects /\ Derivable(g)[2] = g.facts /\ Derivable(g)[3] = g.scopes
         /\ Derivable(g)[4] = g.relations /\ Derivable(g)[5] = g.associations /\ Derivable(g)[6] = g.proofs
         /\ Derivable(g)[7] = g.unresolved /\ Derivable(g)[8] = g.diagnostics
BY DEF Derivable

\* What is derived from what: endpoints from relations, claims from endpoints, evidence
\* and a relation, proofs and doubts from claims.
DerivesEndpoint(src, i, j) == \E r \in Routes(src) : i = EndpointId(src, r) /\ j \in IdsOf(Relations(src))
DerivesClaim(src, i, j) ==
  \E k \in Kinds : \E c \in Marks(src, k) : i = Named("association", k, src, c)
     /\ j \in {EvidenceId(k, src, c), EndpointId(src, c[1])} \cup (IF k = "auth_ambiguity" THEN {} ELSE {c[3]})
DerivesProof(src, i, j) ==
  \E k \in Proving : \E c \in Marks(src, k) : i = Named("proof", ProofKind(k), src, c)
     /\ j \in {Named("association", k, src, c), EvidenceId(k, src, c), EndpointId(src, c[1]), c[3]}
                \cup (IF k = "auth_enforcement" THEN {Provenance("auth_association")} ELSE {})
DerivesOpen(src, i, j) ==
  \E r \in Routes(src) : i = <<"ambiguous-mount", EndpointId(src, r)>> /\ j \in IdsOf(Relations(src))
DerivesDoubt(src, i, j) ==
  \E c \in Marks(src, "auth_ambiguity") : i = Named("doubt", "auth_ambiguity", src, c)
     /\ j \in {Named("association", "auth_ambiguity", src, c), EvidenceId("auth_ambiguity", src, c)}

\* Every derivation is one of these.
LEMMA DerivationIs ==
  ASSUME NEW src, IsProgram(src), NEW d \in Derivations(BuildGraph(src))
  PROVE  /\ d = <<d[1], d[2]>>
         /\ \/ DerivesEndpoint(src, d[1], d[2]) \/ DerivesClaim(src, d[1], d[2]) \/ DerivesProof(src, d[1], d[2])
            \/ DerivesOpen(src, d[1], d[2]) \/ DerivesDoubt(src, d[1], d[2])
<1> DEFINE g == BuildGraph(src)
<1>1. /\ g.subjects = Subjects(src) /\ g.facts = Facts(src) /\ g.scopes = Scopes(src)
      /\ g.relations = Relations(src) /\ g.associations = Associations(src) /\ g.proofs = Proofs(src)
      /\ g.unresolved = LeftOpen(src) /\ g.diagnostics = {}
  BY GraphIs
<1>2. d \in Derivations(g)
  OBVIOUS
<1> HIDE DEF g
<1>3. PICK n \in DOMAIN Derivable(g) : \E x \in Derivable(g)[n] : \E j \in x.derived : d = <<x.id, j>>
  BY <1>2 DEF Derivations
<1>4. PICK x \in Derivable(g)[n] : \E j \in x.derived : d = <<x.id, j>>
  BY <1>3
<1>5. d = <<d[1], d[2]>> /\ d[1] = x.id /\ d[2] \in x.derived
  BY <1>4
<1>6. n \in {1, 2, 3, 4, 5, 6, 7, 8}
  BY DerivableIs
<1>7. x \in Subjects(src) \/ x \in Facts(src) \/ x \in Scopes(src) \/ x \in Relations(src)
        \/ x \in Associations(src) \/ x \in Proofs(src) \/ x \in LeftOpen(src)
  BY <1>1, <1>4, <1>6, DerivableIs
<1>8. x \notin Subjects(src) /\ x \notin Scopes(src) /\ x \notin Relations(src)
  <2>1. x.derived # {}
    BY <1>5
  <2>2. x \notin Subjects(src)
    BY <2>1, SubjectIs
  <2>3. x \notin Scopes(src)
    BY <2>1, ScopeIs
  <2>4. ASSUME x \in Relations(src) PROVE FALSE
    BY <2>1, <2>4, RelationIs
  <2> QED
    BY <2>2, <2>3, <2>4
<1>9. CASE x \in Facts(src)
  <2>1. x.derived # {}
    BY <1>5
  <2>2. PICK r \in Routes(src) : x = Endpoint(src, r)
    BY <1>9, <2>1, FactIs
  <2>3. d[1] = EndpointId(src, r) /\ d[2] \in IdsOf(Relations(src))
    BY <1>5, <2>2, EndpointIs, EndpointRests
  <2> QED
    BY <1>5, <2>3 DEF DerivesEndpoint
<1>10. CASE x \in Associations(src)
  <2>1. PICK k \in Kinds : \E c \in Marks(src, k) : x = Association(k, src, c)
    BY <1>10, AssociationOfMark
  <2>2. PICK c \in Marks(src, k) : x = Association(k, src, c)
    BY <2>1
  <2>3. /\ d[1] = Named("association", k, src, c)
        /\ d[2] \in {EvidenceId(k, src, c), EndpointId(src, c[1])} \cup (IF k = "auth_ambiguity" THEN {} ELSE {c[3]})
    BY <1>5, <2>2, AssociationIs
  <2> QED
    BY <1>5, <2>3 DEF DerivesClaim
<1>11. CASE x \in Proofs(src)
  <2>1. PICK k \in Proving : \E c \in Marks(src, k) : x = ProofOf(ProofKind(k), k, src, c)
    BY <1>11, ProofIs
  <2>2. PICK c \in Marks(src, k) : x = ProofOf(ProofKind(k), k, src, c)
    BY <2>1
  <2>3. ProofKind(k) = "auth_enforcement" <=> k = "auth_enforcement"
    BY DEF ProofKind, Proving
  <2>4. /\ x.id = Named("proof", ProofKind(k), src, c)
        /\ x.derived = {Named("association", k, src, c), EvidenceId(k, src, c), EndpointId(src, c[1]), c[3]}
             \cup (IF ProofKind(k) = "auth_enforcement" THEN {Provenance("auth_association")} ELSE {})
    BY <2>2, ProofOfIs
  <2>5. /\ d[1] = Named("proof", ProofKind(k), src, c)
        /\ d[2] \in {Named("association", k, src, c), EvidenceId(k, src, c), EndpointId(src, c[1]), c[3]}
             \cup (IF k = "auth_enforcement" THEN {Provenance("auth_association")} ELSE {})
    BY <1>5, <2>3, <2>4
  <2> QED
    BY <1>5, <2>5 DEF DerivesProof
<1>12. CASE x \in LeftOpen(src)
  <2>1. x.derived # {}
    BY <1>5
  <2>2. CASE \E r \in Routes(src) : x = OpenMount(src, r)
    <3>1. PICK r \in Routes(src) : x = OpenMount(src, r)
      BY <2>2
    <3>2. x.id = <<"ambiguous-mount", EndpointId(src, r)>> /\ x.derived = LocalPath(src, r).relations
      BY <3>1 DEF OpenMount, Open
    <3>3. d[1] = <<"ambiguous-mount", EndpointId(src, r)>> /\ d[2] \in IdsOf(Relations(src))
      BY <1>5, <3>2, MountsAreRelated
    <3> QED
      BY <1>5, <3>3 DEF DerivesOpen
  <2>3. CASE \E c \in Marks(src, "auth_ambiguity") : x = OpenDoubt(src, c)
    <3>1. PICK c \in Marks(src, "auth_ambiguity") : x = OpenDoubt(src, c)
      BY <2>3
    <3>2. /\ x.id = Named("doubt", "auth_ambiguity", src, c)
          /\ x.derived = {Named("association", "auth_ambiguity", src, c), EvidenceId("auth_ambiguity", src, c)}
      BY <3>1 DEF OpenDoubt, Open
    <3> QED
      BY <1>5, <3>2 DEF DerivesDoubt
  <2> QED
    BY <1>12, <2>1, <2>2, <2>3, LeftOpenIs
<1> QED
  BY <1>7, <1>8, <1>9, <1>10, <1>11, <1>12

\* The subjects and scopes refer to are of the program.
LEMMA ParentIs ==
  ASSUME NEW src, IsProgram(src), NEW x \in Subjects(src)
  PROVE  x.parent = None \/ x.parent \in IdsOf(Subjects(src))
<1>1. CASE \E s \in AllKept(src) : x = SubjectReceiver(src, s)
  <2>1. PICK s \in AllKept(src) : x = SubjectReceiver(src, s)
    BY <1>1
  <2> QED
    BY <2>1 DEF SubjectReceiver, Subj
<1>2. CASE \E r \in Routes(src) : x = SubjectRoute(src, r)
  <2>1. PICK r \in Routes(src) : x = SubjectRoute(src, r)
    BY <1>2
  <2>2. x.parent = RecvSubject(RecvOf(src, r))
    BY <2>1 DEF SubjectRoute, Subj
  <2>3. RecvOf(src, r) \in AllKept(src)
    BY RouteIs
  <2> QED
    BY <2>2, <2>3, OfReceivers
<1>3. CASE \E h \in RoutesAndHandlers(src) : x = SubjectHandler(src, h)
  <2>1. PICK h \in RoutesAndHandlers(src) : x = SubjectHandler(src, h)
    BY <1>3
  <2>2. x.parent = RouteSubject(src, h[1])
    BY <2>1 DEF SubjectHandler, Subj
  <2>3. h[1] \in Routes(src)
    BY OneHandler
  <2> QED
    BY <2>2, <2>3, OfRoutes
<1>4. CASE \E r \in Public(src) : x = SubjectPublic(src, r)
  <2>1. PICK r \in Public(src) : x = SubjectPublic(src, r)
    BY <1>4
  <2>2. x.parent = RouteSubject(src, r) /\ r \in Routes(src)
    BY <2>1 DEF SubjectPublic, Subj, Public
  <2> QED
    BY <2>2, OfRoutes
<1>5. CASE \E s \in Uses(src) : x = SubjectUse(src, s)
  <2>1. PICK s \in Uses(src) : x = SubjectUse(src, s)
    BY <1>5
  <2>2. x.parent = RecvSubject(Receiver(src, s[1], At(src, s).recv))
    BY <2>1 DEF SubjectUse, Subj
  <2>3. Receiver(src, s[1], At(src, s).recv) \in AllKept(src)
    BY UseIs
  <2> QED
    BY <2>2, <2>3, OfReceivers
<1>6. CASE \E m \in MountMiddlewares(src) : x = SubjectMountMw(src, m)
  <2>1. PICK m \in MountMiddlewares(src) : x = SubjectMountMw(src, m)
    BY <1>6
  <2>2. x.parent = RecvSubject(MountChild(src, m))
    BY <2>1 DEF SubjectMountMw, Subj
  <2>3. MountChild(src, m) \in AllKept(src)
    BY MountMiddlewareIs
  <2> QED
    BY <2>2, <2>3, OfReceivers
<1> QED
  BY <1>1, <1>2, <1>3, <1>4, <1>5, <1>6, SubjectLabels

\* Relations are between subjects and scopes of the program.
LEMMA EndsAre ==
  ASSUME NEW src, IsProgram(src), NEW x \in Relations(src)
  PROVE  {x.source, x.target} \subseteq IdsOf(Subjects(src)) \cup IdsOf(Scopes(src))
<1>1. CASE \E r \in Routes(src) : x = RelationRegistration(src, r)
  <2>1. PICK r \in Routes(src) : x = RelationRegistration(src, r)
    BY <1>1
  <2>2. x.source = RecvScope(RecvOf(src, r)) /\ x.target = RouteScope(src, r)
    BY <2>1 DEF RelationRegistration, RegistrationOf, Rel
  <2>3. RecvOf(src, r) \in AllKept(src)
    BY RouteIs
  <2>4. RecvScope(RecvOf(src, r)) \in IdsOf(Scopes(src))
    BY <2>3, OfReceivers
  <2> QED
    BY <2>2, <2>4, OfRoutes
<1>2. CASE \E h \in RoutesAndHandlers(src) : x = RelationHandler(src, h)
  <2>1. PICK h \in RoutesAndHandlers(src) : x = RelationHandler(src, h)
    BY <1>2
  <2>2. x.source = RouteSubject(src, h[1]) /\ x.target = HandlerSubject(src, h[1], h[2])
    BY <2>1 DEF RelationHandler, Rel
  <2>3. h[1] \in Routes(src) /\ h[2] \in DOMAIN HandlersOf(src, h[1])
    BY OneHandler
  <2> QED
    BY <2>2, <2>3, OfRoutes
<1>3. CASE \E r \in Public(src) : x = RelationPublic(src, r)
  <2>1. PICK r \in Public(src) : x = RelationPublic(src, r)
    BY <1>3
  <2>2. x.source = RouteSubject(src, r) /\ x.target = PublicSubject(r) /\ r \in Routes(src) /\ At(src, r).public
    BY <2>1 DEF RelationPublic, Rel, Public
  <2> QED
    BY <2>2, OfRoutes
<1>4. CASE \E s \in Uses(src) : x = RelationUse(src, s)
  <2>1. PICK s \in Uses(src) : x = RelationUse(src, s)
    BY <1>4
  <2>2. x.source = RecvScope(Receiver(src, s[1], At(src, s).recv)) /\ x.target = UseSubject(s)
    BY <2>1 DEF RelationUse, Rel
  <2>3. Receiver(src, s[1], At(src, s).recv) \in AllKept(src)
    BY UseIs
  <2>4. x.source \in IdsOf(Scopes(src))
    BY <2>2, <2>3, OfReceivers
  <2> QED
    BY <2>2, <2>4, OfMiddlewares
<1>5. CASE \E m \in LocalTable(src) \cup ExternalTable(src) : x = RelationMount(src, m)
  <2>1. PICK m \in LocalTable(src) \cup ExternalTable(src) : x = RelationMount(src, m)
    BY <1>5
  <2>2. x.source = RecvScope(m.parent) /\ x.target = RecvScope(m.child)
    BY <2>1 DEF RelationMount, Rel
  <2>3. m.parent \in AllKept(src) /\ m.child \in AllKept(src)
    BY MountIs
  <2> QED
    BY <2>2, <2>3, OfReceivers
<1>6. CASE \E m \in MountMiddlewares(src) : x = RelationMountMw(src, m)
  <2>1. PICK m \in MountMiddlewares(src) : x = RelationMountMw(src, m)
    BY <1>6
  <2>2. x.source = RecvScope(MountChild(src, m)) /\ x.target = MountMwSubject(m)
    BY <2>1 DEF RelationMountMw, Rel
  <2>3. MountChild(src, m) \in AllKept(src)
    BY MountMiddlewareIs
  <2>4. x.source \in IdsOf(Scopes(src))
    BY <2>2, <2>3, OfReceivers
  <2> QED
    BY <2>2, <2>4, OfMiddlewares
<1> QED
  BY <1>1, <1>2, <1>3, <1>4, <1>5, <1>6, RelationLabels

\* What one group is called is an identifier of the graph.
LEMMA IdsAre ==
  ASSUME NEW g
  PROVE  /\ IdsOf(g.subjects) \subseteq Ids(g) /\ IdsOf(g.facts) \subseteq Ids(g) /\ IdsOf(g.scopes) \subseteq Ids(g)
         /\ IdsOf(g.relations) \subseteq Ids(g) /\ IdsOf(g.associations) \subseteq Ids(g)
         /\ IdsOf(g.proofs) \subseteq Ids(g) /\ IdsOf(g.provenance) \subseteq Ids(g)
<1>1. \A k \in DOMAIN Groups(g) : IdsOf(Groups(g)[k]) \subseteq Ids(g)
  BY DEF Ids
<1> QED
  BY <1>1, GroupsAre

\* Every capability has its provenance record.
LEMMA ProvenanceIs ==
  ASSUME NEW src, NEW c \in Capability
  PROVE  /\ \E p \in BuildGraph(src).provenance : p.id = Provenance(c) /\ p.capability = c
         /\ Provenance(c) \in IdsOf(BuildGraph(src).provenance)
<1>1. [id |-> Provenance(c), capability |-> c] \in BuildGraph(src).provenance
  BY GraphIs
<1>2. PICK p \in BuildGraph(src).provenance : p = [id |-> Provenance(c), capability |-> c]
  BY <1>1
<1>3. p.id = Provenance(c) /\ p.capability = c
  BY <1>2
<1> QED
  BY <1>3 DEF IdsOf

\* The second rule of the validator: every reference is to a record of the graph.
LEMMA ReferencesAreOfTheGraph ==
  ASSUME NEW src, IsProgram(src)
  PROVE  ReferencesAreKnown(BuildGraph(src))
<1> DEFINE g == BuildGraph(src)
<1>1. /\ g.subjects = Subjects(src) /\ g.facts = Facts(src) /\ g.scopes = Scopes(src)
      /\ g.relations = Relations(src) /\ g.associations = Associations(src) /\ g.proofs = Proofs(src)
      /\ g.unresolved = LeftOpen(src) /\ g.diagnostics = {} /\ g.coverage = Coverage(src)
  BY GraphIs
<1>2. \A c \in Capability : /\ \E p \in g.provenance : p.id = Provenance(c) /\ p.capability = c
                            /\ Provenance(c) \in IdsOf(g.provenance)
  BY ProvenanceIs
<1>3. \A d \in Derivations(g) :
        \/ DerivesEndpoint(src, d[1], d[2]) \/ DerivesClaim(src, d[1], d[2]) \/ DerivesProof(src, d[1], d[2])
        \/ DerivesOpen(src, d[1], d[2]) \/ DerivesDoubt(src, d[1], d[2])
  BY DerivationIs
<1> HIDE DEF g
<1>4. /\ IdsOf(Subjects(src)) \subseteq Ids(g) /\ IdsOf(Facts(src)) \subseteq Ids(g) /\ IdsOf(Scopes(src)) \subseteq Ids(g)
      /\ IdsOf(Relations(src)) \subseteq Ids(g) /\ IdsOf(Associations(src)) \subseteq Ids(g)
      /\ IdsOf(g.provenance) \subseteq Ids(g)
  BY <1>1, IdsAre
<1>5. \A s \in g.subjects : KnownOrNone(IdsOf(g.subjects), s.parent)
  BY <1>1, ParentIs DEF KnownOrNone
<1>6. ASSUME NEW f \in g.facts
      PROVE  /\ f.subject \in IdsOf(g.subjects)
             /\ f.kind = "route_identity" => f.derived # {}
             /\ f.path # None => f.kind \in EndpointKinds
  <2>1. CASE \E r \in Routes(src) : f = Endpoint(src, r)
    <3>1. PICK r \in Routes(src) : f = Endpoint(src, r)
      BY <2>1
    <3>2. f.kind = "endpoint_declaration" /\ f.subject = RouteSubject(src, r)
      BY <3>1, EndpointIs
    <3>3. RouteSubject(src, r) \in IdsOf(Subjects(src))
      BY OfRoutes
    <3> QED
      BY <1>1, <3>2, <3>3 DEF EndpointKinds
  <2>2. CASE \E k \in Kinds : \E c \in Marks(src, k) : f = Evidence(k, src, c)
    <3>1. PICK k \in Kinds : \E c \in Marks(src, k) : f = Evidence(k, src, c)
      BY <2>2
    <3>2. PICK c \in Marks(src, k) : f = Evidence(k, src, c)
      BY <3>1
    <3>3. f.kind = k /\ f.subject = c[2] /\ f.path = None
      BY <3>2, EvidenceIs
    <3>4. c[2] \in IdsOf(Subjects(src))
      BY OfMarks
    <3> QED
      BY <1>1, <3>3, <3>4 DEF Kinds
  <2> QED
    BY <1>1, <2>1, <2>2, ByMark
<1>7. ASSUME NEW s \in g.scopes
      PROVE  s.subject \in IdsOf(g.subjects) /\ KnownOrNone(IdsOf(g.scopes), s.parent)
  <2>1. CASE \E t \in AllKept(src) : s.subject = RecvSubject(t) /\ s.parent = None
    BY <1>1, <2>1, OfReceivers DEF KnownOrNone
  <2>2. CASE \E r \in Routes(src) : s.subject = RouteSubject(src, r) /\ s.parent = RecvScope(RecvOf(src, r))
    <3>1. PICK r \in Routes(src) : s.subject = RouteSubject(src, r) /\ s.parent = RecvScope(RecvOf(src, r))
      BY <2>2
    <3>2. RouteSubject(src, r) \in IdsOf(Subjects(src)) /\ RecvOf(src, r) \in AllKept(src)
      BY OfRoutes, RouteIs
    <3>3. RecvScope(RecvOf(src, r)) \in IdsOf(Scopes(src))
      BY <3>2, OfReceivers
    <3> QED
      BY <1>1, <3>1, <3>2, <3>3 DEF KnownOrNone
  <2> QED
    BY <1>1, <2>1, <2>2, ScopeIs
<1>8. \A r \in g.relations : {r.source, r.target} \subseteq Ids(g)
  BY <1>1, <1>4, EndsAre
<1>9. ASSUME NEW x \in g.unresolved \cup g.diagnostics PROVE KnownOrNone(Ids(g), x.subject)
  <2>1. x \in LeftOpen(src)
    BY <1>1
  <2>2. CASE x.subject # None => \E t \in AllKept(src) : x.subject = RecvSubject(t)
    BY <1>4, <2>2, OfReceivers DEF KnownOrNone
  <2>3. CASE \E r \in Routes(src) : x = OpenMount(src, r)
    <3>1. PICK r \in Routes(src) : x = OpenMount(src, r)
      BY <2>3
    <3>2. x.subject = EndpointId(src, r)
      BY <3>1 DEF OpenMount, Open
    <3>3. EndpointId(src, r) \in IdsOf(Facts(src))
      BY OfRoutes
    <3> QED
      BY <1>4, <3>2, <3>3 DEF KnownOrNone
  <2>4. CASE \E c \in Marks(src, "auth_ambiguity") : x = OpenDoubt(src, c)
    <3>1. PICK c \in Marks(src, "auth_ambiguity") : x = OpenDoubt(src, c)
      BY <2>4
    <3>2. x.subject = EndpointId(src, c[1])
      BY <3>1 DEF OpenDoubt, Open
    <3>3. EndpointId(src, c[1]) \in IdsOf(Facts(src))
      BY OfMarks DEF Kinds
    <3> QED
      BY <1>4, <3>2, <3>3 DEF KnownOrNone
  <2> QED
    BY <2>1, <2>2, <2>3, <2>4, LeftOpenIs
<1>10. ASSUME NEW x \in g.coverage
       PROVE  x.target \in Ids(g) /\ \E p \in g.provenance : p.id = x.provenance /\ p.capability = x.capability
  <2>1. PICK r \in Routes(src), c \in Capability :
          x.target = EndpointId(src, r) /\ x.capability = c /\ x.provenance = Provenance(c)
    BY <1>1, CoverageIs
  <2>2. EndpointId(src, r) \in Ids(g)
    BY <1>4, OfRoutes
  <2> QED
    BY <1>2, <2>1, <2>2
<1>11. ASSUME NEW d \in Derivations(g) PROVE d[2] \in Ids(g)
  <2>0. Provenance("auth_association") \in Ids(g)
    BY <1>2, <1>4 DEF Capability
  <2>1. CASE DerivesEndpoint(src, d[1], d[2])
    BY <1>4, <2>1 DEF DerivesEndpoint
  <2>2. CASE DerivesClaim(src, d[1], d[2])
    <3>1. PICK k \in Kinds : \E c \in Marks(src, k) : 
            d[2] \in {EvidenceId(k, src, c), EndpointId(src, c[1])} \cup (IF k = "auth_ambiguity" THEN {} ELSE {c[3]})
      BY <2>2 DEF DerivesClaim
    <3>2. PICK c \in Marks(src, k) : 
            d[2] \in {EvidenceId(k, src, c), EndpointId(src, c[1])} \cup (IF k = "auth_ambiguity" THEN {} ELSE {c[3]})
      BY <3>1
    <3>3. d[2] \in {EvidenceId(k, src, c), EndpointId(src, c[1]), c[3]}
      BY <3>2
    <3> QED
      BY <1>4, <3>3, OfMarks
  <2>3. CASE DerivesProof(src, d[1], d[2])
    <3>1. PICK k \in Proving : \E c \in Marks(src, k) :
            d[2] \in {Named("association", k, src, c), EvidenceId(k, src, c), EndpointId(src, c[1]), c[3]}
                       \cup (IF k = "auth_enforcement" THEN {Provenance("auth_association")} ELSE {})
      BY <2>3 DEF DerivesProof
    <3>2. PICK c \in Marks(src, k) :
            d[2] \in {Named("association", k, src, c), EvidenceId(k, src, c), EndpointId(src, c[1]), c[3]}
                       \cup (IF k = "auth_enforcement" THEN {Provenance("auth_association")} ELSE {})
      BY <3>1
    <3>3. \/ d[2] \in {Named("association", k, src, c), EvidenceId(k, src, c), EndpointId(src, c[1]), c[3]}
          \/ d[2] = Provenance("auth_association")
      BY <3>2
    <3>4. k \in Kinds
      BY DEF Proving, Kinds
    <3> QED
      BY <1>4, <2>0, <3>3, <3>4, OfMarks
  <2>4. CASE DerivesOpen(src, d[1], d[2])
    BY <1>4, <2>4 DEF DerivesOpen
  <2>5. CASE DerivesDoubt(src, d[1], d[2])
    <3>1. PICK c \in Marks(src, "auth_ambiguity") :
            d[2] \in {Named("association", "auth_ambiguity", src, c), EvidenceId("auth_ambiguity", src, c)}
      BY <2>5 DEF DerivesDoubt
    <3> QED
      BY <1>4, <3>1, OfMarks DEF Kinds
  <2> QED
    BY <1>3, <2>1, <2>2, <2>3, <2>4, <2>5
<1>12. ReferencesAreKnown(g)
  BY <1>5, <1>6, <1>7, <1>8, <1>9, <1>10, <1>11 DEF ReferencesAreKnown
<1> QED
  BY <1>12 DEF g

-----------------------------------------------------------------------------
(* A program has finitely many records *)

\* The union of finitely many finite sets.
LEMMA FiniteUnion ==
  ASSUME NEW f, IsFiniteSet(DOMAIN f), \A x \in DOMAIN f : IsFiniteSet(f[x])
  PROVE  IsFiniteSet(UNION {f[x] : x \in DOMAIN f})
<1>1. IsFiniteSet({f[x] : x \in DOMAIN f})
  BY FiniteImage
<1>2. \A T \in {f[x] : x \in DOMAIN f} : IsFiniteSet(T)
  OBVIOUS
<1> QED
  BY <1>1, <1>2, FS_UNION

\* Statements leave finitely many receivers, routes, middlewares and handlers.
LEMMA FiniteStatements ==
  ASSUME NEW src, IsProgram(src)
  PROVE  /\ IsFiniteSet(AllKept(src)) /\ IsFiniteSet(Routes(src)) /\ IsFiniteSet(Public(src))
         /\ IsFiniteSet(Uses(src)) /\ IsFiniteSet(MountMiddlewares(src)) /\ IsFiniteSet(RoutesAndHandlers(src))
<1>0. IsFiniteSet(Positions(src))
  BY FinitePositions
<1>1. IsFiniteSet(AllKept(src)) /\ IsFiniteSet(Uses(src))
  <2>1. AllKept(src) \subseteq Positions(src) /\ Uses(src) \subseteq Positions(src)
    BY DEF AllKept, Uses
  <2> QED
    BY <1>0, <2>1, FS_Subset
<1>2. IsFiniteSet(Routes(src))
  <2> DEFINE S == {t \in Positions(src) : /\ At(src, t).op = "route" /\ At(src, t).path # Computed
                                          /\ Receiver(src, t[1], At(src, t).recv) # None}
             h(s) == {<<s[1], s[2], k>> : k \in DOMAIN At(src, s).calls}
             f == [s \in S |-> h(s)]
  <2>1. IsFiniteSet(S)
    BY <1>0, FS_Subset
  <2>2. ASSUME NEW s \in S PROVE IsFiniteSet(h(s))
    <3>1. InARow(At(src, s).calls)
      BY DEF IsProgram, WellFormed
    <3>2. IsFiniteSet(DOMAIN At(src, s).calls)
      BY <3>1, RowIs
    <3> DEFINE e == [k \in DOMAIN At(src, s).calls |-> <<s[1], s[2], k>>]
    <3>3. IsFiniteSet({e[k] : k \in DOMAIN e})
      BY <3>2, FiniteImage
    <3>4. h(s) = {e[k] : k \in DOMAIN e}
      OBVIOUS
    <3> QED
      BY <3>3, <3>4
  <2>3. Routes(src) = UNION {h(s) : s \in S}
    BY DEF Routes
  <2> HIDE DEF S, h
  <2>4. IsFiniteSet(UNION {f[s] : s \in DOMAIN f})
    BY <2>1, <2>2, FiniteUnion
  <2>5. {h(s) : s \in S} = {f[s] : s \in DOMAIN f}
    OBVIOUS
  <2> QED
    BY <2>3, <2>4, <2>5
<1>3. IsFiniteSet(Public(src))
  BY <1>2, FS_Subset DEF Public
<1>4. IsFiniteSet(MountMiddlewares(src))
  <2> DEFINE S == ExternalMounts(src)
             h(s) == {<<s[1], s[2], j>> : j \in DOMAIN At(src, s).mws}
             f == [s \in S |-> h(s)]
  <2>1. IsFiniteSet(S)
    BY FiniteTables
  <2>2. ASSUME NEW s \in S PROVE IsFiniteSet(h(s))
    <3>1. s \in Positions(src) /\ At(src, s).op = "mount"
      BY DEF ExternalMounts
    <3>2. InARow(At(src, s).mws)
      BY <3>1 DEF IsProgram, WellFormed
    <3>3. IsFiniteSet(DOMAIN At(src, s).mws)
      BY <3>2, RowIs
    <3> DEFINE e == [k \in DOMAIN At(src, s).mws |-> <<s[1], s[2], k>>]
    <3>4. IsFiniteSet({e[k] : k \in DOMAIN e})
      BY <3>3, FiniteImage
    <3>5. h(s) = {e[k] : k \in DOMAIN e}
      OBVIOUS
    <3> QED
      BY <3>4, <3>5
  <2>3. MountMiddlewares(src) = UNION {h(s) : s \in S}
    BY DEF MountMiddlewares
  <2> HIDE DEF S, h
  <2>4. IsFiniteSet(UNION {f[s] : s \in DOMAIN f})
    BY <2>1, <2>2, FiniteUnion
  <2>5. {h(s) : s \in S} = {f[s] : s \in DOMAIN f}
    OBVIOUS
  <2> QED
    BY <2>3, <2>4, <2>5
<1>5. IsFiniteSet(RoutesAndHandlers(src))
  <2> DEFINE S == Routes(src)
             h(r) == {<<r, j>> : j \in DOMAIN HandlersOf(src, r)}
             f == [r \in S |-> h(r)]
  <2>2. ASSUME NEW r \in S PROVE IsFiniteSet(h(r))
    <3>1. IsFiniteSet(DOMAIN HandlersOf(src, r))
      BY RouteIs
    <3> DEFINE e == [k \in DOMAIN HandlersOf(src, r) |-> <<r, k>>]
    <3>2. IsFiniteSet({e[k] : k \in DOMAIN e})
      BY <3>1, FiniteImage
    <3>3. h(r) = {e[k] : k \in DOMAIN e}
      OBVIOUS
    <3> QED
      BY <3>2, <3>3
  <2>3. RoutesAndHandlers(src) = UNION {h(r) : r \in S}
    BY DEF RoutesAndHandlers
  <2> HIDE DEF h
  <2>4. IsFiniteSet(UNION {f[r] : r \in DOMAIN f})
    BY <1>2, <2>2, FiniteUnion
  <2>5. {h(r) : r \in S} = {f[r] : r \in DOMAIN f}
    OBVIOUS
  <2> QED
    BY <2>3, <2>4, <2>5
<1> QED
  BY <1>1, <1>2, <1>3, <1>4, <1>5

\* Finitely many subjects.
LEMMA FiniteSubjects ==
  ASSUME NEW src, IsProgram(src)
  PROVE  IsFiniteSet(Subjects(src))
<1> DEFINE a == [s \in AllKept(src) |-> SubjectReceiver(src, s)]
           b == [r \in Routes(src) |-> SubjectRoute(src, r)]
           c == [h \in RoutesAndHandlers(src) |-> SubjectHandler(src, h)]
           d == [r \in Public(src) |-> SubjectPublic(src, r)]
           e == [s \in Uses(src) |-> SubjectUse(src, s)]
           f == [m \in MountMiddlewares(src) |-> SubjectMountMw(src, m)]
           A == {a[x] : x \in DOMAIN a}
           B == {b[x] : x \in DOMAIN b}
           C == {c[x] : x \in DOMAIN c}
           D == {d[x] : x \in DOMAIN d}
           E == {e[x] : x \in DOMAIN e}
           F == {f[x] : x \in DOMAIN f}
<1>1. IsFiniteSet(A) /\ IsFiniteSet(B) /\ IsFiniteSet(C)
  BY FiniteStatements, FiniteImage
<1>2. IsFiniteSet(D) /\ IsFiniteSet(E) /\ IsFiniteSet(F)
  BY FiniteStatements, FiniteImage
<1>3. Subjects(src) \subseteq ((A \cup B) \cup C) \cup ((D \cup E) \cup F)
  BY SubjectLabels
<1> HIDE DEF A, B, C, D, E, F
<1>4. IsFiniteSet(((A \cup B) \cup C) \cup ((D \cup E) \cup F))
  BY <1>1, <1>2, FS_Union
<1> QED
  BY <1>3, <1>4, FS_Subset

\* Finitely many relations.
LEMMA FiniteRelations ==
  ASSUME NEW src, IsProgram(src)
  PROVE  IsFiniteSet(Relations(src))
<1> DEFINE a == [r \in Routes(src) |-> RelationRegistration(src, r)]
           b == [h \in RoutesAndHandlers(src) |-> RelationHandler(src, h)]
           c == [r \in Public(src) |-> RelationPublic(src, r)]
           d == [s \in Uses(src) |-> RelationUse(src, s)]
           e == [m \in LocalTable(src) \cup ExternalTable(src) |-> RelationMount(src, m)]
           f == [m \in MountMiddlewares(src) |-> RelationMountMw(src, m)]
           A == {a[x] : x \in DOMAIN a}
           B == {b[x] : x \in DOMAIN b}
           C == {c[x] : x \in DOMAIN c}
           D == {d[x] : x \in DOMAIN d}
           E == {e[x] : x \in DOMAIN e}
           F == {f[x] : x \in DOMAIN f}
<1>0. IsFiniteSet(LocalTable(src) \cup ExternalTable(src))
  BY FiniteTables, FS_Union
<1>1. IsFiniteSet(A) /\ IsFiniteSet(B) /\ IsFiniteSet(C)
  BY FiniteStatements, FiniteImage
<1>2. IsFiniteSet(D) /\ IsFiniteSet(E) /\ IsFiniteSet(F)
  BY <1>0, FiniteStatements, FiniteImage
<1>3. Relations(src) \subseteq ((A \cup B) \cup C) \cup ((D \cup E) \cup F)
  BY RelationLabels
<1> HIDE DEF A, B, C, D, E, F
<1>4. IsFiniteSet(((A \cup B) \cup C) \cup ((D \cup E) \cup F))
  BY <1>1, <1>2, FS_Union
<1> QED
  BY <1>3, <1>4, FS_Subset

\* Finitely many scopes.
LEMMA FiniteScopes ==
  ASSUME NEW src, IsProgram(src)
  PROVE  IsFiniteSet(Scopes(src))
<1> DEFINE a == [s \in AllKept(src) |-> [id |-> RecvScope(s), kind |-> "component", subject |-> RecvSubject(s),
                                         parent |-> None, span |-> s, derived |-> {}]]
           b == [r \in Routes(src) |-> [id |-> RouteScope(src, r), kind |-> "route", subject |-> RouteSubject(src, r),
                                        parent |-> RecvScope(RecvOf(src, r)), span |-> r, derived |-> {}]]
           A == {a[x] : x \in DOMAIN a}
           B == {b[x] : x \in DOMAIN b}
<1>1. IsFiniteSet(A) /\ IsFiniteSet(B)
  BY FiniteStatements, FiniteImage
<1>2. Scopes(src) = A \cup B
  BY DEF Scopes
<1> QED
  BY <1>1, <1>2, FS_Union

\* Finitely many marks.
LEMMA FiniteMarks ==
  ASSUME NEW src, IsProgram(src), NEW k \in Kinds
  PROVE  IsFiniteSet(Marks(src, k))
<1>1. IsFiniteSet(PublicPolicy(src))
  <2> DEFINE a == [r \in Public(src) |-> <<r, PublicSubject(r), PublicRelation(src, r)>>]
  <2>1. IsFiniteSet({a[r] : r \in DOMAIN a})
    BY FiniteStatements, FiniteImage
  <2>2. PublicPolicy(src) = {a[r] : r \in DOMAIN a}
    BY DEF PublicPolicy
  <2> QED
    BY <2>1, <2>2
<1> DEFINE all(r) == [c \in Candidates(src, r) |-> <<r, c[1].id, c[2].id>>]
           f == [r \in Routes(src) |-> {all(r)[c] : c \in DOMAIN all(r)}]
<1>2. IsFiniteSet(UNION {f[r] : r \in DOMAIN f})
  <2>1. ASSUME NEW r PROVE IsFiniteSet({all(r)[c] : c \in DOMAIN all(r)})
    <3>1. IsFiniteSet(Subjects(src) \X Relations(src))
      BY FiniteSubjects, FiniteRelations, FS_Product
    <3>2. Candidates(src, r) \subseteq Subjects(src) \X Relations(src)
      BY DEF Candidates
    <3>3. IsFiniteSet(Candidates(src, r))
      BY <3>1, <3>2, FS_Subset
    <3> QED
      BY <3>3, FiniteImage
  <2>2. DOMAIN f = Routes(src) /\ \A r \in DOMAIN f : f[r] = {all(r)[c] : c \in DOMAIN all(r)}
    OBVIOUS
  <2> HIDE DEF f, all
  <2> QED
    BY <2>1, <2>2, FiniteStatements, FiniteUnion
<1>3. Enforcement(src) \subseteq UNION {f[r] : r \in DOMAIN f}
  BY DEF Enforcement
<1>4. Ambiguity(src) \subseteq UNION {f[r] : r \in DOMAIN f}
  BY DEF Ambiguity
<1>5. IsFiniteSet(Enforcement(src)) /\ IsFiniteSet(Ambiguity(src))
  BY <1>2, <1>3, <1>4, FS_Subset
<1> QED
  BY <1>1, <1>5, MarksAre DEF Kinds

\* Finitely many facts, associations and proofs.
LEMMA FiniteFacts ==
  ASSUME NEW src, IsProgram(src)
  PROVE  IsFiniteSet(Facts(src)) /\ IsFiniteSet(Associations(src)) /\ IsFiniteSet(Proofs(src))
<1> DEFINE ends == [r \in Routes(src) |-> Endpoint(src, r)]
           fact(k) == [c \in Marks(src, k) |-> Evidence(k, src, c)]
           claim(k) == [c \in Marks(src, k) |-> Association(k, src, c)]
           proof(k) == [c \in Marks(src, k) |-> ProofOf(ProofKind(k), k, src, c)]
           Fs(k) == {fact(k)[c] : c \in DOMAIN fact(k)}
           Cs(k) == {claim(k)[c] : c \in DOMAIN claim(k)}
           Ps(k) == {proof(k)[c] : c \in DOMAIN proof(k)}
           Es == {ends[r] : r \in DOMAIN ends}
           p == "public_declaration"
           e == "auth_enforcement"
           a == "auth_ambiguity"
<1>1. IsFiniteSet(Es)
  BY FiniteStatements, FiniteImage
<1>2. ASSUME NEW k \in Kinds PROVE IsFiniteSet(Fs(k)) /\ IsFiniteSet(Cs(k)) /\ IsFiniteSet(Ps(k))
  BY FiniteMarks, FiniteImage
<1>3. Facts(src) \subseteq (Es \cup Fs(p)) \cup (Fs(e) \cup Fs(a))
  <2> SUFFICES ASSUME NEW x \in Facts(src) PROVE x \in Es \/ \E k \in Kinds : x \in Fs(k)
    BY DEF Kinds
  <2> QED
    BY ByMark
<1>4. Associations(src) \subseteq Cs(p) \cup (Cs(e) \cup Cs(a))
  <2> SUFFICES ASSUME NEW x \in Associations(src) PROVE \E k \in Kinds : x \in Cs(k)
    BY DEF Kinds
  <2> QED
    BY ByMark
<1>5. Proofs(src) \subseteq Ps(p) \cup Ps(e)
  <2> SUFFICES ASSUME NEW x \in Proofs(src) PROVE \E k \in Proving : x \in Ps(k)
    BY DEF Proving
  <2> QED
    BY ProofIs
<1> HIDE DEF Es, Fs, Cs, Ps
<1>6. IsFiniteSet((Es \cup Fs(p)) \cup (Fs(e) \cup Fs(a)))
  BY <1>1, <1>2, FS_Union DEF Kinds
<1>7. IsFiniteSet(Cs(p) \cup (Cs(e) \cup Cs(a))) /\ IsFiniteSet(Ps(p) \cup Ps(e))
  BY <1>2, FS_Union DEF Kinds
<1> QED
  BY <1>3, <1>4, <1>5, <1>6, <1>7, FS_Subset

\* Finitely many records have finitely many identifiers.
LEMMA FiniteIds ==
  ASSUME NEW S, IsFiniteSet(S)
  PROVE  IsFiniteSet(IdsOf(S))
<1> DEFINE f == [x \in S |-> x.id]
<1>1. IsFiniteSet({f[x] : x \in DOMAIN f})
  BY FiniteImage
<1>2. IdsOf(S) = {f[x] : x \in DOMAIN f}
  BY DEF IdsOf
<1> QED
  BY <1>1, <1>2

\* How far from the program's own statements a record is derived.
Rank(tag) ==
  IF tag = "fact" THEN 1
  ELSE IF tag = "association" THEN 2
  ELSE IF tag \in {"proof", "doubt", "ambiguous-mount"} THEN 3
  ELSE 0

\* The identifiers of relations begin with their group.
LEMMA RelationTag ==
  ASSUME NEW src, IsProgram(src), NEW i \in IdsOf(Relations(src))
  PROVE  i[1] = "relation"
<1>1. PICK x \in Relations(src) : i = x.id
  BY DEF IdsOf
<1> QED
  BY <1>1, RelationIs

\* The identifiers of evidence begin with one of two tags.
LEMMA EvidenceTag ==
  ASSUME NEW src, IsProgram(src), NEW k \in Kinds, NEW c \in Marks(src, k)
  PROVE  EvidenceId(k, src, c)[1] \in {"fact", "evidence"}
BY EvidenceIdIs

\* Every derivation goes down, between finitely many records.
LEMMA DerivationsDescend ==
  ASSUME NEW src, IsProgram(src), NEW d \in Derivations(BuildGraph(src))
  PROVE  /\ d = <<d[1], d[2]>> /\ Rank(d[2][1]) < Rank(d[1][1])
         /\ \/ d[1] \in IdsOf(Facts(src)) \cup IdsOf(Associations(src)) \cup IdsOf(Proofs(src))
            \/ d[1] \in {<<"ambiguous-mount", i>> : i \in IdsOf(Facts(src))}
            \/ d[1] \in {Named("doubt", "auth_ambiguity", src, c) : c \in Marks(src, "auth_ambiguity")}
         /\ d[2] \in IdsOf(Relations(src)) \cup IdsOf(Facts(src)) \cup IdsOf(Associations(src))
                       \cup {Provenance("auth_association")}
<1>0. d = <<d[1], d[2]>>
  BY DerivationIs
<1>1. CASE DerivesEndpoint(src, d[1], d[2])
  <2>1. PICK r \in Routes(src) : d[1] = EndpointId(src, r) /\ d[2] \in IdsOf(Relations(src))
    BY <1>1 DEF DerivesEndpoint
  <2>2. d[1][1] = "fact" /\ d[2][1] = "relation"
    BY <2>1, EndpointIs, RelationTag
  <2>3. d[1] \in IdsOf(Facts(src))
    BY <2>1, OfRoutes
  <2> QED
    BY <1>0, <2>1, <2>2, <2>3 DEF Rank
<1>2. CASE DerivesClaim(src, d[1], d[2])
  <2>1. PICK k \in Kinds : \E c \in Marks(src, k) : d[1] = Named("association", k, src, c)
          /\ d[2] \in {EvidenceId(k, src, c), EndpointId(src, c[1])} \cup (IF k = "auth_ambiguity" THEN {} ELSE {c[3]})
    BY <1>2 DEF DerivesClaim
  <2>2. PICK c \in Marks(src, k) : d[1] = Named("association", k, src, c)
          /\ d[2] \in {EvidenceId(k, src, c), EndpointId(src, c[1])} \cup (IF k = "auth_ambiguity" THEN {} ELSE {c[3]})
    BY <2>1
  <2>3. d[2] \in {EvidenceId(k, src, c), EndpointId(src, c[1]), c[3]}
    BY <2>2
  <2>4. d[1][1] = "association"
    BY <2>2, NamedIs
  <2>5. /\ c[3] \in IdsOf(Relations(src)) /\ EndpointId(src, c[1]) \in IdsOf(Facts(src))
        /\ EvidenceId(k, src, c) \in IdsOf(Facts(src))
        /\ Named("association", k, src, c) \in IdsOf(Associations(src))
    BY OfMarks
  <2>6. c[3][1] = "relation" /\ EndpointId(src, c[1])[1] = "fact" /\ EvidenceId(k, src, c)[1] \in {"fact", "evidence"}
    BY <2>5, RelationTag, EndpointIs, EvidenceTag
  <2>7. Rank(d[2][1]) < Rank(d[1][1])
    BY <2>3, <2>4, <2>6 DEF Rank
  <2> QED
    BY <1>0, <2>2, <2>3, <2>5, <2>7
<1>3. CASE DerivesProof(src, d[1], d[2])
  <2>1. PICK k \in Proving : \E c \in Marks(src, k) : d[1] = Named("proof", ProofKind(k), src, c)
          /\ d[2] \in {Named("association", k, src, c), EvidenceId(k, src, c), EndpointId(src, c[1]), c[3]}
                        \cup (IF k = "auth_enforcement" THEN {Provenance("auth_association")} ELSE {})
    BY <1>3 DEF DerivesProof
  <2>2. PICK c \in Marks(src, k) : d[1] = Named("proof", ProofKind(k), src, c)
          /\ d[2] \in {Named("association", k, src, c), EvidenceId(k, src, c), EndpointId(src, c[1]), c[3]}
                        \cup (IF k = "auth_enforcement" THEN {Provenance("auth_association")} ELSE {})
    BY <2>1
  <2>3. k \in Kinds
    BY DEF Proving, Kinds
  <2>4. d[2] \in {Named("association", k, src, c), EvidenceId(k, src, c), EndpointId(src, c[1]), c[3],
                  Provenance("auth_association")}
    BY <2>2
  <2>5. d[1][1] = "proof" /\ Named("association", k, src, c)[1] = "association"
    BY <2>2, NamedIs
  <2>6. Provenance("auth_association")[1] = "provenance"
    BY DEF Provenance
  <2>7. /\ c[3] \in IdsOf(Relations(src)) /\ EndpointId(src, c[1]) \in IdsOf(Facts(src))
        /\ EvidenceId(k, src, c) \in IdsOf(Facts(src))
        /\ Named("association", k, src, c) \in IdsOf(Associations(src))
    BY <2>3, OfMarks
  <2>8. c[3][1] = "relation" /\ EndpointId(src, c[1])[1] = "fact" /\ EvidenceId(k, src, c)[1] \in {"fact", "evidence"}
    BY <2>3, <2>7, RelationTag, EndpointIs, EvidenceTag
  <2>9. Rank(d[2][1]) < Rank(d[1][1])
    BY <2>4, <2>5, <2>6, <2>8 DEF Rank
  <2>10. d[1] \in IdsOf(Proofs(src))
    <3>1. ProofOf(ProofKind(k), k, src, c) \in Proofs(src)
      BY MarksAre DEF Proofs, ProofKind, Proving
    <3> QED
      BY <2>2, <3>1, ProofOfIs DEF IdsOf
  <2> QED
    BY <1>0, <2>4, <2>7, <2>9, <2>10
<1>4. CASE DerivesOpen(src, d[1], d[2])
  <2>1. PICK r \in Routes(src) : d[1] = <<"ambiguous-mount", EndpointId(src, r)>> /\ d[2] \in IdsOf(Relations(src))
    BY <1>4 DEF DerivesOpen
  <2>2. d[1][1] = "ambiguous-mount" /\ d[2][1] = "relation"
    BY <2>1, RelationTag
  <2>3. EndpointId(src, r) \in IdsOf(Facts(src))
    BY OfRoutes
  <2> QED
    BY <1>0, <2>1, <2>2, <2>3 DEF Rank
<1>5. CASE DerivesDoubt(src, d[1], d[2])
  <2> DEFINE k == "auth_ambiguity"
  <2>1. PICK c \in Marks(src, k) : d[1] = Named("doubt", k, src, c)
          /\ d[2] \in {Named("association", k, src, c), EvidenceId(k, src, c)}
    BY <1>5 DEF DerivesDoubt
  <2>2. d[1][1] = "doubt" /\ Named("association", k, src, c)[1] = "association"
    BY <2>1, NamedIs
  <2>3. k \in Kinds
    BY DEF Kinds
  <2>4. EvidenceId(k, src, c) \in IdsOf(Facts(src)) /\ Named("association", k, src, c) \in IdsOf(Associations(src))
    BY <2>3, OfMarks
  <2>5. EvidenceId(k, src, c)[1] \in {"fact", "evidence"}
    BY <2>3, EvidenceTag
  <2>6. Rank(d[2][1]) < Rank(d[1][1])
    BY <2>1, <2>2, <2>5 DEF Rank
  <2> QED
    BY <1>0, <2>1, <2>4, <2>6
<1> QED
  BY <1>1, <1>2, <1>3, <1>4, <1>5, DerivationIs

\* There are finitely many derivations: the validator's searches end.
LEMMA FinitelyDerived ==
  ASSUME NEW src, IsProgram(src)
  PROVE  IsFiniteSet(Derivations(BuildGraph(src)))
<1> DEFINE D == Derivations(BuildGraph(src))
           F == IdsOf(Facts(src))
           A == IdsOf(Associations(src))
           P == IdsOf(Proofs(src))
           R == IdsOf(Relations(src))
           mount == [i \in F |-> <<"ambiguous-mount", i>>]
           doubt == [c \in Marks(src, "auth_ambiguity") |-> Named("doubt", "auth_ambiguity", src, c)]
           M == {mount[i] : i \in DOMAIN mount}
           N == {doubt[c] : c \in DOMAIN doubt}
           O == {Provenance("auth_association")}
<1>1. IsFiniteSet(F) /\ IsFiniteSet(A) /\ IsFiniteSet(P) /\ IsFiniteSet(R) /\ IsFiniteSet(O)
  BY FiniteFacts, FiniteRelations, FiniteIds, FS_Singleton
<1>2. IsFiniteSet(M)
  BY <1>1, FiniteImage
<1>3. IsFiniteSet(N)
  <2>1. "auth_ambiguity" \in Kinds
    BY DEF Kinds
  <2> QED
    BY <2>1, FiniteMarks, FiniteImage
<1>4. \A d \in D : d = <<d[1], d[2]>> /\ d[1] \in ((F \cup A) \cup P) \cup (M \cup N) /\ d[2] \in ((R \cup F) \cup A) \cup O
  BY DerivationsDescend
<1> HIDE DEF D, F, A, P, R, M, N, O
<1>5. IsFiniteSet(((F \cup A) \cup P) \cup (M \cup N)) /\ IsFiniteSet(((R \cup F) \cup A) \cup O)
  BY <1>1, <1>2, <1>3, FS_Union
<1>6. IsFiniteSet((((F \cup A) \cup P) \cup (M \cup N)) \X (((R \cup F) \cup A) \cup O))
  BY <1>5, FS_Product
<1>7. D \subseteq (((F \cup A) \cup P) \cup (M \cup N)) \X (((R \cup F) \cup A) \cup O)
  BY <1>4
<1>8. IsFiniteSet(D)
  BY <1>6, <1>7, FS_Subset
<1> QED
  BY <1>8 DEF D

\* Nothing is derived from itself, however indirectly.
LEMMA NothingDerivesItself ==
  ASSUME NEW src, IsProgram(src)
  PROVE  DerivationIsAcyclic(BuildGraph(src))
<1> DEFINE D == Derivations(BuildGraph(src))
<1>1. IsFiniteSet(D) /\ \A d \in D : Rank(d[2][1]) < Rank(d[1][1])
  BY FinitelyDerived, DerivationsDescend
<1>2. \A i : Rank(i[1]) \in 0 .. 3
  BY DEF Rank
<1> SUFFICES ASSUME NEW d \in D PROVE d[1] \notin ReachableFrom({d[2]}, D)
  BY DEF DerivationIsAcyclic
<1> HIDE DEF D
<1> DEFINE T == {i \in {d[2]} \cup {e[2] : e \in D} : Rank(i[1]) <= Rank(d[2][1])}
<1>3. Closed(T, D) /\ {d[2]} \subseteq T
  BY <1>1, <1>2 DEF Closed
<1>4. d[1] \notin T
  BY <1>1, <1>2
<1> HIDE DEF T
<1>5. ReachableFrom({d[2]}, D) \subseteq T
  BY <1>1, <1>3, ReachIsLeast
<1> QED
  BY <1>4, <1>5

\* No receiver's scope is called None.
LEMMA RecvScopeIsSome ==
  ASSUME NEW src, IsProgram(src), NEW s \in AllKept(src)
  PROVE  RecvScope(s) # None
<1>1. s[1] \in File /\ s[2] \in Nat
  BY KeptIs, PositionIs
<1>2. RecvScope(s) = <<"scope", s[1], s[2], NoMethod, 0, "receiver">>
  BY DEF RecvScope, Id
<1>3. RecvScope(s) \in ScopeNames
  BY <1>1, <1>2 DEF ScopeNames
<1> QED
  BY <1>3, ExpressScanAssumption DEF ExpressScanAssumption

\* Records are found by what they are called.
LEMMA FactById ==
  ASSUME NEW src, IsProgram(src), NEW x \in Facts(src)
  PROVE  ById(Facts(src), x.id) = x
BY OneFact DEF ById

\* The scope record of a route is found by its identifier.
LEMMA RouteScopeById ==
  ASSUME NEW src, IsProgram(src), NEW r \in Routes(src)
  PROVE  LET x == ById(Scopes(src), RouteScope(src, r)) IN
         /\ x \in Scopes(src) /\ x.id = RouteScope(src, r) /\ x.kind = "route"
         /\ x.subject = RouteSubject(src, r) /\ x.parent = RecvScope(RecvOf(src, r))
<1> DEFINE y == [id |-> RouteScope(src, r), kind |-> "route", subject |-> RouteSubject(src, r),
                 parent |-> RecvScope(RecvOf(src, r)), span |-> r, derived |-> {}]
<1>1. y \in Scopes(src)
  BY DEF Scopes
<1>2. y.id = RouteScope(src, r) /\ y.kind = "route" /\ y.subject = RouteSubject(src, r)
        /\ y.parent = RecvScope(RecvOf(src, r))
  OBVIOUS
<1> HIDE DEF y
<1>3. \A x \in Scopes(src) : x.id = RouteScope(src, r) => x = y
  BY <1>1, <1>2, OneScope
<1>4. ById(Scopes(src), RouteScope(src, r)) = y
  BY <1>1, <1>2, <1>3 DEF ById
<1> QED
  BY <1>1, <1>2, <1>4

\* The claim about a kind of evidence that a mark makes is the only one.
LEMMA ClaimIs ==
  ASSUME NEW src, IsProgram(src), NEW k \in Kinds, NEW a \in Associations(src), NEW c \in Marks(src, k),
         a.evidence = EvidenceId(k, src, c)
  PROVE  a = Association(k, src, c)
<1>1. PICK l \in Kinds : \E d \in Marks(src, l) : a = Association(l, src, d)
  BY AssociationOfMark
<1>2. PICK d \in Marks(src, l) : a = Association(l, src, d)
  BY <1>1
<1>3. a.evidence = EvidenceId(l, src, d)
  BY <1>2, AssociationIs
<1>4. k = l /\ c = d
  BY <1>3, OneEvidence
<1> QED
  BY <1>2, <1>4

\* The evidence of a kind is what its marks left.
LEMMA EvidenceOfKind ==
  ASSUME NEW src, IsProgram(src), NEW k \in Kinds
  PROVE  \A i : i \in IdsOf(OfKind(Facts(src), k)) <=> \E c \in Marks(src, k) : i = EvidenceId(k, src, c)
<1>1. ASSUME NEW i \in IdsOf(OfKind(Facts(src), k)) PROVE \E c \in Marks(src, k) : i = EvidenceId(k, src, c)
  <2>1. PICK x \in Facts(src) : x.kind = k /\ i = x.id
    BY DEF IdsOf, OfKind
  <2>2. x.kind # "endpoint_declaration"
    BY <2>1 DEF Kinds
  <2>3. PICK c \in Marks(src, k) : x = Evidence(k, src, c)
    BY <2>1, <2>2, FactIs
  <2> QED
    BY <2>1, <2>3, EvidenceIs
<1>2. ASSUME NEW c \in Marks(src, k) PROVE EvidenceId(k, src, c) \in IdsOf(OfKind(Facts(src), k))
  <2>1. Evidence(k, src, c) \in Facts(src)
    BY OfMarks
  <2> QED
    BY <2>1, EvidenceIs DEF IdsOf, OfKind
<1> QED
  BY <1>1, <1>2

-----------------------------------------------------------------------------
(* Ambiguities *)

\* The fifth rule of the validator: every ambiguity is associated, and left open at its endpoint.
LEMMA AmbiguitiesAreExplicit ==
  ASSUME NEW src, IsProgram(src)
  PROVE  AmbiguityIsExplicit(BuildGraph(src))
<1> DEFINE g == BuildGraph(src)
           k == "auth_ambiguity"
           facts == IdsOf(OfKind(g.facts, k))
           assocs == {a \in g.associations : a.evidence \in facts}
           Of(u) == u.derived \cap (facts \cup IdsOf(assocs))
<1>1. /\ g.facts = Facts(src) /\ g.scopes = Scopes(src) /\ g.associations = Associations(src)
      /\ g.unresolved = LeftOpen(src)
  BY GraphIs
<1>0. k \in Kinds
  BY DEF Kinds
<1> HIDE DEF g
<1>2. \A i : i \in facts <=> \E c \in Marks(src, k) : i = EvidenceId(k, src, c)
  BY <1>1, <1>0, EvidenceOfKind
<1>3. ASSUME NEW a PROVE a \in assocs <=> \E c \in Marks(src, k) : a = Association(k, src, c)
  <2>1. ASSUME a \in assocs PROVE \E c \in Marks(src, k) : a = Association(k, src, c)
    <3>1. PICK c \in Marks(src, k) : a.evidence = EvidenceId(k, src, c)
      BY <1>2, <2>1
    <3> QED
      BY <1>1, <1>0, <2>1, <3>1, ClaimIs
  <2>2. ASSUME NEW c \in Marks(src, k), a = Association(k, src, c) PROVE a \in assocs
    <3>1. a \in Associations(src) /\ a.evidence = EvidenceId(k, src, c)
      BY <1>0, <2>2, OfMarks, AssociationIs
    <3>2. a.evidence \in facts
      BY <1>2, <3>1
    <3> QED
      BY <1>1, <3>1, <3>2
  <2> QED
    BY <2>1, <2>2
<1> HIDE DEF facts, assocs
<1>4. ASSUME NEW c \in Marks(src, k)
      PROVE  /\ Association(k, src, c) \in assocs /\ EvidenceId(k, src, c) \in facts
             /\ Named("association", k, src, c) \in IdsOf(assocs)
  <2>1. Association(k, src, c) \in assocs /\ EvidenceId(k, src, c) \in facts
    BY <1>2, <1>3
  <2> QED
    BY <2>1, AssociationIs DEF IdsOf
<1>5. facts \subseteq {a.evidence : a \in assocs}
  <2> SUFFICES ASSUME NEW i \in facts PROVE \E a \in assocs : i = a.evidence
    OBVIOUS
  <2>1. PICK c \in Marks(src, k) : i = EvidenceId(k, src, c)
    BY <1>2
  <2> QED
    BY <1>4, <2>1, AssociationIs
<1>6. ASSUME NEW u \in g.unresolved, Of(u) # {}
      PROVE  \E a \in assocs : Of(u) = {a.id, a.evidence} /\ a.endpoint = u.subject
  <2>1. u.derived # {}
    BY <1>6
  <2>2. ASSUME NEW r \in Routes(src), u = OpenMount(src, r) PROVE FALSE
    <3>1. PICK i \in u.derived : i \in facts \cup IdsOf(assocs)
      BY <1>6
    <3>2. u.derived = LocalPath(src, r).relations
      BY <2>2 DEF OpenMount, Open
    <3>3. i[1] = "relation"
      BY <3>2, MountsAreRelated, RelationTag
    <3>4. i \notin facts
      BY <1>2, <1>0, <3>3, EvidenceTag
    <3>5. ASSUME i \in IdsOf(assocs) PROVE FALSE
      <4>1. PICK a \in assocs : i = a.id
        BY <3>5 DEF IdsOf
      <4>2. PICK c \in Marks(src, k) : a = Association(k, src, c)
        BY <1>3
      <4>3. i = Named("association", k, src, c)
        BY <4>1, <4>2, AssociationIs
      <4> QED
        BY <3>3, <4>3, NamedIs
    <3> QED
      BY <3>1, <3>4, <3>5
  <2>3. PICK c \in Marks(src, k) : u = OpenDoubt(src, c)
    BY <1>1, <2>1, <2>2, LeftOpenIs
  <2>4. /\ u.subject = EndpointId(src, c[1])
        /\ u.derived = {Named("association", k, src, c), EvidenceId(k, src, c)}
    BY <2>3 DEF OpenDoubt, Open
  <2>5. Of(u) = {Named("association", k, src, c), EvidenceId(k, src, c)}
    BY <1>4, <2>4
  <2> HIDE DEF Of
  <2>6. Association(k, src, c) \in assocs
    BY <1>4
  <2> WITNESS Association(k, src, c) \in assocs
  <2> QED
    BY <2>4, <2>5, AssociationIs
<1>7. ASSUME NEW a \in assocs
      PROVE  /\ ById(g.scopes, a.scope).subject = ById(g.facts, a.endpoint).subject
             /\ {a.endpoint, a.evidence} \subseteq a.derived
             /\ \E u \in g.unresolved : {a.id, a.evidence} \subseteq u.derived /\ u.subject = a.endpoint
  <2>1. PICK c \in Marks(src, k) : a = Association(k, src, c)
    BY <1>3
  <2>2. /\ a.id = Named("association", k, src, c) /\ a.endpoint = EndpointId(src, c[1])
        /\ a.evidence = EvidenceId(k, src, c) /\ a.scope = RouteScope(src, c[1])
        /\ {EvidenceId(k, src, c), EndpointId(src, c[1])} \subseteq a.derived
    BY <2>1, AssociationIs
  <2>3. c[1] \in Routes(src)
    BY <1>0, MarkIs
  <2>4. ById(Scopes(src), a.scope).subject = RouteSubject(src, c[1])
    BY <2>2, <2>3, RouteScopeById
  <2>5. Endpoint(src, c[1]) \in Facts(src)
    BY <2>3, OfRoutes
  <2>6. ById(Facts(src), a.endpoint) = Endpoint(src, c[1])
    BY <2>2, <2>5, EndpointIs, FactById
  <2>7. Endpoint(src, c[1]).subject = RouteSubject(src, c[1])
    BY EndpointIs
  <2>8. OpenDoubt(src, c) \in LeftOpen(src)
    BY MarksAre DEF LeftOpen, OpenDoubt
  <2>9. OpenDoubt(src, c).subject = a.endpoint /\ {a.id, a.evidence} \subseteq OpenDoubt(src, c).derived
    BY <2>2 DEF OpenDoubt, Open
  <2> QED
    BY <1>1, <2>2, <2>4, <2>6, <2>7, <2>8, <2>9
<1>8. AmbiguityIsExplicit(g)
  BY <1>5, <1>6, <1>7 DEF AmbiguityIsExplicit, facts, assocs
<1> QED
  BY <1>8 DEF g

-----------------------------------------------------------------------------
(* Paths *)

\* One selected relation that leads from a start to the target is the path.
LEMMA OneRelationPath ==
  ASSUME NEW g, NEW rel \in g.relations, \A x \in g.relations : x.id = rel.id => x = rel,
         rel.kind \in ForwardKinds, NEW starts, rel.source \in starts, NEW allowed, NEW startOnly,
         rel.source \in allowed, rel.target \in allowed, rel.target \notin startOnly
  PROVE  LET p == RelationPath(g, starts, {rel.target}, {rel.id}, allowed, startOnly) IN
         p.found /\ p.nodes \subseteq {rel.source, rel.target}
<1> DEFINE rels  == {r \in g.relations : r.id \in {rel.id}}
           edges == Edges(rels)
           e     == <<rel.source, rel.target>>
           N     == Cardinality(edges)
           walks == Walks(starts, edges, N)
           hits(n) == {w \in walks[n] : w[n + 1] \in {rel.target}}
           lengths == {n \in 1 .. N : hits(n) # {}}
           shortest == CHOOSE n \in lengths : \A m \in lengths : n <= m
           path     == CHOOSE w \in hits(shortest) : TRUE
<1>1. rels = {rel}
  OBVIOUS
<1>2. edges = {e}
  BY <1>1 DEF Edges
<1>3. N = 1
  BY <1>2, FS_Singleton
<1>4. walks[1] = {e}
  <2> HIDE DEF edges, N
  <2>0. N \in Nat
    BY <1>3
  <2>1. walks = [n \in 1 .. N |->
           IF n = 1 THEN {x \in edges : x[1] \in starts}
           ELSE UNION {{Append(w, x[2]) : x \in {f \in edges : f[1] = w[n]}} : w \in walks[n - 1]}]
    BY <2>0, WalksAre
  <2> HIDE DEF walks
  <2>2. walks[1] = {x \in edges : x[1] \in starts}
    BY <1>3, <2>1
  <2> QED
    BY <1>2, <2>2
<1> HIDE DEF edges, N, walks
<1>5. hits(1) = {e}
  BY <1>4
<1> HIDE DEF hits
<1>6. lengths = {1}
  <2>1. \A n : n \in 1 .. N <=> n = 1
    BY <1>3
  <2>2. hits(1) # {}
    BY <1>5
  <2>3. \A n : n \in lengths <=> n = 1
    BY <2>1, <2>2, Zenon
  <2> QED
    BY <2>3
<1> HIDE DEF lengths
<1>7. shortest = 1
  BY <1>6
<1> HIDE DEF shortest
<1>8. path = e
  BY <1>5, <1>7
<1> HIDE DEF path
<1>9. {path[i] : i \in DOMAIN path} \subseteq {rel.source, rel.target}
  BY <1>8
<1>10. ~ \/ \E r \in rels : r.source \notin allowed \/ r.target \notin allowed \/ r.target \in startOnly
         \/ lengths = {}
  BY <1>1, <1>6
<1>11. RelationPath(g, starts, {rel.target}, {rel.id}, allowed, startOnly)
         = [found |-> TRUE, nodes |-> {path[i] : i \in DOMAIN path}]
  <2> HIDE DEF rels
  <2> QED
    BY <1>10, Zenon DEF RelationPath, rels, edges, N, walks, hits, lengths, shortest, path
<1> QED
  BY <1>9, <1>11

\* The scope region of a route: the scopes of the route and of its receiver.
LEMMA RegionOfRoute ==
  ASSUME NEW src, IsProgram(src), NEW r \in Routes(src), NEW g, g.scopes = Scopes(src)
  PROVE  RecvScope(RecvOf(src, r)) \in ScopeRegion(g, ById(Scopes(src), RouteScope(src, r)))
<1> DEFINE scope == ById(Scopes(src), RouteScope(src, r))
           up == RecvScope(RecvOf(src, r))
           P == {x \in g.scopes : x.parent # None}
           f == [s \in P |-> <<s.id, s.parent>>]
           parents == {<<s.id, s.parent>> : s \in P}
           reach == ReachableFrom({scope.id}, parents)
           ancestors == {s \in g.scopes : s.id \in reach}
<1>1. scope \in Scopes(src) /\ scope.parent = up
  BY RouteScopeById
<1>2. RecvOf(src, r) \in AllKept(src)
  BY RouteIs
<1>3. up # None /\ up \in IdsOf(Scopes(src))
  BY <1>2, RecvScopeIsSome, OfReceivers
<1> HIDE DEF scope, up
<1>4. IsFiniteSet(parents)
  <2>1. IsFiniteSet(P)
    BY FiniteScopes, FS_Subset
  <2> HIDE DEF P
  <2>2. IsFiniteSet({f[s] : s \in DOMAIN f})
    BY <2>1, FiniteImage
  <2>3. parents = {f[s] : s \in DOMAIN f}
    OBVIOUS
  <2> QED
    BY <2>2, <2>3
<1>5. <<scope.id, up>> \in parents
  BY <1>1, <1>3
<1> HIDE DEF parents
<1>6. scope.id \in reach
  BY <1>4, ReachContains
<1>7. Closed(reach, parents)
  BY <1>4, ReachIsClosed
<1> HIDE DEF reach
<1>8. up \in reach
  BY <1>5, <1>6, <1>7 DEF Closed
<1>9. up \in IdsOf(ancestors)
  BY <1>3, <1>8 DEF IdsOf
<1>10. ScopeRegion(g, scope) = IdsOf(ancestors) \cup {s.subject : s \in ancestors}
  BY Zenon DEF ScopeRegion, ancestors, reach, parents, P
<1>11. up \in ScopeRegion(g, scope)
  BY <1>9, <1>10
<1> QED
  BY <1>11 DEF scope, up

\* The relation of an enforcement mark leads from the route to what enforces, among
\* subjects and scopes.
LEMMA EnforcementHolds ==
  ASSUME NEW src, IsProgram(src), NEW c \in Marks(src, "auth_enforcement"),
         NEW g, g.subjects = Subjects(src), g.facts = Facts(src), g.scopes = Scopes(src),
         g.relations = Relations(src)
  PROVE  LET p == EnforcementPath(g, Association("auth_enforcement", src, c), {c[3]}) IN
         p.found /\ p.nodes \subseteq IdsOf(Subjects(src)) \cup IdsOf(Scopes(src))
<1> DEFINE k == "auth_enforcement"
           a == Association(k, src, c)
           r == c[1]
           endpoint == ById(g.facts, a.endpoint)
           evidence == ById(g.facts, a.evidence)
           scope    == ById(g.scopes, a.scope)
           endpointIds == {endpoint.id, endpoint.subject}
                            \cup IdsOf({s \in g.scopes : s.subject = endpoint.subject})
           structural  == IdsOf(g.subjects) \cup IdsOf(g.scopes) \cup {endpoint.id}
           starts      == endpointIds \cup ScopeRegion(g, scope)
           ownRoute    == scope.kind = "route" /\ scope.subject = endpoint.subject
           scopePath   == IF ownRoute THEN [found |-> TRUE, nodes |-> {}]
                          ELSE RelationPath(g, endpointIds, {scope.id, scope.subject},
                                            {c[3]}, structural, {endpoint.id})
           evidencePath == RelationPath(g, starts, {evidence.subject}, {c[3]}, structural, {endpoint.id})
           all == IdsOf(Subjects(src)) \cup IdsOf(Scopes(src))
<1>0. k \in Kinds
  BY DEF Kinds
<1>1. /\ a.endpoint = EndpointId(src, r) /\ a.evidence = EvidenceId(k, src, c) /\ a.scope = RouteScope(src, r)
      /\ {a.endpoint, a.evidence} \subseteq a.derived
  BY AssociationIs
<1>2. r \in Routes(src)
  BY <1>0, MarkIs
<1>3. PICK rel \in Relations(src) :
        /\ rel.id = c[3] /\ rel.target = c[2] /\ rel.kind \in ForwardKinds
        /\ rel.source \in {RouteSubject(src, r), RouteScope(src, r), RecvScope(RecvOf(src, r))}
  BY <1>0, MarkIs
<1>4. endpoint.id = EndpointId(src, r) /\ endpoint.subject = RouteSubject(src, r)
  <2>1. Endpoint(src, r) \in Facts(src) /\ Endpoint(src, r).id = EndpointId(src, r)
    BY <1>2, OfRoutes, EndpointIs
  <2>2. endpoint = Endpoint(src, r)
    BY <1>1, <2>1, FactById
  <2> QED
    BY <2>2, EndpointIs
<1>5. evidence.subject = c[2]
  <2>1. Evidence(k, src, c) \in Facts(src) /\ Evidence(k, src, c).id = EvidenceId(k, src, c)
    BY <1>0, OfMarks, EvidenceIs
  <2>2. evidence = Evidence(k, src, c)
    BY <1>1, <2>1, FactById
  <2> QED
    BY <2>2, EvidenceIs
<1>6. /\ scope \in Scopes(src) /\ scope.id = RouteScope(src, r) /\ scope.kind = "route"
      /\ scope.subject = RouteSubject(src, r)
  BY <1>1, <1>2, RouteScopeById
<1>7. RecvScope(RecvOf(src, r)) \in ScopeRegion(g, scope)
  BY <1>1, <1>2, RegionOfRoute
<1>8. c[2] \in IdsOf(Subjects(src)) /\ RouteSubject(src, r) \in IdsOf(Subjects(src))
        /\ RouteScope(src, r) \in IdsOf(Scopes(src))
  BY <1>0, <1>2, OfMarks, OfRoutes
<1>9. c[2] # EndpointId(src, r)
  <2>1. PICK x \in Subjects(src) : x.id = c[2]
    BY <1>8 DEF IdsOf
  <2>2. c[2][1] = "subject"
    BY <2>1, SubjectIs
  <2> QED
    BY <2>2, EndpointIs
<1> HIDE DEF a, endpoint, evidence, scope
<1>10. ownRoute
  BY <1>4, <1>6
<1>11. RouteSubject(src, r) \in starts
  BY <1>4
<1>12. RouteScope(src, r) \in starts
  BY <1>4, <1>6 DEF IdsOf
<1>13. RecvScope(RecvOf(src, r)) \in starts
  BY <1>7
<1> HIDE DEF starts
<1>14. rel.source \in starts
  BY <1>3, <1>11, <1>12, <1>13
<1>15. {rel.source, rel.target} \subseteq all
  BY EndsAre
<1>16. rel.source \in structural /\ rel.target \in structural
  BY <1>15
<1>17. rel.target \notin {endpoint.id}
  BY <1>3, <1>4, <1>9
<1>18. \A x \in g.relations : x.id = rel.id => x = rel
  BY <1>3, OneRelation
<1> HIDE DEF structural
<1>19. /\ RelationPath(g, starts, {rel.target}, {rel.id}, structural, {endpoint.id}).found
       /\ RelationPath(g, starts, {rel.target}, {rel.id}, structural, {endpoint.id}).nodes
            \subseteq {rel.source, rel.target}
  BY <1>3, <1>14, <1>16, <1>17, <1>18, OneRelationPath
<1>20. evidencePath.found /\ evidencePath.nodes \subseteq all
  BY <1>3, <1>5, <1>15, <1>19
<1>21. scopePath = [found |-> TRUE, nodes |-> {}]
  BY <1>10
<1> HIDE DEF ownRoute, evidencePath, scopePath
<1> DEFINE nodes == {a.scope, endpoint.subject, evidence.subject, scope.subject}
                      \cup scopePath.nodes \cup evidencePath.nodes
<1>22. EnforcementPath(g, a, {c[3]}) = [found |-> TRUE, nodes |-> nodes]
  <2>1. /\ {c[3]} # {} /\ {a.endpoint, a.evidence} \subseteq a.derived
        /\ scopePath.found /\ evidencePath.found
    BY <1>1, <1>20, <1>21
  <2> QED
    BY <2>1, ZenonT(60) DEF EnforcementPath, endpoint, evidence, scope, endpointIds, structural, starts,
       ownRoute, scopePath, evidencePath
<1> HIDE DEF all
<1>23. nodes \subseteq all
  <2>1. {a.scope, endpoint.subject, evidence.subject, scope.subject} \subseteq all
    BY <1>1, <1>4, <1>5, <1>6, <1>8 DEF all
  <2> QED
    BY <1>20, <1>21, <2>1
<1> HIDE DEF nodes
<1>24. EnforcementPath(g, a, {c[3]}).found /\ EnforcementPath(g, a, {c[3]}).nodes \subseteq all
  BY <1>22, <1>23
<1> QED
  BY <1>24 DEF a, all

\* Endpoints of the graph.
LEMMA EndpointOfGraph ==
  ASSUME NEW src, NEW r \in Routes(src)
  PROVE  EndpointId(src, r) \in IdsOf(Endpoints(BuildGraph(src)))
<1>1. Endpoint(src, r) \in Facts(src) /\ Endpoint(src, r).kind \in EndpointKinds
      /\ Endpoint(src, r).id = EndpointId(src, r)
  BY OfRoutes, EndpointIs DEF EndpointKinds
<1> DEFINE g == BuildGraph(src)
<1>2. g.facts = Facts(src)
  BY GraphIs
<1> HIDE DEF g
<1>3. EndpointId(src, r) \in IdsOf(Endpoints(g))
  BY <1>1, <1>2 DEF Endpoints, IdsOf
<1> QED
  BY <1>3 DEF g

\* The third rule of the validator: what is claimed is of the graph, and enforcement is led to.
LEMMA ClaimsAreSound ==
  ASSUME NEW src, IsProgram(src)
  PROVE  AssociationsAreSound(BuildGraph(src))
<1> DEFINE g == BuildGraph(src)
<1>1. /\ g.subjects = Subjects(src) /\ g.facts = Facts(src) /\ g.scopes = Scopes(src)
      /\ g.relations = Relations(src) /\ g.associations = Associations(src)
  BY GraphIs
<1>2. \A r \in Routes(src) : EndpointId(src, r) \in IdsOf(Endpoints(g))
  BY EndpointOfGraph
<1> HIDE DEF g
<1>3. ASSUME NEW a \in g.associations
      PROVE  /\ a.endpoint \in IdsOf(Endpoints(g)) /\ a.evidence \in IdsOf(g.facts)
             /\ a.scope \in IdsOf(g.scopes) /\ a.derived # {}
             /\ ById(g.facts, a.evidence).kind = "auth_enforcement"
                  => EnforcementPath(g, a, OwnRelations(g, a)).found
  <2>1. PICK k \in Kinds : \E c \in Marks(src, k) : a = Association(k, src, c)
    BY <1>1, <1>3, AssociationOfMark
  <2>2. PICK c \in Marks(src, k) : a = Association(k, src, c)
    BY <2>1
  <2>3. /\ a.endpoint = EndpointId(src, c[1]) /\ a.evidence = EvidenceId(k, src, c)
        /\ a.scope = RouteScope(src, c[1])
        /\ a.derived = {EvidenceId(k, src, c), EndpointId(src, c[1])} \cup (IF k = "auth_ambiguity" THEN {} ELSE {c[3]})
    BY <2>2, AssociationIs
  <2>4. c[1] \in Routes(src)
    BY MarkIs
  <2>5. /\ c[3] \in IdsOf(Relations(src)) /\ EvidenceId(k, src, c) \in IdsOf(Facts(src))
        /\ RouteScope(src, c[1]) \in IdsOf(Scopes(src)) /\ Evidence(k, src, c) \in Facts(src)
    BY OfMarks
  <2>6. ById(g.facts, a.evidence).kind = k
    <3>1. ById(Facts(src), EvidenceId(k, src, c)) = Evidence(k, src, c)
      BY <2>5, FactById, EvidenceIs
    <3> QED
      BY <1>1, <2>3, <3>1, EvidenceIs
  <2>7. ASSUME k = "auth_enforcement" PROVE EnforcementPath(g, a, OwnRelations(g, a)).found
    <3>1. EvidenceId(k, src, c) \notin IdsOf(Relations(src)) /\ EndpointId(src, c[1]) \notin IdsOf(Relations(src))
      BY EvidenceTag, EndpointIs, RelationTag
    <3>2. OwnRelations(g, a) = {c[3]}
      BY <1>1, <2>3, <2>5, <2>7, <3>1 DEF OwnRelations
    <3>3. c \in Marks(src, "auth_enforcement") /\ a = Association("auth_enforcement", src, c)
      BY <2>2, <2>7
    <3> QED
      BY <1>1, <3>2, <3>3, EnforcementHolds
  <2> QED
    BY <1>1, <1>2, <2>3, <2>4, <2>5, <2>6, <2>7
<1>4. AssociationsAreSound(g)
  BY <1>3 DEF AssociationsAreSound
<1> QED
  BY <1>4 DEF g

\* The fourth rule of the validator: proofs select what their claims were derived from.
LEMMA ProofsAreProven ==
  ASSUME NEW src, IsProgram(src)
  PROVE  ProofsAreSound(BuildGraph(src))
<1> DEFINE g == BuildGraph(src)
<1>1. /\ g.subjects = Subjects(src) /\ g.facts = Facts(src) /\ g.scopes = Scopes(src)
      /\ g.relations = Relations(src) /\ g.associations = Associations(src) /\ g.proofs = Proofs(src)
  BY GraphIs
<1>2. \A r \in Routes(src) : EndpointId(src, r) \in IdsOf(Endpoints(g))
  BY EndpointOfGraph
<1> HIDE DEF g
<1>3. ASSUME NEW p \in g.proofs
      PROVE  /\ p.endpoint \in IdsOf(Endpoints(g))
             /\ p.facts # {} /\ p.facts \subseteq IdsOf(g.facts)
             /\ p.associations # {} /\ p.associations \subseteq IdsOf(g.associations)
             /\ p.relations \subseteq IdsOf(g.relations)
             /\ p.kind = "auth_enforcement" => p.relations # {}
             /\ Selected(p) \subseteq p.derived
             /\ \A a \in {x \in g.associations : x.id \in p.associations} :
                  /\ a.endpoint = p.endpoint
                  /\ a.evidence \in p.facts
                  /\ p.kind = "auth_enforcement" => /\ p.relations \subseteq a.derived
                                                    /\ EnforcementPath(g, a, p.relations).found
  <2>1. PICK k \in Proving : \E c \in Marks(src, k) : p = ProofOf(ProofKind(k), k, src, c)
    BY <1>1, <1>3, ProofIs
  <2>2. PICK c \in Marks(src, k) : p = ProofOf(ProofKind(k), k, src, c)
    BY <2>1
  <2>3. /\ p.kind = ProofKind(k)
        /\ p.endpoint = EndpointId(src, c[1]) /\ p.facts = {EvidenceId(k, src, c)}
        /\ p.associations = {Named("association", k, src, c)} /\ p.relations = {c[3]}
        /\ {Named("association", k, src, c), EvidenceId(k, src, c), EndpointId(src, c[1]), c[3]} \subseteq p.derived
    BY <2>2, ProofOfIs
  <2>4. k \in Kinds /\ k # "auth_ambiguity" /\ (ProofKind(k) = "auth_enforcement" <=> k = "auth_enforcement")
    BY DEF Proving, Kinds, ProofKind
  <2>5. /\ c[1] \in Routes(src) /\ c[3] \in IdsOf(Relations(src)) /\ EvidenceId(k, src, c) \in IdsOf(Facts(src))
        /\ Named("association", k, src, c) \in IdsOf(Associations(src))
    BY <2>4, OfMarks, MarkIs
  <2>6. Selected(p) \subseteq p.derived
    BY <2>3 DEF Selected
  <2>7. ASSUME NEW a \in g.associations, a.id \in p.associations
        PROVE  /\ a.endpoint = p.endpoint
               /\ a.evidence \in p.facts
               /\ p.kind = "auth_enforcement" => /\ p.relations \subseteq a.derived
                                                 /\ EnforcementPath(g, a, p.relations).found
    <3>1. Association(k, src, c) \in Associations(src) /\ Association(k, src, c).id = Named("association", k, src, c)
      BY <2>4, OfMarks, AssociationIs
    <3>2. a = Association(k, src, c)
      BY <1>1, <2>3, <2>7, <3>1, OneAssociation
    <3>3. /\ a.endpoint = EndpointId(src, c[1]) /\ a.evidence = EvidenceId(k, src, c)
          /\ c[3] \in a.derived
      BY <2>4, <3>2, AssociationIs
    <3>4. ASSUME k = "auth_enforcement" PROVE EnforcementPath(g, a, p.relations).found
      <4>1. c \in Marks(src, "auth_enforcement") /\ a = Association("auth_enforcement", src, c)
        BY <3>2, <3>4
      <4> QED
        BY <1>1, <2>3, <4>1, EnforcementHolds
    <3> QED
      BY <2>3, <2>4, <3>3, <3>4
  <2> QED
    BY <1>1, <1>2, <2>3, <2>5, <2>6, <2>7
<1>4. ProofsAreSound(g)
  BY <1>3 DEF ProofsAreSound
<1> QED
  BY <1>4 DEF g

\* What an enforcement proof may rest on.
Firm(i) ==
  \/ i[1] \in {"subject", "scope", "relation", "provenance"}
  \/ i[1] = "fact" /\ i[6] = "endpoint"
  \/ i[1] \in {"evidence", "association", "proof"} /\ i[2] = "auth_enforcement"

\* What is firm is derived from what is firm.
LEMMA FirmRestsOnFirm ==
  ASSUME NEW src, IsProgram(src), NEW d \in Derivations(BuildGraph(src)), Firm(d[1])
  PROVE  Firm(d[2])
<1> DEFINE e == "auth_enforcement"
<1>0. \A i \in IdsOf(Relations(src)) : Firm(i)
  BY RelationTag DEF Firm
<1>1. CASE DerivesEndpoint(src, d[1], d[2])
  BY <1>0, <1>1 DEF DerivesEndpoint
<1>2. CASE DerivesClaim(src, d[1], d[2])
  <2>1. PICK k \in Kinds : \E c \in Marks(src, k) : d[1] = Named("association", k, src, c)
          /\ d[2] \in {EvidenceId(k, src, c), EndpointId(src, c[1])} \cup (IF k = "auth_ambiguity" THEN {} ELSE {c[3]})
    BY <1>2 DEF DerivesClaim
  <2>2. PICK c \in Marks(src, k) : d[1] = Named("association", k, src, c)
          /\ d[2] \in {EvidenceId(k, src, c), EndpointId(src, c[1])} \cup (IF k = "auth_ambiguity" THEN {} ELSE {c[3]})
    BY <2>1
  <2>3. d[1][1] = "association" /\ d[1][2] = k
    BY <2>2, NamedIs
  <2>4. k = e
    BY <2>3 DEF Firm
  <2>5. Firm(c[3])
    BY <1>0, OfMarks
  <2>6. Firm(EndpointId(src, c[1]))
    BY EndpointIs DEF Firm
  <2>7. Firm(EvidenceId(k, src, c))
    <3>1. EvidenceId(k, src, c) = Named("evidence", k, src, c)
      BY <2>4, EvidenceIdIs
    <3>2. EvidenceId(k, src, c)[1] = "evidence" /\ EvidenceId(k, src, c)[2] = e
      BY <2>4, <3>1, NamedIs
    <3> QED
      BY <3>2 DEF Firm
  <2> QED
    BY <2>2, <2>5, <2>6, <2>7
<1>3. CASE DerivesProof(src, d[1], d[2])
  <2>1. PICK k \in Proving : \E c \in Marks(src, k) : d[1] = Named("proof", ProofKind(k), src, c)
          /\ d[2] \in {Named("association", k, src, c), EvidenceId(k, src, c), EndpointId(src, c[1]), c[3]}
                        \cup (IF k = "auth_enforcement" THEN {Provenance("auth_association")} ELSE {})
    BY <1>3 DEF DerivesProof
  <2>2. PICK c \in Marks(src, k) : d[1] = Named("proof", ProofKind(k), src, c)
          /\ d[2] \in {Named("association", k, src, c), EvidenceId(k, src, c), EndpointId(src, c[1]), c[3]}
                        \cup (IF k = "auth_enforcement" THEN {Provenance("auth_association")} ELSE {})
    BY <2>1
  <2>3. d[1][1] = "proof" /\ d[1][2] = ProofKind(k)
    BY <2>2, NamedIs
  <2>4. k = e /\ k \in Kinds
    BY <2>3 DEF Firm, ProofKind, Proving, Kinds
  <2>5. Firm(c[3])
    BY <1>0, <2>4, OfMarks
  <2>6. Firm(EndpointId(src, c[1]))
    BY EndpointIs DEF Firm
  <2>7. Firm(EvidenceId(k, src, c))
    <3>1. EvidenceId(k, src, c) = Named("evidence", k, src, c)
      BY <2>4, EvidenceIdIs
    <3>2. EvidenceId(k, src, c)[1] = "evidence" /\ EvidenceId(k, src, c)[2] = e
      BY <2>4, <3>1, NamedIs
    <3> QED
      BY <3>2 DEF Firm
  <2>8. Firm(Named("association", k, src, c))
    <3>1. Named("association", k, src, c)[1] = "association" /\ Named("association", k, src, c)[2] = e
      BY <2>4, NamedIs
    <3> QED
      BY <3>1 DEF Firm
  <2>9. Firm(Provenance("auth_association"))
    BY DEF Firm, Provenance
  <2>10. d[2] \in {Named("association", k, src, c), EvidenceId(k, src, c), EndpointId(src, c[1]), c[3],
                   Provenance("auth_association")}
    BY <2>2
  <2> QED
    BY <2>5, <2>6, <2>7, <2>8, <2>9, <2>10
<1>4. CASE DerivesOpen(src, d[1], d[2])
  <2>1. PICK r \in Routes(src) : d[1] = <<"ambiguous-mount", EndpointId(src, r)>>
    BY <1>4 DEF DerivesOpen
  <2>2. d[1][1] = "ambiguous-mount"
    BY <2>1
  <2> QED
    BY <2>2 DEF Firm
<1>5. CASE DerivesDoubt(src, d[1], d[2])
  <2>1. PICK c \in Marks(src, "auth_ambiguity") : d[1] = Named("doubt", "auth_ambiguity", src, c)
    BY <1>5 DEF DerivesDoubt
  <2>2. d[1][1] = "doubt"
    BY <2>1, NamedIs
  <2> QED
    BY <2>2 DEF Firm
<1> QED
  BY <1>1, <1>2, <1>3, <1>4, <1>5, DerivationIs

\* No enforcement proof rests on an ambiguity.
LEMMA ProofsAreFirm ==
  ASSUME NEW src, IsProgram(src)
  PROVE  NoAdvisoryEnforcement(BuildGraph(src))
<1> DEFINE g == BuildGraph(src)
           e == "auth_enforcement"
           D == Derivations(g)
<1>1. /\ g.subjects = Subjects(src) /\ g.facts = Facts(src) /\ g.scopes = Scopes(src)
      /\ g.relations = Relations(src) /\ g.associations = Associations(src) /\ g.proofs = Proofs(src)
  BY GraphIs
<1>2. IsFiniteSet(D) /\ \A d \in D : Firm(d[1]) => Firm(d[2])
  BY FinitelyDerived, FirmRestsOnFirm
<1> HIDE DEF g
<1>3. ASSUME NEW p \in OfKind(g.proofs, e), NEW f \in g.facts, f.id \in Basis(g, p)
      PROVE  f.kind \notin AdvisoryKinds
  <2>1. PICK k \in Proving : \E c \in Marks(src, k) : p = ProofOf(ProofKind(k), k, src, c)
    BY <1>1, ProofIs DEF OfKind
  <2>2. PICK c \in Marks(src, k) : p = ProofOf(ProofKind(k), k, src, c)
    BY <2>1
  <2>3. /\ p.id = Named("proof", ProofKind(k), src, c) /\ p.kind = ProofKind(k)
        /\ p.endpoint = EndpointId(src, c[1]) /\ p.facts = {EvidenceId(k, src, c)}
        /\ p.associations = {Named("association", k, src, c)} /\ p.relations = {c[3]}
    BY <2>2, ProofOfIs
  <2>4. k = e /\ k \in Kinds /\ ProofKind(k) = e
    BY <2>3 DEF OfKind, ProofKind, Proving, Kinds
  <2>5. PathNodes(g, p) \subseteq IdsOf(Subjects(src)) \cup IdsOf(Scopes(src))
    <3>1. ASSUME NEW a \in g.associations, a.id \in p.associations
          PROVE  EnforcementPath(g, a, p.relations).nodes \subseteq IdsOf(Subjects(src)) \cup IdsOf(Scopes(src))
      <4>1. Association(k, src, c) \in Associations(src) /\ Association(k, src, c).id = Named("association", k, src, c)
        BY <2>4, OfMarks, AssociationIs
      <4>2. a = Association(k, src, c)
        BY <1>1, <2>3, <3>1, <4>1, OneAssociation
      <4>3. c \in Marks(src, e) /\ a = Association(e, src, c)
        BY <2>4, <4>2
      <4> QED
        BY <1>1, <2>3, <4>3, EnforcementHolds
    <3> QED
      BY <3>1 DEF PathNodes
  <2>6. \A i \in PathNodes(g, p) : Firm(i)
    <3> SUFFICES ASSUME NEW i \in IdsOf(Subjects(src)) \cup IdsOf(Scopes(src)) PROVE Firm(i)
      BY <2>5
    <3>1. ASSUME i \in IdsOf(Subjects(src)) PROVE i[1] = "subject"
      <4>1. PICK x \in Subjects(src) : i = x.id
        BY <3>1 DEF IdsOf
      <4> QED
        BY <4>1, SubjectIs
    <3>2. ASSUME i \in IdsOf(Scopes(src)) PROVE i[1] = "scope"
      <4>1. PICK x \in Scopes(src) : i = x.id
        BY <3>2 DEF IdsOf
      <4> QED
        BY <4>1, ScopeIs
    <3> QED
      BY <3>1, <3>2 DEF Firm
  <2>7. \A i \in Selected(p) : Firm(i)
    <3>1. Firm(c[3])
      BY <2>4, OfMarks, RelationTag DEF Firm
    <3>2. Firm(EndpointId(src, c[1]))
      BY EndpointIs DEF Firm
    <3>3. Firm(EvidenceId(k, src, c))
      <4>1. EvidenceId(k, src, c) = Named("evidence", k, src, c)
        BY <2>4, EvidenceIdIs
      <4>2. EvidenceId(k, src, c)[1] = "evidence" /\ EvidenceId(k, src, c)[2] = e
        BY <2>4, <4>1, NamedIs
      <4> QED
        BY <4>2 DEF Firm
    <3>4. Firm(Named("association", k, src, c))
      <4>1. Named("association", k, src, c)[1] = "association" /\ Named("association", k, src, c)[2] = e
        BY <2>4, NamedIs
      <4> QED
        BY <4>1 DEF Firm
    <3> QED
      BY <2>3, <3>1, <3>2, <3>3, <3>4 DEF Selected
  <2>8. Firm(p.id)
    <3>1. p.id[1] = "proof" /\ p.id[2] = e
      BY <2>3, <2>4, NamedIs
    <3> QED
      BY <3>1 DEF Firm
  <2> DEFINE S == Selected(p) \cup PathNodes(g, p) \cup {p.id}
             T == {i \in S \cup {d[2] : d \in D} : Firm(i)}
  <2>9. S \subseteq T
    BY <2>6, <2>7, <2>8
  <2>10. Closed(T, D)
    BY <1>2 DEF Closed
  <2>11. Basis(g, p) = ReachableFrom(S, D)
    BY DEF Basis
  <2> HIDE DEF S
  <2>12. \A i \in T : Firm(i)
    OBVIOUS
  <2> HIDE DEF T, D
  <2>13. ReachableFrom(S, D) \subseteq T
    BY <1>2, <2>9, <2>10, ReachIsLeast
  <2>14. Firm(f.id)
    BY <1>3, <2>11, <2>12, <2>13
  <2>15. CASE f.kind = "endpoint_declaration"
    BY <2>15 DEF AdvisoryKinds
  <2>16. CASE f.kind \in Kinds /\ \E b \in Marks(src, f.kind) : f = Evidence(f.kind, src, b)
    <3>1. PICK b \in Marks(src, f.kind) : f = Evidence(f.kind, src, b)
      BY <2>16
    <3>2. f.id = EvidenceId(f.kind, src, b)
      BY <3>1, EvidenceIs
    <3>3. ASSUME f.kind = "auth_ambiguity" PROVE FALSE
      <4>1. f.id = Named("evidence", f.kind, src, b)
        BY <2>16, <3>2, <3>3, EvidenceIdIs
      <4>2. f.id[1] = "evidence" /\ f.id[2] = "auth_ambiguity"
        BY <3>3, <4>1, NamedIs
      <4> QED
        BY <2>14, <4>2 DEF Firm
    <3> QED
      BY <2>16, <3>3 DEF Kinds, AdvisoryKinds
  <2> QED
    BY <1>1, <2>15, <2>16, FactIs
<1>4. NoAdvisoryEnforcement(g)
  BY <1>3 DEF NoAdvisoryEnforcement
<1> QED
  BY <1>4 DEF g

-----------------------------------------------------------------------------
(* The scan *)

\* The core accepts the graph the adapter builds from a program of any size whose calls
\* are told apart by their identifiers (EvidenceGraph.validate on build_express_graph).
THEOREM BuiltGraphIsValid ==
  ASSUME NEW src, IsProgram(src)
  PROVE  Valid(BuildGraph(src))
BY IdsAreUnique, ReferencesAreOfTheGraph, ClaimsAreSound, ProofsAreProven, AmbiguitiesAreExplicit,
   NothingDerivesItself, ProofsAreFirm DEF Valid

\* What is written stays a program, and what was reported stands.
ScanInv ==
  /\ DOMAIN source = File
  /\ \A f \in File : source[f] \in Seq(Range(Header[f]) \cup Statements[f])
  /\ report # None => report.valid

\* A sequence is a row of what it holds.
LEMMA AnyRow ==
  ASSUME NEW X, NEW s \in Seq(X)
  PROVE  InARow(s) /\ \A i \in DOMAIN s : s[i] \in X
<1>1. \A i \in DOMAIN s : s[i] \in Range(s)
  BY Zenon DEF Range
<1> DEFINE R == Range(s)
<1> HIDE DEF R
<1>2. Len(s) \in Nat /\ s = [i \in 1 .. Len(s) |-> s[i]]
  OBVIOUS
<1>3. \A i \in 1 .. Len(s) : s[i] \in R
  BY <1>1 DEF R
<1>4. s \in Seq(R)
  BY <1>2, <1>3
<1>5. \A i \in DOMAIN s : s[i] \in X
  OBVIOUS
<1> QED
  BY <1>4, <1>5 DEF InARow, R

\* What the statements of the model put together is a program.
LEMMA WrittenIsProgram ==
  ASSUME OneCallPerMethod, DOMAIN source = File,
         \A f \in File : source[f] \in Seq(Range(Header[f]) \cup Statements[f])
  PROVE  IsProgram(source)
<1>1. ASSUME NEW f \in File PROVE InARow(source[f])
  BY AnyRow
<1>2. ASSUME NEW s \in Positions(source)
      PROVE  WellFormed(At(source, s)) /\ CallsAreDistinct(At(source, s))
  <2>1. s[1] \in File /\ s[2] \in DOMAIN source[s[1]]
    BY DEF Positions
  <2>2. At(source, s) \in Range(Header[s[1]]) \cup Statements[s[1]]
    BY <2>1, AnyRow DEF At
  <2> QED
    BY <2>1, <2>2, ExpressScanAssumption DEF ExpressScanAssumption, OneCallPerMethod
<1> QED
  BY <1>1, <1>2 DEF IsProgram

\* The Express adapter never builds a graph that the core refuses (build_express_graph,
\* EvidenceGraph.validate), if no chain names one method twice and no public
\* declaration stands above a chain.
THEOREM AdapterGraphAlwaysValid ==
  ASSUME OneCallPerMethod
  PROVE  Spec => []AdapterGraphIsValid
<1>1. Init => ScanInv
  <2> SUFFICES ASSUME Init PROVE ScanInv
    OBVIOUS
  <2>1. \A f \in File : Header[f] \in Seq(Range(Header[f]))
    BY ExpressScanAssumption DEF ExpressScanAssumption, InARow
  <2>2. ASSUME NEW f \in File PROVE Header[f] \in Seq(Range(Header[f]) \cup Statements[f])
    BY <2>1
  <2> QED
    BY <2>2, ExpressScanAssumption DEF Init, ScanInv, ExpressScanAssumption
<1>2. ScanInv /\ [Next]_vars => ScanInv'
  <2> SUFFICES ASSUME ScanInv, [Next]_vars PROVE ScanInv'
    OBVIOUS
  <2>1. ASSUME NEW f \in File, NEW stmt \in Statements[f], Write(f, stmt) PROVE ScanInv'
    <3>1. source' = [source EXCEPT ![f] = Append(@, stmt)] /\ report' = report
      BY <2>1 DEF Write
    <3>2. ASSUME NEW h \in File PROVE source'[h] \in Seq(Range(Header[h]) \cup Statements[h])
      <4>1. source[h] \in Seq(Range(Header[h]) \cup Statements[h])
        BY DEF ScanInv
      <4>2. CASE h = f
        <5>1. source'[h] = Append(source[h], stmt)
          BY <3>1, <4>2 DEF ScanInv
        <5>2. stmt \in Range(Header[h]) \cup Statements[h]
          BY <4>2
        <5> QED
          BY <4>1, <5>1, <5>2
      <4>3. CASE h # f
        BY <3>1, <4>1, <4>3 DEF ScanInv
      <4> QED
        BY <4>2, <4>3
    <3> QED
      BY <3>1, <3>2 DEF ScanInv
  <2>2. CASE Scan
    <3>1. report' = Scanned(source) /\ source' = source
      BY <2>2 DEF Scan
    <3>2. Valid(BuildGraph(source))
      BY WrittenIsProgram, BuiltGraphIsValid DEF ScanInv
    <3>3. Scanned(source).valid
      BY <3>2 DEF Scanned
    <3> QED
      BY <3>1, <3>3 DEF ScanInv
  <2>3. CASE source' = source /\ report' = report
    BY <2>3 DEF ScanInv
  <2>4. ASSUME NEW p \in Paths, NEW c \in BOOLEAN, Arrive(p, c) PROVE source' = source /\ report' = report
    BY <2>4 DEF Arrive
  <2>5. ThroughUse => source' = source /\ report' = report
    BY DEF ThroughUse, GoOn, Finish
  <2>6. IntoMount => source' = source /\ report' = report
    BY DEF IntoMount, GoOn, Finish
  <2>7. ToRoute => source' = source /\ report' = report
    BY DEF ToRoute, GoOn, Finish
  <2>8. Leave => source' = source /\ report' = report
    BY DEF Leave, GoOn, Finish
  <2>9. UNCHANGED vars => source' = source /\ report' = report
    BY DEF vars
  <2> QED
    BY <2>1, <2>2, <2>3, <2>4, <2>5, <2>6, <2>7, <2>8, <2>9 DEF Next
<1>3. ScanInv => AdapterGraphIsValid
  BY DEF ScanInv, AdapterGraphIsValid
<1> QED
  BY <1>1, <1>2, <1>3, PTL DEF Spec
=============================================================================
