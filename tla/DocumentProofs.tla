---------------------------- MODULE DocumentProofs ----------------------------
(***************************************************************************)
(* What the searches of the validator find, and what the diff of two       *)
(* documents tells, for every document.                                    *)
(*                                                                         *)
(* The argument, for the searches.  The ways over a set of pairs are the   *)
(* least set that has the pairs and is closed under adding one             *)
(* (WaysClosed, WaysLeast): after as many rounds as there are pairs        *)
(* nothing is added, by pigeonhole.  FoldSet takes the elements of a set   *)
(* in an order of its own, so a fold is known by what each of its steps    *)
(* keeps (FoldKeeps).  The search with three colours ends without a cycle  *)
(* only when every set of nodes has one that no node of it leads to        *)
(* (Ranked, CycleFound): black nodes lead to black nodes (Searched).       *)
(* Over such a graph the search for ancestors never meets its guard, and   *)
(* its memo has for each node it has visited what leads there and for the  *)
(* others nothing (VisitTells, AncestorsAre).  The scopes of nested nodes  *)
(* follow from the node each is nested in, which comes before it           *)
(* (ScopesExact).  So what is refused for a reference is what nothing      *)
(* supplies (ReferenceExact).                                              *)
(*                                                                         *)
(* For the diff.  The nodes of a document without two of one id have       *)
(* places of their own (NodesByPlace), so two documents have the same      *)
(* canonical form exactly when they agree at every place and in every      *)
(* field that is compared.  Each kind of change is looked at alone: it is  *)
(* reported where the documents differ (NodeChangesAre, EdgeChangesAre,    *)
(* GovernanceChangesAre), and no report of a kind means that they agree    *)
(* there (NoNodeChanges, NoEdgeChanges, NoGovernanceChanges).              *)
(***************************************************************************)
EXTENDS Validator, IRDiff, FiniteSetTheorems, SequenceTheorems, WellFoundedInduction, TLAPS

-----------------------------------------------------------------------------
(* Induction over the numbers, of a set of them. *)

LEMMA Induction ==
    ASSUME NEW S \in SUBSET Nat, 0 \in S, \A n \in S : n + 1 \in S
    PROVE  S = Nat
<1> DEFINE rest == Nat \ S
<1> SUFFICES ASSUME rest # {} PROVE FALSE
  OBVIOUS
<1>1. PICK m \in rest : \A i \in rest : ~(<<i, m>> \in OpToRel(<, Nat))
  <2>1. rest \subseteq Nat  OBVIOUS
  <2> HIDE DEF rest
  <2>2. QED  BY <2>1, WFMin, NatLessThanWellFounded, Zenon
<1>2. m \in Nat /\ m # 0 /\ m - 1 \in Nat  OBVIOUS
<1>3. ASSUME m - 1 \in rest PROVE FALSE
  <2>1. <<m - 1, m>> \in Nat \X Nat /\ m - 1 < m  BY <1>2
  <2>2. <<m - 1, m>>[1] = m - 1 /\ <<m - 1, m>>[2] = m  OBVIOUS
  <2>3. <<m - 1, m>> \in OpToRel(<, Nat)  BY <2>1, <2>2, Zenon DEF OpToRel
  <2>4. QED  BY <1>1, <1>3, <2>3
<1>4. m - 1 \in S /\ (m - 1) + 1 = m  BY <1>2, <1>3
<1>5. QED  BY <1>1, <1>4

-----------------------------------------------------------------------------
(* Ways. *)

\* The rounds of LeadsTo.
LEMMA Rounds ==
    ASSUME NEW P, IsFiniteSet(P)
    PROVE  \E W : /\ W[0] = P
                  /\ \A k \in 1 .. Cardinality(P) : W[k] = Further(W[k - 1], P)
                  /\ LeadsTo(P) = W[Cardinality(P)]
<1> DEFINE Is(n, W) == W = [k \in 0 .. n |-> IF k = 0 THEN P ELSE Further(W[k - 1], P)]
           S == {n \in Nat : \E W : Is(n, W)}
           n == Cardinality(P)
<1>1. n \in Nat  BY FS_CardinalityType
<1>2. 0 \in S
  <2>1. Is(0, [k \in 0 .. 0 |-> P])  OBVIOUS
  <2>2. QED  BY <2>1
<1>3. ASSUME NEW m \in S PROVE m + 1 \in S
  <2>1. PICK W : Is(m, W)  OBVIOUS
  <2> DEFINE V == [k \in 0 .. (m + 1) |-> IF k = 0 THEN P ELSE Further(W[k - 1], P)]
  <2>2. \A k \in 0 .. m : V[k] = W[k]  BY <2>1
  <2>3. ASSUME NEW k \in 0 .. (m + 1), k # 0 PROVE V[k - 1] = W[k - 1]
    <3>1. k - 1 \in 0 .. m  BY <2>3
    <3>2. QED  BY <2>2, <3>1
  <2>4. \A k \in 0 .. (m + 1) : V[k] = IF k = 0 THEN P ELSE Further(V[k - 1], P)
    BY <2>3
  <2>5. V = [k \in 0 .. (m + 1) |-> V[k]]  OBVIOUS
  <2> HIDE DEF V
  <2>6. Is(m + 1, V)  BY <2>4, <2>5
  <2>7. QED  BY <2>6
<1>4. S = Nat
  <2>1. S \subseteq Nat  OBVIOUS
  <2> HIDE DEF S
  <2>2. QED  BY <1>2, <1>3, <2>1, Induction
<1>5. \E W : Is(n, W)  BY <1>1, <1>4
<1> DEFINE within == CHOOSE W : Is(n, W)
<1>6. Is(n, within)  BY <1>5
<1>7. LeadsTo(P) = within[n]  BY DEF LeadsTo
<1> HIDE DEF within, n
<1>8. within[0] = P /\ \A k \in 1 .. n : within[k] = Further(within[k - 1], P)
  BY <1>1, <1>6
<1>9. QED  BY <1>7, <1>8 DEF n

\* R holds the pairs and goes on with them.
Closed(R, P) == P \subseteq R /\ \A x, y, z : <<x, y>> \in R /\ <<y, z>> \in P => <<x, z>> \in R

LEMMA OneFurther ==
    ASSUME NEW A, NEW P \in SUBSET (A \X A), NEW ways \in SUBSET (A \X A)
    PROVE  /\ Further(ways, P) \in SUBSET (A \X A)
           /\ ways \subseteq Further(ways, P)
           /\ \A x, z : <<x, z>> \in Further(ways, P) <=>
                  <<x, z>> \in ways \/ \E y : <<x, y>> \in ways /\ <<y, z>> \in P
<1>1. ASSUME NEW x, NEW z, <<x, z>> \in Further(ways, P), <<x, z>> \notin ways
      PROVE  \E y : <<x, y>> \in ways /\ <<y, z>> \in P
  <2>1. PICK w \in ways \X P : w[1][2] = w[2][1] /\ <<x, z>> = <<w[1][1], w[2][2]>>
    BY <1>1 DEF Further
  <2>2. w[1] = <<x, w[1][2]>> /\ w[2] = <<w[1][2], z>>  BY <2>1
  <2>3. QED  BY <2>1, <2>2
<1>2. ASSUME NEW x, NEW y, NEW z, <<x, y>> \in ways, <<y, z>> \in P
      PROVE  <<x, z>> \in Further(ways, P)
  <2> DEFINE w == <<<<x, y>>, <<y, z>>>>
  <2>1. w \in ways \X P /\ w[1][2] = w[2][1] /\ <<w[1][1], w[2][2]>> = <<x, z>>
    BY <1>2
  <2> HIDE DEF w
  <2>2. QED  BY <2>1 DEF Further
<1>3. ways \subseteq Further(ways, P)  BY DEF Further
<1>4. Further(ways, P) \in SUBSET (A \X A)  BY DEF Further
<1>5. QED  BY <1>1, <1>2, <1>3, <1>4

\* LeadsTo is closed, and the least set that is.
LEMMA WaysLeast ==
    ASSUME NEW A, NEW P \in SUBSET (A \X A), IsFiniteSet(P), NEW R, Closed(R, P)
    PROVE  LeadsTo(P) \subseteq R
<1>1. PICK W : /\ W[0] = P
               /\ \A k \in 1 .. Cardinality(P) : W[k] = Further(W[k - 1], P)
               /\ LeadsTo(P) = W[Cardinality(P)]
  BY Rounds
<1> DEFINE n == Cardinality(P)
           S == {k \in Nat : k <= n => W[k] \in SUBSET (A \X A) /\ W[k] \subseteq R}
<1>0. \A V \in SUBSET (A \X A) :
          /\ Further(V, P) \in SUBSET (A \X A)
          /\ V \subseteq Further(V, P)
          /\ \A x, z : <<x, z>> \in Further(V, P) <=>
                 <<x, z>> \in V \/ \E y : <<x, y>> \in V /\ <<y, z>> \in P
  BY OneFurther, Zenon
<1>2. n \in Nat  BY FS_CardinalityType
<1>3. 0 \in S  BY <1>1 DEF Closed
<1>4. ASSUME NEW k \in S PROVE k + 1 \in S
  <2> SUFFICES ASSUME k + 1 <= n
               PROVE  W[k + 1] \in SUBSET (A \X A) /\ W[k + 1] \subseteq R
    OBVIOUS
  <2>1. W[k] \in SUBSET (A \X A) /\ W[k] \subseteq R  BY <1>2
  <2>2. W[k + 1] = Further(W[k], P)
    <3>1. k + 1 \in 1 .. n /\ (k + 1) - 1 = k  BY <1>2
    <3>2. QED  BY <1>1, <3>1
  <2>3. Further(W[k], P) \in SUBSET (A \X A)  BY <1>0, <2>1
  <2>4. ASSUME NEW w \in Further(W[k], P) PROVE w \in R
    <3>1. PICK x, z : w = <<x, z>>  BY <2>3
    <3>2. <<x, z>> \in W[k] \/ \E y : <<x, y>> \in W[k] /\ <<y, z>> \in P
      BY <1>0, <2>1, <2>4, <3>1
    <3>3. QED  BY <2>1, <3>1, <3>2 DEF Closed
  <2>5. QED  BY <2>2, <2>3, <2>4
<1>5. S = Nat
  <2>1. S \subseteq Nat  OBVIOUS
  <2> HIDE DEF S
  <2>2. QED  BY <1>3, <1>4, <2>1, Induction
<1>6. n \in S  BY <1>2, <1>5
<1>7. QED  BY <1>1, <1>2, <1>6

LEMMA WaysClosed ==
    ASSUME NEW A, NEW P \in SUBSET (A \X A), IsFiniteSet(P)
    PROVE  Closed(LeadsTo(P), P) /\ LeadsTo(P) \in SUBSET (A \X A)
<1>1. PICK W : /\ W[0] = P
               /\ \A k \in 1 .. Cardinality(P) : W[k] = Further(W[k - 1], P)
               /\ LeadsTo(P) = W[Cardinality(P)]
  BY Rounds
<1> DEFINE n == Cardinality(P)
<1>0. \A V \in SUBSET (A \X A) :
          /\ Further(V, P) \in SUBSET (A \X A)
          /\ V \subseteq Further(V, P)
          /\ \A x, z : <<x, z>> \in Further(V, P) <=>
                 <<x, z>> \in V \/ \E y : <<x, y>> \in V /\ <<y, z>> \in P
  BY OneFurther, Zenon
<1>2. n \in Nat  BY FS_CardinalityType
<1>3. \A k \in 0 .. n : W[k] \in SUBSET (A \X A) /\ P \subseteq W[k]
  <2> DEFINE S == {k \in Nat : k <= n => W[k] \in SUBSET (A \X A) /\ P \subseteq W[k]}
  <2>1. 0 \in S  BY <1>1
  <2>2. ASSUME NEW k \in S PROVE k + 1 \in S
    <3> SUFFICES ASSUME k + 1 <= n
                 PROVE  W[k + 1] \in SUBSET (A \X A) /\ P \subseteq W[k + 1]
      OBVIOUS
    <3>0. k <= n  BY <1>2
    <3>1. W[k] \in SUBSET (A \X A) /\ P \subseteq W[k]  BY <1>2
    <3>2. k + 1 \in 1 .. n /\ (k + 1) - 1 = k  BY <1>2
    <3>3. W[k + 1] = Further(W[k], P)  BY <1>1, <3>2
    <3>4. QED  BY <1>0, <3>1, <3>3
  <2>3. S = Nat
    <3>1. S \subseteq Nat  OBVIOUS
    <3> HIDE DEF S
    <3>2. QED  BY <2>1, <2>2, <3>1, Induction
  <2>4. QED  BY <1>2, <2>3
<1>4. \A k \in 1 .. n : \A x, z : <<x, z>> \in W[k] <=>
          <<x, z>> \in W[k - 1] \/ \E y : <<x, y>> \in W[k - 1] /\ <<y, z>> \in P
  <2> SUFFICES ASSUME NEW k \in 1 .. n
               PROVE  \A x, z : <<x, z>> \in W[k] <=>
                          <<x, z>> \in W[k - 1] \/ \E y : <<x, y>> \in W[k - 1] /\ <<y, z>> \in P
    OBVIOUS
  <2>1. k - 1 \in 0 .. n  BY <1>2
  <2>2. W[k] = Further(W[k - 1], P) /\ W[k - 1] \in SUBSET (A \X A)  BY <1>1, <1>3, <2>1
  <2>3. PICK V \in SUBSET (A \X A) : V = W[k - 1]  BY <2>2
  <2>4. W[k] = Further(V, P)  BY <2>2, <2>3
  <2>5. \A x, z : <<x, z>> \in W[k] <=>
            <<x, z>> \in V \/ \E y : <<x, y>> \in V /\ <<y, z>> \in P
    <3>1. \A x, z : <<x, z>> \in Further(V, P) <=>
              <<x, z>> \in V \/ \E y : <<x, y>> \in V /\ <<y, z>> \in P
      BY <1>0, Zenon
    <3> DEFINE F == Further(V, P)
    <3> HIDE DEF F
    <3>2. W[k] = F  BY <2>4 DEF F
    <3>3. QED  BY <3>1, <3>2, ZenonT(40) DEF F
  <2>6. QED  BY <2>3, <2>5, Zenon
<1>5. ASSUME NEW x, NEW y, NEW z, <<x, y>> \in W[n], <<y, z>> \in P, <<x, z>> \notin W[n]
      PROVE  FALSE
  <2> DEFINE Onto(R) == R \cup {v \in A : \E u \in R : <<u, v>> \in P}
             Row(k) == {v \in A : <<x, v>> \in W[k]}
             On(k) == {q \in P : q[2] \in Row(k)}
  <2>1. ASSUME NEW k \in 0 .. n, k + 1 <= n PROVE Row(k + 1) = Onto(Row(k))
    <3>1. k + 1 \in 1 .. n /\ (k + 1) - 1 = k  BY <1>2, <2>1
    <3>2. W[k] \in SUBSET (A \X A) /\ W[k + 1] \in SUBSET (A \X A)  BY <1>2, <1>3, <2>1
    <3>3. ASSUME NEW v \in A
          PROVE  <<x, v>> \in W[k + 1] <=>
                     <<x, v>> \in W[k] \/ \E u \in A : <<x, u>> \in W[k] /\ <<u, v>> \in P
      <4>1. <<x, v>> \in W[k + 1] <=>
                <<x, v>> \in W[k] \/ \E u : <<x, u>> \in W[k] /\ <<u, v>> \in P
        BY <1>4, <3>1
      <4>2. QED  BY <3>2, <4>1
    <3>4. QED  BY <3>3
  <2>2. Onto(Row(n)) # Row(n)
    <3>1. y \in A /\ z \in A /\ W[n] \in SUBSET (A \X A)  BY <1>2, <1>3, <1>5
    <3>2. y \in Row(n) /\ z \notin Row(n)  BY <1>5, <3>1
    <3>3. z \in Onto(Row(n))  BY <1>5, <3>1, <3>2
    <3>4. QED  BY <3>2, <3>3
  <2>3. ASSUME NEW k \in 0 .. n PROVE Onto(Row(k)) # Row(k)
    <3> SUFFICES ASSUME Onto(Row(k)) = Row(k) PROVE FALSE
      OBVIOUS
    <3> DEFINE S == {j \in Nat : k + j <= n => Row(k + j) = Row(k)}
    <3>1. 0 \in S  BY <1>2
    <3>2. ASSUME NEW j \in S PROVE j + 1 \in S
      <4> SUFFICES ASSUME k + (j + 1) <= n PROVE Row(k + (j + 1)) = Row(k)
        OBVIOUS
      <4>1. k + j \in 0 .. n /\ (k + j) + 1 = k + (j + 1)  BY <1>2
      <4>2. Row(k + j) = Row(k)  BY <1>2, <4>1
      <4> HIDE DEF Row, Onto
      <4>3. QED  BY <2>1, <4>1, <4>2
    <3>3. S = Nat
      <4>1. S \subseteq Nat  OBVIOUS
      <4> HIDE DEF S
      <4>2. QED  BY <3>1, <3>2, <4>1, Induction
    <3>4. n - k \in S /\ k + (n - k) = n
      <4>1. n - k \in Nat  BY <1>2
      <4> HIDE DEF S
      <4>2. QED  BY <1>2, <3>3, <4>1
    <3>5. Row(n) = Row(k)  BY <1>2, <3>4
    <3> HIDE DEF Row, Onto
    <3>6. QED  BY <2>2, <3>5
  <2>4. \A k \in 0 .. n : IsFiniteSet(On(k)) /\ Cardinality(On(k)) >= k
    <3> DEFINE S == {k \in Nat : k <= n => IsFiniteSet(On(k)) /\ Cardinality(On(k)) >= k}
    <3>1. \A k : On(k) \subseteq P /\ IsFiniteSet(On(k)) /\ Cardinality(On(k)) \in Nat
      <4>1. \A k : On(k) \subseteq P  OBVIOUS
      <4> HIDE DEF On
      <4>2. QED  BY <4>1, FS_Subset, FS_CardinalityType
    <3>2. 0 \in S
      <4>1. IsFiniteSet(On(0)) /\ Cardinality(On(0)) \in Nat  BY <3>1
      <4> HIDE DEF On
      <4>2. QED  BY <4>1
    <3>3. ASSUME NEW k \in S PROVE k + 1 \in S
      <4> SUFFICES ASSUME k + 1 <= n PROVE Cardinality(On(k + 1)) >= k + 1
        <5> HIDE DEF On
        <5>1. QED  BY <3>1
      <4>1. k \in 0 .. n /\ Cardinality(On(k)) >= k  BY <1>2
      <4>2. Row(k + 1) = Onto(Row(k)) /\ Onto(Row(k)) # Row(k)  BY <2>1, <2>3, <4>1
      <4>3. PICK v \in A : v \in Row(k + 1) /\ v \notin Row(k) /\ \E u \in Row(k) : <<u, v>> \in P
        BY <4>2
      <4>4. PICK q \in P : q[2] = v  BY <4>3
      <4>5. On(k) \cup {q} \subseteq On(k + 1) /\ q \notin On(k)
        <5>1. Row(k) \subseteq Row(k + 1)  BY <4>2
        <5> HIDE DEF Row
        <5>2. QED  BY <4>3, <4>4, <5>1
      <4> HIDE DEF On
      <4>6. Cardinality(On(k) \cup {q}) = Cardinality(On(k)) + 1  BY <3>1, <4>5, FS_AddElement
      <4>7. Cardinality(On(k) \cup {q}) <= Cardinality(On(k + 1))  BY <3>1, <4>5, FS_Subset
      <4>8. QED  BY <3>1, <4>1, <4>6, <4>7
    <3>4. S = Nat
      <4>1. S \subseteq Nat  OBVIOUS
      <4> HIDE DEF S
      <4>2. QED  BY <3>2, <3>3, <4>1, Induction
    <3> HIDE DEF On
    <3>5. QED  BY <1>2, <3>4
  <2>5. On(n) \subseteq P \ {<<y, z>>}  BY <1>5
  <2>6. Cardinality(P \ {<<y, z>>}) = n - 1 /\ IsFiniteSet(P \ {<<y, z>>})  BY <1>5, FS_RemoveElement
  <2> HIDE DEF On
  <2>7. Cardinality(On(n)) <= n - 1  BY <2>5, <2>6, FS_Subset
  <2>8. Cardinality(On(n)) >= n  BY <1>2, <2>4
  <2>9. Cardinality(On(n)) \in Nat  BY <1>2, <2>4, FS_CardinalityType
  <2>10. QED  BY <1>2, <2>7, <2>8, <2>9
<1>6. QED  BY <1>1, <1>2, <1>3, <1>5 DEF Closed

-----------------------------------------------------------------------------
(* Folds and searches. *)

\* The steps of a fold.
IsFold(F, f, c, S) ==
    /\ F[{}] = c
    /\ \A T \in SUBSET S : T # {} => \E x \in T : F[T] = f[x][F[T \ {x}]]
    /\ Folded(f, c, S) = F[S]

LEMMA Folding ==
    ASSUME NEW S, IsFiniteSet(S), NEW f, NEW c
    PROVE  \E F : IsFold(F, f, c, S)
<1> DEFINE Pick(T) == CHOOSE x \in T : TRUE
           Parts(n) == {T \in SUBSET S : Cardinality(T) <= n}
           Step(T, F) == IF T = {} THEN c ELSE f[Pick(T)][F[T \ {Pick(T)}]]
           Is(n, F) == F = [T \in Parts(n) |-> Step(T, F)]
           N == {n \in Nat : \E F : Is(n, F)}
           n == Cardinality(S)
<1>0. \A T \in SUBSET S : IsFiniteSet(T) /\ Cardinality(T) \in Nat /\ Cardinality(T) <= n
  BY FS_Subset, FS_CardinalityType
<1>1. n \in Nat  BY FS_CardinalityType
<1>2. \A T : T # {} => Pick(T) \in T  OBVIOUS
<1>3. \A T \in SUBSET S : T # {} =>
          T \ {Pick(T)} \in SUBSET S /\ Cardinality(T \ {Pick(T)}) = Cardinality(T) - 1
  BY <1>0, <1>2, FS_RemoveElement
<1> HIDE DEF Pick
<1>4. 0 \in N
  <2> DEFINE F == [T \in Parts(0) |-> c]
  <2>1. \A T \in Parts(0) : T = {}
    <3>1. SUFFICES ASSUME NEW T \in Parts(0) PROVE T = {}
      OBVIOUS
    <3>2. T \in SUBSET S /\ Cardinality(T) = 0  BY <1>0
    <3>3. QED  BY <1>0, <3>2, FS_EmptySet
  <2>2. Is(0, F)  BY <2>1
  <2>3. QED  BY <2>2
<1>5. ASSUME NEW m \in N PROVE m + 1 \in N
  <2>1. PICK F : Is(m, F)  OBVIOUS
  <2> DEFINE V == [T \in Parts(m + 1) |-> Step(T, F)]
  <2>2. \A T \in Parts(m) : V[T] = F[T]
    <3>1. Parts(m) \subseteq Parts(m + 1)  BY <1>0
    <3>2. QED  BY <2>1, <3>1
  <2>3. ASSUME NEW T \in Parts(m + 1) PROVE Step(T, V) = Step(T, F)
    <3>1. CASE T = {}  BY <3>1
    <3>2. CASE T # {}
      <4>1. T \ {Pick(T)} \in Parts(m)  BY <1>0, <1>3, <3>2
      <4>2. V[T \ {Pick(T)}] = F[T \ {Pick(T)}]  BY <2>2, <4>1
      <4>3. QED  BY <4>2
    <3>3. QED  BY <3>1, <3>2
  <2>4. \A T \in Parts(m + 1) : V[T] = Step(T, V)  BY <2>3
  <2>5. V = [T \in Parts(m + 1) |-> V[T]]  OBVIOUS
  <2> HIDE DEF V, Step, Parts
  <2>6. Is(m + 1, V)  BY <2>4, <2>5
  <2>7. QED  BY <2>6
<1>6. N = Nat
  <2>1. N \subseteq Nat  OBVIOUS
  <2> HIDE DEF N
  <2>2. QED  BY <1>4, <1>5, <2>1, Induction
<1>7. \E F : Is(n, F)  BY <1>1, <1>6
<1>8. Parts(n) = SUBSET S  BY <1>0
<1> DEFINE iter == CHOOSE F : F = [T \in SUBSET S |-> Step(T, F)]
<1>9. Folded(f, c, S) = iter[S]  BY DEF Folded, FoldSet, MapThenFoldSet, Pick
<1>10. iter = [T \in SUBSET S |-> Step(T, iter)]
  <2> HIDE DEF Step, Parts
  <2>1. \E F : F = [T \in SUBSET S |-> Step(T, F)]  BY <1>7, <1>8
  <2>2. QED  BY <2>1, Zenon
<1> HIDE DEF iter
<1>11. iter[{}] = c  BY <1>10
<1>12. \A T \in SUBSET S : T # {} => \E x \in T : iter[T] = f[x][iter[T \ {x}]]
  BY <1>2, <1>10
<1>13. QED  BY <1>9, <1>11, <1>12 DEF IsFold

\* What every step keeps, a fold keeps: I tells it of the part that was gone through.
LEMMA FoldKeeps ==
    ASSUME NEW S, IsFiniteSet(S), NEW f, NEW c, NEW I,
           c \in I[{}],
           \A T \in SUBSET S : \A x \in S \ T : \A s \in I[T] : f[x][s] \in I[T \cup {x}]
    PROVE  Folded(f, c, S) \in I[S]
<1>1. PICK F : IsFold(F, f, c, S)  BY Folding
<1> DEFINE N == {n \in Nat : \A T \in SUBSET S : Cardinality(T) = n => F[T] \in I[T]}
<1>0. \A T \in SUBSET S : IsFiniteSet(T) /\ Cardinality(T) \in Nat
  BY FS_Subset, FS_CardinalityType
<1>2. 0 \in N
  <2>1. \A T \in SUBSET S : Cardinality(T) = 0 => T = {}  BY <1>0, FS_EmptySet
  <2>2. QED  BY <1>1, <2>1 DEF IsFold
<1>3. ASSUME NEW n \in N PROVE n + 1 \in N
  <2> SUFFICES ASSUME NEW T \in SUBSET S, Cardinality(T) = n + 1 PROVE F[T] \in I[T]
    OBVIOUS
  <2>0. n \in Nat  OBVIOUS
  <2>00. \A U \in SUBSET S : Cardinality(U) = n => F[U] \in I[U]  OBVIOUS
  <2> HIDE DEF N
  <2>1. T # {}
    <3>1. n + 1 # 0  BY <2>0
    <3>2. QED  BY <3>1, FS_EmptySet, Zenon
  <2>2. PICK x \in T : F[T] = f[x][F[T \ {x}]]  BY <1>1, <2>1 DEF IsFold
  <2>3. Cardinality(T \ {x}) = n
    <3>1. Cardinality(T \ {x}) = Cardinality(T) - 1  BY <1>0, FS_RemoveElement
    <3>2. QED  BY <2>0, <3>1
  <2>4. T \ {x} \in SUBSET S /\ x \in S \ (T \ {x}) /\ (T \ {x}) \cup {x} = T  OBVIOUS
  <2>5. F[T \ {x}] \in I[T \ {x}]  BY <2>00, <2>3, <2>4
  <2>6. f[x][F[T \ {x}]] \in I[(T \ {x}) \cup {x}]  BY <2>4, <2>5, Zenon
  <2>7. QED  BY <2>2, <2>4, <2>6
<1>4. N = Nat
  <2>1. N \subseteq Nat  OBVIOUS
  <2> HIDE DEF N
  <2>2. QED  BY <1>2, <1>3, <2>1, Induction
<1>5. QED  BY <1>0, <1>1, <1>4 DEF IsFold

\* A set of nodes that leads nowhere else, and each part of which has a node that no
\* other of the part leads to.
Ranked(next, B) ==
    /\ \A x \in B : next[x] \subseteq B
    /\ \A S \in SUBSET B : S # {} => \E x \in S : \A y \in S : x \notin next[y]

\* What the search has found before and after it visits a node, while it has found no cycle.
Searched(next, gray) ==
    {s \in Found(next) : s.black \cap gray = {} /\ (~s.cycle => Ranked(next, s.black))}
After(next, gray, v, s) ==
    {r \in Searched(next, gray) : s.black \subseteq r.black /\ (~r.cycle => ~s.cycle /\ v \in r.black)}

LEMMA RankedWith ==
    ASSUME NEW next, NEW B, Ranked(next, B), NEW u, u \notin B, next[u] \subseteq B
    PROVE  Ranked(next, B \cup {u})
<1>1. \A x \in B \cup {u} : next[x] \subseteq B  BY DEF Ranked
<1>2. ASSUME NEW S \in SUBSET (B \cup {u}), S # {}
      PROVE  \E x \in S : \A y \in S : x \notin next[y]
  <2>1. CASE u \in S  BY <1>1, <2>1
  <2>2. CASE u \notin S
    <3>1. S \in SUBSET B  BY <2>2
    <3>2. QED  BY <1>2, <3>1 DEF Ranked
  <2>3. QED  BY <2>1, <2>2
<1>3. QED  BY <1>1, <1>2 DEF Ranked

LEMMA WalkFinds ==
    ASSUME NEW D, IsFiniteSet(D), NEW next \in [D -> SUBSET D],
           NEW gray \in SUBSET D, NEW u \in D \ gray,
           NEW deeper, NEW c \in Searched(next, gray), u \notin c.black,
           \A v \in D \ (gray \cup {u}) : \A s \in Searched(next, gray \cup {u}) :
               v \notin s.black => deeper[v][s] \in After(next, gray \cup {u}, v, s)
    PROVE  Walk(next, gray \cup {u}, deeper, u, c) \in After(next, gray, u, c)
<1> DEFINE G == gray \cup {u}
           into == [v \in D |->
                       [s \in Found(next) |-> IF v \in G THEN [s EXCEPT !.cycle = TRUE]
                                              ELSE IF v \in s.black THEN s
                                              ELSE deeper[v][s]]]
           I == [T \in SUBSET D |->
                    {s \in Searched(next, G) : /\ c.black \subseteq s.black
                                               /\ ~s.cycle => ~c.cycle /\ T \subseteq s.black}]
           end == Folded(into, c, next[u])
<1>0. DOMAIN next = D /\ next[u] \in SUBSET D /\ IsFiniteSet(next[u]) /\ G \in SUBSET D
  BY FS_Subset
<1>1. c \in I[{}]
  <2>1. c \in Searched(next, G)  BY DEF Searched
  <2>2. QED  BY <2>1
<1>2. ASSUME NEW T \in SUBSET next[u], NEW x \in next[u] \ T, NEW s \in I[T]
      PROVE  into[x][s] \in I[T \cup {x}]
  <2>0. T \in SUBSET D /\ x \in D /\ T \cup {x} \in SUBSET D  BY <1>0
  <2>1. /\ s \in Searched(next, G) /\ s \in Found(next) /\ c.black \subseteq s.black
        /\ ~s.cycle => ~c.cycle /\ T \subseteq s.black
    BY <2>0 DEF Searched
  <2>2. into[x][s] = IF x \in G THEN [s EXCEPT !.cycle = TRUE]
                     ELSE IF x \in s.black THEN s ELSE deeper[x][s]
    BY <2>0, <2>1
  <2> HIDE DEF into
  <2>3. CASE x \in G
    <3>1. into[x][s] = [black |-> s.black, cycle |-> TRUE] /\ s.black \in SUBSET D
      BY <1>0, <2>1, <2>2, <2>3 DEF Found
    <3>2. into[x][s] \in Searched(next, G)
      BY <1>0, <2>1, <3>1 DEF Searched, Found
    <3>3. QED  BY <2>0, <2>1, <3>1, <3>2
  <2>4. CASE x \notin G /\ x \in s.black
    <3>1. into[x][s] = s  BY <2>2, <2>4
    <3>2. QED  BY <2>0, <2>1, <2>4, <3>1
  <2>5. CASE x \notin G /\ x \notin s.black
    <3>1. into[x][s] = deeper[x][s] /\ x \in D \ G  BY <2>0, <2>2, <2>5
    <3>2. deeper[x][s] \in After(next, G, x, s)  BY <2>1, <2>5, <3>1
    <3> DEFINE r == deeper[x][s]
    <3>3. /\ r \in Searched(next, G) /\ s.black \subseteq r.black
          /\ ~r.cycle => ~s.cycle /\ x \in r.black
      BY <3>2 DEF After
    <3> HIDE DEF r
    <3>4. into[x][s] = r  BY <3>1 DEF r
    <3>5. QED  BY <2>0, <2>1, <3>3, <3>4
  <2>6. QED  BY <2>3, <2>4, <2>5
<1>3. \A T \in SUBSET next[u] : \A x \in next[u] \ T : \A s \in I[T] : into[x][s] \in I[T \cup {x}]
  BY <1>2
<1>4. end \in I[next[u]]
  <2> HIDE DEF I, into
  <2>1. QED  BY <1>0, <1>1, <1>3, FoldKeeps
<1>5. Walk(next, G, deeper, u, c) = [end EXCEPT !.black = @ \cup {u}]
  BY <1>0 DEF Walk
<1> HIDE DEF end, into
<1>6. /\ end \in Searched(next, G) /\ c.black \subseteq end.black
      /\ ~end.cycle => ~c.cycle /\ next[u] \subseteq end.black
  BY <1>0, <1>4
<1> DEFINE r == [end EXCEPT !.black = @ \cup {u}]
<1>7. /\ end \in Found(next) /\ end.black \cap G = {}
      /\ ~end.cycle => Ranked(next, end.black)
  BY <1>6 DEF Searched
<1>8. /\ r \in Found(next) /\ r.black = end.black \cup {u} /\ r.cycle = end.cycle
  BY <1>0, <1>7 DEF Found
<1> HIDE DEF r
<1>9. ~r.cycle => Ranked(next, r.black)
  BY <1>6, <1>7, <1>8, RankedWith
<1>10. r.black \cap gray = {}  BY <1>7, <1>8
<1>11. r \in Searched(next, gray)  BY <1>8, <1>9, <1>10 DEF Searched
<1>12. r \in After(next, gray, u, c)  BY <1>6, <1>8, <1>11 DEF After
<1>13. QED  BY <1>5, <1>12 DEF r, G

LEMMA DfsFinds ==
    ASSUME NEW D, IsFiniteSet(D), NEW next \in [D -> SUBSET D],
           NEW u \in D, NEW c \in Searched(next, {}), u \notin c.black
    PROVE  Dfs(next)[u][c] \in After(next, {}, u, c)
<1> DEFINE Step(gray, F) ==
               [v \in D \ gray |->
                   [s \in Found(next) |-> Walk(next, gray \cup {v}, F[gray \cup {v}], v, s)]]
           left(gray) == Cardinality(D \ gray)
           Parts(n) == {gray \in SUBSET D : left(gray) <= n}
           Is(n, F) == F = [gray \in Parts(n) |-> Step(gray, F)]
           N == {n \in Nat : \E F : Is(n, F)}
           n == Cardinality(D)
<1>0. \A gray \in SUBSET D :
          /\ left(gray) \in Nat /\ left(gray) <= n
          /\ left(gray) = 0 => D \ gray = {}
  <2> SUFFICES ASSUME NEW gray \in SUBSET D
               PROVE  left(gray) \in Nat /\ left(gray) <= n /\ (left(gray) = 0 => D \ gray = {})
    OBVIOUS
  <2>1. D \ gray \in SUBSET D  OBVIOUS
  <2>2. IsFiniteSet(D \ gray) /\ left(gray) \in Nat /\ left(gray) <= n
    BY <2>1, FS_Subset, FS_CardinalityType
  <2>3. left(gray) = 0 => D \ gray = {}  BY <2>2, FS_EmptySet
  <2>4. QED  BY <2>2, <2>3
<1>1. n \in Nat /\ DOMAIN next = D  BY FS_CardinalityType
<1>2. \A gray \in SUBSET D : \A v \in D \ gray :
          gray \cup {v} \in SUBSET D /\ left(gray \cup {v}) = left(gray) - 1
  <2> SUFFICES ASSUME NEW gray \in SUBSET D, NEW v \in D \ gray
               PROVE  left(gray \cup {v}) = left(gray) - 1
    OBVIOUS
  <2>1. D \ (gray \cup {v}) = (D \ gray) \ {v} /\ v \in D \ gray  OBVIOUS
  <2>2. IsFiniteSet(D \ gray)  BY FS_Difference
  <2>3. Cardinality((D \ gray) \ {v}) = Cardinality(D \ gray) - 1
    BY <2>1, <2>2, FS_RemoveElement
  <2>4. QED  BY <2>1, <2>3
<1> HIDE DEF left
<1>3. 0 \in N
  <2> DEFINE F == [gray \in Parts(0) |-> [v \in {} |-> {}]]
  <2>1. ASSUME NEW gray \in Parts(0) PROVE D \ gray = {}
    <3>1. left(gray) = 0  BY <1>0
    <3>2. QED  BY <1>0, <3>1
  <2>2. ASSUME NEW gray \in Parts(0) PROVE Step(gray, F) = [v \in {} |-> {}]
    BY <2>1
  <2> HIDE DEF Step
  <2>3. Is(0, F)  BY <2>2
  <2>4. QED  BY <2>3
<1>4. ASSUME NEW m \in N PROVE m + 1 \in N
  <2>1. PICK F : Is(m, F)  OBVIOUS
  <2> DEFINE V == [gray \in Parts(m + 1) |-> Step(gray, F)]
  <2>2. \A gray \in Parts(m) : V[gray] = F[gray]
    <3>1. Parts(m) \subseteq Parts(m + 1)  BY <1>0
    <3> HIDE DEF Step, Parts
    <3>2. QED  BY <2>1, <3>1
  <2>3. ASSUME NEW gray \in Parts(m + 1) PROVE Step(gray, V) = Step(gray, F)
    <3>1. \A v \in D \ gray : gray \cup {v} \in Parts(m)
      BY <1>0, <1>2
    <3> HIDE DEF V, Parts
    <3>2. \A v \in D \ gray : V[gray \cup {v}] = F[gray \cup {v}]  BY <2>2, <3>1
    <3>3. QED  BY <3>2
  <2> HIDE DEF Step, Parts
  <2>4. \A gray \in Parts(m + 1) : V[gray] = Step(gray, V)  BY <2>3
  <2>5. V = [gray \in Parts(m + 1) |-> V[gray]]  OBVIOUS
  <2> HIDE DEF V
  <2>6. Is(m + 1, V)  BY <2>4, <2>5
  <2>7. QED  BY <2>6
<1>5. N = Nat
  <2>1. N \subseteq Nat  OBVIOUS
  <2> HIDE DEF N
  <2>2. QED  BY <1>3, <1>4, <2>1, Induction
<1>6. \E F : Is(n, F)
  <2> HIDE DEF Is
  <2>1. QED  BY <1>1, <1>5
<1>7. Parts(n) = SUBSET D  BY <1>0
<1> DEFINE dfs == CHOOSE F : F = [gray \in SUBSET D |-> Step(gray, F)]
<1>8. Dfs(next) = dfs[{}]  BY <1>1 DEF Dfs
<1>9. dfs = [gray \in SUBSET D |-> Step(gray, dfs)]
  <2> HIDE DEF Step, Parts
  <2>1. \E F : F = [gray \in SUBSET D |-> Step(gray, F)]  BY <1>6, <1>7
  <2>2. QED  BY <2>1, Zenon
<1> HIDE DEF dfs
<1>10. \A gray \in SUBSET D : \A v \in D \ gray : \A s \in Found(next) :
           dfs[gray][v][s] = Walk(next, gray \cup {v}, dfs[gray \cup {v}], v, s)
  <2> SUFFICES ASSUME NEW gray \in SUBSET D, NEW v \in D \ gray, NEW s \in Found(next)
               PROVE  dfs[gray][v][s] = Walk(next, gray \cup {v}, dfs[gray \cup {v}], v, s)
    OBVIOUS
  <2>1. dfs[gray] = Step(gray, dfs)
    <3> HIDE DEF Step
    <3>1. QED  BY <1>9
  <2>2. Step(gray, dfs)[v][s] = Walk(next, gray \cup {v}, dfs[gray \cup {v}], v, s)
    OBVIOUS
  <2>3. QED  BY <2>1, <2>2
<1> DEFINE M == {k \in Nat : \A gray \in SUBSET D : left(gray) = k =>
                     \A v \in D \ gray : \A s \in Searched(next, gray) :
                         v \notin s.black => dfs[gray][v][s] \in After(next, gray, v, s)}
<1>11. 0 \in M
  <2> SUFFICES ASSUME NEW gray \in SUBSET D, left(gray) = 0, NEW v \in D \ gray
               PROVE  FALSE
    OBVIOUS
  <2>1. D \ gray = {}  BY <1>0
  <2>2. QED  BY <2>1
<1>12. ASSUME NEW k \in M PROVE k + 1 \in M
  <2> SUFFICES ASSUME NEW gray \in SUBSET D, left(gray) = k + 1,
                      NEW v \in D \ gray, NEW s \in Searched(next, gray), v \notin s.black
               PROVE  dfs[gray][v][s] \in After(next, gray, v, s)
    OBVIOUS
  <2>1. k \in Nat  OBVIOUS
  <2>2. gray \cup {v} \in SUBSET D /\ left(gray \cup {v}) = k
    <3>1. left(gray \cup {v}) = left(gray) - 1  BY <1>2
    <3>2. QED  BY <2>1, <3>1
  <2>3. \A x \in D \ (gray \cup {v}) : \A a \in Searched(next, gray \cup {v}) :
            x \notin a.black => dfs[gray \cup {v}][x][a] \in After(next, gray \cup {v}, x, a)
    BY <2>2
  <2> HIDE DEF M
  <2>4. Walk(next, gray \cup {v}, dfs[gray \cup {v}], v, s) \in After(next, gray, v, s)
    BY <2>3, WalkFinds
  <2>5. s \in Found(next)  BY DEF Searched
  <2>6. QED  BY <1>10, <2>4, <2>5
<1>13. M = Nat
  <2>1. M \subseteq Nat  OBVIOUS
  <2> HIDE DEF M
  <2>2. QED  BY <1>11, <1>12, <2>1, Induction
<1>14. left({}) \in M /\ {} \in SUBSET D /\ u \in D \ {}  BY <1>0, <1>13
<1>15. QED  BY <1>8, <1>14

\* The search for cycles finds none only where the graph can be laid out.
LEMMA CycleFound ==
    ASSUME NEW D, IsFiniteSet(D), NEW next \in [D -> SUBSET D], ~HasCycle(next)
    PROVE  Ranked(next, D)
<1> DEFINE c == [black |-> {}, cycle |-> FALSE]
           from == [u \in D |-> [s \in Found(next) |-> IF u \in s.black THEN s ELSE Dfs(next)[u][s]]]
           I == [T \in SUBSET D |-> {s \in Searched(next, {}) : ~s.cycle => T \subseteq s.black}]
<1>0. DOMAIN next = D  OBVIOUS
<1>1. c \in I[{}]
  <2>1. c \in Found(next) /\ Ranked(next, {})  BY DEF Found, Ranked
  <2>2. QED  BY <2>1 DEF Searched
<1>2. ASSUME NEW T \in SUBSET D, NEW u \in D \ T, NEW s \in I[T]
      PROVE  from[u][s] \in I[T \cup {u}]
  <2>1. s \in Searched(next, {}) /\ s \in Found(next) /\ (~s.cycle => T \subseteq s.black)
    BY DEF Searched
  <2>2. from[u][s] = IF u \in s.black THEN s ELSE Dfs(next)[u][s]  BY <2>1
  <2> HIDE DEF from
  <2>3. CASE u \in s.black  BY <2>1, <2>2, <2>3
  <2>4. CASE u \notin s.black
    <3> DEFINE r == Dfs(next)[u][s]
    <3>1. r \in After(next, {}, u, s)  BY <2>1, <2>4, DfsFinds
    <3> HIDE DEF r
    <3>2. /\ r \in Searched(next, {}) /\ s.black \subseteq r.black
          /\ ~r.cycle => ~s.cycle /\ u \in r.black
      BY <3>1 DEF After
    <3>3. from[u][s] = r  BY <2>2, <2>4 DEF r
    <3>4. QED  BY <2>1, <3>2, <3>3
  <2>5. QED  BY <2>3, <2>4
<1>3. Folded(from, c, D) \in I[D]
  <2>1. \A T \in SUBSET D : \A u \in D \ T : \A s \in I[T] : from[u][s] \in I[T \cup {u}]
    <3> HIDE DEF I, from
    <3>1. QED  BY <1>2
  <2> HIDE DEF I, from
  <2>2. QED  BY <1>1, <2>1, FoldKeeps
<1>4. HasCycle(next) = Folded(from, c, D).cycle  BY <1>0 DEF HasCycle
<1> DEFINE end == Folded(from, c, D)
<1> HIDE DEF from
<1>5. end \in Searched(next, {}) /\ (~end.cycle => D \subseteq end.black)  BY <1>3
<1>6. ~end.cycle  BY <1>4
<1> HIDE DEF end
<1>7. end.black \in SUBSET D /\ Ranked(next, end.black)  BY <1>0, <1>5, <1>6 DEF Searched, Found
<1>8. end.black = D  BY <1>5, <1>6, <1>7
<1>9. QED  BY <1>7, <1>8

\* W is what f makes of a, again and again.
Iterates(W, n, A, a, f) == W \in [0 .. n -> A] /\ W[0] = a /\ \A k \in 1 .. n : W[k] = f[W[k - 1]]

LEMMA Iterated ==
    ASSUME NEW n \in Nat, NEW A, NEW a \in A, NEW f \in [A -> A]
    PROVE  \E W : Iterates(W, n, A, a, f)
<1> DEFINE Is(m, W) == W \in [0 .. m -> A] /\ W[0] = a /\ \A k \in 1 .. m : W[k] = f[W[k - 1]]
           N == {m \in Nat : \E W : Is(m, W)}
<1>1. 0 \in N
  <2>1. Is(0, [k \in 0 .. 0 |-> a])  OBVIOUS
  <2>2. QED  BY <2>1
<1>2. ASSUME NEW m \in N PROVE m + 1 \in N
  <2>0. m \in Nat  OBVIOUS
  <2>1. PICK W : Is(m, W)  OBVIOUS
  <2> DEFINE V == [k \in 0 .. (m + 1) |-> IF k = m + 1 THEN f[W[m]] ELSE W[k]]
  <2>2. W[m] \in A  BY <2>0, <2>1
  <2>3. V \in [0 .. (m + 1) -> A] /\ V[0] = a  BY <2>0, <2>1, <2>2
  <2>4. ASSUME NEW k \in 1 .. (m + 1) PROVE V[k] = f[V[k - 1]]
    <3>1. k - 1 \in 0 .. m /\ k - 1 # m + 1  BY <2>0
    <3>2. V[k - 1] = W[k - 1]  BY <2>0, <3>1
    <3>3. CASE k = m + 1  BY <2>0, <3>2, <3>3
    <3>4. CASE k # m + 1
      <4>1. k \in 1 .. m  BY <2>0, <3>4
      <4>2. V[k] = W[k]  BY <2>0, <4>1
      <4>3. QED  BY <2>1, <3>2, <4>1, <4>2
    <3>5. QED  BY <3>3, <3>4
  <2> HIDE DEF V
  <2>5. Is(m + 1, V)  BY <2>3, <2>4
  <2> HIDE DEF Is
  <2>6. QED  BY <2>0, <2>5
<1>3. N = Nat
  <2>1. N \subseteq Nat  OBVIOUS
  <2> HIDE DEF N
  <2>2. QED  BY <1>1, <1>2, <2>1, Induction
<1>4. PICK W : Is(n, W)
  <2> HIDE DEF Is
  <2>1. QED  BY <1>3
<1>5. QED  BY <1>4 DEF Iterates

LEMMA TopIsFinite ==
    ASSUME NEW d, IsDocument(d)
    PROVE  /\ IsFiniteSet(TopIds(d)) /\ Len(d.nodes) \in Nat
           /\ Cardinality(TopIds(d)) \in Nat /\ Cardinality(TopIds(d)) <= Len(d.nodes)
<1>1. d.nodes \in Seq(ToSet(d.nodes))  BY DEF IsDocument
<1>2. Len(d.nodes) \in Nat /\ DOMAIN d.nodes = 1 .. Len(d.nodes)  BY <1>1
<1>3. IsFiniteSet(1 .. Len(d.nodes)) /\ Cardinality(1 .. Len(d.nodes)) = Len(d.nodes)
  BY <1>2, FS_Interval
<1>4. TopAt(d) \in SUBSET (1 .. Len(d.nodes))  BY <1>2 DEF TopAt
<1>5. IsFiniteSet(TopAt(d)) /\ Cardinality(TopAt(d)) <= Len(d.nodes) /\ Cardinality(TopAt(d)) \in Nat
  BY <1>3, <1>4, FS_Subset, FS_CardinalityType
<1> DEFINE f == [i \in TopAt(d) |-> d.nodes[i].id]
<1>6. f \in Surjection(TopAt(d), TopIds(d))  BY DEF Surjection, TopIds
<1>7. IsFiniteSet(TopIds(d)) /\ Cardinality(TopIds(d)) <= Cardinality(TopAt(d))
  <2> HIDE DEF f
  <2>1. QED  BY <1>5, <1>6, FS_Surjection
<1>8. Cardinality(TopIds(d)) \in Nat  BY <1>7, FS_CardinalityType
<1>9. QED  BY <1>2, <1>5, <1>7, <1>8

\* What the validator asks of a document that it accepts, and of the graph of one.
LEMMA AcceptedMeans ==
    ASSUME NEW d, Validate(d) = {}
    PROVE  CheckGraph(d) = {} /\ CheckReferences(d) = {}
BY DEF Validate, Fail

LEMMA SoundGraph ==
    ASSUME NEW d, CheckGraph(d) = {}
    PROVE  /\ Cardinality(Triggers(d)) = 1
           /\ \A e \in Added(d) : {e.from, e.to} \subseteq TopIds(d)
           /\ ~HasCycle(Forward(d))
           /\ TopIds(d) \ Reached(Forward(d), {d.nodes[i].id : i \in Triggers(d)}) = {}
<1>1. CheckGraph(d) = {}  OBVIOUS
<1>2. Cardinality(Triggers(d)) = 1  BY <1>1 DEF CheckGraph, When
<1> DEFINE unknown == {Fail("reference", "unknown node", e) :
                          e \in {f \in Added(d) : ~({f.from, f.to} \subseteq TopIds(d))}}
           trigger == {d.nodes[i].id : i \in Triggers(d)}
           missed == {Fail("reference", "not reachable", x) :
                         x \in TopIds(d) \ Reached(Forward(d), trigger)}
<1>3. \A e \in Added(d) : {e.from, e.to} \subseteq TopIds(d)
  <2>1. unknown \subseteq CheckGraph(d)  BY Zenon DEF CheckGraph
  <2>2. QED  BY <1>1, <2>1
<1>4. ~HasCycle(Forward(d))  BY <1>1, <1>2 DEF CheckGraph, When
<1>5. TopIds(d) \ Reached(Forward(d), {d.nodes[i].id : i \in Triggers(d)}) = {}
  <2>1. missed \subseteq CheckGraph(d)  BY <1>2, Zenon DEF CheckGraph
  <2>2. QED  BY <1>1, <2>1
<1>6. QED  BY <1>1, <1>2, <1>3, <1>4, <1>5

LEMMA ForwardEdges ==
    ASSUME NEW d, \A e \in Added(d) : {e.from, e.to} \subseteq TopIds(d)
    PROVE  /\ Forward(d) \in [TopIds(d) -> SUBSET TopIds(d)]
           /\ \A e \in Added(d) : e.from \in TopIds(d) /\ e.to \in Forward(d)[e.from]
BY DEF Forward

LEMMA UniqueNodes ==
    ASSUME NEW d, IsDocument(d), CheckGraph(d) = {}
    PROVE  Unique(d)
<1>1. CheckGraph(d) = {}  OBVIOUS
<1>2. ASSUME NEW i \in DOMAIN d.nodes, NEW j \in 1 .. (i - 1), d.nodes[j].id = d.nodes[i].id
      PROVE  FALSE
  <2> DEFINE dup(k) == When(\E l \in 1 .. (k - 1) : d.nodes[l].id = d.nodes[k].id,
                            Fail("reference", "duplicate node id", d.nodes[k].id))
  <2>1. dup(i) # {}  BY <1>2 DEF When
  <2>2. UNION {dup(k) : k \in DOMAIN d.nodes} # {}  BY <2>1
  <2>3. UNION {dup(k) : k \in DOMAIN d.nodes} \subseteq CheckGraph(d)  BY DEF CheckGraph
  <2>4. QED  BY <1>1, <2>2, <2>3
<1>3. DOMAIN d.nodes = 1 .. Len(d.nodes) /\ Len(d.nodes) \in Nat  BY DEF IsDocument
<1>4. \A i, j \in DOMAIN d.nodes : j < i => d.nodes[j].id # d.nodes[i].id
  BY <1>2, <1>3
<1>5. QED  BY <1>3, <1>4 DEF Unique

-----------------------------------------------------------------------------
(* The ends of ways. *)

\* A way ends in a pair, and may begin with one.
LEMMA LastStep ==
    ASSUME NEW A, NEW P \in SUBSET (A \X A), IsFiniteSet(P)
    PROVE  \A x, y : <<x, y>> \in LeadsTo(P) =>
               <<x, y>> \in P \/ \E z : <<x, z>> \in LeadsTo(P) /\ <<z, y>> \in P
<1> DEFINE L == LeadsTo(P)
           R == {w \in A \X A : w \in P \/ \E z : <<w[1], z>> \in L /\ <<z, w[2]>> \in P}
<1>1. Closed(L, P) /\ L \in SUBSET (A \X A)  BY WaysClosed
<1> HIDE DEF L
<1>2. P \subseteq R  OBVIOUS
<1>3. ASSUME NEW x, NEW y, NEW z, <<x, y>> \in R, <<y, z>> \in P
      PROVE  <<x, z>> \in R
  <2>1. x \in A /\ y \in A /\ z \in A  BY <1>3
  <2>2. <<x, y>> \in L
    <3>1. <<x, y>> \in P \/ \E u : <<x, u>> \in L /\ <<u, y>> \in P  BY <1>3
    <3>2. QED  BY <1>1, <3>1 DEF Closed
  <2>3. <<x, z>> \in A \X A /\ <<x, z>>[1] = x /\ <<x, z>>[2] = z  BY <2>1
  <2>4. QED  BY <1>3, <2>2, <2>3
<1>4. Closed(R, P)
  <2> HIDE DEF R
  <2>1. QED  BY <1>2, <1>3 DEF Closed
<1>5. L \subseteq R
  <2> HIDE DEF R
  <2>1. QED  BY <1>4, WaysLeast DEF L
<1>6. ASSUME NEW x, NEW y, <<x, y>> \in L
      PROVE  <<x, y>> \in P \/ \E z : <<x, z>> \in L /\ <<z, y>> \in P
  BY <1>5, <1>6
<1>7. QED  BY <1>6 DEF L

LEMMA FirstStep ==
    ASSUME NEW A, NEW P \in SUBSET (A \X A), IsFiniteSet(P)
    PROVE  \A x, y, z : <<x, y>> \in P /\ <<y, z>> \in LeadsTo(P) => <<x, z>> \in LeadsTo(P)
<1> DEFINE L == LeadsTo(P)
           R == {w \in A \X A : \A u : <<u, w[1]>> \in P => <<u, w[2]>> \in L}
<1>1. Closed(L, P) /\ L \in SUBSET (A \X A)  BY WaysClosed
<1> HIDE DEF L
<1>2. P \subseteq R
  <2> SUFFICES ASSUME NEW w \in P, NEW u, <<u, w[1]>> \in P PROVE <<u, w[2]>> \in L
    OBVIOUS
  <2>1. w = <<w[1], w[2]>>  OBVIOUS
  <2>2. QED  BY <1>1, <2>1 DEF Closed
<1>3. ASSUME NEW x, NEW y, NEW z, <<x, y>> \in R, <<y, z>> \in P
      PROVE  <<x, z>> \in R
  <2>1. x \in A /\ y \in A /\ z \in A  BY <1>3
  <2>2. \A u : <<u, x>> \in P => <<u, y>> \in L  BY <1>3
  <2>3. \A u : <<u, x>> \in P => <<u, z>> \in L  BY <1>1, <1>3, <2>2 DEF Closed
  <2>4. QED  BY <2>1, <2>3
<1>4. Closed(R, P)
  <2> HIDE DEF R
  <2>1. QED  BY <1>2, <1>3 DEF Closed
<1>5. L \subseteq R
  <2> HIDE DEF R
  <2>1. QED  BY <1>4, WaysLeast DEF L
<1>6. ASSUME NEW x, NEW y, NEW z, <<x, y>> \in P, <<y, z>> \in L
      PROVE  <<x, z>> \in L
  <2>1. <<y, z>> \in R  BY <1>5, <1>6
  <2>2. QED  BY <1>6, <2>1
<1>7. QED  BY <1>6 DEF L

-----------------------------------------------------------------------------
(* The search for ancestors. *)

\* anc are the ancestors by parents, and no node is an ancestor of its own.
Descent(D, parents, anc) ==
    /\ IsFiniteSet(D)
    /\ parents \in [D -> SUBSET D] /\ anc \in [D -> SUBSET D]
    /\ \A n \in D : anc[n] = parents[n] \cup UNION {anc[p] : p \in parents[n]}
    /\ \A n, x \in D : n \in anc[x] => parents[n] \subseteq anc[x]
    /\ \A n \in D : n \notin anc[n]
    /\ \A S \in SUBSET D : S # {} => \E n \in S : parents[n] \cap S = {}

\* A memo that holds the ancestors of the nodes that were visited, what a visit adds to it,
\* and what it returns.
Right(parents, anc) ==
    {memo \in Memos(parents) : \A x \in DOMAIN parents : memo[x] \in {None, anc[x]}}
Keeping(parents, anc, memo) ==
    {m \in Right(parents, anc) : \A x \in DOMAIN parents : memo[x] = anc[x] => m[x] = anc[x]}
Telling(parents, anc, n, memo) ==
    {[found |-> anc[n], memo |-> m] : m \in {k \in Keeping(parents, anc, memo) : k[n] = anc[n]}}

LEMMA VisitedTells ==
    ASSUME NEW D, NEW parents, NEW anc, Descent(D, parents, anc),
           NEW deeper, NEW n \in D, NEW memo \in Right(parents, anc),
           \A p \in parents[n] : \A m \in Right(parents, anc) : deeper[p][m] \in Telling(parents, anc, p, m)
    PROVE  Visited(parents, deeper, n, memo) \in Telling(parents, anc, n, memo)
<1> DEFINE Sofar == [found : SUBSET D, memo : Memos(parents)]
           add == [p \in D |->
                      [a \in Sofar |-> [found |-> a.found \cup {p} \cup deeper[p][a.memo].found,
                                        memo |-> deeper[p][a.memo].memo]]]
           c == [found |-> {}, memo |-> memo]
           I == [T \in SUBSET D |->
                    {[found |-> T \cup UNION {anc[p] : p \in T}, memo |-> m]
                        : m \in Keeping(parents, anc, memo)}]
           end == Folded(add, c, parents[n])
<1>0. /\ DOMAIN parents = D /\ parents[n] \in SUBSET D /\ IsFiniteSet(parents[n])
      /\ anc \in [D -> SUBSET D]
  BY FS_Subset DEF Descent
<1>1. memo \in Keeping(parents, anc, memo)  BY DEF Keeping
<1>2. c \in I[{}]
  <2>1. {} \cup UNION {anc[p] : p \in {}} = {}  OBVIOUS
  <2>2. QED  BY <1>1, <2>1
<1>3. ASSUME NEW T \in SUBSET parents[n], NEW p \in parents[n] \ T, NEW s \in I[T]
      PROVE  add[p][s] \in I[T \cup {p}]
  <2>0. T \in SUBSET D /\ p \in D /\ T \cup {p} \in SUBSET D  BY <1>0
  <2>1. PICK m \in Keeping(parents, anc, memo) :
            s = [found |-> T \cup UNION {anc[q] : q \in T}, memo |-> m]
    BY <2>0
  <2>2. m \in Right(parents, anc) /\ m \in Memos(parents)  BY DEF Keeping, Right
  <2>3. s.found = T \cup UNION {anc[q] : q \in T} /\ s.memo = m  BY <2>1
  <2>4. \A q \in T : anc[q] \in SUBSET D  BY <1>0, <2>0
  <2>5. s.found \in SUBSET D  BY <2>0, <2>3, <2>4
  <2>6. s \in Sofar  BY <2>1, <2>2, <2>3, <2>5
  <2>7. PICK k \in Keeping(parents, anc, m) :
            deeper[p][m] = [found |-> anc[p], memo |-> k]
    BY <2>2 DEF Telling
  <2>8. add[p][s] = [found |-> s.found \cup {p} \cup anc[p], memo |-> k]
    <3>1. add[p][s] = [found |-> s.found \cup {p} \cup deeper[p][s.memo].found,
                       memo |-> deeper[p][s.memo].memo]
      BY <2>0, <2>6
    <3> HIDE DEF add
    <3>2. deeper[p][m].found = anc[p] /\ deeper[p][m].memo = k  BY <2>7
    <3>3. deeper[p][s.memo] = deeper[p][m]  BY <2>3
    <3>4. QED  BY <3>1, <3>2, <3>3, Zenon
  <2>9. s.found \cup {p} \cup anc[p] = (T \cup {p}) \cup UNION {anc[q] : q \in T \cup {p}}
    BY <2>3
  <2>10. k \in Keeping(parents, anc, memo)  BY <2>7 DEF Keeping
  <2> HIDE DEF add
  <2>11. QED  BY <2>0, <2>8, <2>9, <2>10
<1>4. end \in I[parents[n]]
  <2>1. \A T \in SUBSET parents[n] : \A p \in parents[n] \ T : \A s \in I[T] : add[p][s] \in I[T \cup {p}]
    <3> HIDE DEF I, add
    <3>1. QED  BY <1>3
  <2> HIDE DEF I, add, c
  <2>2. QED  BY <1>0, <1>2, <2>1, FoldKeeps
<1>5. PICK m \in Keeping(parents, anc, memo) : end = [found |-> anc[n], memo |-> m]
  <2>1. parents[n] \cup UNION {anc[p] : p \in parents[n]} = anc[n]  BY DEF Descent
  <2> HIDE DEF end
  <2>2. QED  BY <1>0, <1>4, <2>1
<1>6. Visited(parents, deeper, n, memo) = [end EXCEPT !.memo[n] = end.found]
  BY <1>0 DEF Visited
<1> HIDE DEF end
<1>7. Visited(parents, deeper, n, memo) = [found |-> anc[n], memo |-> [m EXCEPT ![n] = anc[n]]]
  BY <1>5, <1>6
<1>8. m \in Memos(parents) /\ m \in Right(parents, anc)  BY DEF Keeping, Right
<1> DEFINE k == [m EXCEPT ![n] = anc[n]]
<1>9. DOMAIN m = D /\ anc[n] \in SUBSET D  BY <1>0, <1>8 DEF Memos
<1>10. k \in Memos(parents)  BY <1>0, <1>8, <1>9 DEF Memos
<1>11. k[n] = anc[n] /\ \A x \in D : x # n => k[x] = m[x]  BY <1>9
<1> HIDE DEF k
<1>12. k \in Keeping(parents, anc, memo)
  <2>1. \A x \in D : m[x] \in {None, anc[x]}  BY <1>0, <1>8 DEF Right
  <2>2. k \in Right(parents, anc)  BY <1>0, <1>10, <1>11, <2>1 DEF Right
  <2>3. QED  BY <1>0, <1>11, <2>2 DEF Keeping
<1>13. QED  BY <1>7, <1>11, <1>12 DEF Telling, k

\* The search: a node that is on its path is cut, one that has a memo is not searched.
IsVisit(F, parents) ==
    /\ Visit(parents) = F[{}]
    /\ \A path \in SUBSET DOMAIN parents : \A n \in DOMAIN parents : \A memo \in Memos(parents) :
           F[path][n][memo] = IF memo[n] # None THEN [found |-> memo[n], memo |-> memo]
                              ELSE IF n \in path THEN [found |-> {}, memo |-> memo]
                              ELSE Visited(parents, F[path \cup {n}], n, memo)

LEMMA VisitUnfolds ==
    ASSUME NEW D, IsFiniteSet(D), NEW parents \in [D -> SUBSET D]
    PROVE  \E F : IsVisit(F, parents)
<1> DEFINE Step(path, F) ==
               [n \in D |->
                   [memo \in Memos(parents) |->
                       IF memo[n] # None THEN [found |-> memo[n], memo |-> memo]
                       ELSE IF n \in path THEN [found |-> {}, memo |-> memo]
                       ELSE Visited(parents, F[path \cup {n}], n, memo)]]
           left(path) == Cardinality(D \ path)
           Parts(k) == {path \in SUBSET D : left(path) <= k}
           Is(k, F) == F = [path \in Parts(k) |-> Step(path, F)]
           N == {k \in Nat : \E F : Is(k, F)}
           top == Cardinality(D)
<1>0. \A path \in SUBSET D :
          /\ left(path) \in Nat /\ left(path) <= top
          /\ left(path) = 0 => D \ path = {}
  <2> SUFFICES ASSUME NEW path \in SUBSET D
               PROVE  left(path) \in Nat /\ left(path) <= top /\ (left(path) = 0 => D \ path = {})
    OBVIOUS
  <2>1. D \ path \in SUBSET D  OBVIOUS
  <2>2. IsFiniteSet(D \ path) /\ left(path) \in Nat /\ left(path) <= top
    BY <2>1, FS_Subset, FS_CardinalityType
  <2>3. left(path) = 0 => D \ path = {}  BY <2>2, FS_EmptySet
  <2>4. QED  BY <2>2, <2>3
<1>1. top \in Nat /\ DOMAIN parents = D  BY FS_CardinalityType
<1>2. \A path \in SUBSET D : \A n \in D \ path :
          path \cup {n} \in SUBSET D /\ left(path \cup {n}) = left(path) - 1
  <2> SUFFICES ASSUME NEW path \in SUBSET D, NEW n \in D \ path
               PROVE  left(path \cup {n}) = left(path) - 1
    OBVIOUS
  <2>1. D \ (path \cup {n}) = (D \ path) \ {n} /\ n \in D \ path  OBVIOUS
  <2>2. IsFiniteSet(D \ path)  BY FS_Difference
  <2>3. Cardinality((D \ path) \ {n}) = Cardinality(D \ path) - 1
    BY <2>1, <2>2, FS_RemoveElement
  <2>4. QED  BY <2>1, <2>3
<1>3. ASSUME NEW path \in SUBSET D, NEW F, NEW G, \A n \in D \ path : F[path \cup {n}] = G[path \cup {n}]
      PROVE  Step(path, F) = Step(path, G)
  <2>1. ASSUME NEW n \in D, NEW memo \in Memos(parents), n \notin path
        PROVE  Visited(parents, F[path \cup {n}], n, memo) = Visited(parents, G[path \cup {n}], n, memo)
    BY <1>3, <2>1
  <2>2. QED  BY <2>1
<1> HIDE DEF left, Step
<1>4. 0 \in N
  <2> DEFINE F == [path \in Parts(0) |-> Step(path, <<>>)]
  <2>1. ASSUME NEW path \in Parts(0) PROVE Step(path, F) = Step(path, <<>>)
    <3>1. left(path) = 0  BY <1>0
    <3>2. D \ path = {} /\ path \in SUBSET D  BY <1>0, <3>1
    <3> HIDE DEF F
    <3>3. QED  BY <1>3, <3>2
  <2>2. Is(0, F)  BY <2>1
  <2>3. QED  BY <2>2
<1>5. ASSUME NEW m \in N PROVE m + 1 \in N
  <2>1. PICK F : Is(m, F)  OBVIOUS
  <2> DEFINE V == [path \in Parts(m + 1) |-> Step(path, F)]
  <2>2. \A path \in Parts(m) : V[path] = F[path]
    <3>1. Parts(m) \subseteq Parts(m + 1)  BY <1>0
    <3> HIDE DEF Parts
    <3>2. QED  BY <2>1, <3>1
  <2>3. ASSUME NEW path \in Parts(m + 1) PROVE Step(path, V) = Step(path, F)
    <3>1. \A n \in D \ path : path \cup {n} \in Parts(m)
      BY <1>0, <1>2
    <3>2. path \in SUBSET D  OBVIOUS
    <3> HIDE DEF V, Parts
    <3>3. \A n \in D \ path : V[path \cup {n}] = F[path \cup {n}]  BY <2>2, <3>1
    <3>4. QED  BY <1>3, <3>2, <3>3
  <2> HIDE DEF Parts
  <2>4. \A path \in Parts(m + 1) : V[path] = Step(path, V)  BY <2>3
  <2>5. V = [path \in Parts(m + 1) |-> V[path]]  OBVIOUS
  <2> HIDE DEF V
  <2>6. Is(m + 1, V)  BY <2>4, <2>5
  <2>7. QED  BY <2>6
<1>6. N = Nat
  <2>1. N \subseteq Nat  OBVIOUS
  <2> HIDE DEF N
  <2>2. QED  BY <1>4, <1>5, <2>1, Induction
<1>7. \E F : Is(top, F)
  <2> HIDE DEF Is
  <2>1. QED  BY <1>1, <1>6
<1>8. Parts(top) = SUBSET D  BY <1>0
<1> DEFINE visit == CHOOSE F : F = [path \in SUBSET D |-> Step(path, F)]
<1>9. Visit(parents) = visit[{}]  BY <1>1 DEF Visit, Step
<1>10. visit = [path \in SUBSET D |-> Step(path, visit)]
  <2> HIDE DEF Parts
  <2>1. \E F : F = [path \in SUBSET D |-> Step(path, F)]  BY <1>7, <1>8
  <2>2. QED  BY <2>1, Zenon
<1> HIDE DEF visit
<1>11. ASSUME NEW path \in SUBSET D, NEW n \in D, NEW memo \in Memos(parents)
       PROVE  visit[path][n][memo] = IF memo[n] # None THEN [found |-> memo[n], memo |-> memo]
                                     ELSE IF n \in path THEN [found |-> {}, memo |-> memo]
                                     ELSE Visited(parents, visit[path \cup {n}], n, memo)
  <2>1. visit[path] = Step(path, visit)  BY <1>10
  <2>2. QED  BY <2>1 DEF Step
<1>12. IsVisit(visit, parents)  BY <1>1, <1>9, <1>11 DEF IsVisit
<1>13. QED  BY <1>12

\* Where nothing is its own ancestor the search finds all of them, and never cuts.
LEMMA VisitTells ==
    ASSUME NEW D, NEW parents, NEW anc, Descent(D, parents, anc),
           NEW n \in D, NEW memo \in Right(parents, anc)
    PROVE  Visit(parents)[n][memo] \in Telling(parents, anc, n, memo)
<1>0. /\ DOMAIN parents = D /\ IsFiniteSet(D) /\ parents \in [D -> SUBSET D]
      /\ anc \in [D -> SUBSET D]
  BY DEF Descent
<1>1. PICK F : IsVisit(F, parents)  BY <1>0, VisitUnfolds
<1> DEFINE Tells(x) == \A path \in SUBSET D : \A m \in Right(parents, anc) :
                           (\A y \in path : x \in anc[y]) => F[path][x][m] \in Telling(parents, anc, x, m)
           rest == {x \in D : ~Tells(x)}
<1>2. ASSUME rest # {} PROVE FALSE
  <2>1. PICK x \in rest : parents[x] \cap rest = {}
    <3>1. rest \in SUBSET D  OBVIOUS
    <3> HIDE DEF rest
    <3>2. QED  BY <1>2, <3>1 DEF Descent
  <2>2. x \in D /\ parents[x] \subseteq D /\ \A p \in parents[x] : Tells(p)
    <3>1. x \in D /\ parents[x] \subseteq D  BY <1>0
    <3>2. QED  BY <2>1, <3>1
  <2>3. ASSUME NEW path \in SUBSET D, NEW m \in Right(parents, anc), \A y \in path : x \in anc[y]
        PROVE  F[path][x][m] \in Telling(parents, anc, x, m)
    <3>1. m \in Memos(parents) /\ m[x] \in {None, anc[x]}  BY <1>0, <2>2 DEF Right
    <3>2. m \in Keeping(parents, anc, m)  BY DEF Keeping
    <3>3. F[path][x][m] = IF m[x] # None THEN [found |-> m[x], memo |-> m]
                          ELSE IF x \in path THEN [found |-> {}, memo |-> m]
                          ELSE Visited(parents, F[path \cup {x}], x, m)
      <4>1. \A p \in SUBSET D : \A y \in D : \A k \in Memos(parents) :
                F[p][y][k] = IF k[y] # None THEN [found |-> k[y], memo |-> k]
                             ELSE IF y \in p THEN [found |-> {}, memo |-> k]
                             ELSE Visited(parents, F[p \cup {y}], y, k)
        BY <1>0, <1>1, Zenon DEF IsVisit
      <4>2. QED  BY <2>2, <3>1, <4>1, Zenon
    <3>4. CASE m[x] # None
      <4>1. m[x] = anc[x]  BY <3>1, <3>4
      <4>2. F[path][x][m] = [found |-> anc[x], memo |-> m]  BY <3>3, <3>4, <4>1
      <4>3. QED  BY <3>2, <4>1, <4>2 DEF Telling
    <3>5. CASE m[x] = None
      <4>1. x \notin path  BY <2>2, <2>3 DEF Descent
      <4>2. F[path][x][m] = Visited(parents, F[path \cup {x}], x, m)  BY <3>3, <3>5, <4>1
      <4>3. ASSUME NEW p \in parents[x], NEW k \in Right(parents, anc)
            PROVE  F[path \cup {x}][p][k] \in Telling(parents, anc, p, k)
        <5>1. p \in anc[x]  BY <2>2 DEF Descent
        <5>2. ASSUME NEW y \in path PROVE p \in anc[y]
          <6>1. y \in D /\ x \in anc[y]  BY <2>3
          <6>2. parents[x] \subseteq anc[y]  BY <2>2, <6>1 DEF Descent
          <6>3. QED  BY <6>2
        <5>3. path \cup {x} \in SUBSET D /\ \A y \in path \cup {x} : p \in anc[y]
          BY <2>2, <5>1, <5>2
        <5>4. Tells(p)  BY <2>2
        <5>5. QED  BY <5>3, <5>4
      <4> DEFINE deeper == F[path \cup {x}]
      <4> HIDE DEF deeper
      <4>4. \A p \in parents[x] : \A k \in Right(parents, anc) : deeper[p][k] \in Telling(parents, anc, p, k)
        BY <4>3 DEF deeper
      <4>5. Visited(parents, deeper, x, m) \in Telling(parents, anc, x, m)
        BY <2>2, <4>4, VisitedTells
      <4>6. QED  BY <4>2, <4>5 DEF deeper
    <3>6. QED  BY <3>4, <3>5
  <2>4. Tells(x)  BY <2>3
  <2>5. QED  BY <2>1, <2>4
<1>3. Tells(n)  BY <1>2
<1>4. F[{}][n][memo] \in Telling(parents, anc, n, memo)  BY <1>3
<1>5. QED  BY <1>1, <1>4 DEF IsVisit

LEMMA AncestorsAre ==
    ASSUME NEW D, NEW d, NEW anc, Descent(D, DataParents(d), anc)
    PROVE  \A n \in D : Ancestors(d)[n] = anc[n]
<1> DEFINE parents == DataParents(d)
           from == [n \in D |-> [memo \in Memos(parents) |-> Visit(parents)[n][memo].memo]]
           c == [x \in D |-> None]
           I == [T \in SUBSET D |-> {m \in Right(parents, anc) : \A x \in T : m[x] = anc[x]}]
<1>0. DOMAIN parents = D /\ IsFiniteSet(D)  BY DEF Descent
<1>1. Ancestors(d) = Folded(from, c, D)  BY <1>0 DEF Ancestors
<1>2. c \in I[{}]
  <2>1. c \in Memos(parents)  BY <1>0 DEF Memos
  <2>2. c \in Right(parents, anc)  BY <1>0, <2>1 DEF Right
  <2>3. QED  BY <2>2
<1>3. ASSUME NEW T \in SUBSET D, NEW n \in D \ T, NEW s \in I[T]
      PROVE  from[n][s] \in I[T \cup {n}]
  <2>1. s \in Right(parents, anc) /\ s \in Memos(parents) /\ \A x \in T : s[x] = anc[x]
    BY DEF Right
  <2>2. Visit(parents)[n][s] \in Telling(parents, anc, n, s)  BY <2>1, VisitTells
  <2>3. PICK m \in Keeping(parents, anc, s) :
            m[n] = anc[n] /\ Visit(parents)[n][s] = [found |-> anc[n], memo |-> m]
    BY <2>2 DEF Telling
  <2>4. from[n][s] = m
    <3>1. from[n][s] = Visit(parents)[n][s].memo  BY <2>1
    <3> HIDE DEF from
    <3>2. QED  BY <2>3, <3>1
  <2>5. m \in Right(parents, anc) /\ \A x \in T : m[x] = anc[x]  BY <1>0, <2>1 DEF Keeping
  <2> HIDE DEF from
  <2>6. QED  BY <2>3, <2>4, <2>5
<1>4. Folded(from, c, D) \in I[D]
  <2>1. \A T \in SUBSET D : \A n \in D \ T : \A s \in I[T] : from[n][s] \in I[T \cup {n}]
    <3> HIDE DEF I, from
    <3>1. QED  BY <1>3
  <2> HIDE DEF I, from, c
  <2>2. QED  BY <1>0, <1>2, <2>1, FoldKeeps
<1>5. QED  BY <1>1, <1>4

-----------------------------------------------------------------------------
(* The graph of a document. *)

\* The nodes that are reached are in every set that holds the first and goes on.
LEMMA ReachedIsLeast ==
    ASSUME NEW next, IsFiniteSet(DOMAIN next), NEW R, NEW S \in SUBSET R,
           \A x \in R \cap DOMAIN next : next[x] \subseteq R
    PROVE  Reached(next, S) \subseteq R
<1> DEFINE n == Cardinality(DOMAIN next)
           Onward(B) == B \cup UNION {next[x] : x \in B \cap DOMAIN next}
           A == SUBSET R
           f == [B \in A |-> Onward(B)]
           Is(W) == W = [k \in 0 .. n |-> IF k = 0 THEN S ELSE Onward(W[k - 1])]
<1>1. n \in Nat  BY FS_CardinalityType
<1>2. \A B \in A : Onward(B) \in A  OBVIOUS
<1>3. S \in A /\ f \in [A -> A]
  <2> HIDE DEF Onward
  <2>1. QED  BY <1>2
<1>4. PICK W : Iterates(W, n, A, S, f)
  <2> HIDE DEF f, A, n
  <2>1. QED  BY <1>1, <1>3, Iterated
<1>5. W \in [0 .. n -> A] /\ W[0] = S /\ \A k \in 1 .. n : W[k] = f[W[k - 1]]
  BY <1>4 DEF Iterates
<1> HIDE DEF n
<1>6. Is(W)
  <2> HIDE DEF Onward
  <2>1. \A k \in 1 .. n : k - 1 \in 0 .. n  BY <1>1
  <2>2. \A k \in 1 .. n : W[k - 1] \in A  BY <1>5, <2>1
  <2>3. \A k \in 1 .. n : W[k] = Onward(W[k - 1])  BY <1>5, <2>2
  <2> HIDE DEF A
  <2>4. \A k \in 0 .. n : W[k] = IF k = 0 THEN S ELSE Onward(W[k - 1])
    BY <1>1, <1>5, <2>3
  <2>5. W = [k \in 0 .. n |-> W[k]]  BY <1>5
  <2>6. QED  BY <2>4, <2>5
<1> DEFINE within == CHOOSE V : Is(V)
<1>7. Is(within)
  <2> HIDE DEF Is
  <2>1. QED  BY <1>6
<1>8. Reached(next, S) = within[n]  BY DEF Reached, n
<1> HIDE DEF within
<1> DEFINE N == {k \in Nat : k <= n => within[k] \in A}
<1>9. 0 \in N
  <2>1. within[0] = S  BY <1>1, <1>7
  <2>2. QED  BY <2>1
<1>10. ASSUME NEW k \in N PROVE k + 1 \in N
  <2> SUFFICES ASSUME k + 1 <= n PROVE within[k + 1] \in A
    OBVIOUS
  <2>1. k + 1 \in 0 .. n /\ k + 1 # 0 /\ (k + 1) - 1 = k /\ k <= n  BY <1>1
  <2>2. within[k + 1] = Onward(within[k])  BY <1>7, <2>1
  <2>3. within[k] \in A  BY <2>1
  <2> HIDE DEF Onward, A, N
  <2>4. QED  BY <1>2, <2>2, <2>3
<1>11. N = Nat
  <2>1. N \subseteq Nat  OBVIOUS
  <2> HIDE DEF N
  <2>2. QED  BY <1>9, <1>10, <2>1, Induction
<1>12. within[n] \in A  BY <1>1, <1>11
<1>13. QED  BY <1>8, <1>12

\* Where no node leads back there is no way back.
LEMMA NoWayBack ==
    ASSUME NEW A, NEW P \in SUBSET (A \X A), IsFiniteSet(P),
           NEW next, Ranked(next, A), \A x, y : <<x, y>> \in P => y \in next[x]
    PROVE  \A x : <<x, x>> \notin LeadsTo(P)
<1> DEFINE L == LeadsTo(P)
<1>1. Closed(L, P) /\ L \in SUBSET (A \X A)  BY WaysClosed
<1>2. \A x, y : <<x, y>> \in L => <<x, y>> \in P \/ \E z : <<x, z>> \in L /\ <<z, y>> \in P
  BY LastStep
<1>3. \A x, y, z : <<x, y>> \in P /\ <<y, z>> \in L => <<x, z>> \in L
  BY FirstStep
<1> HIDE DEF L
<1>4. ASSUME NEW x, <<x, x>> \in L PROVE FALSE
  <2> DEFINE S == {y \in A : <<x, y>> \in L /\ <<y, x>> \in L}
  <2>1. x \in S  BY <1>1, <1>4
  <2>2. S \in SUBSET A /\ S # {}  BY <2>1
  <2>3. PICK y \in S : \A z \in S : y \notin next[z]
    <3> HIDE DEF S
    <3>1. QED  BY <2>2 DEF Ranked
  <2>4. <<x, y>> \notin P  BY <2>1, <2>3
  <2>5. PICK z : <<x, z>> \in L /\ <<z, y>> \in P  BY <1>2, <2>3, <2>4
  <2>6. <<z, x>> \in L  BY <1>3, <2>3, <2>5
  <2>7. z \in S  BY <1>1, <2>5, <2>6
  <2>8. QED  BY <2>3, <2>5, <2>7
<1>5. QED  BY <1>4 DEF L

\* The pairs of some of its edges, and which node leads to which over them.
PairsOf(edges) == {<<e.from, e.to>> : e \in edges}

LEMMA SoundPairs ==
    ASSUME NEW d, IsDocument(d), CheckGraph(d) = {}, NEW edges \in SUBSET Added(d)
    PROVE  /\ PairsOf(edges) \in SUBSET (TopIds(d) \X TopIds(d)) /\ IsFiniteSet(PairsOf(edges))
           /\ \A x, y : <<x, y>> \in PairsOf(edges) => y \in Forward(d)[x]
           /\ Ways(edges) = LeadsTo(PairsOf(edges))
           /\ \A x : <<x, x>> \notin Ways(edges)
<1>1. (\A e \in Added(d) : {e.from, e.to} \subseteq TopIds(d)) /\ ~HasCycle(Forward(d))
  BY SoundGraph
<1>2. /\ Forward(d) \in [TopIds(d) -> SUBSET TopIds(d)]
      /\ \A e \in Added(d) : e.from \in TopIds(d) /\ e.to \in Forward(d)[e.from]
  BY <1>1, ForwardEdges
<1>3. IsFiniteSet(TopIds(d))  BY TopIsFinite
<1>4. Ranked(Forward(d), TopIds(d))  BY <1>1, <1>2, <1>3, CycleFound
<1>5. PairsOf(edges) \in SUBSET (TopIds(d) \X TopIds(d))  BY <1>1 DEF PairsOf
<1>6. IsFiniteSet(PairsOf(edges))
  <2>1. IsFiniteSet(TopIds(d) \X TopIds(d))  BY <1>3, FS_Product
  <2>2. QED  BY <1>5, <2>1, FS_Subset
<1>7. ASSUME NEW x, NEW y, <<x, y>> \in PairsOf(edges) PROVE y \in Forward(d)[x]
  <2>1. PICK e \in edges : <<x, y>> = <<e.from, e.to>>  BY <1>7 DEF PairsOf
  <2>2. x = e.from /\ y = e.to  BY <2>1
  <2>3. QED  BY <1>2, <2>2
<1>8. Ways(edges) = LeadsTo(PairsOf(edges))  BY DEF Ways, PairsOf
<1>9. \A x : <<x, x>> \notin LeadsTo(PairsOf(edges))  BY <1>4, <1>5, <1>6, <1>7, NoWayBack
<1>10. QED  BY <1>5, <1>6, <1>7, <1>8, <1>9

\* The trigger leads to every other top-level node.
LEMMA TriggerLeads ==
    ASSUME NEW d, IsDocument(d), CheckGraph(d) = {}
    PROVE  \E t \in Triggers(d) :
               /\ Triggers(d) = {t}
               /\ \A x \in TopIds(d) \ {d.nodes[t].id} : <<d.nodes[t].id, x>> \in Ways(Added(d))
<1>1. /\ Cardinality(Triggers(d)) = 1
      /\ TopIds(d) \ Reached(Forward(d), {d.nodes[i].id : i \in Triggers(d)}) = {}
      /\ \A e \in Added(d) : {e.from, e.to} \subseteq TopIds(d)
  BY SoundGraph
<1>2. PICK t : Triggers(d) = {t}
  <2>1. IsFiniteSet(Triggers(d))
    <3>1. DOMAIN d.nodes = 1 .. Len(d.nodes) /\ Len(d.nodes) \in Nat  BY DEF IsDocument
    <3>2. Triggers(d) \in SUBSET (1 .. Len(d.nodes))  BY <3>1 DEF Triggers
    <3>3. 1 \in Int /\ Len(d.nodes) \in Int  BY <3>1
    <3>4. IsFiniteSet(1 .. Len(d.nodes))  BY <3>3, FS_Interval, Zenon
    <3>5. QED  BY <3>2, <3>4, FS_Subset
  <2>2. QED  BY <1>1, <2>1, FS_Singleton
<1> DEFINE first == d.nodes[t].id
           P == PairsOf(Added(d))
           L == LeadsTo(P)
           R == {first} \cup {x \in TopIds(d) : <<first, x>> \in L}
           next == Forward(d)
<1>3. {d.nodes[i].id : i \in Triggers(d)} = {first}  BY <1>2
<1>4. /\ P \in SUBSET (TopIds(d) \X TopIds(d)) /\ IsFiniteSet(P)
      /\ \A x, y : <<x, y>> \in P => y \in next[x]
      /\ Ways(Added(d)) = L
  BY SoundPairs
<1>5. Closed(L, P)  BY <1>4, WaysClosed
<1>6. next \in [TopIds(d) -> SUBSET TopIds(d)] /\ IsFiniteSet(TopIds(d))
  BY <1>1, ForwardEdges, TopIsFinite
<1>7. ASSUME NEW x \in TopIds(d), NEW y \in next[x] PROVE <<x, y>> \in P
  <2>1. PICK e \in Added(d) : e.from = x /\ e.to = y  BY DEF Forward
  <2>2. QED  BY <2>1 DEF PairsOf
<1> HIDE DEF L, P, next
<1>8. ASSUME NEW x \in R \cap DOMAIN next, NEW y \in next[x] PROVE y \in R
  <2>1. x \in TopIds(d) /\ y \in TopIds(d) /\ <<x, y>> \in P  BY <1>6, <1>7
  <2>2. <<first, y>> \in L  BY <1>5, <2>1 DEF Closed
  <2>3. QED  BY <2>1, <2>2
<1>9. Reached(next, {first}) \subseteq R
  <2>1. {first} \in SUBSET R /\ IsFiniteSet(DOMAIN next)  BY <1>6
  <2> HIDE DEF R
  <2>2. QED  BY <1>8, <2>1, ReachedIsLeast
<1>10. \A x \in TopIds(d) \ {first} : <<first, x>> \in L
  BY <1>1, <1>3, <1>9 DEF next
<1>11. QED  BY <1>2, <1>4, <1>10

\* The ancestors by data, as ways: the memo of the validator holds them.
Flows(d) == Ways({e \in Added(d) : e.data})

LEMMA DataDescent ==
    ASSUME NEW d, IsDocument(d), CheckGraph(d) = {}
    PROVE  Descent(TopIds(d), DataParents(d), [x \in TopIds(d) |-> {y \in TopIds(d) : <<y, x>> \in Flows(d)}])
<1> DEFINE D == TopIds(d)
           edges == {e \in Added(d) : e.data}
           P == PairsOf(edges)
           L == LeadsTo(P)
           parents == DataParents(d)
           anc == [x \in D |-> {y \in D : <<y, x>> \in L}]
<1>1. /\ P \in SUBSET (D \X D) /\ IsFiniteSet(P)
      /\ \A x, y : <<x, y>> \in P => y \in Forward(d)[x]
      /\ Ways(edges) = L /\ \A x : <<x, x>> \notin L
  <2>1. edges \in SUBSET Added(d)  OBVIOUS
  <2> HIDE DEF edges
  <2>2. QED  BY <2>1, SoundPairs
<1>2. Closed(L, P) /\ L \in SUBSET (D \X D)  BY <1>1, WaysClosed
<1>3. \A x, y : <<x, y>> \in L => <<x, y>> \in P \/ \E z : <<x, z>> \in L /\ <<z, y>> \in P
  BY <1>1, LastStep
<1>4. \A x, y, z : <<x, y>> \in P /\ <<y, z>> \in L => <<x, z>> \in L
  BY <1>1, FirstStep
<1>5. IsFiniteSet(D)  BY TopIsFinite
<1>6. /\ Forward(d) \in [D -> SUBSET D] /\ ~HasCycle(Forward(d))
      /\ \A e \in Added(d) : {e.from, e.to} \subseteq D
  BY SoundGraph, ForwardEdges
<1>7. Ranked(Forward(d), D)  BY <1>5, <1>6, CycleFound
<1>8. parents \in [D -> SUBSET D] /\ \A x \in D : parents[x] = {y \in D : <<y, x>> \in P}
  <2>1. parents = [x \in D |-> {e.from : e \in {f \in Added(d) : f.to = x /\ f.data}} \cap D]
    BY DEF DataParents
  <2>2. ASSUME NEW x \in D, NEW y \in D
        PROVE  <<y, x>> \in P <=> \E e \in Added(d) : e.data /\ e.to = x /\ e.from = y
    BY DEF PairsOf
  <2> HIDE DEF P, parents
  <2>3. QED  BY <2>1, <2>2
<1>9. Flows(d) = L  BY <1>1 DEF Flows
<1> HIDE DEF P, L, parents
<1>10. anc \in [D -> SUBSET D] /\ \A x \in D : anc[x] = {y \in D : <<y, x>> \in L}  OBVIOUS
<1> HIDE DEF anc
<1>11. ASSUME NEW n \in D PROVE anc[n] = parents[n] \cup UNION {anc[p] : p \in parents[n]}
  <2>1. ASSUME NEW y \in anc[n], y \notin parents[n] PROVE \E p \in parents[n] : y \in anc[p]
    <3>1. y \in D /\ <<y, n>> \in L /\ <<y, n>> \notin P  BY <1>8, <1>10, <2>1
    <3>2. PICK z : <<y, z>> \in L /\ <<z, n>> \in P  BY <1>3, <3>1
    <3>3. z \in D  BY <1>2, <3>2
    <3>4. QED  BY <1>8, <1>10, <3>1, <3>2, <3>3
  <2>2. parents[n] \subseteq anc[n]  BY <1>2, <1>8, <1>10 DEF Closed
  <2>3. ASSUME NEW p \in parents[n], NEW y \in anc[p] PROVE y \in anc[n]
    <3>1. p \in D /\ <<p, n>> \in P  BY <1>8
    <3>2. y \in D /\ <<y, p>> \in L  BY <1>10, <3>1
    <3>3. QED  BY <1>2, <1>10, <3>1, <3>2 DEF Closed
  <2>4. QED  BY <2>1, <2>2, <2>3
<1>12. ASSUME NEW n \in D, NEW x \in D, n \in anc[x] PROVE parents[n] \subseteq anc[x]
  BY <1>4, <1>8, <1>10, <1>12
<1>13. \A n \in D : n \notin anc[n]  BY <1>1, <1>10
<1>14. ASSUME NEW S \in SUBSET D, S # {} PROVE \E n \in S : parents[n] \cap S = {}
  <2>1. PICK n \in S : \A y \in S : n \notin Forward(d)[y]  BY <1>7, <1>14 DEF Ranked
  <2>2. QED  BY <1>1, <1>8, <2>1
<1>15. Descent(D, parents, anc)
  BY <1>5, <1>8, <1>10, <1>11, <1>12, <1>13, <1>14 DEF Descent
<1>16. QED  BY <1>9, <1>15 DEF parents, anc

-----------------------------------------------------------------------------
(* What is defined of a node from the node it is nested in. *)

Climbs(F, N, up, base, step) == \A i \in 1 .. N : F[i] = IF up[i] = 0 THEN base[i] ELSE step[i][F[up[i]]]

LEMMA Climbing ==
    ASSUME NEW N \in Nat, NEW V, NEW up, NEW base, NEW step,
           \A i \in 1 .. N : /\ up[i] \in 0 .. (i - 1) /\ base[i] \in V
                             /\ up[i] # 0 => \A v \in V : step[i][v] \in V
    PROVE  \E F \in [1 .. N -> V] : Climbs(F, N, up, base, step)
<1> DEFINE value(i, F) == IF up[i] = 0 THEN base[i] ELSE step[i][F[up[i]]]
           Is(m, F) == F \in [1 .. m -> V] /\ \A i \in 1 .. m : F[i] = value(i, F)
           S == {m \in Nat : m <= N => \E F : Is(m, F)}
<1>0. /\ \A i \in 1 .. N : up[i] \in 0 .. (i - 1) /\ base[i] \in V
      /\ \A i \in 1 .. N : \A v \in V : up[i] # 0 => step[i][v] \in V
  OBVIOUS
<1>1. 0 \in S
  <2>1. Is(0, [i \in 1 .. 0 |-> base[i]])  OBVIOUS
  <2> HIDE DEF Is
  <2>2. QED  BY <2>1
<1>2. ASSUME NEW m \in S PROVE m + 1 \in S
  <2> SUFFICES ASSUME m + 1 <= N PROVE \E F : Is(m + 1, F)
    OBVIOUS
  <2>0. m \in Nat /\ m <= N /\ m + 1 \in 1 .. N  OBVIOUS
  <2>1. PICK F : Is(m, F)  BY <2>0
  <2> HIDE DEF S
  <2> DEFINE G == [i \in 1 .. (m + 1) |-> IF i = m + 1 THEN value(m + 1, F) ELSE F[i]]
  <2>2. \A i \in 1 .. (m + 1) : up[i] # 0 => up[i] \in 1 .. m
    <3> SUFFICES ASSUME NEW i \in 1 .. (m + 1), up[i] # 0 PROVE up[i] \in 1 .. m
      OBVIOUS
    <3>1. i \in 1 .. N  BY <2>0
    <3>2. up[i] \in 0 .. (i - 1)  BY <1>0, <3>1
    <3>3. QED  BY <2>0, <3>2
  <2>3. \A i \in 1 .. m : F[i] \in V  BY <2>1
  <2>4. value(m + 1, F) \in V
    <3>1. CASE up[m + 1] = 0
      <4>1. base[m + 1] \in V  BY <1>0, <2>0
      <4>2. QED  BY <3>1, <4>1
    <3>2. CASE up[m + 1] # 0
      <4>1. m + 1 \in 1 .. (m + 1)  BY <2>0
      <4>2. F[up[m + 1]] \in V  BY <2>2, <2>3, <3>2, <4>1
      <4>3. step[m + 1][F[up[m + 1]]] \in V  BY <1>0, <2>0, <3>2, <4>2
      <4>4. QED  BY <3>2, <4>3
    <3>3. QED  BY <3>1, <3>2
  <2>5. \A i \in 1 .. m : i \in 1 .. (m + 1) /\ i # m + 1  BY <2>0
  <2>6. m + 1 \in 1 .. (m + 1)  BY <2>0
  <2> HIDE DEF value
  <2>7. /\ G \in [1 .. (m + 1) -> V] /\ G[m + 1] = value(m + 1, F)
        /\ \A i \in 1 .. m : G[i] = F[i]
    <3>1. \A i \in 1 .. (m + 1) : i # m + 1 => i \in 1 .. m  BY <2>0
    <3>2. QED  BY <2>3, <2>4, <2>5, <2>6, <3>1
  <2> HIDE DEF G
  <2>8. \A i \in 1 .. (m + 1) : value(i, G) = value(i, F)
    BY <2>2, <2>7 DEF value
  <2>9. \A i \in 1 .. (m + 1) : G[i] = value(i, G)
    <3>1. \A i \in 1 .. (m + 1) : i # m + 1 => i \in 1 .. m  BY <2>0
    <3>2. \A i \in 1 .. m : F[i] = value(i, F)  BY <2>1
    <3>3. QED  BY <2>5, <2>7, <2>8, <3>1, <3>2
  <2>10. QED  BY <2>7, <2>9
<1>3. S = Nat
  <2>1. S \subseteq Nat  OBVIOUS
  <2> HIDE DEF S
  <2>2. QED  BY <1>1, <1>2, <2>1, Induction
<1>4. PICK F : Is(N, F)
  <2> HIDE DEF Is
  <2>1. N \in S
    <3> HIDE DEF S
    <3>1. QED  BY <1>3
  <2>2. N <= N  OBVIOUS
  <2>3. QED  BY <2>1, <2>2
<1>5. QED  BY <1>4 DEF Climbs

\* The nodes of a document that is nested: the one around each comes before it.
LEMMA Nesting ==
    ASSUME NEW d, IsDocument(d), IsNested(d)
    PROVE  /\ Len(d.nodes) \in Nat /\ DOMAIN d.nodes = 1 .. Len(d.nodes)
           /\ \A i \in 1 .. Len(d.nodes) : d.nodes[i].in \in 0 .. (i - 1)
BY DEF IsDocument, IsNested

LEMMA AroundIs ==
    ASSUME NEW d, IsDocument(d), IsNested(d)
    PROVE  \A i \in DOMAIN d.nodes :
               Around(d)[i] = IF d.nodes[i].in = 0 THEN {i} ELSE {i} \cup Around(d)[d.nodes[i].in]
<1> DEFINE N == Len(d.nodes)
           V == SUBSET (1 .. N)
           up == [i \in 1 .. N |-> d.nodes[i].in]
           base == [i \in 1 .. N |-> {i}]
           step == [i \in 1 .. N |-> [v \in V |-> {i} \cup v]]
           Is(F) == F = [i \in 1 .. N |-> IF d.nodes[i].in = 0 THEN {i} ELSE {i} \cup F[d.nodes[i].in]]
<1>1. N \in Nat /\ DOMAIN d.nodes = 1 .. N /\ \A i \in 1 .. N : d.nodes[i].in \in 0 .. (i - 1)
  BY Nesting
<1> HIDE DEF N
<1>2. \A i \in 1 .. N : /\ up[i] \in 0 .. (i - 1) /\ base[i] \in V
                        /\ up[i] # 0 => \A v \in V : step[i][v] \in V
  BY <1>1
<1>3. PICK F \in [1 .. N -> V] : Climbs(F, N, up, base, step)
  <2> HIDE DEF up, base, step, V
  <2>1. QED  BY <1>1, <1>2, Climbing
<1>4. \A i \in 1 .. N : F[i] = IF d.nodes[i].in = 0 THEN {i} ELSE {i} \cup F[d.nodes[i].in]
  <2> SUFFICES ASSUME NEW i \in 1 .. N
               PROVE  F[i] = IF d.nodes[i].in = 0 THEN {i} ELSE {i} \cup F[d.nodes[i].in]
    OBVIOUS
  <2>1. F[i] = IF up[i] = 0 THEN base[i] ELSE step[i][F[up[i]]]  BY <1>3 DEF Climbs
  <2>2. CASE d.nodes[i].in = 0  BY <2>1, <2>2
  <2>3. CASE d.nodes[i].in # 0
    <3>1. d.nodes[i].in \in 1 .. N  BY <1>1, <2>3
    <3>2. F[d.nodes[i].in] \in V  BY <1>3, <3>1
    <3>3. QED  BY <2>1, <2>3, <3>2
  <2>4. QED  BY <2>2, <2>3
<1>5. Is(F)
  <2>1. F = [i \in 1 .. N |-> F[i]]  BY <1>3
  <2>2. QED  BY <1>4, <2>1
<1> DEFINE a == CHOOSE G : Is(G)
<1>6. Is(a)
  <2> HIDE DEF Is
  <2>1. QED  BY <1>5
<1>7. Around(d) = a  BY <1>1 DEF Around
<1> HIDE DEF a
<1>8. QED  BY <1>1, <1>6, <1>7

LEMMA OutermostIs ==
    ASSUME NEW d, IsDocument(d), IsNested(d)
    PROVE  \A i \in DOMAIN d.nodes :
               Outermost(d)[i] = IF d.nodes[i].in = 0 THEN i ELSE Outermost(d)[d.nodes[i].in]
<1> DEFINE N == Len(d.nodes)
           V == 1 .. N
           up == [i \in 1 .. N |-> d.nodes[i].in]
           base == [i \in 1 .. N |-> i]
           step == [i \in 1 .. N |-> [v \in V |-> v]]
           Is(F) == F = [i \in 1 .. N |-> IF d.nodes[i].in = 0 THEN i ELSE F[d.nodes[i].in]]
<1>1. N \in Nat /\ DOMAIN d.nodes = 1 .. N /\ \A i \in 1 .. N : d.nodes[i].in \in 0 .. (i - 1)
  BY Nesting
<1> HIDE DEF N
<1>2. \A i \in 1 .. N : /\ up[i] \in 0 .. (i - 1) /\ base[i] \in V
                        /\ up[i] # 0 => \A v \in V : step[i][v] \in V
  BY <1>1
<1>3. PICK F \in [1 .. N -> V] : Climbs(F, N, up, base, step)
  <2> HIDE DEF up, base, step, V
  <2>1. QED  BY <1>1, <1>2, Climbing
<1>4. \A i \in 1 .. N : F[i] = IF d.nodes[i].in = 0 THEN i ELSE F[d.nodes[i].in]
  <2> SUFFICES ASSUME NEW i \in 1 .. N
               PROVE  F[i] = IF d.nodes[i].in = 0 THEN i ELSE F[d.nodes[i].in]
    OBVIOUS
  <2>1. F[i] = IF up[i] = 0 THEN base[i] ELSE step[i][F[up[i]]]  BY <1>3 DEF Climbs
  <2>2. CASE d.nodes[i].in = 0  BY <2>1, <2>2
  <2>3. CASE d.nodes[i].in # 0
    <3>1. d.nodes[i].in \in 1 .. N  BY <1>1, <2>3
    <3>2. F[d.nodes[i].in] \in V  BY <1>3, <3>1
    <3>3. QED  BY <2>1, <2>3, <3>2
  <2>4. QED  BY <2>2, <2>3
<1>5. Is(F)
  <2>1. F = [i \in 1 .. N |-> F[i]]  BY <1>3
  <2>2. QED  BY <1>4, <2>1
<1> DEFINE top == CHOOSE G : Is(G)
<1>6. Is(top)
  <2> HIDE DEF Is
  <2>1. QED  BY <1>5
<1>7. Outermost(d) = top  BY <1>1 DEF Outermost
<1> HIDE DEF top
<1>8. QED  BY <1>1, <1>6, <1>7

\* The producers and the loop variables at a node, from those at the node around it.
LEMMA ScopesAre ==
    ASSUME NEW d, IsDocument(d), IsNested(d), \A x \in TopIds(d) : Ancestors(d)[x] \in SUBSET TopIds(d)
    PROVE  \A i \in DOMAIN d.nodes :
               LET n == d.nodes[i]
                   o == d.nodes[n.in]
               IN  /\ Scopes(d)[i].ids =
                          IF n.id \in TopIds(d) THEN Ancestors(d)[n.id]
                          ELSE IF n.in = 0 THEN Siblings(d, i) \ {n.id}
                          ELSE Scopes(d)[n.in].ids \cup {o.id} \cup (Siblings(d, i) \ {n.id})
                   /\ Scopes(d)[i].vars =
                          IF n.in = 0 THEN {} ELSE Scopes(d)[n.in].vars \cup ({o.as} \ {None})
<1> DEFINE N == Len(d.nodes)
           top == TopIds(d)
           ids == {n.id : n \in ToSet(d.nodes)}
           vars == {n.as : n \in ToSet(d.nodes)}
           V == [ids : SUBSET ids, vars : SUBSET vars]
           node(i) == d.nodes[i]
           own(i) == Siblings(d, i) \ {node(i).id}
           up == [i \in 1 .. N |-> node(i).in]
           base == [i \in 1 .. N |->
                       [ids |-> IF node(i).id \in top THEN Ancestors(d)[node(i).id] ELSE own(i), vars |-> {}]]
           step == [i \in 1 .. N |-> [v \in V |->
                       [ids |-> IF node(i).id \in top THEN Ancestors(d)[node(i).id]
                                ELSE v.ids \cup {node(node(i).in).id} \cup own(i),
                        vars |-> v.vars \cup ({node(node(i).in).as} \ {None})]]]
           outer(i, F) == IF node(i).in = 0 THEN [ids |-> {}, vars |-> {}]
                          ELSE [ids |-> F[node(i).in].ids \cup {node(node(i).in).id},
                                vars |-> F[node(i).in].vars \cup ({node(node(i).in).as} \ {None})]
           value(i, F) == [ids |-> IF node(i).id \in top THEN Ancestors(d)[node(i).id]
                                   ELSE outer(i, F).ids \cup own(i),
                           vars |-> outer(i, F).vars]
           Is(F) == F = [i \in 1 .. N |-> value(i, F)]
<1>1. N \in Nat /\ DOMAIN d.nodes = 1 .. N /\ \A i \in 1 .. N : node(i).in \in 0 .. (i - 1)
  BY Nesting
<1> HIDE DEF N
<1>2. \A i \in 1 .. N : /\ node(i).id \in ids /\ node(i).as \in vars
                        /\ node(i).id \in top => Ancestors(d)[node(i).id] \in SUBSET ids
                        /\ own(i) \in SUBSET ids
  <2>1. \A i \in 1 .. N : node(i).id \in ids /\ node(i).as \in vars  BY <1>1 DEF ToSet
  <2>2. top \subseteq ids  BY <1>1, <2>1 DEF TopIds, TopAt
  <2>3. \A i \in 1 .. N : own(i) \in SUBSET ids
    <3> HIDE DEF ids
    <3>1. QED  BY <1>1, <2>1 DEF Siblings
  <2> HIDE DEF ids, own
  <2>4. QED  BY <2>1, <2>2, <2>3
<1> HIDE DEF ids, vars, own, node, top
<1>3. \A i \in 1 .. N : node(i).in # 0 => node(i).in \in 1 .. N  BY <1>1
<1>4. \A i \in 1 .. N : up[i] \in 0 .. (i - 1) /\ up[i] = node(i).in
  BY <1>1
<1>5. \A i \in 1 .. N : base[i] \in V
  BY <1>2
<1>6. \A i \in 1 .. N : up[i] # 0 => \A v \in V : step[i][v] \in V
  BY <1>2, <1>3, <1>4
<1>7. PICK F \in [1 .. N -> V] : Climbs(F, N, up, base, step)
  <2> HIDE DEF up, base, step, V
  <2>1. QED  BY <1>1, <1>4, <1>5, <1>6, Climbing
<1>8. \A i \in 1 .. N : F[i] = value(i, F)
  <2> SUFFICES ASSUME NEW i \in 1 .. N PROVE F[i] = value(i, F)
    OBVIOUS
  <2>1. F[i] = IF up[i] = 0 THEN base[i] ELSE step[i][F[up[i]]]  BY <1>7 DEF Climbs
  <2>2. CASE node(i).in = 0  BY <1>4, <2>1, <2>2
  <2>3. CASE node(i).in # 0
    <3>1. F[node(i).in] \in V  BY <1>3, <1>7, <2>3
    <3>2. F[i] = step[i][F[node(i).in]]  BY <1>4, <2>1, <2>3
    <3>3. QED  BY <2>3, <3>1, <3>2
  <2>4. QED  BY <2>2, <2>3
<1>9. Is(F)
  <2>1. F = [i \in 1 .. N |-> F[i]]  BY <1>7
  <2> HIDE DEF value
  <2>2. QED  BY <1>8, <2>1
<1> DEFINE scope == CHOOSE G : Is(G)
<1>10. Is(scope)
  <2> HIDE DEF Is
  <2>1. QED  BY <1>9
<1>11. Scopes(d) = scope  BY <1>1 DEF Scopes, node, own, top
<1> HIDE DEF scope
<1>12. \A i \in 1 .. N : Scopes(d)[i] = value(i, Scopes(d))
  <2> HIDE DEF value
  <2>1. QED  BY <1>10, <1>11
<1>13. ASSUME NEW i \in 1 .. N
       PROVE  /\ Scopes(d)[i].ids =
                     IF node(i).id \in top THEN Ancestors(d)[node(i).id]
                     ELSE IF node(i).in = 0 THEN own(i)
                     ELSE Scopes(d)[node(i).in].ids \cup {node(node(i).in).id} \cup own(i)
              /\ Scopes(d)[i].vars =
                     IF node(i).in = 0 THEN {}
                     ELSE Scopes(d)[node(i).in].vars \cup ({node(node(i).in).as} \ {None})
  <2>1. Scopes(d)[i] = value(i, Scopes(d))  BY <1>12
  <2> DEFINE s == Scopes(d)
  <2> HIDE DEF s
  <2>2. s[i] = value(i, s)  BY <2>1 DEF s
  <2>3. /\ s[i].ids = IF node(i).id \in top THEN Ancestors(d)[node(i).id] ELSE outer(i, s).ids \cup own(i)
        /\ s[i].vars = outer(i, s).vars
    BY <2>2
  <2>4. QED  BY <2>3 DEF s
<1>14. QED  BY <1>1, <1>13 DEF node, own, top

-----------------------------------------------------------------------------
(* References. *)

\* The producers and the loop variables that Supplied lets a node name.
Producer(d, i, x) ==
    \/ x \in TopIds(d) /\ <<x, d.nodes[Outermost(d)[i]].id>> \in Flows(d)
    \/ \E j \in Around(d)[i] : \/ x = d.nodes[j].id /\ j # i
                               \/ d.nodes[j].in # 0 /\ x \in Siblings(d, j) \ {d.nodes[i].id}
Variable(d, i, x) == x # None /\ \E j \in Around(d)[i] : x = d.nodes[j].as /\ j # i

LEMMA ScopesExact ==
    ASSUME NEW d, IsDocument(d), IsNested(d), CheckGraph(d) = {}, NEW i \in DOMAIN d.nodes
    PROVE  /\ i \in Around(d)[i]
           /\ \A x : x \in Scopes(d)[i].ids <=> Producer(d, i, x)
           /\ \A x : x \in Scopes(d)[i].vars <=> Variable(d, i, x)
<1> DEFINE N == Len(d.nodes)
           top == TopIds(d)
           Exact(k) == /\ Around(d)[k] \in SUBSET (1 .. k) /\ k \in Around(d)[k]
                       /\ \A x : x \in Scopes(d)[k].ids <=> Producer(d, k, x)
                       /\ \A x : x \in Scopes(d)[k].vars <=> Variable(d, k, x)
<1>1. N \in Nat /\ DOMAIN d.nodes = 1 .. N /\ \A k \in 1 .. N : d.nodes[k].in \in 0 .. (k - 1)
  BY Nesting
<1>2. \A k, j \in 1 .. N : d.nodes[k].id = d.nodes[j].id => k = j
  BY <1>1, UniqueNodes DEF Unique
<1>3. \A x \in top : Ancestors(d)[x] = {y \in top : <<y, x>> \in Flows(d)}
  <2> DEFINE anc == [x \in top |-> {y \in top : <<y, x>> \in Flows(d)}]
  <2>1. Descent(top, DataParents(d), anc)  BY DataDescent
  <2> HIDE DEF anc
  <2>2. \A x \in top : Ancestors(d)[x] = anc[x]  BY <2>1, AncestorsAre
  <2>3. QED  BY <2>2 DEF anc
<1>4. \A k \in 1 .. N : d.nodes[k].id \in top <=> d.nodes[k].in = 0
  BY <1>1, <1>2 DEF TopIds, TopAt
<1>5. \A k \in 1 .. N :
          LET n == d.nodes[k]
              o == d.nodes[n.in]
          IN  /\ Scopes(d)[k].ids =
                     IF n.id \in top THEN Ancestors(d)[n.id]
                     ELSE IF n.in = 0 THEN Siblings(d, k) \ {n.id}
                     ELSE Scopes(d)[n.in].ids \cup {o.id} \cup (Siblings(d, k) \ {n.id})
              /\ Scopes(d)[k].vars =
                     IF n.in = 0 THEN {} ELSE Scopes(d)[n.in].vars \cup ({o.as} \ {None})
  BY <1>1, <1>3, ScopesAre
<1>6. \A k \in 1 .. N :
          /\ Around(d)[k] = IF d.nodes[k].in = 0 THEN {k} ELSE {k} \cup Around(d)[d.nodes[k].in]
          /\ Outermost(d)[k] = IF d.nodes[k].in = 0 THEN k ELSE Outermost(d)[d.nodes[k].in]
  BY <1>1, AroundIs, OutermostIs
<1> HIDE DEF N, top
<1>7. ASSUME NEW k \in 1 .. N, d.nodes[k].in = 0 PROVE Exact(k)
  <2>1. Around(d)[k] = {k} /\ Outermost(d)[k] = k  BY <1>6, <1>7
  <2>2. /\ Scopes(d)[k].ids = {y \in top : <<y, d.nodes[k].id>> \in Flows(d)}
        /\ Scopes(d)[k].vars = {}
    BY <1>3, <1>4, <1>5, <1>7
  <2>3. Around(d)[k] \in SUBSET (1 .. k) /\ k \in Around(d)[k]  BY <2>1
  <2>4. \A x : x \in Scopes(d)[k].ids <=> Producer(d, k, x)
    BY <1>7, <2>1, <2>2 DEF Producer, top
  <2>5. \A x : x \in Scopes(d)[k].vars <=> Variable(d, k, x)
    BY <2>1, <2>2 DEF Variable
  <2>6. QED  BY <2>3, <2>4, <2>5
<1>8. ASSUME NEW k \in 1 .. N, d.nodes[k].in # 0, Exact(d.nodes[k].in) PROVE Exact(k)
  <2> DEFINE o == d.nodes[k].in
             id == d.nodes[k].id
  <2>1. o \in 1 .. N /\ o < k  BY <1>1, <1>8
  <2>2. Around(d)[k] = {k} \cup Around(d)[o] /\ Outermost(d)[k] = Outermost(d)[o]  BY <1>6, <1>8
  <2>3. /\ Around(d)[o] \in SUBSET (1 .. o) /\ o \in Around(d)[o]
        /\ \A x : x \in Scopes(d)[o].ids <=> Producer(d, o, x)
        /\ \A x : x \in Scopes(d)[o].vars <=> Variable(d, o, x)
    BY <1>8
  <2>4. /\ Scopes(d)[k].ids = Scopes(d)[o].ids \cup {d.nodes[o].id} \cup (Siblings(d, k) \ {id})
        /\ Scopes(d)[k].vars = Scopes(d)[o].vars \cup ({d.nodes[o].as} \ {None})
    BY <1>4, <1>5, <1>8
  <2>5. d.nodes[k].in = o /\ d.nodes[k].in # 0  BY <1>8
  <2> HIDE DEF o, id
  <2>6. ASSUME NEW j \in Around(d)[o] PROVE j # k /\ id \notin Siblings(d, j)
    <3>1. j \in 1 .. o /\ j \in 1 .. N /\ j # k  BY <2>1, <2>3, <1>1
    <3>2. d.nodes[j].in # o
      <4>1. d.nodes[j].in \in 0 .. (j - 1)  BY <1>1, <3>1
      <4>2. QED  BY <2>1, <3>1, <4>1
    <3>3. ASSUME id \in Siblings(d, j) PROVE FALSE
      <4>1. PICK l \in 1 .. N : d.nodes[l].id = d.nodes[k].id /\ d.nodes[l].in = d.nodes[j].in
        BY <1>1, <3>3 DEF Siblings, id
      <4>2. l = k  BY <1>2, <4>1
      <4>3. QED  BY <2>5, <3>2, <4>1, <4>2
    <3>4. QED  BY <3>1, <3>3
  <2>7. Around(d)[k] \in SUBSET (1 .. k) /\ k \in Around(d)[k]
    <3>1. 1 .. o \subseteq 1 .. k /\ k \in 1 .. k  BY <1>1, <2>1
    <3>2. QED  BY <2>2, <2>3, <3>1
  <2>8. \A x : x \in Scopes(d)[k].ids <=> Producer(d, k, x)
    <3> SUFFICES ASSUME NEW x PROVE x \in Scopes(d)[k].ids <=> Producer(d, k, x)
      OBVIOUS
    <3>1. x \in Scopes(d)[k].ids <=>
              Producer(d, o, x) \/ x = d.nodes[o].id \/ x \in Siblings(d, k) \ {id}
      BY <2>3, <2>4
    <3>2. Producer(d, o, x) <=>
              \/ x \in TopIds(d) /\ <<x, d.nodes[Outermost(d)[o]].id>> \in Flows(d)
              \/ \E j \in Around(d)[o] : \/ x = d.nodes[j].id /\ j # o
                                         \/ d.nodes[j].in # 0 /\ x \in Siblings(d, j) \ {d.nodes[o].id}
      BY DEF Producer
    <3>3. Producer(d, k, x) <=>
              \/ x \in TopIds(d) /\ <<x, d.nodes[Outermost(d)[o]].id>> \in Flows(d)
              \/ x \in Siblings(d, k) \ {id}
              \/ \E j \in Around(d)[o] : x = d.nodes[j].id \/ (d.nodes[j].in # 0 /\ x \in Siblings(d, j))
      <4>1. Producer(d, k, x) <=>
                \/ x \in TopIds(d) /\ <<x, d.nodes[Outermost(d)[o]].id>> \in Flows(d)
                \/ \E j \in {k} \cup Around(d)[o] :
                       \/ x = d.nodes[j].id /\ j # k
                       \/ d.nodes[j].in # 0 /\ x \in Siblings(d, j) \ {id}
        BY <2>2 DEF Producer, id
      <4>2. \A j \in Around(d)[o] : j # k /\ (x \in Siblings(d, j) \ {id} <=> x \in Siblings(d, j))
        BY <2>6
      <4> DEFINE near(j) == \/ x = d.nodes[j].id /\ j # k
                            \/ d.nodes[j].in # 0 /\ x \in Siblings(d, j) \ {id}
      <4>3. near(k) <=> x \in Siblings(d, k) \ {id}  BY <2>5
      <4>4. \A j \in Around(d)[o] :
                near(j) <=> x = d.nodes[j].id \/ (d.nodes[j].in # 0 /\ x \in Siblings(d, j))
        BY <4>2
      <4>5. Producer(d, k, x) <=>
                \/ x \in TopIds(d) /\ <<x, d.nodes[Outermost(d)[o]].id>> \in Flows(d)
                \/ \E j \in {k} \cup Around(d)[o] : near(j)
        BY <4>1
      <4> HIDE DEF near
      <4>6. (\E j \in {k} \cup Around(d)[o] : near(j)) <=> near(k) \/ \E j \in Around(d)[o] : near(j)
        OBVIOUS
      <4>7. QED  BY <4>3, <4>4, <4>5, <4>6
    <3>4. ASSUME Producer(d, o, x) \/ x = d.nodes[o].id PROVE Producer(d, k, x)
      <4>1. CASE x = d.nodes[o].id  BY <2>3, <3>3, <4>1, Zenon
      <4>2. CASE x \in TopIds(d) /\ <<x, d.nodes[Outermost(d)[o]].id>> \in Flows(d)
        BY <3>3, <4>2
      <4>3. CASE \E j \in Around(d)[o] : \/ x = d.nodes[j].id /\ j # o
                                         \/ d.nodes[j].in # 0 /\ x \in Siblings(d, j) \ {d.nodes[o].id}
        <5>1. PICK j \in Around(d)[o] : x = d.nodes[j].id \/ (d.nodes[j].in # 0 /\ x \in Siblings(d, j))
          BY <4>3
        <5>2. QED  BY <3>3, <5>1, Zenon
      <4>4. QED  BY <3>2, <3>4, <4>1, <4>2, <4>3
    <3>5. ASSUME Producer(d, k, x), x \notin Siblings(d, k) \ {id}
          PROVE  Producer(d, o, x) \/ x = d.nodes[o].id
      <4>1. CASE x \in TopIds(d) /\ <<x, d.nodes[Outermost(d)[o]].id>> \in Flows(d)
        BY <3>2, <4>1
      <4>2. CASE \E j \in Around(d)[o] : x = d.nodes[j].id \/ (d.nodes[j].in # 0 /\ x \in Siblings(d, j))
        <5>1. PICK j \in Around(d)[o] : x = d.nodes[j].id \/ (d.nodes[j].in # 0 /\ x \in Siblings(d, j))
          BY <4>2
        <5>2. SUFFICES ASSUME x # d.nodes[o].id PROVE Producer(d, o, x)
          OBVIOUS
        <5>3. x = d.nodes[j].id => j # o  BY <5>2
        <5>4. x \in Siblings(d, j) => x \in Siblings(d, j) \ {d.nodes[o].id}  BY <5>2
        <5>5. QED  BY <3>2, <5>1, <5>3, <5>4
      <4>3. QED  BY <3>3, <3>5, <4>1, <4>2
    <3>6. QED  BY <3>1, <3>3, <3>4, <3>5
  <2>9. \A x : x \in Scopes(d)[k].vars <=> Variable(d, k, x)
    BY <2>2, <2>3, <2>4, <2>6 DEF Variable
  <2>10. QED  BY <2>7, <2>8, <2>9
<1> HIDE DEF Exact
<1> DEFINE S == {m \in Nat : \A k \in 1 .. N : k <= m => Exact(k)}
<1>9. 0 \in S  OBVIOUS
<1>10. ASSUME NEW m \in S PROVE m + 1 \in S
  <2> SUFFICES ASSUME NEW k \in 1 .. N, k <= m + 1 PROVE Exact(k)
    OBVIOUS
  <2>1. \A l \in 1 .. N : l <= m => Exact(l)  OBVIOUS
  <2>2. m \in Nat  OBVIOUS
  <2> HIDE DEF S
  <2>3. CASE d.nodes[k].in = 0  BY <1>7, <2>3
  <2>4. CASE d.nodes[k].in # 0
    <3>1. d.nodes[k].in \in 0 .. (k - 1) /\ k \in Nat /\ N \in Nat  BY <1>1
    <3>2. d.nodes[k].in \in 1 .. N /\ d.nodes[k].in <= m  BY <2>2, <2>4, <3>1
    <3>3. QED  BY <1>8, <2>1, <2>4, <3>2
  <2>5. QED  BY <2>3, <2>4
<1>11. S = Nat
  <2>1. S \subseteq Nat  OBVIOUS
  <2> HIDE DEF S
  <2>2. QED  BY <1>9, <1>10, <2>1, Induction
<1>12. Exact(i)
  <2>1. i \in 1 .. N /\ i \in Nat /\ i <= i  BY <1>1
  <2>2. i \in S  BY <1>11, <2>1
  <2>3. QED  BY <2>1, <2>2
<1>13. QED  BY <1>12 DEF Exact

\* What the validator finds wrong with a reference, and who it supplies.
LEMMA ReferenceExact ==
    ASSUME NEW d, IsDocument(d), IsNested(d), CheckGraph(d) = {}, NEW i \in DOMAIN d.nodes,
           NEW r \in ToSet(d.nodes[i].refs), r.to # "input"
    PROVE  LET scope == ScopeOf(d, Scopes(d), i, r.field)
           IN  Supplied(d, Flows(d), i, r) <=> r.to \in scope.vars \/ r.to \in scope.ids
<1>1. /\ i \in Around(d)[i]
      /\ r.to \in Scopes(d)[i].ids <=> Producer(d, i, r.to)
      /\ r.to \in Scopes(d)[i].vars <=> Variable(d, i, r.to)
  BY ScopesExact
<1>2. r.to # None  BY DEF IsNested
<1> DEFINE scope == ScopeOf(d, Scopes(d), i, r.field)
<1>3. CASE r.field = "collect"
  <2>1. /\ r.to \in scope.ids <=> Producer(d, i, r.to) \/ r.to = d.nodes[i].id \/ r.to \in Body(d, i)
        /\ r.to \in scope.vars <=> Variable(d, i, r.to) \/ r.to = d.nodes[i].as
    BY <1>1, <1>3 DEF ScopeOf
  <2> HIDE DEF scope
  <2>2. Supplied(d, Flows(d), i, r) <=>
            \/ \E j \in Around(d)[i] : r.to = d.nodes[j].as
            \/ r.to \in TopIds(d) /\ <<r.to, d.nodes[Outermost(d)[i]].id>> \in Flows(d)
            \/ \E j \in Around(d)[i] : \/ r.to = d.nodes[j].id
                                       \/ d.nodes[j].in # 0 /\ r.to \in Siblings(d, j) \ {d.nodes[i].id}
            \/ r.to \in Body(d, i)
    BY <1>3 DEF Supplied
  <2>3. (\E j \in Around(d)[i] : r.to = d.nodes[j].as) <=> r.to \in scope.vars
    BY <1>1, <1>2, <2>1 DEF Variable
  <2>4. QED  BY <1>1, <2>1, <2>2, <2>3 DEF Producer, scope
<1>4. CASE r.field # "collect"
  <2>1. /\ r.to \in scope.ids <=> Producer(d, i, r.to)
        /\ r.to \in scope.vars <=> Variable(d, i, r.to)
    BY <1>1, <1>4 DEF ScopeOf
  <2> HIDE DEF scope
  <2>2. Supplied(d, Flows(d), i, r) <=> Variable(d, i, r.to) \/ Producer(d, i, r.to)
    BY <1>2, <1>4 DEF Supplied, Variable, Producer
  <2>3. QED  BY <2>1, <2>2 DEF scope
<1>5. QED  BY <1>3, <1>4

\* by_id finds the node itself.
LEMMA AtItself ==
    ASSUME NEW d, IsDocument(d), CheckGraph(d) = {}, NEW i \in DOMAIN d.nodes
    PROVE  At(d, d.nodes[i].id) = i /\ NodeOf(d, d.nodes[i].id) = d.nodes[i]
<1>1. Unique(d)  BY UniqueNodes
<1>2. i \in Nat  BY DEF IsDocument
<1> DEFINE latest(k) == /\ d.nodes[k].id = d.nodes[i].id
                        /\ \A j \in DOMAIN d.nodes : d.nodes[j].id = d.nodes[i].id => j <= k
<1>3. At(d, d.nodes[i].id) = CHOOSE k \in DOMAIN d.nodes : latest(k)  BY DEF At
<1>4. latest(i)
  <2>1. ASSUME NEW j \in DOMAIN d.nodes, d.nodes[j].id = d.nodes[i].id PROVE j <= i
    <3>1. j = i  BY <1>1, <2>1 DEF Unique
    <3>2. QED  BY <1>2, <3>1
  <2>2. QED  BY <2>1
<1>5. \A k \in DOMAIN d.nodes : latest(k) => k = i  BY <1>1 DEF Unique
<1> HIDE DEF latest
<1>6. (CHOOSE k \in DOMAIN d.nodes : latest(k)) = i  BY <1>4, <1>5
<1>7. QED  BY <1>3, <1>6 DEF NodeOf

\* What is wrong with one text of a node.
TextFailures(d, i, f) ==
    LET n == d.nodes[i]
        refs == {r \in ToSet(n.refs) : r.field = f}
        scope == ScopeOf(d, Scopes(d), At(d, n.id), f)
    IN  IF \E r \in refs : r.form = "broken"
        THEN {Fail("reference", "syntax", n.id)}
        ELSE UNION {RefFailures(d, scope, n, r) : r \in {s \in refs : s.form # "escaped"}}

LEMMA TextByText ==
    ASSUME NEW d
    PROVE  CheckReferences(d) =
               UNION {UNION {TextFailures(d, i, f) : f \in Scanned[d.nodes[i].kind]} : i \in DOMAIN d.nodes}
BY DEF CheckReferences, TextFailures

\* A document nothing is found wrong with supplies every reference that is looked at.
LEMMA AcceptedSupplies ==
    ASSUME NEW d, IsDocument(d), IsNested(d), CheckGraph(d) = {}, CheckReferences(d) = {},
           NEW i \in DOMAIN d.nodes, NEW r \in ToSet(d.nodes[i].refs),
           r.field \in Scanned[d.nodes[i].kind], r.form # "escaped"
    PROVE  Supplied(d, Flows(d), i, r)
<1> DEFINE n == d.nodes[i]
           scope == ScopeOf(d, Scopes(d), i, r.field)
<1>1. TextFailures(d, i, r.field) = {}
  <2>1. \A f \in Scanned[d.nodes[i].kind] : TextFailures(d, i, f) \subseteq CheckReferences(d)
    BY TextByText
  <2>2. QED  BY <2>1
<1>2. At(d, n.id) = i  BY AtItself
<1>3. RefFailures(d, scope, n, r) = {}
  <2>1. \A s \in ToSet(n.refs) : s.field = r.field => s.form # "broken"
    BY <1>1 DEF TextFailures
  <2>2. UNION {RefFailures(d, scope, n, s) :
                   s \in {q \in {p \in ToSet(n.refs) : p.field = r.field} : q.form # "escaped"}} = {}
    BY <1>1, <1>2, <2>1 DEF TextFailures
  <2>3. RefFailures(d, scope, n, r) \subseteq
            UNION {RefFailures(d, scope, n, s) :
                       s \in {q \in {p \in ToSet(n.refs) : p.field = r.field} : q.form # "escaped"}}
    OBVIOUS
  <2>4. QED  BY <2>2, <2>3
<1>4. CASE r.to = "input"
  <2>1. r.path \in d.inputs  BY <1>3, <1>4 DEF RefFailures, When
  <2>2. QED  BY <1>4, <2>1 DEF Supplied
<1>5. CASE r.to # "input"
  <2>1. r.to \in scope.vars \/ r.to \in scope.ids  BY <1>3, <1>5 DEF RefFailures
  <2>2. QED  BY <1>5, <2>1, ReferenceExact
<1>6. QED  BY <1>4, <1>5

\* A node is refused for a producer or an input only over a reference that nothing supplies.
LEMMA RefusedUnsupplied ==
    ASSUME NEW d, IsDocument(d), IsNested(d), NEW id \in RefusedForReferences(d)
    PROVE  Unsupplied(d, id)
<1>1. CheckGraph(d) = {}  BY DEF RefusedForReferences
<1>2. PICK g \in CheckReferences(d) : g[2] \in {"undeclared input", "not upstream"} /\ id = g[3]
  BY DEF RefusedForReferences
<1>3. PICK i \in DOMAIN d.nodes : \E f \in Scanned[d.nodes[i].kind] : g \in TextFailures(d, i, f)
  <2> DEFINE texts(j) == UNION {TextFailures(d, j, f) : f \in Scanned[d.nodes[j].kind]}
  <2>1. CheckReferences(d) = UNION {texts(j) : j \in DOMAIN d.nodes}  BY TextByText
  <2> HIDE DEF texts
  <2>2. PICK j \in DOMAIN d.nodes : g \in texts(j)  BY <1>2, <2>1
  <2>3. \E f \in Scanned[d.nodes[j].kind] : g \in TextFailures(d, j, f)  BY <2>2 DEF texts
  <2>4. QED  BY <2>3
<1>4. PICK f \in Scanned[d.nodes[i].kind] : g \in TextFailures(d, i, f)  BY <1>3
<1> DEFINE n == d.nodes[i]
           scope == ScopeOf(d, Scopes(d), i, f)
           refs == {r \in ToSet(n.refs) : r.field = f}
<1>5. At(d, n.id) = i /\ NodeOf(d, n.id) = n  BY <1>1, AtItself
<1>6. ~\E r \in refs : r.form = "broken"
  <2>1. SUFFICES ASSUME \E r \in refs : r.form = "broken" PROVE FALSE
    OBVIOUS
  <2>2. g = Fail("reference", "syntax", n.id)  BY <1>4, <2>1 DEF TextFailures
  <2>3. g[2] = "syntax"  BY <2>2 DEF Fail
  <2>4. QED  BY <1>2, <2>3
<1>7. PICK r \in ToSet(n.refs) : r.field = f /\ g \in RefFailures(d, scope, n, r)
  BY <1>4, <1>5, <1>6 DEF TextFailures
<1>8. g[3] = n.id
  <2>1. \/ g = Fail("reference", "undeclared input", n.id)
        \/ g = Fail("reference", "not upstream", n.id)
        \/ g = Fail("type_flow", "no such field", n.id)
    BY <1>7 DEF RefFailures, When
  <2>2. \A a, b : Fail(a, b, n.id)[3] = n.id  BY DEF Fail
  <2>3. QED  BY <2>1, <2>2, Zenon
<1>9. ~Supplied(d, Flows(d), i, r)
  <2>1. CASE r.to = "input"
    <3>1. r.path \notin d.inputs  BY <1>7, <2>1 DEF RefFailures, When
    <3>2. QED  BY <2>1, <3>1 DEF Supplied
  <2>2. CASE r.to # "input"
    <3>1. r.to \notin scope.vars /\ r.to \notin scope.ids
      <4>1. SUFFICES ASSUME r.to \in scope.vars \/ r.to \in scope.ids PROVE FALSE
        OBVIOUS
      <4>2. r.to \notin scope.vars  BY <1>7, <2>2 DEF RefFailures
      <4>3. g = Fail("type_flow", "no such field", n.id)
        BY <1>7, <2>2, <4>1, <4>2 DEF RefFailures, When
      <4>4. g[2] = "no such field"  BY <4>3 DEF Fail
      <4>5. QED  BY <1>2, <4>4
    <3>2. QED  BY <1>1, <1>7, <2>2, <3>1, ReferenceExact
  <2>3. QED  BY <2>1, <2>2
<1>10. QED  BY <1>2, <1>5, <1>7, <1>8, <1>9 DEF Unsupplied, Flows

\* A document the validator accepts is well formed: its searches, with their memo, find
\* what the definitions say.
LEMMA AcceptedWellFormed ==
    ASSUME NEW d, IsDocument(d), IsNested(d), Validate(d) = {}
    PROVE  WellFormed(d)
<1>1. CheckGraph(d) = {} /\ CheckReferences(d) = {}  BY AcceptedMeans
<1>2. \E t \in Triggers(d) :
          /\ Triggers(d) = {t}
          /\ \A x \in TopIds(d) \ {d.nodes[t].id} : <<d.nodes[t].id, x>> \in Ways(Added(d))
  BY <1>1, TriggerLeads
<1>3. \A x : <<x, x>> \notin Ways(Added(d))  BY <1>1, SoundPairs
<1>4. \A e \in Added(d) : {e.from, e.to} \subseteq TopIds(d)  BY <1>1, SoundGraph
<1>5. \A i \in DOMAIN d.nodes : \A r \in ToSet(d.nodes[i].refs) :
          r.field \in Scanned[d.nodes[i].kind] /\ r.form # "escaped" => Supplied(d, Flows(d), i, r)
  BY <1>1, AcceptedSupplies
<1>6. QED  BY <1>2, <1>3, <1>4, <1>5 DEF WellFormed, Flows

-----------------------------------------------------------------------------
(* Where the nodes are. *)

\* A node that is not nested is at its id, another two steps further than what it is in.
PlaceOf(F, d, i) ==
    F[i] = IF d.nodes[i].in = 0 THEN <<d.nodes[i].id>>
           ELSE F[d.nodes[i].in] \o <<d.nodes[i].arm, d.nodes[i].id>>

Names(d) == {d.nodes[i].id : i \in DOMAIN d.nodes} \cup {d.nodes[i].arm : i \in DOMAIN d.nodes}

LEMMA PlaceIs ==
    ASSUME NEW d, IsDocument(d), IsNested(d)
    PROVE  /\ Place(d) \in [DOMAIN d.nodes -> Seq(Names(d))]
           /\ \A i \in DOMAIN d.nodes : PlaceOf(Place(d), d, i)
<1> DEFINE N == Len(d.nodes)
           T == Names(d)
           V == Seq(T)
           up == [i \in 1 .. N |-> d.nodes[i].in]
           base == [i \in 1 .. N |-> <<d.nodes[i].id>>]
           step == [i \in 1 .. N |-> [v \in V |-> v \o <<d.nodes[i].arm, d.nodes[i].id>>]]
           Is(F) == F = [i \in 1 .. N |->
                            LET n == d.nodes[i]
                            IN  IF n.in = 0 THEN <<n.id>> ELSE F[n.in] \o <<n.arm, n.id>>]
<1>1. N \in Nat /\ DOMAIN d.nodes = 1 .. N /\ \A i \in 1 .. N : d.nodes[i].in \in 0 .. (i - 1)
  BY Nesting
<1>0. \A i \in 1 .. N : d.nodes[i].id \in T /\ d.nodes[i].arm \in T  BY <1>1 DEF Names
<1> HIDE DEF N, T
<1>2. \A i \in 1 .. N : /\ up[i] \in 0 .. (i - 1) /\ base[i] \in V
                        /\ up[i] # 0 => \A v \in V : step[i][v] \in V
  <2> SUFFICES ASSUME NEW i \in 1 .. N
               PROVE  /\ up[i] \in 0 .. (i - 1) /\ base[i] \in V
                      /\ up[i] # 0 => \A v \in V : step[i][v] \in V
    OBVIOUS
  <2>1. up[i] \in 0 .. (i - 1)  BY <1>1
  <2>2. <<d.nodes[i].id>> \in V /\ <<d.nodes[i].arm, d.nodes[i].id>> \in V  BY <1>0
  <2>3. \A v \in V : v \o <<d.nodes[i].arm, d.nodes[i].id>> \in V
    BY <2>2, ConcatProperties
  <2>4. QED  BY <2>1, <2>2, <2>3
<1>3. PICK F \in [1 .. N -> V] : Climbs(F, N, up, base, step)
  <2> HIDE DEF up, base, step, V
  <2>1. QED  BY <1>1, <1>2, Climbing
<1>4. \A i \in 1 .. N : F[i] = IF d.nodes[i].in = 0 THEN <<d.nodes[i].id>>
                               ELSE F[d.nodes[i].in] \o <<d.nodes[i].arm, d.nodes[i].id>>
  <2> SUFFICES ASSUME NEW i \in 1 .. N
               PROVE  F[i] = IF d.nodes[i].in = 0 THEN <<d.nodes[i].id>>
                             ELSE F[d.nodes[i].in] \o <<d.nodes[i].arm, d.nodes[i].id>>
    OBVIOUS
  <2>1. F[i] = IF up[i] = 0 THEN base[i] ELSE step[i][F[up[i]]]  BY <1>3 DEF Climbs
  <2>2. CASE d.nodes[i].in = 0  BY <2>1, <2>2
  <2>3. CASE d.nodes[i].in # 0
    <3>1. d.nodes[i].in \in 1 .. N  BY <1>1, <2>3
    <3>2. F[d.nodes[i].in] \in V  BY <1>3, <3>1
    <3>3. QED
      <4> HIDE DEF V
      <4>1. QED  BY <2>1, <2>3, <3>2
  <2>4. QED  BY <2>2, <2>3
<1>5. Is(F)
  <2>1. F = [i \in 1 .. N |-> F[i]]  BY <1>3
  <2>2. QED  BY <1>4, <2>1
<1> DEFINE a == CHOOSE G : Is(G)
<1>6. Is(a)
  <2> HIDE DEF Is
  <2>1. QED  BY <1>5
<1>7. Place(d) = a  BY <1>1 DEF Place
<1> HIDE DEF a
<1>8. a = [i \in 1 .. N |-> a[i]] /\ \A i \in 1 .. N : PlaceOf(a, d, i)  BY <1>6 DEF PlaceOf
<1> DEFINE S == {m \in Nat : \A i \in 1 .. N : i <= m => a[i] \in V}
<1>9. 0 \in S  BY <1>1
<1>10. ASSUME NEW m \in S PROVE m + 1 \in S
  <2>1. m \in Nat /\ \A i \in 1 .. N : i <= m => a[i] \in V  OBVIOUS
  <2> SUFFICES ASSUME NEW i \in 1 .. N, i <= m + 1 PROVE a[i] \in V
    BY <2>1
  <2>2. CASE d.nodes[i].in = 0
    <3>1. a[i] = <<d.nodes[i].id>>  BY <1>8, <2>2 DEF PlaceOf
    <3>2. QED  BY <1>0, <3>1
  <2>3. CASE d.nodes[i].in # 0
    <3>0. d.nodes[i].in \in 0 .. (i - 1)  BY <1>1
    <3>1. d.nodes[i].in \in 1 .. N /\ d.nodes[i].in <= m  BY SMTT(30), <1>1, <2>1, <2>3, <3>0
    <3>2. a[d.nodes[i].in] \in V  BY <2>1, <3>1
    <3>3. a[i] = a[d.nodes[i].in] \o <<d.nodes[i].arm, d.nodes[i].id>>  BY <1>8, <2>3 DEF PlaceOf
    <3>4. <<d.nodes[i].arm, d.nodes[i].id>> \in V  BY <1>0
    <3>5. QED  BY <3>2, <3>3, <3>4, ConcatProperties
  <2>4. QED  BY <2>2, <2>3
<1>11. S = Nat
  <2>1. S \subseteq Nat  OBVIOUS
  <2> HIDE DEF S
  <2>2. QED  BY <1>9, <1>10, <2>1, Induction
<1>12. \A i \in 1 .. N : a[i] \in V
  <2> SUFFICES ASSUME NEW i \in 1 .. N PROVE a[i] \in V
    OBVIOUS
  <2>1. N \in S
    <3> HIDE DEF S
    <3>1. QED  BY <1>1, <1>11
  <2>2. i <= N  BY <1>1
  <2>3. QED  BY <2>1, <2>2
<1>13. a \in [1 .. N -> V]
  <2> HIDE DEF V
  <2>1. QED  BY <1>8, <1>12
<1>14. QED  BY <1>1, <1>7, <1>8, <1>13 DEF T

\* The place of a nested node: that of the node it is in, its arm and its id.
LEMMA PlaceInside ==
    ASSUME NEW d, IsDocument(d), IsNested(d), NEW i \in DOMAIN d.nodes, d.nodes[i].in # 0
    PROVE  LET p == Place(d)[i]
               c == Place(d)[d.nodes[i].in]
           IN  /\ d.nodes[i].in \in DOMAIN d.nodes /\ d.nodes[i].in < i
               /\ c \in Seq(Names(d)) /\ p \in Seq(Names(d))
               /\ Len(p) = Len(c) + 2 /\ SubSeq(p, 1, Len(c)) = c
               /\ p[Len(c) + 1] = d.nodes[i].arm /\ p[Len(c) + 2] = d.nodes[i].id
               /\ \A k \in 1 .. Len(c) : p[k] = c[k]
<1> DEFINE p == Place(d)[i]
           o == d.nodes[i].in
           c == Place(d)[o]
           t == <<d.nodes[i].arm, d.nodes[i].id>>
           T == Names(d)
<1>1. i \in Int /\ o \in DOMAIN d.nodes /\ o < i
  <2>1. o \in 0 .. (i - 1) /\ i \in 1 .. Len(d.nodes) /\ DOMAIN d.nodes = 1 .. Len(d.nodes)
        /\ Len(d.nodes) \in Nat
    BY Nesting
  <2>2. QED  BY <2>1
<1>2. c \in Seq(T) /\ p \in Seq(T) /\ p = c \o t  BY <1>1, PlaceIs DEF PlaceOf
<1>3. t \in Seq(T) /\ Len(t) = 2 /\ t[1] = d.nodes[i].arm /\ t[2] = d.nodes[i].id
  BY DEF Names
<1> HIDE DEF p, c, t, T, o
<1>4. Len(c) \in Nat /\ Len(p) = Len(c) + 2
  <2>1. c \in Seq(T) /\ t \in Seq(T)  BY <1>2, <1>3
  <2>2. Len(c) \in Nat /\ Len(c \o t) = Len(c) + Len(t)  BY <2>1
  <2>3. QED  BY <1>2, <1>3, <2>2
<1>5. \A k \in 1 .. Len(c) : p[k] = c[k]  BY <1>2, <1>3
<1>6. p[Len(c) + 1] = t[1] /\ p[Len(c) + 2] = t[2]  BY <1>2, <1>3, <1>4
<1>7. SubSeq(p, 1, Len(c)) = c
  <2>1. /\ SubSeq(p, 1, Len(c)) \in Seq(T) /\ Len(SubSeq(p, 1, Len(c))) = Len(c)
        /\ \A k \in 1 .. Len(c) : SubSeq(p, 1, Len(c))[k] = p[k]
    BY <1>2, <1>4, SubSeqProperties
  <2>2. QED  BY <1>2, <1>5, <2>1, SeqEqual
<1>8. QED  BY <1>1, <1>2, <1>3, <1>4, <1>5, <1>6, <1>7 DEF p, c, t, T, o

\* A place has as many arms as the node has containers.
LEMMA PlaceIsOdd ==
    ASSUME NEW d, IsDocument(d), IsNested(d)
    PROVE  \A i \in DOMAIN d.nodes : \E m \in Nat : Len(Place(d)[i]) = 2 * m + 1
<1> DEFINE Odd(i) == \E m \in Nat : Len(Place(d)[i]) = 2 * m + 1
           N == Len(d.nodes)
           S == {k \in Nat : \A i \in 1 .. N : i <= k => Odd(i)}
<1>1. N \in Nat /\ DOMAIN d.nodes = 1 .. N  BY Nesting
<1> HIDE DEF N
<1>2. 0 \in S  BY <1>1
<1>3. ASSUME NEW k \in S PROVE k + 1 \in S
  <2>1. k \in Nat /\ \A i \in 1 .. N : i <= k => Odd(i)  OBVIOUS
  <2> SUFFICES ASSUME NEW i \in 1 .. N, i <= k + 1 PROVE Odd(i)
    BY <2>1
  <2>2. CASE d.nodes[i].in = 0
    <3>1. Place(d)[i] = <<d.nodes[i].id>>  BY <1>1, <2>2, PlaceIs DEF PlaceOf
    <3>2. 0 \in Nat /\ Len(Place(d)[i]) = 2 * 0 + 1  BY <3>1
    <3>3. QED  BY <3>2
  <2>3. CASE d.nodes[i].in # 0
    <3>1. /\ d.nodes[i].in \in 1 .. N /\ d.nodes[i].in < i
          /\ Len(Place(d)[i]) = Len(Place(d)[d.nodes[i].in]) + 2
      BY <1>1, <2>3, PlaceInside
    <3>2. d.nodes[i].in <= k  BY <1>1, <2>1, <3>1
    <3>3. PICK m \in Nat : Len(Place(d)[d.nodes[i].in]) = 2 * m + 1  BY <2>1, <3>1, <3>2
    <3>4. m + 1 \in Nat /\ Len(Place(d)[i]) = 2 * (m + 1) + 1  BY <3>1, <3>3
    <3>5. QED  BY <3>4
  <2>4. QED  BY <2>2, <2>3
<1>4. S = Nat
  <2>1. S \subseteq Nat  OBVIOUS
  <2> HIDE DEF S
  <2>2. QED  BY <1>2, <1>3, <2>1, Induction
<1>5. ASSUME NEW i \in 1 .. N PROVE Odd(i)
  <2> HIDE DEF Odd
  <2>1. N \in S
    <3> HIDE DEF S
    <3>1. QED  BY <1>1, <1>4
  <2>2. i <= N  BY <1>1
  <2>3. QED  BY <2>1, <2>2
<1>6. QED  BY <1>1, <1>5

\* Of a document without two nodes of one id, the place tells the node.
LEMMA NodesByPlace ==
    ASSUME NEW d, IsDocument(d), IsNested(d), Unique(d)
    PROVE  /\ DOMAIN NodeMap(d) = {Place(d)[i] : i \in DOMAIN d.nodes}
           /\ \A i \in DOMAIN d.nodes : NodeMap(d)[Place(d)[i]] = i
<1> DEFINE place == Place(d)
<1>1. DOMAIN place = DOMAIN d.nodes /\ Range(place) = {place[i] : i \in DOMAIN d.nodes}
  BY PlaceIs DEF Range
<1>2. DOMAIN d.nodes = 1 .. Len(d.nodes) /\ Len(d.nodes) \in Nat  BY Nesting
<1>3. \A i \in DOMAIN d.nodes : Len(place[i]) \in Nat /\ place[i][Len(place[i])] = d.nodes[i].id
  <2> SUFFICES ASSUME NEW i \in DOMAIN d.nodes
               PROVE  Len(place[i]) \in Nat /\ place[i][Len(place[i])] = d.nodes[i].id
    OBVIOUS
  <2>1. CASE d.nodes[i].in = 0
    <3>1. place[i] = <<d.nodes[i].id>>  BY <2>1, PlaceIs DEF PlaceOf
    <3>2. QED  BY <3>1
  <2>2. CASE d.nodes[i].in # 0
    <3> DEFINE c == place[d.nodes[i].in]
    <3>1. /\ c \in Seq(Names(d)) /\ Len(place[i]) = Len(c) + 2
          /\ place[i][Len(c) + 2] = d.nodes[i].id
      BY <2>2, PlaceInside
    <3>2. QED  BY <3>1
  <2>3. QED  BY <2>1, <2>2
<1> HIDE DEF place
<1>4. \A i, j \in DOMAIN d.nodes : place[i] = place[j] => i = j  BY <1>3 DEF Unique
<1>5. NodeMap(d) = [p \in Range(place) |-> CHOOSE i \in DOMAIN place :
                       place[i] = p /\ \A j \in DOMAIN place : place[j] = p => j <= i]
  BY DEF NodeMap, place
<1>6. ASSUME NEW i \in DOMAIN d.nodes PROVE NodeMap(d)[place[i]] = i
  <2>1. NodeMap(d)[place[i]] = CHOOSE k \in DOMAIN place :
                       place[k] = place[i] /\ \A j \in DOMAIN place : place[j] = place[i] => j <= k
    BY <1>1, <1>5
  <2>2. i \in DOMAIN place /\ place[i] = place[i] /\ \A j \in DOMAIN place : place[j] = place[i] => j <= i
    BY <1>1, <1>2, <1>4
  <2>3. \A k \in DOMAIN place : place[k] = place[i] => k = i  BY <1>1, <1>4
  <2>4. QED  BY <2>1, <2>2, <2>3
<1>7. QED  BY <1>1, <1>5, <1>6 DEF place

-----------------------------------------------------------------------------
(* What a comparison comes to. *)

\* All containers of a place are in both documents, and of the type its arm asks for now.
Met(p, old, new, a) ==
    \A k \in 1 .. Len(p) : 2 * k < Len(p) =>
        LET c == SubSeq(p, 1, 2 * k - 1)
            arm == p[2 * k]
        IN  /\ c \in DOMAIN old \cap DOMAIN new
            /\ a.nodes[new[c]].kind = IF arm = "body" THEN "loop" ELSE "parallel"

LEMMA MetAtTop ==
    ASSUME NEW d, IsDocument(d), IsNested(d), NEW old, NEW new, NEW a,
           NEW i \in DOMAIN d.nodes, d.nodes[i].in = 0
    PROVE  Met(Place(d)[i], old, new, a)
<1>1. Place(d)[i] = <<d.nodes[i].id>>  BY PlaceIs DEF PlaceOf
<1>2. Len(Place(d)[i]) = 1  BY <1>1
<1>3. QED  BY <1>2 DEF Met

LEMMA MetInside ==
    ASSUME NEW d, IsDocument(d), IsNested(d), NEW old, NEW new, NEW a,
           NEW i \in DOMAIN d.nodes, d.nodes[i].in # 0,
           Met(Place(d)[d.nodes[i].in], old, new, a),
           Place(d)[d.nodes[i].in] \in DOMAIN old \cap DOMAIN new,
           a.nodes[new[Place(d)[d.nodes[i].in]]].kind =
               IF d.nodes[i].arm = "body" THEN "loop" ELSE "parallel"
    PROVE  Met(Place(d)[i], old, new, a)
<1> DEFINE p == Place(d)[i]
           q == Place(d)[d.nodes[i].in]
           T == Names(d)
<1>1. /\ q \in Seq(T) /\ p \in Seq(T) /\ Len(p) = Len(q) + 2 /\ SubSeq(p, 1, Len(q)) = q
      /\ p[Len(q) + 1] = d.nodes[i].arm /\ \A k \in 1 .. Len(q) : p[k] = q[k]
  BY PlaceInside
<1>2. PICK m \in Nat : Len(q) = 2 * m + 1
  <2>1. d.nodes[i].in \in DOMAIN d.nodes  BY PlaceInside
  <2>2. QED  BY <2>1, PlaceIsOdd
<1>3. /\ Met(q, old, new, a) /\ q \in DOMAIN old \cap DOMAIN new
      /\ a.nodes[new[q]].kind = IF d.nodes[i].arm = "body" THEN "loop" ELSE "parallel"
  OBVIOUS
<1> HIDE DEF p, q, T
<1>4. SUFFICES ASSUME NEW k \in 1 .. Len(p), 2 * k < Len(p)
               PROVE  /\ SubSeq(p, 1, 2 * k - 1) \in DOMAIN old \cap DOMAIN new
                      /\ a.nodes[new[SubSeq(p, 1, 2 * k - 1)]].kind =
                             IF p[2 * k] = "body" THEN "loop" ELSE "parallel"
  BY DEF Met, p
<1>5. k \in Nat /\ Len(q) \in Nat /\ Len(p) \in Nat  BY <1>1
<1>6. CASE k = m + 1
  <2>1. 2 * k - 1 = Len(q) /\ 2 * k = Len(q) + 1  BY <1>2, <1>6
  <2>2. QED  BY <1>1, <1>3, <2>1
<1>7. CASE k # m + 1
  <2>1. k <= m /\ 2 * k < Len(q) /\ k \in 1 .. Len(q) /\ 2 * k \in 1 .. Len(q)
        /\ 2 * k - 1 \in Nat /\ 2 * k - 1 <= Len(q)
    BY <1>1, <1>2, <1>4, <1>5, <1>7
  <2>2. p[2 * k] = q[2 * k]  BY <1>1, <2>1
  <2>3. SubSeq(p, 1, 2 * k - 1) = SubSeq(q, 1, 2 * k - 1)
    <3> DEFINE n == 2 * k - 1
    <3>1. n \in Int /\ 1 \in Int /\ n <= Len(q) /\ n >= 1  BY <2>1
    <3> HIDE DEF n
    <3>2. \A j \in 1 .. n : p[j] = q[j] /\ p[j] \in T /\ q[j] \in T  BY SMTT(30), <1>1, <1>5, <3>1
    <3>3. /\ SubSeq(p, 1, n) \in Seq(T) /\ Len(SubSeq(p, 1, n)) = n
          /\ \A j \in 1 .. n : SubSeq(p, 1, n)[j] = p[j]
      BY <3>1, <3>2, SubSeqProperties
    <3>4. /\ SubSeq(q, 1, n) \in Seq(T) /\ Len(SubSeq(q, 1, n)) = n
          /\ \A j \in 1 .. n : SubSeq(q, 1, n)[j] = q[j]
      BY <3>1, <3>2, SubSeqProperties
    <3>5. SubSeq(p, 1, n) = SubSeq(q, 1, n)  BY <3>2, <3>3, <3>4, SeqEqual
    <3>6. QED  BY <3>5 DEF n
  <2>4. QED  BY <1>3, <2>1, <2>2, <2>3 DEF Met
<1>8. QED  BY <1>6, <1>7

\* The places of a document are compared one after the other, as long as their containers
\* are in the other document too, with the type they have in this one.
LEMMA ComparedThrough ==
    ASSUME NEW d, IsDocument(d), IsNested(d), NEW old, NEW new, NEW a, NEW P \in SUBSET DOMAIN d.nodes,
           \A i \in P : d.nodes[i].in # 0 =>
               /\ d.nodes[i].in \in P
               /\ Met(Place(d)[d.nodes[i].in], old, new, a) =>
                      /\ Place(d)[d.nodes[i].in] \in DOMAIN old \cap DOMAIN new
                      /\ a.nodes[new[Place(d)[d.nodes[i].in]]].kind =
                             IF d.nodes[i].arm = "body" THEN "loop" ELSE "parallel"
    PROVE  \A i \in P : Met(Place(d)[i], old, new, a)
<1> DEFINE N == Len(d.nodes)
           S == {k \in Nat : \A i \in P : i <= k => Met(Place(d)[i], old, new, a)}
<1>1. N \in Nat /\ DOMAIN d.nodes = 1 .. N /\ P \subseteq 1 .. N  BY Nesting
<1> HIDE DEF N
<1>2. 0 \in S  BY <1>1
<1>3. ASSUME NEW k \in S PROVE k + 1 \in S
  <2>1. k \in Nat /\ \A i \in P : i <= k => Met(Place(d)[i], old, new, a)  OBVIOUS
  <2> SUFFICES ASSUME NEW i \in P, i <= k + 1 PROVE Met(Place(d)[i], old, new, a)
    BY <2>1
  <2>2. i \in DOMAIN d.nodes /\ i \in Nat  BY <1>1
  <2>3. CASE d.nodes[i].in = 0  BY <2>2, <2>3, MetAtTop
  <2>4. CASE d.nodes[i].in # 0
    <3> DEFINE o == d.nodes[i].in
    <3>1. o \in DOMAIN d.nodes /\ o < i /\ o \in P  BY <2>2, <2>4, PlaceInside
    <3>2. o <= k  BY <1>1, <2>1, <2>2, <3>1
    <3>3. Met(Place(d)[o], old, new, a)  BY <2>1, <3>1, <3>2
    <3>4. QED  BY <2>2, <2>4, <3>3, MetInside
  <2>5. QED  BY <2>3, <2>4
<1>4. S = Nat
  <2>1. S \subseteq Nat  OBVIOUS
  <2> HIDE DEF S
  <2>2. QED  BY <1>2, <1>3, <2>1, Induction
<1>5. ASSUME NEW i \in P PROVE Met(Place(d)[i], old, new, a)
  <2>1. N \in S
    <3> HIDE DEF S
    <3>1. QED  BY <1>1, <1>4
  <2>2. i <= N  BY <1>1
  <2>3. QED  BY <2>1, <2>2
<1>6. QED  BY <1>5

-----------------------------------------------------------------------------
(* The fields of a node, and what of them differs. *)

LEMMA SameFunction ==
    ASSUME NEW f, f = [x \in DOMAIN f |-> f[x]], NEW g, g = [x \in DOMAIN g |-> g[x]]
    PROVE  Differing(f, g) = {} <=> f = g
<1>1. ASSUME Differing(f, g) = {} PROVE f = g
  <2>1. DOMAIN f = DOMAIN g /\ \A x \in DOMAIN f : f[x] = g[x]  BY <1>1 DEF Differing
  <2>2. QED  BY <2>1
<1>2. ASSUME f = g PROVE Differing(f, g) = {}
  <2>1. QED  BY <1>2 DEF Differing
<1>3. QED  BY <1>1, <1>2

\* h has the settings of f, and those of g that f does not have.
IsOver(h, f, g) ==
    /\ DOMAIN h = DOMAIN f \cup DOMAIN g
    /\ \A x \in DOMAIN f : h[x] = f[x]
    /\ \A x \in DOMAIN g \ DOMAIN f : h[x] = g[x]
    /\ h = [x \in DOMAIN h |-> h[x]]

LEMMA OverIs ==
    ASSUME NEW f, NEW g
    PROVE  IsOver(Over(f, g), f, g)
BY DEF Over, IsOver

\* The fields that say what a node is.
LEMMA StructureIs ==
    ASSUME NEW n
    PROVE  /\ "type" \in DOMAIN Structure(n) /\ Structure(n).type = n.kind
           /\ n.kind = "http" =>
                  "credential" \in DOMAIN Structure(n) /\ Structure(n).credential = n.uses
           /\ n.kind = "condition" =>
                  /\ "branches" \in DOMAIN Structure(n)
                  /\ Structure(n).branches = <<n.next, n.rules>>
<1> DEFINE own == [type |-> n.kind, model |-> n.model, as |-> n.as, default |-> n.default,
                   fallback_edge |-> n.fallback, output_schema |-> n.fields]
           branches == IF n.kind = "condition" THEN [branches |-> <<n.next, n.rules>>] ELSE Unset
           handle == IF n.kind \in DOMAIN Handle THEN [f \in {Handle[n.kind]} |-> n.uses] ELSE Unset
           texts == [f \in {r.field : r \in ToSet(n.refs)} |-> RefsIn(n, f)]
           marked == [f \in {MarkField[m] : m \in n.marks \cap DOMAIN MarkField}
                        |-> {m \in n.marks \cap DOMAIN MarkField : MarkField[m] = f}]
           rest == Over(texts, marked)
           more == Over(handle, rest)
           all == Over(branches, more)
<1>1. Structure(n) = Over(own, all)  BY DEF Structure
<1>2. DOMAIN own = {"type", "model", "as", "default", "fallback_edge", "output_schema"} /\ own.type = n.kind
  OBVIOUS
<1>3. DOMAIN branches = IF n.kind = "condition" THEN {"branches"} ELSE {}
  BY DEF Unset
<1>4. n.kind = "condition" => branches.branches = <<n.next, n.rules>>
  OBVIOUS
<1>5. n.kind = "http" => DOMAIN handle = {"credential"} /\ handle["credential"] = n.uses
  <2> SUFFICES ASSUME n.kind = "http" PROVE DOMAIN handle = {"credential"} /\ handle["credential"] = n.uses
    OBVIOUS
  <2>1. "http" \in DOMAIN Handle /\ Handle["http"] = "credential"  BY DEF Handle
  <2>2. handle = [f \in {"credential"} |-> n.uses]  BY <2>1
  <2>3. QED  BY <2>2
<1> HIDE DEF own, branches, handle, rest
<1>6. "type" \in DOMAIN own /\ DOMAIN own \cap {"credential", "branches"} = {}  BY <1>2
<1>7. n.kind = "condition" => "branches" \in DOMAIN branches  BY <1>3
<1>8. n.kind = "http" => "credential" \notin DOMAIN branches /\ "credential" \in DOMAIN handle
  BY <1>3, <1>5
<1>9. IsOver(more, handle, rest)  BY OverIs
<1> HIDE DEF more
<1>10. IsOver(all, branches, more)  BY OverIs
<1> HIDE DEF all
<1>11. IsOver(Structure(n), own, all)  BY <1>1, OverIs
<1>12. "type" \in DOMAIN Structure(n) /\ Structure(n).type = n.kind
  BY <1>2, <1>6, <1>11 DEF IsOver
<1>13. n.kind = "condition" => "branches" \in DOMAIN all /\ all["branches"] = branches["branches"]
  BY <1>7, <1>10 DEF IsOver
<1>14. n.kind = "http" => "credential" \in DOMAIN more /\ more["credential"] = handle["credential"]
  BY <1>8, <1>9 DEF IsOver
<1>15. n.kind = "http" => "credential" \in DOMAIN all /\ all["credential"] = more["credential"]
  BY <1>8, <1>14, <1>10 DEF IsOver
<1>16. \A x \in DOMAIN all \ DOMAIN own : x \in DOMAIN Structure(n) /\ Structure(n)[x] = all[x]
  BY <1>11 DEF IsOver
<1>17. QED  BY <1>4, <1>5, <1>6, <1>12, <1>13, <1>14, <1>15, <1>16

\* What the settings do not name stands in the fields as it is.
NoNames(n) == DOMAIN n.set \cap {"type", "branches", "credential"} = {}

LEMMA FieldsAre ==
    ASSUME NEW n
    PROVE  /\ Fields(n) = [x \in DOMAIN Fields(n) |-> Fields(n)[x]]
           /\ DOMAIN Fields(n) = DOMAIN n.set \cup DOMAIN Structure(n)
           /\ \A x \in DOMAIN n.set : Fields(n)[x] = n.set[x]
           /\ \A x \in DOMAIN Structure(n) \ DOMAIN n.set : Fields(n)[x] = Structure(n)[x]
           /\ NoNames(n) =>
                  /\ "type" \in DOMAIN Fields(n) /\ Fields(n).type = n.kind
                  /\ n.kind = "http" => "credential" \in DOMAIN Fields(n) /\ Fields(n).credential = n.uses
                  /\ n.kind = "condition" =>
                         /\ "branches" \in DOMAIN Fields(n)
                         /\ Fields(n).branches = <<n.next, n.rules>>
<1>1. Fields(n) = Over(n.set, Structure(n))  BY DEF Fields
<1>2. /\ Fields(n) = [x \in DOMAIN Fields(n) |-> Fields(n)[x]]
      /\ DOMAIN Fields(n) = DOMAIN n.set \cup DOMAIN Structure(n)
      /\ \A x \in DOMAIN n.set : Fields(n)[x] = n.set[x]
      /\ \A x \in DOMAIN Structure(n) \ DOMAIN n.set : Fields(n)[x] = Structure(n)[x]
  <2>1. IsOver(Fields(n), n.set, Structure(n))  BY <1>1, OverIs
  <2>2. QED  BY <2>1 DEF IsOver
<1>3. ASSUME NoNames(n)
      PROVE  /\ "type" \in DOMAIN Fields(n) /\ Fields(n).type = n.kind
             /\ n.kind = "http" => "credential" \in DOMAIN Fields(n) /\ Fields(n).credential = n.uses
             /\ n.kind = "condition" =>
                    /\ "branches" \in DOMAIN Fields(n)
                    /\ Fields(n).branches = <<n.next, n.rules>>
  <2>1. {"type", "branches", "credential"} \cap DOMAIN n.set = {}  BY <1>3 DEF NoNames
  <2>2. QED  BY <1>2, <2>1, StructureIs
<1>4. QED  BY <1>2, <1>3

\* A node compared with one of its type is compared by its fields.
LEMMA ViewIs ==
    ASSUME NEW n, NEW type
    PROVE  /\ n.kind = type => ConfigView(n, type) = Fields(n)
           /\ ConfigView(n, type) = [x \in DOMAIN ConfigView(n, type) |-> ConfigView(n, type)[x]]
           /\ \A x \in DOMAIN Fields(n) :
                  x \in DOMAIN ConfigView(n, type) /\ ConfigView(n, type)[x] = Fields(n)[x]
<1> DEFINE list == IF n.kind \in DOMAIN Lists /\ n.kind # type
                   THEN [l \in {Lists[n.kind]} |-> "nodes"] ELSE Unset
<1>1. ConfigView(n, type) = Over(Fields(n), list)  BY DEF ConfigView
<1>2. n.kind = type => DOMAIN list = {}  BY DEF Unset
<1> HIDE DEF list
<1>3. /\ DOMAIN ConfigView(n, type) = DOMAIN Fields(n) \cup DOMAIN list
      /\ ConfigView(n, type) = [x \in DOMAIN ConfigView(n, type) |-> ConfigView(n, type)[x]]
      /\ \A x \in DOMAIN Fields(n) :
             x \in DOMAIN ConfigView(n, type) /\ ConfigView(n, type)[x] = Fields(n)[x]
  <2>1. IsOver(ConfigView(n, type), Fields(n), list)  BY <1>1, OverIs
  <2>2. QED  BY <2>1 DEF IsOver
<1>4. ASSUME n.kind = type PROVE ConfigView(n, type) = Fields(n)
  <2>1. DOMAIN ConfigView(n, type) = DOMAIN Fields(n)  BY <1>2, <1>3, <1>4
  <2>2. Fields(n) = [x \in DOMAIN Fields(n) |-> Fields(n)[x]]  BY FieldsAre
  <2> DEFINE f == ConfigView(n, type)
             g == Fields(n)
  <2>3. /\ f = [x \in DOMAIN f |-> f[x]] /\ g = [x \in DOMAIN g |-> g[x]]
        /\ DOMAIN f = DOMAIN g /\ \A x \in DOMAIN g : f[x] = g[x]
    BY <1>3, <2>1, <2>2
  <2> HIDE DEF f, g
  <2>4. f = g  BY <2>3
  <2>5. QED  BY <2>4 DEF f, g
<1>5. QED  BY <1>3, <1>4

-----------------------------------------------------------------------------
(* The canonical form of a document. *)

\* A document of the models, without two nodes of one id.
Good(d) == IsDocument(d) /\ IsNested(d) /\ IsTyped(d) /\ Unique(d)

\* Two documents whose nodes are at the same places, in the same order.
Aligned(d, f) ==
    /\ DOMAIN f.nodes = DOMAIN d.nodes
    /\ \A i \in DOMAIN d.nodes :
           /\ f.nodes[i].id = d.nodes[i].id /\ f.nodes[i].in = d.nodes[i].in
           /\ f.nodes[i].arm = d.nodes[i].arm

LEMMA ListReplaced ==
    ASSUME NEW s, s \in Seq(ToSet(s)), NEW f, DOMAIN f = DOMAIN s, f = [i \in DOMAIN s |-> f[i]]
    PROVE  f \in Seq(ToSet(f)) /\ \A n \in ToSet(f) : \E i \in DOMAIN s : n = f[i]
<1>1. DOMAIN s = 1 .. Len(s) /\ Len(s) \in Nat  OBVIOUS
<1>2. \A i \in 1 .. Len(s) : f[i] \in ToSet(f)  BY <1>1 DEF ToSet
<1>3. f \in Seq(ToSet(f))
  <2> DEFINE T == ToSet(f)
  <2>1. \A i \in 1 .. Len(s) : f[i] \in T  BY <1>2
  <2> HIDE DEF T
  <2>2. f = [i \in 1 .. Len(s) |-> f[i]]  BY <1>1, Zenon
  <2>3. [i \in 1 .. Len(s) |-> f[i]] \in Seq(T)  BY <1>1, <2>1
  <2>4. f \in Seq(T)  BY <2>2, <2>3, Zenon
  <2>5. QED  BY <2>4 DEF T
<1>4. QED  BY <1>3 DEF ToSet

LEMMA SamePlaces ==
    ASSUME NEW d, IsDocument(d), IsNested(d), NEW f, IsDocument(f), IsNested(f), Aligned(d, f)
    PROVE  Place(f) = Place(d)
<1> DEFINE N == Len(d.nodes)
           S == {k \in Nat : \A i \in 1 .. N : i <= k => Place(f)[i] = Place(d)[i]}
<1>1. N \in Nat /\ DOMAIN d.nodes = 1 .. N /\ DOMAIN f.nodes = 1 .. N  BY Nesting DEF Aligned
<1> HIDE DEF N
<1>2. 0 \in S  BY <1>1
<1>3. ASSUME NEW k \in S PROVE k + 1 \in S
  <2>1. k \in Nat /\ \A i \in 1 .. N : i <= k => Place(f)[i] = Place(d)[i]  OBVIOUS
  <2> SUFFICES ASSUME NEW i \in 1 .. N, i <= k + 1 PROVE Place(f)[i] = Place(d)[i]
    BY <2>1
  <2>2. /\ d.nodes[i].in = f.nodes[i].in /\ d.nodes[i].arm = f.nodes[i].arm
        /\ d.nodes[i].id = f.nodes[i].id
    BY <1>1 DEF Aligned
  <2>3. PlaceOf(Place(d), d, i) /\ PlaceOf(Place(f), f, i)  BY <1>1, PlaceIs
  <2>4. CASE d.nodes[i].in = 0  BY <2>2, <2>3, <2>4 DEF PlaceOf
  <2>5. CASE d.nodes[i].in # 0
    <3>1. d.nodes[i].in \in 1 .. N /\ d.nodes[i].in < i  BY <1>1, <2>5, PlaceInside
    <3>2. d.nodes[i].in <= k  BY <1>1, <2>1, <3>1
    <3>3. Place(f)[d.nodes[i].in] = Place(d)[d.nodes[i].in]  BY <2>1, <3>1, <3>2
    <3>4. QED  BY <2>2, <2>3, <2>5, <3>3 DEF PlaceOf
  <2>6. QED  BY <2>4, <2>5
<1>4. S = Nat
  <2>1. S \subseteq Nat  OBVIOUS
  <2> HIDE DEF S
  <2>2. QED  BY <1>2, <1>3, <2>1, Induction
<1>5. ASSUME NEW i \in 1 .. N PROVE Place(f)[i] = Place(d)[i]
  <2>1. N \in S
    <3> HIDE DEF S
    <3>1. QED  BY <1>1, <1>4
  <2>2. i <= N  BY <1>1
  <2>3. QED  BY <2>1, <2>2
<1>6. Place(f) \in [1 .. N -> Seq(Names(f))] /\ Place(d) \in [1 .. N -> Seq(Names(d))]
  BY <1>1, PlaceIs
<1> DEFINE p == Place(f)
           q == Place(d)
<1>7. p = [i \in 1 .. N |-> p[i]] /\ q = [i \in 1 .. N |-> q[i]] /\ \A i \in 1 .. N : p[i] = q[i]
  BY <1>5, <1>6
<1> HIDE DEF p, q
<1>8. p = q  BY <1>7
<1>9. QED  BY <1>8 DEF p, q

\* What the canonical form leaves of a document: all but some settings.
LEMMA CanonicalKeeps ==
    ASSUME NEW d, IsDocument(d), IsNested(d), IsTyped(d)
    PROVE  LET m == Canonical(d)
           IN  /\ IsDocument(m) /\ IsNested(m) /\ IsTyped(m) /\ Aligned(d, m)
               /\ Unique(d) => Unique(m)
               /\ Place(m) = Place(d) /\ m.edges = d.edges /\ Governance(m) = Governance(d)
               /\ m.version = d.version
               /\ \A i \in DOMAIN d.nodes :
                      LET n == d.nodes[i]
                          o == m.nodes[i]
                      IN  /\ o.kind = n.kind /\ o.uses = n.uses /\ o.next = n.next
                          /\ o.rules = n.rules /\ o.marks = n.marks /\ o.refs = n.refs
                          /\ DOMAIN n.set \ {"top_k"} \subseteq DOMAIN o.set
                          /\ DOMAIN o.set \subseteq DOMAIN n.set
                          /\ \A x \in DOMAIN o.set : o.set[x] = n.set[x]
<1> DEFINE m == Canonical(d)
           short(i) == LET default == Defaults(d.nodes[i].kind)
                           set == d.nodes[i].set
                       IN  Restrict(set, {x \in DOMAIN set : ~(x \in DOMAIN default /\ set[x] = default[x])})
           f == [i \in DOMAIN d.nodes |-> Stripped(d.nodes[i])]
<1>1. m = [d EXCEPT !.nodes = f]  BY DEF Canonical
<1>2. DOMAIN d = DOMAIN Document(<<>>, <<>>)  BY DEF IsDocument
<1>3. {"nodes", "edges", "policy", "version"} \subseteq DOMAIN d  BY <1>2 DEF Document
<1>4. \A i \in DOMAIN d.nodes : DOMAIN d.nodes[i] = DOMAIN Bare(None, None)
  BY DEF IsDocument, ToSet
<1>5. \A i \in DOMAIN d.nodes :
          {"id", "in", "arm", "kind", "uses", "next", "rules", "marks", "refs", "set"} \subseteq DOMAIN d.nodes[i]
  BY <1>4 DEF Bare
<1>6. ASSUME NEW i \in DOMAIN d.nodes
      PROVE  /\ DOMAIN short(i) \subseteq DOMAIN d.nodes[i].set
             /\ DOMAIN d.nodes[i].set \ {"top_k"} \subseteq DOMAIN short(i)
             /\ \A x \in DOMAIN short(i) : short(i)[x] = d.nodes[i].set[x]
  <2>1. DOMAIN Defaults(d.nodes[i].kind) \subseteq {"top_k"}  BY DEF Defaults, Unset
  <2>2. QED  BY <2>1 DEF Restrict
<1>7. \A i \in DOMAIN d.nodes : Stripped(d.nodes[i]) = [d.nodes[i] EXCEPT !.set = short(i)]
  BY DEF Stripped
<1> HIDE DEF short
<1>8. \A i \in DOMAIN d.nodes :
          /\ DOMAIN f[i] = DOMAIN d.nodes[i] /\ f[i].set = short(i)
          /\ f[i].id = d.nodes[i].id /\ f[i].in = d.nodes[i].in /\ f[i].arm = d.nodes[i].arm
          /\ f[i].kind = d.nodes[i].kind /\ f[i].uses = d.nodes[i].uses /\ f[i].next = d.nodes[i].next
          /\ f[i].rules = d.nodes[i].rules /\ f[i].marks = d.nodes[i].marks /\ f[i].refs = d.nodes[i].refs
  BY <1>5, <1>7
<1>9. f \in Seq(ToSet(f)) /\ \A n \in ToSet(f) : \E i \in DOMAIN d.nodes : n = f[i]
  <2>1. d.nodes \in Seq(ToSet(d.nodes))  BY DEF IsDocument
  <2>2. DOMAIN f = DOMAIN d.nodes /\ f = [i \in DOMAIN d.nodes |-> f[i]]  OBVIOUS
  <2> HIDE DEF f
  <2>3. QED  BY <2>1, <2>2, ListReplaced
<1>10. DOMAIN f = DOMAIN d.nodes  OBVIOUS
<1> HIDE DEF f
<1>11. m.nodes = f /\ m.edges = d.edges /\ m.policy = d.policy /\ m.version = d.version /\ DOMAIN m = DOMAIN d
  BY <1>1, <1>3
<1>12. Governance(m) = Governance(d)
  <2>1. {"metadata", "pinned", "tools", "datasets", "credentials", "policy", "inputs", "outputs"} \subseteq DOMAIN d
    BY <1>2 DEF Document
  <2>2. /\ m.metadata = d.metadata /\ m.pinned = d.pinned /\ m.tools = d.tools /\ m.datasets = d.datasets
        /\ m.credentials = d.credentials /\ m.policy = d.policy /\ m.inputs = d.inputs
        /\ m.outputs = d.outputs
    BY <1>1, <2>1
  <2> HIDE DEF m
  <2>3. QED  BY <2>2 DEF Governance
<1> HIDE DEF m
<1>13. IsDocument(m)
  <2>1. d.edges \in Seq(ToSet(d.edges))  BY DEF IsDocument
  <2>2. \A n \in ToSet(f) : DOMAIN n = DOMAIN Bare(None, None)  BY <1>4, <1>8, <1>9
  <2>3. QED  BY <1>2, <1>9, <1>11, <2>1, <2>2 DEF IsDocument
<1>14. IsNested(m)  BY <1>8, <1>10, <1>11 DEF IsNested
<1>15. IsTyped(m)
  <2>1. \A e \in ToSet(m.edges) : e = [from |-> e.from, to |-> e.to, data |-> e.data, when |-> e.when]
    BY <1>11 DEF IsTyped
  <2>2. /\ m.policy = [name \in DOMAIN m.policy |-> m.policy[name]]
        /\ "agent_budget" \in DOMAIN m.policy => m.policy.agent_budget \in Int
    BY <1>11 DEF IsTyped
  <2>3. ASSUME NEW i \in DOMAIN m.nodes
        PROVE  LET n == m.nodes[i] IN
               /\ DOMAIN n.set \cap {"type", "branches", "credential"} = {}
               /\ "budget" \in DOMAIN n.set => n.set.budget \in Int
               /\ n.in # 0 => m.nodes[n.in].kind = IF n.arm = "body" THEN "loop" ELSE "parallel"
    <3>1. i \in DOMAIN d.nodes /\ m.nodes[i] = f[i]  BY <1>10, <1>11
    <3> DEFINE n == d.nodes[i]
    <3>2. /\ DOMAIN n.set \cap {"type", "branches", "credential"} = {}
          /\ "budget" \in DOMAIN n.set => n.set.budget \in Int
          /\ n.in # 0 => d.nodes[n.in].kind = IF n.arm = "body" THEN "loop" ELSE "parallel"
      BY <3>1 DEF IsTyped
    <3>3. n.in # 0 => n.in \in DOMAIN d.nodes  BY <3>1, PlaceInside
    <3>4. f[i].set = short(i) /\ f[i].in = n.in /\ f[i].arm = n.arm  BY <1>8, <3>1
    <3>5. "budget" \in DOMAIN short(i) => short(i)["budget"] \in Int  BY <1>6, <3>1, <3>2
    <3>6. DOMAIN short(i) \cap {"type", "branches", "credential"} = {}  BY <1>6, <3>1, <3>2
    <3>7. n.in # 0 => m.nodes[n.in].kind = d.nodes[n.in].kind  BY <1>8, <1>11, <3>3
    <3> HIDE DEF n
    <3>8. QED  BY <3>1, <3>2, <3>4, <3>5, <3>6, <3>7
  <2>4. QED  BY <2>1, <2>2, <2>3 DEF IsTyped
<1>16. Aligned(d, m)  BY <1>8, <1>10, <1>11 DEF Aligned
<1>17. Unique(d) => Unique(m)  BY <1>16 DEF Aligned, Unique
<1>18. Place(m) = Place(d)  BY <1>13, <1>14, <1>16, SamePlaces
<1>19. \A i \in DOMAIN d.nodes :
           /\ m.nodes[i].kind = d.nodes[i].kind /\ m.nodes[i].uses = d.nodes[i].uses
           /\ m.nodes[i].next = d.nodes[i].next /\ m.nodes[i].rules = d.nodes[i].rules
           /\ m.nodes[i].marks = d.nodes[i].marks
           /\ m.nodes[i].refs = d.nodes[i].refs /\ m.nodes[i].set = short(i)
  BY <1>8, <1>11
<1>20. QED  BY <1>6, <1>11, <1>12, <1>13, <1>14, <1>15, <1>16, <1>17, <1>18, <1>19 DEF m

-----------------------------------------------------------------------------
(* When the list of changes is empty. *)

\* Two nodes have no difference, by the type of the second, when they have the same fields.
LEMMA NoDifference ==
    ASSUME NEW m, NoNames(m), NEW n, NoNames(n)
    PROVE  /\ Differing(ConfigView(m, n.kind), ConfigView(n, n.kind)) = {} <=> Fields(m) = Fields(n)
           /\ Fields(m) = Fields(n) => m.kind = n.kind
           /\ m.kind # n.kind => "type" \in Differing(ConfigView(m, n.kind), ConfigView(n, n.kind))
<1> DEFINE f == ConfigView(m, n.kind)
           g == ConfigView(n, n.kind)
<1>1. f = [x \in DOMAIN f |-> f[x]] /\ g = [x \in DOMAIN g |-> g[x]]  BY ViewIs
<1>2. /\ "type" \in DOMAIN f /\ f["type"] = m.kind /\ "type" \in DOMAIN g /\ g["type"] = n.kind
      /\ "type" \in DOMAIN Fields(m) /\ Fields(m)["type"] = m.kind
      /\ "type" \in DOMAIN Fields(n) /\ Fields(n)["type"] = n.kind
  <2>1. /\ "type" \in DOMAIN Fields(m) /\ Fields(m)["type"] = m.kind
        /\ "type" \in DOMAIN Fields(n) /\ Fields(n)["type"] = n.kind
    BY FieldsAre
  <2>2. QED  BY <2>1, ViewIs
<1>3. g = Fields(n) /\ (m.kind = n.kind => f = Fields(m))  BY ViewIs
<1> HIDE DEF f, g
<1>4. Differing(f, g) = {} <=> f = g  BY <1>1, SameFunction
<1>5. m.kind # n.kind => "type" \in Differing(f, g)  BY <1>2 DEF Differing
<1>6. Fields(m) = Fields(n) => m.kind = n.kind  BY <1>2
<1>7. QED  BY <1>3, <1>4, <1>5, <1>6 DEF f, g

LEMMA NodeChangesAre ==
    ASSUME NEW b, NEW a
    PROVE  LET old == NodeMap(b)
               new == NodeMap(a)
               compared == Compared(old, new, b, a)
           IN  \A c : c \in NodeChanges(b, a) <=>
                   \/ \E p \in compared \ DOMAIN new : c = Change("node", "removed", p, {}, Unclassified)
                   \/ \E p \in compared \ DOMAIN old : c = Change("node", "added", p, {}, Unclassified)
                   \/ \E p \in compared \cap DOMAIN old \cap DOMAIN new : c \in ConfigChange(b, a, old, new, p)
BY DEF NodeChanges

LEMMA SettingsHaveNames ==
    ASSUME NEW d, IsTyped(d), NEW i \in DOMAIN d.nodes
    PROVE  NoNames(d.nodes[i])
BY DEF IsTyped, NoNames

\* Of two sequences one is the beginning of the other when it agrees with it as far as it goes.
LEMMA PrefixIs ==
    ASSUME NEW T, NEW s \in Seq(T), NEW t \in Seq(T)
    PROVE  IsPrefix(s, t) <=> Len(s) <= Len(t) /\ \A k \in 1 .. Len(s) : s[k] = t[k]
<1> DEFINE n == Len(s)
           u == SubSeq(s, 1, n)
           v == SubSeq(t, 1, n)
<1>1. n \in Nat /\ n \in Int /\ 1 \in Int /\ Len(t) \in Nat  OBVIOUS
<1>2. IsPrefix(s, t) <=> n <= Len(t) /\ u = v  BY DEF IsPrefix
<1>3. SUFFICES ASSUME n <= Len(t) PROVE u = v <=> \A k \in 1 .. n : s[k] = t[k]
  BY <1>2
<1>4. \A k \in 1 .. n : s[k] \in T /\ t[k] \in T  BY <1>1, <1>3
<1> HIDE DEF n
<1>5. u \in Seq(T) /\ Len(u) = n /\ \A k \in 1 .. n : u[k] = s[k]
  BY <1>1, <1>4, SubSeqProperties
<1>6. v \in Seq(T) /\ Len(v) = n /\ \A k \in 1 .. n : v[k] = t[k]
  BY <1>1, <1>4, SubSeqProperties
<1> HIDE DEF u, v
<1>7. (\A k \in 1 .. n : u[k] = v[k]) => u = v  BY <1>5, <1>6, SeqEqual
<1>8. QED  BY <1>5, <1>6, <1>7

LEMMA PrefixOfItself ==
    ASSUME NEW T, NEW s \in Seq(T)
    PROVE  IsPrefix(s, s)
BY PrefixIs

\* A node whose containers, as far as they are compared, are there in both documents and of
\* one type is compared itself.
LEMMA ComparedBelow ==
    ASSUME NEW d, IsDocument(d), IsNested(d), IsTyped(d), NEW old, NEW new, NEW a,
           NEW i \in DOMAIN d.nodes,
           \A k \in DOMAIN d.nodes : LET q == Place(d)[k] IN
               IsPrefix(q, Place(d)[i]) /\ Met(q, old, new, a) =>
                   q \in DOMAIN old \cap DOMAIN new /\ a.nodes[new[q]].kind = d.nodes[k].kind
    PROVE  Met(Place(d)[i], old, new, a)
<1> DEFINE P == {k \in DOMAIN d.nodes : IsPrefix(Place(d)[k], Place(d)[i])}
           T == Names(d)
<1>1. \A k \in DOMAIN d.nodes : Place(d)[k] \in Seq(T)  BY PlaceIs
<1> HIDE DEF T
<1>2. i \in P  BY <1>1, PrefixIs
<1>3. ASSUME NEW k \in P, d.nodes[k].in # 0
      PROVE  /\ d.nodes[k].in \in P
             /\ Met(Place(d)[d.nodes[k].in], old, new, a) =>
                    /\ Place(d)[d.nodes[k].in] \in DOMAIN old \cap DOMAIN new
                    /\ a.nodes[new[Place(d)[d.nodes[k].in]]].kind =
                           IF d.nodes[k].arm = "body" THEN "loop" ELSE "parallel"
  <2> DEFINE o == d.nodes[k].in
             c == Place(d)[o]
             q == Place(d)[k]
             p == Place(d)[i]
  <2>1. o \in DOMAIN d.nodes /\ Len(q) = Len(c) + 2 /\ \A j \in 1 .. Len(c) : q[j] = c[j]
    BY <1>3, PlaceInside
  <2>2. d.nodes[o].kind = IF d.nodes[k].arm = "body" THEN "loop" ELSE "parallel"
    BY <1>3 DEF IsTyped
  <2>3. c \in Seq(T) /\ q \in Seq(T) /\ p \in Seq(T) /\ IsPrefix(q, p)  BY <1>1, <2>1
  <2>4. IsPrefix(c, p)
    <3> HIDE DEF c, q, p
    <3>1. Len(q) <= Len(p) /\ \A j \in 1 .. Len(q) : q[j] = p[j]  BY <2>3, PrefixIs
    <3>2. Len(c) \in Nat /\ Len(p) \in Nat  BY <2>3
    <3>3. Len(c) <= Len(p) /\ \A j \in 1 .. Len(c) : c[j] = p[j]  BY <2>1, <3>1, <3>2
    <3>4. QED  BY <2>3, <3>3, PrefixIs
  <2>5. o \in P  BY <2>1, <2>4
  <2>6. QED  BY <2>1, <2>2, <2>4, <2>5
<1>4. P \in SUBSET DOMAIN d.nodes  OBVIOUS
<1> HIDE DEF P
<1>5. \A k \in P : Met(Place(d)[k], old, new, a)  BY <1>3, <1>4, ComparedThrough
<1>6. QED  BY <1>2, <1>5

LEMMA NamedIs ==
    ASSUME NEW b, NEW a
    PROVE  \A p : p \in Differing(Named(b), Named(a)) <=>
               LET old == NodeMap(b)
                   new == NodeMap(a)
               IN  /\ p \in DOMAIN old \cup DOMAIN new
                   /\ p \in DOMAIN old \cap DOMAIN new =>
                          Fields(b.nodes[old[p]]) # Fields(a.nodes[new[p]])
BY DEF Named, Differing

\* What a comparison of two nodes at one place finds.
LEMMA ConfigChangeIs ==
    ASSUME NEW b, Good(b), NEW a, Good(a), NEW p \in DOMAIN NodeMap(b) \cap DOMAIN NodeMap(a)
    PROVE  LET old == NodeMap(b)
               new == NodeMap(a)
               m == b.nodes[old[p]]
               n == a.nodes[new[p]]
           IN  /\ \A c \in ConfigChange(b, a, old, new, p) : c.scope = "node" /\ c.at = p
               /\ ConfigChange(b, a, old, new, p) = {} <=> Fields(m) = Fields(n)
               /\ Fields(m) = Fields(n) => n.kind = m.kind
<1> DEFINE old == NodeMap(b)
           new == NodeMap(a)
           m == b.nodes[old[p]]
           n == a.nodes[new[p]]
           differ == Differing(ConfigView(m, n.kind), ConfigView(n, n.kind))
<1>1. old[p] \in DOMAIN b.nodes /\ new[p] \in DOMAIN a.nodes
  <2>1. /\ DOMAIN old = {Place(b)[i] : i \in DOMAIN b.nodes}
        /\ \A i \in DOMAIN b.nodes : old[Place(b)[i]] = i
    BY NodesByPlace DEF Good
  <2>2. /\ DOMAIN new = {Place(a)[i] : i \in DOMAIN a.nodes}
        /\ \A i \in DOMAIN a.nodes : new[Place(a)[i]] = i
    BY NodesByPlace DEF Good
  <2>3. p \in DOMAIN old \cap DOMAIN new  OBVIOUS
  <2> HIDE DEF old, new
  <2>4. QED  BY <2>1, <2>2, <2>3
<1>2. NoNames(m) /\ NoNames(n)  BY <1>1, SettingsHaveNames DEF Good
<1>3. /\ differ = {} <=> Fields(m) = Fields(n)
      /\ Fields(m) = Fields(n) => m.kind = n.kind
  <2> HIDE DEF m, n
  <2>1. QED  BY <1>2, NoDifference
<1>4. ConfigChange(b, a, old, new, p) = {} <=> differ = {}
  BY DEF ConfigChange
<1>5. \A c \in ConfigChange(b, a, old, new, p) : c.scope = "node" /\ c.at = p
  BY DEF ConfigChange, Change
<1>6. QED  BY <1>3, <1>4, <1>5

\* A change that is told of a node is where the documents differ.
LEMMA NodesDiffer ==
    ASSUME NEW b, Good(b), NEW a, Good(a), NEW c \in NodeChanges(b, a)
    PROVE  c.scope = "node" /\ c.at \in Differing(Named(b), Named(a))
<1> DEFINE old == NodeMap(b)
           new == NodeMap(a)
           compared == Compared(old, new, b, a)
<1>1. \/ \E p \in compared \ DOMAIN new : c = Change("node", "removed", p, {}, Unclassified)
      \/ \E p \in compared \ DOMAIN old : c = Change("node", "added", p, {}, Unclassified)
      \/ \E p \in compared \cap DOMAIN old \cap DOMAIN new : c \in ConfigChange(b, a, old, new, p)
  BY NodeChangesAre
<1>2. compared \subseteq DOMAIN old \cup DOMAIN new  BY DEF Compared
<1> HIDE DEF compared
<1>3. ASSUME NEW p \in compared, p \notin DOMAIN new \/ p \notin DOMAIN old,
             NEW kind, c = Change("node", kind, p, {}, Unclassified)
      PROVE  c.scope = "node" /\ c.at \in Differing(Named(b), Named(a))
  <2>1. c.scope = "node" /\ c.at = p  BY <1>3 DEF Change
  <2>2. p \in Differing(Named(b), Named(a))  BY <1>2, <1>3, NamedIs
  <2>3. QED  BY <2>1, <2>2
<1>4. ASSUME NEW p \in DOMAIN old \cap DOMAIN new, c \in ConfigChange(b, a, old, new, p)
      PROVE  c.scope = "node" /\ c.at \in Differing(Named(b), Named(a))
  <2>1. c.scope = "node" /\ c.at = p /\ Fields(b.nodes[old[p]]) # Fields(a.nodes[new[p]])
    BY <1>4, ConfigChangeIs
  <2>2. QED  BY <2>1, NamedIs
<1>5. QED  BY <1>1, <1>3, <1>4

\* A place at which the documents differ is told of, or one of its containers.
LEMMA NodesTold ==
    ASSUME NEW b, Good(b), NEW a, Good(a), NEW p \in Differing(Named(b), Named(a))
    PROVE  \E c \in NodeChanges(b, a) : c.scope = "node" /\ IsPrefix(c.at, p)
<1> DEFINE old == NodeMap(b)
           new == NodeMap(a)
           compared == Compared(old, new, b, a)
<1>1. /\ DOMAIN old = {Place(b)[i] : i \in DOMAIN b.nodes}
      /\ \A i \in DOMAIN b.nodes : old[Place(b)[i]] = i
  BY NodesByPlace DEF Good
<1>2. /\ DOMAIN new = {Place(a)[i] : i \in DOMAIN a.nodes}
      /\ \A i \in DOMAIN a.nodes : new[Place(a)[i]] = i
  BY NodesByPlace DEF Good
<1>3. compared = {q \in DOMAIN old \cup DOMAIN new : Met(q, old, new, a)}
  BY DEF Compared, Met
<1>4. SUFFICES ASSUME \A c \in NodeChanges(b, a) : ~(c.scope = "node" /\ IsPrefix(c.at, p))
               PROVE  FALSE
  OBVIOUS
<1>5. ASSUME NEW q \in compared, IsPrefix(q, p)
      PROVE  /\ q \in DOMAIN old \cap DOMAIN new
             /\ Fields(b.nodes[old[q]]) = Fields(a.nodes[new[q]])
             /\ a.nodes[new[q]].kind = b.nodes[old[q]].kind
  <2>1. ASSUME NEW kind, Change("node", kind, q, {}, Unclassified) \in NodeChanges(b, a) PROVE FALSE
    <3> DEFINE c == Change("node", kind, q, {}, Unclassified)
    <3>1. c.scope = "node" /\ c.at = q  BY DEF Change
    <3>2. c \in NodeChanges(b, a)  BY <2>1
    <3> HIDE DEF c
    <3>3. QED  BY <1>4, <1>5, <3>1, <3>2
  <2>2. q \in DOMAIN new
    <3>1. SUFFICES ASSUME q \notin DOMAIN new PROVE FALSE
      OBVIOUS
    <3>2. Change("node", "removed", q, {}, Unclassified) \in NodeChanges(b, a)  BY <3>1, NodeChangesAre
    <3>3. QED  BY <2>1, <3>2
  <2>3. q \in DOMAIN old
    <3>1. SUFFICES ASSUME q \notin DOMAIN old PROVE FALSE
      OBVIOUS
    <3>2. Change("node", "added", q, {}, Unclassified) \in NodeChanges(b, a)  BY <3>1, NodeChangesAre
    <3>3. QED  BY <2>1, <3>2
  <2>4. ConfigChange(b, a, old, new, q) = {}
    <3>1. SUFFICES ASSUME NEW c \in ConfigChange(b, a, old, new, q) PROVE FALSE
      OBVIOUS
    <3>2. c \in NodeChanges(b, a)  BY <2>2, <2>3, NodeChangesAre
    <3>3. c.scope = "node" /\ c.at = q  BY <2>2, <2>3, ConfigChangeIs
    <3>4. QED  BY <1>4, <1>5, <3>2, <3>3
  <2>5. QED  BY <2>2, <2>3, <2>4, ConfigChangeIs
<1>6. ASSUME Met(p, old, new, a), IsPrefix(p, p) PROVE FALSE
  <2>1. p \in DOMAIN old \cup DOMAIN new  BY NamedIs
  <2>2. p \in compared  BY <1>3, <1>6, <2>1
  <2>3. p \in DOMAIN old \cap DOMAIN new /\ Fields(b.nodes[old[p]]) = Fields(a.nodes[new[p]])
    BY <1>5, <1>6, <2>2
  <2>4. QED  BY <2>3, NamedIs
<1>7. ASSUME NEW i \in DOMAIN b.nodes, p = Place(b)[i] PROVE FALSE
  <2>1. ASSUME NEW k \in DOMAIN b.nodes, IsPrefix(Place(b)[k], p), Met(Place(b)[k], old, new, a)
        PROVE  /\ Place(b)[k] \in DOMAIN old \cap DOMAIN new
               /\ a.nodes[new[Place(b)[k]]].kind = b.nodes[k].kind
    <3> DEFINE q == Place(b)[k]
    <3>1. q \in DOMAIN old /\ old[q] = k  BY <1>1
    <3> HIDE DEF q, old, new, compared
    <3>2. q \in compared  BY <1>3, <2>1, <3>1 DEF q
    <3>3. q \in DOMAIN old \cap DOMAIN new /\ a.nodes[new[q]].kind = b.nodes[old[q]].kind
      BY <1>5, <2>1, <3>2 DEF q
    <3>4. QED  BY <3>1, <3>3 DEF q
  <2> HIDE DEF old, new, compared
  <2>2. Met(Place(b)[i], old, new, a)  BY <1>7, <2>1, ComparedBelow DEF Good
  <2>3. Place(b)[i] \in Seq(Names(b))  BY PlaceIs DEF Good
  <2>4. IsPrefix(Place(b)[i], Place(b)[i])  BY <2>3, PrefixOfItself
  <2>5. QED  BY <1>6, <1>7, <2>2, <2>4
<1>8. ASSUME NEW i \in DOMAIN a.nodes, p = Place(a)[i] PROVE FALSE
  <2>1. ASSUME NEW k \in DOMAIN a.nodes, IsPrefix(Place(a)[k], p), Met(Place(a)[k], old, new, a)
        PROVE  /\ Place(a)[k] \in DOMAIN old \cap DOMAIN new
               /\ a.nodes[new[Place(a)[k]]].kind = a.nodes[k].kind
    <3> DEFINE q == Place(a)[k]
    <3>1. q \in DOMAIN new /\ new[q] = k  BY <1>2
    <3> HIDE DEF q, old, new, compared
    <3>2. q \in compared  BY <1>3, <2>1, <3>1 DEF q
    <3>3. q \in DOMAIN old \cap DOMAIN new  BY <1>5, <2>1, <3>2 DEF q
    <3>4. QED  BY <3>1, <3>3 DEF q
  <2> HIDE DEF old, new, compared
  <2>2. Met(Place(a)[i], old, new, a)  BY <1>8, <2>1, ComparedBelow DEF Good
  <2>3. Place(a)[i] \in Seq(Names(a))  BY PlaceIs DEF Good
  <2>4. IsPrefix(Place(a)[i], Place(a)[i])  BY <2>3, PrefixOfItself
  <2>5. QED  BY <1>6, <1>8, <2>2, <2>4
<1>9. p \in DOMAIN old \cup DOMAIN new  BY NamedIs
<1>10. QED  BY <1>1, <1>2, <1>7, <1>8, <1>9

\* Edges: of documents in which no two have the same ends.
LEMMA EdgesByEnds ==
    ASSUME NEW d, IsDocument(d), IsTyped(d), ~Doubled(d)
    PROVE  \A e \in ToSet(d.edges) : EdgeAt(d, <<e.from, e.to>>) = e
<1> DEFINE E == ToSet(d.edges)
           f == [e \in E |-> <<e.from, e.to>>]
<1>1. IsFiniteSet(E)
  <2>1. d.edges \in Seq(E)  BY DEF IsDocument
  <2> HIDE DEF E
  <2>2. Len(d.edges) \in Nat /\ DOMAIN d.edges = 1 .. Len(d.edges)  BY <2>1
  <2>3. IsFiniteSet(1 .. Len(d.edges))
    <3>1. 1 \in Int /\ Len(d.edges) \in Int  BY <2>2
    <3>2. QED  BY ZenonT(30), <3>1, FS_Interval
  <2> DEFINE g == [i \in 1 .. Len(d.edges) |-> d.edges[i]]
  <2>4. g \in [1 .. Len(d.edges) -> E] /\ E = {g[i] : i \in 1 .. Len(d.edges)}
    BY <2>1, <2>2 DEF E, ToSet
  <2> HIDE DEF g
  <2>5. g \in Surjection(1 .. Len(d.edges), E)  BY <2>4 DEF Surjection
  <2>6. QED  BY <2>3, <2>5, FS_Surjection
<1>2. Ends(d) = {f[e] : e \in E}  BY DEF Ends
<1>3. Cardinality(E) = Cardinality(Ends(d))  BY DEF Doubled
<1>4. f \in [E -> Ends(d)] /\ \A y \in Ends(d) : \E e \in E : f[e] = y  BY <1>2
<1>5. \A e, g \in E : f[e] = f[g] => e = g
  <2>1. f \in Surjection(E, Ends(d))  BY <1>4 DEF Surjection
  <2> HIDE DEF E, f
  <2>2. f \in Injection(E, Ends(d))  BY <1>1, <1>3, <2>1, FS_Surjection
  <2>3. QED  BY <2>2 DEF Injection, IsInjective
<1>6. ASSUME NEW e \in E PROVE EdgeAt(d, <<e.from, e.to>>) = e
  <2> DEFINE between == {g \in E : <<g.from, g.to>> = <<e.from, e.to>>}
  <2>1. between = {e}  BY <1>5
  <2>2. EdgeAt(d, <<e.from, e.to>>) =
            CHOOSE g \in between : \A h \in between : h.when < g.when \/ (h.when = g.when /\ (h.data => g.data))
    BY DEF EdgeAt
  <2> HIDE DEF between
  <2>3. \A g \in between : g = e  BY <2>1
  <2>4. e \in between /\ \A h \in between : h.when < e.when \/ (h.when = e.when /\ (h.data => e.data))
    BY <2>1
  <2>5. QED  BY <2>2, <2>3, <2>4
<1>7. QED  BY <1>6

IsEdgeChange(c, b, a) ==
    \/ \E x \in Ends(b) \ Ends(a) : c = Change("edge", "removed", x, {}, Unclassified)
    \/ \E x \in Ends(a) \ Ends(b) : c = Change("edge", "added", x, {}, Unclassified)
    \/ \E x \in Ends(b) \cap Ends(a) :
           /\ \E f \in {"when", "data"} : EdgeAt(b, x)[f] # EdgeAt(a, x)[f]
           /\ c = Change("edge", "changed", x, {f \in {"when", "data"} : EdgeAt(b, x)[f] # EdgeAt(a, x)[f]},
                         <<"control", "high">>)

LEMMA EdgeChangesAre ==
    ASSUME NEW b, NEW a
    PROVE  \A c : c \in EdgeChanges(b, a) <=> IsEdgeChange(c, b, a)
<1> DEFINE differing(x) == {f \in {"when", "data"} : EdgeAt(b, x)[f] # EdgeAt(a, x)[f]}
<1>1. EdgeChanges(b, a) =
          {Change("edge", "removed", x, {}, Unclassified) : x \in Ends(b) \ Ends(a)}
          \cup {Change("edge", "added", x, {}, Unclassified) : x \in Ends(a) \ Ends(b)}
          \cup {Change("edge", "changed", x, differing(x), <<"control", "high">>)
                  : x \in {y \in Ends(b) \cap Ends(a) : differing(y) # {}}}
  BY DEF EdgeChanges
<1>2. \A x : differing(x) # {} <=> \E f \in {"when", "data"} : EdgeAt(b, x)[f] # EdgeAt(a, x)[f]
  OBVIOUS
<1>3. \A c : c \in EdgeChanges(b, a) <=>
               \/ \E x \in Ends(b) \ Ends(a) : c = Change("edge", "removed", x, {}, Unclassified)
               \/ \E x \in Ends(a) \ Ends(b) : c = Change("edge", "added", x, {}, Unclassified)
               \/ \E x \in Ends(b) \cap Ends(a) :
                      differing(x) # {} /\ c = Change("edge", "changed", x, differing(x), <<"control", "high">>)
  <2> HIDE DEF differing
  <2>1. QED  BY <1>1
<1>4. QED  BY SMTT(30), <1>2, <1>3 DEF IsEdgeChange

\* Edges of one document that differ from those of the other.
OwnEdges(b, a) == (ToSet(b.edges) \ ToSet(a.edges)) \cup (ToSet(a.edges) \ ToSet(b.edges))

\* Of an edge that both documents have, by its ends, the condition and the data say all.
LEMMA EdgesAre ==
    ASSUME NEW b, IsDocument(b), IsTyped(b), ~Doubled(b), NEW a, IsDocument(a), IsTyped(a), ~Doubled(a),
           NEW x \in Ends(b) \cap Ends(a)
    PROVE  /\ EdgeAt(b, x) \in ToSet(b.edges) /\ EdgeAt(a, x) \in ToSet(a.edges)
           /\ x = <<EdgeAt(b, x).from, EdgeAt(b, x).to>> /\ x = <<EdgeAt(a, x).from, EdgeAt(a, x).to>>
           /\ (\A f \in {"when", "data"} : EdgeAt(b, x)[f] = EdgeAt(a, x)[f]) => EdgeAt(b, x) = EdgeAt(a, x)
<1>1. PICK e \in ToSet(b.edges) : x = <<e.from, e.to>>  BY DEF Ends
<1>2. PICK g \in ToSet(a.edges) : x = <<g.from, g.to>>  BY DEF Ends
<1>3. EdgeAt(b, x) = e  BY <1>1, EdgesByEnds
<1>4. EdgeAt(a, x) = g  BY <1>2, EdgesByEnds
<1>5. ASSUME e.when = g.when, e.data = g.data PROVE e = g
  <2>1. /\ e = [from |-> e.from, to |-> e.to, data |-> e.data, when |-> e.when]
        /\ g = [from |-> g.from, to |-> g.to, data |-> g.data, when |-> g.when]
    BY DEF IsTyped
  <2>2. e.from = g.from /\ e.to = g.to  BY <1>1, <1>2
  <2>3. QED  BY <1>5, <2>1, <2>2
<1>6. QED  BY <1>1, <1>2, <1>3, <1>4, <1>5

LEMMA EdgesDiffer ==
    ASSUME NEW b, IsDocument(b), IsTyped(b), ~Doubled(b), NEW a, IsDocument(a), IsTyped(a), ~Doubled(a),
           NEW c \in EdgeChanges(b, a)
    PROVE  c.scope = "edge" /\ \E e \in OwnEdges(b, a) : c.at = <<e.from, e.to>>
<1>1. IsEdgeChange(c, b, a)  BY EdgeChangesAre
<1>2. c.scope = "edge" /\ c.at \in Ends(b) \cup Ends(a)  BY <1>1 DEF IsEdgeChange, Change
<1> DEFINE x == c.at
<1>3. CASE x \notin Ends(b) \cap Ends(a)  BY <1>2, <1>3 DEF Ends, OwnEdges
<1>4. CASE x \in Ends(b) \cap Ends(a)
  <2>1. \E f \in {"when", "data"} : EdgeAt(b, x)[f] # EdgeAt(a, x)[f]
    BY <1>1, <1>4 DEF IsEdgeChange, Change
  <2>2. /\ EdgeAt(b, x) \in ToSet(b.edges) /\ x = <<EdgeAt(b, x).from, EdgeAt(b, x).to>>
    BY <1>4, EdgesAre
  <2>3. EdgeAt(b, x) \notin ToSet(a.edges)
    <3>1. SUFFICES ASSUME EdgeAt(b, x) \in ToSet(a.edges) PROVE FALSE
      OBVIOUS
    <3>2. EdgeAt(a, <<EdgeAt(b, x).from, EdgeAt(b, x).to>>) = EdgeAt(b, x)  BY <3>1, EdgesByEnds
    <3>3. EdgeAt(a, x) = EdgeAt(b, x)  BY <2>2, <3>2
    <3>4. QED  BY <2>1, <3>3
  <2>4. QED  BY <1>2, <2>2, <2>3 DEF OwnEdges
<1>5. QED  BY <1>3, <1>4

LEMMA EdgesTold ==
    ASSUME NEW b, IsDocument(b), IsTyped(b), ~Doubled(b), NEW a, IsDocument(a), IsTyped(a), ~Doubled(a),
           NEW e \in OwnEdges(b, a)
    PROVE  \E c \in EdgeChanges(b, a) : c.scope = "edge" /\ c.at = <<e.from, e.to>>
<1> DEFINE x == <<e.from, e.to>>
           fs == {f \in {"when", "data"} : EdgeAt(b, x)[f] # EdgeAt(a, x)[f]}
<1>1. \A kind, fields, class :
          Change("edge", kind, x, fields, class).scope = "edge" /\ Change("edge", kind, x, fields, class).at = x
  BY DEF Change
<1>2. x \in Ends(b) \cup Ends(a)  BY DEF OwnEdges, Ends
<1> SUFFICES ASSUME \A c \in EdgeChanges(b, a) : ~(c.scope = "edge" /\ c.at = x) PROVE FALSE
  OBVIOUS
<1>3. CASE x \notin Ends(a)
  <2>1. Change("edge", "removed", x, {}, Unclassified) \in EdgeChanges(b, a)
    BY <1>2, <1>3, EdgeChangesAre DEF IsEdgeChange
  <2>2. QED  BY <1>1, <2>1
<1>4. CASE x \notin Ends(b)
  <2>1. Change("edge", "added", x, {}, Unclassified) \in EdgeChanges(b, a)
    BY <1>2, <1>4, EdgeChangesAre DEF IsEdgeChange
  <2>2. QED  BY <1>1, <2>1
<1>5. CASE x \in Ends(b) \cap Ends(a)
  <2>1. /\ EdgeAt(b, x) \in ToSet(b.edges) /\ EdgeAt(a, x) \in ToSet(a.edges)
        /\ (\A f \in {"when", "data"} : EdgeAt(b, x)[f] = EdgeAt(a, x)[f]) => EdgeAt(b, x) = EdgeAt(a, x)
    BY <1>5, EdgesAre
  <2>2. /\ e \in ToSet(b.edges) => EdgeAt(b, x) = e
        /\ e \in ToSet(a.edges) => EdgeAt(a, x) = e
    BY EdgesByEnds
  <2>3. EdgeAt(b, x) # EdgeAt(a, x)  BY <2>1, <2>2 DEF OwnEdges
  <2>4. \E f \in {"when", "data"} : EdgeAt(b, x)[f] # EdgeAt(a, x)[f]  BY <2>1, <2>3
  <2>5. Change("edge", "changed", x, fs, <<"control", "high">>) \in EdgeChanges(b, a)
    <3> HIDE DEF x
    <3> DEFINE altered(y) == \E f \in {"when", "data"} : EdgeAt(b, y)[f] # EdgeAt(a, y)[f]
               told(y) == Change("edge", "changed", y, {f \in {"when", "data"} : EdgeAt(b, y)[f] # EdgeAt(a, y)[f]},
                                 <<"control", "high">>)
               changed == told(x)
    <3>1. altered(x) /\ changed = told(x)  BY <2>4
    <3>2. IsEdgeChange(changed, b, a)
      <4> HIDE DEF altered, told, changed
      <4>1. \E y \in Ends(b) \cap Ends(a) : altered(y) /\ changed = told(y)  BY <1>5, <3>1
      <4>2. QED  BY Zenon, <4>1 DEF IsEdgeChange, altered, told
    <3> HIDE DEF changed
    <3>3. changed \in EdgeChanges(b, a)  BY ZenonT(30), <3>2, EdgeChangesAre
    <3>4. QED  BY <3>3 DEF changed
  <2>6. QED  BY <1>1, <2>5
<1>6. QED  BY <1>3, <1>4, <1>5

\* Two documents with one list of edges have no change of an edge, doubled or not.
LEMMA SameEdges ==
    ASSUME NEW b, NEW a, a.edges = b.edges
    PROVE  EdgeChanges(b, a) = {} /\ OwnEdges(b, a) = {}
<1>1. Ends(a) = Ends(b) /\ \A x : EdgeAt(a, x) = EdgeAt(b, x)  BY DEF Ends, EdgeAt
<1>2. EdgeChanges(b, a) = {}  BY <1>1, EdgeChangesAre DEF IsEdgeChange
<1>3. QED  BY <1>2 DEF OwnEdges

\* The rest of a document, key by key.
Keys == {"metadata", "registry_ref", "policy", "inputs", "outputs"}

LEMMA GovernanceIs ==
    ASSUME NEW d, d.policy = [name \in DOMAIN d.policy |-> d.policy[name]]
    PROVE  /\ DOMAIN Governance(d) = Keys
           /\ Governance(d) = [key \in Keys |-> Governance(d)[key]]
           /\ \A key \in Keys :
                  Governance(d)[key] = [x \in DOMAIN Governance(d)[key] |-> Governance(d)[key][x]]
<1> DEFINE m == [name |-> d.metadata]
           r == [registry_version |-> d.pinned, tools |-> d.tools,
                 datasets |-> d.datasets, credentials |-> d.credentials]
           i == [port \in d.inputs |-> TRUE]
           o == [port \in d.outputs |-> TRUE]
<1>1. Governance(d) = [metadata |-> m, registry_ref |-> r, policy |-> d.policy, inputs |-> i, outputs |-> o]
  BY DEF Governance
<1>2. /\ m = [x \in DOMAIN m |-> m[x]] /\ r = [x \in DOMAIN r |-> r[x]]
      /\ i = [x \in DOMAIN i |-> i[x]] /\ o = [x \in DOMAIN o |-> o[x]]
  OBVIOUS
<1> HIDE DEF m, r, i, o
<1>3. QED  BY <1>1, <1>2 DEF Keys

LEMMA GovernanceChangesAre ==
    ASSUME NEW b, IsTyped(b), NEW a
    PROVE  \A c : c \in GovernanceChanges(b, a) <=>
               \E key \in Keys :
                   LET f == Governance(b)[key]
                       g == Governance(a)[key]
                   IN  /\ Differing(f, g) # {}
                       /\ c = Change("governance", "changed", <<key>>, Differing(f, g),
                                     ClassifyGovernance(key, Differing(f, g), Widened(f, g, "agent_budget")))
<1> DEFINE of(key) == LET f == Governance(b)[key]
                          g == Governance(a)[key]
                      IN  IF Differing(f, g) = {} THEN {}
                          ELSE {Change("governance", "changed", <<key>>, Differing(f, g),
                                       ClassifyGovernance(key, Differing(f, g), Widened(f, g, "agent_budget")))}
<1>1. DOMAIN Governance(b) = Keys  BY GovernanceIs DEF IsTyped
<1>2. GovernanceChanges(b, a) = UNION {of(key) : key \in Keys}  BY <1>1 DEF GovernanceChanges
<1>3. \A c : \A key \in Keys : c \in of(key) <=>
          LET f == Governance(b)[key]
              g == Governance(a)[key]
          IN  /\ Differing(f, g) # {}
              /\ c = Change("governance", "changed", <<key>>, Differing(f, g),
                            ClassifyGovernance(key, Differing(f, g), Widened(f, g, "agent_budget")))
  OBVIOUS
<1> HIDE DEF of
<1>4. \A c : c \in GovernanceChanges(b, a) <=> \E key \in Keys : c \in of(key)  BY <1>2
<1>5. QED  BY <1>3, <1>4

LEMMA GovernanceDiffers ==
    ASSUME NEW b, IsTyped(b), NEW a, IsTyped(a)
    PROVE  /\ \A c \in GovernanceChanges(b, a) :
                  c.scope = "governance" /\ \E key \in Differing(Governance(b), Governance(a)) : c.at = <<key>>
           /\ \A key \in Differing(Governance(b), Governance(a)) :
                  \E c \in GovernanceChanges(b, a) : c.scope = "governance" /\ c.at = <<key>>
<1> DEFINE f == Governance(b)
           g == Governance(a)
           class(key) == ClassifyGovernance(key, Differing(f[key], g[key]), Widened(f[key], g[key], "agent_budget"))
           change(key) == Change("governance", "changed", <<key>>, Differing(f[key], g[key]), class(key))
<1>1. /\ DOMAIN f = Keys /\ DOMAIN g = Keys
      /\ \A key \in Keys : f[key] = [x \in DOMAIN f[key] |-> f[key][x]]
      /\ \A key \in Keys : g[key] = [x \in DOMAIN g[key] |-> g[key][x]]
  BY GovernanceIs DEF IsTyped
<1>2. \A c : c \in GovernanceChanges(b, a) <=>
          \E key \in Keys : Differing(f[key], g[key]) # {} /\ c = change(key)
  BY GovernanceChangesAre
<1>3. \A key : change(key).scope = "governance" /\ change(key).at = <<key>>  BY DEF Change
<1> HIDE DEF f, g, change
<1>4. \A key \in Keys : Differing(f[key], g[key]) = {} <=> f[key] = g[key]
  <2> SUFFICES ASSUME NEW key \in Keys PROVE Differing(f[key], g[key]) = {} <=> f[key] = g[key]
    OBVIOUS
  <2> DEFINE s == f[key]
             t == g[key]
  <2>1. s = [x \in DOMAIN s |-> s[x]] /\ t = [x \in DOMAIN t |-> t[x]]  BY <1>1
  <2> HIDE DEF s, t
  <2>2. Differing(s, t) = {} <=> s = t  BY <2>1, SameFunction
  <2>3. QED  BY <2>2 DEF s, t
<1>5. \A key : key \in Differing(f, g) <=> key \in Keys /\ f[key] # g[key]  BY <1>1 DEF Differing
<1>6. \A c \in GovernanceChanges(b, a) : c.scope = "governance" /\ \E key \in Differing(f, g) : c.at = <<key>>
  BY <1>2, <1>3, <1>4, <1>5
<1>7. ASSUME NEW key \in Differing(f, g)
      PROVE  \E c \in GovernanceChanges(b, a) : c.scope = "governance" /\ c.at = <<key>>
  <2>1. key \in Keys /\ Differing(f[key], g[key]) # {}  BY <1>4, <1>5, <1>7
  <2>2. change(key) \in GovernanceChanges(b, a)  BY <1>2, <2>1
  <2>3. QED  BY <1>3, <2>2
<1>8. QED  BY <1>6, <1>7 DEF f, g

\* What is told are differences, and every difference is told.
LEMMA DifferencesAre ==
    ASSUME NEW before, Good(before), NEW after, Good(after)
    PROVE  LET b == Canonical(before)
               a == Canonical(after)
           IN  /\ Good(b) /\ Good(a) /\ b.edges = before.edges /\ a.edges = after.edges
               /\ Governance(b) = Governance(before) /\ Governance(a) = Governance(after)
               /\ \A x : x \in Differences(before, after) <=>
                      \/ \E p \in Differing(Named(b), Named(a)) : x = <<"node", p>>
                      \/ \E e \in OwnEdges(b, a) : x = <<"edge", <<e.from, e.to>>>>
                      \/ \E key \in Differing(Governance(b), Governance(a)) : x = <<"governance", <<key>>>>
<1> DEFINE b == Canonical(before)
           a == Canonical(after)
<1>1. Good(b) /\ b.edges = before.edges /\ Governance(b) = Governance(before)  BY CanonicalKeeps DEF Good
<1>2. Good(a) /\ a.edges = after.edges /\ Governance(a) = Governance(after)  BY CanonicalKeeps DEF Good
<1>3. \A x : x \in Differences(before, after) <=>
          \/ \E p \in Differing(Named(b), Named(a)) : x = <<"node", p>>
          \/ \E e \in OwnEdges(b, a) : x = <<"edge", <<e.from, e.to>>>>
          \/ \E key \in Differing(Governance(b), Governance(a)) : x = <<"governance", <<key>>>>
  <2> HIDE DEF b, a
  <2>1. Differences(before, after) =
            {<<"node", p>> : p \in Differing(Named(b), Named(a))}
            \cup {<<"edge", <<e.from, e.to>>>> : e \in OwnEdges(b, a)}
            \cup {<<"governance", <<key>>>> : key \in Differing(Governance(b), Governance(a))}
    BY DEF Differences, OwnEdges, b, a
  <2>2. QED  BY <2>1
<1>4. QED  BY <1>1, <1>2, <1>3

LEMMA OnlyDifferences ==
    ASSUME NEW before, Good(before), NEW after, Good(after),
           \/ ~Doubled(before) /\ ~Doubled(after)
           \/ after.edges = before.edges,
           NEW c \in Diff(before, after)
    PROVE  <<c.scope, c.at>> \in Differences(before, after)
<1> DEFINE b == Canonical(before)
           a == Canonical(after)
<1>1. c \in GovernanceChanges(b, a) \cup NodeChanges(b, a) \cup EdgeChanges(b, a)  BY DEF Diff
<1>2. Good(b) /\ Good(a) /\ b.edges = before.edges /\ a.edges = after.edges  BY DifferencesAre
<1>3. \A x : x \in Differences(before, after) <=>
          \/ \E p \in Differing(Named(b), Named(a)) : x = <<"node", p>>
          \/ \E e \in OwnEdges(b, a) : x = <<"edge", <<e.from, e.to>>>>
          \/ \E key \in Differing(Governance(b), Governance(a)) : x = <<"governance", <<key>>>>
  BY DifferencesAre
<1> HIDE DEF b, a
<1>4. CASE c \in GovernanceChanges(b, a)
  <2>1. PICK key \in Differing(Governance(b), Governance(a)) : c.scope = "governance" /\ c.at = <<key>>
    BY <1>2, <1>4, GovernanceDiffers DEF Good
  <2>2. QED  BY <1>3, <2>1
<1>5. CASE c \in NodeChanges(b, a)
  <2>1. c.scope = "node" /\ c.at \in Differing(Named(b), Named(a))  BY <1>2, <1>5, NodesDiffer
  <2>2. QED  BY <1>3, <2>1
<1>6. CASE c \in EdgeChanges(b, a)
  <2>1. a.edges # b.edges  BY <1>6, SameEdges
  <2>2. ~Doubled(b) /\ ~Doubled(a)  BY <1>2, <2>1 DEF Doubled, Ends
  <2>3. PICK e \in OwnEdges(b, a) : c.scope = "edge" /\ c.at = <<e.from, e.to>>
    BY <1>2, <1>6, <2>2, EdgesDiffer DEF Good
  <2>4. QED  BY <1>3, <2>3
<1>7. QED  BY <1>1, <1>4, <1>5, <1>6

LEMMA EveryDifference ==
    ASSUME NEW before, Good(before), NEW after, Good(after),
           \/ ~Doubled(before) /\ ~Doubled(after)
           \/ after.edges = before.edges,
           NEW x \in Differences(before, after)
    PROVE  Told(Diff(before, after), x)
<1> DEFINE b == Canonical(before)
           a == Canonical(after)
<1>1. GovernanceChanges(b, a) \cup NodeChanges(b, a) \cup EdgeChanges(b, a) = Diff(before, after)
  BY DEF Diff
<1>2. Good(b) /\ Good(a) /\ b.edges = before.edges /\ a.edges = after.edges  BY DifferencesAre
<1>3. \A y : y \in Differences(before, after) <=>
          \/ \E p \in Differing(Named(b), Named(a)) : y = <<"node", p>>
          \/ \E e \in OwnEdges(b, a) : y = <<"edge", <<e.from, e.to>>>>
          \/ \E key \in Differing(Governance(b), Governance(a)) : y = <<"governance", <<key>>>>
  BY DifferencesAre
<1> HIDE DEF b, a
<1>4. ASSUME NEW p \in Differing(Named(b), Named(a)), x = <<"node", p>>
      PROVE  Told(Diff(before, after), x)
  <2>1. PICK c \in NodeChanges(b, a) : c.scope = "node" /\ IsPrefix(c.at, p)  BY <1>2, NodesTold
  <2>2. c \in Diff(before, after)  BY <1>1
  <2>3. QED  BY <1>4, <2>1, <2>2 DEF Told
<1>5. ASSUME NEW e \in OwnEdges(b, a), x = <<"edge", <<e.from, e.to>>>>
      PROVE  Told(Diff(before, after), x)
  <2>1. a.edges # b.edges  BY SameEdges
  <2>2. ~Doubled(b) /\ ~Doubled(a)  BY <1>2, <2>1 DEF Doubled, Ends
  <2>3. PICK c \in EdgeChanges(b, a) : c.scope = "edge" /\ c.at = <<e.from, e.to>>
    BY <1>2, <2>2, EdgesTold DEF Good
  <2> DEFINE T == {e.from, e.to}
  <2>4. <<e.from, e.to>> \in Seq(T)  OBVIOUS
  <2> HIDE DEF T
  <2>5. IsPrefix(c.at, <<e.from, e.to>>)  BY <2>3, <2>4, PrefixOfItself
  <2>6. c \in Diff(before, after)  BY <1>1
  <2>7. QED  BY <1>5, <2>3, <2>5, <2>6 DEF Told
<1>6. ASSUME NEW key \in Differing(Governance(b), Governance(a)), x = <<"governance", <<key>>>>
      PROVE  Told(Diff(before, after), x)
  <2>1. PICK c \in GovernanceChanges(b, a) : c.scope = "governance" /\ c.at = <<key>>
    BY <1>2, GovernanceDiffers DEF Good
  <2> DEFINE T == {key}
  <2>2. <<key>> \in Seq(T)  OBVIOUS
  <2> HIDE DEF T
  <2>3. IsPrefix(c.at, <<key>>)  BY <2>1, <2>2, PrefixOfItself
  <2>4. c \in Diff(before, after)  BY <1>1
  <2>5. QED  BY <1>6, <2>1, <2>3, <2>4 DEF Told
<1>7. QED  BY <1>3, <1>4, <1>5, <1>6

\* The diff is empty exactly when there is no difference.
LEMMA NothingToTell ==
    ASSUME NEW before, Good(before), NEW after, Good(after),
           \/ ~Doubled(before) /\ ~Doubled(after)
           \/ after.edges = before.edges
    PROVE  Diff(before, after) = {} <=> Differences(before, after) = {}
<1>1. \A c \in Diff(before, after) : <<c.scope, c.at>> \in Differences(before, after)
  BY OnlyDifferences
<1>2. \A x \in Differences(before, after) : Told(Diff(before, after), x)  BY EveryDifference
<1>3. QED  BY <1>1, <1>2 DEF Told

-----------------------------------------------------------------------------
(* That what is of consequence is told. *)

\* A place both documents have is compared: so are its containers.
LEMMA BothCompared ==
    ASSUME NEW b, Good(b), NEW a, Good(a), NEW p \in DOMAIN NodeMap(b) \cap DOMAIN NodeMap(a)
    PROVE  p \in Compared(NodeMap(b), NodeMap(a), b, a)
<1> DEFINE old == NodeMap(b)
           new == NodeMap(a)
           P == {i \in DOMAIN b.nodes : Place(b)[i] \in DOMAIN new}
<1>1. /\ DOMAIN old = {Place(b)[i] : i \in DOMAIN b.nodes}
      /\ \A i \in DOMAIN b.nodes : old[Place(b)[i]] = i
  BY NodesByPlace DEF Good
<1>2. /\ DOMAIN new = {Place(a)[i] : i \in DOMAIN a.nodes}
      /\ \A i \in DOMAIN a.nodes : new[Place(a)[i]] = i
  BY NodesByPlace DEF Good
<1> HIDE DEF old, new
<1>3. ASSUME NEW i \in P, b.nodes[i].in # 0
      PROVE  LET c == Place(b)[b.nodes[i].in]
             IN  /\ b.nodes[i].in \in P
                 /\ c \in DOMAIN old \cap DOMAIN new
                 /\ a.nodes[new[c]].kind = IF b.nodes[i].arm = "body" THEN "loop" ELSE "parallel"
  <2> DEFINE o == b.nodes[i].in
             c == Place(b)[o]
             q == Place(b)[i]
  <2>1. PICK j \in DOMAIN a.nodes : q = Place(a)[j]  BY <1>2, <1>3
  <2> DEFINE u == a.nodes[j].in
             d == Place(a)[u]
  <2>2. /\ o \in DOMAIN b.nodes /\ c \in Seq(Names(b)) /\ Len(q) = Len(c) + 2
        /\ SubSeq(q, 1, Len(c)) = c /\ q[Len(c) + 1] = b.nodes[i].arm
    BY <1>3, PlaceInside DEF Good
  <2>3. u # 0
    <3>1. SUFFICES ASSUME u = 0 PROVE FALSE
      OBVIOUS
    <3>2. Place(a)[j] = <<a.nodes[j].id>>  BY <3>1, PlaceIs DEF PlaceOf, Good
    <3>3. Len(q) = 1 /\ Len(c) \in Nat  BY <2>1, <2>2, <3>2
    <3>4. Len(q) = Len(c) + 2  BY <2>2
    <3> HIDE DEF q, c
    <3>5. QED  BY <3>3, <3>4
  <2>4. /\ u \in DOMAIN a.nodes /\ d \in Seq(Names(a)) /\ Len(Place(a)[j]) = Len(d) + 2
        /\ SubSeq(Place(a)[j], 1, Len(d)) = d /\ Place(a)[j][Len(d) + 1] = a.nodes[j].arm
    BY <2>3, PlaceInside DEF Good
  <2>5. Len(c) \in Nat /\ Len(d) \in Nat /\ Len(c) + 2 = Len(d) + 2
    <3>1. c \in Seq(Names(b)) /\ d \in Seq(Names(a))  BY <2>2, <2>4
    <3>2. Len(q) = Len(c) + 2 /\ Len(q) = Len(d) + 2  BY <2>1, <2>2, <2>4
    <3> HIDE DEF c, d, q
    <3>3. Len(c) \in Nat /\ Len(d) \in Nat  BY <3>1
    <3>4. QED  BY <3>2, <3>3
  <2>6. Len(d) = Len(c)
    <3> HIDE DEF c, d
    <3>1. QED  BY <2>5
  <2>7. d = c /\ a.nodes[j].arm = b.nodes[i].arm  BY <2>1, <2>2, <2>4, <2>6
  <2>8. c \in DOMAIN old /\ c \in DOMAIN new /\ new[c] = u  BY <1>1, <1>2, <2>2, <2>4, <2>7
  <2>9. a.nodes[u].kind = IF a.nodes[j].arm = "body" THEN "loop" ELSE "parallel"
    BY <2>3 DEF Good, IsTyped
  <2>10. QED  BY <2>2, <2>7, <2>8, <2>9
<1>4. IsDocument(b) /\ IsNested(b) /\ P \in SUBSET DOMAIN b.nodes  BY DEF Good
<1>5. PICK i \in DOMAIN b.nodes : p = Place(b)[i]  BY <1>1 DEF old
<1>6. i \in P /\ p \in DOMAIN old  BY <1>5 DEF old, new
<1> HIDE DEF P
<1>7. \A k \in P : Met(Place(b)[k], old, new, a)  BY <1>3, <1>4, ComparedThrough
<1>8. Met(p, old, new, a)  BY <1>5, <1>6, <1>7
<1>9. QED  BY <1>6, <1>8 DEF Compared, Met, old, new

Budgeted(n) == NoNames(n) /\ ("budget" \in DOMAIN n.set => n.set.budget \in Int)

LEMMA GraveIsHigh ==
    ASSUME NEW m, Budgeted(m), NEW n, Budgeted(n), Grave(m, n)
    PROVE  LET f == ConfigView(m, n.kind)
               g == ConfigView(n, n.kind)
           IN  /\ Differing(f, g) # {}
               /\ ClassifyNode(n.kind, Differing(f, g), Widened(f, g, "budget"))[2] = "high"
<1> DEFINE f == ConfigView(m, n.kind)
           g == ConfigView(n, n.kind)
           fields == Differing(f, g)
<1>1. NoNames(m) /\ NoNames(n)  BY DEF Budgeted
<1>2. CASE m.kind # n.kind
  <2>1. "type" \in fields  BY <1>1, <1>2, NoDifference
  <2> HIDE DEF fields, f, g
  <2>2. QED  BY <2>1 DEF ClassifyNode, fields, f, g
<1>3. CASE m.kind = n.kind
  <2>1. f = Fields(m) /\ g = Fields(n)  BY <1>3, ViewIs
  <2> HIDE DEF f, g
  <2>2. CASE n.kind = "http" /\ m.uses # n.uses
    <3>1. /\ "credential" \in DOMAIN f /\ f["credential"] = m.uses
          /\ "credential" \in DOMAIN g /\ g["credential"] = n.uses
      BY <1>1, <1>3, <2>1, <2>2, FieldsAre
    <3>2. "credential" \in fields  BY <2>2, <3>1 DEF Differing
    <3> HIDE DEF fields
    <3>3. QED  BY <2>2, <3>2 DEF ClassifyNode, fields, f, g
  <2>3. CASE n.kind = "condition" /\ <<m.next, m.rules>> # <<n.next, n.rules>>
    <3>1. /\ "branches" \in DOMAIN f /\ f["branches"] = <<m.next, m.rules>>
          /\ "branches" \in DOMAIN g /\ g["branches"] = <<n.next, n.rules>>
      BY <1>1, <1>3, <2>1, <2>3, FieldsAre
    <3>2. f["branches"] # g["branches"]  BY <2>3, <3>1
    <3>3. "branches" \in fields  BY <3>1, <3>2 DEF Differing
    <3> HIDE DEF fields
    <3>4. QED  BY <2>3, <3>3 DEF ClassifyNode, fields, f, g
  <2>4. CASE n.kind = "agent" /\ Widened(m.set, n.set, "budget")
    <3>1. /\ "budget" \in DOMAIN m.set /\ "budget" \in DOMAIN n.set
          /\ m.set["budget"] < n.set["budget"]
      BY <2>4 DEF Widened
    <3>2. m.set["budget"] \in Int /\ n.set["budget"] \in Int  BY <3>1 DEF Budgeted
    <3>3. /\ "budget" \in DOMAIN f /\ f["budget"] = m.set["budget"]
          /\ "budget" \in DOMAIN g /\ g["budget"] = n.set["budget"]
      BY <2>1, <3>1, FieldsAre
    <3>4. "budget" \in fields  BY <3>1, <3>2, <3>3 DEF Differing
    <3>5. Widened(f, g, "budget")  BY <3>1, <3>3 DEF Widened
    <3> HIDE DEF fields
    <3>6. QED  BY <2>4, <3>4, <3>5 DEF ClassifyNode, fields, f, g
  <2>5. QED  BY <1>3, <2>2, <2>3, <2>4 DEF Grave
<1>4. QED  BY <1>2, <1>3

LEMMA NodesAreTold ==
    ASSUME NEW before, Good(before), NEW after, Good(after),
           NEW p \in DOMAIN NodeMap(before) \cap DOMAIN NodeMap(after),
           Grave(before.nodes[NodeMap(before)[p]], after.nodes[NodeMap(after)[p]])
    PROVE  \E c \in Diff(before, after) : c.scope = "node" /\ c.at = p /\ c.risk = "high"
<1> DEFINE b == Canonical(before)
           a == Canonical(after)
           old == NodeMap(b)
           new == NodeMap(a)
           i == NodeMap(before)[p]
           j == NodeMap(after)[p]
<1>1. Good(b) /\ Good(a)  BY CanonicalKeeps DEF Good
<1>2. /\ Place(b) = Place(before) /\ DOMAIN b.nodes = DOMAIN before.nodes
      /\ Place(a) = Place(after) /\ DOMAIN a.nodes = DOMAIN after.nodes
  BY CanonicalKeeps DEF Good, Aligned
<1>3. /\ DOMAIN NodeMap(before) = {Place(before)[k] : k \in DOMAIN before.nodes}
      /\ \A k \in DOMAIN before.nodes : NodeMap(before)[Place(before)[k]] = k
  BY NodesByPlace DEF Good
<1>4. /\ DOMAIN NodeMap(after) = {Place(after)[k] : k \in DOMAIN after.nodes}
      /\ \A k \in DOMAIN after.nodes : NodeMap(after)[Place(after)[k]] = k
  BY NodesByPlace DEF Good
<1>5. /\ i \in DOMAIN before.nodes /\ Place(before)[i] = p
      /\ j \in DOMAIN after.nodes /\ Place(after)[j] = p
  BY <1>3, <1>4
<1>6. p \in DOMAIN old /\ old[p] = i /\ p \in DOMAIN new /\ new[p] = j
  <2>1. /\ DOMAIN old = {Place(b)[k] : k \in DOMAIN b.nodes}
        /\ \A k \in DOMAIN b.nodes : old[Place(b)[k]] = k
    <3> HIDE DEF b
    <3>1. QED  BY <1>1, NodesByPlace DEF Good
  <2>2. /\ DOMAIN new = {Place(a)[k] : k \in DOMAIN a.nodes}
        /\ \A k \in DOMAIN a.nodes : new[Place(a)[k]] = k
    <3> HIDE DEF a
    <3>1. QED  BY <1>1, NodesByPlace DEF Good
  <2> HIDE DEF b, a, old, new, i, j
  <2>3. QED  BY <1>2, <1>5, <2>1, <2>2
<1> DEFINE m == b.nodes[i]
           n == a.nodes[j]
           f == ConfigView(m, n.kind)
           g == ConfigView(n, n.kind)
           class == ClassifyNode(n.kind, Differing(f, g), Widened(f, g, "budget"))
           c == Change("node", "config-changed", p, Differing(f, g), class)
<1>7. Grave(m, n)
  <2>1. /\ m.kind = before.nodes[i].kind /\ m.uses = before.nodes[i].uses /\ m.next = before.nodes[i].next
        /\ m.rules = before.nodes[i].rules
        /\ DOMAIN before.nodes[i].set \ {"top_k"} \subseteq DOMAIN m.set
        /\ \A x \in DOMAIN m.set : m.set[x] = before.nodes[i].set[x]
    BY <1>5, CanonicalKeeps DEF Good
  <2>2. /\ n.kind = after.nodes[j].kind /\ n.uses = after.nodes[j].uses /\ n.next = after.nodes[j].next
        /\ n.rules = after.nodes[j].rules
        /\ DOMAIN after.nodes[j].set \ {"top_k"} \subseteq DOMAIN n.set
        /\ \A x \in DOMAIN n.set : n.set[x] = after.nodes[j].set[x]
    BY <1>5, CanonicalKeeps DEF Good
  <2> HIDE DEF m, n, i, j
  <2>3. Grave(before.nodes[i], after.nodes[j])  BY DEF i, j
  <2>4. Widened(before.nodes[i].set, after.nodes[j].set, "budget") => Widened(m.set, n.set, "budget")
    BY <2>1, <2>2 DEF Widened
  <2>5. QED  BY <2>1, <2>2, <2>3, <2>4 DEF Grave
<1>8. Budgeted(m) /\ Budgeted(n)
  BY <1>1, <1>2, <1>5 DEF Good, IsTyped, Budgeted, NoNames
<1>9. Differing(f, g) # {} /\ class[2] = "high"
  <2> HIDE DEF m, n
  <2>1. QED  BY <1>7, <1>8, GraveIsHigh
<1>10. p \in Compared(old, new, b, a)
  <2> HIDE DEF b, a
  <2>1. QED  BY <1>1, <1>6, BothCompared
<1>11. c \in ConfigChange(b, a, old, new, p)
  BY <1>6, <1>9 DEF ConfigChange
<1> HIDE DEF c, old, new
<1>12. c \in NodeChanges(b, a)
  <2> HIDE DEF b, a
  <2>1. QED  BY <1>6, <1>10, <1>11, NodeChangesAre DEF old, new
<1>13. c \in Diff(before, after)  BY <1>12 DEF Diff
<1>14. c.scope = "node" /\ c.at = p /\ c.risk = "high"  BY <1>9 DEF c, Change
<1>15. QED  BY <1>13, <1>14

\* An edge whose condition or data changed is shown, of high risk.
LEMMA EdgesAreTold ==
    ASSUME NEW before, Good(before), ~Doubled(before), NEW after, Good(after), ~Doubled(after),
           NEW e \in ToSet(before.edges), NEW g \in ToSet(after.edges),
           g.from = e.from, g.to = e.to, <<g.when, g.data>> # <<e.when, e.data>>
    PROVE  \E c \in Diff(before, after) : c.scope = "edge" /\ c.at = <<e.from, e.to>> /\ c.risk = "high"
<1> DEFINE b == Canonical(before)
           a == Canonical(after)
           x == <<e.from, e.to>>
           fs == {f \in {"when", "data"} : EdgeAt(b, x)[f] # EdgeAt(a, x)[f]}
           c == Change("edge", "changed", x, fs, <<"control", "high">>)
<1>1. IsDocument(b) /\ IsTyped(b) /\ b.edges = before.edges  BY CanonicalKeeps DEF Good
<1>2. IsDocument(a) /\ IsTyped(a) /\ a.edges = after.edges  BY CanonicalKeeps DEF Good
<1>3. ~Doubled(b) /\ ~Doubled(a)  BY <1>1, <1>2 DEF Doubled, Ends
<1> HIDE DEF b, a
<1>4. EdgeAt(b, x) = e /\ x \in Ends(b)  BY <1>1, <1>3, EdgesByEnds DEF Ends
<1>5. EdgeAt(a, x) = g /\ x \in Ends(a)  BY <1>2, <1>3, EdgesByEnds DEF Ends
<1>6. \E f \in {"when", "data"} : EdgeAt(b, x)[f] # EdgeAt(a, x)[f]  BY <1>4, <1>5
<1>7. c \in EdgeChanges(b, a)  BY <1>4, <1>5, <1>6, EdgeChangesAre DEF IsEdgeChange
<1>8. c.scope = "edge" /\ c.at = x /\ c.risk = "high"  BY DEF Change
<1> HIDE DEF c
<1>9. c \in Diff(before, after)  BY <1>7 DEF Diff, b, a
<1>10. QED  BY <1>8, <1>9

\* A key of the rest of a document that changed in a way that is of consequence.
GraveKey(b, a, key) ==
    \/ key = "registry_ref" /\ b.credentials # a.credentials
    \/ /\ key = "policy"
       /\ \/ Differing(b.policy, a.policy) \cap {"guardrails", "audit", "escalation"} # {}
          \/ Widened(b.policy, a.policy, "agent_budget")
    \/ key = "inputs" /\ b.inputs # a.inputs
    \/ key = "outputs" /\ b.outputs # a.outputs

LEMMA GovernanceIsTold ==
    ASSUME NEW before, Good(before), NEW after, Good(after),
           NEW key \in Keys, GraveKey(before, after, key)
    PROVE  \E c \in Diff(before, after) : c.scope = "governance" /\ c.at = <<key>> /\ c.risk = "high"
<1> DEFINE b == Canonical(before)
           a == Canonical(after)
           f == Governance(before)[key]
           g == Governance(after)[key]
           class == ClassifyGovernance(key, Differing(f, g), Widened(f, g, "agent_budget"))
           c == Change("governance", "changed", <<key>>, Differing(f, g), class)
<1>1. IsTyped(b) /\ Governance(b) = Governance(before) /\ Governance(a) = Governance(after)
  BY CanonicalKeeps DEF Good
<1>2. Differing(f, g) # {} /\ class[2] = "high"
  <2>1. CASE key = "registry_ref"
    <3>1. /\ f = [registry_version |-> before.pinned, tools |-> before.tools,
                  datasets |-> before.datasets, credentials |-> before.credentials]
          /\ g = [registry_version |-> after.pinned, tools |-> after.tools,
                  datasets |-> after.datasets, credentials |-> after.credentials]
      BY <2>1 DEF Governance
    <3>2. f.credentials # g.credentials  BY <2>1, <3>1 DEF GraveKey
    <3>3. "credentials" \in Differing(f, g)  BY <3>1, <3>2 DEF Differing
    <3> HIDE DEF f, g
    <3>4. QED  BY <2>1, <3>3 DEF ClassifyGovernance
  <2>2. CASE key = "policy"
    <3>1. f = before.policy /\ g = after.policy  BY <2>2 DEF Governance
    <3> HIDE DEF f, g
    <3>2. CASE Differing(f, g) \cap {"guardrails", "audit", "escalation"} # {}
      <4> DEFINE fields == Differing(f, g)
      <4>1. fields # {} /\ fields \cap {"guardrails", "audit", "escalation"} # {}  BY <3>2
      <4> HIDE DEF fields
      <4>2. QED  BY <2>2, <4>1 DEF ClassifyGovernance, fields
    <3>3. CASE Widened(f, g, "agent_budget")
      <4> DEFINE fields == Differing(f, g)
      <4>1. /\ "agent_budget" \in DOMAIN f /\ "agent_budget" \in DOMAIN g
            /\ f["agent_budget"] < g["agent_budget"]
        BY <3>3 DEF Widened
      <4>2. f["agent_budget"] \in Int /\ g["agent_budget"] \in Int
        BY <3>1, <4>1 DEF Good, IsTyped
      <4>3. "agent_budget" \in fields  BY <4>1, <4>2 DEF Differing
      <4> HIDE DEF fields
      <4>4. QED  BY <2>2, <3>3, <4>3 DEF ClassifyGovernance, fields
    <3>4. QED  BY <2>2, <3>1, <3>2, <3>3 DEF GraveKey
  <2>3. CASE key = "inputs"
    <3>1. f = [port \in before.inputs |-> TRUE] /\ g = [port \in after.inputs |-> TRUE]
      BY <2>3 DEF Governance
    <3>2. DOMAIN f = before.inputs /\ DOMAIN g = after.inputs /\ before.inputs # after.inputs
      BY <2>3, <3>1 DEF GraveKey
    <3> HIDE DEF f, g
    <3>3. Differing(f, g) # {}  BY <3>2 DEF Differing
    <3>4. QED  BY <2>3, <3>3 DEF ClassifyGovernance
  <2>4. CASE key = "outputs"
    <3>1. f = [port \in before.outputs |-> TRUE] /\ g = [port \in after.outputs |-> TRUE]
      BY <2>4 DEF Governance
    <3>2. DOMAIN f = before.outputs /\ DOMAIN g = after.outputs /\ before.outputs # after.outputs
      BY <2>4, <3>1 DEF GraveKey
    <3> HIDE DEF f, g
    <3>3. Differing(f, g) # {}  BY <3>2 DEF Differing
    <3>4. QED  BY <2>4, <3>3 DEF ClassifyGovernance
  <2>5. QED  BY <2>1, <2>2, <2>3, <2>4 DEF GraveKey
<1>3. c \in GovernanceChanges(b, a)
  <2> HIDE DEF b, a
  <2>1. QED  BY <1>1, <1>2, GovernanceChangesAre
<1>4. c.scope = "governance" /\ c.at = <<key>> /\ c.risk = "high"  BY <1>2 DEF Change
<1> HIDE DEF c
<1>5. c \in Diff(before, after)  BY <1>3 DEF Diff
<1>6. QED  BY <1>4, <1>5

\* All of it together.
LEMMA ConsequencesAreTold ==
    ASSUME NEW b, Good(b), ~Doubled(b), NEW a, Good(a), ~Doubled(a)
    PROVE  Consequences(b, a) \subseteq {<<c.scope, c.at>> : c \in HardBlocks(Diff(b, a))}
<1> DEFINE old == NodeMap(b)
           new == NodeMap(a)
           told == {<<c.scope, c.at>> : c \in HardBlocks(Diff(b, a))}
           nodes == {p \in DOMAIN old \cap DOMAIN new : Grave(b.nodes[old[p]], a.nodes[new[p]])}
           flows == {f \in ToSet(b.edges) : \E g \in ToSet(a.edges) :
                        g.from = f.from /\ g.to = f.to /\ <<g.when, g.data>> # <<f.when, f.data>>}
           keys == (IF b.credentials # a.credentials THEN {"registry_ref"} ELSE {})
                   \cup (IF \/ Differing(b.policy, a.policy) \cap {"guardrails", "audit", "escalation"} # {}
                            \/ Widened(b.policy, a.policy, "agent_budget")
                         THEN {"policy"} ELSE {})
                   \cup (IF b.inputs # a.inputs THEN {"inputs"} ELSE {})
                   \cup (IF b.outputs # a.outputs THEN {"outputs"} ELSE {})
<1>1. \A c \in Diff(b, a) : c.risk = "high" => <<c.scope, c.at>> \in told
  BY DEF HardBlocks
<1> HIDE DEF told
<1>2. ASSUME NEW p \in nodes PROVE <<"node", p>> \in told
  <2>1. PICK c \in Diff(b, a) : c.scope = "node" /\ c.at = p /\ c.risk = "high"  BY NodesAreTold
  <2>2. QED  BY <1>1, <2>1
<1>3. ASSUME NEW e \in flows PROVE <<"edge", <<e.from, e.to>>>> \in told
  <2>1. PICK g \in ToSet(a.edges) :
            g.from = e.from /\ g.to = e.to /\ <<g.when, g.data>> # <<e.when, e.data>>
    OBVIOUS
  <2>2. PICK c \in Diff(b, a) : c.scope = "edge" /\ c.at = <<e.from, e.to>> /\ c.risk = "high"
    BY <2>1, EdgesAreTold
  <2>3. QED  BY <1>1, <2>2
<1>4. ASSUME NEW key \in keys PROVE <<"governance", <<key>>>> \in told
  <2>1. key \in Keys /\ GraveKey(b, a, key)  BY DEF Keys, GraveKey
  <2>2. PICK c \in Diff(b, a) : c.scope = "governance" /\ c.at = <<key>> /\ c.risk = "high"
    BY <2>1, GovernanceIsTold
  <2>3. QED  BY <1>1, <2>2
<1>5. Consequences(b, a) = {<<"node", p>> : p \in nodes}
          \cup {<<"edge", <<e.from, e.to>>>> : e \in flows}
          \cup {<<"governance", <<key>>>> : key \in keys}
  BY DEF Consequences
<1> HIDE DEF nodes, flows, keys
<1>6. Consequences(b, a) \subseteq told  BY <1>2, <1>3, <1>4, <1>5
<1>7. QED  BY <1>6 DEF told
=============================================================================
