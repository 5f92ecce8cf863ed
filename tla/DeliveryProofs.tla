------------------------------ MODULE DeliveryProofs ------------------------------
(***************************************************************************)
(* From an intent to a published app, for all scenarios, documents and     *)
(* bounds.                                                                 *)
(*                                                                         *)
(* The argument.  Sessions: a gate stands in a document when every edge    *)
(* out of its node leads to it, its reviewer is set, and it leads on       *)
(* (Gated).  What the edits do to a document keeps that (EditKeeps,        *)
(* GateKeeps): an edge that is rewired is replaced by a way.  EditsInv     *)
(* adds to it that documents are documents.  What a session has kept is    *)
(* good: of its types, each node with an id of its own (HistoryInv).  An   *)
(* edit resets one node (EditedIs) and only fields whose changes are low   *)
(* (EditScope, EditIsTold), so what it says is what it did.                *)
(* The planner: the failures that will be told are those of the last       *)
(* answer (LoopInv), and what it returns nothing was found wrong with, so  *)
(* what DocumentProofs says of the searches holds of it.                   *)
(* The push: a run goes through its labels in order, Progress says for     *)
(* each what its app has by then; every answer, refusal, lost answer or    *)
(* kill leaves Progress true and takes the app at most one stage further   *)
(* (Grown).  While no two runs have overlapped one run at most is active,  *)
(* so the name that it found free is free until it has created its app     *)
(* (Alone1).  The layout: a round places what has all its predecessors     *)
(* placed, and one more node at least while any is left, because the       *)
(* edges have no cycle (LaidOut).                                          *)
(* The graph: the k-th node that is emitted has the k-th code that was     *)
(* given (CodesAre), whichever way it was given, and a code is of the      *)
(* type of its node (Laid, MaterialisesOn).  What is saved was built, so   *)
(* its edges have their ends (BuiltHasEnds), and has one Start; then the   *)
(* nodes, links and references of the server's graph are images of those   *)
(* of the document (NodesAre, LinksAre), the ways among them as well       *)
(* (LinksLead), so a reference that the validator found supplied is led    *)
(* to (EmittedIsSupplied, ImageIsDrawn).                                   *)
(***************************************************************************)
EXTENDS Delivery, DocumentProofs

-----------------------------------------------------------------------------
(* Lists and documents. *)

LEMMA OwnMembers ==
    ASSUME NEW S, NEW s \in Seq(S)
    PROVE  s \in Seq(ToSet(s)) /\ ToSet(s) \subseteq S /\ DOMAIN s = 1 .. Len(s)
BY DEF ToSet

LEMMA Positions ==
    ASSUME NEW S, NEW s \in Seq(S), NEW x
    PROVE  /\ IsFiniteSet({i \in DOMAIN s : s[i] = x})
           /\ Cardinality({i \in DOMAIN s : s[i] = x}) = 0 <=> x \notin ToSet(s)
<1>1. {i \in DOMAIN s : s[i] = x} \subseteq 1 .. Len(s) /\ Len(s) \in Nat  OBVIOUS
<1>2. IsFiniteSet(1 .. Len(s))  BY <1>1, FS_Interval
<1>3. IsFiniteSet({i \in DOMAIN s : s[i] = x})  BY <1>1, <1>2, FS_Subset
<1> DEFINE at == {i \in DOMAIN s : s[i] = x}
<1>4. at = {} <=> x \notin ToSet(s)  BY DEF ToSet
<1> HIDE DEF at
<1>5. Cardinality(at) = 0 <=> at = {}  BY <1>3, FS_EmptySet DEF at
<1>6. QED  BY <1>3, <1>4, <1>5 DEF at

LEMMA SameMembers ==
    ASSUME NEW S, NEW s \in Seq(S), NEW t \in Seq(S), SameList(s, t)
    PROVE  ToSet(s) = ToSet(t)
<1>1. \A x \in ToSet(s) \cup ToSet(t) : Cardinality({i \in DOMAIN s : s[i] = x})
                                        = Cardinality({i \in DOMAIN t : t[i] = x})
  BY DEF SameList
<1>2. \A x : /\ Cardinality({i \in DOMAIN s : s[i] = x}) = 0 <=> x \notin ToSet(s)
             /\ Cardinality({i \in DOMAIN t : t[i] = x}) = 0 <=> x \notin ToSet(t)
  BY Positions
<1>3. QED  BY <1>1, <1>2

LEMMA Joined ==
    ASSUME NEW S, NEW s \in Seq(S), NEW t \in Seq(S)
    PROVE  s \o t \in Seq(S) /\ ToSet(s \o t) = ToSet(s) \cup ToSet(t)
<1>1. /\ s \o t \in Seq(S) /\ Len(s \o t) = Len(s) + Len(t)
      /\ DOMAIN s = 1 .. Len(s) /\ DOMAIN t = 1 .. Len(t) /\ DOMAIN (s \o t) = 1 .. (Len(s) + Len(t))
      /\ Len(s) \in Nat /\ Len(t) \in Nat
  OBVIOUS
<1>2. /\ \A k \in 1 .. Len(s) : (s \o t)[k] = s[k]
      /\ \A k \in 1 .. Len(t) : (s \o t)[Len(s) + k] = t[k]
  OBVIOUS
<1>3. ASSUME NEW x \in ToSet(s \o t) PROVE x \in ToSet(s) \cup ToSet(t)
  <2>1. PICK k \in 1 .. (Len(s) + Len(t)) : x = (s \o t)[k]  BY <1>1 DEF ToSet
  <2>2. CASE k <= Len(s)
    BY <1>1, <1>2, <2>1, <2>2 DEF ToSet
  <2>3. CASE k > Len(s)
    <3>1. k - Len(s) \in 1 .. Len(t) /\ Len(s) + (k - Len(s)) = k  BY <1>1, <2>1, <2>3
    <3>2. QED  BY <1>1, <1>2, <2>1, <3>1 DEF ToSet
  <2>4. QED  BY <1>1, <2>1, <2>2, <2>3
<1>4. ASSUME NEW x \in ToSet(s) PROVE x \in ToSet(s \o t)
  BY <1>1, <1>2 DEF ToSet
<1>5. ASSUME NEW x \in ToSet(t) PROVE x \in ToSet(s \o t)
  <2>1. PICK k \in 1 .. Len(t) : x = t[k]  BY <1>1 DEF ToSet
  <2>2. Len(s) + k \in 1 .. (Len(s) + Len(t))  BY <1>1
  <2>3. QED  BY <1>1, <1>2, <2>1, <2>2 DEF ToSet
<1>6. QED  BY <1>1, <1>3, <1>4, <1>5

\* The members before a position and those after it.
LEMMA Halves ==
    ASSUME NEW S, NEW s \in Seq(S), NEW i \in 1 .. Len(s)
    PROVE  /\ SubSeq(s, 1, i - 1) \in Seq(S) /\ Len(SubSeq(s, 1, i - 1)) = i - 1
           /\ \A k \in 1 .. (i - 1) : SubSeq(s, 1, i - 1)[k] = s[k]
           /\ SubSeq(s, i + 1, Len(s)) \in Seq(S) /\ Len(SubSeq(s, i + 1, Len(s))) = Len(s) - i
           /\ \A k \in 1 .. (Len(s) - i) : SubSeq(s, i + 1, Len(s))[k] = s[i + k]
<1>1. SubSeq(s, 1, i - 1) \in Seq(S)  OBVIOUS
<1>2. Len(SubSeq(s, 1, i - 1)) = i - 1  OBVIOUS
<1>3. \A k \in 1 .. (i - 1) : SubSeq(s, 1, i - 1)[k] = s[k]  OBVIOUS
<1>4. SubSeq(s, i + 1, Len(s)) \in Seq(S)  OBVIOUS
<1>5. Len(SubSeq(s, i + 1, Len(s))) = Len(s) - i  OBVIOUS
<1>6. \A k \in 1 .. (Len(s) - i) : SubSeq(s, i + 1, Len(s))[k] = s[i + k]  OBVIOUS
<1>7. QED  BY <1>1, <1>2, <1>3, <1>4, <1>5, <1>6

\* What a rewired document has: the edge out of the node was the only one.
LEMMA RewiredEdges ==
    ASSUME NEW d, IsDocument(d), NEW e, Cardinality(Outgoing(d, e.node)) = 1
    PROVE  LET o == Original(d, e.node)
               into == Edge(e.node, GateId(e.node), o.data)
               outof == Edge(GateId(e.node), o.to, o.data)
           IN  /\ o \in ToSet(d.edges) /\ o.from = e.node
               /\ \A x \in ToSet(d.edges) : x.from = e.node => x = o
               /\ ToSet(Rewired(d, e)) = {x \in ToSet(d.edges) : x.from # e.node} \cup {into, outof}
               /\ Rewired(d, e) \in Seq(ToSet(Rewired(d, e)))
<1> DEFINE E == d.edges
           o == Original(d, e.node)
           into == Edge(e.node, GateId(e.node), o.data)
           outof == Edge(GateId(e.node), o.to, o.data)
           j == CHOOSE k \in Outgoing(d, e.node) : TRUE
           S == ToSet(E) \cup {into, outof}
<1>1. E \in Seq(ToSet(E)) /\ DOMAIN E = 1 .. Len(E) /\ Len(E) \in Nat
  BY DEF IsDocument
<1>2. Outgoing(d, e.node) \subseteq 1 .. Len(E)  BY <1>1 DEF Outgoing
<1>3. IsFiniteSet(Outgoing(d, e.node))
  <2>1. IsFiniteSet(1 .. Len(E))  BY <1>1, FS_Interval
  <2>2. QED  BY <1>2, <2>1, FS_Subset, Zenon
<1>4. PICK i : Outgoing(d, e.node) = {i}
  <2> DEFINE out == Outgoing(d, e.node)
  <2>1. IsFiniteSet(out) /\ Cardinality(out) = 1  BY <1>3
  <2> HIDE DEF out
  <2>2. \E i : out = {i}  BY <2>1, FS_Singleton
  <2>3. QED  BY <2>2 DEF out
<1>5. j = i /\ i \in 1 .. Len(E) /\ o = E[i]
  <2>1. j = i  BY <1>4
  <2>2. o = E[j]  BY DEF Original
  <2>3. QED  BY <1>2, <1>4, <2>1, <2>2
<1>6. E[i].from = e.node /\ \A k \in 1 .. Len(E) : E[k].from = e.node => k = i
  BY <1>1, <1>4 DEF Outgoing
<1> DEFINE one == SubSeq(E, 1, i - 1)
           two == SubSeq(E, i + 1, Len(E))
           three == <<into, outof>>
<1>7. Rewired(d, e) = (one \o two) \o three
  <2>1. Rewired(d, e) = RemoveAt(E, j) \o three  BY DEF Rewired
  <2>2. RemoveAt(E, i) = one \o two  BY DEF RemoveAt
  <2>3. QED  BY <1>5, <2>1, <2>2
<1> HIDE DEF into, outof, j
<1>8. /\ one \in Seq(S) /\ Len(one) = i - 1 /\ \A k \in 1 .. (i - 1) : one[k] = E[k]
      /\ two \in Seq(S) /\ Len(two) = Len(E) - i /\ \A k \in 1 .. (Len(E) - i) : two[k] = E[i + k]
  <2>1. E \in Seq(S)  BY <1>1
  <2> HIDE DEF S, E
  <2>2. QED  BY <1>5, <2>1, Halves
<1>9. three \in Seq(S) /\ Len(three) = 2 /\ three[1] = into /\ three[2] = outof  OBVIOUS
<1> HIDE DEF one, two, three, S
<1>10. /\ Rewired(d, e) \in Seq(S)
       /\ ToSet(Rewired(d, e)) = (ToSet(one) \cup ToSet(two)) \cup ToSet(three)
  <2> DEFINE both == one \o two
  <2>1. both \in Seq(S) /\ ToSet(both) = ToSet(one) \cup ToSet(two)  BY <1>8, Joined
  <2> HIDE DEF both
  <2>2. both \o three \in Seq(S) /\ ToSet(both \o three) = ToSet(both) \cup ToSet(three)
    BY <1>9, <2>1, Joined
  <2>3. QED  BY <1>7, <2>1, <2>2 DEF both
<1>11. ToSet(three) = {into, outof}
  <2>1. DOMAIN three = {1, 2}  BY <1>9
  <2>2. QED  BY <1>9, <2>1 DEF ToSet
<1>12. ToSet(one) \cup ToSet(two) = {x \in ToSet(E) : x.from # e.node}
  <2>1. DOMAIN one = 1 .. (i - 1) /\ DOMAIN two = 1 .. (Len(E) - i)  BY <1>8
  <2>2. ToSet(one) = {E[k] : k \in 1 .. (i - 1)}  BY <1>8, <2>1 DEF ToSet
  <2>3. ToSet(two) = {E[i + k] : k \in 1 .. (Len(E) - i)}  BY <1>8, <2>1 DEF ToSet
  <2>4. ToSet(E) = {E[k] : k \in 1 .. Len(E)}  BY <1>1 DEF ToSet
  <2>5. ASSUME NEW k \in 1 .. Len(E), k # i PROVE E[k] \in ToSet(one) \cup ToSet(two)
    <3>1. CASE k < i
      <4>1. k \in 1 .. (i - 1)  BY <1>1, <1>5, <3>1
      <4>2. QED  BY <2>2, <4>1
    <3>2. CASE k > i
      <4>1. k - i \in 1 .. (Len(E) - i) /\ i + (k - i) = k  BY <1>1, <1>5, <3>2
      <4>2. QED  BY <2>3, <4>1
    <3>3. QED  BY <1>1, <1>5, <2>5, <3>1, <3>2
  <2>6. ASSUME NEW x \in ToSet(one) \cup ToSet(two) PROVE \E k \in 1 .. Len(E) : x = E[k] /\ k # i
    <3>1. CASE x \in ToSet(one)
      BY <1>1, <1>5, <2>2, <3>1
    <3>2. CASE x \in ToSet(two)
      <4>1. PICK k \in 1 .. (Len(E) - i) : x = E[i + k]  BY <2>3, <3>2
      <4>2. i + k \in 1 .. Len(E) /\ i + k # i  BY <1>1, <1>5
      <4>3. QED  BY <4>1, <4>2
    <3>3. QED  BY <2>6, <3>1, <3>2
  <2>7. QED  BY <1>6, <2>4, <2>5, <2>6
<1>13. /\ o \in ToSet(E) /\ o.from = e.node
       /\ \A x \in ToSet(E) : x.from = e.node => x = o
  BY <1>1, <1>5, <1>6 DEF ToSet
<1>14. Rewired(d, e) \in Seq(ToSet(Rewired(d, e)))  BY <1>10, OwnMembers
<1>15. QED  BY <1>10, <1>11, <1>12, <1>13, <1>14 DEF into, outof


-----------------------------------------------------------------------------
(* A review that stands in a document. *)

Pairs(d) == {<<x.from, x.to>> : x \in ToSet(d.edges)}

\* The gate is there as it was asked for, every edge out of the node enters it, and it
\* leads to the target.
Gated(d, e, target) ==
    /\ Unique(d)
    /\ e.node \in TopIds(d) /\ e.node # GateId(e.node)
    /\ \E i \in TopAt(d) : /\ d.nodes[i].id = GateId(e.node)
                           /\ "reviewer" \in DOMAIN d.nodes[i].set
                           /\ d.nodes[i].set.reviewer = e.value
    /\ \A x \in ToSet(d.edges) : x.from = e.node => x.to = GateId(e.node)
    /\ <<GateId(e.node), target>> \in LeadsTo(Pairs(d))

LEMMA PairsAreFinite ==
    ASSUME NEW d, IsDocument(d)
    PROVE  IsFiniteSet(Pairs(d)) /\ \E A : Pairs(d) \in SUBSET (A \X A)
<1>1. DOMAIN d.edges = 1 .. Len(d.edges) /\ Len(d.edges) \in Nat  BY DEF IsDocument
<1>2. Pairs(d) = {<<d.edges[i].from, d.edges[i].to>> : i \in 1 .. Len(d.edges)}
  BY <1>1 DEF Pairs, ToSet
<1>3. IsFiniteSet(1 .. Len(d.edges))  BY <1>1, FS_Interval
<1>4. IsFiniteSet(Pairs(d))
  <2> DEFINE f(i) == <<d.edges[i].from, d.edges[i].to>>
             D == 1 .. Len(d.edges)
             g == [i \in D |-> f(i)]
  <2>1. \A i \in D : g[i] = f(i)  OBVIOUS
  <2>2. Pairs(d) = {g[i] : i \in D}  BY <1>2, <2>1
  <2>3. g \in Surjection(D, Pairs(d))  BY <2>2 DEF Surjection
  <2>4. QED  BY <1>3, <2>3, FS_Surjection
<1> DEFINE A == {x.from : x \in ToSet(d.edges)} \cup {x.to : x \in ToSet(d.edges)}
<1>5. \A x \in ToSet(d.edges) : x.from \in A /\ x.to \in A  OBVIOUS
<1> HIDE DEF A
<1>6. Pairs(d) \in SUBSET (A \X A)  BY <1>5 DEF Pairs
<1>7. QED  BY <1>4, <1>6

LEMMA GatedMeans ==
    ASSUME NEW d, IsDocument(d), NEW e, NEW target, Gated(d, e, target)
    PROVE  /\ NodeOf(d, GateId(e.node)).set.reviewer = e.value
           /\ \A x \in ToSet(d.edges) : x.from = e.node => x.to = GateId(e.node)
           /\ <<GateId(e.node), target>> \in LeadsTo(Pairs(d))
<1>1. PICK i \in TopAt(d) : /\ d.nodes[i].id = GateId(e.node)
                            /\ d.nodes[i].set.reviewer = e.value
  BY DEF Gated
<1>2. i \in DOMAIN d.nodes /\ DOMAIN d.nodes \subseteq Nat  BY DEF TopAt, IsDocument
<1>3. At(d, GateId(e.node)) = i
  <2>1. \A j \in DOMAIN d.nodes : d.nodes[j].id = GateId(e.node) => j = i
    BY <1>1, <1>2 DEF Gated, Unique
  <2>2. \A j \in DOMAIN d.nodes : d.nodes[j].id = GateId(e.node) => j <= i
    BY <1>2, <2>1
  <2>3. QED  BY <1>1, <1>2, <2>1, <2>2 DEF At
<1>4. QED  BY <1>1, <1>3 DEF NodeOf, Gated

\* What leaves the edges, the ids and the reviewers leaves a review.
Keeps(d, f) ==
    /\ f.edges = d.edges /\ DOMAIN f.nodes = DOMAIN d.nodes
    /\ \A i \in DOMAIN d.nodes :
           /\ f.nodes[i].id = d.nodes[i].id /\ f.nodes[i].in = d.nodes[i].in
           /\ "reviewer" \in DOMAIN d.nodes[i].set =>
                  /\ "reviewer" \in DOMAIN f.nodes[i].set
                  /\ f.nodes[i].set.reviewer = d.nodes[i].set.reviewer

LEMMA KeepsGated ==
    ASSUME NEW d, NEW f, Keeps(d, f), NEW e, NEW target, Gated(d, e, target)
    PROVE  Gated(f, e, target)
<1>1. TopAt(f) = TopAt(d)  BY DEF Keeps, TopAt
<1>2. \A i \in TopAt(d) : i \in DOMAIN d.nodes  BY DEF TopAt
<1>3. TopIds(f) = TopIds(d)
  <2>1. \A i \in TopAt(d) : f.nodes[i].id = d.nodes[i].id  BY <1>2 DEF Keeps
  <2>2. QED  BY <1>1, <2>1 DEF TopIds
<1>4. Unique(f)  BY DEF Keeps, Unique, Gated
<1>5. \E i \in TopAt(f) : /\ f.nodes[i].id = GateId(e.node)
                          /\ "reviewer" \in DOMAIN f.nodes[i].set
                          /\ f.nodes[i].set.reviewer = e.value
  BY <1>1, <1>2 DEF Keeps, Gated
<1>6. Pairs(f) = Pairs(d) /\ ToSet(f.edges) = ToSet(d.edges)  BY DEF Keeps, Pairs
<1>7. QED  BY <1>3, <1>4, <1>5, <1>6 DEF Gated

LEMMA TopKept ==
    ASSUME NEW b, NEW a, TopNodes(b) \subseteq TopNodes(a)
    PROVE  TopIds(b) \subseteq TopIds(a)
BY DEF TopNodes, TopIds

LEMMA GateEstablishes ==
    ASSUME NEW b, IsDocument(b), NEW a, IsDocument(a), Unique(a), NEW e,
           InManualReviewScope(b, a, e)
    PROVE  Gated(a, e, Original(b, e.node).to)
<1> DEFINE o == Original(b, e.node)
           g == GateId(e.node)
<1>1. /\ Cardinality(Outgoing(b, e.node)) = 1 /\ SameList(a.edges, Rewired(b, e))
      /\ TopNodes(a) = TopNodes(b) \cup {GateNode(e)}
      /\ e.node \in TopIds(b) /\ g \notin TopIds(b)
  BY DEF InManualReviewScope
<1>2. ToSet(Rewired(b, e)) = {x \in ToSet(b.edges) : x.from # e.node}
                                 \cup {Edge(e.node, g, o.data), Edge(g, o.to, o.data)}
      /\ Rewired(b, e) \in Seq(ToSet(Rewired(b, e)))
  BY <1>1, RewiredEdges
<1>3. ToSet(a.edges) = ToSet(Rewired(b, e))
  <2> DEFINE S == ToSet(a.edges) \cup ToSet(Rewired(b, e))
  <2>1. a.edges \in Seq(S) /\ Rewired(b, e) \in Seq(S)  BY <1>2 DEF IsDocument
  <2> HIDE DEF S
  <2>2. QED  BY <1>1, <2>1, SameMembers
<1>4. e.node # g  BY <1>1
<1>5. e.node \in TopIds(a)
  BY <1>1, TopKept
<1>6. \E i \in TopAt(a) : /\ a.nodes[i].id = g
                          /\ "reviewer" \in DOMAIN a.nodes[i].set
                          /\ a.nodes[i].set.reviewer = e.value
  <2>1. GateNode(e) \in TopNodes(a)  BY <1>1
  <2>2. PICK i \in TopAt(a) : a.nodes[i] = GateNode(e)  BY <2>1 DEF TopNodes
  <2>3. /\ GateNode(e).id = g /\ "reviewer" \in DOMAIN GateNode(e).set
        /\ GateNode(e).set.reviewer = e.value
    BY DEF GateNode, Bare
  <2>4. QED  BY <2>2, <2>3
<1>7. \A x \in ToSet(a.edges) : x.from = e.node => x.to = g
  BY <1>2, <1>3, <1>4 DEF Edge
<1>8. <<g, o.to>> \in LeadsTo(Pairs(a))
  <2>1. Edge(g, o.to, o.data) \in ToSet(a.edges)  BY <1>2, <1>3
  <2>2. <<g, o.to>> \in Pairs(a)  BY <2>1 DEF Pairs, Edge
  <2>3. Pairs(a) \subseteq LeadsTo(Pairs(a))  BY PairsAreFinite, WaysClosed DEF Closed
  <2>4. QED  BY <2>2, <2>3
<1>9. QED  BY <1>4, <1>5, <1>6, <1>7, <1>8 DEF Gated


\* A later gate, at another node, leaves it: a way over the edge that was replaced goes
\* over the gate now.
LEMMA GateKeeps ==
    ASSUME NEW b, IsDocument(b), NEW a, IsDocument(a), Unique(a), NEW f,
           InManualReviewScope(b, a, f), NEW e, NEW target, Gated(b, e, target)
    PROVE  Gated(a, e, target)
<1> DEFINE o == Original(b, f.node)
           g == GateId(e.node)
           h == GateId(f.node)
<1>1. /\ Cardinality(Outgoing(b, f.node)) = 1 /\ SameList(a.edges, Rewired(b, f))
      /\ TopNodes(a) = TopNodes(b) \cup {GateNode(f)}
      /\ f.node \in TopIds(b) /\ h \notin TopIds(b)
  BY DEF InManualReviewScope
<1>2. /\ o \in ToSet(b.edges) /\ o.from = f.node
      /\ \A x \in ToSet(b.edges) : x.from = f.node => x = o
      /\ ToSet(Rewired(b, f)) = {x \in ToSet(b.edges) : x.from # f.node}
                                 \cup {Edge(f.node, h, o.data), Edge(h, o.to, o.data)}
      /\ Rewired(b, f) \in Seq(ToSet(Rewired(b, f)))
  BY <1>1, RewiredEdges
<1>3. ToSet(a.edges) = ToSet(Rewired(b, f))
  <2> DEFINE S == ToSet(a.edges) \cup ToSet(Rewired(b, f))
  <2>1. a.edges \in Seq(S) /\ Rewired(b, f) \in Seq(S)  BY <1>2 DEF IsDocument
  <2> HIDE DEF S
  <2>2. QED  BY <1>1, <2>1, SameMembers
<1>4. PICK i \in TopAt(b) : /\ b.nodes[i].id = g
                            /\ "reviewer" \in DOMAIN b.nodes[i].set
                            /\ b.nodes[i].set.reviewer = e.value
  BY DEF Gated
<1>5. g \in TopIds(b) /\ e.node \in TopIds(b)  BY <1>4 DEF TopIds, Gated
<1>6. e.node # f.node /\ h # e.node  BY <1>1, <1>5
<1>7. e.node \in TopIds(a) /\ e.node # g  BY <1>1, <1>5, TopKept DEF Gated
<1>8. \E j \in TopAt(a) : /\ a.nodes[j].id = g
                          /\ "reviewer" \in DOMAIN a.nodes[j].set
                          /\ a.nodes[j].set.reviewer = e.value
  <2>1. b.nodes[i] \in TopNodes(a)  BY <1>1 DEF TopNodes
  <2>2. PICK j \in TopAt(a) : a.nodes[j] = b.nodes[i]  BY <2>1 DEF TopNodes
  <2>3. QED  BY <1>4, <2>2
<1>9. \A x \in ToSet(a.edges) : x.from = e.node => x.to = g
  BY <1>2, <1>3, <1>6 DEF Edge, Gated
<1>10. <<g, target>> \in LeadsTo(Pairs(a))
  <2> DEFINE R == LeadsTo(Pairs(a))
  <2>1. Closed(R, Pairs(a))  BY PairsAreFinite, WaysClosed
  <2>2. /\ <<f.node, h>> \in Pairs(a) /\ <<h, o.to>> \in Pairs(a)
    <3>1. Edge(f.node, h, o.data) \in ToSet(a.edges) /\ Edge(h, o.to, o.data) \in ToSet(a.edges)
      BY <1>2, <1>3
    <3>2. QED  BY <3>1 DEF Pairs, Edge
  <2>3. ASSUME NEW y, NEW z, <<y, z>> \in Pairs(b)
        PROVE  <<y, z>> \in Pairs(a) \/ (y = f.node /\ z = o.to)
    <3>1. PICK x \in ToSet(b.edges) : <<y, z>> = <<x.from, x.to>>  BY <2>3 DEF Pairs
    <3>2. CASE x.from = f.node
      BY <1>2, <3>1, <3>2
    <3>3. CASE x.from # f.node
      BY <1>2, <1>3, <3>1, <3>3 DEF Pairs
    <3>4. QED  BY <3>2, <3>3
  <2> HIDE DEF R, o
  <2>4. <<f.node, o.to>> \in R
    BY <2>1, <2>2 DEF Closed
  <2>5. ASSUME NEW x, NEW y, NEW z, <<x, y>> \in R, <<y, z>> \in Pairs(b)
        PROVE  <<x, z>> \in R
    <3>1. CASE <<y, z>> \in Pairs(a)
      BY <2>1, <2>5, <3>1 DEF Closed
    <3>2. CASE y = f.node /\ z = o.to
      <4>1. <<x, h>> \in R  BY <2>1, <2>2, <2>5, <3>2 DEF Closed
      <4>2. QED  BY <2>1, <2>2, <3>2, <4>1 DEF Closed
    <3>3. QED  BY <2>3, <2>5, <3>1, <3>2
  <2>6. Pairs(b) \subseteq R
    <3>1. PICK A : Pairs(b) \in SUBSET (A \X A)  BY PairsAreFinite
    <3>2. ASSUME NEW p \in Pairs(b) PROVE p \in R
      <4>1. PICK y, z : p = <<y, z>>  BY <3>1
      <4>2. QED  BY <2>1, <2>3, <2>4, <3>2, <4>1 DEF Closed
    <3>3. QED  BY <3>2
  <2>7. Closed(R, Pairs(b))  BY <2>5, <2>6 DEF Closed
  <2>8. LeadsTo(Pairs(b)) \subseteq R
    <3>1. PICK A : Pairs(b) \in SUBSET (A \X A)  BY PairsAreFinite
    <3>2. IsFiniteSet(Pairs(b))  BY PairsAreFinite
    <3>3. QED  BY <2>7, <3>1, <3>2, WaysLeast
  <2>9. <<g, target>> \in LeadsTo(Pairs(b))  BY DEF Gated
  <2>10. QED  BY <2>8, <2>9 DEF R
<1>11. QED  BY <1>7, <1>8, <1>9, <1>10 DEF Gated

-----------------------------------------------------------------------------
(* What the operations on documents leave. *)

\* The defaults are written beside the settings.
LEMMA DumpedKeeps ==
    ASSUME NEW d, IsDocument(d)
    PROVE  IsDocument(Dumped(d)) /\ Keeps(d, Dumped(d))
<1> DEFINE f == [i \in DOMAIN d.nodes |-> WithDefaults(d.nodes[i])]
<1>1. Dumped(d) = [d EXCEPT !.nodes = f]  BY DEF Dumped
<1>2. DOMAIN d = DOMAIN Document(<<>>, <<>>) /\ "nodes" \in DOMAIN d
  BY DEF IsDocument, Document
<1>3. /\ Dumped(d).nodes = f /\ Dumped(d).edges = d.edges /\ DOMAIN Dumped(d) = DOMAIN d
  BY <1>1, <1>2
<1>4. \A i \in DOMAIN d.nodes : DOMAIN d.nodes[i] = DOMAIN Bare(None, None)
  BY DEF IsDocument, ToSet
<1>5. \A i \in DOMAIN d.nodes : {"id", "in", "set"} \subseteq DOMAIN d.nodes[i]
  BY <1>4 DEF Bare
<1>6. f \in Seq(ToSet(f)) /\ \A n \in ToSet(f) : \E i \in DOMAIN d.nodes : n = f[i]
  <2>1. d.nodes \in Seq(ToSet(d.nodes))  BY DEF IsDocument
  <2>2. DOMAIN f = DOMAIN d.nodes /\ f = [i \in DOMAIN d.nodes |-> f[i]]  OBVIOUS
  <2> HIDE DEF f
  <2>3. QED  BY <2>1, <2>2, ListReplaced
<1>7. \A i \in DOMAIN d.nodes : /\ DOMAIN f[i] = DOMAIN d.nodes[i]
                                /\ f[i].id = d.nodes[i].id /\ f[i].in = d.nodes[i].in
                                /\ f[i].set = Over(d.nodes[i].set, Defaults(d.nodes[i].kind))
  BY <1>5 DEF WithDefaults
<1>8. IsDocument(Dumped(d))
  <2>1. d.edges \in Seq(ToSet(d.edges))  BY DEF IsDocument
  <2> HIDE DEF f
  <2>2. \A n \in ToSet(f) : DOMAIN n = DOMAIN Bare(None, None)  BY <1>4, <1>6, <1>7
  <2>3. QED  BY <1>2, <1>3, <1>6, <2>1, <2>2 DEF IsDocument
<1>9. ASSUME NEW s, NEW t, "reviewer" \in DOMAIN s
      PROVE  "reviewer" \in DOMAIN Over(s, t) /\ Over(s, t).reviewer = s.reviewer
  BY <1>9 DEF Over
<1>10. DOMAIN f = DOMAIN d.nodes  OBVIOUS
<1>11. QED
  <2> HIDE DEF f
  <2>1. QED  BY <1>3, <1>7, <1>8, <1>9, <1>10 DEF Keeps


\* The kinds of edits that are patched.
Constrained == {"trigger", "disclaimer", "top_k", "retry", "temperature"}

LEMMA FirstOfSix ==
    ASSUME NEW S \in SUBSET (1 .. 6), S # {}
    PROVE  Min(S) \in S
<1>1. \E x \in S : \A y \in S : x <= y
  <2>1. CASE 1 \in S
    BY <2>1
  <2>2. CASE 1 \notin S /\ 2 \in S
    BY <2>2
  <2>3. CASE 1 \notin S /\ 2 \notin S /\ 3 \in S
    BY <2>3
  <2>4. CASE 1 \notin S /\ 2 \notin S /\ 3 \notin S /\ 4 \in S
    BY <2>4
  <2>5. CASE 1 \notin S /\ 2 \notin S /\ 3 \notin S /\ 4 \notin S /\ 5 \in S
    BY <2>5
  <2>6. CASE 1 \notin S /\ 2 \notin S /\ 3 \notin S /\ 4 \notin S /\ 5 \notin S /\ 6 \in S
    BY <2>6
  <2>7. \A x \in S : x \in {1, 2, 3, 4, 5, 6}  OBVIOUS
  <2>8. QED  BY <2>1, <2>2, <2>3, <2>4, <2>5, <2>6, <2>7
<1>2. QED  BY <1>1 DEF Min

LEMMA ParsedKinds ==
    ASSUME NEW m
    PROVE  Parse(m).kind \in Constrained \cup {"review", "invalid", "unrecognized"}
<1> DEFINE readings == {i \in DOMAIN Order : Order[i] \in DOMAIN m}
           k == Order[Min(readings)]
<1>1. DOMAIN Order = 1 .. 6 /\ \A i \in 1 .. 6 : Order[i] \in Constrained \cup {"review"}
  BY DEF Order, Constrained
<1>2. CASE readings = {}
  BY <1>2 DEF Parse, Intent
<1>3. CASE readings # {}
  <2>1. Min(readings) \in 1 .. 6  BY <1>1, <1>3, FirstOfSix
  <2>2. k \in Constrained \cup {"review"}  BY <1>1, <2>1
  <2> DEFINE id == IF k = "disclaimer" THEN m[k].node ELSE Lower(m[k].node)
  <2>3. Parse(m) = Intent(IF InBounds(k, m[k].value) THEN k ELSE "invalid", id, m[k].value)
    BY <1>3 DEF Parse
  <2> HIDE DEF k, id
  <2>4. QED  BY <2>2, <2>3 DEF Intent
<1>4. QED  BY <1>2, <1>3

\* The settings t are those of s but for some of the names in P.
But(s, t, P) ==
    \A x : x \notin P =>
        /\ x \in DOMAIN s <=> x \in DOMAIN t
        /\ x \in DOMAIN s => t[x] = s[x]

\* The setting that an edit is about has the value asked for.
Valued(e, n, s) ==
    /\ e.kind \in {"top_k", "temperature"} => s[e.kind] = e.value
    /\ e.kind = "trigger" => s.mode = e.value /\ DOMAIN s \cap {"schedule", "webhook"} = {}
    /\ e.kind = "disclaimer" => s.rationale = Append(Disclaimers(n), e.value)
    /\ e.kind = "retry" => "retry" \in DOMAIN s /\ s.retry = AsRetry(e.value)

\* A patch changes what the edit is for, of the settings of a node, to what was asked.
LEMMA PatchedIs ==
    ASSUME NEW n, DOMAIN n = DOMAIN Bare(None, None), NEW e, e.kind \in Constrained
    PROVE  LET p == Patched(n, e)
           IN  /\ DOMAIN p = DOMAIN n /\ \A x \in DOMAIN n \ {"set"} : p[x] = n[x]
               /\ But(n.set, p.set, Purpose[e.kind]) /\ Valued(e, n, p.set)
<1>1. "set" \in DOMAIN n  BY DEF Bare
<1>2. ASSUME NEW s, Patched(n, e) = [n EXCEPT !.set = s],
             But(n.set, s, Purpose[e.kind]), Valued(e, n, s)
      PROVE  LET p == Patched(n, e)
             IN  /\ DOMAIN p = DOMAIN n /\ \A x \in DOMAIN n \ {"set"} : p[x] = n[x]
                 /\ But(n.set, p.set, Purpose[e.kind]) /\ Valued(e, n, p.set)
  <2> DEFINE p == [n EXCEPT !.set = s]
  <2>1. DOMAIN p = DOMAIN n /\ p.set = s /\ \A x \in DOMAIN n \ {"set"} : p[x] = n[x]  BY <1>1
  <2> HIDE DEF p
  <2>2. QED  BY <1>2, <2>1 DEF p
<1>3. CASE e.kind = "trigger"
  <2> DEFINE r == Restrict(n.set, DOMAIN n.set \ {"schedule", "webhook"})
             s == Over([mode |-> e.value], r)
  <2>1. DOMAIN r = DOMAIN n.set \ {"schedule", "webhook"} /\ \A x \in DOMAIN r : r[x] = n.set[x]
    BY DEF Restrict
  <2> HIDE DEF r
  <2>2. DOMAIN s = {"mode"} \cup DOMAIN r /\ s.mode = e.value /\ \A x \in DOMAIN r \ {"mode"} : s[x] = r[x]
    BY DEF Over
  <2>3. Patched(n, e) = [n EXCEPT !.set = s]  BY <1>3 DEF Patched, r
  <2> HIDE DEF s
  <2>4. But(n.set, s, {"mode", "schedule", "webhook"})  BY <2>1, <2>2 DEF But
  <2>5. Purpose[e.kind] = {"mode", "schedule", "webhook"}  BY <1>3 DEF Purpose
  <2>6. Valued(e, n, s)  BY <1>3, <2>1, <2>2 DEF Valued
  <2>7. QED  BY <1>2, <2>3, <2>4, <2>5, <2>6
<1>4. CASE e.kind = "top_k"
  <2> DEFINE s == Over([top_k |-> e.value], n.set)
  <2>1. DOMAIN s = {"top_k"} \cup DOMAIN n.set /\ s.top_k = e.value
        /\ \A x \in DOMAIN n.set \ {"top_k"} : s[x] = n.set[x]
    BY DEF Over
  <2>2. Patched(n, e) = [n EXCEPT !.set = s]  BY <1>4 DEF Patched
  <2> HIDE DEF s
  <2>3. But(n.set, s, {"top_k"})  BY <2>1 DEF But
  <2>4. Purpose[e.kind] = {"top_k"}  BY <1>4 DEF Purpose
  <2>5. Valued(e, n, s)  BY <1>4, <2>1 DEF Valued
  <2>6. QED  BY <1>2, <2>2, <2>3, <2>4, <2>5
<1>5. CASE e.kind = "temperature"
  <2> DEFINE s == Over([temperature |-> e.value], n.set)
  <2>1. DOMAIN s = {"temperature"} \cup DOMAIN n.set /\ s.temperature = e.value
        /\ \A x \in DOMAIN n.set \ {"temperature"} : s[x] = n.set[x]
    BY DEF Over
  <2>2. Patched(n, e) = [n EXCEPT !.set = s]  BY <1>5 DEF Patched
  <2> HIDE DEF s
  <2>3. But(n.set, s, {"temperature"})  BY <2>1 DEF But
  <2>4. Purpose[e.kind] = {"temperature"}  BY <1>5 DEF Purpose
  <2>5. Valued(e, n, s)  BY <1>5, <2>1 DEF Valued
  <2>6. QED  BY <1>2, <2>2, <2>3, <2>4, <2>5
<1>6. CASE e.kind = "disclaimer"
  <2> DEFINE v == Append(Disclaimers(n), e.value)
             s == Over([rationale |-> v], n.set)
  <2>1. Patched(n, e) = [n EXCEPT !.set = s]  BY <1>6 DEF Patched
  <2> HIDE DEF v
  <2>2. DOMAIN s = {"rationale"} \cup DOMAIN n.set /\ s.rationale = v
        /\ \A x \in DOMAIN n.set \ {"rationale"} : s[x] = n.set[x]
    BY DEF Over
  <2> HIDE DEF s
  <2>3. But(n.set, s, {"rationale"})  BY <2>2 DEF But
  <2>4. Purpose[e.kind] = {"rationale"}  BY <1>6 DEF Purpose
  <2>5. Valued(e, n, s)  BY <1>6, <2>2 DEF Valued, v
  <2>6. QED  BY <1>2, <2>1, <2>3, <2>4, <2>5
<1>7. CASE e.kind = "retry"
  <2> DEFINE v == AsRetry(e.value)
             s == Over([retry |-> v], n.set)
  <2>1. Patched(n, e) = [n EXCEPT !.set = s]  BY <1>7 DEF Patched
  <2> HIDE DEF v
  <2>2. DOMAIN s = {"retry"} \cup DOMAIN n.set /\ s.retry = v
        /\ \A x \in DOMAIN n.set \ {"retry"} : s[x] = n.set[x]
    BY DEF Over
  <2> HIDE DEF s
  <2>3. But(n.set, s, {"retry"})  BY <2>2 DEF But
  <2>4. Purpose[e.kind] = {"retry"}  BY <1>7 DEF Purpose
  <2>5. Valued(e, n, s)  BY <1>7, <2>2 DEF Valued, v
  <2>6. QED  BY <1>2, <2>1, <2>3, <2>4, <2>5
<1>8. QED  BY <1>3, <1>4, <1>5, <1>6, <1>7 DEF Constrained

\* What an edit is for, of all settings.
EditFields == {"mode", "schedule", "webhook", "top_k", "retry", "temperature", "rationale"}

LEMMA PurposeIs ==
    ASSUME NEW kind \in Constrained
    PROVE  Purpose[kind] \subseteq EditFields
BY DEF Constrained, Purpose, EditFields

LEMMA PatchedNode ==
    ASSUME NEW n, DOMAIN n = DOMAIN Bare(None, None), NEW e, e.kind \in Constrained
    PROVE  LET p == Patched(n, e)
           IN  /\ DOMAIN p = DOMAIN n
               /\ p.id = n.id /\ p.in = n.in /\ p.arm = n.arm /\ p.kind = n.kind /\ p.refs = n.refs
               /\ "reviewer" \in DOMAIN n.set =>
                      "reviewer" \in DOMAIN p.set /\ p.set.reviewer = n.set.reviewer
<1>1. {"id", "in", "arm", "kind", "refs"} \subseteq DOMAIN n \ {"set"}  BY DEF Bare
<1> DEFINE p == Patched(n, e)
<1>2. DOMAIN p = DOMAIN n /\ \A x \in DOMAIN n \ {"set"} : p[x] = n[x]  BY PatchedIs
<1>3. But(n.set, p.set, Purpose[e.kind])  BY PatchedIs
<1>4. "reviewer" \notin Purpose[e.kind]  BY PurposeIs DEF EditFields
<1> HIDE DEF p
<1>5. QED  BY <1>1, <1>2, <1>3, <1>4 DEF But, p

LEMMA EditKeeps ==
    ASSUME NEW d, IsDocument(d), NEW e, e.kind \in Constrained, DeterministicEdit(d, e) # <<>>
    PROVE  LET f == DeterministicEdit(d, e)[1] IN IsDocument(f) /\ Keeps(d, f)
<1> DEFINE found == ResolveNode(d, e)
           i == CHOOSE j \in found : TRUE
           n == Patched(d.nodes[i], e)
           f == [d EXCEPT !.nodes[i] = n]
           was == d.nodes
           ns == [was EXCEPT ![i] = n]
<1>1. found # {} /\ DeterministicEdit(d, e) = <<f>>  BY DEF DeterministicEdit
<1>2. found \subseteq DOMAIN d.nodes  BY DEF ResolveNode, TopAt
<1>3. i \in DOMAIN d.nodes  BY <1>1, <1>2
<1>4. DOMAIN d = DOMAIN Document(<<>>, <<>>) /\ {"nodes", "edges"} \subseteq DOMAIN d
  BY DEF IsDocument, Document
<1>5. \A j \in DOMAIN d.nodes : DOMAIN d.nodes[j] = DOMAIN Bare(None, None)
  BY DEF IsDocument, ToSet
<1> HIDE DEF i, found
<1>6. /\ DOMAIN n = DOMAIN d.nodes[i] /\ n.id = d.nodes[i].id /\ n.in = d.nodes[i].in
      /\ "reviewer" \in DOMAIN d.nodes[i].set =>
             "reviewer" \in DOMAIN n.set /\ n.set.reviewer = d.nodes[i].set.reviewer
  BY <1>3, <1>5, PatchedNode
<1> HIDE DEF n
<1>7. f.nodes = ns /\ f.edges = d.edges /\ DOMAIN f = DOMAIN d
  <2>1. f = [d EXCEPT !.nodes = ns]  OBVIOUS
  <2> HIDE DEF f, ns
  <2>2. QED  BY <1>4, <2>1
<1>8. /\ DOMAIN ns = DOMAIN d.nodes /\ ns = [j \in DOMAIN d.nodes |-> ns[j]]
      /\ ns[i] = n /\ \A j \in DOMAIN d.nodes : j # i => ns[j] = d.nodes[j]
  <2> HIDE DEF was
  <2>1. /\ DOMAIN ns = DOMAIN was /\ ns = [j \in DOMAIN was |-> ns[j]]
        /\ i \in DOMAIN was => ns[i] = n
        /\ \A j \in DOMAIN was : j # i => ns[j] = was[j]
    OBVIOUS
  <2> HIDE DEF ns
  <2>2. QED  BY <1>3, <2>1 DEF was
<1> HIDE DEF f, ns, was
<1>9. ns \in Seq(ToSet(ns)) /\ \A x \in ToSet(ns) : \E j \in DOMAIN d.nodes : x = ns[j]
  <2>1. d.nodes \in Seq(ToSet(d.nodes))  BY DEF IsDocument
  <2>2. DOMAIN ns = DOMAIN d.nodes /\ ns = [j \in DOMAIN d.nodes |-> ns[j]]  BY <1>8
  <2>3. QED  BY <2>1, <2>2, ListReplaced
<1>10. \A x \in ToSet(ns) : DOMAIN x = DOMAIN Bare(None, None)
  <2>1. \A j \in DOMAIN d.nodes : DOMAIN ns[j] = DOMAIN Bare(None, None)
    BY <1>3, <1>5, <1>6, <1>8
  <2>2. QED  BY <1>9, <2>1
<1>11. IsDocument(f)
  <2>1. d.edges \in Seq(ToSet(d.edges))  BY DEF IsDocument
  <2>2. QED  BY <1>4, <1>7, <1>9, <1>10, <2>1 DEF IsDocument
<1>12. Keeps(d, f)
  <2>1. \A j \in DOMAIN d.nodes :
           /\ ns[j].id = d.nodes[j].id /\ ns[j].in = d.nodes[j].in
           /\ "reviewer" \in DOMAIN d.nodes[j].set =>
                  /\ "reviewer" \in DOMAIN ns[j].set
                  /\ ns[j].set.reviewer = d.nodes[j].set.reviewer
    BY <1>6, <1>8
  <2>2. QED  BY <1>7, <1>8, <2>1 DEF Keeps
<1>13. QED  BY <1>1, <1>11, <1>12

LEMMA Appended ==
    ASSUME NEW s, s \in Seq(ToSet(s)), NEW x
    PROVE  Append(s, x) \in Seq(ToSet(Append(s, x))) /\ ToSet(Append(s, x)) = ToSet(s) \cup {x}
<1>1. s \in Seq(ToSet(s) \cup {x})  OBVIOUS
<1>2. Append(s, x) \in Seq(ToSet(s) \cup {x})
  <2> DEFINE T == ToSet(s) \cup {x}
  <2> HIDE DEF T
  <2>1. s \in Seq(T) /\ x \in T  BY <1>1 DEF T
  <2>2. Append(s, x) \in Seq(T)  BY <2>1
  <2>3. QED  BY <2>2 DEF T
<1>3. /\ DOMAIN s = 1 .. Len(s) /\ Len(s) \in Nat /\ DOMAIN Append(s, x) = 1 .. (Len(s) + 1)
      /\ \A i \in 1 .. Len(s) : Append(s, x)[i] = s[i]
      /\ Append(s, x)[Len(s) + 1] = x
  OBVIOUS
<1>4. ToSet(Append(s, x)) = ToSet(s) \cup {x}
  <2>1. ToSet(Append(s, x)) = {Append(s, x)[i] : i \in 1 .. (Len(s) + 1)}  BY <1>3 DEF ToSet
  <2>2. ToSet(s) = {s[i] : i \in 1 .. Len(s)}  BY <1>3 DEF ToSet
  <2>3. \A i \in 1 .. (Len(s) + 1) : i \in 1 .. Len(s) \/ i = Len(s) + 1  BY <1>3
  <2>4. QED  BY <1>3, <2>1, <2>2, <2>3
<1>5. QED  BY <1>2, <1>4


LEMMA ReplacedMember ==
    ASSUME NEW s, s \in Seq(ToSet(s)), NEW i, NEW x
    PROVE  /\ [s EXCEPT ![i] = x] \in Seq(ToSet([s EXCEPT ![i] = x]))
           /\ \A y \in ToSet([s EXCEPT ![i] = x]) : y \in ToSet(s) \/ y = x
<1> DEFINE f == [s EXCEPT ![i] = x]
<1>1. /\ DOMAIN f = DOMAIN s /\ f = [j \in DOMAIN s |-> f[j]]
      /\ \A j \in DOMAIN s : f[j] = s[j] \/ f[j] = x
  OBVIOUS
<1> HIDE DEF f
<1>2. f \in Seq(ToSet(f)) /\ \A y \in ToSet(f) : \E j \in DOMAIN s : y = f[j]
  BY <1>1, ListReplaced
<1>3. \A y \in ToSet(f) : y \in ToSet(s) \/ y = x  BY <1>1, <1>2 DEF ToSet
<1>4. QED  BY <1>2, <1>3 DEF f

LEMMA OtherNodes ==
    ASSUME NEW d, IsDocument(d), NEW ns, ns \in Seq(ToSet(ns)),
           \A n \in ToSet(ns) : DOMAIN n = DOMAIN Bare(None, None)
    PROVE  IsDocument([d EXCEPT !.nodes = ns]) /\ [d EXCEPT !.nodes = ns].nodes = ns
<1>1. "nodes" \in DOMAIN d  BY DEF IsDocument, Document
<1>2. /\ [d EXCEPT !.nodes = ns].nodes = ns /\ [d EXCEPT !.nodes = ns].edges = d.edges
      /\ DOMAIN [d EXCEPT !.nodes = ns] = DOMAIN d
  BY <1>1
<1>3. QED  BY <1>2 DEF IsDocument

LEMMA OtherEdges ==
    ASSUME NEW d, IsDocument(d), NEW es, es \in Seq(ToSet(es))
    PROVE  IsDocument([d EXCEPT !.edges = es]) /\ [d EXCEPT !.edges = es].edges = es
<1>1. "edges" \in DOMAIN d  BY DEF IsDocument, Document
<1>2. /\ [d EXCEPT !.edges = es].edges = es /\ [d EXCEPT !.edges = es].nodes = d.nodes
      /\ DOMAIN [d EXCEPT !.edges = es] = DOMAIN d
  BY <1>1
<1>3. QED  BY <1>2 DEF IsDocument

LEMMA RewiredIsList ==
    ASSUME NEW d, IsDocument(d), NEW e, Outgoing(d, e.node) # {}
    PROVE  Rewired(d, e) \in Seq(ToSet(Rewired(d, e)))
<1> DEFINE E == d.edges
           o == Original(d, e.node)
           j == CHOOSE k \in Outgoing(d, e.node) : TRUE
           three == <<Edge(e.node, GateId(e.node), o.data), Edge(GateId(e.node), o.to, o.data)>>
           S == ToSet(E) \cup {three[1], three[2]}
           one == SubSeq(E, 1, j - 1)
           two == SubSeq(E, j + 1, Len(E))
<1>1. E \in Seq(S) /\ DOMAIN E = 1 .. Len(E)  BY DEF IsDocument
<1>2. j \in DOMAIN E  BY DEF Outgoing
<1>3. three \in Seq(S)  OBVIOUS
<1>4. Rewired(d, e) = RemoveAt(E, j) \o three  BY DEF Rewired
<1>5. RemoveAt(E, j) = one \o two  BY DEF RemoveAt
<1> HIDE DEF j, three, S, E, o
<1>6. one \in Seq(S) /\ two \in Seq(S)  BY <1>1, <1>2, Halves
<1> HIDE DEF one, two
<1>7. RemoveAt(E, j) \in Seq(S)  BY <1>5, <1>6, Joined
<1>8. Rewired(d, e) \in Seq(S)  BY <1>3, <1>4, <1>7, Joined
<1>9. QED  BY <1>8, OwnMembers

LEMMA RepliesAreDocuments ==
    ASSUME NEW d, IsDocument(d), NEW e, NEW reply \in GateReplies(d, e)
    PROVE  IsDocument(reply)
<1> DEFINE gated == [d EXCEPT !.nodes = Append(@, GateNode(e))]
           flip(x) == [x EXCEPT !.data = ~@]
           asked == [gated EXCEPT !.edges = Rewired(d, e)]
           more(x) == [gated EXCEPT !.edges = Append(@, x)]
           list(r) == r.nodes \in Seq(ToSet(r.nodes)) /\ r.edges \in Seq(ToSet(r.edges))
           nodes(r) == \A n \in ToSet(r.nodes) : DOMAIN n = DOMAIN Bare(None, None)
           into == Edge(e.node, GateId(e.node), TRUE)
           six == {asked, [asked EXCEPT !.edges[1] = flip(@)], [asked EXCEPT !.metadata = "changed"],
                   [asked EXCEPT !.edges = Append(@, Original(d, e.node))],
                   [asked EXCEPT !.nodes[Len(d.nodes) + 1].set.reviewer = "nobody"],
                   [asked EXCEPT !.nodes[1].set = Over([mode |-> "webhook"], @)]}
<1>1. DOMAIN GateNode(e) = DOMAIN Bare(None, None)  BY DEF GateNode, Bare
<1>2. IsDocument(gated) /\ gated.nodes = Append(d.nodes, GateNode(e))
  <2> DEFINE ns == Append(d.nodes, GateNode(e))
  <2>1. d.nodes \in Seq(ToSet(d.nodes)) /\ \A n \in ToSet(d.nodes) : DOMAIN n = DOMAIN Bare(None, None)
    BY DEF IsDocument
  <2>2. ns \in Seq(ToSet(ns)) /\ ToSet(ns) = ToSet(d.nodes) \cup {GateNode(e)}
    BY <2>1, Appended
  <2>3. gated = [d EXCEPT !.nodes = ns]  OBVIOUS
  <2> HIDE DEF ns, gated
  <2>4. \A n \in ToSet(ns) : DOMAIN n = DOMAIN Bare(None, None)  BY <1>1, <2>1, <2>2
  <2>5. IsDocument(gated) /\ gated.nodes = ns  BY <2>2, <2>3, <2>4, OtherNodes
  <2>6. QED  BY <2>5 DEF ns
<1> HIDE DEF gated
<1>3. ASSUME NEW x PROVE IsDocument([gated EXCEPT !.edges = Append(@, x)])
  <2> DEFINE es == Append(gated.edges, x)
  <2>1. gated.edges \in Seq(ToSet(gated.edges))  BY <1>2 DEF IsDocument
  <2>2. es \in Seq(ToSet(es))  BY <2>1, Appended
  <2>3. [gated EXCEPT !.edges = Append(@, x)] = [gated EXCEPT !.edges = es]  OBVIOUS
  <2> HIDE DEF es
  <2>4. IsDocument([gated EXCEPT !.edges = es])  BY <1>2, <2>2, OtherEdges
  <2>5. QED  BY <2>3, <2>4
<1>4. CASE reply \in {d, gated, [gated EXCEPT !.edges = Append(@, into)]}
  <2>1. IsDocument([gated EXCEPT !.edges = Append(@, into)])  BY <1>3
  <2>2. QED  BY <1>2, <1>4, <2>1
<1>5. CASE Outgoing(d, e.node) # {} /\ reply \in six
  <2>1. IsDocument(asked)
    <3>1. Rewired(d, e) \in Seq(ToSet(Rewired(d, e)))  BY <1>5, RewiredIsList
    <3>2. QED  BY <1>2, <3>1, OtherEdges
  <2> HIDE DEF asked
  <2>2. ASSUME NEW x PROVE IsDocument([asked EXCEPT !.edges = Append(@, x)])
    <3> DEFINE es == Append(asked.edges, x)
    <3>1. asked.edges \in Seq(ToSet(asked.edges))  BY <2>1 DEF IsDocument
    <3>2. es \in Seq(ToSet(es))  BY <3>1, Appended
    <3>3. [asked EXCEPT !.edges = Append(@, x)] = [asked EXCEPT !.edges = es]  OBVIOUS
    <3> HIDE DEF es
    <3>4. IsDocument([asked EXCEPT !.edges = es])  BY <2>1, <3>2, OtherEdges
    <3>5. QED  BY <3>3, <3>4
  <2>3. IsDocument([asked EXCEPT !.edges[1] = flip(@)])
    <3> DEFINE was == asked.edges
               es == [was EXCEPT ![1] = flip(was[1])]
    <3>1. was \in Seq(ToSet(was))  BY <2>1 DEF IsDocument
    <3> HIDE DEF was
    <3>2. es \in Seq(ToSet(es))  BY <3>1, ReplacedMember
    <3>3. [asked EXCEPT !.edges[1] = flip(@)] = [asked EXCEPT !.edges = es]  BY DEF was
    <3> HIDE DEF es
    <3>4. IsDocument([asked EXCEPT !.edges = es])  BY <2>1, <3>2, OtherEdges
    <3>5. QED  BY <3>3, <3>4
  <2>4. IsDocument([asked EXCEPT !.metadata = "changed"])
    <3>1. /\ DOMAIN [asked EXCEPT !.metadata = "changed"] = DOMAIN asked
          /\ [asked EXCEPT !.metadata = "changed"].nodes = asked.nodes
          /\ [asked EXCEPT !.metadata = "changed"].edges = asked.edges
      BY <2>1 DEF IsDocument, Document
    <3>2. QED  BY <2>1, <3>1 DEF IsDocument
  <2>5. ASSUME NEW i, NEW n, i \in DOMAIN asked.nodes => DOMAIN n = DOMAIN asked.nodes[i]
        PROVE  IsDocument([asked EXCEPT !.nodes[i] = n])
    <3> DEFINE was == asked.nodes
               ns == [was EXCEPT ![i] = n]
    <3>1. was \in Seq(ToSet(was)) /\ \A x \in ToSet(was) : DOMAIN x = DOMAIN Bare(None, None)
      BY <2>1 DEF IsDocument
    <3>2. i \in DOMAIN was => DOMAIN n = DOMAIN Bare(None, None)
      BY <2>5, <3>1 DEF ToSet
    <3>3. [asked EXCEPT !.nodes[i] = n] = [asked EXCEPT !.nodes = ns]  OBVIOUS
    <3> HIDE DEF was
    <3>4. ns \in Seq(ToSet(ns)) /\ \A y \in ToSet(ns) : y \in ToSet(was) \/ y = n
      BY <3>1, ReplacedMember
    <3>5. i \notin DOMAIN was => ns = was
      <4>1. was = [k \in DOMAIN was |-> was[k]]  BY <3>1
      <4>2. QED  BY <4>1
    <3> HIDE DEF ns
    <3>6. \A y \in ToSet(ns) : DOMAIN y = DOMAIN Bare(None, None)  BY <3>1, <3>2, <3>4, <3>5
    <3>7. IsDocument([asked EXCEPT !.nodes = ns])  BY <2>1, <3>4, <3>6, OtherNodes
    <3>8. QED  BY <3>3, <3>7
  <2>6. IsDocument([asked EXCEPT !.nodes[Len(d.nodes) + 1].set.reviewer = "nobody"])
    <3> DEFINE i == Len(d.nodes) + 1
               n == [asked.nodes[i] EXCEPT !.set.reviewer = "nobody"]
    <3>1. [asked EXCEPT !.nodes[i].set.reviewer = "nobody"] = [asked EXCEPT !.nodes[i] = n]
      OBVIOUS
    <3>2. DOMAIN n = DOMAIN asked.nodes[i]  OBVIOUS
    <3> HIDE DEF n, i
    <3>3. IsDocument([asked EXCEPT !.nodes[i] = n])  BY <2>5, <3>2
    <3>4. QED  BY <3>1, <3>3 DEF i
  <2>7. IsDocument([asked EXCEPT !.nodes[1].set = Over([mode |-> "webhook"], @)])
    <3> DEFINE n == [asked.nodes[1] EXCEPT !.set = Over([mode |-> "webhook"], @)]
    <3>1. [asked EXCEPT !.nodes[1].set = Over([mode |-> "webhook"], @)] = [asked EXCEPT !.nodes[1] = n]
      OBVIOUS
    <3>2. DOMAIN n = DOMAIN asked.nodes[1]  OBVIOUS
    <3> HIDE DEF n
    <3>3. IsDocument([asked EXCEPT !.nodes[1] = n])  BY <2>5, <3>2
    <3>4. QED  BY <3>1, <3>3
  <2>8. QED  BY <1>5, <2>1, <2>2, <2>3, <2>4, <2>6, <2>7
<1>6. reply \in {d, gated, [gated EXCEPT !.edges = Append(@, into)]} \/ (Outgoing(d, e.node) # {} /\ reply \in six)
  BY DEF GateReplies, gated
<1>7. QED  BY <1>4, <1>5, <1>6


-----------------------------------------------------------------------------
(* The turns of a session. *)

\* A gate was accepted in turn k, and the workflow was not planned anew since.
Standing(k) ==
    /\ session.turns[k].outcome = "gated"
    /\ \A j \in k .. Len(session.turns) : session.turns[j].outcome # "planned"

\* The review that turn t asked for stands in document d.
Holding(d, t) == Gated(d, Parse(t.asked), Original(t.before, Parse(t.asked).node).to)

ReviewsStand ==
    \A k \in DOMAIN session.turns :
        Standing(k) => IsDocument(session.ir) /\ Holding(session.ir, session.turns[k])

EditsInv ==
    /\ session.turns \in Seq(ToSet(session.turns))
    /\ session.ir # None => IsDocument(session.ir)
    /\ \A d \in asks.drafts : IsDocument(d)
    /\ ReviewsStand

LEMMA TurnEnds ==
    ASSUME EditsInv, asks' = asks,
           NEW m, NEW outcome, NEW after, NEW expected, EndTurn(m, outcome, after, expected),
           outcome \in Accepted => IsDocument(after),
           outcome = "gated" => Gated(after, Parse(m), Original(session.ir, Parse(m).node).to),
           \A k \in DOMAIN session.turns :
               Standing(k) /\ outcome \in {"edited", "gated"} => Holding(after, session.turns[k])
    PROVE  EditsInv'
<1> DEFINE new == [asked |-> m, outcome |-> outcome, before |-> session.ir,
                   after |-> after, expected |-> expected]
           turns == session.turns
           ir == session.ir
           n == Len(turns)
<1>1. session'.turns = Append(turns, new) /\ session'.ir = IF outcome \in Accepted THEN after ELSE ir
  BY DEF EndTurn
<1>2. turns \in Seq(ToSet(turns)) /\ n \in Nat /\ DOMAIN turns = 1 .. n  BY DEF EditsInv
<1>3. session'.turns \in Seq(ToSet(session'.turns))  BY <1>1, <1>2, Appended
<1>4. /\ Len(session'.turns) = n + 1 /\ DOMAIN session'.turns = 1 .. (n + 1)
      /\ \A k \in 1 .. n : session'.turns[k] = turns[k]
      /\ session'.turns[n + 1] = new
  <2> HIDE DEF turns, new
  <2>1. QED  BY <1>1, <1>2
<1>5. session'.ir # None => IsDocument(session'.ir)  BY <1>1 DEF EditsInv
<1>6. new.outcome = outcome /\ new.asked = m /\ new.before = ir  OBVIOUS
<1> HIDE DEF new
<1>7. ASSUME NEW k \in 1 .. (n + 1), session'.turns[k].outcome = "gated",
             \A j \in k .. (n + 1) : session'.turns[j].outcome # "planned"
      PROVE  IsDocument(session'.ir) /\ Holding(session'.ir, session'.turns[k])
  <2>1. outcome # "planned"  BY <1>2, <1>4, <1>6, <1>7
  <2>2. CASE k = n + 1
    <3>1. outcome = "gated" /\ session'.ir = after
      BY <1>1, <1>4, <1>6, <1>7, <2>2 DEF Accepted
    <3>2. Holding(after, new)  BY <1>6, <3>1 DEF Holding
    <3>3. IsDocument(after)  BY <3>1 DEF Accepted
    <3>4. QED  BY <1>4, <2>2, <3>1, <3>2, <3>3
  <2>3. CASE k \in 1 .. n
    <3>1. Standing(k)
      <4>1. \A j \in k .. n : j \in 1 .. n /\ j \in k .. (n + 1)  BY <1>2
      <4>2. QED  BY <1>4, <1>7, <2>3, <4>1 DEF Standing
    <3>2. IsDocument(ir) /\ Holding(ir, turns[k])
      BY <1>2, <2>3, <3>1 DEF EditsInv, ReviewsStand
    <3>3. CASE outcome \in Accepted
      <4>1. outcome \in {"edited", "gated"} /\ session'.ir = after
        BY <1>1, <2>1, <3>3 DEF Accepted
      <4>2. Holding(after, turns[k])  BY <1>2, <2>3, <3>1, <4>1
      <4>3. QED  BY <1>4, <2>3, <3>3, <4>1, <4>2
    <3>4. CASE outcome \notin Accepted
      BY <1>1, <1>4, <2>3, <3>2, <3>4
    <3>5. QED  BY <3>3, <3>4
  <2>4. QED  BY <1>2, <1>7, <2>2, <2>3
<1>8. ReviewsStand'
  <2> SUFFICES ASSUME NEW k \in DOMAIN session'.turns, Standing(k)'
               PROVE  IsDocument(session'.ir) /\ Holding(session'.ir, session'.turns[k])
    BY DEF ReviewsStand, Holding
  <2>1. QED  BY <1>4, <1>7 DEF Standing
<1>9. QED  BY <1>3, <1>5, <1>8 DEF EditsInv

\* A document that every review of the session keeps.
LEMMA KeptBy ==
    ASSUME EditsInv, session.ir # None, NEW d, Keeps(session.ir, d),
           NEW k \in DOMAIN session.turns, Standing(k)
    PROVE  Holding(d, session.turns[k])
BY KeepsGated DEF EditsInv, ReviewsStand, Holding

LEMMA KeepsTwice ==
    ASSUME NEW d, NEW f, NEW g, Keeps(d, f), Keeps(f, g)
    PROVE  Keeps(d, g)
BY DEF Keeps

LEMMA CurrentKeeps ==
    ASSUME EditsInv, session.ir # None
    PROVE  IsDocument(Current) /\ Keeps(session.ir, Current)
BY DumpedKeeps DEF EditsInv, Current

LEMMA SameOriginal ==
    ASSUME NEW d, NEW f, Keeps(d, f), NEW id
    PROVE  Original(f, id) = Original(d, id)
BY DEF Keeps, Original, Outgoing

LEMMA PlanTurnKeeps ==
    ASSUME EditsInv, PlanTurn
    PROVE  EditsInv'
<1>1. asks' = asks  BY DEF PlanTurn, MayTurn
<1>2. PICK d \in asks.drafts : IF Validate(d) = {} THEN EndTurn(<<>>, "planned", Dumped(d), {})
                               ELSE EndTurn(<<>>, "failed", None, {})
  BY DEF PlanTurn
<1>3. CASE EndTurn(<<>>, "planned", Dumped(d), {})
  <2>1. IsDocument(Dumped(d))  BY DumpedKeeps DEF EditsInv
  <2>2. QED  BY <1>1, <1>3, <2>1, TurnEnds
<1>4. CASE EndTurn(<<>>, "failed", None, {})
  BY <1>1, <1>4, TurnEnds DEF Accepted
<1>5. QED  BY <1>2, <1>3, <1>4

LEMMA EditTurnKeeps ==
    ASSUME EditsInv, EditTurn
    PROVE  EditsInv'
<1>1. asks' = asks /\ session.ir # None  BY DEF EditTurn, MayTurn
<1>2. PICK m \in asks.messages :
          LET e == Parse(m)
              edited == IF e.kind = "unrecognized" THEN <<>> ELSE DeterministicEdit(Current, e)
          IN  /\ e.kind \notin {"review", "invalid"}
              /\ IF edited = <<>> THEN EndTurn(m, "rejected", None, {})
                 ELSE IF Validate(edited[1]) # {} THEN EndTurn(m, "failed", None, {})
                 ELSE EndTurn(m, "edited", edited[1], Diff(Current, edited[1]))
  BY DEF EditTurn
<1> DEFINE e == Parse(m)
           f == DeterministicEdit(Current, e)[1]
<1>3. CASE EndTurn(m, "rejected", None, {}) \/ EndTurn(m, "failed", None, {})
  <2>1. CASE EndTurn(m, "rejected", None, {})
    BY <1>1, <2>1, TurnEnds DEF Accepted
  <2>2. CASE EndTurn(m, "failed", None, {})
    BY <1>1, <2>2, TurnEnds DEF Accepted
  <2>3. QED  BY <1>3, <2>1, <2>2
<1>4. CASE /\ e.kind # "unrecognized" /\ DeterministicEdit(Current, e) # <<>>
           /\ EndTurn(m, "edited", f, Diff(Current, f))
  <2>1. e.kind \in Constrained  BY <1>2, <1>4, ParsedKinds
  <2>2. IsDocument(Current) /\ Keeps(session.ir, Current)  BY <1>1, CurrentKeeps
  <2>3. IsDocument(f) /\ Keeps(Current, f)  BY <1>4, <2>1, <2>2, EditKeeps
  <2>4. Keeps(session.ir, f)  BY <2>2, <2>3, KeepsTwice
  <2> DEFINE expected == Diff(Current, f)
  <2> HIDE DEF f, e, expected
  <2>5. EndTurn(m, "edited", f, expected)  BY <1>4 DEF expected
  <2>6. \A k \in DOMAIN session.turns : Standing(k) => Holding(f, session.turns[k])
    BY <1>1, <2>4, KeptBy
  <2>7. QED  BY <1>1, <2>3, <2>5, <2>6, TurnEnds
<1>5. QED  BY <1>2, <1>3, <1>4

LEMMA GateTurnKeeps ==
    ASSUME EditsInv, GateTurn
    PROVE  EditsInv'
<1>1. asks' = asks /\ session.ir # None  BY DEF GateTurn, MayTurn
<1> DEFINE ended(m, reply) ==
          IF ~InManualReviewScope(Current, reply, Parse(m)) THEN EndTurn(m, "rejected", None, {})
          ELSE IF Validate(reply) # {} THEN EndTurn(m, "failed", None, {})
          ELSE EndTurn(m, "gated", reply, {})
<1>2. PICK m \in asks.messages : \E reply \in GateReplies(Current, Parse(m)) : ended(m, reply)
  BY DEF GateTurn
<1>0. PICK reply \in GateReplies(Current, Parse(m)) : ended(m, reply)  BY <1>2
<1> DEFINE e == Parse(m)
<1>3. CASE EndTurn(m, "rejected", None, {})
  BY <1>1, <1>3, TurnEnds DEF Accepted
<1>4. CASE EndTurn(m, "failed", None, {})
  BY <1>1, <1>4, TurnEnds DEF Accepted
<1>5. CASE InManualReviewScope(Current, reply, e) /\ Validate(reply) = {} /\ EndTurn(m, "gated", reply, {})
  <2>1. IsDocument(Current) /\ Keeps(session.ir, Current)  BY <1>1, CurrentKeeps
  <2>2. IsDocument(reply)  BY <2>1, RepliesAreDocuments
  <2>3. Unique(reply)  BY <1>5, <2>2, AcceptedMeans, UniqueNodes
  <2>4. Gated(reply, e, Original(session.ir, e.node).to)
    <3>1. Gated(reply, e, Original(Current, e.node).to)
      BY <1>5, <2>1, <2>2, <2>3, GateEstablishes
    <3>2. Original(Current, e.node) = Original(session.ir, e.node)  BY <2>1, SameOriginal
    <3>3. QED  BY <3>1, <3>2
  <2>5. ASSUME NEW k \in DOMAIN session.turns, Standing(k)
        PROVE  Holding(reply, session.turns[k])
    <3>1. Holding(Current, session.turns[k])  BY <1>1, <2>1, <2>5, KeptBy
    <3>2. QED  BY <1>5, <2>1, <2>2, <2>3, <3>1, GateKeeps DEF Holding
  <2>6. QED  BY <1>1, <1>5, <2>2, <2>4, <2>5, TurnEnds
<1>6. QED  BY <1>0, <1>3, <1>4, <1>5

LEMMA EditsStep ==
    ASSUME EditsInv, EditStep \/ UNCHANGED editVars
    PROVE  EditsInv'
<1>1. CASE PlanTurn  BY <1>1, PlanTurnKeeps
<1>2. CASE EditTurn  BY <1>2, EditTurnKeeps
<1>3. CASE GateTurn  BY <1>3, GateTurnKeeps
<1>4. CASE FailTurn
  <2>1. asks' = asks  BY <1>4 DEF FailTurn, MayTurn
  <2>2. PICK m : EndTurn(m, "failed", None, {})  BY <1>4 DEF FailTurn
  <2>3. QED  BY <2>1, <2>2, TurnEnds DEF Accepted
<1>5. CASE UNCHANGED editVars
  BY <1>5 DEF EditsInv, ReviewsStand, Standing, Holding, editVars
<1>6. CASE Export
  BY <1>5, <1>6 DEF Export
<1>7. QED  BY <1>1, <1>2, <1>3, <1>4, <1>5, <1>6 DEF EditStep

LEMMA EditsHolds == Spec => []EditsInv
<1>1. Init => EditsInv
  <2> SUFFICES ASSUME Init PROVE EditsInv
    OBVIOUS
  <2>1. PICK s \in Scenarios : EditsInit(s.asks, s.ir)  BY DEF Init
  <2>2. /\ asks = s.asks /\ session.ir = s.ir /\ session.turns = <<>>
    BY <2>1 DEF EditsInit
  <2>3. \A d \in asks.drafts : IsDocument(d)  BY <2>2, ScenariosAssumption
  <2>4. session.ir # None => IsDocument(session.ir)  BY <2>2, ScenariosAssumption
  <2>5. session.turns \in Seq(ToSet(session.turns)) /\ DOMAIN session.turns = {}  BY <2>2
  <2>6. QED  BY <2>3, <2>4, <2>5 DEF EditsInv, ReviewsStand
<1>2. EditsInv /\ [Next]_vars => EditsInv'
  BY EditsStep DEF Next, Plan, Edit, Push, vars, editVars
<1>3. QED  BY <1>1, <1>2, PTL DEF Spec

\* A review that was accepted stays on the way until the workflow is planned anew
\* (sessions.py:1187-1245).
THEOREM GatesStay == Spec => []GateStays
<1>1. EditsInv => GateStays
  <2> SUFFICES ASSUME EditsInv, NEW k \in DOMAIN session.turns,
                      session.turns[k].outcome = "gated",
                      \A j \in k .. Len(session.turns) : session.turns[j].outcome # "planned"
               PROVE  LET e == Parse(session.turns[k].asked)
                          gate == GateId(e.node)
                          leads == LeadsTo({<<x.from, x.to>> : x \in ToSet(session.ir.edges)})
                      IN  /\ NodeOf(session.ir, gate).set.reviewer = e.value
                          /\ \A x \in ToSet(session.ir.edges) : x.from = e.node => x.to = gate
                          /\ <<gate, Original(session.turns[k].before, e.node).to>> \in leads
    BY DEF GateStays
  <2> DEFINE e == Parse(session.turns[k].asked)
             target == Original(session.turns[k].before, e.node).to
  <2>1. IsDocument(session.ir) /\ Gated(session.ir, e, target)
    BY DEF EditsInv, ReviewsStand, Standing, Holding
  <2> HIDE DEF e, target
  <2>2. /\ NodeOf(session.ir, GateId(e.node)).set.reviewer = e.value
        /\ \A x \in ToSet(session.ir.edges) : x.from = e.node => x.to = GateId(e.node)
        /\ <<GateId(e.node), target>> \in LeadsTo(Pairs(session.ir))
    BY <2>1, GatedMeans
  <2>3. QED  BY <2>2 DEF Pairs, e, target
<1>2. QED  BY <1>1, EditsHolds, PTL


-----------------------------------------------------------------------------
(* The documents of a session. *)

\* What a document of the models is, whatever its ids.
Typed(d) == IsDocument(d) /\ IsNested(d) /\ IsTyped(d)

\* What the models ask of the settings of a node.
WellSet(s) ==
    /\ DOMAIN s \cap {"type", "branches", "credential"} = {}
    /\ "budget" \in DOMAIN s => s.budget \in Int

\* Nodes whose settings were changed.
Reset(d, ns) ==
    /\ DOMAIN ns = DOMAIN d.nodes /\ ns = [i \in DOMAIN d.nodes |-> ns[i]]
    /\ \A i \in DOMAIN d.nodes :
           LET m == d.nodes[i]
               n == ns[i]
           IN  /\ DOMAIN n = DOMAIN m /\ WellSet(n.set)
               /\ n.id = m.id /\ n.in = m.in /\ n.arm = m.arm /\ n.kind = m.kind /\ n.refs = m.refs

LEMMA ResetKeeps ==
    ASSUME NEW d, Typed(d), NEW ns, Reset(d, ns)
    PROVE  LET f == [d EXCEPT !.nodes = ns]
           IN  /\ Typed(f) /\ Aligned(d, f)
               /\ Unique(d) => Unique(f)
               /\ f.nodes = ns /\ f.edges = d.edges /\ Governance(f) = Governance(d)
               /\ f.version = d.version
<1> DEFINE f == [d EXCEPT !.nodes = ns]
<1>1. DOMAIN d = DOMAIN Document(<<>>, <<>>)  BY DEF Typed, IsDocument
<1>2. {"nodes", "edges", "policy", "metadata", "pinned", "tools", "datasets", "credentials",
       "inputs", "outputs", "version"} \subseteq DOMAIN d
  BY <1>1 DEF Document
<1>3. /\ f.nodes = ns /\ f.edges = d.edges /\ f.policy = d.policy /\ DOMAIN f = DOMAIN d
      /\ f.metadata = d.metadata /\ f.pinned = d.pinned /\ f.tools = d.tools /\ f.datasets = d.datasets
      /\ f.credentials = d.credentials /\ f.inputs = d.inputs /\ f.outputs = d.outputs
      /\ f.version = d.version
  BY <1>2
<1> HIDE DEF f
<1>4. \A i \in DOMAIN d.nodes : DOMAIN d.nodes[i] = DOMAIN Bare(None, None)
  BY DEF Typed, IsDocument, ToSet
<1>5. ns \in Seq(ToSet(ns)) /\ \A n \in ToSet(ns) : \E i \in DOMAIN d.nodes : n = ns[i]
  <2>1. d.nodes \in Seq(ToSet(d.nodes))  BY DEF Typed, IsDocument
  <2>2. DOMAIN ns = DOMAIN d.nodes /\ ns = [i \in DOMAIN d.nodes |-> ns[i]]  BY DEF Reset
  <2>3. QED  BY <2>1, <2>2, ListReplaced
<1>6. IsDocument(f)
  <2>1. d.edges \in Seq(ToSet(d.edges))  BY DEF Typed, IsDocument
  <2>2. \A n \in ToSet(ns) : DOMAIN n = DOMAIN Bare(None, None)  BY <1>4, <1>5 DEF Reset
  <2>3. QED  BY <1>1, <1>3, <1>5, <2>1, <2>2 DEF IsDocument
<1>7. IsNested(f)  BY <1>3 DEF Typed, IsNested, Reset
<1>8. Aligned(d, f)  BY <1>3 DEF Aligned, Reset
<1>9. IsTyped(f)
  <2>1. \A e \in ToSet(f.edges) : e = [from |-> e.from, to |-> e.to, data |-> e.data, when |-> e.when]
    BY <1>3 DEF Typed, IsTyped
  <2>2. /\ f.policy = [name \in DOMAIN f.policy |-> f.policy[name]]
        /\ "agent_budget" \in DOMAIN f.policy => f.policy.agent_budget \in Int
    BY <1>3 DEF Typed, IsTyped
  <2>3. ASSUME NEW i \in DOMAIN f.nodes
        PROVE  LET n == f.nodes[i] IN
               /\ WellSet(n.set)
               /\ n.in # 0 => f.nodes[n.in].kind = IF n.arm = "body" THEN "loop" ELSE "parallel"
    <3>1. i \in DOMAIN d.nodes /\ f.nodes[i] = ns[i]  BY <1>3 DEF Reset
    <3>2. d.nodes[i].in # 0 =>
              d.nodes[d.nodes[i].in].kind = IF d.nodes[i].arm = "body" THEN "loop" ELSE "parallel"
      BY <3>1 DEF Typed, IsTyped
    <3>3. d.nodes[i].in # 0 => d.nodes[i].in \in DOMAIN d.nodes  BY <3>1, PlaceInside DEF Typed
    <3>4. QED  BY <1>3, <3>1, <3>2, <3>3 DEF Reset
  <2>4. QED  BY <2>1, <2>2, <2>3 DEF IsTyped, WellSet
<1>10. Unique(d) => Unique(f)  BY <1>8 DEF Aligned, Unique
<1>11. Governance(f) = Governance(d)  BY <1>3 DEF Governance
<1>12. QED  BY <1>3, <1>6, <1>7, <1>8, <1>9, <1>10, <1>11 DEF Typed, f

LEMMA SettingsOf ==
    ASSUME NEW d, Typed(d), NEW i \in DOMAIN d.nodes
    PROVE  WellSet(d.nodes[i].set) /\ DOMAIN d.nodes[i] = DOMAIN Bare(None, None)
BY DEF Typed, IsTyped, WellSet, IsDocument, ToSet

LEMMA SettingsOver ==
    ASSUME NEW s, WellSet(s), NEW t, WellSet(t)
    PROVE  WellSet(Over(s, t))
<1>1. IsOver(Over(s, t), s, t)  BY OverIs
<1> DEFINE h == Over(s, t)
<1> HIDE DEF h
<1>2. QED  BY <1>1 DEF IsOver, WellSet, h

\* The defaults are settings like others.
LEMMA DumpedIsGood ==
    ASSUME NEW d, Typed(d)
    PROVE  /\ Typed(Dumped(d))
           /\ Unique(d) => Unique(Dumped(d))
           /\ Dumped(d) = [x \in DOMAIN Dumped(d) |-> Dumped(d)[x]]
<1> DEFINE ns == [i \in DOMAIN d.nodes |-> WithDefaults(d.nodes[i])]
<1>1. Dumped(d) = [d EXCEPT !.nodes = ns]  BY DEF Dumped
<1>2. ASSUME NEW i \in DOMAIN d.nodes
      PROVE  LET m == d.nodes[i]
                 n == ns[i]
             IN  /\ DOMAIN n = DOMAIN m /\ WellSet(n.set)
                 /\ n.id = m.id /\ n.in = m.in /\ n.arm = m.arm /\ n.kind = m.kind /\ n.refs = m.refs
  <2> DEFINE m == d.nodes[i]
  <2>1. WellSet(m.set) /\ DOMAIN m = DOMAIN Bare(None, None)  BY SettingsOf
  <2>2. {"id", "in", "arm", "kind", "refs", "set"} \subseteq DOMAIN m  BY <2>1 DEF Bare
  <2>3. WellSet(Defaults(m.kind))  BY DEF WellSet, Defaults, Unset
  <2>4. WellSet(Over(m.set, Defaults(m.kind)))  BY <2>1, <2>3, SettingsOver
  <2>5. ns[i] = [m EXCEPT !.set = Over(m.set, Defaults(m.kind))]  BY DEF WithDefaults
  <2> HIDE DEF m
  <2>6. QED  BY <2>2, <2>4, <2>5 DEF m
<1>3. DOMAIN ns = DOMAIN d.nodes /\ ns = [i \in DOMAIN d.nodes |-> ns[i]]  OBVIOUS
<1> HIDE DEF ns
<1>4. Reset(d, ns)  BY <1>2, <1>3 DEF Reset
<1>5. Typed(Dumped(d)) /\ (Unique(d) => Unique(Dumped(d)))  BY <1>1, <1>4, ResetKeeps
<1>6. QED  BY <1>1, <1>5

\* A patch leaves settings that the models accept.
LEMMA PatchedWell ==
    ASSUME NEW n, DOMAIN n = DOMAIN Bare(None, None), WellSet(n.set), NEW e, e.kind \in Constrained
    PROVE  WellSet(Patched(n, e).set)
<1> DEFINE s == Patched(n, e).set
<1>1. But(n.set, s, Purpose[e.kind])  BY PatchedIs
<1>2. Purpose[e.kind] \cap {"type", "branches", "credential", "budget"} = {}
  BY PurposeIs DEF EditFields
<1> HIDE DEF s
<1>3. QED  BY <1>1, <1>2 DEF But, WellSet, s

\* What an edit that is not rejected makes of a document: a node i was resolved, it alone is
\* patched, and what differs of it is what the edit is for.
IsEdited(d, e, i, f) ==
    LET m == d.nodes[i]
        n == f.nodes[i]
    IN  /\ i \in ResolveNode(d, e) /\ i \in TopAt(d)
        /\ Typed(f) /\ Aligned(d, f) /\ (Unique(d) => Unique(f))
        /\ f.edges = d.edges /\ Governance(f) = Governance(d) /\ f.version = d.version
        /\ [f EXCEPT !.nodes = d.nodes] = [d EXCEPT !.nodes = d.nodes]
        /\ n = Patched(m, e) /\ \A j \in DOMAIN d.nodes : j # i => f.nodes[j] = d.nodes[j]
        /\ ChangedPaths(d, f) \subseteq AllowedPaths(e.kind, m.id)

LEMMA EditedIs ==
    ASSUME NEW d, Typed(d), NEW e, e.kind \in Constrained, DeterministicEdit(d, e) # <<>>
    PROVE  \E i \in DOMAIN d.nodes : IsEdited(d, e, i, DeterministicEdit(d, e)[1])
<1> DEFINE found == ResolveNode(d, e)
           i == CHOOSE j \in found : TRUE
           m == d.nodes[i]
           n == Patched(m, e)
           f == [d EXCEPT !.nodes[i] = n]
           was == d.nodes
           ns == [was EXCEPT ![i] = n]
<1>1. /\ found # {} /\ DeterministicEdit(d, e) = <<f>>
      /\ ChangedPaths(d, f) \subseteq AllowedPaths(e.kind, m.id)
  BY DEF DeterministicEdit
<1>2. found \subseteq TopAt(d) /\ TopAt(d) \subseteq DOMAIN d.nodes  BY DEF ResolveNode, TopAt
<1>3. i \in found /\ i \in TopAt(d) /\ i \in DOMAIN d.nodes  BY <1>1, <1>2
<1> HIDE DEF i
<1>4. WellSet(m.set) /\ DOMAIN m = DOMAIN Bare(None, None)  BY <1>3, SettingsOf
<1> HIDE DEF m
<1>5. /\ DOMAIN n = DOMAIN m /\ WellSet(n.set)
      /\ n.id = m.id /\ n.in = m.in /\ n.arm = m.arm /\ n.kind = m.kind /\ n.refs = m.refs
  BY <1>4, PatchedNode, PatchedWell
<1>6. f = [d EXCEPT !.nodes = ns]  OBVIOUS
<1>7. /\ DOMAIN ns = DOMAIN d.nodes /\ ns = [j \in DOMAIN d.nodes |-> ns[j]]
      /\ ns[i] = n /\ \A j \in DOMAIN d.nodes : j # i => ns[j] = d.nodes[j]
  <2> HIDE DEF was, n
  <2>1. /\ DOMAIN ns = DOMAIN was /\ ns = [j \in DOMAIN was |-> ns[j]]
        /\ i \in DOMAIN was => ns[i] = n
        /\ \A j \in DOMAIN was : j # i => ns[j] = was[j]
    OBVIOUS
  <2> HIDE DEF ns
  <2>2. QED  BY <1>3, <2>1 DEF was
<1>8. [f EXCEPT !.nodes = d.nodes] = [d EXCEPT !.nodes = d.nodes]
  <2> HIDE DEF ns, f, was
  <2>1. [[d EXCEPT !.nodes = ns] EXCEPT !.nodes = d.nodes] = [d EXCEPT !.nodes = d.nodes]
    OBVIOUS
  <2>2. QED  BY <1>6, <2>1
<1> HIDE DEF ns, was, n, f
<1>9. Reset(d, ns)
  <2>1. ASSUME NEW j \in DOMAIN d.nodes
        PROVE  LET x == d.nodes[j]
                   y == ns[j]
               IN  /\ DOMAIN y = DOMAIN x /\ WellSet(y.set)
                   /\ y.id = x.id /\ y.in = x.in /\ y.arm = x.arm /\ y.kind = x.kind /\ y.refs = x.refs
    <3>1. CASE j = i  BY <1>5, <1>7, <3>1 DEF m
    <3>2. CASE j # i
      <4>1. ns[j] = d.nodes[j]  BY <1>7, <3>2
      <4>2. QED  BY <4>1, SettingsOf
    <3>3. QED  BY <3>1, <3>2
  <2>2. QED  BY <1>7, <2>1 DEF Reset
<1>10. /\ Typed(f) /\ Aligned(d, f) /\ (Unique(d) => Unique(f))
       /\ f.nodes = ns /\ f.edges = d.edges /\ Governance(f) = Governance(d) /\ f.version = d.version
  BY <1>6, <1>9, ResetKeeps
<1>11. IsEdited(d, e, i, f)
  BY <1>1, <1>3, <1>7, <1>8, <1>10 DEF IsEdited, m, n
<1>12. QED  BY <1>1, <1>3, <1>11

\* What the planner is given to edit comes back with its nodes, and with a gate perhaps.
Extends(d, r) ==
    /\ DOMAIN d.nodes \subseteq DOMAIN r.nodes /\ DOMAIN r.nodes \subseteq 1 .. (Len(d.nodes) + 1)
    /\ \A i \in DOMAIN d.nodes :
           LET m == d.nodes[i]
               n == r.nodes[i]
           IN  /\ WellSet(n.set) /\ n.id = m.id /\ n.in = m.in /\ n.arm = m.arm /\ n.kind = m.kind
               /\ n.refs = m.refs
    /\ \A i \in DOMAIN r.nodes \ DOMAIN d.nodes :
           WellSet(r.nodes[i].set) /\ r.nodes[i].in = 0 /\ r.nodes[i].refs = <<>>

LEMMA RepliesExtend ==
    ASSUME NEW d, Typed(d), NEW e, NEW reply \in GateReplies(d, e)
    PROVE  Extends(d, reply)
<1> DEFINE N == Len(d.nodes)
           g == GateNode(e)
           ns == Append(d.nodes, g)
           gated == [d EXCEPT !.nodes = Append(@, GateNode(e))]
           asked == [gated EXCEPT !.edges = Rewired(d, e)]
           flip(x) == [x EXCEPT !.data = ~@]
           named == [asked EXCEPT !.nodes[N + 1].set.reviewer = "nobody"]
           moded == [asked EXCEPT !.nodes[1].set = Over([mode |-> "webhook"], @)]
           into == Edge(e.node, GateId(e.node), TRUE)
<1>1. d.nodes \in Seq(ToSet(d.nodes)) /\ N \in Nat /\ DOMAIN d.nodes = 1 .. N
  <2>1. d.nodes \in Seq(ToSet(d.nodes))  BY DEF Typed, IsDocument
  <2>2. QED  BY <2>1
<1>2. /\ DOMAIN ns = 1 .. (N + 1) /\ ns[N + 1] = g /\ \A i \in 1 .. N : ns[i] = d.nodes[i]
      /\ ns = [i \in 1 .. (N + 1) |-> ns[i]]
  <2> DEFINE was == d.nodes
             S == ToSet(d.nodes)
  <2> HIDE DEF g, was, S
  <2>1. was \in Seq(S) /\ Len(was) \in Nat  BY <1>1 DEF was, S
  <2>2. QED  BY <2>1 DEF was
<1>3. {"nodes", "edges", "metadata"} \subseteq DOMAIN d  BY DEF Typed, IsDocument, Document
<1>4. WellSet(g.set) /\ g.in = 0 /\ g.refs = <<>> /\ {"set", "in", "refs"} \subseteq DOMAIN g
      /\ DOMAIN g.set = {"reviewer"}
  BY DEF GateNode, Bare, WellSet
<1> HIDE DEF g, N
<1>5. ASSUME NEW r, r.nodes = ns PROVE Extends(d, r)
  <2>1. DOMAIN d.nodes \subseteq DOMAIN r.nodes /\ DOMAIN r.nodes \subseteq 1 .. (N + 1)
    BY <1>1, <1>2, <1>5
  <2>2. \A i \in DOMAIN r.nodes \ DOMAIN d.nodes : i = N + 1  BY <1>1, <1>2, <1>5
  <2>3. \A i \in DOMAIN d.nodes : WellSet(d.nodes[i].set)  BY SettingsOf
  <2> HIDE DEF ns
  <2>4. QED  BY <1>1, <1>2, <1>4, <1>5, <2>1, <2>2, <2>3 DEF Extends, N
<1>6. Extends(d, d)
  <2>1. \A i \in DOMAIN d.nodes : WellSet(d.nodes[i].set)  BY SettingsOf
  <2>2. DOMAIN d.nodes \subseteq 1 .. (Len(d.nodes) + 1)  BY <1>1 DEF N
  <2>3. QED  BY <2>1, <2>2 DEF Extends
<1>7. ASSUME NEW r, Extends(d, r), "nodes" \in DOMAIN r, NEW x, NEW i,
             i \in DOMAIN r.nodes => WellSet(x.set) /\ x.id = r.nodes[i].id /\ x.in = r.nodes[i].in
                                     /\ x.arm = r.nodes[i].arm /\ x.kind = r.nodes[i].kind
                                     /\ x.refs = r.nodes[i].refs
      PROVE  Extends(d, [r EXCEPT !.nodes[i] = x])
  <2> DEFINE was == r.nodes
             es == [was EXCEPT ![i] = x]
             s == [r EXCEPT !.nodes = es]
  <2>1. [r EXCEPT !.nodes[i] = x] = s  OBVIOUS
  <2>2. s.nodes = es  BY <1>7
  <2>3. /\ DOMAIN es = DOMAIN was
        /\ i \in DOMAIN was => es[i] = x
        /\ \A j \in DOMAIN was : j # i => es[j] = was[j]
    <3> HIDE DEF was
    <3>1. QED  OBVIOUS
  <2> HIDE DEF s, es
  <2>4. DOMAIN s.nodes = DOMAIN r.nodes /\ \A j \in DOMAIN r.nodes : j # i => s.nodes[j] = r.nodes[j]
    BY <2>2, <2>3 DEF was
  <2>5. i \in DOMAIN r.nodes => s.nodes[i] = x  BY <2>2, <2>3 DEF was
  <2>6. Extends(d, s)  BY <1>7, <2>4, <2>5 DEF Extends
  <2>7. QED  BY <2>1, <2>6
<1>8. gated.nodes = ns /\ "nodes" \in DOMAIN gated  BY <1>3 DEF g
<1> HIDE DEF gated
<1>9. asked.nodes = ns /\ "nodes" \in DOMAIN asked  BY <1>8
<1> HIDE DEF asked, ns, into
<1>10. CASE reply \in {d, gated, [gated EXCEPT !.edges = Append(@, into)]}
  <2>1. [gated EXCEPT !.edges = Append(@, into)].nodes = ns  BY <1>8
  <2>2. QED  BY <1>5, <1>6, <1>8, <1>10, <2>1
<1>11. CASE reply \in {asked, [asked EXCEPT !.edges[1] = flip(@)], [asked EXCEPT !.metadata = "changed"],
                       [asked EXCEPT !.edges = Append(@, Original(d, e.node))]}
  <2>1. /\ [asked EXCEPT !.edges[1] = flip(@)].nodes = ns /\ [asked EXCEPT !.metadata = "changed"].nodes = ns
        /\ [asked EXCEPT !.edges = Append(@, Original(d, e.node))].nodes = ns
    BY <1>9
  <2>2. QED  BY <1>5, <1>9, <1>11, <2>1
<1>12. Extends(d, asked)  BY <1>5, <1>9
<1>13. Extends(d, named)
  <2> DEFINE x == [asked.nodes[N + 1] EXCEPT !.set.reviewer = "nobody"]
  <2>1. named = [asked EXCEPT !.nodes[N + 1] = x]  OBVIOUS
  <2>2. asked.nodes[N + 1] = g  BY <1>2, <1>9
  <2>3. /\ WellSet(x.set) /\ x.id = g.id /\ x.in = g.in /\ x.arm = g.arm /\ x.kind = g.kind /\ x.refs = g.refs
    <3>1. x = [g EXCEPT !.set = [g.set EXCEPT !.reviewer = "nobody"]]  BY <2>2
    <3>2. WellSet([g.set EXCEPT !.reviewer = "nobody"])  BY <1>4 DEF WellSet
    <3> HIDE DEF x
    <3>3. QED  BY <1>4, <3>1, <3>2
  <2> HIDE DEF x, named
  <2>4. QED  BY <1>7, <1>9, <1>12, <2>1, <2>2, <2>3
<1>14. Extends(d, moded)
  <2> DEFINE y == asked.nodes[1]
             x == [y EXCEPT !.set = Over([mode |-> "webhook"], @)]
  <2>1. moded = [asked EXCEPT !.nodes[1] = x]  OBVIOUS
  <2>2. 1 \in 1 .. (N + 1) /\ (1 \in 1 .. N \/ N + 1 = 1)  BY <1>1
  <2>3. WellSet(y.set) /\ {"set", "id", "in", "arm", "kind", "refs"} \subseteq DOMAIN y
    <3>1. CASE 1 \in 1 .. N
      <4>1. y = d.nodes[1] /\ 1 \in DOMAIN d.nodes  BY <1>1, <1>2, <1>9, <3>1
      <4>2. WellSet(y.set) /\ DOMAIN y = DOMAIN Bare(None, None)  BY <4>1, SettingsOf
      <4> HIDE DEF y
      <4>3. QED  BY <4>2 DEF Bare
    <3>2. CASE N + 1 = 1
      <4>1. y = g  BY <1>2, <1>9, <3>2
      <4>2. DOMAIN g = DOMAIN Bare(None, None)  BY DEF g, GateNode, Bare
      <4> HIDE DEF y
      <4>3. QED  BY <1>4, <4>1, <4>2 DEF Bare
    <3>3. QED  BY <2>2, <3>1, <3>2
  <2>4. WellSet(Over([mode |-> "webhook"], y.set))
    <3>1. WellSet([mode |-> "webhook"])  BY DEF WellSet
    <3> HIDE DEF y
    <3>2. QED  BY <2>3, <3>1, SettingsOver
  <2>5. /\ WellSet(x.set) /\ x.id = y.id /\ x.in = y.in /\ x.arm = y.arm /\ x.kind = y.kind /\ x.refs = y.refs
    <3> HIDE DEF y
    <3>1. QED  BY <2>3, <2>4
  <2> HIDE DEF x, moded
  <2>6. QED  BY <1>7, <1>9, <1>12, <2>1, <2>5
<1>15. \/ reply \in {d, gated, [gated EXCEPT !.edges = Append(@, into)]}
       \/ reply \in {asked, [asked EXCEPT !.edges[1] = flip(@)], [asked EXCEPT !.metadata = "changed"],
                     [asked EXCEPT !.edges = Append(@, Original(d, e.node))], named, moded}
  BY DEF GateReplies, gated, asked, N, into
<1> HIDE DEF named, moded
<1>16. QED  BY <1>10, <1>11, <1>13, <1>14, <1>15

\* A reply that passes the gate and the validator is a document like those before it.
LEMMA GatedIsGood ==
    ASSUME NEW b, Good(b), NEW e, NEW a \in GateReplies(b, e),
           InManualReviewScope(b, a, e), Validate(a) = {}
    PROVE  Good(a)
<1>1. Typed(b)  BY DEF Good, Typed
<1>2. IsDocument(a)  BY <1>1, RepliesAreDocuments DEF Typed
<1>3. Unique(a)  BY <1>2, AcceptedMeans, UniqueNodes
<1>4. Extends(b, a)  BY <1>1, RepliesExtend
<1>5. DOMAIN a.nodes \subseteq Nat \ {0}  BY <1>2 DEF IsDocument
<1>6. IsNested(a)
  <2>1. ASSUME NEW i \in DOMAIN b.nodes
        PROVE  /\ a.nodes[i].in \in 0 .. (i - 1)
               /\ a.nodes[i].refs \in Seq(ToSet(a.nodes[i].refs))
               /\ \A r \in ToSet(a.nodes[i].refs) : r.to # None
    <3>1. a.nodes[i].in = b.nodes[i].in /\ a.nodes[i].refs = b.nodes[i].refs  BY <1>4 DEF Extends
    <3>2. QED  BY <1>1, <3>1 DEF Typed, IsNested
  <2>2. ASSUME NEW i \in DOMAIN a.nodes \ DOMAIN b.nodes
        PROVE  /\ a.nodes[i].in \in 0 .. (i - 1)
               /\ a.nodes[i].refs \in Seq(ToSet(a.nodes[i].refs))
               /\ \A r \in ToSet(a.nodes[i].refs) : r.to # None
    <3>1. a.nodes[i].in = 0 /\ a.nodes[i].refs = <<>> /\ i \in Nat \ {0}  BY <1>4, <1>5 DEF Extends
    <3>2. ToSet(<<>>) = {} /\ <<>> \in Seq(ToSet(<<>>))  BY DEF ToSet
    <3>3. QED  BY <3>1, <3>2
  <2>3. QED  BY <2>1, <2>2 DEF IsNested
<1>7. \A x \in ToSet(a.edges) : x = [from |-> x.from, to |-> x.to, data |-> x.data, when |-> x.when]
  <2> DEFINE o == Original(b, e.node)
             into == Edge(e.node, GateId(e.node), o.data)
             outof == Edge(GateId(e.node), o.to, o.data)
  <2>1. Cardinality(Outgoing(b, e.node)) = 1 /\ SameList(a.edges, Rewired(b, e))
    BY DEF InManualReviewScope
  <2>2. /\ ToSet(Rewired(b, e)) = {x \in ToSet(b.edges) : x.from # e.node} \cup {into, outof}
        /\ Rewired(b, e) \in Seq(ToSet(Rewired(b, e)))
    BY <1>1, <2>1, RewiredEdges DEF Typed
  <2>3. ToSet(a.edges) = ToSet(Rewired(b, e))
    <3> DEFINE S == ToSet(a.edges) \cup ToSet(Rewired(b, e))
    <3>1. a.edges \in Seq(S) /\ Rewired(b, e) \in Seq(S)  BY <1>2, <2>2 DEF IsDocument
    <3> HIDE DEF S
    <3>2. QED  BY <2>1, <3>1, SameMembers
  <2>4. \A x \in {into, outof} : x = [from |-> x.from, to |-> x.to, data |-> x.data, when |-> x.when]
    BY DEF Edge
  <2> HIDE DEF into, outof
  <2>5. QED  BY <1>1, <2>2, <2>3, <2>4 DEF Typed, IsTyped
<1>8. /\ a.policy = [name \in DOMAIN a.policy |-> a.policy[name]]
      /\ "agent_budget" \in DOMAIN a.policy => a.policy.agent_budget \in Int
  <2>1. Governance(b) = Governance(a)  BY DEF InManualReviewScope
  <2>2. Governance(b).policy = b.policy /\ Governance(a).policy = a.policy  BY DEF Governance
  <2>3. a.policy = b.policy  BY <2>1, <2>2
  <2>4. QED  BY <1>1, <2>3 DEF Typed, IsTyped
<1>9. ASSUME NEW i \in DOMAIN a.nodes
      PROVE  LET n == a.nodes[i] IN
             /\ WellSet(n.set)
             /\ n.in # 0 => a.nodes[n.in].kind = IF n.arm = "body" THEN "loop" ELSE "parallel"
  <2>1. CASE i \in DOMAIN b.nodes
    <3>1. /\ WellSet(a.nodes[i].set) /\ a.nodes[i].in = b.nodes[i].in /\ a.nodes[i].arm = b.nodes[i].arm
      BY <1>4, <2>1 DEF Extends
    <3>2. b.nodes[i].in # 0 =>
              b.nodes[b.nodes[i].in].kind = IF b.nodes[i].arm = "body" THEN "loop" ELSE "parallel"
      BY <1>1, <2>1 DEF Typed, IsTyped
    <3>3. b.nodes[i].in # 0 => b.nodes[i].in \in DOMAIN b.nodes  BY <1>1, <2>1, PlaceInside DEF Typed
    <3>4. \A j \in DOMAIN b.nodes : a.nodes[j].kind = b.nodes[j].kind  BY <1>4 DEF Extends
    <3>5. QED  BY <3>1, <3>2, <3>3, <3>4
  <2>2. CASE i \notin DOMAIN b.nodes
    BY <1>4, <2>2 DEF Extends
  <2>3. QED  BY <2>1, <2>2
<1>10. IsTyped(a)  BY <1>7, <1>8, <1>9 DEF IsTyped, WellSet
<1>11. QED  BY <1>2, <1>3, <1>6, <1>10 DEF Good

-----------------------------------------------------------------------------
(* What the diff tells of an edit. *)

LEMMA CanonicalNodes ==
    ASSUME NEW d, IsDocument(d), NEW i \in DOMAIN d.nodes
    PROVE  Canonical(d).nodes[i] = Stripped(d.nodes[i])
<1>1. "nodes" \in DOMAIN d  BY DEF IsDocument, Document
<1>2. QED  BY <1>1 DEF Canonical

\* The canonical form of a node has its fields, but for a number of results that is the default.
LEMMA StrippedFields ==
    ASSUME NEW n, DOMAIN n = DOMAIN Bare(None, None), NEW x, x # "top_k"
    PROVE  /\ x \in DOMAIN Fields(Stripped(n)) <=> x \in DOMAIN Fields(n)
           /\ x \in DOMAIN Fields(n) => Fields(Stripped(n))[x] = Fields(n)[x]
<1> DEFINE default == Defaults(n.kind)
           s == Restrict(n.set, {y \in DOMAIN n.set : ~(y \in DOMAIN default /\ n.set[y] = default[y])})
<1>1. {"id", "kind", "in", "arm", "next", "rules", "default", "fallback", "as", "model", "refs", "uses",
       "fields", "marks", "set"} \subseteq DOMAIN n
  BY DEF Bare
<1>2. DOMAIN default \subseteq {"top_k"}  BY DEF Defaults, Unset
<1>3. x \in DOMAIN s <=> x \in DOMAIN n.set  BY <1>2 DEF Restrict
<1>4. x \in DOMAIN n.set => s[x] = n.set[x]  BY <1>2 DEF Restrict
<1>5. Stripped(n) = [n EXCEPT !.set = s]  BY DEF Stripped
<1> HIDE DEF s, default
<1> DEFINE o == [n EXCEPT !.set = s]
<1>6. /\ o.set = s /\ o.kind = n.kind /\ o.next = n.next /\ o.rules = n.rules /\ o.default = n.default
      /\ o.fallback = n.fallback /\ o.as = n.as /\ o.model = n.model /\ o.refs = n.refs
      /\ o.uses = n.uses /\ o.fields = n.fields /\ o.marks = n.marks
  BY <1>1
<1> HIDE DEF o
<1>7. Structure(o) = Structure(n)
  <2>1. \A f : RefsIn(o, f) = RefsIn(n, f)  BY <1>6 DEF RefsIn
  <2>2. QED  BY <1>6, <2>1 DEF Structure
<1>8. /\ IsOver(Fields(o), s, Structure(n)) /\ IsOver(Fields(n), n.set, Structure(n))
  BY <1>6, <1>7, OverIs DEF Fields
<1>9. QED  BY <1>3, <1>4, <1>5, <1>8 DEF IsOver, o

LEMMA PathIsLonger ==
    ASSUME NEW a, NEW b, NEW c, NEW g, NEW y
    PROVE  Append(Append(<<a, b>>, c), g) # <<a, b, y>>
<1> DEFINE r == <<a, b>>
           s == Append(r, c)
           S == {a, b, c, g}
<1>1. r \in Seq(S) /\ Len(r) = 2 /\ c \in S /\ g \in S  OBVIOUS
<1> HIDE DEF r, S
<1>2. s \in Seq(S) /\ Len(s) = Len(r) + 1  BY ZenonT(30), <1>1, AppendProperties
<1> HIDE DEF s
<1>3. Len(Append(s, g)) = Len(s) + 1  BY ZenonT(30), <1>1, <1>2, AppendProperties
<1>4. Len(<<a, b, y>>) = 3  OBVIOUS
<1> DEFINE t == <<a, b, y>>
<1> HIDE DEF t
<1>5. Len(Append(s, g)) = 4  BY <1>1, <1>2, <1>3
<1>6. Append(s, g) # t  BY <1>4, <1>5 DEF t
<1>7. QED  BY <1>6 DEF r, s, t

\* What differs of a node that was patched is what the edit is for.
LEMMA PatchedFields ==
    ASSUME NEW n, DOMAIN n = DOMAIN Bare(None, None), NEW e, e.kind \in Constrained
    PROVE  Differing(Fields(n), Fields(Patched(n, e))) \subseteq Purpose[e.kind]
<1> DEFINE p == Patched(n, e)
<1>1. {"id", "kind", "in", "arm", "next", "rules", "default", "fallback", "as", "model", "refs", "uses",
       "fields", "marks"} \subseteq DOMAIN n \ {"set"}
  BY DEF Bare
<1>2. \A x \in DOMAIN n \ {"set"} : p[x] = n[x]  BY PatchedIs
<1>3. But(n.set, p.set, Purpose[e.kind])  BY PatchedIs
<1> HIDE DEF p
<1>4. /\ p.kind = n.kind /\ p.next = n.next /\ p.rules = n.rules /\ p.default = n.default
      /\ p.fallback = n.fallback /\ p.as = n.as /\ p.model = n.model /\ p.refs = n.refs
      /\ p.uses = n.uses /\ p.fields = n.fields /\ p.marks = n.marks
  BY <1>1, <1>2
<1>5. Structure(p) = Structure(n)
  <2>1. \A f : RefsIn(p, f) = RefsIn(n, f)  BY <1>4 DEF RefsIn
  <2>2. QED  BY <1>4, <2>1 DEF Structure
<1>6. IsOver(Fields(p), p.set, Structure(n)) /\ IsOver(Fields(n), n.set, Structure(n))
  BY <1>5, OverIs DEF Fields
<1>7. ASSUME NEW x \in Differing(Fields(n), Fields(p)), x \notin Purpose[e.kind] PROVE FALSE
  <2>1. (x \in DOMAIN n.set <=> x \in DOMAIN p.set) /\ (x \in DOMAIN n.set => p.set[x] = n.set[x])
    BY <1>3, <1>7 DEF But
  <2>2. /\ x \in DOMAIN Fields(n) <=> x \in DOMAIN n.set \cup DOMAIN Structure(n)
        /\ x \in DOMAIN Fields(p) <=> x \in DOMAIN p.set \cup DOMAIN Structure(n)
    BY <1>6 DEF IsOver
  <2>3. x \in DOMAIN Fields(n) => Fields(n)[x] = IF x \in DOMAIN n.set THEN n.set[x] ELSE Structure(n)[x]
    BY <1>6, <2>2 DEF IsOver
  <2>4. x \in DOMAIN Fields(p) => Fields(p)[x] = IF x \in DOMAIN p.set THEN p.set[x] ELSE Structure(n)[x]
    BY <1>6, <2>2 DEF IsOver
  <2>5. QED  BY <1>7, <2>1, <2>2, <2>3, <2>4 DEF Differing
<1>8. QED  BY <1>7 DEF p

\* A retry that was there is as it was: the path to one of its fields is not among those
\* allowed, and the edit would have been rejected.
LEMMA RetryStays ==
    ASSUME NEW d, Good(d), NEW e, e.kind = "retry", NEW i, NEW f, IsEdited(d, e, i, f),
           "retry" \in DOMAIN d.nodes[i].set
    PROVE  Differing(d.nodes[i].set.retry, f.nodes[i].set.retry) = {}
<1> DEFINE id == d.nodes[i].id
           old == {<<"nodes", n.id>> : n \in {d.nodes[j] : j \in TopAt(d)}}
           new == {<<"nodes", n.id>> : n \in {f.nodes[j] : j \in TopAt(f)}}
           x == <<"nodes", id>>
           m == d.nodes[i]
           n == f.nodes[i]
           F == Differing(m.set.retry, n.set.retry)
           paths(y, w) == FieldPaths(y, w, NodeOf(d, y[2]), NodeOf(f, y[2]))
           G(y) == UNION {paths(y, w) : w \in Differing(Fields(NodeOf(d, y[2])), Fields(NodeOf(f, y[2])))}
<1>1. /\ i \in TopAt(d) /\ Typed(f) /\ Aligned(d, f) /\ Unique(d) /\ Unique(f)
      /\ ChangedPaths(d, f) \subseteq AllowedPaths(e.kind, id) /\ n = Patched(m, e)
  BY DEF IsEdited, Good
<1>2. /\ i \in DOMAIN d.nodes /\ i \in TopAt(f) /\ i \in DOMAIN f.nodes /\ n.id = id
      /\ DOMAIN d.nodes \subseteq Nat /\ DOMAIN f.nodes \subseteq Nat
  <2>1. i \in DOMAIN d.nodes  BY <1>1 DEF TopAt
  <2>2. DOMAIN f.nodes = DOMAIN d.nodes /\ f.nodes[i].id = id /\ f.nodes[i].in = d.nodes[i].in
    BY <1>1, <2>1 DEF Aligned
  <2>3. DOMAIN d.nodes \subseteq Nat  BY DEF Good, IsDocument
  <2>4. QED  BY <1>1, <2>1, <2>2, <2>3 DEF TopAt
<1>3. NodeOf(d, id) = m /\ NodeOf(f, id) = n
  <2>1. At(d, id) = i
    <3>1. \A j \in DOMAIN d.nodes : d.nodes[j].id = id => j = i  BY <1>1, <1>2 DEF Unique
    <3>2. \A j \in DOMAIN d.nodes : d.nodes[j].id = id => j <= i  BY <1>2, <3>1
    <3>3. QED  BY <1>2, <3>1, <3>2 DEF At
  <2>2. At(f, id) = i
    <3>1. \A j \in DOMAIN f.nodes : f.nodes[j].id = id => j = i  BY <1>1, <1>2 DEF Unique
    <3>2. \A j \in DOMAIN f.nodes : f.nodes[j].id = id => j <= i  BY <1>2, <3>1
    <3>3. QED  BY <1>2, <3>1, <3>2 DEF At
  <2>3. QED  BY <2>1, <2>2 DEF NodeOf
<1>4. x \in old \cap new
  <2>1. m \in {d.nodes[j] : j \in TopAt(d)} /\ n \in {f.nodes[j] : j \in TopAt(f)}
    BY <1>1, <1>2
  <2>2. QED  BY <1>2, <2>1
<1>5. x[2] = id  OBVIOUS
<1>6. UNION {G(y) : y \in old \cap new} \subseteq ChangedPaths(d, f)
  BY DEF ChangedPaths
<1>7. SUFFICES ASSUME NEW g \in F PROVE FALSE
  OBVIOUS
<1>8. "retry" \in DOMAIN m.set \cap DOMAIN n.set
  <2>1. DOMAIN m = DOMAIN Bare(None, None)  BY <1>2, SettingsOf DEF Good, Typed
  <2>2. e.kind \in Constrained  BY DEF Constrained
  <2> HIDE DEF m
  <2>3. Valued(e, m, Patched(m, e).set)  BY <2>1, <2>2, PatchedIs
  <2>4. QED  BY <1>1, <2>3 DEF Valued, m
<1>9. "retry" \in Differing(Fields(m), Fields(n))
  <2>1. m.set.retry # n.set.retry  BY <1>7 DEF Differing
  <2> HIDE DEF m, n
  <2>2. /\ "retry" \in DOMAIN Fields(m) /\ Fields(m)["retry"] = m.set["retry"]
        /\ "retry" \in DOMAIN Fields(n) /\ Fields(n)["retry"] = n.set["retry"]
    BY <1>8, FieldsAre
  <2>3. QED  BY <2>1, <2>2 DEF Differing
<1> DEFINE path == Append(Append(x, "retry"), g)
<1>10. path \in paths(x, "retry")
  <2>1. paths(x, "retry") = FieldPaths(x, "retry", m, n)  BY <1>3, <1>5
  <2>2. FieldPaths(x, "retry", m, n) = {Append(Append(x, "retry"), h) : h \in F}
    <3> HIDE DEF m, n, x
    <3>1. QED  BY <1>8 DEF FieldPaths
  <2> HIDE DEF paths, F, x, m, n
  <2>3. QED  BY <1>7, <2>1, <2>2
<1>11. path \in G(x)
  <2>1. G(x) = UNION {paths(x, w) : w \in Differing(Fields(m), Fields(n))}  BY <1>3, <1>5
  <2> HIDE DEF paths, path, x, m, n, G
  <2>2. QED  BY <1>9, <1>10, <2>1
<1>12. path \in ChangedPaths(d, f)
  <2> HIDE DEF G, path, x, old, new
  <2>1. QED  BY <1>4, <1>6, <1>11
<1>13. AllowedPaths(e.kind, id) = {<<"nodes", id, "retry">>}
  <2>1. Purpose["retry"] = {"retry"}  BY DEF Purpose
  <2>2. QED  BY <2>1 DEF AllowedPaths
<1>14. path = <<"nodes", id, "retry">>
  <2> HIDE DEF path, id
  <2>1. QED  BY <1>1, <1>12, <1>13
<1>15. QED  BY <1>14, PathIsLonger

\* The diff of an edit tells of the node that was edited, of no high risk.
LEMMA EditIsTold ==
    ASSUME NEW d, Good(d), NEW e, e.kind \in Constrained, NEW i, NEW f, IsEdited(d, e, i, f)
    PROVE  \A c \in Diff(d, f) : c.at = <<d.nodes[i].id>> /\ c.risk # "high"
<1> DEFINE b == Canonical(d)
           a == Canonical(f)
           old == NodeMap(b)
           new == NodeMap(a)
<1>1. /\ i \in TopAt(d) /\ i \in DOMAIN d.nodes /\ d.nodes[i].in = 0
      /\ Good(f) /\ Aligned(d, f) /\ f.edges = d.edges /\ Governance(f) = Governance(d)
      /\ f.nodes[i] = Patched(d.nodes[i], e)
      /\ \A j \in DOMAIN d.nodes : j # i => f.nodes[j] = d.nodes[j]
  BY DEF IsEdited, Good, Typed, TopAt
<1>2. Good(b) /\ Good(a)  BY <1>1, CanonicalKeeps DEF Good
<1>3. /\ b.edges = d.edges /\ Governance(b) = Governance(d) /\ Place(b) = Place(d) /\ Aligned(d, b)
  BY CanonicalKeeps DEF Good
<1>4. /\ a.edges = f.edges /\ Governance(a) = Governance(f) /\ Place(a) = Place(f) /\ Aligned(f, a)
  BY <1>1, CanonicalKeeps DEF Good
<1>5. Place(f) = Place(d)  BY <1>1, SamePlaces DEF Good
<1>6. DOMAIN b.nodes = DOMAIN d.nodes /\ DOMAIN a.nodes = DOMAIN d.nodes
  BY <1>1, <1>3, <1>4 DEF Aligned
<1>7. \A j \in DOMAIN d.nodes : b.nodes[j] = Stripped(d.nodes[j]) /\ a.nodes[j] = Stripped(f.nodes[j])
  BY <1>1, CanonicalNodes DEF Good, Aligned
<1>8. DOMAIN d.nodes[i] = DOMAIN Bare(None, None) /\ DOMAIN f.nodes[i] = DOMAIN Bare(None, None)
  BY <1>1, SettingsOf DEF Good, Typed, Aligned
<1>9. f.nodes[i].kind = d.nodes[i].kind
  BY <1>1, <1>8, PatchedNode
<1>10. b.nodes[i].kind = d.nodes[i].kind /\ a.nodes[i].kind = d.nodes[i].kind
  <2>1. b.nodes[i].kind = d.nodes[i].kind  BY <1>1, CanonicalKeeps DEF Good
  <2>2. i \in DOMAIN f.nodes  BY <1>1 DEF Aligned
  <2>3. a.nodes[i].kind = f.nodes[i].kind  BY <1>1, <2>2, CanonicalKeeps DEF Good
  <2>4. QED  BY <1>9, <2>1, <2>3
<1> HIDE DEF b, a
<1>11. GovernanceChanges(b, a) = {}
  <2>1. Governance(a) = Governance(b)  BY <1>1, <1>3, <1>4
  <2>2. Differing(Governance(b), Governance(a)) = {}  BY <2>1 DEF Differing
  <2>3. QED  BY <1>2, <2>2, GovernanceDiffers DEF Good
<1>12. EdgeChanges(b, a) = {}  BY <1>1, <1>3, <1>4, SameEdges
<1>13. /\ DOMAIN old = {Place(d)[j] : j \in DOMAIN d.nodes}
       /\ \A j \in DOMAIN d.nodes : old[Place(d)[j]] = j
  <2>1. /\ DOMAIN old = {Place(b)[j] : j \in DOMAIN b.nodes}
        /\ \A j \in DOMAIN b.nodes : old[Place(b)[j]] = j
    BY <1>2, NodesByPlace DEF Good
  <2> HIDE DEF old
  <2>2. QED  BY <1>3, <1>6, <2>1
<1>14. /\ DOMAIN new = {Place(d)[j] : j \in DOMAIN d.nodes}
       /\ \A j \in DOMAIN d.nodes : new[Place(d)[j]] = j
  <2>1. /\ DOMAIN new = {Place(a)[j] : j \in DOMAIN a.nodes}
        /\ \A j \in DOMAIN a.nodes : new[Place(a)[j]] = j
    BY <1>2, NodesByPlace DEF Good
  <2> HIDE DEF new
  <2>2. QED  BY <1>4, <1>5, <1>6, <2>1
<1> SUFFICES ASSUME NEW c \in Diff(d, f)
             PROVE  c.at = <<d.nodes[i].id>> /\ c.risk # "high"
  OBVIOUS
<1>15. c \in NodeChanges(b, a)  BY <1>11, <1>12 DEF Diff, b, a
<1>16. PICK p \in DOMAIN old : c \in ConfigChange(b, a, old, new, p)
  <2>1. DOMAIN old = DOMAIN new  BY <1>13, <1>14
  <2> HIDE DEF old, new
  <2>2. QED  BY <1>15, <2>1, NodeChangesAre DEF old, new, Compared
<1>17. PICK j \in DOMAIN d.nodes : p = Place(d)[j]  BY <1>13
<1>18. old[p] = j /\ new[p] = j  BY <1>13, <1>14, <1>17
<1> HIDE DEF old, new
<1> DEFINE type == a.nodes[j].kind
           u == ConfigView(b.nodes[j], type)
           v == ConfigView(a.nodes[j], type)
           fields == Differing(u, v)
           class == ClassifyNode(type, fields, Widened(u, v, "budget"))
<1>19. fields # {} /\ c = Change("node", "config-changed", p, fields, class)
  BY <1>16, <1>18 DEF ConfigChange
<1>20. j = i
  <2>1. SUFFICES ASSUME j # i PROVE FALSE
    OBVIOUS
  <2>2. a.nodes[j] = b.nodes[j]  BY <1>1, <1>7, <2>1
  <2>3. u = v  BY <2>2
  <2> HIDE DEF u, v
  <2>4. fields = {}  BY <2>3 DEF Differing
  <2>5. QED  BY <1>19, <2>4
<1>21. Place(d)[i] = <<d.nodes[i].id>>  BY <1>1, PlaceIs DEF PlaceOf, Good
<1>22. c.at = <<d.nodes[i].id>>
  <2> HIDE DEF fields, class
  <2>1. QED  BY <1>17, <1>19, <1>20, <1>21 DEF Change
<1>23. fields \subseteq EditFields
  <2> DEFINE m == d.nodes[i]
             n == f.nodes[i]
  <2>1. u = Fields(Stripped(m)) /\ v = Fields(Stripped(n))
    BY <1>1, <1>7, <1>10, <1>20, ViewIs
  <2>2. Differing(Fields(m), Fields(n)) \subseteq EditFields
    <3>1. Differing(Fields(m), Fields(n)) \subseteq Purpose[e.kind]  BY <1>1, <1>8, PatchedFields
    <3>2. Purpose[e.kind] \subseteq EditFields  BY PurposeIs
    <3> HIDE DEF m, n
    <3>3. QED  BY <3>1, <3>2
  <2> HIDE DEF u, v, m, n
  <2>3. ASSUME NEW x \in fields, x # "top_k" PROVE x \in Differing(Fields(m), Fields(n))
    <3>1. /\ x \in DOMAIN u <=> x \in DOMAIN Fields(m)
          /\ x \in DOMAIN Fields(m) => u[x] = Fields(m)[x]
      BY <1>8, <2>1, <2>3, StrippedFields DEF m
    <3>2. /\ x \in DOMAIN v <=> x \in DOMAIN Fields(n)
          /\ x \in DOMAIN Fields(n) => v[x] = Fields(n)[x]
      BY <1>8, <2>1, <2>3, StrippedFields DEF n
    <3>3. QED  BY <3>1, <3>2 DEF Differing
  <2> HIDE DEF fields
  <2>4. QED  BY <2>2, <2>3 DEF EditFields
<1>24. class[2] = "low"
  <2>1. fields \cap {"type", "credential", "branches", "budget"} = {}  BY <1>23 DEF EditFields
  <2> HIDE DEF fields, u, v, type
  <2>2. QED  BY <2>1 DEF ClassifyNode
<1>25. c.risk # "high"
  <2> HIDE DEF fields
  <2>1. c.risk = class[2]  BY <1>19 DEF Change
  <2> HIDE DEF class
  <2>2. QED  BY <1>24, <2>1
<1>26. QED  BY <1>22, <1>25

\* What the property says of one turn that edited.
Said(t) ==
    LET b == Dumped(t.before)
        e == Parse(t.asked)
        named == {i \in TopAt(b) : b.nodes[i].id = e.node}
        changed == {i \in DOMAIN b.nodes : t.after.nodes[i] # b.nodes[i]}
    IN  /\ [t.after EXCEPT !.nodes = b.nodes] = b /\ DOMAIN t.after.nodes = DOMAIN b.nodes
        /\ Cardinality(changed) <= 1
        /\ named # {} => changed \subseteq named
        /\ \A i \in changed :
               LET m == b.nodes[i]
                   n == t.after.nodes[i]
               IN  /\ named = {} => \A j \in TopAt(b) : b.nodes[j].kind = n.kind => j = i
                   /\ Differing(Fields(m), Fields(n)) \subseteq Purpose[e.kind]
                   /\ IsDone(e, m, n)
                   /\ \A c \in t.expected : c.at = <<n.id>>
        /\ HardBlocks(t.expected) = {}
        /\ t.expected = {} <=> SameMeaning(b, t.after)

LEMMA EditSays ==
    ASSUME NEW t, Good(t.before), Parse(t.asked).kind \in Constrained,
           DeterministicEdit(Dumped(t.before), Parse(t.asked)) # <<>>,
           t.after = DeterministicEdit(Dumped(t.before), Parse(t.asked))[1],
           t.expected = Diff(Dumped(t.before), t.after)
    PROVE  Good(t.after) /\ Said(t)
<1> DEFINE b == Dumped(t.before)
           e == Parse(t.asked)
           f == t.after
           named == {i \in TopAt(b) : b.nodes[i].id = e.node}
           alike == {j \in TopAt(b) : b.nodes[j].kind \in Wanted[e.kind]}
           changed == {i \in DOMAIN b.nodes : f.nodes[i] # b.nodes[i]}
<1>1. Good(b) /\ Typed(b) /\ b = [x \in DOMAIN b |-> b[x]] /\ "nodes" \in DOMAIN b
  <2>1. Typed(b) /\ Unique(b) /\ b = [x \in DOMAIN b |-> b[x]]  BY DumpedIsGood DEF Good, Typed
  <2> HIDE DEF b
  <2>2. QED  BY <2>1 DEF Good, Typed, IsDocument, Document
<1>2. e.kind \in Constrained /\ t.expected = Diff(b, f)  OBVIOUS
<1>3. PICK i \in DOMAIN b.nodes : IsEdited(b, e, i, f)  BY <1>1, EditedIs
<1> HIDE DEF b, e
<1>4. Good(f)  BY <1>1, <1>3 DEF IsEdited, Good, Typed
<1>5. changed \subseteq {i}  BY <1>3 DEF IsEdited
<1>6. /\ i \in ResolveNode(b, e) /\ i \in TopAt(b) /\ DOMAIN f.nodes = DOMAIN b.nodes
      /\ f.edges = b.edges /\ f.version = b.version /\ f.nodes[i].id = b.nodes[i].id
      /\ f.nodes[i] = Patched(b.nodes[i], e) /\ Typed(f) /\ Aligned(b, f)
  BY <1>3 DEF IsEdited, Aligned
<1>7. [f EXCEPT !.nodes = b.nodes] = b
  <2>1. [f EXCEPT !.nodes = b.nodes] = [b EXCEPT !.nodes = b.nodes]  BY <1>3 DEF IsEdited
  <2>2. [b EXCEPT !.nodes = b.nodes] = [x \in DOMAIN b |-> b[x]]  OBVIOUS
  <2>3. QED  BY <1>1, <2>1, <2>2
<1>8. Cardinality(changed) <= 1
  <2> HIDE DEF changed
  <2>1. CASE changed = {}
    <3>1. Cardinality(changed) = 0  BY <2>1, FS_EmptySet
    <3>2. QED  BY <3>1
  <2>2. CASE changed = {i}
    <3>1. Cardinality(changed) = 1  BY <2>2, FS_Singleton
    <3>2. QED  BY <3>1
  <2>3. QED  BY <1>5, <2>1, <2>2
<1>9. named # {} => changed \subseteq named
  <2>1. named # {} => ResolveNode(b, e) \subseteq named  BY DEF ResolveNode
  <2> HIDE DEF named, changed
  <2>2. QED  BY <1>5, <1>6, <2>1
<1>10. /\ DOMAIN b.nodes[i] = DOMAIN Bare(None, None) /\ WellSet(b.nodes[i].set)
  BY <1>1, SettingsOf
<1>11. /\ f.nodes[i].kind = b.nodes[i].kind
       /\ Differing(Fields(b.nodes[i]), Fields(f.nodes[i])) \subseteq Purpose[e.kind]
       /\ IsDone(e, b.nodes[i], f.nodes[i])
  <2> DEFINE m == b.nodes[i]
             p == Patched(m, e)
  <2>1. DOMAIN m = DOMAIN Bare(None, None)  BY <1>10
  <2>2. e.kind = "retry" /\ "retry" \in DOMAIN m.set => Differing(m.set.retry, f.nodes[i].set.retry) = {}
    BY <1>1, <1>3, RetryStays
  <2>3. f.nodes[i] = p  BY <1>6
  <2> HIDE DEF m, f
  <2>4. p.kind = m.kind  BY <1>2, <2>1, PatchedNode
  <2>5. Valued(e, m, p.set)  BY <1>2, <2>1, PatchedIs
  <2>6. Differing(Fields(m), Fields(p)) \subseteq Purpose[e.kind]  BY <1>2, <2>1, PatchedFields
  <2> HIDE DEF p
  <2>7. IsDone(e, m, p)  BY <2>2, <2>3, <2>5 DEF IsDone, Valued
  <2>8. QED  BY <2>3, <2>4, <2>6, <2>7 DEF m
<1>12. named = {} => \A j \in TopAt(b) : b.nodes[j].kind = f.nodes[i].kind => j = i
  <2> SUFFICES ASSUME named = {}, NEW j \in TopAt(b), b.nodes[j].kind = f.nodes[i].kind
               PROVE  j = i
    OBVIOUS
  <2>1. ResolveNode(b, e) = IF Cardinality(alike) = 1 THEN alike ELSE {}  BY DEF ResolveNode
  <2>2. Cardinality(alike) = 1 /\ i \in alike  BY <1>6, <2>1
  <2>3. j \in alike  BY <1>11, <2>2
  <2>4. IsFiniteSet(alike)
    <3>1. DOMAIN b.nodes = 1 .. Len(b.nodes) /\ Len(b.nodes) \in Nat  BY <1>1 DEF Typed, IsDocument
    <3>2. IsFiniteSet(1 .. Len(b.nodes))  BY <3>1, FS_Interval
    <3>3. alike \subseteq 1 .. Len(b.nodes)  BY <3>1 DEF TopAt
    <3> HIDE DEF alike
    <3>4. QED  BY <3>2, <3>3, FS_Subset, Zenon
  <2> HIDE DEF alike
  <2>5. PICK x : alike = {x}  BY <2>2, <2>4, FS_Singleton
  <2>6. QED  BY <2>2, <2>3, <2>5
<1>13. \A c \in t.expected : c.at = <<f.nodes[i].id>> /\ c.risk # "high"
  BY <1>1, <1>2, <1>3, <1>6, EditIsTold
<1>14. HardBlocks(t.expected) = {}  BY <1>13 DEF HardBlocks
<1>15. t.expected = {} <=> SameMeaning(b, f)
  <2>1. t.expected = {} <=> Differences(b, f) = {}  BY <1>1, <1>2, <1>4, <1>6, NothingToTell
  <2>2. NodeMap(f) = NodeMap(b)
    <3>1. Place(f) = Place(b)  BY <1>1, <1>6, SamePlaces DEF Typed
    <3>2. QED  BY <3>1 DEF NodeMap
  <2>3. SameOrder(b, f)  BY <2>2 DEF SameOrder
  <2>4. QED  BY <1>6, <2>1, <2>3 DEF SameMeaning
<1>16. \A k \in changed :
           LET m == b.nodes[k]
               n == f.nodes[k]
           IN  /\ named = {} => \A j \in TopAt(b) : b.nodes[j].kind = n.kind => j = k
               /\ Differing(Fields(m), Fields(n)) \subseteq Purpose[e.kind]
               /\ IsDone(e, m, n)
               /\ \A c \in t.expected : c.at = <<n.id>>
  <2> SUFFICES ASSUME NEW k \in changed
               PROVE  LET m == b.nodes[k]
                          n == f.nodes[k]
                      IN  /\ named = {} => \A j \in TopAt(b) : b.nodes[j].kind = n.kind => j = k
                          /\ Differing(Fields(m), Fields(n)) \subseteq Purpose[e.kind]
                          /\ IsDone(e, m, n)
                          /\ \A c \in t.expected : c.at = <<n.id>>
    OBVIOUS
  <2>1. k = i  BY <1>5
  <2> HIDE DEF named, changed
  <2>2. QED  BY <1>11, <1>12, <1>13, <2>1
<1> HIDE DEF named, changed
<1>17. QED  BY <1>4, <1>6, <1>7, <1>8, <1>9, <1>14, <1>15, <1>16 DEF Said, named, changed, b, e

-----------------------------------------------------------------------------
(* The snapshots of a session. *)

Recorded(t) ==
    /\ t.before # None => Good(t.before)
    /\ t.after # None => Good(t.after)
    /\ t.outcome = "edited" => Said(t)

HistoryInv ==
    /\ session.turns \in Seq(ToSet(session.turns))
    /\ \A d \in asks.drafts : Typed(d)
    /\ session.ir # None => Good(session.ir)
    /\ \A k \in DOMAIN session.turns : Recorded(session.turns[k])

LEMMA TurnIsRecorded ==
    ASSUME HistoryInv, asks' = asks,
           NEW m, NEW outcome, NEW after, NEW expected, EndTurn(m, outcome, after, expected),
           after # None => Good(after),
           outcome = "edited" => Said([asked |-> m, outcome |-> outcome, before |-> session.ir,
                                       after |-> after, expected |-> expected])
    PROVE  HistoryInv'
<1> DEFINE new == [asked |-> m, outcome |-> outcome, before |-> session.ir,
                   after |-> after, expected |-> expected]
           turns == session.turns
           ir == session.ir
           n == Len(turns)
<1>1. session'.turns = Append(turns, new) /\ session'.ir = IF outcome \in Accepted THEN after ELSE ir
  BY DEF EndTurn
<1>2. turns \in Seq(ToSet(turns)) /\ n \in Nat /\ DOMAIN turns = 1 .. n  BY DEF HistoryInv
<1>3. session'.turns \in Seq(ToSet(session'.turns))  BY <1>1, <1>2, Appended
<1>4. new.outcome = outcome /\ new.before = ir /\ new.after = after /\ (outcome = "edited" => Said(new))
  OBVIOUS
<1> HIDE DEF new
<1>5. Recorded(new)  BY <1>4 DEF Recorded, HistoryInv
<1>6. /\ DOMAIN session'.turns = 1 .. (n + 1)
      /\ \A k \in 1 .. n : session'.turns[k] = turns[k]
      /\ session'.turns[n + 1] = new
  <2> HIDE DEF turns
  <2>1. QED  BY <1>1, <1>2
<1>7. \A k \in DOMAIN session'.turns : Recorded(session'.turns[k])
  <2>1. \A k \in 1 .. (n + 1) : k \in 1 .. n \/ k = n + 1  BY <1>2
  <2>2. \A k \in 1 .. n : Recorded(turns[k])  BY <1>2 DEF HistoryInv
  <2> HIDE DEF n, turns
  <2>3. QED  BY <1>5, <1>6, <2>1, <2>2
<1>8. session'.ir # None => Good(session'.ir)  BY <1>1 DEF HistoryInv
<1>9. QED  BY <1>3, <1>7, <1>8 DEF HistoryInv

LEMMA HistoryStep ==
    ASSUME HistoryInv, EditStep \/ UNCHANGED editVars
    PROVE  HistoryInv'
<1>1. CASE PlanTurn
  <2>1. asks' = asks  BY <1>1 DEF PlanTurn, MayTurn
  <2>2. PICK d \in asks.drafts : IF Validate(d) = {} THEN EndTurn(<<>>, "planned", Dumped(d), {})
                                 ELSE EndTurn(<<>>, "failed", None, {})
    BY <1>1 DEF PlanTurn
  <2>3. CASE Validate(d) = {} /\ EndTurn(<<>>, "planned", Dumped(d), {})
    <3>1. Typed(d)  BY DEF HistoryInv
    <3>2. Unique(d)  BY <2>3, <3>1, AcceptedMeans, UniqueNodes DEF Typed
    <3>3. Good(Dumped(d))  BY <3>1, <3>2, DumpedIsGood DEF Good, Typed
    <3>4. QED  BY <2>1, <2>3, <3>3, TurnIsRecorded
  <2>4. CASE EndTurn(<<>>, "failed", None, {})
    BY <2>1, <2>4, TurnIsRecorded
  <2>5. QED  BY <2>2, <2>3, <2>4
<1>2. CASE EditTurn
  <2>1. asks' = asks /\ session.ir # None  BY <1>2 DEF EditTurn, MayTurn
  <2>2. PICK m \in asks.messages :
            LET e == Parse(m)
                edited == IF e.kind = "unrecognized" THEN <<>> ELSE DeterministicEdit(Current, e)
            IN  /\ e.kind \notin {"review", "invalid"}
                /\ IF edited = <<>> THEN EndTurn(m, "rejected", None, {})
                   ELSE IF Validate(edited[1]) # {} THEN EndTurn(m, "failed", None, {})
                   ELSE EndTurn(m, "edited", edited[1], Diff(Current, edited[1]))
    BY <1>2 DEF EditTurn
  <2> DEFINE e == Parse(m)
             f == DeterministicEdit(Current, e)[1]
  <2>3. CASE EndTurn(m, "rejected", None, {})
    BY <2>1, <2>3, TurnIsRecorded
  <2>4. CASE EndTurn(m, "failed", None, {})
    BY <2>1, <2>4, TurnIsRecorded
  <2>5. CASE /\ e.kind # "unrecognized" /\ DeterministicEdit(Current, e) # <<>>
             /\ EndTurn(m, "edited", f, Diff(Current, f))
    <3> DEFINE expected == Diff(Current, f)
               t == [asked |-> m, outcome |-> "edited", before |-> session.ir,
                     after |-> f, expected |-> expected]
    <3>1. e.kind \in Constrained  BY <2>2, <2>5, ParsedKinds
    <3>2. Good(session.ir)  BY <2>1 DEF HistoryInv
    <3>3. /\ t.before = session.ir /\ t.asked = m /\ t.after = f /\ t.expected = expected
      OBVIOUS
    <3>4. Current = Dumped(session.ir)  BY DEF Current
    <3> HIDE DEF t
    <3>5. Good(t.after) /\ Said(t)
      <4>1. /\ Good(t.before) /\ Parse(t.asked).kind \in Constrained
            /\ DeterministicEdit(Dumped(t.before), Parse(t.asked)) # <<>>
            /\ t.after = DeterministicEdit(Dumped(t.before), Parse(t.asked))[1]
            /\ t.expected = Diff(Dumped(t.before), t.after)
        BY <2>5, <3>1, <3>2, <3>3, <3>4
      <4>2. QED  BY <4>1, EditSays
    <3>6. Good(f) /\ EndTurn(m, "edited", f, expected)  BY <2>5, <3>3, <3>5
    <3> HIDE DEF f, expected
    <3>7. QED  BY <2>1, <3>5, <3>6, TurnIsRecorded DEF t
  <2>6. QED  BY <2>2, <2>3, <2>4, <2>5
<1>3. CASE GateTurn
  <2>1. asks' = asks /\ session.ir # None  BY <1>3 DEF GateTurn, MayTurn
  <2> DEFINE ended(m, reply) ==
            IF ~InManualReviewScope(Current, reply, Parse(m)) THEN EndTurn(m, "rejected", None, {})
            ELSE IF Validate(reply) # {} THEN EndTurn(m, "failed", None, {})
            ELSE EndTurn(m, "gated", reply, {})
  <2>2. PICK m \in asks.messages : \E reply \in GateReplies(Current, Parse(m)) : ended(m, reply)
    BY <1>3 DEF GateTurn
  <2>3. PICK reply \in GateReplies(Current, Parse(m)) : ended(m, reply)  BY <2>2
  <2>4. CASE EndTurn(m, "rejected", None, {})
    BY <2>1, <2>4, TurnIsRecorded
  <2>5. CASE EndTurn(m, "failed", None, {})
    BY <2>1, <2>5, TurnIsRecorded
  <2>6. CASE InManualReviewScope(Current, reply, Parse(m)) /\ Validate(reply) = {} /\ EndTurn(m, "gated", reply, {})
    <3>1. Good(Current)  BY <2>1, DumpedIsGood DEF HistoryInv, Current, Good, Typed
    <3>2. Good(reply)  BY <2>6, <3>1, GatedIsGood
    <3>3. QED  BY <2>1, <2>6, <3>2, TurnIsRecorded
  <2>7. QED  BY <2>3, <2>4, <2>5, <2>6
<1>4. CASE FailTurn
  <2>1. asks' = asks  BY <1>4 DEF FailTurn, MayTurn
  <2>2. PICK m : EndTurn(m, "failed", None, {})  BY <1>4 DEF FailTurn
  <2>3. QED  BY <2>1, <2>2, TurnIsRecorded
<1>5. CASE UNCHANGED editVars
  BY <1>5 DEF HistoryInv, editVars
<1>6. CASE Export
  BY <1>5, <1>6 DEF Export
<1>7. QED  BY <1>1, <1>2, <1>3, <1>4, <1>5, <1>6 DEF EditStep

LEMMA HistoryHolds == Spec => []HistoryInv
<1>1. Init => HistoryInv
  <2> SUFFICES ASSUME Init PROVE HistoryInv
    OBVIOUS
  <2>1. PICK s \in Scenarios : EditsInit(s.asks, s.ir)  BY DEF Init
  <2>2. /\ asks = s.asks /\ session.ir = s.ir /\ session.turns = <<>>
    BY <2>1 DEF EditsInit
  <2>3. \A d \in asks.drafts : Typed(d)  BY <2>2, ScenariosAssumption DEF Typed
  <2>4. session.ir # None => Typed(session.ir) /\ Validate(session.ir) = {}
    BY <2>2, ScenariosAssumption DEF Typed
  <2>5. session.ir # None => Good(session.ir)
    BY <2>4, AcceptedMeans, UniqueNodes DEF Good, Typed
  <2>6. session.turns \in Seq(ToSet(session.turns)) /\ DOMAIN session.turns = {}  BY <2>2
  <2>7. QED  BY <2>3, <2>5, <2>6 DEF HistoryInv
<1>2. HistoryInv /\ [Next]_vars => HistoryInv'
  BY HistoryStep DEF Next, Plan, Edit, Push, vars, editVars
<1>3. QED  BY <1>1, <1>2, PTL DEF Spec

\* An accepted edit does the first thing its message can be read as and nothing else, and the
\* diff that is archived names that change and no other (sessions.py:1048-1165, ir_diff.py:32-60).
THEOREM EditsDoWhatTheySay == Spec => []EditDoesWhatItSays
<1>1. HistoryInv => EditDoesWhatItSays
  <2> SUFFICES ASSUME HistoryInv, NEW k \in DOMAIN session.turns, session.turns[k].outcome = "edited"
               PROVE  Said(session.turns[k])
    BY DEF EditDoesWhatItSays, Said
  <2>1. QED  BY DEF HistoryInv, Recorded
<1>2. QED  BY <1>1, HistoryHolds, PTL

\* Between any two snapshots the diff route tells of no change that is not one, of every
\* change where it is or at a container it is in, and of what is of consequence among its
\* hard blocks (ir_diff.py:1-12).
THEOREM ChangesAlwaysSurface == Spec => []ChangesSurface
<1>1. HistoryInv => ChangesSurface
  <2> DEFINE places(cs) == {<<c.scope, c.at>> : c \in cs}
  <2> SUFFICES ASSUME HistoryInv, NEW b \in Snapshots, NEW a \in Snapshots, ~Doubled(b), ~Doubled(a)
               PROVE  /\ places(Diff(b, a)) \subseteq Differences(b, a)
                      /\ \A x \in Differences(b, a) : Told(Diff(b, a), x)
                      /\ Consequences(b, a) \subseteq places(HardBlocks(Diff(b, a)))
    BY DEF ChangesSurface
  <2>1. \A d \in Snapshots : Good(d)  BY DEF Snapshots, Snapshot, HistoryInv, Recorded
  <2>2. Good(b) /\ Good(a)  BY <2>1
  <2>3. \A c \in Diff(b, a) : <<c.scope, c.at>> \in Differences(b, a)  BY <2>2, OnlyDifferences
  <2>4. \A x \in Differences(b, a) : Told(Diff(b, a), x)  BY <2>2, EveryDifference
  <2>5. Consequences(b, a) \subseteq places(HardBlocks(Diff(b, a)))  BY <2>2, ConsequencesAreTold
  <2>6. places(Diff(b, a)) \subseteq Differences(b, a)  BY <2>3
  <2>7. QED  BY <2>4, <2>5, <2>6
<1>2. QED  BY <1>1, HistoryHolds, PTL

-----------------------------------------------------------------------------
(* The planner's loop. *)

LoopInv ==
    /\ DOMAIN plan = {"at", "attempt", "prior", "last", "reply", "ir"}
    /\ talk \in Seq(ToSet(talk))
    /\ \A d \in menu \ {NotJson, NoObject} : IsDocument(d) /\ IsNested(d)
    /\ \A k \in DOMAIN talk : talk[k].told = IF k = 1 THEN NoFailures ELSE Judge(talk[k - 1].reply)
    /\ plan.at = "call" =>
           /\ plan.attempt = Len(talk)
           /\ talk = <<>> => plan.prior = NoFailures
           /\ talk # <<>> => plan.prior = Judge(Last(talk).reply) /\ plan.last = plan.prior
    /\ plan.at = "check" =>
           /\ talk # <<>> /\ plan.attempt = Len(talk)
           /\ Last(talk).reply = plan.reply /\ plan.reply \in menu
    /\ plan.at \in {"failed", "exit_2"} => plan.last = Judge(Last(talk).reply)
    /\ plan.ir # None => IsDocument(plan.ir) /\ IsNested(plan.ir) /\ Validate(plan.ir) = {}

LEMMA LoopCalls ==
    ASSUME LoopInv, CallModel
    PROVE  LoopInv'
<1>1. /\ plan.at = "call" /\ menu' = menu
      /\ plan.attempt = Len(talk)
      /\ talk = <<>> => plan.prior = NoFailures
      /\ talk # <<>> => plan.prior = Judge(Last(talk).reply)
      /\ talk \in Seq(ToSet(talk)) /\ DOMAIN talk = 1 .. Len(talk) /\ Len(talk) \in Nat
  <2>1. talk \in Seq(ToSet(talk))  BY DEF LoopInv
  <2>2. DOMAIN talk = 1 .. Len(talk) /\ Len(talk) \in Nat  BY <2>1
  <2>3. QED  BY <2>1, <2>2 DEF CallModel, LoopInv
<1>2. CASE plan' = [plan EXCEPT !.at = "raised", !.attempt = @ + 1] /\ talk' = talk
  <2>1. plan'.at = "raised" /\ plan'.ir = plan.ir /\ DOMAIN plan' = DOMAIN plan
    BY <1>2 DEF LoopInv
  <2>2. talk' = talk  BY <1>2
  <2>3. QED  BY <1>1, <2>1, <2>2 DEF LoopInv, Judge
<1>3. ASSUME NEW reply \in menu,
             plan' = [plan EXCEPT !.at = "check", !.attempt = @ + 1, !.reply = reply],
             talk' = Append(talk, [told |-> plan.prior, reply |-> reply])
      PROVE  LoopInv'
  <2> DEFINE new == [told |-> plan.prior, reply |-> reply]
             n == Len(talk)
  <2>1. /\ plan'.at = "check" /\ plan'.reply = reply /\ plan'.attempt = plan.attempt + 1
        /\ plan'.ir = plan.ir /\ DOMAIN plan' = DOMAIN plan
    BY <1>3 DEF LoopInv
  <2>2. new.told = plan.prior /\ new.reply = reply  OBVIOUS
  <2> HIDE DEF new
  <2>3. /\ Len(talk') = n + 1 /\ DOMAIN talk' = 1 .. (n + 1) /\ talk' # <<>>
        /\ talk'[n + 1] = new /\ \A k \in 1 .. n : talk'[k] = talk[k]
    BY SMTT(30), <1>1, <1>3 DEF new
  <2>4. talk' \in Seq(ToSet(talk'))  BY <1>1, <1>3, Appended
  <2>5. ASSUME NEW k \in 1 .. (n + 1)
        PROVE  talk'[k].told = IF k = 1 THEN NoFailures ELSE Judge(talk'[k - 1].reply)
    <3>1. CASE k = n + 1 /\ k = 1
      BY <1>1, <2>2, <2>3, <3>1
    <3>2. CASE k = n + 1 /\ k # 1
      <4>1. talk # <<>> /\ k - 1 = n /\ n \in 1 .. n  BY <1>1, <3>2
      <4>2. QED  BY <1>1, <2>2, <2>3, <3>2, <4>1 DEF Last
    <3>3. CASE k \in 1 .. n
      <4>1. k # 1 => k - 1 \in 1 .. n  BY <1>1, <3>3
      <4>2. QED  BY <1>1, <2>3, <3>3, <4>1 DEF LoopInv
    <3>4. QED  BY <1>1, <3>1, <3>2, <3>3
  <2>6. \A x : Judge(x)' = Judge(x)  BY DEF Judge
  <2>7. QED  BY <1>1, <1>3, <2>1, <2>2, <2>3, <2>4, <2>5, <2>6 DEF LoopInv, Last
<1>4. QED  BY <1>2, <1>3 DEF CallModel

LEMMA LoopStep ==
    ASSUME LoopInv, PlannerStep \/ UNCHANGED plannerVars
    PROVE  LoopInv'
<1>1. CASE CallModel  BY <1>1, LoopCalls
<1>2. CASE RefuseText
  <2>1. /\ plan'.at = "call" /\ plan'.last = NotJsonFailure /\ plan'.prior = NotJsonFailure
        /\ plan'.attempt = plan.attempt /\ plan'.ir = plan.ir /\ DOMAIN plan' = DOMAIN plan
    BY <1>2 DEF RefuseText, LoopInv
  <2>2. talk # <<>> /\ Judge(Last(talk).reply) = NotJsonFailure /\ plan.attempt = Len(talk)
    BY <1>2 DEF RefuseText, LoopInv, Judge
  <2>3. menu' = menu /\ talk' = talk  BY <1>2 DEF RefuseText
  <2>4. QED  BY <2>1, <2>2, <2>3 DEF LoopInv, Last, Judge
<1>3. CASE CheckReply
  <2> DEFINE found == Validate(plan.reply)
  <2>1. /\ talk # <<>> /\ Judge(Last(talk).reply) = found /\ plan.attempt = Len(talk)
        /\ IsDocument(plan.reply) /\ IsNested(plan.reply)
    BY <1>3 DEF CheckReply, LoopInv, Judge
  <2>2. menu' = menu /\ talk' = talk  BY <1>3 DEF CheckReply
  <2>3. plan' = IF found = {} THEN [plan EXCEPT !.at = "ok", !.last = {}, !.ir = plan.reply]
                ELSE [plan EXCEPT !.at = "call", !.last = found, !.prior = found]
    BY <1>3 DEF CheckReply
  <2>4. CASE found = {}
    <3>1. plan'.at = "ok" /\ plan'.ir = plan.reply /\ DOMAIN plan' = DOMAIN plan
      BY <2>3, <2>4 DEF LoopInv
    <3>2. QED  BY <2>1, <2>2, <2>4, <3>1 DEF LoopInv, Judge
  <2>5. CASE found # {}
    <3> HIDE DEF found
    <3>1. /\ plan'.at = "call" /\ plan'.last = found /\ plan'.prior = found
          /\ plan'.attempt = plan.attempt /\ plan'.ir = plan.ir /\ DOMAIN plan' = DOMAIN plan
      BY <2>3, <2>5 DEF LoopInv
    <3>2. QED  BY <2>1, <2>2, <3>1 DEF LoopInv, Last, Judge
  <2>6. QED  BY <2>4, <2>5
<1>4. CASE GiveUp
  <2>1. talk # <<>>  BY <1>4, RetriesAssumption DEF GiveUp, LoopInv
  <2>2. plan.last = Judge(Last(talk).reply)  BY <1>4, <2>1 DEF GiveUp, LoopInv
  <2>3. /\ plan'.at = "failed" /\ plan'.last = plan.last /\ plan'.ir = plan.ir
        /\ DOMAIN plan' = DOMAIN plan
    BY <1>4 DEF GiveUp, LoopInv
  <2>4. menu' = menu /\ talk' = talk  BY <1>4 DEF GiveUp
  <2>5. QED  BY <2>2, <2>3, <2>4 DEF LoopInv, Last, Judge
<1>5. CASE Finish
  <2>1. /\ plan'.at = "exit_2" => plan.at = "failed"
        /\ plan'.at \in {"exit_0", "exit_1", "exit_2"} /\ plan'.last = plan.last
        /\ plan'.ir = plan.ir /\ DOMAIN plan' = DOMAIN plan
    BY <1>5 DEF Finish, LoopInv
  <2>2. menu' = menu /\ talk' = talk  BY <1>5 DEF Finish
  <2>3. QED  BY <2>1, <2>2 DEF LoopInv, Last, Judge
<1>6. CASE RaiseOnReply
  <2>1. plan'.at = "raised" /\ plan'.ir = plan.ir /\ DOMAIN plan' = DOMAIN plan
    BY <1>6 DEF RaiseOnReply, LoopInv
  <2>2. menu' = menu /\ talk' = talk  BY <1>6 DEF RaiseOnReply
  <2>3. QED  BY <2>1, <2>2 DEF LoopInv, Last, Judge
<1>7. CASE UNCHANGED plannerVars
  BY <1>7 DEF LoopInv, Last, Judge, plannerVars
<1>8. QED  BY <1>1, <1>2, <1>3, <1>4, <1>5, <1>6, <1>7 DEF PlannerStep

LEMMA LoopHolds == Spec => []LoopInv
<1>1. Init => LoopInv
  <2> SUFFICES ASSUME Init PROVE LoopInv
    OBVIOUS
  <2>1. PICK s \in Scenarios : PlannerInit({s.menu})  BY DEF Init
  <2>2. /\ menu = s.menu /\ talk = <<>> /\ plan.at \in {"idle", "call"} /\ plan.attempt = 0
        /\ plan.prior = NoFailures /\ plan.ir = None
        /\ DOMAIN plan = {"at", "attempt", "prior", "last", "reply", "ir"}
    BY <2>1 DEF PlannerInit
  <2>3. \A d \in menu \ {NotJson, NoObject} : IsDocument(d) /\ IsNested(d)  BY <2>2, ScenariosAssumption
  <2>4. talk \in Seq(ToSet(talk)) /\ DOMAIN talk = {} /\ Len(talk) = 0  BY <2>2
  <2>5. QED  BY <2>2, <2>3, <2>4 DEF LoopInv
<1>2. LoopInv /\ [Next]_vars => LoopInv'
  BY LoopStep DEF Next, Plan, Edit, Push, vars, plannerVars
<1>3. QED  BY <1>1, <1>2, PTL DEF Spec

\* Every call after the first tells the model what is wrong with its answer before that
\* call, and a planner that gives up reports its last answer (retry.py:24-62).
THEOREM FeedbackStaysCurrent == Spec => []FeedbackIsCurrent
<1>1. LoopInv => FeedbackIsCurrent  BY DEF LoopInv, FeedbackIsCurrent, Last
<1>2. QED  BY <1>1, LoopHolds, PTL

\* A document the planner returns is well formed, and an answer with a sound graph is
\* refused for a reference only where nothing supplies it (validate.py:158-304).
THEOREM JudgedByDefinition == Spec => []JudgedByItsGraph
<1>1. ASSUME LoopInv PROVE JudgedByItsGraph
  <2>1. plan.ir # None => WellFormed(plan.ir)  BY <1>1, AcceptedWellFormed DEF LoopInv
  <2>2. ASSUME plan.at = "check", plan.reply \notin {NotJson, NoObject}, NEW n \in RefusedForReferences(plan.reply)
        PROVE  Unsupplied(plan.reply, n)
    <3>1. IsDocument(plan.reply) /\ IsNested(plan.reply)  BY <1>1, <2>2 DEF LoopInv
    <3>2. QED  BY <2>2, <3>1, RefusedUnsupplied
  <2>3. QED  BY <2>1, <2>2 DEF JudgedByItsGraph
<1>2. QED  BY <1>1, LoopHolds, PTL

-----------------------------------------------------------------------------
(* Runs of the push command. *)

Fresh == {"idle", "check", "create"}
Building == {"models", "datasets", "build", "fetch", "nodes", "save"}
Labels == Fresh \cup Building \cup {"draft", "publish"} \cup Ended

\* What run q has made of its app when it has come to where it is.
Progress(q, app) ==
    /\ DOMAIN q = DOMAIN NoPush /\ DOMAIN app = DOMAIN NoApp
    /\ q.at \in Labels
    /\ q.at \in Fresh => app = NoApp
    /\ q.at \in Building \cup {"draft", "publish", "exit_0"} => app.exists
    /\ q.at \in {"fetch", "nodes", "save"} => setting.mode # "single"
    /\ q.at \in Fresh \cup Building => app.graph = <<>> /\ app.draft = <<>>
    /\ q.at \in {"draft", "publish", "exit_0"} =>
           app.graph = IF setting.mode = "single" THEN <<>> ELSE <<q.config>>
    /\ q.at = "draft" => app.draft = <<>>
    /\ q.at \in {"publish", "exit_0"} => app.draft = <<q.config>>
    /\ q.at = "exit_0" => app.published = <<q.config>>
    /\ q.at \notin {"exit_0", "exit_2", "killed"} => app.published = <<>>
    /\ q.at = "exit_2" /\ app.published # <<>> => q.lost = "publish"

\* A step takes an app at most one stage further.
Grown(a, b) ==
    \/ Stage(b) = Stage(a) /\ Content(b) = Content(a)
    \/ Stage(a) = "absent" /\ Stage(b) = "created" /\ Content(b) = <<>>
    \/ Stage(a) = "created" /\ Stage(b) \in {"drawn", "drafted"} /\ Content(b) # <<>>
    \/ Stage(a) = "drawn" /\ Stage(b) = "drafted" /\ Content(b) = Content(a)
    \/ Stage(a) = "drafted" /\ Stage(b) = "published" /\ Content(b) = Content(a)

\* How a run ends early, and how it ends when an answer is lost.
Cut(q, end) == [q EXCEPT !.at = end]
Unsure(q) == [q EXCEPT !.at = "exit_2", !.lost = q.at]

PushTables == DOMAIN push = Pushers /\ DOMAIN apps = Pushers

\* Runs that do not overlap.
Alone1 ==
    ~overlapped =>
        /\ \A p, q \in Pushers : Active(p) /\ Active(q) => p = q
        /\ \A p, q \in Pushers : push[p].at = "create" => ~apps[q].exists
        /\ \A p, q \in Pushers : apps[p].exists /\ apps[q].exists => p = q

PushInv == PushTables /\ (\A p \in Pushers : Progress(push[p], apps[p])) /\ Alone1

\* What a step of run p leaves: everything of the other runs as it was.
Moved(p) ==
    /\ PushTables'
    /\ \A q \in Pushers \ {p} : push'[q] = push[q] /\ apps'[q] = apps[q]
    /\ Progress(push'[p], apps'[p])
    /\ Grown(apps[p], apps'[p])

-----------------------------------------------------------------------------
(* The outcomes of a call. *)

\* The three outcomes of a remote call, over the tables.
LEMMA Outcomes ==
    ASSUME PushTables, NEW p \in Pushers, NEW q, NEW app
    PROVE  /\ Answered(p, q, app) =>
                  /\ PushTables' /\ push'[p] = q /\ apps'[p] = app
                  /\ \A r \in Pushers \ {p} : push'[r] = push[r] /\ apps'[r] = apps[r]
           /\ Refused(p) =>
                  /\ PushTables' /\ push'[p] = Cut(push[p], "exit_2") /\ apps'[p] = apps[p]
                  /\ \A r \in Pushers \ {p} : push'[r] = push[r] /\ apps'[r] = apps[r]
           /\ AnswerLost(p, app) =>
                  /\ PushTables' /\ push'[p] = Unsure(push[p]) /\ apps'[p] = app
                  /\ \A r \in Pushers \ {p} : push'[r] = push[r] /\ apps'[r] = apps[r]
  BY DEF PushTables, Answered, Refused, AnswerLost, Cut, Unsure

\* A run that ends early leaves its app as it is, which nobody has published.
LEMMA EndsEarly ==
    ASSUME NEW q, NEW app, Progress(q, app), q.at \notin Ended, NEW end \in {"exit_2", "traceback", "killed"}
    PROVE  Progress(Cut(q, end), app)
  BY DEF Cut, Progress, Labels, Fresh, Building, Ended, NoPush, NoApp

\* An app that stays as it is has grown by nothing.
LEMMA Stays == \A a : Grown(a, a)
  BY DEF Grown

\* A step that calls nobody, and one that only asks, leave the app alone.
LEMMA Asking ==
    ASSUME PushTables, NEW p \in Pushers, Progress(push[p], apps[p]), push[p].at \notin Ended,
           NEW q, Progress(q, apps[p]), Ask(p, q) \/ Alone(p, q)
    PROVE  Moved(p)
<1>1. CASE Answered(p, q, apps[p])
  BY <1>1, Outcomes, Stays DEF Moved
<1>2. CASE Refused(p)
  BY <1>2, Outcomes, EndsEarly, Stays DEF Moved
<1>3. QED  BY <1>1, <1>2 DEF Ask, Alone

\* A call that changes the app: the answer, the refusal, and the lost answer.
LEMMA Calling ==
    ASSUME PushTables, NEW p \in Pushers, Progress(push[p], apps[p]), push[p].at \notin Ended,
           NEW q, NEW app, Grown(apps[p], app), Progress(q, app),
           Progress(Unsure(push[p]), app),
           Call(p, q, app)
    PROVE  Moved(p)
<1>1. CASE Answered(p, q, app)
  BY <1>1, Outcomes DEF Moved
<1>2. CASE Refused(p)
  BY <1>2, Outcomes, EndsEarly, Stays DEF Moved
<1>3. CASE AnswerLost(p, app)
  BY <1>3, Outcomes DEF Moved
<1>4. QED  BY <1>1, <1>2, <1>3 DEF Call

-----------------------------------------------------------------------------
(* The steps of a run. *)

\* A run at one of its labels has not ended.
LEMMA NotEnded ==
    ASSUME NEW q, q.at \in Fresh \cup Building \cup {"draft", "publish"}
    PROVE  q.at \notin Ended
  BY DEF Fresh, Building, Ended

\* What is held beside the label, the configuration and the lost answer does not matter.
LEMMA Onward ==
    ASSUME NEW q, NEW r, NEW app, Progress(q, app), DOMAIN r = DOMAIN NoPush,
           \/ q.at \in Fresh /\ r.at \in Fresh \cup {"exit_2"}
           \/ /\ q.at \in Building /\ r.at \in Building \cup {"exit_2", "traceback"}
              /\ r.at \in {"fetch", "nodes", "save"} => setting.mode # "single"
    PROVE  Progress(r, app)
  BY DEF Progress, Labels, Fresh, Building, Ended, NoApp

LEMMA Starts ==
    ASSUME PushTables, NEW p \in Pushers, Progress(push[p], apps[p]), Start(p)
    PROVE  Moved(p)
<1> DEFINE r == [push[p] EXCEPT !.at = IF file.schema THEN "check" ELSE "exit_2", !.doc = file,
                                !.bound = setting.datasets]
<1>1. Alone(p, r) /\ push[p].at = "idle"  BY DEF Start
<1>2. DOMAIN r = DOMAIN NoPush /\ r.at \in {"check", "exit_2"}
  BY DEF Progress, NoPush
<1>3. push[p].at \in Fresh /\ r.at \in Fresh \cup {"exit_2"}  BY <1>1, <1>2 DEF Fresh
<1> HIDE DEF r
<1>4. Progress(r, apps[p])  BY <1>2, <1>3, Onward
<1>5. QED  BY <1>1, <1>3, <1>4, NotEnded, Asking

LEMMA ChecksName ==
    ASSUME PushTables, NEW p \in Pushers, Progress(push[p], apps[p]), CheckName(p)
    PROVE  Moved(p)
<1> DEFINE r == To(p, IF \E q \in Pushers : apps[q].exists THEN "exit_2" ELSE "create")
<1>1. Ask(p, r) /\ push[p].at = "check"  BY DEF CheckName
<1>2. DOMAIN r = DOMAIN NoPush /\ r.at \in {"create", "exit_2"}
  BY DEF Progress, NoPush, To
<1>3. push[p].at \in Fresh /\ r.at \in Fresh \cup {"exit_2"}  BY <1>1, <1>2 DEF Fresh
<1> HIDE DEF r
<1>4. Progress(r, apps[p])  BY <1>2, <1>3, Onward
<1>5. QED  BY <1>1, <1>3, <1>4, NotEnded, Asking

LEMMA CreatesApp ==
    ASSUME PushTables, NEW p \in Pushers, Progress(push[p], apps[p]), CreateApp(p)
    PROVE  Moved(p)
<1> DEFINE r == To(p, "models")
           app == [NoApp EXCEPT !.exists = TRUE,
                       !.types = IF setting.mode = "chatflow" THEN <<"Start", "End">> ELSE <<>>]
<1>1. Call(p, r, app) /\ push[p].at = "create"  BY DEF CreateApp
<1>2. /\ DOMAIN app = DOMAIN NoApp /\ app.exists
      /\ app.graph = <<>> /\ app.draft = <<>> /\ app.published = <<>>
  BY DEF NoApp
<1>3. apps[p] = NoApp  BY <1>1 DEF Progress, Fresh
<1>4. DOMAIN r = DOMAIN NoPush /\ r.at = "models"  BY DEF Progress, NoPush, To
<1>5. DOMAIN Unsure(push[p]) = DOMAIN NoPush /\ Unsure(push[p]).at = "exit_2"
  BY DEF Progress, NoPush, Unsure
<1> HIDE DEF r, app
<1>6. Progress(r, app)
  BY <1>2, <1>4 DEF Progress, Labels, Fresh, Building, Ended
<1>7. Progress(Unsure(push[p]), app)
  BY <1>2, <1>5 DEF Progress, Labels, Fresh, Building, Ended
<1>8. Grown(apps[p], app)
  <2>1. Stage(app) = "created" /\ Content(app) = <<>>  BY <1>2 DEF Stage, Content
  <2>2. Stage(NoApp) = "absent"  BY DEF Stage, NoApp
  <2>3. QED  BY <1>3, <2>1, <2>2 DEF Grown
<1>9. push[p].at \notin Ended  BY <1>1 DEF Ended
<1>10. QED  BY <1>1, <1>6, <1>7, <1>8, <1>9, Calling

\* A step of a run that is building, which calls nobody or only asks.
LEMMA Builds ==
    ASSUME PushTables, NEW p \in Pushers, Progress(push[p], apps[p]), push[p].at \in Building,
           NEW r, DOMAIN r = DOMAIN NoPush, r.at \in Building \cup {"exit_2", "traceback"},
           r.at \in {"fetch", "nodes", "save"} => setting.mode # "single",
           Ask(p, r) \/ Alone(p, r)
    PROVE  Moved(p)
<1>1. Progress(r, apps[p])  BY Onward
<1>2. push[p].at \notin Ended  BY NotEnded
<1>3. QED  BY <1>1, <1>2, Asking

LEMMA BindsModels ==
    ASSUME PushTables, NEW p \in Pushers, Progress(push[p], apps[p]), BindModels(p)
    PROVE  Moved(p)
<1>1. \A l \in {"build", "datasets", "exit_2"} :
          /\ DOMAIN To(p, l) = DOMAIN NoPush
          /\ To(p, l).at = l /\ l \in Building \cup {"exit_2", "traceback"}
          /\ l \notin {"fetch", "nodes", "save"}
  BY DEF Progress, NoPush, To, Building
<1>2. push[p].at \in Building
  BY DEF BindModels, Building
<1>3. \/ Alone(p, To(p, "build")) \/ Ask(p, To(p, "datasets")) \/ Ask(p, To(p, "exit_2"))
  BY DEF BindModels
<1>4. QED  BY <1>1, <1>2, <1>3, Builds

LEMMA BindsDatasets ==
    ASSUME PushTables, NEW p \in Pushers, Progress(push[p], apps[p]), BindDatasets(p)
    PROVE  Moved(p)
<1> DEFINE r == [To(p, "build") EXCEPT !.bound = @ \cup push[p].doc.datasets]
<1>1. /\ DOMAIN r = DOMAIN NoPush /\ r.at = "build"
      /\ DOMAIN To(p, "build") = DOMAIN NoPush /\ To(p, "build").at = "build"
      /\ DOMAIN To(p, "exit_2") = DOMAIN NoPush /\ To(p, "exit_2").at = "exit_2"
  BY DEF Progress, NoPush, To
<1>2. push[p].at \in Building
  BY DEF BindDatasets, Building
<1>3. \/ Alone(p, To(p, "build")) \/ Ask(p, r) \/ Ask(p, To(p, "exit_2"))
  BY DEF BindDatasets
<1> HIDE DEF r
<1>4. "build" \in Building  BY DEF Building
<1>5. QED  BY <1>1, <1>2, <1>3, <1>4, Builds

\* An agent is saved as it is; the configuration of a chatflow is built in memory.
LEMMA Compiles ==
    ASSUME PushTables, NEW p \in Pushers, Progress(push[p], apps[p]), Compile(p)
    PROVE  Moved(p)
<1>1. push[p].at = "build" /\ push[p].at \in Building /\ push[p].at \notin Ended
  BY DEF Compile, Building, Ended
<1>2. CASE setting.mode = "single"
  <2> DEFINE r == [To(p, "draft") EXCEPT !.config = push[p].doc]
  <2>1. Alone(p, r)  BY <1>2 DEF Compile
  <2>2. DOMAIN r = DOMAIN NoPush /\ r.at = "draft"  BY DEF Progress, NoPush, To
  <2> HIDE DEF r
  <2>3. Progress(r, apps[p])
    BY <1>1, <1>2, <2>2 DEF Progress, Labels, Fresh, Building, Ended
  <2>4. QED  BY <1>1, <2>1, <2>3, Asking
<1>3. CASE setting.mode # "single"
  <2>1. Build(push[p].doc) \in {"built", "error", "crash"}  BY DEF Build
  <2>2. PICK l \in {"fetch", "exit_2", "traceback"} : Alone(p, To(p, l))
    BY <1>3, <2>1 DEF Compile
  <2>3. DOMAIN To(p, l) = DOMAIN NoPush /\ To(p, l).at = l  BY DEF Progress, NoPush, To
  <2>4. l \in Building \cup {"exit_2", "traceback"}  BY DEF Building
  <2>5. QED  BY <1>1, <1>3, <2>2, <2>3, <2>4, Builds
<1>4. QED  BY <1>2, <1>3

LEMMA Fetches ==
    ASSUME PushTables, NEW p \in Pushers, Progress(push[p], apps[p]), Fetch(p)
    PROVE  Moved(p)
<1> DEFINE r == [To(p, "nodes") EXCEPT !.defaults = Len(apps[p].types)]
<1>1. Ask(p, r)  BY DEF Fetch
<1>2. DOMAIN r = DOMAIN NoPush /\ r.at = "nodes"  BY DEF Progress, NoPush, To
<1>3. push[p].at \in Building /\ "nodes" \in Building /\ setting.mode # "single"
  BY DEF Fetch, Building, Progress
<1> HIDE DEF r
<1>4. QED  BY <1>1, <1>2, <1>3, Builds

\* A node that is created changes nothing of what is saved.
LEMMA Materialises ==
    ASSUME PushTables, NEW p \in Pushers, Progress(push[p], apps[p]), Materialise(p)
    PROVE  Moved(p)
<1> DEFINE app == [apps[p] EXCEPT !.types = Append(@, NextType(p))]
<1>1. /\ push[p].at = "nodes" /\ push[p].at \in Building /\ push[p].at \notin Ended
      /\ setting.mode # "single"
  BY DEF Materialise, Building, Ended, Progress
<1>2. \A code : DOMAIN Made(p, code) = DOMAIN NoPush /\ Made(p, code).at = "nodes"
  BY <1>1 DEF Made, Progress, NoPush
<1>3. \/ \E code : Alone(p, Made(p, code))
      \/ Call(p, Made(p, Len(apps[p].types) + 1), app)
  BY DEF Materialise
<1>4. CASE \E code : Alone(p, Made(p, code))
  BY <1>1, <1>2, <1>4, Builds
<1>5. CASE Call(p, Made(p, Len(apps[p].types) + 1), app)
  <2>1. /\ DOMAIN app = DOMAIN NoApp /\ app.exists = apps[p].exists /\ app.graph = apps[p].graph
        /\ app.draft = apps[p].draft /\ app.published = apps[p].published
    BY DEF Progress, NoApp
  <2>2. DOMAIN Unsure(push[p]) = DOMAIN NoPush /\ Unsure(push[p]).at = "exit_2"
    BY DEF Progress, NoPush, Unsure
  <2> HIDE DEF app
  <2>3. Progress(Made(p, Len(apps[p].types) + 1), app)
    BY <1>1, <1>2, <2>1 DEF Progress, Labels, Fresh, Building, Ended
  <2>4. Progress(Unsure(push[p]), app)
    BY <1>1, <2>1, <2>2 DEF Progress, Labels, Fresh, Building, Ended
  <2>5. Grown(apps[p], app)
    BY <2>1 DEF Grown, Stage, Content
  <2>6. QED  BY <1>1, <1>5, <2>3, <2>4, <2>5, Calling
<1>6. QED  BY <1>3, <1>4, <1>5

LEMMA ChecksMaterialised ==
    ASSUME PushTables, NEW p \in Pushers, Progress(push[p], apps[p]), CheckMaterialised(p)
    PROVE  Moved(p)
<1> DEFINE r == [To(p, "save") EXCEPT
                    !.config = ServerGraph(push[p].doc, push[p].made, apps[p].types)]
<1>1. Alone(p, r) \/ Alone(p, To(p, "exit_2"))  BY DEF CheckMaterialised
<1>2. /\ DOMAIN r = DOMAIN NoPush /\ r.at = "save"
      /\ DOMAIN To(p, "exit_2") = DOMAIN NoPush /\ To(p, "exit_2").at = "exit_2"
  BY DEF Progress, NoPush, To
<1>3. push[p].at \in Building /\ "save" \in Building /\ setting.mode # "single"
  BY DEF CheckMaterialised, Building, Progress
<1> HIDE DEF r
<1>4. QED  BY <1>1, <1>2, <1>3, Builds

-----------------------------------------------------------------------------
(* The three saves. *)

LEMMA SavesChatflow ==
    ASSUME PushTables, NEW p \in Pushers, Progress(push[p], apps[p]), SaveChatflow(p)
    PROVE  Moved(p)
<1> DEFINE r == To(p, "draft")
           app == [apps[p] EXCEPT !.graph = <<push[p].config>>]
<1>1. /\ Call(p, r, app) /\ push[p].at = "save" /\ push[p].at \notin Ended
      /\ setting.mode # "single"
  BY DEF SaveChatflow, Ended, Progress
<1>2. /\ apps[p].exists /\ apps[p].graph = <<>> /\ apps[p].draft = <<>> /\ apps[p].published = <<>>
      /\ DOMAIN apps[p] = DOMAIN NoApp
  BY <1>1 DEF Progress, Building
<1>3. /\ DOMAIN app = DOMAIN NoApp /\ app.exists /\ app.graph = <<push[p].config>>
      /\ app.draft = <<>> /\ app.published = <<>>
  BY <1>2 DEF NoApp
<1>4. /\ DOMAIN r = DOMAIN NoPush /\ r.at = "draft" /\ r.config = push[p].config
      /\ DOMAIN Unsure(push[p]) = DOMAIN NoPush /\ Unsure(push[p]).at = "exit_2"
  BY DEF Progress, NoPush, To, Unsure
<1> HIDE DEF r, app
<1>5. Progress(r, app)
  BY <1>1, <1>3, <1>4 DEF Progress, Labels, Fresh, Building, Ended
<1>6. Progress(Unsure(push[p]), app)
  BY <1>3, <1>4 DEF Progress, Labels, Fresh, Building, Ended
<1>7. Grown(apps[p], app)
  <2>1. Stage(apps[p]) = "created"  BY <1>2 DEF Stage
  <2>2. app.graph # <<>>  BY <1>3
  <2>3. Stage(app) = "drawn" /\ Content(app) # <<>>  BY <1>3, <2>2 DEF Stage, Content
  <2>4. QED  BY <2>1, <2>3 DEF Grown
<1>8. QED  BY <1>1, <1>5, <1>6, <1>7, Calling

LEMMA SavesDraft ==
    ASSUME PushTables, NEW p \in Pushers, Progress(push[p], apps[p]), SaveDraft(p)
    PROVE  Moved(p)
<1> DEFINE r == To(p, "publish")
           app == [apps[p] EXCEPT !.draft = <<push[p].config>>]
<1>1. Call(p, r, app) /\ push[p].at = "draft" /\ push[p].at \notin Ended
  BY DEF SaveDraft, Ended
<1>2. /\ apps[p].exists /\ apps[p].draft = <<>> /\ apps[p].published = <<>>
      /\ apps[p].graph = IF setting.mode = "single" THEN <<>> ELSE <<push[p].config>>
      /\ DOMAIN apps[p] = DOMAIN NoApp
  BY <1>1 DEF Progress
<1>3. /\ DOMAIN app = DOMAIN NoApp /\ app.exists /\ app.draft = <<push[p].config>>
      /\ app.published = <<>> /\ app.graph = apps[p].graph
  BY <1>2 DEF NoApp
<1>4. /\ DOMAIN r = DOMAIN NoPush /\ r.at = "publish" /\ r.config = push[p].config
      /\ DOMAIN Unsure(push[p]) = DOMAIN NoPush /\ Unsure(push[p]).at = "exit_2"
  BY DEF Progress, NoPush, To, Unsure
<1> HIDE DEF r, app
<1>5. Progress(r, app)
  BY <1>2, <1>3, <1>4 DEF Progress, Labels, Fresh, Building, Ended
<1>6. Progress(Unsure(push[p]), app)
  BY <1>3, <1>4 DEF Progress, Labels, Fresh, Building, Ended
<1>7. Grown(apps[p], app)
  <2>1. app.draft # <<>>  BY <1>3
  <2>2. Stage(app) = "drafted" /\ Content(app) = <<push[p].config>>  BY <1>3, <2>1 DEF Stage, Content
  <2>3. CASE setting.mode = "single"
    <3>1. Stage(apps[p]) = "created"  BY <1>2, <2>3 DEF Stage
    <3>2. Content(app) # <<>>  BY <2>2
    <3>3. QED  BY <2>2, <3>1, <3>2 DEF Grown
  <2>4. CASE setting.mode # "single"
    <3>1. apps[p].graph = <<push[p].config>> /\ apps[p].graph # <<>>  BY <1>2, <2>4
    <3>2. Stage(apps[p]) = "drawn" /\ Content(apps[p]) = <<push[p].config>>
      BY <1>2, <3>1 DEF Stage, Content
    <3>3. QED  BY <2>2, <3>2 DEF Grown
  <2>5. QED  BY <2>3, <2>4
<1>8. QED  BY <1>1, <1>5, <1>6, <1>7, Calling

LEMMA Publishes ==
    ASSUME PushTables, NEW p \in Pushers, Progress(push[p], apps[p]), Publish(p)
    PROVE  Moved(p)
<1> DEFINE r == To(p, "exit_0")
           app == [apps[p] EXCEPT !.published = <<push[p].config>>]
<1>1. Call(p, r, app) /\ push[p].at = "publish" /\ push[p].at \notin Ended
  BY DEF Publish, Ended
<1>2. /\ apps[p].exists /\ apps[p].draft = <<push[p].config>> /\ apps[p].published = <<>>
      /\ apps[p].graph = IF setting.mode = "single" THEN <<>> ELSE <<push[p].config>>
      /\ DOMAIN apps[p] = DOMAIN NoApp
  BY <1>1 DEF Progress, Ended
<1>3. /\ DOMAIN app = DOMAIN NoApp /\ app.exists /\ app.published = <<push[p].config>>
      /\ app.draft = apps[p].draft /\ app.graph = apps[p].graph
  BY <1>2 DEF NoApp
<1>4. /\ DOMAIN r = DOMAIN NoPush /\ r.at = "exit_0" /\ r.config = push[p].config
      /\ DOMAIN Unsure(push[p]) = DOMAIN NoPush /\ Unsure(push[p]).at = "exit_2"
      /\ Unsure(push[p]).lost = "publish"
  BY <1>1 DEF Progress, NoPush, To, Unsure
<1> HIDE DEF r, app
<1>5. Progress(r, app)
  BY <1>2, <1>3, <1>4 DEF Progress, Labels, Fresh, Building, Ended
<1>6. Progress(Unsure(push[p]), app)
  BY <1>3, <1>4 DEF Progress, Labels, Fresh, Building, Ended
<1>7. Grown(apps[p], app)
  <2>1. app.published # <<>> /\ apps[p].draft # <<>>  BY <1>2, <1>3
  <2>2. Stage(app) = "published" /\ Content(app) = <<push[p].config>>
    BY <1>3, <2>1 DEF Stage, Content
  <2>3. Stage(apps[p]) = "drafted" /\ Content(apps[p]) = <<push[p].config>>
    BY <1>2, <2>1 DEF Stage, Content
  <2>4. QED  BY <2>2, <2>3 DEF Grown
<1>8. QED  BY <1>1, <1>5, <1>6, <1>7, Calling

LEMMA Dies ==
    ASSUME PushTables, NEW p \in Pushers, Progress(push[p], apps[p]), Kill(p)
    PROVE  Moved(p)
<1>1. push[p].at \notin Ended  BY DEF Kill, Active
<1>2. /\ PushTables' /\ apps' = apps /\ push'[p] = Cut(push[p], "killed")
      /\ \A q \in Pushers \ {p} : push'[q] = push[q]
  BY DEF Kill, PushTables, Cut
<1>3. Progress(Cut(push[p], "killed"), apps[p])  BY <1>1, EndsEarly
<1>4. QED  BY <1>2, <1>3, Stays DEF Moved

\* Every step of a run.
LEMMA Advances ==
    ASSUME PushTables, NEW p \in Pushers, Progress(push[p], apps[p]), Step(p) \/ Kill(p)
    PROVE  Moved(p)
  BY Starts, ChecksName, CreatesApp, BindsModels, BindsDatasets, Compiles, Fetches, Materialises,
     ChecksMaterialised, SavesChatflow, SavesDraft, Publishes, Dies DEF Step

-----------------------------------------------------------------------------
(* The invariant. *)

LEMMA Begins == PushInit => PushInv
<1> SUFFICES ASSUME PushInit PROVE PushInv
  OBVIOUS
<1>1. PushTables /\ \A p \in Pushers : push[p] = NoPush /\ apps[p] = NoApp
  BY DEF PushInit, PushTables
<1>2. NoPush.at = "idle" /\ ~NoApp.exists /\ DOMAIN NoPush = DOMAIN NoPush
      /\ NoApp.graph = <<>> /\ NoApp.draft = <<>> /\ NoApp.published = <<>>
  BY DEF NoPush, NoApp
<1>3. Progress(NoPush, NoApp)
  BY <1>2 DEF Progress, Labels, Fresh, Building, Ended
<1>4. Alone1
  BY <1>1, <1>2 DEF Alone1, Active
<1>5. QED  BY <1>1, <1>3, <1>4 DEF PushInv

\* A step of a run other than the answers to CheckName and CreateApp: it does not come
\* to "create", and its app is there exactly if it was.
Plain(p) ==
    /\ Active(p) /\ overlapped' = overlapped
    /\ push'[p].at # "create"
    /\ apps'[p].exists = apps[p].exists

LEMMA Calls ==
    ASSUME PushTables, NEW p \in Pushers, Progress(push[p], apps[p]), NEW q, NEW app,
           q.at # "create", app.exists = apps[p].exists, Call(p, q, app)
    PROVE  push'[p].at # "create" /\ apps'[p].exists = apps[p].exists
<1>1. "at" \in DOMAIN push[p]  BY DEF Progress, NoPush
<1>2. Unsure(push[p]).at = "exit_2" /\ Cut(push[p], "exit_2").at = "exit_2"
  BY <1>1 DEF Unsure, Cut
<1>3. QED  BY SMTT(30), <1>2, Outcomes DEF Call

LEMMA Quietly ==
    ASSUME PushTables, NEW p \in Pushers, Progress(push[p], apps[p]), NEW q,
           q.at # "create", Ask(p, q) \/ Alone(p, q)
    PROVE  push'[p].at # "create" /\ apps'[p].exists = apps[p].exists
  BY Calls DEF Ask, Alone, Call

LEMMA Plainly ==
    ASSUME PushTables, NEW p \in Pushers, Progress(push[p], apps[p]),
           \/ BindModels(p) \/ BindDatasets(p) \/ Compile(p) \/ Fetch(p) \/ Materialise(p)
           \/ CheckMaterialised(p) \/ SaveChatflow(p) \/ SaveDraft(p) \/ Publish(p) \/ Kill(p)
    PROVE  Plain(p)
<1> USE DEF Active, Ended, Plain
<1>1. DOMAIN push[p] = DOMAIN NoPush /\ DOMAIN apps[p] = DOMAIN NoApp  BY DEF Progress
<1>2. DOMAIN push[p] = {"at", "doc", "made", "defaults", "bound", "config", "lost"}
      /\ DOMAIN apps[p] = {"exists", "types", "graph", "draft", "published"}
  BY <1>1 DEF NoPush, NoApp
<1>3. \A l : To(p, l).at = l  BY <1>2 DEF To
<1>4. CASE BindModels(p)
  <2>1. \/ Alone(p, To(p, "build")) \/ Ask(p, To(p, "datasets")) \/ Ask(p, To(p, "exit_2"))
    BY <1>4 DEF BindModels
  <2>2. QED  BY <1>3, <1>4, <2>1, Quietly DEF BindModels
<1>5. CASE BindDatasets(p)
  <2> DEFINE r == [To(p, "build") EXCEPT !.bound = @ \cup push[p].doc.datasets]
  <2>1. \/ Alone(p, To(p, "build")) \/ Ask(p, r) \/ Ask(p, To(p, "exit_2"))
    BY <1>5 DEF BindDatasets
  <2>2. r.at = "build"  BY <1>2 DEF To
  <2> HIDE DEF r
  <2>3. QED  BY <1>3, <1>5, <2>1, <2>2, Quietly DEF BindDatasets
<1>6. CASE Compile(p)
  <2> DEFINE r == [To(p, "draft") EXCEPT !.config = push[p].doc]
  <2>1. Build(push[p].doc) \in {"built", "error", "crash"}  BY DEF Build
  <2>2. \/ Alone(p, r) \/ \E l \in {"fetch", "exit_2", "traceback"} : Alone(p, To(p, l))
    BY <1>6, <2>1 DEF Compile
  <2>3. r.at = "draft"  BY <1>2 DEF To
  <2> HIDE DEF r
  <2>4. QED  BY <1>3, <1>6, <2>2, <2>3, Quietly DEF Compile
<1>7. CASE Fetch(p)
  <2> DEFINE r == [To(p, "nodes") EXCEPT !.defaults = Len(apps[p].types)]
  <2>1. Ask(p, r)  BY <1>7 DEF Fetch
  <2>2. r.at = "nodes"  BY <1>2 DEF To
  <2> HIDE DEF r
  <2>3. QED  BY <1>7, <2>1, <2>2, Quietly DEF Fetch
<1>8. CASE Materialise(p)
  <2> DEFINE app == [apps[p] EXCEPT !.types = Append(@, NextType(p))]
  <2>1. \A code : Made(p, code).at = "nodes"  BY <1>2, <1>8 DEF Made, Materialise
  <2>2. app.exists = apps[p].exists  BY <1>2
  <2>3. (\E code : Alone(p, Made(p, code))) \/ Call(p, Made(p, Len(apps[p].types) + 1), app)
    BY <1>8 DEF Materialise
  <2> HIDE DEF app
  <2>4. QED  BY <1>8, <2>1, <2>2, <2>3, Quietly, Calls DEF Materialise
<1>9. CASE CheckMaterialised(p)
  <2> DEFINE r == [To(p, "save") EXCEPT
                      !.config = ServerGraph(push[p].doc, push[p].made, apps[p].types)]
  <2>1. Alone(p, r) \/ Alone(p, To(p, "exit_2"))  BY <1>9 DEF CheckMaterialised
  <2>2. r.at = "save"  BY <1>2 DEF To
  <2> HIDE DEF r
  <2>3. QED  BY <1>3, <1>9, <2>1, <2>2, Quietly DEF CheckMaterialised
<1>10. CASE SaveChatflow(p)
  <2> DEFINE app == [apps[p] EXCEPT !.graph = <<push[p].config>>]
  <2>1. Call(p, To(p, "draft"), app) /\ app.exists = apps[p].exists
    BY <1>2, <1>10 DEF SaveChatflow
  <2>2. QED  BY <1>3, <1>10, <2>1, Calls DEF SaveChatflow
<1>11. CASE SaveDraft(p)
  <2> DEFINE app == [apps[p] EXCEPT !.draft = <<push[p].config>>]
  <2>1. Call(p, To(p, "publish"), app) /\ app.exists = apps[p].exists
    BY <1>2, <1>11 DEF SaveDraft
  <2>2. QED  BY <1>3, <1>11, <2>1, Calls DEF SaveDraft
<1>12. CASE Publish(p)
  <2> DEFINE app == [apps[p] EXCEPT !.published = <<push[p].config>>]
  <2>1. Call(p, To(p, "exit_0"), app) /\ app.exists = apps[p].exists
    BY <1>2, <1>12 DEF Publish
  <2>2. QED  BY <1>3, <1>12, <2>1, Calls DEF Publish
<1>13. CASE Kill(p)
  BY <1>2, <1>13 DEF Kill, PushTables
<1>14. QED
  BY <1>4, <1>5, <1>6, <1>7, <1>8, <1>9, <1>10, <1>11, <1>12, <1>13

LEMMA StaysAlone ==
    ASSUME PushInv, NEW p \in Pushers, Step(p) \/ Kill(p)
    PROVE  Alone1'
<1>1. PushTables /\ Progress(push[p], apps[p]) /\ Alone1  BY DEF PushInv
<1>2. \A q \in Pushers \ {p} : push'[q] = push[q] /\ apps'[q] = apps[q]
  BY <1>1, Advances DEF Moved
<1>3. DOMAIN push[p] = {"at", "doc", "made", "defaults", "bound", "config", "lost"}
  BY <1>1 DEF Progress, NoPush
<1>4. CASE Start(p)
  <2> DEFINE r == [push[p] EXCEPT !.at = IF file.schema THEN "check" ELSE "exit_2", !.doc = file,
                                  !.bound = setting.datasets]
  <2>1. /\ push[p].at = "idle" /\ Alone(p, r)
        /\ overlapped' = (overlapped \/ (file.schema /\ \E q \in Pushers : Active(q)))
    BY <1>4 DEF Start
  <2>2. r.at = IF file.schema THEN "check" ELSE "exit_2"  BY <1>3
  <2> HIDE DEF r
  <2>3. push'[p] = r /\ apps'[p] = apps[p]  BY <1>1, <2>1, Outcomes DEF Alone
  <2>4. \A q \in Pushers : apps'[q] = apps[q]  BY <1>2, <2>3
  <2>5. CASE file.schema
    <3>1. ~overlapped' => \A q \in Pushers : ~Active(q)  BY <2>1, <2>5
    <3>2. ~overlapped' => \A q \in Pushers : push'[q].at = "create" => FALSE
      BY <1>2, <2>2, <2>3, <2>5, <3>1 DEF Active, Ended
    <3>3. ~overlapped' => \A q \in Pushers \ {p} : ~(push'[q].at \notin Ended \cup {"idle"})
      BY <1>2, <3>1 DEF Active
    <3>4. ~overlapped' => ~overlapped  BY <2>1
    <3>5. QED  BY <1>1, <2>4, <3>2, <3>3, <3>4 DEF Alone1, Active
  <2>6. CASE ~file.schema
    <3>1. push'[p].at = "exit_2"  BY <2>2, <2>3, <2>6
    <3>3. ~overlapped' => ~overlapped  BY <2>1
    <3>2. QED  BY <1>1, <1>2, <2>4, <3>1, <3>3 DEF Alone1, Active, Ended
  <2>7. QED  BY <2>5, <2>6
<1>5. ASSUME Active(p), overlapped' = overlapped, ~overlapped,
             push'[p].at = "create" => \A q \in Pushers : ~apps'[q].exists,
             apps'[p].exists => apps[p].exists \/ push[p].at = "create"
      PROVE  Alone1'
  <2>1. /\ \A q, x \in Pushers : Active(q) /\ Active(x) => q = x
        /\ \A q, x \in Pushers : push[q].at = "create" => ~apps[x].exists
        /\ \A q, x \in Pushers : apps[q].exists /\ apps[x].exists => q = x
    BY <1>1, <1>5 DEF Alone1
  <2>2. \A q \in Pushers \ {p} : ~Active(q)  BY <1>5, <2>1
  <2>3. \A q \in Pushers \ {p} : push'[q].at \in Ended \cup {"idle"}
    BY <1>2, <2>2 DEF Active
  <2>4. \A q, x \in Pushers : push'[q].at = "create" => ~apps'[x].exists
    BY <1>5, <2>3 DEF Ended
  <2>5. \A q, x \in Pushers : apps'[q].exists /\ apps'[x].exists => q = x
    BY <1>2, <1>5, <2>1
  <2>6. QED  BY <2>3, <2>4, <2>5 DEF Alone1, Active
<1>6. CASE CheckName(p)
  <2>1. /\ push[p].at = "check" /\ overlapped' = overlapped
        /\ \/ Ask(p, To(p, "create")) /\ \A q \in Pushers : ~apps[q].exists
           \/ Ask(p, To(p, "exit_2"))
    BY <1>6 DEF CheckName
  <2>2. /\ To(p, "create").at = "create" /\ To(p, "exit_2").at = "exit_2"
        /\ Cut(push[p], "exit_2").at = "exit_2"
    BY <1>3 DEF To, Cut
  <2>3. Active(p)  BY <2>1 DEF Active, Ended
  <2>4. \A q \in Pushers : apps'[q] = apps[q]
    BY <1>1, <1>2, <2>1, Outcomes DEF Ask
  <2>5. push'[p].at = "create" => \A q \in Pushers : ~apps'[q].exists
    BY <1>1, <2>1, <2>2, <2>4, Outcomes DEF Ask
  <2>6. CASE ~overlapped
    BY <1>5, <2>1, <2>3, <2>4, <2>5, <2>6
  <2>7. CASE overlapped
    BY <2>1, <2>7 DEF Alone1
  <2>8. QED  BY <2>6, <2>7
<1>7. CASE CreateApp(p)
  <2>1. /\ push[p].at = "create" /\ overlapped' = overlapped
        /\ \E app : Call(p, To(p, "models"), app)
    BY <1>7 DEF CreateApp
  <2>2. /\ To(p, "models").at = "models" /\ Unsure(push[p]).at = "exit_2"
        /\ Cut(push[p], "exit_2").at = "exit_2"
    BY <1>3 DEF To, Cut, Unsure
  <2>3. Active(p)  BY <2>1 DEF Active, Ended
  <2>4. push'[p].at # "create"
    BY <1>1, <2>1, <2>2, Outcomes DEF Call
  <2>5. CASE ~overlapped
    BY <1>5, <2>1, <2>3, <2>4, <2>5
  <2>6. CASE overlapped
    BY <2>1, <2>6 DEF Alone1
  <2>7. QED  BY <2>5, <2>6
<1>8. CASE Plain(p)
  <2>1. CASE ~overlapped
    BY <1>5, <1>8, <2>1 DEF Plain
  <2>2. CASE overlapped
    BY <1>8, <2>2 DEF Alone1, Plain
  <2>3. QED  BY <2>1, <2>2
<1>9. QED
  BY <1>1, <1>4, <1>6, <1>7, <1>8, Plainly DEF Step

\* Every step of the specification: one run moves, or the file changes.
LEMMA PushSteps ==
    ASSUME PushInv, [PushStep \/ FileChanges]_<<file, pushVars>>
    PROVE  /\ PushInv'
           /\ UNCHANGED <<push, apps>> \/ \E p \in Pushers : Moved(p)
<1>1. CASE PushStep
  <2>1. PICK p \in Pushers : (Step(p) \/ Kill(p)) /\ setting' = setting
    BY <1>1 DEF PushStep
  <2>2. Moved(p)  BY <2>1, Advances DEF PushInv
  <2>3. Alone1'  BY <2>1, StaysAlone
  <2>4. \A q \in Pushers : Progress(push'[q], apps'[q])
    BY <2>2 DEF Moved, PushInv
  <2>5. \A q \in Pushers : Progress(push[q], apps[q])'
    BY <2>1, <2>4 DEF Progress
  <2>6. QED  BY <2>2, <2>3, <2>5 DEF PushInv, Moved
<1>2. CASE UNCHANGED pushVars
  BY <1>2 DEF PushInv, PushTables, Progress, Alone1, Active, pushVars
<1>3. QED  BY <1>1, <1>2 DEF FileChanges

LEMMA PushHolds == PushSpec => []PushInv
<1>1. PushInit => PushInv  BY Begins
<1>2. PushInv /\ [PushStep \/ FileChanges]_<<file, pushVars>> => PushInv'  BY PushSteps
<1>3. QED  BY <1>1, <1>2, PTL DEF PushSpec

-----------------------------------------------------------------------------
(* What follows. *)

\* A command that says `published` has published whole what it saved, and what is
\* published was published by a command that said so, was killed, or lost just that
\* answer (hiagent_push.py:64-105).
THEOREM PublishedAsTold == PushSpec => []ToldPublished
<1>1. PushInv => ToldPublished
  <2> SUFFICES ASSUME PushInv, NEW p \in Pushers
               PROVE  /\ push[p].at = "exit_0" =>
                             /\ apps[p].exists /\ apps[p].published # <<>>
                             /\ apps[p].published = apps[p].draft
                             /\ setting.mode = "chatflow" => apps[p].graph = apps[p].draft
                      /\ apps[p].published # <<>> =>
                             \/ push[p].at \in {"exit_0", "killed"}
                             \/ push[p].at = "exit_2" /\ push[p].lost = "publish"
    BY DEF ToldPublished
  <2>1. Progress(push[p], apps[p])  BY DEF PushInv
  <2>2. CASE push[p].at = "exit_0"
    BY <2>1, <2>2 DEF Progress
  <2>3. CASE push[p].at # "exit_0"
    BY <2>1, <2>3 DEF Progress
  <2>4. QED  BY <2>2, <2>3
<1>2. QED  BY <1>1, PushHolds, PTL

\* Runs that do not overlap leave one app of the name at most (hiagent_push.py:65-73).
THEOREM OneApp == PushSpec => []OneAppPerName
<1>1. PushInv => OneAppPerName  BY DEF PushInv, Alone1, OneAppPerName
<1>2. QED  BY <1>1, PushHolds, PTL

\* The apps of all runs follow AppLife, each step or a stutter (hiagent_push.py:64-98).
THEOREM AppsFollowLife == PushSpec => FollowsLife
<1>1. PushInit => Life!Init
  <2> SUFFICES ASSUME PushInit PROVE Life!Init
    OBVIOUS
  <2>1. \A p \in Pushers : apps[p] = NoApp  BY DEF PushInit
  <2>2. Stage(NoApp) = "absent" /\ Content(NoApp) = <<>>  BY DEF Stage, Content, NoApp
  <2>3. QED  BY <2>1, <2>2 DEF Life!Init
<1>2. ASSUME PushInv, [PushStep \/ FileChanges]_<<file, pushVars>>
      PROVE  [Life!Next]_<<[p \in Pushers |-> Stage(apps[p])], [p \in Pushers |-> Content(apps[p])]>>
  <2>1. CASE UNCHANGED <<push, apps>>
    BY <2>1
  <2>2. ASSUME NEW p \in Pushers, Moved(p)
        PROVE  [Life!Next]_<<[q \in Pushers |-> Stage(apps[q])], [q \in Pushers |-> Content(apps[q])]>>
    <3>1. /\ \A q \in Pushers \ {p} : apps'[q] = apps[q]
          /\ Grown(apps[p], apps'[p])
      BY <2>2 DEF Moved
    <3>2. Life!Same(p)  BY <3>1 DEF Life!Same
    <3>3. QED
      BY <3>1, <3>2 DEF Grown, Life!Next, Life!Create, Life!Fill, Life!Draft, Life!Publish
  <2>3. QED  BY <1>2, <2>1, <2>2, PushSteps
<1>3. QED
  BY <1>1, <1>2, PushHolds, PTL DEF PushSpec, FollowsLife, Life!Spec

-----------------------------------------------------------------------------
(* The push, whoever writes the file. *)

LEMMA PushIsDelivered == Spec => PushSpec
<1>1. Init => PushInit  BY DEF Init
<1>2. [Next]_vars => [PushStep \/ FileChanges]_<<file, pushVars>>
  BY DEF Next, Plan, Edit, Push, FileChanges, vars, pushVars
<1>3. QED  BY <1>1, <1>2, PTL DEF Spec, PushSpec

\* Whatever is planned, edited or written by hand meanwhile, a command that says
\* `published` has published what it saved; runs that do not overlap leave one app; and
\* apps follow AppLife (hiagent_push.py:64-105).
THEOREM DeliveredAsTold == Spec => []ToldPublished /\ []OneAppPerName /\ FollowsLife
BY PushIsDelivered, PublishedAsTold, OneApp, AppsFollowLife

-----------------------------------------------------------------------------
(* The layout. *)

\* What one round of the layout places.
Round(d, before) == {x \in TopIds(d) : \A e \in ToSet(d.edges) : e.to = x => e.from \in before}

LEMMA RoundsOfLayout ==
    ASSUME NEW d, IsDocument(d)
    PROVE  \E W : /\ W[0] = {}
                  /\ \A k \in 1 .. Len(d.nodes) : W[k] = Round(d, W[k - 1])
                  /\ Placed(d) = W[Len(d.nodes)]
<1> DEFINE n == Len(d.nodes)
           A == SUBSET TopIds(d)
           f == [before \in A |-> Round(d, before)]
           Is(W) == W = [k \in 0 .. n |-> IF k = 0 THEN {} ELSE Round(d, W[k - 1])]
<1>1. n \in Nat  BY TopIsFinite
<1>2. \A before : Round(d, before) \in A  BY DEF Round
<1>3. {} \in A /\ f \in [A -> A]  BY <1>2
<1>4. PICK W : Iterates(W, n, A, {}, f)
  <2> HIDE DEF f, A, n
  <2>1. QED  BY <1>1, <1>3, Iterated
<1>5. Is(W)
  <2>0. W \in [0 .. n -> A] /\ W[0] = {} /\ \A k \in 1 .. n : W[k] = f[W[k - 1]]
    BY <1>4 DEF Iterates
  <2>1. \A k \in 1 .. n : W[k - 1] \in A  BY <1>1, <2>0
  <2>2. \A k \in 1 .. n : W[k] = Round(d, W[k - 1])  BY <2>0, <2>1
  <2> HIDE DEF A
  <2>3. \A k \in 0 .. n : W[k] = IF k = 0 THEN {} ELSE Round(d, W[k - 1])
    BY SMTT(30), <1>1, <2>0, <2>2
  <2>4. W = [k \in 0 .. n |-> W[k]]  BY <2>0
  <2>5. QED  BY <2>3, <2>4
<1> DEFINE placed == CHOOSE V : Is(V)
<1>6. Is(placed)
  <2> HIDE DEF Is
  <2>1. QED  BY <1>5
<1>7. Placed(d) = placed[n]  BY DEF Placed, Round
<1> HIDE DEF placed, n
<1>8. placed[0] = {} /\ \A k \in 1 .. n : placed[k] = Round(d, placed[k - 1])
  <2>1. placed[0] = {}  BY <1>1, <1>6
  <2>2. ASSUME NEW k \in 1 .. n PROVE placed[k] = Round(d, placed[k - 1])
    <3>1. k \in 0 .. n /\ k # 0  BY <1>1
    <3>2. QED  BY <1>6, <3>1
  <2>3. QED  BY <2>1, <2>2
<1>9. QED  BY <1>7, <1>8 DEF n

\* What has no cycle can be laid out.
LEMMA LaidOut ==
    ASSUME NEW d, IsDocument(d), NEW next, Ranked(next, TopIds(d)),
           \A e \in ToSet(d.edges) : e.from \in TopIds(d) /\ e.to \in next[e.from]
    PROVE  Placed(d) = TopIds(d)
<1> DEFINE n == Len(d.nodes)
           top == TopIds(d)
<1>1. PICK W : /\ W[0] = {}
               /\ \A k \in 1 .. n : W[k] = Round(d, W[k - 1])
               /\ Placed(d) = W[n]
  BY RoundsOfLayout
<1>2. n \in Nat /\ IsFiniteSet(top) /\ Cardinality(top) \in Nat /\ Cardinality(top) <= n
  BY TopIsFinite
<1>3. \A X : Round(d, X) \in SUBSET top  BY DEF Round
<1>4. \A X, Y : X \subseteq Y => Round(d, X) \subseteq Round(d, Y)  BY DEF Round
<1> DEFINE Grows(k) == /\ W[k] \in SUBSET top
                       /\ k < n => W[k] \subseteq W[k + 1]
                       /\ W[k] = top \/ Cardinality(W[k]) >= k
           S == {k \in Nat : k <= n => Grows(k)}
<1>5. \A k \in Nat : k < n => W[k + 1] = Round(d, W[k])
  <2> SUFFICES ASSUME NEW k \in Nat, k < n PROVE W[k + 1] = Round(d, W[k])
    OBVIOUS
  <2>1. k + 1 \in 1 .. n /\ (k + 1) - 1 = k  BY <1>2
  <2>2. QED  BY <1>1, <2>1
<1>6. 0 \in S
  <2>1. W[0] = {} /\ Cardinality({}) = 0  BY <1>1, FS_EmptySet
  <2>2. Cardinality(W[0]) >= 0  BY <2>1
  <2>3. Grows(0)  BY <2>1, <2>2
  <2> HIDE DEF Grows
  <2>4. QED  BY <2>3
<1>7. ASSUME NEW k \in S PROVE k + 1 \in S
  <2> SUFFICES ASSUME k + 1 <= n PROVE Grows(k + 1)
    OBVIOUS
  <2>1. k \in Nat /\ k < n /\ k + 1 \in Nat  BY <1>2
  <2>2. W[k] \in SUBSET top /\ W[k] \subseteq W[k + 1] /\ (W[k] = top \/ Cardinality(W[k]) >= k)
    BY <1>2, <2>1
  <2> HIDE DEF S
  <2>3. W[k + 1] = Round(d, W[k]) /\ W[k + 1] \in SUBSET top  BY <1>3, <1>5, <2>1
  <2>4. k + 1 < n => W[k + 1] \subseteq W[(k + 1) + 1]
    <3> SUFFICES ASSUME k + 1 < n PROVE W[k + 1] \subseteq W[(k + 1) + 1]
      OBVIOUS
    <3>1. W[(k + 1) + 1] = Round(d, W[k + 1])  BY <1>5, <2>1
    <3>2. QED  BY <1>4, <2>2, <2>3, <3>1
  <2>5. CASE W[k] = top  BY <2>2, <2>3, <2>4, <2>5
  <2>6. CASE W[k] # top
    <3> DEFINE rest == top \ W[k]
    <3>1. rest \in SUBSET top /\ rest # {}  BY <2>2, <2>6
    <3>2. PICK x \in rest : \A y \in rest : x \notin next[y]  BY <3>1 DEF Ranked
    <3>3. x \in Round(d, W[k])
      <4>1. ASSUME NEW e \in ToSet(d.edges), e.to = x PROVE e.from \in W[k]
        <5>1. e.from \in top /\ x \in next[e.from]  BY <4>1
        <5>2. e.from \notin rest  BY <3>2, <5>1
        <5>3. QED  BY <5>1, <5>2
      <4>2. QED  BY <3>2, <4>1 DEF Round
    <3>4. /\ IsFiniteSet(W[k]) /\ Cardinality(W[k]) \in Nat
          /\ IsFiniteSet(W[k + 1]) /\ Cardinality(W[k + 1]) \in Nat
      BY <1>2, <2>2, <2>3, FS_Subset, FS_CardinalityType
    <3>5. Cardinality(W[k] \cup {x}) = Cardinality(W[k]) + 1
      BY <3>2, <3>4, FS_AddElement
    <3>6. W[k] \cup {x} \in SUBSET W[k + 1]  BY <2>2, <2>3, <3>3
    <3>7. Cardinality(W[k] \cup {x}) <= Cardinality(W[k + 1])  BY <3>4, <3>6, FS_Subset
    <3>8. Cardinality(W[k + 1]) >= k + 1
      <4>1. Cardinality(W[k]) >= k  BY <2>2, <2>6
      <4>2. QED  BY <2>1, <3>4, <3>5, <3>7, <4>1
    <3>9. QED  BY <2>3, <2>4, <3>8
  <2>7. QED  BY <2>5, <2>6
<1>8. S = Nat
  <2>1. S \subseteq Nat  OBVIOUS
  <2> HIDE DEF S
  <2>2. QED  BY <1>6, <1>7, <2>1, Induction
<1>9. W[n] \in SUBSET top /\ (W[n] = top \/ Cardinality(W[n]) >= n)
  <2>1. n \in S /\ n <= n  BY <1>2, <1>8
  <2>2. QED  BY <2>1
<1>10. CASE Cardinality(W[n]) >= n
  <2>1. Cardinality(W[n]) <= Cardinality(top) /\ Cardinality(W[n]) \in Nat
    BY <1>2, <1>9, FS_Subset, FS_CardinalityType
  <2>2. Cardinality(top) = Cardinality(W[n])  BY <1>2, <1>10, <2>1
  <2>3. QED  BY <1>1, <1>2, <1>9, <2>2, FS_Subset
<1>11. QED  BY <1>1, <1>9, <1>10

\* An accepted document can be laid out, and never crashes the compiler of a push
\* (validate.py:96-174, layout.py:41-60).
THEOREM AcceptedAreDrawable == Spec => []AcceptedIsDrawable
<1>1. ASSUME NEW d, IsDocument(d), Validate(d) = {}
      PROVE  Placed(d) = TopIds(d) /\ Build(d) # "crash"
  <2>1. (\A e \in Added(d) : {e.from, e.to} \subseteq TopIds(d)) /\ ~HasCycle(Forward(d))
    BY <1>1, AcceptedMeans, SoundGraph
  <2>2. /\ Forward(d) \in [TopIds(d) -> SUBSET TopIds(d)]
        /\ \A e \in Added(d) : e.from \in TopIds(d) /\ e.to \in Forward(d)[e.from]
    BY <2>1, ForwardEdges
  <2>3. Ranked(Forward(d), TopIds(d))  BY <1>1, <2>1, <2>2, TopIsFinite, CycleFound
  <2>4. ToSet(d.edges) \subseteq Added(d)  BY DEF Added
  <2>5. Placed(d) = TopIds(d)  BY <1>1, <2>2, <2>3, <2>4, LaidOut
  <2>6. Build(d) # "crash"  BY <2>1, <2>4 DEF Build
  <2>7. QED  BY <2>5, <2>6
<1>2. LoopInv => AcceptedIsDrawable  BY <1>1 DEF LoopInv, AcceptedIsDrawable
<1>3. QED  BY <1>2, LoopHolds, PTL

-----------------------------------------------------------------------------
(* The graph on the server. *)

\* The ranks of the numbers of a finite set are the numbers up to its size.
LEMMA RanksOnto ==
    ASSUME NEW S \in SUBSET Nat, IsFiniteSet(S)
    PROVE  /\ Cardinality(S) \in Nat
           /\ \A i \in S : Rank(S, i) \in 1 .. Cardinality(S)
           /\ \A i, j \in S : Rank(S, i) = Rank(S, j) => i = j
           /\ \A k \in 1 .. Cardinality(S) : \E i \in S : Rank(S, i) = k
<1> DEFINE upto(i) == {j \in S : j <= i}
           N == Cardinality(S)
<1>1. N \in Nat  BY FS_CardinalityType
<1>2. \A i \in S : /\ IsFiniteSet(upto(i)) /\ Cardinality(upto(i)) \in Nat
                   /\ Cardinality(upto(i)) <= N /\ Cardinality(upto(i)) # 0
  <2> SUFFICES ASSUME NEW i \in S
               PROVE  /\ IsFiniteSet(upto(i)) /\ Cardinality(upto(i)) \in Nat
                      /\ Cardinality(upto(i)) <= N /\ Cardinality(upto(i)) # 0
    OBVIOUS
  <2>1. upto(i) \in SUBSET S /\ i \in upto(i)  OBVIOUS
  <2> HIDE DEF upto
  <2>2. IsFiniteSet(upto(i)) /\ Cardinality(upto(i)) <= N  BY <2>1, FS_Subset
  <2>3. Cardinality(upto(i)) \in Nat  BY <2>2, FS_CardinalityType
  <2>4. upto(i) # {}  BY <2>1
  <2>5. Cardinality(upto(i)) # 0  BY <2>2, <2>4, FS_EmptySet
  <2>6. QED  BY <2>2, <2>3, <2>5
<1>3. ASSUME NEW i \in S, NEW j \in S, i < j PROVE Cardinality(upto(i)) < Cardinality(upto(j))
  <2>1. i \in Nat /\ j \in Nat /\ \A k \in S : k \in Nat  OBVIOUS
  <2>2. \A k \in S : k <= i => k <= j  BY <1>3, <2>1
  <2>3. upto(i) \in SUBSET upto(j)  BY <2>2
  <2>4. j \in upto(j) /\ j \notin upto(i)  BY <1>3, <2>1
  <2> HIDE DEF upto
  <2>5. Cardinality(upto(i)) <= Cardinality(upto(j))  BY <1>2, <2>3, FS_Subset
  <2>6. Cardinality(upto(i)) # Cardinality(upto(j))  BY <1>2, <2>3, <2>4, FS_Subset
  <2>7. QED  BY <1>2, <2>5, <2>6
<1> DEFINE f == [i \in S |-> Cardinality(upto(i))]
<1>4. \A i \in S : Rank(S, i) = Cardinality(upto(i))  BY DEF Rank
<1> HIDE DEF upto, N
<1>5. \A i \in S : f[i] \in 1 .. N  BY <1>1, <1>2
<1>6. \A i, j \in S : f[i] = f[j] => i = j
  <2> SUFFICES ASSUME NEW i \in S, NEW j \in S, f[i] = f[j], i # j PROVE FALSE
    OBVIOUS
  <2>1. i < j \/ j < i  OBVIOUS
  <2>2. QED  BY <1>2, <1>3, <2>1
<1>7. f \in Injection(S, 1 .. N)  BY <1>5, <1>6 DEF Injection, IsInjective
<1>8. IsFiniteSet(1 .. N) /\ Cardinality(1 .. N) = N
  <2>1. IsFiniteSet(1 .. N) /\ Cardinality(1 .. N) = IF 1 > N THEN 0 ELSE N - 1 + 1
    BY <1>1, FS_Interval
  <2>2. QED  BY <1>1, <2>1
<1> HIDE DEF f
<1>9. f \in Surjection(S, 1 .. N)  BY <1>7, <1>8, FS_Injection DEF N
<1>10. \A k \in 1 .. N : \E i \in S : f[i] = k  BY <1>9 DEF Surjection
<1>11. QED  BY <1>1, <1>4, <1>5, <1>6, <1>10 DEF f, N

\* The emitted nodes are the top-level nodes, each of them once.
LEMMA GeneratedIs ==
    ASSUME NEW d, IsDocument(d)
    PROVE  /\ Generated(d) \in Seq(ToSet(d.nodes))
           /\ \A k \in DOMAIN Generated(d) : \E i \in TopAt(d) : Generated(d)[k] = d.nodes[i]
           /\ \A i \in TopAt(d) : \E k \in DOMAIN Generated(d) : Generated(d)[k] = d.nodes[i]
           /\ Unique(d) => \A k, l \in DOMAIN Generated(d) :
                               Generated(d)[k].id = Generated(d)[l].id => k = l
<1> DEFINE S == TopAt(d)
           N == Cardinality(S)
           at(k) == CHOOSE i \in S : Rank(S, i) = k
           T == ToSet(d.nodes)
           gen == Generated(d)
<1>1. S \in SUBSET Nat /\ IsFiniteSet(S) /\ S \subseteq DOMAIN d.nodes /\ \A i \in S : d.nodes[i] \in T
  <2>1. d.nodes \in Seq(T)  BY DEF IsDocument
  <2>2. S \subseteq DOMAIN d.nodes  BY DEF TopAt
  <2>3. \A i \in S : d.nodes[i] \in T  BY <2>2 DEF ToSet
  <2> HIDE DEF S, T
  <2>4. DOMAIN d.nodes = 1 .. Len(d.nodes) /\ Len(d.nodes) \in Nat  BY <2>1
  <2>5. IsFiniteSet(1 .. Len(d.nodes))  BY <2>4, FS_Interval
  <2>6. IsFiniteSet(S)  BY <2>2, <2>4, <2>5, FS_Subset
  <2>7. QED  BY <2>2, <2>3, <2>4, <2>6
<1>2. gen = [k \in 1 .. N |-> d.nodes[at(k)]]  BY DEF Generated
<1> HIDE DEF S, T, gen
<1>3. /\ N \in Nat
      /\ \A i \in S : Rank(S, i) \in 1 .. N
      /\ \A i, j \in S : Rank(S, i) = Rank(S, j) => i = j
      /\ \A k \in 1 .. N : \E i \in S : Rank(S, i) = k
  BY <1>1, RanksOnto
<1> HIDE DEF N
<1>4. \A k \in 1 .. N : at(k) \in S /\ Rank(S, at(k)) = k  BY <1>3
<1>5. \A i \in S : at(Rank(S, i)) = i  BY <1>3, <1>4
<1> HIDE DEF at
<1>6. DOMAIN gen = 1 .. N /\ \A k \in 1 .. N : gen[k] = d.nodes[at(k)]  BY <1>2
<1>7. gen \in Seq(T)
  <2>1. \A k \in 1 .. N : gen[k] \in T  BY <1>1, <1>4, <1>6
  <2>2. gen = [k \in 1 .. N |-> gen[k]]  BY <1>2, <1>6
  <2>3. [k \in 1 .. N |-> gen[k]] \in Seq(T)  BY <1>3, <2>1
  <2>4. QED  BY <2>2, <2>3, Zenon
<1>8. \A k \in DOMAIN gen : \E i \in S : gen[k] = d.nodes[i]  BY <1>4, <1>6
<1>9. \A i \in S : \E k \in DOMAIN gen : gen[k] = d.nodes[i]
  <2> SUFFICES ASSUME NEW i \in S PROVE \E k \in DOMAIN gen : gen[k] = d.nodes[i]
    OBVIOUS
  <2>1. Rank(S, i) \in DOMAIN gen /\ gen[Rank(S, i)] = d.nodes[i]  BY <1>3, <1>5, <1>6
  <2>2. QED  BY <2>1
<1>10. Unique(d) => \A k, l \in DOMAIN gen : gen[k].id = gen[l].id => k = l
  <2> SUFFICES ASSUME Unique(d), NEW k \in 1 .. N, NEW l \in 1 .. N, gen[k].id = gen[l].id PROVE k = l
    BY <1>6
  <2>1. d.nodes[at(k)].id = d.nodes[at(l)].id  BY <1>6
  <2>2. at(k) \in DOMAIN d.nodes /\ at(l) \in DOMAIN d.nodes  BY <1>1, <1>4
  <2>3. at(k) = at(l)  BY <2>1, <2>2 DEF Unique
  <2>4. QED  BY <1>4, <2>3
<1>11. QED  BY <1>7, <1>8, <1>9, <1>10 DEF S, T, gen

\* All nodes that are emitted have a code, of their type.
Coded(d, made, types) ==
    /\ made \in Seq(DOMAIN types) /\ Len(made) <= Len(Generated(d))
    /\ \A k \in DOMAIN made : types[made[k]] = ApiType(Generated(d)[k])

LEMMA CodesAre ==
    ASSUME NEW d, IsDocument(d), Unique(d), NEW C, NEW made \in Seq(C), Len(made) = Len(Generated(d))
    PROVE  /\ DOMAIN made = DOMAIN Generated(d)
           /\ \A k \in DOMAIN made : CodeOf(d, made, Generated(d)[k].id) = made[k]
           /\ \A x \in TopIds(d) : \E k \in DOMAIN made :
                  Generated(d)[k].id = x /\ CodeOf(d, made, x) = made[k]
<1> DEFINE gen == Generated(d)
<1>1. /\ gen \in Seq(ToSet(d.nodes))
      /\ \A i \in TopAt(d) : \E k \in DOMAIN gen : gen[k] = d.nodes[i]
      /\ \A k, l \in DOMAIN gen : gen[k].id = gen[l].id => k = l
  BY GeneratedIs
<1>2. DOMAIN made = DOMAIN gen  BY <1>1
<1>3. \A k \in DOMAIN made : CodeOf(d, made, gen[k].id) = made[k]
  BY <1>1, <1>2 DEF CodeOf
<1>4. \A x \in TopIds(d) : \E k \in DOMAIN gen : gen[k].id = x  BY <1>1 DEF TopIds
<1>5. QED  BY <1>2, <1>3, <1>4

LEMMA Largest ==
    ASSUME NEW S \in SUBSET Nat, IsFiniteSet(S), S # {}
    PROVE  \E k \in S : \A j \in S : j <= k
<1> DEFINE N == Cardinality(S)
<1>1. N \in Nat /\ N # 0  BY FS_CardinalityType, FS_EmptySet
<1>2. PICK k \in S : Rank(S, k) = N  BY <1>1, RanksOnto
<1> DEFINE upto == {j \in S : j <= k}
<1>3. upto \in SUBSET S /\ Cardinality(upto) = Cardinality(S)  BY <1>2 DEF Rank
<1> HIDE DEF upto
<1>4. upto = S  BY <1>3, FS_Subset
<1>5. QED  BY <1>4 DEF upto

LEMMA Smallest ==
    ASSUME NEW S \in SUBSET Nat, S # {}
    PROVE  Min(S) \in S
<1>1. PICK m \in S : \A i \in S : ~(<<i, m>> \in OpToRel(<, Nat))
  BY WFMin, NatLessThanWellFounded, Zenon
<1>2. ASSUME NEW i \in S PROVE m <= i
  <2>1. SUFFICES ASSUME i < m PROVE FALSE
    OBVIOUS
  <2>2. <<i, m>> \in Nat \X Nat /\ <<i, m>>[1] = i /\ <<i, m>>[2] = m  OBVIOUS
  <2>3. <<i, m>> \in OpToRel(<, Nat)  BY <2>1, <2>2, Zenon DEF OpToRel
  <2>4. QED  BY <1>1, <2>3
<1>3. QED  BY <1>2 DEF Min

-----------------------------------------------------------------------------
(* What the graph on the server is an image of. *)

ImageOf(g, id) == {n \in g.nodes : id \in n.of}
StartOf(made, types) == CHOOSE c \in ToSet(made) : types[c] = "Start"

Imaged(d, made, types) ==
    LET g == ServerGraph(d, made, types)
        gen == Generated(d)
    IN  /\ \A k \in DOMAIN made : \E n \in g.nodes :
               ImageOf(g, gen[k].id) = {n} /\ n.code = made[k] /\ n.type = types[made[k]]
        /\ \A n \in g.nodes : \E k \in DOMAIN made :
               /\ n.code = made[k]
               /\ n.refs = {ServerRef(d, made, StartOf(made, types), r) : r \in EmittedRefs(d, gen[k])}

\* Each emitted node has one node on the server, of its type; and what a node there refers
\* to is what one of the nodes it stands for refers to.
LEMMA NodesAre ==
    ASSUME NEW d, IsDocument(d), Unique(d), NEW C, NEW made \in Seq(C), NEW types,
           Len(made) = Len(Generated(d))
    PROVE  Imaged(d, made, types)
<1> DEFINE gen == Generated(d)
           g == ServerGraph(d, made, types)
           start == StartOf(made, types)
           last(c) == CHOOSE k \in DOMAIN made :
                          made[k] = c /\ \A j \in DOMAIN made : made[j] = c => j <= k
           of(c) == {gen[k].id : k \in {j \in DOMAIN made : made[j] = c}}
           refs(c) == {ServerRef(d, made, start, r) : r \in EmittedRefs(d, gen[last(c)])}
           node(c) == [code |-> c, type |-> types[c], of |-> of(c), refs |-> refs(c)]
           nodes == {node(c) : c \in ToSet(made)}
<1>1. g.nodes = nodes  BY DEF ServerGraph, ServerNodes, StartOf
<1>2. \A c : node(c).code = c /\ node(c).type = types[c] /\ node(c).of = of(c) /\ node(c).refs = refs(c)
  OBVIOUS
<1>3. DOMAIN made = DOMAIN gen /\ \A k, l \in DOMAIN gen : gen[k].id = gen[l].id => k = l
  BY SMTT(30), CodesAre, GeneratedIs
<1>4. DOMAIN made = 1 .. Len(made) /\ Len(made) \in Nat  OBVIOUS
<1>5. \A c \in ToSet(made) : last(c) \in DOMAIN made /\ made[last(c)] = c
  <2> SUFFICES ASSUME NEW c \in ToSet(made)
               PROVE  \E k \in DOMAIN made : made[k] = c /\ \A j \in DOMAIN made : made[j] = c => j <= k
    OBVIOUS
  <2> DEFINE S == {k \in DOMAIN made : made[k] = c}
  <2>1. S # {} /\ S \subseteq 1 .. Len(made) /\ S \subseteq Nat  BY <1>4 DEF ToSet
  <2> HIDE DEF S
  <2>2. IsFiniteSet(1 .. Len(made))  BY <1>4, FS_Interval
  <2>3. IsFiniteSet(S)  BY <2>1, <2>2, FS_Subset
  <2>4. \E k \in S : \A j \in S : j <= k  BY <2>1, <2>3, Largest
  <2>5. QED  BY <2>4 DEF S
<1> DEFINE id(k) == gen[k].id
<1>6. \A k \in DOMAIN made : \A c : id(k) \in of(c) <=> made[k] = c
  <2> SUFFICES ASSUME NEW k \in DOMAIN made, NEW c PROVE id(k) \in of(c) <=> made[k] = c
    OBVIOUS
  <2>1. id(k) \in of(c) <=> \E j \in DOMAIN made : made[j] = c /\ gen[j].id = gen[k].id
    OBVIOUS
  <2> HIDE DEF gen, of, id
  <2>2. QED  BY <1>3, <2>1
<1> HIDE DEF gen, start, last, of, refs, node, g, id
<1>7. \A n : n \in g.nodes <=> \E c \in ToSet(made) : n = node(c)  BY <1>1
<1> HIDE DEF nodes
<1>8. ASSUME NEW k \in DOMAIN made
      PROVE  \E n \in g.nodes : /\ ImageOf(g, id(k)) = {n}
                                /\ n.code = made[k] /\ n.type = types[made[k]]
  <2> DEFINE n == node(made[k])
  <2>1. made[k] \in ToSet(made)  BY DEF ToSet
  <2>2. n \in g.nodes /\ n.code = made[k] /\ n.type = types[made[k]]  BY <1>2, <1>7, <2>1
  <2>3. \A m \in g.nodes : id(k) \in m.of <=> m = n
    <3> SUFFICES ASSUME NEW c \in ToSet(made) PROVE id(k) \in node(c).of <=> node(c) = n
      BY <1>7
    <3>1. id(k) \in node(c).of <=> made[k] = c  BY <1>2, <1>6
    <3>2. node(c) = n => c = made[k]  BY <1>2
    <3>3. QED  BY <3>1, <3>2
  <2> HIDE DEF n
  <2>4. ImageOf(g, id(k)) = {n}  BY <2>2, <2>3 DEF ImageOf
  <2>5. QED  BY <2>2, <2>4
<1>9. ASSUME NEW n \in g.nodes
      PROVE  \E k \in DOMAIN made :
                 /\ n.code = made[k]
                 /\ n.refs = {ServerRef(d, made, start, r) : r \in EmittedRefs(d, gen[k])}
  <2>1. PICK c \in ToSet(made) : n = node(c)  BY <1>7
  <2>2. n.code = c /\ n.refs = {ServerRef(d, made, start, r) : r \in EmittedRefs(d, gen[last(c)])}
    BY <1>2, <2>1 DEF refs
  <2>3. last(c) \in DOMAIN made /\ made[last(c)] = c  BY <1>5
  <2>4. QED  BY <2>2, <2>3
<1>10. QED  BY <1>8, <1>9 DEF g, gen, start, id, Imaged

\* Each edge whose ends are emitted has one link, between the nodes of its ends.
LEMMA LinksAre ==
    ASSUME NEW d, IsDocument(d), Unique(d), NEW C, NEW made \in Seq(C), NEW types,
           Len(made) = Len(Generated(d)),
           \A e \in ToSet(d.edges) : {e.from, e.to} \subseteq TopIds(d)
    PROVE  LET g == ServerGraph(d, made, types)
           IN  \A j \in DOMAIN d.edges : \E l \in g.links :
                   /\ {m \in g.links : m.edge = j} = {l}
                   /\ l.from = CodeOf(d, made, d.edges[j].from)
                   /\ l.to = CodeOf(d, made, d.edges[j].to)
<1> DEFINE gen == Generated(d)
           g == ServerGraph(d, made, types)
           pairs == {p \in (DOMAIN gen) \X (DOMAIN d.edges) : d.edges[p[2]].to = gen[p[1]].id}
           code(p) == types[made[p[1]]] = "Code"
           before(p, q) == \/ p[1] < q[1]
                           \/ p[1] = q[1] /\ p[2] < q[2]
           from(p) == CodeOf(d, made, d.edges[p[2]].from)
           class(p) == 1 + Cardinality({q \in pairs : before(q, p) /\ from(q) = from(p) /\ code(q)})
           port(p) == IF types[from(p)] # "Intent" THEN None ELSE IF code(p) THEN class(p) ELSE 0
           link(p) == [edge |-> p[2], from |-> from(p), to |-> made[p[1]], port |-> port(p)]
<1>1. g.links = {link(p) : p \in pairs}  BY DEF ServerGraph, Links
<1>2. \A p : link(p).edge = p[2] /\ link(p).from = from(p) /\ link(p).to = made[p[1]]  OBVIOUS
<1>3. /\ DOMAIN made = DOMAIN gen
      /\ \A k \in DOMAIN made : CodeOf(d, made, gen[k].id) = made[k]
      /\ \A x \in TopIds(d) : \E k \in DOMAIN made : gen[k].id = x
      /\ \A k, l \in DOMAIN gen : gen[k].id = gen[l].id => k = l
  <2>1. /\ DOMAIN made = DOMAIN gen
        /\ \A k \in DOMAIN made : CodeOf(d, made, gen[k].id) = made[k]
        /\ \A x \in TopIds(d) : \E k \in DOMAIN made :
               gen[k].id = x /\ CodeOf(d, made, x) = made[k]
    BY CodesAre
  <2>2. \A k, l \in DOMAIN gen : gen[k].id = gen[l].id => k = l  BY GeneratedIs
  <2>3. QED  BY <2>1, <2>2
<1>4. \A p : p \in pairs <=> \E k \in DOMAIN gen, j \in DOMAIN d.edges :
                                 p = <<k, j>> /\ d.edges[j].to = gen[k].id
  OBVIOUS
<1>5. \A p : from(p) = CodeOf(d, made, d.edges[p[2]].from)  OBVIOUS
<1> HIDE DEF gen, g, pairs, from, link
<1>6. ASSUME NEW j \in DOMAIN d.edges
      PROVE  \E l \in g.links :
                 /\ {m \in g.links : m.edge = j} = {l}
                 /\ l.from = CodeOf(d, made, d.edges[j].from)
                 /\ l.to = CodeOf(d, made, d.edges[j].to)
  <2>1. d.edges[j].to \in TopIds(d)
    <3>1. d.edges[j] \in ToSet(d.edges)  BY DEF ToSet
    <3>2. QED  BY <3>1
  <2>2. PICK k \in DOMAIN gen : gen[k].id = d.edges[j].to  BY <1>3, <2>1
  <2> DEFINE l == link(<<k, j>>)
  <2>3. <<k, j>>[1] = k /\ <<k, j>>[2] = j  OBVIOUS
  <2>4. <<k, j>> \in pairs  BY <1>4, <2>2
  <2>5. l \in g.links /\ l.edge = j /\ l.from = CodeOf(d, made, d.edges[j].from) /\ l.to = made[k]
    BY <1>1, <1>2, <1>5, <2>3, <2>4
  <2>6. made[k] = CodeOf(d, made, d.edges[j].to)  BY <1>3, <2>2
  <2>7. ASSUME NEW m \in g.links, m.edge = j PROVE m = l
    <3>1. PICK p \in pairs : m = link(p)  BY <1>1
    <3>2. PICK x \in DOMAIN gen, y \in DOMAIN d.edges : p = <<x, y>> /\ d.edges[y].to = gen[x].id
      BY <1>4
    <3>3. m.edge = y  BY <1>2, <3>1, <3>2
    <3>4. x = k  BY <1>3, <2>2, <2>7, <3>2, <3>3
    <3>5. QED  BY <2>7, <3>1, <3>2, <3>3, <3>4
  <2> HIDE DEF l
  <2>8. {m \in g.links : m.edge = j} = {l}  BY <2>5, <2>7
  <2>9. QED  BY <2>5, <2>6, <2>8
<1>7. QED  BY <1>6 DEF g

\* The pairs of ends of the links.
LinkPairs(g) == {<<l.from, l.to>> : l \in g.links}

LEMMA PairsAre ==
    ASSUME NEW g, IsFiniteSet(g.links)
    PROVE  /\ IsFiniteSet(LinkPairs(g))
           /\ \E A : LinkPairs(g) \in SUBSET (A \X A)
           /\ \A x, y : <<x, y>> \in LinkPairs(g) <=> \E l \in g.links : l.from = x /\ l.to = y
<1> DEFINE L == g.links
           P == LinkPairs(g)
           f == [l \in L |-> <<l.from, l.to>>]
           A == {l.from : l \in L} \cup {l.to : l \in L}
<1>1. P = {<<l.from, l.to>> : l \in L}  BY DEF LinkPairs
<1>2. f \in Surjection(L, P)  BY <1>1 DEF Surjection
<1> HIDE DEF f
<1>3. IsFiniteSet(P)  BY <1>2, FS_Surjection
<1>4. P \in SUBSET (A \X A)  BY <1>1
<1>5. \A x, y : <<x, y>> \in P <=> \E l \in L : l.from = x /\ l.to = y  BY <1>1
<1>6. QED  BY <1>3, <1>4, <1>5

\* What edges lead to, links lead to.
LEMMA LinksLead ==
    ASSUME NEW d, IsDocument(d), NEW made, NEW g, IsFiniteSet(g.links),
           \A e \in ToSet(d.edges) : \E l \in g.links :
               l.from = CodeOf(d, made, e.from) /\ l.to = CodeOf(d, made, e.to),
           NEW edges \in SUBSET ToSet(d.edges), NEW x, NEW y, <<x, y>> \in Ways(edges)
    PROVE  <<CodeOf(d, made, x), CodeOf(d, made, y)>> \in LeadsTo(LinkPairs(g))
<1> DEFINE P == PairsOf(edges)
           Q == LinkPairs(g)
           leads == LeadsTo(Q)
           A == {e.from : e \in edges} \cup {e.to : e \in edges}
           R == {w \in A \X A : <<CodeOf(d, made, w[1]), CodeOf(d, made, w[2])>> \in leads}
<1>1. IsFiniteSet(P) /\ P \in SUBSET (A \X A)
  <2> DEFINE f == [e \in edges |-> <<e.from, e.to>>]
             T == ToSet(d.edges)
  <2>1. d.edges \in Seq(T)  BY DEF IsDocument
  <2>2. IsFiniteSet(T)
    <3> DEFINE N == Len(d.edges)
               h == [k \in 1 .. N |-> d.edges[k]]
    <3>1. N \in Nat /\ DOMAIN d.edges = 1 .. N
      <4> HIDE DEF T
      <4>1. QED  BY <2>1
    <3>2. h \in Surjection(1 .. N, T)  BY <3>1 DEF Surjection, ToSet
    <3>3. IsFiniteSet(1 .. N)  BY <3>1, FS_Interval
    <3> HIDE DEF h, T, N
    <3>4. QED  BY <3>2, <3>3, FS_Surjection
  <2>3. IsFiniteSet(edges)  BY <2>2, FS_Subset
  <2>4. f \in Surjection(edges, P)  BY DEF Surjection, PairsOf
  <2> HIDE DEF f
  <2>5. IsFiniteSet(P)  BY <2>3, <2>4, FS_Surjection
  <2>6. P \in SUBSET (A \X A)  BY DEF PairsOf
  <2>7. QED  BY <2>5, <2>6
<1>2. Ways(edges) = LeadsTo(P)  BY DEF Ways, PairsOf
<1>3. \A u, v : <<u, v>> \in P => <<CodeOf(d, made, u), CodeOf(d, made, v)>> \in Q
  <2> SUFFICES ASSUME NEW e \in edges PROVE <<CodeOf(d, made, e.from), CodeOf(d, made, e.to)>> \in Q
    BY DEF PairsOf
  <2>1. PICK l \in g.links : l.from = CodeOf(d, made, e.from) /\ l.to = CodeOf(d, made, e.to)
    OBVIOUS
  <2>2. QED  BY <2>1, PairsAre
<1>4. PICK B : Q \in SUBSET (B \X B)  BY PairsAre
<1>5. IsFiniteSet(Q)  BY PairsAre
<1> HIDE DEF Q, P
<1>6. Closed(leads, Q)  BY <1>4, <1>5, WaysClosed
<1>7. \A u, v, w : <<u, v>> \in leads /\ <<v, w>> \in Q => <<u, w>> \in leads  BY <1>6 DEF Closed
<1>8. Q \subseteq leads  BY <1>6 DEF Closed
<1> HIDE DEF leads
<1>9. \A u, v : <<u, v>> \in R <=> u \in A /\ v \in A /\ <<CodeOf(d, made, u), CodeOf(d, made, v)>> \in leads
  OBVIOUS
<1>10. P \subseteq R
  <2> SUFFICES ASSUME NEW w \in P PROVE w \in R
    OBVIOUS
  <2>1. PICK u \in A, v \in A : w = <<u, v>>  BY <1>1
  <2>2. QED  BY <1>3, <1>8, <1>9, <2>1
<1>11. \A u, v, w : <<u, v>> \in R /\ <<v, w>> \in P => <<u, w>> \in R
  <2> SUFFICES ASSUME NEW u, NEW v, NEW w, <<u, v>> \in R, <<v, w>> \in P PROVE <<u, w>> \in R
    OBVIOUS
  <2>1. u \in A /\ w \in A  BY <1>1, <1>9
  <2>2. QED  BY <1>3, <1>7, <1>9, <2>1
<1> HIDE DEF R
<1>12. Closed(R, P)  BY <1>10, <1>11 DEF Closed
<1> HIDE DEF A
<1>13. LeadsTo(P) \subseteq R  BY <1>1, <1>12, WaysLeast
<1>14. QED  BY <1>2, <1>9, <1>13 DEF leads, Q

LEMMA LinksAreFinite ==
    ASSUME NEW d, IsDocument(d), NEW made, NEW types
    PROVE  IsFiniteSet(ServerGraph(d, made, types).links)
<1> DEFINE gen == Generated(d)
           D == (DOMAIN gen) \X (DOMAIN d.edges)
           L == ServerGraph(d, made, types).links
           pairs == {p \in D : d.edges[p[2]].to = gen[p[1]].id}
           code(p) == types[made[p[1]]] = "Code"
           before(p, q) == \/ p[1] < q[1]
                           \/ p[1] = q[1] /\ p[2] < q[2]
           from(p) == CodeOf(d, made, d.edges[p[2]].from)
           class(p) == 1 + Cardinality({q \in pairs : before(q, p) /\ from(q) = from(p) /\ code(q)})
           port(p) == IF types[from(p)] # "Intent" THEN None ELSE IF code(p) THEN class(p) ELSE 0
           link(p) == [edge |-> p[2], from |-> from(p), to |-> made[p[1]], port |-> port(p)]
           f == [p \in pairs |-> link(p)]
<1>1. L = {link(p) : p \in pairs}  BY DEF ServerGraph, Links
<1> HIDE DEF link, L
<1>2. f \in Surjection(pairs, L)  BY <1>1 DEF Surjection
<1> HIDE DEF f
<1>3. IsFiniteSet(D)
  <2>1. gen \in Seq(ToSet(d.nodes)) /\ d.edges \in Seq(ToSet(d.edges))  BY GeneratedIs DEF IsDocument
  <2> HIDE DEF gen
  <2>2. /\ DOMAIN gen = 1 .. Len(gen) /\ Len(gen) \in Nat
        /\ DOMAIN d.edges = 1 .. Len(d.edges) /\ Len(d.edges) \in Nat
    <3> DEFINE T == ToSet(d.edges)
               U == ToSet(d.nodes)
    <3>1. gen \in Seq(U) /\ d.edges \in Seq(T)  BY <2>1
    <3> HIDE DEF T, U
    <3>2. QED  BY <3>1
  <2>3. IsFiniteSet(1 .. Len(gen)) /\ IsFiniteSet(1 .. Len(d.edges))  BY <2>2, FS_Interval
  <2>4. QED  BY <2>2, <2>3, FS_Product
<1>4. pairs \in SUBSET D  OBVIOUS
<1> HIDE DEF pairs, D
<1>5. IsFiniteSet(pairs)  BY <1>3, <1>4, FS_Subset
<1>6. QED  BY <1>2, <1>5, FS_Surjection DEF L

-----------------------------------------------------------------------------
(* What the nodes of an accepted document refer to. *)

\* Declared as the image of a document asks: no control flow beside the edges, and no
\* reference that the validator does not look at.
OnlyEdges(d) ==
    \A n \in ToSet(d.nodes) : Targets(n) = {} /\ \A r \in ToSet(n.refs) : r.form # "escaped"

\* A reference that is kept is one of the node, in a field the validator looks at, or the
\* question of a condition.
LEMMA KeptIs ==
    ASSUME NEW n, n.refs \in Seq(ToSet(n.refs)), NEW r \in Kept(n)
    PROVE  /\ n.kind # "trigger"
           /\ \/ r.to = "input"
              \/ /\ r \in ToSet(n.refs)
                 /\ \/ n.kind = "llm" /\ r.field = "prompt"
                    \/ n.kind = "retrieval" /\ r.field = "query"
                    \/ n.kind = "output" /\ r.field = "bindings"
<1> DEFINE prompted == {i \in DOMAIN n.refs : n.refs[i].field = "prompt" /\ n.refs[i].form # "broken"}
           exact(f) == {q \in ToSet(n.refs) : q.field = f /\ q.form = "exact"}
<1>1. Kept(n) = CASE n.kind = "llm" /\ prompted # {} -> {n.refs[Min(prompted)]}
                  [] n.kind = "retrieval" -> exact("query")
                  [] n.kind = "output" -> exact("bindings")
                  [] n.kind = "condition" -> {Ref("when", "input", "query", "exact")}
                  [] OTHER -> {}
  BY DEF Kept
<1>2. prompted \subseteq DOMAIN n.refs /\ \A i \in prompted : n.refs[i].field = "prompt"  OBVIOUS
<1>3. \A f : \A q \in exact(f) : q \in ToSet(n.refs) /\ q.field = f  OBVIOUS
<1>4. DOMAIN n.refs \subseteq Nat
  <2> DEFINE T == ToSet(n.refs)
  <2>1. n.refs \in Seq(T)  OBVIOUS
  <2> HIDE DEF T
  <2>2. QED  BY <2>1
<1> HIDE DEF prompted, exact
<1>5. CASE n.kind = "llm" /\ prompted # {}
  <2>1. r = n.refs[Min(prompted)]  BY <1>1, <1>5
  <2>2. prompted \in SUBSET Nat  BY <1>2, <1>4
  <2>3. Min(prompted) \in prompted  BY <1>5, <2>2, Smallest
  <2>4. r.field = "prompt" /\ r \in ToSet(n.refs)  BY <1>2, <2>1, <2>3 DEF ToSet
  <2>5. QED  BY <1>5, <2>4
<1>6. CASE n.kind = "retrieval"
  <2>1. r \in exact("query")  BY <1>1, <1>6
  <2>2. QED  BY <1>3, <1>6, <2>1
<1>7. CASE n.kind = "output"
  <2>1. r \in exact("bindings")  BY <1>1, <1>7
  <2>2. QED  BY <1>3, <1>7, <2>1
<1>8. CASE n.kind = "condition"
  <2>1. r = Ref("when", "input", "query", "exact")  BY <1>1, <1>8
  <2>2. r.to = "input"  BY <2>1 DEF Ref
  <2>3. QED  BY <1>8, <2>2
<1>9. CASE n.kind \notin {"llm", "retrieval", "output", "condition"} \/ (n.kind = "llm" /\ prompted = {})
  BY <1>1, <1>9
<1>10. QED  BY <1>5, <1>6, <1>7, <1>8, <1>9

\* What an emitted node refers to leads to it: the trigger, or a node above it.
LEMMA EmittedIsSupplied ==
    ASSUME NEW d, IsDocument(d), IsNested(d), Validate(d) = {}, OnlyEdges(d),
           NEW i \in TopAt(d), NEW r \in EmittedRefs(d, d.nodes[i])
    PROVE  /\ d.nodes[i].kind # "trigger"
           /\ ~r.sys => /\ r.to # None /\ r.to \in TopIds(d)
                        /\ <<r.to, d.nodes[i].id>> \in Flows(d)
<1> DEFINE n == d.nodes[i]
<1>1. i \in DOMAIN d.nodes /\ n.in = 0 /\ n \in ToSet(d.nodes)  BY DEF TopAt, ToSet
<1>2. n.refs \in Seq(ToSet(n.refs)) /\ \A q \in ToSet(n.refs) : q.to # None  BY <1>1 DEF IsNested
<1>3. PICK q \in Kept(n) :
          r = [sys |-> q.to = "input",
               to |-> IF q.to # "input" /\ q.to \in TopIds(d) THEN q.to ELSE None,
               path |-> q.path]
  BY DEF EmittedRefs
<1>4. /\ r.sys <=> q.to = "input"
      /\ r.to = IF q.to # "input" /\ q.to \in TopIds(d) THEN q.to ELSE None
  BY <1>3
<1>5. /\ n.kind # "trigger"
      /\ \/ q.to = "input"
         \/ /\ q \in ToSet(n.refs)
            /\ \/ n.kind = "llm" /\ q.field = "prompt"
               \/ n.kind = "retrieval" /\ q.field = "query"
               \/ n.kind = "output" /\ q.field = "bindings"
  BY <1>2, KeptIs
<1>6. CASE q.to = "input"  BY <1>4, <1>5, <1>6
<1>7. CASE q.to # "input"
  <2>1. /\ q \in ToSet(n.refs) /\ q.form # "escaped" /\ q.to # None
        /\ q.field \in Scanned[n.kind] /\ q.field # "collect"
    BY <1>1, <1>2, <1>5, <1>7 DEF OnlyEdges, Scanned
  <2>2. CheckGraph(d) = {} /\ CheckReferences(d) = {}  BY AcceptedMeans
  <2>3. Supplied(d, Flows(d), i, q)  BY <1>1, <2>1, <2>2, AcceptedSupplies
  <2>4. Around(d)[i] = {i} /\ Outermost(d)[i] = i  BY <1>1, AroundIs, OutermostIs
  <2>5. q.to \in TopIds(d) /\ <<q.to, n.id>> \in Flows(d)
    BY <1>1, <1>7, <2>1, <2>3, <2>4 DEF Supplied
  <2>6. QED  BY <1>4, <1>5, <1>7, <2>1, <2>5
<1>8. QED  BY <1>6, <1>7

\* With no control flow beside the edges the validator follows the edges.
LEMMA NothingAdded ==
    ASSUME NEW d, OnlyEdges(d)
    PROVE  Added(d) = ToSet(d.edges)
<1>1. \A i \in TopAt(d) : Targets(d.nodes[i]) = {}  BY DEF OnlyEdges, TopAt, ToSet
<1>2. QED  BY <1>1 DEF Added

\* The trigger of an accepted document is emitted, and leads to every other node.
LEMMA TriggerIsAtTop ==
    ASSUME NEW d, IsDocument(d), Validate(d) = {}, TopIds(d) # {}
    PROVE  \E t \in TopAt(d) :
               /\ Triggers(d) = {t}
               /\ \A x \in TopIds(d) \ {d.nodes[t].id} : <<d.nodes[t].id, x>> \in Ways(Added(d))
<1>1. CheckGraph(d) = {}  BY AcceptedMeans
<1>2. PICK t \in Triggers(d) :
          /\ Triggers(d) = {t}
          /\ \A x \in TopIds(d) \ {d.nodes[t].id} : <<d.nodes[t].id, x>> \in Ways(Added(d))
  BY <1>1, TriggerLeads
<1>3. Unique(d)  BY <1>1, UniqueNodes
<1> DEFINE id == d.nodes[t].id
           P == PairsOf(Added(d))
<1>4. P \in SUBSET (TopIds(d) \X TopIds(d)) /\ IsFiniteSet(P)  BY <1>1, SoundPairs
<1>5. Ways(Added(d)) = LeadsTo(P)  BY DEF Ways, PairsOf
<1> HIDE DEF P
<1>6. Ways(Added(d)) \in SUBSET (TopIds(d) \X TopIds(d))  BY <1>4, <1>5, WaysClosed
<1>7. id \in TopIds(d)
  <2>1. PICK x : x \in TopIds(d)  OBVIOUS
  <2>2. CASE x = id  BY <2>1, <2>2
  <2>3. CASE x # id
    <3>1. <<id, x>> \in Ways(Added(d))  BY <1>2, <2>1, <2>3
    <3>2. QED  BY <1>6, <3>1
  <2>4. QED  BY <2>2, <2>3
<1>8. t \in DOMAIN d.nodes  BY DEF Triggers
<1>9. PICK i \in TopAt(d) : d.nodes[i].id = id  BY <1>7 DEF TopIds
<1>10. i = t  BY <1>3, <1>8, <1>9 DEF Unique, TopAt
<1>11. QED  BY <1>2, <1>9, <1>10

-----------------------------------------------------------------------------
(* The image. *)

NodesDrawn(d, g) ==
    \A i \in TopAt(d) : \E n \in g.nodes :
        ImageOf(g, d.nodes[i].id) = {n} /\ n.type = ApiType(d.nodes[i])
EdgesDrawn(d, g) ==
    \A j \in DOMAIN d.edges : \E l \in g.links :
        /\ {m \in g.links : m.edge = j} = {l}
        /\ \E n \in ImageOf(g, d.edges[j].from) : n.code = l.from
        /\ \E n \in ImageOf(g, d.edges[j].to) : n.code = l.to
RefsDrawn(d, g) ==
    Validate(d) = {} /\ OnlyEdges(d) =>
        \A n \in g.nodes : \A r \in n.refs :
            r.to \in {m.code : m \in g.nodes} /\ <<r.to, n.code>> \in LeadsTo(LinkPairs(g))
Drawn(d, g) == NodesDrawn(d, g) /\ EdgesDrawn(d, g) /\ RefsDrawn(d, g)

\* All nodes are made, among them one Start, of a document that was built.
Finished(d, made, types) ==
    /\ Coded(d, made, types) /\ Len(made) = Len(Generated(d)) /\ Build(d) = "built"
    /\ Cardinality({c \in ToSet(made) : types[c] = "Start"}) = 1

\* What is built is a graph whose edges have their ends.
LEMMA BuiltHasEnds ==
    ASSUME NEW d, Build(d) = "built", NEW e \in ToSet(d.edges)
    PROVE  {e.from, e.to} \subseteq TopIds(d)
<1>1. ~\E x \in ToSet(d.edges) : x.from \in Placed(d) /\ x.to \notin TopIds(d)  BY DEF Build
<1>2. Placed(d) = TopIds(d)  BY <1>1 DEF Build
<1>3. ~\E x \in ToSet(d.edges) : x.from \notin TopIds(d)  BY <1>1 DEF Build
<1>4. QED  BY <1>1, <1>2, <1>3

LEMMA ListIsFinite ==
    ASSUME NEW S, NEW s \in Seq(S)
    PROVE  IsFiniteSet(ToSet(s))
<1> DEFINE N == Len(s)
           f == [k \in 1 .. N |-> s[k]]
           T == ToSet(s)
<1>1. N \in Nat /\ DOMAIN s = 1 .. N  OBVIOUS
<1>2. f \in Surjection(1 .. N, T)  BY <1>1 DEF Surjection, ToSet
<1>3. IsFiniteSet(1 .. N)  BY <1>1, FS_Interval
<1> HIDE DEF f, T, N
<1>4. IsFiniteSet(T)  BY <1>2, <1>3, FS_Surjection
<1>5. QED  BY <1>4 DEF T

LEMMA ImageIsDrawn ==
    ASSUME NEW d, IsDocument(d), IsNested(d), Unique(d), NEW made, NEW types, Finished(d, made, types)
    PROVE  Drawn(d, ServerGraph(d, made, types))
<1> DEFINE g == ServerGraph(d, made, types)
           gen == Generated(d)
           start == StartOf(made, types)
           codes == {m.code : m \in g.nodes}
           leads == LeadsTo(LinkPairs(g))
           C == DOMAIN types
           E == ToSet(d.edges)
<1>1. /\ made \in Seq(C) /\ Len(made) = Len(gen)
      /\ \A k \in DOMAIN made : types[made[k]] = ApiType(gen[k])
  BY DEF Finished, Coded
<1>2. \A e \in E : {e.from, e.to} \subseteq TopIds(d)  BY BuiltHasEnds DEF Finished
<1> HIDE DEF C
<1>3. /\ DOMAIN made = DOMAIN gen
      /\ \A k \in DOMAIN made : CodeOf(d, made, gen[k].id) = made[k]
      /\ \A x \in TopIds(d) : \E k \in DOMAIN made : gen[k].id = x /\ CodeOf(d, made, x) = made[k]
  BY <1>1, CodesAre
<1>4. /\ \A k \in DOMAIN gen : \E i \in TopAt(d) : gen[k] = d.nodes[i]
      /\ \A i \in TopAt(d) : \E k \in DOMAIN gen : gen[k] = d.nodes[i]
  BY GeneratedIs
<1>5. /\ \A k \in DOMAIN made : \E n \in g.nodes :
             ImageOf(g, gen[k].id) = {n} /\ n.code = made[k] /\ n.type = types[made[k]]
      /\ \A n \in g.nodes : \E k \in DOMAIN made :
             /\ n.code = made[k]
             /\ n.refs = {ServerRef(d, made, start, r) : r \in EmittedRefs(d, gen[k])}
  <2>1. made \in Seq(C)  BY <1>1
  <2>2. Len(made) = Len(Generated(d))  BY <1>1 DEF gen
  <2> HIDE DEF gen, g, start
  <2>3. Imaged(d, made, types)  BY <2>1, <2>2, NodesAre, Zenon
  <2>4. QED  BY <2>3 DEF Imaged, g, gen, start
<1>6. \A j \in DOMAIN d.edges : \E l \in g.links :
          /\ {m \in g.links : m.edge = j} = {l}
          /\ l.from = CodeOf(d, made, d.edges[j].from)
          /\ l.to = CodeOf(d, made, d.edges[j].to)
  BY <1>1, <1>2, LinksAre
<1>7. IsFiniteSet(g.links)  BY LinksAreFinite
<1> HIDE DEF g, gen, start
<1>8. NodesDrawn(d, g)
  <2> SUFFICES ASSUME NEW i \in TopAt(d)
               PROVE  \E n \in g.nodes : ImageOf(g, d.nodes[i].id) = {n} /\ n.type = ApiType(d.nodes[i])
    BY DEF NodesDrawn
  <2>1. PICK k \in DOMAIN made : gen[k] = d.nodes[i]  BY <1>3, <1>4
  <2>2. types[made[k]] = ApiType(d.nodes[i])
    <3>1. types[made[k]] = ApiType(gen[k])  BY <1>1 DEF gen
    <3>2. QED  BY <2>1, <3>1
  <2>3. PICK n \in g.nodes : ImageOf(g, gen[k].id) = {n} /\ n.type = types[made[k]]  BY <1>5
  <2>4. QED  BY <2>1, <2>2, <2>3
<1>9. \A x \in TopIds(d) : \E n \in ImageOf(g, x) : n.code = CodeOf(d, made, x)
  <2> SUFFICES ASSUME NEW x \in TopIds(d) PROVE \E n \in ImageOf(g, x) : n.code = CodeOf(d, made, x)
    OBVIOUS
  <2>1. PICK k \in DOMAIN made : gen[k].id = x /\ CodeOf(d, made, x) = made[k]  BY <1>3
  <2>2. PICK n \in g.nodes : ImageOf(g, gen[k].id) = {n} /\ n.code = made[k]  BY <1>5
  <2>3. QED  BY <2>1, <2>2
<1>10. EdgesDrawn(d, g)
  <2> SUFFICES ASSUME NEW j \in DOMAIN d.edges
               PROVE  \E l \in g.links :
                          /\ {m \in g.links : m.edge = j} = {l}
                          /\ \E n \in ImageOf(g, d.edges[j].from) : n.code = l.from
                          /\ \E n \in ImageOf(g, d.edges[j].to) : n.code = l.to
    BY DEF EdgesDrawn
  <2>1. d.edges[j] \in E  BY DEF ToSet
  <2>2. d.edges[j].from \in TopIds(d) /\ d.edges[j].to \in TopIds(d)  BY <1>2, <2>1
  <2>3. PICK l \in g.links :
            /\ {m \in g.links : m.edge = j} = {l}
            /\ l.from = CodeOf(d, made, d.edges[j].from)
            /\ l.to = CodeOf(d, made, d.edges[j].to)
    BY <1>6
  <2>4. QED  BY <1>9, <2>2, <2>3
<1>11. \A e \in E : \E l \in g.links :
           l.from = CodeOf(d, made, e.from) /\ l.to = CodeOf(d, made, e.to)
  <2> SUFFICES ASSUME NEW j \in DOMAIN d.edges
               PROVE  \E l \in g.links : /\ l.from = CodeOf(d, made, d.edges[j].from)
                                         /\ l.to = CodeOf(d, made, d.edges[j].to)
    BY DEF ToSet
  <2>1. QED  BY <1>6
<1>12. ASSUME NEW edges \in SUBSET E, NEW x, NEW y, <<x, y>> \in Ways(edges)
       PROVE  <<CodeOf(d, made, x), CodeOf(d, made, y)>> \in leads
  <2> HIDE DEF leads
  <2>1. QED  BY <1>7, <1>11, <1>12, LinksLead DEF leads
<1>13. \A k \in DOMAIN made : made[k] \in codes
  <2> SUFFICES ASSUME NEW k \in DOMAIN made PROVE \E m \in g.nodes : m.code = made[k]
    OBVIOUS
  <2>1. QED  BY <1>5
<1>14. \A c \in ToSet(made) : types[c] = "Start" => start = c
  <2> DEFINE S == {c \in ToSet(made) : types[c] = "Start"}
  <2>1. IsFiniteSet(ToSet(made))  BY <1>1, ListIsFinite
  <2>2. IsFiniteSet(S)  BY <2>1, FS_Subset
  <2>3. Cardinality(S) = 1  BY DEF Finished
  <2> HIDE DEF S
  <2>4. \E x : S = {x}  BY <2>2, <2>3, FS_Singleton
  <2>5. \A c : c \in S => start = c  BY <2>4 DEF S, start, StartOf
  <2>6. QED  BY <2>5 DEF S
<1> HIDE DEF codes, leads
<1>15. RefsDrawn(d, g)
  <2> SUFFICES ASSUME Validate(d) = {}, OnlyEdges(d), NEW n \in g.nodes, NEW r \in n.refs
               PROVE  r.to \in codes /\ <<r.to, n.code>> \in leads
    BY DEF RefsDrawn, codes, leads
  <2>1. PICK k \in DOMAIN made :
            /\ n.code = made[k]
            /\ n.refs = {ServerRef(d, made, start, q) : q \in EmittedRefs(d, gen[k])}
    BY <1>5
  <2>2. PICK q \in EmittedRefs(d, gen[k]) : r = ServerRef(d, made, start, q)  BY <2>1
  <2>3. r.to = IF q.sys THEN start ELSE IF q.to = None THEN None ELSE CodeOf(d, made, q.to)
    BY <2>2 DEF ServerRef
  <2>4. PICK i \in TopAt(d) : gen[k] = d.nodes[i]  BY <1>3, <1>4
  <2> DEFINE x == d.nodes[i].id
  <2>5. CodeOf(d, made, x) = n.code  BY <1>3, <2>1, <2>4
  <2>6. /\ d.nodes[i].kind # "trigger"
        /\ ~q.sys => q.to # None /\ q.to \in TopIds(d) /\ <<q.to, x>> \in Flows(d)
    BY <2>2, <2>4, EmittedIsSupplied
  <2>7. Added(d) = E  BY NothingAdded
  <2>8. CASE q.sys
    <3>1. TopIds(d) # {}  BY DEF TopIds
    <3>2. PICK t \in TopAt(d) :
              /\ Triggers(d) = {t}
              /\ \A y \in TopIds(d) \ {d.nodes[t].id} : <<d.nodes[t].id, y>> \in Ways(Added(d))
      BY <3>1, TriggerIsAtTop
    <3>3. d.nodes[t].kind = "trigger"  BY <3>2 DEF Triggers
    <3>4. PICK s \in DOMAIN made : gen[s] = d.nodes[t]  BY <1>3, <1>4
    <3>5. types[made[s]] = "Start"  BY <1>1, <3>3, <3>4 DEF ApiType
    <3>6. start = made[s]
      <4>1. made[s] \in ToSet(made)  BY DEF ToSet
      <4>2. QED  BY <1>14, <3>5, <4>1
    <3>7. x \in TopIds(d) /\ x # d.nodes[t].id
      <4>1. i \in DOMAIN d.nodes /\ t \in DOMAIN d.nodes /\ i # t  BY <2>6, <3>3 DEF TopAt
      <4>2. QED  BY <4>1 DEF Unique, TopIds
    <3>8. <<d.nodes[t].id, x>> \in Ways(E)  BY <2>7, <3>2, <3>7
    <3>9. <<CodeOf(d, made, d.nodes[t].id), CodeOf(d, made, x)>> \in leads  BY <1>12, <3>8
    <3>10. CodeOf(d, made, d.nodes[t].id) = made[s]  BY <1>3, <3>4
    <3>11. QED  BY <1>13, <2>3, <2>5, <2>8, <3>6, <3>9, <3>10
  <2>9. CASE ~q.sys
    <3>1. q.to # None /\ q.to \in TopIds(d) /\ <<q.to, x>> \in Flows(d)  BY <2>6, <2>9
    <3>2. <<q.to, x>> \in Ways({e \in E : e.data})  BY <2>7, <3>1 DEF Flows
    <3>3. <<CodeOf(d, made, q.to), CodeOf(d, made, x)>> \in leads  BY <1>12, <3>2
    <3>4. \E s \in DOMAIN made : CodeOf(d, made, q.to) = made[s]  BY <1>3, <3>1
    <3>5. QED  BY <1>13, <2>3, <2>5, <2>9, <3>1, <3>3, <3>4
  <2>10. QED  BY <2>8, <2>9
<1>16. QED  BY <1>8, <1>10, <1>15 DEF Drawn, g

-----------------------------------------------------------------------------
(* The document of a run, and what it makes of it. *)

\* The file, if there is one, holds a document.
FileInv == file # None => IsDocument(file) /\ IsNested(file)

\* What run q holds of its document, and what it has made of its app: the nodes made so far
\* have codes of their types; what is saved was built, has its one Start, and is the graph
\* of the document and of the codes it was given.
Laid(q, app) ==
    /\ q.at \in Fresh => q.made = <<>>
    /\ app.types \in Seq(ToSet(app.types))
    /\ q.at # "idle" =>
           IsDocument(q.doc) /\ IsNested(q.doc) /\ Coded(q.doc, q.made, app.types)
    /\ q.at = "nodes" => q.defaults \in Nat /\ q.defaults <= Len(app.types)
    /\ q.at \in {"fetch", "nodes", "save"} => Build(q.doc) = "built"
    /\ q.at = "save" =>
           /\ Finished(q.doc, q.made, app.types)
           /\ q.config = ServerGraph(q.doc, q.made, app.types)
    /\ app.graph # <<>> =>
           /\ q.at # "idle" /\ Finished(q.doc, q.made, app.types)
           /\ app.graph = <<ServerGraph(q.doc, q.made, app.types)>>

DrawInv == FileInv /\ \A p \in Pushers : Laid(push[p], apps[p])

\* What a step of run p leaves of this.
LaidOn(p) ==
    /\ \A q \in Pushers \ {p} : push'[q] = push[q] /\ apps'[q] = apps[q]
    /\ Laid(push'[p], apps'[p])

\* A run that goes on with what it has, or ends.
LEMMA HoldsOn ==
    ASSUME NEW q, NEW app, Laid(q, app), NEW r, q.at # "idle",
           r.doc = q.doc, r.made = q.made, r.at \notin {"idle", "fetch", "nodes", "save"},
           r.at \in Fresh => q.at \in Fresh
    PROVE  Laid(r, app)
  BY DEF Laid

\* A type more changes nothing of the codes given so far.
LEMMA StillCoded ==
    ASSUME NEW d, NEW made, NEW types, types \in Seq(ToSet(types)), Coded(d, made, types), NEW t
    PROVE  /\ Append(types, t) \in Seq(ToSet(Append(types, t)))
           /\ Coded(d, made, Append(types, t))
           /\ Len(types) + 1 \in DOMAIN Append(types, t) /\ Append(types, t)[Len(types) + 1] = t
           /\ Len(Append(types, t)) = Len(types) + 1
<1> DEFINE more == Append(types, t)
           S == ToSet(types) \cup {t}
<1>1. more \in Seq(ToSet(more))  BY Appended
<1>2. types \in Seq(S) /\ t \in S  OBVIOUS
<1> HIDE DEF S
<1>3. /\ Len(more) = Len(types) + 1 /\ more[Len(types) + 1] = t
      /\ \A k \in 1 .. Len(types) : more[k] = types[k]
  BY <1>2, AppendProperties
<1>4. DOMAIN types = 1 .. Len(types) /\ Len(types) \in Nat  BY <1>2
<1>5. DOMAIN more = 1 .. Len(more)  BY <1>1
<1>6. made \in Seq(DOMAIN types) /\ Len(made) <= Len(Generated(d))
      /\ \A k \in DOMAIN made : types[made[k]] = ApiType(Generated(d)[k])
  BY DEF Coded
<1> HIDE DEF more
<1>7. DOMAIN types \subseteq DOMAIN more  BY <1>3, <1>4, <1>5
<1>8. made \in Seq(DOMAIN more)  BY <1>6, <1>7
<1>9. \A k \in DOMAIN made : more[made[k]] = ApiType(Generated(d)[k])
  <2> SUFFICES ASSUME NEW k \in DOMAIN made PROVE more[made[k]] = ApiType(Generated(d)[k])
    OBVIOUS
  <2>1. made[k] \in DOMAIN types  BY <1>6
  <2>2. QED  BY <1>3, <1>4, <1>6, <2>1
<1>10. Coded(d, made, more)  BY <1>6, <1>8, <1>9 DEF Coded
<1>11. Len(types) + 1 \in DOMAIN more  BY <1>3, <1>4, <1>5
<1>12. QED  BY <1>1, <1>3, <1>10, <1>11 DEF more

\* The next node gets a code of its type.
LEMMA NextCoded ==
    ASSUME NEW d, IsDocument(d), NEW made, NEW types, Coded(d, made, types),
           Len(made) < Len(Generated(d)), NEW c \in DOMAIN types,
           types[c] = ApiType(Generated(d)[Len(made) + 1])
    PROVE  Coded(d, Append(made, c), types)
<1> DEFINE C == DOMAIN types
           gen == Generated(d)
           more == Append(made, c)
<1>1. made \in Seq(C) /\ c \in C /\ \A k \in DOMAIN made : types[made[k]] = ApiType(gen[k])
  BY DEF Coded
<1>2. gen \in Seq(ToSet(d.nodes))  BY GeneratedIs
<1>3. Len(gen) \in Nat  BY <1>2
<1> HIDE DEF C, gen
<1>4. /\ more \in Seq(C) /\ Len(more) = Len(made) + 1 /\ more[Len(made) + 1] = c
      /\ \A k \in 1 .. Len(made) : more[k] = made[k]
      /\ DOMAIN more = 1 .. Len(more) /\ DOMAIN made = 1 .. Len(made) /\ Len(made) \in Nat
  BY <1>1, AppendProperties
<1> HIDE DEF more
<1>5. Len(more) <= Len(gen)  BY <1>3, <1>4 DEF gen
<1>6. \A k \in DOMAIN more : types[more[k]] = ApiType(gen[k])
  <2> SUFFICES ASSUME NEW k \in DOMAIN more PROVE types[more[k]] = ApiType(gen[k])
    OBVIOUS
  <2>1. CASE k = Len(made) + 1  BY <1>4, <2>1 DEF gen
  <2>2. CASE k # Len(made) + 1
    <3>1. k \in 1 .. Len(made)  BY <1>4, <2>2
    <3>2. QED  BY <1>1, <1>4, <3>1
  <2>3. QED  BY <2>1, <2>2
<1>7. QED  BY <1>4, <1>5, <1>6 DEF Coded, C, gen, more

-----------------------------------------------------------------------------
(* Each step of a run. *)

LEMMA AsksOn ==
    ASSUME PushTables, NEW p \in Pushers, Progress(push[p], apps[p]), Laid(push[p], apps[p]),
           push[p].at # "idle", NEW q, Laid(q, apps[p]), Ask(p, q) \/ Alone(p, q)
    PROVE  LaidOn(p)
<1>1. CASE Answered(p, q, apps[p])  BY <1>1, Outcomes DEF LaidOn
<1>2. CASE Refused(p)
  <2> DEFINE c == Cut(push[p], "exit_2")
  <2>1. c.at = "exit_2" /\ c.doc = push[p].doc /\ c.made = push[p].made
    BY DEF Cut, Progress, NoPush
  <2> HIDE DEF c
  <2>2. Laid(c, apps[p])  BY <2>1, HoldsOn DEF Fresh
  <2>3. QED  BY <1>2, <2>2, Outcomes DEF LaidOn, c
<1>3. QED  BY <1>1, <1>2 DEF Ask, Alone

LEMMA CallsOn ==
    ASSUME PushTables, NEW p \in Pushers, Progress(push[p], apps[p]), Laid(push[p], apps[p]),
           push[p].at # "idle", NEW q, NEW app, Laid(q, app), Laid(Unsure(push[p]), app),
           Call(p, q, app)
    PROVE  LaidOn(p)
<1>1. CASE Answered(p, q, app)  BY <1>1, Outcomes DEF LaidOn
<1>2. CASE Refused(p)
  <2>1. Ask(p, push[p])  BY <1>2 DEF Ask
  <2>2. QED  BY <2>1, AsksOn
<1>3. CASE AnswerLost(p, app)  BY <1>3, Outcomes DEF LaidOn
<1>4. QED  BY <1>1, <1>2, <1>3 DEF Call

\* The fields of a run that a step leaves as they are.
LEMMA RunFields ==
    ASSUME NEW p, NEW app, Progress(push[p], app)
    PROVE  /\ DOMAIN push[p] = {"at", "doc", "made", "defaults", "bound", "config", "lost"}
           /\ DOMAIN app = {"exists", "types", "graph", "draft", "published"}
           /\ \A l : To(p, l).at = l /\ To(p, l).doc = push[p].doc /\ To(p, l).made = push[p].made
           /\ /\ Unsure(push[p]).at = "exit_2" /\ Unsure(push[p]).doc = push[p].doc
              /\ Unsure(push[p]).made = push[p].made
<1>1. DOMAIN push[p] = DOMAIN NoPush /\ DOMAIN app = DOMAIN NoApp  BY DEF Progress
<1>2. DOMAIN push[p] = {"at", "doc", "made", "defaults", "bound", "config", "lost"}
      /\ DOMAIN app = {"exists", "types", "graph", "draft", "published"}
  BY <1>1 DEF NoPush, NoApp
<1>3. QED  BY <1>2 DEF To, Unsure

LEMMA GoesOn ==
    ASSUME NEW p, Progress(push[p], apps[p]), NEW app, Laid(push[p], app), push[p].at # "idle",
           NEW l,
           l \notin {"idle", "fetch", "nodes", "save"}, l \in Fresh => push[p].at \in Fresh
    PROVE  Laid(To(p, l), app)
<1>1. To(p, l).at = l /\ To(p, l).doc = push[p].doc /\ To(p, l).made = push[p].made
  BY RunFields
<1>2. QED  BY <1>1, HoldsOn

\* What the file says is the document; nothing is made of it yet.
LEMMA StartsOn ==
    ASSUME PushTables, NEW p \in Pushers, Progress(push[p], apps[p]), Laid(push[p], apps[p]),
           FileInv, Start(p)
    PROVE  LaidOn(p)
<1> DEFINE r == [push[p] EXCEPT !.at = IF file.schema THEN "check" ELSE "exit_2", !.doc = file,
                                !.bound = setting.datasets]
<1>1. Alone(p, r) /\ push[p].at = "idle" /\ file # None  BY DEF Start
<1>2. r.at \in {"check", "exit_2"} /\ r.doc = file /\ r.made = push[p].made
  BY RunFields
<1> HIDE DEF r
<1>3. apps[p] = NoApp /\ r.made = <<>>  BY <1>1, <1>2 DEF Progress, Laid, Fresh
<1>4. apps[p].types = <<>> /\ apps[p].graph = <<>>  BY <1>3 DEF NoApp
<1>5. IsDocument(file) /\ IsNested(file)  BY <1>1 DEF FileInv
<1>6. Coded(file, <<>>, <<>>)
  <2>1. Generated(file) \in Seq(ToSet(file.nodes))  BY <1>5, GeneratedIs
  <2>2. Len(Generated(file)) \in Nat  BY <2>1
  <2>3. <<>> \in Seq({}) /\ Len(<<>>) = 0 /\ DOMAIN <<>> = {}  OBVIOUS
  <2>4. QED  BY <2>2, <2>3 DEF Coded
<1>7. Laid(r, apps[p])  BY <1>2, <1>3, <1>4, <1>5, <1>6 DEF Laid
<1>8. QED  BY <1>1, <1>7, Outcomes DEF Alone, LaidOn

LEMMA ChecksNameOn ==
    ASSUME PushTables, NEW p \in Pushers, Progress(push[p], apps[p]), Laid(push[p], apps[p]),
           CheckName(p)
    PROVE  LaidOn(p)
<1>1. push[p].at = "check" /\ (Ask(p, To(p, "exit_2")) \/ Ask(p, To(p, "create")))
  BY DEF CheckName
<1>2. Laid(To(p, "exit_2"), apps[p]) /\ Laid(To(p, "create"), apps[p])
  BY <1>1, GoesOn DEF Fresh
<1>3. QED  BY <1>1, <1>2, AsksOn

\* The nodes the server makes of itself have no code yet.
LEMMA CreatesAppOn ==
    ASSUME PushTables, NEW p \in Pushers, Progress(push[p], apps[p]), Laid(push[p], apps[p]),
           CreateApp(p)
    PROVE  LaidOn(p)
<1> DEFINE types == IF setting.mode = "chatflow" THEN <<"Start", "End">> ELSE <<>>
           app == [NoApp EXCEPT !.exists = TRUE, !.types = types]
<1>1. push[p].at = "create" /\ Call(p, To(p, "models"), app)  BY DEF CreateApp
<1>2. app.types = types /\ app.graph = <<>>  BY DEF NoApp
<1>3. types \in Seq(ToSet(types))
  <2> DEFINE S == {"Start", "End"}
  <2>1. "Start" \in S /\ "End" \in S  OBVIOUS
  <2> HIDE DEF S
  <2>2. <<"Start", "End">> \in Seq(S) /\ <<>> \in Seq(S)  BY <2>1
  <2>3. types \in Seq(S)  BY <2>2
  <2> HIDE DEF types
  <2>4. QED  BY <2>3, OwnMembers
<1> HIDE DEF app, types
<1>4. push[p].made = <<>> /\ IsDocument(push[p].doc) /\ IsNested(push[p].doc)
  BY <1>1 DEF Laid, Fresh
<1>5. Coded(push[p].doc, <<>>, types)
  <2>1. Generated(push[p].doc) \in Seq(ToSet(push[p].doc.nodes))  BY <1>4, GeneratedIs
  <2>2. Len(Generated(push[p].doc)) \in Nat  BY <2>1
  <2>3. <<>> \in Seq(DOMAIN types) /\ Len(<<>>) = 0 /\ DOMAIN <<>> = {}  OBVIOUS
  <2>4. QED  BY <2>2, <2>3 DEF Coded
<1>6. \A q : /\ q.at \in {"models", "exit_2"} /\ q.doc = push[p].doc /\ q.made = push[p].made
             => Laid(q, app)
  BY <1>2, <1>3, <1>4, <1>5 DEF Laid
<1>7. Laid(To(p, "models"), app) /\ Laid(Unsure(push[p]), app)
  <2>1. /\ To(p, "models").at = "models" /\ To(p, "models").doc = push[p].doc
        /\ To(p, "models").made = push[p].made
        /\ Unsure(push[p]).at = "exit_2" /\ Unsure(push[p]).doc = push[p].doc
        /\ Unsure(push[p]).made = push[p].made
    <3>1. \A l : To(p, l).at = l /\ To(p, l).doc = push[p].doc /\ To(p, l).made = push[p].made
      BY RunFields
    <3>2. /\ Unsure(push[p]).at = "exit_2" /\ Unsure(push[p]).doc = push[p].doc
          /\ Unsure(push[p]).made = push[p].made
      BY RunFields
    <3>3. QED  BY <3>1, <3>2
  <2>2. QED  BY <1>6, <2>1
<1>8. QED  BY <1>1, <1>7, CallsOn

LEMMA BindsOn ==
    ASSUME PushTables, NEW p \in Pushers, Progress(push[p], apps[p]), Laid(push[p], apps[p]),
           BindModels(p) \/ BindDatasets(p)
    PROVE  LaidOn(p)
<1> DEFINE r == [To(p, "build") EXCEPT !.bound = @ \cup push[p].doc.datasets]
<1>1. /\ push[p].at \in {"models", "datasets"}
      /\ \/ \E l \in {"build", "datasets", "exit_2"} : Alone(p, To(p, l)) \/ Ask(p, To(p, l))
         \/ Ask(p, r)
  <2>1. CASE BindModels(p)  BY <2>1 DEF BindModels
  <2>2. CASE BindDatasets(p)  BY <2>2 DEF BindDatasets
  <2>3. QED  BY <2>1, <2>2
<1>2. push[p].at # "idle"  BY <1>1
<1>3. \A l \in {"build", "datasets", "exit_2"} : Laid(To(p, l), apps[p])
  BY <1>2, GoesOn DEF Fresh
<1>4. r.at = "build" /\ r.doc = push[p].doc /\ r.made = push[p].made
  <2>1. DOMAIN To(p, "build") = {"at", "doc", "made", "defaults", "bound", "config", "lost"}
    BY RunFields DEF To
  <2>2. /\ To(p, "build").at = "build" /\ To(p, "build").doc = push[p].doc
        /\ To(p, "build").made = push[p].made
    BY RunFields
  <2>3. QED  BY <2>1, <2>2
<1> HIDE DEF r
<1>5. Laid(r, apps[p])  BY <1>2, <1>4, HoldsOn DEF Fresh
<1>6. QED  BY <1>1, <1>2, <1>3, <1>5, AsksOn

\* Only a document that was built goes on to the server.
LEMMA CompilesOn ==
    ASSUME PushTables, NEW p \in Pushers, Progress(push[p], apps[p]), Laid(push[p], apps[p]),
           Compile(p)
    PROVE  LaidOn(p)
<1>1. push[p].at = "build" /\ push[p].at # "idle"  BY DEF Compile
<1>2. CASE setting.mode = "single"
  <2> DEFINE r == [To(p, "draft") EXCEPT !.config = push[p].doc]
  <2>1. Alone(p, r)  BY <1>2 DEF Compile
  <2>2. r.at = "draft" /\ r.doc = push[p].doc /\ r.made = push[p].made
    BY RunFields DEF To
  <2> HIDE DEF r
  <2>3. Laid(r, apps[p])  BY <1>1, <2>2, HoldsOn DEF Fresh
  <2>4. QED  BY <1>1, <2>1, <2>3, AsksOn
<1>3. CASE setting.mode # "single"
  <2>1. Build(push[p].doc) \in {"built", "error", "crash"}  BY DEF Build
  <2>2. CASE Build(push[p].doc) = "built"
    <3>1. Alone(p, To(p, "fetch"))  BY <1>3, <2>2 DEF Compile
    <3>2. apps[p].graph = <<>>  BY <1>1 DEF Progress, Building
    <3>3. /\ To(p, "fetch").at = "fetch" /\ To(p, "fetch").doc = push[p].doc
          /\ To(p, "fetch").made = push[p].made
      BY RunFields
    <3>4. Laid(To(p, "fetch"), apps[p])  BY <1>1, <2>2, <3>2, <3>3 DEF Laid, Fresh
    <3>5. QED  BY <1>1, <3>1, <3>4, AsksOn
  <2>3. CASE Build(push[p].doc) # "built"
    <3>1. PICK l \in {"exit_2", "traceback"} : Alone(p, To(p, l))
      BY <1>3, <2>1, <2>3 DEF Compile
    <3>2. Laid(To(p, l), apps[p])  BY <1>1, GoesOn DEF Fresh
    <3>3. QED  BY <1>1, <3>1, <3>2, AsksOn
  <2>4. QED  BY <2>2, <2>3
<1>4. QED  BY <1>2, <1>3

LEMMA FetchesOn ==
    ASSUME PushTables, NEW p \in Pushers, Progress(push[p], apps[p]), Laid(push[p], apps[p]),
           Fetch(p)
    PROVE  LaidOn(p)
<1> DEFINE r == [To(p, "nodes") EXCEPT !.defaults = Len(apps[p].types)]
<1>1. push[p].at = "fetch" /\ Ask(p, r)  BY DEF Fetch
<1>2. apps[p].graph = <<>>  BY <1>1 DEF Progress, Building
<1>3. /\ r.at = "nodes" /\ r.doc = push[p].doc /\ r.made = push[p].made
      /\ r.defaults = Len(apps[p].types)
  BY RunFields DEF To
<1>4. Len(apps[p].types) \in Nat  BY DEF Laid
<1> HIDE DEF r
<1>5. Laid(r, apps[p])  BY <1>1, <1>2, <1>3, <1>4 DEF Laid, Fresh
<1>6. QED  BY <1>1, <1>5, AsksOn

\* Whichever way the next node gets its code, it is a code of its type.
LEMMA MaterialisesOn ==
    ASSUME PushTables, NEW p \in Pushers, Progress(push[p], apps[p]), Laid(push[p], apps[p]),
           Materialise(p)
    PROVE  LaidOn(p)
<1> DEFINE d == push[p].doc
           made == push[p].made
           types == apps[p].types
           next == NextType(p)
<1>1. /\ push[p].at = "nodes" /\ Len(made) < Len(Generated(d))
      /\ \/ next = "End" /\ EndsMade(p) # {} /\ Alone(p, Made(p, made[Min(EndsMade(p))]))
         \/ Reusable(p) # {} /\ Alone(p, Made(p, Min(Reusable(p))))
         \/ Call(p, Made(p, Len(types) + 1), [apps[p] EXCEPT !.types = Append(@, next)])
  BY DEF Materialise
<1>2. /\ IsDocument(d) /\ IsNested(d) /\ Coded(d, made, types) /\ types \in Seq(ToSet(types))
      /\ push[p].defaults \in Nat /\ push[p].defaults <= Len(types) /\ Build(d) = "built"
  BY <1>1 DEF Laid
<1>3. next = ApiType(Generated(d)[Len(made) + 1])  BY DEF NextType
<1>4. /\ made \in Seq(DOMAIN types) /\ DOMAIN made = 1 .. Len(made) /\ Len(made) \in Nat
      /\ DOMAIN types = 1 .. Len(types) /\ Len(types) \in Nat
  BY <1>2 DEF Coded
<1>5. apps[p].graph = <<>>  BY <1>1 DEF Progress, Building
<1>6. \A c : /\ Made(p, c).at = "nodes" /\ Made(p, c).doc = d /\ Made(p, c).made = Append(made, c)
             /\ Made(p, c).defaults = push[p].defaults
  BY <1>1, RunFields DEF Made
<1> HIDE DEF d, made, types, next
<1>7. ASSUME NEW c \in DOMAIN types, types[c] = next, Alone(p, Made(p, c))
      PROVE  LaidOn(p)
  <2>1. Coded(d, Append(made, c), types)  BY <1>1, <1>2, <1>3, <1>7, NextCoded
  <2>2. Laid(Made(p, c), apps[p])  BY <1>2, <1>5, <1>6, <2>1 DEF Laid, Fresh, types
  <2>3. push[p].at # "idle"  BY <1>1
  <2>4. QED  BY <1>7, <2>2, <2>3, AsksOn
<1>8. CASE next = "End" /\ EndsMade(p) # {} /\ Alone(p, Made(p, made[Min(EndsMade(p))]))
  <2>1. EndsMade(p) = {k \in DOMAIN made : types[made[k]] = "End"}  BY DEF EndsMade, made, types
  <2>2. EndsMade(p) \in SUBSET Nat  BY <1>4, <2>1
  <2>3. Min(EndsMade(p)) \in EndsMade(p)  BY <1>8, <2>2, Smallest
  <2> DEFINE k == Min(EndsMade(p))
  <2> HIDE DEF k
  <2>4. k \in DOMAIN made /\ types[made[k]] = "End"  BY <2>1, <2>3 DEF k
  <2>5. made[k] \in DOMAIN types  BY <1>4, <2>4
  <2>6. QED  BY <1>7, <1>8, <2>4, <2>5 DEF k
<1>9. CASE Reusable(p) # {} /\ Alone(p, Made(p, Min(Reusable(p))))
  <2>1. Reusable(p) = {c \in 1 .. push[p].defaults : types[c] = next /\ c \notin ToSet(made)}
    BY DEF Reusable, types, made, next
  <2>2. Reusable(p) \in SUBSET Nat  BY <1>2, <2>1
  <2>3. Min(Reusable(p)) \in Reusable(p)  BY <1>9, <2>2, Smallest
  <2> DEFINE c == Min(Reusable(p))
  <2> HIDE DEF c
  <2>4. c \in 1 .. push[p].defaults /\ types[c] = next  BY <2>1, <2>3 DEF c
  <2>5. c \in DOMAIN types  BY <1>2, <1>4, <2>4
  <2>6. QED  BY <1>7, <1>9, <2>4, <2>5 DEF c
<1>10. CASE Call(p, Made(p, Len(types) + 1), [apps[p] EXCEPT !.types = Append(@, next)])
  <2> DEFINE more == Append(types, next)
             app == [apps[p] EXCEPT !.types = Append(@, next)]
             c == Len(types) + 1
  <2>1. app.types = more /\ app.graph = apps[p].graph  BY RunFields DEF types
  <2> HIDE DEF app
  <2>2. /\ more \in Seq(ToSet(more)) /\ Coded(d, made, more)
        /\ c \in DOMAIN more /\ more[c] = next /\ Len(more) = Len(types) + 1
    BY <1>2, StillCoded
  <2> HIDE DEF more, c
  <2>3. Coded(d, Append(made, c), more)  BY <1>1, <1>2, <1>3, <2>2, NextCoded
  <2>4. push[p].defaults <= Len(more)  BY <1>2, <1>4, <2>2
  <2>5. Laid(Made(p, c), app)  BY <1>2, <1>5, <1>6, <2>1, <2>2, <2>3, <2>4 DEF Laid, Fresh
  <2>6. /\ Unsure(push[p]).at = "exit_2" /\ Unsure(push[p]).doc = d
        /\ Unsure(push[p]).made = made
    BY RunFields DEF d, made
  <2>7. Laid(Unsure(push[p]), app)  BY <1>2, <1>5, <2>1, <2>2, <2>6 DEF Laid, Fresh
  <2>8. push[p].at # "idle" /\ Call(p, Made(p, c), app)  BY <1>1, <1>10 DEF c, app
  <2>9. QED  BY <2>5, <2>7, <2>8, CallsOn
<1>11. QED  BY <1>1, <1>8, <1>9, <1>10

\* What is sent to be saved has its one Start, and is the graph of what the nodes were given.
LEMMA ChecksOn ==
    ASSUME PushTables, NEW p \in Pushers, Progress(push[p], apps[p]), Laid(push[p], apps[p]),
           CheckMaterialised(p)
    PROVE  LaidOn(p)
<1> DEFINE d == push[p].doc
           made == push[p].made
           types == apps[p].types
           r == [To(p, "save") EXCEPT !.config = ServerGraph(d, made, types)]
<1>1. /\ push[p].at = "nodes" /\ push[p].at # "idle" /\ Len(made) = Len(Generated(d))
      /\ \/ Materialised(d, made, types, push[p].bound) /\ Alone(p, r)
         \/ Alone(p, To(p, "exit_2"))
  BY DEF CheckMaterialised
<1>2. CASE Materialised(d, made, types, push[p].bound) /\ Alone(p, r)
  <2>1. apps[p].graph = <<>>  BY <1>1 DEF Progress, Building
  <2>2. r.at = "save" /\ r.doc = d /\ r.made = made /\ r.config = ServerGraph(d, made, types)
    BY RunFields DEF To
  <2> HIDE DEF r, d, made, types
  <2>3. /\ IsDocument(d) /\ IsNested(d) /\ Coded(d, made, types) /\ types \in Seq(ToSet(types))
        /\ Build(d) = "built"
    BY <1>1 DEF Laid, d, made, types
  <2>4. Cardinality({c \in ToSet(made) : types[c] = "Start"}) = 1  BY <1>2 DEF Materialised
  <2>5. Finished(d, made, types)  BY <1>1, <2>3, <2>4 DEF Finished
  <2>6. Laid(r, apps[p])  BY <2>1, <2>2, <2>3, <2>5 DEF Laid, Fresh, types
  <2>7. QED  BY <1>1, <1>2, <2>6, AsksOn
<1>3. CASE Alone(p, To(p, "exit_2"))
  <2>1. Laid(To(p, "exit_2"), apps[p])  BY <1>1, GoesOn DEF Fresh
  <2>2. QED  BY <1>1, <1>3, <2>1, AsksOn
<1>4. QED  BY <1>1, <1>2, <1>3

\* A lost answer leaves what the call has done.
LEMMA SavesOn ==
    ASSUME PushTables, NEW p \in Pushers, Progress(push[p], apps[p]), Laid(push[p], apps[p]),
           SaveChatflow(p)
    PROVE  LaidOn(p)
<1> DEFINE app == [apps[p] EXCEPT !.graph = <<push[p].config>>]
<1>1. push[p].at = "save" /\ push[p].at # "idle" /\ Call(p, To(p, "draft"), app)
  BY DEF SaveChatflow
<1>2. app.types = apps[p].types /\ app.graph = <<push[p].config>>  BY RunFields
<1> HIDE DEF app
<1>3. Laid(push[p], app)  BY <1>1, <1>2 DEF Laid
<1>4. Laid(To(p, "draft"), app)
  <2>1. /\ To(p, "draft").at = "draft" /\ To(p, "draft").doc = push[p].doc
        /\ To(p, "draft").made = push[p].made
    BY RunFields
  <2>2. QED  BY <1>1, <1>3, <2>1, HoldsOn DEF Fresh
<1>5. Laid(Unsure(push[p]), app)
  <2>1. /\ Unsure(push[p]).at = "exit_2" /\ Unsure(push[p]).doc = push[p].doc
        /\ Unsure(push[p]).made = push[p].made
    BY RunFields
  <2>2. QED  BY <1>1, <1>3, <2>1, HoldsOn DEF Fresh
<1>6. QED  BY <1>1, <1>4, <1>5, CallsOn

LEMMA PublishesOn ==
    ASSUME PushTables, NEW p \in Pushers, Progress(push[p], apps[p]), Laid(push[p], apps[p]),
           SaveDraft(p) \/ Publish(p)
    PROVE  LaidOn(p)
<1>1. /\ push[p].at # "idle"
      /\ \E l \in {"publish", "exit_0"} : \E app :
             /\ app.types = apps[p].types /\ app.graph = apps[p].graph
             /\ Call(p, To(p, l), app)
  <2>1. CASE SaveDraft(p)
    <3> DEFINE app == [apps[p] EXCEPT !.draft = <<push[p].config>>]
    <3>1. push[p].at # "idle" /\ Call(p, To(p, "publish"), app)  BY <2>1 DEF SaveDraft
    <3>2. app.types = apps[p].types /\ app.graph = apps[p].graph  BY RunFields
    <3> HIDE DEF app
    <3>3. QED  BY <3>1, <3>2
  <2>2. CASE Publish(p)
    <3> DEFINE app == [apps[p] EXCEPT !.published = <<push[p].config>>]
    <3>1. push[p].at # "idle" /\ Call(p, To(p, "exit_0"), app)  BY <2>2 DEF Publish
    <3>2. app.types = apps[p].types /\ app.graph = apps[p].graph  BY RunFields
    <3> HIDE DEF app
    <3>3. QED  BY <3>1, <3>2
  <2>3. QED  BY <2>1, <2>2
<1>2. PICK l \in {"publish", "exit_0"} :
          \E app : /\ app.types = apps[p].types /\ app.graph = apps[p].graph
                   /\ Call(p, To(p, l), app)
  BY <1>1
<1>3. PICK app : /\ app.types = apps[p].types /\ app.graph = apps[p].graph
               /\ Call(p, To(p, l), app)
  BY <1>2
<1>4. /\ To(p, l).at = l /\ To(p, l).doc = push[p].doc /\ To(p, l).made = push[p].made
      /\ Unsure(push[p]).at = "exit_2" /\ Unsure(push[p]).doc = push[p].doc
      /\ Unsure(push[p]).made = push[p].made
  BY RunFields
<1>5. Laid(push[p], app)  BY <1>3 DEF Laid
<1>6. Laid(To(p, l), app)  BY <1>1, <1>4, <1>5, HoldsOn DEF Fresh
<1>7. Laid(Unsure(push[p]), app)  BY <1>1, <1>4, <1>5, HoldsOn DEF Fresh
<1>8. QED  BY <1>1, <1>3, <1>6, <1>7, CallsOn

LEMMA DiesOn ==
    ASSUME PushTables, NEW p \in Pushers, Progress(push[p], apps[p]), Laid(push[p], apps[p]),
           Kill(p)
    PROVE  LaidOn(p)
<1> DEFINE c == Cut(push[p], "killed")
<1>1. /\ apps' = apps /\ push'[p] = c
      /\ \A q \in Pushers \ {p} : push'[q] = push[q]
  BY DEF Kill, PushTables, Cut
<1>2. push[p].at # "idle"  BY DEF Kill, Active
<1>3. c.at = "killed" /\ c.doc = push[p].doc /\ c.made = push[p].made
  BY DEF Cut, Progress, NoPush
<1> HIDE DEF c
<1>4. Laid(c, apps[p])  BY <1>2, <1>3, HoldsOn DEF Fresh
<1>5. QED  BY <1>1, <1>4 DEF LaidOn

LEMMA StepsOn ==
    ASSUME PushTables, NEW p \in Pushers, Progress(push[p], apps[p]), Laid(push[p], apps[p]),
           FileInv, Step(p) \/ Kill(p)
    PROVE  LaidOn(p)
  BY StartsOn, ChecksNameOn, CreatesAppOn, BindsOn, CompilesOn, FetchesOn, MaterialisesOn,
     ChecksOn, SavesOn, PublishesOn, DiesOn DEF Step

-----------------------------------------------------------------------------
(* The invariant, and the graph. *)

\* The file is written by a planner, by a session, or by hand.
LEMMA FileStep ==
    ASSUME FileInv, LoopInv, HistoryInv, [Next]_vars
    PROVE  FileInv'
<1>1. CASE file' = file  BY <1>1 DEF FileInv
<1>2. CASE Plan
  <2>1. file' = file \/ file' = plan.ir
    BY <1>2 DEF Plan, PlannerStep, CallModel, RefuseText, RaiseOnReply, CheckReply, GiveUp, Finish
  <2>2. QED  BY <1>1, <2>1 DEF FileInv, LoopInv
<1>3. CASE Edit
  <2>1. file' = file \/ (session.ir # None /\ file' = session.ir)
    BY <1>3 DEF Edit, EditStep, PlanTurn, EditTurn, GateTurn, FailTurn, MayTurn, EndTurn, Export
  <2>2. QED  BY <1>1, <2>1 DEF FileInv, HistoryInv, Good, Typed
<1>4. CASE Push
  <2>1. file' = file  BY <1>4 DEF Push, PushStep
  <2>2. QED  BY <1>1, <2>1
<1>5. CASE UNCHANGED vars  BY <1>1, <1>5 DEF vars
<1>6. QED  BY <1>2, <1>3, <1>4, <1>5 DEF Next

LEMMA DrawStep ==
    ASSUME DrawInv, PushInv, LoopInv, HistoryInv, [Next]_vars
    PROVE  DrawInv'
<1>1. FileInv'  BY FileStep DEF DrawInv
<1>2. \A p \in Pushers : Laid(push'[p], apps'[p])
  <2>1. CASE UNCHANGED <<push, apps>>  BY <2>1 DEF DrawInv
  <2>2. CASE Push
    <3>1. PICK p \in Pushers : Step(p) \/ Kill(p)  BY <2>2 DEF Push, PushStep
    <3>2. LaidOn(p)  BY <3>1, StepsOn DEF DrawInv, PushInv
    <3>3. QED  BY <3>2 DEF LaidOn, DrawInv
  <2>3. CASE Plan \/ Edit  BY <2>1, <2>3 DEF Plan, Edit, pushVars
  <2>4. CASE UNCHANGED vars  BY <2>1, <2>4 DEF vars
  <2>5. QED  BY <2>2, <2>3, <2>4 DEF Next
<1>3. QED  BY <1>1, <1>2 DEF DrawInv

LEMMA DrawBegins == Init => DrawInv
<1> SUFFICES ASSUME Init PROVE DrawInv
  OBVIOUS
<1>1. PICK s \in Scenarios : file = s.file /\ PushInit  BY DEF Init
<1>2. FileInv
  BY <1>1, ScenariosAssumption DEF FileInv
<1>3. \A p \in Pushers : push[p] = NoPush /\ apps[p] = NoApp  BY <1>1 DEF PushInit
<1>4. /\ NoPush.at = "idle" /\ NoPush.made = <<>>
      /\ NoApp.types = <<>> /\ NoApp.graph = <<>>
  BY DEF NoPush, NoApp
<1>5. Laid(NoPush, NoApp)  BY <1>4 DEF Laid
<1>6. QED  BY <1>2, <1>3, <1>5 DEF DrawInv

LEMMA DrawHolds == Spec => []DrawInv
<1>1. Init => DrawInv  BY DrawBegins
<1>2. DrawInv /\ PushInv /\ LoopInv /\ HistoryInv /\ [Next]_vars => DrawInv'  BY DrawStep
<1>3. Spec => []PushInv  BY PushIsDelivered, PushHolds, PTL
<1>4. QED  BY <1>1, <1>2, <1>3, LoopHolds, HistoryHolds, PTL DEF Spec

\* Every graph that is saved is the image of its document: its nodes, its edges, and, where
\* the document was accepted and flows by its edges alone, what its references can read.
THEOREM GraphsAreDocuments == Spec => []GraphIsTheDocument
<1>1. ASSUME DrawInv PROVE GraphIsTheDocument
  <2> SUFFICES ASSUME NEW p \in Pushers, apps[p].graph # <<>>, Unique(push[p].doc)
               PROVE  Drawn(push[p].doc, apps[p].graph[1])
    BY DEF GraphIsTheDocument, Drawn, NodesDrawn, EdgesDrawn, RefsDrawn, ImageOf, LinkPairs, OnlyEdges
  <2> DEFINE d == push[p].doc
  <2>1. /\ IsDocument(d) /\ IsNested(d) /\ Finished(d, push[p].made, apps[p].types)
        /\ apps[p].graph = <<ServerGraph(d, push[p].made, apps[p].types)>>
    BY <1>1 DEF DrawInv, Laid
  <2>2. apps[p].graph[1] = ServerGraph(d, push[p].made, apps[p].types)  BY <2>1
  <2>3. QED  BY <2>1, <2>2, ImageIsDrawn
<1>2. QED  BY <1>1, DrawHolds, PTL
=============================================================================
