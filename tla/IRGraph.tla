------------------------------- MODULE IRGraph -------------------------------
(* The workflow document, IR v0.3/v0.4 (ir/models.py), as far as the validator *)
(* and the runtimes tell documents apart.                                      *)
(*                                                                             *)
(* A document is flat: d.nodes lists its nodes in the order _walk yields them, *)
(* and a node of a loop body or a parallel branch names the index of the node  *)
(* it is nested in.  Texts are the references found in them; prompts, schemas, *)
(* numbers and sources are the outcome of the tests made of them (marks).      *)
EXTENDS Integers, FiniteSets, SequencesExt

CONSTANT None   \* a field that is null, a file that does not exist

VARIABLE file   \* the IR file that one command writes and another reads

Kinds == {"trigger", "llm", "retrieval", "http", "code", "condition", "loop", "parallel",
          "agent", "output"}

\* How a reference stands in its text: it is the whole text, part of it, part of an
\* <untrusted> block, behind a second dollar sign, or not a reference of the grammar.
Forms == {"exact", "spliced", "wrapped", "escaped", "broken"}

\* A reference ${to.path} in a field of a node.  `path` is its first segment.
Ref(field, to, path, form) == [field |-> field, to |-> to, path |-> path, form |-> form]

\* What the validator and the gate of the runtimes ask of one node: timeout_s above the
\* default of the policy, a budget above it, a key declared, a method with effects, a
\* source the sandbox or the lint refuses, a credentialed url outside the hosts of its
\* credential, branches whose types do not merge, a fallback promised, rerank asked for.
Marks == {"slow", "greedy", "key", "writes", "unsafe", "unlintable", "exposed", "clash",
          "falls_back", "rerank"}

\* A node with nothing set.  in: the index of the node it is nested in, or 0; arm: the
\* field it is nested in there, "body" or the name of a parallel branch; next and rules: the
\* targets of a condition's branches and, by number, their conditions; uses: its dataset,
\* credential or tools; fields: those of its output schema, none when any field may be asked
\* of it; set: the optional settings that have a value of their own, by name; of them retry is
\* a record: max_attempts, backoff, with its default written out, and retry_on if it is there.
Unset == [name \in {} |-> None]
Bare(id, kind) ==
    [id |-> id, kind |-> kind, in |-> 0, arm |-> "body", next |-> <<>>, rules |-> <<>>, default |-> None,
     fallback |-> None, as |-> None, model |-> None, refs |-> <<>>, uses |-> {}, fields |-> {},
     marks |-> {}, set |-> Unset]

\* An edge.  Its condition is 0 for none, or its number in the order of their texts;
\* only the diff reads it.  `data` defaults to true.
Edge(from, to, data) == [from |-> from, to |-> to, data |-> data, when |-> 0]

\* The rest of a document: the declared inputs and outputs, what registry_ref lists and
\* whether its version is the one of the registry, the version of the IR, whether the JSON
\* Schema and the models accept the document, and the settings of its policy by name: a
\* number, 0 for one that is refused.
Document(nodes, edges) ==
    [nodes |-> nodes, edges |-> edges, inputs |-> {"query"}, outputs |-> {}, metadata |-> "m",
     datasets |-> {}, credentials |-> {}, tools |-> {}, pinned |-> TRUE, version |-> "0.4",
     schema |-> TRUE, policy |-> Unset]

\* The settings of f, and those of g that f does not have.
Over(f, g) == [name \in DOMAIN f \cup DOMAIN g |-> IF name \in DOMAIN f THEN f[name] ELSE g[name]]

\* What is a document: its fields, and its nodes and edges as lists.
IsDocument(d) ==
    /\ DOMAIN d = DOMAIN Document(<<>>, <<>>)
    /\ d.nodes \in Seq(ToSet(d.nodes)) /\ d.edges \in Seq(ToSet(d.edges))
    /\ \A n \in ToSet(d.nodes) : DOMAIN n = DOMAIN Bare(None, None)

\* _walk yields a node before the nodes nested in it, and its references are a list, each of
\* which names something.
IsNested(d) ==
    \A i \in DOMAIN d.nodes :
        LET n == d.nodes[i] IN
        /\ n.in \in 0 .. (i - 1)
        /\ n.refs \in Seq(ToSet(n.refs)) /\ \A r \in ToSet(n.refs) : r.to # None

\* The models accept what stands in the nodes: an edge is no more than its fields, a setting
\* is not called like a field that says what a node is, a budget is a number, and what is
\* nested in a body is in a loop, what is nested in a branch in a parallel node.
IsTyped(d) ==
    /\ \A e \in ToSet(d.edges) : e = [from |-> e.from, to |-> e.to, data |-> e.data, when |-> e.when]
    /\ d.policy = [name \in DOMAIN d.policy |-> d.policy[name]]
    /\ "agent_budget" \in DOMAIN d.policy => d.policy.agent_budget \in Int
    /\ \A i \in DOMAIN d.nodes :
           LET n == d.nodes[i] IN
           /\ DOMAIN n.set \cap {"type", "branches", "credential"} = {}
           /\ "budget" \in DOMAIN n.set => n.set.budget \in Int
           /\ n.in # 0 => d.nodes[n.in].kind = IF n.arm = "body" THEN "loop" ELSE "parallel"

\* No two nodes have one id.
Unique(d) == \A i, j \in DOMAIN d.nodes : d.nodes[i].id = d.nodes[j].id => i = j

TopAt(d) == {i \in DOMAIN d.nodes : d.nodes[i].in = 0}
TopIds(d) == {d.nodes[i].id : i \in TopAt(d)}
NodeIds(d) == {n.id : n \in ToSet(d.nodes)}

\* by_id: of two nodes with one id the later one.
At(d, id) == CHOOSE i \in DOMAIN d.nodes :
                 d.nodes[i].id = id /\ \A j \in DOMAIN d.nodes : d.nodes[j].id = id => j <= i
NodeOf(d, id) == d.nodes[At(d, id)]

\* The ways, and those that are one pair longer.
Further(ways, pairs) ==
    ways \cup {<<w[1][1], w[2][2]>> : w \in {v \in ways \X pairs : v[1][2] = v[2][1]}}

\* Which node leads to which, over a set of pairs; a longest way has no more steps than there are pairs.
LeadsTo(pairs) ==
    LET within[k \in 0 .. Cardinality(pairs)] == IF k = 0 THEN pairs ELSE Further(within[k - 1], pairs)
    IN  within[Cardinality(pairs)]

\* The control flow that a node itself declares, beside the edges of the document.
Targets(n) == (ToSet(n.next) \cup {n.default, n.fallback}) \ {None}
=============================================================================
