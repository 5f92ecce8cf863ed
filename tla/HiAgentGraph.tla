----------------------------- MODULE HiAgentGraph -----------------------------
(* What `loom hiagent push --mode chatflow` makes of a document before it calls   *)
(* the runtime: the nodes it emits, their layout, and the links and references of *)
(* the graph once the server has issued codes (hiagent/v2_6, hiagent_push.py).    *)
EXTENDS IRGraph

\* Only top-level nodes are emitted, in their order, each under a generated code, here its id.
Rank(S, i) == Cardinality({j \in S : j <= i})
Generated(d) == [k \in 1 .. Cardinality(TopAt(d)) |->
                    d.nodes[CHOOSE i \in TopAt(d) : Rank(TopAt(d), i) = k]]

\* The type of the API.  An HTTP node is created as a Tool, a parallel node as Code.
ApiType(n) ==
    [trigger |-> "Start", llm |-> "LLM", retrieval |-> "Knowledge", http |-> "Tool",
     code |-> "Code", condition |-> "Intent", loop |-> "Loop", parallel |-> "Code",
     agent |-> "LLM", output |-> "End"][n.kind]

\* Topological layout, in rounds: a round places the nodes all of whose parents were
\* placed before.  What the last round has is what Kahn's queue yields, of a document
\* without two nodes of one id.
Placed(d) ==
    LET placed[k \in 0 .. Len(d.nodes)] ==
            IF k = 0 THEN {}
            ELSE LET before == placed[k - 1]
                 IN  {x \in TopIds(d) : \A e \in ToSet(d.edges) : e.to = x => e.from \in before}
    IN  placed[Len(d.nodes)]

\* The references an emitted configuration carries to the server: the first one of a
\* prompt, however it stands there, and queries and bindings that are nothing else.
\* Those of code, agent, http and loop nodes are not sent.
Kept(n) ==
    LET prompted == {i \in DOMAIN n.refs : n.refs[i].field = "prompt" /\ n.refs[i].form # "broken"}
        exact(f) == {r \in ToSet(n.refs) : r.field = f /\ r.form = "exact"}
    IN  CASE n.kind = "llm" /\ prompted # {} -> {n.refs[Min(prompted)]}
          [] n.kind = "retrieval" -> exact("query")
          [] n.kind = "output" -> exact("bindings")
          [] n.kind = "condition" -> {Ref("when", "input", "query", "exact")}
          [] OTHER -> {}

\* An emitted reference: to the system's variables, to a generated code, or, when the
\* document has no such top-level node, to the empty code.
EmittedRefs(d, n) ==
    {[sys |-> r.to = "input",
      to |-> IF r.to # "input" /\ r.to \in TopIds(d) THEN r.to ELSE None,
      path |-> r.path] : r \in Kept(n)}

\* An End takes exact references to emitted nodes only; a text with a template left in
\* it, and a reference to the empty code, are refused.
EndRefused(d, n) ==
    /\ n.kind = "output"
    /\ \/ \E r \in ToSet(n.refs) : r.field = "bindings" /\ r.form # "exact"
       \/ \E r \in EmittedRefs(d, n) : ~r.sys /\ r.to = None

\* build_chatflow_config_draft, in its order: the layout, the lint of sources, the attachment
\* of the parents, the check of what was generated.  Each raises an error the command
\* reports, or a KeyError it does not catch: the layout when an edge leads from a node it has
\* placed to one that does not exist, the attachment when one starts at such a node.
Build(d) ==
    IF \E e \in ToSet(d.edges) : e.from \in Placed(d) /\ e.to \notin TopIds(d) THEN "crash"
    ELSE IF \/ Placed(d) # TopIds(d)
            \/ \E i \in TopAt(d) : d.nodes[i].kind = "code" /\ "unlintable" \in d.nodes[i].marks
    THEN "error"
    ELSE IF \E e \in ToSet(d.edges) : e.from \notin TopIds(d) THEN "crash"
    ELSE IF \E i \in TopAt(d) : EndRefused(d, d.nodes[i]) THEN "error"
    ELSE "built"

-----------------------------------------------------------------------------
(* The graph on the server.  made[k] is the code the k-th emitted node was given;  *)
(* types[c] is the type of the node with code c.                                    *)

CodeOf(d, made, id) == made[CHOOSE k \in DOMAIN made : Generated(d)[k].id = id]

\* _default_start_field: the Start node has three fields.
StartField(path) ==
    CASE path \in {"file", "files", "attachment", "attachments"} -> "files"
      [] path \in {"chat_history", "chat_histories", "conversation", "conversations",
                   "history", "histories"} -> "chat_histories"
      [] OTHER -> "query"

\* Mutant: a reference to the system stays one.
ServerRefUnnormalised(d, made, start, r) ==
    [to |-> IF r.to = None THEN None ELSE CodeOf(d, made, r.to), path |-> r.path]

\* References with the server's codes; those to the system become references to Start.
ServerRef(d, made, start, r) ==
    LET to == IF r.sys THEN start ELSE IF r.to = None THEN None ELSE CodeOf(d, made, r.to)
    IN  [to |-> to, path |-> IF to = start THEN StartField(r.path) ELSE r.path]

\* The server's nodes.  Where two emitted nodes share one, as Ends do, the later
\* configuration replaces the earlier.
ServerNodes(d, made, types) ==
    LET start == CHOOSE c \in ToSet(made) : types[c] = "Start"
        last(c) == CHOOSE k \in DOMAIN made :
                       made[k] = c /\ \A j \in DOMAIN made : made[j] = c => j <= k
    IN  {[code |-> c, type |-> types[c],
          of |-> {Generated(d)[k].id : k \in {j \in DOMAIN made : made[j] = c}},
          refs |-> {ServerRef(d, made, start, r) : r \in EmittedRefs(d, Generated(d)[last(c)])}]
            : c \in ToSet(made)}

\* A link for each edge, in the order of the nodes and of the edges into each.  A link
\* out of an Intent leaves by the next class when it enters a Code node, and by
\* class_other (0) when it does not.
Links(d, made, types) ==
    LET gen == Generated(d)
        pairs == {p \in (DOMAIN gen) \X (DOMAIN d.edges) : d.edges[p[2]].to = gen[p[1]].id}
        code(p) == types[made[p[1]]] = "Code"
        before(p, q) == \/ p[1] < q[1]
                        \/ p[1] = q[1] /\ p[2] < q[2]
        from(p) == CodeOf(d, made, d.edges[p[2]].from)
        class(p) == 1 + Cardinality({q \in pairs : before(q, p) /\ from(q) = from(p) /\ code(q)})
    IN  {[edge |-> p[2], from |-> from(p), to |-> made[p[1]],
          port |-> IF types[from(p)] # "Intent" THEN None ELSE IF code(p) THEN class(p) ELSE 0]
            : p \in pairs}

ServerGraph(d, made, types) ==
    [nodes |-> ServerNodes(d, made, types), links |-> Links(d, made, types)]

\* check_materialized_chatflow_nodes: what the materialised nodes must be before they
\* are saved.  `bound` are the datasets the binding resolves.
Materialised(d, made, types, bound) ==
    /\ \A type \in {"Start", "End"} : Cardinality({c \in ToSet(made) : types[c] = type}) = 1
    /\ \A i \in TopAt(d) : d.nodes[i].kind = "retrieval" => d.nodes[i].uses \subseteq bound
=============================================================================
