-------------------------------- MODULE IRDiff --------------------------------
(* The canonical form of a document (ir/canonicalize.py) and the list of changes *)
(* between two documents, each with a category and a risk (diff/ir_diff.py).     *)
(*                                                                               *)
(* What a change says is where it is and which fields it names; the values it    *)
(* shows, masked or shortened, and the order of the list are left out.  Nodes of *)
(* accepted documents have no name, so none is ever renamed.                     *)
EXTENDS IRGraph

-----------------------------------------------------------------------------
(* Defaults. *)

\* What model_dump writes of a node: a setting that has a default is written out.
Defaults(kind) == IF kind = "retrieval" THEN [top_k |-> 5] ELSE Unset
WithDefaults(n) == [n EXCEPT !.set = Over(@, Defaults(n.kind))]
Dumped(d) == [d EXCEPT !.nodes = [i \in DOMAIN @ |-> WithDefaults(@[i])]]

\* The canonical form strips a setting that equals its default.  Top-level nodes and
\* edges have no order here.
Stripped(n) ==
    LET default == Defaults(n.kind)
    IN  [n EXCEPT !.set = Restrict(@, {f \in DOMAIN @ : ~(f \in DOMAIN default /\ @[f] = default[f])})]
Canonical(d) == [d EXCEPT !.nodes = [i \in DOMAIN @ |-> Stripped(@[i])]]

-----------------------------------------------------------------------------
(* Where a node is: its id after the containers it is in, <<"loop", "body", "n">>. *)

Place(d) == LET place[i \in DOMAIN d.nodes] ==
                    LET n == d.nodes[i]
                    IN  IF n.in = 0 THEN <<n.id>> ELSE place[n.in] \o <<n.arm, n.id>>
            IN  place

\* The node at a place; of two with one id the later one.
NodeMap(d) == LET place == Place(d) IN
              [p \in Range(place) |-> CHOOSE i \in DOMAIN place :
                   place[i] = p /\ \A j \in DOMAIN place : place[j] = p => j <= i]

\* The fields of a node by name, without its id and the nodes in it.
MarkField == [slow |-> "timeout_s", greedy |-> "budget",
              key |-> "idempotency_key", writes |-> "method", unsafe |-> "source",
              unlintable |-> "source", exposed |-> "url", clash |-> "branch_types",
              falls_back |-> "on_budget_exhausted", rerank |-> "rerank"]
Handle == [retrieval |-> "dataset", http |-> "credential", agent |-> "tools"]

\* The references in a field, in the order they stand there.
RefsIn(n, f) == SelectSeq(n.refs, LAMBDA r : r.field = f)

\* What a node is beside its settings.
Structure(n) ==
    LET own == [type |-> n.kind, model |-> n.model, as |-> n.as, default |-> n.default,
                fallback_edge |-> n.fallback, output_schema |-> n.fields]
        branches == IF n.kind = "condition" THEN [branches |-> <<n.next, n.rules>>] ELSE Unset
        handle == IF n.kind \in DOMAIN Handle THEN [f \in {Handle[n.kind]} |-> n.uses] ELSE Unset
        texts == [f \in {r.field : r \in ToSet(n.refs)} |-> RefsIn(n, f)]
        marked == [f \in {MarkField[m] : m \in n.marks \cap DOMAIN MarkField}
                     |-> {m \in n.marks \cap DOMAIN MarkField : MarkField[m] = f}]
    IN  Over(own, Over(branches, Over(handle, Over(texts, marked))))
Fields(n) == Over(n.set, Structure(n))

\* The list of nodes a container has is compared node by node, unless its type is not
\* the one the node has now.
Lists == [loop |-> "body", parallel |-> "branches"]
ConfigView(n, type) ==
    Over(Fields(n), IF n.kind \in DOMAIN Lists /\ n.kind # type
                    THEN [list \in {Lists[n.kind]} |-> "nodes"] ELSE Unset)

\* The fields that differ; one that is absent differs from every value.
Differing(f, g) ==
    {p \in DOMAIN f \cup DOMAIN g : ~(p \in DOMAIN f /\ p \in DOMAIN g /\ f[p] = g[p])}

\* _budget_widened: a limit that both sides have is higher now.
Widened(f, g, field) == field \in DOMAIN f /\ field \in DOMAIN g /\ f[field] < g[field]

-----------------------------------------------------------------------------
(* Category and risk. *)

\* Mutant: tools are looked at before the budget.
ToolsFirst(type, fields, widened) ==
    IF "type" \in fields THEN <<"control", "high">>
    ELSE IF type = "http" /\ "credential" \in fields THEN <<"credential", "high">>
    ELSE IF type = "condition" /\ "branches" \in fields THEN <<"control", "high">>
    ELSE IF type = "agent" /\ "tools" \in fields THEN <<"registry", "low">>
    ELSE IF type = "agent" /\ "budget" \in fields
         THEN <<"policy", IF widened THEN "high" ELSE "low">>
    ELSE <<"config", "low">>

ClassifyNode(type, fields, widened) ==
    IF "type" \in fields THEN <<"control", "high">>
    ELSE IF type = "http" /\ "credential" \in fields THEN <<"credential", "high">>
    ELSE IF type = "condition" /\ "branches" \in fields THEN <<"control", "high">>
    ELSE IF type = "agent" /\ "budget" \in fields
         THEN <<"policy", IF widened THEN "high" ELSE "low">>
    ELSE IF type = "agent" /\ "tools" \in fields THEN <<"registry", "low">>
    ELSE <<"config", "low">>

ClassifyGovernance(key, fields, widened) ==
    CASE key = "registry_ref" -> IF "credentials" \in fields THEN <<"credential", "high">>
                                 ELSE <<"registry", "low">>
      [] key = "policy" -> IF fields \cap {"guardrails", "audit", "escalation"} # {}
                           THEN <<"compliance", "high">>
                           ELSE <<"policy", IF widened THEN "high" ELSE "low">>
      [] key \in {"inputs", "outputs"} -> <<"schema", "high">>
      [] key = "metadata" -> <<"identity", "low">>

-----------------------------------------------------------------------------
(* Changes. *)

Change(scope, kind, at, fields, class) ==
    [scope |-> scope, kind |-> kind, at |-> at, fields |-> fields,
     category |-> class[1], risk |-> class[2]]
Unclassified == <<None, None>>

\* The places a comparison comes to: those all of whose containers both documents have,
\* and whose nodes are compared by the type each container has now.
Compared(old, new, b, a) ==
    {p \in DOMAIN old \cup DOMAIN new :
        \A k \in 1 .. Len(p) : 2 * k < Len(p) =>
            LET c == SubSeq(p, 1, 2 * k - 1)
                arm == p[2 * k]
            IN  /\ c \in DOMAIN old \cap DOMAIN new
                /\ a.nodes[new[c]].kind = IF arm = "body" THEN "loop" ELSE "parallel"}

ConfigChange(b, a, old, new, p) ==
    LET type == a.nodes[new[p]].kind
        f == ConfigView(b.nodes[old[p]], type)
        g == ConfigView(a.nodes[new[p]], type)
    IN  IF Differing(f, g) = {} THEN {}
        ELSE {Change("node", "config-changed", p, Differing(f, g),
                     ClassifyNode(type, Differing(f, g), Widened(f, g, "budget")))}

NodeChanges(b, a) ==
    LET old == NodeMap(b)
        new == NodeMap(a)
        compared == Compared(old, new, b, a)
    IN  {Change("node", "removed", p, {}, Unclassified) : p \in compared \ DOMAIN new}
        \cup {Change("node", "added", p, {}, Unclassified) : p \in compared \ DOMAIN old}
        \cup (UNION {ConfigChange(b, a, old, new, p) : p \in compared \cap DOMAIN old \cap DOMAIN new})

\* The rest of a document by key, and the fields of each.
Governance(d) ==
    [metadata |-> [name |-> d.metadata],
     registry_ref |-> [registry_version |-> d.pinned, tools |-> d.tools,
                       datasets |-> d.datasets, credentials |-> d.credentials],
     policy |-> d.policy,
     inputs |-> [port \in d.inputs |-> TRUE],
     outputs |-> [port \in d.outputs |-> TRUE]]

GovernanceChanges(b, a) ==
    UNION {LET f == Governance(b)[key]
               g == Governance(a)[key]
           IN  IF Differing(f, g) = {} THEN {}
               ELSE {Change("governance", "changed", <<key>>, Differing(f, g),
                            ClassifyGovernance(key, Differing(f, g), Widened(f, g, "agent_budget")))}
             : key \in DOMAIN Governance(b)}

\* An edge is known by its ends; of several with the same ends the last one counts, in
\* the order of their conditions and then of their data.
Ends(d) == {<<e.from, e.to>> : e \in ToSet(d.edges)}
EdgeAt(d, ends) ==
    LET between == {e \in ToSet(d.edges) : <<e.from, e.to>> = ends}
    IN  CHOOSE e \in between : \A f \in between :
            f.when < e.when \/ (f.when = e.when /\ (f.data => e.data))

EdgeChanges(b, a) ==
    LET differing(x) == {f \in {"when", "data"} : EdgeAt(b, x)[f] # EdgeAt(a, x)[f]}
    IN  {Change("edge", "removed", x, {}, Unclassified) : x \in Ends(b) \ Ends(a)}
        \cup {Change("edge", "added", x, {}, Unclassified) : x \in Ends(a) \ Ends(b)}
        \cup {Change("edge", "changed", x, differing(x), <<"control", "high">>)
                : x \in {y \in Ends(b) \cap Ends(a) : differing(y) # {}}}

Diff(before, after) ==
    LET b == Canonical(before)
        a == Canonical(after)
    IN  GovernanceChanges(b, a) \cup NodeChanges(b, a) \cup EdgeChanges(b, a)

HardBlocks(changes) == {c \in changes : c.risk = "high"}

-----------------------------------------------------------------------------
(* What a reviewer relies on: that nothing of consequence is missing from the list. *)

\* Two edges with the same ends, of which the diff shows one.
Doubled(d) == Cardinality(ToSet(d.edges)) # Cardinality(Ends(d))

\* What each place of a document says.
Named(d) == [p \in DOMAIN NodeMap(d) |-> Fields(d.nodes[NodeMap(d)[p]])]

\* Where two documents differ, in whatever order nodes and edges are listed: the places at
\* which only one has a node or their nodes say something else, the ends of an edge that
\* only one has, and what of the rest is not the same.
Differences(before, after) ==
    LET b == Canonical(before)
        a == Canonical(after)
        edges == (ToSet(b.edges) \ ToSet(a.edges)) \cup (ToSet(a.edges) \ ToSet(b.edges))
    IN  {<<"node", p>> : p \in Differing(Named(b), Named(a))}
        \cup {<<"edge", <<e.from, e.to>>>> : e \in edges}
        \cup {<<"governance", <<key>>>> : key \in Differing(Governance(b), Governance(a))}

\* A difference is told where it is, or at a container that it is in.
Told(changes, x) == \E c \in changes : c.scope = x[1] /\ IsPrefix(c.at, x[2])

\* Nodes of one body or branch run in the order they are listed in (canonicalize.py:7-9).
SameOrder(b, a) ==
    LET old == NodeMap(b)
        new == NodeMap(a)
    IN  \A p, q \in DOMAIN old \cap DOMAIN new :
            Len(p) > 1 /\ Front(p) = Front(q) => (old[p] < old[q] <=> new[p] < new[q])

\* Two documents that say the same.
SameMeaning(b, a) == Differences(b, a) = {} /\ SameOrder(b, a) /\ b.version = a.version

\* What of a node that is in both documents may change who may do what, or what runs when.
Grave(m, n) ==
    \/ m.kind # n.kind
    \/ n.kind = "http" /\ m.uses # n.uses
    \/ n.kind = "condition" /\ <<m.next, m.rules>> # <<n.next, n.rules>>
    \/ n.kind = "agent" /\ Widened(m.set, n.set, "budget")

\* The changes that are to be a hard block: those of a node that is grave, of the condition
\* or the data of an edge, of credentials, guards and limits, and of inputs and outputs.
\* Nodes and edges that are new or gone and the default of a condition are not among them:
\* they are told, but with no risk or a low one (ir_diff.py:70-73, 176-188, 300-303).
Consequences(b, a) ==
    LET old == NodeMap(b)
        new == NodeMap(a)
        guards == {"guardrails", "audit", "escalation"}
        flows == {f \in ToSet(b.edges) : \E g \in ToSet(a.edges) :
                     g.from = f.from /\ g.to = f.to /\ <<g.when, g.data>> # <<f.when, f.data>>}
        keys == (IF b.credentials # a.credentials THEN {"registry_ref"} ELSE {})
                \cup (IF \/ Differing(b.policy, a.policy) \cap guards # {}
                         \/ Widened(b.policy, a.policy, "agent_budget")
                      THEN {"policy"} ELSE {})
                \cup (IF b.inputs # a.inputs THEN {"inputs"} ELSE {})
                \cup (IF b.outputs # a.outputs THEN {"outputs"} ELSE {})
    IN  {<<"node", p>> : p \in {q \in DOMAIN old \cap DOMAIN new :
                                   Grave(b.nodes[old[q]], a.nodes[new[q]])}}
        \cup {<<"edge", <<e.from, e.to>>>> : e \in flows}
        \cup {<<"governance", <<key>>>> : key \in keys}
=============================================================================
