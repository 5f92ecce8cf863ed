--------------------------------- MODULE Edits ---------------------------------
(* A session that has a workflow: messages that edit it, by a constrained patch or *)
(* by the planner under a contract (fde_session/edit_intent.py, routes/sessions.py), *)
(* what is archived of an edit, and what the diff route tells of two turns.          *)
(*                                                                                 *)
(* Turns are handled one after the other here; how they race is in SessionTurns.   *)
EXTENDS Validator, IRDiff

CONSTANTS
    LowerCase,   \* node ids with capitals and the same ids without
    Room,        \* how often a disclaimer fits into a rationale (500 characters)
    MaxTurns     \* bound: turns of a session

ASSUME BoundsAssumption == Room \in Nat /\ MaxTurns \in Nat

VARIABLES
    asks,      \* what may be asked: messages, and drafts that a confirmed brief is planned to
    session    \* its IR, and its turns with the snapshots they keep

editVars == <<asks, session>>

EditsInit(asked, ir) ==
    /\ asks = asked
    /\ session = [ir |-> ir, turns |-> <<>>]

Lower(id) == IF id \in DOMAIN LowerCase THEN LowerCase[id] ELSE id

-----------------------------------------------------------------------------
(* What a message asks for.  A message is a record: of each kind of edit that its *)
(* words can be read as, the node named and the value.                            *)

Intent(kind, node, value) == [kind |-> kind, node |-> node, value |-> value]

\* Which reading is tried first; "trigger" and a mode anywhere are enough for the first.
Order == <<"trigger", "disclaimer", "top_k", "retry", "review", "temperature">>

\* The bounds of the intent models.
InBounds(kind, value) ==
    CASE kind = "top_k" -> value \in 1 .. 100
      [] kind = "retry" -> value.max_attempts \in 1 .. 10
      [] kind = "temperature" -> value \in 0 .. 2
      [] OTHER -> TRUE

\* The text is read in lower case, but for a disclaimer.
Parse(m) ==
    LET readings == {i \in DOMAIN Order : Order[i] \in DOMAIN m}
    IN  IF readings = {} THEN Intent("unrecognized", None, None)
        ELSE LET k == Order[Min(readings)]
                 id == IF k = "disclaimer" THEN m[k].node ELSE Lower(m[k].node)
             IN  Intent(IF InBounds(k, m[k].value) THEN k ELSE "invalid", id, m[k].value)

-----------------------------------------------------------------------------
(* The constrained patches. *)

\* The node meant: the one of that id, which must be of the type, or else the only one of
\* the type.  Nodes inside loops and branches are not looked at.
Wanted == [trigger |-> {"trigger"}, top_k |-> {"retrieval"}, temperature |-> {"llm"},
           retry |-> {}, disclaimer |-> {}]

\* Mutant: of several nodes of the type the first is taken.
ResolveFirst(d, e) ==
    LET exact == {i \in TopAt(d) : d.nodes[i].id = e.node}
        alike == {i \in TopAt(d) : d.nodes[i].kind \in Wanted[e.kind]}
    IN  IF exact # {} THEN {i \in exact : Wanted[e.kind] = {} \/ i \in alike}
        ELSE {i \in alike : \A j \in alike : i <= j}

ResolveNode(d, e) ==
    LET exact == {i \in TopAt(d) : d.nodes[i].id = e.node}
        alike == {i \in TopAt(d) : d.nodes[i].kind \in Wanted[e.kind]}
    IN  IF exact # {} THEN {i \in exact : Wanted[e.kind] = {} \/ i \in alike}
        ELSE IF Cardinality(alike) = 1 THEN alike ELSE {}

\* The disclaimers in a rationale, one after the other.
Disclaimers(n) == IF "rationale" \in DOMAIN n.set THEN n.set.rationale ELSE <<>>

\* The value of a retry is what its message says: max_attempts and retry_on.
AsRetry(value) ==
    [max_attempts |-> value.max_attempts, backoff |-> "exponential", retry_on |-> value.retry_on]

Patched(n, e) ==
    CASE e.kind = "trigger" -> [n EXCEPT !.set = Over([mode |-> e.value],
                                                      Restrict(@, DOMAIN @ \ {"schedule", "webhook"}))]
      [] e.kind = "top_k" -> [n EXCEPT !.set = Over([top_k |-> e.value], @)]
      [] e.kind = "temperature" -> [n EXCEPT !.set = Over([temperature |-> e.value], @)]
      [] e.kind = "disclaimer" -> [n EXCEPT !.set = Over([rationale |-> Append(Disclaimers(n), e.value)], @)]
      [] e.kind = "retry" -> [n EXCEPT !.set = Over([retry |-> AsRetry(e.value)], @)]

\* What may differ afterwards, of the node that was resolved.
Purpose == [trigger |-> {"mode", "schedule", "webhook"}, top_k |-> {"top_k"}, retry |-> {"retry"},
            temperature |-> {"temperature"}, disclaimer |-> {"rationale"}]
AllowedPaths(kind, id) == {<<"nodes", id, f>> : f \in Purpose[kind]}

\* The paths in a field f that differs: of a retry that is there before and after, those
\* of its own fields.
FieldPaths(x, f, m, n) ==
    IF f = "retry" /\ f \in DOMAIN m.set \cap DOMAIN n.set
    THEN {Append(Append(x, f), g) : g \in Differing(m.set[f], n.set[f])}
    ELSE {Append(x, f)}

\* _changed_ir_paths: nodes by their id and field, the list of the nodes inside a node as
\* one field, everything else as a whole.
Inside(d, id) == Restrict(d.nodes, {j \in DOMAIN d.nodes : id \in ToSet(Front(Place(d)[j]))})
ChangedPaths(b, a) ==
    LET old == {<<"nodes", n.id>> : n \in {b.nodes[i] : i \in TopAt(b)}}
        new == {<<"nodes", n.id>> : n \in {a.nodes[i] : i \in TopAt(a)}}
    IN  (old \ new) \cup (new \ old)
        \cup (UNION {LET m == NodeOf(b, x[2])
                         n == NodeOf(a, x[2])
                     IN  UNION {FieldPaths(x, f, m, n) : f \in Differing(Fields(m), Fields(n))}
                       : x \in old \cap new})
        \cup {Append(x, "inside") : x \in {y \in old \cap new : Inside(b, y[2]) # Inside(a, y[2])}}
        \cup {<<key>> : key \in {k \in DOMAIN Governance(b) : Governance(b)[k] # Governance(a)[k]}}
        \cup (IF b.edges # a.edges THEN {<<"edges">>} ELSE {})
        \cup (IF b.version # a.version THEN {<<"ir_version">>} ELSE {})

\* The patched document, or nothing when the edit is rejected.
DeterministicEdit(d, e) ==
    LET found == ResolveNode(d, e)
        i == CHOOSE j \in found : TRUE
        patched == [d EXCEPT !.nodes[i] = Patched(d.nodes[i], e)]
    IN  IF \/ found = {}
           \/ e.kind = "retry" /\ d.nodes[i].kind \notin {"llm", "retrieval", "http", "code"}
           \/ ~(ChangedPaths(d, patched) \subseteq AllowedPaths(e.kind, d.nodes[i].id))
           \/ Len(Disclaimers(patched.nodes[i])) > Room
        THEN <<>> ELSE <<patched>>

-----------------------------------------------------------------------------
(* The gate: the planner edits, and its result is held against a contract. *)

GateId(id) == "manual_review_after_" \o id
GateNode(e) == [Bare(GateId(e.node), "code") EXCEPT !.set = [reviewer |-> e.value]]

\* Where the edges out of a node are listed, and one of them.
Outgoing(d, id) == {j \in DOMAIN d.edges : d.edges[j].from = id}
Original(d, id) == d.edges[CHOOSE j \in Outgoing(d, id) : TRUE]

\* The edge is replaced by one into the gate and one out of it.
Rewired(d, e) ==
    LET original == Original(d, e.node)
    IN  RemoveAt(d.edges, CHOOSE j \in Outgoing(d, e.node) : TRUE)
        \o <<Edge(e.node, GateId(e.node), original.data), Edge(GateId(e.node), original.to, original.data)>>

\* Two lists with the same members, as often.
SameList(s, t) ==
    LET often(u, x) == Cardinality({i \in DOMAIN u : u[i] = x})
    IN  \A x \in ToSet(s) \cup ToSet(t) : often(s, x) = often(t, x)

TopNodes(d) == {d.nodes[i] : i \in TopAt(d)}

\* Mutant: the edges of the result are not looked at.
InScopeByNodes(b, a, e) ==
    /\ Governance(b) = Governance(a) /\ b.version = a.version
    /\ \A n \in TopNodes(b) : Inside(a, n.id) = Inside(b, n.id)
    /\ TopNodes(a) = TopNodes(b) \cup {GateNode(e)}
    /\ e.node \in TopIds(b) /\ GateId(e.node) \notin TopIds(b)
    /\ Cardinality(Outgoing(b, e.node)) = 1 /\ Original(b, e.node).when = 0

\* _enforce_manual_review_scope: the nodes of before, unchanged, and the gate; the edge
\* out of the node, the only one and unconditional, now leads through it.
InManualReviewScope(b, a, e) ==
    /\ Governance(b) = Governance(a) /\ b.version = a.version
    /\ \A n \in TopNodes(b) : Inside(a, n.id) = Inside(b, n.id)
    /\ TopNodes(a) = TopNodes(b) \cup {GateNode(e)}
    /\ e.node \in TopIds(b) /\ GateId(e.node) \notin TopIds(b)
    /\ Cardinality(Outgoing(b, e.node)) = 1 /\ Original(b, e.node).when = 0
    /\ SameList(a.edges, Rewired(b, e))

\* What the planner may make of the request: what is asked, or something beside it.
GateReplies(d, e) ==
    LET gated == [d EXCEPT !.nodes = Append(@, GateNode(e))]
        flip(x) == [x EXCEPT !.data = ~@]
    IN  {d, gated, [gated EXCEPT !.edges = Append(@, Edge(e.node, GateId(e.node), TRUE))]}
        \cup (IF Outgoing(d, e.node) = {} THEN {}
              ELSE LET asked == [gated EXCEPT !.edges = Rewired(d, e)]
                   IN  {asked, [asked EXCEPT !.edges[1] = flip(@)], [asked EXCEPT !.metadata = "changed"],
                        [asked EXCEPT !.edges = Append(@, Original(d, e.node))],
                        [asked EXCEPT !.nodes[Len(d.nodes) + 1].set.reviewer = "nobody"],
                        [asked EXCEPT !.nodes[1].set = Over([mode |-> "webhook"], @)]})

-----------------------------------------------------------------------------
(* Turns. *)

Accepted == {"planned", "edited", "gated"}
EndTurn(m, outcome, after, expected) ==
    session' = [ir |-> IF outcome \in Accepted THEN after ELSE session.ir,
                turns |-> Append(session.turns, [asked |-> m, outcome |-> outcome, before |-> session.ir,
                                                 after |-> after, expected |-> expected])]

MayTurn == Len(session.turns) < MaxTurns /\ UNCHANGED <<asks, file>>

\* A confirmed brief is planned: whatever was there is replaced.
PlanTurn ==
    /\ MayTurn
    /\ \E d \in asks.drafts :
           IF Validate(d) = {} THEN EndTurn(<<>>, "planned", Dumped(d), {})
           ELSE EndTurn(<<>>, "failed", None, {})

\* The IR is read into its models, which write the defaults out; the message is parsed.
Current == Dumped(session.ir)

EditTurn ==
    /\ MayTurn /\ session.ir # None
    /\ \E m \in asks.messages :
           LET e == Parse(m) IN
           /\ e.kind \notin {"review", "invalid"}
           /\ LET edited == IF e.kind = "unrecognized" THEN <<>> ELSE DeterministicEdit(Current, e)
              IN  IF edited = <<>> THEN EndTurn(m, "rejected", None, {})
                  ELSE IF Validate(edited[1]) # {} THEN EndTurn(m, "failed", None, {})
                  ELSE EndTurn(m, "edited", edited[1], Diff(Current, edited[1]))

GateTurn ==
    /\ MayTurn /\ session.ir # None
    /\ \E m \in asks.messages :
           LET e == Parse(m) IN
           /\ e.kind = "review"
           /\ \E reply \in GateReplies(Current, e) :
                  IF ~InManualReviewScope(Current, reply, e) THEN EndTurn(m, "rejected", None, {})
                  ELSE IF Validate(reply) # {} THEN EndTurn(m, "failed", None, {})
                  ELSE EndTurn(m, "gated", reply, {})

\* A value out of bounds, or a planner that raises.
FailTurn ==
    /\ MayTurn /\ session.ir # None
    /\ \E m \in asks.messages : /\ Parse(m).kind \in {"review", "invalid"}
                                /\ EndTurn(m, "failed", None, {})

\* GET /ir, saved to a file.
Export ==
    /\ session.ir # None /\ file # session.ir
    /\ file' = session.ir
    /\ UNCHANGED editVars

EditStep == PlanTurn \/ EditTurn \/ GateTurn \/ FailTurn \/ Export

-----------------------------------------------------------------------------
(* Properties. *)

Snapshot(turn) == IF turn.after # None THEN turn.after ELSE turn.before
Snapshots == {Snapshot(session.turns[k]) : k \in DOMAIN session.turns} \ {None}

\* What an edit makes of the node m: n has the value that was asked for.
IsDone(e, m, n) ==
    /\ e.kind \in {"top_k", "temperature"} => n.set[e.kind] = e.value
    /\ e.kind = "trigger" => n.set.mode = e.value /\ DOMAIN n.set \cap {"schedule", "webhook"} = {}
    /\ e.kind = "disclaimer" => n.set.rationale = Append(Disclaimers(m), e.value)
    /\ e.kind = "retry" =>
           /\ n.set.retry = AsRetry(e.value)
           /\ "retry" \in DOMAIN m.set => Differing(m.set.retry, n.set.retry) = {}

\* An accepted edit does the first thing its message can be read as and nothing else: it
\* changes the top-level node of the id it was read with, or with no such node the only one
\* of the type, in the fields the edit is for, to the value asked, except that a retry that
\* is there already is never changed; and the diff that is archived names that change, which
\* is never a high risk, and no other, and is empty only when nothing changed
\* (sessions.py:1048-1165, ir_diff.py:32-60).
EditDoesWhatItSays ==
    \A k \in DOMAIN session.turns :
        LET t == session.turns[k]
            b == Dumped(t.before)
            e == Parse(t.asked)
            named == {i \in TopAt(b) : b.nodes[i].id = e.node}
            changed == {i \in DOMAIN b.nodes : t.after.nodes[i] # b.nodes[i]}
        IN  t.outcome = "edited" =>
            /\ [t.after EXCEPT !.nodes = b.nodes] = b /\ DOMAIN t.after.nodes = DOMAIN b.nodes
            /\ Cardinality(changed) <= 1
            /\ named # {} => changed \subseteq named
            /\ \A i \in changed :
                   LET m == b.nodes[i]
                       n == t.after.nodes[i]
                   IN  /\ named = {} => \A j \in TopAt(b) : b.nodes[j].kind = n.kind => j = i
                       /\ Differing(Fields(m), Fields(n)) \subseteq Purpose[e.kind]
                       /\ IsDone(e, m, n)
                       /\ \A c \in t.expected : c.at = <<n.id>>
            /\ HardBlocks(t.expected) = {}
            /\ t.expected = {} <=> SameMeaning(b, t.after)

\* A review that was accepted stays on the way until the workflow is planned anew: through
\* whatever is edited or gated later, every edge out of the node leads to its gate, which
\* is as it was asked for and leads to where the node led (sessions.py:1187-1245).
GateStays ==
    \A k \in DOMAIN session.turns :
        LET t == session.turns[k]
            e == Parse(t.asked)
            gate == GateId(e.node)
            leads == LeadsTo({<<x.from, x.to>> : x \in ToSet(session.ir.edges)})
        IN  /\ t.outcome = "gated"
            /\ \A j \in k .. Len(session.turns) : session.turns[j].outcome # "planned"
            => /\ NodeOf(session.ir, gate).set.reviewer = e.value
               /\ \A x \in ToSet(session.ir.edges) : x.from = e.node => x.to = gate
               /\ <<gate, Original(t.before, e.node).to>> \in leads

\* Between any two snapshots of a session the diff route tells of no change that is not one
\* and of every change where it is or at a container it is in, and everything that may
\* change who may do what, or what runs when, is among its hard blocks, whatever else
\* changed with it (ir_diff.py:1-12); but for what it does not compare: the order of the
\* nodes in one body or branch and the version of the IR (SameMeaning), edges with the same
\* ends, of which it shows one, and nodes and edges that are new or gone, which it tells
\* without a risk.
ChangesSurface ==
    \A b, a \in Snapshots :
        LET changes == Diff(b, a)
            places(cs) == {<<c.scope, c.at>> : c \in cs}
        IN  ~Doubled(b) /\ ~Doubled(a) =>
            /\ places(changes) \subseteq Differences(b, a)
            /\ \A x \in Differences(b, a) : Told(changes, x)
            /\ Consequences(b, a) \subseteq places(HardBlocks(changes))
=============================================================================
