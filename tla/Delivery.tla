------------------------------- MODULE Delivery -------------------------------
(* From an intent to a published app: `loom plan` writes an IR file, a session     *)
(* edits its IR and hands it out as a file, and `loom hiagent push`, which does not *)
(* validate, takes such a file or one written by hand.                              *)
EXTENDS Planner, Edits, HiAgentPush

CONSTANT
    Scenarios   \* records: what the model may answer, a file written by hand, a session's IR
                \* and what is asked of it, and a setting of the push

\* What is read as a document is one (ir/models.py), and a session keeps what was accepted.
ASSUME ScenariosAssumption ==
    \A s \in Scenarios :
        /\ \A d \in (s.menu \ {NotJson, NoObject}) \cup s.asks.drafts \cup ({s.file, s.ir} \ {None}) :
               IsDocument(d) /\ IsNested(d) /\ IsTyped(d)
        /\ s.ir # None => Validate(s.ir) = {}
        /\ s.setting \in Settings

vars == <<file, menu, plan, talk, asks, session, setting, push, apps, faults, overlapped>>

Init == \E s \in Scenarios : /\ PlannerInit({s.menu})
                             /\ file = s.file
                             /\ EditsInit(s.asks, s.ir)
                             /\ PushInit /\ setting = s.setting

Plan == PlannerStep /\ UNCHANGED <<editVars, pushVars>>
Edit == EditStep /\ UNCHANGED <<plannerVars, pushVars>>
Push == PushStep /\ UNCHANGED <<plannerVars, editVars>>
Next == Plan \/ Edit \/ Push

Spec == Init /\ [][Next]_vars

-----------------------------------------------------------------------------
(* Properties. *)

\* What the validator accepts can be laid out: its edges alone, without the branches,
\* defaults and fallbacks that the validator counts as edges too, have no cycle and no
\* unknown end (layout.py:41-60), so a push of it may fail over a text or a source, but the
\* graph is neither refused nor a KeyError (layout.py:53-60, compiler.py:257-258).
AcceptedIsDrawable ==
    plan.ir # None => Placed(plan.ir) = TopIds(plan.ir) /\ Build(plan.ir) # "crash"

\* The saved graph of a document without two nodes of one id is its image: every node has
\* one server node of its type, every edge one link between the nodes of its ends, and
\* where the document was accepted, declares no control flow beside its edges and escapes
\* no reference, every reference names a node of the graph from which links lead to the
\* reader (hiagent_push.py:168-232).
GraphIsTheDocument ==
    \A p \in Pushers : apps[p].graph # <<>> /\ Unique(push[p].doc) =>
        LET d == push[p].doc
            g == apps[p].graph[1]
            codes == {n.code : n \in g.nodes}
            leads == LeadsTo({<<l.from, l.to>> : l \in g.links})
            imageOf(id) == {n \in g.nodes : id \in n.of}
        IN  /\ \A i \in TopAt(d) : \E n \in g.nodes :
                   imageOf(d.nodes[i].id) = {n} /\ n.type = ApiType(d.nodes[i])
            /\ \A j \in DOMAIN d.edges : \E l \in g.links :
                   /\ {m \in g.links : m.edge = j} = {l}
                   /\ \E n \in imageOf(d.edges[j].from) : n.code = l.from
                   /\ \E n \in imageOf(d.edges[j].to) : n.code = l.to
            /\ (/\ Validate(d) = {}
                /\ \A n \in ToSet(d.nodes) :
                       Targets(n) = {} /\ \A r \in ToSet(n.refs) : r.form # "escaped")
               => \A n \in g.nodes : \A r \in n.refs : r.to \in codes /\ <<r.to, n.code>> \in leads
=============================================================================
