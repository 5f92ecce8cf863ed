------------------------------- MODULE AppLife -------------------------------
(* What the workspace may see of the apps that pushes create: each is created  *)
(* once, filled once, and what is published is what it was filled with.        *)
EXTENDS Naturals

CONSTANTS Apps, Nothing

VARIABLES stage, content

Same(a) == \A b \in Apps \ {a} : stage'[b] = stage[b] /\ content'[b] = content[b]

Init ==
    /\ stage = [a \in Apps |-> "absent"]
    /\ content = [a \in Apps |-> Nothing]

Create(a) ==
    /\ stage[a] = "absent" /\ stage'[a] = "created"
    /\ content'[a] = Nothing
    /\ Same(a)

\* The graph of a chatflow, or the configuration of an agent, is saved.
Fill(a) ==
    /\ stage[a] = "created" /\ stage'[a] \in {"drawn", "drafted"}
    /\ content'[a] # Nothing
    /\ Same(a)

Draft(a) ==
    /\ stage[a] = "drawn" /\ stage'[a] = "drafted"
    /\ content'[a] = content[a]
    /\ Same(a)

Publish(a) ==
    /\ stage[a] = "drafted" /\ stage'[a] = "published"
    /\ content'[a] = content[a]
    /\ Same(a)

Next == \E a \in Apps : Create(a) \/ Fill(a) \/ Draft(a) \/ Publish(a)
Spec == Init /\ [][Next]_<<stage, content>>
=============================================================================
