------------------------------ MODULE HiAgentPush ------------------------------
(* `loom hiagent push` (cli/commands/hiagent_push.py): one remote call after the  *)
(* other, each of which may be refused, or be carried out and its answer lost.    *)
(* Several pushes of one name may run, one after the other or at the same time.   *)
(* The server is external: it does what the client asks.                          *)
EXTENDS HiAgentGraph

CONSTANTS
    Pushers,     \* the runs of the command, all for one app name
    Settings,    \* the runs made, the mode, the binding, and what the workspace offers
    MaxFaults    \* bound: calls that fail and commands that are killed

ASSUME FaultsAssumption == MaxFaults \in Nat

VARIABLES
    setting,      \* one of Settings
    push,         \* one run of the command each: where it is, and what it holds
    apps,         \* the app a run has created on the server; a save is a sequence of one
    faults,
    overlapped    \* history: two runs were under way at once

pushVars == <<setting, push, apps, faults, overlapped>>

Ended == {"exit_0", "exit_2", "traceback", "killed"}
Active(p) == push[p].at \notin Ended \cup {"idle"}

NoApp == [exists |-> FALSE, types |-> <<>>, graph |-> <<>>, draft |-> <<>>, published |-> <<>>]
NoPush == [at |-> "idle", doc |-> None, made |-> <<>>, defaults |-> 0, bound |-> {},
           config |-> None, lost |-> None]

PushInit ==
    /\ setting \in Settings
    /\ push = [p \in Pushers |-> NoPush]
    /\ apps = [p \in Pushers |-> NoApp]
    /\ faults = 0
    /\ overlapped = FALSE

-----------------------------------------------------------------------------
(* A remote call.  `q` is the command after its answer, `app` the app after the  *)
(* call was carried out; every error ends the command with exit code 2.          *)

Answered(p, q, app) ==
    /\ push' = [push EXCEPT ![p] = q]
    /\ apps' = [apps EXCEPT ![p] = app]
    /\ faults' = faults

Refused(p) ==
    /\ faults < MaxFaults /\ faults' = faults + 1
    /\ push' = [push EXCEPT ![p].at = "exit_2"]
    /\ apps' = apps

AnswerLost(p, app) ==
    /\ faults < MaxFaults /\ faults' = faults + 1
    /\ push' = [push EXCEPT ![p].at = "exit_2", ![p].lost = push[p].at]
    /\ apps' = [apps EXCEPT ![p] = app]

Call(p, q, app) == Answered(p, q, app) \/ Refused(p) \/ AnswerLost(p, app)

\* A call that only reads, and a step that makes none.
Ask(p, q) == Answered(p, q, apps[p]) \/ Refused(p)
Alone(p, q) == Answered(p, q, apps[p])

To(p, at) == [push[p] EXCEPT !.at = at]

-----------------------------------------------------------------------------
\* The file, the binding and the environment are read; a file the models refuse ends it.
Start(p) ==
    /\ push[p].at = "idle" /\ p \in setting.pushers /\ file # None
    /\ Alone(p, [push[p] EXCEPT !.at = IF file.schema THEN "check" ELSE "exit_2", !.doc = file,
                                !.bound = setting.datasets])
    /\ overlapped' = (overlapped \/ (file.schema /\ \E q \in Pushers : Active(q)))

\* Mutant: only a published app counts as one of the name.
CheckPublished(p) ==
    /\ push[p].at = "check"
    /\ Ask(p, To(p, IF \E q \in Pushers : apps[q].published # <<>> THEN "exit_2" ELSE "create"))
    /\ UNCHANGED overlapped

CheckName(p) ==
    /\ push[p].at = "check"
    /\ Ask(p, To(p, IF \E q \in Pushers : apps[q].exists THEN "exit_2" ELSE "create"))
    /\ UNCHANGED overlapped

\* A new chatflow has its Start and its End.
CreateApp(p) ==
    /\ push[p].at = "create"
    /\ Call(p, To(p, "models"),
            [NoApp EXCEPT !.exists = TRUE,
                          !.types = IF setting.mode = "chatflow" THEN <<"Start", "End">> ELSE <<>>])
    /\ UNCHANGED overlapped

\* Models that the binding lacks get the default of the workspace.  With none missing
\* the function returns, before it has looked at the datasets.
MissingModels(p) ==
    {push[p].doc.nodes[i].model : i \in TopAt(push[p].doc)} \ (setting.models \cup {None})
BindModels(p) ==
    /\ push[p].at = "models"
    /\ IF MissingModels(p) = {} THEN Alone(p, To(p, "build"))
       ELSE Ask(p, To(p, IF setting.hasModel THEN "datasets" ELSE "exit_2"))
    /\ UNCHANGED overlapped

BindDatasets(p) ==
    /\ push[p].at = "datasets"
    /\ IF push[p].doc.datasets \subseteq push[p].bound THEN Alone(p, To(p, "build"))
       ELSE Ask(p, IF setting.hasDataset
                   THEN [To(p, "build") EXCEPT !.bound = @ \cup push[p].doc.datasets]
                   ELSE To(p, "exit_2"))
    /\ UNCHANGED overlapped

\* The configuration is built in memory.  An agent is all there is to save; an exception
\* that is no ValueError is not caught.
Compile(p) ==
    /\ push[p].at = "build"
    /\ Alone(p, IF setting.mode = "single"
                THEN [To(p, "draft") EXCEPT !.config = push[p].doc]
                ELSE To(p, CASE Build(push[p].doc) = "built" -> "fetch"
                             [] Build(push[p].doc) = "error" -> "exit_2"
                             [] Build(push[p].doc) = "crash" -> "traceback"))
    /\ UNCHANGED overlapped

Fetch(p) ==
    /\ push[p].at = "fetch"
    /\ Ask(p, [To(p, "nodes") EXCEPT !.defaults = Len(apps[p].types)])
    /\ UNCHANGED overlapped

\* The next node gets a code: an output that is not the first shares the first one's,
\* a default node of the type that is left is used, or one is created.
NextType(p) == ApiType(Generated(push[p].doc)[Len(push[p].made) + 1])
EndsMade(p) == {k \in DOMAIN push[p].made : apps[p].types[push[p].made[k]] = "End"}
Reusable(p) == {c \in 1 .. push[p].defaults :
                   apps[p].types[c] = NextType(p) /\ c \notin ToSet(push[p].made)}
Made(p, code) == [push[p] EXCEPT !.made = Append(@, code)]
Materialise(p) ==
    /\ push[p].at = "nodes" /\ Len(push[p].made) < Len(Generated(push[p].doc))
    /\ IF NextType(p) = "End" /\ EndsMade(p) # {} THEN Alone(p, Made(p, push[p].made[Min(EndsMade(p))]))
       ELSE IF Reusable(p) # {} THEN Alone(p, Made(p, Min(Reusable(p))))
       ELSE Call(p, Made(p, Len(apps[p].types) + 1),
                 [apps[p] EXCEPT !.types = Append(@, NextType(p))])
    /\ UNCHANGED overlapped

\* Links and references with the server's codes, and the checks before they are saved.
CheckMaterialised(p) ==
    /\ push[p].at = "nodes" /\ Len(push[p].made) = Len(Generated(push[p].doc))
    /\ Alone(p, IF Materialised(push[p].doc, push[p].made, apps[p].types, push[p].bound)
                THEN [To(p, "save") EXCEPT
                         !.config = ServerGraph(push[p].doc, push[p].made, apps[p].types)]
                ELSE To(p, "exit_2"))
    /\ UNCHANGED overlapped

SaveChatflow(p) ==
    /\ push[p].at = "save"
    /\ Call(p, To(p, "draft"), [apps[p] EXCEPT !.graph = <<push[p].config>>])
    /\ UNCHANGED overlapped

\* Mutant: a draft that is refused is not missed.
SaveDraftAnyhow(p) ==
    /\ push[p].at = "draft"
    /\ Call(p, To(p, "publish"), [apps[p] EXCEPT !.draft = <<push[p].config>>])
           \/ Answered(p, To(p, "publish"), apps[p])
    /\ UNCHANGED overlapped

SaveDraft(p) ==
    /\ push[p].at = "draft"
    /\ Call(p, To(p, "publish"), [apps[p] EXCEPT !.draft = <<push[p].config>>])
    /\ UNCHANGED overlapped

\* Mutant: the configuration is published as it was before the nodes had codes.
PublishBuilt(p) ==
    /\ push[p].at = "publish"
    /\ Call(p, To(p, "exit_0"), [apps[p] EXCEPT !.published = <<push[p].doc>>])
    /\ UNCHANGED overlapped

Publish(p) ==
    /\ push[p].at = "publish"
    /\ Call(p, To(p, "exit_0"), [apps[p] EXCEPT !.published = <<push[p].config>>])
    /\ UNCHANGED overlapped

Kill(p) ==
    /\ Active(p) /\ faults < MaxFaults /\ faults' = faults + 1
    /\ push' = [push EXCEPT ![p].at = "killed"]
    /\ UNCHANGED <<apps, overlapped>>

Step(p) ==
    \/ Start(p) \/ CheckName(p) \/ CreateApp(p) \/ BindModels(p) \/ BindDatasets(p) \/ Compile(p)
    \/ Fetch(p) \/ Materialise(p) \/ CheckMaterialised(p) \/ SaveChatflow(p) \/ SaveDraft(p)
    \/ Publish(p)

PushStep == (\E p \in Pushers : Step(p) \/ Kill(p)) /\ UNCHANGED <<setting, file>>

\* The file belongs to whoever writes it.
FileChanges == UNCHANGED pushVars

PushSpec == PushInit /\ [][PushStep \/ FileChanges]_<<file, pushVars>>

-----------------------------------------------------------------------------
(* Properties. *)

\* A command that says `published` has published, whole, what it saved as the draft and,
\* for a chatflow, as the graph; and an app that is published was published by a command
\* that said so, or that was killed or lost just that answer (hiagent_push.py:64-105).
ToldPublished ==
    \A p \in Pushers :
        LET app == apps[p] IN
        /\ push[p].at = "exit_0" =>
               /\ app.exists /\ app.published # <<>> /\ app.published = app.draft
               /\ setting.mode = "chatflow" => app.graph = app.draft
        /\ app.published # <<>> =>
               \/ push[p].at \in {"exit_0", "killed"}
               \/ push[p].at = "exit_2" /\ push[p].lost = "publish"

\* Runs that do not overlap leave one app of the name at most, whatever each of them ran
\* into: the next one finds what the last one left behind (hiagent_push.py:65-73).
OneAppPerName ==
    ~overlapped => \A p, q \in Pushers : apps[p].exists /\ apps[q].exists => p = q

-----------------------------------------------------------------------------
(* An app as AppLife sees it. *)

Stage(app) ==
    CASE app.published # <<>> -> "published"
      [] app.published = <<>> /\ app.draft # <<>> -> "drafted"
      [] app.published = <<>> /\ app.draft = <<>> /\ app.graph # <<>> -> "drawn"
      [] app.published = <<>> /\ app.draft = <<>> /\ app.graph = <<>> /\ app.exists -> "created"
      [] OTHER -> "absent"
Content(app) ==
    IF app.published # <<>> THEN app.published
    ELSE IF app.draft # <<>> THEN app.draft ELSE app.graph

Life == INSTANCE AppLife WITH
            Apps <- Pushers, Nothing <- <<>>,
            stage <- [p \in Pushers |-> Stage(apps[p])],
            content <- [p \in Pushers |-> Content(apps[p])]

\* An app is created, filled, drafted and published in this order and once, and from the
\* first save on its content never changes (hiagent_push.py:64-98).
FollowsLife == Life!Spec
=============================================================================
