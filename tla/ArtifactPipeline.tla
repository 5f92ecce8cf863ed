-------------------------- MODULE ArtifactPipeline --------------------------
(***************************************************************************)
(* From an accepted IR to a deployed workflow: the files, rows, registry   *)
(* entries and archive events that compile_session leaves one after        *)
(* another (loom/service/routes/sessions.py), the downloads of the         *)
(* artifacts, the deployment callback of routes/registry.py, and the       *)
(* deletion of the session.                                                *)
(*                                                                         *)
(* No transaction spans two of the stores, and any call may raise, so each *)
(* is a step that may fail.  A file is written under one generated name    *)
(* and renamed to another once its row exists.  The handlers are those of  *)
(* one session; their effect on its state column is in SessionTurns.       *)
(***************************************************************************)
EXTENDS Naturals

CONSTANTS
    Compiles,      \* the compile requests, and with them their artifacts
    Others,        \* the requests that download, deploy or delete
    Nothing,       \* the absence of a row
    MayFail,       \* a file, database or archive operation may raise
    MayCrash       \* the process may stop with requests in flight

ASSUME FaultsAssumption == MayFail \in BOOLEAN /\ MayCrash \in BOOLEAN

Requests == Compiles \cup Others

Names == {"temporary", "final"}     \* the file names a compile uses
ASSUME RequestsAssumption == Compiles \cap Others = {} /\ Nothing \notin Compiles \cup Names

Contents == {"absent", "part", "whole"}
Events == {"compile.produced", "artifact.downloaded", "registry.deployed", "session.deleted"}
Labels == {"idle", "write", "insert", "check", "rename", "rewrite", "reread", "register",
           "produced", "read", "mark", "downloaded", "deployed", "deleted", "done"}
Codes == {0, 200, 204, 400, 404, 500}

VARIABLES
    present,    \* the session has its row
    rows,       \* the path in the `artifacts` row of each artifact, or Nothing
    disk,       \* what is found under each name of each artifact
    registry,   \* the `workflow_records` row of each artifact
    archived,   \* the archive events appended
    pc,         \* where each handler is
    held,       \* for a download or a deployment: artifact, path, bytes read
    code        \* the status a request was answered with, or 0

stores == <<present, rows, disk, registry, archived>>
vars == <<present, rows, disk, registry, archived, pc, held, code>>

Unheld == [artifact |-> Nothing, name |-> "temporary", bytes |-> "absent"]

Init ==
    /\ present = TRUE
    /\ rows = [c \in Compiles |-> Nothing]
    /\ disk = [c \in Compiles |-> [n \in Names |-> "absent"]]
    /\ registry = [c \in Compiles |-> "absent"]
    /\ archived = {}
    /\ pc = [r \in Requests |-> "idle"]
    /\ held = [r \in Others |-> Unheld]
    /\ code = [r \in Requests |-> 0]

Goto(r, l) == pc' = [pc EXCEPT ![r] = l] /\ UNCHANGED code
Answer(r, c) == pc' = [pc EXCEPT ![r] = "done"] /\ code' = [code EXCEPT ![r] = c]
Raise(r) == MayFail /\ Answer(r, 500)

-----------------------------------------------------------------------------
(* POST /sessions/{id}/compile *)

ReceiveCompile(c) ==
    /\ pc[c] = "idle"
    /\ \/ ~present /\ Answer(c, 404)
       \/ present /\ Goto(c, "write")
       \/ present /\ Answer(c, 400)          \* state, target, binding or compiler refuse
    /\ UNCHANGED <<stores, held>>

\* Mutant: an error of the write is not noticed.
WriteFileUnchecked(c) ==
    /\ pc[c] = "write"
    /\ \/ disk' = [disk EXCEPT ![c]["temporary"] = "whole"]
       \/ MayFail /\ disk' = [disk EXCEPT ![c]["temporary"] = "part"]
    /\ Goto(c, "insert")
    /\ UNCHANGED <<present, rows, registry, archived, held>>

WriteFile(c) ==
    /\ pc[c] = "write"
    /\ \/ disk' = [disk EXCEPT ![c]["temporary"] = "whole"] /\ Goto(c, "insert")
       \/ \E left \in {"absent", "part"} :
            disk' = [disk EXCEPT ![c]["temporary"] = left] /\ Raise(c)
    /\ UNCHANGED <<present, rows, registry, archived, held>>

\* create_artifact: the row is inserted whether or not the session still exists.
InsertRow(c) ==
    /\ pc[c] = "insert"
    /\ \/ rows' = [rows EXCEPT ![c] = "temporary"] /\ Goto(c, "check")
       \/ UNCHANGED rows /\ Raise(c)
    /\ UNCHANGED <<present, disk, registry, archived, held>>

\* The assertions on the row read back: it is gone when the session was deleted.
CheckRow(c, label, next) ==
    /\ pc[c] = label
    /\ IF rows[c] = Nothing THEN Answer(c, 500) ELSE Goto(c, next)
    /\ UNCHANGED <<stores, held>>

\* Mutant: the file keeps its first name.
CheckInsertedOnly(c) == CheckRow(c, "check", "register")

CheckInserted(c) == CheckRow(c, "check", "rename")
CheckRewritten(c) == CheckRow(c, "reread", "register")

Rename(c) ==
    /\ pc[c] = "rename"
    /\ \/ /\ disk' = [disk EXCEPT ![c] = [temporary |-> "absent", final |-> @["temporary"]]]
          /\ Goto(c, "rewrite")
       \/ UNCHANGED disk /\ Raise(c)
    /\ UNCHANGED <<present, rows, registry, archived, held>>

\* Mutant: the path is not rewritten.
RewriteNothing(c) ==
    /\ pc[c] = "rewrite"
    /\ Goto(c, "reread")
    /\ UNCHANGED <<stores, held>>

\* An UPDATE of the row, if it is still there.
RewritePath(c) ==
    /\ pc[c] = "rewrite"
    /\ \/ /\ rows' = IF rows[c] = Nothing THEN rows ELSE [rows EXCEPT ![c] = "final"]
          /\ Goto(c, "reread")
       \/ UNCHANGED rows /\ Raise(c)
    /\ UNCHANGED <<present, disk, registry, archived, held>>

Register(c) ==
    /\ pc[c] = "register"
    /\ \/ registry' = [registry EXCEPT ![c] = "created"] /\ Goto(c, "produced")
       \/ UNCHANGED registry /\ Raise(c)
    /\ UNCHANGED <<present, rows, disk, archived, held>>

LogThenAnswer(r, label, event, status) ==
    /\ pc[r] = label
    /\ \/ archived' = archived \cup {event} /\ Answer(r, status)
       \/ UNCHANGED archived /\ Raise(r)
    /\ UNCHANGED <<present, rows, disk, registry, held>>

ArchiveCompile(c) == LogThenAnswer(c, "produced", <<"compile.produced", c>>, 200)

Compile(c) == \/ ReceiveCompile(c) \/ WriteFile(c) \/ InsertRow(c) \/ CheckInserted(c)
              \/ Rename(c) \/ RewritePath(c) \/ CheckRewritten(c) \/ Register(c)
              \/ ArchiveCompile(c)

-----------------------------------------------------------------------------
(* GET /sessions/{id}/artifacts/{artifact_id} *)

ReceiveDownload(r, a) ==
    /\ pc[r] = "idle"
    /\ IF rows[a] = Nothing
       THEN Answer(r, 404) /\ UNCHANGED held
       ELSE /\ held' = [held EXCEPT ![r].artifact = a, ![r].name = rows[a]]
            /\ Goto(r, "read")
    /\ UNCHANGED stores

\* The path is the row's as it was read: the file may have been renamed since.
ReadFile(r) ==
    /\ pc[r] = "read"
    /\ LET bytes == disk[held[r].artifact][held[r].name]
       IN  \/ bytes = "absent" /\ Answer(r, 500) /\ UNCHANGED held
           \/ bytes # "absent" /\ held' = [held EXCEPT ![r].bytes = bytes] /\ Goto(r, "mark")
    /\ UNCHANGED stores

\* mark_downloaded is an UPDATE of the session, if it is still there.
MarkDownloaded(r) ==
    /\ pc[r] = "mark"
    /\ Goto(r, "downloaded") \/ Raise(r)
    /\ UNCHANGED <<stores, held>>

ArchiveDownload(r) ==
    LogThenAnswer(r, "downloaded", <<"artifact.downloaded", held[r].artifact>>, 200)

Download(r) == \/ \E a \in Compiles : ReceiveDownload(r, a)
               \/ ReadFile(r) \/ MarkDownloaded(r) \/ ArchiveDownload(r)

-----------------------------------------------------------------------------
(* POST /registry/workflows/{id}/deployed *)

\* Mutant: the event is appended without the update.
MarkDeployedEventOnly(r, a) ==
    /\ pc[r] = "idle"
    /\ IF registry[a] = "absent" THEN Answer(r, 404) /\ UNCHANGED held
       ELSE held' = [held EXCEPT ![r].artifact = a] /\ Goto(r, "deployed")
    /\ UNCHANGED stores

\* The row is updated again when it is marked twice.
MarkDeployed(r, a) ==
    /\ pc[r] = "idle"
    /\ \/ registry[a] = "absent" /\ Answer(r, 404) /\ UNCHANGED <<registry, held>>
       \/ /\ registry[a] # "absent"
          /\ registry' = [registry EXCEPT ![a] = "deployed"]
          /\ held' = [held EXCEPT ![r].artifact = a]
          /\ Goto(r, "deployed")
       \/ UNCHANGED <<registry, held>> /\ Raise(r)
    /\ UNCHANGED <<present, rows, disk, archived>>

ArchiveDeployed(r) ==
    LogThenAnswer(r, "deployed", <<"registry.deployed", held[r].artifact>>, 200)

Deploy(r) == (\E a \in Compiles : MarkDeployed(r, a)) \/ ArchiveDeployed(r)

-----------------------------------------------------------------------------
(* DELETE /sessions/{id}: the rows go; files, registry and archive stay.   *)

DeleteRows(r) ==
    /\ pc[r] = "idle"
    /\ \/ ~present /\ Answer(r, 404) /\ UNCHANGED <<present, rows>>
       \/ /\ present
          /\ present' = FALSE
          /\ rows' = [c \in Compiles |-> Nothing]
          /\ Goto(r, "deleted")
       \/ UNCHANGED <<present, rows>> /\ Raise(r)
    /\ UNCHANGED <<disk, registry, archived, held>>

Delete(r) == DeleteRows(r) \/ LogThenAnswer(r, "deleted", <<"session.deleted", Nothing>>, 204)

-----------------------------------------------------------------------------
InFlight == {r \in Requests : pc[r] \notin {"idle", "done"}}

\* The process stops; nothing is cleaned up when it starts again.
Crash ==
    /\ MayCrash /\ InFlight # {}
    /\ pc' = [r \in Requests |-> IF r \in InFlight THEN "done" ELSE pc[r]]
    /\ UNCHANGED <<stores, held, code>>

\* Every request is answered: the bound of a finite set of requests.
AllServed == (\A r \in Requests : pc[r] = "done") /\ UNCHANGED vars

Next == \/ \E c \in Compiles : Compile(c)
        \/ \E r \in Others : Download(r) \/ Deploy(r) \/ Delete(r)
        \/ Crash \/ AllServed

Spec == Init /\ [][Next]_vars

-----------------------------------------------------------------------------
(* Properties. *)

Holding == {"read", "mark", "downloaded", "deployed"}

\* Type correctness of the stores; a handler that works on an artifact holds one.
TypeOK ==
    /\ present \in BOOLEAN
    /\ rows \in [Compiles -> Names \cup {Nothing}]
    /\ disk \in [Compiles -> [Names -> Contents]]
    /\ registry \in [Compiles -> {"absent", "created", "deployed"}]
    /\ archived \subseteq Events \X (Compiles \cup {Nothing})
    /\ pc \in [Requests -> Labels]
    /\ held \in [Others -> [artifact : Compiles \cup {Nothing}, name : Names, bytes : Contents]]
    /\ \A r \in Others : pc[r] \in Holding => held[r].artifact # Nothing
    /\ code \in [Requests -> Codes]

\* A download that is answered 200 delivered the whole artifact: whatever was
\* renamed, deleted or cut short meanwhile, never a part of a file.
DeliversWhole ==
    \A r \in Others : code[r] = 200 => held[r].bytes # "part"

\* A compile that is answered 200 left everything: the file under its final name,
\* the registry entry, the event, and the row unless the session was deleted.
AnsweredIsComplete ==
    \A c \in Compiles :
        code[c] = 200 =>
            /\ disk[c]["final"] = "whole"
            /\ registry[c] # "absent"
            /\ <<"compile.produced", c>> \in archived
            /\ rows[c] = "final" \/ (rows[c] = Nothing /\ ~present)

\* A workflow the registry lists has an artifact that can be downloaded, or none at
\* all because its session was deleted: never one whose file is missing.
RegisteredIsObtainable ==
    \A c \in Compiles :
        registry[c] # "absent" =>
            /\ disk[c]["final"] = "whole"
            /\ rows[c] = "final" \/ (rows[c] = Nothing /\ ~present)

\* The archive tells only what the other stores have: a produced artifact is
\* registered, a deployment is in the registry, although any step may raise.
ArchiveIsBacked ==
    \A c \in Compiles :
        /\ <<"compile.produced", c>> \in archived => registry[c] # "absent"
        /\ <<"registry.deployed", c>> \in archived => registry[c] = "deployed"
        /\ <<"artifact.downloaded", c>> \in archived => \E n \in Names : disk[c][n] = "whole"
=============================================================================
