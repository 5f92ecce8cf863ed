-------------------------- MODULE AdminCredentials --------------------------
(***************************************************************************)
(* The credentials file auth.json and the commands `loom admin init`,      *)
(* `reset-password` and `remove`, each a process of its own.               *)
(*                                                                         *)
(* Abstractions.  A document is named by the command that wrote it, so     *)
(* `file` and `tmp` say whose inode a name leads to, and `written` which   *)
(* inodes are complete.  What is not a regular file of mode 0600 is        *)
(* Unsafe.  Prompts, password rules and hashing come before the first      *)
(* effect and are left out.  The commands share one process namespace:     *)
(* live ones differ in their process ids, ended ones leave theirs free.    *)
(***************************************************************************)
CONSTANTS
    Commands,
    Pids,
    Old,            \* the document that is there at first
    Unsafe,
    NoFile          \* no file of a name, no process id

ASSUME DocumentsAssumption ==
    Old # NoFile /\ Unsafe \notin {Old, NoFile} /\ {Old, Unsafe, NoFile} \cap Commands = {}

VARIABLES
    file,        \* auth.json
    tmp,         \* .auth.json.tmp.<pid>
    written,     \* the documents that are complete
    command,     \* where each command is
    changed,     \* history: the commands that have put or removed the file
    audited      \* the commands that have archived their event

adminVars == <<file, tmp, written, command, changed, audited>>

Documents == Commands \cup {Old}
Ended == {"exit_0", "exit_1", "exit_2", "killed"}
NoCommand == [at |-> "idle", kind |-> "init", pid |-> NoFile]

AdminInit ==
    /\ file \in {NoFile, Old, Unsafe}
    /\ tmp = [p \in Pids |-> NoFile]
    /\ written = {Old}
    /\ command = [c \in Commands |-> NoCommand]
    /\ changed = {} /\ audited = {}

Goto(c, l) == command' = [command EXCEPT ![c].at = l]
Pid(c) == command[c].pid
Live(c) == command[c].at \notin Ended \cup {"idle"}

\* read_auth_file: a regular file, of mode 0600, that parses.
Loads(f) == f \in written

\* Where a command begins: reset-password and remove read the file first.
FirstOf(kind) ==
    IF kind \in {"init", "force"} THEN "check"
    ELSE IF file = NoFile THEN "exit_1"
    ELSE IF ~Loads(file) THEN "exit_2"
    ELSE IF kind = "reset" THEN "check" ELSE "rename_away"

Begin(c) ==
    /\ command[c].at = "idle"
    /\ \E kind \in {"init", "force", "reset", "remove"},
          p \in Pids \ {Pid(d) : d \in {e \in Commands : Live(e)}} :
         command' = [command EXCEPT ![c] = [at |-> FirstOf(kind), kind |-> kind, pid |-> p]]
    /\ UNCHANGED <<file, tmp, written, changed, audited>>

-----------------------------------------------------------------------------
(* atomic_write_auth_file *)

Check(c) ==
    /\ command[c].at = "check"
    /\ Goto(c, CASE file = Unsafe -> "exit_2"
                 [] file \in Documents /\ command[c].kind = "init" -> "exit_1"
                 [] OTHER -> "open")
    /\ UNCHANGED <<file, tmp, written, changed, audited>>

\* O_CREAT | O_EXCL
Open(c) ==
    /\ command[c].at = "open"
    /\ IF tmp[Pid(c)] = NoFile
       THEN tmp' = [tmp EXCEPT ![Pid(c)] = c] /\ Goto(c, "write")
       ELSE Goto(c, "clean") /\ UNCHANGED tmp
    /\ UNCHANGED <<file, written, changed, audited>>

\* Mutant: the file is renamed before it is written.
RenameFirst(c) ==
    /\ command[c].at = "write"
    /\ file' = c /\ tmp' = [tmp EXCEPT ![Pid(c)] = NoFile]
    /\ changed' = changed \cup {c}
    /\ \/ written' = written \cup {c} /\ Goto(c, "sync")
       \/ UNCHANGED written /\ Goto(c, "clean")
    /\ UNCHANGED audited

\* The bytes and the fsync of the file; either may fail.
WriteTmp(c) ==
    /\ command[c].at = "write"
    /\ \/ written' = written \cup {c} /\ Goto(c, "rename")
       \/ UNCHANGED written /\ Goto(c, "clean")
    /\ UNCHANGED <<file, tmp, changed, audited>>

Rename(c) ==
    /\ command[c].at = "rename"
    /\ file' = tmp[Pid(c)] /\ tmp' = [tmp EXCEPT ![Pid(c)] = NoFile]
    /\ changed' = changed \cup {c}
    /\ Goto(c, "sync")
    /\ UNCHANGED <<written, audited>>

\* The fsync of the directory, which may fail, and lstat, which finds what was
\* renamed, what another command put there, or nothing.
Sync(c) ==
    /\ command[c].at = "sync"
    /\ \/ file # NoFile /\ Goto(c, "clean_up")
       \/ Goto(c, "clean")
    /\ UNCHANGED <<file, tmp, written, changed, audited>>

\* finally: a temporary file of this name is removed, whoever left it.
Clean(c) ==
    /\ command[c].at \in {"clean", "clean_up"}
    /\ tmp' = [tmp EXCEPT ![Pid(c)] = NoFile]
    /\ Goto(c, IF command[c].at = "clean" THEN "exit_2" ELSE "log")
    /\ UNCHANGED <<file, written, changed, audited>>

-----------------------------------------------------------------------------
\* remove: whatever is there by now becomes the backup; the rename fails when nothing
\* is, and the fsync of the directory may fail after it.
RenameAway(c) ==
    /\ command[c].at = "rename_away"
    /\ IF file = NoFile
       THEN Goto(c, "exit_2") /\ UNCHANGED <<file, changed>>
       ELSE /\ file' = NoFile /\ changed' = changed \cup {c}
            /\ Goto(c, "log") \/ Goto(c, "exit_2")
    /\ UNCHANGED <<tmp, written, audited>>

\* Mutant: the event is archived with the answer already given.
LogIgnoringFailure(c) ==
    /\ command[c].at = "log"
    /\ audited' = audited \cup {c} \/ UNCHANGED audited
    /\ Goto(c, "exit_0")
    /\ UNCHANGED <<file, tmp, written, changed>>

\* _append_admin_event; when the append raises the command ends with a traceback.
Log(c) ==
    /\ command[c].at = "log"
    /\ \/ audited' = audited \cup {c} /\ Goto(c, "exit_0")
       \/ UNCHANGED audited /\ Goto(c, "exit_1")
    /\ UNCHANGED <<file, tmp, written, changed>>

Kill(c) ==
    /\ Live(c)
    /\ Goto(c, "killed")
    /\ UNCHANGED <<file, tmp, written, changed, audited>>

CommandStep(c) ==
    \/ Check(c) \/ Open(c) \/ WriteTmp(c) \/ Rename(c) \/ Sync(c) \/ Clean(c)
    \/ RenameAway(c) \/ Log(c) \/ Kill(c)

AdminNext == \E c \in Commands : Begin(c) \/ CommandStep(c)

AdminSpec == AdminInit /\ [][AdminNext]_adminVars

-----------------------------------------------------------------------------
(* Properties. *)

\* Type correctness.
AdminTypeOK ==
    /\ file \in Documents \cup {NoFile, Unsafe}
    /\ tmp \in [Pids -> Commands \cup {NoFile}]
    /\ written \subseteq Documents
    /\ command \in [Commands -> [at : Ended \cup {"idle", "check", "open", "write", "rename", "sync",
                                                  "clean", "clean_up", "rename_away", "log"},
                                 kind : {"init", "force", "reset", "remove"},
                                 pid : Pids \cup {NoFile}]]
    /\ changed \subseteq Commands /\ audited \subseteq Commands

\* Whoever reads auth.json, at whatever moment and after whatever crash, finds a whole
\* document, also when the process id of a killed command is used again.
FileIsWhole == file \in Documents => Loads(file)

\* A command that reports success has made its change and recorded it, and no event is
\* recorded of a change that was not made.
SuccessIsRecorded ==
    /\ \A c \in Commands : command[c].at = "exit_0" => c \in audited
    /\ audited \subseteq changed
=============================================================================
