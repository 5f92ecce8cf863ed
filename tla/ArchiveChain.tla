---------------------------- MODULE ArchiveChain ----------------------------
(***************************************************************************)
(* The archive of one session: ArchiveWriter.append and validate_chain of  *)
(* loom/archive/jsonl.py.  The events are lines of the files 0001.jsonl,   *)
(* 0002.jsonl, ..., which are read in the order of their names.            *)
(*                                                                         *)
(* append holds no lock: it lists the files, reads them one after another, *)
(* chooses the file to write by looking at the directory again, and opens  *)
(* it for appending.  Each of these is a step.  Request threads, the       *)
(* cleanup loop of the service and the admin command append to the same    *)
(* directory (that of the auth events is one for all logins).              *)
(*                                                                         *)
(* append writes an event as one line, and validate_chain reads lines as   *)
(* str.splitlines finds them, which also ends one at U+2028, U+2029 and    *)
(* U+0085.  JSON leaves these three as they are, so an event with one of   *)
(* them in its payload is written whole and read as two halves, neither of *)
(* which parses.                                                           *)
(*                                                                         *)
(* Abstractions.  A payload is its digest, and whether it holds one of     *)
(* these characters.  Up to 9999 files the names sort as their numbers do. *)
(* The line of a write that is cut short is one that does not parse, or    *)
(* one that lacks only its newline.                                        *)
(***************************************************************************)
EXTENDS Naturals, Sequences, FiniteSets

CONSTANTS
    Appends,       \* the calls of append for this session
    Digest,        \* Digest[a]: the digest of the payload of a
    None,          \* the previous_event_sha256 of the first event
    Size,          \* Size[a]: the bytes of the line of a
    MaxBytes,      \* max_bytes, where a file is rotated
    Regimes        \* how many calls may overlap; what may go wrong: "stop", a call
                   \* ends early; "tear", a write is cut short; and the calls whose
                   \* payload splits when it is read

ASSUME SizeAssumption == Size \in [Appends -> Nat \ {0, 1}] /\ MaxBytes \in Nat
ASSUME AppendsAssumption == IsFiniteSet(Appends)
ASSUME RegimesAssumption ==
    Regimes \subseteq [atOnce : Nat, faults : SUBSET {"stop", "tear"}, split : SUBSET Appends]

Digests == {Digest[a] : a \in Appends} \cup {None}

\* A line as a reader finds it: whole, without its newline, or cut short.
Line == [seq : Nat, prev : Digests, by : Appends, tail : {"newline", "bare", "cut"}]
File == [end : Nat, bytes : Nat]

VARIABLES
    regime,  \* the one of Regimes that holds in this behaviour
    log,     \* the lines of all files in reading order
    files,   \* per file: the index in log of its last line, and its st_size
    pc,      \* where each call is
    listed,  \* how many files the call listed
    read,    \* how many of them it has read
    got,     \* the events it has read from them
    target   \* the number of the file it will write

vars == <<regime, log, files, pc, listed, read, got, target>>

Init ==
    /\ regime \in Regimes
    /\ log = <<>> /\ files = <<>>
    /\ pc = [a \in Appends |-> "idle"]
    /\ listed = [a \in Appends |-> 0]
    /\ read = [a \in Appends |-> 0]
    /\ got = [a \in Appends |-> <<>>]
    /\ target = [a \in Appends |-> 0]

InProgress == {a \in Appends : pc[a] \in {"read", "write"}}

Goto(a, l) == pc' = [pc EXCEPT ![a] = l]

-----------------------------------------------------------------------------
(* validate_chain *)

\* The line parses when it is all there and splitlines finds no other end in it.
Legible(line) == line.tail # "cut" /\ line.by \notin regime.split

\* The tests of the loop over the lines, on all lines read so far.
ValidChain(s) ==
    \A i \in DOMAIN s :
        /\ Legible(s[i])
        /\ s[i].seq = i
        /\ s[i].prev = IF i = 1 THEN None ELSE Digest[s[i - 1].by]

EndOf(n) == IF n = 0 THEN 0 ELSE files[n].end
LinesOf(n) == SubSeq(log, EndOf(n - 1) + 1, EndOf(n))

\* _chunk_paths: the directory is listed once, before the first file is read.
List(a) ==
    /\ pc[a] = "idle" /\ Cardinality(InProgress) < regime.atOnce
    /\ Goto(a, "read")
    /\ listed' = [listed EXCEPT ![a] = Len(files)]
    /\ UNCHANGED <<log, files, read, got, target>>

\* Mutant: lines that do not parse are skipped.
ReadSkippingCut(a) ==
    /\ pc[a] = "read" /\ read[a] < listed[a]
    /\ LET lines == got[a] \o SelectSeq(LinesOf(read[a] + 1), Legible)
       IN  IF ValidChain(lines)
           THEN /\ got' = [got EXCEPT ![a] = lines]
                /\ read' = [read EXCEPT ![a] = @ + 1]
                /\ UNCHANGED pc
           ELSE Goto(a, "raised") /\ UNCHANGED <<got, read>>
    /\ UNCHANGED <<log, files, listed, target>>

Read(a) ==
    /\ pc[a] = "read" /\ read[a] < listed[a]
    /\ LET lines == got[a] \o LinesOf(read[a] + 1)
       IN  IF ValidChain(lines)
           THEN /\ got' = [got EXCEPT ![a] = lines]
                /\ read' = [read EXCEPT ![a] = @ + 1]
                /\ UNCHANGED pc
           ELSE Goto(a, "raised") /\ UNCHANGED <<got, read>>
    /\ UNCHANGED <<log, files, listed, target>>

-----------------------------------------------------------------------------
(* append *)

\* Mutants: the sequence number of the last event; the digest of the first.
RepeatedSeq(a) ==
    [seq |-> Len(got[a]), by |-> a, tail |-> "newline",
     prev |-> IF got[a] = <<>> THEN None ELSE Digest[got[a][Len(got[a])].by]]
FirstDigest(a) ==
    [seq |-> Len(got[a]) + 1, by |-> a, tail |-> "newline",
     prev |-> IF got[a] = <<>> THEN None ELSE Digest[got[a][1].by]]

\* The event that is built from what was read.
NewLine(a) ==
    [seq |-> Len(got[a]) + 1, by |-> a, tail |-> "newline",
     prev |-> IF got[a] = <<>> THEN None ELSE Digest[got[a][Len(got[a])].by]]

\* Mutant: the line to be written is not counted.
FullWithoutLine(a) == files[Len(files)].bytes > MaxBytes

\* The last file has no room for the line; an empty file always has.
Full(a) == files[Len(files)].bytes > 0 /\ files[Len(files)].bytes + Size[a] > MaxBytes

\* _write_path: the directory is listed again.
WritePath(a) ==
    /\ pc[a] = "read" /\ read[a] = listed[a]
    /\ target' = [target EXCEPT ![a] = CASE files = <<>> -> 1
                                         [] files # <<>> /\ Full(a) -> Len(files) + 1
                                         [] OTHER -> Len(files)]
    /\ Goto(a, "write")
    /\ UNCHANGED <<log, files, listed, read, got>>

\* The file to write, which open("a") creates when it is not there.
Opened(n) == IF n <= Len(files) THEN files
             ELSE Append(files, [end |-> Len(log), bytes |-> 0])

\* A line put after the last line of file n moves the ends of the files after it.
Insert(n, line, bytes) ==
    LET opened == Opened(n)
        at == opened[n].end
    IN  /\ log' = SubSeq(log, 1, at) \o <<line>> \o SubSeq(log, at + 1, Len(log))
        /\ files' = [i \in DOMAIN opened |->
                       [end |-> IF i >= n THEN opened[i].end + 1 ELSE opened[i].end,
                        bytes |-> IF i = n THEN opened[i].bytes + bytes ELSE opened[i].bytes]]

\* A line put after one that has no newline becomes part of it.
Join(n, bytes) ==
    LET at == Opened(n)[n].end
    IN  /\ log' = [log EXCEPT ![at].tail = "cut"]
        /\ files' = [files EXCEPT ![n].bytes = @ + bytes]

EndsBare(n) == /\ n <= Len(files) /\ files[n].bytes > 0
               /\ log[files[n].end].tail # "newline"

\* Mutant: the file is opened with "w".
PutTruncating(n, line, bytes) ==
    /\ log' = SubSeq(log, 1, EndOf(n - 1)) \o <<line>>
              \o SubSeq(log, Opened(n)[n].end + 1, Len(log))
    /\ files' = [i \in DOMAIN Opened(n) |->
                   IF i < n THEN files[i]
                   ELSE IF i = n THEN [end |-> EndOf(n - 1) + 1, bytes |-> bytes]
                   ELSE [files[i] EXCEPT !.end = (@ + EndOf(n - 1) + 1) - files[n].end]]

Put(n, line, bytes) == IF EndsBare(n) THEN Join(n, bytes) ELSE Insert(n, line, bytes)

\* The line is there once the file is closed, where what was buffered is written: a
\* call that is stopped then, or to which close reports a failure, has written it too.
Write(a) ==
    /\ pc[a] = "write"
    /\ Put(target[a], NewLine(a), Size[a])
    /\ \/ Goto(a, "returned")
       \/ "stop" \in regime.faults /\ Goto(a, "raised")
    /\ UNCHANGED <<listed, read, got, target>>

\* A write cut short (no space, or the process stopped) leaves a part of the line,
\* possibly all of it but the newline.
Tear(a) ==
    /\ "tear" \in regime.faults /\ pc[a] = "write"
    /\ \E tail \in {"bare", "cut"} :
         Put(target[a], [NewLine(a) EXCEPT !.tail = tail],
             IF tail = "bare" THEN Size[a] - 1 ELSE 1)
    /\ Goto(a, "raised")
    /\ UNCHANGED <<listed, read, got, target>>

\* The process stops, or the file system refuses, before anything is written; the
\* file may have been created by then.
Stop(a) ==
    /\ "stop" \in regime.faults /\ a \in InProgress
    /\ \/ UNCHANGED files
       \/ pc[a] = "write" /\ files' = Opened(target[a])
    /\ Goto(a, "raised")
    /\ UNCHANGED <<log, listed, read, got, target>>

-----------------------------------------------------------------------------
Step(a) == List(a) \/ Read(a) \/ WritePath(a) \/ Write(a) \/ Tear(a) \/ Stop(a)

\* Every call has ended.
AllEnded == (\A a \in Appends : pc[a] \in {"returned", "raised"}) /\ UNCHANGED vars

Next ==
    \/ UNCHANGED regime /\ \E a \in Appends : Step(a)
    \/ AllEnded

Spec == Init /\ [][Next]_vars

-----------------------------------------------------------------------------
(* Properties. *)

\* validate_chain accepts the archive: contiguous sequence numbers, each event
\* linked to the payload of the one before it.
ChainValid == ValidChain(log)

\* The calls do not overlap, what they write is written whole, and no payload splits.
Orderly == regime.atOnce = 1 /\ "tear" \notin regime.faults /\ regime.split = {}

\* Calls that do not overlap, of payloads that do not split, keep the archive valid,
\* over rotations and though some of them end early, with an empty file or their whole
\* line left behind.
OrderlyChainValid == Orderly => ChainValid

Damaged == \E i \in DOMAIN log : ~Legible(log[i])

\* A line that does not parse ends the archive: a call of append that begins once there
\* is one never returns, however the calls that were under way then go on.  One whole
\* append of a payload that splits, on its own, is enough.
DamageIsFinal ==
    \A a \in Appends : [](pc[a] = "idle" /\ Damaged => [](pc[a] # "returned"))

\* Calls that do not overlap let a file grow past max_bytes only when its one line
\* is longer than that.
FilesBounded ==
    Orderly => \A i \in DOMAIN files :
                   files[i].bytes <= MaxBytes \/ files[i].end <= EndOf(i - 1) + 1

\* Overlapping appends may give a sequence number twice, but never one that is
\* ahead of the line's place: numbers repeat, none is skipped.
NoneSkipped ==
    \A i \in DOMAIN log :
        /\ log[i].seq <= i
        /\ log[i].seq = 1 \/ \E j \in 1 .. (i - 1) : log[j].seq = log[i].seq - 1

Torn == \E i \in DOMAIN log : log[i].tail = "cut"

\* The event of an append that returned is in the archive, once, and its line parses.
\* The exceptions are a payload that splits, and a line that was put behind one without
\* a newline and damaged both.
ReturnedIsRecorded ==
    \A a \in Appends :
        pc[a] = "returned" =>
            LET n == Cardinality({i \in DOMAIN log : log[i].by = a /\ Legible(log[i])})
            IN  n = 1 \/ (n = 0 /\ (a \in regime.split \/ Torn))

\* What a reader is given: the events, or nothing when the chain does not validate.
Readable == IF ValidChain(log) THEN [i \in DOMAIN log |-> log[i].by] ELSE <<>>

Returned == {a \in Appends : pc[a] = "returned"}

\* AuditLog is promised of orderly behaviours; of the others it is shown nothing.

Promise == INSTANCE AuditLog WITH
    Events <- Appends,
    record <- IF Orderly THEN Readable ELSE <<>>,
    returned <- IF Orderly THEN Returned ELSE {}

\* Calls that do not overlap and are not cut short, of payloads that do not split, keep
\* what AuditLog promises.
KeepsPromise == Promise!Spec
=============================================================================
