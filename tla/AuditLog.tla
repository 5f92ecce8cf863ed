------------------------------ MODULE AuditLog ------------------------------
(***************************************************************************)
(* What ADR 0028 promises of the archive of one session: an append-only    *)
(* record of events.  An append that returned has put its event at the     *)
(* end, and it is there for good.  One that failed may have put it there   *)
(* too, or has left the record as it was.                                  *)
(***************************************************************************)
EXTENDS Sequences, SequencesExt

CONSTANT Events            \* the events that may be appended

VARIABLES record,          \* what a reader of the archive is given
          returned         \* the appends that returned

vars == <<record, returned>>

Init == record = <<>> /\ returned = {}

Record(e) ==
    /\ e \notin ToSet(record)
    /\ record' = Append(record, e)
    /\ returned' \in {returned, returned \cup {e}}

Next == \E e \in Events : Record(e)

Spec == Init /\ [][Next]_vars
=============================================================================
