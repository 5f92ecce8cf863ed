--------------------------- MODULE MCSessionTurns ---------------------------
(* Small instances of SessionTurns for TLC. *)
EXTENDS SessionTurns, TLC

\* One message of each kind that two turns can tell apart: an edit of a blank
\* session needs an IR, and with it a review and a confirmation before it.
OneOfEach == {{}, {"secret"}, {"confirm"}, {"ref"}}

\* The messages of a design that is clarified, confirmed and then edited.
DesignMessages == {{}, {"confirm"}, {"edit"}}

\* A message that asks for nothing special: clarified on a blank session, an edit
\* on a seeded one.
PlainMessages == {{}}

\* The other requests are interchangeable.
Interchangeable == Permutations(Request \ {Creator})
=============================================================================
