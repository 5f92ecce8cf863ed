--------------------------- MODULE MCArchiveChain ---------------------------
(* Small instances of ArchiveChain for TLC. *)
EXTENDS ArchiveChain, TLC

CONSTANTS a1, a2, a3, a4, d1, d2

\* Two of the events have the same payload, and with it the same digest.
MCDigest3 == a1 :> d1 @@ a2 :> d1 @@ a3 :> d2
MCDigest4 == a1 :> d1 @@ a2 :> d2 @@ a3 :> d2 @@ a4 :> d1

\* Short lines, of which a file takes two, and one longer than max_bytes.
MCSize3 == a1 :> 2 @@ a2 :> 2 @@ a3 :> 5
MCSize4 == a1 :> 2 @@ a2 :> 2 @@ a3 :> 5 @@ a4 :> 2

\* Calls one at a time that may end early, and one at a time of which a payload splits;
\* two at once; three at once, with writes cut short and a payload that splits.
Serial == [atOnce |-> 1, faults |-> {"stop"}, split |-> {}]
Splits == [atOnce |-> 1, faults |-> {}, split |-> {a2}]
Pairs == [atOnce |-> 2, faults |-> {}, split |-> {}]
Wild == [atOnce |-> 3, faults |-> {"stop", "tear"}, split |-> {}]
WildSplits == [Wild EXCEPT !.split = {a1}]
AllButPairs == {Serial, Splits, Wild, WildSplits}
OnlyPairs == {Pairs}
=============================================================================
