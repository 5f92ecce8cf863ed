--------------------------- MODULE MCClarification ---------------------------
(* Small instances of Clarification for TLC. *)
EXTENDS Clarification

Say(traits, says) == [kind |-> "plain", traits |-> traits, says |-> says]

Of(kind) == [Say({}, <<>>) EXCEPT !.kind = kind]

\* The fields of S with one value, but for those of `special`.
With(S, special) == [f \in S |-> IF f \in DOMAIN special THEN special[f] ELSE "one"]

High == [compliance_boundary |-> "high"]
Api == [data_sources |-> "api"]

\* Short and long intents, with and without needs; answers on one field, on every
\* field and on what spares the question for the intent; one message of each kind.
SomeMessages ==
    {Say(t, <<>>) : t \in {{}, {"substantive", "api"},
                            {"substantive", "detailed", "retrieval"},
                            {"substantive", "detailed", "channel", "api"}}}
    \cup {Say({}, With({f}, <<>>)) : f \in Fields}
    \cup {Say({}, High), Say({}, Api), Say({}, [credentials |-> "another", trigger |-> "another"])}
    \cup {Say({"marked"}, With(Always, boundary)) : boundary \in {<<>>, High}}
    \cup {Say({"substantive", "marked"}, With(Fields, [f \in {"compliance_boundary", "data_sources"} |->
                                                          IF f = "data_sources" THEN "api" ELSE "high"]))}
    \cup {Of(k) : k \in {"secret", "confirm", "stale", "edit"}}
=============================================================================
