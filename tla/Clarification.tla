---------------------------- MODULE Clarification ----------------------------
(***************************************************************************)
(* The conversation in which the brief of a self-design session is         *)
(* completed, reviewed and planned: the rule-based engine of               *)
(* loom/fde_session, which asks for the first missing field, and the turns *)
(* of loom/service/routes/sessions.py, which turn to a questionnaire after *)
(* a few rounds, show a complete brief for review and plan a confirmed one.*)
(*                                                                         *)
(* One actor talks, one turn after the other: turns that overlap are in    *)
(* SessionTurns.  A message is what the engine recognises in it.           *)
(***************************************************************************)
EXTENDS Naturals, Sequences

CONSTANTS
    Messages,             \* the messages the actor may send
    Nothing,              \* no brief
    QuestionnaireAfter,   \* rounds of single questions before a questionnaire
    MaxRound              \* bound: rounds that messages with a secret add

Fields == {"target_runtime", "scope", "compliance_boundary", "trigger", "data_sources",
           "credentials", "approval_points", "success_criteria"}

\* In the order in which missing_fields lists what blocks.
Order == <<"intent_clarification", "target_runtime", "scope", "compliance_boundary", "trigger",
           "data_sources", "credentials", "approval_points", "success_criteria">>

\* What the keyword tests find in a text: enough to stand for a clarified intent, long
\* and specific enough to need none, the mark of a success criterion, and the
\* words that call for a knowledge base, a channel or an external system.
Traits == {"substantive", "detailed", "marked", "retrieval", "channel", "api"}

\* What a field may hold: a boundary may be high and a source an API; of every other
\* field it only matters whether two values are the same.
Values == {"high", "api", "one", "another"}
Given == UNION {[S -> Values] : S \in SUBSET Fields}

\* `says` has what parse_field_answer finds in the message, by field.
MessageType == [kind : {"plain", "secret", "confirm", "stale", "edit"}, traits : SUBSET Traits,
                says : Given]

ASSUME MessagesAssumption == Messages \subseteq MessageType
ASSUME RoundsAssumption == QuestionnaireAfter \in Nat /\ MaxRound \in Nat

\* A draft: the traits of its intent (`text` unless it is empty), whether the intent
\* was clarified, and the fields that have a value, with the value.
Drafts == [intent : SUBSET (Traits \cup {"text"}), clarified : BOOLEAN, given : Given]
ASSUME NothingAssumption == Nothing \notin Drafts

Empty == [intent |-> {}, clarified |-> FALSE, given |-> <<>>]

\* Whether the field f has the value v.
Holds(d, f, v) == f \in DOMAIN d.given /\ d.given[f] = v

VARIABLES
    draft,      \* sessions.brief_draft
    round,      \* sessions.clarify_round
    planned,    \* the session has an IR
    last        \* the last turn: kind, fields it asks for, brief_after

vars == <<draft, round, planned, last>>

NoTurn == [kind |-> "none", asked |-> {}, brief |-> Nothing]

Init ==
    /\ draft = Nothing
    /\ round = 0
    /\ planned = FALSE
    /\ last = NoTurn

-----------------------------------------------------------------------------
(* missing_fields *)

Always == {"target_runtime", "scope", "compliance_boundary", "trigger", "success_criteria"}

\* The intent is to be clarified unless it was, or says enough, or the rest is there.
NeedsIntent(d) ==
    ~d.clarified /\ "detailed" \notin d.intent
    /\ ~({"target_runtime", "scope", "trigger", "compliance_boundary", "success_criteria"}
            \subseteq DOMAIN d.given)

\* Mutant: a high boundary needs no approval.
RequiredNoApproval(d) ==
    Always \cup {f \in {"data_sources"} : d.intent \cap {"retrieval", "channel"} # {}}
           \cup {f \in {"credentials"} : Holds(d, "data_sources", "api") \/ "api" \in d.intent}

Required(d) ==
    Always \cup {f \in {"data_sources"} : d.intent \cap {"retrieval", "channel"} # {}}
           \cup {f \in {"credentials"} : Holds(d, "data_sources", "api") \/ "api" \in d.intent}
           \cup {f \in {"approval_points"} : Holds(d, "compliance_boundary", "high")}

Blocking(d) ==
    (Required(d) \ DOMAIN d.given) \cup {f \in {"intent_clarification"} : NeedsIntent(d)}

FirstOf(S) ==
    Order[CHOOSE i \in DOMAIN Order : Order[i] \in S /\ \A j \in 1..(i - 1) : Order[j] \notin S]

-----------------------------------------------------------------------------
(* The engine *)

\* parse_field_answer; an answer on the intent is searched for other fields too.
Answered(f, m) ==
    IF f # "intent_clarification" THEN {f} \cap DOMAIN m.says
    ELSE (DOMAIN m.says \ {"credentials"}) \ {g \in {"success_criteria"} : "marked" \notin m.traits}

\* Mutant: a message is searched for every field.
FoundAnywhere(asked, m) == DOMAIN m.says

Found(asked, m) == UNION {Answered(f, m) : f \in asked}

\* A value that is found replaces the one the draft has.
Updated(given, found, m) ==
    [f \in DOMAIN given \cup found |-> IF f \in found THEN m.says[f] ELSE given[f]]

\* Mutant: an answer to the intent question is not noted as one.
MergeUnclarified(d, asked, m) ==
    [d EXCEPT !.given = Updated(@, Found(asked, m), m)]

Merge(d, asked, m) ==
    LET clear == "intent_clarification" \in asked /\ "substantive" \in m.traits
    IN  [intent    |-> IF clear THEN m.traits \cup {"text"} ELSE d.intent,
         clarified |-> d.clarified \/ clear,
         given     |-> Updated(d.given, Found(asked, m), m)]

\* The first message is the intent.
Begin(m) == [Empty EXCEPT !.intent = m.traits \cup {"text"}]

Stepped(m) ==
    Merge(IF draft = Nothing THEN Begin(m) ELSE draft, last.asked, m)

-----------------------------------------------------------------------------
(* Turns of the conversation *)

Turn(kind, asked, brief) == last' = [kind |-> kind, asked |-> asked, brief |-> brief]

Review(d) ==
    /\ draft' = d /\ round' = 0
    /\ Turn("brief_review", {}, d)
    /\ UNCHANGED planned

Ask(kind, asked, d, r) ==
    /\ draft' = d /\ round' = r
    /\ Turn(kind, asked, d)
    /\ UNCHANGED planned

FailedTurn == Turn("plan", {}, Nothing) /\ UNCHANGED <<draft, round, planned>>

Confirms(m) == m.kind = "confirm" /\ last.kind = "brief_review" /\ draft # Nothing
Edits(m) == m.kind = "edit" /\ planned

\* The message refers to a turn that is not the last one, and the last one is one
\* that can be repeated.
RepeatsLast(m) ==
    /\ m.kind = "stale"
    /\ last.kind \in {"brief_review", "clarify", "questionnaire"}

Clarifies(m) == m.kind # "secret" /\ ~Confirms(m) /\ ~Edits(m) /\ ~RepeatsLast(m)

\* Whatever else the message says, the question is which handle to use.
Secret(m) ==
    /\ m.kind = "secret"
    /\ round < MaxRound
    /\ Ask("clarify", {"credentials"}, IF draft = Nothing THEN Empty ELSE draft, round + 1)

\* Mutant: the questionnaire forgets its questions but the first.
RepeatOne(m) ==
    /\ RepeatsLast(m)
    /\ LET d == IF last.brief # Nothing THEN last.brief ELSE draft
       IN  \/ last.kind = "brief_review" /\ Review(d)
           \/ /\ last.kind # "brief_review"
              /\ Ask(last.kind, {FirstOf(last.asked)}, d, round)

Repeat(m) ==
    /\ RepeatsLast(m)
    /\ LET d == IF last.brief # Nothing THEN last.brief ELSE draft
       IN  \/ last.kind = "brief_review" /\ Review(d)
           \/ /\ last.kind # "brief_review"
              /\ Ask(last.kind, last.asked, d, round)

Clarify(m) ==
    /\ Clarifies(m)
    /\ LET d == Stepped(m)
           open == Blocking(d)
       IN  \/ open = {} /\ Review(d)
           \/ /\ open # {} /\ round >= QuestionnaireAfter
              /\ Ask("questionnaire", open, d, round)
           \/ /\ open # {} /\ round < QuestionnaireAfter
              /\ Ask("clarify", {FirstOf(open)}, d, round + 1)

\* The planner and the validator accept or refuse, or the payload is blocked.
Plan(m) ==
    /\ m.kind # "secret" /\ Confirms(m)
    /\ \/ /\ Turn("plan", {}, draft)
          /\ planned' = TRUE /\ round' = 0
          /\ UNCHANGED draft
       \/ FailedTurn

\* An edit of the IR leaves the brief alone.
Edit(m) ==
    /\ ~Confirms(m) /\ Edits(m)
    /\ \/ Turn("plan", {}, Nothing) /\ round' = 0 /\ UNCHANGED <<draft, planned>>
       \/ FailedTurn

Next == \E m \in Messages : Secret(m) \/ Repeat(m) \/ Clarify(m) \/ Plan(m) \/ Edit(m)

Spec == Init /\ [][Next]_vars

-----------------------------------------------------------------------------
(* Properties. *)

\* The variables have their types, and the brief of the last turn, which a repetition
\* takes, is the stored one, which a confirmation plans.
TypeOK ==
    /\ draft \in Drafts \cup {Nothing}
    /\ round \in 0..(MaxRound + QuestionnaireAfter)
    /\ planned \in BOOLEAN
    /\ last \in [kind : {"none", "clarify", "questionnaire", "brief_review", "plan"},
                 asked : SUBSET (Fields \cup {"intent_clarification"}),
                 brief : Drafts \cup {Nothing}]
    /\ last.brief # Nothing => last.brief = draft

\* A brief that is shown for review, and so the one that is planned, lacks nothing the
\* design asks for: runtime, scope, boundary, trigger and success criterion, a
\* reviewer for sensitive data, a source for what it looks up, a credential for an API.
ReviewIsComplete ==
    last.kind = "brief_review" =>
        /\ Always \subseteq DOMAIN draft.given
        /\ Holds(draft, "compliance_boundary", "high") => "approval_points" \in DOMAIN draft.given
        /\ \/ Holds(draft, "data_sources", "api")
           \/ "api" \in draft.intent
           => "credentials" \in DOMAIN draft.given
        /\ draft.intent \cap {"retrieval", "channel"} # {} => "data_sources" \in DOMAIN draft.given

\* What a turn asks for is what the stored brief lacks, and a questionnaire asks for
\* all of it, also when an old turn is referred to; only a message with a secret asks
\* for a credential the brief may have.
AsksWhatBlocks ==
    /\ last.kind = "clarify" => last.asked = {"credentials"} \/ last.asked \subseteq Blocking(draft)
    /\ last.kind = "questionnaire" => last.asked = Blocking(draft)

\* A turn changes the brief only by what the message answers to the turn before it: a
\* field gets a value, or another one, only when it was asked for or the intent was, none
\* loses its value, and the intent is replaced at most once, by the answer that clarifies
\* it (clarify_engine.py:84-86, 149-169).  So a brief that lacks nothing stays as it was
\* reviewed, but for a credential, which a message with a secret asks for again: whatever
\* follows the review or the plan is not taken up, where the design has a message after a
\* plan reset the brief (docs/design/2026-05-23-self-design-clarify.zh-CN.md:223).
OnlyAnswersChange ==
    [][draft # Nothing =>
         LET kept == {f \in DOMAIN draft.given : Holds(draft', f, draft.given[f])}
             changed == (DOMAIN draft.given \cup DOMAIN draft'.given) \ kept
         IN  /\ draft' # Nothing /\ DOMAIN draft.given \subseteq DOMAIN draft'.given
             /\ "intent_clarification" \notin last.asked => changed \subseteq last.asked
             /\ <<draft.intent, draft.clarified>> # <<draft'.intent, draft'.clarified>> =>
                    "intent_clarification" \in last.asked /\ ~draft.clarified /\ draft'.clarified
             /\ Blocking(draft) = {} =>
                    /\ changed \subseteq {"credentials"}
                    /\ draft'.intent = draft.intent /\ draft'.clarified = draft.clarified]_vars

\* An actor who answers what was asked comes closer to a review every time.
AnswersAreProgress ==
    [][\A m \in Messages :
         /\ Clarify(m) /\ last.asked # {} /\ last.asked \subseteq Blocking(draft)
         /\ \A f \in last.asked : Answered(f, m) # {}
         /\ "intent_clarification" \in last.asked => "substantive" \in m.traits
         => \/ draft'.clarified /\ ~draft.clarified
            \/ last.asked \subseteq DOMAIN draft'.given /\ DOMAIN draft.given # DOMAIN draft'.given]_vars
=============================================================================
