------------------------- MODULE ClarificationProofs -------------------------
(***************************************************************************)
(* Proofs about the conversation of Clarification, for every set of        *)
(* messages and every threshold: the types, that a brief under review is   *)
(* complete, that a question is about what is missing, that only answers   *)
(* change the brief and that every full answer is progress.                *)
(***************************************************************************)
EXTENDS Clarification, TLAPS

\* What a turn shows to be answered or confirmed was made from the stored brief.
Shown ==
    /\ last.kind \in {"clarify", "questionnaire", "brief_review"} => last.brief # Nothing
    /\ last.kind = "brief_review" => Blocking(draft) = {}
    /\ last.asked # {} => last.kind \in {"clarify", "questionnaire"}

IInv == TypeOK /\ Shown /\ AsksWhatBlocks

-----------------------------------------------------------------------------
(* The operators *)

\* The first blocking field is one of the blocking fields.
LEMMA FirstBlocks ==
    ASSUME NEW S, S # {}, S \subseteq Fields \cup {"intent_clarification"}
    PROVE  FirstOf(S) \in S
<1> DEFINE P(i) == Order[i] \in S /\ \A j \in 1..(i - 1) : Order[j] \notin S
<1>1. DOMAIN Order = 1..9
  BY DEF Order
<1>2. \E i \in 1..9 : Order[i] \in S
  <2>1. PICK f \in S : f \in Fields \cup {"intent_clarification"}
    OBVIOUS
  <2>2. \E i \in 1..9 : Order[i] = f
    <3>1. /\ Order[1] = "intent_clarification" /\ Order[2] = "target_runtime"
          /\ Order[3] = "scope" /\ Order[4] = "compliance_boundary"
          /\ Order[5] = "trigger" /\ Order[6] = "data_sources"
          /\ Order[7] = "credentials" /\ Order[8] = "approval_points"
          /\ Order[9] = "success_criteria"
      BY DEF Order
    <3> QED
      BY <2>1, <3>1 DEF Fields
  <2> QED
    BY <2>1, <2>2
<1>3. \E i \in 1..9 : P(i)
  <2>1. CASE Order[1] \in S
    BY <2>1
  <2>2. CASE Order[1] \notin S /\ Order[2] \in S
    BY <2>2
  <2>3. CASE Order[1] \notin S /\ Order[2] \notin S /\ Order[3] \in S
    BY <2>3
  <2>4. CASE (\A j \in 1..3 : Order[j] \notin S) /\ Order[4] \in S
    BY <2>4
  <2>5. CASE (\A j \in 1..4 : Order[j] \notin S) /\ Order[5] \in S
    BY <2>5
  <2>6. CASE (\A j \in 1..5 : Order[j] \notin S) /\ Order[6] \in S
    BY <2>6
  <2>7. CASE (\A j \in 1..6 : Order[j] \notin S) /\ Order[7] \in S
    BY <2>7
  <2>8. CASE (\A j \in 1..7 : Order[j] \notin S) /\ Order[8] \in S
    BY <2>8
  <2>9. CASE (\A j \in 1..8 : Order[j] \notin S) /\ Order[9] \in S
    BY <2>9
  <2> QED
    BY <1>2, <2>1, <2>2, <2>3, <2>4, <2>5, <2>6, <2>7, <2>8, <2>9
<1> QED
  BY <1>1, <1>3 DEF FirstOf

\* What blocks a draft are fields, or the question for the intent.
LEMMA BlockingFields ==
    ASSUME NEW d
    PROVE  Blocking(d) \subseteq Fields \cup {"intent_clarification"}
BY DEF Blocking, Required, Always, Fields

\* What fields hold is a function of some of them.
LEMMA GivenAre ==
    \A g : g \in Given <=> /\ DOMAIN g \subseteq Fields
                          /\ g = [f \in DOMAIN g |-> g[f]]
                          /\ \A f \in DOMAIN g : g[f] \in Values
BY DEF Given

\* An answer fills fields, with values that the message has.
LEMMA FoundFields ==
    ASSUME NEW m \in Messages, NEW asked
    PROVE  /\ Found(asked, m) \subseteq DOMAIN m.says
           /\ m.says \in Given
           /\ "intent_clarification" \notin asked => Found(asked, m) \subseteq asked
<1>1. m.says \in Given
  BY MessagesAssumption DEF MessageType
<1> QED
  BY <1>1 DEF Found, Answered

\* An empty draft and a first message are drafts.
LEMMA BeginDraft ==
    /\ Empty \in Drafts
    /\ \A m \in Messages : Begin(m) \in Drafts
<1>1. <<>> \in Given
  <2> DEFINE none == <<>>
  <2>1. DOMAIN none = {} /\ none = [f \in DOMAIN none |-> none[f]]
    OBVIOUS
  <2> HIDE DEF none
  <2>2. none \in Given
    BY <2>1, GivenAre
  <2> QED
    BY <2>2 DEF none
<1>2. Empty \in Drafts
  BY <1>1 DEF Empty, Drafts
<1>3. ASSUME NEW m \in Messages PROVE Begin(m) \in Drafts
  <2>1. m.traits \in SUBSET Traits
    BY MessagesAssumption DEF MessageType
  <2> QED
    BY <1>2, <2>1 DEF Begin, Empty, Drafts
<1> QED
  BY <1>2, <1>3

\* What becomes of the values of a draft: those that are found replace its own.
LEMMA UpdatedKeeps ==
    ASSUME NEW g \in Given, NEW m \in Messages, NEW found \in SUBSET DOMAIN m.says,
           m.says \in Given
    PROVE  /\ Updated(g, found, m) \in Given
           /\ DOMAIN Updated(g, found, m) = DOMAIN g \cup found
           /\ \A f \in DOMAIN g \ found : Updated(g, found, m)[f] = g[f]
<1> DEFINE u == Updated(g, found, m)
<1>1. /\ DOMAIN u = DOMAIN g \cup found
      /\ \A f \in DOMAIN g \cup found : u[f] = IF f \in found THEN m.says[f] ELSE g[f]
      /\ u = [f \in DOMAIN u |-> u[f]]
  BY DEF Updated
<1>2. /\ DOMAIN g \subseteq Fields /\ \A f \in DOMAIN g : g[f] \in Values
      /\ DOMAIN m.says \subseteq Fields /\ \A f \in DOMAIN m.says : m.says[f] \in Values
  BY GivenAre
<1> HIDE DEF u
<1>3. DOMAIN u \subseteq Fields /\ \A f \in DOMAIN u : u[f] \in Values
  BY <1>1, <1>2
<1>4. u \in Given
  BY <1>1, <1>3, GivenAre
<1> QED
  BY <1>1, <1>4 DEF u

\* What of a draft changes by an answer to a question: d became e.
AnswerOnly(d, e, asked) ==
    LET kept == {f \in DOMAIN d.given : Holds(e, f, d.given[f])}
        changed == (DOMAIN d.given \cup DOMAIN e.given) \ kept
    IN  /\ DOMAIN d.given \subseteq DOMAIN e.given
        /\ "intent_clarification" \notin asked => changed \subseteq asked
        /\ <<d.intent, d.clarified>> # <<e.intent, e.clarified>> =>
               "intent_clarification" \in asked /\ e.clarified

\* Nothing of a draft changes by a turn that takes nothing from the message.
LEMMA SameDraft ==
    ASSUME NEW d, NEW asked
    PROVE  AnswerOnly(d, d, asked)
BY DEF AnswerOnly, Holds

\* An answer is merged into a draft, and changes no more than it answers.
LEMMA MergeKeeps ==
    ASSUME NEW d \in Drafts, NEW m \in Messages, NEW asked
    PROVE  Merge(d, asked, m) \in Drafts /\ AnswerOnly(d, Merge(d, asked, m), asked)
<1> DEFINE found == Found(asked, m)
           e == Merge(d, asked, m)
<1>1. m.traits \in SUBSET Traits
  BY MessagesAssumption DEF MessageType
<1>2. /\ found \in SUBSET DOMAIN m.says /\ m.says \in Given
      /\ "intent_clarification" \notin asked => found \subseteq asked
  BY FoundFields
<1>3. d.intent \in SUBSET (Traits \cup {"text"}) /\ d.clarified \in BOOLEAN /\ d.given \in Given
  BY DEF Drafts
<1> DEFINE clear == "intent_clarification" \in asked /\ "substantive" \in m.traits
<1>4. e.given = Updated(d.given, found, m)
  BY DEF Merge
<1>5. /\ e.intent \in SUBSET (Traits \cup {"text"}) /\ e.clarified \in BOOLEAN
      /\ <<d.intent, d.clarified>> # <<e.intent, e.clarified>> => clear /\ e.clarified
  <2>1. CASE clear
    <3>1. e.intent = m.traits \cup {"text"} /\ e.clarified = TRUE
      BY <2>1, Zenon DEF Merge
    <3> QED
      BY <1>1, <2>1, <3>1
  <2>2. CASE ~clear
    <3>1. e.intent = d.intent /\ e.clarified = (d.clarified \/ FALSE)
      BY <2>2, Zenon DEF Merge
    <3>2. e.clarified = d.clarified
      BY <1>3, <3>1
    <3> HIDE DEF e
    <3> QED
      BY <1>3, <3>1, <3>2
  <2> QED
    BY <2>1, <2>2
<1>6. e = [intent |-> e.intent, clarified |-> e.clarified, given |-> e.given]
  BY DEF Merge
<1> DEFINE u == Updated(d.given, found, m)
<1> HIDE DEF found, e
<1>7. /\ e.given \in Given /\ DOMAIN e.given = DOMAIN d.given \cup found
      /\ \A f \in DOMAIN d.given \ found : e.given[f] = d.given[f]
  <2>1. /\ u \in Given /\ DOMAIN u = DOMAIN d.given \cup found
        /\ \A f \in DOMAIN d.given \ found : u[f] = d.given[f]
    BY ZenonT(30), <1>2, <1>3, UpdatedKeeps
  <2> HIDE DEF u
  <2>2. e.given = u
    BY <1>4 DEF u
  <2> QED
    BY <2>1, <2>2
<1>8. e \in Drafts
  BY <1>5, <1>6, <1>7 DEF Drafts
<1>9. AnswerOnly(d, e, asked)
  BY <1>2, <1>5, <1>7 DEF AnswerOnly, Holds
<1> QED
  BY <1>8, <1>9 DEF e

\* A step of the engine gives a draft, of the stored one by an answer to the last turn.
LEMMA SteppedKeeps ==
    ASSUME TypeOK, NEW m \in Messages
    PROVE  /\ Stepped(m) \in Drafts
           /\ draft # Nothing => AnswerOnly(draft, Stepped(m), last.asked)
<1>1. CASE draft = Nothing
  BY <1>1, BeginDraft, MergeKeeps DEF Stepped
<1>2. CASE draft # Nothing
  BY <1>2, MergeKeeps DEF Stepped, TypeOK
<1> QED
  BY <1>1, <1>2

-----------------------------------------------------------------------------
(* Each turn keeps the invariant and changes no more than it answers *)

Kept ==
    draft # Nothing => draft' # Nothing /\ AnswerOnly(draft, draft', last.asked)

\* A review of a complete draft keeps the invariant.
LEMMA ReviewKeeps ==
    ASSUME IInv, NEW d \in Drafts, Blocking(d) = {}, Review(d)
    PROVE  IInv'
<1>1. draft' = d /\ last' = [kind |-> "brief_review", asked |-> {}, brief |-> d]
  BY DEF Review, Turn
<1>2. TypeOK'
  BY <1>1, RoundsAssumption DEF IInv, TypeOK, Review
<1>3. Shown'
  BY <1>1, NothingAssumption DEF Shown, Blocking, Required, NeedsIntent
<1>4. AsksWhatBlocks'
  BY <1>1 DEF AsksWhatBlocks
<1> QED
  BY <1>2, <1>3, <1>4 DEF IInv

\* So does a question about what the draft lacks, or about a credential.
LEMMA AskKeeps ==
    ASSUME IInv, NEW d \in Drafts, NEW kind \in {"clarify", "questionnaire"},
           NEW asked \in SUBSET (Fields \cup {"intent_clarification"}),
           NEW r \in 0..(MaxRound + QuestionnaireAfter),
           kind = "clarify" => asked = {"credentials"} \/ asked \subseteq Blocking(d),
           kind = "questionnaire" => asked = Blocking(d),
           Ask(kind, asked, d, r)
    PROVE  IInv'
<1>1. draft' = d /\ round' = r /\ planned' = planned
      /\ last' = [kind |-> kind, asked |-> asked, brief |-> d]
  BY DEF Ask, Turn
<1>2. TypeOK'
  BY <1>1 DEF IInv, TypeOK
<1>3. Shown'
  BY <1>1, NothingAssumption DEF Shown
<1>4. AsksWhatBlocks'
  <2>1. Blocking(draft)' = Blocking(d)
    BY <1>1 DEF Blocking, Required, NeedsIntent, Holds
  <2> QED
    BY <1>1, <2>1 DEF AsksWhatBlocks
<1> QED
  BY <1>2, <1>3, <1>4 DEF IInv

LEMMA SecretKeeps ==
    ASSUME IInv, NEW m \in Messages, Secret(m)
    PROVE  IInv' /\ Kept
<1> DEFINE d == IF draft = Nothing THEN Empty ELSE draft
<1>1. d \in Drafts
  BY BeginDraft DEF IInv, TypeOK
<1>2. round + 1 \in 0..(MaxRound + QuestionnaireAfter)
  BY RoundsAssumption DEF Secret, IInv, TypeOK
<1>3. Ask("clarify", {"credentials"}, d, round + 1)
  BY DEF Secret
<1>4. {"credentials"} \in SUBSET (Fields \cup {"intent_clarification"})
  BY DEF Fields
<1>5. IInv'
  <2> HIDE DEF d
  <2> QED
    BY <1>1, <1>2, <1>3, <1>4, AskKeeps
<1>6. Kept
  BY <1>3, SameDraft DEF Kept, Ask
<1> QED
  BY <1>5, <1>6

LEMMA RepeatKeeps ==
    ASSUME IInv, NEW m \in Messages, Repeat(m)
    PROVE  IInv' /\ Kept
<1>1. last.brief = draft /\ draft # Nothing /\ draft \in Drafts
  BY DEF Repeat, RepeatsLast, IInv, Shown, TypeOK
<1>2. CASE last.kind = "brief_review" /\ Review(draft)
  <2>1. Blocking(draft) = {}
    BY <1>2 DEF IInv, Shown
  <2>2. IInv'
    BY <1>1, <1>2, <2>1, ReviewKeeps
  <2> QED
    BY <1>1, <1>2, <2>2, SameDraft DEF Review, Kept
<1>3. CASE /\ last.kind # "brief_review"
           /\ Ask(last.kind, last.asked, draft, round)
  <2>1. last.kind \in {"clarify", "questionnaire"}
    BY <1>3 DEF Repeat, RepeatsLast
  <2>2. last.asked \in SUBSET (Fields \cup {"intent_clarification"})
        /\ round \in 0..(MaxRound + QuestionnaireAfter)
    BY DEF IInv, TypeOK
  <2>3. /\ last.kind = "clarify" => last.asked = {"credentials"} \/ last.asked \subseteq Blocking(draft)
        /\ last.kind = "questionnaire" => last.asked = Blocking(draft)
    BY DEF IInv, AsksWhatBlocks
  <2>4. IInv'
    BY <1>1, <1>3, <2>1, <2>2, <2>3, AskKeeps
  <2> QED
    BY <1>1, <1>3, <2>4, SameDraft DEF Ask, Kept
<1> QED
  BY <1>1, <1>2, <1>3 DEF Repeat

LEMMA ClarifyKeeps ==
    ASSUME IInv, NEW m \in Messages, Clarify(m)
    PROVE  IInv' /\ Kept
<1> DEFINE d == Stepped(m)
           open == Blocking(d)
<1>1. /\ d \in Drafts
      /\ draft # Nothing => AnswerOnly(draft, d, last.asked)
  BY SteppedKeeps DEF IInv
<1>2. open \in SUBSET (Fields \cup {"intent_clarification"})
  BY BlockingFields
<1>3. round \in Nat /\ round \in 0..(MaxRound + QuestionnaireAfter)
  BY RoundsAssumption DEF IInv, TypeOK
<1>4. draft' = d => Kept
  BY <1>1, NothingAssumption DEF Kept
<1>5. CASE open = {} /\ Review(d)
  <2>1. IInv'
    <3> HIDE DEF d
    <3> QED
      BY <1>1, <1>5, ReviewKeeps
  <2> QED
    BY <1>4, <1>5, <2>1 DEF Review
<1>6. CASE /\ Ask("questionnaire", open, d, round)
  <2>1. IInv'
    <3> HIDE DEF d
    <3> QED
      BY <1>1, <1>2, <1>3, <1>6, AskKeeps
  <2> QED
    BY <1>4, <1>6, <2>1 DEF Ask
<1>7. CASE /\ open # {} /\ round < QuestionnaireAfter
           /\ Ask("clarify", {FirstOf(open)}, d, round + 1)
  <2>1. {FirstOf(open)} \subseteq open
    <3> HIDE DEF open
    <3> QED
      BY <1>2, <1>7, FirstBlocks
  <2>2. round + 1 \in 0..(MaxRound + QuestionnaireAfter)
    BY <1>3, <1>7, RoundsAssumption
  <2>3. {FirstOf(open)} \in SUBSET (Fields \cup {"intent_clarification"})
    BY <1>2, <2>1
  <2>4. IInv'
    <3> HIDE DEF d
    <3> QED
      BY <1>1, <1>7, <2>1, <2>2, <2>3, AskKeeps
  <2> QED
    BY <1>4, <1>7, <2>4 DEF Ask
<1> QED
  BY <1>5, <1>6, <1>7 DEF Clarify

\* A plan and an edit leave the brief; what the last turn asked is answered.
LEMMA PlanKeeps ==
    ASSUME IInv, NEW m \in Messages, Plan(m) \/ Edit(m)
    PROVE  IInv' /\ Kept
<1>1. draft' = draft /\ planned' \in BOOLEAN
      /\ round' \in 0..(MaxRound + QuestionnaireAfter)
  <2>1. planned \in BOOLEAN /\ round \in 0..(MaxRound + QuestionnaireAfter)
    BY DEF IInv, TypeOK
  <2>2. 0 \in 0..(MaxRound + QuestionnaireAfter)
    BY RoundsAssumption
  <2>3. CASE FailedTurn
    BY <2>1, <2>3 DEF FailedTurn
  <2>4. CASE planned' = TRUE /\ round' = 0 /\ UNCHANGED draft
    <3>1. planned' \in BOOLEAN
      BY <2>4, Zenon
    <3> QED
      BY <2>2, <2>4, <3>1
  <2>5. CASE round' = 0 /\ UNCHANGED <<draft, planned>>
    BY <2>1, <2>2, <2>5
  <2> QED
    BY <2>3, <2>4, <2>5 DEF Plan, Edit
<1>2. last'.kind = "plan" /\ last'.asked = {}
      /\ last' \in [kind : {"plan"}, asked : {{}}, brief : {draft, Nothing}]
  BY DEF Plan, Edit, FailedTurn, Turn
<1>3. TypeOK'
  BY <1>1, <1>2 DEF IInv, TypeOK
<1>4. Shown' /\ AsksWhatBlocks'
  BY <1>2 DEF Shown, AsksWhatBlocks
<1>5. Kept
  BY <1>1, SameDraft DEF Kept
<1> QED
  BY <1>3, <1>4, <1>5 DEF IInv

LEMMA InitInv == Init => IInv
<1> SUFFICES ASSUME Init PROVE IInv
  OBVIOUS
<1>1. TypeOK
  <2>1. 0 \in 0..(MaxRound + QuestionnaireAfter)
    BY RoundsAssumption
  <2>2. planned \in BOOLEAN
    BY Zenon DEF Init
  <2> QED
    BY <2>1, <2>2 DEF Init, TypeOK, NoTurn
<1>2. Shown /\ AsksWhatBlocks
  BY DEF Init, NoTurn, Shown, AsksWhatBlocks
<1> QED
  BY <1>1, <1>2 DEF IInv

LEMMA NextInv == IInv /\ [Next]_vars => IInv'
<1> SUFFICES ASSUME IInv, [Next]_vars PROVE IInv'
  OBVIOUS
<1>1. CASE UNCHANGED vars
  BY <1>1 DEF vars, IInv, TypeOK, Shown, AsksWhatBlocks, Blocking, Required, NeedsIntent, Holds
<1>2. CASE Next
  BY <1>2, SecretKeeps, RepeatKeeps, ClarifyKeeps, PlanKeeps DEF Next
<1> QED
  BY <1>1, <1>2

LEMMA Invariance == Spec => []IInv
BY InitInv, NextInv, PTL DEF Spec

-----------------------------------------------------------------------------

\* The brief, the round and the last turn keep their types, and the brief that the last
\* turn shows is the stored one, in every conversation of `_handle_clarify_turn`.
THEOREM ConversationTypeCorrect == Spec => []TypeOK
<1>1. IInv => TypeOK
  BY DEF IInv
<1> QED
  BY <1>1, Invariance, PTL

\* A brief under review, which is what a confirmation plans, lacks nothing that
\* `missing_fields` blocks on.
THEOREM ReviewsAreComplete == Spec => []ReviewIsComplete
<1>1. IInv => ReviewIsComplete
  <2> SUFFICES ASSUME IInv, last.kind = "brief_review" PROVE ReviewIsComplete
    BY DEF ReviewIsComplete
  <2>1. Required(draft) \ DOMAIN draft.given = {}
    BY DEF IInv, Shown, Blocking
  <2> QED
    BY <2>1 DEF ReviewIsComplete, Required
<1> QED
  BY <1>1, Invariance, PTL

\* A question is about what the stored brief lacks, a questionnaire about all of it,
\* also when `_stale_turn_reference_response` repeats it.
THEOREM QuestionsAreOpen == Spec => []AsksWhatBlocks
<1>1. IInv => AsksWhatBlocks
  BY DEF IInv
<1> QED
  BY <1>1, Invariance, PTL

\* What the last turn asks about the intent is open, and of a brief that lacks nothing it
\* asks for a credential at most.
LEMMA WhatIsAsked ==
    ASSUME IInv, draft # Nothing
    PROVE  /\ "intent_clarification" \in last.asked => ~draft.clarified
           /\ Blocking(draft) = {} => last.asked \subseteq {"credentials"}
<1>1. last.asked = {} \/ last.asked = {"credentials"} \/ last.asked \subseteq Blocking(draft)
  BY DEF IInv, Shown, AsksWhatBlocks
<1>2. "intent_clarification" \in Blocking(draft) => ~draft.clarified
  BY DEF Blocking, Required, Always, NeedsIntent
<1> QED
  BY <1>1, <1>2

\* A turn changes the brief only by what the message answers to the turn before, the
\* intent once, and a brief that lacks nothing by a credential only.
THEOREM OnlyAnswersCount == Spec => OnlyAnswersChange
<1> DEFINE kept == {f \in DOMAIN draft.given : Holds(draft', f, draft.given[f])}
           changed == (DOMAIN draft.given \cup DOMAIN draft'.given) \ kept
           Changes ==
             draft # Nothing =>
               /\ draft' # Nothing /\ DOMAIN draft.given \subseteq DOMAIN draft'.given
               /\ "intent_clarification" \notin last.asked => changed \subseteq last.asked
               /\ <<draft.intent, draft.clarified>> # <<draft'.intent, draft'.clarified>> =>
                      "intent_clarification" \in last.asked /\ ~draft.clarified /\ draft'.clarified
               /\ Blocking(draft) = {} =>
                      /\ changed \subseteq {"credentials"}
                      /\ draft'.intent = draft.intent /\ draft'.clarified = draft.clarified
<1>1. ASSUME IInv, Kept PROVE Changes
  <2> SUFFICES ASSUME draft # Nothing PROVE Changes
    OBVIOUS
  <2>1. AnswerOnly(draft, draft', last.asked) /\ draft' # Nothing
    BY <1>1 DEF Kept
  <2>2. /\ DOMAIN draft.given \subseteq DOMAIN draft'.given
        /\ "intent_clarification" \notin last.asked => changed \subseteq last.asked
        /\ <<draft.intent, draft.clarified>> # <<draft'.intent, draft'.clarified>> =>
               "intent_clarification" \in last.asked /\ draft'.clarified
    BY <2>1 DEF AnswerOnly
  <2>3. /\ "intent_clarification" \in last.asked => ~draft.clarified
        /\ Blocking(draft) = {} => last.asked \subseteq {"credentials"}
    BY <1>1, WhatIsAsked
  <2> HIDE DEF kept, changed
  <2> QED
    BY <2>1, <2>2, <2>3
<1>2. IInv /\ [Next]_vars => [Changes]_vars
  <2>1. IInv /\ Next => Kept
    BY SecretKeeps, RepeatKeeps, ClarifyKeeps, PlanKeeps DEF Next
  <2> QED
    BY <1>1, <2>1
<1> QED
  BY <1>2, Invariance, PTL DEF Spec, OnlyAnswersChange

-----------------------------------------------------------------------------
(* Progress *)

\* A full answer to open questions clarifies the intent or fills what was asked.
LEMMA AnswerFills ==
    ASSUME NEW d \in Drafts, NEW m \in Messages, NEW asked,
           asked # {}, asked \subseteq Blocking(d),
           \A f \in asked : Answered(f, m) # {},
           "intent_clarification" \in asked => "substantive" \in m.traits
    PROVE  \/ Merge(d, asked, m).clarified /\ ~d.clarified
           \/ asked \subseteq DOMAIN Merge(d, asked, m).given /\ DOMAIN d.given # DOMAIN Merge(d, asked, m).given
<1>1. CASE "intent_clarification" \in asked
  <2>1. Merge(d, asked, m).clarified
    BY <1>1 DEF Merge
  <2>2. "intent_clarification" \in Blocking(d) /\ "intent_clarification" \notin Required(d)
    BY <1>1 DEF Required, Always
  <2>3. ~d.clarified
    BY <2>2 DEF Blocking, NeedsIntent
  <2> QED
    BY <2>1, <2>3
<1>2. CASE "intent_clarification" \notin asked
  <2>1. asked \cap DOMAIN d.given = {}
    BY <1>2 DEF Blocking
  <2>2. ASSUME NEW f \in asked PROVE f \in Answered(f, m)
    BY <1>2 DEF Answered
  <2>3. asked \subseteq Found(asked, m)
    BY <2>2 DEF Found
  <2>4. DOMAIN Merge(d, asked, m).given = DOMAIN d.given \cup Found(asked, m)
    BY DEF Merge, Updated
  <2> QED
    BY <2>1, <2>3, <2>4
<1> QED
  BY <1>1, <1>2

\* An actor who answers all that an open question asks clarifies the intent, or fills
\* what was asked for, whatever `step` reads in the message besides.
THEOREM AnswersMakeProgress == Spec => AnswersAreProgress
<1> DEFINE Answers(m) ==
             /\ Clarify(m) /\ last.asked # {} /\ last.asked \subseteq Blocking(draft)
             /\ \A f \in last.asked : Answered(f, m) # {}
             /\ "intent_clarification" \in last.asked => "substantive" \in m.traits
           Progress ==
             \/ draft'.clarified /\ ~draft.clarified
             \/ last.asked \subseteq DOMAIN draft'.given /\ DOMAIN draft.given # DOMAIN draft'.given
<1>1. IInv /\ [Next]_vars => [\A m \in Messages : Answers(m) => Progress]_vars
  <2> SUFFICES ASSUME IInv, NEW m \in Messages, Answers(m) PROVE Progress
    OBVIOUS
  <2>1. draft # Nothing /\ draft \in Drafts
    BY DEF IInv, Shown, TypeOK
  <2>2. draft' = Merge(draft, last.asked, m)
    <3>1. Stepped(m) = Merge(draft, last.asked, m)
      BY <2>1 DEF Stepped
    <3>2. draft' = Stepped(m)
      BY DEF Clarify, Review, Ask
    <3> QED
      BY <3>1, <3>2
  <2> QED
    BY <2>1, <2>2, AnswerFills
<1> QED
  BY <1>1, Invariance, PTL DEF Spec, AnswersAreProgress
=============================================================================
