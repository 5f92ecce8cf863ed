---------------------------- MODULE SessionTurns ----------------------------
(***************************************************************************)
(* One session of the FDE service: its row in `sessions`, its rows in      *)
(* `turns` and `artifacts` (loom/state/store.py), and the request handlers *)
(* of loom/service/routes/sessions.py that read and write them.            *)
(*                                                                         *)
(* The handlers are synchronous functions that FastAPI runs in a thread    *)
(* pool, so requests interleave.  Every store method opens a connection of *)
(* its own; Python's sqlite3 runs SELECT outside a transaction and opens   *)
(* one at the first INSERT, UPDATE or DELETE.  A step of this module is    *)
(* therefore one SELECT, one write transaction or one archive append; a    *)
(* read whose only effect is the choice of an answer is joined to the step *)
(* after it.  The planner is called with no transaction open (ADR 0025).   *)
(*                                                                         *)
(* Abstractions.  A request that opens a turn names that turn, the IR the  *)
(* turn produces and the brief it writes.  target_runtime and scope are    *)
(* the token `ctx`.  The archive is the set of events appended; its file   *)
(* format is the subject of ArchiveChain.                                  *)
(***************************************************************************)
EXTENDS Naturals

CONSTANTS
    Request,             \* the requests served for this session
    Creator,             \* the request that creates the session
    Nothing,             \* SQL NULL, and the absence of a row
    CreatePaths,         \* how the session may start: blank, or seeded from a template
    Ops,                 \* the operations the other requests may perform
    Messages,            \* the user messages, each a set of Traits
    QuestionnaireAfter,  \* QUESTIONNAIRE_AFTER_ROUNDS
    ArchiveMayFail,      \* an archive append may raise (disk, broken chain)
    MayCrash             \* the process may stop with requests in flight

Traits == {"secret", "confirm", "edit", "ref"}
AllOps == {"turn", "config", "compile", "download", "delete"}

ASSUME RequestAssumption == Creator \in Request /\ Nothing \notin Request
ASSUME PathsAssumption == CreatePaths \subseteq {"blank", "seed"}
ASSUME OpsAssumption == Ops \subseteq AllOps
ASSUME MessagesAssumption == Messages \subseteq SUBSET Traits
ASSUME RoundsAssumption == QuestionnaireAfter \in Nat
ASSUME FaultAssumption == ArchiveMayFail \in BOOLEAN /\ MayCrash \in BOOLEAN

Maybe(S) == S \cup {Nothing}
Token == Maybe(Request)

States == {"init", "llm_config_set", "validated", "compiled", "downloaded"}
Kinds == {"plan", "clarify", "questionnaire", "brief_review"}
Events == {"session.created", "llm_config_inherited",
           "session.llm_config_set", "session.deleted",
           "turn.started", "turn.clarify_started", "turn.questionnaire_emitted",
           "turn.clarify_replied", "turn.succeeded", "turn.failed",
           "template_seeded", "compile.produced", "artifact.downloaded"}

SessionRow == [state : States, ir : Token, brief : Token, ctx : Token,
               round : Nat, selfDesign : BOOLEAN, key : Token, rev : Nat]
TurnRow == [status : {"running", "succeeded", "failed"}, kind : Kinds, at : Nat,
            rev : Nat, irBefore : Token, ir : Token, brief : Token]

\* What a handler holds in its own variables between two steps.
Seen == [kind : Kinds, brief : Token, asked : BOOLEAN]
Outcome == [kind : Kinds, ir : Token, brief : Token, round : Nat]

ASSUME NothingAssumption == /\ Nothing \notin SessionRow /\ Nothing \notin TurnRow
                            /\ Nothing \notin Seen /\ Nothing \notin Outcome

Local == [path : {"none", "blank", "seed", "secret", "turn", "clarify", "confirm", "edit"},
          msg : SUBSET Traits, snap : Maybe(SessionRow), last : Maybe(Seen),
          rev : Nat, ir : Token, at : Nat, out : Maybe(Outcome),
          err : {"none", "blocked", "rejected", "error"}, code : Nat]

Labels == {"idle", "open", "context", "list", "select", "insert", "started",
           "clarify", "questionnaire", "plan", "finish", "commit",
           "replied", "succeeded", "seeded", "fail", "fail_commit", "failed",
           "config", "config_set", "artifact", "produced", "download",
           "downloaded", "delete", "deleted", "done"}

VARIABLES
    sess,       \* the row of `sessions`, or Nothing
    turns,      \* the rows of `turns`, by the request that opened the turn
    artifacts,  \* the IR each compile request left an artifact of
    archived,   \* the archive events appended
    clock,      \* the last created_at handed to a turn
    pc, loc     \* where each handler is and what it holds

tables == <<sess, turns, artifacts>>
vars == <<sess, turns, artifacts, archived, clock, pc, loc>>

Fresh == [path |-> "none", msg |-> {}, snap |-> Nothing, last |-> Nothing,
          rev |-> 0, ir |-> Nothing, at |-> 0, out |-> Nothing,
          err |-> "none", code |-> 0]

Init ==
    /\ sess = Nothing
    /\ turns = [r \in Request |-> Nothing]
    /\ artifacts = [r \in Request |-> Nothing]
    /\ archived = {}
    /\ clock = 0
    /\ pc = [r \in Request |-> "idle"]
    /\ loc = [r \in Request |-> Fresh]

-----------------------------------------------------------------------------
(* Moving a handler on. *)

Goto(r, l) == pc' = [pc EXCEPT ![r] = l]
Keep(r, local) == loc' = [loc EXCEPT ![r] = local]
Answer(r, code) == Goto(r, "done") /\ Keep(r, [Fresh EXCEPT !.code = code])

Log(r, event) == archived' = archived \cup {<<event, r>>}

\* An append that raises leaves the event out of the archive or in it: the line is
\* flushed when the file is closed, and closing may raise after it was written.
LogRaises(r, event) == ArchiveMayFail /\ (UNCHANGED archived \/ Log(r, event))

\* A step that only appends `event`, goes on to `next`, and answers 500 if the
\* append raises.
LogThenGoto(r, event, next) ==
    /\ \/ Log(r, event) /\ Goto(r, next) /\ UNCHANGED loc
       \/ LogRaises(r, event) /\ Answer(r, 500)
    /\ UNCHANGED <<tables, clock>>

LogThenAnswer(r, event, code) ==
    /\ \/ Log(r, event) /\ Answer(r, code)
       \/ LogRaises(r, event) /\ Answer(r, 500)
    /\ UNCHANGED <<tables, clock>>

-----------------------------------------------------------------------------
(* POST /sessions: the row is inserted and the events are appended inside  *)
(* one transaction; a template then seeds the session in further ones.     *)

ReceiveCreate(r) ==
    /\ pc[r] = "idle" /\ r = Creator
    /\ \/ /\ Log(r, "session.created")
          /\ Goto(r, "open")
          /\ \E path \in CreatePaths : Keep(r, [Fresh EXCEPT !.path = path])
       \/ LogRaises(r, "session.created") /\ Answer(r, 500)
    /\ UNCHANGED <<tables, clock>>

NewSession(r, hasDefaults) ==
    [state |-> IF hasDefaults THEN "llm_config_set" ELSE "init",
     ir |-> Nothing, brief |-> Nothing, ctx |-> Nothing, round |-> 0,
     selfDesign |-> loc[r].path = "blank",
     key |-> IF hasDefaults THEN r ELSE Nothing, rev |-> 0]

CommitCreate(r) ==
    /\ pc[r] = "open"
    /\ \/ /\ \E hasDefaults \in BOOLEAN :
               /\ sess' = NewSession(r, hasDefaults)
               /\ IF hasDefaults THEN Log(r, "llm_config_inherited") ELSE UNCHANGED archived
          /\ \/ loc[r].path = "blank" /\ Answer(r, 200)
             \/ loc[r].path = "seed" /\ Goto(r, "context") /\ UNCHANGED loc
             \/ loc[r].path = "seed" /\ Answer(r, 400)     \* unknown template or scope
       \/ /\ LogRaises(r, "llm_config_inherited") /\ Answer(r, 500)
          /\ UNCHANGED sess                                 \* rolled back
    /\ UNCHANGED <<turns, artifacts, clock>>

SetPlanningContext(r) ==
    /\ pc[r] = "context"
    /\ IF sess = Nothing
       THEN Answer(r, 500) /\ UNCHANGED sess
       ELSE /\ sess' = [sess EXCEPT !.ctx = r, !.selfDesign = FALSE, !.rev = @ + 1]
            /\ \/ /\ Goto(r, "select")
                  /\ Keep(r, [loc[r] EXCEPT !.out = [kind |-> "plan", ir |-> r,
                                                     brief |-> Nothing, round |-> 0]])
               \/ Answer(r, 400)                     \* the template's IR is invalid
    /\ UNCHANGED <<turns, artifacts, archived, clock>>

-----------------------------------------------------------------------------
(* POST /sessions/{id}/turns. *)

\* get_session_with_revision.
ReceiveTurn(r, m) ==
    /\ pc[r] = "idle" /\ r # Creator
    /\ IF sess = Nothing
       THEN Answer(r, 404)
       ELSE /\ Goto(r, "list")
            /\ Keep(r, [Fresh EXCEPT !.path = IF "secret" \in m THEN "secret" ELSE "turn",
                                     !.msg = m, !.snap = sess])
    /\ UNCHANGED <<tables, archived, clock>>

\* list_turns orders by created_at; the handler keeps the last row.
IsLastTurn(q) == /\ turns[q] # Nothing
                 /\ \A p \in Request : turns[p] # Nothing => turns[p].at <= turns[q].at

Asked(t) == t.status = "succeeded" /\ t.kind \in {"clarify", "questionnaire"}

ListTurns(r) ==
    /\ pc[r] = "list"
    /\ Goto(r, "select")
    /\ \/ \E q \in Request :
            /\ IsLastTurn(q)
            /\ Keep(r, [loc[r] EXCEPT !.last = [kind |-> turns[q].kind,
                                                brief |-> turns[q].brief,
                                                asked |-> Asked(turns[q])]])
       \/ (\A q \in Request : turns[q] = Nothing) /\ UNCHANGED loc
    /\ UNCHANGED <<tables, archived, clock>>

\* The IR the caller of SessionStore.create_turn passes as ir_before.
CallerIR(r) == IF loc[r].path = "seed" THEN Nothing ELSE loc[r].snap.ir

\* Mutant: expected_revision is not passed.
NoExpectedRevision(r) == FALSE

\* The two staleness tests of create_turn; seeding passes no expected_revision.
RevisionMoved(r) == loc[r].path # "seed" /\ sess.rev # loc[r].snap.rev
IRMoved(r) == sess.ir # Nothing /\ sess.ir # CallerIR(r)

\* create_turn, its SELECT.
CreateTurnSelect(r) ==
    /\ pc[r] = "select"
    /\ \/ sess = Nothing /\ Answer(r, 500) /\ UNCHANGED clock
       \/ /\ sess # Nothing
          /\ RevisionMoved(r) \/ IRMoved(r)
          /\ Answer(r, IF loc[r].path = "seed" THEN 500 ELSE 409)
          /\ UNCHANGED clock
       \/ /\ sess # Nothing
          /\ ~RevisionMoved(r) /\ ~IRMoved(r)
          /\ clock' = clock + 1
          /\ Keep(r, [loc[r] EXCEPT !.rev = sess.rev, !.at = clock + 1,
                                    !.ir = IF sess.ir # Nothing THEN sess.ir ELSE CallerIR(r)])
          /\ Goto(r, "insert")
    /\ UNCHANGED <<tables, archived>>

\* create_turn, its INSERT: no statement ties it to the SELECT before it.
CreateTurnInsert(r) ==
    /\ pc[r] = "insert"
    /\ turns' = [turns EXCEPT ![r] =
                   [status |-> "running",
                    kind |-> IF loc[r].path = "secret" THEN "clarify" ELSE "plan",
                    at |-> loc[r].at, rev |-> loc[r].rev, irBefore |-> loc[r].ir,
                    ir |-> Nothing, brief |-> Nothing]]
    /\ Goto(r, IF loc[r].path = "seed" THEN "finish" ELSE "started")
    /\ UNCHANGED <<sess, artifacts, archived, clock, loc>>

\* The brief a confirmation plans from: the session's, or the last turn's.
DraftUnderReview(r) ==
    IF loc[r].snap.brief # Nothing THEN loc[r].snap.brief ELSE loc[r].last.brief

ConfirmsReview(r) == /\ "confirm" \in loc[r].msg
                     /\ loc[r].last # Nothing
                     /\ loc[r].last.kind = "brief_review"
                     /\ DraftUnderReview(r) # Nothing

ShouldRunClarify(r) == /\ loc[r].snap.selfDesign
                       /\ ~(loc[r].snap.ir # Nothing /\ "edit" \in loc[r].msg)

Route(r) == CASE loc[r].path = "secret" -> "secret"
              [] loc[r].path # "secret" /\ ConfirmsReview(r) -> "confirm"
              [] loc[r].path # "secret" /\ ~ConfirmsReview(r) /\ ShouldRunClarify(r) -> "clarify"
              [] OTHER -> "edit"

\* create_turn reads its row back, then turn.started is appended; the append is
\* outside every try block, so a turn whose append raises stays running.
ArchiveStarted(r) ==
    /\ pc[r] = "started"
    /\ \/ /\ turns[r] # Nothing
          /\ Log(r, "turn.started")
          /\ Goto(r, IF Route(r) \in {"secret", "clarify"} THEN "clarify" ELSE "plan")
          /\ Keep(r, [loc[r] EXCEPT !.path = Route(r)])
       \/ turns[r] # Nothing /\ LogRaises(r, "turn.started") /\ Answer(r, 500)
       \/ turns[r] = Nothing /\ Answer(r, 500) /\ UNCHANGED archived
    /\ UNCHANGED <<tables, clock>>

-----------------------------------------------------------------------------
(* _handle_clarify_turn: it has no except clause. *)

Propose(r, kind, ir, brief, round) ==
    Keep(r, [loc[r] EXCEPT !.out = [kind |-> kind, ir |-> ir,
                                    brief |-> brief, round |-> round]])

Or(token, default) == IF token # Nothing THEN token ELSE default

\* A raw secret: the redacted draft is kept and the round counted.
ClarifySecret(r) ==
    /\ loc[r].path = "secret"
    /\ Propose(r, "clarify", Nothing, Or(loc[r].snap.brief, r), loc[r].snap.round + 1)
    /\ Goto(r, "finish")

DraftAgain(r) == Or(loc[r].last.brief, loc[r].snap.brief)

\* A message that names an older turn gets the last question again.
RepeatsLast(r) ==
    /\ "ref" \in loc[r].msg /\ loc[r].last # Nothing
    /\ \/ loc[r].last.kind = "brief_review" /\ DraftAgain(r) # Nothing
       \/ loc[r].last.kind \in {"clarify", "questionnaire"} /\ loc[r].last.asked

ClarifyAgain(r) ==
    /\ loc[r].path = "clarify" /\ RepeatsLast(r)
    /\ IF loc[r].last.kind = "brief_review"
       THEN Propose(r, "brief_review", Nothing, DraftAgain(r), 0)
       ELSE Propose(r, loc[r].last.kind, Nothing, Or(DraftAgain(r), r), loc[r].snap.round)
    /\ Goto(r, "finish")

\* A step of the clarify engine on the snapshot: either the merged draft has no
\* blocking field left, or one is asked about, or after enough rounds all of them.
ClarifyStep(r) ==
    /\ loc[r].path = "clarify" /\ ~RepeatsLast(r)
    /\ \/ Propose(r, "brief_review", Nothing, r, 0) /\ Goto(r, "finish")
       \/ /\ loc[r].snap.round >= QuestionnaireAfter
          /\ Propose(r, "questionnaire", Nothing, r, loc[r].snap.round)
          /\ Goto(r, "questionnaire")
       \/ /\ loc[r].snap.round < QuestionnaireAfter
          /\ Propose(r, "clarify", Nothing, r, loc[r].snap.round + 1)
          /\ Goto(r, "finish")

\* turn.clarify_started is appended first; what follows reads only the snapshot.
RunEngine(r) ==
    /\ pc[r] = "clarify"
    /\ \/ Log(r, "turn.clarify_started") /\ (ClarifySecret(r) \/ ClarifyAgain(r) \/ ClarifyStep(r))
       \/ LogRaises(r, "turn.clarify_started") /\ Answer(r, 500)
    /\ UNCHANGED <<tables, clock>>

ArchiveQuestionnaire(r) ==
    pc[r] = "questionnaire" /\ LogThenGoto(r, "turn.questionnaire_emitted", "finish")

-----------------------------------------------------------------------------
(* The planner, or a deterministic edit, on the snapshot; no transaction.  *)

PlanAccepted(r) ==
    /\ Propose(r, "plan", r, IF loc[r].path = "confirm" THEN DraftUnderReview(r) ELSE Nothing, 0)
    /\ Goto(r, "finish")

\* PlannerPayloadBlocked, EditRejected (an edit of an IR), or any other error
\* of the planner or the validator.
PlanFailed(r) ==
    /\ \E err \in {"blocked", "rejected", "error"} :
         /\ err = "rejected" => loc[r].path = "edit" /\ loc[r].snap.ir # Nothing
         /\ Keep(r, [loc[r] EXCEPT !.err = err])
    /\ Goto(r, "fail")

RunPlanner(r) ==
    /\ pc[r] = "plan"
    /\ PlanAccepted(r) \/ PlanFailed(r)
    /\ UNCHANGED <<tables, archived, clock>>

-----------------------------------------------------------------------------
(* finish_turn_succeeded, finish_turn_clarify, finish_turn_brief_review.   *)

\* An exception inside the try block of a planning handler marks the turn
\* failed; the clarify and seeding handlers let it through.
Raise(r) == IF loc[r].path \in {"confirm", "edit"}
            THEN Goto(r, "fail") /\ Keep(r, [loc[r] EXCEPT !.err = "error"])
            ELSE Answer(r, 500)

FinishSelect(r) ==
    /\ pc[r] = "finish"
    /\ IF turns[r] # Nothing /\ turns[r].status = "running"
       THEN Goto(r, "commit") /\ UNCHANGED loc
       ELSE Raise(r)
    /\ UNCHANGED <<tables, archived, clock>>

\* Mutant: the UPDATE has no WHERE revision.
NoCompareAndSwap(r) == sess # Nothing

\* UPDATE sessions ... WHERE revision = base_revision.
BaseIsCurrent(r) == sess # Nothing /\ sess.rev = loc[r].rev

\* Mutants: no `revision = revision + 1`; the state left alone.
AcceptedSameRevision(r, out) ==
    IF out.kind = "plan"
    THEN [sess EXCEPT !.state = "validated", !.ir = out.ir, !.round = 0,
                      !.brief = Or(out.brief, @)]
    ELSE [sess EXCEPT !.brief = out.brief, !.round = out.round, !.ctx = r]
AcceptedSameState(r, out) ==
    IF out.kind = "plan"
    THEN [sess EXCEPT !.ir = out.ir, !.round = 0, !.brief = Or(out.brief, @), !.rev = @ + 1]
    ELSE [sess EXCEPT !.brief = out.brief, !.round = out.round, !.ctx = r, !.rev = @ + 1]

Accepted(r, out) ==
    IF out.kind = "plan"
    THEN [sess EXCEPT !.state = "validated", !.ir = out.ir, !.round = 0,
                      !.brief = Or(out.brief, @), !.rev = @ + 1]
    ELSE [sess EXCEPT !.brief = out.brief, !.round = out.round, !.ctx = r, !.rev = @ + 1]

\* The UPDATE of the turn's own row, when it is still there and running.
UpdateTurn(r, row) ==
    turns' = IF turns[r] # Nothing /\ turns[r].status = "running"
             THEN [turns EXCEPT ![r] = row] ELSE turns

FinishAccept(r) ==
    /\ BaseIsCurrent(r)
    /\ sess' = Accepted(r, loc[r].out)
    /\ UpdateTurn(r, [turns[r] EXCEPT !.status = "succeeded", !.kind = loc[r].out.kind,
                                      !.ir = loc[r].out.ir, !.brief = loc[r].out.brief])
    /\ Goto(r, CASE loc[r].path = "seed" -> "seeded"
                 [] loc[r].path = "edit" -> "succeeded"
                 [] OTHER -> "replied")
    /\ UNCHANGED loc

\* Mutant: the conflict is answered but the turn is left running.
ConflictLeavesTurn(r) ==
    /\ ~BaseIsCurrent(r)
    /\ Answer(r, IF loc[r].path = "seed" THEN 500 ELSE 409)
    /\ UNCHANGED <<sess, turns>>

\* Mutant: the handler goes on although the conflict failed its turn.
ConflictGoesOn(r) ==
    /\ ~BaseIsCurrent(r)
    /\ UpdateTurn(r, [turns[r] EXCEPT !.status = "failed"])
    /\ Goto(r, IF loc[r].path = "edit" THEN "succeeded" ELSE "replied")
    /\ UNCHANGED <<sess, loc>>

FinishConflict(r) ==
    /\ ~BaseIsCurrent(r)
    /\ UpdateTurn(r, [turns[r] EXCEPT !.status = "failed"])
    /\ Answer(r, IF loc[r].path = "seed" THEN 500 ELSE 409)
    /\ UNCHANGED sess

FinishCommit(r) ==
    /\ pc[r] = "commit"
    /\ FinishAccept(r) \/ FinishConflict(r)
    /\ UNCHANGED <<artifacts, archived, clock>>

-----------------------------------------------------------------------------
(* After the commit: the row is read back and the outcome archived.        *)

RowIsGone(r) == turns[r] = Nothing /\ Raise(r) /\ UNCHANGED archived

LogOutcome(r, event, next) ==
    \/ Log(r, event) /\ next
    \/ LogRaises(r, event) /\ Raise(r)

ArchiveReplied(r) ==
    /\ pc[r] = "replied"
    /\ \/ RowIsGone(r)
       \/ /\ turns[r] # Nothing
          /\ LogOutcome(r, "turn.clarify_replied",
                        IF loc[r].path = "confirm"
                        THEN Goto(r, "succeeded") /\ UNCHANGED loc
                        ELSE Answer(r, 200))
    /\ UNCHANGED <<tables, clock>>

\* A confirmed plan has read its row back before turn.clarify_replied.
ArchiveSucceeded(r) ==
    /\ pc[r] = "succeeded"
    /\ \/ loc[r].path = "edit" /\ RowIsGone(r)
       \/ /\ loc[r].path = "edit" => turns[r] # Nothing
          /\ LogOutcome(r, "turn.succeeded", Answer(r, 200))
    /\ UNCHANGED <<tables, clock>>

ArchiveSeeded(r) ==
    /\ pc[r] = "seeded"
    /\ \/ RowIsGone(r)
       \/ /\ turns[r] # Nothing
          /\ LogOutcome(r, "template_seeded", Answer(r, 200))
    /\ UNCHANGED <<tables, clock>>

\* finish_turn_failed: require_turn, then an UPDATE that does not look at the
\* status the turn has by then.
FailSelect(r) ==
    /\ pc[r] = "fail"
    /\ IF turns[r] = Nothing THEN Answer(r, 500) ELSE Goto(r, "fail_commit") /\ UNCHANGED loc
    /\ UNCHANGED <<tables, archived, clock>>

\* Mutant: ir_after is cleared along with the status.
FailCommitClears(r) ==
    /\ pc[r] = "fail_commit"
    /\ turns' = IF turns[r] = Nothing THEN turns
                ELSE [turns EXCEPT ![r].status = "failed", ![r].ir = Nothing]
    /\ Goto(r, "failed")
    /\ UNCHANGED <<sess, artifacts, archived, clock, loc>>

FailCommit(r) ==
    /\ pc[r] = "fail_commit"
    /\ turns' = IF turns[r] = Nothing THEN turns ELSE [turns EXCEPT ![r].status = "failed"]
    /\ Goto(r, "failed")
    /\ UNCHANGED <<sess, artifacts, archived, clock, loc>>

FailedCode(r) == CASE loc[r].err = "blocked" -> 422
                   [] loc[r].err = "rejected" -> 400
                   [] OTHER -> 200

\* A rejected edit is answered without an archive event.
ArchiveFailed(r) ==
    /\ pc[r] = "failed"
    /\ IF turns[r] # Nothing /\ loc[r].err # "rejected"
       THEN LogThenAnswer(r, "turn.failed", FailedCode(r))
       ELSE /\ Answer(r, IF turns[r] = Nothing THEN 500 ELSE FailedCode(r))
            /\ UNCHANGED <<tables, archived, clock>>

-----------------------------------------------------------------------------
(* PATCH /sessions/{id}/llm-config: the state written is computed from a   *)
(* row read before, and the UPDATE does not check the revision.            *)

ReceiveConfig(r) ==
    /\ pc[r] = "idle" /\ r # Creator
    /\ IF sess = Nothing
       THEN Answer(r, 404)
       ELSE Goto(r, "config") /\ Keep(r, [Fresh EXCEPT !.snap = sess])
    /\ UNCHANGED <<tables, archived, clock>>

Configured(state) == IF state = "init" THEN "llm_config_set" ELSE state

\* Mutant: the UPDATE does not advance the revision.
WriteConfigSameRevision(r) ==
    /\ pc[r] = "config"
    /\ sess' = IF sess = Nothing THEN sess
               ELSE [sess EXCEPT !.state = Configured(loc[r].snap.state), !.key = r]
    /\ Goto(r, "config_set")
    /\ UNCHANGED <<turns, artifacts, archived, clock, loc>>

WriteConfig(r) ==
    /\ pc[r] = "config"
    /\ sess' = IF sess = Nothing THEN sess
               ELSE [sess EXCEPT !.state = Configured(loc[r].snap.state),
                                 !.key = r, !.rev = @ + 1]
    /\ Goto(r, "config_set")
    /\ UNCHANGED <<turns, artifacts, archived, clock, loc>>

ArchiveConfig(r) ==
    pc[r] = "config_set" /\ LogThenAnswer(r, "session.llm_config_set", 200)

-----------------------------------------------------------------------------
(* POST /sessions/{id}/compile, as far as it touches the session store:    *)
(* the IR compiled is the one read first, and the state is written         *)
(* whatever became of the session meanwhile.                               *)

ReceiveCompile(r) ==
    /\ pc[r] = "idle" /\ r # Creator
    /\ \/ sess = Nothing /\ Answer(r, 404)
       \/ /\ sess # Nothing
          /\ sess.state = "init" \/ sess.ir = Nothing
          /\ Answer(r, 409)
       \/ /\ sess # Nothing
          /\ sess.state # "init" /\ sess.ir # Nothing
          /\ \/ Goto(r, "artifact") /\ Keep(r, [Fresh EXCEPT !.snap = sess])
             \/ Answer(r, 400)          \* target or binding refused
    /\ UNCHANGED <<tables, archived, clock>>

CreateArtifact(r) ==
    /\ pc[r] = "artifact"
    /\ artifacts' = [artifacts EXCEPT ![r] = loc[r].snap.ir]
    /\ sess' = IF sess = Nothing THEN sess ELSE [sess EXCEPT !.state = "compiled"]
    /\ Goto(r, "produced")
    /\ UNCHANGED <<turns, archived, clock, loc>>

ArchiveCompile(r) ==
    /\ pc[r] = "produced"
    /\ IF artifacts[r] = Nothing
       THEN Answer(r, 500) /\ UNCHANGED <<tables, archived, clock>>
       ELSE LogThenAnswer(r, "compile.produced", 200)

(* GET /sessions/{id}/artifacts/{artifact_id}. *)

ReceiveDownload(r) ==
    /\ pc[r] = "idle" /\ r # Creator
    /\ \E a \in Request :
         IF artifacts[a] = Nothing THEN Answer(r, 404) ELSE Goto(r, "download") /\ UNCHANGED loc
    /\ UNCHANGED <<tables, archived, clock>>

MarkDownloaded(r) ==
    /\ pc[r] = "download"
    /\ sess' = IF sess = Nothing THEN sess ELSE [sess EXCEPT !.state = "downloaded"]
    /\ Goto(r, "downloaded")
    /\ UNCHANGED <<turns, artifacts, archived, clock, loc>>

ArchiveDownload(r) ==
    pc[r] = "downloaded" /\ LogThenAnswer(r, "artifact.downloaded", 200)

-----------------------------------------------------------------------------
(* DELETE /sessions/{id}. *)

ReceiveDelete(r) ==
    /\ pc[r] = "idle" /\ r # Creator
    /\ IF sess = Nothing THEN Answer(r, 404) ELSE Goto(r, "delete") /\ UNCHANGED loc
    /\ UNCHANGED <<tables, archived, clock>>

DeleteRows(r) ==
    /\ pc[r] = "delete"
    /\ sess' = Nothing
    /\ turns' = [q \in Request |-> Nothing]
    /\ artifacts' = [q \in Request |-> Nothing]
    /\ Goto(r, "deleted")
    /\ UNCHANGED <<archived, clock, loc>>

ArchiveDelete(r) ==
    pc[r] = "deleted" /\ LogThenAnswer(r, "session.deleted", 204)

-----------------------------------------------------------------------------
InFlight == {r \in Request : pc[r] \notin {"idle", "done"}}

\* The process stops; nothing looks for what it left half done when it restarts.
Crash ==
    /\ MayCrash /\ InFlight # {}
    /\ pc' = [r \in Request |-> IF r \in InFlight THEN "done" ELSE pc[r]]
    /\ loc' = [r \in Request |-> IF r \in InFlight THEN Fresh ELSE loc[r]]
    /\ UNCHANGED <<tables, archived, clock>>

Receive(r) ==
    \/ ReceiveCreate(r)
    \/ "turn" \in Ops /\ \E m \in Messages : ReceiveTurn(r, m)
    \/ "config" \in Ops /\ ReceiveConfig(r)
    \/ "compile" \in Ops /\ ReceiveCompile(r)
    \/ "download" \in Ops /\ ReceiveDownload(r)
    \/ "delete" \in Ops /\ ReceiveDelete(r)

Create(r) == CommitCreate(r) \/ SetPlanningContext(r)

OpenTurn(r) == ListTurns(r) \/ CreateTurnSelect(r) \/ CreateTurnInsert(r) \/ ArchiveStarted(r)

RunTurn(r) == RunEngine(r) \/ ArchiveQuestionnaire(r) \/ RunPlanner(r)

FinishTurn(r) == \/ FinishSelect(r) \/ FinishCommit(r)
                 \/ ArchiveReplied(r) \/ ArchiveSucceeded(r) \/ ArchiveSeeded(r)
                 \/ FailSelect(r) \/ FailCommit(r) \/ ArchiveFailed(r)

Other(r) == \/ WriteConfig(r) \/ ArchiveConfig(r)
            \/ CreateArtifact(r) \/ ArchiveCompile(r)
            \/ MarkDownloaded(r) \/ ArchiveDownload(r)
            \/ DeleteRows(r) \/ ArchiveDelete(r)

\* A step of the handler of r once the request is received.
Step(r) == Create(r) \/ OpenTurn(r) \/ RunTurn(r) \/ FinishTurn(r) \/ Other(r)

\* Every request is answered: the bound of a finite set of requests.
AllServed == (\A r \in Request : pc[r] = "done") /\ UNCHANGED vars

Next == (\E r \in Request : Receive(r) \/ Step(r)) \/ Crash \/ AllServed

Spec == Init /\ [][Next]_vars

\* The thread pool runs every handler it has started; clients owe nothing.
FairSpec == Spec /\ \A r \in Request : WF_vars(Step(r))

-----------------------------------------------------------------------------
(* Properties. *)

\* Type correctness of the three tables, the archive and the handlers' variables.
TypeOK ==
    /\ sess \in Maybe(SessionRow)
    /\ turns \in [Request -> Maybe(TurnRow)]
    /\ artifacts \in [Request -> Token]
    /\ archived \subseteq Events \X Request
    /\ clock \in Nat
    /\ pc \in [Request -> Labels]
    /\ loc \in [Request -> Local]

\* A turn whose result was committed: succeeded, or marked failed afterwards by
\* finish_turn_failed, which leaves ir_after in place.
Applied(t) == t # Nothing /\ (t.status = "succeeded" \/ t.ir # Nothing)

\* The columns a turn is computed from.
Planning(row) == <<row.ir, row.brief, row.ctx, row.round, row.selfDesign, row.key>>

\* A revision names its content: whoever holds a snapshot whose revision is
\* still the session's holds the session's IR, brief, context, round and key.
\* The compare-and-swap of finish_turn_* (store.py) is sound only if so.
RevisionNamesContent ==
    \A r \in Request :
        sess # Nothing /\ loc[r].snap # Nothing =>
            /\ loc[r].snap.rev <= sess.rev
            /\ loc[r].snap.rev = sess.rev => Planning(loc[r].snap) = Planning(sess)

\* Of the turns opened on one revision, at most one is ever applied: the lost
\* update of two concurrent turns, which the revision column was added against.
OneWinnerPerRevision ==
    \A q, r \in Request :
        Applied(turns[q]) /\ Applied(turns[r]) /\ turns[q].rev = turns[r].rev => q = r

\* The session's IR, and the IR of every artifact of a session that exists, is
\* the ir_after of one of its turns, so the audit trail and the IR diff find it.
Provenance ==
    sess # Nothing =>
        \A ir \in {sess.ir} \cup {artifacts[a] : a \in Request} :
            ir # Nothing => turns[ir] # Nothing /\ turns[ir].ir = ir

\* An IR replaces only the IR it was computed from: whatever ran in between,
\* the planner worked on the IR that the commit overwrites, and the turn's
\* ir_before says so.
EditsChain ==
    [][\A r \in Request :
         sess # Nothing /\ sess' # Nothing /\ sess'.ir = r /\ sess.ir # r =>
             /\ turns[r].irBefore = sess.ir
             /\ loc[r].path # "seed" => loc[r].snap.ir = sess.ir]_vars

\* A confirmed plan is committed on the brief the user was shown: the draft that
\* went to the planner is still the session's brief, and it is the brief of the
\* review that was confirmed, although the two were read by separate queries.
PlansTheReviewedBrief ==
    [][\A r \in Request :
         pc[r] = "commit" /\ pc'[r] = "replied" /\ loc[r].path = "confirm" =>
             /\ loc[r].out.brief = sess.brief
             /\ loc[r].out.brief = loc[r].last.brief]_vars

\* The archive is not ahead of the turns table: whatever outcome it holds of a turn
\* was committed before and is still in the row, for as long as the row exists, even
\* when appends raise after they wrote and the turn is then marked failed.  A
\* planned turn keeps the IR that the event tells of; a failure stays one.
ArchivedIsCommitted ==
    \A r \in Request :
        turns[r] # Nothing =>
            /\ <<"turn.clarify_replied", r>> \in archived => Applied(turns[r])
            /\ <<"turn.succeeded", r>> \in archived \/ <<"template_seeded", r>> \in archived
                 => turns[r].ir = r
            /\ <<"turn.failed", r>> \in archived => turns[r].status = "failed"

\* A client answered 409 may retry: nothing of its turn was applied.
ConflictAppliesNothing ==
    \A r \in Request :
        loc[r].code = 409 /\ turns[r] # Nothing =>
            turns[r].status = "failed" /\ ~Applied(turns[r])

\* The state column does not contradict the rows: `init` has no IR, so the
\* first test of compile_session never refuses an accepted IR, and `compiled`
\* or `downloaded` has an artifact, although neither is guarded by a revision
\* and set_llm_config writes back a state it read before.
StateMatchesRows ==
    sess # Nothing =>
        /\ sess.state = "init" => sess.ir = Nothing
        /\ sess.state \in {"compiled", "downloaded"} => \E a \in Request : artifacts[a] # Nothing

\* Without faults every turn that was opened ends: it succeeds, fails, or is
\* deleted with its session, whatever the interleaving.
EveryTurnEnds ==
    \A r \in Request :
        (turns[r] # Nothing /\ turns[r].status = "running") ~>
            (turns[r] = Nothing \/ turns[r].status # "running")

\* store.py says in set_llm_config that a session whose state is not `init`
\* keeps its state when its key is set.
ConfigKeepsState ==
    [][\A r \in Request :
         pc[r] = "config" /\ pc'[r] = "config_set" /\ sess # Nothing /\ sess.state # "init" =>
             sess'.state = sess.state]_vars

\* A failed turn does not advance the session's IR
\* (test_failed_turn_does_not_advance_latest_ir).
FailedTurnKeepsIR ==
    \A r \in Request :
        turns[r] # Nothing /\ turns[r].status = "failed" => sess = Nothing \/ sess.ir # r
=============================================================================
