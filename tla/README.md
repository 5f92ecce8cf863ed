# A TLA+ model of the FDE service

`loom` (src/loom) is a service in which a field engineer designs a workflow in
a conversation: a *session* goes through *turns* (clarification, a questionnaire,
a review of the brief, a plan made by a language model, deterministic edits),
each accepted turn leaves a validated intermediate representation (IR), and the
IR is compiled to an artifact for HiAgent or Dify, downloaded and deployed.
Everything that happens is appended to a hash-chained archive. A web workbench
(src/web) and a command line (src/loom/cli) are its clients.

This directory holds TLA+ modules translated from that source, the TLC
configurations that check small instances of them, and proofs checked by TLAPS.

    tlasany M.tla                          parses a module
    tlc -config MCM_run.cfg MCM            runs one configuration
    tlapm M.tla                            checks the proofs of a module

## 1. Inventory

One process serves everything: a single uvicorn worker. The handlers of
`service/routes` are plain `def` functions, so FastAPI runs each request in a
thread of a pool and requests interleave at any point; the auth middleware and
the cleanup loop are coroutines of the event loop. The command line runs in
processes of its own on the same files.

| component | state | operations | reached through |
|---|---|---|---|
| session store, turn handlers (`state/store.py`, `service/routes/sessions.py`) | SQLite rows `sessions`, `turns`, `artifacts`; the `revision` column | create, seed from a template, open/finish/fail a turn, set_llm_config, rename, compile, download, delete | HTTP |
| archive (`archive/`) | files `0001.jsonl`, ... per session | append, validate_chain, rotation | every handler, middleware, cleanup loop, admin command |
| compile pipeline, workflow registry (`routes/sessions.py`, `registry/store.py`) | artifact files, `artifacts`, `workflow_registry` | compile, rename the file, register, mark deployed, download, delete | HTTP |
| actor LLM configuration (`routes/actor.py`, `store.py`) | rows `actor_llm_configs` with a version | upsert, inherit by a new session | HTTP |
| auth sessions (`service/auth/sessions.py`, `app.py`) | dictionary of tokens, queue of expired sessions | login, validate, logout, cleanup, drain | middleware, HTTP, timer |
| login rate limiter (`service/auth/ratelimit.py`) | failures and lockout per client | is_limited, record_failure, reset | login |
| credentials file (`service/auth/credentials.py`, `cli/commands/admin.py`) | a file, a temporary file | init, reset, remove | command line; read at start |
| clarify engine (`fde_session/`) | none of its own: brief and round of the session | one step per message | clarify turns |
| edit intent, edit scope | none | classify a message, test a change | edit turns |
| planner payload, redaction | none | build, block | turns |
| planner client, retry loop (`planner/`) | the attempt counter | call, validate, retry | plan turns, command line |
| IR, validator, diff (`ir/`, `validator/`, `diff/`) | none | pure functions of an IR | turns, compile, command line |
| runtimes (`runtimes/`) | none | IR to bundle | compile, push |
| HiAgent push (`cli/commands/hiagent_push.py`) | remote application | check name, create, save, publish | command line |
| catalogs (`registry/`) | read-only files | list, load | HTTP |
| web workbench (`web/src/hooks`) | query cache, mutations in flight | HTTP calls and their callbacks | the user |
| flow layout (`web/src/lib/flow-layout.ts`) | none | layers of a graph | workbench |

How they interact. A turn handler reads the session row with its revision, then
the list of turns; opens a turn row; appends `turn.started`; runs the clarify
engine or the planner on what it read, with no transaction open; commits the
result in one transaction that tests the revision; and appends the outcome.
Compile reads the session row, compiles, writes a file, inserts a row and sets
the state. The store and the archive are separate: no transaction spans them
(except the creation, whose events are appended inside the insert's transaction).
The archive of the auth events is one directory for all logins, the cleanup
loop and the admin command.

What is hard about it, and what makes each part correct:

* *Concurrent turns.* Two handlers plan from the same row for many seconds. The
  compare-and-swap on `revision` must let one of them win, a revision must name
  what the planner used, and an answer of 409 must mean that nothing was applied.
* *SELECT outside the transaction.* Python's sqlite3 opens a transaction at the
  first write. What a store method read before may be stale when it writes.
* *Two stores.* An append that fails after a commit, or before one, leaves the
  rows and the archive in different states. They must not contradict each other.
* *Crashes.* Nothing is repaired at start; what a crash leaves must be harmless.
* *The chain.* append has no lock. One call at a time must keep the chain valid
  over rotations and failures; overlapping calls must not lose events.
* *Files and rows* of an artifact must agree whichever of the steps fails.
* *Auth sessions* must expire once, be recorded once, and not come back after a
  logout; the *rate limiter* must lock out after the configured failures.
* *The pure functions* (validation of graphs, canonical form, diff, layout) must
  agree with their obvious definitions.

PROJECT.json lists all components with their sources and every hazard at its line.

## 2. Plan

| | modules | composes | abstract specification | status |
|---|---|---|---|---|
| 1 | SessionTurns, SessionTurnsProofs, SessionHistoryProofs | rows, handlers, archive as a set of events | one winner per revision; a linear history of edits | checked; nine theorems, all its safety properties |
| 2 | AuditLog, ArchiveChain, ArchiveChainProofs | AuditLog is the promise, ArchiveChain the files | AuditLog | checked with the refinement; six theorems, all its properties |
| 3 | ArtifactPipeline, ArtifactPipelineProofs | file, row, registry, archive; delete, download and deploy | what is answered is all there | checked; five theorems |
| 4 | Clarification, ClarificationProofs | the engine and the turns of one conversation | a complete brief is reviewed, only answers change it | checked; five theorems, all its properties |
| 5 | AuthSessions, AccountsProofs | middleware, login and logout with the rate limiter, cleanup loop | an expiry is recorded; a lock by its definition | checked, with liveness; four theorems, all its safety properties |
| 6 | AdminCredentials, AccountsProofs | admin commands, kills | a reader finds a whole file | checked; three theorems |
| 7 | Accounts, AccountsProofs | 5 and 6 over one data directory | what a reset promises | checked; one theorem: each keeps what it promises alone |
| 8 | IRGraph, Validator, DocumentProofs, Planner | documents, their validation, the planner's loop | well-formedness by definition | checked; two theorems, all its properties |
| 9 | IRDiff, Edits, DocumentProofs | canonical form, diff, edits of a session | what a change means | checked; three theorems, all its properties |
| 10 | HiAgentGraph, AppLife, HiAgentPush | the remote API, failures, a second push | AppLife | checked with the refinement; five theorems, all its properties |
| 11 | Delivery, DeliveryProofs | 8, 9 and 10 over one IR file | | checked; one theorem: the push keeps what it promises alone |
| 12 | ActorConfig | upsert against upsert and against create | versions are distinct | open |
| 13 | Workbench | query cache, pending mutations, navigation | a row is shown under its own key | open |
| 14 | layouts of the web client, the Dify compiler | operators | reference definitions over small graphs | open |

All safety properties of rows 1 to 11 that hold are theorems. What stays with TLC is liveness
(EveryTurnEnds, ExpiryIsRecorded), which is outside the prover's reach, and the counterexamples of
the runs that end in a violation. No module declares a RECURSIVE operator: recursion is written as
functions, and walks over a set in no particular order as folds.

## 3. SessionTurns

One session: its row `sess`, the rows `turns` (keyed by the request that opened
the turn) and `artifacts`, the set `archived` of events, and for every request
a program counter `pc` and the local variables `loc` of its handler. A step is one
SELECT, one write transaction or one archive append; a read that only decides an
answer is part of the step after it.

| actions | code |
|---|---|
| ReceiveCreate, CommitCreate, SetPlanningContext | `create_session`, `create_session_with_actor_defaults`, `_seed_session_from_template` |
| ReceiveTurn, ListTurns | the two reads at the head of `create_turn` (routes) |
| CreateTurnSelect, CreateTurnInsert, ArchiveStarted | `SessionStore.create_turn`, then `turn.started` |
| RunEngine, ArchiveQuestionnaire | `_handle_clarify_turn` on the snapshot |
| RunPlanner | planner, deterministic edit and validator on the snapshot, and their failures |
| FinishSelect, FinishCommit | `finish_turn_succeeded`, `finish_turn_clarify`, `finish_turn_brief_review` |
| ArchiveReplied, ArchiveSucceeded, ArchiveSeeded | what follows the commit |
| FailSelect, FailCommit, ArchiveFailed | `finish_turn_failed` and `turn.failed` |
| ReceiveConfig, WriteConfig, ArchiveConfig | `set_llm_config` |
| ReceiveCompile, CreateArtifact, ArchiveCompile | `compile_session`, as far as it touches the session |
| ReceiveDownload, MarkDownloaded, ArchiveDownload | the download of an artifact |
| ReceiveDelete, DeleteRows, ArchiveDelete | `delete_session` |
| Crash | the process stops with requests in flight |

An append that raises may have written its event or not: `ArchiveWriter.append` writes
what was buffered when it closes the file (archive/jsonl.py:43), and a failure reported
there says nothing of what is on the disk. `LogRaises` leaves both possible.

An IR, a brief and a context are tokens: the request that made them. A message is
the set of traits the handler tells apart (a raw secret, a confirmation, an edit, a
reference to an older turn). What the clarify engine, the planner and the validator
answer is chosen nondeterministically among the outcomes the handler tells apart.

### Runs

| run | instance | properties | shows |
|---|---|---|---|
| turns | 1 creator, 3 requests; blank; turns; no faults | OneWinnerPerRevision, EditsChain, PlansTheReviewedBrief | the compare-and-swap, with three turns in a race |
| faults | 1 creator, 2 requests; both ways to create; every operation and message; archive failures, crashes | RevisionNamesContent, Provenance, ArchivedIsCommitted, ConflictAppliesNothing, StateMatchesRows | rows, archive and answers stay consistent |
| live | 2 requests; turns and deletions; no faults | EveryTurnEnds | a turn that was opened ends |
| stale_config | turns and set_llm_config | ConfigKeepsState | **violated** |
| failed_turn | turns, archive failures | FailedTurnKeepsIR | **violated** |

The two violations are disagreements between the code and what it or its tests say:

* *ConfigKeepsState.* `set_llm_config` computes the state to write from a row it read
  before its transaction (store.py:278). A turn accepted in between has set
  `validated`; the UPDATE sets `llm_config_set` again, against its own rule that only
  `init` changes.
* *FailedTurnKeepsIR.* When the append of `turn.succeeded` raises, the handler's
  `except` marks the turn failed, although its IR is the session's.

Not a run of its own: a session deleted between the SELECT and the INSERT of
`create_turn` (store.py:391) leaves a turn row without a session, which no later request
can delete. `turns` of SessionTurns has such states and the properties hold in them.

`EveryTurnEnds` is not checked with faults: `turn.started` is appended outside every
`try`, so a failing append leaves a running turn for good, as a crash does.

### Bounds

The only unbounded data are counters (`rev`, `round`, `clock`), and each request
increases them a fixed number of times, so the set of requests bounds the state
space and no state constraint is used. Two concurrent requests and the creator are
needed for every race between two operations; three turns are needed for a turn
that reads between the commits of two others, and for a review that is opened,
confirmed and overtaken. QuestionnaireAfter = 1 (3 in the code) makes the
questionnaire reachable with two clarifications. The requests other than the
creator do the same things, so `turns`, `faults` and the violation runs use
symmetry; `live`, which has a liveness property, does not.

### Fairness

`FairSpec` asserts weak fairness of `Step(r)` for each request: a handler that has
received its request is run by the thread pool until it answers. The planner's call
is included because the client has a timeout. Nothing is assumed of clients: a
request need never come, and `Receive` is not fair. Crashes and failures are off.

### Proofs

`SessionTurnsProofs` proves `TypeCorrect == Spec => []TypeOK` for every set of
requests, messages and operations and with all faults. TypeOK is not inductive:
the step after a read uses what was read. `Held` says for each label what the handler
holds there (a handler at `plan` has a snapshot, one at `commit` a result, one that
confirms a review the last turn); `Typed` adds it, and one lemma per action shows
that the action keeps it.

Two more theorems follow from `Typed`:

* `RevisionsNameContent == Spec => []RevisionNamesContent`: a snapshot whose revision
  is the session's has the session's content. `Origin` says that nothing is read and
  no row is written before the creator has inserted the session, so the revision
  starts once; `RowEffect` says that a step leaves the planning columns alone, moves
  the revision up by one, or deletes the session for good.
* `OneWinner == Spec => []OneWinnerPerRevision`. The strengthening `RowsInv` says that
  a handler before its INSERT has no row, that a row carries the revision its handler
  holds until the commit, and that an applied turn has a revision below the
  session's. The commit tests the turn's revision against the session's and moves the
  latter on, so the same revision cannot win twice.

The assumptions are those the module names: the creator is a request, `Nothing` is
none of the values, the sets of paths, operations and messages are subsets of what
the code has.

`SessionHistoryProofs` proves the others, with failing appends and crashes, from `Typed`
and the invariants `Origin` and `RowsInv`:

* `ArchiveFollowsTurns` and `ConflictIsClean`. `OwnTurns` says at each label of a
  handler what its own row is: running from the INSERT to the commit, then of the status
  that the handler is about to archive or to answer. Nobody else writes that row, except
  a deletion of the session, which removes it. An outcome is archived after its commit,
  and no later step takes the IR from the row: so a `turn.succeeded` stands for an IR that
  was accepted, also when its append raised after writing it and the handler has marked the
  turn failed.
* `EveryIRIsRecorded` and `StateIsTrue`. `RowsAgree` says that an IR which is the
  session's, an artifact's or in the snapshot of a handler stays recorded in the row of
  the turn that made it. The snapshots belong to it: compile and set_llm_config write later
  what they read earlier.
* `EditsChainTogether` and `PlansAreConfirmed`. `Carried` says what a handler carries from
  its reads to its commit, and by RevisionsNameContent a commit that finds the revision
  unmoved finds the IR and the brief of its snapshot. The review that was confirmed comes
  from another query. Rows are opened in the order of their revisions (`InOrder`), so the
  last one, when it is a review, holds the session's brief, and so does the review that a
  handler has read if the revision is still that of its snapshot (`OnBase`).

Only `EveryTurnEnds` is left to model checking: liveness is outside the prover's reach.

## 4. ArchiveChain and AuditLog

`ArchiveChain` is the archive of one session. `log` holds the lines of all files in
reading order, `files` the end of each file in it and its size. A call of `append`
takes these steps: it lists the files (List), reads them one by one and validates
what it has read (Read), lists the directory again and chooses the file (WritePath),
and writes (Write). A write may be cut short (Tear), leaving a partial line or a line
without its newline; a call may end before it writes (Stop), or once its line is there
(Write). A payload is its digest; two events may have the same one.

Writing and reading are not inverse. A line is written by `model_dump_json`, which leaves
U+2028, U+2029 and U+0085 as they are, and lines are read by `str.splitlines`, which ends
one at each of them. An event with such a character in its payload (a deployment note, a
model name, a diff: text that users type) is written whole and read as two halves that do
not parse. `Legible` says which lines parse; which calls have such a payload is chosen per
behaviour.

A behaviour begins in one of `Regimes`: how many calls may overlap (`atOnce`), whether
calls end early or writes are cut short (`faults`), and which payloads split (`split`).
It is `Orderly` when calls do not overlap, what they write is written whole, and no payload
splits.

`AuditLog` is the promise of ADR 0028: events are only appended, the event of an append
that returned is there for good, and that of one that failed may be. `KeepsPromise` is the
refinement, for orderly behaviours, with the record mapped to what a reader of the files is
given.

| run | instance | properties | shows |
|---|---|---|---|
| archive | 4 calls, one at a time (they may end early, or one payload splits), or 3 at once (they may end early, and writes may be cut short, with and without a payload that splits) | OrderlyChainValid, FilesBounded, KeepsPromise; NoneSkipped, ReturnedIsRecorded, DamageIsFinal | orderly calls keep the chain valid and implement AuditLog; of others numbers repeat, none is skipped, the line of a call that returned is there once, and a call that begins on an archive with a line that does not parse never returns |
| archive_broken | 3 calls, 2 at once | ChainValid | **violated** |

* *archive_broken.* Two overlapping appends read the same last event and write the
  same sequence number. From then on validate_chain raises, and with it every append.

Seen while modelling: overlap is not needed to end an archive. With a payload that splits,
one append on its own returns and leaves an archive on which every later one raises
(the regime `Splits` of run archive; DamageIsFinal says that it is for good). The tests of
the archive have no such text.

A write that lost only its newline leaves a line that validates, and the next append
joins that line: it returns, and its event is part of the damage. This and a payload that
splits are the two exceptions of ReturnedIsRecorded.

Bounds: a file takes two short lines (MaxBytes = 4, lines of 2 bytes), and one line is
longer than a file, so four events make up to three files, rotate, and meet
the case of an oversized line. Three overlapping calls are enough for one that lists
before and writes after a rotation by another. Names of files sort as their numbers up to
9999 files; the model assumes that.

No fairness is assumed: all properties are safety properties.

`ArchiveChainProofs` proves OrderlyChainValid, FilesBounded and KeepsPromise for every
number of calls, all sizes, and any regimes, for payloads that do not split. The inductive invariant is
`Orderly => Tidy`: one call is in progress at most (`Alone`), so what it has read is the
archive up to the end of the last file it read, and all of it when it writes, to the last
file or the next (`Holding`); the files divide the log (`Ends`) and every line of it is
whole and of a call that has ended (`Whole`). The assumptions are that the calls are
finitely many, so that fewer than one is none, and that a line has at least two bytes.

For calls that overlap, end early or are cut short it proves NoneSkipped, ReturnedIsRecorded
and DamageIsFinal, in every regime. Of what such a call has read nothing is known but that it
was in the archive: files may be opened, and lines put between others, while it reads. But
nothing is taken away, so what has been in the log stays there, in the same order, behind the
same files (`Carry`). For NoneSkipped: a call that has found k events has seen each number up to
k in the files it has read (`Seen`), and writes k + 1 behind all of them, so k stands before it
(`Numbered`). For ReturnedIsRecorded: a call puts its one line when it
writes, and what can tear that line later leaves the archive torn (`Recorded`). For
DamageIsFinal: the line that does not parse, on which a call began, is ahead of its reading until it reads it, and raises
(`Ahead`, `Doomed`).

## 5. ArtifactPipeline

The stores of one session that a compile writes one after another: `rows` (the path in
the `artifacts` row), `disk` (what is found under the temporary and the final name of an
artifact), `registry` and the set `archived`; `present` says whether the session has
its row. Each effect of a handler is a step that may raise, and the process may stop
between two of them.

| actions | code |
|---|---|
| ReceiveCompile, WriteFile, InsertRow, CheckInserted, Rename, RewritePath, CheckRewritten, Register, ArchiveCompile | `compile_session`, `create_artifact`, `_rewrite_artifact_path`, `WorkflowRegistryStore.create` |
| ReceiveDownload, ReadFile, MarkDownloaded, ArchiveDownload | `download_artifact` |
| MarkDeployed, ArchiveDeployed | the deployment callback of `routes/registry.py` |
| DeleteRows and the event | `delete_session` |
| Crash | the process stops with requests in flight |

`WriteFile` may leave a part of the file when it raises. The session's own column is
in `SessionTurns`; here a deletion is the only thing that reaches it.

Run `pipeline` has two compiles and three requests that each download, deploy or
delete, with failures and crashes, and checks that a download delivers no part of a
file (DeliversWhole), that a compile answered 200 has left everything
(AnsweredIsComplete), that what the registry lists can be downloaded or went with its
session (RegisteredIsObtainable), and that the archive is not ahead of the stores
(ArchiveIsBacked). Three other requests are needed for a deletion, a download and a
deployment of the same artifact at once; the second compile shows that artifacts do
not disturb each other. Compiles are alike and so are the others: both are
symmetric. There is no fairness, all properties are safety properties.

What the model shows it does not promise: a download that read the row before the
rename answers 500, a failed compile leaves its file for good, and a deletion leaves
files and registry entries. None of these contradicts a document of the repository.

`ArtifactPipelineProofs` proves the four properties and type correctness for every set of
requests and with all faults. The inductive invariant says for each label of a compile what it
has left by then (`Progress`), what outlasts the handler (`Left`), and what a handler
that downloads or deploys may rely on (`Reader`): the file behind a row that was
found is not going to be cut short, because the row is inserted after the write has
returned. One lemma per action shows that it is kept; `OwnCompile` and `OtherRequest`
state once why an action leaves the other compiles and handlers alone. The assumption is
that compiles and other requests are different and none of them is `Nothing`.

## 6. Clarification

The conversation in which the brief of a self-design session is completed. State:
`draft` (`sessions.brief_draft`), `round` (`sessions.clarify_round`), whether the session
has an IR (`planned`), and the kind, questions and brief of the `last` turn.

A draft is abstracted to what the rules tell apart: which fields have a value and which
(`Values`: a high boundary, a source of kind api, and two others), whether the intent was
clarified and what the keyword tests find in it (`Traits`). A message is what the engine
recognises in it: the values `parse_field_answer` finds by field, its traits, and its kind
(a raw secret, a confirmation, a reference to an older turn, an edit, anything else).

| definitions | code |
|---|---|
| NeedsIntent, Required, Blocking, FirstOf | `missing_fields` and its `_needs_*` rules |
| Answered, Merge, Stepped | `parse_field_answer`, `DeterministicClarifyEngine.step`, `_merge_draft` |
| Secret | `_handle_clarify_turn`, a message with a raw secret |
| Repeat | `_stale_turn_reference_response` |
| Clarify | the rest of `_handle_clarify_turn`: review, questionnaire, single question |
| Plan | `_finish_plan_from_draft`, with its failures |
| Edit | the edit branch of `create_turn` |

Turns that overlap, failing archives and crashes are in SessionTurns; here one actor
talks, one turn after the other.

Run `clarify` explores every conversation of 22 messages with the code's threshold of
three rounds. The messages are short and long intents with and without needs, an answer
on each field alone, one on the five fields that spare the intent question, one on all of
them, one with other values for two fields, and one of each special kind.
`MaxRound` bounds only how often a message with a secret adds to the round, which the
code does not bound; four is one beyond the threshold. It checks:

* ReviewIsComplete: a brief that is shown for review has every field its own content
  calls for, stated field by field and not by the rule the engine uses;
* AsksWhatBlocks: a question is about what the stored brief lacks, also when it is
  repeated for a message that refers to an older turn;
* OnlyAnswersChange: a field gets a value, or another one, only when the turn before asked
  for it or for the intent, no field loses its value, the intent is replaced at most once,
  by the answer that clarifies it, and a brief that lacks nothing changes by a credential
  only, which a message with a secret asks for again. Found by this: a later answer to the
  question for the intent may still replace a value an earlier one gave, a boundary among
  them, because every such answer is searched for every field (clarify_engine.py:157-169);
  and the first message survives the answer that clarifies it only in the title
  (clarify_engine.py:152-156);
* AnswersAreProgress: answering all that was asked fills a field or clarifies the intent.

No liveness is stated: whether a conversation ends is up to the actor.

What the code does and a document says otherwise: the design document
(docs/design/2026-05-23-self-design-clarify.zh-CN.md:223) resets the brief when a message
follows a plan. The code keeps it, and with nothing missing the engine takes nothing
from a message: every plain message after a review or a plan is answered with a review of
the same brief. `OnlyAnswersChange` states that, and says so.

`ClarificationProofs` proves type correctness and the four properties for every set of
messages, every threshold and every bound. The inductive invariant adds
`Shown`: a turn that can be repeated shows a brief, a brief under review blocks on
nothing, and only a clarification or a questionnaire asks. Without it a repeated review could
show an incomplete brief. One lemma per turn shows that it is kept, and that the brief changes by the answer only
(`AnswerOnly`); `MergeKeeps`,
`FirstBlocks` and `AnswerFills` (who answers all that is asked gives a field the brief lacks, or
clarifies the intent) are the facts about the operators. The assumptions: messages have their type, the bounds are numbers, `Nothing` is
not a draft.

## 7. Accounts: AuthSessions and AdminCredentials

`AuthSessions` is the memory of one service process: the sessions by token and the queue of
expired ones, the limiter's failures and lock for one address, where every login and logout
is, and what the event loop is doing (`loop`). Login and logout run in the thread pool
without a lock, so each of their accesses to shared memory and each append is a step. The
middleware and the sweep are coroutines without an await until they archive, so only one of
them is under way, but threads run between its steps.

| actions | code |
|---|---|
| ReceiveLogin, IsLimited, Unlock, Verify, RecordFailure, SetLock, ArchiveRefusal, Reset, Create, ArchiveLogin | `login`, `LoginRateLimiter`, `AuthSessionStore.create` |
| Revoke, ArchiveLogout | `logout`, `AuthSessionStore.revoke` |
| Lookup, Validate, ArchiveExpired | `auth_middleware`, `validate`, `drain_expired`, `_archive_expired_sessions` |
| StartSweep, SweepOne, EndSweep, ArchiveExpired | `cleanup_loop`, `cleanup_expired` |
| Start, Stop, Tick | the process, with all of its memory, and the clock |

`AdminCredentials` is the file `auth.json`, the temporary files by process id, and the
commands init, reset-password and remove, step by step through
`atomic_write_auth_file` (Check, Open, WriteTmp, Rename, Sync, Clean), the rename of remove
(RenameAway) and the event (Log). Writes and syncs may fail, and a command may be killed
anywhere (Kill), which leaves its temporary file to whoever gets its process id next.

`Accounts` puts both over one data directory: `StartService` loads what the file, or the
environment, has when the process starts, in development or production and with
LOOM_AUTH_DISABLED unset, yes or no. A file that is not safe stops it; in development a mode
that is not 0600 is a warning only, and the file is read (`Found`).

| run | instance | properties | shows |
|---|---|---|---|
| accounts | one client, two clients, or two commands with and without credentials in the environment; appends that raise | LogoutIsFinal, ExpiryIsEarned, RecordedAtMostTwice, FileIsWhole, SuccessIsRecorded, LockoutIsExact, ExpiryIsRecorded | no session comes back after a logout or ends before its time; an expiry is recorded, and twice at most; locks are as long as they should be; readers find whole documents; a command that reports success is recorded |
| reset_ignored | one command and the service | ResetTakesEffect | **violated** |

* *reset_ignored.* `Settings.from_env` loads the credentials once (deps.py:87). After
  `loom admin reset-password` a running service refuses the new password and accepts the old
  one; the design document of the command (docs/design/2026-05-24-loom-admin-init.zh-CN.md:59)
  says that no restart is needed.

Also seen while modelling, without a document that says otherwise: the sweep archives an
expiry and leaves it to the next request as well, which archives it again (RecordedAtMostTwice
allows two); one append that raises drops the rest of a batch and may end the cleanup task for
good (ExpiryIsRecorded excepts it by `raised`); a reset that has read the file before a
remove puts it back after it (admin.py:77).

Bounds: lifetimes, the window and the lock are two ticks, two failures lock, and the clock
stops at three, one tick after everything that began at 0 or 1 is over. Two clients are
needed for a logout against the other's sweep and for logins that overlap; the commands are
two, for a process id that is used again after a kill and for a remove between the steps of a
reset. Clients and commands share only what is loaded at the start, so a behaviour has one or the
other. LockoutIsExact is stated of logins that do not overlap: for others the history of
wrong passwords has no order to state it by.

Fairness: weak for the steps of a handler (`LoginStep`, `ArchiveLogout`), because a thread of
the pool runs it to its end, and of the event loop (`LoopStep`), because a coroutine without an
await runs on; strong for `StartSweep`, because asyncio wakes the cleanup task in its turn
however many requests there are. Nothing is assumed of clients, of the clock, or that a process
starts.

`AccountsProofs` proves three groups of theorems.

LogoutIsFinal, ExpiryIsEarned and RecordedAtMostTwice hold for any number of clients, any
lifetime and clock. The invariant `Inv` follows one session: while it is `Unspent` (in the store,
in the list of a sweep or in the hands of a request) nothing of it is queued or recorded; a
request that finds it expired spends it once, the sweep twice; and what is recorded and still
`Owed` is two at most. A session that is queued has left the store, so nobody finds it again.

LockoutIsExact holds for any number of clients, any threshold and lengths of time with
Window <= LockFor, which is so in the code (both are 60 seconds). The invariant `InTurn` says of
logins that have come one after the other (`wrong # Mixed`) that the deque ends as the history of
wrong passwords does and lacks only what is older than the window (`Deque`), and that the lock that
is stored covers every one that the definition still has in force (`Lock`); `Phase` says what the
one login between its check and its answer has done of it. When a lock is over the deque is cleared;
the assumption makes all that this forgets older than the window. The
deque drops from its old end, so `Dropped`, by induction over the length of what is dropped, says
what is left.

Type correctness of the commands, FileIsWhole and SuccessIsRecorded hold for any commands and process
ids: the temporary file of a live command is its own (`Owns`), it is complete before it is renamed
(`Wrote`), and the change is made before the event is archived (`Made`).

`TogetherAsAlone` carries all of these to `AccountsSpec`: a step of Accounts is a step or a stutter of
each component (`ComposedSteps`), StartService being a start of AuthSessions on whatever the file
holds. The assumptions are those of the modules: lengths of time are positive, the values that
mean nothing are no documents. ExpiryIsRecorded, a liveness property, is outside the prover's
reach.

The commands share one process namespace here. Two containers over one data directory may give
two live commands the same process id; that is not modelled.

## 8. From an intent to an app: Planner, Validator, HiAgentPush

`IRGraph` is the workflow document: the list of its nodes in the order `_walk` yields them, nested
ones naming the node they are in, and its edges. Texts are the references found in them, with
how each stands there (alone, spliced into text, in an untrusted block, escaped, broken). What a
test on a value decides (a timeout above the policy, a source the sandbox refuses) is a mark
of the node, and whether the JSON schema and the models accept the document is a field.

| modules | definitions | code |
|---|---|---|
| Validator | CheckGraph with Reached, Dfs and Visit as the code searches; Scopes, CheckReferences, CheckParallelMerges, CheckRegistry, CheckPolicy | `validator/validate.py`, `policy.py` |
| Planner | CallModel, RefuseText, RaiseOnReply, CheckReply, GiveUp, Finish | `planner/retry.py`, `loom plan` |
| HiAgentGraph | Generated, Placed, EmittedRefs, Build; ServerNodes, Links, Materialised | the chatflow compiler, layout, materialisation and checks |
| HiAgentPush | Start, CheckName, CreateApp, BindModels, BindDatasets, Compile, Fetch, Materialise, CheckMaterialised, SaveChatflow, SaveDraft, Publish, Kill | `loom hiagent push` |
| AppLife | Create, Fill, Draft, Publish | what the workspace may see of an app |
| Delivery | composes Planner, Edits and HiAgentPush over one IR file | |

A model behind the planner answers what it likes out of a `menu` (text that is no JSON, `NotJson`;
JSON that is no object, `NoObject`; a document), or its call raises. The server
is external and does what it is asked; a remote call may be refused, or be carried out with
its answer lost, and a command may be killed between two calls. `push` takes any file: it does
not validate. Files written by hand have distinct ids in every scenario: `Placed` is not the layout
of a document with an id twice, which the code counts by occurrences. The configuration
that is drafted and published in mode `single` is the document itself; its wording is left out.
The file is written in one step.

Run `delivery` begins in one of its `Scenarios` and checks:

* JudgedByItsGraph: what the planner returns is well formed by the definitions of its
  relations, and a sound graph is refused for a reference only if nothing supplies it, so
  the memo of the ancestor search never misleads it;
* FeedbackIsCurrent: each call tells the model what is wrong with the answer before, and no other;
* AcceptedIsDrawable: an accepted document can be laid out, and its edges never crash the compiler
  (a malformed `required` of an output schema may, compiler_nodes.py:403, which is not modelled);
* GraphIsTheDocument: the saved graph of a document is its image, node by node, edge by edge and,
  for accepted documents without control flow beside their edges, reference by reference. Of a
  document with an id twice, which only a file written by hand can be, it says nothing;
* ToldPublished, OneAppPerName, FollowsLife: `published` means published whole, pushes that do not
  overlap leave one app of the name, and every app follows AppLife;
* and the three properties of section 9.

Bounds: all 729 choices of edges (none, control, data) among a trigger, two models of which one
reads the other, and an output; documents with each mark, with each reference out of a loop body and
with each thing spoilt; two retries, so that a failure is told after each way of
refusing; two pushes and two faults, so that the second push meets what the first left behind
and may fail as well; bindings that lack a model, a dataset or nothing. Planning, edits and the
push are independent but for the file, so most scenarios use one or two of them, and three use an
IR that was planned or edited and is then pushed. The run has 1,027 initial states and about
113,000 distinct ones.
Deadlock is not checked because the work ends: a command has its exit code and a session its
`MaxTurns` turns.

No liveness is stated: each command and turn is started by a person, and a planner that is never
answered or a push that is never run breaks no promise.

### Proofs

`DeliveryProofs` proves theorems of the composition, for any scenarios and bounds; `DocumentProofs`
has the lemmas about the validator's searches and about the diff on which they rest. The assumptions
are those of the modules: the numbers are numbers, and what a scenario has for a document is one. Its
lists are lists, its nodes have the fields of a node, and `_walk` yields a node before those nested in
it (IsDocument, IsNested); no setting bears the name of a field of its own, a budget is a number, and
what is nested is in a loop or a parallel node (IsTyped): what `ir/models.py` lets pass. A session
begins without an IR or with one that the validator accepted, as its handlers store no other. The
documents are otherwise arbitrary, those pushed by hand unsound ones included.

* `JudgedByDefinition` (JudgedByItsGraph) and `AcceptedAreDrawable` (AcceptedIsDrawable). By
  `LoopInv` what the planner returns, and what it is about to judge, is a document, and nothing was
  found wrong with the former. The rest is about the operators, for every document:
  * the ways over a set of pairs, computed in as many rounds as there are pairs, are the least set
    that has the pairs and is closed under adding one (`WaysLeast`, `WaysClosed`);
  * the search with three colours finds no cycle only if every set of nodes has one to which no
    node of the set leads (`CycleFound`); so no node leads to itself (`NoWayBack`), and a round of the
    layout places one node more until all are placed (`LaidOut`);
  * on such a graph the search for ancestors does not meet its guard, and from every memo that is
    right it makes one that is right (`VisitTells`, `AncestorsAre`), in whatever order the nodes
    are visited;
  * the producers and variables legal at a nested node are those of the definition, by induction
    over the list (`ScopesExact`), so a reference is refused exactly when nothing supplies it
    (`ReferenceExact`).
* `FeedbackStaysCurrent` (FeedbackIsCurrent). `LoopInv` says that the failures which will be told
  are those of the last answer, at the only label where a call is made.
* `PublishedAsTold`, `OneApp`, `AppsFollowLife` (ToldPublished, OneAppPerName, FollowsLife), about
  `PushSpec`: any number of commands and faults, though another process changes the file. `Progress`
  says for each label of a push what its app has by then, also after an answer was lost or a
  kill; `Grown` says that a step takes an app one stage further at most; and while no two pushes
  have overlapped one is active at most, so the name it found free is free until it has created its
  app (`Alone1`). `DeliveredAsTold` carries the three to `Spec`: a step of Delivery is, for the
  variables of a push, one of `PushStep` or `FileChanges`.
* `GraphsAreDocuments` (GraphIsTheDocument). `DrawInv` says that the file, whoever wrote it last, is
  a document, and of each push what it has made of its own (`Laid`): the nodes made so far have
  codes of their types, whether a code is new, one of the server's defaults or that of the first
  End; what goes to the server was built; what is sent to be saved has one Start and is the graph of
  the document and of these codes; and this is so after a lost answer and a kill. `Progress` is
  needed beside it: nothing is saved before the last node has its code, so a code that is added
  leaves no graph behind that was drawn with fewer. The rest is about the operators:
  * the nodes are emitted in their order, each once (`RanksOnto`, `GeneratedIs`), so an id leads to
    the one code its node was given (`CodesAre`), though several nodes may share a code;
  * a node of the server stands for the nodes that have its code and refers to what one of them
    refers to (`NodesAre`); what was built has an end for each edge (`BuiltHasEnds`), hence a link
    (`LinksAre`), and a way over edges is a way over links (`LinksLead`);
  * a reference that is sent is one the validator looked at, or the query a condition is asked about
    (`KeptIs`); what the validator found supplied leads to its reader (`EmittedIsSupplied`), and the
    trigger leads to every other node (`TriggerIsAtTop`), which is why a reference to the system's
    variables may become one to Start (`ImageIsDrawn`).
* `GatesStay`, `EditsDoWhatTheySay` and `ChangesAlwaysSurface`, see section 9.

### Seen while modelling

What the code does that no property states, because no document says otherwise or because the
model shows it at once:

* links are made from the edges of the document only (hiagent_push.py:274), while the validator
  counts branches, defaults and fallbacks as edges (validate.py:142): a document that declares
  control flow only there is accepted and pushed without those links, though the help of `--mode`
  says that chatflow preserves the graph (hiagent_push.py:46);
* the defaults for datasets are looked up only when a model is missing too (hiagent_push.py:126);
* outputs share one End, and its configuration is that of the last of them;
* the ports of an Intent are numbered in the order of its targets of type Code, not of its branches;
* the compiler sends a reference behind an escaping dollar sign as a reference;
* the validator accepts a binding that is a reference inside a text; push refuses it after it has
  created the app;
* an error after the creation, local ones included, leaves an app whose name blocks the next push
  until somebody removes it; an edge to an unknown node ends the command with a traceback, also one
  between two unknown nodes, which the layout passes over and the attachment of the parents looks up
  (compiler.py:250; the proof of GraphIsTheDocument found it missing in the model);
* two nodes with one id in a file written by hand share a generated code; the layout counts such a
  node twice if no edge leads to it, and takes any other for a cycle (layout.py:49-60);
* a call of the planner's client that raises is outside the retry loop's `try` (retry.py:29) and
  ends it, whatever retries are left; so does an answer that is JSON but no object, which the
  validator asks for its version (retry.py:44, ir/schema.py:30);
* a document whose edges name unknown nodes and which is refused by the checks of the generated
  chatflow as well ends with the traceback: the parents are attached first (compiler.py:172, 198).

## 9. Edits of a session: IRDiff and Edits

`IRDiff` is the canonical form (one default, of `top_k`, stands for all) and the list of changes
between two documents, each with its place, fields, category and risk. The values that are shown,
their masking and the order of the list are left out.

`Edits` is a session with an IR, to which drafts are planned (PlanTurn), messages are applied
(EditTurn: `parse_edit_intent`, `_apply_deterministic_edit`, validation), review gates are put by
the planner under the contract of `_enforce_manual_review_scope` (GateTurn), or fail (FailTurn), and
whose IR is exported. A message is the record of its readings: of each kind of edit that its words
can be read as, the node named and the value; the code takes the first in its order.
Turns come one after the other; their races are in SessionTurns.

Run `delivery` has four workflows with their messages (one node of each type; several, and names in
capitals; a loop; branches, one edge conditional) and every pair of twenty-one drafts that differ in
a thing or two. It checks:

* EditDoesWhatItSays: an accepted edit changes the node it was read to name, or the only one of the
  type, in the fields of its kind to the value asked (an added disclaimer and a retry with its fields
  included), but a retry that is there already is never changed; the archived diff says this and no
  more, and nothing exactly when the document says the same;
* GateStays: an accepted gate stays on every edge out of its node, and leads on, through all
  later edits and gates until the workflow is planned anew;
* ChangesSurface: of any two turns, the diff tells of no change that is not a difference
  (`Differences`: a place where only one document has a node or the nodes say something else, the
  ends of an edge that only one has, a part of the rest that is not the same), it tells every
  difference where it is or at a container it is in, and what of a node, an edge or the rest that
  both documents have may change who may do what, or what runs when (`Consequences`), is among its
  hard blocks. Three things are excepted by name: the order of the nodes in a body or a branch and the
  version of the IR, which the diff does not compare (`SameOrder`, `SameMeaning`), and edges with the
  same ends, of which it shows one (`Doubled`). Drafts that differ in each of the three are among
  those of the run.

Three turns are enough for an edit or a gate before and after a gate. `Room` is how often a
disclaimer fits into a rationale (two), so the third is refused.

`DeliveryProofs` proves `GatesStay` (GateStays) for all messages, drafts and numbers of turns. `Gated`
says what stands in a document: every edge out of the node leads to its gate, the gate has the
reviewer, and leads on to where the node led. Each kind of edit keeps it (`EditKeeps`), and so does
another gate, which replaces edges by ways (`GateKeeps`); `EditsInv` says it of every gate accepted
since the workflow was last planned.

It also proves `EditsDoWhatTheySay` (EditDoesWhatItSays) and `ChangesAlwaysSurface` (ChangesSurface).
`HistoryInv` says that what a session has kept is good (of its types, no id twice), and of each
edit that it did what it says; drafts and gates were accepted by the validator, which refuses an id
twice, and an edit touches no id. The rest is about the operators, for every good document:

* the diff compares node by node on the way down. The nodes have places of their own, made of the ids and
  arms on that way (`NodesByPlace`), and a node comes to be compared when all that it is nested in
  is in both documents and is still of the type that holds such an arm (`ComparedThrough`). A node that is
  not met differs at an outer place, which is told (`NodesTold`). Edges are compared by their ends
  (`EdgesTold`), the rest key by key (`GovernanceDiffers`), so all that is told is a difference
  (`OnlyDifferences`), all differences are told (`EveryDifference`), and nothing is told exactly when
  there is none (`NothingToTell`);
* a field that may change who may do what makes the change a high one, whatever else changed with
  it, since the classes are tried in the order of their risk (`GraveIsHigh`, `NodesAreTold`,
  `EdgesAreTold`, `GovernanceIsTold`, together `ConsequencesAreTold`);
* dropping the default and filling it in do not change the fields that are compared
  (`CanonicalKeeps`, `DumpedIsGood`);
* an edit sets fields of seven names in one node, none of which is of a high risk, to values that say
  what was asked (`EditedIs`, `PatchedIs`, `EditFields`, `PatchedFields`, `EditIsTold`): the check of
  the allowed paths in `_apply_deterministic_edit` is what keeps the diff of an accepted edit free of
  hard blocks. It also keeps a retry that is there (`RetryStays`): a path into it is longer than any
  that is allowed (`PathIsLonger`).

What the code does, and a reader of the properties should know:

* messages are read in lower case, so a node with a capital is not found by its id, and nested nodes
  are not looked at; both fall back to the only node of the type;
* a message with `trigger` and the name of a mode is a change of the trigger whatever else it asks,
  a review after the trigger included; a change to schedule drops the schedule there was;
* an edit that asks for a retry is refused as beyond its scope on a node that has another: the paths
  of the changes go into the retry that is there, `nodes.<id>.retry.max_attempts`, while the edit may
  change `nodes.<id>.retry` (sessions.py:1089, 1144-1149). Only the first retry of a node can be set so;
* the diff does not show what ChangesSurface excepts: one of two edges with the same ends, a change of
  the order in a loop's body or a branch, though canonicalize.py:7-9 calls the position semantic, and
  the version of the IR, which is no key of governance (ir_diff.py:28-29);
* nodes and edges that are new or gone are shown without a risk (ir_diff.py:94-100, 300-303), the
  default of a condition and the removal of the policy's agent budget with a low one, so none is a
  hard block, though each may change what runs; a node that moves into or out of a container shows as
  removed and added;
* a gate after a condition holds on the edges of the document; branches of the condition that have no
  edge lead past it.

## 10. Not modelled

* *Renaming a session, regenerating, read-only routes*: single statements without a property of
  their own.
* *Actor LLM configuration*: the version that is read and written in two statements
  (store.py:144). Two updates may get the same version, and nothing compares versions.
* *Web workbench*: mutations that end after the user has moved on
  (web/src/hooks/useSessionWorkbench.ts:44), and the layouts of web/src/lib. Planned.
* *Dify runtime, the export of HiAgent as a bundle*: functions from an IR to text or a ZIP file
  without state; the graph part of the HiAgent compiler is in HiAgentGraph.
* *Redaction, payloads, summaries and personas*: pattern matching and wording. SessionTurns
  has the outcomes of a blocked payload and of a raw secret.
* *scrypt, HMAC, SQLite, the HiAgent server*: external; their effects are those the code relies on.
* *Catalogs, the conformance harness, the runtime registry, presentation in the web client*: files
  read on request, tests, declarations.
