------------------------- MODULE SessionTurnsProofs -------------------------
(***************************************************************************)
(* What holds of SessionTurns for every set of requests, messages and      *)
(* operations, with archive failures and crashes: the types, what a        *)
(* revision names, and that a revision has one winner.                     *)
(*                                                                         *)
(* A step moves one handler.  `Held` is what a handler must hold at each   *)
(* of its labels for the next step to have a meaning; it is the            *)
(* strengthening that makes TypeOK inductive.                              *)
(*                                                                         *)
(* The argument for the compare-and-swap.  The row is inserted once, by    *)
(* the Creator, before anyone has read it (Origin).  From then on a        *)
(* transaction either leaves the columns a turn is planned from alone, or  *)
(* moves the revision up by one (RowEffect); so a snapshot is of an older  *)
(* revision or of the same content.  A turn carries the revision it was    *)
(* opened on (RowsInv), is applied only when that is the session's, and    *)
(* the session's moves on.                                                 *)
(***************************************************************************)
EXTENDS SessionTurns, TLAPS

Paths == {"none", "blank", "seed", "secret", "turn", "clarify", "confirm", "edit"}
Errors == {"none", "blocked", "rejected", "error"}

\* A handler past its first read holds the row it read; one with a result to
\* commit holds the result; a confirmed review holds the turn it confirms.
Held(label, l) ==
    /\ label \in {"list", "started", "clarify", "plan", "config", "artifact"}
         => l.snap # Nothing
    /\ label = "list" => l.path # "seed"
    /\ label = "context" => l.path = "seed"
    /\ label \in {"select", "insert"} =>
         IF l.path = "seed" THEN l.out # Nothing ELSE l.snap # Nothing
    /\ label \in {"questionnaire", "finish", "commit"} => l.out # Nothing
    /\ l.path = "confirm" => l.snap # Nothing /\ l.last # Nothing

Handlers == /\ pc \in [Request -> Labels]
            /\ loc \in [Request -> Local]
            /\ \A r \in Request : Held(pc[r], loc[r])

Tables == /\ sess \in Maybe(SessionRow)
          /\ turns \in [Request -> Maybe(TurnRow)]
          /\ artifacts \in [Request -> Token]
          /\ archived \subseteq Events \X Request
          /\ clock \in Nat

Typed == Tables /\ Handlers

-----------------------------------------------------------------------------
(* Records. *)

LEMMA LocalUpdates ==
    ASSUME NEW l \in Local
    PROVE  /\ Fresh \in Local
           /\ \A p \in Paths : [l EXCEPT !.path = p] \in Local
           /\ \A p \in Paths, m \in SUBSET Traits, s \in SessionRow :
                [Fresh EXCEPT !.path = p, !.msg = m, !.snap = s] \in Local
           /\ \A s \in SessionRow : [Fresh EXCEPT !.snap = s] \in Local
           /\ \A s \in Seen : [l EXCEPT !.last = s] \in Local
           /\ \A i, j \in Nat, t \in Token : [l EXCEPT !.rev = i, !.at = j, !.ir = t] \in Local
           /\ \A o \in Outcome : [l EXCEPT !.out = o] \in Local
           /\ \A e \in Errors : [l EXCEPT !.err = e] \in Local
           /\ \A c \in Nat : [Fresh EXCEPT !.code = c] \in Local
<1>1. Fresh \in Local  BY DEF Local, Fresh, Token, Maybe
<1>2. \A p \in Paths : [l EXCEPT !.path = p] \in Local  BY DEF Local, Paths
<1>3. \A p \in Paths, m \in SUBSET Traits, s \in SessionRow :
        [Fresh EXCEPT !.path = p, !.msg = m, !.snap = s] \in Local
  BY DEF Local, Fresh, Paths, Token, Maybe
<1>4. \A s \in SessionRow : [Fresh EXCEPT !.snap = s] \in Local
  BY DEF Local, Fresh, Token, Maybe
<1>5. \A s \in Seen : [l EXCEPT !.last = s] \in Local  BY DEF Local, Maybe
<1>6. \A i, j \in Nat, t \in Token : [l EXCEPT !.rev = i, !.at = j, !.ir = t] \in Local
  BY DEF Local
<1>7. \A o \in Outcome : [l EXCEPT !.out = o] \in Local  BY DEF Local, Maybe
<1>8. \A e \in Errors : [l EXCEPT !.err = e] \in Local  BY DEF Local, Errors
<1>9. \A c \in Nat : [Fresh EXCEPT !.code = c] \in Local
  BY DEF Local, Fresh, Token, Maybe
<1>10. QED  BY <1>1, <1>2, <1>3, <1>4, <1>5, <1>6, <1>7, <1>8, <1>9

LEMMA SessionUpdates ==
    ASSUME NEW s \in SessionRow
    PROVE  /\ \A st \in States : [s EXCEPT !.state = st] \in SessionRow
           /\ \A st \in States, k \in Token :
                [s EXCEPT !.state = st, !.key = k, !.rev = @ + 1] \in SessionRow
           /\ \A c \in Token : [s EXCEPT !.ctx = c, !.selfDesign = FALSE, !.rev = @ + 1] \in SessionRow
           /\ \A i, b \in Token :
                [s EXCEPT !.state = "validated", !.ir = i, !.round = 0, !.brief = b, !.rev = @ + 1]
                  \in SessionRow
           /\ \A b, c \in Token, n \in Nat :
                [s EXCEPT !.brief = b, !.round = n, !.ctx = c, !.rev = @ + 1] \in SessionRow
<1> s.rev + 1 \in Nat  BY DEF SessionRow
<1> DEFINE next == s.rev + 1
<1>0. next \in Nat  OBVIOUS
<1>1. \A st \in States : [s EXCEPT !.state = st] \in SessionRow  BY DEF SessionRow
<1> HIDE DEF next
<1>2. \A st \in States, k \in Token :
        [s EXCEPT !.state = st, !.key = k, !.rev = next] \in SessionRow
  BY <1>0 DEF SessionRow
<1>3. \A c \in Token : [s EXCEPT !.ctx = c, !.selfDesign = FALSE, !.rev = next] \in SessionRow
  BY <1>0 DEF SessionRow
<1>4. \A i, b \in Token :
        [s EXCEPT !.state = "validated", !.ir = i, !.round = 0, !.brief = b, !.rev = next]
          \in SessionRow
  BY <1>0, "validated" \in States DEF SessionRow, States
<1>5. \A b, c \in Token, n \in Nat :
        [s EXCEPT !.brief = b, !.round = n, !.ctx = c, !.rev = next] \in SessionRow
  BY <1>0 DEF SessionRow
<1>6. QED  BY <1>1, <1>2, <1>3, <1>4, <1>5 DEF next

LEMMA TurnUpdates ==
    ASSUME NEW t \in TurnRow
    PROVE  /\ [t EXCEPT !.status = "failed"] \in TurnRow
           /\ \A k \in Kinds, i, b \in Token :
                [t EXCEPT !.status = "succeeded", !.kind = k, !.ir = i, !.brief = b] \in TurnRow
<1>1. [t EXCEPT !.status = "failed"] \in TurnRow  BY DEF TurnRow
<1>2. \A k \in Kinds, i, b \in Token :
        [t EXCEPT !.status = "succeeded", !.kind = k, !.ir = i, !.brief = b] \in TurnRow
  BY DEF TurnRow
<1>3. QED  BY <1>1, <1>2

-----------------------------------------------------------------------------
(* Moves. *)

LEMMA FreshHeld ==
    /\ \A label \in {"idle", "open", "download", "delete", "done"} :
         \A l \in Local : l.path # "confirm" => Held(label, l)
    /\ \A c \in Nat : [Fresh EXCEPT !.code = c].path # "confirm"
  BY DEF Held, Fresh

LEMMA Moves ==
    ASSUME Handlers, NEW r \in Request
    PROVE  /\ \A label \in Labels, l \in Local :
                Goto(r, label) /\ Keep(r, l) /\ Held(label, l) => Handlers'
           /\ \A label \in Labels :
                Goto(r, label) /\ UNCHANGED loc /\ Held(label, loc[r]) => Handlers'
           /\ \A c \in Nat : Answer(r, c) => Handlers'
           /\ Raise(r) => Handlers'
           /\ loc[r] \in Local
<1>1. loc[r] \in Local /\ Held(pc[r], loc[r])  BY DEF Handlers
<1>2. \A label \in Labels, l \in Local :
        Goto(r, label) /\ Keep(r, l) /\ Held(label, l) => Handlers'
  <2> SUFFICES ASSUME NEW label \in Labels, NEW l \in Local,
                      Goto(r, label), Keep(r, l), Held(label, l)
               PROVE  Handlers'
    OBVIOUS
  <2>1. pc' \in [Request -> Labels] /\ pc'[r] = label  BY DEF Handlers, Goto
  <2>2. loc' \in [Request -> Local] /\ loc'[r] = l  BY DEF Handlers, Keep
  <2>3. ASSUME NEW q \in Request PROVE Held(pc'[q], loc'[q])
    <3>1. CASE q = r  BY <3>1, <2>1, <2>2
    <3>2. CASE q # r
      <4>1. pc'[q] = pc[q] /\ loc'[q] = loc[q]  BY <3>2 DEF Handlers, Goto, Keep
      <4>2. QED  BY <4>1 DEF Handlers
    <3>3. QED  BY <3>1, <3>2
  <2>4. QED  BY <2>1, <2>2, <2>3 DEF Handlers
<1>3. \A label \in Labels :
        Goto(r, label) /\ UNCHANGED loc /\ Held(label, loc[r]) => Handlers'
  <2>1. UNCHANGED loc => Keep(r, loc[r])  BY DEF Keep, Handlers
  <2>2. QED  BY <2>1, <1>1, <1>2
<1>4. \A c \in Nat : Answer(r, c) => Handlers'
  BY <1>1, <1>2, LocalUpdates, FreshHeld, "done" \in Labels DEF Answer, Labels
<1>5. Raise(r) => Handlers'
  <2>1. CASE loc[r].path \in {"confirm", "edit"}
    <3>1. [loc[r] EXCEPT !.err = "error"] \in Local
      BY <1>1, LocalUpdates, "error" \in Errors DEF Errors
    <3>2. Held("fail", [loc[r] EXCEPT !.err = "error"])
      BY <1>1 DEF Held, Local
    <3>3. QED  BY <2>1, <3>1, <3>2, <1>2, "fail" \in Labels DEF Raise, Labels
  <2>2. CASE loc[r].path \notin {"confirm", "edit"}
    BY <2>2, <1>4 DEF Raise
  <2>3. QED  BY <2>1, <2>2
<1>6. QED  BY <1>1, <1>2, <1>3, <1>4, <1>5

LEMMA Logs ==
    ASSUME archived \subseteq Events \X Request, NEW r \in Request
    PROVE  /\ \A e \in Events : Log(r, e) => archived' \subseteq Events \X Request
           /\ \A e \in Events : LogRaises(r, e) => archived' \subseteq Events \X Request
  BY DEF Log, LogRaises

\* The two shapes of a step that only appends.
LEMMA LogSteps ==
    ASSUME Typed, NEW r \in Request, NEW e \in Events
    PROVE  /\ \A c \in Nat : LogThenAnswer(r, e, c) => Typed'
           /\ \A label \in Labels : Held(label, loc[r]) /\ LogThenGoto(r, e, label) => Typed'
<1>1. ASSUME NEW c \in Nat, LogThenAnswer(r, e, c) PROVE Typed'
  <2>1. Handlers'  BY <1>1, Moves DEF LogThenAnswer, Typed
  <2>2. Tables'  BY <1>1, Logs DEF LogThenAnswer, Typed, Tables, tables
  <2>3. QED  BY <2>1, <2>2 DEF Typed
<1>2. ASSUME NEW label \in Labels, Held(label, loc[r]), LogThenGoto(r, e, label) PROVE Typed'
  <2>1. Handlers'  BY <1>2, Moves DEF LogThenGoto, Typed
  <2>2. Tables'  BY <1>2, Logs DEF LogThenGoto, Typed, Tables, tables
  <2>3. QED  BY <2>1, <2>2 DEF Typed
<1>3. QED  BY <1>1, <1>2

-----------------------------------------------------------------------------
(* The steps that create the session and read for a turn. *)

LEMMA ReceiveCreateTyped == ASSUME Typed, NEW r \in Request, ReceiveCreate(r) PROVE Typed'
<1>1. CASE \E path \in CreatePaths : Goto(r, "open") /\ Keep(r, [Fresh EXCEPT !.path = path])
  <2>1. PICK path \in CreatePaths : Goto(r, "open") /\ Keep(r, [Fresh EXCEPT !.path = path])
    BY <1>1
  <2>2. path \in Paths /\ path # "confirm"  BY PathsAssumption DEF Paths
  <2>3. Fresh \in Local  BY Moves, LocalUpdates DEF Typed
  <2>4. [Fresh EXCEPT !.path = path] \in Local  BY <2>2, <2>3, LocalUpdates
  <2>5. Held("open", [Fresh EXCEPT !.path = path])  BY <2>2 DEF Held, Fresh
  <2>6. Handlers'  BY <2>1, <2>4, <2>5, Moves, "open" \in Labels DEF Typed, Labels
  <2>7. Tables'
    BY Logs, "session.created" \in Events DEF ReceiveCreate, Typed, Tables, tables, Events
  <2>8. QED  BY <2>6, <2>7 DEF Typed
<1>2. CASE LogRaises(r, "session.created") /\ Answer(r, 500)
  <2>1. Handlers'  BY <1>2, Moves DEF Typed
  <2>2. Tables'
    BY <1>2, Logs, "session.created" \in Events DEF ReceiveCreate, Typed, Tables, tables, Events
  <2>3. QED  BY <2>1, <2>2 DEF Typed
<1>3. QED  BY <1>1, <1>2 DEF ReceiveCreate

LEMMA CommitCreateTyped == ASSUME Typed, NEW r \in Request, CommitCreate(r) PROVE Typed'
<1>1. \A hasDefaults \in BOOLEAN : NewSession(r, hasDefaults) \in SessionRow
  BY DEF NewSession, SessionRow, Token, Maybe, States
<1>2. sess' \in Maybe(SessionRow)  BY <1>1 DEF CommitCreate, Typed, Tables, Maybe
<1>3. archived' \subseteq Events \X Request
  BY Logs, "llm_config_inherited" \in Events DEF CommitCreate, Typed, Tables, Events
<1>4. Handlers'
  <2>1. CASE loc[r].path = "seed" /\ Goto(r, "context") /\ UNCHANGED loc
    <3>1. Held("context", loc[r])  BY <2>1 DEF Held
    <3>2. QED  BY <2>1, <3>1, Moves, "context" \in Labels DEF Typed, Labels
  <2>2. CASE \E code \in {200, 400, 500} : Answer(r, code)
    BY <2>2, Moves DEF Typed
  <2>3. QED  BY <2>1, <2>2 DEF CommitCreate
<1>5. QED  BY <1>2, <1>3, <1>4 DEF CommitCreate, Typed, Tables

LEMMA SetPlanningContextTyped ==
    ASSUME Typed, NEW r \in Request, SetPlanningContext(r) PROVE Typed'
<1> DEFINE out == [kind |-> "plan", ir |-> r, brief |-> Nothing, round |-> 0]
<1>1. out \in Outcome /\ out # Nothing
  BY NothingAssumption DEF Outcome, Kinds, Token, Maybe
<1> HIDE DEF out
<1>2. sess' \in Maybe(SessionRow)
  <2>1. sess # Nothing => sess \in SessionRow  BY DEF Typed, Tables, Maybe
  <2>2. r \in Token  BY DEF Token, Maybe
  <2>3. sess # Nothing =>
          [sess EXCEPT !.ctx = r, !.selfDesign = FALSE, !.rev = @ + 1] \in SessionRow
    BY <2>1, <2>2, SessionUpdates
  <2>4. QED  BY <2>3 DEF SetPlanningContext, Typed, Tables, Maybe
<1>3. Handlers'
  <2>1. CASE Goto(r, "select") /\ Keep(r, [loc[r] EXCEPT !.out = out])
    <3>1. [loc[r] EXCEPT !.out = out] \in Local  BY <1>1, Moves, LocalUpdates DEF Typed
    <3>2. loc[r] \in Local /\ Held("context", loc[r])
      BY DEF Typed, Handlers, SetPlanningContext
    <3>3. Held("select", [loc[r] EXCEPT !.out = out])
      BY <1>1, <3>2 DEF Held, Local
    <3>4. QED  BY <2>1, <3>1, <3>3, Moves, "select" \in Labels DEF Typed, Labels
  <2>2. CASE \E code \in {400, 500} : Answer(r, code)
    BY <2>2, Moves DEF Typed
  <2>3. QED  BY <2>1, <2>2 DEF SetPlanningContext, out
<1>4. QED  BY <1>2, <1>3 DEF SetPlanningContext, Typed, Tables

LEMMA ReceiveTurnTyped ==
    ASSUME Typed, NEW r \in Request, NEW m \in Messages, ReceiveTurn(r, m) PROVE Typed'
<1>1. Tables'  BY DEF ReceiveTurn, Typed, Tables, tables
<1>2. CASE sess = Nothing
  <2>1. Handlers'  BY <1>2, Moves DEF ReceiveTurn, Typed
  <2>2. QED  BY <1>1, <2>1 DEF Typed
<1>3. CASE sess # Nothing
  <2> DEFINE path == IF "secret" \in m THEN "secret" ELSE "turn"
             l == [Fresh EXCEPT !.path = path, !.msg = m, !.snap = sess]
  <2>1. path \in Paths /\ path \notin {"seed", "confirm"}  BY DEF Paths
  <2>2. sess \in SessionRow  BY <1>3 DEF Typed, Tables, Maybe
  <2>3. m \in SUBSET Traits  BY MessagesAssumption
  <2>4. l \in Local  BY <2>1, <2>2, <2>3, Moves, LocalUpdates DEF Typed
  <2>5. Held("list", l)  BY <1>3, <2>1 DEF Held, Fresh
  <2>6. Goto(r, "list") /\ Keep(r, l)  BY <1>3 DEF ReceiveTurn
  <2>7. Handlers'  BY <2>4, <2>5, <2>6, Moves, "list" \in Labels DEF Typed, Labels
  <2>8. QED  BY <1>1, <2>7 DEF Typed
<1>4. QED  BY <1>2, <1>3

LEMMA ListTurnsTyped == ASSUME Typed, NEW r \in Request, ListTurns(r) PROVE Typed'
<1>1. Tables'  BY DEF ListTurns, Typed, Tables, tables
<1>2. loc[r] \in Local /\ Held("list", loc[r])  BY DEF Typed, Handlers, ListTurns
<1>3. Held("select", loc[r])  BY <1>2 DEF Held
<1>4. CASE UNCHANGED loc
  <2>1. Handlers'  BY <1>3, <1>4, Moves, "select" \in Labels DEF ListTurns, Typed, Labels
  <2>2. QED  BY <1>1, <2>1 DEF Typed
<1>5. ASSUME NEW q \in Request, IsLastTurn(q),
             Keep(r, [loc[r] EXCEPT !.last = [kind |-> turns[q].kind, brief |-> turns[q].brief,
                                              asked |-> Asked(turns[q])]])
      PROVE  Typed'
  <2> DEFINE seen == [kind |-> turns[q].kind, brief |-> turns[q].brief, asked |-> Asked(turns[q])]
  <2>1. turns[q] \in TurnRow  BY <1>5 DEF IsLastTurn, Typed, Tables, Maybe
  <2>2. Asked(turns[q]) \in BOOLEAN  BY DEF Asked
  <2>3. seen \in Seen  BY <2>1, <2>2 DEF TurnRow, Seen
  <2>4. seen # Nothing  BY <2>3, NothingAssumption
  <2> HIDE DEF seen
  <2>5. [loc[r] EXCEPT !.last = seen] \in Local  BY <1>2, <2>3, LocalUpdates
  <2>6. Held("select", [loc[r] EXCEPT !.last = seen])  BY <1>2, <1>3, <2>4 DEF Held, Local
  <2>7. Goto(r, "select") /\ Keep(r, [loc[r] EXCEPT !.last = seen])
    BY <1>5 DEF ListTurns, seen
  <2>8. Handlers'  BY <2>5, <2>6, <2>7, Moves, "select" \in Labels DEF Typed, Labels
  <2>9. QED  BY <1>1, <2>8 DEF Typed
<1>6. QED  BY <1>4, <1>5 DEF ListTurns

LEMMA CreateTurnSelectTyped == ASSUME Typed, NEW r \in Request, CreateTurnSelect(r) PROVE Typed'
<1>1. loc[r] \in Local /\ Held("select", loc[r])  BY DEF Typed, Handlers, CreateTurnSelect
<1>2. CASE \E code \in {409, 500} : Answer(r, code) /\ UNCHANGED clock
  <2>1. Handlers'  BY <1>2, Moves DEF Typed
  <2>2. Tables'  BY <1>2 DEF CreateTurnSelect, Typed, Tables, tables
  <2>3. QED  BY <2>1, <2>2 DEF Typed
<1>3. CASE sess # Nothing /\ clock' = clock + 1 /\ Goto(r, "insert")
           /\ Keep(r, [loc[r] EXCEPT !.rev = sess.rev, !.at = clock + 1,
                                     !.ir = IF sess.ir # Nothing THEN sess.ir ELSE CallerIR(r)])
  <2> DEFINE ir == IF sess.ir # Nothing THEN sess.ir ELSE CallerIR(r)
             l == [loc[r] EXCEPT !.rev = sess.rev, !.at = clock + 1, !.ir = ir]
  <2>1. sess \in SessionRow  BY <1>3 DEF Typed, Tables, Maybe
  <2>2. clock + 1 \in Nat  BY DEF Typed, Tables
  <2>3. CallerIR(r) \in Token
    <3>1. loc[r].path # "seed" => loc[r].snap \in SessionRow  BY <1>1 DEF Held, Local, Maybe
    <3>2. QED  BY <3>1 DEF CallerIR, SessionRow, Token, Maybe
  <2>4. ir \in Token  BY <2>1, <2>3 DEF SessionRow
  <2>5. sess.rev \in Nat  BY <2>1 DEF SessionRow
  <2> HIDE DEF ir
  <2>6. l \in Local  BY <1>1, <2>2, <2>4, <2>5, LocalUpdates
  <2>7. l.path = loc[r].path /\ l.out = loc[r].out /\ l.snap = loc[r].snap /\ l.last = loc[r].last
    BY <1>1 DEF Local
  <2>8. Held("insert", l)  BY <1>1, <2>7 DEF Held
  <2>9. Keep(r, l)  BY <1>3 DEF ir
  <2>10. Handlers'  BY <1>3, <2>6, <2>8, <2>9, Moves, "insert" \in Labels DEF Typed, Labels
  <2>11. Tables'  BY <1>3, <2>2 DEF CreateTurnSelect, Typed, Tables, tables
  <2>12. QED  BY <2>10, <2>11 DEF Typed
<1>4. QED  BY <1>2, <1>3 DEF CreateTurnSelect

LEMMA CreateTurnInsertTyped == ASSUME Typed, NEW r \in Request, CreateTurnInsert(r) PROVE Typed'
<1>1. loc[r] \in Local /\ Held("insert", loc[r])  BY DEF Typed, Handlers, CreateTurnInsert
<1>2. [status |-> "running",
       kind |-> IF loc[r].path = "secret" THEN "clarify" ELSE "plan",
       at |-> loc[r].at, rev |-> loc[r].rev, irBefore |-> loc[r].ir,
       ir |-> Nothing, brief |-> Nothing] \in TurnRow
  BY <1>1 DEF Local, TurnRow, Kinds, Token, Maybe
<1>3. turns' \in [Request -> Maybe(TurnRow)]
  BY <1>2 DEF CreateTurnInsert, Typed, Tables, Maybe
<1>4. Handlers'
  <2>1. CASE loc[r].path = "seed"
    <3>1. Held("finish", loc[r])  BY <1>1, <2>1 DEF Held
    <3>2. QED  BY <2>1, <3>1, Moves, "finish" \in Labels DEF CreateTurnInsert, Typed, Labels
  <2>2. CASE loc[r].path # "seed"
    <3>1. Held("started", loc[r])  BY <1>1, <2>2 DEF Held
    <3>2. QED  BY <2>2, <3>1, Moves, "started" \in Labels DEF CreateTurnInsert, Typed, Labels
  <2>3. QED  BY <2>1, <2>2
<1>5. QED  BY <1>3, <1>4 DEF CreateTurnInsert, Typed, Tables

LEMMA ArchiveStartedTyped == ASSUME Typed, NEW r \in Request, ArchiveStarted(r) PROVE Typed'
<1>1. loc[r] \in Local /\ Held("started", loc[r])  BY DEF Typed, Handlers, ArchiveStarted
<1>2. Tables'
  BY Logs, "turn.started" \in Events DEF ArchiveStarted, Typed, Tables, tables, Events
<1>3. CASE \E code \in {500} : Answer(r, code)
  <2>1. Handlers'  BY <1>3, Moves DEF Typed
  <2>2. QED  BY <1>2, <2>1 DEF Typed
<1>4. CASE /\ Goto(r, IF Route(r) \in {"secret", "clarify"} THEN "clarify" ELSE "plan")
           /\ Keep(r, [loc[r] EXCEPT !.path = Route(r)])
  <2> DEFINE route == Route(r)
             label == IF route \in {"secret", "clarify"} THEN "clarify" ELSE "plan"
             l == [loc[r] EXCEPT !.path = route]
  <2>1. route \in Paths /\ (route = "confirm" => ConfirmsReview(r))
    BY DEF Route, Paths
  <2>2. ConfirmsReview(r) => loc[r].last # Nothing  BY DEF ConfirmsReview
  <2> HIDE DEF route
  <2>3. l \in Local  BY <1>1, <2>1, LocalUpdates
  <2>4. l.path = route /\ l.snap = loc[r].snap /\ l.last = loc[r].last  BY <1>1 DEF Local
  <2>5. loc[r].snap # Nothing  BY <1>1 DEF Held
  <2>6. Held(label, l)  BY <2>1, <2>2, <2>4, <2>5 DEF Held
  <2>7. label \in Labels  BY DEF Labels
  <2>8. Goto(r, label) /\ Keep(r, l)  BY <1>4 DEF route
  <2>9. Handlers'  BY <2>3, <2>6, <2>7, <2>8, Moves DEF Typed
  <2>10. QED  BY <1>2, <2>9 DEF Typed
<1>5. QED  BY <1>3, <1>4 DEF ArchiveStarted

-----------------------------------------------------------------------------
(* The steps that run a turn. *)

LEMMA ProposeTyped ==
    ASSUME Typed, NEW r \in Request, NEW label \in {"questionnaire", "finish"},
           NEW kind \in Kinds, NEW ir \in Token, NEW brief \in Token, NEW round \in Nat,
           Propose(r, kind, ir, brief, round), Goto(r, label),
           loc[r].path = "confirm" => loc[r].snap # Nothing /\ loc[r].last # Nothing
    PROVE  Handlers'
<1> DEFINE out == [kind |-> kind, ir |-> ir, brief |-> brief, round |-> round]
           l == [loc[r] EXCEPT !.out = out]
<1>1. out \in Outcome /\ out # Nothing  BY NothingAssumption DEF Outcome
<1>2. Keep(r, l)  BY DEF Propose
<1> HIDE DEF out
<1>3. loc[r] \in Local  BY Moves DEF Typed
<1>4. l \in Local  BY <1>1, <1>3, LocalUpdates
<1>5. l.path = loc[r].path /\ l.out = out /\ l.snap = loc[r].snap /\ l.last = loc[r].last
  BY <1>3 DEF Local
<1>6. Held(label, l)  BY <1>1, <1>5 DEF Held
<1>7. label \in Labels  BY DEF Labels
<1>8. QED  BY <1>2, <1>4, <1>6, <1>7, Moves DEF Typed

LEMMA RunEngineTyped == ASSUME Typed, NEW r \in Request, RunEngine(r) PROVE Typed'
<1>1. loc[r] \in Local /\ Held("clarify", loc[r])  BY DEF Typed, Handlers, RunEngine
<1>2. Tables'
  BY Logs, "turn.clarify_started" \in Events DEF RunEngine, Typed, Tables, tables, Events
<1>3. loc[r].snap \in SessionRow  BY <1>1 DEF Held, Local, Maybe
<1>4. /\ loc[r].snap.brief \in Token /\ loc[r].snap.round \in Nat /\ loc[r].snap.round + 1 \in Nat
      /\ 0 \in Nat /\ r \in Token /\ r # Nothing /\ Nothing \in Token
  BY <1>3, RequestAssumption DEF SessionRow, Token, Maybe
<1>5. loc[r].path = "confirm" => loc[r].snap # Nothing /\ loc[r].last # Nothing
  BY <1>1 DEF Held
<1>6. {"clarify", "questionnaire", "brief_review"} \subseteq Kinds  BY DEF Kinds
<1>7. CASE ClarifySecret(r)
  <2>1. Or(loc[r].snap.brief, r) \in Token  BY <1>4 DEF Or
  <2>2. QED  BY <1>4, <1>5, <1>6, <1>7, <2>1, <1>2, ProposeTyped DEF ClarifySecret, Typed
<1>8. CASE ClarifyAgain(r)
  <2>1. loc[r].last \in Seen  BY <1>1, <1>8 DEF ClarifyAgain, RepeatsLast, Local, Maybe
  <2>2. DraftAgain(r) \in Token /\ loc[r].last.kind \in Kinds
    BY <1>4, <2>1 DEF DraftAgain, Or, Seen
  <2>3. Or(DraftAgain(r), r) \in Token  BY <1>4, <2>2 DEF Or
  <2>4. QED  BY <1>4, <1>5, <1>6, <1>8, <2>2, <2>3, <1>2, ProposeTyped DEF ClarifyAgain, Typed
<1>9. CASE ClarifyStep(r)
  <2>1. CASE Propose(r, "brief_review", Nothing, r, 0) /\ Goto(r, "finish")
    BY <1>4, <1>5, <1>6, <1>2, <2>1, ProposeTyped DEF Typed
  <2>2. CASE /\ Propose(r, "questionnaire", Nothing, r, loc[r].snap.round)
             /\ Goto(r, "questionnaire")
    BY <1>4, <1>5, <1>6, <1>2, <2>2, ProposeTyped DEF Typed
  <2>3. CASE Propose(r, "clarify", Nothing, r, loc[r].snap.round + 1) /\ Goto(r, "finish")
    BY <1>4, <1>5, <1>6, <1>2, <2>3, ProposeTyped DEF Typed
  <2>4. QED  BY <1>9, <2>1, <2>2, <2>3 DEF ClarifyStep
<1>10. CASE Answer(r, 500)
  BY <1>10, <1>2, Moves DEF Typed
<1>11. QED  BY <1>7, <1>8, <1>9, <1>10 DEF RunEngine

LEMMA RunPlannerTyped == ASSUME Typed, NEW r \in Request, RunPlanner(r) PROVE Typed'
<1>1. loc[r] \in Local /\ Held("plan", loc[r])  BY DEF Typed, Handlers, RunPlanner
<1>2. Tables'  BY DEF RunPlanner, Typed, Tables, tables
<1>3. loc[r].snap \in SessionRow /\ loc[r].snap.brief \in Token
  BY <1>1 DEF Held, Local, Maybe, SessionRow
<1>4. loc[r].path = "confirm" => loc[r].snap # Nothing /\ loc[r].last \in Seen /\ loc[r].last # Nothing
  BY <1>1 DEF Held, Local, Maybe
<1>5. loc[r].path = "confirm" => DraftUnderReview(r) \in Token
  BY <1>3, <1>4 DEF DraftUnderReview, Seen
<1>6. CASE PlanAccepted(r)
  <2> DEFINE brief == IF loc[r].path = "confirm" THEN DraftUnderReview(r) ELSE Nothing
  <2>1. brief \in Token  BY <1>5 DEF Token, Maybe
  <2>2. Propose(r, "plan", r, brief, 0) /\ Goto(r, "finish")  BY <1>6 DEF PlanAccepted
  <2> HIDE DEF brief
  <2>3. "plan" \in Kinds /\ r \in Token  BY DEF Kinds, Token, Maybe
  <2>4. Handlers'  BY <1>4, <2>1, <2>2, <2>3, ProposeTyped
  <2>5. QED  BY <1>2, <2>4 DEF Typed
<1>7. CASE PlanFailed(r)
  <2>1. PICK err \in {"blocked", "rejected", "error"} :
          Keep(r, [loc[r] EXCEPT !.err = err]) /\ Goto(r, "fail")
    BY <1>7 DEF PlanFailed
  <2>2. [loc[r] EXCEPT !.err = err] \in Local  BY <1>1, LocalUpdates DEF Errors
  <2>3. Held("fail", [loc[r] EXCEPT !.err = err])  BY <1>1 DEF Held, Local
  <2>4. Handlers'  BY <2>1, <2>2, <2>3, Moves, "fail" \in Labels DEF Typed, Labels
  <2>5. QED  BY <1>2, <2>4 DEF Typed
<1>8. QED  BY <1>6, <1>7 DEF RunPlanner

LEMMA ArchiveQuestionnaireTyped ==
    ASSUME Typed, NEW r \in Request, ArchiveQuestionnaire(r) PROVE Typed'
<1>1. Held("questionnaire", loc[r])  BY DEF Typed, Handlers, ArchiveQuestionnaire
<1>2. Held("finish", loc[r])  BY <1>1 DEF Held
<1>3. QED
  BY <1>2, LogSteps, "turn.questionnaire_emitted" \in Events, "finish" \in Labels
     DEF ArchiveQuestionnaire, Events, Labels

-----------------------------------------------------------------------------
(* The steps that finish a turn. *)

\* A step that leaves the tables typed and either moves on with what the handler
\* holds to a label that asks nothing of it, or raises, or answers.
Plain == {"fail", "fail_commit", "failed", "succeeded", "replied", "seeded",
          "config_set", "produced", "download", "downloaded", "delete", "deleted"}

LEMMA PlainSteps ==
    ASSUME Typed, NEW r \in Request
    PROVE  /\ \A label \in Plain : Goto(r, label) /\ UNCHANGED loc => Handlers'
           /\ \A code \in {200, 204, 400, 404, 409, 422, 500} : Answer(r, code) => Handlers'
           /\ Raise(r) => Handlers'
<1>1. ASSUME NEW label \in Plain, Goto(r, label), UNCHANGED loc PROVE Handlers'
  <2>1. loc[r].path = "confirm" => loc[r].snap # Nothing /\ loc[r].last # Nothing
    BY DEF Typed, Handlers, Held
  <2>2. Held(label, loc[r])  BY <2>1 DEF Held, Plain
  <2>3. label \in Labels  BY DEF Plain, Labels
  <2>4. QED  BY <1>1, <2>2, <2>3, Moves DEF Typed
<1>2. \A code \in {200, 204, 400, 404, 409, 422, 500} : Answer(r, code) => Handlers'
  BY Moves DEF Typed
<1>3. Raise(r) => Handlers'  BY Moves DEF Typed
<1>4. QED  BY <1>1, <1>2, <1>3

LEMMA FinishSelectTyped == ASSUME Typed, NEW r \in Request, FinishSelect(r) PROVE Typed'
<1>1. Tables'  BY DEF FinishSelect, Typed, Tables, tables
<1>2. CASE Goto(r, "commit") /\ UNCHANGED loc
  <2>1. Held("finish", loc[r])  BY DEF Typed, Handlers, FinishSelect
  <2>2. Held("commit", loc[r])  BY <2>1 DEF Held
  <2>3. Handlers'  BY <1>2, <2>2, Moves, "commit" \in Labels DEF Typed, Labels
  <2>4. QED  BY <1>1, <2>3 DEF Typed
<1>3. CASE Raise(r)
  BY <1>1, <1>3, PlainSteps DEF Typed
<1>4. QED  BY <1>2, <1>3 DEF FinishSelect

LEMMA UpdateTurnTyped ==
    ASSUME Typed, NEW r \in Request, NEW row, UpdateTurn(r, row),
           turns[r] \in TurnRow => row \in TurnRow
    PROVE  turns' \in [Request -> Maybe(TurnRow)]
<1>1. turns \in [Request -> Maybe(TurnRow)]  BY DEF Typed, Tables
<1>2. turns[r] # Nothing => turns[r] \in TurnRow  BY <1>1 DEF Maybe
<1>3. QED  BY <1>1, <1>2 DEF UpdateTurn, Maybe

LEMMA FinishAcceptTyped ==
    ASSUME Typed, NEW r \in Request, pc[r] = "commit", FinishAccept(r)
    PROVE  /\ sess' \in Maybe(SessionRow)
           /\ turns' \in [Request -> Maybe(TurnRow)]
           /\ Handlers'
<1>1. loc[r] \in Local /\ Held("commit", loc[r])  BY DEF Typed, Handlers
<1>2. loc[r].out \in Outcome  BY <1>1 DEF Held, Local, Maybe
<1>3. /\ loc[r].out.kind \in Kinds /\ loc[r].out.ir \in Token
      /\ loc[r].out.brief \in Token /\ loc[r].out.round \in Nat
  BY <1>2 DEF Outcome
<1>4. sess \in SessionRow /\ sess.brief \in Token /\ r \in Token
  BY DEF FinishAccept, BaseIsCurrent, Typed, Tables, SessionRow, Token, Maybe
<1>5. Or(loc[r].out.brief, sess.brief) \in Token  BY <1>3, <1>4 DEF Or
<1>6. sess' \in SessionRow
  <2>1. CASE loc[r].out.kind = "plan"
    <3>1. sess' = [sess EXCEPT !.state = "validated", !.ir = loc[r].out.ir, !.round = 0,
                               !.brief = Or(loc[r].out.brief, sess.brief), !.rev = @ + 1]
      BY <2>1, <1>4 DEF FinishAccept, Accepted, SessionRow
    <3>2. QED  BY <3>1, <1>3, <1>4, <1>5, SessionUpdates
  <2>2. CASE loc[r].out.kind # "plan"
    <3>1. sess' = [sess EXCEPT !.brief = loc[r].out.brief, !.round = loc[r].out.round,
                               !.ctx = r, !.rev = @ + 1]
      BY <2>2 DEF FinishAccept, Accepted
    <3>2. QED  BY <3>1, <1>3, <1>4, SessionUpdates
  <2>3. QED  BY <2>1, <2>2
<1>7. turns[r] \in TurnRow =>
        [turns[r] EXCEPT !.status = "succeeded", !.kind = loc[r].out.kind,
                         !.ir = loc[r].out.ir, !.brief = loc[r].out.brief] \in TurnRow
  BY <1>3, TurnUpdates
<1>8. turns' \in [Request -> Maybe(TurnRow)]
  BY <1>7, UpdateTurnTyped DEF FinishAccept
<1>9. Handlers'
  BY PlainSteps, {"seeded", "succeeded", "replied"} \subseteq Plain DEF FinishAccept, Plain
<1>10. QED  BY <1>6, <1>8, <1>9 DEF Maybe

LEMMA FinishCommitTyped == ASSUME Typed, NEW r \in Request, FinishCommit(r) PROVE Typed'
<1>1. CASE FinishAccept(r)
  <2>1. /\ sess' \in Maybe(SessionRow) /\ turns' \in [Request -> Maybe(TurnRow)] /\ Handlers'
    BY <1>1, FinishAcceptTyped DEF FinishCommit
  <2>2. QED  BY <2>1 DEF FinishCommit, Typed, Tables
<1>2. CASE FinishConflict(r)
  <2>1. turns' \in [Request -> Maybe(TurnRow)]
    BY <1>2, UpdateTurnTyped, TurnUpdates DEF FinishConflict
  <2>2. Handlers'  BY <1>2, PlainSteps DEF FinishConflict
  <2>3. QED  BY <1>2, <2>1, <2>2 DEF FinishConflict, FinishCommit, Typed, Tables
<1>3. QED  BY <1>1, <1>2 DEF FinishCommit

LEMMA OutcomeTyped ==
    ASSUME Typed, NEW r \in Request
    PROVE  /\ RowIsGone(r) /\ UNCHANGED <<tables, clock>> => Typed'
           /\ \A e \in Events :
                LogOutcome(r, e, Handlers') /\ UNCHANGED <<tables, clock>> => Typed'
<1>1. RowIsGone(r) /\ UNCHANGED <<tables, clock>> => Typed'
  BY PlainSteps DEF RowIsGone, Typed, Tables, tables
<1>2. \A e \in Events : LogOutcome(r, e, Handlers') /\ UNCHANGED <<tables, clock>> => Typed'
  BY PlainSteps, Logs DEF LogOutcome, Typed, Tables, tables
<1>3. QED  BY <1>1, <1>2

LEMMA ArchiveOutcomeTyped ==
    ASSUME Typed, NEW r \in Request,
           ArchiveReplied(r) \/ ArchiveSucceeded(r) \/ ArchiveSeeded(r)
    PROVE  Typed'
<1>1. /\ Goto(r, "succeeded") /\ UNCHANGED loc => Handlers'
      /\ Answer(r, 200) => Handlers'
  BY PlainSteps, "succeeded" \in Plain DEF Plain
<1>2. {"turn.clarify_replied", "turn.succeeded", "template_seeded"} \subseteq Events
  BY DEF Events
<1>3. CASE ArchiveReplied(r)
  BY <1>1, <1>2, <1>3, OutcomeTyped DEF ArchiveReplied, LogOutcome
<1>4. CASE ArchiveSucceeded(r)
  BY <1>1, <1>2, <1>4, OutcomeTyped DEF ArchiveSucceeded, LogOutcome
<1>5. CASE ArchiveSeeded(r)
  BY <1>1, <1>2, <1>5, OutcomeTyped DEF ArchiveSeeded, LogOutcome
<1>6. QED  BY <1>3, <1>4, <1>5

LEMMA FailTyped ==
    ASSUME Typed, NEW r \in Request, FailSelect(r) \/ FailCommit(r) \/ ArchiveFailed(r)
    PROVE  Typed'
<1>1. CASE FailSelect(r)
  <2>1. Handlers'  BY <1>1, PlainSteps, "fail_commit" \in Plain DEF FailSelect, Plain
  <2>2. Tables'  BY <1>1 DEF FailSelect, Typed, Tables, tables
  <2>3. QED  BY <2>1, <2>2 DEF Typed
<1>2. CASE FailCommit(r)
  <2>1. Handlers'  BY <1>2, PlainSteps, "failed" \in Plain DEF FailCommit, Plain
  <2>2. turns[r] # Nothing => turns[r] \in TurnRow  BY DEF Typed, Tables, Maybe
  <2>3. turns[r] # Nothing => [turns[r] EXCEPT !.status = "failed"] \in TurnRow
    BY <2>2, TurnUpdates
  <2>4. turns' \in [Request -> Maybe(TurnRow)]
    BY <1>2, <2>3 DEF FailCommit, Typed, Tables, Maybe
  <2>5. QED  BY <1>2, <2>1, <2>4 DEF FailCommit, Typed, Tables
<1>3. CASE ArchiveFailed(r)
  <2>1. FailedCode(r) \in {200, 400, 422}  BY DEF FailedCode
  <2>2. CASE LogThenAnswer(r, "turn.failed", FailedCode(r))
    BY <2>1, <2>2, LogSteps, "turn.failed" \in Events DEF Events
  <2>3. CASE /\ Answer(r, IF turns[r] = Nothing THEN 500 ELSE FailedCode(r))
             /\ UNCHANGED <<tables, archived, clock>>
    BY <2>1, <2>3, PlainSteps DEF Typed, Tables, tables
  <2>4. QED  BY <1>3, <2>2, <2>3 DEF ArchiveFailed
<1>4. QED  BY <1>1, <1>2, <1>3

-----------------------------------------------------------------------------
(* The other operations. *)

LEMMA SnapTyped ==
    ASSUME Typed, NEW r \in Request, sess # Nothing
    PROVE  /\ [Fresh EXCEPT !.snap = sess] \in Local
           /\ Held("config", [Fresh EXCEPT !.snap = sess])
           /\ Held("artifact", [Fresh EXCEPT !.snap = sess])
<1>1. sess \in SessionRow  BY DEF Typed, Tables, Maybe
<1>2. [Fresh EXCEPT !.snap = sess] \in Local  BY <1>1, Moves, LocalUpdates DEF Typed
<1>3. /\ [Fresh EXCEPT !.snap = sess].snap = sess
      /\ [Fresh EXCEPT !.snap = sess].path = "none"
  BY DEF Fresh
<1>4. QED  BY <1>2, <1>3 DEF Held

LEMMA ConfigTyped ==
    ASSUME Typed, NEW r \in Request, ReceiveConfig(r) \/ WriteConfig(r) \/ ArchiveConfig(r)
    PROVE  Typed'
<1>1. CASE ReceiveConfig(r)
  <2>1. Handlers'
    BY <1>1, PlainSteps, SnapTyped, Moves, "config" \in Labels DEF ReceiveConfig, Typed, Labels
  <2>2. Tables'  BY <1>1 DEF ReceiveConfig, Typed, Tables, tables
  <2>3. QED  BY <2>1, <2>2 DEF Typed
<1>2. CASE WriteConfig(r)
  <2>1. Held("config", loc[r]) /\ loc[r] \in Local  BY <1>2 DEF WriteConfig, Typed, Handlers
  <2>2. loc[r].snap.state \in States  BY <2>1 DEF Held, Local, Maybe, SessionRow
  <2>3. Configured(loc[r].snap.state) \in States  BY <2>2 DEF Configured, States
  <2>4. sess # Nothing => sess \in SessionRow  BY DEF Typed, Tables, Maybe
  <2>5. r \in Token  BY DEF Token, Maybe
  <2>6. sess # Nothing => [sess EXCEPT !.state = Configured(loc[r].snap.state),
                                       !.key = r, !.rev = @ + 1] \in SessionRow
    BY <2>3, <2>4, <2>5, SessionUpdates
  <2>7. sess' \in Maybe(SessionRow)  BY <1>2, <2>6 DEF WriteConfig, Maybe
  <2>8. Handlers'  BY <1>2, PlainSteps, "config_set" \in Plain DEF WriteConfig, Plain
  <2>9. QED  BY <1>2, <2>7, <2>8 DEF WriteConfig, Typed, Tables
<1>3. CASE ArchiveConfig(r)
  BY <1>3, LogSteps, "session.llm_config_set" \in Events DEF ArchiveConfig, Events
<1>4. QED  BY <1>1, <1>2, <1>3

LEMMA CompileTyped ==
    ASSUME Typed, NEW r \in Request, ReceiveCompile(r) \/ CreateArtifact(r) \/ ArchiveCompile(r)
    PROVE  Typed'
<1>1. CASE ReceiveCompile(r)
  <2>1. Handlers'
    BY <1>1, PlainSteps, SnapTyped, Moves, "artifact" \in Labels DEF ReceiveCompile, Typed, Labels
  <2>2. Tables'  BY <1>1 DEF ReceiveCompile, Typed, Tables, tables
  <2>3. QED  BY <2>1, <2>2 DEF Typed
<1>2. CASE CreateArtifact(r)
  <2>1. Held("artifact", loc[r]) /\ loc[r] \in Local  BY <1>2 DEF CreateArtifact, Typed, Handlers
  <2>2. loc[r].snap.ir \in Token  BY <2>1 DEF Held, Local, Maybe, SessionRow
  <2>3. artifacts' \in [Request -> Token]  BY <1>2, <2>2 DEF CreateArtifact, Typed, Tables
  <2>4. sess # Nothing => sess \in SessionRow  BY DEF Typed, Tables, Maybe
  <2>5. sess # Nothing => [sess EXCEPT !.state = "compiled"] \in SessionRow
    BY <2>4, SessionUpdates, "compiled" \in States DEF States
  <2>6. sess' \in Maybe(SessionRow)  BY <1>2, <2>5 DEF CreateArtifact, Maybe
  <2>7. Handlers'  BY <1>2, PlainSteps, "produced" \in Plain DEF CreateArtifact, Plain
  <2>8. QED  BY <1>2, <2>3, <2>6, <2>7 DEF CreateArtifact, Typed, Tables
<1>3. CASE ArchiveCompile(r)
  <2>1. CASE Answer(r, 500) /\ UNCHANGED <<tables, archived, clock>>
    BY <2>1, PlainSteps DEF Typed, Tables, tables
  <2>2. CASE LogThenAnswer(r, "compile.produced", 200)
    BY <2>2, LogSteps, "compile.produced" \in Events DEF Events
  <2>3. QED  BY <1>3, <2>1, <2>2 DEF ArchiveCompile
<1>4. QED  BY <1>1, <1>2, <1>3

LEMMA DownloadTyped ==
    ASSUME Typed, NEW r \in Request, ReceiveDownload(r) \/ MarkDownloaded(r) \/ ArchiveDownload(r)
    PROVE  Typed'
<1>1. CASE ReceiveDownload(r)
  <2>1. Handlers'  BY <1>1, PlainSteps, "download" \in Plain DEF ReceiveDownload, Plain
  <2>2. Tables'  BY <1>1 DEF ReceiveDownload, Typed, Tables, tables
  <2>3. QED  BY <2>1, <2>2 DEF Typed
<1>2. CASE MarkDownloaded(r)
  <2>1. sess # Nothing => sess \in SessionRow  BY DEF Typed, Tables, Maybe
  <2>2. sess # Nothing => [sess EXCEPT !.state = "downloaded"] \in SessionRow
    BY <2>1, SessionUpdates, "downloaded" \in States DEF States
  <2>3. sess' \in Maybe(SessionRow)  BY <1>2, <2>2 DEF MarkDownloaded, Maybe
  <2>4. Handlers'  BY <1>2, PlainSteps, "downloaded" \in Plain DEF MarkDownloaded, Plain
  <2>5. QED  BY <1>2, <2>3, <2>4 DEF MarkDownloaded, Typed, Tables
<1>3. CASE ArchiveDownload(r)
  BY <1>3, LogSteps, "artifact.downloaded" \in Events DEF ArchiveDownload, Events
<1>4. QED  BY <1>1, <1>2, <1>3

LEMMA DeleteTyped ==
    ASSUME Typed, NEW r \in Request, ReceiveDelete(r) \/ DeleteRows(r) \/ ArchiveDelete(r)
    PROVE  Typed'
<1>1. CASE ReceiveDelete(r)
  <2>1. Handlers'  BY <1>1, PlainSteps, "delete" \in Plain DEF ReceiveDelete, Plain
  <2>2. Tables'  BY <1>1 DEF ReceiveDelete, Typed, Tables, tables
  <2>3. QED  BY <2>1, <2>2 DEF Typed
<1>2. CASE DeleteRows(r)
  <2>1. Handlers'  BY <1>2, PlainSteps, "deleted" \in Plain DEF DeleteRows, Plain
  <2>2. Tables'  BY <1>2 DEF DeleteRows, Typed, Tables, Token, Maybe
  <2>3. QED  BY <2>1, <2>2 DEF Typed
<1>3. CASE ArchiveDelete(r)
  BY <1>3, LogSteps, "session.deleted" \in Events DEF ArchiveDelete, Events
<1>4. QED  BY <1>1, <1>2, <1>3

LEMMA CrashTyped == ASSUME Typed, Crash PROVE Typed'
<1>1. Tables'  BY DEF Crash, Typed, Tables, tables
<1>2. pc' \in [Request -> Labels]  BY "done" \in Labels DEF Crash, Typed, Handlers, Labels
<1>3. ASSUME NEW r \in Request PROVE loc'[r] \in Local /\ Held(pc'[r], loc'[r])
  <2>1. loc[r] \in Local /\ Held(pc[r], loc[r])  BY DEF Typed, Handlers
  <2>2. Fresh \in Local /\ Held("done", Fresh)  BY <2>1, LocalUpdates DEF Held, Fresh
  <2>3. QED  BY <2>1, <2>2 DEF Crash
<1>4. loc' \in [Request -> Local]  BY <1>3 DEF Crash
<1>5. QED  BY <1>1, <1>2, <1>3, <1>4 DEF Typed, Handlers

-----------------------------------------------------------------------------
(* Type correctness. *)

LEMMA InitTyped == Init => Typed
<1> SUFFICES ASSUME Init PROVE Typed
  OBVIOUS
<1>1. Tables  BY DEF Init, Tables, Token, Maybe
<1>2. Fresh \in Local  BY DEF Local, Fresh, Token, Maybe
<1>3. Held("idle", Fresh)  BY DEF Held, Fresh
<1>4. Handlers  BY <1>2, <1>3, "idle" \in Labels DEF Init, Handlers, Labels
<1>5. QED  BY <1>1, <1>4 DEF Typed

LEMMA NextTyped == Typed /\ [Next]_vars => Typed'
<1> SUFFICES ASSUME Typed, [Next]_vars PROVE Typed'
  OBVIOUS
<1>1. ASSUME NEW r \in Request, Receive(r) PROVE Typed'
  BY <1>1, ReceiveCreateTyped, ReceiveTurnTyped, ConfigTyped, CompileTyped, DownloadTyped,
     DeleteTyped DEF Receive
<1>2. ASSUME NEW r \in Request, Create(r) \/ OpenTurn(r) PROVE Typed'
  BY <1>2, CommitCreateTyped, SetPlanningContextTyped, ListTurnsTyped, CreateTurnSelectTyped,
     CreateTurnInsertTyped, ArchiveStartedTyped DEF Create, OpenTurn
<1>3. ASSUME NEW r \in Request, RunTurn(r) PROVE Typed'
  BY <1>3, RunEngineTyped, ArchiveQuestionnaireTyped, RunPlannerTyped DEF RunTurn
<1>4. ASSUME NEW r \in Request, FinishTurn(r) PROVE Typed'
  BY <1>4, FinishSelectTyped, FinishCommitTyped, ArchiveOutcomeTyped, FailTyped DEF FinishTurn
<1>5. ASSUME NEW r \in Request, Other(r) PROVE Typed'
  BY <1>5, ConfigTyped, CompileTyped, DownloadTyped, DeleteTyped DEF Other
<1>6. CASE Crash  BY <1>6, CrashTyped
<1>7. CASE UNCHANGED vars
  BY <1>7 DEF vars, tables, Typed, Tables, Handlers
<1>8. QED  BY <1>1, <1>2, <1>3, <1>4, <1>5, <1>6, <1>7 DEF Next, Step, AllServed

\* What a handler holds, and TypeOK, in every reachable state.
THEOREM AlwaysTyped == Spec => []Typed
<1>1. QED  BY InitTyped, NextTyped, PTL DEF Spec

\* Type correctness of the tables, the archive and the handlers' variables.
THEOREM TypeCorrect == Spec => []TypeOK
<1>1. Typed => TypeOK  BY DEF Typed, Tables, Handlers, TypeOK
<1>2. QED  BY <1>1, AlwaysTyped, PTL

-----------------------------------------------------------------------------
(* The compare-and-swap on `revision`. *)

\* Nothing is read and no row written before the Creator has inserted the session.
Origin ==
    /\ \A r \in Request : pc[r] = "open" => r = Creator
    /\ pc[Creator] \in {"idle", "open"} =>
         /\ sess = Nothing
         /\ \A r \in Request : /\ turns[r] = Nothing /\ artifacts[r] = Nothing
                               /\ loc[r].snap = Nothing
                               /\ pc[r] \in {"idle", "open", "done"}

\* A handler has no row before its INSERT, and afterwards a row of the revision
\* it holds; a turn that was applied is of an earlier revision than the session.
RowsInv ==
    \A r \in Request :
        /\ pc[r] \in {"idle", "open", "context", "list", "select", "insert"} => turns[r] = Nothing
        /\ /\ pc[r] \in {"started", "clarify", "questionnaire", "plan", "finish", "commit"}
           /\ turns[r] # Nothing
           => turns[r].rev = loc[r].rev
        /\ sess # Nothing /\ Applied(turns[r]) => turns[r].rev < sess.rev

-----------------------------------------------------------------------------
(* Where a step goes. *)

\* A handler that has received its request never goes back to waiting for it.
LEMMA StepsLeave ==
    ASSUME NEW r \in Request, Step(r)
    PROVE  /\ pc[r] \notin {"idle", "done"}
           /\ \E label \in Labels \ {"idle", "open"} : Goto(r, label)
<1>1. \A c : Answer(r, c) => Goto(r, "done")  BY DEF Answer
<1>2. Raise(r) => Goto(r, "fail") \/ Goto(r, "done")  BY <1>1 DEF Raise
<1>3. {"context", "select", "insert", "started", "clarify", "plan", "finish", "questionnaire",
       "commit", "seeded", "succeeded", "replied", "fail", "fail_commit", "failed", "config_set",
       "produced", "downloaded", "deleted", "done"} \subseteq Labels \ {"idle", "open"}
  BY DEF Labels
<1>4. CASE Create(r)
  BY <1>1, <1>3, <1>4 DEF Create, CommitCreate, SetPlanningContext
<1>5. CASE OpenTurn(r)
  <2>1. CASE ListTurns(r)  BY <1>3, <2>1 DEF ListTurns
  <2>2. CASE CreateTurnSelect(r)  BY <1>1, <1>3, <2>2 DEF CreateTurnSelect
  <2>3. CASE CreateTurnInsert(r)  BY <1>3, <2>3 DEF CreateTurnInsert
  <2>4. CASE ArchiveStarted(r)  BY <1>1, <1>3, <2>4 DEF ArchiveStarted
  <2>5. QED  BY <1>5, <2>1, <2>2, <2>3, <2>4 DEF OpenTurn
<1>6. CASE RunTurn(r)
  <2>1. CASE RunEngine(r)
    BY <1>1, <1>3, <2>1 DEF RunEngine, ClarifySecret, ClarifyAgain, ClarifyStep
  <2>2. CASE ArchiveQuestionnaire(r)
    BY <1>1, <1>3, <2>2 DEF ArchiveQuestionnaire, LogThenGoto
  <2>3. CASE RunPlanner(r)  BY <1>3, <2>3 DEF RunPlanner, PlanAccepted, PlanFailed
  <2>4. QED  BY <1>6, <2>1, <2>2, <2>3 DEF RunTurn
<1>7. CASE FinishTurn(r)
  <2>1. CASE FinishSelect(r)  BY <1>2, <1>3, <2>1 DEF FinishSelect
  <2>2. CASE FinishCommit(r)
    BY <1>1, <1>3, <2>2 DEF FinishCommit, FinishAccept, FinishConflict
  <2>3. CASE ArchiveReplied(r) \/ ArchiveSucceeded(r) \/ ArchiveSeeded(r)
    BY <1>1, <1>2, <1>3, <2>3
       DEF ArchiveReplied, ArchiveSucceeded, ArchiveSeeded, RowIsGone, LogOutcome
  <2>4. CASE FailSelect(r) \/ FailCommit(r) \/ ArchiveFailed(r)
    BY <1>1, <1>3, <2>4 DEF FailSelect, FailCommit, ArchiveFailed, LogThenAnswer
  <2>5. QED  BY <1>7, <2>1, <2>2, <2>3, <2>4 DEF FinishTurn
<1>8. CASE Other(r)
  BY <1>1, <1>3, <1>8 DEF Other, WriteConfig, ArchiveConfig, CreateArtifact, ArchiveCompile,
     MarkDownloaded, ArchiveDownload, DeleteRows, ArchiveDelete, LogThenAnswer
<1>9. QED  BY <1>4, <1>5, <1>6, <1>7, <1>8 DEF Step

\* A request of another client that finds no session, and no artifact, is answered.
LEMMA NothingToRead ==
    ASSUME Typed, NEW r \in Request, Receive(r), r # Creator, sess = Nothing,
           \A q \in Request : artifacts[q] = Nothing
    PROVE  /\ \E code : Answer(r, code)
           /\ UNCHANGED tables
<1>1. UNCHANGED tables
  BY DEF Receive, ReceiveCreate, ReceiveTurn, ReceiveConfig, ReceiveCompile, ReceiveDownload,
     ReceiveDelete
<1>2. CASE ReceiveCreate(r)  BY <1>2 DEF ReceiveCreate
<1>3. CASE \E m \in Messages : ReceiveTurn(r, m)  BY <1>1, <1>3 DEF ReceiveTurn
<1>4. CASE ReceiveConfig(r)  BY <1>1, <1>4 DEF ReceiveConfig
<1>5. CASE ReceiveCompile(r)  BY <1>1, <1>5 DEF ReceiveCompile
<1>6. CASE ReceiveDownload(r)  BY <1>1, <1>6 DEF ReceiveDownload
<1>7. CASE ReceiveDelete(r)  BY <1>1, <1>7 DEF ReceiveDelete
<1>8. QED  BY <1>2, <1>3, <1>4, <1>5, <1>6, <1>7 DEF Receive

LEMMA InitOrigin == Init => Origin
  BY DEF Init, Origin, Fresh

LEMMA StepOrigin == ASSUME Typed, Origin, NEW r \in Request, Step(r) PROVE Origin'
<1>1. PICK label \in Labels \ {"idle", "open"} : Goto(r, label)  BY StepsLeave
<1>2. pc[r] \notin {"idle", "done"}  BY StepsLeave
<1>3. pc \in [Request -> Labels] /\ Creator \in Request
  BY RequestAssumption DEF Typed, Handlers
<1>4. \A q \in Request : pc'[q] = IF q = r THEN label ELSE pc[q]  BY <1>1, <1>3 DEF Goto
<1>5. pc'[Creator] \notin {"idle", "open"}
  <2>1. CASE r = Creator  BY <2>1, <1>1, <1>3, <1>4
  <2>2. CASE r # Creator
    <3>1. pc[Creator] \notin {"idle", "open"}  BY <2>2, <1>2 DEF Origin
    <3>2. QED  BY <3>1, <2>2, <1>3, <1>4
  <2>3. QED  BY <2>1, <2>2
<1>6. \A q \in Request : pc'[q] = "open" => q = Creator  BY <1>1, <1>4 DEF Origin
<1>7. QED  BY <1>5, <1>6 DEF Origin

LEMMA ReceiveOrigin == ASSUME Typed, Origin, NEW r \in Request, Receive(r) PROVE Origin'
<1>1. pc \in [Request -> Labels] /\ loc \in [Request -> Local] /\ Creator \in Request
  BY RequestAssumption DEF Typed, Handlers
<1>2. pc[r] = "idle" /\ UNCHANGED tables
  BY DEF Receive, ReceiveCreate, ReceiveTurn, ReceiveConfig, ReceiveCompile, ReceiveDownload,
     ReceiveDelete
<1>3. CASE ReceiveCreate(r)
  <2>1. r = Creator  BY <1>3 DEF ReceiveCreate
  <2>2. /\ sess = Nothing
        /\ \A q \in Request : turns[q] = Nothing /\ artifacts[q] = Nothing
                              /\ loc[q].snap = Nothing /\ pc[q] \in {"idle", "open", "done"}
    BY <1>2, <2>1 DEF Origin
  <2>3. PICK label \in {"open", "done"}, l \in Local :
          Goto(r, label) /\ Keep(r, l) /\ l.snap = Nothing
    <3>1. Fresh \in Local  BY <1>1, LocalUpdates
    <3>2. \A path \in Paths : /\ [Fresh EXCEPT !.path = path] \in Local
                              /\ [Fresh EXCEPT !.path = path].snap = Nothing
      <4>1. \A path \in Paths : [Fresh EXCEPT !.path = path] \in Local
        BY <3>1, LocalUpdates
      <4>2. \A path \in Paths : [Fresh EXCEPT !.path = path].snap = Nothing  BY DEF Fresh
      <4>3. QED  BY <4>1, <4>2
    <3>3. [Fresh EXCEPT !.code = 500] \in Local /\ [Fresh EXCEPT !.code = 500].snap = Nothing
      <4>1. [Fresh EXCEPT !.code = 500] \in Local  BY DEF Local, Fresh, Token, Maybe
      <4>2. QED  BY <4>1 DEF Fresh
    <3>4. CreatePaths \subseteq Paths  BY PathsAssumption DEF Paths
    <3>5. QED  BY ZenonT(40), <1>3, <3>2, <3>3, <3>4 DEF ReceiveCreate, Answer
  <2>4. \A q \in Request : /\ pc'[q] = IF q = r THEN label ELSE pc[q]
                           /\ loc'[q] = IF q = r THEN l ELSE loc[q]
    BY <1>1, <2>3 DEF Goto, Keep
  <2>5. \A q \in Request : /\ loc'[q].snap = Nothing
                           /\ pc'[q] \in {"idle", "open", "done"}
                           /\ pc'[q] = "open" => q = Creator
    BY <2>1, <2>2, <2>3, <2>4 DEF Origin
  <2>6. QED  BY <1>2, <2>2, <2>5 DEF Origin, tables
<1>4. CASE ~ReceiveCreate(r) /\ r # Creator
  <2>1. \E label \in Labels \ {"open"} : Goto(r, label)
    BY <1>4, {"list", "config", "artifact", "download", "delete", "done"} \subseteq Labels
       DEF Receive, ReceiveTurn, ReceiveConfig, ReceiveCompile, ReceiveDownload, ReceiveDelete,
           Answer, Labels
  <2>2. \A q \in Request : pc'[q] = "open" => q = Creator
    BY <1>1, <2>1 DEF Goto, Origin
  <2>3. pc'[Creator] = pc[Creator]  BY <1>1, <1>4, <2>1 DEF Goto
  <2>4. CASE pc[Creator] \in {"idle", "open"}
    <3>1. /\ sess = Nothing
          /\ \A q \in Request : turns[q] = Nothing /\ artifacts[q] = Nothing
                                /\ loc[q].snap = Nothing /\ pc[q] \in {"idle", "open", "done"}
      BY <2>4 DEF Origin
    <3>2. PICK code : Answer(r, code)  BY <1>4, <3>1, NothingToRead
    <3>3. \A q \in Request : /\ loc'[q].snap = Nothing
                             /\ pc'[q] \in {"idle", "open", "done"}
      BY <1>1, <3>1, <3>2 DEF Answer, Goto, Keep, Fresh
    <3>4. QED  BY <1>2, <2>2, <3>1, <3>3 DEF Origin, tables
  <2>5. CASE pc[Creator] \notin {"idle", "open"}
    BY <2>2, <2>3, <2>5 DEF Origin
  <2>6. QED  BY <2>4, <2>5
<1>5. r = Creator => ReceiveCreate(r)
  BY DEF Receive, ReceiveTurn, ReceiveConfig, ReceiveCompile, ReceiveDownload, ReceiveDelete
<1>6. QED  BY <1>3, <1>4, <1>5

LEMMA NextOrigin == Typed /\ Origin /\ [Next]_vars => Origin'
<1> SUFFICES ASSUME Typed, Origin, [Next]_vars PROVE Origin'
  OBVIOUS
<1>1. CASE Crash
  <2>1. pc \in [Request -> Labels] /\ Creator \in Request
    BY RequestAssumption DEF Typed, Handlers
  <2>2. \A q \in Request : /\ pc'[q] = IF pc[q] \in {"idle", "done"} THEN pc[q] ELSE "done"
                           /\ loc'[q] = IF pc[q] \in {"idle", "done"} THEN loc[q] ELSE Fresh
    BY <1>1, <2>1 DEF Crash, InFlight
  <2>3. \A q \in Request : pc'[q] \notin {"open"}  BY <2>2
  <2>4. UNCHANGED tables  BY <1>1 DEF Crash
  <2>5. CASE pc[Creator] = "idle"
    <3>1. /\ sess = Nothing
          /\ \A q \in Request : turns[q] = Nothing /\ artifacts[q] = Nothing
                                /\ loc[q].snap = Nothing /\ pc[q] \in {"idle", "open", "done"}
      BY <2>5 DEF Origin
    <3>2. \A q \in Request : loc'[q].snap = Nothing /\ pc'[q] \in {"idle", "open", "done"}
      BY <2>2, <3>1 DEF Fresh
    <3>3. QED  BY <2>3, <2>4, <3>1, <3>2 DEF Origin, tables
  <2>6. CASE pc[Creator] # "idle"
    BY <2>1, <2>2, <2>3, <2>6 DEF Origin
  <2>7. QED  BY <2>5, <2>6
<1>2. CASE UNCHANGED vars  BY <1>2 DEF vars, tables, Origin
<1>3. QED  BY <1>1, <1>2, StepOrigin, ReceiveOrigin DEF Next, AllServed

-----------------------------------------------------------------------------
(* What a step does to the session's row and to the snapshots. *)

SnapsKept == \A q \in Request : loc'[q].snap \in {loc[q].snap, Nothing}

Reading == /\ UNCHANGED sess
           /\ \A q \in Request : loc'[q].snap \in {loc[q].snap, Nothing, sess}
Deleting == sess' = Nothing
SameContent == /\ sess # Nothing /\ SnapsKept
               /\ sess'.rev = sess.rev /\ Planning(sess') = Planning(sess)
NextRevision == sess # Nothing /\ SnapsKept /\ sess'.rev = sess.rev + 1
Creating == pc[Creator] = "open" /\ SnapsKept

RowEffect == Reading \/ Deleting \/ SameContent \/ NextRevision \/ Creating

\* A handler that changes another of its variables keeps its snapshot; one that
\* answers drops it.
LEMMA SnapshotMoves ==
    ASSUME Typed, NEW r \in Request
    PROVE  /\ UNCHANGED loc => SnapsKept
           /\ \A l : Keep(r, l) /\ l.snap \in {loc[r].snap, Nothing} => SnapsKept
           /\ \A c : Answer(r, c) => SnapsKept
           /\ Raise(r) => SnapsKept
           /\ \A kind, ir, brief, round : Propose(r, kind, ir, brief, round) => SnapsKept
<1>1. loc \in [Request -> Local] /\ loc[r] \in Local  BY Moves DEF Typed, Handlers
<1>2. UNCHANGED loc => SnapsKept  BY DEF SnapsKept
<1>3. \A l : Keep(r, l) /\ l.snap \in {loc[r].snap, Nothing} => SnapsKept
  BY <1>1 DEF Keep, SnapsKept
<1>4. \A c : Answer(r, c) => SnapsKept
  <2>1. \A c : [Fresh EXCEPT !.code = c].snap = Nothing  BY DEF Fresh
  <2>2. QED  BY <1>3, <2>1 DEF Answer
<1>5. Raise(r) => SnapsKept
  <2>1. [loc[r] EXCEPT !.err = "error"].snap = loc[r].snap  BY <1>1 DEF Local
  <2>2. QED  BY <1>3, <1>4, <2>1 DEF Raise
<1>6. \A kind, ir, brief, round : Propose(r, kind, ir, brief, round) => SnapsKept
  <2>1. \A out : [loc[r] EXCEPT !.out = out].snap = loc[r].snap  BY <1>1 DEF Local
  <2>2. QED  BY <1>3, <2>1 DEF Propose
<1>7. QED  BY <1>2, <1>3, <1>4, <1>5, <1>6

LEMMA ReceiveEffect == ASSUME Typed, NEW r \in Request, Receive(r) PROVE Reading
<1>1. loc \in [Request -> Local] /\ loc[r] \in Local  BY Moves DEF Typed, Handlers
<1>2. \A l : Keep(r, l) /\ l.snap \in {Nothing, sess}
               => \A q \in Request : loc'[q].snap \in {loc[q].snap, Nothing, sess}
  BY <1>1 DEF Keep
<1>3. UNCHANGED sess
  BY DEF Receive, ReceiveCreate, ReceiveTurn, ReceiveConfig, ReceiveCompile, ReceiveDownload,
     ReceiveDelete, tables
<1>4. SnapsKept => Reading  BY <1>3 DEF SnapsKept, Reading
<1>5. CASE ReceiveCreate(r)
  <2>1. \A path : [Fresh EXCEPT !.path = path].snap = Nothing  BY DEF Fresh
  <2>2. QED  BY ZenonT(40), <1>4, <1>5, <2>1, SnapshotMoves DEF ReceiveCreate
<1>6. CASE \E m \in Messages : ReceiveTurn(r, m)
  <2>1. \A p, m : [Fresh EXCEPT !.path = p, !.msg = m, !.snap = sess].snap = sess  BY DEF Fresh
  <2>2. QED  BY <1>2, <1>3, <1>4, <1>6, <2>1, SnapshotMoves DEF ReceiveTurn, Reading
<1>7. CASE ReceiveConfig(r) \/ ReceiveCompile(r)
  <2>1. [Fresh EXCEPT !.snap = sess].snap = sess  BY DEF Fresh
  <2>2. QED
    BY ZenonT(40), <1>2, <1>3, <1>4, <1>7, <2>1, SnapshotMoves DEF ReceiveConfig, ReceiveCompile, Reading
<1>8. CASE ReceiveDownload(r) \/ ReceiveDelete(r)
  BY <1>4, <1>8, SnapshotMoves DEF ReceiveDownload, ReceiveDelete
<1>9. QED  BY <1>5, <1>6, <1>7, <1>8 DEF Receive

LEMMA CreateEffect == ASSUME Typed, Origin, NEW r \in Request, Create(r) PROVE RowEffect
<1>1. CASE CommitCreate(r)
  <2>1. pc[Creator] = "open"  BY <1>1 DEF CommitCreate, Origin
  <2>2. SnapsKept  BY <1>1, SnapshotMoves DEF CommitCreate
  <2>3. QED  BY <2>1, <2>2 DEF RowEffect, Creating
<1>2. CASE SetPlanningContext(r)
  <2> DEFINE out == [kind |-> "plan", ir |-> r, brief |-> Nothing, round |-> 0]
  <2>1. [loc[r] EXCEPT !.out = out].snap = loc[r].snap  BY Moves DEF Typed, Local
  <2> HIDE DEF out
  <2>2. SnapsKept  BY ZenonT(40), <1>2, <2>1, SnapshotMoves DEF SetPlanningContext, out
  <2>3. CASE sess = Nothing
    BY <1>2, <2>2, <2>3 DEF SetPlanningContext, RowEffect, Reading, SnapsKept
  <2>4. CASE sess # Nothing
    <3>1. sess \in SessionRow  BY <2>4 DEF Typed, Tables, Maybe
    <3>2. sess' = [sess EXCEPT !.ctx = r, !.selfDesign = FALSE, !.rev = @ + 1]
      BY <1>2, <2>4 DEF SetPlanningContext
    <3>3. sess'.rev = sess.rev + 1  BY <3>1, <3>2 DEF SessionRow
    <3>4. QED  BY <2>2, <2>4, <3>3 DEF RowEffect, NextRevision
  <2>5. QED  BY <2>3, <2>4
<1>3. QED  BY <1>1, <1>2 DEF Create

LEMMA TurnEffect ==
    ASSUME Typed, NEW r \in Request, OpenTurn(r) \/ RunTurn(r) PROVE Reading
<1>1. loc[r] \in Local  BY Moves DEF Typed
<1>2. UNCHANGED sess
  BY DEF OpenTurn, RunTurn, ListTurns, CreateTurnSelect, CreateTurnInsert, ArchiveStarted,
     RunEngine, ArchiveQuestionnaire, LogThenGoto, RunPlanner, tables
<1>3. SnapsKept => Reading  BY <1>2 DEF SnapsKept, Reading
<1>4. CASE ListTurns(r)
  <2>1. \A last : [loc[r] EXCEPT !.last = last].snap = loc[r].snap  BY <1>1 DEF Local
  <2>2. QED  BY <1>3, <1>4, <2>1, SnapshotMoves DEF ListTurns
<1>5. CASE CreateTurnSelect(r)
  <2>1. \A i, j, t : [loc[r] EXCEPT !.rev = i, !.at = j, !.ir = t].snap = loc[r].snap
    BY <1>1 DEF Local
  <2> DEFINE ir == IF sess.ir # Nothing THEN sess.ir ELSE CallerIR(r)
             l == [loc[r] EXCEPT !.rev = sess.rev, !.at = clock + 1, !.ir = ir]
  <2>2. l.snap = loc[r].snap  BY <2>1
  <2>3. Keep(r, l) => SnapsKept  BY <2>2, SnapshotMoves
  <2>4. Keep(r, l) \/ \E code : Answer(r, code)  BY <1>5 DEF CreateTurnSelect
  <2>5. QED  BY <1>3, <2>3, <2>4, SnapshotMoves
<1>6. CASE CreateTurnInsert(r)  BY <1>3, <1>6, SnapshotMoves DEF CreateTurnInsert
<1>7. CASE ArchiveStarted(r)
  <2>1. \A p : [loc[r] EXCEPT !.path = p].snap = loc[r].snap  BY <1>1 DEF Local
  <2>2. QED  BY ZenonT(40), <1>3, <1>7, <2>1, SnapshotMoves DEF ArchiveStarted
<1>8. CASE RunEngine(r)
  BY <1>3, <1>8, SnapshotMoves DEF RunEngine, ClarifySecret, ClarifyAgain, ClarifyStep
<1>9. CASE ArchiveQuestionnaire(r)
  BY <1>3, <1>9, SnapshotMoves DEF ArchiveQuestionnaire, LogThenGoto
<1>10. CASE RunPlanner(r)
  <2>1. \A e : [loc[r] EXCEPT !.err = e].snap = loc[r].snap  BY <1>1 DEF Local
  <2>2. QED  BY <1>3, <1>10, <2>1, SnapshotMoves DEF RunPlanner, PlanAccepted, PlanFailed
<1>11. QED  BY <1>4, <1>5, <1>6, <1>7, <1>8, <1>9, <1>10 DEF OpenTurn, RunTurn

\* A transaction that accepts a turn moves the revision up by one.
LEMMA AcceptMovesOn ==
    ASSUME Typed, NEW r \in Request, FinishAccept(r)
    PROVE  /\ sess # Nothing
           /\ sess.rev \in Nat /\ sess.rev = loc[r].rev
           /\ sess'.rev = sess.rev + 1
<1>1. sess # Nothing /\ sess \in SessionRow /\ sess.rev = loc[r].rev
  BY DEF FinishAccept, BaseIsCurrent, Typed, Tables, Maybe
<1>2. sess.rev \in Nat  BY <1>1 DEF SessionRow
<1>3. sess'.rev = sess.rev + 1  BY <1>1 DEF FinishAccept, Accepted, SessionRow
<1>4. QED  BY <1>1, <1>2, <1>3

LEMMA FinishEffect == ASSUME Typed, NEW r \in Request, FinishTurn(r) PROVE RowEffect
<1>1. CASE FinishCommit(r) /\ FinishAccept(r)
  <2>1. SnapsKept  BY <1>1, SnapshotMoves DEF FinishAccept
  <2>2. QED  BY <1>1, <2>1, AcceptMovesOn DEF RowEffect, NextRevision
<1>2. CASE ~(FinishCommit(r) /\ FinishAccept(r))
  <2>1. UNCHANGED sess
    BY <1>2 DEF FinishTurn, FinishSelect, FinishCommit, FinishConflict, ArchiveReplied,
       ArchiveSucceeded, ArchiveSeeded, FailSelect, FailCommit, ArchiveFailed, LogThenAnswer, tables
  <2>2. FinishSelect(r) => SnapsKept  BY SnapshotMoves DEF FinishSelect
  <2>3. FinishCommit(r) => SnapsKept  BY <1>2, SnapshotMoves DEF FinishCommit, FinishConflict
  <2>4. ArchiveReplied(r) \/ ArchiveSucceeded(r) \/ ArchiveSeeded(r) => SnapsKept
    BY SnapshotMoves DEF ArchiveReplied, ArchiveSucceeded, ArchiveSeeded, RowIsGone, LogOutcome
  <2>5. FailSelect(r) \/ FailCommit(r) \/ ArchiveFailed(r) => SnapsKept
    BY SnapshotMoves DEF FailSelect, FailCommit, ArchiveFailed, LogThenAnswer
  <2>6. QED  BY <2>1, <2>2, <2>3, <2>4, <2>5 DEF FinishTurn, RowEffect, Reading, SnapsKept
<1>3. QED  BY <1>1, <1>2

LEMMA OtherEffect == ASSUME Typed, NEW r \in Request, Other(r) PROVE RowEffect
<1>1. sess # Nothing => sess \in SessionRow  BY DEF Typed, Tables, Maybe
<1>2. SnapsKept
  BY SnapshotMoves DEF Other, WriteConfig, ArchiveConfig, CreateArtifact, ArchiveCompile,
     MarkDownloaded, ArchiveDownload, DeleteRows, ArchiveDelete, LogThenAnswer
<1>3. CASE UNCHANGED sess  BY <1>2, <1>3 DEF RowEffect, Reading, SnapsKept
<1>4. CASE sess # Nothing /\ \E st \in States : sess' = [sess EXCEPT !.state = st]
  <2>1. sess'.rev = sess.rev /\ Planning(sess') = Planning(sess)
    BY <1>1, <1>4 DEF SessionRow, Planning
  <2>2. QED  BY <1>2, <1>4, <2>1 DEF RowEffect, SameContent
<1>5. CASE WriteConfig(r) /\ sess # Nothing
  <2>1. sess'.rev = sess.rev + 1  BY <1>1, <1>5 DEF WriteConfig, SessionRow
  <2>2. QED  BY <1>2, <1>5, <2>1 DEF RowEffect, NextRevision
<1>6. CASE DeleteRows(r)  BY <1>6 DEF DeleteRows, RowEffect, Deleting
<1>7. {"compiled", "downloaded"} \subseteq States  BY DEF States
<1>8. QED
  BY <1>3, <1>4, <1>5, <1>6, <1>7
     DEF Other, WriteConfig, ArchiveConfig, CreateArtifact, ArchiveCompile, MarkDownloaded,
         ArchiveDownload, ArchiveDelete, LogThenAnswer, tables

LEMMA NextEffect == ASSUME Typed, Origin, [Next]_vars PROVE RowEffect
<1>1. CASE Crash
  <2>1. SnapsKept  BY <1>1 DEF Crash, SnapsKept, Fresh, Typed, Handlers
  <2>2. UNCHANGED sess  BY <1>1 DEF Crash, tables
  <2>3. QED  BY <2>1, <2>2 DEF RowEffect, Reading, SnapsKept
<1>2. CASE UNCHANGED vars
  BY <1>2 DEF vars, tables, RowEffect, Reading
<1>3. ASSUME NEW r \in Request, Receive(r) \/ Step(r) PROVE RowEffect
  BY <1>3, ReceiveEffect, CreateEffect, TurnEffect, FinishEffect, OtherEffect DEF Step, RowEffect
<1>4. QED  BY <1>1, <1>2, <1>3 DEF Next, AllServed

-----------------------------------------------------------------------------
(* A revision names its content. *)

LEMMA EffectKeepsRevisions ==
    ASSUME Typed, Typed', Origin, RevisionNamesContent, RowEffect PROVE RevisionNamesContent'
<1> SUFFICES ASSUME NEW q \in Request, sess' # Nothing, loc'[q].snap # Nothing
             PROVE  /\ loc'[q].snap.rev <= sess'.rev
                    /\ loc'[q].snap.rev = sess'.rev => Planning(loc'[q].snap) = Planning(sess')
  BY DEF RevisionNamesContent, Planning
<1>1. sess # Nothing => sess \in SessionRow /\ sess.rev \in Nat
  BY DEF Typed, Tables, Maybe, SessionRow
<1>2. loc[q].snap # Nothing => loc[q].snap.rev \in Nat
  BY DEF Typed, Handlers, Local, Maybe, SessionRow
<1>3. sess # Nothing /\ loc[q].snap # Nothing =>
        /\ loc[q].snap.rev <= sess.rev
        /\ loc[q].snap.rev = sess.rev => Planning(loc[q].snap) = Planning(sess)
  BY DEF RevisionNamesContent
<1>4. CASE Reading
  <2>1. sess' = sess /\ (loc'[q].snap = loc[q].snap \/ loc'[q].snap = sess)
    BY <1>4 DEF Reading
  <2>2. CASE loc'[q].snap = loc[q].snap  BY <1>3, <2>1, <2>2 DEF Planning
  <2>3. CASE loc'[q].snap = sess  BY <1>1, <2>1, <2>3 DEF Planning
  <2>4. QED  BY <2>1, <2>2, <2>3
<1>5. CASE Deleting  BY <1>5 DEF Deleting
<1>6. CASE SameContent
  <2>1. loc'[q].snap = loc[q].snap  BY <1>6 DEF SameContent, SnapsKept
  <2>2. sess # Nothing /\ sess'.rev = sess.rev /\ Planning(sess') = Planning(sess)
    BY <1>6 DEF SameContent
  <2>3. QED  BY <1>3, <2>1, <2>2
<1>7. CASE NextRevision
  <2>1. loc'[q].snap = loc[q].snap  BY <1>7 DEF NextRevision, SnapsKept
  <2>2. sess # Nothing /\ sess'.rev = sess.rev + 1  BY <1>7 DEF NextRevision
  <2>3. loc'[q].snap.rev < sess'.rev  BY <1>1, <1>2, <1>3, <2>1, <2>2
  <2>4. QED  BY <1>1, <1>2, <2>1, <2>2, <2>3
<1>8. CASE Creating
  <2>1. loc[q].snap = Nothing  BY <1>8 DEF Creating, Origin
  <2>2. QED  BY <1>8, <2>1 DEF Creating, SnapsKept
<1>9. QED  BY <1>4, <1>5, <1>6, <1>7, <1>8 DEF RowEffect

\* A snapshot whose revision is still the session's has the session's content,
\* so the WHERE revision of the finish_turn methods tests what it is meant to.
THEOREM RevisionsNameContent == Spec => []RevisionNamesContent
<1> DEFINE Inv == Typed /\ Origin /\ RevisionNamesContent
<1>1. Init => Inv
  BY InitTyped, InitOrigin DEF Init, Fresh, RevisionNamesContent
<1>2. Inv /\ [Next]_vars => Inv'
  BY NextTyped, NextOrigin, NextEffect, EffectKeepsRevisions
<1>3. QED  BY <1>1, <1>2, PTL DEF Spec

-----------------------------------------------------------------------------
(* A revision has one winner. *)

Before == {"idle", "open", "context", "list", "select", "insert"}
During == {"started", "clarify", "questionnaire", "plan", "finish", "commit"}

\* A step of r moves no other handler.
OthersStay(r) == \A q \in Request \ {r} : pc'[q] = pc[q] /\ loc'[q] = loc[q]

\* A step of r changes no other row, except that a deletion removes them all; what
\* it makes of its own row keeps RowsInv, and applies it only at the session's
\* revision and with a move to the next.
OwnRow(r) ==
    /\ \A q \in Request \ {r} : turns'[q] \in {turns[q], Nothing}
    /\ pc'[r] \in Before => turns'[r] = Nothing
    /\ pc'[r] \in During /\ turns'[r] # Nothing => turns'[r].rev = loc'[r].rev
    /\ Applied(turns'[r]) =>
         \/ Applied(turns[r]) /\ turns'[r].rev = turns[r].rev
         \/ NextRevision /\ turns'[r].rev = sess.rev

LEMMA InitRows == Init => RowsInv
  BY DEF Init, RowsInv, Applied

LEMMA StepMovesOne ==
    ASSUME Typed, NEW r \in Request, Receive(r) \/ Step(r) PROVE OthersStay(r)
<1>1. pc \in [Request -> Labels] /\ loc \in [Request -> Local]  BY DEF Typed, Handlers
<1>2. \A label : Goto(r, label) => \A q \in Request \ {r} : pc'[q] = pc[q]  BY <1>1 DEF Goto
<1>3. \A l : Keep(r, l) => \A q \in Request \ {r} : loc'[q] = loc[q]  BY <1>1 DEF Keep
<1>4. \A c : Answer(r, c) => OthersStay(r)  BY <1>2, <1>3 DEF Answer, OthersStay
<1>5. Raise(r) => OthersStay(r)  BY <1>2, <1>3, <1>4 DEF Raise, OthersStay
<1>6. \A label, l : Goto(r, label) /\ (Keep(r, l) \/ UNCHANGED loc) => OthersStay(r)
  BY <1>2, <1>3 DEF OthersStay
<1>7. \A label, kind, ir, brief, round :
        Goto(r, label) /\ Propose(r, kind, ir, brief, round) => OthersStay(r)
  BY <1>6 DEF Propose
<1>8. CASE Receive(r)
  BY ZenonT(40), <1>4, <1>6, <1>8 DEF Receive, ReceiveCreate, ReceiveTurn, ReceiveConfig, ReceiveCompile,
     ReceiveDownload, ReceiveDelete
<1>9. CASE Create(r)
  BY <1>4, <1>6, <1>9 DEF Create, CommitCreate, SetPlanningContext
<1>10. CASE OpenTurn(r)
  <2>1. ListTurns(r) => OthersStay(r)  BY <1>6 DEF ListTurns
  <2>2. CreateTurnSelect(r) => OthersStay(r)  BY <1>4, <1>6 DEF CreateTurnSelect
  <2>3. CreateTurnInsert(r) => OthersStay(r)  BY <1>6 DEF CreateTurnInsert
  <2>4. ArchiveStarted(r) => OthersStay(r)  BY <1>4, <1>6 DEF ArchiveStarted
  <2>5. QED  BY <1>10, <2>1, <2>2, <2>3, <2>4 DEF OpenTurn
<1>11. CASE RunTurn(r)
  BY <1>4, <1>6, <1>7, <1>11 DEF RunTurn, RunEngine, ClarifySecret, ClarifyAgain, ClarifyStep,
     ArchiveQuestionnaire, LogThenGoto, RunPlanner, PlanAccepted, PlanFailed
<1>12. CASE FinishTurn(r)
  BY <1>4, <1>5, <1>6, <1>12 DEF FinishTurn, FinishSelect, FinishCommit, FinishAccept,
     FinishConflict, ArchiveReplied, ArchiveSucceeded, ArchiveSeeded, RowIsGone, LogOutcome,
     FailSelect, FailCommit, ArchiveFailed, LogThenAnswer
<1>13. CASE Other(r)
  BY <1>4, <1>6, <1>13 DEF Other, WriteConfig, ArchiveConfig, CreateArtifact, ArchiveCompile,
     MarkDownloaded, ArchiveDownload, DeleteRows, ArchiveDelete, LogThenAnswer
<1>14. QED  BY <1>8, <1>9, <1>10, <1>11, <1>12, <1>13 DEF Step

\* The row a handler inserts: running, of the revision it holds, with no IR.
LEMMA CreateTurnInsertRow ==
    ASSUME Typed, RowsInv, NEW r \in Request, CreateTurnInsert(r)
    PROVE  /\ turns[r] = Nothing
           /\ turns'[r] \in TurnRow /\ turns'[r] # Nothing
           /\ turns'[r].rev = loc[r].rev /\ turns'[r].status = "running" /\ turns'[r].ir = Nothing
           /\ \A q \in Request \ {r} : turns'[q] = turns[q]
<1> DEFINE row == [status |-> "running",
                   kind |-> IF loc[r].path = "secret" THEN "clarify" ELSE "plan",
                   at |-> loc[r].at, rev |-> loc[r].rev, irBefore |-> loc[r].ir,
                   ir |-> Nothing, brief |-> Nothing]
<1>1. loc[r] \in Local  BY Moves DEF Typed
<1>2. row \in TurnRow  BY <1>1 DEF Local, TurnRow, Kinds, Token, Maybe
<1>3. row # Nothing  BY <1>2, NothingAssumption
<1>4. turns[r] = Nothing  BY DEF RowsInv, CreateTurnInsert
<1>5. turns'[r] = row /\ \A q \in Request \ {r} : turns'[q] = turns[q]
  BY DEF CreateTurnInsert, Typed, Tables
<1>6. QED  BY <1>2, <1>3, <1>4, <1>5

\* A step that leaves the rows alone stays before the INSERT, or keeps the revision
\* the row was opened on, or is past the commit.
LEMMA QuietStep ==
    ASSUME Typed, RowsInv, NEW r \in Request, Receive(r) \/ Step(r), UNCHANGED turns
    PROVE  OwnRow(r)
<1>1. pc \in [Request -> Labels] /\ loc \in [Request -> Local] /\ loc[r] \in Local
  BY Moves DEF Typed, Handlers
<1> DEFINE Quiet == /\ pc'[r] \in Before => pc[r] \in Before
                    /\ pc'[r] \in During => pc[r] \in During /\ loc'[r].rev = loc[r].rev
<1>2. SUFFICES Quiet
  BY DEF RowsInv, OwnRow, Before, During
<1>3. \A label : Goto(r, label) => pc'[r] = label  BY <1>1 DEF Goto
<1>4. \A l : Keep(r, l) => loc'[r] = l  BY <1>1 DEF Keep
<1>5. \A c : Answer(r, c) => Quiet  BY <1>3 DEF Answer, Before, During
<1>6. Raise(r) => Quiet  BY <1>3, <1>5 DEF Raise, Before, During
<1>7. \A label : Goto(r, label) /\ label \notin Before \cup During => Quiet  BY <1>3
<1>8. \A label : Goto(r, label) /\ label \in Before \ During /\ pc[r] \in Before => Quiet  BY <1>3
<1>9. \A label : Goto(r, label) /\ label \in During \ Before /\ pc[r] \in During
                 /\ loc'[r].rev = loc[r].rev => Quiet
  BY <1>3
<1>10. \A kind, ir, brief, round :
         Propose(r, kind, ir, brief, round) => loc'[r].rev = loc[r].rev
  <2>1. \A out : [loc[r] EXCEPT !.out = out].rev = loc[r].rev  BY <1>1 DEF Local
  <2>2. QED  BY <1>4, <2>1 DEF Propose
<1>11. UNCHANGED loc => loc'[r].rev = loc[r].rev  OBVIOUS
<1> HIDE DEF Quiet
<1>12. CASE Receive(r)
  BY ZenonT(40), <1>5, <1>7, <1>8, <1>12 DEF Receive, ReceiveCreate, ReceiveTurn, ReceiveConfig,
     ReceiveCompile, ReceiveDownload, ReceiveDelete, Before, During
<1>13. CASE Create(r)
  BY <1>5, <1>8, <1>13 DEF Create, CommitCreate, SetPlanningContext, Before, During
<1>14. CASE ListTurns(r) \/ CreateTurnSelect(r)
  BY <1>5, <1>8, <1>14 DEF ListTurns, CreateTurnSelect, Before, During
<1>15. CASE CreateTurnInsert(r)
  <2>1. turns[r] = Nothing /\ turns'[r] # Nothing
    BY <1>15, NothingAssumption, CreateTurnInsertRow
  <2>2. QED  BY <2>1
<1>16. CASE ArchiveStarted(r)
  <2>1. \A p : [loc[r] EXCEPT !.path = p].rev = loc[r].rev  BY <1>1 DEF Local
  <2>2. CASE Keep(r, [loc[r] EXCEPT !.path = Route(r)])
             /\ Goto(r, IF Route(r) \in {"secret", "clarify"} THEN "clarify" ELSE "plan")
    <3>1. loc'[r].rev = loc[r].rev  BY <1>4, <2>1, <2>2
    <3>2. PICK label \in {"clarify", "plan"} : Goto(r, label)  BY <2>2
    <3>3. QED  BY <1>9, <1>16, <3>1, <3>2 DEF ArchiveStarted, Before, During
  <2>3. QED  BY <1>5, <1>16, <2>2 DEF ArchiveStarted
<1>17. CASE RunEngine(r)
  BY <1>5, <1>9, <1>10, <1>17
     DEF RunEngine, ClarifySecret, ClarifyAgain, ClarifyStep, Before, During
<1>18. CASE ArchiveQuestionnaire(r)
  BY <1>5, <1>9, <1>11, <1>18 DEF ArchiveQuestionnaire, LogThenGoto, Before, During
<1>19. CASE RunPlanner(r)
  BY <1>7, <1>9, <1>10, <1>19 DEF RunPlanner, PlanAccepted, PlanFailed, Before, During
<1>20. CASE FinishTurn(r)
  <2>1. CASE FinishSelect(r)
    BY <1>6, <1>9, <1>11, <2>1 DEF FinishSelect, Before, During
  <2>2. CASE FinishCommit(r)
    BY <1>5, <1>7, <2>2 DEF FinishCommit, FinishAccept, FinishConflict, Before, During
  <2>3. CASE ArchiveReplied(r) \/ ArchiveSucceeded(r) \/ ArchiveSeeded(r)
    BY <1>5, <1>6, <1>7, <2>3 DEF ArchiveReplied, ArchiveSucceeded, ArchiveSeeded, RowIsGone,
       LogOutcome, Before, During
  <2>4. CASE FailSelect(r) \/ FailCommit(r) \/ ArchiveFailed(r)
    BY <1>5, <1>7, <2>4 DEF FailSelect, FailCommit, ArchiveFailed, LogThenAnswer, Before, During
  <2>5. QED  BY <1>20, <2>1, <2>2, <2>3, <2>4 DEF FinishTurn
<1>21. CASE Other(r)
  BY <1>5, <1>7, <1>21 DEF Other, WriteConfig, ArchiveConfig, CreateArtifact, ArchiveCompile,
     MarkDownloaded, ArchiveDownload, DeleteRows, ArchiveDelete, LogThenAnswer, Before, During
<1>22. QED
  BY <1>12, <1>13, <1>14, <1>15, <1>16, <1>17, <1>18, <1>19, <1>20, <1>21
     DEF Step, OpenTurn, RunTurn

LEMMA InsertStep ==
    ASSUME Typed, RowsInv, NEW r \in Request, CreateTurnInsert(r) PROVE OwnRow(r)
<1>1. pc'[r] \in {"started", "finish"} /\ loc'[r] = loc[r]
  BY DEF CreateTurnInsert, Goto, Typed, Handlers
<1>2. ~Applied(turns'[r])  BY CreateTurnInsertRow DEF Applied
<1>3. QED  BY <1>1, <1>2, CreateTurnInsertRow DEF OwnRow, Before

LEMMA CommitStep ==
    ASSUME Typed, RowsInv, NEW r \in Request, FinishCommit(r) PROVE OwnRow(r)
<1>1. /\ loc[r] \in Local /\ pc \in [Request -> Labels] /\ turns \in [Request -> Maybe(TurnRow)]
  BY Moves DEF Typed, Handlers, Tables
<1>2. turns[r] # Nothing => turns[r] \in TurnRow /\ turns[r].rev = loc[r].rev
  BY <1>1 DEF RowsInv, FinishCommit, Maybe
<1>3. CASE FinishAccept(r)
  <2>1. NextRevision
    BY <1>3, AcceptMovesOn, SnapshotMoves DEF FinishAccept, NextRevision
  <2>2. pc'[r] \in {"seeded", "succeeded", "replied"}  BY <1>1, <1>3 DEF FinishAccept, Goto
  <2>3. /\ \A q \in Request \ {r} : turns'[q] = turns[q]
        /\ turns[r] = Nothing => turns'[r] = Nothing
        /\ turns[r] # Nothing => turns'[r].rev = turns[r].rev
    BY <1>1, <1>2, <1>3 DEF FinishAccept, UpdateTurn, TurnRow
  <2>4. Applied(turns'[r]) => turns'[r].rev = sess.rev
    BY <1>2, <1>3, <2>3, AcceptMovesOn DEF Applied
  <2>5. QED  BY <2>1, <2>2, <2>3, <2>4 DEF OwnRow, Before, During
<1>4. CASE FinishConflict(r)
  <2>1. pc'[r] = "done"  BY <1>1, <1>4 DEF FinishConflict, Answer, Goto
  <2>2. \A q \in Request \ {r} : turns'[q] = turns[q]
    BY <1>1, <1>4 DEF FinishConflict, UpdateTurn
  <2>3. Applied(turns'[r]) => Applied(turns[r]) /\ turns'[r].rev = turns[r].rev
    BY <1>1, <1>2, <1>4 DEF FinishConflict, UpdateTurn, Applied, TurnRow
  <2>4. QED  BY <2>1, <2>2, <2>3 DEF OwnRow, Before, During
<1>5. QED  BY <1>3, <1>4 DEF FinishCommit

LEMMA FailCommitStep ==
    ASSUME Typed, RowsInv, NEW r \in Request, FailCommit(r) PROVE OwnRow(r)
<1>1. pc \in [Request -> Labels] /\ turns \in [Request -> Maybe(TurnRow)]
  BY DEF Typed, Handlers, Tables
<1>2. turns[r] # Nothing => turns[r] \in TurnRow  BY <1>1 DEF Maybe
<1>3. pc'[r] = "failed"  BY <1>1 DEF FailCommit, Goto
<1>4. \A q \in Request \ {r} : turns'[q] = turns[q]  BY <1>1 DEF FailCommit
<1>5. Applied(turns'[r]) => Applied(turns[r]) /\ turns'[r].rev = turns[r].rev
  BY <1>1, <1>2 DEF FailCommit, Applied, TurnRow
<1>6. QED  BY <1>3, <1>4, <1>5 DEF OwnRow, Before, During

LEMMA DeleteStep ==
    ASSUME Typed, NEW r \in Request, DeleteRows(r) PROVE OwnRow(r)
<1>1. \A q \in Request : turns'[q] = Nothing  BY DEF DeleteRows
<1>2. QED  BY <1>1 DEF OwnRow, Applied

\* The transactions that write a row of `turns`.
LEMMA TurnWriters ==
    ASSUME NEW r \in Request, Receive(r) \/ Step(r)
    PROVE  UNCHANGED turns \/ CreateTurnInsert(r) \/ FinishCommit(r) \/ FailCommit(r) \/ DeleteRows(r)
<1>1. Receive(r) => UNCHANGED turns
  BY DEF Receive, ReceiveCreate, ReceiveTurn, ReceiveConfig, ReceiveCompile, ReceiveDownload,
     ReceiveDelete, tables
<1>2. Create(r) \/ RunTurn(r) => UNCHANGED turns
  BY DEF Create, CommitCreate, SetPlanningContext, RunTurn, RunEngine, ArchiveQuestionnaire,
     LogThenGoto, RunPlanner, tables
<1>3. OpenTurn(r) /\ ~CreateTurnInsert(r) => UNCHANGED turns
  BY DEF OpenTurn, ListTurns, CreateTurnSelect, ArchiveStarted, tables
<1>4. FinishTurn(r) /\ ~FinishCommit(r) /\ ~FailCommit(r) => UNCHANGED turns
  BY DEF FinishTurn, FinishSelect, ArchiveReplied, ArchiveSucceeded, ArchiveSeeded, FailSelect,
     ArchiveFailed, LogThenAnswer, tables
<1>5. Other(r) /\ ~DeleteRows(r) => UNCHANGED turns
  BY DEF Other, WriteConfig, ArchiveConfig, CreateArtifact, ArchiveCompile, MarkDownloaded,
     ArchiveDownload, ArchiveDelete, LogThenAnswer, tables
<1>6. QED  BY <1>1, <1>2, <1>3, <1>4, <1>5 DEF Step

LEMMA EveryStepOwnRow ==
    ASSUME Typed, RowsInv, NEW r \in Request, Receive(r) \/ Step(r) PROVE OwnRow(r)
  BY TurnWriters, QuietStep, InsertStep, CommitStep, FailCommitStep, DeleteStep

\* The session's revision never goes back, and is created at a time without rows.
LEMMA RevisionGrows ==
    ASSUME Typed, Typed', Origin, RowEffect, sess' # Nothing
    PROVE  \/ sess # Nothing /\ sess.rev \in Nat /\ sess'.rev \in Nat /\ sess.rev <= sess'.rev
           \/ sess = Nothing /\ \A q \in Request : turns[q] = Nothing
<1>1. sess # Nothing => sess.rev \in Nat  BY DEF Typed, Tables, Maybe, SessionRow
<1>2. sess'.rev \in Nat  BY DEF Typed, Tables, Maybe, SessionRow
<1>3. CASE Creating  BY <1>3 DEF Creating, Origin
<1>4. CASE Reading  BY <1>1, <1>4 DEF Reading
<1>5. CASE SameContent  BY <1>1, <1>5 DEF SameContent
<1>6. CASE NextRevision  BY <1>1, <1>6 DEF NextRevision
<1>7. QED  BY <1>1, <1>2, <1>3, <1>4, <1>5, <1>6 DEF RowEffect, Deleting

LEMMA StepRows ==
    ASSUME Typed, Typed', Origin, RowsInv, NEW r \in Request, OwnRow(r), OthersStay(r), RowEffect
    PROVE  RowsInv'
<1>1. ASSUME NEW q \in Request
      PROVE  /\ pc'[q] \in Before => turns'[q] = Nothing
             /\ pc'[q] \in During /\ turns'[q] # Nothing => turns'[q].rev = loc'[q].rev
  <2>1. CASE q = r  BY <2>1 DEF OwnRow
  <2>2. CASE q # r
    <3>1. pc'[q] = pc[q] /\ loc'[q] = loc[q] /\ turns'[q] \in {turns[q], Nothing}
      BY <2>2 DEF OthersStay, OwnRow
    <3>2. QED  BY <3>1 DEF RowsInv, Before, During
  <2>3. QED  BY <2>1, <2>2
<1>2. ASSUME NEW q \in Request, sess' # Nothing, Applied(turns'[q])
      PROVE  turns'[q].rev < sess'.rev
  <2>1. turns'[q] \in TurnRow /\ turns'[q].rev \in Nat
    BY <1>2 DEF Applied, Typed, Tables, Maybe, TurnRow
  <2>2. CASE Applied(turns[q]) /\ turns'[q].rev = turns[q].rev
    <3>1. turns[q] # Nothing  BY <2>2 DEF Applied
    <3>2. sess # Nothing /\ sess.rev \in Nat /\ sess'.rev \in Nat /\ sess.rev <= sess'.rev
      BY <1>2, <3>1, RevisionGrows
    <3>3. turns[q].rev < sess.rev  BY <2>2, <3>2 DEF RowsInv
    <3>4. QED  BY <2>1, <2>2, <3>2, <3>3
  <2>3. CASE NextRevision /\ turns'[q].rev = sess.rev
    BY <2>1, <2>3 DEF NextRevision
  <2>4. CASE q # r
    <3>1. turns'[q] = turns[q]  BY <1>2, <2>4 DEF OwnRow, Applied
    <3>2. QED  BY <1>2, <2>2, <3>1
  <2>5. QED  BY <1>2, <2>2, <2>3, <2>4 DEF OwnRow
<1>3. QED  BY <1>1, <1>2 DEF RowsInv, Before, During

LEMMA StepOneWinner ==
    ASSUME Typed, Typed', RowsInv, OneWinnerPerRevision, NEW r \in Request, OwnRow(r)
    PROVE  OneWinnerPerRevision'
<1>1. \A q \in Request \ {r} : Applied(turns'[q]) => Applied(turns[q]) /\ turns'[q] = turns[q]
  BY DEF OwnRow, Applied
<1>2. ASSUME NEW q \in Request \ {r}, Applied(turns'[q]), Applied(turns'[r]),
             turns'[q].rev = turns'[r].rev
      PROVE  FALSE
  <2>1. Applied(turns[q]) /\ turns'[q] = turns[q]  BY <1>1, <1>2
  <2>2. CASE Applied(turns[r]) /\ turns'[r].rev = turns[r].rev
    BY <1>2, <2>1, <2>2 DEF OneWinnerPerRevision
  <2>3. CASE NextRevision /\ turns'[r].rev = sess.rev
    <3>1. sess # Nothing /\ sess.rev \in Nat
      BY <2>3 DEF NextRevision, Typed, Tables, Maybe, SessionRow
    <3>2. turns[q].rev < sess.rev  BY <2>1, <3>1 DEF RowsInv
    <3>3. turns[q].rev = sess.rev  BY <1>2, <2>1, <2>3
    <3>4. QED  BY <3>1, <3>2, <3>3
  <2>4. QED  BY <1>2, <2>2, <2>3 DEF OwnRow
<1>3. ASSUME NEW p \in Request \ {r}, NEW q \in Request \ {r},
             Applied(turns'[p]), Applied(turns'[q]), turns'[p].rev = turns'[q].rev
      PROVE  p = q
  BY <1>1, <1>3 DEF OneWinnerPerRevision
<1>4. QED  BY <1>2, <1>3 DEF OneWinnerPerRevision, Applied

LEMMA CrashRows ==
    ASSUME Typed, RowsInv, Crash PROVE RowsInv'
<1>1. UNCHANGED tables  BY DEF Crash
<1>2. \A q \in Request : pc'[q] \in Before => pc[q] \in Before
  BY DEF Crash, InFlight, Before
<1>3. \A q \in Request : pc'[q] \notin During  BY DEF Crash, InFlight, During
<1>4. QED  BY <1>1, <1>2, <1>3 DEF RowsInv, tables, Before, During, Applied

LEMMA RowsHold == Spec => [](Typed /\ Origin /\ RowsInv /\ OneWinnerPerRevision)
<1> DEFINE Inv == Typed /\ Origin /\ RowsInv /\ OneWinnerPerRevision
<1>1. Init => Inv
  BY InitTyped, InitOrigin, InitRows DEF Init, OneWinnerPerRevision, Applied
<1>2. Inv /\ [Next]_vars => Inv'
  <2> SUFFICES ASSUME Inv, [Next]_vars PROVE RowsInv' /\ OneWinnerPerRevision'
    BY NextTyped, NextOrigin
  <2>1. Typed' /\ RowEffect  BY NextTyped, NextEffect
  <2>2. ASSUME NEW r \in Request, Receive(r) \/ Step(r)
        PROVE  RowsInv' /\ OneWinnerPerRevision'
    BY <2>1, <2>2, EveryStepOwnRow, StepMovesOne, StepRows, StepOneWinner
  <2>3. CASE Crash
    <3>1. OneWinnerPerRevision'  BY <2>3 DEF Crash, tables, OneWinnerPerRevision, Applied
    <3>2. QED  BY <2>3, <3>1, CrashRows
  <2>4. CASE UNCHANGED vars
    BY <2>4 DEF vars, tables, RowsInv, OneWinnerPerRevision, Applied
  <2>5. QED  BY <2>2, <2>3, <2>4 DEF Next, AllServed
<1>3. QED  BY <1>1, <1>2, PTL DEF Spec

\* Of the turns opened on one revision at most one is ever applied.
THEOREM OneWinner == Spec => []OneWinnerPerRevision
<1>1. QED  BY RowsHold, PTL
=============================================================================
