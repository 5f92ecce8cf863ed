------------------------- MODULE SessionHistoryProofs -------------------------
(***************************************************************************)
(* What the rows of a session say of its history, for every set of         *)
(* requests, messages and operations, with archive failures and crashes.   *)
(*                                                                         *)
(* The argument.  A handler carries what it read to what it commits        *)
(* (Carried): the revision of its snapshot, the brief it shows or plans    *)
(* from, an IR of its own.  Its row stays as it inserted it until it ends  *)
(* the turn (OwnTurns), so an IR that is the session's, an artifact's or a *)
(* snapshot's stays recorded in the row of the turn that made it           *)
(* (RowsAgree).  Turns are opened in the order of their revisions          *)
(* (InOrder): the last row of a session in which a brief is under review   *)
(* holds the session's brief, and whoever has read that row and finds the  *)
(* revision unmoved commits on that brief (OnBase).                        *)
(***************************************************************************)
EXTENDS SessionTurnsProofs

\* The brief a confirmation plans from, of the handler's variables.
Draft(l) == IF l.snap.brief # Nothing THEN l.snap.brief ELSE l.last.brief

\* The paths that end with a plan.
Planned == {"confirm", "edit", "seed"}

\* What a handler's variables have in common wherever it is.
Kept(r, l) ==
    /\ l.path = "turn" => l.out = Nothing
    /\ l.out # Nothing =>
         /\ l.out.ir = IF l.out.kind = "plan" THEN r ELSE Nothing
         /\ l.out.kind = "brief_review" => l.out.brief # Nothing
         /\ l.path \in Planned => l.out.kind = "plan"
    /\ l.path = "confirm" =>
         /\ l.last.kind = "brief_review"
         /\ l.out # Nothing => l.out.brief = Draft(l)

\* What a handler carries to a label.
Carries(label, l) ==
    /\ label \in {"list", "started"} => l.path \in {"turn", "secret"}
    /\ label \in {"select", "insert"} => l.path \in {"turn", "secret", "seed"}
    /\ label = "clarify" => l.path \in {"secret", "clarify"}
    /\ label = "plan" => l.path \in {"confirm", "edit"}
    /\ label \in During \cup {"insert"} /\ l.path # "seed" => l.snap # Nothing /\ l.rev = l.snap.rev
    /\ label = "artifact" => l.snap.ir # Nothing
    /\ label \in {"succeeded", "seeded"} => l.path \in Planned
    /\ label # "done" => l.code = 0

Carried == \A r \in Request : Kept(r, loc[r]) /\ Carries(pc[r], loc[r])

-----------------------------------------------------------------------------
(* What the handlers carry. *)

LEMMA CarriedMoves ==
    ASSUME Typed, Carried, NEW r \in Request, pc[r] # "done"
    PROVE  /\ \A label, l : Goto(r, label) /\ Keep(r, l) /\ Kept(r, l) /\ Carries(label, l)
                              => Carried'
           /\ \A label : Goto(r, label) /\ UNCHANGED loc /\ Carries(label, loc[r]) => Carried'
           /\ \A c : Answer(r, c) => Carried'
           /\ Raise(r) => Carried'
           /\ loc[r] \in Local /\ Kept(r, loc[r]) /\ Carries(pc[r], loc[r]) /\ loc[r].code = 0
<1>1. /\ loc[r] \in Local /\ Kept(r, loc[r]) /\ Carries(pc[r], loc[r]) /\ loc[r].code = 0
      /\ pc \in [Request -> Labels] /\ loc \in [Request -> Local]
  BY DEF Typed, Handlers, Carried, Carries
<1>2. \A label, l : Goto(r, label) /\ Keep(r, l) /\ Kept(r, l) /\ Carries(label, l) => Carried'
  <2> SUFFICES ASSUME NEW label, NEW l, Goto(r, label), Keep(r, l), Kept(r, l), Carries(label, l),
                      NEW q \in Request
               PROVE  Kept(q, loc'[q]) /\ Carries(pc'[q], loc'[q])
    BY DEF Carried
  <2>1. CASE q = r  BY <1>1, <2>1 DEF Goto, Keep
  <2>2. CASE q # r
    <3>1. pc'[q] = pc[q] /\ loc'[q] = loc[q]  BY <1>1, <2>2 DEF Goto, Keep
    <3>2. QED  BY <3>1 DEF Carried
  <2>3. QED  BY <2>1, <2>2
<1>3. \A label : Goto(r, label) /\ UNCHANGED loc /\ Carries(label, loc[r]) => Carried'
  <2>1. UNCHANGED loc => Keep(r, loc[r])  BY <1>1 DEF Keep
  <2>2. QED  BY <1>1, <1>2, <2>1
<1>4. \A c : Answer(r, c) => Carried'
  <2>1. \A c : Kept(r, [Fresh EXCEPT !.code = c])  BY DEF Kept, Fresh
  <2>2. \A c : Carries("done", [Fresh EXCEPT !.code = c])  BY DEF Carries, During
  <2>3. QED  BY <1>2, <2>1, <2>2 DEF Answer
<1>5. Raise(r) => Carried'
  <2> DEFINE l == [loc[r] EXCEPT !.err = "error"]
  <2>1. /\ l.path = loc[r].path /\ l.out = loc[r].out /\ l.last = loc[r].last
        /\ l.snap = loc[r].snap /\ l.code = loc[r].code
    BY <1>1 DEF Local
  <2>2. Kept(r, l)  BY <1>1, <2>1 DEF Kept, Draft
  <2>3. Carries("fail", l)  BY <1>1, <2>1 DEF Carries, During
  <2>4. QED  BY <1>2, <1>4, <2>2, <2>3 DEF Raise
<1>6. QED  BY <1>1, <1>2, <1>3, <1>4, <1>5

\* A handler that proposes a result of its own keeps what it carries.
LEMMA CarriedPropose ==
    ASSUME Typed, Carried, NEW r \in Request, pc[r] \in {"clarify", "plan"},
           NEW label \in {"questionnaire", "finish"}, NEW kind, NEW ir, NEW brief, NEW round,
           Goto(r, label), Propose(r, kind, ir, brief, round),
           ir = IF kind = "plan" THEN r ELSE Nothing,
           kind = "brief_review" => brief # Nothing,
           loc[r].path = "confirm" => brief = Draft(loc[r]),
           loc[r].path \in Planned => kind = "plan"
    PROVE  Carried'
<1> DEFINE out == [kind |-> kind, ir |-> ir, brief |-> brief, round |-> round]
           l == [loc[r] EXCEPT !.out = out]
<1>1. loc[r] \in Local /\ Kept(r, loc[r]) /\ Carries(pc[r], loc[r]) /\ loc[r].code = 0
  BY CarriedMoves
<1>2. loc[r].path # "turn"  BY <1>1 DEF Carries
<1>3. out.kind = kind /\ out.ir = ir /\ out.brief = brief  OBVIOUS
<1>4. Keep(r, l)  BY DEF Propose
<1> HIDE DEF out
<1>5. /\ l.path = loc[r].path /\ l.out = out /\ l.last = loc[r].last /\ l.rev = loc[r].rev
      /\ l.snap = loc[r].snap /\ l.code = loc[r].code
  BY <1>1 DEF Local
<1>6. Kept(r, l)  BY <1>1, <1>2, <1>3, <1>5 DEF Kept, Draft
<1>7. Carries(label, l)  BY <1>1, <1>5 DEF Carries, During
<1>8. QED  BY <1>4, <1>6, <1>7, CarriedMoves

LEMMA ReceiveCarried ==
    ASSUME Typed, Carried, NEW r \in Request, Receive(r) PROVE Carried'
<1>1. pc[r] = "idle"
  BY DEF Receive, ReceiveCreate, ReceiveTurn, ReceiveConfig, ReceiveCompile, ReceiveDownload,
     ReceiveDelete
<1>2. \A c : Answer(r, c) => Carried'  BY <1>1, CarriedMoves
<1>3. CASE ReceiveCreate(r)
  <2>1. \A path \in {"blank", "seed"} : /\ Kept(r, [Fresh EXCEPT !.path = path])
                                        /\ Carries("open", [Fresh EXCEPT !.path = path])
    BY DEF Kept, Carries, Fresh, During
  <2>2. QED  BY ZenonT(40), <1>1, <1>2, <1>3, <2>1, CarriedMoves, PathsAssumption DEF ReceiveCreate
<1>4. CASE \E m \in Messages : ReceiveTurn(r, m)
  <2>1. PICK m \in Messages : ReceiveTurn(r, m)  BY <1>4
  <2> DEFINE path == IF "secret" \in m THEN "secret" ELSE "turn"
             l == [Fresh EXCEPT !.path = path, !.msg = m, !.snap = sess]
  <2>2. Kept(r, l) /\ Carries("list", l)  BY DEF Kept, Carries, Fresh, During
  <2>3. QED  BY <1>1, <1>2, <2>1, <2>2, CarriedMoves DEF ReceiveTurn
<1>5. CASE ReceiveConfig(r) \/ ReceiveCompile(r)
  <2> DEFINE l == [Fresh EXCEPT !.snap = sess]
  <2>1. Kept(r, l) /\ Carries("config", l)  BY DEF Kept, Carries, Fresh, During
  <2>2. sess.ir # Nothing => Carries("artifact", l)  BY DEF Carries, Fresh, During
  <2>3. QED  BY <1>1, <1>2, <1>5, <2>1, <2>2, CarriedMoves DEF ReceiveConfig, ReceiveCompile
<1>6. CASE ReceiveDownload(r) \/ ReceiveDelete(r)
  <2>1. Carries("download", loc[r]) /\ Carries("delete", loc[r])
    BY <1>1, CarriedMoves DEF Carries, During
  <2>2. QED  BY <1>1, <1>2, <1>6, <2>1, CarriedMoves DEF ReceiveDownload, ReceiveDelete
<1>7. QED  BY <1>3, <1>4, <1>5, <1>6 DEF Receive

LEMMA CreateCarried ==
    ASSUME Typed, Carried, NEW r \in Request, Create(r) PROVE Carried'
<1>1. pc[r] # "done" /\ loc[r].code = 0 /\ Kept(r, loc[r])
  BY CarriedMoves DEF Create, CommitCreate, SetPlanningContext
<1>2. CASE CommitCreate(r)
  <2>1. Carries("context", loc[r])  BY <1>1 DEF Carries, During
  <2>2. QED  BY <1>1, <1>2, <2>1, CarriedMoves DEF CommitCreate
<1>3. CASE SetPlanningContext(r)
  <2> DEFINE out == [kind |-> "plan", ir |-> r, brief |-> Nothing, round |-> 0]
             l == [loc[r] EXCEPT !.out = out]
  <2>1. loc[r].path = "seed" /\ loc[r] \in Local
    BY <1>3, Moves DEF SetPlanningContext, Typed, Handlers, Held
  <2>2. out.kind = "plan" /\ out.ir = r  OBVIOUS
  <2> HIDE DEF out
  <2>3. l.path = "seed" /\ l.out = out /\ l.code = 0  BY <1>1, <2>1 DEF Local
  <2>4. Kept(r, l) /\ Carries("select", l)  BY <2>2, <2>3 DEF Kept, Carries, During
  <2>5. CASE Goto(r, "select") /\ Keep(r, l)  BY <1>1, <2>4, <2>5, CarriedMoves
  <2>6. QED  BY <1>1, <1>3, <2>5, CarriedMoves DEF SetPlanningContext, out
<1>4. QED  BY <1>2, <1>3 DEF Create

LEMMA OpenCarried ==
    ASSUME Typed, Carried, NEW r \in Request, OpenTurn(r) PROVE Carried'
<1>1. pc[r] \in {"list", "select", "insert", "started"}
  BY DEF OpenTurn, ListTurns, CreateTurnSelect, CreateTurnInsert, ArchiveStarted
<1>2. /\ loc[r] \in Local /\ Kept(r, loc[r]) /\ Carries(pc[r], loc[r]) /\ loc[r].code = 0
      /\ Held(pc[r], loc[r])
  BY <1>1, CarriedMoves DEF Typed, Handlers
<1>3. \A c : Answer(r, c) => Carried'  BY <1>1, CarriedMoves
<1>4. CASE ListTurns(r)
  <2>1. loc[r].path \in {"turn", "secret"}  BY <1>2, <1>4 DEF ListTurns, Carries
  <2>2. Carries("select", loc[r])  BY <1>2, <2>1 DEF Carries, During
  <2>3. ASSUME NEW last PROVE LET l == [loc[r] EXCEPT !.last = last]
                              IN  Kept(r, l) /\ Carries("select", l)
    <3> DEFINE l == [loc[r] EXCEPT !.last = last]
    <3>1. /\ l.path = loc[r].path /\ l.out = loc[r].out /\ l.snap = loc[r].snap
          /\ l.rev = loc[r].rev /\ l.code = loc[r].code
      BY <1>2 DEF Local
    <3> HIDE DEF l
    <3>2. Kept(r, l)  BY <1>2, <2>1, <3>1 DEF Kept
    <3>3. Carries("select", l)  BY <2>2, <3>1 DEF Carries, During
    <3>4. QED  BY <3>2, <3>3 DEF l
  <2>4. QED  BY <1>1, <1>4, <2>2, <2>3, CarriedMoves DEF ListTurns
<1>5. CASE CreateTurnSelect(r)
  <2> DEFINE ir == IF sess.ir # Nothing THEN sess.ir ELSE CallerIR(r)
             l == [loc[r] EXCEPT !.rev = sess.rev, !.at = clock + 1, !.ir = ir]
  <2>1. /\ l.path = loc[r].path /\ l.out = loc[r].out /\ l.snap = loc[r].snap
        /\ l.last = loc[r].last /\ l.rev = sess.rev /\ l.code = loc[r].code
    BY <1>2 DEF Local
  <2>2. loc[r].path \in {"turn", "secret", "seed"} /\ (loc[r].path # "seed" => loc[r].snap # Nothing)
    BY <1>2, <1>5 DEF CreateTurnSelect, Carries, Held
  <2> HIDE DEF l, ir
  <2>3. Kept(r, l)  BY <1>2, <2>1 DEF Kept, Draft
  <2>4. ~RevisionMoved(r) => Carries("insert", l)
    BY <1>2, <2>1, <2>2 DEF RevisionMoved, Carries, During
  <2>5. CASE ~RevisionMoved(r) /\ Keep(r, l) /\ Goto(r, "insert")
    BY <1>1, <2>3, <2>4, <2>5, CarriedMoves
  <2>6. QED  BY <1>3, <1>5, <2>5 DEF CreateTurnSelect, l, ir
<1>6. CASE CreateTurnInsert(r)
  <2>1. loc[r].path # "seed" => Carries("started", loc[r])
    BY <1>2, <1>6 DEF CreateTurnInsert, Carries, During
  <2>2. loc[r].path = "seed" => Carries("finish", loc[r])
    BY <1>2, <1>6 DEF CreateTurnInsert, Carries, During
  <2>3. QED  BY <1>1, <1>6, <2>1, <2>2, CarriedMoves DEF CreateTurnInsert
<1>7. CASE ArchiveStarted(r)
  <2> DEFINE route == Route(r)
             l == [loc[r] EXCEPT !.path = route]
  <2>1. loc[r].path \in {"turn", "secret"} /\ loc[r].snap # Nothing /\ loc[r].rev = loc[r].snap.rev
    BY <1>2, <1>7 DEF ArchiveStarted, Carries, During
  <2>2. /\ route = "secret" => loc[r].path = "secret"
        /\ route \in {"confirm", "edit", "clarify"} => loc[r].path = "turn"
        /\ route = "confirm" => loc[r].last.kind = "brief_review"
        /\ route \in {"secret", "confirm", "edit", "clarify"}
    BY <2>1 DEF Route, ConfirmsReview
  <2>3. /\ l.path = route /\ l.out = loc[r].out /\ l.snap = loc[r].snap
        /\ l.last = loc[r].last /\ l.rev = loc[r].rev /\ l.code = loc[r].code
    BY <1>2 DEF Local
  <2> HIDE DEF l, route
  <2>4. Kept(r, l)  BY <1>2, <2>2, <2>3 DEF Kept
  <2> DEFINE label == IF route \in {"secret", "clarify"} THEN "clarify" ELSE "plan"
  <2>5. Carries(label, l)  BY <1>2, <2>1, <2>2, <2>3 DEF Carries, During
  <2>6. CASE /\ Goto(r, IF Route(r) \in {"secret", "clarify"} THEN "clarify" ELSE "plan")
             /\ Keep(r, [loc[r] EXCEPT !.path = Route(r)])
    <3>1. Keep(r, l) /\ Goto(r, label)  BY <2>6 DEF l, route
    <3>2. QED  BY <1>1, <2>4, <2>5, <3>1, CarriedMoves
  <2>7. QED  BY <1>3, <1>7, <2>6 DEF ArchiveStarted
<1>8. QED  BY <1>4, <1>5, <1>6, <1>7 DEF OpenTurn

LEMMA RunCarried ==
    ASSUME Typed, Carried, NEW r \in Request, RunTurn(r) PROVE Carried'
<1>1. pc[r] \in {"clarify", "questionnaire", "plan"}
  BY DEF RunTurn, RunEngine, ArchiveQuestionnaire, RunPlanner
<1>2. /\ loc[r] \in Local /\ Kept(r, loc[r]) /\ Carries(pc[r], loc[r]) /\ loc[r].code = 0
  BY <1>1, CarriedMoves
<1>3. \A c : Answer(r, c) => Carried'  BY <1>1, CarriedMoves
<1>4. r # Nothing  BY RequestAssumption
<1>5. CASE RunEngine(r)
  <2>5. pc[r] = "clarify" /\ loc[r].path \in {"secret", "clarify"}
    BY <1>2, <1>5 DEF RunEngine, Carries
  <2>6. loc[r].path \notin Planned  BY <2>5 DEF Planned
  <2>1. CASE ClarifySecret(r)
    BY <2>1, <2>5, <2>6, CarriedPropose DEF ClarifySecret
  <2>2. CASE ClarifyAgain(r)
    <3>1. loc[r].last.kind \in {"brief_review", "clarify", "questionnaire"}
      BY <2>2 DEF ClarifyAgain, RepeatsLast
    <3>2. loc[r].last.kind = "brief_review" => DraftAgain(r) # Nothing
      BY <2>2 DEF ClarifyAgain, RepeatsLast
    <3>3. QED  BY <2>2, <2>5, <2>6, <3>1, <3>2, CarriedPropose DEF ClarifyAgain
  <2>3. CASE ClarifyStep(r)
    <3>1. loc[r].path # "confirm"  BY <2>3 DEF ClarifyStep
    <3>2. pc[r] = "clarify" /\ loc[r].path \notin Planned  BY <2>5, <2>6
    <3>3. CASE Propose(r, "brief_review", Nothing, r, 0) /\ Goto(r, "finish")
      BY <1>4, <3>1, <3>2, <3>3, CarriedPropose
    <3>4. CASE /\ Propose(r, "questionnaire", Nothing, r, loc[r].snap.round)
               /\ Goto(r, "questionnaire")
      BY <3>1, <3>2, <3>4, CarriedPropose
    <3>5. CASE Propose(r, "clarify", Nothing, r, loc[r].snap.round + 1) /\ Goto(r, "finish")
      BY <3>1, <3>2, <3>5, CarriedPropose
    <3>6. QED  BY <2>3, <3>3, <3>4, <3>5 DEF ClarifyStep
  <2>4. QED  BY <1>3, <1>5, <2>1, <2>2, <2>3 DEF RunEngine
<1>6. CASE ArchiveQuestionnaire(r)
  <2>1. Carries("finish", loc[r])
    BY <1>2, <1>6 DEF Carries, During, ArchiveQuestionnaire
  <2>2. QED
    BY <1>1, <1>3, <1>6, <2>1, CarriedMoves DEF ArchiveQuestionnaire, LogThenGoto
<1>7. CASE RunPlanner(r)
  <2>1. CASE PlanAccepted(r)
    BY <1>1, <1>7, <2>1, CarriedPropose
       DEF PlanAccepted, RunPlanner, DraftUnderReview, Draft
  <2>2. CASE PlanFailed(r)
    <3>1. ASSUME NEW err PROVE LET l == [loc[r] EXCEPT !.err = err]
                               IN  Kept(r, l) /\ Carries("fail", l)
      <4> DEFINE l == [loc[r] EXCEPT !.err = err]
      <4>1. /\ l.path = loc[r].path /\ l.out = loc[r].out /\ l.snap = loc[r].snap
            /\ l.last = loc[r].last /\ l.code = loc[r].code
        BY <1>2 DEF Local
      <4> HIDE DEF l
      <4>2. Kept(r, l)  BY <1>2, <4>1 DEF Kept, Draft
      <4>3. Carries("fail", l)  BY <1>2, <4>1 DEF Carries, During
      <4>4. QED  BY <4>2, <4>3 DEF l
    <3>2. QED  BY <1>1, <2>2, <3>1, CarriedMoves DEF PlanFailed
  <2>3. QED  BY <1>7, <2>1, <2>2 DEF RunPlanner
<1>8. QED  BY <1>5, <1>6, <1>7 DEF RunTurn

LEMMA FinishCarried ==
    ASSUME Typed, Carried, NEW r \in Request, FinishTurn(r) PROVE Carried'
<1>1. pc[r] \in {"finish", "commit", "replied", "succeeded", "seeded", "fail", "fail_commit", "failed"}
  BY DEF FinishTurn, FinishSelect, FinishCommit, ArchiveReplied, ArchiveSucceeded, ArchiveSeeded,
     FailSelect, FailCommit, ArchiveFailed
<1>2. Carries(pc[r], loc[r]) /\ loc[r].code = 0  BY <1>1, CarriedMoves
<1>3. \A c : Answer(r, c) => Carried'  BY <1>1, CarriedMoves
<1>4. Raise(r) => Carried'  BY <1>1, CarriedMoves
<1>5. \A label \in {"replied", "succeeded", "seeded", "fail_commit", "failed"} :
        /\ Goto(r, label) /\ UNCHANGED loc
        /\ label \in {"succeeded", "seeded"} => loc[r].path \in Planned
        => Carried'
  <2>1. \A label \in {"replied", "succeeded", "seeded", "fail_commit", "failed"} :
          (label \in {"succeeded", "seeded"} => loc[r].path \in Planned) => Carries(label, loc[r])
    BY <1>2 DEF Carries, During
  <2>2. QED  BY <1>1, <2>1, CarriedMoves
<1>6. CASE FinishSelect(r)
  <2>1. Carries("commit", loc[r])  BY <1>2, <1>6 DEF FinishSelect, Carries, During
  <2>2. QED  BY <1>1, <1>4, <1>6, <2>1, CarriedMoves DEF FinishSelect
<1>7. CASE FinishCommit(r)
  BY <1>3, <1>5, <1>7, {"seed", "edit"} \subseteq Planned
     DEF FinishCommit, FinishAccept, FinishConflict, Planned
<1>8. CASE ArchiveReplied(r) \/ ArchiveSucceeded(r) \/ ArchiveSeeded(r)
  BY <1>3, <1>4, <1>5, <1>8, "confirm" \in Planned
     DEF Planned, ArchiveReplied, ArchiveSucceeded, ArchiveSeeded, RowIsGone, LogOutcome
<1>9. CASE FailSelect(r) \/ FailCommit(r) \/ ArchiveFailed(r)
  BY <1>3, <1>5, <1>9 DEF FailSelect, FailCommit, ArchiveFailed, LogThenAnswer
<1>10. QED  BY <1>6, <1>7, <1>8, <1>9 DEF FinishTurn

LEMMA OtherCarried ==
    ASSUME Typed, Carried, NEW r \in Request, Other(r) PROVE Carried'
<1>1. pc[r] \notin {"idle", "done"}  BY StepsLeave DEF Step
<1>2. \A c : Answer(r, c) => Carried'  BY <1>1, CarriedMoves
<1>3. \A label \in {"config_set", "produced", "downloaded", "deleted"} :
        Goto(r, label) /\ UNCHANGED loc => Carried'
  <2>1. loc[r].code = 0  BY <1>1, CarriedMoves
  <2>2. \A label \in {"config_set", "produced", "downloaded", "deleted"} : Carries(label, loc[r])
    BY <2>1 DEF Carries, During
  <2>3. QED  BY <1>1, <2>2, CarriedMoves
<1>4. QED
  BY <1>2, <1>3 DEF Other, WriteConfig, ArchiveConfig, CreateArtifact, ArchiveCompile,
     MarkDownloaded, ArchiveDownload, DeleteRows, ArchiveDelete, LogThenAnswer

LEMMA NextCarried == Typed /\ Carried /\ [Next]_vars => Carried'
<1> SUFFICES ASSUME Typed, Carried, [Next]_vars PROVE Carried'
  OBVIOUS
<1>1. CASE Crash
  <2>1. \A r \in Request : /\ pc'[r] = IF pc[r] \in {"idle", "done"} THEN pc[r] ELSE "done"
                           /\ loc'[r] = IF pc[r] \in {"idle", "done"} THEN loc[r] ELSE Fresh
    BY <1>1 DEF Crash, InFlight
  <2>2. \A r \in Request : Kept(r, Fresh)  BY DEF Kept, Fresh
  <2>3. Carries("done", Fresh)  BY DEF Carries, During
  <2>4. QED  BY <2>1, <2>2, <2>3 DEF Carried
<1>2. CASE UNCHANGED vars  BY <1>2 DEF vars, Carried
<1>3. ASSUME NEW r \in Request, Receive(r) \/ Step(r) PROVE Carried'
  BY <1>3, ReceiveCarried, CreateCarried, OpenCarried, RunCarried, FinishCarried, OtherCarried
     DEF Step
<1>4. QED  BY <1>1, <1>2, <1>3 DEF Next, AllServed

LEMMA InitCarried == Init => Carried
<1>1. \A r \in Request : Kept(r, Fresh) /\ Carries("idle", Fresh)
  BY DEF Kept, Carries, During, Fresh
<1>2. QED  BY <1>1 DEF Init, Carried

-----------------------------------------------------------------------------
(* What a step leaves of the rows and the events of the others. *)

LEMMA LogsOwn ==
    ASSUME NEW r \in Request, Receive(r) \/ Step(r)
    PROVE  \A q \in Request \ {r}, e \in Events : <<e, q>> \in archived' <=> <<e, q>> \in archived
<1>1. \A event : Log(r, event) =>
        \A q \in Request \ {r}, e \in Events : <<e, q>> \in archived' <=> <<e, q>> \in archived
  BY DEF Log
<1>2. UNCHANGED archived \/ \E event : Log(r, event)
  <2>1. Receive(r) => UNCHANGED archived \/ \E event : Log(r, event)
    BY DEF Receive, ReceiveCreate, ReceiveTurn, ReceiveConfig, ReceiveCompile, ReceiveDownload,
       ReceiveDelete, LogRaises
  <2>2. Create(r) \/ OpenTurn(r) \/ RunTurn(r) => UNCHANGED archived \/ \E event : Log(r, event)
    BY DEF Create, CommitCreate, SetPlanningContext, OpenTurn, ListTurns, CreateTurnSelect,
       CreateTurnInsert, ArchiveStarted, RunTurn, RunEngine, ArchiveQuestionnaire, LogThenGoto,
       RunPlanner, LogRaises
  <2>3. FinishTurn(r) => UNCHANGED archived \/ \E event : Log(r, event)
    BY DEF FinishTurn, FinishSelect, FinishCommit, ArchiveReplied, ArchiveSucceeded, ArchiveSeeded,
       RowIsGone, LogOutcome, FailSelect, FailCommit, ArchiveFailed, LogThenAnswer, LogRaises
  <2>4. Other(r) => UNCHANGED archived \/ \E event : Log(r, event)
    BY DEF Other, WriteConfig, ArchiveConfig, CreateArtifact, ArchiveCompile, MarkDownloaded,
       ArchiveDownload, DeleteRows, ArchiveDelete, LogThenAnswer, LogRaises
  <2>5. QED  BY <2>1, <2>2, <2>3, <2>4 DEF Step
<1>3. QED  BY <1>1, <1>2

\* While the session exists the rows of the other requests stay as they are; a
\* session that comes to exist finds nobody between the INSERT and the commit.
LEMMA RowsStay ==
    ASSUME Typed, Origin, NEW r \in Request, Receive(r) \/ Step(r), sess' # Nothing
    PROVE  /\ \A q \in Request \ {r} : turns'[q] = turns[q]
           /\ \/ sess # Nothing
              \/ \A q \in Request : pc[q] \in {"idle", "open", "done"} /\ turns[q] = Nothing
                                    /\ artifacts[q] = Nothing /\ loc[q].snap = Nothing
<1>1. ~DeleteRows(r)  BY DEF DeleteRows
<1>2. \A q \in Request \ {r} : turns'[q] = turns[q]
  <2>1. turns \in [Request -> Maybe(TurnRow)]  BY DEF Typed, Tables
  <2>2. CreateTurnInsert(r) => \A q \in Request \ {r} : turns'[q] = turns[q]
    BY <2>1 DEF CreateTurnInsert
  <2>3. FinishCommit(r) => \A q \in Request \ {r} : turns'[q] = turns[q]
    BY <2>1 DEF FinishCommit, FinishAccept, FinishConflict, UpdateTurn
  <2>4. FailCommit(r) => \A q \in Request \ {r} : turns'[q] = turns[q]
    BY <2>1 DEF FailCommit
  <2>5. QED  BY <1>1, <2>2, <2>3, <2>4, TurnWriters
<1>3. RowEffect
  <2>1. Next  BY DEF Next
  <2>2. QED  BY <2>1, NextEffect
<1>4. sess # Nothing \/ pc[Creator] = "open"
  BY <1>3 DEF RowEffect, Reading, Deleting, SameContent, NextRevision, Creating
<1>5. QED  BY <1>2, <1>4 DEF Origin

-----------------------------------------------------------------------------
(* The row of a turn in progress. *)

Settled == {"replied", "succeeded", "seeded"}
Successes == {"turn.clarify_replied", "turn.succeeded", "template_seeded"}
Outcomes == Successes \cup {"turn.failed"}

\* Where a handler may be when an outcome of its turn is archived: an append that
\* raised may have written it before the turn is marked failed.
After == {"succeeded", "fail", "fail_commit", "failed", "done"}

\* A row as its handler inserted it.
AsOpened(t, l) ==
    /\ t.status = "running" /\ t.ir = Nothing /\ t.kind # "brief_review"
    /\ t.rev = l.rev /\ t.at = l.at /\ t.irBefore = l.ir

\* What an archived success of the turn of r has left in its row: the IR, which no
\* later step takes away, or a reply after which the handler has ended.
Left(e, r) ==
    \/ turns[r].ir = r
    \/ e = "turn.clarify_replied" /\ pc[r] = "done" /\ turns[r].status = "succeeded"

\* From the INSERT to the commit the row is as it was inserted; a success is archived
\* after the commit, a failure last; a conflict leaves a failed row without an IR.
OwnTurn(r) ==
    /\ pc[r] \in During /\ turns[r] # Nothing => AsOpened(turns[r], loc[r])
    /\ pc[r] \in During /\ sess # Nothing => turns[r] # Nothing
    /\ pc[r] \in Settled /\ turns[r] # Nothing =>
         turns[r].status = "succeeded" /\ (loc[r].path \in Planned => turns[r].ir = r)
    /\ pc[r] = "failed" /\ turns[r] # Nothing => turns[r].status = "failed"
    /\ <<"turn.failed", r>> \in archived => pc[r] = "done"
    /\ \A e \in Successes : <<e, r>> \in archived => pc[r] \in After
    /\ turns[r] # Nothing =>
         /\ \A e \in Successes : <<e, r>> \in archived => Left(e, r)
         /\ <<"turn.failed", r>> \in archived => turns[r].status = "failed"
         /\ loc[r].code = 409 => turns[r].status = "failed" /\ turns[r].ir = Nothing

OwnTurns == \A r \in Request : OwnTurn(r)

\* The step of r archives no outcome of its turn.
Silent(r) == \A e \in Outcomes : <<e, r>> \in archived' => <<e, r>> \in archived

LEMMA SilentSteps ==
    ASSUME NEW r \in Request
    PROVE  /\ \A e \in Events \ Outcomes : Log(r, e) \/ LogRaises(r, e) => Silent(r)
           /\ UNCHANGED archived => Silent(r)
  BY DEF Log, LogRaises, Silent

\* The ways in which a handler moves and its row does not.
LEMMA QuietOwn ==
    ASSUME Typed, Carried, OwnTurns, NEW r \in Request, pc[r] # "done",
           turns'[r] = turns[r], Silent(r)
    PROVE  /\ \A c : Answer(r, c) /\ (c = 409 => turns[r] = Nothing) => OwnTurn(r)'
           /\ Raise(r) => OwnTurn(r)'
           /\ \A label : /\ Goto(r, label) /\ label \notin During \cup Settled \cup {"failed"}
                         /\ pc[r] \in After => label \in After
                         /\ UNCHANGED loc \/ (\E l : Keep(r, l) /\ l.code = 0)
                         => OwnTurn(r)'
           /\ \A label : /\ Goto(r, label) /\ label \in During /\ pc[r] \in During /\ sess' = sess
                         /\ \/ UNCHANGED loc
                            \/ \E l : /\ Keep(r, l) /\ l.code = 0 /\ l.rev = loc[r].rev
                                     /\ l.at = loc[r].at /\ l.ir = loc[r].ir
                         => OwnTurn(r)'
<1>1. /\ loc[r] \in Local /\ loc[r].code = 0 /\ OwnTurn(r)
      /\ pc \in [Request -> Labels] /\ loc \in [Request -> Local]
  BY CarriedMoves DEF Typed, Handlers, OwnTurns
<1>2. \A label : Goto(r, label) => pc'[r] = label  BY <1>1 DEF Goto
<1>3. \A l : Keep(r, l) => loc'[r] = l  BY <1>1 DEF Keep
<1>4. During \cap (Settled \cup {"failed"}) = {} /\ Settled \cap {"failed"} = {}
  BY DEF During, Settled
<1>5. ASSUME pc'[r] \notin During \cup Settled \cup {"failed"},
             pc[r] \in After => pc'[r] \in After,
             loc'[r].code = 409 => turns[r] = Nothing
      PROVE  OwnTurn(r)'
  <2>1. <<"turn.failed", r>> \notin archived'  BY <1>1 DEF OwnTurn, Silent, Outcomes
  <2>2. \A e \in Successes : <<e, r>> \in archived' => <<e, r>> \in archived
    BY DEF Silent, Outcomes
  <2>3. \A e \in Successes : <<e, r>> \in archived' => pc'[r] \in After
    BY <1>1, <1>5, <2>2 DEF OwnTurn
  <2>4. \A e \in Successes : turns'[r] # Nothing /\ <<e, r>> \in archived' => Left(e, r)'
    BY <1>1, <2>2 DEF OwnTurn, Left
  <2>5. QED  BY <1>5, <2>1, <2>3, <2>4 DEF OwnTurn
<1>6. ASSUME pc'[r] \in During, pc[r] \in During, sess' = sess, loc'[r].code = 0,
             loc'[r].rev = loc[r].rev, loc'[r].at = loc[r].at, loc'[r].ir = loc[r].ir
      PROVE  OwnTurn(r)'
  <2>1. \A e \in Outcomes : <<e, r>> \notin archived'
    <3>1. pc[r] \notin After  BY <1>6 DEF During, After
    <3>2. QED  BY <1>1, <3>1 DEF OwnTurn, Silent, Outcomes
  <2>2. QED  BY <1>1, <1>4, <1>6, <2>1 DEF OwnTurn, AsOpened, Outcomes
<1>8. "done" \notin During \cup Settled \cup {"failed"} /\ {"done", "fail"} \subseteq After
  BY DEF During, Settled, After
<1>9. ASSUME NEW c, Answer(r, c), c = 409 => turns[r] = Nothing PROVE OwnTurn(r)'
  <2>1. pc'[r] = "done" /\ loc'[r] = [Fresh EXCEPT !.code = c]  BY <1>2, <1>3, <1>9 DEF Answer
  <2>2. [Fresh EXCEPT !.code = c].code = c  BY DEF Fresh
  <2>3. loc'[r].code = c  BY <2>1, <2>2
  <2>4. QED  BY <1>5, <1>8, <1>9, <2>1, <2>3
<1>10. ASSUME Raise(r) PROVE OwnTurn(r)'
  <2>1. CASE Answer(r, 500)  BY <1>9, <2>1
  <2>2. CASE Goto(r, "fail") /\ Keep(r, [loc[r] EXCEPT !.err = "error"])
    <3>1. pc'[r] = "fail" /\ loc'[r] = [loc[r] EXCEPT !.err = "error"]  BY <1>2, <1>3, <2>2
    <3>2. [loc[r] EXCEPT !.err = "error"].code = 0  BY <1>1 DEF Local
    <3>3. "fail" \notin During \cup Settled \cup {"failed"}  BY DEF During, Settled
    <3>4. loc'[r].code = 0  BY <3>1, <3>2
    <3>5. QED  BY <1>5, <1>8, <3>1, <3>3, <3>4
  <2>3. QED  BY <1>10, <2>1, <2>2 DEF Raise
<1>11. QED  BY <1>1, <1>2, <1>3, <1>5, <1>6, <1>9, <1>10

LEMMA ReceiveOwn ==
    ASSUME Typed, Carried, RowsInv, OwnTurns, NEW r \in Request, Receive(r) PROVE OwnTurn(r)'
<1>1. pc[r] = "idle" /\ turns' = turns
  BY DEF Receive, ReceiveCreate, ReceiveTurn, ReceiveConfig, ReceiveCompile, ReceiveDownload,
     ReceiveDelete, tables
<1>2. turns[r] = Nothing  BY <1>1 DEF RowsInv
<1>3. Silent(r)
  BY <1>1, SilentSteps, "session.created" \in Events \ Outcomes
     DEF Receive, ReceiveCreate, ReceiveTurn, ReceiveConfig, ReceiveCompile, ReceiveDownload,
     ReceiveDelete, Events, Outcomes, Successes
<1>4. \A c : Answer(r, c) => OwnTurn(r)'  BY <1>1, <1>2, <1>3, QuietOwn
<1>5. \A label \in {"open", "list", "config", "artifact", "download", "delete"} :
        Goto(r, label) /\ (UNCHANGED loc \/ \E l : Keep(r, l) /\ l.code = 0) => OwnTurn(r)'
  <2>1. {"open", "list", "config", "artifact", "download", "delete"}
          \cap (During \cup Settled \cup {"failed"}) = {} /\ "idle" \notin After
    BY DEF During, Settled, After
  <2>2. QED  BY <1>1, <1>2, <1>3, <2>1, QuietOwn
<1>6. CASE ReceiveCreate(r)
  <2>1. \A path : [Fresh EXCEPT !.path = path].code = 0  BY DEF Fresh
  <2>2. QED  BY ZenonT(40), <1>4, <1>5, <1>6, <2>1 DEF ReceiveCreate
<1>7. CASE \E m \in Messages : ReceiveTurn(r, m)
  <2>1. \A p, m : [Fresh EXCEPT !.path = p, !.msg = m, !.snap = sess].code = 0  BY DEF Fresh
  <2>2. QED  BY <1>4, <1>5, <1>7, <2>1 DEF ReceiveTurn
<1>8. CASE ReceiveConfig(r) \/ ReceiveCompile(r)
  <2>1. [Fresh EXCEPT !.snap = sess].code = 0  BY DEF Fresh
  <2>2. QED  BY ZenonT(40), <1>4, <1>5, <1>8, <2>1 DEF ReceiveConfig, ReceiveCompile
<1>9. CASE ReceiveDownload(r) \/ ReceiveDelete(r)
  BY <1>4, <1>5, <1>9 DEF ReceiveDownload, ReceiveDelete
<1>10. QED  BY <1>6, <1>7, <1>8, <1>9 DEF Receive

LEMMA CreateOwn ==
    ASSUME Typed, Carried, RowsInv, OwnTurns, NEW r \in Request, Create(r) PROVE OwnTurn(r)'
<1>1. pc[r] \in {"open", "context"} /\ turns' = turns
  BY DEF Create, CommitCreate, SetPlanningContext
<1>2. loc[r] \in Local /\ loc[r].code = 0 /\ turns[r] = Nothing
  BY <1>1, CarriedMoves DEF RowsInv
<1>3. Silent(r)
  BY <1>1, SilentSteps, "llm_config_inherited" \in Events \ Outcomes
     DEF Create, CommitCreate, SetPlanningContext, Events, Outcomes, Successes
<1>4. \A c : Answer(r, c) => OwnTurn(r)'  BY <1>1, <1>2, <1>3, QuietOwn
<1>5. \A label \in {"context", "select"} :
        Goto(r, label) /\ (UNCHANGED loc \/ \E l : Keep(r, l) /\ l.code = 0) => OwnTurn(r)'
  <2>1. {"context", "select"} \cap (During \cup Settled \cup {"failed"}) = {}
        /\ {"open", "context"} \cap After = {}
    BY DEF During, Settled, After
  <2>2. QED  BY <1>1, <1>2, <1>3, <2>1, QuietOwn
<1>6. \A out : [loc[r] EXCEPT !.out = out].code = 0  BY <1>2 DEF Local
<1>7. CASE CommitCreate(r)  BY <1>4, <1>5, <1>7 DEF CommitCreate
<1>8. CASE SetPlanningContext(r)  BY ZenonT(40), <1>4, <1>5, <1>6, <1>8 DEF SetPlanningContext
<1>9. QED  BY <1>7, <1>8 DEF Create

LEMMA InsertOwn ==
    ASSUME Typed, Carried, RowsInv, OwnTurns, NEW r \in Request, CreateTurnInsert(r)
    PROVE  OwnTurn(r)'
<1>1. pc[r] = "insert" /\ archived' = archived /\ loc' = loc  BY DEF CreateTurnInsert
<1>2. Silent(r)  BY <1>1, SilentSteps
<1>3. loc[r].code = 0  BY <1>1, CarriedMoves
<1>4. pc'[r] \in {"started", "finish"}  BY DEF CreateTurnInsert, Goto, Typed, Handlers
<1>5. turns'[r] # Nothing /\ AsOpened(turns'[r], loc[r])
  <2>1. turns'[r] = [status |-> "running",
                     kind |-> IF loc[r].path = "secret" THEN "clarify" ELSE "plan",
                     at |-> loc[r].at, rev |-> loc[r].rev, irBefore |-> loc[r].ir,
                     ir |-> Nothing, brief |-> Nothing]
    BY DEF CreateTurnInsert, Typed, Tables
  <2>2. QED  BY <2>1, CreateTurnInsertRow DEF AsOpened
<1>6. \A e \in Outcomes : <<e, r>> \notin archived'
  <2>1. pc[r] \notin After  BY <1>1 DEF After
  <2>2. QED  BY <1>1, <1>2, <2>1 DEF OwnTurns, OwnTurn, Silent, Outcomes
<1>7. QED  BY <1>1, <1>3, <1>4, <1>5, <1>6 DEF OwnTurn, Settled, Outcomes

LEMMA OpenOwn ==
    ASSUME Typed, Carried, RowsInv, OwnTurns, NEW r \in Request, OpenTurn(r) PROVE OwnTurn(r)'
<1>1. CASE ListTurns(r) \/ CreateTurnSelect(r)
  <2>1. pc[r] \in {"list", "select"} /\ turns' = turns /\ archived' = archived
    BY <1>1 DEF ListTurns, CreateTurnSelect, tables
  <2>2. loc[r] \in Local /\ loc[r].code = 0 /\ turns[r] = Nothing /\ Silent(r)
    BY <2>1, CarriedMoves, SilentSteps DEF RowsInv
  <2>3. \A c : Answer(r, c) => OwnTurn(r)'  BY <2>1, <2>2, QuietOwn
  <2>4. \A label \in {"select", "insert"} :
          Goto(r, label) /\ (UNCHANGED loc \/ \E l : Keep(r, l) /\ l.code = 0) => OwnTurn(r)'
    <3>1. {"select", "insert"} \cap (During \cup Settled \cup {"failed"}) = {}
          /\ {"list", "select"} \cap After = {}
      BY DEF During, Settled, After
    <3>2. QED  BY <2>1, <2>2, <3>1, QuietOwn
  <2>5. \A last : [loc[r] EXCEPT !.last = last].code = 0  BY <2>2 DEF Local
  <2>6. \A i, j, t : [loc[r] EXCEPT !.rev = i, !.at = j, !.ir = t].code = 0  BY <2>2 DEF Local
  <2>7. CASE ListTurns(r)  BY <2>4, <2>5, <2>7 DEF ListTurns
  <2>8. CASE CreateTurnSelect(r)
    <3> DEFINE ir == IF sess.ir # Nothing THEN sess.ir ELSE CallerIR(r)
               l == [loc[r] EXCEPT !.rev = sess.rev, !.at = clock + 1, !.ir = ir]
    <3>1. l.code = 0  BY <2>6
    <3>2. CASE Goto(r, "insert") /\ Keep(r, l)  BY <2>4, <3>1, <3>2
    <3>3. QED  BY <2>3, <2>8, <3>2 DEF CreateTurnSelect
  <2>9. QED  BY <1>1, <2>7, <2>8
<1>2. CASE ArchiveStarted(r)
  <2>1. pc[r] = "started" /\ turns' = turns /\ sess' = sess
    BY <1>2 DEF ArchiveStarted, tables
  <2>2. loc[r] \in Local /\ loc[r].code = 0  BY <2>1, CarriedMoves
  <2>3. Silent(r)
    BY <1>2, <2>1, SilentSteps, "turn.started" \in Events \ Outcomes
       DEF ArchiveStarted, Events, Outcomes, Successes
  <2>4. Answer(r, 500) => OwnTurn(r)'  BY <2>1, <2>3, QuietOwn
  <2>5. CASE /\ Goto(r, IF Route(r) \in {"secret", "clarify"} THEN "clarify" ELSE "plan")
             /\ Keep(r, [loc[r] EXCEPT !.path = Route(r)])
    <3> DEFINE route == Route(r)
               l == [loc[r] EXCEPT !.path = route]
    <3>1. l.code = 0 /\ l.rev = loc[r].rev /\ l.at = loc[r].at /\ l.ir = loc[r].ir
      BY <2>2 DEF Local
    <3>2. Keep(r, l) /\ \E label \in {"clarify", "plan"} : Goto(r, label)  BY <2>5
    <3>3. {"started", "clarify", "plan"} \subseteq During  BY DEF During
    <3> HIDE DEF l
    <3>4. QED  BY <2>1, <2>3, <3>1, <3>2, <3>3, QuietOwn
  <2>6. QED  BY <1>2, <2>4, <2>5 DEF ArchiveStarted
<1>3. QED  BY <1>1, <1>2, InsertOwn DEF OpenTurn

LEMMA RunOwn ==
    ASSUME Typed, Carried, RowsInv, OwnTurns, NEW r \in Request, RunTurn(r) PROVE OwnTurn(r)'
<1>1. pc[r] \in {"clarify", "questionnaire", "plan"} /\ turns' = turns /\ sess' = sess
  BY DEF RunTurn, RunEngine, ArchiveQuestionnaire, LogThenGoto, RunPlanner, tables
<1>2. loc[r] \in Local /\ loc[r].code = 0  BY <1>1, CarriedMoves
<1>3. Silent(r)
  BY <1>1, SilentSteps, {"turn.clarify_started", "turn.questionnaire_emitted"} \subseteq Events \ Outcomes
     DEF RunTurn, RunEngine, ArchiveQuestionnaire, LogThenGoto, RunPlanner, Events, Successes,
         Outcomes
<1>4. Answer(r, 500) => OwnTurn(r)'  BY <1>1, <1>3, QuietOwn
<1>5. {"clarify", "questionnaire", "plan", "finish"} \subseteq During  BY DEF During
<1>6. \A label \in {"finish", "questionnaire"} : \A kind, ir, brief, round :
        Goto(r, label) /\ Propose(r, kind, ir, brief, round) => OwnTurn(r)'
  <2> SUFFICES ASSUME NEW label \in {"finish", "questionnaire"}, NEW out,
                      Goto(r, label), Keep(r, [loc[r] EXCEPT !.out = out])
               PROVE  OwnTurn(r)'
    BY DEF Propose
  <2> DEFINE l == [loc[r] EXCEPT !.out = out]
  <2>1. l.code = 0 /\ l.rev = loc[r].rev /\ l.at = loc[r].at /\ l.ir = loc[r].ir
    BY <1>2 DEF Local
  <2>2. Keep(r, l)  OBVIOUS
  <2> HIDE DEF l
  <2>3. QED  BY <1>1, <1>3, <1>5, <2>1, <2>2, QuietOwn
<1>7. CASE RunEngine(r)
  BY <1>4, <1>6, <1>7 DEF RunEngine, ClarifySecret, ClarifyAgain, ClarifyStep
<1>8. CASE ArchiveQuestionnaire(r)
  <2>1. Goto(r, "finish") /\ UNCHANGED loc => OwnTurn(r)'  BY <1>1, <1>3, <1>5, QuietOwn
  <2>2. QED  BY <1>4, <1>8, <2>1 DEF ArchiveQuestionnaire, LogThenGoto
<1>9. CASE RunPlanner(r)
  <2>1. CASE PlanAccepted(r)  BY <1>6, <2>1 DEF PlanAccepted
  <2>2. CASE PlanFailed(r)
    <3>1. \A err : [loc[r] EXCEPT !.err = err].code = 0  BY <1>2 DEF Local
    <3>2. "fail" \notin During \cup Settled \cup {"failed"} /\ "fail" \in After
      BY DEF During, Settled, After
    <3>3. QED  BY <1>1, <1>3, <2>2, <3>1, <3>2, QuietOwn DEF PlanFailed
  <2>3. QED  BY <1>9, <2>1, <2>2 DEF RunPlanner
<1>10. QED  BY <1>7, <1>8, <1>9 DEF RunTurn

LEMMA CommitOwn ==
    ASSUME Typed, Carried, RowsInv, OwnTurns, NEW r \in Request, FinishCommit(r)
    PROVE  OwnTurn(r)'
<1>1. pc[r] = "commit" /\ archived' = archived  BY DEF FinishCommit
<1>2. Silent(r)  BY <1>1, SilentSteps
<1>3. /\ loc[r].code = 0 /\ pc \in [Request -> Labels] /\ loc \in [Request -> Local]
      /\ turns \in [Request -> Maybe(TurnRow)]
  BY <1>1, CarriedMoves DEF Typed, Handlers, Tables
<1>4. turns[r] # Nothing => turns[r] \in TurnRow /\ AsOpened(turns[r], loc[r])
  <2>1. OwnTurn(r)  BY DEF OwnTurns
  <2>2. turns[r] # Nothing => AsOpened(turns[r], loc[r])  BY <1>1, <2>1 DEF OwnTurn, During
  <2>3. QED  BY <1>3, <2>2 DEF Maybe
<1>8. \A e \in Outcomes : <<e, r>> \notin archived'
  <2>1. pc[r] \notin After  BY <1>1 DEF After
  <2>2. QED  BY <1>1, <1>2, <2>1 DEF OwnTurns, OwnTurn, Silent, Outcomes
<1>5. CASE FinishAccept(r)
  <2>1. pc'[r] \in Settled /\ loc'[r].code = 0  BY <1>3, <1>5 DEF FinishAccept, Goto, Settled
  <2>2. turns'[r] # Nothing => turns'[r].status = "succeeded" /\ turns'[r].ir = loc[r].out.ir
    BY <1>3, <1>4, <1>5 DEF FinishAccept, UpdateTurn, AsOpened, TurnRow
  <2>3. loc[r].path \in Planned => loc[r].out.ir = r
    BY <1>1, CarriedMoves DEF Kept, Typed, Handlers, Held
  <2>4. Settled \cap (During \cup {"failed"}) = {} /\ loc' = loc
    BY <1>5 DEF FinishAccept, Settled, During
  <2>5. QED  BY <1>8, <2>1, <2>2, <2>3, <2>4 DEF OwnTurn, Outcomes
<1>6. CASE FinishConflict(r)
  <2>1. pc'[r] = "done"  BY <1>3, <1>6 DEF FinishConflict, Answer, Goto
  <2>2. turns'[r] # Nothing => turns'[r].status = "failed" /\ turns'[r].ir = Nothing
    BY <1>3, <1>4, <1>6 DEF FinishConflict, UpdateTurn, AsOpened, TurnRow
  <2>3. QED  BY <1>8, <2>1, <2>2 DEF OwnTurn, Outcomes, During, Settled
<1>7. QED  BY <1>5, <1>6 DEF FinishCommit

\* The step of r archives at most the outcome e of its turn.
Adds(e, r) == \A f \in Outcomes : <<f, r>> \in archived' => <<f, r>> \in archived \/ f = e

LEMMA OutcomeOwn ==
    ASSUME Typed, Carried, RowsInv, OwnTurns, NEW r \in Request,
           ArchiveReplied(r) \/ ArchiveSucceeded(r) \/ ArchiveSeeded(r)
    PROVE  OwnTurn(r)'
<1>1. pc[r] \in Settled /\ turns' = turns /\ sess' = sess
  BY DEF ArchiveReplied, ArchiveSucceeded, ArchiveSeeded, tables, Settled
<1>2. /\ pc[r] # "done" /\ pc \in [Request -> Labels] /\ loc \in [Request -> Local]
      /\ loc[r] \in Local /\ loc[r].code = 0 /\ Carries(pc[r], loc[r])
  BY <1>1, CarriedMoves DEF Settled, Typed, Handlers
<1>3. /\ turns[r] # Nothing => /\ turns[r].status = "succeeded"
                               /\ loc[r].path \in Planned => turns[r].ir = r
      /\ <<"turn.failed", r>> \notin archived
      /\ \A e \in Successes : turns[r] # Nothing /\ <<e, r>> \in archived => turns[r].ir = r
  BY <1>1, <1>2 DEF OwnTurns, OwnTurn, Left
<1>4. \A e \in Outcomes : Log(r, e) \/ LogRaises(r, e) \/ UNCHANGED archived => Adds(e, r)
  BY DEF Log, LogRaises, Adds
<1>5. ASSUME NEW e \in Successes, Adds(e, r), loc'[r].code # 409,
             \/ pc'[r] = "done" /\ (loc[r].path \in Planned \/ e = "turn.clarify_replied")
             \/ pc'[r] = "fail" /\ loc[r].path \in Planned
             \/ pc'[r] = "succeeded" /\ loc[r].path \in Planned
      PROVE  OwnTurn(r)'
  <2>1. <<"turn.failed", r>> \notin archived'
    <3>1. e # "turn.failed"  BY DEF Successes
    <3>2. QED  BY <1>3, <1>5, <3>1 DEF Adds, Outcomes
  <2>2. \A f \in Successes : <<f, r>> \in archived' => <<f, r>> \in archived \/ f = e
    BY <1>5 DEF Adds, Outcomes
  <2>3. \A f \in Successes : turns'[r] # Nothing /\ <<f, r>> \in archived' => Left(f, r)'
    BY <1>1, <1>3, <1>5, <2>2 DEF Left
  <2>4. pc'[r] \in After /\ pc'[r] \notin During \cup {"failed"}  BY <1>5 DEF After, During
  <2>5. pc'[r] \in Settled /\ turns'[r] # Nothing =>
          turns'[r].status = "succeeded" /\ turns'[r].ir = r
    BY <1>1, <1>3, <1>5 DEF Settled
  <2>6. QED  BY <1>5, <2>1, <2>3, <2>4, <2>5 DEF OwnTurn
<1>6. ASSUME NEW e \in Successes, Adds(e, r), NEW c \in {200, 500}, Answer(r, c),
             loc[r].path \in Planned \/ e = "turn.clarify_replied"
      PROVE  OwnTurn(r)'
  <2>1. pc'[r] = "done" /\ loc'[r] = [Fresh EXCEPT !.code = c]
    BY <1>2, <1>6 DEF Answer, Goto, Keep
  <2>2. loc'[r].code # 409  BY <2>1 DEF Fresh
  <2>3. QED  BY <1>5, <1>6, <2>1, <2>2
<1>7. ASSUME NEW e \in Successes, Adds(e, r), Raise(r),
             loc[r].path \in Planned \/ e = "turn.clarify_replied"
      PROVE  OwnTurn(r)'
  <2>1. CASE loc[r].path \in {"confirm", "edit"}
    <3>1. pc'[r] = "fail" /\ loc'[r] = [loc[r] EXCEPT !.err = "error"]
      BY <1>2, <1>7, <2>1 DEF Raise, Goto, Keep
    <3>2. loc'[r].code # 409  BY <1>2, <3>1 DEF Local
    <3>3. QED  BY <1>5, <1>7, <2>1, <3>1, <3>2 DEF Planned
  <2>2. CASE loc[r].path \notin {"confirm", "edit"}  BY <1>6, <1>7, <2>2 DEF Raise
  <2>3. QED  BY <2>1, <2>2
<1>8. CASE ArchiveReplied(r)
  <2>1. Adds("turn.clarify_replied", r)
    BY <1>4, <1>8 DEF ArchiveReplied, RowIsGone, LogOutcome, Outcomes, Successes
  <2>2. CASE Raise(r)  BY <1>7, <2>1, <2>2 DEF Successes
  <2>3. CASE Answer(r, 200)  BY <1>6, <2>1, <2>3 DEF Successes
  <2>4. CASE loc[r].path = "confirm" /\ Goto(r, "succeeded") /\ UNCHANGED loc
    <3>1. pc'[r] = "succeeded" /\ loc'[r].code # 409  BY <1>2, <2>4 DEF Goto
    <3>2. QED  BY <1>5, <2>1, <2>4, <3>1 DEF Successes, Planned
  <2>5. QED  BY <1>8, <2>2, <2>3, <2>4 DEF ArchiveReplied, RowIsGone, LogOutcome
<1>9. CASE ArchiveSucceeded(r)
  <2>1. Adds("turn.succeeded", r) /\ loc[r].path \in Planned
    BY <1>2, <1>4, <1>9 DEF ArchiveSucceeded, RowIsGone, LogOutcome, Outcomes, Successes, Carries
  <2>2. Raise(r) \/ Answer(r, 200)  BY <1>9 DEF ArchiveSucceeded, RowIsGone, LogOutcome
  <2>3. QED  BY <1>6, <1>7, <2>1, <2>2 DEF Successes
<1>10. CASE ArchiveSeeded(r)
  <2>1. Adds("template_seeded", r) /\ loc[r].path \in Planned
    BY <1>2, <1>4, <1>10 DEF ArchiveSeeded, RowIsGone, LogOutcome, Outcomes, Successes, Carries
  <2>2. Raise(r) \/ Answer(r, 200)  BY <1>10 DEF ArchiveSeeded, RowIsGone, LogOutcome
  <2>3. QED  BY <1>6, <1>7, <2>1, <2>2 DEF Successes
<1>11. QED  BY <1>8, <1>9, <1>10

LEMMA FailOwn ==
    ASSUME Typed, Carried, RowsInv, OwnTurns, NEW r \in Request,
           FailSelect(r) \/ FailCommit(r) \/ ArchiveFailed(r)
    PROVE  OwnTurn(r)'
<1>1. pc[r] \in {"fail", "fail_commit", "failed"}  BY DEF FailSelect, FailCommit, ArchiveFailed
<1>2. /\ pc \in [Request -> Labels] /\ loc \in [Request -> Local] /\ loc[r].code = 0
      /\ turns \in [Request -> Maybe(TurnRow)]
  BY <1>1, CarriedMoves DEF Typed, Handlers, Tables
<1>3. UNCHANGED archived => Silent(r)  BY <1>1, SilentSteps
<1>4. \A c : c # 409 /\ UNCHANGED <<turns, archived>> /\ Answer(r, c) => OwnTurn(r)'
  BY <1>1, <1>3, QuietOwn
<1>5. \A c : [Fresh EXCEPT !.code = c].code = c  BY DEF Fresh
<1>6. CASE FailSelect(r)
  <2>1. UNCHANGED <<turns, archived>>  BY <1>6 DEF FailSelect, tables
  <2>2. Goto(r, "fail_commit") /\ UNCHANGED loc => OwnTurn(r)'
    <3>1. "fail_commit" \notin During \cup Settled \cup {"failed"} /\ "fail_commit" \in After
      BY DEF During, Settled, After
    <3>2. QED  BY <1>1, <1>3, <2>1, <3>1, QuietOwn
  <2>3. QED  BY <1>4, <1>6, <2>1, <2>2 DEF FailSelect
<1>7. CASE FailCommit(r)
  <2>1. pc'[r] = "failed" /\ loc'[r].code = 0 /\ Silent(r)
    BY <1>2, <1>3, <1>7 DEF FailCommit, Goto
  <2>2. turns'[r] # Nothing => turns'[r].status = "failed"
    <3>1. turns[r] # Nothing => turns[r] \in TurnRow  BY <1>2 DEF Maybe
    <3>2. QED  BY <1>2, <1>7, <3>1 DEF FailCommit, TurnRow
  <2>3. turns'[r] # Nothing => turns[r] # Nothing /\ turns'[r].ir = turns[r].ir
    <3>1. turns[r] # Nothing => turns[r] \in TurnRow  BY <1>2 DEF Maybe
    <3>2. QED  BY <1>2, <1>7, <3>1 DEF FailCommit, TurnRow
  <2>4. pc[r] = "fail_commit"  BY <1>7 DEF FailCommit
  <2>5. {"fail_commit", "failed"} \subseteq After /\ "failed" \notin During \cup Settled
    BY DEF After, During, Settled
  <2>6. <<"turn.failed", r>> \notin archived'
    BY <2>1, <2>4 DEF OwnTurns, OwnTurn, Silent, Outcomes
  <2>7. \A e \in Successes : <<e, r>> \in archived' /\ turns'[r] # Nothing => turns'[r].ir = r
    BY <2>1, <2>3, <2>4 DEF OwnTurns, OwnTurn, Silent, Outcomes, Left
  <2>8. QED  BY <2>1, <2>2, <2>5, <2>6, <2>7 DEF OwnTurn, Left
<1>8. CASE ArchiveFailed(r)
  <2>1. UNCHANGED turns  BY <1>8 DEF ArchiveFailed, LogThenAnswer, tables
  <2>2. FailedCode(r) # 409  BY DEF FailedCode
  <2>3. ASSUME Log(r, "turn.failed") \/ UNCHANGED archived, NEW c, c # 409, Answer(r, c),
               turns[r] # Nothing
        PROVE  OwnTurn(r)'
    <3>1. pc'[r] = "done" /\ loc'[r] = [Fresh EXCEPT !.code = c]
      BY <1>2, <2>3 DEF Answer, Goto, Keep
    <3>2. loc'[r].code # 409  BY <1>5, <2>3, <3>1
    <3>3. turns[r].status = "failed" /\ pc[r] = "failed"
      BY <1>8, <2>3 DEF ArchiveFailed, OwnTurns, OwnTurn
    <3>4. \A e \in Successes : <<e, r>> \in archived' => <<e, r>> \in archived
      BY <2>3 DEF Log, Successes
    <3>5. \A e \in Successes : <<e, r>> \in archived' => turns[r].ir = r
      BY <2>3, <3>3, <3>4 DEF OwnTurns, OwnTurn, Left
    <3>6. "done" \in After /\ "done" \notin During \cup Settled \cup {"failed"}
      BY DEF After, During, Settled
    <3>7. QED  BY <2>1, <3>1, <3>2, <3>3, <3>5, <3>6 DEF OwnTurn, Left
  <2>4. CASE turns[r] # Nothing /\ loc[r].err # "rejected"
    BY <1>8, <2>2, <2>3, <2>4 DEF ArchiveFailed, LogThenAnswer, LogRaises
  <2>5. QED  BY <1>4, <1>8, <2>2, <2>4 DEF ArchiveFailed, tables
<1>9. QED  BY <1>6, <1>7, <1>8

LEMMA FinishOwn ==
    ASSUME Typed, Carried, RowsInv, OwnTurns, NEW r \in Request, FinishTurn(r)
    PROVE  OwnTurn(r)'
<1>1. CASE FinishSelect(r)
  <2>1. pc[r] = "finish" /\ turns' = turns /\ sess' = sess /\ archived' = archived
    BY <1>1 DEF FinishSelect, tables
  <2>2. Silent(r)  BY <2>1, SilentSteps
  <2>3. "finish" \in During /\ "commit" \in During  BY DEF During
  <2>4. QED  BY <1>1, <2>1, <2>2, <2>3, QuietOwn DEF FinishSelect
<1>2. QED  BY <1>1, CommitOwn, OutcomeOwn, FailOwn DEF FinishTurn

LEMMA OtherOwn ==
    ASSUME Typed, Carried, RowsInv, OwnTurns, NEW r \in Request, Other(r) PROVE OwnTurn(r)'
<1>1. pc[r] # "done"  BY StepsLeave DEF Step
<1>2. Silent(r)
  <2>1. \A e \in {"session.llm_config_set", "compile.produced", "artifact.downloaded",
                  "session.deleted"} : Log(r, e) \/ LogRaises(r, e) => Silent(r)
    BY SilentSteps DEF Events, Outcomes, Successes
  <2>2. UNCHANGED archived => Silent(r)  BY <1>1, SilentSteps
  <2>3. QED
    BY <2>1, <2>2 DEF Other, WriteConfig, ArchiveConfig, CreateArtifact, ArchiveCompile,
       MarkDownloaded, ArchiveDownload, DeleteRows, ArchiveDelete, LogThenAnswer
<1>3. CASE DeleteRows(r)
  <2>1. pc'[r] = "deleted" /\ turns'[r] = Nothing /\ sess' = Nothing
    BY <1>3 DEF DeleteRows, Goto, Typed, Handlers
  <2>2. \A e \in Outcomes : <<e, r>> \notin archived'
    <3>1. pc[r] \notin After  BY <1>3 DEF DeleteRows, After
    <3>2. QED  BY <1>1, <1>2, <3>1 DEF OwnTurns, OwnTurn, Silent, Outcomes
  <2>3. "deleted" \notin During \cup Settled \cup {"failed"}  BY DEF During, Settled
  <2>4. QED  BY <2>1, <2>2, <2>3 DEF OwnTurn, Outcomes
<1>4. CASE ~DeleteRows(r)
  <2>1. turns' = turns
    BY <1>4 DEF Other, WriteConfig, ArchiveConfig, CreateArtifact, ArchiveCompile,
       MarkDownloaded, ArchiveDownload, ArchiveDelete, LogThenAnswer, tables
  <2>2. \A c : c # 409 /\ Answer(r, c) => OwnTurn(r)'  BY <1>1, <1>2, <2>1, QuietOwn
  <2>3. \A label \in {"config_set", "produced", "downloaded"} :
          Goto(r, label) /\ UNCHANGED loc => OwnTurn(r)'
    <3>1. {"config_set", "produced", "downloaded"} \cap (During \cup Settled \cup {"failed"}) = {}
      BY DEF During, Settled
    <3>2. pc[r] \notin After
      BY DEF After, Other, WriteConfig, ArchiveConfig, CreateArtifact, ArchiveCompile,
         MarkDownloaded, ArchiveDownload, DeleteRows, ArchiveDelete
    <3>3. QED  BY <1>1, <1>2, <2>1, <3>1, <3>2, QuietOwn
  <2>4. QED
    BY <1>4, <2>2, <2>3 DEF Other, WriteConfig, ArchiveConfig, CreateArtifact, ArchiveCompile,
       MarkDownloaded, ArchiveDownload, ArchiveDelete, LogThenAnswer
<1>5. QED  BY <1>3, <1>4

LEMMA NextOwnTurns ==
    Typed /\ Origin /\ Carried /\ RowsInv /\ OwnTurns /\ [Next]_vars => OwnTurns'
<1> SUFFICES ASSUME Typed, Origin, Carried, RowsInv, OwnTurns, [Next]_vars PROVE OwnTurns'
  OBVIOUS
<1>1. ASSUME NEW r \in Request, Receive(r) \/ Step(r), NEW q \in Request PROVE OwnTurn(q)'
  <2>1. CASE q = r
    BY <1>1, <2>1, ReceiveOwn, CreateOwn, OpenOwn, RunOwn, FinishOwn, OtherOwn DEF Step
  <2>2. CASE q # r
    <3>1. pc'[q] = pc[q] /\ loc'[q] = loc[q]  BY <1>1, <2>2, StepMovesOne DEF OthersStay
    <3>2. \A e \in Outcomes : <<e, q>> \in archived' <=> <<e, q>> \in archived
      BY <1>1, <2>2, LogsOwn DEF Outcomes, Successes, Events
    <3>3. turns'[q] \in {turns[q], Nothing}  BY <1>1, <2>2, EveryStepOwnRow DEF OwnRow
    <3>4. pc[q] \in During /\ sess' # Nothing => sess # Nothing /\ turns'[q] = turns[q]
      <4>1. During \cap {"idle", "open", "done"} = {}  BY DEF During
      <4>2. QED  BY <1>1, <2>2, <4>1, RowsStay
    <3>5. OwnTurn(q)  BY DEF OwnTurns
    <3>6. CASE turns'[q] = turns[q]
      BY <3>1, <3>2, <3>4, <3>5, <3>6 DEF OwnTurn, Outcomes, Left
    <3>7. CASE turns'[q] = Nothing
      BY <3>1, <3>2, <3>4, <3>5, <3>7 DEF OwnTurn, Outcomes
    <3>8. QED  BY <3>3, <3>6, <3>7
  <2>3. QED  BY <2>1, <2>2
<1>2. CASE Crash
  <2>1. UNCHANGED <<sess, turns, archived>>  BY <1>2 DEF Crash, tables
  <2>2. \A q \in Request : /\ pc'[q] = IF pc[q] \in {"idle", "done"} THEN pc[q] ELSE "done"
                           /\ loc'[q] = IF pc[q] \in {"idle", "done"} THEN loc[q] ELSE Fresh
    BY <1>2 DEF Crash, InFlight
  <2>3. Fresh.code = 0  BY DEF Fresh
  <2>4. ASSUME NEW q \in Request PROVE OwnTurn(q)'
    <3>1. OwnTurn(q)  BY DEF OwnTurns
    <3>2. pc'[q] \in {"idle", "done"}  BY <2>2
    <3>3. {"idle", "done"} \cap (During \cup Settled \cup {"failed"}) = {}
      BY DEF During, Settled
    <3>4. loc'[q].code = 409 => loc[q].code = 409  BY <2>2, <2>3
    <3>5. pc[q] = "done" => pc'[q] = "done"  BY <2>2
    <3>6. pc[q] \in After => pc'[q] \in After  BY <2>2 DEF After
    <3>7. QED  BY <2>1, <3>1, <3>2, <3>3, <3>4, <3>5, <3>6 DEF OwnTurn, Left
  <2>5. QED  BY <2>4 DEF OwnTurns
<1>3. CASE UNCHANGED vars
  <2>1. UNCHANGED <<sess, turns, archived, pc, loc>>  BY <1>3 DEF vars, tables
  <2>2. \A r \in Request : OwnTurn(r) => OwnTurn(r)'  BY <2>1 DEF OwnTurn, AsOpened, Left
  <2>3. QED  BY <2>2 DEF OwnTurns
<1>4. QED  BY <1>1, <1>2, <1>3 DEF Next, AllServed, OwnTurns

LEMMA InitOwnTurns == Init => OwnTurns
<1> SUFFICES ASSUME Init, NEW r \in Request PROVE OwnTurn(r)
  BY DEF OwnTurns
<1>1. turns[r] = Nothing /\ archived = {} /\ pc[r] = "idle"  BY DEF Init
<1>2. "idle" \notin During \cup Settled  BY DEF During, Settled
<1>3. QED  BY <1>1, <1>2 DEF OwnTurn

LEMMA TurnsHold ==
    Spec => [](Typed /\ Origin /\ RowsInv /\ RevisionNamesContent /\ Carried /\ OwnTurns)
<1>1. Init => Carried /\ OwnTurns  BY InitCarried, InitOwnTurns
<1>2. Typed /\ Origin /\ RowsInv /\ Carried /\ OwnTurns /\ [Next]_vars => Carried' /\ OwnTurns'
  BY NextCarried, NextOwnTurns
<1>3. QED  BY <1>1, <1>2, RowsHold, RevisionsNameContent, PTL DEF Spec

\* An outcome of a turn that is in the archive was committed, and is in the row.
THEOREM ArchiveFollowsTurns == Spec => []ArchivedIsCommitted
<1>1. OwnTurns => ArchivedIsCommitted
  <2> SUFFICES ASSUME OwnTurns, NEW r \in Request, turns[r] # Nothing
               PROVE  /\ <<"turn.clarify_replied", r>> \in archived => Applied(turns[r])
                      /\ <<"turn.succeeded", r>> \in archived \/ <<"template_seeded", r>> \in archived
                           => turns[r].ir = r
                      /\ <<"turn.failed", r>> \in archived => turns[r].status = "failed"
    BY DEF ArchivedIsCommitted
  <2>1. r # Nothing  BY RequestAssumption
  <2>2. \A e \in Successes : <<e, r>> \in archived => Left(e, r)  BY DEF OwnTurns, OwnTurn
  <2>3. <<"turn.failed", r>> \in archived => turns[r].status = "failed"  BY DEF OwnTurns, OwnTurn
  <2>4. QED  BY <2>1, <2>2, <2>3 DEF Successes, Left, Applied
<1>2. QED  BY <1>1, TurnsHold, PTL

\* Of a turn that was answered 409 nothing is applied.
THEOREM ConflictIsClean == Spec => []ConflictAppliesNothing
<1>1. OwnTurns => ConflictAppliesNothing
  BY ZenonT(40) DEF OwnTurns, OwnTurn, ConflictAppliesNothing, Applied
<1>2. QED  BY <1>1, TurnsHold, PTL

-----------------------------------------------------------------------------
(* The session, its artifacts and the snapshots name recorded IRs. *)

\* The transactions that write the row of the session.
LEMMA SessionWriters ==
    ASSUME NEW r \in Request, Receive(r) \/ Step(r)
    PROVE  \/ UNCHANGED sess
           \/ CommitCreate(r) \/ SetPlanningContext(r)
           \/ FinishCommit(r) /\ FinishAccept(r)
           \/ WriteConfig(r) \/ CreateArtifact(r) \/ MarkDownloaded(r) \/ DeleteRows(r)
<1>1. Receive(r) => UNCHANGED sess
  BY DEF Receive, ReceiveCreate, ReceiveTurn, ReceiveConfig, ReceiveCompile, ReceiveDownload,
     ReceiveDelete, tables
<1>2. OpenTurn(r) \/ RunTurn(r) => UNCHANGED sess
  BY DEF OpenTurn, ListTurns, CreateTurnSelect, CreateTurnInsert, ArchiveStarted, RunTurn,
     RunEngine, ArchiveQuestionnaire, LogThenGoto, RunPlanner, tables
<1>3. FinishTurn(r) /\ ~(FinishCommit(r) /\ FinishAccept(r)) => UNCHANGED sess
  BY DEF FinishTurn, FinishSelect, FinishCommit, FinishConflict, ArchiveReplied, ArchiveSucceeded,
     ArchiveSeeded, FailSelect, FailCommit, ArchiveFailed, LogThenAnswer, tables
<1>4. Other(r) => UNCHANGED sess \/ WriteConfig(r) \/ CreateArtifact(r) \/ MarkDownloaded(r)
                    \/ DeleteRows(r)
  BY DEF Other, ArchiveConfig, ArchiveCompile, ArchiveDownload, ArchiveDelete, LogThenAnswer, tables
<1>5. QED  BY <1>1, <1>2, <1>3, <1>4 DEF Step, Create

LEMMA ArtifactWriters ==
    ASSUME NEW r \in Request, Receive(r) \/ Step(r)
    PROVE  UNCHANGED artifacts \/ CreateArtifact(r) \/ DeleteRows(r)
<1>1. Receive(r) => UNCHANGED artifacts
  BY DEF Receive, ReceiveCreate, ReceiveTurn, ReceiveConfig, ReceiveCompile, ReceiveDownload,
     ReceiveDelete, tables
<1>2. Create(r) \/ OpenTurn(r) \/ RunTurn(r) => UNCHANGED artifacts
  BY DEF Create, CommitCreate, SetPlanningContext, OpenTurn, ListTurns, CreateTurnSelect,
     CreateTurnInsert, ArchiveStarted, RunTurn, RunEngine, ArchiveQuestionnaire, LogThenGoto,
     RunPlanner, tables
<1>3. FinishTurn(r) => UNCHANGED artifacts
  BY DEF FinishTurn, FinishSelect, FinishCommit, ArchiveReplied, ArchiveSucceeded, ArchiveSeeded,
     FailSelect, FailCommit, ArchiveFailed, LogThenAnswer, tables
<1>4. Other(r) => UNCHANGED artifacts \/ CreateArtifact(r) \/ DeleteRows(r)
  BY DEF Other, WriteConfig, ArchiveConfig, ArchiveCompile, MarkDownloaded, ArchiveDownload,
     ArchiveDelete, LogThenAnswer, tables
<1>5. QED  BY <1>1, <1>2, <1>3, <1>4 DEF Step

\* Only a request for an artifact that is there gets as far as marking it.
LEMMA DownloadFinds ==
    ASSUME Typed, NEW r \in Request, Receive(r) \/ Step(r), pc'[r] = "download"
    PROVE  (\E a \in Request : artifacts[a] # Nothing) /\ UNCHANGED tables
<1>1. pc \in [Request -> Labels]  BY DEF Typed, Handlers
<1>2. \A label : Goto(r, label) => label = "download"  BY <1>1 DEF Goto
<1>3. ~Answer(r, 404) /\ ~Answer(r, 409) /\ ~Answer(r, 400) /\ ~Answer(r, 500)
  BY <1>2 DEF Answer
<1>4. CASE Receive(r)
  BY <1>2, <1>3, <1>4 DEF Receive, ReceiveCreate, ReceiveTurn, ReceiveConfig, ReceiveCompile,
     ReceiveDownload, ReceiveDelete
<1>5. CASE Step(r)
  <2>1. \A c : ~Answer(r, c)  BY <1>2 DEF Answer
  <2>2. ~Raise(r)  BY <1>2, <2>1 DEF Raise
  <2>3. ~Create(r)  BY <1>2, <2>1 DEF Create, CommitCreate, SetPlanningContext
  <2>4. ~OpenTurn(r)
    <3>1. ~ListTurns(r)  BY <1>2 DEF ListTurns
    <3>2. ~CreateTurnSelect(r)  BY <1>2, <2>1 DEF CreateTurnSelect
    <3>3. ~CreateTurnInsert(r)  BY <1>2 DEF CreateTurnInsert
    <3>4. ~ArchiveStarted(r)  BY <1>2, <2>1 DEF ArchiveStarted
    <3>5. QED  BY <3>1, <3>2, <3>3, <3>4 DEF OpenTurn
  <2>5. ~RunTurn(r)
    BY <1>2, <2>1 DEF RunTurn, RunEngine, ClarifySecret, ClarifyAgain, ClarifyStep,
       ArchiveQuestionnaire, LogThenGoto, RunPlanner, PlanAccepted, PlanFailed
  <2>6. ~FinishTurn(r)
    <3>1. ~FinishSelect(r) /\ ~FailSelect(r) /\ ~FailCommit(r)
      BY <1>2, <2>1, <2>2 DEF FinishSelect, FailSelect, FailCommit
    <3>2. ~FinishCommit(r)  BY <1>2, <2>1 DEF FinishCommit, FinishAccept, FinishConflict
    <3>3. ~ArchiveReplied(r) /\ ~ArchiveSucceeded(r) /\ ~ArchiveSeeded(r)
      BY <1>2, <2>1, <2>2 DEF ArchiveReplied, ArchiveSucceeded, ArchiveSeeded, RowIsGone, LogOutcome
    <3>4. ~ArchiveFailed(r)  BY <2>1 DEF ArchiveFailed, LogThenAnswer
    <3>5. QED  BY <3>1, <3>2, <3>3, <3>4 DEF FinishTurn
  <2>7. ~Other(r)
    BY <1>2, <2>1 DEF Other, WriteConfig, ArchiveConfig, CreateArtifact, ArchiveCompile,
       MarkDownloaded, ArchiveDownload, DeleteRows, ArchiveDelete, LogThenAnswer
  <2>8. QED  BY <1>5, <2>3, <2>4, <2>5, <2>6, <2>7 DEF Step
<1>6. QED  BY <1>4, <1>5

\* The turn that made this IR is there and says so.
Recorded(ir) == ir # Nothing => turns[ir] # Nothing /\ turns[ir].ir = ir

\* The same after a step.
StillRecorded(ir) == ir # Nothing => turns'[ir] # Nothing /\ turns'[ir].ir = ir

HasArtifact == \E a \in Request : artifacts[a] # Nothing
Exported == {"compiled", "downloaded"}

RowsAgree ==
    sess # Nothing =>
        /\ Recorded(sess.ir)
        /\ \A a \in Request : Recorded(artifacts[a])
        /\ sess.state = "init" => sess.ir = Nothing
        /\ sess.state \in Exported => HasArtifact
        /\ \A r \in Request : pc[r] = "download" => HasArtifact
        /\ \A r \in Request : loc[r].snap # Nothing =>
             /\ Recorded(loc[r].snap.ir)
             /\ loc[r].snap.state \in Exported => HasArtifact

\* While the session exists a recorded IR stays recorded, and an artifact stays.
LEMMA RecordsStay ==
    ASSUME Typed, Origin, RowsInv, Carried, OwnTurns, sess # Nothing, sess' # Nothing,
           NEW r \in Request, Receive(r) \/ Step(r)
    PROVE  /\ \A ir \in Token : Recorded(ir) => StillRecorded(ir)
           /\ HasArtifact => HasArtifact'
<1>1. turns \in [Request -> Maybe(TurnRow)] /\ artifacts \in [Request -> Token]
  BY DEF Typed, Tables
<1>2. ASSUME NEW ir \in Token, Recorded(ir), ir # Nothing
      PROVE  turns'[ir] # Nothing /\ turns'[ir].ir = ir
  <2>1. ir \in Request /\ turns[ir] # Nothing /\ turns[ir].ir = ir
    BY <1>2 DEF Recorded, Token, Maybe
  <2>2. CASE ir # r  BY <1>2, <2>1, <2>2, RowsStay
  <2>3. CASE ir = r
    <3>1. turns[r] \in TurnRow /\ turns[r].ir # Nothing  BY <1>1, <1>2, <2>1, <2>3 DEF Maybe
    <3>2. pc[r] \notin During \cup {"insert"}
      <4>1. OwnTurn(r)  BY DEF OwnTurns
      <4>2. pc[r] \notin During  BY <3>1, <4>1, <2>1, <2>3 DEF OwnTurn, AsOpened
      <4>3. QED  BY <2>1, <2>3, <4>2 DEF RowsInv
    <3>3. UNCHANGED turns \/ FailCommit(r)
      BY <3>2, TurnWriters DEF CreateTurnInsert, FinishCommit, DeleteRows, During
    <3>4. CASE FailCommit(r)
      <4>1. turns'[r] = [turns[r] EXCEPT !.status = "failed"]
        BY <1>1, <2>1, <2>3, <3>4 DEF FailCommit
      <4>2. turns'[r] \in TurnRow /\ turns'[r].ir = turns[r].ir  BY <3>1, <4>1 DEF TurnRow
      <4>3. QED  BY <2>1, <2>3, <4>2, NothingAssumption
    <3>5. QED  BY <2>1, <3>3, <3>4
  <2>4. QED  BY <2>2, <2>3
<1>3. HasArtifact => HasArtifact'
  <2>1. CASE UNCHANGED artifacts  BY <2>1 DEF HasArtifact
  <2>2. CASE CreateArtifact(r)
    <3>1. artifacts'[r] = loc[r].snap.ir  BY <1>1, <2>2 DEF CreateArtifact
    <3>2. loc[r].snap.ir # Nothing  BY <2>2 DEF CreateArtifact, Carried, Carries
    <3>3. QED  BY <3>1, <3>2 DEF HasArtifact
  <2>3. QED  BY <2>1, <2>2, ArtifactWriters DEF DeleteRows
<1>4. QED  BY <1>2, <1>3 DEF StillRecorded

\* A session comes to exist without an IR, and nobody has read or made anything.
LEMMA CreatedAgrees ==
    ASSUME Typed, Origin, NEW r \in Request, Receive(r) \/ Step(r),
           sess = Nothing, sess' # Nothing
    PROVE  RowsAgree'
<1>1. CommitCreate(r)
  BY SessionWriters
     DEF SetPlanningContext, FinishAccept, BaseIsCurrent, WriteConfig, CreateArtifact,
         MarkDownloaded, DeleteRows
<1>2. sess'.ir = Nothing /\ sess'.state \in {"init", "llm_config_set"}
  BY <1>1 DEF CommitCreate, NewSession
<1>3. \A q \in Request : /\ pc[q] \in {"idle", "open", "done"} /\ artifacts[q] = Nothing
                         /\ loc[q].snap = Nothing
  BY RowsStay
<1>4. UNCHANGED artifacts  BY <1>1 DEF CommitCreate
<1>5. \A q \in Request : loc'[q].snap = Nothing
  <2>1. SnapsKept  BY <1>1, SnapshotMoves DEF CommitCreate
  <2>2. QED  BY <1>3, <2>1 DEF SnapsKept
<1>6. \A q \in Request : pc'[q] # "download"
  <2>1. pc \in [Request -> Labels]  BY DEF Typed, Handlers
  <2>2. pc'[r] \in {"context", "done"}  BY <1>1, <2>1 DEF CommitCreate, Answer, Goto
  <2>3. \A q \in Request \ {r} : pc'[q] = pc[q]  BY StepMovesOne DEF OthersStay
  <2>4. QED  BY <1>3, <2>2, <2>3
<1>7. QED  BY <1>2, <1>3, <1>4, <1>5, <1>6 DEF RowsAgree, Recorded, Exported

\* A transaction on the session's row keeps what the row says of the others.
LEMMA SessionAgrees ==
    ASSUME Typed, Origin, RowsInv, Carried, OwnTurns, RowsAgree,
           NEW r \in Request, Receive(r) \/ Step(r), sess # Nothing, sess' # Nothing
    PROVE  /\ StillRecorded(sess'.ir)
           /\ sess'.state = "init" => sess'.ir = Nothing
           /\ sess'.state \in Exported => HasArtifact'
<1>1. /\ sess \in SessionRow /\ sess.ir \in Token
      /\ loc[r] \in Local /\ turns \in [Request -> Maybe(TurnRow)]
  BY Moves DEF Typed, Tables, Maybe, SessionRow
<1>2. /\ StillRecorded(sess.ir) /\ (HasArtifact => HasArtifact')
      /\ sess.state = "init" => sess.ir = Nothing
      /\ sess.state \in Exported => HasArtifact'
  BY <1>1, RecordsStay DEF RowsAgree
<1>3. CASE sess'.ir = sess.ir /\ (sess'.state = sess.state \/ sess'.state \notin Exported \cup {"init"})
  BY <1>2, <1>3
<1>4. CASE sess'.ir = sess.ir /\ sess'.state \in Exported /\ HasArtifact'
  <2>1. "init" \notin Exported  BY DEF Exported
  <2>2. QED  BY <1>2, <1>4, <2>1
<1>5. CASE SetPlanningContext(r)
  BY <1>1, <1>3, <1>5 DEF SetPlanningContext, SessionRow
<1>6. CASE FinishCommit(r) /\ FinishAccept(r)
  <2> DEFINE out == loc[r].out
  <2>1. OwnTurn(r) /\ Kept(r, loc[r]) /\ Held("commit", loc[r]) /\ pc[r] = "commit"
    BY <1>6 DEF OwnTurns, Carried, Typed, Handlers, FinishCommit
  <2>2. turns[r] \in TurnRow /\ turns[r] # Nothing /\ turns[r].status = "running"
    BY <1>1, <2>1 DEF OwnTurn, AsOpened, During, Maybe
  <2>3. out # Nothing /\ out \in Outcome /\ out.ir = IF out.kind = "plan" THEN r ELSE Nothing
    BY <1>1, <2>1 DEF Held, Kept, Local, Maybe
  <2>4. CASE out.kind = "plan"
    <3>1. sess'.ir = r /\ sess'.state = "validated"
      BY <1>1, <1>6, <2>3, <2>4 DEF FinishAccept, Accepted, SessionRow
    <3>2. turns'[r] = [turns[r] EXCEPT !.status = "succeeded", !.kind = out.kind,
                                       !.ir = out.ir, !.brief = out.brief]
      BY <1>1, <1>6, <2>2 DEF FinishAccept, UpdateTurn
    <3>3. turns'[r] \in TurnRow /\ turns'[r].ir = r
      <4>1. out.kind \in Kinds /\ out.ir \in Token /\ out.brief \in Token
        BY <2>3 DEF Outcome
      <4>2. [turns[r] EXCEPT !.status = "succeeded", !.kind = out.kind, !.ir = out.ir,
                             !.brief = out.brief] \in TurnRow
        BY <2>2, <4>1, TurnUpdates
      <4>3. turns'[r].ir = out.ir  BY <2>2, <3>2 DEF TurnRow
      <4>4. QED  BY <2>3, <2>4, <3>2, <4>2, <4>3
    <3>4. StillRecorded(sess'.ir)  BY <3>1, <3>3, NothingAssumption DEF StillRecorded
    <3>5. QED  BY <3>1, <3>4 DEF Exported
  <2>5. CASE out.kind # "plan"
    BY <1>1, <1>3, <1>6, <2>5 DEF FinishAccept, Accepted, SessionRow
  <2>6. QED  BY <2>4, <2>5
<1>7. CASE WriteConfig(r)
  <2>1. /\ sess'.ir = sess.ir /\ sess'.state = Configured(loc[r].snap.state)
        /\ loc[r].snap # Nothing
    BY <1>1, <1>7 DEF WriteConfig, SessionRow, Typed, Handlers, Held
  <2>2. loc[r].snap.state \in Exported => HasArtifact'
    BY <1>2, <2>1 DEF RowsAgree
  <2>3. QED  BY <1>2, <2>1, <2>2 DEF Configured, Exported
<1>8. CASE CreateArtifact(r)
  <2>1. sess'.ir = sess.ir /\ sess'.state = "compiled"
    BY <1>1, <1>8 DEF CreateArtifact, SessionRow
  <2>2. artifacts'[r] # Nothing
    <3>1. artifacts'[r] = loc[r].snap.ir  BY <1>8 DEF CreateArtifact, Typed, Tables
    <3>2. QED  BY <1>8, <3>1 DEF CreateArtifact, Carried, Carries
  <2>3. QED  BY <1>4, <2>1, <2>2 DEF Exported, HasArtifact
<1>9. CASE MarkDownloaded(r)
  <2>1. sess'.ir = sess.ir /\ sess'.state = "downloaded"
    BY <1>1, <1>9 DEF MarkDownloaded, SessionRow
  <2>2. HasArtifact'  BY <1>2, <1>9 DEF MarkDownloaded, RowsAgree
  <2>3. QED  BY <1>4, <2>1, <2>2 DEF Exported
<1>10. CASE UNCHANGED sess  BY <1>3, <1>10
<1>11. QED
  BY <1>5, <1>6, <1>7, <1>8, <1>9, <1>10, SessionWriters DEF CommitCreate, DeleteRows, Origin

LEMMA StepAgrees ==
    ASSUME Typed, Typed', Origin, RowsInv, Carried, OwnTurns, RowsAgree,
           NEW r \in Request, Receive(r) \/ Step(r)
    PROVE  RowsAgree'
<1> SUFFICES ASSUME sess # Nothing, sess' # Nothing PROVE RowsAgree'
  BY CreatedAgrees DEF RowsAgree
<1>1. \A ir \in Token : Recorded(ir) => StillRecorded(ir)  BY RecordsStay
<1>2. HasArtifact => HasArtifact'  BY RecordsStay
<1>3. ASSUME NEW a \in Request PROVE StillRecorded(artifacts'[a])
  <2>1. artifacts[a] \in Token /\ Recorded(artifacts[a])
    BY DEF Typed, Tables, RowsAgree
  <2>2. CASE artifacts'[a] = artifacts[a]  BY <1>1, <2>1, <2>2
  <2>3. CASE CreateArtifact(r) /\ a = r
    <3>1. artifacts'[r] = loc[r].snap.ir /\ loc[r].snap # Nothing
      BY <2>3 DEF CreateArtifact, Typed, Tables, Handlers, Held
    <3>2. loc[r].snap.ir \in Token
      BY <3>1 DEF Typed, Handlers, Local, Maybe, SessionRow
    <3>3. Recorded(loc[r].snap.ir)  BY <3>1 DEF RowsAgree
    <3>4. QED  BY <1>1, <2>3, <3>1, <3>2, <3>3
  <2>4. CreateArtifact(r) /\ a # r => artifacts'[a] = artifacts[a]
    BY DEF CreateArtifact, Typed, Tables
  <2>5. QED  BY <2>2, <2>3, <2>4, ArtifactWriters DEF DeleteRows
<1>4. ASSUME NEW q \in Request, pc'[q] = "download" PROVE HasArtifact'
  <2>1. CASE pc[q] = "download"  BY <1>2, <2>1 DEF RowsAgree
  <2>2. CASE pc[q] # "download"
    <3>1. q = r  BY <1>4, <2>2, StepMovesOne DEF OthersStay
    <3>2. QED  BY <1>2, <1>4, <3>1, DownloadFinds DEF HasArtifact
  <2>3. QED  BY <2>1, <2>2
<1>5. ASSUME NEW q \in Request, loc'[q].snap # Nothing
      PROVE  /\ StillRecorded(loc'[q].snap.ir)
             /\ loc'[q].snap.state \in Exported => HasArtifact'
  <2>1. RowEffect
    <3>1. Next  BY DEF Next
    <3>2. QED  BY <3>1, NextEffect
  <2>2. loc'[q].snap = loc[q].snap \/ loc'[q].snap = sess
    BY <1>5, <2>1 DEF RowEffect, Reading, Deleting, SameContent, NextRevision, Creating, SnapsKept
  <2>3. CASE loc'[q].snap = loc[q].snap
    <3>1. loc[q].snap.ir \in Token
      BY <1>5, <2>3 DEF Typed, Handlers, Local, Maybe, SessionRow
    <3>2. QED  BY <1>1, <1>2, <1>5, <2>3, <3>1 DEF RowsAgree
  <2>4. CASE loc'[q].snap = sess
    <3>1. sess.ir \in Token  BY DEF Typed, Tables, Maybe, SessionRow
    <3>2. QED  BY <1>1, <1>2, <2>4, <3>1 DEF RowsAgree
  <2>5. QED  BY <2>2, <2>3, <2>4
<1>6. QED  BY <1>3, <1>4, <1>5, SessionAgrees DEF RowsAgree, Recorded, StillRecorded

LEMMA NextRowsAgree ==
    Typed /\ Origin /\ RowsInv /\ Carried /\ OwnTurns /\ RowsAgree /\ [Next]_vars => RowsAgree'
<1> SUFFICES ASSUME Typed, Origin, RowsInv, Carried, OwnTurns, RowsAgree, [Next]_vars
             PROVE  RowsAgree'
  OBVIOUS
<1>1. CASE Crash
  <2>1. UNCHANGED tables /\ \A r \in Request : pc'[r] = "download" => pc[r] = "download"
    BY <1>1 DEF Crash, InFlight
  <2>2. \A r \in Request : loc'[r].snap \in {loc[r].snap, Nothing}
    BY <1>1 DEF Crash, Fresh
  <2>3. ASSUME NEW r \in Request, sess # Nothing, loc'[r].snap # Nothing
        PROVE  Recorded(loc'[r].snap.ir) /\ (loc'[r].snap.state \in Exported => HasArtifact)
    BY <2>2, <2>3 DEF RowsAgree
  <2>4. QED  BY <2>1, <2>3 DEF RowsAgree, Recorded, HasArtifact, tables
<1>2. CASE UNCHANGED vars
  BY <1>2 DEF vars, tables, RowsAgree, Recorded, HasArtifact
<1>3. QED  BY <1>1, <1>2, StepAgrees, NextTyped DEF Next, AllServed

LEMMA AgreementHolds == Spec => []RowsAgree
<1>1. Init => RowsAgree  BY DEF Init, RowsAgree
<1>2. QED  BY <1>1, NextRowsAgree, TurnsHold, PTL DEF Spec

\* The session's IR and every artifact's is the ir_after of a turn on record.
THEOREM EveryIRIsRecorded == Spec => []Provenance
<1>1. RowsAgree => Provenance  BY DEF RowsAgree, Recorded, Provenance
<1>2. QED  BY <1>1, AgreementHolds, PTL

\* The state column does not contradict the rows.
THEOREM StateIsTrue == Spec => []StateMatchesRows
<1>1. RowsAgree => StateMatchesRows
  BY DEF RowsAgree, HasArtifact, Exported, StateMatchesRows
<1>2. QED  BY <1>1, AgreementHolds, PTL

-----------------------------------------------------------------------------
(* Turns are opened in the order of their revisions. *)

\* The turns that have been given a created_at: by the SELECT of create_turn, and
\* in their row once that is inserted.
Opened(r) == pc[r] = "insert" \/ turns[r] # Nothing
Rev(r) == IF turns[r] # Nothing THEN turns[r].rev ELSE loc[r].rev
At(r) == IF turns[r] # Nothing THEN turns[r].at ELSE loc[r].at
Base(r) == IF turns[r] # Nothing THEN turns[r].irBefore ELSE loc[r].ir

InOrder ==
    /\ \A r \in Request : Opened(r) => /\ At(r) <= clock
                                       /\ sess # Nothing => Rev(r) <= sess.rev
    /\ \A q, r \in Request : Opened(q) /\ Opened(r) /\ Rev(q) < Rev(r) => At(q) < At(r)

LEMMA StampTypes ==
    ASSUME Typed, NEW r \in Request PROVE Rev(r) \in Nat /\ At(r) \in Nat
<1>1. loc[r] \in Local /\ (turns[r] # Nothing => turns[r] \in TurnRow)
  BY Moves DEF Typed, Tables, Maybe
<1>2. QED  BY <1>1 DEF Rev, At, Local, TurnRow

\* A handler that comes to the INSERT has just done the SELECT.
LEMMA SelectStamps ==
    ASSUME Typed, NEW r \in Request, Receive(r) \/ Step(r), pc'[r] = "insert"
    PROVE  /\ CreateTurnSelect(r) /\ sess # Nothing
           /\ clock' = clock + 1
           /\ loc'[r].rev = sess.rev /\ loc'[r].at = clock + 1
           /\ loc'[r].ir = IF sess.ir # Nothing THEN sess.ir ELSE CallerIR(r)
           /\ loc'[r].snap = loc[r].snap
           /\ loc[r].path # "seed" => loc[r].snap.rev = sess.rev
<1>1. pc \in [Request -> Labels] /\ loc \in [Request -> Local] /\ loc[r] \in Local
  BY Moves DEF Typed, Handlers
<1>2. \A label : Goto(r, label) => label = "insert"  BY <1>1 DEF Goto
<1>3. \A c : ~Answer(r, c)  BY <1>2 DEF Answer
<1>4. ~Raise(r)  BY <1>2, <1>3 DEF Raise
<1>5. ~Receive(r)
  BY ZenonT(40), <1>2, <1>3 DEF Receive, ReceiveCreate, ReceiveTurn, ReceiveConfig, ReceiveCompile,
     ReceiveDownload, ReceiveDelete
<1>6. ~Create(r)  BY <1>2, <1>3 DEF Create, CommitCreate, SetPlanningContext
<1>7. ~ListTurns(r) /\ ~CreateTurnInsert(r)  BY <1>2 DEF ListTurns, CreateTurnInsert
<1>8. ~ArchiveStarted(r)  BY <1>2, <1>3 DEF ArchiveStarted
<1>9. ~RunTurn(r)
  BY <1>2, <1>3 DEF RunTurn, RunEngine, ClarifySecret, ClarifyAgain, ClarifyStep,
     ArchiveQuestionnaire, LogThenGoto, RunPlanner, PlanAccepted, PlanFailed
<1>10. ~FinishTurn(r)
  <2>1. ~FinishSelect(r) /\ ~FailSelect(r) /\ ~FailCommit(r)
    BY <1>2, <1>3, <1>4 DEF FinishSelect, FailSelect, FailCommit
  <2>2. ~FinishCommit(r)  BY <1>2, <1>3 DEF FinishCommit, FinishAccept, FinishConflict
  <2>3. ~ArchiveReplied(r) /\ ~ArchiveSucceeded(r) /\ ~ArchiveSeeded(r)
    BY <1>2, <1>3, <1>4 DEF ArchiveReplied, ArchiveSucceeded, ArchiveSeeded, RowIsGone, LogOutcome
  <2>4. ~ArchiveFailed(r)  BY <1>3 DEF ArchiveFailed, LogThenAnswer
  <2>5. QED  BY <2>1, <2>2, <2>3, <2>4 DEF FinishTurn
<1>11. ~Other(r)
  BY <1>2, <1>3 DEF Other, WriteConfig, ArchiveConfig, CreateArtifact, ArchiveCompile,
     MarkDownloaded, ArchiveDownload, DeleteRows, ArchiveDelete, LogThenAnswer
<1>12. CreateTurnSelect(r)
  BY <1>5, <1>6, <1>7, <1>8, <1>9, <1>10, <1>11 DEF Step, OpenTurn
<1> DEFINE ir == IF sess.ir # Nothing THEN sess.ir ELSE CallerIR(r)
           l == [loc[r] EXCEPT !.rev = sess.rev, !.at = clock + 1, !.ir = ir]
<1>13. /\ sess # Nothing /\ ~RevisionMoved(r) /\ clock' = clock + 1 /\ Keep(r, l)
  BY <1>3, <1>12 DEF CreateTurnSelect
<1>14. loc'[r] = l  BY <1>1, <1>13 DEF Keep
<1>15. l.rev = sess.rev /\ l.at = clock + 1 /\ l.ir = ir /\ l.snap = loc[r].snap
  BY <1>1 DEF Local
<1>16. loc[r].path # "seed" => loc[r].snap.rev = sess.rev  BY <1>13 DEF RevisionMoved
<1> HIDE DEF l
<1>17. QED  BY <1>12, <1>13, <1>14, <1>15, <1>16

\* A row keeps its revision, its created_at and its ir_before.
LEMMA OwnStamps ==
    ASSUME Typed, RowsInv, NEW r \in Request, Receive(r) \/ Step(r), turns'[r] # Nothing
    PROVE  \/ /\ turns[r] # Nothing /\ turns'[r].rev = turns[r].rev /\ turns'[r].at = turns[r].at
              /\ turns'[r].irBefore = turns[r].irBefore
           \/ /\ CreateTurnInsert(r) /\ turns[r] = Nothing /\ pc[r] = "insert"
              /\ turns'[r].rev = loc[r].rev /\ turns'[r].at = loc[r].at
              /\ turns'[r].irBefore = loc[r].ir /\ turns'[r].kind # "brief_review"
<1>1. turns \in [Request -> Maybe(TurnRow)]  BY DEF Typed, Tables
<1>2. turns[r] # Nothing => turns[r] \in TurnRow  BY <1>1 DEF Maybe
<1>3. CASE UNCHANGED turns  BY <1>3
<1>4. CASE CreateTurnInsert(r)
  <2>1. turns'[r] = [status |-> "running",
                     kind |-> IF loc[r].path = "secret" THEN "clarify" ELSE "plan",
                     at |-> loc[r].at, rev |-> loc[r].rev, irBefore |-> loc[r].ir,
                     ir |-> Nothing, brief |-> Nothing]
    BY <1>1, <1>4 DEF CreateTurnInsert
  <2>2. /\ turns'[r].rev = loc[r].rev /\ turns'[r].at = loc[r].at
        /\ turns'[r].irBefore = loc[r].ir /\ turns'[r].kind # "brief_review"
    BY <2>1
  <2>3. turns[r] = Nothing /\ pc[r] = "insert"
    BY <1>4, CreateTurnInsertRow DEF CreateTurnInsert
  <2>4. QED  BY <1>4, <2>2, <2>3
<1>5. CASE FinishCommit(r)
  BY ZenonT(40), <1>1, <1>2, <1>5 DEF FinishCommit, FinishAccept, FinishConflict, UpdateTurn, TurnRow
<1>6. CASE FailCommit(r)  BY <1>1, <1>2, <1>6 DEF FailCommit, TurnRow
<1>7. QED  BY <1>3, <1>4, <1>5, <1>6, TurnWriters DEF DeleteRows

\* The turns open after a step were open before it with the same stamps, or have
\* just been given the session's revision and the next created_at.
LEMMA StampsStay ==
    ASSUME Typed, Typed', RowsInv, NEW r \in Request, Receive(r) \/ Step(r),
           NEW q \in Request, Opened(q)'
    PROVE  \/ Opened(q) /\ Rev(q)' = Rev(q) /\ At(q)' = At(q) /\ Base(q)' = Base(q)
           \/ /\ q = r /\ CreateTurnSelect(r) /\ sess # Nothing /\ clock' = clock + 1
              /\ Rev(q)' = sess.rev /\ At(q)' = clock + 1 /\ Base(q)' = loc'[q].ir
<1>1. CASE q # r
  <2>1. pc'[q] = pc[q] /\ loc'[q] = loc[q] /\ turns'[q] \in {turns[q], Nothing}
    BY <1>1, StepMovesOne, EveryStepOwnRow DEF OthersStay, OwnRow
  <2>2. CASE turns'[q] = turns[q]  BY <2>1, <2>2 DEF Opened, Rev, At, Base
  <2>3. CASE turns'[q] = Nothing
    <3>1. pc[q] = "insert"  BY <2>1, <2>3 DEF Opened
    <3>2. turns[q] = Nothing  BY <3>1 DEF RowsInv
    <3>3. QED  BY <2>1, <2>2, <2>3, <3>2
  <2>4. QED  BY <2>1, <2>2, <2>3
<1>2. CASE q = r /\ turns'[r] # Nothing
  BY <1>2, OwnStamps DEF Opened, Rev, At, Base
<1>3. CASE q = r /\ turns'[r] = Nothing
  <2>1. pc'[r] = "insert"  BY <1>3 DEF Opened
  <2>2. QED  BY <1>3, <2>1, SelectStamps DEF Rev, At, Base
<1>4. QED  BY <1>1, <1>2, <1>3

LEMMA StepInOrder ==
    ASSUME Typed, Typed', Origin, RowsInv, InOrder, NEW r \in Request, Receive(r) \/ Step(r)
    PROVE  InOrder'
<1>1. clock \in Nat /\ clock' \in Nat  BY DEF Typed, Tables
<1>2. ASSUME NEW q \in Request
      PROVE  Rev(q) \in Nat /\ At(q) \in Nat /\ Rev(q)' \in Nat /\ At(q)' \in Nat
  <2>1. loc'[q] \in Local /\ (turns'[q] # Nothing => turns'[q] \in TurnRow)
    BY DEF Typed, Handlers, Tables, Maybe
  <2>2. Rev(q)' \in Nat /\ At(q)' \in Nat  BY <2>1 DEF Rev, At, Local, TurnRow
  <2>3. QED  BY <2>2, StampTypes
<1>3. clock' = clock \/ clock' = clock + 1
  <2>1. Receive(r) => clock' = clock
    BY DEF Receive, ReceiveCreate, ReceiveTurn, ReceiveConfig, ReceiveCompile, ReceiveDownload,
       ReceiveDelete
  <2>2. Create(r) \/ OpenTurn(r) \/ RunTurn(r) => clock' = clock \/ clock' = clock + 1
    BY DEF Create, CommitCreate, SetPlanningContext, OpenTurn, ListTurns, CreateTurnSelect,
       CreateTurnInsert, ArchiveStarted, RunTurn, RunEngine, ArchiveQuestionnaire, LogThenGoto,
       RunPlanner
  <2>3. FinishTurn(r) => clock' = clock
    BY DEF FinishTurn, FinishSelect, FinishCommit, ArchiveReplied, ArchiveSucceeded,
       ArchiveSeeded, FailSelect, FailCommit, ArchiveFailed, LogThenAnswer
  <2>4. Other(r) => clock' = clock
    BY DEF Other, WriteConfig, ArchiveConfig, CreateArtifact, ArchiveCompile, MarkDownloaded,
       ArchiveDownload, DeleteRows, ArchiveDelete, LogThenAnswer
  <2>5. QED  BY <2>1, <2>2, <2>3, <2>4 DEF Step
<1>4. CreateTurnSelect(r) => sess' = sess  BY DEF CreateTurnSelect, tables
<1>5. RowEffect
  <2>1. Next  BY DEF Next
  <2>2. QED  BY <2>1, NextEffect
<1> DEFINE Stays(q) == Opened(q) /\ Rev(q)' = Rev(q) /\ At(q)' = At(q)
           New(q) == /\ q = r /\ CreateTurnSelect(r) /\ sess # Nothing /\ clock' = clock + 1
                     /\ Rev(q)' = sess.rev /\ At(q)' = clock + 1
<1>6. \A q \in Request : Opened(q)' => Stays(q) \/ New(q)  BY StampsStay
<1>7. ASSUME NEW q \in Request, Opened(q)'
      PROVE  At(q)' <= clock' /\ (sess' # Nothing => Rev(q)' <= sess'.rev)
  <2>1. CASE Stays(q)
    <3>1. At(q) <= clock  BY <2>1 DEF InOrder
    <3>2. ASSUME sess' # Nothing PROVE Rev(q) <= sess'.rev
      <4>1. CASE sess # Nothing /\ sess.rev \in Nat /\ sess'.rev \in Nat /\ sess.rev <= sess'.rev
        <5>1. Rev(q) <= sess.rev  BY <2>1, <4>1 DEF InOrder
        <5>2. QED  BY <1>2, <4>1, <5>1
      <4>2. CASE sess = Nothing
        <5>1. pc[q] # "insert" /\ turns[q] = Nothing  BY <3>2, <4>2, RowsStay
        <5>2. QED  BY <2>1, <5>1 DEF Opened
      <4>3. QED  BY <1>5, <3>2, <4>1, <4>2, RevisionGrows
    <3>3. QED  BY <1>1, <1>2, <1>3, <2>1, <3>1, <3>2
  <2>2. CASE New(q)
    <3>1. sess.rev \in Nat  BY <2>2 DEF Typed, Tables, Maybe, SessionRow
    <3>2. QED  BY <1>1, <1>4, <2>2, <3>1
  <2>3. QED  BY <1>6, <1>7, <2>1, <2>2
<1>8. ASSUME NEW p \in Request, NEW q \in Request, Opened(p)', Opened(q)', Rev(p)' < Rev(q)'
      PROVE  At(p)' < At(q)'
  <2>1. CASE Stays(p) /\ Stays(q)  BY <1>8, <2>1 DEF InOrder
  <2>2. CASE Stays(p) /\ New(q)
    <3>1. At(p) <= clock  BY <2>2 DEF InOrder
    <3>2. QED  BY <1>1, <1>2, <2>2, <3>1
  <2>3. CASE Stays(q) /\ New(p)
    <3>1. Rev(q) <= sess.rev /\ sess.rev \in Nat
      BY <2>3 DEF InOrder, Typed, Tables, Maybe, SessionRow
    <3>2. QED  BY <1>2, <1>8, <2>3, <3>1
  <2>4. CASE New(p) /\ New(q)
    <3>1. sess.rev \in Nat  BY <2>4 DEF Typed, Tables, Maybe, SessionRow
    <3>2. QED  BY <1>8, <2>4, <3>1
  <2>5. QED  BY <1>6, <1>8, <2>1, <2>2, <2>3, <2>4
<1>9. QED  BY <1>7, <1>8 DEF InOrder

LEMMA NextInOrder == Typed /\ Origin /\ RowsInv /\ InOrder /\ [Next]_vars => InOrder'
<1> SUFFICES ASSUME Typed, Origin, RowsInv, InOrder, [Next]_vars PROVE InOrder'
  OBVIOUS
<1>1. CASE Crash
  <2>1. UNCHANGED <<tables, clock>> /\ \A q \in Request : pc'[q] # "insert"
    BY <1>1 DEF Crash, InFlight
  <2>2. \A q \in Request : Opened(q)' => Opened(q) /\ Rev(q)' = Rev(q) /\ At(q)' = At(q)
    BY <2>1 DEF Opened, Rev, At, tables
  <2>3. QED  BY <2>1, <2>2 DEF InOrder, tables
<1>2. CASE UNCHANGED vars
  <2>1. \A q \in Request : /\ Opened(q)' = Opened(q)
                           /\ Rev(q)' = Rev(q) /\ At(q)' = At(q)
    BY <1>2 DEF vars, tables, Opened, Rev, At
  <2>2. QED  BY <1>2, <2>1 DEF vars, tables, InOrder
<1>3. QED  BY <1>1, <1>2, StepInOrder, NextTyped DEF Next, AllServed

LEMMA OrderHolds == Spec => []InOrder
<1>1. Init => InOrder  BY DEF Init, InOrder, Opened
<1>2. QED  BY <1>1, NextInOrder, TurnsHold, PTL DEF Spec

-----------------------------------------------------------------------------
(* The brief and the IR a turn is opened on. *)

OnBase ==
    sess # Nothing =>
        /\ \A r \in Request : Opened(r) /\ Rev(r) = sess.rev => Base(r) = sess.ir
        /\ \A r \in Request :
             turns[r] # Nothing /\ turns[r].kind = "brief_review" =>
                 /\ turns[r].rev < sess.rev
                 /\ IsLastTurn(r) => sess.brief = turns[r].brief /\ sess.brief # Nothing
        /\ \A r \in Request :
             /\ loc[r].snap # Nothing /\ loc[r].snap.rev = sess.rev
             /\ loc[r].last # Nothing /\ loc[r].last.kind = "brief_review"
             => sess.brief = loc[r].last.brief /\ sess.brief # Nothing

\* What the compare-and-swap finds of the handler that commits.
LEMMA CommitFinds ==
    ASSUME Typed, Carried, OwnTurns, NEW r \in Request, FinishCommit(r), FinishAccept(r)
    PROVE  /\ sess # Nothing /\ sess \in SessionRow /\ loc[r] \in Local /\ loc[r].rev = sess.rev
           /\ turns[r] \in TurnRow /\ turns[r] # Nothing /\ AsOpened(turns[r], loc[r])
           /\ turns'[r] = [turns[r] EXCEPT !.status = "succeeded", !.kind = loc[r].out.kind,
                                           !.ir = loc[r].out.ir, !.brief = loc[r].out.brief]
           /\ loc[r].out # Nothing /\ loc[r].out \in Outcome /\ Kept(r, loc[r])
           /\ loc[r].path # "seed" => loc[r].snap # Nothing /\ loc[r].snap.rev = sess.rev
<1>1. /\ sess # Nothing /\ sess \in SessionRow /\ loc[r] \in Local /\ loc[r].rev = sess.rev
      /\ pc[r] = "commit" /\ turns \in [Request -> Maybe(TurnRow)]
  BY Moves DEF FinishCommit, FinishAccept, BaseIsCurrent, Typed, Tables, Maybe
<1>2. OwnTurn(r) /\ Kept(r, loc[r]) /\ Carries("commit", loc[r]) /\ Held("commit", loc[r])
  BY <1>1 DEF OwnTurns, Carried, Typed, Handlers
<1>3. turns[r] # Nothing /\ AsOpened(turns[r], loc[r]) /\ turns[r] \in TurnRow
  BY <1>1, <1>2 DEF OwnTurn, During, Maybe
<1>4. turns'[r] = [turns[r] EXCEPT !.status = "succeeded", !.kind = loc[r].out.kind,
                                   !.ir = loc[r].out.ir, !.brief = loc[r].out.brief]
  BY <1>1, <1>3 DEF FinishAccept, UpdateTurn, AsOpened
<1>5. loc[r].out # Nothing /\ loc[r].out \in Outcome  BY <1>1, <1>2 DEF Held, Local, Maybe
<1>6. loc[r].path # "seed" => loc[r].snap # Nothing /\ loc[r].snap.rev = sess.rev
  BY <1>1, <1>2 DEF Carries, During
<1>7. QED  BY <1>1, <1>2, <1>3, <1>4, <1>5, <1>6

\* The turns on the session's revision have the session's IR as their ir_before.
LEMMA StepBase ==
    ASSUME Typed, Typed', Origin, RowsInv, RevisionNamesContent, InOrder, OnBase,
           NEW r \in Request, Receive(r) \/ Step(r), sess' # Nothing,
           NEW q \in Request, Opened(q)', Rev(q)' = sess'.rev
    PROVE  Base(q)' = sess'.ir
<1>1. RowEffect
  <2>1. Next  BY DEF Next
  <2>2. QED  BY <2>1, NextEffect
<1>2. CASE q = r /\ CreateTurnSelect(r) /\ sess # Nothing /\ Base(q)' = loc'[q].ir
  <2>1. sess' = sess  BY <1>2 DEF CreateTurnSelect, tables
  <2>2. pc[r] = "select" /\ turns'[r] = turns[r]
    BY <1>2 DEF CreateTurnSelect, tables
  <2>3. pc'[r] = "insert"  BY <1>2, <2>2 DEF RowsInv, Opened
  <2>4. loc[r].path # "seed" => loc[r].snap.ir = sess.ir
    <3>1. loc[r].path # "seed" => loc[r].snap # Nothing /\ loc[r].snap.rev = sess.rev
      BY <2>2, <2>3, SelectStamps DEF Typed, Handlers, Held
    <3>2. QED  BY <1>2, <3>1 DEF RevisionNamesContent, Planning
  <2>5. loc'[r].ir = sess.ir  BY <2>3, <2>4, SelectStamps DEF CallerIR
  <2>6. QED  BY <1>2, <2>1, <2>5
<1>3. CASE Opened(q) /\ Rev(q)' = Rev(q) /\ Base(q)' = Base(q)
  <2>1. sess # Nothing
    BY <1>3, RowsStay DEF Opened
  <2>2. Rev(q) \in Nat /\ sess.rev \in Nat /\ Rev(q) <= sess.rev
    BY <1>3, <2>1, StampTypes DEF InOrder, Typed, Tables, Maybe, SessionRow
  <2>3. Rev(q) = sess.rev => Base(q) = sess.ir  BY <1>3, <2>1 DEF OnBase
  <2>4. (sess'.rev = sess.rev /\ sess'.ir = sess.ir) \/ sess'.rev = sess.rev + 1
    BY <1>1, <2>1 DEF RowEffect, Reading, Deleting, SameContent, NextRevision, Creating, Origin,
       Planning
  <2>5. sess'.rev # sess.rev + 1  BY <1>3, <2>2
  <2>6. QED  BY <1>3, <2>3, <2>4, <2>5
<1>4. QED  BY <1>2, <1>3, StampsStay

\* While the session exists no row goes.
LEMMA RowsRemain ==
    ASSUME Typed, Origin, RowsInv, Carried, OwnTurns, NEW r \in Request, Receive(r) \/ Step(r),
           sess' # Nothing, turns[r] # Nothing
    PROVE  turns'[r] # Nothing
<1>1. turns \in [Request -> Maybe(TurnRow)] /\ turns[r] \in TurnRow  BY DEF Typed, Tables, Maybe
<1>2. \A row : row \in TurnRow => row # Nothing  BY NothingAssumption
<1>3. ~CreateTurnInsert(r) /\ ~DeleteRows(r)  BY CreateTurnInsertRow DEF DeleteRows
<1>4. CASE FailCommit(r)
  <2>1. turns'[r] = [turns[r] EXCEPT !.status = "failed"]  BY <1>1, <1>4 DEF FailCommit
  <2>2. QED  BY <1>1, <1>2, <2>1, TurnUpdates
<1>5. CASE FinishCommit(r) /\ FinishConflict(r)
  <2>1. turns'[r] \in {turns[r], [turns[r] EXCEPT !.status = "failed"]}
    BY <1>1, <1>5 DEF FinishConflict, UpdateTurn
  <2>2. QED  BY <1>1, <1>2, <2>1, TurnUpdates
<1>6. CASE FinishCommit(r) /\ FinishAccept(r)
  <2> DEFINE out == loc[r].out
  <2>1. turns'[r] = [turns[r] EXCEPT !.status = "succeeded", !.kind = out.kind, !.ir = out.ir,
                                     !.brief = out.brief]
    BY <1>6, CommitFinds
  <2>2. out.kind \in Kinds /\ out.ir \in Token /\ out.brief \in Token
    BY <1>6, CommitFinds DEF Outcome
  <2>3. [turns[r] EXCEPT !.status = "succeeded", !.kind = out.kind, !.ir = out.ir,
                         !.brief = out.brief] \in TurnRow
    BY <1>1, <2>2, TurnUpdates
  <2>4. QED  BY <1>2, <2>1, <2>3
<1>7. QED  BY <1>3, <1>4, <1>5, <1>6, TurnWriters DEF FinishCommit

\* The brief under review: a review that is the last turn is of the session's brief.
LEMMA StepReviews ==
    ASSUME Typed, Typed', Origin, RowsInv, Carried, OwnTurns, InOrder, OnBase,
           NEW r \in Request, Receive(r) \/ Step(r), sess # Nothing, sess' # Nothing,
           NEW q \in Request, turns'[q] # Nothing, turns'[q].kind = "brief_review"
    PROVE  /\ turns'[q].rev < sess'.rev
           /\ IsLastTurn(q)' => sess'.brief = turns'[q].brief /\ sess'.brief # Nothing
<1>1. sess \in SessionRow /\ sess.rev \in Nat /\ turns \in [Request -> Maybe(TurnRow)]
  BY DEF Typed, Tables, Maybe, SessionRow
<1>2. sess'.rev \in Nat /\ sess.rev <= sess'.rev
  <2>1. RowEffect
    <3>1. Next  BY DEF Next
    <3>2. QED  BY <3>1, NextEffect
  <2>2. QED  BY <2>1, RevisionGrows
<1>3. CASE FinishCommit(r) /\ FinishAccept(r) /\ q = r
  <2> DEFINE out == loc[r].out
  <2>1. turns'[r] = [turns[r] EXCEPT !.status = "succeeded", !.kind = out.kind, !.ir = out.ir,
                                     !.brief = out.brief]
    BY <1>3, CommitFinds
  <2>2. turns[r] \in TurnRow /\ turns[r].rev = sess.rev
    BY <1>3, CommitFinds DEF AsOpened
  <2>3. turns'[r].rev = sess.rev /\ turns'[r].kind = out.kind /\ turns'[r].brief = out.brief
    BY <2>1, <2>2 DEF TurnRow
  <2>4. sess'.rev = sess.rev + 1  BY <1>3, AcceptMovesOn
  <2>5. sess'.brief = out.brief
    BY <1>1, <1>3, <2>3 DEF FinishAccept, Accepted, SessionRow
  <2>6. out.brief # Nothing
    <3>1. out # Nothing /\ Kept(r, loc[r])  BY <1>3, CommitFinds
    <3>2. out.kind = "brief_review"  BY <1>3, <2>3
    <3>3. QED  BY <3>1, <3>2 DEF Kept
  <2>7. QED  BY <1>1, <1>3, <2>3, <2>4, <2>5, <2>6
<1>4. CASE ~(FinishCommit(r) /\ FinishAccept(r) /\ q = r)
  <2>1. /\ turns[q] # Nothing /\ turns'[q].rev = turns[q].rev
        /\ turns'[q].kind = turns[q].kind /\ turns'[q].brief = turns[q].brief
    <3>1. CASE q # r  BY <3>1, RowsStay
    <3>2. CASE q = r
      <4>1. turns[r] # Nothing  BY <3>2, OwnStamps
      <4>2. turns[r] \in TurnRow  BY <1>1, <4>1 DEF Maybe
      <4>3. ~CreateTurnInsert(r)  BY <4>1, CreateTurnInsertRow
      <4>4. FinishCommit(r) => FinishConflict(r)  BY <1>4, <3>2 DEF FinishCommit
      <4>5. turns'[r] = turns[r] \/ turns'[r] = [turns[r] EXCEPT !.status = "failed"]
        BY <1>1, <4>3, <4>4, TurnWriters DEF FinishConflict, UpdateTurn, FailCommit, DeleteRows
      <4>6. QED  BY <3>2, <4>1, <4>2, <4>5 DEF TurnRow
    <3>3. QED  BY <3>1, <3>2
  <2>2. turns[q].rev \in Nat /\ turns[q].rev < sess.rev
    BY <1>1, <2>1 DEF OnBase, Maybe, TurnRow
  <2>3. turns'[q].rev < sess'.rev  BY <1>1, <1>2, <2>1, <2>2
  <2>4. ASSUME IsLastTurn(q)' PROVE IsLastTurn(q)
    <3>1. ASSUME NEW p \in Request, turns[p] # Nothing
          PROVE  turns'[p] # Nothing /\ turns'[p].at = turns[p].at
      <4>1. CASE p # r  BY <3>1, <4>1, RowsStay
      <4>2. CASE p = r
        <5>1. turns'[r] # Nothing  BY <3>1, <4>2, RowsRemain
        <5>2. turns'[r].at = turns[r].at  BY <3>1, <4>2, <5>1, OwnStamps
        <5>3. QED  BY <4>2, <5>1, <5>2
      <4>3. QED  BY <4>1, <4>2
    <3>2. QED  BY <2>1, <2>4, <3>1 DEF IsLastTurn
  <2>5. IsLastTurn(q)' => sess.brief = turns[q].brief /\ sess.brief # Nothing
    BY <2>1, <2>4 DEF OnBase
  <2>6. ASSUME IsLastTurn(q)' PROVE sess'.brief = sess.brief
    <3>1. CASE FinishCommit(r) /\ FinishAccept(r)
      <4>1. q # r  BY <1>4, <3>1
      <4>2. turns[r] # Nothing /\ turns[r] \in TurnRow /\ turns[r].rev = sess.rev
        BY <3>1, CommitFinds DEF AsOpened
      <4>3. turns[q].at < turns[r].at
        BY <2>1, <2>2, <4>2 DEF InOrder, Opened, Rev, At
      <4>4. turns[r].at <= turns[q].at  BY <2>4, <2>6, <4>2 DEF IsLastTurn
      <4>5. QED  BY <1>1, <2>1, <4>2, <4>3, <4>4 DEF Maybe, TurnRow
    <3>2. CASE ~(FinishCommit(r) /\ FinishAccept(r))
      BY <1>1, <3>2, SessionWriters
         DEF SetPlanningContext, WriteConfig, CreateArtifact, MarkDownloaded, DeleteRows,
             CommitCreate, Origin, SessionRow
    <3>3. QED  BY <3>1, <3>2
  <2>7. QED  BY <2>1, <2>3, <2>5, <2>6
<1>5. QED  BY <1>3, <1>4

\* A handler that has read the last turn keeps it with its snapshot.
LEMMA LastMoves ==
    ASSUME Typed, NEW r \in Request, Receive(r) \/ Step(r), loc'[r].last # Nothing
    PROVE  /\ loc'[r].snap = loc[r].snap
           /\ \/ loc'[r].last = loc[r].last
              \/ \E q \in Request : /\ IsLastTurn(q) /\ UNCHANGED sess
                                    /\ loc'[r].last.kind = turns[q].kind
                                    /\ loc'[r].last.brief = turns[q].brief
<1>1. loc \in [Request -> Local] /\ loc[r] \in Local  BY Moves DEF Typed, Handlers
<1> DEFINE Same == loc'[r].last = loc[r].last /\ loc'[r].snap = loc[r].snap
<1>2. UNCHANGED loc => Same  OBVIOUS
<1>3. \A l : Keep(r, l) => loc'[r] = l  BY <1>1 DEF Keep
<1>4. \A l : Keep(r, l) /\ l.last = loc[r].last /\ l.snap = loc[r].snap => Same  BY <1>3
<1>5. \A l : Keep(r, l) => l.last # Nothing  BY <1>3
<1>6. \A c : ~Answer(r, c)
  <2>1. \A c : [Fresh EXCEPT !.code = c].last = Nothing  BY DEF Fresh
  <2>2. QED  BY <1>5, <2>1 DEF Answer
<1>7. Raise(r) => Same
  <2>1. [loc[r] EXCEPT !.err = "error"].last = loc[r].last
        /\ [loc[r] EXCEPT !.err = "error"].snap = loc[r].snap
    BY <1>1 DEF Local
  <2>2. QED  BY <1>4, <1>6, <2>1 DEF Raise
<1>8. \A kind, ir, brief, round : Propose(r, kind, ir, brief, round) => Same
  <2>1. \A out : /\ [loc[r] EXCEPT !.out = out].last = loc[r].last
                 /\ [loc[r] EXCEPT !.out = out].snap = loc[r].snap
    BY <1>1 DEF Local
  <2>2. QED  BY <1>4, <2>1 DEF Propose
<1> HIDE DEF Same
<1>9. CASE Receive(r)
  <2>1. /\ \A p : [Fresh EXCEPT !.path = p].last = Nothing
        /\ [Fresh EXCEPT !.snap = sess].last = Nothing
    BY DEF Fresh
  <2>2. ~ReceiveCreate(r)  BY <1>5, <1>6, <2>1 DEF ReceiveCreate
  <2>3. ASSUME NEW m, ReceiveTurn(r, m) PROVE FALSE
    <3> DEFINE path == IF "secret" \in m THEN "secret" ELSE "turn"
               l == [Fresh EXCEPT !.path = path, !.msg = m, !.snap = sess]
    <3>1. Keep(r, l)  BY <1>6, <2>3 DEF ReceiveTurn
    <3>2. l.last = Nothing  BY DEF Fresh
    <3> HIDE DEF l
    <3>3. QED  BY <1>5, <3>1, <3>2
  <2>4. ~ReceiveConfig(r) /\ ~ReceiveCompile(r)
    BY <1>5, <1>6, <2>1 DEF ReceiveConfig, ReceiveCompile
  <2>5. ReceiveDownload(r) \/ ReceiveDelete(r) => Same
    BY <1>2, <1>6 DEF ReceiveDownload, ReceiveDelete
  <2>6. QED  BY <1>9, <2>2, <2>3, <2>4, <2>5 DEF Receive, Same
<1>10. CASE Create(r)
  <2>1. CommitCreate(r) => Same  BY <1>2, <1>6 DEF CommitCreate
  <2>2. CASE SetPlanningContext(r)
    <3> DEFINE out == [kind |-> "plan", ir |-> r, brief |-> Nothing, round |-> 0]
    <3>1. Keep(r, [loc[r] EXCEPT !.out = out])  BY <1>6, <2>2 DEF SetPlanningContext
    <3>2. \A o : /\ [loc[r] EXCEPT !.out = o].last = loc[r].last
                 /\ [loc[r] EXCEPT !.out = o].snap = loc[r].snap
      BY <1>1 DEF Local
    <3> HIDE DEF out
    <3>3. QED  BY <1>4, <3>1, <3>2 DEF Same
  <2>3. QED  BY <1>10, <2>1, <2>2 DEF Create, Same
<1>11. CASE ListTurns(r)
  <2>1. CASE UNCHANGED loc  BY <2>1
  <2>2. ASSUME NEW q \in Request, IsLastTurn(q),
               Keep(r, [loc[r] EXCEPT !.last = [kind |-> turns[q].kind, brief |-> turns[q].brief,
                                                asked |-> Asked(turns[q])]])
        PROVE  /\ loc'[r].snap = loc[r].snap
               /\ loc'[r].last.kind = turns[q].kind /\ loc'[r].last.brief = turns[q].brief
    <3> DEFINE last == [kind |-> turns[q].kind, brief |-> turns[q].brief, asked |-> Asked(turns[q])]
    <3>1. last.kind = turns[q].kind /\ last.brief = turns[q].brief  OBVIOUS
    <3>2. loc'[r] = [loc[r] EXCEPT !.last = last]  BY <1>3, <2>2
    <3> HIDE DEF last
    <3>3. loc'[r].last = last /\ loc'[r].snap = loc[r].snap  BY <1>1, <3>2 DEF Local
    <3>4. QED  BY <3>1, <3>3
  <2>3. UNCHANGED sess  BY <1>11 DEF ListTurns, tables
  <2>4. QED  BY <1>11, <2>1, <2>2, <2>3 DEF ListTurns
<1>12. CASE CreateTurnSelect(r)
  <2> DEFINE ir == IF sess.ir # Nothing THEN sess.ir ELSE CallerIR(r)
             l == [loc[r] EXCEPT !.rev = sess.rev, !.at = clock + 1, !.ir = ir]
  <2>1. l.last = loc[r].last /\ l.snap = loc[r].snap  BY <1>1 DEF Local
  <2>2. Keep(r, l)  BY <1>6, <1>12 DEF CreateTurnSelect
  <2> HIDE DEF l
  <2>3. QED  BY <1>4, <2>1, <2>2 DEF Same
<1>13. CASE CreateTurnInsert(r)  BY <1>2, <1>13 DEF CreateTurnInsert, Same
<1>14. CASE ArchiveStarted(r)
  <2>1. \A p : /\ [loc[r] EXCEPT !.path = p].last = loc[r].last
               /\ [loc[r] EXCEPT !.path = p].snap = loc[r].snap
    BY <1>1 DEF Local
  <2>2. QED  BY <1>4, <1>6, <1>14, <2>1 DEF ArchiveStarted, Same
<1>15. CASE RunTurn(r)
  <2>1. RunEngine(r) => Same
    BY <1>6, <1>8 DEF RunEngine, ClarifySecret, ClarifyAgain, ClarifyStep
  <2>2. ArchiveQuestionnaire(r) => Same  BY <1>2, <1>6 DEF ArchiveQuestionnaire, LogThenGoto
  <2>3. CASE RunPlanner(r)
    <3>1. \A e : /\ [loc[r] EXCEPT !.err = e].last = loc[r].last
                 /\ [loc[r] EXCEPT !.err = e].snap = loc[r].snap
      BY <1>1 DEF Local
    <3>2. Same  BY <1>4, <1>8, <2>3, <3>1 DEF RunPlanner, PlanAccepted, PlanFailed
    <3>3. QED  BY <3>2 DEF Same
  <2>4. QED  BY <1>15, <2>1, <2>2, <2>3 DEF RunTurn, Same
<1>16. CASE FinishTurn(r)
  <2>1. FinishSelect(r) => Same  BY <1>2, <1>7 DEF FinishSelect
  <2>2. FinishCommit(r) => Same  BY <1>2, <1>6 DEF FinishCommit, FinishAccept, FinishConflict
  <2>3. ArchiveReplied(r) \/ ArchiveSucceeded(r) \/ ArchiveSeeded(r) => Same
    BY <1>2, <1>6, <1>7 DEF ArchiveReplied, ArchiveSucceeded, ArchiveSeeded, RowIsGone, LogOutcome
  <2>4. FailSelect(r) \/ FailCommit(r) \/ ArchiveFailed(r) => Same
    BY <1>2, <1>6 DEF FailSelect, FailCommit, ArchiveFailed, LogThenAnswer
  <2>5. QED  BY <1>16, <2>1, <2>2, <2>3, <2>4 DEF FinishTurn, Same
<1>17. CASE Other(r)
  BY <1>2, <1>6, <1>17 DEF Other, WriteConfig, ArchiveConfig, CreateArtifact, ArchiveCompile,
     MarkDownloaded, ArchiveDownload, DeleteRows, ArchiveDelete, LogThenAnswer, Same
<1>18. QED
  BY <1>9, <1>10, <1>11, <1>12, <1>13, <1>14, <1>15, <1>16, <1>17 DEF Step, OpenTurn

\* Whoever has read a review as the last turn, and finds the revision unmoved, has
\* read the session's brief.
LEMMA StepLast ==
    ASSUME Typed, Typed', Origin, RowsInv, RevisionNamesContent, OnBase,
           NEW r \in Request, Receive(r) \/ Step(r), sess' # Nothing,
           NEW p \in Request, loc'[p].snap # Nothing, loc'[p].snap.rev = sess'.rev,
           loc'[p].last # Nothing, loc'[p].last.kind = "brief_review"
    PROVE  sess'.brief = loc'[p].last.brief /\ sess'.brief # Nothing
<1>1. RowEffect
  <2>1. Next  BY DEF Next
  <2>2. QED  BY <2>1, NextEffect
<1>2. loc'[p].snap = loc[p].snap
  BY LastMoves, StepMovesOne DEF OthersStay
<1>3. sess # Nothing
  BY <1>2, RowsStay
<1>4. CASE loc'[p].last = loc[p].last
  <2>1. loc[p].snap.rev \in Nat /\ sess.rev \in Nat /\ loc[p].snap.rev <= sess.rev
    BY <1>2, <1>3 DEF RevisionNamesContent, Typed, Tables, Handlers, Local, Maybe, SessionRow
  <2>2. loc[p].snap.rev = sess.rev => sess.brief = loc[p].last.brief /\ sess.brief # Nothing
    BY <1>2, <1>3, <1>4 DEF OnBase
  <2>3. (sess'.rev = sess.rev /\ sess'.brief = sess.brief) \/ sess'.rev = sess.rev + 1
    BY <1>1, <1>3 DEF RowEffect, Reading, Deleting, SameContent, NextRevision, Creating, Origin,
       Planning
  <2>4. sess'.rev # sess.rev + 1  BY <1>2, <2>1
  <2>5. QED  BY <1>2, <1>4, <2>2, <2>3, <2>4
<1>5. ASSUME NEW q \in Request, IsLastTurn(q), UNCHANGED sess,
             loc'[p].last.kind = turns[q].kind, loc'[p].last.brief = turns[q].brief
      PROVE  sess'.brief = loc'[p].last.brief /\ sess'.brief # Nothing
  <2>1. turns[q] # Nothing  BY <1>5 DEF IsLastTurn
  <2>2. QED  BY <1>3, <1>5, <2>1 DEF OnBase
<1>6. QED  BY <1>4, <1>5, LastMoves, StepMovesOne DEF OthersStay

\* When a session comes to exist nobody has read or opened anything.
LEMMA CreatedOnBase ==
    ASSUME Typed, Typed', Origin, RowsInv, RevisionNamesContent, InOrder, OnBase,
           NEW r \in Request, Receive(r) \/ Step(r), sess = Nothing, sess' # Nothing
    PROVE  \A q \in Request : turns'[q] = Nothing
<1>1. \A q \in Request : pc[q] \in {"idle", "open", "done"} /\ turns[q] = Nothing  BY RowsStay
<1>2. ~CreateTurnInsert(r) /\ ~FinishCommit(r) /\ ~FailCommit(r)
  BY <1>1 DEF CreateTurnInsert, FinishCommit, FailCommit
<1>3. UNCHANGED turns  BY <1>2, TurnWriters DEF DeleteRows
<1>4. QED  BY <1>1, <1>3

LEMMA StepOnBase ==
    ASSUME Typed, Typed', Origin, RowsInv, RevisionNamesContent, Carried, OwnTurns, InOrder, OnBase,
           NEW r \in Request, Receive(r) \/ Step(r)
    PROVE  OnBase'
<1> SUFFICES ASSUME sess' # Nothing PROVE OnBase'
  BY DEF OnBase
<1>1. \A q \in Request : Opened(q)' /\ Rev(q)' = sess'.rev => Base(q)' = sess'.ir
  BY StepBase
<1>2. ASSUME NEW q \in Request, turns'[q] # Nothing, turns'[q].kind = "brief_review"
      PROVE  /\ turns'[q].rev < sess'.rev
             /\ IsLastTurn(q)' => sess'.brief = turns'[q].brief /\ sess'.brief # Nothing
  <2>1. sess # Nothing  BY <1>2, CreatedOnBase
  <2>2. QED  BY <1>2, <2>1, StepReviews
<1>3. QED  BY <1>1, <1>2, StepLast DEF OnBase

LEMMA NextOnBase ==
    /\ Typed /\ Origin /\ RowsInv /\ RevisionNamesContent /\ Carried /\ OwnTurns
    /\ InOrder /\ OnBase /\ [Next]_vars
    => OnBase'
<1> SUFFICES ASSUME Typed, Origin, RowsInv, RevisionNamesContent, Carried, OwnTurns, InOrder,
                    OnBase, [Next]_vars
             PROVE  OnBase'
  OBVIOUS
<1>1. CASE Crash
  <2>1. UNCHANGED <<sess, turns>> /\ \A q \in Request : pc'[q] # "insert"
    BY <1>1 DEF Crash, InFlight, tables
  <2>2. \A q \in Request : Opened(q)' => Opened(q) /\ Rev(q)' = Rev(q) /\ Base(q)' = Base(q)
    BY <2>1 DEF Opened, Rev, Base
  <2>3. \A q \in Request : loc'[q] = loc[q] \/ loc'[q].last = Nothing
    BY <1>1 DEF Crash, Fresh
  <2>4. \A q \in Request : IsLastTurn(q)' = IsLastTurn(q)  BY <2>1 DEF IsLastTurn
  <2>5. QED  BY <2>1, <2>2, <2>3, <2>4 DEF OnBase
<1>2. CASE UNCHANGED vars
  <2>1. \A q \in Request : /\ Opened(q)' = Opened(q) /\ Rev(q)' = Rev(q) /\ Base(q)' = Base(q)
                           /\ IsLastTurn(q)' = IsLastTurn(q)
    BY <1>2 DEF vars, tables, Opened, Rev, Base, IsLastTurn
  <2>2. QED  BY <1>2, <2>1 DEF vars, tables, OnBase
<1>3. QED  BY <1>1, <1>2, StepOnBase, NextTyped DEF Next, AllServed

LEMMA HistoryHolds ==
    Spec => [](Typed /\ Origin /\ RowsInv /\ RevisionNamesContent /\ Carried /\ OwnTurns
               /\ InOrder /\ OnBase)
<1>1. Init => OnBase  BY DEF Init, OnBase
<1>2. QED  BY <1>1, NextOnBase, TurnsHold, OrderHolds, PTL DEF Spec

-----------------------------------------------------------------------------
(* What a commit is computed from. *)

\* A step that gives the session another IR is the commit of the turn it names.
LEMMA NewIRCommits ==
    ASSUME Typed, Origin, Carried, OwnTurns, [Next]_vars, sess # Nothing, sess' # Nothing,
           sess'.ir # sess.ir, sess'.ir \in Request
    PROVE  FinishCommit(sess'.ir) /\ FinishAccept(sess'.ir)
<1>1. sess \in SessionRow  BY DEF Typed, Tables, Maybe
<1>2. PICK r \in Request : Receive(r) \/ Step(r)
  BY DEF Next, AllServed, Crash, vars, tables
<1>3. FinishCommit(r) /\ FinishAccept(r)
  <2>1. ~CommitCreate(r)  BY DEF CommitCreate, Origin
  <2>2. QED
    BY <1>1, <1>2, <2>1, SessionWriters
       DEF SetPlanningContext, WriteConfig, CreateArtifact, MarkDownloaded, DeleteRows, SessionRow
<1>4. loc[r].out \in Outcome /\ Kept(r, loc[r]) /\ loc[r].out # Nothing
  BY <1>3, CommitFinds
<1>5. sess'.ir = loc[r].out.ir /\ loc[r].out.kind = "plan"
  BY <1>1, <1>3, <1>4 DEF FinishAccept, Accepted, SessionRow
<1>6. sess'.ir = r  BY <1>4, <1>5 DEF Kept
<1>7. QED  BY <1>3, <1>6

\* An IR replaces only the IR it was computed from.
THEOREM EditsChainTogether == Spec => EditsChain
<1>1. ASSUME Typed, Origin, RevisionNamesContent, Carried, OwnTurns, OnBase, [Next]_vars,
             NEW r \in Request, sess # Nothing, sess' # Nothing, sess'.ir = r, sess.ir # r
      PROVE  /\ turns[r].irBefore = sess.ir
             /\ loc[r].path # "seed" => loc[r].snap.ir = sess.ir
  <2>1. FinishCommit(r) /\ FinishAccept(r)  BY <1>1, NewIRCommits
  <2>2. /\ turns[r] # Nothing /\ turns[r].rev = sess.rev
        /\ loc[r].path # "seed" => loc[r].snap # Nothing /\ loc[r].snap.rev = sess.rev
    BY <1>1, <2>1, CommitFinds DEF AsOpened
  <2>3. turns[r].irBefore = sess.ir  BY <1>1, <2>2 DEF OnBase, Opened, Rev, Base
  <2>4. loc[r].path # "seed" => loc[r].snap.ir = sess.ir
    BY <1>1, <2>2 DEF RevisionNamesContent, Planning
  <2>5. QED  BY <2>3, <2>4
<1>2. /\ Typed /\ Origin /\ RowsInv /\ RevisionNamesContent /\ Carried /\ OwnTurns /\ InOrder /\ OnBase
      /\ [Next]_vars
      => [\A r \in Request :
            sess # Nothing /\ sess' # Nothing /\ sess'.ir = r /\ sess.ir # r =>
                /\ turns[r].irBefore = sess.ir
                /\ loc[r].path # "seed" => loc[r].snap.ir = sess.ir]_vars
  BY <1>1
<1>3. QED  BY <1>2, HistoryHolds, PTL DEF Spec, EditsChain

\* A confirmed plan is committed on the brief the user was shown.
THEOREM PlansAreConfirmed == Spec => PlansTheReviewedBrief
<1>1. ASSUME Typed, RevisionNamesContent, Carried, OwnTurns, OnBase, [Next]_vars,
             NEW r \in Request, pc[r] = "commit", pc'[r] = "replied", loc[r].path = "confirm"
      PROVE  /\ loc[r].out.brief = sess.brief
             /\ loc[r].out.brief = loc[r].last.brief
  <2>1. pc \in [Request -> Labels]  BY <1>1 DEF Typed, Handlers
  <2>2. Receive(r) \/ Step(r)
    <3>1. ~Crash /\ ~UNCHANGED vars  BY <1>1, <2>1 DEF Crash, InFlight, vars
    <3>2. PICK q \in Request : Receive(q) \/ Step(q)
      BY <1>1, <3>1 DEF Next, AllServed
    <3>3. q = r  BY <1>1, <3>2, StepMovesOne DEF OthersStay
    <3>4. QED  BY <3>2, <3>3
  <2>3. FinishCommit(r) /\ FinishAccept(r)
    <3>1. FinishCommit(r)
      BY <1>1, <2>2 DEF Receive, ReceiveCreate, ReceiveTurn, ReceiveConfig, ReceiveCompile,
         ReceiveDownload, ReceiveDelete, Step, Create, CommitCreate, SetPlanningContext, OpenTurn,
         ListTurns, CreateTurnSelect, CreateTurnInsert, ArchiveStarted, RunTurn, RunEngine,
         ArchiveQuestionnaire, RunPlanner, FinishTurn, FinishSelect, ArchiveReplied,
         ArchiveSucceeded, ArchiveSeeded, FailSelect, FailCommit, ArchiveFailed, Other,
         WriteConfig, ArchiveConfig, CreateArtifact, ArchiveCompile, MarkDownloaded,
         ArchiveDownload, DeleteRows, ArchiveDelete
    <3>2. ~FinishConflict(r)  BY <1>1, <2>1 DEF FinishConflict, Answer, Goto
    <3>3. QED  BY <3>1, <3>2 DEF FinishCommit
  <2>4. /\ sess # Nothing /\ loc[r].snap # Nothing /\ loc[r].snap.rev = sess.rev
        /\ loc[r].out # Nothing /\ Kept(r, loc[r])
    BY <1>1, <2>3, CommitFinds
  <2>5. loc[r].last # Nothing  BY <1>1 DEF Typed, Handlers, Held
  <2>6. loc[r].last.kind = "brief_review" /\ loc[r].out.brief = Draft(loc[r])
    BY <1>1, <2>4 DEF Kept
  <2>7. loc[r].snap.brief = sess.brief  BY <1>1, <2>4 DEF RevisionNamesContent, Planning
  <2>8. sess.brief = loc[r].last.brief /\ sess.brief # Nothing
    BY <1>1, <2>4, <2>5, <2>6 DEF OnBase
  <2>9. QED  BY <2>6, <2>7, <2>8 DEF Draft
<1>2. /\ Typed /\ Origin /\ RowsInv /\ RevisionNamesContent /\ Carried /\ OwnTurns /\ InOrder /\ OnBase
      /\ [Next]_vars
      => [\A r \in Request :
            pc[r] = "commit" /\ pc'[r] = "replied" /\ loc[r].path = "confirm" =>
                /\ loc[r].out.brief = sess.brief
                /\ loc[r].out.brief = loc[r].last.brief]_vars
  BY <1>1
<1>3. QED  BY <1>2, HistoryHolds, PTL DEF Spec, PlansTheReviewedBrief
=============================================================================
