------------------------------- MODULE Planner -------------------------------
(* `loom plan`: the planner's self-correction loop (planner/retry.py) and the    *)
(* command that writes its result to a file (cli/commands/plan.py).  The model   *)
(* behind the client (planner/client.py) answers what it likes, or the call      *)
(* raises.                                                                       *)
EXTENDS Validator

CONSTANTS
    NotJson,      \* an answer that json.loads refuses
    NoObject,     \* an answer that is JSON but not an object
    MaxRetries    \* IntentRequest.max_retries

ASSUME RetriesAssumption == MaxRetries \in 0 .. 5

VARIABLES
    menu,      \* what the model may answer in this run; nothing: the command is not run
    plan,      \* the loop: where it is, its attempt, the failures it holds, its result
    talk       \* the calls made: the failures told, and the answer

plannerVars == <<menu, plan, talk>>

NoFailures == {}
NotJsonFailure == {Fail("schema", "non-JSON output", None)}

\* What is wrong with an answer.
Judge(reply) == IF reply = NotJson THEN NotJsonFailure ELSE Validate(reply)

PlannerInit(menus) ==
    /\ menu \in menus
    /\ plan = [at |-> IF menu = {} THEN "idle" ELSE "call", attempt |-> 0, prior |-> NoFailures,
               last |-> NoFailures, reply |-> None, ir |-> None]
    /\ talk = <<>>

\* The next call, with the failures of the answer before in its prompt.  client.call is
\* outside the try: what it raises ends the loop.
CallModel ==
    /\ plan.at = "call" /\ plan.attempt < MaxRetries + 1
    /\ \/ \E reply \in menu :
             /\ plan' = [plan EXCEPT !.at = "check", !.attempt = @ + 1, !.reply = reply]
             /\ talk' = Append(talk, [told |-> plan.prior, reply |-> reply])
       \/ /\ plan' = [plan EXCEPT !.at = "raised", !.attempt = @ + 1]
          /\ talk' = talk
    /\ UNCHANGED <<menu, file>>

\* Mutant: the failures told are those of an earlier answer.
RefuseTextKeeping ==
    /\ plan.at = "check" /\ plan.reply = NotJson
    /\ plan' = [plan EXCEPT !.at = "call", !.last = NotJsonFailure]
    /\ UNCHANGED <<menu, talk, file>>

RefuseText ==
    /\ plan.at = "check" /\ plan.reply = NotJson
    /\ plan' = [plan EXCEPT !.at = "call", !.last = NotJsonFailure, !.prior = NotJsonFailure]
    /\ UNCHANGED <<menu, talk, file>>

\* The validator asks every answer for its version, outside the try (ir/schema.py:30).
RaiseOnReply ==
    /\ plan.at = "check" /\ plan.reply = NoObject
    /\ plan' = [plan EXCEPT !.at = "raised"]
    /\ UNCHANGED <<menu, talk, file>>

CheckReply ==
    /\ plan.at = "check" /\ plan.reply \notin {NotJson, NoObject}
    /\ LET found == Validate(plan.reply)
       IN  plan' = IF found = {} THEN [plan EXCEPT !.at = "ok", !.last = {}, !.ir = plan.reply]
                   ELSE [plan EXCEPT !.at = "call", !.last = found, !.prior = found]
    /\ UNCHANGED <<menu, talk, file>>

GiveUp ==
    /\ plan.at = "call" /\ plan.attempt = MaxRetries + 1
    /\ plan' = [plan EXCEPT !.at = "failed"]
    /\ UNCHANGED <<menu, talk, file>>

\* The command writes the file, or ends with its exit code and leaves the file alone.
Finish ==
    /\ \/ /\ plan.at = "ok"
          /\ file' = plan.ir
          /\ plan' = [plan EXCEPT !.at = "exit_0"]
       \/ /\ plan.at = "failed"
          /\ file' = file
          /\ plan' = [plan EXCEPT !.at = "exit_2"]
       \/ /\ plan.at = "raised"
          /\ file' = file
          /\ plan' = [plan EXCEPT !.at = "exit_1"]
    /\ UNCHANGED <<menu, talk>>

PlannerStep == CallModel \/ RefuseText \/ RaiseOnReply \/ CheckReply \/ GiveUp \/ Finish

-----------------------------------------------------------------------------
(* Properties. *)

\* A document the planner returns is well formed by the definitions of its relations:
\* one trigger that leads to every node, no cycle, and every reference the validator
\* looks at supplied by a node that runs before its reader.  And a sound graph is refused
\* for a reference only when nothing supplies it: the searches of the validator, with
\* their memo, find what their definitions say (validate.py:158-304).
JudgedByItsGraph ==
    /\ plan.ir # None => WellFormed(plan.ir)
    /\ plan.at = "check" /\ plan.reply \notin {NotJson, NoObject} =>
           \A n \in RefusedForReferences(plan.reply) : Unsupplied(plan.reply, n)

\* Every call after the first tells the model what is wrong with its answer before
\* that call, and with no other, whichever way each of them was refused; a planner
\* that gives up reports its last answer (retry.py:24-62).
FeedbackIsCurrent ==
    /\ \A k \in DOMAIN talk :
           talk[k].told = IF k = 1 THEN NoFailures ELSE Judge(talk[k - 1].reply)
    /\ plan.at \in {"failed", "exit_2"} => plan.last = Judge(talk[Len(talk)].reply)
=============================================================================
