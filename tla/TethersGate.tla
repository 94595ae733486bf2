----------------------------- MODULE TethersGate -----------------------------
(***************************************************************************)
(* The Tethers Authority Gate.  It is a separate product, not part of this *)
(* repository: the module states what the host relies on (README.md, the   *)
(* frozen tethers.authority/1 lifecycle, and how spike.py reads answers).  *)
(* Frames are served in order, one response each.  A PREPARE is evaluated  *)
(* under the policy of that moment and opens a ticket; COMMIT evaluates    *)
(* the CURRENT policy again and dispatches a ticket at most once.          *)
(***************************************************************************)
EXTENDS GateSession

CONSTANTS
    Ops,        \* what an action does (the capability it maps to)
    Worlds,     \* states of the trusted context: remotes, HEAD, file content
    MaxRuns     \* bound on the runs of a session, hence on tickets

\* A normalized action: the operation with the facts bound to it.
Actions == [op: Ops, facts: Worlds]
NoAction == [op |-> "none", facts |-> "none"]

Tickets   == 1 .. MaxRuns
Decisions == {"allow", "ask", "deny"}
Stages    == {"none", "refused", "allowed", "asked", "approved", "denied", "dispatched", "settled"}
Statuses  == {"succeeded", "failed", "uncertain"}

VARIABLES
    policy,     \* the decision of each operation, read again at every use
    plan        \* what the Gate holds under each ticket

gateVars == <<policy, plan>>

NoPlan == [action |-> NoAction, decision |-> "none", stage |-> "none", said |-> "none"]

GateInit ==
    /\ policy \in [Ops -> Decisions]
    /\ plan = [t \in Tickets |-> NoPlan]

Opened(decision) ==
    IF decision = "allow" THEN "allowed" ELSE IF decision = "ask" THEN "asked" ELSE "refused"

Reply(verdict, held) == [verdict |-> verdict, held |-> held]

\* What a frame can be answered with, and what then becomes of its ticket.
PrepareReplies(f) ==
    LET decision == policy[f.action.op]
        opened == [action |-> f.action, decision |-> decision,
                   stage |-> Opened(decision), said |-> "none"]
    IN {Reply(decision, opened)}
         \cup {Reply(v, plan[f.ticket]) : v \in {"unavailable", "no_plan", "error"}}

ApprovalReplies(f) ==
    LET held == plan[f.ticket]
    IN IF held.stage = "asked"
         THEN {Reply("recorded", [held EXCEPT !.stage = f.word])}
         ELSE {Reply("error", held)}

CommitReplies(f) ==
    LET held == plan[f.ticket]
        current == IF held.action = NoAction THEN "deny" ELSE policy[held.action.op]
        admitted == \/ held.stage = "approved" /\ current # "deny"
                    \/ held.stage = "allowed" /\ current = "allow"
    IN IF admitted
         THEN {Reply("dispatched", [held EXCEPT !.stage = "dispatched"])}
         ELSE IF held.stage \in {"allowed", "approved", "asked"}
         THEN {Reply("commit_deny", held)}
         ELSE {Reply("error", held)}

\* The answer to OUTCOME names the status that was recorded.
OutcomeReplies(f) ==
    LET held == plan[f.ticket]
    IN IF held.stage = "dispatched"
         THEN {Reply(f.word, [held EXCEPT !.stage = "settled", !.said = f.word])}
         ELSE {Reply("error", held)}

Replies(f) ==
    IF f.operation = "prepare" THEN PrepareReplies(f)
    ELSE IF f.operation = "approval_decision" THEN ApprovalReplies(f)
    ELSE IF f.operation = "commit" THEN CommitReplies(f)
    ELSE IF f.operation = "outcome" THEN OutcomeReplies(f)
    ELSE {Reply(v, NoPlan) : v \in {"welcome", "error"}}

\* Frames are served in order.  A response line may come out damaged: then it
\* answers no request, whatever the Gate did.
GateServes ==
    /\ alive
    /\ toGate # <<>>
    /\ LET f == Head(toGate)
       IN \E r \in Replies(f), id \in {f.id, NoId} :
             /\ fromGate' = Append(fromGate, [id |-> id, verdict |-> r.verdict,
                                              ticket |-> f.ticket])
             /\ plan' = [t \in Tickets |-> IF t = f.ticket THEN r.held ELSE plan[t]]
    /\ toGate' = Tail(toGate)
    /\ UNCHANGED <<counter, alive, missed, policy>>

EndOfStream == [id |-> NoId, verdict |-> "end_of_stream", ticket |-> 0]

GateStops == GateExits(EndOfStream) /\ UNCHANGED gateVars

\* update_policy: the host-local policy is rewritten at any moment.
UpdatePolicy(op, decision) ==
    /\ policy' = [policy EXCEPT ![op] = decision]
    /\ UNCHANGED <<sessionVars, plan>>
=============================================================================
