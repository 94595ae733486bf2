------------------------ MODULE PermissionSlip_proofs ------------------------
(***************************************************************************)
(* Proofs about PermissionSlip, for any operations, worlds and claims, any *)
(* number of runs and both executors.                                      *)
(***************************************************************************)
EXTENDS PermissionSlip, TLAPS, SequenceTheorems

-----------------------------------------------------------------------------
(***************************************************************************)
(* Types.  TypeOK says nothing of what is under way between the host and   *)
(* the Gate; TypeInv does, and ties the place the host is at to what the   *)
(* run then has.                                                           *)
(***************************************************************************)
Operations == {"hello", "shutdown", "prepare", "approval_decision", "commit", "outcome"}
Verdicts   == Decisions \cup {"unavailable", "no_plan", "error", "recorded", "dispatched",
                              "commit_deny", "welcome", "end_of_stream"}
                       \cup Statuses
Words      == Approvals \cup Statuses

Frames == [id: Nat, operation: Operations, ticket: 0 .. MaxRuns,
           action: Actions \cup {NoAction}, word: Words]
Lines  == [id: Nat, verdict: Verdicts, ticket: 0 .. MaxRuns]
Plans  == [action: Actions \cup {NoAction}, decision: Decisions \cup {"none"},
           stage: Stages, said: Words]
Effects == [run: Tickets, action: Actions \cup {NoAction}, ticket: 0 .. MaxRuns,
            envelope: Envelopes, frozen: Envelopes, approval: Approvals, traced: BOOLEAN,
            fresh: BOOLEAN]
NoEnvelope == [op |-> "none", claim |-> "none"]
Records == [frozen: Envelopes \cup {NoEnvelope}, norm: Actions \cup {NoAction},
            receipt: Receipts]

\* What each operation carries.
WellFormed(f) ==
    /\ f.operation = "prepare" => f.action \in Actions
    /\ f.operation = "approval_decision" => f.word \in {"approved", "denied"}
    /\ f.operation = "outcome" => f.word \in Statuses

QueueTypes ==
    /\ counter \in Nat
    /\ toGate \in Seq(Frames)
    /\ fromGate \in Seq(Lines)
    /\ alive \in BOOLEAN
    /\ missed \in BOOLEAN
    /\ \A i \in 1 .. Len(toGate) : WellFormed(toGate[i])

GateTypes ==
    /\ policy \in [Ops -> Decisions]
    /\ plan \in [Tickets -> Plans]

HostTypes ==
    /\ pc \in InRun \cup {"starting", "greeting", "idle", "finishing", "closed"}
    /\ run \in 0 .. MaxRuns
    /\ world \in Worlds
    /\ envelope \in Envelopes \cup {NoEnvelope}
    /\ frozen \in Envelopes \cup {NoEnvelope}
    /\ frozen = envelope \/ {frozen, envelope} \subseteq Envelopes
    /\ approval \in Approvals
    /\ norm \in Actions \cup {NoAction}
    /\ fresh \in BOOLEAN
    /\ prepared \in [verdict: Decisions \cup {"unavailable", "none"}, ticket: 0 .. MaxRuns]
    /\ broken \in BOOLEAN
    /\ traced \in BOOLEAN
    /\ receipt \in Receipts
    /\ receipts \in Seq(Records)
    /\ effects \in Seq(Effects)
    /\ lost \subseteq Tickets

\* A run is in progress exactly while its record is missing.
RunShape ==
    /\ pc \in InRun \cup {"finishing"} =>
          /\ run \in Tickets
          /\ Len(receipts) = run - 1
          /\ envelope \in Envelopes
          /\ frozen \in Envelopes
    /\ pc \notin InRun \cup {"finishing"} => Len(receipts) = run

TypeInv == QueueTypes /\ GateTypes /\ HostTypes /\ RunShape

\* A request of well-formed content keeps the queues typed.
LEMMA RequestTypes ==
  ASSUME QueueTypes, NEW op \in Operations, NEW t \in 0 .. MaxRuns,
         NEW a \in Actions \cup {NoAction}, NEW w \in Words,
         op = "prepare" => a \in Actions,
         op = "approval_decision" => w \in {"approved", "denied"},
         op = "outcome" => w \in Statuses,
         Request(op, t, a, w)
  PROVE  QueueTypes'
<1> DEFINE f == [id |-> counter + 1, operation |-> op, ticket |-> t, action |-> a, word |-> w]
<1>1. counter' \in Nat /\ fromGate' \in Seq(Lines) /\ alive' \in BOOLEAN /\ missed' \in BOOLEAN
  BY DEF QueueTypes, Request
<1>2. f \in Frames /\ WellFormed(f)
  BY DEF QueueTypes, Frames, WellFormed
<1>3. toGate' = toGate \/ toGate' = Append(toGate, f)
  BY DEF Request
<1>4. CASE toGate' = toGate
  BY <1>1, <1>4 DEF QueueTypes
<1>5. CASE toGate' = Append(toGate, f)
  <2> HIDE DEF f
  <2>1. /\ toGate' \in Seq(Frames)
        /\ Len(toGate') = Len(toGate) + 1
        /\ \A i \in 1 .. Len(toGate) : toGate'[i] = toGate[i]
        /\ toGate'[Len(toGate) + 1] = f
    BY <1>2, <1>5, AppendProperties DEF QueueTypes
  <2>2. \A i \in 1 .. Len(toGate') : WellFormed(toGate'[i])
    BY <1>2, <2>1, LenProperties DEF QueueTypes
  <2>3. QED
    BY <1>1, <2>1, <2>2 DEF QueueTypes, WellFormed
<1>6. QED
  BY <1>3, <1>4, <1>5

\* So does the end of a wait, however it ends.
LEMMA HearsTypes ==
  ASSUME QueueTypes, Answered \/ NoAnswer \/ UNCHANGED <<fromGate, alive, missed>>, Hears
  PROVE  QueueTypes' /\ policy' = policy /\ plan' = plan
<1>1. fromGate' \in Seq(Lines)
  <2>1. CASE fromGate' = Tail(fromGate) /\ fromGate # <<>>
    BY <2>1, HeadTailProperties DEF QueueTypes
  <2>2. CASE fromGate' = fromGate
    BY <2>2 DEF QueueTypes
  <2>3. QED
    BY <2>1, <2>2 DEF Answered, NoAnswer, Unusable, TimesOut
<1>2. QED
  BY <1>1 DEF QueueTypes, Answered, NoAnswer, Unusable, TimesOut, Hears, NoRequest, gateVars,
     WellFormed

\* What a reply makes of a ticket is a plan, and its verdict is one the host knows.
LEMMA RepliesTypes ==
  ASSUME GateTypes, NEW f \in Frames, WellFormed(f), NEW r \in Replies(f)
  PROVE  r.verdict \in Verdicts /\ (f.ticket \in Tickets => r.held \in Plans)
<1> USE DEF GateTypes, Reply, Verdicts
<1>1. f.ticket \in Tickets => plan[f.ticket] \in Plans
  OBVIOUS
<1>2. NoPlan \in Plans
  BY DEF NoPlan, Plans, Stages, Words, Approvals
<1>3. CASE f.operation = "prepare"
  <2>1. policy[f.action.op] \in Decisions
    BY <1>3 DEF WellFormed, Actions
  <2>2. [action |-> f.action, decision |-> policy[f.action.op],
         stage |-> Opened(policy[f.action.op]), said |-> "none"] \in Plans
    BY <1>3, <2>1 DEF WellFormed, Plans, Opened, Stages, Words, Approvals
  <2>3. r \in PrepareReplies(f)
    BY <1>3 DEF Replies
  <2>4. \/ r = Reply(policy[f.action.op],
                     [action |-> f.action, decision |-> policy[f.action.op],
                      stage |-> Opened(policy[f.action.op]), said |-> "none"])
        \/ r.verdict \in {"unavailable", "no_plan", "error"} /\ r.held = plan[f.ticket]
    BY <2>3 DEF PrepareReplies
  <2>5. QED
    BY <1>1, <2>1, <2>2, <2>4
<1>4. CASE f.operation = "approval_decision"
  BY <1>1, <1>4 DEF Replies, ApprovalReplies, WellFormed, Plans, Stages
<1>5. CASE f.operation = "commit"
  BY <1>1, <1>5 DEF Replies, CommitReplies, Plans, Stages
<1>6. CASE f.operation = "outcome"
  <2>1. f.ticket \in Tickets =>
          [plan[f.ticket] EXCEPT !.stage = "settled", !.said = f.word] \in Plans
    BY <1>1, <1>6 DEF WellFormed, Plans, Stages, Words
  <2>2. \/ r = Reply(f.word, [plan[f.ticket] EXCEPT !.stage = "settled", !.said = f.word])
        \/ r = Reply("error", plan[f.ticket])
    BY <1>6 DEF Replies, OutcomeReplies
  <2>3. f.word \in Statuses
    BY <1>6 DEF WellFormed
  <2>4. QED
    BY <1>1, <2>1, <2>2, <2>3
<1>7. CASE f.operation \in {"hello", "shutdown"}
  BY <1>2, <1>7 DEF Replies
<1>8. QED
  BY <1>3, <1>4, <1>5, <1>6, <1>7 DEF Frames, Operations

\* The Gate, serving or exiting, keeps the queues and its plans typed.
LEMMA GateStepTypes == ASSUME QueueTypes, GateTypes, GateStep PROVE QueueTypes' /\ GateTypes'
<1>1. CASE GateServes
  <2> DEFINE f == Head(toGate)
  <2>1. /\ f \in Frames
        /\ f = toGate[1]
        /\ toGate' \in Seq(Frames)
        /\ Len(toGate') = Len(toGate) - 1
        /\ \A i \in 1 .. Len(toGate') : toGate'[i] = toGate[i + 1]
    BY <1>1, HeadTailProperties DEF QueueTypes, GateServes
  <2>2. Len(toGate) \in Nat /\ Len(toGate) > 0
    BY <1>1, EmptySeq DEF QueueTypes, GateServes
  <2>3. \A i \in 1 .. Len(toGate') : WellFormed(toGate'[i])
    BY <2>1, <2>2 DEF QueueTypes
  <2>4. WellFormed(f)
    BY <2>1, <2>2 DEF QueueTypes
  <2>5. PICK r \in Replies(f), id \in {f.id, NoId} :
          /\ fromGate' = Append(fromGate, [id |-> id, verdict |-> r.verdict, ticket |-> f.ticket])
          /\ plan' = [t \in Tickets |-> IF t = f.ticket THEN r.held ELSE plan[t]]
    BY <1>1 DEF GateServes
  <2> HIDE DEF f
  <2>6. r.verdict \in Verdicts /\ (f.ticket \in Tickets => r.held \in Plans)
    BY <2>1, <2>4, RepliesTypes
  <2>7. [id |-> id, verdict |-> r.verdict, ticket |-> f.ticket] \in Lines
    BY <2>1, <2>6 DEF Lines, Frames, NoId
  <2>8. fromGate' \in Seq(Lines)
    BY <2>5, <2>7, AppendProperties DEF QueueTypes
  <2>9. GateTypes'
    BY <1>1, <2>5, <2>6 DEF GateTypes, GateServes
  <2>10. QED
    BY <1>1, <2>1, <2>3, <2>8, <2>9 DEF QueueTypes, GateServes, WellFormed
<1>2. CASE GateStops
  <2>1. fromGate' \in Seq(Lines)
    <3>1. EndOfStream \in Lines
      BY RunsAssumption DEF EndOfStream, Lines, NoId, Verdicts
    <3>2. QED
      BY <1>2, <3>1, AppendProperties DEF QueueTypes, GateStops, GateExits
  <2>2. toGate' \in Seq(Frames) /\ Len(toGate') = 0
    BY <1>2, EmptySeq DEF GateStops, GateExits
  <2>3. \A i \in 1 .. Len(toGate') : WellFormed(toGate'[i])
    BY <2>2
  <2>4. QED
    BY <1>2, <2>1, <2>2, <2>3
       DEF QueueTypes, GateTypes, GateStops, GateExits, gateVars, WellFormed
<1>3. QED
  BY <1>1, <1>2 DEF GateStep

\* The receipts the steps make are receipts.
LEMMA ReceiptTypes ==
  /\ Blank \in Receipts
  /\ \A d \in {"allow", "ask", "deny", "unavailable"}, r \in Reasons : Receipt(d, r) \in Receipts
BY DEF Blank, Receipt, Receipts, Reasons

\* Whatever the executor does, the orchestration concludes a status and a flag.
LEMMA ConclusionTypes ==
  ASSUME NEW c \in Conclusions PROVE c.status \in Statuses /\ c.executed \in BOOLEAN
<1> DEFINE All == {Conclusion(h, x, s) : h \in BOOLEAN, x \in BOOLEAN, s \in Statuses}
<1>1. /\ "succeeded" \in Statuses /\ "failed" \in Statuses /\ "uncertain" \in Statuses
      /\ TRUE \in BOOLEAN /\ FALSE \in BOOLEAN
  BY DEF Statuses
<1>2. \A h, x \in BOOLEAN, s \in Statuses : Conclusion(h, x, s) \in All
  OBVIOUS
<1> HIDE DEF All
<1>3. /\ Raised \subseteq All
      /\ Refused \subseteq All
      /\ RealConclusions \subseteq All
      /\ FixtureConclusions \subseteq All
  BY <1>1, <1>2, Zenon DEF Raised, Refused, RealConclusions, FixtureConclusions
<1>4. PICK h \in BOOLEAN, x \in BOOLEAN, s \in Statuses : c = Conclusion(h, x, s)
  BY <1>3 DEF Conclusions, All
<1>5. QED
  BY <1>4 DEF Conclusion

\* The types hold before the session starts.
LEMMA TypeInvInit == Init => TypeInv
<1> SUFFICES ASSUME Init PROVE TypeInv
  OBVIOUS
<1>1. QueueTypes
  <2>1. /\ toGate = <<>> /\ toGate \in Seq(Frames) /\ Len(toGate) = 0
        /\ fromGate = <<>> /\ fromGate \in Seq(Lines)
    BY EmptySeq DEF Init, SessionInit
  <2>2. \A i \in 1 .. Len(toGate) : WellFormed(toGate[i])
    BY <2>1
  <2>3. QED
    BY <2>1, <2>2 DEF Init, SessionInit, QueueTypes
<1>2. GateTypes
  BY DEF Init, GateInit, GateTypes, NoPlan, Plans, Stages, Words, Approvals
<1>3. receipts \in Seq(Records) /\ Len(receipts) = 0 /\ effects \in Seq(Effects)
  BY EmptySeq DEF Init
<1>4. HostTypes /\ RunShape
  <2>1. envelope = NoEnvelope /\ frozen = NoEnvelope
    BY DEF Init, NoEnvelope
  <2>2. broken \in BOOLEAN /\ traced \in BOOLEAN
    BY DEF Init
  <2>3. prepared \in [verdict: Decisions \cup {"unavailable", "none"}, ticket: 0 .. MaxRuns]
    BY RunsAssumption DEF Init, NoPrepared
  <2>4. run = 0 /\ run \in 0 .. MaxRuns /\ lost \subseteq Tickets
    BY RunsAssumption DEF Init
  <2>5. QED
    BY <1>3, <2>1, <2>2, <2>3, <2>4, ReceiptTypes DEF Init, HostTypes, RunShape, InRun, Approvals
<1>5. QED
  BY <1>1, <1>2, <1>4 DEF TypeInv

\* Each step leaves the queues and the Gate typed, and the host's own variables.
LEMMA TypeInvStep == TypeInv /\ [Next]_vars => TypeInv'
<1> SUFFICES ASSUME TypeInv, [Next]_vars PROVE TypeInv'
  OBVIOUS
<1> USE RunsAssumption, ReceiptTypes DEF TypeInv
<1> DEFINE Quiet == QueueTypes' /\ GateTypes'
<1>1. ASSUME Hears, Answered \/ NoAnswer \/ UNCHANGED <<fromGate, alive, missed>> PROVE Quiet
  BY <1>1, HearsTypes DEF GateTypes
<1>2. ASSUME UNCHANGED <<sessionVars, gateVars>> PROVE Quiet
  BY <1>2 DEF QueueTypes, GateTypes, sessionVars, gateVars, WellFormed
<1>3. CASE StartSession \/ CloseSession
  <2>1. Quiet
    BY <1>3, RequestTypes
       DEF StartSession, CloseSession, Ask, gateVars, GateTypes, Operations, Words, Approvals
  <2>2. HostTypes' /\ RunShape'
    BY <1>3 DEF StartSession, CloseSession, KeepRun, HostTypes, RunShape, InRun
  <2>3. QED
    BY <2>1, <2>2
<1>4. CASE HelloAnswered
  <2>1. Quiet
    BY <1>1, <1>4 DEF HelloAnswered
  <2>2. HostTypes' /\ RunShape'
    BY <1>4 DEF HelloAnswered, KeepRun, HostTypes, RunShape, InRun
  <2>3. QED
    BY <2>1, <2>2
<1>5. ASSUME NEW e \in Envelopes, NEW a \in Approvals, StartRun(e, a) PROVE TypeInv'
  <2>1. Quiet
    BY <1>2, <1>5 DEF StartRun
  <2>2. /\ run' \in 0 .. MaxRuns
        /\ run' \in Tickets
        /\ Len(receipts') = run' - 1
    BY <1>5 DEF StartRun, HostTypes, RunShape, InRun, Tickets
  <2>3. /\ pc' \in {"finishing", "normalizing"}
        /\ receipt' \in Receipts
    BY <1>5 DEF StartRun, Reasons
  <2>4. broken' \in BOOLEAN /\ traced' \in BOOLEAN
    BY <1>5 DEF StartRun, Emits, HostTypes
  <2>5. prepared' \in [verdict: Decisions \cup {"unavailable", "none"}, ticket: 0 .. MaxRuns]
    BY <1>5 DEF StartRun, NoPrepared
  <2>6. HostTypes' /\ RunShape'
    BY <1>5, <2>2, <2>3, <2>4, <2>5 DEF StartRun, HostTypes, RunShape, InRun
  <2>7. QED
    BY <2>1, <2>6
<1>6. CASE Normalize
  <2>1. Normalized(envelope) \in Actions
    BY <1>6 DEF Normalize, RunShape, HostTypes, InRun, Normalized, Actions, Envelopes
  <2>2. Quiet
    BY <1>1, <1>6, <2>1, RequestTypes
       DEF Normalize, Ask, gateVars, GateTypes, Operations, Words, Approvals, HostTypes
  <2>3. HostTypes' /\ RunShape'
    BY <1>6, <2>1 DEF Normalize, Emits, Returns, KeepRun, HostTypes, RunShape, InRun, Reasons
  <2>4. QED
    BY <2>2, <2>3
<1>7. CASE PrepareAnswered
  <2>1. Quiet
    BY <1>1, <1>7 DEF PrepareAnswered
  <2>2. ASSUME Answered PROVE Answer \in Lines
    BY <2>2, HeadTailProperties DEF QueueTypes, Answered, Answer
  <2>3. prepared' \in [verdict: Decisions \cup {"unavailable", "none"}, ticket: 0 .. MaxRuns]
    BY <1>7, <2>2 DEF PrepareAnswered, HostTypes, Lines
  <2>4. pc' \in {"prepared", "finishing"} /\ receipt' \in Receipts
    BY <1>7 DEF PrepareAnswered, Returns, HostTypes, Reasons
  <2>5. HostTypes' /\ RunShape'
    BY <1>7, <2>3, <2>4 DEF PrepareAnswered, Emits, KeepRun, HostTypes, RunShape, InRun
  <2>6. QED
    BY <2>1, <2>5
<1>8. ASSUME NEW e \in Envelopes, CallerMutates(e) PROVE TypeInv'
  <2>1. Quiet
    BY <1>2, <1>8 DEF CallerMutates
  <2>2. HostTypes' /\ RunShape'
    BY <1>8 DEF CallerMutates, HostTypes, RunShape, InRun
  <2>3. QED
    BY <2>1, <2>2
<1>9. CASE Adjudicate
  <2>1. Quiet
    BY <1>1, <1>9, RequestTypes
       DEF Adjudicate, Ask, Returns, gateVars, GateTypes, Operations, Words, Approvals, HostTypes
  <2>2. HostTypes' /\ RunShape'
    BY <1>9 DEF Adjudicate, RevalidationBegins, Yields, Emits, Returns, HostTypes, RunShape, InRun, Reasons
  <2>3. QED
    BY <2>1, <2>2
<1>10. CASE ApprovalAnswered
  <2>1. Quiet
    BY <1>1, <1>10 DEF ApprovalAnswered
  <2>2. HostTypes' /\ RunShape'
    BY <1>10 DEF ApprovalAnswered, RevalidationBegins, Yields, Emits, Returns, HostTypes, RunShape,
       InRun, Reasons, InternalError
  <2>3. QED
    BY <2>1, <2>2
<1>11. CASE Revalidate
  <2>1. Quiet
    BY <1>2, <1>11 DEF Revalidate
  <2>2. HostTypes' /\ RunShape'
    BY <1>11 DEF Revalidate, Emits, Returns, KeepRun, HostTypes, RunShape, InRun, Reasons
  <2>3. QED
    BY <2>1, <2>2
<1>23. CASE SendCommit
  <2>1. Quiet
    BY <1>1, <1>23, RequestTypes
       DEF SendCommit, Ask, gateVars, GateTypes, Operations, Words, Approvals, HostTypes
  <2>2. HostTypes' /\ RunShape'
    BY <1>23 DEF SendCommit, Emits, KeepRun, HostTypes, RunShape, InRun
  <2>3. QED
    BY <2>1, <2>2
<1>12. CASE CommitAnswered
  <2>1. Quiet
    BY <1>1, <1>12 DEF CommitAnswered
  <2>2. HostTypes' /\ RunShape'
    BY <1>12 DEF CommitAnswered, StartsExecution, Emits, Returns, KeepRun, HostTypes, RunShape,
       InRun, Reasons
  <2>3. QED
    BY <2>1, <2>2
<1>13. ASSUME pc = "executing" PROVE Append(effects, Effect) \in Seq(Effects)
  <2>1. Effect \in Effects
    BY <1>13 DEF Effect, Effects, HostTypes, RunShape, InRun
  <2>2. QED
    BY <2>1, AppendProperties DEF HostTypes
<1>14. CASE Execute
  <2>1. PICK c \in Conclusions : Concludes(c)
    BY <1>14 DEF Execute
  <2>2. c.status \in Statuses /\ c.executed \in BOOLEAN
    BY ConclusionTypes
  <2>3. Quiet
    BY <2>1, <2>2, RequestTypes
       DEF Concludes, Tells, Ask, gateVars, GateTypes, Operations, Words, HostTypes
  <2>4. effects' \in Seq(Effects)
    BY <1>13, <1>14, <2>1 DEF Execute, Concludes, Tells, HostTypes
  <2>5. receipt' \in Receipts
    BY <2>1, <2>2 DEF Concludes, Tells, HostTypes, Receipts
  <2>6. HostTypes' /\ RunShape'
    BY <1>14, <2>1, <2>4, <2>5
       DEF Execute, Concludes, Tells, Emits, KeepRun, HostTypes, RunShape, InRun
  <2>7. QED
    BY <2>3, <2>6
<1>15. CASE OutcomeAnswered
  <2>1. Quiet
    BY <1>1, <1>15 DEF OutcomeAnswered
  <2>2. receipt' \in Receipts
    BY <1>15 DEF OutcomeAnswered, Returns, HostTypes, Receipts
  <2>3. HostTypes' /\ RunShape'
    BY <1>15, <2>2 DEF OutcomeAnswered, Emits, Returns, KeepRun, HostTypes, RunShape, InRun
  <2>4. QED
    BY <2>1, <2>3
<1>16. CASE Finish
  <2>1. Quiet
    BY <1>2, <1>16 DEF Finish
  <2>2. [frozen |-> frozen, norm |-> norm, receipt |-> receipt] \in Records
    BY DEF HostTypes, Records
  <2>3. receipts' \in Seq(Records) /\ Len(receipts') = Len(receipts) + 1
    BY <1>16, <2>2, AppendProperties DEF Finish, HostTypes
  <2>4. Len(receipts') = run'
    BY <1>16, <2>3 DEF Finish, RunShape, HostTypes
  <2>5. HostTypes' /\ RunShape'
    BY <1>16, <2>3, <2>4 DEF Finish, Emits, HostTypes, RunShape, InRun
  <2>6. QED
    BY <2>1, <2>5
<1>17. CASE Interrupted
  <2>1. Quiet
    BY <1>17 DEF Interrupted, Abandons, QueueTypes, GateTypes, gateVars, WellFormed, Waiting
  <2>2. effects' \in Seq(Effects)
    BY <1>13, <1>17 DEF Interrupted, HostTypes
  <2>3. HostTypes' /\ RunShape'
    BY <1>17, <2>2 DEF Interrupted, Returns, KeepRun, HostTypes, RunShape, InRun, Reasons,
       InternalError
  <2>4. QED
    BY <2>1, <2>3
<1>18. ASSUME NEW w \in Worlds, Drift(w) PROVE TypeInv'
  <2>1. Quiet
    BY <1>2, <1>18 DEF Drift
  <2>2. HostTypes' /\ RunShape'
    BY <1>18 DEF Drift, Yields, HostTypes, RunShape
  <2>3. QED
    BY <2>1, <2>2
<1>19. CASE GateStep
  <2>1. HostTypes' /\ RunShape'
    BY <1>19 DEF GateStep, hostVars, HostTypes, RunShape
  <2>2. QED
    BY <1>19, <2>1, GateStepTypes
<1>20. ASSUME NEW op \in Ops, NEW d \in Decisions, UpdatePolicy(op, d), UNCHANGED hostVars
       PROVE TypeInv'
  BY <1>20 DEF UpdatePolicy, hostVars, sessionVars, QueueTypes, GateTypes, HostTypes, RunShape,
     WellFormed
<1>21. CASE UNCHANGED vars
  BY <1>2, <1>21 DEF vars, hostVars, HostTypes, RunShape
<1>22. QED
  BY <1>3, <1>4, <1>5, <1>6, <1>7, <1>8, <1>9, <1>10, <1>11, <1>12, <1>14, <1>15, <1>16, <1>17,
     <1>18, <1>19, <1>20, <1>21, <1>23 DEF Next, HostStep

\* The types hold in every reachable state.
LEMMA TypeInvariant == Spec => []TypeInv
BY TypeInvInit, TypeInvStep, PTL DEF Spec

(***************************************************************************)
(* Every variable keeps its type, and there is a record for every run but  *)
(* the one in progress.                                                    *)
(***************************************************************************)
THEOREM TypeCorrect == Spec => []TypeOK
<1>1. TypeInv => TypeOK
  <2> SUFFICES ASSUME TypeInv PROVE TypeOK
    OBVIOUS
  <2>1. \A n \in 1 .. Len(receipts) : receipts[n].receipt \in Receipts
    <3>1. receipts \in Seq(Records)
      BY DEF TypeInv, HostTypes
    <3>2. \A n \in 1 .. Len(receipts) : receipts[n] \in Records
      BY <3>1, ElementOfSeq
    <3>3. QED
      BY <3>2 DEF Records
  <2>2. \A t \in Tickets : plan[t].stage \in Stages
    BY DEF TypeInv, GateTypes, Plans
  <2>3. Len(receipts) \in {run, run - 1}
    BY DEF TypeInv, RunShape
  <2>4. QED
    BY <2>1, <2>2, <2>3 DEF TypeInv, HostTypes, GateTypes, TypeOK
<1>2. QED
  BY <1>1, TypeInvariant, PTL

-----------------------------------------------------------------------------
(***************************************************************************)
(* The history of effects.  Only a step out of "executing" adds to it, it  *)
(* adds one effect, that of the current run, and never with a real         *)
(* executor whose recorder is broken.                                      *)
(***************************************************************************)
AddsEffect ==
    /\ pc = "executing"
    /\ ~(Real /\ broken)
    /\ pc' \in {"reporting", "finishing"}
    /\ Len(effects') = Len(effects) + 1
    /\ \A i \in 1 .. Len(effects) : effects'[i] = effects[i]
    /\ effects'[Len(effects) + 1] = Effect

\* A step adds no effect, or exactly one, on its way out of the executor.
LEMMA EffectsStep == ASSUME TypeInv, [Next]_vars PROVE effects' = effects \/ AddsEffect
<1>1. ASSUME pc = "executing", effects' = Append(effects, Effect)
      PROVE  /\ Len(effects') = Len(effects) + 1
             /\ \A i \in 1 .. Len(effects) : effects'[i] = effects[i]
             /\ effects'[Len(effects) + 1] = Effect
  <2>1. Effect \in Effects /\ effects \in Seq(Effects)
    BY <1>1 DEF Effect, Effects, TypeInv, HostTypes, RunShape, InRun
  <2>2. QED
    BY <1>1, <2>1, AppendProperties
<1>2. CASE Execute
  <2>1. PICK c \in Conclusions : Concludes(c)
    BY <1>2 DEF Execute
  <2>2. CASE c.happened
    <3>1. pc = "executing" /\ pc' = "reporting" /\ effects' = Append(effects, Effect)
      BY <1>2, <2>1, <2>2 DEF Execute, Concludes, Tells
    <3>2. ~(Real /\ broken)
      BY <2>2 DEF Conclusions, Refused, Conclusion
    <3>3. QED
      BY <1>1, <3>1, <3>2 DEF AddsEffect
  <2>3. CASE ~c.happened
    BY <2>1, <2>3 DEF Concludes, Tells
  <2>4. QED
    BY <2>2, <2>3
<1>3. CASE Interrupted
  BY <1>1, <1>3 DEF Interrupted, Returns, AddsEffect
<1>4. CASE UNCHANGED effects
  BY <1>4
<1>5. QED
  BY <1>2, <1>3, <1>4
     DEF Next, HostStep, StartSession, HelloAnswered, CloseSession, StartRun, Normalize,
         PrepareAnswered, Adjudicate, ApprovalAnswered, Revalidate, SendCommit, CommitAnswered,
         OutcomeAnswered, Finish, CallerMutates, Drift, GateStep, UpdatePolicy, hostVars, vars

\* What holds of every effect so far and of the one that is added holds of all.
LEMMA EffectInStep ==
  ASSUME TypeInv, [Next]_vars, NEW n
  PROVE  /\ EffectIn(n) => EffectIn(n)'
         /\ EffectIn(n)' => EffectIn(n) \/ (AddsEffect /\ n = run)
         /\ AddsEffect /\ n = run => EffectIn(n)'
<1>1. Len(effects) \in Nat
  BY LenProperties DEF TypeInv, HostTypes
<1>2. CASE effects' = effects /\ ~AddsEffect
  BY <1>2 DEF EffectIn
<1>3. CASE AddsEffect
  BY <1>1, <1>3 DEF EffectIn, AddsEffect, Effect
<1>4. QED
  BY <1>2, <1>3, EffectsStep

(***************************************************************************)
(* Envelopes and traces.  From COMMIT to the effect the envelope is the    *)
(* frozen one and the action is its own, and a real execution has begun    *)
(* on disk or has broken the recorder.                                     *)
(***************************************************************************)
EnvelopeInv ==
    /\ EffectMatchesEnvelope
    /\ RealEffectsAreTraced
    /\ pc \in {"revalidated", "committing", "executing"} => envelope = frozen /\ norm.op = frozen.op
    /\ pc = "executing" => traced \/ broken

\* Only Revalidate lets a run on towards COMMIT, and it compares both envelopes.
LEMMA EnvelopeInvStep == TypeInv /\ EnvelopeInv /\ [Next]_vars => EnvelopeInv'
<1> SUFFICES ASSUME TypeInv, EnvelopeInv, [Next]_vars PROVE EnvelopeInv'
  OBVIOUS
<1>1. EffectMatchesEnvelope' /\ RealEffectsAreTraced'
  <2>1. CASE effects' = effects
    BY <2>1 DEF EnvelopeInv, EffectMatchesEnvelope, RealEffectsAreTraced
  <2>2. CASE AddsEffect
    <3>1. Len(effects) \in Nat
      BY LenProperties DEF TypeInv, HostTypes
    <3>2. /\ Effect.envelope = Effect.frozen
          /\ Effect.action.op = Effect.frozen.op
          /\ Real => Effect.traced
      BY <2>2 DEF Effect, EnvelopeInv, AddsEffect
    <3>3. QED
      BY <2>2, <3>1, <3>2
         DEF EnvelopeInv, AddsEffect, EffectMatchesEnvelope, RealEffectsAreTraced
  <2>3. QED
    BY <2>1, <2>2, EffectsStep
<1>2. (pc \in {"revalidated", "committing", "executing"} => envelope = frozen /\ norm.op = frozen.op)'
  <2>1. CASE Revalidate
    BY <2>1 DEF Revalidate, Stale, Normalized, Returns, KeepRun
  <2>2. CASE CommitAnswered
    BY <2>2 DEF CommitAnswered, StartsExecution, Returns, KeepRun, EnvelopeInv
  <2>3. CASE Drift(world')
    BY <2>3 DEF Drift, EnvelopeInv
  <2>7. CASE SendCommit
    BY <2>7 DEF SendCommit, KeepRun, EnvelopeInv
  <2>4. CASE UNCHANGED hostVars
    BY <2>4 DEF hostVars, EnvelopeInv
  <2>5. CASE pc' \notin {"revalidated", "committing", "executing"}
    BY <2>5
  <2>6. QED
    BY <2>1, <2>2, <2>3, <2>4, <2>5, <2>7
       DEF Next, HostStep, StartSession, HelloAnswered, CloseSession, StartRun, Normalize,
           PrepareAnswered, Adjudicate, ApprovalAnswered, Execute, Concludes, Tells,
           OutcomeAnswered, Interrupted, Returns, Finish, CallerMutates, Drift, GateStep, vars
<1>3. (pc = "executing" => traced \/ broken)'
  <2>1. CASE CommitAnswered
    BY <2>1 DEF CommitAnswered, StartsExecution, Returns
  <2>2. CASE Drift(world') \/ UNCHANGED hostVars
    BY <2>2 DEF Drift, hostVars, EnvelopeInv
  <2>3. CASE pc' # "executing"
    BY <2>3
  <2>4. QED
    BY <2>1, <2>2, <2>3
       DEF Next, HostStep, StartSession, HelloAnswered, CloseSession, StartRun, Normalize,
           PrepareAnswered, Adjudicate, ApprovalAnswered, Revalidate, SendCommit, Execute, Concludes, Tells,
           OutcomeAnswered, Interrupted, Returns, Finish, CallerMutates, Drift, GateStep, vars
<1>4. QED
  BY <1>1, <1>2, <1>3 DEF EnvelopeInv

\* The envelope facts hold in every reachable state.
LEMMA EnvelopeInvariant == Spec => []EnvelopeInv
<1>1. Init => EnvelopeInv
  <2> SUFFICES ASSUME Init PROVE EnvelopeInv
    OBVIOUS
  <2>1. Len(effects) = 0
    BY EmptySeq DEF Init
  <2>2. QED
    BY <2>1 DEF Init, EnvelopeInv, EffectMatchesEnvelope, RealEffectsAreTraced
<1>2. QED
  BY <1>1, EnvelopeInvStep, TypeInvariant, PTL DEF Spec

(***************************************************************************)
(* What happens belongs to the envelope that was frozen when the run       *)
(* started, though the caller may change its object at the hook.           *)
(***************************************************************************)
THEOREM EffectsMatchEnvelopes == Spec => []EffectMatchesEnvelope
BY EnvelopeInvariant, PTL DEF EnvelopeInv

(***************************************************************************)
(* No real effect without EXECUTION_STARTED on disk, whichever event finds *)
(* the disk failing.                                                       *)
(***************************************************************************)
THEOREM RealEffectsTraced == Spec => []RealEffectsAreTraced
BY EnvelopeInvariant, PTL DEF EnvelopeInv

-----------------------------------------------------------------------------
(***************************************************************************)
(* The session.  Requests and answers keep the order of their ids, and as  *)
(* long as the Gate lives every request the host gave up on leaves one     *)
(* item too many between the two: from then on a request never finds its   *)
(* own answer at the head of the queue.                                    *)
(***************************************************************************)
Ordered ==
    /\ \A i \in 1 .. Len(toGate) : toGate[i].id \in 1 .. counter
    /\ \A i, j \in 1 .. Len(toGate) : i < j => toGate[i].id < toGate[j].id
    /\ \A i \in 1 .. Len(fromGate) : fromGate[i].id \in 0 .. counter
    /\ \A i \in 1 .. Len(fromGate), j \in 1 .. Len(toGate) : fromGate[i].id < toGate[j].id

\* Where the host is once the Gate has answered its PREPARE.
Engaged == {"prepared", "approving", "revalidating", "revalidated", "committing", "executing", "reporting"}

Backlog == Len(fromGate) + Len(toGate)

QueueInv ==
    /\ Ordered
    /\ pc \in Waiting => counter > 0
    /\ alive /\ pc \in Waiting => Backlog >= 1
    /\ alive /\ missed => Backlog >= 1
    /\ alive /\ pc \in Waiting /\ missed => Backlog >= 2
    /\ missed /\ pc \in Waiting /\ fromGate # <<>> => fromGate[1].id # counter
    /\ pc \in Engaged => ~missed
    /\ pc \in Engaged => \A i \in 1 .. Len(toGate) : pc \in Waiting /\ toGate[i].id = counter

\* What a step does to the session: it starts a wait, ends one, gives one up, or
\* leaves the queues to the Gate.
Sends     == pc \notin Waiting /\ \E op, t, a, w : Request(op, t, a, w)
EndsWait  == pc \in Waiting /\ pc' \notin Waiting /\ NoRequest /\ (Answered \/ NoAnswer)
Rests     == UNCHANGED sessionVars /\ (pc' \in Waiting => pc' = pc)
GivesUp   == pc' \notin Waiting /\ Abandons(pc \in Waiting)

\* Each step of the program is one of these for the session.
LEMMA SessionStep ==
  ASSUME [Next]_vars
  PROVE  Sends \/ EndsWait \/ Rests \/ GivesUp \/ (pc' = pc /\ (GateServes \/ GateStops))
<1> USE DEF Waiting
<1>1. CASE StartSession \/ CloseSession \/ SendCommit \/ Execute
  BY <1>1 DEF StartSession, CloseSession, SendCommit, Execute, Concludes, Tells, Ask, Sends
<1>2. CASE HelloAnswered \/ PrepareAnswered \/ ApprovalAnswered \/ CommitAnswered \/ OutcomeAnswered
  BY <1>2 DEF HelloAnswered, PrepareAnswered, ApprovalAnswered, CommitAnswered, OutcomeAnswered,
              StartsExecution, Returns, Hears, EndsWait
<1>3. CASE Normalize
  BY <1>3 DEF Normalize, Returns, Hears, NoRequest, Ask, Sends, Rests, sessionVars
<1>4. CASE Adjudicate
  BY <1>4 DEF Adjudicate, Returns, Hears, NoRequest, Ask, Sends, Rests, sessionVars
<1>5. CASE Revalidate
  BY <1>5 DEF Revalidate, Returns, Rests, sessionVars
<1>6. CASE Interrupted
  BY <1>6 DEF Interrupted, Returns, GivesUp
<1>7. CASE \/ \E e \in Envelopes, a \in Approvals : StartRun(e, a)
           \/ \E e \in Envelopes : CallerMutates(e)
           \/ \E w \in Worlds : Drift(w)
           \/ Finish
           \/ \E op \in Ops, d \in Decisions : UpdatePolicy(op, d) /\ UNCHANGED hostVars
           \/ UNCHANGED vars
  BY <1>7 DEF StartRun, CallerMutates, Drift, Finish, UpdatePolicy, hostVars, vars, Rests
<1>8. CASE GateStep
  BY <1>8 DEF GateStep, hostVars
<1>9. QED
  BY <1>1, <1>2, <1>3, <1>4, <1>5, <1>6, <1>7, <1>8 DEF Next, HostStep

\* Append, item by item, also when the element is of another kind.
LEMMA AppendItems ==
  ASSUME NEW S, NEW s \in Seq(S), NEW e
  PROVE  /\ Len(Append(s, e)) = Len(s) + 1
         /\ \A i \in 1 .. Len(s) : Append(s, e)[i] = s[i]
         /\ Append(s, e)[Len(s) + 1] = e
<1>1. s \in Seq(S \cup {e})
  BY SeqMonotonic
<1>2. QED
  BY <1>1, AppendProperties

\* The queues, item by item, under each of the four things that happen to them.
LEMMA RequestItems ==
  ASSUME QueueTypes, NEW op, NEW t, NEW a, NEW w, Request(op, t, a, w)
  PROVE  /\ counter' = counter + 1 /\ fromGate' = fromGate /\ alive' = alive /\ missed' = missed
         /\ \/ ~alive /\ toGate' = toGate
            \/ \E f : /\ alive
                      /\ f = [id |-> counter + 1, operation |-> op, ticket |-> t, action |-> a,
                              word |-> w]
                      /\ Len(toGate') = Len(toGate) + 1
                      /\ \A i \in 1 .. Len(toGate) : toGate'[i] = toGate[i]
                      /\ toGate'[Len(toGate) + 1] = f
<1>1. PICK f : f = [id |-> counter + 1, operation |-> op, ticket |-> t, action |-> a, word |-> w]
  OBVIOUS
<1>2. CASE alive
  <2>1. toGate' = Append(toGate, f)
    BY <1>1, <1>2 DEF Request
  <2>2. /\ Len(toGate') = Len(toGate) + 1
        /\ \A i \in 1 .. Len(toGate) : toGate'[i] = toGate[i]
        /\ toGate'[Len(toGate) + 1] = f
    BY <2>1, AppendItems DEF QueueTypes
  <2>3. QED
    BY <1>1, <1>2, <2>2 DEF Request
<1>3. CASE ~alive
  BY <1>3 DEF Request
<1>4. QED
  BY <1>2, <1>3

\* The host takes the oldest line,
LEMMA TakeItems ==
  ASSUME QueueTypes, fromGate # <<>>, fromGate' = Tail(fromGate)
  PROVE  /\ Len(fromGate) \in Nat \ {0}
         /\ Head(fromGate) = fromGate[1]
         /\ Len(fromGate') = Len(fromGate) - 1
         /\ \A i \in 1 .. Len(fromGate') : fromGate'[i] = fromGate[i + 1]
BY HeadTailProperties, EmptySeq DEF QueueTypes

\* the Gate serves the oldest frame and appends one line,
LEMMA ServeItems ==
  ASSUME QueueTypes, GateServes
  PROVE  \E f, l, r :
            /\ f = toGate[1]
            /\ r \in Replies(f)
            /\ l.id \in {f.id, NoId} /\ l.verdict = r.verdict /\ l.ticket = f.ticket
            /\ plan' = [t \in Tickets |-> IF t = f.ticket THEN r.held ELSE plan[t]]
            /\ Len(toGate) \in Nat \ {0}
            /\ Len(toGate') = Len(toGate) - 1
            /\ \A i \in 1 .. Len(toGate') : toGate'[i] = toGate[i + 1]
            /\ Len(fromGate') = Len(fromGate) + 1
            /\ \A i \in 1 .. Len(fromGate) : fromGate'[i] = fromGate[i]
            /\ fromGate'[Len(fromGate) + 1] = l
            /\ UNCHANGED <<counter, alive, missed, policy>>
<1>1. /\ Len(toGate) \in Nat \ {0}
      /\ Head(toGate) = toGate[1]
      /\ Len(toGate') = Len(toGate) - 1
      /\ \A i \in 1 .. Len(toGate') : toGate'[i] = toGate[i + 1]
  BY HeadTailProperties, EmptySeq DEF GateServes, QueueTypes
<1>2. PICK f : f = Head(toGate)
  OBVIOUS
<1>3. PICK r \in Replies(f), id \in {f.id, NoId} :
        /\ fromGate' = Append(fromGate, [id |-> id, verdict |-> r.verdict, ticket |-> f.ticket])
        /\ plan' = [t \in Tickets |-> IF t = f.ticket THEN r.held ELSE plan[t]]
  BY <1>2, Zenon DEF GateServes
<1>4. PICK l : l = [id |-> id, verdict |-> r.verdict, ticket |-> f.ticket]
  OBVIOUS
<1>5. /\ Len(fromGate') = Len(fromGate) + 1
      /\ \A i \in 1 .. Len(fromGate) : fromGate'[i] = fromGate[i]
      /\ fromGate'[Len(fromGate) + 1] = l
  BY <1>3, <1>4, AppendItems DEF QueueTypes
<1>6. UNCHANGED <<counter, alive, missed, policy>>
  BY DEF GateServes
<1>7. l.id \in {f.id, NoId} /\ l.verdict = r.verdict /\ l.ticket = f.ticket
  BY <1>4
<1>8. QED
  BY <1>1, <1>2, <1>3, <1>5, <1>6, <1>7

\* or exits, and its last line answers nothing.
LEMMA StopItems ==
  ASSUME QueueTypes, GateStops
  PROVE  /\ Len(toGate') = 0
         /\ Len(fromGate') = Len(fromGate) + 1
         /\ \A i \in 1 .. Len(fromGate) : fromGate'[i] = fromGate[i]
         /\ fromGate'[Len(fromGate) + 1] = EndOfStream
         /\ alive' = FALSE
         /\ UNCHANGED <<counter, missed, policy, plan>>
BY EmptySeq, AppendItems DEF GateStops, GateExits, QueueTypes, gateVars

\* Every id in the queues is a number.
LEMMA QueueIds ==
  ASSUME QueueTypes
  PROVE  /\ counter \in Nat /\ Len(toGate) \in Nat /\ Len(fromGate) \in Nat
         /\ \A i \in 1 .. Len(toGate) : toGate[i] \in Frames /\ toGate[i].id \in Nat
         /\ \A i \in 1 .. Len(fromGate) : fromGate[i] \in Lines /\ fromGate[i].id \in Nat
<1>1. counter \in Nat /\ toGate \in Seq(Frames) /\ fromGate \in Seq(Lines)
  BY DEF QueueTypes
<1>2. /\ \A i \in 1 .. Len(toGate) : toGate[i] \in Frames
      /\ \A i \in 1 .. Len(fromGate) : fromGate[i] \in Lines
  BY <1>1, ElementOfSeq
<1>3. /\ \A i \in 1 .. Len(toGate) : toGate[i].id \in Nat
      /\ \A i \in 1 .. Len(fromGate) : fromGate[i].id \in Nat
  BY <1>2 DEF Frames, Lines
<1>4. QED
  BY <1>1, <1>2, <1>3, LenProperties

\* Ids grow along the queues and are answered in that order.
LEMMA OrderedStep == ASSUME TypeInv, QueueInv, [Next]_vars PROVE Ordered'
<1>1. QueueTypes /\ QueueTypes' /\ Ordered
  BY TypeInvStep DEF TypeInv, QueueInv
<1>2. /\ counter \in Nat /\ Len(toGate) \in Nat /\ Len(fromGate) \in Nat
      /\ \A i \in 1 .. Len(toGate) : toGate[i].id \in Nat
      /\ \A i \in 1 .. Len(fromGate) : fromGate[i].id \in Nat
  BY <1>1, QueueIds
<1>3. CASE Sends
  <2>1. PICK op, t, a, w : Request(op, t, a, w)
    BY <1>3 DEF Sends
  <2>2. counter' = counter + 1 /\ fromGate' = fromGate
    BY <2>1 DEF Request
  <2>3. CASE toGate' = toGate
    BY <1>1, <1>2, <2>2, <2>3 DEF Ordered
  <2>4. CASE toGate' # toGate
    <3>1. PICK f : /\ f = [id |-> counter + 1, operation |-> op, ticket |-> t, action |-> a,
                            word |-> w]
                   /\ Len(toGate') = Len(toGate) + 1
                   /\ \A i \in 1 .. Len(toGate) : toGate'[i] = toGate[i]
                   /\ toGate'[Len(toGate) + 1] = f
      BY <1>1, <2>1, <2>4, RequestItems
    <3>2. \A i \in 1 .. Len(toGate') : toGate'[i].id \in 1 .. counter'
      BY <1>1, <1>2, <2>2, <3>1 DEF Ordered
    <3>3. ASSUME NEW i \in 1 .. Len(toGate'), NEW j \in 1 .. Len(toGate'), i < j
          PROVE  toGate'[i].id < toGate'[j].id
      <4>1. i \in 1 .. Len(toGate) /\ toGate'[i] = toGate[i] /\ toGate[i].id \in 1 .. counter
        BY <1>1, <1>2, <3>1, <3>3 DEF Ordered
      <4>2. CASE j = Len(toGate) + 1
        BY <1>2, <3>1, <4>1, <4>2
      <4>3. CASE j \in 1 .. Len(toGate)
        BY <1>1, <3>1, <3>3, <4>1, <4>3 DEF Ordered
      <4>4. QED
        BY <1>2, <3>1, <4>2, <4>3
    <3>4. ASSUME NEW i \in 1 .. Len(fromGate), NEW j \in 1 .. Len(toGate')
          PROVE  fromGate[i].id < toGate'[j].id
      <4>1. fromGate[i].id \in 0 .. counter
        BY <1>1 DEF Ordered
      <4>2. CASE j = Len(toGate) + 1
        BY <1>2, <3>1, <4>1, <4>2
      <4>3. CASE j \in 1 .. Len(toGate)
        BY <1>1, <3>1, <4>3 DEF Ordered
      <4>4. QED
        BY <1>2, <3>1, <4>2, <4>3
    <3>5. \A i \in 1 .. Len(fromGate') : fromGate'[i].id \in 0 .. counter'
      BY <1>1, <1>2, <2>2 DEF Ordered
    <3>6. QED
      BY <2>2, <3>2, <3>3, <3>4, <3>5 DEF Ordered
  <2>5. QED
    BY <2>3, <2>4
<1>4. CASE EndsWait
  <2>1. counter' = counter /\ toGate' = toGate
    BY <1>4 DEF EndsWait, NoRequest
  <2>2. CASE fromGate' = fromGate
    BY <1>1, <2>1, <2>2 DEF Ordered
  <2>3. CASE fromGate # <<>> /\ fromGate' = Tail(fromGate)
    <3>1. /\ Len(fromGate) \in Nat \ {0}
          /\ Len(fromGate') = Len(fromGate) - 1
          /\ \A i \in 1 .. Len(fromGate') : fromGate'[i] = fromGate[i + 1]
      BY <1>1, <2>3, TakeItems
    <3>2. \A i \in 1 .. Len(fromGate') : i + 1 \in 1 .. Len(fromGate)
      BY <3>1
    <3>3. QED
      BY <1>1, <2>1, <3>1, <3>2 DEF Ordered
  <2>4. QED
    BY <1>4, <2>2, <2>3 DEF EndsWait, Answered, NoAnswer, Unusable, TimesOut
<1>5. CASE Rests \/ GivesUp
  BY <1>1, <1>5 DEF Ordered, Rests, GivesUp, Abandons, sessionVars
<1>6. CASE GateServes
  <2>1. /\ Len(toGate) \in Nat \ {0}
        /\ Len(toGate') = Len(toGate) - 1
        /\ \A i \in 1 .. Len(toGate') : toGate'[i] = toGate[i + 1]
        /\ Len(fromGate') = Len(fromGate) + 1
        /\ \A i \in 1 .. Len(fromGate) : fromGate'[i] = fromGate[i]
        /\ fromGate'[Len(fromGate) + 1].id \in {toGate[1].id, NoId}
        /\ counter' = counter
    BY <1>1, <1>6, ServeItems
  <2>2. \A j \in 1 .. Len(toGate') :
           /\ j + 1 \in 1 .. Len(toGate)
           /\ 1 < j + 1
           /\ toGate'[j] = toGate[j + 1]
    BY <1>2, <2>1
  <2>3. \A j \in 1 .. Len(toGate') : toGate[1].id < toGate'[j].id
    BY <1>1, <2>1, <2>2 DEF Ordered
  <2>4. \A i \in 1 .. Len(fromGate') :
           /\ fromGate'[i].id \in 0 .. counter
           /\ fromGate'[i].id <= toGate[1].id
    BY <1>1, <1>2, <2>1 DEF Ordered, NoId
  <2>5. ASSUME NEW i \in 1 .. Len(toGate'), NEW j \in 1 .. Len(toGate'), i < j
        PROVE  toGate'[i].id < toGate'[j].id
    <3>1. toGate[i + 1].id < toGate[j + 1].id
      BY <1>1, <2>1, <2>2, <2>5 DEF Ordered
    <3>2. QED
      BY <2>2, <3>1
  <2>6. ASSUME NEW i \in 1 .. Len(fromGate'), NEW j \in 1 .. Len(toGate')
        PROVE  fromGate'[i].id < toGate'[j].id
    <3>1. /\ toGate[1].id \in Nat /\ toGate'[j].id \in Nat
          /\ toGate[1].id < toGate'[j].id
          /\ fromGate'[i].id \in Nat
      BY <1>2, <2>1, <2>2, <2>3, <2>4
    <3>2. QED
      BY <2>4, <3>1
  <2>7. \A j \in 1 .. Len(toGate') : toGate'[j].id \in 1 .. counter
    BY <1>1, <2>2 DEF Ordered
  <2>8. QED
    BY <2>1, <2>4, <2>5, <2>6, <2>7 DEF Ordered
<1>7. CASE GateStops
  <2>1. /\ Len(toGate') = 0
        /\ Len(fromGate') = Len(fromGate) + 1
        /\ \A i \in 1 .. Len(fromGate) : fromGate'[i] = fromGate[i]
        /\ fromGate'[Len(fromGate) + 1].id = NoId
        /\ counter' = counter
    BY <1>1, <1>7, StopItems DEF EndOfStream
  <2>2. \A i \in 1 .. Len(fromGate') : fromGate'[i].id \in 0 .. counter
    BY <1>1, <1>2, <2>1 DEF Ordered, NoId
  <2>3. QED
    BY <2>1, <2>2 DEF Ordered
<1>8. QED
  BY <1>3, <1>4, <1>5, <1>6, <1>7, SessionStep

\* An answer that counts is the last word of the Gate: nothing else is under way,
\* and nothing was ever missed.
LEMMA AnsweredClears ==
  ASSUME TypeInv, QueueInv, pc \in Waiting, Answered
  PROVE  Len(toGate) = 0 /\ ~missed
<1>1. Len(fromGate) \in Nat \ {0} /\ Head(fromGate) = fromGate[1] /\ Len(toGate) \in Nat
  BY TakeItems, LenProperties DEF Answered, TypeInv, QueueTypes
<1>2. fromGate[1].id = counter /\ fromGate # <<>>
  BY <1>1 DEF Answered
<1>3. \A j \in 1 .. Len(toGate) : toGate[j].id \in 1 .. counter /\ counter < toGate[j].id
  BY <1>1, <1>2 DEF QueueInv, Ordered
<1>4. Len(toGate) = 0
  BY <1>1, <1>3 DEF TypeInv, QueueTypes
<1>5. QED
  BY <1>2, <1>4 DEF QueueInv

\* The host goes on only with an answer that counts, and then asks one thing more.
LEMMA EngagedStep ==
  ASSUME TypeInv, QueueInv, [Next]_vars, pc' \in Engaged
  PROVE  ~missed' /\ \A i \in 1 .. Len(toGate') : pc' \in Waiting /\ toGate'[i].id = counter'
<1> USE DEF Engaged, Waiting
<1>1. CASE PrepareAnswered \/ ApprovalAnswered \/ CommitAnswered
  <2>1. Answered /\ missed' = missed /\ toGate' = toGate /\ pc \in Waiting
    BY <1>1 DEF PrepareAnswered, ApprovalAnswered, CommitAnswered, Returns, Hears, NoRequest,
                Answered
  <2>2. QED
    BY <2>1, AnsweredClears
<1>2. CASE Adjudicate \/ SendCommit \/ Execute
  <2>1. pc \in {"prepared", "revalidated", "executing"}
    BY <1>2 DEF Adjudicate, SendCommit, Execute
  <2>2. ~missed /\ missed' = missed /\ Len(toGate) = 0
    <3>1. missed' = missed
      BY <1>2 DEF Adjudicate, SendCommit, Execute, Concludes, Tells, Ask, Request
    <3>2. QueueTypes
      BY DEF TypeInv
    <3>3. Len(toGate) \in Nat
      BY <3>2, QueueIds
    <3>4. ~missed /\ pc \notin Waiting /\ \A i \in 1 .. Len(toGate) : pc \in Waiting
      BY <2>1 DEF QueueInv
    <3>5. Len(toGate) = 0
      BY <3>3, <3>4
    <3>6. QED
      BY <3>1, <3>4, <3>5
  <2>3. CASE UNCHANGED <<counter, toGate>>
    BY <1>2, <2>2, <2>3
  <2>4. CASE \E op, t, a, w : Request(op, t, a, w) /\ pc' \in Waiting
    <3>1. PICK op, t, a, w : Request(op, t, a, w)
      BY <2>4
    <3>2. counter' = counter + 1
          /\ (toGate' = toGate \/ (Len(toGate') = 1 /\ toGate'[1].id = counter + 1))
      BY <2>2, <3>1, RequestItems DEF TypeInv
    <3>3. QED
      BY <2>2, <2>4, <3>2
  <2>5. QED
    BY <1>2, <2>3, <2>4 DEF Adjudicate, SendCommit, Execute, Concludes, Tells, Returns, Ask,
                            Hears, NoRequest
<1>3. CASE GateServes /\ pc' = pc
  <2>1. /\ Len(toGate') = Len(toGate) - 1
        /\ \A i \in 1 .. Len(toGate') : toGate'[i] = toGate[i + 1]
        /\ counter' = counter /\ missed' = missed
    BY <1>3, ServeItems DEF TypeInv
  <2>2. \A i \in 1 .. Len(toGate') : i + 1 \in 1 .. Len(toGate)
    BY <2>1, QueueIds DEF TypeInv
  <2>3. QED
    BY <1>3, <2>1, <2>2 DEF QueueInv
<1>4. CASE GateStops /\ pc' = pc
  BY <1>4, StopItems DEF QueueInv, TypeInv
<1>7. CASE Revalidate
  <2>1. pc \in Engaged \ Waiting /\ UNCHANGED <<counter, toGate, missed>>
    BY <1>7 DEF Revalidate, sessionVars
  <2>2. QED
    BY <2>1 DEF QueueInv
<1>5. CASE UNCHANGED <<pc, counter, toGate, missed>>
  BY <1>5 DEF QueueInv
<1>6. QED
  BY <1>1, <1>2, <1>3, <1>4, <1>5, <1>7
     DEF Next, HostStep, StartSession, HelloAnswered, CloseSession, StartRun, Normalize,
         OutcomeAnswered, Interrupted, Returns, Finish, CallerMutates, Drift, GateStep,
         UpdatePolicy, hostVars, sessionVars, vars

\* A wait puts one item in the queues and takes at most one out; one given up leaves it.
LEMMA BacklogStep ==
  ASSUME TypeInv, QueueInv, [Next]_vars
  PROVE  (/\ pc \in Waiting => counter > 0
          /\ alive /\ pc \in Waiting => Backlog >= 1
          /\ alive /\ missed => Backlog >= 1
          /\ alive /\ pc \in Waiting /\ missed => Backlog >= 2
          /\ missed /\ pc \in Waiting /\ fromGate # <<>> => fromGate[1].id # counter)'
<1>1. QueueTypes /\ QueueTypes' /\ alive \in BOOLEAN /\ missed \in BOOLEAN
  BY TypeInvStep DEF TypeInv, QueueTypes
<1>2. /\ counter \in Nat /\ Len(toGate) \in Nat /\ Len(fromGate) \in Nat
      /\ \A i \in 1 .. Len(fromGate) : fromGate[i].id \in 0 .. counter
      /\ fromGate # <<>> => 1 \in 1 .. Len(fromGate)
      /\ fromGate = <<>> => Len(fromGate) = 0
  BY <1>1, QueueIds, EmptySeq DEF QueueInv, Ordered, QueueTypes
<1>3. CASE Sends
  <2>1. PICK op, t, a, w : Request(op, t, a, w)
    BY <1>3 DEF Sends
  <2>2. /\ counter' = counter + 1 /\ fromGate' = fromGate /\ missed' = missed /\ alive' = alive
        /\ alive => Len(toGate') = Len(toGate) + 1
    BY <1>1, <2>1, RequestItems
  <2>3. fromGate # <<>> => fromGate[1].id # counter'
    BY <1>2, <2>2
  <2>4. alive => Backlog' = Backlog + 1 /\ Backlog \in Nat
    BY <1>2, <2>2 DEF Backlog
  <2>5. QED
    BY <1>2, <1>3, <2>2, <2>3, <2>4 DEF QueueInv, Sends
<1>4. CASE EndsWait
  <2>1. /\ counter' = counter /\ toGate' = toGate /\ pc' \notin Waiting /\ pc \in Waiting
        /\ alive' = alive
    BY <1>4 DEF EndsWait, NoRequest, Answered, NoAnswer, Unusable, TimesOut
  <2>2. CASE TimesOut
    BY <2>1, <2>2 DEF QueueInv, Backlog, TimesOut
  <2>3. CASE Answered \/ Unusable
    <3>1. Len(fromGate') = Len(fromGate) - 1 /\ missed' = missed
      BY <1>1, <2>3, TakeItems DEF Answered, Unusable
    <3>2. QED
      BY <1>2, <2>1, <3>1 DEF QueueInv, Backlog
  <2>4. QED
    BY <1>4, <2>2, <2>3 DEF EndsWait, NoAnswer
<1>5. CASE Rests
  BY <1>5 DEF QueueInv, Rests, sessionVars, Backlog
<1>6. CASE GivesUp
  BY <1>6 DEF QueueInv, GivesUp, Abandons, Backlog
<1>7. CASE GateServes /\ pc' = pc
  <2>1. PICK f, l : /\ f = toGate[1]
                    /\ l.id \in {f.id, NoId}
                    /\ Len(toGate) \in Nat \ {0}
                    /\ Len(toGate') = Len(toGate) - 1
                    /\ Len(fromGate') = Len(fromGate) + 1
                    /\ \A i \in 1 .. Len(fromGate) : fromGate'[i] = fromGate[i]
                    /\ fromGate'[Len(fromGate) + 1] = l
                    /\ UNCHANGED <<counter, alive, missed, policy>>
    BY <1>1, <1>7, ServeItems
  <2>2. Backlog' = Backlog
    BY <1>2, <2>1 DEF Backlog
  <2>3. ASSUME missed, pc \in Waiting PROVE fromGate'[1].id # counter
    <3>1. CASE fromGate # <<>>
      BY <1>2, <2>1, <2>3, <3>1 DEF QueueInv
    <3>2. CASE fromGate = <<>>
      <4>1. alive /\ Len(toGate) >= 2
        BY <1>2, <1>7, <2>3, <3>2 DEF QueueInv, Backlog, GateServes
      <4>2. toGate[1].id < toGate[2].id /\ toGate[1].id \in 1 .. counter
            /\ toGate[2].id \in 1 .. counter
        BY <1>2, <4>1 DEF QueueInv, Ordered
      <4>3. QED
        BY <1>2, <2>1, <3>2, <4>2 DEF NoId
    <3>3. QED
      BY <3>1, <3>2
  <2>4. QED
    BY <1>7, <2>1, <2>2, <2>3 DEF QueueInv
<1>8. CASE GateStops /\ pc' = pc
  <2>1. /\ Len(fromGate') = Len(fromGate) + 1
        /\ \A i \in 1 .. Len(fromGate) : fromGate'[i] = fromGate[i]
        /\ fromGate'[Len(fromGate) + 1].id = NoId
        /\ alive' = FALSE
        /\ UNCHANGED <<counter, missed>>
    BY <1>1, <1>8, StopItems DEF EndOfStream
  <2>2. ASSUME missed, pc \in Waiting PROVE fromGate'[1].id # counter
    BY <1>2, <2>1, <2>2 DEF QueueInv, NoId
  <2>3. QED
    BY <1>8, <2>1, <2>2 DEF QueueInv
<1>9. QED
  BY <1>3, <1>4, <1>5, <1>6, <1>7, <1>8, SessionStep

\* The order, the count and the engagement of the host go together.
LEMMA QueueInvStep == TypeInv /\ QueueInv /\ [Next]_vars => QueueInv'
BY OrderedStep, BacklogStep, EngagedStep DEF QueueInv

\* The session facts hold in every reachable state.
LEMMA QueueInvariant == Spec => []QueueInv
<1>1. Init => QueueInv
  <2> SUFFICES ASSUME Init PROVE QueueInv
    OBVIOUS
  <2>1. Len(toGate) = 0 /\ Len(fromGate) = 0
    BY EmptySeq DEF Init, SessionInit
  <2>2. QED
    BY <2>1 DEF Init, SessionInit, QueueInv, Ordered, Waiting, Engaged
<1>2. QED
  BY <1>1, QueueInvStep, TypeInvariant, PTL DEF Spec

(***************************************************************************)
(* Once an answer has been missed nothing more happens in the world: the   *)
(* session never finds its place again, whatever still arrives.            *)
(***************************************************************************)
THEOREM FailsClosed == Spec => FailsClosedAfterMissing
<1>1. TypeInv /\ QueueInv /\ [Next]_vars => (missed => effects' = effects)
  <2> SUFFICES ASSUME TypeInv, QueueInv, [Next]_vars, missed PROVE effects' = effects
    OBVIOUS
  <2>1. ~AddsEffect
    BY DEF QueueInv, AddsEffect, Engaged
  <2>2. QED
    BY <2>1, EffectsStep
<1>2. TypeInv /\ QueueInv /\ [Next]_vars => [missed => effects' = effects]_vars
  BY <1>1
<1>3. QED
  BY <1>2, TypeInvariant, QueueInvariant, PTL DEF Spec, FailsClosedAfterMissing

-----------------------------------------------------------------------------
(***************************************************************************)
(* Outcomes.  The Gate's answer to OUTCOME repeats what it was told, and   *)
(* the receipt takes the answer over only if it is the one to its own      *)
(* OUTCOME: it keeps what the executor ended with.                         *)
(***************************************************************************)
EchoInv ==
    pc = "reporting" =>
        /\ \A i \in 1 .. Len(toGate) :
              toGate[i].id = counter /\ toGate[i].operation = "outcome"
                 => toGate[i].word = receipt.outcome
        /\ \A i \in 1 .. Len(fromGate) :
              fromGate[i].id = counter /\ fromGate[i].verdict \in Statuses
                 => fromGate[i].verdict = receipt.outcome

\* Only the answer to an OUTCOME is a status, and it is the one that was told.
LEMMA StatusReplies ==
  ASSUME GateTypes, NEW f \in Frames, WellFormed(f), NEW r \in Replies(f),
         r.verdict \in Statuses
  PROVE  f.operation = "outcome" /\ r.verdict = f.word
<1>1. CASE f.operation = "prepare"
  BY <1>1 DEF Replies, PrepareReplies, Reply, Statuses, GateTypes, Decisions, WellFormed, Actions
<1>2. CASE f.operation = "approval_decision"
  BY <1>2 DEF Replies, ApprovalReplies, Reply, Statuses
<1>3. CASE f.operation = "commit"
  BY <1>3 DEF Replies, CommitReplies, Reply, Statuses
<1>4. CASE f.operation = "outcome"
  BY <1>4 DEF Replies, OutcomeReplies, Reply, Statuses
<1>5. CASE f.operation \in {"hello", "shutdown"}
  BY <1>5 DEF Replies, Reply, Statuses
<1>6. QED
  BY <1>1, <1>2, <1>3, <1>4, <1>5 DEF Frames, Operations

\* So an OUTCOME that is answered leaves the receipt as it is.
LEMMA OutcomeKept ==
  ASSUME TypeInv, EchoInv, OutcomeAnswered PROVE receipt' = receipt
<1>1. CASE Answered
  <2>1. /\ Len(fromGate) \in Nat \ {0} /\ Head(fromGate) = fromGate[1]
        /\ Head(fromGate).id = counter
    BY <1>1, TakeItems, QueueIds DEF Answered, TypeInv
  <2>2. PICK v : v = Answer.verdict
    OBVIOUS
  <2>3. v \in Statuses => v = receipt.outcome
    BY <2>1, <2>2 DEF EchoInv, OutcomeAnswered, Answer
  <2>4. receipt' = IF v \in Statuses THEN [receipt EXCEPT !.outcome = v] ELSE receipt
    BY <1>1, <2>2 DEF OutcomeAnswered, Returns, Answered, NoAnswer, Unusable, TimesOut
  <2>5. [receipt EXCEPT !.outcome = receipt.outcome] = receipt
    BY DEF TypeInv, HostTypes, Receipts
  <2>6. QED
    BY <2>3, <2>4, <2>5
<1>2. CASE ~Answered
  BY <1>2 DEF OutcomeAnswered, Returns
<1>3. QED
  BY <1>1, <1>2

\* The frame is written with the receipt, and the Gate answers a frame of that id.
LEMMA EchoInvStep == TypeInv /\ QueueInv /\ EchoInv /\ [Next]_vars => EchoInv'
<1> SUFFICES ASSUME TypeInv, QueueInv, EchoInv, [Next]_vars, pc' = "reporting"
             PROVE  /\ \A i \in 1 .. Len(toGate') :
                          toGate'[i].id = counter' /\ toGate'[i].operation = "outcome"
                             => toGate'[i].word = receipt'.outcome
                    /\ \A i \in 1 .. Len(fromGate') :
                          fromGate'[i].id = counter' /\ fromGate'[i].verdict \in Statuses
                             => fromGate'[i].verdict = receipt'.outcome
  BY DEF EchoInv
<1>1. QueueTypes /\ GateTypes /\ Ordered /\ counter \in Nat /\ Len(fromGate) \in Nat
      /\ Len(toGate) \in Nat
  BY QueueIds DEF TypeInv, QueueInv
<1>2. CASE Execute
  <2>1. PICK c \in Conclusions : Concludes(c)
    BY <1>2 DEF Execute
  <2>2. receipt'.outcome = c.status
    BY <2>1 DEF Concludes, Tells, TypeInv, HostTypes, Receipts
  <2>3. Request("outcome", prepared.ticket, NoAction, c.status)
    BY <2>1 DEF Concludes, Tells, Ask
  <2>4. counter' = counter + 1 /\ fromGate' = fromGate
    BY <2>3 DEF Request
  <2>5. ASSUME NEW i \in 1 .. Len(toGate'), toGate'[i].id = counter'
        PROVE  toGate'[i].word = c.status
    <3>1. CASE toGate' = toGate
      BY <1>1, <2>4, <2>5, <3>1 DEF Ordered
    <3>2. CASE toGate' # toGate
      <4>1. PICK f : /\ f = [id |-> counter + 1, operation |-> "outcome",
                              ticket |-> prepared.ticket, action |-> NoAction,
                              word |-> c.status]
                     /\ Len(toGate') = Len(toGate) + 1
                     /\ \A j \in 1 .. Len(toGate) : toGate'[j] = toGate[j]
                     /\ toGate'[Len(toGate) + 1] = f
        BY <1>1, <2>3, <3>2, RequestItems
      <4>2. i \in 1 .. Len(toGate) \/ i = Len(toGate) + 1
        BY <1>1, <4>1
      <4>3. QED
        BY <1>1, <2>4, <2>5, <4>1, <4>2 DEF Ordered
    <3>3. QED
      BY <3>1, <3>2
  <2>6. \A i \in 1 .. Len(fromGate') : fromGate'[i].id # counter'
    BY <1>1, <2>4 DEF Ordered
  <2>7. QED
    BY <2>2, <2>5, <2>6
<1>3. CASE GateServes /\ UNCHANGED hostVars
  <2>1. PICK f, l, r :
          /\ f = toGate[1]
          /\ r \in Replies(f)
          /\ l.id \in {f.id, NoId} /\ l.verdict = r.verdict
          /\ Len(toGate) \in Nat \ {0}
          /\ Len(toGate') = Len(toGate) - 1
          /\ \A i \in 1 .. Len(toGate') : toGate'[i] = toGate[i + 1]
          /\ Len(fromGate') = Len(fromGate) + 1
          /\ \A i \in 1 .. Len(fromGate) : fromGate'[i] = fromGate[i]
          /\ fromGate'[Len(fromGate) + 1] = l
          /\ counter' = counter
    BY <1>1, <1>3, ServeItems
  <2>2. f \in Frames /\ WellFormed(f) /\ pc = "reporting" /\ counter > 0
    BY <1>1, <1>3, <2>1, QueueIds DEF QueueTypes, hostVars, QueueInv, Waiting
  <2>3. l.id = counter /\ l.verdict \in Statuses => l.verdict = receipt.outcome
    BY <1>1, <2>1, <2>2, StatusReplies DEF EchoInv, NoId
  <2>4. ASSUME NEW i \in 1 .. Len(toGate') PROVE i + 1 \in 1 .. Len(toGate)
    BY <2>1
  <2>5. ASSUME NEW i \in 1 .. Len(fromGate') PROVE i \in 1 .. Len(fromGate) \/ i = Len(fromGate) + 1
    BY <1>1, <2>1
  <2>6. receipt' = receipt
    BY <1>3 DEF hostVars
  <2>7. \A i \in 1 .. Len(toGate') :
          toGate'[i].id = counter' /\ toGate'[i].operation = "outcome"
             => toGate'[i].word = receipt'.outcome
    BY <2>1, <2>2, <2>4, <2>6 DEF EchoInv
  <2>8. \A i \in 1 .. Len(fromGate') :
          fromGate'[i].id = counter' /\ fromGate'[i].verdict \in Statuses
             => fromGate'[i].verdict = receipt'.outcome
    BY <2>1, <2>2, <2>3, <2>5, <2>6 DEF EchoInv
  <2>9. QED
    BY <2>7, <2>8
<1>4. CASE GateStops /\ UNCHANGED hostVars
  <2>1. /\ Len(fromGate') = Len(fromGate) + 1
        /\ \A i \in 1 .. Len(fromGate) : fromGate'[i] = fromGate[i]
        /\ fromGate'[Len(fromGate) + 1].id = NoId
        /\ Len(toGate') = 0
        /\ counter' = counter
    BY <1>1, <1>4, StopItems DEF EndOfStream
  <2>2. receipt' = receipt /\ pc = "reporting" /\ counter > 0
    BY <1>4 DEF hostVars, QueueInv, Waiting
  <2>3. QED
    BY <1>1, <2>1, <2>2 DEF EchoInv, NoId
<1>5. CASE UNCHANGED <<pc, receipt, toGate, fromGate, counter>>
  BY <1>5 DEF EchoInv
<1>6. QED
  BY <1>2, <1>3, <1>4, <1>5
     DEF Next, HostStep, StartSession, HelloAnswered, CloseSession, StartRun, Normalize,
         PrepareAnswered, Adjudicate, ApprovalAnswered, Revalidate, SendCommit, CommitAnswered,
         StartsExecution, OutcomeAnswered, Interrupted, Returns, Finish, CallerMutates, Drift,
         GateStep, UpdatePolicy, hostVars, sessionVars, vars

\* The echo holds in every reachable state.
LEMMA EchoInvariant == Spec => []EchoInv
<1>1. Init => EchoInv
  BY DEF Init, EchoInv
<1>2. QED
  BY <1>1, EchoInvStep, TypeInvariant, QueueInvariant, PTL DEF Spec

-----------------------------------------------------------------------------
(***************************************************************************)
(* Receipts.  Until the executor has run the receipt in the making claims  *)
(* no outcome and nothing has happened for the run; afterwards the receipt *)
(* is already honest.                                                      *)
(***************************************************************************)
\* A run in progress whose executor has not returned.
Undecided == InRun \ {"reporting"}

Honest(n, r) ==
    /\ r.outcome = "succeeded" => EffectIn(n) /\ r.executed
    /\ EffectIn(n) /\ r.reason # "internal_error" => r.decision = "allow"

HonestInv ==
    /\ \A n \in 1 .. Len(receipts) : Honest(n, receipts[n].receipt)
    /\ \A n \in Nat : EffectIn(n) => n \in 1 .. run
    /\ pc \in Undecided => ~EffectIn(run)
    /\ pc \in Undecided => receipt.outcome = "none"
    /\ pc = "executing" => receipt.decision = "allow"
    /\ pc \in {"reporting", "finishing"} => Honest(run, receipt)

\* An honest receipt stays honest while nothing is added for its run.
LEMMA HonestKept ==
  ASSUME TypeInv, [Next]_vars, NEW n, NEW r, Honest(n, r), ~AddsEffect \/ n # run
  PROVE  Honest(n, r)'
BY EffectInStep DEF Honest

\* Receipts written by the host's refusals claim no outcome.
LEMMA RefusalsHonest ==
  ASSUME NEW n, ~EffectIn(n), NEW d, NEW reason PROVE Honest(n, Receipt(d, reason))
BY DEF Honest, Receipt, Blank

\* Success is concluded only of what happened.
LEMMA SuccessHappened ==
  ASSUME NEW c \in Conclusions, c.status = "succeeded" PROVE c.happened /\ c.executed
<1>1. /\ \A h, x : /\ Conclusion(h, x, "failed").status # "succeeded"
                   /\ Conclusion(h, x, "uncertain").status # "succeeded"
      /\ \A s : Conclusion(TRUE, TRUE, s).happened /\ Conclusion(TRUE, TRUE, s).executed
  BY DEF Conclusion
<1>2. c \in RealConclusions \cup FixtureConclusions \cup Refused
  BY DEF Conclusions
<1>3. QED
  BY <1>1, <1>2, Zenon DEF RealConclusions, FixtureConclusions, Refused, Raised

\* Runs follow one another, and none becomes undecided again.
LEMMA RunStep ==
  ASSUME [Next]_vars
  PROVE  \/ run' = run /\ (pc' \in Undecided => pc \in Undecided)
         \/ pc = "idle" /\ run' = run + 1 /\ pc' \in {"normalizing", "finishing"}
BY DEF Next, HostStep, StartSession, HelloAnswered, CloseSession, StartRun, Normalize,
       PrepareAnswered, Adjudicate, ApprovalAnswered, Revalidate, SendCommit, CommitAnswered,
       StartsExecution, Execute, Concludes, Tells, OutcomeAnswered, Interrupted, Returns,
       Finish, CallerMutates, Drift, GateStep, UpdatePolicy, hostVars, vars, KeepRun, InRun,
       Undecided

\* Every step that makes a receipt, or an effect, makes an honest one.
LEMMA HonestInvStep == TypeInv /\ EchoInv /\ HonestInv /\ [Next]_vars => HonestInv'
<1> SUFFICES ASSUME TypeInv, EchoInv, HonestInv, [Next]_vars PROVE HonestInv'
  OBVIOUS
<1>1. /\ run \in Nat
      /\ Len(receipts) \in Nat
      /\ pc \in InRun \cup {"finishing"} => run = Len(receipts) + 1
      /\ AddsEffect => pc = "executing" /\ pc' \in {"reporting", "finishing"}
  BY LenProperties DEF TypeInv, HostTypes, RunShape, Tickets, AddsEffect
<1>2. \/ run' = run /\ (pc' \in Undecided => pc \in Undecided)
      \/ pc = "idle" /\ run' = run + 1
  BY RunStep
<1>3. (\A n \in 1 .. Len(receipts) : Honest(n, receipts[n].receipt))'
  <2>1. ASSUME NEW n \in 1 .. Len(receipts) PROVE Honest(n, receipts[n].receipt)'
                                                     \/ receipts'[n] # receipts[n]
    <3>1. PICK r : r = receipts[n].receipt
      OBVIOUS
    <3>2. Honest(n, r) /\ (~AddsEffect \/ n # run)
      BY <1>1, <3>1 DEF HonestInv, InRun, Undecided
    <3>3. Honest(n, r)'
      BY <3>2, HonestKept
    <3>4. QED
      BY <3>1, <3>3 DEF Honest
  <2>2. CASE Finish
    <3>1. [frozen |-> frozen, norm |-> norm, receipt |-> receipt] \in Records
      BY DEF TypeInv, HostTypes, Records
    <3>2. /\ Len(receipts') = Len(receipts) + 1
          /\ \A n \in 1 .. Len(receipts) : receipts'[n] = receipts[n]
          /\ receipts'[Len(receipts) + 1].receipt = receipt
      BY <2>2, <3>1, AppendProperties DEF Finish, TypeInv, HostTypes
    <3>3. PICK r : r = receipt
      OBVIOUS
    <3>4. PICK n : n = run
      OBVIOUS
    <3>5. Honest(n, r)'
      BY <1>1, <2>2, <3>3, <3>4, HonestKept DEF Finish, HonestInv
    <3>6. Honest(n, receipts[n].receipt)' /\ n = Len(receipts) + 1
      BY <1>1, <2>2, <3>2, <3>3, <3>4, <3>5 DEF Honest, Finish
    <3>7. QED
      BY <1>1, <2>1, <3>2, <3>6
  <2>3. CASE receipts' = receipts
    BY <2>1, <2>3
  <2>4. QED
    BY <2>2, <2>3
       DEF Next, HostStep, StartSession, HelloAnswered, CloseSession, StartRun, Normalize,
           PrepareAnswered, Adjudicate, ApprovalAnswered, Revalidate, SendCommit, CommitAnswered,
           Execute, OutcomeAnswered, Interrupted, CallerMutates, Drift, GateStep, UpdatePolicy,
           hostVars, vars, KeepRun
<1>4. (\A n \in Nat : EffectIn(n) => n \in 1 .. run)'
  <2> SUFFICES ASSUME NEW n \in Nat, EffectIn(n)' PROVE n \in 1 .. run'
    OBVIOUS
  <2>1. n \in 1 .. run \/ (AddsEffect /\ n = run)
    BY EffectInStep DEF HonestInv
  <2>2. n \in 1 .. run
    BY <1>1, <2>1 DEF TypeInv, RunShape, InRun, Tickets
  <2>3. QED
    BY <1>1, <1>2, <2>2
<1>5. (pc \in Undecided => ~EffectIn(run))'
  <2> SUFFICES ASSUME pc' \in Undecided, EffectIn(run)' PROVE FALSE
    OBVIOUS
  <2>1. ~AddsEffect
    BY <1>1 DEF InRun, Undecided
  <2>2. PICK n : n = run'
    OBVIOUS
  <2>3. EffectIn(n)'
    BY <2>2 DEF EffectIn
  <2>4. EffectIn(n)
    BY <2>1, <2>3, EffectInStep
  <2>5. QED
    BY <1>1, <1>2, <2>2, <2>4 DEF HonestInv
<1>6. (/\ pc \in Undecided => receipt.outcome = "none"
       /\ pc = "executing" => receipt.decision = "allow")'
  <2>1. CASE CommitAnswered
    BY <2>1 DEF CommitAnswered, StartsExecution, Returns, Receipt, Blank, InRun, Undecided
  <2>2. CASE \E e \in Envelopes, a \in Approvals : StartRun(e, a)
    BY <2>2 DEF StartRun, Blank, InRun, Undecided
  <2>3. CASE /\ receipt' = receipt
             /\ pc' \in Undecided => pc \in Undecided
             /\ pc' = "executing" => pc = "executing"
    BY <2>3 DEF HonestInv
  <2>4. CASE pc' \notin Undecided
    BY <2>4 DEF InRun, Undecided
  <2>5. QED
    BY <2>1, <2>2, <2>3, <2>4
       DEF Next, HostStep, StartSession, HelloAnswered, CloseSession, Normalize,
           PrepareAnswered, Adjudicate, ApprovalAnswered, Revalidate, SendCommit, Execute, Concludes, Tells,
           OutcomeAnswered, Interrupted, Returns, Finish, CallerMutates, Drift, GateStep,
           UpdatePolicy, hostVars, vars, InRun, Undecided
<1>7. (pc \in {"reporting", "finishing"} => Honest(run, receipt))'
  <2> SUFFICES ASSUME pc' \in {"reporting", "finishing"} PROVE Honest(run, receipt)'
    OBVIOUS
  <2>1. PICK n : n = run'
    OBVIOUS
  <2>2. PICK r : r = receipt'
    OBVIOUS
  <2>3. (Honest(run, receipt)' <=> Honest(n, r)') /\ (EffectIn(n)' <=> EffectIn(run)')
    BY <2>1, <2>2 DEF Honest, EffectIn
  <2>4. CASE ~EffectIn(n) /\ ~AddsEffect /\ \E d, reason : r = Receipt(d, reason)
    BY <2>3, <2>4, RefusalsHonest, HonestKept
  <2>5. CASE Execute
    <3>1. PICK c \in Conclusions : Concludes(c)
      BY <2>5 DEF Execute
    <3>2. r.outcome = c.status /\ r.executed = c.executed /\ r.decision = "allow" /\ n = run
      BY <2>1, <2>2, <2>5, <3>1 DEF Execute, Concludes, Tells, KeepRun, HonestInv, TypeInv,
                                    HostTypes, Receipts
    <3>3. c.status = "succeeded" => AddsEffect /\ c.executed
      <4>1. ASSUME c.happened PROVE effects' # effects
        <5>1. effects' = Append(effects, Effect) /\ effects \in Seq(Effects)
          BY <3>1, <4>1 DEF Concludes, Tells, TypeInv, HostTypes
        <5>2. Effect \in Effects
          BY <2>5 DEF Execute, Effect, Effects, TypeInv, HostTypes, RunShape, InRun, Undecided
        <5>3. Len(effects') = Len(effects) + 1 /\ Len(effects) \in Nat
          BY <5>1, <5>2, AppendProperties, LenProperties
        <5>4. QED
          BY <5>3
      <4>2. QED
        BY <4>1, SuccessHappened, EffectsStep
    <3>4. QED
      BY <2>3, <3>2, <3>3, EffectInStep DEF Honest
  <2>6. CASE Interrupted
    <3>1. r = InternalError
      BY <2>2, <2>6 DEF Interrupted, Returns
    <3>2. QED
      BY <2>3, <3>1 DEF Honest, InternalError, Receipt, Blank
  <2>10. CASE OutcomeAnswered
    <3>1. receipt' = receipt /\ run' = run /\ pc = "reporting" /\ ~AddsEffect
      BY <2>10, OutcomeKept DEF OutcomeAnswered, KeepRun, AddsEffect
    <3>2. Honest(n, r)
      BY <2>1, <2>2, <3>1 DEF HonestInv
    <3>3. QED
      BY <2>3, <3>1, <3>2, HonestKept
  <2>7. CASE pc \in {"reporting", "finishing"} /\ receipt' = receipt /\ run' = run
    BY <1>1, <2>1, <2>2, <2>3, <2>7, HonestKept DEF HonestInv
  <2>8. CASE \/ \E e \in Envelopes, a \in Approvals : StartRun(e, a)
             \/ Normalize \/ PrepareAnswered \/ Adjudicate \/ ApprovalAnswered
             \/ Revalidate \/ CommitAnswered
    <3>1. \E d, reason : r = Receipt(d, reason)
      BY <2>2, <2>8 DEF StartRun, Normalize, PrepareAnswered, Adjudicate, ApprovalAnswered,
         Revalidate, SendCommit, CommitAnswered, StartsExecution, Returns, InternalError
    <3>2. ~AddsEffect
      BY <2>8 DEF AddsEffect, StartRun, Normalize, PrepareAnswered, Adjudicate,
         ApprovalAnswered, Revalidate, SendCommit, CommitAnswered
    <3>3. ~EffectIn(n)
      BY <1>1, <2>1, <2>8 DEF HonestInv, StartRun, Normalize, PrepareAnswered, Adjudicate,
         ApprovalAnswered, Revalidate, SendCommit, CommitAnswered, KeepRun, InRun, Undecided
    <3>4. QED
      BY <2>4, <3>1, <3>2, <3>3
  <2>9. QED
    BY <2>5, <2>6, <2>7, <2>8, <2>10
       DEF Next, HostStep, StartSession, HelloAnswered, CloseSession, SendCommit, Returns,
           Finish, CallerMutates, Drift, GateStep, UpdatePolicy, hostVars, vars, KeepRun
<1>8. QED
  BY <1>3, <1>4, <1>5, <1>6, <1>7 DEF HonestInv

\* The receipts are honest in every reachable state.
LEMMA HonestInvariant == Spec => []HonestInv
<1>1. Init => HonestInv
  <2> SUFFICES ASSUME Init PROVE HonestInv
    OBVIOUS
  <2>1. Len(receipts) = 0 /\ Len(effects) = 0
    BY EmptySeq DEF Init
  <2>2. QED
    BY <2>1 DEF Init, HonestInv, EffectIn, InRun, Undecided
<1>2. QED
  BY <1>1, HonestInvStep, TypeInvariant, EchoInvariant, PTL DEF Spec

(***************************************************************************)
(* A receipt claims success only of an effect that took place, and an      *)
(* effect has an ALLOW, unless the run was cut short.                      *)
(***************************************************************************)
THEOREM ReceiptsHonest == Spec => []ReceiptsAreHonest
<1>1. HonestInv => ReceiptsAreHonest
  BY DEF HonestInv, Honest, ReceiptsAreHonest
<1>2. QED
  BY <1>1, HonestInvariant, PTL

-----------------------------------------------------------------------------
(***************************************************************************)
(* Tickets.  What the Gate holds under a ticket, what the host believes it *)
(* holds, what the frames and answers under way will make of it, and what  *)
(* has happened in the world for it.  A run and its ticket have the same   *)
(* number.                                                                 *)
(***************************************************************************)
ResultOf(n) == IF n \in 1 .. Len(receipts) THEN receipts[n].receipt ELSE receipt

\* What the Gate is told of a run is what the receipt of the run says.
Said(n, w) == ResultOf(n).outcome = w \/ ResultOf(n).reason = "internal_error"

\* The frame of the request that waits ...
Current(f) ==
    /\ pc = "preparing"  => f.operation = "prepare" /\ f.ticket = run /\ f.action = norm
    /\ pc = "approving"  => f.operation = "approval_decision" /\ f.ticket = run
                            /\ f.word = approval
    /\ pc = "committing" => f.operation = "commit" /\ f.ticket = run
    /\ pc = "reporting"  => f.operation = "outcome" /\ f.ticket = run

\* ... and its answer, which says what has become of the ticket.
Replied(l) ==
    /\ pc = "preparing" =>
          /\ l.ticket = run
          /\ l.verdict \in Decisions =>
                /\ plan[run].action = norm
                /\ plan[run].decision = l.verdict
                /\ plan[run].stage = Opened(l.verdict)
    /\ pc = "approving" /\ l.verdict = "recorded" => plan[run].stage = approval
    /\ pc = "committing" => (l.verdict = "dispatched" <=> plan[run].stage = "dispatched")
    /\ pc = "reporting" => plan[run].stage # "dispatched"

\* Frames the Gate has not read, of this run and of earlier ones.
FrameOK(f) ==
    /\ f.ticket \in 0 .. run
    /\ f.operation \in {"hello", "shutdown"} <=> f.ticket = 0
    /\ pc = "normalizing" => f.ticket # run
    /\ pc = "preparing" /\ f.ticket = run => f.id = counter
    /\ pc \in Waiting /\ f.id = counter => Current(f)
    /\ f.operation = "prepare" => ~EffectIn(f.ticket)
    /\ f.operation = "commit" => f.ticket \in lost \/ (f.ticket = run /\ pc = "committing")
    /\ f.operation = "outcome" => Said(f.ticket, f.word) /\ (f.ticket = run => pc \notin Undecided)

FrameInv == \A i \in 1 .. Len(toGate) : FrameOK(toGate[i])

LineInv ==
    \A i \in 1 .. Len(fromGate) :
        pc \in Waiting /\ fromGate[i].id = counter => Replied(fromGate[i])

\* What the host may rely on between two requests.
KnowInv ==
    /\ lost \subseteq 1 .. run
    /\ pc \in InRun => run \notin lost
    /\ pc \in Engaged => prepared.ticket = run
    /\ pc = "prepared" =>
          /\ prepared.verdict \in Decisions \cup {"unavailable"}
          /\ prepared.verdict \in Decisions =>
                /\ plan[run].action = norm
                /\ plan[run].decision = prepared.verdict
                /\ plan[run].stage = Opened(prepared.verdict)
    /\ pc \in Engaged \ {"prepared"} => plan[run].action = norm
    /\ pc = "approving" =>
          approval \in {"approved", "denied"} /\ plan[run].stage \in {"asked", approval}
    /\ pc \in {"revalidating", "revalidated"} => plan[run].stage \in {"allowed", "approved"}
    /\ pc = "committing" /\ Len(toGate) > 0 => plan[run].stage \in {"allowed", "approved"}
    /\ pc \in {"revalidating", "revalidated", "committing", "executing"} /\ plan[run].decision = "ask"
          => approval = "approved"
    /\ pc = "executing" => plan[run].stage = "dispatched"

PlanInv ==
    \A n \in Tickets :
        /\ n > run \/ (n = run /\ pc = "normalizing") => plan[n].stage = "none"
        /\ plan[n].stage = "dispatched" =>
              n \in lost \/ (n = run /\ pc \in {"committing", "executing", "reporting"})
        /\ plan[n].stage = "settled" => Said(n, plan[n].said) /\ (n = run => pc \notin Undecided)

\* An effect and the ticket it was committed under.
Covered(e) ==
    /\ e.ticket = e.run
    /\ e.run \in Tickets
    /\ plan[e.run].stage \in {"dispatched", "settled"}
    /\ plan[e.run].action = e.action
    /\ plan[e.run].decision = "ask" => e.approval = "approved"

EffectInv ==
    /\ \A i \in 1 .. Len(effects) : Covered(effects[i])
    /\ \A i, j \in 1 .. Len(effects) : effects[i].run = effects[j].run => i = j

TicketInv == FrameInv /\ LineInv /\ KnowInv /\ PlanInv /\ EffectInv

\* What a request asks for, by the wait it begins.
Asked(f) ==
    /\ counter' = counter + 1
    /\ f.id = counter'
    /\ \/ pc' \in {"greeting", "closed"} /\ f.operation \in {"hello", "shutdown"} /\ f.ticket = 0
       \/ pc = "normalizing" /\ pc' = "preparing"
          /\ f.operation = "prepare" /\ f.ticket = run /\ f.action = norm'
       \/ pc = "prepared" /\ pc' = "approving"
          /\ f.operation = "approval_decision" /\ f.ticket = prepared.ticket /\ f.word = approval
       \/ pc = "revalidated" /\ pc' = "committing"
          /\ f.operation = "commit" /\ f.ticket = prepared.ticket
       \/ pc = "executing" /\ pc' = "reporting"
          /\ f.operation = "outcome" /\ f.ticket = prepared.ticket /\ f.word = receipt'.outcome

\* Every frame was there before the step, or is what the step asks.
LEMMA FrameStep ==
  ASSUME TypeInv, [Next]_vars, NEW i \in 1 .. Len(toGate')
  PROVE  (\E j \in 1 .. Len(toGate) : toGate'[i] = toGate[j]) \/ Asked(toGate'[i])
<1>1. QueueTypes /\ Len(toGate) \in Nat
  BY QueueIds DEF TypeInv
<1>2. ASSUME NEW op, NEW t, NEW a, NEW w, Request(op, t, a, w)
      PROVE  \/ \E j \in 1 .. Len(toGate) : toGate'[i] = toGate[j]
             \/ /\ counter' = counter + 1
                /\ toGate'[i].id = counter' /\ toGate'[i].operation = op
                /\ toGate'[i].ticket = t /\ toGate'[i].action = a /\ toGate'[i].word = w
  <2>1. CASE toGate' = toGate
    BY <2>1
  <2>2. CASE toGate' # toGate
    <3>1. PICK f : /\ f = [id |-> counter + 1, operation |-> op, ticket |-> t, action |-> a,
                            word |-> w]
                   /\ counter' = counter + 1
                   /\ Len(toGate') = Len(toGate) + 1
                   /\ \A j \in 1 .. Len(toGate) : toGate'[j] = toGate[j]
                   /\ toGate'[Len(toGate) + 1] = f
      BY <1>1, <1>2, <2>2, RequestItems
    <3>2. i \in 1 .. Len(toGate) \/ i = Len(toGate) + 1
      BY <1>1, <3>1
    <3>3. QED
      BY <3>1, <3>2
  <2>3. QED
    BY <2>1, <2>2
<1>3. CASE StartSession \/ CloseSession
  BY <1>2, <1>3 DEF StartSession, CloseSession, Ask, Asked
<1>4. CASE Normalize
  BY <1>2, <1>4 DEF Normalize, Ask, Hears, NoRequest, Asked
<1>5. CASE Adjudicate
  BY <1>2, <1>5 DEF Adjudicate, Ask, Hears, NoRequest, Asked
<1>6. CASE SendCommit
  BY <1>2, <1>6 DEF SendCommit, Ask, Asked
<1>7. CASE Execute
  <2>1. PICK c \in Conclusions : Concludes(c)
    BY <1>7 DEF Execute
  <2>2. receipt'.outcome = c.status
    BY <2>1 DEF Concludes, Tells, TypeInv, HostTypes, Receipts
  <2>3. QED
    BY <1>2, <1>7, <2>1, <2>2 DEF Execute, Concludes, Tells, Ask, Asked
<1>8. CASE GateServes
  <2>1. /\ Len(toGate') = Len(toGate) - 1
        /\ \A j \in 1 .. Len(toGate') : toGate'[j] = toGate[j + 1]
    BY <1>1, <1>8, ServeItems
  <2>2. QED
    BY <1>1, <2>1
<1>9. CASE GateStops
  BY <1>1, <1>9, StopItems
<1>10. CASE UNCHANGED toGate
  BY <1>10
<1>11. QED
  BY <1>3, <1>4, <1>5, <1>6, <1>7, <1>8, <1>9, <1>10
     DEF Next, HostStep, HelloAnswered, StartRun, PrepareAnswered, ApprovalAnswered, Revalidate,
         CommitAnswered, OutcomeAnswered, Hears, NoRequest, Interrupted, Abandons, Finish,
         CallerMutates, Drift, GateStep, UpdatePolicy, sessionVars, vars

\* While a wait goes on, the host changes nothing of its own.
LEMMA WaitKept ==
  ASSUME [Next]_vars, pc' \in Waiting
  PROVE  \/ pc \notin Waiting /\ counter' = counter + 1 /\ fromGate' = fromGate
         \/ UNCHANGED <<pc, run, approval, norm, prepared, receipt, receipts, effects, lost, counter>>
BY DEF Next, HostStep, StartSession, HelloAnswered, CloseSession, StartRun, Normalize,
       PrepareAnswered, Adjudicate, ApprovalAnswered, Revalidate, SendCommit, CommitAnswered,
       StartsExecution, Execute, Concludes, Tells, OutcomeAnswered, Interrupted, Returns, Ask,
       Request, Finish, CallerMutates, Drift, GateStep, GateServes, GateStops, GateExits,
       UpdatePolicy, hostVars, sessionVars, vars, Waiting

\* Only the Gate changes what it holds.
LEMMA PlanStep ==
  ASSUME [Next]_vars
  PROVE  plan' = plan \/ (GateServes /\ UNCHANGED hostVars)
BY DEF Next, HostStep, StartSession, HelloAnswered, CloseSession, StartRun, Normalize,
       PrepareAnswered, Adjudicate, ApprovalAnswered, Revalidate, SendCommit, CommitAnswered,
       Execute, Concludes, Tells, OutcomeAnswered, Interrupted, Ask, Hears, Finish,
       CallerMutates, Drift, GateStep, GateStops, UpdatePolicy, gateVars, vars

\* A result the Gate was told of stays the result of the run.
LEMMA SaidKept ==
  ASSUME TypeInv, EchoInv, [Next]_vars, NEW n \in 1 .. run, NEW w, Said(n, w),
         n = run => pc \notin Undecided
  PROVE  Said(n, w)'
<1>1. /\ run \in Nat /\ Len(receipts) \in Nat
      /\ pc \in InRun \cup {"finishing"} => Len(receipts) = run - 1
      /\ pc \notin InRun \cup {"finishing"} => Len(receipts) = run
  BY LenProperties DEF TypeInv, HostTypes, RunShape
<1>2. CASE Finish
  <2>1. [frozen |-> frozen, norm |-> norm, receipt |-> receipt] \in Records
    BY DEF TypeInv, HostTypes, Records
  <2>2. /\ Len(receipts') = Len(receipts) + 1
        /\ \A m \in 1 .. Len(receipts) : receipts'[m] = receipts[m]
        /\ receipts'[Len(receipts) + 1].receipt = receipt
    BY <1>2, <2>1, AppendProperties DEF Finish, TypeInv, HostTypes
  <2>3. ResultOf(n)' = ResultOf(n)
    BY <1>1, <1>2, <2>2 DEF ResultOf, Finish
  <2>4. QED
    BY <2>3 DEF Said
<1>3. CASE receipts' = receipts /\ n \in 1 .. Len(receipts)
  <2>1. ResultOf(n)' = ResultOf(n)
    BY <1>3 DEF ResultOf
  <2>2. QED
    BY <2>1 DEF Said
<1>4. CASE receipts' = receipts /\ n \notin 1 .. Len(receipts)
  <2>1. n = run /\ pc \in {"reporting", "finishing"}
    BY <1>1, <1>4 DEF Undecided
  <2>2. ResultOf(n) = receipt /\ ResultOf(n)' = receipt'
    BY <1>4 DEF ResultOf
  <2>3. receipt' = receipt \/ receipt' = InternalError
    BY <1>4, <2>1, OutcomeKept
       DEF Next, HostStep, StartSession, HelloAnswered, CloseSession, StartRun, Normalize,
           PrepareAnswered, Adjudicate, ApprovalAnswered, Revalidate, SendCommit, CommitAnswered, Execute,
           Interrupted, Returns, Finish, CallerMutates, Drift, GateStep,
           UpdatePolicy, hostVars, vars
  <2>4. QED
    BY <2>2, <2>3 DEF Said, InternalError, Receipt, Blank
<1>5. QED
  BY <1>2, <1>3, <1>4
     DEF Next, HostStep, StartSession, HelloAnswered, CloseSession, StartRun, Normalize,
         PrepareAnswered, Adjudicate, ApprovalAnswered, Revalidate, SendCommit, CommitAnswered, Execute,
         OutcomeAnswered, Interrupted, CallerMutates, Drift, GateStep, UpdatePolicy, KeepRun,
         hostVars, vars

\* What serving frame f with a verdict makes of the ticket it names.
Serves(f, verdict, old, new) ==
    \/ /\ verdict \notin Decisions \cup {"recorded", "dispatched"}
       /\ f.operation = "outcome" => old.stage # "dispatched"
       /\ new = old
    \/ /\ f.operation = "prepare"
       /\ verdict \in Decisions
       /\ new.action = f.action /\ new.decision = verdict /\ new.stage = Opened(verdict)
    \/ /\ f.operation = "approval_decision" /\ verdict = "recorded"
       /\ old.stage = "asked" /\ new.stage = f.word
       /\ new.action = old.action /\ new.decision = old.decision
    \/ /\ f.operation = "commit" /\ verdict = "dispatched"
       /\ old.stage \in {"allowed", "approved"} /\ new.stage = "dispatched"
       /\ new.action = old.action /\ new.decision = old.decision
    \/ /\ f.operation = "outcome" /\ verdict = f.word
       /\ old.stage = "dispatched" /\ new.stage = "settled" /\ new.said = f.word
       /\ new.action = old.action /\ new.decision = old.decision

\* Each of the four operations on a ticket moves it along the lifecycle or leaves it.
LEMMA ReplyServes ==
  ASSUME GateTypes, NEW f \in Frames, WellFormed(f), f.ticket \in Tickets,
         f.operation \notin {"hello", "shutdown"}, NEW r \in Replies(f)
  PROVE  Serves(f, r.verdict, plan[f.ticket], r.held)
<1>1. PICK old : old = plan[f.ticket] /\ old \in Plans
  BY DEF GateTypes
<1>2. CASE f.operation = "prepare"
  <2>1. policy[f.action.op] \in Decisions
    BY <1>2 DEF GateTypes, WellFormed, Actions
  <2>2. r \in PrepareReplies(f)
    BY <1>2 DEF Replies
  <2>3. \/ r = Reply(policy[f.action.op],
                     [action |-> f.action, decision |-> policy[f.action.op],
                      stage |-> Opened(policy[f.action.op]), said |-> "none"])
        \/ r.verdict \in {"unavailable", "no_plan", "error"} /\ r.held = plan[f.ticket]
    BY <2>2 DEF PrepareReplies, Reply
  <2>4. QED
    BY <1>2, <2>1, <2>3 DEF Serves, Reply, Decisions
<1>3. CASE f.operation = "approval_decision"
  BY <1>1, <1>3 DEF Replies, ApprovalReplies, Reply, Serves, Decisions, Plans
<1>4. CASE f.operation = "commit"
  BY <1>1, <1>4 DEF Replies, CommitReplies, Reply, Serves, Decisions, Plans
<1>5. CASE f.operation = "outcome"
  <2>1. \/ old.stage = "dispatched"
           /\ r = Reply(f.word, [old EXCEPT !.stage = "settled", !.said = f.word])
        \/ old.stage # "dispatched" /\ r = Reply("error", old)
    BY <1>1, <1>5 DEF Replies, OutcomeReplies
  <2>2. PICK new : new = [old EXCEPT !.stage = "settled", !.said = f.word]
    OBVIOUS
  <2>3. /\ new.stage = "settled" /\ new.said = f.word
        /\ new.action = old.action /\ new.decision = old.decision
    BY <1>1, <2>2 DEF Plans
  <2>4. \/ old.stage = "dispatched" /\ r.verdict = f.word /\ r.held = new
        \/ old.stage # "dispatched" /\ r.verdict = "error" /\ r.held = old
    BY <2>1, <2>2 DEF Reply
  <2>5. QED
    BY <1>1, <1>5, <2>3, <2>4 DEF Serves, Decisions
<1>6. QED
  BY <1>2, <1>3, <1>4, <1>5 DEF Frames, Operations

\* The Gate serves the oldest frame and answers with the newest line.
LEMMA ServeStep ==
  ASSUME TypeInv, FrameInv, GateServes
  PROVE  \E f, l :
            /\ f = toGate[1] /\ f \in Frames /\ WellFormed(f) /\ FrameOK(f)
            /\ l = fromGate'[Len(fromGate) + 1]
            /\ l.id \in {f.id, NoId} /\ l.ticket = f.ticket
            /\ \A t \in Tickets : t # f.ticket => plan'[t] = plan[t]
            /\ f.ticket \in Tickets =>
                  Serves(f, l.verdict, plan[f.ticket], plan'[f.ticket])
<1>1. QueueTypes /\ GateTypes
  BY DEF TypeInv
<1>2. PICK f, l, r :
        /\ f = toGate[1]
        /\ r \in Replies(f)
        /\ l.id \in {f.id, NoId} /\ l.verdict = r.verdict /\ l.ticket = f.ticket
        /\ plan' = [t \in Tickets |-> IF t = f.ticket THEN r.held ELSE plan[t]]
        /\ Len(toGate) \in Nat \ {0}
        /\ fromGate'[Len(fromGate) + 1] = l
  BY <1>1, ServeItems
<1>3. f \in Frames /\ WellFormed(f) /\ FrameOK(f)
  BY <1>1, <1>2, QueueIds DEF QueueTypes, FrameInv
<1>4. ASSUME f.ticket \in Tickets
      PROVE  Serves(f, l.verdict, plan[f.ticket], plan'[f.ticket])
  <2>1. f.operation \notin {"hello", "shutdown"}
    BY <1>3, <1>4 DEF FrameOK, Tickets
  <2>2. Serves(f, r.verdict, plan[f.ticket], r.held)
    BY <1>1, <1>2, <1>3, <1>4, <2>1, ReplyServes
  <2>3. plan'[f.ticket] = r.held
    BY <1>2, <1>4
  <2>4. QED
    BY <1>2, <2>2, <2>3
<1>5. QED
  BY <1>2, <1>3, <1>4

\* How runs end: what is lost is added when the run ends, and only its number.
LEMMA LostStep ==
  ASSUME [Next]_vars
  PROVE  /\ lost' = lost \/ (lost' = lost \cup {run} /\ pc \in InRun /\ pc' = "finishing")
         /\ pc \in {"committing", "executing", "reporting"} =>
               \/ pc' \in {"committing", "executing", "reporting"}
               \/ run \in lost'
               \/ pc = "committing" /\ Answered /\ Answer.verdict # "dispatched"
               \/ pc = "reporting" /\ Answered
         /\ pc = "committing" => pc' = "committing" \/ run \in lost' \/ Answered
BY DEF Next, HostStep, StartSession, HelloAnswered, CloseSession, StartRun, Normalize,
       PrepareAnswered, Adjudicate, ApprovalAnswered, Revalidate, SendCommit, CommitAnswered,
       StartsExecution, Execute, Concludes, Tells, OutcomeAnswered, Interrupted, Returns,
       Finish, CallerMutates, Drift, GateStep, UpdatePolicy, hostVars, vars, KeepRun, InRun

\* How the host gets to where it normalizes, and what it does on its way out of a wait.
LEMMA RunBegins ==
  ASSUME TypeInv, [Next]_vars
  PROVE  /\ pc' = "normalizing" => (run' = run + 1 \/ (run' = run /\ pc = "normalizing"))
         /\ pc' = "preparing" => run' = run /\ pc \in {"normalizing", "preparing"}
         /\ pc' \in InRun /\ run' = run => pc \in InRun
<1>1. run \in Nat
  BY DEF TypeInv, HostTypes
<1>2. CASE \E e \in Envelopes, a \in Approvals : StartRun(e, a)
  BY <1>1, <1>2 DEF StartRun
<1>3. CASE Drift(world') \/ UNCHANGED hostVars
  BY <1>3 DEF Drift, hostVars
<1>4. QED
  BY <1>2, <1>3 DEF Next, HostStep, StartSession, HelloAnswered, CloseSession, StartRun, Normalize,
       PrepareAnswered, Adjudicate, ApprovalAnswered, Revalidate, SendCommit, CommitAnswered,
       StartsExecution, Execute, Concludes, Tells, OutcomeAnswered, Interrupted, Returns,
       Finish, CallerMutates, Drift, GateStep, vars, KeepRun, InRun

\* A frame that was under way keeps its place in the story of its run.
LEMMA FrameKept ==
  ASSUME TypeInv, QueueInv, EchoInv, HonestInv, [Next]_vars,
         NEW f \in Frames, NEW j \in 1 .. Len(toGate), f = toGate[j], FrameOK(f)
  PROVE  FrameOK(f)'
<1>1. /\ run \in Nat /\ f.ticket \in 0 .. run /\ counter \in Nat /\ f.id \in 1 .. counter
      /\ f.id \in Nat /\ Len(toGate) > 0
  BY QueueIds DEF FrameOK, TypeInv, HostTypes, QueueInv, Ordered
<1>2. \/ run' = run /\ (pc' \in Undecided => pc \in Undecided)
      \/ pc = "idle" /\ run' = run + 1 /\ pc' \in {"normalizing", "finishing"}
  BY RunStep
<1>3. (/\ f.ticket \in 0 .. run
       /\ f.operation \in {"hello", "shutdown"} <=> f.ticket = 0)'
  BY <1>1, <1>2 DEF FrameOK
<1>4. pc' = "normalizing" => f.ticket # run'
  BY <1>1, RunBegins DEF FrameOK
<1>5. pc' = "preparing" /\ f.ticket = run' => f.id = counter'
  BY <1>1, RunBegins, WaitKept DEF FrameOK, Waiting
<1>6. (pc \in Waiting /\ f.id = counter => Current(f))'
  <2> SUFFICES ASSUME pc' \in Waiting, f.id = counter' PROVE Current(f)'
    OBVIOUS
  <2>1. UNCHANGED <<pc, run, approval, norm, counter>>
    BY <1>1, WaitKept
  <2>2. Current(f)
    BY <2>1 DEF FrameOK
  <2>3. QED
    BY <2>1, <2>2 DEF Current
<1>7. f.operation = "prepare" => ~EffectIn(f.ticket)'
  <2>1. ~AddsEffect
    BY <1>1 DEF AddsEffect, QueueInv, Engaged, Waiting
  <2>2. QED
    BY <2>1, EffectInStep DEF FrameOK
<1>8. (f.operation = "commit" => f.ticket \in lost \/ (f.ticket = run /\ pc = "committing"))'
  <2>1. pc = "committing" => ~Answered
    BY <1>1, AnsweredClears DEF Waiting
  <2>2. lost \subseteq lost'
    BY LostStep
  <2>3. pc = "committing" => run' = run
    BY <1>2
  <2>4. QED
    BY <2>1, <2>2, <2>3, LostStep DEF FrameOK
<1>9. (f.operation = "outcome" =>
          Said(f.ticket, f.word) /\ (f.ticket = run => pc \notin Undecided))'
  <2> SUFFICES ASSUME f.operation = "outcome"
               PROVE  Said(f.ticket, f.word)' /\ (f.ticket = run' => pc' \notin Undecided)
    OBVIOUS
  <2>1. f.ticket \in 1 .. run
    BY <1>1 DEF FrameOK
  <2>2. Said(f.ticket, f.word) /\ (f.ticket = run => pc \notin Undecided)
    BY DEF FrameOK
  <2>3. Said(f.ticket, f.word)'
    BY <2>1, <2>2, SaidKept
  <2>4. QED
    BY <1>1, <1>2, <2>2, <2>3
<1>10. QED
  BY <1>3, <1>4, <1>5, <1>6, <1>7, <1>8, <1>9 DEF FrameOK

\* A frame that is asked for by the step fits the run it is asked for.
LEMMA FrameAsked ==
  ASSUME TypeInv, TypeInv', HonestInv, KnowInv, [Next]_vars, NEW f \in Frames, Asked(f)
  PROVE  FrameOK(f)'
<1>1. run \in Nat /\ (pc \in InRun => run \in Tickets)
  BY DEF TypeInv, HostTypes, RunShape
<1>2. run' = run \/ (pc = "idle" /\ run' = run + 1 /\ pc' \in {"normalizing", "finishing"})
  BY RunStep
<1>3. CASE f.operation \in {"hello", "shutdown"} /\ f.ticket = 0
           /\ pc' \in {"greeting", "closed"}
  BY <1>1, <1>2, <1>3 DEF FrameOK, Current, Asked
<1>4. CASE /\ pc = "normalizing" /\ pc' = "preparing"
           /\ f.operation = "prepare" /\ f.ticket = run /\ f.action = norm'
  <2>1. ~EffectIn(run) /\ ~AddsEffect
    BY <1>4 DEF HonestInv, Undecided, InRun, AddsEffect
  <2>2. ~EffectIn(f.ticket)'
    BY <1>4, <2>1, EffectInStep
  <2>3. QED
    BY <1>1, <1>2, <1>4, <2>2 DEF FrameOK, Current, Asked, InRun, Tickets
<1>5. CASE /\ pc = "prepared" /\ pc' = "approving"
           /\ f.operation = "approval_decision" /\ f.ticket = prepared.ticket
           /\ f.word = approval
  <2>1. approval' = approval
    BY <1>5 DEF Next, HostStep, StartSession, HelloAnswered, CloseSession, StartRun, Normalize,
       PrepareAnswered, Adjudicate, ApprovalAnswered, Revalidate, SendCommit, CommitAnswered,
       Execute, OutcomeAnswered, Interrupted, Finish, CallerMutates, Drift, GateStep,
       UpdatePolicy, hostVars, vars, KeepRun
  <2>2. QED
    BY <1>1, <1>2, <1>5, <2>1 DEF FrameOK, Current, Asked, KnowInv, Engaged, InRun, Tickets
<1>6. CASE /\ pc = "revalidated" /\ pc' = "committing"
           /\ f.operation = "commit" /\ f.ticket = prepared.ticket
  BY <1>1, <1>2, <1>6 DEF FrameOK, Current, Asked, KnowInv, Engaged, InRun, Tickets
<1>7. CASE /\ pc = "executing" /\ pc' = "reporting" /\ f.operation = "outcome"
           /\ f.ticket = prepared.ticket /\ f.word = receipt'.outcome
  <2>1. f.ticket = run /\ run' = run /\ run \in Tickets
    BY <1>1, <1>2, <1>7 DEF KnowInv, Engaged, InRun
  <2>2. ResultOf(run)' = receipt'
    BY <1>1, <1>7, <2>1 DEF ResultOf, TypeInv, RunShape, InRun
  <2>3. Said(f.ticket, f.word)'
    BY <1>7, <2>1, <2>2 DEF Said, ResultOf
  <2>4. QED
    BY <1>1, <1>7, <2>1, <2>3 DEF FrameOK, Current, Asked, Undecided, Tickets
<1>8. QED
  BY <1>3, <1>4, <1>5, <1>6, <1>7 DEF Asked

\* Every frame, old or just asked, fits its run.
LEMMA FrameInvStep ==
  ASSUME TypeInv, QueueInv, EchoInv, HonestInv, FrameInv, KnowInv, [Next]_vars
  PROVE  FrameInv'
<1>1. TypeInv' /\ QueueTypes /\ QueueTypes'
  BY TypeInvStep DEF TypeInv
<1>2. ASSUME NEW i \in 1 .. Len(toGate') PROVE FrameOK(toGate[i])'
  <2>1. PICK f : f = toGate'[i] /\ f \in Frames
    BY <1>1, ElementOfSeq DEF QueueTypes
  <2> SUFFICES FrameOK(f)'
    BY <2>1 DEF FrameOK, Current, Said, EffectIn, ResultOf
  <2>2. CASE Asked(f)
    BY <1>1, <2>1, <2>2, FrameAsked
  <2>3. CASE \E j \in 1 .. Len(toGate) : f = toGate[j]
    <3>1. PICK j \in 1 .. Len(toGate) : f = toGate[j]
      BY <2>3
    <3>2. QED
      BY <2>1, <3>1, FrameKept DEF FrameInv
  <2>4. QED
    BY <2>1, <2>2, <2>3, FrameStep
<1>3. QED
  BY <1>2 DEF FrameInv

\* Only the Gate serving a frame of the wait makes a line that answers it.
LEMMA LineInvStep ==
  ASSUME TypeInv, QueueInv, FrameInv, LineInv, KnowInv, [Next]_vars
  PROVE  LineInv'
<1> SUFFICES ASSUME NEW i \in 1 .. Len(fromGate'), pc' \in Waiting, fromGate'[i].id = counter'
             PROVE  Replied(fromGate[i])'
  BY DEF LineInv
<1>1. QueueTypes /\ GateTypes /\ Ordered /\ counter \in Nat /\ Len(fromGate) \in Nat
      /\ Len(toGate) \in Nat
  BY QueueIds DEF TypeInv, QueueInv
<1>2. ~(counter' = counter + 1 /\ fromGate' = fromGate)
  BY <1>1 DEF Ordered
<1>3. UNCHANGED <<pc, run, approval, norm, counter>> /\ pc \in Waiting
  BY <1>2, WaitKept
<1>4. counter > 0
  BY <1>3 DEF QueueInv
<1>5. CASE GateServes
  <2>1. PICK f, l :
            /\ f = toGate[1] /\ f \in Frames /\ WellFormed(f) /\ FrameOK(f)
            /\ l = fromGate'[Len(fromGate) + 1]
            /\ l.id \in {f.id, NoId} /\ l.ticket = f.ticket
            /\ \A t \in Tickets : t # f.ticket => plan'[t] = plan[t]
            /\ f.ticket \in Tickets =>
                  Serves(f, l.verdict, plan[f.ticket], plan'[f.ticket])
    BY <1>5, ServeStep
  <2>2. /\ Len(toGate) > 0
        /\ Len(fromGate') = Len(fromGate) + 1
        /\ \A k \in 1 .. Len(fromGate) : fromGate'[k] = fromGate[k]
    BY <1>1, <1>5, ServeItems
  <2>3. f.id \in 1 .. counter /\ \A k \in 1 .. Len(fromGate) : fromGate[k].id < f.id
    BY <1>1, <2>1, <2>2 DEF Ordered
  <2>4. i = Len(fromGate) + 1
    <3>1. ASSUME i \in 1 .. Len(fromGate) PROVE FALSE
      <4>1. fromGate[i].id \in 0 .. counter /\ fromGate[i].id = counter
        BY <1>1, <1>3, <2>2, <3>1 DEF Ordered
      <4>2. QED
        BY <1>1, <2>3, <3>1, <4>1
    <3>2. QED
      BY <1>1, <2>2, <3>1
  <2>5. f.id = counter /\ Current(f)
    BY <1>1, <1>3, <1>4, <2>1, <2>3, <2>4 DEF FrameOK, NoId
  <2>6. CASE pc = "greeting"
    BY <1>3, <2>6 DEF Replied
  <2>7. CASE pc # "greeting"
    <3>1. run \in Tickets /\ f.ticket = run
      BY <1>3, <2>5, <2>7 DEF Current, Waiting, TypeInv, RunShape, InRun
    <3>2. PICK old, new : old = plan[run] /\ new = plan'[run] /\ Serves(f, l.verdict, old, new)
      BY <2>1, <3>1
    <3>3. CASE pc = "preparing"
      BY <1>3, <2>1, <2>4, <2>5, <3>1, <3>2, <3>3 DEF Current, Replied, Serves
    <3>4. CASE pc = "approving"
      BY <1>3, <2>1, <2>4, <2>5, <3>1, <3>2, <3>4 DEF Current, Replied, Serves, Decisions
    <3>5. CASE pc = "committing"
      <4>1. old.stage \in {"allowed", "approved"}
        BY <2>2, <3>2, <3>5 DEF KnowInv
      <4>2. QED
        BY <1>3, <2>1, <2>4, <2>5, <3>1, <3>2, <3>5, <4>1
           DEF Current, Replied, Serves, Decisions
    <3>6. CASE pc = "reporting"
      <4>1. new.stage # "dispatched"
        BY <2>5, <3>2, <3>6 DEF Current, Serves
      <4>2. QED
        BY <1>3, <3>2, <3>6, <4>1 DEF Replied
    <3>7. QED
      BY <1>3, <2>7, <3>3, <3>4, <3>5, <3>6 DEF Waiting
  <2>8. QED
    BY <2>6, <2>7
<1>6. CASE GateStops
  <2>1. /\ Len(fromGate') = Len(fromGate) + 1
        /\ \A k \in 1 .. Len(fromGate) : fromGate'[k] = fromGate[k]
        /\ fromGate'[Len(fromGate) + 1].id = NoId
        /\ plan' = plan
    BY <1>1, <1>6, StopItems DEF EndOfStream
  <2>2. i \in 1 .. Len(fromGate) /\ fromGate'[i] = fromGate[i]
    BY <1>1, <1>3, <1>4, <2>1 DEF NoId
  <2>3. Replied(fromGate[i])
    BY <1>3, <2>2 DEF LineInv
  <2>4. QED
    BY <1>3, <2>1, <2>2, <2>3 DEF Replied
<1>7. CASE Rests /\ plan' = plan
  <2>1. Replied(fromGate[i]) /\ fromGate'[i] = fromGate[i]
    BY <1>3, <1>7 DEF LineInv, Rests, sessionVars
  <2>2. QED
    BY <1>3, <1>7, <2>1 DEF Replied
<1>8. QED
  BY <1>3, <1>5, <1>6, <1>7, SessionStep, PlanStep DEF Sends, EndsWait, GivesUp

\* An answer that counts is true of the ticket.
LEMMA AnswerReplied ==
  ASSUME TypeInv, LineInv, pc \in Waiting, Answered
  PROVE  Replied(Answer) /\ Answer \in Lines
<1>1. /\ Len(fromGate) \in Nat \ {0} /\ Head(fromGate) = fromGate[1]
      /\ fromGate[1] \in Lines
  BY TakeItems, QueueIds DEF Answered, TypeInv
<1>2. PICK l : l = fromGate[1] /\ l = Answer
  BY <1>1 DEF Answer
<1>3. Replied(fromGate[1])
  BY <1>1 DEF LineInv, Answered
<1>4. QED
  BY <1>1, <1>2, <1>3 DEF Replied

\* Between its requests the host relies on what the Gate told it, and the Gate does
\* nothing behind its back.
LEMMA KnowInvStep ==
  ASSUME TypeInv, QueueInv, FrameInv, LineInv, KnowInv, [Next]_vars
  PROVE  KnowInv'
<1>1. run \in Nat /\ (pc \in InRun => run \in Tickets) /\ QueueTypes /\ GateTypes
  BY DEF TypeInv, HostTypes, RunShape
<1>2. \/ run' = run /\ (pc' \in InRun => pc \in InRun)
      \/ run' = run + 1 /\ pc = "idle"
  BY RunStep, RunBegins
<1>3. (lost \subseteq 1 .. run)'
  <2>1. lost' \subseteq 1 .. run
    <3>1. lost' = lost \/ (lost' = lost \cup {run} /\ run \in Tickets)
      BY <1>1, LostStep
    <3>2. run \in Tickets => run \in 1 .. run
      BY <1>1 DEF Tickets
    <3>3. QED
      BY <3>1, <3>2 DEF KnowInv
  <2>2. 1 .. run \subseteq 1 .. run'
    BY <1>1, <1>2
  <2>3. QED
    BY <2>1, <2>2
<1>4. pc' \in InRun => run' \notin lost'
  BY <1>1, <1>2, LostStep DEF KnowInv, InRun
<1> DEFINE Knows ==
    /\ pc \in Engaged => prepared.ticket = run
    /\ pc = "prepared" =>
          /\ prepared.verdict \in Decisions \cup {"unavailable"}
          /\ prepared.verdict \in Decisions =>
                /\ plan[run].action = norm
                /\ plan[run].decision = prepared.verdict
                /\ plan[run].stage = Opened(prepared.verdict)
    /\ pc \in Engaged \ {"prepared"} => plan[run].action = norm
    /\ pc = "approving" =>
          approval \in {"approved", "denied"} /\ plan[run].stage \in {"asked", approval}
    /\ pc \in {"revalidating", "revalidated"} => plan[run].stage \in {"allowed", "approved"}
    /\ pc = "committing" /\ Len(toGate) > 0 => plan[run].stage \in {"allowed", "approved"}
    /\ pc \in {"revalidating", "revalidated", "committing", "executing"} /\ plan[run].decision = "ask"
          => approval = "approved"
    /\ pc = "executing" => plan[run].stage = "dispatched"
<1>5. Knows
  BY DEF KnowInv
<1>6. ASSUME Knows' PROVE KnowInv'
  BY <1>3, <1>4, <1>6 DEF KnowInv
<1>7. CASE PrepareAnswered
  <2>1. CASE Answered
    <3>1. Replied(Answer)
      BY <1>7, <2>1, AnswerReplied DEF PrepareAnswered, Waiting
    <3>2. QED
      BY <1>6, <1>7, <2>1, <3>1
         DEF PrepareAnswered, Returns, Hears, gateVars, KeepRun, Replied, Engaged
  <2>2. CASE ~Answered
    BY <1>6, <1>7, <2>2 DEF PrepareAnswered, Returns, Engaged
  <2>3. QED
    BY <2>1, <2>2
<1>8. CASE Adjudicate
  BY <1>5, <1>6, <1>8
     DEF Adjudicate, Ask, Hears, Returns, gateVars, KeepRun, Engaged, Decisions, Opened,
         TypeInv, HostTypes, Approvals
<1>9. CASE ApprovalAnswered
  <2>1. CASE Answered
    <3>1. Replied(Answer)
      BY <1>9, <2>1, AnswerReplied DEF ApprovalAnswered, Waiting
    <3>2. QED
      BY <1>5, <1>6, <1>9, <2>1, <3>1
         DEF ApprovalAnswered, Returns, Hears, gateVars, KeepRun, Replied, Engaged
  <2>2. CASE ~Answered
    BY <1>6, <1>9, <2>2 DEF ApprovalAnswered, Returns, Engaged
  <2>3. QED
    BY <2>1, <2>2
<1>10. CASE Revalidate
  BY <1>5, <1>6, <1>10 DEF Revalidate, Returns, sessionVars, gateVars, KeepRun, Engaged
<1>18. CASE SendCommit
  BY <1>5, <1>6, <1>18 DEF SendCommit, Ask, gateVars, KeepRun, Engaged
<1>11. CASE CommitAnswered
  <2>1. CASE Answered
    <3>1. Replied(Answer)
      BY <1>11, <2>1, AnswerReplied DEF CommitAnswered, Waiting
    <3>2. QED
      BY <1>5, <1>6, <1>11, <2>1, <3>1
         DEF CommitAnswered, StartsExecution, Returns, Hears, gateVars, KeepRun, Replied, Engaged
  <2>2. CASE ~Answered
    BY <1>6, <1>11, <2>2 DEF CommitAnswered, Returns, Engaged
  <2>3. QED
    BY <2>1, <2>2
<1>12. CASE Execute
  BY <1>5, <1>6, <1>12 DEF Execute, Concludes, Tells, Ask, gateVars, KeepRun, Engaged
<1>13. CASE GateServes /\ UNCHANGED hostVars /\ pc \in Engaged
  <2>1. PICK f, l :
            /\ f = toGate[1] /\ f \in Frames /\ WellFormed(f) /\ FrameOK(f)
            /\ l = fromGate'[Len(fromGate) + 1]
            /\ l.id \in {f.id, NoId} /\ l.ticket = f.ticket
            /\ \A t \in Tickets : t # f.ticket => plan'[t] = plan[t]
            /\ f.ticket \in Tickets =>
                  Serves(f, l.verdict, plan[f.ticket], plan'[f.ticket])
    BY <1>13, ServeStep
  <2>2. Len(toGate) \in Nat \ {0} /\ Len(toGate') = Len(toGate) - 1
    BY <1>1, <1>13, ServeItems
  <2>3. /\ pc \in Waiting
        /\ \A j \in 1 .. Len(toGate) : toGate[j].id = counter
    BY <1>13, <2>2 DEF QueueInv
  <2>4. Len(toGate') = 0
    <3>1. ASSUME Len(toGate) > 1 PROVE FALSE
      <4>1. toGate[1].id < toGate[2].id /\ toGate[1].id = toGate[2].id /\ toGate[1].id \in Nat
        BY <1>1, <2>2, <2>3, <3>1, QueueIds DEF QueueInv, Ordered
      <4>2. QED
        BY <4>1
    <3>2. QED
      BY <2>2, <3>1
  <2>5. Current(f)
    BY <2>1, <2>2, <2>3 DEF FrameOK
  <2>6. run \in Tickets /\ f.ticket = run /\ pc \in {"approving", "committing", "reporting"}
    BY <1>1, <1>13, <2>3, <2>5 DEF Current, Waiting, Engaged, InRun
  <2>7. PICK old, new : old = plan[run] /\ new = plan'[run] /\ Serves(f, l.verdict, old, new)
    BY <2>1, <2>6
  <2>8. /\ new.action = old.action /\ new.decision = old.decision
        /\ pc = "approving" => new.stage \in {old.stage, approval}
    BY <2>5, <2>6, <2>7 DEF Serves, Current
  <2>9. QED
    BY <1>5, <1>6, <1>13, <2>4, <2>6, <2>7, <2>8 DEF hostVars, Engaged
<1>14. CASE GateStops /\ UNCHANGED hostVars
  BY <1>1, <1>5, <1>6, <1>14, StopItems DEF hostVars
<1>15. CASE UNCHANGED <<pc, run, approval, norm, prepared, toGate, plan>>
  BY <1>5, <1>6, <1>15
<1>16. CASE pc' \notin Engaged
  BY <1>6, <1>16 DEF Engaged
<1>17. QED
  BY <1>7, <1>8, <1>9, <1>10, <1>11, <1>12, <1>13, <1>14, <1>15, <1>16, <1>18
     DEF Next, HostStep, StartSession, HelloAnswered, CloseSession, StartRun, Normalize,
         OutcomeAnswered, Interrupted, Returns, Finish, CallerMutates, Drift, GateStep,
         UpdatePolicy, hostVars, sessionVars, gateVars, vars, Engaged

\* A dispatch stays open only in the run that asked for it, until an answer is lost;
\* what the Gate was told is what the receipt says.
LEMMA PlanInvStep ==
  ASSUME TypeInv, QueueInv, EchoInv, FrameInv, LineInv, PlanInv, [Next]_vars
  PROVE  PlanInv'
<1> SUFFICES ASSUME NEW n \in Tickets
             PROVE  (/\ n > run \/ (n = run /\ pc = "normalizing") => plan[n].stage = "none"
                     /\ plan[n].stage = "dispatched" =>
                           \/ n \in lost
                           \/ n = run /\ pc \in {"committing", "executing", "reporting"}
                     /\ plan[n].stage = "settled" =>
                           Said(n, plan[n].said) /\ (n = run => pc \notin Undecided))'
  BY DEF PlanInv
<1>1. run \in Nat /\ n \in Nat \ {0} /\ lost \subseteq lost'
  BY LostStep DEF TypeInv, HostTypes, Tickets
<1>2. \/ run' = run /\ (pc' \in Undecided => pc \in Undecided)
      \/ run' = run + 1 /\ pc = "idle"
  BY RunStep
<1>3. PICK old : old = plan[n]
  OBVIOUS
<1>4. /\ n > run \/ (n = run /\ pc = "normalizing") => old.stage = "none"
      /\ old.stage = "dispatched" =>
            n \in lost \/ (n = run /\ pc \in {"committing", "executing", "reporting"})
      /\ old.stage = "settled" => Said(n, old.said) /\ (n = run => pc \notin Undecided)
  BY <1>3 DEF PlanInv
<1>5. n > run' \/ (n = run' /\ pc' = "normalizing")
         => n > run \/ (n = run /\ pc = "normalizing")
  BY <1>1, <1>2, RunBegins
<1>6. CASE plan' = plan
  <2>1. old.stage = "dispatched" =>
            n \in lost' \/ (n = run' /\ pc' \in {"committing", "executing", "reporting"})
    <3>1. SUFFICES ASSUME old.stage = "dispatched", n = run,
                          pc \in {"committing", "executing", "reporting"}, run \notin lost',
                          pc' \notin {"committing", "executing", "reporting"}
                   PROVE  FALSE
      BY <1>1, <1>2, <1>4
    <3>2. /\ pc \in {"committing", "reporting"} /\ Answered
          /\ pc = "committing" => Answer.verdict # "dispatched"
      BY <3>1, LostStep
    <3>3. Replied(Answer)
      BY <3>2, AnswerReplied DEF Waiting
    <3>4. QED
      BY <1>3, <3>1, <3>2, <3>3 DEF Replied
  <2>2. ASSUME old.stage = "settled"
        PROVE  Said(n, old.said)' /\ (n = run' => pc' \notin Undecided)
    <3>1. n \in 1 .. run /\ Said(n, old.said) /\ (n = run => pc \notin Undecided)
      BY <1>1, <1>4, <2>2
    <3>2. QED
      BY <1>1, <1>2, <3>1, SaidKept
  <2>3. (Said(n, old.said)' <=> Said(n, plan[n].said)') /\ plan'[n] = old
    BY <1>3, <1>6 DEF Said, ResultOf
  <2>4. QED
    BY <1>4, <1>5, <2>1, <2>2, <2>3
<1>7. CASE GateServes /\ UNCHANGED hostVars
  <2>1. PICK f, l :
            /\ f \in Frames /\ WellFormed(f) /\ FrameOK(f)
            /\ \A t \in Tickets : t # f.ticket => plan'[t] = plan[t]
            /\ f.ticket \in Tickets =>
                  Serves(f, l.verdict, plan[f.ticket], plan'[f.ticket])
    BY <1>7, ServeStep
  <2>2. PICK new : new = plan'[n]
    OBVIOUS
  <2>3. new = old \/ (n = f.ticket /\ Serves(f, l.verdict, old, new))
    BY <1>3, <2>1, <2>2
  <2>4. n = f.ticket => ~(n > run) /\ ~(n = run /\ pc = "normalizing")
    BY <1>1, <2>1 DEF FrameOK
  <2>5. new.stage = "dispatched" =>
            old.stage = "dispatched" \/ (f.operation = "commit" /\ n = f.ticket)
    BY <2>1, <2>3 DEF Serves, WellFormed, Opened
  <2>6. new.stage = "settled" =>
            new = old \/ (f.operation = "outcome" /\ new.said = f.word /\ n = f.ticket)
    BY <2>1, <2>3 DEF Serves, WellFormed, Opened
  <2>7. /\ n > run \/ (n = run /\ pc = "normalizing") => new.stage = "none"
        /\ new.stage = "dispatched" =>
              n \in lost \/ (n = run /\ pc \in {"committing", "executing", "reporting"})
        /\ new.stage = "settled" => Said(n, new.said) /\ (n = run => pc \notin Undecided)
    BY <1>4, <2>1, <2>3, <2>4, <2>5, <2>6 DEF FrameOK
  <2>8. Said(n, plan[n].said)' <=> Said(n, new.said)
    BY <1>7, <2>2 DEF Said, ResultOf, hostVars
  <2>9. QED
    BY <1>7, <2>2, <2>7, <2>8 DEF hostVars
<1>8. QED
  BY <1>6, <1>7, PlanStep

\* An effect is added under a dispatch, which then only settles.
LEMMA EffectInvStep ==
  ASSUME TypeInv, QueueInv, HonestInv, FrameInv, KnowInv, EffectInv, [Next]_vars
  PROVE  EffectInv'
<1>1. Len(effects) \in Nat
  BY LenProperties DEF TypeInv, HostTypes
<1>2. CASE GateServes /\ UNCHANGED hostVars
  <2>1. PICK f, l :
            /\ f \in Frames /\ WellFormed(f) /\ FrameOK(f)
            /\ \A t \in Tickets : t # f.ticket => plan'[t] = plan[t]
            /\ f.ticket \in Tickets =>
                  Serves(f, l.verdict, plan[f.ticket], plan'[f.ticket])
    BY <1>2, ServeStep
  <2>2. ASSUME NEW i \in 1 .. Len(effects) PROVE Covered(effects[i])'
    <3>1. PICK e : e = effects[i]
      OBVIOUS
    <3>2. Covered(e)
      BY <3>1 DEF EffectInv
    <3>3. PICK old, new : old = plan[e.run] /\ new = plan'[e.run]
      OBVIOUS
    <3>4. new = old \/ (e.run = f.ticket /\ Serves(f, l.verdict, old, new))
      BY <2>1, <3>2, <3>3 DEF Covered
    <3>5. e.run = f.ticket => f.operation # "prepare"
      BY <2>1, <3>1 DEF FrameOK, EffectIn
    <3>6. /\ new.stage \in {"dispatched", "settled"}
          /\ new.action = old.action /\ new.decision = old.decision
      BY <3>2, <3>3, <3>4, <3>5 DEF Covered, Serves
    <3>7. QED
      BY <1>2, <3>1, <3>2, <3>3, <3>6 DEF Covered, hostVars
  <2>3. QED
    BY <1>2, <2>2 DEF EffectInv, hostVars
<1>3. CASE plan' = plan /\ effects' = effects
  BY <1>3 DEF EffectInv, Covered
<1>4. CASE plan' = plan /\ AddsEffect
  <2>1. PICK e : e = Effect
    OBVIOUS
  <2>2. /\ e.run = run /\ e.ticket = prepared.ticket /\ e.action = norm /\ e.approval = approval
    BY <2>1 DEF Effect
  <2>3. pc = "executing" /\ run \in Tickets
    BY <1>4 DEF AddsEffect, TypeInv, RunShape, InRun
  <2>4. Covered(e)
    BY <2>2, <2>3 DEF Covered, KnowInv, Engaged
  <2>5. \A i \in 1 .. Len(effects) : effects[i].run # run
    BY <2>3 DEF HonestInv, Undecided, InRun, EffectIn
  <2>6. /\ Len(effects') = Len(effects) + 1
        /\ \A i \in 1 .. Len(effects) : effects'[i] = effects[i]
        /\ effects'[Len(effects) + 1] = e
    BY <1>4, <2>1 DEF AddsEffect
  <2>7. \A i \in 1 .. Len(effects') : Covered(effects'[i])
    BY <1>1, <2>4, <2>6 DEF EffectInv
  <2>8. (\A i \in 1 .. Len(effects) : Covered(effects[i]))'
    BY <1>4, <2>7 DEF Covered
  <2>9. \A i, j \in 1 .. Len(effects') : effects'[i].run = effects'[j].run => i = j
    BY <1>1, <2>2, <2>5, <2>6 DEF EffectInv
  <2>10. QED
    BY <2>8, <2>9 DEF EffectInv
<1>5. QED
  BY <1>2, <1>3, <1>4, EffectsStep, PlanStep DEF AddsEffect, hostVars

\* Before the session starts nothing is under way.
LEMMA TicketInvInit == Init => TicketInv
<1> SUFFICES ASSUME Init PROVE TicketInv
  OBVIOUS
<1>1. /\ Len(toGate) = 0 /\ Len(fromGate) = 0 /\ Len(effects) = 0
      /\ pc = "starting" /\ lost = {} /\ run = 0
      /\ \A n \in Tickets : plan[n].stage = "none"
  BY EmptySeq DEF Init, SessionInit, GateInit, NoPlan
<1>2. FrameInv /\ LineInv /\ EffectInv
  BY <1>1 DEF FrameInv, LineInv, EffectInv
<1>3. KnowInv
  BY <1>1 DEF KnowInv, InRun, Engaged
<1>4. PlanInv
  BY <1>1 DEF PlanInv
<1>5. QED
  BY <1>2, <1>3, <1>4 DEF TicketInv

\* The ticket facts hold in every reachable state; they need the types, the order of
\* the queues and the honesty of the receipts.
LEMMA TicketInvariant == Spec => []TicketInv
<1>1. TypeInv /\ QueueInv /\ EchoInv /\ HonestInv /\ TicketInv /\ [Next]_vars => TicketInv'
  BY FrameInvStep, LineInvStep, KnowInvStep, PlanInvStep, EffectInvStep DEF TicketInv
<1>2. QED
  BY <1>1, TicketInvInit, TypeInvariant, QueueInvariant, EchoInvariant, HonestInvariant, PTL
     DEF Spec

(***************************************************************************)
(* Nothing happens in the world unless the Gate dispatched exactly that    *)
(* action, and it happens once for a dispatch.                             *)
(***************************************************************************)
THEOREM EffectsCommitted == Spec => []EffectsAreCommitted
<1>1. EffectInv => EffectsAreCommitted
  BY DEF EffectInv, Covered, EffectsAreCommitted
<1>2. QED
  BY <1>1, TicketInvariant, PTL DEF TicketInv

(***************************************************************************)
(* What the policy asked about happens only under the approval of its run. *)
(***************************************************************************)
THEOREM AskedIsApproved == Spec => []AskedNeedsApproval
<1>1. EffectInv => AskedNeedsApproval
  BY DEF EffectInv, Covered, AskedNeedsApproval
<1>2. QED
  BY <1>1, TicketInvariant, PTL DEF TicketInv

\* A run with a record is over.
LEMMA FinishedRuns ==
  ASSUME TypeInv, NEW n \in 1 .. Len(receipts)
  PROVE  n \in Tickets /\ (n = run => pc \notin InRun)
<1>1. receipts \in Seq(Records) /\ run \in 0 .. MaxRuns
  BY DEF TypeInv, HostTypes
<1>2. Len(receipts) \in Nat /\ run \in Nat
  BY <1>1, LenProperties
<1>3. Len(receipts) = run \/ Len(receipts) = run - 1
  BY DEF TypeInv, RunShape
<1>4. Len(receipts) <= run /\ run <= MaxRuns
  BY <1>1, <1>2, <1>3, RunsAssumption
<1>5. n \in Tickets
  BY <1>2, <1>4, RunsAssumption DEF Tickets
<1>6. pc \in InRun => n # run
  BY <1>2 DEF TypeInv, RunShape
<1>7. QED
  BY <1>5, <1>6

(***************************************************************************)
(* What the Gate was told of a finished run is what its receipt says.      *)
(***************************************************************************)
THEOREM GateAndReceiptAgree == Spec => []GateAgrees
<1>1. TypeInv /\ PlanInv => GateAgrees
  <2> SUFFICES ASSUME TypeInv, PlanInv, NEW n \in 1 .. Len(receipts), plan[n].stage = "settled",
                      receipts[n].receipt.reason # "internal_error"
               PROVE  plan[n].said = receipts[n].receipt.outcome
    BY DEF GateAgrees
  <2>1. n \in Tickets
    BY FinishedRuns
  <2>2. Said(n, plan[n].said)
    BY <2>1 DEF PlanInv
  <2>3. QED
    BY <2>2 DEF Said, ResultOf
<1>2. QED
  BY <1>1, TypeInvariant, TicketInvariant, PTL DEF TicketInv

(***************************************************************************)
(* A dispatch whose run is over and that has no outcome belongs to a run   *)
(* that lost an answer or was interrupted.                                 *)
(***************************************************************************)
THEOREM OrphansWereLost == Spec => []OrphanOnlyIfLost
<1>1. TypeInv /\ PlanInv => OrphanOnlyIfLost
  <2> SUFFICES ASSUME TypeInv, PlanInv, NEW n \in 1 .. Len(receipts),
                      plan[n].stage = "dispatched"
               PROVE  n \in lost
    BY DEF OrphanOnlyIfLost
  <2>1. n \in Tickets /\ (n = run => pc \notin InRun)
    BY FinishedRuns
  <2>2. ~(n = run /\ pc \in {"committing", "executing", "reporting"})
    BY <2>1 DEF InRun
  <2>3. QED
    BY <2>1, <2>2 DEF PlanInv
<1>2. QED
  BY <1>1, TypeInvariant, TicketInvariant, PTL DEF TicketInv

-----------------------------------------------------------------------------
(***************************************************************************)
(* Freshness.  Whoever has revalidated has seen the context yield the      *)
(* action that is held, at a moment that lies behind the Gate's last       *)
(* answer; what the context does later does not undo that.                 *)
(***************************************************************************)
FreshInv ==
    /\ EffectsWereFresh
    /\ pc = "revalidating" /\ Yields(world) => fresh
    /\ pc \in {"revalidated", "committing", "executing"} => fresh

\* The comparison reads one of the worlds there have been since revalidation began.
LEMMA FreshInvStep == TypeInv /\ FreshInv /\ [Next]_vars => FreshInv'
<1> SUFFICES ASSUME TypeInv, FreshInv, [Next]_vars PROVE FreshInv'
  OBVIOUS
<1>1. EffectsWereFresh'
  <2>1. CASE effects' = effects
    BY <2>1 DEF FreshInv, EffectsWereFresh
  <2>2. CASE AddsEffect
    <3>1. Len(effects) \in Nat
      BY LenProperties DEF TypeInv, HostTypes
    <3>2. Effect.fresh
      BY <2>2 DEF Effect, FreshInv, AddsEffect
    <3>3. QED
      BY <2>2, <3>1, <3>2 DEF FreshInv, AddsEffect, EffectsWereFresh
  <2>3. QED
    BY <2>1, <2>2, EffectsStep
<1>2. (/\ pc = "revalidating" /\ Yields(world) => fresh
       /\ pc \in {"revalidated", "committing", "executing"} => fresh)'
  <2>1. CASE Adjudicate \/ ApprovalAnswered
    BY <2>1 DEF Adjudicate, ApprovalAnswered, RevalidationBegins, Returns, Yields
  <2>2. CASE Revalidate
    <3>1. ~Stale => Yields(world)
      BY DEF Stale, NormalizationFails, Normalized, Yields
    <3>2. QED
      BY <2>2, <3>1 DEF Revalidate, Returns, KeepRun, FreshInv
  <2>3. CASE SendCommit \/ CommitAnswered
    BY <2>3 DEF SendCommit, CommitAnswered, StartsExecution, Returns, KeepRun, FreshInv
  <2>4. CASE Drift(world')
    BY <2>4 DEF Drift, Yields, FreshInv
  <2>5. CASE UNCHANGED hostVars
    BY <2>5 DEF hostVars, FreshInv, Yields
  <2>6. CASE pc' \notin {"revalidating", "revalidated", "committing", "executing"}
    BY <2>6
  <2>7. QED
    BY <2>1, <2>2, <2>3, <2>4, <2>5, <2>6
       DEF Next, HostStep, StartSession, HelloAnswered, CloseSession, StartRun, Normalize,
           PrepareAnswered, Execute, Concludes, Tells, OutcomeAnswered, Interrupted, Returns,
           Finish, CallerMutates, Drift, GateStep, vars
<1>3. QED
  BY <1>1, <1>2 DEF FreshInv

(***************************************************************************)
(* What happens is what the trusted context yielded after the Gate's last  *)
(* answer before COMMIT, however often the context moved before and after. *)
(***************************************************************************)
THEOREM EffectsFresh == Spec => []EffectsWereFresh
<1>1. Init => FreshInv
  <2> SUFFICES ASSUME Init PROVE FreshInv
    OBVIOUS
  <2>1. Len(effects) = 0
    BY EmptySeq DEF Init
  <2>2. QED
    BY <2>1 DEF Init, FreshInv, EffectsWereFresh
<1>2. FreshInv => EffectsWereFresh
  BY DEF FreshInv
<1>3. QED
  BY <1>1, <1>2, FreshInvStep, TypeInvariant, PTL DEF Spec
=============================================================================
