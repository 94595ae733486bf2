---------------------------- MODULE PermissionSlip ----------------------------
(***************************************************************************)
(* permission_slip/spike.py: one session drives operations, one run after  *)
(* another, through the lifecycle                                          *)
(*                                                                         *)
(*   normalize -> PREPARE -> (hook) -> approval_decision? -> revalidate    *)
(*             -> COMMIT -> execute -> OUTCOME -> finish                   *)
(*                                                                         *)
(* against a Gate that answers late, damaged or not at all, a trusted      *)
(* context that drifts, a policy that is rewritten, a caller that mutates  *)
(* its own envelope, a recorder whose disk fails and an operator who       *)
(* interrupts.  Steps of the host stop at each request and at each place   *)
(* where something else may run; everything between is one action.         *)
(***************************************************************************)
EXTENDS TethersGate

CONSTANTS
    Gone,       \* worlds in which normalization fails
    Claims,     \* what a caller may write that no authority depends on
    Real        \* TRUE: RealHostExecutor; FALSE: FixtureExecutor

ASSUME WorldsAssumption ==
    /\ Gone \subseteq Worlds
    /\ "none" \notin Worlds
    /\ "none" \notin Ops

ASSUME RunsAssumption == MaxRuns \in Nat \ {0}

ASSUME RealAssumption == Real \in BOOLEAN

\* What the caller passes in; only `op` reaches the normalized action.
Envelopes == [op: Ops, claim: Claims]
Approvals == {"none", "approved", "denied"}

VARIABLES
    pc,         \* where the host is
    run,        \* the number of the current run; every run prepares at most one ticket
    world,      \* the trusted context, as normalization would find it now
    envelope,   \* the caller's operation object
    frozen,     \* the envelope the digest was taken of when the run started
    approval,   \* the approval argument of the run
    norm,       \* the normalized action held since PREPARE
    fresh,      \* history: after the Gate's last answer before COMMIT, and before the end
                \* of revalidation, the context has yielded the action that is held
    prepared,   \* the PREPARE response: its verdict and its ticket
    broken,     \* recorder.broken: the trace is not writable
    traced,     \* EXECUTION_STARTED of this run is on disk
    receipt,    \* the receipt in the making
    receipts,   \* history: the receipts of the finished runs
    effects,    \* history: the physical effects, in order
    lost        \* history: the runs that went without an answer

hostVars == <<pc, run, world, envelope, frozen, approval, norm, fresh, prepared, broken,
              traced, receipt, receipts, effects, lost>>
vars == <<hostVars, sessionVars, gateVars>>

Waiting == {"greeting", "preparing", "approving", "committing", "reporting"}
InRun   == {"normalizing", "preparing", "prepared", "approving", "revalidating",
            "revalidated", "committing", "executing", "reporting"}

Blank == [decision |-> "unavailable", reason |-> "not_prepared", executed |-> FALSE,
          outcome |-> "none"]

Receipt(decision, reason) == [Blank EXCEPT !.decision = decision, !.reason = reason]

\* The record written when no receipt came back (the finally clause of run()).
InternalError == Receipt("unavailable", "internal_error")

NoPrepared == [verdict |-> "none", ticket |-> 0]

\* Any emit may be the one that finds the disk failing; broken never resets.
Emits == broken' \in {broken, TRUE}

NormalizationFails == world \in Gone
Normalized(e) == [op |-> e.op, facts |-> world]

Init ==
    /\ SessionInit
    /\ GateInit
    /\ pc = "starting"
    /\ run = 0
    /\ world \in Worlds
    /\ envelope = [op |-> "none", claim |-> "none"]
    /\ frozen = envelope
    /\ approval = "none"
    /\ norm = NoAction
    /\ fresh = FALSE
    /\ prepared = NoPrepared
    /\ broken = FALSE
    /\ traced = FALSE
    /\ receipt = Blank
    /\ receipts = <<>>
    /\ effects = <<>>
    /\ lost = {}

Ask(operation, ticket, action, word) ==
    Request(operation, ticket, action, word) /\ UNCHANGED gateVars

Hears == NoRequest /\ UNCHANGED gateVars

\* What never changes between the start and the end of a run's own steps.
KeepRun == UNCHANGED <<run, world, frozen, approval, fresh, receipts>>

(***************************************************************************)
(* PermissionSlip.start and close: the Gate process and the hello exchange *)
(***************************************************************************)
StartSession ==
    /\ pc = "starting"
    /\ pc' = "greeting"
    /\ Ask("hello", 0, NoAction, "none")
    /\ UNCHANGED <<envelope, norm, prepared, broken, traced, receipt, effects, lost>>
    /\ KeepRun

HelloAnswered ==
    /\ pc = "greeting"
    /\ \/ Answered /\ Answer.verdict = "welcome" /\ pc' = "idle"
       \/ Answered /\ Answer.verdict # "welcome" /\ pc' = "closed"
       \/ NoAnswer /\ pc' = "closed"
    /\ Hears
    /\ UNCHANGED <<envelope, norm, prepared, broken, traced, receipt, effects, lost>>
    /\ KeepRun

CloseSession ==
    /\ pc = "idle"
    /\ pc' = "closed"
    /\ Ask("shutdown", 0, NoAction, "none")
    /\ UNCHANGED <<envelope, norm, prepared, broken, traced, receipt, effects, lost>>
    /\ KeepRun

(***************************************************************************)
(* run(): freeze the envelope, open the trace; a real executor without a   *)
(* writable trace is refused before the Gate is asked anything.            *)
(***************************************************************************)
StartRun(e, a) ==
    /\ pc = "idle"
    /\ run < MaxRuns
    /\ run' = run + 1
    /\ envelope' = e
    /\ frozen' = e
    /\ approval' = a
    /\ norm' = NoAction
    /\ fresh' = FALSE
    /\ prepared' = NoPrepared
    /\ traced' = FALSE
    /\ Emits
    /\ IF Real /\ broken'
         THEN pc' = "finishing" /\ receipt' = Receipt("deny", "no_trace_recorder")
         ELSE pc' = "normalizing" /\ receipt' = Blank
    /\ UNCHANGED <<world, receipts, effects, lost, sessionVars, gateVars>>

\* A run ends with a receipt, or with none because something was raised.
Returns(r) == pc' = "finishing" /\ receipt' = r

Normalize ==
    /\ pc = "normalizing"
    /\ Emits
    /\ IF NormalizationFails
         THEN /\ Returns(Receipt("deny", "unmappable_operation"))
              /\ Hears /\ UNCHANGED <<norm, fromGate, alive, missed>>
         ELSE /\ norm' = Normalized(envelope)
              /\ pc' = "preparing"
              /\ Ask("prepare", run, norm', "none")
              /\ UNCHANGED receipt
    /\ UNCHANGED <<envelope, prepared, traced, effects, lost>>
    /\ KeepRun

\* _adjudicate up to the hook: a PREPARE that fails in any way ends the run.
PrepareAnswered ==
    /\ pc = "preparing"
    /\ Emits
    /\ \/ /\ Answered
          /\ IF Answer.verdict \in Decisions \cup {"unavailable"}
               THEN /\ pc' = "prepared"
                    /\ prepared' = [verdict |-> Answer.verdict, ticket |-> Answer.ticket]
                    /\ UNCHANGED receipt
               ELSE /\ Returns(IF Answer.verdict = "no_plan"
                                 THEN Receipt("deny", "no_plan")
                                 ELSE Receipt("unavailable", "prepare_failed"))
                    /\ UNCHANGED prepared
          /\ UNCHANGED lost
       \/ /\ NoAnswer
          /\ Returns(Receipt("unavailable", "prepare_failed"))
          /\ lost' = lost \cup {run}
          /\ UNCHANGED prepared
    /\ Hears
    /\ UNCHANGED <<envelope, norm, traced, effects>>
    /\ KeepRun

\* between_prepare_and_commit: the caller's hook, or the caller itself, may have
\* changed the operation object by now.
CallerMutates(e) ==
    /\ pc = "prepared"
    /\ envelope' = e
    /\ UNCHANGED <<pc, run, world, frozen, approval, norm, fresh, prepared, broken, traced,
                   receipt, receipts, effects, lost, sessionVars, gateVars>>

\* The facts of the action that is held are those of this world.
Yields(w) == w \notin Gone /\ norm.facts = w

\* From here on the context is to be looked at again.
RevalidationBegins == fresh' = IF pc' = "revalidating" THEN Yields(world) ELSE fresh

\* _adjudicate after the hook.
AskApproves ==              \* faulty: an ask without a decision goes on
    /\ pc = "prepared"
    /\ Emits
    /\ IF prepared.verdict = "deny" THEN Returns(Receipt("deny", "policy"))
       ELSE IF prepared.verdict = "unavailable" THEN Returns(Receipt("unavailable", "policy"))
       ELSE pc' = "approving" /\ UNCHANGED receipt
    /\ IF pc' = "approving"
         THEN Ask("approval_decision", prepared.ticket, NoAction, "approved")
         ELSE Hears /\ UNCHANGED <<fromGate, alive, missed>>
    /\ UNCHANGED <<envelope, norm, prepared, traced, effects, lost>>
    /\ KeepRun

Adjudicate ==
    /\ pc = "prepared"
    /\ Emits
    /\ IF prepared.verdict = "deny" THEN Returns(Receipt("deny", "policy"))
       ELSE IF prepared.verdict = "unavailable" THEN Returns(Receipt("unavailable", "policy"))
       ELSE IF prepared.verdict = "allow" THEN pc' = "revalidating" /\ UNCHANGED receipt
       ELSE IF approval = "none" THEN Returns(Receipt("ask", "policy"))
       ELSE pc' = "approving" /\ UNCHANGED receipt
    /\ IF pc' = "approving"
         THEN Ask("approval_decision", prepared.ticket, NoAction, approval)
         ELSE Hears /\ UNCHANGED <<fromGate, alive, missed>>
    /\ UNCHANGED <<envelope, norm, prepared, traced, effects, lost>>
    /\ UNCHANGED <<run, world, frozen, approval, receipts>>
    /\ RevalidationBegins

\* A failing approval_decision is not caught here: run() ends without a receipt.
ApprovalAnswered ==
    /\ pc = "approving"
    /\ Emits
    /\ \/ /\ Answered
          /\ IF Answer.verdict # "recorded" THEN Returns(InternalError)
             ELSE IF approval = "denied" THEN Returns(Receipt("deny", "human_denied"))
             ELSE pc' = "revalidating" /\ UNCHANGED receipt
          /\ UNCHANGED lost
       \/ NoAnswer /\ Returns(InternalError) /\ lost' = lost \cup {run}
    /\ Hears
    /\ UNCHANGED <<envelope, norm, prepared, traced, effects>>
    /\ UNCHANGED <<run, world, frozen, approval, receipts>>
    /\ RevalidationBegins

(***************************************************************************)
(* revalidate_trusted_context: the prepared action must equal a fresh      *)
(* normalization, and the envelope the frozen one.  Then, after two more   *)
(* events, COMMIT; the context may have moved again by then.               *)
(***************************************************************************)
StaleArguments == NormalizationFails \/ Normalized(envelope) # norm   \* faulty: no digest

StaleEnvelope == envelope # frozen        \* faulty: nothing is normalized afresh

Stale == NormalizationFails \/ Normalized(envelope) # norm \/ envelope # frozen

Revalidate ==
    /\ pc = "revalidating"
    /\ Emits
    /\ IF Stale
         THEN Returns(Receipt("deny", "trusted_context_changed"))
         ELSE pc' = "revalidated" /\ UNCHANGED receipt
    /\ UNCHANGED <<envelope, norm, prepared, traced, effects, lost, sessionVars, gateVars>>
    /\ KeepRun

SendCommit ==
    /\ pc = "revalidated"
    /\ pc' = "committing"
    /\ Emits
    /\ Ask("commit", prepared.ticket, NoAction, "none")
    /\ UNCHANGED <<envelope, norm, prepared, traced, receipt, effects, lost>>
    /\ KeepRun

\* _commit_and_execute up to the executor; EXECUTION_STARTED reaches the disk, or
\* the recorder breaks.
StartsExecution ==
    /\ pc' = "executing"
    /\ receipt' = Receipt("allow", "committed")
    /\ \/ traced' = TRUE /\ UNCHANGED broken
       \/ broken' = TRUE /\ UNCHANGED traced

CommitAssumed ==            \* faulty: no answer is taken for a dispatch
    /\ pc = "committing"
    /\ (Answered /\ Answer.verdict = "dispatched") \/ NoAnswer
    /\ StartsExecution
    /\ Hears
    /\ UNCHANGED <<envelope, norm, prepared, effects, lost>>
    /\ KeepRun

CommitAnswered ==
    /\ pc = "committing"
    /\ \/ /\ Answered
          /\ Answer.verdict = "dispatched"
          /\ StartsExecution
          /\ UNCHANGED lost
       \/ /\ Answered
          /\ Answer.verdict # "dispatched"
          /\ Returns(IF Answer.verdict = "commit_deny" THEN Receipt("deny", "commit_refused")
                     ELSE Receipt("unavailable", "commit_refused"))
          /\ Emits
          /\ UNCHANGED <<traced, lost>>
       \/ /\ NoAnswer
          /\ Returns(Receipt("unavailable", "commit_failed"))
          /\ lost' = lost \cup {run}
          /\ Emits
          /\ UNCHANGED traced
    /\ Hears
    /\ UNCHANGED <<envelope, norm, prepared, effects>>
    /\ KeepRun

(***************************************************************************)
(* executor.execute: whether something happened in the world, and what the *)
(* orchestration concludes from the result or the exception.               *)
(***************************************************************************)
Conclusion(happened, executed, status) ==
    [happened |-> happened, executed |-> executed, status |-> status]

\* An exception that is no FixtureFailure: raised before the effect, or after it
\* may have taken place (a timed-out subprocess, a failing disk).
Raised == {Conclusion(h, FALSE, "failed") : h \in BOOLEAN}

RealConclusions ==
    {Conclusion(TRUE, TRUE, "succeeded"),       \* the effect took place
     Conclusion(TRUE, TRUE, "failed"),          \* the command ran and exited non-zero
     Conclusion(FALSE, TRUE, "failed"),         \* a push or merge Git rejected
     Conclusion(FALSE, FALSE, "failed")}        \* unsupported_real_effect
      \cup Raised

FixtureConclusions ==
    {Conclusion(TRUE, TRUE, "succeeded"),
     Conclusion(FALSE, TRUE, "failed"),         \* FixtureFailure
     Conclusion(TRUE, TRUE, "uncertain")}       \* FixtureFailure(partial=True)
      \cup Raised

Refused == {Conclusion(FALSE, FALSE, "failed")}

UntracedConclusions ==      \* faulty: the recorder is not looked at again
    IF Real THEN RealConclusions ELSE FixtureConclusions

\* The real executor looks at its recorder once more.
Conclusions ==
    IF ~Real THEN FixtureConclusions ELSE IF broken THEN Refused ELSE RealConclusions

Effect == [run |-> run, action |-> norm, ticket |-> prepared.ticket, envelope |-> envelope,
           frozen |-> frozen, approval |-> approval, traced |-> traced, fresh |-> fresh]

\* The receipt and the OUTCOME frame that follow from a conclusion.
Tells(c, recorded, told) ==
    /\ effects' = IF c.happened THEN Append(effects, Effect) ELSE effects
    /\ receipt' = [receipt EXCEPT !.executed = c.executed, !.outcome = recorded]
    /\ pc' = "reporting"
    /\ Ask("outcome", prepared.ticket, NoAction, told)

QuietRefusal(c) ==          \* faulty: what was not executed is not reported
    IF c.executed THEN Tells(c, c.status, c.status)
    ELSE /\ effects' = IF c.happened THEN Append(effects, Effect) ELSE effects
         /\ Returns([receipt EXCEPT !.outcome = c.status])
         /\ UNCHANGED <<sessionVars, gateVars>>

ReturnedMeansSucceeded(c) ==    \* faulty: an executor that returned has succeeded
    LET status == IF c.executed THEN "succeeded" ELSE c.status
    IN Tells(c, status, status)

UnknownStatus(c) ==         \* faulty: a status the receipt does not know
    LET status == IF c.executed THEN c.status ELSE "refused"
    IN Tells(c, status, status)

AlwaysToldSucceeded(c) ==   \* faulty: the Gate is told another status
    Tells(c, c.status, "succeeded")

Concludes(c) == Tells(c, c.status, c.status)

Execute ==
    /\ pc = "executing"
    /\ Emits
    /\ \E c \in Conclusions : Concludes(c)
    /\ UNCHANGED <<envelope, norm, prepared, traced, lost>>
    /\ KeepRun

\* _report_outcome: the receipt takes over the status the Gate answers with; an OUTCOME
\* that fails leaves it what the executor ended with.
OutcomeAnswered ==
    /\ pc = "reporting"
    /\ Emits
    /\ \/ /\ Answered
          /\ Returns(IF Answer.verdict \in Statuses
                       THEN [receipt EXCEPT !.outcome = Answer.verdict] ELSE receipt)
          /\ UNCHANGED lost
       \/ /\ NoAnswer
          /\ Returns(receipt)
          /\ lost' = lost \cup {run}
    /\ Hears
    /\ UNCHANGED <<envelope, norm, prepared, traced, effects>>
    /\ KeepRun

\* KeyboardInterrupt passes every `except Exception`: the run ends without a
\* receipt, and during execution the effect may or may not have taken place.
Interrupted ==
    /\ pc \in InRun
    /\ \/ UNCHANGED effects
       \/ pc = "executing" /\ ~(Real /\ broken) /\ effects' = Append(effects, Effect)
    /\ Returns(InternalError)
    /\ Abandons(pc \in Waiting)
    /\ lost' = lost \cup {run}
    /\ UNCHANGED <<envelope, norm, prepared, broken, traced, gateVars>>
    /\ KeepRun

\* The finally clause of run(): recorder.finish writes RUN_FINISHED and the receipt.
Finish ==
    /\ pc = "finishing"
    /\ pc' = "idle"
    /\ Emits
    /\ receipts' = Append(receipts, [frozen |-> frozen, norm |-> norm, receipt |-> receipt])
    /\ UNCHANGED <<run, world, envelope, frozen, approval, norm, fresh, prepared, traced,
                   receipt, effects, lost, sessionVars, gateVars>>

\* Somebody else changes a remote, moves HEAD or edits a file.
Drift(w) ==
    /\ world' = w
    /\ fresh' = (fresh \/ (pc = "revalidating" /\ Yields(w)))
    /\ UNCHANGED <<pc, run, envelope, frozen, approval, norm, prepared, broken, traced,
                   receipt, receipts, effects, lost, sessionVars, gateVars>>

-----------------------------------------------------------------------------
HostStep ==
    \/ Normalize
    \/ PrepareAnswered
    \/ Adjudicate
    \/ ApprovalAnswered
    \/ Revalidate
    \/ SendCommit
    \/ CommitAnswered
    \/ Execute
    \/ OutcomeAnswered
    \/ Finish

GateStep == (GateServes \/ GateStops) /\ UNCHANGED hostVars

Next ==
    \/ StartSession
    \/ HelloAnswered
    \/ CloseSession
    \/ \E e \in Envelopes, a \in Approvals : StartRun(e, a)
    \/ HostStep
    \/ Interrupted
    \/ \E e \in Envelopes : CallerMutates(e)
    \/ \E w \in Worlds : Drift(w)
    \/ GateStep
    \/ \E op \in Ops, d \in Decisions : UpdatePolicy(op, d) /\ UNCHANGED hostVars

Spec == Init /\ [][Next]_vars

\* Every wait of a run is bounded by response_timeout and the executor by its own,
\* so a run in progress always has a next step and takes it.
FairSpec == Spec /\ WF_vars(HostStep)

-----------------------------------------------------------------------------
Reasons == {"not_prepared", "internal_error", "no_trace_recorder", "unmappable_operation",
            "no_plan", "prepare_failed", "policy", "human_denied", "trusted_context_changed",
            "committed", "commit_refused", "commit_failed"}

Receipts == [decision: {"allow", "ask", "deny", "unavailable"}, reason: Reasons,
             executed: BOOLEAN, outcome: Statuses \cup {"none"}]

\* Every variable holds a value of its kind.
TypeOK ==
    /\ pc \in InRun \cup {"starting", "greeting", "idle", "finishing", "closed"}
    /\ run \in 0 .. MaxRuns
    /\ world \in Worlds
    /\ frozen = envelope \/ {frozen, envelope} \subseteq Envelopes
    /\ approval \in Approvals
    /\ norm \in Actions \cup {NoAction}
    /\ fresh \in BOOLEAN
    /\ prepared \in [verdict: Decisions \cup {"unavailable", "none"}, ticket: 0 .. MaxRuns]
    /\ broken \in BOOLEAN
    /\ traced \in BOOLEAN
    /\ receipt \in Receipts
    /\ \A n \in 1 .. Len(receipts) : receipts[n].receipt \in Receipts
    /\ Len(receipts) \in {run, run - 1}
    /\ lost \subseteq Tickets
    /\ policy \in [Ops -> Decisions]
    /\ \A t \in Tickets : plan[t].stage \in Stages

EffectIn(n) == \E i \in 1 .. Len(effects) : effects[i].run = n

\* Nothing happens in the world unless the Gate dispatched exactly that action, and
\* it happens at most once for a dispatch, whatever is lost, late or damaged on the
\* way (README.md:254-256, spike.py:15-17).
EffectsAreCommitted ==
    \A i \in 1 .. Len(effects) :
        LET held == plan[effects[i].ticket]
        IN /\ held.stage \in {"dispatched", "settled"}
           /\ held.action = effects[i].action
           /\ \A j \in 1 .. Len(effects) : effects[j].ticket = effects[i].ticket => i = j

\* What the policy asked about never happens without the approval of its own run
\* (spike.py:566-600).
AskedNeedsApproval ==
    \A i \in 1 .. Len(effects) :
        plan[effects[i].ticket].decision = "ask" => effects[i].approval = "approved"

\* An effect belongs to the envelope that was frozen when its run started, also when
\* the caller changed its object on the way (README.md:263-268).
EffectMatchesEnvelope ==
    \A i \in 1 .. Len(effects) :
        /\ effects[i].envelope = effects[i].frozen
        /\ effects[i].action.op = effects[i].frozen.op

\* Neither an ALLOW nor an approval outlives the context it was given for: an effect is
\* one the trusted context yielded after the Gate's last answer before COMMIT, for an
\* envelope that was frozen before the first one (README.md:258-268, spike.py:615-658).
EffectsWereFresh ==
    \A i \in 1 .. Len(effects) : effects[i].fresh

\* README.md:263-267: when trusted external state has changed, the prepared action is not
\* committed.  The action a COMMIT names is what the context yields when it goes out.
\* Does not hold: the context may move between the comparison and the frame.
CommitsAreFresh ==
    [][pc' = "committing" /\ pc # "committing" =>
          /\ world \notin Gone
          /\ plan[prepared.ticket].action = Normalized(envelope)]_vars

\* No writable trace, no real effect: EXECUTION_STARTED was on disk before any real
\* effect, although the recorder may break at any event (README.md:155-156).
RealEffectsAreTraced ==
    Real => \A i \in 1 .. Len(effects) : effects[i].traced

\* What a receipt claims is so: success only of an effect that took place and was seen to
\* be executed.  And an effect has an ALLOW in its receipt, unless the run was cut short
\* and has none (README.md:180-182, executor.py:43-50).
ReceiptsAreHonest ==
    \A n \in 1 .. Len(receipts) :
        LET r == receipts[n].receipt
        IN /\ r.outcome = "succeeded" => EffectIn(n) /\ r.executed
           /\ EffectIn(n) /\ r.reason # "internal_error" => r.decision = "allow"

\* The Gate and the receipt of a run never tell different stories about its outcome
\* (spike.py:781-791).
GateAgrees ==
    \A n \in 1 .. Len(receipts) :
        plan[n].stage = "settled" /\ receipts[n].receipt.reason # "internal_error"
            => plan[n].said = receipts[n].receipt.outcome

\* A dispatch is left without an outcome only if its run lost an answer or was
\* interrupted (spike.py:694-709, 781-812).
OrphanOnlyIfLost ==
    \A n \in 1 .. Len(receipts) : plan[n].stage = "dispatched" => n \in lost

\* Once an answer has been missed the session never finds its place again: every
\* later request reads the answer of an earlier one, and nothing more is executed
\* (tethers_client.py:196-259, 283-295).
FailsClosedAfterMissing == [][missed => effects' = effects]_vars

\* Every run ends with its record written, whatever the Gate does
\* (tethers_client.py:196-207, spike.py:363-375).
RunsEnd == pc = "normalizing" ~> pc = "idle"

\* host_executor.py:50-51: an effect whose end is not known is reported uncertain.
HangingEffectIsUncertain ==
    \A n \in 1 .. Len(receipts) :
        LET r == receipts[n].receipt
        IN EffectIn(n) /\ r.reason # "internal_error" /\ ~r.executed => r.outcome = "uncertain"

\* spike.py:6-10: the human decides on an explanation.  When the human was asked about
\* an envelope, what later happens for it under an approval is what was explained.
ApprovedWhatWasExplained ==
    \A i \in 1 .. Len(effects) :
        LET e == effects[i]
            asked == {n \in 1 .. e.run - 1 :
                        receipts[n].frozen = e.frozen /\ receipts[n].receipt.decision = "ask"}
        IN plan[e.ticket].decision = "ask" /\ asked # {}
             => \E n \in asked : receipts[n].norm = e.action
=============================================================================
