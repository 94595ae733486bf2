---------------------------- MODULE FlightRecorder ----------------------------
(***************************************************************************)
(* permission_slip/observability.py: TraceRecorder and apply_retention.    *)
(* Several sessions, one recorder each, write their runs under one state   *)
(* root.  A run is a directory: events appended one by one, then           *)
(* RUN_FINISHED, receipt.json and summary.json, in that order, then one    *)
(* pass of retention over everybody's runs.  Any write may fail, any       *)
(* session may die anywhere, and nothing is locked.  Runs are numbered in  *)
(* the order they start; that is the order list_runs sorts them in.        *)
(***************************************************************************)
EXTENDS Naturals, Sequences, FiniteSets, FiniteSetsExt, SequencesExt

CONSTANTS
    Recorders,  \* sessions, each with its TraceRecorder
    MaxRuns,    \* bound on the runs started
    MaxEvents,  \* bound on the events emitted before RUN_FINISHED
    SoftCap, HardCap

ASSUME CapsAssumption ==
    /\ SoftCap \in Nat
    /\ HardCap \in Nat
    /\ SoftCap <= HardCap

ASSUME BoundsAssumption == MaxRuns \in Nat /\ MaxEvents \in Nat

Runs   == 1 .. MaxRuns
Files  == {"events.jsonl", "receipt.json", "summary.json"}
NoRun  == 0
Finished == 0       \* the RUN_FINISHED event; the others are numbered from 1

Outcomes == {"succeeded", "failed"}     \* "failed": every outcome but succeeded

VARIABLES
    pc, cur,        \* each session: where it is, the run it records
    emitted,        \* events it has tried to write for that run
    broken,         \* its recorder's flag
    outcome,        \* the outcome of the run it finishes
    doomed,         \* the run ids its retention pass will still delete, in order
    listing,        \* the children of the directory it is deleting
    started,        \* the number of runs started so far
    present,        \* runs that have a directory
    files,          \* the files in each run's directory
    events,         \* the content of events.jsonl
    summary,        \* the outcome summary.json records
    condemned       \* history: the runs any retention pass chose to delete

recVars  == <<pc, cur, emitted, broken, outcome, doomed, listing, started, condemned>>
diskVars == <<present, files, events, summary>>
vars == <<recVars, diskVars>>

Init ==
    /\ pc = [p \in Recorders |-> "idle"]
    /\ cur = [p \in Recorders |-> NoRun]
    /\ emitted = [p \in Recorders |-> 0]
    /\ broken = [p \in Recorders |-> FALSE]
    /\ outcome = [p \in Recorders |-> "failed"]
    /\ doomed = [p \in Recorders |-> <<>>]
    /\ listing = [p \in Recorders |-> {}]
    /\ started = 0
    /\ present = {}
    /\ files = [r \in Runs |-> {}]
    /\ events = [r \in Runs |-> <<>>]
    /\ summary = [r \in Runs |-> "none"]
    /\ condemned = {}

Goto(p, label) == pc' = [pc EXCEPT ![p] = label]
Breaks(p) == broken' = [broken EXCEPT ![p] = TRUE]

\* start_run: without its directory the run is not recorded at all.
StartRun(p) ==
    /\ pc[p] = "idle"
    /\ started < MaxRuns
    /\ started' = started + 1
    /\ \/ /\ present' = present \cup {started'}
          /\ cur' = [cur EXCEPT ![p] = started']
          /\ emitted' = [emitted EXCEPT ![p] = 0]
          /\ Goto(p, "recording")
          /\ UNCHANGED broken
       \/ Breaks(p) /\ UNCHANGED <<present, cur, emitted, pc>>
    /\ UNCHANGED <<outcome, doomed, listing, files, events, summary, condemned>>

\* Append one line to events.jsonl: it creates the file, never the directory.
Appends(r, e) ==
    /\ r \in present
    /\ files' = [files EXCEPT ![r] = @ \cup {"events.jsonl"}]
    /\ events' = [events EXCEPT ![r] = Append(@, e)]

EmitUnnoticed(p) ==         \* faulty: a failed write does not break the recorder
    /\ pc[p] = "recording"
    /\ emitted[p] < MaxEvents
    /\ emitted' = [emitted EXCEPT ![p] = @ + 1]
    /\ Appends(cur[p], emitted'[p]) \/ UNCHANGED <<files, events>>
    /\ UNCHANGED <<pc, cur, broken, outcome, doomed, listing, started, present, summary,
                   condemned>>

\* emit: a failed write breaks the recorder, and later events are still tried.
Emit(p) ==
    /\ pc[p] = "recording"
    /\ emitted[p] < MaxEvents
    /\ emitted' = [emitted EXCEPT ![p] = @ + 1]
    /\ \/ Appends(cur[p], emitted'[p]) /\ UNCHANGED broken
       \/ Breaks(p) /\ UNCHANGED <<files, events>>
    /\ UNCHANGED <<pc, cur, outcome, doomed, listing, started, present, summary, condemned>>

(***************************************************************************)
(* finish: the three writes in order; the first that fails ends them.      *)
(***************************************************************************)
WriteFails(p) ==
    /\ Breaks(p)
    /\ Goto(p, "retaining")
    /\ UNCHANGED <<files, events, summary>>

WriteFinished(p, o) ==
    /\ pc[p] = "recording"
    /\ outcome' = [outcome EXCEPT ![p] = o]
    /\ \/ /\ Appends(cur[p], Finished)
          /\ Goto(p, "receipt")
          /\ UNCHANGED <<broken, summary>>
       \/ WriteFails(p)
    /\ UNCHANGED <<cur, emitted, doomed, listing, started, present, condemned>>

\* _write_json makes the directory if it is gone, also when it then fails.
Writes(p, file) ==
    /\ present' = present \cup {cur[p]}
    /\ files' = [files EXCEPT ![cur[p]] = @ \cup {file}]
    /\ UNCHANGED <<broken, events>>

JsonFails(p) ==
    /\ WriteFails(p)
    /\ present' \in {present, present \cup {cur[p]}}

SkipReceipt(p) ==           \* faulty: goes on to the summary without a receipt
    /\ pc[p] = "receipt"
    /\ \/ Writes(p, "receipt.json")
       \/ Breaks(p) /\ UNCHANGED <<present, files, events>>
    /\ Goto(p, "summary")
    /\ UNCHANGED summary
    /\ UNCHANGED <<cur, emitted, outcome, doomed, listing, started, condemned>>

WriteReceipt(p) ==
    /\ pc[p] = "receipt"
    /\ \/ Writes(p, "receipt.json") /\ Goto(p, "summary") /\ UNCHANGED summary
       \/ JsonFails(p)
    /\ UNCHANGED <<cur, emitted, outcome, doomed, listing, started, condemned>>

WriteSummary(p) ==
    /\ pc[p] = "summary"
    /\ \/ /\ Writes(p, "summary.json")
          /\ summary' = [summary EXCEPT ![cur[p]] = outcome[p]]
          /\ Goto(p, "retaining")
       \/ JsonFails(p)
    /\ UNCHANGED <<cur, emitted, outcome, doomed, listing, started, condemned>>

(***************************************************************************)
(* apply_retention over the runs list_runs finds: above the soft cap the   *)
(* oldest successes go, above the hard cap the oldest of what is left.     *)
(* The recorder has just dropped its own run, so it protects none.         *)
(***************************************************************************)
Older(rs, r) == {s \in rs : s < r}
Oldest(rs, n) == {r \in rs : Cardinality(Older(rs, r)) < n}

\* The order list_runs gives the records, which the deletions keep.
Ascending(rs) ==
    [i \in 1 .. Cardinality(rs) |-> CHOOSE r \in rs : Cardinality(Older(rs, r)) = i - 1]

Excess(rs, cap) == IF Cardinality(rs) > cap THEN Cardinality(rs) - cap ELSE 0

Successes(rs) == {r \in rs : "summary.json" \in files[r] /\ summary[r] = "succeeded"}

TrimAnything(rs) == Oldest(rs, Excess(rs, SoftCap))      \* faulty: failures go, too

Trimmed(rs) == Oldest(Successes(rs), Excess(rs, SoftCap))

Doomed(rs) ==
    LET trimmed == Trimmed(rs)
        left == rs \ trimmed
    IN Ascending(trimmed) \o Ascending(Oldest(left, Excess(left, HardCap)))

RetainForgetsPop(p) ==      \* faulty: the finished run stays the current one
    /\ pc[p] = "retaining"
    /\ doomed' = [doomed EXCEPT ![p] = Doomed(present)]
    /\ condemned' = condemned \cup ToSet(doomed'[p])
    /\ Goto(p, "deleting")
    /\ UNCHANGED <<cur, emitted, broken, outcome, listing, started, diskVars>>

Retain(p) ==
    /\ pc[p] = "retaining"
    /\ doomed' = [doomed EXCEPT ![p] = Doomed(present)]
    /\ condemned' = condemned \cup ToSet(doomed'[p])
    /\ cur' = [cur EXCEPT ![p] = NoRun]
    /\ emitted' = [emitted EXCEPT ![p] = 0]
    /\ outcome' = [outcome EXCEPT ![p] = "failed"]
    /\ Goto(p, "deleting")
    /\ UNCHANGED <<broken, listing, started, diskVars>>

\* _delete_run_dir: list the children, unlink each, remove the directory; an error
\* anywhere leaves the rest.
OpenDir(p) ==
    /\ pc[p] = "deleting"
    /\ doomed[p] # <<>>
    /\ IF Head(doomed[p]) \in present
         THEN /\ listing' = [listing EXCEPT ![p] = files[Head(doomed[p])]]
              /\ Goto(p, "unlinking")
              /\ UNCHANGED doomed
         ELSE /\ doomed' = [doomed EXCEPT ![p] = Tail(@)]
              /\ UNCHANGED <<pc, listing>>
    /\ UNCHANGED <<cur, emitted, broken, outcome, started, condemned, diskVars>>

UnlinkChild(p, f) ==
    /\ pc[p] = "unlinking"
    /\ f \in listing[p]
    /\ listing' = [listing EXCEPT ![p] = @ \ {f}]
    /\ LET r == Head(doomed[p])
       IN /\ files' = [files EXCEPT ![r] = @ \ {f}]
          /\ events' = [events EXCEPT ![r] = IF f = "events.jsonl" THEN <<>> ELSE @]
          /\ summary' = [summary EXCEPT ![r] = IF f = "summary.json" THEN "none" ELSE @]
    /\ UNCHANGED <<pc, cur, emitted, broken, outcome, doomed, started, condemned, present>>

RemoveDir(p) ==
    /\ pc[p] = "unlinking"
    /\ listing[p] = {}
    /\ present' = IF files[Head(doomed[p])] = {} THEN present \ {Head(doomed[p])} ELSE present
    /\ doomed' = [doomed EXCEPT ![p] = Tail(@)]
    /\ Goto(p, "deleting")
    /\ UNCHANGED <<cur, emitted, broken, outcome, listing, started, condemned, files, events, summary>>

DeleteFails(p) ==
    /\ pc[p] = "unlinking"
    /\ doomed' = [doomed EXCEPT ![p] = Tail(@)]
    /\ listing' = [listing EXCEPT ![p] = {}]
    /\ Goto(p, "deleting")
    /\ UNCHANGED <<cur, emitted, broken, outcome, started, condemned, diskVars>>

RetentionDone(p) ==
    /\ pc[p] = "deleting"
    /\ doomed[p] = <<>>
    /\ Goto(p, "idle")
    /\ UNCHANGED <<cur, emitted, broken, outcome, doomed, listing, started, condemned, diskVars>>

\* A death loses what was in memory and leaves the disk as it is.
Dies(p) ==
    /\ pc[p] # "dead"
    /\ Goto(p, "dead")
    /\ cur' = [cur EXCEPT ![p] = NoRun]
    /\ emitted' = [emitted EXCEPT ![p] = 0]
    /\ broken' = [broken EXCEPT ![p] = FALSE]
    /\ outcome' = [outcome EXCEPT ![p] = "failed"]
    /\ doomed' = [doomed EXCEPT ![p] = <<>>]
    /\ listing' = [listing EXCEPT ![p] = {}]
    /\ UNCHANGED <<started, condemned, diskVars>>

Next == \E p \in Recorders :
    \/ StartRun(p)
    \/ Emit(p)
    \/ \E o \in Outcomes : WriteFinished(p, o)
    \/ WriteReceipt(p)
    \/ WriteSummary(p)
    \/ Retain(p)
    \/ OpenDir(p)
    \/ \E f \in Files : UnlinkChild(p, f)
    \/ RemoveDir(p)
    \/ DeleteFails(p)
    \/ RetentionDone(p)
    \/ Dies(p)

Spec == Init /\ [][Next]_vars

-----------------------------------------------------------------------------
Writing == {"recording", "receipt", "summary"}

\* Every variable holds a value of its kind; an idle session records nothing.
TypeOK ==
    /\ pc \in [Recorders -> Writing \cup {"idle", "retaining", "deleting", "unlinking", "dead"}]
    /\ cur \in [Recorders -> Runs \cup {NoRun}]
    /\ \A p \in Recorders : pc[p] = "idle" => cur[p] = NoRun
    /\ emitted \in [Recorders -> 0 .. MaxEvents]
    /\ broken \in [Recorders -> BOOLEAN]
    /\ outcome \in [Recorders -> Outcomes]
    /\ \A p \in Recorders : ToSet(doomed[p]) \subseteq Runs
    /\ listing \in [Recorders -> SUBSET Files]
    /\ started \in 0 .. MaxRuns
    /\ present \subseteq 1 .. started
    /\ files \in [Runs -> SUBSET Files]
    /\ \A r \in Runs : ToSet(events[r]) \subseteq 0 .. MaxEvents
    /\ summary \in [Runs -> Outcomes \cup {"none"}]

\* A recorder that still counts as writable has every event of its run on disk, in
\* order: this is what the real executor relies on when it looks at `writable`
\* before an effect (observability.py:200-203, 250-274, host_executor.py:168-171).
\* A run that another session's retention chose to delete is the one exception; when
\* that can happen is the question of InFlightIsKept and InFlightBelowHardCap.
TraceIsComplete ==
    \A p \in Recorders :
        pc[p] = "recording" /\ ~broken[p] /\ cur[p] \notin condemned
            => events[cur[p]] = [i \in 1 .. emitted[p] |-> i]

\* A summary marks a terminal run: its trace ends in RUN_FINISHED and its receipt is
\* there, unless a retention pass is taking the run apart.  A run cut short by a
\* death, or by a failure of one of the writes that end it, never looks terminal
\* (observability.py:298-342).  An event that could not be written before may still be
\* missing in the middle: the recorder is broken then, the record is not.
TerminalIsComplete ==
    \A r \in Runs \ condemned :
        "summary.json" \in files[r] =>
            /\ "receipt.json" \in files[r]
            /\ events[r] # <<>>
            /\ Last(events[r]) = Finished

\* A run that is still being written is never deleted (README.md:185,
\* observability.py:476).
InFlightIsKept ==
    \A p \in Recorders : pc[p] \in Writing => cur[p] \notin condemned

\* As long as no more runs than the hard cap were ever started, the soft cap alone is
\* at work, and it spares every run without a summary: whatever two sessions do, the
\* run one of them still writes survives the retention pass of the other
\* (observability.py:484-500).
InFlightBelowHardCap == started <= HardCap => InFlightIsKept

\* What a retention pass chooses: no more than the hard cap stays, nothing goes below
\* the soft cap, a failure goes only when no success is left, and of the successes
\* the oldest go first (observability.py:469-516, README.md:183-185).
RetentionKeepsFailures ==
    [][\A p \in Recorders : pc[p] = "retaining" /\ pc'[p] = "deleting" =>
          LET gone == ToSet(doomed'[p])
              kept == present \ gone
          IN /\ Cardinality(kept) <= HardCap
             /\ gone # {} => Cardinality(kept) >= SoftCap
             /\ gone \ Successes(present) # {} => Successes(kept) = {}
             /\ \A g \in Successes(gone), k \in Successes(kept) : g < k]_vars
=============================================================================
