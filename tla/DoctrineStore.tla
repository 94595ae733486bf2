---------------------------- MODULE DoctrineStore ----------------------------
(***************************************************************************)
(* permission_slip/doctrine_store.py with the doctrine commands of         *)
(* __main__.py that use it.  Several processes share one state directory:  *)
(* adopters run `doctrine adopt`, importers run `doctrine import`, loaders *)
(* resolve the active doctrine, and somebody may damage candidate files by *)
(* hand.  os.replace is atomic; nothing else is.  A process may be killed  *)
(* between any two of its file operations.                                 *)
(***************************************************************************)
EXTENDS AdoptionLock, Naturals, Sequences

CONSTANTS
    Importers,  \* processes that import one export envelope each
    Loaders,    \* processes that load the active doctrine once each
    Digests,    \* well-formed doctrine digests
    None,       \* no active pointer / "--expect-current none"
    Malformed,  \* a value that is not a doctrine digest
    Calls       \* the adopt command lines under study

FileStates == {"absent", "good", "bad"}   \* "bad": present, but does not verify
PointerValues == Digests \cup {None, Malformed}

\* "command": `doctrine adopt`, which reports the previous digest and waits for
\* the lock; "api": adopt() without a timeout; "deadline": adopt() with one.
Callers == {"command", "api", "deadline"}

AdoptCalls == [candidate: Digests \cup {Malformed}, expect: PointerValues, caller: Callers]

ASSUME DigestsAssumption ==
    /\ None \notin Digests
    /\ Malformed \notin Digests
    /\ None # Malformed

ASSUME CallsAssumption == Calls \subseteq AdoptCalls

VARIABLES
    pointer,    \* what active.json names
    file,       \* each candidate file
    call,       \* each adopter's arguments
    previous,   \* the digest _cmd_adopt read before calling adopt()
    temps,      \* adopters whose pointer temp file is on disk
    ipc, iarg,  \* importers: where they are, the digest they import
    lpc, larg,  \* loaders: where they are, the pointer they read
    swaps,      \* history: the adopters that replaced the pointer, in order
    tampered    \* history: digests whose candidate was damaged by hand

storeVars  == <<pointer, file, temps, swaps, tampered>>
adoptVars  == <<pc, holder, outcome, call, previous>>
importVars == <<ipc, iarg>>
loadVars   == <<lpc, larg>>
vars == <<storeVars, adoptVars, importVars, loadVars>>

Init ==
    /\ pc = [a \in Adopters |-> "idle"]
    /\ holder = Nobody
    /\ outcome = [a \in Adopters |-> "pending"]
    /\ pointer \in PointerValues
    /\ file \in [Digests -> FileStates]
    /\ call \in [Adopters -> Calls]
    /\ previous = [a \in Adopters |-> None]
    /\ temps = {}
    /\ ipc = [i \in Importers |-> "idle"]
    /\ iarg = [i \in Importers |-> None]
    /\ lpc = [r \in Loaders |-> "idle"]
    /\ larg = [r \in Loaders |-> None]
    /\ swaps = <<>>
    /\ tampered = {d \in Digests : file[d] = "bad" \/ (d = pointer /\ file[d] = "absent")}

(***************************************************************************)
(* Adoption.  The command reads the pointer for its report before it calls *)
(* adopt(), outside the lock; a malformed pointer already fails there.     *)
(***************************************************************************)
BeginCommand(a) ==
    /\ pc[a] = "idle"
    /\ call[a].caller = "command"
    /\ IF pointer = Malformed
         THEN Ends(a, "done", "state_error") /\ UNCHANGED previous
         ELSE /\ Goto(a, "called")
              /\ previous' = [previous EXCEPT ![a] = pointer]
              /\ UNCHANGED outcome
    /\ UNCHANGED <<holder, call, storeVars, importVars, loadVars>>

\* adopt() refuses malformed digests before it goes near the lock.
CallAdopt(a) ==
    /\ pc[a] = IF call[a].caller = "command" THEN "called" ELSE "idle"
    /\ IF Malformed \in {call[a].candidate, call[a].expect}
         THEN Ends(a, "done", "state_error")
         ELSE Goto(a, "opening") /\ UNCHANGED outcome
    /\ UNCHANGED <<holder, call, previous, storeVars, importVars, loadVars>>

\* adopt(): read the pointer under the lock and compare it.
ComparePrevious(a) ==        \* faulty: compares what was read before the lock
    /\ pc[a] = "reading"
    /\ IF call[a].expect # previous[a]
         THEN Ends(a, "unlocking", "conflict")
         ELSE Goto(a, "verifying") /\ UNCHANGED outcome
    /\ UNCHANGED <<holder, call, previous, storeVars, importVars, loadVars>>

ReadCurrent(a) ==
    /\ pc[a] = "reading"
    /\ IF pointer = Malformed THEN Ends(a, "unlocking", "state_error")
       ELSE IF call[a].expect # pointer THEN Ends(a, "unlocking", "conflict")
       ELSE Goto(a, "verifying") /\ UNCHANGED outcome
    /\ UNCHANGED <<holder, call, previous, storeVars, importVars, loadVars>>

\* adopt(): the candidate must exist and its recomputed digest must agree.
TrustCandidate(a) ==         \* faulty: adopts an unverified digest
    /\ pc[a] = "verifying"
    /\ Goto(a, "writing")
    /\ UNCHANGED <<outcome, holder, call, previous, storeVars, importVars, loadVars>>

VerifyCandidate(a) ==
    /\ pc[a] = "verifying"
    /\ IF file[call[a].candidate] = "absent" THEN Ends(a, "unlocking", "unavailable")
       ELSE IF file[call[a].candidate] = "bad" THEN Ends(a, "unlocking", "state_error")
       ELSE Goto(a, "writing") /\ UNCHANGED outcome
    /\ UNCHANGED <<holder, call, previous, storeVars, importVars, loadVars>>

\* _atomic_write: the temp file next to active.json ...
WriteTemp(a) ==
    /\ pc[a] = "writing"
    /\ Goto(a, "replacing")
    /\ temps' = temps \cup {a}
    /\ UNCHANGED <<holder, outcome, call, previous, pointer, file, swaps, tampered,
                   importVars, loadVars>>

\* ... and os.replace, the one step that changes the active doctrine.
ReplacePointer(a) ==
    /\ pc[a] = "replacing"
    /\ Ends(a, "unlocking", "adopted")
    /\ pointer' = call[a].candidate
    /\ temps' = temps \ {a}
    /\ swaps' = Append(swaps, a)
    /\ UNCHANGED <<holder, call, previous, file, tampered, importVars, loadVars>>

\* An OSError inside the block, which the command reports, or an interrupt, which no
\* handler of the command catches; _atomic_write removes its temp.
RaiseEscapes(a) ==           \* faulty: an error no handler maps to a report
    /\ pc[a] \in CriticalPCs \ {"unlocking"}
    /\ Ends(a, "unlocking", "traceback")
    /\ temps' = temps \ {a}
    /\ UNCHANGED <<holder, call, previous, pointer, file, swaps, tampered,
                   importVars, loadVars>>

CriticalSectionRaises(a) ==
    /\ pc[a] \in CriticalPCs \ {"unlocking"}
    /\ \E raised \in {"not_ready", "interrupted"} : Ends(a, "unlocking", raised)
    /\ temps' = temps \ {a}
    /\ UNCHANGED <<holder, call, previous, pointer, file, swaps, tampered,
                   importVars, loadVars>>

LockStep(a) ==
    /\ \/ OpenLockFile(a)
       \/ TryLock(a)
       \/ LockContended(a)
       \/ TryLockFails(a)
       \/ DeadlinePasses(a, call[a].caller # "deadline")
       \/ PollAgain(a)
       \/ Unlock(a)
       \/ CloseLockFile(a)
    /\ UNCHANGED <<call, previous, storeVars, importVars, loadVars>>

AdopterKilled(a) ==
    /\ Killed(a)
    /\ UNCHANGED <<call, previous, storeVars, importVars, loadVars>>

(***************************************************************************)
(* import_export: an envelope that decodes names a digest; an existing     *)
(* candidate must verify and is never repaired, a missing one is written   *)
(* atomically.  Neither the lock nor the pointer is involved.              *)
(***************************************************************************)
ImportTo(i, label) == ipc' = [ipc EXCEPT ![i] = label]

BeginImport(i, d) ==
    /\ ipc[i] = "idle"
    /\ iarg' = [iarg EXCEPT ![i] = d]
    /\ ImportTo(i, IF d = Malformed THEN "refused"
                   ELSE IF file[d] = "absent" THEN "storing" ELSE "checking")
    /\ UNCHANGED <<storeVars, adoptVars, loadVars>>

CheckExisting(i) ==
    /\ ipc[i] = "checking"
    /\ ImportTo(i, IF file[iarg[i]] = "good" THEN "stored" ELSE "refused")
    /\ UNCHANGED <<iarg, storeVars, adoptVars, loadVars>>

StoreCandidate(i) ==
    /\ ipc[i] = "storing"
    /\ file' = [file EXCEPT ![iarg[i]] = "good"]
    /\ ImportTo(i, "stored")
    /\ UNCHANGED <<iarg, pointer, temps, swaps, tampered, adoptVars, loadVars>>

\* The write fails or the process dies before os.replace.
AbortUnlinksCandidate(i) ==  \* faulty: cleans up the candidate, not the temp file
    /\ ipc[i] \in {"checking", "storing"}
    /\ ImportTo(i, "refused")
    /\ file' = [file EXCEPT ![iarg[i]] = "absent"]
    /\ UNCHANGED <<iarg, pointer, temps, swaps, tampered, adoptVars, loadVars>>

ImportAborts(i) ==
    /\ ipc[i] \in {"checking", "storing"}
    /\ ImportTo(i, "refused")
    /\ UNCHANGED <<iarg, storeVars, adoptVars, loadVars>>

(***************************************************************************)
(* load_active_doctrine: read the pointer, then load and verify the        *)
(* candidate it names, without the lock.                                   *)
(***************************************************************************)
ReadPointer(r) ==
    /\ lpc[r] = "idle"
    /\ larg' = [larg EXCEPT ![r] = pointer]
    /\ lpc' = [lpc EXCEPT ![r] = IF pointer = None THEN "no_active"
                                   ELSE IF pointer = Malformed THEN "refused"
                                   ELSE "loading"]
    /\ UNCHANGED <<storeVars, adoptVars, importVars>>

LoadCandidate(r) ==
    /\ lpc[r] = "loading"
    /\ lpc' = [lpc EXCEPT ![r] = IF file[larg[r]] = "good" THEN "loaded" ELSE "refused"]
    /\ UNCHANGED <<larg, storeVars, adoptVars, importVars>>

\* Somebody removes or edits a candidate file by hand.
Tamper(d) ==
    /\ file' \in {[file EXCEPT ![d] = s] : s \in {"absent", "bad"}}
    /\ tampered' = tampered \cup {d}
    /\ UNCHANGED <<pointer, temps, swaps, adoptVars, importVars, loadVars>>

-----------------------------------------------------------------------------
AdoptStep(a) ==
    \/ pc[a] = "called" /\ CallAdopt(a)
    \/ ReadCurrent(a)
    \/ VerifyCandidate(a)
    \/ WriteTemp(a)
    \/ ReplacePointer(a)
    \/ CriticalSectionRaises(a)
    \/ LockStep(a)

ImportStep(i) == CheckExisting(i) \/ StoreCandidate(i) \/ ImportAborts(i)

Next ==
    \/ \E a \in Adopters : BeginCommand(a) \/ CallAdopt(a) \/ AdoptStep(a) \/ AdopterKilled(a)
    \/ \E i \in Importers : ImportStep(i) \/ \E d \in Digests \cup {Malformed} : BeginImport(i, d)
    \/ \E r \in Loaders : ReadPointer(r) \/ LoadCandidate(r)
    \/ \E d \in Digests : Tamper(d)

Spec == Init /\ [][Next]_vars

\* A process that has begun its call and is not killed keeps executing.
Fairness == \A a \in Adopters : WF_vars(AdoptStep(a))

FairSpec == Spec /\ Fairness

-----------------------------------------------------------------------------
AllPCs == LockPCs \cup CriticalPCs \cup EndPCs \cup {"idle", "called"}

\* Every variable holds a value of its kind.
TypeOK ==
    /\ pc \in [Adopters -> AllPCs]
    /\ holder \in Adopters \cup {Nobody}
    /\ outcome \in [Adopters -> Outcomes]
    /\ pointer \in PointerValues
    /\ file \in [Digests -> FileStates]
    /\ call \in [Adopters -> Calls]
    /\ previous \in [Adopters -> PointerValues]
    /\ temps \subseteq Adopters
    /\ ipc \in [Importers -> {"idle", "checking", "storing", "stored", "refused"}]
    /\ iarg \in [Importers -> PointerValues]
    /\ lpc \in [Loaders -> {"idle", "loading", "loaded", "refused", "no_active"}]
    /\ larg \in [Loaders -> PointerValues]
    /\ swaps \in Seq(Adopters)
    /\ tampered \subseteq Digests

\* The pointer replacements form one compare-and-swap chain: each was made by an
\* adopter that expected exactly what the one before it installed, and the last
\* one is what active.json names now (doctrine_store.py:15-21).
SwapChain ==
    /\ \A n \in 1 .. Len(swaps) - 1 : call[swaps[n + 1]].expect = call[swaps[n]].candidate
    /\ swaps # <<>> => pointer = call[swaps[Len(swaps)]].candidate

\* The active doctrine verifies, unless its candidate was damaged by hand: it was
\* verified before the pointer moved and no import ever spoils it
\* (doctrine_store.py:287-289, 319-326).
ActiveVerifies ==
    pointer \in Digests \ tampered => file[pointer] = "good"

\* Loading without the lock is safe: a load fails only on damaged state, never
\* because it raced an adoption or an import (doctrine_store.py:134-135, 301-302).
LoadFailsOnlyIfDamaged ==
    \A r \in Loaders : lpc[r] = "refused" => larg[r] \in tampered \cup {Malformed}

\* Nothing an importer, a loader or a failing adopter does, and no death at any
\* point, moves the pointer: it moves only from the expected digest to the
\* candidate of the adopter that holds the lock (doctrine_store.py:13-18).
PointerMovesOnlyByAdoption ==
    [][pointer' # pointer =>
          /\ holder # Nobody
          /\ call[holder].expect = pointer
          /\ call[holder].candidate = pointer'
          /\ outcome'[holder] = "adopted"]_pointer

\* Every adoption that is not killed ends: the lock is always handed on, also
\* when a holder fails or dies (adoption_lock.py:176-179).
AdoptionsEnd ==
    \A a \in Adopters : pc[a] = "opening" ~> pc[a] \in EndPCs

\* The store implements the compare-and-swap register.
Verdict(a) ==
    IF outcome[a] \in {"pending", "adopted", "conflict"} THEN outcome[a] ELSE "failed"

Register == INSTANCE AtomicDoctrine WITH
    active <- pointer, verdict <- [a \in Adopters |-> Verdict(a)]

ImplementsRegister == Register!Spec

\* README.md:121-122: two processes adopting from the same expected state produce
\* exactly one winner.
OneWinner ==
    \A a, b \in Adopters :
        /\ outcome[a] = "adopted" /\ outcome[b] = "adopted"
        /\ call[a].expect = call[b].expect
        => a = b

\* __main__.py:196,203: the digest reported as "previous" is the one this adoption
\* replaced.
ReportedPreviousWasReplaced ==
    \A a \in Adopters :
        outcome[a] = "adopted" /\ call[a].caller = "command" => previous[a] = call[a].expect
=============================================================================
