---------------------------- MODULE AdoptionLock ----------------------------
(***************************************************************************)
(* permission_slip/adoption_lock.py: one advisory lock held by the kernel  *)
(* for at most one open descriptor.  The lock FILE carries no information  *)
(* (it is created once and never removed), so the only state is who holds  *)
(* the lock.  An adopter walks through pc:                                 *)
(*                                                                         *)
(*   opening -> trying -> [critical section] -> unlocking -> closing       *)
(*                 ^  \                                         ^          *)
(*                 |   v                                        |          *)
(*               contended ------------------- deadline passed -+          *)
(*                                                                         *)
(* The critical section itself belongs to the module that extends this.    *)
(* A definition marked "faulty" is a plausible bug in the one after it;    *)
(* no specification uses it, it is there to show that a property notices.  *)
(***************************************************************************)

CONSTANTS
    Adopters,   \* the processes that call adopt(), one call each
    Nobody      \* the lock is free

ASSUME NobodyAssumption == Nobody \notin Adopters

VARIABLES
    pc,         \* where each adopter is in its call
    holder,     \* the adopter whose descriptor holds the kernel lock
    outcome     \* what each adopter's call has produced so far

lockVars == <<pc, holder, outcome>>

LockPCs   == {"opening", "trying", "contended", "unlocking", "closing"}
CriticalPCs == {"reading", "verifying", "writing", "replacing", "unlocking"}
EndPCs    == {"done", "killed"}

Outcomes ==
    {"pending", "adopted", "conflict", "timeout", "unavailable", "state_error", "not_ready",
     "interrupted"}

Goto(a, label) == pc' = [pc EXCEPT ![a] = label]

Ends(a, label, result) ==
    /\ Goto(a, label)
    /\ outcome' = [outcome EXCEPT ![a] = result]

(***************************************************************************)
(* _open_lock_file: create the directory and the file, or fail.            *)
(***************************************************************************)
OpenLockFile(a) ==
    /\ pc[a] = "opening"
    /\ \/ Goto(a, "trying") /\ UNCHANGED outcome
       \/ Ends(a, "done", "not_ready")
    /\ UNCHANGED holder

(***************************************************************************)
(* One non-blocking attempt of _acquire: it gets the lock, finds it taken, *)
(* or meets an errno that is not contention and is raised again.           *)
(***************************************************************************)
TryLockBlindly(a) ==                      \* faulty: no exclusion
    /\ pc[a] = "trying"
    /\ holder' = a
    /\ Goto(a, "reading")
    /\ UNCHANGED outcome

TryLock(a) ==
    /\ pc[a] = "trying"
    /\ holder = Nobody
    /\ holder' = a
    /\ Goto(a, "reading")
    /\ UNCHANGED outcome

LockContended(a) ==
    /\ pc[a] = "trying"
    /\ holder # Nobody
    /\ Goto(a, "contended")
    /\ UNCHANGED <<holder, outcome>>

TryLockFails(a) ==
    /\ pc[a] = "trying"
    /\ Ends(a, "closing", "not_ready")
    /\ UNCHANGED holder

(***************************************************************************)
(* After contention: AdoptionLockTimeout once the deadline has passed      *)
(* (a patient caller, timeout=None, has none), otherwise sleep and retry.  *)
(***************************************************************************)
DeadlineUnlocks(a, patient) ==            \* faulty: unlocks a lock it never got
    /\ pc[a] = "contended"
    /\ ~patient
    /\ Ends(a, "closing", "timeout")
    /\ holder' = Nobody

DeadlineIsConflict(a, patient) ==         \* faulty: a timeout reported as a conflict
    /\ pc[a] = "contended"
    /\ ~patient
    /\ Ends(a, "closing", "conflict")
    /\ UNCHANGED holder

DeadlinePasses(a, patient) ==
    /\ pc[a] = "contended"
    /\ ~patient
    /\ Ends(a, "closing", "timeout")
    /\ UNCHANGED holder

PollAgain(a) ==
    /\ pc[a] = "contended"
    /\ Goto(a, "trying")
    /\ UNCHANGED <<holder, outcome>>

(***************************************************************************)
(* Leaving the block: _unlock may fail silently; closing the descriptor    *)
(* drops the lock in any case.                                             *)
(***************************************************************************)
Released(a) == IF holder = a THEN Nobody ELSE holder

Unlock(a) ==
    /\ pc[a] = "unlocking"
    /\ holder' \in {Released(a), holder}
    /\ Goto(a, "closing")
    /\ UNCHANGED outcome

CloseKeepsLock(a) ==                      \* faulty: the descriptor is leaked
    /\ pc[a] = "closing"
    /\ Goto(a, "done")
    /\ UNCHANGED <<holder, outcome>>

CloseLockFile(a) ==
    /\ pc[a] = "closing"
    /\ holder' = Released(a)
    /\ Goto(a, "done")
    /\ UNCHANGED outcome

(***************************************************************************)
(* The process dies anywhere in the call: no finally block runs, and the   *)
(* kernel closes its descriptors.                                          *)
(***************************************************************************)
KilledKeepsLock(a) ==                     \* faulty: a sentinel file, not a kernel lock
    /\ pc[a] \notin EndPCs \cup {"idle"}
    /\ Goto(a, "killed")
    /\ UNCHANGED <<holder, outcome>>

Killed(a) ==
    /\ pc[a] \notin EndPCs \cup {"idle"}
    /\ Goto(a, "killed")
    /\ holder' = Released(a)
    /\ UNCHANGED outcome

(***************************************************************************)
(* Two adopters are never inside the read-compare-verify-replace section   *)
(* together, and whoever is inside owns the kernel lock                    *)
(* (adoption_lock.py:1-13, doctrine_store.py:291-299).                     *)
(***************************************************************************)
MutualExclusion ==
    /\ \A a, b \in Adopters : pc[a] \in CriticalPCs /\ pc[b] \in CriticalPCs => a = b
    /\ \A a \in Adopters : pc[a] \in CriticalPCs => holder = a

(***************************************************************************)
(* The lock is never stranded: whoever holds it is alive and still has the *)
(* descriptor open (adoption_lock.py:24-31, "nothing here can be           *)
(* stranded").                                                             *)
(***************************************************************************)
NeverStranded ==
    holder # Nobody => pc[holder] \in CriticalPCs \cup {"closing"}
=============================================================================
