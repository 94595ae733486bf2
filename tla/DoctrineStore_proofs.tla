------------------------ MODULE DoctrineStore_proofs ------------------------
(***************************************************************************)
(* Proofs about DoctrineStore, for any number of adopters, importers,      *)
(* loaders and digests.                                                    *)
(***************************************************************************)
EXTENDS DoctrineStore, TLAPS, SequenceTheorems

(***************************************************************************)
(* Every variable keeps its type.                                          *)
(***************************************************************************)
THEOREM TypeCorrect == Spec => []TypeOK
<1> USE DigestsAssumption, CallsAssumption
    DEF TypeOK, AllPCs, LockPCs, CriticalPCs, EndPCs, Outcomes, PointerValues, FileStates,
        AdoptCalls, Callers, storeVars, adoptVars, importVars, loadVars, Goto, Ends, ImportTo
<1>1. Init => TypeOK
  BY DEF Init
<1>2. TypeOK /\ [Next]_vars => TypeOK'
  <2> SUFFICES ASSUME TypeOK, [Next]_vars PROVE TypeOK'
    OBVIOUS
  <2>1. ASSUME NEW a \in Adopters, BeginCommand(a) PROVE TypeOK'
    BY <2>1, ZenonT(40) DEF BeginCommand
  <2>2. ASSUME NEW a \in Adopters, CallAdopt(a) PROVE TypeOK'
    BY <2>2 DEF CallAdopt
  <2>3. ASSUME NEW a \in Adopters, ReadCurrent(a) PROVE TypeOK'
    BY <2>3 DEF ReadCurrent
  <2>4. ASSUME NEW a \in Adopters, VerifyCandidate(a) PROVE TypeOK'
    BY <2>4, ZenonT(40) DEF VerifyCandidate
  <2>5. ASSUME NEW a \in Adopters, WriteTemp(a) PROVE TypeOK'
    BY <2>5 DEF WriteTemp
  <2>6. ASSUME NEW a \in Adopters, ReplacePointer(a) PROVE TypeOK'
    BY <2>6 DEF ReplacePointer
  <2>7. ASSUME NEW a \in Adopters, CriticalSectionRaises(a) PROVE TypeOK'
    BY <2>7 DEF CriticalSectionRaises
  <2>8. ASSUME NEW a \in Adopters, LockStep(a) PROVE TypeOK'
    BY <2>8 DEF LockStep, OpenLockFile, TryLock, LockContended, TryLockFails,
        DeadlinePasses, PollAgain, Unlock, CloseLockFile, Released
  <2>9. ASSUME NEW a \in Adopters, AdopterKilled(a) PROVE TypeOK'
    BY <2>9 DEF AdopterKilled, Killed, Released
  <2>10. ASSUME NEW i \in Importers, ImportStep(i) PROVE TypeOK'
    BY <2>10 DEF ImportStep, CheckExisting, StoreCandidate, ImportAborts
  <2>11. ASSUME NEW i \in Importers, NEW d \in Digests \cup {Malformed}, BeginImport(i, d)
         PROVE TypeOK'
    BY <2>11 DEF BeginImport
  <2>12. ASSUME NEW r \in Loaders, ReadPointer(r) \/ LoadCandidate(r) PROVE TypeOK'
    <3>1. CASE ReadPointer(r)
      <4>1. larg' \in [Loaders -> PointerValues]
        BY <3>1 DEF ReadPointer
      <4>2. lpc' \in [Loaders -> {"idle", "loading", "loaded", "refused", "no_active"}]
        BY <3>1 DEF ReadPointer
      <4>3. QED
        BY <3>1, <4>1, <4>2 DEF ReadPointer
    <3>2. CASE LoadCandidate(r)
      BY <3>2 DEF LoadCandidate
    <3>3. QED
      BY <2>12, <3>1, <3>2
  <2>13. ASSUME NEW d \in Digests, Tamper(d) PROVE TypeOK'
    BY <2>13 DEF Tamper
  <2>14. CASE UNCHANGED vars
    BY <2>14 DEF vars
  <2>15. QED
    BY <2>1, <2>2, <2>3, <2>4, <2>5, <2>6, <2>7, <2>8, <2>9, <2>10, <2>11, <2>12, <2>13,
       <2>14 DEF Next, AdoptStep
<1>3. QED
  BY <1>1, <1>2, PTL DEF Spec

-----------------------------------------------------------------------------
(***************************************************************************)
(* The kernel lock.  Being inside the critical section and holding the     *)
(* lock imply each other up to the close of the descriptor, and that is    *)
(* inductive.                                                              *)
(***************************************************************************)
LockInv ==
    /\ \A a \in Adopters : pc[a] \in CriticalPCs => holder = a
    /\ NeverStranded

\* Acquire takes only a free lock, and every way out of the critical section releases it.
LEMMA LockInvStep == TypeOK /\ LockInv /\ [Next]_vars => LockInv'
<1> SUFFICES ASSUME TypeOK, LockInv, [Next]_vars PROVE LockInv'
  OBVIOUS
<1> USE NobodyAssumption DEF TypeOK, LockInv, NeverStranded, AllPCs, LockPCs, CriticalPCs, EndPCs,
        Goto, Ends
<1>1. ASSUME NEW a \in Adopters, BeginCommand(a) \/ CallAdopt(a) PROVE LockInv'
  BY <1>1 DEF BeginCommand, CallAdopt
<1>2. ASSUME NEW a \in Adopters, ReadCurrent(a) \/ VerifyCandidate(a) PROVE LockInv'
  BY <1>2 DEF ReadCurrent, VerifyCandidate
<1>3. ASSUME NEW a \in Adopters,
             WriteTemp(a) \/ ReplacePointer(a) \/ CriticalSectionRaises(a)
      PROVE LockInv'
  BY <1>3 DEF WriteTemp, ReplacePointer, CriticalSectionRaises
<1>4. ASSUME NEW a \in Adopters, LockStep(a) PROVE LockInv'
  <2>1. CASE OpenLockFile(a) \/ LockContended(a) \/ TryLockFails(a)
             \/ DeadlinePasses(a, call[a].caller # "deadline") \/ PollAgain(a)
    BY <2>1 DEF OpenLockFile, LockContended, TryLockFails, DeadlinePasses, PollAgain
  <2>2. CASE TryLock(a)
    BY <2>2 DEF TryLock
  <2>3. CASE Unlock(a)
    BY <2>3 DEF Unlock, Released
  <2>4. CASE CloseLockFile(a)
    BY <2>4 DEF CloseLockFile, Released
  <2>5. QED
    BY <1>4, <2>1, <2>2, <2>3, <2>4 DEF LockStep
<1>5. ASSUME NEW a \in Adopters, AdopterKilled(a) PROVE LockInv'
  BY <1>5 DEF AdopterKilled, Killed, Released
<1>6. ASSUME UNCHANGED <<pc, holder>> PROVE LockInv'
  BY <1>6
<1>7. QED
  BY <1>1, <1>2, <1>3, <1>4, <1>5, <1>6
     DEF Next, AdoptStep, ImportStep, BeginImport, CheckExisting, StoreCandidate, ImportAborts,
         ReadPointer, LoadCandidate, Tamper, vars, adoptVars

\* The lock facts hold in every reachable state.
LEMMA LockInvariant == Spec => []LockInv
<1>1. Init => LockInv
  BY DEF Init, LockInv, NeverStranded, CriticalPCs
<1>2. QED
  BY <1>1, LockInvStep, TypeCorrect, PTL DEF Spec

(***************************************************************************)
(* At most one adopter is between reading the pointer and releasing the    *)
(* lock, and it owns the lock.                                             *)
(***************************************************************************)
THEOREM MutualExclusionHolds == Spec => []MutualExclusion
<1>1. LockInv => MutualExclusion
  BY DEF LockInv, MutualExclusion
<1>2. QED
  BY <1>1, LockInvariant, PTL

(***************************************************************************)
(* No crash, failure or timeout leaves the lock with a process that is no  *)
(* longer able to release it.                                              *)
(***************************************************************************)
THEOREM LockNeverStranded == Spec => []NeverStranded
<1>1. LockInv => NeverStranded
  BY DEF LockInv
<1>2. QED
  BY <1>1, LockInvariant, PTL

-----------------------------------------------------------------------------
(***************************************************************************)
(* The compare-and-swap.  What was compared under the lock stays true      *)
(* until the replacement, because the pointer moves only in the critical   *)
(* section of the one adopter that is inside it.                           *)
(***************************************************************************)
Undecided == {"idle", "called", "opening", "trying", "contended", "reading", "verifying",
              "writing", "replacing"}

CompareInv ==
    \A a \in Adopters :
        /\ pc[a] \in Undecided => outcome[a] = "pending"
        /\ pc[a] \in {"verifying", "writing", "replacing"} => call[a].expect = pointer

\* What was compared under the lock stays compared until the pointer is replaced.
LEMMA CompareInvStep == TypeOK /\ LockInv /\ CompareInv /\ [Next]_vars => CompareInv'
<1> SUFFICES ASSUME TypeOK, LockInv, CompareInv, [Next]_vars PROVE CompareInv'
  OBVIOUS
<1> USE DEF TypeOK, CompareInv, Undecided, AllPCs, LockPCs, CriticalPCs, EndPCs, Outcomes,
        Goto, Ends, storeVars
<1>1. ASSUME NEW a \in Adopters, BeginCommand(a) \/ CallAdopt(a) PROVE CompareInv'
  BY <1>1 DEF BeginCommand, CallAdopt
<1>2. ASSUME NEW a \in Adopters, ReadCurrent(a) \/ VerifyCandidate(a) PROVE CompareInv'
  BY <1>2 DEF ReadCurrent, VerifyCandidate
<1>3. ASSUME NEW a \in Adopters, WriteTemp(a) \/ CriticalSectionRaises(a) PROVE CompareInv'
  BY <1>3 DEF WriteTemp, CriticalSectionRaises
<1>4. ASSUME NEW a \in Adopters, ReplacePointer(a) PROVE CompareInv'
  BY <1>4 DEF ReplacePointer, LockInv
<1>5. ASSUME NEW a \in Adopters, LockStep(a) PROVE CompareInv'
  BY <1>5 DEF LockStep, OpenLockFile, TryLock, LockContended, TryLockFails,
      DeadlinePasses, PollAgain, Unlock, CloseLockFile
<1>6. ASSUME NEW a \in Adopters, AdopterKilled(a) PROVE CompareInv'
  BY <1>6 DEF AdopterKilled, Killed
<1>7. ASSUME UNCHANGED <<pc, outcome, call, pointer>> PROVE CompareInv'
  BY <1>7
<1>8. QED
  BY <1>1, <1>2, <1>3, <1>4, <1>5, <1>6, <1>7
     DEF Next, AdoptStep, ImportStep, BeginImport, CheckExisting, StoreCandidate, ImportAborts,
         ReadPointer, LoadCandidate, Tamper, vars, adoptVars

\* The comparison facts hold in every reachable state.
LEMMA CompareInvariant == Spec => []CompareInv
<1>1. Init => CompareInv
  BY ZenonT(40) DEF Init, CompareInv, Undecided
<1>2. QED
  BY <1>1, CompareInvStep, LockInvariant, TypeCorrect, PTL DEF Spec

(***************************************************************************)
(* Only ReplacePointer changes the pointer.                                *)
(***************************************************************************)
LEMMA OnlyReplaceMoves ==
    ASSUME [Next]_vars,
           \A a \in Adopters : ~ReplacePointer(a)
    PROVE  pointer' = pointer /\ swaps' = swaps
BY DEF Next, AdoptStep, ImportStep, BeginCommand, CallAdopt, ReadCurrent, VerifyCandidate,
       WriteTemp, CriticalSectionRaises, LockStep, AdopterKilled, BeginImport, CheckExisting,
       StoreCandidate, ImportAborts, ReadPointer, LoadCandidate, Tamper, vars, storeVars

\* An adopter never changes its arguments.
LEMMA CallsNeverChange == [Next]_vars => call' = call
BY DEF Next, AdoptStep, ImportStep, BeginCommand, CallAdopt, ReadCurrent, VerifyCandidate,
       WriteTemp, ReplacePointer, CriticalSectionRaises, LockStep, AdopterKilled, BeginImport,
       CheckExisting, StoreCandidate, ImportAborts, ReadPointer, LoadCandidate, Tamper, vars,
       adoptVars

(***************************************************************************)
(* The pointer moves only from what the lock's holder expects to that      *)
(* holder's candidate, and the holder reports the adoption.                *)
(***************************************************************************)
LEMMA PointerMoveStep ==
    TypeOK /\ LockInv /\ CompareInv /\ [Next]_vars =>
        [/\ holder # Nobody
         /\ call[holder].expect = pointer
         /\ call[holder].candidate = pointer'
         /\ outcome'[holder] = "adopted"]_pointer
<1> SUFFICES ASSUME TypeOK, LockInv, CompareInv, [Next]_vars, pointer' # pointer
             PROVE  /\ holder # Nobody
                    /\ call[holder].expect = pointer
                    /\ call[holder].candidate = pointer'
                    /\ outcome'[holder] = "adopted"
  OBVIOUS
<1>1. PICK a \in Adopters : ReplacePointer(a)
  BY OnlyReplaceMoves
<1>2. holder = a /\ a # Nobody
  BY <1>1, NobodyAssumption DEF ReplacePointer, LockInv, CriticalPCs
<1>3. call[a].expect = pointer
  BY <1>1 DEF ReplacePointer, CompareInv
<1>4. QED
  BY <1>1, <1>2, <1>3 DEF ReplacePointer, Ends, TypeOK

\* Every step that moves the pointer is the adoption of the lock's holder, which expected
\* the old pointer.
THEOREM PointerMovesOnlyByAdoptionHolds == Spec => PointerMovesOnlyByAdoption
BY PointerMoveStep, LockInvariant, CompareInvariant, TypeCorrect, PTL
   DEF Spec, PointerMovesOnlyByAdoption

(***************************************************************************)
(* Successful adoptions form one chain: each expected what the one before  *)
(* it installed.                                                           *)
(***************************************************************************)
LEMMA SwapChainStep == TypeOK /\ CompareInv /\ SwapChain /\ [Next]_vars => SwapChain'
<1> SUFFICES ASSUME TypeOK, CompareInv, SwapChain, [Next]_vars PROVE SwapChain'
  OBVIOUS
<1>1. CASE \A a \in Adopters : ~ReplacePointer(a)
  BY <1>1, OnlyReplaceMoves, CallsNeverChange DEF SwapChain
<1>2. ASSUME NEW a \in Adopters, ReplacePointer(a) PROVE SwapChain'
  <2>1. call' = call
    BY CallsNeverChange
  <2>2. /\ swaps' = Append(swaps, a)
        /\ pointer' = call[a].candidate
        /\ call[a].expect = pointer
    BY <1>2 DEF ReplacePointer, CompareInv
  <2>3. /\ Len(swaps') = Len(swaps) + 1
        /\ swaps'[Len(swaps')] = a
        /\ \A n \in 1 .. Len(swaps) : swaps'[n] = swaps[n]
        /\ Len(swaps) \in Nat
    BY <2>2 DEF TypeOK
  <2>4. ASSUME NEW n \in 1 .. Len(swaps') - 1
        PROVE  call[swaps'[n + 1]].expect = call[swaps'[n]].candidate
    <3>1. CASE n = Len(swaps)
      <4>1. swaps # <<>>
        BY <3>1, <2>4, <2>3 DEF TypeOK
      <4>2. QED
        BY <3>1, <4>1, <2>2, <2>3 DEF SwapChain
    <3>2. CASE n # Len(swaps)
      <4>1. n \in 1 .. Len(swaps) - 1 /\ n + 1 \in 1 .. Len(swaps)
        BY <3>2, <2>3
      <4>2. QED
        BY <4>1, <2>3 DEF SwapChain
    <3>3. QED
      BY <3>1, <3>2
  <2>5. QED
    BY <2>1, <2>2, <2>3, <2>4 DEF SwapChain
<1>3. QED
  BY <1>1, <1>2

\* The adoptions that succeeded form one chain from the first pointer to the present one.
THEOREM SwapChainHolds == Spec => []SwapChain
<1>1. Init => SwapChain
  BY DEF Init, SwapChain
<1>2. QED
  BY <1>1, SwapChainStep, CompareInvariant, TypeCorrect, PTL DEF Spec

-----------------------------------------------------------------------------
(***************************************************************************)
(* Refinement: every step of the store is a step of the compare-and-swap   *)
(* register or leaves it as it is.                                         *)
(***************************************************************************)
LEMMA RegisterStep ==
    TypeOK /\ CompareInv /\ [Next]_vars => [Register!Next]_Register!vars
<1> SUFFICES ASSUME TypeOK, CompareInv, [Next]_vars
             PROVE  Register!Next \/ UNCHANGED Register!vars
  OBVIOUS
<1> DEFINE V == [a \in Adopters |-> Verdict(a)]
<1>1. call' = call
  BY CallsNeverChange
<1>2. ASSUME NEW a \in Adopters, ReplacePointer(a) PROVE Register!Swap(a)
  <2>1. V[a] = "pending" /\ call[a].expect = pointer
    BY <1>2 DEF ReplacePointer, CompareInv, Undecided, Verdict
  <2>2. V' = [V EXCEPT ![a] = "adopted"]
    BY <1>2 DEF ReplacePointer, Ends, Verdict, TypeOK
  <2>3. QED
    BY <1>1, <1>2, <2>1, <2>2 DEF ReplacePointer, Register!Swap, Register!Decide
<1>3. CASE UNCHANGED <<pointer, outcome>>
  BY <1>1, <1>3 DEF Register!vars, Verdict
<1>4. ASSUME NEW a \in Adopters, NEW o \in Outcomes \ {"adopted", "conflict", "pending"},
             pc[a] \in Undecided, pointer' = pointer, outcome' = [outcome EXCEPT ![a] = o]
      PROVE  Register!Fail(a)
  <2>1. V[a] = "pending"
    BY <1>4 DEF CompareInv, Verdict
  <2>2. V' = [V EXCEPT ![a] = "failed"]
    BY <1>4 DEF Verdict, TypeOK, Outcomes
  <2>3. QED
    BY <1>1, <1>4, <2>1, <2>2 DEF Register!Fail, Register!Decide
<1>5. ASSUME NEW a \in Adopters, ReadCurrent(a), outcome' # outcome, pointer # Malformed
      PROVE  Register!Conflict(a)
  <2>1. /\ call[a].expect # pointer
        /\ outcome' = [outcome EXCEPT ![a] = "conflict"]
        /\ pointer' = pointer
    BY <1>5 DEF ReadCurrent, Ends, storeVars
  <2>2. V[a] = "pending"
    BY <1>5 DEF ReadCurrent, CompareInv, Undecided, Verdict
  <2>3. V' = [V EXCEPT ![a] = "conflict"]
    BY <2>1 DEF Verdict, TypeOK
  <2>4. QED
    BY <1>1, <2>1, <2>2, <2>3 DEF Register!Conflict, Register!Decide
<1>6. ASSUME NEW a \in Adopters,
             \/ BeginCommand(a) \/ CallAdopt(a) \/ VerifyCandidate(a)
             \/ CriticalSectionRaises(a) \/ LockStep(a)
             \/ ReadCurrent(a) /\ pointer = Malformed
      PROVE  Register!Next \/ UNCHANGED Register!vars
  <2>1. /\ pointer' = pointer
        /\ \/ outcome' = outcome
           \/ /\ pc[a] \in Undecided
              /\ \E o \in {"state_error", "unavailable", "not_ready", "interrupted", "timeout"} :
                     outcome' = [outcome EXCEPT ![a] = o]
    <3> USE DEF storeVars, Undecided, Ends
    <3>1. CASE BeginCommand(a) \/ CallAdopt(a)
      BY <3>1 DEF BeginCommand, CallAdopt
    <3>2. CASE VerifyCandidate(a)
      BY <3>2 DEF VerifyCandidate
    <3>3. CASE CriticalSectionRaises(a)
      BY <3>3 DEF CriticalSectionRaises, CriticalPCs
    <3>4. CASE LockStep(a)
      BY <3>4 DEF LockStep, OpenLockFile, TryLock, LockContended, TryLockFails,
          DeadlinePasses, PollAgain, Unlock, CloseLockFile
    <3>5. CASE ReadCurrent(a) /\ pointer = Malformed
      BY <3>5 DEF ReadCurrent
    <3>6. QED
      BY <1>6, <3>1, <3>2, <3>3, <3>4, <3>5
  <2>2. QED
    BY <2>1, <1>3, <1>4 DEF Outcomes, Register!Next
<1>7. ASSUME \/ \E a \in Adopters : WriteTemp(a) \/ AdopterKilled(a)
             \/ \E i \in Importers :
                    ImportStep(i) \/ \E d \in Digests \cup {Malformed} : BeginImport(i, d)
             \/ \E r \in Loaders : ReadPointer(r) \/ LoadCandidate(r)
             \/ \E d \in Digests : Tamper(d)
             \/ UNCHANGED vars
      PROVE  UNCHANGED <<pointer, outcome>>
  BY <1>7 DEF WriteTemp, AdopterKilled, Killed, ImportStep, BeginImport, CheckExisting,
      StoreCandidate, ImportAborts, ReadPointer, LoadCandidate, Tamper, vars, storeVars,
      adoptVars, Goto
<1>8. QED
  BY <1>2, <1>3, <1>5, <1>6, <1>7 DEF Next, AdoptStep, ReadCurrent, storeVars, Register!Next

\* The store under its lock implements the atomic register, whatever fails or dies.
THEOREM StoreImplementsRegister == Spec => ImplementsRegister
<1>1. Init => Register!Init
  BY DEF Init, Register!Init, Verdict
<1>2. QED
  BY <1>1, RegisterStep, CompareInvariant, TypeCorrect, PTL
     DEF Spec, ImplementsRegister, Register!Spec

-----------------------------------------------------------------------------
(***************************************************************************)
(* Candidate files.  A digest is sound when its candidate verifies or was  *)
(* damaged by hand; soundness of a fixed digest is never lost.             *)
(***************************************************************************)
Sound(d) == d \in Digests \ tampered => file[d] = "good"

ArgumentsInv ==
    /\ \A a \in Adopters :
          pc[a] \in Undecided \ {"idle", "called"} => call[a].candidate \in Digests
    /\ \A i \in Importers : ipc[i] \in {"checking", "storing"} => iarg[i] \in Digests
    /\ \A r \in Loaders : lpc[r] = "loading" => larg[r] \in Digests

\* Importers and loaders work on digests they were given.
LEMMA ArgumentsInvariant == Spec => []ArgumentsInv
<1> USE DEF ArgumentsInv, Undecided
<1>1. Init => ArgumentsInv
  BY DEF Init
<1>2. TypeOK /\ ArgumentsInv /\ [Next]_vars => ArgumentsInv'
  <2> SUFFICES ASSUME TypeOK, ArgumentsInv, [Next]_vars PROVE ArgumentsInv'
    OBVIOUS
  <2> USE CallsAssumption, CallsNeverChange
      DEF TypeOK, AllPCs, LockPCs, CriticalPCs, EndPCs, Goto, Ends, ImportTo, adoptVars,
          importVars, loadVars, AdoptCalls, PointerValues
  <2>1. ASSUME NEW a \in Adopters, BeginCommand(a) \/ CallAdopt(a) PROVE ArgumentsInv'
    <3>1. call[a].candidate \in Digests \cup {Malformed}
      BY DEF TypeOK
    <3>2. CASE BeginCommand(a)
      BY <3>2 DEF BeginCommand
    <3>3. CASE CallAdopt(a)
      <4>1. \/ pc' = [pc EXCEPT ![a] = "done"]
            \/ pc' = [pc EXCEPT ![a] = "opening"] /\ call[a].candidate # Malformed
        BY <3>3 DEF CallAdopt
      <4>2. UNCHANGED <<importVars, loadVars>>
        BY <3>3 DEF CallAdopt
      <4>3. QED
        BY <3>1, <4>1, <4>2
    <3>4. QED
      BY <2>1, <3>2, <3>3
  <2>2. ASSUME NEW a \in Adopters, AdoptStep(a), ~CallAdopt(a) PROVE ArgumentsInv'
    <3>1. \/ pc' = pc
          \/ pc[a] \in Undecided \ {"idle", "called"} /\ \E p \in AllPCs : Goto(a, p)
          \/ \E p \in {"closing", "done"} : Goto(a, p)
      BY <2>2 DEF AdoptStep, ReadCurrent, VerifyCandidate, WriteTemp, ReplacePointer,
          CriticalSectionRaises, LockStep, OpenLockFile, TryLock, LockContended,
          TryLockFails, DeadlinePasses, PollAgain, Unlock, CloseLockFile
    <3>2. UNCHANGED <<importVars, loadVars>>
      BY <2>2 DEF AdoptStep, ReadCurrent, VerifyCandidate, WriteTemp, ReplacePointer,
          CriticalSectionRaises, LockStep
    <3>3. QED
      BY <3>1, <3>2
  <2>3. ASSUME NEW a \in Adopters, AdopterKilled(a) PROVE ArgumentsInv'
    BY <2>3 DEF AdopterKilled, Killed
  <2>4. ASSUME NEW i \in Importers, ImportStep(i) PROVE ArgumentsInv'
    BY <2>4 DEF ImportStep, CheckExisting, StoreCandidate, ImportAborts
  <2>5. ASSUME NEW i \in Importers, NEW d \in Digests \cup {Malformed}, BeginImport(i, d)
        PROVE  ArgumentsInv'
    BY <2>5 DEF BeginImport
  <2>6. ASSUME NEW r \in Loaders, ReadPointer(r) PROVE ArgumentsInv'
    BY <2>6 DEF ReadPointer
  <2>7. ASSUME NEW r \in Loaders, LoadCandidate(r) PROVE ArgumentsInv'
    BY <2>7 DEF LoadCandidate
  <2>8. ASSUME NEW d \in Digests, Tamper(d) PROVE ArgumentsInv'
    BY <2>8 DEF Tamper
  <2>9. CASE UNCHANGED vars
    BY <2>9 DEF vars
  <2>10. QED
    BY <2>1, <2>2, <2>3, <2>4, <2>5, <2>6, <2>7, <2>8, <2>9 DEF Next
<1>3. QED
  BY <1>1, <1>2, TypeCorrect, PTL DEF Spec

\* A sound file stays sound unless it is tampered with: an import only ever writes good
\* content.
LEMMA SoundStays ==
    ASSUME TypeOK, ArgumentsInv, [Next]_vars, NEW d, Sound(d)
    PROVE  Sound(d)'
<1> USE DEF Sound, TypeOK
<1>1. ASSUME NEW i \in Importers, StoreCandidate(i) PROVE Sound(d)'
  BY <1>1 DEF StoreCandidate, ArgumentsInv
<1>2. ASSUME NEW e \in Digests, Tamper(e) PROVE Sound(d)'
  BY <1>2 DEF Tamper
<1>3. ASSUME UNCHANGED <<file, tampered>> PROVE Sound(d)'
  BY <1>3
<1>4. QED
  BY <1>1, <1>2, <1>3
     DEF Next, AdoptStep, ImportStep, BeginCommand, CallAdopt, ReadCurrent, VerifyCandidate,
         WriteTemp, ReplacePointer, CriticalSectionRaises, LockStep, AdopterKilled, BeginImport,
         CheckExisting, ImportAborts, ReadPointer, LoadCandidate, vars, storeVars

(***************************************************************************)
(* What the pointer names, what an adopter verified and what a loader is   *)
(* about to read are all sound.                                            *)
(***************************************************************************)
SoundInv ==
    /\ Sound(pointer)
    /\ \A a \in Adopters : pc[a] \in {"writing", "replacing"} => Sound(call[a].candidate)
    /\ \A r \in Loaders : lpc[r] = "loading" => Sound(larg[r])
    /\ LoadFailsOnlyIfDamaged

\* Files are verified before the pointer names them.
LEMMA SoundInvStep ==
    TypeOK /\ LockInv /\ ArgumentsInv /\ SoundInv /\ [Next]_vars => SoundInv'
<1> SUFFICES ASSUME TypeOK, LockInv, ArgumentsInv, SoundInv, [Next]_vars PROVE SoundInv'
  OBVIOUS
<1>1. Sound(pointer)'
  <2>1. CASE \A a \in Adopters : ~ReplacePointer(a)
    BY <2>1, OnlyReplaceMoves, SoundStays DEF SoundInv, Sound
  <2>2. ASSUME NEW a \in Adopters, ReplacePointer(a) PROVE Sound(pointer)'
    BY <2>2 DEF ReplacePointer, SoundInv, Sound
  <2>3. QED
    BY <2>1, <2>2
<1>2. ASSUME NEW a \in Adopters, pc'[a] \in {"writing", "replacing"}
      PROVE  Sound(call[a].candidate)'
  <2>1. call' = call
    BY CallsNeverChange
  <2>2. CASE pc[a] \in {"writing", "replacing"}
    BY <2>1, <2>2, SoundStays DEF SoundInv, Sound
  <2>3. CASE pc[a] \notin {"writing", "replacing"}
    <3>1. VerifyCandidate(a)
      BY <1>2, <2>3 DEF TypeOK, Next, AdoptStep, ImportStep, BeginCommand, CallAdopt,
          ReadCurrent, VerifyCandidate, WriteTemp, ReplacePointer, CriticalSectionRaises,
          LockStep, OpenLockFile, TryLock, LockContended, TryLockFails, DeadlinePasses,
          PollAgain, Unlock, CloseLockFile, AdopterKilled, Killed, BeginImport, CheckExisting,
          StoreCandidate, ImportAborts, ReadPointer, LoadCandidate, Tamper, vars, adoptVars,
          Goto, Ends
    <3>2. file[call[a].candidate] = "good"
      BY <3>1, <1>2, <2>3 DEF VerifyCandidate, TypeOK, Goto, Ends, ArgumentsInv, Undecided,
           FileStates
    <3>3. QED
      BY <2>1, <3>1, <3>2 DEF VerifyCandidate, Sound, storeVars
  <2>4. QED
    BY <2>2, <2>3
<1>3. ASSUME NEW r \in Loaders
      PROVE  /\ lpc'[r] = "loading" => Sound(larg[r])'
             /\ lpc'[r] = "refused" => larg'[r] \in (tampered \cup {Malformed})'
  <2>1. ASSUME NEW q \in Loaders, ReadPointer(q)
        PROVE  /\ lpc'[r] = "loading" => Sound(larg[r])'
               /\ lpc'[r] = "refused" => larg'[r] \in (tampered \cup {Malformed})'
    <3>1. CASE q = r
      BY <2>1, <3>1 DEF ReadPointer, SoundInv, Sound, TypeOK, storeVars
    <3>2. CASE q # r
      BY <2>1, <3>2 DEF ReadPointer, SoundInv, Sound, TypeOK, storeVars, LoadFailsOnlyIfDamaged
    <3>3. QED
      BY <3>1, <3>2
  <2>2. ASSUME NEW q \in Loaders, LoadCandidate(q)
        PROVE  /\ lpc'[r] = "loading" => Sound(larg[r])'
               /\ lpc'[r] = "refused" => larg'[r] \in (tampered \cup {Malformed})'
    <3>1. CASE q = r
      BY <2>2, <3>1 DEF LoadCandidate, SoundInv, Sound, TypeOK, storeVars, ArgumentsInv
    <3>2. CASE q # r
      BY <2>2, <3>2 DEF LoadCandidate, SoundInv, Sound, TypeOK, storeVars, LoadFailsOnlyIfDamaged
    <3>3. QED
      BY <3>1, <3>2
  <2>3. CASE UNCHANGED loadVars
    <3>1. tampered \subseteq tampered'
      BY DEF Next, AdoptStep, ImportStep, BeginCommand, CallAdopt, ReadCurrent,
          VerifyCandidate, WriteTemp, ReplacePointer, CriticalSectionRaises, LockStep,
          AdopterKilled, BeginImport, CheckExisting, StoreCandidate, ImportAborts,
          ReadPointer, LoadCandidate, Tamper, vars, storeVars
    <3>2. QED
      BY <2>3, <3>1, SoundStays DEF loadVars, SoundInv, Sound, LoadFailsOnlyIfDamaged
  <2>4. QED
    BY <2>1, <2>2, <2>3 DEF Next, AdoptStep, ImportStep, BeginCommand, CallAdopt,
       ReadCurrent, VerifyCandidate, WriteTemp, ReplacePointer, CriticalSectionRaises,
       LockStep, AdopterKilled, BeginImport, CheckExisting, StoreCandidate, ImportAborts,
       Tamper, vars
<1>4. QED
  BY <1>1, <1>2, <1>3 DEF SoundInv, LoadFailsOnlyIfDamaged

\* The soundness facts hold in every reachable state.
LEMMA SoundInvariant == Spec => []SoundInv
<1>1. Init => SoundInv
  BY DEF Init, SoundInv, Sound, LoadFailsOnlyIfDamaged, FileStates
<1>2. QED
  BY <1>1, SoundInvStep, LockInvariant, ArgumentsInvariant, TypeCorrect, PTL DEF Spec

(***************************************************************************)
(* The active doctrine verifies unless somebody damaged its file, and      *)
(* loading without the lock fails on nothing but damage.                   *)
(***************************************************************************)
THEOREM ActiveVerifiesHolds == Spec => []ActiveVerifies
<1>1. SoundInv => ActiveVerifies
  BY DEF SoundInv, Sound, ActiveVerifies
<1>2. QED
  BY <1>1, SoundInvariant, PTL

\* A load that reads pointer and file without the lock fails only on a damaged file.
THEOREM LoadsAreSafe == Spec => []LoadFailsOnlyIfDamaged
<1>1. SoundInv => LoadFailsOnlyIfDamaged
  BY DEF SoundInv
<1>2. QED
  BY <1>1, SoundInvariant, PTL
=============================================================================
