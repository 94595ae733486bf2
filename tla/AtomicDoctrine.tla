--------------------------- MODULE AtomicDoctrine ---------------------------
(***************************************************************************)
(* What doctrine adoption promises: the active doctrine is one             *)
(* compare-and-swap register.  Each adopter's call takes effect in one     *)
(* step: it swaps when the register holds what it expects, it reports a    *)
(* conflict only when the register holds something else at that moment, or *)
(* it fails and changes nothing (doctrine_store.py:13-26, 280-299).        *)
(***************************************************************************)
CONSTANTS Adopters, Calls, PointerValues

VARIABLES active, call, verdict

vars == <<active, call, verdict>>

Init ==
    /\ active \in PointerValues
    /\ call \in [Adopters -> Calls]
    /\ verdict = [a \in Adopters |-> "pending"]

Decide(a, v) ==
    /\ verdict[a] = "pending"
    /\ verdict' = [verdict EXCEPT ![a] = v]
    /\ UNCHANGED call

Swap(a) ==
    /\ active = call[a].expect
    /\ active' = call[a].candidate
    /\ Decide(a, "adopted")

Conflict(a) ==
    /\ active # call[a].expect
    /\ Decide(a, "conflict")
    /\ UNCHANGED active

Fail(a) ==
    /\ Decide(a, "failed")
    /\ UNCHANGED active

Next == \E a \in Adopters : Swap(a) \/ Conflict(a) \/ Fail(a)

Spec == Init /\ [][Next]_vars
=============================================================================
