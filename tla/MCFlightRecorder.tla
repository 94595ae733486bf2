--------------------------- MODULE MCFlightRecorder ---------------------------
(***************************************************************************)
(* Instances of FlightRecorder for TLC.  Sessions are interchangeable.     *)
(***************************************************************************)
EXTENDS FlightRecorder

CONSTANTS s1, s2

OneSession  == {s1}
TwoSessions == {s1, s2}
Symmetry == Permutations(TwoSessions)
=============================================================================
