--------------------------- MODULE MCDoctrineStore ---------------------------
(***************************************************************************)
(* Instances of DoctrineStore for TLC.                                     *)
(***************************************************************************)
EXTENDS DoctrineStore

\* Well-formed `doctrine adopt` commands, and calls with a deadline.
WellFormedCalls ==
    {c \in AdoptCalls : Malformed \notin {c.candidate, c.expect} /\ c.caller # "api"}

\* Every call there is, malformed arguments included.
AllCalls == AdoptCalls

\* Well-formed calls that expect nothing or one digest: first adoptions, updates
\* from that digest, adoptions of it again and stale ones.
FirstDigest == CHOOSE d \in Digests : TRUE
ChainCalls == {c \in WellFormedCalls : c.expect \in {None, FirstDigest}}
=============================================================================
