------------------------ MODULE FlightRecorder_proofs ------------------------
(***************************************************************************)
(* What FlightRecorder's sessions keep true of the runs on disk, for any   *)
(* number of sessions, runs and events and for all caps.                   *)
(*                                                                         *)
(* The first part is about the order retention works in: the position of a *)
(* run among the others numbers them without gaps, so that the n oldest    *)
(* are n runs.  The second part is the invariant of the writers: each      *)
(* writes a run of its own, without a summary until it is complete.        *)
(***************************************************************************)
EXTENDS FlightRecorder, FiniteSetTheorems, FunctionTheorems, SequenceTheorems, TLAPS

(***************************************************************************)
(* The runs older than a given one are fewer than all of them.             *)
(***************************************************************************)
LEMMA OlderAreFewer ==
    ASSUME NEW S \in SUBSET Nat, IsFiniteSet(S), NEW r \in S
    PROVE  /\ IsFiniteSet(Older(S, r))
           /\ Cardinality(Older(S, r)) \in 0 .. Cardinality(S) - 1
<1>1. Older(S, r) \in SUBSET S /\ Older(S, r) # S
  BY DEF Older
<1>2. IsFiniteSet(Older(S, r)) /\ Cardinality(Older(S, r)) <= Cardinality(S)
      /\ Cardinality(Older(S, r)) # Cardinality(S)
  BY <1>1, FS_Subset
<1>3. Cardinality(S) \in Nat /\ Cardinality(Older(S, r)) \in Nat
  BY <1>2, FS_CardinalityType
<1> QED
  BY <1>2, <1>3

(***************************************************************************)
(* An older run has fewer runs before it.                                  *)
(***************************************************************************)
LEMMA OlderIsMonotone ==
    ASSUME NEW S \in SUBSET Nat, IsFiniteSet(S), NEW r \in S, NEW t \in S, r < t
    PROVE  Cardinality(Older(S, r)) < Cardinality(Older(S, t))
<1> r \in Nat /\ t \in Nat
  OBVIOUS
<1>1. \A s \in S : s < r => s < t
  <2> SUFFICES ASSUME NEW s \in S, s < r PROVE s < t
    OBVIOUS
  <2>1. s \in Nat
    OBVIOUS
  <2> QED
    BY <2>1
<1>2. Older(S, r) \subseteq Older(S, t)
  BY <1>1 DEF Older
<1>3. r \in Older(S, t)
  BY DEF Older
<1>4. r \notin Older(S, r)
  BY DEF Older
<1>5. IsFiniteSet(Older(S, t)) /\ IsFiniteSet(Older(S, r))
  BY OlderAreFewer
<1>6. Older(S, r) \in SUBSET Older(S, t)
  BY <1>2
<1>7. Cardinality(Older(S, r)) <= Cardinality(Older(S, t))
      /\ Cardinality(Older(S, r)) # Cardinality(Older(S, t))
  BY <1>3, <1>4, <1>5, <1>6, FS_Subset
<1> QED
  BY <1>5, <1>7, FS_CardinalityType

(***************************************************************************)
(* No two runs have equally many older ones.                               *)
(***************************************************************************)
LEMMA PlacesDiffer ==
    ASSUME NEW S \in SUBSET Nat, IsFiniteSet(S), NEW r \in S, NEW t \in S,
           Cardinality(Older(S, r)) = Cardinality(Older(S, t))
    PROVE  r = t
<1> SUFFICES ASSUME r # t PROVE FALSE
  OBVIOUS
<1>1. Cardinality(Older(S, r)) \in Nat
  BY OlderAreFewer, FS_CardinalityType
<1>2. r \in Nat /\ t \in Nat
  OBVIOUS
<1>3. CASE r < t
  BY <1>1, <1>3, OlderIsMonotone
<1>4. CASE t < r
  BY <1>1, <1>4, OlderIsMonotone
<1> QED
  BY <1>2, <1>3, <1>4

(***************************************************************************)
(* Every place from the oldest to the youngest is taken: the runs and      *)
(* their places are equally many and no two runs share one.                *)
(***************************************************************************)
LEMMA EveryPlaceIsTaken ==
    ASSUME NEW S \in SUBSET Nat, IsFiniteSet(S), NEW i \in 0 .. Cardinality(S) - 1
    PROVE  \E r \in S : Cardinality(Older(S, r)) = i
<1> DEFINE Places == 0 .. Cardinality(S) - 1
           place == [r \in S |-> Cardinality(Older(S, r))]
<1>1. Cardinality(S) \in Nat
  BY FS_CardinalityType
<1>2. place \in [S -> Places]
  BY OlderAreFewer
<1>3. \A r, t \in S : place[r] = place[t] => r = t
  BY PlacesDiffer
<1>4. place \in Injection(S, Places)
  BY <1>2, <1>3, Fun_IsInj
<1>5. IsFiniteSet(Places) /\ Cardinality(Places) = Cardinality(S)
  <2>1. 0 \in Int /\ Cardinality(S) - 1 \in Int
    BY <1>1
  <2>2. /\ IsFiniteSet(0 .. Cardinality(S) - 1)
        /\ Cardinality(0 .. Cardinality(S) - 1)
             = IF 0 > Cardinality(S) - 1 THEN 0 ELSE Cardinality(S) - 1 - 0 + 1
    BY <2>1, FS_Interval
  <2> QED
    BY <1>1, <2>2
<1>6. place \in Surjection(S, Places)
  BY <1>4, <1>5, FS_Injection
<1>7. PICK f : f = place
  OBVIOUS
<1>8. \A k \in Places : \E r \in S : f[r] = k
  <2>1. f \in Surjection(S, Places)
    BY <1>6, <1>7
  <2> HIDE DEF Places, place
  <2> QED
    BY <2>1, Fun_SurjectionProperties
<1> QED
  BY <1>7, <1>8

(***************************************************************************)
(* Ascending lists the runs of a set, all of them and no others.           *)
(***************************************************************************)
LEMMA AscendingLists ==
    ASSUME NEW S \in SUBSET Nat, IsFiniteSet(S)
    PROVE  Ascending(S) \in Seq(S) /\ ToSet(Ascending(S)) = S
<1> DEFINE At(i) == CHOOSE r \in S : Cardinality(Older(S, r)) = i - 1
<1>1. Cardinality(S) \in Nat
  BY FS_CardinalityType
<1>2. \A i \in 1 .. Cardinality(S) : At(i) \in S /\ Cardinality(Older(S, At(i))) = i - 1
  <2> SUFFICES ASSUME NEW i \in 1 .. Cardinality(S)
               PROVE  At(i) \in S /\ Cardinality(Older(S, At(i))) = i - 1
    OBVIOUS
  <2>1. i - 1 \in 0 .. Cardinality(S) - 1
    BY <1>1
  <2>2. \E r \in S : Cardinality(Older(S, r)) = i - 1
    BY <2>1, EveryPlaceIsTaken
  <2> QED
    BY <2>2
<1>3. Ascending(S) = [i \in 1 .. Cardinality(S) |-> At(i)]
  BY DEF Ascending
<1> HIDE DEF At
<1>4. Ascending(S) \in [1 .. Cardinality(S) -> S]
  BY <1>2, <1>3
<1>5. S \subseteq ToSet(Ascending(S))
  <2> SUFFICES ASSUME NEW r \in S PROVE \E i \in DOMAIN Ascending(S) : Ascending(S)[i] = r
    BY DEF ToSet
  <2>1. PICK n : n = Cardinality(Older(S, r))
    OBVIOUS
  <2>2. n + 1 \in 1 .. Cardinality(S) /\ n \in Nat
    BY <1>1, <2>1, OlderAreFewer
  <2>3. At(n + 1) \in S /\ Cardinality(Older(S, At(n + 1))) = n
    BY <1>2, <2>2
  <2>4. PICK a \in S : a = At(n + 1)
    BY <2>3
  <2>5. a < r => n < n
    BY <2>1, <2>3, <2>4, OlderIsMonotone
  <2>6. r < a => n < n
    BY <2>1, <2>3, <2>4, OlderIsMonotone
  <2>7. At(n + 1) = r
    BY <2>2, <2>4, <2>5, <2>6
  <2> QED
    BY <1>3, <2>2, <2>7
<1>6. ToSet(Ascending(S)) \subseteq S
  BY <1>4 DEF ToSet
<1>7. Ascending(S) \in Seq(S)
  BY <1>1, <1>4
<1> QED
  BY <1>5, <1>6, <1>7

(***************************************************************************)
(* The n oldest are n runs, or all there are, and older than the others.   *)
(***************************************************************************)
LEMMA OldestAreOldest ==
    ASSUME NEW S \in SUBSET Nat, IsFiniteSet(S), NEW n \in Nat
    PROVE  /\ Oldest(S, n) \in SUBSET S
           /\ IsFiniteSet(Oldest(S, n))
           /\ n <= Cardinality(S) => Cardinality(Oldest(S, n)) = n
           /\ Cardinality(S) <= n => Oldest(S, n) = S
           /\ \A r \in Oldest(S, n), t \in S \ Oldest(S, n) : r < t
<1>1. Cardinality(S) \in Nat
  BY FS_CardinalityType
<1>2. \A r \in S : Cardinality(Older(S, r)) \in 0 .. Cardinality(S) - 1
  BY OlderAreFewer
<1>3. Oldest(S, n) \in SUBSET S
  BY DEF Oldest
<1>4. IsFiniteSet(Oldest(S, n))
  BY <1>3, FS_Subset
<1>5. ASSUME n <= Cardinality(S) PROVE Cardinality(Oldest(S, n)) = n
  <2> DEFINE Places == 0 .. n - 1
             place == [r \in Oldest(S, n) |-> Cardinality(Older(S, r))]
  <2>1. place \in [Oldest(S, n) -> Places]
    <3> SUFFICES ASSUME NEW r \in Oldest(S, n) PROVE Cardinality(Older(S, r)) \in 0 .. n - 1
      OBVIOUS
    <3>1. r \in S /\ Cardinality(Older(S, r)) < n
      BY DEF Oldest
    <3> QED
      BY <1>1, <1>2, <3>1
  <2>2. \A r, t \in Oldest(S, n) : place[r] = place[t] => r = t
    BY <1>3, PlacesDiffer
  <2>3. \A i \in Places : \E r \in Oldest(S, n) : place[r] = i
    <3> SUFFICES ASSUME NEW i \in Places PROVE \E r \in Oldest(S, n) : Cardinality(Older(S, r)) = i
      OBVIOUS
    <3>1. i \in 0 .. Cardinality(S) - 1 /\ i < n
      BY <1>1, <1>5
    <3>2. PICK r \in S : Cardinality(Older(S, r)) = i
      BY <3>1, EveryPlaceIsTaken
    <3> QED
      BY <3>1, <3>2 DEF Oldest
  <2>4. place \in Injection(Oldest(S, n), Places) /\ place \in Surjection(Oldest(S, n), Places)
    BY <2>1, <2>2, <2>3, Fun_IsInj, Fun_IsSurj
  <2>5. IsFiniteSet(Places) /\ Cardinality(Places) = n
    <3>1. 0 \in Int /\ n - 1 \in Int
      OBVIOUS
    <3>2. /\ IsFiniteSet(0 .. n - 1)
          /\ Cardinality(0 .. n - 1) = IF 0 > n - 1 THEN 0 ELSE n - 1 - 0 + 1
      BY <3>1, FS_Interval
    <3> QED
      BY <3>2
  <2> QED
    BY <2>4, <2>5, FS_Injection
<1>6. ASSUME Cardinality(S) <= n PROVE Oldest(S, n) = S
  <2> SUFFICES ASSUME NEW r \in S PROVE Cardinality(Older(S, r)) < n
    BY DEF Oldest
  <2> QED
    BY <1>1, <1>2, <1>6
<1>7. ASSUME NEW r \in Oldest(S, n), NEW t \in S \ Oldest(S, n) PROVE r < t
  <2>1. r \in S /\ Cardinality(Older(S, r)) < n /\ ~ (Cardinality(Older(S, t)) < n)
    BY DEF Oldest
  <2>2. r \in Nat /\ t \in Nat /\ r # t
    BY <1>7, <2>1
  <2>3. CASE t < r
    <3>1. Cardinality(Older(S, t)) < Cardinality(Older(S, r))
      BY <2>1, <2>3, OlderIsMonotone
    <3>2. Cardinality(Older(S, t)) \in Nat /\ Cardinality(Older(S, r)) \in Nat
      BY <1>2, <2>1
    <3> QED
      BY <2>1, <3>1, <3>2
  <2> QED
    BY <2>2, <2>3
<1> QED
  BY <1>3, <1>4, <1>5, <1>6, <1>7

(***************************************************************************)
(* Lists that follow each other hold what either holds.                    *)
(***************************************************************************)
LEMMA ToSetConcat ==
    ASSUME NEW S, NEW s \in Seq(S), NEW t \in Seq(S)
    PROVE  ToSet(s \o t) = ToSet(s) \cup ToSet(t)
<1>1. \A f : ToSet(f) = Range(f)
  BY DEF Range, ToSet
<1>2. Range(s \o t) = Range(s) \cup Range(t)
  BY RangeConcatenation
<1> QED
  BY <1>1, <1>2

(***************************************************************************)
(* The second pass of retention, over the runs the first one spares.       *)
(***************************************************************************)
Spared(rs) == rs \ Trimmed(rs)
Evicted(rs) == Oldest(Spared(rs), Excess(Spared(rs), HardCap))

(***************************************************************************)
(* What is above a cap is counted by a number, none when it is kept.       *)
(***************************************************************************)
LEMMA ExcessCounts ==
    ASSUME NEW S, IsFiniteSet(S), NEW cap \in Nat
    PROVE  /\ Excess(S, cap) \in Nat
           /\ Cardinality(S) \in Nat
           /\ Cardinality(S) <= cap => Excess(S, cap) = 0
           /\ Cardinality(S) > cap => Excess(S, cap) = Cardinality(S) - cap
<1>1. Cardinality(S) \in Nat
  BY FS_CardinalityType
<1> QED
  BY <1>1 DEF Excess

(***************************************************************************)
(* The list of deletions holds the trimmed successes and then the runs the *)
(* hard cap evicts, all of them runs that were found.                      *)
(***************************************************************************)
LEMMA DoomedLists ==
    ASSUME NEW rs \in SUBSET Nat, IsFiniteSet(rs)
    PROVE  /\ Trimmed(rs) \in SUBSET Successes(rs)
           /\ Successes(rs) \in SUBSET rs
           /\ Evicted(rs) \in SUBSET Spared(rs)
           /\ Doomed(rs) \in Seq(rs)
           /\ ToSet(Doomed(rs)) = Trimmed(rs) \cup Evicted(rs)
<1> SoftCap \in Nat /\ HardCap \in Nat
  BY CapsAssumption
<1>1. PICK succ \in SUBSET rs : succ = Successes(rs)
  BY DEF Successes
<1>2. IsFiniteSet(succ) /\ succ \in SUBSET Nat
  BY <1>1, FS_Subset
<1>3. PICK trim : trim = Oldest(succ, Excess(rs, SoftCap))
  OBVIOUS
<1>4. trim \in SUBSET succ /\ IsFiniteSet(trim) /\ trim \in SUBSET Nat
  <2>1. Excess(rs, SoftCap) \in Nat
    BY ExcessCounts
  <2> QED
    BY <1>2, <1>3, <2>1, OldestAreOldest
<1>5. trim = Trimmed(rs)
  BY <1>1, <1>3 DEF Trimmed
<1>6. PICK left : left = rs \ trim
  OBVIOUS
<1>7. left \in SUBSET rs /\ IsFiniteSet(left) /\ left \in SUBSET Nat
  BY <1>6, FS_Subset
<1>8. PICK out : out = Oldest(left, Excess(left, HardCap))
  OBVIOUS
<1>9. out \in SUBSET left /\ IsFiniteSet(out) /\ out \in SUBSET Nat
  <2>1. Excess(left, HardCap) \in Nat
    BY <1>7, ExcessCounts
  <2> QED
    BY <1>7, <1>8, <2>1, OldestAreOldest
<1>10. left = Spared(rs) /\ out = Evicted(rs)
  BY <1>5, <1>6, <1>8 DEF Spared, Evicted
<1>11. Doomed(rs) = Ascending(trim) \o Ascending(out)
  BY <1>5, <1>6, <1>8 DEF Doomed
<1>12. /\ Ascending(trim) \in Seq(trim) /\ ToSet(Ascending(trim)) = trim
       /\ Ascending(out) \in Seq(out) /\ ToSet(Ascending(out)) = out
  BY <1>4, <1>9, AscendingLists
<1>13. Ascending(trim) \in Seq(rs) /\ Ascending(out) \in Seq(rs)
  <2>1. trim \subseteq rs /\ out \subseteq rs
    BY <1>4, <1>7, <1>9
  <2> QED
    BY <1>12, <2>1, SeqMonotonic
<1>14. Ascending(trim) \o Ascending(out) \in Seq(rs)
  BY <1>13, ConcatProperties
<1>15. ToSet(Ascending(trim) \o Ascending(out)) = trim \cup out
  BY <1>12, <1>13, ToSetConcat
<1>16. Doomed(rs) \in Seq(rs) /\ ToSet(Doomed(rs)) = Trimmed(rs) \cup Evicted(rs)
  BY <1>5, <1>10, <1>11, <1>14, <1>15
<1> QED
  BY <1>1, <1>4, <1>5, <1>9, <1>10, <1>16

(***************************************************************************)
(* Taking some runs away leaves the others, counted.                       *)
(***************************************************************************)
LEMMA WhatIsLeft ==
    ASSUME NEW S, IsFiniteSet(S), NEW T \in SUBSET S
    PROVE  /\ IsFiniteSet(T) /\ IsFiniteSet(S \ T)
           /\ Cardinality(S) \in Nat /\ Cardinality(T) \in Nat
           /\ Cardinality(S \ T) = Cardinality(S) - Cardinality(T)
           /\ Cardinality(T) <= Cardinality(S)
<1>1. IsFiniteSet(T) /\ IsFiniteSet(S \ T) /\ Cardinality(T) <= Cardinality(S)
  BY FS_Subset, FS_Difference
<1>2. S \cap T = T
  OBVIOUS
<1>3. Cardinality(S \ T) = Cardinality(S) - Cardinality(T)
  BY <1>2, FS_Difference
<1> QED
  BY <1>1, <1>3, FS_CardinalityType

(***************************************************************************)
(* What one pass of retention takes from the runs it finds.  If the first  *)
(* cap already spares a success then exactly the soft cap is left and the  *)
(* hard cap takes nothing more.                                            *)
(***************************************************************************)
LEMMA RetentionPolicy ==
    ASSUME NEW rs \in SUBSET Nat, IsFiniteSet(rs),
           NEW gone, gone = Trimmed(rs) \cup Evicted(rs)
    PROVE  /\ Cardinality(rs \ gone) <= HardCap
           /\ gone # {} => Cardinality(rs \ gone) >= SoftCap
           /\ gone \ Successes(rs) # {} => Successes(rs \ gone) = {}
           /\ \A g \in Successes(gone), k \in Successes(rs \ gone) : g < k
<1> SoftCap \in Nat /\ HardCap \in Nat /\ SoftCap <= HardCap
  BY CapsAssumption
<1>1. PICK succ \in SUBSET rs : succ = Successes(rs)
  BY DEF Successes
<1>2. IsFiniteSet(succ) /\ succ \in SUBSET Nat /\ Cardinality(succ) \in Nat
  BY <1>1, FS_Subset, FS_CardinalityType
<1>3. PICK over : over = Excess(rs, SoftCap)
  OBVIOUS
<1>4. /\ over \in Nat
      /\ Cardinality(rs) \in Nat
      /\ Cardinality(rs) <= SoftCap => over = 0
      /\ Cardinality(rs) > SoftCap => over = Cardinality(rs) - SoftCap
  BY <1>3, ExcessCounts
<1>5. PICK trim : trim = Oldest(succ, over)
  OBVIOUS
<1>6. /\ trim \in SUBSET succ
      /\ over <= Cardinality(succ) => Cardinality(trim) = over
      /\ Cardinality(succ) <= over => trim = succ
      /\ \A r \in trim, t \in succ \ trim : r < t
  BY <1>2, <1>4, <1>5, OldestAreOldest
<1>7. PICK left : left = rs \ trim
  OBVIOUS
<1>8. /\ left \in SUBSET rs /\ left \in SUBSET Nat /\ IsFiniteSet(left)
      /\ Cardinality(trim) \in Nat
      /\ Cardinality(left) = Cardinality(rs) - Cardinality(trim)
      /\ Cardinality(trim) <= Cardinality(rs)
  <2>1. trim \in SUBSET rs
    BY <1>6
  <2> QED
    BY <1>7, <2>1, WhatIsLeft
<1>9. PICK above : above = Excess(left, HardCap)
  OBVIOUS
<1>10. /\ above \in Nat
       /\ Cardinality(left) \in Nat
       /\ Cardinality(left) <= HardCap => above = 0
       /\ Cardinality(left) > HardCap => above = Cardinality(left) - HardCap
  BY <1>8, <1>9, ExcessCounts
<1>11. PICK out : out = Oldest(left, above)
  OBVIOUS
<1>12. /\ out \in SUBSET left
       /\ above <= Cardinality(left) => Cardinality(out) = above
  BY <1>8, <1>10, <1>11, OldestAreOldest
<1>13. /\ Cardinality(out) = above
       /\ IsFiniteSet(out)
       /\ Cardinality(left \ out) = Cardinality(left) - above
  <2>1. above <= Cardinality(left)
    BY <1>10
  <2> QED
    BY <1>8, <1>12, <2>1, WhatIsLeft
<1>14. gone = trim \cup out /\ rs \ gone = left \ out
  <2>1. Trimmed(rs) = trim
    BY <1>1, <1>3, <1>5 DEF Trimmed
  <2>2. Evicted(rs) = out
    BY <1>7, <1>9, <1>11, <2>1 DEF Evicted, Spared
  <2> QED
    BY <1>7, <2>1, <2>2
<1>15. Successes(gone) = gone \cap succ /\ Successes(rs \ gone) = (rs \ gone) \cap succ
  BY <1>1, <1>6, <1>8, <1>12, <1>14 DEF Successes
<1>16. Cardinality(rs \ gone) <= HardCap
  BY <1>10, <1>13, <1>14
<1>17. above = 0 => out = {}
  BY <1>13, FS_EmptySet
<1>18. over = 0 => trim = {}
  <2>1. IsFiniteSet(trim)
    BY <1>2, <1>6, FS_Subset
  <2>2. over = 0 => Cardinality(trim) = 0
    BY <1>2, <1>6
  <2> QED
    BY <2>1, <2>2, FS_EmptySet
<1>19. CASE Cardinality(rs) <= SoftCap
  <2>1. trim = {}
    BY <1>4, <1>18, <1>19
  <2>2. left = rs
    BY <1>7, <2>1
  <2>3. above = 0
    BY <1>4, <1>10, <1>19, <2>2
  <2>4. gone = {}
    BY <1>14, <1>17, <2>1, <2>3
  <2> QED
    BY <1>15, <1>16, <2>4
<1>20. CASE Cardinality(rs) > SoftCap /\ trim = succ
  <2>1. Cardinality(trim) <= over
    <3>1. over < Cardinality(succ) => Cardinality(trim) = over
      BY <1>2, <1>4, <1>6
    <3> QED
      BY <1>2, <1>4, <1>20, <3>1
  <2>2. Cardinality(left) >= SoftCap
    BY <1>4, <1>8, <1>20, <2>1
  <2>3. Cardinality(rs \ gone) >= SoftCap
    BY <1>10, <1>13, <1>14, <2>2
  <2>4. Successes(rs \ gone) = {}
    BY <1>7, <1>14, <1>15, <1>20
  <2> QED
    BY <1>16, <2>3, <2>4
<1>21. CASE Cardinality(rs) > SoftCap /\ trim # succ
  <2>1. Cardinality(trim) = over
    BY <1>2, <1>4, <1>6, <1>21
  <2>2. Cardinality(left) = SoftCap
    BY <1>4, <1>8, <1>21, <2>1
  <2>3. out = {}
    BY <1>10, <1>17, <2>2
  <2>4. gone = trim /\ rs \ gone = left
    BY <1>14, <2>3
  <2>5. gone \ Successes(rs) = {}
    BY <1>1, <1>6, <2>4
  <2>6. \A g \in Successes(gone), k \in Successes(rs \ gone) : g < k
    BY <1>6, <1>7, <1>15, <2>4
  <2> QED
    BY <1>16, <2>2, <2>4, <2>5, <2>6
<1>22. \/ Cardinality(rs) <= SoftCap
       \/ Cardinality(rs) > SoftCap /\ trim = succ
       \/ Cardinality(rs) > SoftCap /\ trim # succ
  BY <1>4
<1> QED
  BY <1>19, <1>20, <1>21, <1>22, Zenon

-----------------------------------------------------------------------------
(***************************************************************************)
(* The strengthening of TypeOK: what each list of deletions holds was      *)
(* chosen by a retention pass, and a session that writes has a run.        *)
(***************************************************************************)
ListTypes ==
    /\ doomed \in [Recorders -> Seq(Runs)]
    /\ \A p \in Recorders : ToSet(doomed[p]) \subseteq condemned
    /\ condemned \subseteq 1 .. started
    /\ \A p \in Recorders : pc[p] = "unlinking" => doomed[p] # <<>>
    /\ listing \in [Recorders -> SUBSET Files]

SessionTypes ==
    /\ pc \in [Recorders -> Writing \cup {"idle", "retaining", "deleting", "unlinking", "dead"}]
    /\ cur \in [Recorders -> Runs \cup {NoRun}]
    /\ \A p \in Recorders : pc[p] \in Writing => cur[p] \in 1 .. started
    /\ \A p \in Recorders : pc[p] \in {"idle", "deleting", "unlinking", "dead"} => cur[p] = NoRun
    /\ emitted \in [Recorders -> 0 .. MaxEvents]
    /\ broken \in [Recorders -> BOOLEAN]
    /\ outcome \in [Recorders -> Outcomes]

DiskTypes ==
    /\ started \in 0 .. MaxRuns
    /\ present \subseteq 1 .. started
    /\ files \in [Runs -> SUBSET Files]
    /\ events \in [Runs -> Seq(0 .. MaxEvents)]
    /\ summary \in [Runs -> Outcomes \cup {"none"}]

TypeInv == ListTypes /\ SessionTypes /\ DiskTypes

(***************************************************************************)
(* Two sessions never write the same run, and a run that is still written  *)
(* has no summary.                                                         *)
(***************************************************************************)
WriterInv ==
    /\ \A p, q \in Recorders :
          pc[p] \in Writing /\ pc[q] \in Writing /\ p # q => cur[p] # cur[q]
    /\ \A p \in Recorders : pc[p] \in Writing => "summary.json" \notin files[cur[p]]
    /\ \A r \in Runs : r > started => events[r] = <<>> /\ files[r] = {}

(***************************************************************************)
(* What is on disk of the run of a session that still writes, unless a     *)
(* retention pass has chosen the run.                                      *)
(***************************************************************************)
Ended(trace) == trace # <<>> /\ Last(trace) = Finished

TraceInv ==
    /\ TraceIsComplete
    /\ \A p \in Recorders :
          pc[p] \in {"receipt", "summary"} /\ cur[p] \notin condemned => Ended(events[cur[p]])
    /\ \A p \in Recorders :
          pc[p] = "summary" /\ cur[p] \notin condemned => "receipt.json" \in files[cur[p]]
    /\ TerminalIsComplete

(***************************************************************************)
(* A list of deletions loses its head, and nothing else changes about it.  *)
(***************************************************************************)
LEMMA TailHolds ==
    ASSUME NEW S, NEW s \in Seq(S), s # <<>>
    PROVE  Tail(s) \in Seq(S) /\ ToSet(Tail(s)) \subseteq ToSet(s) /\ Head(s) \in ToSet(s)
<1>1. /\ Tail(s) \in Seq(S) /\ Len(Tail(s)) = Len(s) - 1
      /\ \A i \in 1 .. Len(Tail(s)) : Tail(s)[i] = s[i + 1]
  BY HeadTailProperties
<1>2. Len(s) \in Nat /\ DOMAIN s = 1 .. Len(s) /\ DOMAIN Tail(s) = 1 .. Len(Tail(s))
  BY <1>1, LenProperties
<1>3. Len(s) # 0
  BY EmptySeq
<1>4. Head(s) = s[1]
  OBVIOUS
<1>5. \A i \in DOMAIN Tail(s) : i + 1 \in DOMAIN s /\ Tail(s)[i] = s[i + 1]
  BY <1>1, <1>2, <1>3
<1> QED
  BY <1>1, <1>2, <1>3, <1>4, <1>5 DEF ToSet

(***************************************************************************)
(* Runs that have a directory are runs, finitely many.                     *)
(***************************************************************************)
LEMMA PresentIsFinite ==
    ASSUME DiskTypes
    PROVE  present \in SUBSET Nat /\ IsFiniteSet(present) /\ present \subseteq Runs
           /\ Cardinality(present) <= started
<1>1. PICK n : n = started
  OBVIOUS
<1>2. n \in Nat /\ n <= MaxRuns /\ present \in SUBSET (1 .. n)
  BY <1>1, BoundsAssumption DEF DiskTypes
<1>3. PICK P : P = present
  OBVIOUS
<1>4. /\ IsFiniteSet(1 .. n)
      /\ Cardinality(1 .. n) = IF 1 > n THEN 0 ELSE n - 1 + 1
  BY <1>2, FS_Interval
<1>5. IsFiniteSet(P) /\ Cardinality(P) <= Cardinality(1 .. n)
  BY <1>2, <1>3, <1>4, FS_Subset
<1>6. Cardinality(1 .. n) = n
  BY <1>2, <1>4
<1> QED
  BY <1>1, <1>2, <1>3, <1>5, <1>6, BoundsAssumption DEF Runs

(***************************************************************************)
(* What a retention pass decides about the runs it finds.                  *)
(***************************************************************************)
LEMMA RetentionDecides ==
    ASSUME DiskTypes
    PROVE  /\ Doomed(present) \in Seq(Runs)
           /\ ToSet(Doomed(present)) \subseteq present
           /\ ToSet(Doomed(present)) = Trimmed(present) \cup Evicted(present)
           /\ Trimmed(present) \subseteq Successes(present)
           /\ Evicted(present) \subseteq present
<1>1. PICK rs \in SUBSET Nat : rs = present
  BY PresentIsFinite
<1>2. IsFiniteSet(rs) /\ rs \subseteq Runs
  BY <1>1, PresentIsFinite
<1>3. /\ Trimmed(rs) \in SUBSET Successes(rs)
      /\ Successes(rs) \in SUBSET rs
      /\ Evicted(rs) \in SUBSET Spared(rs)
      /\ Doomed(rs) \in Seq(rs)
      /\ ToSet(Doomed(rs)) = Trimmed(rs) \cup Evicted(rs)
  BY <1>2, DoomedLists
<1>4. PICK d \in Seq(rs) : d = Doomed(rs)
  BY <1>3
<1>5. Doomed(rs) \in Seq(Runs)
  BY <1>2, <1>4, SeqMonotonic
<1>6. Evicted(rs) \subseteq rs
  BY <1>3 DEF Spared
<1> QED
  BY <1>1, <1>3, <1>5, <1>6

(***************************************************************************)
(* Starting, no session has done anything.                                 *)
(***************************************************************************)
LEMMA TypeInit == Init => TypeInv
<1> SUFFICES ASSUME Init PROVE TypeInv
  OBVIOUS
<1> USE DEF Init
<1>1. ListTypes
  BY DEF ListTypes, ToSet
<1>2. SessionTypes
  BY BoundsAssumption DEF SessionTypes, Writing, Outcomes
<1>3. DiskTypes
  BY BoundsAssumption DEF DiskTypes
<1> QED
  BY <1>1, <1>2, <1>3 DEF TypeInv

(***************************************************************************)
(* The lists, while none is touched and nobody begins to unlink.           *)
(***************************************************************************)
LEMMA ListsStay ==
    ASSUME ListTypes, UNCHANGED <<doomed, condemned, listing>>, condemned \subseteq 1 .. started',
           \A q \in Recorders : pc'[q] = "unlinking" => pc[q] = "unlinking"
    PROVE  ListTypes'
BY DEF ListTypes

(***************************************************************************)
(* The lists, when session p replaces its own by s.                        *)
(***************************************************************************)
LEMMA ListReplaced ==
    ASSUME ListTypes, NEW p \in Recorders, NEW s \in Seq(Runs), NEW fs \in SUBSET Files,
           doomed' = [doomed EXCEPT ![p] = s], listing' = [listing EXCEPT ![p] = fs],
           ToSet(s) \subseteq condemned', condemned \subseteq condemned', condemned' \subseteq 1 .. started',
           pc'[p] = "unlinking" => s # <<>>,
           \A q \in Recorders \ {p} : pc'[q] = pc[q]
    PROVE  ListTypes'
<1>1. doomed' \in [Recorders -> Seq(Runs)] /\ listing' \in [Recorders -> SUBSET Files]
  BY DEF ListTypes
<1>2. ASSUME NEW q \in Recorders
      PROVE  ToSet(doomed'[q]) \subseteq condemned' /\ (pc'[q] = "unlinking" => doomed'[q] # <<>>)
  <2>1. CASE q = p
    <3>1. doomed'[q] = s
      BY <2>1 DEF ListTypes
    <3> QED
      BY <2>1, <3>1
  <2>2. CASE q # p
    <3>1. doomed'[q] = doomed[q] /\ pc'[q] = pc[q]
      BY <2>2 DEF ListTypes
    <3>2. ToSet(doomed[q]) \subseteq condemned /\ (pc[q] = "unlinking" => doomed[q] # <<>>)
      BY DEF ListTypes
    <3> QED
      BY <3>1, <3>2
  <2> QED
    BY <2>1, <2>2
<1> QED
  BY <1>1, <1>2 DEF ListTypes

(***************************************************************************)
(* A session that goes to a label is there, and nobody else has moved.     *)
(***************************************************************************)
LEMMA Moves ==
    ASSUME SessionTypes, NEW p \in Recorders, NEW label, Goto(p, label)
    PROVE  pc'[p] = label /\ \A q \in Recorders \ {p} : pc'[q] = pc[q]
BY DEF SessionTypes, Goto

(***************************************************************************)
(* What is taken apart is a run some retention pass chose.                 *)
(***************************************************************************)
LEMMA UnlinkedIsCondemned ==
    ASSUME ListTypes, NEW p \in Recorders, pc[p] = "unlinking"
    PROVE  Head(doomed[p]) \in Runs /\ Head(doomed[p]) \in condemned
<1>1. PICK s \in Seq(Runs) : s = doomed[p]
  BY DEF ListTypes
<1>2. s # <<>> /\ ToSet(s) \subseteq condemned
  BY <1>1 DEF ListTypes
<1>3. Head(s) \in ToSet(s) /\ Head(s) \in Runs
  BY <1>2, TailHolds, HeadTailProperties
<1> QED
  BY <1>1, <1>2, <1>3

(***************************************************************************)
(* Every step keeps the types, and what the lists say of the disk.         *)
(***************************************************************************)
LEMMA TypeStep == TypeInv /\ [Next]_vars => TypeInv'
<1> SUFFICES ASSUME TypeInv, [Next]_vars PROVE TypeInv'
  OBVIOUS
<1> USE BoundsAssumption
<1>1. ListTypes /\ SessionTypes /\ DiskTypes
  BY DEF TypeInv
<1>2. CASE UNCHANGED vars
  BY <1>1, <1>2 DEF vars, recVars, diskVars, TypeInv, ListTypes, SessionTypes, DiskTypes
<1>3. ASSUME NEW p \in Recorders, StartRun(p) PROVE TypeInv'
  <2> USE <1>1, <1>3 DEF StartRun, Goto, Breaks
  <2>1. started' \in 0 .. MaxRuns /\ started' \in Runs /\ started' = started + 1
    BY DEF DiskTypes, Runs
  <2>2. 1 .. started \subseteq 1 .. started' /\ started' \in 1 .. started'
    BY <2>1 DEF DiskTypes
  <2>3. ListTypes'
    <3>1. \A q \in Recorders : pc'[q] = "unlinking" => pc[q] = "unlinking"
      BY DEF SessionTypes
    <3>2. condemned \subseteq 1 .. started'
      BY <2>2 DEF ListTypes
    <3> QED
      BY <3>1, <3>2, ListsStay
  <2>4. SessionTypes'
    <3>1. CASE UNCHANGED <<cur, emitted, pc>> /\ broken' = [broken EXCEPT ![p] = TRUE]
      BY <2>2, <3>1 DEF SessionTypes
    <3>2. CASE /\ cur' = [cur EXCEPT ![p] = started']
               /\ emitted' = [emitted EXCEPT ![p] = 0]
               /\ pc' = [pc EXCEPT ![p] = "recording"]
               /\ UNCHANGED broken
      <4>1. /\ cur' \in [Recorders -> Runs \cup {NoRun}]
            /\ emitted' \in [Recorders -> 0 .. MaxEvents]
            /\ pc' \in [Recorders -> Writing \cup {"idle", "retaining", "deleting", "unlinking", "dead"}]
        BY <2>1, <3>2 DEF SessionTypes, Writing
      <4>2. \A q \in Recorders : pc'[q] \in Writing => cur'[q] \in 1 .. started'
        BY <2>2, <3>2 DEF SessionTypes
      <4>3. \A q \in Recorders :
               pc'[q] \in {"idle", "deleting", "unlinking", "dead"} => cur'[q] = NoRun
        BY <3>2 DEF SessionTypes
      <4> QED
        BY <3>2, <4>1, <4>2, <4>3 DEF SessionTypes
    <3> QED
      BY <3>1, <3>2
  <2>5. DiskTypes'
    BY <2>1, <2>2 DEF DiskTypes
  <2> QED
    BY <2>3, <2>4, <2>5 DEF TypeInv
<1>4. ASSUME NEW p \in Recorders, Emit(p) PROVE TypeInv'
  <2> USE <1>1, <1>4 DEF Emit, Breaks, Appends
  <2>1. emitted'[p] \in 0 .. MaxEvents /\ emitted' \in [Recorders -> 0 .. MaxEvents]
    BY DEF SessionTypes
  <2>2. cur[p] \in Runs
    BY DEF SessionTypes, DiskTypes, Writing, Runs
  <2>3. Append(events[cur[p]], emitted'[p]) \in Seq(0 .. MaxEvents)
    BY <2>1, <2>2 DEF DiskTypes
  <2>4. ListTypes'
    BY DEF ListTypes
  <2>5. SessionTypes'
    BY <2>1 DEF SessionTypes
  <2>6. DiskTypes'
    <3>1. PICK r, e : r = cur[p] /\ e = emitted'[p]
      OBVIOUS
    <3>2. files[r] \cup {"events.jsonl"} \in SUBSET Files
      BY <2>2, <3>1 DEF DiskTypes, Files
    <3>3. files' \in [Runs -> SUBSET Files] /\ events' \in [Runs -> Seq(0 .. MaxEvents)]
      BY <2>2, <2>3, <3>1, <3>2 DEF DiskTypes
    <3> QED
      BY <3>3 DEF DiskTypes
  <2> QED
    BY <2>4, <2>5, <2>6 DEF TypeInv
<1>5. ASSUME NEW p \in Recorders, NEW o \in Outcomes, WriteFinished(p, o) PROVE TypeInv'
  <2> USE <1>1, <1>5 DEF WriteFinished, WriteFails, Breaks, Appends, Goto
  <2>1. cur[p] \in Runs
    BY DEF SessionTypes, DiskTypes, Writing, Runs
  <2>2. Append(events[cur[p]], Finished) \in Seq(0 .. MaxEvents)
    BY <2>1 DEF DiskTypes, Finished
  <2>3. ListTypes'
    <3>1. \A q \in Recorders : pc'[q] = "unlinking" => pc[q] = "unlinking"
      BY DEF SessionTypes
    <3> QED
      BY <3>1, ListsStay DEF ListTypes
  <2>4. SessionTypes'
    BY DEF SessionTypes, Writing
  <2>5. DiskTypes'
    <3>1. files[cur[p]] \cup {"events.jsonl"} \in SUBSET Files
      BY <2>1 DEF DiskTypes, Files
    <3>2. files' \in [Runs -> SUBSET Files] /\ events' \in [Runs -> Seq(0 .. MaxEvents)]
      BY <2>1, <2>2, <3>1, ZenonT(40) DEF DiskTypes
    <3> QED
      BY <3>2 DEF DiskTypes
  <2> QED
    BY <2>3, <2>4, <2>5 DEF TypeInv
<1>6. ASSUME NEW p \in Recorders, WriteReceipt(p) PROVE TypeInv'
  <2> USE <1>1, <1>6 DEF WriteReceipt, WriteFails, JsonFails, Breaks, Writes, Goto
  <2>1. cur[p] \in Runs /\ cur[p] \in 1 .. started
    BY DEF SessionTypes, DiskTypes, Writing, Runs
  <2>2. ListTypes'
    <3>1. \A q \in Recorders : pc'[q] = "unlinking" => pc[q] = "unlinking"
      BY DEF SessionTypes
    <3> QED
      BY <3>1, ListsStay DEF ListTypes
  <2>3. SessionTypes'
    BY DEF SessionTypes, Writing
  <2>4. DiskTypes'
    <3>1. files[cur[p]] \cup {"receipt.json"} \in SUBSET Files
      BY <2>1 DEF DiskTypes, Files
    <3>2. files' \in [Runs -> SUBSET Files]
      BY <2>1, <3>1 DEF DiskTypes
    <3> QED
      BY <2>1, <3>2 DEF DiskTypes
  <2> QED
    BY <2>2, <2>3, <2>4 DEF TypeInv
<1>7. ASSUME NEW p \in Recorders, WriteSummary(p) PROVE TypeInv'
  <2> USE <1>1, <1>7 DEF WriteSummary, WriteFails, JsonFails, Breaks, Writes, Goto
  <2>1. cur[p] \in Runs /\ cur[p] \in 1 .. started
    BY DEF SessionTypes, DiskTypes, Writing, Runs
  <2>2. ListTypes'
    <3>1. \A q \in Recorders : pc'[q] = "unlinking" => pc[q] = "unlinking"
      BY DEF SessionTypes
    <3> QED
      BY <3>1, ListsStay DEF ListTypes
  <2>3. SessionTypes'
    BY DEF SessionTypes, Writing
  <2>4. DiskTypes'
    <3>1. files[cur[p]] \cup {"summary.json"} \in SUBSET Files
      BY <2>1 DEF DiskTypes, Files
    <3>2. files' \in [Runs -> SUBSET Files]
      BY <2>1, <3>1 DEF DiskTypes
    <3> QED
      BY <2>1, <3>2 DEF DiskTypes, SessionTypes
  <2> QED
    BY <2>2, <2>3, <2>4 DEF TypeInv
<1>8. ASSUME NEW p \in Recorders, Retain(p) PROVE TypeInv'
  <2> USE <1>1, <1>8 DEF Retain, Goto
  <2>1. PICK d : d = Doomed(present)
    OBVIOUS
  <2>2. d \in Seq(Runs) /\ ToSet(d) \subseteq present
    BY <2>1, RetentionDecides
  <2>3. doomed' = [doomed EXCEPT ![p] = d] /\ doomed'[p] = d /\ condemned' = condemned \cup ToSet(d)
    BY <2>1 DEF ListTypes
  <2>4. ListTypes'
    <3>1. listing[p] \in SUBSET Files /\ listing' = [listing EXCEPT ![p] = listing[p]]
      BY DEF ListTypes
    <3>2. condemned' \subseteq 1 .. started' /\ condemned \subseteq condemned'
      BY <2>2, <2>3 DEF ListTypes, DiskTypes
    <3>3. pc'[p] = "deleting" /\ \A q \in Recorders \ {p} : pc'[q] = pc[q]
      BY DEF SessionTypes
    <3> QED
      BY <2>2, <2>3, <3>1, <3>2, <3>3, ListReplaced
  <2>5. SessionTypes'
    BY DEF SessionTypes, Writing, NoRun, Outcomes
  <2>6. DiskTypes'
    BY DEF DiskTypes, diskVars
  <2> QED
    BY <2>4, <2>5, <2>6 DEF TypeInv
<1>9. ASSUME NEW p \in Recorders, OpenDir(p) PROVE TypeInv'
  <2> USE <1>1, <1>9 DEF OpenDir, Goto
  <2>1. PICK s : s = doomed[p]
    OBVIOUS
  <2>2. s \in Seq(Runs) /\ s # <<>>
    BY <2>1 DEF ListTypes
  <2>3. Tail(s) \in Seq(Runs) /\ ToSet(Tail(s)) \subseteq ToSet(s) /\ Head(s) \in Runs
    BY <2>2, TailHolds
  <2>4. files[Head(s)] \subseteq Files
    BY <2>3 DEF DiskTypes
  <2>5. ListTypes'
    <3>1. condemned' = condemned /\ ToSet(s) \subseteq condemned' /\ condemned' \subseteq 1 .. started'
      BY <2>1 DEF ListTypes
    <3>2. listing[p] \in SUBSET Files /\ listing = [listing EXCEPT ![p] = listing[p]]
          /\ doomed = [doomed EXCEPT ![p] = s]
      BY <2>1 DEF ListTypes
    <3>3. CASE Head(s) \in present
      <4>1. pc'[p] = "unlinking" /\ \A q \in Recorders \ {p} : pc'[q] = pc[q]
        BY <2>1, <3>3 DEF SessionTypes
      <4>2. PICK fs \in SUBSET Files : fs = files[Head(s)]
        BY <2>4
      <4>3. doomed' = [doomed EXCEPT ![p] = s] /\ listing' = [listing EXCEPT ![p] = fs]
        BY <2>1, <3>2, <3>3, <4>2
      <4> QED
        BY <2>2, <3>1, <4>1, <4>3, ListReplaced
    <3>4. CASE Head(s) \notin present
      <4>1. UNCHANGED <<pc, listing>> /\ doomed' = [doomed EXCEPT ![p] = Tail(s)]
        BY <2>1, <3>4
      <4>2. PICK fs \in SUBSET Files : fs = listing[p]
        BY <3>2
      <4>3. listing' = [listing EXCEPT ![p] = fs] /\ pc'[p] = "deleting"
        BY <3>2, <4>1, <4>2
      <4> QED
        BY <2>3, <3>1, <4>1, <4>3, ListReplaced
    <3> QED
      BY <3>3, <3>4
  <2>6. SessionTypes'
    BY DEF SessionTypes, Writing
  <2>7. DiskTypes'
    BY DEF DiskTypes, diskVars
  <2> QED
    BY <2>5, <2>6, <2>7 DEF TypeInv
<1>10. ASSUME NEW p \in Recorders, NEW f \in Files, UnlinkChild(p, f) PROVE TypeInv'
  <2> USE <1>1, <1>10 DEF UnlinkChild
  <2>1. ListTypes'
    BY DEF ListTypes
  <2>2. SessionTypes'
    BY DEF SessionTypes
  <2>3. DiskTypes'
    <3>1. PICK r \in Runs : r = Head(doomed[p])
      BY UnlinkedIsCondemned
    <3>2. /\ files' = [files EXCEPT ![r] = @ \ {f}]
          /\ events' = [events EXCEPT ![r] = IF f = "events.jsonl" THEN <<>> ELSE @]
          /\ summary' = [summary EXCEPT ![r] = IF f = "summary.json" THEN "none" ELSE @]
      BY <3>1
    <3>3. PICK es \in Seq(0 .. MaxEvents) : es = IF f = "events.jsonl" THEN <<>> ELSE events[r]
      BY EmptySeq DEF DiskTypes
    <3>4. PICK o \in Outcomes \cup {"none"} : o = IF f = "summary.json" THEN "none" ELSE summary[r]
      BY DEF DiskTypes
    <3>5. PICK fs \in SUBSET Files : fs = files[r] \ {f}
      BY DEF DiskTypes
    <3>6. /\ files' = [files EXCEPT ![r] = fs]
          /\ events' = [events EXCEPT ![r] = es]
          /\ summary' = [summary EXCEPT ![r] = o]
      BY <3>2, <3>3, <3>4, <3>5
    <3>7. files' \in [Runs -> SUBSET Files]
      BY <3>6 DEF DiskTypes
    <3>8. events' \in [Runs -> Seq(0 .. MaxEvents)]
      BY <3>6 DEF DiskTypes
    <3>9. summary' \in [Runs -> Outcomes \cup {"none"}]
      BY <3>6 DEF DiskTypes
    <3> QED
      BY <3>7, <3>8, <3>9 DEF DiskTypes
  <2> QED
    BY <2>1, <2>2, <2>3 DEF TypeInv
<1>11. ASSUME NEW p \in Recorders, RemoveDir(p) PROVE TypeInv'
  <2> USE <1>1, <1>11 DEF RemoveDir, Goto
  <2>1. PICK s : s = doomed[p]
    OBVIOUS
  <2>2. s \in Seq(Runs) /\ s # <<>>
    BY <2>1 DEF ListTypes
  <2>3. Tail(s) \in Seq(Runs) /\ ToSet(Tail(s)) \subseteq ToSet(s)
    BY <2>2, TailHolds
  <2>4. ListTypes'
    <3>1. condemned' = condemned /\ ToSet(s) \subseteq condemned' /\ condemned' \subseteq 1 .. started'
      BY <2>1 DEF ListTypes
    <3>2. pc'[p] = "deleting" /\ \A q \in Recorders \ {p} : pc'[q] = pc[q]
      BY DEF SessionTypes
    <3>3. PICK fs \in SUBSET Files : fs = listing'[p] /\ listing' = [listing EXCEPT ![p] = fs]
      BY DEF ListTypes
    <3>4. doomed' = [doomed EXCEPT ![p] = Tail(s)]
      BY <2>1
    <3> QED
      BY <2>3, <3>1, <3>2, <3>3, <3>4, ListReplaced
  <2>5. SessionTypes'
    BY DEF SessionTypes, Writing
  <2>6. DiskTypes'
    BY DEF DiskTypes
  <2> QED
    BY <2>4, <2>5, <2>6 DEF TypeInv
<1>12. ASSUME NEW p \in Recorders, DeleteFails(p) PROVE TypeInv'
  <2> USE <1>1, <1>12 DEF DeleteFails, Goto
  <2>1. PICK s : s = doomed[p]
    OBVIOUS
  <2>2. s \in Seq(Runs) /\ s # <<>>
    BY <2>1 DEF ListTypes
  <2>3. Tail(s) \in Seq(Runs) /\ ToSet(Tail(s)) \subseteq ToSet(s)
    BY <2>2, TailHolds
  <2>4. ListTypes'
    <3>1. condemned' = condemned /\ ToSet(s) \subseteq condemned' /\ condemned' \subseteq 1 .. started'
      BY <2>1 DEF ListTypes
    <3>2. pc'[p] = "deleting" /\ \A q \in Recorders \ {p} : pc'[q] = pc[q]
      BY DEF SessionTypes
    <3>3. PICK fs \in SUBSET Files : fs = listing'[p] /\ listing' = [listing EXCEPT ![p] = fs]
      BY DEF ListTypes
    <3>4. doomed' = [doomed EXCEPT ![p] = Tail(s)]
      BY <2>1
    <3> QED
      BY <2>3, <3>1, <3>2, <3>3, <3>4, ListReplaced
  <2>5. SessionTypes'
    BY DEF SessionTypes, Writing
  <2>6. DiskTypes'
    BY DEF DiskTypes, diskVars
  <2> QED
    BY <2>4, <2>5, <2>6 DEF TypeInv
<1>13. ASSUME NEW p \in Recorders, RetentionDone(p) PROVE TypeInv'
  <2> USE <1>1, <1>13 DEF RetentionDone, Goto
  <2>1. ListTypes'
    BY DEF ListTypes
  <2>2. SessionTypes'
    BY DEF SessionTypes, Writing
  <2>3. DiskTypes'
    BY DEF DiskTypes, diskVars
  <2> QED
    BY <2>1, <2>2, <2>3 DEF TypeInv
<1>14. ASSUME NEW p \in Recorders, Dies(p) PROVE TypeInv'
  <2> USE <1>1, <1>14 DEF Dies, Goto
  <2>1. ListTypes'
    <3>1. <<>> \in Seq(Runs) /\ ToSet(<<>>) = {} /\ {} \in SUBSET Files
      BY EmptySeq DEF ToSet
    <3>2. pc'[p] = "dead" /\ \A q \in Recorders \ {p} : pc'[q] = pc[q]
      BY DEF SessionTypes
    <3>3. condemned' = condemned /\ condemned' \subseteq 1 .. started'
      BY DEF ListTypes
    <3> QED
      BY <3>1, <3>2, <3>3, ListReplaced
  <2>2. SessionTypes'
    BY DEF SessionTypes, Writing, Outcomes
  <2>3. DiskTypes'
    BY DEF DiskTypes, diskVars
  <2> QED
    BY <2>1, <2>2, <2>3 DEF TypeInv
<1> QED
  BY <1>2, <1>3, <1>4, <1>5, <1>6, <1>7, <1>8, <1>9, <1>10, <1>11, <1>12, <1>13, <1>14 DEF Next

(***************************************************************************)
(* The strengthened types hold always.                                     *)
(***************************************************************************)
LEMMA TypeInvariant == Spec => []TypeInv
BY TypeInit, TypeStep, PTL DEF Spec

(***************************************************************************)
(* Type correctness, for any number of sessions, runs and events.          *)
(***************************************************************************)
THEOREM TypeCorrect == Spec => []TypeOK
<1>1. TypeInv => TypeOK
  <2> SUFFICES ASSUME TypeInv PROVE TypeOK
    OBVIOUS
  <2>1. \A p \in Recorders : ToSet(doomed[p]) \subseteq Runs
    <3>1. condemned \subseteq Runs
      BY BoundsAssumption DEF TypeInv, ListTypes, DiskTypes, Runs
    <3> QED
      BY <3>1 DEF TypeInv, ListTypes
  <2>2. \A r \in Runs : ToSet(events[r]) \subseteq 0 .. MaxEvents
    <3> SUFFICES ASSUME NEW r \in Runs PROVE ToSet(events[r]) \subseteq 0 .. MaxEvents
      OBVIOUS
    <3>1. PICK s \in Seq(0 .. MaxEvents) : s = events[r]
      BY DEF TypeInv, DiskTypes
    <3>2. DOMAIN s = 1 .. Len(s) /\ \A i \in 1 .. Len(s) : s[i] \in 0 .. MaxEvents
      BY LenProperties, ElementOfSeq
    <3> QED
      BY <3>1, <3>2 DEF ToSet
  <2>3. ListTypes /\ SessionTypes /\ DiskTypes
    BY DEF TypeInv
  <2> QED
    BY <2>1, <2>2, <2>3 DEF TypeOK, ListTypes, SessionTypes, DiskTypes
<1> QED
  BY <1>1, TypeInvariant, PTL

(***************************************************************************)
(* Starting, no run is written.                                            *)
(***************************************************************************)
LEMMA WriterInit == Init => WriterInv
BY DEF Init, WriterInv, Writing

(***************************************************************************)
(* A writer writes a run that has been started.                            *)
(***************************************************************************)
LEMMA WritersRun ==
    ASSUME TypeInv, NEW p \in Recorders, pc[p] \in Writing
    PROVE  cur[p] \in Runs /\ cur[p] \in 1 .. started /\ cur[p] <= started /\ cur[p] \in Nat
BY BoundsAssumption DEF TypeInv, SessionTypes, DiskTypes, Runs

(***************************************************************************)
(* Where a session is, and what it writes, concerns the writers only while *)
(* it does write: other steps leave the run of every writer as it was.     *)
(***************************************************************************)
LEMMA WritersStay ==
    ASSUME TypeInv, WriterInv, UNCHANGED <<events, started>>,
           \A q \in Recorders : pc'[q] \in Writing => pc[q] \in Writing /\ cur'[q] = cur[q],
           \A r \in Runs : files'[r] \subseteq files[r]
    PROVE  WriterInv'
<1>1. ASSUME NEW q \in Recorders, pc'[q] \in Writing
      PROVE  "summary.json" \notin files'[cur'[q]]
  <2>1. pc[q] \in Writing /\ cur'[q] = cur[q] /\ cur[q] \in Runs
    BY <1>1, WritersRun
  <2> QED
    BY <2>1 DEF WriterInv
<1>2. ASSUME NEW q \in Recorders, NEW t \in Recorders, pc'[q] \in Writing, pc'[t] \in Writing, q # t
      PROVE  cur'[q] # cur'[t]
  BY <1>2 DEF WriterInv
<1>3. ASSUME NEW r \in Runs, r > started' PROVE events'[r] = <<>> /\ files'[r] = {}
  <2>1. events[r] = <<>> /\ files[r] = {} /\ files'[r] \subseteq files[r]
    BY <1>3 DEF WriterInv
  <2> QED
    BY <2>1
<1> QED
  BY <1>1, <1>2, <1>3 DEF WriterInv

(***************************************************************************)
(* A run of one's own at every step: a new run has a number nobody has,    *)
(* and only the session that writes a run adds a file to it.               *)
(***************************************************************************)
LEMMA WriterStep == TypeInv /\ WriterInv /\ [Next]_vars => WriterInv'
<1> SUFFICES ASSUME TypeInv, WriterInv, [Next]_vars PROVE WriterInv'
  OBVIOUS
<1>1. ListTypes /\ SessionTypes /\ DiskTypes
  BY DEF TypeInv
<1>2. CASE UNCHANGED vars
  BY <1>2 DEF vars, recVars, diskVars, WriterInv
<1>3. ASSUME NEW p \in Recorders, StartRun(p) PROVE WriterInv'
  <2> USE <1>1, <1>3 DEF StartRun, Goto, Breaks
  <2>1. started' = started + 1 /\ started \in Nat /\ started' \in Runs
    BY BoundsAssumption DEF DiskTypes, Runs
  <2>2. \A r \in Runs : r > started' => events'[r] = <<>> /\ files'[r] = {}
    BY <2>1 DEF WriterInv, Runs
  <2>3. CASE UNCHANGED <<cur, pc>>
    BY <2>2, <2>3 DEF WriterInv
  <2>4. CASE cur' = [cur EXCEPT ![p] = started'] /\ pc' = [pc EXCEPT ![p] = "recording"]
    <3>1. cur'[p] = started' /\ \A q \in Recorders \ {p} : cur'[q] = cur[q] /\ pc'[q] = pc[q]
      BY <2>4 DEF SessionTypes
    <3>2. \A q \in Recorders \ {p} : pc'[q] \in Writing => cur'[q] # started' /\ cur'[q] \in Runs
      BY <2>1, <3>1, WritersRun
    <3>3. files'[started'] = {}
      BY <2>1 DEF WriterInv
    <3>4. ASSUME NEW q \in Recorders, NEW t \in Recorders,
                 pc'[q] \in Writing, pc'[t] \in Writing, q # t
          PROVE  cur'[q] # cur'[t]
      <4>1. CASE q = p
        BY <3>1, <3>2, <3>4, <4>1
      <4>2. CASE t = p
        BY <3>1, <3>2, <3>4, <4>2
      <4>3. CASE q # p /\ t # p
        BY <3>1, <3>4, <4>3 DEF WriterInv
      <4> QED
        BY <4>1, <4>2, <4>3
    <3>5. ASSUME NEW q \in Recorders, pc'[q] \in Writing
          PROVE  "summary.json" \notin files'[cur'[q]]
      <4>1. CASE q = p
        BY <3>1, <3>3, <4>1
      <4>2. CASE q # p
        BY <3>1, <3>5, <4>2 DEF WriterInv
      <4> QED
        BY <4>1, <4>2
    <3> QED
      BY <2>2, <3>4, <3>5 DEF WriterInv
  <2> QED
    BY <2>3, <2>4
<1>4. ASSUME NEW p \in Recorders, pc[p] \in Writing,
             pc'[p] \in {"recording", "receipt", "summary", "retaining"},
             \A q \in Recorders \ {p} : pc'[q] = pc[q],
             UNCHANGED <<cur, started>>,
             \A r \in Runs \ {cur[p]} : files'[r] = files[r] /\ events'[r] = events[r],
             pc'[p] \in Writing => "summary.json" \notin files'[cur[p]]
      PROVE  WriterInv'
  <2>1. cur[p] \in Runs /\ cur[p] <= started /\ started \in Nat
    BY <1>1, <1>4, WritersRun DEF DiskTypes
  <2>2. \A q \in Recorders : pc'[q] \in Writing => pc[q] \in Writing
    BY <1>4
  <2>3. \A q, t \in Recorders :
           pc'[q] \in Writing /\ pc'[t] \in Writing /\ q # t => cur'[q] # cur'[t]
    BY <1>4, <2>2 DEF WriterInv
  <2>4. ASSUME NEW q \in Recorders, pc'[q] \in Writing
        PROVE  "summary.json" \notin files'[cur'[q]]
    <3>1. CASE q = p
      BY <1>4, <2>4, <3>1
    <3>2. CASE q # p
      <4>1. cur[q] # cur[p] /\ cur[q] \in Runs /\ "summary.json" \notin files[cur[q]]
        BY <1>4, <2>2, <2>4, <3>2, WritersRun DEF WriterInv
      <4> QED
        BY <1>4, <4>1
    <3> QED
      BY <3>1, <3>2
  <2>5. ASSUME NEW r \in Runs, r > started' PROVE events'[r] = <<>> /\ files'[r] = {}
    <3>1. r # cur[p] /\ r > started
      BY <1>4, <2>1, <2>5 DEF Runs
    <3> QED
      BY <1>4, <3>1 DEF WriterInv
  <2> QED
    BY <2>3, <2>4, <2>5 DEF WriterInv
<1>5. ASSUME NEW p \in Recorders, Emit(p) PROVE WriterInv'
  <2>1. pc[p] \in Writing /\ pc'[p] = "recording" /\ UNCHANGED <<pc, cur, started>>
    BY <1>5 DEF Emit, Writing
  <2>2. cur[p] \in Runs
    BY <2>1, WritersRun
  <2>3. \A r \in Runs \ {cur[p]} : files'[r] = files[r] /\ events'[r] = events[r]
    BY <1>1, <1>5, <2>2 DEF Emit, Appends, DiskTypes
  <2>4. "summary.json" \notin files'[cur[p]]
    BY <1>1, <1>5, <2>1, <2>2 DEF Emit, Appends, DiskTypes, WriterInv
  <2> QED
    BY <1>4, <2>1, <2>3, <2>4
<1>6. ASSUME NEW p \in Recorders, NEW o \in Outcomes, WriteFinished(p, o) PROVE WriterInv'
  <2>1. /\ pc[p] \in Writing /\ pc'[p] \in {"receipt", "retaining"} /\ UNCHANGED <<cur, started>>
        /\ \A q \in Recorders \ {p} : pc'[q] = pc[q]
    BY <1>1, <1>6 DEF WriteFinished, WriteFails, Goto, SessionTypes, Writing
  <2>2. cur[p] \in Runs
    BY <2>1, WritersRun
  <2>3. \A r \in Runs \ {cur[p]} : files'[r] = files[r] /\ events'[r] = events[r]
    BY <1>1, <1>6, <2>2 DEF WriteFinished, WriteFails, Appends, DiskTypes
  <2>4. "summary.json" \notin files'[cur[p]]
    BY <1>1, <1>6, <2>1, <2>2 DEF WriteFinished, WriteFails, Appends, DiskTypes, WriterInv
  <2> QED
    BY <1>4, <2>1, <2>3, <2>4
<1>7. ASSUME NEW p \in Recorders, WriteReceipt(p) PROVE WriterInv'
  <2>1. /\ pc[p] \in Writing /\ pc'[p] \in {"summary", "retaining"} /\ UNCHANGED <<cur, started>>
        /\ \A q \in Recorders \ {p} : pc'[q] = pc[q]
    BY <1>1, <1>7 DEF WriteReceipt, WriteFails, JsonFails, Goto, SessionTypes, Writing
  <2>2. cur[p] \in Runs
    BY <2>1, WritersRun
  <2>3. \A r \in Runs \ {cur[p]} : files'[r] = files[r] /\ events'[r] = events[r]
    BY <1>1, <1>7, <2>2 DEF WriteReceipt, WriteFails, JsonFails, Writes, DiskTypes
  <2>4. "summary.json" \notin files'[cur[p]]
    BY <1>1, <1>7, <2>1, <2>2 DEF WriteReceipt, WriteFails, JsonFails, Writes, DiskTypes, WriterInv
  <2> QED
    BY <1>4, <2>1, <2>3, <2>4
<1>8. ASSUME NEW p \in Recorders, WriteSummary(p) PROVE WriterInv'
  <2>1. /\ pc[p] \in Writing /\ pc'[p] = "retaining" /\ UNCHANGED <<cur, started>>
        /\ \A q \in Recorders \ {p} : pc'[q] = pc[q]
    BY <1>1, <1>8 DEF WriteSummary, WriteFails, JsonFails, Goto, SessionTypes, Writing
  <2>2. cur[p] \in Runs
    BY <2>1, WritersRun
  <2>3. \A r \in Runs \ {cur[p]} : files'[r] = files[r] /\ events'[r] = events[r]
    BY <1>1, <1>8, <2>2 DEF WriteSummary, WriteFails, JsonFails, Writes, DiskTypes
  <2>4. pc'[p] \notin Writing
    BY <2>1 DEF Writing
  <2> QED
    BY <1>4, <2>1, <2>3, <2>4
<1>9. ASSUME NEW p \in Recorders,
             Retain(p) \/ OpenDir(p) \/ RemoveDir(p) \/ DeleteFails(p) \/ RetentionDone(p) \/ Dies(p)
      PROVE  WriterInv'
  <2>1. UNCHANGED <<events, files, started>>
    BY <1>9 DEF Retain, OpenDir, RemoveDir, DeleteFails, RetentionDone, Dies, diskVars
  <2>2. \A q \in Recorders : pc'[q] \in Writing => pc[q] \in Writing /\ cur'[q] = cur[q]
    <3> SUFFICES ASSUME NEW q \in Recorders, pc'[q] \in Writing
                 PROVE  pc[q] \in Writing /\ cur'[q] = cur[q]
      OBVIOUS
    <3>1. CASE q = p
      BY <1>1, <1>9, <3>1 DEF Retain, OpenDir, RemoveDir, DeleteFails, RetentionDone, Dies, Goto,
                              Writing, SessionTypes
    <3>2. CASE q # p
      BY <1>1, <1>9, <3>2 DEF Retain, OpenDir, RemoveDir, DeleteFails, RetentionDone, Dies, Goto,
                              SessionTypes
    <3> QED
      BY <3>1, <3>2
  <2> QED
    BY <2>1, <2>2, WritersStay
<1>10. ASSUME NEW p \in Recorders, NEW f \in Files, UnlinkChild(p, f) PROVE WriterInv'
  <2>1. PICK d \in Runs : d = Head(doomed[p])
    BY <1>1, <1>10, UnlinkedIsCondemned DEF UnlinkChild
  <2>2. /\ files' = [files EXCEPT ![d] = @ \ {f}]
        /\ events' = [events EXCEPT ![d] = IF f = "events.jsonl" THEN <<>> ELSE @]
        /\ UNCHANGED <<pc, cur, started>>
    BY <1>10, <2>1 DEF UnlinkChild
  <2>3. \A r \in Runs : files'[r] \subseteq files[r]
    BY <1>1, <2>2 DEF DiskTypes
  <2>4. \A r \in Runs : events[r] = <<>> => events'[r] = <<>>
    BY <1>1, <2>2 DEF DiskTypes
  <2> QED
    BY <1>1, <2>2, <2>3, <2>4, WritersRun DEF WriterInv
<1> QED
  BY <1>2, <1>3, <1>5, <1>6, <1>7, <1>8, <1>9, <1>10 DEF Next

Numbered(n) == [i \in 1 .. n |-> i]

(***************************************************************************)
(* The trace of n events is numbered from 1; one more event lengthens it.  *)
(***************************************************************************)
LEMMA NumberedGrows ==
    /\ Numbered(0) = <<>>
    /\ \A n \in Nat : Append(Numbered(n), n + 1) = Numbered(n + 1)
<1>1. Numbered(0) = <<>>
  BY DEF Numbered
<1>2. ASSUME NEW n \in Nat PROVE Append(Numbered(n), n + 1) = Numbered(n + 1)
  <2>1. Numbered(n) \in Seq(Nat) /\ Len(Numbered(n)) = n /\ \A i \in 1 .. n : Numbered(n)[i] = i
    BY DEF Numbered
  <2>2. Numbered(n + 1) \in Seq(Nat) /\ Len(Numbered(n + 1)) = n + 1
        /\ \A i \in 1 .. n + 1 : Numbered(n + 1)[i] = i
    BY DEF Numbered
  <2>3. PICK s \in Seq(Nat) : s = Numbered(n)
    BY <2>1
  <2>4. PICK t : t = Append(s, n + 1)
    OBVIOUS
  <2>5. /\ t \in Seq(Nat)
        /\ Len(t) = n + 1
        /\ \A i \in 1 .. n + 1 : t[i] = i
    BY <2>1, <2>3, <2>4, AppendProperties
  <2>6. PICK u \in Seq(Nat) : u = Numbered(n + 1)
    BY <2>2
  <2>7. t = u
    BY <2>2, <2>5, <2>6, SeqEqual
  <2> QED
    BY <2>3, <2>4, <2>6, <2>7
<1> QED
  BY <1>1, <1>2

(***************************************************************************)
(* What ends a trace is there.                                             *)
(***************************************************************************)
LEMMA AppendEnds ==
    ASSUME NEW S, NEW s \in Seq(S), NEW e \in S
    PROVE  Append(s, e) # <<>> /\ Last(Append(s, e)) = e
BY AppendProperties DEF Last

(***************************************************************************)
(* Starting, nothing is on disk.                                           *)
(***************************************************************************)
LEMMA TraceInit == Init => TraceInv
BY DEF Init, TraceInv, TraceIsComplete, TerminalIsComplete

(***************************************************************************)
(* What is on disk of the runs that nobody chose to delete stays as it is, *)
(* and nobody starts to write.                                             *)
(***************************************************************************)
LEMMA TracesStay ==
    ASSUME TypeInv, TraceInv, condemned \subseteq condemned',
           \A r \in Runs \ condemned : files'[r] = files[r] /\ events'[r] = events[r],
           \A q \in Recorders : pc'[q] \in Writing =>
              /\ pc'[q] = pc[q] /\ cur'[q] = cur[q]
              /\ emitted'[q] = emitted[q] /\ broken'[q] = broken[q]
    PROVE  TraceInv'
<1>1. ASSUME NEW q \in Recorders, pc'[q] \in Writing, cur'[q] \notin condemned'
      PROVE  /\ cur'[q] = cur[q] /\ cur[q] \in Runs /\ cur[q] \notin condemned
             /\ pc'[q] = pc[q] /\ emitted'[q] = emitted[q] /\ broken'[q] = broken[q]
             /\ files'[cur[q]] = files[cur[q]] /\ events'[cur[q]] = events[cur[q]]
  BY <1>1, WritersRun
<1>2. TraceIsComplete'
  <2> SUFFICES ASSUME NEW q \in Recorders, pc'[q] = "recording", ~ broken'[q], cur'[q] \notin condemned'
               PROVE  events'[cur'[q]] = [i \in 1 .. emitted'[q] |-> i]
    BY DEF TraceIsComplete
  <2> QED
    BY <1>1 DEF TraceInv, TraceIsComplete, Writing
<1>3. ASSUME NEW q \in Recorders, pc'[q] \in {"receipt", "summary"}, cur'[q] \notin condemned'
      PROVE  /\ Ended(events'[cur'[q]])
             /\ pc'[q] = "summary" => "receipt.json" \in files'[cur'[q]]
  BY <1>1, <1>3 DEF TraceInv, Writing
<1>4. TerminalIsComplete'
  BY DEF TraceInv, TerminalIsComplete
<1> QED
  BY <1>2, <1>3, <1>4 DEF TraceInv

(***************************************************************************)
(* A writer that leaves its own run as the invariant says, and every other *)
(* alone, keeps the invariant.                                             *)
(***************************************************************************)
LEMMA OneTraceChanges ==
    ASSUME TypeInv, WriterInv, TraceInv, NEW p \in Recorders, pc[p] \in Writing,
           UNCHANGED <<cur, condemned>>,
           \A q \in Recorders \ {p} :
              pc'[q] = pc[q] /\ emitted'[q] = emitted[q] /\ broken'[q] = broken[q],
           \A r \in Runs \ {cur[p]} : files'[r] = files[r] /\ events'[r] = events[r],
           cur[p] \notin condemned =>
              /\ pc'[p] = "recording" /\ ~ broken'[p] => events'[cur[p]] = Numbered(emitted'[p])
              /\ pc'[p] \in {"receipt", "summary"} => Ended(events'[cur[p]])
              /\ pc'[p] = "summary" => "receipt.json" \in files'[cur[p]]
              /\ "summary.json" \in files'[cur[p]] =>
                    "receipt.json" \in files'[cur[p]] /\ Ended(events'[cur[p]])
    PROVE  TraceInv'
<1>1. ASSUME NEW q \in Recorders \ {p}, pc'[q] \in Writing
      PROVE  cur[q] \in Runs /\ files'[cur[q]] = files[cur[q]] /\ events'[cur[q]] = events[cur[q]]
  <2>1. cur[q] # cur[p] /\ cur[q] \in Runs
    BY <1>1, WritersRun DEF WriterInv
  <2> QED
    BY <2>1
<1>2. TraceIsComplete'
  <2> SUFFICES ASSUME NEW q \in Recorders, pc'[q] = "recording", ~ broken'[q], cur'[q] \notin condemned'
               PROVE  events'[cur'[q]] = [i \in 1 .. emitted'[q] |-> i]
    BY DEF TraceIsComplete
  <2>1. CASE q = p
    BY <2>1 DEF Numbered
  <2>2. CASE q # p
    BY <1>1, <2>2 DEF TraceInv, TraceIsComplete, Writing
  <2> QED
    BY <2>1, <2>2
<1>3. ASSUME NEW q \in Recorders, pc'[q] \in {"receipt", "summary"}, cur'[q] \notin condemned'
      PROVE  /\ Ended(events'[cur'[q]])
             /\ pc'[q] = "summary" => "receipt.json" \in files'[cur'[q]]
  <2>1. CASE q = p
    BY <1>3, <2>1
  <2>2. CASE q # p
    BY <1>1, <1>3, <2>2 DEF TraceInv, Writing
  <2> QED
    BY <2>1, <2>2
<1>4. TerminalIsComplete'
  <2> SUFFICES ASSUME NEW r \in Runs, r \notin condemned, "summary.json" \in files'[r]
               PROVE  "receipt.json" \in files'[r] /\ Ended(events'[r])
    BY DEF TerminalIsComplete, Ended
  <2>1. CASE r = cur[p]
    BY <2>1 DEF Ended
  <2>2. CASE r # cur[p]
    BY <2>2 DEF TraceInv, TerminalIsComplete, Ended
  <2> QED
    BY <2>1, <2>2
<1> QED
  BY <1>2, <1>3, <1>4 DEF TraceInv

(***************************************************************************)
(* Every step keeps the traces.  A write that fails leaves the run without *)
(* its summary, an event that is not written breaks the recorder, and a    *)
(* deletion touches only runs that were chosen.                            *)
(***************************************************************************)
LEMMA TraceStep == TypeInv /\ WriterInv /\ TraceInv /\ [Next]_vars => TraceInv'
<1> SUFFICES ASSUME TypeInv, WriterInv, TraceInv, [Next]_vars PROVE TraceInv'
  OBVIOUS
<1>1. ListTypes /\ SessionTypes /\ DiskTypes
  BY DEF TypeInv
<1>2. CASE UNCHANGED vars
  BY <1>2, TracesStay DEF vars, recVars, diskVars
<1>3. ASSUME NEW p \in Recorders, StartRun(p) PROVE TraceInv'
  <2> USE <1>1, <1>3 DEF StartRun, Goto, Breaks
  <2>1. started' \in Runs /\ UNCHANGED <<files, events, condemned>>
    BY BoundsAssumption DEF DiskTypes, Runs
  <2>2. CASE UNCHANGED <<cur, emitted, pc>> /\ broken' = [broken EXCEPT ![p] = TRUE]
    <3>1. \A q \in Recorders : pc'[q] \in Writing => broken'[q] = broken[q]
      BY <2>2 DEF SessionTypes, Writing
    <3> QED
      BY <2>1, <2>2, <3>1, TracesStay
  <2>3. CASE /\ cur' = [cur EXCEPT ![p] = started']
             /\ emitted' = [emitted EXCEPT ![p] = 0]
             /\ pc' = [pc EXCEPT ![p] = "recording"]
             /\ UNCHANGED broken
    <3>1. /\ cur'[p] = started' /\ emitted'[p] = 0 /\ pc'[p] = "recording"
          /\ \A q \in Recorders \ {p} :
                cur'[q] = cur[q] /\ emitted'[q] = emitted[q] /\ pc'[q] = pc[q]
      BY <2>3 DEF SessionTypes
    <3>2. events'[started'] = Numbered(0)
      BY <2>1, NumberedGrows DEF WriterInv, DiskTypes
    <3>3. TraceIsComplete'
      <4> SUFFICES ASSUME NEW q \in Recorders, pc'[q] = "recording", ~ broken'[q], cur'[q] \notin condemned'
                   PROVE  events'[cur'[q]] = [i \in 1 .. emitted'[q] |-> i]
        BY DEF TraceIsComplete
      <4>1. CASE q = p
        BY <3>1, <3>2, <4>1 DEF Numbered
      <4>2. CASE q # p
        BY <2>1, <2>3, <3>1, <4>2 DEF TraceInv, TraceIsComplete
      <4> QED
        BY <4>1, <4>2
    <3>4. ASSUME NEW q \in Recorders, pc'[q] \in {"receipt", "summary"}, cur'[q] \notin condemned'
          PROVE  /\ Ended(events'[cur'[q]])
                 /\ pc'[q] = "summary" => "receipt.json" \in files'[cur'[q]]
      <4>1. q # p
        BY <3>1, <3>4
      <4> QED
        BY <2>1, <3>1, <3>4, <4>1 DEF TraceInv
    <3>5. TerminalIsComplete'
      BY <2>1 DEF TraceInv, TerminalIsComplete
    <3> QED
      BY <3>3, <3>4, <3>5 DEF TraceInv
  <2> QED
    BY <2>2, <2>3
<1>4. ASSUME NEW p \in Recorders, Emit(p) PROVE TraceInv'
  <2>1. /\ pc[p] = "recording" /\ pc[p] \in Writing /\ UNCHANGED <<pc, cur, condemned>>
        /\ emitted[p] \in Nat /\ emitted'[p] = emitted[p] + 1
        /\ \A q \in Recorders \ {p} : emitted'[q] = emitted[q] /\ broken'[q] = broken[q]
    BY <1>1, <1>4 DEF Emit, Breaks, Writing, SessionTypes
  <2>2. cur[p] \in Runs /\ "summary.json" \notin files[cur[p]]
    BY <2>1, WritersRun DEF WriterInv
  <2>3. \A r \in Runs \ {cur[p]} : files'[r] = files[r] /\ events'[r] = events[r]
    BY <1>1, <1>4, <2>2 DEF Emit, Appends, DiskTypes
  <2>4. "summary.json" \notin files'[cur[p]]
    BY <1>1, <1>4, <2>2 DEF Emit, Appends, DiskTypes
  <2>5. ASSUME cur[p] \notin condemned, ~ broken'[p]
        PROVE  events'[cur[p]] = Numbered(emitted'[p])
    <3>1. Appends(cur[p], emitted'[p]) /\ ~ broken[p]
      BY <1>1, <1>4, <2>5 DEF Emit, Breaks, SessionTypes
    <3>2. events'[cur[p]] = Append(events[cur[p]], emitted[p] + 1)
      BY <1>1, <2>1, <2>2, <3>1 DEF Appends, DiskTypes
    <3>3. events[cur[p]] = Numbered(emitted[p])
      BY <2>1, <2>5, <3>1 DEF TraceInv, TraceIsComplete, Numbered
    <3> QED
      BY <2>1, <3>2, <3>3, NumberedGrows
  <2>6. pc'[p] = "recording"
    BY <2>1
  <2> QED
    BY <2>1, <2>3, <2>4, <2>5, <2>6, OneTraceChanges
<1>5. ASSUME NEW p \in Recorders, NEW o \in Outcomes, WriteFinished(p, o) PROVE TraceInv'
  <2>1. /\ pc[p] = "recording" /\ pc[p] \in Writing /\ pc'[p] \in {"receipt", "retaining"}
        /\ UNCHANGED <<cur, condemned, emitted>>
        /\ \A q \in Recorders \ {p} : pc'[q] = pc[q] /\ broken'[q] = broken[q]
    BY <1>1, <1>5 DEF WriteFinished, WriteFails, Goto, Breaks, Writing, SessionTypes
  <2>2. cur[p] \in Runs /\ "summary.json" \notin files[cur[p]]
    BY <2>1, WritersRun DEF WriterInv
  <2>3. \A r \in Runs \ {cur[p]} : files'[r] = files[r] /\ events'[r] = events[r]
    BY <1>1, <1>5, <2>2 DEF WriteFinished, WriteFails, Appends, DiskTypes
  <2>4. "summary.json" \notin files'[cur[p]]
    BY <1>1, <1>5, <2>2 DEF WriteFinished, WriteFails, Appends, DiskTypes
  <2>5. pc'[p] = "receipt" => Ended(events'[cur[p]])
    <3> SUFFICES ASSUME pc'[p] = "receipt" PROVE Ended(events'[cur[p]])
      OBVIOUS
    <3>1. Appends(cur[p], Finished)
      BY <1>1, <1>5 DEF WriteFinished, WriteFails, Goto, SessionTypes
    <3>2. events'[cur[p]] = Append(events[cur[p]], Finished)
      BY <1>1, <2>2, <3>1 DEF Appends, DiskTypes
    <3>3. PICK s \in Seq(0 .. MaxEvents) : s = events[cur[p]]
      BY <1>1, <2>2 DEF DiskTypes
    <3>4. Finished \in 0 .. MaxEvents
      BY BoundsAssumption DEF Finished
    <3>5. Append(s, Finished) # <<>> /\ Last(Append(s, Finished)) = Finished
      BY <3>4, AppendEnds
    <3> QED
      BY <3>2, <3>3, <3>5 DEF Ended
  <2> QED
    BY <2>1, <2>3, <2>4, <2>5, OneTraceChanges
<1>6. ASSUME NEW p \in Recorders, WriteReceipt(p) PROVE TraceInv'
  <2>1. /\ pc[p] = "receipt" /\ pc[p] \in Writing /\ pc'[p] \in {"summary", "retaining"}
        /\ UNCHANGED <<cur, condemned, emitted, events>>
        /\ \A q \in Recorders \ {p} : pc'[q] = pc[q] /\ broken'[q] = broken[q]
    BY <1>1, <1>6 DEF WriteReceipt, WriteFails, JsonFails, Writes, Goto, Breaks, Writing, SessionTypes
  <2>2. cur[p] \in Runs /\ "summary.json" \notin files[cur[p]]
    BY <2>1, WritersRun DEF WriterInv
  <2>3. \A r \in Runs \ {cur[p]} : files'[r] = files[r]
    BY <1>1, <1>6, <2>2 DEF WriteReceipt, WriteFails, JsonFails, Writes, DiskTypes
  <2>4. "summary.json" \notin files'[cur[p]]
    BY <1>1, <1>6, <2>2 DEF WriteReceipt, WriteFails, JsonFails, Writes, DiskTypes
  <2>5. pc'[p] = "summary" => "receipt.json" \in files'[cur[p]]
    BY <1>1, <1>6, <2>2 DEF WriteReceipt, WriteFails, JsonFails, Writes, Goto, DiskTypes, SessionTypes
  <2>6. cur[p] \notin condemned => Ended(events'[cur[p]])
    BY <2>1 DEF TraceInv
  <2> QED
    BY <2>1, <2>3, <2>4, <2>5, <2>6, OneTraceChanges
<1>7. ASSUME NEW p \in Recorders, WriteSummary(p) PROVE TraceInv'
  <2>1. /\ pc[p] = "summary" /\ pc[p] \in Writing /\ pc'[p] = "retaining"
        /\ UNCHANGED <<cur, condemned, emitted, events>>
        /\ \A q \in Recorders \ {p} : pc'[q] = pc[q] /\ broken'[q] = broken[q]
    BY <1>1, <1>7 DEF WriteSummary, WriteFails, JsonFails, Writes, Goto, Breaks, Writing, SessionTypes
  <2>2. cur[p] \in Runs
    BY <2>1, WritersRun
  <2>3. \A r \in Runs \ {cur[p]} : files'[r] = files[r]
    BY <1>1, <1>7, <2>2 DEF WriteSummary, WriteFails, JsonFails, Writes, DiskTypes
  <2>4. files[cur[p]] \subseteq files'[cur[p]]
    BY <1>1, <1>7, <2>2 DEF WriteSummary, WriteFails, JsonFails, Writes, DiskTypes
  <2>5. cur[p] \notin condemned => "receipt.json" \in files'[cur[p]] /\ Ended(events'[cur[p]])
    BY <2>1, <2>4 DEF TraceInv
  <2> QED
    BY <2>1, <2>3, <2>5, OneTraceChanges
<1>8. ASSUME NEW p \in Recorders,
             Retain(p) \/ OpenDir(p) \/ RemoveDir(p) \/ DeleteFails(p) \/ RetentionDone(p) \/ Dies(p)
      PROVE  TraceInv'
  <2>1. UNCHANGED <<events, files>> /\ condemned \subseteq condemned'
    BY <1>8 DEF Retain, OpenDir, RemoveDir, DeleteFails, RetentionDone, Dies, diskVars
  <2>2. ASSUME NEW q \in Recorders, pc'[q] \in Writing
        PROVE  /\ pc'[q] = pc[q] /\ cur'[q] = cur[q]
               /\ emitted'[q] = emitted[q] /\ broken'[q] = broken[q]
    <3>1. q # p
      BY <1>1, <1>8, <2>2 DEF Retain, OpenDir, RemoveDir, DeleteFails, RetentionDone, Dies, Goto,
                              Writing, SessionTypes
    <3> QED
      BY <1>1, <1>8, <3>1 DEF Retain, OpenDir, RemoveDir, DeleteFails, RetentionDone, Dies, Goto,
                              SessionTypes
  <2> QED
    BY <2>1, <2>2, TracesStay
<1>9. ASSUME NEW p \in Recorders, NEW f \in Files, UnlinkChild(p, f) PROVE TraceInv'
  <2>1. PICK d \in Runs : d = Head(doomed[p]) /\ d \in condemned
    BY <1>1, <1>9, UnlinkedIsCondemned DEF UnlinkChild
  <2>2. /\ files' = [files EXCEPT ![d] = @ \ {f}]
        /\ events' = [events EXCEPT ![d] = IF f = "events.jsonl" THEN <<>> ELSE @]
        /\ UNCHANGED <<pc, cur, emitted, broken, condemned>>
    BY <1>9, <2>1 DEF UnlinkChild
  <2>3. \A r \in Runs \ condemned : files'[r] = files[r] /\ events'[r] = events[r]
    BY <1>1, <2>1, <2>2 DEF DiskTypes
  <2> QED
    BY <2>2, <2>3, TracesStay
<1> QED
  BY <1>2, <1>3, <1>4, <1>5, <1>6, <1>7, <1>8, <1>9 DEF Next

(***************************************************************************)
(* Below the hard cap retention chooses only runs with a summary, and none *)
(* that is written has one; so no writer's run is ever chosen.             *)
(***************************************************************************)
LEMMA InFlightStep ==
    TypeInv /\ WriterInv /\ InFlightBelowHardCap /\ [Next]_vars => InFlightBelowHardCap'
<1> SUFFICES ASSUME TypeInv, WriterInv, InFlightBelowHardCap, [Next]_vars, started' <= HardCap,
                    NEW q \in Recorders, pc'[q] \in Writing
             PROVE  cur'[q] \notin condemned'
  BY DEF InFlightBelowHardCap, InFlightIsKept
<1>1. ListTypes /\ SessionTypes /\ DiskTypes
  BY DEF TypeInv
<1>2. started \in Nat /\ HardCap \in Nat /\ SoftCap \in Nat
  BY <1>1, CapsAssumption DEF DiskTypes
<1>3. ASSUME UNCHANGED <<started, condemned>>, pc[q] \in Writing /\ cur'[q] = cur[q]
      PROVE  cur'[q] \notin condemned'
  BY <1>3 DEF InFlightBelowHardCap, InFlightIsKept
<1>4. CASE UNCHANGED vars
  BY <1>3, <1>4 DEF vars, recVars
<1>5. ASSUME NEW p \in Recorders, StartRun(p) PROVE cur'[q] \notin condemned'
  <2>1. started' = started + 1 /\ UNCHANGED condemned /\ condemned \subseteq 1 .. started
    BY <1>1, <1>5 DEF StartRun, ListTypes
  <2>2. cur'[q] = started' \/ (pc[q] \in Writing /\ cur'[q] = cur[q])
    BY <1>1, <1>5 DEF StartRun, Goto, SessionTypes
  <2>3. started <= HardCap
    BY <1>2, <2>1
  <2> QED
    BY <1>2, <2>1, <2>2, <2>3 DEF InFlightBelowHardCap, InFlightIsKept
<1>6. ASSUME NEW p \in Recorders, Retain(p) PROVE cur'[q] \notin condemned'
  <2>1. q # p /\ pc[q] \in Writing /\ cur'[q] = cur[q] /\ UNCHANGED started
    BY <1>1, <1>6 DEF Retain, Goto, SessionTypes, Writing
  <2>2. condemned' = condemned \cup ToSet(Doomed(present))
    BY <1>1, <1>6 DEF Retain, ListTypes
  <2>3. cur[q] \notin condemned
    BY <2>1 DEF InFlightBelowHardCap, InFlightIsKept
  <2>4. Evicted(present) = {}
    <3>1. PICK rs \in SUBSET Nat : rs = present
      BY <1>1, PresentIsFinite
    <3>2. IsFiniteSet(rs) /\ Cardinality(rs) <= started
      BY <1>1, <3>1, PresentIsFinite
    <3>3. PICK left : left = Spared(rs)
      OBVIOUS
    <3>4. left \in SUBSET rs /\ left \in SUBSET Nat
      BY <3>3 DEF Spared
    <3>5. IsFiniteSet(left) /\ Cardinality(left) <= Cardinality(rs)
          /\ Cardinality(left) \in Nat /\ Cardinality(rs) \in Nat
      BY <3>2, <3>4, FS_Subset, FS_CardinalityType
    <3>6. Cardinality(left) <= HardCap
      BY <1>2, <2>1, <3>2, <3>5
    <3>7. Excess(left, HardCap) = 0
      BY <1>2, <3>5, <3>6, ExcessCounts
    <3>8. IsFiniteSet(Oldest(left, 0)) /\ Cardinality(Oldest(left, 0)) = 0
      BY <3>4, <3>5, OldestAreOldest
    <3>9. Oldest(left, 0) = {}
      BY <3>8, FS_EmptySet
    <3> QED
      BY <3>1, <3>3, <3>7, <3>9 DEF Evicted
  <2>5. ToSet(Doomed(present)) \subseteq Successes(present)
    BY <1>1, <2>4, RetentionDecides
  <2>6. cur[q] \notin Successes(present)
    BY <2>1 DEF WriterInv, Successes
  <2> QED
    BY <2>1, <2>2, <2>3, <2>5, <2>6
<1>7. ASSUME NEW p \in Recorders,
             \/ Emit(p) \/ (\E o \in Outcomes : WriteFinished(p, o))
             \/ WriteReceipt(p) \/ WriteSummary(p)
      PROVE  cur'[q] \notin condemned'
  <2>1. UNCHANGED <<started, condemned, cur>>
    BY <1>7 DEF Emit, WriteFinished, WriteReceipt, WriteSummary
  <2>2. pc[p] \in Writing /\ (q # p => pc'[q] = pc[q])
    BY <1>1, <1>7 DEF Emit, WriteFinished, WriteReceipt, WriteSummary, WriteFails, JsonFails, Goto, Writing,
                      SessionTypes
  <2> QED
    BY <1>3, <2>1, <2>2
<1>8. ASSUME NEW p \in Recorders,
             \/ OpenDir(p) \/ (\E f \in Files : UnlinkChild(p, f)) \/ RemoveDir(p)
             \/ DeleteFails(p) \/ RetentionDone(p) \/ Dies(p)
      PROVE  cur'[q] \notin condemned'
  <2>1. UNCHANGED <<started, condemned>>
    BY <1>8 DEF OpenDir, UnlinkChild, RemoveDir, DeleteFails, RetentionDone, Dies
  <2>2. q # p
    BY <1>1, <1>8 DEF OpenDir, UnlinkChild, RemoveDir, DeleteFails, RetentionDone, Dies, Goto,
                      Writing, SessionTypes
  <2>3. pc[q] \in Writing /\ cur'[q] = cur[q]
    BY <1>1, <1>8, <2>2 DEF OpenDir, UnlinkChild, RemoveDir, DeleteFails, RetentionDone, Dies, Goto,
                            SessionTypes
  <2> QED
    BY <1>3, <2>1, <2>3
<1> QED
  BY <1>4, <1>5, <1>6, <1>7, <1>8 DEF Next

(***************************************************************************)
(* The invariant of the writers and of their traces holds always.          *)
(***************************************************************************)
LEMMA RecorderInvariant == Spec => [](TypeInv /\ WriterInv /\ TraceInv)
BY TypeInit, TypeStep, WriterInit, WriterStep, TraceInit, TraceStep, PTL DEF Spec

(***************************************************************************)
(* While the recorder of a session counts as writable, every event of its  *)
(* run is on disk, in order, unless another session's retention has chosen *)
(* the run: any number of sessions may write, fail and die meanwhile.      *)
(***************************************************************************)
THEOREM TracesComplete == Spec => []TraceIsComplete
<1>1. TraceInv => TraceIsComplete
  BY DEF TraceInv
<1> QED
  BY <1>1, RecorderInvariant, PTL

(***************************************************************************)
(* A run with a summary has its receipt and a trace that ends in           *)
(* RUN_FINISHED, unless it is being deleted: neither a death nor a failure *)
(* among the last three writes leaves a run that only looks terminal.      *)
(***************************************************************************)
THEOREM TerminalsComplete == Spec => []TerminalIsComplete
<1>1. TraceInv => TerminalIsComplete
  BY DEF TraceInv
<1> QED
  BY <1>1, RecorderInvariant, PTL

(***************************************************************************)
(* As long as no more runs were started than the hard cap allows, no run   *)
(* is deleted under the session that writes it.                            *)
(***************************************************************************)
THEOREM InFlightIsSafeBelowHardCap == Spec => []InFlightBelowHardCap
<1>1. Init => InFlightBelowHardCap
  BY DEF Init, InFlightBelowHardCap, InFlightIsKept
<1> QED
  BY <1>1, RecorderInvariant, InFlightStep, PTL DEF Spec

(***************************************************************************)
(* Retention keeps what it promises, whoever runs it and whatever it       *)
(* finds: no more runs than the hard cap, nothing below the soft cap,      *)
(* failures after every success, the oldest success first.                 *)
(***************************************************************************)
THEOREM RetentionKeeps == Spec => RetentionKeepsFailures
<1>1. ASSUME TypeInv, Next, NEW p \in Recorders, pc[p] = "retaining", pc'[p] = "deleting"
      PROVE  LET gone == ToSet(doomed'[p])
                 kept == present \ gone
             IN /\ Cardinality(kept) <= HardCap
                /\ gone # {} => Cardinality(kept) >= SoftCap
                /\ gone \ Successes(present) # {} => Successes(kept) = {}
                /\ \A g \in Successes(gone), k \in Successes(kept) : g < k
  <2>1. ListTypes /\ SessionTypes /\ DiskTypes
    BY <1>1 DEF TypeInv
  <2>2. Retain(p)
    BY <1>1, <2>1 DEF Next, StartRun, Emit, WriteFinished, WriteReceipt, WriteSummary, WriteFails, JsonFails,
         OpenDir, UnlinkChild, RemoveDir, DeleteFails, RetentionDone, Dies, Goto, SessionTypes, Retain
  <2>3. doomed'[p] = Doomed(present)
    BY <2>1, <2>2 DEF Retain, ListTypes
  <2>4. PICK rs \in SUBSET Nat : rs = present
    BY <2>1, PresentIsFinite
  <2>5. IsFiniteSet(rs)
    BY <2>1, <2>4, PresentIsFinite
  <2>6. PICK gone : gone = ToSet(doomed'[p])
    OBVIOUS
  <2>7. gone = Trimmed(rs) \cup Evicted(rs)
    BY <2>1, <2>3, <2>4, <2>6, RetentionDecides
  <2>8. /\ Cardinality(rs \ gone) <= HardCap
        /\ gone # {} => Cardinality(rs \ gone) >= SoftCap
        /\ gone \ Successes(rs) # {} => Successes(rs \ gone) = {}
        /\ \A g \in Successes(gone), k \in Successes(rs \ gone) : g < k
    BY <2>5, <2>7, RetentionPolicy
  <2> QED
    BY <2>4, <2>6, <2>8
<1>2. TypeInv /\ [Next]_vars =>
        [\A p \in Recorders : pc[p] = "retaining" /\ pc'[p] = "deleting" =>
           LET gone == ToSet(doomed'[p])
               kept == present \ gone
           IN /\ Cardinality(kept) <= HardCap
              /\ gone # {} => Cardinality(kept) >= SoftCap
              /\ gone \ Successes(present) # {} => Successes(kept) = {}
              /\ \A g \in Successes(gone), k \in Successes(kept) : g < k]_vars
  BY <1>1
<1> QED
  BY <1>2, TypeInvariant, PTL DEF Spec, RetentionKeepsFailures
=============================================================================
