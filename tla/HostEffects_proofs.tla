-------------------------- MODULE HostEffects_proofs --------------------------
(***************************************************************************)
(* What the host executor keeps true while the rest of the world changes   *)
(* the checkout under it, for any number of sessions, branches and file    *)
(* contents, any history of commits, and however often the world moves.    *)
(*                                                                         *)
(* The argument: the facts a session reads and the comparisons it makes    *)
(* are worked off a list from the front; so what lies behind it is known.  *)
(* A comparison that lies behind it still holds, or the session is raced.  *)
(***************************************************************************)
EXTENDS HostEffects, SequenceTheorems, TLAPS

-----------------------------------------------------------------------------
(***************************************************************************)
(* Lists that are worked off from the front.                               *)
(***************************************************************************)
Names == {"path", "before", "after", "link", "parent", "head", "ref", "source", "url", "object"}

\* rest is what remains of the list whole.
RestOf(rest, whole) ==
    /\ rest \in Seq(Names)
    /\ Len(rest) <= Len(whole)
    /\ \A j \in 1 .. Len(rest) : rest[j] = whole[Len(whole) - Len(rest) + j]

\* What lies before the rest.
Passed(rest, whole) == {whole[i] : i \in 1 .. (Len(whole) - Len(rest))}

(***************************************************************************)
(* All of a list remains to be done, at first.                             *)
(***************************************************************************)
LEMMA AllRemains ==
    ASSUME NEW whole \in Seq(Names)
    PROVE  RestOf(whole, whole) /\ Passed(whole, whole) = {}
<1>1. Len(whole) \in Nat
  OBVIOUS
<1> QED
  BY <1>1 DEF RestOf, Passed

(***************************************************************************)
(* Nothing remains, at last.                                               *)
(***************************************************************************)
LEMMA NothingRemains ==
    ASSUME NEW whole \in Seq(Names)
    PROVE  Passed(<<>>, whole) = {whole[i] : i \in DOMAIN whole}
<1>1. Len(whole) \in Nat /\ DOMAIN whole = 1 .. Len(whole) /\ Len(<<>>) = 0
  BY LenProperties
<1> QED
  BY <1>1 DEF Passed

(***************************************************************************)
(* One step along the list passes its head and nothing else.               *)
(***************************************************************************)
LEMMA HeadPasses ==
    ASSUME NEW whole \in Seq(Names), NEW rest, RestOf(rest, whole), rest # <<>>
    PROVE  /\ RestOf(Tail(rest), whole)
           /\ Head(rest) \in Names
           /\ Head(rest) \in {whole[i] : i \in DOMAIN whole}
           /\ Passed(Tail(rest), whole) = Passed(rest, whole) \cup {Head(rest)}
<1>1. rest \in Seq(Names) /\ Len(rest) <= Len(whole)
      /\ \A j \in 1 .. Len(rest) : rest[j] = whole[Len(whole) - Len(rest) + j]
  BY DEF RestOf
<1>2. /\ Head(rest) \in Names
      /\ Tail(rest) \in Seq(Names)
      /\ Len(Tail(rest)) = Len(rest) - 1
      /\ \A i \in 1 .. Len(Tail(rest)) : Tail(rest)[i] = rest[i + 1]
  BY <1>1, HeadTailProperties
<1>3. PICK m, n : m = Len(rest) /\ n = Len(whole)
  OBVIOUS
<1>4. m \in Nat \ {0} /\ n \in Nat /\ m <= n /\ DOMAIN whole = 1 .. n
  BY <1>1, <1>3, EmptySeq, LenProperties
<1>5. Head(rest) = rest[1]
  BY <1>1
<1>6. Head(rest) = whole[n - m + 1] /\ n - m + 1 \in 1 .. n
  BY <1>1, <1>3, <1>4, <1>5
<1>7. RestOf(Tail(rest), whole)
  <2>1. ASSUME NEW j \in 1 .. m - 1 PROVE Tail(rest)[j] = whole[n - (m - 1) + j]
    <3>1. j + 1 \in 1 .. m /\ n - m + (j + 1) = n - (m - 1) + j
      BY <1>4
    <3>2. Tail(rest)[j] = rest[j + 1] /\ rest[j + 1] = whole[n - m + (j + 1)]
      BY <1>1, <1>2, <1>3, <3>1
    <3> QED
      BY <3>1, <3>2
  <2> QED
    BY <1>2, <1>3, <1>4, <2>1 DEF RestOf
<1>8. Passed(Tail(rest), whole) = Passed(rest, whole) \cup {Head(rest)}
  <2>1. Passed(Tail(rest), whole) = {whole[i] : i \in 1 .. n - (m - 1)}
    BY <1>2, <1>3 DEF Passed
  <2>2. Passed(rest, whole) = {whole[i] : i \in 1 .. n - m}
    BY <1>3 DEF Passed
  <2>3. 1 .. n - (m - 1) = (1 .. n - m) \cup {n - m + 1}
    BY <1>4
  <2> QED
    BY <1>6, <2>1, <2>2, <2>3
<1> QED
  BY <1>2, <1>4, <1>6, <1>7, <1>8

-----------------------------------------------------------------------------
(***************************************************************************)
(* The inductive invariant.                                                *)
(***************************************************************************)

\* What each fact may be found to be, when the operation can be mapped at all.
FactRange == [path   |-> {"own"},
              before |-> Bodies \cup {Missing},
              after  |-> Bodies,
              head   |-> Commits,
              ref    |-> Branches,
              source |-> Commits,
              url    |-> {"canonical"}]

\* facts records exactly the facts called names, each within its range.
Knows(facts, names) ==
    /\ DOMAIN facts = names
    /\ \A f \in names : facts[f] \in FactRange[f]

WorldTypes ==
    /\ file \in Files
    /\ temp \in [Sessions -> Temps]
    /\ at \in [Refs -> Commits]
    /\ head \in Refs
    /\ pruned \subseteq Commits
    /\ remote \in [Features -> Commits \cup {NoCommit}]
    /\ url \in Urls

Comparing == {"checking"} \cup Writing
Editing   == Writing \cup {"undoing"}
AtWork    == {"reading", "rereading", "checking"} \cup Editing

SessionTypes ==
    /\ stage \in [Sessions -> Stages]
    /\ op \in [Sessions -> Operations \cup {NoOp}]
    /\ DOMAIN left = Sessions
    /\ DOMAIN seen = Sessions
    /\ DOMAIN admitted = Sessions
    /\ target \in [Sessions -> Places]
    /\ raced \subseteq Sessions
    /\ \A s \in Sessions : stage[s] \in AtWork => op[s] \in Operations

\* What a session has left is the end of the list its stage works off.
LineInv ==
    \A s \in Sessions :
        /\ stage[s] \in {"reading", "rereading"} => RestOf(left[s], FactsOf(op[s]))
        /\ stage[s] \in Comparing => RestOf(left[s], ChecksOf(op[s]))
        /\ stage[s] \in Writing => left[s] = <<>>

\* A round of reading knows what it has passed, an admitted action all of its facts.
FactInv ==
    \A s \in Sessions :
        /\ stage[s] \in {"closed", "idle"} => seen[s] = NoFacts
        /\ stage[s] \in {"reading", "rereading"} =>
             Knows(seen[s], Passed(left[s], FactsOf(op[s])))
        /\ stage[s] \in {"rereading"} \cup Comparing =>
             Knows(admitted[s], Passed(<<>>, FactsOf(op[s])))

\* Only edits are written.  What is about to be put in place is whole, unless it has
\* gone; a file that is left over is of a session that was interrupted or could not
\* remove it.
TempInv ==
    \A s \in Sessions :
        /\ stage[s] \in Editing => op[s].kind = "edit"
        /\ stage[s] = "replacing" => temp[s].body \in {"none", "whole"}
        /\ stage[s] \notin Editing \cup {"interrupted"} => temp[s].body \in {"none", "kept"}

\* What a session has compared still holds, or the session is marked as raced.
CompareInv ==
    \A s \in Sessions : stage[s] \in Comparing /\ s \notin raced =>
        \A fact \in Passed(left[s], ChecksOf(op[s])) : Holds(fact, s)

Reporting == {"succeeded", "failed", "uncertain"}

\* Who had an effect has said so, and it found what it was admitted for; an edit has put
\* the whole of it in place, and succeeded.
Honest(e) ==
    /\ e.by \in Sessions
    /\ e.kind = op[e.by].kind
    /\ stage[e.by] \in Reporting
    /\ e.kind = "edit" => stage[e.by] = "succeeded" /\ e.put = e.admitted.after
    /\ e.raced \/ \A fact \in DOMAIN e.found \ {"path"} : e.found[fact] = e.admitted[fact]

EffectInv == \A e \in effects : Honest(e)

\* An edit that has succeeded has had an effect.
DoneInv ==
    \A s \in Sessions :
        stage[s] = "succeeded" /\ op[s].kind = "edit" => \E e \in effects : e.by = s

TypeInv == WorldTypes /\ SessionTypes /\ LineInv /\ FactInv /\ TempInv

IInv == TypeInv /\ CompareInv /\ EffectInv /\ DoneInv

-----------------------------------------------------------------------------
(***************************************************************************)
(* Operations, what is read for them, and what is compared.                *)
(***************************************************************************)

(***************************************************************************)
(* The four kinds of operations, and what each of them names.              *)
(***************************************************************************)
LEMMA OperationKinds ==
    ASSUME NEW o \in Operations
    PROVE  /\ o.kind \in {"edit", "push", "merge", "tests"}
           /\ o.kind = "edit" => o.body \in Bodies
           /\ o.kind = "push" => o.branch \in Features
           /\ o.kind = "merge" => o.branch \in Branches
BY DEF Operations

(***************************************************************************)
(* What is read for an operation is a list of facts that have a range.     *)
(***************************************************************************)
LEMMA FactLists ==
    ASSUME NEW o \in Operations
    PROVE  /\ FactsOf(o) \in Seq(Names)
           /\ \A i \in DOMAIN FactsOf(o) : FactsOf(o)[i] \in DOMAIN FactRange
           /\ o.kind = "edit" => {"before", "after"} \subseteq {FactsOf(o)[i] : i \in DOMAIN FactsOf(o)}
           /\ o.kind = "push" => {"source", "url"} \subseteq {FactsOf(o)[i] : i \in DOMAIN FactsOf(o)}
           /\ o.kind = "merge" => {"head", "ref", "source"} \subseteq {FactsOf(o)[i] : i \in DOMAIN FactsOf(o)}
<1>1. CASE o.kind = "edit"
  <2>1. FactsOf(o) = <<"path", "before", "after">>
    BY <1>1 DEF FactsOf
  <2>2. DOMAIN FactsOf(o) = {1, 2, 3}
    BY <2>1
  <2> QED
    BY <1>1, <2>1, <2>2 DEF Names, FactRange
<1>2. CASE o.kind = "push"
  <2>1. FactsOf(o) = <<"url", "source">>
    BY <1>2 DEF FactsOf
  <2>2. DOMAIN FactsOf(o) = {1, 2}
    BY <2>1
  <2> QED
    BY <1>2, <2>1, <2>2 DEF Names, FactRange
<1>3. CASE o.kind = "merge"
  <2>1. FactsOf(o) = <<"head", "ref", "source">>
    BY <1>3 DEF FactsOf
  <2>2. DOMAIN FactsOf(o) = {1, 2, 3}
    BY <2>1
  <2> QED
    BY <1>3, <2>1, <2>2 DEF Names, FactRange
<1>4. CASE o.kind = "tests"
  <2>1. FactsOf(o) = <<>>
    BY <1>4 DEF FactsOf
  <2>2. DOMAIN FactsOf(o) = {}
    BY <2>1
  <2> QED
    BY <1>4, <2>1, <2>2 DEF Names, FactRange
<1> QED
  BY <1>1, <1>2, <1>3, <1>4, OperationKinds

(***************************************************************************)
(* What is compared for an operation: facts, in a list of their names.     *)
(***************************************************************************)
LEMMA CheckLists ==
    ASSUME NEW o \in Operations
    PROVE  /\ ChecksOf(o) \in Seq(Names)
           /\ o.kind = "edit" => "before" \in {ChecksOf(o)[i] : i \in DOMAIN ChecksOf(o)}
           /\ o.kind = "merge" => {"head", "ref"} \subseteq {ChecksOf(o)[i] : i \in DOMAIN ChecksOf(o)}
           /\ {ChecksOf(o)[i] : i \in DOMAIN ChecksOf(o)}
                \subseteq {"path", "link", "before", "parent", "head", "ref", "object"}
<1>1. CASE o.kind = "edit"
  <2>1. ChecksOf(o) = <<"path", "link", "before", "parent">>
    BY <1>1 DEF ChecksOf
  <2>2. DOMAIN ChecksOf(o) = {1, 2, 3, 4}
    BY <2>1
  <2> QED
    BY <1>1, <2>1, <2>2 DEF Names
<1>2. CASE o.kind = "push"
  <2>1. ChecksOf(o) = <<"object">>
    BY <1>2 DEF ChecksOf
  <2>2. DOMAIN ChecksOf(o) = {1}
    BY <2>1
  <2> QED
    BY <1>2, <2>1, <2>2 DEF Names
<1>3. CASE o.kind = "merge"
  <2>1. ChecksOf(o) = <<"head", "ref", "object">>
    BY <1>3 DEF ChecksOf
  <2>2. DOMAIN ChecksOf(o) = {1, 2, 3}
    BY <2>1
  <2> QED
    BY <1>3, <2>1, <2>2 DEF Names
<1>4. CASE o.kind = "tests"
  <2>1. ChecksOf(o) = <<>>
    BY <1>4 DEF ChecksOf
  <2>2. DOMAIN ChecksOf(o) = {}
    BY <2>1
  <2> QED
    BY <1>4, <2>1, <2>2 DEF Names
<1> QED
  BY <1>1, <1>2, <1>3, <1>4, OperationKinds

(***************************************************************************)
(* What lies at either place, and what it is digested to.                  *)
(***************************************************************************)
LEMMA DigestTypes ==
    ASSUME WorldTypes, NEW place \in Places
    PROVE  /\ file.own \in Bodies \cup {Missing, NoParent}
           /\ file.other \in Bodies \cup {Missing}
           /\ file.leads \in {"plain", "link", "folder"}
           /\ DigestAt(place) \in Bodies \cup {Missing}
<1>1. /\ file.own \in Bodies \cup {Missing, NoParent}
      /\ file.other \in Bodies \cup {Missing}
      /\ file.leads \in {"plain", "link", "folder"}
  BY DEF WorldTypes, Files
<1>2. file["own"] = file.own /\ file["other"] = file.other
  OBVIOUS
<1>3. CASE place = "own"
  BY <1>1, <1>2, <1>3 DEF DigestAt
<1>4. CASE place = "other"
  BY <1>1, <1>2, <1>4 DEF DigestAt
<1> QED
  BY <1>1, <1>3, <1>4 DEF Places

(***************************************************************************)
(* A fact that can be mapped is within its range.                          *)
(***************************************************************************)
LEMMA ReadsAreInRange ==
    ASSUME WorldTypes, NEW o \in Operations,
           NEW fact \in {FactsOf(o)[i] : i \in DOMAIN FactsOf(o)},
           Mappable(fact, Observed(fact, o))
    PROVE  fact \in DOMAIN FactRange /\ Observed(fact, o) \in FactRange[fact]
<1>1. fact \in DOMAIN FactRange
  BY FactLists
<1>2. fact \in {"path", "before", "after", "head", "ref", "source", "url"}
  BY <1>1 DEF FactRange
<1>3. CASE fact = "path"
  BY <1>1, <1>3 DEF Mappable, FactRange
<1>4. CASE fact = "url"
  BY <1>1, <1>4 DEF Mappable, FactRange
<1>5. CASE fact = "before"
  <2>1. Observed(fact, o) = DigestAt(Place)
    BY <1>5 DEF Observed
  <2>2. DigestAt(Place) \in Bodies \cup {Missing}
    BY DigestTypes DEF Place, Places
  <2> QED
    BY <1>1, <1>5, <2>1, <2>2 DEF FactRange
<1>6. CASE fact = "after"
  <2>1. Observed(fact, o) = o.body
    BY <1>6 DEF Observed
  <2>2. o.kind = "edit"
    <3>1. \A k \in {"push", "merge", "tests"} : o.kind = k => FactsOf(o) \in {<<"url", "source">>, <<"head", "ref", "source">>, <<>>}
      BY DEF FactsOf
    <3>2. \A l \in {<<"url", "source">>, <<"head", "ref", "source">>, <<>>} :
            \A i \in DOMAIN l : l[i] # "after"
      OBVIOUS
    <3> QED
      BY <1>6, <3>1, <3>2, OperationKinds
  <2> QED
    BY <1>1, <1>6, <2>1, <2>2, OperationKinds DEF FactRange
<1>7. CASE fact = "head"
  <2>1. Observed(fact, o) = at[head]
    BY <1>7 DEF Observed
  <2> QED
    BY <1>1, <1>7, <2>1 DEF FactRange, WorldTypes
<1>8. CASE fact = "ref"
  <2>1. Observed(fact, o) = head /\ head # NoBranch
    BY <1>8 DEF Observed, Mappable
  <2> QED
    BY <1>1, <1>8, <2>1 DEF FactRange, WorldTypes, Refs
<1>9. CASE fact = "source"
  <2>1. Observed(fact, o) = at[o.branch]
    BY <1>9 DEF Observed
  <2>2. o.kind \in {"push", "merge"}
    <3>1. \A k \in {"edit", "tests"} : o.kind = k => FactsOf(o) \in {<<"path", "before", "after">>, <<>>}
      BY DEF FactsOf
    <3>2. \A l \in {<<"path", "before", "after">>, <<>>} : \A i \in DOMAIN l : l[i] # "source"
      OBVIOUS
    <3> QED
      BY <1>9, <3>1, <3>2, OperationKinds
  <2>3. o.branch \in Refs
    BY <2>2, OperationKinds, BranchesAssumption DEF Refs
  <2> QED
    BY <1>1, <1>9, <2>1, <2>3 DEF FactRange, WorldTypes
<1> QED
  BY <1>2, <1>3, <1>4, <1>5, <1>6, <1>7, <1>8, <1>9

(***************************************************************************)
(* A round of reading that passes one more fact knows one more.            *)
(***************************************************************************)
LEMMA KnowsOneMore ==
    ASSUME NEW facts, NEW names, NEW fact, NEW value,
           Knows(facts, names), value \in FactRange[fact]
    PROVE  Knows([f \in DOMAIN facts \cup {fact} |-> IF f = fact THEN value ELSE facts[f]],
                 names \cup {fact})
BY DEF Knows

(***************************************************************************)
(* An admitted action knows what its effect is about to use.               *)
(***************************************************************************)
LEMMA AdmittedActions ==
    ASSUME TypeInv, NEW s \in Sessions, stage[s] \in Comparing
    PROVE  /\ op[s] \in Operations
           /\ op[s].kind = "edit" => admitted[s].after \in Bodies
           /\ op[s].kind = "push" => admitted[s].source \in Commits /\ admitted[s].url = "canonical"
           /\ op[s].kind = "merge" => admitted[s].source \in Commits
<1>1. PICK o \in Operations : o = op[s]
  BY DEF TypeInv, SessionTypes, AtWork, Comparing, Editing
<1>2. Knows(admitted[s], {FactsOf(o)[i] : i \in DOMAIN FactsOf(o)})
  <2>1. Knows(admitted[s], Passed(<<>>, FactsOf(o)))
    BY <1>1 DEF TypeInv, FactInv
  <2>2. Passed(<<>>, FactsOf(o)) = {FactsOf(o)[i] : i \in DOMAIN FactsOf(o)}
    BY FactLists, NothingRemains
  <2> QED
    BY <2>1, <2>2
<1>3. /\ FactRange["after"] = Bodies
      /\ FactRange["source"] = Commits
      /\ FactRange["url"] = {"canonical"}
  BY DEF FactRange
<1>4. \A f \in {FactsOf(o)[i] : i \in DOMAIN FactsOf(o)} : admitted[s][f] \in FactRange[f]
  BY <1>2 DEF Knows
<1>5. o.kind = "edit" => admitted[s].after \in Bodies
  BY <1>3, <1>4, FactLists
<1>6. o.kind = "push" => admitted[s].source \in Commits /\ admitted[s].url = "canonical"
  BY <1>3, <1>4, FactLists
<1>7. o.kind = "merge" => admitted[s].source \in Commits
  BY <1>3, <1>4, FactLists
<1> QED
  BY <1>1, <1>5, <1>6, <1>7

(***************************************************************************)
(* The types hold at the start.                                            *)
(***************************************************************************)
LEMMA TypeInit == Init => TypeInv
<1> SUFFICES ASSUME Init PROVE TypeInv
  OBVIOUS
<1>1. WorldTypes
  <2>1. at \in [Refs -> Commits] /\ head \in Refs
    BY DEF Init, Refs
  <2> QED
    BY <2>1 DEF Init, WorldTypes, Urls, Temps
<1>2. SessionTypes /\ LineInv /\ FactInv
  BY DEF Init, SessionTypes, LineInv, FactInv, Stages, AtWork, Comparing, Editing, Writing, Places
<1>3. TempInv
  BY DEF Init, TempInv, Editing, Writing, NoTemp
<1> QED
  BY <1>1, <1>2, <1>3 DEF TypeInv

(***************************************************************************)
(* What is about to be put in place has been written, all of it.           *)
(***************************************************************************)
LEMMA WholePut ==
    ASSUME TypeInv, NEW s \in Sessions, stage[s] = "replacing", temp[s].dir = Folder(s)
    PROVE  temp[s].body = "whole" /\ admitted[s].after \in Bodies /\ op[s].kind = "edit"
<1>1. op[s].kind = "edit" /\ temp[s].body \in {"none", "whole"}
  BY DEF TypeInv, TempInv, Editing, Writing
<1>2. temp[s].dir \in Places
  BY DEF Folder, Places
<1>3. temp[s] \in Temps
  BY DEF TypeInv, WorldTypes
<1>4. temp[s].body # "none"
  BY <1>2, <1>3 DEF Temps, Places, NoTemp
<1>5. admitted[s].after \in Bodies
  BY <1>1, AdmittedActions DEF Comparing, Writing
<1> QED
  BY <1>1, <1>4, <1>5

(***************************************************************************)
(* What the replacement leaves where the path leads.                       *)
(***************************************************************************)
LEMMA PutInPlace ==
    ASSUME WorldTypes, NEW put \in Bodies, NEW there \in Places,
           file' = IF there = "other" THEN [file EXCEPT !.other = put]
                   ELSE [file EXCEPT !.leads = "plain", !.own = put],
           there = "own" => file.leads # "folder"
    PROVE  /\ file' \in Files
           /\ file'.own = file.own \/ file'.own \in Bodies
           /\ there = "other" => file'.leads = file.leads /\ file'.own = file.own
<1>1. PICK f \in Files : f = file
  BY DEF WorldTypes
<1>2. CASE f \in [leads: {"plain"}, own: Bodies \cup {Missing, NoParent}, other: Bodies \cup {Missing}]
  BY <1>1, <1>2 DEF Files, Places
<1>3. CASE f \in [leads: {"link", "folder"}, own: {Missing}, other: Bodies \cup {Missing}]
  BY <1>1, <1>3 DEF Files, Places
<1> QED
  BY <1>1, <1>2, <1>3 DEF Files

(***************************************************************************)
(* A temporary file that is written on, or gone, is one still.             *)
(***************************************************************************)
LEMMA WrittenTypes ==
    ASSUME NEW t \in Temps
    PROVE  /\ Written(t) \in Temps
           /\ Written(t).body \in {"none", "whole"}
           /\ t # NoTemp => [t EXCEPT !.body = "kept"] \in Temps
           /\ [t EXCEPT !.body = "kept"].body \in {"none", "kept"} \/ t = NoTemp
<1>1. CASE t = NoTemp
  BY <1>1 DEF Written, NoTemp, Temps
<1>2. CASE t # NoTemp
  BY <1>2 DEF Written, NoTemp, Temps, Places
<1> QED
  BY <1>1, <1>2

(***************************************************************************)
(* No step of a session takes the world out of its types.                  *)
(***************************************************************************)
LEMMA SessionsKeepWorldTypes ==
    ASSUME TypeInv, NEW s \in Sessions, SessionStep(s)
    PROVE  WorldTypes'
<1> USE DEF TypeInv
<1>1. CASE UNCHANGED world
  BY <1>1 DEF WorldTypes, world, repo
<1>2. ASSUME NEW t \in Temps, Temp(s, t) PROVE WorldTypes'
  BY <1>2 DEF Temp, WorldTypes, repo
<1>3. CASE EditFile(s)
  <2>1. temp[s] \in Temps
    BY DEF WorldTypes
  <2>2. CASE CreateTemp(s)
    <3>1. [dir |-> Folder(s), body |-> "partial"] \in Temps
      BY DEF Temps, Folder, Places
    <3> QED
      BY <1>1, <1>2, <2>2, <3>1 DEF CreateTemp, NotActed
  <2>3. CASE WriteTemp(s)
    BY <1>1, <1>2, <2>1, <2>3, WrittenTypes DEF WriteTemp, NotActed
  <2>4. CASE Replace(s)
    <3>1. CASE /\ stage[s] = "replacing"
               /\ temp[s].dir = Folder(s)
               /\ \E put : /\ put = IF temp[s].body = "whole" THEN admitted[s].after ELSE Torn
                           /\ file' = IF Folder(s) = "other" THEN [file EXCEPT !.other = put]
                                      ELSE [file EXCEPT !.leads = "plain", !.own = put]
               /\ temp' = [temp EXCEPT ![s] = NoTemp]
               /\ UNCHANGED repo
      <4>1. PICK put \in Bodies :
                file' = IF Folder(s) = "other" THEN [file EXCEPT !.other = put]
                        ELSE [file EXCEPT !.leads = "plain", !.own = put]
        BY <3>1, WholePut
      <4>2. Folder(s) \in Places /\ (Folder(s) = "own" => file.leads # "folder")
        BY DEF Folder, Places
      <4>3. file' \in Files
        BY <4>1, <4>2, PutInPlace
      <4>4. temp' \in [Sessions -> Temps]
        BY <3>1 DEF WorldTypes, Temps
      <4> QED
        BY <3>1, <4>3, <4>4 DEF WorldTypes, repo
    <3> QED
      BY <1>1, <2>4, <3>1 DEF Replace, NotActed
  <2>5. CASE Undo(s)
    <3>1. NoTemp \in Temps
      BY DEF Temps
    <3> QED
      BY <1>2, <2>1, <2>5, <3>1, WrittenTypes DEF Undo
  <2>6. CASE Interrupt(s)
    BY <1>1, <2>6 DEF Interrupt, NotActed
  <2> QED
    BY <1>3, <2>2, <2>3, <2>4, <2>5, <2>6 DEF EditFile
<1>4. CASE MergeAccepted(s)
  <2>1. admitted[s].source \in Commits
    BY <1>4, AdmittedActions DEF MergeAccepted, Acting, Comparing
  <2>2. CASE UNCHANGED world
    BY <2>2, <1>1
  <2>3. CASE /\ at' = [at EXCEPT ![head] = admitted[s].source]
             /\ UNCHANGED <<file, temp, head, pruned, remote, url>>
    BY <2>1, <2>3 DEF WorldTypes
  <2> QED
    BY <1>4, <2>2, <2>3 DEF MergeAccepted, NotActed
<1>5. CASE PushFeature(s)
  <2>1. admitted[s].source \in Commits
    BY <1>5, AdmittedActions DEF PushFeature, Acting, Comparing
  <2>2. CASE UNCHANGED world
    BY <2>2, <1>1
  <2>3. CASE /\ remote' = [remote EXCEPT ![op[s].branch] = admitted[s].source]
             /\ UNCHANGED <<file, temp, at, head, pruned, url>>
    BY <2>1, <2>3 DEF WorldTypes
  <2> QED
    BY <1>5, <2>2, <2>3 DEF PushFeature, NotActed
<1>6. CASE RunTests(s)
  BY <1>6, <1>1 DEF RunTests, NotActed
<1>7. CASE \/ OpenSession(s)
           \/ \E o \in Operations : Submit(s, o)
           \/ ReadFact(s)
           \/ Prepared(s)
           \/ Committed(s)
           \/ Resolve(s)
           \/ Check(s)
  BY <1>7, <1>1 DEF OpenSession, Submit, ReadFact, Prepared, Committed, Resolve, Check
<1> QED
  BY <1>3, <1>4, <1>5, <1>6, <1>7 DEF SessionStep, Execute

(***************************************************************************)
(* Nor does the rest of the world.                                         *)
(***************************************************************************)
LEMMA WorldKeepsWorldTypes ==
    ASSUME TypeInv, WorldStep
    PROVE  WorldTypes'
<1> USE DEF TypeInv
<1>1. CASE SomebodyWrites
  <2>1. temp' \in [Sessions -> Temps]
    BY <1>1 DEF SomebodyWrites, WorldTypes, Temps
  <2> QED
    BY <1>1, <2>1 DEF SomebodyWrites, WorldTypes, repo
<1>2. CASE SomebodyMovesABranch
  BY <1>2 DEF SomebodyMovesABranch, WorldTypes
<1>3. CASE SomebodyChecksOut
  BY <1>3 DEF SomebodyChecksOut, WorldTypes
<1>4. CASE SomebodyPrunes
  BY <1>4 DEF SomebodyPrunes, WorldTypes
<1>5. CASE SomebodyPushes
  BY <1>5 DEF SomebodyPushes, WorldTypes
<1>6. CASE SomebodyEditsTheUrls
  BY <1>6 DEF SomebodyEditsTheUrls, WorldTypes
<1> QED
  BY <1>1, <1>2, <1>3, <1>4, <1>5, <1>6 DEF WorldStep

-----------------------------------------------------------------------------
(***************************************************************************)
(* The steps of an effect.                                                 *)
(***************************************************************************)

\* From which stage an effect takes its session to which.
Leads ==
    ({"checking"} \X ((Ends \ {"unmappable", "stale", "interrupted"}) \cup {"writing"}))
        \cup {<<"writing", "replacing">>, <<"writing", "undoing">>,
              <<"replacing", "succeeded">>, <<"replacing", "undoing">>, <<"undoing", "refused">>}
        \cup (Editing \X {"interrupted"})

(***************************************************************************)
(* An effect takes its session one stage on and touches nothing else of    *)
(* any session.                                                            *)
(***************************************************************************)
LEMMA EffectsMoveSessions ==
    ASSUME SessionTypes, NEW s \in Sessions, Execute(s)
    PROVE  /\ \E to : <<stage[s], to>> \in Leads /\ stage' = [stage EXCEPT ![s] = to]
           /\ stage[s] = "checking" => left[s] = <<>>
           /\ stage[s] = "checking" /\ stage'[s] = "writing" => op[s].kind = "edit"
           /\ \/ UNCHANGED raced
              \/ \E facts : raced' = raced \cup {t \in Sessions \ {s} : Compared(t) \cap facts # {}}
           /\ UNCHANGED <<op, left, seen, admitted, target>>
<1> USE DEF Moves, Editing, Writing, Ends
<1>1. UNCHANGED <<op, left, seen, admitted, target>>
  BY DEF Execute
<1>2. ASSUME NEW to, <<stage[s], to>> \in Leads, Moves(s, to),
             stage[s] = "checking" => left[s] = <<>>,
             stage[s] = "checking" /\ to = "writing" => op[s].kind = "edit",
             \/ UNCHANGED raced
             \/ \E facts : Disturbs(facts, {s})
      PROVE  /\ \E end : <<stage[s], end>> \in Leads /\ stage' = [stage EXCEPT ![s] = end]
             /\ stage[s] = "checking" => left[s] = <<>>
             /\ stage[s] = "checking" /\ stage'[s] = "writing" => op[s].kind = "edit"
             /\ \/ UNCHANGED raced
                \/ \E facts : raced' = raced \cup {t \in Sessions \ {s} : Compared(t) \cap facts # {}}
  <2>1. stage'[s] = to
    BY <1>2 DEF SessionTypes
  <2>2. \/ UNCHANGED raced
        \/ \E facts : raced' = raced \cup {t \in Sessions \ {s} : Compared(t) \cap facts # {}}
    BY <1>2, Zenon DEF Disturbs
  <2>3. \E end : <<stage[s], end>> \in Leads /\ stage' = [stage EXCEPT ![s] = end]
    BY <1>2, Zenon
  <2> QED
    BY <1>2, <2>1, <2>2, <2>3
<1>3. ASSUME NEW kind, Acting(s, kind) PROVE stage[s] = "checking" /\ left[s] = <<>> /\ op[s].kind = kind
  BY <1>3 DEF Acting
<1>4. \A to \in {"refused", "failed", "succeeded", "uncertain", "writing"} : <<"checking", to>> \in Leads
  BY DEF Leads
<1>5. \A from \in {"writing", "replacing", "undoing"} : <<from, "interrupted">> \in Leads
  BY DEF Leads
<1>6. /\ <<"writing", "replacing">> \in Leads /\ <<"writing", "undoing">> \in Leads
      /\ <<"replacing", "succeeded">> \in Leads /\ <<"replacing", "undoing">> \in Leads
      /\ <<"undoing", "refused">> \in Leads
  BY DEF Leads
<1>7. CASE CreateTemp(s)
  <2>1. PICK to \in {"writing", "refused"} : Moves(s, to) /\ UNCHANGED raced
    BY <1>7 DEF CreateTemp, Temp, NotActed
  <2> QED
    BY <1>1, <1>2, <1>3, <1>4, <1>7, <2>1 DEF CreateTemp
<1>8. CASE WriteTemp(s)
  <2>1. PICK to \in {"replacing", "undoing"} : Moves(s, to) /\ UNCHANGED raced
    BY <1>8 DEF WriteTemp, Temp, NotActed
  <2> QED
    BY <1>1, <1>2, <1>6, <1>8, <2>1 DEF WriteTemp
<1>9. CASE Replace(s)
  <2>1. \/ Moves(s, "succeeded") /\ \E facts : Disturbs(facts, {s})
        \/ Moves(s, "undoing") /\ UNCHANGED raced
    BY <1>9, Zenon DEF Replace, NotActed
  <2> QED
    BY <1>1, <1>2, <1>6, <1>9, <2>1 DEF Replace
<1>10. CASE Undo(s)
  BY <1>1, <1>2, <1>6, <1>10 DEF Undo, Temp
<1>11. CASE Interrupt(s)
  BY <1>1, <1>2, <1>5, <1>11 DEF Interrupt, NotActed
<1>12. CASE MergeAccepted(s)
  <2>1. /\ \E to \in {"failed", "succeeded", "uncertain"} : Moves(s, to)
        /\ UNCHANGED raced \/ \E facts : Disturbs(facts, {s})
    <3>1. \E to \in {"failed", "succeeded", "uncertain"} : Moves(s, to)
      BY <1>12, Zenon DEF MergeAccepted, Exits
    <3>2. UNCHANGED raced \/ \E facts : Disturbs(facts, {s})
      BY <1>12, Zenon DEF MergeAccepted, NotActed
    <3> QED
      BY <3>1, <3>2
  <2> QED
    BY <1>1, <1>2, <1>3, <1>4, <1>12, <2>1 DEF MergeAccepted
<1>13. CASE PushFeature(s) \/ RunTests(s)
  <2>1. /\ \E to \in {"failed", "succeeded", "uncertain"} : Moves(s, to)
        /\ UNCHANGED raced
    <3>1. \E to \in {"failed", "succeeded", "uncertain"} : Moves(s, to)
      BY <1>13, Zenon DEF PushFeature, RunTests, Exits
    <3>2. UNCHANGED raced
      BY <1>13, Zenon DEF PushFeature, RunTests, NotActed
    <3> QED
      BY <3>1, <3>2
  <2>2. stage[s] = "checking" /\ left[s] = <<>>
    BY <1>13 DEF PushFeature, RunTests, Acting
  <2> QED
    BY <1>1, <1>2, <1>4, <2>1, <2>2
<1> QED
  BY <1>7, <1>8, <1>9, <1>10, <1>11, <1>12, <1>13 DEF Execute, EditFile

(***************************************************************************)
(* What a session has written of its temporary file.                       *)
(***************************************************************************)
LEMMA EffectsKeepTemps ==
    ASSUME TypeInv, NEW s \in Sessions, Execute(s)
    PROVE  TempInv'
<1> USE DEF TypeInv
<1>1. PICK to : <<stage[s], to>> \in Leads /\ stage' = [stage EXCEPT ![s] = to]
  BY EffectsMoveSessions
<1>2. stage'[s] = to /\ \A t \in Sessions \ {s} : stage'[t] = stage[t]
  BY <1>1 DEF SessionTypes
<1>3. UNCHANGED op
  BY DEF Execute
<1>4. to \in Editing => op[s].kind = "edit"
  <2>1. stage[s] \in Editing => op[s].kind = "edit"
    BY DEF TempInv
  <2>2. stage[s] = "checking" /\ to = "writing" => op[s].kind = "edit"
    BY <1>2, EffectsMoveSessions
  <2> QED
    BY <1>1, <2>1, <2>2 DEF Leads, Editing, Writing, Ends
<1>5. ASSUME to = "replacing" => temp'[s].body \in {"none", "whole"},
             to \notin Editing \cup {"interrupted"} => temp'[s].body \in {"none", "kept"},
             \A t \in Sessions \ {s} : temp'[t] = temp[t]
      PROVE  TempInv'
  BY <1>2, <1>3, <1>4, <1>5 DEF TempInv
<1>6. temp[s] \in Temps /\ DOMAIN temp = Sessions
  BY DEF WorldTypes
<1>7. ASSUME NEW x, Temp(s, x) PROVE temp'[s] = x /\ \A t \in Sessions \ {s} : temp'[t] = temp[t]
  BY <1>6, <1>7 DEF Temp
<1>8. ASSUME UNCHANGED temp, to # "replacing",
             to \in Editing \cup {"interrupted"} \/ stage[s] = "checking"
      PROVE  TempInv'
  BY <1>5, <1>8 DEF TempInv, Editing, Writing
<1>9. NoTemp.body = "none"
  BY DEF NoTemp
<1>10. CASE CreateTemp(s)
  <2>1. stage[s] = "checking" /\ (to = "writing" \/ (to = "refused" /\ UNCHANGED temp))
    BY <1>2, <1>10 DEF CreateTemp, Acting, Moves, NotActed, world, SessionTypes
  <2>2. \A t \in Sessions \ {s} : temp'[t] = temp[t]
    BY <1>6, <1>10 DEF CreateTemp, Temp, NotActed, world
  <2> QED
    BY <1>5, <1>8, <2>1, <2>2 DEF Editing, Writing
<1>11. CASE WriteTemp(s)
  <2>1. \/ to = "replacing" /\ Temp(s, Written(temp[s]))
        \/ to = "undoing" /\ UNCHANGED temp
    BY <1>2, <1>11 DEF WriteTemp, Moves, NotActed, world, SessionTypes
  <2> QED
    BY <1>5, <1>6, <1>7, <1>8, <2>1, WrittenTypes DEF Editing, Writing
<1>12. CASE Replace(s)
  <2>1. \/ to = "succeeded" /\ temp' = [temp EXCEPT ![s] = NoTemp]
        \/ to = "undoing" /\ UNCHANGED temp
    BY <1>2, <1>12 DEF Replace, Moves, NotActed, world, SessionTypes
  <2>2. CASE to = "succeeded" /\ temp' = [temp EXCEPT ![s] = NoTemp]
    <3>1. temp'[s] = NoTemp /\ \A t \in Sessions \ {s} : temp'[t] = temp[t]
      BY <1>6, <2>2
    <3> QED
      BY <1>5, <1>9, <2>2, <3>1 DEF Editing, Writing
  <2> QED
    BY <1>8, <2>1, <2>2 DEF Editing, Writing
<1>13. CASE Undo(s)
  <2>1. to = "refused"
    BY <1>2, <1>13 DEF Undo, Moves, SessionTypes
  <2>2. PICK x : Temp(s, x) /\ x.body \in {"none", "kept"}
    <3>1. CASE Temp(s, NoTemp)
      BY <1>9, <3>1
    <3>2. CASE temp[s] # NoTemp /\ Temp(s, [temp[s] EXCEPT !.body = "kept"])
      BY <1>6, <3>2, WrittenTypes
    <3> QED
      BY <1>13, <3>1, <3>2 DEF Undo
  <2> QED
    BY <1>5, <1>7, <2>1, <2>2
<1>14. CASE Interrupt(s)
  <2>1. to = "interrupted" /\ UNCHANGED temp
    BY <1>2, <1>14 DEF Interrupt, Moves, SessionTypes, NotActed, world
  <2> QED
    BY <1>8, <2>1
<1>15. CASE MergeAccepted(s) \/ PushFeature(s) \/ RunTests(s)
  <2>1. UNCHANGED temp
    BY <1>15 DEF MergeAccepted, PushFeature, RunTests, NotActed, world
  <2>2. stage[s] = "checking"
    BY <1>15 DEF MergeAccepted, PushFeature, RunTests, Acting
  <2>3. to # "replacing"
    BY <1>1, <2>2 DEF Leads, Ends, Editing, Writing
  <2> QED
    BY <1>8, <2>1, <2>2, <2>3
<1> QED
  BY <1>10, <1>11, <1>12, <1>13, <1>14, <1>15 DEF Execute, EditFile

(***************************************************************************)
(* What a session knows of its operation survives every step of a session. *)
(***************************************************************************)
LEMMA SessionsKeepSessionTypes ==
    ASSUME TypeInv, NEW s \in Sessions, SessionStep(s)
    PROVE  (SessionTypes /\ LineInv /\ FactInv)'
<1> USE DEF TypeInv, Comparing, Editing, Writing
<1>1. ASSUME NEW to \in Stages \ AtWork, stage' = [stage EXCEPT ![s] = to],
             to # "idle" \/ stage[s] = "closed", to # "closed",
             raced' \subseteq Sessions,
             UNCHANGED <<op, left, seen, admitted, target>>
      PROVE  (SessionTypes /\ LineInv /\ FactInv)'
  <2>1. SessionTypes'
    BY <1>1 DEF SessionTypes, Stages, AtWork
  <2>2. LineInv'
    BY <1>1 DEF LineInv, SessionTypes, AtWork
  <2>3. FactInv'
    BY <1>1 DEF FactInv, SessionTypes, AtWork
  <2> QED
    BY <2>1, <2>2, <2>3
<1>2. CASE OpenSession(s)
  <2>1. PICK to \in {"idle", "refused"} : stage' = [stage EXCEPT ![s] = to]
    BY <1>2 DEF OpenSession, Moves
  <2> QED
    BY <1>1, <1>2, <2>1 DEF OpenSession, Stages, AtWork, Ends, SessionTypes
<1>3. ASSUME NEW o \in Operations, Submit(s, o) PROVE (SessionTypes /\ LineInv /\ FactInv)'
  <2> USE <1>3 DEF Submit, Moves
  <2>1. SessionTypes'
    BY DEF SessionTypes, Stages, AtWork
  <2>2. RestOf(FactsOf(o), FactsOf(o)) /\ Passed(FactsOf(o), FactsOf(o)) = {}
    BY AllRemains, FactLists
  <2>3. LineInv'
    BY <2>2 DEF SessionTypes, LineInv
  <2>4. Knows(NoFacts, {})
    BY DEF Knows, NoFacts
  <2>5. FactInv'
    BY <2>2, <2>4 DEF SessionTypes, FactInv
  <2> QED
    BY <2>1, <2>3, <2>5
<1>4. CASE ReadFact(s)
  <2>1. PICK o \in Operations : o = op[s]
    BY <1>4 DEF ReadFact, SessionTypes, AtWork
  <2>2. PICK rest, fact, value : rest = left[s] /\ fact = Head(left[s]) /\ value = Observed(fact, op[s])
    OBVIOUS
  <2>3. CASE Mappable(fact, value)
    <3>1. /\ stage[s] \in {"reading", "rereading"}
          /\ rest # <<>>
          /\ seen' = [seen EXCEPT ![s] = [f \in DOMAIN seen[s] \cup {fact} |->
                                            IF f = fact THEN value ELSE seen[s][f]]]
          /\ left' = [left EXCEPT ![s] = Tail(rest)]
          /\ UNCHANGED <<stage, op, admitted, target, raced>>
      BY <1>4, <2>2, <2>3 DEF ReadFact, SessionTypes
    <3>2. RestOf(rest, FactsOf(o)) /\ Knows(seen[s], Passed(rest, FactsOf(o)))
      BY <2>1, <2>2, <3>1 DEF LineInv, FactInv
    <3>3. /\ RestOf(Tail(rest), FactsOf(o))
          /\ fact \in {FactsOf(o)[i] : i \in DOMAIN FactsOf(o)}
          /\ Passed(Tail(rest), FactsOf(o)) = Passed(rest, FactsOf(o)) \cup {fact}
      BY <2>2, <3>1, <3>2, HeadPasses, FactLists
    <3>4. value \in FactRange[fact]
      BY <2>1, <2>2, <2>3, <3>3, ReadsAreInRange
    <3>5. PICK known : known = seen[s]
      OBVIOUS
    <3>6. Knows([f \in DOMAIN known \cup {fact} |-> IF f = fact THEN value ELSE known[f]],
                Passed(Tail(rest), FactsOf(o)))
      BY <3>2, <3>3, <3>4, <3>5, KnowsOneMore
    <3>7. SessionTypes'
      BY <3>1 DEF SessionTypes
    <3>8. LineInv'
      BY <2>1, <3>1, <3>3 DEF LineInv, SessionTypes
    <3>9. seen'[s] = [f \in DOMAIN known \cup {fact} |-> IF f = fact THEN value ELSE known[f]]
          /\ \A t \in Sessions \ {s} : seen'[t] = seen[t] /\ left'[t] = left[t]
      BY <3>1, <3>5 DEF SessionTypes
    <3>10. FactInv'
      BY <2>1, <3>1, <3>6, <3>9 DEF FactInv, SessionTypes
    <3> QED
      BY <3>7, <3>8, <3>10
  <2>4. CASE ~Mappable(fact, value)
    <3>1. stage' = [stage EXCEPT ![s] = "unmappable"] /\ UNCHANGED <<op, left, seen, admitted, target, raced>>
      BY <1>4, <2>2, <2>4 DEF ReadFact, Moves
    <3> QED
      BY <1>1, <3>1 DEF SessionTypes, Stages, AtWork, Ends
  <2> QED
    BY <2>3, <2>4
<1>5. CASE Prepared(s)
  <2> USE <1>5 DEF Prepared, Moves
  <2>1. SessionTypes'
    BY DEF SessionTypes, Stages, AtWork
  <2>2. PICK o \in Operations : o = op[s]
    BY DEF SessionTypes, AtWork
  <2>3. RestOf(FactsOf(o), FactsOf(o)) /\ Passed(FactsOf(o), FactsOf(o)) = {}
    BY AllRemains, FactLists
  <2>4. LineInv'
    BY <2>2, <2>3 DEF SessionTypes, LineInv
  <2>5. Knows(NoFacts, {})
    BY DEF Knows, NoFacts
  <2>6. Knows(seen[s], Passed(<<>>, FactsOf(o)))
    BY <2>2 DEF FactInv
  <2>7. stage'[s] = "rereading" /\ seen'[s] = NoFacts /\ admitted'[s] = seen[s]
    BY DEF SessionTypes
  <2>8. left'[s] = FactsOf(o) /\ op'[s] = o
    BY <2>2 DEF SessionTypes
  <2>9. \A t \in Sessions \ {s} : /\ stage'[t] = stage[t] /\ seen'[t] = seen[t] /\ op'[t] = op[t]
                                 /\ admitted'[t] = admitted[t] /\ left'[t] = left[t]
    BY DEF SessionTypes
  <2>10. FactInv'
    <3>1. /\ Knows(seen'[s], Passed(left'[s], FactsOf(op'[s])))
          /\ Knows(admitted'[s], Passed(<<>>, FactsOf(op'[s])))
      BY <2>3, <2>5, <2>6, <2>7, <2>8
    <3> QED
      BY <2>7, <2>9, <3>1, Zenon DEF FactInv
  <2> QED
    BY <2>1, <2>4, <2>10
<1>6. CASE Committed(s)
  <2> USE <1>6 DEF Committed
  <2>1. PICK to \in {"checking", "stale"} : stage' = [stage EXCEPT ![s] = to]
    BY DEF Moves
  <2>2. SessionTypes'
    BY <2>1 DEF SessionTypes, Stages, AtWork, Ends
  <2>3. PICK o \in Operations : o = op[s]
    BY DEF SessionTypes, AtWork
  <2>4. RestOf(ChecksOf(o), ChecksOf(o))
    BY AllRemains, CheckLists
  <2>5. LineInv'
    BY <2>1, <2>3, <2>4 DEF SessionTypes, LineInv
  <2>6. FactInv'
    BY <2>1 DEF SessionTypes, FactInv
  <2> QED
    BY <2>2, <2>5, <2>6
<1>7. CASE Resolve(s) \/ Check(s)
  <2>1. PICK o \in Operations : o = op[s]
    BY <1>7 DEF Resolve, Check, SessionTypes, AtWork
  <2>2. /\ stage[s] = "checking" /\ left[s] # <<>>
        /\ UNCHANGED <<op, seen, admitted, raced>>
    BY <1>7 DEF Resolve, Check
  <2>3. CASE left' = [left EXCEPT ![s] = Tail(@)] /\ UNCHANGED stage
    <3>1. target' \in [Sessions -> Places]
      BY <1>7 DEF Resolve, Check, SessionTypes, Place, Places
    <3>2. SessionTypes'
      BY <2>2, <2>3, <3>1 DEF SessionTypes
    <3>3. RestOf(left[s], ChecksOf(o)) /\ left[s] # <<>>
      BY <2>1, <2>2 DEF LineInv
    <3>4. RestOf(Tail(left[s]), ChecksOf(o))
      <4>1. PICK rest : rest = left[s]
        OBVIOUS
      <4> QED
        BY <3>3, <4>1, HeadPasses, CheckLists
    <3>5. LineInv'
      BY <2>1, <2>2, <2>3, <3>4 DEF LineInv, SessionTypes
    <3>6. FactInv'
      BY <2>2, <2>3 DEF FactInv, SessionTypes
    <3> QED
      BY <3>2, <3>5, <3>6
  <2>4. CASE stage' = [stage EXCEPT ![s] = "refused"] /\ UNCHANGED <<left, target>>
    BY <1>1, <2>2, <2>4 DEF SessionTypes, Stages, AtWork, Ends
  <2> QED
    BY <1>7, <2>3, <2>4 DEF Resolve, Check, Moves
<1>8. CASE Execute(s)
  <2>1. PICK to : <<stage[s], to>> \in Leads /\ stage' = [stage EXCEPT ![s] = to]
    BY <1>8, EffectsMoveSessions
  <2>2. raced' \subseteq Sessions
    BY <1>8, EffectsMoveSessions DEF SessionTypes
  <2>3. UNCHANGED <<op, left, seen, admitted, target>>
    BY <1>8 DEF Execute
  <2>4. CASE to \in Ends
    BY <1>1, <2>1, <2>2, <2>3, <2>4 DEF Stages, AtWork, Ends
  <2>5. CASE to \notin Ends
    <3>1. /\ stage[s] \in {"checking", "writing", "replacing"}
          /\ to \in {"writing", "replacing", "undoing"}
      BY <2>1, <2>5 DEF Leads, Ends
    <3>2. to \in Writing => left[s] = <<>>
      <4>1. stage[s] = "checking" => left[s] = <<>>
        BY <1>8, EffectsMoveSessions
      <4> QED
        BY <3>1, <4>1 DEF LineInv
    <3>3. SessionTypes'
      BY <2>1, <2>2, <2>3, <3>1 DEF SessionTypes, Stages, AtWork
    <3>4. LineInv'
      BY <2>1, <2>3, <3>1, <3>2 DEF LineInv, SessionTypes
    <3>5. FactInv'
      BY <2>1, <2>3, <3>1 DEF FactInv, SessionTypes
    <3> QED
      BY <3>3, <3>4, <3>5
  <2> QED
    BY <2>4, <2>5
<1> QED
  BY <1>2, <1>3, <1>4, <1>5, <1>6, <1>7, <1>8 DEF SessionStep

(***************************************************************************)
(* Steps of the world only mark sessions as raced.                         *)
(***************************************************************************)
LEMMA WorldKeepsSessionTypes ==
    ASSUME TypeInv, WorldStep
    PROVE  (SessionTypes /\ LineInv /\ FactInv)'
<1>1. UNCHANGED mine
  BY DEF WorldStep, Interferes
<1>2. raced' \subseteq Sessions
  BY DEF TypeInv, SessionTypes, WorldStep, SomebodyWrites, SomebodyMovesABranch, SomebodyChecksOut,
         SomebodyPrunes, SomebodyPushes, SomebodyEditsTheUrls, Disturbs
<1>3. SessionTypes'
  BY <1>1, <1>2 DEF TypeInv, SessionTypes, mine
<1>4. LineInv'
  BY <1>1 DEF TypeInv, LineInv, mine
<1>5. FactInv'
  BY <1>1 DEF TypeInv, FactInv, mine
<1> QED
  BY <1>3, <1>4, <1>5

(***************************************************************************)
(* Nobody but a session that writes touches its temporary file, except     *)
(* that it may vanish.                                                     *)
(***************************************************************************)
LEMMA TempsKept ==
    ASSUME TypeInv, [Next]_vars
    PROVE  TempInv'
<1> USE DEF TypeInv
<1>1. ASSUME UNCHANGED <<stage, op>>, \A t \in Sessions : temp'[t] \in {temp[t], NoTemp}
      PROVE  TempInv'
  BY <1>1 DEF TempInv, NoTemp
<1>2. CASE WorldStep
  <2>1. UNCHANGED <<stage, op>>
    BY <1>2 DEF WorldStep, Interferes, mine
  <2>2. CASE SomebodyWrites
    <3>1. \A t \in Sessions : temp'[t] \in {temp[t], NoTemp}
      BY <2>2 DEF SomebodyWrites
    <3> QED
      BY <1>1, <2>1, <3>1
  <2>3. CASE ~SomebodyWrites
    <3>1. UNCHANGED temp
      BY <1>2, <2>3 DEF WorldStep, SomebodyMovesABranch, SomebodyChecksOut, SomebodyPrunes,
         SomebodyPushes, SomebodyEditsTheUrls
    <3> QED
      BY <1>1, <2>1, <3>1
  <2> QED
    BY <2>2, <2>3
<1>3. ASSUME NEW s \in Sessions, NEW to \in Stages, stage' = [stage EXCEPT ![s] = to],
             stage[s] \in {"closed", "idle", "reading", "rereading", "checking"},
             to \notin Editing \cup {"interrupted"},
             UNCHANGED temp,
             \A t \in Sessions \ {s} : op'[t] = op[t]
      PROVE  TempInv'
  BY <1>3 DEF TempInv, SessionTypes, Editing, Writing
<1>4. ASSUME NEW s \in Sessions, SessionStep(s) PROVE TempInv'
  <2> USE DEF Stages, Ends, Editing, Writing, Moves, SessionTypes
  <2>1. CASE OpenSession(s)
    <3>1. PICK to \in {"idle", "refused"} : stage' = [stage EXCEPT ![s] = to]
      BY <2>1 DEF OpenSession
    <3> QED
      BY <1>3, <2>1, <3>1 DEF OpenSession, world
  <2>2. ASSUME NEW o \in Operations, Submit(s, o) PROVE TempInv'
    BY <1>3, <2>2 DEF Submit, world
  <2>3. CASE ReadFact(s)
    <3>1. PICK to : to \in {stage[s], "unmappable"} /\ stage' = [stage EXCEPT ![s] = to]
      BY <2>3 DEF ReadFact
    <3>2. UNCHANGED <<temp, op>> /\ stage[s] \in {"reading", "rereading"}
      BY <2>3 DEF ReadFact, world
    <3> QED
      BY <1>3, <3>1, <3>2
  <2>4. CASE Prepared(s)
    BY <1>3, <2>4 DEF Prepared, world
  <2>5. CASE Committed(s)
    <3>1. PICK to \in {"checking", "stale"} : stage' = [stage EXCEPT ![s] = to]
      BY <2>5 DEF Committed
    <3> QED
      BY <1>3, <2>5, <3>1 DEF Committed, world
  <2>6. CASE Resolve(s) \/ Check(s)
    <3>1. PICK to : to \in {stage[s], "refused"} /\ stage' = [stage EXCEPT ![s] = to]
      BY <2>6 DEF Resolve, Check
    <3>2. UNCHANGED <<temp, op>> /\ stage[s] = "checking"
      BY <2>6 DEF Resolve, Check, world
    <3> QED
      BY <1>3, <3>1, <3>2
  <2>7. CASE Execute(s)
    BY <2>7, EffectsKeepTemps
  <2> QED
    BY <1>4, <2>1, <2>2, <2>3, <2>4, <2>5, <2>6, <2>7 DEF SessionStep
<1>5. CASE UNCHANGED vars
  BY <1>1, <1>5 DEF vars, world, mine
<1> QED
  BY <1>2, <1>4, <1>5 DEF Next

(***************************************************************************)
(* The types hold in every step.                                           *)
(***************************************************************************)
LEMMA TypeStep == TypeInv /\ [Next]_vars => TypeInv'
<1> SUFFICES ASSUME TypeInv, [Next]_vars PROVE TypeInv'
  OBVIOUS
<1>1. CASE WorldStep
  BY <1>1, WorldKeepsWorldTypes, WorldKeepsSessionTypes, TempsKept DEF TypeInv
<1>2. ASSUME NEW s \in Sessions, SessionStep(s) PROVE TypeInv'
  BY <1>2, SessionsKeepWorldTypes, SessionsKeepSessionTypes, TempsKept DEF TypeInv
<1>3. CASE UNCHANGED vars
  BY <1>3 DEF TypeInv, WorldTypes, SessionTypes, LineInv, FactInv, TempInv, vars, world, repo, mine
<1> QED
  BY <1>1, <1>2, <1>3 DEF Next

-----------------------------------------------------------------------------
(***************************************************************************)
(* What a session has compared.                                            *)
(***************************************************************************)
CheckNames == {"path", "link", "before", "parent", "head", "ref", "object"}

(***************************************************************************)
(* What was compared, in the words of the model, and whose it is.          *)
(***************************************************************************)
LEMMA ComparedIsPassed ==
    ASSUME TypeInv, NEW s \in Sessions, stage[s] \in Comparing
    PROVE  Compared(s) = Passed(left[s], ChecksOf(op[s])) /\ Compared(s) \subseteq CheckNames
<1>1. Compared(s) = Passed(left[s], ChecksOf(op[s]))
  BY DEF Compared, Passed, Comparing
<1>2. PICK o \in Operations : o = op[s]
  BY DEF TypeInv, SessionTypes, AtWork, Comparing, Editing
<1>3. PICK rest : rest = left[s]
  OBVIOUS
<1>4. Len(rest) \in Nat /\ Len(ChecksOf(o)) \in Nat /\ DOMAIN ChecksOf(o) = 1 .. Len(ChecksOf(o))
  BY <1>2, <1>3, CheckLists, LenProperties DEF TypeInv, LineInv, RestOf
<1>5. \A i \in 1 .. (Len(ChecksOf(o)) - Len(rest)) : i \in DOMAIN ChecksOf(o)
  BY <1>4
<1>6. Passed(rest, ChecksOf(o)) \subseteq {ChecksOf(o)[i] : i \in DOMAIN ChecksOf(o)}
  BY <1>5 DEF Passed
<1> QED
  BY <1>1, <1>2, <1>3, <1>6, CheckLists DEF CheckNames

\* What it means that a comparison holds.
HoldsMeans(t) ==
    /\ Holds("path", t) <=> target[t] = Place
    /\ Holds("link", t) <=> file.leads # "link"
    /\ Holds("before", t) <=> DigestAt(Reached(t)) = admitted[t].before
    /\ Holds("parent", t) <=> (Folder(t) = "own" => file.own # NoParent)
    /\ Holds("head", t) <=> at[head] = admitted[t]["head"]
    /\ Holds("ref", t) <=> head = admitted[t]["ref"]
    /\ Holds("object", t) <=> admitted[t].source \notin pruned

(***************************************************************************)
(* That is what it means, before a step and after it.                      *)
(***************************************************************************)
LEMMA WhatHolds ==
    ASSUME NEW t
    PROVE  HoldsMeans(t) /\ HoldsMeans(t)'
<1>1. HoldsMeans(t)
  BY DEF HoldsMeans, Holds, Observed
<1>2. HoldsMeans(t)'
  BY DEF HoldsMeans, Holds, Observed
<1> QED
  BY <1>1, <1>2

(***************************************************************************)
(* A step that changes only these facts of the world leaves every other    *)
(* comparison as it was.                                                   *)
(***************************************************************************)
LEMMA OthersStillHold ==
    ASSUME NEW t, NEW facts, admitted'[t] = admitted[t], target'[t] = target[t],
           {"path", "link", "before"} \subseteq facts \/ file' = file,
           "parent" \notin facts /\ Holds("parent", t) => Holds("parent", t)',
           "head" \notin facts => at'[head'] = at[head],
           "ref" \notin facts => head' = head,
           "object" \notin facts => pruned' = pruned
    PROVE  \A fact \in CheckNames \ facts : Holds(fact, t) => Holds(fact, t)'
<1>1. HoldsMeans(t) /\ HoldsMeans(t)'
  BY WhatHolds
<1>2. ASSUME file' = file
      PROVE  /\ Holds("path", t) => Holds("path", t)'
             /\ Holds("link", t) => Holds("link", t)'
             /\ Holds("before", t) => Holds("before", t)'
  <2>1. Place' = Place /\ Reached(t)' = Reached(t)
    BY <1>2 DEF Place, Reached
  <2>2. DigestAt(Reached(t))' = DigestAt(Reached(t))
    BY <1>2, <2>1, Zenon DEF DigestAt
  <2>3. (Holds("path", t) => Holds("path", t)') /\ (Holds("link", t) => Holds("link", t)')
    BY <1>1, <1>2, <2>1 DEF HoldsMeans
  <2>4. Holds("before", t) => Holds("before", t)'
    BY <1>1, <2>2 DEF HoldsMeans
  <2> QED
    BY <2>3, <2>4
<1>3. "head" \notin facts /\ Holds("head", t) => Holds("head", t)'
  BY <1>1 DEF HoldsMeans
<1>4. "ref" \notin facts /\ Holds("ref", t) => Holds("ref", t)'
  BY <1>1 DEF HoldsMeans
<1>5. "object" \notin facts /\ Holds("object", t) => Holds("object", t)'
  BY <1>1 DEF HoldsMeans
<1> QED
  BY <1>2, <1>3, <1>4, <1>5, Zenon DEF CheckNames

(***************************************************************************)
(* Where the path leads and what lies there stays, the directory is there. *)
(***************************************************************************)
LEMMA ParentKept ==
    ASSUME NEW t, file' = file, target'[t] = target[t], Holds("parent", t)
    PROVE  Holds("parent", t)'
<1>1. HoldsMeans(t) /\ HoldsMeans(t)'
  BY WhatHolds
<1> QED
  BY <1>1 DEF HoldsMeans, Folder

(***************************************************************************)
(* A step that marks as raced whoever had compared what it disturbs keeps  *)
(* the promise that what others compared still holds.                      *)
(***************************************************************************)
LEMMA DisturbedOrHolding ==
    ASSUME TypeInv, CompareInv, NEW facts, NEW by,
           Disturbs(facts, by),
           \A t \in Sessions : stage'[t] \in Comparing =>
               t \notin by /\ stage[t] \in Comparing /\ op'[t] = op[t] /\ left'[t] = left[t],
           \A t \in Sessions : \A fact \in CheckNames \ facts :
               t \notin by /\ Holds(fact, t) => Holds(fact, t)'
    PROVE  CompareInv'
<1> SUFFICES ASSUME NEW t \in Sessions, stage'[t] \in Comparing, t \notin raced',
                    NEW fact \in Passed(left'[t], ChecksOf(op'[t]))
             PROVE  Holds(fact, t)'
  BY DEF CompareInv
<1>1. t \notin by /\ stage[t] \in Comparing /\ fact \in Passed(left[t], ChecksOf(op[t]))
  OBVIOUS
<1>2. t \notin raced /\ Compared(t) \cap facts = {}
  BY <1>1 DEF Disturbs
<1>3. fact \in Compared(t) /\ fact \in CheckNames
  BY <1>1, ComparedIsPassed
<1>4. Holds(fact, t)
  BY <1>1, <1>2 DEF CompareInv
<1> QED
  BY <1>1, <1>2, <1>3, <1>4

(***************************************************************************)
(* Nothing has been compared at the start, and nobody has had an effect.   *)
(***************************************************************************)
LEMMA CompareInit == Init => CompareInv /\ EffectInv /\ DoneInv
<1> SUFFICES ASSUME Init PROVE CompareInv /\ EffectInv /\ DoneInv
  OBVIOUS
<1>1. \A s \in Sessions : stage[s] = "closed"
  BY DEF Init
<1>2. effects = {}
  BY DEF Init
<1> QED
  BY <1>1, <1>2 DEF CompareInv, EffectInv, DoneInv, Comparing, Writing

(***************************************************************************)
(* Whatever the world does, it marks those it does it to.                  *)
(***************************************************************************)
LEMMA WorldKeepsCompared ==
    ASSUME TypeInv, CompareInv, WorldStep
    PROVE  CompareInv'
<1>1. UNCHANGED mine
  BY DEF WorldStep, Interferes
<1>2. UNCHANGED <<stage, op, left, admitted, target>>
  BY <1>1 DEF mine
<1>3. \A t \in Sessions : stage'[t] \in Comparing =>
          t \notin {} /\ stage[t] \in Comparing /\ op'[t] = op[t] /\ left'[t] = left[t]
  BY <1>2
<1>4. CASE SomebodyWrites
  <2>1. \A t \in Sessions : \A fact \in CheckNames \ {"path", "link", "before", "parent"} :
            Holds(fact, t) => Holds(fact, t)'
    BY <1>2, <1>4, OthersStillHold DEF SomebodyWrites, repo
  <2> QED
    BY <1>3, <1>4, <2>1, DisturbedOrHolding DEF SomebodyWrites
<1>5. CASE SomebodyMovesABranch
  <2>1. PICK b, c, facts :
            /\ b \in Refs /\ c \in Commits
            /\ at' = [at EXCEPT ![b] = c]
            /\ facts = IF b = head THEN {"head"} ELSE {}
            /\ Disturbs(facts, {})
            /\ UNCHANGED <<file, temp, head, pruned, remote, url>>
    BY <1>5 DEF SomebodyMovesABranch
  <2>2. "head" \notin facts => at'[head'] = at[head]
    BY <2>1 DEF TypeInv, WorldTypes
  <2>3. \A t \in Sessions : \A fact \in CheckNames \ facts : Holds(fact, t) => Holds(fact, t)'
    BY <1>2, <2>1, <2>2, OthersStillHold, ParentKept
  <2> QED
    BY <1>3, <2>1, <2>3, DisturbedOrHolding
<1>6. CASE SomebodyChecksOut
  <2>1. \A t \in Sessions : \A fact \in CheckNames \ {"head", "ref"} : Holds(fact, t) => Holds(fact, t)'
    BY <1>2, <1>6, OthersStillHold, ParentKept DEF SomebodyChecksOut
  <2> QED
    BY <1>3, <1>6, <2>1, DisturbedOrHolding DEF SomebodyChecksOut
<1>7. CASE SomebodyPrunes
  <2>1. \A t \in Sessions : \A fact \in CheckNames \ {"object"} : Holds(fact, t) => Holds(fact, t)'
    BY <1>2, <1>7, OthersStillHold, ParentKept DEF SomebodyPrunes
  <2> QED
    BY <1>3, <1>7, <2>1, DisturbedOrHolding DEF SomebodyPrunes
<1>8. CASE SomebodyPushes \/ SomebodyEditsTheUrls
  <2>1. UNCHANGED <<file, at, head, pruned, raced>>
    BY <1>8 DEF SomebodyPushes, SomebodyEditsTheUrls
  <2>2. \A t \in Sessions : \A fact \in CheckNames \ {} : Holds(fact, t) => Holds(fact, t)'
    BY <1>2, <2>1, OthersStillHold, ParentKept
  <2>3. Disturbs({}, {})
    BY <2>1 DEF Disturbs
  <2> QED
    BY <1>3, <2>2, <2>3, DisturbedOrHolding
<1> QED
  BY <1>4, <1>5, <1>6, <1>7, <1>8 DEF WorldStep

(***************************************************************************)
(* A replacement takes no directory away from anyone.                      *)
(***************************************************************************)
LEMMA ReplacementKeepsParents ==
    ASSUME TypeInv, NEW s \in Sessions, NEW put \in Bodies,
           file' = IF Folder(s) = "other" THEN [file EXCEPT !.other = put]
                   ELSE [file EXCEPT !.leads = "plain", !.own = put],
           NEW t, target'[t] = target[t], Holds("parent", t)
    PROVE  Holds("parent", t)'
<1>1. HoldsMeans(t) /\ HoldsMeans(t)'
  BY WhatHolds
<1>2. Folder(s) \in Places /\ (Folder(s) = "own" => file.leads # "folder")
  BY DEF Folder, Places
<1>3. /\ file'.own = file.own \/ file'.own \in Bodies
      /\ Folder(s) = "other" => file'.leads = file.leads /\ file'.own = file.own
  BY <1>2, PutInPlace DEF TypeInv
<1>4. CASE Folder(s) = "other"
  <2>1. file'.leads = file.leads /\ file'.own = file.own
    BY <1>3, <1>4
  <2> QED
    BY <1>1, <2>1 DEF HoldsMeans, Folder
<1>5. CASE Folder(s) = "own"
  <2>1. file'.own = put
    BY <1>5 DEF TypeInv, WorldTypes, Files
  <2>2. file'.own # NoParent
    BY <2>1, ContentsAssumption
  <2> QED
    BY <1>1, <2>2 DEF HoldsMeans
<1> QED
  BY <1>2, <1>4, <1>5 DEF Places

(***************************************************************************)
(* So does a session that has an effect.                                   *)
(***************************************************************************)
LEMMA EffectsKeepCompared ==
    ASSUME TypeInv, CompareInv, NEW s \in Sessions, Execute(s)
    PROVE  CompareInv'
<1>1. PICK to : <<stage[s], to>> \in Leads /\ stage' = [stage EXCEPT ![s] = to]
  BY EffectsMoveSessions DEF TypeInv
<1>2. UNCHANGED <<op, left, admitted, target>>
  BY DEF Execute
<1>3. stage'[s] = to /\ \A t \in Sessions \ {s} : stage'[t] = stage[t]
  BY <1>1 DEF TypeInv, SessionTypes
<1>4. to \in Comparing => stage[s] \in Comparing
  BY <1>1 DEF Leads, Ends, Comparing, Editing, Writing
<1>5. CASE UNCHANGED <<file, at, head, pruned, raced>>
  <2>1. \A t \in Sessions : \A fact \in CheckNames \ {} : t \notin {} /\ Holds(fact, t) => Holds(fact, t)'
    BY <1>2, <1>5, OthersStillHold, ParentKept
  <2>2. Disturbs({}, {})
    BY <1>5 DEF Disturbs
  <2>3. \A t \in Sessions : stage'[t] \in Comparing =>
            t \notin {} /\ stage[t] \in Comparing /\ op'[t] = op[t] /\ left'[t] = left[t]
    BY <1>2, <1>3, <1>4
  <2> QED
    BY <2>1, <2>2, <2>3, DisturbedOrHolding
<1>6. ASSUME to \notin Comparing
      PROVE  \A t \in Sessions : stage'[t] \in Comparing =>
                 t \notin {s} /\ stage[t] \in Comparing /\ op'[t] = op[t] /\ left'[t] = left[t]
  BY <1>2, <1>3, <1>6
<1>7. CASE Replace(s)
  <2>1. CASE /\ stage[s] = "replacing"
             /\ temp[s].dir = Folder(s)
             /\ Moves(s, "succeeded")
             /\ \E put : /\ put = IF temp[s].body = "whole" THEN admitted[s].after ELSE Torn
                         /\ file' = IF Folder(s) = "other" THEN [file EXCEPT !.other = put]
                                    ELSE [file EXCEPT !.leads = "plain", !.own = put]
             /\ Disturbs({"path", "link", "before"}, {s})
             /\ UNCHANGED repo
    <3>1. PICK put \in Bodies :
              file' = IF Folder(s) = "other" THEN [file EXCEPT !.other = put]
                      ELSE [file EXCEPT !.leads = "plain", !.own = put]
      BY <2>1, WholePut
    <3>2. \A t \in Sessions : Holds("parent", t) => Holds("parent", t)'
      BY <1>2, <3>1, ReplacementKeepsParents
    <3>3. \A t \in Sessions : \A fact \in CheckNames \ {"path", "link", "before"} :
              t \notin {s} /\ Holds(fact, t) => Holds(fact, t)'
      BY <1>2, <2>1, <3>2, OthersStillHold DEF repo
    <3>4. to \notin Comparing
      BY <1>3, <2>1 DEF Moves, Comparing, Writing, TypeInv, SessionTypes
    <3> QED
      BY <1>6, <2>1, <3>3, <3>4, DisturbedOrHolding
  <2> QED
    BY <1>5, <1>7, <2>1 DEF Replace, NotActed, world, repo
<1>8. CASE /\ Disturbs({"head"}, {s})
           /\ UNCHANGED <<file, head, pruned>>
           /\ to \notin Comparing
  <2>1. \A t \in Sessions : \A fact \in CheckNames \ {"head"} :
            t \notin {s} /\ Holds(fact, t) => Holds(fact, t)'
    BY <1>2, <1>8, OthersStillHold, ParentKept
  <2> QED
    BY <1>6, <1>8, <2>1, DisturbedOrHolding
<1>9. CASE EditFile(s)
  <2>1. CASE CreateTemp(s) \/ WriteTemp(s) \/ Undo(s) \/ Interrupt(s)
    <3>1. UNCHANGED <<file, at, head, pruned, raced>>
      BY <2>1 DEF CreateTemp, WriteTemp, Undo, Interrupt, Temp, NotActed, world, repo
    <3> QED
      BY <1>5, <3>1
  <2> QED
    BY <1>7, <1>9, <2>1 DEF EditFile
<1>10. CASE MergeAccepted(s)
  <2>1. \E end \in {"failed", "succeeded", "uncertain"} : Moves(s, end)
    BY <1>10, Zenon DEF MergeAccepted, Exits
  <2>2. to \notin Comparing
    BY <1>3, <2>1 DEF Moves, Comparing, Writing, TypeInv, SessionTypes
  <2> QED
    BY <1>5, <1>8, <1>10, <2>2 DEF MergeAccepted, NotActed, world, repo
<1>11. CASE PushFeature(s)
  BY <1>5, <1>11 DEF PushFeature, NotActed, world, repo
<1>12. CASE RunTests(s)
  BY <1>5, <1>12 DEF RunTests, NotActed, world, repo
<1> QED
  BY <1>9, <1>10, <1>11, <1>12 DEF Execute

(***************************************************************************)
(* Nothing is compared before the path has been resolved.                  *)
(***************************************************************************)
LEMMA PathComesFirst ==
    ASSUME NEW o \in Operations, NEW rest, RestOf(rest, ChecksOf(o)), rest # <<>>,
           Head(rest) = "path"
    PROVE  Passed(rest, ChecksOf(o)) = {}
<1>1. PICK m, n : m = Len(rest) /\ n = Len(ChecksOf(o))
  OBVIOUS
<1>2. rest \in Seq(Names) /\ m \in Nat \ {0} /\ n \in Nat /\ m <= n /\ Head(rest) = rest[1]
  BY <1>1, CheckLists, EmptySeq, LenProperties DEF RestOf
<1>3. ChecksOf(o)[n - m + 1] = "path"
  BY <1>1, <1>2 DEF RestOf
<1>4. \A i \in 1 .. n : ChecksOf(o)[i] = "path" => i = 1
  <2>1. CASE o.kind = "edit"
    BY <1>1, <2>1 DEF ChecksOf
  <2>2. CASE o.kind = "push"
    BY <1>1, <2>2 DEF ChecksOf
  <2>3. CASE o.kind = "merge"
    BY <1>1, <2>3 DEF ChecksOf
  <2>4. CASE o.kind = "tests"
    BY <1>1, <2>4 DEF ChecksOf
  <2> QED
    BY <2>1, <2>2, <2>3, <2>4, OperationKinds
<1>5. n - m = 0
  BY <1>2, <1>3, <1>4
<1> QED
  BY <1>1, <1>5 DEF Passed

(***************************************************************************)
(* A session that compares adds what it has just seen to hold.             *)
(***************************************************************************)
LEMMA SessionsKeepCompared ==
    ASSUME TypeInv, CompareInv, NEW s \in Sessions, SessionStep(s)
    PROVE  CompareInv'
<1> USE DEF Comparing, Writing
<1>1. CASE Execute(s)
  BY <1>1, EffectsKeepCompared
<1>2. ASSUME NEW to \in Stages \ Comparing, stage' = [stage EXCEPT ![s] = to],
             UNCHANGED <<world, raced>>,
             \A t \in Sessions \ {s} : /\ op'[t] = op[t] /\ left'[t] = left[t]
                                          /\ admitted'[t] = admitted[t] /\ target'[t] = target[t]
      PROVE  CompareInv'
  <2>1. \A t \in Sessions : stage'[t] \in Comparing =>
            t \notin {s} /\ stage[t] \in Comparing /\ op'[t] = op[t] /\ left'[t] = left[t]
    BY <1>2 DEF TypeInv, SessionTypes
  <2>2. \A t \in Sessions : \A fact \in CheckNames \ {} : t \notin {s} /\ Holds(fact, t) => Holds(fact, t)'
    BY <1>2, OthersStillHold, ParentKept DEF world, repo
  <2>3. Disturbs({}, {s})
    BY <1>2 DEF Disturbs
  <2> QED
    BY <2>1, <2>2, <2>3, DisturbedOrHolding
<1>3. CASE OpenSession(s)
  <2>1. PICK to \in {"idle", "refused"} : stage' = [stage EXCEPT ![s] = to]
    BY <1>3 DEF OpenSession, Moves
  <2> QED
    BY <1>2, <1>3, <2>1 DEF OpenSession, Stages, Ends
<1>4. ASSUME NEW o \in Operations, Submit(s, o) PROVE CompareInv'
  BY <1>2, <1>4 DEF Submit, Moves, Stages, TypeInv, SessionTypes
<1>5. CASE ReadFact(s)
  <2>1. PICK to \in Stages \ Comparing : stage' = [stage EXCEPT ![s] = to]
    <3>1. stage[s] \in {"reading", "rereading"} /\ stage = [stage EXCEPT ![s] = stage[s]]
      BY <1>5 DEF ReadFact, TypeInv, SessionTypes
    <3>2. stage' = stage \/ stage' = [stage EXCEPT ![s] = "unmappable"]
      BY <1>5 DEF ReadFact, Moves
    <3> QED
      BY <3>1, <3>2 DEF Stages, Ends
  <2>2. \A t \in Sessions \ {s} : /\ op'[t] = op[t] /\ left'[t] = left[t]
                                     /\ admitted'[t] = admitted[t] /\ target'[t] = target[t]
    BY <1>5 DEF ReadFact, TypeInv, SessionTypes
  <2> QED
    BY <1>2, <1>5, <2>1, <2>2 DEF ReadFact
<1>6. CASE Prepared(s)
  BY <1>2, <1>6 DEF Prepared, Moves, Stages, TypeInv, SessionTypes
<1>7. CASE Committed(s)
  <2>1. PICK o \in Operations : o = op[s]
    BY <1>7 DEF Committed, TypeInv, SessionTypes, AtWork
  <2>2. CASE stage' = [stage EXCEPT ![s] = "stale"]
    BY <1>2, <1>7, <2>2 DEF Committed, Stages, Ends, TypeInv, SessionTypes
  <2>3. CASE stage' = [stage EXCEPT ![s] = "checking"]
    <3>1. /\ left'[s] = ChecksOf(o) /\ op'[s] = o
          /\ \A t \in Sessions \ {s} : /\ stage'[t] = stage[t] /\ op'[t] = op[t]
                                       /\ left'[t] = left[t] /\ admitted'[t] = admitted[t]
                                       /\ target'[t] = target[t]
      BY <1>7, <2>1, <2>3 DEF Committed, TypeInv, SessionTypes
    <3>2. Passed(left'[s], ChecksOf(op'[s])) = {}
      BY <3>1, AllRemains, CheckLists
    <3>3. \A t \in Sessions \ {s} : \A fact \in CheckNames \ {} : Holds(fact, t) => Holds(fact, t)'
      BY <1>7, <3>1, OthersStillHold, ParentKept DEF Committed, world, repo
    <3>4. \A t \in Sessions \ {s} : stage[t] \in Comparing => Passed(left[t], ChecksOf(op[t])) \subseteq CheckNames
      BY ComparedIsPassed
    <3> QED
      BY <1>7, <3>1, <3>2, <3>3, <3>4 DEF Committed, CompareInv
  <2> QED
    BY <1>7, <2>2, <2>3 DEF Committed, Moves
<1>8. CASE Resolve(s) \/ Check(s)
  <2>1. PICK o \in Operations : o = op[s]
    BY <1>8 DEF Resolve, Check, TypeInv, SessionTypes, AtWork
  <2>2. /\ stage[s] = "checking" /\ left[s] # <<>>
        /\ UNCHANGED <<world, op, admitted, raced>>
    BY <1>8 DEF Resolve, Check
  <2>3. CASE stage' = [stage EXCEPT ![s] = "refused"] /\ UNCHANGED <<left, target>>
    BY <1>2, <2>2, <2>3 DEF Stages, Ends
  <2>4. CASE left' = [left EXCEPT ![s] = Tail(@)] /\ UNCHANGED stage
    <3>1. PICK rest, fact : rest = left[s] /\ fact = Head(rest)
      OBVIOUS
    <3>2. RestOf(rest, ChecksOf(o)) /\ rest # <<>>
      BY <2>1, <2>2, <3>1 DEF TypeInv, LineInv
    <3>3. /\ Passed(Tail(rest), ChecksOf(o)) = Passed(rest, ChecksOf(o)) \cup {fact}
          /\ fact \in CheckNames
      BY <3>1, <3>2, HeadPasses, CheckLists DEF CheckNames
    <3>4. left'[s] = Tail(rest) /\ \A t \in Sessions \ {s} : left'[t] = left[t]
      BY <2>4, <3>1 DEF TypeInv, SessionTypes
    <3>5. \A t \in Sessions \ {s} : target'[t] = target[t]
      BY <1>8 DEF Resolve, Check, TypeInv, SessionTypes
    <3>6. \A t \in Sessions : stage[t] \in Comparing => Passed(left[t], ChecksOf(op[t])) \subseteq CheckNames
      BY ComparedIsPassed
    <3>7. \A t \in Sessions \ {s} : \A f \in CheckNames \ {} : Holds(f, t) => Holds(f, t)'
      BY <2>2, <3>5, OthersStillHold, ParentKept DEF world, repo
    <3>8. CASE Resolve(s)
      <4>1. fact = "path" /\ target'[s] = Place
        BY <2>2, <2>4, <3>1, <3>8 DEF Resolve, Moves, TypeInv, SessionTypes
      <4>2. Passed(rest, ChecksOf(o)) = {}
        BY <2>1, <3>1, <3>2, <4>1, PathComesFirst
      <4>3. Holds("path", s)'
        <5>1. Place' = Place
          BY <2>2 DEF Place, world
        <5> QED
          BY <4>1, <5>1, WhatHolds DEF HoldsMeans
      <4>4. \A f \in Passed(left'[s], ChecksOf(op'[s])) : f = "path"
        BY <2>1, <2>2, <3>3, <3>4, <4>1, <4>2
      <4> QED
        BY <2>2, <2>4, <3>4, <3>6, <3>7, <4>3, <4>4 DEF CompareInv
    <3>9. CASE Check(s)
      <4>1. Holds(fact, s) /\ UNCHANGED target
        BY <2>2, <2>4, <3>1, <3>9 DEF Check, Moves, TypeInv, SessionTypes
      <4>2. \A f \in CheckNames \ {} : Holds(f, s) => Holds(f, s)'
        BY <2>2, <4>1, OthersStillHold, ParentKept DEF world, repo
      <4>3. SUFFICES ASSUME NEW t \in Sessions, stage[t] \in Comparing, t \notin raced,
                            NEW f \in Passed(left'[t], ChecksOf(op[t]))
                     PROVE  f \in CheckNames /\ Holds(f, t)
        BY <2>2, <2>4, <3>7, <4>2 DEF CompareInv
      <4>4. CASE t = s
        <5>1. f \in Passed(rest, ChecksOf(o)) \/ f = fact
          BY <2>1, <3>3, <3>4, <4>3, <4>4
        <5> QED
          BY <2>1, <3>1, <3>3, <3>6, <4>1, <4>3, <4>4, <5>1 DEF CompareInv
      <4>5. CASE t # s
        BY <3>4, <3>6, <4>3, <4>5 DEF CompareInv
      <4> QED
        BY <4>4, <4>5
    <3> QED
      BY <1>8, <3>8, <3>9
  <2> QED
    BY <1>8, <2>3, <2>4 DEF Resolve, Check, Moves
<1> QED
  BY <1>1, <1>3, <1>4, <1>5, <1>6, <1>7, <1>8 DEF SessionStep

-----------------------------------------------------------------------------
(***************************************************************************)
(* What the effects found.                                                 *)
(***************************************************************************)

(***************************************************************************)
(* A session that acts and is not raced finds what it had compared.        *)
(***************************************************************************)
LEMMA ActsOnWhatItCompared ==
    ASSUME TypeInv, CompareInv, NEW s \in Sessions, stage[s] \in Comparing, left[s] = <<>>,
           s \notin raced
    PROVE  /\ op[s].kind = "edit" => DigestAt(Reached(s)) = admitted[s]["before"]
           /\ op[s].kind = "merge" => at[head] = admitted[s]["head"] /\ head = admitted[s]["ref"]
<1>1. PICK o \in Operations : o = op[s]
  BY DEF TypeInv, SessionTypes, AtWork, Comparing, Editing
<1>2. \A fact \in {ChecksOf(o)[i] : i \in DOMAIN ChecksOf(o)} : Holds(fact, s)
  <2>1. Passed(<<>>, ChecksOf(o)) = {ChecksOf(o)[i] : i \in DOMAIN ChecksOf(o)}
    BY CheckLists, NothingRemains
  <2> QED
    BY <1>1, <2>1 DEF CompareInv
<1>3. o.kind = "edit" => Holds("before", s)
  BY <1>2, CheckLists
<1>4. o.kind = "merge" => Holds("head", s) /\ Holds("ref", s)
  BY <1>2, CheckLists
<1> QED
  BY <1>1, <1>3, <1>4, WhatHolds DEF HoldsMeans

(***************************************************************************)
(* An effect that was honest stays so while its session stays where it is. *)
(***************************************************************************)
LEMMA HonestStays ==
    ASSUME NEW e, Honest(e), stage'[e.by] = stage[e.by], op'[e.by] = op[e.by]
    PROVE  Honest(e)'
BY Zenon DEF Honest

(***************************************************************************)
(* Effects are only added, and a session that had one has ended for good.  *)
(***************************************************************************)
LEMMA EffectsStay ==
    ASSUME EffectInv, DoneInv, SessionTypes, NEW s \in Sessions, NEW to,
           stage[s] \notin Reporting,
           stage' = [stage EXCEPT ![s] = to],
           to = "succeeded" => op'[s].kind # "edit",
           \A t \in Sessions \ {s} : op'[t] = op[t],
           UNCHANGED effects
    PROVE  EffectInv' /\ DoneInv'
<1>1. stage'[s] = to /\ \A t \in Sessions \ {s} : stage'[t] = stage[t]
  BY DEF SessionTypes
<1>2. ASSUME NEW e \in effects PROVE Honest(e)'
  <2>1. Honest(e)
    BY DEF EffectInv
  <2>2. e.by \in Sessions \ {s}
    BY <2>1 DEF Honest
  <2> QED
    BY <1>1, <2>1, <2>2, HonestStays
<1>3. EffectInv'
  BY <1>2, Zenon DEF EffectInv
<1>4. DoneInv'
  <2> SUFFICES ASSUME NEW t \in Sessions, stage'[t] = "succeeded", op'[t].kind = "edit"
               PROVE  \E e \in effects' : e.by = t
    BY Zenon DEF DoneInv
  <2>1. t # s
    BY <1>1
  <2> QED
    BY <1>1, <2>1 DEF DoneInv
<1> QED
  BY <1>3, <1>4

(***************************************************************************)
(* One more effect, of a session that reports it and found what it was     *)
(* admitted for or is raced.                                               *)
(***************************************************************************)
LEMMA OneMoreEffect ==
    ASSUME EffectInv, DoneInv, SessionTypes, NEW s \in Sessions, NEW found, NEW put, NEW to,
           stage[s] \notin Reporting, Acted(s, found, put), UNCHANGED <<op, admitted>>,
           to \in Reporting, Moves(s, to),
           op[s].kind = "edit" => to = "succeeded" /\ put = admitted[s].after,
           s \in raced \/ \A fact \in DOMAIN found \ {"path"} : found[fact] = admitted[s][fact]
    PROVE  EffectInv' /\ DoneInv'
<1>1. PICK new : new = [by |-> s, kind |-> op[s].kind, found |-> found, put |-> put,
                        admitted |-> admitted[s], raced |-> s \in raced]
  OBVIOUS
<1>2. effects' = effects \cup {new}
  BY <1>1, Zenon DEF Acted
<1>3. stage'[s] = to /\ \A t \in Sessions \ {s} : stage'[t] = stage[t]
  BY DEF Moves, SessionTypes
<1>4. /\ new.by = s /\ new.kind = op[s].kind /\ new.found = found /\ new.put = put
      /\ new.admitted = admitted[s]
  BY <1>1, Zenon
<1>5. new.raced <=> s \in raced
  BY <1>1, Zenon
<1>6. new.raced \/ \A fact \in DOMAIN new.found \ {"path"} : new.found[fact] = new.admitted[fact]
  BY <1>4, <1>5, Zenon
<1>7. Honest(new)'
  <2>1. new.by \in Sessions /\ new.kind = op'[new.by].kind
    BY <1>4
  <2>2. stage'[new.by] \in Reporting
    BY <1>3, <1>4
  <2>3. new.kind = "edit" => stage'[new.by] = "succeeded" /\ new.put = new.admitted.after
    BY <1>3, <1>4
  <2> QED
    BY <1>6, <2>1, <2>2, <2>3, Zenon DEF Honest, Reporting
<1>8. ASSUME NEW e \in effects PROVE Honest(e)'
  <2>1. Honest(e)
    BY DEF EffectInv
  <2>2. e.by \in Sessions \ {s}
    BY <2>1 DEF Honest
  <2> QED
    BY <1>3, <2>1, <2>2, HonestStays
<1>9. EffectInv'
  BY <1>2, <1>7, <1>8, Zenon DEF EffectInv
<1>10. DoneInv'
  <2> SUFFICES ASSUME NEW t \in Sessions, stage'[t] = "succeeded", op'[t].kind = "edit"
               PROVE  \E e \in effects' : e.by = t
    BY Zenon DEF DoneInv
  <2>1. CASE t = s
    BY <1>2, <1>4, <2>1
  <2>2. CASE t # s
    BY <1>2, <1>3, <2>2 DEF DoneInv
  <2> QED
    BY <2>1, <2>2
<1> QED
  BY <1>9, <1>10

(***************************************************************************)
(* Every effect is reported, and hits what was admitted or is raced.       *)
(***************************************************************************)
LEMMA EffectsAreHonest ==
    ASSUME TypeInv, CompareInv, EffectInv, DoneInv, NEW s \in Sessions, Execute(s)
    PROVE  EffectInv' /\ DoneInv'
<1>1. SessionTypes /\ UNCHANGED <<op, admitted>>
  BY DEF TypeInv, Execute
<1>2. PICK to : <<stage[s], to>> \in Leads /\ stage' = [stage EXCEPT ![s] = to]
  BY <1>1, EffectsMoveSessions
<1>3. stage[s] \notin Reporting
  BY <1>2 DEF Leads, Reporting, Editing, Writing
<1>4. ASSUME UNCHANGED effects, to = "succeeded" => op[s].kind # "edit"
      PROVE  EffectInv' /\ DoneInv'
  BY <1>1, <1>2, <1>3, <1>4, EffectsStay
<1>5. \A end : Moves(s, end) => to = end
  BY <1>1, <1>2 DEF Moves, SessionTypes
<1>6. CASE CreateTemp(s) \/ WriteTemp(s) \/ Undo(s) \/ Interrupt(s)
  <2>1. UNCHANGED effects
    BY <1>6 DEF CreateTemp, WriteTemp, Undo, Interrupt, Temp, NotActed
  <2>2. to # "succeeded"
    BY <1>5, <1>6 DEF CreateTemp, WriteTemp, Undo, Interrupt
  <2> QED
    BY <1>4, <2>1, <2>2
<1>7. CASE Replace(s)
  <2>1. CASE Moves(s, "undoing") /\ NotActed
    BY <1>4, <1>5, <2>1 DEF NotActed
  <2>2. CASE /\ temp[s].dir = Folder(s)
             /\ Moves(s, "succeeded")
             /\ \E put : /\ put = IF temp[s].body = "whole" THEN admitted[s].after ELSE Torn
                         /\ Acted(s, [path |-> Folder(s), before |-> DigestAt(Reached(s))], put)
    <3>1. PICK put : /\ put = IF temp[s].body = "whole" THEN admitted[s].after ELSE Torn
                     /\ Acted(s, [path |-> Folder(s), before |-> DigestAt(Reached(s))], put)
      BY <2>2
    <3>2. stage[s] = "replacing"
      BY <1>7 DEF Replace
    <3>3. put = admitted[s].after /\ op[s].kind = "edit"
      BY <2>2, <3>1, <3>2, WholePut
    <3>4. PICK found : found = [path |-> Folder(s), before |-> DigestAt(Reached(s))]
      OBVIOUS
    <3>5. DOMAIN found \ {"path"} = {"before"} /\ found["before"] = DigestAt(Reached(s))
      BY <3>4
    <3>6. stage[s] \in Comparing /\ left[s] = <<>>
      BY <3>2 DEF Comparing, Writing, TypeInv, LineInv
    <3>7. s \in raced \/ \A fact \in DOMAIN found \ {"path"} : found[fact] = admitted[s][fact]
      BY <3>3, <3>5, <3>6, ActsOnWhatItCompared
    <3>8. Acted(s, found, put)
      BY <3>1, <3>4
    <3>9. "succeeded" \in Reporting
      BY DEF Reporting
    <3> QED
      BY <1>1, <1>3, <2>2, <3>3, <3>7, <3>8, <3>9, OneMoreEffect
  <2> QED
    BY <1>7, <2>1, <2>2 DEF Replace
<1>8. CASE MergeAccepted(s)
  <2>1. /\ op[s].kind = "merge" /\ stage[s] = "checking" /\ left[s] = <<>>
    BY <1>8 DEF MergeAccepted, Acting
  <2>2. CASE /\ Acted(s, [head |-> at[head], ref |-> head], admitted[s].source)
             /\ Exits(s, TRUE)
    <3>1. PICK found : found = [head |-> at[head], ref |-> head]
      OBVIOUS
    <3>2. DOMAIN found \ {"path"} = {"head", "ref"} /\ found["head"] = at[head] /\ found["ref"] = head
      BY <3>1
    <3>3. s \in raced \/ \A fact \in DOMAIN found \ {"path"} : found[fact] = admitted[s][fact]
      BY <2>1, <3>2, ActsOnWhatItCompared DEF Comparing
    <3>4. PICK end \in Reporting : Moves(s, end)
      BY <2>2 DEF Exits, Reporting
    <3>5. Acted(s, found, admitted[s].source)
      BY <2>2, <3>1
    <3> QED
      BY <1>1, <1>3, <2>1, <3>3, <3>4, <3>5, OneMoreEffect
  <2>3. CASE NotActed
    BY <1>4, <2>1, <2>3 DEF NotActed
  <2> QED
    BY <1>8, <2>2, <2>3, Zenon DEF MergeAccepted
<1>9. CASE PushFeature(s)
  <2>1. op[s].kind = "push"
    BY <1>9 DEF PushFeature, Acting
  <2>2. CASE /\ Acted(s, NoFacts, admitted[s].source)
             /\ Exits(s, TRUE) \/ Exits(s, FALSE)
    <3>1. \A fact \in DOMAIN NoFacts \ {"path"} : NoFacts[fact] = admitted[s][fact]
      BY DEF NoFacts
    <3>2. PICK end \in Reporting : Moves(s, end)
      BY <2>2 DEF Exits, Reporting
    <3> QED
      BY <1>1, <1>3, <2>1, <2>2, <3>1, <3>2, OneMoreEffect
  <2>3. CASE NotActed
    BY <1>4, <2>1, <2>3 DEF NotActed
  <2> QED
    BY <1>9, <2>2, <2>3, Zenon DEF PushFeature
<1>10. CASE RunTests(s)
  <2>1. op[s].kind = "tests"
    BY <1>10 DEF RunTests, Acting
  <2> QED
    BY <1>4, <1>10, <2>1 DEF RunTests, NotActed
<1> QED
  BY <1>6, <1>7, <1>8, <1>9, <1>10 DEF Execute, EditFile

(***************************************************************************)
(* No other step has an effect.                                            *)
(***************************************************************************)
LEMMA EffectStep ==
    ASSUME TypeInv, CompareInv, EffectInv, DoneInv, [Next]_vars
    PROVE  EffectInv' /\ DoneInv'
<1>1. SessionTypes
  BY DEF TypeInv
<1>2. ASSUME UNCHANGED <<stage, op, effects>> PROVE EffectInv' /\ DoneInv'
  <2>1. EffectInv'
    BY <1>2, HonestStays, Zenon DEF EffectInv
  <2>2. DoneInv'
    BY <1>2 DEF DoneInv
  <2> QED
    BY <2>1, <2>2
<1>3. ASSUME NEW s \in Sessions, NEW to, Moves(s, to), UNCHANGED effects, to # "succeeded",
             stage[s] \notin Reporting,
             \A t \in Sessions \ {s} : op'[t] = op[t]
      PROVE  EffectInv' /\ DoneInv'
  BY <1>1, <1>3, EffectsStay DEF Moves
<1>4. CASE WorldStep
  BY <1>2, <1>4 DEF WorldStep, Interferes, mine
<1>5. ASSUME NEW s \in Sessions, SessionStep(s) PROVE EffectInv' /\ DoneInv'
  <2>1. CASE Execute(s)
    BY <2>1, EffectsAreHonest
  <2>2. CASE OpenSession(s)
    BY <1>3, <2>2 DEF OpenSession, Reporting
  <2>3. ASSUME NEW o \in Operations, Submit(s, o) PROVE EffectInv' /\ DoneInv'
    <3>1. \A t \in Sessions \ {s} : op'[t] = op[t]
      BY <1>1, <2>3 DEF Submit, SessionTypes
    <3> QED
      BY <1>3, <2>3, <3>1 DEF Submit, Reporting
  <2>4. CASE ReadFact(s)
    BY <1>2, <1>3, <2>4 DEF ReadFact, Reporting
  <2>5. CASE Prepared(s)
    BY <1>3, <2>5 DEF Prepared, Reporting
  <2>6. CASE Committed(s)
    BY <1>3, <2>6 DEF Committed, Reporting
  <2>7. CASE Resolve(s) \/ Check(s)
    BY <1>2, <1>3, <2>7 DEF Resolve, Check, Reporting
  <2> QED
    BY <1>5, <2>1, <2>2, <2>3, <2>4, <2>5, <2>6, <2>7 DEF SessionStep
<1>6. CASE UNCHANGED vars
  BY <1>2, <1>6 DEF vars, mine
<1> QED
  BY <1>4, <1>5, <1>6 DEF Next

-----------------------------------------------------------------------------
(***************************************************************************)
(* The theorems.                                                           *)
(***************************************************************************)

(***************************************************************************)
(* The invariant of the executor holds in every reachable state.           *)
(***************************************************************************)
THEOREM Invariance == Spec => []IInv
<1>1. Init => IInv
  BY TypeInit, CompareInit DEF IInv
<1>2. IInv /\ [Next]_vars => IInv'
  <2> SUFFICES ASSUME IInv, [Next]_vars PROVE IInv'
    OBVIOUS
  <2>1. TypeInv'
    BY TypeStep DEF IInv
  <2>2. CompareInv'
    <3>1. CASE WorldStep
      BY <3>1, WorldKeepsCompared DEF IInv
    <3>2. ASSUME NEW s \in Sessions, SessionStep(s) PROVE CompareInv'
      BY <3>2, SessionsKeepCompared DEF IInv
    <3>3. CASE UNCHANGED vars
      <4>1. \A t \in Sessions : \A fact \in CheckNames \ {} : Holds(fact, t) => Holds(fact, t)'
        BY <3>3, OthersStillHold, ParentKept DEF vars, world, repo, mine
      <4>2. Disturbs({}, {})
        BY <3>3 DEF Disturbs, vars
      <4> QED
        BY <3>3, <4>1, <4>2, DisturbedOrHolding DEF IInv, vars, mine
    <3> QED
      BY <3>1, <3>2, <3>3 DEF Next
  <2>3. EffectInv' /\ DoneInv'
    BY EffectStep DEF IInv
  <2> QED
    BY <2>1, <2>2, <2>3 DEF IInv
<1> QED
  BY <1>1, <1>2, PTL DEF Spec

(***************************************************************************)
(* Every variable has its type, and an admitted action records exactly the *)
(* facts that normalization reads for it, each a value it can have.        *)
(***************************************************************************)
THEOREM TypeCorrect == Spec => []TypeOK
<1>1. IInv => TypeOK
  <2> SUFFICES ASSUME IInv PROVE TypeOK
    OBVIOUS
  <2>1. ASSUME NEW s \in Sessions, stage[s] \in {"rereading", "checking"}
        PROVE  /\ DOMAIN admitted[s] = {FactsOf(op[s])[i] : i \in DOMAIN FactsOf(op[s])}
               /\ \A f \in DOMAIN admitted[s] : admitted[s][f] \in Values
    <3>1. PICK o \in Operations : o = op[s]
      BY <2>1 DEF IInv, TypeInv, SessionTypes, AtWork
    <3>2. Knows(admitted[s], {FactsOf(o)[i] : i \in DOMAIN FactsOf(o)})
      <4>1. Passed(<<>>, FactsOf(o)) = {FactsOf(o)[i] : i \in DOMAIN FactsOf(o)}
        BY FactLists, NothingRemains
      <4> QED
        BY <2>1, <3>1, <4>1 DEF IInv, TypeInv, FactInv, Comparing
    <3>3. \A f \in DOMAIN FactRange : FactRange[f] \subseteq Values
      BY DEF FactRange, Values, Refs, Urls
    <3>4. DOMAIN admitted[s] \subseteq DOMAIN FactRange
      BY <3>2, FactLists DEF Knows
    <3> QED
      BY <3>1, <3>2, <3>3, <3>4 DEF Knows
  <2> QED
    BY <2>1 DEF IInv, TypeInv, WorldTypes, SessionTypes, TypeOK
<1> QED
  BY <1>1, Invariance, PTL

(***************************************************************************)
(* Every edit and every merge hits exactly the content, the branch and the *)
(* commit it was admitted for, or something changed after the executor had *)
(* compared it: what changed before, during normalization, evaluation or   *)
(* COMMIT, is never acted on.                                              *)
(***************************************************************************)
THEOREM AdmittedOrRacedAlways == Spec => []AdmittedOrRaced
<1>1. IInv => AdmittedOrRaced
  BY Zenon DEF IInv, EffectInv, Honest, AdmittedOrRaced
<1> QED
  BY <1>1, Invariance, PTL

(***************************************************************************)
(* Whichever step of an edit fails, a session that refuses has put nothing *)
(* in place and leaves at most a temporary file it could not remove.       *)
(***************************************************************************)
THEOREM RefusalsAreClean == Spec => []RefusalsChangeNothing
<1>1. IInv => RefusalsChangeNothing
  <2> SUFFICES ASSUME IInv, NEW s \in Sessions, stage[s] \in {"unmappable", "stale", "refused"}
               PROVE  /\ \A e \in effects : e.by # s
                      /\ temp[s].body \in {"none", "kept"}
    BY DEF RefusalsChangeNothing
  <2>1. \A e \in effects : e.by # s
    BY DEF IInv, EffectInv, Honest, Reporting
  <2>2. temp[s].body \in {"none", "kept"}
    BY DEF IInv, TypeInv, TempInv, Editing, Writing
  <2> QED
    BY <2>1, <2>2
<1> QED
  BY <1>1, Invariance, PTL

(***************************************************************************)
(* An edit is all or nothing: what is put in place is the whole admitted   *)
(* content, and exactly the sessions that report success have put it there.*)
(***************************************************************************)
THEOREM EditsAreWholeAlways == Spec => []EditsAreWhole
<1>1. IInv => EditsAreWhole
  <2> SUFFICES ASSUME IInv PROVE EditsAreWhole
    OBVIOUS
  <2>1. \A e \in effects : Honest(e)
    BY DEF IInv, EffectInv
  <2>2. \A e \in effects : e.kind = "edit" => e.put = e.admitted.after
    BY <2>1, Zenon DEF Honest
  <2>3. ASSUME NEW s \in Sessions, op[s].kind = "edit"
        PROVE  stage[s] = "succeeded" <=> \E e \in effects : e.by = s
    <3>1. ASSUME NEW e \in effects, e.by = s PROVE stage[s] = "succeeded"
      BY <2>1, <2>3, <3>1, Zenon DEF Honest
    <3>2. stage[s] = "succeeded" => \E e \in effects : e.by = s
      BY <2>3 DEF IInv, DoneInv
    <3> QED
      BY <3>1, <3>2
  <2> QED
    BY <2>2, <2>3 DEF EditsAreWhole
<1> QED
  BY <1>1, Invariance, PTL
=============================================================================
