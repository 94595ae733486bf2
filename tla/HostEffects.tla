----------------------------- MODULE HostEffects -----------------------------
(***************************************************************************)
(* permission_slip/host_executor.py with the part of actions.py that reads *)
(* the facts it relies on.  Several sessions work on one checkout that     *)
(* people, editors and other programs change at any moment.                *)
(*                                                                         *)
(* An operation is normalized (one read of the world per fact), evaluated, *)
(* normalized again before COMMIT, and then executed: the executor         *)
(* compares each admitted fact with the world, one after the other, and    *)
(* acts; an edit acts in several steps, each of which may fail.  Every     *)
(* read, every comparison and every step of an effect is an action of its  *)
(* own, so the world may change between any two of them.                   *)
(***************************************************************************)
EXTENDS Naturals, Sequences, FiniteSets

CONSTANTS
    Sessions,
    Kinds,      \* the operations that are submitted, of the four below
    Bodies,     \* contents of the one file that is edited
    Commits,
    Before,     \* Before[c]: the proper ancestors of commit c
    Branches,   \* local branches
    Features,   \* those inside feature/
    MaxMoves    \* bound: changes made by the rest of the world

ASSUME HistoryAssumption ==
    /\ Before \in [Commits -> SUBSET Commits]
    /\ \A c \in Commits : c \notin Before[c] /\ \A d \in Before[c] : Before[d] \subseteq Before[c]

ASSUME BranchesAssumption == Features \subseteq Branches /\ "detached" \notin Branches

ASSUME MovesAssumption == MaxMoves \in Nat

Missing  == "missing"       \* no file, but a directory to put it in
NoParent == "no_parent"     \* not even the directory
Torn     == "torn"          \* a part of what was to be written
NoCommit == "no_commit"

ASSUME ContentsAssumption == Missing \notin Bodies /\ NoParent \notin Bodies

NoBranch == "detached"
Refs     == Branches \cup {NoBranch}

\* One canonical push URL, or anything else: another repository, several URLs.
Urls == {"canonical", "unusable"}

\* The path that is edited may name a file of its own, be a link to another file of the
\* checkout, or lie in a directory that is a link to another directory of it.
Places == {"own", "other"}
Files  == [leads: {"plain"}, own: Bodies \cup {Missing, NoParent}, other: Bodies \cup {Missing}]
    \cup [leads: {"link", "folder"}, own: {Missing}, other: Bodies \cup {Missing}]

\* A temporary file: its directory, and how much of it has been written.  One that is
\* kept could not be removed.
NoTemp == [dir |-> "none", body |-> "none"]
Temps  == [dir: Places, body: {"partial", "whole", "kept"}] \cup {NoTemp}

Operations == {o \in [kind: {"edit"}, body: Bodies]
                \cup [kind: {"push"}, branch: Features]
                \cup [kind: {"merge"}, branch: Branches]
                \cup [kind: {"tests"}] : o.kind \in Kinds}

VARIABLES
    file,       \* the edited path: where it leads, and what lies there
    temp,       \* per session, its temporary file
    at,         \* the commit of each local branch; of a detached HEAD under NoBranch
    head,       \* the branch HEAD names
    pruned,     \* commits whose objects are gone
    remote,     \* the feature branches of the canonical repository
    url,        \* what the remote's push URLs resolve to
    stage,      \* per session
    op,         \* per session, the operation
    left,       \* per session, the reads or comparisons still to make
    seen,       \* per session, the facts read in this round
    admitted,   \* per session, the facts of the action the Gate admitted
    target,     \* per session, where the executor resolved the path to
    raced,      \* history: sessions for which something they had compared has changed
    effects,    \* history: what each effect found and what it had been admitted for
    moves

repo  == <<at, head, pruned, remote, url>>
world == <<file, temp, repo>>
mine  == <<stage, op, left, seen, admitted, target>>
vars  == <<world, mine, raced, effects, moves>>

NoFacts == [fact \in {} |-> NoCommit]
NoOp    == [kind |-> "none"]

Ends    == {"unmappable", "stale", "refused", "failed", "succeeded", "uncertain", "interrupted"}
Writing == {"writing", "replacing"}
Stages  == {"closed", "idle", "reading", "rereading", "checking", "undoing"} \cup Writing \cup Ends

Reaches(c) == Before[c] \cup {c}

Init ==
    /\ file \in {f \in Files : f.leads = "plain"}
    /\ temp = [s \in Sessions |-> NoTemp]
    /\ \E base, work \in Commits :
         /\ base \in Before[work]
         /\ at = [b \in Refs |-> IF b \in Features THEN work ELSE base]
    /\ head \in Branches
    /\ pruned = {}
    /\ \E there \in {NoCommit, at[head]} : remote = [b \in Features |-> there]
    /\ url = "canonical"
    /\ stage = [s \in Sessions |-> "closed"]
    /\ op = [s \in Sessions |-> NoOp]
    /\ left = [s \in Sessions |-> <<>>]
    /\ seen = [s \in Sessions |-> NoFacts]
    /\ admitted = [s \in Sessions |-> NoFacts]
    /\ target = [s \in Sessions |-> "own"]
    /\ raced = {}
    /\ effects = {}
    /\ moves = 0

-----------------------------------------------------------------------------
(***************************************************************************)
(* Facts.                                                                  *)
(***************************************************************************)

\* Where the path leads by now.  Every link on the way is followed.
Place == IF file.leads = "plain" THEN "own" ELSE "other"

\* A file that is not there has one digest of its own.
DigestAt(place) == IF file[place] = NoParent THEN Missing ELSE file[place]

\* What session s reaches by the path it has resolved: links that came later are followed.
Reached(s) == IF target[s] = "other" THEN "other" ELSE Place

\* The directory it puts a file in: the last link of the path is replaced, not followed.
Folder(s) == IF target[s] = "other" \/ file.leads = "folder" THEN "other" ELSE "own"

Observed(fact, o) ==
    CASE fact = "path"   -> Place
      [] fact = "before" -> DigestAt(Place)
      [] fact = "after"  -> o.body
      [] fact = "head"   -> at[head]
      [] fact = "ref"    -> head
      [] fact = "source" -> at[o.branch]
      [] fact = "url"    -> url

\* A push needs exactly one canonical URL, a merge a branch to merge into.  A path
\* is normalized to where it leads: through a link, the operation is about another file.
Mappable(fact, value) ==
    /\ fact = "path" => value = "own"
    /\ fact = "url" => value = "canonical"
    /\ fact = "ref" => value # NoBranch

\* What normalization reads, in the order of the code.
FactsOf(o) == CASE o.kind = "edit"  -> <<"path", "before", "after">>
                [] o.kind = "push"  -> <<"url", "source">>
                [] o.kind = "merge" -> <<"head", "ref", "source">>
                [] o.kind = "tests" -> <<>>

\* faulty: the executor trusts what was compared before COMMIT
NoRecheck(o) == CASE o.kind = "edit"  -> <<"path", "link", "parent">>
                  [] o.kind = "push"  -> <<"object">>
                  [] o.kind = "merge" -> <<"ref", "object">>
                  [] o.kind = "tests" -> <<>>

\* What the executor looks at before it acts, in the order of the code.
ChecksOf(o) == CASE o.kind = "edit"  -> <<"path", "link", "before", "parent">>
                 [] o.kind = "push"  -> <<"object">>
                 [] o.kind = "merge" -> <<"head", "ref", "object">>
                 [] o.kind = "tests" -> <<>>

Holds(fact, s) ==
    CASE fact = "path"   -> target[s] = Place
      [] fact = "link"   -> file.leads # "link"
      [] fact = "before" -> DigestAt(Reached(s)) = admitted[s].before
      [] fact = "parent" -> Folder(s) = "own" => file.own # NoParent
      [] fact = "object" -> admitted[s].source \notin pruned
      [] OTHER           -> Observed(fact, op[s]) = admitted[s][fact]

\* The comparisons session s has behind it; the world may still undo them.
Compared(s) ==
    IF stage[s] \in {"checking"} \cup Writing
      THEN {ChecksOf(op[s])[i] : i \in 1..(Len(ChecksOf(op[s])) - Len(left[s]))}
      ELSE {}

\* A step of `by` changes these facts under everyone who has compared them.
Disturbs(facts, by) ==
    raced' = raced \cup {s \in Sessions \ by : Compared(s) \cap facts # {}}

Moves(s, to) == stage' = [stage EXCEPT ![s] = to]

-----------------------------------------------------------------------------
(***************************************************************************)
(* A session: trusted host context, then one operation.                    *)
(***************************************************************************)
OpenSession(s) ==
    /\ stage[s] = "closed"
    /\ Moves(s, IF url = "canonical" THEN "idle" ELSE "refused")
    /\ UNCHANGED <<world, op, left, seen, admitted, target, raced, effects, moves>>

Submit(s, o) ==
    /\ stage[s] = "idle"
    /\ Moves(s, "reading")
    /\ op' = [op EXCEPT ![s] = o]
    /\ left' = [left EXCEPT ![s] = FactsOf(o)]
    /\ UNCHANGED <<world, seen, admitted, target, raced, effects, moves>>

\* One fact of normalization, or of the normalization that revalidates it.
ReadFact(s) ==
    /\ stage[s] \in {"reading", "rereading"}
    /\ left[s] # <<>>
    /\ LET fact  == Head(left[s])
           value == Observed(fact, op[s])
       IN  IF Mappable(fact, value)
             THEN /\ seen' = [seen EXCEPT ![s] = [f \in DOMAIN @ \cup {fact} |->
                                                    IF f = fact THEN value ELSE @[f]]]
                  /\ left' = [left EXCEPT ![s] = Tail(@)]
                  /\ UNCHANGED stage
             ELSE Moves(s, "unmappable") /\ UNCHANGED <<seen, left>>
    /\ UNCHANGED <<world, op, admitted, target, raced, effects, moves>>

Prepared(s) ==
    /\ stage[s] = "reading"
    /\ left[s] = <<>>
    /\ Moves(s, "rereading")
    /\ admitted' = [admitted EXCEPT ![s] = seen[s]]
    /\ seen' = [seen EXCEPT ![s] = NoFacts]
    /\ left' = [left EXCEPT ![s] = FactsOf(op[s])]
    /\ UNCHANGED <<world, op, target, raced, effects, moves>>

Committed(s) ==
    /\ stage[s] = "rereading"
    /\ left[s] = <<>>
    /\ Moves(s, IF seen[s] = admitted[s] THEN "checking" ELSE "stale")
    /\ left' = [left EXCEPT ![s] = ChecksOf(op[s])]
    /\ UNCHANGED <<world, op, seen, admitted, target, raced, effects, moves>>

\* The executor resolves the admitted path; one that leads out of the checkout is refused.
Resolve(s) ==
    /\ stage[s] = "checking"
    /\ left[s] # <<>>
    /\ Head(left[s]) = "path"
    /\ \/ /\ target' = [target EXCEPT ![s] = Place]
          /\ left' = [left EXCEPT ![s] = Tail(@)]
          /\ UNCHANGED stage
       \/ Place = "other" /\ Moves(s, "refused") /\ UNCHANGED <<target, left>>
    /\ UNCHANGED <<world, op, seen, admitted, raced, effects, moves>>

Check(s) ==
    /\ stage[s] = "checking"
    /\ left[s] # <<>>
    /\ Head(left[s]) # "path"
    /\ IF Holds(Head(left[s]), s)
         THEN left' = [left EXCEPT ![s] = Tail(@)] /\ UNCHANGED stage
         ELSE Moves(s, "refused") /\ UNCHANGED left
    /\ UNCHANGED <<world, op, seen, admitted, target, raced, effects, moves>>

-----------------------------------------------------------------------------
(***************************************************************************)
(* The effects.  A subprocess may also run into its timeout, or not start: *)
(* then the executor raises and calls the outcome uncertain, whether or    *)
(* not the effect took place.                                              *)
(***************************************************************************)
Acting(s, kind) == stage[s] = "checking" /\ left[s] = <<>> /\ op[s].kind = kind

Acted(s, found, put) ==
    effects' = effects \cup {[by |-> s, kind |-> op[s].kind, found |-> found, put |-> put,
                              admitted |-> admitted[s], raced |-> s \in raced]}

NotActed == UNCHANGED <<world, raced, effects>>

\* An exit status of zero, another one, or no exit in time.
Exits(s, zero) ==
    \/ Moves(s, IF zero THEN "succeeded" ELSE "failed")
    \/ Moves(s, "uncertain")

Temp(s, t) == temp' = [temp EXCEPT ![s] = t] /\ UNCHANGED <<file, repo, raced, effects>>

\* _atomic_write.  mkstemp, beside the target; its failure is nobody's to undo.
CreateTemp(s) ==
    /\ Acting(s, "edit")
    /\ \/ /\ Holds("parent", s)
          /\ Moves(s, "writing")
          /\ Temp(s, [dir |-> Folder(s), body |-> "partial"])
       \/ Moves(s, "refused") /\ NotActed

Written(t) == IF t = NoTemp THEN t ELSE [t EXCEPT !.body = "whole"]

ShortWrite(s) ==            \* faulty: what a failing write left is put in place all the same
    /\ stage[s] = "writing"
    /\ \/ Moves(s, "replacing") /\ Temp(s, Written(temp[s]))
       \/ Moves(s, "replacing") /\ NotActed

SyncUnguarded(s) ==         \* faulty: a failing fsync is raised past the removal
    /\ stage[s] = "writing"
    /\ \/ Moves(s, "replacing") /\ Temp(s, Written(temp[s]))
       \/ Moves(s, "undoing") /\ NotActed
       \/ Moves(s, "refused") /\ Temp(s, Written(temp[s]))

\* The payload, flushed and synced, or a part of it.
WriteTemp(s) ==
    /\ stage[s] = "writing"
    /\ \/ Moves(s, "replacing") /\ Temp(s, Written(temp[s]))
       \/ Moves(s, "undoing") /\ NotActed

\* os.replace, if the temporary file is still where its name leads.
Replace(s) ==
    /\ stage[s] = "replacing"
    /\ \/ /\ temp[s].dir = Folder(s)
          /\ Moves(s, "succeeded")
          /\ LET put == IF temp[s].body = "whole" THEN admitted[s].after ELSE Torn
             IN  /\ file' = IF Folder(s) = "other" THEN [file EXCEPT !.other = put]
                            ELSE [file EXCEPT !.leads = "plain", !.own = put]
                 /\ Acted(s, [path |-> Folder(s), before |-> DigestAt(Reached(s))], put)
          /\ temp' = [temp EXCEPT ![s] = NoTemp]
          /\ Disturbs({"path", "link", "before"}, {s})
          /\ UNCHANGED repo
       \/ Moves(s, "undoing") /\ NotActed

\* The temporary file is removed, or even that fails; either way the edit is refused.
Undo(s) ==
    /\ stage[s] = "undoing"
    /\ Moves(s, "refused")
    /\ \/ temp[s].dir \in {"none", Folder(s)} /\ Temp(s, NoTemp)
       \/ temp[s] # NoTemp /\ Temp(s, [temp[s] EXCEPT !.body = "kept"])

\* KeyboardInterrupt and the end of the process are no OSError: nothing is removed.
Interrupt(s) ==
    /\ stage[s] \in Writing \cup {"undoing"}
    /\ Moves(s, "interrupted")
    /\ NotActed

EditFile(s) == CreateTemp(s) \/ WriteTemp(s) \/ Replace(s) \/ Undo(s) \/ Interrupt(s)

FastForwards(tip, c) == tip \in Before[c]

\* git merge --ff-only <source>, wherever HEAD is by now.
MergeAccepted(s) ==
    /\ Acting(s, "merge")
    /\ LET source == admitted[s].source
       IN  IF FastForwards(at[head], source)
             THEN \/ /\ at' = [at EXCEPT ![head] = source]
                     /\ Acted(s, [head |-> at[head], ref |-> head], source)
                     /\ Disturbs({"head"}, {s})
                     /\ Exits(s, TRUE)
                     /\ UNCHANGED <<file, temp, head, pruned, remote, url>>
                  \/ Exits(s, FALSE) /\ NotActed
             ELSE Exits(s, source \in Reaches(at[head])) /\ NotActed

\* git push <sealed transport> <commit>:<ref>, both as they were admitted: nothing of the
\* world is looked up by name.  The far side may have moved the ref although the answer
\* never arrived.
PushFeature(s) ==
    /\ Acting(s, "push")
    /\ LET to     == op[s].branch
           source == admitted[s].source
       IN  \/ /\ remote[to] # NoCommit => FastForwards(remote[to], source)
              /\ remote' = [remote EXCEPT ![to] = source]
              /\ Acted(s, NoFacts, source)
              /\ \/ Exits(s, TRUE)
                 \/ Exits(s, FALSE)
              /\ UNCHANGED <<file, temp, at, head, pruned, url, raced>>
           \/ Exits(s, remote[to] = source) /\ NotActed
           \/ Exits(s, FALSE) /\ NotActed

\* The working directory is whatever it is; the argv is the session's own.
RunTests(s) ==
    /\ Acting(s, "tests")
    /\ Exits(s, TRUE) \/ Exits(s, FALSE)
    /\ NotActed

Execute(s) ==
    /\ EditFile(s) \/ MergeAccepted(s) \/ PushFeature(s) \/ RunTests(s)
    /\ UNCHANGED <<op, left, seen, admitted, target, moves>>

SessionStep(s) ==
    \/ OpenSession(s)
    \/ \E o \in Operations : Submit(s, o)
    \/ ReadFact(s)
    \/ Prepared(s)
    \/ Committed(s)
    \/ Resolve(s)
    \/ Check(s)
    \/ Execute(s)

-----------------------------------------------------------------------------
(***************************************************************************)
(* The rest of the world: editors, other git commands, collaborators.      *)
(***************************************************************************)
Interferes == moves < MaxMoves /\ moves' = moves + 1 /\ UNCHANGED <<mine, effects>>

\* The directory of the path itself has gone, and with it whatever was in it.
OwnGone == file.own = NoParent \/ file.leads = "folder"

SomebodyWrites ==
    /\ file' \in Files \ {file}
    /\ temp' = [s \in Sessions |-> IF temp[s].dir = "own" /\ OwnGone' THEN NoTemp ELSE temp[s]]
    /\ Disturbs({"path", "link", "before", "parent"}, {})
    /\ UNCHANGED repo

SomebodyMovesABranch ==
    \E b \in Refs, c \in Commits \ pruned :
        /\ c # at[b]
        /\ at' = [at EXCEPT ![b] = c]
        /\ Disturbs(IF b = head THEN {"head"} ELSE {}, {})
        /\ UNCHANGED <<file, temp, head, pruned, remote, url>>

SomebodyChecksOut ==
    \E b \in Refs \ {head} :
        /\ head' = b
        /\ Disturbs({"head", "ref"}, {})
        /\ UNCHANGED <<file, temp, at, pruned, remote, url>>

SomebodyPrunes ==
    \E c \in Commits \ pruned :
        /\ \A b \in Refs : c \notin Reaches(at[b])
        /\ pruned' = pruned \cup {c}
        /\ Disturbs({"object"}, {})
        /\ UNCHANGED <<file, temp, at, head, remote, url>>

SomebodyPushes ==
    \E b \in Features, c \in Commits :
        /\ c # remote[b]
        /\ remote' = [remote EXCEPT ![b] = c]
        /\ UNCHANGED <<file, temp, at, head, pruned, url, raced>>

SomebodyEditsTheUrls ==
    /\ url' \in Urls \ {url}
    /\ UNCHANGED <<file, temp, at, head, pruned, remote, raced>>

WorldStep ==
    /\ Interferes
    /\ \/ SomebodyWrites
       \/ SomebodyMovesABranch
       \/ SomebodyChecksOut
       \/ SomebodyPrunes
       \/ SomebodyPushes
       \/ SomebodyEditsTheUrls

Next == WorldStep \/ \E s \in Sessions : SessionStep(s)

Spec == Init /\ [][Next]_vars

-----------------------------------------------------------------------------
(***************************************************************************)
(* Properties.                                                             *)
(***************************************************************************)
Values == Bodies \cup Commits \cup Refs \cup Urls \cup {Missing, "own"}

\* Every variable has its type; only an operation that was prepared has admitted facts.
TypeOK ==
    /\ file \in Files
    /\ temp \in [Sessions -> Temps]
    /\ at \in [Refs -> Commits]
    /\ head \in Refs
    /\ pruned \subseteq Commits
    /\ remote \in [Features -> Commits \cup {NoCommit}]
    /\ url \in Urls
    /\ stage \in [Sessions -> Stages]
    /\ op \in [Sessions -> Operations \cup {NoOp}]
    /\ target \in [Sessions -> Places]
    /\ raced \subseteq Sessions
    /\ \A s \in Sessions : stage[s] \in {"rereading", "checking"} =>
         /\ DOMAIN admitted[s] = {FactsOf(op[s])[i] : i \in DOMAIN FactsOf(op[s])}
         /\ \A f \in DOMAIN admitted[s] : admitted[s][f] \in Values

\* An edit replaces exactly the content it was admitted for, and a merge moves exactly
\* the branch and the commit it was admitted for, or something changed after the
\* executor compared it.  Whatever changed earlier, during normalization, evaluation or
\* COMMIT, is never acted on (host_executor.py:233-281, 400-414).
AdmittedOrRaced ==
    \A e \in effects :
        e.raced \/ \A fact \in DOMAIN e.found \ {"path"} : e.found[fact] = e.admitted[fact]

\* host_executor.py:288-290: a link "is refused *as a link* rather than silently
\* followed".  An edit that nobody raced lands on the path it was admitted for.  Does not
\* hold: a directory of the path that has become a link is followed.
EditsStayInPlace ==
    \A e \in effects : e.kind = "edit" => e.raced \/ e.found.path = e.admitted.path

\* Whichever step of _atomic_write fails, and whatever others do to the directory in
\* the meantime, a session that refuses has put nothing in place, and what it leaves
\* behind is at most a temporary file that could not be removed
\* (host_executor.py:316-332).
RefusalsChangeNothing ==
    \A s \in Sessions : stage[s] \in {"unmappable", "stale", "refused"} =>
        /\ \A e \in effects : e.by # s
        /\ temp[s].body \in {"none", "kept"}

\* An edit is all or nothing: what is put in place is the whole admitted content, and
\* that happens to the sessions that report success and to no other, interrupted ones
\* included (host_executor.py:316-326).
EditsAreWhole ==
    /\ \A e \in effects : e.kind = "edit" => e.put = e.admitted.after
    /\ \A s \in Sessions : op[s].kind = "edit" =>
         (stage[s] = "succeeded" <=> \E e \in effects : e.by = s)

\* _edit_file: "The file moved under us between PREPARE and the write. Do not merge,
\* do not overwrite".  What the write replaces is what was admitted.
NothingIsOverwritten ==
    \A e \in effects : e.kind = "edit" => e.found.before = e.admitted.before

=============================================================================
