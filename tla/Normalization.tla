---------------------------- MODULE Normalization ----------------------------
(***************************************************************************)
(* permission_slip/actions.py: what a git push is taken to be.  The caller *)
(* composes the command word by word; the adapter turns it into one of two *)
(* capabilities with its arguments, or refuses.                            *)
(*                                                                         *)
(* Tokens are the strings of the command line, put into classes by the     *)
(* same sets as in the code; a refspec is a record of its parts.  What git *)
(* itself makes of the command is defined apart, as the reference.         *)
(***************************************************************************)
EXTENDS Integers, Sequences, FiniteSets, SequencesExt

CONSTANTS
    Words,          \* positional words
    Spec,           \* Spec[w]: the word w read as a refspec
    Options,        \* options the caller uses
    Remotes,        \* words that resolve to the canonical repository
    Features,       \* branch names inside feature/
    Protected,      \* main, master, trunk, release
    Unborn,         \* branch names that resolve to no commit
    Actors,         \* the harness profile
    MaxTokens,      \* bound: words of a command
    MaxCommands     \* bound: commands normalized in one session

ASSUME TokensAssumption == Words \cap Options = {} /\ Remotes \subseteq Words /\ "--" \notin Words
ASSUME BranchesAssumption == Features \cap Protected = {}
ASSUME BoundsAssumption == MaxTokens \in Nat /\ MaxCommands \in Nat

\* "": nothing between the colon and the end; HEAD or @; a pattern; refs/heads/b; b;
\* a tag or another namespace.
Forms == {"none", "HEAD", "wild", "heads", "short", "other"}

Names == [form : Forms, branch : STRING]

ASSUME SpecAssumption ==
    \A w \in Words : /\ Spec[w] \in [plus : BOOLEAN, colon : BOOLEAN, src : Names, dst : Names]
                     /\ ~Spec[w].colon => Spec[w].src = Spec[w].dst

VARIABLES
    command,    \* the argv after "push", as far as it is written
    normalized  \* the commands of this session, with what they became

vars == <<command, normalized>>

Tokens == Words \cup Options \cup {"--"}

-----------------------------------------------------------------------------
(***************************************************************************)
(* parse_push.                                                             *)
(***************************************************************************)
ForceForms      == {"--force", "--force-with-lease", "--force-if-includes"}
BroadPushFlags  == {"--all", "--mirror", "--branches", "--tags", "--delete", "--prune"}
RetargetOptions == {"--repo", "--exec", "--receive-pack"}
Inline          == {"--repo=fork", "--push-option=v", "-ov"}
ValueOptions    == {"--push-option", "-o"}
SafePushFlags   == {"--set-upstream", "--verbose", "--quiet", "--progress", "--no-thin",
                    "--atomic", "--follow-tags", "--ipv4", "--ipv6"}

\* Single-dash tokens and their letters.
Clusters == [t \in {"-f", "-d", "-n", "-u", "-fu", "-nd", "-uo"} |->
               CASE t = "-f" -> {"f"} [] t = "-d" -> {"d"} [] t = "-n" -> {"n"} [] t = "-u" -> {"u"}
                 [] t = "-fu" -> {"f", "u"} [] t = "-nd" -> {"n", "d"} [] t = "-uo" -> {"u", "o"}]

SafeShortPushFlags == {"f", "d", "u", "v", "q", "n"}

Letters(t) == IF t \in DOMAIN Clusters THEN Clusters[t] ELSE {}

\* What somebody has made of a command line so far, for whom some options consume
\* the next token.
Blank == [skip |-> FALSE, rest |-> FALSE, options |-> {}, words |-> <<>>]

Take(acc, t, taking) ==
    IF acc.skip THEN [acc EXCEPT !.skip = FALSE]
    ELSE IF acc.rest \/ t \in Words THEN [acc EXCEPT !.words = Append(@, t)]
    ELSE IF t = "--" THEN [acc EXCEPT !.rest = TRUE]
    ELSE [acc EXCEPT !.options = @ \cup {t}, !.skip = t \in taking]

Scan(argv, taking) ==
    LET read[i \in 0 .. Len(argv)] == IF i = 0 THEN Blank ELSE Take(read[i - 1], argv[i], taking)
    IN  read[Len(argv)]

AnyOption(t) == TRUE        \* faulty: an option nobody knows changes nothing

Recognised(t) ==
    \/ t \in ForceForms \cup BroadPushFlags \cup SafePushFlags \cup ValueOptions
    \/ t \in Inline \ {"--repo=fork"}
    \/ t \in DOMAIN Clusters /\ Letters(t) \subseteq SafeShortPushFlags

\* After "--" even an option is a word; it names no remote and no branch.
AsSpec(w) == IF w \in Words THEN Spec[w]
             ELSE LET name == [form |-> "short", branch |-> w]
                  IN  [plus |-> FALSE, colon |-> FALSE, src |-> name, dst |-> name]

EmptyDestination(r) == r.colon /\ r.dst.form = "none"      \* faulty: the sides are swapped

IsDeletion(r) == r.colon /\ (r.src.form = "none" \/ r.dst.form = "none")

ParsePush(argv) ==
    LET scan     == Scan(argv, RetargetOptions \cup ValueOptions)
        refspecs == [i \in 1..(Len(scan.words) - 1) |-> AsSpec(scan.words[i + 1])]
        letters  == UNION {Letters(t) : t \in scan.options}
    IN  [remote    |-> IF scan.words = <<>> THEN "none" ELSE scan.words[1],
         refspecs  |-> refspecs,
         force     |-> scan.options \cap ForceForms # {} \/ "f" \in letters,
         broad     |-> scan.options \cap BroadPushFlags # {} \/ "d" \in letters,
         delete    |-> \/ "--delete" \in scan.options \/ "d" \in letters
                       \/ \E i \in DOMAIN refspecs : IsDeletion(refspecs[i]),
         ambiguous |-> Len(refspecs) # 1 \/ \E t \in scan.options : ~Recognised(t)]

-----------------------------------------------------------------------------
(***************************************************************************)
(* classify_push_refspec and the destination.                              *)
(***************************************************************************)
NoRef == [space |-> "none", branch |-> "none"]

\* A destination label, "none" when it cannot be established.
Label(r) ==
    IF \/ r.colon /\ r.src.form \in {"none", "wild"}
       \/ r.dst.form \in {"none", "HEAD", "wild", "other"}
      THEN "none"
      ELSE r.dst.branch

Consequential(r) == Label(r) = "none" \/ r.plus \/ Label(r) \in Protected

DestinationRef(r) ==
    IF Label(r) # "none" THEN [space |-> "heads", branch |-> Label(r)]
    ELSE CASE r.dst.form = "other" -> [space |-> "other", branch |-> r.dst.branch]
           [] r.dst.form \in {"heads", "short"} -> [space |-> "heads", branch |-> r.dst.branch]
           [] OTHER -> NoRef

Refused == [action |-> "none", arguments |-> [effect |-> "none"]]

EffectKind(p) ==
    IF p.delete THEN "delete"
    ELSE IF p.force \/ \E i \in DOMAIN p.refspecs : p.refspecs[i].plus THEN "force"
    ELSE IF p.broad THEN "broad" ELSE "push"

\* The destination, else the refspecs as written, else "unspecified".
EffectPayload(p, ref) == IF ref # NoRef THEN <<ref>> ELSE p.refspecs

NormalizePush(argv) ==
    LET p      == ParsePush(argv)
        ref    == IF p.ambiguous THEN NoRef ELSE DestinationRef(p.refspecs[1])
        facts  == [ref |-> ref, effect |-> EffectKind(p), payload |-> EffectPayload(p, ref)]
        rewrite == \/ p.ambiguous \/ p.broad \/ EffectKind(p) = "force"
                   \/ Consequential(p.refspecs[1])
    IN  IF p.remote \notin Remotes THEN Refused
        ELSE IF rewrite THEN [action |-> "git.history.rewrite", arguments |-> facts]
        ELSE IF ref.branch \notin Features \/ p.refspecs[1].src.branch \in Unborn THEN Refused
        ELSE [action |-> "git.push.feature",
              arguments |-> [ref |-> ref, effect |-> facts.effect, payload |-> facts.payload,
                             source |-> p.refspecs[1].src.branch]]

-----------------------------------------------------------------------------
Init == command = <<>> /\ normalized = {}

More == Cardinality(normalized) < MaxCommands

Write(t) ==
    /\ More
    /\ Len(command) < MaxTokens
    /\ command' = Append(command, t)
    /\ UNCHANGED normalized

\* normalize(operation, actor_id): an unknown actor is refused before anything is read.
Push(actor) ==
    /\ command # <<>>
    /\ normalized' = normalized \cup
         {[argv |-> command,
           became |-> IF actor \in Actors THEN NormalizePush(command) ELSE Refused]}
    /\ command' = <<>>

Next ==
    \/ \E t \in Tokens : Write(t)
    \/ \E actor \in Actors \cup {"stranger"} : Push(actor)

Normalizing == Init /\ [][Next]_vars

-----------------------------------------------------------------------------
(***************************************************************************)
(* What git makes of the same command.                                     *)
(***************************************************************************)
GitTakesValue == {"--repo", "--exec", "--receive-pack", "--push-option", "-o", "-uo",
                  "--recurse-submodules"}

\* git completes an abbreviated option.
GitOption(t) == IF t = "--del" THEN "--delete" ELSE t

\* b is short for refs/heads/b.
GitRef(name) == IF name.form = "heads" THEN [name EXCEPT !.form = "short"] ELSE name

\* Options that name no ref but a whole set of them.
WholeSets == {"--all", "--branches", "--tags", "--mirror", "--prune"}
Everything(option) == [form |-> "set", branch |-> option]

\* The refs of the remote that the command may change, and how.
GitUpdates(argv) ==
    LET scan    == Scan(argv, GitTakesValue)
        options == {GitOption(t) : t \in scan.options}
        letters == UNION {Letters(t) : t \in options}
        specs   == {AsSpec(scan.words[i]) : i \in 2..Len(scan.words)}
        deletes == "--delete" \in options \/ "d" \in letters
        forces  == options \cap ForceForms # {} \/ "f" \in letters
        How(r)  == IF deletes \/ (r.colon /\ r.src.form = "none") THEN "delete"
                   ELSE IF forces \/ r.plus THEN "force" ELSE "update"
    IN  IF "n" \in letters \/ "--dry-run" \in options THEN {}
        ELSE {[ref |-> GitRef(r.dst), how |-> How(r),
               from |-> IF How(r) = "delete" THEN "nothing" ELSE GitRef(r.src)] : r \in specs}
        \cup {[ref |-> Everything(t), from |-> Everything(t),
               how |-> IF forces THEN "force" ELSE "update"] : t \in options \cap WholeSets}
        \cup (IF specs = {} /\ options \cap WholeSets = {}
                THEN {[ref |-> Everything("current"), from |-> Everything("current"), how |-> "update"]}
                ELSE {})

-----------------------------------------------------------------------------
(***************************************************************************)
(* Properties.                                                             *)
(***************************************************************************)
Capabilities == {"none", "git.push.feature", "git.history.rewrite"}

\* Only the three outcomes of _normalize_git occur.
TypeOK ==
    /\ command \in Seq(Tokens) /\ Len(command) <= MaxTokens
    /\ \A n \in normalized : n.became.action \in Capabilities

\* A command becomes the standing git.push.feature only if all git would do with it is
\* one ordinary update, neither forced nor deleting, of one branch inside feature/
\* from the source that is bound.  (Annotated tags --follow-tags would add are not
\* branches; the executor never sends them.)
StandingPushIsNarrow ==
    \A n \in normalized : n.became.action = "git.push.feature" =>
        \A u \in GitUpdates(n.argv) :
            /\ u.how = "update"
            /\ u.ref.form = "short"
            /\ u.ref.branch = n.became.arguments.ref.branch
            /\ u.ref.branch \in Features
            /\ u.from.branch = n.became.arguments.source

\* A push whose options the code recognises, and that git would read as the deletion of
\* a ref the command names, is described to the Gate as a deletion.  (An option the code
\* does not recognise, an abbreviated --del among them, makes a push ambiguous: it is a
\* git.history.rewrite, whatever its effect is called.)
DeletionIsNamed ==
    \A n \in normalized :
        (/\ n.became.action # "none"
         /\ \A i \in DOMAIN n.argv :
              n.argv[i] \in Options => Recognised(n.argv[i])
         /\ \E u \in GitUpdates(n.argv) : u.how = "delete")
          => n.became.arguments.effect = "delete"

\* _push_effect: "Two materially different remote effects must never collapse to the
\* same string (and therefore the same Tethers-bound action input)."
\* Does not hold: "push --all" and "push --mirror" are both broad and unspecified.
EffectsDistinct ==
    \A m, n \in normalized :
        (m.became = n.became /\ m.became.action # "none")
          => GitUpdates(m.argv) = GitUpdates(n.argv)

=============================================================================
