------------------------- MODULE Normalization_proofs -------------------------
(***************************************************************************)
(* A push command of any length, over any words, options and branches, is  *)
(* taken for the standing git.push.feature only if git makes one plain     *)
(* update of one feature branch of it; and no deletion that git would read *)
(* in a command whose options are all recognised is described as anything  *)
(* else.                                                                   *)
(*                                                                         *)
(* The adapter and git read the command line token by token, and disagree  *)
(* about which options consume the next.  They agree as long as every      *)
(* option is one the adapter recognises, which is what the first part      *)
(* shows, by induction over the tokens read; the rest is what is made of   *)
(* the words and options they have both read.                              *)
(***************************************************************************)
EXTENDS Normalization, SequenceTheorems, WellFoundedInduction, TLAPS

-----------------------------------------------------------------------------
(***************************************************************************)
(* Induction over the tokens of a command.                                 *)
(***************************************************************************)

(***************************************************************************)
(* A set of numbers with an element has a smallest.                        *)
(***************************************************************************)
LEMMA SmallestExists ==
    ASSUME NEW T, T \subseteq Nat, T # {}
    PROVE  \E x \in T : \A y \in T : x <= y
<1>1. PICK R : R = OpToRel(<, Nat)
  OBVIOUS
<1>2. IsWellFoundedOn(R, Nat)
  BY <1>1, NatLessThanWellFounded
<1>3. PICK x \in T : \A y \in T : ~ (<<y, x>> \in R)
  BY <1>2, WFMin
<1>4. ASSUME NEW y \in T
      PROVE  x <= y
  <2>1. x \in Nat /\ y \in Nat
    OBVIOUS
  <2>2. y < x => <<y, x>> \in R
    BY <1>1, <2>1 DEF OpToRel
  <2> QED
    BY <1>3, <2>1, <2>2
<1> QED
  BY <1>3, <1>4

(***************************************************************************)
(* A set that holds 0, and each number up to n with the one before, holds  *)
(* them all.                                                               *)
(***************************************************************************)
LEMMA UpTo ==
    ASSUME NEW n \in Nat, NEW S, 0 \in S, \A i \in 1 .. n : i - 1 \in S => i \in S
    PROVE  \A i \in 0 .. n : i \in S
<1> DEFINE T == {i \in 0 .. n : i \notin S}
<1> SUFFICES ASSUME T # {}
             PROVE  FALSE
  OBVIOUS
<1>1. PICK x \in T : \A y \in T : x <= y
  <2>1. T \subseteq Nat
    OBVIOUS
  <2> HIDE DEF T
  <2> QED
    BY <2>1, SmallestExists
<1>2. x \in 1 .. n /\ x - 1 \in 0 .. n
  OBVIOUS
<1>3. x - 1 \notin T
  BY <1>1, <1>2
<1> QED
  BY <1>2, <1>3

\* h is a reading of the first n tokens: h[i] is what has been made of i of them.
IsReading(h, argv, taking, n) ==
    /\ h = [i \in 0 .. n |-> h[i]]
    /\ h[0] = Blank
    /\ \A i \in 1 .. n : h[i] = Take(h[i - 1], argv[i], taking)

(***************************************************************************)
(* A scan is the end of a reading.                                         *)
(***************************************************************************)
LEMMA ScanReads ==
    ASSUME NEW argv \in Seq(Tokens), NEW taking
    PROVE  \E h : IsReading(h, argv, taking, Len(argv)) /\ Scan(argv, taking) = h[Len(argv)]
<1> DEFINE N == Len(argv)
           Body(h) == [i \in 0 .. N |-> IF i = 0 THEN Blank ELSE Take(h[i - 1], argv[i], taking)]
           Read == CHOOSE h : h = Body(h)
           Reached == {n \in 0 .. N : \E h : IsReading(h, argv, taking, n)}
<1>1. N \in Nat
  OBVIOUS
<1>2. Scan(argv, taking) = Read[N]
  BY DEF Scan
<1>3. 0 \in Reached
  <2>1. PICK h : h = [i \in 0 .. 0 |-> Blank]
    OBVIOUS
  <2>2. IsReading(h, argv, taking, 0)
    BY <2>1 DEF IsReading
  <2> QED
    BY <1>1, <2>2
<1>4. ASSUME NEW n \in 1 .. N, n - 1 \in Reached
      PROVE  n \in Reached
  <2>1. PICK g : IsReading(g, argv, taking, n - 1)
    BY <1>4
  <2>2. PICK t : t = Take(g[n - 1], argv[n], taking)
    OBVIOUS
  <2>3. PICK h : h = [i \in 0 .. n |-> IF i = n THEN t ELSE g[i]]
    OBVIOUS
  <2>4. n \in Nat /\ n > 0 /\ \A i \in 0 .. n : i = n \/ i \in 0 .. (n - 1)
    BY <1>1
  <2>5. h = [i \in 0 .. n |-> h[i]] /\ h[0] = Blank
    BY <2>1, <2>3, <2>4 DEF IsReading
  <2>6. ASSUME NEW i \in 1 .. n
        PROVE  h[i] = Take(h[i - 1], argv[i], taking)
    <3>1. h[i - 1] = g[i - 1]
      BY <2>3, <2>4
    <3>2. CASE i = n
      BY <2>2, <2>3, <2>4, <3>1, <3>2
    <3>3. CASE i # n
      <4>1. i \in 1 .. (n - 1) /\ h[i] = g[i]
        BY <2>3, <2>4, <3>3
      <4> QED
        BY <2>1, <3>1, <4>1 DEF IsReading
    <3> QED
      BY <3>2, <3>3
  <2>7. IsReading(h, argv, taking, n)
    BY <2>5, <2>6 DEF IsReading
  <2> QED
    BY <1>1, <2>7
<1>5. N \in Reached
  <2> HIDE DEF Reached
  <2> QED
    BY <1>1, <1>3, <1>4, UpTo, SMTT(30)
<1>6. \A h : h = Body(h) <=> IsReading(h, argv, taking, N)
  <2> TAKE h
  <2>1. ASSUME h = Body(h)
        PROVE  IsReading(h, argv, taking, N)
    <3>1. h = [i \in 0 .. N |-> h[i]]
      BY <2>1
    <3>2. \A i \in 0 .. N : h[i] = IF i = 0 THEN Blank ELSE Take(h[i - 1], argv[i], taking)
      BY <2>1
    <3>3. h[0] = Blank /\ \A i \in 1 .. N : h[i] = Take(h[i - 1], argv[i], taking)
      BY <1>1, <3>2
    <3> QED
      BY <3>1, <3>3 DEF IsReading
  <2>2. ASSUME IsReading(h, argv, taking, N)
        PROVE  h = Body(h)
    <3>1. h = [i \in 0 .. N |-> h[i]]
      BY <2>2 DEF IsReading
    <3>2. ASSUME NEW i \in 0 .. N
          PROVE  h[i] = IF i = 0 THEN Blank ELSE Take(h[i - 1], argv[i], taking)
      <4>1. CASE i = 0
        BY <2>2, <4>1 DEF IsReading
      <4>2. CASE i # 0
        <5>1. i \in 1 .. N
          BY <1>1, <4>2
        <5> QED
          BY <2>2, <4>2, <5>1 DEF IsReading
      <4> QED
        BY <4>1, <4>2
    <3>3. PICK g : g = Body(h)
      OBVIOUS
    <3>4. g = [i \in 0 .. N |-> g[i]]
      BY <3>3
    <3>5. \A i \in 0 .. N : g[i] = IF i = 0 THEN Blank ELSE Take(h[i - 1], argv[i], taking)
      BY <3>3
    <3>6. \A i \in 0 .. N : g[i] = h[i]
      BY <3>2, <3>5
    <3> HIDE DEF Body
    <3> QED
      BY <3>1, <3>3, <3>4, <3>6
  <2> QED
    BY <2>1, <2>2
<1>7. \E h : h = Body(h)
  BY <1>5, <1>6
<1>8. Read = Body(Read)
  <2> HIDE DEF Body
  <2> QED
    BY <1>7
<1> HIDE DEF Read, Body
<1> QED
  BY <1>2, <1>6, <1>8
-----------------------------------------------------------------------------
(***************************************************************************)
(* What the adapter and git make of the same tokens.                       *)
(***************************************************************************)
Scans == [skip : BOOLEAN, rest : BOOLEAN, options : SUBSET Options, words : Seq(Tokens)]

\* The options for which parse_push skips the next token.
TakesValue == RetargetOptions \cup ValueOptions

(***************************************************************************)
(* One token more adds at most itself, as an option or as a word.          *)
(***************************************************************************)
LEMMA TakeAdds ==
    ASSUME NEW acc \in Scans, NEW t \in Tokens, NEW taking
    PROVE  /\ Take(acc, t, taking) \in Scans
           /\ acc.options \subseteq Take(acc, t, taking).options
           /\ Take(acc, t, taking).options \subseteq acc.options \cup {t}
<1>1. PICK next : next = Take(acc, t, taking)
  OBVIOUS
<1>2. CASE acc.skip
  <2>1. next = [acc EXCEPT !.skip = FALSE]
    BY <1>1, <1>2 DEF Take
  <2> QED
    BY <1>1, <2>1 DEF Scans
<1>3. CASE ~ acc.skip /\ (acc.rest \/ t \in Words)
  <2>1. next = [acc EXCEPT !.words = Append(acc.words, t)]
    BY <1>1, <1>3 DEF Take
  <2>2. Append(acc.words, t) \in Seq(Tokens)
    BY DEF Scans
  <2> QED
    BY <1>1, <2>1, <2>2 DEF Scans
<1>4. CASE ~ acc.skip /\ ~ (acc.rest \/ t \in Words) /\ t = "--"
  <2>1. next = [acc EXCEPT !.rest = TRUE]
    BY <1>1, <1>4 DEF Take
  <2> QED
    BY <1>1, <2>1 DEF Scans
<1>5. CASE ~ acc.skip /\ ~ (acc.rest \/ t \in Words) /\ t # "--"
  <2>1. next = [acc EXCEPT !.options = acc.options \cup {t}, !.skip = t \in taking]
    BY <1>1, <1>5 DEF Take
  <2>2. t \in Options /\ (t \in taking) \in BOOLEAN
    BY <1>5 DEF Tokens
  <2>3. PICK skip \in BOOLEAN : skip = (t \in taking)
    BY <2>2
  <2>4. next = [acc EXCEPT !.options = acc.options \cup {t}, !.skip = skip]
    BY <2>1, <2>3
  <2> QED
    BY <1>1, <2>2, <2>4 DEF Scans
<1> QED
  BY <1>2, <1>3, <1>4, <1>5

(***************************************************************************)
(* An option that parse_push recognises consumes the next token for git    *)
(* exactly when it does for parse_push, and is written in full.            *)
(***************************************************************************)
LEMMA RecognisedAgree ==
    ASSUME NEW t, Recognised(t)
    PROVE  /\ t \in TakesValue <=> t \in GitTakesValue
           /\ GitOption(t) = t
<1>1. t \notin RetargetOptions /\ t \notin {"-uo", "--recurse-submodules", "--del"}
  BY DEF Recognised, ForceForms, BroadPushFlags, SafePushFlags, ValueOptions, Inline, Clusters,
         Letters, SafeShortPushFlags, RetargetOptions
<1>2. /\ TakesValue = {"--repo", "--exec", "--receive-pack", "--push-option", "-o"}
      /\ GitTakesValue = TakesValue \cup {"-uo", "--recurse-submodules"}
  BY DEF TakesValue, GitTakesValue, RetargetOptions, ValueOptions
<1> QED
  BY <1>1, <1>2 DEF GitOption

(***************************************************************************)
(* So one token more is taken alike, unless it is an unrecognised option.  *)
(***************************************************************************)
LEMMA TakesAgree ==
    ASSUME NEW acc \in Scans, NEW t \in Tokens,
           \A o \in Take(acc, t, TakesValue).options : Recognised(o)
    PROVE  Take(acc, t, TakesValue) = Take(acc, t, GitTakesValue)
<1>1. CASE acc.skip \/ acc.rest \/ t \in Words \/ t = "--"
  BY <1>1 DEF Take
<1>2. CASE ~ (acc.skip \/ acc.rest \/ t \in Words \/ t = "--")
  <2>1. /\ Take(acc, t, TakesValue) =
              [acc EXCEPT !.options = acc.options \cup {t}, !.skip = t \in TakesValue]
        /\ Take(acc, t, GitTakesValue) =
              [acc EXCEPT !.options = acc.options \cup {t}, !.skip = t \in GitTakesValue]
    BY <1>2 DEF Take
  <2>2. t \in Take(acc, t, TakesValue).options
    <3>1. (t \in TakesValue) \in BOOLEAN
      OBVIOUS
    <3>2. PICK skip : skip = (t \in TakesValue)
      OBVIOUS
    <3>3. Take(acc, t, TakesValue) = [acc EXCEPT !.options = acc.options \cup {t}, !.skip = skip]
      BY <2>1, <3>2
    <3> QED
      BY <3>3 DEF Scans
  <2>3. (t \in TakesValue) = (t \in GitTakesValue)
    BY <2>2, RecognisedAgree
  <2> QED
    BY <2>1, <2>3
<1> QED
  BY <1>1, <1>2

(***************************************************************************)
(* What a reading makes of a command consists of its words and options.    *)
(***************************************************************************)
LEMMA ReadingsAreScans ==
    ASSUME NEW argv \in Seq(Tokens), NEW taking, NEW h, IsReading(h, argv, taking, Len(argv))
    PROVE  \A i \in 0 .. Len(argv) : h[i] \in Scans /\ h[i].options \subseteq ToSet(argv)
<1> DEFINE S == {i \in 0 .. Len(argv) : h[i] \in Scans /\ h[i].options \subseteq ToSet(argv)}
<1>1. Len(argv) \in Nat /\ \A i \in 1 .. Len(argv) : argv[i] \in Tokens /\ argv[i] \in ToSet(argv)
  BY DEF ToSet
<1>2. 0 \in S
  <2>1. Blank \in Scans /\ Blank.options = {}
    BY DEF Blank, Scans
  <2> QED
    BY <1>1, <2>1 DEF IsReading
<1>3. ASSUME NEW i \in 1 .. Len(argv), i - 1 \in S
      PROVE  i \in S
  <2>1. PICK acc \in Scans : acc = h[i - 1] /\ acc.options \subseteq ToSet(argv)
    BY <1>3
  <2>2. PICK t \in Tokens : t = argv[i] /\ t \in ToSet(argv)
    BY <1>1
  <2>3. h[i] = Take(acc, t, taking)
    BY <2>1, <2>2 DEF IsReading
  <2> QED
    BY <1>1, <2>1, <2>2, <2>3, TakeAdds
<1> HIDE DEF S
<1>4. \A i \in 0 .. Len(argv) : i \in S
  BY <1>1, <1>2, <1>3, UpTo
<1> QED
  BY <1>4 DEF S

(***************************************************************************)
(* parse_push and git read the same words and options in a command whose   *)
(* options, as parse_push reads it, it recognises.                         *)
(***************************************************************************)
LEMMA ScansAgree ==
    ASSUME NEW argv \in Seq(Tokens)
    PROVE  /\ Scan(argv, TakesValue) \in Scans
           /\ Scan(argv, TakesValue).options \subseteq ToSet(argv)
           /\ (\A o \in Scan(argv, TakesValue).options : Recognised(o)) =>
                 Scan(argv, GitTakesValue) = Scan(argv, TakesValue)
<1>1. PICK h : IsReading(h, argv, TakesValue, Len(argv)) /\ Scan(argv, TakesValue) = h[Len(argv)]
  BY ScanReads
<1>2. PICK g : /\ IsReading(g, argv, GitTakesValue, Len(argv))
               /\ Scan(argv, GitTakesValue) = g[Len(argv)]
  BY ScanReads
<1>3. Len(argv) \in Nat /\ \A i \in 1 .. Len(argv) : argv[i] \in Tokens
  OBVIOUS
<1>4. \A i \in 0 .. Len(argv) : h[i] \in Scans /\ h[i].options \subseteq ToSet(argv)
  BY <1>1, ReadingsAreScans
<1> DEFINE Known(i) == \A o \in h[i].options : Recognised(o)
           S == {i \in 0 .. Len(argv) : Known(i) => g[i] = h[i]}
<1>5. 0 \in S
  BY <1>1, <1>2, <1>3 DEF IsReading
<1>6. ASSUME NEW i \in 1 .. Len(argv), i - 1 \in S
      PROVE  i \in S
  <2>1. SUFFICES ASSUME Known(i)
                 PROVE  g[i] = h[i]
    BY <1>3
  <2>2. PICK acc \in Scans, t \in Tokens : acc = h[i - 1] /\ t = argv[i]
    BY <1>3, <1>4
  <2>3. h[i] = Take(acc, t, TakesValue) /\ g[i] = Take(g[i - 1], t, GitTakesValue)
    BY <1>1, <1>2, <2>2 DEF IsReading
  <2>4. Known(i - 1)
    BY <2>1, <2>2, <2>3, TakeAdds
  <2>5. g[i - 1] = acc
    BY <1>6, <2>2, <2>4
  <2>6. Take(acc, t, TakesValue) = Take(acc, t, GitTakesValue)
    BY <2>1, <2>3, TakesAgree
  <2> QED
    BY <2>3, <2>5, <2>6
<1>7. \A i \in 0 .. Len(argv) : i \in S
  <2> HIDE DEF S
  <2> QED
    BY <1>3, <1>5, <1>6, UpTo
<1>8. Known(Len(argv)) => g[Len(argv)] = h[Len(argv)]
  BY <1>3, <1>7
<1> QED
  BY <1>1, <1>2, <1>3, <1>4, <1>8
-----------------------------------------------------------------------------
(***************************************************************************)
(* The adapter's account of a command and git's.                           *)
(***************************************************************************)
\* What parse_push's scan finds in a command, its letters, and its words read as refspecs.
Found(argv) == Scan(argv, TakesValue)
LettersIn(argv) == UNION {Letters(t) : t \in Found(argv).options}
SpecsIn(argv) == {AsSpec(Found(argv).words[i]) : i \in 2 .. Len(Found(argv).words)}
Second(argv) == AsSpec(Found(argv).words[2])

Deletes(argv) == "--delete" \in Found(argv).options \/ "d" \in LettersIn(argv)
Forces(argv) == Found(argv).options \cap ForceForms # {} \/ "f" \in LettersIn(argv)

TheSpecs(words) == [i \in 1 .. (Len(words) - 1) |-> AsSpec(words[i + 1])]
Refspecs(argv) == TheSpecs(Found(argv).words)

(***************************************************************************)
(* parse_push's record of a command, in terms of what its scan found.      *)
(***************************************************************************)
LEMMA Parsed ==
    ASSUME NEW argv
    PROVE  /\ ParsePush(argv).refspecs = Refspecs(argv)
           /\ ParsePush(argv).force <=> Forces(argv)
           /\ ParsePush(argv).broad <=>
                 \/ Found(argv).options \cap BroadPushFlags # {}
                 \/ "d" \in LettersIn(argv)
           /\ ParsePush(argv).delete <=>
                 \/ Deletes(argv)
                 \/ \E i \in DOMAIN Refspecs(argv) : IsDeletion(Refspecs(argv)[i])
           /\ ParsePush(argv).ambiguous <=>
                 \/ Len(Refspecs(argv)) # 1
                 \/ \E t \in Found(argv).options : ~ Recognised(t)
<1> DEFINE broad == Found(argv).options \cap BroadPushFlags # {} \/ "d" \in LettersIn(argv)
           delete == \/ Deletes(argv)
                     \/ \E i \in DOMAIN Refspecs(argv) : IsDeletion(Refspecs(argv)[i])
           ambiguous == \/ Len(Refspecs(argv)) # 1
                        \/ \E t \in Found(argv).options : ~ Recognised(t)
<1>1. ParsePush(argv) =
        [remote |-> IF Found(argv).words = <<>> THEN "none" ELSE Found(argv).words[1],
         refspecs |-> Refspecs(argv),
         force |-> Forces(argv), broad |-> broad, delete |-> delete, ambiguous |-> ambiguous]
  BY DEF ParsePush, Found, LettersIn, Forces, Deletes, Refspecs, TheSpecs, TakesValue
<1> HIDE DEF broad, delete, ambiguous
<1>2. /\ ParsePush(argv).refspecs = Refspecs(argv) /\ ParsePush(argv).force = Forces(argv)
      /\ ParsePush(argv).broad = broad /\ ParsePush(argv).delete = delete
      /\ ParsePush(argv).ambiguous = ambiguous
  BY <1>1
<1> QED
  BY <1>2 DEF broad, delete, ambiguous

(***************************************************************************)
(* There is one refspec exactly when there are two words, and it is the    *)
(* second of them.                                                         *)
(***************************************************************************)
LEMMA OneSpec ==
    ASSUME NEW words \in Seq(Tokens), Len(TheSpecs(words)) = 1
    PROVE  /\ Len(words) = 2
           /\ DOMAIN TheSpecs(words) = {1}
           /\ TheSpecs(words)[1] = AsSpec(words[2])
<1>1. Len(words) \in Nat
  OBVIOUS
<1>2. PICK n \in Nat : 1 .. (Len(words) - 1) = 1 .. n /\ (Len(words) # 0 => n = Len(words) - 1)
                       /\ (Len(words) = 0 => n = 0)
  <2>1. CASE Len(words) = 0
    <3>1. 1 .. (Len(words) - 1) = 1 .. 0
      BY <2>1
    <3> QED
      BY <2>1, <3>1
  <2>2. CASE Len(words) # 0
    BY <1>1, <2>2
  <2> QED
    BY <2>1, <2>2
<1>3. TheSpecs(words) = [i \in 1 .. n |-> AsSpec(words[i + 1])]
  BY <1>2 DEF TheSpecs
<1>4. Len(TheSpecs(words)) = n
  BY <1>3
<1> QED
  BY <1>1, <1>2, <1>3, <1>4

(***************************************************************************)
(* What is known of a word read as a refspec: its sides are of the known   *)
(* forms, git's name for one has the same branch, and without a colon the  *)
(* two sides are the same.                                                 *)
(***************************************************************************)
LEMMA SpecShape ==
    ASSUME NEW w \in Tokens
    PROVE  /\ AsSpec(w).plus \in BOOLEAN /\ AsSpec(w).colon \in BOOLEAN
           /\ AsSpec(w).dst.form \in Forms
           /\ AsSpec(w).dst.form \in {"heads", "short"} => GitRef(AsSpec(w).dst).form = "short"
           /\ GitRef(AsSpec(w).dst).branch = AsSpec(w).dst.branch
           /\ GitRef(AsSpec(w).src).branch = AsSpec(w).src.branch
<1>1. CASE w \in Words
  <2>1. PICK r \in [plus : BOOLEAN, colon : BOOLEAN, src : Names, dst : Names] : r = AsSpec(w)
    BY <1>1, SpecAssumption DEF AsSpec
  <2> QED
    BY <2>1 DEF Names, GitRef
<1>2. CASE w \notin Words
  <2>1. PICK name : name = [form |-> "short", branch |-> w]
    OBVIOUS
  <2>2. AsSpec(w) = [plus |-> FALSE, colon |-> FALSE, src |-> name, dst |-> name]
    BY <1>2, <2>1 DEF AsSpec
  <2>3. name.form = "short" /\ name.branch = w /\ GitRef(name) = name
    BY <2>1 DEF GitRef
  <2> QED
    BY <2>2, <2>3 DEF Forms
<1> QED
  BY <1>1, <1>2

(***************************************************************************)
(* What git makes of a command whose options parse_push recognises, in     *)
(* terms of parse_push's own scan.                                         *)
(***************************************************************************)
LEMMA GitReads ==
    ASSUME NEW argv \in Seq(Tokens),
           \A o \in Found(argv).options : Recognised(o),
           NEW u, u \in GitUpdates(argv)
    PROVE  \/ \E r \in SpecsIn(argv) :
                /\ u.ref = GitRef(r.dst)
                /\ IF Deletes(argv) \/ (r.colon /\ r.src.form = "none") THEN u.how = "delete"
                   ELSE /\ u.how = IF Forces(argv) \/ r.plus THEN "force" ELSE "update"
                        /\ u.from = GitRef(r.src)
           \/ Found(argv).options \cap WholeSets # {} /\ u.how \in {"force", "update"}
           \/ SpecsIn(argv) = {} /\ u.how = "update"
<1> DEFINE Dl(o, l) == "--delete" \in o \/ "d" \in l
           Fo(o, l) == o \cap ForceForms # {} \/ "f" \in l
           HowIn(r, o, l) == IF Dl(o, l) \/ (r.colon /\ r.src.form = "none") THEN "delete"
                           ELSE IF Fo(o, l) \/ r.plus THEN "force" ELSE "update"
           NamedIn(o, l, sp) ==
             {[ref |-> GitRef(r.dst), how |-> HowIn(r, o, l),
               from |-> IF HowIn(r, o, l) = "delete" THEN "nothing" ELSE GitRef(r.src)] : r \in sp}
           WholeIn(o, l) ==
             {[ref |-> Everything(t), from |-> Everything(t),
               how |-> IF Fo(o, l) THEN "force" ELSE "update"] : t \in o \cap WholeSets}
           CurrentIn(o, sp) ==
             IF sp = {} /\ o \cap WholeSets = {}
               THEN {[ref |-> Everything("current"), from |-> Everything("current"),
                      how |-> "update"]}
               ELSE {}
           Updates(o, l, sp) == IF "n" \in l \/ "--dry-run" \in o THEN {}
                                ELSE (NamedIn(o, l, sp) \cup WholeIn(o, l)) \cup CurrentIn(o, sp)
           LettersOf(o) == UNION {Letters(t) : t \in o}
           InFull(o) == {GitOption(t) : t \in o}
           SpecsOf(words) == {AsSpec(words[i]) : i \in 2 .. Len(words)}
           How(r) == HowIn(r, Found(argv).options, LettersIn(argv))
           Named == NamedIn(Found(argv).options, LettersIn(argv), SpecsIn(argv))
           Whole == WholeIn(Found(argv).options, LettersIn(argv))
           Current == CurrentIn(Found(argv).options, SpecsIn(argv))
<1>1. Scan(argv, GitTakesValue) = Found(argv)
  BY ScansAgree DEF Found
<1>2. InFull(Found(argv).options) = Found(argv).options
  BY RecognisedAgree
<1>3. GitUpdates(argv) = Updates(Found(argv).options, LettersIn(argv), SpecsIn(argv))
  <2>1. GitUpdates(argv) = Updates(InFull(Scan(argv, GitTakesValue).options),
                                   LettersOf(InFull(Scan(argv, GitTakesValue).options)),
                                   SpecsOf(Scan(argv, GitTakesValue).words))
    BY DEF GitUpdates
  <2>2. /\ LettersIn(argv) = LettersOf(Found(argv).options)
        /\ SpecsIn(argv) = SpecsOf(Found(argv).words)
    BY DEF LettersIn, SpecsIn
  <2> HIDE DEF Updates, LettersOf, InFull, SpecsOf
  <2> QED
    BY <1>1, <1>2, <2>1, <2>2
<1>4. u \in Named \/ u \in Whole \/ u \in Current
  <2> HIDE DEF NamedIn, WholeIn, CurrentIn
  <2> QED
    BY <1>3
<1>5. CASE u \in Named
  <2>1. PICK r \in SpecsIn(argv) :
          u = [ref |-> GitRef(r.dst), how |-> How(r),
               from |-> IF How(r) = "delete" THEN "nothing" ELSE GitRef(r.src)]
    BY <1>5
  <2>2. u.ref = GitRef(r.dst) /\ u.how = How(r)
        /\ u.from = IF How(r) = "delete" THEN "nothing" ELSE GitRef(r.src)
    BY <2>1
  <2> QED
    BY <2>2 DEF Deletes, Forces
<1>6. CASE u \in Whole
  <2>1. PICK t \in Found(argv).options \cap WholeSets :
          u = [ref |-> Everything(t), from |-> Everything(t),
               how |-> IF Fo(Found(argv).options, LettersIn(argv)) THEN "force" ELSE "update"]
    BY <1>6
  <2>2. u.how = IF Fo(Found(argv).options, LettersIn(argv)) THEN "force" ELSE "update"
    BY <2>1
  <2> QED
    BY <2>2
<1>7. CASE u \in Current
  <2>1. SpecsIn(argv) = {} /\ u = [ref |-> Everything("current"), from |-> Everything("current"),
                           how |-> "update"]
    BY <1>7
  <2> QED
    BY <2>1
<1> QED
  BY <1>4, <1>5, <1>6, <1>7
(***************************************************************************)
(* A command that becomes git.push.feature has one refspec and only        *)
(* recognised options, none of which forces, broadens or deletes, and the  *)
(* refspec names one branch inside feature/ as the place to write to.      *)
(***************************************************************************)
LEMMA StandingHas ==
    ASSUME NEW argv \in Seq(Tokens), NormalizePush(argv).action = "git.push.feature"
    PROVE  /\ \A o \in Found(argv).options : Recognised(o)
           /\ Len(Found(argv).words) = 2
           /\ Found(argv).options \cap ForceForms = {}
           /\ Found(argv).options \cap BroadPushFlags = {}
           /\ "f" \notin LettersIn(argv) /\ "d" \notin LettersIn(argv)
           /\ ~ Second(argv).plus /\ ~ (Second(argv).colon /\ Second(argv).src.form = "none")
           /\ Second(argv).dst.form \in {"heads", "short"} /\ Second(argv).dst.branch \in Features
           /\ NormalizePush(argv).arguments.ref.branch = Second(argv).dst.branch
           /\ NormalizePush(argv).arguments.source = Second(argv).src.branch
<1> DEFINE r == Second(argv)
           p == ParsePush(argv)
           s == p.refspecs[1]
           ref == IF p.ambiguous THEN NoRef ELSE DestinationRef(s)
           became == [action |-> "git.push.feature",
                      arguments |-> [ref |-> ref, effect |-> EffectKind(p),
                                     payload |-> EffectPayload(p, ref), source |-> s.src.branch]]
<1>1. ~ (\/ p.ambiguous \/ p.broad \/ EffectKind(p) = "force" \/ Consequential(s))
      /\ ref.branch \in Features /\ NormalizePush(argv) = became
  BY DEF NormalizePush, Refused
<1>2. /\ NormalizePush(argv).arguments.ref = ref
      /\ NormalizePush(argv).arguments.source = s.src.branch
  BY <1>1
<1>3. Found(argv) \in Scans
  BY ScansAgree DEF Found
<1>4. Len(Refspecs(argv)) = 1 /\ \A o \in Found(argv).options : Recognised(o)
  BY <1>1, Parsed
<1>5. Len(Found(argv).words) = 2 /\ DOMAIN Refspecs(argv) = {1} /\ s = r
  BY <1>3, <1>4, Parsed, OneSpec DEF Scans, Refspecs, Second
<1>6. Found(argv).options \cap BroadPushFlags = {} /\ "d" \notin LettersIn(argv)
  BY <1>1, Parsed
<1>7. Label(r) # "none" /\ ~ r.plus
  BY <1>1, <1>5 DEF Consequential
<1>8. Found(argv).words[2] \in Tokens
  BY <1>3, <1>5 DEF Scans
<1>9. ~ IsDeletion(r) /\ r.dst.form \in {"heads", "short"} /\ Label(r) = r.dst.branch
  BY <1>7, <1>8, SpecShape DEF Label, IsDeletion, Forms, Second
<1>10. ~ p.delete
  <2>1. "--delete" \notin Found(argv).options
    BY <1>6 DEF BroadPushFlags
  <2>2. Refspecs(argv)[1] = r
    BY <1>5, Parsed
  <2> QED
    BY <1>5, <1>6, <1>9, <2>1, <2>2, Parsed DEF Deletes
<1>11. Found(argv).options \cap ForceForms = {} /\ "f" \notin LettersIn(argv)
  <2>1. ~ p.force
    BY <1>1, <1>10 DEF EffectKind
  <2> QED
    BY <2>1, Parsed DEF Forces
<1>12. ref.branch = r.dst.branch
  <2>1. ref = DestinationRef(r)
    BY <1>1, <1>5
  <2> QED
    BY <1>7, <1>9, <2>1 DEF DestinationRef
<1>13. ~ (r.colon /\ r.src.form = "none")
  BY <1>9 DEF IsDeletion
<1>14. /\ NormalizePush(argv).arguments.ref.branch = r.dst.branch /\ r.dst.branch \in Features
       /\ NormalizePush(argv).arguments.source = r.src.branch
  BY <1>1, <1>2, <1>5, <1>12
<1> HIDE DEF r
<1>15. ~ r.plus /\ r.dst.form \in {"heads", "short"}
  BY <1>7, <1>9
<1> QED
  BY ONLY <1>4, <1>5, <1>6, <1>11, <1>13, <1>14, <1>15 DEF r

(***************************************************************************)
(* All that git would do with such a command is one plain update of that   *)
(* branch from the source that is bound.                                   *)
(***************************************************************************)
THEOREM StandingIsNarrow ==
    ASSUME NEW argv \in Seq(Tokens), NormalizePush(argv).action = "git.push.feature",
           NEW u \in GitUpdates(argv)
    PROVE  /\ u.how = "update"
           /\ u.ref.form = "short"
           /\ u.ref.branch = NormalizePush(argv).arguments.ref.branch
           /\ u.ref.branch \in Features
           /\ u.from.branch = NormalizePush(argv).arguments.source
<1> DEFINE r == Second(argv)
<1>1. /\ \A o \in Found(argv).options : Recognised(o)
      /\ Len(Found(argv).words) = 2
      /\ Found(argv).options \cap ForceForms = {} /\ Found(argv).options \cap BroadPushFlags = {}
      /\ "f" \notin LettersIn(argv) /\ "d" \notin LettersIn(argv)
      /\ ~ r.plus /\ ~ (r.colon /\ r.src.form = "none")
      /\ r.dst.form \in {"heads", "short"} /\ r.dst.branch \in Features
      /\ NormalizePush(argv).arguments.ref.branch = r.dst.branch
      /\ NormalizePush(argv).arguments.source = r.src.branch
  BY StandingHas
<1>2. SpecsIn(argv) = {r}
  BY <1>1 DEF SpecsIn, Second
<1>3. Found(argv).options \cap WholeSets = {} /\ ~ Deletes(argv) /\ ~ Forces(argv)
  BY <1>1 DEF WholeSets, BroadPushFlags, Deletes, Forces
<1>4. u.ref = GitRef(r.dst) /\ u.how = "update" /\ u.from = GitRef(r.src)
  <2>1. \E q \in SpecsIn(argv) :
          /\ u.ref = GitRef(q.dst)
          /\ IF Deletes(argv) \/ (q.colon /\ q.src.form = "none")
               THEN u.how = "delete"
               ELSE /\ u.how = IF Forces(argv) \/ q.plus
                                 THEN "force" ELSE "update"
                    /\ u.from = GitRef(q.src)
    BY <1>1, <1>2, <1>3, GitReads
  <2> QED
    BY <1>1, <1>2, <1>3, <2>1
<1>5. Found(argv).words[2] \in Tokens
  <2>1. Found(argv) \in Scans
    BY ScansAgree DEF Found
  <2> QED
    BY <1>1, <2>1 DEF Scans
<1>6. /\ GitRef(r.dst).form = "short" /\ GitRef(r.dst).branch = r.dst.branch
       /\ GitRef(r.src).branch = r.src.branch
  BY <1>1, <1>5, SpecShape DEF Second
<1> QED
  BY <1>1, <1>4, <1>6

(***************************************************************************)
(* A command, its options written in full, that git reads as a deletion    *)
(* among other things has the effect "delete", if it has any.              *)
(***************************************************************************)
THEOREM DeletionsAreNamed ==
    ASSUME NEW argv \in Seq(Tokens), NormalizePush(argv).action # "none",
           \A i \in DOMAIN argv : argv[i] \in Options => Recognised(argv[i]),
           NEW u \in GitUpdates(argv), u.how = "delete"
    PROVE  NormalizePush(argv).arguments.effect = "delete"
<1> DEFINE p == ParsePush(argv)
           ref == IF p.ambiguous THEN NoRef ELSE DestinationRef(p.refspecs[1])
           facts == [ref |-> ref, effect |-> EffectKind(p), payload |-> EffectPayload(p, ref)]
           became == [action |-> "git.push.feature",
                      arguments |-> [ref |-> ref, effect |-> facts.effect,
                                     payload |-> facts.payload,
                                     source |-> p.refspecs[1].src.branch]]
<1>1. NormalizePush(argv).arguments.effect = EffectKind(p)
  <2>1. \/ NormalizePush(argv) = [action |-> "git.history.rewrite", arguments |-> facts]
        \/ NormalizePush(argv) = became
    BY DEF NormalizePush, Refused
  <2> QED
    BY <2>1
<1>2. Found(argv) \in Scans /\ Found(argv).options \subseteq ToSet(argv)
  BY ScansAgree DEF Found
<1>3. \A o \in Found(argv).options : Recognised(o)
  BY <1>2 DEF Scans, ToSet
<1>4. \/ Deletes(argv)
      \/ \E r \in SpecsIn(argv) : r.colon /\ r.src.form = "none"
  BY <1>3, GitReads
<1>5. ASSUME NEW r \in SpecsIn(argv), r.colon, r.src.form = "none"
      PROVE  \E i \in DOMAIN Refspecs(argv) : IsDeletion(Refspecs(argv)[i])
  <2>1. PICK i \in 2 .. Len(Found(argv).words) : r = AsSpec(Found(argv).words[i])
    BY DEF SpecsIn
  <2>2. Len(Found(argv).words) \in Nat
    BY <1>2 DEF Scans
  <2>3. /\ i - 1 \in 1 .. (Len(Found(argv).words) - 1)
        /\ (i - 1) + 1 = i
    BY <2>2
  <2>4. i - 1 \in DOMAIN Refspecs(argv) /\ Refspecs(argv)[i - 1] = r
    BY <2>1, <2>3 DEF Refspecs, TheSpecs
  <2> QED
    BY <1>5, <2>4 DEF IsDeletion
<1>6. p.delete
  BY <1>4, <1>5, Parsed
<1> QED
  BY <1>1, <1>6 DEF EffectKind
-----------------------------------------------------------------------------
(***************************************************************************)
(* The session: what each command of it has become.                        *)
(***************************************************************************)
\* A command over the known tokens became what NormalizePush makes of it; or it was a
\* stranger's, and refused.
Explained(n) ==
    n.argv \in Seq(Tokens) /\ n.became \in {Refused, NormalizePush(n.argv)}

IInv == /\ command \in Seq(Tokens) /\ Len(command) <= MaxTokens
        /\ \A n \in normalized : Explained(n)

(***************************************************************************)
(* What NormalizePush answers with, whatever the command.                  *)
(***************************************************************************)
LEMMA PushBecomes ==
    ASSUME NEW argv
    PROVE  NormalizePush(argv).action \in {"none", "git.history.rewrite", "git.push.feature"}
<1> DEFINE p == ParsePush(argv)
           ref == IF p.ambiguous THEN NoRef ELSE DestinationRef(p.refspecs[1])
           facts == [ref |-> ref, effect |-> EffectKind(p), payload |-> EffectPayload(p, ref)]
           bound == [ref |-> ref, effect |-> facts.effect, payload |-> facts.payload,
                     source |-> p.refspecs[1].src.branch]
<1>1. \/ NormalizePush(argv) = Refused
      \/ NormalizePush(argv) = [action |-> "git.history.rewrite", arguments |-> facts]
      \/ NormalizePush(argv) = [action |-> "git.push.feature", arguments |-> bound]
  BY DEF NormalizePush
<1> HIDE DEF facts, bound
<1> QED
  BY <1>1 DEF Refused

(***************************************************************************)
(* Initially nothing is written and nothing normalized.                    *)
(***************************************************************************)
LEMMA InitIInv == Init => IInv
BY BoundsAssumption DEF Init, IInv

(***************************************************************************)
(* Each word written keeps the command one over the known tokens, and each *)
(* command added is explained.                                             *)
(***************************************************************************)
LEMMA NextIInv == IInv /\ [Next]_vars => IInv'
<1> SUFFICES ASSUME IInv, [Next]_vars
             PROVE  IInv'
  OBVIOUS
<1>1. ASSUME NEW t \in Tokens, Write(t)
      PROVE  IInv'
  <2>1. /\ command' = Append(command, t) /\ normalized' = normalized
        /\ Len(command) < MaxTokens /\ command \in Seq(Tokens)
    BY <1>1 DEF Write, IInv
  <2>2. command' \in Seq(Tokens) /\ Len(command') <= MaxTokens
    BY <2>1, BoundsAssumption
  <2> QED
    BY <2>1, <2>2 DEF IInv
<1>2. ASSUME NEW actor, Push(actor)
      PROVE  IInv'
  <2>1. PICK n : n = [argv |-> command,
                      became |-> IF actor \in Actors THEN NormalizePush(command) ELSE Refused]
    OBVIOUS
  <2>2. normalized' = normalized \cup {n} /\ command' = <<>>
    BY <1>2, <2>1 DEF Push
  <2>3. n.argv = command /\ n.became \in {Refused, NormalizePush(command)}
    BY <2>1
  <2>4. Explained(n)
    BY <2>3 DEF Explained, IInv
  <2> QED
    BY <2>2, <2>4, BoundsAssumption DEF IInv
<1>3. ASSUME UNCHANGED vars
      PROVE  IInv'
  BY <1>3 DEF IInv, vars
<1> QED
  BY <1>1, <1>2, <1>3 DEF Next

(***************************************************************************)
(* Every command a session has normalized is explained.                    *)
(***************************************************************************)
THEOREM Invariance == Normalizing => []IInv
BY InitIInv, NextIInv, PTL DEF Normalizing

(***************************************************************************)
(* Only the three outcomes of _normalize_git occur.                        *)
(***************************************************************************)
THEOREM TypeCorrect == Normalizing => []TypeOK
<1>1. IInv => TypeOK
  <2>1. /\ Refused.action = "none"
        /\ {"none", "git.history.rewrite", "git.push.feature"} \subseteq Capabilities
    BY DEF Refused, Capabilities
  <2> QED
    BY <2>1, PushBecomes DEF IInv, TypeOK, Explained
<1> QED
  BY <1>1, Invariance, PTL

(***************************************************************************)
(* Whatever a session has pushed as the standing git.push.feature, git     *)
(* would do one plain update of one feature branch with it.                *)
(***************************************************************************)
THEOREM StandingPushIsNarrowAlways == Normalizing => []StandingPushIsNarrow
<1>1. IInv => StandingPushIsNarrow
  <2> SUFFICES ASSUME IInv, NEW n \in normalized, n.became.action = "git.push.feature",
                      NEW u \in GitUpdates(n.argv)
               PROVE  /\ u.how = "update"
                      /\ u.ref.form = "short"
                      /\ u.ref.branch = n.became.arguments.ref.branch
                      /\ u.ref.branch \in Features
                      /\ u.from.branch = n.became.arguments.source
    BY DEF StandingPushIsNarrow
  <2>1. n.argv \in Seq(Tokens) /\ n.became \in {Refused, NormalizePush(n.argv)}
    BY DEF IInv, Explained
  <2>2. n.became = NormalizePush(n.argv)
    BY <2>1 DEF Refused
  <2> QED
    BY <2>1, <2>2, StandingIsNarrow
<1> QED
  BY <1>1, Invariance, PTL

(***************************************************************************)
(* Whatever deletion git would read in a command of a session whose        *)
(* options are all recognised, it is described to the Gate as one.         *)
(***************************************************************************)
THEOREM DeletionIsNamedAlways == Normalizing => []DeletionIsNamed
<1>1. IInv => DeletionIsNamed
  <2> SUFFICES ASSUME IInv, NEW n \in normalized, n.became.action # "none",
                      \A i \in DOMAIN n.argv :
                         n.argv[i] \in Options => Recognised(n.argv[i]),
                      NEW u \in GitUpdates(n.argv), u.how = "delete"
               PROVE  n.became.arguments.effect = "delete"
    BY DEF DeletionIsNamed
  <2>1. n.argv \in Seq(Tokens) /\ n.became \in {Refused, NormalizePush(n.argv)}
    BY DEF IInv, Explained
  <2>2. n.became = NormalizePush(n.argv)
    BY <2>1 DEF Refused
  <2> QED
    BY <2>1, <2>2, DeletionsAreNamed
<1> QED
  BY <1>1, Invariance, PTL

==============================================================================
