---------------------------- MODULE DoctrineChange ----------------------------
(***************************************************************************)
(* How a doctrine is changed: exported, imported through the schema        *)
(* migrations, compared with the active one and adopted                    *)
(* (permission_slip/doctrine_contract.py, doctrine_export.py,              *)
(* doctrine_diff.py, doctrine.py and the doctrine commands of              *)
(* __main__.py).  People work on one doctrine file, one export file and    *)
(* one store; the store's adoption is the one compare-and-swap that        *)
(* DoctrineStore implements.                                               *)
(*                                                                         *)
(* A document is named, and Content gives its fields; the canonical digest *)
(* identifies a document, so the name stands for the digest too.  Wording  *)
(* that the program treats alike is one field of each section.             *)
(***************************************************************************)
EXTENDS Naturals, Sequences, FiniteSets, SequencesExt

CONSTANTS
    People,
    Documents,      \* names of documents
    Content,        \* Content[n]: the document named n
    SchemaId,       \* the schema this release speaks
    Shapes,         \* CAPABILITY_SHAPES: actions the compiler knows
    Situations,     \* what people start from
    Drafts,         \* what somebody may write into the doctrine file
    Envelopes,      \* what somebody may put in the place of the export file
    None

ASSUME DocumentsAssumption == \A m, n \in Documents : Content[m] = Content[n] => m = n
ASSUME SourcesAssumption ==
    /\ Drafts \subseteq Documents
    /\ \A e \in Envelopes : e.doctrine \in Documents
    /\ \A s \in Situations :
         /\ s.file \in Documents /\ s.candidates \subseteq Documents
         /\ s.active \in s.candidates \cup {None}
         /\ s.envelope = None \/ s.envelope.doctrine \in Documents
         /\ s.registry \in Seq(ToSet(s.registry))
         /\ \A step \in ToSet(s.registry) : step.function \in [Documents -> Documents \cup {None}]
ASSUME BoundsAssumption == None \notin Documents /\ \A s \in Situations : s.edits \in Nat

VARIABLES
    registry,    \* MIGRATIONS of the release
    file,        \* the document in the doctrine file
    envelope,    \* the export file: [doctrine, schema, digest], or None
    candidates,  \* the store's candidates
    active,      \* the document the active pointer names, or None
    task,        \* the command each person is in the middle of
    review,      \* the last diff each person was shown, or None
    edits        \* bound: how often somebody may still edit the file or the export

vars == <<registry, file, envelope, candidates, active, task, review, edits>>

-----------------------------------------------------------------------------
(***************************************************************************)
(* The contract.                                                           *)
(***************************************************************************)
\* An object has these fields and no others; None stands for one that is left out.
Object(o, fields) == DOMAIN o = fields /\ o = [f \in DOMAIN o |-> o[f]]

ShapedScope(s) ==
    \/ Object(s, {"kind"}) /\ s.kind = "unrestricted"
    \/ Object(s, {"kind", "prefixes"}) /\ s.kind # "unrestricted" /\ s.prefixes \in Seq(STRING)

ShapedCapability(c) ==
    /\ Object(c, {"action", "purpose", "standing", "scope", "reversibility", "effects", "requires"})
    /\ ShapedScope(c.scope)
    /\ c.effects \in Seq(STRING)
    /\ c.requires = None \/ c.requires \in Seq(STRING)

\* The fields a document may have, and which of them are lists.
Shaped(d) ==
    /\ Object(d, {"schema", "profile", "human", "project", "actors", "public_identity",
                  "external_upload", "promotional_credit", "capabilities"})
    /\ Object(d.human, {"id", "note"})
    /\ Object(d.project, {"id", "display_name", "root_scope", "canonical_repository"})
    /\ Object(d.actors, DOMAIN d.actors)
    /\ \A x \in DOMAIN d.actors : Object(d.actors[x], {"trusted", "merge_authority", "role"})
    /\ Object(d.public_identity, {"subject", "note"})
    /\ Object(d.external_upload, {"known_destinations", "note"})
    /\ d.external_upload.known_destinations \in Seq(STRING)
    /\ Object(d.promotional_credit, {"provider", "currency", "note", "per_call_limit_cents"})
    /\ d.capabilities \in Seq(ToSet(d.capabilities))
    /\ \A c \in ToSet(d.capabilities) : ShapedCapability(c)

Standings == {"allow", "ask", "deny"}

Requires(c) == IF c.requires = None THEN <<>> ELSE c.requires

ValidScope(s) ==
    s.kind = "unrestricted" \/ (s.kind = "path_prefix" /\ s.prefixes # <<>>)

ValidCapability(c) ==
    /\ c.standing \in Standings
    /\ ValidScope(c.scope)
    /\ c.effects # <<>>
    /\ c.requires # <<>> /\ IsInjective(Requires(c))

ActionsOf(d) == [i \in DOMAIN d.capabilities |-> d.capabilities[i].action]

Valid(d) ==
    /\ Shaped(d)
    /\ d.schema = SchemaId
    /\ DOMAIN d.actors # {}
    /\ d.promotional_credit.per_call_limit_cents > 0
    /\ d.capabilities # <<>> /\ IsInjective(ActionsOf(d))
    /\ \A c \in ToSet(d.capabilities) : ValidCapability(c)

\* The documents the contract accepts.
Accepted == {n \in Documents : Valid(Content[n])}

\* Nothing else is ever stored.
ASSUME CandidatesAssumption == \A s \in Situations : s.candidates \subseteq Accepted

-----------------------------------------------------------------------------
(***************************************************************************)
(* What a doctrine makes the program do.                                   *)
(***************************************************************************)
\* The pinned digest covers neither the title nor the description, which is where
\* the purpose goes.
Manifest(c) ==
    [action |-> c.action, effects |-> c.effects, reversibility |-> c.reversibility,
     scope |-> c.scope, standing_permitted |-> c.standing = "allow"]

Unsupported(c) ==
    c.action \notin Shapes \/ (c.standing = "allow" /\ c.scope.kind # "path_prefix")

Compiled(d) ==
    IF \E c \in ToSet(d.capabilities) : Unsupported(c)
    THEN <<>>
    ELSE [i \in DOMAIN d.capabilities |->
            LET c == d.capabilities[i] IN
              [manifest |-> Manifest(c), decision |-> c.standing,
               conditions |-> <<"actor.trusted">> \o Requires(c)]]

Adapted(d) ==
    [repository   |-> d.project.canonical_repository,
     limit        |-> d.promotional_credit.per_call_limit_cents,
     provider     |-> d.promotional_credit.provider,
     destinations |-> ToSet(d.external_upload.known_destinations),
     actors       |-> [a \in DOMAIN d.actors |->
                         <<d.actors[a].trusted, d.actors[a].merge_authority = TRUE>>]]

\* Two documents with the same Enforced make every session decide the same.
Enforced(d) == <<Compiled(d), Adapted(d)>>

-----------------------------------------------------------------------------
(***************************************************************************)
(* The diff: a set of changes, each with the path and the class it prints. *)
(***************************************************************************)
PresentationFields == {"display_name", "note", "presentation", "role", "purpose"}

Classify(field) == IF field \in PresentationFields THEN "PRESENTATION" ELSE "CONSEQUENTIAL"

Change(path, field, what) == [path |-> path, change |-> what, class |-> Classify(field)]

\* _field, for each of these fields.
FieldChanges(base, fields, b, a) ==
    {Change(Append(base, f), f, CASE b[f] = None -> <<"added">> [] a[f] = None -> <<"removed">>
                                  [] OTHER -> <<"changed">>) : f \in {g \in fields : b[g] # a[g]}}

\* faulty: lists compared as sets.
UnorderedChanges(path, field, b, a) ==
    {Change(path, field, <<"removed", x>>) : x \in ToSet(b) \ ToSet(a)}
      \cup {Change(path, field, <<"added", x>>) : x \in ToSet(a) \ ToSet(b)}

\* _ordered_strings; _diff_scope says the same of prefixes.
OrderedChanges(path, field, b, a) ==
    LET removed == ToSet(b) \ ToSet(a)
        added   == ToSet(a) \ ToSet(b)
    IN  {Change(path, field, <<"removed", x>>) : x \in removed}
          \cup {Change(path, field, <<"added", x>>) : x \in added}
          \cup IF b # a /\ removed = {} /\ added = {} THEN {Change(path, field, <<"order">>)} ELSE {}

ScopeChanges(path, b, a) ==
    CASE b.kind # a.kind         -> {Change(Append(path, "kind"), "kind", <<"changed">>)}
      [] b.kind = a.kind /\ b.kind = "unrestricted" -> {}
      [] OTHER -> OrderedChanges(Append(path, "prefixes"), "prefixes", b.prefixes, a.prefixes)

CapabilityChanges(base, b, a) ==
    FieldChanges(base, {"purpose", "standing", "reversibility"}, b, a)
        \cup ScopeChanges(Append(base, "scope"), b.scope, a.scope)
        \cup OrderedChanges(Append(base, "requires"), "fact", Requires(b), Requires(a))
        \cup OrderedChanges(Append(base, "effects"), "effect", b.effects, a.effects)

Named(d, action) == CHOOSE c \in ToSet(d.capabilities) : c.action = action

CapabilitiesChanges(b, a) ==
    LET Base(action) == <<"capabilities", action>>
        before == ToSet(ActionsOf(b))
        after  == ToSet(ActionsOf(a))
    IN  {Change(Base(x), "capability", <<"removed">>) : x \in before \ after}
          \cup {Change(Base(x), "capability", <<"added">>) : x \in after \ before}
          \cup (UNION {CapabilityChanges(Base(x), Named(b, x), Named(a, x)) : x \in before \cap after})
          \cup IF before = after /\ ActionsOf(b) # ActionsOf(a)
               THEN {Change(<<"capabilities">>, "capabilities", <<"order">>)} ELSE {}

ActorsChanges(b, a) ==
    LET before == DOMAIN b.actors
        after  == DOMAIN a.actors
    IN  {Change(<<"actors", x>>, "actor", <<"removed">>) : x \in before \ after}
          \cup {Change(<<"actors", x>>, "actor", <<"added">>) : x \in after \ before}
          \cup (UNION {FieldChanges(<<"actors", x>>, {"trusted", "merge_authority", "role"},
                                    b.actors[x], a.actors[x]) : x \in before \cap after})

Unnamed == [path |-> <<>>, change |-> <<"changed">>, class |-> "CONSEQUENTIAL"]

Diff(b, a) ==
    LET Section(name, fields) == FieldChanges(<<name>>, fields, b[name], a[name])
        changes ==
          FieldChanges(<<>>, {"profile"}, b, a)
            \cup Section("human", {"id", "note"})
            \cup Section("project", {"id", "display_name", "root_scope", "canonical_repository"})
            \cup ActorsChanges(b, a)
            \cup Section("public_identity", {"subject", "note"})
            \cup OrderedChanges(<<"external_upload", "known_destinations">>, "destination",
                                b.external_upload.known_destinations, a.external_upload.known_destinations)
            \cup Section("external_upload", {"note"})
            \cup Section("promotional_credit", {"provider", "currency", "note", "per_call_limit_cents"})
            \cup CapabilitiesChanges(b, a)
    IN  IF b # a /\ changes = {} THEN {Unnamed} ELSE changes

-----------------------------------------------------------------------------
Idle == [doing |-> "idle"]

Init ==
    /\ \E s \in Situations : /\ registry = s.registry /\ file = s.file /\ envelope = s.envelope
                             /\ candidates = s.candidates /\ active = s.active /\ edits = s.edits
    /\ task = [p \in People |-> Idle]
    /\ review = [p \in People |-> None]

Does(p, t) == task' = [task EXCEPT ![p] = t]

(***************************************************************************)
(* doctrine export <file>.  People write the file, and may put another     *)
(* export in the place of this one.                                        *)
(***************************************************************************)
EncodeExport(n) == [doctrine |-> n, schema |-> Content[n].schema, digest |-> n]

Export(p) ==
    /\ task[p].doing = "idle"
    /\ file \in Accepted
    /\ envelope' = EncodeExport(file)
    /\ UNCHANGED <<registry, file, candidates, active, task, review, edits>>

SomebodyEdits ==
    /\ edits > 0 /\ edits' = edits - 1
    /\ \/ file' \in Drafts /\ UNCHANGED envelope
       \/ envelope' \in Envelopes /\ UNCHANGED file
    /\ UNCHANGED <<registry, candidates, active, task, review>>

(***************************************************************************)
(* doctrine import <export>: decode_export, with one iteration of          *)
(* migrate_to_current a step, then the candidate.                          *)
(***************************************************************************)
BeginImport(p) ==
    /\ task[p].doing = "idle" /\ envelope # None
    /\ Content[envelope.doctrine].schema = envelope.schema
    /\ Does(p, [doing |-> "import", value |-> envelope.doctrine, visited |-> {},
                digest |-> envelope.digest])
    /\ UNCHANGED <<registry, file, envelope, candidates, active, review, edits>>

SchemaOf(p) == Content[task[p].value].schema

StepsFrom(schema) == {i \in DOMAIN registry : registry[i].source = schema}

\* The first registered step from this schema.
FirstFrom(schema) == registry[Min(StepsFrom(schema))]

\* The schema is current: the loop ends here.
Landed(p) == SchemaOf(p) = SchemaId

\* faulty: the visited set is forgotten.
NeverCycles(p) == FALSE

Cycles(p) == SchemaOf(p) \in task[p].visited

MayMigrate(p) == ~Cycles(p) /\ StepsFrom(SchemaOf(p)) # {}

\* What that step makes of the document.
Migrated(p) == FirstFrom(SchemaOf(p)).function[task[p].value]

ReachedTarget(p) ==
    Migrated(p) # None /\ Content[Migrated(p)].schema = FirstFrom(SchemaOf(p)).target

MigrateStep(p) ==
    /\ task[p].doing = "import" /\ ~Landed(p)
    /\ MayMigrate(p) /\ ReachedTarget(p)
    /\ Does(p, [task[p] EXCEPT !.visited = @ \cup {SchemaOf(p)}, !.value = Migrated(p)])
    /\ UNCHANGED <<registry, file, envelope, candidates, active, review, edits>>

\* No step, a cycle, or a step that did not land where it claimed.
MigrationFails(p) ==
    /\ task[p].doing = "import" /\ ~Landed(p)
    /\ ~(MayMigrate(p) /\ ReachedTarget(p))
    /\ Does(p, Idle)
    /\ UNCHANGED <<registry, file, envelope, candidates, active, review, edits>>

\* faulty: the digest is taken for validation.
VerifiedByDigest(p) == task[p].digest = task[p].value

Verified(p) == task[p].value \in Accepted /\ task[p].digest = task[p].value

StoreCandidate(p) ==
    /\ task[p].doing = "import" /\ Landed(p)
    /\ candidates' = IF Verified(p) THEN candidates \cup {task[p].value} ELSE candidates
    /\ Does(p, Idle)
    /\ UNCHANGED <<registry, file, envelope, active, review, edits>>

(***************************************************************************)
(* doctrine diff <before> <after>: the operands are read one after the     *)
(* other, each a file or the active doctrine.                              *)
(***************************************************************************)
Operands == Accepted \cap ({file, active} \cup candidates)

ReadBefore(p) ==
    /\ task[p].doing = "idle"
    /\ \E b \in Operands : Does(p, [doing |-> "diff", before |-> b])
    /\ UNCHANGED <<registry, file, envelope, candidates, active, review, edits>>

ShowDiff(p) ==
    /\ task[p].doing = "diff"
    /\ \E a \in Operands :
         review' = [review EXCEPT ![p] =
                      [before |-> task[p].before, after |-> a,
                       changes |-> Diff(Content[task[p].before], Content[a])]]
    /\ Does(p, Idle)
    /\ UNCHANGED <<registry, file, envelope, candidates, active, edits>>

(***************************************************************************)
(* doctrine adopt --candidate <after> --expect-current <before>, with the  *)
(* digests the diff printed; --expect-current none when none is active.    *)
(***************************************************************************)
\* faulty: the expectation is not compared.
AdoptableAnyhow(p, expect, candidate) == candidate \in candidates

Adoptable(p, expect, candidate) == active = expect /\ candidate \in candidates

Adopt(p, expect, candidate) ==
    /\ task[p].doing = "idle"
    /\ Adoptable(p, expect, candidate)
    /\ active' = candidate
    /\ UNCHANGED <<registry, file, envelope, candidates, task, review, edits>>

AdoptReviewed(p) == review[p] # None /\ Adopt(p, review[p].before, review[p].after)
AdoptFirst(p) == \E n \in candidates : Adopt(p, None, n)

-----------------------------------------------------------------------------
Import(p) == MigrateStep(p) \/ MigrationFails(p) \/ StoreCandidate(p)

Next ==
    \/ SomebodyEdits
    \/ \E p \in People :
         Export(p) \/ BeginImport(p) \/ Import(p) \/ ReadBefore(p) \/ ShowDiff(p)
           \/ AdoptReviewed(p) \/ AdoptFirst(p)

Spec == Init /\ [][Next]_vars

\* A command that was started runs to its end.
FairSpec == Spec /\ \A p \in People : WF_vars(Import(p))

-----------------------------------------------------------------------------
(* Everything in the store can be compared and compiled: it is of the      *)
(* current schema, names no action twice and grants a positive limit,      *)
(* whatever release, migration or hand an export came from                 *)
(* (doctrine_contract.py:353-360, 447-448, doctrine_export.py:15-24).      *)
TypeOK ==
    /\ file \in Documents /\ edits \in Nat
    /\ candidates \subseteq Documents
    /\ \A n \in candidates : LET d == Content[n] IN
         /\ d.schema = SchemaId /\ d.promotional_credit.per_call_limit_cents > 0
         /\ \A i, j \in DOMAIN d.capabilities :
              d.capabilities[i].action = d.capabilities[j].action => i = j
    /\ active \in candidates \cup {None}
    /\ \A p \in People : task[p].doing \in {"idle", "import", "diff"}

\* The document's values by path: what a reader of a diff wants named.
Leaves(d) ==
    LET Section(name, fields) == {<<<<name, f>>, d[name][f]>> : f \in fields}
        OfCapability(c) == {<<<<"capabilities", c.action, f>>, c[f]>> :
                              f \in {"purpose", "standing", "scope", "reversibility", "effects"}}
                             \cup {<<<<"capabilities", c.action, "requires">>, Requires(c)>>}
        OfActor(x) == {<<<<"actors", x, f>>, d.actors[x][f]>> : f \in DOMAIN d.actors[x]}
    IN  {<<<<"profile">>, d.profile>>}
          \cup Section("human", DOMAIN d.human) \cup Section("project", DOMAIN d.project)
          \cup Section("public_identity", DOMAIN d.public_identity)
          \cup Section("external_upload", DOMAIN d.external_upload)
          \cup Section("promotional_credit", DOMAIN d.promotional_credit)
          \cup (UNION {OfActor(x) : x \in DOMAIN d.actors})
          \cup (UNION {OfCapability(c) : c \in ToSet(d.capabilities)})

Moved(b, a) ==
    {leaf[1] : leaf \in (Leaves(b) \ Leaves(a)) \cup (Leaves(a) \ Leaves(b))}

Covers(path, leaf) == IsPrefix(path, leaf) \/ IsPrefix(leaf, path)

\* A diff names every field that moved: two different documents never compare as
\* unchanged nor fall to the unnamed change, every field whose value moved is covered
\* by a change, a consequential one unless it is wording, and nothing is named that did
\* not move, but for an order (doctrine_diff.py:11-17, 567-588).  A list is one value
\* here, and the order of the capabilities is none: that a list changed is named, how it
\* changed is another question (ReordersAreShown).
DiffHidesNothing ==
    \A p \in People : review[p] # None =>
        LET b == Content[review[p].before]
            a == Content[review[p].after]
            shown == review[p].changes
        IN  /\ b # a => shown # {} /\ Unnamed \notin shown
            /\ \A leaf \in Moved(b, a) : \E c \in shown :
                 /\ Covers(c.path, leaf)
                 /\ c.class = "PRESENTATION" => Last(leaf) \in {"note", "role", "purpose", "display_name"}
            /\ \A c \in shown : c.change = <<"order">> \/ \E leaf \in Moved(b, a) : Covers(c.path, leaf)

\* The ordered lists of a document by path; order is part of its identity.
Lists(d) ==
    LET OfCapability(c) ==
          {<<<<"capabilities", c.action, "effects">>, c.effects>>,
           <<<<"capabilities", c.action, "requires">>, Requires(c)>>}
            \cup IF c.scope.kind = "unrestricted" THEN {}
                 ELSE {<<<<"capabilities", c.action, "scope", "prefixes">>, c.scope.prefixes>>}
    IN  {<<<<"capabilities">>, ActionsOf(d)>>,
         <<<<"external_upload", "known_destinations">>, d.external_upload.known_destinations>>}
          \cup (UNION {OfCapability(c) : c \in ToSet(d.capabilities)})

\* Two values that both lists hold stand the other way round in the second.
Reordered(b, a) ==
    \E i, j \in DOMAIN b, k, l \in DOMAIN a :
        i < j /\ b[i] # b[j] /\ l < k /\ b[i] = a[k] /\ b[j] = a[l]

\* doctrine_diff.py:19-20: "a reorder is reported as a change even when the sets of values
\* match"; doctrine_diff.py:142: two ordered lists are compared "without hiding a
\* reorder".  Where two values change places a diff says that the order changed.  Does
\* not hold where something was added or removed besides (doctrine_diff.py:167).
ReordersAreShown ==
    \A p \in People : review[p] # None =>
        \A l \in Lists(Content[review[p].before]), m \in Lists(Content[review[p].after]) :
            l[1] = m[1] /\ Reordered(l[2], m[2]) =>
                \E c \in review[p].changes : c.path = l[1] /\ c.change = <<"order">>

\* Whoever moves the doctrine has seen the move: an adoption that replaces a
\* doctrine replaces the one in its diff, with what the diff showed, and when the
\* two are enforced differently the diff said CONSEQUENTIAL - although others
\* adopt and edit between the diff and the adoption (README.md:94-115,
\* doctrine_store.py:280-299).
AdoptedAsReviewed ==
    [][active # None /\ active' # active =>
         \E p \in People :
           /\ review[p] # None /\ review[p].before = active /\ review[p].after = active'
           /\ Enforced(Content[active]) # Enforced(Content[active']) =>
                \E c \in review[p].changes : c.class = "CONSEQUENTIAL"]_vars

\* An import ends, whatever the registry: a cycle is refused rather than looping
\* (doctrine_contract.py:429-431).
ImportsEnd == \A p \in People : task[p].doing = "import" ~> task[p].doing # "import"
=============================================================================
