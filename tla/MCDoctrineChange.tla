--------------------------- MODULE MCDoctrineChange ---------------------------
(***************************************************************************)
(* An instance of DoctrineChange for TLC.  The documents are one base      *)
(* document and what an edit or two make of it.                            *)
(***************************************************************************)
EXTENDS DoctrineChange, TLC

CONSTANTS p1, p2

Scoped(prefixes) == [kind |-> "path_prefix", prefixes |-> prefixes]

Edit == [action |-> "edit", purpose |-> "why", standing |-> "allow", scope |-> Scoped(<<"src/", "doc/">>),
         reversibility |-> "reversible", effects |-> <<"e1", "e2">>, requires |-> <<"f1", "f2">>]
Merge == [action |-> "merge", purpose |-> "why", standing |-> "ask", scope |-> [kind |-> "unrestricted"],
          reversibility |-> "irreversible", effects |-> <<"e1">>, requires |-> None]
Play == [Merge EXCEPT !.action = "play"]

Base ==
    [schema |-> "v1", profile |-> "home",
     human |-> [id |-> "h", note |-> None],
     project |-> [id |-> "p", display_name |-> "P", root_scope |-> "src/", canonical_repository |-> "r"],
     actors |-> [lucy |-> [trusted |-> TRUE, merge_authority |-> None, role |-> "r"]],
     public_identity |-> [subject |-> "s", note |-> None],
     external_upload |-> [known_destinations |-> <<"d1", "d2">>, note |-> None],
     promotional_credit |-> [provider |-> "v", currency |-> "EUR", per_call_limit_cents |-> 1, note |-> None],
     capabilities |-> <<Edit, Merge>>]

First(c) == [Base EXCEPT !.capabilities[1] = c]

MCContent ==
    "base"     :> Base
 @@ "profile"  :> [Base EXCEPT !.profile = "work"]
 @@ "human"    :> [Base EXCEPT !.human = [id |-> "g", note |-> "n"]]
 @@ "project"  :> [Base EXCEPT !.project.canonical_repository = "s", !.project.display_name = "Q"]
 @@ "scope"    :> [Base EXCEPT !.project.root_scope = "/", !.project.id = "q"]
 @@ "actor"    :> [Base EXCEPT !.actors.lucy = [trusted |-> FALSE, merge_authority |-> TRUE, role |-> "q"]]
 @@ "merger"   :> [Base EXCEPT !.actors.lucy.merge_authority = FALSE]
 @@ "actors"   :> [Base EXCEPT !.actors = [eve |-> Base.actors.lucy]]
 @@ "identity" :> [Base EXCEPT !.public_identity = [subject |-> "t", note |-> "n"]]
 @@ "dest"     :> [Base EXCEPT !.external_upload.known_destinations = <<"d2", "d3">>]
 @@ "destord"  :> [Base EXCEPT !.external_upload.known_destinations = <<"d2", "d1">>, !.external_upload.note = "n"]
 @@ "destmix"  :> [Base EXCEPT !.external_upload.known_destinations = <<"d2", "d1", "d3">>]
 @@ "limit"    :> [Base EXCEPT !.promotional_credit.per_call_limit_cents = 2]
 @@ "credit"   :> [Base EXCEPT !.promotional_credit.provider = "w", !.promotional_credit.currency = "USD",
                               !.promotional_credit.note = "n"]
 @@ "words"    :> First([Edit EXCEPT !.purpose = "because"])
 @@ "standing" :> First([Edit EXCEPT !.standing = "ask"])
 @@ "effects"  :> First([Edit EXCEPT !.effects = <<"e2", "e1">>])
 @@ "facts"    :> First([Edit EXCEPT !.requires = None])
 @@ "prefixes" :> First([Edit EXCEPT !.scope = Scoped(<<"doc/", "src/">>)])
 @@ "wider"    :> First([Edit EXCEPT !.scope = Scoped(<<"src/">>)])
 @@ "free"     :> First([Edit EXCEPT !.scope = [kind |-> "unrestricted"], !.reversibility = "compensatable"])
 @@ "order"    :> [Base EXCEPT !.capabilities = <<Merge, Edit>>]
 @@ "more"     :> [Base EXCEPT !.capabilities = <<Play, Merge, Edit>>]
 @@ "twice"    :> [Base EXCEPT !.capabilities = <<Merge, Merge>>]
 @@ "nothing"  :> [Base EXCEPT !.promotional_credit.per_call_limit_cents = 0]
 @@ "empty"    :> [schema |-> "v1"]
 @@ "extra"    :> (Base @@ ("owner" :> "eve"))
 @@ "odd"      :> First([Edit EXCEPT !.scope = [kind |-> "unrestricted", prefixes |-> <<"src/">>]])
 @@ "old0"     :> [Base EXCEPT !.schema = "v0"]
 @@ "old00"    :> [Base EXCEPT !.schema = "v00"]
 @@ "next"     :> [Base EXCEPT !.schema = "v2"]

MCDocuments == DOMAIN MCContent

Sound == {n \in MCDocuments : n \notin {"twice", "nothing", "empty", "extra", "odd", "old0", "old00", "next"}}

\* The registries a release could ship: none (this one), a chain, a chain with a
\* cycle, a step that lands elsewhere, one that makes an invalid document, one
\* that makes none.
Step(source, target, from, to) ==
    [source |-> source, target |-> target, function |-> [n \in MCDocuments |-> IF n = from THEN to ELSE None]]

Registries ==
    {<<>>,
     <<Step("v00", "v0", "old00", "old0"), Step("v0", "v1", "old0", "base")>>,
     <<Step("v00", "v0", "old00", "old0"), Step("v0", "v00", "old0", "old00"), Step("v0", "v1", "old0", "base")>>,
     <<Step("v00", "v0", "old00", "next"), Step("v0", "v1", "old0", "twice")>>,
     <<Step("v00", "v0", "old0", "base")>>}

Sent(doctrine, digest) == [doctrine |-> doctrine, schema |-> MCContent[doctrine].schema, digest |-> digest]

MCEnvelopes ==
    {Sent(n, "base") : n \in {"old0", "old00", "next", "words"}}
        \cup {Sent(n, n) : n \in {"twice", "nothing", "empty", "extra", "odd", "old0", "next"}}
        \cup {[doctrine |-> "old0", schema |-> "v1", digest |-> "base"]}

\* The base and each other document in the store, one of them active, and a file that
\* is no doctrine; a file somebody edits between the diffs; and the imports, from an
\* empty store or from one with a doctrine.
Start(r, f, e, c, a, n) ==
    [registry |-> r, file |-> f, envelope |-> e, candidates |-> c, active |-> a, edits |-> n]

Pairs == ({"base"} \X Sound) \cup {<<"more", "order">>, <<"free", "wider">>, <<"actors", "merger">>}
Reviews == {Start(<<>>, "nothing", None, {x[1], x[2]}, x[2], 0) : x \in Pairs}
Rewritten == {Start(<<>>, "limit", None, {}, None, 1), Start(<<>>, "limit", None, {"base"}, "base", 1)}
Imports == {Start(r, "nothing", e, c, None, 0) : r \in Registries, e \in MCEnvelopes, c \in {{}, {"limit"}}}

MCSituations == Reviews \cup Rewritten \cup Imports
=============================================================================
