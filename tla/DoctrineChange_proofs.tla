------------------------- MODULE DoctrineChange_proofs -------------------------
(***************************************************************************)
(* The diff of two doctrines names every field that moved, for any two     *)
(* documents the contract accepts and not only for those TLC compares; and *)
(* whoever moves the doctrine has seen the move, for any number of people, *)
(* documents and migrations, and whoever edits in between.                 *)
(*                                                                         *)
(* The first part is about the values of two documents by path, and about  *)
(* the changes the diff finds: each field that differs is a leaf that      *)
(* moved and a change that is shown.  The second part is the invariant of  *)
(* the commands.                                                           *)
(***************************************************************************)
EXTENDS DoctrineChange, SequenceTheorems, WellFoundedInduction, TLAPS

-----------------------------------------------------------------------------
(***************************************************************************)
(* Paths.                                                                  *)
(***************************************************************************)

(***************************************************************************)
(* One more step of a path.                                                *)
(***************************************************************************)
LEMMA PathsGrow ==
    \A x, y, z, f : /\ Append(<<>>, f) = <<f>>
                    /\ Append(<<x>>, f) = <<x, f>>
                    /\ Append(<<x, y>>, f) = <<x, y, f>>
                    /\ Append(<<x, y, z>>, f) = <<x, y, z, f>>
<1> TAKE x, y, z, f
<1> DEFINE Names == {x, y, z, f}
<1>1. Append(<<>>, f) = <<f>>
  <2>1. <<>> \in Seq(Names) /\ <<f>> \in Seq(Names) /\ Len(<<>>) = 0
    OBVIOUS
  <2>2. Append(<<>>, f) \in Seq(Names) /\ Len(Append(<<>>, f)) = 1 /\ Append(<<>>, f)[1] = f
    BY <2>1, AppendProperties
  <2> QED
    BY <2>1, <2>2, SeqEqual
<1>2. Append(<<x>>, f) = <<x, f>>
  <2>1. <<x>> \in Seq(Names) /\ <<x, f>> \in Seq(Names) /\ Len(<<x>>) = 1
    OBVIOUS
  <2>2. /\ Append(<<x>>, f) \in Seq(Names) /\ Len(Append(<<x>>, f)) = 2
        /\ Append(<<x>>, f)[1] = x /\ Append(<<x>>, f)[2] = f
    BY <2>1, AppendProperties
  <2>3. Len(<<x, f>>) = 2 /\ \A i \in 1 .. 2 : Append(<<x>>, f)[i] = <<x, f>>[i]
    BY <2>2
  <2> QED
    BY <2>1, <2>2, <2>3, SeqEqual
<1>3. Append(<<x, y>>, f) = <<x, y, f>>
  <2>1. <<x, y>> \in Seq(Names) /\ <<x, y, f>> \in Seq(Names) /\ Len(<<x, y>>) = 2
    OBVIOUS
  <2>2. /\ Append(<<x, y>>, f) \in Seq(Names) /\ Len(Append(<<x, y>>, f)) = 3
        /\ Append(<<x, y>>, f)[1] = x /\ Append(<<x, y>>, f)[2] = y /\ Append(<<x, y>>, f)[3] = f
    BY <2>1, AppendProperties
  <2>3. Len(<<x, y, f>>) = 3 /\ \A i \in 1 .. 3 : Append(<<x, y>>, f)[i] = <<x, y, f>>[i]
    BY <2>2
  <2> QED
    BY <2>1, <2>2, <2>3, SeqEqual
<1>4. Append(<<x, y, z>>, f) = <<x, y, z, f>>
  <2>1. <<x, y, z>> \in Seq(Names) /\ <<x, y, z, f>> \in Seq(Names) /\ Len(<<x, y, z>>) = 3
    OBVIOUS
  <2>2. /\ Append(<<x, y, z>>, f) \in Seq(Names) /\ Len(Append(<<x, y, z>>, f)) = 4
        /\ Append(<<x, y, z>>, f)[1] = x /\ Append(<<x, y, z>>, f)[2] = y
        /\ Append(<<x, y, z>>, f)[3] = z /\ Append(<<x, y, z>>, f)[4] = f
    BY <2>1, AppendProperties
  <2>3. Len(<<x, y, z, f>>) = 4 /\ \A i \in 1 .. 4 : Append(<<x, y, z>>, f)[i] = <<x, y, z, f>>[i]
    BY <2>2
  <2> QED
    BY <2>1, <2>2, <2>3, SeqEqual
<1> QED
  BY <1>1, <1>2, <1>3, <1>4

(***************************************************************************)
(* Paths of different lengths are different.                               *)
(***************************************************************************)
LEMMA PathsDiffer ==
    \A u, v, w, x, y, z : <<u>> # <<v, w>> /\ <<u>> # <<x, y, z>> /\ <<v, w>> # <<x, y, z>>
OBVIOUS

(***************************************************************************)
(* A path covers itself and whatever is below it, and is covered by that.  *)
(***************************************************************************)
LEMMA PathsCover ==
    \A x, y, z, f : /\ Covers(<<x>>, <<x>>) /\ Covers(<<x, y>>, <<x, y>>)
                    /\ Covers(<<x, y, z>>, <<x, y, z>>)
                    /\ Covers(<<x, y>>, <<x, y, z>>)
                    /\ Covers(<<x, y, z, f>>, <<x, y, z>>)
BY DEF Covers, IsPrefix

(***************************************************************************)
(* The last name of a path.                                                *)
(***************************************************************************)
LEMMA LastNames ==
    \A x, y, z : Last(<<x>>) = x /\ Last(<<x, y>>) = y /\ Last(<<x, y, z>>) = z
BY DEF Last

-----------------------------------------------------------------------------
(***************************************************************************)
(* The changes of one object, one list, one scope.                         *)
(***************************************************************************)

\* The fields that only word something, of those a document has.
Wording == {"note", "role", "purpose", "display_name"}

(***************************************************************************)
(* The fields that are compared are shown exactly when they differ.        *)
(***************************************************************************)
LEMMA FieldsAreShown ==
    ASSUME NEW base, NEW fields, NEW b, NEW a
    PROVE  /\ \A f \in fields : b[f] # a[f] =>
                 \E c \in FieldChanges(base, fields, b, a) : c.path = Append(base, f) /\ c.class = Classify(f)
           /\ \A c \in FieldChanges(base, fields, b, a) :
                 \E f \in fields : b[f] # a[f] /\ c.path = Append(base, f) /\ c.class = Classify(f)
<1> DEFINE What(f) == CASE b[f] = None -> <<"added">> [] a[f] = None -> <<"removed">> [] OTHER -> <<"changed">>
<1>1. FieldChanges(base, fields, b, a) =
          {Change(Append(base, f), f, What(f)) : f \in {g \in fields : b[g] # a[g]}}
  BY DEF FieldChanges
<1> HIDE DEF What
<1>2. \A path, field, what : /\ Change(path, field, what).path = path
                             /\ Change(path, field, what).class = Classify(field)
  BY DEF Change
<1>3. ASSUME NEW f \in fields, b[f] # a[f]
      PROVE  \E c \in FieldChanges(base, fields, b, a) : c.path = Append(base, f) /\ c.class = Classify(f)
  <2>1. Change(Append(base, f), f, What(f)) \in FieldChanges(base, fields, b, a)
    BY <1>1, <1>3
  <2> QED
    BY <1>2, <2>1
<1>4. ASSUME NEW c \in FieldChanges(base, fields, b, a)
      PROVE  \E f \in fields : b[f] # a[f] /\ c.path = Append(base, f) /\ c.class = Classify(f)
  <2>1. PICK f \in fields : b[f] # a[f] /\ c = Change(Append(base, f), f, What(f))
    BY <1>1
  <2>2. c.path = Append(base, f) /\ c.class = Classify(f)
    BY <1>2, <2>1, Zenon
  <2> QED
    BY <2>1, <2>2
<1> QED
  BY <1>3, <1>4

(***************************************************************************)
(* Two lists are shown as different exactly when they differ, be it in the *)
(* order alone.                                                            *)
(***************************************************************************)
LEMMA ListsAreShown ==
    ASSUME NEW path, NEW field, NEW b, NEW a
    PROVE  /\ b # a => OrderedChanges(path, field, b, a) # {}
           /\ \A c \in OrderedChanges(path, field, b, a) :
                 b # a /\ c.path = path /\ c.class = Classify(field)
<1> DEFINE removed == ToSet(b) \ ToSet(a)
           added == ToSet(a) \ ToSet(b)
           Removals == {Change(path, field, <<"removed", x>>) : x \in removed}
           Additions == {Change(path, field, <<"added", x>>) : x \in added}
<1>1. OrderedChanges(path, field, b, a) =
          Removals \cup Additions
            \cup IF b # a /\ removed = {} /\ added = {} THEN {Change(path, field, <<"order">>)} ELSE {}
  BY DEF OrderedChanges
<1>2. \A what : Change(path, field, what).path = path /\ Change(path, field, what).class = Classify(field)
  BY DEF Change
<1>3. /\ \A c \in Removals : \E what : c = Change(path, field, what)
      /\ \A c \in Additions : \E what : c = Change(path, field, what)
  OBVIOUS
<1>4. /\ removed # {} => Removals # {}
      /\ added # {} => Additions # {}
  OBVIOUS
<1>5. b = a => removed = {} /\ added = {} /\ Removals = {} /\ Additions = {}
  OBVIOUS
<1> HIDE DEF removed, added, Removals, Additions
<1> QED
  BY <1>1, <1>2, <1>3, <1>4, <1>5, Zenon

(***************************************************************************)
(* Two scopes are shown as different exactly when they differ, and always  *)
(* as consequential.                                                       *)
(***************************************************************************)
LEMMA ScopesAreShown ==
    ASSUME NEW x, NEW b, NEW a, ShapedScope(b), ShapedScope(a)
    PROVE  /\ b # a => ScopeChanges(<<"capabilities", x, "scope">>, b, a) # {}
           /\ \A c \in ScopeChanges(<<"capabilities", x, "scope">>, b, a) :
                 /\ b # a /\ c.class = "CONSEQUENTIAL"
                 /\ \E f : c.path = <<"capabilities", x, "scope", f>>
<1> DEFINE path == <<"capabilities", x, "scope">>
<1>1. /\ Append(path, "kind") = <<"capabilities", x, "scope", "kind">>
      /\ Append(path, "prefixes") = <<"capabilities", x, "scope", "prefixes">>
  BY PathsGrow
<1>2. Classify("kind") = "CONSEQUENTIAL" /\ Classify("prefixes") = "CONSEQUENTIAL"
  BY DEF Classify, PresentationFields
<1> HIDE DEF path
<1>3. CASE b.kind # a.kind
  <2>1. ScopeChanges(path, b, a) = {Change(Append(path, "kind"), "kind", <<"changed">>)}
    BY <1>3 DEF ScopeChanges
  <2>2. PICK c : c = Change(Append(path, "kind"), "kind", <<"changed">>)
    OBVIOUS
  <2>3. c.class = "CONSEQUENTIAL" /\ c.path = <<"capabilities", x, "scope", "kind">>
    BY <1>1, <1>2, <2>2 DEF Change
  <2>4. b # a
    BY <1>3
  <2> QED
    BY <2>1, <2>2, <2>3, <2>4 DEF path
<1>4. CASE b.kind = a.kind /\ b.kind = "unrestricted"
  <2>1. ScopeChanges(path, b, a) = {}
    BY <1>4 DEF ScopeChanges
  <2>2. b = [f \in {"kind"} |-> b[f]] /\ a = [f \in {"kind"} |-> a[f]]
    BY <1>4 DEF ShapedScope, Object
  <2>3. \A f \in {"kind"} : b[f] = a[f]
    BY <1>4
  <2>4. b = a
    BY <2>2, <2>3
  <2> QED
    BY <2>1, <2>4 DEF path
<1>5. CASE b.kind = a.kind /\ b.kind # "unrestricted"
  <2>1. ScopeChanges(path, b, a) = OrderedChanges(Append(path, "prefixes"), "prefixes", b.prefixes, a.prefixes)
    BY <1>5 DEF ScopeChanges
  <2>2. b = [f \in {"kind", "prefixes"} |-> b[f]] /\ a = [f \in {"kind", "prefixes"} |-> a[f]]
    BY <1>5 DEF ShapedScope, Object
  <2>3. b.prefixes = a.prefixes => \A f \in {"kind", "prefixes"} : b[f] = a[f]
    BY <1>5
  <2>4. b # a => b.prefixes # a.prefixes
    BY <2>2, <2>3
  <2>5. PICK changes : changes = ScopeChanges(path, b, a)
    OBVIOUS
  <2>6. changes = OrderedChanges(<<"capabilities", x, "scope", "prefixes">>, "prefixes",
                                 b.prefixes, a.prefixes)
    BY <1>1, <2>1, <2>5
  <2>7. /\ b.prefixes # a.prefixes => changes # {}
        /\ \A c \in changes : /\ b.prefixes # a.prefixes /\ c.class = "CONSEQUENTIAL"
                              /\ c.path = <<"capabilities", x, "scope", "prefixes">>
    BY <1>2, <2>6, ListsAreShown
  <2> QED
    BY <2>4, <2>5, <2>7 DEF path
<1> QED
  BY <1>3, <1>4, <1>5

-----------------------------------------------------------------------------
(***************************************************************************)
(* The values of a document by path.                                       *)
(***************************************************************************)
Sections == {"human", "project", "public_identity", "external_upload", "promotional_credit"}
ActorFields == {"trusted", "merge_authority", "role"}
CapabilityFields == {"purpose", "standing", "scope", "reversibility", "effects", "requires"}

\* What a reader of capability c finds in field f: no requirement is an empty list.
Held(c, f) == IF f = "requires" THEN Requires(c) ELSE c[f]

(***************************************************************************)
(* The values are those of the sections, the actors and the capabilities.  *)
(***************************************************************************)
LEMMA LeavesAre ==
    ASSUME NEW d
    PROVE  \A leaf : leaf \in Leaves(d) <=>
              \/ leaf = <<<<"profile">>, d.profile>>
              \/ \E n \in Sections : \E f \in DOMAIN d[n] : leaf = <<<<n, f>>, d[n][f]>>
              \/ \E x \in DOMAIN d.actors : \E f \in DOMAIN d.actors[x] :
                    leaf = <<<<"actors", x, f>>, d.actors[x][f]>>
              \/ \E c \in ToSet(d.capabilities) : \E f \in CapabilityFields :
                    leaf = <<<<"capabilities", c.action, f>>, Held(c, f)>>
<1> DEFINE Section(n) == {<<<<n, f>>, d[n][f]>> : f \in DOMAIN d[n]}
           OfActor(x) == {<<<<"actors", x, f>>, d.actors[x][f]>> : f \in DOMAIN d.actors[x]}
           Plain == {"purpose", "standing", "scope", "reversibility", "effects"}
           OfCapability(c) == {<<<<"capabilities", c.action, f>>, c[f]>> : f \in Plain}
                                \cup {<<<<"capabilities", c.action, "requires">>, Requires(c)>>}
<1>1. Leaves(d) =
        {<<<<"profile">>, d.profile>>}
          \cup Section("human") \cup Section("project") \cup Section("public_identity")
          \cup Section("external_upload") \cup Section("promotional_credit")
          \cup (UNION {OfActor(x) : x \in DOMAIN d.actors})
          \cup (UNION {OfCapability(c) : c \in ToSet(d.capabilities)})
  BY DEF Leaves
<1>2. \A n, leaf : leaf \in Section(n) <=> \E f \in DOMAIN d[n] : leaf = <<<<n, f>>, d[n][f]>>
  OBVIOUS
<1>3. \A x, leaf : leaf \in OfActor(x) <=>
          \E f \in DOMAIN d.actors[x] : leaf = <<<<"actors", x, f>>, d.actors[x][f]>>
  OBVIOUS
<1>4. \A c, leaf : leaf \in OfCapability(c) <=>
          \E f \in CapabilityFields : leaf = <<<<"capabilities", c.action, f>>, Held(c, f)>>
  <2> TAKE c, leaf
  <2>1. leaf \in OfCapability(c) <=>
            \/ \E f \in Plain : leaf = <<<<"capabilities", c.action, f>>, c[f]>>
            \/ leaf = <<<<"capabilities", c.action, "requires">>, Requires(c)>>
    OBVIOUS
  <2>2. /\ CapabilityFields = Plain \cup {"requires"}
        /\ \A f \in Plain : Held(c, f) = c[f]
        /\ Held(c, "requires") = Requires(c)
    BY DEF CapabilityFields, Held
  <2> HIDE DEF Plain
  <2> QED
    BY <2>1, <2>2
<1> HIDE DEF Section, OfActor, OfCapability
<1>5. \A leaf : leaf \in Leaves(d) <=>
          \/ leaf = <<<<"profile">>, d.profile>>
          \/ \E n \in Sections : leaf \in Section(n)
          \/ \E x \in DOMAIN d.actors : leaf \in OfActor(x)
          \/ \E c \in ToSet(d.capabilities) : leaf \in OfCapability(c)
  <2> TAKE leaf
  <2>1. leaf \in UNION {OfActor(x) : x \in DOMAIN d.actors} <=> \E x \in DOMAIN d.actors : leaf \in OfActor(x)
    OBVIOUS
  <2>2. leaf \in UNION {OfCapability(c) : c \in ToSet(d.capabilities)} <=>
            \E c \in ToSet(d.capabilities) : leaf \in OfCapability(c)
    OBVIOUS
  <2>3. (\E n \in Sections : leaf \in Section(n)) <=>
            \/ leaf \in Section("human") \/ leaf \in Section("project") \/ leaf \in Section("public_identity")
            \/ leaf \in Section("external_upload") \/ leaf \in Section("promotional_credit")
    BY DEF Sections
  <2>4. leaf \in Leaves(d) <=>
            \/ leaf = <<<<"profile">>, d.profile>>
            \/ leaf \in Section("human") \/ leaf \in Section("project") \/ leaf \in Section("public_identity")
            \/ leaf \in Section("external_upload") \/ leaf \in Section("promotional_credit")
            \/ leaf \in UNION {OfActor(x) : x \in DOMAIN d.actors}
            \/ leaf \in UNION {OfCapability(c) : c \in ToSet(d.capabilities)}
    BY <1>1
  <2> QED
    BY <2>1, <2>2, <2>3, <2>4, Zenon
<1> QED
  <2> TAKE leaf
  <2>1. (\E n \in Sections : leaf \in Section(n)) <=>
            \E n \in Sections : \E f \in DOMAIN d[n] : leaf = <<<<n, f>>, d[n][f]>>
    BY <1>2, Zenon
  <2>2. (\E x \in DOMAIN d.actors : leaf \in OfActor(x)) <=>
            \E x \in DOMAIN d.actors : \E f \in DOMAIN d.actors[x] :
               leaf = <<<<"actors", x, f>>, d.actors[x][f]>>
    BY <1>3, Zenon
  <2>3. (\E c \in ToSet(d.capabilities) : leaf \in OfCapability(c)) <=>
            \E c \in ToSet(d.capabilities) : \E f \in CapabilityFields :
               leaf = <<<<"capabilities", c.action, f>>, Held(c, f)>>
    BY <1>4, Zenon
  <2> QED
    BY <1>5, <2>1, <2>2, <2>3, Zenon

(***************************************************************************)
(* The value of a field of a section, of an actor, of a capability.        *)
(***************************************************************************)
LEMMA LeafOfSection ==
    ASSUME NEW d, NEW n \in Sections, NEW f, NEW v
    PROVE  <<<<n, f>>, v>> \in Leaves(d) <=> f \in DOMAIN d[n] /\ v = d[n][f]
<1>1. <<n, f>> # <<"profile">>
  BY PathsDiffer
<1>2. \A x, g : <<n, f>> # <<"actors", x, g>> /\ <<n, f>> # <<"capabilities", x, g>>
  BY PathsDiffer
<1>3. \A m, g : <<n, f>> = <<m, g>> <=> n = m /\ f = g
  OBVIOUS
<1>4. \A p, q, w : <<p, v>> = <<q, w>> <=> p = q /\ v = w
  OBVIOUS
<1> QED
  BY <1>1, <1>2, <1>3, <1>4, LeavesAre, SMTT(30)

(***************************************************************************)
(* The value of the profile.                                               *)
(***************************************************************************)
LEMMA LeafOfProfile ==
    ASSUME NEW d, NEW v
    PROVE  <<<<"profile">>, v>> \in Leaves(d) <=> v = d.profile
<1>1. \A x, f, g : <<"profile">> # <<x, f>> /\ <<"profile">> # <<x, f, g>>
  BY PathsDiffer
<1>2. \A p, q, w : <<p, v>> = <<q, w>> <=> p = q /\ v = w
  OBVIOUS
<1> QED
  BY <1>1, <1>2, LeavesAre

(***************************************************************************)
(* The value of a field of an actor.                                       *)
(***************************************************************************)
LEMMA LeafOfActor ==
    ASSUME NEW d, NEW x, NEW f, NEW v
    PROVE  <<<<"actors", x, f>>, v>> \in Leaves(d) <=>
              x \in DOMAIN d.actors /\ f \in DOMAIN d.actors[x] /\ v = d.actors[x][f]
<1>1. \A y, g : <<"actors", x, f>> # <<y>> /\ <<"actors", x, f>> # <<y, g>>
  BY PathsDiffer
<1>2. \A y, g : <<"actors", x, f>> # <<"capabilities", y, g>>
  OBVIOUS
<1>3. \A y, g : <<"actors", x, f>> = <<"actors", y, g>> <=> x = y /\ f = g
  OBVIOUS
<1>4. \A p, q, w : <<p, v>> = <<q, w>> <=> p = q /\ v = w
  OBVIOUS
<1>5. PICK leaf : leaf = <<<<"actors", x, f>>, v>>
  OBVIOUS
<1>6. /\ leaf # <<<<"profile">>, d.profile>>
      /\ \A n, g : leaf # <<<<n, g>>, d[n][g]>>
  BY <1>1, <1>4, <1>5
<1>7. \A c, g : leaf # <<<<"capabilities", c.action, g>>, Held(c, g)>>
  BY <1>2, <1>4, <1>5
<1>8. leaf \in Leaves(d) <=> \E y \in DOMAIN d.actors : \E g \in DOMAIN d.actors[y] :
                               leaf = <<<<"actors", y, g>>, d.actors[y][g]>>
  BY <1>6, <1>7, LeavesAre
<1> QED
  BY <1>3, <1>4, <1>5, <1>8

(***************************************************************************)
(* The value of a field of a capability.                                   *)
(***************************************************************************)
LEMMA LeafOfCapability ==
    ASSUME NEW d, NEW x, NEW f, NEW v
    PROVE  <<<<"capabilities", x, f>>, v>> \in Leaves(d) <=>
              \E c \in ToSet(d.capabilities) : c.action = x /\ f \in CapabilityFields /\ v = Held(c, f)
<1>1. \A y, g : <<"capabilities", x, f>> # <<y>> /\ <<"capabilities", x, f>> # <<y, g>>
  BY PathsDiffer
<1>2. \A y, g : <<"capabilities", x, f>> # <<"actors", y, g>>
  OBVIOUS
<1>3. \A y, g : <<"capabilities", x, f>> = <<"capabilities", y, g>> <=> x = y /\ f = g
  OBVIOUS
<1>4. \A p, q, w : <<p, v>> = <<q, w>> <=> p = q /\ v = w
  OBVIOUS
<1>5. PICK leaf : leaf = <<<<"capabilities", x, f>>, v>>
  OBVIOUS
<1>6. /\ leaf # <<<<"profile">>, d.profile>>
      /\ \A n, g : leaf # <<<<n, g>>, d[n][g]>>
  BY <1>1, <1>4, <1>5
<1>7. \A y, g : leaf # <<<<"actors", y, g>>, d.actors[y][g]>>
  BY <1>2, <1>4, <1>5
<1>8. leaf \in Leaves(d) <=> \E c \in ToSet(d.capabilities) : \E g \in CapabilityFields :
                               leaf = <<<<"capabilities", c.action, g>>, Held(c, g)>>
  BY <1>6, <1>7, LeavesAre
<1> QED
  BY <1>3, <1>4, <1>5, <1>8

-----------------------------------------------------------------------------
(***************************************************************************)
(* The values that moved.                                                  *)
(***************************************************************************)

(***************************************************************************)
(* A path moved when one of the documents has a value there that the other *)
(* has not.                                                                *)
(***************************************************************************)
LEMMA MovedIs ==
    ASSUME NEW b, NEW a, NEW path
    PROVE  path \in Moved(b, a) <=>
              \E v : \/ <<path, v>> \in Leaves(b) /\ <<path, v>> \notin Leaves(a)
                     \/ <<path, v>> \in Leaves(a) /\ <<path, v>> \notin Leaves(b)
<1>1. ASSUME NEW d, NEW leaf \in Leaves(d)
      PROVE  \E p, v : leaf = <<p, v>>
  <2>1. CASE leaf = <<<<"profile">>, d.profile>>
    BY <2>1
  <2>2. CASE \E n \in Sections : \E f \in DOMAIN d[n] : leaf = <<<<n, f>>, d[n][f]>>
    BY <2>2
  <2>3. CASE \E x \in DOMAIN d.actors : \E f \in DOMAIN d.actors[x] :
                leaf = <<<<"actors", x, f>>, d.actors[x][f]>>
    BY <2>3
  <2>4. CASE \E c \in ToSet(d.capabilities) : \E f \in CapabilityFields :
                leaf = <<<<"capabilities", c.action, f>>, Held(c, f)>>
    BY <2>4
  <2> QED
    BY <2>1, <2>2, <2>3, <2>4, LeavesAre
<1>2. path \in Moved(b, a) <=>
          \E leaf \in (Leaves(b) \ Leaves(a)) \cup (Leaves(a) \ Leaves(b)) : path = leaf[1]
  BY DEF Moved
<1>3. \A p, v : <<p, v>>[1] = p
  OBVIOUS
<1>4. ASSUME path \in Moved(b, a)
      PROVE  \E v : \/ <<path, v>> \in Leaves(b) /\ <<path, v>> \notin Leaves(a)
                    \/ <<path, v>> \in Leaves(a) /\ <<path, v>> \notin Leaves(b)
  <2>1. PICK leaf : /\ path = leaf[1]
                    /\ \/ leaf \in Leaves(b) /\ leaf \notin Leaves(a)
                       \/ leaf \in Leaves(a) /\ leaf \notin Leaves(b)
    BY <1>2, <1>4
  <2>2. PICK p, v : leaf = <<p, v>>
    BY <1>1, <2>1
  <2>3. leaf = <<path, v>>
    BY <1>3, <2>1, <2>2
  <2> QED
    BY <2>1, <2>3
<1>5. ASSUME NEW v, \/ <<path, v>> \in Leaves(b) /\ <<path, v>> \notin Leaves(a)
                    \/ <<path, v>> \in Leaves(a) /\ <<path, v>> \notin Leaves(b)
      PROVE  path \in Moved(b, a)
  <2>1. PICK leaf : leaf = <<path, v>>
    OBVIOUS
  <2> QED
    BY <1>2, <1>3, <1>5, <2>1
<1> QED
  BY <1>4, <1>5

(***************************************************************************)
(* There are values of four kinds.                                         *)
(***************************************************************************)
LEMMA MovedKinds ==
    ASSUME NEW b, NEW a, NEW path \in Moved(b, a)
    PROVE  \/ path = <<"profile">>
           \/ \E n \in Sections : \E f : path = <<n, f>>
           \/ \E x, f : path = <<"actors", x, f>>
           \/ \E x, f : path = <<"capabilities", x, f>>
<1>1. \A p, q, v, w : <<p, v>> = <<q, w>> => p = q
  OBVIOUS
<1>2. ASSUME NEW d, NEW v, <<path, v>> \in Leaves(d)
      PROVE  \/ path = <<"profile">>
             \/ \E n \in Sections : \E f : path = <<n, f>>
             \/ \E x, f : path = <<"actors", x, f>>
             \/ \E x, f : path = <<"capabilities", x, f>>
  <2>1. PICK leaf : leaf = <<path, v>>
    OBVIOUS
  <2>2. CASE leaf = <<<<"profile">>, d.profile>>
    BY <1>1, <2>1, <2>2
  <2>3. CASE \E n \in Sections : \E f \in DOMAIN d[n] : leaf = <<<<n, f>>, d[n][f]>>
    BY <1>1, <2>1, <2>3
  <2>4. CASE \E x \in DOMAIN d.actors : \E f \in DOMAIN d.actors[x] :
                leaf = <<<<"actors", x, f>>, d.actors[x][f]>>
    BY <1>1, <2>1, <2>4
  <2>5. CASE \E c \in ToSet(d.capabilities) : \E f \in CapabilityFields :
                leaf = <<<<"capabilities", c.action, f>>, Held(c, f)>>
    BY <1>1, <2>1, <2>5
  <2> QED
    BY <1>2, <2>1, <2>2, <2>3, <2>4, <2>5, LeavesAre
<1>3. \E v : <<path, v>> \in Leaves(b) \/ <<path, v>> \in Leaves(a)
  BY MovedIs
<1> QED
  BY <1>2, <1>3

(***************************************************************************)
(* The profile moved when it differs.                                      *)
(***************************************************************************)
LEMMA ProfileMoved ==
    ASSUME NEW b, NEW a
    PROVE  <<"profile">> \in Moved(b, a) <=> b.profile # a.profile
BY MovedIs, LeafOfProfile

(***************************************************************************)
(* The sections of a document have the same fields in all documents.       *)
(***************************************************************************)
LEMMA SectionsAreShaped ==
    ASSUME NEW d, Shaped(d)
    PROVE  /\ DOMAIN d.human = {"id", "note"}
           /\ DOMAIN d.project = {"id", "display_name", "root_scope", "canonical_repository"}
           /\ DOMAIN d.public_identity = {"subject", "note"}
           /\ DOMAIN d.external_upload = {"known_destinations", "note"}
           /\ DOMAIN d.promotional_credit = {"provider", "currency", "note", "per_call_limit_cents"}
           /\ \A x \in DOMAIN d.actors : DOMAIN d.actors[x] = ActorFields
<1>1. \A o, fields : Object(o, fields) => DOMAIN o = fields
  BY DEF Object
<1> QED
  BY <1>1, Zenon DEF Shaped, ActorFields

(***************************************************************************)
(* A field of a section moved when it differs.                             *)
(***************************************************************************)
LEMMA SectionMoved ==
    ASSUME NEW b, NEW a, Shaped(b), Shaped(a), NEW n \in Sections, NEW f
    PROVE  <<n, f>> \in Moved(b, a) <=> f \in DOMAIN b[n] /\ b[n][f] # a[n][f]
<1>1. DOMAIN b[n] = DOMAIN a[n]
  BY SectionsAreShaped DEF Sections
<1>2. \A v : /\ <<<<n, f>>, v>> \in Leaves(b) <=> f \in DOMAIN b[n] /\ v = b[n][f]
             /\ <<<<n, f>>, v>> \in Leaves(a) <=> f \in DOMAIN a[n] /\ v = a[n][f]
  BY LeafOfSection
<1> QED
  BY <1>1, <1>2, MovedIs

(***************************************************************************)
(* A field of an actor moved when it differs, and when the actor is new or *)
(* gone.                                                                   *)
(***************************************************************************)
LEMMA ActorMoved ==
    ASSUME NEW b, NEW a, Shaped(b), Shaped(a), NEW x, NEW f
    PROVE  <<"actors", x, f>> \in Moved(b, a) <=>
              /\ f \in ActorFields
              /\ \/ x \in DOMAIN b.actors /\ x \notin DOMAIN a.actors
                 \/ x \in DOMAIN a.actors /\ x \notin DOMAIN b.actors
                 \/ x \in DOMAIN b.actors /\ x \in DOMAIN a.actors /\ b.actors[x][f] # a.actors[x][f]
<1>1. /\ \A v : <<<<"actors", x, f>>, v>> \in Leaves(b) <=>
                   x \in DOMAIN b.actors /\ f \in ActorFields /\ v = b.actors[x][f]
      /\ \A v : <<<<"actors", x, f>>, v>> \in Leaves(a) <=>
                   x \in DOMAIN a.actors /\ f \in ActorFields /\ v = a.actors[x][f]
  BY LeafOfActor, SectionsAreShaped
<1> QED
  BY <1>1, MovedIs

(***************************************************************************)
(* A valid document names each action once: the name finds the capability. *)
(***************************************************************************)
LEMMA NamesFind ==
    ASSUME NEW d, IsInjective(ActionsOf(d))
    PROVE  /\ \A c \in ToSet(d.capabilities) : c.action \in ToSet(ActionsOf(d)) /\ Named(d, c.action) = c
           /\ \A x \in ToSet(ActionsOf(d)) :
                 Named(d, x) \in ToSet(d.capabilities) /\ Named(d, x).action = x
<1>1. /\ DOMAIN ActionsOf(d) = DOMAIN d.capabilities
      /\ \A i \in DOMAIN d.capabilities : ActionsOf(d)[i] = d.capabilities[i].action
  BY DEF ActionsOf
<1>2. \A i, j \in DOMAIN d.capabilities : d.capabilities[i].action = d.capabilities[j].action => i = j
  BY <1>1 DEF IsInjective
<1>3. \A c1, c2 \in ToSet(d.capabilities) : c1.action = c2.action => c1 = c2
  BY <1>2 DEF ToSet
<1>4. \A x : x \in ToSet(ActionsOf(d)) <=> \E c \in ToSet(d.capabilities) : c.action = x
  BY <1>1 DEF ToSet
<1>5. \A x : (\E c \in ToSet(d.capabilities) : c.action = x) =>
                 Named(d, x) \in ToSet(d.capabilities) /\ Named(d, x).action = x
  BY DEF Named
<1> QED
  BY <1>3, <1>4, <1>5

(***************************************************************************)
(* A field of a capability moved when it differs, and when the capability  *)
(* is new or gone.                                                         *)
(***************************************************************************)
LEMMA CapabilityMoved ==
    ASSUME NEW b, NEW a, IsInjective(ActionsOf(b)), IsInjective(ActionsOf(a)), NEW x, NEW f
    PROVE  <<"capabilities", x, f>> \in Moved(b, a) <=>
              /\ f \in CapabilityFields
              /\ \/ x \in ToSet(ActionsOf(b)) /\ x \notin ToSet(ActionsOf(a))
                 \/ x \in ToSet(ActionsOf(a)) /\ x \notin ToSet(ActionsOf(b))
                 \/ /\ x \in ToSet(ActionsOf(b)) /\ x \in ToSet(ActionsOf(a))
                    /\ Held(Named(b, x), f) # Held(Named(a, x), f)
<1>1. ASSUME NEW d, IsInjective(ActionsOf(d)), NEW v
      PROVE  <<<<"capabilities", x, f>>, v>> \in Leaves(d) <=>
                 x \in ToSet(ActionsOf(d)) /\ f \in CapabilityFields /\ v = Held(Named(d, x), f)
  <2>1. <<<<"capabilities", x, f>>, v>> \in Leaves(d) <=>
            \E c \in ToSet(d.capabilities) : c.action = x /\ f \in CapabilityFields /\ v = Held(c, f)
    BY LeafOfCapability
  <2> QED
    BY <1>1, <2>1, NamesFind
<1>2. /\ \A v : <<<<"capabilities", x, f>>, v>> \in Leaves(b) <=>
                   x \in ToSet(ActionsOf(b)) /\ f \in CapabilityFields /\ v = Held(Named(b, x), f)
      /\ \A v : <<<<"capabilities", x, f>>, v>> \in Leaves(a) <=>
                   x \in ToSet(ActionsOf(a)) /\ f \in CapabilityFields /\ v = Held(Named(a, x), f)
  BY <1>1
<1> QED
  BY <1>2, MovedIs

-----------------------------------------------------------------------------
(***************************************************************************)
(* The changes of two documents, before the last resort of an unnamed one. *)
(***************************************************************************)
Compared ==
    [human |-> {"id", "note"}, project |-> {"id", "display_name", "root_scope", "canonical_repository"},
     public_identity |-> {"subject", "note"}, external_upload |-> {"note"},
     promotional_credit |-> {"provider", "currency", "note", "per_call_limit_cents"}]

SectionChanges(n, b, a) == FieldChanges(<<n>>, Compared[n], b[n], a[n])

DestinationChanges(b, a) ==
    OrderedChanges(<<"external_upload", "known_destinations">>, "destination",
                   b.external_upload.known_destinations, a.external_upload.known_destinations)

Changes(b, a) ==
    FieldChanges(<<>>, {"profile"}, b, a) \cup (UNION {SectionChanges(n, b, a) : n \in Sections})
      \cup DestinationChanges(b, a) \cup ActorsChanges(b, a) \cup CapabilitiesChanges(b, a)

\* c is what shows that the value at this path moved; it may call it a matter of
\* presentation only if the path ends in wording.
Shows(c, leaf) == Covers(c.path, leaf) /\ (c.class = "CONSEQUENTIAL" \/ Last(leaf) \in Wording)

\* c names something, and but for an order something that moved.
Grounded(c, b, a) ==
    c.path # <<>> /\ (c.change = <<"order">> \/ \E leaf \in Moved(b, a) : Covers(c.path, leaf))

(***************************************************************************)
(* A diff is those changes, or the unnamed one when there are none.        *)
(***************************************************************************)
LEMMA DiffIs ==
    ASSUME NEW b, NEW a
    PROVE  Diff(b, a) = IF b # a /\ Changes(b, a) = {} THEN {Unnamed} ELSE Changes(b, a)
<1>1. /\ SectionChanges("human", b, a) = FieldChanges(<<"human">>, {"id", "note"}, b["human"], a["human"])
      /\ SectionChanges("project", b, a) =
            FieldChanges(<<"project">>, {"id", "display_name", "root_scope", "canonical_repository"},
                         b["project"], a["project"])
      /\ SectionChanges("public_identity", b, a) =
            FieldChanges(<<"public_identity">>, {"subject", "note"}, b["public_identity"], a["public_identity"])
      /\ SectionChanges("external_upload", b, a) =
            FieldChanges(<<"external_upload">>, {"note"}, b["external_upload"], a["external_upload"])
      /\ SectionChanges("promotional_credit", b, a) =
            FieldChanges(<<"promotional_credit">>, {"provider", "currency", "note", "per_call_limit_cents"},
                         b["promotional_credit"], a["promotional_credit"])
  BY DEF SectionChanges, Compared
<1>2. UNION {SectionChanges(n, b, a) : n \in Sections} =
          SectionChanges("human", b, a) \cup SectionChanges("project", b, a)
            \cup SectionChanges("public_identity", b, a) \cup SectionChanges("external_upload", b, a)
            \cup SectionChanges("promotional_credit", b, a)
  BY DEF Sections
<1> DEFINE changes ==
          FieldChanges(<<>>, {"profile"}, b, a)
            \cup SectionChanges("human", b, a) \cup SectionChanges("project", b, a)
            \cup ActorsChanges(b, a) \cup SectionChanges("public_identity", b, a)
            \cup DestinationChanges(b, a) \cup SectionChanges("external_upload", b, a)
            \cup SectionChanges("promotional_credit", b, a) \cup CapabilitiesChanges(b, a)
<1>3. Diff(b, a) = IF b # a /\ changes = {} THEN {Unnamed} ELSE changes
  BY <1>1 DEF Diff, DestinationChanges
<1>4. changes = Changes(b, a)
  BY <1>2 DEF Changes
<1> QED
  BY <1>3, <1>4

(***************************************************************************)
(* Of the fields a document has, the diff calls only wording presentation. *)
(***************************************************************************)
LEMMA ClassesAre ==
    /\ \A n \in Sections : \A f \in Compared[n] : Classify(f) = "CONSEQUENTIAL" \/ f \in Wording
    /\ \A f \in ActorFields \cup CapabilityFields : Classify(f) = "CONSEQUENTIAL" \/ f \in Wording
    /\ \A f \in {"profile", "destination", "actor", "capability", "capabilities", "fact", "effect"} :
          Classify(f) = "CONSEQUENTIAL"
<1>1. \A f : Classify(f) = "CONSEQUENTIAL" \/ f \in Wording \/ f = "presentation"
  BY DEF Classify, PresentationFields, Wording
<1>2. \A n \in Sections : "presentation" \notin Compared[n]
  BY DEF Sections, Compared
<1>3. "presentation" \notin ActorFields \cup CapabilityFields
  BY DEF ActorFields, CapabilityFields
<1>4. \A f \in {"profile", "destination", "actor", "capability", "capabilities", "fact", "effect"} :
          Classify(f) = "CONSEQUENTIAL"
  BY DEF Classify, PresentationFields
<1> QED
  BY <1>1, <1>2, <1>3, <1>4

(***************************************************************************)
(* The profile is shown when it moved.                                     *)
(***************************************************************************)
LEMMA ProfileShown ==
    ASSUME NEW b, NEW a
    PROVE  /\ <<"profile">> \in Moved(b, a) =>
                 \E c \in FieldChanges(<<>>, {"profile"}, b, a) : Shows(c, <<"profile">>)
           /\ \A c \in FieldChanges(<<>>, {"profile"}, b, a) : Grounded(c, b, a)
<1>1. Append(<<>>, "profile") = <<"profile">> /\ <<"profile">> # <<>>
  BY PathsGrow
<1>2. Classify("profile") = "CONSEQUENTIAL"
  BY ClassesAre
<1>3. PICK changes : changes = FieldChanges(<<>>, {"profile"}, b, a)
  OBVIOUS
<1>4. /\ b["profile"] # a["profile"] => \E c \in changes : c.path = <<"profile">> /\ c.class = "CONSEQUENTIAL"
      /\ \A c \in changes : b["profile"] # a["profile"] /\ c.path = <<"profile">>
  BY <1>1, <1>2, <1>3, FieldsAreShown
<1>5. <<"profile">> \in Moved(b, a) <=> b["profile"] # a["profile"]
  BY ProfileMoved
<1> QED
  BY <1>1, <1>3, <1>4, <1>5, PathsCover, Zenon DEF Shows, Grounded

(***************************************************************************)
(* A field of a section that is compared is shown when it moved.           *)
(***************************************************************************)
LEMMA SectionShown ==
    ASSUME NEW b, NEW a, Shaped(b), Shaped(a), NEW n \in Sections
    PROVE  /\ \A f \in Compared[n] : <<n, f>> \in Moved(b, a) =>
                 \E c \in SectionChanges(n, b, a) : Shows(c, <<n, f>>)
           /\ \A c \in SectionChanges(n, b, a) : Grounded(c, b, a)
<1>1. \A f : Append(<<n>>, f) = <<n, f>> /\ <<n, f>> # <<>>
  BY PathsGrow
<1>2. Compared[n] \subseteq DOMAIN b[n]
  BY SectionsAreShaped DEF Sections, Compared
<1>3. PICK changes : changes = SectionChanges(n, b, a)
  OBVIOUS
<1>4. /\ \A f \in Compared[n] : b[n][f] # a[n][f] =>
            \E c \in changes : c.path = <<n, f>> /\ c.class = Classify(f)
      /\ \A c \in changes : \E f \in Compared[n] : b[n][f] # a[n][f] /\ c.path = <<n, f>>
  BY <1>1, <1>3, FieldsAreShown DEF SectionChanges
<1>5. \A f \in Compared[n] : <<n, f>> \in Moved(b, a) <=> b[n][f] # a[n][f]
  BY <1>2, SectionMoved
<1>6. ASSUME NEW f \in Compared[n], <<n, f>> \in Moved(b, a)
      PROVE  \E c \in changes : Shows(c, <<n, f>>)
  <2>1. PICK c \in changes : c.path = <<n, f>> /\ c.class = Classify(f)
    BY <1>4, <1>5, <1>6
  <2>2. Covers(<<n, f>>, <<n, f>>) /\ Last(<<n, f>>) = f
    BY PathsCover, LastNames
  <2>3. Classify(f) = "CONSEQUENTIAL" \/ f \in Wording
    BY <1>6, ClassesAre
  <2> QED
    BY <2>1, <2>2, <2>3, Zenon DEF Shows
<1>7. ASSUME NEW c \in changes
      PROVE  Grounded(c, b, a)
  <2>1. PICK f \in Compared[n] : b[n][f] # a[n][f] /\ c.path = <<n, f>>
    BY <1>4
  <2> QED
    BY <1>1, <1>5, <2>1, PathsCover, Zenon DEF Grounded
<1> QED
  BY <1>3, <1>6, <1>7

(***************************************************************************)
(* The destinations are shown when they moved.                             *)
(***************************************************************************)
LEMMA DestinationsShown ==
    ASSUME NEW b, NEW a, Shaped(b), Shaped(a)
    PROVE  /\ <<"external_upload", "known_destinations">> \in Moved(b, a) =>
                 \E c \in DestinationChanges(b, a) : Shows(c, <<"external_upload", "known_destinations">>)
           /\ \A c \in DestinationChanges(b, a) : Grounded(c, b, a)
<1> DEFINE path == <<"external_upload", "known_destinations">>
<1>1. PICK x, y : x = b.external_upload.known_destinations /\ y = a.external_upload.known_destinations
  OBVIOUS
<1>2. path \in Moved(b, a) <=> x # y
  BY <1>1, SectionMoved, SectionsAreShaped DEF Sections
<1>3. path # <<>> /\ Covers(path, path)
  BY PathsCover
<1>4. Classify("destination") = "CONSEQUENTIAL"
  BY ClassesAre
<1>5. PICK changes : changes = DestinationChanges(b, a)
  OBVIOUS
<1> HIDE DEF path
<1>6. changes = OrderedChanges(path, "destination", x, y)
  BY <1>1, <1>5 DEF DestinationChanges, path
<1>7. /\ x # y => changes # {}
      /\ \A c \in changes : x # y /\ c.path = path /\ c.class = "CONSEQUENTIAL"
  BY <1>4, <1>6, ListsAreShown
<1>8. /\ path \in Moved(b, a) => \E c \in changes : Shows(c, path)
      /\ \A c \in changes : Grounded(c, b, a)
  BY <1>2, <1>3, <1>7 DEF Shows, Grounded
<1> QED
  BY <1>5, <1>8 DEF path

(***************************************************************************)
(* A field of an actor is shown when it moved, be it with the actor.       *)
(***************************************************************************)
LEMMA ActorsShown ==
    ASSUME NEW b, NEW a, Shaped(b), Shaped(a)
    PROVE  /\ \A x, f : <<"actors", x, f>> \in Moved(b, a) =>
                 \E c \in ActorsChanges(b, a) : Shows(c, <<"actors", x, f>>)
           /\ \A c \in ActorsChanges(b, a) : Grounded(c, b, a)
<1> DEFINE before == DOMAIN b.actors
           after == DOMAIN a.actors
           Gone == {Change(<<"actors", x>>, "actor", <<"removed">>) : x \in before \ after}
           New == {Change(<<"actors", x>>, "actor", <<"added">>) : x \in after \ before}
           Kept(x) == FieldChanges(<<"actors", x>>, ActorFields, b.actors[x], a.actors[x])
<1>1. ActorsChanges(b, a) = Gone \cup New \cup (UNION {Kept(x) : x \in before \cap after})
  BY DEF ActorsChanges, ActorFields
<1>2. \A x, f : /\ Append(<<"actors", x>>, f) = <<"actors", x, f>>
                /\ Covers(<<"actors", x>>, <<"actors", x, f>>)
                /\ Covers(<<"actors", x, f>>, <<"actors", x, f>>)
                /\ <<"actors", x>> # <<>> /\ <<"actors", x, f>> # <<>>
                /\ Last(<<"actors", x, f>>) = f
  <2> TAKE x, f
  <2>1. <<"actors", x>> # <<>> /\ <<"actors", x, f>> # <<>>
    OBVIOUS
  <2>2. Append(<<"actors", x>>, f) = <<"actors", x, f>>
    BY PathsGrow
  <2>3. /\ Covers(<<"actors", x>>, <<"actors", x, f>>)
        /\ Covers(<<"actors", x, f>>, <<"actors", x, f>>)
    BY PathsCover
  <2>4. Last(<<"actors", x, f>>) = f
    BY LastNames
  <2> QED
    BY <2>1, <2>2, <2>3, <2>4
<1>3. \A x, what : /\ Change(<<"actors", x>>, "actor", what).path = <<"actors", x>>
                   /\ Change(<<"actors", x>>, "actor", what).class = "CONSEQUENTIAL"
  BY ClassesAre DEF Change
<1>4. \A x : /\ \A f \in ActorFields : b.actors[x][f] # a.actors[x][f] =>
                   \E c \in Kept(x) : c.path = <<"actors", x, f>> /\ c.class = Classify(f)
             /\ \A c \in Kept(x) : \E f \in ActorFields :
                   b.actors[x][f] # a.actors[x][f] /\ c.path = <<"actors", x, f>>
  BY <1>2, FieldsAreShown, SMTT(30)
<1>5. \A x, f : <<"actors", x, f>> \in Moved(b, a) <=>
              /\ f \in ActorFields
              /\ \/ x \in before /\ x \notin after
                 \/ x \in after /\ x \notin before
                 \/ x \in before /\ x \in after /\ b.actors[x][f] # a.actors[x][f]
  BY ActorMoved
<1>6. "role" \in ActorFields
  BY DEF ActorFields
<1>7. \A c : c \in ActorsChanges(b, a) <=>
          \/ \E x \in before \ after : c = Change(<<"actors", x>>, "actor", <<"removed">>)
          \/ \E x \in after \ before : c = Change(<<"actors", x>>, "actor", <<"added">>)
          \/ \E x \in before \cap after : c \in Kept(x)
  <2>1. \A c : /\ c \in Gone <=> \E x \in before \ after : c = Change(<<"actors", x>>, "actor", <<"removed">>)
               /\ c \in New <=> \E x \in after \ before : c = Change(<<"actors", x>>, "actor", <<"added">>)
               /\ c \in UNION {Kept(x) : x \in before \cap after} <=> \E x \in before \cap after : c \in Kept(x)
    OBVIOUS
  <2>2. \A c : c \in ActorsChanges(b, a) <=>
                  c \in Gone \/ c \in New \/ c \in UNION {Kept(x) : x \in before \cap after}
    BY <1>1
  <2> HIDE DEF Gone, New, Kept, before, after
  <2> QED
    BY <2>1, <2>2, Zenon
<1> HIDE DEF Gone, New, Kept, before, after
<1>8. ASSUME NEW x, NEW f, <<"actors", x, f>> \in Moved(b, a)
      PROVE  \E c \in ActorsChanges(b, a) : Shows(c, <<"actors", x, f>>)
  <2>1. CASE x \in before /\ x \notin after
    <3>1. PICK c \in ActorsChanges(b, a) : c = Change(<<"actors", x>>, "actor", <<"removed">>)
      BY <1>7, <2>1
    <3> QED
      BY <1>2, <1>3, <3>1, Zenon DEF Shows
  <2>2. CASE x \in after /\ x \notin before
    <3>1. PICK c \in ActorsChanges(b, a) : c = Change(<<"actors", x>>, "actor", <<"added">>)
      BY <1>7, <2>2
    <3> QED
      BY <1>2, <1>3, <3>1, Zenon DEF Shows
  <2>3. CASE x \in before /\ x \in after /\ f \in ActorFields /\ b.actors[x][f] # a.actors[x][f]
    <3>1. PICK c \in Kept(x) : c.path = <<"actors", x, f>> /\ c.class = Classify(f)
      BY <1>4, <2>3, Zenon
    <3>2. c \in ActorsChanges(b, a)
      BY <1>7, <2>3, <3>1
    <3>3. Classify(f) = "CONSEQUENTIAL" \/ f \in Wording
      BY <2>3, ClassesAre
    <3> QED
      BY <1>2, <3>1, <3>2, <3>3, Zenon DEF Shows
  <2> QED
    BY <1>5, <1>8, <2>1, <2>2, <2>3, Zenon
<1>9. ASSUME NEW c \in ActorsChanges(b, a)
      PROVE  Grounded(c, b, a)
  <2>1. ASSUME NEW x, (x \in before /\ x \notin after) \/ (x \in after /\ x \notin before),
               NEW what, c = Change(<<"actors", x>>, "actor", what)
        PROVE  Grounded(c, b, a)
    <3>1. c.path = <<"actors", x>>
      BY <1>3, <2>1, Zenon
    <3>2. <<"actors", x, "role">> \in Moved(b, a)
      BY <1>5, <1>6, <2>1, Zenon
    <3> QED
      BY <1>2, <3>1, <3>2, Zenon DEF Grounded
  <2>2. CASE \E x \in before \cap after : c \in Kept(x)
    <3>1. PICK x : x \in before /\ x \in after /\ c \in Kept(x)
      BY <2>2
    <3>2. PICK f \in ActorFields : b.actors[x][f] # a.actors[x][f] /\ c.path = <<"actors", x, f>>
      BY <1>4, <3>1, Zenon
    <3>3. <<"actors", x, f>> \in Moved(b, a)
      BY <1>5, <3>1, <3>2, Zenon
    <3> QED
      BY <1>2, <3>2, <3>3, Zenon DEF Grounded
  <2>3. \/ \E x : x \in before /\ x \notin after /\ c = Change(<<"actors", x>>, "actor", <<"removed">>)
        \/ \E x : x \in after /\ x \notin before /\ c = Change(<<"actors", x>>, "actor", <<"added">>)
        \/ \E x \in before \cap after : c \in Kept(x)
    BY <1>7
  <2>4. CASE \E x : x \in before /\ x \notin after /\ c = Change(<<"actors", x>>, "actor", <<"removed">>)
    BY <2>1, <2>4
  <2>5. CASE \E x : x \in after /\ x \notin before /\ c = Change(<<"actors", x>>, "actor", <<"added">>)
    BY <2>1, <2>5
  <2> QED
    BY <2>2, <2>3, <2>4, <2>5, Zenon
<1> QED
  BY <1>8, <1>9

(***************************************************************************)
(* A field of a capability that both documents have is shown when it       *)
(* differs; a purpose is the only one that may be called wording.          *)
(***************************************************************************)
LEMMA CapabilityShown ==
    ASSUME NEW x, NEW b, NEW a, ShapedScope(b.scope), ShapedScope(a.scope)
    PROVE  LET changes == CapabilityChanges(<<"capabilities", x>>, b, a)
           IN  /\ \A f \in CapabilityFields : Held(b, f) # Held(a, f) =>
                     \E c \in changes : Shows(c, <<"capabilities", x, f>>)
               /\ \A c \in changes : /\ c.path # <<>>
                                     /\ \E f \in CapabilityFields :
                                          /\ Held(b, f) # Held(a, f)
                                          /\ Covers(c.path, <<"capabilities", x, f>>)
<1> DEFINE base == <<"capabilities", x>>
           Plain == {"purpose", "standing", "reversibility"}
           Words == FieldChanges(base, Plain, b, a)
           Scopes == ScopeChanges(<<"capabilities", x, "scope">>, b.scope, a.scope)
           Facts == OrderedChanges(<<"capabilities", x, "requires">>, "fact", Requires(b), Requires(a))
           Effects == OrderedChanges(<<"capabilities", x, "effects">>, "effect", b.effects, a.effects)
<1>1. \A f : Append(base, f) = <<"capabilities", x, f>>
  BY PathsGrow
<1>2. CapabilityChanges(base, b, a) = Words \cup Scopes \cup Facts \cup Effects
  <2>1. CapabilityChanges(base, b, a) =
            FieldChanges(base, Plain, b, a)
              \cup ScopeChanges(Append(base, "scope"), b.scope, a.scope)
              \cup OrderedChanges(Append(base, "requires"), "fact", Requires(b), Requires(a))
              \cup OrderedChanges(Append(base, "effects"), "effect", b.effects, a.effects)
    BY DEF CapabilityChanges
  <2>2. /\ Append(base, "scope") = <<"capabilities", x, "scope">>
        /\ Append(base, "requires") = <<"capabilities", x, "requires">>
        /\ Append(base, "effects") = <<"capabilities", x, "effects">>
    BY <1>1
  <2> HIDE DEF base, Plain
  <2> QED
    BY <2>1, <2>2
<1>3. \A f, g : /\ Covers(<<"capabilities", x, f>>, <<"capabilities", x, f>>)
                /\ Covers(<<"capabilities", x, f, g>>, <<"capabilities", x, f>>)
                /\ <<"capabilities", x, f>> # <<>> /\ <<"capabilities", x, f, g>> # <<>>
                /\ Last(<<"capabilities", x, f>>) = f
  <2> TAKE f, g
  <2>1. <<"capabilities", x, f>> # <<>> /\ <<"capabilities", x, f, g>> # <<>>
    OBVIOUS
  <2>2. /\ Covers(<<"capabilities", x, f>>, <<"capabilities", x, f>>)
        /\ Covers(<<"capabilities", x, f, g>>, <<"capabilities", x, f>>)
    BY PathsCover
  <2>3. Last(<<"capabilities", x, f>>) = f
    BY LastNames
  <2> QED
    BY <2>1, <2>2, <2>3
<1>4. /\ \A f \in Plain : Held(b, f) = b[f] /\ Held(a, f) = a[f]
      /\ Held(b, "scope") = b.scope /\ Held(a, "scope") = a.scope
      /\ Held(b, "effects") = b.effects /\ Held(a, "effects") = a.effects
      /\ Held(b, "requires") = Requires(b) /\ Held(a, "requires") = Requires(a)
  BY DEF Held
<1>5. /\ \A f : f \in CapabilityFields <=> f \in Plain \/ f \in {"scope", "effects", "requires"}
      /\ \A f \in Plain : f \in CapabilityFields
      /\ {"scope", "effects", "requires"} \subseteq CapabilityFields
  BY DEF CapabilityFields
<1>6. /\ \A f \in Plain : b[f] # a[f] =>
            \E c \in Words : c.path = <<"capabilities", x, f>> /\ c.class = Classify(f)
      /\ \A c \in Words : \E f \in Plain : b[f] # a[f] /\ c.path = <<"capabilities", x, f>>
  <2>1. /\ \A f \in Plain : b[f] # a[f] =>
              \E c \in Words : c.path = Append(base, f) /\ c.class = Classify(f)
        /\ \A c \in Words : \E f \in Plain : b[f] # a[f] /\ c.path = Append(base, f)
    <3> HIDE DEF base, Plain
    <3> QED
      BY FieldsAreShown
  <2> HIDE DEF base, Plain, Words
  <2> QED
    BY <1>1, <2>1
<1>7. /\ b.scope # a.scope => Scopes # {}
      /\ \A c \in Scopes : /\ b.scope # a.scope /\ c.class = "CONSEQUENTIAL"
                           /\ \E g : c.path = <<"capabilities", x, "scope", g>>
  BY ScopesAreShown
<1>8. /\ Requires(b) # Requires(a) => Facts # {}
      /\ \A c \in Facts : /\ Requires(b) # Requires(a) /\ c.class = "CONSEQUENTIAL"
                          /\ c.path = <<"capabilities", x, "requires">>
  BY ListsAreShown, ClassesAre
<1>9. /\ b.effects # a.effects => Effects # {}
      /\ \A c \in Effects : /\ b.effects # a.effects /\ c.class = "CONSEQUENTIAL"
                            /\ c.path = <<"capabilities", x, "effects">>
  BY ListsAreShown, ClassesAre
<1>10. PICK changes : changes = CapabilityChanges(base, b, a)
  OBVIOUS
<1> HIDE DEF Words, Scopes, Facts, Effects, Plain
<1>11. ASSUME NEW f \in CapabilityFields, Held(b, f) # Held(a, f)
       PROVE  \E c \in changes : Shows(c, <<"capabilities", x, f>>)
  <2>1. CASE f \in Plain
    <3>1. PICK c \in Words : c.path = <<"capabilities", x, f>> /\ c.class = Classify(f)
      BY <1>4, <1>6, <1>11, <2>1, Zenon
    <3>2. c \in changes
      BY <1>2, <1>10, <3>1
    <3>3. Classify(f) = "CONSEQUENTIAL" \/ f \in Wording
      BY ClassesAre
    <3> QED
      BY <1>3, <3>1, <3>2, <3>3, Zenon DEF Shows
  <2>2. CASE f = "scope"
    <3>1. PICK c \in Scopes : c.class = "CONSEQUENTIAL" /\ \E g : c.path = <<"capabilities", x, "scope", g>>
      BY <1>4, <1>7, <1>11, <2>2
    <3>2. c \in changes
      BY <1>2, <1>10, <3>1
    <3> QED
      BY <1>3, <2>2, <3>1, <3>2, Zenon DEF Shows
  <2>3. CASE f = "requires"
    <3>1. PICK c \in Facts : c.class = "CONSEQUENTIAL" /\ c.path = <<"capabilities", x, "requires">>
      BY <1>4, <1>8, <1>11, <2>3
    <3>2. c \in changes
      BY <1>2, <1>10, <3>1
    <3> QED
      BY <1>3, <2>3, <3>1, <3>2, Zenon DEF Shows
  <2>4. CASE f = "effects"
    <3>1. PICK c \in Effects : c.class = "CONSEQUENTIAL" /\ c.path = <<"capabilities", x, "effects">>
      BY <1>4, <1>9, <1>11, <2>4
    <3>2. c \in changes
      BY <1>2, <1>10, <3>1
    <3> QED
      BY <1>3, <2>4, <3>1, <3>2, Zenon DEF Shows
  <2> QED
    BY <1>5, <2>1, <2>2, <2>3, <2>4
<1>12. ASSUME NEW c \in changes
       PROVE  /\ c.path # <<>>
              /\ \E f \in CapabilityFields : Held(b, f) # Held(a, f) /\ Covers(c.path, <<"capabilities", x, f>>)
  <2>1. CASE c \in Words
    BY <1>3, <1>4, <1>5, <1>6, <2>1, ZenonT(40)
  <2>2. CASE c \in Scopes
    BY <1>3, <1>4, <1>5, <1>7, <2>2, ZenonT(40)
  <2>3. CASE c \in Facts
    BY <1>3, <1>4, <1>5, <1>8, <2>3
  <2>4. CASE c \in Effects
    BY <1>3, <1>4, <1>5, <1>9, <2>4
  <2> QED
    BY <1>2, <1>10, <2>1, <2>2, <2>3, <2>4
<1> QED
  BY <1>10, <1>11, <1>12

(***************************************************************************)
(* A field of a capability is shown when it moved, be it with the          *)
(* capability; and a different list of the actions is shown as             *)
(* consequential, whatever else is.                                        *)
(***************************************************************************)
LEMMA CapabilitiesShown ==
    ASSUME NEW b, NEW a, Shaped(b), Shaped(a),
           IsInjective(ActionsOf(b)), IsInjective(ActionsOf(a))
    PROVE  /\ \A x, f : <<"capabilities", x, f>> \in Moved(b, a) =>
                 \E c \in CapabilitiesChanges(b, a) : Shows(c, <<"capabilities", x, f>>)
           /\ \A c \in CapabilitiesChanges(b, a) : Grounded(c, b, a)
           /\ ActionsOf(b) # ActionsOf(a) =>
                 \E c \in CapabilitiesChanges(b, a) : c.class = "CONSEQUENTIAL"
<1> DEFINE before == ToSet(ActionsOf(b))
           after == ToSet(ActionsOf(a))
           Gone == {Change(<<"capabilities", x>>, "capability", <<"removed">>) : x \in before \ after}
           New == {Change(<<"capabilities", x>>, "capability", <<"added">>) : x \in after \ before}
           Kept(x) == CapabilityChanges(<<"capabilities", x>>, Named(b, x), Named(a, x))
           Order == IF before = after /\ ActionsOf(b) # ActionsOf(a)
                    THEN {Change(<<"capabilities">>, "capabilities", <<"order">>)} ELSE {}
<1>1. CapabilitiesChanges(b, a) = Gone \cup New \cup (UNION {Kept(x) : x \in before \cap after}) \cup Order
  BY DEF CapabilitiesChanges
<1>2. ASSUME NEW x, NEW f
      PROVE  /\ Covers(<<"capabilities", x>>, <<"capabilities", x, f>>)
             /\ <<"capabilities", x>> # <<>> /\ <<"capabilities">> # <<>>
  <2>1. <<"capabilities", x>> # <<>> /\ <<"capabilities">> # <<>>
    OBVIOUS
  <2> QED
    BY <2>1, PathsCover
<1>3. /\ \A x, what : LET c == Change(<<"capabilities", x>>, "capability", what)
                      IN  c.path = <<"capabilities", x>> /\ c.class = "CONSEQUENTIAL"
      /\ LET c == Change(<<"capabilities">>, "capabilities", <<"order">>)
         IN  c.path = <<"capabilities">> /\ c.change = <<"order">> /\ c.class = "CONSEQUENTIAL"
  BY ClassesAre DEF Change
<1>4. \A c \in ToSet(b.capabilities) \cup ToSet(a.capabilities) : ShapedScope(c.scope)
  BY DEF Shaped, ShapedCapability
<1>5. ASSUME NEW x \in before \cap after
      PROVE  /\ \A f \in CapabilityFields : Held(Named(b, x), f) # Held(Named(a, x), f) =>
                   \E c \in Kept(x) : Shows(c, <<"capabilities", x, f>>)
             /\ \A c \in Kept(x) : /\ c.path # <<>>
                                   /\ \E f \in CapabilityFields :
                                        /\ Held(Named(b, x), f) # Held(Named(a, x), f)
                                        /\ Covers(c.path, <<"capabilities", x, f>>)
  <2>1. PICK d, e : d = Named(b, x) /\ e = Named(a, x)
    OBVIOUS
  <2>2. ShapedScope(d.scope) /\ ShapedScope(e.scope)
    BY <1>4, <2>1, NamesFind
  <2>3. LET changes == CapabilityChanges(<<"capabilities", x>>, d, e)
        IN  /\ \A f \in CapabilityFields : Held(d, f) # Held(e, f) =>
                     \E c \in changes : Shows(c, <<"capabilities", x, f>>)
            /\ \A c \in changes : /\ c.path # <<>>
                                  /\ \E f \in CapabilityFields :
                                       /\ Held(d, f) # Held(e, f)
                                       /\ Covers(c.path, <<"capabilities", x, f>>)
    BY <2>2, CapabilityShown
  <2> QED
    BY <2>1, <2>3
<1>6. \A x, f : <<"capabilities", x, f>> \in Moved(b, a) <=>
              /\ f \in CapabilityFields
              /\ \/ x \in before /\ x \notin after
                 \/ x \in after /\ x \notin before
                 \/ /\ x \in before /\ x \in after
                    /\ Held(Named(b, x), f) # Held(Named(a, x), f)
  BY CapabilityMoved
<1>7. "standing" \in CapabilityFields
  BY DEF CapabilityFields
<1>8. \A c : c \in CapabilitiesChanges(b, a) <=>
          \/ \E x \in before \ after : c = Change(<<"capabilities", x>>, "capability", <<"removed">>)
          \/ \E x \in after \ before : c = Change(<<"capabilities", x>>, "capability", <<"added">>)
          \/ \E x \in before \cap after : c \in Kept(x)
          \/ /\ before = after /\ ActionsOf(b) # ActionsOf(a)
             /\ c = Change(<<"capabilities">>, "capabilities", <<"order">>)
  <2>1. \A c : /\ c \in Gone <=> \E x \in before \ after : c = Change(<<"capabilities", x>>, "capability", <<"removed">>)
               /\ c \in New <=> \E x \in after \ before : c = Change(<<"capabilities", x>>, "capability", <<"added">>)
               /\ c \in UNION {Kept(x) : x \in before \cap after} <=> \E x \in before \cap after : c \in Kept(x)
    OBVIOUS
  <2>2. \A c : c \in CapabilitiesChanges(b, a) <=>
          c \in Gone \/ c \in New \/ c \in UNION {Kept(x) : x \in before \cap after} \/ c \in Order
    BY <1>1
  <2>3. \A c : c \in Order <=> /\ before = after /\ ActionsOf(b) # ActionsOf(a)
                               /\ c = Change(<<"capabilities">>, "capabilities", <<"order">>)
    <3> HIDE DEF before, after
    <3> QED
      OBVIOUS
  <2> HIDE DEF Gone, New, Kept, Order, before, after
  <2> QED
    BY <2>1, <2>2, <2>3, Zenon
<1> HIDE DEF Gone, New, Kept, Order, before, after
<1>9. ASSUME NEW x, (x \in before /\ x \notin after) \/ (x \in after /\ x \notin before)
      PROVE  \E c \in CapabilitiesChanges(b, a) : c.path = <<"capabilities", x>> /\ c.class = "CONSEQUENTIAL"
  <2>1. PICK what : Change(<<"capabilities", x>>, "capability", what) \in CapabilitiesChanges(b, a)
    BY <1>8, <1>9
  <2> QED
    BY <1>3, <2>1
<1>10. ASSUME NEW x, NEW f, <<"capabilities", x, f>> \in Moved(b, a)
       PROVE  \E c \in CapabilitiesChanges(b, a) : Shows(c, <<"capabilities", x, f>>)
  <2>1. CASE (x \in before /\ x \notin after) \/ (x \in after /\ x \notin before)
    <3>1. PICK c \in CapabilitiesChanges(b, a) : c.path = <<"capabilities", x>> /\ c.class = "CONSEQUENTIAL"
      BY <1>9, <2>1, Zenon
    <3> QED
      BY <1>2, <3>1, Zenon DEF Shows
  <2>2. CASE /\ x \in before /\ x \in after /\ f \in CapabilityFields
             /\ Held(Named(b, x), f) # Held(Named(a, x), f)
    <3>1. x \in before \cap after
      BY <2>2
    <3>2. PICK c \in Kept(x) : Shows(c, <<"capabilities", x, f>>)
      BY <1>5, <2>2, <3>1, Zenon
    <3>3. c \in CapabilitiesChanges(b, a)
      BY <1>8, <3>1, <3>2, Zenon
    <3> QED
      BY <3>2, <3>3
  <2> QED
    BY <1>6, <1>10, <2>1, <2>2, Zenon
<1>11. ASSUME NEW c \in CapabilitiesChanges(b, a)
       PROVE  Grounded(c, b, a)
  <2>1. ASSUME NEW x, (x \in before /\ x \notin after) \/ (x \in after /\ x \notin before),
               NEW what, c = Change(<<"capabilities", x>>, "capability", what)
        PROVE  Grounded(c, b, a)
    <3>1. c.path = <<"capabilities", x>>
      BY <1>3, <2>1
    <3>2. <<"capabilities", x, "standing">> \in Moved(b, a)
      BY <1>6, <1>7, <2>1, Zenon
    <3> QED
      BY <1>2, <3>1, <3>2, Zenon DEF Grounded
  <2>2. ASSUME NEW x \in before \cap after, c \in Kept(x)
        PROVE  Grounded(c, b, a)
    <3>1. PICK f \in CapabilityFields : /\ Held(Named(b, x), f) # Held(Named(a, x), f)
                                        /\ Covers(c.path, <<"capabilities", x, f>>)
      BY <1>5, <2>2, Zenon
    <3>2. x \in before /\ x \in after
      BY <2>2
    <3>3. <<"capabilities", x, f>> \in Moved(b, a)
      BY <1>6, <3>1, <3>2, Zenon
    <3>4. c.path # <<>>
      BY <1>5, <2>2, Zenon
    <3> QED
      BY <3>1, <3>3, <3>4, Zenon DEF Grounded
  <2>3. CASE c = Change(<<"capabilities">>, "capabilities", <<"order">>)
    BY <1>2, <1>3, <2>3 DEF Grounded
  <2>4. \/ \E x : x \in before /\ x \notin after /\ c = Change(<<"capabilities", x>>, "capability", <<"removed">>)
        \/ \E x : x \in after /\ x \notin before /\ c = Change(<<"capabilities", x>>, "capability", <<"added">>)
        \/ \E x \in before \cap after : c \in Kept(x)
        \/ c = Change(<<"capabilities">>, "capabilities", <<"order">>)
    BY <1>8
  <2> QED
    BY <2>1, <2>2, <2>3, <2>4, Zenon
<1>12. ASSUME ActionsOf(b) # ActionsOf(a)
       PROVE  \E c \in CapabilitiesChanges(b, a) : c.class = "CONSEQUENTIAL"
  <2>1. CASE before = after
    <3>1. Change(<<"capabilities">>, "capabilities", <<"order">>) \in CapabilitiesChanges(b, a)
      BY <1>8, <1>12, <2>1
    <3> QED
      BY <1>3, <3>1
  <2>2. CASE before # after
    <3>1. PICK x : (x \in before /\ x \notin after) \/ (x \in after /\ x \notin before)
      BY <2>2
    <3> QED
      BY <1>9, <3>1
  <2> QED
    BY <2>1, <2>2
<1> QED
  BY <1>10, <1>11, <1>12

-----------------------------------------------------------------------------
(***************************************************************************)
(* The diff as a whole.                                                    *)
(***************************************************************************)

(***************************************************************************)
(* Every value that moved is shown, and the changes show nothing else.     *)
(***************************************************************************)
LEMMA MovesAreShown ==
    ASSUME NEW b, NEW a, Shaped(b), Shaped(a),
           IsInjective(ActionsOf(b)), IsInjective(ActionsOf(a))
    PROVE  /\ \A leaf \in Moved(b, a) : \E c \in Changes(b, a) : Shows(c, leaf)
           /\ \A c \in Changes(b, a) : Grounded(c, b, a)
<1>1. \A c : c \in Changes(b, a) <=>
          \/ c \in FieldChanges(<<>>, {"profile"}, b, a)
          \/ \E n \in Sections : c \in SectionChanges(n, b, a)
          \/ c \in DestinationChanges(b, a)
          \/ c \in ActorsChanges(b, a)
          \/ c \in CapabilitiesChanges(b, a)
  BY DEF Changes
<1>2. ASSUME NEW leaf \in Moved(b, a)
      PROVE  \E c \in Changes(b, a) : Shows(c, leaf)
  <2>1. CASE leaf = <<"profile">>
    <3>1. PICK c \in FieldChanges(<<>>, {"profile"}, b, a) : Shows(c, leaf)
      BY <1>2, <2>1, ProfileShown
    <3> QED
      BY <1>1, <3>1
  <2>2. ASSUME NEW n \in Sections, NEW f, leaf = <<n, f>>
        PROVE  \E c \in Changes(b, a) : Shows(c, leaf)
    <3>1. f \in DOMAIN b[n]
      BY <1>2, <2>2, SectionMoved
    <3>2. f \in Compared[n] \/ (n = "external_upload" /\ f = "known_destinations")
      BY <3>1, SectionsAreShaped DEF Sections, Compared
    <3>3. CASE f \in Compared[n]
      <4>1. PICK c \in SectionChanges(n, b, a) : Shows(c, leaf)
        BY <1>2, <2>2, <3>3, SectionShown
      <4> QED
        BY <1>1, <4>1
    <3>4. CASE n = "external_upload" /\ f = "known_destinations"
      <4>1. PICK c \in DestinationChanges(b, a) : Shows(c, leaf)
        BY <1>2, <2>2, <3>4, DestinationsShown
      <4> QED
        BY <1>1, <4>1
    <3> QED
      BY <3>2, <3>3, <3>4
  <2>3. ASSUME NEW x, NEW f, leaf = <<"actors", x, f>>
        PROVE  \E c \in Changes(b, a) : Shows(c, leaf)
    <3>1. PICK c \in ActorsChanges(b, a) : Shows(c, leaf)
      BY <1>2, <2>3, ActorsShown
    <3> QED
      BY <1>1, <3>1
  <2>4. ASSUME NEW x, NEW f, leaf = <<"capabilities", x, f>>
        PROVE  \E c \in Changes(b, a) : Shows(c, leaf)
    <3>1. PICK c \in CapabilitiesChanges(b, a) : Shows(c, leaf)
      BY <1>2, <2>4, CapabilitiesShown
    <3> QED
      BY <1>1, <3>1
  <2>5. \/ leaf = <<"profile">>
        \/ \E n \in Sections : \E f : leaf = <<n, f>>
        \/ \E x, f : leaf = <<"actors", x, f>>
        \/ \E x, f : leaf = <<"capabilities", x, f>>
    BY MovedKinds
  <2> QED
    BY <2>1, <2>2, <2>3, <2>4, <2>5, Zenon
<1>3. ASSUME NEW c \in Changes(b, a)
      PROVE  Grounded(c, b, a)
  <2>1. CASE c \in FieldChanges(<<>>, {"profile"}, b, a)
    BY <2>1, ProfileShown
  <2>2. CASE \E n \in Sections : c \in SectionChanges(n, b, a)
    BY <2>2, SectionShown
  <2>3. CASE c \in DestinationChanges(b, a)
    BY <2>3, DestinationsShown
  <2>4. CASE c \in ActorsChanges(b, a)
    BY <2>4, ActorsShown
  <2>5. CASE c \in CapabilitiesChanges(b, a)
    BY <2>5, CapabilitiesShown
  <2> QED
    BY <1>1, <1>3, <2>1, <2>2, <2>3, <2>4, <2>5
<1> QED
  BY <1>2, <1>3

(***************************************************************************)
(* An object is its fields.                                                *)
(***************************************************************************)
LEMMA ObjectsAreFields ==
    ASSUME NEW fields, NEW o, NEW p, Object(o, fields), Object(p, fields), \A f \in fields : o[f] = p[f]
    PROVE  o = p
<1>1. o = [f \in fields |-> o[f]] /\ p = [f \in fields |-> p[f]]
  BY DEF Object
<1>2. [f \in fields |-> o[f]] = [f \in fields |-> p[f]]
  OBVIOUS
<1> QED
  BY <1>1, <1>2

(***************************************************************************)
(* Capabilities of two valid documents with the same actions in the same   *)
(* order: the one at a place has the other's name, and a field of theirs   *)
(* moved when it differs.                                                  *)
(***************************************************************************)
LEMMA CapabilitiesInPlace ==
    ASSUME NEW b, NEW a, Shaped(b), Shaped(a),
           IsInjective(ActionsOf(b)), ActionsOf(b) = ActionsOf(a)
    PROVE  /\ DOMAIN b.capabilities = DOMAIN a.capabilities
           /\ \A i \in DOMAIN b.capabilities :
                 /\ b.capabilities[i] \in ToSet(b.capabilities)
                 /\ a.capabilities[i] \in ToSet(a.capabilities)
                 /\ b.capabilities[i].action = a.capabilities[i].action
                 /\ \A f \in CapabilityFields :
                      Held(b.capabilities[i], f) # Held(a.capabilities[i], f) =>
                        \E x : <<"capabilities", x, f>> \in Moved(b, a)
<1>1. \A d : /\ DOMAIN ActionsOf(d) = DOMAIN d.capabilities
             /\ \A i \in DOMAIN d.capabilities : ActionsOf(d)[i] = d.capabilities[i].action
  BY DEF ActionsOf
<1>2. IsInjective(ActionsOf(a))
  OBVIOUS
<1>3. DOMAIN b.capabilities = DOMAIN a.capabilities
  BY <1>1
<1>4. ASSUME NEW i \in DOMAIN b.capabilities
      PROVE  /\ b.capabilities[i] \in ToSet(b.capabilities)
             /\ a.capabilities[i] \in ToSet(a.capabilities)
             /\ b.capabilities[i].action = a.capabilities[i].action
  BY <1>1, <1>3 DEF ToSet
<1>5. ASSUME NEW i \in DOMAIN b.capabilities, NEW f \in CapabilityFields,
             Held(b.capabilities[i], f) # Held(a.capabilities[i], f)
      PROVE  \E x : <<"capabilities", x, f>> \in Moved(b, a)
  <2>1. PICK c, e, x : c = b.capabilities[i] /\ e = a.capabilities[i] /\ x = c.action
    OBVIOUS
  <2>2. c \in ToSet(b.capabilities) /\ e \in ToSet(a.capabilities) /\ e.action = x
    BY <1>4, <2>1
  <2>3. /\ x \in ToSet(ActionsOf(b)) /\ Named(b, x) = c
        /\ x \in ToSet(ActionsOf(a)) /\ Named(a, x) = e
    BY <1>2, <2>1, <2>2, NamesFind
  <2>4. Held(Named(b, x), f) # Held(Named(a, x), f)
    BY <1>5, <2>1, <2>3
  <2>5. <<"capabilities", x, f>> \in Moved(b, a)
    BY <1>2, <2>3, <2>4, CapabilityMoved
  <2> QED
    BY <2>5
<1> QED
  BY <1>3, <1>4, <1>5

(***************************************************************************)
(* Two valid documents none of whose values moved, with their actions in   *)
(* the same order, are one document.                                       *)
(***************************************************************************)
LEMMA ValuesAreTheDocument ==
    ASSUME NEW b, NEW a, Valid(b), Valid(a),
           Moved(b, a) = {}, ActionsOf(b) = ActionsOf(a)
    PROVE  b = a
<1> Shaped(b) /\ Shaped(a)
  BY DEF Valid
<1>1. b.schema = a.schema /\ b.profile = a.profile
  <2>1. b.schema = a.schema
    BY DEF Valid
  <2>2. b.profile = a.profile
    BY ProfileMoved
  <2> QED
    BY <2>1, <2>2
<1>2. \A n \in Sections : \A f \in DOMAIN b[n] : b[n][f] = a[n][f]
  BY SectionMoved
<1>3. /\ b.human = a.human /\ b.project = a.project
      /\ b.public_identity = a.public_identity /\ b.external_upload = a.external_upload
      /\ b.promotional_credit = a.promotional_credit
  <2>1. b.human = a.human
    <3>1. \A f \in {"id", "note"} : b.human[f] = a.human[f]
      BY <1>2, SectionsAreShaped DEF Sections
    <3> QED
      BY <3>1, ObjectsAreFields DEF Shaped
  <2>2. b.project = a.project
    <3>1. \A f \in {"id", "display_name", "root_scope", "canonical_repository"} : b.project[f] = a.project[f]
      BY <1>2, SectionsAreShaped DEF Sections
    <3> QED
      BY <3>1, ObjectsAreFields DEF Shaped
  <2>3. b.public_identity = a.public_identity
    <3>1. \A f \in {"subject", "note"} : b.public_identity[f] = a.public_identity[f]
      BY <1>2, SectionsAreShaped DEF Sections
    <3> QED
      BY <3>1, ObjectsAreFields DEF Shaped
  <2>4. b.external_upload = a.external_upload
    <3>1. \A f \in {"known_destinations", "note"} : b.external_upload[f] = a.external_upload[f]
      BY <1>2, SectionsAreShaped DEF Sections
    <3> QED
      BY <3>1, ObjectsAreFields DEF Shaped
  <2>5. b.promotional_credit = a.promotional_credit
    <3>1. \A f \in {"provider", "currency", "note", "per_call_limit_cents"} :
              b.promotional_credit[f] = a.promotional_credit[f]
      BY <1>2, SectionsAreShaped DEF Sections
    <3> QED
      BY <3>1, ObjectsAreFields DEF Shaped
  <2> QED
    BY <2>1, <2>2, <2>3, <2>4, <2>5
<1>4. b.actors = a.actors
  <2>1. DOMAIN b.actors = DOMAIN a.actors
    BY ActorMoved DEF ActorFields
  <2>2. ASSUME NEW x \in DOMAIN b.actors
        PROVE  b.actors[x] = a.actors[x]
    <3>1. \A f \in ActorFields : b.actors[x][f] = a.actors[x][f]
      BY <2>1, ActorMoved, ZenonT(40)
    <3>2. Object(b.actors[x], ActorFields) /\ Object(a.actors[x], ActorFields)
      BY <2>1 DEF Shaped, ActorFields
    <3> QED
      BY <3>1, <3>2, ObjectsAreFields
  <2>3. Object(b.actors, DOMAIN b.actors) /\ Object(a.actors, DOMAIN b.actors)
    BY <2>1 DEF Shaped
  <2> QED
    BY <2>2, <2>3, ObjectsAreFields
<1>5. b.capabilities = a.capabilities
  <2>1. IsInjective(ActionsOf(b))
    BY DEF Valid
  <2>2. DOMAIN b.capabilities = DOMAIN a.capabilities
    BY <2>1, CapabilitiesInPlace
  <2>3. ASSUME NEW i \in DOMAIN b.capabilities
        PROVE  b.capabilities[i] = a.capabilities[i]
    <3>1. PICK c, e : c = b.capabilities[i] /\ e = a.capabilities[i]
      OBVIOUS
    <3>2. /\ c \in ToSet(b.capabilities) /\ e \in ToSet(a.capabilities) /\ c.action = e.action
          /\ \A f \in CapabilityFields : Held(c, f) = Held(e, f)
      BY <2>1, <3>1, CapabilitiesInPlace
    <3>3. /\ c.requires # <<>> /\ e.requires # <<>>
          /\ ShapedCapability(c) /\ ShapedCapability(e)
      BY <3>2 DEF Valid, ValidCapability, Shaped
    <3>4. Requires(c) = Requires(e) /\ \A f \in CapabilityFields \ {"requires"} : c[f] = e[f]
      BY <3>2 DEF Held, CapabilityFields
    <3>5. c.requires = e.requires
      BY <3>3, <3>4 DEF Requires
    <3>6. \A f \in {"action", "purpose", "standing", "scope", "reversibility", "effects", "requires"} : c[f] = e[f]
      BY <3>2, <3>4, <3>5 DEF CapabilityFields
    <3>7. c = e
      BY <3>3, <3>6, ObjectsAreFields DEF ShapedCapability
    <3> QED
      BY <3>1, <3>7
  <2>4. /\ b.capabilities = [i \in DOMAIN b.capabilities |-> b.capabilities[i]]
        /\ a.capabilities = [i \in DOMAIN a.capabilities |-> a.capabilities[i]]
    <3>1. b.capabilities \in Seq(ToSet(b.capabilities)) /\ a.capabilities \in Seq(ToSet(a.capabilities))
      BY DEF Shaped
    <3> QED
      BY <3>1
  <2> QED
    BY <2>2, <2>3, <2>4
<1>6. \A f \in {"schema", "profile", "human", "project", "actors", "public_identity",
                "external_upload", "promotional_credit", "capabilities"} : b[f] = a[f]
  BY <1>1, <1>3, <1>4, <1>5
<1> QED
  BY <1>6, ObjectsAreFields DEF Shaped

(***************************************************************************)
(* The diff of two valid documents, for any two: it is empty only for one  *)
(* document, never falls to the unnamed change, names every field whose    *)
(* value moved and calls none of them presentation unless it is wording,   *)
(* and names nothing else but for an order (doctrine_diff.py:11-17,        *)
(* 567-588).  A list is one value: how it changed is not said.             *)
(***************************************************************************)
THEOREM DiffIsExact ==
    ASSUME NEW b, NEW a, Valid(b), Valid(a)
    PROVE  /\ b # a => Diff(b, a) # {} /\ Unnamed \notin Diff(b, a)
           /\ \A leaf \in Moved(b, a) : \E c \in Diff(b, a) : Shows(c, leaf)
           /\ \A c \in Diff(b, a) : Grounded(c, b, a)
<1> Shaped(b) /\ Shaped(a)
  BY DEF Valid
<1>1. IsInjective(ActionsOf(b)) /\ IsInjective(ActionsOf(a))
  BY DEF Valid
<1>2. /\ \A leaf \in Moved(b, a) : \E c \in Changes(b, a) : Shows(c, leaf)
      /\ \A c \in Changes(b, a) : Grounded(c, b, a)
  BY <1>1, MovesAreShown
<1>3. b # a => Changes(b, a) # {}
  <2>1. CASE Moved(b, a) # {}
    BY <1>2, <2>1
  <2>2. CASE ActionsOf(b) # ActionsOf(a)
    <3>1. CapabilitiesChanges(b, a) # {}
      BY <1>1, <2>2, CapabilitiesShown
    <3> QED
      BY <3>1 DEF Changes
  <2>3. CASE Moved(b, a) = {} /\ ActionsOf(b) = ActionsOf(a)
    BY <2>3, ValuesAreTheDocument
  <2> QED
    BY <2>1, <2>2, <2>3
<1>4. Diff(b, a) = Changes(b, a)
  BY <1>3, DiffIs
<1>5. Unnamed \notin Changes(b, a)
  <2>1. Unnamed.path = <<>>
    BY DEF Unnamed
  <2> QED
    BY <1>2, <2>1 DEF Grounded
<1> QED
  BY <1>2, <1>3, <1>4, <1>5

-----------------------------------------------------------------------------
(***************************************************************************)
(* What a doctrine makes the program do.                                   *)
(***************************************************************************)

(***************************************************************************)
(* Two capabilities that differ at most in the purpose are pinned, decided *)
(* and conditioned alike.                                                  *)
(***************************************************************************)
LEMMA PurposeIsNotEnforced ==
    ASSUME NEW c, NEW e, c.action = e.action,
           \A f \in CapabilityFields \ Wording : Held(c, f) = Held(e, f)
    PROVE  /\ Manifest(c) = Manifest(e) /\ c.standing = e.standing
           /\ Requires(c) = Requires(e) /\ (Unsupported(c) <=> Unsupported(e))
<1>1. /\ c.standing = e.standing /\ c.scope = e.scope /\ c.reversibility = e.reversibility
      /\ c.effects = e.effects /\ Requires(c) = Requires(e)
  BY DEF CapabilityFields, Wording, Held
<1> DEFINE Pinned(action, effects, reversibility, scope, standing) ==
              [action |-> action, effects |-> effects, reversibility |-> reversibility,
               scope |-> scope, standing_permitted |-> standing = "allow"]
<1>2. /\ Manifest(c) = Pinned(c.action, c.effects, c.reversibility, c.scope, c.standing)
      /\ Manifest(e) = Pinned(e.action, e.effects, e.reversibility, e.scope, e.standing)
  BY Zenon DEF Manifest
<1>3. Unsupported(c) <=> Unsupported(e)
  BY <1>1 DEF Unsupported
<1> HIDE DEF Pinned
<1> QED
  BY <1>1, <1>2, <1>3

(***************************************************************************)
(* Two valid doctrines that the program enforces differently have a        *)
(* consequential change in their diff (doctrine.py:160-207,                *)
(* doctrine_diff.py:567-588).                                              *)
(***************************************************************************)
THEOREM ConsequencesAreShown ==
    ASSUME NEW b, NEW a, Valid(b), Valid(a), Enforced(b) # Enforced(a)
    PROVE  \E c \in Diff(b, a) : c.class = "CONSEQUENTIAL"
<1> Shaped(b) /\ Shaped(a)
  BY DEF Valid
<1> SUFFICES ASSUME \A c \in Diff(b, a) : c.class # "CONSEQUENTIAL"
             PROVE  Enforced(b) = Enforced(a)
  OBVIOUS
<1>1. IsInjective(ActionsOf(b)) /\ IsInjective(ActionsOf(a))
  BY DEF Valid
<1>2. CASE b = a
  BY <1>2
<1>3. CASE b # a
  <2>1. \A leaf \in Moved(b, a) : Last(leaf) \in Wording
    BY DiffIsExact, Zenon DEF Shows
  <2>2. ActionsOf(b) = ActionsOf(a)
    <3>1. Unnamed \notin Diff(b, a)
      BY <1>3, DiffIsExact, Zenon
    <3>2. Diff(b, a) = Changes(b, a)
      BY <3>1, DiffIs
    <3>3. \A c \in CapabilitiesChanges(b, a) : c.class # "CONSEQUENTIAL"
      BY <3>2 DEF Changes
    <3> QED
      BY <1>1, <3>3, CapabilitiesShown
  <2>3. ASSUME NEW n \in Sections, NEW f \in DOMAIN b[n], f \notin Wording
        PROVE  b[n][f] = a[n][f]
    <3>1. Last(<<n, f>>) = f
      BY LastNames
    <3>2. <<n, f>> \notin Moved(b, a)
      BY <2>1, <2>3, <3>1
    <3> QED
      BY <3>2, SectionMoved
  <2>4. ASSUME NEW x, NEW f \in ActorFields, f \notin Wording
        PROVE  /\ x \in DOMAIN b.actors <=> x \in DOMAIN a.actors
               /\ x \in DOMAIN b.actors => b.actors[x][f] = a.actors[x][f]
    <3>1. Last(<<"actors", x, f>>) = f
      BY LastNames
    <3>2. <<"actors", x, f>> \notin Moved(b, a)
      BY <2>1, <2>4, <3>1
    <3> QED
      BY <3>2, ActorMoved
  <2>5. Adapted(b) = Adapted(a)
    <3>1. b.project.canonical_repository = a.project.canonical_repository
      BY <2>3, SectionsAreShaped DEF Sections, Wording
    <3>2. /\ b.promotional_credit.per_call_limit_cents = a.promotional_credit.per_call_limit_cents
          /\ b.promotional_credit.provider = a.promotional_credit.provider
      BY <2>3, SectionsAreShaped DEF Sections, Wording
    <3>3. b.external_upload.known_destinations = a.external_upload.known_destinations
      BY <2>3, SectionsAreShaped DEF Sections, Wording
    <3>4. "trusted" \in ActorFields \ Wording /\ "merge_authority" \in ActorFields \ Wording
      BY DEF ActorFields, Wording
    <3>5. DOMAIN b.actors = DOMAIN a.actors
      BY <2>4, <3>4
    <3>6. \A x \in DOMAIN b.actors : /\ b.actors[x].trusted = a.actors[x].trusted
                                     /\ b.actors[x].merge_authority = a.actors[x].merge_authority
      BY <2>4, <3>4
    <3> DEFINE Known(d) == [x \in DOMAIN d.actors |-> <<d.actors[x].trusted, d.actors[x].merge_authority = TRUE>>]
               Facts(repository, limit, provider, destinations, actors) ==
                 [repository |-> repository, limit |-> limit, provider |-> provider,
                  destinations |-> destinations, actors |-> actors]
    <3>7. Known(b) = Known(a)
      <4>1. \A x \in DOMAIN b.actors :
                <<b.actors[x].trusted, b.actors[x].merge_authority = TRUE>> =
                <<a.actors[x].trusted, a.actors[x].merge_authority = TRUE>>
        BY <3>6, Zenon
      <4> QED
        BY <3>5, <4>1, Zenon
    <3>8. \A d : Adapted(d) = Facts(d.project.canonical_repository, d.promotional_credit.per_call_limit_cents,
                                    d.promotional_credit.provider,
                                    ToSet(d.external_upload.known_destinations), Known(d))
      BY Zenon DEF Adapted
    <3> HIDE DEF Known, Facts
    <3> QED
      BY <3>1, <3>2, <3>3, <3>7, <3>8
  <2>6. ASSUME NEW i \in DOMAIN b.capabilities, NEW f \in CapabilityFields \ Wording
        PROVE  Held(b.capabilities[i], f) = Held(a.capabilities[i], f)
    <3>1. \A x : <<"capabilities", x, f>> \notin Moved(b, a)
      BY <2>1, LastNames
    <3> QED
      BY <1>1, <2>2, <3>1, CapabilitiesInPlace
  <2>7. /\ DOMAIN b.capabilities = DOMAIN a.capabilities
        /\ \A i \in DOMAIN b.capabilities : b.capabilities[i].action = a.capabilities[i].action
    BY <1>1, <2>2, CapabilitiesInPlace
  <2>8. Compiled(b) = Compiled(a)
    <3> DEFINE Rule(c) == [manifest |-> Manifest(c), decision |-> c.standing,
                           conditions |-> <<"actor.trusted">> \o Requires(c)]
               Rules(d) == [i \in DOMAIN d.capabilities |-> Rule(d.capabilities[i])]
    <3>1. \A d : Compiled(d) = IF \E c \in ToSet(d.capabilities) : Unsupported(c) THEN <<>> ELSE Rules(d)
      BY DEF Compiled
    <3>2. ASSUME NEW i \in DOMAIN b.capabilities
          PROVE  /\ Rule(b.capabilities[i]) = Rule(a.capabilities[i])
                 /\ Unsupported(b.capabilities[i]) <=> Unsupported(a.capabilities[i])
      <4>1. PICK c, e : c = b.capabilities[i] /\ e = a.capabilities[i]
        OBVIOUS
      <4>2. c.action = e.action /\ \A f \in CapabilityFields \ Wording : Held(c, f) = Held(e, f)
        BY <2>6, <2>7, <4>1
      <4>3. /\ Manifest(c) = Manifest(e) /\ c.standing = e.standing
            /\ Requires(c) = Requires(e) /\ (Unsupported(c) <=> Unsupported(e))
        BY <4>2, PurposeIsNotEnforced
      <4>4. Rule(c) = Rule(e)
        BY <4>3
      <4> HIDE DEF Rule
      <4> QED
        BY <4>1, <4>3, <4>4
    <3>3. (\E c \in ToSet(b.capabilities) : Unsupported(c)) <=> (\E c \in ToSet(a.capabilities) : Unsupported(c))
      BY <2>7, <3>2 DEF ToSet
    <3> HIDE DEF Rule
    <3>4. Rules(b) = Rules(a)
      BY <2>7, <3>2
    <3> HIDE DEF Rules
    <3> QED
      BY <3>1, <3>3, <3>4
  <2> QED
    BY <2>5, <2>8 DEF Enforced
<1> QED
  BY <1>2, <1>3

-----------------------------------------------------------------------------
(***************************************************************************)
(* The invariant of the commands.                                          *)
(***************************************************************************)
Migrations == \A step \in ToSet(registry) : step.function \in [Documents -> Documents \cup {None}]

FilesInv == /\ file \in Documents /\ edits \in Nat
            /\ envelope = None \/ envelope.doctrine \in Documents
            /\ registry \in Seq(ToSet(registry)) /\ Migrations

\* Whatever an export said, what is in the store is valid.
StoreInv == /\ candidates \subseteq Accepted
            /\ active \in candidates \cup {None}

\* An import may hold any document, of any schema; a diff has read a valid one,
\* which the file need not hold any more.
Holds(t) == /\ t.doing \in {"idle", "import", "diff"}
            /\ t.doing = "import" => Object(t, {"doing", "value", "visited", "digest"}) /\ t.value \in Documents
            /\ t.doing = "diff" => t.before \in Accepted

TaskInv == DOMAIN task = People /\ \A p \in People : Holds(task[p])

\* A review is the diff of two valid documents, though the file, the store and the
\* pointer have moved on.
Reviewed(r) == r # None =>
                 /\ r.before \in Accepted /\ r.after \in Accepted
                 /\ r.changes = Diff(Content[r.before], Content[r.after])

ReviewInv == DOMAIN review = People /\ \A p \in People : Reviewed(review[p])

IInv == FilesInv /\ StoreInv /\ TaskInv /\ ReviewInv

-----------------------------------------------------------------------------
(***************************************************************************)
(* The steps of an import and of a diff.                                   *)
(***************************************************************************)

(***************************************************************************)
(* A set of numbers with an element has a smallest.                        *)
(***************************************************************************)
LEMMA SmallestExists ==
    ASSUME NEW T, T \subseteq Nat, T # {}
    PROVE  \E x \in T : \A y \in T : x <= y
<1>1. PICK R : R = OpToRel(<, Nat)
  OBVIOUS
<1>2. IsWellFoundedOn(R, Nat)
  BY <1>1, NatLessThanWellFounded
<1>3. PICK x \in T : \A y \in T : ~ (<<y, x>> \in R)
  BY <1>2, WFMin
<1>4. ASSUME NEW y \in T
      PROVE  x <= y
  <2>1. x \in Nat /\ y \in Nat
    OBVIOUS
  <2>2. y < x => <<y, x>> \in R
    BY <1>1, <2>1 DEF OpToRel
  <2> QED
    BY <1>3, <2>1, <2>2
<1> QED
  BY <1>3, <1>4

(***************************************************************************)
(* The first step from a schema is a registered one                        *)
(* (doctrine_contract.py:466-468).                                         *)
(***************************************************************************)
LEMMA FirstIsRegistered ==
    ASSUME FilesInv, NEW schema, StepsFrom(schema) # {}
    PROVE  FirstFrom(schema) \in ToSet(registry)
<1>1. registry \in Seq(ToSet(registry))
  BY DEF FilesInv
<1>2. StepsFrom(schema) \subseteq DOMAIN registry /\ DOMAIN registry \subseteq Nat
  BY <1>1 DEF StepsFrom
<1>3. \E i \in StepsFrom(schema) : \A j \in StepsFrom(schema) : i <= j
  BY <1>2, SmallestExists
<1>4. Min(StepsFrom(schema)) \in StepsFrom(schema)
  BY <1>3 DEF Min
<1> QED
  BY <1>2, <1>4 DEF FirstFrom, ToSet

(***************************************************************************)
(* A migration that reached its target made a document.                    *)
(***************************************************************************)
LEMMA MigratedIsADocument ==
    ASSUME FilesInv, NEW p, task[p].value \in Documents, MayMigrate(p), ReachedTarget(p)
    PROVE  Migrated(p) \in Documents
<1>1. PICK step \in ToSet(registry) : step = FirstFrom(SchemaOf(p))
  BY FirstIsRegistered DEF MayMigrate
<1>2. step.function \in [Documents -> Documents \cup {None}]
  BY DEF FilesInv, Migrations
<1>3. Migrated(p) = step.function[task[p].value] /\ Migrated(p) # None
  BY <1>1 DEF Migrated, ReachedTarget
<1> QED
  BY <1>2, <1>3

(***************************************************************************)
(* Whoever goes on to a task that holds keeps all tasks holding.           *)
(***************************************************************************)
LEMMA TasksGoOn ==
    ASSUME TaskInv, NEW p \in People, NEW t, Holds(t), Does(p, t)
    PROVE  TaskInv'
<1>1. DOMAIN task' = People /\ \A q \in People : task'[q] = IF q = p THEN t ELSE task[q]
  BY DEF Does, TaskInv
<1> QED
  BY <1>1 DEF TaskInv

(***************************************************************************)
(* Nobody is in the middle of anything when idle.                          *)
(***************************************************************************)
LEMMA IdleHolds == Holds(Idle)
BY DEF Holds, Idle

-----------------------------------------------------------------------------
(***************************************************************************)
(* Each action keeps the invariant.                                        *)
(***************************************************************************)

(***************************************************************************)
(* Every situation people start from.                                      *)
(***************************************************************************)
LEMMA InitHolds == Init => IInv
<1> SUFFICES ASSUME Init
             PROVE  IInv
  OBVIOUS
<1>1. PICK s \in Situations : /\ registry = s.registry /\ file = s.file /\ envelope = s.envelope
                              /\ candidates = s.candidates /\ active = s.active /\ edits = s.edits
  BY DEF Init
<1>2. FilesInv
  BY <1>1, SourcesAssumption, BoundsAssumption DEF FilesInv, Migrations
<1>3. StoreInv
  BY <1>1, SourcesAssumption, CandidatesAssumption DEF StoreInv
<1>4. TaskInv
  BY IdleHolds DEF Init, TaskInv
<1>5. ReviewInv
  BY DEF Init, ReviewInv, Reviewed
<1> QED
  BY <1>2, <1>3, <1>4, <1>5 DEF IInv

(***************************************************************************)
(* The files, the store and the pointer are left alone by most actions.    *)
(***************************************************************************)
LEMMA FilesStay == FilesInv /\ UNCHANGED <<registry, file, envelope, edits>> => FilesInv'
BY DEF FilesInv, Migrations

(***************************************************************************)
(* Likewise for the store.                                                 *)
(***************************************************************************)
LEMMA StoreStays == StoreInv /\ UNCHANGED <<candidates, active>> => StoreInv'
BY DEF StoreInv

(***************************************************************************)
(* Likewise for the tasks and the reviews.                                 *)
(***************************************************************************)
LEMMA PeopleStay == /\ TaskInv /\ UNCHANGED task => TaskInv'
                    /\ ReviewInv /\ UNCHANGED review => ReviewInv'
BY DEF TaskInv, ReviewInv

(***************************************************************************)
(* doctrine export, and somebody else's hand.                              *)
(***************************************************************************)
LEMMA FilesKeep ==
    ASSUME IInv, SomebodyEdits \/ \E p \in People : Export(p)
    PROVE  IInv'
<1>1. FilesInv'
  <2>1. CASE SomebodyEdits
    <3>1. /\ file' \in Documents /\ edits' \in Nat /\ registry' = registry
          /\ envelope' = None \/ envelope'.doctrine \in Documents
      BY <2>1, SourcesAssumption DEF SomebodyEdits, IInv, FilesInv
    <3> QED
      BY <3>1 DEF IInv, FilesInv, Migrations
  <2>2. CASE \E p \in People : Export(p)
    <3>1. envelope'.doctrine \in Documents /\ UNCHANGED <<registry, file, edits>>
      BY <2>2 DEF Export, EncodeExport, IInv, FilesInv
    <3> QED
      BY <3>1 DEF IInv, FilesInv, Migrations
  <2> QED
    BY <2>1, <2>2
<1>2. UNCHANGED <<candidates, active, task, review>>
  BY DEF SomebodyEdits, Export
<1> QED
  BY <1>1, <1>2, StoreStays, PeopleStay DEF IInv

(***************************************************************************)
(* doctrine import.                                                        *)
(***************************************************************************)
LEMMA ImportKeeps ==
    ASSUME IInv, NEW p \in People, BeginImport(p) \/ Import(p)
    PROVE  IInv'
<1>1. FilesInv' /\ ReviewInv'
  <2>1. UNCHANGED <<registry, file, envelope, edits, review>>
    BY DEF BeginImport, Import, MigrateStep, MigrationFails, StoreCandidate
  <2> QED
    BY <2>1, FilesStay, PeopleStay DEF IInv
<1>2. CASE BeginImport(p)
  <2>1. PICK t : t = [doing |-> "import", value |-> envelope.doctrine, visited |-> {},
                      digest |-> envelope.digest]
    OBVIOUS
  <2>2. Holds(t)
    BY <1>2, <2>1 DEF BeginImport, Holds, Object, IInv, FilesInv
  <2>3. Does(p, t) /\ UNCHANGED <<candidates, active>>
    BY <1>2, <2>1 DEF BeginImport
  <2> QED
    BY <1>1, <2>2, <2>3, TasksGoOn, StoreStays DEF IInv
<1>3. CASE MigrateStep(p)
  <2>1. PICK t : t = [task[p] EXCEPT !.visited = @ \cup {SchemaOf(p)}, !.value = Migrated(p)]
    OBVIOUS
  <2>2. Object(task[p], {"doing", "value", "visited", "digest"}) /\ task[p].value \in Documents
    BY <1>3 DEF MigrateStep, IInv, TaskInv, Holds
  <2>3. Migrated(p) \in Documents
    BY <1>3, <2>2, MigratedIsADocument DEF MigrateStep, IInv
  <2>4. Holds(t)
    BY <1>3, <2>1, <2>2, <2>3 DEF MigrateStep, Holds, Object
  <2>5. Does(p, t) /\ UNCHANGED <<candidates, active>>
    BY <1>3, <2>1 DEF MigrateStep
  <2> QED
    BY <1>1, <2>4, <2>5, TasksGoOn, StoreStays DEF IInv
<1>4. CASE MigrationFails(p)
  <2>1. Does(p, Idle) /\ UNCHANGED <<candidates, active>>
    BY <1>4 DEF MigrationFails
  <2> QED
    BY <1>1, <2>1, IdleHolds, TasksGoOn, StoreStays DEF IInv
<1>5. CASE StoreCandidate(p)
  <2>1. task[p].value \in Documents
    BY <1>5 DEF StoreCandidate, IInv, TaskInv, Holds
  <2>2. StoreInv'
    BY <1>5, <2>1 DEF StoreCandidate, Verified, IInv, StoreInv
  <2>3. Does(p, Idle)
    BY <1>5 DEF StoreCandidate
  <2> QED
    BY <1>1, <2>2, <2>3, IdleHolds, TasksGoOn DEF IInv
<1> QED
  BY <1>2, <1>3, <1>4, <1>5 DEF Import

(***************************************************************************)
(* doctrine diff: what was read of the first operand is compared with the  *)
(* second, whatever has become of the first.                               *)
(***************************************************************************)
LEMMA DiffKeeps ==
    ASSUME IInv, NEW p \in People, ReadBefore(p) \/ ShowDiff(p)
    PROVE  IInv'
<1>1. FilesInv' /\ StoreInv'
  <2>1. UNCHANGED <<registry, file, envelope, edits, candidates, active>>
    BY DEF ReadBefore, ShowDiff
  <2> QED
    BY <2>1, FilesStay, StoreStays DEF IInv
<1>2. CASE ReadBefore(p)
  <2>1. PICK b \in Operands : Does(p, [doing |-> "diff", before |-> b])
    BY <1>2 DEF ReadBefore
  <2>2. b \in Accepted
    BY DEF Operands
  <2>3. Holds([doing |-> "diff", before |-> b])
    BY <2>2 DEF Holds
  <2>4. review' = review
    BY <1>2 DEF ReadBefore
  <2> QED
    BY <1>1, <2>1, <2>3, <2>4, TasksGoOn, PeopleStay DEF IInv
<1>3. CASE ShowDiff(p)
  <2>1. PICK a \in Operands :
          \E r : /\ r = [before |-> task[p].before, after |-> a,
                         changes |-> Diff(Content[task[p].before], Content[a])]
                 /\ review' = [review EXCEPT ![p] = r]
    BY <1>3 DEF ShowDiff
  <2>2. a \in Accepted
    BY DEF Operands
  <2>3. task[p].before \in Accepted
    BY <1>3 DEF ShowDiff, IInv, TaskInv, Holds
  <2>4. PICK r : review' = [review EXCEPT ![p] = r] /\ Reviewed(r)
    <3>1. PICK r : /\ r = [before |-> task[p].before, after |-> a,
                           changes |-> Diff(Content[task[p].before], Content[a])]
                   /\ review' = [review EXCEPT ![p] = r]
      BY <2>1
    <3>2. Reviewed(r)
      BY <2>2, <2>3, <3>1 DEF Reviewed
    <3> QED
      BY <3>1, <3>2
  <2>5. DOMAIN review' = People /\ \A q \in People : review'[q] = IF q = p THEN r ELSE review[q]
    BY <2>4 DEF IInv, ReviewInv
  <2>6. ReviewInv'
    BY <2>4, <2>5 DEF IInv, ReviewInv
  <2>7. Does(p, Idle)
    BY <1>3 DEF ShowDiff
  <2> QED
    BY <1>1, <2>6, <2>7, IdleHolds, TasksGoOn DEF IInv
<1> QED
  BY <1>2, <1>3

(***************************************************************************)
(* doctrine adopt: only a candidate is adopted.                            *)
(***************************************************************************)
LEMMA AdoptKeeps ==
    ASSUME IInv, NEW p \in People, AdoptReviewed(p) \/ AdoptFirst(p)
    PROVE  IInv'
<1>1. active' \in candidates /\ UNCHANGED <<registry, file, envelope, candidates, task, review, edits>>
  BY DEF AdoptReviewed, AdoptFirst, Adopt, Adoptable
<1>2. StoreInv'
  BY <1>1 DEF IInv, StoreInv
<1> QED
  BY <1>1, <1>2, FilesStay, PeopleStay DEF IInv

(***************************************************************************)
(* The invariant of the commands holds in every reachable state: what is   *)
(* in the store is valid, and a review is the diff of what it names.       *)
(***************************************************************************)
THEOREM Invariance == Spec => []IInv
<1>1. Init => IInv
  BY InitHolds
<1>2. IInv /\ [Next]_vars => IInv'
  <2> SUFFICES ASSUME IInv, [Next]_vars
               PROVE  IInv'
    OBVIOUS
  <2>1. CASE SomebodyEdits
    BY <2>1, FilesKeep
  <2>2. ASSUME NEW p \in People, Export(p)
        PROVE  IInv'
    BY <2>2, FilesKeep
  <2>3. ASSUME NEW p \in People, BeginImport(p) \/ Import(p)
        PROVE  IInv'
    BY <2>3, ImportKeeps
  <2>4. ASSUME NEW p \in People, ReadBefore(p) \/ ShowDiff(p)
        PROVE  IInv'
    BY <2>4, DiffKeeps
  <2>5. ASSUME NEW p \in People, AdoptReviewed(p) \/ AdoptFirst(p)
        PROVE  IInv'
    BY <2>5, AdoptKeeps
  <2>6. CASE UNCHANGED vars
    <3>1. UNCHANGED <<registry, file, envelope, candidates, active, task, review, edits>>
      BY <2>6 DEF vars
    <3> QED
      BY <3>1, FilesStay, StoreStays, PeopleStay DEF IInv
  <2> QED
    BY <2>1, <2>2, <2>3, <2>4, <2>5, <2>6 DEF Next
<1> QED
  BY <1>1, <1>2, PTL DEF Spec

(***************************************************************************)
(* Everything in the store can be compared and compiled, whatever release, *)
(* migration or hand an export came from (doctrine_contract.py:353-360,    *)
(* 447-448, doctrine_export.py:15-24).                                     *)
(***************************************************************************)
THEOREM TypeCorrect == Spec => []TypeOK
<1>1. IInv => TypeOK
  <2> SUFFICES ASSUME IInv
               PROVE  TypeOK
    OBVIOUS
  <2>1. ASSUME NEW n \in candidates
        PROVE  LET d == Content[n] IN
                 /\ d.schema = SchemaId /\ d.promotional_credit.per_call_limit_cents > 0
                 /\ \A i, j \in DOMAIN d.capabilities :
                      d.capabilities[i].action = d.capabilities[j].action => i = j
    <3>1. PICK d : d = Content[n] /\ Valid(d)
      BY DEF IInv, StoreInv, Accepted
    <3>2. DOMAIN ActionsOf(d) = DOMAIN d.capabilities /\ IsInjective(ActionsOf(d))
      BY <3>1 DEF ActionsOf, Valid
    <3>3. \A i, j \in DOMAIN d.capabilities : d.capabilities[i].action = d.capabilities[j].action => i = j
      BY <3>2 DEF ActionsOf, IsInjective
    <3> QED
      BY <3>1, <3>3 DEF Valid
  <2>2. \A p \in People : task[p].doing \in {"idle", "import", "diff"}
    BY DEF IInv, TaskInv, Holds
  <2> QED
    BY <2>1, <2>2 DEF IInv, FilesInv, StoreInv, Accepted, TypeOK
<1> QED
  BY <1>1, Invariance, PTL

(***************************************************************************)
(* A review of two different documents is never empty nor unnamed, names   *)
(* every field that moved and calls only wording presentation, and names   *)
(* nothing else but for an order - for any documents, and although the     *)
(* file is rewritten and others adopt between its two reads                *)
(* (doctrine_diff.py:11-17, 567-588).                                      *)
(***************************************************************************)
THEOREM DiffHidesNothingAlways == Spec => []DiffHidesNothing
<1>1. IInv => DiffHidesNothing
  <2> SUFFICES ASSUME IInv, NEW p \in People, review[p] # None
               PROVE  LET b == Content[review[p].before]
                          a == Content[review[p].after]
                          shown == review[p].changes
                      IN  /\ b # a => shown # {} /\ Unnamed \notin shown
                          /\ \A leaf \in Moved(b, a) : \E c \in shown :
                               /\ Covers(c.path, leaf)
                               /\ c.class = "PRESENTATION" =>
                                    Last(leaf) \in {"note", "role", "purpose", "display_name"}
                          /\ \A c \in shown : c.change = <<"order">> \/ \E leaf \in Moved(b, a) : Covers(c.path, leaf)
    BY Zenon DEF DiffHidesNothing
  <2>1. PICK b, a, shown : b = Content[review[p].before] /\ a = Content[review[p].after]
                           /\ shown = review[p].changes
    OBVIOUS
  <2>2. Valid(b) /\ Valid(a) /\ Shaped(b) /\ Shaped(a) /\ shown = Diff(b, a)
    BY <2>1 DEF IInv, ReviewInv, Reviewed, Accepted, Valid
  <2>3. /\ b # a => shown # {} /\ Unnamed \notin shown
        /\ \A leaf \in Moved(b, a) : \E c \in shown : Shows(c, leaf)
        /\ \A c \in shown : Grounded(c, b, a)
    BY <2>2, DiffIsExact
  <2>4. ASSUME NEW c, NEW leaf, Shows(c, leaf)
        PROVE  /\ Covers(c.path, leaf)
               /\ c.class = "PRESENTATION" => Last(leaf) \in {"note", "role", "purpose", "display_name"}
    BY <2>4 DEF Shows, Wording
  <2>5. \A c \in shown : c.change = <<"order">> \/ \E leaf \in Moved(b, a) : Covers(c.path, leaf)
    BY <2>3 DEF Grounded
  <2>6. \A leaf \in Moved(b, a) : \E c \in shown :
           /\ Covers(c.path, leaf)
           /\ c.class = "PRESENTATION" => Last(leaf) \in {"note", "role", "purpose", "display_name"}
    BY <2>3, <2>4
  <2> QED
    BY <2>1, <2>3, <2>5, <2>6, Zenon
<1> QED
  BY <1>1, Invariance, PTL

(***************************************************************************)
(* Whoever replaces a doctrine has seen the replacement in a diff, and the *)
(* diff said CONSEQUENTIAL when the two are enforced differently, whatever *)
(* others adopted, imported or edited in between (README.md:94-115,        *)
(* doctrine_store.py:280-299).                                             *)
(***************************************************************************)
THEOREM AdoptedAsReviewedAlways == Spec => AdoptedAsReviewed
<1> DEFINE Seen == active # None /\ active' # active =>
                     \E p \in People :
                       /\ review[p] # None /\ review[p].before = active /\ review[p].after = active'
                       /\ Enforced(Content[active]) # Enforced(Content[active']) =>
                            \E c \in review[p].changes : c.class = "CONSEQUENTIAL"
<1>1. IInv /\ [Next]_vars => [Seen]_vars
  <2> SUFFICES ASSUME IInv, Next, active # None, active' # active
               PROVE  Seen
    OBVIOUS
  <2>1. PICK p \in People : AdoptReviewed(p)
    <3>1. \A p \in People : ~ AdoptFirst(p)
      BY DEF AdoptFirst, Adopt, Adoptable
    <3>2. ~ SomebodyEdits
      BY DEF SomebodyEdits
    <3>3. \A p \in People : /\ ~ Export(p) /\ ~ BeginImport(p) /\ ~ Import(p)
                            /\ ~ ReadBefore(p) /\ ~ ShowDiff(p)
      BY DEF Export, BeginImport, Import, MigrateStep, MigrationFails, StoreCandidate,
           ReadBefore, ShowDiff
    <3> QED
      BY <3>1, <3>2, <3>3, Zenon DEF Next
  <2>2. review[p] # None /\ review[p].before = active /\ review[p].after = active'
    BY <2>1 DEF AdoptReviewed, Adopt, Adoptable
  <2>3. PICK b, a : b = Content[active] /\ a = Content[active']
    OBVIOUS
  <2>4. Valid(b) /\ Valid(a) /\ Shaped(b) /\ Shaped(a) /\ review[p].changes = Diff(b, a)
    BY <2>2, <2>3 DEF IInv, ReviewInv, Reviewed, Accepted, Valid
  <2>5. Enforced(b) # Enforced(a) => \E c \in review[p].changes : c.class = "CONSEQUENTIAL"
    BY <2>4, ConsequencesAreShown
  <2> QED
    BY <2>2, <2>3, <2>5, Zenon
<1>2. Spec => [][Seen]_vars
  BY <1>1, Invariance, PTL DEF Spec
<1> QED
  BY <1>2, Zenon DEF AdoptedAsReviewed
=============================================================================
