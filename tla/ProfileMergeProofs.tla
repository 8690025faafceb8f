------------------------- MODULE ProfileMergeProofs -------------------------
(***************************************************************************)
(* What is merged into the YAML of a profile and what is served of it, for *)
(* trees of any depth and however many requests a profile has gone         *)
(* through.                                                                *)
(***************************************************************************)
EXTENDS ProfileMerge, PropertyTreeProofs, FiniteSetTheorems

ProfileTyped == yaml \in Trees

(* However often the profile is merged into, it is a tree that YAML can    *)
(* be.                                                                     *)
LEMMA MergedIsTree == Spec => []ProfileTyped
<1>1. Init => ProfileTyped
    BY ProfileAssumption DEF Init, ProfileTyped
<1>2. ProfileTyped /\ [Next]_yaml => ProfileTyped'
    BY MergesTyped, ProfileAssumption DEF ProfileTyped, Next, Add, Merge
<1>. QED  BY <1>1, <1>2, PTL DEF Spec

(* "Only adds to the old YAML" (config_service.go, processProperty), for   *)
(* trees of any depth.                                                     *)
THEOREM OnlyAdds == Spec => []AddOnlyAdds
<1>1. ProfileTyped => AddOnlyAdds
    BY AddExact, ProfileAssumption DEF ProfileTyped, AddOnlyAdds
<1>. QED  BY <1>1, MergedIsTree, PTL

(* "What has a new value is updated, then the rest is added", for trees of *)
(* any depth.                                                              *)
THEOREM TakesValues == Spec => []UpdateTakesValues
<1>1. ProfileTyped => UpdateTakesValues
    BY UpdateExact, ProfileAssumption DEF ProfileTyped, UpdateTakesValues
<1>. QED  BY <1>1, MergedIsTree, PTL

-----------------------------------------------------------------------------
(* The property a path comes to.                                           *)
Words == Seq(STRING)

PropertyBody(f, p) == IF p = <<>> THEN <<>> ELSE Head(p) \o f[Tail(p)]

Length(p) == Len(p)

OnNames == INSTANCE Recursion WITH S <- Seq(Names), Rank <- Length, Body <- PropertyBody

LEMMA PropertyDefined ==
    \A p \in Seq(Names) : Property(p) = IF p = <<>> THEN <<>> ELSE Head(p) \o Property(Tail(p))
<1>1. OnNames!Ranked
    BY LenProperties DEF OnNames!Ranked, Length
<1>2. ASSUME NEW p \in Seq(Names), NEW g, NEW h,
             \A q \in Seq(Names) : Length(q) < Length(p) => g[q] = h[q]
      PROVE  PropertyBody(g, p) = PropertyBody(h, p)
    <2>1. CASE p # <<>>
        <3>1. Tail(p) \in Seq(Names) /\ Len(Tail(p)) < Len(p)
            BY <2>1, HeadTailProperties, LenProperties
        <3>. QED  BY <1>2, <3>1 DEF PropertyBody, Length
    <2>. QED  BY <2>1 DEF PropertyBody
<1>3. OnNames!FromBelow
    BY <1>2 DEF OnNames!FromBelow
<1>4. \E f : f = [p \in Seq(Names) |-> PropertyBody(f, p)]
    BY <1>1, <1>3, OnNames!Defined
<1>5. property = [p \in Seq(Names) |-> PropertyBody(property, p)]
    BY <1>4 DEF property, PropertyBody
<1>. QED  BY <1>5 DEF PropertyBody, Property

LEMMA FirstName ==
    ASSUME NEW k \in Names, NEW p \in Seq(Names)
    PROVE  /\ <<k>> \o p \in Paths /\ Head(<<k>> \o p) = k /\ Tail(<<k>> \o p) = p
           /\ Len(<<k>> \o p) = Len(p) + 1
           /\ <<k>> \in Paths /\ Head(<<k>>) = k /\ Tail(<<k>>) = <<>> /\ Short(<<k>>)
           /\ p \in Paths => ~Short(<<k>> \o p)
<1> DEFINE s == <<k>> \o p
<1>1. <<k>> \in Seq(Names) /\ Len(<<k>>) = 1 /\ Len(p) \in Nat /\ (p \in Paths => Len(p) # 0)
    BY LenProperties, EmptySeq DEF Paths
<1>2. /\ s \in Seq(Names) /\ Len(s) = 1 + Len(p)
      /\ \A i \in 1 .. 1 + Len(p) : s[i] = IF i <= 1 THEN <<k>>[i] ELSE p[i - 1]
    BY <1>1, ConcatProperties
<1>. HIDE DEF s
<1>3. s # <<>> /\ Head(s) = k
    BY <1>1, <1>2
<1>4. /\ Tail(s) \in Seq(Names) /\ Len(Tail(s)) = Len(p)
      /\ \A i \in 1 .. Len(p) : Tail(s)[i] = s[i + 1]
    BY <1>1, <1>2, <1>3, HeadTailProperties
<1>5. \A i \in 1 .. Len(p) : Tail(s)[i] = p[i]
    BY <1>1, <1>2, <1>4
<1>6. Tail(s) = p
    BY <1>4, <1>5, SeqEqual
<1>7. p \in Paths => ~Short(s)
    BY <1>1, <1>2 DEF Short
<1>8. /\ <<k>> \in Paths /\ Head(<<k>>) = k /\ Tail(<<k>>) = <<>> /\ Short(<<k>>)
    BY <1>1 DEF Paths, Short
<1>. QED  BY <1>1, <1>2, <1>3, <1>6, <1>7, <1>8 DEF Paths, s

LEMMA PropertyTyped == \A p \in Seq(Names) : Property(p) \in Words
<1> DEFINE T == {n \in Nat : \A p \in Seq(Names) : Len(p) = n => Property(p) \in Words}
<1>1. 0 \in T
    <2>1. <<>> \in Words
        BY DEF Words
    <2>. QED  BY <2>1, PropertyDefined, EmptySeq
<1>2. ASSUME NEW n \in Nat, n \in T
      PROVE  n + 1 \in T
    <2> SUFFICES ASSUME NEW p \in Seq(Names), Len(p) = n + 1
                 PROVE  Property(p) \in Words
        OBVIOUS
    <2>1. p # <<>>
        BY EmptySeq
    <2>2. Tail(p) \in Seq(Names) /\ Len(Tail(p)) = n /\ Head(p) \in Names
        BY <2>1, HeadTailProperties
    <2>3. Property(Tail(p)) \in Words /\ Head(p) \in Words
        BY <1>2, <2>2, NameAssumption DEF Words
    <2>4. Head(p) \o Property(Tail(p)) \in Words
        BY <2>3, ConcatProperties DEF Words
    <2>. QED  BY <2>1, <2>4, PropertyDefined
<1>. HIDE DEF T
<1>3. Nat \subseteq T
    BY <1>1, <1>2, OnNames!Induction
<1>. QED  BY <1>3, LenProperties DEF T

LEMMA PropertyByFirst ==
    ASSUME NEW k \in Names, NEW p \in Seq(Names)
    PROVE  Property(<<k>> \o p) = k \o Property(p) /\ Property(<<k>>) = k
<1>1. /\ <<k>> \o p \in Seq(Names) /\ <<k>> \o p # <<>>
      /\ <<k>> \in Seq(Names) /\ <<k>> # <<>>
    BY FirstName DEF Paths
<1>2. Property(<<k>>) = k \o Property(<<>>) /\ Property(<<>>) = <<>>
    BY <1>1, PropertyDefined, FirstName, EmptySeq
<1>3. k \in Words /\ k \o <<>> = k
    BY NameAssumption, ConcatEmptySeq DEF Words
<1>. QED  BY <1>1, <1>2, <1>3, PropertyDefined, FirstName

-----------------------------------------------------------------------------
(* Maps under a name.                                                      *)
LEMMA AfterName ==
    ASSUME NEW k \in Words, NEW q \in Words
    PROVE  SubSeq(k \o q, Len(k) + 1, Len(k \o q)) = q
<1>1. Len(k) \in Nat /\ Len(q) \in Nat /\ Len(k \o q) = Len(k) + Len(q)
    BY ConcatProperties, LenProperties DEF Words
<1>2. CASE Len(q) = 0
    <2>1. q = <<>>
        BY <1>2, EmptySeq DEF Words
    <2>. QED  BY <1>1, <1>2, <2>1, SubSeqEmpty
<1>3. CASE Len(q) # 0
    <2>1. /\ Len(k) + 1 \in Len(k) + 1 .. Len(k) + Len(q)
          /\ Len(k \o q) \in Len(k) + 1 .. Len(k) + Len(q)
          /\ (Len(k) + 1) - Len(k) = 1 /\ Len(k \o q) - Len(k) = Len(q)
        BY <1>1, <1>3
    <2>2. SubSeq(k \o q, Len(k) + 1, Len(k \o q)) = SubSeq(q, 1, Len(q))
        BY <2>1, SubSeqOfConcat2 DEF Words
    <2>. QED  BY <2>2, SubSeqFull DEF Words
<1>. QED  BY <1>2, <1>3

LEMMA PrefixedParts ==
    ASSUME NEW k \in Words, NEW flat, DOMAIN flat \subseteq Words
    PROVE  /\ DOMAIN Prefixed(k, flat) = {k \o q : q \in DOMAIN flat}
           /\ \A q \in DOMAIN flat : Prefixed(k, flat)[k \o q] = flat[q]
           /\ Prefixed(k, flat) = [p \in DOMAIN Prefixed(k, flat) |-> Prefixed(k, flat)[p]]
<1>1. \A q \in DOMAIN flat : SubSeq(k \o q, Len(k) + 1, Len(k \o q)) = q
    BY AfterName
<1>. QED  BY <1>1 DEF Prefixed

-----------------------------------------------------------------------------
(* The outcomes of flattening are what the definition says.                *)
VisitsBody(f, x) ==
    IF x[2] = {} THEN {<<>>}
    ELSE UNION {Both(Under(k, x[1][k], f[<<x[1][k], Keyed(x[1][k])>>]),
                     f[<<x[1], x[2] \ {k}>>]) : k \in x[2]}

(* A tree ranks below another if it is less deep, and with fewer names to  *)
(* come.                                                                   *)
ToVisit(x) == Depth(x[1]) * (Cardinality(Names) + 1) + Cardinality(x[2])

OnVisits == INSTANCE Recursion WITH S <- Unvisited, Rank <- ToVisit, Body <- VisitsBody

LEMMA Fewer ==
    ASSUME NEW t \in Trees, NEW names \in SUBSET Names
    PROVE  /\ ToVisit(<<t, names>>) \in Nat
           /\ \A k \in names : ToVisit(<<t, names \ {k}>>) < ToVisit(<<t, names>>)
           /\ \A k \in names, others \in SUBSET Names :
                IsMap(t[k]) => ToVisit(<<t[k], others>>) < ToVisit(<<t, names>>)
<1> DEFINE c == Cardinality(Names)
           d == Depth(t)
<1>1. \A s \in SUBSET Names : Cardinality(s) \in Nat /\ Cardinality(s) <= c
    BY NameAssumption, FS_Subset, FS_CardinalityType
<1>2. \A k \in names : Cardinality(names \ {k}) = Cardinality(names) - 1
    BY NameAssumption, FS_Subset, FS_RemoveElement
<1>3. c \in Nat /\ d \in Nat
    BY NameAssumption, FS_CardinalityType, TreesHaveDepth
<1>. HIDE DEF c, d
<1>4. d * (c + 1) \in Nat
    BY <1>3
<1>5. ToVisit(<<t, names>>) = d * (c + 1) + Cardinality(names)
    BY DEF ToVisit, c, d
<1>6. ASSUME NEW k \in names
      PROVE  ToVisit(<<t, names \ {k}>>) < ToVisit(<<t, names>>)
    <2>1. ToVisit(<<t, names \ {k}>>) = d * (c + 1) + Cardinality(names \ {k})
        BY DEF ToVisit, c, d
    <2>. QED  BY <1>1, <1>2, <1>4, <1>5, <2>1
<1>7. ASSUME NEW k \in names, NEW others \in SUBSET Names, IsMap(t[k])
      PROVE  ToVisit(<<t[k], others>>) < ToVisit(<<t, names>>)
    <2> DEFINE e == Depth(t[k])
    <2>1. e \in Nat /\ e < d
        BY <1>7, ChildrenAreTrees DEF d
    <2>2. ToVisit(<<t[k], others>>) = e * (c + 1) + Cardinality(others)
        BY DEF ToVisit, c
    <2>. HIDE DEF e
    <2>3. (e + 1) * (c + 1) <= d * (c + 1)
        BY <1>3, <2>1
    <2>4. (e + 1) * (c + 1) = e * (c + 1) + (c + 1) /\ e * (c + 1) \in Nat
        BY <1>3, <2>1
    <2>. QED  BY <1>1, <1>3, <1>4, <1>5, <2>2, <2>3, <2>4
<1>. QED  BY <1>1, <1>4, <1>5, <1>6, <1>7

LEMMA VisitsDefined == \A x \in Unvisited : visits[x] = VisitsBody(visits, x)
<1>1. OnVisits!Ranked
    BY Fewer DEF OnVisits!Ranked, Unvisited
<1>2. ASSUME NEW x \in Unvisited, NEW g, NEW h,
             \A y \in Unvisited : ToVisit(y) < ToVisit(x) => g[y] = h[y]
      PROVE  VisitsBody(g, x) = VisitsBody(h, x)
    <2>1. x = <<x[1], x[2]>> /\ x[1] \in Trees /\ x[2] \in SUBSET Names
        BY DEF Unvisited
    <2>2. ASSUME NEW k \in x[2]
          PROVE  g[<<x[1], x[2] \ {k}>>] = h[<<x[1], x[2] \ {k}>>]
        <3>1. <<x[1], x[2] \ {k}>> \in Unvisited
            BY <2>1 DEF Unvisited
        <3>2. ToVisit(<<x[1], x[2] \ {k}>>) < ToVisit(x)
            BY <2>1, Fewer
        <3>. QED  BY <1>2, <3>1, <3>2
    <2>3. ASSUME NEW k \in x[2], IsMap(x[1][k])
          PROVE  g[<<x[1][k], Keyed(x[1][k])>>] = h[<<x[1][k], Keyed(x[1][k])>>]
        <3>1. Keyed(x[1][k]) \in SUBSET Names
            BY DEF Keyed
        <3>2. <<x[1][k], Keyed(x[1][k])>> \in Unvisited
            BY <2>1, <2>3, <3>1, ChildrenAreTrees DEF Unvisited
        <3>3. ToVisit(<<x[1][k], Keyed(x[1][k])>>) < ToVisit(x)
            BY <2>1, <2>3, <3>1, Fewer
        <3>. QED  BY <1>2, <3>2, <3>3
    <2>4. ASSUME NEW k \in x[2]
          PROVE  Under(k, x[1][k], g[<<x[1][k], Keyed(x[1][k])>>])
                    = Under(k, x[1][k], h[<<x[1][k], Keyed(x[1][k])>>])
        BY <2>3, Zenon DEF Under
    <2> DEFINE At(f, k) == Both(Under(k, x[1][k], f[<<x[1][k], Keyed(x[1][k])>>]),
                                f[<<x[1], x[2] \ {k}>>])
    <2>5. \A k \in x[2] : At(g, k) = At(h, k)
        BY <2>2, <2>4
    <2>6. \A f : VisitsBody(f, x) = IF x[2] = {} THEN {<<>>} ELSE UNION {At(f, k) : k \in x[2]}
        BY DEF VisitsBody
    <2>. HIDE DEF At
    <2>7. {At(g, k) : k \in x[2]} = {At(h, k) : k \in x[2]}
        BY <2>5
    <2>. QED  BY <2>6, <2>7
<1>3. OnVisits!FromBelow
    BY <1>2 DEF OnVisits!FromBelow
<1>4. \E f : f = [x \in Unvisited |-> VisitsBody(f, x)]
    BY <1>1, <1>3, OnVisits!Defined
<1>5. visits = [x \in Unvisited |-> VisitsBody(visits, x)]
    BY <1>4 DEF visits, VisitsBody
<1>. QED  BY <1>5

-----------------------------------------------------------------------------
(* The paths of a tree, and those to values, by their first name.          *)
ByFirst(t, p) ==
    \/ \E k \in Names : Has(t, k) /\ p = <<k>>
    \/ \E k \in Names : IsMap(t[k]) /\ \E q \in PathsOf(t[k]) : p = <<k>> \o q

LEMMA PathsByFirst ==
    ASSUME NEW t \in Trees, NEW p
    PROVE  p \in PathsOf(t) <=> ByFirst(t, p)
<1>1. PathsOf(t) = PathsBody(pathsOf, t)
    BY PathsDefined DEF PathsOf
<1>2. p \in PathsBody(pathsOf, t) <=>
        \/ \E k \in Names : Has(t, k) /\ p = <<k>>
        \/ \E k \in Names : IsMap(t[k]) /\ \E q \in pathsOf[t[k]] : p = <<k>> \o q
    <2> DEFINE Below(k) == {<<k>> \o q : q \in pathsOf[t[k]]}
               Ends == {<<k>> : k \in {n \in Names : Has(t, n)}}
               All == UNION {Below(k) : k \in {n \in Names : IsMap(t[n])}}
    <2>1. PathsBody(pathsOf, t) = Ends \cup All
        BY DEF PathsBody
    <2>2. p \in Ends <=> \E k \in Names : Has(t, k) /\ p = <<k>>
        OBVIOUS
    <2>3. \A k : p \in Below(k) <=> \E q \in pathsOf[t[k]] : p = <<k>> \o q
        OBVIOUS
    <2>. HIDE DEF Below
    <2>4. p \in All <=> \E k \in Names : IsMap(t[k]) /\ p \in Below(k)
        OBVIOUS
    <2>. HIDE DEF Ends, All
    <2>. QED  BY <2>1, <2>2, <2>3, <2>4
<1>. QED  BY <1>1, <1>2 DEF PathsOf, ByFirst

LEMMA ValuedByFirst ==
    ASSUME NEW t \in Trees, NEW k \in Names
    PROVE  /\ <<k>> \in Valued(t) <=> t[k] \in Leaves \ {Nil}
           /\ <<k>> \in Valued(t) => NodeAt(t, <<k>>) = t[k]
           /\ IsMap(t[k]) => \A q \in Valued(t[k]) :
                <<k>> \o q \in Valued(t) /\ NodeAt(t, <<k>> \o q) = NodeAt(t[k], q)
<1>1. <<k>> \in Paths /\ NodeAt(t, <<k>>) = t[k]
    <2>1. <<>> \in Seq(Names)
        OBVIOUS
    <2>2. <<k>> \in Paths /\ Short(<<k>>) /\ Head(<<k>>) = k
        BY <2>1, FirstName
    <2>. QED  BY <2>2, NodeByFirst
<1>2. t[k] \in Leaves \ {Nil} => <<k>> \in PathsOf(t)
    BY PathsByFirst, TreeAssumption DEF Has, ByFirst
<1>3. ASSUME IsMap(t[k]), NEW q \in Valued(t[k])
      PROVE  <<k>> \o q \in Valued(t) /\ NodeAt(t, <<k>> \o q) = NodeAt(t[k], q)
    <2>1. t[k] \in Trees /\ q \in PathsOf(t[k]) /\ NodeAt(t[k], q) \in Leaves \ {Nil}
        BY <1>3, ChildrenAreTrees DEF Valued
    <2>2. q \in Paths /\ q \in Seq(Names)
        BY <2>1, PathsTyped DEF Paths
    <2>3. /\ <<k>> \o q \in Paths /\ Head(<<k>> \o q) = k /\ Tail(<<k>> \o q) = q
          /\ ~Short(<<k>> \o q)
        BY <2>2, FirstName
    <2>4. NodeAt(t, <<k>> \o q) = NodeAt(t[k], q)
        BY <1>3, <2>3, NodeByFirst
    <2>5. <<k>> \o q \in PathsOf(t)
        BY <1>3, <2>1, PathsByFirst DEF ByFirst
    <2>. QED  BY <2>1, <2>4, <2>5 DEF Valued
<1>. QED  BY <1>1, <1>2, <1>3 DEF Valued

LEMMA ValuedTyped ==
    ASSUME NEW t \in Trees, NEW p \in Valued(t)
    PROVE  /\ p \in Paths /\ p \in Seq(Names) /\ Head(p) \in Names
           /\ \/ p = <<Head(p)>> /\ t[Head(p)] \in Leaves \ {Nil}
              \/ IsMap(t[Head(p)]) /\ \E q \in Valued(t[Head(p)]) : p = <<Head(p)>> \o q
<1>1. p \in PathsOf(t) /\ NodeAt(t, p) \in Leaves \ {Nil}
    BY DEF Valued
<1>2. p \in Paths /\ p \in Seq(Names) /\ Head(p) \in Names
    BY <1>1, PathsTyped, PathParts DEF Paths
<1>3. CASE \E k \in Names : p = <<k>>
    <2>1. PICK k \in Names : p = <<k>>
        BY <1>3
    <2>2. <<>> \in Seq(Names)
        OBVIOUS
    <2>3. Head(p) = k
        BY <2>1, <2>2, FirstName
    <2>4. t[k] \in Leaves \ {Nil}
        BY <2>1, ValuedByFirst
    <2>. QED  BY <1>2, <2>1, <2>3, <2>4
<1>4. CASE \E k \in Names : IsMap(t[k]) /\ \E q \in PathsOf(t[k]) : p = <<k>> \o q
    <2>1. PICK k \in Names : IsMap(t[k]) /\ \E q \in PathsOf(t[k]) : p = <<k>> \o q
        BY <1>4
    <2>2. PICK q \in PathsOf(t[k]) : p = <<k>> \o q
        BY <2>1
    <2>3. q \in Paths /\ q \in Seq(Names)
        BY <2>1, ChildrenAreTrees, PathsTyped DEF Paths
    <2>4. Head(p) = k /\ Tail(p) = q /\ ~Short(p)
        BY <2>2, <2>3, FirstName
    <2>5. NodeAt(t[k], q) = NodeAt(t, p)
        BY <1>2, <2>1, <2>4, NodeByFirst
    <2>6. q \in Valued(t[k])
        BY <1>1, <2>5 DEF Valued
    <2>. QED  BY <1>2, <2>1, <2>2, <2>4, <2>6
<1>5. \/ \E k \in Names : Has(t, k) /\ p = <<k>>
      \/ \E k \in Names : IsMap(t[k]) /\ \E q \in PathsOf(t[k]) : p = <<k>> \o q
    <2>1. ByFirst(t, p)
        BY <1>1, PathsByFirst
    <2>. QED  BY <2>1, Zenon DEF ByFirst
<1>. QED  BY <1>3, <1>4, <1>5

-----------------------------------------------------------------------------
(* A map that has the properties under some names of a tree.               *)
ValuedUnder(t, names) == {p \in Valued(t) : Head(p) \in names}

FlatOf(t, names, flat) ==
    /\ flat = [k \in DOMAIN flat |-> flat[k]]
    /\ DOMAIN flat = {Property(p) : p \in ValuedUnder(t, names)}
    /\ \A k \in DOMAIN flat : \E p \in ValuedUnder(t, names) :
            Property(p) = k /\ NodeAt(t, p) = flat[k]

LEMMA BothFlat ==
    ASSUME NEW t, NEW ns, NEW ms, NEW f, FlatOf(t, ns, f), NEW g, FlatOf(t, ms, g)
    PROVE  FlatOf(t, ns \cup ms, Overlay(f, g))
<1>1. ValuedUnder(t, ns \cup ms) = ValuedUnder(t, ns) \cup ValuedUnder(t, ms)
    BY DEF ValuedUnder
<1>2. DOMAIN Overlay(f, g) = {Property(p) : p \in ValuedUnder(t, ns \cup ms)}
    BY <1>1 DEF FlatOf, Overlay
<1>3. ASSUME NEW k \in DOMAIN Overlay(f, g)
      PROVE  \E p \in ValuedUnder(t, ns \cup ms) :
                Property(p) = k /\ NodeAt(t, p) = Overlay(f, g)[k]
    <2>1. CASE k \in DOMAIN f
        BY <1>1, <2>1 DEF FlatOf, Overlay
    <2>2. CASE k \notin DOMAIN f /\ k \in DOMAIN g
        BY <1>1, <2>2 DEF FlatOf, Overlay
    <2>. QED  BY <2>1, <2>2 DEF Overlay
<1>4. Overlay(f, g) = [k \in DOMAIN Overlay(f, g) |-> Overlay(f, g)[k]]
    BY DEF Overlay
<1>. QED  BY <1>2, <1>3, <1>4 DEF FlatOf

(* What is under one name.                                                 *)
LEMMA UnderFlat ==
    ASSUME NEW t \in Trees, NEW k \in Keyed(t), NEW outcomes,
           IsMap(t[k]) => outcomes # {}
                /\ \A flat \in outcomes : FlatOf(t[k], Keyed(t[k]), flat)
    PROVE  /\ Under(k, t[k], outcomes) # {}
           /\ \A flat \in Under(k, t[k], outcomes) : FlatOf(t, {k}, flat)
<1>1. k \in Names /\ k \in Words /\ t[k] # NoKey
    BY NameAssumption DEF Keyed, Has, Words
<1>2. \A p \in ValuedUnder(t, {k}) : p \in Valued(t) /\ Head(p) = k
    BY DEF ValuedUnder
<1>3. <<>> \in Seq(Names) /\ Head(<<k>>) = k
    OBVIOUS
<1>4. CASE t[k] = Nil
    <2>1. ValuedUnder(t, {k}) = {}
        BY <1>2, <1>4, ValuedTyped, TreeAssumption DEF IsMap
    <2>2. Under(k, t[k], outcomes) = {<<>>}
        BY <1>4 DEF Under
    <2>3. DOMAIN <<>> = {} /\ <<>> = [x \in DOMAIN <<>> |-> <<>>[x]]
        OBVIOUS
    <2>. QED  BY <2>1, <2>2, <2>3 DEF FlatOf
<1>5. CASE t[k] \in Leaves \ {Nil}
    <2>1. ~IsMap(t[k])
        BY <1>5 DEF IsMap
    <2>2. Under(k, t[k], outcomes) = {[x \in {k} |-> t[k]]}
        BY <1>5, <2>1 DEF Under
    <2>3. <<k>> \in Valued(t) /\ NodeAt(t, <<k>>) = t[k]
        BY <1>1, <1>5, ValuedByFirst
    <2>4. ValuedUnder(t, {k}) = {<<k>>}
        BY <1>2, <1>3, <2>1, <2>3, ValuedTyped DEF ValuedUnder
    <2>5. Property(<<k>>) = k
        BY <1>1, <1>3, PropertyByFirst
    <2>. QED  BY <2>2, <2>3, <2>4, <2>5 DEF FlatOf
<1>6. CASE IsMap(t[k])
    <2> DEFINE v == t[k]
    <2>1. v \in Trees /\ v # Nil
        BY <1>1, <1>6, ChildrenAreTrees, TreeAssumption DEF IsMap
    <2>2. Under(k, v, outcomes) = {Prefixed(k, flat) : flat \in outcomes}
        BY <1>6, <2>1 DEF Under
    <2>3. ValuedUnder(v, Keyed(v)) = Valued(v)
        <3> SUFFICES ASSUME NEW p \in Valued(v) PROVE Head(p) \in Keyed(v)
            BY DEF ValuedUnder
        <3>. QED  BY <2>1, ValuedTyped, TreeAssumption DEF Keyed, Has, IsMap
    <2>4. ValuedUnder(t, {k}) = {<<k>> \o q : q \in Valued(v)}
        <3>1. ASSUME NEW q \in Valued(v)
              PROVE  <<k>> \o q \in ValuedUnder(t, {k})
            BY <1>1, <1>6, <2>1, ValuedByFirst, ValuedTyped, FirstName DEF ValuedUnder
        <3>2. ASSUME NEW p \in ValuedUnder(t, {k})
              PROVE  \E q \in Valued(v) : p = <<k>> \o q
            <4>1. p \in Valued(t) /\ Head(p) = k /\ t[k] \notin Leaves
                BY <1>2, <1>6 DEF IsMap
            <4>2. \E q \in Valued(t[k]) : p = <<k>> \o q
                BY <4>1, ValuedTyped
            <4>. QED  BY <4>2
        <3>. QED  BY <3>1, <3>2
    <2>5. \A q \in Valued(v) : /\ q \in Seq(Names) /\ Property(q) \in Words
                               /\ Property(<<k>> \o q) = k \o Property(q)
                               /\ NodeAt(t, <<k>> \o q) = NodeAt(v, q)
        BY <1>1, <1>6, <2>1, ValuedByFirst, ValuedTyped, PropertyTyped, PropertyByFirst
    <2>. HIDE DEF v
    <2>6. ASSUME NEW flat \in outcomes, FlatOf(v, Keyed(v), flat)
          PROVE  FlatOf(t, {k}, Prefixed(k, flat))
        <3> DEFINE g == Prefixed(k, flat)
        <3>1. /\ DOMAIN flat = {Property(q) : q \in Valued(v)}
              /\ \A x \in DOMAIN flat : \E q \in Valued(v) :
                    Property(q) = x /\ NodeAt(v, q) = flat[x]
            BY <2>3, <2>6 DEF FlatOf
        <3>2. DOMAIN flat \subseteq Words
            BY <2>5, <3>1
        <3>3. /\ DOMAIN g = {k \o x : x \in DOMAIN flat}
              /\ \A x \in DOMAIN flat : g[k \o x] = flat[x]
              /\ g = [p \in DOMAIN g |-> g[p]]
            BY <1>1, <3>2, PrefixedParts
        <3>. HIDE DEF g
        <3>4. DOMAIN g = {Property(p) : p \in ValuedUnder(t, {k})}
            <4>1. DOMAIN g = {k \o Property(q) : q \in Valued(v)}
                BY <3>1, <3>3
            <4>2. {Property(p) : p \in ValuedUnder(t, {k})}
                    = {Property(<<k>> \o q) : q \in Valued(v)}
                BY <2>4
            <4>3. {Property(<<k>> \o q) : q \in Valued(v)} = {k \o Property(q) : q \in Valued(v)}
                <5>1. \A q \in Valued(v) : Property(<<k>> \o q) = k \o Property(q)
                    BY <2>5
                <5>. QED  BY ONLY <5>1
            <4>. QED  BY <4>1, <4>2, <4>3
        <3>5. ASSUME NEW y \in DOMAIN g
              PROVE  \E p \in ValuedUnder(t, {k}) : Property(p) = y /\ NodeAt(t, p) = g[y]
            <4>1. PICK x \in DOMAIN flat : y = k \o x
                BY <3>3
            <4>2. PICK q \in Valued(v) : Property(q) = x /\ NodeAt(v, q) = flat[x]
                BY <3>1
            <4>3. <<k>> \o q \in ValuedUnder(t, {k})
                BY <2>4
            <4>4. Property(<<k>> \o q) = y /\ NodeAt(t, <<k>> \o q) = g[y]
                BY <2>5, <3>3, <4>1, <4>2
            <4>. QED  BY <4>3, <4>4
        <3>. QED  BY <3>3, <3>4, <3>5 DEF FlatOf, g
    <2>. QED  BY <1>6, <2>2, <2>6 DEF v
<1>. QED  BY <1>1, <1>4, <1>5, <1>6 DEF IsMap

-----------------------------------------------------------------------------
(* Flattening, by induction on what is still to be visited.                *)
VisitsFlat(t, names) ==
    /\ visits[<<t, names>>] # {}
    /\ \A flat \in visits[<<t, names>>] : FlatOf(t, names, flat)

LEMMA VisitsAreFlat ==
    \A t \in Trees : \A names \in SUBSET Keyed(t) : VisitsFlat(t, names)
<1> DEFINE T == {n \in Nat : \A t \in Trees : \A names \in SUBSET Keyed(t) :
                                ToVisit(<<t, names>>) < n => VisitsFlat(t, names)}
<1>0. \A t : Keyed(t) \in SUBSET Names
    BY DEF Keyed
<1>1. 0 \in T
    <2>1. \A t \in Trees : \A names \in SUBSET Keyed(t) : ToVisit(<<t, names>>) \in Nat
        BY <1>0, Fewer
    <2>. QED  BY <2>1
<1>2. ASSUME NEW n \in Nat, n \in T
      PROVE  n + 1 \in T
    <2> SUFFICES ASSUME NEW t \in Trees, NEW names \in SUBSET Keyed(t),
                        ToVisit(<<t, names>>) < n + 1
                 PROVE  VisitsFlat(t, names)
        OBVIOUS
    <2> DEFINE inner(k) == visits[<<t[k], Keyed(t[k])>>]
               first(k) == Under(k, t[k], inner(k))
               later(k) == visits[<<t, names \ {k}>>]
    <2>0. names \in SUBSET Names /\ ToVisit(<<t, names>>) \in Nat
        BY <1>0, Fewer
    <2>1. visits[<<t, names>>] = IF names = {} THEN {<<>>}
                                 ELSE UNION {Both(first(k), later(k)) : k \in names}
        <3>1. <<t, names>> \in Unvisited
            BY <2>0 DEF Unvisited
        <3>. QED  BY <3>1, VisitsDefined DEF VisitsBody
    <2>2. ASSUME NEW k \in names
          PROVE  /\ first(k) # {} /\ \A flat \in first(k) : FlatOf(t, {k}, flat)
                 /\ later(k) # {} /\ \A flat \in later(k) : FlatOf(t, names \ {k}, flat)
        <3>1. k \in Names /\ k \in Keyed(t)
            BY <1>0
        <3>2. VisitsFlat(t, names \ {k})
            <4>1. names \ {k} \in SUBSET Names /\ names \ {k} \in SUBSET Keyed(t)
                BY <2>0
            <4>2. /\ ToVisit(<<t, names \ {k}>>) \in Nat
                  /\ ToVisit(<<t, names \ {k}>>) < ToVisit(<<t, names>>)
                BY <2>0, <4>1, Fewer
            <4>3. ToVisit(<<t, names \ {k}>>) < n
                BY <2>0, <4>2
            <4>. QED  BY <1>2, <4>1, <4>3
        <3>3. ASSUME IsMap(t[k])
              PROVE  VisitsFlat(t[k], Keyed(t[k]))
            <4>1. t[k] \in Trees
                BY <3>1, <3>3, ChildrenAreTrees
            <4>2. /\ ToVisit(<<t[k], Keyed(t[k])>>) \in Nat
                  /\ ToVisit(<<t[k], Keyed(t[k])>>) < ToVisit(<<t, names>>)
                BY <1>0, <2>0, <3>3, <4>1, Fewer
            <4>3. ToVisit(<<t[k], Keyed(t[k])>>) < n
                BY <2>0, <4>2
            <4>. QED  BY <1>2, <4>1, <4>3
        <3>4. IsMap(t[k]) => inner(k) # {} /\ \A flat \in inner(k) : FlatOf(t[k], Keyed(t[k]), flat)
            BY <3>3 DEF VisitsFlat
        <3>5. first(k) # {} /\ \A flat \in first(k) : FlatOf(t, {k}, flat)
            BY <3>1, <3>4, UnderFlat
        <3>. QED  BY <3>2, <3>5 DEF VisitsFlat
    <2>. HIDE DEF inner, first, later
    <2>3. CASE names = {}
        <3>1. ValuedUnder(t, {}) = {}
            BY DEF ValuedUnder
        <3>2. DOMAIN <<>> = {} /\ <<>> = [x \in DOMAIN <<>> |-> <<>>[x]]
            OBVIOUS
        <3>. QED  BY <2>1, <2>3, <3>1, <3>2 DEF VisitsFlat, FlatOf
    <2>4. CASE names # {}
        <3>1. ASSUME NEW flat \in visits[<<t, names>>]
              PROVE  FlatOf(t, names, flat)
            <4>1. PICK k \in names : flat \in Both(first(k), later(k))
                BY <2>1, <2>4
            <4>2. PICK l \in later(k), e \in first(k) : flat = Overlay(l, e)
                BY <4>1 DEF Both
            <4>3. FlatOf(t, names \ {k}, l) /\ FlatOf(t, {k}, e)
                BY <2>2, <4>2
            <4>4. (names \ {k}) \cup {k} = names
                OBVIOUS
            <4>. QED  BY <4>2, <4>3, <4>4, BothFlat
        <3>2. visits[<<t, names>>] # {}
            <4>1. PICK k \in names : TRUE
                BY <2>4
            <4>2. PICK l \in later(k), e \in first(k) : TRUE
                BY <2>2
            <4>3. Overlay(l, e) \in Both(first(k), later(k))
                BY <4>2 DEF Both
            <4>. QED  BY <2>1, <2>4, <4>3
        <3>. QED  BY <3>1, <3>2 DEF VisitsFlat
    <2>. QED  BY <2>3, <2>4
<1>. HIDE DEF T
<1>3. Nat \subseteq T
    BY <1>1, <1>2, OnNames!Induction
<1>4. ASSUME NEW t \in Trees, NEW names \in SUBSET Keyed(t)
      PROVE  VisitsFlat(t, names)
    <2>1. ToVisit(<<t, names>>) \in Nat
        BY <1>0, Fewer
    <2>2. ToVisit(<<t, names>>) + 1 \in T /\ ToVisit(<<t, names>>) < ToVisit(<<t, names>>) + 1
        BY <1>3, <2>1
    <2>. QED  BY <2>2 DEF T
<1>. QED  BY <1>4

(* A tree comes to some map, and every map it comes to has its properties. *)
LEMMA ConvertFlat ==
    ASSUME NEW t \in Trees
    PROVE  /\ ConvertRecursiveMapToSingleMap(t) # {}
           /\ \A flat \in ConvertRecursiveMapToSingleMap(t) :
                IsFlat(t, flat) /\ flat = [k \in DOMAIN flat |-> flat[k]]
<1>1. ValuedUnder(t, Keyed(t)) = Valued(t)
    <2> SUFFICES ASSUME NEW p \in Valued(t) PROVE Head(p) \in Keyed(t)
        BY DEF ValuedUnder
    <2>. QED  BY ValuedTyped, TreeAssumption DEF Keyed, Has, IsMap
<1>. QED  BY <1>1, VisitsAreFlat DEF VisitsFlat, FlatOf, IsFlat, ConvertRecursiveMapToSingleMap

LEMMA FlatParts ==
    ASSUME NEW t \in Trees, NEW flat \in ConvertRecursiveMapToSingleMap(t)
    PROVE  /\ flat = [k \in DOMAIN flat |-> flat[k]]
           /\ DOMAIN flat = {Property(p) : p \in Valued(t)}
           /\ \A k \in DOMAIN flat : \E p \in Valued(t) :
                    Property(p) = k /\ NodeAt(t, p) = flat[k]
<1>1. IsFlat(t, flat) /\ flat = [k \in DOMAIN flat |-> flat[k]]
    BY ConvertFlat
<1>. QED  BY <1>1 DEF IsFlat

(* Where no property is spelled in two ways the value of each is known.    *)
LEMMA OneValue ==
    ASSUME NEW t \in Trees, Unambiguous(t), NEW flat \in ConvertRecursiveMapToSingleMap(t),
           NEW p \in Valued(t)
    PROVE  Property(p) \in DOMAIN flat /\ flat[Property(p)] = NodeAt(t, p)
<1>0. /\ DOMAIN flat = {Property(q) : q \in Valued(t)}
      /\ \A k \in DOMAIN flat : \E q \in Valued(t) : Property(q) = k /\ NodeAt(t, q) = flat[k]
    BY FlatParts
<1>1. Property(p) \in DOMAIN flat
    BY <1>0
<1>2. PICK q \in Valued(t) : Property(q) = Property(p) /\ NodeAt(t, q) = flat[Property(p)]
    BY <1>0, <1>1
<1>3. q = p
    BY <1>2 DEF Unambiguous
<1>. QED  BY <1>1, <1>2, <1>3

LEMMA OneOutcome ==
    ASSUME NEW t \in Trees, Unambiguous(t)
    PROVE  Cardinality(ConvertRecursiveMapToSingleMap(t)) = 1
<1>1. PICK f \in ConvertRecursiveMapToSingleMap(t) : TRUE
    BY ConvertFlat
<1>2. ASSUME NEW g \in ConvertRecursiveMapToSingleMap(t)
      PROVE  g = f
    <2>1. /\ DOMAIN f = {Property(p) : p \in Valued(t)} /\ f = [k \in DOMAIN f |-> f[k]]
          /\ DOMAIN g = {Property(p) : p \in Valued(t)} /\ g = [k \in DOMAIN g |-> g[k]]
        BY ConvertFlat DEF IsFlat
    <2>2. \A k \in DOMAIN f : g[k] = f[k]
        BY <2>1, OneValue
    <2>. QED  BY <2>1, <2>2
<1>3. ConvertRecursiveMapToSingleMap(t) = {f}
    BY <1>1, <1>2
<1>. QED  BY <1>3, FS_Singleton

(* Flattening neither loses nor invents a property, whatever the order in  *)
(* which Go ranges over the maps (convertor.go), and has one outcome where *)
(* no property is spelled in two ways.                                     *)
THEOREM FlatteningExact == Spec => []FlatteningKeepsAll
<1>1. ProfileTyped => FlatteningKeepsAll
    BY ConvertFlat, OneOutcome DEF ProfileTyped, FlatteningKeepsAll
<1>. QED  BY <1>1, MergedIsTree, PTL

-----------------------------------------------------------------------------
(* What is at the end of a path is on one of the paths of the tree.        *)
LEMMA HeadAndTail ==
    ASSUME NEW p \in Paths
    PROVE  /\ Head(p) \in Names /\ Tail(p) \in Seq(Names) /\ p = <<Head(p)>> \o Tail(p)
           /\ Short(p) => p = <<Head(p)>>
           /\ ~Short(p) => Tail(p) \in Paths
<1>1. p \in Seq(Names) /\ p # <<>> /\ Len(p) \in Nat
    BY LenProperties DEF Paths
<1>2. /\ Head(p) \in Names /\ Tail(p) \in Seq(Names) /\ Len(Tail(p)) = Len(p) - 1
      /\ \A i \in 1 .. Len(Tail(p)) : Tail(p)[i] = p[i + 1]
    BY <1>1, HeadTailProperties
<1> DEFINE h == <<Head(p)>>
           s == h \o Tail(p)
<1>3. h \in Seq(Names) /\ Len(h) = 1 /\ h[1] = p[1]
    BY <1>1, <1>2
<1>4. /\ s \in Seq(Names) /\ Len(s) = Len(p)
      /\ \A i \in 1 .. Len(p) : s[i] = IF i <= 1 THEN h[i] ELSE Tail(p)[i - 1]
    <2>1. /\ s \in Seq(Names) /\ Len(s) = Len(h) + Len(Tail(p))
          /\ \A i \in 1 .. Len(h) + Len(Tail(p)) : s[i] = IF i <= Len(h) THEN h[i]
                                                            ELSE Tail(p)[i - Len(h)]
        BY <1>2, <1>3, ConcatProperties
    <2>2. Len(h) + Len(Tail(p)) = Len(p)
        BY <1>1, <1>2, <1>3
    <2>. QED  BY <1>3, <2>1, <2>2
<1>. HIDE DEF h, s
<1>5. \A i \in 1 .. Len(p) : s[i] = p[i]
    <2> SUFFICES ASSUME NEW i \in 1 .. Len(p) PROVE s[i] = p[i]
        OBVIOUS
    <2>1. CASE i = 1
        BY <1>3, <1>4, <2>1
    <2>2. CASE i # 1
        <3>1. i - 1 \in 1 .. Len(Tail(p)) /\ (i - 1) + 1 = i /\ ~(i <= 1)
            BY <1>1, <1>2, <2>2
        <3>. QED  BY <1>2, <1>4, <3>1
    <2>. QED  BY <2>1, <2>2
<1>6. s = p
    BY <1>1, <1>4, <1>5, SeqEqual
<1>7. ASSUME Short(p) PROVE p = h
    <2>1. Len(p) = 1
        BY <1>7 DEF Short
    <2>. QED  BY <1>1, <1>3, <2>1, SeqEqual
<1>. QED  BY <1>2, <1>6, <1>7, PathParts DEF h, s

LEMMA NodeOnPath ==
    ASSUME NEW t \in Trees, NEW p \in Paths, NodeAt(t, p) # NoKey
    PROVE  p \in PathsOf(t)
<1> DEFINE T == {n \in Nat : \A u \in Trees, q \in Paths :
                                Len(q) < n /\ NodeAt(u, q) # NoKey => q \in PathsOf(u)}
<1>1. 0 \in T
    BY PathParts
<1>2. ASSUME NEW n \in Nat, n \in T
      PROVE  n + 1 \in T
    <2> SUFFICES ASSUME NEW u \in Trees, NEW q \in Paths, Len(q) < n + 1, NodeAt(u, q) # NoKey
                 PROVE  q \in PathsOf(u)
        OBVIOUS
    <2>1. Head(q) \in Names /\ q = <<Head(q)>> \o Tail(q) /\ (Short(q) => q = <<Head(q)>>)
        BY HeadAndTail
    <2>2. CASE Short(q)
        <3>1. Has(u, Head(q))
            BY <2>2, NodeByFirst DEF Has
        <3>. QED  BY <2>1, <2>2, <3>1, PathsByFirst DEF ByFirst
    <2>3. CASE ~Short(q)
        <3>1. IsMap(u[Head(q)]) /\ NodeAt(u[Head(q)], Tail(q)) # NoKey
            BY <2>3, NodeByFirst
        <3>2. u[Head(q)] \in Trees /\ Tail(q) \in Paths
            BY <2>1, <2>3, <3>1, ChildrenAreTrees, HeadAndTail
        <3>3. Len(Tail(q)) \in Nat /\ Len(q) \in Nat /\ Len(Tail(q)) < Len(q)
            BY <2>3, <3>2, PathParts
        <3>4. Len(Tail(q)) < n
            BY <3>3
        <3>5. Tail(q) \in PathsOf(u[Head(q)])
            BY <1>2, <3>1, <3>2, <3>4
        <3>. QED  BY <2>1, <3>1, <3>5, PathsByFirst DEF ByFirst
    <2>. QED  BY <2>2, <2>3
<1>. HIDE DEF T
<1>3. Nat \subseteq T
    BY <1>1, <1>2, OnNames!Induction
<1>4. Len(p) + 1 \in T /\ Len(p) < Len(p) + 1
    BY <1>3, PathParts
<1>. QED  BY <1>4 DEF T

LEMMA ValuedPaths ==
    ASSUME NEW t \in Trees
    PROVE  Valued(t) = {p \in Paths : NodeAt(t, p) \in Leaves \ {Nil}}
<1>1. \A p \in PathsOf(t) : p \in Paths
    BY PathsTyped
<1>2. \A p \in Paths : NodeAt(t, p) \in Leaves \ {Nil} => p \in PathsOf(t)
    BY NodeOnPath, TreeAssumption
<1>. QED  BY <1>1, <1>2 DEF Valued

(* What a service was served it is served after an addition too, where the *)
(* result spells no property in two ways.                                  *)
THEOREM ServedIsKept == Spec => []AddKeepsServed
<1>1. ASSUME ProfileTyped, NEW new \in Requested, Unambiguous(recursiveAdd(yaml, new)),
             NEW old \in ConvertRecursiveMapToSingleMap(yaml),
             NEW flat \in ConvertRecursiveMapToSingleMap(recursiveAdd(yaml, new)),
             NEW k \in DOMAIN old
      PROVE  k \in DOMAIN flat /\ flat[k] = old[k]
    <2> DEFINE merged == recursiveAdd(yaml, new)
    <2>1. yaml \in Trees /\ new \in Trees /\ merged \in Trees
        BY <1>1, ProfileAssumption, MergesTyped DEF ProfileTyped
    <2>2. PICK p \in Valued(yaml) : Property(p) = k /\ NodeAt(yaml, p) = old[k]
        <3>1. \A x \in DOMAIN old : \E p \in Valued(yaml) :
                    Property(p) = x /\ NodeAt(yaml, p) = old[x]
            BY <2>1, FlatParts
        <3>. QED  BY <1>1, <3>1
    <2>3. p \in Paths /\ NodeAt(yaml, p) \in Leaves \ {Nil}
        BY <2>1, <2>2, ValuedPaths
    <2>4. AddAt(yaml, new, merged, p)
        BY <2>1, <2>3, AddOnPaths
    <2>. HIDE DEF merged
    <2>5. NodeAt(merged, p) = NodeAt(yaml, p)
        BY <2>3, <2>4, TreeAssumption DEF AddAt, Same, IsMap
    <2>6. p \in Valued(merged)
        BY <2>1, <2>3, <2>5, ValuedPaths
    <2>7. Property(p) \in DOMAIN flat /\ flat[Property(p)] = NodeAt(merged, p)
        BY <1>1, <2>1, <2>6, OneValue DEF merged
    <2>. QED  BY <2>2, <2>5, <2>7
<1>2. ASSUME ProfileTyped, NEW new \in Requested, Unambiguous(recursiveAdd(yaml, new)),
             NEW old \in ConvertRecursiveMapToSingleMap(yaml),
             NEW flat \in ConvertRecursiveMapToSingleMap(recursiveAdd(yaml, new))
      PROVE  appendConfigServerAddition(Entries(old))
                \subseteq appendConfigServerAddition(Entries(flat))
    <2>1. Entries(old) \subseteq Entries(flat)
        BY <1>1, <1>2 DEF Entries
    <2>. QED  BY <2>1 DEF appendConfigServerAddition, Over
<1>3. ProfileTyped => AddKeepsServed
    BY <1>2, Zenon DEF AddKeepsServed
<1>. QED  BY <1>3, MergedIsTree, PTL

-----------------------------------------------------------------------------
(* The split of a gateway's configuration, path by path.                   *)
Routed(p) == ~Short(p) /\ Head(p) = ZuulNode /\ Head(Tail(p)) = RoutesNode

LEMMA NothingThere ==
    ASSUME NEW t \in Trees, NEW p \in Paths, t[Head(p)] = NoKey
    PROVE  NodeAt(t, p) = NoKey
BY NodeByFirst DEF IsMap

(* Without routes a tree has nothing on a path to one.                     *)
LEMMA NoRouteThere ==
    ASSUME NEW t \in Trees, ~HasRoutes(t), NEW p \in Paths, Routed(p)
    PROVE  NodeAt(t, p) = NoKey
<1>1. ~Short(p) /\ Head(p) = ZuulNode /\ Tail(p) \in Paths /\ Head(Tail(p)) = RoutesNode
      /\ Head(p) \in Names
    BY HeadAndTail DEF Routed
<1>2. CASE IsMap(t[ZuulNode])
    <2>1. t[ZuulNode] \in Trees /\ t[ZuulNode][RoutesNode] = NoKey
        BY <1>1, <1>2, ChildrenAreTrees DEF HasRoutes, Has
    <2>2. NodeAt(t, p) = NodeAt(t[ZuulNode], Tail(p))
        BY <1>1, <1>2, NodeByFirst
    <2>. QED  BY <1>1, <2>1, <2>2, NothingThere
<1>3. CASE ~IsMap(t[ZuulNode])
    BY <1>1, <1>3, NodeByFirst
<1>. QED  BY <1>2, <1>3

LEMMA WithoutOnPaths ==
    ASSUME NEW t \in Trees, NEW p \in Paths
    PROVE  /\ Routed(p) => NodeAt(WithoutRoutes(t), p) = NoKey
           /\ ~Routed(p) => Same(NodeAt(WithoutRoutes(t), p), NodeAt(t, p))
<1> DEFINE w == WithoutRoutes(t)
           z == t[ZuulNode]
           left == [z EXCEPT ![RoutesNode] = NoKey]
<1>1. w \in Trees /\ ~HasRoutes(w)
    BY SplitTyped
<1>2. Routed(p) => NodeAt(w, p) = NoKey
    BY <1>1, NoRouteThere
<1>3. CASE ~HasRoutes(t)
    BY <1>2, <1>3 DEF WithoutRoutes, Same
<1>4. CASE HasRoutes(t) /\ ~Routed(p)
    <2>1. {ZuulNode, RoutesNode} \subseteq Names /\ z \in Trees /\ IsMap(z) /\ Head(p) \in Names
        BY <1>4, TreeAssumption, ChildrenAreTrees, HeadAndTail DEF HasRoutes
    <2>2. DOMAIN t = Names /\ DOMAIN z = Names
        BY <2>1, TreesDefined, TreeAssumption DEF Trees
    <2>3. w = [t EXCEPT ![ZuulNode] = left]
        BY <1>4 DEF WithoutRoutes
    <2>4. /\ w[ZuulNode] = left /\ left[RoutesNode] = NoKey
          /\ \A k \in Names \ {ZuulNode} : w[k] = t[k]
          /\ \A k \in Names \ {RoutesNode} : left[k] = z[k]
        BY <2>1, <2>2, <2>3
    <2>5. left \in Trees /\ IsMap(left)
        <3>1. left \notin Leaves \cup {NoKey}
            <4>1. z \in TreesTo[MaxDepth] /\ MaxDepth \in Nat
                BY <2>1, TreeAssumption DEF Trees
            <4>2. left \in TreesTo[MaxDepth]
                BY <2>1, <4>1, ExceptTyped DEF Values
            <4>. QED  BY <4>2, TreeAssumption DEF Trees
        <3>2. IsMap(left)
            BY <3>1 DEF IsMap
        <3>3. left \in Trees
            BY <1>1, <2>1, <2>4, <3>2, ChildrenAreTrees
        <3>. QED  BY <3>2, <3>3
    <2>. HIDE DEF left, w, z
    <2>6. CASE Head(p) # ZuulNode
        <3>1. NodeAt(w, p) = NodeAt(t, p)
            BY <1>1, <2>1, <2>4, <2>6, SameFirst
        <3>. QED  BY <1>4, <3>1 DEF Same, w
    <2>7. CASE Head(p) = ZuulNode /\ Short(p)
        <3>1. NodeAt(w, p) = left /\ NodeAt(t, p) = z
            BY <1>1, <2>4, <2>7, NodeByFirst DEF z
        <3>. QED  BY <1>4, <2>1, <2>5, <3>1 DEF Same, w
    <2>8. CASE Head(p) = ZuulNode /\ ~Short(p)
        <3>1. Tail(p) \in Paths /\ Head(Tail(p)) \in Names /\ Head(Tail(p)) # RoutesNode
            BY <1>4, <2>8, HeadAndTail DEF Routed
        <3>2. NodeAt(w, p) = NodeAt(left, Tail(p)) /\ NodeAt(t, p) = NodeAt(z, Tail(p))
            BY <1>1, <2>1, <2>4, <2>5, <2>8, NodeByFirst DEF z
        <3>3. NodeAt(left, Tail(p)) = NodeAt(z, Tail(p))
            BY <2>1, <2>4, <2>5, <3>1, SameFirst
        <3>. QED  BY <1>4, <3>2, <3>3 DEF Same, w
    <2>. QED  BY <1>4, <2>6, <2>7, <2>8 DEF w
<1>. QED  BY <1>2, <1>3, <1>4

LEMMA RoutesOnPaths ==
    ASSUME NEW t \in Trees, NEW p \in Paths
    PROVE  /\ Routed(p) => NodeAt(RouteTree(t), p) = NodeAt(t, p)
           /\ ~Routed(p) => NodeAt(RouteTree(t), p) \notin Leaves
<1> DEFINE r == RouteTree(t)
           under == IF HasRoutes(t) THEN Single(RoutesNode, t[ZuulNode][RoutesNode])
                    ELSE EmptyTree
<1>1. /\ {ZuulNode, RoutesNode} \subseteq Names /\ Head(p) \in Names
      /\ DOMAIN EmptyTree = Names /\ NoKey \notin Leaves
    BY TreeAssumption, HeadAndTail DEF EmptyTree
<1>2. r \in Trees /\ r = Single(ZuulNode, under)
    BY SplitTyped DEF RouteTree
<1>3. /\ r[ZuulNode] = under
      /\ \A k \in Names \ {ZuulNode} : r[k] = NoKey
    BY <1>1, <1>2, EmptyTyped DEF Single
<1>4. /\ under[RoutesNode] = IF HasRoutes(t) THEN t[ZuulNode][RoutesNode] ELSE NoKey
      /\ \A k \in Names \ {RoutesNode} : under[k] = NoKey
    BY <1>1, EmptyTyped DEF Single
<1>5. IsMap(under) /\ under \in Trees
    <2>1. IsMap(under)
        <3>1. CASE ~HasRoutes(t)
            BY <3>1, EmptyTyped
        <3>2. CASE HasRoutes(t)
            <4>1. IsMap(t[ZuulNode]) /\ t[ZuulNode] \in Trees
                BY <1>1, <3>2, ChildrenAreTrees DEF HasRoutes
            <4>2. \/ t[ZuulNode][RoutesNode] \in Values
                  \/ /\ MaxDepth - 2 \in Nat /\ t[ZuulNode][RoutesNode] \in TreesTo[MaxDepth - 2]
                BY <1>1, <4>1, RoutesOfTree
            <4>3. MaxDepth \in Nat /\ MaxDepth > 0 /\ MaxDepth - 1 \in Nat /\ MaxDepth - 1 <= MaxDepth
                  /\ (MaxDepth - 2 \in Nat => MaxDepth - 1 > 0 /\ (MaxDepth - 1) - 1 = MaxDepth - 2)
                BY TreeAssumption
            <4>4. under \in TreesTo[MaxDepth - 1]
                BY <1>1, <3>2, <4>2, <4>3, SingleTyped
            <4>. QED  BY <4>3, <4>4, DeeperTrees, TreesAreMaps DEF Trees
        <3>. QED  BY <3>1, <3>2
    <2>2. under \in Trees
        BY <1>1, <1>2, <1>3, <2>1, ChildrenAreTrees
    <2>. QED  BY <2>1, <2>2
<1>. HIDE DEF under, r
<1>6. CASE Head(p) # ZuulNode
    BY <1>1, <1>2, <1>3, <1>6, NothingThere DEF Routed, r
<1>7. CASE Head(p) = ZuulNode /\ Short(p)
    <2>1. NodeAt(r, p) = under
        BY <1>2, <1>3, <1>7, NodeByFirst
    <2>. QED  BY <1>5, <1>7, <2>1 DEF Routed, IsMap, r
<1>8. CASE Head(p) = ZuulNode /\ ~Short(p)
    <2>1. Tail(p) \in Paths /\ Head(Tail(p)) \in Names
        BY <1>8, HeadAndTail
    <2>2. NodeAt(r, p) = NodeAt(under, Tail(p))
        BY <1>2, <1>3, <1>5, <1>8, NodeByFirst
    <2>3. CASE ~Routed(p)
        <3>1. under[Head(Tail(p))] = NoKey
            BY <1>4, <1>8, <2>1, <2>3 DEF Routed
        <3>. QED  BY <1>1, <1>5, <2>1, <2>2, <2>3, <3>1, NothingThere DEF r
    <2>4. CASE Routed(p) /\ ~HasRoutes(t)
        <3>1. under[Head(Tail(p))] = NoKey
            BY <1>4, <2>1, <2>4 DEF Routed
        <3>2. NodeAt(t, p) = NoKey
            BY <2>4, NoRouteThere
        <3>. QED  BY <1>5, <2>1, <2>2, <2>4, <3>1, <3>2, NothingThere DEF r
    <2>5. CASE Routed(p) /\ HasRoutes(t)
        <3>1. under[Head(Tail(p))] = t[ZuulNode][Head(Tail(p))]
            BY <1>4, <2>5 DEF Routed
        <3>2. t[ZuulNode] \in Trees /\ IsMap(t[ZuulNode])
            BY <1>1, <2>5, ChildrenAreTrees DEF HasRoutes
        <3>3. NodeAt(under, Tail(p)) = NodeAt(t[ZuulNode], Tail(p))
            BY <1>5, <2>1, <3>1, <3>2, SameFirst
        <3>4. NodeAt(t, p) = NodeAt(t[ZuulNode], Tail(p))
            BY <1>8, <3>2, NodeByFirst
        <3>. QED  BY <2>2, <2>5, <3>3, <3>4 DEF r
    <2>. QED  BY <2>3, <2>4, <2>5
<1>. QED  BY <1>6, <1>7, <1>8

(* The values of a tree are those of its two halves.                       *)
LEMMA ValuesSplit ==
    ASSUME NEW t \in Trees
    PROVE  /\ Valued(WithoutRoutes(t)) = {p \in Valued(t) : ~Routed(p)}
           /\ \A p \in Valued(WithoutRoutes(t)) : NodeAt(WithoutRoutes(t), p) = NodeAt(t, p)
           /\ Valued(RouteTree(t)) = {p \in Valued(t) : Routed(p)}
           /\ \A p \in Valued(RouteTree(t)) : NodeAt(RouteTree(t), p) = NodeAt(t, p)
<1> DEFINE w == WithoutRoutes(t)  r == RouteTree(t)
<1>1. w \in Trees /\ r \in Trees
    BY SplitTyped
<1>2. \A p \in Paths : NodeAt(w, p) \in Leaves =>
                            ~Routed(p) /\ NodeAt(w, p) = NodeAt(t, p)
    BY WithoutOnPaths, TreeAssumption DEF Same, IsMap
<1>3. \A p \in Paths : NodeAt(t, p) \in Leaves /\ ~Routed(p) => NodeAt(w, p) = NodeAt(t, p)
    BY WithoutOnPaths DEF Same, IsMap
<1>4. \A p \in Paths : NodeAt(r, p) \in Leaves => Routed(p) /\ NodeAt(r, p) = NodeAt(t, p)
    BY RoutesOnPaths
<1>5. \A p \in Paths : Routed(p) => NodeAt(r, p) = NodeAt(t, p)
    BY RoutesOnPaths
<1>6. /\ Valued(w) = {p \in Paths : NodeAt(w, p) \in Leaves \ {Nil}}
      /\ Valued(r) = {p \in Paths : NodeAt(r, p) \in Leaves \ {Nil}}
      /\ Valued(t) = {p \in Paths : NodeAt(t, p) \in Leaves \ {Nil}}
    BY <1>1, ValuedPaths
<1>. HIDE DEF w, r
<1>7. Valued(w) = {p \in Valued(t) : ~Routed(p)} /\ Valued(r) = {p \in Valued(t) : Routed(p)}
    BY <1>2, <1>3, <1>4, <1>5, <1>6
<1>. QED  BY <1>2, <1>4, <1>6, <1>7 DEF w, r

-----------------------------------------------------------------------------
(* The properties of routes are those on paths below zuul and routes.      *)
Begins(p) == Len(p) > 1 /\ p[1] = "zuul" /\ p[2] = "routes"

LEMMA ShortSequences ==
    ASSUME NEW S, NEW a \in S, NEW b \in S
    PROVE  /\ <<a>> \in Seq(S) /\ Len(<<a>>) = 1 /\ <<a>>[1] = a
           /\ <<a, b>> \in Seq(S) /\ Len(<<a, b>>) = 2
OBVIOUS

LEMMA OneWord ==
    /\ ZuulNode \in Words /\ Len(ZuulNode) = 1 /\ ZuulNode[1] = "zuul"
    /\ RoutesNode \in Words /\ Len(RoutesNode) = 1 /\ RoutesNode[1] = "routes"
<1>1. /\ Len(<<"zuul">>) = 1 /\ <<"zuul">>[1] = "zuul"
      /\ Len(<<"routes">>) = 1 /\ <<"routes">>[1] = "routes"
    <2>1. "zuul" \in {"zuul"} /\ "routes" \in {"routes"}
        OBVIOUS
    <2>. QED  BY ONLY <2>1, ShortSequences, Zenon
<1>2. ZuulNode \in Words /\ RoutesNode \in Words
    BY TreeAssumption, NameAssumption, Zenon DEF Words
<1>. QED  BY <1>1, <1>2, Zenon DEF ZuulNode, RoutesNode

LEMMA RouteBegins ==
    ASSUME NEW x \in Words
    PROVE  IsRoute(x) <=> Begins(x)
<1>1. Len(x) \in Nat /\ Len(ZuulNode) = 1 /\ Len(RoutesNode) = 1
      /\ ZuulNode \in Words /\ RoutesNode \in Words
      /\ ZuulNode[1] = "zuul" /\ RoutesNode[1] = "routes"
    <2>1. Len(x) \in Nat
        BY LenProperties DEF Words
    <2>. QED  BY <2>1, OneWord
<1> DEFINE s == ZuulNode \o RoutesNode
<1>2. /\ s \in Words /\ Len(s) = 2 /\ s[1] = "zuul" /\ s[2] = "routes"
    <2>1. /\ s \in Seq(STRING) /\ Len(s) = Len(ZuulNode) + Len(RoutesNode)
          /\ \A i \in 1 .. Len(ZuulNode) + Len(RoutesNode) :
                s[i] = IF i <= Len(ZuulNode) THEN ZuulNode[i] ELSE RoutesNode[i - Len(ZuulNode)]
        BY <1>1, ConcatProperties DEF Words
    <2>2. Len(ZuulNode) + Len(RoutesNode) = 2 /\ 1 \in 1 .. 2 /\ 2 \in 1 .. 2
          /\ 1 <= 1 /\ ~(2 <= 1) /\ 2 - 1 = 1
        BY <1>1
    <2>. HIDE DEF s
    <2>. QED  BY <1>1, <2>1, <2>2 DEF Words
<1>3. \A a : (<<a>> = ZuulNode <=> a = "zuul") /\ (<<a>> = RoutesNode <=> a = "routes")
    BY DEF ZuulNode, RoutesNode
<1>. HIDE DEF s
<1>4. Len(x) = 2 /\ x[1] = "zuul" /\ x[2] = "routes" => x = s
    <2> SUFFICES ASSUME Len(x) = 2, x[1] = "zuul", x[2] = "routes" PROVE x = s
        OBVIOUS
    <2>1. \A i \in 1 .. Len(x) : x[i] = s[i]
        BY <1>2
    <2>. QED  BY <1>2, <2>1, SeqEqual DEF Words
<1>5. IsRouteProperty(x) <=> Len(x) > 2 /\ x[1] = "zuul" /\ x[2] = "routes"
    BY <1>3 DEF IsRouteProperty
<1>6. IsRoute(x) <=> IsRouteProperty(x) \/ x = s
    BY DEF IsRoute, s
<1>7. Len(x) > 1 <=> Len(x) > 2 \/ Len(x) = 2
    <2>1. \A n \in Nat : n > 1 <=> n > 2 \/ n = 2
        OBVIOUS
    <2>2. Len(x) \in Nat
        BY <1>1
    <2>. QED  BY <2>1, <2>2, Zenon
<1>8. x = s => Len(x) = 2 /\ x[1] = "zuul" /\ x[2] = "routes"
    BY <1>2
<1>. QED  BY <1>4, <1>5, <1>6, <1>7, <1>8 DEF Begins

LEMMA PropertyOfRoute ==
    ASSUME NEW p \in Paths, Routed(p)
    PROVE  Begins(Property(p))
<1> DEFINE q == Tail(p)
           y == Property(Tail(q))
           x == RoutesNode \o y
<1>1. /\ p = <<ZuulNode>> \o q /\ q \in Paths /\ q = <<RoutesNode>> \o Tail(q)
      /\ q \in Seq(Names) /\ Tail(q) \in Seq(Names)
      /\ {ZuulNode, RoutesNode} \subseteq Names
    BY HeadAndTail, TreeAssumption DEF Routed, Paths
<1>2. y \in Words /\ ZuulNode \in Words /\ RoutesNode \in Words
    BY <1>1, PropertyTyped, NameAssumption DEF Words
<1>. HIDE DEF y
<1>3. Property(q) = x
    <2>1. RoutesNode \in Names
        BY <1>1
    <2>2. Property(<<RoutesNode>> \o Tail(q)) = RoutesNode \o Property(Tail(q))
        BY <1>1, <2>1, PropertyByFirst
    <2>. QED  BY <1>1, <2>2 DEF y
<1>4. Property(p) = ZuulNode \o x
    BY <1>1, <1>3, PropertyByFirst
<1>5. /\ Len(ZuulNode) = 1 /\ Len(RoutesNode) = 1 /\ Len(y) \in Nat
      /\ ZuulNode[1] = "zuul" /\ RoutesNode[1] = "routes"
    BY <1>2, LenProperties DEF Words, ZuulNode, RoutesNode
<1>6. x \in Words /\ Len(x) = 1 + Len(y) /\ x[1] = "routes"
    <2>1. /\ x \in Seq(STRING) /\ Len(x) = Len(RoutesNode) + Len(y)
          /\ \A i \in 1 .. Len(RoutesNode) + Len(y) :
                x[i] = IF i <= Len(RoutesNode) THEN RoutesNode[i] ELSE y[i - Len(RoutesNode)]
        BY <1>2, ConcatProperties DEF Words
    <2>2. 1 \in 1 .. 1 + Len(y) /\ 1 <= 1
        BY <1>5
    <2>. HIDE DEF x
    <2>. QED  BY <1>5, <2>1, <2>2 DEF Words
<1>. HIDE DEF x
<1> DEFINE s == ZuulNode \o x
<1>7. /\ Len(s) = Len(ZuulNode) + Len(x)
      /\ \A i \in 1 .. Len(ZuulNode) + Len(x) :
            s[i] = IF i <= Len(ZuulNode) THEN ZuulNode[i] ELSE x[i - Len(ZuulNode)]
    <2>1. ZuulNode \in Seq(STRING) /\ x \in Seq(STRING)
        BY <1>2, <1>6 DEF Words
    <2>. QED  BY ONLY <2>1, ConcatProperties
<1>8. /\ Len(ZuulNode) + Len(x) = 2 + Len(y)
      /\ 1 \in 1 .. 2 + Len(y) /\ 2 \in 1 .. 2 + Len(y)
      /\ 1 <= 1 /\ ~(2 <= 1) /\ 2 - 1 = 1 /\ 2 + Len(y) > 1
    BY <1>5, <1>6
<1>. HIDE DEF s
<1>9. Len(s) > 1 /\ s[1] = "zuul" /\ s[2] = "routes"
    BY <1>5, <1>6, <1>7, <1>8
<1>. QED  BY <1>4, <1>9 DEF Begins, s

(* A path to a property of a route, where no route is spelled with dots.   *)
LEMMA RouteIsRouted ==
    ASSUME NEW t \in Trees, RoutesNested(t), NEW p \in Valued(t)
    PROVE  /\ Property(p) \in Words
           /\ IsRoute(Property(p)) <=> Routed(p)
<1>1. p \in Paths /\ p \in Seq(Names) /\ Property(p) \in Words
    BY ValuedTyped, PropertyTyped
<1>2. Routed(p) => IsRoute(Property(p))
    BY <1>1, PropertyOfRoute, RouteBegins
<1>3. ASSUME IsRoute(Property(p))
      PROVE  Routed(p)
    <2>1. Len(p) > 1 /\ p[1] = ZuulNode /\ p[2] = RoutesNode
        BY <1>3 DEF RoutesNested
    <2>2. ~Short(p) /\ Tail(p) \in Paths
        BY <1>1, <2>1, PathParts
    <2>3. p # <<>> /\ Tail(p) # <<>> /\ Tail(p) \in Seq(Names) /\ Len(Tail(p)) \in Nat
        BY <1>1, <2>2, LenProperties DEF Paths
    <2>4. Len(Tail(p)) > 0
        BY <2>3, EmptySeq
    <2>5. /\ \A i \in 1 .. Len(Tail(p)) : Tail(p)[i] = p[i + 1]
        BY <1>1, <2>3, HeadTailProperties
    <2>6. Tail(p)[1] = p[2]
        BY <2>3, <2>4, <2>5
    <2>7. Head(p) = p[1] /\ Head(Tail(p)) = Tail(p)[1]
        BY <1>1, <2>3
    <2>. QED  BY <2>1, <2>2, <2>6, <2>7 DEF Routed
<1>. QED  BY <1>1, <1>2, <1>3

-----------------------------------------------------------------------------
(* The lists among routes, handed out item by item.                        *)
ListDepth(l) ==
    (CHOOSE depth \in [Lists -> 0 .. MaxDepth] :
        \A m \in Lists : \A i \in DOMAIN ListItems[m] :
            IsMap(ListItems[m][i]) =>
                \A k \in Names : IsList(ListItems[m][i][k]) =>
                    depth[ListItems[m][i][k]] < depth[m])[l]

LEMMA ListsHaveDepth ==
    /\ \A l \in Lists : ListDepth(l) \in Nat
    /\ \A l \in Lists : \A i \in DOMAIN ListItems[l] :
            IsMap(ListItems[l][i]) =>
                \A k \in Names : IsList(ListItems[l][i][k]) =>
                    ListDepth(ListItems[l][i][k]) < ListDepth(l)
<1> DEFINE Lower(depth) ==
        \A m \in Lists : \A i \in DOMAIN ListItems[m] :
            IsMap(ListItems[m][i]) =>
                \A k \in Names : IsList(ListItems[m][i][k]) =>
                    depth[ListItems[m][i][k]] < depth[m]
           d == CHOOSE depth \in [Lists -> 0 .. MaxDepth] : Lower(depth)
<1>1. \E depth \in [Lists -> 0 .. MaxDepth] : Lower(depth)
    BY ListAssumption
<1>2. \A l : ListDepth(l) = d[l]
    BY DEF ListDepth
<1>. HIDE DEF Lower
<1>3. d \in [Lists -> 0 .. MaxDepth] /\ Lower(d)
    BY <1>1
<1>. HIDE DEF d
<1>. QED  BY <1>2, <1>3, TreeAssumption DEF Lower

ItemsBody(f, l) ==
    UNION {LET item == ListItems[l][i] IN
           IF IsMap(item)
           THEN UNION {Handed(Index(i) \o k, item[k], f[item[k]]) : k \in Keyed(item)}
           ELSE {<<Index(i), item>>} : i \in DOMAIN ListItems[l]}

PlacesBody(f, l) ==
    {<<step>> : step \in {s \in StepsFrom(l) : ~LeadsOn(l, s)}}
        \cup UNION {{<<step>> \o q : q \in f[Reached(l, step)]} :
                        step \in {s \in StepsFrom(l) : LeadsOn(l, s)}}

OnItems == INSTANCE Recursion WITH S <- Lists, Rank <- ListDepth, Body <- ItemsBody
OnPlaces == INSTANCE Recursion WITH S <- Lists, Rank <- ListDepth, Body <- PlacesBody

(* A step from a list, and what it is spelled as.                          *)
Spell(step) == Index(step[1]) \o (IF step[2] = NoKey THEN <<>> ELSE step[2])

LEMMA StepsTyped ==
    ASSUME NEW l \in Lists, NEW step
    PROVE  step \in StepsFrom(l) <=>
                \E i \in DOMAIN ListItems[l] :
                    \/ /\ ~IsMap(ListItems[l][i]) /\ step = <<i, NoKey>>
                    \/ /\ IsMap(ListItems[l][i])
                       /\ \E k \in Keyed(ListItems[l][i]) : step = <<i, k>>
<1> DEFINE At(i) == {i} \X (IF IsMap(ListItems[l][i]) THEN Keyed(ListItems[l][i]) ELSE {NoKey})
<1>1. StepsFrom(l) = UNION {At(i) : i \in DOMAIN ListItems[l]}
    BY DEF StepsFrom
<1>2. ASSUME NEW i
      PROVE  step \in At(i) <=>
                \/ /\ ~IsMap(ListItems[l][i]) /\ step = <<i, NoKey>>
                \/ /\ IsMap(ListItems[l][i])
                   /\ \E k \in Keyed(ListItems[l][i]) : step = <<i, k>>
    OBVIOUS
<1>. HIDE DEF At
<1>3. step \in StepsFrom(l) <=> \E i \in DOMAIN ListItems[l] : step \in At(i)
    BY <1>1
<1>. QED  BY <1>2, <1>3

LEMMA KeysAreNames == \A t : Keyed(t) \subseteq Names /\ NoKey \notin Keyed(t)
BY TreeAssumption DEF Keyed

LEMMA StepsLower ==
    ASSUME NEW l \in Lists, NEW step \in StepsFrom(l)
    PROVE  /\ step \in Steps
           /\ LeadsOn(l, step) => /\ Reached(l, step) \in Lists
                                  /\ ListDepth(Reached(l, step)) < ListDepth(l)
<1>0. DOMAIN ListItems[l] \subseteq Nat \ {0}
    <2>1. ListItems[l] \in Seq(Leaves \cup Trees)
        BY TreeAssumption DEF Lists
    <2>2. DOMAIN ListItems[l] = 1 .. Len(ListItems[l]) /\ Len(ListItems[l]) \in Nat
        BY <2>1, LenProperties
    <2>. QED  BY <2>2
<1>1. PICK i \in DOMAIN ListItems[l] :
            \/ /\ ~IsMap(ListItems[l][i]) /\ step = <<i, NoKey>>
            \/ /\ IsMap(ListItems[l][i])
               /\ \E k \in Keyed(ListItems[l][i]) : step = <<i, k>>
    BY StepsTyped
<1>2. CASE ~IsMap(ListItems[l][i]) /\ step = <<i, NoKey>>
    BY <1>0, <1>2 DEF Steps, LeadsOn
<1>3. CASE IsMap(ListItems[l][i]) /\ \E k \in Keyed(ListItems[l][i]) : step = <<i, k>>
    <2>1. PICK k \in Keyed(ListItems[l][i]) : step = <<i, k>>
        BY <1>3
    <2>2. k \in Names /\ k # NoKey
        BY KeysAreNames
    <2>3. step \in Steps
        BY <1>0, <2>1, <2>2 DEF Steps
    <2>4. Reached(l, step) = ListItems[l][i][k]
        BY <2>1, <2>2 DEF Reached
    <2>. QED  BY <1>3, <2>2, <2>3, <2>4, ListsHaveDepth DEF LeadsOn, IsList, Lists
<1>. QED  BY <1>1, <1>2, <1>3

LEMMA ItemsDefined == \A l \in Lists : itemsOf[l] = ItemsBody(itemsOf, l)
<1>1. OnItems!Ranked
    BY ListsHaveDepth DEF OnItems!Ranked
<1>2. ASSUME NEW l \in Lists, NEW g, NEW h,
             \A m \in Lists : ListDepth(m) < ListDepth(l) => g[m] = h[m]
      PROVE  ItemsBody(g, l) = ItemsBody(h, l)
    <2> DEFINE At(f, i) == LET item == ListItems[l][i] IN
               IF IsMap(item)
               THEN UNION {Handed(Index(i) \o k, item[k], f[item[k]]) : k \in Keyed(item)}
               ELSE {<<Index(i), item>>}
    <2>1. ASSUME NEW i \in DOMAIN ListItems[l]
          PROVE  At(g, i) = At(h, i)
        <3> DEFINE item == ListItems[l][i]
                   key(f, k) == Handed(Index(i) \o k, item[k], f[item[k]])
        <3>1. CASE IsMap(item)
            <4>1. ASSUME NEW k \in Keyed(item)
                  PROVE  key(g, k) = key(h, k)
                <5>1. k \in Names
                    BY KeysAreNames
                <5>2. IsList(item[k]) => item[k] \in Lists /\ ListDepth(item[k]) < ListDepth(l)
                    BY <3>1, <5>1, ListsHaveDepth DEF IsList, Lists
                <5>3. IsList(item[k]) => g[item[k]] = h[item[k]]
                    BY <1>2, <5>2
                <5>. QED  BY <5>3, Zenon DEF Handed
            <4>2. \A f : At(f, i) = UNION {key(f, k) : k \in Keyed(item)}
                BY <3>1
            <4>. HIDE DEF key
            <4>3. {key(g, k) : k \in Keyed(item)} = {key(h, k) : k \in Keyed(item)}
                BY <4>1
            <4>. QED  BY <4>2, <4>3
        <3>2. CASE ~IsMap(item)
            BY <3>2
        <3>. QED  BY <3>1, <3>2
    <2>2. \A f : ItemsBody(f, l) = UNION {At(f, i) : i \in DOMAIN ListItems[l]}
        BY DEF ItemsBody
    <2>. HIDE DEF At
    <2>3. {At(g, i) : i \in DOMAIN ListItems[l]} = {At(h, i) : i \in DOMAIN ListItems[l]}
        BY <2>1
    <2>. QED  BY <2>2, <2>3
<1>3. OnItems!FromBelow
    BY <1>2 DEF OnItems!FromBelow
<1>4. \E f : f = [l \in Lists |-> ItemsBody(f, l)]
    BY <1>1, <1>3, OnItems!Defined
<1>5. itemsOf = [l \in Lists |-> ItemsBody(itemsOf, l)]
    BY <1>4 DEF itemsOf, ItemsBody
<1>. QED  BY <1>5

LEMMA PlacesDefined == \A l \in Lists : placesIn[l] = PlacesBody(placesIn, l)
<1>1. OnPlaces!Ranked
    BY ListsHaveDepth DEF OnPlaces!Ranked
<1>2. ASSUME NEW l \in Lists, NEW g, NEW h,
             \A m \in Lists : ListDepth(m) < ListDepth(l) => g[m] = h[m]
      PROVE  PlacesBody(g, l) = PlacesBody(h, l)
    <2> DEFINE on == {s \in StepsFrom(l) : LeadsOn(l, s)}
               At(f, step) == {<<step>> \o q : q \in f[Reached(l, step)]}
    <2>1. \A step \in on : g[Reached(l, step)] = h[Reached(l, step)]
        BY <1>2, StepsLower
    <2>2. \A step \in on : At(g, step) = At(h, step)
        BY <2>1
    <2>3. \A f : PlacesBody(f, l) = {<<step>> : step \in {s \in StepsFrom(l) : ~LeadsOn(l, s)}}
                                        \cup UNION {At(f, step) : step \in on}
        BY DEF PlacesBody
    <2>. HIDE DEF At, on
    <2>4. {At(g, step) : step \in on} = {At(h, step) : step \in on}
        BY <2>2
    <2>. QED  BY <2>3, <2>4
<1>3. OnPlaces!FromBelow
    BY <1>2 DEF OnPlaces!FromBelow
<1>4. \E f : f = [l \in Lists |-> PlacesBody(f, l)]
    BY <1>1, <1>3, OnPlaces!Defined
<1>5. placesIn = [l \in Lists |-> PlacesBody(placesIn, l)]
    BY <1>4 DEF placesIn, PlacesBody
<1>. QED  BY <1>5

(* The values and the spelling of places, by their first step.             *)
ValueBody(f, x) ==
    LET v == Reached(x[1], Head(x[2]))
    IN  IF IsList(v) /\ Len(x[2]) > 1 THEN f[<<v, Tail(x[2])>>] ELSE v

SpellingBody(f, q) ==
    IF q = <<>> THEN <<>>
    ELSE Index(Head(q)[1]) \o (IF Head(q)[2] = NoKey THEN <<>> ELSE Head(q)[2])
            \o f[Tail(q)]

StepsLeft(x) == Len(x[2])

OnValues == INSTANCE Recursion
                WITH S <- Lists \X Seq(Steps), Rank <- StepsLeft, Body <- ValueBody
OnSteps == INSTANCE Recursion WITH S <- Seq(Steps), Rank <- Length, Body <- SpellingBody

LEMMA ValueDefined ==
    \A l \in Lists, q \in Seq(Steps) : valueAt[<<l, q>>] = ValueBody(valueAt, <<l, q>>)
<1>1. OnValues!Ranked
    BY LenProperties DEF OnValues!Ranked, StepsLeft
<1>2. ASSUME NEW x \in Lists \X Seq(Steps), NEW g, NEW h,
             \A y \in Lists \X Seq(Steps) : StepsLeft(y) < StepsLeft(x) => g[y] = h[y]
      PROVE  ValueBody(g, x) = ValueBody(h, x)
    <2> DEFINE v == Reached(x[1], Head(x[2]))
    <2>1. CASE IsList(v) /\ Len(x[2]) > 1
        <3>1. x[2] \in Seq(Steps) /\ x[2] # <<>>
            BY <2>1
        <3>2. Tail(x[2]) \in Seq(Steps) /\ Len(Tail(x[2])) = Len(x[2]) - 1 /\ Len(x[2]) \in Nat
            BY <3>1, HeadTailProperties, LenProperties
        <3>3. v \in Lists
            BY <2>1 DEF IsList, Lists
        <3>. HIDE DEF v
        <3>4. <<v, Tail(x[2])>> \in Lists \X Seq(Steps)
              /\ StepsLeft(<<v, Tail(x[2])>>) < StepsLeft(x)
            BY <3>2, <3>3 DEF StepsLeft
        <3>5. g[<<v, Tail(x[2])>>] = h[<<v, Tail(x[2])>>]
            BY <1>2, <3>4
        <3>. QED  BY <3>5 DEF ValueBody, v
    <2>. QED  BY <2>1 DEF ValueBody
<1>3. OnValues!FromBelow
    BY <1>2 DEF OnValues!FromBelow
<1>4. \E f : f = [x \in Lists \X Seq(Steps) |-> ValueBody(f, x)]
    BY <1>1, <1>3, OnValues!Defined
<1>5. valueAt = [x \in Lists \X Seq(Steps) |-> ValueBody(valueAt, x)]
    BY <1>4 DEF valueAt, ValueBody
<1>. QED  BY <1>5

LEMMA SpellingDefined == \A q \in Seq(Steps) : spelling[q] = SpellingBody(spelling, q)
<1>1. OnSteps!Ranked
    BY LenProperties DEF OnSteps!Ranked, Length
<1>2. ASSUME NEW q \in Seq(Steps), NEW g, NEW h,
             \A r \in Seq(Steps) : Length(r) < Length(q) => g[r] = h[r]
      PROVE  SpellingBody(g, q) = SpellingBody(h, q)
    <2>1. CASE q # <<>>
        <3>1. Tail(q) \in Seq(Steps) /\ Len(Tail(q)) < Len(q)
            BY <2>1, HeadTailProperties, LenProperties
        <3>. QED  BY <1>2, <3>1 DEF SpellingBody, Length
    <2>. QED  BY <2>1 DEF SpellingBody
<1>3. OnSteps!FromBelow
    BY <1>2 DEF OnSteps!FromBelow
<1>4. \E f : f = [q \in Seq(Steps) |-> SpellingBody(f, q)]
    BY <1>1, <1>3, OnSteps!Defined
<1>5. spelling = [q \in Seq(Steps) |-> SpellingBody(spelling, q)]
    BY <1>4 DEF spelling, SpellingBody
<1>. QED  BY <1>5

(* The words of properties in which items are counted.                     *)
Word == STRING \cup {"[]"} \cup {ToString(i - 1) : i \in Nat \ {0}}

LEMMA IndexTyped == \A i \in Nat \ {0} : Index(i) \in Seq(Word)
<1> SUFFICES ASSUME NEW i \in Nat \ {0} PROVE Index(i) \in Seq(Word)
    OBVIOUS
<1>1. "[]" \in Word /\ ToString(i - 1) \in Word
    BY Zenon DEF Word
<1>. HIDE DEF Word
<1>. QED  BY <1>1, ShortSequences, Zenon DEF Index

LEMMA WordsTyped == Words \subseteq Seq(Word)
<1> SUFFICES ASSUME NEW p \in Words PROVE p \in Seq(Word)
    OBVIOUS
<1>1. p \in Seq(STRING)
    BY DEF Words
<1>2. STRING \subseteq Word
    BY Zenon DEF Word
<1>. HIDE DEF Word
<1>3. \A j \in 1 .. Len(p) : p[j] \in Word
    BY <1>1, <1>2, ElementOfSeq
<1>. QED  BY <1>1, <1>3, IsASeq, LenProperties

LEMMA SpellTyped == \A step \in Steps : Spell(step) \in Seq(Word)
<1> SUFFICES ASSUME NEW step \in Steps PROVE Spell(step) \in Seq(Word)
    OBVIOUS
<1>1. step[1] \in Nat \ {0} /\ step[2] \in Names \cup {NoKey}
    BY DEF Steps
<1>2. Names \subseteq Seq(Word)
    BY NameAssumption, WordsTyped DEF Words
<1>3. Index(step[1]) \in Seq(Word) /\ <<>> \in Seq(Word)
    BY <1>1, IndexTyped
<1>. QED  BY <1>1, <1>2, <1>3, ConcatProperties DEF Spell

LEMMA OneStep ==
    ASSUME NEW step \in Steps, NEW q \in Seq(Steps)
    PROVE  /\ <<step>> \in Seq(Steps) /\ <<step>> # <<>> /\ Head(<<step>>) = step
           /\ Tail(<<step>>) = <<>> /\ Len(<<step>>) = 1
           /\ <<step>> \o q \in Seq(Steps) /\ <<step>> \o q # <<>>
           /\ Head(<<step>> \o q) = step /\ Tail(<<step>> \o q) = q
           /\ Len(<<step>> \o q) = Len(q) + 1
<1> DEFINE s == <<step>> \o q
<1>1. <<step>> \in Seq(Steps) /\ Len(<<step>>) = 1 /\ Len(q) \in Nat
    BY LenProperties
<1>2. /\ s \in Seq(Steps) /\ Len(s) = 1 + Len(q)
      /\ \A i \in 1 .. 1 + Len(q) : s[i] = IF i <= 1 THEN <<step>>[i] ELSE q[i - 1]
    BY <1>1, ConcatProperties
<1>. HIDE DEF s
<1>3. s # <<>> /\ Head(s) = step
    BY <1>1, <1>2
<1>4. /\ Tail(s) \in Seq(Steps) /\ Len(Tail(s)) = Len(q)
      /\ \A i \in 1 .. Len(q) : Tail(s)[i] = s[i + 1]
    BY <1>1, <1>2, <1>3, HeadTailProperties
<1>5. \A i \in 1 .. Len(q) : Tail(s)[i] = q[i]
    BY <1>1, <1>2, <1>4
<1>6. Tail(s) = q
    BY <1>4, <1>5, SeqEqual
<1>. QED  BY <1>1, <1>2, <1>3, <1>6 DEF s

LEMMA ByFirstStep ==
    ASSUME NEW q \in Seq(Steps), q # <<>>
    PROVE  /\ spelling[q] = Spell(Head(q)) \o spelling[Tail(q)]
           /\ \A l \in Lists : valueAt[<<l, q>>] =
                IF IsList(Reached(l, Head(q))) /\ Len(q) > 1
                THEN valueAt[<<Reached(l, Head(q)), Tail(q)>>] ELSE Reached(l, Head(q))
<1>1. spelling[q] = SpellingBody(spelling, q)
    BY SpellingDefined
<1>2. spelling[q] = Spell(Head(q)) \o spelling[Tail(q)]
    BY <1>1 DEF SpellingBody, Spell
<1>3. ASSUME NEW l \in Lists
      PROVE  valueAt[<<l, q>>] =
                IF IsList(Reached(l, Head(q))) /\ Len(q) > 1
                THEN valueAt[<<Reached(l, Head(q)), Tail(q)>>] ELSE Reached(l, Head(q))
    <2>1. valueAt[<<l, q>>] = ValueBody(valueAt, <<l, q>>)
        BY ValueDefined
    <2>2. <<l, q>>[1] = l /\ <<l, q>>[2] = q
        OBVIOUS
    <2>. QED  BY <2>1, <2>2 DEF ValueBody
<1>. QED  BY <1>2, <1>3

(* Steps are spelled one after the other, and lead to what they reach.     *)
LEMMA ByStep ==
    ASSUME NEW l \in Lists, NEW step \in Steps
    PROVE  /\ spelling[<<step>>] = Spell(step) /\ valueAt[<<l, <<step>>>>] = Reached(l, step)
           /\ \A q \in Seq(Steps) :
                /\ spelling[<<step>> \o q] = Spell(step) \o spelling[q]
                /\ q # <<>> /\ IsList(Reached(l, step)) =>
                    valueAt[<<l, <<step>> \o q>>] = valueAt[<<Reached(l, step), q>>]
<1>1. <<>> \in Seq(Steps) /\ spelling[<<>>] = <<>>
    <2>1. <<>> \in Seq(Steps)
        OBVIOUS
    <2>. QED  BY <2>1, SpellingDefined DEF SpellingBody
<1>2. spelling[<<step>>] = Spell(step) /\ valueAt[<<l, <<step>>>>] = Reached(l, step)
    <2> DEFINE s == <<step>>
    <2>1. s \in Seq(Steps) /\ s # <<>> /\ Head(s) = step /\ Tail(s) = <<>> /\ Len(s) = 1
        BY <1>1, OneStep
    <2>. HIDE DEF s
    <2>2. spelling[s] = Spell(step) \o <<>>
        BY <1>1, <2>1, ByFirstStep
    <2>3. valueAt[<<l, s>>] = Reached(l, step)
        <3>1. ~(Len(s) > 1)
            BY <2>1
        <3>2. valueAt[<<l, s>>] =
                IF IsList(Reached(l, step)) /\ Len(s) > 1
                THEN valueAt[<<Reached(l, step), Tail(s)>>] ELSE Reached(l, step)
            BY <2>1, ByFirstStep, Zenon
        <3>. QED  BY <3>1, <3>2
    <2>. QED  BY <2>2, <2>3, SpellTyped, ConcatEmptySeq DEF s
<1>3. ASSUME NEW q \in Seq(Steps)
      PROVE  /\ spelling[<<step>> \o q] = Spell(step) \o spelling[q]
             /\ q # <<>> /\ IsList(Reached(l, step)) =>
                    valueAt[<<l, <<step>> \o q>>] = valueAt[<<Reached(l, step), q>>]
    <2> DEFINE s == <<step>> \o q
    <2>1. s \in Seq(Steps) /\ s # <<>> /\ Head(s) = step /\ Tail(s) = q /\ Len(s) = Len(q) + 1
        BY OneStep
    <2>. HIDE DEF s
    <2>2. q # <<>> => Len(s) > 1
        <3>1. Len(q) \in Nat /\ (q # <<>> => Len(q) # 0)
            BY LenProperties, EmptySeq
        <3>. QED  BY <2>1, <3>1
    <2>. QED  BY <2>1, <2>2, ByFirstStep DEF s
<1>. QED  BY <1>2, <1>3

(* What a list is handed out as, step by step.                             *)
LEMMA ItemsByStep ==
    ASSUME NEW l \in Lists, NEW e
    PROVE  e \in itemsOf[l] <=>
            \E step \in StepsFrom(l) :
                \/ ~LeadsOn(l, step) /\ e = <<Spell(step), Reached(l, step)>>
                \/ /\ LeadsOn(l, step)
                   /\ \E u \in itemsOf[Reached(l, step)] : e = <<Spell(step) \o u[1], u[2]>>
<1> DEFINE item(i) == ListItems[l][i]
           key(i, k) == Handed(Index(i) \o k, item(i)[k], itemsOf[item(i)[k]])
           At(i) == IF IsMap(item(i)) THEN UNION {key(i, k) : k \in Keyed(item(i))}
                    ELSE {<<Index(i), item(i)>>}
           Is(step) == \/ ~LeadsOn(l, step) /\ e = <<Spell(step), Reached(l, step)>>
                       \/ /\ LeadsOn(l, step)
                          /\ \E u \in itemsOf[Reached(l, step)] :
                                e = <<Spell(step) \o u[1], u[2]>>
<1>1. itemsOf[l] = UNION {At(i) : i \in DOMAIN ListItems[l]}
    BY ItemsDefined DEF ItemsBody
<1>2. ASSUME NEW i \in DOMAIN ListItems[l], ~IsMap(item(i))
      PROVE  e \in At(i) <=> Is(<<i, NoKey>>)
    <2>1. Spell(<<i, NoKey>>) = Index(i)
        <3>1. i \in Nat \ {0}
            <4>1. <<i, NoKey>> \in StepsFrom(l)
                BY <1>2, StepsTyped
            <4>. QED  BY <4>1, StepsLower DEF Steps
        <3>2. Spell(<<i, NoKey>>) = Index(i) \o <<>>
            BY DEF Spell
        <3>. QED  BY <3>1, <3>2, IndexTyped, ConcatEmptySeq
    <2>2. Reached(l, <<i, NoKey>>) = item(i) /\ ~LeadsOn(l, <<i, NoKey>>)
        BY DEF Reached, LeadsOn
    <2>. QED  BY <1>2, <2>1, <2>2
<1>3. ASSUME NEW i \in DOMAIN ListItems[l], IsMap(item(i)), NEW k \in Keyed(item(i))
      PROVE  e \in key(i, k) <=> Is(<<i, k>>)
    <2>1. k # NoKey
        BY KeysAreNames
    <2>2. Spell(<<i, k>>) = Index(i) \o k /\ Reached(l, <<i, k>>) = item(i)[k]
        BY <2>1 DEF Spell, Reached
    <2>3. LeadsOn(l, <<i, k>>) <=> IsList(item(i)[k])
        BY <2>1, <2>2 DEF LeadsOn
    <2>. HIDE DEF item
    <2>. QED  BY <2>2, <2>3 DEF Handed
<1>. HIDE DEF key, Is
<1>4. ASSUME NEW i \in DOMAIN ListItems[l], e \in At(i)
      PROVE  \E step \in StepsFrom(l) : Is(step)
    <2>1. CASE IsMap(item(i))
        <3>1. PICK k \in Keyed(item(i)) : e \in key(i, k)
            BY <1>4, <2>1
        <3>2. <<i, k>> \in StepsFrom(l)
            BY <2>1, StepsTyped
        <3>. QED  BY <1>3, <2>1, <3>1, <3>2
    <2>2. CASE ~IsMap(item(i))
        <3>1. <<i, NoKey>> \in StepsFrom(l)
            BY <2>2, StepsTyped
        <3>. QED  BY <1>2, <1>4, <2>2, <3>1
    <2>. QED  BY <2>1, <2>2
<1>5. ASSUME NEW step \in StepsFrom(l), Is(step)
      PROVE  \E i \in DOMAIN ListItems[l] : e \in At(i)
    <2>1. PICK i \in DOMAIN ListItems[l] :
                \/ /\ ~IsMap(item(i)) /\ step = <<i, NoKey>>
                \/ /\ IsMap(item(i)) /\ \E k \in Keyed(item(i)) : step = <<i, k>>
        BY StepsTyped
    <2>2. CASE ~IsMap(item(i)) /\ step = <<i, NoKey>>
        BY <1>2, <1>5, <2>2
    <2>3. CASE IsMap(item(i)) /\ \E k \in Keyed(item(i)) : step = <<i, k>>
        <3>1. PICK k \in Keyed(item(i)) : step = <<i, k>>
            BY <2>3
        <3>2. e \in key(i, k)
            BY <1>3, <1>5, <2>3, <3>1
        <3>. QED  BY <2>3, <3>2
    <2>. QED  BY <2>1, <2>2, <2>3
<1>. HIDE DEF At
<1>6. e \in itemsOf[l] <=> \E step \in StepsFrom(l) : Is(step)
    BY <1>1, <1>4, <1>5
<1>. QED  BY <1>6 DEF Is

Begun(l, step, q) ==
    \/ ~LeadsOn(l, step) /\ q = <<step>>
    \/ LeadsOn(l, step) /\ \E r \in placesIn[Reached(l, step)] : q = <<step>> \o r

LEMMA PlacesByStep ==
    ASSUME NEW l \in Lists, NEW q
    PROVE  q \in placesIn[l] <=> \E step \in StepsFrom(l) : Begun(l, step, q)
<1> DEFINE On(step) == {<<step>> \o r : r \in placesIn[Reached(l, step)]}
           ends == {<<step>> : step \in {s \in StepsFrom(l) : ~LeadsOn(l, s)}}
           ons == UNION {On(step) : step \in {s \in StepsFrom(l) : LeadsOn(l, s)}}
<1>1. placesIn[l] = ends \cup ons
    BY PlacesDefined DEF PlacesBody
<1>2. q \in ends <=> \E step \in StepsFrom(l) : ~LeadsOn(l, step) /\ q = <<step>>
    OBVIOUS
<1>3. \A step : q \in On(step) <=> \E r \in placesIn[Reached(l, step)] : q = <<step>> \o r
    OBVIOUS
<1>. HIDE DEF On
<1>4. q \in ons <=> \E step \in StepsFrom(l) : LeadsOn(l, step) /\ q \in On(step)
    OBVIOUS
<1>. HIDE DEF ends, ons
<1>. QED  BY <1>1, <1>2, <1>3, <1>4 DEF Begun

LEMMA PlacesTyped == \A l \in Lists : placesIn[l] \subseteq Seq(Steps) \ {<<>>}
<1> DEFINE T == {n \in Nat : \A l \in Lists : ListDepth(l) < n =>
                                placesIn[l] \subseteq Seq(Steps) \ {<<>>}}
<1>1. 0 \in T
    BY ListsHaveDepth
<1>2. ASSUME NEW n \in Nat, n \in T
      PROVE  n + 1 \in T
    <2> SUFFICES ASSUME NEW l \in Lists, ListDepth(l) < n + 1, NEW q \in placesIn[l]
                 PROVE  q \in Seq(Steps) /\ q # <<>>
        OBVIOUS
    <2>1. PICK step \in StepsFrom(l) : Begun(l, step, q)
        BY PlacesByStep
    <2>2. step \in Steps /\ <<>> \in Seq(Steps)
        BY StepsLower
    <2>3. CASE ~LeadsOn(l, step) /\ q = <<step>>
        BY <2>2, <2>3, OneStep
    <2>4. CASE LeadsOn(l, step) /\ \E r \in placesIn[Reached(l, step)] : q = <<step>> \o r
        <3>1. PICK r \in placesIn[Reached(l, step)] : q = <<step>> \o r
            BY <2>4
        <3>2. Reached(l, step) \in Lists /\ ListDepth(Reached(l, step)) < n
            <4>1. Reached(l, step) \in Lists /\ ListDepth(Reached(l, step)) < ListDepth(l)
                BY <2>4, StepsLower
            <4>2. ListDepth(Reached(l, step)) \in Nat /\ ListDepth(l) \in Nat
                BY <4>1, ListsHaveDepth
            <4>. QED  BY <4>1, <4>2
        <3>3. r \in Seq(Steps)
            BY <1>2, <3>1, <3>2
        <3>. QED  BY <2>2, <3>1, <3>3, OneStep
    <2>. QED  BY <2>1, <2>3, <2>4 DEF Begun
<1>. HIDE DEF T
<1>3. Nat \subseteq T
    BY <1>1, <1>2, OnNames!Induction
<1>4. ASSUME NEW l \in Lists
      PROVE  placesIn[l] \subseteq Seq(Steps) \ {<<>>}
    <2>1. ListDepth(l) \in Nat
        BY ListsHaveDepth
    <2>2. ListDepth(l) + 1 \in T /\ ListDepth(l) < ListDepth(l) + 1
        BY <1>3, <2>1
    <2>. QED  BY <2>2 DEF T
<1>. QED  BY <1>4

LEMMA SpellingTyped == \A q \in Seq(Steps) : spelling[q] \in Seq(Word)
<1> DEFINE T == {n \in Nat : \A q \in Seq(Steps) : Len(q) = n => spelling[q] \in Seq(Word)}
<1>1. 0 \in T
    <2>1. ASSUME NEW q \in Seq(Steps), Len(q) = 0
          PROVE  spelling[q] \in Seq(Word)
        <3>1. q = <<>>
            BY <2>1, EmptySeq
        <3>2. spelling[q] = <<>>
            BY <3>1, SpellingDefined DEF SpellingBody
        <3>. QED  BY <3>2
    <2>. QED  BY <2>1
<1>2. ASSUME NEW n \in Nat, n \in T
      PROVE  n + 1 \in T
    <2> SUFFICES ASSUME NEW q \in Seq(Steps), Len(q) = n + 1
                 PROVE  spelling[q] \in Seq(Word)
        OBVIOUS
    <2>1. q # <<>>
        BY EmptySeq
    <2>2. Tail(q) \in Seq(Steps) /\ Len(Tail(q)) = n /\ Head(q) \in Steps
        BY <2>1, HeadTailProperties
    <2>3. spelling[Tail(q)] \in Seq(Word) /\ Spell(Head(q)) \in Seq(Word)
        BY <1>2, <2>2, SpellTyped
    <2>4. Spell(Head(q)) \o spelling[Tail(q)] \in Seq(Word)
        BY <2>3, ConcatProperties
    <2>. QED  BY <2>1, <2>4, ByFirstStep
<1>. HIDE DEF T
<1>3. Nat \subseteq T
    BY <1>1, <1>2, OnNames!Induction
<1>. QED  BY <1>3, LenProperties DEF T

(* A list is handed out as its values, place by place.                     *)
PlaceEntry(l, q) == <<spelling[q], valueAt[<<l, q>>]>>

LEMMA PlaceOn ==
    ASSUME NEW l \in Lists, NEW step \in StepsFrom(l), LeadsOn(l, step),
           NEW r \in Seq(Steps), r # <<>>
    PROVE  PlaceEntry(l, <<step>> \o r)
                = <<Spell(step) \o spelling[r], valueAt[<<Reached(l, step), r>>]>>
<1> DEFINE s == <<step>> \o r
<1>1. step \in Steps /\ IsList(Reached(l, step))
    BY StepsLower DEF LeadsOn
<1>2. /\ spelling[s] = Spell(step) \o spelling[r]
      /\ valueAt[<<l, s>>] = valueAt[<<Reached(l, step), r>>]
    BY <1>1, ByStep
<1>. HIDE DEF s
<1>3. PlaceEntry(l, s) = <<Spell(step) \o spelling[r], valueAt[<<Reached(l, step), r>>]>>
    BY <1>2 DEF PlaceEntry
<1>. QED  BY <1>3 DEF s

LEMMA ItemsArePlaces ==
    \A l \in Lists : \A e : e \in itemsOf[l] <=> \E q \in placesIn[l] : e = PlaceEntry(l, q)
<1> DEFINE OK(l) == \A e : e \in itemsOf[l] <=> \E q \in placesIn[l] : e = PlaceEntry(l, q)
           T == {n \in Nat : \A l \in Lists : ListDepth(l) < n => OK(l)}
<1>1. 0 \in T
    <2>. HIDE DEF OK
    <2>. QED  BY ListsHaveDepth
<1>2. ASSUME NEW n \in Nat, n \in T
      PROVE  n + 1 \in T
    <2> SUFFICES ASSUME NEW l \in Lists, ListDepth(l) < n + 1
                 PROVE  OK(l)
        OBVIOUS
    <2>0. ASSUME NEW step \in StepsFrom(l), LeadsOn(l, step)
          PROVE  Reached(l, step) \in Lists /\ IsList(Reached(l, step)) /\ OK(Reached(l, step))
        <3>1. Reached(l, step) \in Lists /\ ListDepth(Reached(l, step)) < ListDepth(l)
            BY <2>0, StepsLower
        <3>2. ListDepth(Reached(l, step)) \in Nat /\ ListDepth(l) \in Nat
            BY <3>1, ListsHaveDepth
        <3>3. ListDepth(Reached(l, step)) < n
            BY <3>1, <3>2
        <3>. HIDE DEF OK
        <3>. QED  BY <1>2, <3>1, <3>3 DEF IsList, Lists
    <2>1. ASSUME NEW e, NEW step \in StepsFrom(l), ~LeadsOn(l, step),
                 e = <<Spell(step), Reached(l, step)>>
          PROVE  \E q \in placesIn[l] : e = PlaceEntry(l, q)
        <3>1. <<step>> \in placesIn[l]
            BY <2>1, PlacesByStep DEF Begun
        <3>2. PlaceEntry(l, <<step>>) = e
            BY <2>1, StepsLower, ByStep DEF PlaceEntry
        <3>. QED  BY <3>1, <3>2
    <2>2. ASSUME NEW e, NEW step \in StepsFrom(l), LeadsOn(l, step),
                 NEW u \in itemsOf[Reached(l, step)], e = <<Spell(step) \o u[1], u[2]>>
          PROVE  \E q \in placesIn[l] : e = PlaceEntry(l, q)
        <3>1. PICK r \in placesIn[Reached(l, step)] : u = PlaceEntry(Reached(l, step), r)
            BY <2>0, <2>2
        <3>2. r \in Seq(Steps) /\ r # <<>>
            BY <2>0, <2>2, PlacesTyped
        <3>3. <<step>> \o r \in placesIn[l]
            BY <2>2, PlacesByStep DEF Begun
        <3>4. u[1] = spelling[r] /\ u[2] = valueAt[<<Reached(l, step), r>>]
            BY <3>1 DEF PlaceEntry
        <3>5. PlaceEntry(l, <<step>> \o r) = e
            <4>1. PlaceEntry(l, <<step>> \o r)
                    = <<Spell(step) \o spelling[r], valueAt[<<Reached(l, step), r>>]>>
                BY <2>0, <2>2, <3>2, PlaceOn
            <4>. QED  BY <2>2, <3>4, <4>1
        <3>. QED  BY <3>3, <3>5
    <2>3. ASSUME NEW e, NEW q \in placesIn[l], e = PlaceEntry(l, q)
          PROVE  e \in itemsOf[l]
        <3>1. PICK step \in StepsFrom(l) : Begun(l, step, q)
            BY <2>3, PlacesByStep
        <3>2. CASE ~LeadsOn(l, step) /\ q = <<step>>
            <4>1. e = <<Spell(step), Reached(l, step)>>
                BY <2>3, <3>2, StepsLower, ByStep DEF PlaceEntry
            <4>. QED  BY <3>2, <4>1, ItemsByStep
        <3>3. CASE LeadsOn(l, step) /\ \E r \in placesIn[Reached(l, step)] : q = <<step>> \o r
            <4>1. PICK r \in placesIn[Reached(l, step)] : q = <<step>> \o r
                BY <3>3
            <4>2. r \in Seq(Steps) /\ r # <<>>
                BY <2>0, <3>3, <4>1, PlacesTyped
            <4> DEFINE u == PlaceEntry(Reached(l, step), r)
            <4>3. u \in itemsOf[Reached(l, step)]
                BY <2>0, <3>3, <4>1
            <4>4. u[1] = spelling[r] /\ u[2] = valueAt[<<Reached(l, step), r>>]
                BY DEF PlaceEntry
            <4>. HIDE DEF u
            <4>5. e = <<Spell(step) \o u[1], u[2]>>
                <5>1. PlaceEntry(l, <<step>> \o r)
                        = <<Spell(step) \o spelling[r], valueAt[<<Reached(l, step), r>>]>>
                    BY <3>3, <4>2, PlaceOn
                <5>. QED  BY <2>3, <4>1, <4>4, <5>1
            <4>. QED  BY <3>3, <4>3, <4>5, ItemsByStep
        <3>. QED  BY <3>1, <3>2, <3>3 DEF Begun
    <2>4. ASSUME NEW e, e \in itemsOf[l]
          PROVE  \E q \in placesIn[l] : e = PlaceEntry(l, q)
        <3>1. PICK step \in StepsFrom(l) :
                \/ ~LeadsOn(l, step) /\ e = <<Spell(step), Reached(l, step)>>
                \/ /\ LeadsOn(l, step)
                   /\ \E u \in itemsOf[Reached(l, step)] : e = <<Spell(step) \o u[1], u[2]>>
            BY <2>4, ItemsByStep
        <3>. QED  BY <2>1, <2>2, <3>1
    <2>. QED  BY <2>3, <2>4
<1>. HIDE DEF T, OK
<1>3. Nat \subseteq T
    BY <1>1, <1>2, OnNames!Induction
<1>4. ASSUME NEW l \in Lists
      PROVE  OK(l)
    <2>1. ListDepth(l) \in Nat
        BY ListsHaveDepth
    <2>2. ListDepth(l) + 1 \in T /\ ListDepth(l) < ListDepth(l) + 1
        BY <1>3, <2>1
    <2>. QED  BY <2>2 DEF T
<1>. QED  BY <1>4 DEF OK

(* What goes on after a property of a route is one.                        *)
LEMMA AfterRoute ==
    ASSUME NEW p \in Words, Begins(p), NEW s \in Seq(Word)
    PROVE  Begins(p \o s)
<1>1. p \in Seq(Word) /\ Len(p) \in Nat /\ Len(s) \in Nat
    BY WordsTyped, LenProperties
<1> DEFINE x == p \o s
<1>2. /\ Len(x) = Len(p) + Len(s)
      /\ \A j \in 1 .. Len(p) + Len(s) : x[j] = IF j <= Len(p) THEN p[j] ELSE s[j - Len(p)]
    BY <1>1, ConcatProperties
<1>. HIDE DEF x
<1>3. Len(p) > 1 /\ p[1] = "zuul" /\ p[2] = "routes"
    BY DEF Begins
<1>4. /\ 1 \in 1 .. Len(p) + Len(s) /\ 2 \in 1 .. Len(p) + Len(s) /\ 1 <= Len(p) /\ 2 <= Len(p)
      /\ Len(p) + Len(s) > 1
    BY <1>1, <1>3
<1>. QED  BY <1>2, <1>3, <1>4 DEF Begins, x

(* What the map of zuul-route comes to: the values, but of lists those at  *)
(* every place.                                                            *)
Listed(t) == {p \in Valued(t) : IsList(NodeAt(t, p))}

RouteEntries(t) ==
    {<<Property(p), NodeAt(t, p)>> : p \in Valued(t) \ Listed(t)}
        \cup UNION {{<<Property(p) \o spelling[q], valueAt[<<NodeAt(t, p), q>>]>> :
                        q \in placesIn[NodeAt(t, p)]} : p \in Listed(t)}

(* An entry is that of a path.                                             *)
EntryOf(t, p, e) ==
    \/ ~IsList(NodeAt(t, p)) /\ e = <<Property(p), NodeAt(t, p)>>
    \/ /\ IsList(NodeAt(t, p))
       /\ \E q \in placesIn[NodeAt(t, p)] :
            e = <<Property(p) \o spelling[q], valueAt[<<NodeAt(t, p), q>>]>>

LEMMA RouteEntry ==
    ASSUME NEW t, NEW e
    PROVE  e \in RouteEntries(t) <=> \E p \in Valued(t) : EntryOf(t, p, e)
<1> DEFINE At(p) == {<<Property(p) \o spelling[q], valueAt[<<NodeAt(t, p), q>>]>> :
                        q \in placesIn[NodeAt(t, p)]}
           ends == {<<Property(p), NodeAt(t, p)>> : p \in Valued(t) \ Listed(t)}
           ons == UNION {At(p) : p \in Listed(t)}
<1>1. RouteEntries(t) = ends \cup ons
    BY DEF RouteEntries
<1>2. e \in ends <=> \E p \in Valued(t) : ~IsList(NodeAt(t, p)) /\ e = <<Property(p), NodeAt(t, p)>>
    BY DEF Listed
<1>3. \A p : e \in At(p) <=> \E q \in placesIn[NodeAt(t, p)] :
                        e = <<Property(p) \o spelling[q], valueAt[<<NodeAt(t, p), q>>]>>
    OBVIOUS
<1>. HIDE DEF At
<1>4. e \in ons <=> \E p \in Valued(t) : IsList(NodeAt(t, p)) /\ e \in At(p)
    BY DEF Listed
<1>. HIDE DEF ends, ons
<1>. QED  BY <1>1, <1>2, <1>3, <1>4 DEF EntryOf

(* Handing out a list leaves the values at its places.                     *)
Placed(l, x, e) == \E q \in placesIn[l] : e = <<x \o spelling[q], valueAt[<<l, q>>]>>

LEMMA HandedByPlace ==
    ASSUME NEW l, IsList(l), NEW x, NEW e
    PROVE  e \in Handed(x, l, itemsOf[l]) <=> Placed(l, x, e)
<1>1. l \in Lists
    BY DEF IsList, Lists
<1>2. e \in Handed(x, l, itemsOf[l]) <=> \E u \in itemsOf[l] : e = <<x \o u[1], u[2]>>
    BY DEF Handed
<1>3. ASSUME NEW q
      PROVE  PlaceEntry(l, q)[1] = spelling[q] /\ PlaceEntry(l, q)[2] = valueAt[<<l, q>>]
    BY DEF PlaceEntry
<1>4. ASSUME NEW u \in itemsOf[l], e = <<x \o u[1], u[2]>>
      PROVE  \E q \in placesIn[l] : e = <<x \o spelling[q], valueAt[<<l, q>>]>>
    <2>1. PICK q \in placesIn[l] : u = PlaceEntry(l, q)
        BY <1>1, ItemsArePlaces
    <2>. QED  BY <1>3, <1>4, <2>1
<1>5. ASSUME NEW q \in placesIn[l], e = <<x \o spelling[q], valueAt[<<l, q>>]>>
      PROVE  \E u \in itemsOf[l] : e = <<x \o u[1], u[2]>>
    <2>1. PlaceEntry(l, q) \in itemsOf[l]
        BY <1>1, ItemsArePlaces
    <2>. QED  BY <1>3, <1>5, <2>1
<1>. QED  BY <1>2, <1>4, <1>5 DEF Placed

(* Handing out a flat map leaves its values and the items of its lists.    *)
LEMMA HandedOut ==
    ASSUME NEW t \in Trees, NEW flat,
           DOMAIN flat = {Property(p) : p \in Valued(t)},
           \A p \in Valued(t) : flat[Property(p)] = NodeAt(t, p)
    PROVE  processZuulRoot(flat) = RouteEntries(t)
<1> DEFINE At(x) == Handed(x, flat[x], itemsOf[flat[x]])
<1>1. processZuulRoot(flat) = UNION {At(x) : x \in DOMAIN flat}
    BY DEF processZuulRoot
<1>2. ASSUME NEW e, NEW p \in Valued(t)
      PROVE  e \in At(Property(p)) <=> EntryOf(t, p, e)
    <2> DEFINE l == NodeAt(t, p)
    <2>1. At(Property(p)) = Handed(Property(p), l, itemsOf[l])
        OBVIOUS
    <2>. HIDE DEF l, At
    <2>2. CASE ~IsList(l)
        BY <2>1, <2>2 DEF Handed, EntryOf, l
    <2>3. CASE IsList(l)
        <3>1. e \in At(Property(p)) <=> Placed(l, Property(p), e)
            BY <2>1, <2>3, HandedByPlace
        <3>. QED  BY <2>3, <3>1 DEF EntryOf, Placed, l
    <2>. QED  BY <2>2, <2>3 DEF l
<1>. HIDE DEF At
<1>3. ASSUME NEW e
      PROVE  e \in processZuulRoot(flat) <=> e \in RouteEntries(t)
    <2>1. e \in processZuulRoot(flat) <=> \E p \in Valued(t) : e \in At(Property(p))
        BY <1>1
    <2>. QED  BY <1>2, <2>1, RouteEntry
<1>. QED  BY <1>3

(* What Save splits over two config maps Poll puts together again: every   *)
(* value on a path, and of every list among the routes that at each place. *)
THEOREM SplitServed == Spec => []SplitIsServed
<1>1. ASSUME NEW t \in Trees, RoutesNested(t), Unambiguous(t),
             NEW own \in ConvertRecursiveMapToSingleMap(WithoutRoutes(t)),
             NEW routes \in ConvertRecursiveMapToSingleMap(RouteTree(t))
      PROVE  GatewayProperties(own, routes) = appendConfigServerAddition(Saved(t))
    <2> DEFINE w == WithoutRoutes(t)
               r == RouteTree(t)
               listed == {p \in Valued(t) : IsRoute(Property(p)) /\ IsList(NodeAt(t, p))}
    <2>1. /\ w \in Trees /\ r \in Trees
          /\ Valued(w) = {p \in Valued(t) : ~Routed(p)}
          /\ \A p \in Valued(w) : NodeAt(w, p) = NodeAt(t, p)
          /\ Valued(r) = {p \in Valued(t) : Routed(p)}
          /\ \A p \in Valued(r) : NodeAt(r, p) = NodeAt(t, p)
        BY SplitTyped, ValuesSplit
    <2>2. Unambiguous(w) /\ Unambiguous(r)
        BY <1>1, <2>1 DEF Unambiguous
    <2>3. \A p \in Valued(t) : Property(p) \in Words /\ (IsRoute(Property(p)) <=> Routed(p))
        BY <1>1, RouteIsRouted
    <2>. HIDE DEF w, r
    <2>4. /\ own = [x \in DOMAIN own |-> own[x]]
          /\ DOMAIN own = {Property(p) : p \in Valued(w)}
          /\ \A p \in Valued(w) : own[Property(p)] = NodeAt(w, p)
        <3>1. own \in ConvertRecursiveMapToSingleMap(w)
            BY <1>1 DEF w
        <3>. QED  BY <2>1, <2>2, <3>1, FlatParts, OneValue
    <2>5. processZuulRoot(routes) = RouteEntries(r)
        <3>1. routes \in ConvertRecursiveMapToSingleMap(r)
            BY <1>1 DEF r
        <3>2. /\ DOMAIN routes = {Property(p) : p \in Valued(r)}
              /\ \A p \in Valued(r) : routes[Property(p)] = NodeAt(r, p)
            BY <2>1, <2>2, <3>1, FlatParts, OneValue
        <3>. QED  BY <2>1, <3>2, HandedOut
    <2>6. Without(own, {p \in DOMAIN own : IsRouteProperty(p)}) = own
        <3>1. \A x \in DOMAIN own : ~IsRoute(x)
            BY <2>1, <2>3, <2>4
        <3>2. {p \in DOMAIN own : IsRouteProperty(p)} = {}
            BY <3>1 DEF IsRoute
        <3>3. DOMAIN own \ {} = DOMAIN own
            OBVIOUS
        <3>. QED  BY <2>4, <3>2, <3>3 DEF Without
    <2>7. Entries(own) = {<<Property(p), NodeAt(t, p)>> : p \in Valued(w)}
        BY <2>1, <2>4 DEF Entries
    <2>8. \A e \in RouteEntries(r) : Begins(e[1])
        <3> SUFFICES ASSUME NEW e \in RouteEntries(r) PROVE Begins(e[1])
            OBVIOUS
        <3>1. PICK p \in Valued(r) : EntryOf(r, p, e)
            BY RouteEntry
        <3>2. Property(p) \in Words /\ Begins(Property(p))
            BY <2>1, <2>3, RouteBegins
        <3>3. CASE e = <<Property(p), NodeAt(r, p)>>
            BY <3>2, <3>3
        <3>4. CASE IsList(NodeAt(r, p)) /\ \E q \in placesIn[NodeAt(r, p)] :
                        e = <<Property(p) \o spelling[q], valueAt[<<NodeAt(r, p), q>>]>>
            <4>1. PICK q \in placesIn[NodeAt(r, p)] :
                        e = <<Property(p) \o spelling[q], valueAt[<<NodeAt(r, p), q>>]>>
                BY <3>4
            <4>2. spelling[q] \in Seq(Word)
                <5>1. NodeAt(r, p) \in Lists
                    BY <3>4 DEF IsList, Lists
                <5>2. q \in Seq(Steps)
                    BY <5>1, PlacesTyped
                <5>. QED  BY <5>2, SpellingTyped
            <4>3. Begins(Property(p) \o spelling[q])
                BY <3>2, <4>2, AfterRoute
            <4>. QED  BY <4>1, <4>3
        <3>. QED  BY <3>1, <3>3, <3>4 DEF EntryOf
    <2>9. \A e \in Entries(own) : ~Begins(e[1])
        <3> SUFFICES ASSUME NEW p \in Valued(w) PROVE ~Begins(Property(p))
            BY <2>7
        <3>. QED  BY <2>1, <2>3, RouteBegins
    <2>10. Over(RouteEntries(r), Entries(own)) = RouteEntries(r) \cup Entries(own)
        <3>1. \A e \in Entries(own), u \in RouteEntries(r) : u[1] # e[1]
            BY <2>8, <2>9
        <3>. QED  BY <3>1 DEF Over
    <2>11. RouteEntries(r) \cup Entries(own) = Saved(t)
        <3> DEFINE value(p) == <<Property(p), NodeAt(t, p)>>
                   places(p) == {<<Property(p) \o spelling[q], valueAt[<<NodeAt(t, p), q>>]>> :
                                    q \in placesIn[NodeAt(t, p)]}
        <3>1. \A p \in Valued(r) : NodeAt(r, p) = NodeAt(t, p)
            BY <2>1
        <3>2. Listed(r) = listed
            BY <2>1, <2>3 DEF Listed
        <3>3. (Valued(r) \ Listed(r)) \cup Valued(w) = Valued(t) \ listed
            BY <2>1, <2>3, <3>2
        <3>4. Listed(r) \subseteq Valued(r)
            BY DEF Listed
        <3>. HIDE DEF listed
        <3>5. {<<Property(p), NodeAt(r, p)>> : p \in Valued(r) \ Listed(r)}
                = {value(p) : p \in Valued(r) \ Listed(r)}
            BY <3>1
        <3>6. UNION {{<<Property(p) \o spelling[q], valueAt[<<NodeAt(r, p), q>>]>> :
                        q \in placesIn[NodeAt(r, p)]} : p \in Listed(r)}
                = UNION {places(p) : p \in Listed(r)}
            <4> DEFINE there(p) == {<<Property(p) \o spelling[q], valueAt[<<NodeAt(r, p), q>>]>> :
                                        q \in placesIn[NodeAt(r, p)]}
            <4>1. \A p \in Listed(r) : there(p) = places(p)
                BY <3>1, <3>4
            <4>. HIDE DEF there, places
            <4>2. {there(p) : p \in Listed(r)} = {places(p) : p \in Listed(r)}
                BY <4>1
            <4>3. UNION {there(p) : p \in Listed(r)} = UNION {places(p) : p \in Listed(r)}
                BY <4>2
            <4>. QED  BY <4>3 DEF there
        <3>7. Saved(t) = {value(p) : p \in Valued(t) \ listed} \cup UNION {places(p) : p \in listed}
            BY DEF Saved, listed
        <3>. HIDE DEF value, places
        <3>8. RouteEntries(r) = {value(p) : p \in Valued(r) \ Listed(r)}
                                    \cup UNION {places(p) : p \in Listed(r)}
            BY <3>5, <3>6 DEF RouteEntries
        <3>9. Entries(own) = {value(p) : p \in Valued(w)}
            BY <2>7 DEF value
        <3>10. {value(p) : p \in Valued(t) \ listed}
                = {value(p) : p \in Valued(r) \ Listed(r)} \cup {value(p) : p \in Valued(w)}
            BY <3>3
        <3>. QED  BY <3>2, <3>7, <3>8, <3>9, <3>10
    <2>. QED  BY <2>5, <2>6, <2>10, <2>11 DEF GatewayProperties
<1>2. ProfileTyped => SplitIsServed
    BY <1>1, Zenon DEF ProfileTyped, SplitIsServed
<1>. QED  BY <1>2, MergedIsTree, PTL
=============================================================================
