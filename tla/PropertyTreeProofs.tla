------------------------- MODULE PropertyTreeProofs -------------------------
(***************************************************************************)
(* What the merges of PropertyTree do to trees of any depth.  The          *)
(* functions are recursive, so each is first shown, with an instance of    *)
(* Recursion, to be what its definition says; what it computes is then     *)
(* proved by induction on the depth of the trees.                          *)
(***************************************************************************)
EXTENDS PropertyTree, TLAPS, SequenceTheorems

Values == Leaves \cup {NoKey}

-----------------------------------------------------------------------------
(* The trees of each depth.                                                *)
Level(n) == n

TreesBody(f, n) == [Names -> Leaves \cup {NoKey} \cup IF n = 0 THEN {} ELSE f[n - 1]]

OnLevels == INSTANCE Recursion WITH S <- Nat, Rank <- Level, Body <- TreesBody

LEMMA TreesDefined ==
    \A n \in Nat : TreesTo[n] = [Names -> Values \cup IF n = 0 THEN {} ELSE TreesTo[n - 1]]
<1>1. OnLevels!Ranked /\ OnLevels!FromBelow
    BY DEF OnLevels!Ranked, OnLevels!FromBelow, Level, TreesBody
<1>2. \E f : f = [n \in Nat |-> TreesBody(f, n)]
    BY <1>1, OnLevels!Defined
<1>3. TreesTo = [n \in Nat |-> TreesBody(TreesTo, n)]
    BY <1>2 DEF TreesTo, TreesBody
<1>. QED  BY <1>3 DEF TreesBody, Values

LEMMA TreesGrow == \A n \in Nat : TreesTo[n] \subseteq TreesTo[n + 1]
<1> DEFINE T == {n \in Nat : TreesTo[n] \subseteq TreesTo[n + 1]}
<1>1. 0 \in T
    BY TreesDefined
<1>2. \A n \in Nat : n \in T => n + 1 \in T
    BY TreesDefined
<1>. HIDE DEF T
<1>3. Nat \subseteq T
    BY <1>1, <1>2, OnLevels!Induction
<1>. QED  BY <1>3 DEF T

LEMMA DeeperTrees ==
    ASSUME NEW m \in Nat, NEW n \in Nat, m <= n
    PROVE  TreesTo[m] \subseteq TreesTo[n]
<1> DEFINE T == {i \in Nat : TreesTo[m] \subseteq TreesTo[m + i]}
<1>1. 0 \in T
    OBVIOUS
<1>2. ASSUME NEW i \in Nat, i \in T
      PROVE  i + 1 \in T
    <2>1. TreesTo[m + i] \subseteq TreesTo[(m + i) + 1]
        BY TreesGrow
    <2>. QED  BY <1>2, <2>1
<1>. HIDE DEF T
<1>3. Nat \subseteq T
    BY <1>1, <1>2, OnLevels!Induction
<1>4. n - m \in Nat /\ m + (n - m) = n
    OBVIOUS
<1>. QED  BY <1>3, <1>4 DEF T

LEMMA TreesAreMaps == \A t \in Trees : IsMap(t)
BY TreeAssumption DEF IsMap

(* A key of a tree leads to a leaf, to nothing, or to a tree of less depth. *)
LEMMA Children ==
    ASSUME NEW n \in Nat, n <= MaxDepth, NEW t \in TreesTo[n], NEW k \in Names
    PROVE  \/ t[k] \in Values /\ ~IsMap(t[k])
           \/ n > 0 /\ n - 1 \in Nat /\ t[k] \in TreesTo[n - 1] /\ IsMap(t[k])
<1>1. t \in [Names -> Values \cup IF n = 0 THEN {} ELSE TreesTo[n - 1]]
    BY TreesDefined
<1>2. CASE t[k] \in Values
    BY <1>2 DEF IsMap, Values
<1>3. CASE t[k] \notin Values
    <2>1. n > 0 /\ n - 1 \in Nat /\ t[k] \in TreesTo[n - 1]
        BY <1>1, <1>3
    <2>. QED  BY <1>3, <2>1 DEF IsMap, Values
<1>. QED  BY <1>2, <1>3

Depth(t) == CHOOSE n \in Nat : t \in TreesTo[n] /\ \A m \in Nat : t \in TreesTo[m] => n <= m

LEMMA DepthOfTree ==
    ASSUME NEW n \in Nat, NEW t \in TreesTo[n]
    PROVE  Depth(t) \in Nat /\ Depth(t) <= n /\ t \in TreesTo[Depth(t)]
<1> DEFINE T == {m \in Nat : t \in TreesTo[m]}
<1>1. \E m \in T : \A i \in T : m <= i
    BY OnLevels!LeastNatural
<1>2. \E m \in Nat : t \in TreesTo[m] /\ \A i \in Nat : t \in TreesTo[i] => m <= i
    BY <1>1
<1>. QED  BY <1>2 DEF Depth

LEMMA ChildrenAreTrees ==
    ASSUME NEW t \in Trees, NEW k \in Names
    PROVE  \/ t[k] \in Values /\ ~IsMap(t[k])
           \/ IsMap(t[k]) /\ t[k] \in Trees /\ Depth(t[k]) \in Nat /\ Depth(t[k]) < Depth(t)
<1>1. /\ Depth(t) \in Nat /\ Depth(t) <= MaxDepth /\ MaxDepth \in Nat
      /\ t \in TreesTo[Depth(t)]
    BY DepthOfTree, TreeAssumption DEF Trees
<1>2. CASE t[k] \in Values /\ ~IsMap(t[k])
    BY <1>2
<1>3. CASE /\ Depth(t) > 0 /\ Depth(t) - 1 \in Nat
           /\ t[k] \in TreesTo[Depth(t) - 1] /\ IsMap(t[k])
    <2>1. Depth(t[k]) \in Nat /\ Depth(t[k]) <= Depth(t) - 1
        BY <1>3, DepthOfTree
    <2>2. t[k] \in Trees
        BY <1>1, <1>3, DeeperTrees DEF Trees
    <2>. QED  BY <1>1, <1>3, <2>1, <2>2
<1>. QED  BY <1>1, <1>2, <1>3, Children

LEMMA TreesHaveDepth == \A t \in Trees : Depth(t) \in Nat
BY DepthOfTree, TreeAssumption DEF Trees

-----------------------------------------------------------------------------
(* The merges.                                                             *)
PairDepth(p) == Depth(p[1])

AddBody(f, p) ==
    [k \in Names |->
        LET old == p[1][k]  new == p[2][k]
        IN  IF old = NoKey THEN new
            ELSE IF IsMap(old) /\ IsMap(new) THEN f[<<old, new>>]
            ELSE old]

OnAdd == INSTANCE Recursion WITH S <- Pairs, Rank <- PairDepth, Body <- AddBody

(* recursiveAdd treats every key as its definition says.                   *)
LEMMA AddDefined ==
    ASSUME NEW old \in Trees, NEW new \in Trees
    PROVE  recursiveAdd(old, new) =
                [k \in Names |->
                    IF old[k] = NoKey THEN new[k]
                    ELSE IF IsMap(old[k]) /\ IsMap(new[k]) THEN recursiveAdd(old[k], new[k])
                    ELSE old[k]]
<1>1. OnAdd!Ranked
    BY TreesHaveDepth DEF OnAdd!Ranked, Pairs, PairDepth
<1>2. ASSUME NEW p \in Pairs, NEW g, NEW h,
             \A q \in Pairs : PairDepth(q) < PairDepth(p) => g[q] = h[q]
      PROVE  AddBody(g, p) = AddBody(h, p)
    <2>1. ASSUME NEW k \in Names, IsMap(p[1][k]), IsMap(p[2][k])
          PROVE  g[<<p[1][k], p[2][k]>>] = h[<<p[1][k], p[2][k]>>]
        <3>1. p[1] \in Trees /\ p[2] \in Trees
            BY DEF Pairs
        <3>2. p[1][k] \in Trees /\ Depth(p[1][k]) < Depth(p[1]) /\ p[2][k] \in Trees
            BY <2>1, <3>1, ChildrenAreTrees
        <3>. QED  BY <1>2, <3>2 DEF Pairs, PairDepth
    <2>. QED  BY <2>1 DEF AddBody
<1>3. OnAdd!FromBelow
    BY <1>2 DEF OnAdd!FromBelow
<1>4. \E f : f = [p \in Pairs |-> AddBody(f, p)]
    BY <1>1, <1>3, OnAdd!Defined
<1>5. added = [p \in Pairs |-> AddBody(added, p)]
    BY <1>4 DEF added, AddBody
<1>. QED  BY <1>5 DEF AddBody, recursiveAdd, Pairs

UpdateBody(f, p) ==
    [k \in Names |->
        LET old == p[1][k]  new == p[2][k]
        IN  IF old = NoKey THEN new
            ELSE IF new \in {NoKey, Nil} \/ old = Nil THEN old
            ELSE IF ~IsMap(old) THEN new
            ELSE IF IsMap(new) THEN f[<<old, new>>]
            ELSE old]

OnUpdate == INSTANCE Recursion WITH S <- Pairs, Rank <- PairDepth, Body <- UpdateBody

(* And so does recursiveAddAndUpdate.                                      *)
LEMMA UpdateDefined ==
    ASSUME NEW old \in Trees, NEW new \in Trees
    PROVE  recursiveAddAndUpdate(old, new) =
                [k \in Names |->
                    IF old[k] = NoKey THEN new[k]
                    ELSE IF new[k] \in {NoKey, Nil} \/ old[k] = Nil THEN old[k]
                    ELSE IF ~IsMap(old[k]) THEN new[k]
                    ELSE IF IsMap(new[k]) THEN recursiveAddAndUpdate(old[k], new[k])
                    ELSE old[k]]
<1>1. OnUpdate!Ranked
    BY TreesHaveDepth DEF OnUpdate!Ranked, Pairs, PairDepth
<1>2. ASSUME NEW p \in Pairs, NEW g, NEW h,
             \A q \in Pairs : PairDepth(q) < PairDepth(p) => g[q] = h[q]
      PROVE  UpdateBody(g, p) = UpdateBody(h, p)
    <2>1. ASSUME NEW k \in Names, IsMap(p[1][k]), IsMap(p[2][k])
          PROVE  g[<<p[1][k], p[2][k]>>] = h[<<p[1][k], p[2][k]>>]
        <3>1. p[1] \in Trees /\ p[2] \in Trees
            BY DEF Pairs
        <3>2. p[1][k] \in Trees /\ Depth(p[1][k]) < Depth(p[1]) /\ p[2][k] \in Trees
            BY <2>1, <3>1, ChildrenAreTrees
        <3>. QED  BY <1>2, <3>2 DEF Pairs, PairDepth
    <2>. QED  BY <2>1 DEF UpdateBody
<1>3. OnUpdate!FromBelow
    BY <1>2 DEF OnUpdate!FromBelow
<1>4. \E f : f = [p \in Pairs |-> UpdateBody(f, p)]
    BY <1>1, <1>3, OnUpdate!Defined
<1>5. updated = [p \in Pairs |-> UpdateBody(updated, p)]
    BY <1>4 DEF updated, UpdateBody
<1>6. updated[<<old, new>>] = UpdateBody(updated, <<old, new>>)
    BY <1>5, <<old, new>> \in Pairs DEF Pairs
<1>. QED  BY <1>6 DEF UpdateBody, recursiveAddAndUpdate

(* A tree of some depth is made of leaves and trees of less.               *)
LEMMA TreeOfChildren ==
    ASSUME NEW n \in Nat, NEW t,
           t = [k \in Names |-> t[k]],
           \A k \in Names : t[k] \in Values \/ (n > 0 /\ t[k] \in TreesTo[n - 1])
    PROVE  t \in TreesTo[n]
BY TreesDefined

(* Merging trees makes no deeper ones.                                     *)
LEMMA MergesTyped ==
    ASSUME NEW old \in Trees, NEW new \in Trees
    PROVE  recursiveAdd(old, new) \in Trees /\ recursiveAddAndUpdate(old, new) \in Trees
<1> DEFINE Typed(n) == \A o, w \in TreesTo[n] :
                        /\ recursiveAdd(o, w) \in TreesTo[n]
                        /\ recursiveAddAndUpdate(o, w) \in TreesTo[n]
           T == {n \in Nat : n <= MaxDepth => Typed(n)}
<1>1. ASSUME NEW n \in Nat, n <= MaxDepth, n > 0 => Typed(n - 1),
             NEW o \in TreesTo[n], NEW w \in TreesTo[n]
      PROVE  recursiveAdd(o, w) \in TreesTo[n] /\ recursiveAddAndUpdate(o, w) \in TreesTo[n]
    <2>. o \in Trees /\ w \in Trees
        BY <1>1, DeeperTrees, TreeAssumption DEF Trees
    <2> DEFINE a == recursiveAdd(o, w)  u == recursiveAddAndUpdate(o, w)
    <2>1. \A k \in Names :
            /\ (o[k] \in Values /\ ~IsMap(o[k])) \/ (n > 0 /\ o[k] \in TreesTo[n - 1] /\ IsMap(o[k]))
            /\ (w[k] \in Values /\ ~IsMap(w[k])) \/ (n > 0 /\ w[k] \in TreesTo[n - 1] /\ IsMap(w[k]))
        BY <1>1, Children
    <2>2. a \in TreesTo[n]
        <3>1. \A k \in Names : a[k] = IF o[k] = NoKey THEN w[k]
                                 ELSE IF IsMap(o[k]) /\ IsMap(w[k]) THEN recursiveAdd(o[k], w[k])
                                 ELSE o[k]
            BY AddDefined
        <3>2. a = [k \in Names |-> a[k]]
            BY AddDefined
        <3>. HIDE DEF a
        <3>3. \A k \in Names : a[k] \in Values \/ (n > 0 /\ a[k] \in TreesTo[n - 1])
            BY <1>1, <2>1, <3>1
        <3>. QED  BY <3>2, <3>3, TreeOfChildren
    <2>3. u \in TreesTo[n]
        <3>1. \A k \in Names :
                u[k] = IF o[k] = NoKey THEN w[k]
                       ELSE IF w[k] \in {NoKey, Nil} \/ o[k] = Nil THEN o[k]
                       ELSE IF ~IsMap(o[k]) THEN w[k]
                       ELSE IF IsMap(w[k]) THEN recursiveAddAndUpdate(o[k], w[k])
                       ELSE o[k]
            BY UpdateDefined
        <3>2. u = [k \in Names |-> u[k]]
            BY UpdateDefined
        <3>. HIDE DEF u
        <3>3. \A k \in Names : u[k] \in Values \/ (n > 0 /\ u[k] \in TreesTo[n - 1])
            BY <1>1, <2>1, <3>1
        <3>. QED  BY <3>2, <3>3, TreeOfChildren
    <2>. QED  BY <2>2, <2>3
<1>2. 0 \in T
    BY <1>1
<1>3. ASSUME NEW n \in Nat, n \in T
      PROVE  n + 1 \in T
    <2>. SUFFICES ASSUME n + 1 <= MaxDepth PROVE Typed(n + 1)
        OBVIOUS
    <2>1. Typed(n)
        BY <1>3, TreeAssumption
    <2>2. (n + 1) - 1 = n /\ n + 1 \in Nat
        OBVIOUS
    <2>. HIDE DEF Typed
    <2>3. n + 1 > 0 => Typed((n + 1) - 1)
        BY <2>1, <2>2
    <2>. QED  BY <1>1, <2>2, <2>3 DEF Typed
<1>. HIDE DEF T
<1>4. MaxDepth \in T
    BY <1>2, <1>3, OnLevels!Induction, TreeAssumption
<1>. QED  BY <1>4, TreeAssumption DEF T, Trees

-----------------------------------------------------------------------------
(* Walks along paths.                                                      *)
PathLength(x) == Len(x[2])

WalkBody(f, x) ==
    LET next == x[1][Head(x[2])]
    IN  IF IsMap(next) /\ Len(x[2]) > 1 THEN f[<<next, Tail(x[2])>>]
        ELSE [node |-> next, whole |-> Len(x[2]) = 1]

OnPaths == INSTANCE Recursion WITH S <- Trees \X Paths, Rank <- PathLength, Body <- WalkBody

Short(p) == Len(p) = 1

LEMMA PathParts ==
    ASSUME NEW p \in Paths
    PROVE  /\ Len(p) \in Nat /\ Head(p) \in Names /\ (Len(p) > 1 <=> ~Short(p))
           /\ ~Short(p) => Tail(p) \in Paths /\ Len(Tail(p)) < Len(p)
<1>1. p \in Seq(Names) /\ p # <<>>
    BY DEF Paths
<1>2. Head(p) \in Names /\ Tail(p) \in Seq(Names) /\ Len(Tail(p)) = Len(p) - 1
    BY <1>1, HeadTailProperties
<1>3. Len(p) \in Nat /\ Len(p) > 0
    BY <1>1, LenProperties, EmptySeq
<1>4. \A n \in Nat : (n > 0 => (n > 1 <=> n # 1)) /\ (n > 1 => n - 1 # 0) /\ n - 1 < n
    OBVIOUS
<1>5. Len(p) > 1 <=> ~Short(p)
    BY <1>3, <1>4, Zenon DEF Short
<1>6. ASSUME Len(p) > 1 PROVE Tail(p) # <<>>
    <2>1. Len(<<>>) = 0
        OBVIOUS
    <2>2. Len(p) - 1 # 0
        BY <1>3, <1>4, <1>6, Zenon
    <2>. QED  BY <1>2, <2>1, <2>2, Zenon
<1>7. Len(Tail(p)) < Len(p)
    BY <1>2, <1>3, <1>4, Zenon
<1>. QED  BY <1>2, <1>3, <1>5, <1>6, <1>7, Zenon DEF Paths

LEMMA WalkDefined ==
    ASSUME NEW t \in Trees, NEW p \in Paths
    PROVE  walk[<<t, p>>] =
                IF IsMap(t[Head(p)]) /\ ~Short(p) THEN walk[<<t[Head(p)], Tail(p)>>]
                ELSE [node |-> t[Head(p)], whole |-> Short(p)]
<1> DEFINE Longer(q) == Len(q) > 1
<1>0. \A q \in Paths : /\ Len(q) \in Nat /\ Head(q) \in Names /\ (Longer(q) <=> ~Short(q))
                       /\ Longer(q) => Tail(q) \in Paths /\ Len(Tail(q)) < Len(q)
    BY PathParts, Zenon
<1>. HIDE DEF Longer
<1>1. OnPaths!Ranked
    BY <1>0 DEF OnPaths!Ranked, PathLength
<1>2. ASSUME NEW x \in Trees \X Paths, NEW g, NEW h,
             \A y \in Trees \X Paths : PathLength(y) < PathLength(x) => g[y] = h[y]
      PROVE  WalkBody(g, x) = WalkBody(h, x)
    <2>1. x[1] \in Trees /\ x[2] \in Paths
        OBVIOUS
    <2>2. ASSUME IsMap(x[1][Head(x[2])]), Longer(x[2])
          PROVE  g[<<x[1][Head(x[2])], Tail(x[2])>>] = h[<<x[1][Head(x[2])], Tail(x[2])>>]
        <3>1. x[1][Head(x[2])] \in Trees
            BY <1>0, <2>1, <2>2, ChildrenAreTrees
        <3>2. Tail(x[2]) \in Paths /\ Len(Tail(x[2])) < Len(x[2])
            BY <1>0, <2>1, <2>2
        <3>. QED  BY <1>2, <3>1, <3>2 DEF PathLength
    <2>. QED  BY <2>2 DEF WalkBody, Longer
<1>3. OnPaths!FromBelow
    BY <1>2 DEF OnPaths!FromBelow
<1>4. \E f : f = [x \in Trees \X Paths |-> WalkBody(f, x)]
    BY <1>1, <1>3, OnPaths!Defined
<1>5. walk = [x \in Trees \X Paths |-> WalkBody(walk, x)]
    BY <1>4 DEF walk, WalkBody
<1>6. walk[<<t, p>>] = WalkBody(walk, <<t, p>>)
    BY <1>5, <<t, p>> \in Trees \X Paths
<1>7. WalkBody(walk, <<t, p>>) =
        IF IsMap(t[Head(p)]) /\ Len(p) > 1 THEN walk[<<t[Head(p)], Tail(p)>>]
        ELSE [node |-> t[Head(p)], whole |-> Len(p) = 1]
    BY DEF WalkBody
<1>. QED  BY <1>0, <1>6, <1>7, Zenon DEF Longer, Short

(* The node at a path, and the last on it, by the first name.              *)
LEMMA NodeByFirst ==
    ASSUME NEW t \in Trees, NEW p \in Paths
    PROVE  /\ Short(p) => NodeAt(t, p) = t[Head(p)] /\ LastOn(t, p) = t[Head(p)]
           /\ ~Short(p) /\ IsMap(t[Head(p)]) =>
                    /\ NodeAt(t, p) = NodeAt(t[Head(p)], Tail(p))
                    /\ LastOn(t, p) = LastOn(t[Head(p)], Tail(p))
           /\ ~Short(p) /\ ~IsMap(t[Head(p)]) =>
                    NodeAt(t, p) = NoKey /\ LastOn(t, p) = t[Head(p)]
<1> DEFINE next == t[Head(p)]
           w == walk[<<t, p>>]
           node(n, whole) == [node |-> n, whole |-> whole]
<1>1. \A n, b : node(n, b).node = n /\ node(n, b).whole = b
    OBVIOUS
<1>2. w = IF IsMap(next) /\ ~Short(p) THEN walk[<<next, Tail(p)>>]
          ELSE node(next, Short(p))
    BY WalkDefined
<1>3. LastOn(t, p) = w.node /\ NodeAt(t, p) = IF w.whole THEN w.node ELSE NoKey
    BY Zenon DEF NodeAt, LastOn
<1>4. CASE Short(p) \/ ~IsMap(next)
    <2>. HIDE DEF next, w, node
    <2>1. w = node(next, Short(p))
        BY <1>2, <1>4, Zenon
    <2>2. w.node = next /\ w.whole = Short(p)
        BY <1>1, <2>1, Zenon
    <2>. QED  BY <1>3, <1>4, <2>2, Zenon DEF next
<1>5. CASE ~Short(p) /\ IsMap(next)
    <2>1. w = walk[<<next, Tail(p)>>]
        BY <1>2, <1>5, Zenon
    <2>. QED  BY <1>3, <1>5, <2>1, Zenon DEF NodeAt, LastOn
<1>. QED  BY <1>4, <1>5, Zenon

(* Two trees with the same under a name have the same on every path that   *)
(* begins with it.                                                         *)
LEMMA SameFirst ==
    ASSUME NEW t \in Trees, NEW u \in Trees, NEW p \in Paths, t[Head(p)] = u[Head(p)]
    PROVE  NodeAt(t, p) = NodeAt(u, p) /\ LastOn(t, p) = LastOn(u, p)
BY NodeByFirst, Zenon

(* A node that is there is the last on the path to it.                     *)
LEMMA NodeIsLast ==
    ASSUME NEW t \in Trees, NEW p \in Paths, NodeAt(t, p) # NoKey
    PROVE  LastOn(t, p) = NodeAt(t, p)
BY Zenon DEF NodeAt

-----------------------------------------------------------------------------
PathsBody(f, t) ==
    {<<k>> : k \in {n \in Names : Has(t, n)}}
        \cup UNION {{<<k>> \o p : p \in f[t[k]]} : k \in {n \in Names : IsMap(t[n])}}

OnTrees == INSTANCE Recursion WITH S <- Trees, Rank <- Depth, Body <- PathsBody

LEMMA PathsDefined == \A t \in Trees : pathsOf[t] = PathsBody(pathsOf, t)
<1>1. OnTrees!Ranked
    BY TreesHaveDepth DEF OnTrees!Ranked
<1>2. ASSUME NEW t \in Trees, NEW g, NEW h,
             \A u \in Trees : Depth(u) < Depth(t) => g[u] = h[u]
      PROVE  PathsBody(g, t) = PathsBody(h, t)
    <2>1. \A k \in {n \in Names : IsMap(t[n])} : g[t[k]] = h[t[k]]
        BY <1>2, ChildrenAreTrees
    <2>2. {{<<k>> \o p : p \in g[t[k]]} : k \in {n \in Names : IsMap(t[n])}}
            = {{<<k>> \o p : p \in h[t[k]]} : k \in {n \in Names : IsMap(t[n])}}
        BY <2>1
    <2>. QED  BY <2>2 DEF PathsBody
<1>3. OnTrees!FromBelow
    BY <1>2 DEF OnTrees!FromBelow
<1>4. \E f : f = [t \in Trees |-> PathsBody(f, t)]
    BY <1>1, <1>3, OnTrees!Defined
<1>5. pathsOf = [t \in Trees |-> PathsBody(pathsOf, t)]
    BY <1>4 DEF pathsOf, PathsBody
<1>. QED  BY <1>5

LEMMA PathsTyped == \A t \in Trees : PathsOf(t) \subseteq Paths
<1> DEFINE T == {n \in Nat : n <= MaxDepth => \A t \in TreesTo[n] : pathsOf[t] \subseteq Paths}
<1>1. ASSUME NEW n \in Nat, n <= MaxDepth,
             n > 0 => \A t \in TreesTo[n - 1] : pathsOf[t] \subseteq Paths,
             NEW t \in TreesTo[n], NEW p \in pathsOf[t]
      PROVE  p \in Paths
    <2>1. t \in Trees
        BY <1>1, DeeperTrees, TreeAssumption DEF Trees
    <2>2. p \in PathsBody(pathsOf, t)
        BY <1>1, <2>1, PathsDefined
    <2>3. CASE \E k \in Names : p = <<k>>
        BY <2>3 DEF Paths
    <2>4. CASE \E k \in Names : IsMap(t[k]) /\ \E q \in pathsOf[t[k]] : p = <<k>> \o q
        <3>. PICK k \in Names : IsMap(t[k]) /\ \E q \in pathsOf[t[k]] : p = <<k>> \o q
            BY <2>4
        <3>1. PICK q \in pathsOf[t[k]] : p = <<k>> \o q
            OBVIOUS
        <3>2. q \in Seq(Names)
            BY <1>1, <3>1, Children DEF Paths
        <3>3. <<k>> \in Seq(Names) /\ Len(<<k>>) = 1
            OBVIOUS
        <3>4. p \in Seq(Names) /\ Len(p) = 1 + Len(q) /\ Len(q) \in Nat
            BY <3>1, <3>2, <3>3, ConcatProperties, LenProperties
        <3>. QED  BY <3>4 DEF Paths
    <2>. QED  BY <2>2, <2>3, <2>4 DEF PathsBody
<1>2. 0 \in T
    BY <1>1
<1>3. ASSUME NEW n \in Nat, n \in T
      PROVE  n + 1 \in T
    <2>1. (n + 1) - 1 = n /\ n + 1 \in Nat /\ (n + 1 <= MaxDepth => n <= MaxDepth)
        BY TreeAssumption
    <2>. QED  BY <1>1, <1>3, <2>1
<1>. HIDE DEF T
<1>4. MaxDepth \in T
    BY <1>2, <1>3, OnLevels!Induction, TreeAssumption
<1>. QED  BY <1>4, TreeAssumption DEF T, Trees, PathsOf

-----------------------------------------------------------------------------
(* The merges, path by path.                                               *)
(* A name at which one of the two has no map decides for the whole path.   *)
LEMMA AddByFirst ==
    ASSUME NEW o \in Trees, NEW w \in Trees, NEW p \in Paths,
           IsMap(o[Head(p)]) /\ IsMap(w[Head(p)]) => Short(p)
    PROVE  AddAt(o, w, recursiveAdd(o, w), p)
<1> DEFINE m == recursiveAdd(o, w)
           k == Head(p)
<1>1. m \in Trees /\ k \in Names /\ NoKey \notin Leaves /\ ~IsMap(NoKey)
    BY MergesTyped, PathParts, TreeAssumption DEF IsMap
<1>2. m[k] = IF o[k] = NoKey THEN w[k]
             ELSE IF IsMap(o[k]) /\ IsMap(w[k]) THEN recursiveAdd(o[k], w[k])
             ELSE o[k]
    BY <1>1, AddDefined
<1>. HIDE DEF m
<1>3. CASE o[k] = NoKey
    <2>1. NodeAt(m, p) = NodeAt(w, p)
        BY <1>1, <1>2, <1>3, SameFirst
    <2>2. NodeAt(o, p) = NoKey /\ LastOn(o, p) = NoKey
        BY <1>1, <1>3, NodeByFirst
    <2>. QED  BY <2>1, <2>2 DEF AddAt, Same, m
<1>4. CASE IsMap(o[k]) /\ IsMap(w[k])
    <2>1. NodeAt(m, p) = m[k] /\ NodeAt(o, p) = o[k]
        BY <1>1, <1>4, NodeByFirst
    <2>2. IsMap(m[k]) /\ o[k] # NoKey
        BY <1>1, <1>2, <1>4, ChildrenAreTrees, MergesTyped, TreesAreMaps
    <2>. QED  BY <1>4, <2>1, <2>2 DEF AddAt, Same, m
<1>5. CASE o[k] # NoKey /\ ~(IsMap(o[k]) /\ IsMap(w[k]))
    <2>1. NodeAt(m, p) = NodeAt(o, p)
        BY <1>1, <1>2, <1>5, SameFirst
    <2>2. CASE NodeAt(o, p) # NoKey
        BY <2>1, <2>2 DEF AddAt, Same, m
    <2>3. CASE NodeAt(o, p) = NoKey /\ LastOn(o, p) # NoKey
        BY <2>1, <2>3 DEF AddAt, Same, m
    <2>4. CASE NodeAt(o, p) = NoKey /\ LastOn(o, p) = NoKey
        <3>1. ~Short(p) /\ IsMap(o[k])
            BY <1>5, <2>4, NodeByFirst
        <3>2. NodeAt(w, p) = NoKey
            BY <1>5, <3>1, NodeByFirst
        <3>. QED  BY <2>1, <2>4, <3>2 DEF AddAt, Same, m
    <2>. QED  BY <2>2, <2>3, <2>4
<1>. QED  BY <1>3, <1>4, <1>5

(* Adding one tree to another is an addition on every path.                *)
LEMMA AddOnPaths ==
    ASSUME NEW old \in Trees, NEW new \in Trees, NEW path \in Paths
    PROVE  AddAt(old, new, recursiveAdd(old, new), path)
<1> DEFINE OK(n) == \A o, w \in TreesTo[n], p \in Paths : AddAt(o, w, recursiveAdd(o, w), p)
           T == {n \in Nat : n <= MaxDepth => OK(n)}
<1>1. ASSUME NEW n \in Nat, n <= MaxDepth, n > 0 => OK(n - 1),
             NEW o \in TreesTo[n], NEW w \in TreesTo[n], NEW p \in Paths
      PROVE  AddAt(o, w, recursiveAdd(o, w), p)
    <2> DEFINE k == Head(p)
    <2>1. o \in Trees /\ w \in Trees /\ k \in Names
        BY <1>1, DeeperTrees, PathParts, TreeAssumption DEF Trees
    <2>2. CASE IsMap(o[k]) /\ IsMap(w[k]) => Short(p)
        BY <2>1, <2>2, AddByFirst
    <2>3. CASE IsMap(o[k]) /\ IsMap(w[k]) /\ ~Short(p)
        <3> DEFINE m == recursiveAdd(o, w)
        <3>1. /\ n > 0 /\ o[k] \in TreesTo[n - 1] /\ w[k] \in TreesTo[n - 1]
              /\ o[k] \in Trees /\ w[k] \in Trees /\ Tail(p) \in Paths
            BY <1>1, <2>1, <2>3, Children, ChildrenAreTrees, PathParts
        <3>2. AddAt(o[k], w[k], recursiveAdd(o[k], w[k]), Tail(p))
            BY <1>1, <3>1
        <3>3. m[k] = recursiveAdd(o[k], w[k]) /\ m \in Trees /\ IsMap(m[k])
            <4>1. o[k] # NoKey
                BY <2>3 DEF IsMap
            <4>2. m[k] = recursiveAdd(o[k], w[k])
                BY <2>1, <2>3, <4>1, AddDefined
            <4>. QED  BY <2>1, <3>1, <4>2, MergesTyped, TreesAreMaps
        <3>. HIDE DEF m
        <3>4. /\ NodeAt(m, p) = NodeAt(m[k], Tail(p))
              /\ NodeAt(o, p) = NodeAt(o[k], Tail(p)) /\ LastOn(o, p) = LastOn(o[k], Tail(p))
              /\ NodeAt(w, p) = NodeAt(w[k], Tail(p))
            BY <2>1, <2>3, <3>3, NodeByFirst
        <3>. QED  BY <3>2, <3>3, <3>4, Zenon DEF AddAt, m
    <2>. QED  BY <2>2, <2>3
<1>2. 0 \in T
    BY <1>1
<1>3. ASSUME NEW n \in Nat, n \in T
      PROVE  n + 1 \in T
    <2>. SUFFICES ASSUME n + 1 <= MaxDepth PROVE OK(n + 1)
        OBVIOUS
    <2>1. OK(n)
        BY <1>3, TreeAssumption
    <2>2. (n + 1) - 1 = n /\ n + 1 \in Nat
        OBVIOUS
    <2>. HIDE DEF OK
    <2>3. n + 1 > 0 => OK((n + 1) - 1)
        BY <2>1, <2>2
    <2>. QED  BY <1>1, <2>2, <2>3 DEF OK
<1>. HIDE DEF T
<1>4. MaxDepth \in T
    BY <1>2, <1>3, OnLevels!Induction, TreeAssumption
<1>. QED  BY <1>4, TreeAssumption DEF T, Trees

(* What an update leaves on a path, case by case as the code has it.       *)
UpdatedAt(old, new, merged, p) ==
    Same(NodeAt(merged, p),
         IF NodeAt(old, p) = NoKey
         THEN IF LastOn(old, p) = Nil THEN NoKey ELSE NodeAt(new, p)
         ELSE IF NodeAt(new, p) \in {NoKey, Nil} \/ NodeAt(old, p) = Nil
                    \/ IsMap(NodeAt(old, p))
         THEN NodeAt(old, p) ELSE NodeAt(new, p))

LEMMA UpdateByFirst ==
    ASSUME NEW o \in Trees, NEW w \in Trees, NEW p \in Paths,
           IsMap(o[Head(p)]) /\ IsMap(w[Head(p)]) => Short(p)
    PROVE  UpdatedAt(o, w, recursiveAddAndUpdate(o, w), p)
<1> DEFINE m == recursiveAddAndUpdate(o, w)
           k == Head(p)
<1>1. /\ m \in Trees /\ k \in Names /\ NoKey # Nil
      /\ ~IsMap(NoKey) /\ ~IsMap(Nil)
    BY MergesTyped, PathParts, TreeAssumption DEF IsMap
<1>2. m[k] = IF o[k] = NoKey THEN w[k]
             ELSE IF w[k] \in {NoKey, Nil} \/ o[k] = Nil THEN o[k]
             ELSE IF ~IsMap(o[k]) THEN w[k]
             ELSE IF IsMap(w[k]) THEN recursiveAddAndUpdate(o[k], w[k])
             ELSE o[k]
    BY <1>1, UpdateDefined
<1>. HIDE DEF m
<1>3. CASE o[k] = NoKey
    <2>1. NodeAt(m, p) = NodeAt(w, p)
        BY <1>1, <1>2, <1>3, SameFirst
    <2>2. NodeAt(o, p) = NoKey /\ LastOn(o, p) = NoKey
        BY <1>1, <1>3, NodeByFirst
    <2>. QED  BY <1>1, <2>1, <2>2 DEF UpdatedAt, Same, m
<1>4. CASE o[k] \notin {NoKey, Nil} /\ ~IsMap(o[k]) /\ w[k] \notin {NoKey, Nil}
    <2>1. NodeAt(m, p) = NodeAt(w, p)
        BY <1>1, <1>2, <1>4, SameFirst
    <2>2. CASE Short(p)
        <3>1. NodeAt(o, p) = o[k] /\ NodeAt(w, p) = w[k]
            BY <2>2, NodeByFirst
        <3>. QED  BY <1>4, <2>1, <3>1 DEF UpdatedAt, Same, m
    <2>3. CASE ~Short(p)
        <3>1. NodeAt(o, p) = NoKey /\ LastOn(o, p) = o[k]
            BY <1>4, <2>3, NodeByFirst
        <3>. QED  BY <1>4, <2>1, <3>1 DEF UpdatedAt, Same, m
    <2>. QED  BY <2>2, <2>3
<1>5. CASE IsMap(o[k]) /\ IsMap(w[k])
    <2>1. NodeAt(m, p) = m[k] /\ NodeAt(o, p) = o[k]
        BY <1>1, <1>5, NodeByFirst
    <2>2. IsMap(m[k]) /\ o[k] # NoKey
        BY <1>1, <1>2, <1>5, ChildrenAreTrees, MergesTyped, TreesAreMaps
    <2>. QED  BY <1>5, <2>1, <2>2 DEF UpdatedAt, Same, m
<1>6. CASE o[k] # NoKey /\ ~(IsMap(o[k]) /\ IsMap(w[k]))
            /\ (IsMap(o[k]) \/ o[k] = Nil \/ w[k] \in {NoKey, Nil})
    <2>1. NodeAt(m, p) = NodeAt(o, p)
        BY <1>1, <1>2, <1>6, SameFirst
    <2>2. CASE Short(p)
        <3>1. NodeAt(o, p) = o[k] /\ NodeAt(w, p) = w[k]
            BY <2>2, NodeByFirst
        <3>. QED  BY <1>6, <2>1, <3>1 DEF UpdatedAt, Same, m
    <2>3. CASE ~Short(p) /\ ~IsMap(o[k])
        <3>1. NodeAt(o, p) = NoKey /\ LastOn(o, p) = o[k]
            BY <2>3, NodeByFirst
        <3>2. o[k] # Nil => NodeAt(w, p) = NoKey
            BY <1>1, <1>6, <2>3, NodeByFirst
        <3>. QED  BY <2>1, <3>1, <3>2 DEF UpdatedAt, Same, m
    <2>4. CASE ~Short(p) /\ IsMap(o[k])
        <3>1. NodeAt(w, p) = NoKey
            BY <1>6, <2>4, NodeByFirst
        <3>. QED  BY <2>1, <3>1 DEF UpdatedAt, Same, m
    <2>. QED  BY <2>2, <2>3, <2>4
<1>. QED  BY <1>1, <1>3, <1>4, <1>5, <1>6

(* Updating one tree with another is an update on every path.              *)
LEMMA UpdateOnPaths ==
    ASSUME NEW old \in Trees, NEW new \in Trees, NEW path \in Paths
    PROVE  UpdatedAt(old, new, recursiveAddAndUpdate(old, new), path)
<1> DEFINE OK(n) == \A o, w \in TreesTo[n], p \in Paths :
                        UpdatedAt(o, w, recursiveAddAndUpdate(o, w), p)
           T == {n \in Nat : n <= MaxDepth => OK(n)}
<1>1. ASSUME NEW n \in Nat, n <= MaxDepth, n > 0 => OK(n - 1),
             NEW o \in TreesTo[n], NEW w \in TreesTo[n], NEW p \in Paths
      PROVE  UpdatedAt(o, w, recursiveAddAndUpdate(o, w), p)
    <2> DEFINE k == Head(p)
    <2>1. o \in Trees /\ w \in Trees /\ k \in Names
        BY <1>1, DeeperTrees, PathParts, TreeAssumption DEF Trees
    <2>2. CASE IsMap(o[k]) /\ IsMap(w[k]) => Short(p)
        BY <2>1, <2>2, UpdateByFirst
    <2>3. CASE IsMap(o[k]) /\ IsMap(w[k]) /\ ~Short(p)
        <3> DEFINE m == recursiveAddAndUpdate(o, w)
        <3>1. /\ n > 0 /\ o[k] \in TreesTo[n - 1] /\ w[k] \in TreesTo[n - 1]
              /\ o[k] \in Trees /\ w[k] \in Trees /\ Tail(p) \in Paths
            BY <1>1, <2>1, <2>3, Children, ChildrenAreTrees, PathParts
        <3>2. UpdatedAt(o[k], w[k], recursiveAddAndUpdate(o[k], w[k]), Tail(p))
            BY <1>1, <3>1
        <3>3. m[k] = recursiveAddAndUpdate(o[k], w[k]) /\ m \in Trees /\ IsMap(m[k])
            <4>1. o[k] \notin {NoKey, Nil} /\ w[k] \notin {NoKey, Nil}
                BY <2>3, TreeAssumption DEF IsMap
            <4>2. m[k] = recursiveAddAndUpdate(o[k], w[k])
                BY <2>1, <2>3, <4>1, UpdateDefined
            <4>. QED  BY <2>1, <3>1, <4>2, MergesTyped, TreesAreMaps
        <3>. HIDE DEF m
        <3>4. /\ NodeAt(m, p) = NodeAt(m[k], Tail(p))
              /\ NodeAt(o, p) = NodeAt(o[k], Tail(p)) /\ LastOn(o, p) = LastOn(o[k], Tail(p))
              /\ NodeAt(w, p) = NodeAt(w[k], Tail(p))
            BY <2>1, <2>3, <3>3, NodeByFirst
        <3>. QED  BY <3>2, <3>3, <3>4, Zenon DEF UpdatedAt, m
    <2>. QED  BY <2>2, <2>3
<1>2. 0 \in T
    BY <1>1
<1>3. ASSUME NEW n \in Nat, n \in T
      PROVE  n + 1 \in T
    <2>. SUFFICES ASSUME n + 1 <= MaxDepth PROVE OK(n + 1)
        OBVIOUS
    <2>1. OK(n)
        BY <1>3, TreeAssumption
    <2>2. (n + 1) - 1 = n /\ n + 1 \in Nat
        OBVIOUS
    <2>. HIDE DEF OK
    <2>3. n + 1 > 0 => OK((n + 1) - 1)
        BY <2>1, <2>2
    <2>. QED  BY <1>1, <2>2, <2>3 DEF OK
<1>. HIDE DEF T
<1>4. MaxDepth \in T
    BY <1>2, <1>3, OnLevels!Induction, TreeAssumption
<1>. QED  BY <1>4, TreeAssumption DEF T, Trees

(* recursiveAdd adds what the old tree has not, and changes nothing else,  *)
(* whatever the depth of the two.                                          *)
THEOREM AddExact ==
    \A old, new \in Trees : IsAdd(old, new, recursiveAdd(old, new))
<1>. SUFFICES ASSUME NEW old \in Trees, NEW new \in Trees
              PROVE  IsAdd(old, new, recursiveAdd(old, new))
    OBVIOUS
<1>1. recursiveAdd(old, new) \in Trees
    BY MergesTyped
<1>. QED  BY <1>1, PathsTyped, AddOnPaths DEF IsAdd, PathsOfAny

(* These are the cases of the reference.                                   *)
LEMMA UpdateCases ==
    ASSUME NEW o \in Trees, NEW w \in Trees, NEW merged, NEW p \in Paths,
           UpdatedAt(o, w, merged, p)
    PROVE  UpdateAt(o, w, merged, p)
<1>1. NoKey \notin Leaves /\ Nil \in Leaves /\ ~IsMap(NoKey) /\ ~IsMap(Nil)
    BY TreeAssumption DEF IsMap
<1>2. \A t \in Trees : NodeAt(t, p) = LastOn(t, p) \/ NodeAt(t, p) = NoKey
    BY DEF NodeAt
<1>3. CASE Stays(o, w, p)
    <2>1. CASE LastOn(o, p) = Nil
        BY <1>1, <1>2, <1>3, <2>1 DEF UpdatedAt, UpdateAt, Same
    <2>2. CASE IsValue(LastOn(w, p)) /\ (IsMap(NodeAt(o, p)) \/ NodeAt(w, p) = NoKey)
        BY <1>1, <1>2, <1>3, <2>2 DEF UpdatedAt, UpdateAt, Same
    <2>. QED  BY <1>3, <2>1, <2>2 DEF Stays
<1>4. CASE ~Stays(o, w, p)
    <2>1. LastOn(o, p) # Nil
        BY <1>4 DEF Stays
    <2>2. UpdateAt(o, w, merged, p) <=> Same(NodeAt(merged, p), Wanted(o, w, p))
        BY <1>4 DEF UpdateAt
    <2>3. CASE NodeAt(o, p) = NoKey
        <3>1. Wanted(o, w, p) = NodeAt(w, p)
            BY <2>3 DEF Wanted
        <3>. QED  BY <2>1, <2>2, <2>3, <3>1 DEF UpdatedAt
    <2>4. CASE NodeAt(o, p) # NoKey /\ NodeAt(w, p) \in {NoKey, Nil}
        BY <1>1, <1>2, <1>4, <2>2, <2>4 DEF UpdatedAt, Wanted, Stays, IsValue
    <2>5. CASE NodeAt(o, p) # NoKey /\ NodeAt(w, p) \notin {NoKey, Nil} /\ IsMap(NodeAt(o, p))
        BY <1>1, <1>2, <1>4, <2>2, <2>5 DEF UpdatedAt, Wanted, Stays, IsValue, IsMap, Same
    <2>6. CASE NodeAt(o, p) # NoKey /\ NodeAt(w, p) \notin {NoKey, Nil} /\ ~IsMap(NodeAt(o, p))
        BY <1>1, <1>2, <2>1, <2>2, <2>6 DEF UpdatedAt, Wanted, IsValue, IsMap
    <2>. QED  BY <2>3, <2>4, <2>5, <2>6
<1>. QED  BY <1>3, <1>4

(* recursiveAddAndUpdate takes the values of the new tree and adds what    *)
(* the old has not, but on the paths where the old tree stays.             *)
THEOREM UpdateExact ==
    \A old, new \in Trees : IsUpdate(old, new, recursiveAddAndUpdate(old, new))
<1>. SUFFICES ASSUME NEW old \in Trees, NEW new \in Trees
              PROVE  IsUpdate(old, new, recursiveAddAndUpdate(old, new))
    OBVIOUS
<1>1. recursiveAddAndUpdate(old, new) \in Trees
    BY MergesTyped
<1>. QED  BY <1>1, PathsTyped, UpdateOnPaths, UpdateCases DEF IsUpdate, PathsOfAny

-----------------------------------------------------------------------------
(* The routes of a tree.                                                   *)
LEMMA EmptyTyped ==
    /\ \A n \in Nat : EmptyTree \in TreesTo[n]
    /\ EmptyTree \in Trees /\ IsMap(EmptyTree)
    /\ \A k \in Names : EmptyTree[k] = NoKey
<1>1. \A k \in Names : EmptyTree[k] = NoKey
    BY DEF EmptyTree
<1>2. EmptyTree = [k \in Names |-> EmptyTree[k]]
    BY DEF EmptyTree
<1>3. \A n \in Nat : EmptyTree \in TreesTo[n]
    BY <1>1, <1>2, TreeOfChildren DEF Values
<1>. QED  BY <1>1, <1>3, TreesAreMaps, TreeAssumption DEF Trees

(* One value in a tree is replaced by another that is not too deep.        *)
LEMMA ExceptTyped ==
    ASSUME NEW n \in Nat, NEW t \in TreesTo[n], NEW k \in Names, NEW v,
           v \in Values \/ (n > 0 /\ v \in TreesTo[n - 1])
    PROVE  [t EXCEPT ![k] = v] \in TreesTo[n]
BY TreesDefined

LEMMA SingleTyped ==
    ASSUME NEW n \in Nat, NEW k \in Names, NEW v,
           v \in Values \/ (n > 0 /\ v \in TreesTo[n - 1])
    PROVE  Single(k, v) \in TreesTo[n]
BY EmptyTyped, ExceptTyped DEF Single

(* What is under a name of a name.                                         *)
LEMMA RoutesOfTree ==
    ASSUME NEW t \in Trees, IsMap(t[ZuulNode])
    PROVE  /\ t \in TreesTo[MaxDepth] /\ MaxDepth \in Nat /\ MaxDepth > 0
           /\ MaxDepth - 1 \in Nat /\ t[ZuulNode] \in TreesTo[MaxDepth - 1]
           /\ t[ZuulNode] \in Trees
           /\ \A k \in Names :
                \/ t[ZuulNode][k] \in Values /\ ~IsMap(t[ZuulNode][k])
                \/ /\ MaxDepth - 2 \in Nat /\ t[ZuulNode][k] \in TreesTo[MaxDepth - 2]
                   /\ t[ZuulNode][k] \in Trees /\ IsMap(t[ZuulNode][k])
<1>1. /\ t \in TreesTo[MaxDepth] /\ MaxDepth \in Nat /\ MaxDepth > 0 /\ ZuulNode \in Names
      /\ MaxDepth - 1 \in Nat /\ MaxDepth - 1 <= MaxDepth /\ MaxDepth <= MaxDepth
    BY TreeAssumption DEF Trees
<1>2. t[ZuulNode] \in TreesTo[MaxDepth - 1] /\ t[ZuulNode] \in Trees
    BY <1>1, Children, ChildrenAreTrees
<1>3. ASSUME NEW k \in Names
      PROVE  \/ t[ZuulNode][k] \in Values /\ ~IsMap(t[ZuulNode][k])
             \/ /\ (MaxDepth - 1) - 1 \in Nat /\ t[ZuulNode][k] \in TreesTo[(MaxDepth - 1) - 1]
                /\ t[ZuulNode][k] \in Trees /\ IsMap(t[ZuulNode][k])
    BY <1>1, <1>2, Children, ChildrenAreTrees
<1>4. (MaxDepth - 1) - 1 = MaxDepth - 2
    BY <1>1
<1>. QED  BY <1>1, <1>2, <1>3, <1>4

LEMMA SplitTyped ==
    ASSUME NEW t \in Trees
    PROVE  /\ WithoutRoutes(t) \in Trees /\ ~HasRoutes(WithoutRoutes(t))
           /\ RouteTree(t) \in Trees
<1>1. /\ {ZuulNode, RoutesNode} \subseteq Names /\ MaxDepth \in Nat /\ MaxDepth > 0
      /\ MaxDepth - 1 \in Nat /\ t \in TreesTo[MaxDepth]
    BY TreeAssumption DEF Trees
<1>2. CASE ~HasRoutes(t)
    <2>1. RouteTree(t) = Single(ZuulNode, EmptyTree) /\ WithoutRoutes(t) = t
        BY <1>2 DEF RouteTree, WithoutRoutes
    <2>. QED  BY <1>1, <1>2, <2>1, EmptyTyped, SingleTyped DEF Trees
<1>3. CASE HasRoutes(t)
    <2> DEFINE z == t[ZuulNode]
               left == [z EXCEPT ![RoutesNode] = NoKey]
               routes == Single(RoutesNode, z[RoutesNode])
    <2>1. /\ z \in TreesTo[MaxDepth - 1]
          /\ z[RoutesNode] \in Values
                \/ (MaxDepth - 1 > 0 /\ z[RoutesNode] \in TreesTo[(MaxDepth - 1) - 1])
        <3>1. MaxDepth - 2 \in Nat => MaxDepth - 1 > 0 /\ (MaxDepth - 1) - 1 = MaxDepth - 2
            BY <1>1
        <3>. QED  BY <1>1, <1>3, <3>1, RoutesOfTree DEF HasRoutes
    <2>2. left \in TreesTo[MaxDepth - 1] /\ routes \in TreesTo[MaxDepth - 1]
        BY <1>1, <2>1, ExceptTyped, SingleTyped DEF Values
    <2>3. WithoutRoutes(t) = [t EXCEPT ![ZuulNode] = left]
        BY <1>3 DEF WithoutRoutes
    <2>4. RouteTree(t) = Single(ZuulNode, routes)
        BY <1>3 DEF RouteTree
    <2>5. left[RoutesNode] = NoKey
        <3>1. RoutesNode \in DOMAIN z
            BY <1>1, <2>1, TreesDefined
        <3>. QED  BY <3>1
    <2>. HIDE DEF left, routes
    <2>6. WithoutRoutes(t) \in TreesTo[MaxDepth] /\ RouteTree(t) \in TreesTo[MaxDepth]
        <3>1. [t EXCEPT ![ZuulNode] = left] \in TreesTo[MaxDepth]
            BY <1>1, <2>2, ExceptTyped
        <3>2. Single(ZuulNode, routes) \in TreesTo[MaxDepth]
            BY <1>1, <2>2, SingleTyped
        <3>. QED  BY <2>3, <2>4, <3>1, <3>2
    <2>7. WithoutRoutes(t)[ZuulNode] = left
        <3>1. ZuulNode \in DOMAIN t
            BY <1>1, TreesDefined
        <3>. QED  BY <2>3, <3>1
    <2>. QED  BY <2>5, <2>6, <2>7 DEF HasRoutes, Has, Trees
<1>. QED  BY <1>2, <1>3

(* Where neither tree has routes, their merge has none.                    *)
LEMMA MergesMakeNoRoutes ==
    ASSUME NEW o \in Trees, NEW w \in Trees, ~HasRoutes(o), ~HasRoutes(w)
    PROVE  ~HasRoutes(recursiveAdd(o, w)) /\ ~HasRoutes(recursiveAddAndUpdate(o, w))
<1> DEFINE z == ZuulNode  r == RoutesNode
           a == recursiveAdd(o, w)  u == recursiveAddAndUpdate(o, w)
<1>1. /\ z \in Names /\ r \in Names
      /\ ~IsMap(NoKey) /\ ~IsMap(Nil)
    BY TreeAssumption DEF IsMap
<1>2. CASE IsMap(o[z]) /\ IsMap(w[z])
    <2>1. o[z] \in Trees /\ w[z] \in Trees /\ o[z] \notin {NoKey, Nil} /\ w[z] \notin {NoKey, Nil}
        BY <1>1, <1>2, ChildrenAreTrees
    <2>2. o[z][r] = NoKey /\ w[z][r] = NoKey
        BY <1>2 DEF HasRoutes, Has
    <2>3. a[z] = recursiveAdd(o[z], w[z]) /\ u[z] = recursiveAddAndUpdate(o[z], w[z])
        BY <1>1, <1>2, <2>1, AddDefined, UpdateDefined
    <2>4. recursiveAdd(o[z], w[z])[r] = NoKey /\ recursiveAddAndUpdate(o[z], w[z])[r] = NoKey
        BY <1>1, <2>1, <2>2, AddDefined, UpdateDefined
    <2>. QED  BY <2>3, <2>4 DEF HasRoutes, Has
<1>3. CASE ~(IsMap(o[z]) /\ IsMap(w[z]))
    <2>1. a[z] \in {o[z], w[z]} /\ u[z] \in {o[z], w[z]}
        BY <1>1, <1>3, AddDefined, UpdateDefined
    <2>. QED  BY <2>1 DEF HasRoutes
<1>. QED  BY <1>2, <1>3
=============================================================================
