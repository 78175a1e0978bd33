--------------------------- MODULE EventDispatch_proofs ---------------------------
(***************************************************************************)
(* Proofs about EventDispatch, for any targets, events and listeners, and   *)
(* any depth of dispatches inside dispatches.                              *)
(***************************************************************************)
EXTENDS EventDispatch, SequenceLemmas, FiniteSetTheorems

Listener == [id : Nat, callback : Callbacks \cup {Wrapper}, capture : BOOLEAN,
             once : BOOLEAN, passive : BOOLEAN]

-----------------------------------------------------------------------------
(* The tree, and the path of an event in it.                                *)

\* A parent is a target, and only nodes have one.
LEMMA ParentIsTarget ==
    ASSUME EventDispatchAssumption, NEW t \in Targets, ParentOf(t) # None
    PROVE  t \in Nodes /\ Parent[t] \in Targets /\ ParentOf(t) = Parent[t]
BY DEF ParentOf, EventDispatchAssumption

\* What holds of a target when it holds of its parent, or when it has none, holds of
\* every target.
LEMMA TreeInduction ==
    ASSUME EventDispatchAssumption, TreeAssumption, NEW K,
           \A t \in Targets : (ParentOf(t) # None => Parent[t] \in K) => t \in K
    PROVE  \A t \in Targets : t \in K
<1> DEFINE B == Targets \ K
<1> SUFFICES ASSUME B # {} PROVE FALSE
  OBVIOUS
<1>1. PICK t \in B : ParentOf(t) \notin B
  <2>1. B \in SUBSET Targets
    OBVIOUS
  <2> QED
    BY <2>1 DEF TreeAssumption
<1> QED
  BY <1>1, ParentIsTarget

\* f is computed along the tree: b gives the values of the targets without a parent,
\* and G the value of any other from it and the value of its parent.
TreeComputes(f, V, b, G) ==
    /\ f \in [Targets -> V]
    /\ \A t \in Targets :
          f[t] = IF ParentOf(t) = None THEN b[t] ELSE G[<<t, f[Parent[t]]>>]

\* There is such a function: the least relation that is closed under b and G gives
\* every target one value.
LEMMA TreeRecursion ==
    ASSUME EventDispatchAssumption, TreeAssumption, NEW V, NEW b, NEW G,
           \A t \in Targets : b[t] \in V,
           \A t \in Targets : ParentOf(t) # None => \A v \in V : G[<<t, v>>] \in V
    PROVE  \E f : TreeComputes(f, V, b, G)
<1> DEFINE Closing(Q) ==
              \A t \in Targets :
                  /\ ParentOf(t) = None => <<t, b[t]>> \in Q
                  /\ ParentOf(t) # None =>
                        \A v \in V : <<Parent[t], v>> \in Q => <<t, G[<<t, v>>]>> \in Q
           R == {p \in Targets \X V : \A Q \in SUBSET (Targets \X V) : Closing(Q) => p \in Q}
<1>1. Closing(R)
  <2> SUFFICES ASSUME NEW t \in Targets
               PROVE  /\ ParentOf(t) = None => <<t, b[t]>> \in R
                      /\ ParentOf(t) # None =>
                            \A v \in V : <<Parent[t], v>> \in R => <<t, G[<<t, v>>]>> \in R
    OBVIOUS
  <2>1. ParentOf(t) = None => <<t, b[t]>> \in R
    OBVIOUS
  <2>2. ASSUME ParentOf(t) # None, NEW v \in V, <<Parent[t], v>> \in R
        PROVE  <<t, G[<<t, v>>]>> \in R
    <3>1. <<t, G[<<t, v>>]>> \in Targets \X V
      BY <2>2
    <3>2. ASSUME NEW Q \in SUBSET (Targets \X V), Closing(Q) PROVE <<t, G[<<t, v>>]>> \in Q
      <4>1. <<Parent[t], v>> \in Q
        BY <2>2, <3>2
      <4> QED
        BY <4>1, <2>2, <3>2
    <3> QED
      BY <3>1, <3>2
  <2> QED
    BY <2>1, <2>2
<1>2. ASSUME NEW Q \in SUBSET (Targets \X V), Closing(Q), NEW p \in R PROVE p \in Q
  BY <1>2
<1>3. R \subseteq Targets \X V
  OBVIOUS
<1> HIDE DEF R
<1> DEFINE K == {t \in Targets : \E v \in V : <<t, v>> \in R /\ \A w \in V : <<t, w>> \in R => w = v}
<1>4. ASSUME NEW t \in Targets, ParentOf(t) # None => Parent[t] \in K PROVE t \in K
  <2> SUFFICES \E v \in V : <<t, v>> \in R /\ \A w \in V : <<t, w>> \in R => w = v
    OBVIOUS
  <2>1. ASSUME NEW w \in V, <<t, w>> \in R, Closing(R \ {<<t, w>>})
        PROVE  FALSE
    <3> DEFINE Q == R \ {<<t, w>>}
    <3>1. Q \in SUBSET (Targets \X V) /\ Closing(Q)
      BY <2>1, <1>3
    <3> HIDE DEF Q, Closing
    <3>2. <<t, w>> \in Q
      BY <3>1, <2>1, <1>2
    <3> QED
      BY <3>2 DEF Q
  <2>2. CASE ParentOf(t) = None
    <3> DEFINE v == b[t]
    <3>1. v \in V /\ <<t, v>> \in R
      BY <1>1, <2>2
    <3>2. ASSUME NEW w \in V, <<t, w>> \in R, w # v PROVE FALSE
      <4>1. Closing(R \ {<<t, w>>})
        BY <1>1, <2>2, <3>2
      <4> QED
        BY <4>1, <2>1, <3>2
    <3> QED
      BY <3>1, <3>2
  <2>3. CASE ParentOf(t) # None
    <3>0. Parent[t] \in K
      BY <1>4, <2>3
    <3>1. PICK u \in V : <<Parent[t], u>> \in R /\ \A w \in V : <<Parent[t], w>> \in R => w = u
      BY <3>0
    <3> DEFINE v == G[<<t, u>>]
    <3>2. v \in V /\ <<t, v>> \in R
      BY <1>1, <2>3, <3>1
    <3>3. ASSUME NEW w \in V, <<t, w>> \in R, w # v PROVE FALSE
      <4>1. Closing(R \ {<<t, w>>})
        <5> SUFFICES ASSUME NEW x \in Targets
                     PROVE  /\ ParentOf(x) = None => <<x, b[x]>> \in R \ {<<t, w>>}
                            /\ ParentOf(x) # None =>
                                  \A y \in V : <<Parent[x], y>> \in R \ {<<t, w>>}
                                      => <<x, G[<<x, y>>]>> \in R \ {<<t, w>>}
          OBVIOUS
        <5>1. ParentOf(x) = None => <<x, b[x]>> \in R \ {<<t, w>>}
          BY <1>1, <2>3
        <5>2. ASSUME ParentOf(x) # None, NEW y \in V, <<Parent[x], y>> \in R
              PROVE  <<x, G[<<x, y>>]>> \in R \ {<<t, w>>}
          <6>1. <<x, G[<<x, y>>]>> \in R
            BY <5>2, <1>1
          <6>2. CASE x = t
            <7>1. y = u
              BY <6>2, <5>2, <3>1
            <7> QED
              BY <7>1, <6>1, <6>2, <3>3
          <6>3. CASE x # t
            BY <6>1, <6>3
          <6> QED
            BY <6>2, <6>3
        <5> QED
          BY <5>1, <5>2
      <4> QED
        BY <4>1, <2>1, <3>2, <3>3
    <3> HIDE DEF v
    <3> QED
      BY <3>2, <3>3
  <2> QED
    BY <2>2, <2>3
<1> HIDE DEF Closing, K
<1>5. \A t \in Targets : t \in K
  BY <1>4, TreeInduction
<1> DEFINE f == [t \in Targets |-> CHOOSE v \in V : <<t, v>> \in R]
<1>6. ASSUME NEW t \in Targets
      PROVE  f[t] \in V /\ <<t, f[t]>> \in R /\ \A w \in V : <<t, w>> \in R => w = f[t]
  BY <1>5 DEF K
<1>7. f \in [Targets -> V]
  BY <1>6
<1> HIDE DEF f
<1>8. ASSUME NEW t \in Targets
      PROVE  f[t] = IF ParentOf(t) = None THEN b[t] ELSE G[<<t, f[Parent[t]]>>]
  <2>1. CASE ParentOf(t) = None
    <3>1. <<t, b[t]>> \in R /\ b[t] \in V
      BY <2>1, <1>1 DEF Closing
    <3> QED
      BY <3>1, <2>1, <1>6
  <2>2. CASE ParentOf(t) # None
    <3>1. Parent[t] \in Targets
      BY <2>2, ParentIsTarget
    <3>2. f[Parent[t]] \in V /\ <<Parent[t], f[Parent[t]]>> \in R
      BY <3>1, <1>6
    <3>3. <<t, G[<<t, f[Parent[t]]>>]>> \in R /\ G[<<t, f[Parent[t]]>>] \in V
      BY <3>2, <2>2, <1>1 DEF Closing
    <3> QED
      BY <3>3, <2>2, <1>6
  <2> QED
    BY <2>1, <2>2
<1> QED
  BY <1>7, <1>8 DEF TreeComputes

\* The two functions that recur along the tree satisfy their equations.
LEMMA InclusiveAncestorsOf ==
    ASSUME EventDispatchAssumption, TreeAssumption, NEW t \in Targets
    PROVE  InclusiveAncestors[t] =
              IF t \notin Nodes THEN {}
              ELSE {t} \cup (IF ParentOf(t) = None THEN {} ELSE InclusiveAncestors[Parent[t]])
<1> DEFINE V == SUBSET Targets
           b == [u \in Targets |-> IF u \in Nodes THEN {u} ELSE {}]
           G == [p \in Targets \X V |-> IF p[1] \in Nodes THEN {p[1]} \cup p[2] ELSE {}]
           R(f) == f = [u \in Targets |->
                           IF u \notin Nodes THEN {}
                           ELSE {u} \cup (IF ParentOf(u) = None THEN {} ELSE f[Parent[u]])]
<1>1. \A u \in Targets : b[u] \in V
  OBVIOUS
<1>2. \A u \in Targets : \A v \in V : G[<<u, v>>] \in V
  OBVIOUS
<1>3. \A u \in Targets : \A v \in V :
         G[<<u, v>>] = IF u \in Nodes THEN {u} \cup v ELSE {}
  OBVIOUS
<1>4. \A u \in Targets : b[u] = IF u \in Nodes THEN {u} ELSE {}
  OBVIOUS
<1> HIDE DEF b, G, V
<1>5. PICK g : TreeComputes(g, V, b, G)
  BY <1>1, <1>2, TreeRecursion
<1>6. ASSUME NEW u \in Targets
      PROVE  g[u] = IF u \notin Nodes THEN {}
                    ELSE {u} \cup (IF ParentOf(u) = None THEN {} ELSE g[Parent[u]])
  <2>1. CASE ParentOf(u) = None
    BY <2>1, <1>4, <1>5 DEF TreeComputes
  <2>2. CASE ParentOf(u) # None
    <3>1. g[Parent[u]] \in V
      BY <2>2, <1>5, ParentIsTarget DEF TreeComputes
    <3> QED
      BY <2>2, <3>1, <1>3, <1>5 DEF TreeComputes
  <2> QED
    BY <2>1, <2>2
<1>7. R(g)
  <2>1. g = [u \in Targets |-> g[u]]
    BY <1>5 DEF TreeComputes
  <2> QED
    BY <2>1, <1>6, Zenon
<1>8. InclusiveAncestors = CHOOSE f : R(f)
  BY Zenon DEF InclusiveAncestors
<1>9. R(InclusiveAncestors)
  BY <1>7, <1>8, Zenon
<1> QED
  BY <1>9

\* What a path consists of.
PathTuple == [item : Targets, target : Targets \cup {None}, rootOfClosedTree : BOOLEAN]

\* The tuple of the parent p of a target, ...
ParentItem(p, impl) ==
    IF p \in Nodes /\ IsShadowInclusiveAncestor(RootOf[impl], p)
    THEN PathItem(p, None) ELSE PathItem(p, p)

\* ... and the target of the tuples above it.
ParentImpl(p, impl) ==
    IF p \in Nodes /\ IsShadowInclusiveAncestor(RootOf[impl], p) THEN impl ELSE p

\* The tuples above a target: that of its parent, then those above the parent.
LEMMA AboveOf ==
    ASSUME EventDispatchAssumption, TreeAssumption, NEW t \in Targets, NEW impl \in Targets
    PROVE  /\ Above[t][impl] \in Seq(PathTuple)
           /\ Above[t][impl] =
                 IF ParentOf(t) = None THEN <<>>
                 ELSE <<ParentItem(Parent[t], impl)>>
                      \o Above[Parent[t]][ParentImpl(Parent[t], impl)]
<1> DEFINE V == [Targets -> Seq(PathTuple)]
           b == [u \in Targets |-> [i \in Targets |-> <<>>]]
           G == [p \in Targets \X V |-> [i \in Targets |->
                    <<ParentItem(Parent[p[1]], i)>> \o p[2][ParentImpl(Parent[p[1]], i)]]]
           Step(f, u) == [i \in Targets |->
                    IF ParentOf(u) = None THEN <<>>
                    ELSE LET p == Parent[u] IN
                         IF p \in Nodes /\ IsShadowInclusiveAncestor(RootOf[i], p)
                         THEN <<PathItem(p, None)>> \o f[p][i]
                         ELSE <<PathItem(p, p)>> \o f[p][p]]
           R(f) == f = [u \in Targets |-> Step(f, u)]
           TB == {u \in Targets : ParentOf(u) # None}
<1>0. \A p \in Targets, i \in Targets : ParentItem(p, i) \in PathTuple /\ ParentImpl(p, i) \in Targets
  BY DEF ParentItem, ParentImpl, PathItem, PathTuple
<1>1. \A u \in Targets : b[u] \in V /\ \A i \in Targets : b[u][i] = <<>>
  OBVIOUS
<1>2. ASSUME NEW u \in Targets, ParentOf(u) # None, NEW v \in V
      PROVE  /\ G[<<u, v>>] \in V
             /\ \A i \in Targets : G[<<u, v>>][i] =
                   <<ParentItem(Parent[u], i)>> \o v[ParentImpl(Parent[u], i)]
  <2>1. Parent[u] \in Targets
    BY <1>2, ParentIsTarget
  <2>2. G[<<u, v>>] = [i \in Targets |->
                         <<ParentItem(Parent[u], i)>> \o v[ParentImpl(Parent[u], i)]]
    OBVIOUS
  <2> HIDE DEF G
  <2>3. ASSUME NEW i \in Targets
        PROVE  <<ParentItem(Parent[u], i)>> \o v[ParentImpl(Parent[u], i)] \in Seq(PathTuple)
    <3> DEFINE x == ParentItem(Parent[u], i)
               y == v[ParentImpl(Parent[u], i)]
    <3>1. x \in PathTuple /\ y \in Seq(PathTuple)
      BY <1>0, <2>1
    <3> HIDE DEF x, y
    <3>2. <<x>> \in Seq(PathTuple)
      BY <3>1
    <3> QED
      BY <3>1, <3>2, ConcatProperties DEF x, y
  <2> QED
    BY <2>2, <2>3
<1> HIDE DEF b, G, V
<1>3. PICK g : TreeComputes(g, V, b, G)
  BY <1>1, <1>2, TreeRecursion
<1>4. ASSUME NEW u \in Targets PROVE g[u] = Step(g, u)
  <2>0. g[u] = [i \in Targets |-> g[u][i]]
    BY <1>3 DEF TreeComputes, V
  <2>1. ASSUME NEW i \in Targets, ParentOf(u) = None PROVE g[u][i] = <<>>
    BY <2>1, <1>1, <1>3 DEF TreeComputes
  <2>2. ASSUME NEW i \in Targets, ParentOf(u) # None
        PROVE  g[u][i] = <<ParentItem(Parent[u], i)>> \o g[Parent[u]][ParentImpl(Parent[u], i)]
    <3> DEFINE v == g[Parent[u]]
    <3>1. v \in V
      BY <2>2, <1>3, ParentIsTarget DEF TreeComputes
    <3>2. g[u] = G[<<u, v>>]
      BY <2>2, <1>3 DEF TreeComputes
    <3> HIDE DEF v
    <3>3. G[<<u, v>>][i] = <<ParentItem(Parent[u], i)>> \o v[ParentImpl(Parent[u], i)]
      BY <3>1, <1>2, <2>2
    <3>4. g[u][i] = <<ParentItem(Parent[u], i)>> \o v[ParentImpl(Parent[u], i)]
      BY <3>2, <3>3, Zenon
    <3> QED
      BY <3>4 DEF v
  <2>3. ASSUME NEW i \in Targets
        PROVE  g[u][i] = IF ParentOf(u) = None THEN <<>>
                    ELSE LET p == Parent[u] IN
                         IF p \in Nodes /\ IsShadowInclusiveAncestor(RootOf[i], p)
                         THEN <<PathItem(p, None)>> \o g[p][i]
                         ELSE <<PathItem(p, p)>> \o g[p][p]
    BY <2>1, <2>2, <2>3, Zenon DEF ParentItem, ParentImpl
  <2> QED
    BY <2>0, <2>3, Zenon
<1>5. R(g)
  <2>1. g = [u \in Targets |-> g[u]]
    BY <1>3 DEF TreeComputes
  <2> QED
    BY <2>1, <1>4, Zenon
<1>6. Above = CHOOSE f : R(f)
  BY Zenon DEF Above
<1>7. R(Above)
  BY <1>5, <1>6, Zenon
<1> HIDE DEF R
<1>8. ASSUME NEW u \in Targets, NEW i \in Targets
      PROVE  Above[u][i] = IF ParentOf(u) = None THEN <<>>
                           ELSE <<ParentItem(Parent[u], i)>>
                                \o Above[Parent[u]][ParentImpl(Parent[u], i)]
  <2>1. Above[u][i] = Step(Above, u)[i]
    BY <1>7, Zenon DEF R
  <2>2. CASE ParentOf(u) = None
    BY <2>1, <2>2
  <2>3. CASE ParentOf(u) # None
    <3> DEFINE p == Parent[u]
               seen == p \in Nodes /\ IsShadowInclusiveAncestor(RootOf[i], p)
    <3>1. Step(Above, u)[i] = IF seen THEN <<PathItem(p, None)>> \o Above[p][i]
                              ELSE <<PathItem(p, p)>> \o Above[p][p]
      BY <2>3
    <3>2. ParentItem(p, i) = IF seen THEN PathItem(p, None) ELSE PathItem(p, p)
      BY DEF ParentItem
    <3>3. ParentImpl(p, i) = IF seen THEN i ELSE p
      BY DEF ParentImpl
    <3> HIDE DEF p, seen
    <3>4. CASE seen
      BY <2>1, <3>1, <3>2, <3>3, <3>4, <2>3, Zenon DEF p
    <3>5. CASE ~seen
      BY <2>1, <3>1, <3>2, <3>3, <3>5, <2>3, Zenon DEF p
    <3> QED
      BY <3>4, <3>5
  <2> QED
    BY <2>2, <2>3
<1> HIDE DEF Step
<1> DEFINE K == {u \in Targets : \A i \in Targets : Above[u][i] \in Seq(PathTuple)}
<1>9. ASSUME NEW u \in Targets, ParentOf(u) # None => Parent[u] \in K PROVE u \in K
  <2> SUFFICES ASSUME NEW i \in Targets PROVE Above[u][i] \in Seq(PathTuple)
    OBVIOUS
  <2>1. CASE ParentOf(u) = None
    BY <2>1, <1>8, EmptySeq
  <2>2. CASE ParentOf(u) # None
    <3> DEFINE x == ParentItem(Parent[u], i)
               y == Above[Parent[u]][ParentImpl(Parent[u], i)]
    <3>1. x \in PathTuple /\ y \in Seq(PathTuple)
      BY <1>0, <1>9, <2>2, ParentIsTarget
    <3>2. Above[u][i] = <<x>> \o y
      BY <1>8, <2>2
    <3> HIDE DEF x, y
    <3>3. <<x>> \in Seq(PathTuple)
      BY <3>1
    <3> QED
      BY <3>1, <3>2, <3>3, ConcatProperties
  <2> QED
    BY <2>1, <2>2
<1> HIDE DEF K
<1>10. t \in K
  BY <1>9, TreeInduction
<1> QED
  BY <1>8, <1>10 DEF K

\* s is a way up: it leads from t from parent to parent to where the tree ends.
Climbs(s, t) ==
    /\ s \in Seq(PathTuple) /\ Len(s) >= 1 /\ s[1].item = t
    /\ \A i \in 1 .. Len(s) : s[i].rootOfClosedTree <=> s[i].item \in Closed
    /\ \A i \in 1 .. Len(s) - 1 :
          ParentOf(s[i].item) # None /\ s[i + 1].item = Parent[s[i].item]
    /\ ParentOf(s[Len(s)].item) = None

\* x is a tuple of t.
ItemOf(x, t) == x \in PathTuple /\ x.item = t /\ (x.rootOfClosedTree <=> t \in Closed)

\* appendToEventPath makes a tuple of its target.
LEMMA PathItemOf ==
    ASSUME NEW t \in Targets, NEW o \in Targets \cup {None}
    PROVE  ItemOf(PathItem(t, o), t)
<1> DEFINE c == t \in Closed
           x == PathItem(t, o)
<1>1. c \in BOOLEAN
  OBVIOUS
<1>2. x = [item |-> t, target |-> o, rootOfClosedTree |-> c]
  BY DEF PathItem
<1> HIDE DEF x, c
<1>3. x \in PathTuple /\ x.item = t /\ x.rootOfClosedTree = c
  BY <1>1, <1>2 DEF PathTuple
<1>4. x.rootOfClosedTree <=> t \in Closed
  BY <1>3, Zenon DEF c
<1> QED
  BY <1>3, <1>4 DEF ItemOf, x

\* A way up starts at a target without a parent, ...
LEMMA ClimbsOne ==
    ASSUME NEW x, NEW t, ItemOf(x, t), ParentOf(t) = None
    PROVE  Climbs(<<x>> \o <<>>, t)
<1>1. <<x>> \in Seq(PathTuple) /\ Len(<<x>>) = 1 /\ <<x>>[1] = x
  BY DEF ItemOf
<1>2. <<x>> \o <<>> = <<x>>
  BY <1>1, ConcatEmptySeq
<1> DEFINE s == <<x>>
<1> HIDE DEF s
<1>3. Climbs(s, t)
  BY <1>1 DEF Climbs, ItemOf, s
<1> QED
  BY <1>2, <1>3 DEF s

\* ... or at one from whose parent there is a way up.
LEMMA ClimbsMore ==
    ASSUME NEW x, NEW t, NEW r, ItemOf(x, t), ParentOf(t) # None, Climbs(r, Parent[t])
    PROVE  Climbs(<<x>> \o r, t)
<1> DEFINE o == <<x>>
           s == o \o r
<1>1. o \in Seq(PathTuple) /\ Len(o) = 1 /\ o[1] = x
  BY DEF ItemOf
<1> HIDE DEF o
<1>2. r \in Seq(PathTuple) /\ Len(r) \in Nat /\ Len(r) >= 1
  BY LenProperties DEF Climbs
<1>3. /\ s \in Seq(PathTuple) /\ Len(s) = 1 + Len(r)
      /\ \A i \in 1 .. 1 + Len(r) : s[i] = IF i <= 1 THEN o[i] ELSE r[i - 1]
  BY <1>1, <1>2, ConcatProperties
<1> HIDE DEF s
<1>4. s[1] = x /\ \A i \in 1 .. Len(r) : s[i + 1] = r[i]
  BY <1>1, <1>2, <1>3
<1>5. ASSUME NEW i \in 1 .. Len(s) PROVE s[i].rootOfClosedTree <=> s[i].item \in Closed
  <2>1. CASE i = 1
    BY <2>1, <1>4 DEF ItemOf
  <2>2. CASE i # 1
    <3>1. i - 1 \in 1 .. Len(r) /\ s[i] = r[i - 1]
      BY <2>2, <1>2, <1>3
    <3> QED
      BY <3>1 DEF Climbs
  <2> QED
    BY <2>1, <2>2
<1>6. ASSUME NEW i \in 1 .. Len(s) - 1
      PROVE  ParentOf(s[i].item) # None /\ s[i + 1].item = Parent[s[i].item]
  <2>1. CASE i = 1
    <3>1. s[2] = r[1]
      BY <1>2, <1>4
    <3> QED
      BY <2>1, <3>1, <1>4 DEF ItemOf, Climbs
  <2>2. CASE i # 1
    <3>1. i - 1 \in 1 .. Len(r) - 1 /\ i \in 1 .. Len(r)
      BY <2>2, <1>2, <1>3
    <3>2. s[i] = r[i - 1] /\ s[i + 1] = r[i]
      BY <2>2, <3>1, <1>2, <1>3, <1>4
    <3>3. (i - 1) + 1 = i
      BY <3>1
    <3> QED
      BY <3>1, <3>2, <3>3 DEF Climbs
  <2> QED
    BY <2>1, <2>2
<1>7. s[Len(s)] = r[Len(r)]
  BY <1>2, <1>3, <1>4
<1>8. s[1].item = t /\ Len(s) >= 1 /\ s \in Seq(PathTuple)
  BY <1>2, <1>3, <1>4 DEF ItemOf
<1> QED
  BY <1>5, <1>6, <1>7, <1>8 DEF Climbs, s, o

\* The path of every target is a way up from it.
LEMMA PathClimbs ==
    ASSUME EventDispatchAssumption, TreeAssumption, NEW t \in Targets
    PROVE  Climbs(Path[t], t)
<1> DEFINE K == {u \in Targets : \A i \in Targets, x \in PathTuple :
                    ItemOf(x, u) => Climbs(<<x>> \o Above[u][i], u)}
<1>1. ASSUME NEW u \in Targets, ParentOf(u) # None => Parent[u] \in K PROVE u \in K
  <2> SUFFICES ASSUME NEW i \in Targets, NEW x \in PathTuple, ItemOf(x, u)
               PROVE  Climbs(<<x>> \o Above[u][i], u)
    OBVIOUS
  <2>1. CASE ParentOf(u) = None
    <3>1. Above[u][i] = <<>>
      BY <2>1, AboveOf
    <3> QED
      BY <3>1, <2>1, ClimbsOne
  <2>2. CASE ParentOf(u) # None
    <3> DEFINE p == Parent[u]
               y == ParentItem(p, i)
               r == <<y>> \o Above[p][ParentImpl(p, i)]
    <3>1. p \in Targets /\ ParentImpl(p, i) \in Targets /\ ItemOf(y, p)
      BY <2>2, ParentIsTarget, PathItemOf DEF ParentImpl, ParentItem
    <3>2. y \in PathTuple
      BY <3>1 DEF ItemOf
    <3>3. p \in K
      BY <1>1, <2>2
    <3> HIDE DEF y
    <3>4. Climbs(r, p)
      BY <3>1, <3>2, <3>3
    <3>5. Above[u][i] = r
      BY <2>2, AboveOf DEF y
    <3> HIDE DEF r
    <3> QED
      BY <3>4, <3>5, <2>2, ClimbsMore
  <2> QED
    BY <2>1, <2>2
<1> HIDE DEF K
<1>2. t \in K
  BY <1>1, TreeInduction
<1>3. ItemOf(PathItem(t, t), t) /\ PathItem(t, t) \in PathTuple
  BY PathItemOf DEF ItemOf
<1>4. Path[t] = <<PathItem(t, t)>> \o Above[t][t]
  BY DEF Path
<1> DEFINE x == PathItem(t, t)
<1> HIDE DEF x
<1>5. Climbs(<<x>> \o Above[t][t], t)
  BY <1>2, <1>3 DEF K, x
<1> QED
  BY <1>4, <1>5 DEF x

\* A way up the tree visits no target twice.
LEMMA ClimbsOnce ==
    ASSUME EventDispatchAssumption, TreeAssumption, NEW t, NEW s, Climbs(s, t),
           NEW i \in 1 .. Len(s), NEW j \in 1 .. Len(s), s[i].item = s[j].item
    PROVE  i = j
<1>0. Len(s) \in Nat /\ \A k \in 1 .. Len(s) : s[k].item \in Targets
  <2>1. s \in Seq(PathTuple)
    BY DEF Climbs
  <2>2. \A k \in 1 .. Len(s) : s[k] \in PathTuple
    BY <2>1, ElementOfSeq
  <2> QED
    BY <2>1, <2>2, LenProperties DEF PathTuple
<1>1. ASSUME NEW a \in 1 .. Len(s), NEW b \in 1 .. Len(s), a < b, s[a].item = s[b].item
      PROVE  FALSE
  <2> DEFINE S == {s[k].item : k \in a .. b - 1}
  <2>1. S \in SUBSET Targets /\ S # {} /\ s[a].item \in S
    BY <1>0, <1>1
  <2>2. PICK u \in S : ParentOf(u) \notin S
    BY <2>1 DEF TreeAssumption
  <2>3. PICK k \in a .. b - 1 : u = s[k].item
    BY <2>2
  <2>4. k \in 1 .. Len(s) - 1
    BY <1>0, <2>3
  <2>5. ParentOf(u) = s[k + 1].item
    <3>1. ParentOf(s[k].item) # None /\ s[k + 1].item = Parent[s[k].item]
      BY <2>4 DEF Climbs
    <3>2. s[k].item \in Targets
      BY <1>0, <2>4
    <3> QED
      BY <3>1, <3>2, <2>3, ParentIsTarget
  <2>6. CASE k + 1 \in a .. b - 1
    BY <2>2, <2>5, <2>6
  <2>7. CASE k + 1 = b
    BY <2>1, <2>2, <2>5, <2>7, <1>1
  <2> QED
    BY <2>3, <2>6, <2>7, <1>0
<1> QED
  BY <1>0, <1>1

\* A way up has targets only.
LEMMA ClimbsTyped ==
    ASSUME NEW s, NEW t, Climbs(s, t)
    PROVE  Len(s) \in Nat /\ s # <<>> /\ DOMAIN s = 1 .. Len(s)
           /\ \A k \in 1 .. Len(s) : s[k] \in PathTuple /\ s[k].item \in Targets
<1>1. s \in Seq(PathTuple) /\ Len(s) >= 1
  BY DEF Climbs
<1>2. \A k \in 1 .. Len(s) : s[k] \in PathTuple
  BY <1>1, ElementOfSeq
<1>3. Len(s) \in Nat /\ DOMAIN s = 1 .. Len(s) /\ s # <<>>
  BY <1>1, LenProperties, EmptySeq
<1> QED
  BY <1>2, <1>3 DEF PathTuple

\* The inclusive ancestors of a target on the path are what follows it there.
LEMMA AncestorsFollow ==
    ASSUME EventDispatchAssumption, TreeAssumption, NEW t, NEW s, Climbs(s, t),
           NEW r \in Nodes
    PROVE  \A i \in 1 .. Len(s) :
              r \in InclusiveAncestors[s[i].item] <=> \E j \in i .. Len(s) : s[j].item = r
<1> DEFINE K == {u \in Targets : \A i \in 1 .. Len(s) : s[i].item = u =>
                    (r \in InclusiveAncestors[u] <=> \E j \in i .. Len(s) : s[j].item = r)}
<1>1. ASSUME NEW u \in Targets, ParentOf(u) # None => Parent[u] \in K PROVE u \in K
  <2> SUFFICES ASSUME NEW i \in 1 .. Len(s), s[i].item = u
               PROVE  r \in InclusiveAncestors[u] <=> \E j \in i .. Len(s) : s[j].item = r
    OBVIOUS
  <2>0. Len(s) \in Nat /\ i \in Nat /\ 1 <= i /\ i <= Len(s)
    BY ClimbsTyped
  <2>1. CASE ParentOf(u) = None
    <3>1. i = Len(s)
      <4>1. i \in 1 .. Len(s) - 1 => ParentOf(s[i].item) # None
        BY DEF Climbs
      <4> QED
        BY <4>1, <2>0, <2>1
    <3>2. InclusiveAncestors[u] = IF u \notin Nodes THEN {} ELSE {u}
      BY <2>1, InclusiveAncestorsOf
    <3>3. i .. Len(s) = {i}
      BY <3>1, <2>0
    <3> QED
      BY <3>2, <3>3
  <2>2. CASE ParentOf(u) # None
    <3>1. i \in 1 .. Len(s) - 1
      <4>1. ParentOf(s[Len(s)].item) = None
        BY DEF Climbs
      <4> QED
        BY <4>1, <2>0, <2>2
    <3>2. s[i + 1].item = Parent[u] /\ i + 1 \in 1 .. Len(s)
      BY <2>0, <3>1 DEF Climbs
    <3>3. u \in Nodes /\ Parent[u] \in Targets
      BY <2>2, ParentIsTarget
    <3>4. InclusiveAncestors[u] = {u} \cup InclusiveAncestors[Parent[u]]
      BY <2>2, <3>3, InclusiveAncestorsOf
    <3>5. r \in InclusiveAncestors[Parent[u]] <=> \E j \in i + 1 .. Len(s) : s[j].item = r
      BY <3>2, <1>1, <2>2
    <3>6. i .. Len(s) = {i} \cup (i + 1 .. Len(s))
      BY <2>0
    <3> QED
      BY <3>4, <3>5, <3>6
  <2> QED
    BY <2>1, <2>2
<1> HIDE DEF K
<1>2. \A u \in Targets : u \in K
  BY <1>1, TreeInduction
<1> QED
  BY <1>2, ClimbsTyped DEF K

\* What composedPath does not hide is what the current target may know of.
LEMMA ShownIsVisible ==
    ASSUME EventDispatchAssumption, TreeAssumption, NEW t, NEW s, Climbs(s, t),
           NEW i \in 1 .. Len(s), NEW k \in 1 .. Len(s)
    PROVE  ~Hidden(s, i, k) <=>
              \A r \in Closed : IsShadowInclusiveAncestor(r, s[i].item)
                                   => IsShadowInclusiveAncestor(r, s[k].item)
<1>1. Len(s) \in Nat /\ Closed \subseteq Nodes
  BY ClimbsTyped DEF EventDispatchAssumption
<1>2. \A m \in 1 .. Len(s) : s[m].rootOfClosedTree <=> s[m].item \in Closed
  BY DEF Climbs
<1>3. ASSUME NEW r \in Closed, NEW m \in 1 .. Len(s)
      PROVE  IsShadowInclusiveAncestor(r, s[m].item) <=> \E j \in m .. Len(s) : s[j].item = r
  BY <1>1, AncestorsFollow DEF IsShadowInclusiveAncestor
<1>4. ASSUME ~Hidden(s, i, k), NEW r \in Closed, IsShadowInclusiveAncestor(r, s[i].item)
      PROVE  IsShadowInclusiveAncestor(r, s[k].item)
  <2>1. PICK j \in i .. Len(s) : s[j].item = r
    BY <1>3, <1>4
  <2>2. j \in 1 .. Len(s)
    BY <1>1
  <2>3. s[j].rootOfClosedTree
    BY <1>2, <2>1, <2>2
  <2>4. j \notin i .. k - 1
    BY <1>4, <2>3 DEF Hidden
  <2>5. j \in k .. Len(s)
    BY <1>1, <2>4
  <2> QED
    BY <1>3, <2>1, <2>5
<1>5. ASSUME NEW m \in i .. k - 1, s[m].rootOfClosedTree,
             \A r \in Closed : IsShadowInclusiveAncestor(r, s[i].item)
                                   => IsShadowInclusiveAncestor(r, s[k].item)
      PROVE  FALSE
  <2>1. m \in 1 .. Len(s) /\ m \in i .. Len(s)
    BY <1>1
  <2>2. s[m].item \in Closed
    BY <1>2, <1>5, <2>1
  <2>3. IsShadowInclusiveAncestor(s[m].item, s[i].item)
    BY <1>3, <2>1, <2>2
  <2>4. PICK j \in k .. Len(s) : s[j].item = s[m].item
    BY <1>3, <1>5, <2>2, <2>3
  <2>5. j \in 1 .. Len(s)
    BY <1>1
  <2>6. j = m
    BY <2>1, <2>4, <2>5, ClimbsOnce
  <2> QED
    BY <1>1, <2>4, <2>6
<1> QED
  BY <1>4, <1>5 DEF Hidden

\* composedPath, for a current target on the path.
LEMMA ComposedPathOf ==
    ASSUME EventDispatchAssumption, TreeAssumption, NEW t, NEW s, Climbs(s, t),
           NEW k \in 1 .. Len(s)
    PROVE  ComposedPath(s, s[k].item) =
              Select([i \in DOMAIN s |-> s[i].item],
                     {u \in Targets : \A r \in Closed :
                         IsShadowInclusiveAncestor(r, u)
                            => IsShadowInclusiveAncestor(r, s[k].item)})
<1> DEFINE N == Len(s)
           c == s[k].item
           U == {u \in Targets : \A r \in Closed :
                    IsShadowInclusiveAncestor(r, u) => IsShadowInclusiveAncestor(r, c)}
           T == {i \in DOMAIN s : ~Hidden(s, i, k)}
           ids == [i \in DOMAIN s |-> i]
           g == [i \in DOMAIN s |-> s[i].item]
           shown == Select(ids, T)
<1>1. N \in Nat /\ DOMAIN s = 1 .. N /\ \A i \in 1 .. N : s[i].item \in Targets
  BY ClimbsTyped
<1>2. (CHOOSE i \in DOMAIN s : s[i].item = c) = k
  BY <1>1, ClimbsOnce
<1>3. ComposedPath(s, c) = [n \in DOMAIN shown |-> s[shown[n]].item]
  BY <1>2, Zenon DEF ComposedPath
<1>4. ids \in Seq(1 .. N) /\ Len(ids) = N /\ \A i \in 1 .. N : ids[i] = i
  BY <1>1, IsASeq
<1>5. g \in Seq(Targets) /\ Len(g) = N /\ \A i \in 1 .. N : g[i] = s[i].item
  BY <1>1, IsASeq
<1>6. ASSUME NEW i \in 1 .. N PROVE i \in T <=> s[i].item \in U
  <2>1. ~Hidden(s, i, k) <=> \A r \in Closed : IsShadowInclusiveAncestor(r, s[i].item)
                                   => IsShadowInclusiveAncestor(r, s[k].item)
    BY ShownIsVisible
  <2> QED
    BY <2>1, <1>1
<1> HIDE DEF ids, g, U, T, N
<1>7. \A i \in 1 .. Len(ids) : g[i] = g[ids[i]] /\ (g[i] \in U <=> ids[i] \in T)
  BY <1>4, <1>5, <1>6
<1>8. Select(g, U) = [n \in DOMAIN Select(ids, T) |-> g[Select(ids, T)[n]]]
  <2>1. ids \in Seq(1 .. N) /\ g \in Seq(Targets) /\ Len(g) = Len(ids)
    BY <1>4, <1>5
  <2>2. Corresponds(g, U, ids, T, g)
    BY <1>7, <2>1 DEF Corresponds
  <2> DEFINE a == Select(g, U)
             b == Select(ids, T)
  <2>3. DOMAIN a = DOMAIN b /\ \A n \in DOMAIN b : a[n] = g[b[n]]
    BY <2>1, <2>2, SelectMap
  <2>4. a \in Seq(Targets)
    BY <2>1, SelectInSeqOf
  <2>5. a = [n \in DOMAIN a |-> a[n]]
    <3> HIDE DEF a
    <3> QED
      BY <2>4
  <2> HIDE DEF a, b
  <2>6. a = [n \in DOMAIN b |-> g[b[n]]]
    BY <2>3, <2>5, Zenon
  <2> QED
    BY <2>6 DEF a, b
<1>9. shown \in Seq(1 .. N)
  <2>1. shown \in Seq((1 .. N) \cap T)
    BY <1>4, SelectType
  <2> QED
    BY <2>1, SeqMonotonic
<1> HIDE DEF shown
<1>10. ASSUME NEW n \in DOMAIN shown PROVE g[shown[n]] = s[shown[n]].item
  <2>1. shown[n] \in 1 .. N
    BY <1>9, ElementOfSeq, LenProperties
  <2> QED
    BY <2>1, <1>5
<1>11. [n \in DOMAIN shown |-> g[shown[n]]] = [n \in DOMAIN shown |-> s[shown[n]].item]
  BY <1>10, Zenon
<1>12. Select(g, U) = ComposedPath(s, c)
  BY <1>3, <1>8, <1>11 DEF shown
<1> HIDE DEF c
<1> QED
  BY <1>12, Zenon DEF g, U, c

\* A path has a tuple, and visits no target twice.
PathsAreWays ==
    \A t \in Targets :
        /\ Path[t] \in Seq(PathTuple) \ {<<>>}
        /\ \A i, j \in DOMAIN Path[t] : Path[t][i].item = Path[t][j].item => i = j

LEMMA PathsClimb ==
    ASSUME EventDispatchAssumption, TreeAssumption
    PROVE  PathsAreWays
<1> SUFFICES ASSUME NEW t \in Targets
             PROVE  /\ Path[t] \in Seq(PathTuple) \ {<<>>}
                    /\ \A i, j \in DOMAIN Path[t] : Path[t][i].item = Path[t][j].item => i = j
  BY DEF PathsAreWays
<1>1. Climbs(Path[t], t)
  BY PathClimbs
<1>2. Path[t] \in Seq(PathTuple) /\ Path[t] # <<>> /\ DOMAIN Path[t] = 1 .. Len(Path[t])
  BY <1>1, ClimbsTyped DEF Climbs
<1>3. \A i, j \in 1 .. Len(Path[t]) : Path[t][i].item = Path[t][j].item => i = j
  BY <1>1, ClimbsOnce
<1> QED
  BY <1>2, <1>3

-----------------------------------------------------------------------------
(* The listener lists.                                                      *)

\* A list has no two listeners of the same callback and capture.
Distinct ==
    \A s \in Slots : \A i, j \in DOMAIN listeners[s] :
        /\ listeners[s][i].callback = listeners[s][j].callback
        /\ listeners[s][i].capture = listeners[s][j].capture
        => i = j

\* A registration is in one list, once.
Numbered ==
    \A s, t \in Slots : \A i \in DOMAIN listeners[s], j \in DOMAIN listeners[t] :
        listeners[s][i].id = listeners[t][j].id => s = t /\ i = j

\* A registration in a list was not removed, and a once listener was not called.
Current ==
    \A s \in Slots : \A i \in DOMAIN listeners[s] :
        LET l == listeners[s][i] IN
        l.id \in 1 .. count /\ l.id \notin removed /\ (l.once => l.id \notin fired)

\* An on-handler has its wrapper in the list from its first handler on.
Wrapped ==
    /\ on \in [OnSlots -> [wrapped : BOOLEAN, handler : Handlers \cup {None}]]
    /\ \A s \in OnSlots : on[s].handler # None => on[s].wrapped
    /\ \A s \in OnSlots : on[s].wrapped =>
          \E i \in DOMAIN listeners[s] : listeners[s][i].callback = Wrapper
    /\ \A s \in Slots : \A i \in DOMAIN listeners[s] :
          listeners[s][i].callback = Wrapper =>
              s \in OnSlots /\ on[s].wrapped /\ ~listeners[s][i].once

ListsInv ==
    /\ count \in Nat
    /\ listeners \in [Slots -> Seq(Listener)]
    /\ removed \subseteq 1 .. count /\ fired \subseteq 1 .. count
    /\ Distinct /\ Numbered /\ Current

\* l is new at the end of the list of s.
Grown(s, l) ==
    /\ \A t \in Slots : \A i \in DOMAIN listeners[t] :
          i \in DOMAIN listeners'[t] /\ listeners'[t][i] = listeners[t][i]
    /\ \A t \in Slots : \A i \in DOMAIN listeners'[t] :
          \/ i \in DOMAIN listeners[t] /\ listeners'[t][i] = listeners[t][i]
          \/ t = s /\ listeners'[t][i] = l
    /\ \E i \in DOMAIN listeners'[s] : listeners'[s][i] = l

\* The listener p of the list of s is gone.
Shrunk(s, p) ==
    /\ \A t \in Slots : \A i \in DOMAIN listeners[t] :
          \/ t = s /\ i = p
          \/ \E j \in DOMAIN listeners'[t] : listeners'[t][j] = listeners[t][i]
    /\ \A t \in Slots : \A j \in DOMAIN listeners'[t] :
          \E i \in DOMAIN listeners[t] :
              listeners'[t][j] = listeners[t][i] /\ ~(t = s /\ i = p)

\* What any step leaves of the lists: an entry stays or was removed, and is an old
\* one or a new registration.
ListStep ==
    /\ count' \in Nat /\ count <= count' /\ removed \subseteq removed'
    /\ \A t \in Slots : \A i \in DOMAIN listeners[t] :
          \/ listeners[t][i].id \in removed'
          \/ \E j \in DOMAIN listeners'[t] : listeners'[t][j] = listeners[t][i]
    /\ \A t \in Slots : \A j \in DOMAIN listeners'[t] :
          \/ \E i \in DOMAIN listeners[t] : listeners'[t][j] = listeners[t][i]
          \/ listeners'[t][j].id \notin 1 .. count

\* A new registration at the end of a list.
LEMMA AddKeepsLists ==
    ASSUME ListsInv, NEW s \in Slots, NEW l \in Listener, l.id = count + 1,
           \A i \in DOMAIN listeners[s] :
               ~(listeners[s][i].callback = l.callback /\ listeners[s][i].capture = l.capture),
           listeners' = [listeners EXCEPT ![s] = Append(@, l)],
           count' = count + 1, UNCHANGED <<removed, fired>>
    PROVE  ListsInv' /\ Grown(s, l) /\ ListStep
<1> DEFINE n == Len(listeners[s]) + 1
<1>1. /\ listeners[s] \in Seq(Listener) /\ Len(listeners[s]) \in Nat
      /\ DOMAIN listeners[s] = 1 .. Len(listeners[s])
      /\ Append(listeners[s], l) \in Seq(Listener) /\ Len(Append(listeners[s], l)) = n
      /\ \A i \in 1 .. Len(listeners[s]) : Append(listeners[s], l)[i] = listeners[s][i]
      /\ Append(listeners[s], l)[n] = l
      /\ DOMAIN Append(listeners[s], l) = 1 .. n
  BY LenProperties, AppendProperties DEF ListsInv
<1>2. /\ listeners' \in [Slots -> Seq(Listener)]
      /\ \A t \in Slots : t # s => listeners'[t] = listeners[t]
      /\ DOMAIN listeners'[s] = DOMAIN listeners[s] \cup {n} /\ n \notin DOMAIN listeners[s]
      /\ \A i \in DOMAIN listeners[s] : listeners'[s][i] = listeners[s][i]
      /\ listeners'[s][n] = l
  BY <1>1 DEF ListsInv
<1> HIDE DEF n
<1>3. Distinct'
  BY <1>2 DEF Distinct, ListsInv
<1>4. \A t \in Slots : \A i \in DOMAIN listeners[t] : listeners[t][i].id # l.id
  BY DEF ListsInv, Current
<1>5. Numbered'
  <2> SUFFICES ASSUME NEW t \in Slots, NEW u \in Slots,
                      NEW i \in DOMAIN listeners'[t], NEW j \in DOMAIN listeners'[u],
                      listeners'[t][i].id = listeners'[u][j].id
               PROVE  t = u /\ i = j
    BY DEF Numbered
  <2>1. CASE i \in DOMAIN listeners[t] /\ j \in DOMAIN listeners[u]
    BY <1>2, <2>1 DEF Numbered, ListsInv
  <2>2. CASE i \in DOMAIN listeners[t] /\ u = s /\ j = n
    BY <1>2, <1>4, <2>2
  <2>3. CASE t = s /\ i = n /\ j \in DOMAIN listeners[u]
    BY <1>2, <1>4, <2>3
  <2>4. CASE t = s /\ i = n /\ u = s /\ j = n
    BY <2>4
  <2> QED
    BY <1>2, <2>1, <2>2, <2>3, <2>4
<1>6. Current'
  BY <1>2 DEF Current, ListsInv
<1>7. count' \in Nat /\ removed' \subseteq 1 .. count' /\ fired' \subseteq 1 .. count'
  BY DEF ListsInv
<1>8. ListsInv'
  BY <1>2, <1>3, <1>5, <1>6, <1>7 DEF ListsInv
<1>9. Grown(s, l)
  BY <1>2 DEF Grown
<1>10. ListStep
  <2>1. count \in Nat /\ count' \in Nat /\ count <= count' /\ l.id \notin 1 .. count
    BY DEF ListsInv
  <2> QED
    BY <1>9, <2>1 DEF ListStep, Grown
<1> QED
  BY <1>8, <1>9, <1>10

\* A registration that leaves its list, perhaps to be called.
LEMMA DropKeepsLists ==
    ASSUME ListsInv, NEW s \in Slots, NEW p \in DOMAIN listeners[s],
           listeners' = [listeners EXCEPT ![s] = RemoveAt(@, p)],
           removed' = removed \cup {listeners[s][p].id},
           fired' = fired \/ fired' = fired \cup {listeners[s][p].id},
           count' = count
    PROVE  ListsInv' /\ Shrunk(s, p) /\ ListStep
<1> DEFINE L == listeners[s]
           R == RemoveAt(L, p)
           from(i) == IF i < p THEN i ELSE i + 1
           to(i) == IF i < p THEN i ELSE i - 1
<1>1. /\ L \in Seq(Listener) /\ Len(L) \in Nat /\ DOMAIN L = 1 .. Len(L) /\ p \in 1 .. Len(L)
  BY LenProperties DEF ListsInv
<1>2. /\ R \in Seq(Listener) /\ Len(R) = Len(L) - 1
      /\ \A i \in 1 .. Len(L) - 1 : R[i] = IF i < p THEN L[i] ELSE L[i + 1]
  BY <1>1, RemoveAtProperties
<1> HIDE DEF R
<1>3. DOMAIN R = 1 .. Len(L) - 1
  BY <1>2, LenProperties
<1>4. /\ \A i \in DOMAIN R : from(i) \in DOMAIN L /\ from(i) # p /\ R[i] = L[from(i)]
      /\ \A i, j \in DOMAIN R : from(i) = from(j) => i = j
      /\ \A i \in DOMAIN L : i # p => to(i) \in DOMAIN R /\ from(to(i)) = i
  BY <1>1, <1>2, <1>3
<1> HIDE DEF from, to
<1>5. /\ listeners' \in [Slots -> Seq(Listener)]
      /\ \A t \in Slots : t # s => listeners'[t] = listeners[t]
      /\ listeners'[s] = R
  BY <1>1, <1>2 DEF ListsInv, R
<1>6. \A t \in Slots : \A j \in DOMAIN listeners'[t] :
         \E i \in DOMAIN listeners[t] :
             listeners'[t][j] = listeners[t][i] /\ ~(t = s /\ i = p)
  BY <1>4, <1>5
<1>7. \A t \in Slots : \A i \in DOMAIN listeners[t] :
         \/ t = s /\ i = p
         \/ \E j \in DOMAIN listeners'[t] : listeners'[t][j] = listeners[t][i]
  BY <1>4, <1>5
<1>8. Distinct'
  BY <1>4, <1>5 DEF Distinct, ListsInv
<1>9. Numbered'
  <2> SUFFICES ASSUME NEW t \in Slots, NEW u \in Slots,
                      NEW i \in DOMAIN listeners'[t], NEW j \in DOMAIN listeners'[u],
                      listeners'[t][i].id = listeners'[u][j].id
               PROVE  t = u /\ i = j
    BY DEF Numbered
  <2>1. t = u
    BY <1>6 DEF Numbered, ListsInv
  <2>2. CASE t = s
    BY <1>4, <1>5, <2>1, <2>2 DEF Numbered, ListsInv
  <2>3. CASE t # s
    BY <1>5, <2>1, <2>3 DEF Numbered, ListsInv
  <2> QED
    BY <2>1, <2>2, <2>3
<1>10. Current'
  <2> SUFFICES ASSUME NEW t \in Slots, NEW j \in DOMAIN listeners'[t]
               PROVE  LET l == listeners'[t][j] IN
                      l.id \in 1 .. count' /\ l.id \notin removed' /\ (l.once => l.id \notin fired')
    BY DEF Current
  <2>1. PICK i \in DOMAIN listeners[t] :
            listeners'[t][j] = listeners[t][i] /\ ~(t = s /\ i = p)
    BY <1>6
  <2>2. listeners[t][i].id # listeners[s][p].id
    BY <2>1 DEF Numbered, ListsInv
  <2> QED
    BY <2>1, <2>2 DEF Current, ListsInv
<1>11. removed' \subseteq 1 .. count' /\ fired' \subseteq 1 .. count'
  BY DEF ListsInv, Current
<1>12. Shrunk(s, p)
  BY <1>6, <1>7 DEF Shrunk
<1>13. ListStep
  BY <1>12 DEF ListStep, Shrunk, ListsInv
<1> QED
  BY <1>5, <1>8, <1>9, <1>10, <1>11, <1>12, <1>13 DEF ListsInv

\* A listener that is called and stays in its list.
LEMMA FireKeepsLists ==
    ASSUME ListsInv, NEW s \in Slots, NEW p \in DOMAIN listeners[s],
           ~listeners[s][p].once,
           fired' = fired \cup {listeners[s][p].id},
           UNCHANGED <<listeners, count, removed>>
    PROVE  ListsInv'
<1>1. Current'
  BY DEF Current, Numbered, ListsInv
<1>2. fired' \subseteq 1 .. count'
  BY DEF Current, ListsInv
<1> QED
  BY <1>1, <1>2 DEF ListsInv, Distinct, Numbered

\* A listener that is about to be called is in the list of its slot.
LEMMA CalledIsListed ==
    ASSUME NEW f, NEW h, \E i \in DOMAIN ListOf(f) : ListOf(f)[i] = h
    PROVE  /\ SlotOf(f) \in Slots /\ ListOf(f) = listeners[SlotOf(f)]
           /\ PlaceOf(h, listeners[SlotOf(f)]) \in DOMAIN listeners[SlotOf(f)]
           /\ listeners[SlotOf(f)][PlaceOf(h, listeners[SlotOf(f)])] = h
<1>1. DOMAIN <<>> = {}
  OBVIOUS
<1>2. SlotOf(f) \in Slots /\ ListOf(f) = listeners[SlotOf(f)]
  BY <1>1 DEF ListOf
<1> QED
  BY <1>2 DEF PlaceOf

LEMMA UnchangedLists ==
    ASSUME ListsInv, Wrapped, UNCHANGED <<listeners, on, count, removed, fired>>
    PROVE  ListsInv' /\ Wrapped' /\ ListStep
  BY DEF ListsInv, Distinct, Numbered, Current, Wrapped, ListStep

LEMMA AddEventListenerKeepsLists ==
    ASSUME EventDispatchAssumption, ListsInv, Wrapped,
           NEW s \in Slots, NEW callback \in Callbacks, NEW o \in Options,
           AddEventListener(s, callback, o)
    PROVE  ListsInv' /\ Wrapped' /\ ListStep
<1> DEFINE l == [id |-> count + 1, callback |-> callback, capture |-> o.capture,
                 once |-> o.once, passive |-> o.passive]
<1>1. l \in Listener /\ l.id = count + 1 /\ l.callback # Wrapper
  BY DEF EventDispatchAssumption, Listener, ListsInv, Wrapper
<1>2. l.callback = callback /\ l.capture = o.capture
  OBVIOUS
<1>3. CASE Duplicate(s, callback, o.capture)
  BY <1>3, UnchangedLists DEF AddEventListener
<1>4. CASE ~Duplicate(s, callback, o.capture)
  <2>1. /\ listeners' = [listeners EXCEPT ![s] = Append(@, l)] /\ count' = count + 1
        /\ UNCHANGED <<on, removed, fired>>
    BY <1>4 DEF AddEventListener
  <2>2. \A i \in DOMAIN listeners[s] :
            ~(listeners[s][i].callback = l.callback /\ listeners[s][i].capture = l.capture)
    BY <1>2, <1>4 DEF Duplicate
  <2> HIDE DEF l
  <2>3. ListsInv' /\ Grown(s, l) /\ ListStep
    BY <1>1, <2>1, <2>2, AddKeepsLists
  <2>4. Wrapped'
    <3>1. on' \in [OnSlots -> [wrapped : BOOLEAN, handler : Handlers \cup {None}]]
          /\ \A t \in OnSlots : on'[t].handler # None => on'[t].wrapped
      BY <2>1 DEF Wrapped
    <3>2. \A t \in OnSlots : on'[t].wrapped =>
              \E i \in DOMAIN listeners'[t] : listeners'[t][i].callback = Wrapper
      BY <2>1, <2>3 DEF Wrapped, EventDispatchAssumption, Grown
    <3>3. \A t \in Slots : \A i \in DOMAIN listeners'[t] :
              listeners'[t][i].callback = Wrapper =>
                  t \in OnSlots /\ on'[t].wrapped /\ ~listeners'[t][i].once
      BY <1>1, <2>1, <2>3 DEF Wrapped, Grown
    <3> QED
      BY <3>1, <3>2, <3>3 DEF Wrapped
  <2> QED
    BY <2>3, <2>4
<1> QED
  BY <1>3, <1>4

\* The wrapper of a slot stays when another listener leaves a list.
LEMMA DropKeepsWrappers ==
    ASSUME EventDispatchAssumption, ListsInv, Wrapped,
           NEW s \in Slots, NEW p \in DOMAIN listeners[s],
           listeners[s][p].callback # Wrapper,
           listeners' = [listeners EXCEPT ![s] = RemoveAt(@, p)],
           removed' = removed \cup {listeners[s][p].id},
           fired' = fired \/ fired' = fired \cup {listeners[s][p].id},
           count' = count, on' = on
    PROVE  ListsInv' /\ Wrapped' /\ ListStep
<1>1. ListsInv' /\ Shrunk(s, p) /\ ListStep
  BY DropKeepsLists
<1>2. Wrapped'
  <2>1. on' \in [OnSlots -> [wrapped : BOOLEAN, handler : Handlers \cup {None}]]
        /\ \A t \in OnSlots : on'[t].handler # None => on'[t].wrapped
    BY DEF Wrapped
  <2>2. \A t \in OnSlots : on'[t].wrapped =>
            \E i \in DOMAIN listeners'[t] : listeners'[t][i].callback = Wrapper
    BY <1>1 DEF Wrapped, EventDispatchAssumption, Shrunk
  <2>3. \A t \in Slots : \A i \in DOMAIN listeners'[t] :
            listeners'[t][i].callback = Wrapper =>
                t \in OnSlots /\ on'[t].wrapped /\ ~listeners'[t][i].once
    BY <1>1 DEF Wrapped, Shrunk
  <2> QED
    BY <2>1, <2>2, <2>3 DEF Wrapped
<1> QED
  BY <1>1, <1>2

LEMMA SetHandlerKeepsLists ==
    ASSUME EventDispatchAssumption, ListsInv, Wrapped,
           NEW s \in OnSlots, NEW h \in Handlers \cup {None}, SetHandler(s, h)
    PROVE  ListsInv' /\ Wrapped' /\ ListStep
<1>1. /\ s \in Slots /\ UNCHANGED <<removed, fired>>
      /\ on' = [on EXCEPT ![s] = [wrapped |-> TRUE, handler |-> h]]
  BY DEF SetHandler, EventDispatchAssumption
<1>2. /\ on' \in [OnSlots -> [wrapped : BOOLEAN, handler : Handlers \cup {None}]]
      /\ on'[s].wrapped
      /\ \A t \in OnSlots : t # s => on'[t] = on[t]
  BY <1>1 DEF Wrapped
<1>3. CASE on[s].wrapped
  <2>1. UNCHANGED <<listeners, count>>
    BY <1>3 DEF SetHandler
  <2>2. ListsInv' /\ ListStep
    BY <1>1, <2>1 DEF ListsInv, Distinct, Numbered, Current, ListStep
  <2>3. Wrapped'
    BY <1>2, <1>3, <2>1 DEF Wrapped
  <2> QED
    BY <2>2, <2>3
<1>4. CASE ~on[s].wrapped
  <2> DEFINE l == WrapperListener(count + 1)
  <2>1. /\ listeners' = [listeners EXCEPT ![s] = Append(@, l)] /\ count' = count + 1
    BY <1>4 DEF SetHandler
  <2>2. l \in Listener /\ l.id = count + 1 /\ l.callback = Wrapper /\ ~l.once
    BY DEF WrapperListener, Listener, ListsInv
  <2>3. \A i \in DOMAIN listeners[s] :
            ~(listeners[s][i].callback = l.callback /\ listeners[s][i].capture = l.capture)
    BY <1>1, <1>4, <2>2 DEF Wrapped
  <2> HIDE DEF l
  <2>4. ListsInv' /\ Grown(s, l) /\ ListStep
    BY <1>1, <2>1, <2>2, <2>3, AddKeepsLists
  <2>5. Wrapped'
    <3>1. \A t \in OnSlots : on'[t].handler # None => on'[t].wrapped
      BY <1>2 DEF Wrapped
    <3>2. ASSUME NEW t \in OnSlots, on'[t].wrapped
          PROVE  \E i \in DOMAIN listeners'[t] : listeners'[t][i].callback = Wrapper
      <4>1. CASE t = s
        BY <2>2, <2>4, <4>1 DEF Grown
      <4>2. CASE t # s
        BY <1>2, <2>4, <3>2, <4>2 DEF Wrapped, EventDispatchAssumption, Grown
      <4> QED
        BY <4>1, <4>2
    <3>3. \A t \in Slots : \A i \in DOMAIN listeners'[t] :
              listeners'[t][i].callback = Wrapper =>
                  t \in OnSlots /\ on'[t].wrapped /\ ~listeners'[t][i].once
      BY <1>2, <2>2, <2>4 DEF Wrapped, Grown
    <3> QED
      BY <1>2, <3>1, <3>2, <3>3 DEF Wrapped
  <2> QED
    BY <2>4, <2>5
<1> QED
  BY <1>3, <1>4

LEMMA CallHandlerKeepsLists ==
    ASSUME EventDispatchAssumption, ListsInv, Wrapped, CallHandler
    PROVE  ListsInv' /\ Wrapped' /\ ListStep
<1> DEFINE h == Handler(Top)
           s == SlotOf(Top)
           p == PlaceOf(h, listeners[s])
<1>1. s \in Slots /\ p \in DOMAIN listeners[s] /\ listeners[s][p] = h
  <2>1. \E i \in DOMAIN ListOf(Top) : ListOf(Top)[i] = h
    BY DEF CallHandler, MayCall, Skipped
  <2> QED
    BY <2>1, CalledIsListed
<1>2. /\ fired' = fired \cup {h.id} /\ UNCHANGED <<on, count>>
      /\ IF h.once
         THEN /\ listeners' = [listeners EXCEPT ![s] = RemoveAt(@, PlaceOf(h, @))]
              /\ removed' = removed \cup {h.id}
         ELSE UNCHANGED <<listeners, removed>>
  BY DEF CallHandler, Call
<1>3. CASE h.once
  <2>1. listeners' = [listeners EXCEPT ![s] = RemoveAt(@, p)]
    BY <1>2, <1>3
  <2>2. h.callback # Wrapper
    BY <1>1, <1>3 DEF Wrapped
  <2> HIDE DEF h, s, p
  <2> QED
    BY <1>1, <1>2, <1>3, <2>1, <2>2, DropKeepsWrappers
<1>4. CASE ~h.once
  <2> HIDE DEF h, s, p
  <2>1. ListsInv'
    BY <1>1, <1>2, <1>4, FireKeepsLists
  <2>2. Wrapped' /\ ListStep
    BY <1>2, <1>4 DEF Wrapped, ListStep, ListsInv
  <2> QED
    BY <2>1, <2>2
<1> QED
  BY <1>3, <1>4

LEMMA StepKeepsLists ==
    ASSUME EventDispatchAssumption, ListsInv, Wrapped, [Next]_vars
    PROVE  ListsInv' /\ Wrapped' /\ ListStep
<1>1. ASSUME NEW s \in Slots, NEW callback \in Callbacks, NEW capture \in BOOLEAN,
             RemoveEventListener(s, callback, capture)
      PROVE  ListsInv' /\ Wrapped' /\ ListStep
  <2>1. PICK p \in DOMAIN listeners[s] :
           /\ listeners[s][p].callback = callback
           /\ listeners' = [listeners EXCEPT ![s] = RemoveAt(@, p)]
           /\ removed' = removed \cup {listeners[s][p].id}
    BY <1>1 DEF RemoveEventListener
  <2>2. UNCHANGED <<count, on, fired>> /\ listeners[s][p].callback # Wrapper
    BY <1>1, <2>1 DEF RemoveEventListener, EventDispatchAssumption, Wrapper
  <2> QED
    BY <2>1, <2>2, DropKeepsWrappers
<1>2. CASE UNCHANGED <<listeners, on, count, removed, fired>>
  BY <1>2, UnchangedLists
<1> QED
  BY <1>1, <1>2, AddEventListenerKeepsLists, SetHandlerKeepsLists, CallHandlerKeepsLists
  DEF Next, vars, DispatchEvent, StopPropagation, StopImmediatePropagation, PreventDefault,
      SetReturnValue, ReportError, Tuple, SkipHandler, EndWalk, Return, ReturnTrue, Throw,
      AfterCall, EndDispatch, Report, Dispatched, Reported

LEMMA InitLists ==
    ASSUME EventDispatchAssumption, Init
    PROVE  ListsInv /\ Wrapped
<1>1. \A s \in Slots : listeners[s] = <<>> /\ DOMAIN listeners[s] = {}
  BY DEF Init
<1>2. listeners \in [Slots -> Seq(Listener)]
  BY DEF Init
<1>3. ListsInv
  BY <1>1, <1>2 DEF Init, ListsInv, Distinct, Numbered, Current
<1>4. Wrapped
  BY <1>1 DEF Init, Wrapped
<1> QED
  BY <1>3, <1>4

\* Whatever listeners do to the lists they are called from, a list has no listener
\* twice, and an on-handler keeps the wrapper that its first handler registered.
THEOREM ListsStaySets == EventDispatchAssumption /\ Spec => []ListsAreSets
<1> SUFFICES ASSUME EventDispatchAssumption PROVE Spec => []ListsAreSets
  OBVIOUS
<1>1. Init => ListsInv /\ Wrapped
  BY InitLists
<1>2. ListsInv /\ Wrapped /\ [Next]_vars => (ListsInv /\ Wrapped)'
  BY StepKeepsLists
<1>3. ListsInv /\ Wrapped => ListsAreSets
  BY DEF ListsInv, Wrapped, Distinct, ListsAreSets
<1> QED
  BY <1>1, <1>2, <1>3, PTL DEF Spec

-----------------------------------------------------------------------------
(* The stack of dispatches and reports.                                     *)

AllEvents == Events \cup {ErrorEvent}

WalkFrame == [kind : {"dispatch"}, event : AllEvents, target : Targets,
              pass : {"capture", "bubble"}, k : Nat,
              step : {"tuple", "handler", "calling", "returned"}, i : Nat \ {0},
              start : Seq(Listener), current : Listener \cup {NoListener},
              called : SUBSET Nat]
ErrorFrame == [kind : {"report"}, step : {"report", "dispatched", "reported"},
               told : BOOLEAN]
AnyFrame == WalkFrame \cup ErrorFrame

EventTypes ==
    /\ DOMAIN event = AllEvents
    /\ \A e \in AllEvents : DOMAIN event[e] = DOMAIN Idle
Typed == stack \in Seq(AnyFrame) /\ EventTypes

InCallback(f) == f.step \in {"calling", "returned"}

\* A dispatch of the event e is in progress.
Flies(e) == \E i \in DOMAIN stack : stack[i].kind = "dispatch" /\ stack[i].event = e

\* An event is in one dispatch, and its flags tell of it.
FlightInv ==
    /\ \A i, j \in DOMAIN stack :
          stack[i].kind = "dispatch" /\ stack[j].kind = "dispatch"
          /\ stack[i].event = stack[j].event => i = j
    /\ \A e \in AllEvents : event[e].dispatched <=> Flies(e)
    /\ \A e \in AllEvents : ~Flies(e) =>
          event[e].eventPhase = "none" /\ event[e].currentTarget = None /\ ~event[e].inPassive
    /\ \A i \in DOMAIN stack : stack[i].kind = "dispatch" =>
          (event[stack[i].event].inPassive <=> InCallback(stack[i]) /\ stack[i].current.passive)

\* The stack after a step: its top replaced, removed, or a frame above it.
Replaced(g) ==
    /\ stack' \in Seq(AnyFrame) /\ Len(stack') = Len(stack) /\ DOMAIN stack' = DOMAIN stack
    /\ Len(stack) \in DOMAIN stack /\ stack'[Len(stack)] = g
    /\ \A i \in DOMAIN stack : i # Len(stack) => stack'[i] = stack[i]
Popped ==
    /\ stack' \in Seq(AnyFrame) /\ Len(stack') = Len(stack) - 1
    /\ DOMAIN stack' = DOMAIN stack \ {Len(stack)}
    /\ \A i \in DOMAIN stack' : stack'[i] = stack[i]
Pushed(g) ==
    /\ stack' \in Seq(AnyFrame) /\ Len(stack') = Len(stack) + 1
    /\ DOMAIN stack' = DOMAIN stack \cup {Len(stack) + 1} /\ Len(stack) + 1 \notin DOMAIN stack
    /\ stack'[Len(stack) + 1] = g
    /\ \A i \in DOMAIN stack : stack'[i] = stack[i]
PushedOn(f, g) ==
    /\ stack' \in Seq(AnyFrame) /\ Len(stack') = Len(stack) + 1
    /\ DOMAIN stack' = DOMAIN stack \cup {Len(stack) + 1} /\ Len(stack) + 1 \notin DOMAIN stack
    /\ Len(stack) \in DOMAIN stack
    /\ stack'[Len(stack)] = f /\ stack'[Len(stack) + 1] = g
    /\ \A i \in DOMAIN stack : i # Len(stack) => stack'[i] = stack[i]

LEMMA TopOfStack ==
    ASSUME stack \in Seq(AnyFrame), stack # <<>>
    PROVE  /\ Len(stack) \in Nat /\ Len(stack) >= 1 /\ DOMAIN stack = 1 .. Len(stack)
           /\ Len(stack) \in DOMAIN stack /\ Top = stack[Len(stack)] /\ Top \in AnyFrame
           /\ Front(stack) \in Seq(AnyFrame) /\ Len(Front(stack)) = Len(stack) - 1
           /\ \A i \in 1 .. Len(stack) - 1 : Front(stack)[i] = stack[i]
<1>1. /\ Len(stack) \in Nat /\ Len(stack) >= 1 /\ DOMAIN stack = 1 .. Len(stack)
      /\ \A i \in 1 .. Len(stack) : stack[i] \in AnyFrame
  BY LenProperties, ElementOfSeq, EmptySeq
<1>2. Top = stack[Len(stack)] /\ Top \in AnyFrame
  BY <1>1 DEF Top, Last
<1>3. /\ SubSeq(stack, 1, Len(stack) - 1) \in Seq(AnyFrame)
      /\ Len(SubSeq(stack, 1, Len(stack) - 1)) = Len(stack) - 1
      /\ \A i \in 1 .. Len(stack) - 1 : SubSeq(stack, 1, Len(stack) - 1)[i] = stack[i]
  <2>1. /\ 1 \in Int /\ Len(stack) - 1 \in Int
        /\ \A i \in 1 .. Len(stack) - 1 : stack[i] \in AnyFrame
    BY <1>1
  <2>2. /\ SubSeq(stack, 1, Len(stack) - 1) \in Seq(AnyFrame)
        /\ Len(SubSeq(stack, 1, Len(stack) - 1)) =
              IF 1 <= Len(stack) - 1 THEN Len(stack) - 1 - 1 + 1 ELSE 0
        /\ \A i \in 1 .. Len(stack) - 1 - 1 + 1 :
              SubSeq(stack, 1, Len(stack) - 1)[i] = stack[1 + i - 1]
    BY <2>1, SubSeqProperties
  <2> QED
    BY <1>1, <2>2
<1> QED
  BY <1>1, <1>2, <1>3 DEF Front

LEMMA SetTopReplaces ==
    ASSUME stack \in Seq(AnyFrame), stack # <<>>, NEW g \in AnyFrame, SetTop(g)
    PROVE  Replaced(g)
<1> DEFINE q == Front(stack)
           n == Len(stack)
<1>1. /\ n \in Nat /\ n >= 1 /\ DOMAIN stack = 1 .. n /\ n \in DOMAIN stack
      /\ q \in Seq(AnyFrame) /\ Len(q) = n - 1
      /\ \A i \in 1 .. n - 1 : q[i] = stack[i]
  BY TopOfStack
<1>2. stack' = Append(q, g)
  BY DEF SetTop
<1> HIDE DEF q, n
<1>3. /\ stack' \in Seq(AnyFrame) /\ Len(stack') = n /\ DOMAIN stack' = 1 .. n
      /\ stack'[n] = g /\ \A i \in 1 .. n - 1 : stack'[i] = q[i]
  BY <1>1, <1>2, AppendProperties, LenProperties
<1> QED
  BY <1>1, <1>3 DEF Replaced, n

LEMMA PopPops ==
    ASSUME stack \in Seq(AnyFrame), stack # <<>>, Pop
    PROVE  Popped
<1> DEFINE n == Len(stack)
<1>1. /\ n \in Nat /\ n >= 1 /\ DOMAIN stack = 1 .. n
      /\ stack' \in Seq(AnyFrame) /\ Len(stack') = n - 1
      /\ \A i \in 1 .. n - 1 : stack'[i] = stack[i]
  BY TopOfStack DEF Pop
<1>2. DOMAIN stack' = 1 .. n - 1
  BY <1>1, LenProperties
<1>3. 1 .. n - 1 = (1 .. n) \ {n}
  BY <1>1
<1> QED
  BY <1>1, <1>2, <1>3 DEF Popped

LEMMA AppendPushes ==
    ASSUME stack \in Seq(AnyFrame), NEW g \in AnyFrame, stack' = Append(stack, g)
    PROVE  Pushed(g)
<1>1. Len(stack) \in Nat /\ DOMAIN stack = 1 .. Len(stack)
  BY LenProperties
<1>2. /\ stack' \in Seq(AnyFrame) /\ Len(stack') = Len(stack) + 1
      /\ DOMAIN stack' = 1 .. Len(stack) + 1
      /\ stack'[Len(stack) + 1] = g /\ \A i \in 1 .. Len(stack) : stack'[i] = stack[i]
  BY <1>1, AppendProperties, LenProperties
<1> QED
  BY <1>1, <1>2 DEF Pushed

LEMMA ReplaceAndPush ==
    ASSUME stack \in Seq(AnyFrame), stack # <<>>, NEW f \in AnyFrame, NEW g \in AnyFrame,
           stack' = Append(Front(stack), f) \o <<g>>
    PROVE  PushedOn(f, g)
<1> DEFINE q == Append(Front(stack), f)
           n == Len(stack)
<1>1. /\ n \in Nat /\ n >= 1 /\ DOMAIN stack = 1 .. n /\ n \in DOMAIN stack
      /\ Front(stack) \in Seq(AnyFrame) /\ Len(Front(stack)) = n - 1
      /\ \A i \in 1 .. n - 1 : Front(stack)[i] = stack[i]
  BY TopOfStack
<1> HIDE DEF n
<1>2. /\ q \in Seq(AnyFrame) /\ Len(q) = n - 1 + 1 /\ q[n - 1 + 1] = f
      /\ \A i \in 1 .. n - 1 : q[i] = Front(stack)[i]
  BY <1>1, AppendProperties
<1>3. Len(q) = n /\ q[n] = f /\ \A i \in 1 .. n - 1 : q[i] = stack[i]
  <2>1. n - 1 + 1 = n
    BY <1>1
  <2> QED
    BY <1>1, <1>2, <2>1
<1> HIDE DEF q
<1>4. stack' = Append(q, g)
  BY <1>2, AppendIsConcat DEF q
<1>5. /\ stack' \in Seq(AnyFrame) /\ Len(stack') = n + 1
      /\ stack'[n + 1] = g /\ \A i \in 1 .. n : stack'[i] = q[i]
  <2>1. /\ Append(q, g) \in Seq(AnyFrame) /\ Len(Append(q, g)) = Len(q) + 1
        /\ Append(q, g)[Len(q) + 1] = g
        /\ \A i \in 1 .. Len(q) : Append(q, g)[i] = q[i]
    BY <1>2, AppendProperties
  <2> QED
    BY <1>3, <1>4, <2>1
<1>6. DOMAIN stack' = 1 .. n + 1
  BY <1>5, LenProperties
<1>7. /\ 1 .. n + 1 = (1 .. n) \cup {n + 1} /\ n + 1 \notin 1 .. n
      /\ \A i \in 1 .. n : i # n => i \in 1 .. n - 1
  BY <1>1
<1>8. stack'[n] = f /\ \A i \in 1 .. n : i # n => stack'[i] = stack[i]
  BY <1>1, <1>3, <1>5, <1>7
<1> QED
  BY <1>1, <1>5, <1>6, <1>7, <1>8 DEF PushedOn, n

\* Flags of an event that a step leaves as they are, or only sets.
SameFlags(e) ==
    /\ event'[e].dispatched = event[e].dispatched
    /\ event'[e].eventPhase = event[e].eventPhase
    /\ event'[e].currentTarget = event[e].currentTarget
    /\ event'[e].inPassive = event[e].inPassive
    /\ event[e].stopImmediate => event'[e].stopImmediate
    /\ event[e].canceled => event'[e].canceled

\* The five kinds of steps.  Nothing happens to the stack;
QuietStep == stack' = stack /\ EventTypes' /\ \A e \in AllEvents : SameFlags(e)

\* the innermost dispatch goes on as g;
WalkStep(g) ==
    /\ Top.kind = "dispatch" /\ Replaced(g) /\ EventTypes'
    /\ g.kind = "dispatch" /\ g.event = Top.event /\ g.target = Top.target
    /\ \A e \in AllEvents \ {Top.event} : SameFlags(e)
    /\ event'[Top.event].dispatched = event[Top.event].dispatched
    /\ event'[Top.event].stopImmediate = event[Top.event].stopImmediate
    /\ event[Top.event].canceled => event'[Top.event].canceled
    /\ event'[Top.event].inPassive <=> InCallback(g) /\ g.current.passive

\* a dispatch begins, perhaps because of a report on the top;
BeginStep(g) ==
    /\ EventTypes' /\ g \in WalkFrame /\ g.step = "tuple" /\ g.k >= 1 /\ g.called = {}
    /\ DOMAIN stack' = DOMAIN stack \cup {Len(stack) + 1} /\ Len(stack) + 1 \notin DOMAIN stack
    /\ stack' \in Seq(AnyFrame) /\ stack'[Len(stack) + 1] = g
    /\ \A i \in DOMAIN stack :
          stack'[i] = stack[i] \/ (stack[i].kind = "report" /\ stack'[i].kind = "report")
    /\ event'[g.event].dispatched /\ ~event'[g.event].inPassive
    /\ \A e \in AllEvents \ {g.event} : SameFlags(e)

\* the innermost dispatch ends;
EndStep ==
    /\ stack # <<>> /\ Top.kind = "dispatch" /\ Top.step = "tuple" /\ Popped /\ EventTypes'
    /\ event'[Top.event].eventPhase = "none" /\ event'[Top.event].currentTarget = None
    /\ ~event'[Top.event].dispatched
    /\ event'[Top.event].inPassive = event[Top.event].inPassive
    /\ event[Top.event].canceled => event'[Top.event].canceled
    /\ \A e \in AllEvents \ {Top.event} : SameFlags(e)

\* and reports, which leave the events and the dispatches alone.
ReportStep ==
    /\ UNCHANGED event /\ stack' \in Seq(AnyFrame)
    /\ \A i \in DOMAIN stack' \ DOMAIN stack : stack'[i].kind = "report"
    /\ \A i \in DOMAIN stack \ DOMAIN stack' : stack[i].kind = "report"
    /\ \A i \in DOMAIN stack \cap DOMAIN stack' :
          /\ stack'[i].kind = stack[i].kind
          /\ stack[i].kind = "dispatch" =>
                /\ stack'[i].event = stack[i].event /\ stack'[i].current = stack[i].current
                /\ InCallback(stack'[i]) <=> InCallback(stack[i])

LEMMA FrameKinds ==
    ASSUME stack \in Seq(AnyFrame)
    PROVE  \A i \in DOMAIN stack :
              /\ stack[i] \in AnyFrame
              /\ stack[i].kind \in {"dispatch", "report"}
              /\ stack[i].kind = "dispatch" => stack[i] \in WalkFrame /\ stack[i].event \in AllEvents
              /\ stack[i].kind = "report" => stack[i] \in ErrorFrame
<1>1. \A i \in DOMAIN stack : stack[i] \in AnyFrame
  BY LenProperties, ElementOfSeq
<1> QED
  BY <1>1 DEF AnyFrame, WalkFrame, ErrorFrame

LEMMA QuietKeepsFlight ==
    ASSUME FlightInv, QuietStep, Typed
    PROVE  FlightInv'
<1>1. \A e \in AllEvents : Flies(e)' <=> Flies(e)
  BY DEF QuietStep, Flies
<1>2. \A i \in DOMAIN stack : stack[i].kind = "dispatch" => stack[i].event \in AllEvents
  BY FrameKinds DEF Typed
<1> QED
  BY <1>1, <1>2 DEF QuietStep, SameFlags, FlightInv, InCallback

LEMMA WalkKeepsFlight ==
    ASSUME FlightInv, Typed, stack # <<>>, NEW g, WalkStep(g)
    PROVE  FlightInv'
<1> DEFINE n == Len(stack)
<1>1. n \in DOMAIN stack /\ Top = stack[n]
  BY TopOfStack DEF Typed
<1>2. \A i \in DOMAIN stack : stack[i].kind = "dispatch" => stack[i].event \in AllEvents
  BY FrameKinds DEF Typed
<1>3. /\ DOMAIN stack' = DOMAIN stack /\ stack'[n] = g
      /\ \A i \in DOMAIN stack : i # n => stack'[i] = stack[i]
  BY DEF WalkStep, Replaced
<1> HIDE DEF n
<1>4. \A i \in DOMAIN stack :
         stack'[i].kind = stack[i].kind
         /\ (stack[i].kind = "dispatch" => stack'[i].event = stack[i].event)
  BY <1>1, <1>3 DEF WalkStep
<1>5. \A e \in AllEvents : Flies(e)' <=> Flies(e)
  BY <1>3, <1>4 DEF Flies
<1>6. Top.event \in AllEvents /\ Flies(Top.event)
  BY <1>1, <1>2 DEF WalkStep, Flies
<1>7. \A i, j \in DOMAIN stack' :
          stack'[i].kind = "dispatch" /\ stack'[j].kind = "dispatch"
          /\ stack'[i].event = stack'[j].event => i = j
  BY <1>3, <1>4 DEF FlightInv
<1>8. \A e \in AllEvents :
         /\ event'[e].dispatched <=> Flies(e)
         /\ ~Flies(e) => event'[e].eventPhase = "none" /\ event'[e].currentTarget = None
                         /\ ~event'[e].inPassive
  BY <1>6 DEF WalkStep, SameFlags, FlightInv
<1>9. ASSUME NEW i \in DOMAIN stack', stack'[i].kind = "dispatch"
      PROVE  event'[stack'[i].event].inPassive
                <=> InCallback(stack'[i]) /\ stack'[i].current.passive
  <2>1. CASE i = n
    BY <1>1, <1>3, <2>1 DEF WalkStep
  <2>2. CASE i # n
    <3>1. stack'[i] = stack[i] /\ stack[i].event \in AllEvents \ {Top.event}
      BY <1>1, <1>2, <1>3, <1>9, <2>2 DEF FlightInv, WalkStep
    <3> QED
      BY <1>3, <1>9, <3>1 DEF FlightInv, WalkStep, SameFlags
  <2> QED
    BY <2>1, <2>2
<1> QED
  BY <1>5, <1>7, <1>8, <1>9 DEF FlightInv, InCallback

LEMMA BeginKeepsFlight ==
    ASSUME FlightInv, Typed, NEW g, BeginStep(g), ~Flies(g.event)
    PROVE  FlightInv'
<1> DEFINE n == Len(stack) + 1
<1>1. \A i \in DOMAIN stack : stack[i].kind = "dispatch" =>
         stack[i].event \in AllEvents \ {g.event}
  BY FrameKinds DEF Typed, Flies
<1>2. g.kind = "dispatch" /\ g.event \in AllEvents /\ ~InCallback(g)
  BY DEF BeginStep, WalkFrame, InCallback
<1>3. /\ DOMAIN stack' = DOMAIN stack \cup {n} /\ n \notin DOMAIN stack /\ stack'[n] = g
      /\ \A i \in DOMAIN stack :
            stack'[i] = stack[i] \/ (stack[i].kind = "report" /\ stack'[i].kind = "report")
  BY DEF BeginStep
<1> HIDE DEF n
<1>4. \A i \in DOMAIN stack : stack'[i].kind = "dispatch" =>
         stack'[i] = stack[i] /\ stack[i].event \in AllEvents \ {g.event}
  BY <1>1, <1>3
<1>5. Flies(g.event)' /\ \A e \in AllEvents \ {g.event} : Flies(e)' <=> Flies(e)
  <2>1. Flies(g.event)'
    BY <1>2, <1>3 DEF Flies
  <2>2. ASSUME NEW e \in AllEvents \ {g.event}, Flies(e)
        PROVE  Flies(e)'
    <3>1. PICK i \in DOMAIN stack : stack[i].kind = "dispatch" /\ stack[i].event = e
      BY <2>2 DEF Flies
    <3>2. i \in DOMAIN stack' /\ stack'[i] = stack[i]
      BY <1>3, <3>1
    <3> QED
      BY <3>1, <3>2 DEF Flies
  <2>3. ASSUME NEW e \in AllEvents \ {g.event}, Flies(e)'
        PROVE  Flies(e)
    <3>1. PICK i \in DOMAIN stack' : stack'[i].kind = "dispatch" /\ stack'[i].event = e
      BY <2>3 DEF Flies
    <3>2. i \in DOMAIN stack
      BY <1>3, <2>3, <3>1
    <3> QED
      BY <1>4, <3>1, <3>2 DEF Flies
  <2> QED
    BY <2>1, <2>2, <2>3
<1>6. \A i, j \in DOMAIN stack' :
          stack'[i].kind = "dispatch" /\ stack'[j].kind = "dispatch"
          /\ stack'[i].event = stack'[j].event => i = j
  BY <1>3, <1>4 DEF FlightInv
<1>7. \A e \in AllEvents :
         /\ event'[e].dispatched <=> Flies(e)'
         /\ ~Flies(e)' => event'[e].eventPhase = "none" /\ event'[e].currentTarget = None
                          /\ ~event'[e].inPassive
  BY <1>5 DEF BeginStep, SameFlags, FlightInv
<1>8. ASSUME NEW i \in DOMAIN stack', stack'[i].kind = "dispatch"
      PROVE  event'[stack'[i].event].inPassive
                <=> InCallback(stack'[i]) /\ stack'[i].current.passive
  <2>1. CASE i = n
    BY <1>2, <1>3, <2>1 DEF BeginStep
  <2>2. CASE i # n
    <3>1. i \in DOMAIN stack /\ stack'[i] = stack[i] /\ stack[i].event \in AllEvents \ {g.event}
      BY <1>3, <1>4, <1>8, <2>2
    <3> QED
      BY <1>8, <3>1 DEF FlightInv, BeginStep, SameFlags
  <2> QED
    BY <2>1, <2>2
<1> QED
  BY <1>6, <1>7, <1>8 DEF FlightInv, InCallback

LEMMA EndKeepsFlight ==
    ASSUME FlightInv, Typed, EndStep
    PROVE  FlightInv'
<1> DEFINE n == Len(stack)
<1>1. n \in DOMAIN stack /\ Top = stack[n] /\ stack[n].kind = "dispatch" /\ ~InCallback(Top)
  BY TopOfStack DEF Typed, EndStep, InCallback
<1>2. \A i \in DOMAIN stack : stack[i].kind = "dispatch" => stack[i].event \in AllEvents
  BY FrameKinds DEF Typed
<1>3. /\ DOMAIN stack' = DOMAIN stack \ {n} /\ \A i \in DOMAIN stack' : stack'[i] = stack[i]
  BY DEF EndStep, Popped
<1> HIDE DEF n
<1> PICK ended : ended = Top.event
  OBVIOUS
<1>4. ~Flies(ended)' /\ \A e \in AllEvents \ {ended} : Flies(e)' <=> Flies(e)
  BY <1>1, <1>3 DEF Flies, FlightInv
<1>5. Top.event \in AllEvents /\ ~event[Top.event].inPassive
  BY <1>1, <1>2 DEF FlightInv
<1>6. \A e \in AllEvents :
         /\ event'[e].dispatched <=> Flies(e)'
         /\ ~Flies(e)' => event'[e].eventPhase = "none" /\ event'[e].currentTarget = None
                          /\ ~event'[e].inPassive
  BY <1>4, <1>5 DEF EndStep, SameFlags, FlightInv
<1>7. ASSUME NEW i \in DOMAIN stack', stack'[i].kind = "dispatch"
      PROVE  event'[stack'[i].event].inPassive
                <=> InCallback(stack'[i]) /\ stack'[i].current.passive
  <2>1. i \in DOMAIN stack /\ stack'[i] = stack[i] /\ stack[i].event \in AllEvents \ {Top.event}
    BY <1>1, <1>2, <1>3, <1>7 DEF FlightInv
  <2> QED
    BY <1>7, <2>1 DEF FlightInv, EndStep, SameFlags
<1> QED
  BY <1>3, <1>6, <1>7 DEF FlightInv, InCallback

LEMMA ReportKeepsFlight ==
    ASSUME FlightInv, Typed, ReportStep
    PROVE  FlightInv'
<1>1. \A i \in DOMAIN stack' : stack'[i].kind = "dispatch" =>
         /\ i \in DOMAIN stack /\ stack[i].kind = "dispatch"
         /\ stack'[i].event = stack[i].event /\ stack'[i].current = stack[i].current
         /\ InCallback(stack'[i]) <=> InCallback(stack[i])
  BY DEF ReportStep
<1>2. \A i \in DOMAIN stack : stack[i].kind = "dispatch" =>
         i \in DOMAIN stack' /\ stack'[i].kind = "dispatch" /\ stack'[i].event = stack[i].event
  BY DEF ReportStep
<1>3. \A e \in AllEvents : Flies(e)' <=> Flies(e)
  BY <1>1, <1>2 DEF Flies
<1> QED
  BY <1>1, <1>3 DEF FlightInv, ReportStep, InCallback

-----------------------------------------------------------------------------
(* What each action does to the stack and the events.                       *)

\* The frame g is at the same tuple as f.
SamePlace(f, g) ==
    g.event = f.event /\ g.target = f.target /\ g.pass = f.pass /\ g.k = f.k

\* The event is at the same tuple after the step.
PhaseKept ==
    /\ event'[Top.event].eventPhase = event[Top.event].eventPhase
    /\ event'[Top.event].currentTarget = event[Top.event].currentTarget

\* How the walk of the innermost dispatch goes on: it comes to a tuple and copies
\* its list,
Enters(g) ==
    /\ Top.step = "tuple" /\ Top.k <= Len(Path[Top.target]) /\ Invoked(Top)
    /\ SamePlace(Top, g) /\ g.step = "handler"
    /\ g.i = 1 /\ g.start = ListOf(Top) /\ g.called = Top.called
    /\ event'[Top.event].eventPhase = PhaseOf(Top)
    /\ event'[Top.event].currentTarget = Item(Top)
\* leaves it,
Leaves(g) ==
    /\ \/ Top.step = "tuple" /\ Top.k <= Len(Path[Top.target])
       \/ Top.step = "handler" /\ Top.i > Len(Top.start)
    /\ g = NextTuple(Top)
\* passes over a listener,
Skips(g) ==
    /\ Top.step = "handler" /\ Top.i <= Len(Top.start) /\ Skipped(Top, Handler(Top))
    /\ SamePlace(Top, g) /\ g.step = "handler"
    /\ g.i = Top.i + 1 /\ g.start = Top.start /\ g.called = Top.called
    /\ PhaseKept
\* calls one,
Calls(g) ==
    /\ MayCall
    /\ SamePlace(Top, g) /\ g.step \in {"calling", "returned"}
    /\ g.i = Top.i /\ g.start = Top.start /\ g.current = Handler(Top)
    /\ g.called = Top.called \cup {Handler(Top).id}
    /\ PhaseKept
\* comes back from it
ComesBack(g) ==
    /\ Top.step = "calling" /\ SamePlace(Top, g) /\ g.step = "returned"
    /\ g.i = Top.i /\ g.start = Top.start /\ g.called = Top.called
Returns(g) == ComesBack(g) /\ PhaseKept
\* and goes to the next.
Continues(g) ==
    /\ Top.step = "returned" /\ SamePlace(Top, g) /\ g.step = "handler"
    /\ g.i = Top.i + 1 /\ g.start = Top.start /\ g.called = Top.called
    /\ PhaseKept

LEMMA TopKind ==
    ASSUME Typed, stack # <<>>
    PROVE  /\ Top.step \in {"tuple", "handler", "calling", "returned"} <=> Top \in WalkFrame
           /\ Top.step \in {"report", "dispatched", "reported"} <=> Top \in ErrorFrame
           /\ Top \in WalkFrame <=> Top.kind = "dispatch"
           /\ Top \in ErrorFrame <=> Top.kind = "report"
  BY TopOfStack DEF Typed, AnyFrame, WalkFrame, ErrorFrame

LEMMA QuietActions ==
    ASSUME EventDispatchAssumption, Typed,
           \/ UNCHANGED <<stack, event>>
           \/ \E t \in Targets, e \in Events :
                 DispatchEvent(t, e) /\ <<t, "plain">> \notin created
           \/ \E e \in Events : StopPropagation(e) \/ StopImmediatePropagation(e)
           \/ \E e \in Canceling : PreventDefault(e) \/ SetReturnValue(e)
    PROVE  QuietStep
<1>1. Canceling \subseteq AllEvents /\ Events \subseteq AllEvents
  BY DEF EventDispatchAssumption, AllEvents
<1>2. CASE UNCHANGED <<stack, event>>
  BY <1>2 DEF QuietStep, SameFlags, Typed, EventTypes
<1>3. ASSUME NEW e \in AllEvents, NEW f \in {"target", "cancelBubble", "canceled", "stopImmediate"},
             NEW v, v \/ f = "target",
             event' = [event EXCEPT ![e] = [@ EXCEPT ![f] = v]], stack' = stack
      PROVE  QuietStep
  <2>1. /\ DOMAIN event' = AllEvents /\ \A x \in AllEvents : DOMAIN event'[x] = DOMAIN Idle
        /\ \A x \in AllEvents \ {e} : event'[x] = event[x]
        /\ event'[e] = [event[e] EXCEPT ![f] = v] /\ DOMAIN event[e] = DOMAIN Idle
    BY <1>3 DEF Typed, EventTypes
  <2>2. SameFlags(e)
    BY <1>3, <2>1 DEF SameFlags, Idle
  <2> QED
    BY <1>3, <2>1, <2>2 DEF QuietStep, EventTypes, SameFlags
<1>4. ASSUME NEW t \in Targets, NEW e \in Events,
             DispatchEvent(t, e), <<t, "plain">> \notin created
      PROVE  QuietStep
  BY <1>1, <1>3, <1>4 DEF DispatchEvent
<1>5. ASSUME NEW e \in Events, StopPropagation(e)
      PROVE  QuietStep
  BY <1>1, <1>3, <1>5 DEF StopPropagation
<1>6. ASSUME NEW e \in Events, StopImmediatePropagation(e)
      PROVE  QuietStep
  <2>1. /\ DOMAIN event' = AllEvents /\ \A x \in AllEvents : DOMAIN event'[x] = DOMAIN Idle
        /\ \A x \in AllEvents : SameFlags(x)
    BY <1>1, <1>6 DEF Typed, EventTypes, StopImmediatePropagation, SameFlags, Idle
  <2> QED
    BY <1>6, <2>1 DEF QuietStep, EventTypes, StopImmediatePropagation
<1>7. ASSUME NEW e \in Canceling, PreventDefault(e) \/ SetReturnValue(e)
      PROVE  QuietStep
  BY <1>1, <1>3, <1>7 DEF PreventDefault, SetReturnValue
<1> QED
  BY <1>2, <1>4, <1>5, <1>6, <1>7

\* Replacing the frame of the innermost dispatch, with the flags of its event.
LEMMA TopWalks ==
    ASSUME Typed, stack # <<>>, Top \in WalkFrame, NEW g \in WalkFrame, SetTop(g),
           g.event = Top.event, g.target = Top.target,
           \/ UNCHANGED event
           \/ \E f \in {"inPassive", "canceled"}, v \in BOOLEAN :
                 /\ event' = [event EXCEPT ![Top.event] = [@ EXCEPT ![f] = v]]
                 /\ f = "canceled" => v,
           event'[Top.event].inPassive <=> InCallback(g) /\ g.current.passive
    PROVE  WalkStep(g) /\ PhaseKept
<1>1. Replaced(g)
  BY SetTopReplaces DEF Typed, AnyFrame
<1>2. Top.kind = "dispatch" /\ g.kind = "dispatch" /\ Top.event \in AllEvents
  BY DEF WalkFrame
<1>3. CASE UNCHANGED event
  BY <1>1, <1>2, <1>3 DEF WalkStep, SameFlags, Typed, EventTypes, PhaseKept
<1>4. ASSUME NEW f \in {"inPassive", "canceled"}, NEW v \in BOOLEAN, f = "canceled" => v,
             event' = [event EXCEPT ![Top.event] = [@ EXCEPT ![f] = v]]
      PROVE  WalkStep(g) /\ PhaseKept
  <2>1. /\ DOMAIN event' = AllEvents /\ \A x \in AllEvents : DOMAIN event'[x] = DOMAIN Idle
        /\ \A x \in AllEvents \ {Top.event} : event'[x] = event[x]
        /\ event'[Top.event] = [event[Top.event] EXCEPT ![f] = v]
        /\ DOMAIN event[Top.event] = DOMAIN Idle
    BY <1>2, <1>4 DEF Typed, EventTypes
  <2>2. EventTypes' /\ \A e \in AllEvents \ {Top.event} : SameFlags(e)
    BY <2>1 DEF EventTypes, SameFlags
  <2>3. /\ event'[Top.event].dispatched = event[Top.event].dispatched
        /\ event'[Top.event].stopImmediate = event[Top.event].stopImmediate
        /\ PhaseKept
        /\ event[Top.event].canceled => event'[Top.event].canceled
    BY <1>4, <2>1 DEF Idle, PhaseKept
  <2> QED
    BY <1>1, <1>2, <2>2, <2>3 DEF WalkStep
<1> QED
  BY <1>3, <1>4

LEMMA ListOfIsTyped ==
    ASSUME ListsInv, NEW f
    PROVE  ListOf(f) \in Seq(Listener)
  BY DEF ListsInv, ListOf

LEMMA NextTupleIsTyped ==
    ASSUME NEW f \in WalkFrame
    PROVE  /\ NextTuple(f) \in WalkFrame /\ NextTuple(f).step = "tuple"
           /\ NextTuple(f).event = f.event /\ NextTuple(f).target = f.target
           /\ NextTuple(f).called = f.called
           /\ NextTuple(f).pass = IF f.pass = "bubble" \/ ~(f.k > 1) THEN "bubble" ELSE "capture"
           /\ NextTuple(f).k = IF f.pass = "bubble" THEN f.k + 1 ELSE IF f.k > 1 THEN f.k - 1 ELSE 1
<1>1. ASSUME NEW pass \in {"capture", "bubble"}, NEW k \in Nat
      PROVE  /\ At(f, pass, k) \in WalkFrame /\ At(f, pass, k).step = "tuple"
             /\ At(f, pass, k).event = f.event /\ At(f, pass, k).target = f.target
             /\ At(f, pass, k).called = f.called
             /\ At(f, pass, k).pass = pass /\ At(f, pass, k).k = k
  <2>1. At(f, pass, k) =
            [kind |-> f.kind, event |-> f.event, target |-> f.target, pass |-> pass, k |-> k,
             step |-> "tuple", i |-> 1, start |-> <<>>, current |-> NoListener,
             called |-> f.called]
    BY DEF At, TupleFrame, WalkFrame
  <2>2. <<>> \in Seq(Listener)
    OBVIOUS
  <2> QED
    BY <2>1, <2>2 DEF WalkFrame
<1>2. f.k \in Nat /\ f.pass \in {"capture", "bubble"}
  BY DEF WalkFrame
<1> QED
  BY <1>1, <1>2 DEF NextTuple

\* Updates of a frame, field by field.
LEMMA StepUpdate ==
    ASSUME NEW f \in WalkFrame, NEW step \in {"tuple", "handler", "calling", "returned"},
           NEW g, g = [f EXCEPT !.step = step]
    PROVE  /\ g \in WalkFrame /\ g.step = step /\ g.kind = f.kind /\ g.event = f.event
           /\ g.target = f.target /\ g.pass = f.pass /\ g.k = f.k /\ g.i = f.i
           /\ g.start = f.start /\ g.current = f.current /\ g.called = f.called
  BY DEF WalkFrame

LEMMA IndexUpdate ==
    ASSUME NEW f \in WalkFrame, NEW i \in Nat \ {0}, NEW g, g = [f EXCEPT !.i = i]
    PROVE  /\ g \in WalkFrame /\ g.step = f.step /\ g.kind = f.kind /\ g.event = f.event
           /\ g.target = f.target /\ g.pass = f.pass /\ g.k = f.k /\ g.i = i
           /\ g.start = f.start /\ g.current = f.current /\ g.called = f.called
  BY DEF WalkFrame

LEMMA StartUpdate ==
    ASSUME NEW f \in WalkFrame, NEW start \in Seq(Listener), NEW g, g = [f EXCEPT !.start = start]
    PROVE  /\ g \in WalkFrame /\ g.step = f.step /\ g.kind = f.kind /\ g.event = f.event
           /\ g.target = f.target /\ g.pass = f.pass /\ g.k = f.k /\ g.i = f.i
           /\ g.start = start /\ g.current = f.current /\ g.called = f.called
  BY DEF WalkFrame

LEMMA CurrentUpdate ==
    ASSUME NEW f \in WalkFrame, NEW h \in Listener, NEW g, g = [f EXCEPT !.current = h]
    PROVE  /\ g \in WalkFrame /\ g.step = f.step /\ g.kind = f.kind /\ g.event = f.event
           /\ g.target = f.target /\ g.pass = f.pass /\ g.k = f.k /\ g.i = f.i
           /\ g.start = f.start /\ g.current = h /\ g.called = f.called
  BY DEF WalkFrame

LEMMA CalledUpdate ==
    ASSUME NEW f \in WalkFrame, NEW called \in SUBSET Nat, NEW g, g = [f EXCEPT !.called = called]
    PROVE  /\ g \in WalkFrame /\ g.step = f.step /\ g.kind = f.kind /\ g.event = f.event
           /\ g.target = f.target /\ g.pass = f.pass /\ g.k = f.k /\ g.i = f.i
           /\ g.start = f.start /\ g.current = f.current /\ g.called = called
  BY DEF WalkFrame

\* The actions of a walk, as steps of it.
LEMMA TupleWalks ==
    ASSUME ListsInv, FlightInv, Typed, Tuple
    PROVE  \E g \in WalkFrame : WalkStep(g) /\ (Enters(g) \/ Leaves(g))
<1> DEFINE e == Top.event
           enter == Invoked(Top) /\ ~event[e].cancelBubble
           entered == [Top EXCEPT !.step = "handler", !.i = 1, !.start = ListOf(Top)]
           g == IF enter THEN entered ELSE NextTuple(Top)
<1>1. stack # <<>> /\ Top \in WalkFrame /\ Top.kind = "dispatch" /\ Top.step = "tuple"
      /\ Top.k <= Len(Path[Top.target])
  BY TopKind DEF Tuple, Dispatching
<1>2. e \in AllEvents /\ ListOf(Top) \in Seq(Listener)
  BY <1>1, ListOfIsTyped DEF WalkFrame
<1>3. /\ entered \in WalkFrame /\ SamePlace(Top, entered) /\ entered.step = "handler"
      /\ entered.i = 1 /\ entered.start = ListOf(Top) /\ entered.called = Top.called
      /\ entered.kind = "dispatch" /\ ~InCallback(entered)
  <2>1. PICK a : a = [Top EXCEPT !.step = "handler"]
    OBVIOUS
  <2>2. PICK b : b = [a EXCEPT !.i = 1]
    OBVIOUS
  <2>3. PICK start : start = ListOf(Top)
    OBVIOUS
  <2>4. PICK c : c = [b EXCEPT !.start = start]
    OBVIOUS
  <2>5. /\ a \in WalkFrame /\ a.step = "handler" /\ SamePlace(Top, a)
        /\ a.kind = "dispatch" /\ a.called = Top.called
    BY <1>1, <2>1, StepUpdate DEF SamePlace
  <2>6. /\ b \in WalkFrame /\ b.step = "handler" /\ SamePlace(Top, b)
        /\ b.kind = "dispatch" /\ b.called = Top.called /\ b.i = 1
    BY <2>2, <2>5, IndexUpdate DEF SamePlace
  <2>7. start \in Seq(Listener)
    BY <1>2, <2>3
  <2>8. /\ c \in WalkFrame /\ c.step = "handler" /\ SamePlace(Top, c)
        /\ c.kind = "dispatch" /\ c.called = Top.called /\ c.i = 1 /\ c.start = start
    BY <2>4, <2>6, <2>7, StartUpdate DEF SamePlace
  <2>9. entered = c
    BY <2>1, <2>2, <2>3, <2>4
  <2> HIDE DEF entered
  <2> QED
    BY <2>3, <2>8, <2>9 DEF InCallback
<1>4. /\ NextTuple(Top) \in WalkFrame /\ NextTuple(Top).event = e
      /\ NextTuple(Top).target = Top.target /\ NextTuple(Top).kind = "dispatch"
      /\ ~InCallback(NextTuple(Top))
  BY <1>1, NextTupleIsTyped DEF InCallback, WalkFrame
<1>5. SetTop(g) /\ g \in WalkFrame
  BY <1>3, <1>4 DEF Tuple
<1>6. Replaced(g)
  BY <1>1, <1>5, SetTopReplaces DEF Typed, AnyFrame
<1>7. /\ EventTypes' /\ \A x \in AllEvents \ {e} : SameFlags(x)
      /\ event'[e].eventPhase = PhaseOf(Top)
      /\ enter => event'[e].currentTarget = Item(Top)
      /\ event'[e].dispatched = event[e].dispatched
      /\ event'[e].stopImmediate = event[e].stopImmediate
      /\ event'[e].canceled = event[e].canceled
      /\ event'[e].inPassive = event[e].inPassive
  <2> PICK a, b, c : event' = [event EXCEPT ![e].eventPhase = a, ![e].target = b,
                                             ![e].currentTarget = c] /\ a = PhaseOf(Top)
                        /\ (enter => c = Item(Top))
    BY DEF Tuple
  <2> QED
    BY <1>2 DEF Typed, EventTypes, SameFlags, Idle
<1>8. ~event[e].inPassive
  <2>1. ~InCallback(Top)
    BY <1>1 DEF InCallback
  <2> QED
    BY <1>1, <2>1, TopOfStack DEF FlightInv, Typed
<1>9. WalkStep(g)
  <2>1. ~InCallback(g) /\ g.event = e /\ g.target = Top.target /\ g.kind = "dispatch"
    BY <1>3, <1>4 DEF SamePlace
  <2> QED
    BY <1>1, <1>6, <1>7, <1>8, <2>1 DEF WalkStep
<1>10. Enters(g) \/ Leaves(g)
  BY <1>1, <1>3, <1>7 DEF Enters, Leaves
<1> QED
  BY <1>5, <1>9, <1>10

LEMMA SkipWalks ==
    ASSUME FlightInv, Typed, SkipHandler
    PROVE  \E g \in WalkFrame : WalkStep(g) /\ Skips(g)
<1> DEFINE g == [Top EXCEPT !.i = @ + 1]
<1>1. stack # <<>> /\ Top \in WalkFrame /\ Top.kind = "dispatch" /\ Top.step = "handler"
  BY TopKind DEF SkipHandler, Dispatching
<1>2. Top.i + 1 \in Nat \ {0}
  BY <1>1 DEF WalkFrame
<1>3. /\ g \in WalkFrame /\ g.step = "handler" /\ SamePlace(Top, g)
      /\ g.i = Top.i + 1 /\ g.start = Top.start /\ g.called = Top.called
  BY <1>1, <1>2, IndexUpdate DEF SamePlace
<1>4. SetTop(g) /\ UNCHANGED event
  BY DEF SkipHandler
<1>5. ~event[Top.event].inPassive /\ ~InCallback(g)
  BY <1>1, <1>3, TopOfStack DEF FlightInv, Typed, InCallback, SamePlace
<1>6. WalkStep(g) /\ PhaseKept
  BY <1>1, <1>3, <1>4, <1>5, TopWalks DEF SamePlace
<1> QED
  BY <1>3, <1>6 DEF Skips, SkipHandler

LEMMA EndWalkWalks ==
    ASSUME FlightInv, Typed, EndWalk
    PROVE  \E g \in WalkFrame : WalkStep(g) /\ Leaves(g)
<1> DEFINE g == NextTuple(Top)
<1>1. stack # <<>> /\ Top \in WalkFrame /\ Top.kind = "dispatch" /\ Top.step = "handler"
  BY TopKind DEF EndWalk, Dispatching
<1>2. g \in WalkFrame /\ g.event = Top.event /\ g.target = Top.target /\ ~InCallback(g)
  BY <1>1, NextTupleIsTyped DEF InCallback
<1>3. SetTop(g) /\ UNCHANGED event
  BY DEF EndWalk
<1>4. ~event[Top.event].inPassive
  BY <1>1, TopOfStack DEF FlightInv, Typed, InCallback
<1>5. WalkStep(g)
  BY <1>1, <1>2, <1>3, <1>4, TopWalks
<1> QED
  BY <1>2, <1>5 DEF Leaves, EndWalk

LEMMA CallWalks ==
    ASSUME FlightInv, Typed, CallHandler
    PROVE  \E g \in WalkFrame : WalkStep(g) /\ Calls(g)
<1> DEFINE h == Handler(Top)
<1>1. stack # <<>> /\ Top \in WalkFrame /\ Top.kind = "dispatch" /\ Top.step = "handler"
      /\ MayCall
  BY TopKind DEF CallHandler, MayCall, Dispatching
<1>2. h \in Listener /\ Top.event \in AllEvents
  <2>1. Top.start \in Seq(Listener) /\ Top.i \in 1 .. Len(Top.start) /\ Top.event \in AllEvents
    BY <1>1, LenProperties DEF MayCall, WalkFrame
  <2> QED
    BY <2>1, ElementOfSeq DEF Handler
<1>3. PICK step \in {"calling", "returned"} :
         SetTop([Top EXCEPT !.step = step, !.current = h, !.called = @ \cup {h.id}])
  BY DEF CallHandler, Call
<1> DEFINE g == [Top EXCEPT !.step = step, !.current = h, !.called = @ \cup {h.id}]
<1>4. /\ g \in WalkFrame /\ g.step = step /\ SamePlace(Top, g) /\ g.current = h
      /\ g.i = Top.i /\ g.start = Top.start /\ g.called = Top.called \cup {h.id}
  <2>1. PICK a : a = [Top EXCEPT !.step = step]
    OBVIOUS
  <2>2. PICK c : c = h
    OBVIOUS
  <2>3. PICK b : b = [a EXCEPT !.current = c]
    OBVIOUS
  <2>4. PICK ids : ids = Top.called \cup {h.id}
    OBVIOUS
  <2>5. PICK d : d = [b EXCEPT !.called = ids]
    OBVIOUS
  <2>6. /\ a \in WalkFrame /\ a.step = step /\ SamePlace(Top, a)
        /\ a.i = Top.i /\ a.start = Top.start
    BY <1>1, <2>1, StepUpdate DEF SamePlace
  <2>7. c \in Listener
    BY <1>2, <2>2
  <2>8. /\ b \in WalkFrame /\ b.step = step /\ SamePlace(Top, b)
        /\ b.i = Top.i /\ b.start = Top.start
        /\ b.current = c
    BY <2>3, <2>6, <2>7, CurrentUpdate DEF SamePlace
  <2>9. ids \in SUBSET Nat
    BY <1>1, <1>2, <2>4 DEF WalkFrame, Listener
  <2>10. /\ d \in WalkFrame /\ d.step = step /\ SamePlace(Top, d)
        /\ d.i = Top.i /\ d.start = Top.start /\ d.called = ids
         /\ d.current = c
    BY <2>5, <2>8, <2>9, CalledUpdate DEF SamePlace
  <2>11. g = d
    BY <1>1, <2>1, <2>2, <2>3, <2>4, <2>5 DEF WalkFrame
  <2> HIDE DEF g
  <2> QED
    BY <2>2, <2>4, <2>10, <2>11
<1>5. ~event[Top.event].inPassive
  BY <1>1, TopOfStack DEF FlightInv, Typed, InCallback
<1>6. event' = [event EXCEPT ![Top.event].inPassive = @ \/ h.passive]
  BY DEF CallHandler, Call
<1>7. h.passive \in BOOLEAN
  BY <1>2 DEF Listener
<1> HIDE DEF h, g
<1>8. event' = [event EXCEPT ![Top.event] = [@ EXCEPT !["inPassive"] = h.passive]]
  <2>1. (event[Top.event].inPassive \/ h.passive) = h.passive
    BY <1>5, <1>7
  <2> QED
    BY <1>6, <2>1
<1>9. event'[Top.event].inPassive <=> InCallback(g) /\ g.current.passive
  <2>1. event'[Top.event].inPassive = h.passive
    BY <1>2, <1>8 DEF Typed, EventTypes, Idle
  <2> QED
    BY <1>4, <2>1 DEF InCallback, SamePlace
<1>10. SetTop(g)
  BY <1>3 DEF g
<1>11. WalkStep(g) /\ PhaseKept
  BY <1>1, <1>4, <1>7, <1>8, <1>9, <1>10, TopWalks DEF SamePlace
<1>12. Calls(g)
  BY <1>1, <1>4, <1>11 DEF Calls, h
<1> QED
  BY <1>4, <1>11, <1>12

LEMMA ReturnWalks ==
    ASSUME FlightInv, Typed, Return \/ ReturnTrue
    PROVE  \E g \in WalkFrame : WalkStep(g) /\ Returns(g)
<1> DEFINE g == [Top EXCEPT !.step = "returned"]
<1>1. stack # <<>> /\ Top \in WalkFrame /\ Top.kind = "dispatch" /\ Top.step = "calling"
  BY TopKind DEF Return, ReturnTrue
<1>2. /\ g \in WalkFrame /\ g.step = "returned" /\ SamePlace(Top, g)
      /\ g.current = Top.current
      /\ g.i = Top.i /\ g.start = Top.start /\ g.called = Top.called
  BY <1>1, StepUpdate DEF SamePlace
<1>3. SetTop(g)
  BY DEF Return, ReturnTrue
<1>4. event[Top.event].inPassive <=> Top.current.passive
  BY <1>1, TopOfStack DEF FlightInv, Typed, InCallback
<1> HIDE DEF g
<1>5. CASE UNCHANGED event
  <2>1. WalkStep(g) /\ PhaseKept
    BY <1>1, <1>2, <1>3, <1>4, <1>5, TopWalks DEF InCallback, SamePlace
  <2> QED
    BY <1>1, <1>2, <2>1 DEF Returns, ComesBack
<1>6. CASE ReturnTrue
  <2>1. /\ event' = [event EXCEPT ![Top.event] = [@ EXCEPT !["canceled"] = TRUE]]
        /\ Top.event \in AllEvents
    BY <1>1, <1>6 DEF ReturnTrue, AllEvents
  <2>2. event'[Top.event].inPassive = event[Top.event].inPassive
    BY <2>1 DEF Typed, EventTypes
  <2>3. WalkStep(g) /\ PhaseKept
    BY <1>1, <1>2, <1>3, <1>4, <2>1, <2>2, TopWalks DEF InCallback, SamePlace
  <2> QED
    BY <1>1, <1>2, <2>3 DEF Returns, ComesBack
<1> QED
  BY <1>5, <1>6 DEF Return

LEMMA AfterCallWalks ==
    ASSUME FlightInv, Typed, AfterCall
    PROVE  \E g \in WalkFrame : WalkStep(g) /\ Continues(g)
<1> DEFINE a == [Top EXCEPT !.step = "handler"]
           g == [a EXCEPT !.i = @ + 1]
<1>1. /\ stack # <<>> /\ Top \in WalkFrame /\ Top.kind = "dispatch" /\ Top.step = "returned"
      /\ Top.event \in AllEvents
  BY TopKind DEF AfterCall, Dispatching, WalkFrame
<1>2. /\ a \in WalkFrame /\ a.step = "handler" /\ SamePlace(Top, a)
      /\ a.i = Top.i /\ a.start = Top.start /\ a.called = Top.called
  BY <1>1, StepUpdate DEF SamePlace
<1>3. SetTop([Top EXCEPT !.step = "handler", !.i = @ + 1])
  BY DEF AfterCall
<1>4. g = [Top EXCEPT !.step = "handler", !.i = @ + 1]
  BY <1>1 DEF WalkFrame
<1> HIDE DEF a
<1>5. a.i + 1 \in Nat \ {0}
  BY <1>2 DEF WalkFrame
<1>6. /\ g \in WalkFrame /\ g.step = "handler" /\ SamePlace(Top, g)
      /\ g.i = Top.i + 1 /\ g.start = Top.start /\ g.called = Top.called
  BY <1>2, <1>5, IndexUpdate DEF SamePlace
<1>7. event' = [event EXCEPT ![Top.event] = [@ EXCEPT !["inPassive"] = FALSE]]
  BY DEF AfterCall
<1>8. ~event'[Top.event].inPassive
  BY <1>1, <1>7 DEF Typed, EventTypes, Idle
<1> HIDE DEF g
<1>9. WalkStep(g) /\ PhaseKept
  BY <1>1, <1>3, <1>4, <1>6, <1>7, <1>8, TopWalks DEF InCallback, SamePlace
<1> QED
  BY <1>1, <1>6, <1>9 DEF Continues

\* A dispatch begins.
LEMMA DispatchFrameIsTyped ==
    ASSUME PathsAreWays, NEW e \in AllEvents, NEW t \in Targets
    PROVE  /\ DispatchFrame(e, t) \in WalkFrame /\ DispatchFrame(e, t).step = "tuple"
           /\ DispatchFrame(e, t).event = e /\ DispatchFrame(e, t).kind = "dispatch"
           /\ DispatchFrame(e, t).k >= 1 /\ DispatchFrame(e, t).called = {}
<1>1. Len(Path[t]) \in Nat /\ Len(Path[t]) >= 1
  <2>1. /\ Path[t] \in Seq(PathTuple)
        /\ Path[t] # <<>>
    BY DEF PathsAreWays
  <2> QED
    BY <2>1, LenProperties, EmptySeq
<1>2. <<>> \in Seq(Listener)
  OBVIOUS
<1> QED
  BY <1>1, <1>2 DEF DispatchFrame, TupleFrame, WalkFrame

LEMMA DispatchEventBegins ==
    ASSUME EventDispatchAssumption, PathsAreWays, FlightInv, Typed,
           NEW t \in Targets, NEW e \in Events,
           DispatchEvent(t, e), <<t, "plain">> \in created
    PROVE  \E g \in WalkFrame : BeginStep(g) /\ Pushed(g) /\ g.event = e /\ ~Flies(e)
<1> DEFINE g == DispatchFrame(e, t)
<1>1. e \in AllEvents
  BY DEF AllEvents
<1>2. g \in WalkFrame /\ g.step = "tuple" /\ g.event = e /\ g.k >= 1 /\ g.called = {}
  BY <1>1, DispatchFrameIsTyped
<1>3. ~event[e].dispatched /\ stack' = Append(stack, g)
      /\ event' = [event EXCEPT ![e].dispatched = TRUE, ![e].eventPhase = "capturing"]
  BY DEF DispatchEvent, MayDispatch
<1> HIDE DEF g
<1>4. Pushed(g)
  BY <1>2, <1>3, AppendPushes DEF Typed, AnyFrame
<1>5. ~Flies(e) /\ ~event[e].inPassive
  BY <1>1, <1>3 DEF FlightInv
<1>6. /\ EventTypes' /\ event'[e].dispatched /\ ~event'[e].inPassive
      /\ \A x \in AllEvents \ {e} : SameFlags(x)
  BY <1>1, <1>3, <1>5 DEF Typed, EventTypes, SameFlags, Idle
<1> QED
  BY <1>2, <1>4, <1>5, <1>6 DEF BeginStep, Pushed

LEMMA ReportBegins ==
    ASSUME EventDispatchAssumption, PathsAreWays, Typed, Report,
           ~Recursive, <<Global, "error">> \in created
    PROVE  \E f \in ErrorFrame, g \in WalkFrame :
              /\ BeginStep(g) /\ PushedOn(f, g) /\ g.event = ErrorEvent /\ g.kind = "dispatch"
              /\ f.kind = "report" /\ f.step = "dispatched"
              /\ Top \in ErrorFrame /\ Top.step = "report"
<1> DEFINE f == [Top EXCEPT !.step = "dispatched"]
           g == DispatchFrame(ErrorEvent, Global)
<1>1. stack # <<>> /\ Top \in ErrorFrame /\ Top.step = "report" /\ Top.kind = "report"
  BY TopKind DEF Report
<1>2. f \in ErrorFrame /\ f.step = "dispatched" /\ f.kind = "report"
  BY <1>1 DEF ErrorFrame
<1>3. ErrorEvent \in AllEvents /\ Global \in Targets
  BY DEF AllEvents, EventDispatchAssumption
<1>4. /\ g \in WalkFrame /\ g.step = "tuple" /\ g.event = ErrorEvent /\ g.kind = "dispatch"
      /\ g.k >= 1 /\ g.called = {}
  BY <1>3, DispatchFrameIsTyped
<1>5. /\ stack' = Append(Front(stack), f) \o <<g>>
      /\ event' = [event EXCEPT ![ErrorEvent] =
                      [Idle EXCEPT !.dispatched = TRUE, !.eventPhase = "capturing"]]
  BY DEF Report
<1> HIDE DEF f, g
<1>6. PushedOn(f, g)
  BY <1>1, <1>2, <1>4, <1>5, ReplaceAndPush DEF Typed, AnyFrame
<1>7. /\ EventTypes' /\ event'[ErrorEvent].dispatched /\ ~event'[ErrorEvent].inPassive
      /\ \A x \in AllEvents \ {ErrorEvent} : SameFlags(x)
  BY <1>3, <1>5 DEF Typed, EventTypes, SameFlags, Idle
<1>8. \A i \in DOMAIN stack :
         stack'[i] = stack[i] \/ (stack[i].kind = "report" /\ stack'[i].kind = "report")
  BY <1>1, <1>2, <1>6, TopOfStack DEF PushedOn, Typed
<1> QED
  BY <1>1, <1>2, <1>4, <1>6, <1>7, <1>8 DEF BeginStep, PushedOn

LEMMA EndDispatchEnds ==
    ASSUME Typed, EndDispatch
    PROVE  EndStep
<1>1. stack # <<>> /\ Top \in WalkFrame /\ Top.kind = "dispatch" /\ Top.step = "tuple"
      /\ Top.event \in AllEvents
  BY TopKind DEF EndDispatch, Dispatching, WalkFrame
<1>2. Popped
  BY <1>1, PopPops DEF EndDispatch, Typed
<1> PICK e : e = Top.event
  OBVIOUS
<1>3. /\ EventTypes' /\ event'[e].eventPhase = "none" /\ event'[e].currentTarget = None
      /\ ~event'[e].dispatched /\ event'[e].inPassive = event[e].inPassive
      /\ event'[e].canceled = event[e].canceled
      /\ \A x \in AllEvents \ {e} : SameFlags(x)
  <2>1. event' = [event EXCEPT ![e].eventPhase = "none", ![e].currentTarget = None,
             ![e].dispatched = FALSE, ![e].cancelBubble = FALSE, ![e].stopImmediate = FALSE]
    BY DEF EndDispatch
  <2> QED
    BY <1>1, <2>1 DEF Typed, EventTypes, SameFlags, Idle
<1> QED
  BY <1>1, <1>2, <1>3 DEF EndStep

\* The steps of reportException: a report begins, above a callback that threw or
\* not,
ReportBegun ==
    /\ reports' = reports + 1 /\ UNCHANGED event
    /\ \E f \in ErrorFrame :
          /\ f.kind = "report" /\ f.step = "report"
          /\ \/ Pushed(f)
             \/ \E c \in WalkFrame :
                   /\ PushedOn(c, f) /\ Top.kind = "dispatch" /\ c.kind = "dispatch"
                   /\ c.event = Top.event /\ c.current = Top.current
                   /\ InCallback(c) /\ InCallback(Top) /\ ComesBack(c)
\* ends with the frame f,
ReportLeft(f) ==
    /\ UNCHANGED <<reports, event>> /\ Replaced(f) /\ f \in ErrorFrame
    /\ Top.kind = "report" /\ f.kind = "report" /\ f.step = "reported"
    /\ f.told \/ (event[ErrorEvent].canceled /\ Top.step = "dispatched")
\* and returns.
ReportEnded ==
    /\ reports' = reports - 1 /\ UNCHANGED event
    /\ Top.kind = "report" /\ Top.step = "reported" /\ Popped

LEMMA ReportErrorBegins ==
    ASSUME Typed, ReportError
    PROVE  ReportBegun
<1>1. ReportFrame \in ErrorFrame /\ ReportFrame.kind = "report" /\ ReportFrame.step = "report"
  BY DEF ReportFrame, ErrorFrame
<1>2. stack' = Append(stack, ReportFrame) /\ reports' = reports + 1 /\ UNCHANGED event
  BY DEF ReportError
<1>3. Pushed(ReportFrame)
  BY <1>1, <1>2, AppendPushes DEF Typed, AnyFrame
<1> QED
  BY <1>1, <1>2, <1>3 DEF ReportBegun

LEMMA ThrowBegins ==
    ASSUME Typed, Throw
    PROVE  ReportBegun
<1> DEFINE c == [Top EXCEPT !.step = "returned"]
<1>1. stack # <<>> /\ Top \in WalkFrame /\ Top.kind = "dispatch" /\ Top.step = "calling"
  BY TopKind DEF Throw
<1>2. /\ c \in WalkFrame /\ c.kind = "dispatch" /\ c.step = "returned"
      /\ c.event = Top.event /\ c.current = Top.current /\ ComesBack(c)
  BY <1>1, StepUpdate DEF ComesBack, SamePlace
<1>3. ReportFrame \in ErrorFrame /\ ReportFrame.kind = "report" /\ ReportFrame.step = "report"
  BY DEF ReportFrame, ErrorFrame
<1>4. /\ stack' = Append(Front(stack), c) \o <<ReportFrame>>
      /\ reports' = reports + 1 /\ UNCHANGED event
  BY DEF Throw
<1> HIDE DEF c
<1>5. PushedOn(c, ReportFrame)
  BY <1>1, <1>2, <1>3, <1>4, ReplaceAndPush DEF Typed, AnyFrame
<1> QED
  BY <1>1, <1>2, <1>3, <1>4, <1>5 DEF ReportBegun, InCallback

LEMMA ReportLeaves ==
    ASSUME Typed,
           \/ Report /\ (Recursive \/ <<Global, "error">> \notin created)
           \/ Dispatched
    PROVE  \E f : ReportLeft(f)
<1> PICK told \in BOOLEAN :
        /\ SetTop([Top EXCEPT !.step = "reported", !.told = told])
        /\ told \/ (event[ErrorEvent].canceled /\ Top.step = "dispatched")
  <2>1. CASE Report /\ (Recursive \/ <<Global, "error">> \notin created)
    BY <2>1 DEF Report
  <2>2. CASE Dispatched
    <3>1. CASE event[ErrorEvent].canceled
      BY <2>2, <3>1 DEF Dispatched
    <3>2. CASE ~event[ErrorEvent].canceled
      BY <2>2, <3>2 DEF Dispatched
    <3> QED
      BY <3>1, <3>2
  <2> QED
    BY <2>1, <2>2
<1> DEFINE f == [Top EXCEPT !.step = "reported", !.told = told]
<1>1. stack # <<>> /\ Top \in ErrorFrame /\ Top.kind = "report"
      /\ UNCHANGED <<reports, event>>
  BY TopKind DEF Report, Dispatched
<1>2. f \in ErrorFrame /\ f.kind = "report" /\ f.step = "reported" /\ f.told = told
  BY <1>1 DEF ErrorFrame
<1>3. SetTop(f)
  OBVIOUS
<1> HIDE DEF f
<1>4. Replaced(f)
  BY <1>1, <1>2, <1>3, SetTopReplaces DEF Typed, AnyFrame
<1> QED
  BY <1>1, <1>2, <1>4 DEF ReportLeft

LEMMA ReportedEnds ==
    ASSUME Typed, Reported
    PROVE  ReportEnded
<1>1. stack # <<>> /\ Top.kind = "report"
  BY TopKind DEF Reported
<1> QED
  BY <1>1, PopPops DEF Reported, ReportEnded, Typed

\* They leave the events and the dispatches alone.
LEMMA ReportsAreReportSteps ==
    ASSUME Typed, stack # <<>> \/ ReportBegun,
           ReportBegun \/ (\E f : ReportLeft(f)) \/ ReportEnded
    PROVE  ReportStep
<1>1. CASE ReportBegun
  <2>1. PICK f \in ErrorFrame :
          /\ f.kind = "report"
          /\ \/ Pushed(f)
             \/ \E c \in WalkFrame :
                   /\ PushedOn(c, f) /\ Top.kind = "dispatch" /\ c.kind = "dispatch"
                   /\ c.event = Top.event /\ c.current = Top.current
                   /\ InCallback(c) /\ InCallback(Top)
    BY <1>1 DEF ReportBegun
  <2>2. CASE Pushed(f)
    BY <1>1, <2>1, <2>2 DEF Pushed, ReportBegun, ReportStep
  <2>3. CASE ~Pushed(f)
    <3>1. PICK c \in WalkFrame :
             /\ PushedOn(c, f) /\ Top.kind = "dispatch" /\ c.kind = "dispatch"
             /\ c.event = Top.event /\ c.current = Top.current
             /\ InCallback(c) /\ InCallback(Top)
      BY <2>1, <2>3
    <3>2. stack # <<>> /\ Top = stack[Len(stack)]
      <4>1. stack # <<>>
        BY <3>1, EmptySeq DEF PushedOn
      <4> QED
        BY <4>1, TopOfStack DEF Typed
    <3> QED
      BY <1>1, <2>1, <3>1, <3>2 DEF PushedOn, ReportBegun, ReportStep
  <2> QED
    BY <2>2, <2>3
<1>2. CASE \E f : ReportLeft(f)
  <2>1. PICK f : ReportLeft(f)
    BY <1>2
  <2>2. stack # <<>>
    BY <2>1, EmptySeq DEF ReportLeft, Replaced
  <2> QED
    BY <2>1, <2>2, TopOfStack DEF Replaced, ReportLeft, ReportStep, Typed
<1>3. CASE ReportEnded
  <2>1. stack # <<>> \/ ReportBegun
    OBVIOUS
  <2>2. CASE stack # <<>>
    BY <1>3, <2>2, TopOfStack DEF Popped, ReportEnded, ReportStep, Typed
  <2> QED
    BY <1>1, <2>1, <2>2
<1> QED
  BY <1>1, <1>2, <1>3

-----------------------------------------------------------------------------
(* Reports of errors.                                                       *)

Reports == {i \in DOMAIN stack : stack[i].kind = "report"}

\* A dispatch of an error event stands on the report that began it; a report that
\* dispatched, or that was canceled by its event, is the outermost one.
ReportInv ==
    /\ reports = Cardinality(Reports)
    /\ \A i \in DOMAIN stack : stack[i].kind = "dispatch" /\ stack[i].event = ErrorEvent =>
          i - 1 \in Reports /\ stack[i - 1].step = "dispatched"
    /\ \A i, j \in Reports : stack[i].step = "dispatched" => i <= j
    /\ \A i \in Reports : stack[i].step = "reported" /\ ~stack[i].told =>
          event[ErrorEvent].canceled /\ \A j \in Reports : i <= j

\* A step that begins and ends no report and dispatches no error event.
KeepsReports ==
    /\ reports' = reports /\ Reports' = Reports
    /\ \A i \in Reports : stack'[i] = stack[i]
    /\ \A i \in DOMAIN stack' : stack'[i].kind = "dispatch" /\ stack'[i].event = ErrorEvent =>
          i \in DOMAIN stack /\ stack[i].kind = "dispatch" /\ stack[i].event = ErrorEvent
    /\ event[ErrorEvent].canceled => event'[ErrorEvent].canceled

\* A report dispatches its error event.
ErrorDispatch ==
    \E f \in ErrorFrame, g \in WalkFrame :
        /\ BeginStep(g) /\ PushedOn(f, g) /\ g.event = ErrorEvent /\ g.kind = "dispatch"
        /\ f.kind = "report" /\ f.step = "dispatched"
        /\ Top \in ErrorFrame /\ Top.step = "report"
        /\ reports <= 1 /\ UNCHANGED reports

LEMMA FramesAreNumbered ==
    ASSUME stack \in Seq(AnyFrame)
    PROVE  /\ Len(stack) \in Nat /\ DOMAIN stack = 1 .. Len(stack)
           /\ IsFiniteSet(Reports) /\ Cardinality(Reports) \in Nat
<1>1. Len(stack) \in Nat /\ DOMAIN stack = 1 .. Len(stack)
  BY LenProperties
<1>2. IsFiniteSet(DOMAIN stack)
  BY <1>1, FS_Interval
<1>3. IsFiniteSet(Reports)
  BY <1>2, FS_Subset DEF Reports
<1> QED
  BY <1>1, <1>3, FS_CardinalityType

LEMMA AtMostOne ==
    ASSUME NEW S, IsFiniteSet(S), Cardinality(S) <= 1, NEW a \in S, NEW b \in S
    PROVE  a = b
<1>1. Cardinality(S) \in Nat
  BY FS_CardinalityType
<1>2. CASE Cardinality(S) = 0
  BY <1>2, FS_EmptySet
<1>3. CASE Cardinality(S) = 1
  BY <1>3, FS_Singleton
<1> QED
  BY <1>1, <1>2, <1>3

LEMMA KeptReports ==
    ASSUME ReportInv, Typed, KeepsReports
    PROVE  ReportInv'
<1>1. \A i \in DOMAIN stack' : stack'[i].kind = "dispatch" /\ stack'[i].event = ErrorEvent =>
         i - 1 \in Reports' /\ stack'[i - 1].step = "dispatched"
  BY DEF KeepsReports, ReportInv
<1>2. \A i \in Reports' : stack'[i] = stack[i] /\ i \in Reports
  BY DEF KeepsReports
<1>3. \A i, j \in Reports' : stack'[i].step = "dispatched" => i <= j
  BY <1>2 DEF ReportInv
<1>4. \A i \in Reports' : stack'[i].step = "reported" /\ ~stack'[i].told =>
         event'[ErrorEvent].canceled /\ \A j \in Reports' : i <= j
  BY <1>2 DEF KeepsReports, ReportInv
<1>5. reports' = Cardinality(Reports')
  BY DEF KeepsReports, ReportInv
<1> QED
  BY <1>1, <1>3, <1>4, <1>5 DEF ReportInv

LEMMA QuietKeepsReports ==
    ASSUME Typed, QuietStep, UNCHANGED reports
    PROVE  KeepsReports
<1>1. ErrorEvent \in AllEvents
  BY DEF AllEvents
<1> QED
  BY <1>1 DEF QuietStep, SameFlags, KeepsReports, Reports

LEMMA WalkKeepsReports ==
    ASSUME Typed, stack # <<>>, NEW g, WalkStep(g), UNCHANGED reports
    PROVE  KeepsReports
<1> DEFINE n == Len(stack)
<1>1. n \in DOMAIN stack /\ Top = stack[n]
  BY TopOfStack DEF Typed
<1> HIDE DEF n
<1>2. /\ DOMAIN stack' = DOMAIN stack /\ stack'[n] = g /\ stack[n].kind = "dispatch"
      /\ g.kind = "dispatch" /\ g.event = stack[n].event
      /\ \A i \in DOMAIN stack : i # n => stack'[i] = stack[i]
  BY <1>1 DEF WalkStep, Replaced, n
<1>3. \A i \in DOMAIN stack : stack'[i].kind = stack[i].kind
  BY <1>2
<1>4. Reports' = Reports
  BY <1>2, <1>3 DEF Reports
<1>5. event[ErrorEvent].canceled => event'[ErrorEvent].canceled
  <2>1. ErrorEvent \in AllEvents
    BY DEF AllEvents
  <2> QED
    BY <2>1 DEF WalkStep, SameFlags
<1> QED
  BY <1>2, <1>4, <1>5 DEF KeepsReports, Reports

LEMMA BeginKeepsReports ==
    ASSUME EventDispatchAssumption, Typed, NEW e \in Events, NEW g, BeginStep(g), Pushed(g), g.event = e, UNCHANGED reports
    PROVE  KeepsReports
<1> DEFINE n == Len(stack) + 1
<1>1. /\ DOMAIN stack' = DOMAIN stack \cup {n} /\ n \notin DOMAIN stack /\ stack'[n] = g
      /\ \A i \in DOMAIN stack : stack'[i] = stack[i]
  BY DEF Pushed
<1> HIDE DEF n
<1>2. g.kind = "dispatch" /\ g.event # ErrorEvent
  BY DEF BeginStep, WalkFrame, EventDispatchAssumption
<1>3. Reports' = Reports
  BY <1>1, <1>2 DEF Reports
<1>4. event[ErrorEvent].canceled => event'[ErrorEvent].canceled
  BY <1>2 DEF BeginStep, SameFlags, AllEvents
<1> QED
  BY <1>1, <1>2, <1>3, <1>4 DEF KeepsReports, Reports

LEMMA EndKeepsReports ==
    ASSUME Typed, EndStep, UNCHANGED reports
    PROVE  KeepsReports
<1> DEFINE n == Len(stack)
<1>1. n \in DOMAIN stack /\ stack[n].kind = "dispatch"
  BY TopOfStack DEF Typed, EndStep
<1>2. DOMAIN stack' = DOMAIN stack \ {n} /\ \A i \in DOMAIN stack' : stack'[i] = stack[i]
  BY DEF EndStep, Popped
<1> HIDE DEF n
<1>3. Reports' = Reports
  BY <1>1, <1>2 DEF Reports
<1>4. event[ErrorEvent].canceled => event'[ErrorEvent].canceled
  BY DEF EndStep, SameFlags, AllEvents
<1> QED
  BY <1>1, <1>2, <1>3, <1>4 DEF KeepsReports, Reports

\* A new report is the innermost frame.
LEMMA BegunKeepsReports ==
    ASSUME ReportInv, Typed, ReportBegun
    PROVE  ReportInv'
<1> DEFINE n == Len(stack) + 1
<1>1. PICK f \in ErrorFrame :
          /\ f.kind = "report" /\ f.step = "report"
          /\ \/ Pushed(f)
             \/ \E c \in WalkFrame :
                   /\ PushedOn(c, f) /\ Top.kind = "dispatch" /\ c.kind = "dispatch"
                   /\ c.event = Top.event /\ c.current = Top.current
                   /\ InCallback(c) /\ InCallback(Top)
  BY DEF ReportBegun
<1>2. /\ DOMAIN stack' = DOMAIN stack \cup {n} /\ n \notin DOMAIN stack /\ stack'[n] = f
      /\ \A i \in DOMAIN stack :
            /\ stack'[i].kind = stack[i].kind
            /\ stack[i].kind = "dispatch" => stack'[i].event = stack[i].event
            /\ stack[i].kind = "report" => stack'[i] = stack[i]
  <2>1. CASE Pushed(f)
    BY <2>1 DEF Pushed
  <2>2. CASE ~Pushed(f)
    <3>1. PICK c \in WalkFrame :
             /\ PushedOn(c, f) /\ Top.kind = "dispatch" /\ c.kind = "dispatch"
             /\ c.event = Top.event
      BY <1>1, <2>2
    <3>2. Top = stack[Len(stack)]
      <4>1. stack # <<>>
        BY <3>1, EmptySeq DEF PushedOn
      <4> QED
        BY <4>1, TopOfStack DEF Typed
    <3> QED
      BY <3>1, <3>2 DEF PushedOn
  <2> QED
    BY <2>1, <2>2
<1>3. \A i \in Reports : i <= n
  BY FramesAreNumbered DEF Typed, Reports
<1> HIDE DEF n
<1>4. Reports' = Reports \cup {n} /\ n \notin Reports
  BY <1>1, <1>2 DEF Reports
<1>5. reports' = Cardinality(Reports')
  <2>1. IsFiniteSet(Reports)
    BY FramesAreNumbered DEF Typed
  <2>2. Cardinality(Reports \cup {n}) = Cardinality(Reports) + 1
    BY <1>4, <2>1, FS_AddElement
  <2> QED
    BY <1>4, <2>2 DEF ReportBegun, ReportInv
<1>6. \A i \in DOMAIN stack' : stack'[i].kind = "dispatch" /\ stack'[i].event = ErrorEvent =>
         i - 1 \in Reports' /\ stack'[i - 1].step = "dispatched"
  <2> SUFFICES ASSUME NEW i \in DOMAIN stack',
                      stack'[i].kind = "dispatch", stack'[i].event = ErrorEvent
               PROVE  i - 1 \in Reports' /\ stack'[i - 1].step = "dispatched"
    OBVIOUS
  <2>1. i \in DOMAIN stack /\ stack[i].kind = "dispatch" /\ stack[i].event = ErrorEvent
    BY <1>1, <1>2
  <2>2. i - 1 \in Reports /\ stack[i - 1].step = "dispatched"
    BY <2>1 DEF ReportInv
  <2> QED
    BY <1>2, <1>4, <2>2 DEF Reports
<1>7. \A i \in Reports' : i # n => i \in Reports /\ stack'[i] = stack[i]
  BY <1>2, <1>4 DEF Reports
<1>8. \A i, j \in Reports' : stack'[i].step = "dispatched" => i <= j
  BY <1>1, <1>2, <1>3, <1>4, <1>7 DEF ReportInv
<1>9. \A i \in Reports' : stack'[i].step = "reported" /\ ~stack'[i].told =>
         event'[ErrorEvent].canceled /\ \A j \in Reports' : i <= j
  BY <1>1, <1>2, <1>3, <1>4, <1>7 DEF ReportInv, ReportBegun
<1> QED
  BY <1>5, <1>6, <1>8, <1>9 DEF ReportInv

\* One that ends without telling the runtime was canceled and is the outermost.
LEMMA LeftKeepsReports ==
    ASSUME ReportInv, Typed, NEW f, ReportLeft(f)
    PROVE  ReportInv'
<1> DEFINE n == Len(stack)
<1>1. n \in DOMAIN stack /\ Top = stack[n] /\ stack[n].kind = "report"
  <2>1. stack # <<>>
    BY EmptySeq DEF ReportLeft, Replaced
  <2> QED
    BY <2>1, TopOfStack DEF Typed, ReportLeft
<1>2. /\ DOMAIN stack' = DOMAIN stack /\ stack'[n] = f
      /\ \A i \in DOMAIN stack : i # n => stack'[i] = stack[i]
  BY DEF ReportLeft, Replaced
<1>3. \A i \in DOMAIN stack : i \in Nat /\ i <= n
  BY FramesAreNumbered DEF Typed
<1> HIDE DEF n
<1>4. Reports' = Reports
  BY <1>1, <1>2 DEF Reports, ReportLeft
<1>5. \A i \in DOMAIN stack' : stack'[i].kind = "dispatch" /\ stack'[i].event = ErrorEvent =>
         i - 1 \in Reports' /\ stack'[i - 1].step = "dispatched"
  <2> SUFFICES ASSUME NEW i \in DOMAIN stack',
                      stack'[i].kind = "dispatch", stack'[i].event = ErrorEvent
               PROVE  i - 1 \in Reports' /\ stack'[i - 1].step = "dispatched"
    OBVIOUS
  <2>1. i \in DOMAIN stack /\ i # n /\ stack[i] = stack'[i]
    BY <1>2 DEF ReportLeft
  <2>2. i - 1 \in Reports /\ stack[i - 1].step = "dispatched"
    BY <2>1 DEF ReportInv
  <2>3. i - 1 # n
    BY <1>3, <2>1, <1>1
  <2> QED
    BY <1>2, <1>4, <2>2, <2>3 DEF Reports
<1>6. \A i \in Reports : i # n => stack'[i] = stack[i]
  BY <1>2 DEF Reports
<1>7. \A i, j \in Reports' : stack'[i].step = "dispatched" => i <= j
  BY <1>2, <1>4, <1>6 DEF ReportInv, ReportLeft
<1>8. \A i \in Reports' : stack'[i].step = "reported" /\ ~stack'[i].told =>
         event'[ErrorEvent].canceled /\ \A j \in Reports' : i <= j
  BY <1>1, <1>2, <1>4, <1>6 DEF ReportInv, ReportLeft
<1> QED
  BY <1>4, <1>5, <1>7, <1>8 DEF ReportInv, ReportLeft

LEMMA EndedKeepsReports ==
    ASSUME ReportInv, Typed, stack # <<>>, ReportEnded
    PROVE  ReportInv'
<1> DEFINE n == Len(stack)
<1>1. n \in DOMAIN stack /\ stack[n].kind = "report"
  BY TopOfStack DEF Typed, ReportEnded
<1>2. DOMAIN stack' = DOMAIN stack \ {n} /\ \A i \in DOMAIN stack' : stack'[i] = stack[i]
  BY DEF ReportEnded, Popped
<1>3. \A i \in DOMAIN stack : i \in Nat /\ i <= n
  BY FramesAreNumbered DEF Typed
<1> HIDE DEF n
<1>4. Reports' = Reports \ {n} /\ n \in Reports
  BY <1>1, <1>2 DEF Reports
<1>5. reports' = Cardinality(Reports')
  <2>1. IsFiniteSet(Reports) /\ Cardinality(Reports) \in Nat
    BY FramesAreNumbered DEF Typed
  <2>2. Cardinality(Reports \ {n}) = Cardinality(Reports) - 1
    BY <1>4, <2>1, FS_RemoveElement
  <2> QED
    BY <1>4, <2>2 DEF ReportEnded, ReportInv
<1>6. \A i \in DOMAIN stack' : stack'[i].kind = "dispatch" /\ stack'[i].event = ErrorEvent =>
         i - 1 \in Reports' /\ stack'[i - 1].step = "dispatched"
  <2> SUFFICES ASSUME NEW i \in DOMAIN stack',
                      stack'[i].kind = "dispatch", stack'[i].event = ErrorEvent
               PROVE  i - 1 \in Reports' /\ stack'[i - 1].step = "dispatched"
    OBVIOUS
  <2>1. i \in DOMAIN stack /\ i # n /\ stack[i] = stack'[i]
    BY <1>2
  <2>2. i - 1 \in Reports /\ stack[i - 1].step = "dispatched"
    BY <2>1 DEF ReportInv
  <2>3. i - 1 # n
    BY <1>3, <2>1, <1>1
  <2> QED
    BY <1>2, <1>4, <2>2, <2>3 DEF Reports
<1>7. \A i \in Reports' : i \in Reports /\ stack'[i] = stack[i]
  BY <1>2, <1>4 DEF Reports
<1>8. \A i, j \in Reports' : stack'[i].step = "dispatched" => i <= j
  BY <1>7 DEF ReportInv
<1>9. \A i \in Reports' : stack'[i].step = "reported" /\ ~stack'[i].told =>
         event'[ErrorEvent].canceled /\ \A j \in Reports' : i <= j
  BY <1>7 DEF ReportInv, ReportEnded
<1> QED
  BY <1>5, <1>6, <1>8, <1>9 DEF ReportInv

\* A report that dispatches is the only one, so no error event is in flight.
LEMMA ErrorDispatchIsAlone ==
    ASSUME ReportInv, Typed, ErrorDispatch
    PROVE  ReportInv' /\ ~Flies(ErrorEvent)
<1> DEFINE n == Len(stack)
<1>1. PICK f \in ErrorFrame, g \in WalkFrame :
        /\ BeginStep(g) /\ PushedOn(f, g) /\ g.event = ErrorEvent /\ g.kind = "dispatch"
        /\ f.kind = "report" /\ f.step = "dispatched"
        /\ Top \in ErrorFrame /\ Top.step = "report"
        /\ reports <= 1 /\ UNCHANGED reports
  BY DEF ErrorDispatch
<1>2. stack # <<>> /\ n \in DOMAIN stack /\ Top = stack[n] /\ n \in Reports /\ n \in Nat
  <2>1. stack # <<>>
    BY <1>1, EmptySeq DEF PushedOn
  <2> QED
    BY <1>1, <2>1, TopOfStack, TopKind DEF Typed, Reports
<1>3. /\ DOMAIN stack' = DOMAIN stack \cup {n + 1} /\ n + 1 \notin DOMAIN stack
      /\ stack'[n] = f /\ stack'[n + 1] = g
      /\ \A i \in DOMAIN stack : i # n => stack'[i] = stack[i]
  BY <1>1 DEF PushedOn
<1> HIDE DEF n
<1>4. \A i \in Reports : i = n
  <2>1. IsFiniteSet(Reports) /\ Cardinality(Reports) <= 1
    BY <1>1, FramesAreNumbered DEF Typed, ReportInv
  <2> QED
    BY <1>2, <2>1, AtMostOne
<1>5. ~Flies(ErrorEvent)
  BY <1>1, <1>2, <1>4 DEF ReportInv, Flies
<1>6. Reports' = Reports
  BY <1>1, <1>2, <1>3 DEF Reports
<1>7. \A i \in DOMAIN stack' : stack'[i].kind = "dispatch" /\ stack'[i].event = ErrorEvent =>
         i - 1 \in Reports' /\ stack'[i - 1].step = "dispatched"
  <2> SUFFICES ASSUME NEW i \in DOMAIN stack',
                      stack'[i].kind = "dispatch", stack'[i].event = ErrorEvent
               PROVE  i - 1 \in Reports' /\ stack'[i - 1].step = "dispatched"
    OBVIOUS
  <2>1. i \notin DOMAIN stack
    BY <1>1, <1>2, <1>3, <1>5 DEF Flies
  <2>2. i - 1 = n
    BY <1>2, <1>3, <2>1
  <2> QED
    BY <1>1, <1>2, <1>3, <1>6, <2>2
<1>8. \A i \in Reports' : i = n /\ stack'[i].step = "dispatched"
  BY <1>1, <1>3, <1>4, <1>6
<1> QED
  BY <1>1, <1>2, <1>5, <1>6, <1>7, <1>8 DEF ReportInv

-----------------------------------------------------------------------------
(* The whole stack.                                                         *)

StackInv == ListsInv /\ Typed /\ FlightInv /\ ReportInv

\* How a walk goes on.
Walks(g) == Enters(g) \/ Leaves(g) \/ Skips(g) \/ Calls(g) \/ Returns(g) \/ Continues(g)

\* What a step is, for the stack and the events.
StepKinds ==
    \/ QuietStep /\ UNCHANGED reports
    \/ \E g \in WalkFrame : stack # <<>> /\ WalkStep(g) /\ Walks(g) /\ UNCHANGED reports
    \/ \E e \in Events, g \in WalkFrame :
          BeginStep(g) /\ Pushed(g) /\ g.event = e /\ ~Flies(e) /\ UNCHANGED reports
    \/ EndStep /\ UNCHANGED reports
    \/ ReportBegun
    \/ stack # <<>> /\ ((\E f : ReportLeft(f)) \/ ReportEnded)
    \/ ErrorDispatch

LEMMA StepHasAKind ==
    ASSUME EventDispatchAssumption, PathsAreWays, StackInv, [Next]_vars
    PROVE  StepKinds
<1> USE DEF StackInv
<1>1. CASE UNCHANGED vars
  <2>1. UNCHANGED <<stack, event, reports>>
    BY <1>1 DEF vars
  <2> QED
    BY <2>1, QuietActions DEF StepKinds
<1>2. ASSUME NEW s \in Slots, NEW callback \in Callbacks,
             \/ \E o \in Options : AddEventListener(s, callback, o)
             \/ \E capture \in BOOLEAN : RemoveEventListener(s, callback, capture)
      PROVE  StepKinds
  <2>1. UNCHANGED <<stack, event, reports>>
    BY <1>2 DEF AddEventListener, RemoveEventListener
  <2> QED
    BY <2>1, QuietActions DEF StepKinds
<1>3. ASSUME NEW e \in Events, NEW t \in Targets, DispatchEvent(t, e)
      PROVE  StepKinds
  <2>1. UNCHANGED reports
    BY <1>3 DEF DispatchEvent
  <2>2. CASE <<t, "plain">> \in created
    <3>1. \E g \in WalkFrame : BeginStep(g) /\ Pushed(g) /\ g.event = e /\ ~Flies(e)
      BY <1>3, <2>2, DispatchEventBegins
    <3> QED
      BY <2>1, <3>1 DEF StepKinds
  <2>3. CASE <<t, "plain">> \notin created
    BY <1>3, <2>1, <2>3, QuietActions DEF StepKinds
  <2> QED
    BY <2>2, <2>3
<1>4. ASSUME NEW e \in Events, StopPropagation(e) \/ StopImmediatePropagation(e)
      PROVE  StepKinds
  <2>1. UNCHANGED reports
    BY <1>4 DEF StopPropagation, StopImmediatePropagation
  <2> QED
    BY <1>4, <2>1, QuietActions DEF StepKinds
<1>5. ASSUME NEW e \in Canceling, PreventDefault(e) \/ SetReturnValue(e)
      PROVE  StepKinds
  <2>1. UNCHANGED reports
    BY <1>5 DEF PreventDefault, SetReturnValue
  <2> QED
    BY <1>5, <2>1, QuietActions DEF StepKinds
<1>6. ASSUME NEW s \in OnSlots, NEW h \in Handlers \cup {None}, SetHandler(s, h)
      PROVE  StepKinds
  <2>1. UNCHANGED <<stack, event, reports>>
    BY <1>6 DEF SetHandler
  <2> QED
    BY <2>1, QuietActions DEF StepKinds
<1>7. CASE ReportError \/ Throw
  BY <1>7, ReportErrorBegins, ThrowBegins DEF StepKinds
<1>8. CASE Tuple \/ SkipHandler \/ CallHandler \/ EndWalk \/ Return \/ ReturnTrue \/ AfterCall
  <2>1. stack # <<>> /\ UNCHANGED reports
    <3>1. CASE stack # <<>>
      BY <1>8, <3>1 DEF Tuple, SkipHandler, CallHandler, Call, EndWalk, Return, ReturnTrue, AfterCall
    <3>2. CASE stack = <<>>
      BY <1>8, <3>2 DEF Tuple, SkipHandler, CallHandler, MayCall, EndWalk, Return, ReturnTrue,
                        AfterCall, Dispatching
    <3> QED
      BY <3>1, <3>2
  <2>2. \E g \in WalkFrame : WalkStep(g) /\ Walks(g)
    BY <1>8, TupleWalks, SkipWalks, CallWalks, EndWalkWalks, ReturnWalks, AfterCallWalks DEF Walks
  <2> QED
    BY <2>1, <2>2 DEF StepKinds
<1>9. CASE EndDispatch
  <2>1. UNCHANGED reports
    BY <1>9 DEF EndDispatch
  <2> QED
    BY <1>9, <2>1, EndDispatchEnds DEF StepKinds
<1>10. CASE Report
  <2>1. CASE Recursive \/ <<Global, "error">> \notin created
    BY <1>10, <2>1, ReportLeaves DEF StepKinds, Report
  <2>2. CASE ~Recursive /\ <<Global, "error">> \in created
    <3>1. UNCHANGED reports /\ reports <= 1
      <4>1. reports \in Nat
        BY FramesAreNumbered DEF ReportInv, Typed
      <4> QED
        BY <1>10, <2>2, <4>1 DEF Report, Recursive
    <3> QED
      BY <1>10, <2>2, <3>1, ReportBegins DEF StepKinds, ErrorDispatch
  <2> QED
    BY <2>1, <2>2
<1>11. CASE Dispatched \/ Reported
  <2>1. stack # <<>>
    BY <1>11 DEF Dispatched, Reported
  <2> QED
    BY <1>11, <2>1, ReportLeaves, ReportedEnds DEF StepKinds
<1> QED
  BY <1>1, <1>2, <1>3, <1>4, <1>5, <1>6, <1>7, <1>8, <1>9, <1>10, <1>11 DEF Next

LEMMA StepKeepsTypes ==
    ASSUME Typed, StepKinds
    PROVE  Typed'
<1>1. ASSUME NEW e \in Events, NEW g, BeginStep(g)
      PROVE  Typed'
  BY <1>1 DEF BeginStep, Typed
<1>2. ASSUME NEW g, WalkStep(g)
      PROVE  Typed'
  BY <1>2 DEF WalkStep, Replaced, Typed
<1>3. CASE QuietStep
  BY <1>3 DEF QuietStep, Typed
<1>4. CASE EndStep
  BY <1>4 DEF EndStep, Popped, Typed
<1>5. CASE ReportStep
  BY <1>5 DEF ReportStep, Typed, EventTypes
<1>6. CASE ErrorDispatch
  BY <1>6 DEF ErrorDispatch, BeginStep, Typed
<1> QED
  BY <1>1, <1>2, <1>3, <1>4, <1>5, <1>6, ReportsAreReportSteps DEF StepKinds

LEMMA StepKeepsStack ==
    ASSUME EventDispatchAssumption, StackInv, StepKinds
    PROVE  FlightInv' /\ ReportInv'
<1> USE DEF StackInv
<1>1. CASE QuietStep /\ UNCHANGED reports
  BY <1>1, QuietKeepsFlight, QuietKeepsReports, KeptReports
<1>2. ASSUME NEW g \in WalkFrame, stack # <<>>, WalkStep(g), UNCHANGED reports
      PROVE  FlightInv' /\ ReportInv'
  BY <1>2, WalkKeepsFlight, WalkKeepsReports, KeptReports
<1>3. ASSUME NEW e \in Events, NEW g \in WalkFrame,
             BeginStep(g), Pushed(g), g.event = e, ~Flies(e), UNCHANGED reports
      PROVE  FlightInv' /\ ReportInv'
  <2>1. ~Flies(g.event)
    BY <1>3
  <2>2. FlightInv'
    BY <1>3, <2>1, BeginKeepsFlight
  <2>3. KeepsReports
    BY <1>3, BeginKeepsReports
  <2> QED
    BY <2>2, <2>3, KeptReports
<1>4. CASE EndStep /\ UNCHANGED reports
  BY <1>4, EndKeepsFlight, EndKeepsReports, KeptReports
<1>5. CASE ReportBegun
  BY <1>5, BegunKeepsReports, ReportsAreReportSteps, ReportKeepsFlight
<1>6. CASE stack # <<>> /\ ((\E f : ReportLeft(f)) \/ ReportEnded)
  BY <1>6, LeftKeepsReports, EndedKeepsReports, ReportsAreReportSteps, ReportKeepsFlight
<1>7. CASE ErrorDispatch
  <2>1. ReportInv' /\ ~Flies(ErrorEvent)
    BY <1>7, ErrorDispatchIsAlone
  <2>2. PICK g \in WalkFrame : BeginStep(g) /\ g.event = ErrorEvent
    BY <1>7 DEF ErrorDispatch
  <2>3. ~Flies(g.event)
    BY <2>1, <2>2
  <2> QED
    BY <2>1, <2>2, <2>3, BeginKeepsFlight
<1> QED
  BY <1>1, <1>2, <1>3, <1>4, <1>5, <1>6, <1>7 DEF StepKinds

LEMMA InitStack ==
    ASSUME EventDispatchAssumption, Init
    PROVE  StackInv
<1>1. stack = <<>> /\ DOMAIN stack = {} /\ stack \in Seq(AnyFrame) /\ Reports = {}
  BY DEF Init, Reports
<1>2. Typed
  BY <1>1 DEF Typed, EventTypes, Init, AllEvents
<1>3. FlightInv
  BY <1>1 DEF FlightInv, Flies, Init, Idle, AllEvents
<1>4. ReportInv
  BY <1>1, FS_EmptySet DEF ReportInv, Init
<1> QED
  BY <1>2, <1>3, <1>4, InitLists DEF StackInv

LEMMA StepKeepsAll ==
    ASSUME EventDispatchAssumption, PathsAreWays, StackInv, Wrapped, [Next]_vars
    PROVE  StackInv' /\ Wrapped'
  BY StepHasAKind, StepKeepsTypes, StepKeepsStack, StepKeepsLists DEF StackInv

LEMMA OneDispatch ==
    ASSUME Typed, FlightInv, NEW e
    PROVE  Cardinality(Dispatches(e)) <= 1
<1>1. \A i, j \in Dispatches(e) : i = j
  BY DEF Dispatches, FlightInv
<1>2. CASE Dispatches(e) = {}
  BY <1>2, FS_EmptySet
<1>3. ASSUME NEW i \in Dispatches(e)
      PROVE  Cardinality(Dispatches(e)) <= 1
  <2>1. Dispatches(e) = {i}
    BY <1>1
  <2>2. Cardinality({i}) = 1
    BY FS_Singleton
  <2>3. Cardinality(Dispatches(e)) = 1
    BY <2>1, <2>2, Zenon
  <2> QED
    BY <2>3
<1> QED
  BY <1>2, <1>3

\* An event is in one dispatch at a time and leaves it as it came, whatever its
\* listeners dispatch, throw or stop.
THEOREM EventsAreReset == EventDispatchAssumption /\ TreeAssumption /\ Spec => []InFlight
<1> SUFFICES ASSUME EventDispatchAssumption, TreeAssumption PROVE Spec => []InFlight
  OBVIOUS
<1> USE PathsClimb
<1>1. Init => StackInv /\ Wrapped
  BY InitStack, InitLists
<1>2. StackInv /\ Wrapped /\ [Next]_vars => (StackInv /\ Wrapped)'
  BY StepKeepsAll
<1>3. StackInv => InFlight
  <2> SUFFICES ASSUME StackInv, NEW e \in DOMAIN event
               PROVE  /\ Cardinality(Dispatches(e)) <= 1
                      /\ event[e].dispatched <=> Dispatches(e) # {}
                      /\ Dispatches(e) = {} =>
                            event[e].eventPhase = "none" /\ event[e].currentTarget = None
                      /\ event[e].inPassive <=>
                            \E i \in Dispatches(e) :
                               stack[i].step \in {"calling", "returned"} /\ stack[i].current.passive
    BY DEF InFlight
  <2>1. e \in AllEvents /\ Cardinality(Dispatches(e)) <= 1
    BY OneDispatch DEF StackInv, Typed, EventTypes
  <2>2. Flies(e) <=> Dispatches(e) # {}
    BY DEF Flies, Dispatches
  <2>3. CASE ~Flies(e)
    BY <2>1, <2>2, <2>3 DEF StackInv, FlightInv
  <2>4. CASE Flies(e)
    <3>1. PICK i \in Dispatches(e) : TRUE
      BY <2>2, <2>4
    <3>2. Dispatches(e) = {i} /\ stack[i].kind = "dispatch" /\ stack[i].event = e
      BY <3>1 DEF Dispatches, StackInv, FlightInv
    <3>3. event[e].inPassive <=> InCallback(stack[i]) /\ stack[i].current.passive
      BY <3>1, <3>2 DEF StackInv, FlightInv, Dispatches
    <3> QED
      BY <2>1, <2>2, <2>4, <3>2, <3>3 DEF StackInv, FlightInv, InCallback
  <2> QED
    BY <2>3, <2>4
<1> QED
  BY <1>1, <1>2, <1>3, PTL DEF Spec

\* An error of a listener is told to the runtime unless an error event, dispatched
\* for it alone, was canceled; reports of errors do not recurse.
THEOREM NoErrorIsLost == EventDispatchAssumption /\ TreeAssumption /\ Spec => []ErrorsAreReported
<1> SUFFICES ASSUME EventDispatchAssumption, TreeAssumption PROVE Spec => []ErrorsAreReported
  OBVIOUS
<1> USE PathsClimb
<1>1. Init => StackInv /\ Wrapped
  BY InitStack, InitLists
<1>2. StackInv /\ Wrapped /\ [Next]_vars => (StackInv /\ Wrapped)'
  BY StepKeepsAll
<1>3. StackInv => ErrorsAreReported
  <2> SUFFICES ASSUME StackInv PROVE ErrorsAreReported
    OBVIOUS
  <2>1. reports = Cardinality({i \in DOMAIN stack : stack[i].kind = "report"})
    BY DEF StackInv, ReportInv, Reports
  <2>2. Cardinality(Dispatches(ErrorEvent)) <= 1
    BY OneDispatch DEF StackInv
  <2>3. ASSUME NEW i \in DOMAIN stack, stack[i].step = "reported", ~stack[i].told
        PROVE  event[ErrorEvent].canceled /\ \A j \in 1 .. i - 1 : stack[j].kind # "report"
    <3>1. stack[i].kind = "report" /\ DOMAIN stack = 1 .. Len(stack) /\ Len(stack) \in Nat
      BY <2>3, FrameKinds, FramesAreNumbered DEF StackInv, Typed, WalkFrame
    <3>2. event[ErrorEvent].canceled /\ \A j \in Reports : i <= j
      BY <2>3, <3>1 DEF StackInv, ReportInv, Reports
    <3>3. ASSUME NEW j \in 1 .. i - 1, stack[j].kind = "report"
          PROVE  FALSE
      BY <3>1, <3>2, <3>3 DEF Reports
    <3> QED
      BY <3>2, <3>3
  <2> QED
    BY <2>1, <2>2, <2>3 DEF ErrorsAreReported
<1> QED
  BY <1>1, <1>2, <1>3, PTL DEF Spec

-----------------------------------------------------------------------------
(* The walk of a list.                                                      *)

\* Places of the copied list that the walk f is past.
Done(f) == {i \in DOMAIN f.start : i < f.i \/ (i = f.i /\ InCallback(f))}

\* The phase is not one for the listener h.
WrongPhase(f, h) ==
    \/ PhaseOf(f) = "capturing" /\ ~h.capture
    \/ PhaseOf(f) = "bubbling" /\ h.capture

\* The walk of a list is at a tuple that is invoked.
PlaceInv(f) == f.step # "tuple" => f.k \in DOMAIN Path[f.target] /\ Invoked(f)

\* The event of a walk says where it is.
PhaseInv(f) ==
    f.step # "tuple" =>
        event[f.event].eventPhase = PhaseOf(f) /\ event[f.event].currentTarget = Item(f)

\* The copied list has different registrations; each is in its list as it was, or was
\* removed, and none is in another list.
StartInv(f) ==
    f.step # "tuple" =>
        /\ \A i, j \in DOMAIN f.start : f.start[i].id = f.start[j].id => i = j
        /\ \A i \in DOMAIN f.start :
              /\ f.start[i].id \in 1 .. count
              /\ \/ f.start[i].id \in removed
                 \/ /\ SlotOf(f) \in Slots
                    /\ \E p \in DOMAIN listeners[SlotOf(f)] :
                          listeners[SlotOf(f)][p] = f.start[i]
              /\ \A s \in Slots : \A p \in DOMAIN listeners[s] :
                    listeners[s][p].id = f.start[i].id =>
                        s = SlotOf(f) /\ listeners[s][p] = f.start[i]

\* No listener was missed.
MissInv(f) ==
    f.step # "tuple" =>
        \A i \in Done(f) :
            \/ f.start[i].id \in f.called \cup removed
            \/ event[f.event].stopImmediate
            \/ WrongPhase(f, f.start[i])

\* The slot s and the listeners of it with the given capture were visited before the
\* tuple that f is at: capturing ones on the way down, the others on the way up, all
\* at a target.
Visited(f, s, capture) ==
    \E k \in DOMAIN Path[f.target] :
        /\ s[1] = Path[f.target][k].item
        /\ \/ capture /\ Path[f.target][k].target = None /\ (f.pass = "bubble" \/ k > f.k)
           \/ f.pass = "bubble" /\ k < f.k /\ (Path[f.target][k].target # None \/ ~capture)

\* The registration id, if it is still in a list, was visited before.
Past(f, id) ==
    \A s \in Slots : \A p \in DOMAIN listeners[s] :
        listeners[s][p].id = id => Visited(f, s, listeners[s][p].capture)

\* Registrations that were called belong to a visited slot, or to the part of the
\* copied list that the walk is past.
CalledInv(f) ==
    /\ f.k >= 1 /\ f.called \subseteq 1 .. count
    /\ \A id \in f.called :
          \/ Past(f, id)
          \/ f.step # "tuple" /\ \E i \in Done(f) :
                f.start[i].id = id /\ ~WrongPhase(f, f.start[i])

Walk(f) == PlaceInv(f) /\ StartInv(f) /\ MissInv(f) /\ CalledInv(f)
WalkInv == \A n \in DOMAIN stack : \A f \in WalkFrame : f = stack[n] => Walk(f) /\ PhaseInv(f)

\* What other steps do to the lists leaves a walk as it is.
LEMMA WalkIsStable ==
    ASSUME NEW f \in WalkFrame, Walk(f), ListsInv, ListStep,
           event[f.event].stopImmediate => event'[f.event].stopImmediate
    PROVE  /\ PlaceInv(f)' /\ StartInv(f)' /\ MissInv(f)' /\ CalledInv(f)'
<1>1. count \in Nat /\ count' \in Nat /\ count <= count' /\ removed \subseteq removed'
  BY DEF ListsInv, ListStep
<1>2. 1 .. count \subseteq 1 .. count'
  BY <1>1
<1>3. ASSUME NEW s \in Slots, NEW p \in DOMAIN listeners'[s], listeners'[s][p].id \in 1 .. count
      PROVE  \E i \in DOMAIN listeners[s] : listeners'[s][p] = listeners[s][i]
  BY <1>3 DEF ListStep
<1>4. PlaceInv(f)'
  BY DEF Walk, PlaceInv, Invoked, AtTarget
<1>5. StartInv(f)'
  <2> SUFFICES ASSUME f.step # "tuple" PROVE StartInv(f)'
    BY DEF StartInv
  <2>1. ASSUME NEW i \in DOMAIN f.start
        PROVE  \/ f.start[i].id \in removed'
               \/ /\ SlotOf(f) \in Slots
                  /\ \E p \in DOMAIN listeners'[SlotOf(f)] : listeners'[SlotOf(f)][p] = f.start[i]
    <3>1. CASE f.start[i].id \in removed
      BY <1>1, <3>1
    <3>2. CASE f.start[i].id \notin removed
      <4>1. SlotOf(f) \in Slots
        BY <3>2, <2>1 DEF Walk, StartInv
      <4>2. PICK p \in DOMAIN listeners[SlotOf(f)] : listeners[SlotOf(f)][p] = f.start[i]
        BY <3>2, <2>1 DEF Walk, StartInv
      <4>3. \/ listeners[SlotOf(f)][p].id \in removed'
            \/ \E j \in DOMAIN listeners'[SlotOf(f)] :
                  listeners'[SlotOf(f)][j] = listeners[SlotOf(f)][p]
        BY <4>1, <4>2 DEF ListStep
      <4> QED
        BY <4>1, <4>2, <4>3
    <3> QED
      BY <3>1, <3>2
  <2>2. ASSUME NEW i \in DOMAIN f.start, NEW s \in Slots, NEW p \in DOMAIN listeners'[s],
               listeners'[s][p].id = f.start[i].id
        PROVE  s = SlotOf(f) /\ listeners'[s][p] = f.start[i]
    <3>1. f.start[i].id \in 1 .. count
      BY DEF Walk, StartInv
    <3>2. PICK q \in DOMAIN listeners[s] : listeners'[s][p] = listeners[s][q]
      BY <1>3, <2>2, <3>1
    <3> QED
      BY <2>2, <3>2 DEF Walk, StartInv
  <2>3. /\ \A i, j \in DOMAIN f.start : f.start[i].id = f.start[j].id => i = j
        /\ \A i \in DOMAIN f.start : f.start[i].id \in 1 .. count'
    BY <1>2 DEF Walk, StartInv
  <2> QED
    BY <2>1, <2>2, <2>3 DEF StartInv, SlotOf, Item
<1>6. MissInv(f)'
  BY <1>1 DEF Walk, MissInv, Done, InCallback, WrongPhase, PhaseOf, AtTarget
<1>7. ASSUME NEW id \in f.called, Past(f, id)
      PROVE  Past(f, id)'
  <2> SUFFICES ASSUME NEW s \in Slots, NEW p \in DOMAIN listeners'[s], listeners'[s][p].id = id
               PROVE  Visited(f, s, listeners'[s][p].capture)
    BY DEF Past, Visited
  <2>1. id \in 1 .. count
    BY DEF Walk, CalledInv
  <2>2. PICK q \in DOMAIN listeners[s] : listeners'[s][p] = listeners[s][q]
    BY <1>3, <2>1
  <2> QED
    BY <1>7, <2>2 DEF Past
<1>8. CalledInv(f)'
  <2>1. f.k >= 1 /\ f.called \subseteq 1 .. count'
    BY <1>2 DEF Walk, CalledInv
  <2>2. ASSUME NEW id \in f.called
        PROVE  \/ Past(f, id)'
               \/ f.step # "tuple" /\ \E i \in Done(f) :
                     f.start[i].id = id /\ ~WrongPhase(f, f.start[i])
    BY <1>7 DEF Walk, CalledInv
  <2> QED
    BY <2>1, <2>2 DEF CalledInv, Done, InCallback, WrongPhase, PhaseOf, AtTarget
<1> QED
  BY <1>4, <1>5, <1>6, <1>8

\* What depends on the place of a walk only.
LEMMA PlaceFacts ==
    ASSUME NEW f, NEW g, SamePlace(f, g)
    PROVE  /\ Invoked(g) <=> Invoked(f)
           /\ PhaseOf(g) = PhaseOf(f) /\ SlotOf(g) = SlotOf(f) /\ Item(g) = Item(f)
           /\ \A h : WrongPhase(g, h) <=> WrongPhase(f, h)
           /\ \A id : Past(g, id) <=> Past(f, id)
  BY DEF SamePlace, Invoked, AtTarget, PhaseOf, SlotOf, Item, WrongPhase, Past, Visited

LEMMA EntersAWalk ==
    ASSUME PathsAreWays, ListsInv, NEW g \in WalkFrame,
           Top \in WalkFrame, Walk(Top), Enters(g)
    PROVE  Walk(g)
<1>1. /\ SamePlace(Top, g) /\ g.start = ListOf(Top) /\ g.called = Top.called /\ g.i = 1
      /\ g.step = "handler" /\ Top.step = "tuple" /\ Invoked(Top)
  BY DEF Enters
<1>2. Done(g) = {}
  <2>1. \A i \in DOMAIN g.start : i \in Nat /\ i >= 1
    BY LenProperties DEF WalkFrame
  <2> QED
    BY <1>1, <2>1 DEF Done, InCallback
<1>3. PlaceInv(g)
  <2>1. /\ Path[Top.target] \in Seq(PathTuple)
        /\ Top.k \in Nat /\ Top.k >= 1 /\ Top.k <= Len(Path[Top.target])
    BY DEF PathsAreWays, WalkFrame, Walk, CalledInv, Enters
  <2>2. Top.k \in DOMAIN Path[Top.target]
    BY <2>1, LenProperties
  <2> QED
    BY <1>1, <2>2, PlaceFacts DEF PlaceInv, SamePlace
<1>4. StartInv(g)
  <2>1. CASE SlotOf(Top) \in Slots
    <3>1. g.start = listeners[SlotOf(Top)] /\ SlotOf(g) = SlotOf(Top)
      BY <1>1, <2>1, PlaceFacts DEF ListOf
    <3>2. \A i, j \in DOMAIN g.start : g.start[i].id = g.start[j].id => i = j
      BY <2>1, <3>1 DEF ListsInv, Numbered
    <3>3. \A i \in DOMAIN g.start : g.start[i].id \in 1 .. count
      BY <2>1, <3>1 DEF ListsInv, Current
    <3>4. \A i \in DOMAIN g.start : \A s \in Slots : \A p \in DOMAIN listeners[s] :
             listeners[s][p].id = g.start[i].id =>
                s = SlotOf(g) /\ listeners[s][p] = g.start[i]
      BY <2>1, <3>1 DEF ListsInv, Numbered
    <3> QED
      BY <2>1, <3>1, <3>2, <3>3, <3>4 DEF StartInv
  <2>2. CASE SlotOf(Top) \notin Slots
    <3>1. g.start = <<>> /\ DOMAIN g.start = {}
      BY <1>1, <2>2 DEF ListOf
    <3> QED
      BY <3>1 DEF StartInv
  <2> QED
    BY <2>1, <2>2
<1>5. MissInv(g)
  BY <1>2 DEF MissInv
<1>6. CalledInv(g)
  BY <1>1, PlaceFacts DEF CalledInv, Walk, SamePlace
<1> QED
  BY <1>3, <1>4, <1>5, <1>6 DEF Walk

\* The tuple that a walk leaves is behind it.
LEMMA LeavesAWalk ==
    ASSUME PathsAreWays, NEW g \in WalkFrame, Top \in WalkFrame, Walk(Top), Leaves(g)
    PROVE  Walk(g)
<1> PICK f \in WalkFrame : f = Top
  OBVIOUS
<1>1. /\ g.step = "tuple" /\ g.called = f.called /\ g.target = f.target
      /\ g.pass = IF f.pass = "bubble" \/ ~(f.k > 1) THEN "bubble" ELSE "capture"
      /\ g.k = IF f.pass = "bubble" THEN f.k + 1 ELSE IF f.k > 1 THEN f.k - 1 ELSE 1
  BY NextTupleIsTyped DEF Leaves
<1>2. f.k \in Nat /\ f.k >= 1 /\ f.pass \in {"capture", "bubble"}
  BY DEF WalkFrame, Walk, CalledInv
<1>3. Path[f.target] = Path[g.target]
  BY <1>1
<1>4. \A k \in DOMAIN Path[f.target] : k \in Nat
  <2>1. /\ Path[f.target] \in Seq(PathTuple)
    BY DEF PathsAreWays, WalkFrame
  <2> QED
    BY <2>1, LenProperties
<1>5. ASSUME NEW s, NEW capture, Visited(f, s, capture)
      PROVE  Visited(g, s, capture)
  <2>1. PICK k \in DOMAIN Path[f.target] :
            /\ s[1] = Path[f.target][k].item
            /\ \/ capture /\ Path[f.target][k].target = None /\ (f.pass = "bubble" \/ k > f.k)
               \/ f.pass = "bubble" /\ k < f.k /\ (Path[f.target][k].target # None \/ ~capture)
    BY <1>5 DEF Visited
  <2>2. f.pass = "bubble" => g.pass = "bubble" /\ (k < f.k => k < g.k)
    BY <1>1, <1>2, <1>4
  <2>3. f.pass # "bubble" /\ k > f.k => g.pass = "bubble" \/ k > g.k
    BY <1>1, <1>2, <1>4
  <2> QED
    BY <1>3, <2>1, <2>2, <2>3 DEF Visited
<1>6. ASSUME NEW id, Past(f, id)
      PROVE  Past(g, id)
  BY <1>5, <1>6 DEF Past
<1>7. ASSUME f.step # "tuple", NEW i \in DOMAIN f.start, ~WrongPhase(f, f.start[i])
      PROVE  Past(g, f.start[i].id)
  <2> SUFFICES ASSUME NEW s \in Slots, NEW p \in DOMAIN listeners[s],
                      listeners[s][p].id = f.start[i].id
               PROVE  Visited(g, s, listeners[s][p].capture)
    BY DEF Past
  <2>1. s = SlotOf(f) /\ listeners[s][p] = f.start[i]
    BY <1>7 DEF Walk, StartInv
  <2>2. f.k \in DOMAIN Path[f.target] /\ Invoked(f)
    BY <1>7 DEF Walk, PlaceInv
  <2>3. s[1] = Path[g.target][f.k].item
    BY <1>3, <2>1 DEF SlotOf, Item
  <2>4. CASE f.pass = "capture"
    <3>1. Path[g.target][f.k].target = None /\ listeners[s][p].capture
      BY <1>3, <1>7, <2>1, <2>2, <2>4 DEF Invoked, AtTarget, WrongPhase, PhaseOf
    <3>2. g.pass = "bubble" \/ f.k > g.k
      BY <1>1, <1>2
    <3> QED
      BY <1>3, <2>2, <2>3, <3>1, <3>2 DEF Visited
  <2>5. CASE f.pass = "bubble"
    <3>1. Path[g.target][f.k].target # None \/ ~listeners[s][p].capture
      BY <1>3, <1>7, <2>1, <2>2, <2>5 DEF AtTarget, WrongPhase, PhaseOf
    <3>2. g.pass = "bubble" /\ f.k < g.k
      BY <1>1, <1>2, <2>5
    <3> QED
      BY <1>3, <2>2, <2>3, <3>1, <3>2 DEF Visited
  <2> QED
    BY <1>2, <2>4, <2>5
<1>8. g.k >= 1
  BY <1>1, <1>2
<1>9. CalledInv(g)
  <2>1. g.called \subseteq 1 .. count
    BY <1>1 DEF Walk, CalledInv
  <2>2. ASSUME NEW id \in g.called
        PROVE  Past(g, id)
    <3>1. CASE Past(f, id)
      BY <1>6, <3>1
    <3>2. CASE ~Past(f, id)
      <4>1. f.step # "tuple" /\ \E i \in Done(f) : f.start[i].id = id /\ ~WrongPhase(f, f.start[i])
        BY <1>1, <3>2 DEF Walk, CalledInv
      <4> QED
        BY <1>7, <4>1 DEF Done
    <3> QED
      BY <3>1, <3>2
  <2> QED
    BY <1>8, <2>1, <2>2 DEF CalledInv
<1> QED
  BY <1>1, <1>9 DEF Walk, PlaceInv, StartInv, MissInv

\* A listener that is not called needs no call.
LEMMA SkipsInAWalk ==
    ASSUME ListsInv, NEW g \in WalkFrame, Top \in WalkFrame, Walk(Top), PhaseInv(Top), Skips(g)
    PROVE  Walk(g)
<1> PICK f \in WalkFrame : f = Top
  OBVIOUS
<1>1. /\ SamePlace(f, g) /\ g.start = f.start /\ g.called = f.called /\ g.i = f.i + 1
      /\ g.step = "handler" /\ f.step = "handler" /\ g.event = f.event
  BY DEF Skips, SamePlace
<1>2. f.i \in Nat /\ \A i \in DOMAIN f.start : i \in Nat
  BY LenProperties DEF WalkFrame
<1>3. Done(g) \subseteq Done(f) \cup {f.i} /\ Done(f) \subseteq Done(g)
  BY <1>1, <1>2 DEF Done, InCallback
<1>4. PlaceInv(g) /\ StartInv(g)
  BY <1>1, PlaceFacts DEF Walk, PlaceInv, StartInv, SamePlace
<1>5. ASSUME f.i \in DOMAIN f.start
      PROVE  \/ f.start[f.i].id \in removed
             \/ event[f.event].stopImmediate
             \/ WrongPhase(f, f.start[f.i])
  <2>1. Skipped(f, f.start[f.i]) /\ event[f.event].eventPhase = PhaseOf(f)
    BY <1>1 DEF Skips, Handler, PhaseInv
  <2>2. CASE ~\E i \in DOMAIN ListOf(f) : ListOf(f)[i] = f.start[f.i]
    <3>1. \/ f.start[f.i].id \in removed
          \/ /\ SlotOf(f) \in Slots
             /\ \E p \in DOMAIN listeners[SlotOf(f)] : listeners[SlotOf(f)][p] = f.start[f.i]
      BY <1>1, <1>5 DEF Walk, StartInv
    <3> QED
      BY <2>2, <3>1 DEF ListOf
  <2> QED
    BY <2>1, <2>2 DEF Skipped, WrongPhase
<1>6. MissInv(g)
  BY <1>1, <1>3, <1>5, PlaceFacts DEF MissInv, Walk, Done
<1>7. CalledInv(g)
  BY <1>1, <1>3, PlaceFacts DEF CalledInv, Walk, SamePlace
<1> QED
  BY <1>4, <1>6, <1>7 DEF Walk

\* The listener that is called was not called before.
LEMMA CallsInAWalk ==
    ASSUME PathsAreWays, ListsInv, NEW g \in WalkFrame,
           Top \in WalkFrame, Walk(Top), PhaseInv(Top), Calls(g)
    PROVE  Walk(g) /\ Handler(Top).id \notin Top.called
<1> PICK f \in WalkFrame : f = Top
  OBVIOUS
<1> DEFINE h == f.start[f.i]
<1>1. /\ SamePlace(f, g) /\ g.start = f.start /\ g.called = f.called \cup {h.id} /\ g.i = f.i
      /\ g.step \in {"calling", "returned"} /\ f.step = "handler" /\ g.event = f.event
      /\ Handler(f) = h
  BY DEF Calls, MayCall, SamePlace, Handler
<1>2. f.i \in DOMAIN f.start /\ \A i \in DOMAIN f.start : i \in Nat
  <2>1. f.i \in Nat \ {0} /\ f.i <= Len(f.start) /\ f.start \in Seq(Listener)
    BY DEF WalkFrame, Calls, MayCall
  <2> QED
    BY <2>1, LenProperties
<1>3. Done(g) = Done(f) \cup {f.i} /\ f.i \notin Done(f)
  BY <1>1, <1>2 DEF Done, InCallback
<1>4. PlaceInv(g) /\ StartInv(g)
  BY <1>1, PlaceFacts DEF Walk, PlaceInv, StartInv, SamePlace
<1>5. ~WrongPhase(f, h)
  <2>1. ~Skipped(f, h) /\ event[f.event].eventPhase = PhaseOf(f)
    BY <1>1 DEF Calls, MayCall, PhaseInv
  <2> QED
    BY <2>1 DEF Skipped, WrongPhase
<1>6. SlotOf(f) \in Slots /\ \E p \in DOMAIN listeners[SlotOf(f)] : listeners[SlotOf(f)][p] = h
  <2>1. \E i \in DOMAIN ListOf(f) : ListOf(f)[i] = h
    BY <1>1 DEF Calls, MayCall, Skipped
  <2> QED
    BY <2>1, CalledIsListed
<1>7. h.id \in 1 .. count
  BY <1>6 DEF ListsInv, Current
<1>8. MissInv(g)
  BY <1>1, <1>2, <1>3, PlaceFacts DEF MissInv, Walk
<1>9. CalledInv(g)
  BY <1>1, <1>2, <1>3, <1>5, <1>7, PlaceFacts DEF CalledInv, Walk, SamePlace
<1>10. ~Visited(f, SlotOf(f), h.capture)
  <2> SUFFICES ASSUME NEW k \in DOMAIN Path[f.target], Path[f.target][k].item = Item(f),
                      \/ /\ h.capture /\ Path[f.target][k].target = None
                         /\ (f.pass = "bubble" \/ k > f.k)
                      \/ /\ f.pass = "bubble" /\ k < f.k
                         /\ (Path[f.target][k].target # None \/ ~h.capture)
               PROVE  FALSE
    BY DEF Visited, SlotOf
  <2>1. f.k \in DOMAIN Path[f.target] /\ Invoked(f) /\ f.target \in Targets /\ f.k \in Nat
    BY <1>1 DEF Walk, PlaceInv, WalkFrame
  <2>2. k = f.k
    BY <2>1 DEF PathsAreWays, Item
  <2>3. h.capture /\ Path[f.target][f.k].target = None /\ f.pass = "bubble"
    BY <2>1, <2>2
  <2> QED
    BY <1>5, <2>3 DEF WrongPhase, PhaseOf, AtTarget
<1>11. h.id \notin f.called
  <2> SUFFICES ASSUME h.id \in f.called PROVE FALSE
    OBVIOUS
  <2>1. CASE Past(f, h.id)
    BY <1>6, <1>10, <2>1 DEF Past
  <2>2. CASE \E i \in Done(f) : f.start[i].id = h.id
    BY <1>1, <1>2, <1>3, <2>2 DEF Walk, StartInv, Done
  <2> QED
    BY <2>1, <2>2 DEF Walk, CalledInv
<1> QED
  BY <1>1, <1>4, <1>8, <1>9, <1>11 DEF Walk

LEMMA ReturnsInAWalk ==
    ASSUME NEW g \in WalkFrame, Top \in WalkFrame, Walk(Top), ComesBack(g) \/ Continues(g)
    PROVE  Walk(g)
<1> PICK f \in WalkFrame : f = Top
  OBVIOUS
<1>1. /\ SamePlace(f, g) /\ g.start = f.start /\ g.called = f.called /\ g.event = f.event
      /\ g.step # "tuple" /\ f.step # "tuple"
  BY DEF ComesBack, Continues, SamePlace
<1>2. Done(g) = Done(f)
  <2>1. f.i \in Nat /\ \A i \in DOMAIN f.start : i \in Nat
    BY LenProperties DEF WalkFrame
  <2> QED
    BY <1>1, <2>1 DEF Done, InCallback, ComesBack, Continues
<1>3. PlaceInv(g) /\ StartInv(g)
  BY <1>1, PlaceFacts DEF Walk, PlaceInv, StartInv, SamePlace
<1>4. MissInv(g)
  BY <1>1, <1>2, PlaceFacts DEF MissInv, Walk
<1>5. CalledInv(g)
  BY <1>1, <1>2, PlaceFacts DEF CalledInv, Walk, SamePlace
<1> QED
  BY <1>3, <1>4, <1>5 DEF Walk

\* Frames that a step leaves on the stack, of events that it leaves alone.
LEMMA FrameIsKept ==
    ASSUME Typed, ListsInv, ListStep, WalkInv,
           NEW n \in DOMAIN stack, NEW f, f = stack[n], f.kind = "dispatch", SameFlags(f.event)
    PROVE  /\ PlaceInv(f)' /\ StartInv(f)' /\ MissInv(f)' /\ CalledInv(f)' /\ PhaseInv(f)'
<1>1. f \in WalkFrame /\ Walk(f) /\ PhaseInv(f)
  BY FrameKinds DEF Typed, WalkInv
<1>2. PhaseInv(f)'
  BY <1>1 DEF PhaseInv, SameFlags, PhaseOf, AtTarget, Item
<1> QED
  BY <1>1, <1>2, WalkIsStable DEF SameFlags

\* The innermost walk after a step of it.
LEMMA TopIsKept ==
    ASSUME PathsAreWays, StackInv, WalkInv, ListStep, stack # <<>>,
           NEW g \in WalkFrame, WalkStep(g), Walks(g)
    PROVE  /\ PlaceInv(g)' /\ StartInv(g)' /\ MissInv(g)' /\ CalledInv(g)' /\ PhaseInv(g)'
<1>1. Top \in WalkFrame /\ Walk(Top) /\ PhaseInv(Top)
  BY TopOfStack, TopKind DEF StackInv, Typed, WalkInv, WalkStep
<1>2. Walk(g)
  BY <1>1, EntersAWalk, LeavesAWalk, SkipsInAWalk, CallsInAWalk, ReturnsInAWalk
  DEF Walks, Returns, StackInv
<1>3. event[g.event].stopImmediate => event'[g.event].stopImmediate
  BY DEF WalkStep
<1>4. g.step # "tuple" => /\ event'[g.event].eventPhase = PhaseOf(g)
                         /\ event'[g.event].currentTarget = Item(g)
  <2>1. g.event = Top.event
    BY DEF WalkStep
  <2>2. CASE Leaves(g)
    BY <1>1, <2>2, NextTupleIsTyped DEF Leaves
  <2>3. CASE Enters(g)
    BY <2>1, <2>3, PlaceFacts DEF Enters
  <2>4. CASE Skips(g) \/ Calls(g) \/ Returns(g) \/ Continues(g)
    <3>1. /\ SamePlace(Top, g) /\ PhaseKept
          /\ Top.step # "tuple"
      BY <2>4 DEF Skips, Calls, Returns, ComesBack, Continues, MayCall
    <3>2. PhaseOf(g) = PhaseOf(Top) /\ Item(g) = Item(Top)
      BY <3>1, PlaceFacts
    <3> QED
      BY <1>1, <2>1, <3>1, <3>2 DEF PhaseInv, PhaseKept
  <2> QED
    BY <2>2, <2>3, <2>4 DEF Walks
<1>5. PhaseInv(g)'
  BY <1>4 DEF PhaseInv, PhaseOf, AtTarget, Item
<1> QED
  BY <1>2, <1>3, <1>5, WalkIsStable DEF StackInv

\* A dispatch that begins.
LEMMA NewFrame ==
    ASSUME ListsInv', NEW g \in WalkFrame, g.step = "tuple", g.k >= 1, g.called = {}
    PROVE  /\ PlaceInv(g)' /\ StartInv(g)' /\ MissInv(g)' /\ CalledInv(g)' /\ PhaseInv(g)'
  BY DEF PlaceInv, StartInv, MissInv, CalledInv, PhaseInv

\* A dispatch whose listener threw.
LEMMA ThrownFrame ==
    ASSUME StackInv, WalkInv, ListStep, stack # <<>>, UNCHANGED event,
           NEW g \in WalkFrame, Top.kind = "dispatch", ComesBack(g)
    PROVE  /\ PlaceInv(g)' /\ StartInv(g)' /\ MissInv(g)' /\ CalledInv(g)' /\ PhaseInv(g)'
<1>1. Top \in WalkFrame /\ Walk(Top) /\ PhaseInv(Top)
  BY TopOfStack, TopKind DEF StackInv, Typed, WalkInv
<1>2. Walk(g)
  BY <1>1, ReturnsInAWalk
<1>3. SamePlace(Top, g) /\ Top.step # "tuple" /\ g.event = Top.event
  BY DEF ComesBack, SamePlace
<1>4. event'[g.event].eventPhase = PhaseOf(g) /\ event'[g.event].currentTarget = Item(g)
  BY <1>1, <1>3, PlaceFacts DEF PhaseInv
<1>5. PhaseInv(g)'
  BY <1>4 DEF PhaseInv, PhaseOf, AtTarget, Item
<1> QED
  BY <1>2, <1>5, WalkIsStable DEF StackInv

LEMMA StepKeepsWalks ==
    ASSUME EventDispatchAssumption, PathsAreWays, StackInv, WalkInv, Wrapped,
           ListsInv', ListStep, StepKinds
    PROVE  WalkInv'
<1> DEFINE Kept(f) == /\ PlaceInv(f)' /\ StartInv(f)' /\ MissInv(f)' /\ CalledInv(f)'
                      /\ PhaseInv(f)'
<1> SUFFICES ASSUME NEW n \in DOMAIN stack', NEW f \in WalkFrame, f = stack'[n]
             PROVE  Kept(f)
  BY DEF WalkInv, Walk
<1> HIDE DEF Kept
<1> f.kind = "dispatch"
  BY DEF WalkFrame
<1>1. ASSUME n \in DOMAIN stack, f = stack[n], SameFlags(f.event)
      PROVE  Kept(f)
  BY <1>1, FrameIsKept DEF Kept, StackInv
<1>2. n \in DOMAIN stack => stack[n] \in AnyFrame /\ (stack[n].kind = "dispatch" => stack[n].event \in AllEvents)
  BY FrameKinds DEF StackInv, Typed
<1>3. CASE QuietStep
  BY <1>1, <1>2, <1>3 DEF QuietStep
<1>4. ASSUME NEW g \in WalkFrame, stack # <<>>, WalkStep(g), Walks(g)
      PROVE  Kept(f)
  <2>1. CASE n = Len(stack)
    BY <1>4, <2>1, TopIsKept DEF Kept, WalkStep, Replaced
  <2>2. CASE n # Len(stack)
    <3>1. n \in DOMAIN stack /\ f = stack[n] /\ Len(stack) \in DOMAIN stack
          /\ Top = stack[Len(stack)] /\ Top.kind = "dispatch"
      BY <1>4, <2>2, TopOfStack DEF WalkStep, Replaced, StackInv, Typed
    <3>2. f.event \in AllEvents \ {Top.event}
      BY <1>2, <2>2, <3>1 DEF StackInv, FlightInv
    <3> QED
      BY <1>1, <1>4, <3>1, <3>2 DEF WalkStep
  <2> QED
    BY <2>1, <2>2
<1>5. ASSUME NEW g \in WalkFrame, BeginStep(g), ~Flies(g.event)
      PROVE  Kept(f)
  <2>1. CASE n = Len(stack) + 1
    BY <1>5, <2>1, NewFrame DEF Kept, BeginStep
  <2>2. CASE n # Len(stack) + 1
    <3>1. n \in DOMAIN stack /\ f = stack[n]
      BY <1>5, <2>2 DEF BeginStep
    <3>2. f.event \in AllEvents \ {g.event}
      BY <1>2, <1>5, <3>1 DEF Flies
    <3> QED
      BY <1>1, <1>5, <3>1, <3>2 DEF BeginStep
  <2> QED
    BY <2>1, <2>2
<1>6. CASE EndStep
  <2>1. n \in DOMAIN stack /\ f = stack[n] /\ n # Len(stack) /\ Len(stack) \in DOMAIN stack
        /\ Top = stack[Len(stack)] /\ Top.kind = "dispatch"
    BY <1>6, TopOfStack DEF EndStep, Popped, StackInv, Typed
  <2>2. f.event \in AllEvents \ {Top.event}
    BY <1>2, <2>1 DEF StackInv, FlightInv
  <2> QED
    BY <1>1, <1>6, <2>1, <2>2 DEF EndStep
<1>7. CASE ReportBegun
  <2>1. PICK r \in ErrorFrame :
          /\ r.kind = "report"
          /\ \/ Pushed(r)
             \/ \E c \in WalkFrame :
                   PushedOn(c, r) /\ Top.kind = "dispatch" /\ ComesBack(c)
    BY <1>7 DEF ReportBegun
  <2>2. \A e : SameFlags(e)
    BY <1>7 DEF ReportBegun, SameFlags
  <2>3. CASE Pushed(r)
    BY <1>1, <2>1, <2>2, <2>3 DEF Pushed
  <2>4. CASE ~Pushed(r)
    <3>1. PICK c \in WalkFrame : PushedOn(c, r) /\ Top.kind = "dispatch" /\ ComesBack(c)
      BY <2>1, <2>4
    <3>2. stack # <<>>
      BY <3>1, EmptySeq DEF PushedOn
    <3>3. CASE n = Len(stack)
      BY <1>7, <3>1, <3>2, <3>3, ThrownFrame DEF Kept, PushedOn, ReportBegun
    <3>4. CASE n # Len(stack)
      BY <1>1, <2>1, <2>2, <3>1, <3>4 DEF PushedOn
    <3> QED
      BY <3>3, <3>4
  <2> QED
    BY <2>3, <2>4
<1>8. CASE stack # <<>> /\ ((\E r : ReportLeft(r)) \/ ReportEnded)
  <2>1. \A e : SameFlags(e)
    BY <1>8 DEF ReportLeft, ReportEnded, SameFlags
  <2>2. n \in DOMAIN stack /\ f = stack[n]
    BY <1>8 DEF ReportLeft, ReportEnded, Replaced, Popped
  <2> QED
    BY <1>1, <2>1, <2>2
<1>9. CASE ErrorDispatch
  <2>1. PICK g \in WalkFrame : BeginStep(g) /\ g.event = ErrorEvent
    BY <1>9 DEF ErrorDispatch
  <2>2. ~Flies(g.event)
    BY <1>9, <2>1, ErrorDispatchIsAlone DEF StackInv
  <2> QED
    BY <1>5, <2>1, <2>2
<1> QED
  BY <1>3, <1>4, <1>5, <1>6, <1>7, <1>8, <1>9 DEF StepKinds

WholeInv == StackInv /\ Wrapped /\ WalkInv

LEMMA InitWhole ==
    ASSUME EventDispatchAssumption, Init
    PROVE  WholeInv
<1>1. DOMAIN stack = {}
  BY DEF Init
<1>2. WalkInv
  BY <1>1 DEF WalkInv
<1> QED
  BY <1>2, InitStack, InitLists DEF WholeInv

LEMMA StepKeepsWhole ==
    ASSUME EventDispatchAssumption, PathsAreWays, WholeInv, [Next]_vars
    PROVE  WholeInv'
<1>1. StackInv' /\ Wrapped' /\ StepKinds
  BY StepKeepsAll, StepHasAKind DEF WholeInv
<1>2. ListsInv' /\ ListStep
  BY StepKeepsLists DEF WholeInv, StackInv
<1> QED
  BY <1>1, <1>2, StepKeepsWalks DEF WholeInv

\* Listeners that are added, removed or throw while a list is walked never make the
\* walk miss another one.
THEOREM NoListenerIsMissed ==
    EventDispatchAssumption /\ TreeAssumption /\ Spec => []NoListenerSkipped
<1> SUFFICES ASSUME EventDispatchAssumption, TreeAssumption PROVE Spec => []NoListenerSkipped
  OBVIOUS
<1> USE PathsClimb
<1>1. Init => WholeInv
  BY InitWhole
<1>2. WholeInv /\ [Next]_vars => WholeInv'
  BY StepKeepsWhole
<1>3. WholeInv => NoListenerSkipped
  <2> SUFFICES ASSUME WholeInv, NEW f \in Frames,
                      f.kind = "dispatch", f.step = "handler", f.i > Len(f.start),
                      NEW i \in DOMAIN f.start
               PROVE  \/ f.start[i].id \in f.called \cup removed
                      \/ event[f.event].stopImmediate
                      \/ WrongPhase(f, f.start[i])
    BY DEF NoListenerSkipped, WrongPhase
  <2>1. PICK n \in DOMAIN stack : f = stack[n]
    BY DEF Frames
  <2>2. f \in WalkFrame
    BY <2>1, FrameKinds DEF WholeInv, StackInv, Typed
  <2>3. Walk(f)
    BY <2>1, <2>2 DEF WholeInv, WalkInv
  <2>4. i \in Done(f)
    BY <2>2, LenProperties DEF Done, WalkFrame
  <2> QED
    BY <2>3, <2>4 DEF Walk, MissInv
<1> QED
  BY <1>1, <1>2, <1>3, PTL DEF Spec

\* The step that starts a callback is a step of the innermost walk.
LEMMA CallStepCalls ==
    ASSUME PathsAreWays, WholeInv, StepKinds, CallStep
    PROVE  \E g \in WalkFrame : Calls(g) /\ Called = g.current /\ Top \in WalkFrame
<1>1. stack # <<>> /\ Len(stack') = Len(stack) /\ Top.step = "handler"
      /\ Last(stack').step = "calling" /\ Len(stack) \in Nat /\ Top \in WalkFrame
  BY TopOfStack, TopKind DEF CallStep, WholeInv, StackInv, Typed
<1>2. ASSUME NEW g \in WalkFrame, WalkStep(g), Walks(g)
      PROVE  Calls(g) /\ Called = g.current
  <2>1. Last(stack') = g
    BY <1>1, <1>2 DEF WalkStep, Replaced, Last
  <2>2. g.step = "calling"
    BY <1>1, <2>1
  <2>3. ~Leaves(g)
    BY <1>1, <2>2, NextTupleIsTyped DEF Leaves
  <2> QED
    BY <1>1, <1>2, <2>1, <2>2, <2>3 DEF Walks, Enters, Skips, Returns, ComesBack, Continues, Called
<1>3. ~QuietStep
  BY <1>1, TopOfStack DEF QuietStep, Last, Top
<1>4. ~\E g : Pushed(g)
  BY <1>1 DEF Pushed
<1>5. ~\E f, g : PushedOn(f, g)
  BY <1>1 DEF PushedOn
<1>6. ~Popped
  BY <1>1 DEF Popped
<1>7. Top.kind = "dispatch"
  BY <1>1 DEF WalkFrame
<1> QED
  BY <1>1, <1>2, <1>3, <1>4, <1>5, <1>6, <1>7
  DEF StepKinds, EndStep, ReportBegun, ReportLeft, ReportEnded, ErrorDispatch

\* A listener is called at most once by a dispatch, and only while it is registered;
\* a once listener is called once.
THEOREM OnlyDueCalls == EventDispatchAssumption /\ TreeAssumption /\ Spec => CallsAreDue
<1> SUFFICES ASSUME EventDispatchAssumption, TreeAssumption PROVE Spec => CallsAreDue
  OBVIOUS
<1> USE PathsClimb
<1>1. Init => WholeInv
  BY InitWhole
<1>2. WholeInv /\ [Next]_vars => WholeInv'
  BY StepKeepsWhole
<1>3. WholeInv /\ [Next]_vars => [CallIsDue]_vars
  <2> SUFFICES ASSUME WholeInv, [Next]_vars, CallStep
               PROVE  /\ Called.id \notin Top.called /\ Called.id \notin removed
                      /\ Called.once => Called.id \notin fired
    BY DEF CallIsDue
  <2>1. StepKinds
    BY StepHasAKind DEF WholeInv
  <2>2. PICK g \in WalkFrame : Calls(g) /\ Called = g.current /\ Top \in WalkFrame
    BY <2>1, CallStepCalls
  <2>3. stack # <<>> /\ Walk(Top) /\ PhaseInv(Top)
    BY <2>2, TopOfStack DEF CallStep, WholeInv, WalkInv, StackInv, Typed
  <2>4. Called = Handler(Top) /\ Handler(Top).id \notin Top.called
    BY <2>2, <2>3, CallsInAWalk DEF Calls, WholeInv, StackInv
  <2>5. SlotOf(Top) \in Slots
        /\ \E p \in DOMAIN listeners[SlotOf(Top)] : listeners[SlotOf(Top)][p] = Handler(Top)
    <3>1. \E i \in DOMAIN ListOf(Top) : ListOf(Top)[i] = Handler(Top)
      BY <2>2 DEF Calls, MayCall, Skipped
    <3> QED
      BY <3>1, CalledIsListed
  <2>6. Handler(Top).id \notin removed /\ (Handler(Top).once => Handler(Top).id \notin fired)
    BY <2>5 DEF WholeInv, StackInv, ListsInv, Current
  <2> QED
    BY <2>4, <2>6
<1> QED
  BY <1>1, <1>2, <1>3, PTL DEF Spec, CallsAreDue

\* What composedPath gives to a listener are the targets on the path that are not in
\* a closed tree which the current target is not in.
THEOREM ClosedTreesAreHidden ==
    EventDispatchAssumption /\ TreeAssumption /\ Spec => []ComposedPathHidesClosedTrees
<1> SUFFICES ASSUME EventDispatchAssumption, TreeAssumption
             PROVE  Spec => []ComposedPathHidesClosedTrees
  OBVIOUS
<1> USE PathsClimb
<1>1. Init => WholeInv
  BY InitWhole
<1>2. WholeInv /\ [Next]_vars => WholeInv'
  BY StepKeepsWhole
<1>3. WholeInv => ComposedPathHidesClosedTrees
  <2> SUFFICES ASSUME WholeInv, NEW f \in Frames, f.step = "calling"
               PROVE  LET path == Path[f.target]
                          t == event[f.event].currentTarget
                          visible == {u \in Targets : \A r \in Closed :
                              IsShadowInclusiveAncestor(r, u) => IsShadowInclusiveAncestor(r, t)}
                      IN  ComposedPath(path, t) =
                              Select([i \in DOMAIN path |-> path[i].item], visible)
    BY DEF ComposedPathHidesClosedTrees
  <2>1. PICK n \in DOMAIN stack : f = stack[n]
    BY DEF Frames
  <2>2. f \in WalkFrame
    <3>1. f \in WalkFrame \/ f \in ErrorFrame
      BY <2>1, FrameKinds DEF WholeInv, StackInv, Typed
    <3> QED
      BY <3>1 DEF ErrorFrame
  <2>3. Walk(f) /\ PhaseInv(f)
    BY <2>1, <2>2 DEF WholeInv, WalkInv
  <2>4. f.target \in Targets /\ f.k \in DOMAIN Path[f.target]
    BY <2>2, <2>3 DEF WalkFrame, Walk, PlaceInv
  <2>5. event[f.event].currentTarget = Path[f.target][f.k].item
    BY <2>3 DEF PhaseInv, Item
  <2> DEFINE path == Path[f.target]
             t == event[f.event].currentTarget
  <2>6. Climbs(path, f.target)
    BY <2>4, PathClimbs
  <2>7. f.k \in 1 .. Len(path) /\ t = path[f.k].item
    BY <2>4, <2>5, <2>6, ClimbsTyped
  <2> HIDE DEF path, t
  <2>8. ComposedPath(path, t) =
           Select([i \in DOMAIN path |-> path[i].item],
                  {u \in Targets : \A r \in Closed :
                      IsShadowInclusiveAncestor(r, u) => IsShadowInclusiveAncestor(r, t)})
    BY <2>6, <2>7, ComposedPathOf
  <2> QED
    BY <2>8 DEF path, t
<1> QED
  BY <1>1, <1>2, <1>3, PTL DEF Spec
=============================================================================
