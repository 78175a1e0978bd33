------------------------------- MODULE Url_proofs -------------------------------
(***************************************************************************)
(* What holds of URL objects and their search parameters for every text,   *)
(* query, list and order of calls: a URL and its list tell the same, walks *)
(* are complete, and the getters give the components of the URL.           *)
(***************************************************************************)
EXTENDS Url, SequenceLemmas

-----------------------------------------------------------------------------
(* Queries and lists.                                                       *)

Meaningful == {s \in Segment : s.spelling # "blank"}
Named(n) == {p \in Pair : p.name = n}

\* Of a segment the name and the value are taken.
ToPair == [s \in Segment |-> [name |-> s.name, value |-> s.value]]

LEMMA PairsAreImages ==
    ASSUME NEW q \in Seq(Segment)
    PROVE  /\ Select(q, Meaningful) \in Seq(Segment)
           /\ Pairs(<<q>>) \in Seq(Pair) /\ Len(Pairs(<<q>>)) = Len(Select(q, Meaningful))
           /\ \A i \in 1 .. Len(Select(q, Meaningful)) :
                 Pairs(<<q>>)[i] = ToPair[Select(q, Meaningful)[i]]
<1> DEFINE m == Select(q, Meaningful)
<1>1. m \in Seq(Segment) /\ DOMAIN m = 1 .. Len(m) /\ Len(m) \in Nat
  BY SelectInSeqOf
<1>2. \A i \in 1 .. Len(m) : m[i] \in Segment
  BY <1>1, ElementOfSeq
<1>3. Pairs(<<q>>) = [i \in DOMAIN m |-> [name |-> m[i].name, value |-> m[i].value]]
  BY DEF Pairs, Meaningful
<1> HIDE DEF m
<1> DEFINE p == [i \in DOMAIN m |-> [name |-> m[i].name, value |-> m[i].value]]
<1>4. ASSUME NEW i \in 1 .. Len(m) PROVE p[i] = ToPair[m[i]] /\ p[i] \in Pair
  BY <1>1, <1>2 DEF ToPair, Segment, Pair
<1>5. p \in [1 .. Len(m) -> Pair]
  BY <1>1, <1>4
<1>6. p \in Seq(Pair) /\ Len(p) = Len(m)
  BY <1>1, <1>5, IsASeq, LenProperties
<1> QED
  BY <1>1, <1>3, <1>4, <1>6 DEF m

LEMMA QueryCases ==
    ASSUME NEW q, IsQuery(q), q # <<>>
    PROVE  q[1] \in Seq(Segment) /\ Pairs(q) = Pairs(<<q[1]>>)
<1>1. q \in Seq(Seq(Segment)) /\ Len(q) <= 1 /\ Len(q) \in Nat /\ Len(q) # 0
  BY EmptySeq, LenProperties DEF IsQuery
<1>2. 1 \in 1 .. Len(q)
  BY <1>1
<1>3. q[1] \in Seq(Segment)
  BY <1>1, <1>2, ElementOfSeq
<1> DEFINE s == q[1]
<1>4. <<s>>[1] = s /\ <<s>> # <<>>
  OBVIOUS
<1> HIDE DEF s
<1> QED
  BY <1>3, <1>4, Zenon DEF Pairs, s

LEMMA PairsType ==
    ASSUME NEW q, IsQuery(q)
    PROVE  Pairs(q) \in Seq(Pair)
<1>1. CASE q = <<>>
  BY <1>1, EmptySeq DEF Pairs
<1>2. CASE q # <<>>
  BY <1>2, QueryCases, PairsAreImages
<1> QED
  BY <1>1, <1>2

\* A list is what the query made of it means.
LEMMA PairsOfList ==
    ASSUME NEW list \in Seq(Pair)
    PROVE  IsQuery(Stringify(list)) /\ Pairs(Stringify(list)) = list
<1>1. CASE list = <<>>
  BY <1>1, EmptySeq DEF Stringify, IsQuery, Pairs
<1>2. CASE list # <<>>
  <2> DEFINE q == [i \in DOMAIN list |->
                      [name |-> list[i].name, value |-> list[i].value, spelling |-> "form"]]
  <2>1. /\ DOMAIN list = 1 .. Len(list) /\ Len(list) \in Nat
        /\ \A i \in 1 .. Len(list) : list[i] \in Pair
    BY LenProperties, ElementOfSeq
  <2>2. Stringify(list) = <<q>>
    BY <1>2 DEF Stringify
  <2>3. ASSUME NEW i \in 1 .. Len(list)
        PROVE  q[i] \in Meaningful /\ q[i] \in Segment /\ ToPair[q[i]] = list[i]
    BY <2>1 DEF Meaningful, Segment, Pair, ToPair
  <2>4. q \in [1 .. Len(list) -> Segment]
    BY <2>1, <2>3
  <2>5. q \in Seq(Segment) /\ Len(q) = Len(list)
    BY <2>1, <2>4, IsASeq, LenProperties
  <2> HIDE DEF q
  <2>6. Select(q, Meaningful) = q
    BY <2>3, <2>5, SelectAll
  <2>7. /\ Pairs(<<q>>) \in Seq(Pair) /\ Len(Pairs(<<q>>)) = Len(list)
        /\ \A i \in 1 .. Len(list) : Pairs(<<q>>)[i] = ToPair[q[i]]
    BY <2>5, <2>6, PairsAreImages
  <2>8. Pairs(<<q>>) = list
    BY <2>3, <2>7, SeqEqual
  <2> QED
    BY <2>2, <2>5, <2>8 DEF IsQuery
<1> QED
  BY <1>1, <1>2

\* get, getAll and has, over a list and over the query that it is the list of.
LEMMA Lookups ==
    ASSUME NEW list \in Seq(Pair), NEW n \in Names
    PROVE  LET named == Select(list, Named(n)) IN
           /\ GetAll(list, n) = [i \in DOMAIN named |-> named[i].value]
           /\ named \in Seq(Pair)
           /\ HasName(list, n) <=> named # <<>>
           /\ Get(list, n) = IF named = <<>> THEN <<>> ELSE <<Head(named).value>>
<1> DEFINE named == Select(list, Named(n))
           at == {i \in DOMAIN list : list[i].name = n}
<1>1. GetAll(list, n) = [i \in DOMAIN named |-> named[i].value]
  BY DEF GetAll, Named
<1>2. named \in Seq(Pair)
  BY SelectInSeqOf
<1>3. /\ DOMAIN list = 1 .. Len(list) /\ Len(list) \in Nat
      /\ \A i \in 1 .. Len(list) : list[i] \in Pair
  BY LenProperties, ElementOfSeq
<1>4. \A i \in 1 .. Len(list) : list[i] \in Named(n) <=> i \in at
  BY <1>3 DEF Named
<1>5. Get(list, n) = IF at = {} THEN <<>> ELSE <<list[Min(at)].value>>
  BY DEF Get
<1>6. HasName(list, n) <=> at # {}
  BY DEF HasName
<1>7. at \subseteq Nat /\ at \subseteq 1 .. Len(list)
  BY <1>3
<1> HIDE DEF at, named
<1>8. CASE at = {}
  <2>1. named = <<>>
    BY <1>4, <1>8, SelectFirst DEF named
  <2> QED
    BY <1>1, <1>2, <1>5, <1>6, <1>8, <2>1 DEF named
<1>9. CASE at # {}
  <2> DEFINE k == Min(at)
  <2>1. k \in at /\ \A i \in at : k <= i
    BY <1>7, <1>9, MinProperty
  <2> HIDE DEF k
  <2>2. k \in 1 .. Len(list) /\ list[k] \in Named(n)
    BY <1>4, <1>7, <2>1
  <2>3. \A i \in 1 .. k - 1 : list[i] \notin Named(n)
    <3> TAKE i \in 1 .. k - 1
    <3>1. i \in 1 .. Len(list) /\ ~(k <= i)
      BY <2>2, <1>3
    <3> QED
      BY <3>1, <2>1, <1>4
  <2>4. named # <<>> /\ Head(named) = list[k]
    BY <2>2, <2>3, SelectFirst DEF named
  <2> QED
    BY <1>1, <1>2, <1>5, <1>6, <1>9, <2>4 DEF named, k
<1> QED
  BY <1>8, <1>9

LEMMA LookupsInQuery ==
    ASSUME NEW q \in Seq(Segment), NEW n \in Names
    PROVE  LET of == Select(q, {s \in Segment : s.name = n /\ s.spelling # "blank"})
               named == Select(Pairs(<<q>>), Named(n))
           IN  /\ DOMAIN named = DOMAIN of
               /\ \A i \in DOMAIN of : named[i].value = of[i].value
<1> DEFINE m == Select(q, Meaningful)
           U == {s \in Segment : s.name = n}
           of == Select(q, {s \in Segment : s.name = n /\ s.spelling # "blank"})
           named == Select(Pairs(<<q>>), Named(n))
<1>1. /\ m \in Seq(Segment)
      /\ Pairs(<<q>>) \in Seq(Pair) /\ Len(Pairs(<<q>>)) = Len(m)
      /\ \A i \in 1 .. Len(m) : Pairs(<<q>>)[i] = ToPair[m[i]]
  BY PairsAreImages
<1> HIDE DEF m
<1>2. \A i \in 1 .. Len(m) : m[i] \in Segment
  BY <1>1, ElementOfSeq
<1>3. \A s \in Segment : ToPair[s] \in Named(n) <=> s \in U
  BY DEF ToPair, Named, Segment, Pair
<1>3a. \A i \in 1 .. Len(m) : Pairs(<<q>>)[i] \in Named(n) <=> m[i] \in U
  BY <1>1, <1>2, <1>3
<1> HIDE DEF U
<1>4. /\ DOMAIN named = DOMAIN Select(m, U)
      /\ \A i \in DOMAIN Select(m, U) : named[i] = ToPair[Select(m, U)[i]]
  <2> DEFINE t == Pairs(<<q>>)
             V == Named(n)
  <2>1. t \in Seq(Pair) /\ Len(t) = Len(m)
    BY <1>1
  <2>2. \A i \in 1 .. Len(m) : t[i] = ToPair[m[i]] /\ (t[i] \in V <=> m[i] \in U)
    BY <1>1, <1>3a
  <2>a. m \in Seq(Segment)
    BY <1>1
  <2> DEFINE g == ToPair
  <2>b. Corresponds(t, V, m, U, g)
    BY <2>1, <2>2 DEF Corresponds
  <2> HIDE DEF t, V, g
  <2>3. /\ DOMAIN Select(t, V) = DOMAIN Select(m, U)
        /\ \A i \in DOMAIN Select(m, U) : Select(t, V)[i] = g[Select(m, U)[i]]
    BY <2>1, <2>a, <2>b, SelectMap
  <2> QED
    BY <2>3 DEF t, V, g
<1>5. Select(m, U) = of
  <2>1. Meaningful \cap U = {s \in Segment : s.name = n /\ s.spelling # "blank"}
    BY DEF Meaningful, U
  <2>2. Select(m, U) = Select(q, Meaningful \cap U)
    BY SelectTwice DEF m
  <2> QED
    BY <2>1, <2>2
<1>6. of \in Seq(Segment) /\ \A i \in DOMAIN of : of[i] \in Segment
  BY SelectInSeqOf
<1> HIDE DEF of, named
<1>8. DOMAIN named = DOMAIN of /\ \A i \in DOMAIN of : named[i] = ToPair[of[i]]
  BY <1>4, <1>5
<1>9. \A s \in Segment : ToPair[s].value = s.value
  BY DEF ToPair
<1> QED
  BY <1>6, <1>8, <1>9 DEF of, named

\* The segments of a query that say something of the name n.
SegmentsOf(query, n) ==
    IF query = <<>> THEN <<>>
    ELSE Select(query[1], {s \in Segment : s.name = n /\ s.spelling # "blank"})

\* What get, getAll and has find in the list of a query, its segments say.
LookupsTell(list, query, n) ==
    /\ GetAll(list, n) =
          [i \in DOMAIN SegmentsOf(query, n) |-> SegmentsOf(query, n)[i].value]
    /\ Get(list, n) = IF SegmentsOf(query, n) = <<>> THEN <<>> ELSE <<Head(GetAll(list, n))>>
    /\ HasName(list, n) <=> SegmentsOf(query, n) # <<>>

LEMMA LookupsAgree ==
    ASSUME NEW query, IsQuery(query), NEW list \in Seq(Pair), list = Pairs(query),
           NEW n \in Names
    PROVE  LookupsTell(list, query, n)
<1> DEFINE of == SegmentsOf(query, n)
           named == Select(list, Named(n))
<1>1. /\ GetAll(list, n) = [i \in DOMAIN named |-> named[i].value]
      /\ named \in Seq(Pair)
      /\ HasName(list, n) <=> named # <<>>
      /\ Get(list, n) = IF named = <<>> THEN <<>> ELSE <<Head(named).value>>
  BY Lookups
<1>2. /\ of \in Seq(Segment) /\ DOMAIN named = DOMAIN of
      /\ \A i \in DOMAIN of : named[i].value = of[i].value
  <2>1. CASE query = <<>>
    <3>1. list = <<>> /\ of = <<>>
      BY <2>1 DEF Pairs, SegmentsOf
    <3>2. Len(list) = 0
      BY <3>1, EmptySeq
    <3>3. named = <<>>
      <4> DEFINE T == Named(n)
      <4>1. \A i \in 1 .. Len(list) : list[i] \notin T
        BY <3>2
      <4> HIDE DEF T
      <4>2. Select(list, T) = <<>>
        BY <4>1, SelectFirst
      <4> QED
        BY <4>2 DEF T
    <3> HIDE DEF of, named
    <3> QED
      BY <3>1, <3>3, EmptySeq
  <2>2. CASE query # <<>>
    <3> DEFINE q == query[1]
    <3>1. q \in Seq(Segment) /\ list = Pairs(<<q>>)
      BY <2>2, QueryCases
    <3>2. of = Select(q, {s \in Segment : s.name = n /\ s.spelling # "blank"})
      BY <2>2 DEF SegmentsOf
    <3> HIDE DEF q, of
    <3> QED
      BY <3>1, <3>2, LookupsInQuery, SelectInSeqOf
  <2> QED
    BY <2>1, <2>2
<1> HIDE DEF of, named
<1>3. /\ DOMAIN named = 1 .. Len(named) /\ Len(named) \in Nat
      /\ DOMAIN of = 1 .. Len(of) /\ Len(of) \in Nat
  BY <1>1, <1>2, LenProperties
<1>4. Len(of) = Len(named)
  <2> DEFINE j == Len(of)
             k == Len(named)
  <2>1. j \in Nat /\ k \in Nat /\ 1 .. j = 1 .. k
    BY <1>2, <1>3, Zenon
  <2> HIDE DEF j, k
  <2>2. (j # 0 => j \in 1 .. k) /\ (k # 0 => k \in 1 .. j)
    BY <2>1
  <2>3. j = k
    BY <2>1, <2>2
  <2> QED
    BY <2>3 DEF j, k
<1>5. of = <<>> <=> named = <<>>
  BY <1>1, <1>2, <1>4, EmptySeq
<1>6. GetAll(list, n) = [i \in DOMAIN of |-> of[i].value]
  BY <1>1, <1>2, Zenon
<1>7. ASSUME named # <<>> PROVE Head(named).value = Head(GetAll(list, n))
  <2>1. 1 \in DOMAIN named
    BY <1>1, <1>3, <1>7, EmptySeq
  <2>2. Head(named) = named[1]
    BY <1>1, <1>7, HeadTailProperties
  <2> DEFINE all == GetAll(list, n)
  <2>3. all[1] = named[1].value
    BY <1>1, <2>1
  <2>a. \A i \in 1 .. Len(named) : named[i].value \in Values
    <3>1. \A i \in 1 .. Len(named) : named[i] \in Pair
      BY <1>1, ElementOfSeq
    <3> QED
      BY <3>1 DEF Pair
  <2>b. all \in [1 .. Len(named) -> Values]
    BY <1>1, <1>3, <2>a
  <2>c. all \in Seq(Values) /\ Len(all) = Len(named)
    BY <1>3, <2>b, IsASeq, LenProperties
  <2> HIDE DEF all
  <2>4. Head(all) = all[1]
    BY <1>1, <1>3, <1>7, <2>c, EmptySeq, HeadTailProperties
  <2> QED
    BY <2>2, <2>3, <2>4 DEF all
<1> QED
  BY <1>1, <1>5, <1>6, <1>7, Zenon DEF of, LookupsTell

-----------------------------------------------------------------------------
(* Lists that the methods make are lists.                                   *)

IsParams(p) == p = <<>> \/ \E list \in Seq(Pair) : p = <<list>>

LEMMA ParamsCases ==
    ASSUME NEW p, IsParams(p), p # <<>>
    PROVE  p[1] \in Seq(Pair) /\ p = <<p[1]>>
BY DEF IsParams

LEMMA OneList == ASSUME NEW list \in Seq(Pair) PROVE IsParams(<<list>>) /\ <<list>> # <<>>
BY DEF IsParams

LEMMA ReplacedType ==
    ASSUME NEW list \in Seq(Pair), NEW name \in Names, NEW value \in Values
    PROVE  Replaced(list, name, value) \in Seq(Pair)
<1> DEFINE pair == [name |-> name, value |-> value]
           named == {i \in DOMAIN list : list[i].name = name}
           left == SubSeq(list, 1, Min(named) - 1)
           rest == SubSeq(list, Min(named) + 1, Len(list))
           right == Without(rest, name)
<1>1. pair \in Pair
  BY DEF Pair
<1>2. /\ DOMAIN list = 1 .. Len(list) /\ Len(list) \in Nat
      /\ \A i \in 1 .. Len(list) : list[i] \in Pair
  BY LenProperties, ElementOfSeq
<1>3. Replaced(list, name, value) =
         IF named = {} THEN Append(list, pair) ELSE left \o <<pair>> \o right
  BY DEF Replaced
<1>4. CASE named = {}
  BY <1>1, <1>3, <1>4, AppendProperties
<1>5. CASE named # {}
  <2> DEFINE k == Min(named)
  <2>1. named \subseteq Nat /\ named \subseteq 1 .. Len(list)
    BY <1>2
  <2>2. k \in named
    BY <2>1, <1>5, MinProperty
  <2>3. k \in 1 .. Len(list)
    BY <2>1, <2>2
  <2> HIDE DEF k
  <2>4. SubSeq(list, 1, k - 1) \in Seq(Pair)
    <3>1. 1 \in Int /\ k - 1 \in Int /\ \A i \in 1 .. k - 1 : list[i] \in Pair
      BY <1>2, <2>3
    <3> QED
      BY <3>1, SubSeqProperties
  <2>5. SubSeq(list, k + 1, Len(list)) \in Seq(Pair)
    <3>1. k + 1 \in Int /\ Len(list) \in Int /\ \A i \in k + 1 .. Len(list) : list[i] \in Pair
      BY <1>2, <2>3
    <3> QED
      BY <3>1, SubSeqProperties
  <2>6. right \in Seq(Pair)
    <3>1. rest \in Seq(Pair)
      BY <2>5 DEF k
    <3> HIDE DEF rest
    <3> QED
      BY <3>1, SelectInSeqOf DEF Without
  <2>7. left \in Seq(Pair)
    BY <2>4 DEF k
  <2> HIDE DEF left, right, pair
  <2>8. <<pair>> \in Seq(Pair)
    BY <1>1
  <2>9. left \o <<pair>> \in Seq(Pair)
    BY <2>7, <2>8, ConcatProperties
  <2>10. left \o <<pair>> \o right \in Seq(Pair)
    BY <2>6, <2>9, ConcatProperties
  <2> QED
    BY <2>10, <1>3, <1>5
<1> QED
  BY <1>4, <1>5

LEMMA InsertedType ==
    ASSUME NEW list \in Seq(Pair), NEW pair \in Pair
    PROVE  Inserted(list, pair) \in Seq(Pair)
<1> DEFINE left == Select(list, {p \in Pair : p.name <= pair.name})
           right == Select(list, {p \in Pair : p.name > pair.name})
<1>1. left \in Seq(Pair) /\ right \in Seq(Pair)
  BY SelectInSeqOf
<1>2. Inserted(list, pair) = left \o <<pair>> \o right
  BY DEF Inserted
<1> HIDE DEF left, right
<1>3. left \o <<pair>> \in Seq(Pair)
  BY <1>1, ConcatProperties
<1> QED
  BY <1>1, <1>2, <1>3, ConcatProperties

LEMMA SortedType ==
    ASSUME NEW list \in Seq(Pair)
    PROVE  Sorted(list) \in Seq(Pair)
<1> DEFINE N == Len(list)
           V == Seq(Pair)
           G == [p \in (1 .. N) \X V |-> Inserted(p[2], list[p[1]])]
           R(f) == f = [n \in 0 .. N |-> IF n = 0 THEN <<>> ELSE Inserted(f[n - 1], list[n])]
<1>1. N \in Nat /\ <<>> \in V /\ \A n \in 1 .. N : list[n] \in Pair
  BY LenProperties, EmptySeq, ElementOfSeq
<1>2. \A n \in 1 .. N, v \in V : G[<<n, v>>] = Inserted(v, list[n])
  OBVIOUS
<1>3. Sorted(list) = (CHOOSE f : R(f))[N]
  BY Zenon DEF Sorted
<1> HIDE DEF G, V, N
<1>4. ASSUME NEW n \in 1 .. N, NEW v \in V PROVE Inserted(v, list[n]) \in V
  BY <1>1, InsertedType DEF V
<1>5. \A n \in 1 .. N : \A v \in V : G[<<n, v>>] \in V
  BY <1>2, <1>4
<1>6. PICK g : Computes(g, N, V, <<>>, G)
  BY <1>1, <1>5, RecursionExists
<1>7. \A n \in 0 .. N : g[n] \in V
  BY <1>6 DEF Computes
<1>8. ASSUME NEW n \in 0 .. N
      PROVE  g[n] = IF n = 0 THEN <<>> ELSE Inserted(g[n - 1], list[n])
  <2>1. CASE n = 0
    BY <2>1, <1>6 DEF Computes
  <2>2. CASE n # 0
    <3>1. n \in 1 .. N /\ n - 1 \in 0 .. N
      BY <2>2, <1>1
    <3>2. g[n] = G[<<n, g[n - 1]>>] /\ g[n - 1] \in V
      BY <3>1, <1>6, <1>7 DEF Computes
    <3> QED
      BY <3>1, <3>2, <2>2, <1>2
  <2> QED
    BY <2>1, <2>2
<1>9. R(g)
  <2>1. g = [n \in 0 .. N |-> g[n]]
    BY <1>6 DEF Computes
  <2> QED
    BY <2>1, <1>8, Zenon
<1> DEFINE of == CHOOSE f : R(f)
<1>10. R(of)
  BY <1>9, Zenon
<1> HIDE DEF of
<1>11. of[0] = <<>>
  <2>1. 0 \in 0 .. N
    BY <1>1
  <2> QED
    BY <2>1, <1>10
<1> DEFINE K == {n \in Nat : n <= N => of[n] \in V}
<1>12. 0 \in K
  BY <1>1, <1>11
<1>13. ASSUME NEW n \in Nat, n \in K PROVE n + 1 \in K
  <2> SUFFICES ASSUME n + 1 <= N PROVE of[n + 1] \in V
    OBVIOUS
  <2>1. n + 1 \in 1 .. N /\ n + 1 \in 0 .. N /\ (n + 1) - 1 = n /\ n + 1 # 0 /\ of[n] \in V
    BY <1>1, <1>13
  <2>2. of[n + 1] = IF n + 1 = 0 THEN <<>> ELSE Inserted(of[(n + 1) - 1], list[n + 1])
    BY <2>1, <1>10, Zenon
  <2>3. of[n + 1] = Inserted(of[n], list[n + 1])
    BY <2>1, <2>2
  <2> QED
    BY <2>1, <2>3, <1>4
<1> HIDE DEF K
<1>14. N \in K
  BY <1>1, <1>12, <1>13, SetInduction
<1> QED
  BY <1>1, <1>3, <1>14 DEF K, of, V

LEMMA InitListType ==
    ASSUME NEW i \in Inits, Acceptable(i)
    PROVE  InitList(i) \in Seq(Pair)
<1>1. CASE i.kind = "string" /\ IsQuery(i.query)
  BY <1>1, PairsType DEF InitList
<1>2. CASE /\ i.kind = "sequence" /\ DOMAIN i.pairs = 1 .. Len(i.pairs)
           /\ \A n \in DOMAIN i.pairs : Len(i.pairs[n]) = 2 =>
                 i.pairs[n][1] \in Names /\ i.pairs[n][2] \in Values
           /\ Len(i.pairs) \in Nat
  <2> DEFINE l == [n \in DOMAIN i.pairs |->
                      [name |-> i.pairs[n][1], value |-> i.pairs[n][2]]]
  <2>1. InitList(i) = l
    BY <1>2 DEF InitList
  <2>2. \A n \in DOMAIN i.pairs : l[n] \in Pair
    BY <1>2 DEF Acceptable, Pair
  <2>3. l \in [1 .. Len(i.pairs) -> Pair]
    BY <2>2, <1>2
  <2> QED
    BY <2>1, <2>3, <1>2, IsASeq
<1>3. CASE /\ i.kind = "record" /\ i.keys \in Seq(Names)
           /\ \A n \in DOMAIN i.keys : i.values[i.keys[n]] \in Values
  <2> DEFINE l == [n \in DOMAIN i.keys |->
                      [name |-> i.keys[n], value |-> i.values[i.keys[n]]]]
  <2>1. InitList(i) = l
    BY <1>3 DEF InitList
  <2>2. /\ DOMAIN i.keys = 1 .. Len(i.keys) /\ Len(i.keys) \in Nat
        /\ \A n \in 1 .. Len(i.keys) : i.keys[n] \in Names
    BY <1>3, LenProperties, ElementOfSeq
  <2>3. \A n \in DOMAIN i.keys : l[n] \in Pair
    BY <1>3, <2>2 DEF Pair
  <2>4. l \in [1 .. Len(i.keys) -> Pair]
    BY <2>2, <2>3
  <2> QED
    BY <2>1, <2>2, <2>4, IsASeq
<1> QED
  BY <1>1, <1>2, <1>3, UrlAssumption

-----------------------------------------------------------------------------
(* The text of a URL and what the getters cut out of it.                    *)

Chars == Tokens \cup Delimiters

PieceAt(s, from, piece) ==
    /\ from + Len(piece) <= Len(s)
    /\ \A i \in 1 .. Len(piece) : s[from + i] = piece[i]

LEMMA PieceWhole == ASSUME NEW S, NEW s \in Seq(S) PROVE PieceAt(s, 0, s)
<1>1. Len(s) \in Nat
  BY LenProperties
<1> QED
  BY <1>1 DEF PieceAt

LEMMA PieceSplit ==
    ASSUME NEW S, NEW s \in Seq(S), NEW a \in Seq(S), NEW b \in Seq(S), NEW from \in Nat,
           PieceAt(s, from, a \o b)
    PROVE  PieceAt(s, from, a) /\ PieceAt(s, from + Len(a), b)
<1> DEFINE ab == a \o b
           k == Len(a)
           m == Len(b)
<1>1. /\ k \in Nat /\ m \in Nat /\ Len(s) \in Nat /\ Len(ab) = k + m
      /\ \A i \in 1 .. k + m : ab[i] = IF i <= k THEN a[i] ELSE b[i - k]
  BY LenProperties, ConcatProperties
<1>2. from + Len(ab) <= Len(s) /\ \A i \in 1 .. Len(ab) : s[from + i] = ab[i]
  BY DEF PieceAt
<1> HIDE DEF ab, k, m
<1>3. from + k <= Len(s) /\ (from + k) + m <= Len(s)
  BY <1>1, <1>2
<1>4. ASSUME NEW i \in 1 .. k PROVE s[from + i] = a[i]
  <2>1. i \in 1 .. k + m /\ i <= k
    BY <1>1
  <2> QED
    BY <2>1, <1>1, <1>2
<1>5. ASSUME NEW i \in 1 .. m PROVE s[(from + k) + i] = b[i]
  <2>1. /\ k + i \in 1 .. k + m /\ ~(k + i <= k) /\ (k + i) - k = i
        /\ (from + k) + i = from + (k + i)
    BY <1>1
  <2>2. s[from + (k + i)] = ab[k + i] /\ ab[k + i] = b[i]
    BY <2>1, <1>1, <1>2
  <2> QED
    BY <2>1, <2>2
<1> QED
  BY <1>3, <1>4, <1>5 DEF PieceAt, k, m

LEMMA PieceJoin ==
    ASSUME NEW S, NEW s \in Seq(S), NEW a \in Seq(S), NEW b \in Seq(S), NEW from \in Nat,
           PieceAt(s, from, a), PieceAt(s, from + Len(a), b)
    PROVE  PieceAt(s, from, a \o b)
<1> DEFINE ab == a \o b
           k == Len(a)
           m == Len(b)
<1>1. /\ k \in Nat /\ m \in Nat /\ Len(s) \in Nat /\ Len(ab) = k + m
      /\ \A i \in 1 .. k + m : ab[i] = IF i <= k THEN a[i] ELSE b[i - k]
  BY LenProperties, ConcatProperties
<1>2. /\ (from + k) + m <= Len(s)
      /\ \A i \in 1 .. k : s[from + i] = a[i]
      /\ \A i \in 1 .. m : s[(from + k) + i] = b[i]
  BY DEF PieceAt
<1> HIDE DEF ab, k, m
<1>3. ASSUME NEW i \in 1 .. k + m PROVE s[from + i] = ab[i]
  <2>1. CASE i <= k
    BY <2>1, <1>1, <1>2
  <2>2. CASE ~(i <= k)
    <3>1. i - k \in 1 .. m /\ (from + k) + (i - k) = from + i
      BY <2>2, <1>1
    <3>2. s[(from + k) + (i - k)] = b[i - k] /\ ab[i] = b[i - k]
      BY <3>1, <2>2, <1>1, <1>2
    <3> QED
      BY <3>1, <3>2
  <2> QED
    BY <2>1, <2>2
<1>4. from + Len(ab) <= Len(s)
  <2>1. Len(ab) = k + m /\ (from + k) + m = from + (k + m)
    BY <1>1
  <2> QED
    BY <2>1, <1>2, Zenon
<1> QED
  BY <1>1, <1>3, <1>4 DEF PieceAt, ab

LEMMA SliceIsPiece ==
    ASSUME NEW S, NEW s \in Seq(S), NEW b \in Seq(S), NEW from \in Nat, NEW to \in Nat,
           to = from + Len(b), PieceAt(s, from, b)
    PROVE  Slice(s, from, to) = b
<1> DEFINE m == Len(b)
           c == SubSeq(s, from + 1, to)
<1>1. /\ m \in Nat /\ Len(s) \in Nat /\ to <= Len(s)
      /\ \A i \in 1 .. m : s[from + i] = b[i] /\ b[i] \in S
  BY LenProperties, ElementOfSeq DEF PieceAt
<1>2. Slice(s, from, to) = c
  <2> DEFINE n == IF to < Len(s) THEN to ELSE Len(s)
  <2>1. n = to
    BY <1>1
  <2> HIDE DEF n
  <2> QED
    BY <2>1 DEF Slice, n
<1> HIDE DEF m
<1>3. to = from + m
  BY DEF m
<1>4. ASSUME NEW i \in from + 1 .. to PROVE s[i] \in S
  <2>1. i \in Int
    OBVIOUS
  <2>2. i - from \in 1 .. m /\ from + (i - from) = i
    BY <1>1, <1>3, <2>1
  <2> QED
    BY <1>1, <2>2
<1>5. /\ c \in Seq(S) /\ Len(c) = IF from + 1 <= to THEN to - (from + 1) + 1 ELSE 0
      /\ \A i \in 1 .. to - (from + 1) + 1 : c[i] = s[from + 1 + i - 1]
  <2>1. from + 1 \in Int /\ to \in Int
    OBVIOUS
  <2> QED
    BY <1>4, <2>1, SubSeqProperties
<1> HIDE DEF c
<1>6. Len(c) = m
  BY <1>1, <1>3, <1>5
<1>7. ASSUME NEW i \in 1 .. m PROVE c[i] = b[i]
  <2>1. i \in 1 .. to - (from + 1) + 1 /\ from + 1 + i - 1 = from + i
    BY <1>1, <1>3
  <2> QED
    BY <2>1, <1>1, <1>5
<1>8. c \in [1 .. m -> S] /\ b \in [1 .. m -> S]
  BY <1>5, <1>6, LenProperties DEF m
<1>9. c = b
  <2>1. \A i \in 1 .. m : c[i] = b[i]
    BY <1>7
  <2>2. c = [i \in 1 .. m |-> c[i]] /\ b = [i \in 1 .. m |-> b[i]]
    BY <1>8
  <2> QED
    BY <2>1, <2>2, Zenon
<1> QED
  BY <1>2, <1>9

LEMMA SliceEmpty ==
    ASSUME NEW s, Len(s) \in Nat, NEW from \in Nat, NEW to \in Nat, to <= from
    PROVE  Slice(s, from, to) = <<>>
<1> DEFINE n == IF to < Len(s) THEN to ELSE Len(s)
<1>1. n \in Int /\ n < from + 1 /\ from + 1 \in Int
  OBVIOUS
<1> HIDE DEF n
<1>2. SubSeq(s, from + 1, n) = <<>>
  BY <1>1, SubSeqEmpty
<1> QED
  BY <1>2 DEF Slice, n

\* Where the components of a URL begin in its text.
Authority(url) == IF url.authority THEN <<"/", "/">> ELSE <<>>
UserAt(url) == 2 + Len(Authority(url))
Credentials(url) == url.username \o Wrap(":", url.password)
HostAt(url) == UserAt(url) + Len(UserInfo(url))
PortAt(url) == HostAt(url) + Len(url.host)
PathAt(url) == PortAt(url) + Len(Wrap(":", url.port))
QueryAt(url) == PathAt(url) + Len(url.path)
FragmentAt(url) == QueryAt(url) + Len(TextOf("?", url.query))
EndAt(url) == FragmentAt(url) + Len(TextOf("#", url.fragment))

LEMMA PartTypes ==
    ASSUME NEW url, IsUrl(url)
    PROVE  /\ <<url.scheme, ":">> \in Seq(Chars) /\ Len(<<url.scheme, ":">>) = 2
           /\ Authority(url) \in Seq(Chars)
           /\ url.username \in Seq(Chars) /\ url.password \in Seq(Chars)
           /\ Wrap(":", url.password) \in Seq(Chars)
           /\ Credentials(url) \in Seq(Chars) /\ UserInfo(url) \in Seq(Chars)
           /\ url.host \in Seq(Chars) /\ Wrap(":", url.port) \in Seq(Chars)
           /\ url.path \in Seq(Chars)
           /\ TextOf("?", url.query) \in Seq(Chars) /\ TextOf("#", url.fragment) \in Seq(Chars)
<1>1. /\ Tokens \subseteq Chars /\ Delimiters \subseteq Chars /\ "text" \in Chars
      /\ {"0", "8080"} \subseteq Chars
  BY UrlAssumption DEF Chars, PortNumber
<1>2. /\ ":" \in Chars /\ "/" \in Chars /\ "@" \in Chars /\ "?" \in Chars /\ "#" \in Chars
  BY <1>1 DEF Delimiters
<1>3. <<>> \in Seq(Chars)
  BY EmptySeq
<1>4. \A c \in Seq(Tokens) : c \in Seq(Chars)
  BY <1>1
<1>5. /\ url.scheme \in Chars /\ url.username \in Seq(Chars) /\ url.password \in Seq(Chars)
      /\ url.host \in Seq(Chars) /\ url.path \in Seq(Chars)
  BY <1>1, <1>4 DEF IsUrl
<1>6. url.port \in Seq(Chars)
  <2>1. url.port = <<>> \/ \E n \in {"0", "8080"} : url.port = <<n>>
    BY DEF IsUrl, PortNumber
  <2>2. <<"0">> \in Seq(Chars) /\ <<"8080">> \in Seq(Chars)
    BY <1>1
  <2> QED
    BY <1>3, <2>1, <2>2
<1>7. ASSUME NEW c \in Seq(Chars) PROVE Wrap(":", c) \in Seq(Chars)
  <2>1. <<":">> \in Seq(Chars)
    BY <1>2
  <2>2. <<":">> \o c \in Seq(Chars)
    BY <2>1, ConcatProperties
  <2> QED
    BY <1>3, <2>2 DEF Wrap
<1>8. ASSUME NEW d \in Chars, NEW option PROVE TextOf(d, option) \in Seq(Chars)
  <2> DEFINE t == IF option[1] = <<>> THEN <<>> ELSE <<"text">>
  <2>1. t \in Seq(Chars) /\ <<d>> \in Seq(Chars)
    BY <1>1, <1>3
  <2>2. TextOf(d, option) = IF option = <<>> THEN <<>> ELSE <<d>> \o t
    BY DEF TextOf
  <2> HIDE DEF t
  <2>3. <<d>> \o t \in Seq(Chars)
    BY <2>1, ConcatProperties
  <2> QED
    BY <1>3, <2>2, <2>3
<1>9. <<url.scheme, ":">> \in Seq(Chars) /\ Len(<<url.scheme, ":">>) = 2
  BY <1>2, <1>5
<1>10. Authority(url) \in Seq(Chars)
  BY <1>2, <1>3 DEF Authority
<1>11. Credentials(url) \in Seq(Chars)
  BY <1>5, <1>7, ConcatProperties DEF Credentials
<1>12. UserInfo(url) \in Seq(Chars)
  <2> DEFINE c == Credentials(url)
             e == IF c = <<>> THEN <<>> ELSE <<"@">>
  <2>1. UserInfo(url) = c \o e
    BY DEF UserInfo, Credentials
  <2>2. e \in Seq(Chars)
    BY <1>2, <1>3
  <2> HIDE DEF e, c
  <2>3. c \o e \in Seq(Chars)
    BY <1>11, <2>2, ConcatProperties DEF c
  <2> QED
    BY <2>1, <2>3
<1> QED
  BY <1>2, <1>5, <1>6, <1>7, <1>8, <1>9, <1>10, <1>11, <1>12

LEMMA PlacesAreNumbers ==
    ASSUME NEW url, IsUrl(url)
    PROVE  /\ UserAt(url) \in Nat /\ HostAt(url) \in Nat /\ PortAt(url) \in Nat
           /\ PathAt(url) \in Nat /\ QueryAt(url) \in Nat /\ FragmentAt(url) \in Nat
           /\ EndAt(url) \in Nat
<1>1. /\ Len(Authority(url)) \in Nat /\ Len(UserInfo(url)) \in Nat /\ Len(url.host) \in Nat
      /\ Len(Wrap(":", url.port)) \in Nat /\ Len(url.path) \in Nat
      /\ Len(TextOf("?", url.query)) \in Nat /\ Len(TextOf("#", url.fragment)) \in Nat
  BY PartTypes, LenProperties
<1>2. UserAt(url) \in Nat
  BY <1>1 DEF UserAt
<1>3. HostAt(url) \in Nat
  BY <1>1, <1>2 DEF HostAt
<1>4. PortAt(url) \in Nat
  BY <1>1, <1>3 DEF PortAt
<1>5. PathAt(url) \in Nat
  BY <1>1, <1>4 DEF PathAt
<1>6. QueryAt(url) \in Nat
  BY <1>1, <1>5 DEF QueryAt
<1>7. FragmentAt(url) \in Nat
  BY <1>1, <1>6 DEF FragmentAt
<1>8. EndAt(url) \in Nat
  BY <1>1, <1>7 DEF EndAt
<1> QED
  BY <1>2, <1>3, <1>4, <1>5, <1>6, <1>7, <1>8

\* Each component is where it should be.
IsLaid(s, url) ==
    /\ s \in Seq(Chars) /\ Len(s) = EndAt(url)
    /\ PieceAt(s, 0, <<url.scheme, ":">>)
    /\ PieceAt(s, 2, Authority(url))
    /\ PieceAt(s, UserAt(url), UserInfo(url))
    /\ PieceAt(s, HostAt(url), url.host)
    /\ PieceAt(s, PortAt(url), Wrap(":", url.port))
    /\ PieceAt(s, PathAt(url), url.path)
    /\ PieceAt(s, QueryAt(url), TextOf("?", url.query))
    /\ PieceAt(s, FragmentAt(url), TextOf("#", url.fragment))

LEMMA Layout ==
    ASSUME NEW url, IsUrl(url)
    PROVE  /\ IsLaid(Text(url), url)
           /\ Len(BeforeQuery(url)) = QueryAt(url)
<1> DEFINE a == <<url.scheme, ":">>
           b == Authority(url)
           c == UserInfo(url)
           d == url.host
           e == Wrap(":", url.port)
           f == url.path
           g == TextOf("?", url.query)
           h == TextOf("#", url.fragment)
           m == b \o c \o d \o e
           s == Text(url)
<1>1. /\ a \in Seq(Chars) /\ b \in Seq(Chars) /\ c \in Seq(Chars) /\ d \in Seq(Chars)
      /\ e \in Seq(Chars) /\ f \in Seq(Chars) /\ g \in Seq(Chars) /\ h \in Seq(Chars)
      /\ Len(a) = 2
  BY PartTypes
<1>2. BeforeQuery(url) = a \o m \o f
  <2>1. CASE url.authority
    BY <2>1 DEF BeforeQuery, Authority
  <2>2. CASE ~url.authority
    <3>1. url.host = <<>> /\ url.username = <<>> /\ url.password = <<>> /\ url.port = <<>>
      BY <2>2 DEF IsUrl
    <3>2. b = <<>> /\ d = <<>> /\ e = <<>>
      BY <2>2, <3>1 DEF Authority, Wrap
    <3>3. c = <<>>
      <4>1. Wrap(":", url.password) = <<>>
        BY <3>1 DEF Wrap
      <4>2. <<>> \o <<>> = <<>>
        BY EmptySeq, ConcatEmptySeq
      <4> QED
        BY <3>1, <4>1, <4>2, Zenon DEF UserInfo
    <3>4. m = <<>>
      <4>1. <<>> \o <<>> = <<>>
        BY EmptySeq, ConcatEmptySeq
      <4> QED
        BY <3>2, <3>3, <4>1, Zenon
    <3> HIDE DEF m, a, f
    <3> QED
      BY <2>2, <3>4, Zenon DEF BeforeQuery, a, f
  <2> QED
    BY <2>1, <2>2
<1>3. s = ((a \o m) \o f) \o g \o h
  BY <1>2 DEF Text
<1> HIDE DEF a, b, c, d, e, f, g, h, s
<1>4. /\ b \o c \in Seq(Chars) /\ Len(b \o c) = Len(b) + Len(c)
      /\ (b \o c) \o d \in Seq(Chars) /\ Len((b \o c) \o d) = Len(b) + Len(c) + Len(d)
      /\ m \in Seq(Chars) /\ Len(m) = Len(b) + Len(c) + Len(d) + Len(e)
  <2>1. b \o c \in Seq(Chars) /\ Len(b \o c) = Len(b) + Len(c)
    BY <1>1, ConcatProperties
  <2>2. (b \o c) \o d \in Seq(Chars) /\ Len((b \o c) \o d) = Len(b \o c) + Len(d)
    BY <1>1, <2>1, ConcatProperties
  <2>3. m \in Seq(Chars) /\ Len(m) = Len((b \o c) \o d) + Len(e)
    BY <1>1, <2>2, ConcatProperties
  <2> QED
    BY <2>1, <2>2, <2>3
<1> DEFINE am == a \o m
           amf == am \o f
           amfg == amf \o g
<1> HIDE DEF m
<1>5. /\ am \in Seq(Chars) /\ Len(am) = Len(a) + Len(m)
  BY <1>1, <1>4, ConcatProperties
<1> HIDE DEF am
<1>6. amf \in Seq(Chars) /\ Len(amf) = Len(am) + Len(f)
  BY <1>1, <1>5, ConcatProperties
<1> HIDE DEF amf
<1>7. amfg \in Seq(Chars) /\ Len(amfg) = Len(amf) + Len(g)
  BY <1>1, <1>6, ConcatProperties
<1> HIDE DEF amfg
<1>8. s = amfg \o h
  BY <1>3 DEF amfg, amf, am
<1>9. s \in Seq(Chars) /\ Len(s) = Len(amfg) + Len(h)
  BY <1>1, <1>7, <1>8, ConcatProperties
<1>10. /\ Len(b) \in Nat /\ Len(c) \in Nat /\ Len(d) \in Nat /\ Len(e) \in Nat
       /\ Len(f) \in Nat /\ Len(g) \in Nat /\ Len(h) \in Nat /\ Len(m) \in Nat
  BY <1>1, <1>4, LenProperties
<1>11. PieceAt(s, 0, amfg) /\ PieceAt(s, 0 + Len(amfg), h)
  BY <1>1, <1>7, <1>8, <1>9, PieceWhole, PieceSplit
<1>12. PieceAt(s, 0, amf) /\ PieceAt(s, 0 + Len(amf), g)
  BY <1>1, <1>6, <1>9, <1>11, PieceSplit DEF amfg
<1>13. PieceAt(s, 0, am) /\ PieceAt(s, 0 + Len(am), f)
  BY <1>1, <1>5, <1>9, <1>12, PieceSplit DEF amf
<1>14. PieceAt(s, 0, a) /\ PieceAt(s, 2, m)
  <2>1. PieceAt(s, 0, a) /\ PieceAt(s, 0 + Len(a), m)
    BY <1>1, <1>4, <1>9, <1>13, PieceSplit DEF am
  <2>2. 0 + Len(a) = 2
    BY <1>1
  <2> QED
    BY <2>1, <2>2
<1>15. PieceAt(s, 2, (b \o c) \o d) /\ PieceAt(s, 2 + Len((b \o c) \o d), e)
  BY <1>1, <1>4, <1>9, <1>14, PieceSplit DEF m
<1>16. PieceAt(s, 2, b \o c) /\ PieceAt(s, 2 + Len(b \o c), d)
  BY <1>1, <1>4, <1>9, <1>15, PieceSplit
<1>17. PieceAt(s, 2, b) /\ PieceAt(s, 2 + Len(b), c)
  BY <1>1, <1>9, <1>16, PieceSplit
<1>18. /\ UserAt(url) = 2 + Len(b) /\ HostAt(url) = 2 + Len(b \o c)
       /\ PortAt(url) = 2 + Len((b \o c) \o d) /\ PathAt(url) = 0 + Len(am)
       /\ QueryAt(url) = 0 + Len(amf) /\ FragmentAt(url) = 0 + Len(amfg)
       /\ EndAt(url) = Len(s)
  <2>1. /\ UserAt(url) = 2 + Len(b) /\ HostAt(url) = 2 + Len(b) + Len(c)
        /\ PortAt(url) = 2 + Len(b) + Len(c) + Len(d)
        /\ PathAt(url) = 2 + Len(b) + Len(c) + Len(d) + Len(e)
        /\ QueryAt(url) = 2 + Len(b) + Len(c) + Len(d) + Len(e) + Len(f)
        /\ FragmentAt(url) = 2 + Len(b) + Len(c) + Len(d) + Len(e) + Len(f) + Len(g)
        /\ EndAt(url) = 2 + Len(b) + Len(c) + Len(d) + Len(e) + Len(f) + Len(g) + Len(h)
    BY DEF UserAt, HostAt, PortAt, PathAt, QueryAt, FragmentAt, EndAt, b, c, d, e, f, g, h
  <2> QED
    BY <2>1, <1>1, <1>4, <1>5, <1>6, <1>7, <1>9, <1>10
<1>19. Len(BeforeQuery(url)) = QueryAt(url)
  <2>1. BeforeQuery(url) = amf
    BY <1>2 DEF amf, am
  <2> QED
    BY <1>6, <1>10, <1>18, <2>1, <1>1, <1>4, <1>5
<1> QED
  BY <1>9, <1>11, <1>12, <1>13, <1>14, <1>15, <1>16, <1>17, <1>18, <1>19
     DEF IsLaid, a, b, c, d, e, f, g, h, s

\* What the offsets of a URL say of its text.
Measures(o, url) ==
    /\ o.schemeEnd = 1 /\ o.usernameEnd = UserAt(url) + Len(url.username)
    /\ o.hostStart = HostAt(url) /\ o.hostEnd = PortAt(url) /\ o.pathStart = PathAt(url)
    /\ url.port # <<>> => o.port # NO_PORT
    /\ o.queryStart = IF url.query = <<>> THEN 0 ELSE QueryAt(url)
    /\ o.fragmentStart = IF url.fragment = <<>> THEN 0 ELSE FragmentAt(url)

LEMMA OffsetsMeasure ==
    ASSUME NEW url, IsUrl(url), NEW noPort
    PROVE  Measures(Offsets(url, noPort), url)
<1> DEFINE o == Offsets(url, noPort)
           start == IF url.authority THEN 4 ELSE 2
           pathStart == Len(BeforeQuery(url)) - Len(url.path)
<1>1. /\ o.schemeEnd = 1 /\ o.usernameEnd = start + Len(url.username)
      /\ o.hostStart = start + Len(UserInfo(url))
      /\ o.hostEnd = start + Len(UserInfo(url)) + Len(url.host)
      /\ o.port = IF url.port = <<>> THEN noPort ELSE PortNumber[url.port[1]]
      /\ o.pathStart = pathStart
      /\ o.queryStart = IF url.query = <<>> THEN 0 ELSE Len(BeforeQuery(url))
      /\ o.fragmentStart = IF url.fragment = <<>> THEN 0
                           ELSE Len(BeforeQuery(url)) + Len(TextOf("?", url.query))
  BY DEF Offsets
<1>2. start = UserAt(url)
  <2>1. CASE url.authority
    <3>1. Len(<<"/", "/">>) = 2
      OBVIOUS
    <3>2. Authority(url) = <<"/", "/">>
      BY <2>1 DEF Authority
    <3> QED
      BY <2>1, <3>1, <3>2 DEF UserAt
  <2>2. CASE ~url.authority
    <3>1. Authority(url) = <<>> /\ Len(<<>>) = 0
      BY <2>2, EmptySeq DEF Authority
    <3> QED
      BY <2>2, <3>1 DEF UserAt
  <2> QED
    BY <2>1, <2>2
<1>3. Len(BeforeQuery(url)) = QueryAt(url)
  BY Layout
<1>4. pathStart = PathAt(url)
  <2>1. Len(url.path) \in Nat /\ PathAt(url) \in Nat
    BY PartTypes, PlacesAreNumbers, LenProperties
  <2> QED
    BY <1>3, <2>1 DEF QueryAt
<1>5. url.port # <<>> => o.port # NO_PORT
  <2>1. url.port = <<>> \/ \E n \in {"0", "8080"} : url.port = <<n>>
    BY DEF IsUrl, PortNumber
  <2>2. CASE url.port = <<"0">>
    BY <1>1, <2>2 DEF PortNumber, NO_PORT
  <2>3. CASE url.port = <<"8080">>
    BY <1>1, <2>3 DEF PortNumber, NO_PORT
  <2> QED
    BY <2>1, <2>2, <2>3
<1> HIDE DEF o, start, pathStart
<1> QED
  BY <1>1, <1>2, <1>3, <1>4, <1>5 DEF Measures, o, HostAt, PortAt, FragmentAt

LEMMA CutPort ==
    ASSUME NEW url, IsUrl(url), NEW s, IsLaid(s, url), NEW o, Measures(o, url)
    PROVE  /\ Protocol(s, o) = <<url.scheme, ":">>
           /\ Hostname(s, o) = url.host /\ Port(s, o) = url.port
           /\ Host(s, o) = url.host \o Wrap(":", url.port)
<1>1. /\ s \in Seq(Chars) /\ url.host \in Seq(Chars) /\ Wrap(":", url.port) \in Seq(Chars)
      /\ <<url.scheme, ":">> \in Seq(Chars) /\ Len(<<url.scheme, ":">>) = 2
      /\ HostAt(url) \in Nat /\ PortAt(url) \in Nat /\ PathAt(url) \in Nat
  BY PartTypes, PlacesAreNumbers DEF IsLaid
<1>2. /\ PortAt(url) = HostAt(url) + Len(url.host)
      /\ PathAt(url) = PortAt(url) + Len(Wrap(":", url.port))
  BY DEF PortAt, PathAt
<1>3. /\ PieceAt(s, 0, <<url.scheme, ":">>) /\ PieceAt(s, HostAt(url), url.host)
      /\ PieceAt(s, PortAt(url), Wrap(":", url.port))
  BY DEF IsLaid
<1>4. /\ o.schemeEnd = 1 /\ o.hostStart = HostAt(url) /\ o.hostEnd = PortAt(url)
      /\ o.pathStart = PathAt(url) /\ (url.port # <<>> => o.port # NO_PORT)
  BY DEF Measures
<1>5. Protocol(s, o) = <<url.scheme, ":">>
  <2> DEFINE b == <<url.scheme, ":">>
  <2>1. b \in Seq(Chars) /\ Len(b) = 2 /\ PieceAt(s, 0, b)
    BY <1>1, <1>3
  <2>2. o.schemeEnd + 1 = 0 + 2
    BY <1>4
  <2> DEFINE to == 0 + 2
  <2>a. to = 0 + Len(b) /\ to \in Nat /\ 0 \in Nat
    BY <2>1
  <2> HIDE DEF b, to
  <2>3. Slice(s, 0, to) = b
    BY <1>1, <2>1, <2>a, SliceIsPiece
  <2> QED
    BY <2>2, <2>3 DEF Protocol, b, to
<1>6. Hostname(s, o) = url.host
  BY <1>1, <1>2, <1>3, <1>4, SliceIsPiece DEF Hostname
<1>7. Port(s, o) = url.port
  <2>1. CASE url.port = <<>>
    <3>1. Len(Wrap(":", url.port)) = 0
      BY <2>1, EmptySeq DEF Wrap
    <3>2. PathAt(url) = PortAt(url) /\ Len(s) \in Nat
      BY <1>1, <1>2, <3>1, LenProperties
    <3> DEFINE from == IF o.port = NO_PORT THEN o.hostEnd ELSE o.hostEnd + 1
    <3>3. from \in Nat /\ o.pathStart <= from /\ o.pathStart \in Nat
      BY <1>1, <1>4, <3>2
    <3> HIDE DEF from
    <3>4. Slice(s, from, o.pathStart) = <<>>
      BY <3>2, <3>3, SliceEmpty
    <3> QED
      BY <2>1, <3>4 DEF Port, from
  <2>2. CASE url.port # <<>>
    <3> DEFINE b == url.port
               c == <<":">>
    <3>1. c \in Seq(Chars) /\ b \in Seq(Chars) /\ Len(c) = 1 /\ Wrap(":", b) = c \o b
      <4>1. ":" \in Chars
        BY DEF Chars, Delimiters
      <4>2. b = <<"0">> \/ b = <<"8080">>
        BY <2>2 DEF IsUrl, PortNumber
      <4>3. <<"0">> \in Seq(Chars) /\ <<"8080">> \in Seq(Chars)
        BY UrlAssumption DEF Chars, PortNumber
      <4>4. b \in Seq(Chars)
        BY <4>2, <4>3
      <4>5. c \in Seq(Chars) /\ Len(c) = 1
        BY <4>1
      <4>6. Wrap(":", b) = c \o b
        BY <2>2, Zenon DEF Wrap
      <4> QED
        BY <4>4, <4>5, <4>6
    <3> HIDE DEF b, c
    <3>2. PieceAt(s, PortAt(url) + 1, b)
      BY <1>1, <1>3, <3>1, PieceSplit DEF b
    <3>3. PathAt(url) = (PortAt(url) + 1) + Len(b)
      <4> DEFINE j == Len(b)
      <4>1. j \in Nat
        BY <3>1, LenProperties
      <4>2. PathAt(url) = PortAt(url) + (1 + j)
        <5>a. c \in Seq(Chars) /\ b \in Seq(Chars)
          BY <3>1
        <5>b. Len(c \o b) = Len(c) + Len(b)
          BY <5>a, ConcatProperties
        <5>1. Len(c \o b) = 1 + j
          BY <3>1, <5>b
        <5>2. Len(Wrap(":", url.port)) = 1 + j
          BY <3>1, <5>1 DEF b
        <5> QED
          BY <1>2, <5>2
      <4> HIDE DEF j
      <4>3. PathAt(url) = (PortAt(url) + 1) + j
        BY <1>1, <4>1, <4>2
      <4> QED
        BY <4>3 DEF j
    <3>4. PortAt(url) + 1 \in Nat
      BY <1>1
    <3>5. Slice(s, PortAt(url) + 1, PathAt(url)) = b
      BY <1>1, <3>1, <3>2, <3>3, <3>4, SliceIsPiece
    <3>6. Port(s, o) = Slice(s, PortAt(url) + 1, PathAt(url))
      BY <1>4, <2>2 DEF Port
    <3> QED
      BY <3>5, <3>6 DEF b
  <2> QED
    BY <2>1, <2>2
<1>8. Host(s, o) = url.host \o Wrap(":", url.port)
  <2> DEFINE b == url.host \o Wrap(":", url.port)
  <2>1. b \in Seq(Chars) /\ Len(b) = Len(url.host) + Len(Wrap(":", url.port))
    BY <1>1, ConcatProperties
  <2>2. PieceAt(s, HostAt(url), b)
    BY <1>1, <1>2, <1>3, PieceJoin
  <2>3. PathAt(url) = HostAt(url) + Len(b)
    <3> DEFINE i == Len(url.host)
               j == Len(Wrap(":", url.port))
    <3>1. i \in Nat /\ j \in Nat
      BY <1>1, LenProperties
    <3>2. PortAt(url) = HostAt(url) + i /\ PathAt(url) = PortAt(url) + j /\ Len(b) = i + j
      BY <1>2, <2>1
    <3> HIDE DEF i, j, b
    <3> QED
      BY <1>1, <3>1, <3>2
  <2> HIDE DEF b
  <2>4. Slice(s, HostAt(url), PathAt(url)) = b
    BY <1>1, <2>1, <2>2, <2>3, SliceIsPiece
  <2> QED
    BY <1>4, <2>4 DEF Host, b
<1> QED
  BY <1>5, <1>6, <1>7, <1>8

LEMMA CutPath ==
    ASSUME NEW url, IsUrl(url), NEW s, IsLaid(s, url), NEW o, Measures(o, url)
    PROVE  /\ Pathname(s, o) = url.path
           /\ Search(s, o) = Trim(TextOf("?", url.query))
           /\ Hash(s, o) = Trim(TextOf("#", url.fragment))
<1> DEFINE p == PathAt(url)
           q == QueryAt(url)
           f == FragmentAt(url)
           e == EndAt(url)
           t == TextOf("?", url.query)
           h == TextOf("#", url.fragment)
           i == Len(url.path)
           j == Len(t)
           k == Len(h)
<1>1. /\ s \in Seq(Chars) /\ url.path \in Seq(Chars) /\ t \in Seq(Chars) /\ h \in Seq(Chars)
      /\ p \in Nat /\ q \in Nat /\ f \in Nat /\ e \in Nat
  BY PartTypes, PlacesAreNumbers DEF IsLaid
<1>2. q = p + i /\ f = q + j /\ e = f + k /\ Len(s) = e
  BY DEF QueryAt, FragmentAt, EndAt, IsLaid
<1>3. PieceAt(s, p, url.path) /\ PieceAt(s, q, t) /\ PieceAt(s, f, h)
  BY DEF IsLaid
<1>4. /\ o.pathStart = p
      /\ o.queryStart = IF url.query = <<>> THEN 0 ELSE q
      /\ o.fragmentStart = IF url.fragment = <<>> THEN 0 ELSE f
  BY DEF Measures
<1>5. (url.query = <<>> => j = 0) /\ (url.fragment = <<>> => h = <<>> /\ k = 0)
  BY EmptySeq DEF TextOf
<1>6. i \in Nat /\ j \in Nat /\ k \in Nat
  BY <1>1, LenProperties
<1>7. p # 0
  <2> DEFINE v == Len(Authority(url))
             w == Len(UserInfo(url))
             x == Len(url.host)
             y == Len(Wrap(":", url.port))
  <2>1. v \in Nat /\ w \in Nat /\ x \in Nat /\ y \in Nat
    BY PartTypes, LenProperties
  <2>2. p = 2 + v + w + x + y
    BY DEF PathAt, PortAt, HostAt, UserAt
  <2> HIDE DEF p, v, w, x, y
  <2> QED
    BY <2>1, <2>2
<1> HIDE DEF p, q, f, e, t, h, i, j, k
<1> DEFINE a == o.queryStart
           b == o.fragmentStart
           n == Len(s)
<1>a. /\ a = (IF url.query = <<>> THEN 0 ELSE q) /\ b = (IF url.fragment = <<>> THEN 0 ELSE f)
      /\ n = e /\ q # 0 /\ f # 0
  BY <1>1, <1>2, <1>4, <1>6, <1>7
<1>b. /\ AfterPath(s, o) = Or(Or(a, b), n)
      /\ Or(o.fragmentStart, Len(s)) = Or(b, n)
  BY DEF AfterPath
<1> HIDE DEF a, b, n
<1>8. AfterPath(s, o) = q
  <2>1. CASE url.query # <<>>
    BY <1>a, <1>b, <2>1 DEF Or
  <2>2. CASE url.query = <<>> /\ url.fragment # <<>>
    <3>1. a = 0 /\ b = f /\ f = q /\ f # 0
      BY <1>a, <1>1, <1>2, <1>5, <1>6, <2>2
    <3> QED
      BY <1>b, <3>1 DEF Or
  <2>3. CASE url.query = <<>> /\ url.fragment = <<>>
    <3>1. a = 0 /\ b = 0 /\ n = q
      BY <1>a, <1>1, <1>2, <1>5, <1>6, <2>3
    <3> QED
      BY <1>b, <3>1 DEF Or
  <2> QED
    BY <2>1, <2>2, <2>3
<1>9. Or(o.fragmentStart, Len(s)) = f
  <2>1. CASE url.fragment # <<>>
    BY <1>a, <1>b, <2>1 DEF Or
  <2>2. CASE url.fragment = <<>>
    <3>1. b = 0 /\ n = f
      BY <1>a, <1>1, <1>2, <1>5, <1>6, <2>2
    <3> QED
      BY <1>b, <3>1 DEF Or
  <2> QED
    BY <2>1, <2>2
<1>10. Pathname(s, o) = url.path
  <2>1. Slice(s, p, q) = url.path
    <3> DEFINE path == url.path
    <3>1. /\ path \in Seq(Chars) /\ q = p + Len(path) /\ PieceAt(s, p, path)
          /\ s \in Seq(Chars) /\ p \in Nat /\ q \in Nat
      BY <1>1, <1>2, <1>3 DEF i
    <3> HIDE DEF path
    <3>2. Slice(s, p, q) = path
      BY <3>1, SliceIsPiece
    <3> QED
      BY <3>2 DEF path
  <2> QED
    BY <1>4, <1>8, <2>1 DEF Pathname
<1>11. Search(s, o) = Trim(t)
  <2>1. Slice(s, q, f) = t
    BY <1>1, <1>2, <1>3, SliceIsPiece DEF j
  <2> QED
    BY <1>8, <1>9, <2>1 DEF Search
<1>12. Hash(s, o) = Trim(h)
  <2>1. Slice(s, f, e) = h
    BY <1>1, <1>2, <1>3, SliceIsPiece DEF k
  <2>2. CASE url.fragment = <<>>
    BY <1>4, <1>5, <2>2, Zenon DEF Hash, Trim, k
  <2>3. CASE url.fragment # <<>>
    BY <1>2, <1>4, <1>a, <2>1, <2>3 DEF Hash
  <2> QED
    BY <2>2, <2>3
<1> QED
  BY <1>10, <1>11, <1>12 DEF t, h

\* The first of a piece is the first after its place.
LEMMA PieceFirst ==
    ASSUME NEW S, NEW s, NEW b \in Seq(S), b # <<>>, NEW from \in Nat, PieceAt(s, from, b)
    PROVE  s[from + 1] = b[1]
<1>1. Len(b) \in Nat /\ Len(b) # 0
  BY EmptySeq, LenProperties
<1>2. 1 \in 1 .. Len(b)
  BY <1>1
<1> QED
  BY <1>2 DEF PieceAt

LEMMA FirstIsHead == ASSUME NEW S, NEW c, NEW s \in Seq(S) PROVE (<<c>> \o s)[1] = c
<1> DEFINE T == S \cup {c}
           b == <<c>>
<1>1. s \in Seq(T) /\ b \in Seq(T) /\ Len(b) = 1 /\ b[1] = c
  OBVIOUS
<1> HIDE DEF b, T
<1>2. Len(s) \in Nat
  BY <1>1, LenProperties
<1>3. 1 \in 1 .. Len(b) + Len(s) /\ 1 <= Len(b)
  BY <1>1, <1>2
<1>4. (b \o s)[1] = b[1]
  BY <1>1, <1>3, ConcatProperties
<1> QED
  BY <1>1, <1>4 DEF b

LEMMA NoUserInfo ==
    ASSUME NEW url, url.username = <<>>, url.password = <<>>
    PROVE  UserInfo(url) = <<>>
<1>1. Wrap(":", url.password) = <<>>
  BY DEF Wrap
<1>2. <<>> \o <<>> = <<>>
  BY EmptySeq, ConcatEmptySeq
<1> QED
  BY <1>1, <1>2, Zenon DEF UserInfo

\* Where user and password are.
LEMMA UserPieces ==
    ASSUME NEW url, IsUrl(url), NEW s, IsLaid(s, url)
    PROVE  LET u == url.username
               w == url.password
               x == Wrap(":", w)
               v == UserAt(url) + Len(u)
           IN  /\ PieceAt(s, UserAt(url), u) /\ PieceAt(s, v, x)
               /\ (u # <<>> \/ w # <<>>) => PieceAt(s, v + Len(x), <<"@">>)
               /\ HostAt(url) = v + Len(x) + (IF u = <<>> /\ w = <<>> THEN 0 ELSE 1)
<1> DEFINE u == url.username
           w == url.password
           x == Wrap(":", w)
           a == UserAt(url)
           i == Len(u)
           j == Len(x)
           info == u \o x
           y == IF info = <<>> THEN <<>> ELSE <<"@">>
           k == Len(y)
<1>1. /\ u \in Seq(Chars) /\ w \in Seq(Chars) /\ x \in Seq(Chars) /\ s \in Seq(Chars)
      /\ a \in Nat /\ i \in Nat /\ j \in Nat
  BY PartTypes, PlacesAreNumbers, LenProperties DEF IsLaid
<1>2. PieceAt(s, a, UserInfo(url)) /\ UserInfo(url) = info \o y
  BY DEF IsLaid, UserInfo
<1>3. y \in Seq(Chars)
  <2>1. <<"@">> \in Seq(Chars) /\ <<>> \in Seq(Chars)
    BY EmptySeq DEF Chars, Delimiters
  <2> QED
    BY <2>1
<1>4. info = <<>> <=> u = <<>> /\ w = <<>>
  <2>1. x = <<>> <=> w = <<>>
    <3> DEFINE c == <<":">>
    <3>1. c \in Seq(Chars) /\ c # <<>> /\ x = IF w = <<>> THEN <<>> ELSE c \o w
      BY DEF Wrap, Chars, Delimiters
    <3> HIDE DEF c, x
    <3>2. c \o w # <<>>
      BY <1>1, <3>1, ConcatEqualIffEmpty
    <3> QED
      BY <3>1, <3>2
  <2> HIDE DEF u, x
  <2>2. info = <<>> <=> u = <<>> /\ x = <<>>
    BY <1>1, ConcatEqualIffEmpty
  <2> QED
    BY <2>1, <2>2
<1>5. (info # <<>> => y = <<"@">>) /\ k = IF info = <<>> THEN 0 ELSE 1
  <2>1. Len(<<"@">>) = 1 /\ Len(<<>>) = 0
    BY EmptySeq
  <2> HIDE DEF info
  <2> QED
    BY <2>1
<1> HIDE DEF u, x, y, a
<1>6. info \in Seq(Chars) /\ Len(info) = i + j
  BY <1>1, ConcatProperties
<1>7. Len(info \o y) = Len(info) + k
  <2> HIDE DEF info
  <2> QED
    BY <1>3, <1>6, ConcatProperties
<1>8. PieceAt(s, a, info) /\ PieceAt(s, a + Len(info), y)
  <2> HIDE DEF info
  <2> QED
    BY <1>1, <1>2, <1>3, <1>6, PieceSplit
<1>9. PieceAt(s, a, u) /\ PieceAt(s, a + i, x)
  BY <1>1, <1>8, PieceSplit
<1> HIDE DEF info, i, j, k
<1>10. a + Len(info) = (a + i) + j
  BY <1>1, <1>6
<1>11. HostAt(url) = (a + i) + j + k
  <2>1. HostAt(url) = a + ((i + j) + k)
    BY <1>2, <1>6, <1>7, Zenon DEF HostAt, a
  <2>2. k \in Nat
    BY <1>5
  <2> QED
    BY <1>1, <2>1, <2>2
<1>12. PieceAt(s, (a + i) + j, y)
  BY <1>8, <1>10
<1>13. k = IF u = <<>> /\ w = <<>> THEN 0 ELSE 1
  BY <1>4, <1>5
<1>14. (u # <<>> \/ w # <<>>) => PieceAt(s, (a + i) + j, <<"@">>)
  BY <1>4, <1>5, <1>12
<1> QED
  BY <1>9, <1>11, <1>13, <1>14, Zenon DEF u, w, x, a, i, j

\* What follows the host and its port begins with no ":", "/" or "@".
LEMMA AfterHost ==
    ASSUME NEW url, IsUrl(url), NEW s, IsLaid(s, url), PathAt(url) < Len(s)
    PROVE  s[PathAt(url) + 1] \notin {":", "/", "@"}
<1> DEFINE p == PathAt(url)
           q == QueryAt(url)
           f == FragmentAt(url)
           path == url.path
           t == TextOf("?", url.query)
           h == TextOf("#", url.fragment)
<1>1. /\ path \in Seq(Tokens) /\ t \in Seq(Chars) /\ h \in Seq(Chars)
      /\ p \in Nat /\ q \in Nat /\ f \in Nat
  BY PartTypes, PlacesAreNumbers DEF IsUrl
<1>2. /\ q = p + Len(path) /\ f = q + Len(t) /\ Len(s) = f + Len(h) /\ p < Len(s)
  BY DEF QueryAt, FragmentAt, EndAt, IsLaid
<1>3. PieceAt(s, p, path) /\ PieceAt(s, q, t) /\ PieceAt(s, f, h)
  BY DEF IsLaid
<1>4. \A c \in Tokens : c \notin {":", "/", "@"}
  BY UrlAssumption DEF Delimiters
<1>5. t # <<>> => t[1] = "?"
  <2> DEFINE x == IF url.query[1] = <<>> THEN <<>> ELSE <<"text">>
  <2>1. t = IF url.query = <<>> THEN <<>> ELSE <<"?">> \o x
    BY DEF TextOf
  <2>2. x \in Seq(Chars)
    <3>1. "text" \in Chars
      BY UrlAssumption DEF Chars
    <3>2. <<"text">> \in Seq(Chars) /\ <<>> \in Seq(Chars)
      BY <3>1, EmptySeq
    <3> QED
      BY <3>2
  <2> HIDE DEF x
  <2>3. (<<"?">> \o x)[1] = "?"
    BY <2>2, FirstIsHead
  <2> QED
    BY <2>1, <2>3
<1>6. h # <<>> => h[1] = "#"
  <2> DEFINE x == IF url.fragment[1] = <<>> THEN <<>> ELSE <<"text">>
  <2>1. h = IF url.fragment = <<>> THEN <<>> ELSE <<"#">> \o x
    BY DEF TextOf
  <2>2. x \in Seq(Chars)
    <3>1. "text" \in Chars
      BY UrlAssumption DEF Chars
    <3>2. <<"text">> \in Seq(Chars) /\ <<>> \in Seq(Chars)
      BY <3>1, EmptySeq
    <3> QED
      BY <3>2
  <2> HIDE DEF x
  <2>3. (<<"#">> \o x)[1] = "#"
    BY <2>2, FirstIsHead
  <2> QED
    BY <2>1, <2>3
<1> HIDE DEF p, q, f, path, t, h
<1>7. CASE path # <<>>
  <2>1. s[p + 1] = path[1]
    BY <1>1, <1>3, <1>7, PieceFirst
  <2>2. path[1] \in Tokens
    BY <1>1, <1>7, EmptySeq, LenProperties, ElementOfSeq
  <2> QED
    BY <1>4, <2>1, <2>2 DEF p
<1>8. CASE path = <<>> /\ t # <<>>
  <2>1. Len(path) = 0
    BY <1>8, EmptySeq
  <2>2. q = p
    BY <1>1, <1>2, <2>1
  <2>3. s[q + 1] = t[1]
    BY <1>1, <1>3, <1>8, PieceFirst
  <2> QED
    BY <1>5, <1>8, <2>2, <2>3 DEF p
<1>9. CASE path = <<>> /\ t = <<>> /\ h # <<>>
  <2>1. Len(path) = 0 /\ Len(t) = 0
    BY <1>9, EmptySeq
  <2>2. f = p
    BY <1>1, <1>2, <2>1
  <2>3. s[f + 1] = h[1]
    BY <1>1, <1>3, <1>9, PieceFirst
  <2> QED
    BY <1>6, <1>9, <2>2, <2>3 DEF p
<1>10. CASE path = <<>> /\ t = <<>> /\ h = <<>>
  <2>1. Len(path) = 0 /\ Len(t) = 0 /\ Len(h) = 0
    BY <1>10, EmptySeq
  <2>2. FALSE
    BY <1>1, <1>2, <2>1
  <2> QED
    BY <2>2
<1> QED
  BY <1>7, <1>8, <1>9, <1>10

LEMMA AuthorityIsSeen ==
    ASSUME NEW url, IsUrl(url), NEW s, IsLaid(s, url), NEW o, Measures(o, url)
    PROVE  HasAuthority(s, o) <=> url.authority
<1> DEFINE b == <<":", "/", "/">>
           c == Slice(s, 1, 4)
           n == Len(s)
<1>1. HasAuthority(s, o) <=> c = b
  <2>1. o.schemeEnd = 1 /\ 1 + 3 = 4
    BY DEF Measures
  <2> QED
    BY <2>1 DEF HasAuthority
<1>2. s \in Seq(Chars) /\ n \in Nat
  BY LenProperties DEF IsLaid
<1>3. b \in Seq(Chars) /\ Len(b) = 3 /\ b[1] = ":" /\ b[2] = "/" /\ b[3] = "/"
  BY DEF Chars, Delimiters
<1>4. PieceAt(s, 0, <<url.scheme, ":">>) /\ Len(<<url.scheme, ":">>) = 2
  BY PartTypes DEF IsLaid
<1>5. n >= 2 /\ s[2] = ":"
  BY <1>2, <1>4 DEF PieceAt
<1>6. CASE url.authority
  <2> DEFINE a == <<"/", "/">>
  <2>1. PieceAt(s, 2, a) /\ Len(a) = 2
    BY <1>6 DEF IsLaid, Authority
  <2>2. n >= 4 /\ s[3] = "/" /\ s[4] = "/"
    BY <1>2, <2>1 DEF PieceAt
  <2>3. PieceAt(s, 1, b)
    <3>1. ASSUME NEW i \in 1 .. 3 PROVE s[1 + i] = b[i]
      <4>1. i = 1 \/ i = 2 \/ i = 3
        OBVIOUS
      <4> QED
        BY <4>1, <1>3, <1>5, <2>2
    <3> HIDE DEF b
    <3> QED
      BY <3>1, <1>2, <1>3, <2>2 DEF PieceAt
  <2> DEFINE to == 4
  <2>4. to = 1 + Len(b) /\ to \in Nat /\ 1 \in Nat
    BY <1>3
  <2> HIDE DEF b, to
  <2>5. Slice(s, 1, to) = b
    BY <1>2, <1>3, <2>3, <2>4, SliceIsPiece
  <2> QED
    BY <1>1, <1>6, <2>5 DEF to
<1>7. CASE ~url.authority
  <2>1. SUFFICES ASSUME c = b PROVE FALSE
    BY <1>1, <1>7
  <2>2. n >= 3 /\ s[3] = "/"
    <3> DEFINE m == IF 4 < n THEN 4 ELSE n
    <3>1. c = SubSeq(s, 2, m)
      BY DEF Slice
    <3>2. m \in Int /\ 2 \in Int /\ 2 <= m /\ m <= n /\ m <= 4
      BY <1>2, <1>5
    <3> HIDE DEF m, b
    <3>3. \A i \in 2 .. m : s[i] \in Chars
      BY <1>2, <3>2, ElementOfSeq
    <3>4. Len(c) = m - 2 + 1 /\ \A i \in 1 .. m - 2 + 1 : c[i] = s[2 + i - 1]
      <4> HIDE DEF c, n
      <4> QED
        BY <3>1, <3>2, <3>3, SubSeqProperties
    <3>5. m - 2 + 1 = 3
      BY <2>1, <1>3, <3>4
    <3>6. c[2] = s[2 + 2 - 1]
      BY <3>4, <3>5
    <3> QED
      BY <2>1, <1>2, <1>3, <3>2, <3>5, <3>6
  <2>3. PathAt(url) = 2
    <3>1. url.host = <<>> /\ url.username = <<>> /\ url.password = <<>> /\ url.port = <<>>
      BY <1>7 DEF IsUrl
    <3>2. Authority(url) = <<>> /\ Wrap(":", url.port) = <<>>
      BY <1>7, <3>1 DEF Authority, Wrap
    <3>3. UserInfo(url) = <<>>
      BY <3>1, NoUserInfo
    <3>4. /\ Len(Authority(url)) = 0 /\ Len(UserInfo(url)) = 0 /\ Len(url.host) = 0
          /\ Len(Wrap(":", url.port)) = 0
      BY <3>1, <3>2, <3>3, EmptySeq
    <3> QED
      BY <3>4 DEF PathAt, PortAt, HostAt, UserAt
  <2>4. PathAt(url) < Len(s) /\ PathAt(url) + 1 = 3
    BY <1>2, <2>2, <2>3
  <2> QED
    BY <2>2, <2>4, AfterHost
<1> QED
  BY <1>6, <1>7

LEMMA CutUser ==
    ASSUME NEW url, IsUrl(url), NEW s, IsLaid(s, url), NEW o, Measures(o, url)
    PROVE  Username(s, o) = url.username /\ Password(s, o) = url.password
<1> DEFINE a == UserAt(url)
           u == url.username
           w == url.password
           v == a + Len(u)
           n == Len(s)
<1>1. /\ HasAuthority(s, o) <=> url.authority
      /\ o.schemeEnd = 1 /\ o.usernameEnd = v /\ o.hostStart = HostAt(url)
  BY AuthorityIsSeen DEF Measures
<1>2. /\ s \in Seq(Chars) /\ n \in Nat /\ a \in Nat /\ u \in Seq(Chars) /\ w \in Seq(Chars)
      /\ Len(u) \in Nat /\ Len(w) \in Nat /\ HostAt(url) \in Nat
  BY PartTypes, PlacesAreNumbers, LenProperties DEF IsLaid
<1>3. CASE ~url.authority
  BY <1>1, <1>3 DEF Username, Password, IsUrl
<1>4. CASE url.authority
  <2>1. a = 4 /\ v \in Nat
    <3>1. Len(Authority(url)) = 2
      <4>1. Len(<<"/", "/">>) = 2
        OBVIOUS
      <4> QED
        BY <4>1, <1>4 DEF Authority
    <3>2. a = 4
      BY <3>1 DEF UserAt
    <3> HIDE DEF a, u
    <3> QED
      BY <3>2, <1>2
  <2>2. /\ PieceAt(s, a, u) /\ PieceAt(s, v, Wrap(":", w))
        /\ (u # <<>> \/ w # <<>>) => PieceAt(s, v + Len(Wrap(":", w)), <<"@">>)
        /\ HostAt(url) = v + Len(Wrap(":", w)) + (IF u = <<>> /\ w = <<>> THEN 0 ELSE 1)
    BY UserPieces
  <2> DEFINE x == Wrap(":", w)
  <2>3. x \in Seq(Chars) /\ Len(x) \in Nat
    BY PartTypes, LenProperties
  <2>4. Username(s, o) = u
    <3>1. Slice(s, a, v) = u
      <4> HIDE DEF u, a
      <4> QED
        BY <1>2, <2>1, <2>2, SliceIsPiece
    <3>2. CASE u = <<>>
      <4>1. Len(u) = 0
        BY <3>2, EmptySeq
      <4>2. ~(v > 4)
        <5> HIDE DEF u, a
        <5> QED
          BY <2>1, <4>1
      <4> QED
        BY <1>1, <3>2, <4>2 DEF Username
    <3>3. CASE u # <<>>
      <4>1. Len(u) # 0
        BY <1>2, <3>3, EmptySeq
      <4>2. v > 1 + 3 /\ 1 + 3 = a
        <5> HIDE DEF u, a
        <5> QED
          BY <1>2, <2>1, <4>1
      <4> HIDE DEF u, a, v
      <4> QED
        BY <1>1, <1>4, <3>1, <4>2 DEF Username
    <3> QED
      BY <3>2, <3>3
  <2>5. CASE w # <<>>
    <3> DEFINE c == <<":">>
               from == v + 1
               to == HostAt(url) - 1
               l == Len(w)
    <3>1. c \in Seq(Chars) /\ Len(c) = 1 /\ x = c \o w
      BY <2>5 DEF Wrap, Chars, Delimiters
    <3>2. Len(x) = 1 + l /\ x[1] = ":"
      <4>1. Len(c \o w) = Len(c) + Len(w)
        BY <1>2, <3>1, ConcatProperties
      <4>2. x[1] = ":"
        BY <1>2, <2>5, FirstIsHead, Zenon DEF Wrap
      <4> QED
        BY <3>1, <4>1, <4>2
    <3> HIDE DEF x, c, w, u, v, a, n, l
    <3>3. PieceAt(s, v, c) /\ PieceAt(s, from, w)
      <4>1. PieceAt(s, v, c \o w)
        BY <2>2, <3>1 DEF x
      <4>2. PieceAt(s, v, c) /\ PieceAt(s, v + Len(c), w)
        BY <4>1, <1>2, <2>1, <3>1, PieceSplit
      <4> QED
        BY <4>2, <3>1
    <3>4. HostAt(url) = v + (1 + l) + 1
      BY <2>2, <2>5, <3>2 DEF x
    <3>5. l \in Nat /\ to \in Nat /\ from \in Nat /\ to = from + l
      <4>1. l \in Nat
        BY <1>2 DEF l
      <4> QED
        BY <4>1, <2>1, <3>4
    <3> HIDE DEF from, to
    <3>6. Slice(s, from, to) = w
      BY <1>2, <3>3, <3>5, SliceIsPiece DEF l
    <3>7. v < n /\ s[v + 1] = ":"
      BY <2>1, <1>2, <3>1, <3>3, PieceFirst DEF PieceAt, c, n
    <3>8. o.usernameEnd # Len(s) /\ s[o.usernameEnd + 1] = ":"
      BY <1>1, <1>2, <2>1, <3>7 DEF n
    <3>9. Slice(s, o.usernameEnd + 1, o.hostStart - 1) = w
      BY <1>1, <3>6 DEF from, to
    <3>10. Password(s, o) = w
      BY <1>1, <1>4, <3>8, <3>9, Zenon DEF Password
    <3> QED
      BY <2>4, <3>10 DEF u, w
  <2>6. CASE w = <<>>
    <3>1. x = <<>> /\ Len(x) = 0
      BY <2>6, EmptySeq DEF Wrap
    <3>2. ASSUME v # n PROVE s[v + 1] # ":"
      <4>1. CASE u # <<>>
        <5> DEFINE y == <<"@">>
        <5>1. y \in Seq(Chars) /\ y # <<>> /\ y[1] = "@"
          BY DEF Chars, Delimiters
        <5>2. v + Len(x) = v
          <6> HIDE DEF v, x
          <6> QED
            BY <2>1, <3>1
        <5> HIDE DEF y, v, x
        <5>3. PieceAt(s, v, y)
          BY <2>2, <4>1, <5>2 DEF y, x
        <5>4. s[v + 1] = "@"
          BY <2>1, <5>1, <5>3, PieceFirst
        <5> QED
          BY <5>4
      <4>2. CASE u = <<>> /\ url.host # <<>>
        <5>1. HostAt(url) = v
          <6> HIDE DEF v, x
          <6> QED
            BY <2>1, <2>2, <2>6, <3>1, <4>2 DEF x
        <5> DEFINE y == url.host
        <5>2. PieceAt(s, HostAt(url), y) /\ y \in Seq(Tokens) /\ y # <<>>
          BY <4>2 DEF IsLaid, IsUrl
        <5> HIDE DEF y
        <5>3. s[HostAt(url) + 1] = y[1] /\ y[1] \in Tokens
          BY <1>2, <5>2, PieceFirst, EmptySeq, LenProperties, ElementOfSeq
        <5>4. ":" \notin Tokens
          BY UrlAssumption DEF Delimiters
        <5> HIDE DEF v
        <5> QED
          BY <5>1, <5>3, <5>4
      <4>3. CASE u = <<>> /\ url.host = <<>>
        <5>1. url.port = <<>>
          BY <4>3 DEF IsUrl
        <5>2. Wrap(":", url.port) = <<>>
          BY <5>1 DEF Wrap
        <5>3. Len(url.host) = 0 /\ Len(Wrap(":", url.port)) = 0
          BY <4>3, <5>2, EmptySeq
        <5>4. HostAt(url) = v
          <6> HIDE DEF v, x
          <6> QED
            BY <2>1, <2>2, <2>6, <3>1, <4>3 DEF x
        <5>5. PathAt(url) = v
          <6> HIDE DEF v
          <6> QED
            BY <2>1, <5>3, <5>4 DEF PathAt, PortAt
        <5>6. v < n
          <6>1. PieceAt(s, PathAt(url), url.path) /\ Len(url.path) \in Nat
            BY PartTypes, LenProperties DEF IsLaid
          <6>2. v <= n
            <7> HIDE DEF v
            <7> QED
              BY <6>1, <5>5, <2>1, <1>2 DEF PieceAt
          <6> HIDE DEF v, n
          <6> QED
            BY <6>2, <3>2, <2>1, <1>2
        <5>7. s[PathAt(url) + 1] \notin {":", "/", "@"}
          BY <5>5, <5>6, AfterHost
        <5> HIDE DEF v
        <5> QED
          BY <5>5, <5>7
      <4> QED
        BY <4>1, <4>2, <4>3
    <3> HIDE DEF v, n
    <3>3. Password(s, o) = <<>>
      BY <1>1, <3>2, Zenon DEF Password, n
    <3> QED
      BY <2>4, <2>6, <3>3
  <2> QED
    BY <2>5, <2>6
<1> QED
  BY <1>3, <1>4

LEMMA JoinOne ==
    ASSUME NEW S, NEW c \in S, NEW s \in Seq(S), NEW t \in Seq(S),
           Len(t) = 1 + Len(s), t[1] = c, \A i \in 1 .. Len(s) : t[1 + i] = s[i]
    PROVE  <<c>> \o s = t
<1> DEFINE b == <<c>>
           n == Len(s)
           bs == b \o s
<1>1. b \in Seq(S) /\ Len(b) = 1 /\ b[1] = c /\ n \in Nat
  BY LenProperties
<1> HIDE DEF b
<1>2. /\ bs \in Seq(S) /\ Len(bs) = 1 + n
      /\ \A i \in 1 .. 1 + n : bs[i] = IF i <= 1 THEN b[i] ELSE s[i - 1]
  <2> DEFINE k == Len(b)
  <2>1. /\ bs \in Seq(S) /\ Len(bs) = k + n
        /\ \A i \in 1 .. k + n : bs[i] = IF i <= k THEN b[i] ELSE s[i - k]
    BY <1>1, ConcatProperties
  <2>2. k = 1
    BY <1>1
  <2> HIDE DEF k, bs, n
  <2> QED
    BY <2>1, <2>2
<1> HIDE DEF bs
<1>3. ASSUME NEW i \in 1 .. 1 + n PROVE bs[i] = t[i]
  <2>1. CASE i = 1
    BY <2>1, <1>1, <1>2
  <2>2. CASE i # 1
    <3>1. i - 1 \in 1 .. n /\ 1 + (i - 1) = i /\ ~(i <= 1)
      BY <1>1, <2>2
    <3>2. bs[i] = s[i - 1] /\ t[1 + (i - 1)] = s[i - 1]
      BY <1>2, <3>1
    <3> QED
      BY <3>1, <3>2
  <2> QED
    BY <2>1, <2>2
<1>4. bs = t
  BY <1>2, <1>3, SeqEqual DEF n
<1> QED
  BY <1>4 DEF bs, b

LEMMA CutOrigin ==
    ASSUME NEW url, IsUrl(url), NEW s, IsLaid(s, url), NEW o, Measures(o, url), Network(url)
    PROVE  Origin(s, o) = <<url.scheme, ":", "/", "/">> \o Host(s, o)
<1> DEFINE b == <<url.scheme>>
           c == <<":">>
           to == 0 + 1
<1>1. s \in Seq(Chars) /\ PieceAt(s, 0, <<url.scheme, ":">>) /\ o.schemeEnd = 1
  BY DEF IsLaid, Measures
<1>2. url.scheme \in Chars /\ ":" \in Chars
  BY DEF IsUrl, Chars, Delimiters
<1>3. b \in Seq(Chars) /\ c \in Seq(Chars) /\ Len(b) = 1 /\ b \o c = <<url.scheme, ":">>
  <2>1. b \in Seq(Chars) /\ Len(b) = 1
    BY <1>2
  <2>2. c \in Seq(Chars)
    BY <1>2
  <2>3. b \o c = <<url.scheme, ":">>
    <3> DEFINE t == <<url.scheme, ":">>
    <3>1. /\ t \in Seq(Chars) /\ Len(t) = 1 + 1 /\ t[1] = url.scheme /\ t[1 + 1] = ":"
          /\ Len(c) = 1 /\ c[1] = ":"
      BY <1>2
    <3> HIDE DEF t, c
    <3>2. \A i \in 1 .. Len(c) : t[1 + i] = c[i]
      BY <3>1
    <3>3. Len(t) = 1 + Len(c)
      BY <3>1
    <3>4. b \o c = t
      BY <1>2, <2>2, <3>1, <3>2, <3>3, JoinOne
    <3> QED
      BY <3>4 DEF t
  <2> QED
    BY <2>1, <2>2, <2>3
<1>4. to \in Nat /\ 0 \in Nat /\ to = 0 + Len(b)
  BY <1>3
<1> HIDE DEF c
<1>5. PieceAt(s, 0, b)
  <2> HIDE DEF b
  <2> QED
    BY <1>1, <1>3, <1>4, PieceSplit
<1>6. Slice(s, 0, o.schemeEnd) = b
  <2>1. to = o.schemeEnd
    BY <1>1
  <2> HIDE DEF b, to
  <2>2. Slice(s, 0, to) = b
    BY <1>1, <1>3, <1>4, <1>5, SliceIsPiece
  <2> QED
    BY <2>1, <2>2
<1>7. b \in {<<"http">>, <<"ws">>}
  BY DEF Network
<1>8. b \o <<":", "/", "/">> = <<url.scheme, ":", "/", "/">>
  <2> DEFINE t == <<url.scheme, ":", "/", "/">>
             d == <<":", "/", "/">>
  <2>1. "/" \in Chars
    BY DEF Chars, Delimiters
  <2>2. /\ t \in Seq(Chars) /\ Len(t) = 4 /\ t[1] = url.scheme /\ t[2] = ":"
        /\ t[3] = "/" /\ t[4] = "/"
    BY <1>2, <2>1
  <2>3. d \in Seq(Chars) /\ Len(d) = 3 /\ d[1] = ":" /\ d[2] = "/" /\ d[3] = "/"
    BY <1>2, <2>1
  <2> HIDE DEF t, d
  <2>4. ASSUME NEW i \in 1 .. Len(d) PROVE t[1 + i] = d[i]
    <3>1. i = 1 \/ i = 2 \/ i = 3
      BY <2>3
    <3> QED
      BY <3>1, <2>2, <2>3
  <2>5. Len(t) = 1 + Len(d)
    BY <2>2, <2>3
  <2>6. b \o d = t
    BY <1>2, <2>2, <2>3, <2>4, <2>5, JoinOne
  <2> QED
    BY <2>6 DEF t, d
<1> HIDE DEF b
<1> QED
  BY <1>6, <1>7, <1>8, Zenon DEF Origin

\* The getters give the components of a URL that is measured by its offsets.
LEMMA GettersCut ==
    ASSUME NEW url, IsUrl(url), NEW o, Measures(o, url)
    PROVE  LET s == Text(url) IN
           /\ Protocol(s, o) = <<url.scheme, ":">>
           /\ Username(s, o) = url.username /\ Password(s, o) = url.password
           /\ Hostname(s, o) = url.host /\ Port(s, o) = url.port
           /\ Host(s, o) = url.host \o Wrap(":", url.port)
           /\ Pathname(s, o) = url.path
           /\ Search(s, o) = Trim(TextOf("?", url.query))
           /\ Hash(s, o) = Trim(TextOf("#", url.fragment))
           /\ Network(url) => Origin(s, o) = <<url.scheme, ":", "/", "/">> \o Host(s, o)
<1> DEFINE s == Text(url)
<1>1. IsLaid(s, url)
  BY Layout
<1> HIDE DEF s
<1>2. /\ Protocol(s, o) = <<url.scheme, ":">>
      /\ Hostname(s, o) = url.host /\ Port(s, o) = url.port
      /\ Host(s, o) = url.host \o Wrap(":", url.port)
  BY <1>1, CutPort
<1>3. /\ Pathname(s, o) = url.path
      /\ Search(s, o) = Trim(TextOf("?", url.query))
      /\ Hash(s, o) = Trim(TextOf("#", url.fragment))
  BY <1>1, CutPath
<1>4. Username(s, o) = url.username /\ Password(s, o) = url.password
  BY <1>1, CutUser
<1>5. Network(url) => Origin(s, o) = <<url.scheme, ":", "/", "/">> \o Host(s, o)
  BY <1>1, CutOrigin
<1> QED
  BY <1>2, <1>3, <1>4, <1>5, Zenon DEF s

\* A search that is sliced with the offsets of its own URL gives the pairs of the
\* query; in any case it gives a list.
LEMMA OwnSearchLists ==
    ASSUME NEW url, IsUrl(url), NEW noPort
    PROVE  SearchLists(url, Offsets(url, noPort)) = {Pairs(url.query)}
<1> DEFINE o == Offsets(url, noPort)
<1>1. Measures(o, url)
  BY OffsetsMeasure
<1> HIDE DEF o
<1>2. Search(Text(url), o) = Trim(TextOf("?", url.query))
  BY <1>1, GettersCut, Zenon
<1> QED
  BY <1>2, Zenon DEF SearchLists, o

LEMMA SearchListsType ==
    ASSUME NEW url, IsUrl(url), NEW o, NEW list \in SearchLists(url, o)
    PROVE  list \in Seq(Pair)
<1>1. list = Pairs(url.query) \/ list = <<>> \/ list \in BoundedSeq(Pair, MaxPairs)
  BY DEF SearchLists
<1>2. CASE list \in BoundedSeq(Pair, MaxPairs)
  <2>1. PICK n \in 0 .. MaxPairs : list \in [1 .. n -> Pair]
    BY <1>2 DEF BoundedSeq, SeqOf
  <2>2. n \in Nat
    BY <2>1, UrlAssumption
  <2> QED
    BY <2>1, <2>2, IsASeq
<1>3. Pairs(url.query) \in Seq(Pair) /\ <<>> \in Seq(Pair)
  BY PairsType, EmptySeq DEF IsUrl
<1> QED
  BY <1>1, <1>2, <1>3

-----------------------------------------------------------------------------
(* The invariant.                                                           *)

\* A walk that nothing disturbed has visited the names before its index.
Visited(w, list) ==
    /\ Len(w.visited) = w.index - 1 /\ w.visited \in Seq(Names)
    /\ w.index - 1 <= Len(list)
    /\ \A i \in 1 .. w.index - 1 : w.visited[i] = list[i].name

IsWalk(w, p) ==
    /\ w = [index |-> w.index, visited |-> w.visited, moved |-> w.moved]
    /\ w.index \in Nat
    /\ p = <<>> => w.index = 0
    /\ p # <<>> /\ w.index # 0 /\ ~w.moved => Visited(w, p[1])

IsObject(x) ==
    /\ x = [serialization |-> x.serialization, offsets |-> x.offsets,
            params |-> x.params, walk |-> x.walk]
    /\ IsUrl(x.serialization)
    /\ IsParams(x.params)
    /\ IsWalk(x.walk, x.params)

\* As long as no user code runs between an op and the reads of what it leaves, the
\* list is that of the query, and the offsets of a URL those of its serialization.
InSync(x) == ~Subclass /\ x.params # <<>> => x.params[1] = Pairs(x.serialization.query)

Measured(x) == \E noPort \in {0, NO_PORT} : x.offsets = Offsets(x.serialization, noPort)

AllMeasured == \A u \in urls : Measured(object[u])

IsSlot(s) == s = <<>> \/ \E url : s = <<url>> /\ IsUrl(url)

Frames == [object : Objects, text : {t \in Texts : t.status # "invalid"}]

UrlInv ==
    /\ object = [u \in Objects |-> object[u]]
    /\ \A u \in Objects : IsObject(object[u])
    /\ urls \subseteq Objects
    /\ \A u \in urls : InSync(object[u])
    /\ IsSlot(slot)
    /\ stack \in Seq(Frames)

LEMMA NoWalkIsWalk == ASSUME NEW p PROVE p = <<>> => IsWalk(NoWalk, p)
BY DEF NoWalk, IsWalk

\* An object gets a new value; everything else may be left alone or not.
LEMMA PutKeeps ==
    ASSUME UrlInv, NEW u \in Objects, NEW x, object' = [object EXCEPT ![u] = x],
           IsObject(x), urls' \in {urls, urls \cup {u}}, u \in urls' => InSync(x),
           IsSlot(slot'), stack' \in Seq(Frames)
    PROVE  UrlInv'
<1>1. /\ object = [v \in Objects |-> object[v]]
      /\ \A v \in Objects : IsObject(object[v])
      /\ \A v \in urls : InSync(object[v])
      /\ urls \subseteq Objects
  BY DEF UrlInv
<1>2. /\ object'[u] = x /\ \A v \in Objects \ {u} : object'[v] = object[v]
      /\ DOMAIN object' = Objects
  BY <1>1
<1>3. object' = [v \in Objects |-> object'[v]]
  BY <1>1
<1>4. ASSUME NEW v \in Objects PROVE IsObject(object'[v])
  BY <1>1, <1>2, Zenon
<1>5. ASSUME NEW v \in urls' PROVE InSync(object'[v])
  <2>1. CASE v = u
    BY <2>1, <1>2, <1>5, Zenon
  <2>2. CASE v # u
    <3>1. v \in urls /\ v \in Objects
      BY <2>2, <1>1, <1>5
    <3> QED
      BY <3>1, <2>2, <1>1, <1>2, Zenon
  <2> QED
    BY <2>1, <2>2
<1>6. urls' \subseteq Objects
  BY <1>1
<1> HIDE DEF InSync
<1> QED
  BY <1>3, <1>4, <1>5, <1>6, Zenon DEF UrlInv

\* A walk goes on over a list that was changed.
LEMMA WalkOverKeeps ==
    ASSUME NEW w, NEW p, NEW q, IsWalk(w, p), IsParams(p), IsParams(q), p # <<>> => q # <<>>
    PROVE  IsWalk(WalkOver(w, p, q), q)
<1>1. CASE w.index = 0
  <2>1. WalkOver(w, p, q) = w
    BY <1>1 DEF WalkOver
  <2> QED
    BY <1>1, <2>1 DEF IsWalk
<1>2. CASE w.index # 0
  <2> DEFINE r == p[1]
             s == q[1]
  <2>1. p # <<>> /\ q # <<>>
    BY <1>2 DEF IsWalk
  <2>2. r \in Seq(Pair) /\ s \in Seq(Pair)
    BY <2>1, ParamsCases
  <2>3. /\ DOMAIN r = 1 .. Len(r) /\ Len(r) \in Nat /\ \A i \in 1 .. Len(r) : r[i] \in Pair
        /\ DOMAIN s = 1 .. Len(s) /\ Len(s) \in Nat /\ \A i \in 1 .. Len(s) : s[i] \in Pair
    BY <2>2, LenProperties, ElementOfSeq
  <2> HIDE DEF r, s
  <2>4. CASE IsPrefix(NamesOf(r), NamesOf(s))
    <3> DEFINE a == NamesOf(r)
               b == NamesOf(s)
    <3>1. /\ a \in Seq(Names) /\ Len(a) = Len(r) /\ \A i \in 1 .. Len(r) : a[i] = r[i].name
          /\ b \in Seq(Names) /\ Len(b) = Len(s) /\ \A i \in 1 .. Len(s) : b[i] = s[i].name
      <4>1. a \in [1 .. Len(r) -> Names] /\ b \in [1 .. Len(s) -> Names]
        BY <2>3 DEF NamesOf, Pair
      <4>2. \A i \in 1 .. Len(r) : a[i] = r[i].name
        BY <2>3 DEF NamesOf
      <4>3. \A i \in 1 .. Len(s) : b[i] = s[i].name
        BY <2>3 DEF NamesOf
      <4> HIDE DEF a, b
      <4> QED
        BY <4>1, <4>2, <4>3, <2>3, IsASeq, LenProperties
    <3> HIDE DEF a, b
    <3>2. Len(a) <= Len(b) /\ SubSeq(a, 1, Len(a)) = SubSeq(b, 1, Len(a))
      BY <2>4 DEF IsPrefix, a, b
    <3>3. \A i \in 1 .. Len(a) : a[i] = b[i]
      <4> DEFINE n == Len(a)
      <4>1. n \in Nat /\ n <= Len(b) /\ 1 \in Int /\ n \in Int
        BY <2>3, <3>1, <3>2
      <4>2. /\ \A i \in 1 .. n : a[i] \in Names
            /\ \A i \in 1 .. n : b[i] \in Names
        BY <2>3, <3>1, <4>1, ElementOfSeq
      <4> HIDE DEF n
      <4>3. \A i \in 1 .. n - 1 + 1 : SubSeq(a, 1, n)[i] = a[1 + i - 1]
        BY <4>1, <4>2, SubSeqProperties
      <4>4. \A i \in 1 .. n - 1 + 1 : SubSeq(b, 1, n)[i] = b[1 + i - 1]
        BY <4>1, <4>2, SubSeqProperties
      <4>5. SubSeq(a, 1, n) = SubSeq(b, 1, n)
        BY <3>2 DEF n
      <4>6. ASSUME NEW i \in 1 .. n PROVE a[i] = b[i]
        <5>1. i \in 1 .. n - 1 + 1 /\ 1 + i - 1 = i
          BY <4>1
        <5> QED
          BY <5>1, <4>3, <4>4, <4>5
      <4> QED
        BY <4>6 DEF n
    <3>4. WalkOver(w, p, q) = w
      BY <2>4 DEF WalkOver, r, s
    <3>5. ASSUME ~w.moved PROVE Visited(w, s)
      <4>1. Visited(w, r)
        BY <1>2, <2>1, <3>5 DEF IsWalk, r
      <4>2. w.index \in Nat
        BY DEF IsWalk
      <4>3. w.index - 1 <= Len(s)
        BY <4>1, <4>2, <2>3, <3>1, <3>2 DEF Visited
      <4>4. ASSUME NEW i \in 1 .. w.index - 1 PROVE w.visited[i] = s[i].name
        <5>1. i \in 1 .. Len(r) /\ i \in 1 .. Len(s)
          BY <4>1, <4>2, <4>3, <2>3 DEF Visited
        <5>2. a[i] = b[i] /\ a[i] = r[i].name /\ b[i] = s[i].name
          BY <5>1, <3>1, <3>3
        <5> QED
          BY <5>2, <4>1 DEF Visited
      <4> QED
        BY <4>1, <4>3, <4>4 DEF Visited
    <3> QED
      BY <2>1, <3>4, <3>5, Zenon DEF IsWalk, s
  <2>5. CASE ~IsPrefix(NamesOf(r), NamesOf(s))
    <3> DEFINE y == [w EXCEPT !.moved = TRUE]
    <3>1. WalkOver(w, p, q) = y
      BY <1>2, <2>1, <2>5 DEF WalkOver, r, s
    <3> DEFINE a == w.index
               b == w.visited
               c == w.moved
    <3>a. w = [index |-> a, visited |-> b, moved |-> c]
      BY DEF IsWalk
    <3> HIDE DEF a, b, c
    <3>b. y = [index |-> a, visited |-> b, moved |-> TRUE]
      <4> DEFINE t == TRUE
      <4>1. y = [w EXCEPT !.moved = t]
        OBVIOUS
      <4> HIDE DEF t, y
      <4>2. y = [index |-> a, visited |-> b, moved |-> t]
        BY <3>a, <4>1
      <4> QED
        BY <4>2, Zenon DEF t
    <3>c. y.index = a /\ y.visited = b /\ y.moved = TRUE
      BY <3>b
    <3>2. /\ y = [index |-> y.index, visited |-> y.visited, moved |-> y.moved]
          /\ y.index = w.index
      BY <3>b, <3>c DEF a
    <3>3. y.moved = TRUE
      BY <3>c
    <3>4. w.index \in Nat
      BY DEF IsWalk
    <3> HIDE DEF y
    <3>5. IsWalk(y, q)
      BY <2>1, <3>2, <3>3, <3>4, Zenon DEF IsWalk
    <3> QED
      BY <3>1, <3>5
  <2> QED
    BY <2>4, <2>5
<1> QED
  BY <1>1, <1>2

\* After an op that succeeded, the object has the serialization the op made.
LEMMA OwnSlot ==
    ASSUME NEW status \in {"same", "changed"}, NEW url, IsUrl(url), IsSlot(slot),
           NEW held, held = IF status = "changed" THEN <<url>> ELSE slot
    PROVE  /\ Serialization(status, url, held) = url
           /\ IsSlot(Taken(status, held))
<1>1. IsSlot(<<>>)
  BY DEF IsSlot
<1> QED
  BY <1>1 DEF Serialization, Taken

\* A URL object after an op is a URL object.
LEMMA NewFields ==
    ASSUME NEW x, NEW url, IsUrl(url), NEW offsets, NEW params, IsParams(params),
           NEW walk, IsWalk(walk, params),
           ~Subclass /\ params # <<>> => params[1] = Pairs(url.query),
           x = [serialization |-> url, offsets |-> offsets, params |-> params, walk |-> walk]
    PROVE  IsObject(x) /\ InSync(x)
<1>1. /\ x = [serialization |-> x.serialization, offsets |-> x.offsets,
              params |-> x.params, walk |-> x.walk]
      /\ x.serialization = url /\ x.params = params /\ x.walk = walk
  OBVIOUS
<1> QED
  BY <1>1, Zenon DEF IsObject, InSync

LEMMA ReparseKeeps ==
    ASSUME UrlInv, NEW u \in urls, NEW url, IsUrl(url), NEW params, IsParams(params),
           object[u].params # <<>> => params # <<>>,
           ~Subclass /\ params # <<>> => params[1] = Pairs(url.query),
           Reparse(u, url, params)
    PROVE  UrlInv'
<1> DEFINE href == object[u].serialization
           status == IF url = href THEN "same" ELSE "changed"
           held == IF status = "changed" THEN <<url>> ELSE slot
           w == WalkOver(object[u].walk, object[u].params, params)
           op == opUrlReparse(href, url)
           x == Fields(op, href, params, w)
<1>1. u \in Objects /\ IsSlot(slot) /\ stack \in Seq(Frames)
  BY DEF UrlInv
<1>2. IsObject(object[u])
  BY <1>1 DEF UrlInv
<1>3. IsWalk(w, params)
  <2>1. IsWalk(object[u].walk, object[u].params) /\ IsParams(object[u].params)
    BY <1>2 DEF IsObject
  <2> QED
    BY <2>1, WalkOverKeeps
<1>4. op.status = status /\ op.slot = held
  BY DEF opUrlReparse, Op
<1>5. status \in {"same", "changed"} /\ (status = "same" => url = href)
  OBVIOUS
<1>6. /\ Reparse(u, url, params) <=>
           /\ object' = [object EXCEPT ![u] = x]
           /\ buf' = op.buf /\ slot' = Taken(op.status, op.slot)
           /\ UNCHANGED <<stack, panicked>>
           /\ UNCHANGED urls
  BY DEF Reparse, Apply
<1>7. x = [serialization |-> Serialization(op.status, href, op.slot), offsets |-> op.buf,
           params |-> params, walk |-> w]
  BY DEF Fields
<1> DEFINE b == op.buf
<1> HIDE DEF w, op, x, b
<1>8. Serialization(status, url, held) = url /\ IsSlot(Taken(status, held))
  BY <1>1, <1>5, OwnSlot
<1>9. Serialization(status, href, held) = Serialization(status, url, held)
  BY <1>5 DEF Serialization
<1>10. x = [serialization |-> url, offsets |-> b, params |-> params, walk |-> w]
  BY <1>4, <1>7, <1>8, <1>9 DEF b
<1>11. IsObject(x) /\ InSync(x)
  BY <1>3, <1>10, NewFields
<1>12. object' = [object EXCEPT ![u] = x] /\ IsSlot(slot') /\ stack' = stack /\ urls' = urls
  BY <1>4, <1>6, <1>8
<1> QED
  BY <1>1, <1>11, <1>12, PutKeeps

LEMMA AssignKeeps ==
    ASSUME UrlInv, NEW u \in Objects, NEW url,
           u \in urls => IsUrl(url) /\ url.query = object[u].serialization.query,
           Assign(u, url)
    PROVE  UrlInv'
<1>1. u \in urls /\ Reparse(u, url, object[u].params)
  BY DEF Assign
<1>2. IsObject(object[u]) /\ InSync(object[u])
  BY <1>1 DEF UrlInv
<1>3. /\ IsParams(object[u].params) /\ IsUrl(url)
      /\ ~Subclass /\ object[u].params # <<>> => object[u].params[1] = Pairs(url.query)
  BY <1>1, <1>2 DEF IsObject, InSync
<1> QED
  BY <1>1, <1>3, ReparseKeeps

\* The setters of a component leave a URL, and its query.
LEMMA SettersKeepUrl ==
    ASSUME NEW href, IsUrl(href)
    PROVE  /\ \A f \in {<<>>, <<<<"text">>>>} :
                 LET url == [href EXCEPT !.fragment = f]
                 IN  IsUrl(url) /\ url.query = href.query
           /\ \A h \in Hosts : href.authority =>
                 LET url == [href EXCEPT !.host = <<h>>]
                 IN  IsUrl(url) /\ url.query = href.query
           /\ \A h \in Hosts, p \in {<<>>, <<"0">>} : href.authority =>
                 LET url == [href EXCEPT !.host = <<h>>, !.port = p]
                 IN  IsUrl(url) /\ url.query = href.query
           /\ \A c \in Optional("user") : MayHaveUser(href) =>
                 LET url == [href EXCEPT !.username = c]
                 IN  IsUrl(url) /\ url.query = href.query
           /\ \A c \in Optional("secret") : MayHaveUser(href) =>
                 LET url == [href EXCEPT !.password = c]
                 IN  IsUrl(url) /\ url.query = href.query
           /\ \A p \in {<<>>, <<"0">>} : MayHaveUser(href) =>
                 LET url == [href EXCEPT !.port = p]
                 IN  IsUrl(url) /\ url.query = href.query
           /\ \A p \in Paths :
                 LET url == [href EXCEPT !.path = <<p>>]
                 IN  IsUrl(url) /\ url.query = href.query
           /\ \A s \in {"http", "ws"} : Network(href) =>
                 LET url == [href EXCEPT !.scheme = s]
                 IN  IsUrl(url) /\ url.query = href.query
<1>1. /\ \A f \in {<<>>, <<<<"text">>>>} : f \in Seq(Seq(Tokens)) /\ Len(f) <= 1
      /\ \A h \in Hosts : <<h>> \in Seq(Tokens) /\ <<h>> # <<>>
      /\ \A c \in Optional("user") \cup Optional("secret") : c \in Seq(Tokens)
      /\ \A p \in {<<>>, <<"0">>} : p \in {<<>>} \cup {<<n>> : n \in DOMAIN PortNumber}
      /\ \A p \in Paths : <<p>> \in Seq(Tokens)
      /\ \A s \in {"http", "ws"} : s \in Tokens
  <2>0. /\ {"http", "ws", "user", "secret", "text"} \subseteq Tokens
        /\ Hosts \subseteq Tokens /\ Paths \subseteq Tokens
    BY UrlAssumption
  <2>1. \A f \in {<<>>, <<<<"text">>>>} : f \in Seq(Seq(Tokens)) /\ Len(f) <= 1
    <3> DEFINE t == <<"text">>
               S == Seq(Tokens)
    <3>1. t \in S
      BY <2>0
    <3> HIDE DEF t, S
    <3>2. <<t>> \in Seq(S) /\ Len(<<t>>) = 1 /\ <<>> \in Seq(S) /\ Len(<<>>) = 0
      BY <3>1, EmptySeq
    <3> DEFINE r == <<t>>
               e == <<>>
    <3>3. \A f \in {e, r} : f \in Seq(S) /\ Len(f) <= 1
      <4>1. r \in Seq(S) /\ Len(r) = 1 /\ e \in Seq(S) /\ Len(e) = 0
        BY <3>2
      <4> HIDE DEF r, e, S
      <4>2. ASSUME NEW f \in {e, r} PROVE f \in Seq(S) /\ Len(f) <= 1
        <5>1. f = e \/ f = r
          OBVIOUS
        <5>2. CASE f = e
          <6>1. f \in Seq(S) /\ Len(f) = 0
            BY <4>1, <5>2, Zenon
          <6> QED
            BY <6>1
        <5>3. CASE f = r
          <6>1. f \in Seq(S) /\ Len(f) = 1
            BY <4>1, <5>3, Zenon
          <6> QED
            BY <6>1
        <5> QED
          BY <5>1, <5>2, <5>3
      <4> QED
        BY <4>2
    <3> QED
      BY <3>3 DEF t, S
  <2>2. \A h \in Hosts \cup Paths : <<h>> \in Seq(Tokens) /\ <<h>> # <<>>
    <3>1. \A h \in Hosts \cup Paths : h \in Tokens
      BY <2>0
    <3> QED
      BY <3>1
  <2>4. \A c \in Optional("user") \cup Optional("secret") : c \in Seq(Tokens)
    <3>1. <<"user">> \in Seq(Tokens) /\ <<"secret">> \in Seq(Tokens) /\ <<>> \in Seq(Tokens)
      BY <2>0, EmptySeq
    <3> QED
      BY <3>1 DEF Optional
  <2>5. \A p \in {<<>>, <<"0">>} : p \in {<<>>} \cup {<<n>> : n \in DOMAIN PortNumber}
    BY DEF PortNumber
  <2>6. \A h \in Hosts : <<h>> \in Seq(Tokens) /\ <<h>> # <<>>
    BY <2>2
  <2>7. \A p \in Paths : <<p>> \in Seq(Tokens)
    BY <2>2
  <2>8. \A s \in {"http", "ws"} : s \in Tokens
    BY <2>0
  <2> QED
    BY <2>1, <2>4, <2>5, <2>6, <2>7, <2>8
<1>2. ASSUME NEW f \in {<<>>, <<<<"text">>>>}
      PROVE  LET url == [href EXCEPT !.fragment = f] IN IsUrl(url) /\ url.query = href.query
  BY <1>1 DEF IsUrl, Network
<1>3. ASSUME NEW h \in Hosts, href.authority
      PROVE  LET url == [href EXCEPT !.host = <<h>>] IN IsUrl(url) /\ url.query = href.query
  BY <1>1, <1>3 DEF IsUrl, Network
<1>4. ASSUME NEW h \in Hosts, NEW p \in {<<>>, <<"0">>}, href.authority
      PROVE  LET url == [href EXCEPT !.host = <<h>>, !.port = p]
             IN  IsUrl(url) /\ url.query = href.query
  BY <1>1, <1>4 DEF IsUrl, Network
<1>5. ASSUME NEW c \in Optional("user"), MayHaveUser(href)
      PROVE  LET url == [href EXCEPT !.username = c] IN IsUrl(url) /\ url.query = href.query
  BY <1>1, <1>5 DEF IsUrl, Network, MayHaveUser
<1>6. ASSUME NEW c \in Optional("secret"), MayHaveUser(href)
      PROVE  LET url == [href EXCEPT !.password = c] IN IsUrl(url) /\ url.query = href.query
  BY <1>1, <1>6 DEF IsUrl, Network, MayHaveUser
<1>7. ASSUME NEW p \in {<<>>, <<"0">>}, MayHaveUser(href)
      PROVE  LET url == [href EXCEPT !.port = p] IN IsUrl(url) /\ url.query = href.query
  BY <1>1, <1>7 DEF IsUrl, Network, MayHaveUser
<1>8. ASSUME NEW p \in Paths
      PROVE  LET url == [href EXCEPT !.path = <<p>>] IN IsUrl(url) /\ url.query = href.query
  BY <1>1 DEF IsUrl, Network
<1>9. ASSUME NEW s \in {"http", "ws"}, Network(href)
      PROVE  LET url == [href EXCEPT !.scheme = s] IN IsUrl(url) /\ url.query = href.query
  BY <1>1, <1>9 DEF IsUrl, Network
<1> QED
  BY <1>2, <1>3, <1>4, <1>5, <1>6, <1>7, <1>8, <1>9, Zenon

LEMMA QueryIsSet ==
    ASSUME NEW href, IsUrl(href), NEW q, IsQuery(q)
    PROVE  LET url == [href EXCEPT !.query = q] IN IsUrl(url) /\ url.query = q
<1>1. q \in Seq(Seq(Segment)) /\ IsQuery(q)
  BY DEF IsQuery
<1> QED
  BY <1>1 DEF IsUrl, Network

LEMMA SetSearchKeeps ==
    ASSUME UrlInv, NEW u \in Objects, NEW q \in Queries, SetSearch(u, q)
    PROVE  UrlInv'
<1> DEFINE href == object[u].serialization
           url == [href EXCEPT !.query = q]
           old == object[u].params
<1>1. PICK params \in UpdateSearchParams(old, url, opUrlReparse(href, url).buf) :
         u \in urls /\ Reparse(u, url, params)
  BY DEF SetSearch
<1>2. IsQuery(q)
  BY UrlAssumption
<1>3. IsUrl(href)
  BY DEF UrlInv, IsObject
<1> HIDE DEF href
<1>4. IsUrl(url)
  BY <1>2, <1>3, QueryIsSet
<1> DEFINE list == Pairs(url.query)
<1>5. list \in Seq(Pair)
  BY <1>4, PairsType DEF IsUrl
<1> HIDE DEF url
<1>6. params = IF old = <<>> THEN <<>> ELSE <<list>>
  <2>1. opUrlReparse(href, url).buf = Offsets(url, NO_PORT)
    BY DEF opUrlReparse, Op
  <2>2. SearchLists(url, opUrlReparse(href, url).buf) = {list}
    BY <1>4, <2>1, OwnSearchLists, Zenon
  <2> QED
    BY <1>1, <2>2, Zenon DEF UpdateSearchParams
<1>7. list = Pairs(url.query)
  OBVIOUS
<1> HIDE DEF list
<1>8. /\ IsParams(params)
      /\ old # <<>> => params # <<>>
      /\ params # <<>> => params[1] = Pairs(url.query)
  <2>1. IsParams(<<list>>) /\ <<list>> # <<>> /\ <<list>>[1] = list /\ IsParams(<<>>)
    BY <1>5, OneList DEF IsParams
  <2> QED
    BY <2>1, <1>6, <1>7
<1> QED
  BY <1>1, <1>4, <1>8, ReparseKeeps

\* An op on a text leaves its URL to the caller, and a slot.
LEMMA ParseOp ==
    ASSUME NEW t \in Texts, t.status # "invalid", IsSlot(slot)
    PROVE  /\ opUrlParse(t).status = t.status /\ t.status \in {"same", "changed"}
           /\ IsUrl(t.url)
           /\ Serialization(t.status, t.url, opUrlParse(t).slot) = t.url
           /\ IsSlot(Taken(t.status, opUrlParse(t).slot))
<1>1. t.status \in {"same", "changed"} /\ IsUrl(t.url)
  BY UrlAssumption
<1> DEFINE op == opUrlParse(t)
<1>2. op.status = t.status /\ op.slot = IF t.status = "changed" THEN <<t.url>> ELSE slot
  BY DEF opUrlParse, Op
<1> HIDE DEF op
<1> DEFINE held == op.slot
           url == t.url
           status == t.status
<1>3. held = IF status = "changed" THEN <<url>> ELSE slot
  BY <1>2
<1>4. status \in {"same", "changed"} /\ IsUrl(url) /\ (status = "changed" => TRUE)
  BY <1>1
<1> HIDE DEF held, url, status
<1>5. Serialization(status, url, held) = url /\ IsSlot(Taken(status, held))
  BY <1>3, <1>4, OwnSlot
<1> QED
  BY <1>1, <1>2, <1>5 DEF op, held, url, status

LEMMA ConstructKeeps ==
    ASSUME UrlInv, NEW u \in Objects, NEW t \in Texts, ConstructUrl(u, t)
    PROVE  UrlInv'
<1> DEFINE op == opUrlParse(t)
           b == op.buf
           x == [serialization |-> t.url, offsets |-> b, params |-> <<>>, walk |-> NoWalk]
<1>1. t.status # "invalid" /\ IsSlot(slot) /\ stack \in Seq(Frames)
  BY DEF ConstructUrl, UrlInv
<1>2. /\ op.status = t.status /\ IsUrl(t.url)
      /\ Serialization(t.status, t.url, op.slot) = t.url
      /\ IsSlot(Taken(t.status, op.slot))
  BY <1>1, ParseOp
<1>3. /\ object' = [object EXCEPT ![u] = Fields(op, t.url, <<>>, NoWalk)]
      /\ urls' = urls \cup {u} /\ slot' = Taken(op.status, op.slot)
      /\ stack' = stack
  BY DEF ConstructUrl, Apply
<1>4. Fields(op, t.url, <<>>, NoWalk) = x
  BY <1>2 DEF Fields
<1> HIDE DEF op, b, x
<1>5. object' = [object EXCEPT ![u] = x] /\ IsSlot(slot')
  BY <1>2, <1>3, <1>4
<1>6. IsObject(x) /\ InSync(x)
  <2>1. IsParams(<<>>) /\ IsWalk(NoWalk, <<>>)
    BY NoWalkIsWalk DEF IsParams
  <2> DEFINE p == <<>>
             url == t.url
             w == NoWalk
  <2>2. x = [serialization |-> url, offsets |-> b, params |-> p, walk |-> w]
    BY DEF x
  <2>3. IsParams(p) /\ IsWalk(w, p) /\ IsUrl(url) /\ p = <<>>
    BY <2>1, <1>2
  <2> HIDE DEF p, url, w
  <2> QED
    BY <2>2, <2>3, NewFields
<1> QED
  BY <1>1, <1>3, <1>5, <1>6, PutKeeps

LEMMA SetHrefKeeps ==
    ASSUME UrlInv, NEW u \in Objects, NEW t \in Texts, SetHref(u, t)
    PROVE  UrlInv'
<1> DEFINE op == opUrlParse(t)
           b == op.buf
           url == t.url
           old == object[u].params
<1>1. /\ t.status # "invalid" /\ IsSlot(slot) /\ stack \in Seq(Frames) /\ u \in urls
      /\ IsObject(object[u])
  BY DEF SetHref, UrlInv
<1>0. PICK params \in UpdateSearchParams(old, url, b) :
         object' = [object EXCEPT ![u] =
            Fields(op, url, params, WalkOver(object[u].walk, old, params))]
  BY <1>1, Zenon DEF SetHref
<1> DEFINE w == WalkOver(object[u].walk, old, params)
           x == [serialization |-> url, offsets |-> b, params |-> params, walk |-> w]
<1>2. /\ op.status = t.status /\ IsUrl(url)
      /\ Serialization(t.status, url, op.slot) = url
      /\ IsSlot(Taken(t.status, op.slot))
  BY <1>1, ParseOp
<1>3. /\ object' = [object EXCEPT ![u] = Fields(op, url, params, w)]
      /\ urls' = urls /\ slot' = Taken(op.status, op.slot)
      /\ stack' = stack
  BY <1>0 DEF SetHref, Apply
<1>4. Fields(op, url, params, w) = x
  BY <1>2 DEF Fields
<1> DEFINE list == Pairs(url.query)
<1>5. list \in Seq(Pair)
  BY <1>2, PairsType DEF IsUrl
<1>6. params = IF old = <<>> THEN <<>> ELSE <<list>>
  <2>1. b = Offsets(url, 0)
    BY <1>1 DEF opUrlParse, Op
  <2> HIDE DEF b, url
  <2>2. SearchLists(url, b) = {list}
    BY <1>2, <2>1, OwnSearchLists, Zenon
  <2> QED
    BY <1>0, <2>2, Zenon DEF UpdateSearchParams
<1>7. IsWalk(object[u].walk, old) /\ IsParams(old)
  BY <1>1 DEF IsObject
<1>8. list = Pairs(url.query)
  OBVIOUS
<1> HIDE DEF list, old
<1>9. /\ IsParams(params)
      /\ old # <<>> => params # <<>>
      /\ params # <<>> => params[1] = Pairs(url.query)
  <2>1. IsParams(<<list>>) /\ <<list>> # <<>> /\ <<list>>[1] = list /\ IsParams(<<>>)
    BY <1>5, OneList DEF IsParams
  <2> QED
    BY <2>1, <1>6, <1>8
<1>10. IsWalk(w, params)
  BY <1>7, <1>9, WalkOverKeeps
<1>11. x = [serialization |-> url, offsets |-> b, params |-> params, walk |-> w]
  OBVIOUS
<1> HIDE DEF op, b, x, url, w
<1>12. object' = [object EXCEPT ![u] = x] /\ IsSlot(slot')
  BY <1>2, <1>3, <1>4
<1>13. IsObject(x) /\ InSync(x)
  BY <1>2, <1>9, <1>10, <1>11, NewFields
<1> QED
  BY <1>1, <1>3, <1>12, <1>13, PutKeeps

LEMMA ParseKeeps ==
    ASSUME UrlInv, NEW t \in Texts,
           CanParse(t) \/ \E u \in Objects : BlobOrigin(u, t) \/ BeginParse(u, t)
    PROVE  UrlInv'
<1>1. IsSlot(slot) /\ stack \in Seq(Frames)
  BY DEF UrlInv
<1>2. object' = object /\ urls' = urls
  BY DEF CanParse, BlobOrigin, BeginParse, Apply
<1>3. IsSlot(slot')
  <2>1. CASE t.status = "invalid"
    BY <2>1, <1>1 DEF CanParse, BlobOrigin, BeginParse, opUrlParse, Op
  <2>2. CASE t.status # "invalid"
    <3>1. /\ opUrlParse(t).status = t.status /\ IsUrl(t.url)
          /\ IsSlot(Taken(t.status, opUrlParse(t).slot))
      BY <2>2, <1>1, ParseOp
    <3>2. IsSlot(opUrlParse(t).slot)
      BY <3>1, <1>1 DEF IsSlot, opUrlParse, Op
    <3> QED
      BY <3>1, <3>2 DEF CanParse, BlobOrigin, BeginParse, Apply
  <2> QED
    BY <2>1, <2>2
<1>4. stack' \in Seq(Frames)
  <2>1. CASE stack' = stack
    BY <2>1, <1>1
  <2>2. ASSUME NEW u \in Objects, t.status # "invalid",
               stack' = Append(stack, [object |-> u, text |-> t])
        PROVE  stack' \in Seq(Frames)
    <3>1. [object |-> u, text |-> t] \in Frames
      BY <2>2 DEF Frames
    <3> QED
      BY <3>1, <2>2, <1>1, AppendProperties
  <2> QED
    BY <2>1, <2>2 DEF CanParse, BlobOrigin, BeginParse, Apply
<1> QED
  BY <1>2, <1>3, <1>4, Zenon DEF UrlInv

LEMMA EndParseKeeps == ASSUME UrlInv, EndParse PROVE UrlInv'
<1> DEFINE n == Len(stack)
           f == stack[n]
           u == f.object
           t == f.text
<1>1. stack \in Seq(Frames) /\ stack # <<>> /\ IsSlot(slot)
  BY DEF EndParse, UrlInv
<1>2. n \in 1 .. Len(stack) /\ n \in Nat
  BY <1>1, LenProperties, EmptySeq
<1>3. f \in Frames /\ \A i \in 1 .. n - 1 : stack[i] \in Frames
  BY <1>1, <1>2, ElementOfSeq
<1>4. u \in Objects /\ t \in Texts /\ t.status # "invalid"
  BY <1>3 DEF Frames
<1>5. stack' = SubSeq(stack, 1, n - 1)
  BY DEF EndParse, Front
<1>6. stack' \in Seq(Frames)
  <2>1. 1 \in Int /\ n - 1 \in Int
    BY <1>2
  <2> HIDE DEF n
  <2> QED
    BY <1>3, <1>5, <2>1, SubSeqProperties
<1>7. Last(stack) = f
  BY DEF Last
<1> HIDE DEF f, n
<1>8. CASE t.status = "changed" /\ slot = <<>>
  <2>1. UNCHANGED <<urls, object, slot>>
    BY <1>7, <1>8 DEF EndParse
  <2> QED
    BY <2>1, <1>1, <1>6, Zenon DEF UrlInv
<1>9. CASE ~(t.status = "changed" /\ slot = <<>>)
  <2> DEFINE url == Serialization(t.status, t.url, slot)
             x == [serialization |-> url, offsets |-> buf, params |-> <<>>, walk |-> NoWalk]
  <2>1. /\ object' = [object EXCEPT ![u] = x] /\ urls' = urls \cup {u}
        /\ slot' = Taken(t.status, slot)
    BY <1>7, <1>9, Zenon DEF EndParse
  <2>2. IsUrl(url)
    <3>1. IsUrl(t.url) /\ t.status \in {"same", "changed"}
      BY <1>4, UrlAssumption
    <3> QED
      BY <3>1, <1>1, <1>9 DEF Serialization, IsSlot
  <2>3. IsSlot(slot')
    BY <1>1, <2>1 DEF Taken, IsSlot
  <2> HIDE DEF url
  <2>4. IsObject(x) /\ InSync(x)
    <3> DEFINE p == <<>>
               w == NoWalk
               b == buf
    <3>1. IsParams(p) /\ IsWalk(w, p) /\ p = <<>>
      BY NoWalkIsWalk DEF IsParams
    <3>2. x = [serialization |-> url, offsets |-> b, params |-> p, walk |-> w]
      OBVIOUS
    <3> HIDE DEF x, p, w, b
    <3> QED
      BY <3>1, <3>2, <2>2, NewFields
  <2> HIDE DEF x
  <2> QED
    BY <1>4, <1>6, <2>1, <2>3, <2>4, PutKeeps
<1> QED
  BY <1>8, <1>9

\* The list and the walk of an object change, its URL does not.
LEMMA FieldsKeep ==
    ASSUME UrlInv, NEW u \in Objects, NEW p, IsParams(p), NEW w, IsWalk(w, p),
           ~Subclass /\ u \in urls /\ p # <<>> => p[1] = Pairs(object[u].serialization.query),
           object' = [object EXCEPT ![u] =
              [serialization |-> object[u].serialization, offsets |-> object[u].offsets,
               params |-> p, walk |-> w]],
           UNCHANGED <<urls, slot, stack>>
    PROVE  UrlInv'
<1> DEFINE s == object[u].serialization
           o == object[u].offsets
           x == [serialization |-> s, offsets |-> o, params |-> p, walk |-> w]
<1>1. /\ IsObject(object[u]) /\ IsSlot(slot) /\ stack \in Seq(Frames)
      /\ slot' = slot /\ stack' = stack /\ urls' = urls
  BY DEF UrlInv
<1>2. IsUrl(s)
  BY <1>1 DEF IsObject
<1>3. object' = [object EXCEPT ![u] = x]
  OBVIOUS
<1>4. x = [serialization |-> s, offsets |-> o, params |-> p, walk |-> w]
  OBVIOUS
<1>5. IsObject(x)
  <2> HIDE DEF s, o, x
  <2>1. /\ x = [serialization |-> x.serialization, offsets |-> x.offsets,
                params |-> x.params, walk |-> x.walk]
        /\ x.serialization = s /\ x.params = p /\ x.walk = w
    BY <1>4
  <2> QED
    BY <2>1, <1>2, Zenon DEF IsObject
<1>6. u \in urls' => InSync(x)
  BY <1>1 DEF InSync
<1> HIDE DEF x
<1> QED
  BY <1>1, <1>3, <1>5, <1>6, PutKeeps

\* The same, as an assignment to both fields.
LEMMA ListKeeps ==
    ASSUME UrlInv, NEW u \in Objects, NEW p, IsParams(p), NEW w, IsWalk(w, p),
           ~Subclass /\ u \in urls /\ p # <<>> => p[1] = Pairs(object[u].serialization.query),
           object' = [object EXCEPT ![u] = [object[u] EXCEPT !.params = p, !.walk = w]],
           UNCHANGED <<urls, slot, stack>>
    PROVE  UrlInv'
<1> DEFINE s == object[u].serialization
           o == object[u].offsets
           q == object[u].params
           v == object[u].walk
           y == object[u]
           r == [y EXCEPT !.params = p]
           z == [r EXCEPT !.walk = w]
<1>1. y = [serialization |-> s, offsets |-> o, params |-> q, walk |-> v]
  BY DEF UrlInv, IsObject
<1>2. object' = [object EXCEPT ![u] = z]
  OBVIOUS
<1>3. z = [serialization |-> s, offsets |-> o, params |-> p, walk |-> w]
  <2> HIDE DEF y, s, o, q, v
  <2>1. r = [serialization |-> s, offsets |-> o, params |-> p, walk |-> v]
    BY <1>1
  <2> HIDE DEF r
  <2>2. z = [serialization |-> s, offsets |-> o, params |-> p, walk |-> w]
    BY <2>1
  <2> QED
    BY <2>2 DEF r
<1> HIDE DEF z
<1>4. object' = [object EXCEPT ![u] =
         [serialization |-> s, offsets |-> o, params |-> p, walk |-> w]]
  BY <1>2, <1>3
<1> QED
  BY <1>4, FieldsKeep

\* A list replaces the list of an object.
LEMMA ChangeKeeps ==
    ASSUME UrlInv, NEW u \in Objects, NEW list \in Seq(Pair), HasList(u), Change(u, list)
    PROVE  UrlInv'
<1>1. IsObject(object[u]) /\ IsParams(<<list>>) /\ <<list>> # <<>> /\ <<list>>[1] = list
  BY OneList DEF UrlInv
<1>2. CASE u \in urls
  <2> DEFINE href == object[u].serialization
             query == Stringify(list)
             url == [href EXCEPT !.query = query]
             p == <<list>>
  <2>1. IsQuery(query) /\ Pairs(query) = list
    BY PairsOfList
  <2>2. IsUrl(href)
    BY <1>1 DEF IsObject
  <2>3. IsUrl(url) /\ url.query = query
    <3> HIDE DEF href, query
    <3> QED
      BY <2>1, <2>2, QueryIsSet
  <2>4. Reparse(u, url, p)
    BY <1>2 DEF Change, UpdateUrlSearch
  <2>5. IsParams(p) /\ p # <<>> /\ p[1] = Pairs(url.query)
    BY <1>1, <2>1, <2>3, Zenon
  <2> HIDE DEF url, p
  <2> QED
    BY <1>2, <2>3, <2>4, <2>5, ReparseKeeps
<1>3. CASE u \notin urls
  <2> DEFINE w == WalkOver(object[u].walk, object[u].params, <<list>>)
             p == <<list>>
  <2>1. object' = [object EXCEPT ![u] = [object[u] EXCEPT !.params = p, !.walk = w]]
    BY <1>3 DEF Change, UrlInv
  <2>2. UNCHANGED <<urls, slot, stack>>
    BY <1>3 DEF Change
  <2>3. IsWalk(w, p)
    <3>1. IsWalk(object[u].walk, object[u].params) /\ IsParams(object[u].params)
      BY <1>1 DEF IsObject
    <3> QED
      BY <3>1, <1>1, WalkOverKeeps
  <2>4. IsParams(p)
    BY <1>1
  <2>5. ~Subclass /\ u \in urls /\ p # <<>> => p[1] = Pairs(object[u].serialization.query)
    BY <1>3
  <2> HIDE DEF w, p
  <2> QED
    BY <2>1, <2>2, <2>3, <2>4, <2>5, ListKeeps, Zenon
<1> QED
  BY <1>2, <1>3

LEMMA ListType ==
    ASSUME UrlInv, NEW u \in Objects, object[u].params # <<>>
    PROVE  ListOf(u) \in Seq(Pair) /\ IsParams(object[u].params)
BY ParamsCases DEF UrlInv, IsObject, ListOf

LEMMA PairChangesKeep ==
    ASSUME UrlInv, NEW u \in Objects, NEW n \in Names, NEW v \in Values,
           AppendPair(u, n, v) \/ DeletePair(u, n, v) \/ SetPair(u, n, v)
    PROVE  UrlInv'
<1> DEFINE list == ListOf(u)
           pair == [name |-> n, value |-> v]
<1>1. HasList(u) /\ object[u].params # <<>>
  BY DEF AppendPair, DeletePair, SetPair, HasList
<1>2. list \in Seq(Pair) /\ pair \in Pair
  BY <1>1, ListType DEF Pair
<1>3. CASE AppendPair(u, n, v)
  <2>1. Append(list, pair) \in Seq(Pair)
    BY <1>2, AppendProperties
  <2> QED
    BY <1>1, <1>3, <2>1, ChangeKeeps DEF AppendPair
<1>4. CASE DeletePair(u, n, v)
  <2>1. Select(list, Pair \ {pair}) \in Seq(Pair)
    BY <1>2, SelectInSeqOf
  <2> QED
    BY <1>1, <1>4, <2>1, ChangeKeeps DEF DeletePair
<1>5. CASE SetPair(u, n, v)
  <2>1. Replaced(list, n, v) \in Seq(Pair)
    BY <1>2, ReplacedType
  <2> QED
    BY <1>1, <1>5, <2>1, ChangeKeeps DEF SetPair
<1> QED
  BY <1>3, <1>4, <1>5

LEMMA ListChangesKeep ==
    ASSUME UrlInv, NEW u \in Objects, Sort(u) \/ \E n \in Names : DeleteName(u, n)
    PROVE  UrlInv'
<1> DEFINE list == ListOf(u)
<1>1. HasList(u) /\ object[u].params # <<>>
  BY DEF DeleteName, Sort, HasList
<1>2. list \in Seq(Pair)
  BY <1>1, ListType
<1>3. ASSUME NEW n \in Names, DeleteName(u, n) PROVE UrlInv'
  <2>1. Without(list, n) \in Seq(Pair)
    BY <1>2, SelectInSeqOf DEF Without
  <2> QED
    BY <1>1, <1>3, <2>1, ChangeKeeps DEF DeleteName
<1>4. CASE Sort(u)
  <2>1. Sorted(list) \in Seq(Pair)
    BY <1>2, SortedType
  <2> QED
    BY <1>1, <1>4, <2>1, ChangeKeeps DEF Sort
<1> QED
  BY <1>3, <1>4

\* The list of an object that had none: nothing walks over it.
LEMMA ParamsKeep ==
    ASSUME UrlInv, NEW u \in Objects, NEW list \in Seq(Pair), object[u].params = <<>>,
           ~Subclass /\ u \in urls => list = Pairs(object[u].serialization.query),
           object' = [object EXCEPT ![u].params = <<list>>],
           UNCHANGED <<urls, slot, stack>>
    PROVE  UrlInv'
<1> DEFINE s == object[u].serialization
           o == object[u].offsets
           q == object[u].params
           w == object[u].walk
           y == object[u]
           p == <<list>>
           z == [y EXCEPT !.params = p]
<1>1. y = [serialization |-> s, offsets |-> o, params |-> q, walk |-> w]
  BY DEF UrlInv, IsObject
<1>2. IsParams(p) /\ p # <<>> /\ p[1] = list
  BY OneList
<1>3. object' = [object EXCEPT ![u] = z]
  OBVIOUS
<1>4. z = [serialization |-> s, offsets |-> o, params |-> p, walk |-> w]
  <2> HIDE DEF y, s, o, q, w, p
  <2> QED
    BY <1>1
<1>5. IsWalk(w, p)
  <2>1. IsWalk(w, <<>>)
    BY DEF UrlInv, IsObject
  <2> HIDE DEF w
  <2>2. w.index = 0
    BY <2>1 DEF IsWalk
  <2> QED
    BY <2>1, <2>2, <1>2 DEF IsWalk
<1> HIDE DEF p, w, z
<1>6. ~Subclass /\ u \in urls /\ p # <<>> => p[1] = Pairs(s.query)
  BY <1>2
<1>7. object' = [object EXCEPT ![u] =
         [serialization |-> s, offsets |-> o, params |-> p, walk |-> w]]
  BY <1>3, <1>4
<1> QED
  BY <1>2, <1>5, <1>6, <1>7, FieldsKeep

LEMMA SearchParamsKeep ==
    ASSUME UrlInv, ~Subclass => AllMeasured, NEW u \in Objects,
           GetSearchParams(u) \/ \E i \in Inits : CreateParams(u, i)
    PROVE  UrlInv'
<1>1. CASE GetSearchParams(u)
  <2> DEFINE url == object[u].serialization
             o == object[u].offsets
  <2>1. IsUrl(url) /\ u \in urls /\ object[u].params = <<>> /\ UNCHANGED <<urls, slot, stack>>
    BY <1>1 DEF UrlInv, IsObject, GetSearchParams
  <2>2. PICK list \in SearchLists(url, o) : object' = [object EXCEPT ![u].params = <<list>>]
    BY <1>1, Zenon DEF GetSearchParams
  <2>3. ~Subclass => \E noPort : o = Offsets(url, noPort)
    BY <2>1, Zenon DEF AllMeasured, Measured
  <2> HIDE DEF o
  <2>4. list \in Seq(Pair)
    BY <2>1, <2>2, SearchListsType
  <2>5. ~Subclass => list = Pairs(url.query)
    <3> HIDE DEF url
    <3>1. ASSUME NEW noPort, o = Offsets(url, noPort) PROVE list = Pairs(url.query)
      <4>1. SearchLists(url, o) = {Pairs(url.query)}
        BY <2>1, <3>1, OwnSearchLists, Zenon
      <4> QED
        BY <2>2, <4>1
    <3> QED
      BY <2>3, <3>1
  <2> QED
    BY <2>1, <2>2, <2>4, <2>5, ParamsKeep
<1>2. ASSUME NEW i \in Inits, CreateParams(u, i) PROVE UrlInv'
  <2> DEFINE list == InitList(i)
  <2>1. list \in Seq(Pair)
    BY <1>2, InitListType DEF CreateParams
  <2>2. /\ object' = [object EXCEPT ![u].params = <<list>>] /\ object[u].params = <<>>
        /\ UNCHANGED <<urls, slot, stack>> /\ u \notin urls
    BY <1>2 DEF CreateParams
  <2> HIDE DEF list
  <2> QED
    BY <2>1, <2>2, ParamsKeep
<1> QED
  BY <1>1, <1>2

\* A walk begins, goes on, or ends.
LEMMA SetWalkKeeps ==
    ASSUME UrlInv, NEW u \in Objects, NEW w, IsWalk(w, object[u].params), SetWalk(u, w)
    PROVE  UrlInv'
<1> DEFINE s == object[u].serialization
           o == object[u].offsets
           p == object[u].params
           v == object[u].walk
           y == object[u]
           z == [y EXCEPT !.walk = w]
<1>1. y = [serialization |-> s, offsets |-> o, params |-> p, walk |-> v]
  BY DEF UrlInv, IsObject
<1>2. IsParams(p) /\ IsWalk(w, p)
  BY DEF UrlInv, IsObject
<1>3. object' = [object EXCEPT ![u] = z] /\ UNCHANGED <<urls, slot, stack>>
  BY DEF SetWalk
<1>4. z = [serialization |-> s, offsets |-> o, params |-> p, walk |-> w]
  <2> HIDE DEF y, s, o, p, v
  <2> QED
    BY <1>1
<1>5. ~Subclass /\ u \in urls /\ p # <<>> => p[1] = Pairs(s.query)
  BY DEF UrlInv, InSync
<1> HIDE DEF z
<1>6. object' = [object EXCEPT ![u] =
         [serialization |-> s, offsets |-> o, params |-> p, walk |-> w]]
  BY <1>3, <1>4
<1> HIDE DEF p
<1> QED
  BY <1>2, <1>3, <1>5, <1>6, FieldsKeep

LEMMA BeginWalkKeeps == ASSUME UrlInv, NEW u \in Objects, BeginWalk(u) PROVE UrlInv'
<1> DEFINE p == object[u].params
           w == [NoWalk EXCEPT !.index = 1]
<1>1. SetWalk(u, w) /\ p # <<>>
  BY DEF BeginWalk, HasList
<1>2. p[1] \in Seq(Pair)
  BY <1>1, ParamsCases DEF UrlInv, IsObject
<1> DEFINE list == p[1]
<1>3. Len(list) \in Nat
  BY <1>2, LenProperties
<1>4. /\ w = [index |-> w.index, visited |-> w.visited, moved |-> w.moved]
      /\ w.index = 1 /\ w.visited = <<>>
  <2> DEFINE e == <<>>
             f == FALSE
             v == NoWalk
  <2>1. v = [index |-> 0, visited |-> e, moved |-> f]
    BY DEF NoWalk
  <2> HIDE DEF e, f, v
  <2>2. [v EXCEPT !.index = 1] = [index |-> 1, visited |-> e, moved |-> f]
    BY <2>1
  <2>3. w = [index |-> 1, visited |-> e, moved |-> f]
    BY <2>2 DEF v
  <2> HIDE DEF w
  <2> QED
    BY <2>3 DEF e
<1> HIDE DEF w, list
<1>5. Visited(w, list)
  BY <1>3, <1>4, EmptySeq DEF Visited
<1>6. IsWalk(w, p)
  BY <1>1, <1>4, <1>5 DEF IsWalk, list
<1> HIDE DEF p
<1> QED
  BY <1>1, <1>6, SetWalkKeeps DEF p

LEMMA VisitKeeps == ASSUME UrlInv, NEW u \in Objects, Visit(u) PROVE UrlInv'
<1> DEFINE p == object[u].params
           w == object[u].walk
           n == w.index
           b == w.visited
           c == w.moved
           list == p[1]
           name == list[n].name
           x == [index |-> n + 1, visited |-> Append(b, name), moved |-> c]
<1>1. p # <<>> /\ n \in DOMAIN list /\ IsWalk(w, p) /\ IsParams(p)
  BY DEF Visit, HasList, ListOf, UrlInv, IsObject
<1>2. list \in Seq(Pair)
  BY <1>1, ParamsCases
<1>3. n \in 1 .. Len(list) /\ Len(list) \in Nat /\ name \in Names
  <2> HIDE DEF list, n
  <2>1. n \in 1 .. Len(list) /\ Len(list) \in Nat
    BY <1>1, <1>2, LenProperties
  <2>2. list[n] \in Pair
    BY <1>2, <2>1, ElementOfSeq
  <2> QED
    BY <2>1, <2>2 DEF Pair
<1>4. w = [index |-> n, visited |-> b, moved |-> c]
  BY <1>1 DEF IsWalk
<1>5. SetWalk(u, [w EXCEPT !.index = n + 1, !.visited = Append(b, name)])
  BY DEF Visit, ListOf
<1>6. [w EXCEPT !.index = n + 1, !.visited = Append(b, name)] = x
  <2> DEFINE r == [w EXCEPT !.index = n + 1]
             m == n + 1
             a == Append(b, name)
  <2> HIDE DEF w, n, b, c, name
  <2>1. r = [index |-> m, visited |-> b, moved |-> c]
    BY <1>4
  <2> HIDE DEF r, m, a
  <2>2. [r EXCEPT !.visited = a] = [index |-> m, visited |-> a, moved |-> c]
    BY <2>1
  <2> QED
    BY <2>2 DEF r, m, a
<1>7. SetWalk(u, x)
  BY <1>5, <1>6, Zenon
<1>8. /\ x = [index |-> x.index, visited |-> x.visited, moved |-> x.moved]
      /\ x.index = n + 1 /\ x.visited = Append(b, name) /\ x.moved = c
  <2> HIDE DEF n, b, c, name
  <2> QED
    OBVIOUS
<1> HIDE DEF x, list, name
<1>9. ASSUME ~x.moved PROVE Visited(x, list)
  <2>1. ~w.moved
    BY <1>8, <1>9, Zenon
  <2>2. Visited(w, list)
    BY <2>1, <1>1, <1>3 DEF IsWalk, list
  <2>3. Len(b) = n - 1 /\ b \in Seq(Names) /\ \A i \in 1 .. n - 1 : b[i] = list[i].name
    BY <2>2 DEF Visited
  <2> HIDE DEF n, b, w, c
  <2>4. /\ Append(b, name) \in Seq(Names) /\ Len(Append(b, name)) = n
        /\ \A i \in 1 .. n - 1 : Append(b, name)[i] = b[i]
        /\ Append(b, name)[n] = name
    BY <2>3, <1>3, AppendProperties
  <2>5. ASSUME NEW i \in 1 .. n PROVE Append(b, name)[i] = list[i].name
    <3>1. CASE i = n
      BY <3>1, <2>4 DEF name
    <3>2. CASE i # n
      BY <3>2, <1>3, <2>3, <2>4
    <3> QED
      BY <3>1, <3>2
  <2>6. x.index - 1 = n
    BY <1>3, <1>8
  <2> QED
    BY <2>4, <2>5, <2>6, <1>3, <1>8 DEF Visited
<1>10. IsWalk(x, p)
  <2>1. x.index \in Nat
    <3> HIDE DEF n
    <3> QED
      BY <1>3, <1>8
  <2> QED
    BY <1>1, <1>8, <1>9, <2>1, Zenon DEF IsWalk, list
<1> HIDE DEF p
<1> QED
  BY <1>7, <1>10, SetWalkKeeps DEF p

LEMMA EndWalkKeeps == ASSUME UrlInv, NEW u \in Objects, EndWalk(u) PROVE UrlInv'
<1>1. SetWalk(u, NoWalk)
  BY DEF EndWalk
<1>2. IsWalk(NoWalk, object[u].params)
  BY DEF NoWalk, IsWalk
<1> QED
  BY <1>1, <1>2, SetWalkKeeps

LEMMA SettersKeep ==
    ASSUME UrlInv, NEW u \in Objects,
           \/ SetHash(u) \/ SetUsername(u) \/ SetPassword(u) \/ SetProtocol(u)
           \/ \E h \in Hosts : SetHostname(u, h)
           \/ \E h \in Hosts, p \in {<<>>, <<"0">>} : SetHost(u, h, p)
           \/ \E p \in {<<>>, <<"0">>} : SetPort(u, p)
           \/ \E p \in Paths : SetPathname(u, p)
    PROVE  UrlInv'
<1> DEFINE href == object[u].serialization
           Good(url) == IsUrl(url) /\ url.query = href.query
<1>1. IsUrl(href)
  BY DEF UrlInv, IsObject
<1>2. ASSUME NEW url, Good(url), Assign(u, url) PROVE UrlInv'
  BY <1>2, AssignKeeps
<1>3. /\ \A f \in {<<>>, <<<<"text">>>>} : Good([href EXCEPT !.fragment = f])
      /\ \A h \in Hosts : href.authority => Good([href EXCEPT !.host = <<h>>])
      /\ \A h \in Hosts, p \in {<<>>, <<"0">>} : href.authority =>
            Good([href EXCEPT !.host = <<h>>, !.port = p])
      /\ \A c \in Optional("user") : MayHaveUser(href) => Good([href EXCEPT !.username = c])
      /\ \A c \in Optional("secret") : MayHaveUser(href) => Good([href EXCEPT !.password = c])
      /\ \A p \in {<<>>, <<"0">>} : MayHaveUser(href) => Good([href EXCEPT !.port = p])
      /\ \A p \in Paths : Good([href EXCEPT !.path = <<p>>])
      /\ \A s \in {"http", "ws"} : Network(href) => Good([href EXCEPT !.scheme = s])
  <2> HIDE DEF href
  <2> QED
    BY <1>1, SettersKeepUrl, Zenon
<1> HIDE DEF Good
<1>4. CASE SetHash(u)
  BY <1>2, <1>3, <1>4, Zenon DEF SetHash
<1>5. CASE SetUsername(u)
  BY <1>2, <1>3, <1>5, Zenon DEF SetUsername
<1>6. CASE SetPassword(u)
  BY <1>2, <1>3, <1>6, Zenon DEF SetPassword
<1>7. CASE SetProtocol(u)
  BY <1>2, <1>3, <1>7, Zenon DEF SetProtocol
<1>8. ASSUME NEW h \in Hosts, SetHostname(u, h) PROVE UrlInv'
  BY <1>2, <1>3, <1>8, Zenon DEF SetHostname
<1>9. ASSUME NEW h \in Hosts, NEW p \in {<<>>, <<"0">>}, SetHost(u, h, p) PROVE UrlInv'
  BY <1>2, <1>3, <1>9, Zenon DEF SetHost
<1>10. ASSUME NEW p \in {<<>>, <<"0">>}, SetPort(u, p) PROVE UrlInv'
  BY <1>2, <1>3, <1>10, Zenon DEF SetPort
<1>11. ASSUME NEW p \in Paths, SetPathname(u, p) PROVE UrlInv'
  BY <1>2, <1>3, <1>11, Zenon DEF SetPathname
<1> QED
  BY <1>4, <1>5, <1>6, <1>7, <1>8, <1>9, <1>10, <1>11

LEMMA UrlInvInit == UrlInit => UrlInv
<1> SUFFICES ASSUME UrlInit PROVE UrlInv
  OBVIOUS
<1> DEFINE b == Offsets(NoUrl, 0)
           p == <<>>
           url == NoUrl
           w == NoWalk
           x == NoObject
<1>1. x = [serialization |-> url, offsets |-> b, params |-> p, walk |-> w]
  BY DEF NoObject
<1>2. IsUrl(url)
  <2>1. "none" \in Tokens
    BY UrlAssumption
  <2>2. <<>> \in Seq(Tokens) /\ <<>> \in Seq(Seq(Segment)) /\ <<>> \in Seq(Seq(Tokens))
    BY EmptySeq
  <2> DEFINE e == <<>>
             f == FALSE
             s == "none"
  <2>3. url = [scheme |-> s, authority |-> f, username |-> e, password |-> e, host |-> e,
               port |-> e, path |-> e, query |-> e, fragment |-> e]
    BY DEF NoUrl
  <2>4. /\ e \in Seq(Tokens) /\ e \in Seq(Seq(Segment)) /\ e \in Seq(Seq(Tokens))
        /\ e \in {<<>>} \cup {<<n>> : n \in DOMAIN PortNumber} /\ Len(e) <= 1 /\ e = <<>>
        /\ s \in Tokens /\ s \notin {"http", "ws"} /\ f \in BOOLEAN
    BY <2>1, <2>2
  <2> HIDE DEF url, e, f, s
  <2>5. url \in [scheme : Tokens, authority : BOOLEAN,
               username : Seq(Tokens), password : Seq(Tokens),
               host : Seq(Tokens), port : {<<>>} \cup {<<n>> : n \in DOMAIN PortNumber},
               path : Seq(Tokens),
               query : Seq(Seq(Segment)), fragment : Seq(Seq(Tokens))]
    BY <2>3, <2>4
  <2>6. /\ url.scheme = s /\ url.host = e /\ url.username = e /\ url.password = e
        /\ url.port = e /\ url.query = e /\ url.fragment = e
    BY <2>3
  <2> QED
    BY <2>4, <2>5, <2>6 DEF IsUrl, IsQuery, Network
<1>3. IsParams(p) /\ IsWalk(w, p) /\ p = <<>>
  BY NoWalkIsWalk DEF IsParams
<1>4. /\ object = [u \in Objects |-> x] /\ urls = {} /\ slot = <<>> /\ stack = <<>>
  BY DEF UrlInit
<1> HIDE DEF b, p, url, w, x
<1>5. IsObject(x)
  BY <1>1, <1>2, <1>3, NewFields
<1>6. <<>> \in Seq(Frames)
  BY EmptySeq
<1>7. object = [u \in Objects |-> object[u]] /\ \A u \in Objects : object[u] = x
  BY <1>4
<1> QED
  BY <1>4, <1>5, <1>6, <1>7 DEF UrlInv, IsSlot

LEMMA UrlInvNext ==
    ASSUME ~Subclass => AllMeasured
    PROVE  UrlInv /\ [UrlNext]_urlVars => UrlInv'
<1> SUFFICES ASSUME UrlInv, [UrlNext]_urlVars PROVE UrlInv'
  OBVIOUS
<1>1. CASE UNCHANGED urlVars
  <2>1. object' = object /\ urls' = urls /\ slot' = slot /\ stack' = stack
    BY <1>1 DEF urlVars
  <2> QED
    BY <2>1, Zenon DEF UrlInv
<1>2. ASSUME NEW u \in Objects, NEW t \in Texts,
             ConstructUrl(u, t) \/ BlobOrigin(u, t) \/ BeginParse(u, t) \/ SetHref(u, t)
      PROVE  UrlInv'
  BY <1>2, ConstructKeeps, ParseKeeps, SetHrefKeeps
<1>3. ASSUME NEW t \in Texts, CanParse(t) PROVE UrlInv'
  BY <1>3, ParseKeeps
<1>4. CASE EndParse
  BY <1>4, EndParseKeeps
<1>5. ASSUME NEW u \in Objects, NEW q \in Queries, SetSearch(u, q) PROVE UrlInv'
  BY <1>5, SetSearchKeeps
<1>6. ASSUME NEW u \in Objects, NEW n \in Names, NEW v \in Values,
             AppendPair(u, n, v) \/ DeletePair(u, n, v) \/ SetPair(u, n, v)
      PROVE  UrlInv'
  BY <1>6, PairChangesKeep
<1>7. ASSUME NEW u \in Objects, Sort(u) \/ \E n \in Names : DeleteName(u, n)
      PROVE  UrlInv'
  BY <1>7, ListChangesKeep
<1>9. ASSUME NEW u \in Objects, BeginWalk(u) \/ Visit(u) \/ EndWalk(u) PROVE UrlInv'
  BY <1>9, BeginWalkKeeps, VisitKeeps, EndWalkKeeps
<1>10. ASSUME NEW u \in Objects, GetSearchParams(u) \/ \E i \in Inits : CreateParams(u, i)
       PROVE  UrlInv'
  BY <1>10, SearchParamsKeep
<1>11. ASSUME NEW u \in Objects,
              \/ SetHash(u) \/ SetUsername(u) \/ SetPassword(u) \/ SetProtocol(u)
              \/ \E h \in Hosts : SetHostname(u, h)
              \/ \E h \in Hosts, p \in {<<>>, <<"0">>} : SetHost(u, h, p)
              \/ \E p \in {<<>>, <<"0">>} : SetPort(u, p)
              \/ \E p \in Paths : SetPathname(u, p)
       PROVE  UrlInv'
  BY <1>11, SettersKeep
<1> QED
  BY <1>1, <1>2, <1>3, <1>4, <1>5, <1>6, <1>7, <1>9, <1>10, <1>11, Zenon DEF UrlNext

-----------------------------------------------------------------------------
(* The offsets are measured, as long as no user code runs between an op and  *)
(* the reads of what it leaves.                                              *)

\* A call of URL.parse finds what its op left.
Awaits(f) ==
    /\ f \in Frames /\ buf = Offsets(f.text.url, 0)
    /\ f.text.status = "changed" => slot = <<f.text.url>>

OffsetsInv ==
    /\ UrlInv
    /\ \A u \in urls : Measured(object[u])
    /\ stack = <<>> \/ \E f : stack = <<f>> /\ Awaits(f)

LEMMA PutMeasures ==
    ASSUME UrlInv, AllMeasured, NEW u \in Objects, NEW x, object' = [object EXCEPT ![u] = x],
           urls' \subseteq urls \cup {u}, u \in urls' => Measured(x)
    PROVE  AllMeasured'
<1>1. object'[u] = x /\ \A v \in Objects \ {u} : object'[v] = object[v]
  BY DEF UrlInv
<1>2. ASSUME NEW v \in urls' PROVE Measured(object'[v])
  <2>1. CASE v = u
    BY <2>1, <1>1, <1>2, Zenon
  <2>2. CASE v # u
    <3>1. v \in urls /\ v \in Objects
      BY <2>2, <1>2 DEF UrlInv
    <3> QED
      BY <3>1, <2>2, <1>1, Zenon DEF AllMeasured
  <2> QED
    BY <2>1, <2>2
<1> QED
  BY <1>2, Zenon DEF AllMeasured

LEMMA ReparseMeasures ==
    ASSUME UrlInv, AllMeasured, NEW u \in Objects, NEW url, NEW params, Reparse(u, url, params)
    PROVE  AllMeasured' /\ stack' = stack
<1> DEFINE href == object[u].serialization
           status == IF url = href THEN "same" ELSE "changed"
           held == IF status = "changed" THEN <<url>> ELSE slot
           w == WalkOver(object[u].walk, object[u].params, params)
           op == opUrlReparse(href, url)
           x == Fields(op, href, params, w)
           b == op.buf
<1>1. op.status = status /\ op.slot = held /\ b = Offsets(url, NO_PORT)
  BY DEF opUrlReparse, Op
<1>2. status \in {"same", "changed"} /\ (status = "same" => url = href)
  OBVIOUS
<1>3. /\ object' = [object EXCEPT ![u] = x]
      /\ UNCHANGED <<stack, panicked>> /\ UNCHANGED urls
  BY DEF Reparse, Apply
<1>4. x = [serialization |-> Serialization(op.status, href, op.slot), offsets |-> op.buf,
           params |-> params, walk |-> w]
  BY DEF Fields
<1>5. status = "changed" => held = <<url>>
  OBVIOUS
<1> HIDE DEF w, op, x, b, held
<1>6. Serialization(status, href, held) = url
  BY <1>2, <1>5 DEF Serialization
<1>7. x.serialization = url /\ x.offsets = b
  BY <1>1, <1>4, <1>6 DEF b
<1>8. Measured(x)
  BY <1>1, <1>7, Zenon DEF Measured
<1> QED
  BY <1>3, <1>8, PutMeasures

\* An op on a text, and the reads after it.
LEMMA ParseMeasures ==
    ASSUME UrlInv, AllMeasured, NEW u \in Objects, NEW t \in Texts,
           ConstructUrl(u, t) \/ SetHref(u, t)
    PROVE  AllMeasured' /\ stack' = stack
<1> DEFINE op == opUrlParse(t)
           b == op.buf
           X(params, walk) == Fields(op, t.url, params, walk)
<1>1. t.status # "invalid" /\ IsSlot(slot)
  BY DEF ConstructUrl, SetHref, UrlInv
<1>2. op.status = t.status /\ Serialization(t.status, t.url, op.slot) = t.url
  BY <1>1, ParseOp
<1>3. b = Offsets(t.url, 0)
  BY <1>1 DEF opUrlParse, Op
<1>4. \A params, walk : X(params, walk) =
         [serialization |-> t.url, offsets |-> b, params |-> params, walk |-> walk]
  BY <1>2 DEF Fields
<1>5. urls' \subseteq urls \cup {u} /\ stack' = stack
  BY DEF ConstructUrl, SetHref, Apply
<1>6. ASSUME NEW params, NEW walk, object' = [object EXCEPT ![u] = X(params, walk)]
      PROVE  AllMeasured'
  <2> DEFINE x == X(params, walk)
  <2> HIDE DEF b, x
  <2>1. x = [serialization |-> t.url, offsets |-> b, params |-> params, walk |-> walk]
    BY <1>4 DEF x
  <2>2. x.serialization = t.url /\ x.offsets = b
    BY <2>1
  <2>3. Measured(x)
    BY <1>3, <2>2, Zenon DEF Measured
  <2>4. object' = [object EXCEPT ![u] = x]
    BY <1>6 DEF x
  <2> QED
    BY <1>5, <2>3, <2>4, PutMeasures
<1>7. \E params, walk : object' = [object EXCEPT ![u] = X(params, walk)]
  BY DEF ConstructUrl, SetHref
<1> HIDE DEF X
<1> QED
  BY <1>5, <1>6, <1>7, Zenon

\* The list and the walk are beside the URL.
LEMMA ListMeasures ==
    ASSUME UrlInv, AllMeasured, NEW u \in Objects, NEW p, NEW w, urls' = urls,
           \/ object' = [object EXCEPT ![u] = [object[u] EXCEPT !.params = p]]
           \/ object' = [object EXCEPT ![u] = [object[u] EXCEPT !.walk = w]]
           \/ object' = [object EXCEPT ![u] = [object[u] EXCEPT !.params = p, !.walk = w]]
    PROVE  AllMeasured'
<1> DEFINE s == object[u].serialization
           o == object[u].offsets
           q == object[u].params
           v == object[u].walk
           y == object[u]
           r == [y EXCEPT !.params = p]
           k == [y EXCEPT !.walk = w]
           z == [r EXCEPT !.walk = w]
<1>1. y = [serialization |-> s, offsets |-> o, params |-> q, walk |-> v]
  BY DEF UrlInv, IsObject
<1>2. \E x \in {r, k, z} : object' = [object EXCEPT ![u] = x]
  OBVIOUS
<1>3. \A x \in {r, k, z} : x.serialization = s /\ x.offsets = o
  <2> HIDE DEF y, s, o, q, v
  <2>1. r = [serialization |-> s, offsets |-> o, params |-> p, walk |-> v]
    BY <1>1
  <2>2. k = [serialization |-> s, offsets |-> o, params |-> q, walk |-> w]
    BY <1>1
  <2> HIDE DEF r, k
  <2>3. z = [serialization |-> s, offsets |-> o, params |-> p, walk |-> w]
    BY <2>1
  <2> HIDE DEF z
  <2> QED
    BY <2>1, <2>2, <2>3
<1> HIDE DEF r, k, z
<1>4. PICK x \in {r, k, z} : object' = [object EXCEPT ![u] = x]
  BY <1>2
<1>5. u \in urls' => Measured(x)
  BY <1>3, <1>4, Zenon DEF AllMeasured, Measured
<1> QED
  BY <1>4, <1>5, PutMeasures

\* What user code calls, apart from the parsers, changes a URL by one reparse or
\* only the list and the walk beside it.
Reparses(u) == \E url, params : Reparse(u, url, params)
Lists(u) ==
    /\ UNCHANGED <<urls, stack>>
    /\ \E p, w :
          \/ object' = [object EXCEPT ![u] = [object[u] EXCEPT !.params = p]]
          \/ object' = [object EXCEPT ![u] = [object[u] EXCEPT !.walk = w]]
          \/ object' = [object EXCEPT ![u] = [object[u] EXCEPT !.params = p, !.walk = w]]

Setter(u) ==
    \/ SetHash(u) \/ SetUsername(u) \/ SetPassword(u) \/ SetProtocol(u)
    \/ \E host \in Hosts : SetHostname(u, host)
    \/ \E host \in Hosts, port \in {<<>>, <<"0">>} : SetHost(u, host, port)
    \/ \E port \in {<<>>, <<"0">>} : SetPort(u, port)
    \/ \E path \in Paths : SetPathname(u, path)
    \/ \E q \in Queries : SetSearch(u, q)

ListCall(u) ==
    \/ GetSearchParams(u)
    \/ \E i \in Inits : CreateParams(u, i)
    \/ \E n \in Names, v \in Values :
          AppendPair(u, n, v) \/ DeletePair(u, n, v) \/ SetPair(u, n, v)
    \/ \E n \in Names : DeleteName(u, n)
    \/ Sort(u) \/ BeginWalk(u) \/ Visit(u) \/ EndWalk(u)

LEMMA SettersReparse ==
    ASSUME NEW u, Setter(u)
    PROVE  UserCode /\ Reparses(u)
<1>1. ASSUME NEW url, Assign(u, url) PROVE UserCode /\ Reparses(u)
  BY <1>1, Zenon DEF Assign, Reparses
<1>2. ASSUME NEW q, SetSearch(u, q) PROVE UserCode /\ Reparses(u)
  BY <1>2, Zenon DEF SetSearch, Reparses
<1>3. CASE SetHash(u)
  BY <1>1, <1>3, Zenon DEF SetHash
<1>4. CASE SetUsername(u)
  BY <1>1, <1>4, Zenon DEF SetUsername
<1>5. CASE SetPassword(u)
  BY <1>1, <1>5, Zenon DEF SetPassword
<1>6. CASE SetProtocol(u)
  BY <1>1, <1>6, Zenon DEF SetProtocol
<1>7. ASSUME NEW host \in Hosts, SetHostname(u, host) PROVE UserCode /\ Reparses(u)
  BY <1>1, <1>7, Zenon DEF SetHostname
<1>8. ASSUME NEW host \in Hosts, NEW port \in {<<>>, <<"0">>}, SetHost(u, host, port)
      PROVE  UserCode /\ Reparses(u)
  BY <1>1, <1>8, Zenon DEF SetHost
<1>9. ASSUME NEW port \in {<<>>, <<"0">>}, SetPort(u, port) PROVE UserCode /\ Reparses(u)
  BY <1>1, <1>9, Zenon DEF SetPort
<1>10. ASSUME NEW path \in Paths, SetPathname(u, path) PROVE UserCode /\ Reparses(u)
  BY <1>1, <1>10, Zenon DEF SetPathname
<1> QED
  BY <1>2, <1>3, <1>4, <1>5, <1>6, <1>7, <1>8, <1>9, <1>10, Zenon DEF Setter

LEMMA ListCallsKeep ==
    ASSUME UrlInv, NEW u \in Objects, ListCall(u)
    PROVE  UserCode /\ (Reparses(u) \/ Lists(u))
<1>1. ASSUME NEW p, object' = [object EXCEPT ![u].params = p], UNCHANGED <<urls, stack>>
      PROVE  Lists(u)
  <2>1. object' = [object EXCEPT ![u] = [object[u] EXCEPT !.params = p]]
    BY <1>1
  <2> QED
    BY <1>1, <2>1, Zenon DEF Lists
<1>2. ASSUME NEW w, SetWalk(u, w) PROVE Lists(u)
  <2>1. object' = [object EXCEPT ![u] = [object[u] EXCEPT !.walk = w]]
    BY <1>2 DEF SetWalk
  <2>2. UNCHANGED <<urls, stack>>
    BY <1>2 DEF SetWalk
  <2> QED
    BY <2>1, <2>2, Zenon DEF Lists
<1>3. ASSUME NEW list, HasList(u), Change(u, list)
      PROVE  UserCode /\ (Reparses(u) \/ Lists(u))
  <2>1. UserCode
    BY <1>3 DEF HasList
  <2>2. CASE u \in urls
    BY <1>3, <2>1, <2>2, Zenon DEF Change, UpdateUrlSearch, Reparses
  <2>3. CASE u \notin urls
    <3> DEFINE w == WalkOver(object[u].walk, object[u].params, <<list>>)
               p == <<list>>
    <3>1. object' = [object EXCEPT ![u] = [object[u] EXCEPT !.params = p, !.walk = w]]
      BY <1>3, <2>3 DEF Change, UrlInv
    <3>2. UNCHANGED <<urls, stack>>
      BY <1>3, <2>3 DEF Change
    <3> HIDE DEF p, w
    <3>3. Lists(u)
      BY <3>1, <3>2, Zenon DEF Lists
    <3> QED
      BY <2>1, <3>3
  <2> QED
    BY <2>2, <2>3
<1>4. CASE GetSearchParams(u) \/ \E i \in Inits : CreateParams(u, i)
  <2>1. UserCode /\ UNCHANGED <<urls, stack>>
    BY <1>4 DEF GetSearchParams, CreateParams
  <2>2. \E p : object' = [object EXCEPT ![u].params = p]
    BY <1>4, Zenon DEF GetSearchParams, CreateParams
  <2> QED
    BY <1>1, <2>1, <2>2
<1>5. CASE BeginWalk(u) \/ Visit(u) \/ EndWalk(u)
  <2>1. UserCode
    BY <1>5 DEF BeginWalk, Visit, EndWalk, HasList
  <2>2. \E w : SetWalk(u, w)
    BY <1>5, Zenon DEF BeginWalk, Visit, EndWalk
  <2> QED
    BY <1>2, <2>1, <2>2
<1>6. ASSUME NEW n \in Names, NEW v \in Values,
             AppendPair(u, n, v) \/ DeletePair(u, n, v) \/ SetPair(u, n, v)
      PROVE  UserCode /\ (Reparses(u) \/ Lists(u))
  BY <1>3, <1>6, Zenon DEF AppendPair, DeletePair, SetPair
<1>7. CASE Sort(u) \/ \E n \in Names : DeleteName(u, n)
  BY <1>3, <1>7, Zenon DEF Sort, DeleteName
<1> QED
  BY <1>4, <1>5, <1>6, <1>7, Zenon DEF ListCall

LEMMA UserCodeMeasures ==
    ASSUME OffsetsInv, ~Subclass, NEW u \in Objects, Setter(u) \/ ListCall(u)
    PROVE  AllMeasured' /\ stack' = <<>>
<1>1. UrlInv /\ AllMeasured
  BY DEF OffsetsInv, AllMeasured
<1>2. UserCode /\ (Reparses(u) \/ Lists(u))
  BY <1>1, SettersReparse, ListCallsKeep
<1>3. stack = <<>>
  BY <1>2 DEF UserCode
<1>4. CASE Reparses(u)
  BY <1>1, <1>3, <1>4, ReparseMeasures, Zenon DEF Reparses
<1>5. CASE Lists(u)
  <2>1. stack' = stack /\ urls' = urls
    BY <1>5 DEF Lists
  <2>2. AllMeasured'
    BY <1>1, <1>5, <2>1, ListMeasures, Zenon DEF Lists
  <2> QED
    BY <1>3, <2>1, <2>2
<1> QED
  BY <1>2, <1>4, <1>5

LEMMA BeginParseMeasures ==
    ASSUME OffsetsInv, ~Subclass, NEW u \in Objects, NEW t \in Texts, BeginParse(u, t)
    PROVE  /\ object' = object /\ urls' = urls
           /\ \E f : stack' = <<f>> /\ Awaits(f)'
<1> DEFINE f == [object |-> u, text |-> t]
<1>1. /\ stack = <<>> /\ t.status # "invalid"
      /\ buf' = opUrlParse(t).buf /\ slot' = opUrlParse(t).slot
      /\ stack' = Append(stack, f) /\ object' = object /\ urls' = urls
  BY DEF BeginParse, UserCode
<1>2. f \in Frames /\ f.text = t
  BY <1>1 DEF Frames
<1>3. stack' = <<f>>
  <2> HIDE DEF f
  <2> QED
    BY <1>1
<1>4. buf' = Offsets(t.url, 0) /\ (t.status = "changed" => slot' = <<t.url>>)
  BY <1>1 DEF opUrlParse, Op
<1> HIDE DEF f
<1>5. Awaits(f)'
  BY <1>2, <1>4 DEF Awaits
<1> QED
  BY <1>1, <1>3, <1>5

LEMMA EndParseMeasures ==
    ASSUME OffsetsInv, EndParse
    PROVE  AllMeasured' /\ stack' = <<>>
<1>1. UrlInv /\ AllMeasured /\ stack # <<>>
  BY DEF OffsetsInv, AllMeasured, EndParse
<1>2. PICK f : stack = <<f>> /\ Awaits(f)
  BY <1>1 DEF OffsetsInv
<1> DEFINE u == f.object
           t == f.text
<1>3. u \in Objects /\ t \in Texts /\ t.status # "invalid"
  BY <1>2 DEF Awaits, Frames
<1>4. Last(stack) = f /\ stack' = <<>>
  <2>1. Len(<<f>>) = 1 /\ <<f>>[1] = f
    OBVIOUS
  <2>2. Last(stack) = f
    BY <1>2, <2>1 DEF Last
  <2>3. stack' = SubSeq(<<f>>, 1, 1 - 1)
    BY <1>2, <2>1 DEF EndParse, Front
  <2>4. SubSeq(<<f>>, 1, 0) = <<>>
    BY SubSeqEmpty
  <2> QED
    BY <2>2, <2>3, <2>4
<1>5. /\ buf = Offsets(t.url, 0)
      /\ t.status = "changed" => slot = <<t.url>>
  BY <1>2 DEF Awaits
<1> HIDE DEF u, t
<1> DEFINE url == Serialization(t.status, t.url, slot)
           x == [serialization |-> url, offsets |-> buf, params |-> <<>>, walk |-> NoWalk]
<1>6. /\ object' = [object EXCEPT ![u] = x] /\ urls' = urls \cup {u}
  <2>1. <<t.url>> # <<>>
    OBVIOUS
  <2>2. ~(t.status = "changed" /\ slot = <<>>)
    BY <1>5, <2>1, Zenon
  <2> QED
    BY <1>4, <2>2, Zenon DEF EndParse, u, t
<1>7. url = t.url
  <2>1. t.status \in {"same", "changed"}
    BY <1>3, UrlAssumption
  <2> QED
    BY <1>5, <2>1 DEF Serialization
<1>8. x.serialization = t.url /\ x.offsets = buf
  <2> DEFINE w == NoWalk
  <2> HIDE DEF url, w
  <2> QED
    BY <1>7
<1> HIDE DEF x
<1>9. Measured(x)
  BY <1>5, <1>8, Zenon DEF Measured
<1>10. urls' \subseteq urls \cup {u}
  BY <1>6
<1>11. AllMeasured'
  BY <1>1, <1>3, <1>6, <1>9, <1>10, PutMeasures
<1> QED
  BY <1>4, <1>11

LEMMA OffsetsInvInit == UrlInit => OffsetsInv
BY UrlInvInit DEF UrlInit, OffsetsInv

LEMMA OffsetsInvNext ==
    ASSUME ~Subclass
    PROVE  OffsetsInv /\ [UrlNext]_urlVars => OffsetsInv'
<1> SUFFICES ASSUME OffsetsInv, [UrlNext]_urlVars PROVE OffsetsInv'
  OBVIOUS
<1>1. UrlInv /\ UrlInv' /\ AllMeasured
  BY UrlInvNext DEF OffsetsInv, AllMeasured
<1>2. ASSUME AllMeasured', stack' = <<>> PROVE OffsetsInv'
  BY <1>1, <1>2, Zenon DEF OffsetsInv, AllMeasured
<1>3. CASE UNCHANGED urlVars
  <2>1. /\ object' = object /\ urls' = urls /\ buf' = buf /\ slot' = slot /\ stack' = stack
    BY <1>3 DEF urlVars
  <2>2. AllMeasured'
    BY <1>1, <2>1, Zenon DEF AllMeasured
  <2>3. stack' = <<>> \/ \E f : stack' = <<f>> /\ Awaits(f)'
    BY <2>1, Zenon DEF OffsetsInv, Awaits
  <2> QED
    BY <1>1, <2>2, <2>3, Zenon DEF OffsetsInv, AllMeasured
<1>4. ASSUME NEW u \in Objects, NEW t \in Texts, ConstructUrl(u, t) \/ SetHref(u, t)
      PROVE  OffsetsInv'
  <2>1. stack = <<>>
    BY <1>4 DEF ConstructUrl, SetHref, UserCode
  <2>2. AllMeasured' /\ stack' = stack
    BY <1>1, <1>4, ParseMeasures
  <2> QED
    BY <1>2, <2>1, <2>2
<1>5. ASSUME NEW u \in Objects, NEW t \in Texts, BlobOrigin(u, t) \/ CanParse(t)
      PROVE  OffsetsInv'
  <2>1. stack = <<>> /\ object' = object /\ urls' = urls /\ stack' = stack
    BY <1>5 DEF BlobOrigin, CanParse, UserCode, Apply
  <2>2. AllMeasured'
    BY <1>1, <2>1, Zenon DEF AllMeasured
  <2> QED
    BY <1>2, <2>1, <2>2
<1>6. ASSUME NEW u \in Objects, NEW t \in Texts, BeginParse(u, t) PROVE OffsetsInv'
  <2>1. object' = object /\ urls' = urls /\ \E f : stack' = <<f>> /\ Awaits(f)'
    BY <1>6, BeginParseMeasures, Zenon
  <2>2. AllMeasured'
    BY <1>1, <2>1, Zenon DEF AllMeasured
  <2> QED
    BY <1>1, <2>1, <2>2, Zenon DEF OffsetsInv, AllMeasured
<1>7. CASE EndParse
  BY <1>2, <1>7, EndParseMeasures
<1>8. ASSUME NEW u \in Objects, Setter(u) \/ ListCall(u) PROVE OffsetsInv'
  BY <1>2, <1>8, UserCodeMeasures
<1>9. ASSUME NEW t \in Texts, CanParse(t) PROVE OffsetsInv'
  <2>1. stack = <<>> /\ object' = object /\ urls' = urls /\ stack' = stack
    BY <1>9 DEF CanParse, UserCode
  <2>2. AllMeasured'
    BY <1>1, <2>1, Zenon DEF AllMeasured
  <2> QED
    BY <1>2, <2>1, <2>2
<1> QED
  BY <1>3, <1>4, <1>5, <1>6, <1>7, <1>8, <1>9, Zenon DEF UrlNext, Setter, ListCall

LEMMA OffsetsInvariant == ASSUME ~Subclass PROVE UrlSpec => []OffsetsInv
<1>1. OffsetsInv /\ [UrlNext]_urlVars => OffsetsInv'
  BY OffsetsInvNext
<1> QED
  BY OffsetsInvInit, <1>1, PTL DEF UrlSpec

LEMMA UrlInvariant == UrlSpec => []UrlInv
<1>1. CASE Subclass
  <2>1. UrlInv /\ [UrlNext]_urlVars => UrlInv'
    BY <1>1, UrlInvNext
  <2> QED
    BY UrlInvInit, <2>1, PTL DEF UrlSpec
<1>2. CASE ~Subclass
  <2>1. UrlSpec => []OffsetsInv
    BY <1>2, OffsetsInvariant
  <2>2. OffsetsInv => UrlInv
    BY DEF OffsetsInv
  <2> QED
    BY <2>1, <2>2, PTL
<1> QED
  BY <1>1, <1>2

-----------------------------------------------------------------------------
(* What follows from the invariants.                                        *)

\* However the URL and its list are changed, one at a time and by whichever of
\* the two interfaces, with a walk under way or not: the list of the searchParams
\* of a URL is what its query means, and get, getAll and has find in the list what
\* the query has (#updateSearchParams, #updateUrlSearch, GetSearchParams), as long as
\* no constructor of a subclass runs in the middle of URL.parse.
THEOREM SearchParamsAgree == ASSUME ~Subclass PROVE UrlSpec => []SearchParamsInSync
<1>1. UrlInv => SearchParamsInSync
  <2> SUFFICES ASSUME UrlInv, NEW u \in urls, object[u].params # <<>>
               PROVE  LET list == ListOf(u)
                          query == object[u].serialization.query
                      IN  list = Pairs(query) /\ \A n \in Names : LookupsTell(list, query, n)
    BY Zenon DEF SearchParamsInSync, LookupsTell, SegmentsOf
  <2> DEFINE list == ListOf(u)
             query == object[u].serialization.query
  <2>1. list = Pairs(query) /\ IsQuery(query) /\ list \in Seq(Pair)
    <3>1. u \in Objects /\ InSync(object[u]) /\ IsObject(object[u])
      BY DEF UrlInv
    <3> QED
      BY <3>1, ListType DEF InSync, IsObject, IsUrl, ListOf
  <2> HIDE DEF list, query
  <2>2. \A n \in Names : LookupsTell(list, query, n)
    BY <2>1, LookupsAgree, Zenon
  <2> QED
    BY <2>1, <2>2, Zenon DEF list, query
<1> QED
  BY <1>1, UrlInvariant, PTL

\* An iterator or a forEach that has come to its end has visited each pair of the
\* list once and in order, pairs appended meanwhile included, unless a change took
\* pairs away or moved them (mixinPairIterable, forEach).
THEOREM WalksAreComplete == UrlSpec => []WalkIsComplete
<1>1. UrlInv => WalkIsComplete
  <2> SUFFICES ASSUME UrlInv, NEW u \in Objects, object[u].params # <<>>,
                      object[u].walk.index > Len(ListOf(u)), ~object[u].walk.moved
               PROVE  object[u].walk.visited = NamesOf(ListOf(u))
    BY DEF WalkIsComplete
  <2> DEFINE list == ListOf(u)
             w == object[u].walk
             n == w.index
             a == w.visited
             b == NamesOf(list)
  <2>1. list \in Seq(Pair) /\ IsWalk(w, object[u].params)
    BY ListType DEF UrlInv, IsObject
  <2>2. Len(list) \in Nat /\ DOMAIN list = 1 .. Len(list)
    BY <2>1, LenProperties
  <2>3. n \in Nat /\ n > Len(list)
    BY <2>1 DEF IsWalk
  <2>4. n # 0
    <3> HIDE DEF n, list
    <3> QED
      BY <2>2, <2>3
  <2>5. Visited(w, list)
    BY <2>1, <2>4, Zenon DEF IsWalk, ListOf
  <2>6. /\ Len(a) = n - 1 /\ a \in Seq(Names) /\ n - 1 <= Len(list)
        /\ \A i \in 1 .. n - 1 : a[i] = list[i].name
    BY <2>5 DEF Visited
  <2>7. b = [i \in DOMAIN list |-> list[i].name]
    BY DEF NamesOf
  <2> HIDE DEF list, w, n, a, b
  <2>8. n - 1 = Len(list)
    BY <2>2, <2>3, <2>6
  <2>9. a \in [1 .. Len(list) -> Names]
    BY <2>6, <2>8, LenProperties
  <2>10. a = b
    BY <2>2, <2>6, <2>7, <2>8, <2>9
  <2> QED
    BY <2>10 DEF a, b, w, list
<1> QED
  BY <1>1, UrlInvariant, PTL

\* The getters of a URL object give the components of its serialization, whatever
\* calls have changed it and whatever URL used the shared buffer meanwhile, when
\* no constructor of a subclass runs in the middle of URL.parse
\* (#updateComponents, getSerialization, the getters of URL).
THEOREM GettersGiveComponents == ASSUME ~Subclass PROVE UrlSpec => []GettersAgree
<1>1. OffsetsInv => GettersAgree
  <2> SUFFICES ASSUME OffsetsInv, NEW u \in urls
               PROVE  LET url == object[u].serialization
                          s == Text(url)
                          o == object[u].offsets
                      IN  /\ Protocol(s, o) = <<url.scheme, ":">>
                          /\ Username(s, o) = url.username /\ Password(s, o) = url.password
                          /\ Hostname(s, o) = url.host /\ Port(s, o) = url.port
                          /\ Host(s, o) = url.host \o Wrap(":", url.port)
                          /\ Pathname(s, o) = url.path
                          /\ Search(s, o) = Trim(TextOf("?", url.query))
                          /\ Hash(s, o) = Trim(TextOf("#", url.fragment))
                          /\ Network(url) =>
                                Origin(s, o) = <<url.scheme, ":", "/", "/">> \o Host(s, o)
    BY Zenon DEF GettersAgree
  <2> DEFINE url == object[u].serialization
             o == object[u].offsets
  <2>1. IsUrl(url)
    BY DEF OffsetsInv, UrlInv, IsObject
  <2>2. PICK noPort \in {0, NO_PORT} : o = Offsets(url, noPort)
    BY DEF OffsetsInv, Measured
  <2>3. Measures(o, url)
    BY <2>1, <2>2, OffsetsMeasure
  <2> HIDE DEF url, o
  <2> QED
    BY <2>1, <2>3, GettersCut, Zenon DEF url, o
<1> QED
  BY <1>1, OffsetsInvariant, PTL

\* In the same case a call of URL.parse whose op left a serialization takes that
\* one and no other, and never finds the slot empty (op_url_get_serialization).
THEOREM ParseTakesItsOwn ==
    ASSUME ~Subclass
    PROVE  UrlSpec => [](OwnSerialization /\ ~panicked)
<1> DEFINE Inv == OffsetsInv /\ ~panicked
<1>1. OffsetsInv => OwnSerialization
  <2> SUFFICES ASSUME OffsetsInv, stack # <<>>, Last(stack).text.status = "changed"
               PROVE  slot = <<Last(stack).text.url>>
    BY DEF OwnSerialization
  <2>1. PICK f : stack = <<f>> /\ Awaits(f)
    BY DEF OffsetsInv
  <2>2. Last(stack) = f
    <3>1. Len(<<f>>) = 1 /\ <<f>>[1] = f
      OBVIOUS
    <3> QED
      BY <2>1, <3>1 DEF Last
  <2> QED
    BY <2>1, <2>2 DEF Awaits
<1>2. UrlInit => Inv
  BY OffsetsInvInit DEF UrlInit
<1>3. Inv /\ [UrlNext]_urlVars => Inv'
  <2> SUFFICES ASSUME OffsetsInv, ~panicked, [UrlNext]_urlVars PROVE Inv'
    OBVIOUS
  <2>1. OffsetsInv'
    BY OffsetsInvNext
  <2>2. panicked' = panicked \/ EndParse
    <3>1. ASSUME NEW u, ListCall(u) PROVE panicked' = panicked
      <4>1. ASSUME NEW list, Change(u, list) PROVE panicked' = panicked
        BY <4>1 DEF Change, UpdateUrlSearch, Reparse, Apply
      <4>2. ASSUME NEW w, SetWalk(u, w) PROVE panicked' = panicked
        BY <4>2 DEF SetWalk
      <4>3. CASE GetSearchParams(u) \/ \E i \in Inits : CreateParams(u, i)
        BY <4>3 DEF GetSearchParams, CreateParams
      <4> QED
        BY <3>1, <4>1, <4>2, <4>3, Zenon
           DEF ListCall, AppendPair, DeletePair, SetPair, DeleteName, Sort, BeginWalk,
               Visit, EndWalk
    <3>2. ASSUME NEW u, Setter(u) PROVE panicked' = panicked
      <4>1. Reparses(u)
        BY <3>2, SettersReparse
      <4> QED
        BY <4>1 DEF Reparses, Reparse, Apply
    <3>3. ASSUME NEW u \in Objects, NEW t \in Texts,
                 ConstructUrl(u, t) \/ BlobOrigin(u, t) \/ BeginParse(u, t) \/ SetHref(u, t)
          PROVE  panicked' = panicked
      BY <3>3 DEF ConstructUrl, BlobOrigin, BeginParse, SetHref, Apply
    <3>4. ASSUME NEW t \in Texts, CanParse(t) PROVE panicked' = panicked
      BY <3>4 DEF CanParse
    <3>5. CASE UNCHANGED urlVars
      BY <3>5 DEF urlVars
    <3> QED
      BY <3>1, <3>2, <3>3, <3>4, <3>5, Zenon DEF UrlNext, Setter, ListCall
  <2>3. CASE EndParse
    <3> DEFINE t == Last(stack).text
    <3>1. OwnSerialization /\ stack # <<>>
      BY <1>1, <2>3 DEF EndParse
    <3>2. <<t.url>> # <<>>
      OBVIOUS
    <3>3. ~(t.status = "changed" /\ slot = <<>>)
      BY <3>1, <3>2, Zenon DEF OwnSerialization
    <3> HIDE DEF t
    <3>4. UNCHANGED <<buf, panicked>>
      BY <2>3, <3>3, Zenon DEF EndParse, t
    <3> QED
      BY <2>1, <3>4
  <2> QED
    BY <2>1, <2>2, <2>3
<1>4. Inv => OwnSerialization /\ ~panicked
  BY <1>1
<1> QED
  BY <1>2, <1>3, <1>4, PTL DEF UrlSpec
=============================================================================
