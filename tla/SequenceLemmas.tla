------------------------------ MODULE SequenceLemmas ------------------------------
(* Facts about FIFO queues whose contents are split over several sequences,  *)
(* about functions computed by recursion, and about Select and Sums.         *)
EXTENDS Integers, Sequences, SequencesExt, SeqFunctions, SequenceTheorems,
        WellFoundedInduction, TLAPS

\* Moving the head of a queue to the end of the sequence before it changes
\* nothing in their concatenation: the receive step of every channel.
LEMMA MoveHead ==
    ASSUME NEW S, NEW d \in Seq(S), NEW q \in Seq(S), q # <<>>
    PROVE  /\ Append(d, Head(q)) \in Seq(S)
           /\ Tail(q) \in Seq(S)
           /\ Append(d, Head(q)) \o Tail(q) = d \o q
<1>1. /\ Head(q) \in S
      /\ Tail(q) \in Seq(S)
      /\ Len(Tail(q)) = Len(q) - 1
      /\ \A i \in 1 .. Len(Tail(q)) : Tail(q)[i] = q[i + 1]
      /\ Head(q) = q[1]
  BY HeadTailProperties
<1>2. /\ Append(d, Head(q)) \in Seq(S)
      /\ Len(Append(d, Head(q))) = Len(d) + 1
      /\ \A i \in 1 .. Len(d) : Append(d, Head(q))[i] = d[i]
      /\ Append(d, Head(q))[Len(d) + 1] = Head(q)
  BY <1>1, AppendProperties
<1>3. Len(d) \in Nat /\ Len(q) \in Nat \ {0}
  BY LenProperties, EmptySeq
<1> DEFINE a == Append(d, Head(q)) \o Tail(q)
           b == d \o q
<1>4. /\ a \in Seq(S) /\ Len(a) = Len(d) + 1 + (Len(q) - 1)
      /\ \A i \in 1 .. Len(d) + 1 + (Len(q) - 1) : a[i] =
            IF i <= Len(d) + 1 THEN Append(d, Head(q))[i] ELSE Tail(q)[i - (Len(d) + 1)]
  BY <1>1, <1>2, ConcatProperties
<1>5. /\ b \in Seq(S) /\ Len(b) = Len(d) + Len(q)
      /\ \A i \in 1 .. Len(d) + Len(q) : b[i] =
            IF i <= Len(d) THEN d[i] ELSE q[i - Len(d)]
  BY ConcatProperties
<1>6. Len(a) = Len(b)
  BY <1>3, <1>4, <1>5
<1>7. ASSUME NEW i \in 1 .. Len(a) PROVE a[i] = b[i]
  <2>1. CASE i <= Len(d)
    BY <2>1, <1>2, <1>3, <1>4, <1>5
  <2>2. CASE i = Len(d) + 1
    BY <2>2, <1>1, <1>2, <1>3, <1>4, <1>5
  <2>3. CASE i > Len(d) + 1
    <3>1. i - (Len(d) + 1) \in 1 .. Len(Tail(q))
      BY <2>3, <1>1, <1>3, <1>4
    <3>2. Tail(q)[i - (Len(d) + 1)] = q[i - Len(d)]
      BY <3>1, <1>1, <1>3
    <3> QED
      BY <2>3, <3>2, <1>3, <1>4, <1>5
  <2> QED
    BY <2>1, <2>2, <2>3, <1>3, <1>4
<1>8. a = b
  BY <1>4, <1>5, <1>6, <1>7, SeqEqual
<1> QED
  BY <1>1, <1>2, <1>8

\* A message put at the end of the last queue is at the end of the whole.
LEMMA AppendLast ==
    ASSUME NEW S, NEW d \in Seq(S), NEW q \in Seq(S), NEW m \in S
    PROVE  d \o Append(q, m) = Append(d \o q, m)
<1>1. d \o q \in Seq(S) /\ Append(q, m) \in Seq(S) /\ <<m>> \in Seq(S)
  BY ConcatProperties, AppendProperties
<1>2. Append(q, m) = q \o <<m>> /\ Append(d \o q, m) = (d \o q) \o <<m>>
  BY <1>1, AppendIsConcat
<1> QED
  BY <1>1, <1>2, ConcatAssociative

\* The length of a concatenation, and what its first part contributes to it.
LEMMA ConcatLeft ==
    ASSUME NEW S, NEW p \in Seq(S), NEW r \in Seq(S)
    PROVE  /\ Len(p \o r) = Len(p) + Len(r)
           /\ \A i \in 1 .. Len(p) : (p \o r)[i] = p[i]
BY ConcatProperties, LenProperties

\* The first part of a concatenation is a prefix of it.
LEMMA PrefixOfConcat ==
    ASSUME NEW S, NEW p \in Seq(S), NEW r \in Seq(S)
    PROVE  /\ Len(p) <= Len(p \o r)
           /\ p = SubSeq(p \o r, 1, Len(p))
<1>1. /\ Len(p) \in Nat /\ Len(r) \in Nat
      /\ Len(p \o r) = Len(p) + Len(r)
      /\ p \o r \in Seq(S)
      /\ \A i \in 1 .. Len(p) : (p \o r)[i] = p[i] /\ p[i] \in S
  BY ConcatProperties, LenProperties, ElementOfSeq
<1>2. /\ SubSeq(p \o r, 1, Len(p)) \in Seq(S)
      /\ Len(SubSeq(p \o r, 1, Len(p))) = Len(p)
      /\ \A i \in 1 .. Len(p) : SubSeq(p \o r, 1, Len(p))[i] = (p \o r)[i]
  <2> DEFINE s == p \o r
             n == Len(p)
  <2>1. 1 \in Int /\ n \in Int /\ \A i \in 1 .. n : s[i] \in S
    BY <1>1
  <2> HIDE DEF s, n
  <2>2. /\ SubSeq(s, 1, n) \in Seq(S)
        /\ Len(SubSeq(s, 1, n)) = IF 1 <= n THEN n - 1 + 1 ELSE 0
        /\ \A i \in 1 .. n - 1 + 1 : SubSeq(s, 1, n)[i] = s[1 + i - 1]
    BY <2>1, SubSeqProperties
  <2>3. n \in Nat
    BY <1>1 DEF n
  <2> QED
    BY <2>2, <2>3 DEF s, n
<1> QED
  BY <1>1, <1>2, SeqEqual

\* What follows d in d \o q \o r is the head of q.
LEMMA NextInConcat ==
    ASSUME NEW S, NEW d \in Seq(S), NEW q \in Seq(S), NEW r \in Seq(S), q # <<>>
    PROVE  /\ Len(d) < Len((d \o q) \o r)
           /\ ((d \o q) \o r)[Len(d) + 1] = Head(q)
<1>1. /\ Len(d) \in Nat /\ Len(q) \in Nat \ {0} /\ Len(r) \in Nat
      /\ Head(q) = q[1]
  BY LenProperties, EmptySeq
<1>2. /\ d \o q \in Seq(S) /\ Len(d \o q) = Len(d) + Len(q)
      /\ (d \o q)[Len(d) + 1] = q[1]
  BY <1>1, ConcatProperties
<1>3. /\ Len((d \o q) \o r) = Len(d \o q) + Len(r)
      /\ \A i \in 1 .. Len(d \o q) : ((d \o q) \o r)[i] = (d \o q)[i]
  BY <1>2, ConcatLeft
<1> QED
  BY <1>1, <1>2, <1>3

\* Taking one element out of a queue keeps the others in their order.
LEMMA RemoveAtProperties ==
    ASSUME NEW S, NEW s \in Seq(S), NEW k \in 1 .. Len(s)
    PROVE  /\ RemoveAt(s, k) \in Seq(S)
           /\ Len(RemoveAt(s, k)) = Len(s) - 1
           /\ \A i \in 1 .. Len(s) - 1 :
                 RemoveAt(s, k)[i] = IF i < k THEN s[i] ELSE s[i + 1]
<1> DEFINE n == Len(s)
           left == SubSeq(s, 1, k - 1)
           right == SubSeq(s, k + 1, n)
<1>1. n \in Nat /\ k \in Nat /\ 1 <= k /\ k <= n /\ \A i \in 1 .. n : s[i] \in S
  BY LenProperties, ElementOfSeq
<1>2. /\ left \in Seq(S) /\ Len(left) = k - 1
      /\ \A i \in 1 .. k - 1 : left[i] = s[i]
  <2>1. 1 \in Int /\ k - 1 \in Int /\ \A i \in 1 .. k - 1 : s[i] \in S
    BY <1>1
  <2>2. /\ left \in Seq(S) /\ Len(left) = IF 1 <= k - 1 THEN (k - 1) - 1 + 1 ELSE 0
        /\ \A i \in 1 .. (k - 1) - 1 + 1 : left[i] = s[1 + i - 1]
    BY <2>1, SubSeqProperties
  <2> QED
    BY <1>1, <2>2
<1>3. /\ right \in Seq(S) /\ Len(right) = n - k
      /\ \A i \in 1 .. n - k : right[i] = s[i + k]
  <2>1. k + 1 \in Int /\ n \in Int /\ \A i \in k + 1 .. n : s[i] \in S
    BY <1>1
  <2>2. /\ right \in Seq(S) /\ Len(right) = IF k + 1 <= n THEN n - (k + 1) + 1 ELSE 0
        /\ \A i \in 1 .. n - (k + 1) + 1 : right[i] = s[(k + 1) + i - 1]
    BY <2>1, SubSeqProperties
  <2> QED
    BY <1>1, <2>2
<1>4. RemoveAt(s, k) = left \o right
  BY DEF RemoveAt
<1> HIDE DEF n, left, right
<1>5. /\ left \o right \in Seq(S)
      /\ Len(left \o right) = Len(left) + Len(right)
      /\ \A i \in 1 .. Len(left) + Len(right) : (left \o right)[i] =
            IF i <= Len(left) THEN left[i] ELSE right[i - Len(left)]
  BY <1>2, <1>3, ConcatProperties
<1>6. ASSUME NEW i \in 1 .. n - 1
      PROVE  (left \o right)[i] = IF i < k THEN s[i] ELSE s[i + 1]
  <2>1. CASE i < k
    BY <2>1, <1>1, <1>2, <1>3, <1>5
  <2>2. CASE i >= k
    <3>1. i - (k - 1) \in 1 .. n - k /\ (i - (k - 1)) + k = i + 1
      BY <2>2, <1>1
    <3>2. (left \o right)[i] = right[i - (k - 1)]
      BY <2>2, <1>1, <1>2, <1>3, <1>5
    <3> QED
      BY <2>2, <1>1, <1>3, <3>1, <3>2
  <2>3. i \in Int
    BY <1>1
  <2>4. i < k \/ i >= k
    BY <1>1, <2>3
  <2> QED
    BY <2>1, <2>2, <2>4
<1>7. Len(left \o right) = n - 1
  BY <1>1, <1>2, <1>3, <1>5
<1> QED
  BY <1>4, <1>5, <1>6, <1>7 DEF n

-----------------------------------------------------------------------------
(* Recursion and selection.                                                 *)

\* Induction over the naturals: a set that has 0 and the successors of its
\* elements has them all.  (The least number outside it would have none before.)
LEMMA SetInduction ==
    ASSUME NEW T, 0 \in T, \A n \in Nat : n \in T => n + 1 \in T
    PROVE  \A n \in Nat : n \in T
<1> DEFINE Bad == Nat \ T
           R == OpToRel(<, Nat)
<1> SUFFICES ASSUME Bad # {} PROVE FALSE
  OBVIOUS
<1>1. Bad \subseteq Nat
  OBVIOUS
<1>a. IsWellFoundedOn(R, Nat)
  BY NatLessThanWellFounded
<1>4. ASSUME NEW m \in Nat, m # 0 PROVE m - 1 \in Nat /\ <<m - 1, m>> \in R
  BY <1>4 DEF OpToRel
<1> HIDE DEF Bad, R
<1>2. PICK m \in Bad : \A k \in Bad : ~ (<<k, m>> \in R)
  BY <1>1, <1>a, WFMin
<1>3. m \in Nat /\ m # 0
  BY <1>1 DEF Bad
<1>5. m - 1 \in T
  BY <1>2, <1>3, <1>4 DEF Bad
<1> QED
  BY <1>3, <1>4, <1>5, <1>2 DEF Bad

\* f is computed by primitive recursion: it starts with b, and G gives the value
\* at n from n and the value before.
Computes(f, N, V, b, G) ==
    /\ f \in [0 .. N -> V] /\ f[0] = b
    /\ \A n \in 1 .. N : f[n] = G[<<n, f[n - 1]>>]

\* There is such a function for every b and G.
LEMMA RecursionExists ==
    ASSUME NEW N \in Nat, NEW V, NEW b \in V, NEW G,
           \A n \in 1 .. N : \A v \in V : G[<<n, v>>] \in V
    PROVE  \E f : Computes(f, N, V, b, G)
<1> DEFINE Good(k, f) == /\ f \in [0 .. k -> V] /\ f[0] = b
                         /\ \A n \in 1 .. k : f[n] = G[<<n, f[n - 1]>>]
           T == {k \in Nat : k <= N => \E f : Good(k, f)}
<1>1. 0 \in T
  <2>1. Good(0, [n \in 0 .. 0 |-> b])
    OBVIOUS
  <2> QED
    BY <2>1, Zenon
<1>2. ASSUME NEW k \in Nat, k \in T PROVE k + 1 \in T
  <2> SUFFICES ASSUME k + 1 <= N PROVE \E f : Good(k + 1, f)
    <3> HIDE DEF Good
    <3> QED
      BY DEF T
  <2>1. PICK f : Good(k, f)
    <3> HIDE DEF Good
    <3> QED
      BY <1>2
  <2> DEFINE g == [n \in 0 .. k + 1 |-> IF n <= k THEN f[n] ELSE G[<<k + 1, f[k]>>]]
  <2>2. G[<<k + 1, f[k]>>] \in V
    <3>1. f[k] \in V /\ k + 1 \in 1 .. N
      BY <2>1
    <3> QED
      BY <3>1
  <2>3. g \in [0 .. k + 1 -> V] /\ g[0] = b
    BY <2>1, <2>2
  <2>4. ASSUME NEW n \in 1 .. k + 1 PROVE g[n] = G[<<n, g[n - 1]>>]
    <3>1. CASE n <= k
      BY <2>1, <3>1
    <3>2. CASE n = k + 1
      BY <2>1, <3>2
    <3> QED
      BY <3>1, <3>2
  <2>5. Good(k + 1, g)
    BY <2>3, <2>4
  <2> QED
    BY <2>5
<1> HIDE DEF Good, T
<1>3. N \in T
  BY <1>1, <1>2, SetInduction
<1>4. PICK f : Good(N, f)
  BY <1>3 DEF T
<1> QED
  BY <1>4 DEF Good, Computes

\* A set of naturals that is not empty has a minimum.
LEMMA MinProperty ==
    ASSUME NEW T, T \subseteq Nat, T # {}
    PROVE  Min(T) \in T /\ \A n \in T : Min(T) <= n
<1> DEFINE R == OpToRel(<, Nat)
<1>1. IsWellFoundedOn(R, Nat)
  BY NatLessThanWellFounded
<1>2. \A i, j \in Nat : <<i, j>> \in R <=> i < j
  BY DEF OpToRel
<1> HIDE DEF R
<1>3. PICK m \in T : \A k \in T : ~(<<k, m>> \in R)
  BY <1>1, WFMin
<1>4. ASSUME NEW k \in T PROVE m <= k
  <2>1. m \in Nat /\ k \in Nat
    OBVIOUS
  <2>2. ~(k < m)
    BY <1>2, <1>3, <2>1, Zenon
  <2> QED
    BY <2>1, <2>2
<1> QED
  BY <1>3, <1>4 DEF Min

\* The selections from the beginnings of s.
Selects(of, S, s, T) ==
    /\ of \in [0 .. Len(s) -> Seq(S \cap T)]
    /\ of[0] = <<>> /\ Select(s, T) = of[Len(s)]
    /\ \A n \in 1 .. Len(s) :
          of[n] = IF s[n] \in T THEN Append(of[n - 1], s[n]) ELSE of[n - 1]

\* Select is what they end with.
LEMMA SelectSteps ==
    ASSUME NEW S, NEW s \in Seq(S), NEW T
    PROVE  \E of : Selects(of, S, s, T)
<1> DEFINE N == Len(s)
           V == Seq(S \cap T)
           G == [p \in (1 .. N) \X V |->
                   IF s[p[1]] \in T THEN Append(p[2], s[p[1]]) ELSE p[2]]
           R(f) == f = [n \in 0 .. N |-> IF n = 0 THEN <<>>
                             ELSE IF s[n] \in T THEN Append(f[n - 1], s[n]) ELSE f[n - 1]]
<1>1. N \in Nat /\ <<>> \in V /\ \A n \in 1 .. N : s[n] \in S
  BY LenProperties, EmptySeq, ElementOfSeq
<1>2. ASSUME NEW n \in 1 .. N, NEW v \in V PROVE G[<<n, v>>] \in V
  BY <1>1, AppendProperties
<1>3. \A n \in 1 .. N : \A v \in V : G[<<n, v>>] \in V
  BY <1>2
<1>4. \A n \in 1 .. N, v \in V : G[<<n, v>>] = IF s[n] \in T THEN Append(v, s[n]) ELSE v
  OBVIOUS
<1>5. Select(s, T) = (CHOOSE f : R(f))[N]
  BY Zenon DEF Select
<1> HIDE DEF G, V, N
<1>6. PICK g : Computes(g, N, V, <<>>, G)
  BY <1>1, <1>3, RecursionExists
<1>6a. \A n \in 1 .. N : g[n - 1] \in V
  BY <1>1, <1>6 DEF Computes
<1>6b. ASSUME NEW n \in 0 .. N
       PROVE  g[n] = IF n = 0 THEN <<>>
                     ELSE IF s[n] \in T THEN Append(g[n - 1], s[n]) ELSE g[n - 1]
  <2>1. CASE n = 0
    BY <2>1, <1>6 DEF Computes
  <2>2. CASE n # 0
    <3>1. n \in 1 .. N
      BY <2>2, <1>1
    <3> QED
      BY <3>1, <2>2, <1>6, <1>6a, <1>4 DEF Computes
  <2> QED
    BY <2>1, <2>2
<1>7. R(g)
  <2>1. g = [n \in 0 .. N |-> g[n]]
    BY <1>6 DEF Computes
  <2> QED
    BY <2>1, <1>6b, Zenon
<1> DEFINE of == CHOOSE f : R(f)
<1>8. R(of)
  BY <1>7, Zenon
<1> HIDE DEF of
<1>9. \A n \in 1 .. N : of[n] = IF s[n] \in T THEN Append(of[n - 1], s[n]) ELSE of[n - 1]
  <2> TAKE n \in 1 .. N
  <2>1. n \in 0 .. N /\ n # 0
    BY <1>1
  <2>2. of[n] = IF n = 0 THEN <<>>
                ELSE IF s[n] \in T THEN Append(of[n - 1], s[n]) ELSE of[n - 1]
    BY <1>8, <2>1, Zenon
  <2> QED
    BY <2>1, <2>2
<1>9a. DOMAIN of = 0 .. N /\ of[0] = <<>>
  BY <1>8, <1>1
<1>9b. of = [n \in 0 .. N |-> of[n]]
  BY <1>8
<1>10. of \in [0 .. N -> V]
  <2> DEFINE K == {n \in Nat : n <= N => of[n] \in V}
  <2>1. 0 \in K
    BY <1>9a, <1>1
  <2>2. ASSUME NEW n \in Nat, n \in K PROVE n + 1 \in K
    <3> SUFFICES ASSUME n + 1 <= N PROVE of[n + 1] \in V
      OBVIOUS
    <3>1. n + 1 \in 1 .. N /\ (n + 1) - 1 = n /\ of[n] \in V
      BY <2>2, <1>1
    <3>2. of[n + 1] = IF s[n + 1] \in T THEN Append(of[n], s[n + 1]) ELSE of[n]
      BY <3>1, <1>9
    <3> QED
      BY <3>1, <3>2, <1>1, AppendProperties DEF V
  <2> HIDE DEF K
  <2>3. \A n \in Nat : n \in K
    BY <2>1, <2>2, SetInduction
  <2>4. \A n \in 0 .. N : of[n] \in V
    BY <2>3, <1>1 DEF K
  <2> QED
    BY <1>9b, <2>4
<1> QED
  BY <1>5, <1>9, <1>9a, <1>10 DEF Selects, of, V, N

\* What is selected is a sequence of the elements of T.
LEMMA SelectType ==
    ASSUME NEW S, NEW s \in Seq(S), NEW T
    PROVE  Select(s, T) \in Seq(S \cap T)
<1>1. PICK of : Selects(of, S, s, T)
  BY SelectSteps
<1> QED
  BY <1>1, LenProperties DEF Selects

LEMMA SelectInSeqOf ==
    ASSUME NEW S, NEW s \in Seq(S), NEW T
    PROVE  /\ Select(s, T) \in Seq(S) /\ Len(Select(s, T)) \in Nat
           /\ DOMAIN Select(s, T) = 1 .. Len(Select(s, T))
           /\ \A i \in DOMAIN Select(s, T) : Select(s, T)[i] \in S
<1> DEFINE r == Select(s, T)
           U == S \cap T
<1>1. r \in Seq(U) /\ U \subseteq S
  BY SelectType
<1> HIDE DEF r, U
<1>2. r \in Seq(S)
  BY <1>1, SeqMonotonic
<1> QED
  BY <1>2, LenProperties, ElementOfSeq DEF r

\* Nothing is selected from nothing, ...
LEMMA SelectEmpty == ASSUME NEW T PROVE Select(<<>>, T) = <<>>
<1> DEFINE s == <<>>
<1>1. s \in Seq({}) /\ Len(s) = 0
  BY EmptySeq
<1> HIDE DEF s
<1>2. PICK of : Selects(of, {}, s, T)
  BY <1>1, SelectSteps
<1>3. Select(s, T) = <<>>
  BY <1>1, <1>2 DEF Selects
<1> QED
  BY <1>3 DEF s

\* ... and one element gives itself or nothing.
LEMMA SelectOne ==
    ASSUME NEW m, NEW T
    PROVE  Select(<<m>>, T) = IF m \in T THEN <<m>> ELSE <<>>
<1> DEFINE s == <<m>>
<1>1. s \in Seq({m}) /\ Len(s) = 1 /\ s[1] = m
  OBVIOUS
<1> HIDE DEF s
<1>2. PICK of : Selects(of, {m}, s, T)
  BY <1>1, SelectSteps
<1>3. of[1] = IF s[1] \in T THEN Append(of[0], s[1]) ELSE of[0]
  BY <1>1, <1>2 DEF Selects
<1>4. Append(<<>>, m) = <<m>>
  OBVIOUS
<1>5. Select(s, T) = of[1] /\ of[0] = <<>>
  BY <1>1, <1>2 DEF Selects
<1> QED
  BY <1>1, <1>3, <1>4, <1>5 DEF s

\* Selecting from two sequences in a row selects from each.
LEMMA SelectConcat ==
    ASSUME NEW S, NEW s \in Seq(S), NEW t \in Seq(S), NEW T
    PROVE  Select(s \o t, T) = Select(s, T) \o Select(t, T)
<1> DEFINE V == Seq(S \cap T)
           M == Len(s)
           N == Len(t)
           st == s \o t
<1>1. /\ st \in Seq(S) /\ M \in Nat /\ N \in Nat /\ Len(st) = M + N
      /\ \A n \in 1 .. M : st[n] = s[n]
      /\ \A n \in 1 .. N : st[M + n] = t[n]
  BY ConcatProperties, LenProperties
<1> HIDE DEF st
<1>2. PICK f : Selects(f, S, s, T)
  BY SelectSteps
<1>3. PICK g : Selects(g, S, t, T)
  BY SelectSteps
<1>4. PICK h : Selects(h, S, st, T)
  BY <1>1, SelectSteps
<1>s. /\ f \in [0 .. M -> V] /\ f[0] = <<>> /\ Select(s, T) = f[M]
      /\ \A n \in 1 .. M : f[n] = IF s[n] \in T THEN Append(f[n - 1], s[n]) ELSE f[n - 1]
  BY <1>2 DEF Selects
<1>t. /\ g \in [0 .. N -> V] /\ g[0] = <<>> /\ Select(t, T) = g[N]
      /\ \A n \in 1 .. N : g[n] = IF t[n] \in T THEN Append(g[n - 1], t[n]) ELSE g[n - 1]
  BY <1>3 DEF Selects
<1>st. /\ h \in [0 .. M + N -> V] /\ h[0] = <<>> /\ Select(st, T) = h[M + N]
       /\ \A n \in 1 .. M + N :
             h[n] = IF st[n] \in T THEN Append(h[n - 1], st[n]) ELSE h[n - 1]
  BY <1>4, <1>1 DEF Selects
<1>e. \A n \in 1 .. N : t[n] \in S
  BY ElementOfSeq
<1> HIDE DEF V, M, N
<1>5. h[M] = f[M]
  <2> DEFINE K == {n \in Nat : n <= M => h[n] = f[n]}
  <2>1. 0 \in K
    BY <1>s, <1>st
  <2>2. ASSUME NEW n \in Nat, n \in K PROVE n + 1 \in K
    <3> SUFFICES ASSUME n + 1 <= M PROVE h[n + 1] = f[n + 1]
      OBVIOUS
    <3>1. /\ n + 1 \in 1 .. M /\ n + 1 \in 1 .. M + N /\ (n + 1) - 1 = n /\ n <= M
      BY <1>1
    <3>2. h[n] = f[n] /\ st[n + 1] = s[n + 1]
      BY <3>1, <2>2, <1>1
    <3>3. h[n + 1] = IF st[n + 1] \in T THEN Append(h[n], st[n + 1]) ELSE h[n]
      BY <3>1, <1>st
    <3>4. f[n + 1] = IF s[n + 1] \in T THEN Append(f[n], s[n + 1]) ELSE f[n]
      BY <3>1, <1>s
    <3> QED
      BY <3>2, <3>3, <3>4
  <2> HIDE DEF K
  <2>3. M \in K
    BY <2>1, <2>2, <1>1, SetInduction
  <2> QED
    BY <2>3, <1>1 DEF K
<1>6. h[M + N] = f[M] \o g[N]
  <2> DEFINE c(n) == f[M] \o g[n]
             K == {n \in Nat : n <= N => h[M + n] = c(n)}
  <2>1. f[M] \in V
    BY <1>s, <1>1
  <2>2. c(0) = f[M]
    BY <2>1, <1>t, ConcatEmptySeq DEF V
  <2>3. ASSUME NEW n \in 0 .. N, NEW m \in S \cap T
        PROVE  f[M] \o Append(g[n], m) = Append(c(n), m)
    <3> DEFINE U == S \cap T
               d == f[M]
               q == g[n]
    <3>1. d \in Seq(U) /\ q \in Seq(U) /\ m \in U
      BY <2>1, <1>t DEF V
    <3> HIDE DEF U, d, q
    <3>2. d \o Append(q, m) = Append(d \o q, m)
      BY <3>1, AppendLast
    <3> QED
      BY <3>2 DEF d, q
  <2>4. ASSUME NEW n \in Nat, n + 1 <= N
        PROVE  c(n + 1) = IF t[n + 1] \in T THEN Append(c(n), t[n + 1]) ELSE c(n)
    <3>1. n + 1 \in 1 .. N /\ (n + 1) - 1 = n /\ n \in 0 .. N
      BY <2>4, <1>1
    <3>2. g[n + 1] = IF t[n + 1] \in T THEN Append(g[n], t[n + 1]) ELSE g[n]
      BY <3>1, <1>t
    <3>3. t[n + 1] \in S
      BY <3>1, <1>e
    <3> QED
      BY <3>1, <3>2, <3>3, <2>3
  <2> HIDE DEF c
  <2>5. 0 \in K
    BY <2>2, <1>1, <1>5
  <2>6. ASSUME NEW n \in Nat, n \in K PROVE n + 1 \in K
    <3> SUFFICES ASSUME n + 1 <= N PROVE h[M + (n + 1)] = c(n + 1)
      OBVIOUS
    <3>1. /\ n + 1 \in 1 .. N /\ M + (n + 1) \in 1 .. M + N
          /\ (M + (n + 1)) - 1 = M + n /\ n <= N
      BY <1>1
    <3>2. h[M + n] = c(n) /\ st[M + (n + 1)] = t[n + 1]
      BY <2>6, <3>1, <1>1
    <3>3. h[M + (n + 1)] = IF t[n + 1] \in T THEN Append(c(n), t[n + 1]) ELSE c(n)
      BY <3>1, <3>2, <1>st
    <3> QED
      BY <3>3, <2>4
  <2> HIDE DEF K
  <2>7. N \in K
    BY <2>5, <2>6, <1>1, SetInduction
  <2>8. h[M + N] = c(N)
    BY <2>7, <1>1 DEF K
  <2> QED
    BY <2>8 DEF c
<1> QED
  BY <1>1, <1>5, <1>6, <1>s, <1>t, <1>st DEF st

\* t is s under g, and U selects of it what T selects of s.
Corresponds(t, U, s, T, g) ==
    /\ Len(t) = Len(s)
    /\ \A i \in 1 .. Len(s) : t[i] = g[s[i]] /\ (t[i] \in U <=> s[i] \in T)

\* Selecting commutes with a map of the elements: what is selected of the images is
\* the images of what is selected.
LEMMA SelectMap ==
    ASSUME NEW S, NEW s \in Seq(S), NEW R, NEW t \in Seq(R), NEW T, NEW U, NEW g,
           Corresponds(t, U, s, T, g)
    PROVE  /\ DOMAIN Select(t, U) = DOMAIN Select(s, T)
           /\ \A n \in DOMAIN Select(s, T) : Select(t, U)[n] = g[Select(s, T)[n]]
<1> DEFINE N == Len(s)
           image(q) == [n \in DOMAIN q |-> g[q[n]]]
<1>0. Len(t) = N /\ \A i \in 1 .. N : t[i] = g[s[i]] /\ (t[i] \in U <=> s[i] \in T)
  BY DEF Corresponds
<1>1. N \in Nat /\ N = Len(t) /\ \A i \in 1 .. N : s[i] \in S /\ t[i] \in R
  BY <1>0, LenProperties, ElementOfSeq
<1>2. PICK f : Selects(f, S, s, T)
  BY SelectSteps
<1>3. PICK h : Selects(h, R, t, U)
  BY SelectSteps
<1>s. /\ f \in [0 .. N -> Seq(S \cap T)] /\ f[0] = <<>> /\ Select(s, T) = f[N]
      /\ \A n \in 1 .. N : f[n] = IF s[n] \in T THEN Append(f[n - 1], s[n]) ELSE f[n - 1]
  BY <1>2 DEF Selects
<1>t. /\ h[0] = <<>> /\ Select(t, U) = h[N]
      /\ \A n \in 1 .. N : h[n] = IF t[n] \in U THEN Append(h[n - 1], t[n]) ELSE h[n - 1]
  BY <1>1, <1>3 DEF Selects
<1> HIDE DEF N
<1>4. image(<<>>) = <<>>
  OBVIOUS
<1>5. ASSUME NEW q \in Seq(S), NEW x \in S PROVE image(Append(q, x)) = Append(image(q), g[x])
  <2>1. /\ Append(q, x) \in Seq(S) /\ Len(Append(q, x)) = Len(q) + 1 /\ Len(q) \in Nat
        /\ \A i \in 1 .. Len(q) : Append(q, x)[i] = q[i]
        /\ Append(q, x)[Len(q) + 1] = x
        /\ DOMAIN Append(q, x) = 1 .. Len(q) + 1 /\ DOMAIN q = 1 .. Len(q)
    BY AppendProperties, LenProperties
  <2> DEFINE V == {g[q[i]] : i \in 1 .. Len(q)} \cup {g[x]}
             a == image(q)
             b == image(Append(q, x))
  <2>2. a \in Seq(V) /\ Len(a) = Len(q) /\ \A i \in 1 .. Len(q) : a[i] = g[q[i]]
    <3>1. a \in [1 .. Len(q) -> V]
      BY <2>1
    <3> QED
      BY <2>1, <3>1, IsASeq, LenProperties
  <2>3. /\ b \in Seq(V) /\ Len(b) = Len(q) + 1
        /\ \A i \in 1 .. Len(q) : b[i] = g[q[i]]
        /\ b[Len(q) + 1] = g[x]
    <3>1. b \in [1 .. Len(q) + 1 -> V]
      BY <2>1
    <3> QED
      BY <2>1, <3>1, IsASeq, LenProperties
  <2>4. g[x] \in V
    OBVIOUS
  <2> HIDE DEF a, b, V
  <2> DEFINE c == Append(a, g[x])
  <2>5. /\ c \in Seq(V) /\ Len(c) = Len(q) + 1
        /\ \A i \in 1 .. Len(q) : c[i] = g[q[i]]
        /\ c[Len(q) + 1] = g[x]
    BY <2>1, <2>2, <2>4, AppendProperties
  <2> HIDE DEF c
  <2>6. ASSUME NEW i \in 1 .. Len(b) PROVE b[i] = c[i]
    <3>1. CASE i = Len(q) + 1
      BY <3>1, <2>3, <2>5
    <3>2. CASE i # Len(q) + 1
      <4>1. i \in 1 .. Len(q)
        BY <3>2, <2>1, <2>3
      <4>2. b[i] = g[q[i]]
        BY <4>1, <2>3
      <4>3. c[i] = g[q[i]]
        BY <4>1, <2>5
      <4> QED
        BY <4>2, <4>3
    <3> QED
      BY <3>1, <3>2
  <2>7. b = c
    BY <2>3, <2>5, <2>6, SeqEqual
  <2> QED
    BY <2>7 DEF a, b, c
<1> HIDE DEF image
<1> DEFINE K == {n \in Nat : n <= N => h[n] = image(f[n])}
<1>6. 0 \in K
  BY <1>4, <1>s, <1>t
<1>7. ASSUME NEW n \in Nat, n \in K PROVE n + 1 \in K
  <2> SUFFICES ASSUME n + 1 <= N PROVE h[n + 1] = image(f[n + 1])
    OBVIOUS
  <2>1. n + 1 \in 1 .. N /\ n \in 0 .. N /\ (n + 1) - 1 = n
    BY <1>1
  <2>2. h[n] = image(f[n])
    BY <1>7, <2>1
  <2>3. f[n] \in Seq(S)
    <3>1. f[n] \in Seq(S \cap T)
      BY <2>1, <1>s
    <3> QED
      BY <3>1, SeqMonotonic
  <2>4. s[n + 1] \in S /\ t[n + 1] = g[s[n + 1]] /\ (t[n + 1] \in U <=> s[n + 1] \in T)
    BY <2>1, <1>0, <1>1 DEF N
  <2>5. f[n + 1] = IF s[n + 1] \in T THEN Append(f[n], s[n + 1]) ELSE f[n]
    BY <2>1, <1>s
  <2>6. h[n + 1] = IF t[n + 1] \in U THEN Append(h[n], t[n + 1]) ELSE h[n]
    BY <2>1, <1>t
  <2> QED
    BY <1>5, <2>2, <2>3, <2>4, <2>5, <2>6
<1> HIDE DEF K
<1>8. N \in K
  BY <1>1, <1>6, <1>7, SetInduction
<1>9. h[N] = image(f[N])
  BY <1>1, <1>8 DEF K
<1> QED
  BY <1>9, <1>s, <1>t DEF image

\* Everything may be selected, ...
LEMMA SelectAll ==
    ASSUME NEW S, NEW s \in Seq(S), NEW T, \A i \in 1 .. Len(s) : s[i] \in T
    PROVE  Select(s, T) = s
<1> DEFINE N == Len(s)
<1>1. N \in Nat /\ \A n \in 1 .. N : s[n] \in S /\ s[n] \in T
  BY LenProperties, ElementOfSeq
<1>2. PICK of : Selects(of, S, s, T)
  BY SelectSteps
<1>3. /\ of \in [0 .. N -> Seq(S \cap T)] /\ of[0] = <<>> /\ Select(s, T) = of[N]
      /\ \A n \in 1 .. N : of[n] = IF s[n] \in T THEN Append(of[n - 1], s[n]) ELSE of[n - 1]
  BY <1>2 DEF Selects
<1> HIDE DEF N
<1> DEFINE Good(n) == Len(of[n]) = n /\ \A i \in 1 .. n : of[n][i] = s[i]
           K == {n \in Nat : n <= N => Good(n)}
<1>4. 0 \in K
  BY <1>3, EmptySeq
<1>5. ASSUME NEW n \in Nat, n \in K PROVE n + 1 \in K
  <2> SUFFICES ASSUME n + 1 <= N PROVE Good(n + 1)
    OBVIOUS
  <2>1. n + 1 \in 1 .. N /\ (n + 1) - 1 = n /\ n \in 0 .. N /\ Good(n)
    BY <1>1, <1>5
  <2> DEFINE q == of[n]
             x == s[n + 1]
             r == of[n + 1]
  <2>2. r = Append(q, x) /\ q \in Seq(S \cap T) /\ x \in S \cap T
    BY <2>1, <1>1, <1>3
  <2>3. Len(q) = n /\ \A i \in 1 .. n : q[i] = s[i]
    BY <2>1
  <2> HIDE DEF q, r, Good
  <2>4. /\ Len(r) = n + 1 /\ r[n + 1] = x
        /\ \A i \in 1 .. n : r[i] = q[i]
    BY <2>2, <2>3, AppendProperties
  <2>5. \A i \in 1 .. n + 1 : r[i] = s[i]
    <3> TAKE i \in 1 .. n + 1
    <3>1. i = n + 1 \/ i \in 1 .. n
      OBVIOUS
    <3> QED
      BY <3>1, <2>3, <2>4
  <2> QED
    BY <2>4, <2>5 DEF Good, r
<1> HIDE DEF K
<1>6. N \in K
  BY <1>1, <1>4, <1>5, SetInduction
<1>7. Good(N)
  BY <1>1, <1>6 DEF K
<1>8. of[N] \in Seq(S)
  <2>1. of[N] \in Seq(S \cap T)
    BY <1>1, <1>3
  <2> QED
    BY <2>1, SeqMonotonic
<1> QED
  BY <1>3, <1>7, <1>8, SeqEqual DEF N

\* The elements of s in T, and m if it is one.
LEMMA SelectAppend ==
    ASSUME NEW S, NEW s \in Seq(S), NEW m \in S, NEW T
    PROVE  Select(Append(s, m), T) =
              IF m \in T THEN Append(Select(s, T), m) ELSE Select(s, T)
<1> DEFINE one == <<m>>
           r == Select(s, T)
<1>1. one \in Seq(S) /\ Append(s, m) = s \o one
  BY AppendIsConcat
<1>2. r \in Seq(S)
  BY SelectInSeqOf
<1>3. Select(one, T) = IF m \in T THEN one ELSE <<>>
  BY SelectOne
<1> HIDE DEF r
<1>4. r \o one = Append(r, m) /\ r \o <<>> = r
  BY <1>2, AppendIsConcat, ConcatEmptySeq
<1> HIDE DEF one
<1>5. Select(s \o one, T) = Select(s, T) \o Select(one, T)
  BY <1>1, SelectConcat
<1> QED
  BY <1>1, <1>3, <1>4, <1>5 DEF r

\* A queue is its head and its tail.
LEMMA SplitHead ==
    ASSUME NEW S, NEW q \in Seq(S), q # <<>>
    PROVE  Head(q) \in S /\ Tail(q) \in Seq(S) /\ q = <<Head(q)>> \o Tail(q)
<1>1. Head(q) \in S /\ Tail(q) \in Seq(S)
  BY HeadTailProperties
<1>2. <<>> \in Seq(S)
  BY EmptySeq
<1>3. Append(<<>>, Head(q)) \o Tail(q) = <<>> \o q
  BY <1>2, MoveHead
<1>4. <<>> \o q = q /\ Append(<<>>, Head(q)) = <<Head(q)>>
  BY ConcatEmptySeq
<1> QED
  BY <1>1, <1>3, <1>4

\* ... and what was selected, once more.
LEMMA SelectTwice ==
    ASSUME NEW S, NEW s \in Seq(S), NEW T, NEW U
    PROVE  Select(Select(s, T), U) = Select(s, T \cap U)
<1> DEFINE N == Len(s)
           V == T \cap U
<1>1. N \in Nat /\ \A n \in 1 .. N : s[n] \in S
  BY LenProperties, ElementOfSeq
<1>2. PICK f : Selects(f, S, s, T)
  BY SelectSteps
<1>3. PICK h : Selects(h, S, s, V)
  BY SelectSteps
<1>4. /\ f \in [0 .. N -> Seq(S \cap T)] /\ f[0] = <<>> /\ Select(s, T) = f[N]
      /\ \A n \in 1 .. N : f[n] = IF s[n] \in T THEN Append(f[n - 1], s[n]) ELSE f[n - 1]
  BY <1>2 DEF Selects
<1> HIDE DEF V
<1>5. /\ h \in [0 .. N -> Seq(S \cap V)] /\ h[0] = <<>> /\ Select(s, V) = h[N]
      /\ \A n \in 1 .. N : h[n] = IF s[n] \in V THEN Append(h[n - 1], s[n]) ELSE h[n - 1]
  BY <1>3 DEF Selects
<1> HIDE DEF N
<1> DEFINE K == {n \in Nat : n <= N => Select(f[n], U) = h[n]}
<1>6. 0 \in K
  BY <1>4, <1>5, SelectEmpty
<1>7. ASSUME NEW n \in Nat, n \in K PROVE n + 1 \in K
  <2> SUFFICES ASSUME n + 1 <= N PROVE Select(f[n + 1], U) = h[n + 1]
    OBVIOUS
  <2>1. n + 1 \in 1 .. N /\ (n + 1) - 1 = n /\ n \in 0 .. N /\ Select(f[n], U) = h[n]
    BY <1>1, <1>7
  <2> DEFINE q == f[n]
             x == s[n + 1]
             p == h[n]
  <2>2. q \in Seq(S \cap T) /\ p \in Seq(S \cap V) /\ x \in S /\ Select(q, U) = p
    BY <2>1, <1>1, <1>4, <1>5
  <2>3. f[n + 1] = IF x \in T THEN Append(q, x) ELSE q
    BY <2>1, <1>4
  <2>4. h[n + 1] = IF x \in V THEN Append(p, x) ELSE p
    BY <2>1, <1>5
  <2> HIDE DEF q, x, p
  <2>5. CASE x \in T
    <3> DEFINE y == <<x>>
    <3>2. q \in Seq(S) /\ y \in Seq(S)
      BY <2>2, SeqMonotonic
    <3>1. Append(q, x) = q \o y
      BY <3>2, <2>2, AppendIsConcat
    <3>a. f[n + 1] = q \o y
      BY <3>1, <2>3, <2>5
    <3> HIDE DEF y
    <3>b. Select(q \o y, U) = Select(q, U) \o Select(y, U)
      BY <3>2, SelectConcat
    <3>3. Select(f[n + 1], U) = p \o Select(y, U)
      BY <3>a, <3>b, <2>2
    <3>4. Select(y, U) = IF x \in U THEN y ELSE <<>>
      BY SelectOne DEF y
    <3>5. CASE x \in U
      <4>1. x \in V /\ p \in Seq(S)
        BY <2>2, <2>5, <3>5, SeqMonotonic DEF V
      <4>2. Append(p, x) = p \o y
        BY <2>2, <4>1, AppendIsConcat DEF y
      <4> QED
        BY <2>4, <3>3, <3>4, <3>5, <4>1, <4>2
    <3>6. CASE x \notin U
      <4>1. x \notin V
        BY <3>6 DEF V
      <4>2. p \o <<>> = p
        BY <2>2, ConcatEmptySeq
      <4> QED
        BY <2>4, <3>3, <3>4, <3>6, <4>1, <4>2
    <3> QED
      BY <3>5, <3>6
  <2>6. CASE x \notin T
    BY <2>2, <2>3, <2>4, <2>6 DEF V
  <2> QED
    BY <2>5, <2>6
<1> HIDE DEF K
<1>8. N \in K
  BY <1>1, <1>6, <1>7, SetInduction
<1>9. Select(f[N], U) = h[N]
  BY <1>1, <1>8 DEF K
<1> QED
  BY <1>9, <1>4, <1>5 DEF V

\* What is selected begins with the first element that is selected, if there is one.
LEMMA SelectFirst ==
    ASSUME NEW S, NEW s \in Seq(S), NEW T
    PROVE  /\ (\A i \in 1 .. Len(s) : s[i] \notin T) => Select(s, T) = <<>>
           /\ \A k \in 1 .. Len(s) :
                 s[k] \in T /\ (\A i \in 1 .. k - 1 : s[i] \notin T)
                 => Select(s, T) # <<>> /\ Head(Select(s, T)) = s[k]
<1> DEFINE N == Len(s)
<1>1. N \in Nat /\ \A n \in 1 .. N : s[n] \in S
  BY LenProperties, ElementOfSeq
<1>2. PICK of : Selects(of, S, s, T)
  BY SelectSteps
<1>3. /\ of \in [0 .. N -> Seq(S \cap T)] /\ of[0] = <<>> /\ Select(s, T) = of[N]
      /\ \A n \in 1 .. N : of[n] = IF s[n] \in T THEN Append(of[n - 1], s[n]) ELSE of[n - 1]
  BY <1>2 DEF Selects
<1> HIDE DEF N
<1>4. ASSUME NEW m \in 0 .. N, \A i \in 1 .. m : s[i] \notin T
      PROVE  of[m] = <<>>
  <2> DEFINE K == {n \in Nat : n <= m => of[n] = <<>>}
  <2>1. 0 \in K
    BY <1>3
  <2>2. ASSUME NEW n \in Nat, n \in K PROVE n + 1 \in K
    <3> SUFFICES ASSUME n + 1 <= m PROVE of[n + 1] = <<>>
      OBVIOUS
    <3>1. n + 1 \in 1 .. N /\ (n + 1) - 1 = n /\ n + 1 \in 1 .. m /\ of[n] = <<>>
      BY <1>1, <2>2
    <3> QED
      BY <3>1, <1>3, <1>4
  <2> HIDE DEF K
  <2>3. \A n \in Nat : n \in K
    BY <2>1, <2>2, SetInduction
  <2> QED
    BY <1>1, <2>3 DEF K
<1>5. ASSUME NEW k \in 1 .. N, s[k] \in T, \A i \in 1 .. k - 1 : s[i] \notin T
      PROVE  of[N] # <<>> /\ Head(of[N]) = s[k]
  <2> DEFINE x == s[k]
             Good(q) == Len(q) >= 1 /\ q[1] = x
             K == {n \in Nat : k <= n /\ n <= N => Good(of[n])}
  <2>1. 0 \in K
    OBVIOUS
  <2>2. ASSUME NEW n \in Nat, n \in K PROVE n + 1 \in K
    <3> SUFFICES ASSUME k <= n + 1, n + 1 <= N PROVE Good(of[n + 1])
      OBVIOUS
    <3> DEFINE q == of[n]
               y == s[n + 1]
    <3>1. n + 1 \in 1 .. N /\ (n + 1) - 1 = n /\ n \in 0 .. N
      BY <1>1
    <3>2. of[n + 1] = IF y \in T THEN Append(q, y) ELSE q
      BY <3>1, <1>3
    <3>3. q \in Seq(S \cap T) /\ y \in S
      BY <3>1, <1>1, <1>3
    <3>4. CASE n + 1 = k
      <4>1. q = <<>> /\ y = x /\ y \in T
        <5>1. n \in 0 .. N /\ n = k - 1
          BY <3>1, <3>4
        <5>2. of[n] = <<>>
          BY <5>1, <1>4, <1>5
        <5> QED
          BY <5>2, <3>4, <1>5
      <4>2. of[n + 1] = <<x>>
        BY <4>1, <3>2
      <4> QED
        BY <4>2
    <3>5. CASE n + 1 # k
      <4>1. Good(q)
        BY <2>2, <3>1, <3>5
      <4> HIDE DEF q, y, x
      <4>2. y \in T => Len(Append(q, y)) = Len(q) + 1 /\ Append(q, y)[1] = q[1]
        <5> SUFFICES ASSUME y \in T PROVE Len(Append(q, y)) = Len(q) + 1 /\ Append(q, y)[1] = q[1]
          OBVIOUS
        <5>1. Len(q) \in Nat
          BY <3>3, LenProperties
        <5> QED
          BY <5>1, <3>3, <4>1, AppendProperties
      <4>3. Len(q) \in Nat
        BY <3>3, LenProperties
      <4> QED
        BY <3>2, <4>1, <4>2, <4>3
    <3> QED
      BY <3>4, <3>5
  <2> HIDE DEF K
  <2>3. N \in K
    BY <1>1, <2>1, <2>2, SetInduction
  <2>4. Good(of[N])
    BY <1>1, <2>3 DEF K
  <2>5. of[N] \in Seq(S \cap T)
    BY <1>1, <1>3
  <2> QED
    BY <2>4, <2>5
<1> QED
  BY <1>1, <1>3, <1>4, <1>5 DEF N

-----------------------------------------------------------------------------
(* Sums of weights.                                                         *)

\* The sums satisfy the equations that define them.
LEMMA SumSteps ==
    ASSUME NEW S, NEW s \in Seq(S), NEW weight, \A x \in S : weight[x] \in Nat
    PROVE  /\ Sums(s, weight) \in [0 .. Len(s) -> Nat]
           /\ Sums(s, weight)[0] = 0
           /\ \A n \in 1 .. Len(s) :
                 Sums(s, weight)[n] = Sums(s, weight)[n - 1] + weight[s[n]]
<1> DEFINE N == Len(s)
           G == [p \in (1 .. N) \X Nat |-> p[2] + weight[s[p[1]]]]
           R(f) == f = [n \in 0 .. N |-> IF n = 0 THEN 0 ELSE f[n - 1] + weight[s[n]]]
<1>1. N \in Nat /\ \A n \in 1 .. N : weight[s[n]] \in Nat
  BY LenProperties, ElementOfSeq
<1>2. \A n \in 1 .. N, v \in Nat : G[<<n, v>>] = v + weight[s[n]]
  OBVIOUS
<1>4. Sums(s, weight) = CHOOSE f : R(f)
  BY Zenon DEF Sums
<1> HIDE DEF G, N
<1>3. ASSUME NEW n \in 1 .. N, NEW v \in Nat PROVE G[<<n, v>>] \in Nat
  <2>1. G[<<n, v>>] = v + weight[s[n]] /\ weight[s[n]] \in Nat
    BY <1>1, <1>2
  <2> QED
    BY <2>1
<1>5. PICK g : Computes(g, N, Nat, 0, G)
  BY <1>1, <1>3, RecursionExists
<1>6. ASSUME NEW n \in 0 .. N
      PROVE  g[n] = IF n = 0 THEN 0 ELSE g[n - 1] + weight[s[n]]
  <2>1. CASE n = 0
    BY <2>1, <1>5 DEF Computes
  <2>2. CASE n # 0
    <3>1. n \in 1 .. N /\ n - 1 \in 0 .. N
      BY <2>2, <1>1
    <3>2. g[n - 1] \in Nat
      BY <3>1, <1>5 DEF Computes
    <3>3. g[n] = G[<<n, g[n - 1]>>]
      BY <3>1, <1>5 DEF Computes
    <3> QED
      BY <3>1, <3>2, <3>3, <2>2, <1>2
  <2> QED
    BY <2>1, <2>2
<1>7. R(g)
  <2>1. g = [n \in 0 .. N |-> g[n]]
    BY <1>5 DEF Computes
  <2> QED
    BY <2>1, <1>6, Zenon
<1> DEFINE of == CHOOSE f : R(f)
<1>8. R(of)
  BY <1>7, Zenon
<1> HIDE DEF of
<1>9. \A n \in 1 .. N : of[n] = of[n - 1] + weight[s[n]]
  <2> TAKE n \in 1 .. N
  <2>1. n \in 0 .. N /\ n # 0
    BY <1>1
  <2>2. of[n] = IF n = 0 THEN 0 ELSE of[n - 1] + weight[s[n]]
    BY <1>8, <2>1, Zenon
  <2> QED
    BY <2>1, <2>2
<1>10. DOMAIN of = 0 .. N /\ of[0] = 0 /\ of = [n \in 0 .. N |-> of[n]]
  BY <1>8, <1>1
<1>11. of \in [0 .. N -> Nat]
  <2> DEFINE K == {n \in Nat : n <= N => of[n] \in Nat}
  <2>1. 0 \in K
    BY <1>10
  <2>2. ASSUME NEW n \in Nat, n \in K PROVE n + 1 \in K
    <3> SUFFICES ASSUME n + 1 <= N PROVE of[n + 1] \in Nat
      OBVIOUS
    <3>1. n + 1 \in 1 .. N /\ (n + 1) - 1 = n /\ of[n] \in Nat
      BY <2>2, <1>1
    <3>2. of[n + 1] = of[n] + weight[s[n + 1]]
      BY <3>1, <1>9
    <3> QED
      BY <3>1, <3>2, <1>1
  <2> HIDE DEF K
  <2>3. \A n \in Nat : n \in K
    BY <2>1, <2>2, SetInduction
  <2>4. \A n \in 0 .. N : of[n] \in Nat
    BY <2>3, <1>1 DEF K
  <2> QED
    BY <1>10, <2>4
<1> QED
  BY <1>4, <1>9, <1>10, <1>11 DEF of, N

\* Sums of positive weights grow.
LEMMA SumsGrow ==
    ASSUME NEW S, NEW s \in Seq(S), NEW weight, \A x \in S : weight[x] \in Nat \ {0}
    PROVE  \A m, n \in 0 .. Len(s) : m < n => Sums(s, weight)[m] < Sums(s, weight)[n]
<1> DEFINE N == Len(s)
           u == Sums(s, weight)
<1>1. /\ u \in [0 .. N -> Nat] /\ \A n \in 1 .. N : u[n] = u[n - 1] + weight[s[n]]
  BY SumSteps
<1>2. N \in Nat /\ \A n \in 1 .. N : weight[s[n]] \in Nat \ {0}
  BY LenProperties, ElementOfSeq
<1> HIDE DEF N, u
<1> SUFFICES ASSUME NEW m \in 0 .. N PROVE \A n \in 0 .. N : m < n => u[m] < u[n]
  BY DEF N, u
<1> DEFINE K == {n \in Nat : n <= N /\ m < n => u[m] < u[n]}
<1>3. 0 \in K
  OBVIOUS
<1>4. ASSUME NEW n \in Nat, n \in K PROVE n + 1 \in K
  <2> SUFFICES ASSUME n + 1 <= N, m < n + 1 PROVE u[m] < u[n + 1]
    OBVIOUS
  <2>a. N \in Nat
    BY <1>2
  <2>1. n + 1 \in 1 .. N /\ (n + 1) - 1 = n /\ n \in 0 .. N
    BY <2>a
  <2>2. u[n + 1] = u[n] + weight[s[n + 1]] /\ weight[s[n + 1]] \in Nat \ {0}
    BY <2>1, <1>1, <1>2
  <2>3. u[n] \in Nat /\ u[m] \in Nat /\ u[n + 1] \in Nat
    BY <2>1, <1>1
  <2>4. m = n \/ u[m] < u[n]
    BY <1>4, <2>1
  <2>5. u[n] < u[n + 1]
    BY <2>2, <2>3
  <2> QED
    BY <2>3, <2>4, <2>5
<1> HIDE DEF K
<1>5. \A n \in Nat : n \in K
  BY <1>3, <1>4, SetInduction
<1> QED
  BY <1>2, <1>5 DEF K
=============================================================================
