---------------------------- MODULE UrlPattern_proofs ----------------------------
(***************************************************************************)
(* Proof about the cache of UrlPattern, for any inputs and any capacity.    *)
(***************************************************************************)
EXTENDS UrlPattern, SequenceLemmas

Keys == {<<i>> : i \in Strings} \cup {<<i, n>> : i \in Dictionaries, n \in Nat}
Entry == [key : Keys, value : {Process[<<i, None>>] : i \in Inputs}]
Right(e) == e.value = Process[<<e.key[1], None>>]

\* Keys are unique in m.
Unique(m) == \A n, k \in DOMAIN m : m[n].key = m[k].key => n = k

\* The entries of m are right, and m holds at most bound of them.
Sound(m, bound) ==
    /\ m \in Seq(Entry) /\ Unique(m) /\ Len(m) <= bound
    /\ \A n \in DOMAIN m : Right(m[n])

CacheInv ==
    /\ made \in 0 .. MaxObjects
    /\ last.key = None \/ (last \in Entry /\ Right(last))
    /\ Sound(map, Capacity + 1)

\* A new entry at the end of a map that does not have its key.
LEMMA AppendKeepsSound ==
    ASSUME NEW m, NEW bound \in Nat, Sound(m, bound), NEW e \in Entry, Right(e),
           \A n \in DOMAIN m : m[n].key # e.key
    PROVE  Sound(Append(m, e), bound + 1)
<1> DEFINE a == Append(m, e)
<1>1. /\ m \in Seq(Entry) /\ Len(m) \in Nat /\ DOMAIN m = 1 .. Len(m)
      /\ a \in Seq(Entry) /\ Len(a) = Len(m) + 1 /\ DOMAIN a = 1 .. Len(m) + 1
      /\ \A n \in 1 .. Len(m) : a[n] = m[n]
      /\ a[Len(m) + 1] = e
  BY LenProperties, AppendProperties DEF Sound
<1> HIDE DEF a
<1>2. \A n \in DOMAIN a : Right(a[n])
  BY <1>1 DEF Sound
<1>3. Unique(a)
  <2> SUFFICES ASSUME NEW n \in DOMAIN a, NEW k \in DOMAIN a, a[n].key = a[k].key
               PROVE  n = k
    BY DEF Unique
  <2>1. CASE n \in DOMAIN m /\ k \in DOMAIN m
    BY <1>1, <2>1 DEF Sound, Unique
  <2>2. CASE n \in DOMAIN m /\ k = Len(m) + 1
    BY <1>1, <2>2
  <2>3. CASE n = Len(m) + 1 /\ k \in DOMAIN m
    BY <1>1, <2>3
  <2>4. CASE n = Len(m) + 1 /\ k = Len(m) + 1
    BY <2>4
  <2> QED
    BY <1>1, <2>1, <2>2, <2>3, <2>4
<1> QED
  BY <1>1, <1>2, <1>3 DEF Sound, a

\* Removing an entry leaves no other with its key.
LEMMA RemoveKeepsSound ==
    ASSUME NEW m, NEW bound \in Nat, Sound(m, bound + 1), NEW h \in DOMAIN m
    PROVE  /\ RemoveAt(m, h) \in Seq(Entry)
           /\ Len(RemoveAt(m, h)) = Len(m) - 1
           /\ Sound(RemoveAt(m, h), bound)
           /\ \A n \in DOMAIN RemoveAt(m, h) : RemoveAt(m, h)[n].key # m[h].key
<1> DEFINE r == RemoveAt(m, h)
<1>1. /\ m \in Seq(Entry) /\ Len(m) \in Nat /\ DOMAIN m = 1 .. Len(m) /\ h \in 1 .. Len(m)
  BY LenProperties DEF Sound
<1>2. /\ r \in Seq(Entry) /\ Len(r) = Len(m) - 1
      /\ \A i \in 1 .. Len(m) - 1 : r[i] = IF i < h THEN m[i] ELSE m[i + 1]
  BY <1>1, RemoveAtProperties
<1> HIDE DEF r
<1>3. DOMAIN r = 1 .. Len(m) - 1
  BY <1>2, LenProperties
<1> DEFINE from(i) == IF i < h THEN i ELSE i + 1
<1>4. \A i \in DOMAIN r : from(i) \in DOMAIN m /\ from(i) # h /\ r[i] = m[from(i)]
  BY <1>1, <1>2, <1>3
<1>5. \A i, k \in DOMAIN r : from(i) = from(k) => i = k
  BY <1>1, <1>3
<1> HIDE DEF from
<1>6. Unique(r) /\ \A i \in DOMAIN r : Right(r[i]) /\ r[i].key # m[h].key
  BY <1>4, <1>5 DEF Sound, Unique
<1> QED
  BY <1>1, <1>2, <1>6 DEF Sound, r

\* The key of an input is no None and names it; the answer is the one of the op.
LEMMA AnswersAreRight ==
    ASSUME UrlPatternAssumption, CacheInv, NEW i \in Inputs,
           NEW entry, entry = [key |-> Key(i), value |-> Answer(i)]
    PROVE  entry \in Entry /\ Right(entry)
<1>1. Key(i) \in Keys /\ Key(i)[1] = i /\ Key(i) # None
  <2>1. CASE i \in Strings
    BY <2>1 DEF Key, Keys, UrlPatternAssumption, CacheInv
  <2>2. CASE i \notin Strings
    BY <2>2 DEF Key, Keys, Inputs, UrlPatternAssumption, CacheInv
  <2> QED
    BY <2>1, <2>2
<1>2. Answer(i) = Process[<<i, None>>]
  <2>1. CASE last.key = Key(i)
    BY <1>1, <2>1 DEF Answer, CacheInv, Right
  <2>2. CASE last.key # Key(i) /\ Has(Key(i))
    <3>1. Held(Key(i)) \in DOMAIN map /\ map[Held(Key(i))].key = Key(i)
      BY <2>2 DEF Has, Held
    <3> QED
      BY <1>1, <2>2, <3>1 DEF Answer, CacheInv, Sound, Right
  <2>3. CASE last.key # Key(i) /\ ~Has(Key(i))
    BY <2>3 DEF Answer
  <2> QED
    BY <2>1, <2>2, <2>3
<1> QED
  BY <1>1, <1>2 DEF Entry, Right

\* What a lookup without a base leaves in the cache.
LEMMA GetOrInsertKeepsCache ==
    ASSUME UrlPatternAssumption, CacheInv, NEW i \in Inputs, NEW sampled \in BOOLEAN,
           GetOrInsert(i, sampled)
    PROVE  (last' \in Entry /\ Right(last')) /\ Sound(map', Capacity + 1)
<1> DEFINE entry == [key |-> Key(i), value |-> Answer(i)]
<1>1. entry \in Entry /\ Right(entry) /\ entry.key = Key(i)
  BY AnswersAreRight
<1>2. last' = entry
  BY DEF GetOrInsert
<1>3. Capacity \in Nat /\ Sound(map, Capacity + 1) /\ map \in Seq(Entry) /\ Len(map) \in Nat
  BY LenProperties DEF UrlPatternAssumption, CacheInv, Sound
<1>4. \/ map' = map
      \/ Has(Key(i)) /\ map' = Append(RemoveAt(map, Held(Key(i))), entry)
      \/ ~Has(Key(i)) /\ map' = Append(Evicted, entry)
  BY DEF GetOrInsert
<1> HIDE DEF entry
<1>5. CASE map' = map
  BY <1>1, <1>2, <1>3, <1>5
<1>6. CASE Has(Key(i)) /\ map' = Append(RemoveAt(map, Held(Key(i))), entry)
  <2> DEFINE h == Held(Key(i))
  <2>1. h \in DOMAIN map /\ map[h].key = Key(i)
    BY <1>6 DEF Has, Held
  <2> HIDE DEF h
  <2>2. /\ Sound(RemoveAt(map, h), Capacity)
        /\ \A n \in DOMAIN RemoveAt(map, h) : RemoveAt(map, h)[n].key # map[h].key
    BY <1>3, <2>1, RemoveKeepsSound
  <2>3. Sound(Append(RemoveAt(map, h), entry), Capacity + 1)
    BY <1>1, <1>3, <2>1, <2>2, AppendKeepsSound
  <2> QED
    BY <1>1, <1>2, <1>6, <2>3 DEF h
<1>7. CASE ~Has(Key(i)) /\ map' = Append(Evicted, entry)
  <2>1. Sound(Evicted, Capacity) /\ \A n \in DOMAIN Evicted : Evicted[n].key # Key(i)
    <3>1. CASE Len(map) > Capacity
      <4>1. /\ map # <<>> /\ Len(map) = Capacity + 1 /\ Evicted = Tail(map)
        BY <1>3, <3>1, EmptySeq DEF Sound, Evicted
      <4>2. /\ Tail(map) \in Seq(Entry) /\ Len(Tail(map)) = Capacity
            /\ \A n \in 1 .. Capacity : Tail(map)[n] = map[n + 1]
            /\ DOMAIN Tail(map) = 1 .. Capacity /\ DOMAIN map = 1 .. Capacity + 1
        BY <1>3, <4>1, HeadTailProperties, LenProperties
      <4>3. \A n \in 1 .. Capacity : n + 1 \in DOMAIN map
        BY <1>3, <4>2
      <4>4. Unique(Tail(map)) /\ \A n \in 1 .. Capacity : Right(Tail(map)[n])
        <5>1. \A n, k \in 1 .. Capacity : n + 1 = k + 1 => n = k
          BY <1>3
        <5> QED
          BY <1>3, <4>2, <4>3, <5>1 DEF Sound, Unique
      <4> QED
        BY <1>3, <1>7, <4>1, <4>2, <4>3, <4>4 DEF Sound, Has
    <3>2. CASE ~(Len(map) > Capacity)
      <4>1. Len(map) <= Capacity /\ Evicted = map
        BY <1>3, <3>2 DEF Evicted
      <4> QED
        BY <1>3, <1>7, <4>1 DEF Sound, Has
    <3> QED
      BY <3>1, <3>2
  <2> QED
    BY <1>1, <1>2, <1>3, <1>7, <2>1, AppendKeepsSound
<1> QED
  BY <1>4, <1>5, <1>6, <1>7

LEMMA InitCache ==
    ASSUME UrlPatternAssumption, Init
    PROVE  CacheInv
<1>1. map = <<>> /\ <<>> \in Seq(Entry) /\ Len(<<>>) = 0 /\ DOMAIN <<>> = {}
  BY EmptySeq DEF Init
<1>2. Sound(map, Capacity + 1)
  BY <1>1 DEF Sound, Unique, UrlPatternAssumption
<1> QED
  BY <1>2 DEF Init, CacheInv, UrlPatternAssumption

\* Only test and exec touch the cache, and only through a lookup.
LEMMA StepKeepsCache ==
    ASSUME UrlPatternAssumption, CacheInv, [Next]_vars
    PROVE  CacheInv'
<1>1. ASSUME NEW i \in Inputs, NEW b \in Bases \cup {None}, Lookup(i, b)
      PROVE  CacheInv'
  <2>1. made' \in 0 .. MaxObjects
    BY <1>1 DEF Lookup, CacheInv, UrlPatternAssumption
  <2>2. CASE b = None
    <3>1. PICK sampled \in BOOLEAN : GetOrInsert(i, sampled)
      BY <1>1, <2>2 DEF Lookup
    <3>2. last' \in Entry /\ Right(last') /\ Sound(map', Capacity + 1)
      BY <3>1, GetOrInsertKeepsCache
    <3> QED
      BY <2>1, <3>2 DEF CacheInv
  <2>3. CASE b # None
    BY <1>1, <2>1, <2>3 DEF Lookup, CacheInv
  <2> QED
    BY <2>2, <2>3
<1>2. ASSUME NEW p \in Patterns, NEW i \in Inputs, NEW b \in Bases \cup {None},
             Test(p, i, b) \/ Exec1(p, i, b)
      PROVE  CacheInv'
  BY <1>1, <1>2 DEF Test, Exec1, Exec
<1>3. CASE \E p \in Patterns : Construct(p)
  BY <1>3 DEF Construct, CacheInv
<1>4. CASE UNCHANGED vars
  BY <1>4 DEF vars, CacheInv
<1> QED
  BY <1>2, <1>3, <1>4 DEF Next

\* However often inputs are matched and whatever the random choices: an answer of the
\* cache is the answer of the op, for any inputs and any capacity.
THEOREM CacheAnswersAsOp == UrlPatternAssumption /\ Spec => []CacheIsTransparent
<1> SUFFICES ASSUME UrlPatternAssumption PROVE Spec => []CacheIsTransparent
  OBVIOUS
<1>1. Init => CacheInv
  BY InitCache
<1>2. CacheInv /\ [Next]_vars => CacheInv'
  BY StepKeepsCache
<1>3. CacheInv => CacheIsTransparent
  BY DEF CacheInv, Sound, Unique, Right, CacheIsTransparent
<1> QED
  BY <1>1, <1>2, <1>3, PTL DEF Spec

\* How far the map may outgrow its capacity: by the one entry that is set before the
\* next one finds the map over it.
THEOREM MapHoldsOneMore ==
    UrlPatternAssumption /\ Spec => [](Len(map) <= Capacity + 1)
<1> SUFFICES ASSUME UrlPatternAssumption PROVE Spec => [](Len(map) <= Capacity + 1)
  OBVIOUS
<1>1. Init => CacheInv
  BY InitCache
<1>2. CacheInv /\ [Next]_vars => CacheInv'
  BY StepKeepsCache
<1>3. CacheInv => Len(map) <= Capacity + 1
  BY DEF CacheInv, Sound
<1> QED
  BY <1>1, <1>2, <1>3, PTL DEF Spec

-----------------------------------------------------------------------------
(* The results of exec.                                                     *)

\* The names of the groups that a component gives.
GroupNames(part) ==
    CASE part.kind = "^$" -> {}
      [] part.kind = "^(.*)$" -> {"0"}
      [] OTHER -> Range(part.names)

\* An entry of a component that was filled in before names no other groups.
Fits(p, old) ==
    /\ DOMAIN old = DOMAIN Component[p]
    /\ \A c \in DOMAIN old :
          old[c] = None \/ DOMAIN old[c].groups \subseteq GroupNames(Component[p][c])

Match(p, values) ==
    [c \in DOMAIN Component[p] |->
        [input |-> values[c], groups |-> Groups(Component[p][c], values[c])]]

LEMMA GroupsHaveNames ==
    ASSUME NEW part, NEW v
    PROVE  Groups(part, v) = [n \in GroupNames(part) |-> Groups(part, v)[n]]
<1>1. << >> = [n \in {} |-> << >>[n]]
  OBVIOUS
<1>2. Whole(v) = [n \in {"0"} |-> Whole(v)[n]]
  BY DEF Whole
<1>3. CASE part.kind = "^$"
  BY <1>1, <1>3 DEF Groups, GroupNames
<1>4. CASE part.kind = "^(.*)$"
  BY <1>2, <1>4 DEF Groups, GroupNames
<1>5. CASE part.kind \notin {"^$", "^(.*)$"}
  BY <1>5 DEF Groups, GroupNames
<1> QED
  BY <1>3, <1>4, <1>5

\* Groups that were there before and have no other names are overwritten.
LEMMA Overwritten ==
    ASSUME NEW part, NEW v, NEW g, DOMAIN g \subseteq GroupNames(part)
    PROVE  /\ SetIn(g, Groups(part, v)) = Groups(part, v)
           /\ DOMAIN SetIn(g, Groups(part, v)) \subseteq GroupNames(part)
<1> DEFINE f == Groups(part, v)
<1>1. f = [n \in GroupNames(part) |-> f[n]]
  BY GroupsHaveNames
<1> HIDE DEF f
<1>2. DOMAIN f = GroupNames(part)
  BY <1>1
<1>3. SetIn(g, f) = [n \in GroupNames(part) |-> f[n]]
  BY <1>2 DEF SetIn
<1> QED
  BY <1>1, <1>3 DEF f

\* What a lookup answers is what the op makes of the input.
LEMMA LookupAnswersAsOp ==
    ASSUME UrlPatternAssumption, CacheInv, NEW i \in Inputs, NEW b \in Bases \cup {None}
    PROVE  Processed(i, b) = Process[<<i, b>>]
<1> DEFINE entry == [key |-> Key(i), value |-> Answer(i)]
<1>1. entry \in Entry /\ Right(entry)
  BY AnswersAreRight
<1>2. Answer(i) = Process[<<Key(i)[1], None>>] /\ Key(i)[1] = i
  BY <1>1 DEF Right, Key
<1> QED
  BY <1>2 DEF Processed

\* exec with a match leaves nothing of the results before it.
LEMMA FilledByMatch ==
    ASSUME UrlPatternAssumption, NEW p \in Patterns, NEW old, Fits(p, old), NEW values,
           Matches(p, values)
    PROVE  Filled(p, old, values) = Match(p, values)
<1> DEFINE parts == Component[p]
           accepts == [c \in DOMAIN parts |-> Accepts(parts[c], values[c])]
           stop == SelectInSeq(accepts, LAMBDA a : ~a)
           entry(c) == IF old[c] # None THEN old[c]
                       ELSE [input |-> values[c],
                             groups |-> IF parts[c].kind = "^(.*)$" THEN Whole(values[c])
                                        ELSE << >>]
<1>1. Len(parts) \in Nat /\ DOMAIN parts = 1 .. Len(parts)
  BY DEF UrlPatternAssumption
<1>2. \A c \in 1 .. Len(parts) : accepts[c]
  BY <1>1 DEF Matches
<1>3. Len(accepts) = Len(parts)
  BY <1>1
<1>4. stop = 0
  BY <1>2, <1>3 DEF SelectInSeq
<1>5. ASSUME NEW c \in DOMAIN parts
      PROVE  SetIn(entry(c).groups, Groups(parts[c], values[c])) = Groups(parts[c], values[c])
  <2>1. DOMAIN entry(c).groups \subseteq GroupNames(parts[c])
    <3>1. CASE old[c] # None
      BY <1>5, <3>1 DEF Fits
    <3>2. CASE old[c] = None
      BY <3>2 DEF Whole, GroupNames
    <3> QED
      BY <3>1, <3>2
  <2> HIDE DEF entry, parts
  <2> QED
    BY <2>1, Overwritten
<1>6. \A c \in DOMAIN parts : c # 0
  BY <1>1
<1> QED
  BY <1>4, <1>5, <1>6 DEF Filled, Match

LEMMA FilledFits ==
    ASSUME NEW p \in Patterns, NEW old, Fits(p, old), NEW values
    PROVE  Fits(p, Filled(p, old, values))
<1> DEFINE parts == Component[p]
           entry(c) == IF old[c] # None THEN old[c]
                       ELSE [input |-> values[c],
                             groups |-> IF parts[c].kind = "^(.*)$" THEN Whole(values[c])
                                        ELSE << >>]
           new == Filled(p, old, values)
<1>1. DOMAIN new = DOMAIN parts
  BY DEF Filled
<1>2. ASSUME NEW c \in DOMAIN parts
      PROVE  DOMAIN entry(c).groups \subseteq GroupNames(parts[c])
  <2>1. CASE old[c] # None
    BY <1>2, <2>1 DEF Fits
  <2>2. CASE old[c] = None
    BY <2>2 DEF Whole, GroupNames
  <2> QED
    BY <2>1, <2>2
<1>3. ASSUME NEW c \in DOMAIN parts
      PROVE  \/ new[c] = old[c]
             \/ new[c] = entry(c)
             \/ new[c] = [input |-> values[c],
                          groups |-> SetIn(entry(c).groups, Groups(parts[c], values[c]))]
  BY <1>3 DEF Filled
<1>4. ASSUME NEW c \in DOMAIN parts
      PROVE  DOMAIN SetIn(entry(c).groups, Groups(parts[c], values[c]))
                 \subseteq GroupNames(parts[c])
  BY <1>2, <1>4, Overwritten
<1> HIDE DEF entry, new
<1>5. ASSUME NEW c \in DOMAIN parts
      PROVE  new[c] = None \/ DOMAIN new[c].groups \subseteq GroupNames(parts[c])
  <2>1. CASE new[c] = old[c]
    BY <1>5, <2>1 DEF Fits
  <2>2. CASE new[c] = entry(c)
    BY <1>2, <2>2
  <2>3. CASE new[c] = [input |-> values[c],
                       groups |-> SetIn(entry(c).groups, Groups(parts[c], values[c]))]
    BY <1>4, <2>3
  <2> QED
    BY <1>3, <2>1, <2>2, <2>3
<1> QED
  BY <1>1, <1>5 DEF Fits, new

\* What a call r of exec returned.
Final(r) ==
    LET values == Process[<<r.input, r.base>>] IN
    [parts |-> [c \in DOMAIN values |->
        [input |-> values[c], groups |-> Groups(Component[r.pattern][c], values[c])]],
     inputs |-> IF r.base = None THEN <<r.input>> ELSE <<r.input, r.base>>]

\* A result that is kept belongs to one pattern, whose next exec may fill it in; one
\* that was returned is final and kept by none.
ResultInv ==
    /\ \A p \in live : \A c \in DOMAIN Component[p] : Component[p][c].kind # "invalid"
    /\ \E S : results \in Seq(S)
    /\ reused \in [Patterns -> 0 .. Len(results)]
    /\ \A p, q \in Patterns : reused[p] # 0 /\ reused[p] = reused[q] => p = q
    /\ \A p \in Patterns : reused[p] # 0 => Fits(p, results[reused[p]].parts)
    /\ \A r \in returned :
          /\ r.id \in 1 .. Len(results) /\ results[r.id] = Final(r)
          /\ \A p \in Patterns : reused[p] # r.id
    /\ \A r, s \in returned : r.id = s.id => r = s

\* The object that exec fills in, in the state before it.
IdOf(p) == IF reused[p] # 0 THEN reused[p] ELSE Len(results) + 1
OldOf(p) == IF reused[p] # 0 THEN results[reused[p]] ELSE NoResult(p)
ResultOf(p, i, b, values) ==
    [parts |-> Filled(p, OldOf(p).parts, values),
     inputs |-> IF ~Matches(p, values) THEN OldOf(p).inputs
                ELSE IF b = None THEN <<i>> ELSE <<i, b>>]

LEMMA ResultIsOpen ==
    ASSUME UrlPatternAssumption, ResultInv, NEW p \in Patterns, NEW i, NEW b, NEW values
    PROVE  Fits(p, OldOf(p).parts) /\ Fits(p, ResultOf(p, i, b, values).parts)
<1>1. Fits(p, OldOf(p).parts)
  <2>1. CASE reused[p] # 0
    BY <2>1 DEF ResultInv, OldOf
  <2>2. CASE reused[p] = 0
    BY <2>2 DEF OldOf, NoResult, Fits
  <2> QED
    BY <2>1, <2>2
<1>2. Fits(p, Filled(p, OldOf(p).parts, values))
  BY <1>1, FilledFits
<1> QED
  BY <1>1, <1>2 DEF ResultOf

\* Where exec puts the object, and that it touches no other.
LEMMA ResultIsPut ==
    ASSUME ResultInv, NEW p \in Patterns, NEW x,
           results' = IF reused[p] # 0 THEN [results EXCEPT ![IdOf(p)] = x]
                      ELSE Append(results, x)
    PROVE  /\ \E S : results' \in Seq(S)
           /\ Len(results) \in Nat /\ Len(results') \in Nat /\ Len(results) <= Len(results')
           /\ IdOf(p) \in 1 .. Len(results') /\ results'[IdOf(p)] = x
           /\ \A n \in 1 .. Len(results) : n # IdOf(p) => results'[n] = results[n]
           /\ \A q \in Patterns : q # p => reused[q] # IdOf(p)
           /\ \A r \in returned : r.id # IdOf(p)
<1>1. PICK S : results \in Seq(S)
  BY DEF ResultInv
<1> DEFINE T == S \cup {x}
<1>2. results \in Seq(T) /\ Len(results) \in Nat /\ DOMAIN results = 1 .. Len(results) /\ x \in T
  BY <1>1, LenProperties
<1> HIDE DEF T
<1>3. reused[p] \in 0 .. Len(results)
  BY DEF ResultInv
<1>4. CASE reused[p] # 0
  <2>1. results' = [results EXCEPT ![IdOf(p)] = x] /\ IdOf(p) = reused[p]
    BY <1>4 DEF IdOf
  <2>2. results' \in Seq(T) /\ Len(results') = Len(results)
    BY <1>2, <1>3, <1>4, <2>1, ExceptSeq
  <2> QED
    BY <1>2, <1>3, <1>4, <2>1, <2>2 DEF ResultInv
<1>5. CASE reused[p] = 0
  <2> DEFINE a == Append(results, x)
  <2>1. results' = a /\ IdOf(p) = Len(results) + 1
    BY <1>5 DEF IdOf
  <2>2. /\ a \in Seq(T) /\ Len(a) = Len(results) + 1
        /\ \A n \in 1 .. Len(results) : a[n] = results[n]
        /\ a[Len(results) + 1] = x
    BY <1>2, AppendProperties
  <2> HIDE DEF a
  <2>3. Len(results) + 1 \notin 0 .. Len(results) /\ Len(results) + 1 \in 1 .. Len(results) + 1
    BY <1>2
  <2>4. /\ \A q \in Patterns : reused[q] # Len(results) + 1
        /\ \A r \in returned : r.id # Len(results) + 1
    BY <2>3 DEF ResultInv
  <2>5. \E U : results' \in Seq(U)
    BY <2>1, <2>2
  <2>6. Len(results) + 1 \in Nat /\ Len(results) <= Len(results) + 1
    BY <1>2
  <2> QED
    BY <1>2, <2>1, <2>2, <2>3, <2>4, <2>5, <2>6
<1> QED
  BY <1>4, <1>5

\* An exec that finds no match keeps the object; one that does returns it.
LEMMA ExecKeepsResults ==
    ASSUME UrlPatternAssumption, CacheInv, ResultInv, NEW p \in Patterns, NEW i \in Inputs,
           NEW b \in Bases \cup {None}, Exec1(p, i, b)
    PROVE  ResultInv'
<1> DEFINE res == Process[<<i, b>>]
           x == ResultOf(p, i, b, res)
           call == [id |-> IdOf(p), pattern |-> p, input |-> i, base |-> b,
                    call |-> Cardinality(returned)]
<1>1. p \in live /\ live' = live
  BY DEF Exec1, Exec
<1>2. CASE res = None
  <2>1. UNCHANGED <<results, reused, returned>>
    BY <1>2, LookupAnswersAsOp DEF Exec1, Exec
  <2> QED
    BY <1>1, <2>1 DEF ResultInv, Final
<1>3. CASE res # None
  <2>1. /\ results' = IF reused[p] # 0 THEN [results EXCEPT ![IdOf(p)] = x]
                      ELSE Append(results, x)
        /\ reused' = [reused EXCEPT ![p] = IF Matches(p, res) THEN 0 ELSE IdOf(p)]
        /\ returned' = IF Matches(p, res) THEN returned \cup {call} ELSE returned
    BY <1>3, LookupAnswersAsOp DEF Exec1, Exec, Forgotten, ResultOf, OldOf, IdOf
  <2>2. /\ \E S : results' \in Seq(S)
        /\ Len(results) \in Nat /\ Len(results') \in Nat /\ Len(results) <= Len(results')
        /\ IdOf(p) \in 1 .. Len(results') /\ results'[IdOf(p)] = x
        /\ \A n \in 1 .. Len(results) : n # IdOf(p) => results'[n] = results[n]
        /\ \A q \in Patterns : q # p => reused[q] # IdOf(p)
        /\ \A r \in returned : r.id # IdOf(p)
    BY <2>1, ResultIsPut
  <2>3. Fits(p, OldOf(p).parts) /\ Fits(p, x.parts)
    BY ResultIsOpen
  <2>4. Matches(p, res) => x = Final(call)
    <3> SUFFICES ASSUME Matches(p, res) PROVE x = Final(call)
      OBVIOUS
    <3>1. Filled(p, OldOf(p).parts, res) = Match(p, res)
      BY <2>3, FilledByMatch
    <3>2. DOMAIN res = DOMAIN Component[p]
      BY <1>1, <1>3 DEF ResultInv, UrlPatternAssumption
    <3> QED
      BY <3>1, <3>2 DEF ResultOf, Match, Final
  <2> HIDE DEF x, res
  <2>5. /\ \A r \in returned : r.id \in 1 .. Len(results') /\ results'[r.id] = Final(r)
        /\ \A q \in Patterns : q # p => reused'[q] = reused[q]
        /\ \A q \in Patterns : reused[q] \in 0 .. Len(results')
    BY <2>1, <2>2 DEF ResultInv
  <2>6. call.id = IdOf(p) /\ IdOf(p) # 0
    BY <2>2
  <2> HIDE DEF call
  <2>7. reused' \in [Patterns -> 0 .. Len(results')]
    BY <2>1, <2>2, <2>5 DEF ResultInv
  <2>8. reused'[p] = IF Matches(p, res) THEN 0 ELSE IdOf(p)
    BY <2>1 DEF ResultInv
  <2>9. \A q, r \in Patterns : reused'[q] # 0 /\ reused'[q] = reused'[r] => q = r
    BY <2>2, <2>5, <2>8 DEF ResultInv
  <2>10. ASSUME NEW q \in Patterns, reused'[q] # 0
         PROVE  Fits(q, results'[reused'[q]].parts)
    <3>1. CASE q = p
      BY <2>2, <2>3, <2>8, <2>10, <3>1
    <3>2. CASE q # p
      <4>1. reused[q] \in 1 .. Len(results) /\ reused[q] # IdOf(p) /\ reused'[q] = reused[q]
        BY <2>2, <2>5, <2>10, <3>2 DEF ResultInv
      <4> QED
        BY <2>2, <2>10, <4>1 DEF ResultInv
    <3> QED
      BY <3>1, <3>2
  <2>11. \A r \in returned : \A q \in Patterns : reused'[q] # r.id
    <3> SUFFICES ASSUME NEW r \in returned, NEW q \in Patterns PROVE reused'[q] # r.id
      OBVIOUS
    <3>1. r.id # 0 /\ r.id # IdOf(p) /\ reused[q] # r.id
      BY <2>2 DEF ResultInv
    <3> QED
      BY <2>5, <2>8, <3>1
  <2>12. ASSUME NEW r \in returned'
         PROVE  /\ r.id \in 1 .. Len(results') /\ results'[r.id] = Final(r)
                /\ \A q \in Patterns : reused'[q] # r.id
    <3>1. CASE r \in returned
      BY <2>5, <2>11, <3>1
    <3>2. CASE r = call /\ Matches(p, res)
      <4>1. \A q \in Patterns : reused'[q] # IdOf(p)
        BY <2>2, <2>5, <2>6, <2>8, <3>2
      <4> QED
        BY <2>2, <2>4, <2>6, <3>2, <4>1
    <3> QED
      BY <2>1, <2>12, <3>1, <3>2
  <2>13. \A r, s \in returned' : r.id = s.id => r = s
    BY <2>1, <2>2, <2>6 DEF ResultInv
  <2>14. \A r : Final(r)' = Final(r)
    BY DEF Final
  <2> QED
    BY <1>1, <2>2, <2>7, <2>9, <2>10, <2>12, <2>13, <2>14 DEF ResultInv
<1> QED
  BY <1>2, <1>3

LEMMA StepKeepsResults ==
    ASSUME UrlPatternAssumption, CacheInv, ResultInv, [Next]_vars
    PROVE  ResultInv'
<1>1. ASSUME NEW p \in Patterns, Construct(p)
      PROVE  ResultInv'
  BY <1>1 DEF Construct, ResultInv, Final
<1>2. ASSUME NEW p \in Patterns, NEW i \in Inputs, NEW b \in Bases \cup {None}, Test(p, i, b)
      PROVE  ResultInv'
  BY <1>2 DEF Test, ResultInv, Final
<1>3. CASE UNCHANGED vars
  BY <1>3 DEF vars, ResultInv, Final
<1> QED
  BY <1>1, <1>2, <1>3, ExecKeepsResults DEF Next

\* Whatever is matched before and after, with any patterns: a result that exec
\* returned is the match of its input, and stays it.
THEOREM ResultsStayFinal == UrlPatternAssumption /\ Spec => []ResultsAreFinal
<1> SUFFICES ASSUME UrlPatternAssumption PROVE Spec => []ResultsAreFinal
  OBVIOUS
<1>1. Init => CacheInv /\ ResultInv
  <2> SUFFICES ASSUME Init PROVE ResultInv
    BY InitCache
  <2>1. results = <<>> /\ <<>> \in Seq({}) /\ Len(<<>>) = 0
    BY EmptySeq DEF Init
  <2> QED
    BY <2>1 DEF Init, ResultInv
<1>2. CacheInv /\ ResultInv /\ [Next]_vars => (CacheInv /\ ResultInv)'
  BY StepKeepsCache, StepKeepsResults
<1>3. ResultInv => ResultsAreFinal
  BY DEF ResultInv, ResultsAreFinal, Final
<1> QED
  BY <1>1, <1>2, <1>3, PTL DEF Spec
=============================================================================
