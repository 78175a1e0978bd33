------------------------------ MODULE Script_proofs ------------------------------
(***************************************************************************)
(* Proofs about what a script calls: timers, for any contexts and any       *)
(* number of them; the console, for any labels, formats and calls inside    *)
(* each other; inspect, for any objects that refer to one another.          *)
(***************************************************************************)
EXTENDS Console, Timers, Inspect, SequenceLemmas

-----------------------------------------------------------------------------
(* Timers                                                                   *)

TimersTypeOK ==
    /\ context \in Contexts /\ oldContext \in Contexts
    /\ set \in Seq(Contexts)
    /\ calling \in 0 .. Len(set)
    /\ DOMAIN timers \subseteq 1 .. Len(set)
    /\ canceled \subseteq 1 .. Len(set)

\* A timer in the queue is one that may be called, in its own context; while a
\* callback runs, the context of the event loop is in oldContext.
TimersInv ==
    /\ TimersTypeOK
    /\ \A id \in DOMAIN timers : timers[id].asyncContext = set[id] /\ id \notin canceled
    /\ IF calling = 0 THEN context = entered ELSE oldContext = entered

\* Setting a timer binds it to the current context.
LEMMA QueueKeepsTimers ==
    ASSUME TimersInv, NEW repeat \in BOOLEAN, QueueUserTimer(repeat, context)
    PROVE  TimersInv'
<1> DEFINE id == Len(set) + 1
<1>1. /\ set' = Append(set, context) /\ set' \in Seq(Contexts) /\ Len(set') = id
      /\ id \in Nat /\ id \notin 1 .. Len(set) /\ set'[id] = context
      /\ \A i \in 1 .. Len(set) : set'[i] = set[i]
  BY DEF TimersInv, TimersTypeOK, QueueUserTimer
<1>2. /\ DOMAIN timers' = DOMAIN timers \cup {id}
      /\ timers'[id].asyncContext = context
      /\ \A i \in DOMAIN timers : timers'[i] = timers[i]
  BY <1>1 DEF TimersInv, TimersTypeOK, QueueUserTimer
<1>3. UNCHANGED <<context, calling, oldContext, entered, canceled>>
  BY DEF QueueUserTimer
<1>4. TimersTypeOK'
  BY <1>1, <1>2, <1>3 DEF TimersInv, TimersTypeOK
<1>5. \A i \in DOMAIN timers' : timers'[i].asyncContext = set'[i] /\ i \notin canceled'
  BY <1>1, <1>2, <1>3 DEF TimersInv, TimersTypeOK
<1> QED
  BY <1>3, <1>4, <1>5 DEF TimersInv

LEMMA TimersInvInit == ASSUME TimersAssumption, TimersInit PROVE TimersInv
  BY DEF TimersAssumption, TimersInit, TimersInv, TimersTypeOK

LEMMA TimersInvNext ==
    ASSUME TimersInv, [TimersNext]_timerVars
    PROVE  TimersInv'
<1>1. CASE SetTimeout
  BY <1>1, QueueKeepsTimers DEF SetTimeout
<1>2. CASE SetInterval
  BY <1>2, QueueKeepsTimers DEF SetInterval
<1>3. ASSUME NEW id \in 0 .. MaxTimers, ClearTimer(id)
      PROVE  TimersInv'
  <2>1. /\ DOMAIN timers' = DOMAIN timers \ {id}
        /\ \A i \in DOMAIN timers' : timers'[i] = timers[i]
    BY <1>3 DEF ClearTimer, WithoutTimer
  <2>2. DOMAIN set = 1 .. Len(set)
    BY DEF TimersInv, TimersTypeOK
  <2>3. /\ UNCHANGED <<context, set, calling, oldContext, entered>>
        /\ canceled' \subseteq 1 .. Len(set) /\ canceled' \subseteq canceled \cup {id}
    BY <1>3, <2>2 DEF ClearTimer, TimersInv, TimersTypeOK
  <2> QED
    BY <2>1, <2>3 DEF TimersInv, TimersTypeOK
<1>4. ASSUME NEW c \in Contexts, EnterContext(c)
      PROVE  TimersInv'
  BY <1>4 DEF EnterContext, TimersInv, TimersTypeOK
<1>5. ASSUME NEW id \in 0 .. MaxTimers, Fire(id)
      PROVE  TimersInv'
  <2>1. /\ calling = 0 /\ id \in DOMAIN timers /\ id \in 1 .. Len(set) /\ id # 0
        /\ set[id] \in Contexts
        /\ set' = set /\ entered' = entered /\ calling' = id /\ oldContext' = context
        /\ context' = set[id]
    BY <1>5 DEF Fire, TimersInv, TimersTypeOK
  <2>2. CASE timers[id].repeat
    BY <1>5, <2>1, <2>2 DEF Fire, TimersInv, TimersTypeOK
  <2>3. CASE ~timers[id].repeat
    <3>1. timers' = WithoutTimer(id) /\ canceled' = canceled \cup {id}
      BY <1>5, <2>3 DEF Fire
    <3>2. /\ DOMAIN timers' = DOMAIN timers \ {id}
          /\ \A i \in DOMAIN timers' : timers'[i] = timers[i]
      BY <3>1 DEF WithoutTimer
    <3> QED
      BY <2>1, <3>1, <3>2 DEF TimersInv, TimersTypeOK
  <2> QED
    BY <2>2, <2>3
<1>6. CASE Finally
  BY <1>6 DEF Finally, TimersInv, TimersTypeOK
<1>7. CASE UNCHANGED timerVars
  BY <1>7 DEF timerVars, TimersInv, TimersTypeOK
<1> QED
  BY <1>1, <1>2, <1>3, <1>4, <1>5, <1>6, <1>7 DEF TimersNext

\* Every step of a callback's life is bound as CallbackIsBound says.
LEMMA StepIsBound ==
    ASSUME TimersInv, [TimersNext]_timerVars
    PROVE  [CallbackIsBound]_timerVars
<1>1. calling = 0 /\ calling' # 0 => context' = set[calling'] /\ calling' \notin canceled
  BY DEF TimersNext, timerVars, SetTimeout, SetInterval, QueueUserTimer, ClearTimer, EnterContext, Fire,
         Finally, TimersInv, TimersTypeOK
<1>2. calling' = 0 => context' = entered'
  <2>1. TimersInv'
    BY TimersInvNext
  <2> QED
    BY <2>1 DEF TimersInv
<1> QED
  BY <1>1, <1>2 DEF CallbackIsBound

\* However many timers are set, cleared and called, and whatever contexts are entered
\* in between, a callback of setTimeout and setInterval runs in the context it was set
\* in, never after it was cleared, and leaves no context behind.
THEOREM ContextsAreKept == TimersAssumption /\ TimersSpec => TimersKeepContexts
<1>1. TimersAssumption /\ TimersInit => TimersInv
  BY TimersInvInit
<1>2. TimersInv /\ [TimersNext]_timerVars => TimersInv'
  BY TimersInvNext
<1>3. TimersInv /\ [TimersNext]_timerVars => [CallbackIsBound]_timerVars
  BY StepIsBound
<1> QED
  BY <1>1, <1>2, <1>3, PTL DEF TimersSpec, TimersKeepContexts

-----------------------------------------------------------------------------
(* Format strings                                                           *)

\* What is printed, n of the arguments being taken before a.
Pieces(n) == [char : Characters, arg : 0 .. n]

Ordered(text) ==
    \A i, j \in DOMAIN text :
        i < j /\ text[i].arg > 0 /\ text[j].arg > 0 => text[i].arg < text[j].arg

Before(text, a) == \A i \in DOMAIN text : text[i].arg < a

Present(text, a) == \A k \in 1 .. a - 1 : \E i \in DOMAIN text : text[i].arg = k

\* A round over the first i characters of a format.
RoundInv(st, format, i, n) ==
    /\ st.text \in Seq(Pieces(n)) /\ st.a \in 1 .. n + 1
    /\ Ordered(st.text) /\ Before(st.text, st.a)
    /\ Styles(format) = {} => Present(st.text, st.a)
    /\ st.percent => i # 0 /\ format[i] = "%"

Rounded(n) == [text : Seq(Pieces(n)), a : 1 .. n + 1, percent : BOOLEAN]

\* A character leaves the arguments as they are.
LEMMA AppendChar ==
    ASSUME NEW n \in Nat, NEW a \in 1 .. n + 1, NEW text \in Seq(Pieces(n)), NEW c \in Characters,
           Ordered(text), Before(text, a)
    PROVE  /\ Append(text, Char(c)) \in Seq(Pieces(n))
           /\ Ordered(Append(text, Char(c))) /\ Before(Append(text, Char(c)), a)
           /\ Present(text, a) => Present(Append(text, Char(c)), a)
<1> DEFINE x == Char(c)
           t == Append(text, x)
           m == Len(text)
<1>1. x \in Pieces(n) /\ x.arg = 0
  BY DEF Char, Pieces
<1>2. m \in Nat /\ DOMAIN text = 1 .. m
  BY LenProperties
<1> HIDE DEF x
<1>3. /\ t \in Seq(Pieces(n)) /\ Len(t) = m + 1 /\ t[m + 1] = x
      /\ \A i \in 1 .. m : t[i] = text[i]
  BY <1>1, AppendProperties
<1>4. DOMAIN t = 1 .. m + 1
  BY <1>3, LenProperties
<1> HIDE DEF t, m
<1>5. Ordered(t)
  <2> SUFFICES ASSUME NEW i \in 1 .. m + 1, NEW j \in 1 .. m + 1, i < j,
                      t[i].arg > 0, t[j].arg > 0
               PROVE  t[i].arg < t[j].arg
    BY <1>4 DEF Ordered
  <2>1. j # m + 1
    BY <1>1, <1>3
  <2>2. i \in 1 .. m /\ j \in 1 .. m
    BY <1>2, <2>1
  <2> QED
    BY <1>2, <1>3, <2>2 DEF Ordered
<1>6. Before(t, a)
  <2> SUFFICES ASSUME NEW i \in 1 .. m + 1 PROVE t[i].arg < a
    BY <1>4 DEF Before
  <2>1. CASE i = m + 1
    BY <1>1, <1>3, <2>1
  <2>2. CASE i \in 1 .. m
    BY <1>2, <1>3, <2>2 DEF Before
  <2> QED
    BY <1>2, <2>1, <2>2
<1>7. ASSUME Present(text, a) PROVE Present(t, a)
  <2>1. \A i \in 1 .. m : i \in 1 .. m + 1
    BY <1>2
  <2> QED
    BY <1>2, <1>3, <1>4, <1>7, <2>1, Zenon DEF Present
<1> QED
  BY <1>3, <1>5, <1>6, <1>7 DEF t, x

\* The next argument follows the others.
LEMMA AppendArg ==
    ASSUME NEW n \in Nat, NEW a \in 1 .. n, NEW text \in Seq(Pieces(n)), NEW c \in Characters,
           Ordered(text), Before(text, a)
    PROVE  /\ Append(text, Arg(c, a)) \in Seq(Pieces(n))
           /\ Ordered(Append(text, Arg(c, a))) /\ Before(Append(text, Arg(c, a)), a + 1)
           /\ Present(text, a) => Present(Append(text, Arg(c, a)), a + 1)
<1> DEFINE x == Arg(c, a)
           t == Append(text, x)
           m == Len(text)
<1>1. x \in Pieces(n) /\ x.arg = a
  BY DEF Arg, Pieces
<1>2. m \in Nat /\ DOMAIN text = 1 .. m
  BY LenProperties
<1> HIDE DEF x
<1>3. /\ t \in Seq(Pieces(n)) /\ Len(t) = m + 1 /\ t[m + 1] = x
      /\ \A i \in 1 .. m : t[i] = text[i]
  BY <1>1, AppendProperties
<1>4. DOMAIN t = 1 .. m + 1
  BY <1>3, LenProperties
<1>5. \A i \in 1 .. m : text[i].arg \in Nat /\ text[i].arg < a
  <2> SUFFICES ASSUME NEW i \in 1 .. m PROVE text[i].arg \in Nat /\ text[i].arg < a
    OBVIOUS
  <2>1. text[i] \in Pieces(n)
    BY ElementOfSeq
  <2> QED
    BY <1>2, <2>1 DEF Before, Pieces
<1> HIDE DEF t, m
<1>6. Ordered(t)
  <2> SUFFICES ASSUME NEW i \in 1 .. m + 1, NEW j \in 1 .. m + 1, i < j,
                      t[i].arg > 0, t[j].arg > 0
               PROVE  t[i].arg < t[j].arg
    BY <1>4 DEF Ordered
  <2>1. i \in 1 .. m
    BY <1>2
  <2>2. CASE j = m + 1
    BY <1>1, <1>3, <1>5, <2>1, <2>2
  <2>3. CASE j \in 1 .. m
    BY <1>2, <1>3, <2>1, <2>3 DEF Ordered
  <2> QED
    BY <1>2, <2>2, <2>3
<1>7. Before(t, a + 1)
  <2> SUFFICES ASSUME NEW i \in 1 .. m + 1 PROVE t[i].arg < a + 1
    BY <1>4 DEF Before
  <2>1. CASE i = m + 1
    BY <1>1, <1>3, <2>1
  <2>2. CASE i \in 1 .. m
    BY <1>3, <1>5, <2>2
  <2> QED
    BY <1>2, <2>1, <2>2
<1>8. ASSUME Present(text, a) PROVE Present(t, a + 1)
  <2> SUFFICES ASSUME NEW k \in 1 .. a PROVE \E i \in 1 .. m + 1 : t[i].arg = k
    BY <1>4 DEF Present
  <2>1. CASE k = a
    <3>1. m + 1 \in 1 .. m + 1 /\ t[m + 1].arg = k
      BY <1>1, <1>2, <1>3, <2>1
    <3> QED
      BY <3>1, Zenon
  <2>2. CASE k # a
    <3>1. k \in 1 .. a - 1
      BY <2>2
    <3>2. PICK i \in 1 .. m : text[i].arg = k
      BY <1>2, <1>8, <3>1 DEF Present
    <3>3. i \in 1 .. m + 1 /\ t[i].arg = k
      BY <1>2, <1>3, <3>2
    <3> QED
      BY <3>3, Zenon
  <2> QED
    BY <2>1, <2>2
<1> QED
  BY <1>3, <1>6, <1>7, <1>8 DEF t, x

LEMMA RoundKeeps ==
    ASSUME ConsoleAssumption, NEW n \in Nat, NEW format \in Seq(Characters), NEW i \in 1 .. Len(format),
           NEW st \in Rounded(n), RoundInv(st, format, i - 1, n)
    PROVE  LET next == Round(st, format[i], n) IN
           next \in Rounded(n) /\ RoundInv(next, format, i, n)
<1> DEFINE c == format[i]
           text == st.text
           a == st.a
           next == Round(st, c, n)
           plain == Styles(format) = {}
<1>1. /\ c \in Characters /\ text \in Seq(Pieces(n)) /\ a \in 1 .. n + 1
      /\ Ordered(text) /\ Before(text, a) /\ (plain => Present(text, a))
      /\ st = [text |-> text, a |-> a, percent |-> st.percent] /\ st.percent \in BOOLEAN
      /\ i # 0
  BY ElementOfSeq DEF RoundInv, Rounded
<1> SUFFICES next \in Rounded(n) /\ RoundInv(next, format, i, n)
  OBVIOUS
<1> HIDE DEF plain
<1>2. ASSUME NEW t, NEW b, NEW p \in BOOLEAN, next = [text |-> t, a |-> b, percent |-> p],
             t \in Seq(Pieces(n)), b \in 1 .. n + 1, Ordered(t), Before(t, b),
             plain => Present(t, b), p => c = "%"
      PROVE  next \in Rounded(n) /\ RoundInv(next, format, i, n)
  <2> HIDE DEF next, c
  <2>1. next.text = t /\ next.a = b /\ next.percent = p /\ next \in Rounded(n)
    BY <1>2 DEF Rounded
  <2> QED
    BY <1>1, <1>2, <2>1, Zenon DEF RoundInv, c, plain
<1>3. ASSUME NEW d \in Characters
      PROVE  LET t == Append(text, Char(d)) IN
             t \in Seq(Pieces(n)) /\ Ordered(t) /\ Before(t, a) /\ (plain => Present(t, a))
  BY <1>1, AppendChar
<1>4. CASE ~st.percent /\ c = "%"
  <2>1. next = [text |-> text, a |-> a, percent |-> TRUE]
    BY <1>1, <1>4 DEF Round
  <2> QED
    BY <1>1, <1>2, <1>4, <2>1
<1>5. CASE ~st.percent /\ c # "%"
  <2> DEFINE t == Append(text, Char(c))
  <2>1. next = [text |-> t, a |-> a, percent |-> FALSE]
    BY <1>1, <1>5 DEF Round
  <2> HIDE DEF t, next
  <2> QED
    BY <1>1, <1>2, <1>3, <2>1 DEF t
<1>6. CASE st.percent /\ c \in Directives /\ a <= n
  <2>1. a \in 1 .. n /\ a + 1 \in 1 .. n + 1
    BY <1>1, <1>6
  <2>2. CASE c = "c"
    <3>1. next = [text |-> text, a |-> a + 1, percent |-> FALSE]
      BY <1>1, <1>6, <2>2 DEF Round
    <3>2. i \in Styles(format)
      <4>1. i - 1 # 0 /\ format[i - 1] = "%"
        BY <1>6 DEF RoundInv
      <4>2. i > 1 /\ i \in DOMAIN format
        BY <4>1, LenProperties
      <4> QED
        BY <2>2, <4>1, <4>2 DEF Styles
    <3>3. Before(text, a + 1)
      <4> SUFFICES ASSUME NEW j \in DOMAIN text PROVE text[j].arg < a + 1
        BY DEF Before
      <4>1. text[j] \in Pieces(n)
        BY <1>1, ElementOfSeq, LenProperties
      <4>2. text[j].arg \in Nat
        BY <4>1 DEF Pieces
      <4>3. text[j].arg < a
        BY <1>1 DEF Before
      <4> HIDE DEF text
      <4> QED
        BY <1>1, <4>2, <4>3
    <3>4. ~plain
      BY <3>2 DEF plain
    <3> HIDE DEF next
    <3> QED
      BY <1>1, <1>2, <2>1, <3>1, <3>3, <3>4
  <2>3. CASE c # "c"
    <3> DEFINE t == Append(text, Arg(c, a))
    <3>1. next = [text |-> t, a |-> a + 1, percent |-> FALSE]
      BY <1>1, <1>6, <2>3 DEF Round
    <3>2. /\ t \in Seq(Pieces(n)) /\ Ordered(t) /\ Before(t, a + 1)
          /\ plain => Present(t, a + 1)
      BY <1>1, <2>1, AppendArg
    <3> HIDE DEF t, next
    <3> QED
      BY <1>2, <2>1, <3>1, <3>2
  <2> QED
    BY <2>2, <2>3
<1>7. CASE st.percent /\ ~(c \in Directives /\ a <= n)
  <2> DEFINE u == Append(text, Char("%"))
             v == Append(u, Char(c))
             t == IF c = "%" THEN u ELSE v
  <2>1. next = [text |-> t, a |-> a, percent |-> FALSE]
    BY <1>1, <1>7 DEF Round
  <2>2. u \in Seq(Pieces(n)) /\ Ordered(u) /\ Before(u, a) /\ (plain => Present(u, a))
    <3>1. "%" \in Characters
      BY DEF ConsoleAssumption
    <3> QED
      BY <1>1, <3>1, AppendChar
  <2> HIDE DEF u
  <2>3. v \in Seq(Pieces(n)) /\ Ordered(v) /\ Before(v, a) /\ (plain => Present(v, a))
    BY <1>1, <2>2, AppendChar
  <2> HIDE DEF v
  <2>4. t \in Seq(Pieces(n)) /\ Ordered(t) /\ Before(t, a) /\ (plain => Present(t, a))
    BY <2>2, <2>3
  <2> HIDE DEF t, next
  <2> QED
    BY <1>1, <1>2, <2>1, <2>4
<1> QED
  BY <1>1, <1>4, <1>5, <1>6, <1>7, Zenon

LEMMA RoundType ==
    ASSUME ConsoleAssumption, NEW n \in Nat, NEW st \in Rounded(n), NEW c \in Characters
    PROVE  Round(st, c, n) \in Rounded(n)
<1> DEFINE text == st.text
           a == st.a
           u == Append(text, Char("%"))
<1>1. /\ text \in Seq(Pieces(n)) /\ a \in 1 .. n + 1 /\ st.percent \in BOOLEAN
      /\ st = [text |-> text, a |-> a, percent |-> st.percent]
  BY DEF Rounded
<1>2. ASSUME NEW d \in Characters PROVE Char(d) \in Pieces(n)
  BY DEF Char, Pieces
<1>3. "%" \in Characters
  BY DEF ConsoleAssumption
<1>4. u \in Seq(Pieces(n))
  BY <1>1, <1>2, <1>3, AppendProperties
<1>5. Append(u, Char(c)) \in Seq(Pieces(n)) /\ Append(text, Char(c)) \in Seq(Pieces(n))
  BY <1>1, <1>2, <1>4, AppendProperties
<1>6. a <= n => Append(text, Arg(c, a)) \in Seq(Pieces(n)) /\ a + 1 \in 1 .. n + 1
  <2>1. a <= n => Arg(c, a) \in Pieces(n)
    BY <1>1 DEF Arg, Pieces
  <2> QED
    BY <1>1, <2>1, AppendProperties
<1>7. ASSUME NEW t \in Seq(Pieces(n)), NEW b \in 1 .. n + 1, NEW p \in BOOLEAN
      PROVE  [text |-> t, a |-> b, percent |-> p] \in Rounded(n)
  BY DEF Rounded
<1>8. CASE ~st.percent /\ c = "%"
  <2>1. Round(st, c, n) = [text |-> text, a |-> a, percent |-> TRUE]
    BY <1>1, <1>8 DEF Round
  <2> QED
    BY <1>1, <1>7, <2>1
<1>9. CASE ~st.percent /\ c # "%"
  <2> DEFINE t == Append(text, Char(c))
  <2>1. Round(st, c, n) = [text |-> t, a |-> a, percent |-> FALSE]
    BY <1>1, <1>9 DEF Round
  <2> HIDE DEF t
  <2> QED
    BY <1>1, <1>5, <1>7, <2>1 DEF t
<1>10. CASE st.percent /\ c \in Directives /\ a <= n
  <2> DEFINE t == IF c = "c" THEN text ELSE Append(text, Arg(c, a))
  <2>1. Round(st, c, n) = [text |-> t, a |-> a + 1, percent |-> FALSE]
    BY <1>1, <1>10 DEF Round
  <2>2. t \in Seq(Pieces(n))
    BY <1>1, <1>6, <1>10
  <2> HIDE DEF t
  <2> QED
    BY <1>6, <1>7, <1>10, <2>1, <2>2
<1>11. CASE st.percent /\ ~(c \in Directives /\ a <= n)
  <2> DEFINE t == IF c = "%" THEN u ELSE Append(u, Char(c))
  <2>1. Round(st, c, n) = [text |-> t, a |-> a, percent |-> FALSE]
    BY <1>1, <1>11 DEF Round
  <2>2. t \in Seq(Pieces(n))
    BY <1>4, <1>5
  <2> HIDE DEF t
  <2> QED
    BY <1>1, <1>7, <2>1, <2>2
<1> QED
  BY <1>1, <1>8, <1>9, <1>10, <1>11, Zenon

LEMMA RoundsKeep ==
    ASSUME ConsoleAssumption, NEW n \in Nat, NEW format \in Seq(Characters)
    PROVE  LET st == Rounds(format, n) IN
           st \in Rounded(n) /\ RoundInv(st, format, Len(format), n)
<1> DEFINE N == Len(format)
           V == Rounded(n)
           start == [text |-> <<>>, a |-> 1, percent |-> FALSE]
           G == [p \in (1 .. N) \X V |-> Round(p[2], format[p[1]], n)]
           R(f) == f = [i \in 0 .. N |-> IF i = 0 THEN start
                                         ELSE Round(f[i - 1], format[i], n)]
<1>1. N \in Nat /\ \A i \in 1 .. N : format[i] \in Characters
  BY LenProperties, ElementOfSeq
<1>2. start \in V /\ RoundInv(start, format, 0, n)
  <2>1. /\ <<>> \in Seq(Pieces(n)) /\ DOMAIN <<>> = {}
    BY EmptySeq
  <2>2. Ordered(<<>>) /\ Before(<<>>, 1) /\ Present(<<>>, 1)
    BY <2>1 DEF Ordered, Before, Present
  <2> DEFINE t == <<>>
             p == FALSE
  <2>3. start = [text |-> t, a |-> 1, percent |-> p]
    OBVIOUS
  <2>4. t \in Seq(Pieces(n)) /\ Ordered(t) /\ Before(t, 1) /\ Present(t, 1) /\ p \in BOOLEAN /\ ~p
    BY <2>1, <2>2
  <2> HIDE DEF t, p, start
  <2>5. start.text = t /\ start.a = 1 /\ start.percent = p /\ start \in V
    BY <2>3, <2>4 DEF Rounded
  <2>6. 1 \in 1 .. n + 1
    OBVIOUS
  <2> QED
    BY <2>4, <2>5, <2>6, Zenon DEF RoundInv
<1>3. ASSUME NEW i \in 1 .. N, NEW v \in V PROVE Round(v, format[i], n) \in V
  BY <1>1, RoundType
<1>4. \A i \in 1 .. N : \A v \in V : G[<<i, v>>] \in V
  BY <1>3
<1>5. \A i \in 1 .. N, v \in V : G[<<i, v>>] = Round(v, format[i], n)
  OBVIOUS
<1>6. Rounds(format, n) = (CHOOSE f : R(f))[N]
  BY Zenon DEF Rounds
<1> HIDE DEF G, V, N, start
<1>7. PICK g : Computes(g, N, V, start, G)
  BY <1>1, <1>2, <1>4, RecursionExists
<1>8. \A i \in 1 .. N : g[i - 1] \in V
  BY <1>1, <1>7 DEF Computes
<1>9. ASSUME NEW i \in 0 .. N
      PROVE  g[i] = IF i = 0 THEN start ELSE Round(g[i - 1], format[i], n)
  <2>1. CASE i = 0
    BY <2>1, <1>7 DEF Computes
  <2>2. CASE i # 0
    <3>1. i \in 1 .. N
      BY <2>2, <1>1
    <3> QED
      BY <3>1, <2>2, <1>5, <1>7, <1>8 DEF Computes
  <2> QED
    BY <2>1, <2>2
<1>10. R(g)
  <2>1. g = [i \in 0 .. N |-> g[i]]
    BY <1>7 DEF Computes
  <2> QED
    BY <2>1, <1>9, Zenon
<1> DEFINE of == CHOOSE f : R(f)
<1>11. R(of)
  BY <1>10, Zenon
<1> HIDE DEF of
<1>12. ASSUME NEW i \in 0 .. N
       PROVE  of[i] = IF i = 0 THEN start ELSE Round(of[i - 1], format[i], n)
  BY <1>11, Zenon
<1> DEFINE K == {i \in Nat : i <= N => of[i] \in V /\ RoundInv(of[i], format, i, n)}
<1>13. 0 \in K
  <2>1. of[0] = start
    BY <1>1, <1>12
  <2> QED
    BY <2>1, <1>2
<1>14. ASSUME NEW i \in Nat, i \in K PROVE i + 1 \in K
  <2> SUFFICES ASSUME i + 1 <= N
               PROVE  of[i + 1] \in V /\ RoundInv(of[i + 1], format, i + 1, n)
    OBVIOUS
  <2>1. i + 1 \in 1 .. N /\ (i + 1) - 1 = i /\ of[i] \in V /\ RoundInv(of[i], format, i, n)
    BY <1>1, <1>14
  <2>2. of[i + 1] = Round(of[i], format[i + 1], n)
    BY <1>12, <2>1
  <2> DEFINE j == i + 1
             st == of[i]
  <2>3. j \in 1 .. Len(format) /\ RoundInv(st, format, j - 1, n) /\ st \in Rounded(n)
    BY <2>1 DEF N, V
  <2> HIDE DEF j, st
  <2>4. Round(st, format[j], n) \in Rounded(n) /\ RoundInv(Round(st, format[j], n), format, j, n)
    BY <2>3, RoundKeeps
  <2> QED
    BY <2>2, <2>4 DEF j, st, V
<1> HIDE DEF K
<1>15. \A i \in Nat : i \in K
  BY <1>13, <1>14, SetInduction
<1>16. N \in K
  BY <1>1, <1>15
<1>17. of[N] \in V /\ RoundInv(of[N], format, N, n)
  BY <1>1, <1>16 DEF K
<1> QED
  BY <1>6, <1>17 DEF of, N, V

\* Every argument is in the text of a line, once and in their order, but for those
\* that are styles (inspectArgs).
Complete(text, format, n) ==
    /\ text \in Seq(Pieces(n)) /\ Ordered(text)
    /\ Styles(format) = {} => Present(text, n + 1)

LEMMA SubstituteIsComplete ==
    ASSUME ConsoleAssumption, NEW n \in Nat, NEW format \in Seq(Characters)
    PROVE  Complete(Substitute(format, n), format, n)
<1> DEFINE st == Rounds(format, n)
           a == st.a
           t == IF st.percent THEN Append(st.text, Char("%")) ELSE st.text
           r == [k \in 1 .. (n + 1) - a |-> Arg("blank", a + k - 1)]
           tr == t \o r
           m == Len(t)
           l == (n + 1) - a
           plain == Styles(format) = {}
<1>1. st \in Rounded(n) /\ RoundInv(st, format, Len(format), n)
  BY RoundsKeep
<1>2. a \in 1 .. n + 1 /\ Substitute(format, n) = tr
  BY <1>1 DEF Substitute, Rounded
<1> HIDE DEF st, plain
<1>3. t \in Seq(Pieces(n)) /\ Ordered(t) /\ Before(t, a) /\ (plain => Present(t, a))
  <2>1. "%" \in Characters
    BY DEF ConsoleAssumption
  <2> QED
    BY <1>1, <1>2, <2>1, AppendChar DEF RoundInv, plain
<1>4. /\ m \in Nat /\ l \in Nat /\ DOMAIN t = 1 .. m
  BY <1>2, <1>3, LenProperties
<1>5. r \in Seq(Pieces(n)) /\ Len(r) = l /\ \A k \in 1 .. l : r[k].arg = a + k - 1
  <2>1. ASSUME NEW k \in 1 .. l PROVE Arg("blank", a + k - 1) \in Pieces(n)
    BY <1>2 DEF Arg, Pieces, ConsoleAssumption
  <2>2. r \in [1 .. l -> Pieces(n)]
    BY <2>1
  <2>3. \A k \in 1 .. l : r[k].arg = a + k - 1
    BY DEF Arg
  <2> HIDE DEF r, l
  <2>4. Len(r) = l
    BY <1>4, <2>2
  <2> QED
    BY <1>4, <2>2, <2>3, <2>4
<1> HIDE DEF r, t
<1>6. /\ tr \in Seq(Pieces(n)) /\ Len(tr) = m + l /\ DOMAIN tr = 1 .. m + l
      /\ \A i \in 1 .. m + l : tr[i] = IF i <= m THEN t[i] ELSE r[i - m]
  <2>1. /\ tr \in Seq(Pieces(n)) /\ Len(tr) = Len(t) + Len(r)
        /\ \A i \in 1 .. Len(t) + Len(r) : tr[i] = IF i <= Len(t) THEN t[i] ELSE r[i - Len(t)]
    BY <1>3, <1>5, ConcatProperties
  <2>2. DOMAIN tr = 1 .. Len(tr)
    BY <2>1, LenProperties
  <2> QED
    BY <1>5, <2>1, <2>2
<1> HIDE DEF tr, m, l, a
<1>7. \A i \in 1 .. m : tr[i].arg = t[i].arg /\ t[i].arg \in 0 .. n /\ t[i].arg < a
  <2> TAKE i \in 1 .. m
  <2>1. t[i] \in Pieces(n)
    BY <1>3, ElementOfSeq DEF m
  <2>2. t[i].arg \in 0 .. n
    BY <2>1 DEF Pieces
  <2>3. t[i].arg < a
    BY <1>3, <1>4 DEF Before
  <2>4. tr[i] = t[i]
    BY <1>4, <1>6
  <2> QED
    BY <2>2, <2>3, <2>4
<1>8. \A i \in m + 1 .. m + l : tr[i].arg = a + (i - m) - 1
  <2> TAKE i \in m + 1 .. m + l
  <2>1. i - m \in 1 .. l /\ i \in 1 .. m + l /\ ~(i <= m)
    BY <1>4
  <2> QED
    BY <1>5, <1>6, <2>1
<1>9. l = (n + 1) - a
  BY DEF l, a
<1>10. Ordered(tr)
  <2> SUFFICES ASSUME NEW i \in 1 .. m + l, NEW j \in 1 .. m + l, i < j,
                      tr[i].arg > 0, tr[j].arg > 0
               PROVE  tr[i].arg < tr[j].arg
    BY <1>6 DEF Ordered
  <2>1. CASE j <= m
    <3>1. i \in 1 .. m /\ j \in 1 .. m
      BY <1>4, <2>1
    <3>2. t[i].arg < t[j].arg
      BY <1>3, <1>4, <1>7, <3>1 DEF Ordered
    <3> QED
      BY <1>7, <3>1, <3>2
  <2>2. CASE ~(j <= m) /\ i <= m
    <3>1. i \in 1 .. m /\ j \in m + 1 .. m + l
      BY <1>4, <2>2
    <3>2. tr[j].arg = a + (j - m) - 1 /\ tr[i].arg < a /\ tr[i].arg \in 0 .. n
      BY <1>7, <1>8, <3>1
    <3> QED
      BY <1>2, <1>4, <3>1, <3>2
  <2>3. CASE ~(i <= m)
    <3>1. i \in m + 1 .. m + l /\ j \in m + 1 .. m + l
      BY <1>4, <2>3
    <3>2. tr[j].arg = a + (j - m) - 1 /\ tr[i].arg = a + (i - m) - 1
      BY <1>8, <3>1
    <3> QED
      BY <1>2, <1>4, <3>1, <3>2
  <2> QED
    BY <2>1, <2>2, <2>3
<1>11. ASSUME plain PROVE Present(tr, n + 1)
  <2> SUFFICES ASSUME NEW k \in 1 .. n PROVE \E i \in 1 .. m + l : tr[i].arg = k
    BY <1>6 DEF Present
  <2>1. CASE k < a
    <3>1. k \in 1 .. a - 1
      BY <1>2, <2>1
    <3>2. PICK i \in 1 .. m : t[i].arg = k
      BY <1>3, <1>4, <1>11, <3>1 DEF Present
    <3>3. i \in 1 .. m + l /\ tr[i].arg = k
      BY <1>4, <1>7, <3>2
    <3> QED
      BY <3>3, Zenon
  <2>2. CASE ~(k < a)
    <3> DEFINE i == m + 1 + (k - a)
    <3>1. i \in m + 1 .. m + l /\ i \in 1 .. m + l /\ a + (i - m) - 1 = k
      BY <1>2, <1>4, <1>9, <2>2
    <3>2. tr[i].arg = k
      BY <1>8, <3>1
    <3> QED
      BY <3>1, <3>2, Zenon
  <2> QED
    BY <2>1, <2>2
<1> QED
  BY <1>2, <1>6, <1>10, <1>11, Zenon DEF Complete, plain

LEMMA TextIsComplete ==
    ASSUME ConsoleAssumption, NEW n \in Nat, NEW format \in Seq(Characters)
    PROVE  Complete(InspectArgs(format, n), format, n)
<1>1. CASE n = 0
  <2> DEFINE t == InspectArgs(format, n)
  <2>1. t = [i \in 1 .. Len(format) |-> Char(format[i])]
    BY <1>1, LenProperties DEF InspectArgs
  <2>2. \A i \in DOMAIN t : t[i].arg = 0 /\ t[i] \in Pieces(n)
    BY <2>1, ElementOfSeq DEF Char, Pieces
  <2> HIDE DEF t
  <2>3. Ordered(t) /\ t \in Seq(Pieces(n))
    <3>1. Len(format) \in Nat
      BY LenProperties
    <3>2. t \in [1 .. Len(format) -> Pieces(n)]
      BY <2>1, <2>2
    <3> QED
      BY <2>2, <3>1, <3>2 DEF Ordered
  <2>4. Present(t, n + 1)
    BY <1>1 DEF Present
  <2> QED
    BY <2>3, <2>4 DEF Complete, t
<1>2. CASE n # 0
  BY <1>2, SubstituteIsComplete DEF InspectArgs
<1> QED
  BY <1>1, <1>2

-----------------------------------------------------------------------------
(* The console                                                              *)

\* What a call that waits may hold: the line it will print, complete but for the
\* moment of printing, or the label it was given.
Lines == [kind : {"none", "log", "group", "time"}, label : Labels \cup {"none"}, n : Nat,
          text : Seq([char : Characters, arg : Nat]), given : Nat, styles : SUBSET Nat,
          indent : Nat]
Methods == {"log", "late", "group"} \cup LabelMethods

Logged(l, what) == l.kind = what /\ l.label = "none" /\ l.n = 0 /\ Atomic!IsComplete(l)
Timed(l, label) == l.kind = "time" /\ l.label = label /\ l.n = 0

Holds(c) ==
    \/ c.step = "inspect" /\ c.method \in {"log", "late"} /\ Logged(c.line, "log")
    \/ c.step = "inspect" /\ c.method = "group" /\ Logged(c.line, "group")
    \/ c.step = "inspect" /\ c.method = "timeLog" /\ c.label \in Labels /\ Timed(c.line, c.label)
    \/ c.step = "label" /\ c.method \in LabelMethods /\ c.label \in Labels

Waiting ==
    {c \in [method : Methods, step : {"inspect", "label"}, label : Labels \cup {"none"}, line : Lines] :
        Holds(c)}

\* Whatever the calls that wait have been interrupted by, each of them still holds
\* what it needs to finish.
ConsoleInv == indentLevel \in Nat /\ calls \in Seq(Waiting)

LEMMA LineIsComplete ==
    ASSUME NEW n \in Nat, NEW format, NEW l, Complete(l.text, format, n),
           l.given = n, l.styles = Styles(format)
    PROVE  Atomic!IsComplete(l)
<1> DEFINE shown == {i \in DOMAIN l.text : l.text[i].arg > 0}
           text == l.text
<1>1. \A i \in shown : l.text[i].arg <= l.given
  <2>1. text \in Seq(Pieces(n))
    BY DEF Complete
  <2>2. \A i \in DOMAIN text : text[i] \in Pieces(n)
    BY <2>1, ElementOfSeq, LenProperties
  <2> QED
    BY <2>2 DEF Pieces
<1>2. \A i, j \in shown : i < j => l.text[i].arg < l.text[j].arg
  BY DEF Complete, Ordered
<1>3. ASSUME l.styles = {}, NEW k \in 1 .. l.given
      PROVE  \E i \in shown : l.text[i].arg = k
  <2>1. Present(l.text, n + 1)
    BY <1>3 DEF Complete
  <2>2. k \in 1 .. (n + 1) - 1
    BY <1>3
  <2>3. PICK i \in DOMAIN l.text : l.text[i].arg = k
    BY <2>1, <2>2 DEF Present
  <2>4. i \in shown
    BY <2>2, <2>3
  <2> QED
    BY <2>3, <2>4, Zenon
<1> QED
  BY <1>1, <1>2, <1>3, Zenon DEF Atomic!IsComplete

LEMMA LoggingWaits ==
    ASSUME ConsoleAssumption, indentLevel \in Nat, NEW n \in Nat, NEW format \in Seq(Characters),
           NEW method \in {"log", "late", "group"}
    PROVE  Logging(method, format, n) \in Waiting
<1> DEFINE text == InspectArgs(format, n)
           what == IF method = "group" THEN "group" ELSE "log"
           l == [kind |-> what, label |-> "none", n |-> 0, text |-> text, given |-> n,
                 styles |-> Styles(format), indent |-> indentLevel]
<1>1. Complete(text, format, n)
  BY TextIsComplete
<1> HIDE DEF text
<1>2. Logging(method, format, n)
         = [method |-> method, step |-> "inspect", label |-> "none", line |-> l]
  BY DEF Logging, text
<1>3. Atomic!IsComplete(l)
  <2> HIDE DEF what
  <2>1. l.text = text /\ l.given = n /\ l.styles = Styles(format)
    OBVIOUS
  <2> HIDE DEF l
  <2> QED
    BY <1>1, <2>1, LineIsComplete
<1>4. l \in Lines
  <2>1. Pieces(n) \subseteq [char : Characters, arg : Nat]
    BY DEF Pieces
  <2>2. text \in Seq([char : Characters, arg : Nat])
    BY <1>1, <2>1, SeqMonotonic DEF Complete
  <2>3. Styles(format) \subseteq Nat
    BY LenProperties DEF Styles
  <2> QED
    BY <2>2, <2>3 DEF Lines
<1> QED
  BY <1>2, <1>3, <1>4 DEF Waiting, Holds, Logged, Methods

\* What waits first is finished first.
LEMMA TopWaits ==
    ASSUME NEW S, NEW s \in Seq(S), s # <<>>
    PROVE  /\ Last(s) \in S /\ Last(s) = s[Len(s)] /\ Len(s) \in 1 .. Len(s)
           /\ Front(s) \in Seq(S)
<1>1. Len(s) \in Nat \ {0}
  BY LenProperties, EmptySeq
<1>2. s[Len(s)] \in S
  BY <1>1, ElementOfSeq
<1>3. SubSeq(s, 1, Len(s) - 1) \in Seq(S)
  <2>1. \A i \in 1 .. Len(s) - 1 : i \in 1 .. Len(s)
    BY <1>1
  <2>2. \A i \in 1 .. Len(s) - 1 : s[i] \in S
    BY <2>1, ElementOfSeq
  <2> DEFINE m == Len(s) - 1
  <2>3. 1 \in Int /\ m \in Int /\ 1 <= m + 1
    BY <1>1
  <2> HIDE DEF m
  <2> QED
    BY <1>1, <2>2, <2>3, SubSeqProperties DEF m
<1> QED
  BY <1>1, <1>2, <1>3 DEF Last, Front

\* The line of a timer, and a label, are all that their calls need.
LEMMA TimingWaits ==
    ASSUME indentLevel \in Nat, NEW label \in Labels PROVE Timing(label) \in Waiting
<1> DEFINE l == Line("time", label, 0)
           t == <<>>
<1>1. /\ l = [kind |-> "time", label |-> label, n |-> 0, text |-> t, given |-> 0,
              styles |-> {}, indent |-> indentLevel]
      /\ t \in Seq([char : Characters, arg : Nat])
  BY EmptySeq DEF Line
<1>2. Timing(label) = [method |-> "timeLog", step |-> "inspect", label |-> label, line |-> l]
  BY DEF Timing
<1> HIDE DEF l, t
<1>3. l \in Lines /\ Timed(l, label)
  BY <1>1 DEF Lines, Timed
<1> QED
  BY <1>2, <1>3 DEF Waiting, Holds, Methods, LabelMethods

LEMMA LabelledWaits ==
    ASSUME NEW method \in LabelMethods, NEW label \in Labels
    PROVE  Labelled(method, label) \in Waiting
<1> DEFINE t == <<>>
<1>1. /\ NoLine = [kind |-> "none", label |-> "none", n |-> 0, text |-> t, given |-> 0,
                   styles |-> {}, indent |-> 0]
      /\ t \in Seq([char : Characters, arg : Nat])
  BY EmptySeq DEF NoLine
<1> HIDE DEF t
<1>2. NoLine \in Lines
  BY <1>1 DEF Lines
<1> QED
  BY <1>2 DEF Labelled, Waiting, Holds, Methods

\* A call that begins waits with what it needs, above the others.
LEMMA BeginWaits ==
    ASSUME calls \in Seq(Waiting), NEW c \in Waiting, Begin(c)
    PROVE  calls' \in Seq(Waiting)
  BY AppendProperties DEF Begin

LEMMA ReturnWaits ==
    ASSUME calls \in Seq(Waiting), calls # <<>>, Return
    PROVE  calls' \in Seq(Waiting)
  BY TopWaits DEF Return

LEMMA ConsoleInvNext ==
    ASSUME ConsoleAssumption, ConsoleInv, [Next]_vars PROVE ConsoleInv'
<1> USE DEF ConsoleInv
<1>1. ASSUME NEW format \in Formats, NEW n \in 0 .. MaxArguments
      PROVE  n \in Nat /\ format \in Seq(Characters)
  BY DEF ConsoleAssumption
<1>2. ASSUME NEW c \in Waiting, Begin(c), UNCHANGED indentLevel PROVE ConsoleInv'
  BY <1>2, BeginWaits
<1>3. ASSUME calls # <<>>, Return, indentLevel' \in Nat PROVE ConsoleInv'
  BY <1>3, ReturnWaits
<1>4. ASSUME NEW format \in Formats, NEW n \in 0 .. MaxArguments,
             \/ Log(format, n) \/ Trace(format, n) \/ Group(format, n)
             \/ \E condition \in BOOLEAN : AssertCall(condition, format, n)
      PROVE  ConsoleInv'
  <2>1. n \in Nat /\ format \in Seq(Characters)
    BY <1>1
  <2>2. CASE Log(format, n)
    BY <1>2, <2>1, <2>2, LoggingWaits DEF Log, Unchanged
  <2>3. CASE Trace(format, n)
    BY <1>2, <2>1, <2>3, LoggingWaits DEF Trace, Unchanged
  <2>4. CASE Group(format, n)
    BY <1>2, <2>1, <2>4, LoggingWaits DEF Group, Unchanged
  <2>5. ASSUME NEW condition \in BOOLEAN, AssertCall(condition, format, n) PROVE ConsoleInv'
    <3> DEFINE f == <<"assertion">> \o format
    <3>1. f \in Seq(Characters)
      <4>1. "assertion" \in Characters
        BY DEF ConsoleAssumption
      <4>2. <<"assertion">> \in Seq(Characters)
        BY <4>1
      <4> QED
        BY <2>1, <4>2, ConcatProperties
    <3>2. Begin(Logging("log", f, n)) /\ Unchanged
      BY <2>5 DEF AssertCall
    <3> HIDE DEF f
    <3> QED
      BY <1>2, <2>1, <3>1, <3>2, LoggingWaits DEF Unchanged
  <2> QED
    BY <1>4, <2>2, <2>3, <2>4, <2>5
<1>5. ASSUME NEW isObject \in BOOLEAN, Table(isObject) PROVE ConsoleInv'
  <2> DEFINE method == IF isObject THEN "late" ELSE "log"
  <2>1. <<>> \in Seq(Characters) /\ 1 \in Nat
    BY EmptySeq
  <2>2. Begin(Logging(method, <<>>, 1)) /\ Unchanged /\ method \in {"log", "late", "group"}
    BY <1>5 DEF Table
  <2> HIDE DEF method
  <2>3. Logging(method, <<>>, 1) \in Waiting
    BY <2>1, <2>2, LoggingWaits
  <2> QED
    BY <1>2, <2>2, <2>3 DEF Unchanged
<1>6. ASSUME NEW method \in LabelMethods, NEW label \in Labels, CallWithLabel(method, label)
      PROVE  ConsoleInv'
  BY <1>2, <1>6, LabelledWaits DEF CallWithLabel, Unchanged
<1>7. CASE LogPrints
  BY <1>3, <1>7 DEF LogPrints, Is
<1>8. CASE LatePrints
  BY <1>3, <1>8 DEF LatePrints, Is
<1>9. CASE GroupSilent
  BY <1>9 DEF GroupSilent
<1>10. CASE GroupPrints
  BY <1>3, <1>10 DEF GroupPrints, Is
<1>11. CASE GroupEnd
  BY <1>11 DEF GroupEnd
<1>12. CASE Clear
  BY <1>12 DEF Clear
<1>13. CASE Count
  BY <1>3, <1>13 DEF Count, Is
<1>14. CASE CountReset
  BY <1>3, <1>14 DEF CountReset, Is
<1>15. CASE Time
  BY <1>3, <1>15 DEF Time, Is
<1>16. CASE TimeLog
  <2> DEFINE n == Len(calls)
             c == calls[n]
  <2>1. c \in Waiting /\ Top = c /\ n \in 1 .. n /\ calls # <<>>
    BY <1>16, TopWaits DEF TimeLog, Is, Top
  <2>2. c.label \in Labels
    BY <1>16, <2>1 DEF TimeLog, Is, Waiting, Holds, LabelMethods
  <2>3. CASE Return
    BY <1>3, <1>16, <2>1, <2>3 DEF TimeLog
  <2>4. CASE calls' = [calls EXCEPT ![n] = Timing(c.label)]
    <3>1. Timing(c.label) \in Waiting
      BY <2>2, TimingWaits
    <3> QED
      BY <1>16, <2>1, <2>4, <3>1, ExceptSeq DEF TimeLog
  <2> QED
    BY <1>16, <2>1, <2>3, <2>4 DEF TimeLog
<1>17. CASE TimeLogPrints
  BY <1>3, <1>17 DEF TimeLogPrints, Is
<1>18. CASE TimeEnd
  BY <1>3, <1>18 DEF TimeEnd, Is
<1>19. CASE Throw
  BY <1>3, <1>19 DEF Throw, Unchanged
<1>20. CASE UNCHANGED vars
  BY <1>20 DEF vars
<1> QED
  BY <1>4, <1>5, <1>6, <1>7, <1>8, <1>9, <1>10, <1>11, <1>12, <1>13, <1>14, <1>15, <1>16,
     <1>17, <1>18, <1>19, <1>20 DEF Next

\* What the innermost call holds is what a step of its own may print.
LEMMA TopHolds ==
    ASSUME ConsoleInv, calls # <<>>
    PROVE  /\ Holds(Top)
           /\ Top.line = [kind |-> Top.line.kind, label |-> Top.line.label, n |-> Top.line.n,
                          text |-> Top.line.text, given |-> Top.line.given,
                          styles |-> Top.line.styles, indent |-> Top.line.indent]
<1>1. Top \in Waiting
  BY TopWaits DEF ConsoleInv, Top
<1> HIDE DEF Top
<1>2. Holds(Top) /\ Top.line \in Lines
  BY <1>1 DEF Waiting
<1> QED
  BY <1>2 DEF Lines

\* Each step of the console is a step of AtomicConsole: calls that begin, and calls
\* that throw, are seen by nobody, and the others have their effect when they return.
LEMMA StepIsAtomic ==
    ASSUME ConsoleAssumption, ConsoleInv, [Next]_vars
    PROVE  [Atomic!Next]_(Atomic!vars)
<1> USE DEF Atomic!Output, Atomic!Quiet
<1> SUFFICES ASSUME Next PROVE Atomic!Next
  BY DEF vars, Atomic!vars
<1>0. NoLine.kind = "none"
  BY DEF NoLine
<1>1. ASSUME Unchanged PROVE Atomic!Next
  BY <1>0, <1>1 DEF Unchanged, Quiet, Atomic!Nothing, Atomic!Next
<1>2. ASSUME NEW format \in Formats, NEW n \in 0 .. MaxArguments,
             \/ Log(format, n) \/ Trace(format, n) \/ Group(format, n)
             \/ \E condition \in BOOLEAN : AssertCall(condition, format, n)
      PROVE  Atomic!Next
  BY <1>1, <1>2 DEF Log, Trace, Group, AssertCall
<1>3. ASSUME NEW isObject \in BOOLEAN, Table(isObject) PROVE Atomic!Next
  BY <1>1, <1>3 DEF Table
<1>4. ASSUME NEW method \in LabelMethods, NEW label \in Labels, CallWithLabel(method, label)
      PROVE  Atomic!Next
  BY <1>1, <1>4 DEF CallWithLabel
<1>5. CASE LogPrints
  <2>1. Logged(Top.line, "log") /\ line' = Top.line
    BY <1>5, TopHolds DEF LogPrints, Is, Write, Holds, LabelMethods
  <2>2. Atomic!Log
    BY <1>5, <2>1 DEF LogPrints, Logged, Atomic!Log
  <2> QED
    BY <2>2 DEF Atomic!Next
<1>6. CASE LatePrints
  <2> DEFINE l == Top.line
  <2>1. Logged(l, "log") /\ line' = [l EXCEPT !.indent = indentLevel]
    BY <1>6, TopHolds DEF LatePrints, Is, Write, Holds, LabelMethods
  <2>2. /\ line'.kind = l.kind /\ line'.label = l.label /\ line'.n = l.n
        /\ line'.text = l.text /\ line'.given = l.given /\ line'.styles = l.styles
    BY <1>6, <2>1, TopHolds DEF LatePrints, Is
  <2> HIDE DEF l
  <2>3. Atomic!IsComplete(line')
    BY <2>1, <2>2 DEF Logged, Atomic!IsComplete
  <2>4. Atomic!Log
    BY <1>6, <2>1, <2>2, <2>3 DEF LatePrints, Logged, Atomic!Log
  <2> QED
    BY <2>4 DEF Atomic!Next
<1>7. CASE GroupSilent
  BY <1>0, <1>7 DEF GroupSilent, Quiet, Atomic!Group, Atomic!Next
<1>8. CASE GroupPrints
  <2>1. Logged(Top.line, "group") /\ line' = Top.line
    BY <1>8, TopHolds DEF GroupPrints, Is, Write, Holds, LabelMethods
  <2>2. Atomic!Group
    BY <1>8, <2>1 DEF GroupPrints, Logged, Atomic!Group
  <2> QED
    BY <2>2 DEF Atomic!Next
<1>9. CASE GroupEnd
  BY <1>0, <1>9 DEF GroupEnd, Quiet, Atomic!GroupEnd, Atomic!Next
<1>10. CASE Clear
  <2>1. line' = [NoLine EXCEPT !.kind = "clear"]
    BY <1>10 DEF Clear, Write
  <2>2. line'.kind = "clear" /\ line'.label = "none" /\ line'.n = 0
    BY <2>1 DEF NoLine
  <2> QED
    BY <1>10, <2>2 DEF Clear, Atomic!Clear, Atomic!Next
<1> DEFINE label == Top.label
<1>11. ASSUME NEW what, NEW n, Write(Line(what, label, n))
       PROVE  line'.kind = what /\ line'.label = label /\ line'.n = n
  BY <1>11 DEF Write, Line
<1>12. ASSUME NEW method, Is(method, "label") PROVE label \in Labels
  BY <1>12, TopHolds DEF Is, Holds
<1> HIDE DEF label
<1>13. CASE Count
  <2>1. label \in Labels /\ Atomic!Count(label)
    BY <1>11, <1>12, <1>13 DEF Count, Atomic!Count, label
  <2> QED
    BY <2>1 DEF Atomic!Next
<1>14. CASE CountReset
  <2>1. label \in Labels /\ (Atomic!CountReset(label) \/ Atomic!Warn(label))
    BY <1>0, <1>11, <1>12, <1>14 DEF CountReset, Quiet, Atomic!CountReset, Atomic!Warn, label
  <2> QED
    BY <2>1 DEF Atomic!Next
<1>15. CASE Time
  <2>1. label \in Labels /\ (Atomic!Time(label) \/ Atomic!Warn(label))
    BY <1>0, <1>11, <1>12, <1>15 DEF Time, Quiet, Atomic!Time, Atomic!Warn, label
  <2> QED
    BY <2>1 DEF Atomic!Next
<1>16. CASE TimeLog
  <2>1. label \in Labels /\ (Atomic!Nothing \/ Atomic!Warn(label))
    BY <1>0, <1>11, <1>12, <1>16 DEF TimeLog, Quiet, Atomic!Nothing, Atomic!Warn, label
  <2> QED
    BY <2>1 DEF Atomic!Next
<1>17. CASE TimeLogPrints
  <2>1. label \in Labels /\ Timed(Top.line, label) /\ line' = Top.line
    BY <1>17, TopHolds DEF TimeLogPrints, Is, Write, Holds, LabelMethods, label
  <2>2. Atomic!TimeLog(label)
    BY <1>17, <2>1 DEF TimeLogPrints, Timed, Atomic!TimeLog
  <2> QED
    BY <2>1, <2>2 DEF Atomic!Next
<1>18. CASE TimeEnd
  <2>1. label \in Labels /\ (Atomic!TimeEnd(label) \/ Atomic!Warn(label))
    BY <1>11, <1>12, <1>18 DEF TimeEnd, Atomic!TimeEnd, Atomic!Warn, label
  <2> QED
    BY <2>1 DEF Atomic!Next
<1>19. CASE Throw
  BY <1>1, <1>19 DEF Throw
<1> QED
  BY <1>2, <1>3, <1>4, <1>5, <1>6, <1>7, <1>8, <1>9, <1>10, <1>13, <1>14, <1>15, <1>16,
     <1>17, <1>18, <1>19 DEF Next

\* The console implements AtomicConsole for any labels, formats and depth of calls:
\* every call of 01_console.js has its whole effect at one moment or none of it, and a
\* line holds every argument but the styles, once and in order, however a string with
\* directives divides them.
THEOREM ConsoleIsAtomic == ConsoleAssumption /\ Spec => CallsAreAtomic
<1> SUFFICES ASSUME ConsoleAssumption PROVE Spec => CallsAreAtomic
  OBVIOUS
<1>1. Init => ConsoleInv
  BY EmptySeq DEF Init, ConsoleInv
<1>2. ConsoleInv /\ [Next]_vars => ConsoleInv'
  BY ConsoleInvNext
<1>3. Init => Atomic!Init
  BY DEF Init, NoLine, Atomic!Init
<1>4. ConsoleInv /\ [Next]_vars => [Atomic!Next]_(Atomic!vars)
  BY StepIsAtomic
<1> QED
  BY <1>1, <1>2, <1>3, <1>4, PTL DEF Spec, CallsAreAtomic, Atomic!Spec

-----------------------------------------------------------------------------
(* inspect                                                                  *)

Frame == [value : Objects, isProxy : BOOLEAN, times : Nat, next : Nat]
Whats == {"custom", "error", "circular", "brief", "ref"}
Token == [what : Whats, value : Objects, index : Nat]
Context == [indentationLvl : Int, map : Nat]

InspectTypeOK ==
    /\ frames \in Seq(Frame) /\ seen \in Seq(Int) /\ printed \in Seq(Token)
    /\ contexts \in Seq(Context) /\ circular \in Seq(Seq(Objects))
    /\ \A k \in 1 .. Len(contexts) : contexts[k].map <= Len(circular)
    /\ result # "none" => frames = <<>>

\* The objects at work w are in seen s, in their order.
Embeds(e, w, s) ==
    /\ e \in [1 .. Len(w) -> 1 .. Len(s)]
    /\ \A i, j \in 1 .. Len(w) : i < j => e[i] < e[j]
    /\ \A i \in 1 .. Len(w) : s[e[i]] = w[i]

Distinct(w) == \A i, j \in DOMAIN w : w[i] = w[j] /\ w[i] > 0 => i = j

\* The inspect calls of proxies: the k-th was made for frame q[k].
Nests(q) ==
    /\ q \in Seq(Nat) /\ Len(contexts) = Len(q) + 1
    /\ \A k \in 1 .. Len(q) : q[k] \in 1 .. Len(frames) /\ frames[q[k]].isProxy
    /\ \A j, k \in 1 .. Len(q) : j < k => q[j] < q[k]
    /\ \A i \in 1 .. Len(frames) : frames[i].isProxy => \E k \in 1 .. Len(q) : q[k] = i

\* Each left a context that the formatter around it had raised.
Levels(q) ==
    /\ \A k \in 1 .. Len(q) : contexts[k].indentationLvl = 2 * (q[k] - 1)
    /\ ctx.indentationLvl = IF frames = <<>> THEN 0 ELSE 2 * (Len(frames) - 1)

CircularAtWork ==
    result = "none" /\ printed # <<>> /\ Last(printed).what = "circular" =>
        Contains(AtWork, Last(printed).value)

\* Where no class calls inspect there is one context and at most one map; each object
\* in it has its mark, or will have it when it is left.
NoClass == \A v \in Objects : kind[v] # "class"
Map == IF ctx.map = 0 THEN <<>> ELSE circular[1]
Numbers == {<<Map[i], i>> : i \in DOMAIN Map}

Marks ==
    /\ Len(contexts) = 1 /\ ctx.map \in {0, 1} /\ Len(circular) = ctx.map
    /\ \A i, j \in DOMAIN Map : Map[i] = Map[j] => i = j
    /\ Shown("circular") = Numbers
    /\ \A t \in Shown("ref") : t[2] # 0 => t \in Numbers
    /\ \A i \in DOMAIN Map : Contains(AtWork, Map[i]) \/ <<Map[i], i>> \in Shown("ref")

InspectInv ==
    /\ InspectTypeOK
    /\ \E e : Embeds(e, AtWork, seen)
    /\ Distinct(AtWork)
    /\ \E q : Nests(q) /\ (~Failed => Levels(q))
    /\ ~Failed => seen = AtWork /\ CircularAtWork
    /\ ~Failed /\ NoClass => Marks

\* What a sequence of formatters is inside of.
At(f) == IF f.isProxy THEN -f.value ELSE f.value
Works(fs) == [i \in DOMAIN fs |-> At(fs[i])]

LEMMA AtIsInt == ASSUME InspectAssumption, NEW f \in Frame PROVE At(f) \in Int
<1>1. f.value \in Int /\ -f.value \in Int
  <2>1. f.value \in Nat
    BY DEF Frame, InspectAssumption
  <2> QED
    BY <2>1
<1> QED
  BY <1>1, Zenon DEF At

LEMMA WorksAre ==
    ASSUME InspectAssumption, NEW fs \in Seq(Frame)
    PROVE  /\ Works(fs) \in Seq(Int) /\ Len(Works(fs)) = Len(fs) /\ DOMAIN Works(fs) = 1 .. Len(fs)
           /\ \A i \in 1 .. Len(fs) : Works(fs)[i] = At(fs[i]) /\ fs[i] \in Frame
<1> DEFINE n == Len(fs)
           w == Works(fs)
<1>1. n \in Nat /\ DOMAIN fs = 1 .. n /\ \A i \in 1 .. n : fs[i] \in Frame
  BY LenProperties, ElementOfSeq
<1>2. ASSUME NEW f \in Frame PROVE At(f) \in Int
  BY AtIsInt
<1>3. w = [i \in 1 .. n |-> At(fs[i])]
  BY <1>1 DEF Works
<1> HIDE DEF n, w
<1>4. w \in [1 .. n -> Int]
  BY <1>1, <1>2, <1>3
<1>5. Len(w) = n /\ w \in Seq(Int) /\ DOMAIN w = 1 .. n
  BY <1>1, <1>4
<1> QED
  BY <1>1, <1>3, <1>5 DEF n, w

\* What is printed is added to what was.
LEMMA PrintsShows ==
    ASSUME printed \in Seq(Token), NEW w \in Whats, NEW v \in Objects, NEW n \in Nat, Prints(w, v, n)
    PROVE  /\ printed' \in Seq(Token) /\ printed' # <<>>
           /\ Last(printed').what = w /\ Last(printed').value = v
           /\ \A x : (Shown(x))' = IF x = w THEN Shown(x) \cup {<<v, n>>} ELSE Shown(x)
<1> DEFINE t == [what |-> w, value |-> v, index |-> n]
           m == Len(printed)
<1>1. t \in Token /\ t.what = w /\ t.value = v /\ t.index = n
  BY DEF Token
<1>2. printed' = Append(printed, t)
  BY DEF Prints
<1> HIDE DEF t
<1>3. /\ printed' \in Seq(Token) /\ Len(printed') = m + 1 /\ printed'[m + 1] = t
      /\ \A i \in 1 .. m : printed'[i] = printed[i]
  BY <1>1, <1>2, AppendProperties
<1>4. m \in Nat /\ DOMAIN printed = 1 .. m /\ DOMAIN printed' = 1 .. m + 1
  BY <1>3, LenProperties
<1>5. printed' # <<>> /\ Last(printed') = t
  BY <1>3, <1>4, EmptySeq DEF Last
<1> HIDE DEF m
<1>6. ToSet(printed') = ToSet(printed) \cup {t}
  <2>1. \A i \in 1 .. m + 1 : i \in 1 .. m \/ i = m + 1
    BY <1>4
  <2>2. \A i \in 1 .. m : i \in 1 .. m + 1
    BY <1>4
  <2>3. m + 1 \in 1 .. m + 1
    BY <1>4
  <2> QED
    BY <1>3, <1>4, <2>1, <2>2, <2>3, Zenon DEF ToSet
<1>7. ASSUME NEW x PROVE (Shown(x))' = IF x = w THEN Shown(x) \cup {<<v, n>>} ELSE Shown(x)
  BY <1>1, <1>6 DEF Shown
<1> QED
  BY <1>1, <1>3, <1>5, <1>7

\* The formatters after a step are those of fs, though one may go on to its next value.
Same(fs) ==
    /\ frames' \in Seq(Frame) /\ Len(frames') = Len(fs)
    /\ \A i \in 1 .. Len(fs) : frames'[i].value = fs[i].value /\ frames'[i].isProxy = fs[i].isProxy

LEMMA ReturnedKeeps ==
    ASSUME InspectAssumption, NEW fs \in Seq(Frame), Returned(fs)
    PROVE  Same(fs) /\ Works(frames') = Works(fs) /\ (result' # "none" => frames' = <<>>)
<1>1. Same(fs) /\ (result' # "none" => frames' = <<>>)
  <2>1. CASE fs = <<>>
    BY <2>1 DEF Returned, Same
  <2>2. CASE fs # <<>>
    <3> DEFINE n == Len(fs)
               f == fs[n]
               g == [f EXCEPT !.next = @ + 1]
    <3>1. n \in 1 .. n /\ f \in Frame
      BY <2>2, LenProperties, EmptySeq, ElementOfSeq
    <3>2. g \in Frame /\ g.value = f.value /\ g.isProxy = f.isProxy
      BY <3>1 DEF Frame
    <3>3. frames' = [fs EXCEPT ![n] = g] /\ result' = "none"
      BY <2>2, Zenon DEF Returned
    <3> HIDE DEF g
    <3>4. /\ frames' \in Seq(Frame) /\ Len(frames') = n
          /\ \A i \in 1 .. n : frames'[i] = IF i = n THEN g ELSE fs[i]
      BY <3>1, <3>2, <3>3, ExceptSeq
    <3> QED
      BY <3>2, <3>3, <3>4 DEF Same
  <2> QED
    BY <2>1, <2>2
<1>2. Works(frames') = Works(fs)
  <2>1. \A i \in 1 .. Len(fs) : At(frames'[i]) = At(fs[i])
    BY <1>1 DEF Same, At
  <2>2. /\ Works(fs) \in Seq(Int) /\ Len(Works(fs)) = Len(fs)
        /\ \A i \in 1 .. Len(fs) : Works(fs)[i] = At(fs[i])
    BY WorksAre
  <2>3. /\ Works(frames') \in Seq(Int) /\ Len(Works(frames')) = Len(fs)
        /\ \A i \in 1 .. Len(fs) : Works(frames')[i] = At(frames'[i])
    BY <1>1, WorksAre DEF Same
  <2> QED
    BY <2>1, <2>2, <2>3, SeqEqual
<1> QED
  BY <1>1, <1>2

\* A formatter that begins, and one that ends.
LEMMA WorksPush ==
    ASSUME InspectAssumption, NEW fs \in Seq(Frame), NEW f \in Frame
    PROVE  Works(Append(fs, f)) = Append(Works(fs), At(f))
<1> DEFINE gs == Append(fs, f)
           n == Len(fs)
           w == Works(fs)
           x == At(f)
<1>1. x \in Int /\ w \in Seq(Int) /\ Len(w) = n /\ \A i \in 1 .. n : w[i] = At(fs[i])
  BY WorksAre, AtIsInt
<1>2. /\ n \in Nat /\ gs \in Seq(Frame) /\ Len(gs) = n + 1 /\ gs[n + 1] = f
      /\ \A i \in 1 .. n : gs[i] = fs[i]
  BY AppendProperties, LenProperties
<1>3. /\ Works(gs) \in Seq(Int) /\ Len(Works(gs)) = n + 1
      /\ \A i \in 1 .. n + 1 : Works(gs)[i] = At(gs[i])
  BY <1>2, WorksAre
<1>4. /\ Append(w, x) \in Seq(Int) /\ Len(Append(w, x)) = n + 1 /\ Append(w, x)[n + 1] = x
      /\ \A i \in 1 .. n : Append(w, x)[i] = w[i]
  BY <1>1, AppendProperties
<1> HIDE DEF gs, w, n
<1>5. ASSUME NEW i \in 1 .. n + 1 PROVE Works(gs)[i] = Append(w, x)[i]
  <2>1. CASE i = n + 1
    BY <1>2, <1>3, <1>4, <2>1
  <2>2. CASE i \in 1 .. n
    BY <1>1, <1>2, <1>3, <1>4, <2>2
  <2>3. i = n + 1 \/ i \in 1 .. n
    BY <1>2
  <2> QED
    BY <2>1, <2>2, <2>3, Zenon
<1> HIDE DEF x
<1> QED
  BY <1>3, <1>4, <1>5, SeqEqual DEF gs, w, x

LEMMA FrontIs ==
    ASSUME NEW S, NEW s \in Seq(S), s # <<>>
    PROVE  /\ Front(s) \in Seq(S) /\ Len(Front(s)) = Len(s) - 1 /\ Len(s) \in Nat \ {0}
           /\ \A i \in 1 .. Len(s) - 1 : Front(s)[i] = s[i]
<1> DEFINE m == Len(s) - 1
<1>1. Len(s) \in Nat \ {0}
  BY LenProperties, EmptySeq
<1>2. 1 \in Int /\ m \in Int /\ 1 <= m + 1 /\ m \in Nat
  BY <1>1
<1>3. \A i \in 1 .. m : i \in 1 .. Len(s)
  BY <1>1
<1>4. \A i \in 1 .. m : s[i] \in S
  BY <1>3, ElementOfSeq
<1> HIDE DEF m
<1>5. /\ Front(s) = SubSeq(s, 1, m)
      /\ Len(SubSeq(s, 1, m)) = m /\ \A i \in 1 .. m : SubSeq(s, 1, m)[i] = s[i]
  BY <1>2, SubSeqProperties DEF Front, m
<1>6. SubSeq(s, 1, m) \in Seq(S)
  BY <1>2, <1>4, SubSeqProperties
<1> QED
  BY <1>1, <1>5, <1>6 DEF m

LEMMA WorksPop ==
    ASSUME InspectAssumption, NEW fs \in Seq(Frame), fs # <<>>
    PROVE  Works(Front(fs)) = Front(Works(fs))
<1> DEFINE gs == Front(fs)
           n == Len(fs)
           w == Works(fs)
<1>1. w \in Seq(Int) /\ Len(w) = n /\ \A i \in 1 .. n : w[i] = At(fs[i])
  BY WorksAre
<1>2. /\ n \in Nat \ {0} /\ gs \in Seq(Frame) /\ Len(gs) = n - 1
      /\ \A i \in 1 .. n - 1 : gs[i] = fs[i]
  BY FrontIs
<1>3. /\ Works(gs) \in Seq(Int) /\ Len(Works(gs)) = n - 1
      /\ \A i \in 1 .. n - 1 : Works(gs)[i] = At(gs[i])
  BY <1>2, WorksAre
<1>4. w # <<>>
  BY <1>1, <1>2, EmptySeq
<1>5. /\ Front(w) \in Seq(Int) /\ Len(Front(w)) = n - 1
      /\ \A i \in 1 .. n - 1 : Front(w)[i] = w[i]
  BY <1>1, <1>4, FrontIs
<1> HIDE DEF gs, w, n
<1>6. ASSUME NEW i \in 1 .. n - 1 PROVE Works(gs)[i] = Front(w)[i]
  BY <1>1, <1>2, <1>3, <1>5
<1> QED
  BY <1>3, <1>5, <1>6, SeqEqual DEF gs, w

\* The contexts after a step are those of cs, with the innermost d deeper.
Moves(ds, cs, d) ==
    /\ ds \in Seq(Context) /\ Len(ds) = Len(cs)
    /\ \A k \in 1 .. Len(cs) - 1 : ds[k].indentationLvl = cs[k].indentationLvl
    /\ ds[Len(cs)].indentationLvl = cs[Len(cs)].indentationLvl + d

LEMMA MovesBack ==
    ASSUME NEW cs \in Seq(Context), cs # <<>> PROVE Moves(cs, cs, 0)
<1>1. Len(cs) \in 1 .. Len(cs)
  BY LenProperties, EmptySeq
<1>2. cs[Len(cs)] \in Context
  BY <1>1, ElementOfSeq
<1> QED
  BY <1>2 DEF Moves, Context

SameMaps(ds, cs) == \A k \in 1 .. Len(cs) : ds[k].map = cs[k].map

Up == IF frames = <<>> THEN 0 ELSE 2
Down == IF Len(frames) = 1 THEN 0 ELSE -2

LEMMA RaisedMoves ==
    ASSUME NEW cs \in Seq(Context), cs # <<>>
    PROVE  Moves(Raised(cs), cs, Up) /\ SameMaps(Raised(cs), cs)
<1>1. CASE frames = <<>>
  BY <1>1, MovesBack DEF Raised, Up, SameMaps
<1>2. CASE frames # <<>>
  <2> DEFINE n == Len(cs)
             c == cs[n]
             d == [c EXCEPT !.indentationLvl = @ + 2]
             ds == [cs EXCEPT ![n] = d]
  <2>1. n \in 1 .. n /\ c \in Context
    BY LenProperties, EmptySeq, ElementOfSeq
  <2>2. d \in Context /\ d.indentationLvl = c.indentationLvl + 2 /\ d.map = c.map
    BY <2>1 DEF Context
  <2>3. Raised(cs) = ds
    BY <1>2, Zenon DEF Raised
  <2> HIDE DEF d
  <2>4. ds \in Seq(Context) /\ Len(ds) = n /\ \A j \in 1 .. n : ds[j] = IF j = n THEN d ELSE cs[j]
    BY <2>1, <2>2, ExceptSeq
  <2> HIDE DEF ds, n
  <2>5. Moves(ds, cs, 2)
    BY <2>1, <2>2, <2>4 DEF Moves, n
  <2>6. SameMaps(ds, cs)
    BY <2>1, <2>2, <2>4 DEF SameMaps, n
  <2> QED
    BY <1>2, <2>3, <2>5, <2>6 DEF Up
<1> QED
  BY <1>1, <1>2

LEMMA LoweredMoves ==
    ASSUME NEW cs \in Seq(Context), cs # <<>>
    PROVE  Moves(Lowered(cs), cs, Down) /\ SameMaps(Lowered(cs), cs)
<1>1. CASE Len(frames) = 1
  BY <1>1, MovesBack DEF Lowered, Down, SameMaps
<1>2. CASE Len(frames) # 1
  <2> DEFINE n == Len(cs)
             c == cs[n]
             d == [c EXCEPT !.indentationLvl = @ - 2]
             ds == [cs EXCEPT ![n] = d]
  <2>1. n \in 1 .. n /\ c \in Context
    BY LenProperties, EmptySeq, ElementOfSeq
  <2>2. d \in Context /\ d.indentationLvl = c.indentationLvl + (-2) /\ d.map = c.map
    <3> HIDE DEF c
    <3>1. c.indentationLvl \in Int /\ c.map \in Nat
      BY <2>1 DEF Context
    <3> DEFINE x == c.indentationLvl - 2
    <3>2. d = [c EXCEPT !.indentationLvl = x] /\ x \in Int
      BY <3>1
    <3> HIDE DEF x, d
    <3>3. d \in Context /\ d.indentationLvl = x /\ d.map = c.map
      BY <2>1, <3>2 DEF Context
    <3> QED
      BY <3>1, <3>3 DEF x
  <2>3. Lowered(cs) = ds
    BY <1>2, Zenon DEF Lowered
  <2> HIDE DEF d
  <2>4. ds \in Seq(Context) /\ Len(ds) = n /\ \A j \in 1 .. n : ds[j] = IF j = n THEN d ELSE cs[j]
    BY <2>1, <2>2, ExceptSeq
  <2> HIDE DEF ds, n
  <2>5. Moves(ds, cs, -2)
    BY <2>1, <2>2, <2>4 DEF Moves, n
  <2>6. SameMaps(ds, cs)
    BY <2>1, <2>2, <2>4 DEF SameMaps, n
  <2> QED
    BY <1>2, <2>3, <2>5, <2>6 DEF Down
<1> QED
  BY <1>1, <1>2

\* What a step does to the formatters, to seen and to the contexts.
Inner == IF Formatter.isProxy THEN Front(contexts) ELSE contexts

Stays ==
    /\ Same(frames) /\ Works(frames') = Works(frames) /\ seen' = seen
    /\ Moves(contexts', contexts, 0)
Begins(f) ==
    /\ frames' = Append(frames, f) /\ seen' = Append(seen, At(f))
    /\ ~f.isProxy => ~Contains(seen, f.value) /\ Moves(contexts', contexts, Up)
    /\ f.isProxy => \E cs : Moves(cs, contexts, Up) /\ contexts' = Append(cs, Last(cs))
Ends ==
    /\ frames # <<>> /\ Same(Front(frames)) /\ Works(frames') = Front(Works(frames))
    /\ seen' = Front(seen) /\ Moves(contexts', Inner, Down)
Fails ==
    /\ frames # <<>> /\ Same(Front(frames)) /\ Works(frames') = Front(Works(frames))
    /\ seen' = seen /\ Failed' /\ Len(contexts') = Len(Inner)

Sound ==
    /\ InspectTypeOK /\ contexts # <<>>
    /\ frames # <<>> => seen # <<>> /\ Inner # <<>>

LEMMA InvIsSound == ASSUME InspectAssumption, InspectInv PROVE Sound
<1> DEFINE n == Len(frames)
<1>1. InspectTypeOK
  BY DEF InspectInv
<1>2. PICK e : Embeds(e, AtWork, seen)
  BY DEF InspectInv
<1>3. PICK q : Nests(q)
  BY DEF InspectInv
<1>4. contexts # <<>>
  BY <1>1, <1>3, EmptySeq, LenProperties DEF Nests, InspectTypeOK
<1>5. ASSUME frames # <<>> PROVE seen # <<>> /\ Inner # <<>>
  <2>1. n \in 1 .. n /\ Formatter = frames[n]
    BY <1>1, <1>5, LenProperties, EmptySeq DEF InspectTypeOK, Formatter, Last
  <2>2. seen # <<>>
    <3>1. Len(AtWork) = n
      BY <1>1, WorksAre DEF InspectTypeOK, AtWork, Works, At
    <3>2. e[n] \in 1 .. Len(seen)
      BY <1>2, <2>1, <3>1 DEF Embeds
    <3> QED
      BY <1>1, <3>2, EmptySeq, LenProperties DEF InspectTypeOK
  <2>3. CASE Formatter.isProxy
    <3>1. PICK k \in 1 .. Len(q) : q[k] = n
      BY <1>3, <2>1, <2>3 DEF Nests
    <3>2. Len(q) \in Nat /\ Len(contexts) = Len(q) + 1 /\ Len(q) # 0
      BY <1>3, <3>1, LenProperties DEF Nests
    <3>3. Len(Front(contexts)) = Len(q)
      BY <1>1, <1>4, <3>2, FrontIs DEF InspectTypeOK
    <3> QED
      BY <2>2, <2>3, <3>2, <3>3, EmptySeq DEF Inner
  <2> QED
    BY <1>4, <2>2, <2>3 DEF Inner
<1> QED
  BY <1>1, <1>4, <1>5 DEF Sound

\* A context that is not the innermost keeps its map.
Bounded(cs, n) == \A k \in 1 .. Len(cs) : cs[k].map <= n

LEMMA MovesBounded ==
    ASSUME NEW cs, NEW ds, NEW d, Moves(ds, cs, d), SameMaps(ds, cs), NEW n, Bounded(cs, n)
    PROVE  Bounded(ds, n)
  BY DEF Moves, SameMaps, Bounded

LEMMA InnerIs ==
    ASSUME Sound, frames # <<>>
    PROVE  /\ Formatter \in Frame /\ Formatter = frames[Len(frames)] /\ Formatter.value \in Objects
           /\ Inner \in Seq(Context) /\ Bounded(Inner, Len(circular))
           /\ Front(frames) \in Seq(Frame) /\ Front(seen) \in Seq(Int)
<1>1. frames \in Seq(Frame) /\ seen \in Seq(Int) /\ contexts \in Seq(Context)
  BY DEF Sound, InspectTypeOK
<1>2. Formatter \in Frame /\ Formatter = frames[Len(frames)]
  BY <1>1, TopWaits DEF Formatter
<1>3. Formatter.value \in Objects
  BY <1>2 DEF Frame
<1>4. Bounded(contexts, Len(circular))
  BY DEF Sound, InspectTypeOK, Bounded
<1>5. contexts # <<>>
  BY DEF Sound
<1>6. /\ Front(contexts) \in Seq(Context) /\ Len(contexts) \in Nat
      /\ Len(Front(contexts)) = Len(contexts) - 1
      /\ \A k \in 1 .. Len(contexts) - 1 : Front(contexts)[k] = contexts[k]
  BY <1>1, <1>5, FrontIs
<1>7. Bounded(Front(contexts), Len(circular))
  BY <1>4, <1>6 DEF Bounded
<1>8. Inner \in Seq(Context) /\ Bounded(Inner, Len(circular))
  BY <1>1, <1>4, <1>6, <1>7 DEF Inner
<1>9. Front(frames) \in Seq(Frame) /\ Front(seen) \in Seq(Int)
  BY <1>1, FrontIs DEF Sound
<1> QED
  BY <1>2, <1>3, <1>8, <1>9

\* The number of an object in a map.
LEMMA IndexIs ==
    ASSUME NEW map \in Seq(Objects), NEW v
    PROVE  /\ Index(map, v) \in Nat
           /\ Index(map, v) # 0 => Index(map, v) \in DOMAIN map /\ map[Index(map, v)] = v
           /\ Index(map, v) = 0 => \A i \in DOMAIN map : map[i] # v
<1> DEFINE at == {i \in DOMAIN map : map[i] = v}
<1>1. at \subseteq Nat /\ 0 \notin at
  BY LenProperties
<1>2. Index(map, v) = IF at = {} THEN 0 ELSE Min(at)
  BY DEF Index
<1>3. CASE at = {}
  BY <1>2, <1>3
<1>4. CASE at # {}
  <2>1. Min(at) \in at
    BY <1>1, <1>4, MinProperty
  <2> QED
    BY <1>1, <1>2, <1>4, <2>1
<1> QED
  BY <1>3, <1>4

\* Every step is one of these, keeps the types and never takes back a failure.
StepIs == InspectTypeOK' /\ (Failed => Failed') /\ (Stays \/ Ends \/ Fails \/ \E f \in Frame : Begins(f))

LEMMA FailureStays ==
    /\ \A w \in Whats, v \in Objects, n \in Nat :
          printed \in Seq(Token) /\ Prints(w, v, n) => (Failed => Failed')
    /\ UNCHANGED printed => (Failed => Failed')
<1>1. ASSUME NEW w \in Whats, NEW v \in Objects, NEW n \in Nat, printed \in Seq(Token), Prints(w, v, n), Failed
      PROVE  Failed'
  BY <1>1, PrintsShows DEF Failed
<1>2. ASSUME UNCHANGED printed, Failed PROVE Failed'
  BY <1>2 DEF Failed, Shown
<1> QED
  BY <1>1, <1>2

LEMMA CustomIs ==
    ASSUME InspectAssumption, Sound, NEW v \in Objects, Custom(v)
    PROVE  StepIs
<1>1. /\ Same(frames) /\ Works(frames') = Works(frames)
      /\ result' # "none" => frames' = <<>>
  BY ReturnedKeeps DEF Custom, Sound, InspectTypeOK
<1>2. printed' \in Seq(Token) /\ (Failed => Failed')
  BY PrintsShows, FailureStays DEF Custom, Sound, InspectTypeOK, Whats
<1>3. Moves(contexts', contexts, 0)
  BY MovesBack DEF Custom, Sound, InspectTypeOK
<1>4. InspectTypeOK'
  BY <1>1, <1>2 DEF Custom, Sound, InspectTypeOK, Same
<1> QED
  BY <1>1, <1>2, <1>3, <1>4 DEF StepIs, Stays, Custom

LEMMA BriefIs ==
    ASSUME InspectAssumption, Sound, NEW v \in Objects, Brief(v)
    PROVE  StepIs
<1>1. /\ Same(frames) /\ Works(frames') = Works(frames)
      /\ result' # "none" => frames' = <<>>
  BY ReturnedKeeps DEF Brief, Sound, InspectTypeOK
<1>2. printed' \in Seq(Token) /\ (Failed => Failed')
  BY PrintsShows, FailureStays DEF Brief, Sound, InspectTypeOK, Whats
<1>3. Moves(contexts', contexts, 0)
  BY MovesBack DEF Brief, Sound, InspectTypeOK
<1>4. InspectTypeOK'
  BY <1>1, <1>2 DEF Brief, Sound, InspectTypeOK, Same
<1> QED
  BY <1>1, <1>2, <1>3, <1>4 DEF StepIs, Stays, Brief

LEMMA EnterIs ==
    ASSUME InspectAssumption, Sound, NEW v \in Objects, Enter(v)
    PROVE  StepIs
<1> DEFINE f == [value |-> v, isProxy |-> FALSE, times |-> recurseTimes + 1, next |-> 1]
<1>1. recurseTimes \in Nat
  <2>1. CASE frames # <<>>
    BY <2>1, InnerIs DEF recurseTimes, Frame
  <2> QED
    BY <2>1 DEF recurseTimes
<1>2. f \in Frame /\ f.value = v /\ ~f.isProxy /\ At(f) = v /\ v \in Int
  BY <1>1 DEF Frame, At, InspectAssumption
<1>3. frames' = Append(frames, f) /\ seen' = Append(seen, v)
  BY DEF Enter
<1> HIDE DEF f
<1>4. frames' \in Seq(Frame) /\ seen' \in Seq(Int)
  BY <1>2, <1>3, AppendProperties DEF Sound, InspectTypeOK
<1>5. Moves(contexts', contexts, Up) /\ SameMaps(contexts', contexts)
  BY RaisedMoves DEF Enter, Sound, InspectTypeOK
<1>6. Bounded(contexts', Len(circular))
  <2>1. Bounded(contexts, Len(circular))
    BY DEF Sound, InspectTypeOK, Bounded
  <2> QED
    BY <1>5, <2>1, MovesBounded
<1>7. InspectTypeOK'
  BY <1>4, <1>5, <1>6 DEF Enter, IsRaw, Due, Sound, InspectTypeOK, Moves, Bounded
<1>8. Failed => Failed'
  BY FailureStays DEF Enter
<1>9. Begins(f)
  BY <1>2, <1>3, <1>5 DEF Begins, Enter
<1> QED
  BY <1>2, <1>7, <1>8, <1>9 DEF StepIs

LEMMA NestedIs ==
    ASSUME InspectAssumption, Sound, NEW v \in Objects, Nested(v)
    PROVE  StepIs
<1> DEFINE f == [value |-> v, isProxy |-> TRUE, times |-> 1, next |-> 1]
           cs == Raised(contexts)
<1>2. f \in Frame /\ f.isProxy /\ At(f) = -v /\ -v \in Int
  BY DEF Frame, At, InspectAssumption
<1>3. frames' = Append(frames, f) /\ seen' = Append(seen, -v)
  BY DEF Nested
<1> HIDE DEF f
<1>4. frames' \in Seq(Frame) /\ seen' \in Seq(Int)
  BY <1>2, <1>3, AppendProperties DEF Sound, InspectTypeOK
<1>5. Moves(cs, contexts, Up) /\ SameMaps(cs, contexts) /\ contexts' = Append(cs, Last(cs))
  BY RaisedMoves DEF Nested, Sound, InspectTypeOK
<1>6. Bounded(cs, Len(circular))
  <2>1. Bounded(contexts, Len(circular))
    BY DEF Sound, InspectTypeOK, Bounded
  <2> QED
    BY <1>5, <2>1, MovesBounded
<1> HIDE DEF cs
<1>7. contexts' \in Seq(Context) /\ Bounded(contexts', Len(circular))
  <2> DEFINE n == Len(cs)
  <2>1. cs \in Seq(Context) /\ cs # <<>>
    BY <1>5, EmptySeq DEF Moves, Sound, InspectTypeOK
  <2>2. Last(cs) \in Context /\ Last(cs) = cs[n] /\ n \in 1 .. n
    BY <2>1, TopWaits
  <2>3. /\ contexts' \in Seq(Context) /\ Len(contexts') = n + 1 /\ contexts'[n + 1] = Last(cs)
        /\ \A k \in 1 .. n : contexts'[k] = cs[k]
    BY <1>5, <2>1, <2>2, AppendProperties
  <2> HIDE DEF n
  <2>4. ASSUME NEW k \in 1 .. n + 1 PROVE contexts'[k].map <= Len(circular)
    <3>1. CASE k = n + 1
      BY <1>6, <2>2, <2>3, <3>1 DEF Bounded, n
    <3>2. CASE k \in 1 .. n
      BY <1>6, <2>3, <3>2 DEF Bounded, n
    <3>3. k = n + 1 \/ k \in 1 .. n
      BY <2>2
    <3> QED
      BY <3>1, <3>2, <3>3, Zenon
  <2> QED
    BY <2>3, <2>4 DEF Bounded
<1>8. InspectTypeOK'
  BY <1>4, <1>7 DEF Nested, Due, Sound, InspectTypeOK, Bounded
<1>9. Failed => Failed'
  BY FailureStays DEF Nested
<1>10. Begins(f)
  BY <1>2, <1>3, <1>5 DEF Begins
<1> QED
  BY <1>2, <1>8, <1>9, <1>10 DEF StepIs

LEMMA CircularIs ==
    ASSUME InspectAssumption, Sound, NEW v \in Objects, Circular(v)
    PROVE  StepIs
<1> DEFINE n == Len(contexts)
           m == Len(circular)
           c == contexts[n]
           d == [c EXCEPT !.map = m + 1]
           map == circular[ctx.map]
           known == Index(map, v)
           longer == [circular EXCEPT ![ctx.map] = Append(@, v)]
<1>1. /\ Same(frames) /\ Works(frames') = Works(frames)
      /\ result' # "none" => frames' = <<>>
  BY ReturnedKeeps DEF Circular, Sound, InspectTypeOK
<1>2. /\ contexts \in Seq(Context) /\ circular \in Seq(Seq(Objects)) /\ m \in Nat
      /\ n \in 1 .. n /\ c \in Context /\ ctx = c /\ Bounded(contexts, m)
      /\ printed \in Seq(Token)
  BY TopWaits, LenProperties DEF Sound, InspectTypeOK, ctx, Bounded
<1>3. CASE ctx.map = 0
  <2>1. /\ circular' = Append(circular, <<v>>) /\ Prints("circular", v, 1)
        /\ contexts' = [contexts EXCEPT ![n] = d]
    BY <1>3 DEF Circular
  <2> DEFINE x == m + 1
  <2>2. d \in Context /\ d.indentationLvl = c.indentationLvl /\ d.map = x
    <3>1. x \in Nat /\ d = [c EXCEPT !.map = x]
      BY <1>2
    <3> HIDE DEF x, c, d
    <3> QED
      BY <1>2, <3>1 DEF Context
  <2> HIDE DEF d
  <2>3. /\ contexts' \in Seq(Context) /\ Len(contexts') = n
        /\ \A k \in 1 .. n : contexts'[k] = IF k = n THEN d ELSE contexts[k]
    BY <1>2, <2>1, <2>2, ExceptSeq
  <2>4. circular' \in Seq(Seq(Objects)) /\ Len(circular') = m + 1
    BY <1>2, <2>1, AppendProperties
  <2>0. n = Len(contexts) /\ contexts[n] = c /\ n \in Nat \ {0}
    BY <1>2
  <2> HIDE DEF n, c
  <2>5. Moves(contexts', contexts, 0)
    <3>1. c.indentationLvl \in Int
      BY <1>2 DEF Context
    <3>2. \A k \in 1 .. n - 1 : contexts'[k] = contexts[k]
      BY <2>0, <2>3
    <3>3. contexts'[n] = d
      BY <2>0, <2>3
    <3>4. contexts'[n].indentationLvl = contexts[n].indentationLvl + 0
      BY <2>0, <2>2, <3>1, <3>3
    <3> QED
      BY <2>0, <2>3, <3>2, <3>4 DEF Moves
  <2>6. Bounded(contexts', m + 1)
    <3>1. ASSUME NEW k \in 1 .. n PROVE contexts'[k].map <= m + 1
      <4>1. CASE k = n
        BY <1>2, <2>2, <2>3, <4>1 DEF x
      <4>2. CASE k # n
        <5>1. contexts[k] \in Context /\ contexts[k].map <= m
          BY <1>2, <2>0, ElementOfSeq DEF Bounded
        <5>2. contexts[k].map \in Nat /\ contexts'[k] = contexts[k]
          BY <2>3, <4>2, <5>1 DEF Context
        <5> QED
          BY <1>2, <5>1, <5>2
      <4> QED
        BY <4>1, <4>2
    <3> QED
      BY <2>3, <3>1 DEF Bounded
  <2>7. printed' \in Seq(Token) /\ (Failed => Failed')
    BY <1>2, <2>1, PrintsShows, FailureStays DEF Whats
  <2>8. InspectTypeOK'
    BY <1>1, <2>3, <2>4, <2>6, <2>7 DEF Circular, Sound, InspectTypeOK, Same, Bounded
  <2> QED
    BY <1>1, <2>5, <2>7, <2>8 DEF StepIs, Stays, Circular
<1>4. CASE ctx.map # 0
  <2>1. ctx.map \in 1 .. m
    <3>1. c.map \in Nat /\ c.map <= m
      BY <1>2 DEF Context, Bounded
    <3> QED
      BY <1>2, <1>4, <3>1
  <2>2. map \in Seq(Objects)
    BY <1>2, <2>1, ElementOfSeq
  <2>3. known \in Nat /\ Len(map) + 1 \in Nat
    BY <2>2, IndexIs, LenProperties
  <2>4. Prints("circular", v, IF known # 0 THEN known ELSE Len(map) + 1) /\ contexts' = contexts
    BY <1>4, Zenon DEF Circular
  <2>5. circular' = IF known # 0 THEN circular ELSE longer
    BY <1>4, Zenon DEF Circular
  <2> HIDE DEF known, map
  <2>6. circular' \in Seq(Seq(Objects)) /\ Len(circular') = m
    <3> DEFINE a == Append(map, v)
    <3>1. a \in Seq(Objects)
      BY <2>2, AppendProperties
    <3>2. longer = [circular EXCEPT ![ctx.map] = a]
      BY DEF map
    <3> HIDE DEF a
    <3>3. longer \in Seq(Seq(Objects)) /\ Len(longer) = m
      BY <1>2, <2>1, <3>1, <3>2, ExceptSeq
    <3> HIDE DEF longer
    <3> QED
      BY <1>2, <2>5, <3>3
  <2>7. printed' \in Seq(Token) /\ (Failed => Failed')
    <3> DEFINE k == IF known # 0 THEN known ELSE Len(map) + 1
    <3>1. k \in Nat
      BY <2>3
    <3> HIDE DEF k
    <3> QED
      BY <1>2, <2>4, <3>1, PrintsShows, FailureStays DEF Whats, k
  <2>8. InspectTypeOK'
    BY <1>1, <2>4, <2>6, <2>7 DEF Circular, Sound, InspectTypeOK, Same
  <2>9. Moves(contexts', contexts, 0)
    BY <1>2, <2>4, MovesBack DEF Sound
  <2> QED
    BY <1>1, <2>7, <2>8, <2>9 DEF StepIs, Stays, Circular
<1> QED
  BY <1>3, <1>4

\* The context that a formatter, which ends, leaves to the one around it.
LEMMA InnerLowered ==
    ASSUME Sound, frames # <<>>, contexts' = Lowered(Inner)
    PROVE  /\ Moves(contexts', Inner, Down) /\ contexts' \in Seq(Context)
           /\ Bounded(contexts', Len(circular))
<1>1. Inner \in Seq(Context) /\ Inner # <<>> /\ Bounded(Inner, Len(circular))
  BY InnerIs DEF Sound
<1>2. Moves(contexts', Inner, Down) /\ SameMaps(contexts', Inner)
  BY <1>1, LoweredMoves
<1>3. Bounded(contexts', Len(circular))
  BY <1>1, <1>2, MovesBounded
<1> QED
  BY <1>2, <1>3 DEF Moves

LEMMA InMapIs ==
    ASSUME Sound
    PROVE  InMap \in Nat
<1>1. CASE ctx.map # 0
  <2>1. ctx \in Context /\ ctx.map <= Len(circular) /\ circular \in Seq(Seq(Objects))
    BY TopWaits DEF Sound, InspectTypeOK, ctx
  <2>2. ctx.map \in 1 .. Len(circular)
    BY <1>1, <2>1, LenProperties DEF Context
  <2>3. circular[ctx.map] \in Seq(Objects)
    BY <2>1, <2>2, ElementOfSeq
  <2> QED
    BY <1>1, <2>3, IndexIs DEF InMap
<1> QED
  BY <1>1 DEF InMap

LEMMA LeaveIs ==
    ASSUME InspectAssumption, Sound, Leave
    PROVE  StepIs
<1> DEFINE n == IF Formatter.isProxy THEN 0 ELSE InMap
<1>1. /\ frames # <<>> /\ seen' = Front(seen) /\ circular' = circular
      /\ Prints("ref", Formatter.value, n) /\ Returned(Front(frames))
      /\ contexts' = Lowered(Inner)
  BY DEF Leave, Inner
<1>2. n \in Nat
  BY InMapIs
<1> HIDE DEF n
<1>3. /\ Same(Front(frames)) /\ Works(frames') = Works(Front(frames))
      /\ result' # "none" => frames' = <<>>
  BY <1>1, InnerIs, ReturnedKeeps
<1>4. Works(frames') = Front(Works(frames))
  BY <1>1, <1>3, WorksPop DEF Sound, InspectTypeOK
<1>5. printed' \in Seq(Token) /\ (Failed => Failed')
  BY <1>1, <1>2, InnerIs, PrintsShows, FailureStays DEF Sound, InspectTypeOK, Whats
<1>6. /\ Moves(contexts', Inner, Down) /\ contexts' \in Seq(Context)
      /\ Bounded(contexts', Len(circular))
  BY <1>1, InnerLowered
<1>7. InspectTypeOK'
  BY <1>1, <1>3, <1>5, <1>6, InnerIs DEF Sound, InspectTypeOK, Same, Bounded
<1> QED
  BY <1>1, <1>3, <1>4, <1>5, <1>6, <1>7 DEF StepIs, Ends

LEMMA ThrowsIs ==
    ASSUME InspectAssumption, Sound, NEW v \in Objects, Throws(v)
    PROVE  StepIs
<1>1. CASE frames = <<>>
  <2>1. Same(frames) /\ frames' = frames
    BY <1>1 DEF Throws, Same, Sound, InspectTypeOK
  <2>2. Moves(contexts', contexts, 0)
    BY <1>1, MovesBack DEF Throws, Sound, InspectTypeOK
  <2>3. Failed => Failed'
    BY <1>1, FailureStays DEF Throws
  <2>4. InspectTypeOK'
    BY <1>1 DEF Throws, Sound, InspectTypeOK
  <2> QED
    BY <2>1, <2>2, <2>3, <2>4 DEF StepIs, Stays, Throws
<1>2. CASE frames # <<>>
  <2> DEFINE cs == IF Formatter.isProxy THEN Front(contexts) ELSE Raised(contexts)
  <2>1. /\ seen' = seen /\ circular' = circular /\ contexts' = Lowered(cs)
        /\ Prints("error", Formatter.value, 0) /\ Returned(Front(frames))
    BY <1>2 DEF Throws
  <2>2. /\ Same(Front(frames)) /\ Works(frames') = Works(Front(frames))
        /\ result' # "none" => frames' = <<>>
    BY <1>2, <2>1, InnerIs, ReturnedKeeps
  <2>3. Works(frames') = Front(Works(frames))
    BY <1>2, <2>2, WorksPop DEF Sound, InspectTypeOK
  <2>4. printed' \in Seq(Token) /\ Failed'
    <3>1. /\ printed' \in Seq(Token)
          /\ (Shown("error"))' = Shown("error") \cup {<<Formatter.value, 0>>}
      BY <1>2, <2>1, InnerIs, PrintsShows DEF Sound, InspectTypeOK, Whats
    <3> QED
      BY <3>1 DEF Failed
  <2>5. /\ cs \in Seq(Context) /\ Len(cs) = Len(Inner) /\ Bounded(cs, Len(circular)) /\ cs # <<>>
    <3>1. CASE Formatter.isProxy
      <4>1. cs = Inner
        BY <3>1 DEF Inner
      <4> QED
        BY <1>2, <4>1, InnerIs DEF Sound
    <3>2. CASE ~Formatter.isProxy
      <4>1. contexts \in Seq(Context) /\ contexts # <<>> /\ Bounded(contexts, Len(circular))
        BY DEF Sound, InspectTypeOK, Bounded
      <4>2. Moves(cs, contexts, Up) /\ SameMaps(cs, contexts) /\ Inner = contexts
        BY <3>2, <4>1, RaisedMoves DEF Inner
      <4>3. Bounded(cs, Len(circular))
        BY <4>1, <4>2, MovesBounded
      <4> HIDE DEF cs
      <4> QED
        BY <4>1, <4>2, <4>3, EmptySeq DEF Moves
    <3> QED
      BY <3>1, <3>2
  <2> HIDE DEF cs
  <2>6. /\ contexts' \in Seq(Context) /\ Len(contexts') = Len(Inner)
        /\ Bounded(contexts', Len(circular))
    <3>1. Moves(contexts', cs, Down) /\ SameMaps(contexts', cs)
      BY <2>1, <2>5, LoweredMoves
    <3>2. Bounded(contexts', Len(circular))
      BY <2>5, <3>1, MovesBounded
    <3> QED
      BY <2>5, <3>1, <3>2 DEF Moves
  <2>7. InspectTypeOK'
    BY <2>1, <2>2, <2>4, <2>6 DEF Sound, InspectTypeOK, Same, Bounded
  <2> QED
    BY <1>2, <2>1, <2>2, <2>3, <2>4, <2>6, <2>7 DEF StepIs, Fails
<1> QED
  BY <1>1, <1>2

LEMMA InspectStep ==
    ASSUME InspectAssumption, Sound, InspectNext PROVE StepIs
<1>1. CASE Leave
  BY <1>1, LeaveIs
<1>2. ASSUME NEW v \in Objects,
             Custom(v) \/ Throws(v) \/ Nested(v) \/ Circular(v) \/ Brief(v) \/ Enter(v)
      PROVE  StepIs
  BY <1>2, CustomIs, ThrowsIs, NestedIs, CircularIs, BriefIs, EnterIs
<1> QED
  BY <1>1, <1>2 DEF InspectNext

LEMMA EmbedsPush ==
    ASSUME NEW w \in Seq(Int), NEW s \in Seq(Int), NEW x \in Int, NEW e, Embeds(e, w, s)
    PROVE  \E d : Embeds(d, Append(w, x), Append(s, x))
<1> DEFINE n == Len(w)
           m == Len(s)
           v == Append(w, x)
           t == Append(s, x)
           d == [i \in 1 .. n + 1 |-> IF i = n + 1 THEN m + 1 ELSE e[i]]
<1>1. /\ n \in Nat /\ Len(v) = n + 1 /\ v[n + 1] = x /\ \A i \in 1 .. n : v[i] = w[i]
      /\ m \in Nat /\ Len(t) = m + 1 /\ t[m + 1] = x /\ \A i \in 1 .. m : t[i] = s[i]
  BY AppendProperties, LenProperties
<1> HIDE DEF v, t
<1>2. /\ \A i \in 1 .. n : e[i] \in 1 .. m /\ s[e[i]] = w[i]
      /\ \A i, j \in 1 .. n : i < j => e[i] < e[j]
  BY DEF Embeds
<1>0. n = Len(w) /\ m = Len(s)
  OBVIOUS
<1> HIDE DEF n, m
<1>3. \A i \in 1 .. n : d[i] = e[i]
  BY <1>1
<1>4. d[n + 1] = m + 1 /\ d \in [1 .. n + 1 -> 1 .. m + 1]
  <2>1. n + 1 \in 1 .. n + 1 /\ m + 1 \in 1 .. m + 1
    BY <1>1
  <2>2. ASSUME NEW i \in 1 .. n + 1
        PROVE  (IF i = n + 1 THEN m + 1 ELSE e[i]) \in 1 .. m + 1
    <3>1. CASE i = n + 1
      BY <2>1, <3>1
    <3>2. CASE i # n + 1
      <4>1. i \in 1 .. n
        BY <1>1, <3>2
      <4>2. e[i] \in 1 .. m
        BY <1>2, <4>1, <1>0
      <4> QED
        BY <1>1, <3>2, <4>2
    <3> QED
      BY <3>1, <3>2
  <2> QED
    BY <2>1, <2>2
<1> HIDE DEF d
<1>5. \A i \in 1 .. n + 1 : i = n + 1 \/ i \in 1 .. n
  BY <1>1
<1>6. \A i, j \in 1 .. n + 1 : i < j => d[i] < d[j]
  <2> SUFFICES ASSUME NEW i \in 1 .. n + 1, NEW j \in 1 .. n + 1, i < j PROVE d[i] < d[j]
    OBVIOUS
  <2>1. i \in 1 .. n /\ d[i] = e[i] /\ e[i] \in 1 .. m
    BY <1>1, <1>2, <1>3
  <2>2. CASE j = n + 1
    BY <1>1, <1>4, <2>1, <2>2
  <2>3. CASE j \in 1 .. n
    BY <1>2, <1>3, <2>1, <2>3
  <2> QED
    BY <1>5, <2>2, <2>3
<1>7. \A i \in 1 .. n + 1 : t[d[i]] = v[i]
  <2> TAKE i \in 1 .. n + 1
  <2>1. CASE i = n + 1
    BY <1>1, <1>4, <2>1
  <2>2. CASE i \in 1 .. n
    BY <1>1, <1>2, <1>3, <2>2
  <2> QED
    BY <1>5, <2>1, <2>2
<1>8. Embeds(d, v, t)
  BY <1>1, <1>4, <1>6, <1>7 DEF Embeds
<1> QED
  BY <1>8 DEF v, t

\* The beginnings of both, if the last object at work is gone.
LEMMA EmbedsPop ==
    ASSUME NEW w \in Seq(Int), NEW s \in Seq(Int), w # <<>>, NEW e, Embeds(e, w, s)
    PROVE  (\E d : Embeds(d, Front(w), Front(s))) /\ (\E d : Embeds(d, Front(w), s)) /\ s # <<>>
<1> DEFINE n == Len(w)
           m == Len(s)
           v == Front(w)
           t == Front(s)
           d == [i \in 1 .. n - 1 |-> e[i]]
<1>1. n \in Nat \ {0} /\ Len(v) = n - 1 /\ \A i \in 1 .. n - 1 : v[i] = w[i]
  BY FrontIs
<1>2. /\ \A i \in 1 .. n : e[i] \in 1 .. m /\ s[e[i]] = w[i]
      /\ \A i, j \in 1 .. n : i < j => e[i] < e[j]
  BY DEF Embeds
<1>3. m \in Nat /\ e[n] \in 1 .. m
  BY <1>1, <1>2, LenProperties
<1>4. s # <<>>
  BY <1>3, EmptySeq
<1>5. Len(t) = m - 1 /\ \A i \in 1 .. m - 1 : t[i] = s[i]
  BY <1>4, FrontIs
<1> HIDE DEF n, m, v, t
<1>6. \A i \in 1 .. n - 1 : i \in 1 .. n /\ i < n /\ d[i] = e[i]
  BY <1>1
<1>7. \A i \in 1 .. n - 1 : d[i] \in 1 .. m - 1 /\ d[i] \in 1 .. m
  <2> TAKE i \in 1 .. n - 1
  <2>1. e[i] < e[n] /\ e[i] \in 1 .. m
    BY <1>1, <1>2, <1>6
  <2> QED
    BY <1>3, <1>6, <2>1
<1>8. d \in [1 .. n - 1 -> 1 .. m - 1] /\ d \in [1 .. n - 1 -> 1 .. m]
  BY <1>7
<1> HIDE DEF d
<1>9. \A i, j \in 1 .. n - 1 : i < j => d[i] < d[j]
  BY <1>2, <1>6
<1>10. \A i \in 1 .. n - 1 : t[d[i]] = v[i] /\ s[d[i]] = v[i]
  BY <1>1, <1>2, <1>5, <1>6, <1>7
<1>11. Embeds(d, v, t) /\ Embeds(d, v, s)
  BY <1>1, <1>5, <1>8, <1>9, <1>10 DEF Embeds, m
<1> QED
  BY <1>4, <1>11 DEF v, t

LEMMA DistinctPush ==
    ASSUME NEW w \in Seq(Int), NEW s \in Seq(Int), NEW x \in Int, NEW e, Embeds(e, w, s),
           Distinct(w), x > 0 => ~Contains(s, x)
    PROVE  Distinct(Append(w, x))
<1> DEFINE n == Len(w)
           v == Append(w, x)
<1>1. /\ n \in Nat /\ DOMAIN w = 1 .. n /\ v \in Seq(Int) /\ Len(v) = n + 1 /\ v[n + 1] = x
      /\ \A i \in 1 .. n : v[i] = w[i]
  BY AppendProperties, LenProperties
<1>2. DOMAIN v = 1 .. n + 1
  BY <1>1, LenProperties
<1>3. ASSUME NEW i \in 1 .. n, w[i] = x, x > 0 PROVE FALSE
  <2>1. e[i] \in 1 .. Len(s) /\ s[e[i]] = x
    BY <1>3 DEF Embeds
  <2> QED
    BY <1>3, <2>1 DEF Contains
<1> HIDE DEF n, v
<1>4. \A i \in 1 .. n + 1 : i = n + 1 \/ i \in 1 .. n
  BY <1>1
<1> SUFFICES ASSUME NEW i \in 1 .. n + 1, NEW j \in 1 .. n + 1, v[i] = v[j], v[i] > 0 PROVE i = j
  BY <1>2 DEF Distinct, v
<1>5. CASE i = n + 1 /\ j \in 1 .. n
  BY <1>1, <1>3, <1>5
<1>6. CASE j = n + 1 /\ i \in 1 .. n
  BY <1>1, <1>3, <1>6
<1>7. CASE i \in 1 .. n /\ j \in 1 .. n
  BY <1>1, <1>7 DEF Distinct
<1> QED
  BY <1>4, <1>5, <1>6, <1>7

LEMMA DistinctPop ==
    ASSUME NEW w \in Seq(Int), w # <<>>, Distinct(w) PROVE Distinct(Front(w))
<1> DEFINE n == Len(w)
           v == Front(w)
<1>1. /\ n \in Nat \ {0} /\ v \in Seq(Int) /\ Len(v) = n - 1
      /\ \A i \in 1 .. n - 1 : v[i] = w[i]
  BY FrontIs
<1>2. DOMAIN w = 1 .. n /\ DOMAIN v = 1 .. n - 1
  BY <1>1, LenProperties
<1> HIDE DEF n, v
<1>3. \A i \in 1 .. n - 1 : i \in 1 .. n
  BY <1>1
<1>4. Distinct(v)
  BY <1>1, <1>2, <1>3, Zenon DEF Distinct
<1> QED
  BY <1>4 DEF v

\* What the types say of the frames, the contexts and their sizes.
LEMMA Sizes ==
    ASSUME InspectTypeOK, contexts # <<>>
    PROVE  /\ Len(frames) \in Nat /\ (frames = <<>> <=> Len(frames) = 0)
           /\ Len(contexts) \in Nat \ {0} /\ ctx = contexts[Len(contexts)]
           /\ \A k \in 1 .. Len(contexts) : contexts[k].indentationLvl \in Int
<1>1. frames \in Seq(Frame) /\ contexts \in Seq(Context)
  BY DEF InspectTypeOK
<1>2. Len(frames) \in Nat /\ (frames = <<>> <=> Len(frames) = 0)
  BY <1>1, EmptySeq, LenProperties
<1>3. Len(contexts) \in Nat \ {0} /\ ctx = contexts[Len(contexts)]
  BY <1>1, EmptySeq, LenProperties, TopWaits DEF ctx
<1>4. \A k \in 1 .. Len(contexts) : contexts[k] \in Context
  BY <1>1, ElementOfSeq
<1> QED
  BY <1>2, <1>3, <1>4 DEF Context

LEMMA NestsStay ==
    ASSUME InspectTypeOK, contexts # <<>>, InspectTypeOK', Stays, NEW q, Nests(q)
    PROVE  (Nests(q))' /\ (Levels(q) => (Levels(q))')
<1>1. /\ Len(frames') = Len(frames) /\ Len(contexts') = Len(contexts)
      /\ \A i \in 1 .. Len(frames) : frames'[i].isProxy = frames[i].isProxy
      /\ \A k \in 1 .. Len(contexts) - 1 :
            contexts'[k].indentationLvl = contexts[k].indentationLvl
      /\ contexts'[Len(contexts)].indentationLvl = contexts[Len(contexts)].indentationLvl + 0
  BY DEF Stays, Same, Moves
<1>2. (Nests(q))'
  BY <1>1 DEF Nests
<1>3. contexts' \in Seq(Context) /\ contexts' # <<>> /\ frames' \in Seq(Frame)
  BY <1>1, Sizes, EmptySeq DEF InspectTypeOK
<1>4. ctx' = contexts'[Len(contexts)] /\ (frames' = <<>> <=> frames = <<>>)
  <2>1. Last(contexts') = contexts'[Len(contexts')]
    BY <1>3, TopWaits
  <2>2. frames' = <<>> <=> Len(frames') = 0
    BY <1>3, EmptySeq, LenProperties
  <2> QED
    BY <1>1, <2>1, <2>2, Sizes DEF ctx
<1>5. ASSUME Levels(q) PROVE (Levels(q))'
  <2>1. Len(contexts) \in 1 .. Len(contexts) /\ ctx.indentationLvl \in Int
    BY Sizes
  <2>2. ctx'.indentationLvl = ctx.indentationLvl
    BY <1>1, <1>4, <2>1, Sizes
  <2>3. Len(q) = Len(contexts) - 1
    BY Sizes, LenProperties DEF Nests
  <2>4. \A k \in 1 .. Len(q) : contexts'[k].indentationLvl = 2 * (q[k] - 1)
    BY <1>1, <1>5, <2>3 DEF Levels
  <2> QED
    BY <1>1, <1>4, <1>5, <2>2, <2>4 DEF Levels
<1> QED
  BY <1>2, <1>5

LEMMA LastOf ==
    ASSUME NEW S, NEW s \in Seq(S), Len(s) \in Nat \ {0}
    PROVE  s # <<>> /\ Last(s) = s[Len(s)] /\ Last(s) \in S
<1>1. s # <<>>
  BY EmptySeq
<1> QED
  BY <1>1, TopWaits

LEMMA NestsBegin ==
    ASSUME InspectTypeOK, contexts # <<>>, InspectTypeOK', NEW f \in Frame, Begins(f), NEW q, Nests(q)
    PROVE  \E d : (Nests(d))' /\ (Levels(q) => (Levels(d))')
<1> DEFINE n == Len(frames)
           m == Len(q)
           up == 2 * ((n + 1) - 1)
<1>1. /\ n \in Nat /\ (frames = <<>> <=> n = 0) /\ m \in Nat /\ Len(contexts) = m + 1
      /\ ctx = contexts[m + 1] /\ ctx.indentationLvl \in Int
      /\ \A k \in 1 .. m : q[k] \in 1 .. n /\ frames[q[k]].isProxy
      /\ \A j, k \in 1 .. m : j < k => q[j] < q[k]
      /\ \A i \in 1 .. n : frames[i].isProxy => \E k \in 1 .. m : q[k] = i
  <2>1. q \in Seq(Nat)
    BY DEF Nests
  <2>2. m \in Nat
    BY <2>1, LenProperties
  <2>3. Len(contexts) = m + 1
    BY DEF Nests
  <2>4. Len(contexts) \in 1 .. Len(contexts)
    BY Sizes
  <2> QED
    BY <2>2, <2>3, <2>4, Sizes DEF Nests
<1>2. /\ Len(frames') = n + 1 /\ frames'[n + 1] = f
      /\ \A i \in 1 .. n : frames'[i] = frames[i]
  BY AppendProperties DEF Begins, InspectTypeOK
<1>3. frames' # <<>>
  BY <1>1, <1>2, EmptySeq
<1>4. Levels(q) => ctx.indentationLvl + Up = up
  <2>1. CASE n = 0
    BY <1>1, <2>1 DEF Levels, Up
  <2>2. CASE n # 0
    BY <1>1, <2>2 DEF Levels, Up
  <2> QED
    BY <2>1, <2>2
<1>5. \A i \in 1 .. n + 1 : i = n + 1 \/ i \in 1 .. n
  BY <1>1
<1>6. \A i \in 1 .. n : i \in 1 .. n + 1 /\ i < n + 1
  BY <1>1
<1>7. CASE ~f.isProxy
  <2>1. /\ contexts' \in Seq(Context) /\ Len(contexts') = m + 1
        /\ \A k \in 1 .. m : contexts'[k].indentationLvl = contexts[k].indentationLvl
        /\ contexts'[m + 1].indentationLvl = ctx.indentationLvl + Up
    BY <1>1, <1>7 DEF Begins, Moves
  <2>2. (Nests(q))'
    <3>1. \A k \in 1 .. m : q[k] \in 1 .. n + 1 /\ frames'[q[k]].isProxy
      BY <1>1, <1>2, <1>6
    <3>2. \A i \in 1 .. n + 1 : frames'[i].isProxy => \E k \in 1 .. m : q[k] = i
      BY <1>1, <1>2, <1>5, <1>7
    <3> HIDE DEF n
    <3> QED
      BY <1>1, <1>2, <2>1, <3>1, <3>2 DEF Nests
  <2>3. ctx' = contexts'[m + 1]
    BY <1>1, <2>1, LastOf DEF ctx
  <2>4. ASSUME Levels(q) PROVE (Levels(q))'
    BY <1>1, <1>2, <1>3, <1>4, <2>1, <2>3, <2>4 DEF Levels
  <2> QED
    BY <2>2, <2>4
<1>8. CASE f.isProxy
  <2>0. PICK d : d = Append(q, n + 1)
    OBVIOUS
  <2>1. PICK cs : Moves(cs, contexts, Up) /\ contexts' = Append(cs, Last(cs))
    BY <1>8 DEF Begins
  <2>2. /\ cs \in Seq(Context) /\ Len(cs) = m + 1
        /\ \A k \in 1 .. m : cs[k].indentationLvl = contexts[k].indentationLvl
        /\ cs[m + 1].indentationLvl = ctx.indentationLvl + Up
    <3>1. (m + 1) - 1 = m
      BY <1>1
    <3> HIDE DEF m
    <3> QED
      BY <1>1, <2>1, <3>1 DEF Moves
  <2>3. cs # <<>> /\ Last(cs) = cs[m + 1] /\ Last(cs) \in Context
    BY <1>1, <2>2, LastOf
  <2>4. /\ contexts' \in Seq(Context) /\ Len(contexts') = m + 2 /\ contexts'[m + 2] = cs[m + 1]
        /\ \A k \in 1 .. m + 1 : contexts'[k] = cs[k]
    BY <1>1, <2>1, <2>2, <2>3, AppendProperties
  <2>5. ctx' = cs[m + 1]
    <3>1. m + 2 \in Nat \ {0}
      BY <1>1
    <3> QED
      BY <2>4, <3>1, LastOf DEF ctx
  <2>6. /\ d \in Seq(Nat) /\ Len(d) = m + 1 /\ d[m + 1] = n + 1
        /\ \A k \in 1 .. m : d[k] = q[k]
    BY <1>1, <2>0, AppendProperties DEF Nests
  <2>7. \A k \in 1 .. m + 1 : k = m + 1 \/ k \in 1 .. m
    BY <1>1
  <2>8. m + 1 \in 1 .. m + 1 /\ \A k \in 1 .. m : k \in 1 .. m + 1 /\ k < m + 1
    BY <1>1
  <2>9. (Nests(d))'
    <3>1. \A k \in 1 .. m + 1 : d[k] \in 1 .. n + 1 /\ frames'[d[k]].isProxy
      <4> TAKE k \in 1 .. m + 1
      <4>1. CASE k = m + 1
        BY <1>1, <1>2, <1>8, <2>6, <4>1
      <4>2. CASE k \in 1 .. m
        BY <1>1, <1>2, <1>6, <2>6, <4>2
      <4> QED
        BY <2>7, <4>1, <4>2
    <3>2. \A i \in 1 .. n + 1 : frames'[i].isProxy => \E k \in 1 .. m + 1 : d[k] = i
      <4> TAKE i \in 1 .. n + 1
      <4> HAVE frames'[i].isProxy
      <4>1. CASE i = n + 1
        BY <2>6, <2>8, <4>1
      <4>2. CASE i \in 1 .. n
        <5>1. PICK k \in 1 .. m : q[k] = i
          BY <1>1, <1>2, <4>2
        <5>2. k \in 1 .. m + 1 /\ d[k] = i
          BY <2>6, <2>8, <5>1
        <5> QED
          BY <5>2, Zenon
      <4> QED
        BY <1>5, <4>1, <4>2
    <3>3. \A j, k \in 1 .. m + 1 : j < k => d[j] < d[k]
      <4> SUFFICES ASSUME NEW j \in 1 .. m + 1, NEW k \in 1 .. m + 1, j < k PROVE d[j] < d[k]
        OBVIOUS
      <4>1. j \in 1 .. m
        BY <1>1
      <4>2. CASE k = m + 1
        BY <1>1, <1>6, <2>6, <4>1, <4>2
      <4>3. CASE k \in 1 .. m
        BY <1>1, <2>6, <4>1, <4>3
      <4> QED
        BY <2>7, <4>2, <4>3
    <3>4. Len(contexts') = Len(d) + 1
      BY <1>1, <2>4, <2>6
    <3> HIDE DEF n, m
    <3> QED
      BY <1>2, <2>6, <3>1, <3>2, <3>3, <3>4 DEF Nests
  <2>10. ASSUME Levels(q) PROVE (Levels(d))'
    <3>1. cs[m + 1].indentationLvl = up
      BY <1>4, <2>2, <2>10
    <3>2. ctx'.indentationLvl = 2 * (Len(frames') - 1)
      BY <1>2, <2>5, <3>1
    <3>3. ASSUME NEW k \in 1 .. m + 1 PROVE contexts'[k].indentationLvl = 2 * (d[k] - 1)
      <4>1. CASE k = m + 1
        BY <2>4, <2>6, <2>8, <3>1, <4>1
      <4>2. CASE k \in 1 .. m
        BY <2>2, <2>4, <2>6, <2>8, <2>10, <4>2 DEF Levels
      <4> QED
        BY <2>7, <4>1, <4>2
    <3> HIDE DEF n, m
    <3> QED
      BY <1>3, <2>6, <3>2, <3>3 DEF Levels
  <2> QED
    BY <2>9, <2>10
<1> QED
  BY <1>7, <1>8

\* A formatter that ends takes the context of its proxy with it.
LEMMA NestsEnd ==
    ASSUME Sound, InspectTypeOK', frames # <<>>, Same(Front(frames)),
           Len(contexts') = Len(Inner), NEW q, Nests(q)
    PROVE  \E d : /\ (Nests(d))'
                  /\ Levels(q) /\ Moves(contexts', Inner, Down) => (Levels(d))'
<1> DEFINE n == Len(frames)
           m == Len(q)
<1>1. /\ n \in Nat \ {0} /\ m \in Nat /\ Len(contexts) = m + 1 /\ q \in Seq(Nat)
      /\ ctx = contexts[m + 1] /\ Formatter = frames[n] /\ contexts \in Seq(Context)
      /\ \A k \in 1 .. m + 1 : contexts[k].indentationLvl \in Int
      /\ \A k \in 1 .. m : q[k] \in 1 .. n /\ frames[q[k]].isProxy
      /\ \A j, k \in 1 .. m : j < k => q[j] < q[k]
      /\ \A i \in 1 .. n : frames[i].isProxy => \E k \in 1 .. m : q[k] = i
  <2>1. InspectTypeOK /\ contexts # <<>>
    BY DEF Sound
  <2>2. q \in Seq(Nat) /\ Len(contexts) = m + 1
    BY DEF Nests
  <2>3. m \in Nat
    BY <2>2, LenProperties
  <2>4. Formatter = frames[n]
    BY InnerIs
  <2> QED
    BY <2>1, <2>2, <2>3, <2>4, Sizes DEF Nests, InspectTypeOK
<1>2. /\ Len(frames') = n - 1
      /\ \A i \in 1 .. n - 1 : frames'[i].isProxy = frames[i].isProxy
  <2>1. /\ Len(Front(frames)) = n - 1
        /\ \A i \in 1 .. n - 1 : Front(frames)[i] = frames[i]
    BY FrontIs DEF Sound, InspectTypeOK
  <2> HIDE DEF n
  <2> QED
    BY <2>1 DEF Same
<1>3. frames' = <<>> <=> n = 1
  <2>1. frames' = <<>> <=> Len(frames') = 0
    BY EmptySeq, LenProperties DEF InspectTypeOK
  <2> QED
    BY <1>1, <1>2, <2>1
<1>4. Down = IF n = 1 THEN 0 ELSE -2
  BY DEF Down
<1>5. \A i \in 1 .. n : i = n \/ i \in 1 .. n - 1
  BY <1>1
<1>6. \A i \in 1 .. n - 1 : i \in 1 .. n /\ i < n
  BY <1>1
<1>7. Levels(q) => /\ \A k \in 1 .. m : contexts[k].indentationLvl = 2 * (q[k] - 1)
                   /\ contexts[m + 1].indentationLvl = 2 * (n - 1)
  BY <1>1 DEF Levels
<1>8. contexts' \in Seq(Context)
  BY DEF InspectTypeOK
<1>9. CASE ~Formatter.isProxy
  <2>1. Inner = contexts
    BY <1>9 DEF Inner
  <2>2. \A k \in 1 .. m : q[k] \in 1 .. n - 1
    BY <1>1, <1>5, <1>9
  <2>3. (Nests(q))'
    <3>1. \A k \in 1 .. m : q[k] \in 1 .. n - 1 /\ frames'[q[k]].isProxy
      BY <1>1, <1>2, <2>2
    <3>2. \A i \in 1 .. n - 1 : frames'[i].isProxy => \E k \in 1 .. m : q[k] = i
      BY <1>1, <1>2, <1>6
    <3>3. Len(contexts') = m + 1
      BY <1>1, <2>1
    <3> HIDE DEF n
    <3> QED
      BY <1>1, <1>2, <3>1, <3>2, <3>3 DEF Nests
  <2>4. ASSUME Levels(q), Moves(contexts', Inner, Down) PROVE (Levels(q))'
    <3>1. (m + 1) - 1 = m
      BY <1>1
    <3>2. ctx' = contexts'[m + 1]
      BY <1>1, <1>8, <2>1, LastOf DEF ctx
    <3>3. Len(contexts) - 1 = m
      BY <1>1
    <3>4. /\ \A k \in 1 .. m : contexts'[k].indentationLvl = contexts[k].indentationLvl
          /\ contexts'[m + 1].indentationLvl = contexts[m + 1].indentationLvl + Down
      BY <1>1, <2>1, <2>4, <3>3 DEF Moves
    <3>5. contexts'[m + 1].indentationLvl = IF n = 1 THEN 0 ELSE 2 * ((n - 1) - 1)
      BY <1>1, <1>4, <1>7, <2>4, <3>4
    <3>6. \A k \in 1 .. m : contexts'[k].indentationLvl = 2 * (q[k] - 1)
      BY <1>7, <2>4, <3>4
    <3> HIDE DEF n, m
    <3> QED
      BY <1>2, <1>3, <3>2, <3>5, <3>6 DEF Levels, m
  <2> QED
    BY <2>3, <2>4
<1>10. CASE Formatter.isProxy
  <2>1. PICK l \in 1 .. m : q[l] = n
    <3>1. n \in 1 .. n /\ frames[n].isProxy
      BY <1>1, <1>10
    <3> QED
      BY <1>1, <3>1
  <2>2. l = m
    <3>1. SUFFICES ASSUME l # m PROVE FALSE
      OBVIOUS
    <3>2. m \in 1 .. m /\ l < m
      BY <1>1, <2>1, <3>1
    <3>3. q[l] < q[m] /\ q[m] \in 1 .. n
      BY <1>1, <3>2
    <3> QED
      BY <1>1, <2>1, <3>3
  <2>3. m \in Nat \ {0} /\ q[m] = n /\ q # <<>>
    BY <1>1, <2>1, <2>2, EmptySeq
  <2>4. PICK d : d = Front(q)
    OBVIOUS
  <2>5. d \in Seq(Nat) /\ Len(d) = m - 1 /\ \A k \in 1 .. m - 1 : d[k] = q[k]
    BY <1>1, <2>3, <2>4, FrontIs
  <2>6. \A k \in 1 .. m - 1 : k \in 1 .. m /\ k < m /\ m \in 1 .. m /\ k \in 1 .. m + 1
    BY <2>3
  <2>7. \A k \in 1 .. m - 1 : d[k] \in 1 .. n - 1 /\ frames[d[k]].isProxy
    <3> TAKE k \in 1 .. m - 1
    <3>1. q[k] < q[m] /\ q[k] \in 1 .. n /\ frames[q[k]].isProxy
      BY <1>1, <2>6
    <3>2. q[k] \in 1 .. n - 1
      BY <1>1, <2>3, <3>1
    <3> HIDE DEF n, m
    <3> QED
      BY <2>5, <3>1, <3>2
  <2>8. Inner = Front(contexts)
    BY <1>10 DEF Inner
  <2>9. contexts # <<>>
    BY DEF Sound
  <2>10. /\ Inner \in Seq(Context) /\ Len(Inner) = m /\ \A k \in 1 .. m : Inner[k] = contexts[k]
    <3>1. Len(contexts) - 1 = m
      BY <1>1
    <3> QED
      BY <1>1, <2>8, <2>9, <3>1, FrontIs
  <2>11. (Nests(d))'
    <3>1. \A k \in 1 .. m - 1 : d[k] \in 1 .. n - 1 /\ frames'[d[k]].isProxy
      BY <1>2, <2>7
    <3>2. \A i \in 1 .. n - 1 : frames'[i].isProxy => \E k \in 1 .. m - 1 : d[k] = i
      <4> TAKE i \in 1 .. n - 1
      <4> HAVE frames'[i].isProxy
      <4>1. PICK k \in 1 .. m : q[k] = i
        BY <1>1, <1>2, <1>6
      <4>2. k # m
        BY <1>6, <2>3, <4>1
      <4>3. k \in 1 .. m - 1
        BY <2>3, <4>2
      <4> QED
        BY <2>5, <4>1, <4>3
    <3>3. \A j, k \in 1 .. m - 1 : j < k => d[j] < d[k]
      BY <1>1, <2>5, <2>6
    <3>4. Len(contexts') = Len(d) + 1
      BY <2>3, <2>5, <2>10
    <3> HIDE DEF n, m
    <3> QED
      BY <1>2, <2>5, <3>1, <3>2, <3>3, <3>4 DEF Nests
  <2>12. ASSUME Levels(q), Moves(contexts', Inner, Down) PROVE (Levels(d))'
    <3>1. ctx' = contexts'[m]
      BY <1>8, <2>3, <2>10, LastOf DEF ctx
    <3>2. /\ \A k \in 1 .. m - 1 : contexts'[k].indentationLvl = Inner[k].indentationLvl
          /\ contexts'[m].indentationLvl = Inner[m].indentationLvl + Down
      BY <2>10, <2>12 DEF Moves
    <3>3. m \in 1 .. m
      BY <2>3
    <3>4. Inner[m].indentationLvl = 2 * (n - 1)
      BY <1>7, <2>3, <2>10, <2>12, <3>3
    <3>5. contexts'[m].indentationLvl = IF n = 1 THEN 0 ELSE 2 * ((n - 1) - 1)
      <4>1. CASE n = 1
        BY <1>1, <1>4, <3>2, <3>4, <4>1
      <4>2. CASE n # 1
        <5>1. contexts'[m].indentationLvl = 2 * (n - 1) + (-2)
          BY <1>4, <3>2, <3>4, <4>2
        <5> QED
          BY <1>1, <4>2, <5>1
      <4> QED
        BY <4>1, <4>2
    <3>6. \A k \in 1 .. m - 1 : contexts'[k].indentationLvl = 2 * (d[k] - 1)
      BY <1>7, <2>5, <2>6, <2>10, <2>12, <3>2
    <3> HIDE DEF n, m
    <3> QED
      BY <1>2, <1>3, <2>5, <3>1, <3>5, <3>6 DEF Levels
  <2> QED
    BY <2>11, <2>12
<1> QED
  BY <1>9, <1>10

\* What was inside of is still, when another formatter has begun.
LEMMA ContainsPush ==
    ASSUME NEW w \in Seq(Int), NEW x \in Int, NEW y, Contains(w, y)
    PROVE  Contains(Append(w, x), y)
<1>1. PICK i \in 1 .. Len(w) : w[i] = y
  BY DEF Contains
<1>2. /\ Len(Append(w, x)) = Len(w) + 1 /\ Append(w, x)[i] = y /\ Len(w) \in Nat
  BY <1>1, AppendProperties, LenProperties
<1>3. i \in 1 .. Len(w) + 1
  BY <1>1, <1>2
<1> QED
  BY <1>2, <1>3 DEF Contains

LEMMA AtWorkIs ==
    ASSUME InspectAssumption, InspectTypeOK
    PROVE  AtWork = Works(frames) /\ AtWork \in Seq(Int) /\ Len(AtWork) = Len(frames)
<1>1. AtWork = Works(frames)
  BY DEF AtWork, Works, At
<1> QED
  BY <1>1, WorksAre DEF InspectTypeOK

\* The four steps, in terms of what is at work.
LEMMA AtWorkNext ==
    ASSUME InspectAssumption, Sound, StepIs
    PROVE  \/ Stays /\ AtWork' = AtWork /\ seen' = seen
           \/ \E f \in Frame : /\ Begins(f) /\ At(f) \in Int
                               /\ AtWork' = Append(AtWork, At(f)) /\ seen' = Append(seen, At(f))
                               /\ At(f) > 0 => ~Contains(seen, At(f))
           \/ Ends /\ AtWork # <<>> /\ AtWork' = Front(AtWork) /\ seen' = Front(seen)
           \/ Fails /\ AtWork # <<>> /\ AtWork' = Front(AtWork) /\ seen' = seen /\ Failed'
<1>1. AtWork = Works(frames) /\ AtWork' = Works(frames')
  BY DEF AtWork, Works, At
<1>2. frames \in Seq(Frame) /\ (frames # <<>> => AtWork # <<>>)
  <2>1. frames \in Seq(Frame) /\ AtWork \in Seq(Int) /\ Len(AtWork) = Len(frames)
    BY AtWorkIs DEF Sound, InspectTypeOK
  <2> QED
    BY <2>1, EmptySeq
<1>3. CASE Stays
  BY <1>1, <1>3 DEF Stays
<1>4. CASE Ends
  BY <1>1, <1>2, <1>4 DEF Ends
<1>5. CASE Fails
  BY <1>1, <1>2, <1>5 DEF Fails
<1>6. ASSUME NEW f \in Frame, Begins(f)
      PROVE  /\ At(f) \in Int /\ AtWork' = Append(AtWork, At(f)) /\ seen' = Append(seen, At(f))
             /\ At(f) > 0 => ~Contains(seen, At(f))
  <2>1. frames' = Append(frames, f) /\ seen' = Append(seen, At(f))
    BY <1>6 DEF Begins
  <2>2. AtWork' = Append(AtWork, At(f))
    BY <1>1, <1>2, <2>1, WorksPush
  <2>3. ASSUME At(f) > 0 PROVE ~Contains(seen, At(f))
    <3>1. ~f.isProxy
      <4> SUFFICES ASSUME f.isProxy PROVE FALSE
        OBVIOUS
      <4>1. At(f) = -f.value /\ f.value \in Nat
        BY DEF At, Frame, InspectAssumption
      <4> QED
        BY <2>3, <4>1
    <3>2. At(f) = f.value
      BY <3>1 DEF At
    <3> QED
      BY <1>6, <3>1, <3>2 DEF Begins
  <2> QED
    BY <2>1, <2>2, <2>3, AtIsInt
<1> QED
  BY <1>3, <1>4, <1>5, <1>6 DEF StepIs

LEMMA WalkKeeps ==
    ASSUME InspectAssumption, InspectInv, StepIs
    PROVE  /\ \E e : (Embeds(e, AtWork, seen))'
           /\ (Distinct(AtWork))'
           /\ \E q : (Nests(q))' /\ (~Failed' => (Levels(q))')
           /\ ~Failed' => seen' = AtWork'
<1>1. Sound
  BY InvIsSound
<1>2. InspectTypeOK /\ contexts # <<>> /\ InspectTypeOK' /\ (Failed => Failed')
  BY <1>1 DEF Sound, StepIs
<1>3. PICK e : Embeds(e, AtWork, seen)
  BY DEF InspectInv
<1>4. PICK q : Nests(q) /\ (~Failed => Levels(q))
  BY DEF InspectInv
<1>5. Distinct(AtWork) /\ (~Failed => seen = AtWork)
  BY DEF InspectInv
<1>6. AtWork \in Seq(Int) /\ seen \in Seq(Int)
  BY <1>2, AtWorkIs DEF InspectTypeOK
<1> DEFINE w == AtWork
           Goal == /\ \E d : (Embeds(d, AtWork, seen))'
                   /\ (Distinct(AtWork))'
                   /\ \E d : (Nests(d))' /\ (~Failed' => (Levels(d))')
                   /\ ~Failed' => seen' = AtWork'
<1> SUFFICES Goal
  OBVIOUS
<1>7. CASE Stays /\ AtWork' = AtWork /\ seen' = seen
  <2>1. (Embeds(e, AtWork, seen))' /\ (Distinct(AtWork))'
    BY <1>3, <1>5, <1>7 DEF Embeds, Distinct
  <2>2. (Nests(q))' /\ (Levels(q) => (Levels(q))')
    BY <1>2, <1>4, <1>7, NestsStay
  <2> QED
    BY <1>2, <1>4, <1>5, <1>7, <2>1, <2>2
<1>8. ASSUME NEW f \in Frame, Begins(f), At(f) \in Int, AtWork' = Append(AtWork, At(f)),
             seen' = Append(seen, At(f)), At(f) > 0 => ~Contains(seen, At(f))
      PROVE  Goal
  <2>1. \E d : Embeds(d, AtWork', seen')
    BY <1>3, <1>6, <1>8, EmbedsPush
  <2>2. Distinct(AtWork')
    BY <1>3, <1>5, <1>6, <1>8, DistinctPush
  <2>3. \E d : (Nests(d))' /\ (Levels(q) => (Levels(d))')
    BY <1>2, <1>4, <1>8, NestsBegin
  <2>4. \E d : (Embeds(d, AtWork, seen))'
    BY <2>1 DEF Embeds
  <2>5. (Distinct(AtWork))'
    BY <2>2 DEF Distinct
  <2> QED
    BY <1>2, <1>4, <1>5, <1>8, <2>3, <2>4, <2>5
<1>9. CASE Ends /\ AtWork # <<>> /\ AtWork' = Front(AtWork) /\ seen' = Front(seen)
  <2>1. \E d : Embeds(d, AtWork', seen')
    BY <1>3, <1>6, <1>9, EmbedsPop
  <2>2. Distinct(AtWork')
    BY <1>5, <1>6, <1>9, DistinctPop
  <2>3. \E d : (Nests(d))' /\ (Levels(q) => (Levels(d))')
    <3>1. frames # <<>> /\ Same(Front(frames)) /\ Moves(contexts', Inner, Down)
      BY <1>9 DEF Ends
    <3>2. Len(contexts') = Len(Inner)
      BY <3>1 DEF Moves
    <3> QED
      BY <1>1, <1>2, <1>4, <3>1, <3>2, NestsEnd
  <2>4. \E d : (Embeds(d, AtWork, seen))'
    BY <2>1 DEF Embeds
  <2>5. (Distinct(AtWork))'
    BY <2>2 DEF Distinct
  <2> QED
    BY <1>2, <1>4, <1>5, <1>9, <2>3, <2>4, <2>5
<1>10. CASE Fails /\ AtWork # <<>> /\ AtWork' = Front(AtWork) /\ seen' = seen /\ Failed'
  <2>1. \E d : Embeds(d, AtWork', seen')
    BY <1>3, <1>6, <1>10, EmbedsPop
  <2>2. Distinct(AtWork')
    BY <1>5, <1>6, <1>10, DistinctPop
  <2>3. \E d : (Nests(d))'
    <3>1. frames # <<>> /\ Same(Front(frames)) /\ Len(contexts') = Len(Inner)
      BY <1>10 DEF Fails
    <3> QED
      BY <1>1, <1>2, <1>4, <3>1, NestsEnd
  <2>4. \E d : (Embeds(d, AtWork, seen))'
    BY <2>1 DEF Embeds
  <2>5. (Distinct(AtWork))'
    BY <2>2 DEF Distinct
  <2> QED
    BY <1>10, <2>3, <2>4, <2>5
<1> QED
  BY <1>1, <1>7, <1>8, <1>9, <1>10, AtWorkNext

\* What was just printed as circular is at work, since it is in seen, and stays so
\* until something else is printed.
LEMMA CircularKeeps ==
    ASSUME InspectAssumption, InspectInv, InspectNext, StepIs, ~Failed'
    PROVE  CircularAtWork'
<1>1. Sound
  BY InvIsSound
<1>2. /\ printed \in Seq(Token) /\ ~Failed /\ seen = AtWork /\ CircularAtWork
      /\ AtWork \in Seq(Int)
  BY <1>1, AtWorkIs DEF Sound, InspectTypeOK, StepIs, InspectInv
<1>3. ASSUME NEW what \in Whats, NEW v \in Objects, NEW n \in Nat, Prints(what, v, n),
             what # "circular"
      PROVE  CircularAtWork'
  <2>1. Last(printed').what = what
    BY <1>2, <1>3, PrintsShows
  <2> QED
    BY <1>3, <2>1 DEF CircularAtWork
<1>4. CASE Leave
  <2> DEFINE n == IF Formatter.isProxy THEN 0 ELSE InMap
  <2>1. n \in Nat /\ Prints("ref", Formatter.value, n) /\ frames # <<>>
    BY <1>1, <1>4, InMapIs DEF Leave
  <2> HIDE DEF n
  <2> QED
    BY <1>1, <1>3, <2>1, InnerIs DEF Whats
<1>5. ASSUME NEW v \in Objects, Custom(v) \/ Brief(v) PROVE CircularAtWork'
  BY <1>3, <1>5 DEF Custom, Brief, Whats
<1>6. ASSUME NEW v \in Objects, Throws(v) PROVE CircularAtWork'
  <2>1. CASE frames = <<>>
    BY <1>6, <2>1 DEF Throws, CircularAtWork
  <2>2. CASE frames # <<>>
    BY <1>1, <1>3, <1>6, <2>2, InnerIs DEF Throws, Whats
  <2> QED
    BY <2>1, <2>2
<1>7. ASSUME NEW v \in Objects, Circular(v) PROVE CircularAtWork'
  <2>1. PICK n \in Nat : Prints("circular", v, n)
    <3>1. CASE ctx.map = 0
      BY <1>7, <3>1 DEF Circular
    <3>2. CASE ctx.map # 0
      <4> DEFINE map == circular[ctx.map]
                 known == Index(map, v)
                 n == IF known # 0 THEN known ELSE Len(map) + 1
      <4>1. Prints("circular", v, n)
        BY <1>7, <3>2, Zenon DEF Circular
      <4>2. map \in Seq(Objects)
        <5>1. ctx \in Context /\ ctx.map <= Len(circular) /\ circular \in Seq(Seq(Objects))
          BY <1>1, TopWaits DEF Sound, InspectTypeOK, ctx
        <5>2. ctx.map \in 1 .. Len(circular)
          BY <3>2, <5>1, LenProperties DEF Context
        <5> QED
          BY <5>1, <5>2, ElementOfSeq
      <4>3. n \in Nat
        BY <4>2, IndexIs, LenProperties
      <4> QED
        BY <4>1, <4>3, Zenon
    <3> QED
      BY <3>1, <3>2
  <2>2. Last(printed').value = v
    BY <1>2, <2>1, PrintsShows DEF Whats
  <2>3. Contains(seen, v) /\ seen' = seen
    BY <1>7 DEF Circular
  <2>4. seen' = AtWork'
    BY WalkKeeps
  <2>5. Contains(AtWork', v)
    BY <1>2, <2>3, <2>4
  <2> QED
    BY <2>2, <2>5 DEF CircularAtWork, Contains
<1>8. ASSUME NEW v \in Objects, Nested(v) \/ Enter(v) PROVE CircularAtWork'
  <2>1. printed' = printed /\ result' = result
    BY <1>8 DEF Nested, Enter
  <2>2. PICK x \in Int : seen' = Append(seen, x)
    <3>1. v \in Int /\ -v \in Int
      BY DEF InspectAssumption
    <3> QED
      BY <1>8, <3>1 DEF Nested, Enter
  <2>3. seen' = AtWork'
    BY WalkKeeps
  <2>4. \A y : Contains(AtWork, y) => Contains(AtWork', y)
    BY <1>2, <2>2, <2>3, ContainsPush
  <2> QED
    BY <1>2, <2>1, <2>4 DEF CircularAtWork, Contains
<1> QED
  BY <1>4, <1>5, <1>6, <1>7, <1>8 DEF InspectNext

\* Where no class calls inspect there is no proxy, and so one context.
LEMMA OneContext ==
    ASSUME InspectAssumption, InspectInv, Marks
    PROVE  /\ contexts \in Seq(Context) /\ contexts # <<>> /\ Len(contexts) = 1
           /\ ctx = contexts[1] /\ ctx \in Context
           /\ frames # <<>> => ~Formatter.isProxy /\ Inner = contexts
<1>1. Sound
  BY InvIsSound
<1>2. contexts \in Seq(Context) /\ contexts # <<>> /\ Len(contexts) = 1
  BY <1>1 DEF Sound, InspectTypeOK, Marks
<1>3. ctx = contexts[1] /\ ctx \in Context
  BY <1>2, TopWaits DEF ctx
<1>4. PICK q : Nests(q)
  BY DEF InspectInv
<1>5. ASSUME frames # <<>> PROVE ~Formatter.isProxy
  <2>1. q \in Seq(Nat) /\ Len(q) + 1 = 1
    BY <1>2, <1>4 DEF Nests
  <2>2. Len(q) = 0
    BY <2>1, LenProperties
  <2>3. \A i \in 1 .. Len(frames) : ~frames[i].isProxy
    BY <1>4, <2>2 DEF Nests
  <2>4. Formatter = frames[Len(frames)] /\ Len(frames) \in 1 .. Len(frames)
    BY <1>1, <1>5, TopWaits DEF Sound, InspectTypeOK, Formatter
  <2> QED
    BY <2>3, <2>4
<1>6. ASSUME frames # <<>> PROVE Inner = contexts
  BY <1>5, <1>6 DEF Inner
<1> QED
  BY <1>2, <1>3, <1>5, <1>6

\* The contexts after a step that leaves the maps alone.
LEMMA OneContextStays ==
    ASSUME contexts \in Seq(Context), Len(contexts) = 1, NEW d,
           Moves(contexts', contexts, d), SameMaps(contexts', contexts)
    PROVE  Len(contexts') = 1 /\ ctx'.map = contexts[1].map
<1>1. contexts' \in Seq(Context) /\ Len(contexts') = 1 /\ contexts'[1].map = contexts[1].map
  BY DEF Moves, SameMaps
<1>2. Last(contexts') = contexts'[1]
  BY <1>1, LastOf
<1> QED
  BY <1>1, <1>2 DEF ctx

\* A step that adds no circular reference keeps the marks, if it gives a mark to the
\* object that it leaves, and the right one.
LEMMA MarksMove ==
    ASSUME Marks, Len(contexts') = 1, ctx'.map = ctx.map, circular' = circular,
           (Shown("circular"))' = Shown("circular"), Shown("ref") \subseteq (Shown("ref"))',
           \A t \in (Shown("ref"))' : t[2] # 0 => t \in Shown("ref") \/ t \in Numbers,
           \A i \in DOMAIN Map : Contains(AtWork, Map[i]) =>
                Contains(AtWork', Map[i]) \/ <<Map[i], i>> \in (Shown("ref"))'
    PROVE  Marks'
<1>1. Map' = Map
  BY DEF Map
<1>2. Numbers' = Numbers
  BY <1>1, Zenon DEF Numbers
<1>3. \A t \in (Shown("ref"))' : t[2] # 0 => t \in Numbers
  BY DEF Marks
<1>4. \A i \in DOMAIN Map : Contains(AtWork', Map[i]) \/ <<Map[i], i>> \in (Shown("ref"))'
  BY Zenon DEF Marks
<1>5. /\ Len(contexts') = 1 /\ ctx'.map \in {0, 1} /\ Len(circular') = ctx'.map
      /\ \A i, j \in DOMAIN Map' : Map'[i] = Map'[j] => i = j
      /\ (Shown("circular"))' = Numbers'
  BY <1>1, <1>2, Zenon DEF Marks
<1>6. \A t \in (Shown("ref"))' : t[2] # 0 => t \in Numbers'
  BY <1>2, <1>3, Zenon
<1>7. \A i \in DOMAIN Map' : (Contains(AtWork, Map[i]))' \/ <<Map'[i], i>> \in (Shown("ref"))'
  BY <1>1, <1>4, Zenon DEF Contains
<1> QED
  BY <1>5, <1>6, <1>7, Zenon DEF Marks

\* A step that prints neither circular reference nor mark.
LEMMA MarksPlain ==
    ASSUME Marks, Len(contexts') = 1, ctx'.map = ctx.map, circular' = circular,
           \A x : x \in {"circular", "ref"} => (Shown(x))' = Shown(x),
           \A y : Contains(AtWork, y) => Contains(AtWork', y)
    PROVE  Marks'
<1>1. (Shown("circular"))' = Shown("circular") /\ (Shown("ref"))' = Shown("ref")
  OBVIOUS
<1> QED
  BY <1>1, MarksMove

LEMMA MarksPrinted ==
    ASSUME InspectAssumption, InspectInv, Marks, NEW v \in Objects, Custom(v) \/ Brief(v)
    PROVE  Marks'
<1>1. Sound
  BY InvIsSound
<1>2. contexts' = contexts /\ circular' = circular /\ AtWork' = AtWork
  <2>1. contexts' = contexts /\ circular' = circular /\ Returned(frames)
    BY DEF Custom, Brief
  <2>2. Works(frames') = Works(frames)
    BY <1>1, <2>1, ReturnedKeeps DEF Sound, InspectTypeOK
  <2> QED
    BY <2>1, <2>2 DEF AtWork, Works, At
<1>3. \A x : x \in {"circular", "ref"} => (Shown(x))' = Shown(x)
  <2>1. printed \in Seq(Token)
    BY <1>1 DEF Sound, InspectTypeOK
  <2>2. Prints("custom", v, 0) \/ Prints("brief", v, 0)
    BY DEF Custom, Brief
  <2>3. "custom" \in Whats /\ "brief" \in Whats /\ 0 \in Nat
    BY DEF Whats
  <2>4. \/ \A x : (Shown(x))' = IF x = "custom" THEN Shown(x) \cup {<<v, 0>>} ELSE Shown(x)
        \/ \A x : (Shown(x))' = IF x = "brief" THEN Shown(x) \cup {<<v, 0>>} ELSE Shown(x)
    BY <2>1, <2>2, <2>3, PrintsShows
  <2> QED
    BY <2>4
<1>4. Len(contexts') = 1 /\ ctx'.map = ctx.map
  BY <1>2 DEF Marks, ctx
<1>5. \A y : Contains(AtWork, y) => Contains(AtWork', y)
  BY <1>2
<1> QED
  BY <1>2, <1>3, <1>4, <1>5, MarksPlain

LEMMA MarksEnter ==
    ASSUME InspectAssumption, InspectInv, Marks, NEW v \in Objects, Enter(v), seen' = AtWork'
    PROVE  Marks'
<1>1. contexts \in Seq(Context) /\ contexts # <<>> /\ Len(contexts) = 1 /\ ctx = contexts[1]
  BY OneContext
<1>2. contexts' = Raised(contexts) /\ circular' = circular /\ seen' = Append(seen, v)
  BY DEF Enter
<1>3. Moves(contexts', contexts, Up) /\ SameMaps(contexts', contexts)
  BY <1>1, <1>2, RaisedMoves
<1>4. Len(contexts') = 1 /\ ctx'.map = ctx.map
  BY <1>1, <1>3, OneContextStays
<1>5. \A x : (Shown(x))' = Shown(x)
  BY DEF Enter, Shown
<1>6. ASSUME NEW y, Contains(AtWork, y) PROVE Contains(AtWork', y)
  <2>1. seen \in Seq(Int) /\ v \in Int
    <3>1. seen \in Seq(Int)
      BY DEF InspectInv, InspectTypeOK
    <3>2. v \in Int
      BY DEF InspectAssumption
    <3> QED
      BY <3>1, <3>2
  <2>2. PICK e : Embeds(e, AtWork, seen)
    BY DEF InspectInv
  <2>3. AtWork \in Seq(Int)
    BY AtWorkIs DEF InspectInv
  <2>4. PICK i \in 1 .. Len(AtWork) : AtWork[i] = y
    BY <1>6 DEF Contains
  <2>5. e[i] \in 1 .. Len(seen) /\ seen[e[i]] = y
    BY <2>2, <2>4 DEF Embeds
  <2>6. Contains(seen, y)
    BY <2>5 DEF Contains
  <2> QED
    BY <1>2, <2>1, <2>6, ContainsPush
<1> QED
  BY <1>2, <1>4, <1>5, <1>6, MarksPlain

LEMMA MarksThrown ==
    ASSUME InspectAssumption, InspectInv, Marks, NEW v \in Objects, Throws(v), ~Failed'
    PROVE  Marks'
<1>1. Sound
  BY InvIsSound
<1>2. frames = <<>>
  <2> SUFFICES ASSUME frames # <<>> PROVE FALSE
    OBVIOUS
  <2>1. Prints("error", Formatter.value, 0) /\ Formatter.value \in Objects /\ printed \in Seq(Token)
    BY <1>1, InnerIs DEF Throws, Sound, InspectTypeOK
  <2>2. (Shown("error"))' = Shown("error") \cup {<<Formatter.value, 0>>}
    BY <2>1, PrintsShows DEF Whats
  <2> QED
    BY <2>2 DEF Failed
<1>3. contexts' = contexts /\ circular' = circular /\ frames' = frames /\ printed' = printed
  BY <1>2 DEF Throws
<1>4. AtWork' = AtWork /\ ctx'.map = ctx.map /\ Len(contexts') = 1
  BY <1>3 DEF AtWork, ctx, Marks
<1>5. \A x : (Shown(x))' = Shown(x)
  BY <1>3 DEF Shown
<1>6. \A y : Contains(AtWork, y) => Contains(AtWork', y)
  BY <1>4
<1> QED
  BY <1>3, <1>4, <1>5, <1>6, MarksPlain

\* An object that is found again for the first time gets the next number.
LEMMA MarksAdd ==
    ASSUME Marks, Map \in Seq(Objects), NEW v \in Objects, Map' = Append(Map, v),
           \A i \in DOMAIN Map : Map[i] # v, Contains(AtWork, v), AtWork' = AtWork,
           Len(contexts') = 1, ctx'.map \in {0, 1}, Len(circular') = ctx'.map,
           (Shown("circular"))' = Shown("circular") \cup {<<v, Len(Map) + 1>>},
           (Shown("ref"))' = Shown("ref")
    PROVE  Marks'
<1> DEFINE n == Len(Map)
           map == Map
           new == Append(Map, v)
<1>1. n \in Nat /\ DOMAIN map = 1 .. n
  BY LenProperties
<1>2. /\ DOMAIN new = 1 .. n + 1 /\ new[n + 1] = v
      /\ \A i \in 1 .. n : new[i] = map[i]
  <2>1. new \in Seq(Objects) /\ Len(new) = n + 1 /\ new[n + 1] = v /\ \A i \in 1 .. n : new[i] = map[i]
    BY AppendProperties
  <2> QED
    BY <2>1, LenProperties
<1>3. /\ Numbers = {<<map[i], i>> : i \in 1 .. n} /\ Numbers' = {<<new[i], i>> : i \in 1 .. n + 1}
      /\ \A i, j \in 1 .. n : map[i] = map[j] => i = j
      /\ \A i \in 1 .. n : map[i] # v
      /\ Shown("circular") = Numbers
      /\ \A t \in Shown("ref") : t[2] # 0 => t \in Numbers
      /\ \A i \in 1 .. n : Contains(AtWork, map[i]) \/ <<map[i], i>> \in Shown("ref")
  <2>1. Numbers' = {<<Map'[i], i>> : i \in DOMAIN Map'}
    BY DEF Numbers
  <2>2. Numbers' = {<<new[i], i>> : i \in 1 .. n + 1}
    BY <1>2, <2>1, Zenon
  <2>3. Numbers = {<<map[i], i>> : i \in 1 .. n}
    BY <1>1, Zenon DEF Numbers
  <2> QED
    BY <1>1, <2>2, <2>3, Zenon DEF Marks
<1> HIDE DEF n, map, new
<1>4. \A i \in 1 .. n + 1 : i \in 1 .. n \/ i = n + 1
  BY <1>1
<1>5. n + 1 \in 1 .. n + 1 /\ \A i \in 1 .. n : i \in 1 .. n + 1
  BY <1>1
<1>6. Numbers' = Numbers \cup {<<v, n + 1>>}
  <2> DEFINE N == n + 1
  <2>1. ASSUME NEW i \in 1 .. N PROVE <<new[i], i>> \in Numbers \cup {<<v, N>>}
    <3>1. CASE i \in 1 .. n
      <4>1. <<map[i], i>> \in Numbers
        BY <1>3, <3>1
      <4> QED
        BY <1>2, <3>1, <4>1
    <3>2. CASE i = N
      BY <1>2, <3>2
    <3> QED
      BY <1>4, <3>1, <3>2
  <2>2. ASSUME NEW i \in 1 .. n PROVE <<map[i], i>> \in Numbers'
    <3>1. new[i] = map[i] /\ i \in 1 .. N
      BY <1>2, <1>5
    <3> QED
      BY <1>3, <3>1
  <2>3. <<v, N>> \in Numbers'
    <3>1. new[N] = v /\ N \in 1 .. N
      BY <1>2, <1>5
    <3> QED
      BY <1>3, <3>1
  <2>4. Numbers' = {<<new[i], i>> : i \in 1 .. N}
    BY <1>3
  <2> HIDE DEF N
  <2>5. Numbers' \subseteq Numbers \cup {<<v, N>>}
    BY <2>1, <2>4
  <2>6. Numbers \cup {<<v, N>>} \subseteq Numbers'
    BY <1>3, <2>2, <2>3
  <2> QED
    BY <2>5, <2>6 DEF N
<1>7. ASSUME NEW i \in 1 .. n + 1, NEW j \in 1 .. n + 1, new[i] = new[j] PROVE i = j
  BY <1>2, <1>3, <1>4, <1>7, Zenon
<1>8. ASSUME NEW i \in 1 .. n + 1 PROVE Contains(AtWork, new[i]) \/ <<new[i], i>> \in Shown("ref")
  BY <1>2, <1>3, <1>4, Zenon
<1>9. Map' = new /\ DOMAIN Map' = 1 .. n + 1
  BY <1>2 DEF new
<1>10. (Shown("circular"))' = Numbers'
  BY <1>3, <1>6 DEF n
<1>11. \A t \in (Shown("ref"))' : t[2] # 0 => t \in Numbers'
  BY <1>3, <1>6
<1>12. \A i \in DOMAIN Map' : (Contains(AtWork, Map[i]))' \/ <<Map'[i], i>> \in (Shown("ref"))'
  BY <1>8, <1>9, Zenon DEF Contains
<1>13. \A i, j \in DOMAIN Map' : Map'[i] = Map'[j] => i = j
  BY <1>7, <1>9, Zenon
<1> QED
  BY <1>10, <1>11, <1>12, <1>13, Zenon DEF Marks

\* The map, and the number of an object in it.
LEMMA MapIs ==
    ASSUME InspectAssumption, InspectInv, Marks
    PROVE  /\ Map \in Seq(Objects)
           /\ ctx.map # 0 => /\ ctx.map = 1 /\ circular[ctx.map] = Map
                             /\ circular \in Seq(Seq(Objects)) /\ Len(circular) = 1
<1>1. ctx.map \in {0, 1} /\ Len(circular) = ctx.map
  BY DEF Marks
<1>2. circular \in Seq(Seq(Objects))
  BY DEF InspectInv, InspectTypeOK
<1>3. CASE ctx.map = 0
  BY <1>3, EmptySeq DEF Map
<1>4. CASE ctx.map # 0
  <2>1. ctx.map = 1 /\ Map = circular[1] /\ circular[ctx.map] = Map
    BY <1>1, <1>4 DEF Map
  <2>2. circular[1] \in Seq(Objects)
    BY <1>1, <1>2, <2>1, ElementOfSeq
  <2> QED
    BY <1>1, <1>2, <2>1, <2>2
<1> QED
  BY <1>3, <1>4

LEMMA MarksCircular ==
    ASSUME InspectAssumption, InspectInv, Marks, NEW v \in Objects, Circular(v), seen = AtWork
    PROVE  Marks'
<1>1. InspectTypeOK /\ printed \in Seq(Token)
  BY DEF InspectInv, InspectTypeOK
<1>2. AtWork' = AtWork /\ Contains(AtWork, v)
  <2>1. Returned(frames) /\ Contains(seen, v)
    BY DEF Circular
  <2>2. Works(frames') = Works(frames)
    BY <1>1, <2>1, ReturnedKeeps DEF InspectTypeOK
  <2> QED
    BY <2>1, <2>2 DEF AtWork, Works, At
<1>3. /\ contexts \in Seq(Context) /\ Len(contexts) = 1 /\ contexts # <<>>
      /\ ctx = contexts[1] /\ ctx \in Context
  BY OneContext
<1>4. /\ Map \in Seq(Objects)
      /\ ctx.map # 0 => /\ ctx.map = 1 /\ circular[ctx.map] = Map
                        /\ circular \in Seq(Seq(Objects)) /\ Len(circular) = 1
  BY MapIs
<1>5. ASSUME NEW n \in Nat, Prints("circular", v, n)
      PROVE  /\ (Shown("circular"))' = Shown("circular") \cup {<<v, n>>}
             /\ (Shown("ref"))' = Shown("ref")
  <2>1. \A x : (Shown(x))' = IF x = "circular" THEN Shown(x) \cup {<<v, n>>} ELSE Shown(x)
    BY <1>1, <1>5, PrintsShows DEF Whats
  <2> QED
    BY <2>1
<1>6. CASE ctx.map = 0
  <2> DEFINE x == Len(circular) + 1
             c == contexts[1]
             d == [c EXCEPT !.map = x]
             m == <<v>>
  <2>1. Len(circular) = 0 /\ x = 1 /\ circular \in Seq(Seq(Objects)) /\ Map = <<>>
    BY <1>1, <1>6 DEF Marks, InspectTypeOK, Map
  <2>2. /\ circular' = Append(circular, m) /\ Prints("circular", v, 1)
        /\ contexts' = [contexts EXCEPT ![1] = d]
    BY <1>3, <1>6, Zenon DEF Circular
  <2>3. m \in Seq(Objects) /\ m = Append(<<>>, v)
    OBVIOUS
  <2> HIDE DEF m, x, c
  <2>4. d \in Context /\ d.map = 1
    BY <1>3, <2>1 DEF Context, c
  <2> HIDE DEF d
  <2>5. contexts' \in Seq(Context) /\ Len(contexts') = 1 /\ contexts'[1] = d
    BY <1>3, <2>2, <2>4, ExceptSeq
  <2>6. ctx'.map = 1
    <3>1. Last(contexts') = contexts'[1]
      BY <2>5, LastOf
    <3> QED
      BY <2>4, <2>5, <3>1 DEF ctx
  <2>7. Len(circular') = 1 /\ circular'[1] = m
    BY <2>1, <2>2, <2>3, AppendProperties
  <2>8. Map' = Append(Map, v)
    BY <2>1, <2>3, <2>6, <2>7 DEF Map
  <2>9. Len(Map) + 1 = 1 /\ \A i \in DOMAIN Map : Map[i] # v
    BY <2>1
  <2>10. /\ (Shown("circular"))' = Shown("circular") \cup {<<v, Len(Map) + 1>>}
         /\ (Shown("ref"))' = Shown("ref")
    BY <1>5, <2>2, <2>9
  <2> QED
    BY <1>2, <1>4, <2>5, <2>6, <2>7, <2>8, <2>9, <2>10, MarksAdd
<1>7. CASE ctx.map # 0
  <2> DEFINE known == Index(Map, v)
             a == Append(Map, v)
  <2>1. /\ circular' = IF known # 0 THEN circular ELSE [circular EXCEPT ![1] = Append(@, v)]
        /\ Prints("circular", v, IF known # 0 THEN known ELSE Len(Map) + 1)
        /\ contexts' = contexts
    BY <1>4, <1>7, Zenon DEF Circular
  <2>2. /\ known \in Nat /\ (known # 0 => known \in DOMAIN Map /\ Map[known] = v)
        /\ (known = 0 => \A i \in DOMAIN Map : Map[i] # v)
    BY <1>4, IndexIs
  <2>3. ctx' = ctx /\ Len(contexts') = 1
    BY <1>3, <2>1 DEF ctx
  <2> HIDE DEF known
  <2>4. CASE known # 0
    <3>1. circular' = circular /\ Prints("circular", v, known)
      BY <2>1, <2>4
    <3>2. <<v, known>> \in Numbers
      BY <2>2, <2>4 DEF Numbers
    <3>3. (Shown("circular"))' = Shown("circular") /\ (Shown("ref"))' = Shown("ref")
      <4>1. Shown("circular") = Numbers
        BY DEF Marks
      <4> QED
        BY <1>5, <2>2, <3>1, <3>2, <4>1
    <3> QED
      BY <1>2, <2>3, <3>1, <3>3, MarksMove
  <2>5. CASE known = 0
    <3>1. circular' = [circular EXCEPT ![1] = a] /\ Prints("circular", v, Len(Map) + 1)
      <4>1. circular[1] = Map
        BY <1>4, <1>7
      <4>2. circular' = [circular EXCEPT ![1] = Append(@, v)]
        BY <2>1, <2>5
      <4>3. circular' = [circular EXCEPT ![1] = a]
        BY <4>1, <4>2, Zenon
      <4> QED
        BY <2>1, <2>5, <4>3
    <3>2. a \in Seq(Objects) /\ Len(Map) + 1 \in Nat
      BY <1>4, AppendProperties, LenProperties
    <3>3. Len(circular') = 1 /\ circular'[1] = a
      <4> HIDE DEF a
      <4> QED
        BY <1>4, <1>7, <3>1, <3>2, ExceptSeq
    <3>4. Map' = Append(Map, v)
      BY <1>4, <1>7, <2>3, <3>3 DEF Map
    <3>5. /\ (Shown("circular"))' = Shown("circular") \cup {<<v, Len(Map) + 1>>}
          /\ (Shown("ref"))' = Shown("ref")
      BY <1>5, <3>1, <3>2
    <3> QED
      BY <1>2, <1>4, <1>7, <2>2, <2>3, <2>5, <3>3, <3>4, <3>5, MarksAdd
  <2> QED
    BY <2>4, <2>5
<1> QED
  BY <1>6, <1>7

\* An object that has a number gets its mark when it is left.
LEMMA MarksLeave ==
    ASSUME InspectAssumption, InspectInv, Marks, Leave
    PROVE  Marks'
<1> DEFINE v == Formatter.value
           n == InMap
<1>1. Sound /\ InspectTypeOK /\ printed \in Seq(Token)
  BY InvIsSound DEF InspectInv, InspectTypeOK
<1>2. frames # <<>> /\ contexts' = Lowered(Inner) /\ circular' = circular
  BY DEF Leave, Inner
<1>3. /\ contexts \in Seq(Context) /\ contexts # <<>> /\ Len(contexts) = 1 /\ ctx = contexts[1]
      /\ ~Formatter.isProxy /\ Inner = contexts
  BY <1>2, OneContext
<1>4. Formatter = frames[Len(frames)] /\ v \in Objects
  BY <1>1, <1>2, InnerIs
<1>5. n \in Nat /\ Prints("ref", v, n)
  BY <1>1, <1>3, InMapIs DEF Leave
<1>6. Len(contexts') = 1 /\ ctx'.map = ctx.map
  <2>1. Moves(contexts', contexts, Down) /\ SameMaps(contexts', contexts)
    BY <1>2, <1>3, LoweredMoves
  <2> QED
    BY <1>3, <2>1, OneContextStays
<1>7. /\ Map \in Seq(Objects)
      /\ ctx.map # 0 => ctx.map = 1 /\ circular[ctx.map] = Map
  BY MapIs
<1>8. /\ n # 0 => n \in DOMAIN Map /\ Map[n] = v
      /\ n = 0 => \A i \in DOMAIN Map : Map[i] # v
  <2>1. CASE ctx.map = 0
    BY <2>1 DEF InMap, Map
  <2>2. CASE ctx.map # 0
    <3>1. n = Index(Map, v)
      BY <1>7, <2>2 DEF InMap
    <3> HIDE DEF n, v
    <3> QED
      BY <1>7, <3>1, IndexIs
  <2> QED
    BY <2>1, <2>2
<1> HIDE DEF n, v
<1>9. /\ (Shown("circular"))' = Shown("circular")
      /\ (Shown("ref"))' = Shown("ref") \cup {<<v, n>>}
  <2>1. \A x : (Shown(x))' = IF x = "ref" THEN Shown(x) \cup {<<v, n>>} ELSE Shown(x)
    BY <1>1, <1>4, <1>5, PrintsShows DEF Whats
  <2> QED
    BY <2>1
<1>10. ASSUME NEW t \in (Shown("ref"))', t[2] # 0 PROVE t \in Shown("ref") \/ t \in Numbers
  <2>1. CASE t = <<v, n>>
    <3>1. n # 0
      BY <1>10, <2>1
    <3> QED
      BY <1>8, <2>1, <3>1 DEF Numbers
  <2> QED
    BY <1>9, <1>10, <2>1
<1>11. ASSUME NEW i \in DOMAIN Map, Contains(AtWork, Map[i])
       PROVE  Contains(AtWork', Map[i]) \/ <<Map[i], i>> \in (Shown("ref"))'
  <2> DEFINE m == Len(AtWork)
             w == AtWork
  <2>1. w \in Seq(Int) /\ m = Len(frames) /\ w = Works(frames)
    BY <1>1, AtWorkIs
  <2>2. m \in Nat \ {0} /\ w # <<>>
    BY <1>1, <1>2, <2>1, EmptySeq, LenProperties DEF InspectTypeOK
  <2>3. w[m] = v
    <3>1. w[m] = At(frames[m])
      BY <1>1, <2>1, <2>2, WorksAre DEF InspectTypeOK
    <3> QED
      BY <1>3, <1>4, <2>1, <3>1 DEF At, v
  <2>4. AtWork' = Front(w)
    <3>1. Front(frames) \in Seq(Frame) /\ Returned(Front(frames)) /\ frames \in Seq(Frame)
      BY <1>1, <1>2, InnerIs DEF Leave, InspectTypeOK
    <3>2. Works(frames') = Works(Front(frames)) /\ Works(Front(frames)) = Front(Works(frames))
      BY <1>2, <3>1, ReturnedKeeps, WorksPop
    <3>3. AtWork' = Works(frames')
      BY DEF AtWork, Works, At
    <3> QED
      BY <2>1, <3>2, <3>3
  <2>5. PICK k \in 1 .. m : w[k] = Map[i]
    BY <1>11 DEF Contains
  <2> HIDE DEF w, m
  <2>6. CASE k = m
    <3>1. Map[i] = v
      BY <2>3, <2>5, <2>6
    <3>2. n # 0 /\ Map[n] = v /\ n \in DOMAIN Map
      BY <1>8, <3>1
    <3>3. i = n
      BY <3>1, <3>2 DEF Marks
    <3> QED
      BY <1>9, <3>1, <3>3
  <2>7. CASE k # m
    <3>1. /\ Front(w) \in Seq(Int) /\ Len(Front(w)) = m - 1
          /\ \A j \in 1 .. m - 1 : Front(w)[j] = w[j]
      BY <2>1, <2>2, FrontIs DEF m, w
    <3>2. k \in 1 .. m - 1
      BY <2>2, <2>7
    <3>3. k \in DOMAIN Front(w) /\ Front(w)[k] = Map[i]
      BY <2>5, <3>1, <3>2, LenProperties
    <3>4. Contains(Front(w), Map[i])
      BY <2>5, <3>1, <3>2, <3>3 DEF Contains
    <3> QED
      BY <2>4, <3>4
  <2> QED
    BY <2>6, <2>7
<1> QED
  BY <1>2, <1>6, <1>9, <1>10, <1>11, MarksMove

LEMMA MarksKeeps ==
    ASSUME InspectAssumption, InspectInv, InspectNext, StepIs, ~Failed', NoClass'
    PROVE  Marks'
<1>1. kind' = kind
  BY DEF InspectNext, Custom, Throws, Nested, Circular, Brief, Enter, Leave
<1>2. NoClass
  BY <1>1 DEF NoClass
<1>3. ~Failed /\ seen = AtWork /\ Marks
  BY <1>2 DEF StepIs, InspectInv
<1>4. seen' = AtWork'
  BY WalkKeeps
<1>5. ASSUME NEW v \in Objects PROVE ~Nested(v)
  BY <1>2 DEF Nested, NoClass
<1>6. CASE Leave
  BY <1>3, <1>6, MarksLeave
<1>7. ASSUME NEW v \in Objects, Custom(v) \/ Brief(v) PROVE Marks'
  BY <1>3, <1>7, MarksPrinted
<1>8. ASSUME NEW v \in Objects, Throws(v) PROVE Marks'
  BY <1>3, <1>8, MarksThrown
<1>9. ASSUME NEW v \in Objects, Circular(v) PROVE Marks'
  BY <1>3, <1>9, MarksCircular
<1>10. ASSUME NEW v \in Objects, Enter(v) PROVE Marks'
  BY <1>3, <1>4, <1>10, MarksEnter
<1> QED
  BY <1>5, <1>6, <1>7, <1>8, <1>9, <1>10 DEF InspectNext

LEMMA InspectInvInit == ASSUME InspectAssumption, InspectInit PROVE InspectInv
<1> DEFINE c == [indentationLvl |-> 0, map |-> 0]
<1>1. /\ frames = <<>> /\ circular = <<>> /\ seen = <<>> /\ printed = <<>> /\ result = "none"
      /\ contexts = <<c>>
  BY DEF InspectInit
<1>2. c \in Context /\ c.indentationLvl = 0 /\ c.map = 0
  BY DEF Context
<1> HIDE DEF c
<1>3. contexts \in Seq(Context) /\ Len(contexts) = 1 /\ contexts[1] = c /\ ctx = c
  <2>1. contexts \in Seq(Context) /\ Len(contexts) = 1 /\ contexts[1] = c
    BY <1>1, <1>2
  <2> QED
    BY <2>1, LastOf DEF ctx
<1>4. InspectTypeOK
  BY <1>1, <1>2, <1>3 DEF InspectTypeOK
<1>5. AtWork = <<>>
  <2>1. AtWork \in Seq(Int) /\ Len(AtWork) = Len(frames)
    BY <1>4, AtWorkIs
  <2> QED
    BY <1>1, <2>1, EmptySeq
<1>6. \E e : Embeds(e, AtWork, seen)
  <2> DEFINE e == [i \in 1 .. 0 |-> i]
  <2>1. Embeds(e, <<>>, <<>>)
    BY DEF Embeds
  <2> QED
    BY <1>1, <1>5, <2>1
<1>7. Distinct(AtWork)
  BY <1>5 DEF Distinct
<1>8. Nests(<<>>) /\ Levels(<<>>)
  <2>1. Nests(<<>>)
    BY <1>1, <1>3 DEF Nests
  <2>2. Levels(<<>>)
    BY <1>1, <1>2, <1>3 DEF Levels
  <2> QED
    BY <2>1, <2>2
<1>9. \A x : Shown(x) = {}
  BY <1>1 DEF Shown, ToSet
<1>10. Marks
  <2>1. Map = <<>>
    BY <1>2, <1>3 DEF Map
  <2>2. Numbers = {} /\ DOMAIN Map = {}
    BY <2>1 DEF Numbers
  <2> QED
    BY <1>1, <1>2, <1>3, <1>9, <2>2 DEF Marks
<1>11. CircularAtWork
  BY <1>1 DEF CircularAtWork
<1> QED
  BY <1>1, <1>4, <1>5, <1>6, <1>7, <1>8, <1>10, <1>11 DEF InspectInv

LEMMA InspectInvNext ==
    ASSUME InspectAssumption, InspectInv, [InspectNext]_inspectVars PROVE InspectInv'
<1>1. CASE InspectNext
  <2>1. Sound /\ StepIs
    BY <1>1, InvIsSound, InspectStep
  <2>2. /\ \E e : (Embeds(e, AtWork, seen))'
        /\ (Distinct(AtWork))'
        /\ \E q : (Nests(q))' /\ (~Failed' => (Levels(q))')
        /\ ~Failed' => seen' = AtWork'
    BY <2>1, WalkKeeps
  <2>3. ~Failed' => CircularAtWork'
    BY <1>1, <2>1, CircularKeeps
  <2>4. ~Failed' /\ NoClass' => Marks'
    BY <1>1, <2>1, MarksKeeps
  <2>5. InspectTypeOK'
    BY <2>1 DEF StepIs
  <2> QED
    BY <2>2, <2>3, <2>4, <2>5 DEF InspectInv
<1>2. CASE UNCHANGED inspectVars
  <2>1. AtWork' = AtWork /\ ctx' = ctx /\ Failed' = Failed /\ \A x : (Shown(x))' = Shown(x)
    BY <1>2 DEF inspectVars, AtWork, ctx, Failed, Shown
  <2>2. InspectTypeOK'
    BY <1>2 DEF inspectVars, InspectTypeOK, InspectInv
  <2>3. \E e : (Embeds(e, AtWork, seen))'
    BY <1>2, <2>1 DEF inspectVars, Embeds, InspectInv
  <2>4. (Distinct(AtWork))'
    BY <2>1 DEF Distinct, InspectInv
  <2>5. \E q : (Nests(q))' /\ (~Failed' => (Levels(q))')
    <3>1. PICK q : Nests(q) /\ (~Failed => Levels(q))
      BY DEF InspectInv
    <3>2. (Nests(q))'
      BY <1>2, <3>1 DEF inspectVars, Nests
    <3>3. ~Failed' => (Levels(q))'
      BY <1>2, <2>1, <3>1 DEF inspectVars, Levels
    <3> QED
      BY <3>2, <3>3
  <2>6. ~Failed' => seen' = AtWork' /\ CircularAtWork'
    BY <1>2, <2>1 DEF inspectVars, CircularAtWork, InspectInv
  <2>7. ASSUME ~Failed', NoClass' PROVE Marks'
    <3>1. Marks
      BY <1>2, <2>1, <2>7 DEF inspectVars, NoClass, InspectInv
    <3>2. Len(contexts') = 1 /\ circular' = circular
      BY <1>2, <3>1 DEF inspectVars, Marks
    <3> QED
      BY <2>1, <3>1, <3>2, MarksPlain
  <2> QED
    BY <2>2, <2>3, <2>4, <2>5, <2>6, <2>7 DEF InspectInv
<1> QED
  BY <1>1, <1>2

LEMMA MarksAreExact ==
    ASSUME InspectAssumption, InspectInv, Marks, frames = <<>>
    PROVE  LET marks == {t \in Shown("ref") : t[2] # 0} IN
           /\ Shown("circular") = marks
           /\ \A s, t \in marks : s[2] = t[2] => s = t
<1> DEFINE marks == {t \in Shown("ref") : t[2] # 0}
<1>1. Shown("circular") = Numbers
  BY DEF Marks
<1>2. \A t \in marks : t \in Numbers
  BY DEF Marks
<1>3. AtWork = <<>>
  BY AtWorkIs, EmptySeq DEF InspectInv
<1>4. Map \in Seq(Objects) /\ DOMAIN Map = 1 .. Len(Map)
  BY MapIs, LenProperties
<1>5. ASSUME NEW i \in DOMAIN Map PROVE <<Map[i], i>> \in marks
  <2>1. ~Contains(AtWork, Map[i])
    BY <1>3 DEF Contains
  <2>2. <<Map[i], i>> \in Shown("ref")
    BY <2>1 DEF Marks
  <2>3. i # 0
    BY <1>4, LenProperties
  <2> QED
    BY <2>2, <2>3
<1>6. Numbers = marks
  <2>1. Numbers \subseteq marks
    BY <1>5 DEF Numbers
  <2> QED
    BY <1>2, <2>1
<1>7. \A s, t \in Numbers : s[2] = t[2] => s = t
  BY DEF Numbers
<1> HIDE DEF marks
<1>8. Shown("circular") = marks /\ \A s, t \in marks : s[2] = t[2] => s = t
  BY <1>1, <1>6, <1>7
<1> QED
  BY <1>8 DEF marks

LEMMA InspectInvIsExact == ASSUME InspectAssumption, InspectInv PROVE InspectionIsExact
<1>1. InspectTypeOK /\ AtWork \in Seq(Int) /\ Len(AtWork) = Len(frames)
  BY AtWorkIs DEF InspectInv
<1>2. \A i, j \in DOMAIN AtWork : AtWork[i] = AtWork[j] /\ AtWork[i] > 0 => i = j
  BY DEF InspectInv, Distinct
<1>3. ASSUME NEW i \in DOMAIN AtWork PROVE Contains(seen, AtWork[i])
  <2>1. PICK e : Embeds(e, AtWork, seen)
    BY DEF InspectInv
  <2>2. i \in 1 .. Len(AtWork)
    BY <1>1, LenProperties
  <2>3. e[i] \in 1 .. Len(seen) /\ seen[e[i]] = AtWork[i]
    BY <2>1, <2>2 DEF Embeds
  <2> QED
    BY <2>3 DEF Contains
<1>4. ASSUME ~Failed, frames # <<>> PROVE ctx.indentationLvl = 2 * (Len(frames) - 1)
  BY <1>4 DEF InspectInv, Levels
<1>5. ~Failed => seen = AtWork /\ CircularAtWork
  BY DEF InspectInv
<1>6. ASSUME result = "string", ~Failed, \A v \in Objects : kind[v] # "class"
      PROVE  LET marks == {t \in Shown("ref") : t[2] # 0} IN
             /\ Shown("circular") = marks
             /\ \A s, t \in marks : s[2] = t[2] => s = t
  <2>1. frames = <<>>
    BY <1>1, <1>6 DEF InspectTypeOK
  <2>2. Marks
    BY <1>6 DEF InspectInv, NoClass
  <2> QED
    BY <2>1, <2>2, MarksAreExact
<1> QED
  BY <1>2, <1>3, <1>4, <1>5, <1>6, Zenon DEF InspectionIsExact, CircularAtWork

\* However the values refer to each other and whatever their inspectors do, inspect
\* keeps track of what it is inside of: no object of the user is gone down through
\* twice, and as long as no inspector throws the references, the marks and the
\* indentation are those of the values (formatValue, formatRaw and formatProperty).
THEOREM InspectionKeepsTrack == InspectAssumption /\ InspectSpec => []InspectionIsExact
<1> SUFFICES ASSUME InspectAssumption PROVE InspectSpec => []InspectionIsExact
  OBVIOUS
<1>1. InspectInit => InspectInv
  BY InspectInvInit
<1>2. InspectInv /\ [InspectNext]_inspectVars => InspectInv'
  BY InspectInvNext
<1>3. InspectInv => InspectionIsExact
  BY InspectInvIsExact
<1> QED
  BY <1>1, <1>2, <1>3, PTL DEF InspectSpec
=============================================================================
