-------------------------- MODULE FusionBridge_proofs --------------------------
(***************************************************************************)
(* Proofs about FusionBridge for any callers and bounds: each direction is *)
(* an ordered link, towards JavaScript one for each kind of message;       *)
(* nothing is lost while the child runs, and no dropped bridge leaves a    *)
(* child behind.                                                           *)
(***************************************************************************)
EXTENDS FusionBridge, SequenceLemmas

\* The lifecycle part: is_shutdown never answers true for a child that runs
\* and was not asked to stop.
StopInv ==
    /\ cancelToken => stopping \/ L!Exited
    /\ L!NoOrphanChild

NumberedUpTo(n) == {m \in Message : m.id <= n}

\* The types of this direction; only what was sent can have failed.
UpTypes ==
    /\ jsSent \in Seq(Message) /\ hostGot \in Seq(Message)
    /\ up \in Seq(Message) /\ outQ \in Seq(Message)
    /\ Len(jsSent) <= MaxUp
    /\ unsent \subseteq NumberedUpTo(Len(jsSent))

\* The numbers of the messages rise along s, and none is above n.
Numbered(s, n) ==
    \A i \in 1 .. Len(s) :
        /\ s[i].id <= n
        /\ \A j \in 1 .. Len(s) : i < j => s[i].id < s[j].id

\* What was forwarded is the beginning of what was accepted; while the child
\* runs, msg_rx holds the rest.  No message is sent twice, so the one whose send
\* fails is taken out of Accepted and no other is.
UpInv ==
    /\ UpTypes
    /\ Len(Accepted) <= Len(jsSent) /\ Numbered(Accepted, Len(jsSent))
    /\ \E rest \in Seq(Message) :
          /\ Accepted = (hostGot \o up) \o rest
          /\ ~L!Exited => rest = outQ

-----------------------------------------------------------------------------
\* Nothing is stopping when the bridge starts to connect.
LEMMA InitStop == Init => StopInv
BY DEF Init, L!Init, StopInv, L!NoOrphanChild, L!Exited

\* Only Drop leaves the host without a bridge, and it stops the child first.
LEMMA NextStop == StopInv /\ [Next]_vars => StopInv'
<1> SUFFICES ASSUME StopInv, [Next]_vars PROVE StopInv'
  OBVIOUS
<1> USE DEF StopInv, L!NoOrphanChild, L!Exited
<1>1. CASE UNCHANGED lifecycle
  BY <1>1 DEF lifecycle
<1>2. CASE LoopModuleDone \/ LoopCancelled \/ Dies
  BY <1>2 DEF LoopModuleDone, LoopCancelled, Dies, L!LoopModuleDone, L!LoopCancelled,
              L!Dies, L!EndLoop, L!hostVars
<1>3. CASE LoadEnds \/ StartCallback
  BY <1>3 DEF LoadEnds, StartCallback, L!LoadDone, L!LoadFails, L!LoadCancelled,
              L!Load, L!StartCallback, L!hostVars
<1>4. CASE Control
  BY <1>4 DEF Control, L!SetCallback, L!Handshake, L!HeapLimit, L!ModuleSettles,
              L!Connected, L!ConnectFails, L!Shutdown, L!ShutdownReturns,
              L!CancelToken, L!hostVars, L!childVars
<1>5. CASE DropBridge
  BY <1>5 DEF DropBridge, L!DropBridge, L!childVars
<1> QED
  BY <1>1, <1>2, <1>3, <1>4, <1>5
  DEF Next, vars, HostSend, HostReceive, RouteFromHost, Route, ForwardToHost,
      Forward, ForwardFails, JsSend, JsReceiveText, JsReceiveBinary

\* A dropped bridge's child is stopped or has ended, although Drop relies on
\* is_shutdown, which the executor updates later.
THEOREM NoOrphan == Spec => []NoOrphanChild
<1>1. StopInv => NoOrphanChild
  BY DEF StopInv, NoOrphanChild
<1> QED
  BY <1>1, InitStop, NextStop, PTL DEF Spec

-----------------------------------------------------------------------------
(* From JavaScript to the host.                                             *)

\* Nothing has been sent when the bridge starts to connect.
LEMMA InitUp == Init => UpInv
<1> SUFFICES ASSUME Init PROVE UpInv
  OBVIOUS
<1>1. <<>> \in Seq(Message) /\ <<>> \o <<>> = <<>>
  BY EmptySeq, ConcatEmptySeq
<1>2. Accepted = <<>> /\ (hostGot \o up) \o <<>> = <<>> /\ outQ = <<>>
  BY <1>1, SelectEmpty DEF Init, Accepted
<1>3. Len(jsSent) = 0 /\ Len(Accepted) = 0 /\ 0 <= MaxUp
  BY <1>2, EmptySeq, BoundsAssumption DEF Init
<1>4. Numbered(Accepted, Len(jsSent))
  BY <1>3 DEF Numbered
<1>5. /\ jsSent = <<>> /\ hostGot = <<>> /\ up = <<>> /\ outQ = <<>>
      /\ unsent \subseteq NumberedUpTo(Len(jsSent))
  BY DEF Init
<1>6. UpTypes
  BY <1>1, <1>3, <1>5 DEF UpTypes
<1>7. Accepted = (hostGot \o up) \o <<>> /\ Len(Accepted) <= Len(jsSent)
  BY <1>2, <1>3
<1> QED
  BY <1>1, <1>2, <1>4, <1>6, <1>7 DEF UpInv

\* Steps that touch none of the sequences of this direction keep it, as long as
\* an ended child stays ended.
LEMMA UpUntouched ==
    ASSUME UpInv, UNCHANGED <<jsSent, hostGot, up, unsent>>,
           outQ' \in Seq(Message),
           ~L!Exited' => ~L!Exited /\ outQ' = outQ
    PROVE  UpInv'
BY DEF UpInv, UpTypes, Accepted

\* The accepted messages are a sequence of messages.
LEMMA AcceptedType ==
    ASSUME UpInv
    PROVE  Accepted \in Seq(Message) /\ Len(Accepted) \in Nat /\ Len(jsSent) \in Nat
BY SelectInSeqOf, LenProperties DEF UpInv, UpTypes, Accepted

\* A new message gets the next number and is not among the failed ones.
LEMMA SentOneMore ==
    ASSUME UpInv, NEW m \in Message, m.id = Len(jsSent) + 1,
           jsSent' = Append(jsSent, m), UNCHANGED unsent
    PROVE  /\ jsSent' \in Seq(Message) /\ Len(jsSent') = Len(jsSent) + 1
           /\ Accepted' = Append(Accepted, m)
           /\ Len(Accepted') <= Len(jsSent') /\ Numbered(Accepted', Len(jsSent'))
           /\ unsent' \subseteq NumberedUpTo(Len(jsSent'))
<1> DEFINE a == Accepted
<1>1. /\ a \in Seq(Message) /\ Len(a) \in Nat /\ Len(jsSent) \in Nat
      /\ jsSent \in Seq(Message) /\ \A i \in 1 .. Len(a) : a[i] \in Message
  BY AcceptedType, ElementOfSeq DEF UpInv, UpTypes
<1>2. jsSent' \in Seq(Message) /\ Len(jsSent') = Len(jsSent) + 1
  BY <1>1, AppendProperties
<1>3. m \in Message \ unsent
  BY <1>1 DEF UpInv, UpTypes, NumberedUpTo
<1>4. Accepted' = Append(a, m)
  BY <1>1, <1>3, SelectAppend DEF Accepted
<1>5. /\ Len(a) <= Len(jsSent) /\ Numbered(a, Len(jsSent))
      /\ unsent \subseteq NumberedUpTo(Len(jsSent))
  BY DEF UpInv, UpTypes
<1> HIDE DEF a
<1>6. /\ Len(Append(a, m)) = Len(a) + 1
      /\ \A i \in 1 .. Len(a) : Append(a, m)[i] = a[i]
      /\ Append(a, m)[Len(a) + 1] = m
  BY <1>1, AppendProperties
<1>7. \A x \in Message : x.id \in Nat
  BY BoundsAssumption DEF Message
<1>8. unsent' \subseteq NumberedUpTo(Len(jsSent'))
  BY <1>1, <1>2, <1>5, <1>7 DEF NumberedUpTo
<1>9. Numbered(Append(a, m), Len(jsSent) + 1)
  <2> SUFFICES ASSUME NEW i \in 1 .. Len(a) + 1
               PROVE  /\ Append(a, m)[i].id <= Len(jsSent) + 1
                      /\ \A j \in 1 .. Len(a) + 1 :
                            i < j => Append(a, m)[i].id < Append(a, m)[j].id
    BY <1>6 DEF Numbered
  <2>1. CASE i = Len(a) + 1
    BY <1>1, <1>6, <2>1
  <2>2. CASE i # Len(a) + 1
    <3>1. i \in 1 .. Len(a)
      BY <1>1, <2>2
    <3>2. /\ a[i].id <= Len(jsSent) /\ a[i].id \in Nat
          /\ \A j \in 1 .. Len(a) : i < j => a[i].id < a[j].id
      BY <1>1, <1>5, <1>7, <3>1 DEF Numbered
    <3>3. \A j \in 1 .. Len(a) + 1 : j \in 1 .. Len(a) \/ j = Len(a) + 1
      BY <1>1
    <3> QED
      BY <1>1, <1>6, <3>1, <3>2, <3>3
  <2> QED
    BY <2>1, <2>2
<1>10. Len(Accepted') <= Len(jsSent')
  <2>1. Len(Accepted') = Len(a) + 1
    BY <1>4, <1>6
  <2> QED
    BY <1>1, <1>2, <1>5, <2>1
<1>11. Numbered(Accepted', Len(jsSent'))
  BY <1>2, <1>4, <1>9, Zenon
<1> QED
  BY <1>2, <1>4, <1>8, <1>10, <1>11 DEF a

\* Of numbered messages only one is the head of q: without it, those before it
\* and those after it are left.
LEMMA HeadTakenOut ==
    ASSUME NEW d \in Seq(Message), NEW q \in Seq(Message), q # <<>>,
           NEW n \in Nat, Numbered(d \o q, n)
    PROVE  /\ Select(d \o q, Message \ {Head(q)}) = d \o Tail(q)
           /\ Numbered(d \o Tail(q), n)
           /\ Len(d) \in Nat /\ Len(d \o Tail(q)) = Len(d \o q) - 1
           /\ Len(d) + 1 \in 1 .. Len(d \o q)
           /\ d \o Tail(q) = SubSeq(d \o q, 1, Len(d))
                               \o SubSeq(d \o q, Len(d) + 2, Len(d \o q))
<1> DEFINE s == d \o q
           h == Head(q)
           t == Tail(q)
           r == d \o t
           T == Message \ {h}
           l == Len(d)
<1>1. h \in Message /\ t \in Seq(Message) /\ q = <<h>> \o t
  BY SplitHead
<1>2. /\ Len(t) = Len(q) - 1 /\ \A i \in 1 .. Len(t) : t[i] = q[i + 1]
      /\ l \in Nat /\ Len(q) \in Nat \ {0} /\ h = q[1]
      /\ \A i \in 1 .. l : d[i] \in Message
      /\ \A i \in 1 .. Len(t) : t[i] \in Message
  BY <1>1, HeadTailProperties, LenProperties, EmptySeq, ElementOfSeq
<1>3. /\ s \in Seq(Message) /\ Len(s) = l + Len(q)
      /\ \A i \in 1 .. l + Len(q) : s[i] = IF i <= l THEN d[i] ELSE q[i - l]
  BY ConcatProperties
<1>4. /\ r \in Seq(Message) /\ Len(r) = l + Len(t)
      /\ \A i \in 1 .. l + Len(t) : r[i] = IF i <= l THEN d[i] ELSE t[i - l]
  BY <1>1, ConcatProperties
<1> HIDE DEF s, r, h, t, l
<1>5. /\ Len(r) = Len(s) - 1 /\ Len(s) \in Nat /\ l + 1 \in 1 .. Len(s)
      /\ s[l + 1] = h /\ Len(r) \in Nat
  BY <1>2, <1>3, <1>4
<1>6. \A i \in 1 .. Len(r) : r[i] = IF i <= l THEN s[i] ELSE s[i + 1]
  <2> TAKE i \in 1 .. Len(r)
  <2>1. CASE i <= l
    BY <1>2, <1>3, <1>4, <1>5, <2>1
  <2>2. CASE i > l
    <3>1. i \in 1 .. l + Len(t) /\ i \in Nat /\ Len(t) \in Nat
      BY <1>2, <1>4, <1>5
    <3>2. i - l \in 1 .. Len(t)
      BY <1>2, <2>2, <3>1
    <3>3. r[i] = t[i - l]
      BY <1>2, <1>4, <2>2, <3>1
    <3>4. t[i - l] = q[i - l + 1]
      BY <1>2, <3>2
    <3> DEFINE k == i + 1
    <3>5. k \in 1 .. l + Len(q) /\ ~(k <= l) /\ k - l = i - l + 1
      BY <1>2, <2>2, <3>1
    <3>6. s[k] = q[k - l]
      <4> HIDE DEF k
      <4> QED
        BY <1>3, <3>5
    <3>7. s[k] = r[i] /\ ~(i <= l)
      BY <1>2, <2>2, <3>1, <3>3, <3>4, <3>5, <3>6
    <3> QED
      BY <3>7
  <2> QED
    BY <1>2, <2>1, <2>2
<1>7. /\ \A i \in 1 .. Len(s) : s[i].id <= n
      /\ \A i, j \in 1 .. Len(s) : i < j => s[i].id < s[j].id
  BY DEF Numbered, s
<1>8. Numbered(r, n)
  <2> DEFINE at(i) == IF i <= l THEN i ELSE i + 1
  <2>1. \A i \in 1 .. Len(r) : at(i) \in 1 .. Len(s) /\ r[i] = s[at(i)]
    <3> TAKE i \in 1 .. Len(r)
    <3>1. at(i) \in 1 .. Len(s)
      BY <1>2, <1>5
    <3>2. r[i] = s[at(i)]
      <4>1. CASE i <= l
        BY <1>6, <4>1
      <4>2. CASE ~(i <= l)
        BY <1>6, <4>2
      <4> QED
        BY <4>1, <4>2
    <3> QED
      BY <3>1, <3>2
  <2>2. \A i, j \in 1 .. Len(r) : i < j => at(i) < at(j)
    BY <1>2, <1>5
  <2> HIDE DEF at
  <2>3. \A i \in 1 .. Len(r) : r[i].id <= n
    BY <1>7, <2>1
  <2>4. \A i, j \in 1 .. Len(r) : i < j => r[i].id < r[j].id
    <3> TAKE i, j \in 1 .. Len(r)
    <3> HAVE i < j
    <3>1. s[at(i)].id < s[at(j)].id
      BY <1>7, <2>1, <2>2
    <3> QED
      BY <2>1, <3>1
  <2> QED
    BY <2>3, <2>4 DEF Numbered
<1>9. r = SubSeq(s, 1, l) \o SubSeq(s, l + 2, Len(s))
  <2> DEFINE k == l + 1
  <2>1. k \in 1 .. Len(s) /\ k - 1 = l /\ k + 1 = l + 2
    BY <1>2, <1>5
  <2> HIDE DEF k
  <2>2. /\ RemoveAt(s, k) \in Seq(Message)
        /\ Len(RemoveAt(s, k)) = Len(s) - 1
        /\ \A i \in 1 .. Len(s) - 1 :
              RemoveAt(s, k)[i] = IF i < k THEN s[i] ELSE s[i + 1]
    BY <1>3, <2>1, RemoveAtProperties
  <2>3. r = RemoveAt(s, k)
    <3>1. \A i \in 1 .. Len(r) : r[i] = RemoveAt(s, k)[i]
      BY <1>2, <1>5, <1>6, <2>1, <2>2
    <3> QED
      BY <1>4, <1>5, <2>2, <3>1, SeqEqual
  <2>4. RemoveAt(s, k) = SubSeq(s, 1, k - 1) \o SubSeq(s, k + 1, Len(s))
    BY DEF RemoveAt
  <2> QED
    BY <2>1, <2>3, <2>4
<1>10. Select(s, T) = r
  <2>1. h.id \in Nat
    BY <1>1, BoundsAssumption DEF Message, h
  <2>2. ASSUME NEW i \in 1 .. Len(s), i # l + 1 PROVE s[i] # h
    <3>1. CASE i < l + 1
      <4>1. s[i].id < s[l + 1].id
        BY <1>5, <1>7, <3>1
      <4> QED
        BY <1>5, <2>1, <4>1
    <3>2. CASE l + 1 < i
      <4>1. s[l + 1].id < s[i].id
        BY <1>5, <1>7, <3>2
      <4> QED
        BY <1>5, <2>1, <4>1
    <3> QED
      BY <1>2, <1>5, <2>2, <3>1, <3>2
  <2>3. \A i \in 1 .. l : d[i] \in T
    <3> TAKE i \in 1 .. l
    <3>1. i \in 1 .. Len(s) /\ i # l + 1 /\ i \in 1 .. l + Len(q) /\ i <= l
      BY <1>2, <1>3
    <3>2. s[i] = d[i] /\ d[i] \in Message
      BY <1>2, <1>3, <3>1
    <3> QED
      BY <2>2, <3>1, <3>2
  <2>4. \A i \in 1 .. Len(t) : t[i] \in T
    <3> TAKE i \in 1 .. Len(t)
    <3> DEFINE k == l + 1 + i
    <3>1. /\ k \in 1 .. Len(s) /\ k \in 1 .. l + Len(q) /\ ~(k <= l) /\ k # l + 1
          /\ k - l = i + 1 /\ t[i] = q[i + 1] /\ t[i] \in Message
      BY <1>2, <1>3
    <3> HIDE DEF k
    <3>2. s[k] = t[i]
      BY <1>3, <3>1
    <3> QED
      BY <2>2, <3>1, <3>2
  <2>5. Select(d, T) = d /\ Select(t, T) = t
    <3> HIDE DEF T
    <3>1. Select(d, T) = d
      BY <2>3, SelectAll DEF l
    <3>2. t \in Seq(Message)
      BY <1>1 DEF t
    <3> QED
      BY <2>4, <3>1, <3>2, SelectAll
  <2>6. Select(q, T) = t
    <3> DEFINE one == <<h>>
    <3>1. one \in Seq(Message) /\ t \in Seq(Message) /\ q = one \o t
      BY <1>1 DEF h, t
    <3>2. Select(one, T) = <<>>
      BY SelectOne
    <3> HIDE DEF one, T
    <3>3. Select(one \o t, T) = Select(one, T) \o Select(t, T)
      BY <3>1, SelectConcat
    <3>4. <<>> \o t = t
      BY <3>1, ConcatEmptySeq
    <3> QED
      BY <2>5, <3>1, <3>2, <3>3, <3>4
  <2> HIDE DEF T
  <2>7. Select(d \o q, T) = Select(d, T) \o Select(q, T)
    BY SelectConcat
  <2> QED
    BY <2>5, <2>6, <2>7 DEF s, r
<1> QED
  BY <1>2, <1>5, <1>8, <1>9, <1>10 DEF s, r, h, t, l

\* A failed send takes one message out of Accepted: the first that is not yet
\* forwarded.
LEMMA FailedSend ==
    ASSUME UpInv, ForwardFails
    PROVE  /\ outQ \in Seq(Message) /\ outQ # <<>> /\ outQ' = Tail(outQ)
           /\ outQ' \in Seq(Message)
           /\ Accepted = (hostGot \o up) \o outQ /\ hostGot \o up \in Seq(Message)
           /\ Accepted' = (hostGot \o up) \o Tail(outQ)
           /\ unsent' \subseteq NumberedUpTo(Len(jsSent))
<1> DEFINE d == hostGot \o up
           h == Head(outQ)
<1>1. /\ outQ \in Seq(Message) /\ outQ # <<>> /\ outQ' = Tail(outQ)
      /\ unsent' = unsent \cup {h} /\ UNCHANGED jsSent
      /\ Accepted = d \o outQ
  BY DEF ForwardFails, UpInv, UpTypes, L!Exited
<1>2. d \in Seq(Message) /\ Len(jsSent) \in Nat /\ jsSent \in Seq(Message)
  BY ConcatProperties, LenProperties DEF UpInv, UpTypes
<1>3. outQ' \in Seq(Message) /\ h = outQ[1] /\ Len(outQ) \in Nat \ {0}
  BY <1>1, HeadTailProperties, LenProperties, EmptySeq
<1>4. Numbered(d \o outQ, Len(jsSent))
  BY <1>1 DEF UpInv
<1> HIDE DEF d, h
<1>5. Select(d \o outQ, Message \ {h}) = d \o Tail(outQ)
  BY <1>1, <1>2, <1>4, HeadTakenOut DEF h
<1>6. Accepted' = Select(Accepted, Message \ {h})
  <2>1. (Message \ unsent) \cap (Message \ {h}) = Message \ unsent'
    BY <1>1
  <2>2. Select(Select(jsSent, Message \ unsent), Message \ {h})
           = Select(jsSent, (Message \ unsent) \cap (Message \ {h}))
    BY <1>2, SelectTwice
  <2> QED
    BY <1>1, <2>1, <2>2 DEF Accepted
<1>7. h \in NumberedUpTo(Len(jsSent))
  <2>1. /\ Len(d \o outQ) = Len(d) + Len(outQ) /\ Len(d) \in Nat
        /\ \A i \in 1 .. Len(d) + Len(outQ) :
              (d \o outQ)[i] = IF i <= Len(d) THEN d[i] ELSE outQ[i - Len(d)]
    BY <1>1, <1>2, ConcatProperties, LenProperties
  <2>2. Len(d) + 1 \in 1 .. Len(d \o outQ) /\ (d \o outQ)[Len(d) + 1] = h
    BY <1>3, <2>1
  <2>3. h \in Message
    BY <1>1, HeadTailProperties DEF h
  <2> QED
    BY <1>4, <2>2, <2>3 DEF Numbered, NumberedUpTo
<1>8. unsent' \subseteq NumberedUpTo(Len(jsSent))
  BY <1>1, <1>7 DEF UpInv, UpTypes
<1> QED
  BY <1>1, <1>2, <1>3, <1>5, <1>6, <1>8 DEF d

\* A host call returns the head of the channel, or leaves both ends alone.
LEMMA HostCallStep ==
    ASSUME NEW c, Host!CallStep(c)
    PROVE  \/ UNCHANGED <<up, hostGot>>
           \/ /\ up # <<>> /\ up' = Tail(up)
              /\ hostGot' = Append(hostGot, Head(up))
BY DEF Host!CallStep, Host!Begin, Host!Acquire, Host!Deliver, Host!RecvClosed, Host!Cancel

\* A message moves from msg_rx to the channel and from there to a call; the end
\* of the child empties msg_rx alone.
LEMMA NextUp == UpInv /\ [Next]_vars => UpInv'
<1> SUFFICES ASSUME UpInv, [Next]_vars PROVE UpInv'
  OBVIOUS
<1> USE DEF UpTypes
<1>1. ASSUME NEW c \in HostCallers, HostReceive(c) PROVE UpInv'
  <2>1. /\ UNCHANGED <<lifecycle, outQ, jsSent, unsent>>
        /\ \/ UNCHANGED <<up, hostGot>>
           \/ /\ up # <<>> /\ up' = Tail(up)
              /\ hostGot' = Append(hostGot, Head(up))
    BY <1>1, HostCallStep DEF HostReceive
  <2>2. CASE UNCHANGED <<up, hostGot>>
    BY <2>1, <2>2 DEF UpInv, Accepted, lifecycle, L!Exited
  <2>3. CASE up # <<>> /\ up' = Tail(up) /\ hostGot' = Append(hostGot, Head(up))
    <3>1. /\ hostGot' \in Seq(Message) /\ up' \in Seq(Message)
          /\ hostGot' \o up' = hostGot \o up
      <4>1. hostGot \in Seq(Message) /\ up \in Seq(Message)
        BY DEF UpInv
      <4>2. /\ Append(hostGot, Head(up)) \in Seq(Message) /\ Tail(up) \in Seq(Message)
            /\ Append(hostGot, Head(up)) \o Tail(up) = hostGot \o up
        BY <2>3, <4>1, MoveHead
      <4> QED
        BY <2>3, <4>2
    <3> QED
      BY <2>1, <3>1 DEF UpInv, Accepted, lifecycle, L!Exited
  <2> QED
    BY <2>1, <2>2, <2>3
<1>2. ASSUME NEW k \in Kinds, JsSend(k) PROVE UpInv'
  <2> DEFINE m == [kind |-> k, id |-> Len(jsSent) + 1]
  <2>1. /\ phase = "running" /\ Len(jsSent) < MaxUp
        /\ outQ' = Append(outQ, m) /\ jsSent' = Append(jsSent, m)
        /\ UNCHANGED <<lifecycle, up, hostGot, unsent>>
    BY <1>2 DEF JsSend, hostReceiver
  <2>2. m \in Message /\ m.id = Len(jsSent) + 1
    BY <2>1, LenProperties, BoundsAssumption DEF Message, UpInv
  <2> HIDE DEF m
  <2>3. outQ' \in Seq(Message) /\ Len(jsSent) \in Nat
    BY <2>1, <2>2, AppendProperties, LenProperties DEF UpInv
  <2>4. /\ jsSent' \in Seq(Message) /\ Len(jsSent') = Len(jsSent) + 1
        /\ Accepted' = Append(Accepted, m)
        /\ Len(Accepted') <= Len(jsSent') /\ Numbered(Accepted', Len(jsSent'))
        /\ unsent' \subseteq NumberedUpTo(Len(jsSent'))
    BY <2>1, <2>2, SentOneMore
  <2>5. Accepted' = (hostGot' \o up') \o outQ'
    <3>1. Accepted = (hostGot \o up) \o outQ
      BY <2>1 DEF UpInv, L!Exited
    <3>2. hostGot \o up \in Seq(Message)
      BY ConcatProperties DEF UpInv
    <3>3. (hostGot \o up) \o Append(outQ, m) = Append((hostGot \o up) \o outQ, m)
      BY <2>2, <3>2, AppendLast DEF UpInv
    <3> QED
      BY <2>1, <2>4, <3>1, <3>3
  <2>6. Len(jsSent') <= MaxUp
    BY <2>1, <2>3, <2>4, BoundsAssumption
  <2> QED
    BY <2>1, <2>3, <2>4, <2>5, <2>6 DEF UpInv
<1>3. CASE Forward(Append)
  <2>1. /\ phase = "running" /\ outQ # <<>> /\ outQ' = Tail(outQ)
        /\ up' = Append(up, Head(outQ))
        /\ UNCHANGED <<lifecycle, jsSent, hostGot, unsent>>
    BY <1>3 DEF Forward
  <2>2. /\ Head(outQ) \in Message /\ outQ' \in Seq(Message)
        /\ Append(up, Head(outQ)) \in Seq(Message) /\ up' \in Seq(Message)
    BY <2>1, HeadTailProperties, AppendProperties DEF UpInv
  <2>3. Accepted = (hostGot' \o up') \o outQ'
    <3>1. Accepted = (hostGot \o up) \o outQ
      BY <2>1 DEF UpInv, L!Exited
    <3>2. hostGot \o up \in Seq(Message)
      BY ConcatProperties DEF UpInv
    <3>3. hostGot \o Append(up, Head(outQ)) = Append(hostGot \o up, Head(outQ))
      BY <2>2, AppendLast DEF UpInv
    <3>4. outQ \in Seq(Message)
      BY DEF UpInv
    <3> DEFINE p == hostGot \o up
    <3>5. Append(p, Head(outQ)) \o Tail(outQ) = p \o outQ
      <4>1. p \in Seq(Message) /\ outQ # <<>>
        BY <2>1, <3>2
      <4> HIDE DEF p
      <4> QED
        BY <3>4, <4>1, MoveHead
    <3> QED
      BY <2>1, <3>1, <3>3, <3>5
  <2>4. Accepted' = Accepted
    BY <2>1 DEF Accepted
  <2> QED
    BY <2>1, <2>2, <2>3, <2>4 DEF UpInv
<1>14. CASE ForwardFails
  <2> DEFINE d == hostGot \o up
  <2>1. /\ outQ \in Seq(Message) /\ outQ # <<>> /\ outQ' \in Seq(Message)
        /\ outQ' = Tail(outQ) /\ Accepted = d \o outQ /\ d \in Seq(Message)
        /\ Accepted' = d \o Tail(outQ)
        /\ unsent' \subseteq NumberedUpTo(Len(jsSent))
    BY <1>14, FailedSend
  <2>2. UNCHANGED <<lifecycle, jsSent, hostGot, up>>
    BY <1>14 DEF ForwardFails, hostReceiver
  <2>3. /\ Len(jsSent) \in Nat /\ Numbered(Accepted, Len(jsSent))
        /\ Len(Accepted) <= Len(jsSent) /\ Len(Accepted) \in Nat
    BY AcceptedType DEF UpInv
  <2> HIDE DEF d
  <2>4. Numbered(Accepted', Len(jsSent)) /\ Len(Accepted') = Len(Accepted) - 1
    BY <2>1, <2>3, HeadTakenOut
  <2>5. Len(Accepted') <= Len(jsSent)
    BY <2>3, <2>4
  <2> QED
    BY <2>1, <2>2, <2>4, <2>5 DEF UpInv, d
<1>4. CASE \/ LoopModuleDone \/ LoopCancelled \/ Dies
           \/ (LoadEnds /\ outQ' = <<>>) \/ (StartCallback /\ outQ' = <<>>)
  <2>1. UNCHANGED <<jsSent, hostGot, up, unsent>> /\ outQ' = <<>>
    BY <1>4 DEF LoopModuleDone, LoopCancelled, Dies, LoadEnds, StartCallback, EndOfChild,
                KeepMessages, hostReceiver, L!LoopModuleDone, L!LoopCancelled, L!Dies,
                L!EndLoop, L!LoadDone, L!LoadFails, L!LoadCancelled, L!Load,
                L!StartCallback, L!hostVars
  <2>2. ~L!Exited' => ~L!Exited /\ outQ' = outQ
    BY <1>4 DEF LoopModuleDone, LoopCancelled, Dies, LoadEnds, StartCallback, L!Exited,
                EndOfChild, KeepMessages, L!LoopModuleDone, L!LoopCancelled, L!Dies,
                L!EndLoop, L!LoadDone, L!LoadFails, L!LoadCancelled, L!Load, L!StartCallback
  <2>3. outQ' \in Seq(Message)
    BY <2>1, EmptySeq
  <2> QED
    BY <2>1, <2>2, <2>3, UpUntouched
<1>5. CASE (LoadEnds \/ StartCallback) /\ UNCHANGED outQ
  <2>1. UNCHANGED <<jsSent, hostGot, up, unsent>> /\ (L!Exited => L!Exited')
    BY <1>5 DEF LoadEnds, StartCallback, EndOfChild, KeepMessages, hostReceiver, L!Exited,
                L!LoadDone, L!LoadFails, L!LoadCancelled, L!Load, L!StartCallback, L!hostVars
  <2> QED
    BY <1>5, <2>1, UpUntouched DEF UpInv
<1>6. CASE Control \/ DropBridge
  <2>1. /\ UNCHANGED <<jsSent, hostGot, up, outQ, unsent>>
        /\ L!Exited => L!Exited'
    BY <1>6 DEF Control, DropBridge, KeepMessages, hostReceiver, L!Exited, L!DropBridge,
                L!SetCallback, L!Handshake, L!HeapLimit, L!ModuleSettles, L!Connected,
                L!ConnectFails, L!Shutdown, L!ShutdownReturns, L!CancelToken,
                L!hostVars, L!childVars
  <2> QED
    BY <2>1, UpUntouched DEF UpInv
<1>7. CASE UNCHANGED <<lifecycle, jsSent, hostGot, up, outQ, unsent>>
  BY <1>7, UpUntouched DEF UpInv, lifecycle, L!Exited
<1>8. ASSUME NEW k \in Kinds, HostSend(k) PROVE UpInv'
  BY <1>7, <1>8 DEF HostSend, hostReceiver
<1>9. ASSUME NEW c \in TextCallers, JsReceiveText(c) PROVE UpInv'
  BY <1>7, <1>9 DEF JsReceiveText, hostReceiver
<1>10. ASSUME NEW c \in BinaryCallers, JsReceiveBinary(c) PROVE UpInv'
  BY <1>7, <1>10 DEF JsReceiveBinary, hostReceiver
<1>11. CASE RouteFromHost
  BY <1>7, <1>11 DEF RouteFromHost, Route, hostReceiver
<1>12. CASE UNCHANGED vars
  BY <1>7, <1>12 DEF vars, hostReceiver
<1>13. LoadEnds \/ StartCallback => outQ' = <<>> \/ UNCHANGED outQ
  BY DEF LoadEnds, StartCallback, EndOfChild, KeepMessages
<1> QED
  BY <1>1, <1>2, <1>3, <1>4, <1>5, <1>6, <1>8, <1>9, <1>10, <1>11, <1>12, <1>13, <1>14
  DEF Next, ForwardToHost

\* What was forwarded stays a prefix of what JavaScript sent, less failed sends.
THEOREM UpInvariant == Spec => []UpInv
BY InitUp, NextUp, PTL DEF Spec

\* While the child runs, no message of JavaScript is lost, repeated or overtaken
\* between sendText or sendBinary and receive, but those send_to_host failed for.
THEOREM NothingLostUp == Spec => []UpInFlight
<1>1. UpInv => UpInFlight
  BY DEF UpInv, UpInFlight
<1> QED
  BY <1>1, UpInvariant, PTL

\* After the end of the child the host still receives a prefix of what was sent,
\* less the messages whose send failed.
THEOREM PrefixUp == Spec => []UpKeepsPrefix
<1>1. UpInv => UpKeepsPrefix
  <2> SUFFICES ASSUME UpInv
               PROVE  /\ Len(hostGot \o up) <= Len(Accepted)
                      /\ hostGot \o up = SubSeq(Accepted, 1, Len(hostGot \o up))
    BY DEF UpKeepsPrefix
  <2>1. PICK rest \in Seq(Message) : Accepted = (hostGot \o up) \o rest
    BY DEF UpInv
  <2>2. hostGot \o up \in Seq(Message)
    BY ConcatProperties DEF UpInv, UpTypes
  <2> QED
    BY <2>1, <2>2, PrefixOfConcat
<1> QED
  BY <1>1, UpInvariant, PTL

\* The bridge implements an ordered link from JavaScript to the host: a send in
\* JavaScript is a Send, a return of receive is a Deliver, a failed send is a
\* Lose, all else stutters.
THEOREM UpRefinement == Spec => UpIsOrderedLink
<1>1. Init => UpLink!Init
  BY SelectEmpty DEF Init, UpLink!Init, Accepted
<1>2. UpInv /\ [Next]_vars => [UpLink!Next]_UpLink!linkVars
  <2> SUFFICES ASSUME UpInv, [Next]_vars
               PROVE  UpLink!Next \/ UNCHANGED <<Accepted, hostGot>>
    BY DEF UpLink!linkVars
  <2>1. ASSUME NEW k \in Kinds, JsSend(k) PROVE UpLink!Next
    <3> DEFINE m == [kind |-> k, id |-> Len(jsSent) + 1]
    <3>1. /\ Len(jsSent) < MaxUp /\ jsSent' = Append(jsSent, m)
          /\ UNCHANGED <<hostGot, unsent>>
      BY <2>1 DEF JsSend, hostReceiver
    <3>2. m \in Message /\ m.id = Len(jsSent) + 1
      BY <3>1, LenProperties, BoundsAssumption DEF Message, UpInv, UpTypes
    <3> HIDE DEF m
    <3>3. Accepted' = Append(Accepted, m)
      BY <3>1, <3>2, SentOneMore
    <3> QED
      BY <3>1, <3>2, <3>3 DEF UpLink!Next, UpLink!Send
  <2>2. ASSUME NEW c \in HostCallers, HostReceive(c)
        PROVE  UpLink!Next \/ UNCHANGED <<Accepted, hostGot>>
    <3>1. UNCHANGED Accepted
      BY <2>2 DEF HostReceive, Accepted
    <3>2. CASE up # <<>> /\ hostGot' = Append(hostGot, Head(up))
      <4>1. PICK rest \in Seq(Message) : Accepted = (hostGot \o up) \o rest
        BY DEF UpInv
      <4>2. /\ hostGot \in Seq(Message) /\ up \in Seq(Message)
        BY DEF UpInv, UpTypes
      <4>3. Len(hostGot) < Len(Accepted) /\ Accepted[Len(hostGot) + 1] = Head(up)
        BY <3>2, <4>1, <4>2, NextInConcat
      <4> QED
        BY <3>1, <3>2, <4>3 DEF UpLink!Next, UpLink!Deliver
    <3> QED
      BY <2>2, <3>1, <3>2, HostCallStep DEF HostReceive
  <2>3. CASE ForwardFails
    <3> DEFINE d == hostGot \o up
    <3>1. /\ outQ \in Seq(Message) /\ outQ # <<>> /\ d \in Seq(Message)
          /\ Accepted = d \o outQ /\ Accepted' = d \o Tail(outQ)
      BY <2>3, FailedSend
    <3>2. Len(jsSent) \in Nat /\ Numbered(Accepted, Len(jsSent)) /\ UNCHANGED hostGot
      BY <2>3, AcceptedType DEF UpInv, ForwardFails, hostReceiver
    <3>3. Len(hostGot) <= Len(d) /\ Len(hostGot) \in Nat
      BY PrefixOfConcat, LenProperties DEF UpInv, UpTypes
    <3> HIDE DEF d
    <3>4. /\ Len(d) \in Nat /\ Len(d) + 1 \in 1 .. Len(Accepted)
          /\ Accepted' = SubSeq(Accepted, 1, Len(d))
                           \o SubSeq(Accepted, Len(d) + 2, Len(Accepted))
      BY <3>1, <3>2, HeadTakenOut
    <3> DEFINE n == Len(d) + 1
    <3>5. n \in Len(hostGot) + 1 .. Len(Accepted) /\ n - 1 = Len(d) /\ n + 1 = Len(d) + 2
      BY <3>3, <3>4
    <3> QED
      BY <3>2, <3>4, <3>5 DEF UpLink!Next, UpLink!Lose
  <2>4. CASE UNCHANGED <<jsSent, hostGot, unsent>>
    BY <2>4 DEF Accepted
  <2>5. \/ \E k \in Kinds : JsSend(k)
        \/ \E c \in HostCallers : HostReceive(c)
        \/ ForwardFails
        \/ UNCHANGED <<jsSent, hostGot, unsent>>
    BY DEF Next, vars, HostSend, JsReceiveText, JsReceiveBinary, RouteFromHost, Route,
           ForwardToHost, Forward, LoopModuleDone, LoopCancelled, Dies, LoadEnds,
           StartCallback, Control, DropBridge, EndOfChild, KeepMessages, hostReceiver
  <2> QED
    BY <2>1, <2>2, <2>3, <2>4, <2>5
<1> QED
  BY <1>1, <1>2, UpInvariant, PTL DEF Spec, UpIsOrderedLink, UpLink!Spec

-----------------------------------------------------------------------------
(* From the host to JavaScript.  The channel down carries both kinds, and    *)
(* RouteFromHost deals them out to a queue each.                             *)

\* Of s, the messages of kind k are those a call returned, those in the queue
\* of the kind, and rest.
Flows(k, s, got, q, rest) ==
    /\ s \in Seq(Message) /\ got \in Seq(Message)
    /\ q \in Seq(Message) /\ rest \in Seq(Message)
    /\ OfKind(s, k) = (got \o q) \o rest

\* While the child lives, the rest is in the channel; when it ends, the queue
\* becomes part of a rest that nobody receives.
DownInv ==
    /\ down \in Seq(Message) /\ Len(hostSent) <= MaxDown
    /\ \E rest : /\ Flows("text", hostSent, textGot, textQ, rest)
                 /\ ~L!Exited => rest = OfKind(down, "text")
    /\ \E rest : /\ Flows("binary", hostSent, binaryGot, binaryQ, rest)
                 /\ ~L!Exited => rest = OfKind(down, "binary")

\* The messages of a kind: none of nothing, and one more when one is added.
LEMMA OfKindSteps ==
    ASSUME NEW s \in Seq(Message), NEW m \in Message, NEW k
    PROVE  /\ OfKind(s, k) \in Seq(Message)
           /\ OfKind(<<>>, k) = <<>>
           /\ OfKind(Append(s, m), k) =
                 IF m.kind = k THEN Append(OfKind(s, k), m) ELSE OfKind(s, k)
<1> DEFINE T == {x \in Message : x.kind = k}
<1>1. /\ \A t : OfKind(t, k) = Select(t, T)
      /\ T \subseteq Message /\ (m \in T <=> m.kind = k)
  BY Zenon DEF OfKind
<1> HIDE DEF T
<1>2. Message \cap T = T
  BY <1>1
<1>3. Select(s, T) \in Seq(Message)
  <2>1. Select(s, T) \in Seq(T)
    BY <1>2, SelectType
  <2> QED
    BY <2>1, <1>1, SeqMonotonic
<1>4. Select(<<>>, T) = <<>>
  BY SelectEmpty
<1>5. Select(Append(s, m), T) = IF m.kind = k THEN Append(Select(s, T), m) ELSE Select(s, T)
  BY <1>1, SelectAppend
<1> QED
  BY <1>1, <1>3, <1>4, <1>5

\* The head of the channel is the first of its kind, and passed over by the other.
LEMMA OfKindHead ==
    ASSUME NEW d \in Seq(Message), d # <<>>, NEW k
    PROVE  OfKind(d, k) = IF Head(d).kind = k THEN <<Head(d)>> \o OfKind(Tail(d), k)
                                              ELSE OfKind(Tail(d), k)
<1> DEFINE T == {x \in Message : x.kind = k}
           h == Head(d)
           t == Tail(d)
<1>1. h \in Message /\ t \in Seq(Message) /\ d = <<h>> \o t
  BY SplitHead
<1> HIDE DEF h, t
<1>2. \A s : OfKind(s, k) = Select(s, T)
  BY Zenon DEF OfKind
<1>3. h \in T <=> h.kind = k
  BY <1>1
<1> HIDE DEF T
<1>4. Select(d, T) = Select(<<h>>, T) \o Select(t, T)
  <2> DEFINE one == <<h>>
  <2>1. one \in Seq(Message) /\ t \in Seq(Message) /\ d = one \o t
    BY <1>1
  <2> HIDE DEF one
  <2>2. Select(one \o t, T) = Select(one, T) \o Select(t, T)
    BY <2>1, SelectConcat
  <2> QED
    BY <2>1, <2>2 DEF one
<1>5. Select(<<h>>, T) = IF h \in T THEN <<h>> ELSE <<>>
  BY SelectOne
<1>6. <<>> \o Select(t, T) = Select(t, T)
  <2>1. Select(t, T) \in Seq(Message \cap T)
    BY <1>1, SelectType
  <2> QED
    BY <2>1, ConcatEmptySeq
<1> QED
  BY <1>2, <1>3, <1>4, <1>5, <1>6 DEF h, t

\* Send: the message is at the end of what was sent and of the channel.
LEMMA FlowSend ==
    ASSUME NEW k, NEW s, NEW got, NEW q, NEW d \in Seq(Message), NEW m \in Message,
           Flows(k, s, got, q, OfKind(d, k))
    PROVE  Flows(k, Append(s, m), got, q, OfKind(Append(d, m), k))
<1> DEFINE r == OfKind(d, k)
           r2 == OfKind(Append(d, m), k)
<1>1. /\ s \in Seq(Message) /\ got \in Seq(Message) /\ q \in Seq(Message)
      /\ OfKind(s, k) = (got \o q) \o r
  BY DEF Flows
<1>2. r \in Seq(Message) /\ r2 = IF m.kind = k THEN Append(r, m) ELSE r
  BY OfKindSteps
<1>3. OfKind(Append(s, m), k) = IF m.kind = k THEN Append(OfKind(s, k), m) ELSE OfKind(s, k)
  <2>1. s \in Seq(Message)
    BY <1>1
  <2> QED
    BY <2>1, OfKindSteps
<1> HIDE DEF r, r2
<1> DEFINE p == got \o q
<1>4. p \in Seq(Message)
  BY <1>1, ConcatProperties
<1> HIDE DEF p
<1>5. p \o Append(r, m) = Append(p \o r, m)
  BY <1>2, <1>4, AppendLast
<1>6. Append(s, m) \in Seq(Message) /\ r2 \in Seq(Message)
  BY <1>1, <1>2, AppendProperties
<1>7. OfKind(Append(s, m), k) = p \o r2
  BY <1>1, <1>2, <1>3, <1>5 DEF p
<1> QED
  BY <1>1, <1>6, <1>7 DEF Flows, p, r2

\* RouteFromHost: the head of the channel goes to the queue of its kind.
LEMMA FlowRoute ==
    ASSUME NEW k, NEW s, NEW got, NEW q, NEW d \in Seq(Message), d # <<>>,
           Flows(k, s, got, q, OfKind(d, k))
    PROVE  Flows(k, s, got, IF Head(d).kind = k THEN Append(q, Head(d)) ELSE q,
                 OfKind(Tail(d), k))
<1> DEFINE h == Head(d)
           r == OfKind(d, k)
           r2 == OfKind(Tail(d), k)
<1>1. /\ s \in Seq(Message) /\ got \in Seq(Message) /\ q \in Seq(Message)
      /\ OfKind(s, k) = (got \o q) \o r
  BY DEF Flows
<1>2. h \in Message /\ Tail(d) \in Seq(Message)
  BY HeadTailProperties
<1>3. r2 \in Seq(Message)
  BY <1>2, OfKindSteps
<1>4. r = IF h.kind = k THEN <<h>> \o r2 ELSE r2
  BY OfKindHead
<1> HIDE DEF h, r, r2
<1>5. CASE h.kind = k
  <2> DEFINE p == got \o q
             one == <<h>>
  <2>1. p \in Seq(Message) /\ one \in Seq(Message)
    BY <1>1, <1>2, ConcatProperties
  <2>2. Append(q, h) \in Seq(Message) /\ got \o Append(q, h) = Append(p, h)
    BY <1>1, <1>2, AppendProperties, AppendLast
  <2>3. Append(p, h) = p \o one
    <3> HIDE DEF p
    <3> QED
      BY <2>1, <1>2, AppendIsConcat
  <2>4. p \o (one \o r2) = (p \o one) \o r2
    <3> HIDE DEF p, one
    <3> QED
      BY <2>1, <1>3, ConcatAssociative
  <2>5. OfKind(s, k) = (got \o Append(q, h)) \o r2
    BY <1>1, <1>4, <1>5, <2>2, <2>3, <2>4
  <2> QED
    BY <1>1, <1>3, <1>5, <2>2, <2>5 DEF Flows, h, r2
<1>6. CASE h.kind # k
  BY <1>1, <1>3, <1>4, <1>6 DEF Flows, h, r2
<1> QED
  BY <1>5, <1>6

\* A receive call returns the head of its queue, which is the next message of
\* the kind that it was not given.
LEMMA FlowReceive ==
    ASSUME NEW k, NEW s, NEW got, NEW q, NEW rest, q # <<>>, Flows(k, s, got, q, rest)
    PROVE  /\ Flows(k, s, Append(got, Head(q)), Tail(q), rest)
           /\ Len(got) < Len(OfKind(s, k)) /\ OfKind(s, k)[Len(got) + 1] = Head(q)
<1>1. /\ got \in Seq(Message) /\ q \in Seq(Message) /\ rest \in Seq(Message)
      /\ OfKind(s, k) = (got \o q) \o rest
  BY DEF Flows
<1>2. /\ Append(got, Head(q)) \in Seq(Message) /\ Tail(q) \in Seq(Message)
      /\ Append(got, Head(q)) \o Tail(q) = got \o q
  BY <1>1, MoveHead
<1>3. Len(got) < Len((got \o q) \o rest) /\ ((got \o q) \o rest)[Len(got) + 1] = Head(q)
  BY <1>1, NextInConcat
<1> QED
  BY <1>1, <1>2, <1>3 DEF Flows

\* The end of the child: what was in the queue is lost with the rest.
LEMMA FlowEnd ==
    ASSUME NEW k, NEW s, NEW got, NEW q, NEW rest, Flows(k, s, got, q, rest)
    PROVE  Flows(k, s, got, <<>>, q \o rest)
<1>1. /\ got \in Seq(Message) /\ q \in Seq(Message) /\ rest \in Seq(Message)
      /\ OfKind(s, k) = (got \o q) \o rest
  BY DEF Flows
<1>2. q \o rest \in Seq(Message) /\ <<>> \in Seq(Message)
  BY <1>1, ConcatProperties, EmptySeq
<1>3. (got \o q) \o rest = got \o (q \o rest) /\ got \o <<>> = got
  BY <1>1, ConcatAssociative, ConcatEmptySeq
<1> QED
  BY <1>1, <1>2, <1>3 DEF Flows

\* Nothing has been sent when the bridge starts to connect.
LEMMA InitDown == Init => DownInv
<1> SUFFICES ASSUME Init PROVE DownInv
  OBVIOUS
<1> DEFINE none == <<>>
<1>1. none \in Seq(Message) /\ Len(none) = 0 /\ (none \o none) \o none = none
  BY EmptySeq, ConcatEmptySeq
<1>2. \A k : OfKind(none, k) = none
  BY SelectEmpty DEF OfKind
<1>3. /\ hostSent = none /\ down = none /\ textGot = none /\ textQ = none
      /\ binaryGot = none /\ binaryQ = none
  BY DEF Init
<1> HIDE DEF none
<1>4. \A k : Flows(k, none, none, none, none)
  BY <1>1, <1>2 DEF Flows
<1> QED
  BY <1>1, <1>2, <1>3, <1>4, BoundsAssumption DEF DownInv

\* What JavaScript's receive calls do to a queue and to what was returned.
LEMMA JsCallStep ==
    /\ \A c : Text!Begin(c) \/ Text!Acquire(c) \/ Text!Deliver(c) =>
          \/ UNCHANGED <<textQ, textGot>>
          \/ /\ textQ # <<>> /\ textQ' = Tail(textQ)
             /\ textGot' = Append(textGot, Head(textQ))
    /\ \A c : Binary!Begin(c) \/ Binary!Acquire(c) \/ Binary!Deliver(c) =>
          \/ UNCHANGED <<binaryQ, binaryGot>>
          \/ /\ binaryQ # <<>> /\ binaryQ' = Tail(binaryQ)
             /\ binaryGot' = Append(binaryGot, Head(binaryQ))
BY DEF Text!Begin, Text!Acquire, Text!Deliver, Binary!Begin, Binary!Acquire, Binary!Deliver

\* A message moves from the channel to the queue of its kind and from there to
\* a call; the end of the child is the end of both directions.
LEMMA NextDown == DownInv /\ [Next]_vars => DownInv'
<1> SUFFICES ASSUME DownInv, [Next]_vars PROVE DownInv'
  OBVIOUS
<1>1. /\ down \in Seq(Message) /\ Len(hostSent) <= MaxDown
      /\ hostSent \in Seq(Message)
  BY DEF DownInv, Flows
<1>2. PICK textRest : /\ Flows("text", hostSent, textGot, textQ, textRest)
                      /\ ~L!Exited => textRest = OfKind(down, "text")
  BY DEF DownInv
<1>3. PICK binaryRest : /\ Flows("binary", hostSent, binaryGot, binaryQ, binaryRest)
                        /\ ~L!Exited => binaryRest = OfKind(down, "binary")
  BY DEF DownInv
<1>4. ASSUME NEW k \in Kinds, HostSend(k) PROVE DownInv'
  <2> DEFINE m == [kind |-> k, id |-> Len(hostSent) + 1]
  <2>1. /\ ~L!Exited /\ Len(hostSent) < MaxDown
        /\ down' = Append(down, m) /\ hostSent' = Append(hostSent, m)
        /\ UNCHANGED <<lifecycle, textQ, textGot, binaryQ, binaryGot>>
    BY <1>4 DEF HostSend, textReceiver, binaryReceiver
  <2>2. m \in Message
    BY <1>1, <2>1, LenProperties, BoundsAssumption DEF Message
  <2> HIDE DEF m
  <2>3. /\ down' \in Seq(Message) /\ Len(hostSent') = Len(hostSent) + 1
        /\ Len(hostSent) \in Nat
    BY <1>1, <2>1, <2>2, AppendProperties, LenProperties
  <2>4. Flows("text", hostSent', textGot', textQ', OfKind(down', "text"))
    BY <1>1, <1>2, <2>1, <2>2, FlowSend
  <2>5. Flows("binary", hostSent', binaryGot', binaryQ', OfKind(down', "binary"))
    BY <1>1, <1>3, <2>1, <2>2, FlowSend
  <2> QED
    BY <2>1, <2>3, <2>4, <2>5, BoundsAssumption DEF DownInv
<1>5. CASE RouteFromHost
  <2>1. /\ phase = "running" /\ down # <<>> /\ down' = Tail(down)
        /\ textQ' = (IF Head(down).kind = "text" THEN Append(textQ, Head(down)) ELSE textQ)
        /\ binaryQ' = (IF Head(down).kind = "text" THEN binaryQ ELSE Append(binaryQ, Head(down)))
        /\ UNCHANGED <<lifecycle, hostSent, textGot, binaryGot>>
    BY <1>5 DEF RouteFromHost, Route
  <2>2. ~L!Exited /\ down' \in Seq(Message)
    BY <1>1, <2>1, HeadTailProperties DEF L!Exited
  <2>3. Head(down).kind = "text" \/ Head(down).kind = "binary"
    <3>1. Head(down) \in Message
      BY <1>1, <2>1, HeadTailProperties
    <3> QED
      BY <3>1 DEF Message, Kinds
  <2>4. Flows("text", hostSent, textGot, textQ', OfKind(Tail(down), "text"))
    BY <1>1, <1>2, <2>1, <2>2, FlowRoute
  <2>5. Flows("binary", hostSent, binaryGot, binaryQ', OfKind(Tail(down), "binary"))
    <3>1. binaryQ' = IF Head(down).kind = "binary" THEN Append(binaryQ, Head(down)) ELSE binaryQ
      BY <2>1, <2>3
    <3> QED
      BY <1>1, <1>3, <2>1, <2>2, <3>1, FlowRoute
  <2> QED
    BY <1>1, <2>1, <2>2, <2>4, <2>5 DEF DownInv
<1>6. ASSUME NEW c \in TextCallers, JsReceiveText(c) PROVE DownInv'
  <2>1. /\ phase = "running"
        /\ UNCHANGED <<lifecycle, hostSent, down, binaryQ, binaryGot>>
        /\ \/ UNCHANGED <<textQ, textGot>>
           \/ /\ textQ # <<>> /\ textQ' = Tail(textQ)
              /\ textGot' = Append(textGot, Head(textQ))
    BY <1>6, JsCallStep DEF JsReceiveText, binaryReceiver
  <2>2. ~L!Exited /\ ~L!Exited'
    BY <2>1 DEF L!Exited, lifecycle
  <2>3. Flows("text", hostSent, textGot', textQ', textRest)
    <3>1. CASE UNCHANGED <<textQ, textGot>>
      BY <3>1, <1>2, <2>1
    <3>2. CASE /\ textQ # <<>> /\ textQ' = Tail(textQ)
               /\ textGot' = Append(textGot, Head(textQ))
      <4>1. Flows("text", hostSent, Append(textGot, Head(textQ)), Tail(textQ), textRest)
        BY <3>2, <1>2, FlowReceive
      <4> QED
        BY <3>2, <4>1
    <3> QED
      BY <2>1, <3>1, <3>2
  <2> QED
    BY <1>1, <1>2, <1>3, <2>1, <2>2, <2>3 DEF DownInv
<1>7. ASSUME NEW c \in BinaryCallers, JsReceiveBinary(c) PROVE DownInv'
  <2>1. /\ phase = "running"
        /\ UNCHANGED <<lifecycle, hostSent, down, textQ, textGot>>
        /\ \/ UNCHANGED <<binaryQ, binaryGot>>
           \/ /\ binaryQ # <<>> /\ binaryQ' = Tail(binaryQ)
              /\ binaryGot' = Append(binaryGot, Head(binaryQ))
    BY <1>7, JsCallStep DEF JsReceiveBinary, textReceiver
  <2>2. ~L!Exited /\ ~L!Exited'
    BY <2>1 DEF L!Exited, lifecycle
  <2>3. Flows("binary", hostSent, binaryGot', binaryQ', binaryRest)
    <3>1. CASE UNCHANGED <<binaryQ, binaryGot>>
      BY <3>1, <1>3, <2>1
    <3>2. CASE /\ binaryQ # <<>> /\ binaryQ' = Tail(binaryQ)
               /\ binaryGot' = Append(binaryGot, Head(binaryQ))
      <4>1. Flows("binary", hostSent, Append(binaryGot, Head(binaryQ)), Tail(binaryQ), binaryRest)
        BY <3>2, <1>3, FlowReceive
      <4> QED
        BY <3>2, <4>1
    <3> QED
      BY <2>1, <3>1, <3>2
  <2> QED
    BY <1>1, <1>2, <1>3, <2>1, <2>2, <2>3 DEF DownInv
<1>8. CASE \/ LoopModuleDone \/ LoopCancelled \/ Dies
           \/ (L!LoadFails \/ L!LoadCancelled) /\ EndOfChild
           \/ L!StartCallback /\ ~callback /\ EndOfChild
  <2>1. L!Exited' /\ EndOfChild
    BY <1>8 DEF LoopModuleDone, LoopCancelled, Dies, L!Exited, L!LoopModuleDone,
                L!LoopCancelled, L!Dies, L!EndLoop, L!LoadFails, L!LoadCancelled,
                L!Load, L!StartCallback
  <2>2. /\ down' = <<>> /\ textQ' = <<>> /\ binaryQ' = <<>>
        /\ UNCHANGED <<hostSent, textGot, binaryGot>>
    BY <2>1 DEF EndOfChild
  <2>3. Flows("text", hostSent, textGot, <<>>, textQ \o textRest)
    BY <1>2, FlowEnd
  <2>4. Flows("binary", hostSent, binaryGot, <<>>, binaryQ \o binaryRest)
    BY <1>3, FlowEnd
  <2>5. <<>> \in Seq(Message)
    BY EmptySeq
  <2> QED
    BY <1>1, <2>1, <2>2, <2>3, <2>4, <2>5 DEF DownInv
<1>9. ASSUME UNCHANGED <<hostSent, down, textQ, textGot, binaryQ, binaryGot>>,
             L!Exited => L!Exited'
      PROVE  DownInv'
  BY <1>1, <1>2, <1>3, <1>9 DEF DownInv
<1>10. CASE \/ L!LoadDone /\ KeepMessages
            \/ L!StartCallback /\ callback /\ KeepMessages
            \/ Control \/ DropBridge
  <2>1. UNCHANGED <<hostSent, down, textQ, textGot, binaryQ, binaryGot>>
    BY <1>10 DEF KeepMessages, Control, DropBridge, textReceiver, binaryReceiver
  <2>2. L!Exited => L!Exited'
    BY <1>10 DEF L!Exited, L!LoadDone, L!Load, L!StartCallback, Control, DropBridge,
                 L!DropBridge, L!SetCallback, L!Handshake, L!HeapLimit, L!ModuleSettles,
                 L!Connected, L!ConnectFails, L!Shutdown, L!ShutdownReturns,
                 L!CancelToken, L!hostVars, L!childVars
  <2> QED
    BY <2>1, <2>2, <1>9
<1>11. CASE UNCHANGED <<lifecycle, hostSent, down, textQ, textGot, binaryQ, binaryGot>>
  BY <1>9, <1>11 DEF lifecycle, L!Exited
<1>12. ASSUME NEW c \in HostCallers, HostReceive(c) PROVE DownInv'
  BY <1>11, <1>12 DEF HostReceive, textReceiver, binaryReceiver
<1>13. CASE (\E k \in Kinds : JsSend(k)) \/ ForwardToHost \/ UNCHANGED vars
  BY <1>11, <1>13 DEF JsSend, ForwardToHost, Forward, ForwardFails, vars, textReceiver,
                      binaryReceiver
<1>14. LoadEnds => \/ L!LoadDone /\ KeepMessages
                   \/ (L!LoadFails \/ L!LoadCancelled) /\ EndOfChild
  BY DEF LoadEnds
<1>15. StartCallback => \/ L!StartCallback /\ callback /\ KeepMessages
                        \/ L!StartCallback /\ ~callback /\ EndOfChild
  BY DEF StartCallback
<1> QED
  BY <1>4, <1>5, <1>6, <1>7, <1>8, <1>10, <1>12, <1>13, <1>14, <1>15 DEF Next

\* What JavaScript was given of a kind, and its queue, stay in front of the rest.
THEOREM DownInvariant == Spec => []DownInv
BY InitDown, NextDown, PTL DEF Spec

\* While the child lives no message of the host is lost, repeated, overtaken by
\* one of its kind, or put in the queue of the other kind.
THEOREM NothingLostDown == Spec => []DownInFlight
<1>1. DownInv => DownInFlight
  BY DEF DownInv, DownInFlight, Flows
<1> QED
  BY <1>1, DownInvariant, PTL

\* The bridge implements an ordered link to JavaScript for each kind: a send of
\* the kind is a Send, a return of the kind's receive call a Deliver.
THEOREM DownRefinement == Spec => DownAreOrderedLinks
<1>1. Init => TextLink!Init /\ BinaryLink!Init
  <2>1. \A k : OfKind(<<>>, k) = <<>>
    BY SelectEmpty DEF OfKind
  <2> QED
    BY <2>1 DEF Init, TextLink!Init, BinaryLink!Init
<1>2. DownInv /\ [Next]_vars =>
         [TextLink!Next]_TextLink!linkVars /\ [BinaryLink!Next]_BinaryLink!linkVars
  <2> SUFFICES ASSUME DownInv, [Next]_vars
               PROVE  /\ TextLink!Next \/ UNCHANGED TextLink!linkVars
                      /\ BinaryLink!Next \/ UNCHANGED BinaryLink!linkVars
    OBVIOUS
  <2>1. ASSUME NEW k \in Kinds, HostSend(k)
        PROVE  /\ TextLink!Next \/ UNCHANGED TextLink!linkVars
               /\ BinaryLink!Next \/ UNCHANGED BinaryLink!linkVars
    <3> DEFINE m == [kind |-> k, id |-> Len(hostSent) + 1]
    <3>1. /\ Len(hostSent) < MaxDown /\ hostSent' = Append(hostSent, m)
          /\ UNCHANGED <<textGot, binaryGot>> /\ hostSent \in Seq(Message)
      BY <2>1 DEF HostSend, textReceiver, binaryReceiver, DownInv, Flows
    <3>2. m \in Message
      BY <3>1, LenProperties, BoundsAssumption DEF Message
    <3> HIDE DEF m
    <3>3. \A j : OfKind(hostSent', j) = OfKind(hostSent, j)
                 \/ OfKind(hostSent', j) = Append(OfKind(hostSent, j), m)
      BY <3>1, <3>2, OfKindSteps
    <3> QED
      BY <3>1, <3>2, <3>3 DEF TextLink!Next, TextLink!Send, TextLink!linkVars,
                              BinaryLink!Next, BinaryLink!Send, BinaryLink!linkVars
  <2>2. ASSUME NEW c \in TextCallers, JsReceiveText(c)
        PROVE  /\ TextLink!Next \/ UNCHANGED TextLink!linkVars
               /\ UNCHANGED BinaryLink!linkVars
    <3>1. /\ UNCHANGED <<hostSent, binaryGot>>
          /\ \/ UNCHANGED textGot
             \/ textQ # <<>> /\ textGot' = Append(textGot, Head(textQ))
      BY <2>2, JsCallStep DEF JsReceiveText, binaryReceiver
    <3>2. PICK rest : Flows("text", hostSent, textGot, textQ, rest)
      BY DEF DownInv
    <3>3. textQ # <<>> => /\ Len(textGot) < Len(OfKind(hostSent, "text"))
                          /\ OfKind(hostSent, "text")[Len(textGot) + 1] = Head(textQ)
      BY <3>2, FlowReceive
    <3> QED
      BY <3>1, <3>3 DEF TextLink!Next, TextLink!Deliver, TextLink!linkVars, BinaryLink!linkVars
  <2>3. ASSUME NEW c \in BinaryCallers, JsReceiveBinary(c)
        PROVE  /\ UNCHANGED TextLink!linkVars
               /\ BinaryLink!Next \/ UNCHANGED BinaryLink!linkVars
    <3>1. /\ UNCHANGED <<hostSent, textGot>>
          /\ \/ UNCHANGED binaryGot
             \/ binaryQ # <<>> /\ binaryGot' = Append(binaryGot, Head(binaryQ))
      BY <2>3, JsCallStep DEF JsReceiveBinary, textReceiver
    <3>2. PICK rest : Flows("binary", hostSent, binaryGot, binaryQ, rest)
      BY DEF DownInv
    <3>3. binaryQ # <<>> => /\ Len(binaryGot) < Len(OfKind(hostSent, "binary"))
                            /\ OfKind(hostSent, "binary")[Len(binaryGot) + 1] = Head(binaryQ)
      BY <3>2, FlowReceive
    <3> QED
      BY <3>1, <3>3 DEF TextLink!linkVars, BinaryLink!Next, BinaryLink!Deliver, BinaryLink!linkVars
  <2>4. CASE UNCHANGED <<hostSent, textGot, binaryGot>>
    BY <2>4 DEF TextLink!linkVars, BinaryLink!linkVars
  <2>5. \/ \E k \in Kinds : HostSend(k)
        \/ \E c \in TextCallers : JsReceiveText(c)
        \/ \E c \in BinaryCallers : JsReceiveBinary(c)
        \/ UNCHANGED <<hostSent, textGot, binaryGot>>
    BY DEF Next, vars, HostReceive, JsSend, RouteFromHost, Route, ForwardToHost, Forward, ForwardFails,
           LoopModuleDone, LoopCancelled, Dies, LoadEnds, StartCallback, Control, DropBridge,
           EndOfChild, KeepMessages, textReceiver, binaryReceiver
  <2> QED
    BY <2>1, <2>2, <2>3, <2>4, <2>5
<1> QED
  BY <1>1, <1>2, DownInvariant, PTL
  DEF Spec, DownAreOrderedLinks, TextLink!Spec, BinaryLink!Spec

-----------------------------------------------------------------------------
(* The receiving ends.  The lemmas about ExclusiveReceiver are used for each *)
(* of the three; the host's end is shown to implement it.                    *)

HostP == INSTANCE ExclusiveReceiver_proofs WITH
    Callers <- HostCallers, Messages <- Message, MaxSends <- MaxUp,
    queue <- up, closed <- L!Exited, call <- hostCall, waiters <- hostWaiters,
    delivered <- hostGot, sent <- hostGot \o up
TextP == INSTANCE ExclusiveReceiver_proofs WITH
    Callers <- TextCallers, Messages <- Message, MaxSends <- MaxDown,
    queue <- textQ, closed <- FALSE, call <- textCall, waiters <- textWaiters,
    delivered <- textGot, sent <- textGot \o textQ
BinaryP == INSTANCE ExclusiveReceiver_proofs WITH
    Callers <- BinaryCallers, Messages <- Message, MaxSends <- MaxDown,
    queue <- binaryQ, closed <- FALSE, call <- binaryCall, waiters <- binaryWaiters,
    delivered <- binaryGot, sent <- binaryGot \o binaryQ

\* The steps of a call in the host are those of the proved module ...
LEMMA SameHost == ASSUME NEW c PROVE Host!CallStep(c) <=> HostP!CallStep(c)
BY DEF Host!CallStep, Host!Begin, Host!Acquire, Host!Deliver, Host!RecvClosed,
       Host!Cancel, Host!Release, Host!LockHeld, Host!Returned, Host!RemoveAt,
       HostP!CallStep, HostP!Begin, HostP!Acquire, HostP!Deliver, HostP!RecvClosed,
       HostP!Cancel, HostP!Release, HostP!LockHeld, HostP!Returned, HostP!RemoveAt

\* ... and so are the steps of receiveText ...
LEMMA SameText ==
    ASSUME NEW c, Text!Begin(c) \/ Text!Acquire(c) \/ Text!Deliver(c)
    PROVE  TextP!CallStep(c)
BY DEF Text!Begin, Text!Acquire, Text!Deliver, Text!Release, Text!LockHeld, Text!Returned,
       TextP!CallStep, TextP!Begin, TextP!Acquire, TextP!Deliver, TextP!Release,
       TextP!LockHeld, TextP!Returned

\* ... and of receiveBinary, which are never dropped and never see a close.
LEMMA SameBinary ==
    ASSUME NEW c, Binary!Begin(c) \/ Binary!Acquire(c) \/ Binary!Deliver(c)
    PROVE  BinaryP!CallStep(c)
BY DEF Binary!Begin, Binary!Acquire, Binary!Deliver, Binary!Release, Binary!LockHeld,
       Binary!Returned, BinaryP!CallStep, BinaryP!Begin, BinaryP!Acquire, BinaryP!Deliver,
       BinaryP!Release, BinaryP!LockHeld, BinaryP!Returned

LocksInv == HostP!LockInv /\ TextP!LockInv /\ BinaryP!LockInv

\* The three locks are free when the bridge starts to connect.
LEMMA InitLocks == Init => LocksInv
BY HostP!LockIdle, TextP!LockIdle, BinaryP!LockIdle, BoundsAssumption DEF Init, LocksInv

\* A call keeps its lock and wait queue in agreement; the end of the child
\* drops the calls of JavaScript together with their lock.
LEMMA NextLocks == LocksInv /\ [Next]_vars => LocksInv'
<1> SUFFICES ASSUME LocksInv, [Next]_vars PROVE LocksInv'
  OBVIOUS
<1> USE BoundsAssumption DEF LocksInv
<1>1. HostP!LockInv'
  <2>1. ASSUME NEW c \in HostCallers, HostReceive(c) PROVE HostP!LockInv'
    BY <2>1, SameHost, HostP!CallKeepsLock DEF HostReceive
  <2>2. CASE UNCHANGED <<hostCall, hostWaiters>>
    BY <2>2, HostP!LockUnchanged
  <2>3. (\E c \in HostCallers : HostReceive(c)) \/ UNCHANGED <<hostCall, hostWaiters>>
    BY DEF Next, vars, HostSend, JsSend, JsReceiveText, JsReceiveBinary, RouteFromHost,
           Route, ForwardToHost, Forward, ForwardFails, LoopModuleDone, LoopCancelled, Dies,
           LoadEnds, StartCallback, Control, DropBridge, EndOfChild, KeepMessages, hostReceiver
  <2> QED
    BY <2>1, <2>2, <2>3
<1>2. TextP!LockInv'
  <2>1. ASSUME NEW c \in TextCallers, JsReceiveText(c) PROVE TextP!LockInv'
    BY <2>1, SameText, TextP!CallKeepsLock DEF JsReceiveText
  <2>2. CASE UNCHANGED <<textCall, textWaiters>>
    BY <2>2, TextP!LockUnchanged
  <2>3. CASE textCall' = [c \in TextCallers |-> "idle"] /\ textWaiters' = <<>>
    BY <2>3, TextP!LockReset
  <2>4. \/ \E c \in TextCallers : JsReceiveText(c)
        \/ UNCHANGED <<textCall, textWaiters>>
        \/ textCall' = [c \in TextCallers |-> "idle"] /\ textWaiters' = <<>>
    BY DEF Next, vars, HostSend, HostReceive, JsSend, JsReceiveBinary, RouteFromHost,
           Route, ForwardToHost, Forward, ForwardFails, LoopModuleDone, LoopCancelled, Dies,
           LoadEnds, StartCallback, Control, DropBridge, EndOfChild, KeepMessages, textReceiver
  <2> QED
    BY <2>1, <2>2, <2>3, <2>4
<1>3. BinaryP!LockInv'
  <2>1. ASSUME NEW c \in BinaryCallers, JsReceiveBinary(c) PROVE BinaryP!LockInv'
    BY <2>1, SameBinary, BinaryP!CallKeepsLock DEF JsReceiveBinary
  <2>2. CASE UNCHANGED <<binaryCall, binaryWaiters>>
    BY <2>2, BinaryP!LockUnchanged
  <2>3. CASE binaryCall' = [c \in BinaryCallers |-> "idle"] /\ binaryWaiters' = <<>>
    BY <2>3, BinaryP!LockReset
  <2>4. \/ \E c \in BinaryCallers : JsReceiveBinary(c)
        \/ UNCHANGED <<binaryCall, binaryWaiters>>
        \/ binaryCall' = [c \in BinaryCallers |-> "idle"] /\ binaryWaiters' = <<>>
    BY DEF Next, vars, HostSend, HostReceive, JsSend, JsReceiveText, RouteFromHost,
           Route, ForwardToHost, Forward, ForwardFails, LoopModuleDone, LoopCancelled, Dies,
           LoadEnds, StartCallback, Control, DropBridge, EndOfChild, KeepMessages, binaryReceiver
  <2> QED
    BY <2>1, <2>2, <2>3, <2>4
<1> QED
  BY <1>1, <1>2, <1>3

\* Every receiving end is used by one call at a time, in both processes.
THEOREM OneCallPerReceiver == Spec => []ReceiversExclusive
<1>1. LocksInv => ReceiversExclusive
  BY DEF LocksInv, ReceiversExclusive, HostP!LockInv, TextP!LockInv, BinaryP!LockInv,
         HostP!MutualExclusion, TextP!MutualExclusion, BinaryP!MutualExclusion,
         Host!MutualExclusion, Text!MutualExclusion, Binary!MutualExclusion
<1> QED
  BY <1>1, InitLocks, NextLocks, PTL DEF Spec

\* The host's end implements ExclusiveReceiver: the child's ForwardToHost is its
\* Send and the end of the child its Close.
THEOREM HostEndRefinement == Spec => HostEndIsExclusiveReceiver
<1> DEFINE sentUp == hostGot \o up
<1>1. Init => Host!Init
  <2>1. <<>> \o <<>> = <<>>
    BY EmptySeq, ConcatEmptySeq
  <2> QED
    BY <2>1 DEF Init, Host!Init, L!Init, L!Exited
<1>2. UpInv /\ [Next]_vars => [Host!Next]_Host!vars
  <2> SUFFICES ASSUME UpInv, [Next]_vars
               PROVE  Host!Next \/ UNCHANGED Host!vars
    OBVIOUS
  <2> DEFINE end == <<up, hostCall, hostWaiters, hostGot>>
  <2>1. ASSUME NEW c \in HostCallers, HostReceive(c) PROVE Host!Next
    <3>1. /\ Host!CallStep(c) /\ UNCHANGED lifecycle
          /\ \/ UNCHANGED <<up, hostGot>>
             \/ /\ up # <<>> /\ up' = Tail(up)
                /\ hostGot' = Append(hostGot, Head(up))
      BY <2>1, HostCallStep DEF HostReceive
    <3>2. hostGot \in Seq(Message) /\ up \in Seq(Message)
      BY DEF UpInv, UpTypes
    <3>3. hostGot' \o up' = hostGot \o up
      <4>1. CASE UNCHANGED <<up, hostGot>>
        BY <4>1
      <4>2. CASE /\ up # <<>> /\ up' = Tail(up)
                 /\ hostGot' = Append(hostGot, Head(up))
        <5>1. Append(hostGot, Head(up)) \o Tail(up) = hostGot \o up
          BY <3>2, <4>2, MoveHead
        <5> QED
          BY <4>2, <5>1
      <4> QED
        BY <3>1, <4>1, <4>2
    <3> QED
      BY <3>1, <3>3 DEF Host!Next, lifecycle, L!Exited
  <2>2. CASE Forward(Append)
    <3>1. /\ phase = "running" /\ outQ # <<>> /\ up' = Append(up, Head(outQ))
          /\ UNCHANGED <<lifecycle, hostCall, hostWaiters, hostGot>>
      BY <2>2 DEF Forward
    <3>2. /\ hostGot \in Seq(Message) /\ up \in Seq(Message) /\ outQ \in Seq(Message)
          /\ Len(jsSent) <= MaxUp /\ Len(Accepted) <= Len(jsSent)
          /\ Accepted = (hostGot \o up) \o outQ
      BY <3>1 DEF UpInv, UpTypes, L!Exited
    <3>3. Head(outQ) \in Message
      BY <3>1, <3>2, HeadTailProperties
    <3>4. hostGot' \o up' = Append(hostGot \o up, Head(outQ))
      BY <3>1, <3>2, <3>3, AppendLast, SMTT(30)
    <3>5. Len(hostGot \o up) < MaxUp
      <4>1. hostGot \o up \in Seq(Message)
        BY <3>2, ConcatProperties
      <4> HIDE DEF sentUp
      <4>2. Len(sentUp) \in Nat /\ Len(outQ) \in Nat \ {0} /\ Len(jsSent) \in Nat
        BY <3>1, <3>2, <4>1, LenProperties, EmptySeq, AcceptedType DEF sentUp
      <4>3. Len(Accepted) = Len(sentUp) + Len(outQ)
        BY <3>2, <4>1, ConcatLeft DEF sentUp
      <4> QED
        BY <3>2, <4>2, <4>3, BoundsAssumption DEF sentUp
    <3> QED
      BY <3>1, <3>3, <3>4, <3>5 DEF Host!Next, Host!Send, lifecycle, L!Exited
  <2>3. CASE UNCHANGED end
    <3>1. CASE L!Exited' = L!Exited
      BY <2>3, <3>1 DEF Host!vars
    <3>2. CASE ~L!Exited /\ L!Exited'
      BY <2>3, <3>2 DEF Host!Next, Host!Close
    <3>3. L!Exited => L!Exited'
      BY DEF L!Exited, Next, vars, lifecycle, HostSend, HostReceive, JsSend, JsReceiveText,
             JsReceiveBinary, RouteFromHost, Route, ForwardToHost, Forward, ForwardFails,
             LoopModuleDone, LoopCancelled, Dies, LoadEnds, StartCallback, Control,
             DropBridge, L!LoopModuleDone, L!LoopCancelled, L!Dies, L!EndLoop,
             L!LoadDone, L!LoadFails, L!LoadCancelled, L!Load, L!StartCallback,
             L!SetCallback, L!Handshake, L!HeapLimit, L!ModuleSettles, L!Connected,
             L!ConnectFails, L!Shutdown, L!ShutdownReturns, L!CancelToken,
             L!DropBridge, L!hostVars, L!childVars
    <3>4. L!Exited \in BOOLEAN /\ L!Exited' \in BOOLEAN
      BY DEF L!Exited
    <3> QED
      BY <3>1, <3>2, <3>3, <3>4
  <2>4. (\E c \in HostCallers : HostReceive(c)) \/ Forward(Append) \/ UNCHANGED end
    BY DEF Next, vars, HostSend, JsSend, JsReceiveText, JsReceiveBinary, RouteFromHost,
           Route, ForwardToHost, ForwardFails, LoopModuleDone, LoopCancelled, Dies, LoadEnds,
           StartCallback, Control, DropBridge, EndOfChild, KeepMessages, hostReceiver
  <2> QED
    BY <2>1, <2>2, <2>3, <2>4
<1> QED
  BY <1>1, <1>2, UpInvariant, PTL DEF Spec, HostEndIsExclusiveReceiver, Host!Spec

\* ... so receive fails only when the child is gone and all it forwarded was read:
\* what ExclusiveReceiver_proofs shows of every receiver holds of the host's end.
THEOREM ReceiveFailsLast == Spec => []ClosedMeansNothingLeft
<1>1. Host!Init => HostP!Init
  BY DEF Host!Init, HostP!Init
<1>2. [Host!Next]_Host!vars => [HostP!Next]_HostP!vars
  <2>1. (\E c \in HostCallers : Host!CallStep(c) /\ UNCHANGED <<L!Exited, hostGot \o up>>)
          => HostP!Next
    BY SameHost DEF HostP!Next
  <2>2. (\E m \in Message : Host!Send(m)) => HostP!Next
    BY DEF Host!Send, HostP!Send, HostP!Next
  <2>3. Host!Close => HostP!Next
    BY DEF Host!Close, HostP!Close, HostP!Next
  <2> QED
    BY <2>1, <2>2, <2>3 DEF Host!Next, Host!vars, HostP!vars
<1>3. HostP!ClosedMeansDrained => ClosedMeansNothingLeft
  BY DEF HostP!ClosedMeansDrained, Host!ClosedMeansDrained, ClosedMeansNothingLeft
<1>4. HostP!Spec => []HostP!ClosedMeansDrained
  BY HostP!DrainBeforeError, BoundsAssumption
<1> QED
  BY <1>1, <1>2, <1>3, <1>4, HostEndRefinement, PTL
  DEF HostEndIsExclusiveReceiver, Host!Spec, HostP!Spec
=============================================================================
