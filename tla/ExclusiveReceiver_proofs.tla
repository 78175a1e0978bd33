------------------------ MODULE ExclusiveReceiver_proofs ------------------------
(***************************************************************************)
(* Proofs about ExclusiveReceiver for any number of callers and messages.  *)
(* The lock part (LockInv) and the channel part (ChannelInv) of the        *)
(* inductive invariant are proved separately: every step of a call changes *)
(* the lock only through Release or by joining the wait queue.             *)
(***************************************************************************)
EXTENDS ExclusiveReceiver, SequenceLemmas

\* Lock and wait queue agree: MutualExclusion alone is not inductive, since
\* Release makes the head of the wait queue a holder.
LockInv ==
    /\ call \in [Callers -> Waiting \cup Returned]
    /\ waiters \in Seq(Callers)
    /\ MutualExclusion
    /\ WaitersAreQueued
    /\ LockHeld \/ waiters = <<>>

ChannelInv ==
    /\ queue \in Seq(Messages)
    /\ closed \in BOOLEAN
    /\ delivered \in Seq(Messages)
    /\ sent \in Seq(Messages)
    /\ Conservation
    /\ ClosedMeansDrained

IInv == LockInv /\ ChannelInv

USE DEF Waiting, Returned

-----------------------------------------------------------------------------
\* Releasing the lock keeps lock and wait queue in agreement.
LEMMA ReleaseLock ==
    ASSUME LockInv, NEW c \in Callers, call[c] = "holding",
           NEW r \in Returned, Release(c, r)
    PROVE  LockInv'
<1>1. CASE waiters = <<>>
  <2>1. call' = [call EXCEPT ![c] = r] /\ waiters' = <<>>
    BY <1>1 DEF Release
  <2>2. \A i \in 1 .. Len(waiters) : FALSE
    BY <1>1
  <2> QED
    BY <2>1, <2>2 DEF LockInv, MutualExclusion, WaitersAreQueued, LockHeld
<1>2. CASE waiters # <<>>
  <2> DEFINE h == Head(waiters)
  <2>1. /\ call' = [call EXCEPT ![c] = r, ![h] = "holding"]
        /\ waiters' = Tail(waiters)
    BY <1>2 DEF Release
  <2>2. /\ h \in Callers /\ h = waiters[1]
        /\ Tail(waiters) \in Seq(Callers)
        /\ Len(waiters) \in Nat \ {0}
        /\ Len(Tail(waiters)) = Len(waiters) - 1
        /\ \A i \in 1 .. Len(Tail(waiters)) : Tail(waiters)[i] = waiters[i + 1]
    BY <1>2, HeadTailProperties, EmptySeq DEF LockInv
  <2>3. call[h] = "queued" /\ h # c
    BY <2>2 DEF LockInv, WaitersAreQueued
  <2>4. /\ \A d \in Callers \ {c, h} : call'[d] = call[d]
        /\ call'[c] = r /\ call'[h] = "holding"
        /\ call' \in [Callers -> Waiting \cup Returned]
    BY <2>1, <2>2, <2>3 DEF LockInv
  <2>5. MutualExclusion'
    BY <2>3, <2>4 DEF LockInv, MutualExclusion
  <2>6. \A i \in 1 .. Len(waiters') :
            /\ i + 1 \in 1 .. Len(waiters) /\ i + 1 # 1
            /\ waiters'[i] = waiters[i + 1]
    BY <2>1, <2>2
  <2>7. \A i \in 1 .. Len(waiters') : call'[waiters'[i]] = "queued"
    <3> SUFFICES ASSUME NEW i \in 1 .. Len(waiters')
                 PROVE  call'[waiters'[i]] = "queued"
      OBVIOUS
    <3>1. waiters[i + 1] \in Callers /\ call[waiters[i + 1]] = "queued"
      BY <2>6, ElementOfSeq DEF LockInv, WaitersAreQueued
    <3>2. waiters[i + 1] # h
      BY <2>2, <2>6 DEF LockInv, WaitersAreQueued
    <3> QED
      BY <3>1, <3>2, <2>4, <2>6
  <2>8. \A i, j \in 1 .. Len(waiters') : waiters'[i] = waiters'[j] => i = j
    BY <2>1, <2>2, <2>6 DEF LockInv, WaitersAreQueued
  <2>9. ASSUME NEW d \in Callers, call'[d] = "queued"
        PROVE  \E i \in 1 .. Len(waiters') : waiters'[i] = d
    <3>1. d # h /\ call[d] = "queued"
      BY <2>4, <2>9
    <3>2. PICK i \in 1 .. Len(waiters) : waiters[i] = d
      BY <3>1 DEF LockInv, WaitersAreQueued
    <3>3. i # 1
      BY <3>1, <3>2, <2>2
    <3>4. i - 1 \in 1 .. Len(waiters') /\ waiters'[i - 1] = d
      BY <3>2, <3>3, <2>1, <2>2
    <3> QED
      BY <3>4
  <2> QED
    BY <2>1, <2>2, <2>4, <2>5, <2>7, <2>8, <2>9
    DEF LockInv, WaitersAreQueued, LockHeld
<1> QED
  BY <1>1, <1>2

\* A step that changes one call between states that neither hold the lock nor
\* wait for it, and leaves the wait queue alone, keeps the agreement.
LEMMA UninvolvedStep ==
    ASSUME LockInv, NEW c \in Callers, NEW s \in {"checked"} \cup Returned,
           call[c] \in {"checked"} \cup Returned,
           call' = [call EXCEPT ![c] = s], UNCHANGED waiters
    PROVE  LockInv'
<1>1. \A d \in Callers : call'[d] = IF d = c THEN s ELSE call[d]
  BY DEF LockInv
<1>2. \A i \in 1 .. Len(waiters) : waiters[i] \in Callers
  BY ElementOfSeq DEF LockInv
<1> QED
  BY <1>1, <1>2 DEF LockInv, MutualExclusion, WaitersAreQueued, LockHeld

\* A call that finds the lock taken joins the end of the wait queue.
LEMMA JoinQueue ==
    ASSUME LockInv, NEW c \in Callers, call[c] = "checked", LockHeld,
           call' = [call EXCEPT ![c] = "queued"], waiters' = Append(waiters, c)
    PROVE  LockInv'
<1>1. \A d \in Callers : call'[d] = IF d = c THEN "queued" ELSE call[d]
  BY DEF LockInv
<1>2. /\ waiters' \in Seq(Callers) /\ Len(waiters) \in Nat
      /\ Len(waiters') = Len(waiters) + 1
      /\ \A i \in 1 .. Len(waiters) : waiters'[i] = waiters[i] /\ waiters[i] \in Callers
      /\ waiters'[Len(waiters) + 1] = c
  BY AppendProperties, LenProperties, ElementOfSeq DEF LockInv
<1>3. \A i \in 1 .. Len(waiters) : waiters[i] # c
  BY DEF LockInv, WaitersAreQueued
<1>4. WaitersAreQueued'
  <2>1. \A i \in 1 .. Len(waiters') : call'[waiters'[i]] = "queued"
    BY <1>1, <1>2, <1>3 DEF LockInv, WaitersAreQueued
  <2>2. \A i, j \in 1 .. Len(waiters') : waiters'[i] = waiters'[j] => i = j
    BY <1>2, <1>3 DEF LockInv, WaitersAreQueued
  <2>3. \A d \in Callers :
           call'[d] = "queued" => \E i \in 1 .. Len(waiters') : waiters'[i] = d
    BY <1>1, <1>2 DEF LockInv, WaitersAreQueued
  <2> QED
    BY <2>1, <2>2, <2>3 DEF WaitersAreQueued
<1> QED
  BY <1>1, <1>2, <1>4 DEF LockInv, MutualExclusion, LockHeld

\* A waiter that is dropped leaves the others in their order.
LEMMA LeaveQueue ==
    ASSUME LockInv, NEW c \in Callers, call[c] = "queued",
           call' = [call EXCEPT ![c] = "idle"],
           NEW k \in 1 .. Len(waiters), waiters[k] = c,
           waiters' = RemoveAt(waiters, k)
    PROVE  LockInv'
<1>1. \A d \in Callers : call'[d] = IF d = c THEN "idle" ELSE call[d]
  BY DEF LockInv
<1>2. Len(waiters) \in Nat /\ \A i \in 1 .. Len(waiters) : waiters[i] \in Callers
  BY LenProperties, ElementOfSeq DEF LockInv
<1>3. /\ waiters' \in Seq(Callers) /\ Len(waiters') = Len(waiters) - 1
      /\ \A i \in 1 .. Len(waiters) - 1 :
             waiters'[i] = IF i < k THEN waiters[i] ELSE waiters[i + 1]
  BY RemoveAtProperties DEF LockInv
<1>4. WaitersAreQueued'
  <2> DEFINE old(x) == IF x < k THEN x ELSE x + 1
  <2>1. \A i \in 1 .. Len(waiters') :
            old(i) \in (1 .. Len(waiters)) \ {k} /\ waiters'[i] = waiters[old(i)]
    <3> SUFFICES ASSUME NEW i \in 1 .. Len(waiters')
                 PROVE  old(i) \in (1 .. Len(waiters)) \ {k} /\ waiters'[i] = waiters[old(i)]
      OBVIOUS
    <3>1. k \in Nat /\ i \in Nat /\ i \in 1 .. Len(waiters) - 1
      BY <1>2, <1>3
    <3>2. CASE i < k
      BY <3>1, <3>2, <1>2, <1>3
    <3>3. CASE ~(i < k)
      BY <3>1, <3>3, <1>2, <1>3
    <3> QED
      BY <3>2, <3>3
  <2>2. \A j \in (1 .. Len(waiters)) \ {k} : waiters[j] # c /\ call'[waiters[j]] = "queued"
    BY <1>1, <1>2 DEF LockInv, WaitersAreQueued
  <2>3. \A i \in 1 .. Len(waiters') : call'[waiters'[i]] = "queued"
    <3> SUFFICES ASSUME NEW i \in 1 .. Len(waiters')
                 PROVE  call'[waiters'[i]] = "queued"
      OBVIOUS
    <3>1. old(i) \in (1 .. Len(waiters)) \ {k} /\ waiters'[i] = waiters[old(i)]
      BY <2>1
    <3> HIDE DEF old
    <3> QED
      BY <3>1, <2>2
  <2>4. \A i, j \in 1 .. Len(waiters') : waiters'[i] = waiters'[j] => i = j
    <3> SUFFICES ASSUME NEW i \in 1 .. Len(waiters'), NEW j \in 1 .. Len(waiters'),
                        waiters'[i] = waiters'[j]
                 PROVE  i = j
      OBVIOUS
    <3>1. /\ old(i) \in 1 .. Len(waiters) /\ waiters'[i] = waiters[old(i)]
          /\ old(j) \in 1 .. Len(waiters) /\ waiters'[j] = waiters[old(j)]
      BY <2>1
    <3>2. \A p, q \in 1 .. Len(waiters) : waiters[p] = waiters[q] => p = q
      BY DEF LockInv, WaitersAreQueued
    <3> HIDE DEF old
    <3>3. waiters[old(i)] = waiters[old(j)]
      BY <3>1
    <3>4. old(i) = old(j)
      BY <3>1, <3>2, <3>3
    <3> QED
      BY <3>4, <1>2, <1>3 DEF old
  <2>5. ASSUME NEW d \in Callers, call'[d] = "queued"
        PROVE  \E i \in 1 .. Len(waiters') : waiters'[i] = d
    <3>1. d # c /\ call[d] = "queued"
      BY <1>1, <2>5
    <3>2. PICK j \in 1 .. Len(waiters) : waiters[j] = d
      BY <3>1 DEF LockInv, WaitersAreQueued
    <3>3. CASE j < k
      BY <3>2, <3>3, <1>2, <1>3
    <3>4. CASE j > k
      <4>1. j - 1 \in 1 .. Len(waiters) - 1 /\ waiters'[j - 1] = d
        BY <3>2, <3>4, <1>2, <1>3
      <4> QED
        BY <4>1, <1>3
    <3> QED
      BY <3>1, <3>2, <3>3, <3>4, <1>2
  <2> QED
    BY <2>3, <2>4, <2>5 DEF WaitersAreQueued
<1>5. LockHeld' \/ waiters' = <<>>
  <2>1. waiters # <<>>
    BY <1>2
  <2>2. PICK h \in Callers : call[h] = "holding"
    BY <2>1 DEF LockInv, LockHeld
  <2>3. call'[h] = "holding"
    BY <1>1, <2>2
  <2> QED
    BY <2>3 DEF LockHeld
<1> QED
  BY <1>1, <1>3, <1>4, <1>5 DEF LockInv, MutualExclusion

\* A lock without holder and waiters is in order.
LEMMA LockIdle ==
    ASSUME call = [c \in Callers |-> "idle"], waiters = <<>>
    PROVE  LockInv
<1>1. <<>> \in Seq(Callers) /\ \A i \in 1 .. Len(<<>>) : FALSE
  BY EmptySeq
<1> QED
  BY <1>1 DEF LockInv, MutualExclusion, WaitersAreQueued, LockHeld

\* When every call is gone, as after the end of the child, the lock is idle.
LEMMA LockReset ==
    ASSUME call' = [c \in Callers |-> "idle"], waiters' = <<>>
    PROVE  LockInv'
<1>1. <<>> \in Seq(Callers) /\ \A i \in 1 .. Len(<<>>) : FALSE
  BY EmptySeq
<1> QED
  BY <1>1 DEF LockInv, MutualExclusion, WaitersAreQueued, LockHeld

\* A step that touches neither calls nor waiters keeps the lock part.
LEMMA LockUnchanged ==
    ASSUME LockInv, UNCHANGED <<call, waiters>>
    PROVE  LockInv'
BY DEF LockInv, MutualExclusion, WaitersAreQueued, LockHeld

-----------------------------------------------------------------------------
\* The channel starts empty, with no call in progress and the lock free.
THEOREM InitInv == Init => IInv
<1> SUFFICES ASSUME Init PROVE IInv
  OBVIOUS
<1>2. LockInv
  BY LockIdle DEF Init
<1>3. delivered \o queue = <<>>
  BY ConcatEmptySeq, EmptySeq DEF Init
<1>4. ChannelInv
  BY <1>3, EmptySeq DEF Init, ChannelInv, Conservation, ClosedMeansDrained
<1> QED
  BY <1>2, <1>4 DEF IInv

\* Every step of a call keeps the lock part.
LEMMA CallKeepsLock ==
    ASSUME LockInv, NEW c \in Callers, CallStep(c)
    PROVE  LockInv'
<1>1. CASE Begin(c)
  BY <1>1, UninvolvedStep DEF Begin
<1>2. CASE Acquire(c)
  <2>1. CASE LockHeld
    BY <1>2, <2>1, JoinQueue DEF Acquire
  <2>2. CASE ~LockHeld
    <3>1. /\ call[c] = "checked" /\ waiters = <<>> /\ waiters' = <<>>
          /\ call' = [call EXCEPT ![c] = "holding"]
      BY <1>2, <2>2 DEF Acquire, LockInv
    <3>2. \A i \in 1 .. Len(waiters) : FALSE
      BY <3>1
    <3> QED
      BY <2>2, <3>1, <3>2 DEF LockInv, MutualExclusion, WaitersAreQueued, LockHeld
  <2> QED
    BY <2>1, <2>2
<1>3. CASE Deliver(c)
  BY <1>3, ReleaseLock DEF Deliver
<1>4. CASE RecvClosed(c)
  BY <1>4, ReleaseLock DEF RecvClosed
<1>5. CASE Cancel(c)
  <2>1. CASE call[c] = "checked"
    BY <1>5, <2>1, UninvolvedStep DEF Cancel
  <2>2. CASE call[c] = "queued"
    BY <1>5, <2>2, LeaveQueue DEF Cancel
  <2>3. CASE call[c] = "holding"
    BY <1>5, <2>3, ReleaseLock DEF Cancel
  <2> QED
    BY <1>5, <2>1, <2>2, <2>3 DEF Cancel
<1> QED
  BY <1>1, <1>2, <1>3, <1>4, <1>5 DEF CallStep

\* Only RecvClosed reports the end of the channel.
LEMMA ReportsClosed ==
    ASSUME LockInv, NEW c \in Callers, CallStep(c),
           NEW d \in Callers, call'[d] = "closed"
    PROVE  call[d] = "closed" \/ RecvClosed(c)
<1>1. \A r \in Returned \ {"closed"} :
          Release(c, r) => call'[d] \in {call[d], r, "holding"}
  <2> SUFFICES ASSUME NEW r \in Returned \ {"closed"}, Release(c, r)
               PROVE  call'[d] \in {call[d], r, "holding"}
    OBVIOUS
  <2>1. CASE waiters = <<>>
    BY <2>1 DEF Release, LockInv
  <2>2. CASE waiters # <<>>
    <3>1. Head(waiters) \in Callers
      BY <2>2, HeadTailProperties DEF LockInv
    <3> QED
      BY <2>2, <3>1 DEF Release, LockInv
  <2> QED
    BY <2>1, <2>2
<1> QED
  BY <1>1 DEF CallStep, Begin, Acquire, Deliver, Cancel, LockInv

\* Every step of a call keeps the channel part.
LEMMA CallKeepsChannel ==
    ASSUME IInv, NEW c \in Callers, CallStep(c), UNCHANGED <<closed, sent>>
    PROVE  ChannelInv'
<1> USE DEF IInv, ChannelInv
<1>1. CASE Deliver(c)
  <2>1. /\ delivered' = Append(delivered, Head(queue)) /\ queue' = Tail(queue)
        /\ queue # <<>>
    BY <1>1 DEF Deliver
  <2>2. delivered' \in Seq(Messages) /\ queue' \in Seq(Messages) /\ Conservation'
    <3>1. queue \in Seq(Messages) /\ delivered \in Seq(Messages) /\ sent = delivered \o queue
      BY DEF Conservation
    <3>2. /\ Append(delivered, Head(queue)) \in Seq(Messages)
          /\ Tail(queue) \in Seq(Messages)
          /\ Append(delivered, Head(queue)) \o Tail(queue) = delivered \o queue
      BY <2>1, <3>1, MoveHead
    <3> QED
      BY <2>1, <3>1, <3>2 DEF Conservation
  <2>3. delivered # sent
    BY <2>1, ConcatEqualIffEmpty DEF Conservation
  <2>4. \A d \in Callers : call'[d] # "closed"
    BY <1>1, <2>1, <2>3, ReportsClosed DEF ClosedMeansDrained, RecvClosed
  <2> QED
    BY <2>2, <2>4 DEF ClosedMeansDrained
<1>2. CASE RecvClosed(c)
  <2>1. closed /\ queue = <<>> /\ UNCHANGED <<queue, delivered>>
    BY <1>2 DEF RecvClosed
  <2>2. delivered = sent
    BY <2>1, ConcatEmptySeq DEF Conservation
  <2> QED
    BY <2>1, <2>2 DEF Conservation, ClosedMeansDrained
<1>3. CASE ~Deliver(c) /\ ~RecvClosed(c)
  <2>1. UNCHANGED <<queue, delivered>>
    BY <1>3 DEF CallStep, Begin, Acquire, Cancel
  <2>2. \A d \in Callers : call'[d] = "closed" => call[d] = "closed"
    BY <1>3, ReportsClosed
  <2> QED
    BY <2>1, <2>2 DEF Conservation, ClosedMeansDrained
<1> QED
  BY <1>1, <1>2, <1>3

\* Calls, sends and the close keep the inductive invariant.
THEOREM NextInv == IInv /\ [Next]_vars => IInv'
<1> SUFFICES ASSUME IInv, [Next]_vars PROVE IInv'
  OBVIOUS
<1> USE DEF IInv
<1>1. ASSUME NEW c \in Callers, CallStep(c), UNCHANGED <<closed, sent>> PROVE IInv'
  BY <1>1, CallKeepsLock, CallKeepsChannel
<1>2. ASSUME NEW m \in Messages, Send(m) PROVE IInv'
  <2>1. LockInv'
    BY <1>2, LockUnchanged DEF Send
  <2>2. /\ queue' \in Seq(Messages) /\ sent' \in Seq(Messages)
        /\ UNCHANGED <<closed, call, delivered>> /\ ~closed
    BY <1>2, AppendProperties DEF Send, ChannelInv
  <2>3. delivered \o Append(queue, m) = Append(delivered \o queue, m)
    BY AppendLast DEF ChannelInv
  <2>4. Conservation'
    BY <1>2, <2>3 DEF Send, ChannelInv, Conservation
  <2>5. ClosedMeansDrained'
    BY <2>2 DEF ChannelInv, ClosedMeansDrained
  <2> QED
    BY <2>1, <2>2, <2>4, <2>5 DEF ChannelInv
<1>3. CASE Close
  <2>1. LockInv'
    BY <1>3, LockUnchanged DEF Close
  <2>2. ChannelInv'
    BY <1>3 DEF Close, ChannelInv, Conservation, ClosedMeansDrained
  <2> QED
    BY <2>1, <2>2
<1>4. CASE UNCHANGED vars
  <2>1. LockInv'
    BY <1>4, LockUnchanged DEF vars
  <2>2. ChannelInv'
    BY <1>4 DEF vars, ChannelInv, Conservation, ClosedMeansDrained
  <2> QED
    BY <2>1, <2>2
<1> QED
  BY <1>1, <1>2, <1>3, <1>4 DEF Next

\* The inductive invariant holds in every reachable state.
THEOREM Invariant == Spec => []IInv
BY InitInv, NextInv, PTL DEF Spec

\* Every variable keeps its type.
THEOREM TypeCorrect == Spec => []TypeOK
<1>1. IInv => TypeOK
  BY DEF IInv, LockInv, ChannelInv, TypeOK
<1> QED
  BY <1>1, Invariant, PTL

\* At most one call is inside recv(), for any number of callers.
THEOREM AtMostOneReceiver == Spec => []MutualExclusion
<1>1. IInv => MutualExclusion
  BY DEF IInv, LockInv
<1> QED
  BY <1>1, Invariant, PTL

\* No call waits for a lock that nobody holds.
THEOREM NoLostWakeup == Spec => []NoOrphanWaiter
<1>1. IInv => NoOrphanWaiter
  <2> SUFFICES ASSUME IInv, NEW c \in Callers, call[c] = "queued" PROVE LockHeld
    BY DEF NoOrphanWaiter
  <2>1. waiters # <<>>
    <3>1. PICK i \in 1 .. Len(waiters) : waiters[i] = c
      BY DEF IInv, LockInv, WaitersAreQueued
    <3> QED
      BY <3>1
  <2> QED
    BY <2>1 DEF IInv, LockInv
<1> QED
  BY <1>1, Invariant, PTL

\* Messages are returned exactly once and in the order they were sent.
THEOREM ExactlyOnceInOrder == Spec => []Conservation
<1>1. IInv => Conservation
  BY DEF IInv, ChannelInv
<1> QED
  BY <1>1, Invariant, PTL

\* A call fails with "closed" only after the last message was returned.
THEOREM DrainBeforeError == Spec => []ClosedMeansDrained
<1>1. IInv => ClosedMeansDrained
  BY DEF IInv, ChannelInv
<1> QED
  BY <1>1, Invariant, PTL
=============================================================================
