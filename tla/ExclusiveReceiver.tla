--------------------------- MODULE ExclusiveReceiver ---------------------------
(***************************************************************************)
(* One message channel behind a tokio Mutex: the pattern of                *)
(* receive_from_foreign, receive_text and receive_binary.                  *)
(*                                                                         *)
(*     if rx.try_lock().is_err() { return Err("already locked") }   Begin  *)
(*     let mut rx = rx.lock().await;                                Acquire*)
(*     rx.recv().await                                 Deliver / RecvClosed*)
(*                                                                         *)
(* The guard of try_lock is dropped at once, and lock().await may yield    *)
(* before it takes the lock (callers on other threads, or a tokio task     *)
(* whose cooperative budget is spent), so Begin and Acquire are two steps  *)
(* and other calls run in between.  A future can be dropped at any await   *)
(* (Cancel).  tokio's Mutex is fair: the permit goes to the first waiter.  *)
(***************************************************************************)
EXTENDS Naturals, Sequences, SequencesExt

CONSTANTS Callers,     \* the calls that may be in progress at the same time
          Messages,    \* what can be put in the channel
          MaxSends     \* bound: number of messages ever sent

ASSUME MaxSendsAssumption == MaxSends \in Nat

VARIABLES
    queue,       \* messages in the channel, oldest first
    closed,      \* the sending half is gone
    call,        \* call[c]: how far the call c is, or how the last one ended
    waiters,     \* the mutex's wait queue, in FIFO order
    delivered,   \* history: messages returned to callers, in that order
    sent         \* history: messages put in the channel, in that order

vars == <<queue, closed, call, waiters, delivered, sent>>

Waiting == {"checked", "queued", "holding"}
Returned == {"idle", "locked", "closed"}   \* never called or Ok / the two Err

Init ==
    /\ queue = <<>> /\ closed = FALSE
    /\ call = [c \in Callers |-> "idle"] /\ waiters = <<>>
    /\ delivered = <<>> /\ sent = <<>>

LockHeld == \E c \in Callers : call[c] = "holding"

\* Mutation of Release: the lock becomes free and nobody is woken.
Release_NoHandoff(c, result) ==
    call' = [call EXCEPT ![c] = result] /\ UNCHANGED waiters

\* Dropping the MutexGuard hands the lock to the first waiter.
Release(c, result) ==
    IF waiters = <<>>
    THEN /\ call' = [call EXCEPT ![c] = result]
         /\ UNCHANGED waiters
    ELSE /\ call' = [call EXCEPT ![c] = result, ![Head(waiters)] = "holding"]
         /\ waiters' = Tail(waiters)

-----------------------------------------------------------------------------
(* The steps of a call.  They leave `sent' and `closed' to the sender.      *)

\* The try_lock test: an error if the lock is taken now.
Begin(c) ==
    /\ call[c] \in Returned
    /\ call' = [call EXCEPT ![c] = IF LockHeld THEN "locked" ELSE "checked"]
    /\ UNCHANGED <<queue, waiters, delivered>>

\* Mutation of Acquire: use the receiver without waiting for the lock.
Acquire_NoLock(c) ==
    /\ call[c] = "checked"
    /\ call' = [call EXCEPT ![c] = "holding"]
    /\ UNCHANGED <<waiters, queue, delivered>>

\* lock().await: take the lock, or join the wait queue.
Acquire(c) ==
    /\ call[c] = "checked"
    /\ IF LockHeld
       THEN /\ call' = [call EXCEPT ![c] = "queued"]
            /\ waiters' = Append(waiters, c)
       ELSE /\ call' = [call EXCEPT ![c] = "holding"]
            /\ UNCHANGED waiters
    /\ UNCHANGED <<queue, delivered>>

\* Mutation of Deliver: the message stays in the channel.
Deliver_Peek(c) ==
    /\ call[c] = "holding"
    /\ queue # <<>>
    /\ delivered' = Append(delivered, Head(queue))
    /\ UNCHANGED queue
    /\ Release(c, "idle")

\* recv().await returns a message; the guard is dropped on return.
Deliver(c) ==
    /\ call[c] = "holding"
    /\ queue # <<>>
    /\ delivered' = Append(delivered, Head(queue))
    /\ queue' = Tail(queue)
    /\ Release(c, "idle")

\* Mutations of RecvClosed: fail although messages are left; fail only while
\* messages are left; return the error as if it were a message.
RecvClosed_Early(c) ==
    /\ call[c] = "holding" /\ closed
    /\ Release(c, "closed")
    /\ UNCHANGED <<queue, delivered>>
RecvClosed_Undrained(c) ==
    /\ call[c] = "holding"
    /\ closed /\ queue # <<>>
    /\ Release(c, "closed")
    /\ UNCHANGED <<queue, delivered>>
RecvClosed_AsMessage(c) ==
    /\ call[c] = "holding"
    /\ closed /\ queue = <<>>
    /\ delivered' = Append(delivered, "none")
    /\ Release(c, "idle")
    /\ UNCHANGED queue

\* recv().await fails: the senders are gone and the channel is drained.
RecvClosed(c) ==
    /\ call[c] = "holding"
    /\ closed /\ queue = <<>>
    /\ Release(c, "closed")
    /\ UNCHANGED <<queue, delivered>>

\* The future is dropped before it completes; recv() has taken nothing.
Cancel(c) ==
    /\ \/ /\ call[c] = "checked"
          /\ call' = [call EXCEPT ![c] = "idle"]
          /\ UNCHANGED waiters
       \/ /\ call[c] = "queued"
          /\ call' = [call EXCEPT ![c] = "idle"]
          /\ \E i \in 1 .. Len(waiters) :
                waiters[i] = c /\ waiters' = RemoveAt(waiters, i)
       \/ /\ call[c] = "holding"
          /\ Release(c, "idle")
    /\ UNCHANGED <<queue, delivered>>

CallStep(c) == Begin(c) \/ Acquire(c) \/ Deliver(c) \/ RecvClosed(c) \/ Cancel(c)

(* The sending half.                                                        *)
Send(m) ==
    /\ ~closed /\ Len(sent) < MaxSends
    /\ queue' = Append(queue, m)
    /\ sent' = Append(sent, m)
    /\ UNCHANGED <<closed, call, waiters, delivered>>

Close ==
    /\ ~closed /\ closed' = TRUE
    /\ UNCHANGED <<queue, call, waiters, delivered, sent>>

Next ==
    \/ \E c \in Callers : CallStep(c) /\ UNCHANGED <<closed, sent>>
    \/ \E m \in Messages : Send(m)
    \/ Close

Spec == Init /\ [][Next]_vars

\* The executor polls a woken task again; nobody has to call or to cancel.
Fairness ==
    \A c \in Callers :
        WF_vars((Acquire(c) \/ Deliver(c) \/ RecvClosed(c)) /\ UNCHANGED <<closed, sent>>)

FairSpec == Spec /\ Fairness

-----------------------------------------------------------------------------
TypeOK ==
    /\ queue \in Seq(Messages)
    /\ closed \in BOOLEAN
    /\ call \in [Callers -> Waiting \cup Returned]
    /\ waiters \in Seq(Callers)
    /\ delivered \in Seq(Messages)
    /\ sent \in Seq(Messages)

\* Two calls are never inside recv() at once, although the try_lock test and
\* lock().await are separate steps.
MutualExclusion ==
    \A c, d \in Callers : call[c] = "holding" /\ call[d] = "holding" => c = d

\* The wait queue holds each call that waits in lock().await, once.
WaitersAreQueued ==
    /\ \A i \in 1 .. Len(waiters) : call[waiters[i]] = "queued"
    /\ \A i, j \in 1 .. Len(waiters) : waiters[i] = waiters[j] => i = j
    /\ \A c \in Callers :
          call[c] = "queued" => \E i \in 1 .. Len(waiters) : waiters[i] = c

\* No wakeup is lost: a call waits only while another call holds the lock,
\* also after calls were dropped in the middle of the wait queue.
NoOrphanWaiter ==
    (\E c \in Callers : call[c] = "queued") => LockHeld

\* Exactly once, in order: whatever calls ran, failed or were dropped, the
\* messages returned and those still queued are the messages sent.
Conservation == sent = delivered \o queue

\* A receiver is told that the channel closed only when it has handed out
\* every message: closing loses nothing.
ClosedMeansDrained ==
    \A c \in Callers : call[c] = "closed" => closed /\ delivered = sent

\* When the sending half is gone every pending receive returns: nobody waits
\* for a message that cannot come.
CloseWakesAll ==
    \A c \in Callers :
        closed /\ call[c] \in Waiting ~> call[c] \in Returned

\* Once calls are no longer dropped, a message in the channel reaches a caller
\* as long as some call is pending.
MessagesReachCallers ==
    <>[][\A c \in Callers : ~Cancel(c)]_vars =>
    \A n \in 1 .. MaxSends :
        (Len(sent) >= n /\ \E c \in Callers : call[c] \in Waiting)
            ~> (Len(delivered) >= n \/ \A c \in Callers : call[c] \in Returned)
=============================================================================
