----------------------------- MODULE FusionBridge -----------------------------
(***************************************************************************)
(* The messages of one bridge: Luau coroutines in the host process, the    *)
(* two IPC channels, the select loop of run_v8_client and the JavaScript   *)
(* of the module with its EventBridge object.                              *)
(*                                                                         *)
(*   host     HostSend -> down -> RouteFromHost -> textQ   -> receiveText  *)
(*                                              -> binaryQ -> receiveBinary*)
(*   child    JsSend -> outQ -> ForwardToHost -> up -> receive             *)
(*                                                                         *)
(* The start and the end of the child are the actions of BridgeLifecycle;  *)
(* each receiving end is an ExclusiveReceiver.  Whatever ends the child    *)
(* takes with it everything that is in the child's memory.                 *)
(***************************************************************************)
EXTENDS Naturals, Sequences, FiniteSets, SeqFunctions

CONSTANTS
    HostCallers, TextCallers, BinaryCallers,  \* concurrent receive calls
    MaxDown, MaxUp         \* bounds: messages sent by the host, by JavaScript

ASSUME BoundsAssumption == MaxDown \in Nat /\ MaxUp \in Nat

VARIABLES
    conn, phase, messenger, callback, heapHit, settled,   \* BridgeLifecycle
    stopping, closing, cancelToken,
    down, up,                \* the IPC channels: to the child, to the host
    outQ, textQ, binaryQ,    \* msg_tx/msg_rx, send_text_*, send_binary_*
    hostCall, hostWaiters,   \* receive_from_foreign: the Mutex around rx
    textCall, textWaiters, binaryCall, binaryWaiters,    \* EventBridge's two
    hostSent, jsSent,                   \* history: accepted sends
    unsent,                             \* history: send_to_host failed for these
    hostGot, textGot, binaryGot         \* history: what receive calls returned

Kinds == {"text", "binary"}
Message == [kind : Kinds, id : 1 .. MaxDown + MaxUp]

L == INSTANCE BridgeLifecycle

Host == INSTANCE ExclusiveReceiver WITH
    Callers <- HostCallers, Messages <- Message, MaxSends <- MaxUp,
    queue <- up, closed <- L!Exited, call <- hostCall, waiters <- hostWaiters,
    delivered <- hostGot, sent <- hostGot \o up

Text == INSTANCE ExclusiveReceiver WITH
    Callers <- TextCallers, Messages <- Message, MaxSends <- MaxDown,
    queue <- textQ, closed <- FALSE, call <- textCall, waiters <- textWaiters,
    delivered <- textGot, sent <- textGot \o textQ

Binary == INSTANCE ExclusiveReceiver WITH
    Callers <- BinaryCallers, Messages <- Message, MaxSends <- MaxDown,
    queue <- binaryQ, closed <- FALSE, call <- binaryCall, waiters <- binaryWaiters,
    delivered <- binaryGot, sent <- binaryGot \o binaryQ

lifecycle == <<conn, phase, messenger, callback, heapHit, settled,
               stopping, closing, cancelToken>>
hostReceiver == <<up, hostCall, hostWaiters, hostGot>>
textReceiver == <<textQ, textCall, textWaiters, textGot>>
binaryReceiver == <<binaryQ, binaryCall, binaryWaiters, binaryGot>>
vars == <<lifecycle, hostReceiver, textReceiver, binaryReceiver,
          down, outQ, hostSent, jsSent, unsent>>

Init ==
    /\ L!Init
    /\ down = <<>> /\ up = <<>> /\ outQ = <<>> /\ textQ = <<>> /\ binaryQ = <<>>
    /\ hostCall = [c \in HostCallers |-> "idle"] /\ hostWaiters = <<>>
    /\ textCall = [c \in TextCallers |-> "idle"] /\ textWaiters = <<>>
    /\ binaryCall = [c \in BinaryCallers |-> "idle"] /\ binaryWaiters = <<>>
    /\ hostSent = <<>> /\ jsSent = <<>> /\ unsent = {}
    /\ hostGot = <<>> /\ textGot = <<>> /\ binaryGot = <<>>

-----------------------------------------------------------------------------
(* The host.                                                                *)

\* sendtext and sendbinary, once the payload has passed its checks.  A send to
\* a child that is gone changes nothing here, whether it returns Ok or Err.
HostSend(k) ==
    LET m == [kind |-> k, id |-> Len(hostSent) + 1] IN
    /\ conn = "open" /\ ~L!Exited /\ Len(hostSent) < MaxDown
    /\ down' = Append(down, m) /\ hostSent' = Append(hostSent, m)
    /\ UNCHANGED <<lifecycle, hostReceiver, textReceiver, binaryReceiver,
                   outQ, jsSent, unsent>>

\* receive: any step of a call, a coroutine that is closed included.
HostReceive(c) ==
    /\ conn = "open"
    /\ Host!CallStep(c)
    /\ UNCHANGED <<lifecycle, textReceiver, binaryReceiver,
                   down, outQ, hostSent, jsSent, unsent>>

\* The userdata is dropped only when no coroutine is inside one of its calls.
DropBridge ==
    /\ \A c \in HostCallers : hostCall[c] \in Host!Returned
    /\ L!DropBridge
    /\ UNCHANGED <<hostReceiver, textReceiver, binaryReceiver,
                   down, outQ, hostSent, jsSent, unsent>>

-----------------------------------------------------------------------------
(* The branches of the select loop.                                         *)

\* One message of the host goes to the channel of its kind.
Route(Put(_, _)) ==
    /\ phase = "running" /\ down # <<>>
    /\ down' = Tail(down)
    /\ IF Head(down).kind = "text"
       THEN textQ' = Put(textQ, Head(down)) /\ UNCHANGED binaryQ
       ELSE binaryQ' = Put(binaryQ, Head(down)) /\ UNCHANGED textQ
    /\ UNCHANGED <<lifecycle, hostReceiver, textCall, textWaiters, textGot,
                   binaryCall, binaryWaiters, binaryGot, outQ, hostSent, jsSent, unsent>>

\* Mutations of RouteFromHost: newest message first; wait until the
\* previous binary message was received.
Prepend(q, m) == <<m>> \o q
RouteFromHost_Lifo == Route(Prepend)
RouteFromHost_BinaryFirst == binaryQ = <<>> /\ Route(Append)

\* receive_from_host yields a message.  (Err changes nothing: it is printed and
\* the loop goes on.)
RouteFromHost == Route(Append)

\* msg_rx yields a message and send_to_host succeeds, which it cannot once the
\* host has dropped its receiver, ...
Forward(Put(_, _)) ==
    /\ phase = "running" /\ outQ # <<>> /\ conn # "dropped"
    /\ outQ' = Tail(outQ) /\ up' = Put(up, Head(outQ))
    /\ UNCHANGED <<lifecycle, hostCall, hostWaiters, hostGot, textReceiver,
                   binaryReceiver, down, hostSent, jsSent, unsent>>

\* ... or fails, at any time: the error is ignored and the message is gone.
ForwardFails ==
    /\ phase = "running" /\ outQ # <<>>
    /\ outQ' = Tail(outQ) /\ unsent' = unsent \cup {Head(outQ)}
    /\ UNCHANGED <<lifecycle, hostReceiver, textReceiver, binaryReceiver,
                   down, hostSent, jsSent>>

\* Mutations of ForwardToHost: newest message first; the last message waits for
\* company; a message that could not be sent is tried again after the others.
ForwardToHost_Lifo == Forward(Prepend) \/ ForwardFails
ForwardToHost_Batched == Len(outQ) > 1 /\ (Forward(Append) \/ ForwardFails)
ForwardToHost_Requeues ==
    \/ Forward(Append)
    \/ /\ phase = "running" /\ outQ # <<>>
       /\ outQ' = Append(Tail(outQ), Head(outQ))
       /\ UNCHANGED <<lifecycle, hostReceiver, textReceiver, binaryReceiver,
                      down, hostSent, jsSent, unsent>>

ForwardToHost == Forward(Append) \/ ForwardFails

\* Mutation of EndOfChild: what is in the pipe to the host is lost as well.
EndOfChild_LosesPipe ==
    /\ down' = <<>> /\ outQ' = <<>> /\ textQ' = <<>> /\ binaryQ' = <<>> /\ up' = <<>>
    /\ textCall' = [c \in TextCallers |-> "idle"] /\ textWaiters' = <<>>
    /\ binaryCall' = [c \in BinaryCallers |-> "idle"] /\ binaryWaiters' = <<>>
    /\ UNCHANGED <<hostCall, hostWaiters, hostGot, textGot, binaryGot, hostSent, jsSent, unsent>>

\* The end of the child, whatever its cause: its queues and its calls are gone.
EndOfChild ==
    /\ down' = <<>> /\ outQ' = <<>> /\ textQ' = <<>> /\ binaryQ' = <<>>
    /\ textCall' = [c \in TextCallers |-> "idle"] /\ textWaiters' = <<>>
    /\ binaryCall' = [c \in BinaryCallers |-> "idle"] /\ binaryWaiters' = <<>>
    /\ UNCHANGED <<hostReceiver, textGot, binaryGot, hostSent, jsSent, unsent>>

KeepMessages ==
    UNCHANGED <<hostReceiver, textReceiver, binaryReceiver,
                down, outQ, hostSent, jsSent, unsent>>

LoopModuleDone == L!LoopModuleDone /\ EndOfChild
LoopCancelled == L!LoopCancelled /\ EndOfChild
Dies == L!Dies /\ EndOfChild
LoadEnds ==
    \/ L!LoadDone /\ KeepMessages
    \/ (L!LoadFails \/ L!LoadCancelled) /\ EndOfChild
\* Mutation of StartCallback: the callback starts with empty channels.
StartCallback_Empties == L!StartCallback /\ EndOfChild
StartCallback ==
    L!StartCallback /\ IF callback THEN KeepMessages ELSE EndOfChild

\* The steps of the lifecycle that do not touch the messages.
Control ==
    /\ \/ L!SetCallback \/ L!Handshake \/ L!HeapLimit \/ L!ModuleSettles
       \/ L!Connected \/ L!ConnectFails \/ L!Shutdown \/ L!ShutdownReturns
       \/ L!CancelToken
    /\ KeepMessages

-----------------------------------------------------------------------------
(* JavaScript, which runs inside the run_event_loop branch.                 *)

\* sendText and sendBinary, once the size check has passed: one channel.
JsSend(k) ==
    LET m == [kind |-> k, id |-> Len(jsSent) + 1] IN
    /\ phase = "running" /\ Len(jsSent) < MaxUp
    /\ outQ' = Append(outQ, m) /\ jsSent' = Append(jsSent, m)
    /\ UNCHANGED <<lifecycle, hostReceiver, textReceiver, binaryReceiver,
                   down, hostSent, unsent>>

\* An op future is dropped only with the whole runtime, and the senders live
\* as long as it, so neither Cancel nor RecvClosed can happen here.
JsReceiveText(c) ==
    /\ phase = "running"
    /\ Text!Begin(c) \/ Text!Acquire(c) \/ Text!Deliver(c)
    /\ UNCHANGED <<lifecycle, hostReceiver, binaryReceiver,
                   down, outQ, hostSent, jsSent, unsent>>

JsReceiveBinary(c) ==
    /\ phase = "running"
    /\ Binary!Begin(c) \/ Binary!Acquire(c) \/ Binary!Deliver(c)
    /\ UNCHANGED <<lifecycle, hostReceiver, textReceiver,
                   down, outQ, hostSent, jsSent, unsent>>

Next ==
    \/ \E k \in Kinds : HostSend(k) \/ JsSend(k)
    \/ \E c \in HostCallers : HostReceive(c)
    \/ \E c \in TextCallers : JsReceiveText(c)
    \/ \E c \in BinaryCallers : JsReceiveBinary(c)
    \/ RouteFromHost \/ ForwardToHost
    \/ LoopModuleDone \/ LoopCancelled \/ Dies \/ LoadEnds \/ StartCallback
    \/ Control \/ DropBridge

Spec == Init /\ [][Next]_vars

\* select! polls its branches in random order, so one that stays ready is
\* taken; the executors poll woken tasks; JavaScript's turns end.  Nobody is
\* obliged to send, to call receive, to settle or to shut down.
Fairness ==
    /\ WF_vars(StartCallback) /\ WF_vars(LoadEnds)
    /\ WF_vars(LoopCancelled) /\ WF_vars(LoopModuleDone)
    /\ WF_vars(stopping /\ Dies)
    /\ WF_vars((L!Handshake \/ L!Connected \/ L!ConnectFails \/ L!ShutdownReturns
                 \/ L!CancelToken) /\ KeepMessages)
    /\ WF_vars(RouteFromHost) /\ WF_vars(ForwardToHost)
    /\ \A c \in HostCallers :
          WF_vars(HostReceive(c) /\ ~Host!Begin(c) /\ ~Host!Cancel(c))
    /\ \A c \in TextCallers : WF_vars(JsReceiveText(c) /\ ~Text!Begin(c))
    /\ \A c \in BinaryCallers : WF_vars(JsReceiveBinary(c) /\ ~Binary!Begin(c))

FairSpec == Spec /\ Fairness

-----------------------------------------------------------------------------
OfKind(s, k) == Select(s, {m \in Message : m.kind = k})

\* What JavaScript sent, less the messages whose own send_to_host failed.
Accepted == Select(jsSent, Message \ unsent)

\* While the child runs, every message JavaScript sent is with the host, on its
\* way, or in msg_rx, unless its own send failed: in order, none lost, none
\* twice, however many receive calls were made, refused or dropped.
UpInFlight == ~L!Exited => Accepted = hostGot \o up \o outQ

\* After the end of the child the host can still receive all that was forwarded:
\* besides the failed sends, what is lost is a suffix of what JavaScript sent, so
\* a failed send moves no message behind a later one.
UpKeepsPrefix ==
    /\ Len(hostGot \o up) <= Len(Accepted)
    /\ hostGot \o up = SubSeq(Accepted, 1, Len(hostGot \o up))

\* While the child lives, every message of the host is with JavaScript or in one
\* queue of its kind, in order; this spans the time before the module is loaded.
DownInFlight ==
    ~L!Exited =>
        /\ OfKind(hostSent, "text") = textGot \o textQ \o OfKind(down, "text")
        /\ OfKind(hostSent, "binary") = binaryGot \o binaryQ \o OfKind(down, "binary")

\* Each receiving end is used by one call at a time, in the host and in both
\* halves of the EventBridge.
ReceiversExclusive ==
    Host!MutualExclusion /\ Text!MutualExclusion /\ Binary!MutualExclusion

\* A dropped bridge leaves no child that nobody stops, in the composition too.
NoOrphanChild == L!NoOrphanChild

\* A receive call is told that the bridge is closed only when the child is gone
\* and everything it forwarded was received.
ClosedMeansNothingLeft == Host!ClosedMeansDrained

\* Each direction and kind is an ordered link.
UpLink == INSTANCE OrderedLink WITH
    Messages <- Message, Lossy <- TRUE, sent <- Accepted, rcvd <- hostGot
TextLink == INSTANCE OrderedLink WITH
    Messages <- Message, Lossy <- FALSE,
    sent <- OfKind(hostSent, "text"), rcvd <- textGot
BinaryLink == INSTANCE OrderedLink WITH
    Messages <- Message, Lossy <- FALSE,
    sent <- OfKind(hostSent, "binary"), rcvd <- binaryGot

\* The bridge implements an ordered link from JavaScript to the host, for the
\* two kinds together, which loses a message only when send_to_host fails, ...
UpIsOrderedLink == UpLink!Spec
\* ... and one for each kind to JavaScript, whatever the other kind does.
DownAreOrderedLinks == TextLink!Spec /\ BinaryLink!Spec

\* The host's receiver behaves as ExclusiveReceiver says when the sender is
\* the child's loop and the close is the end of the child.
HostEndIsExclusiveReceiver == Host!Spec

\* What JavaScript sent is given to send_to_host unless the child ends first, and
\* a failed send does not stop the next: no other branch of the select loop can
\* hold a message back for ever.
SentIsForwarded ==
    \A n \in 1 .. MaxUp :
        Len(jsSent) >= n ~>
            Len(hostGot \o up) + Cardinality(unsent) >= n \/ L!Exited

\* A pending receive of one kind gets its message even if a call for the other
\* kind waits for ever and the host sends both kinds on one channel.
TextReachesJs ==
    \A n \in 1 .. MaxDown, c \in TextCallers :
        Len(OfKind(hostSent, "text")) >= n /\ textCall[c] \in Text!Waiting
            ~> Len(textGot) >= n \/ L!Exited \/ textCall[c] \in Text!Returned
BinaryReachesJs ==
    \A n \in 1 .. MaxDown, c \in BinaryCallers :
        Len(OfKind(hostSent, "binary")) >= n /\ binaryCall[c] \in Binary!Waiting
            ~> Len(binaryGot) >= n \/ L!Exited \/ binaryCall[c] \in Binary!Returned
DownReachesJs == TextReachesJs /\ BinaryReachesJs

\* No coroutine waits in receive for ever once the child is gone.
ReceiveReturnsAfterExit ==
    \A c \in HostCallers :
        L!Exited /\ hostCall[c] \in Host!Waiting ~> hostCall[c] \in Host!Returned

\* The waits of the host and the causes that end the child, as BridgeLifecycle
\* states them, while messages compete for the same loop: new() returns;
ConnectReturns == L!ConnectReturns
\* ... shutdown() returns;
ShutdownCompletes == L!ShutdownCompletes
\* ... a dropped userdata ends its child;
DropStopsChild == L!DropStopsChild
\* ... the heap limit ends the child in every phase.
HeapLimitEndsChild == L!HeapLimitEndsChild

\* What the documentation of sendText says: a message that was sent gets to the
\* other side when the module runs to its end with the host there and no failed send.
CompletionDeliversAll ==
    phase = "finished" /\ conn = "open" /\ unsent = {} => jsSent = hostGot \o up
=============================================================================
