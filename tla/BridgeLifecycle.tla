---------------------------- MODULE BridgeLifecycle ----------------------------
(***************************************************************************)
(* One bridge from the start of the child process to its end: the host     *)
(* half (ConcurrentlyExecuteServer owned by a LangBridge userdata) and the *)
(* child half (ConcurrentlyExecuteTransportClient::run, run_v8_client).    *)
(* Messages are left to FusionBridge.                                      *)
(*                                                                         *)
(* The concurrentlyexec crate that starts, kills and waits for the process *)
(* is not in this repository; Dies and CancelToken state all that is       *)
(* assumed of it.                                                          *)
(***************************************************************************)

VARIABLES
    conn,        \* host: "connecting", "open", "failed" or "dropped"
    phase,       \* child: see Phases
    messenger,   \* the child has sent its channel over the oneshot
    callback,    \* CONCURRENT_EXECUTE_CB is Some
    heapHit,     \* heap_exhausted_token is cancelled
    settled,     \* the mod_evaluate future is ready, with Ok or Err
    stopping,    \* the executor has been asked to shut the child down
    closing,     \* shutdown(): "no" call yet, "waiting" or "done"
    cancelToken  \* the executor's cancel_token, read by is_shutdown

lifecycleVars == <<conn, phase, messenger, callback, heapHit, settled,
                   stopping, closing, cancelToken>>

Phases == {"spawned", "handshaken", "loading", "running",
           "finished",  \* the loop ended because the module settled
           "aborted",   \* the loop or the load ended because of the heap limit
           "dead"}      \* panic, crash or kill

Exited == phase \in {"finished", "aborted", "dead"}

\* The guard of CONCURRENT_EXECUTE_CB lives as long as the callback runs.
CallbackLocked == phase \in {"loading", "running"}

Init ==
    /\ conn = "connecting" /\ phase = "spawned" /\ messenger = FALSE
    /\ callback = FALSE /\ heapHit = FALSE /\ settled = FALSE
    /\ stopping = FALSE /\ closing = "no" /\ cancelToken = FALSE

hostVars == <<conn, stopping, closing, cancelToken>>
childVars == <<phase, messenger, callback, heapHit, settled>>

-----------------------------------------------------------------------------
(* The child process.                                                       *)

\* set_concurrently_execute_callback: blocks while a callback runs.
SetCallback ==
    /\ ~Exited /\ ~CallbackLocked /\ ~callback
    /\ callback' = TRUE
    /\ UNCHANGED <<phase, messenger, heapHit, settled, hostVars>>

\* run: the host gets its sender before the child knows whether it can work.
Handshake ==
    /\ phase = "spawned"
    /\ phase' = "handshaken" /\ messenger' = TRUE
    /\ UNCHANGED <<callback, heapHit, settled, hostVars>>

\* run: lock the callback; a missing one is a panic.
StartCallback ==
    /\ phase = "handshaken"
    /\ phase' = IF callback THEN "loading" ELSE "dead"
    /\ UNCHANGED <<messenger, callback, heapHit, settled, hostVars>>

Load(result) ==
    /\ phase = "loading"
    /\ phase' = result
    /\ UNCHANGED <<messenger, callback, heapHit, settled, hostVars>>

LoadDone == Load("running")
LoadFails == Load("dead")
LoadCancelled == heapHit /\ Load("aborted")

\* The near-heap-limit callback; JS is terminated and the token cancelled.
HeapLimit ==
    /\ phase \in {"loading", "running"} /\ ~heapHit
    /\ heapHit' = TRUE
    /\ UNCHANGED <<phase, messenger, callback, settled, hostVars>>

ModuleSettles ==
    /\ phase = "running" /\ ~settled
    /\ settled' = TRUE
    /\ UNCHANGED <<phase, messenger, callback, heapHit, hostVars>>

EndLoop(result) ==
    /\ phase = "running"
    /\ phase' = result
    /\ UNCHANGED <<messenger, callback, heapHit, settled, hostVars>>

\* Mutation of LoopCancelled: the token is looked at only once the module is done.
LoopCancelled_Late == heapHit /\ settled /\ EndLoop("aborted")
LoopCancelled == heapHit /\ EndLoop("aborted")
LoopModuleDone == settled /\ EndLoop("finished")

\* The process crashes, or the executor kills it.
Dies ==
    /\ ~Exited
    /\ phase' = "dead"
    /\ UNCHANGED <<messenger, callback, heapHit, settled, hostVars>>

-----------------------------------------------------------------------------
(* The host.                                                                *)

\* ConcurrentlyExecuteServer::new: ms_rx.recv().await.
Connected ==
    /\ conn = "connecting" /\ messenger
    /\ conn' = "open"
    /\ UNCHANGED <<stopping, closing, cancelToken, childVars>>

\* Mutation of ConnectFails: the end of the oneshot goes unnoticed.
ConnectFails_Unnoticed ==
    /\ conn = "connecting" /\ messenger /\ Exited
    /\ conn' = "failed"
    /\ UNCHANGED <<stopping, closing, cancelToken, childVars>>

ConnectFails ==
    /\ conn = "connecting" /\ ~messenger /\ Exited
    /\ conn' = "failed"
    /\ UNCHANGED <<stopping, closing, cancelToken, childVars>>

\* Mutation of Shutdown: wait for the exit without asking for it.
Shutdown_OnlyWaits ==
    /\ conn = "open"
    /\ closing' = "waiting"
    /\ UNCHANGED <<conn, stopping, cancelToken, childVars>>

\* shutdown(): ask the executor, then wait for the process to exit.  Calls that
\* are made while one waits join it: all of them wait for the same exit.
Shutdown ==
    /\ conn = "open"
    /\ closing' = "waiting" /\ stopping' = TRUE
    /\ UNCHANGED <<conn, cancelToken, childVars>>

ShutdownReturns ==
    /\ closing = "waiting" /\ Exited
    /\ closing' = "done"
    /\ UNCHANGED <<conn, stopping, cancelToken, childVars>>

\* Mutation of DropBridge: the test of is_shutdown is inverted.
DropBridge_Inverted ==
    /\ conn = "open" /\ closing # "waiting"
    /\ conn' = "dropped"
    /\ stopping' = (stopping \/ cancelToken)
    /\ UNCHANGED <<closing, cancelToken, childVars>>

\* Drop for LangBridge: fire_shutdown unless is_shutdown.
DropBridge ==
    /\ conn = "open" /\ closing # "waiting"
    /\ conn' = "dropped"
    /\ stopping' = (stopping \/ ~cancelToken)
    /\ UNCHANGED <<closing, cancelToken, childVars>>

\* The executor cancels its token at some point of a shutdown, or when it
\* learns that the process is gone; not necessarily at once.
CancelToken ==
    /\ ~cancelToken /\ (stopping \/ Exited)
    /\ cancelToken' = TRUE
    /\ UNCHANGED <<conn, stopping, closing, childVars>>

Next ==
    \/ SetCallback \/ Handshake \/ StartCallback
    \/ LoadDone \/ LoadFails \/ LoadCancelled
    \/ HeapLimit \/ ModuleSettles \/ LoopCancelled \/ LoopModuleDone \/ Dies
    \/ Connected \/ ConnectFails \/ Shutdown \/ ShutdownReturns
    \/ DropBridge \/ CancelToken

Spec == Init /\ [][Next]_lifecycleVars

\* The two executors make progress, the load ends, select! takes each branch
\* that stays ready, and the executor kills what it was asked to stop.
Fairness ==
    /\ WF_lifecycleVars(Handshake)
    /\ WF_lifecycleVars(StartCallback)
    /\ WF_lifecycleVars(LoadDone \/ LoadFails \/ LoadCancelled)
    /\ WF_lifecycleVars(LoopCancelled)
    /\ WF_lifecycleVars(LoopModuleDone)
    /\ WF_lifecycleVars(stopping /\ Dies)
    /\ WF_lifecycleVars(Connected \/ ConnectFails)
    /\ WF_lifecycleVars(ShutdownReturns)
    /\ WF_lifecycleVars(CancelToken)

FairSpec == Spec /\ Fairness

-----------------------------------------------------------------------------
\* Dropping the userdata never leaves a child that nobody will stop, although
\* Drop skips fire_shutdown when is_shutdown already answers true.
NoOrphanChild == conn = "dropped" => stopping \/ Exited

\* new() returns, with an error if the child died before the handshake.
ConnectReturns == conn = "connecting" ~> conn # "connecting"

\* shutdown() returns, in whatever phase the child is.
ShutdownCompletes == closing = "waiting" ~> closing = "done" /\ Exited

\* A dropped bridge's child ends, and is_shutdown becomes true.
DropStopsChild == conn = "dropped" ~> Exited /\ cancelToken

\* The heap limit ends the child whether it is reached during load or later.
HeapLimitEndsChild == heapHit ~> Exited
=============================================================================
