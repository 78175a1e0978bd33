--------------------------------- MODULE Timers ---------------------------------
(***************************************************************************)
(* The timers of structuredclone.js around the queue of the event loop,     *)
(* which is deno_core's.  A delay decides nothing here: the queue may call   *)
(* any timer it holds when no script runs.  Scripts enter async contexts     *)
(* and leave them as they like.                                            *)
(***************************************************************************)
EXTENDS Naturals, Sequences

CONSTANTS
    Contexts,       \* async contexts: numbers; scripts start in 0
    MaxTimers       \* bound: of timers set

VARIABLES
    context,        \* the current async context
    timers,         \* the queue: an id to its callback
    set,            \* history: the context in which each timer was set; ids count from 1
    calling,        \* the id whose callback runs, or 0
    oldContext,     \* of that callback
    entered,        \* history: the context in which the event loop calls callbacks
    canceled        \* history: ids cleared, and timeouts that were called

timerVars == <<context, timers, set, calling, oldContext, entered, canceled>>

TimersAssumption == 0 \in Contexts /\ MaxTimers \in Nat

-----------------------------------------------------------------------------
WithoutTimer(id) == [i \in DOMAIN timers \ {id} |-> timers[i]]

\* A conversion of the arguments that throws comes before the queue: no timer is set.
QueueUserTimer(repeat, asyncContext) ==
    LET id == Len(set) + 1 IN
    /\ id <= MaxTimers
    /\ timers' = [i \in DOMAIN timers \cup {id} |->
                     IF i = id THEN [repeat |-> repeat, asyncContext |-> asyncContext]
                     ELSE timers[i]]
    /\ set' = Append(set, context)
    /\ UNCHANGED <<context, calling, oldContext, entered, canceled>>

\* Mutation of SetInterval: every call takes the context that it finds.
SetInterval_Unbound == \E c \in Contexts : QueueUserTimer(TRUE, c)

SetTimeout == QueueUserTimer(FALSE, context)
SetInterval == QueueUserTimer(TRUE, context)

\* clearTimeout and clearInterval take either kind, and ids that nothing has.
ClearTimer(id) ==
    /\ timers' = WithoutTimer(id)
    /\ canceled' = canceled \cup ({id} \cap DOMAIN set)
    /\ UNCHANGED <<context, set, calling, oldContext, entered>>

\* A script outside of timers leaves its context as the one of the event loop.
EnterContext(c) ==
    /\ context' = c
    /\ entered' = IF calling = 0 THEN c ELSE entered
    /\ UNCHANGED <<timers, set, calling, oldContext, canceled>>

-----------------------------------------------------------------------------
Fire(id) ==
    /\ calling = 0 /\ id \in DOMAIN timers
    /\ calling' = id /\ oldContext' = context
    /\ context' = timers[id].asyncContext
    /\ timers' = IF timers[id].repeat THEN timers ELSE WithoutTimer(id)
    /\ canceled' = IF timers[id].repeat THEN canceled ELSE canceled \cup {id}
    /\ UNCHANGED <<set, entered>>

\* The callback returns or throws.
Finally ==
    /\ calling # 0 /\ calling' = 0 /\ context' = oldContext
    /\ UNCHANGED <<timers, set, oldContext, entered, canceled>>

TimersInit ==
    /\ context = 0 /\ entered = 0 /\ timers = <<>> /\ set = <<>>
    /\ calling = 0 /\ oldContext = 0 /\ canceled = {}

TimersNext ==
    \/ SetTimeout \/ SetInterval \/ Finally
    \/ \E id \in 0 .. MaxTimers : ClearTimer(id) \/ Fire(id)
    \/ \E c \in Contexts : EnterContext(c)

TimersSpec == TimersInit /\ [][TimersNext]_timerVars

-----------------------------------------------------------------------------
\* A callback begins in the context in which its timer was set, however often it is
\* called and whatever context other callbacks were left in, and is not called after
\* its timer was cleared, nor, for a timeout, a second time; nothing that a callback
\* does to the context outlives it, whether it returns or throws.
CallbackIsBound ==
    /\ (calling = 0 /\ calling' # 0) => (context' = set[calling'] /\ calling' \notin canceled)
    /\ calling' = 0 => context' = entered'
TimersKeepContexts == [][CallbackIsBound]_timerVars
=============================================================================
