----------------------------- MODULE EventDispatch -----------------------------
(***************************************************************************)
(* EventTarget and Event of 02_events.js: addEventListener,                *)
(* removeEventListener, dispatchEvent with its capture and bubble walks,   *)
(* and reportException for listeners that throw.                           *)
(*                                                                         *)
(* A listener is arbitrary code that may do any of this again before it    *)
(* returns, so the dispatches in progress form a stack of frames.  Code of *)
(* the user runs when the stack is empty or its top frame is "calling".    *)
(*                                                                         *)
(* Targets form a tree, fixed while a dispatch runs; what makes a target a *)
(* node or a shadow root are properties that code outside this file gives  *)
(* it.  No target is slottable.  The exported function `dispatch' is       *)
(* entered through dispatchEvent and reportException only.                 *)
(***************************************************************************)
EXTENDS Naturals, Sequences, SequencesExt, FiniteSets, SeqFunctions

CONSTANTS
    Targets, Parent,   \* Parent[t] is a target or None
    Nodes,             \* targets with a nodeType and a parentNode
    ShadowRoots, Closed,  \* nodes with a host, which is the parent; mode "closed"
    Global,            \* globalThis, a target
    Events,            \* event objects of the user, of type "plain"
    Bubbling, Cancelable,  \* those with the attribute
    OnSlots, Special,  \* slots with an on-handler; those of a special error handler
    Handlers,          \* functions that are assigned to on-handlers
    Slots,             \* where listeners are registered: <<target, type>>
    Callbacks, Options,  \* what is passed to addEventListener
    None,
    Canceling,         \* bound: the events that user code cancels
    MaxListeners, MaxDepth   \* bounds: registrations ever made, frames

ErrorEvent == "ErrorEvent"        \* the event of the innermost reportException

EventDispatchAssumption ==
    /\ Global \in Targets /\ None \notin Targets /\ ErrorEvent \notin Events
    /\ Parent \in [Targets -> Targets \cup {None}]
    /\ Closed \subseteq ShadowRoots /\ ShadowRoots \subseteq Nodes /\ Nodes \subseteq Targets
    /\ \A t \in Targets : Parent[t] # None => t \in Nodes
    /\ Bubbling \subseteq Events /\ Cancelable \subseteq Events
    /\ Canceling \subseteq Events \cup {ErrorEvent}
    /\ Special \subseteq OnSlots /\ OnSlots \subseteq Slots /\ None \notin Handlers
    /\ "wrapper" \notin Callbacks
    /\ Slots \subseteq Targets \X {"plain", "error"}
    /\ Options \subseteq [capture : BOOLEAN, once : BOOLEAN, passive : BOOLEAN]
    /\ MaxListeners \in Nat /\ MaxDepth \in Nat

VARIABLES
    listeners,  \* listeners[s]: the list of the slot s, in order
    created,    \* slots that have a list, be it empty
    event,      \* the flags and attributes of every event object
    stack,      \* frames of dispatch and of reportException, innermost last
    on,         \* on-handlers: whether there is a wrapper, and its handler
    reports,    \* reportExceptionStackedCalls
    count,      \* history: registrations made; they are numbered by it
    removed,    \* history: registrations that left their list
    fired       \* history: registrations that were called

vars == <<listeners, created, event, stack, on, reports, count, removed, fired>>

Idle == [dispatched |-> FALSE, eventPhase |-> "none", target |-> None,
         currentTarget |-> None, cancelBubble |-> FALSE,
         canceled |-> FALSE, stopImmediate |-> FALSE, inPassive |-> FALSE]

Init ==
    /\ listeners = [s \in Slots |-> <<>>] /\ created = {}
    /\ event = [e \in Events \cup {ErrorEvent} |-> Idle]
    /\ stack = <<>> /\ reports = 0
    /\ on = [s \in OnSlots |-> [wrapped |-> FALSE, handler |-> None]]
    /\ count = 0 /\ removed = {} /\ fired = {}

Top == Last(stack)
SetTop(f) == stack' = Append(Front(stack), f)
Pop == stack' = Front(stack)
UserCode == stack # <<>> => Top.step = "calling"
Dispatching == stack # <<>> /\ Top.step \in {"tuple", "handler", "returned"}

TypeOf(e) == IF e = ErrorEvent THEN "error" ELSE "plain"

-----------------------------------------------------------------------------
(* The event path.                                                          *)

\* A target that is not a node has no parent, whatever it is.
ParentOf(t) == IF t \in Nodes THEN Parent[t] ELSE None

\* getRootNode with composed: the topmost node.
RootOf[t \in Targets] == IF ParentOf(t) \in Nodes THEN RootOf[Parent[t]] ELSE t

\* Targets form a tree: going from parent to parent ends.
TreeAssumption ==
    \A S \in SUBSET Targets : S # {} => \E t \in S : ParentOf(t) \notin S

\* What isShadowInclusiveAncestor compares with its argument: from a node to its
\* parent or host, to the first that is no node.
InclusiveAncestors[t \in Targets] ==
    IF t \notin Nodes THEN {}
    ELSE {t} \cup (IF ParentOf(t) = None THEN {} ELSE InclusiveAncestors[Parent[t]])

IsShadowInclusiveAncestor(a, t) == a \in InclusiveAncestors[t]

\* appendToEventPath.
PathItem(t, targetOverride) ==
    [item |-> t, target |-> targetOverride, rootOfClosedTree |-> t \in Closed]

\* The tuples above t; `impl' is the target that the tuples below them have.
Above[t \in Targets] ==
    [impl \in Targets |->
        IF ParentOf(t) = None THEN <<>>
        ELSE LET p == Parent[t] IN
             IF p \in Nodes /\ IsShadowInclusiveAncestor(RootOf[impl], p)
             THEN <<PathItem(p, None)>> \o Above[p][impl]
             ELSE <<PathItem(p, p)>> \o Above[p][p]]

Path == [t \in Targets |-> <<PathItem(t, t)>> \o Above[t][t]]

\* Mutation of Hidden: the root of a closed tree itself is not hidden.
Hidden_BelowRoot(path, i, current) == \E k \in i .. current - 2 : path[k].rootOfClosedTree

\* A closed tree ends between the tuple i and the current one above it: the hidden
\* level of i exceeds that of the current target.
Hidden(path, i, current) == \E k \in i .. current - 1 : path[k].rootOfClosedTree

\* composedPath: what lies above the current target is never hidden from it.
ComposedPath(path, currentTarget) ==
    LET current == CHOOSE i \in DOMAIN path : path[i].item = currentTarget
        shown == Select([i \in DOMAIN path |-> i],
                        {i \in DOMAIN path : ~Hidden(path, i, current)})
    IN  [n \in DOMAIN shown |-> path[shown[n]].item]

-----------------------------------------------------------------------------
(* Calls that user code makes.                                              *)

\* Mutation of Duplicate: the list is not searched.
Duplicate_Never(s, callback, capture) == FALSE

\* A listener with the same callback and capture is registered already.
Duplicate(s, callback, capture) ==
    \E i \in DOMAIN listeners[s] :
        listeners[s][i].callback = callback /\ listeners[s][i].capture = capture

AddEventListener(s, callback, o) ==
    /\ UserCode /\ count < MaxListeners
    /\ created' = created \cup {s}
    /\ IF Duplicate(s, callback, o.capture)
       THEN UNCHANGED <<listeners, count>>
       ELSE /\ count' = count + 1
            /\ listeners' = [listeners EXCEPT ![s] = Append(@,
                   [id |-> count', callback |-> callback, capture |-> o.capture,
                    once |-> o.once, passive |-> o.passive])]
    /\ UNCHANGED <<event, stack, on, reports, removed, fired>>

RemoveEventListener(s, callback, capture) ==
    /\ UserCode
    /\ \E i \in DOMAIN listeners[s] :
          /\ listeners[s][i].callback = callback
          /\ listeners[s][i].capture = capture
          /\ listeners' = [listeners EXCEPT ![s] = RemoveAt(@, i)]
          /\ removed' = removed \cup {listeners[s][i].id}
    /\ UNCHANGED <<created, event, stack, on, reports, count, fired>>

\* The callback of the listener that calls the handler of an on-handler.
Wrapper == "wrapper"
WrapperListener(id) ==
    [id |-> id, callback |-> Wrapper, capture |-> FALSE, once |-> FALSE, passive |-> FALSE]

\* Mutation of SetHandler: a handler that was null is registered again.
SetHandler_Again(s, h) ==
    /\ UserCode /\ on[s].handler # h
    /\ on' = [on EXCEPT ![s] = [wrapped |-> TRUE, handler |-> h]]
    /\ IF on[s].handler # None THEN UNCHANGED <<listeners, created, count>>
       ELSE /\ count < MaxListeners /\ count' = count + 1
            /\ created' = created \cup {s}
            /\ listeners' = [listeners EXCEPT ![s] = Append(@, WrapperListener(count'))]
    /\ UNCHANGED <<event, stack, reports, removed, fired>>

\* The setter of an on-handler: the first handler registers the wrapper, later
\* ones, null included, take the place of the handler in it.
SetHandler(s, h) ==
    /\ UserCode /\ on[s].handler # h
    /\ on' = [on EXCEPT ![s] = [wrapped |-> TRUE, handler |-> h]]
    /\ IF on[s].wrapped THEN UNCHANGED <<listeners, created, count>>
       ELSE /\ count < MaxListeners /\ count' = count + 1
            /\ created' = created \cup {s}
            /\ listeners' = [listeners EXCEPT ![s] = Append(@, WrapperListener(count'))]
    /\ UNCHANGED <<event, stack, reports, removed, fired>>

\* preventDefault is heeded unless a passive listener is running; the setter of
\* returnValue always is.
PreventDefault(e) ==
    /\ UserCode /\ e \in Cancelable \cup {ErrorEvent} /\ ~event[e].inPassive /\ ~event[e].canceled
    /\ event' = [event EXCEPT ![e].canceled = TRUE]
    /\ UNCHANGED <<listeners, created, stack, on, reports, count, removed, fired>>

SetReturnValue(e) ==
    /\ UserCode /\ ~event[e].canceled
    /\ event' = [event EXCEPT ![e].canceled = TRUE]
    /\ UNCHANGED <<listeners, created, stack, on, reports, count, removed, fired>>

StopPropagation(e) ==
    /\ UserCode /\ ~event[e].cancelBubble
    /\ event' = [event EXCEPT ![e].cancelBubble = TRUE]
    /\ UNCHANGED <<listeners, created, stack, on, reports, count, removed, fired>>

StopImmediatePropagation(e) ==
    /\ UserCode /\ ~event[e].stopImmediate
    /\ event' = [event EXCEPT ![e].cancelBubble = TRUE, ![e].stopImmediate = TRUE]
    /\ UNCHANGED <<listeners, created, stack, on, reports, count, removed, fired>>

\* Mutation of MayDispatch: an event may be dispatched at any time.
MayDispatch_Always(e) == TRUE

\* Otherwise dispatchEvent throws InvalidStateError and changes nothing.
MayDispatch(e) == ~event[e].dispatched /\ event[e].eventPhase = "none"

NoListener == [id |-> 0, callback |-> None, capture |-> FALSE, once |-> FALSE,
               passive |-> FALSE]
\* A dispatch that is at the tuple k of its path.
TupleFrame(e, t, pass, k, called) ==
    [kind |-> "dispatch", event |-> e, target |-> t, pass |-> pass, k |-> k,
     step |-> "tuple", i |-> 1, start |-> <<>>, current |-> NoListener,
     called |-> called]

\* dispatch up to its first walk: the path is computed, the capture walk starts
\* at its far end.
DispatchFrame(e, t) == TupleFrame(e, t, "capture", Len(Path[t]), {})

DispatchEvent(t, e) ==
    /\ UserCode
    /\ IF <<t, "plain">> \notin created
       THEN event' = [event EXCEPT ![e].target = t] /\ UNCHANGED stack
       ELSE /\ MayDispatch(e) /\ Len(stack) < MaxDepth
            /\ event' = [event EXCEPT ![e].dispatched = TRUE,
                                      ![e].eventPhase = "capturing"]
            /\ stack' = Append(stack, DispatchFrame(e, t))
    /\ UNCHANGED <<listeners, created, on, reports, count, removed, fired>>

ReportFrame == [kind |-> "report", step |-> "report", told |-> FALSE]
RoomForReport == Len(stack) + (IF reports = 0 THEN 2 ELSE 1) <= MaxDepth

\* reportError of user code.
ReportError ==
    /\ UserCode /\ RoomForReport
    /\ stack' = Append(stack, ReportFrame)
    /\ reports' = reports + 1
    /\ UNCHANGED <<listeners, created, event, on, count, removed, fired>>

-----------------------------------------------------------------------------
(* dispatch, invokeEventListeners and innerInvokeEventListeners.            *)

AtTarget(f) == Path[f.target][f.k].target # None

\* Mutation of Invoked: the capture walk visits the target as well.
Invoked_Target(f) ==
    f.pass = "capture" \/ AtTarget(f) \/ f.event \in Bubbling

\* The tuples whose listeners a walk invokes.
Invoked(f) ==
    IF f.pass = "capture" THEN ~AtTarget(f) ELSE AtTarget(f) \/ f.event \in Bubbling

PhaseOf(f) ==
    IF f.pass = "capture" THEN "capturing"
    ELSE IF AtTarget(f) THEN "at target" ELSE "bubbling"

Item(f) == Path[f.target][f.k].item

\* The target of the event while this tuple is invoked: of the nearest tuple below.
TargetOf(f) ==
    LET path == Path[f.target]
        k == CHOOSE k \in 1 .. f.k : path[k].target # None
                                  /\ \A j \in k + 1 .. f.k : path[j].target = None
    IN  path[k].target
SlotOf(f) == <<Item(f), TypeOf(f.event)>>
ListOf(f) == IF SlotOf(f) \in Slots THEN listeners[SlotOf(f)] ELSE <<>>

\* From the tuple k to the one after it, in the direction of the pass.
At(f, pass, k) == TupleFrame(f.event, f.target, pass, k, f.called)
NextTuple(f) ==
    IF f.pass = "bubble" THEN At(f, "bubble", f.k + 1)
    ELSE IF f.k > 1 THEN At(f, "capture", f.k - 1) ELSE At(f, "bubble", 1)

\* The next tuple: set target and currentTarget and copy the list, unless the
\* tuple is skipped or propagation was stopped.
Tuple ==
    LET f == Top
        e == f.event
        enter == Invoked(f) /\ ~event[e].cancelBubble
    IN
    /\ Dispatching /\ f.step = "tuple" /\ f.k <= Len(Path[f.target])
    /\ event' = [event EXCEPT
          ![e].eventPhase = PhaseOf(f),
          ![e].target = IF Invoked(f) THEN TargetOf(f) ELSE @,
          ![e].currentTarget = IF enter THEN Item(f) ELSE @]
    /\ SetTop(IF enter
              THEN [f EXCEPT !.step = "handler", !.i = 1, !.start = ListOf(f)]
              ELSE NextTuple(f))
    /\ UNCHANGED <<listeners, created, on, reports, count, removed, fired>>

\* Mutation of Handler: the list is walked without a copy.
Handler_Live(f) == IF f.i <= Len(ListOf(f)) THEN ListOf(f)[f.i] ELSE f.start[f.i]

\* The copied list is walked, however the list changes meanwhile.
Handler(f) == f.start[f.i]

\* Mutation of Skipped: a removed listener is still called.
Skipped_NotRemoved(f, h) ==
    \/ event[f.event].stopImmediate
    \/ event[f.event].eventPhase = "capturing" /\ ~h.capture
    \/ event[f.event].eventPhase = "bubbling" /\ h.capture

\* A listener of the copied list that is not called.
Skipped(f, h) ==
    \/ event[f.event].stopImmediate
    \/ ~\E i \in DOMAIN ListOf(f) : ListOf(f)[i] = h
    \/ event[f.event].eventPhase = "capturing" /\ ~h.capture
    \/ event[f.event].eventPhase = "bubbling" /\ h.capture

SkipHandler ==
    /\ Dispatching /\ Top.step = "handler" /\ Top.i <= Len(Top.start)
    /\ Skipped(Top, Handler(Top))
    /\ SetTop([Top EXCEPT !.i = @ + 1])
    /\ UNCHANGED <<listeners, created, event, on, reports, count, removed, fired>>

\* The wrapper of an on-handler without a handler returns at once.
Silent(s, h) == h.callback = Wrapper /\ on[s].handler = None

PlaceOf(h, list) == CHOOSE i \in DOMAIN list : list[i] = h

\* The state in which the callback of h starts; it leaves its list first if `drop'.
Call(h, drop) ==
    LET f == Top
        s == SlotOf(f)
    IN
    /\ SetTop([f EXCEPT !.step = IF Silent(s, h) THEN "returned" ELSE "calling",
                       !.current = h, !.called = @ \cup {h.id}])
    /\ event' = [event EXCEPT ![f.event].inPassive = @ \/ h.passive]
    /\ fired' = fired \cup {h.id}
    /\ IF drop
       THEN /\ listeners' = [listeners EXCEPT ![s] = RemoveAt(@, PlaceOf(h, @))]
            /\ removed' = removed \cup {h.id}
       ELSE UNCHANGED <<listeners, removed>>
    /\ UNCHANGED <<created, on, reports, count>>

MayCall ==
    /\ Dispatching /\ Top.step = "handler" /\ Top.i <= Len(Top.start)
    /\ ~Skipped(Top, Handler(Top))

\* Mutation of CallHandler: a once listener stays in its list.
CallHandler_KeepsOnce == MayCall /\ Call(Handler(Top), FALSE)

CallHandler == MayCall /\ Call(Handler(Top), Handler(Top).once)

EndWalk ==
    /\ Dispatching /\ Top.step = "handler" /\ Top.i > Len(Top.start)
    /\ SetTop(NextTuple(Top))
    /\ UNCHANGED <<listeners, created, event, on, reports, count, removed, fired>>

\* The callback returns.
Return ==
    /\ stack # <<>> /\ Top.step = "calling"
    /\ SetTop([Top EXCEPT !.step = "returned"])
    /\ UNCHANGED <<listeners, created, event, on, reports, count, removed, fired>>

\* The handler of a special error handler returns true.
ReturnTrue ==
    /\ stack # <<>> /\ Top.step = "calling" /\ Top.current.callback = Wrapper
    /\ Top.event = ErrorEvent /\ SlotOf(Top) \in Special
    /\ SetTop([Top EXCEPT !.step = "returned"])
    /\ event' = [event EXCEPT ![ErrorEvent].canceled = TRUE]
    /\ UNCHANGED <<listeners, created, on, reports, count, removed, fired>>

\* The callback throws: the catch block calls reportException.
Throw ==
    /\ stack # <<>> /\ Top.step = "calling" /\ RoomForReport
    /\ stack' = Append(Front(stack), [Top EXCEPT !.step = "returned"])
                \o <<ReportFrame>>
    /\ reports' = reports + 1
    /\ UNCHANGED <<listeners, created, event, on, count, removed, fired>>

\* After the try block, whether the callback returned or threw.
AfterCall ==
    /\ Dispatching /\ Top.step = "returned"
    /\ event' = [event EXCEPT ![Top.event].inPassive = FALSE]
    /\ SetTop([Top EXCEPT !.step = "handler", !.i = @ + 1])
    /\ UNCHANGED <<listeners, created, on, reports, count, removed, fired>>

\* The end of dispatch resets the event, the stop flags included.
EndDispatch ==
    /\ Dispatching /\ Top.step = "tuple" /\ Top.k > Len(Path[Top.target])
    /\ event' = [event EXCEPT
          ![Top.event].eventPhase = "none", ![Top.event].currentTarget = None,
          ![Top.event].dispatched = FALSE,
          ![Top.event].cancelBubble = FALSE, ![Top.event].stopImmediate = FALSE]
    /\ Pop
    /\ UNCHANGED <<listeners, created, on, reports, count, removed, fired>>

-----------------------------------------------------------------------------
(* reportException.                                                         *)

\* An error event is being dispatched already.
Recursive == reports > 1

\* Dispatch an error event on globalThis, or leave the error to the runtime.
Report ==
    /\ stack # <<>> /\ Top.step = "report"
    /\ IF Recursive \/ <<Global, "error">> \notin created
       THEN SetTop([Top EXCEPT !.step = "reported", !.told = TRUE]) /\ UNCHANGED event
       ELSE /\ stack' = Append(Front(stack), [Top EXCEPT !.step = "dispatched"])
                        \o <<DispatchFrame(ErrorEvent, Global)>>
            /\ event' = [event EXCEPT ![ErrorEvent] =
                 [Idle EXCEPT !.dispatched = TRUE, !.eventPhase = "capturing"]]
    /\ UNCHANGED <<listeners, created, on, reports, count, removed, fired>>

\* Mutation of Dispatched: the result of dispatchEvent is taken the wrong way.
Dispatched_Inverted ==
    /\ stack # <<>> /\ Top.step = "dispatched"
    /\ SetTop([Top EXCEPT !.step = "reported", !.told = event[ErrorEvent].canceled])
    /\ UNCHANGED <<listeners, created, event, on, reports, count, removed, fired>>

\* The dispatch returned: false if the event was canceled.
Dispatched ==
    /\ stack # <<>> /\ Top.step = "dispatched"
    /\ SetTop([Top EXCEPT !.step = "reported", !.told = ~event[ErrorEvent].canceled])
    /\ UNCHANGED <<listeners, created, event, on, reports, count, removed, fired>>

Reported ==
    /\ stack # <<>> /\ Top.step = "reported"
    /\ reports' = reports - 1
    /\ Pop
    /\ UNCHANGED <<listeners, created, event, on, count, removed, fired>>

Next ==
    \/ \E s \in Slots, callback \in Callbacks :
          \/ \E o \in Options : AddEventListener(s, callback, o)
          \/ \E capture \in BOOLEAN : RemoveEventListener(s, callback, capture)
    \/ \E e \in Events :
          \/ \E t \in Targets : DispatchEvent(t, e)
          \/ StopPropagation(e) \/ StopImmediatePropagation(e)
    \/ \E e \in Canceling :
          (e \in Events \/ reports > 0) /\ (PreventDefault(e) \/ SetReturnValue(e))
    \/ \E s \in OnSlots, h \in Handlers \cup {None} : SetHandler(s, h)
    \/ ReportError
    \/ Tuple \/ SkipHandler \/ CallHandler \/ EndWalk \/ Return \/ ReturnTrue \/ Throw
    \/ AfterCall \/ EndDispatch \/ Report \/ Dispatched \/ Reported

Spec == Init /\ [][Next]_vars

-----------------------------------------------------------------------------
Frames == {stack[i] : i \in DOMAIN stack}
Dispatches(e) == {i \in DOMAIN stack : stack[i].kind = "dispatch" /\ stack[i].event = e}

\* An event is in one dispatch at a time, its flags say whether it is in one, and
\* no dispatch leaves a flag behind, whatever its listeners dispatched or threw.
\* It is in its passive state exactly while a passive listener of it runs or is being
\* left, also with other dispatches inside.
InFlight ==
    \A e \in DOMAIN event :
        /\ Cardinality(Dispatches(e)) <= 1
        /\ event[e].dispatched <=> Dispatches(e) # {}
        /\ Dispatches(e) = {} =>
              event[e].eventPhase = "none" /\ event[e].currentTarget = None
        /\ event[e].inPassive <=>
              \E i \in Dispatches(e) :
                  stack[i].step \in {"calling", "returned"} /\ stack[i].current.passive

\* No two listeners of a list agree in callback and capture, and an on-handler has
\* one wrapper however often its handler is replaced or set to null, which stays in
\* the list.
ListsAreSets ==
    /\ \A s \in Slots : \A i, j \in DOMAIN listeners[s] :
          /\ listeners[s][i].callback = listeners[s][j].callback
          /\ listeners[s][i].capture = listeners[s][j].capture
          => i = j
    /\ \A s \in OnSlots : on[s].handler # None =>
          \E i \in DOMAIN listeners[s] : listeners[s][i].callback = Wrapper

\* At the end of a walk every listener that was registered when it started and
\* is meant for the phase was called, unless it was removed meanwhile or
\* propagation was stopped at once: listeners that are added, removed or throw
\* never make the walk miss another one.
NoListenerSkipped ==
    \A f \in Frames :
        f.kind = "dispatch" /\ f.step = "handler" /\ f.i > Len(f.start) =>
            \A i \in DOMAIN f.start :
                \/ f.start[i].id \in f.called \cup removed
                \/ event[f.event].stopImmediate
                \/ PhaseOf(f) = "capturing" /\ ~f.start[i].capture
                \/ PhaseOf(f) = "bubbling" /\ f.start[i].capture

\* Errors in error listeners do not recurse: one dispatch of an error event at a
\* time, and the counter counts the reports in progress.  No error is lost: a
\* report of one that ends without telling the runtime is the outermost report, and
\* its error event was canceled.
ErrorsAreReported ==
    /\ reports = Cardinality({i \in DOMAIN stack : stack[i].kind = "report"})
    /\ Cardinality(Dispatches(ErrorEvent)) <= 1
    /\ \A i \in DOMAIN stack :
          stack[i].step = "reported" /\ ~stack[i].told =>
            /\ event[ErrorEvent].canceled
            /\ \A j \in 1 .. i - 1 : stack[j].kind # "report"

\* What composedPath gives to a listener: the targets on the path, in order, but
\* for those in a closed tree that the current target is not in.
ComposedPathHidesClosedTrees ==
    \A f \in Frames :
        f.step = "calling" =>
            LET path == Path[f.target]
                t == event[f.event].currentTarget
                visible == {u \in Targets : \A r \in Closed :
                    IsShadowInclusiveAncestor(r, u) => IsShadowInclusiveAncestor(r, t)}
            IN  ComposedPath(path, t) =
                    Select([i \in DOMAIN path |-> path[i].item], visible)

\* The step that starts a callback, and the listener it calls.
CallStep ==
    /\ stack # <<>> /\ Len(stack') = Len(stack)
    /\ Top.step = "handler" /\ Last(stack').step = "calling"
Called == Last(stack').current

\* A call of a listener is due: a dispatch calls a registration at most once on its
\* way down and up; a once listener was not called before, also if a dispatch inside
\* it reaches its target; and it has not left its list, even if the same callback was
\* registered again and even by a walk that started before.
CallIsDue ==
    CallStep => /\ Called.id \notin Top.called /\ Called.id \notin removed
                /\ Called.once => Called.id \notin fired
CallsAreDue == [][CallIsDue]_vars
=============================================================================
