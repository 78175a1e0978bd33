---------------------------- MODULE MCEventDispatch ----------------------------
(***************************************************************************)
(* An instance of EventDispatch in which a behaviour stays in one of four   *)
(* small worlds, chosen at its start:                                      *)
(*   tree      capture and bubble over a child and its parent              *)
(*   shadow    a leaf in a closed shadow tree, its host, and globalThis as  *)
(*             the parent of the host, which is not a node                  *)
(*   nested    two events, dispatches and errors inside listeners           *)
(*   handlers  on-handlers of globalThis beside other listeners             *)
(***************************************************************************)
EXTENDS EventDispatch, TLC

CONSTANTS Scenes, child, parent, leaf, root, host, window, other, e1, e2

VARIABLE scene

ParentOfTarget ==
    (child :> parent) @@ (parent :> None) @@ (leaf :> root) @@ (root :> host)
    @@ (host :> window) @@ (window :> None) @@ (other :> None)
Plain(targets) == targets \X {"plain"}
ErrorSlot == {<<window, "error">>}
AllSlots == Plain({child, parent, leaf, root, host, window, other}) \cup ErrorSlot

Flags(capture, once, passive) ==
    [capture |-> capture, once |-> once, passive |-> passive]
NoFlags == Flags(FALSE, FALSE, FALSE)
Capture == Flags(TRUE, FALSE, FALSE)
Once == Flags(FALSE, TRUE, FALSE)
Passive == Flags(FALSE, FALSE, TRUE)
AllOptions == {NoFlags, Capture, Once, Passive}
CancelingEvents == {e1, ErrorEvent}

\* What a world has, and its bounds.
World == [s \in {"tree", "shadow", "nested", "handlers"} |->
    CASE s = "tree" ->
            [targets |-> {child, parent}, slots |-> Plain({child, parent}), events |-> {e1},
             options |-> {NoFlags, Capture}, registrations |-> 3, depth |-> 1]
      [] s = "shadow" ->
            [targets |-> {leaf, root, host, window},
             slots |-> Plain({leaf, root, host, window}), events |-> {e2},
             options |-> {NoFlags, Capture}, registrations |-> 2, depth |-> 1]
      [] s = "nested" ->
            [targets |-> {other, window}, slots |-> Plain({other}) \cup ErrorSlot,
             events |-> {e1, e2},
             options |-> {NoFlags, Once}, registrations |-> 2, depth |-> 3]
      [] s = "handlers" ->
            [targets |-> {window}, slots |-> Plain({window}) \cup ErrorSlot, events |-> {e1},
             options |-> {Passive}, registrations |-> 2, depth |-> 3]]

InWorld(w) ==
    /\ count <= w.registrations /\ Len(stack) <= w.depth /\ created \subseteq w.slots
    /\ w.depth = 1 => reports = 0
    /\ scene # "handlers" =>
        /\ \A s \in OnSlots : ~on[s].wrapped
        /\ \A e \in Canceling : ~event[e].canceled
    /\ \A e \in Events : IF e \in w.events THEN event[e].target \in w.targets \cup {None}
                         ELSE event[e] = Idle
    /\ \A s \in w.slots : \A i \in DOMAIN listeners[s] :
          LET l == listeners[s][i] IN
          l.callback = Wrapper \/ Flags(l.capture, l.once, l.passive) \in w.options

MCInit == scene \in Scenes /\ Init
MCNext == UNCHANGED scene /\ Next /\ InWorld(World[scene])'
MCSpec == MCInit /\ [][MCNext]_<<scene, vars>>

ASSUME EventAssumption == EventDispatchAssumption /\ TreeAssumption

CallbackSymmetry == Permutations(Callbacks)
=============================================================================
