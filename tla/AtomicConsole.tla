----------------------------- MODULE AtomicConsole -----------------------------
(***************************************************************************)
(* What a console promises: every call has its effect at one moment, all of *)
(* it or none, whatever code of the user runs while its arguments are       *)
(* turned into text.                                                       *)
(***************************************************************************)
EXTENDS Naturals, Sequences, TLC

CONSTANT Labels

VARIABLES
    indentLevel,    \* groups that are open
    countMap,       \* what the labels were counted to
    timerMap,       \* the labels whose timers run
    line            \* what was just printed: its kind is "none" if nothing was

vars == <<indentLevel, countMap, timerMap, line>>

Output(kind, label, n) ==
    line'.kind = kind /\ line'.label = label /\ line'.n = n
Quiet == line'.kind = "none"

\* Every argument is printed, each once and in their order; but those that a format
\* string takes as a style are left out.
IsComplete(l) ==
    LET shown == {i \in DOMAIN l.text : l.text[i].arg > 0} IN
    /\ \A i \in shown : l.text[i].arg <= l.given
    /\ \A i, j \in shown : i < j => l.text[i].arg < l.text[j].arg
    /\ l.styles = {} => \A k \in 1 .. l.given : \E i \in shown : l.text[i].arg = k

Log ==
    /\ Output("log", "none", 0) /\ IsComplete(line')
    /\ UNCHANGED <<indentLevel, countMap, timerMap>>

Group ==
    /\ Quiet \/ (Output("group", "none", 0) /\ IsComplete(line'))
    /\ indentLevel' = indentLevel + 1
    /\ UNCHANGED <<countMap, timerMap>>
GroupEnd ==
    /\ indentLevel > 0 /\ indentLevel' = indentLevel - 1
    /\ Quiet /\ UNCHANGED <<countMap, timerMap>>
Clear ==
    /\ indentLevel' = 0 /\ Output("clear", "none", 0) /\ UNCHANGED <<countMap, timerMap>>

Count(label) ==
    LET n == IF label \in DOMAIN countMap THEN countMap[label] + 1 ELSE 1 IN
    /\ countMap' = (label :> n) @@ countMap
    /\ Output("count", label, n)
    /\ UNCHANGED <<indentLevel, timerMap>>
CountReset(label) ==
    /\ label \in DOMAIN countMap
    /\ countMap' = [countMap EXCEPT ![label] = 0]
    /\ Quiet /\ UNCHANGED <<indentLevel, timerMap>>

Time(label) ==
    /\ label \notin timerMap /\ timerMap' = timerMap \cup {label}
    /\ Quiet /\ UNCHANGED <<indentLevel, countMap>>
TimeEnd(label) ==
    /\ label \in timerMap /\ timerMap' = timerMap \ {label}
    /\ Output("time", label, 0) /\ UNCHANGED <<indentLevel, countMap>>

\* A timer was running when its time was taken; a warning says that there is no
\* such count or timer, or that there is one already.
TimeLog(label) ==
    Output("time", label, 0) /\ UNCHANGED <<indentLevel, countMap, timerMap>>
Warn(label) ==
    /\ \/ Output("exists", label, 0) /\ label \in timerMap
       \/ Output("untimed", label, 0) /\ label \notin timerMap
       \/ Output("uncounted", label, 0) /\ label \notin DOMAIN countMap
    /\ UNCHANGED <<indentLevel, countMap, timerMap>>

\* A call that failed, or had nothing to do.
Nothing == Quiet /\ UNCHANGED <<indentLevel, countMap, timerMap>>

Init ==
    /\ indentLevel = 0 /\ countMap = <<>> /\ timerMap = {} /\ line.kind = "none"

Next ==
    \/ Nothing \/ Log \/ Group \/ GroupEnd \/ Clear
    \/ \E label \in Labels :
          \/ Count(label) \/ CountReset(label) \/ Time(label)
          \/ TimeEnd(label) \/ TimeLog(label) \/ Warn(label)

Spec == Init /\ [][Next]_vars
=============================================================================
