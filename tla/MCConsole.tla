------------------------------- MODULE MCConsole -------------------------------
(***************************************************************************)
(* What a script calls and what calls it back: values that are inspected    *)
(* (Inspect), the console (Console) and timers (Timers).  `scene' chooses   *)
(* at the start whose behaviour is followed; the others stand still.        *)
(***************************************************************************)
EXTENDS Inspect, Console, Timers

CONSTANT Scenes

VARIABLE scene

DepthSet == {<<>>, <<1>>}
CharacterSet == Directives \cup {"%", "blank", "x", "assertion"}
FormatSet == {<<>>, <<"%", "%", "x", "%">>, <<"%", "c", "%", "d">>, <<"%", "x", "%", "s">>}

ASSUME InspectionAssumption == InspectAssumption
ASSUME ShellAssumption == ConsoleAssumption
ASSUME ClockAssumption == TimersAssumption

\* The value of the other scenes: an object without references.
Plain == kind = [v \in Objects |-> "object"] /\ refs = [v \in Objects |-> <<>>] /\ depth = <<>>

MCInit ==
    /\ scene \in Scenes
    /\ scene # "inspect" => Plain
    /\ InspectInit /\ Init /\ TimersInit
MCNext ==
    /\ UNCHANGED scene
    /\ \/ scene = "inspect" /\ InspectNext /\ UNCHANGED <<vars, timerVars>>
       \/ scene = "console" /\ Next /\ UNCHANGED <<inspectVars, timerVars>>
       \/ scene = "timers" /\ TimersNext /\ UNCHANGED <<inspectVars, vars>>
MCSpec == MCInit /\ [][MCNext]_<<scene, inspectVars, vars, timerVars>>
=============================================================================
