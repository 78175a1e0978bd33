-------------------------------- MODULE Console --------------------------------
(***************************************************************************)
(* The console object of 01_console.js.                                    *)
(*                                                                         *)
(* Turning a label into a string, or an argument into text, may run code of *)
(* the user (toString, an inspector), which may throw and may call the      *)
(* console itself: `calls' are the calls that are waiting for such code, the *)
(* innermost last.  Colours are off in this runtime.                        *)
(***************************************************************************)
EXTENDS Naturals, Sequences, SequencesExt, FiniteSets, TLC

CONSTANTS
    Labels,
    Characters,     \* of format strings: see ConsoleAssumption
    Formats,        \* first arguments that are strings
    MaxArguments,   \* bound: of the arguments after the first
    MaxCalls,       \* bound: of calls inside each other
    MaxCount, MaxIndent     \* bounds: of counts, of open groups

VARIABLES
    indentLevel, countMap,
    timerMap,   \* only the labels: a time is not looked at
    line,       \* what the last step printed, if it did
    calls

vars == <<indentLevel, countMap, timerMap, line, calls>>

Directives == {"s", "d", "i", "f", "O", "o", "c"}

ConsoleAssumption ==
    /\ MaxArguments \in Nat /\ MaxCalls \in Nat /\ MaxCount \in Nat /\ MaxIndent \in Nat
    /\ Directives \cup {"%", "blank", "assertion"} \subseteq Characters
    /\ Formats \subseteq Seq(Characters)

-----------------------------------------------------------------------------
(* inspectArgs                                                              *)

Char(c) == [char |-> c, arg |-> 0]
Arg(how, k) == [char |-> how, arg |-> k]

\* One round of the loop over the format: `a' is the next argument, and `percent'
\* is set between the two characters of a directive.  %c takes an argument and
\* prints nothing.
Round(st, c, n) ==
    IF ~st.percent
    THEN IF c = "%" THEN [st EXCEPT !.percent = TRUE]
         ELSE [st EXCEPT !.text = Append(@, Char(c))]
    ELSE IF c \in Directives /\ st.a <= n
    THEN [text |-> IF c = "c" THEN st.text ELSE Append(st.text, Arg(c, st.a)),
          a |-> st.a + 1, percent |-> FALSE]
    ELSE [st EXCEPT !.percent = FALSE,
                    !.text = IF c = "%" THEN Append(@, Char("%"))
                             ELSE Append(Append(@, Char("%")), Char(c))]

Rounds(format, n) ==
    LET of[i \in 0 .. Len(format)] ==
            IF i = 0 THEN [text |-> <<>>, a |-> 1, percent |-> FALSE]
            ELSE Round(of[i - 1], format[i], n)
    IN  of[Len(format)]

\* A percent sign at the end is a character.  The arguments that no directive
\* takes follow, after a blank.
Substitute(format, n) ==
    LET st == Rounds(format, n)
    IN  (IF st.percent THEN Append(st.text, Char("%")) ELSE st.text)
        \o [k \in 1 .. (n + 1) - st.a |-> Arg("blank", st.a + k - 1)]

\* format: a first argument that is a string and has others after it.
InspectArgs(format, n) ==
    IF n = 0 THEN [i \in DOMAIN format |-> Char(format[i])] ELSE Substitute(format, n)

Styles(format) == {i \in DOMAIN format : i > 1 /\ format[i] = "c" /\ format[i - 1] = "%"}

-----------------------------------------------------------------------------
NoLine == [kind |-> "none", label |-> "none", n |-> 0, text |-> <<>>, given |-> 0,
           styles |-> {}, indent |-> 0]
Line(kind, label, n) ==
    [kind |-> kind, label |-> label, n |-> n, text |-> <<>>, given |-> 0, styles |-> {},
     indent |-> indentLevel]

Write(l) == line' = l
Quiet == line' = NoLine

Top == Last(calls)
Is(method, step) == calls # <<>> /\ Top.method = method /\ Top.step = step
Return == calls' = Front(calls)

\* The program, or code that the innermost call has called, calls the console.
MayCall == Len(calls) < MaxCalls

\* The options of inspectArgs are evaluated before it runs.
Logging(method, format, n) ==
    [method |-> method, step |-> "inspect", label |-> "none",
     line |-> [kind |-> IF method = "group" THEN "group" ELSE "log", label |-> "none", n |-> 0,
               text |-> InspectArgs(format, n), given |-> n, styles |-> Styles(format),
               indent |-> indentLevel]]
Labelled(method, label) ==
    [method |-> method, step |-> "label", label |-> label, line |-> NoLine]
Timing(label) ==
    [method |-> "timeLog", step |-> "inspect", label |-> label, line |-> Line("time", label, 0)]

Begin(call) == MayCall /\ calls' = Append(calls, call)
Unchanged == Quiet /\ UNCHANGED <<indentLevel, countMap, timerMap>>

\* log, debug, info, dir, warn and error.
Log(format, n) == Begin(Logging("log", format, n)) /\ Unchanged

\* The text goes before the first argument, if that is a string.
AssertCall(condition, format, n) ==
    /\ ~condition
    /\ Begin(Logging("log", <<"assertion">> \o format, n)) /\ Unchanged

\* trace and table make a text first and pass it to error or to log, which takes the
\* indentation of that moment.  table logs data that is not an object.
Trace(format, n) == Begin(Logging("late", format, n)) /\ Unchanged
Table(isObject) == Begin(Logging(IF isObject THEN "late" ELSE "log", <<>>, 1)) /\ Unchanged

LogPrints ==
    /\ Is("log", "inspect") /\ Write(Top.line) /\ Return
    /\ UNCHANGED <<indentLevel, countMap, timerMap>>
LatePrints ==
    /\ Is("late", "inspect") /\ Write([Top.line EXCEPT !.indent = indentLevel]) /\ Return
    /\ UNCHANGED <<indentLevel, countMap, timerMap>>

-----------------------------------------------------------------------------
(* Groups                                                                   *)

\* Mutation of Group: the group is opened before its label is made into text.
Group_Early(format, n) ==
    /\ indentLevel < MaxIndent /\ Begin([Logging("group", format, n) EXCEPT !.method = "log"])
    /\ indentLevel' = indentLevel + 1 /\ Quiet /\ UNCHANGED <<countMap, timerMap>>

Group(format, n) == indentLevel < MaxIndent /\ Begin(Logging("group", format, n)) /\ Unchanged

\* Without a label nothing is printed.
GroupSilent ==
    /\ MayCall /\ indentLevel < MaxIndent
    /\ indentLevel' = indentLevel + 1 /\ Quiet /\ UNCHANGED <<countMap, timerMap, calls>>

GroupPrints ==
    /\ Is("group", "inspect") /\ Write(Top.line) /\ Return
    /\ indentLevel' = indentLevel + 1
    /\ UNCHANGED <<countMap, timerMap>>

GroupEnd ==
    /\ MayCall /\ indentLevel > 0
    /\ indentLevel' = indentLevel - 1 /\ Quiet /\ UNCHANGED <<countMap, timerMap, calls>>

Clear ==
    /\ MayCall /\ indentLevel' = 0 /\ Write([NoLine EXCEPT !.kind = "clear"])
    /\ UNCHANGED <<countMap, timerMap, calls>>

-----------------------------------------------------------------------------
(* Counts and timers                                                        *)

LabelMethods == {"count", "countReset", "time", "timeLog", "timeEnd"}
CallWithLabel(method, label) ==
    /\ method = "count" /\ label \in DOMAIN countMap => countMap[label] < MaxCount
    /\ Begin(Labelled(method, label)) /\ Unchanged

Count ==
    LET l == Top.label
        n == IF l \in DOMAIN countMap THEN countMap[l] + 1 ELSE 1
    IN  /\ Is("count", "label") /\ Return
        /\ countMap' = (l :> n) @@ countMap
        /\ Write(Line("count", l, n))
        /\ UNCHANGED <<indentLevel, timerMap>>

CountReset ==
    /\ Is("countReset", "label") /\ Return
    /\ IF Top.label \in DOMAIN countMap
       THEN countMap' = [countMap EXCEPT ![Top.label] = 0] /\ Quiet
       ELSE Write(Line("uncounted", Top.label, 0)) /\ UNCHANGED countMap
    /\ UNCHANGED <<indentLevel, timerMap>>

Time ==
    /\ Is("time", "label") /\ Return
    /\ IF Top.label \in timerMap
       THEN Write(Line("exists", Top.label, 0)) /\ UNCHANGED timerMap
       ELSE timerMap' = timerMap \cup {Top.label} /\ Quiet
    /\ UNCHANGED <<indentLevel, countMap>>

\* The line with its arguments is made now; the timer may end meanwhile.
TimeLog ==
    /\ Is("timeLog", "label")
    /\ IF Top.label \in timerMap
       THEN calls' = [calls EXCEPT ![Len(calls)] = Timing(Top.label)] /\ Quiet
       ELSE Write(Line("untimed", Top.label, 0)) /\ Return
    /\ UNCHANGED <<indentLevel, countMap, timerMap>>
TimeLogPrints ==
    /\ Is("timeLog", "inspect") /\ Write(Top.line) /\ Return
    /\ UNCHANGED <<indentLevel, countMap, timerMap>>

TimeEnd ==
    /\ Is("timeEnd", "label") /\ Return
    /\ IF Top.label \in timerMap
       THEN timerMap' = timerMap \ {Top.label} /\ Write(Line("time", Top.label, 0))
       ELSE Write(Line("untimed", Top.label, 0)) /\ UNCHANGED timerMap
    /\ UNCHANGED <<indentLevel, countMap>>

\* The code that was called throws, and with it the call of the console.
Throw == calls # <<>> /\ Return /\ Unchanged

-----------------------------------------------------------------------------
Init ==
    /\ indentLevel = 0 /\ countMap = <<>> /\ timerMap = {}
    /\ line = NoLine /\ calls = <<>>

Next ==
    \/ \E format \in Formats, n \in 0 .. MaxArguments :
          \/ Log(format, n) \/ Trace(format, n) \/ Group(format, n)
          \/ \E condition \in BOOLEAN : AssertCall(condition, format, n)
    \/ \E isObject \in BOOLEAN : Table(isObject)
    \/ \E method \in LabelMethods, label \in Labels : CallWithLabel(method, label)
    \/ LogPrints \/ LatePrints \/ GroupSilent \/ GroupPrints \/ GroupEnd \/ Clear
    \/ Count \/ CountReset \/ Time \/ TimeLog \/ TimeLogPrints \/ TimeEnd
    \/ Throw

Spec == Init /\ [][Next]_vars

-----------------------------------------------------------------------------
\* The console implements AtomicConsole: a call that throws has changed and printed
\* nothing, the others have their whole effect at once, and no code that runs in
\* between makes a count, a timer or a group wrong or an argument disappear.
Atomic == INSTANCE AtomicConsole
CallsAreAtomic == Atomic!Spec
=============================================================================
