-------------------------------- MODULE Inspect --------------------------------
(***************************************************************************)
(* inspect of 01_console.js: how formatValue and formatRaw walk through a   *)
(* value that may refer to itself, with inspectors of users that may throw  *)
(* and those of the library's classes, which call inspect in turn.          *)
(*                                                                         *)
(* What is printed of an object besides the values it refers to is left     *)
(* out, and so are the options but for `depth', the causes of errors, and   *)
(* an inspector of Node.js that returns another value to be formatted.      *)
(***************************************************************************)
EXTENDS Integers, Sequences, FiniteSets, SequencesExt, FiniteSetsExt

CONSTANTS
    Objects,    \* numbers; the object that is inspected is 1
    Kinds,      \* those of objects whose references are enumerated in full
    Depths,     \* the option `depth': <<>> for null
    Limit,      \* the options iterableLimit and maxArrayLength
    MaxRefs     \* bound: the references of one object

VARIABLES
    kind, refs, depth,  \* what is inspected, and how: chosen at the start
    frames,     \* the calls of formatRaw, the outermost first
    contexts,   \* the ctx of every inspect in progress
    circular,   \* the maps that some ctx.circular refers to
    seen,       \* ctx.seen, which is the same array in every ctx
    printed,    \* history: what was printed
    result      \* "none" until inspect returns a "string" or an error is "thrown"

inspectVars == <<kind, refs, depth, frames, contexts, circular, seen, printed, result>>

InspectAssumption ==
    /\ 1 \in Objects /\ Objects \subseteq Nat
    /\ Limit \in Nat /\ MaxRefs \in Nat /\ \A d \in Depths : d = <<>> \/ d[1] \in Nat

\* "class": of the library, whose inspector passes a proxy with some of its
\* properties to inspect; "custom" and "throwing": inspectors of the user.
AllKinds == {"object", "array", "set", "map", "promise", "class", "custom", "throwing"}

Truncate(s, n) == SubSeq(s, 1, Min({n, Len(s)}))

\* The values that are formatted of an object, in their order.
formatArray(v) == Truncate(refs[v], Limit)
formatSet(v) == Truncate(refs[v], Limit)
formatMap(v) == Truncate(refs[v], 2 * Limit)        \* keys and values in turn
formatPromise(v) == Truncate(refs[v], 1)            \* nothing while it is pending
properties(v) == refs[v]

Children(v) ==
    CASE kind[v] = "array" -> formatArray(v) [] kind[v] = "set" -> formatSet(v)
      [] kind[v] = "map" -> formatMap(v) [] kind[v] = "promise" -> formatPromise(v)
      [] OTHER -> properties(v)

-----------------------------------------------------------------------------
Formatter == Last(frames)
ctx == Last(contexts)

\* formatValue is called for v: by inspect, or by the formatter at work.
Due(v) ==
    /\ result = "none"
    /\ IF frames = <<>> THEN v = 1
       ELSE Formatter.next <= Len(Children(Formatter.value)) /\ v = Children(Formatter.value)[Formatter.next]
recurseTimes == IF frames = <<>> THEN 0 ELSE Formatter.times

\* The call returned to the formatter that made it, or from inspect.
Returned(fs) ==
    /\ frames' = IF fs = <<>> THEN fs ELSE [fs EXCEPT ![Len(fs)].next = @ + 1]
    /\ result' = IF fs = <<>> THEN "string" ELSE "none"
Prints(what, v, n) == printed' = Append(printed, [what |-> what, value |-> v, index |-> n])

\* formatProperty and the formatters raise indentationLvl for a value, and lower it
\* when the call for the value has returned.
Raised(cs) == IF frames = <<>> THEN cs ELSE [cs EXCEPT ![Len(cs)].indentationLvl = @ + 2]
Lowered(cs) == IF Len(frames) = 1 THEN cs ELSE [cs EXCEPT ![Len(cs)].indentationLvl = @ - 2]

-----------------------------------------------------------------------------
(* formatValue                                                              *)

Custom(v) ==
    /\ Due(v) /\ kind[v] = "custom"
    /\ Prints("custom", v, 0) /\ Returned(frames)
    /\ UNCHANGED <<kind, refs, depth, contexts, circular, seen>>

\* The error ends the innermost formatRaw, which returns a string for it: its object
\* stays in `seen', and the value that threw leaves its indentation.
Throws(v) ==
    /\ Due(v) /\ kind[v] = "throwing"
    /\ IF frames = <<>> THEN result' = "thrown" /\ UNCHANGED <<frames, contexts, printed>>
       ELSE /\ Prints("error", Formatter.value, 0)
            /\ contexts' = Lowered(IF Formatter.isProxy THEN Front(contexts) ELSE Raised(contexts))
            /\ Returned(Front(frames))
    /\ UNCHANGED <<kind, refs, depth, circular, seen>>

\* The inspector of a class calls inspect with a proxy and a copy of ctx: depth is
\* counted anew, `seen' is shared, and the map of circular references if there is one.
Nested(v) ==
    /\ Due(v) /\ kind[v] = "class"
    /\ contexts' = LET cs == Raised(contexts) IN Append(cs, Last(cs))
    /\ frames' = Append(frames, [value |-> v, isProxy |-> TRUE, times |-> 1, next |-> 1])
    /\ seen' = Append(seen, -v)
    /\ UNCHANGED <<kind, refs, depth, circular, printed, result>>

IsRaw(v) == Due(v) /\ kind[v] \notin {"custom", "throwing", "class"}

\* The number of v in a map, or 0.
Index(map, v) ==
    LET at == {i \in DOMAIN map : map[i] = v} IN IF at = {} THEN 0 ELSE Min(at)

Circular(v) ==
    /\ IsRaw(v) /\ Contains(seen, v)
    /\ IF ctx.map = 0
       THEN /\ circular' = Append(circular, <<v>>)
            /\ contexts' = [contexts EXCEPT ![Len(contexts)].map = Len(circular) + 1]
            /\ Prints("circular", v, 1)
       ELSE LET map == circular[ctx.map]
                known == Index(map, v)
            IN  /\ circular' = IF known # 0 THEN circular
                               ELSE [circular EXCEPT ![ctx.map] = Append(@, v)]
                /\ Prints("circular", v, IF known # 0 THEN known ELSE Len(map) + 1)
                /\ UNCHANGED contexts
    /\ Returned(frames)
    /\ UNCHANGED <<kind, refs, depth, seen>>

-----------------------------------------------------------------------------
(* formatRaw                                                                *)

TooDeep == depth # <<>> /\ recurseTimes > depth[1]

\* An empty object is printed at any depth.
Brief(v) ==
    /\ IsRaw(v) /\ ~Contains(seen, v)
    /\ refs[v] = <<>> \/ TooDeep
    /\ Prints("brief", v, 0) /\ Returned(frames)
    /\ UNCHANGED <<kind, refs, depth, contexts, circular, seen>>

Enter(v) ==
    /\ IsRaw(v) /\ ~Contains(seen, v)
    /\ refs[v] # <<>> /\ ~TooDeep
    /\ contexts' = Raised(contexts)
    /\ frames' = Append(frames, [value |-> v, isProxy |-> FALSE,
                                 times |-> recurseTimes + 1, next |-> 1])
    /\ seen' = Append(seen, v)
    /\ UNCHANGED <<kind, refs, depth, circular, printed, result>>

InMap == IF ctx.map = 0 THEN 0 ELSE Index(circular[ctx.map], Formatter.value)

\* Mutation of Leave: an object with a reference mark stays in `seen'.
Leave_MarkedStays ==
    /\ result = "none" /\ frames # <<>> /\ Formatter.next > Len(Children(Formatter.value))
    /\ Prints("ref", Formatter.value, IF Formatter.isProxy THEN 0 ELSE InMap)
    /\ seen' = IF InMap # 0 /\ ~Formatter.isProxy THEN seen ELSE Front(seen)
    /\ contexts' = Lowered(IF Formatter.isProxy THEN Front(contexts) ELSE contexts)
    /\ Returned(Front(frames))
    /\ UNCHANGED <<kind, refs, depth, circular>>

\* The mark <ref *n>, if the map has the object; no map has a proxy.
Leave ==
    /\ result = "none" /\ frames # <<>> /\ Formatter.next > Len(Children(Formatter.value))
    /\ Prints("ref", Formatter.value, IF Formatter.isProxy THEN 0 ELSE InMap)
    /\ seen' = Front(seen)
    /\ contexts' = Lowered(IF Formatter.isProxy THEN Front(contexts) ELSE contexts)
    /\ Returned(Front(frames))
    /\ UNCHANGED <<kind, refs, depth, circular>>

-----------------------------------------------------------------------------
\* The fields of the library's objects are set when they are made: what one refers
\* to is older, unless it is an object of the user.  Empty collections are formatted
\* as empty objects are.
Graphs ==
    {g \in [kind : [Objects -> Kinds], refs : [Objects -> BoundedSeq(Objects, MaxRefs)]]
           \cup [kind : [Objects -> AllKinds],
                 refs : {r \in [Objects -> BoundedSeq(Objects, MaxRefs)] :
                            \A v \in Objects : v > 2 => r[v] = <<>>}] :
        \A v \in Objects :
            /\ g.kind[v] \in {"custom", "throwing"} => g.refs[v] = <<>>
            /\ g.kind[v] \in {"array", "set", "map"} => g.refs[v] # <<>>
            /\ g.kind[v] = "class" =>
                  \A u \in ToSet(g.refs[v]) : g.kind[u] = "class" => u > v}

InspectInit ==
    /\ \E g \in Graphs : kind = g.kind /\ refs = g.refs
    /\ depth \in Depths
    /\ frames = <<>> /\ circular = <<>> /\ seen = <<>> /\ printed = <<>> /\ result = "none"
    /\ contexts = <<[indentationLvl |-> 0, map |-> 0]>>

InspectNext ==
    \/ \E v \in Objects :
          Custom(v) \/ Throws(v) \/ Nested(v) \/ Circular(v) \/ Brief(v) \/ Enter(v)
    \/ Leave

InspectSpec == InspectInit /\ [][InspectNext]_inspectVars

-----------------------------------------------------------------------------
AtWork == [i \in DOMAIN frames |-> IF frames[i].isProxy THEN -frames[i].value ELSE frames[i].value]
Shown(what) == {<<t.value, t.index>> : t \in {u \in ToSet(printed) : u.what = what}}
Failed == Shown("error") # {}

\* However the values refer to each other, inspection goes down through none of the
\* user's objects twice.  As long as no inspector has thrown, what is printed as
\* circular is what it is inside of, the indentation is that of the nesting, and,
\* where no class of the library calls inspect again, each number that a circular
\* reference shows is the mark of the one object it refers to.
InspectionIsExact ==
    /\ \A i, j \in DOMAIN AtWork : AtWork[i] = AtWork[j] /\ AtWork[i] > 0 => i = j
    /\ \A i \in DOMAIN AtWork : AtWork[i] > 0 => Contains(seen, AtWork[i])
    /\ ~Failed =>
        /\ seen = AtWork
        /\ result = "none" /\ printed # <<>> /\ Last(printed).what = "circular" =>
              Contains(AtWork, Last(printed).value)
        /\ frames # <<>> => ctx.indentationLvl = 2 * (Len(frames) - 1)
    /\ result = "string" /\ ~Failed /\ (\A v \in Objects : kind[v] # "class") =>
        LET marks == {t \in Shown("ref") : t[2] # 0} IN
        /\ Shown("circular") = marks
        /\ \A s, t \in marks : s[2] = t[2] => s = t

\* What the comment at `seen' says: it only checks for the depth and never grows
\* too large.
SeenIsDepth == Len(seen) = Len(frames)
=============================================================================
