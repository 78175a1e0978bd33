------------------------------ MODULE UrlPattern ------------------------------
(***************************************************************************)
(* URLPattern of 01_urlpattern.js: patterns, the cache of processed inputs *)
(* that all patterns share, and the result object that a pattern keeps     *)
(* from an exec that found no match.                                       *)
(*                                                                         *)
(* Regular expressions and the ops of urlpattern.rs are constants: which   *)
(* values an input has, and what a component captures from a value.        *)
(***************************************************************************)
EXTENDS Naturals, Sequences, FiniteSets, SequencesExt, TLC

CONSTANTS
    Patterns,       \* URLPattern objects
    Component,      \* Component[p]: what op_urlpattern_parse made of p, a sequence
                    \* of [kind, names, captures] in the order of COMPONENTS_KEYS
    Strings, Dictionaries, Bases,  \* inputs: strings, URLPatternInit; base URLs
    Process,        \* Process[<<i, b>>]: op_urlpattern_process_match_input
    None,
    Capacity,       \* of the cache
    MaxObjects, MaxResults     \* bounds: dictionaries converted, results returned

VARIABLES
    live,       \* the patterns whose constructor returned
    map,        \* #map of the cache, a sequence of entries: the oldest first
    last,       \* #lastUsedKey and #lastUsedValue
    made,       \* dictionaries that were converted, each a new object
    results,    \* result objects, by identity
    reused,     \* #reusedResult of each pattern: 0 if undefined
    returned    \* history: the calls of exec that returned a result

vars == <<live, map, last, made, results, reused, returned>>

Inputs == Strings \cup Dictionaries

UrlPatternAssumption ==
    /\ Capacity \in Nat /\ MaxObjects \in Nat /\ MaxResults \in Nat
    /\ \A p \in Patterns : \A c \in DOMAIN Component[p] :
          Component[p][c].kind \in {"^$", "^(.*)$", "regexp", "invalid"}
    /\ \A p \in Patterns :
          /\ Len(Component[p]) \in Nat /\ DOMAIN Component[p] = 1 .. Len(Component[p])
          /\ (\A c \in DOMAIN Component[p] : Component[p][c].kind # "invalid") =>
                \A io \in DOMAIN Process : Process[io] # None =>
                    DOMAIN Process[io] = DOMAIN Component[p]
    /\ \A i \in Inputs, b \in Bases \cup {None} : <<i, b>> \in DOMAIN Process
    /\ \A i \in Inputs, n \in 0 .. MaxObjects : None # <<i>> /\ None # <<i, n>>

Init ==
    /\ live = {} /\ map = <<>> /\ last = [key |-> None, value |-> None]
    /\ made = 0 /\ results = <<>> /\ reused = [p \in Patterns |-> 0]
    /\ returned = {}

\* The constructor compiles every component, and throws if one is invalid.
Construct(p) ==
    /\ p \notin live /\ \A c \in DOMAIN Component[p] : Component[p][c].kind # "invalid"
    /\ live' = live \cup {p}
    /\ UNCHANGED <<map, last, made, results, reused, returned>>

-----------------------------------------------------------------------------
(* SampledLRUCache.getOrInsert.                                             *)

\* A dictionary is converted to a new object each time: no key equals it.
Key(i) == IF i \in Strings THEN <<i>> ELSE <<i, made>>

Has(key) == \E n \in DOMAIN map : map[n].key = key
Held(key) == CHOOSE n \in DOMAIN map : map[n].key = key

\* A map that is over its capacity makes room before an entry is set.
Evicted == IF Len(map) > Capacity THEN Tail(map) ELSE map

\* The value the call answers with, null included.
Answer(i) ==
    LET key == Key(i) IN
    IF last.key = key THEN last.value
    ELSE IF Has(key) THEN map[Held(key)].value
    ELSE Process[<<i, None>>]

\* Mutation of GetOrInsert: a hit in the map keeps the value used before.
GetOrInsert_KeepsValue(i, sampled) ==
    LET key == Key(i)
        entry == [key |-> key, value |-> Answer(i)]
    IN
    /\ last' = IF Has(key) THEN [last EXCEPT !.key = key] ELSE entry
    /\ map' = IF last.key = key \/ ~sampled \/ Has(key) THEN map
              ELSE Append(Evicted, entry)

\* `sampled' is the outcome of MathRandom.
GetOrInsert(i, sampled) ==
    LET key == Key(i)
        entry == [key |-> key, value |-> Answer(i)]
    IN
    /\ last' = entry
    /\ map' = IF last.key = key \/ ~sampled THEN map
              ELSE IF Has(key) THEN Append(RemoveAt(map, Held(key)), entry)
              ELSE Append(Evicted, entry)

\* The op is called without the cache when there is a base; a dictionary with a
\* base makes it throw.
Processed(i, b) == IF b = None THEN Answer(i) ELSE Process[<<i, b>>]

\* The conversion of the input and the lookup, common to test and exec.
Lookup(i, b) ==
    /\ i \in Dictionaries => b = None /\ made < MaxObjects
    /\ made' = IF i \in Dictionaries THEN made + 1 ELSE made
    /\ IF b = None THEN \E sampled \in BOOLEAN : GetOrInsert(i, sampled)
       ELSE UNCHANGED <<map, last>>

-----------------------------------------------------------------------------
\* The one group of a component that matches everything.
Whole(v) == [n \in {"0"} |-> v]

\* Whether a component matches a value, and the groups it gives.
Accepts(part, v) ==
    CASE part.kind = "^$" -> v = ""
      [] part.kind = "^(.*)$" -> TRUE
      [] OTHER -> part.captures[v] # None

Groups(part, v) ==
    CASE part.kind = "^$" -> << >>
      [] part.kind = "^(.*)$" -> Whole(v)
      [] OTHER -> [n \in Range(part.names) |->
                      part.captures[v][SelectInSeq(part.names, LAMBDA m : m = n)]]

\* test: a lookup and nothing else.
Test(p, i, b) ==
    /\ p \in live /\ Lookup(i, b)
    /\ UNCHANGED <<live, results, reused, returned>>

\* The groups of g are set in the object f.
SetIn(f, g) == [n \in DOMAIN f \cup DOMAIN g |-> IF n \in DOMAIN g THEN g[n] ELSE f[n]]

\* The loop of exec over the components.  It stops at the first that does not
\* match, which has its entry by then; entries of an earlier exec are kept.
Filled(p, old, values) ==
    LET parts == Component[p]
        stop == SelectInSeq([c \in DOMAIN parts |-> Accepts(parts[c], values[c])],
                            LAMBDA a : ~a)
        reached(c) == stop = 0 \/ c <= stop
        entry(c) == IF old[c] # None THEN old[c]
                    ELSE [input |-> values[c],
                          groups |-> IF parts[c].kind = "^(.*)$" THEN Whole(values[c])
                                     ELSE << >>]
    IN  [c \in DOMAIN parts |->
            IF ~reached(c) THEN old[c]
            ELSE IF c = stop THEN entry(c)
            ELSE [input |-> values[c],
                  groups |-> SetIn(entry(c).groups, Groups(parts[c], values[c]))]]

Matches(p, values) == \A c \in DOMAIN Component[p] : Accepts(Component[p][c], values[c])

NoResult(p) == [parts |-> [c \in DOMAIN Component[p] |-> None], inputs |-> <<>>]

\* exec: `keep' is what #reusedResult becomes when there was a match.
Exec(p, i, b, keep(_)) ==
    LET res == Processed(i, b)
        id == IF reused[p] # 0 THEN reused[p] ELSE Len(results) + 1
        old == IF reused[p] # 0 THEN results[reused[p]] ELSE NoResult(p)
    IN
    /\ p \in live /\ Lookup(i, b) /\ UNCHANGED live
    /\ IF res = None THEN UNCHANGED <<results, reused, returned>>
       ELSE LET result == [parts |-> Filled(p, old.parts, res),
                           inputs |-> IF ~Matches(p, res) THEN old.inputs
                                      ELSE IF b = None THEN <<i>> ELSE <<i, b>>]
            IN  /\ results' = IF reused[p] # 0 THEN [results EXCEPT ![id] = result]
                              ELSE Append(results, result)
                /\ reused' = [reused EXCEPT ![p] = IF Matches(p, res) THEN keep(id) ELSE id]
                /\ IF ~Matches(p, res) THEN UNCHANGED returned
                   ELSE /\ Cardinality(returned) < MaxResults
                        /\ returned' = returned \cup
                              {[id |-> id, pattern |-> p, input |-> i, base |-> b,
                                call |-> Cardinality(returned)]}

Forgotten(id) == 0
Kept(id) == id

\* Mutation of Exec1: the object that was returned is used again.
Exec1_KeepsResult(p, i, b) == Exec(p, i, b, Kept)
Exec1(p, i, b) == Exec(p, i, b, Forgotten)

Next ==
    \/ \E p \in Patterns : Construct(p)
    \/ \E p \in Patterns, i \in Inputs, b \in Bases \cup {None} :
          Test(p, i, b) \/ Exec1(p, i, b)

Spec == Init /\ [][Next]_vars

-----------------------------------------------------------------------------
\* Whatever the cache holds is what the op answers for that key, and no key is
\* there twice, whatever was evicted, moved to the end or not sampled.
CacheIsTransparent ==
    LET right(e) == e.value = Process[<<e.key[1], None>>] IN
    /\ last.key = None \/ right(last)
    /\ \A n \in DOMAIN map : right(map[n])
    /\ \A n, k \in DOMAIN map : map[n].key = map[k].key => n = k

\* What the comments of the cache say: an entry that is inserted when the map is at
\* capacity takes the place of the first, so that the map never outgrows it.
MapWithinCapacity == Len(map) <= Capacity

\* A result that exec has returned is the match of its own input: nothing of the
\* failed matches before it is left in it, no later exec of the pattern changes
\* it, and no two calls return the same object.
ResultsAreFinal ==
    /\ \A r \in returned :
          LET values == Process[<<r.input, r.base>>] IN
          results[r.id] =
            [parts |-> [c \in DOMAIN values |->
                [input |-> values[c], groups |-> Groups(Component[r.pattern][c], values[c])]],
             inputs |-> IF r.base = None THEN <<r.input>> ELSE <<r.input, r.base>>]
    /\ \A r, s \in returned : r.id = s.id => r = s
=============================================================================
