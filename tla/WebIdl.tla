-------------------------------- MODULE WebIdl --------------------------------
(***************************************************************************)
(* The converters of 00_webidl.js: what a JavaScript value becomes as an    *)
(* argument of one of the runtime's interfaces, or whether TypeError is     *)
(* thrown.                                                                 *)
(*                                                                         *)
(* A finite number is counted in quarters.  The 53 bits of a safe integer  *)
(* and the 64 bits of long long are scaled down.                           *)
(***************************************************************************)
EXTENDS Integers, Sequences, SequencesExt, FiniteSetsExt, SeqFunctions

CONSTANTS
    BitLengths,             \* of createIntegerConversion
    LongBits, SafeBits,     \* of createLongLongConversion, of safe integers
    MaxQuarters,            \* bound: of the numbers that are converted
    MaxKey,                 \* bound: of the keys of dictionaries and records
    MaxProperties,          \* bound: own properties of an object
    MaxResults              \* bound: what an iterator gives before it is done

ASSUME WebIdlAssumption ==
    /\ SafeBits \in Nat \ {0} /\ LongBits \in Nat /\ SafeBits < LongBits
    /\ BitLengths \subseteq 1 .. SafeBits
    /\ MaxQuarters \in Nat /\ MaxKey \in Nat
    /\ MaxProperties \in Nat /\ MaxResults \in Nat

VARIABLES
    call,       \* the conversion that was made, and its arguments
    outcome     \* what it returned, or that it threw

idlVars == <<call, outcome>>

Keys == 1 .. MaxKey

Throws == [ok |-> FALSE, value |-> <<>>]
Gives(x) == [ok |-> TRUE, value |-> <<x>>]

\* type: the first branch sees null, which typeof calls an object.
Type(typeof, isNull) ==
    IF isNull THEN "Null"
    ELSE CASE typeof = "undefined" -> "Undefined" [] typeof = "boolean" -> "Boolean"
           [] typeof = "number" -> "Number" [] typeof = "string" -> "String"
           [] typeof = "symbol" -> "Symbol" [] typeof = "bigint" -> "BigInt"
           [] OTHER -> "Object"

-----------------------------------------------------------------------------
(* Integers.  Whether a zero is negative is left out.                       *)

\* A finite number has SafeBits significant bits: Spacing is how far apart those
\* are that are as large as x.
Magnitude(x) == IF x < 0 THEN -x ELSE x
HasRoom(x, e) == Magnitude(x) <= 2 ^ (SafeBits + e)
Spacing(x) ==
    2 ^ (CHOOSE e \in 0 .. Magnitude(x) : HasRoom(x, e) /\ (e > 0 => ~HasRoom(x, e - 1)))
IsDouble(x) == x % Spacing(x) = 0

\* Number of a BigInt: the nearest that is a double, the even one of two.
NumberOf(x) ==
    LET u == Spacing(x)
        k == x \div u
        rest == x % u
    IN  IF 2 * rest < u \/ (2 * rest = u /\ k % 2 = 0) THEN k * u ELSE (k + 1) * u

Numbers ==
    [kind : {"finite"}, q : {q \in -MaxQuarters .. MaxQuarters : IsDouble(q)}]
    \cup [kind : {"NaN", "Infinity", "-Infinity", "bigint", "symbol"}, q : {0}]

\* toNumber throws for both.
NoNumber(v) == v.kind \in {"bigint", "symbol"}

Half(q) == q % 4 = 2
MathFloor(q) == q \div 4
MathRound(q) == (q + 2) \div 4
IntegerPart(q) == IF q >= 0 THEN q \div 4 ELSE -((-q) \div 4)

\* Mutation of EvenRound: halves below zero are rounded up.
EvenRound_Up(q) ==
    IF q > 0 /\ Half(q) /\ IntegerPart(q) % 2 = 0 THEN MathFloor(q) ELSE MathRound(q)

\* x & 1 is the parity of the integer part.
EvenRound(q) ==
    IF \/ q > 0 /\ Half(q) /\ IntegerPart(q) % 2 = 0
       \/ q < 0 /\ Half(q) /\ IntegerPart(q) % 2 = 1
    THEN MathFloor(q) ELSE MathRound(q)

Sign(x) == IF x < 0 THEN -1 ELSE 1

\* The remainder of JavaScript has the sign of x.
Modulo(x, y) ==
    LET remainder == Sign(x) * ((Sign(x) * x) % y)
    IN  IF Sign(y) # Sign(remainder) THEN remainder + y ELSE remainder

LowerBound(bits, unsigned) == IF unsigned THEN 0 ELSE -(2 ^ (bits - 1))
UpperBound(bits, unsigned) == IF unsigned THEN 2 ^ bits - 1 ELSE 2 ^ (bits - 1) - 1
SafeLowerBound(unsigned) == IF unsigned THEN 0 ELSE 1 - 2 ^ SafeBits
SafeUpperBound == 2 ^ SafeBits - 1

EnforceRange(v, lower, upper) ==
    IF v.kind # "finite" \/ IntegerPart(v.q) < lower \/ IntegerPart(v.q) > upper
    THEN Throws ELSE Gives(IntegerPart(v.q))

Clamp(v, lower, upper) ==
    CASE v.kind = "Infinity" -> upper [] v.kind = "-Infinity" -> lower
      [] OTHER -> EvenRound(Min({Max({v.q, 4 * lower}), 4 * upper}))

Wrap(x, bits, unsigned) ==
    LET m == Modulo(x, 2 ^ bits) IN
    IF x \in LowerBound(bits, unsigned) .. UpperBound(bits, unsigned) THEN x
    ELSE IF ~unsigned /\ m >= 2 ^ (bits - 1) THEN m - 2 ^ bits ELSE m

\* BigInt.asIntN and asUintN are exact.
AsBigIntN(x, bits, unsigned) ==
    CHOOSE n \in LowerBound(bits, unsigned) .. UpperBound(bits, unsigned) :
        (x - n) % (2 ^ bits) = 0

IntegerConversion(v, bits, unsigned, option) ==
    IF NoNumber(v) THEN Throws
    ELSE IF option = "enforceRange"
         THEN EnforceRange(v, LowerBound(bits, unsigned), UpperBound(bits, unsigned))
    ELSE IF option = "clamp" /\ v.kind # "NaN"
         THEN Gives(Clamp(v, LowerBound(bits, unsigned), UpperBound(bits, unsigned)))
    ELSE Gives(IF v.kind = "finite" THEN Wrap(IntegerPart(v.q), bits, unsigned) ELSE 0)

LongLongConversion(v, unsigned, option) ==
    IF NoNumber(v) THEN Throws
    ELSE IF option = "enforceRange"
         THEN EnforceRange(v, SafeLowerBound(unsigned), SafeUpperBound)
    ELSE IF option = "clamp" /\ v.kind # "NaN"
         THEN Gives(Clamp(v, SafeLowerBound(unsigned), SafeUpperBound))
    ELSE Gives(IF v.kind = "finite"
               THEN NumberOf(AsBigIntN(IntegerPart(v.q), LongBits, unsigned)) ELSE 0)

ConvertInteger(v, bits, unsigned, option) ==
    /\ call' = [of |-> "integer", v |-> v, bits |-> bits, unsigned |-> unsigned, option |-> option]
    /\ outcome' = IF bits = LongBits THEN LongLongConversion(v, unsigned, option)
                  ELSE IntegerConversion(v, bits, unsigned, option)

-----------------------------------------------------------------------------
(* Floating point, by the class of the number.  A finite number that single  *)
(* precision has no room for is "large".                                     *)

Classes == {"finite", "large", "NaN", "Infinity", "bigint", "symbol"}

Float(class) ==
    IF class = "finite" THEN Gives("rounded") ELSE Throws
UnrestrictedFloat(class) ==
    CASE class = "finite" -> Gives("rounded") [] class = "large" -> Gives("Infinity")
      [] class \in {"NaN", "Infinity"} -> Gives(class) [] OTHER -> Throws
Double(class) == IF class \in {"finite", "large"} THEN Gives("exact") ELSE Throws
UnrestrictedDouble(class) ==
    CASE class \in {"finite", "large"} -> Gives("exact")
      [] class \in {"NaN", "Infinity"} -> Gives(class) [] OTHER -> Throws

\* createNullableConverter.
Nullable(isNullish, converted) == IF isNullish THEN Gives("null") ELSE converted

ConvertFloat(class, double, restricted, nullable, isNullish) ==
    LET converted == IF double
                     THEN IF restricted THEN Double(class) ELSE UnrestrictedDouble(class)
                     ELSE IF restricted THEN Float(class) ELSE UnrestrictedFloat(class)
    IN  /\ call' = [of |-> "float", class |-> class, double |-> double,
                    restricted |-> restricted, nullish |-> nullable /\ isNullish]
        /\ outcome' = IF nullable THEN Nullable(isNullish, converted) ELSE converted

-----------------------------------------------------------------------------
(* Strings, by their characters: "ascii", "latin" (up to 255), "wide", and   *)
(* "lone", an unpaired surrogate, which USVString replaces by "fffd".        *)

DOMString(v, treatNullAsEmptyString) ==
    CASE v.typeof = "symbol" -> Throws
      [] v.typeof = "null" /\ treatNullAsEmptyString -> Gives(<<>>)
      [] OTHER -> Gives(v.text)
ByteString(v, treatNull) ==
    LET x == DOMString(v, treatNull) IN
    IF x.ok /\ \E i \in DOMAIN x.value[1] : x.value[1][i] \in {"wide", "lone"}
    THEN Throws ELSE x
USVString(v, treatNull) ==
    LET x == DOMString(v, treatNull) IN
    IF ~x.ok THEN x
    ELSE Gives([i \in DOMAIN x.value[1] |-> IF x.value[1][i] = "lone" THEN "fffd" ELSE x.value[1][i]])

\* createEnumConverter converts with String, which a symbol survives.
Enum(v, values) == IF v.text \in values THEN Gives(v.text) ELSE Throws

ConvertString(v, kind, treatNull) ==
    /\ call' = [of |-> "string", v |-> v, kind |-> kind, treatNull |-> treatNull]
    /\ outcome' = CASE kind = "DOMString" -> DOMString(v, treatNull)
                    [] kind = "ByteString" -> ByteString(v, treatNull)
                    [] kind = "USVString" -> USVString(v, treatNull)
                    [] kind = "enum" -> Enum(v, {<<"ascii">>})

-----------------------------------------------------------------------------
(* Buffers: what is accepted is passed on as it is.                          *)

Names == {"Uint8Array", "Float64Array"}
Buffers ==
    [is : {"ArrayBuffer", "DataView", "other"} \cup Names, shared : BOOLEAN]

IsView(b) == b.is \in Names \cup {"DataView"}
SharedAllowed(b, allowShared) == b.shared => allowShared

\* isArrayBuffer is false of a SharedArrayBuffer, allowed or not.
ArrayBuffer(b, allowShared) == b.is = "ArrayBuffer" /\ ~b.shared
DataView(b, allowShared) == b.is = "DataView" /\ SharedAllowed(b, allowShared)
TypedArray(b, name, allowShared) == b.is = name /\ SharedAllowed(b, allowShared)
ArrayBufferView(b, allowShared) == IsView(b) /\ SharedAllowed(b, allowShared)

\* Mutation of BufferSource: views are accepted whatever they are views on.
BufferSource_AnyView(b, allowShared) ==
    IsView(b) \/ (b.is = "ArrayBuffer" /\ SharedAllowed(b, allowShared))

BufferSource(b, allowShared) ==
    IF IsView(b) THEN SharedAllowed(b, allowShared)
    ELSE b.is = "ArrayBuffer" /\ SharedAllowed(b, allowShared)

ConvertBuffer(b, converter, allowShared) ==
    LET accepted == CASE converter = "ArrayBuffer" -> ArrayBuffer(b, allowShared)
                      [] converter = "DataView" -> DataView(b, allowShared)
                      [] converter = "ArrayBufferView" -> ArrayBufferView(b, allowShared)
                      [] converter = "BufferSource" -> BufferSource(b, allowShared)
                      [] OTHER -> TypedArray(b, converter, allowShared)
    IN  /\ call' = [of |-> "buffer", b |-> b, converter |-> converter, allowShared |-> allowShared]
        /\ outcome' = IF accepted THEN Gives(b) ELSE Throws

-----------------------------------------------------------------------------
(* Objects.  A member of an object is "good" or "bad" for the converter of    *)
(* its value, or "undefined".                                                *)

\* One round of the loop over the members.
ReadMember(state, m, value) ==
    IF ~state.ok THEN state
    ELSE [ok |-> IF value = "undefined" THEN ~m.required ELSE value = "good",
          dict |-> IF value = "good"
                   THEN [k \in DOMAIN state.dict \cup {m.key} |->
                            IF k = m.key THEN "given" ELSE state.dict[k]]
                   ELSE state.dict,
          reads |-> Append(state.reads, m.key)]

Defaults(members) == {m.key : m \in {n \in members : n.default}}

\* createDictionaryConverter sorts the members of all dictionaries by their keys.
\* v: its type, and the members it has.
Dictionary(members, v) ==
    LET start == [ok |-> v.type \in {"Undefined", "Null", "Object"},
                  dict |-> [k \in Defaults(members) |-> "default"], reads |-> <<>>]
        Value(k) == IF v.type = "Object" THEN v.has[k] ELSE "undefined"
        upTo[k \in 0 .. MaxKey] ==
            IF k = 0 THEN start
            ELSE IF \E m \in members : m.key = k
                 THEN ReadMember(upTo[k - 1], CHOOSE m \in members : m.key = k, Value(k))
            ELSE upTo[k - 1]
    IN  IF v.type \in {"Undefined", "Null"} /\ ~\E m \in members : m.required THEN start
        ELSE upTo[MaxKey]

ConvertDictionary(members, v) ==
    LET d == Dictionary(members, v) IN
    /\ call' = [of |-> "dictionary", members |-> members, v |-> v, reads |-> d.reads]
    /\ outcome' = IF d.ok THEN Gives(d.dict) ELSE Throws

\* createSequenceConverter: results of `next' until one is done, or is none at
\* all, or a value is refused.  The iterator is not closed.
Ends == {"done", "none", "bad"}
Sequence(v) ==
    LET stop == SelectInSeq(v.results, LAMBDA r : r \in Ends)
    IN  IF v.type # "Object" \/ ~v.iterable \/ v.results[stop] # "done" THEN Throws
        ELSE Gives(SubSeq(v.results, 1, stop - 1))

ConvertSequence(v) ==
    /\ call' = [of |-> "sequence", v |-> v] /\ outcome' = Sequence(v)

\* createRecordConverter.  An own property: [key, symbol, enumerable, value].  Keys
\* of symbols are not met by for-in; their conversion throws.  typedKey: what the
\* converter of the keys makes of each, NoKey if it throws; two may become one.
NoKey == 0
Values(s) == {s[i] : i \in 1 .. Len(s)}
RecordOf(properties, typedKey) ==
    IF \E p \in Values(properties) :
            p.symbol \/ typedKey[p.key] = NoKey \/ p.value = "bad"
    THEN Throws
    ELSE Gives([k \in {typedKey[p.key] : p \in Values(properties)} |-> "given"])

FastRecord(properties, typedKey) ==
    RecordOf(Select(properties, {p \in Values(properties) : p.enumerable /\ ~p.symbol}), typedKey)
SlowRecord(properties, typedKey) ==
    RecordOf(Select(properties, {p \in Values(properties) : p.enumerable}), typedKey)

ConvertRecord(properties, isProxy, typedKey) ==
    /\ call' = [of |-> "record", properties |-> properties, isProxy |-> isProxy,
                typedKey |-> typedKey]
    /\ outcome' = IF isProxy THEN SlowRecord(properties, typedKey)
                  ELSE FastRecord(properties, typedKey)

-----------------------------------------------------------------------------
(* Promises, callbacks and brands.                                           *)

\* createPromiseConverter: a value that is no thenable and is refused throws now.
PromiseConversion(thenable, good) ==
    IF thenable \/ good THEN Gives(IF good THEN "fulfilled" ELSE "rejected") ELSE Throws

\* invokeCallbackFunction: what the callback does, and the conversion of its result.
InvokeCallbackFunction(threw, good, returnsPromise) ==
    IF ~threw /\ good THEN Gives("converted")
    ELSE IF returnsPromise THEN Gives("rejected") ELSE Throws

\* createInterfaceConverter and assertBranded: an instance made by the constructor
\* or by createBranded; the prototype alone does not do.
Branded(inherits, hasBrand) == IF inherits /\ hasBrand THEN Gives("branded") ELSE Throws

ConvertPromise(thenable, good) ==
    /\ call' = [of |-> "promise", thenable |-> thenable, good |-> good]
    /\ outcome' = PromiseConversion(thenable, good)
Invoke(threw, good, returnsPromise) ==
    /\ call' = [of |-> "callback", threw |-> threw, good |-> good, returnsPromise |-> returnsPromise]
    /\ outcome' = InvokeCallbackFunction(threw, good, returnsPromise)
ConvertInterface(inherits, hasBrand) ==
    /\ call' = [of |-> "interface", inherits |-> inherits, hasBrand |-> hasBrand]
    /\ outcome' = Branded(inherits, hasBrand)

-----------------------------------------------------------------------------
Text == {<<>>, <<"ascii">>, <<"latin">>, <<"wide">>, <<"ascii", "lone">>}
Members == [key : Keys, required : BOOLEAN, default : BOOLEAN]
MemberSets == {ms \in SUBSET Members : \A a, b \in ms : a.key = b.key => a = b}
Types == {Type(t, n) : t \in {"undefined", "boolean", "symbol", "object", "function"}, n \in BOOLEAN}
\* No two properties of an object have the same name.
Property == [key : Keys, symbol : BOOLEAN, enumerable : BOOLEAN, value : {"good", "bad"}]
TypedKeys == [Keys -> Keys \cup {NoKey}]
Properties ==
    {ps \in BoundedSeq(Property, MaxProperties) :
        \A i, j \in 1 .. Len(ps) :
            ps[i].key = ps[j].key /\ ps[i].symbol = ps[j].symbol => i = j}

IdlInit == call = [of |-> "none"] /\ outcome = Throws

IdlNext ==
    /\ call.of = "none"
    /\ \/ \E v \in Numbers, bits \in BitLengths \cup {LongBits}, unsigned \in BOOLEAN,
             option \in {"none", "enforceRange", "clamp"} : ConvertInteger(v, bits, unsigned, option)
       \/ \E class \in Classes, double, restricted, nullable, isNullish \in BOOLEAN :
             ConvertFloat(class, double, restricted, nullable, isNullish)
       \/ \E typeof \in {"string", "null", "symbol"}, text \in Text, treatNull \in BOOLEAN,
             kind \in {"DOMString", "ByteString", "USVString", "enum"} :
             ConvertString([typeof |-> typeof, text |-> text], kind, treatNull)
       \/ \E b \in Buffers, allowShared \in BOOLEAN,
             converter \in Names \cup {"ArrayBuffer", "DataView", "ArrayBufferView", "BufferSource"} :
             ConvertBuffer(b, converter, allowShared)
       \/ \E members \in MemberSets, type \in Types, has \in [Keys -> {"good", "bad", "undefined"}] :
             ConvertDictionary(members, [type |-> type, has |-> has])
       \/ \E type \in Types, iterable \in BOOLEAN,
             results \in BoundedSeq({"good"}, MaxResults - 1), end \in Ends :
             ConvertSequence([type |-> type, iterable |-> iterable,
                              results |-> Append(results, end)])
       \/ \E properties \in Properties, isProxy \in BOOLEAN, typedKey \in TypedKeys :
             ConvertRecord(properties, isProxy, typedKey)
       \/ \E a, b, c \in BOOLEAN :
             ConvertPromise(a, b) \/ Invoke(a, b, c) \/ ConvertInterface(a, b)

IdlSpec == IdlInit /\ [][IdlNext]_idlVars

-----------------------------------------------------------------------------
\* How far the number of q quarters is from m, and what is left of it without
\* its fraction.
Distance(q, m) == Max({q - 4 * m, 4 * m - q})
Whole(q) == CHOOSE m \in {q \div 4, q \div 4 + 1} :
                Distance(q, m) < 4 /\ 4 * m \in IF q >= 0 THEN 0 .. q ELSE q .. 0

\* n is one of the doubles that are nearest to m.
Nearest(n, m) ==
    /\ IsDouble(n)
    /\ \A d \in 0 .. 2 ^ LongBits : IsDouble(d) => Magnitude(n - m) <= Magnitude(d - m)

IntegerConverts(v, bits, unsigned, option, result) ==
    LET long == bits = LongBits /\ option # "none"
        low == IF long THEN SafeLowerBound(unsigned) ELSE LowerBound(bits, unsigned)
        high == IF long THEN SafeUpperBound ELSE UpperBound(bits, unsigned)
        \* Only a negative number that becomes an unsigned long long is rounded.
        rounded == bits = LongBits /\ option = "none" /\ unsigned /\ v.kind = "finite" /\ v.q < 0
        n == result.value[1]
    IN  /\ result.ok <=> /\ ~NoNumber(v)
                         /\ option = "enforceRange" =>
                               v.kind = "finite" /\ Whole(v.q) \in low .. high
        /\ result.ok /\ ~rounded => n \in low .. high
        /\ result.ok /\ v.kind = "finite" =>
            CASE option = "enforceRange" -> n = Whole(v.q)
              [] option = "clamp" ->
                    \A m \in low .. high \ {n} :
                        \/ Distance(v.q, n) < Distance(v.q, m)
                        \/ Distance(v.q, n) = Distance(v.q, m) /\ n % 2 = 0
              [] OTHER -> IF rounded
                          THEN \E m \in low .. high :
                                  (Whole(v.q) - m) % (2 ^ bits) = 0 /\ Nearest(n, m)
                          ELSE (Whole(v.q) - n) % (2 ^ bits) = 0
        /\ result.ok /\ v.kind = "Infinity" => n = IF option = "clamp" THEN high ELSE 0
        /\ result.ok /\ v.kind = "-Infinity" => n = IF option = "clamp" THEN low ELSE 0
        /\ result.ok /\ v.kind = "NaN" => n = 0

\* What the comments at evenRound and the options promise of a number: the whole
\* number an integer type gets is the nearest in its range, the even one of two
\* that are as near (clamp); what is left without the fraction if that is in the
\* range, and TypeError if not (enforceRange); the only one in the range that is
\* congruent to that (neither).  The last is exact, except where a negative number
\* becomes an unsigned long long, which may have no double: the nearest is given,
\* so that -1 becomes 2^64, which is past the range.
IntegersConvert ==
    call.of = "integer" =>
        IntegerConverts(call.v, call.bits, call.unsigned, call.option, outcome)

\* A dictionary holds what was given over what is default, and conversion reads
\* its members in their order, each once, and stops at the first that it refuses.
DictionaryConverts(members, v, reads, result) ==
    LET keys == {m.key : m \in members}
        given == {k \in keys : v.type = "Object" /\ v.has[k] # "undefined"}
        required == {m.key : m \in {n \in members : n.required}}
        refused == {k \in given : v.has[k] = "bad"} \cup (required \ given)
    IN  /\ result.ok <=> v.type \in {"Undefined", "Null", "Object"} /\ refused = {}
        /\ result.ok =>
            result.value[1] = [k \in given \cup Defaults(members) |->
                                  IF k \in given THEN "given" ELSE "default"]
        /\ v.type = "Object" =>
            /\ Values(reads) = {k \in keys : \A r \in refused : k <= r}
            /\ \A i, j \in 1 .. Len(reads) : i < j => reads[i] < reads[j]

\* A record has the enumerable own properties of its object under their converted
\* keys, also when a proxy stands for it; only a proxy shows the symbols among them,
\* which are refused, as is a key or a value that its converter refuses.
RecordConverts(properties, isProxy, typedKey, result) ==
    LET own == {p \in Values(properties) : p.enumerable}
        named == {p \in own : ~p.symbol}
    IN  /\ result.ok <=> /\ \A p \in named : p.value = "good" /\ typedKey[p.key] # NoKey
                         /\ isProxy => named = own
        /\ result.ok => DOMAIN result.value[1] = {typedKey[p.key] : p \in named}

\* Memory that is shared is accepted only where allowShared says so, directly or
\* through a view; all other buffers and views are BufferSources.
BufferConverts(b, accepts, allowShared, result) ==
    /\ result.ok => SharedAllowed(b, allowShared)
    /\ accepts = "BufferSource" /\ SharedAllowed(b, allowShared) =>
        (result.ok <=> b.is # "other")

\* The converters of objects keep these promises.
ObjectsConvert ==
    /\ call.of = "dictionary" => DictionaryConverts(call.members, call.v, call.reads, outcome)
    /\ call.of = "record" =>
        RecordConverts(call.properties, call.isProxy, call.typedKey, outcome)
    /\ call.of = "buffer" => BufferConverts(call.b, call.converter, call.allowShared, outcome)
=============================================================================
