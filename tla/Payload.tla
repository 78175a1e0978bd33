-------------------------------- MODULE Payload --------------------------------
(***************************************************************************)
(* What a payload becomes on its way through the bridge and which size is  *)
(* compared with EmbedderData::max_payload_size: sendtext / sendbinary on  *)
(* the Luau side (luau/event.rs), sendText / sendBinary on the JavaScript  *)
(* side (denobridge/event.rs), receive on both.                            *)
(*                                                                         *)
(* A payload is a sequence of units; the classes that matter are           *)
(*   "ascii"  one byte               "wide"  a 3-byte scalar value         *)
(*   "bad"    one byte that is not UTF-8 (in Luau strings and buffers)     *)
(*   "lone"   an unpaired surrogate (in JavaScript strings)                *)
(*   "fffd"   U+FFFD, 3 bytes, the replacement of "bad" and of "lone"      *)
(***************************************************************************)
EXTENDS Naturals, Sequences, SequencesExt, SeqFunctions

CONSTANTS MaxUnits,     \* bound: units of a payload
          Limits        \* the values of max_payload_size, besides None

ASSUME PayloadAssumption == MaxUnits \in Nat /\ Limits \subseteq Nat

VARIABLES
    limit,      \* max_payload_size: <<>> for None, <<n>> for Some(n)
    converters, \* of the two userdata converters, those the embedder installed
    value,      \* the value passed to the last send, and its sender
    wire,       \* the message put on the wire for it
    got,        \* the value the other side made of it
    stage       \* "start", "refused", "sent" or "received"

payloadVars == <<limit, converters, value, wire, got, stage>>

Strings(units) == BoundedSeq(units, MaxUnits)
LuauUnits == {"ascii", "wide", "bad"}
JsUnits == {"ascii", "wide", "lone"}
Utf8 == {"ascii", "wide", "fffd"}

\* The data of a userdata is what the converter returns for it; a "refused" one
\* is a userdata for which it returns an error.
LuauValues ==
    [from : {"luau"}, type : {"string", "buffer"}, data : Strings(LuauUnits)]
    \cup [from : {"luau"}, type : {"userdata"}, data : Strings({"ascii", "wide"})]
    \cup [from : {"luau"}, type : {"refused", "other"}, data : {<<>>}]
JsValues ==
    [from : {"js"}, type : {"string"}, data : Strings(JsUnits)]
    \cup [from : {"js"}, type : {"buffer"}, data : Strings(LuauUnits)]

Nothing == [from |-> "none", type |-> "none", data |-> <<>>]
NoMessage == [kind |-> "none", data |-> <<>>]
NoValue == [type |-> "none", data |-> <<>>]

Width(u) == IF u \in {"wide", "fffd"} THEN 3 ELSE 1
Size(s) == Sums(s, [u \in LuauUnits \cup JsUnits \cup Utf8 |-> Width(u)])[Len(s)]

\* to_string_lossy, and V8's conversion of a string argument to UTF-8.
Lossy(s) == [i \in DOMAIN s |-> IF s[i] \in {"bad", "lone"} THEN "fffd" ELSE s[i]]

TooLong(n) == limit # <<>> /\ n > limit[1]

PayloadInit ==
    /\ limit \in {<<>>} \cup {<<n>> : n \in Limits}
    /\ converters \in SUBSET {"text", "binary"}
    /\ value = Nothing /\ wire = NoMessage /\ got = NoValue /\ stage = "start"

\* A send that fails (ok = FALSE) raises an error; nothing reaches the wire.
Send(v, ok, kind, data) ==
    /\ stage = "start"
    /\ value' = v
    /\ IF ok THEN wire' = [kind |-> kind, data |-> data] /\ stage' = "sent"
             ELSE UNCHANGED wire /\ stage' = "refused"
    /\ UNCHANGED <<limit, converters, got>>

\* Mutation of SendBinary: the bytes go through a string.
SendBinary_Lossy(v) ==
    Send(v, \/ v.type \in {"string", "buffer"} /\ ~TooLong(Size(v.data))
            \/ v.type = "userdata" /\ "binary" \in converters, "binary", Lossy(v.data))

\* from_lua_binary and sendbinary.  The converter's output is not measured.
SendBinary(v) ==
    Send(v, \/ v.type \in {"string", "buffer"} /\ ~TooLong(Size(v.data))
            \/ v.type = "userdata" /\ "binary" \in converters, "binary", v.data)

\* Mutation of SendText: the bytes are taken as they are.
SendText_Raw(v) ==
    Send(v, \/ v.type = "string" /\ ~TooLong(Size(v.data))
            \/ v.type = "userdata" /\ "text" \in converters, "text", v.data)

\* from_lua_text and sendtext: the size of the Luau string is compared, and the
\* string is converted to UTF-8 afterwards.
SendText(v) ==
    Send(v, \/ v.type = "string" /\ ~TooLong(Size(v.data))
            \/ v.type = "userdata" /\ "text" \in converters, "text", Lossy(v.data))

\* Mutation of JsSendText: the length of the JavaScript string is compared.
JsSendText_Units(v) ==
    Send(v, v.type = "string" /\ ~TooLong(Len(v.data)), "text", Lossy(v.data))

\* send_text: V8 has converted the argument when its size is compared.
JsSendText(v) ==
    Send(v, v.type = "string" /\ ~TooLong(Size(Lossy(v.data))), "text", Lossy(v.data))

\* send_binary.
JsSendBinary(v) ==
    Send(v, v.type = "buffer" /\ ~TooLong(Size(v.data)), "binary", v.data)

\* receive, receiveText, receiveBinary: the bytes of the message, as a string
\* or as a buffer.
Receive ==
    /\ stage = "sent" /\ stage' = "received"
    /\ got' = [type |-> IF wire.kind = "text" THEN "string" ELSE "buffer",
               data |-> wire.data]
    /\ UNCHANGED <<limit, converters, value, wire>>

PayloadNext ==
    \/ \E v \in LuauValues : SendText(v) \/ SendBinary(v)
    \/ \E v \in JsValues : JsSendText(v) \/ JsSendBinary(v)
    \/ Receive

PayloadSpec == PayloadInit /\ [][PayloadNext]_payloadVars

-----------------------------------------------------------------------------
\* A text message is UTF-8 whatever string was sent, and a string that already
\* was UTF-8 arrives as it is.
TextIsUtf8 ==
    wire.kind = "text" =>
        /\ \A i \in DOMAIN wire.data : wire.data[i] \in Utf8
        /\ (\A i \in DOMAIN value.data : value.data[i] \in Utf8) => wire.data = value.data

\* A binary payload arrives byte for byte, valid UTF-8 or not.
BinaryIsExact ==
    stage = "received" /\ wire.kind = "binary" => got.data = value.data

\* Nothing that is sent exceeds the limit in the bytes that travel (unpaired
\* surrogates of JavaScript count with the three bytes of their replacement),
\* unless a converter made it, whose output the embedder has to measure, or it
\* is a Luau text that had to be rewritten.
WithinLimit ==
    value.from = "js" \/ (value.type # "userdata" /\ wire.data = value.data)
        => ~TooLong(Size(wire.data))

PayloadIntact == TextIsUtf8 /\ BinaryIsExact /\ WithinLimit

\* What the documentation of max_payload_size says: no payload is longer.
PayloadWithinLimit ==
    value.type # "userdata" => ~TooLong(Size(wire.data))
=============================================================================
