------------------------------ MODULE TextEncoding ------------------------------
(***************************************************************************)
(* TextDecoder and TextEncoder.encodeInto of 00_text_encoding.js over the  *)
(* ops of web/mod.rs, for UTF-8.                                           *)
(*                                                                         *)
(* TextDecoder has three ways to decode: op_encoding_decode_utf8 (V8),     *)
(* op_encoding_decode_single and, for a text that comes in chunks, a       *)
(* native decoder that is kept in #handle from one call to the next.       *)
(*                                                                         *)
(* Bytes are members of Byte: "61" stands for ASCII, "C3" begins two bytes *)
(* and "EF" three, "BB" and "BF" continue, "FF" never occurs.              *)
(* EF BB BF is the byte order mark (BOM).  A text is a sequence of         *)
(* characters, a character the sequence of its bytes.                      *)
(***************************************************************************)
EXTENDS Naturals, Sequences, SequencesExt, FiniteSetsExt, SeqFunctions

CONSTANTS MaxBytes,     \* bound: bytes of a text that comes in chunks
          MaxChars      \* bound: characters of a text passed to encodeInto

ASSUME TextEncodingAssumption == MaxBytes \in Nat /\ MaxChars \in Nat

VARIABLES
    fatal, ignoreBOM,   \* the options of the decoder
    handle,             \* #handle: <<>> for null
    given,              \* history: the bytes of the text so far ...
    text,               \* ... what the calls returned for them ...
    failed,             \* ... whether one of them threw ...
    ended,              \* ... and whether the last was without `stream'
    encoded             \* arguments and result of the last encodeInto

vars == <<fatal, ignoreBOM, handle, given, text, failed, ended, encoded>>

Byte == {"61", "C3", "EF", "BB", "BF", "FF"}
BOM == <<"EF", "BB", "BF">>
Replacement == <<"fffd">>

Continuation == {"BB", "BF"}
IsCharacter(s) ==
    \/ Len(s) = 1 /\ s[1] = "61"
    \/ Len(s) = 2 /\ s[1] = "C3" /\ s[2] \in Continuation
    \/ Len(s) = 3 /\ s[1] = "EF" /\ s[2] \in Continuation /\ s[3] \in Continuation
IsPartial(s) ==
    \/ Len(s) = 1 /\ s[1] \in {"C3", "EF"}
    \/ Len(s) = 2 /\ s[1] = "EF" /\ s[2] \in Continuation

-----------------------------------------------------------------------------
(* A native decoder takes bytes one by one.                                 *)

NewDecoder == [pending |-> <<>>, atStart |-> ~ignoreBOM]

\* A decoder at work: with what it has written and whether input was malformed.
AtWork(decoder) ==
    [pending |-> decoder.pending, atStart |-> decoder.atStart,
     text |-> <<>>, malformed |-> FALSE]

Write(d, char, malformed) ==
    [pending |-> <<>>, atStart |-> FALSE, malformed |-> malformed,
     text |-> IF d.atStart /\ char = BOM THEN d.text ELSE Append(d.text, char)]
Emit(d, char) == Write(d, char, d.malformed)
Malformed(d) == Write(d, Replacement, TRUE)

\* A byte that does not go on with the character that has begun ends it.
Fits(d, byte) ==
    LET s == Append(d.pending, byte)
    IN  d.pending = <<>> \/ IsCharacter(s) \/ IsPartial(s)
AddByte(d, byte) ==
    LET s == Append(d.pending, byte)
    IN  IF IsCharacter(s) THEN Emit(d, s)
        ELSE IF IsPartial(s) THEN [d EXCEPT !.pending = s] ELSE Malformed(d)

\* Without replacement, the rest of the input is not read after an error.
TakeByte(d, byte) ==
    LET next == IF Fits(d, byte) THEN d ELSE Malformed(d)
    IN  IF fatal /\ next.malformed THEN next ELSE AddByte(next, byte)

Run(decoder, bytes, last) ==
    LET after[n \in 0 .. Len(bytes)] ==
            IF n = 0 THEN AtWork(decoder) ELSE TakeByte(after[n - 1], bytes[n])
        d == after[Len(bytes)]
    IN  IF last /\ d.pending # <<>> THEN Malformed(d) ELSE d

-----------------------------------------------------------------------------
(* Decoding all at once: a character where there is one, otherwise one      *)
(* replacement for the longest beginning of a character, or for one byte.   *)

\* The bytes at i that are one character, or one replacement.
Extent(bytes, i) ==
    LET lengths == {n \in 1 .. 3 : i + n <= Len(bytes) + 1}
        whole == {n \in lengths : IsCharacter(SubSeq(bytes, i, i + n - 1))}
        begun == {n \in lengths : IsPartial(SubSeq(bytes, i, i + n - 1))}
    IN  Max(IF whole # {} THEN whole ELSE begun \cup {1})
Item(bytes, i) ==
    LET s == SubSeq(bytes, i, i + Extent(bytes, i) - 1)
    IN  IF IsCharacter(s) THEN s ELSE Replacement

Characters(bytes) ==
    LET from[i \in 1 .. Len(bytes) + 1] ==
            IF i > Len(bytes) THEN <<>> ELSE <<Item(bytes, i)>> \o from[i + Extent(bytes, i)]
    IN  from[1]

StripBOM(bytes) ==
    IF ~ignoreBOM /\ Len(bytes) >= 3 /\ SubSeq(bytes, 1, 3) = BOM
    THEN SubSeq(bytes, 4, Len(bytes)) ELSE bytes

-----------------------------------------------------------------------------
(* TextDecoder.prototype.decode                                             *)

\* What the three ops return: a text, or an error.
Result(d) == [ok |-> ~(fatal /\ d.malformed), text |-> d.text]

opDecodeUtf8(bytes) == [ok |-> TRUE, text |-> Characters(StripBOM(bytes))]
opDecodeSingle(bytes) == Result(Run(NewDecoder, bytes, TRUE))

utf8SinglePass == ~fatal

Return(chunk, stream, result) ==
    /\ given' = given \o chunk
    /\ failed' = (failed \/ ~result.ok)
    /\ text' = IF result.ok THEN text \o result.text ELSE text
    /\ ended' = ~stream
    /\ UNCHANGED <<fatal, ignoreBOM, encoded>>

\* The fast path.
DecodeOnce(chunk) ==
    /\ ~ended /\ encoded = <<>>
    /\ handle = <<>>
    /\ Return(chunk, FALSE, IF utf8SinglePass THEN opDecodeUtf8(chunk)
                                              ELSE opDecodeSingle(chunk))
    /\ UNCHANGED handle

\* Mutation of Kept: every chunk begins a text.
Kept_FromStart(d) == [pending |-> d.pending, atStart |-> ~ignoreBOM]

Kept(d) == [pending |-> d.pending, atStart |-> d.atStart]

\* Mutation of DecodeChunk: an error leaves the handle as it is.
DecodeChunk_KeepsHandle(chunk, stream) ==
    LET d == Run(IF handle = <<>> THEN NewDecoder ELSE handle[1], chunk, ~stream) IN
    /\ ~ended /\ encoded = <<>>
    /\ stream \/ handle # <<>>
    /\ Return(chunk, stream, Result(d))
    /\ handle' = IF stream \/ ~Result(d).ok THEN <<Kept(d)>> ELSE <<>>

\* The decoder that is there, or a new one; it stays if the call is not the
\* last of its text, after an error too.
DecodeChunk(chunk, stream) ==
    LET d == Run(IF handle = <<>> THEN NewDecoder ELSE handle[1], chunk, ~stream) IN
    /\ ~ended /\ encoded = <<>>
    /\ stream \/ handle # <<>>
    /\ Return(chunk, stream, Result(d))
    /\ handle' = IF stream THEN <<Kept(d)>> ELSE <<>>

\* Another text: only the history begins again.
NextText ==
    /\ ended \/ encoded # <<>>
    /\ given' = <<>> /\ text' = <<>> /\ failed' = FALSE /\ ended' = FALSE
    /\ encoded' = <<>>
    /\ UNCHANGED <<fatal, ignoreBOM, handle>>

-----------------------------------------------------------------------------
(* TextEncoder.prototype.encodeInto.  A character has one to four bytes in  *)
(* UTF-8; those with four are two code units of a JavaScript string.        *)

Char == 1 .. 4

\* The bytes, and the code units, of the first n characters of s.
Bytes(s) == Sums(s, [c \in Char |-> c])
Units(s) == Sums(s, [c \in Char |-> IF c = 4 THEN 2 ELSE 1])

IsCharBoundary(s, b) == \E n \in 0 .. Len(s) : Bytes(s)[n] = b

\* The loop goes back at most four times.
Boundary(s, size) ==
    IF size >= Bytes(s)[Len(s)] THEN Bytes(s)[Len(s)]
    ELSE size - Min({k \in 0 .. 3 : k <= size /\ IsCharBoundary(s, size - k)} \cup {4})

\* Mutation of Read: characters are counted.
Read_Characters(s, boundary) == CHOOSE n \in 0 .. Len(s) : Bytes(s)[n] = boundary

\* A borrowed string is ASCII: its bytes are its code units.
Read(s, boundary) ==
    IF \A i \in DOMAIN s : s[i] = 1 THEN boundary
    ELSE Units(s)[CHOOSE n \in 0 .. Len(s) : Bytes(s)[n] = boundary]

\* An encoder shares nothing with a decoder: it is called between two texts.
EncodeInto(s, size) ==
    /\ given = <<>> /\ ~ended /\ encoded = <<>>
    /\ LET b == Boundary(s, size) IN
       encoded' = <<[source |-> s, size |-> size, read |-> Read(s, b), written |-> b]>>
    /\ UNCHANGED <<fatal, ignoreBOM, handle, given, text, failed, ended>>

-----------------------------------------------------------------------------
Init ==
    /\ fatal \in BOOLEAN /\ ignoreBOM \in BOOLEAN
    /\ handle = <<>> /\ given = <<>> /\ text = <<>> /\ failed = FALSE /\ ended = FALSE
    /\ encoded = <<>>

Next ==
    \/ \E chunk \in BoundedSeq(Byte, MaxBytes - Len(given)) :
          \/ DecodeOnce(chunk)
          \/ \E stream \in BOOLEAN : DecodeChunk(chunk, stream)
    \/ NextText
    \/ \E s \in BoundedSeq(Char, MaxChars), size \in 0 .. 4 * MaxChars : EncodeInto(s, size)

Spec == Init /\ [][Next]_vars

-----------------------------------------------------------------------------
\* The text of all bytes, without a BOM at their beginning.
WholeText(bytes) ==
    LET all == Characters(bytes)
    IN  IF ~ignoreBOM /\ all # <<>> /\ all[1] = BOM THEN Tail(all) ELSE all

IsMalformed(bytes) == \E i \in DOMAIN Characters(bytes) : Characters(bytes)[i] = Replacement

Prefix(s, n) == SubSeq(s, 1, n)

\* The bytes without a character that has only begun.
Decided(bytes) ==
    LET begun == {n \in 1 .. Len(bytes) :
                     /\ IsPartial(SubSeq(bytes, n, Len(bytes)))
                     /\ Characters(Prefix(bytes, n - 1)) \o <<Replacement>> = Characters(bytes)}
    IN  IF begun = {} THEN bytes ELSE Prefix(bytes, Min(begun) - 1)

\* However a text is cut into chunks, and whichever op decodes it, the result is
\* that of all its bytes at once; a fatal decoder throws if and only if they are
\* malformed.  What happened to the text before it makes no difference.  In the
\* middle of a stream, all is returned that later bytes cannot change, and a fatal
\* decoder throws only if no later byte could make the text right.
ChunksDecodeAsWhole ==
    LET bytes == IF ended THEN given ELSE Decided(given) IN
    ended \/ handle # <<>> =>
        /\ failed = (fatal /\ IsMalformed(bytes))
        /\ ~failed => text = WholeText(bytes)

\* encodeInto writes the longest beginning of the source that fits, whole
\* characters only, and reports its length in code units and in bytes.
EncodeIntoFits ==
    encoded # <<>> =>
        LET e == encoded[1]
            fits == {n \in 0 .. Len(e.source) : Bytes(e.source)[n] <= e.size}
        IN  /\ e.written = Bytes(e.source)[Max(fits)]
            /\ e.read = Units(e.source)[Max(fits)]
=============================================================================
