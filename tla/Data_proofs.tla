------------------------------ MODULE Data_proofs ------------------------------
(* What holds of the conversions of values for every bound: TextEncoder's    *)
(* encodeInto, the payloads of the bridge, TextDecoder's decode with its      *)
(* three ways to decode, and the converters of WebIDL.                        *)
EXTENDS TextEncoding, Payload, WebIdl, SequenceLemmas, FiniteSetTheorems

-----------------------------------------------------------------------------
(* The boundary that encodeInto looks for.                                  *)

LEMMA ExtremeIs ==
    ASSUME NEW S, NEW x \in S, \A y \in S : y \in Int
    PROVE  /\ (\A y \in S : x <= y) => Min(S) = x
           /\ (\A y \in S : y <= x) => Max(S) = x
<1>1. ASSUME \A y \in S : x <= y PROVE Min(S) = x
  <2> DEFINE c == CHOOSE z \in S : \A y \in S : z <= y
  <2>1. c \in S /\ \A y \in S : c <= y
    BY <1>1
  <2>2. Min(S) = c
    BY DEF Min
  <2> HIDE DEF c
  <2>3. c <= x /\ x <= c /\ c \in Int /\ x \in Int
    BY <1>1, <2>1
  <2> QED
    BY <2>2, <2>3
<1>2. ASSUME \A y \in S : y <= x PROVE Max(S) = x
  <2> DEFINE c == CHOOSE z \in S : \A y \in S : z >= y
  <2>1. c \in S /\ \A y \in S : c >= y
    BY <1>2
  <2>2. Max(S) = c
    BY DEF Max
  <2> HIDE DEF c
  <2>3. c >= x /\ c <= x /\ c \in Int /\ x \in Int
    BY <1>2, <2>1
  <2> QED
    BY <2>2, <2>3
<1> QED
  BY <1>1, <1>2

LEMMA BytesSteps ==
    ASSUME NEW s \in Seq(Char)
    PROVE  /\ Bytes(s) \in [0 .. Len(s) -> Nat] /\ Bytes(s)[0] = 0
           /\ \A n \in 1 .. Len(s) : Bytes(s)[n] = Bytes(s)[n - 1] + s[n] /\ s[n] \in Char
           /\ \A m, n \in 0 .. Len(s) : m < n => Bytes(s)[m] < Bytes(s)[n]
<1> DEFINE w == [c \in Char |-> c]
<1>1. \A c \in Char : w[c] \in Nat \ {0} /\ w[c] \in Nat /\ w[c] = c
  BY DEF Char
<1>2. \A n \in 1 .. Len(s) : s[n] \in Char
  BY ElementOfSeq
<1>3. Bytes(s) = Sums(s, w)
  BY DEF Bytes
<1> HIDE DEF w
<1>4. /\ Sums(s, w) \in [0 .. Len(s) -> Nat] /\ Sums(s, w)[0] = 0
      /\ \A n \in 1 .. Len(s) : Sums(s, w)[n] = Sums(s, w)[n - 1] + w[s[n]]
  BY <1>1, SumSteps
<1>5. \A m, n \in 0 .. Len(s) : m < n => Sums(s, w)[m] < Sums(s, w)[n]
  BY <1>1, SumsGrow
<1> QED
  BY <1>1, <1>2, <1>3, <1>4, <1>5

\* In ASCII, bytes are code units.
LEMMA AsciiUnits ==
    ASSUME NEW s \in Seq(Char), \A i \in DOMAIN s : s[i] = 1
    PROVE  \A n \in 0 .. Len(s) : Units(s)[n] = Bytes(s)[n]
<1> DEFINE w == [c \in Char |-> IF c = 4 THEN 2 ELSE 1]
           N == Len(s)
           b == Bytes(s)
           u == Units(s)
<1>1. \A c \in Char : w[c] \in Nat
  OBVIOUS
<1>2. w[1] = 1
  BY DEF Char
<1>3. u = Sums(s, w)
  BY DEF Units
<1> HIDE DEF w
<1>4. N \in Nat /\ \A n \in 1 .. N : s[n] = 1
  BY LenProperties
<1>5. /\ u \in [0 .. N -> Nat] /\ u[0] = 0
      /\ \A n \in 1 .. N : u[n] = u[n - 1] + 1
  <2>1. /\ Sums(s, w) \in [0 .. N -> Nat] /\ Sums(s, w)[0] = 0
        /\ \A n \in 1 .. N : Sums(s, w)[n] = Sums(s, w)[n - 1] + w[s[n]]
    BY <1>1, SumSteps
  <2> HIDE DEF u, N
  <2> QED
    BY <2>1, <1>2, <1>3, <1>4
<1>6. b[0] = 0 /\ \A n \in 1 .. N : b[n] = b[n - 1] + 1
  BY BytesSteps, <1>4
<1> HIDE DEF N, b, u
<1> DEFINE K == {n \in Nat : n <= N => u[n] = b[n]}
<1>7. 0 \in K
  BY <1>5, <1>6
<1>8. ASSUME NEW n \in Nat, n \in K PROVE n + 1 \in K
  <2> SUFFICES ASSUME n + 1 <= N PROVE u[n + 1] = b[n + 1]
    OBVIOUS
  <2>1. n + 1 \in 1 .. N /\ (n + 1) - 1 = n /\ u[n] = b[n]
    BY <1>8, <1>4
  <2> QED
    BY <2>1, <1>5, <1>6
<1> HIDE DEF K
<1>9. \A n \in Nat : n \in K
  BY <1>7, <1>8, SetInduction
<1> QED
  BY <1>4, <1>9 DEF K, N, b, u

\* The most characters that fit: all of them, or as many as leave less than the
\* next one needs.
LEMMA MostThatFit ==
    ASSUME NEW s \in Seq(Char), NEW size \in Nat
    PROVE  \E m \in 0 .. Len(s) :
              /\ Bytes(s)[m] <= size
              /\ \A n \in 0 .. Len(s) : Bytes(s)[n] <= size => n <= m
              /\ m # Len(s) => size < Bytes(s)[m + 1]
<1> DEFINE N == Len(s)
           b == Bytes(s)
           R == OpToRel(<, Nat)
<1>1. /\ N \in Nat /\ b \in [0 .. N -> Nat] /\ b[0] = 0
      /\ \A m, n \in 0 .. N : m < n => b[m] < b[n]
  BY BytesSteps, LenProperties
<1>2. \A i, j \in Nat : <<i, j>> \in R <=> i < j
  BY DEF OpToRel
<1>3. IsWellFoundedOn(R, Nat)
  BY NatLessThanWellFounded
<1> HIDE DEF N, b, R
<1> SUFFICES \E m \in 0 .. N : /\ b[m] <= size
                               /\ \A n \in 0 .. N : b[n] <= size => n <= m
                               /\ m # N => size < b[m + 1]
  BY DEF N, b
<1>4. CASE b[N] <= size
  <2>1. \A n \in 0 .. N : n <= N
    BY <1>1
  <2> QED
    BY <1>1, <1>4, <2>1
<1>5. CASE ~(b[N] <= size)
  <2> DEFINE Over == {n \in 0 .. N : ~(b[n] <= size)}
  <2>1. Over \subseteq Nat /\ Over # {}
    BY <1>1, <1>5
  <2> HIDE DEF Over
  <2>2. PICK p \in Over : \A k \in Over : ~(<<k, p>> \in R)
    BY <2>1, <1>3, WFMin
  <2>3. p \in 0 .. N /\ ~(b[p] <= size)
    BY DEF Over
  <2>4. p # 0 /\ p - 1 \in 0 .. N /\ (p - 1) + 1 = p /\ p - 1 # N
    BY <2>3, <1>1
  <2>5. b[p - 1] <= size
    <3>1. p - 1 \in Nat /\ p \in Nat /\ p - 1 < p
      BY <2>3, <2>4
    <3>2. p - 1 \notin Over
      BY <3>1, <2>2, <1>2
    <3> QED
      BY <3>2, <2>4 DEF Over
  <2>6. ASSUME NEW n \in 0 .. N, b[n] <= size PROVE n <= p - 1
    <3> SUFFICES ASSUME p <= n PROVE FALSE
      BY <2>3, <1>1
    <3>1. p = n \/ b[p] < b[n]
      BY <2>3, <1>1
    <3>2. b[p] \in Nat /\ b[n] \in Nat
      BY <2>3, <1>1
    <3> QED
      BY <3>1, <3>2, <2>3, <2>6
  <2>7. size < b[p]
    <3>1. b[p] \in Nat
      BY <2>3, <1>1
    <3> QED
      BY <3>1, <2>3
  <2> QED
    BY <2>4, <2>5, <2>6, <2>7
<1> QED
  BY <1>4, <1>5

\* The loop finds that boundary, and its code units.
LEMMA BoundaryIsFound ==
    ASSUME NEW s \in Seq(Char), NEW size \in Nat, NEW m \in 0 .. Len(s),
           Bytes(s)[m] <= size,
           \A n \in 0 .. Len(s) : Bytes(s)[n] <= size => n <= m,
           m # Len(s) => size < Bytes(s)[m + 1]
    PROVE  Boundary(s, size) = Bytes(s)[m]
<1> DEFINE N == Len(s)
           b == Bytes(s)
<1>1. /\ N \in Nat /\ b \in [0 .. N -> Nat] /\ b[0] = 0
      /\ \A n \in 1 .. N : b[n] = b[n - 1] + s[n] /\ s[n] \in Char
      /\ \A i, n \in 0 .. N : i < n => b[i] < b[n]
  BY BytesSteps, LenProperties
<1>2. \A k : IsCharBoundary(s, k) <=> \E n \in 0 .. N : b[n] = k
  BY DEF IsCharBoundary
<1>3. /\ m \in 0 .. N /\ b[m] <= size /\ b[m] \in Nat /\ b[N] \in Nat
      /\ \A n \in 0 .. N : b[n] <= size => n <= m
      /\ m # N => size < b[m + 1]
  BY <1>1
<1> DEFINE Back == {k \in 0 .. 3 : k <= size /\ IsCharBoundary(s, size - k)} \cup {4}
<1>4. Boundary(s, size) = IF size >= b[N] THEN b[N] ELSE size - Min(Back)
  BY DEF Boundary
<1> HIDE DEF N, b
<1>5. CASE size >= b[N]
  <2>1. N <= m
    BY <1>1, <1>3, <1>5
  <2>2. m = N
    BY <2>1, <1>1, <1>3
  <2> QED
    BY <2>2, <1>4, <1>5 DEF b
<1>6. CASE ~(size >= b[N])
  <2> DEFINE j == size - b[m]
  <2>1. m # N
    BY <1>3, <1>6
  <2>2. m + 1 \in 1 .. N /\ (m + 1) - 1 = m /\ m + 1 \in 0 .. N
    BY <2>1, <1>1, <1>3
  <2>3. size < b[m + 1] /\ b[m + 1] = b[m] + s[m + 1] /\ s[m + 1] \in Char
    BY <2>1, <2>2, <1>1, <1>3
  <2>4. j \in 0 .. 3 /\ j <= size /\ size - j = b[m]
    <3> DEFINE v == s[m + 1]
               w == b[m + 1]
               x == b[m]
    <3>1. v \in 1 .. 4 /\ w = x + v /\ size < w /\ x <= size /\ x \in Nat
      BY <2>3, <1>3 DEF Char
    <3> HIDE DEF v, w, x
    <3>2. size - x \in 0 .. 3 /\ size - x <= size /\ size - (size - x) = x
      BY <3>1
    <3> QED
      BY <3>2 DEF x
  <2>5. j \in Back
    BY <2>4, <1>2, <1>3
  <2>6. ASSUME NEW k \in Back PROVE j <= k
    <3> SUFFICES ASSUME k < j PROVE FALSE
      BY <2>4
    <3>1. k \in 0 .. 3 /\ k <= size /\ IsCharBoundary(s, size - k)
      BY <2>4
    <3>2. PICK n \in 0 .. N : b[n] = size - k
      BY <3>1, <1>2
    <3>3. n <= m
      BY <3>1, <3>2, <1>3
    <3>4. b[n] \in Nat /\ (n = m \/ b[n] < b[m])
      BY <3>3, <1>1, <1>3
    <3> QED
      BY <3>1, <3>2, <3>4, <2>4, <1>3
  <2>7. \A k \in Back : k \in Int
    OBVIOUS
  <2> HIDE DEF Back, j
  <2>8. Min(Back) = j
    <3>1. j \in Int
      BY <2>5, <2>7
    <3> QED
      BY <3>1, <2>5, <2>6, <2>7, ExtremeIs
  <2> QED
    BY <2>4, <2>8, <1>4, <1>6 DEF b
<1> QED
  BY <1>5, <1>6

LEMMA UnitsAreRead ==
    ASSUME NEW s \in Seq(Char), NEW m \in 0 .. Len(s)
    PROVE  Read(s, Bytes(s)[m]) = Units(s)[m]
<1> DEFINE b == Bytes(s)
<1>1. CASE \A i \in DOMAIN s : s[i] = 1
  BY <1>1, AsciiUnits DEF Read
<1>2. CASE ~(\A i \in DOMAIN s : s[i] = 1)
  <2> DEFINE c == CHOOSE n \in 0 .. Len(s) : b[n] = b[m]
  <2>1. c \in 0 .. Len(s) /\ b[c] = b[m]
    OBVIOUS
  <2>2. /\ b \in [0 .. Len(s) -> Nat] /\ Len(s) \in Nat
        /\ \A i, n \in 0 .. Len(s) : i < n => b[i] < b[n]
    BY BytesSteps, LenProperties
  <2>3. Read(s, b[m]) = Units(s)[c]
    BY <1>2, Zenon DEF Read
  <2> HIDE DEF b, c
  <2>4. b[c] \in Nat /\ ~(b[c] < b[m]) /\ ~(b[m] < b[c])
    BY <2>1, <2>2
  <2>5. c = m
    BY <2>1, <2>2, <2>4
  <2> QED
    BY <2>3, <2>5 DEF b
<1> QED
  BY <1>1, <1>2

\* encodeInto writes the longest beginning of the source that fits, whole
\* characters only, and reports its length in code units and in bytes, for sources
\* and targets of any size (op_encoding_encode_into_fast).
THEOREM EncodesWhatFits == Spec => []EncodeIntoFits
<1>1. Init => EncodeIntoFits
  BY DEF Init, EncodeIntoFits
<1>2. EncodeIntoFits /\ [Next]_vars => EncodeIntoFits'
  <2> SUFFICES ASSUME EncodeIntoFits, [Next]_vars PROVE EncodeIntoFits'
    OBVIOUS
  <2>1. CASE UNCHANGED encoded
    BY <2>1 DEF EncodeIntoFits
  <2>2. CASE encoded' = <<>>
    BY <2>2 DEF EncodeIntoFits
  <2>3. ASSUME NEW s \in BoundedSeq(Char, MaxChars), NEW size \in 0 .. 4 * MaxChars,
               EncodeInto(s, size)
        PROVE  EncodeIntoFits'
    <3> DEFINE fits == {n \in 0 .. Len(s) : Bytes(s)[n] <= size}
    <3>1. s \in Seq(Char) /\ size \in Nat
      BY TextEncodingAssumption DEF BoundedSeq, SeqOf
    <3>2. PICK m \in 0 .. Len(s) :
              /\ Bytes(s)[m] <= size
              /\ \A n \in 0 .. Len(s) : Bytes(s)[n] <= size => n <= m
              /\ m # Len(s) => size < Bytes(s)[m + 1]
      BY <3>1, MostThatFit
    <3>3. Boundary(s, size) = Bytes(s)[m]
      BY <3>1, <3>2, BoundaryIsFound
    <3>4. Read(s, Boundary(s, size)) = Units(s)[m]
      BY <3>1, <3>3, UnitsAreRead
    <3>5. Max(fits) = m
      <4>1. m \in fits /\ \A n \in fits : n <= m /\ n \in Int
        BY <3>2
      <4> HIDE DEF fits
      <4> QED
        BY <4>1, ExtremeIs
    <3>6. encoded' = <<[source |-> s, size |-> size, read |-> Units(s)[m],
                        written |-> Bytes(s)[m]]>>
      BY <2>3, <3>3, <3>4, Zenon DEF EncodeInto
    <3> DEFINE e == [source |-> s, size |-> size, read |-> Units(s)[m],
                     written |-> Bytes(s)[m]]
    <3>7. /\ e.written = Bytes(e.source)[m] /\ e.read = Units(e.source)[m]
          /\ e.source = s /\ e.size = size
      OBVIOUS
    <3>8. encoded'[1] = e
      BY <3>6
    <3> HIDE DEF e
    <3> QED
      BY <3>5, <3>7, <3>8 DEF EncodeIntoFits
  <2> QED
    BY <2>1, <2>2, <2>3 DEF Next, vars, DecodeOnce, DecodeChunk, Return, NextText
<1> QED
  BY <1>1, <1>2, PTL DEF Spec

-----------------------------------------------------------------------------
(* The payloads of the bridge.                                              *)

Units4 == LuauUnits \cup JsUnits

\* What a value that was sent has become on the wire, and how its size was measured.
AsText ==
    /\ wire.kind = "text" /\ wire.data = Lossy(value.data)
    /\ value.from = "js" => ~TooLong(Size(wire.data))
    /\ value.from # "js" /\ value.type # "userdata" => ~TooLong(Size(value.data))
AsBinary ==
    /\ wire.kind = "binary" /\ wire.data = value.data
    /\ value.from = "js" \/ value.type # "userdata" => ~TooLong(Size(wire.data))

\* The message belongs to the value that was passed last, and the value that was
\* received to the message.
PayloadInv ==
    /\ limit = <<>> \/ \E n \in Nat : limit = <<n>>
    /\ value.data \in Seq(Units4)
    /\ wire = NoMessage \/ AsText \/ AsBinary
    /\ stage = "start" => wire = NoMessage
    /\ stage = "received" => got.data = wire.data

LEMMA SizeOfNothing == Size(<<>>) = 0
<1> DEFINE w == [u \in LuauUnits \cup JsUnits \cup Utf8 |-> Width(u)]
           s == <<>>
           S == {}
<1>1. s \in Seq(S) /\ Len(s) = 0
  BY EmptySeq
<1>2. Size(s) = Sums(s, w)[Len(s)]
  BY DEF Size
<1>3. \A x \in S : w[x] \in Nat
  OBVIOUS
<1> HIDE DEF w, s, S
<1>4. Sums(s, w)[0] = 0
  BY <1>1, <1>3, SumSteps
<1>5. Size(s) = 0
  BY <1>1, <1>2, <1>4
<1> QED
  BY <1>5 DEF s

LEMMA PayloadInvIsEnough == PayloadInv => PayloadIntact
<1> SUFFICES ASSUME PayloadInv PROVE PayloadIntact
  OBVIOUS
<1>1. value.data \in Seq(Units4) /\ \A i \in DOMAIN value.data : value.data[i] \in Units4
  <2>1. value.data \in Seq(Units4)
    BY DEF PayloadInv
  <2> QED
    BY <2>1, ElementOfSeq, LenProperties
<1>2. wire = NoMessage \/ AsText \/ AsBinary
  BY DEF PayloadInv
<1>3. TextIsUtf8
  <2> SUFFICES ASSUME wire.kind = "text" PROVE TextIsUtf8
    BY DEF TextIsUtf8
  <2>1. AsText
    BY <1>2 DEF NoMessage, AsBinary
  <2> DEFINE d == value.data
             l == [i \in DOMAIN d |-> IF d[i] \in {"bad", "lone"} THEN "fffd" ELSE d[i]]
  <2>2. wire.data = l
    BY <2>1 DEF AsText, Lossy
  <2>3. \A i \in DOMAIN d : d[i] \in Units4
    BY <1>1
  <2>4. DOMAIN l = DOMAIN d /\ \A i \in DOMAIN l : l[i] \in Utf8
    BY <2>3 DEF Units4, LuauUnits, JsUnits, Utf8
  <2>5. (\A i \in DOMAIN d : d[i] \in Utf8) => l = d
    <3> SUFFICES ASSUME \A i \in DOMAIN d : d[i] \in Utf8 PROVE l = d
      OBVIOUS
    <3>1. \A i \in DOMAIN d : l[i] = d[i]
      BY DEF Utf8
    <3>2. d = [i \in DOMAIN d |-> d[i]]
      BY <1>1
    <3> HIDE DEF d
    <3> QED
      BY <3>1, <3>2
  <2> HIDE DEF l
  <2> QED
    BY <2>2, <2>4, <2>5 DEF TextIsUtf8
<1>4. BinaryIsExact
  BY <1>2 DEF BinaryIsExact, PayloadInv, AsText, AsBinary, NoMessage
<1>5. WithinLimit
  <2>1. CASE wire = NoMessage
    <3>1. wire.data = <<>>
      BY <2>1 DEF NoMessage
    <3>2. Size(wire.data) = 0
      BY <3>1, SizeOfNothing
    <3>3. ~TooLong(0)
      BY DEF TooLong, PayloadInv
    <3> QED
      BY <3>2, <3>3 DEF WithinLimit
  <2>2. CASE AsText
    BY <2>2 DEF AsText, WithinLimit
  <2>3. CASE AsBinary
    BY <2>3 DEF AsBinary, WithinLimit
  <2> QED
    BY <1>2, <2>1, <2>2, <2>3
<1> QED
  BY <1>3, <1>4, <1>5 DEF PayloadIntact

\* A text that arrives is UTF-8, a binary message is byte for byte what was sent, and
\* no payload that is measured is longer than the limit in the bytes that travel, for
\* payloads and limits of any size (from_lua_text, from_lua_binary, send_text,
\* send_binary).
THEOREM PayloadsStayIntact == PayloadSpec => []PayloadIntact
<1>1. PayloadInit => PayloadInv
  <2> SUFFICES ASSUME PayloadInit PROVE PayloadInv
    OBVIOUS
  <2>1. <<>> \in Seq(Units4)
    BY EmptySeq
  <2> QED
    BY <2>1, PayloadAssumption DEF PayloadInit, PayloadInv, Nothing, NoMessage, NoValue
<1>2. PayloadInv /\ [PayloadNext]_payloadVars => PayloadInv'
  <2> SUFFICES ASSUME PayloadInv, [PayloadNext]_payloadVars PROVE PayloadInv'
    OBVIOUS
  <2>0. ASSUME NEW v \in LuauValues \cup JsValues PROVE v.data \in Seq(Units4)
    <3>1. ASSUME NEW U, NEW d \in Strings(U), U \subseteq Units4 PROVE d \in Seq(Units4)
      <4>1. d \in Seq(U)
        BY <3>1, PayloadAssumption DEF Strings, BoundedSeq, SeqOf
      <4> QED
        BY <3>1, <4>1, SeqMonotonic
    <3>2. /\ LuauUnits \subseteq Units4 /\ JsUnits \subseteq Units4
          /\ {"ascii", "wide"} \subseteq Units4
      BY DEF Units4, LuauUnits, JsUnits
    <3>3. \/ v.data \in Strings(LuauUnits) \/ v.data \in Strings({"ascii", "wide"})
          \/ v.data = <<>> \/ v.data \in Strings(JsUnits)
      BY DEF LuauValues, JsValues
    <3>4. <<>> \in Seq(Units4)
      BY EmptySeq
    <3> QED
      BY <3>1, <3>2, <3>3, <3>4
  <2>1. ASSUME NEW v \in LuauValues, SendText(v) \/ SendBinary(v)
        PROVE  PayloadInv'
    <3>1. v.from = "luau" /\ v.data \in Seq(Units4)
      BY <2>0 DEF LuauValues
    <3>2. CASE SendText(v)
      BY <2>1, <3>1, <3>2
         DEF SendText, Send, PayloadInv, AsText, AsBinary, NoMessage, TooLong
    <3>3. CASE SendBinary(v)
      BY <2>1, <3>1, <3>3
         DEF SendBinary, Send, PayloadInv, AsText, AsBinary, NoMessage, TooLong
    <3> QED
      BY <2>1, <3>2, <3>3
  <2>2. ASSUME NEW v \in JsValues, JsSendText(v) \/ JsSendBinary(v)
        PROVE  PayloadInv'
    <3>1. v.from = "js" /\ v.data \in Seq(Units4)
      BY <2>0 DEF JsValues
    <3>2. CASE JsSendText(v)
      BY <2>2, <3>1, <3>2
         DEF JsSendText, Send, PayloadInv, AsText, AsBinary, NoMessage, TooLong
    <3>3. CASE JsSendBinary(v)
      BY <2>2, <3>1, <3>3
         DEF JsSendBinary, Send, PayloadInv, AsText, AsBinary, NoMessage, TooLong
    <3> QED
      BY <2>2, <3>2, <3>3
  <2>3. CASE Receive
    BY <2>3 DEF Receive, PayloadInv, AsText, AsBinary, NoMessage, TooLong
  <2>4. CASE UNCHANGED payloadVars
    BY <2>4 DEF payloadVars, PayloadInv, AsText, AsBinary, NoMessage, TooLong
  <2> QED
    BY <2>1, <2>2, <2>3, <2>4 DEF PayloadNext
<1> QED
  BY <1>1, <1>2, PayloadInvIsEnough, PTL DEF PayloadSpec

-----------------------------------------------------------------------------
(* The items of a text of bytes.                                            *)

\* Induction over sequences: a set that has the empty one, and with each sequence
\* those that are longer by one, has them all.
LEMMA SeqInduction ==
    ASSUME NEW S, NEW T, <<>> \in T, \A s \in Seq(S), x \in S : s \in T => Append(s, x) \in T
    PROVE  \A s \in Seq(S) : s \in T
<1> DEFINE K == {n \in Nat : \A s \in Seq(S) : Len(s) = n => s \in T}
<1>1. 0 \in K
  BY EmptySeq
<1>2. ASSUME NEW n \in Nat, n \in K PROVE n + 1 \in K
  <2> SUFFICES ASSUME NEW s \in Seq(S), Len(s) = n + 1 PROVE s \in T
    OBVIOUS
  <2>1. s # <<>>
    BY EmptySeq
  <2>2. PICK c \in Seq(S), x \in S : s = Append(c, x)
    BY <2>1, SequenceEmptyOrAppend
  <2>3. Len(c) = n
    <3>1. Len(c) \in Nat /\ Len(s) = Len(c) + 1
      BY <2>2, AppendProperties, LenProperties
    <3> QED
      BY <3>1
  <2> QED
    BY <1>2, <2>2, <2>3
<1> HIDE DEF K
<1>3. \A n \in Nat : n \in K
  BY <1>1, <1>2, SetInduction
<1> QED
  BY <1>3, LenProperties DEF K

\* One element more.
LEMMA GrownIs ==
    ASSUME NEW S, NEW s \in Seq(S), NEW x \in S
    PROVE  /\ Append(s, x) \in Seq(S) /\ Len(Append(s, x)) = Len(s) + 1 /\ Len(s) \in Nat
           /\ Append(s, x)[Len(s) + 1] = x /\ \A i \in 1 .. Len(s) : Append(s, x)[i] = s[i]
           /\ Append(s, x) # <<>>
<1>1. /\ Append(s, x) \in Seq(S) /\ Len(Append(s, x)) = Len(s) + 1 /\ Len(s) \in Nat
      /\ Append(s, x)[Len(s) + 1] = x /\ \A i \in 1 .. Len(s) : Append(s, x)[i] = s[i]
  BY AppendProperties, LenProperties
<1>2. Append(s, x) # <<>>
  BY <1>1, EmptySeq
<1> QED
  BY <1>1, <1>2

LEMMA ConcatGrows ==
    ASSUME NEW S, NEW b \in Seq(S), NEW c \in Seq(S), NEW x \in S
    PROVE  b \o Append(c, x) = Append(b \o c, x)
<1>1. b \o c \in Seq(S) /\ <<x>> \in Seq(S)
  BY ConcatProperties
<1>2. Append(c, x) = c \o <<x>> /\ Append(b \o c, x) = (b \o c) \o <<x>>
  BY <1>1, AppendIsConcat
<1> QED
  BY <1>1, <1>2, ConcatAssociative

\* A part of a sequence.
LEMMA PartIs ==
    ASSUME NEW S, NEW b \in Seq(S), NEW q \in 1 .. Len(b) + 1, NEW k \in Nat, k <= Len(b), q <= k + 1
    PROVE  /\ SubSeq(b, q, k) \in Seq(S) /\ Len(SubSeq(b, q, k)) = (k + 1) - q
           /\ \A j \in 1 .. (k + 1) - q : SubSeq(b, q, k)[j] = b[(q + j) - 1]
<1> DEFINE N == Len(b)
<1>1. N \in Nat /\ \A i \in 1 .. N : b[i] \in S
  BY LenProperties, ElementOfSeq
<1> HIDE DEF N
<1>2. q \in Int /\ k \in Int /\ q <= k + 1
  BY <1>1 DEF N
<1>3. \A i \in q .. k : b[i] \in S
  BY <1>1 DEF N
<1>4. /\ SubSeq(b, q, k) \in Seq(S)
      /\ Len(SubSeq(b, q, k)) = IF q <= k THEN (k - q) + 1 ELSE 0
      /\ \A i \in 1 .. (k - q) + 1 : SubSeq(b, q, k)[i] = b[(q + i) - 1]
  BY <1>2, <1>3, SubSeqProperties
<1>5. (k - q) + 1 = (k + 1) - q
  BY <1>2
<1>6. Len(SubSeq(b, q, k)) = (k + 1) - q
  BY <1>2, <1>4
<1> QED
  BY <1>4, <1>5, <1>6

\* A part that is longer by one.
LEMMA PartGrows ==
    ASSUME NEW S, NEW b \in Seq(S), NEW q \in 1 .. Len(b), NEW k \in Nat, k < Len(b), q <= k + 1
    PROVE  SubSeq(b, q, k + 1) = Append(SubSeq(b, q, k), b[k + 1])
<1>1. Len(b) \in Nat /\ k + 1 \in 1 .. Len(b) /\ k + 1 \in q .. Len(b) /\ (k + 1) - 1 = k
  BY LenProperties
<1>2. SubSeq(b, q, k + 1) = SubSeq(b, q, k) \o <<b[k + 1]>>
  BY <1>1, SubSeqRecursiveSecond
<1>3. b[k + 1] \in S
  BY <1>1, ElementOfSeq
<1>4. SubSeq(b, q, k) \in Seq(S)
  BY <1>1, PartIs
<1> QED
  BY <1>2, <1>3, <1>4, AppendIsConcat

LEMMA MaxOfOne == ASSUME NEW n \in Int PROVE Max({n}) = n
<1> DEFINE T == {n}
<1>1. n \in T /\ \A y \in T : y \in Int /\ y <= n
  OBVIOUS
<1> HIDE DEF T
<1>2. Max(T) = n
  BY <1>1, ExtremeIs
<1> QED
  BY <1>2 DEF T

Neither(s) == ~IsCharacter(s) /\ ~IsPartial(s)

\* What is at a place where a character begins, has begun or does not begin.
LEMMA ExtentIs ==
    ASSUME NEW b \in Seq(Byte), NEW q \in 1 .. Len(b), NEW n \in 1 .. 3, q + n - 1 <= Len(b)
    PROVE  LET s == SubSeq(b, q, q + n - 1) IN
           /\ IsCharacter(s) => Extent(b, q) = n /\ Item(b, q) = s
           /\ IsPartial(s) /\ (q + n <= Len(b) => Neither(SubSeq(b, q, q + n)))
              => Extent(b, q) = n /\ Item(b, q) = Replacement
           /\ n = 1 /\ Neither(s) => Extent(b, q) = 1 /\ Item(b, q) = Replacement
<1> DEFINE N == Len(b)
           Part(m) == SubSeq(b, q, q + m - 1)
           lengths == {m \in 1 .. 3 : q + m <= N + 1}
           whole == {m \in lengths : IsCharacter(Part(m))}
           begun == {m \in lengths : IsPartial(Part(m))}
<1>1. N \in Nat /\ lengths \subseteq 1 .. 3 /\ n \in lengths /\ 1 \in lengths
  BY LenProperties
<1>2. ASSUME NEW m \in lengths
      PROVE  /\ IsCharacter(Part(m)) <=> \/ m = 1 /\ b[q] = "61"
                                         \/ m = 2 /\ b[q] = "C3" /\ b[q + 1] \in Continuation
                                         \/ m = 3 /\ b[q] = "EF" /\ b[q + 1] \in Continuation
                                            /\ b[q + 2] \in Continuation
             /\ IsPartial(Part(m)) <=> \/ m = 1 /\ b[q] \in {"C3", "EF"}
                                       \/ m = 2 /\ b[q] = "EF" /\ b[q + 1] \in Continuation
  <2> DEFINE k == q + m - 1
             s == Part(m)
  <2>1. m \in 1 .. 3 /\ q \in 1 .. N + 1 /\ k \in Nat /\ k <= N /\ q <= k + 1 /\ (k + 1) - q = m
    BY <1>1
  <2>2. Len(s) = m /\ \A j \in 1 .. m : s[j] = b[(q + j) - 1]
    BY <2>1, PartIs
  <2>3. (q + 1) - 1 = q /\ (q + 2) - 1 = q + 1 /\ (q + 3) - 1 = q + 2
    BY <1>1
  <2> HIDE DEF s
  <2>4. /\ s[1] = b[q] /\ (m \in {2, 3} => s[2] = b[q + 1]) /\ (m = 3 => s[3] = b[q + 2])
    BY <2>1, <2>2, <2>3
  <2>5. IsCharacter(s) <=> \/ m = 1 /\ b[q] = "61"
                           \/ m = 2 /\ b[q] = "C3" /\ b[q + 1] \in Continuation
                           \/ m = 3 /\ b[q] = "EF" /\ b[q + 1] \in Continuation
                              /\ b[q + 2] \in Continuation
    BY <2>2, <2>4 DEF IsCharacter
  <2>6. IsPartial(s) <=> \/ m = 1 /\ b[q] \in {"C3", "EF"}
                         \/ m = 2 /\ b[q] = "EF" /\ b[q + 1] \in Continuation
    BY <2>2, <2>4 DEF IsPartial
  <2> QED
    BY <2>5, <2>6 DEF s
<1>3. Extent(b, q) = Max(IF whole # {} THEN whole ELSE begun \cup {1})
  BY DEF Extent
<1>4. Item(b, q) = IF IsCharacter(Part(Extent(b, q))) THEN Part(Extent(b, q)) ELSE Replacement
  BY DEF Item
<1>5. q + n <= N => n + 1 \in 1 .. 3 \/ n = 3
  BY <1>1
<1>6. q + (n + 1) - 1 = q + n /\ (q + n <= N /\ n # 3 => n + 1 \in lengths)
  BY <1>1
<1>7. SubSeq(b, q, q + n) = Part(n + 1)
  BY <1>6
<1> SUFFICES /\ IsCharacter(Part(n)) => Extent(b, q) = n /\ Item(b, q) = Part(n)
             /\ IsPartial(Part(n)) /\ (q + n <= N => Neither(Part(n + 1)))
                => Extent(b, q) = n /\ Item(b, q) = Replacement
             /\ n = 1 /\ Neither(Part(n)) => Extent(b, q) = 1 /\ Item(b, q) = Replacement
  BY <1>7
<1> HIDE DEF Part, lengths
<1>8. ASSUME IsCharacter(Part(n)) PROVE Extent(b, q) = n /\ Item(b, q) = Part(n)
  <2>1. whole = {n}
    BY <1>1, <1>2, <1>8
  <2>2. Extent(b, q) = n
    <3>1. Max({n}) = n
      BY MaxOfOne
    <3> QED
      BY <1>3, <2>1, <3>1
  <2> QED
    BY <1>4, <1>8, <2>2
<1>9. ASSUME IsPartial(Part(n)), q + n <= N => Neither(Part(n + 1))
      PROVE  Extent(b, q) = n /\ Item(b, q) = Replacement
  <2>1. ~IsCharacter(Part(n)) /\ n \in {1, 2}
    BY <1>1, <1>2, <1>9
  <2>2. \A m \in lengths : m > n => n + 1 \in lengths /\ Neither(Part(n + 1))
    BY <1>1, <1>9 DEF lengths
  <2>3. ASSUME NEW m \in lengths, IsCharacter(Part(m)) PROVE FALSE
    <3>1. CASE n = 1
      <4>1. b[q] \in {"C3", "EF"}
        BY <1>1, <1>2, <1>9, <3>1
      <4>2. m \in {2, 3} /\ b[q + 1] \in Continuation
        BY <1>2, <2>3, <4>1
      <4>3. 2 \in lengths /\ Neither(Part(2))
        BY <2>2, <3>1, <4>2
      <4> QED
        BY <1>2, <4>1, <4>2, <4>3 DEF Neither
    <3>2. CASE n = 2
      <4>1. b[q] = "EF"
        BY <1>1, <1>2, <1>9, <3>2
      <4>2. m = 3
        BY <1>2, <2>3, <4>1
      <4>3. Neither(Part(3))
        BY <2>2, <3>2, <4>2
      <4> QED
        BY <2>3, <4>2, <4>3 DEF Neither
    <3> QED
      BY <2>1, <3>1, <3>2
  <2>4. ASSUME NEW m \in begun PROVE m <= n
    <3>1. m \in lengths /\ IsPartial(Part(m)) /\ m \in 1 .. 2
      BY <1>1, <1>2, <2>4
    <3>2. CASE m > n
      <4>1. n + 1 \in lengths /\ Neither(Part(n + 1)) /\ m = n + 1
        BY <2>1, <2>2, <3>1, <3>2
      <4> QED
        BY <3>1, <4>1 DEF Neither
    <3> QED
      BY <3>1, <3>2
  <2>5. whole = {}
    BY <2>3
  <2>6. Extent(b, q) = n
    <3> DEFINE B == begun \cup {1}
    <3>1. n \in B /\ \A m \in B : m \in Int /\ m <= n
      BY <1>1, <1>9, <2>4
    <3> HIDE DEF B
    <3>2. Max(B) = n
      BY <3>1, ExtremeIs
    <3> QED
      BY <1>3, <2>5, <3>2 DEF B
  <2> QED
    BY <1>4, <2>1, <2>6
<1>10. ASSUME n = 1, Neither(Part(n)) PROVE Extent(b, q) = 1 /\ Item(b, q) = Replacement
  <2>1. b[q] \notin {"61", "C3", "EF"}
    BY <1>1, <1>2, <1>10 DEF Neither
  <2>2. whole = {} /\ begun = {}
    BY <1>2, <2>1
  <2>3. Max({1}) = 1
    BY MaxOfOne
  <2>4. Extent(b, q) = 1
    BY <1>3, <2>2, <2>3
  <2> QED
    BY <1>4, <1>10, <2>4 DEF Neither
<1> QED
  BY <1>8, <1>9, <1>10

\* What is written: characters, and replacements.
Items == Seq(Byte) \cup {Replacement}

\* from is what the text of b from every place on is.
Reads(from, b) ==
    /\ from \in [1 .. Len(b) + 1 -> Seq(Items)]
    /\ from[Len(b) + 1] = <<>>
    /\ \A q \in 1 .. Len(b) : from[q] = <<Item(b, q)>> \o from[q + Extent(b, q)]

LEMMA ItemIs ==
    ASSUME NEW b \in Seq(Byte), NEW q \in 1 .. Len(b)
    PROVE  Extent(b, q) \in 1 .. 3 /\ q + Extent(b, q) \in 1 .. Len(b) + 1 /\ Item(b, q) \in Items
<1> DEFINE N == Len(b)
           Part(m) == SubSeq(b, q, q + m - 1)
           lengths == {m \in 1 .. 3 : q + m <= N + 1}
           whole == {m \in lengths : IsCharacter(Part(m))}
           begun == {m \in lengths : IsPartial(Part(m))}
           B == IF whole # {} THEN whole ELSE begun \cup {1}
           w == Extent(b, q)
<1>1. N \in Nat /\ q \in 1 .. N
  BY LenProperties
<1>2. B \subseteq lengths /\ B # {} /\ lengths \subseteq 1 .. 3
  BY <1>1
<1>3. w = Max(B)
  BY DEF Extent
<1>4. ASSUME NEW T, T \subseteq 1 .. 3, T # {} PROVE Max(T) \in T
  <2>1. \A t \in T : t \in Int
    BY <1>4
  <2>2. CASE 3 \in T
    <3>1. \A t \in T : t <= 3
      BY <1>4
    <3>2. Max(T) = 3
      BY <2>1, <2>2, <3>1, ExtremeIs
    <3> QED
      BY <2>2, <3>2
  <2>3. CASE 3 \notin T /\ 2 \in T
    <3>1. \A t \in T : t <= 2
      BY <1>4, <2>3
    <3>2. Max(T) = 2
      BY <2>1, <2>3, <3>1, ExtremeIs
    <3> QED
      BY <2>3, <3>2
  <2>4. CASE 3 \notin T /\ 2 \notin T
    <3>1. \A t \in T : t = 1
      BY <1>4, <2>4
    <3>2. T = {1}
      BY <1>4, <3>1
    <3>3. Max({1}) = 1
      BY MaxOfOne
    <3> QED
      BY <3>2, <3>3
  <2> QED
    BY <2>2, <2>3, <2>4
<1> HIDE DEF B
<1>5. w \in lengths
  BY <1>2, <1>3, <1>4
<1>6. Item(b, q) = IF IsCharacter(Part(w)) THEN Part(w) ELSE Replacement
  BY DEF Item
<1> HIDE DEF w
<1>7. w \in 1 .. 3 /\ q + w \in 1 .. N + 1
  BY <1>1, <1>5
<1>8. Part(w) \in Seq(Byte)
  <2> DEFINE k == q + w - 1
  <2>1. q \in 1 .. N + 1 /\ k \in Nat /\ k <= N /\ q <= k + 1
    BY <1>1, <1>7
  <2> QED
    BY <2>1, PartIs
<1> HIDE DEF Part
<1> QED
  BY <1>6, <1>7, <1>8 DEF w, Items

\* There is one, by recursion from the end.
LEMMA ReadsExists ==
    ASSUME NEW b \in Seq(Byte)
    PROVE  \E from : Reads(from, b)
<1> DEFINE N == Len(b)
           Good(k, f) == /\ f \in [(N + 1) - k .. N + 1 -> Seq(Items)] /\ f[N + 1] = <<>>
                         /\ \A q \in (N + 1) - k .. N : f[q] = <<Item(b, q)>> \o f[q + Extent(b, q)]
           K == {k \in Nat : k <= N => \E f : Good(k, f)}
<1>1. N \in Nat
  BY LenProperties
<1>2. \A q \in 1 .. N : Extent(b, q) \in 1 .. 3 /\ q + Extent(b, q) \in 1 .. N + 1 /\ Item(b, q) \in Items
  BY ItemIs
<1> HIDE DEF N
<1>3. 0 \in K
  <2> DEFINE f == [q \in (N + 1) - 0 .. N + 1 |-> <<>>]
  <2>1. \A q \in (N + 1) - 0 .. N + 1 : q = N + 1
    BY <1>1
  <2>2. N + 1 \in (N + 1) - 0 .. N + 1 /\ (N + 1) - 0 .. N = {}
    BY <1>1
  <2>3. Good(0, f)
    BY <2>1, <2>2
  <2> HIDE DEF f, Good
  <2>4. \E g : Good(0, g)
    BY <2>3
  <2> QED
    BY <2>4
<1>4. ASSUME NEW k \in Nat, k \in K PROVE k + 1 \in K
  <2> SUFFICES ASSUME k + 1 <= N PROVE \E f : Good(k + 1, f)
    <3> HIDE DEF Good
    <3> QED
      BY DEF K
  <2>1. PICK f : Good(k, f)
    <3>1. k <= N
      BY <1>1
    <3> HIDE DEF Good
    <3> QED
      BY <1>4, <3>1 DEF K
  <2> DEFINE p == N - k
             x == Item(b, p)
             v == p + Extent(b, p)
             g == [q \in p .. N + 1 |-> IF q = p THEN <<x>> \o f[v] ELSE f[q]]
  <2>2. p \in 1 .. N /\ (N + 1) - (k + 1) = p /\ (N + 1) - k = p + 1
    BY <1>1
  <2>3. x \in Items /\ v \in p + 1 .. N + 1
    BY <1>2, <2>2
  <2>4. /\ f \in [p + 1 .. N + 1 -> Seq(Items)] /\ f[N + 1] = <<>>
        /\ \A q \in p + 1 .. N : f[q] = <<Item(b, q)>> \o f[q + Extent(b, q)]
    BY <2>1, <2>2
  <2>5. <<x>> \o f[v] \in Seq(Items)
    <3>1. <<x>> \in Seq(Items) /\ f[v] \in Seq(Items)
      BY <2>3, <2>4
    <3> QED
      BY <3>1, ConcatProperties
  <2> HIDE DEF x, v, p
  <2>6. p .. N + 1 = {p} \cup (p + 1 .. N + 1) /\ p \notin p + 1 .. N + 1 /\ p \in Int
    <3>1. p \in Int /\ p <= N + 1 /\ N + 1 \in Int
      BY <1>1, <2>2
    <3>2. \A q \in p .. N + 1 : q = p \/ q \in p + 1 .. N + 1
      BY <3>1
    <3>3. p \in p .. N + 1 /\ p \notin p + 1 .. N + 1 /\ \A q \in p + 1 .. N + 1 : q \in p .. N + 1
      BY <3>1
    <3> QED
      BY <3>1, <3>2, <3>3
  <2>7. g \in [p .. N + 1 -> Seq(Items)]
    BY <2>4, <2>5, <2>6
  <2>8. g[N + 1] = <<>> /\ g[p] = <<x>> \o f[v] /\ \A q \in p + 1 .. N + 1 : g[q] = f[q]
    <3>1. N + 1 \in p + 1 .. N + 1
      BY <1>1, <2>2
    <3> QED
      BY <2>4, <2>6, <3>1
  <2> HIDE DEF g
  <2>9. ASSUME NEW q \in p .. N PROVE g[q] = <<Item(b, q)>> \o g[q + Extent(b, q)]
    <3>1. CASE q = p
      BY <2>3, <2>8, <3>1 DEF x, v
    <3>2. CASE q # p
      <4>1. q \in p + 1 .. N /\ q \in p + 1 .. N + 1
        BY <1>1, <2>2, <3>2
      <4>2. q \in 1 .. N
        BY <1>1, <2>2, <4>1
      <4>3. q + Extent(b, q) \in p + 1 .. N + 1
        <5> DEFINE w == Extent(b, q)
        <5>1. w \in 1 .. 3 /\ q + w \in 1 .. N + 1
          BY <1>2, <4>2
        <5> HIDE DEF w
        <5>2. q + w \in p + 1 .. N + 1
          BY <1>1, <2>2, <4>1, <5>1
        <5> QED
          BY <5>2 DEF w
      <4> QED
        BY <2>4, <2>8, <4>1, <4>3
    <3> QED
      BY <3>1, <3>2
  <2>10. Good(k + 1, g)
    BY <2>2, <2>7, <2>8, <2>9
  <2> HIDE DEF Good
  <2> QED
    BY <2>10
<1> HIDE DEF K
<1>5. N \in K
  BY <1>1, <1>3, <1>4, SetInduction
<1>6. PICK f : Good(N, f)
  <2> HIDE DEF Good
  <2> QED
    BY <1>1, <1>5 DEF K
<1>7. (N + 1) - N = 1
  BY <1>1
<1> QED
  BY <1>6, <1>7 DEF Reads, N

\* It is what Characters computes.
LEMMA CharactersReads ==
    ASSUME NEW b \in Seq(Byte)
    PROVE  \E from : Reads(from, b) /\ Characters(b) = from[1]
<1> DEFINE N == Len(b)
           R(f) == f = [q \in 1 .. N + 1 |->
                          IF q > N THEN <<>> ELSE <<Item(b, q)>> \o f[q + Extent(b, q)]]
           from == CHOOSE f : R(f)
<1>1. N \in Nat
  BY LenProperties
<1>2. Characters(b) = from[1]
  BY Zenon DEF Characters
<1>3. \A q \in 1 .. N : Extent(b, q) \in 1 .. 3 /\ q + Extent(b, q) \in 1 .. N + 1 /\ Item(b, q) \in Items
  BY ItemIs
<1>4. PICK g : Reads(g, b)
  BY ReadsExists
<1>5. /\ g \in [1 .. N + 1 -> Seq(Items)] /\ g[N + 1] = <<>>
      /\ \A q \in 1 .. N : g[q] = <<Item(b, q)>> \o g[q + Extent(b, q)]
  BY <1>4 DEF Reads
<1> HIDE DEF N
<1>6. R(g)
  <2>1. g = [q \in 1 .. N + 1 |-> g[q]]
    BY <1>5
  <2>2. ASSUME NEW q \in 1 .. N + 1
        PROVE  g[q] = IF q > N THEN <<>> ELSE <<Item(b, q)>> \o g[q + Extent(b, q)]
    <3>1. CASE q = N + 1
      BY <1>1, <1>5, <3>1
    <3>2. CASE q # N + 1
      <4>1. q \in 1 .. N /\ ~(q > N)
        BY <1>1, <3>2
      <4> QED
        BY <1>5, <4>1
    <3> QED
      BY <3>1, <3>2
  <2> QED
    BY <2>1, <2>2, Zenon
<1>7. R(from)
  BY <1>6, Zenon
<1> HIDE DEF from
<1>8. \A q \in 1 .. N + 1 : from[q] = IF q > N THEN <<>> ELSE <<Item(b, q)>> \o from[q + Extent(b, q)]
  BY <1>7, Zenon
<1>9. from[N + 1] = <<>>
  <2>1. N + 1 \in 1 .. N + 1 /\ N + 1 > N
    BY <1>1
  <2> QED
    BY <1>8, <2>1, Zenon
<1>10. ASSUME NEW q \in 1 .. N PROVE from[q] = <<Item(b, q)>> \o from[q + Extent(b, q)]
  <2>1. q \in 1 .. N + 1 /\ ~(q > N)
    BY <1>1
  <2> QED
    BY <1>8, <2>1, Zenon
<1>11. DOMAIN from = 1 .. N + 1 /\ from = [q \in 1 .. N + 1 |-> from[q]]
  <2>1. DOMAIN from = 1 .. N + 1
    BY <1>7
  <2> QED
    BY <1>7, <2>1
<1>12. from \in [1 .. N + 1 -> Seq(Items)]
  <2> DEFINE K == {k \in Nat : k <= N => \A q \in (N + 1) - k .. N + 1 : from[q] \in Seq(Items)}
  <2>1. 0 \in K
    <3>1. \A q \in (N + 1) - 0 .. N + 1 : q = N + 1
      BY <1>1
    <3>2. \A q \in (N + 1) - 0 .. N + 1 : from[q] \in Seq(Items)
      BY <1>9, <3>1, EmptySeq
    <3> QED
      BY <3>2
  <2>2. ASSUME NEW k \in Nat, k \in K PROVE k + 1 \in K
    <3> SUFFICES ASSUME k + 1 <= N, NEW q \in (N + 1) - (k + 1) .. N + 1 PROVE from[q] \in Seq(Items)
      OBVIOUS
    <3>1. \A p \in (N + 1) - k .. N + 1 : from[p] \in Seq(Items)
      BY <1>1, <2>2
    <3>2. CASE q \in (N + 1) - k .. N + 1
      BY <3>1, <3>2
    <3>3. CASE q \notin (N + 1) - k .. N + 1
      <4> DEFINE w == Extent(b, q)
      <4>1. q = N - k /\ q \in 1 .. N
        BY <1>1, <3>3
      <4>2. w \in 1 .. 3 /\ q + w \in 1 .. N + 1
        BY <1>3, <4>1
      <4> HIDE DEF w
      <4>3. q + w \in (N + 1) - k .. N + 1
        BY <1>1, <4>1, <4>2
      <4>4. from[q + w] \in Seq(Items) /\ <<Item(b, q)>> \in Seq(Items)
        BY <1>3, <3>1, <4>1, <4>3
      <4>5. <<Item(b, q)>> \o from[q + w] \in Seq(Items)
        BY <4>4, ConcatProperties
      <4> QED
        BY <1>10, <4>1, <4>5 DEF w
    <3> QED
      BY <3>2, <3>3
  <2> HIDE DEF K
  <2>3. N \in K
    BY <1>1, <2>1, <2>2, SetInduction
  <2>4. \A q \in (N + 1) - N .. N + 1 : from[q] \in Seq(Items)
    BY <1>1, <2>3 DEF K
  <2>5. (N + 1) - N = 1
    BY <1>1
  <2> QED
    BY <1>11, <2>4, <2>5
<1> QED
  BY <1>2, <1>9, <1>10, <1>12 DEF Reads, N

-----------------------------------------------------------------------------
(* What a decoder does that reads on after errors and keeps the BOM.         *)

Pendings == {s \in Seq(Byte) : s = <<>> \/ IsPartial(s)}
Decoders == [pending : Pendings, atStart : BOOLEAN, text : Seq(Items), malformed : BOOLEAN]

LEMMA WriteIs ==
    ASSUME NEW d \in Decoders, NEW char \in Items, NEW m \in BOOLEAN
    PROVE  /\ Write(d, char, m) \in Decoders /\ Write(d, char, m).pending = <<>>
           /\ Write(d, char, m).atStart = FALSE /\ Write(d, char, m).malformed = m
           /\ Write(d, char, m).text = IF d.atStart /\ char = BOM THEN d.text ELSE Append(d.text, char)
<1> DEFINE t == IF d.atStart /\ char = BOM THEN d.text ELSE Append(d.text, char)
           p == <<>>
           e == [pending |-> p, atStart |-> FALSE, malformed |-> m, text |-> t]
<1>1. Write(d, char, m) = e
  BY DEF Write
<1>2. t \in Seq(Items)
  <2>1. d.text \in Seq(Items)
    BY DEF Decoders
  <2>2. Append(d.text, char) \in Seq(Items)
    BY <2>1, AppendProperties
  <2> QED
    BY <2>1, <2>2
<1>3. p \in Pendings
  BY DEF Pendings
<1> HIDE DEF t, p
<1>4. e \in Decoders /\ e.pending = p /\ e.text = t
  BY <1>2, <1>3 DEF Decoders
<1>5. e.atStart = FALSE /\ e.malformed = m
  BY Zenon
<1> QED
  BY <1>1, <1>4, <1>5 DEF t, p

LEMMA AddIs ==
    ASSUME NEW d \in Decoders, NEW x \in Byte
    PROVE  LET s == Append(d.pending, x) IN
           /\ s \in Seq(Byte) /\ s \in Items /\ Replacement \in Items
           /\ IsCharacter(s) => AddByte(d, x) = Write(d, s, d.malformed)
           /\ ~IsCharacter(s) /\ IsPartial(s) =>
                /\ AddByte(d, x) \in Decoders /\ AddByte(d, x).pending = s
                /\ AddByte(d, x).atStart = d.atStart /\ AddByte(d, x).text = d.text
                /\ AddByte(d, x).malformed = d.malformed
           /\ Neither(s) => AddByte(d, x) = Write(d, Replacement, TRUE)
           /\ AddByte(d, x) \in Decoders
<1> DEFINE s == Append(d.pending, x)
<1>1. /\ d.pending \in Seq(Byte) /\ d.text \in Seq(Items)
      /\ d.atStart \in BOOLEAN /\ d.malformed \in BOOLEAN
  BY DEF Decoders, Pendings
<1>2. s \in Seq(Byte) /\ s \in Items /\ Replacement \in Items
  BY <1>1, AppendProperties DEF Items
<1>3. AddByte(d, x) = IF IsCharacter(s) THEN Write(d, s, d.malformed)
                      ELSE IF IsPartial(s) THEN [d EXCEPT !.pending = s]
                      ELSE Write(d, Replacement, TRUE)
  BY Zenon DEF AddByte, Emit, Malformed
<1> HIDE DEF s
<1>4. ASSUME ~IsCharacter(s), IsPartial(s)
      PROVE  /\ AddByte(d, x) \in Decoders /\ AddByte(d, x).pending = s
             /\ AddByte(d, x).atStart = d.atStart /\ AddByte(d, x).text = d.text
             /\ AddByte(d, x).malformed = d.malformed
  <2> DEFINE e == [d EXCEPT !.pending = s]
  <2>1. AddByte(d, x) = e
    BY <1>3, <1>4
  <2>2. s \in Pendings
    BY <1>2, <1>4 DEF Pendings
  <2>3. e \in Decoders /\ e.pending = s /\ e.text = d.text
    BY <2>2 DEF Decoders
  <2>4. e.atStart = d.atStart /\ e.malformed = d.malformed
    BY Zenon DEF Decoders
  <2> QED
    BY <2>1, <2>3, <2>4
<1>5. AddByte(d, x) \in Decoders
  <2>1. Write(d, s, d.malformed) \in Decoders /\ Write(d, Replacement, TRUE) \in Decoders
    BY <1>1, <1>2, WriteIs
  <2> QED
    BY <1>3, <1>4, <2>1
<1> QED
  BY <1>2, <1>3, <1>4, <1>5 DEF Neither, s

Blank == [pending |-> <<>>, atStart |-> FALSE, text |-> <<>>, malformed |-> FALSE]
Spoils(e) == \E i \in DOMAIN e.text : e.text[i] = Replacement
Scanners == {e \in Decoders : ~e.atStart /\ (e.malformed <=> Spoils(e))}
ScanByte(e, x) == AddByte(IF Fits(e, x) THEN e ELSE Malformed(e), x)
Scans(e, b) ==
    /\ e \in [0 .. Len(b) -> Scanners] /\ e[0] = Blank
    /\ \A n \in 1 .. Len(b) : e[n] = ScanByte(e[n - 1], b[n])
Scanned(b) == (CHOOSE e : Scans(e, b))[Len(b)]

LEMMA BlankIs ==
    /\ Blank \in Scanners /\ Blank.pending = <<>> /\ Blank.text = <<>> /\ Blank.malformed = FALSE
    /\ Blank.atStart = FALSE
<1> DEFINE p == <<>>
           t == <<>>
<1>1. p \in Pendings /\ t \in Seq(Items) /\ DOMAIN t = {}
  BY EmptySeq DEF Pendings
<1>2. Blank = [pending |-> p, atStart |-> FALSE, text |-> t, malformed |-> FALSE]
  BY DEF Blank
<1> HIDE DEF p, t
<1>3. Blank \in Decoders /\ Blank.pending = p /\ Blank.text = t
  BY <1>1, <1>2 DEF Decoders
<1>4. Blank.malformed = FALSE /\ Blank.atStart = FALSE
  BY <1>2, Zenon
<1>5. ~Spoils(Blank)
  BY <1>1, <1>3 DEF Spoils
<1> QED
  BY <1>3, <1>4, <1>5 DEF Scanners, p, t

\* A character, or a replacement, is written.
LEMMA WriteScans ==
    ASSUME NEW e \in Scanners, NEW char \in Items, NEW m \in BOOLEAN,
           m <=> e.malformed \/ char = Replacement
    PROVE  /\ Write(e, char, m) \in Scanners /\ Write(e, char, m).text = Append(e.text, char)
           /\ Write(e, char, m).pending = <<>>
<1> DEFINE f == Write(e, char, m)
           n == Len(e.text)
<1>1. e \in Decoders /\ ~e.atStart /\ (e.malformed <=> Spoils(e)) /\ e.text \in Seq(Items)
  BY DEF Scanners, Decoders
<1>2. /\ f \in Decoders /\ f.pending = <<>> /\ f.atStart = FALSE /\ f.malformed = m
      /\ f.text = Append(e.text, char)
  BY <1>1, WriteIs
<1>3. /\ f.text \in Seq(Items) /\ Len(f.text) = n + 1 /\ n \in Nat /\ f.text[n + 1] = char
      /\ \A i \in 1 .. n : f.text[i] = e.text[i]
  BY <1>1, <1>2, GrownIs
<1>4. DOMAIN f.text = 1 .. n + 1 /\ DOMAIN e.text = 1 .. n
  BY <1>1, <1>3, LenProperties
<1> HIDE DEF f, n
<1>5. Spoils(f) <=> Spoils(e) \/ char = Replacement
  <2>1. \A i \in 1 .. n + 1 : i \in 1 .. n \/ i = n + 1
    BY <1>3
  <2>2. n + 1 \in 1 .. n + 1 /\ \A i \in 1 .. n : i \in 1 .. n + 1
    BY <1>3
  <2> QED
    BY <1>3, <1>4, <2>1, <2>2, Zenon DEF Spoils
<1>6. f \in Scanners
  BY <1>1, <1>2, <1>5 DEF Scanners
<1> QED
  BY <1>2, <1>6 DEF f

\* One byte is added.
LEMMA AddScans ==
    ASSUME NEW e \in Scanners, NEW x \in Byte
    PROVE  LET s == Append(e.pending, x)
               f == AddByte(e, x)
           IN  /\ f \in Scanners
               /\ IsCharacter(s) => f.pending = <<>> /\ f.text = Append(e.text, s)
               /\ ~IsCharacter(s) /\ IsPartial(s) => f.pending = s /\ f.text = e.text
               /\ Neither(s) => f.pending = <<>> /\ f.text = Append(e.text, Replacement)
<1> DEFINE s == Append(e.pending, x)
           f == AddByte(e, x)
<1>1. e \in Decoders /\ ~e.atStart /\ (e.malformed <=> Spoils(e)) /\ e.malformed \in BOOLEAN
  BY DEF Scanners, Decoders
<1>2. /\ s \in Items /\ Replacement \in Items
      /\ IsCharacter(s) => f = Write(e, s, e.malformed)
      /\ ~IsCharacter(s) /\ IsPartial(s) =>
            f \in Decoders /\ f.pending = s /\ f.atStart = e.atStart /\ f.text = e.text
            /\ f.malformed = e.malformed
      /\ Neither(s) => f = Write(e, Replacement, TRUE)
  BY <1>1, AddIs
<1> HIDE DEF s, f
<1>3. ASSUME IsCharacter(s) PROVE f \in Scanners /\ f.pending = <<>> /\ f.text = Append(e.text, s)
  <2>1. s # Replacement
    BY <1>3 DEF IsCharacter, Replacement, Continuation
  <2> QED
    BY <1>1, <1>2, <1>3, <2>1, WriteScans
<1>4. ASSUME ~IsCharacter(s), IsPartial(s) PROVE f \in Scanners /\ f.pending = s /\ f.text = e.text
  <2>1. f \in Decoders /\ f.pending = s /\ f.text = e.text
    BY <1>2, <1>4
  <2>2. ~f.atStart /\ (f.malformed <=> e.malformed)
    BY <1>1, <1>2, <1>4
  <2>3. Spoils(f) <=> Spoils(e)
    BY <2>1 DEF Spoils
  <2> QED
    BY <1>1, <2>1, <2>2, <2>3 DEF Scanners
<1>5. ASSUME Neither(s) PROVE f \in Scanners /\ f.pending = <<>> /\ f.text = Append(e.text, Replacement)
  <2>1. Replacement \in Items /\ TRUE \in BOOLEAN /\ (TRUE <=> e.malformed \/ Replacement = Replacement)
    BY <1>2
  <2>2. /\ Write(e, Replacement, TRUE) \in Scanners /\ Write(e, Replacement, TRUE).pending = <<>>
        /\ Write(e, Replacement, TRUE).text = Append(e.text, Replacement)
    BY <2>1, WriteScans
  <2> QED
    BY <1>2, <1>5, <2>2
<1>6. IsCharacter(s) \/ (~IsCharacter(s) /\ IsPartial(s)) \/ Neither(s)
  BY DEF Neither
<1> QED
  BY <1>3, <1>4, <1>5, <1>6 DEF s, f

LEMMA MalformedScans ==
    ASSUME NEW e \in Scanners
    PROVE  /\ Malformed(e) \in Scanners /\ Malformed(e).pending = <<>>
           /\ Malformed(e).text = Append(e.text, Replacement)
  BY WriteScans DEF Malformed, Items

LEMMA ScanType == ASSUME NEW e \in Scanners, NEW x \in Byte PROVE ScanByte(e, x) \in Scanners
<1> DEFINE f == IF Fits(e, x) THEN e ELSE Malformed(e)
<1>1. f \in Scanners
  BY MalformedScans
<1> HIDE DEF f
<1>2. AddByte(f, x) \in Scanners
  BY <1>1, AddScans
<1> QED
  BY <1>2 DEF ScanByte, f

LEMMA ScansExist ==
    ASSUME NEW b \in Seq(Byte) PROVE \E e : Scans(e, b)
<1> DEFINE N == Len(b)
           G == [p \in (1 .. N) \X Scanners |-> ScanByte(p[2], b[p[1]])]
<1>1. N \in Nat /\ \A n \in 1 .. N : b[n] \in Byte
  BY LenProperties, ElementOfSeq
<1>2. \A n \in 1 .. N, e \in Scanners : G[<<n, e>>] = ScanByte(e, b[n])
  OBVIOUS
<1> HIDE DEF G, N
<1>3. ASSUME NEW n \in 1 .. N, NEW e \in Scanners PROVE G[<<n, e>>] \in Scanners
  <2>1. ScanByte(e, b[n]) \in Scanners
    BY <1>1, ScanType
  <2> QED
    BY <1>2, <2>1
<1>4. Blank \in Scanners
  BY BlankIs
<1>5. PICK e : Computes(e, N, Scanners, Blank, G)
  BY <1>1, <1>3, <1>4, RecursionExists
<1>6. e \in [0 .. N -> Scanners] /\ e[0] = Blank /\ \A n \in 1 .. N : e[n] = G[<<n, e[n - 1]>>]
  BY <1>5 DEF Computes
<1>7. ASSUME NEW n \in 1 .. N PROVE e[n] = ScanByte(e[n - 1], b[n])
  <2>1. n - 1 \in 0 .. N
    BY <1>1
  <2>2. e[n - 1] \in Scanners /\ e[n] = G[<<n, e[n - 1]>>]
    BY <1>6, <2>1
  <2> QED
    BY <1>2, <2>2
<1> QED
  BY <1>6, <1>7 DEF Scans, N

\* Where two sequences begin alike, so do their scans.
LEMMA ScansAgree ==
    ASSUME NEW b \in Seq(Byte), NEW c \in Seq(Byte), NEW e, NEW f, Scans(e, b), Scans(f, c),
           NEW m \in Nat, m <= Len(b), m <= Len(c), \A i \in 1 .. m : b[i] = c[i]
    PROVE  e[m] = f[m]
<1> DEFINE K == {n \in Nat : n <= m => e[n] = f[n]}
<1>1. 0 \in K
  BY DEF Scans
<1>2. ASSUME NEW n \in Nat, n \in K PROVE n + 1 \in K
  <2> SUFFICES ASSUME n + 1 <= m PROVE e[n + 1] = f[n + 1]
    OBVIOUS
  <2>1. n + 1 \in 1 .. Len(b) /\ n + 1 \in 1 .. Len(c) /\ n + 1 \in 1 .. m /\ (n + 1) - 1 = n
    BY LenProperties
  <2>2. e[n] = f[n]
    BY <1>2
  <2>3. e[n + 1] = ScanByte(e[n], b[n + 1]) /\ f[n + 1] = ScanByte(f[n], c[n + 1])
    BY <2>1, Zenon DEF Scans
  <2> QED
    BY <2>1, <2>2, <2>3
<1> HIDE DEF K
<1>3. m \in K
  BY <1>1, <1>2, SetInduction
<1> QED
  BY <1>3 DEF K

LEMMA ScannedIs ==
    ASSUME NEW b \in Seq(Byte)
    PROVE  /\ Scanned(b) \in Scanners /\ Scanned(<<>>) = Blank
           /\ \A x \in Byte : Scanned(Append(b, x)) = ScanByte(Scanned(b), x)
<1>1. ASSUME NEW c \in Seq(Byte)
      PROVE  \E e : Scans(e, c) /\ Scanned(c) = e[Len(c)]
  <2> DEFINE e == CHOOSE f : Scans(f, c)
  <2>1. Scans(e, c)
    BY <1>1, ScansExist, Zenon
  <2>2. Scanned(c) = e[Len(c)]
    BY DEF Scanned
  <2> QED
    BY <2>1, <2>2, Zenon
<1>2. PICK e : Scans(e, b) /\ Scanned(b) = e[Len(b)]
  BY <1>1
<1>3. Scanned(b) \in Scanners
  BY <1>2, LenProperties DEF Scans
<1>4. Scanned(<<>>) = Blank
  <2> DEFINE c == <<>>
  <2>1. c \in Seq(Byte) /\ Len(c) = 0
    BY EmptySeq
  <2> HIDE DEF c
  <2>2. PICK f : Scans(f, c) /\ Scanned(c) = f[Len(c)]
    BY <1>1, <2>1
  <2>3. Scanned(c) = Blank
    BY <2>1, <2>2 DEF Scans
  <2> QED
    BY <2>3 DEF c
<1>5. ASSUME NEW x \in Byte PROVE Scanned(Append(b, x)) = ScanByte(Scanned(b), x)
  <2> DEFINE c == Append(b, x)
             n == Len(b)
  <2>1. /\ c \in Seq(Byte) /\ Len(c) = n + 1 /\ n \in Nat /\ c[n + 1] = x
        /\ \A i \in 1 .. n : c[i] = b[i]
    BY GrownIs
  <2> HIDE DEF c
  <2>2. PICK f : Scans(f, c) /\ Scanned(c) = f[Len(c)]
    BY <1>1, <2>1
  <2>3. n <= Len(b) /\ n <= Len(c) /\ \A i \in 1 .. n : b[i] = c[i]
    BY <2>1
  <2>4. e[n] = f[n]
    BY <1>2, <2>1, <2>2, <2>3, ScansAgree
  <2>5. n + 1 \in 1 .. Len(c) /\ (n + 1) - 1 = n
    BY <2>1
  <2>6. f[n + 1] = ScanByte(f[n], c[n + 1])
    BY <2>2, <2>5, Zenon DEF Scans
  <2> QED
    BY <1>2, <2>1, <2>2, <2>4, <2>6 DEF c
<1> QED
  BY <1>3, <1>4, <1>5

-----------------------------------------------------------------------------
(* It finds the characters that there are in all bytes at once.             *)

\* After k bytes of b: what is written is the text up to a place from where on all
\* bytes are pending.
Reached(from, b, e, k) ==
    /\ Len(e.pending) \in 0 .. k
    /\ e.pending = SubSeq(b, (k + 1) - Len(e.pending), k)
    /\ from[1] = e.text \o from[(k + 1) - Len(e.pending)]

\* An item that is written.
LEMMA TextGrows ==
    ASSUME NEW t \in Seq(Items), NEW x \in Items, NEW r \in Seq(Items)
    PROVE  t \o (<<x>> \o r) = Append(t, x) \o r
<1>1. <<x>> \in Seq(Items)
  OBVIOUS
<1>2. Append(t, x) = t \o <<x>>
  BY AppendIsConcat
<1>3. (t \o <<x>>) \o r = t \o (<<x>> \o r)
  BY <1>1, ConcatAssociative
<1> QED
  BY <1>2, <1>3

LEMMA AddParses ==
    ASSUME NEW b \in Seq(Byte), NEW from, Reads(from, b), NEW k \in Nat, k < Len(b),
           NEW e \in Scanners, Fits(e, b[k + 1]), Reached(from, b, e, k)
    PROVE  Reached(from, b, AddByte(e, b[k + 1]), k + 1)
<1> DEFINE N == Len(b)
           p == e.pending
           n == Len(p)
           x == b[k + 1]
           s == Append(p, x)
           t == e.text
           f == AddByte(e, x)
<1>1. N \in Nat /\ k < N /\ k + 1 \in 1 .. N /\ x \in Byte
  BY LenProperties, ElementOfSeq
<1>2. p \in Seq(Byte) /\ t \in Seq(Items) /\ (p = <<>> \/ IsPartial(p))
  BY DEF Scanners, Decoders, Pendings
<1>3. n \in 0 .. k /\ p = SubSeq(b, (k + 1) - n, k) /\ from[1] = t \o from[(k + 1) - n]
  BY DEF Reached
<1>4. n \in 0 .. 2
  BY <1>2, EmptySeq DEF IsPartial
<1>5. /\ IsCharacter(s) => f.pending = <<>> /\ f.text = Append(t, s)
      /\ ~IsCharacter(s) /\ IsPartial(s) => f.pending = s /\ f.text = t
      /\ Neither(s) => f.pending = <<>> /\ f.text = Append(t, Replacement)
  BY <1>1, AddScans
<1>6. Len(s) = n + 1
  BY <1>1, <1>2, AppendProperties
<1>7. Neither(s) => n = 0
  <2>1. Neither(s) => p = <<>>
    BY DEF Fits, Neither
  <2> QED
    BY <2>1
<1>8. from \in [1 .. N + 1 -> Seq(Items)] /\ \A i \in 1 .. N : from[i] = <<Item(b, i)>> \o from[i + Extent(b, i)]
  BY DEF Reads
<1> SUFFICES Reached(from, b, f, k + 1)
  OBVIOUS
<1> HIDE DEF p, n, t, f
<1> DEFINE q == (k + 1) - n
<1>9. q \in 1 .. N /\ q <= k + 1 /\ q + (n + 1) - 1 = k + 1 /\ q + (n + 1) = (k + 1) + 1
  <2> HIDE DEF N
  <2> QED
    BY <1>1, <1>3, <1>4
<1>10. p = SubSeq(b, q, k) /\ from[1] = t \o from[q]
  BY <1>3
<1> HIDE DEF q
<1>11. s = SubSeq(b, q, k + 1)
  <2>1. SubSeq(b, q, k + 1) = Append(SubSeq(b, q, k), b[k + 1])
    BY <1>1, <1>9, PartGrows
  <2> QED
    BY <1>10, <2>1
<1>12. Item(b, q) \in Items /\ q + Extent(b, q) \in 1 .. N + 1
  BY <1>9, ItemIs
<1>13. from[1] = Append(t, Item(b, q)) \o from[q + Extent(b, q)]
  <2>1. from[q + Extent(b, q)] \in Seq(Items)
    BY <1>8, <1>12
  <2>2. from[q] = <<Item(b, q)>> \o from[q + Extent(b, q)]
    BY <1>8, <1>9
  <2>3. t \o (<<Item(b, q)>> \o from[q + Extent(b, q)]) = Append(t, Item(b, q)) \o from[q + Extent(b, q)]
    BY <1>2, <1>12, <2>1, TextGrows
  <2> QED
    BY <1>10, <2>2, <2>3
<1>14. /\ IsCharacter(s) => Extent(b, q) = n + 1 /\ Item(b, q) = s
       /\ n = 0 /\ Neither(s) => Extent(b, q) = n + 1 /\ Item(b, q) = Replacement
  <2> DEFINE m == n + 1
  <2>1. m \in 1 .. 3 /\ q + m - 1 = k + 1 /\ k + 1 <= N
    <3> HIDE DEF N
    <3> QED
      BY <1>1, <1>4, <1>9
  <2>2. SubSeq(b, q, q + m - 1) = s
    BY <1>11, <2>1
  <2> HIDE DEF m, s
  <2>3. LET u == SubSeq(b, q, q + m - 1) IN
        /\ IsCharacter(u) => Extent(b, q) = m /\ Item(b, q) = u
        /\ IsPartial(u) /\ (q + m <= Len(b) => Neither(SubSeq(b, q, q + m)))
           => Extent(b, q) = m /\ Item(b, q) = Replacement
        /\ m = 1 /\ Neither(u) => Extent(b, q) = 1 /\ Item(b, q) = Replacement
    BY <1>9, <2>1, ExtentIs
  <2>4. n = 0 => m = 1
    BY DEF m
  <2>5. /\ IsCharacter(s) => Extent(b, q) = m /\ Item(b, q) = s
        /\ m = 1 /\ Neither(s) => Extent(b, q) = m /\ Item(b, q) = Replacement
    BY <2>2, <2>3
  <2> QED
    BY <2>4, <2>5 DEF m
<1> HIDE DEF x, s
<1>15. ASSUME f.pending = <<>>, from[1] = f.text \o from[(k + 1) + 1] PROVE Reached(from, b, f, k + 1)
  <2> DEFINE l == Len(f.pending)
  <2>1. l = 0
    BY <1>15
  <2>2. ((k + 1) + 1) - l = (k + 1) + 1
    BY <2>1
  <2>3. SubSeq(b, (k + 1) + 1, k + 1) = <<>>
    <3> HIDE DEF N
    <3>1. (k + 1) + 1 \in 1 .. N + 1 /\ k + 1 \in Nat /\ k + 1 <= N /\ (k + 1) + 1 <= (k + 1) + 1
      BY <1>1
    <3>2. /\ SubSeq(b, (k + 1) + 1, k + 1) \in Seq(Byte)
          /\ Len(SubSeq(b, (k + 1) + 1, k + 1)) = ((k + 1) + 1) - ((k + 1) + 1)
      BY <3>1, PartIs DEF N
    <3> QED
      BY <3>2, EmptySeq
  <2> HIDE DEF l
  <2>4. l \in 0 .. k + 1 /\ f.pending = SubSeq(b, ((k + 1) + 1) - l, k + 1)
        /\ from[1] = f.text \o from[((k + 1) + 1) - l]
    BY <1>15, <2>1, <2>2, <2>3
  <2> QED
    BY <2>4 DEF Reached, l
<1>16. CASE IsCharacter(s)
  <2>1. f.pending = <<>> /\ f.text = Append(t, s) /\ Item(b, q) = s /\ q + Extent(b, q) = (k + 1) + 1
    BY <1>5, <1>9, <1>14, <1>16
  <2>2. from[1] = f.text \o from[(k + 1) + 1]
    BY <1>13, <2>1
  <2> QED
    BY <1>15, <2>1, <2>2
<1>17. CASE ~IsCharacter(s) /\ IsPartial(s)
  <2>1. f.pending = s /\ f.text = t /\ Len(f.pending) = n + 1
    BY <1>5, <1>6, <1>17
  <2>2. ((k + 1) + 1) - (n + 1) = q /\ n + 1 \in 0 .. k + 1
    BY <1>3, <1>9 DEF q
  <2>3. f.pending = SubSeq(b, q, k + 1) /\ from[1] = f.text \o from[q]
    BY <1>10, <1>11, <2>1
  <2> DEFINE l == Len(f.pending)
  <2>4. l = n + 1
    BY <2>1
  <2> HIDE DEF l
  <2>5. l \in 0 .. k + 1 /\ f.pending = SubSeq(b, ((k + 1) + 1) - l, k + 1)
        /\ from[1] = f.text \o from[((k + 1) + 1) - l]
    BY <2>2, <2>3, <2>4
  <2> QED
    BY <2>5 DEF Reached, l
<1>18. CASE Neither(s)
  <2>1. /\ f.pending = <<>> /\ f.text = Append(t, Replacement) /\ Item(b, q) = Replacement
        /\ q + Extent(b, q) = (k + 1) + 1
    BY <1>5, <1>7, <1>9, <1>14, <1>18
  <2>2. from[1] = f.text \o from[(k + 1) + 1]
    BY <1>13, <2>1
  <2> QED
    BY <1>15, <2>1, <2>2
<1> QED
  BY <1>16, <1>17, <1>18 DEF Neither

\* What has begun and does not go on is replaced.
LEMMA MalformedParses ==
    ASSUME NEW b \in Seq(Byte), NEW from, Reads(from, b), NEW k \in Nat, k <= Len(b),
           NEW e \in Scanners, e.pending # <<>>, k < Len(b) => ~Fits(e, b[k + 1]),
           Reached(from, b, e, k)
    PROVE  Reached(from, b, Malformed(e), k)
<1> DEFINE N == Len(b)
           p == e.pending
           n == Len(p)
           t == e.text
           f == Malformed(e)
<1>1. N \in Nat /\ k <= N
  BY LenProperties
<1>2. p \in Seq(Byte) /\ t \in Seq(Items) /\ IsPartial(p)
  BY DEF Scanners, Decoders, Pendings
<1>3. n \in 0 .. k /\ p = SubSeq(b, (k + 1) - n, k) /\ from[1] = t \o from[(k + 1) - n]
  BY DEF Reached
<1>4. n \in 1 .. 2
  BY <1>2 DEF IsPartial
<1>5. k < N => Neither(Append(p, b[k + 1]))
  BY Zenon DEF Fits, Neither
<1>6. f.pending = <<>> /\ f.text = Append(t, Replacement)
  BY MalformedScans
<1>7. from \in [1 .. N + 1 -> Seq(Items)] /\ \A i \in 1 .. N : from[i] = <<Item(b, i)>> \o from[i + Extent(b, i)]
  BY DEF Reads
<1> SUFFICES Reached(from, b, f, k)
  OBVIOUS
<1> HIDE DEF p, n, t, f
<1> DEFINE q == (k + 1) - n
<1>8. q \in 1 .. N /\ q <= k + 1 /\ q + n - 1 = k /\ q + n = k + 1
  <2> HIDE DEF N
  <2> QED
    BY <1>1, <1>3, <1>4
<1>9. p = SubSeq(b, q, k) /\ from[1] = t \o from[q]
  BY <1>3
<1> HIDE DEF q
<1>10. Item(b, q) \in Items /\ q + Extent(b, q) \in 1 .. N + 1
  BY <1>8, ItemIs
<1>11. from[1] = Append(t, Item(b, q)) \o from[q + Extent(b, q)]
  <2>1. from[q + Extent(b, q)] \in Seq(Items)
    BY <1>7, <1>10
  <2>2. from[q] = <<Item(b, q)>> \o from[q + Extent(b, q)]
    BY <1>7, <1>8
  <2>3. t \o (<<Item(b, q)>> \o from[q + Extent(b, q)]) = Append(t, Item(b, q)) \o from[q + Extent(b, q)]
    BY <1>2, <1>10, <2>1, TextGrows
  <2> QED
    BY <1>9, <2>2, <2>3
<1>12. k < N => Neither(SubSeq(b, q, k + 1))
  <2> SUFFICES ASSUME k < N PROVE Neither(SubSeq(b, q, k + 1))
    OBVIOUS
  <2>1. SubSeq(b, q, k + 1) = Append(p, b[k + 1])
    BY <1>8, <1>9, PartGrows
  <2> QED
    BY <1>5, <2>1
<1>13. Extent(b, q) = n /\ Item(b, q) = Replacement
  <2>1. n \in 1 .. 3 /\ q + n - 1 <= N /\ (q + n <= N => k < N)
    <3> HIDE DEF N
    <3> QED
      BY <1>1, <1>4, <1>8
  <2>2. LET u == SubSeq(b, q, q + n - 1) IN
        /\ IsCharacter(u) => Extent(b, q) = n /\ Item(b, q) = u
        /\ IsPartial(u) /\ (q + n <= Len(b) => Neither(SubSeq(b, q, q + n)))
           => Extent(b, q) = n /\ Item(b, q) = Replacement
        /\ n = 1 /\ Neither(u) => Extent(b, q) = 1 /\ Item(b, q) = Replacement
    BY <1>8, <2>1, ExtentIs
  <2>3. SubSeq(b, q, q + n - 1) = p /\ SubSeq(b, q, q + n) = SubSeq(b, q, k + 1)
    BY <1>8, <1>9
  <2> QED
    BY <1>2, <1>12, <2>1, <2>2, <2>3
<1>14. from[1] = f.text \o from[k + 1]
  BY <1>6, <1>8, <1>11, <1>13
<1>15. SubSeq(b, k + 1, k) = <<>>
  <2> HIDE DEF N
  <2>1. k + 1 \in 1 .. N + 1 /\ k + 1 <= k + 1
    BY <1>1
  <2>2. /\ SubSeq(b, k + 1, k) \in Seq(Byte)
        /\ Len(SubSeq(b, k + 1, k)) = (k + 1) - (k + 1)
    BY <1>1, <2>1, PartIs DEF N
  <2> QED
    BY <2>2, EmptySeq
<1> DEFINE l == Len(f.pending)
<1>16. l = 0 /\ (k + 1) - l = k + 1
  BY <1>6
<1> HIDE DEF l
<1>17. /\ l \in 0 .. k /\ f.pending = SubSeq(b, (k + 1) - l, k)
       /\ from[1] = f.text \o from[(k + 1) - l]
  BY <1>6, <1>14, <1>15, <1>16
<1> QED
  BY <1>17 DEF Reached, l

LEMMA ScanParses ==
    ASSUME NEW b \in Seq(Byte), NEW from, Reads(from, b)
    PROVE  Reached(from, b, Scanned(b), Len(b))
<1> DEFINE N == Len(b)
           P(k) == SubSeq(b, 1, k)
           K == {k \in Nat : k <= N => Reached(from, b, Scanned(P(k)), k)}
<1>1. N \in Nat
  BY LenProperties
<1>2. \A k \in 0 .. N : P(k) \in Seq(Byte) /\ Len(P(k)) = k /\ \A j \in 1 .. k : P(k)[j] = b[j]
  <2> SUFFICES ASSUME NEW k \in 0 .. N
               PROVE  P(k) \in Seq(Byte) /\ Len(P(k)) = k /\ \A j \in 1 .. k : P(k)[j] = b[j]
    OBVIOUS
  <2>1. 1 \in 1 .. N + 1 /\ k \in Nat /\ k <= N /\ 1 <= k + 1 /\ (k + 1) - 1 = k
    BY <1>1
  <2>2. /\ P(k) \in Seq(Byte) /\ Len(P(k)) = (k + 1) - 1
        /\ \A j \in 1 .. (k + 1) - 1 : P(k)[j] = b[(1 + j) - 1]
    BY <2>1, PartIs
  <2> QED
    BY <2>1, <2>2
<1>3. from \in [1 .. N + 1 -> Seq(Items)]
  BY DEF Reads
<1>4. 0 \in K
  <2>1. P(0) = <<>>
    BY <1>1, <1>2, EmptySeq
  <2>2. Scanned(P(0)) = Blank
    BY <2>1, ScannedIs
  <2>3. SubSeq(b, 1, 0) = <<>> /\ Len(Blank.pending) = 0 /\ Blank.pending = <<>> /\ Blank.text = <<>>
    BY <2>1, BlankIs
  <2>4. from[1] = <<>> \o from[1]
    <3>1. from[1] \in Seq(Items)
      BY <1>1, <1>3
    <3> QED
      BY <3>1, ConcatEmptySeq
  <2>5. (0 + 1) - 0 = 1
    OBVIOUS
  <2>6. Reached(from, b, Blank, 0)
    BY <2>3, <2>4, <2>5 DEF Reached
  <2> QED
    BY <2>2, <2>6
<1>5. ASSUME NEW k \in Nat, k \in K PROVE k + 1 \in K
  <2> SUFFICES ASSUME k + 1 <= N PROVE Reached(from, b, Scanned(P(k + 1)), k + 1)
    OBVIOUS
  <2> DEFINE e == Scanned(P(k))
             x == b[k + 1]
  <2>1. k < Len(b) /\ k \in 0 .. N /\ x \in Byte
    BY <1>1, ElementOfSeq
  <2>2. e \in Scanners /\ Reached(from, b, e, k)
    <3>1. e \in Scanners
      BY <1>2, <2>1, ScannedIs
    <3>2. k <= N
      BY <1>1, <2>1
    <3> QED
      BY <1>5, <3>1, <3>2
  <2>3. P(k + 1) = Append(P(k), x)
    <3>1. 1 \in 1 .. N /\ 1 <= k + 1
      BY <1>1, <2>1
    <3> QED
      BY <2>1, <3>1, PartGrows
  <2>4. Scanned(P(k + 1)) = ScanByte(e, x)
    BY <1>2, <2>1, <2>3, ScannedIs
  <2> HIDE DEF e, P
  <2>5. CASE Fits(e, x)
    <3>1. Reached(from, b, AddByte(e, x), k + 1)
      BY <2>1, <2>2, <2>5, AddParses
    <3> QED
      BY <2>4, <2>5, <3>1 DEF ScanByte
  <2>6. CASE ~Fits(e, x)
    <3>1. e.pending # <<>>
      BY <2>6 DEF Fits
    <3>2. Reached(from, b, Malformed(e), k)
      BY <2>1, <2>2, <2>6, <3>1, MalformedParses
    <3>3. Malformed(e) \in Scanners /\ Fits(Malformed(e), x)
      BY <2>2, MalformedScans DEF Fits
    <3>4. Reached(from, b, AddByte(Malformed(e), x), k + 1)
      BY <2>1, <3>2, <3>3, AddParses
    <3> QED
      BY <2>4, <2>6, <3>4 DEF ScanByte
  <2> QED
    BY <2>5, <2>6
<1> HIDE DEF K
<1>6. N \in K
  BY <1>1, <1>4, <1>5, SetInduction
<1>7. P(N) = b
  <2>1. N \in 0 .. N /\ N <= N
    BY <1>1
  <2>2. P(N) \in Seq(Byte) /\ Len(P(N)) = Len(b) /\ \A j \in 1 .. Len(b) : P(N)[j] = b[j]
    BY <1>2, <2>1
  <2> QED
    BY <2>2, SeqEqual
<1>8. Reached(from, b, Scanned(P(N)), N)
  <2>1. N <= N
    BY <1>1
  <2> HIDE DEF N, P
  <2> QED
    BY <1>6, <2>1, Zenon DEF K
<1> QED
  BY <1>7, <1>8

\* At the end of the text, what has begun is replaced.
Finish(e) == IF e.pending # <<>> THEN Malformed(e) ELSE e

LEMMA CharactersAre ==
    ASSUME NEW b \in Seq(Byte)
    PROVE  /\ Finish(Scanned(b)) \in Scanners /\ Characters(b) = Finish(Scanned(b)).text
           /\ Characters(b) \in Seq(Items)
<1> DEFINE e == Scanned(b)
           f == Finish(e)
           N == Len(b)
<1>1. e \in Scanners /\ N \in Nat
  BY ScannedIs, LenProperties
<1>2. PICK from : Reads(from, b) /\ Characters(b) = from[1]
  BY CharactersReads
<1>3. Reached(from, b, e, N)
  BY <1>2, ScanParses
<1> HIDE DEF e
<1>4. f \in Scanners /\ f.pending = <<>> /\ f.text \in Seq(Items)
  <2>1. f \in Scanners /\ f.pending = <<>>
    BY <1>1, MalformedScans DEF Finish
  <2> HIDE DEF f
  <2> QED
    BY <2>1 DEF Scanners, Decoders
<1>5. Reached(from, b, f, N)
  <2>1. CASE e.pending # <<>>
    <3>1. N <= Len(b) /\ ~(N < Len(b))
      BY <1>1
    <3>2. Reached(from, b, Malformed(e), N)
      BY <1>1, <1>2, <1>3, <2>1, <3>1, MalformedParses
    <3> QED
      BY <2>1, <3>2 DEF Finish
  <2>2. CASE e.pending = <<>>
    BY <1>3, <2>2 DEF Finish
  <2> QED
    BY <2>1, <2>2
<1> HIDE DEF f
<1>6. from[1] = f.text
  <2> DEFINE l == Len(f.pending)
  <2>1. l = 0 /\ (N + 1) - l = N + 1
    BY <1>1, <1>4
  <2>2. from[1] = f.text \o from[(N + 1) - l]
    BY <1>5 DEF Reached
  <2> HIDE DEF l
  <2>3. from[N + 1] = <<>>
    BY <1>2 DEF Reads
  <2>4. f.text \o <<>> = f.text
    BY <1>4, ConcatEmptySeq
  <2> QED
    BY <2>1, <2>2, <2>3, <2>4
<1> QED
  BY <1>2, <1>4, <1>6 DEF e, f

-----------------------------------------------------------------------------
(* Texts that break off in the middle of a character.                       *)

LEMMA MalformedType ==
    ASSUME NEW d \in Decoders
    PROVE  Malformed(d) \in Decoders /\ Malformed(d).malformed = TRUE
  BY WriteIs DEF Malformed, Items

\* Errors are not forgotten.
LEMMA ErrorsStay ==
    ASSUME NEW d \in Decoders, NEW x \in Byte
    PROVE  /\ Malformed(d) \in Decoders /\ Malformed(d).malformed = TRUE
           /\ d.malformed => AddByte(d, x).malformed
<1>1. d.malformed \in BOOLEAN /\ Replacement \in Items
  BY DEF Decoders, Items
<1>2. Malformed(d) \in Decoders /\ Malformed(d).malformed = TRUE
  BY MalformedType
<1> DEFINE s == Append(d.pending, x)
<1>3. /\ s \in Items
      /\ IsCharacter(s) => AddByte(d, x) = Write(d, s, d.malformed)
      /\ ~IsCharacter(s) /\ IsPartial(s) => AddByte(d, x).malformed = d.malformed
      /\ Neither(s) => AddByte(d, x) = Write(d, Replacement, TRUE)
  BY AddIs
<1> HIDE DEF s
<1>4. Write(d, s, d.malformed).malformed = d.malformed /\ Write(d, Replacement, TRUE).malformed = TRUE
  BY <1>1, <1>3, WriteIs
<1> QED
  BY <1>2, <1>3, <1>4, Zenon DEF Neither

LEMMA ErrorsStayScanned ==
    ASSUME NEW b \in Seq(Byte), NEW c \in Seq(Byte), Scanned(b).malformed
    PROVE  Scanned(b \o c).malformed
<1> DEFINE K == {s \in Seq(Byte) : Scanned(b \o s).malformed}
<1>1. <<>> \in K
  BY EmptySeq, ConcatEmptySeq
<1>2. ASSUME NEW s \in Seq(Byte), NEW x \in Byte, s \in K PROVE Append(s, x) \in K
  <2> DEFINE e == Scanned(b \o s)
  <2>1. b \o s \in Seq(Byte) /\ b \o Append(s, x) = Append(b \o s, x) /\ Append(s, x) \in Seq(Byte)
    BY ConcatGrows, ConcatProperties, AppendProperties
  <2>2. e \in Scanners /\ Scanned(Append(b \o s, x)) = ScanByte(e, x)
    BY <2>1, ScannedIs
  <2>3. e.malformed
    BY <1>2
  <2> HIDE DEF e
  <2>4. e \in Decoders /\ Malformed(e) \in Decoders /\ Malformed(e).malformed
    BY <2>2, ErrorsStay DEF Scanners
  <2>5. ScanByte(e, x).malformed
    <3>1. CASE Fits(e, x)
      BY <2>3, <2>4, <3>1, ErrorsStay DEF ScanByte
    <3>2. CASE ~Fits(e, x)
      <4>1. AddByte(Malformed(e), x).malformed
        BY <2>4, ErrorsStay
      <4>2. ScanByte(e, x) = AddByte(Malformed(e), x)
        BY <3>2 DEF ScanByte
      <4> QED
        BY <4>1, <4>2
    <3> QED
      BY <3>1, <3>2
  <2> QED
    BY <2>1, <2>2, <2>5
<1> HIDE DEF K
<1>3. \A s \in Seq(Byte) : s \in K
  BY <1>1, <1>2, SeqInduction
<1> QED
  BY <1>3 DEF K

\* The bytes before those that are pending.
Before(b) == SubSeq(b, 1, Len(b) - Len(Scanned(b).pending))

LEMMA PendingIs ==
    ASSUME NEW b \in Seq(Byte)
    PROVE  LET n == Len(b) - Len(Scanned(b).pending) IN
           /\ n \in 0 .. Len(b) /\ Scanned(b).pending = SubSeq(b, n + 1, Len(b))
           /\ Before(b) \in Seq(Byte) /\ Len(Before(b)) = n
<1> DEFINE N == Len(b)
           l == Len(Scanned(b).pending)
           n == N - l
<1>1. N \in Nat
  BY LenProperties
<1>2. PICK from : Reads(from, b)
  BY ReadsExists
<1>3. Reached(from, b, Scanned(b), N)
  BY <1>2, ScanParses
<1>4. l \in 0 .. N /\ Scanned(b).pending = SubSeq(b, (N + 1) - l, N)
  BY <1>3 DEF Reached
<1> SUFFICES /\ n \in 0 .. N /\ Scanned(b).pending = SubSeq(b, n + 1, N)
             /\ SubSeq(b, 1, n) \in Seq(Byte) /\ Len(SubSeq(b, 1, n)) = n
  BY DEF Before
<1>5. n \in 0 .. N /\ n + 1 = (N + 1) - l /\ n \in Nat /\ n <= N /\ 1 <= n + 1 /\ 1 \in 1 .. N + 1
      /\ (n + 1) - 1 = n
  <2> HIDE DEF N, l
  <2> QED
    BY <1>1, <1>4
<1>6. SubSeq(b, 1, n) \in Seq(Byte) /\ Len(SubSeq(b, 1, n)) = (n + 1) - 1
  <2> HIDE DEF n
  <2> QED
    BY <1>5, PartIs
<1>7. Scanned(b).pending = SubSeq(b, n + 1, N)
  BY <1>4, <1>5
<1> HIDE DEF n, N
<1> QED
  BY <1>5, <1>6, <1>7

\* Two sequences that begin alike break off at the same place.
LEMMA SamePart ==
    ASSUME NEW S, NEW c \in Seq(S), NEW x \in S, NEW n \in 0 .. Len(c)
    PROVE  SubSeq(Append(c, x), 1, n) = SubSeq(c, 1, n)
<1> DEFINE b == Append(c, x)
<1>1. b \in Seq(S) /\ Len(b) = Len(c) + 1 /\ Len(c) \in Nat /\ \A i \in 1 .. Len(c) : b[i] = c[i]
  BY GrownIs
<1> HIDE DEF b
<1>2. /\ n \in Nat /\ n <= Len(b) /\ n <= Len(c) /\ 1 \in 1 .. Len(b) + 1 /\ 1 \in 1 .. Len(c) + 1
      /\ 1 <= n + 1 /\ (n + 1) - 1 = n
  <2> DEFINE N == Len(c)
  <2>1. N \in Nat /\ n \in 0 .. N /\ Len(b) = N + 1
    BY <1>1
  <2> HIDE DEF N
  <2>2. /\ n \in Nat /\ n <= N + 1 /\ n <= N /\ 1 \in 1 .. (N + 1) + 1 /\ 1 \in 1 .. N + 1
        /\ 1 <= n + 1 /\ (n + 1) - 1 = n
    BY <2>1
  <2> QED
    BY <2>1, <2>2 DEF N
<1>3. /\ SubSeq(b, 1, n) \in Seq(S) /\ Len(SubSeq(b, 1, n)) = (n + 1) - 1
      /\ \A j \in 1 .. (n + 1) - 1 : SubSeq(b, 1, n)[j] = b[(1 + j) - 1]
  BY <1>1, <1>2, PartIs
<1>4. /\ SubSeq(c, 1, n) \in Seq(S) /\ Len(SubSeq(c, 1, n)) = (n + 1) - 1
      /\ \A j \in 1 .. (n + 1) - 1 : SubSeq(c, 1, n)[j] = c[(1 + j) - 1]
  BY <1>2, PartIs
<1>5. ASSUME NEW j \in 1 .. n PROVE SubSeq(b, 1, n)[j] = SubSeq(c, 1, n)[j]
  <2>1. (1 + j) - 1 = j /\ j \in 1 .. (n + 1) - 1
    BY <1>2
  <2>2. j \in 1 .. Len(c)
    BY <1>1, <1>2
  <2> QED
    BY <1>1, <1>3, <1>4, <2>1, <2>2
<1> QED
  BY <1>2, <1>3, <1>4, <1>5, SeqEqual DEF b

\* Up to there, all at once gives what the scan has written.
LEMMA BeforeIs ==
    ASSUME NEW b \in Seq(Byte) PROVE Characters(Before(b)) = Scanned(b).text
<1> DEFINE K == {s \in Seq(Byte) : Characters(Before(s)) = Scanned(s).text}
<1>1. ASSUME NEW s \in Seq(Byte), Scanned(s).pending = <<>> PROVE s \in K
  <2>1. Len(s) - 0 = Len(s)
    BY LenProperties
  <2>2. Before(s) = SubSeq(s, 1, Len(s))
    BY <1>1, <2>1 DEF Before
  <2>3. Before(s) = s
    BY <2>2, SubSeqFull
  <2>4. Characters(s) = Finish(Scanned(s)).text
    BY CharactersAre
  <2>5. Finish(Scanned(s)) = Scanned(s)
    BY <1>1 DEF Finish
  <2> QED
    BY <2>3, <2>4, <2>5
<1>2. <<>> \in K
  <2>1. Scanned(<<>>) = Blank
    BY EmptySeq, ScannedIs
  <2> QED
    BY <1>1, <2>1, EmptySeq, BlankIs
<1>3. ASSUME NEW c \in Seq(Byte), NEW x \in Byte, c \in K PROVE Append(c, x) \in K
  <2> DEFINE grown == Append(c, x)
             e == Scanned(c)
             g == IF Fits(e, x) THEN e ELSE Malformed(e)
             s == Append(g.pending, x)
             f == Scanned(grown)
             n == Len(c)
  <2> SUFFICES grown \in K
    OBVIOUS
  <2>1. grown \in Seq(Byte) /\ Len(grown) = n + 1 /\ n \in Nat
    BY GrownIs
  <2>2. e \in Scanners /\ f = AddByte(g, x)
    BY ScannedIs DEF ScanByte
  <2>3. g \in Scanners
    BY <2>2, MalformedScans
  <2>4. g.pending \in Seq(Byte)
    BY <2>3 DEF Scanners, Decoders, Pendings
  <2>5. Len(s) = Len(g.pending) + 1
    BY <2>4, GrownIs
  <2>6. /\ IsCharacter(s) => f.pending = <<>>
        /\ ~IsCharacter(s) /\ IsPartial(s) => f.pending = s /\ f.text = g.text
        /\ Neither(s) => f.pending = <<>>
    <3> HIDE DEF g
    <3> QED
      BY <2>2, <2>3, AddScans
  <2>7. CASE f.pending = <<>>
    <3> HIDE DEF grown, K
    <3> QED
      BY <1>1, <2>1, <2>7
  <2>8. CASE f.pending # <<>>
    <3>1. f.pending = s /\ f.text = g.text
      BY <2>6, <2>8 DEF Neither
    <3> DEFINE l == Len(g.pending)
               m == Len(e.pending)
    <3>2. Before(grown) = SubSeq(grown, 1, n - l)
      <4>1. Before(grown) = SubSeq(grown, 1, Len(grown) - Len(f.pending))
        BY DEF Before
      <4>2. Len(f.pending) = l + 1 /\ l \in Nat
        BY <2>4, <2>5, <3>1, LenProperties
      <4> HIDE DEF l, f, grown, n
      <4>3. (n + 1) - (l + 1) = n - l
        BY <2>1, <4>2
      <4> QED
        BY <2>1, <4>1, <4>2, <4>3
    <3>3. n - m \in 0 .. n
      BY PendingIs
    <3>4. CASE Fits(e, x)
      <4>1. g = e
        BY <3>4
      <4>2. Before(grown) = SubSeq(c, 1, n - m)
        BY <3>2, <3>3, <4>1, SamePart
      <4>3. Before(grown) = Before(c)
        BY <4>2 DEF Before
      <4> HIDE DEF grown, e, g, f
      <4>4. Characters(Before(c)) = e.text
        BY <1>3 DEF e
      <4> QED
        BY <2>1, <3>1, <4>1, <4>3, <4>4 DEF f
    <3>5. CASE ~Fits(e, x)
      <4>1. g = Malformed(e) /\ e.pending # <<>>
        BY <3>5 DEF Fits
      <4>2. l = 0
        BY <2>2, <4>1, MalformedScans
      <4>3. n - l = n /\ n \in 0 .. n
        BY <2>1, <4>2
      <4>4. Before(grown) = SubSeq(c, 1, n)
        BY <3>2, <4>3, SamePart
      <4>5. Before(grown) = c
        BY <4>4, SubSeqFull
      <4>6. Characters(c) = Finish(e).text
        BY CharactersAre
      <4>7. Finish(e) = g
        BY <4>1 DEF Finish
      <4> HIDE DEF grown, e, g, f
      <4> QED
        BY <2>1, <3>1, <4>5, <4>6, <4>7 DEF f
    <3> QED
      BY <3>4, <3>5
  <2> QED
    BY <2>7, <2>8
<1> HIDE DEF K
<1>4. \A s \in Seq(Byte) : s \in K
  BY <1>2, <1>3, SeqInduction
<1> QED
  BY <1>4 DEF K

LEMMA ShortSeqs ==
    ASSUME NEW S, NEW s \in Seq(S)
    PROVE  /\ Len(s) = 1 => s = <<s[1]>>
           /\ Len(s) = 2 => s = <<s[1], s[2]>>
           /\ Len(s) = 3 => s = <<s[1], s[2], s[3]>>
           /\ \A x \in S : s = <<x>> => \A y \in S : Append(s, y) = <<x, y>>
<1>1. \A i \in 1 .. Len(s) : s[i] \in S
  BY ElementOfSeq
<1>2. ASSUME Len(s) = 1 PROVE s = <<s[1]>>
  <2> DEFINE t == <<s[1]>>
  <2>1. t \in Seq(S) /\ Len(t) = 1 /\ t[1] = s[1]
    BY <1>1, <1>2
  <2> HIDE DEF t
  <2>2. s = t
    BY <1>2, <2>1, SeqEqual
  <2> QED
    BY <2>2 DEF t
<1>3. ASSUME Len(s) = 2 PROVE s = <<s[1], s[2]>>
  <2> DEFINE t == <<s[1], s[2]>>
  <2>1. t \in Seq(S) /\ Len(t) = 2 /\ t[1] = s[1] /\ t[2] = s[2]
    BY <1>1, <1>3
  <2> HIDE DEF t
  <2>2. s = t
    BY <1>3, <2>1, SeqEqual
  <2> QED
    BY <2>2 DEF t
<1>4. ASSUME Len(s) = 3 PROVE s = <<s[1], s[2], s[3]>>
  <2> DEFINE t == <<s[1], s[2], s[3]>>
  <2>1. t \in Seq(S) /\ Len(t) = 3 /\ t[1] = s[1] /\ t[2] = s[2] /\ t[3] = s[3]
    BY <1>1, <1>4
  <2> HIDE DEF t
  <2>2. s = t
    BY <1>4, <2>1, SeqEqual
  <2> QED
    BY <2>2 DEF t
<1>5. ASSUME NEW x \in S, s = <<x>>, NEW y \in S PROVE Append(s, y) = <<x, y>>
  <2> DEFINE t == <<x, y>>
             r == Append(s, y)
  <2>1. t \in Seq(S) /\ Len(t) = 2 /\ t[1] = x /\ t[2] = y
    OBVIOUS
  <2>2. Len(s) = 1 /\ s[1] = x
    BY <1>5
  <2>3. r \in Seq(S) /\ Len(r) = 2 /\ r[1] = x /\ r[2] = y
    <3>1. r \in Seq(S) /\ Len(r) = Len(s) + 1 /\ r[Len(s) + 1] = y /\ \A i \in 1 .. Len(s) : r[i] = s[i]
      BY GrownIs
    <3>2. 1 \in 1 .. Len(s) /\ Len(s) + 1 = 2
      BY <2>2
    <3> QED
      BY <2>2, <3>1, <3>2
  <2> HIDE DEF t, r
  <2>4. r = t
    BY <2>1, <2>3, SeqEqual
  <2> QED
    BY <2>4 DEF t, r
<1> QED
  BY <1>2, <1>3, <1>4, <1>5

\* A byte that begins a character is pending, whatever came before it, and so is one
\* that goes on with it.
LEMMA LeadsArePending ==
    ASSUME NEW e \in Scanners, NEW x \in Byte
    PROVE  /\ x \in {"C3", "EF"} => ScanByte(e, x).pending = <<x>>
           /\ e.pending = <<"EF">> /\ x \in Continuation => ScanByte(e, x).pending = <<"EF", x>>
<1> DEFINE g == IF Fits(e, x) THEN e ELSE Malformed(e)
           s == Append(g.pending, x)
<1>1. g \in Scanners /\ (~Fits(e, x) => g.pending = <<>>) /\ (Fits(e, x) => g = e)
  BY MalformedScans
<1>2. g.pending \in Seq(Byte) /\ e.pending \in Seq(Byte)
  BY <1>1 DEF Scanners, Decoders, Pendings
<1>3. ScanByte(e, x) = AddByte(g, x)
  BY DEF ScanByte
<1> HIDE DEF g
<1>4. ~IsCharacter(s) /\ IsPartial(s) => ScanByte(e, x).pending = s
  BY <1>1, <1>3, AddScans
<1>5. ASSUME x \in {"C3", "EF"} PROVE ScanByte(e, x).pending = <<x>>
  <2>1. g.pending = <<>>
    <3> SUFFICES ASSUME Fits(e, x), e.pending # <<>> PROVE FALSE
      BY <1>1
    <3> DEFINE p == e.pending
               t == Append(p, x)
    <3>1. IsCharacter(t) \/ IsPartial(t)
      BY DEF Fits
    <3>2. /\ t \in Seq(Byte) /\ Len(t) = Len(p) + 1 /\ Len(p) \in Nat /\ t[Len(p) + 1] = x
          /\ Len(p) # 0
      BY <1>2, GrownIs, EmptySeq
    <3> DEFINE n == Len(p)
    <3> HIDE DEF p, t
    <3>3. n \in Nat \ {0} /\ Len(t) = n + 1 /\ t[n + 1] = x
      BY <3>2
    <3> HIDE DEF n
    <3>4. x \notin Continuation /\ x # "61"
      BY <1>5 DEF Continuation
    <3>5. n = 1 \/ n = 2
      BY <3>1, <3>3 DEF IsCharacter, IsPartial
    <3> QED
      BY <3>1, <3>3, <3>4, <3>5 DEF IsCharacter, IsPartial
  <2>2. s = <<x>>
    BY <2>1
  <2>3. ~IsCharacter(s) /\ IsPartial(s)
    BY <1>5, <2>2 DEF IsCharacter, IsPartial
  <2> QED
    BY <1>4, <2>2, <2>3
<1>6. ASSUME e.pending = <<"EF">>, x \in Continuation PROVE ScanByte(e, x).pending = <<"EF", x>>
  <2>1. Append(e.pending, x) = <<"EF", x>>
    <3> DEFINE p == e.pending
    <3>1. p \in Seq(Byte) /\ p = <<"EF">> /\ "EF" \in Byte
      BY <1>2, <1>6 DEF Byte
    <3> HIDE DEF p
    <3>2. Append(p, x) = <<"EF", x>>
      BY <3>1, ShortSeqs
    <3> QED
      BY <3>2 DEF p
  <2>2. IsPartial(<<"EF", x>>) /\ ~IsCharacter(<<"EF", x>>)
    BY <1>6 DEF IsCharacter, IsPartial, Continuation
  <2>3. Fits(e, x)
    BY <2>1, <2>2 DEF Fits
  <2>4. s = <<"EF", x>>
    BY <1>1, <2>1, <2>3
  <2> QED
    BY <1>4, <2>2, <2>4
<1> QED
  BY <1>5, <1>6

\* So a character that has only begun at the end of a text is what is pending.
LEMMA PartialSuffix ==
    ASSUME NEW b \in Seq(Byte), NEW m \in 1 .. Len(b), IsPartial(SubSeq(b, m, Len(b)))
    PROVE  Scanned(b).pending = SubSeq(b, m, Len(b))
<1> DEFINE N == Len(b)
           s == SubSeq(b, m, N)
           l == Len(s)
<1>1. N \in Nat /\ N > 0
  BY LenProperties
<1>2. /\ s \in Seq(Byte) /\ l = (N + 1) - m /\ \A j \in 1 .. (N + 1) - m : s[j] = b[(m + j) - 1]
  <2>1. m \in 1 .. N + 1 /\ N <= N /\ m <= N + 1
    BY <1>1
  <2> QED
    BY <1>1, <2>1, PartIs
<1>3. /\ l \in 1 .. 2 /\ (l = 1 => s[1] \in {"C3", "EF"})
      /\ (l = 2 => s[1] = "EF" /\ s[2] \in Continuation)
  BY DEF IsPartial
<1>4. \A c \in Seq(Byte) : c # <<>> => \E d \in Seq(Byte), x \in Byte : c = Append(d, x)
  BY SequenceEmptyOrAppend
<1>5. b # <<>>
  BY <1>1
<1>6. PICK c \in Seq(Byte), x \in Byte : b = Append(c, x)
  BY <1>4, <1>5
<1>7. N = Len(c) + 1 /\ Len(c) \in Nat /\ b[Len(c) + 1] = x /\ \A i \in 1 .. Len(c) : b[i] = c[i]
  BY <1>6, GrownIs
<1>8. Scanned(c) \in Scanners /\ Scanned(b) = ScanByte(Scanned(c), x)
  BY <1>6, ScannedIs
<1> DEFINE M == Len(c)
<1> SUFFICES Scanned(b).pending = s
  OBVIOUS
<1> HIDE DEF N, s, l
<1>9. CASE l = 1
  <2>1. m = N /\ (m + 1) - 1 = N /\ 1 \in 1 .. (N + 1) - m
    BY <1>1, <1>2, <1>9
  <2>2. s[1] = x
    BY <1>2, <1>7, <2>1
  <2>3. s = <<x>>
    BY <1>2, <1>9, <2>2, ShortSeqs DEF l
  <2>4. x \in {"C3", "EF"}
    BY <1>3, <1>9, <2>2
  <2> QED
    BY <1>8, <2>3, <2>4, LeadsArePending
<1>10. CASE l = 2
  <2>1. m = M /\ m = N - 1 /\ (m + 1) - 1 = M /\ (m + 2) - 1 = N /\ 1 \in 1 .. (N + 1) - m
        /\ 2 \in 1 .. (N + 1) - m /\ M \in 1 .. M
    <3> HIDE DEF M
    <3>1. m \in 1 .. N /\ N = M + 1 /\ M \in Nat
      BY <1>7 DEF N, M
    <3> QED
      BY <1>1, <1>2, <1>10, <3>1
  <2>2. s[1] = c[M] /\ s[2] = x
    BY <1>2, <1>7, <2>1
  <2>3. c # <<>>
    <3>1. M # 0
      BY <2>1
    <3> QED
      BY <3>1
  <2>4. PICK d \in Seq(Byte), y \in Byte : c = Append(d, y)
    BY <1>4, <2>3
  <2>5. M = Len(d) + 1 /\ c[Len(d) + 1] = y
    BY <2>4, GrownIs
  <2>6. y = "EF" /\ x \in Continuation
    BY <1>3, <1>10, <2>2, <2>5
  <2>7. s = <<"EF", x>>
    BY <1>2, <1>10, <2>2, <2>5, <2>6, ShortSeqs DEF l
  <2>8. Scanned(d) \in Scanners /\ Scanned(c) = ScanByte(Scanned(d), y)
    BY <2>4, ScannedIs
  <2>9. Scanned(c).pending = <<"EF">>
    BY <2>6, <2>8, LeadsArePending
  <2> QED
    BY <1>8, <2>6, <2>7, <2>9, LeadsArePending
<1> QED
  BY <1>3, <1>9, <1>10

\* What the scan reports is what the text of all bytes shows.
LEMMA MalformedIs ==
    ASSUME NEW b \in Seq(Byte)
    PROVE  IsMalformed(b) <=> Finish(Scanned(b)).malformed
<1> DEFINE f == Finish(Scanned(b))
<1>1. f \in Scanners /\ Characters(b) = f.text
  BY CharactersAre
<1> HIDE DEF f
<1>2. f.malformed <=> Spoils(f)
  BY <1>1 DEF Scanners
<1>3. IsMalformed(b) <=> Spoils(f)
  BY <1>1, Zenon DEF IsMalformed, Spoils
<1> QED
  BY <1>2, <1>3 DEF f

\* What is decided of a text that goes on is what the scan has written.
LEMMA DecidedIs ==
    ASSUME NEW b \in Seq(Byte)
    PROVE  /\ Decided(b) \in Seq(Byte) /\ Characters(Decided(b)) = Scanned(b).text
           /\ IsMalformed(Decided(b)) <=> Scanned(b).malformed
<1> DEFINE N == Len(b)
           e == Scanned(b)
           l == Len(e.pending)
           k == N - l
           Begun(n) == /\ IsPartial(SubSeq(b, n, N))
                       /\ Characters(Prefix(b, n - 1)) \o <<Replacement>> = Characters(b)
           begun == {n \in 1 .. N : Begun(n)}
<1>1. Decided(b) = IF begun = {} THEN b ELSE Prefix(b, Min(begun) - 1)
  BY DEF Decided
<1>2. e \in Scanners /\ N \in Nat
  BY ScannedIs, LenProperties
<1>3. k \in 0 .. N /\ e.pending = SubSeq(b, k + 1, N) /\ Before(b) \in Seq(Byte)
  BY PendingIs
<1>4. e.pending \in Seq(Byte) /\ l \in Nat /\ e.text \in Seq(Items)
  BY <1>2, LenProperties DEF Scanners, Decoders, Pendings
<1>5. Before(b) = SubSeq(b, 1, k)
  BY DEF Before
<1>6. Characters(Before(b)) = e.text
  BY BeforeIs
<1>7. \A n \in begun : e.pending = SubSeq(b, n, N) /\ IsPartial(e.pending)
  BY PartialSuffix
<1> HIDE DEF e
<1>8. Decided(b) = Before(b) /\ Characters(Decided(b)) = e.text
  <2>1. CASE e.pending = <<>>
    <3>1. begun = {}
      <4>1. ~IsPartial(e.pending)
        BY <2>1 DEF IsPartial
      <4> HIDE DEF begun
      <4> QED
        BY <1>7, <4>1
    <3>2. Decided(b) = b
      BY <1>1, <3>1
    <3>3. l = 0
      BY <2>1
    <3>4. k = N
      BY <1>2, <3>3
    <3>5. SubSeq(b, 1, N) = b
      BY SubSeqFull
    <3>6. Before(b) = b
      <4> HIDE DEF k, N
      <4> QED
        BY <1>5, <3>4, <3>5
    <3> QED
      BY <1>6, <3>2, <3>6
  <2>2. CASE e.pending # <<>>
    <3>1. IsPartial(e.pending) /\ l # 0
      BY <1>2, <1>4, <2>2, EmptySeq DEF Scanners, Decoders, Pendings
    <3>2. k + 1 \in 1 .. N /\ (k + 1) - 1 = k
      <4> HIDE DEF N, l
      <4> QED
        BY <1>2, <1>3, <1>4, <3>1
    <3>3. Characters(b) = Append(e.text, Replacement)
      <4>1. Characters(b) = Finish(e).text
        BY CharactersAre DEF e
      <4>2. Finish(e) = Malformed(e)
        BY <2>2 DEF Finish
      <4> QED
        BY <1>2, <4>1, <4>2, MalformedScans
    <3>4. Append(e.text, Replacement) = e.text \o <<Replacement>>
      BY <1>4, AppendIsConcat DEF Items
    <3>5. Prefix(b, (k + 1) - 1) = Before(b)
      BY <1>5, <3>2 DEF Prefix
    <3>6. Begun(k + 1)
      BY <1>3, <1>6, <3>1, <3>3, <3>4, <3>5
    <3>7. k + 1 \in begun
      BY <3>2, <3>6
    <3>8. ASSUME NEW n \in begun PROVE n = k + 1
      <4>1. n \in 1 .. N /\ e.pending = SubSeq(b, n, N)
        BY <1>7, <3>8
      <4>2. l = (N + 1) - n
        <5>1. n \in 1 .. N + 1 /\ N <= N /\ n <= N + 1
          <6> HIDE DEF N
          <6> QED
            BY <1>2, <4>1
        <5>2. Len(SubSeq(b, n, N)) = (N + 1) - n
          BY <1>2, <5>1, PartIs
        <5> QED
          BY <4>1, <5>2
      <4> HIDE DEF N, l
      <4> QED
        BY <1>2, <1>4, <4>1, <4>2
    <3> HIDE DEF begun, k, N
    <3>9. begun = {k + 1}
      BY <3>7, <3>8
    <3>10. Min(begun) = k + 1
      <4>1. begun \subseteq Nat
        BY <3>2, <3>9
      <4>2. Min(begun) \in begun
        BY <3>7, <4>1, MinProperty
      <4> QED
        BY <3>8, <4>2
    <3>11. Decided(b) = Prefix(b, (k + 1) - 1)
      BY <1>1, <3>7, <3>10
    <3> QED
      BY <1>6, <3>5, <3>11
  <2> QED
    BY <2>1, <2>2
<1>9. IsMalformed(Decided(b)) <=> Spoils(e)
  BY <1>8, Zenon DEF IsMalformed, Spoils
<1>10. e.malformed <=> Spoils(e)
  BY <1>2 DEF Scanners
<1> QED
  BY <1>3, <1>8, <1>9, <1>10 DEF e

-----------------------------------------------------------------------------
(* A native decoder does the same, but for the BOM and after an error.       *)

\* Without a BOM at the beginning, unless it is to be kept.
Strip(t) == IF ~ignoreBOM /\ t # <<>> /\ t[1] = BOM THEN Tail(t) ELSE t

LEMMA StripGrows ==
    ASSUME NEW t \in Seq(Items), NEW x \in Items
    PROVE  /\ Strip(t) \in Seq(Items) /\ Strip(<<>>) = <<>>
           /\ ~ignoreBOM /\ t = <<>> /\ x = BOM => Strip(Append(t, x)) = <<>>
           /\ ~(~ignoreBOM /\ t = <<>> /\ x = BOM) => Strip(Append(t, x)) = Append(Strip(t), x)
<1> DEFINE r == Append(t, x)
           n == Len(t)
<1>1. Strip(t) \in Seq(Items)
  <2>1. t # <<>> => Tail(t) \in Seq(Items)
    BY HeadTailProperties
  <2> QED
    BY <2>1 DEF Strip
<1>2. Strip(<<>>) = <<>>
  BY DEF Strip
<1>3. /\ r \in Seq(Items) /\ Len(r) = n + 1 /\ n \in Nat /\ r[n + 1] = x /\ r # <<>>
      /\ \A i \in 1 .. n : r[i] = t[i]
  BY GrownIs
<1>4. r # <<>> /\ Strip(r) = IF ~ignoreBOM /\ r[1] = BOM THEN Tail(r) ELSE r
  BY <1>3 DEF Strip
<1>5. CASE t = <<>>
  <2>1. n = 0 /\ n + 1 = 1
    BY <1>5
  <2>2. r[1] = x
    BY <1>3, <2>1
  <2>3. Tail(r) = <<>>
    BY <1>5, HeadTailAppend
  <2>4. Strip(t) = t
    BY <1>2, <1>5
  <2> HIDE DEF r
  <2>5. ~ignoreBOM /\ x = BOM => Strip(r) = <<>>
    BY <1>4, <2>2, <2>3
  <2>6. ~(~ignoreBOM /\ x = BOM) => Strip(r) = r
    BY <1>4, <2>2
  <2> QED
    BY <1>1, <1>2, <1>5, <2>4, <2>5, <2>6 DEF r
<1>6. CASE t # <<>>
  <2>1. n # 0
    BY <1>6, EmptySeq
  <2>2. r[1] = t[1]
    BY <1>3, <2>1
  <2>3. Tail(r) = Append(Tail(t), x)
    BY <1>6, HeadTailAppend
  <2>4. Strip(t) = IF ~ignoreBOM /\ t[1] = BOM THEN Tail(t) ELSE t
    BY <1>6 DEF Strip
  <2>5. r = Append(t, x)
    OBVIOUS
  <2> HIDE DEF r
  <2>6. Strip(r) = Append(Strip(t), x)
    BY <1>4, <2>2, <2>3, <2>4, <2>5
  <2> QED
    BY <1>1, <1>2, <1>6, <2>6 DEF r
<1> QED
  BY <1>5, <1>6

\* The decoder d has written what, after the text T, is that of the scan e; after an
\* error that is fatal it only knows that there was one.
Tracks(d, e, T) ==
    /\ d.pending = e.pending
    /\ d.atStart <=> ~ignoreBOM /\ e.text = <<>>
    /\ T \o d.text = Strip(e.text)
    /\ fatal => ~d.malformed
Follows(d, e, T) == IF fatal /\ e.malformed THEN d.malformed ELSE Tracks(d, e, T)

\* What is kept of a decoder from one call to the next.
Kepts == [pending : Pendings, atStart : BOOLEAN]

LEMMA WriteFollows ==
    ASSUME NEW d \in Decoders, NEW e \in Scanners, NEW T \in Seq(Items), Tracks(d, e, T),
           NEW char \in Items, NEW m \in BOOLEAN, NEW n \in BOOLEAN, fatal => (m <=> n)
    PROVE  Follows(Write(d, char, m), Write(e, char, n), T)
<1> DEFINE f == Write(d, char, m)
           g == Write(e, char, n)
<1>1. /\ f.pending = <<>> /\ f.atStart = FALSE /\ f.malformed = m
      /\ f.text = IF d.atStart /\ char = BOM THEN d.text ELSE Append(d.text, char)
  BY WriteIs
<1>2. e \in Decoders /\ ~e.atStart /\ e.text \in Seq(Items) /\ d.text \in Seq(Items)
  BY DEF Scanners, Decoders
<1>3. /\ g.pending = <<>> /\ g.malformed = n /\ g.text = Append(e.text, char)
  BY <1>2, WriteIs
<1>4. (d.atStart <=> ~ignoreBOM /\ e.text = <<>>) /\ T \o d.text = Strip(e.text)
  BY DEF Tracks
<1>5. g.text # <<>>
  BY <1>2, <1>3, GrownIs
<1>6. T \o f.text = Strip(g.text)
  <2>1. CASE d.atStart /\ char = BOM
    <3>1. ~ignoreBOM /\ e.text = <<>> /\ f.text = d.text
      BY <1>1, <1>4, <2>1
    <3>2. Strip(g.text) = <<>> /\ Strip(e.text) = <<>>
      <4> HIDE DEF f, g
      <4>1. Strip(Append(e.text, char)) = <<>> /\ Strip(<<>>) = <<>>
        BY <1>2, <2>1, <3>1, StripGrows
      <4> QED
        BY <1>3, <3>1, <4>1
    <3> QED
      BY <1>4, <3>1, <3>2
  <2>2. CASE ~(d.atStart /\ char = BOM)
    <3>1. f.text = Append(d.text, char)
      BY <1>1, <2>2
    <3>2. Strip(g.text) = Append(Strip(e.text), char)
      BY <1>2, <1>3, <1>4, <2>2, StripGrows
    <3>3. T \o Append(d.text, char) = Append(T \o d.text, char)
      BY <1>2, ConcatGrows
    <3> QED
      BY <1>4, <3>1, <3>2, <3>3
  <2> QED
    BY <2>1, <2>2
<1> SUFFICES Follows(f, g, T)
  OBVIOUS
<1> HIDE DEF f, g
<1>7. CASE fatal /\ n
  BY <1>1, <1>3, <1>7 DEF Follows
<1>8. CASE ~(fatal /\ n)
  <2>1. (f.atStart <=> ~ignoreBOM /\ g.text = <<>>) /\ (fatal => ~f.malformed)
    BY <1>1, <1>5, <1>8
  <2>2. f.pending = g.pending
    BY <1>1, <1>3
  <2>3. Tracks(f, g, T)
    BY <1>6, <2>1, <2>2 DEF Tracks
  <2> QED
    BY <1>3, <1>8, <2>3 DEF Follows
<1> QED
  BY <1>7, <1>8

LEMMA MalformedFollows ==
    ASSUME NEW d \in Decoders, NEW e \in Scanners, NEW T \in Seq(Items), Tracks(d, e, T)
    PROVE  Follows(Malformed(d), Malformed(e), T)
  BY WriteFollows DEF Malformed, Items

LEMMA AddFollows ==
    ASSUME NEW d \in Decoders, NEW e \in Scanners, NEW T \in Seq(Items), Tracks(d, e, T),
           ~(fatal /\ e.malformed), NEW x \in Byte
    PROVE  Follows(AddByte(d, x), AddByte(e, x), T)
<1> DEFINE s == Append(e.pending, x)
           f == AddByte(d, x)
           g == AddByte(e, x)
<1>1. e \in Decoders /\ d.malformed \in BOOLEAN /\ e.malformed \in BOOLEAN
  BY DEF Scanners, Decoders
<1>2. s = Append(d.pending, x) /\ (fatal => (d.malformed <=> e.malformed))
  BY DEF Tracks
<1>3. /\ s \in Items /\ Replacement \in Items
      /\ IsCharacter(s) => f = Write(d, s, d.malformed) /\ g = Write(e, s, e.malformed)
      /\ Neither(s) => f = Write(d, Replacement, TRUE) /\ g = Write(e, Replacement, TRUE)
  BY <1>1, <1>2, AddIs
<1>4. ~IsCharacter(s) /\ IsPartial(s) =>
        /\ f.pending = s /\ f.atStart = d.atStart /\ f.text = d.text /\ f.malformed = d.malformed
        /\ g.pending = s /\ g.text = e.text /\ g.malformed = e.malformed
  BY <1>1, <1>2, AddIs
<1> HIDE DEF s, f, g
<1>5. CASE IsCharacter(s)
  <2>1. Follows(Write(d, s, d.malformed), Write(e, s, e.malformed), T)
    BY <1>1, <1>2, <1>3, WriteFollows
  <2> QED
    BY <1>3, <1>5, <2>1 DEF f, g
<1>6. CASE Neither(s)
  <2>1. Follows(Write(d, Replacement, TRUE), Write(e, Replacement, TRUE), T)
    BY <1>3, WriteFollows
  <2> QED
    BY <1>3, <1>6, <2>1 DEF f, g
<1>7. CASE ~IsCharacter(s) /\ IsPartial(s)
  <2>1. Tracks(f, g, T)
    BY <1>4, <1>7 DEF Tracks
  <2>2. ~(fatal /\ g.malformed)
    BY <1>4, <1>7
  <2> QED
    BY <2>1, <2>2 DEF Follows, f, g
<1> QED
  BY <1>5, <1>6, <1>7 DEF Neither

LEMMA TakeFollows ==
    ASSUME NEW d \in Decoders, NEW e \in Scanners, NEW T \in Seq(Items), Follows(d, e, T),
           NEW x \in Byte
    PROVE  Follows(TakeByte(d, x), ScanByte(e, x), T)
<1> DEFINE f == IF Fits(d, x) THEN d ELSE Malformed(d)
           g == IF Fits(e, x) THEN e ELSE Malformed(e)
<1>1. TakeByte(d, x) = IF fatal /\ f.malformed THEN f ELSE AddByte(f, x)
  BY DEF TakeByte
<1>2. ScanByte(e, x) = AddByte(g, x)
  BY DEF ScanByte
<1>3. f \in Decoders /\ (d.malformed => f.malformed)
  BY ErrorsStay
<1>4. g \in Scanners /\ g \in Decoders /\ (e.malformed => g.malformed)
  BY MalformedScans, ErrorsStay DEF Scanners
<1>5. Follows(f, g, T)
  <2>1. CASE fatal /\ e.malformed
    <3>1. f.malformed /\ g.malformed
      BY <1>3, <1>4, <2>1 DEF Follows
    <3> HIDE DEF f, g
    <3> QED
      BY <2>1, <3>1 DEF Follows
  <2>2. CASE ~(fatal /\ e.malformed)
    <3>1. Tracks(d, e, T)
      BY <2>2 DEF Follows
    <3>2. Fits(d, x) <=> Fits(e, x)
      BY <3>1 DEF Tracks, Fits
    <3>3. CASE Fits(e, x)
      BY <3>2, <3>3
    <3>4. CASE ~Fits(e, x)
      <4>1. Follows(Malformed(d), Malformed(e), T)
        BY <3>1, MalformedFollows
      <4> QED
        BY <3>2, <3>4, <4>1
    <3> QED
      BY <3>3, <3>4
  <2> QED
    BY <2>1, <2>2
<1> HIDE DEF f, g
<1>6. CASE fatal /\ g.malformed
  <2>1. f.malformed
    BY <1>5, <1>6 DEF Follows
  <2>2. TakeByte(d, x) = f
    BY <1>1, <1>6, <2>1
  <2>3. AddByte(g, x).malformed
    BY <1>4, <1>6, ErrorsStay
  <2> QED
    BY <1>2, <1>6, <2>1, <2>2, <2>3 DEF Follows
<1>7. CASE ~(fatal /\ g.malformed)
  <2>1. Tracks(f, g, T)
    BY <1>5, <1>7 DEF Follows
  <2>2. ~(fatal /\ f.malformed)
    BY <2>1 DEF Tracks
  <2>3. TakeByte(d, x) = AddByte(f, x)
    BY <1>1, <2>2
  <2>4. Follows(AddByte(f, x), AddByte(g, x), T)
    BY <1>3, <1>4, <1>7, <2>1, AddFollows
  <2> QED
    BY <1>2, <2>3, <2>4
<1> QED
  BY <1>6, <1>7

LEMMA TakeType ==
    ASSUME NEW d \in Decoders, NEW x \in Byte PROVE TakeByte(d, x) \in Decoders
<1> DEFINE f == IF Fits(d, x) THEN d ELSE Malformed(d)
<1>1. TakeByte(d, x) = IF fatal /\ f.malformed THEN f ELSE AddByte(f, x)
  BY DEF TakeByte
<1>2. f \in Decoders
  BY ErrorsStay
<1> HIDE DEF f
<1>3. AddByte(f, x) \in Decoders
  BY <1>2, AddIs
<1> QED
  BY <1>1, <1>2, <1>3

\* Run takes the bytes one after the other.
LEMMA AtWorkIs ==
    ASSUME NEW k \in Kepts
    PROVE  /\ AtWork(k) \in Decoders /\ AtWork(k).pending = k.pending /\ AtWork(k).text = <<>>
           /\ AtWork(k).atStart = k.atStart /\ AtWork(k).malformed = FALSE
<1> DEFINE t == <<>>
           d == [pending |-> k.pending, atStart |-> k.atStart, text |-> t, malformed |-> FALSE]
<1>1. AtWork(k) = d
  BY DEF AtWork
<1>2. k.pending \in Pendings /\ k.atStart \in BOOLEAN /\ t \in Seq(Items)
  BY EmptySeq DEF Kepts
<1> HIDE DEF t
<1>3. d \in Decoders /\ d.pending = k.pending /\ d.text = t
  BY <1>2 DEF Decoders
<1>4. d.atStart = k.atStart /\ d.malformed = FALSE
  BY Zenon
<1> QED
  BY <1>1, <1>3, <1>4 DEF t

Steps(f, k, c) ==
    /\ f \in [0 .. Len(c) -> Decoders] /\ f[0] = AtWork(k)
    /\ \A n \in 1 .. Len(c) : f[n] = TakeByte(f[n - 1], c[n])

LEMMA RunIs ==
    ASSUME NEW k \in Kepts, NEW c \in Seq(Byte)
    PROVE  \E f : /\ Steps(f, k, c)
                  /\ \A last \in BOOLEAN : Run(k, c, last) =
                       IF last /\ f[Len(c)].pending # <<>> THEN Malformed(f[Len(c)]) ELSE f[Len(c)]
<1> DEFINE N == Len(c)
           R(f) == f = [n \in 0 .. N |-> IF n = 0 THEN AtWork(k) ELSE TakeByte(f[n - 1], c[n])]
           after == CHOOSE f : R(f)
           G == [p \in (1 .. N) \X Decoders |-> TakeByte(p[2], c[p[1]])]
<1>1. N \in Nat /\ \A n \in 1 .. N : c[n] \in Byte
  BY LenProperties, ElementOfSeq
<1>2. \A last \in BOOLEAN : Run(k, c, last) =
         IF last /\ after[N].pending # <<>> THEN Malformed(after[N]) ELSE after[N]
  BY Zenon DEF Run
<1>3. \A n \in 1 .. N, d \in Decoders : G[<<n, d>>] = TakeByte(d, c[n])
  OBVIOUS
<1> HIDE DEF G, N
<1>4. ASSUME NEW n \in 1 .. N, NEW d \in Decoders PROVE G[<<n, d>>] \in Decoders
  <2>1. TakeByte(d, c[n]) \in Decoders
    BY <1>1, TakeType
  <2> QED
    BY <1>3, <2>1
<1>5. AtWork(k) \in Decoders
  BY AtWorkIs
<1>6. PICK g : Computes(g, N, Decoders, AtWork(k), G)
  BY <1>1, <1>4, <1>5, RecursionExists
<1>7. g \in [0 .. N -> Decoders] /\ g[0] = AtWork(k) /\ \A n \in 1 .. N : g[n] = G[<<n, g[n - 1]>>]
  BY <1>6 DEF Computes
<1>8. ASSUME NEW n \in 1 .. N PROVE g[n] = TakeByte(g[n - 1], c[n])
  <2>1. n - 1 \in 0 .. N
    BY <1>1
  <2>2. g[n - 1] \in Decoders /\ g[n] = G[<<n, g[n - 1]>>]
    BY <1>7, <2>1
  <2> QED
    BY <1>3, <2>2
<1>9. R(g)
  <2>1. g = [n \in 0 .. N |-> g[n]]
    BY <1>7
  <2>2. ASSUME NEW n \in 0 .. N
        PROVE  g[n] = IF n = 0 THEN AtWork(k) ELSE TakeByte(g[n - 1], c[n])
    <3>1. CASE n = 0
      BY <1>7, <3>1
    <3>2. CASE n # 0
      <4>1. n \in 1 .. N
        BY <1>1, <3>2
      <4> QED
        BY <1>8, <3>2, <4>1
    <3> QED
      BY <3>1, <3>2
  <2> QED
    BY <2>1, <2>2, Zenon
<1>10. R(after)
  BY <1>9, Zenon
<1> HIDE DEF after
<1>11. \A n \in 0 .. N : after[n] = IF n = 0 THEN AtWork(k) ELSE TakeByte(after[n - 1], c[n])
  BY <1>10, Zenon
<1>12. after[0] = AtWork(k)
  <2>1. 0 \in 0 .. N
    BY <1>1
  <2> QED
    BY <1>11, <2>1, Zenon
<1>13. ASSUME NEW n \in 1 .. N PROVE after[n] = TakeByte(after[n - 1], c[n])
  <2>1. n \in 0 .. N /\ n # 0
    BY <1>1
  <2> QED
    BY <1>11, <2>1, Zenon
<1>14. after = [n \in 0 .. N |-> after[n]]
  <2>1. DOMAIN after = 0 .. N
    BY <1>10
  <2> QED
    BY <1>10, <2>1
<1>15. \A n \in 0 .. N : after[n] \in Decoders
  <2> DEFINE K == {n \in Nat : n <= N => after[n] \in Decoders}
  <2>1. 0 \in K
    BY <1>5, <1>12
  <2>2. ASSUME NEW n \in Nat, n \in K PROVE n + 1 \in K
    <3> SUFFICES ASSUME n + 1 <= N PROVE after[n + 1] \in Decoders
      OBVIOUS
    <3>1. n + 1 \in 1 .. N /\ (n + 1) - 1 = n /\ n <= N
      BY <1>1
    <3>2. after[n] \in Decoders
      BY <2>2, <3>1
    <3>3. TakeByte(after[n], c[n + 1]) \in Decoders
      BY <1>1, <3>1, <3>2, TakeType
    <3>4. after[n + 1] = TakeByte(after[(n + 1) - 1], c[n + 1])
      BY <1>13, <3>1
    <3> QED
      BY <3>1, <3>3, <3>4
  <2> HIDE DEF K
  <2>3. \A n \in Nat : n \in K
    BY <2>1, <2>2, SetInduction
  <2> QED
    BY <1>1, <2>3 DEF K
<1>16. Steps(after, k, c)
  BY <1>12, <1>13, <1>14, <1>15 DEF Steps, N
<1> QED
  BY <1>2, <1>16 DEF N

\* The decoder that is kept goes on where the scan of all bytes so far is.
LEMMA StepsFollow ==
    ASSUME NEW k \in Kepts, NEW b \in Seq(Byte), NEW c \in Seq(Byte), NEW T \in Seq(Items),
           Follows(AtWork(k), Scanned(b), T), NEW f, Steps(f, k, c)
    PROVE  Follows(f[Len(c)], Scanned(b \o c), T)
<1> DEFINE N == Len(c)
           P(n) == SubSeq(c, 1, n)
           K == {n \in Nat : n <= N => Follows(f[n], Scanned(b \o P(n)), T)}
<1>1. N \in Nat /\ \A n \in 1 .. N : c[n] \in Byte
  BY LenProperties, ElementOfSeq
<1>2. \A n \in 0 .. N : P(n) \in Seq(Byte) /\ Len(P(n)) = n
  <2> SUFFICES ASSUME NEW n \in 0 .. N PROVE P(n) \in Seq(Byte) /\ Len(P(n)) = n
    OBVIOUS
  <2>1. 1 \in 1 .. N + 1 /\ n \in Nat /\ n <= N /\ 1 <= n + 1 /\ (n + 1) - 1 = n
    BY <1>1
  <2>2. P(n) \in Seq(Byte) /\ Len(P(n)) = (n + 1) - 1
    BY <2>1, PartIs
  <2> QED
    BY <2>1, <2>2
<1>3. 0 \in K
  <2>1. P(0) = <<>>
    BY <1>1, <1>2, EmptySeq
  <2>2. b \o <<>> = b
    BY ConcatEmptySeq
  <2>3. f[0] = AtWork(k)
    BY DEF Steps
  <2>4. Follows(f[0], Scanned(b \o P(0)), T)
    BY <2>1, <2>2, <2>3
  <2> QED
    BY <2>4
<1>4. ASSUME NEW n \in Nat, n \in K PROVE n + 1 \in K
  <2> SUFFICES ASSUME n + 1 <= N PROVE Follows(f[n + 1], Scanned(b \o P(n + 1)), T)
    OBVIOUS
  <2> DEFINE e == Scanned(b \o P(n))
             x == c[n + 1]
  <2>1. n \in 0 .. N /\ n + 1 \in 1 .. N /\ (n + 1) - 1 = n /\ n < N /\ 1 <= n + 1 /\ n <= N
        /\ 1 \in 1 .. N /\ x \in Byte
    BY <1>1
  <2>2. Follows(f[n], e, T)
    BY <1>4, <2>1
  <2>3. P(n) \in Seq(Byte) /\ P(n + 1) = Append(P(n), x)
    BY <1>2, <2>1, PartGrows
  <2>4. b \o P(n) \in Seq(Byte) /\ b \o P(n + 1) = Append(b \o P(n), x)
    BY <2>1, <2>3, ConcatGrows, ConcatProperties
  <2>5. e \in Scanners /\ Scanned(b \o P(n + 1)) = ScanByte(e, x)
    BY <2>1, <2>4, ScannedIs
  <2>6. f[n] \in Decoders /\ f[n + 1] = TakeByte(f[n], x)
    <3>1. f[n + 1] = TakeByte(f[(n + 1) - 1], c[n + 1])
      BY <2>1, Zenon DEF Steps
    <3> QED
      BY <2>1, <3>1 DEF Steps
  <2> HIDE DEF e, x
  <2> QED
    BY <2>1, <2>2, <2>5, <2>6, TakeFollows DEF x
<1> HIDE DEF K
<1>5. N \in K
  BY <1>1, <1>3, <1>4, SetInduction
<1>6. P(N) = c
  BY SubSeqFull
<1>7. Follows(f[N], Scanned(b \o P(N)), T)
  <2>1. N <= N
    BY <1>1
  <2> HIDE DEF N, P
  <2> QED
    BY <1>5, <2>1, Zenon DEF K
<1> QED
  BY <1>6, <1>7

LEMMA RunFollows ==
    ASSUME NEW k \in Kepts, NEW b \in Seq(Byte), NEW c \in Seq(Byte), NEW T \in Seq(Items),
           Follows(AtWork(k), Scanned(b), T)
    PROVE  /\ Follows(Run(k, c, FALSE), Scanned(b \o c), T)
           /\ Follows(Run(k, c, TRUE), Finish(Scanned(b \o c)), T)
<1>1. PICK f : /\ Steps(f, k, c)
               /\ \A last \in BOOLEAN : Run(k, c, last) =
                    IF last /\ f[Len(c)].pending # <<>> THEN Malformed(f[Len(c)]) ELSE f[Len(c)]
  BY RunIs
<1> DEFINE d == f[Len(c)]
           e == Scanned(b \o c)
<1>2. Run(k, c, FALSE) = d /\ Run(k, c, TRUE) = IF d.pending # <<>> THEN Malformed(d) ELSE d
  BY <1>1, Zenon
<1>3. d \in Decoders
  <2>1. Len(c) \in 0 .. Len(c)
    BY LenProperties
  <2> QED
    BY <1>1, <2>1 DEF Steps
<1>4. Follows(d, e, T)
  BY <1>1, StepsFollow
<1>5. e \in Scanners
  <2>1. b \o c \in Seq(Byte)
    BY ConcatProperties
  <2> QED
    BY <2>1, ScannedIs
<1> HIDE DEF d, e
<1>6. CASE fatal /\ e.malformed
  <2>1. d.malformed /\ Malformed(d).malformed /\ Malformed(e).malformed
    BY <1>3, <1>4, <1>5, <1>6, MalformedType DEF Follows, Scanners
  <2>2. Run(k, c, TRUE).malformed /\ Finish(e).malformed
    BY <1>2, <1>6, <2>1 DEF Finish
  <2>3. Follows(Run(k, c, TRUE), Finish(e), T)
    BY <1>6, <2>2 DEF Follows
  <2> QED
    BY <1>2, <1>4, <2>3 DEF e
<1>7. CASE ~(fatal /\ e.malformed)
  <2>1. Tracks(d, e, T)
    BY <1>4, <1>7 DEF Follows
  <2>2. d.pending = e.pending
    BY <2>1 DEF Tracks
  <2>3. Follows(Malformed(d), Malformed(e), T)
    BY <1>3, <1>5, <2>1, MalformedFollows
  <2>4. Follows(Run(k, c, TRUE), Finish(e), T)
    BY <1>2, <1>4, <2>2, <2>3 DEF Finish
  <2> QED
    BY <1>2, <1>4, <2>4 DEF e
<1> QED
  BY <1>6, <1>7

\* What Run gives is a decoder; what is kept of it goes on after its text.
LEMMA RunType ==
    ASSUME NEW k \in Kepts, NEW c \in Seq(Byte), NEW last \in BOOLEAN
    PROVE  LET d == Run(k, c, last) IN
           /\ d \in Decoders /\ d.text \in Seq(Items) /\ d.malformed \in BOOLEAN /\ Kept(d) \in Kepts
           /\ \A e \in Scanners, T \in Seq(Items) :
                 Tracks(d, e, T) => T \o d.text \in Seq(Items) /\ Tracks(AtWork(Kept(d)), e, T \o d.text)
<1> DEFINE d == Run(k, c, last)
           h == Kept(d)
<1>1. d \in Decoders
  <2>1. PICK f : /\ Steps(f, k, c)
                 /\ \A l \in BOOLEAN : Run(k, c, l) =
                      IF l /\ f[Len(c)].pending # <<>> THEN Malformed(f[Len(c)]) ELSE f[Len(c)]
    BY RunIs
  <2> DEFINE g == f[Len(c)]
  <2>2. d = IF last /\ g.pending # <<>> THEN Malformed(g) ELSE g
    BY <2>1, Zenon
  <2>3. Len(c) \in 0 .. Len(c)
    BY LenProperties
  <2>4. g \in Decoders
    BY <2>1, <2>3 DEF Steps
  <2> HIDE DEF g, d
  <2> QED
    BY <2>2, <2>4, MalformedType
<1> HIDE DEF d
<1>2. d.text \in Seq(Items) /\ d.malformed \in BOOLEAN /\ d.pending \in Pendings /\ d.atStart \in BOOLEAN
  BY <1>1 DEF Decoders
<1>3. h = [pending |-> d.pending, atStart |-> d.atStart]
  BY DEF Kept
<1>4. h \in Kepts /\ h.pending = d.pending
  BY <1>2, <1>3 DEF Kepts
<1>5. h.atStart = d.atStart
  BY <1>2, <1>3
<1> HIDE DEF h
<1>6. ASSUME NEW e \in Scanners, NEW T \in Seq(Items), Tracks(d, e, T)
      PROVE  T \o d.text \in Seq(Items) /\ Tracks(AtWork(h), e, T \o d.text)
  <2> DEFINE U == T \o d.text
             g == AtWork(h)
  <2>1. U \in Seq(Items)
    BY <1>2, ConcatProperties
  <2>2. g.pending = h.pending /\ g.text = <<>> /\ g.atStart = h.atStart /\ g.malformed = FALSE
    BY <1>4, AtWorkIs
  <2>3. d.pending = e.pending /\ (d.atStart <=> ~ignoreBOM /\ e.text = <<>>) /\ U = Strip(e.text)
    BY <1>6 DEF Tracks
  <2> SUFFICES U \in Seq(Items) /\ Tracks(g, e, U)
    OBVIOUS
  <2> HIDE DEF U, g
  <2>4. U \o <<>> = U
    BY <2>1, ConcatEmptySeq
  <2>5. U \o g.text = Strip(e.text)
    BY <2>2, <2>3, <2>4
  <2>6. g.atStart <=> ~ignoreBOM /\ e.text = <<>>
    BY <1>5, <2>2, <2>3
  <2>7. fatal => ~g.malformed
    BY <2>2
  <2>8. g.pending = e.pending
    BY <1>4, <2>2, <2>3
  <2> QED
    BY <2>1, <2>5, <2>6, <2>7, <2>8 DEF Tracks
<1> QED
  BY <1>1, <1>2, <1>4, <1>6 DEF d, h

LEMMA StartFollows ==
    ASSUME ignoreBOM \in BOOLEAN
    PROVE  NewDecoder \in Kepts /\ Tracks(AtWork(NewDecoder), Scanned(<<>>), <<>>)
<1> DEFINE k == NewDecoder
           p == <<>>
<1>1. p \in Pendings /\ (~ignoreBOM) \in BOOLEAN
  <2>1. p \in Pendings
    BY EmptySeq DEF Pendings
  <2>2. (~ignoreBOM) \in BOOLEAN
    OBVIOUS
  <2> QED
    BY <2>1, <2>2
<1>2. k = [pending |-> p, atStart |-> ~ignoreBOM]
  BY DEF NewDecoder
<1> HIDE DEF k, p
<1>3. k \in Kepts /\ k.pending = p
  BY <1>1, <1>2 DEF Kepts
<1>4. k.atStart = ~ignoreBOM
  BY <1>2, Zenon
<1> DEFINE g == AtWork(k)
           e == Scanned(<<>>)
<1>5. g.pending = p /\ g.text = <<>> /\ (g.atStart <=> ~ignoreBOM) /\ g.malformed = FALSE
  BY <1>3, <1>4, AtWorkIs
<1>6. e.pending = <<>> /\ e.text = <<>>
  BY EmptySeq, ScannedIs, BlankIs
<1> HIDE DEF g, e
<1>7. <<>> \o g.text = Strip(e.text)
  <2>1. Strip(<<>>) = <<>>
    BY DEF Strip
  <2>2. <<>> \o <<>> = <<>>
    BY EmptySeq, ConcatEmptySeq
  <2> QED
    BY <1>5, <1>6, <2>1, <2>2
<1>8. Tracks(g, e, <<>>)
  BY <1>5, <1>6, <1>7 DEF Tracks, p
<1> QED
  BY <1>3, <1>8 DEF k, g, e

-----------------------------------------------------------------------------
(* A BOM that is taken off before is one that the decoder does not write.    *)

\* After a BOM, the scan is that of the bytes behind it.
LEMMA ScannedBOM ==
    ASSUME NEW b \in Seq(Byte)
    PROVE  /\ BOM \o b \in Seq(Byte) /\ Scanned(BOM \o b).pending = Scanned(b).pending
           /\ Scanned(BOM \o b).text = <<BOM>> \o Scanned(b).text
<1> DEFINE Same(f, e) == f.pending = e.pending /\ f.text = <<BOM>> \o e.text
           K == {s \in Seq(Byte) : Same(Scanned(BOM \o s), Scanned(s))}
<1>1. BOM \in Seq(Byte) /\ BOM \in Items /\ <<BOM>> \in Seq(Items)
  BY DEF BOM, Byte, Items
<1>2. \A s \in Seq(Byte) : BOM \o s \in Seq(Byte)
  BY <1>1, ConcatProperties
<1>3. <<>> \in K
  <2> DEFINE s1 == <<"EF">>
             s2 == <<"EF", "BB">>
             e1 == Scanned(s1)
             e2 == Scanned(s2)
             e3 == Scanned(BOM)
  <2>1. s1 \in Seq(Byte) /\ s2 \in Seq(Byte) /\ "EF" \in Byte /\ "BB" \in Byte /\ "BF" \in Byte
    BY DEF Byte
  <2>2. s1 = Append(<<>>, "EF") /\ s2 = Append(s1, "BB") /\ BOM = Append(s2, "BF")
    <3>1. s1 = Append(<<>>, "EF")
      OBVIOUS
    <3>2. s2 = Append(s1, "BB")
      OBVIOUS
    <3>3. BOM = Append(s2, "BF")
      BY DEF BOM
    <3> QED
      BY <3>1, <3>2, <3>3
  <2>3. /\ ~IsCharacter(s1) /\ IsPartial(s1) /\ ~IsCharacter(s2) /\ IsPartial(s2)
        /\ IsCharacter(BOM)
    BY DEF IsCharacter, IsPartial, BOM, Continuation
  <2>4. Scanned(<<>>) = Blank
    BY EmptySeq, ScannedIs
  <2>5. e1 = ScanByte(Blank, "EF") /\ e2 = ScanByte(e1, "BB") /\ e3 = ScanByte(e2, "BF")
        /\ e1 \in Scanners /\ e2 \in Scanners
    <3> HIDE DEF s1, s2
    <3>1. <<>> \in Seq(Byte)
      BY EmptySeq
    <3> QED
      BY <2>1, <2>2, <2>4, <3>1, ScannedIs
  <2> HIDE DEF s1, s2, e1, e2, e3
  <2>6. e1.pending = s1 /\ e1.text = <<>>
    <3>1. Fits(Blank, "EF")
      BY BlankIs DEF Fits
    <3> DEFINE s == Append(Blank.pending, "EF")
    <3>2. s = s1
      BY <2>2, BlankIs
    <3>3. ~IsCharacter(s) /\ IsPartial(s) => AddByte(Blank, "EF").pending = s /\ AddByte(Blank, "EF").text = Blank.text
      BY <2>1, BlankIs, AddScans
    <3> HIDE DEF s
    <3> QED
      BY <2>3, <2>5, <3>1, <3>2, <3>3, BlankIs DEF ScanByte
  <2>7. e2.pending = s2 /\ e2.text = <<>>
    <3> DEFINE s == Append(e1.pending, "BB")
    <3>1. s = s2
      BY <2>2, <2>6
    <3>2. Fits(e1, "BB")
      BY <2>3, <3>1, Zenon DEF Fits
    <3>3. ~IsCharacter(s) /\ IsPartial(s) => AddByte(e1, "BB").pending = s /\ AddByte(e1, "BB").text = e1.text
      BY <2>1, <2>5, AddScans
    <3> HIDE DEF s
    <3> QED
      BY <2>3, <2>5, <2>6, <3>1, <3>2, <3>3 DEF ScanByte
  <2>8. e3.pending = <<>> /\ e3.text = <<BOM>>
    <3> DEFINE s == Append(e2.pending, "BF")
    <3>1. s = BOM
      BY <2>2, <2>7
    <3>2. Fits(e2, "BF")
      BY <2>3, <3>1, Zenon DEF Fits
    <3>3. IsCharacter(s) => AddByte(e2, "BF").pending = <<>> /\ AddByte(e2, "BF").text = Append(e2.text, s)
      BY <2>1, <2>5, AddScans
    <3> HIDE DEF s
    <3>4. Append(<<>>, BOM) = <<BOM>>
      OBVIOUS
    <3> QED
      BY <2>3, <2>5, <2>7, <3>1, <3>2, <3>3, <3>4 DEF ScanByte
  <2>9. BOM \o <<>> = BOM /\ <<BOM>> \o <<>> = <<BOM>>
    BY <1>1, ConcatEmptySeq
  <2>10. Same(Scanned(BOM \o <<>>), Scanned(<<>>))
    <3>1. Same(e3, Blank)
      BY <2>8, <2>9, BlankIs
    <3> QED
      BY <2>4, <2>9, <3>1 DEF e3
  <2> QED
    BY <2>10, EmptySeq
<1>4. ASSUME NEW s \in Seq(Byte), NEW x \in Byte, s \in K PROVE Append(s, x) \in K
  <2> DEFINE e == Scanned(s)
             f == Scanned(BOM \o s)
             e1 == IF Fits(e, x) THEN e ELSE Malformed(e)
             f1 == IF Fits(f, x) THEN f ELSE Malformed(f)
             p == Append(e1.pending, x)
  <2>1. Append(s, x) \in Seq(Byte) /\ BOM \o Append(s, x) = Append(BOM \o s, x)
    BY <1>1, AppendProperties, ConcatGrows
  <2>2. e \in Scanners /\ Scanned(Append(s, x)) = AddByte(e1, x)
    BY ScannedIs DEF ScanByte
  <2>3. f \in Scanners /\ Scanned(Append(BOM \o s, x)) = AddByte(f1, x)
    BY <1>2, ScannedIs DEF ScanByte
  <2>4. Same(f, e)
    BY <1>4
  <2> HIDE DEF e, f
  <2>5. \A t \in Seq(Items), y \in Items : <<BOM>> \o Append(t, y) = Append(<<BOM>> \o t, y)
    BY <1>1, ConcatGrows
  <2>6. Replacement \in Items /\ e.text \in Seq(Items)
    BY <2>2 DEF Items, Scanners, Decoders
  <2>7. e1 \in Scanners /\ f1 \in Scanners /\ Same(f1, e1)
    <3>1. Fits(f, x) <=> Fits(e, x)
      BY <2>4 DEF Fits
    <3>2. CASE Fits(e, x)
      BY <2>2, <2>3, <2>4, <3>1, <3>2
    <3>3. CASE ~Fits(e, x)
      <4>1. /\ Malformed(e) \in Scanners /\ Malformed(f) \in Scanners
            /\ Malformed(e).pending = <<>> /\ Malformed(f).pending = <<>>
            /\ Malformed(e).text = Append(e.text, Replacement)
            /\ Malformed(f).text = Append(f.text, Replacement)
        BY <2>2, <2>3, MalformedScans
      <4>2. Malformed(f).text = <<BOM>> \o Malformed(e).text
        BY <2>4, <2>5, <2>6, <4>1
      <4> QED
        BY <3>1, <3>3, <4>1, <4>2
    <3> QED
      BY <3>2, <3>3
  <2> HIDE DEF e1, f1
  <2>8. p \in Items /\ e1.text \in Seq(Items)
    <3>1. e1 \in Decoders
      BY <2>7 DEF Scanners
    <3>2. p \in Items
      BY <3>1, AddIs
    <3> HIDE DEF p
    <3> QED
      BY <3>1, <3>2 DEF Decoders
  <2>9. p = Append(f1.pending, x)
    BY <2>7
  <2>10. /\ IsCharacter(p) => AddByte(e1, x).pending = <<>> /\ AddByte(e1, x).text = Append(e1.text, p)
         /\ ~IsCharacter(p) /\ IsPartial(p) => AddByte(e1, x).pending = p /\ AddByte(e1, x).text = e1.text
         /\ Neither(p) => AddByte(e1, x).pending = <<>> /\ AddByte(e1, x).text = Append(e1.text, Replacement)
    BY <2>7, AddScans
  <2>11. /\ IsCharacter(p) => AddByte(f1, x).pending = <<>> /\ AddByte(f1, x).text = Append(f1.text, p)
         /\ ~IsCharacter(p) /\ IsPartial(p) => AddByte(f1, x).pending = p /\ AddByte(f1, x).text = f1.text
         /\ Neither(p) => AddByte(f1, x).pending = <<>> /\ AddByte(f1, x).text = Append(f1.text, Replacement)
    <3> DEFINE q == Append(f1.pending, x)
    <3>1. /\ IsCharacter(q) => AddByte(f1, x).pending = <<>> /\ AddByte(f1, x).text = Append(f1.text, q)
          /\ ~IsCharacter(q) /\ IsPartial(q) => AddByte(f1, x).pending = q /\ AddByte(f1, x).text = f1.text
          /\ Neither(q) => AddByte(f1, x).pending = <<>> /\ AddByte(f1, x).text = Append(f1.text, Replacement)
      BY <2>7, AddScans
    <3>2. p = q
      BY <2>9
    <3> HIDE DEF p, q
    <3> QED
      BY <3>1, <3>2
  <2>12. f1.text = <<BOM>> \o e1.text
    BY <2>7
  <2> HIDE DEF p
  <2>13. Same(AddByte(f1, x), AddByte(e1, x))
    <3>1. CASE IsCharacter(p)
      BY <2>5, <2>8, <2>10, <2>11, <2>12, <3>1
    <3>2. CASE ~IsCharacter(p) /\ IsPartial(p)
      BY <2>10, <2>11, <2>12, <3>2
    <3>3. CASE Neither(p)
      BY <2>5, <2>6, <2>8, <2>10, <2>11, <2>12, <3>3
    <3> QED
      BY <3>1, <3>2, <3>3 DEF Neither
  <2> HIDE DEF Same
  <2> QED
    BY <2>1, <2>2, <2>3, <2>13
<1> HIDE DEF K
<1>5. \A s \in Seq(Byte) : s \in K
  BY <1>3, <1>4, SeqInduction
<1> QED
  BY <1>2, <1>5 DEF K

LEMMA CharactersBOM ==
    ASSUME NEW b \in Seq(Byte)
    PROVE  Characters(BOM \o b) = <<BOM>> \o Characters(b)
<1> DEFINE e == Scanned(b)
           f == Scanned(BOM \o b)
<1>1. BOM \o b \in Seq(Byte) /\ f.pending = e.pending /\ f.text = <<BOM>> \o e.text
  BY ScannedBOM
<1>2. e \in Scanners /\ f \in Scanners
  BY <1>1, ScannedIs
<1>3. Characters(b) = Finish(e).text /\ Characters(BOM \o b) = Finish(f).text
  BY <1>1, CharactersAre
<1> HIDE DEF e, f
<1>4. Finish(f).text = <<BOM>> \o Finish(e).text
  <2>1. CASE e.pending = <<>>
    BY <1>1, <2>1 DEF Finish
  <2>2. CASE e.pending # <<>>
    <3>1. Finish(e) = Malformed(e) /\ Finish(f) = Malformed(f)
      BY <1>1, <2>2 DEF Finish
    <3>2. Malformed(e).text = Append(e.text, Replacement) /\ Malformed(f).text = Append(f.text, Replacement)
      BY <1>2, MalformedScans
    <3>3. <<BOM>> \in Seq(Items) /\ e.text \in Seq(Items) /\ Replacement \in Items
      BY <1>2 DEF Items, Scanners, Decoders, BOM, Byte
    <3>4. <<BOM>> \o Append(e.text, Replacement) = Append(<<BOM>> \o e.text, Replacement)
      BY <3>3, ConcatGrows
    <3> QED
      BY <1>1, <3>1, <3>2, <3>4
  <2> QED
    BY <2>1, <2>2
<1> QED
  BY <1>3, <1>4

LEMMA FirstIsBOM ==
    ASSUME NEW b \in Seq(Byte), Characters(b) # <<>>, Characters(b)[1] = BOM
    PROVE  Len(b) >= 3 /\ SubSeq(b, 1, 3) = BOM
<1>1. PICK from : Reads(from, b) /\ Characters(b) = from[1]
  BY CharactersReads
<1> DEFINE N == Len(b)
           w == Extent(b, 1)
           s == SubSeq(b, 1, 1 + w - 1)
<1>2. N \in Nat
  BY LenProperties
<1>3. N # 0
  <2> SUFFICES ASSUME N = 0 PROVE FALSE
    OBVIOUS
  <2>1. from[N + 1] = <<>> /\ N + 1 = 1
    BY <1>1 DEF Reads
  <2> QED
    BY <1>1, <2>1
<1>4. 1 \in 1 .. N
  BY <1>2, <1>3
<1>5. w \in 1 .. 3 /\ 1 + w \in 1 .. N + 1 /\ Item(b, 1) \in Items
  BY <1>4, ItemIs
<1>6. from[1] = <<Item(b, 1)>> \o from[1 + w] /\ from[1 + w] \in Seq(Items)
  BY <1>1, <1>4, <1>5 DEF Reads
<1>7. Item(b, 1) = BOM
  <2> DEFINE t == <<Item(b, 1)>>
             r == from[1 + w]
  <2>1. t \in Seq(Items) /\ Len(t) = 1 /\ t[1] = Item(b, 1) /\ 1 \in 1 .. Len(t)
    BY <1>5
  <2> HIDE DEF t, r
  <2>2. r \in Seq(Items)
    BY <1>6 DEF r
  <2>3. (t \o r)[1] = t[1]
    BY <2>1, <2>2, ConcatLeft
  <2> QED
    BY <1>1, <1>6, <2>1, <2>3 DEF t, r
<1>8. Item(b, 1) = IF IsCharacter(s) THEN s ELSE Replacement
  BY DEF Item
<1>9. BOM # Replacement /\ Len(BOM) = 3
  BY DEF BOM, Replacement
<1>10. s = BOM
  BY <1>7, <1>8, <1>9
<1>11. 1 + w - 1 = w /\ w \in Nat /\ w <= N /\ 1 <= w + 1 /\ 1 \in 1 .. N + 1 /\ (w + 1) - 1 = w
  <2> HIDE DEF w, N
  <2> QED
    BY <1>2, <1>5
<1>12. s = SubSeq(b, 1, w)
  BY <1>11
<1>13. Len(SubSeq(b, 1, w)) = (w + 1) - 1
  BY <1>11, PartIs
<1> HIDE DEF w, s
<1>14. w = 3
  BY <1>9, <1>10, <1>11, <1>12, <1>13
<1> QED
  BY <1>2, <1>10, <1>11, <1>12, <1>14

LEMMA TailOfOne ==
    ASSUME NEW S, NEW x \in S, NEW t \in Seq(S)
    PROVE  /\ <<x>> \o t \in Seq(S) /\ <<x>> \o t # <<>> /\ (<<x>> \o t)[1] = x
           /\ Tail(<<x>> \o t) = t
<1> DEFINE u == <<x>>
           r == u \o t
           n == Len(t)
<1>1. u \in Seq(S) /\ Len(u) = 1 /\ u[1] = x
  OBVIOUS
<1> HIDE DEF u
<1>2. r \in Seq(S) /\ Len(r) = Len(u) + Len(t) /\ n \in Nat
      /\ \A i \in 1 .. Len(u) + Len(t) : r[i] = IF i <= Len(u) THEN u[i] ELSE t[i - Len(u)]
  BY <1>1, ConcatProperties, LenProperties
<1>3. Len(r) = 1 + n /\ \A i \in 1 .. 1 + n : r[i] = IF i <= 1 THEN u[i] ELSE t[i - 1]
  BY <1>1, <1>2
<1> HIDE DEF r, n
<1>4. r # <<>> /\ r[1] = x
  <2>1. Len(r) # 0 /\ 1 \in 1 .. 1 + n
    BY <1>2, <1>3
  <2> QED
    BY <1>1, <1>3, <2>1
<1>5. Tail(r) \in Seq(S) /\ Len(Tail(r)) = Len(r) - 1 /\ \A i \in 1 .. Len(Tail(r)) : Tail(r)[i] = r[i + 1]
  BY <1>2, <1>4, HeadTailProperties
<1>6. Len(Tail(r)) = n
  BY <1>2, <1>3, <1>5
<1>7. ASSUME NEW i \in 1 .. n PROVE Tail(r)[i] = t[i]
  <2>1. i + 1 \in 1 .. 1 + n /\ ~(i + 1 <= 1) /\ (i + 1) - 1 = i
    BY <1>2
  <2> QED
    BY <1>3, <1>5, <1>6, <2>1
<1>8. Tail(r) = t
  BY <1>5, <1>6, <1>7, SeqEqual DEF n
<1> QED
  BY <1>2, <1>4, <1>8 DEF r, u

\* V8 takes a BOM off the bytes, and decodes the rest.
LEMMA StripIsWhole ==
    ASSUME NEW b \in Seq(Byte)
    PROVE  /\ Characters(StripBOM(b)) = Strip(Characters(b)) /\ WholeText(b) = Strip(Characters(b))
           /\ Strip(Characters(b)) \in Seq(Items)
<1> DEFINE N == Len(b)
           r == SubSeq(b, 4, N)
           all == Characters(b)
<1>1. N \in Nat
  BY LenProperties
<1>2. all \in Seq(Items)
  BY CharactersAre
<1>3. WholeText(b) = Strip(all)
  BY DEF WholeText, Strip
<1>4. Strip(all) \in Seq(Items)
  <2>1. all # <<>> => Tail(all) \in Seq(Items)
    BY <1>2, HeadTailProperties
  <2> HIDE DEF all
  <2> QED
    BY <1>2, <2>1 DEF Strip
<1>5. CASE ~ignoreBOM /\ N >= 3 /\ SubSeq(b, 1, 3) = BOM
  <2>1. StripBOM(b) = r
    BY <1>5 DEF StripBOM
  <2>2. 1 \in 1 .. N + 1 /\ 3 \in 1 - 1 .. N /\ N \in 3 .. N /\ 3 + 1 = 4
    BY <1>1, <1>5
  <2>3. SubSeq(b, 1, 3) \o SubSeq(b, 3 + 1, N) = SubSeq(b, 1, N)
    BY <2>2, ConcatAdjacentSubSeq
  <2>4. b = BOM \o r
    <3>1. SubSeq(b, 1, N) = b
      BY SubSeqFull
    <3> QED
      BY <1>5, <2>2, <2>3, <3>1
  <2>5. r \in Seq(Byte)
    <3>1. 4 \in 1 .. N + 1 /\ N <= N /\ 4 <= N + 1
      BY <1>1, <1>5
    <3> QED
      BY <1>1, <3>1, PartIs
  <2>6. all = <<BOM>> \o Characters(r) /\ Characters(r) \in Seq(Items)
    BY <2>4, <2>5, CharactersBOM, CharactersAre
  <2> DEFINE t == Characters(r)
  <2>7. BOM \in Items
    BY DEF Items, BOM, Byte
  <2> HIDE DEF t, all
  <2>8. all # <<>> /\ all[1] = BOM /\ Tail(all) = t
    BY <2>6, <2>7, TailOfOne DEF t
  <2>9. Strip(all) = t
    BY <1>5, <2>8 DEF Strip
  <2> QED
    BY <1>3, <1>4, <2>1, <2>9 DEF t, all
<1>6. CASE ~(~ignoreBOM /\ N >= 3 /\ SubSeq(b, 1, 3) = BOM)
  <2>1. StripBOM(b) = b
    BY <1>6 DEF StripBOM
  <2>2. ~ignoreBOM => all = <<>> \/ all[1] # BOM
    BY <1>6, FirstIsBOM
  <2> HIDE DEF all
  <2>3. Strip(all) = all
    BY <2>2 DEF Strip
  <2> QED
    BY <1>3, <1>4, <2>1, <2>3 DEF all
<1> QED
  BY <1>5, <1>6

-----------------------------------------------------------------------------
(* The calls of decode.                                                      *)

\* A text that has ended, and one that goes on.
Done ==
    /\ failed <=> fatal /\ Finish(Scanned(given)).malformed
    /\ ~failed => text = Strip(Characters(given))
GoesOn(k) ==
    /\ failed <=> fatal /\ Scanned(given).malformed
    /\ ~failed => Follows(AtWork(k), Scanned(given), text)

\* The decoder that is kept has seen the bytes of this text and no others, so that it
\* is where a scan of them all would be, and has returned what that would have written.
TextInv ==
    /\ fatal \in BOOLEAN /\ ignoreBOM \in BOOLEAN /\ failed \in BOOLEAN /\ ended \in BOOLEAN
    /\ given \in Seq(Byte) /\ text \in Seq(Items)
    /\ encoded # <<>> => given = <<>> /\ ~ended
    /\ ended => handle = <<>> /\ Done
    /\ ~ended /\ handle = <<>> => given = <<>> /\ text = <<>> /\ ~failed
    /\ handle # <<>> => ~ended /\ \E k \in Kepts : handle = <<k>> /\ GoesOn(k)

LEMMA TextInvIsEnough == TextInv => ChunksDecodeAsWhole
<1> SUFFICES ASSUME TextInv PROVE ChunksDecodeAsWhole
  OBVIOUS
<1>1. CASE ended
  <2>1. (IsMalformed(given) <=> Finish(Scanned(given)).malformed) /\ WholeText(given) = Strip(Characters(given))
    BY MalformedIs, StripIsWhole DEF TextInv
  <2>2. (failed <=> fatal /\ IsMalformed(given)) /\ (~failed => text = WholeText(given))
    BY <1>1, <2>1 DEF TextInv, Done
  <2>3. failed = (fatal /\ IsMalformed(given))
    BY <2>2, Zenon DEF TextInv
  <2> QED
    BY <1>1, <2>2, <2>3 DEF ChunksDecodeAsWhole
<1>2. CASE ~ended /\ handle # <<>>
  <2> DEFINE b == Decided(given)
             e == Scanned(given)
  <2>1. b \in Seq(Byte) /\ Characters(b) = e.text /\ (IsMalformed(b) <=> e.malformed)
    BY DecidedIs DEF TextInv
  <2>2. WholeText(b) = Strip(e.text)
    BY <2>1, StripIsWhole
  <2>3. PICK k \in Kepts : GoesOn(k)
    BY <1>2 DEF TextInv
  <2>4. failed <=> fatal /\ IsMalformed(b)
    BY <2>1, <2>3 DEF GoesOn
  <2>5. failed = (fatal /\ IsMalformed(b))
    <3> HIDE DEF b
    <3> QED
      BY <2>4, Zenon DEF TextInv
  <2>6. ~failed => text = WholeText(b)
    <3> SUFFICES ASSUME ~failed PROVE text = WholeText(b)
      OBVIOUS
    <3>1. Tracks(AtWork(k), e, text)
      BY <2>3 DEF GoesOn, Follows
    <3>2. text \o AtWork(k).text = Strip(e.text) /\ AtWork(k).text = <<>>
      BY <3>1, AtWorkIs DEF Tracks
    <3>3. text \o <<>> = text
      BY ConcatEmptySeq DEF TextInv
    <3> QED
      BY <2>2, <3>2, <3>3
  <2> HIDE DEF b
  <2> QED
    BY <1>2, <2>5, <2>6 DEF ChunksDecodeAsWhole, b
<1> QED
  BY <1>1, <1>2 DEF ChunksDecodeAsWhole

\* What one of the ops returns, after what calls before it have returned.
LEMMA ResultIs ==
    ASSUME TextInv, NEW d \in Decoders, NEW e \in Scanners,
           failed => fatal /\ e.malformed,
           ~failed => Follows(d, e, text)
    PROVE  LET fails == failed \/ ~Result(d).ok IN
           /\ Result(d).text = d.text /\ fails \in BOOLEAN
           /\ fails <=> fatal /\ e.malformed
           /\ ~fails => Result(d).ok /\ Tracks(d, e, text)
<1> DEFINE r == Result(d)
           o == ~(fatal /\ d.malformed)
           t == d.text
<1>1. r = [ok |-> o, text |-> t]
  BY DEF Result
<1> HIDE DEF r, o, t
<1>2. r.text = t /\ r.ok = o
  BY <1>1
<1>3. r.ok <=> ~(fatal /\ d.malformed)
  BY <1>2 DEF o
<1>4. ASSUME ~failed
      PROVE  (r.ok <=> ~(fatal /\ e.malformed)) /\ (r.ok => Tracks(d, e, text))
  <2>1. Follows(d, e, text)
    BY <1>4
  <2>2. CASE fatal /\ e.malformed
    <3>1. d.malformed
      BY <2>1, <2>2 DEF Follows
    <3> QED
      BY <1>3, <2>2, <3>1
  <2>3. CASE ~(fatal /\ e.malformed)
    <3>1. Tracks(d, e, text)
      BY <2>1, <2>3 DEF Follows
    <3>2. ~(fatal /\ d.malformed)
      BY <3>1 DEF Tracks
    <3> QED
      BY <1>3, <2>3, <3>1, <3>2
  <2> QED
    BY <2>2, <2>3
<1>5. (failed \/ ~r.ok) \in BOOLEAN
  OBVIOUS
<1> QED
  BY <1>2, <1>4, <1>5 DEF r, t

\* A call starts from the decoder that is kept, or from a new one.
LEMMA CallStarts ==
    ASSUME TextInv, ~ended
    PROVE  LET k == IF handle = <<>> THEN NewDecoder ELSE handle[1] IN k \in Kepts /\ GoesOn(k)
<1>1. CASE handle = <<>>
  <2>1. given = <<>> /\ text = <<>> /\ ~failed
    BY <1>1 DEF TextInv
  <2>2. NewDecoder \in Kepts /\ Tracks(AtWork(NewDecoder), Scanned(<<>>), <<>>)
    BY StartFollows DEF TextInv
  <2>3. Scanned(<<>>).malformed = FALSE
    BY EmptySeq, ScannedIs, BlankIs
  <2>4. GoesOn(NewDecoder)
    BY <2>1, <2>2, <2>3 DEF GoesOn, Follows
  <2> QED
    BY <1>1, <2>2, <2>4
<1>2. CASE handle # <<>>
  <2>1. PICK k \in Kepts : handle = <<k>> /\ GoesOn(k)
    BY <1>2 DEF TextInv
  <2>2. handle[1] = k
    BY <2>1
  <2> QED
    BY <1>2, <2>1, <2>2
<1> QED
  BY <1>1, <1>2

\* And it ends where a scan of all bytes would, whether it is the last or not.
LEMMA CallFollows ==
    ASSUME TextInv, NEW k \in Kepts, GoesOn(k), NEW c \in Seq(Byte)
    PROVE  LET e == Scanned(given \o c) IN
           /\ given \o c \in Seq(Byte) /\ e \in Scanners /\ Finish(e) \in Scanners
           /\ failed => fatal /\ e.malformed /\ Finish(e).malformed
           /\ ~failed => /\ Follows(Run(k, c, FALSE), e, text)
                         /\ Follows(Run(k, c, TRUE), Finish(e), text)
<1> DEFINE e == Scanned(given \o c)
<1>1. given \in Seq(Byte) /\ text \in Seq(Items) /\ given \o c \in Seq(Byte)
  BY ConcatProperties DEF TextInv
<1>2. e \in Scanners /\ Finish(e) \in Scanners
  BY <1>1, ScannedIs, CharactersAre
<1>3. ASSUME failed PROVE fatal /\ e.malformed /\ Finish(e).malformed
  <2>1. fatal /\ e.malformed
    BY <1>1, <1>3, ErrorsStayScanned DEF GoesOn
  <2> HIDE DEF e
  <2>2. Finish(e).malformed
    BY <1>2, <2>1, MalformedType DEF Finish, Scanners
  <2> QED
    BY <2>1, <2>2
<1>4. ASSUME ~failed
      PROVE  /\ Follows(Run(k, c, FALSE), e, text)
             /\ Follows(Run(k, c, TRUE), Finish(e), text)
  BY <1>1, <1>4, RunFollows DEF GoesOn
<1> QED
  BY <1>1, <1>2, <1>3, <1>4

\* What is there after a call.
LEMMA CallEnds ==
    ASSUME TextInv, NEW c \in Seq(Byte), NEW d \in Decoders, given' = given \o c,
           failed' = (failed \/ ~Result(d).ok),
           text' = IF Result(d).ok THEN text \o Result(d).text ELSE text,
           UNCHANGED <<fatal, ignoreBOM, encoded>>, NEW e \in Scanners,
           failed => fatal /\ e.malformed, ~failed => Follows(d, e, text)
    PROVE  /\ fatal' \in BOOLEAN /\ ignoreBOM' \in BOOLEAN /\ failed' \in BOOLEAN
           /\ given' \in Seq(Byte) /\ text' \in Seq(Items)
           /\ failed' <=> fatal /\ e.malformed
           /\ ~failed' => text' = Strip(e.text) /\ Tracks(d, e, text) /\ text' = text \o d.text
<1> DEFINE ok == Result(d).ok
<1>1. Result(d).text = d.text
  BY ResultIs
<1>2. (failed \/ ~ok) \in BOOLEAN /\ (failed \/ ~ok <=> fatal /\ e.malformed)
  BY ResultIs
<1>3. ~(failed \/ ~ok) => ok /\ Tracks(d, e, text)
  BY ResultIs
<1>4. d.text \in Seq(Items) /\ text \in Seq(Items) /\ given \in Seq(Byte)
  BY DEF Decoders, TextInv
<1>5. text \o d.text \in Seq(Items) /\ given \o c \in Seq(Byte)
  BY <1>4, ConcatProperties
<1> HIDE DEF ok
<1>6. failed' = (failed \/ ~ok) /\ text' = IF ok THEN text \o d.text ELSE text
  BY <1>1 DEF ok
<1>7. fatal' \in BOOLEAN /\ ignoreBOM' \in BOOLEAN
  BY DEF TextInv
<1>8. failed' \in BOOLEAN /\ (failed' <=> fatal /\ e.malformed)
  BY <1>2, <1>6, Zenon
<1>9. text' \in Seq(Items) /\ given' \in Seq(Byte)
  BY <1>4, <1>5, <1>6
<1>10. ASSUME ~failed' PROVE text' = Strip(e.text) /\ Tracks(d, e, text) /\ text' = text \o d.text
  <2>1. ok /\ Tracks(d, e, text)
    BY <1>3, <1>6, <1>10, Zenon
  <2>2. text' = text \o d.text
    BY <1>6, <2>1
  <2>3. text \o d.text = Strip(e.text)
    BY <2>1 DEF Tracks
  <2> QED
    BY <2>1, <2>2, <2>3
<1> QED
  BY <1>7, <1>8, <1>9, <1>10

\* The last call of a text.
LEMMA LastCall ==
    ASSUME TextInv, ~ended, encoded = <<>>, NEW c \in Seq(Byte), NEW k \in Kepts, GoesOn(k),
           Return(c, FALSE, Result(Run(k, c, TRUE))), handle' = <<>>
    PROVE  TextInv'
<1> DEFINE d == Run(k, c, TRUE)
           e == Finish(Scanned(given \o c))
<1>1. d \in Decoders
  BY RunType
<1>2. /\ e \in Scanners /\ (failed => fatal /\ e.malformed) /\ (~failed => Follows(d, e, text))
  BY CallFollows
<1>3. /\ given' = given \o c /\ failed' = (failed \/ ~Result(d).ok) /\ ended' = TRUE
      /\ text' = IF Result(d).ok THEN text \o Result(d).text ELSE text
      /\ UNCHANGED <<fatal, ignoreBOM, encoded>>
  BY DEF Return
<1> HIDE DEF d, e
<1>4. /\ fatal' \in BOOLEAN /\ ignoreBOM' \in BOOLEAN /\ failed' \in BOOLEAN
      /\ given' \in Seq(Byte) /\ text' \in Seq(Items)
      /\ failed' <=> fatal /\ e.malformed
      /\ ~failed' => text' = Strip(e.text)
  BY <1>1, <1>2, <1>3, CallEnds
<1>5. e = Finish(Scanned(given')) /\ e.text = Characters(given')
  BY <1>3, <1>4, CharactersAre DEF e
<1>6. Done'
  BY <1>3, <1>4, <1>5 DEF Done, Strip
<1> QED
  BY <1>3, <1>4, <1>6 DEF TextInv

\* A call in the middle of a text.
LEMMA MiddleCall ==
    ASSUME TextInv, ~ended, encoded = <<>>, NEW c \in Seq(Byte), NEW k \in Kepts, GoesOn(k),
           Return(c, TRUE, Result(Run(k, c, FALSE))), handle' = <<Kept(Run(k, c, FALSE))>>
    PROVE  TextInv'
<1> DEFINE d == Run(k, c, FALSE)
           e == Scanned(given \o c)
           h == Kept(d)
<1>1. d \in Decoders /\ h \in Kepts
  BY RunType
<1>2. /\ e \in Scanners /\ (failed => fatal /\ e.malformed) /\ (~failed => Follows(d, e, text))
  BY CallFollows
<1>3. /\ given' = given \o c /\ failed' = (failed \/ ~Result(d).ok) /\ ended' = FALSE
      /\ text' = IF Result(d).ok THEN text \o Result(d).text ELSE text
      /\ UNCHANGED <<fatal, ignoreBOM, encoded>>
  BY DEF Return
<1>4. \A T \in Seq(Items) : Tracks(d, e, T) => Tracks(AtWork(h), e, T \o d.text)
  BY <1>2, RunType
<1>5. handle' = <<h>>
  OBVIOUS
<1> HIDE DEF d, e, h
<1>6. /\ fatal' \in BOOLEAN /\ ignoreBOM' \in BOOLEAN /\ failed' \in BOOLEAN
      /\ given' \in Seq(Byte) /\ text' \in Seq(Items)
      /\ failed' <=> fatal /\ e.malformed
      /\ ~failed' => Tracks(d, e, text) /\ text' = text \o d.text
  BY <1>1, <1>2, <1>3, CallEnds
<1>7. e = Scanned(given')
  BY <1>3 DEF e
<1>8. ~failed' => Tracks(AtWork(h), e, text')
  BY <1>4, <1>6 DEF TextInv
<1>9. PICK n \in Kepts : n = h
  BY <1>1
<1>10. GoesOn(n)'
  BY <1>3, <1>6, <1>7, <1>8, <1>9 DEF GoesOn, Follows, Tracks, Strip
<1>11. handle' = <<n>> /\ handle' # <<>>
  <2>1. <<n>> # <<>>
    OBVIOUS
  <2>2. handle' = <<n>>
    BY <1>5, <1>9, Zenon
  <2> QED
    BY <2>1, <2>2
<1> QED
  BY <1>3, <1>6, <1>10, <1>11 DEF TextInv

\* However a text is cut into chunks, and whichever of the three ops decodes it, the
\* calls of TextDecoder.prototype.decode return what all its bytes at once give, and a
\* fatal decoder throws if and only if they are malformed; in the middle of a stream all
\* is returned that later bytes cannot change.  For texts and chunks of any length.
THEOREM ChunksAreOneText == Spec => []ChunksDecodeAsWhole
<1>1. Init => TextInv
  <2> SUFFICES ASSUME Init PROVE TextInv
    OBVIOUS
  <2>1. <<>> \in Seq(Byte) /\ <<>> \in Seq(Items)
    BY EmptySeq
  <2> QED
    BY <2>1 DEF Init, TextInv
<1>2. TextInv /\ [Next]_vars => TextInv'
  <2> SUFFICES ASSUME TextInv, [Next]_vars PROVE TextInv'
    OBVIOUS
  <2>1. ASSUME UNCHANGED <<fatal, ignoreBOM, handle, given, text, failed, ended>>,
               encoded' # <<>> => given = <<>> /\ ~ended
        PROVE  TextInv'
    BY <2>1 DEF TextInv, Done, GoesOn, Follows, Tracks, Strip
  <2>2. CASE UNCHANGED vars
    BY <2>1, <2>2 DEF vars, TextInv
  <2>3. ASSUME NEW chunk \in BoundedSeq(Byte, MaxBytes - Len(given)) PROVE chunk \in Seq(Byte)
    BY TextEncodingAssumption, LenProperties DEF BoundedSeq, SeqOf, TextInv
  <2>4. ASSUME NEW c \in Seq(Byte), DecodeOnce(c) PROVE TextInv'
    <3>1. ~ended /\ encoded = <<>> /\ handle = <<>> /\ handle' = <<>>
      BY <2>4 DEF DecodeOnce
    <3>2. CASE ~fatal
      <4>1. Return(c, FALSE, opDecodeUtf8(c))
        BY <2>4, <3>2 DEF DecodeOnce, utf8SinglePass
      <4>2. given = <<>> /\ text = <<>> /\ ~failed
        BY <3>1 DEF TextInv
      <4> DEFINE t == Strip(Characters(c))
      <4>3. opDecodeUtf8(c).ok = TRUE /\ opDecodeUtf8(c).text = t /\ t \in Seq(Items)
        <5>1. opDecodeUtf8(c) = [ok |-> TRUE, text |-> t]
          BY StripIsWhole DEF opDecodeUtf8
        <5>2. t \in Seq(Items)
          BY StripIsWhole
        <5> HIDE DEF t
        <5> QED
          BY <5>1, <5>2
      <4> HIDE DEF t
      <4>4. <<>> \o t = t /\ <<>> \o c = c
        BY <4>3, ConcatEmptySeq
      <4>5. /\ given' = c /\ text' = t /\ ended' = TRUE /\ failed' = FALSE
            /\ UNCHANGED <<fatal, ignoreBOM, encoded>>
        <5>1. /\ given' = given \o c /\ failed' = (failed \/ ~opDecodeUtf8(c).ok) /\ ended' = TRUE
              /\ text' = IF opDecodeUtf8(c).ok THEN text \o opDecodeUtf8(c).text ELSE text
              /\ UNCHANGED <<fatal, ignoreBOM, encoded>>
          BY <4>1 DEF Return
        <5>2. failed' = FALSE
          BY <4>2, <4>3, <5>1, Zenon DEF TextInv
        <5> QED
          BY <4>2, <4>3, <4>4, <5>1, <5>2
      <4>6. Done'
        BY <3>2, <4>5 DEF Done, Strip, t
      <4> QED
        BY <2>4, <3>1, <4>3, <4>5, <4>6 DEF TextInv
    <3>3. CASE fatal
      <4>1. Return(c, FALSE, Result(Run(NewDecoder, c, TRUE)))
        BY <2>4, <3>3 DEF DecodeOnce, utf8SinglePass, opDecodeSingle
      <4>2. NewDecoder \in Kepts /\ GoesOn(NewDecoder)
        BY <3>1, CallStarts
      <4> QED
        BY <2>4, <3>1, <4>1, <4>2, LastCall
    <3> QED
      BY <3>2, <3>3
  <2>5. ASSUME NEW c \in Seq(Byte), NEW stream \in BOOLEAN, DecodeChunk(c, stream) PROVE TextInv'
    <3> DEFINE k == IF handle = <<>> THEN NewDecoder ELSE handle[1]
    <3>1. /\ ~ended /\ encoded = <<>> /\ Return(c, stream, Result(Run(k, c, ~stream)))
          /\ handle' = IF stream THEN <<Kept(Run(k, c, ~stream))>> ELSE <<>>
      BY <2>5, Zenon DEF DecodeChunk
    <3>2. k \in Kepts /\ GoesOn(k)
      BY <3>1, CallStarts
    <3> HIDE DEF k
    <3>3. CASE stream = TRUE
      <4>1. (~stream) = FALSE
        BY <3>3
      <4>2. Return(c, TRUE, Result(Run(k, c, FALSE))) /\ handle' = <<Kept(Run(k, c, FALSE))>>
        BY <3>1, <3>3, <4>1
      <4> QED
        BY <2>5, <3>1, <3>2, <4>2, MiddleCall
    <3>4. CASE stream = FALSE
      <4>1. (~stream) = TRUE
        BY <3>4
      <4>2. Return(c, FALSE, Result(Run(k, c, TRUE))) /\ handle' = <<>>
        BY <3>1, <3>4, <4>1
      <4> QED
        BY <2>5, <3>1, <3>2, <4>2, LastCall
    <3> QED
      BY <2>5, <3>3, <3>4
  <2>6. CASE NextText
    <3>1. /\ given' = <<>> /\ text' = <<>> /\ failed' = FALSE /\ ended' = FALSE /\ encoded' = <<>>
          /\ UNCHANGED <<fatal, ignoreBOM, handle>>
      BY <2>6 DEF NextText
    <3>2. <<>> \in Seq(Byte) /\ <<>> \in Seq(Items)
      BY EmptySeq
    <3>3. CASE handle = <<>>
      BY <3>1, <3>2, <3>3 DEF TextInv
    <3>4. CASE handle # <<>>
      <4>1. given = <<>> /\ encoded # <<>>
        BY <2>6, <3>4 DEF NextText, TextInv
      <4>2. PICK k \in Kepts : handle = <<k>> /\ GoesOn(k)
        BY <3>4 DEF TextInv
      <4>3. Scanned(<<>>) \in Scanners /\ Scanned(<<>>).malformed = FALSE /\ Scanned(<<>>).text = <<>>
        BY EmptySeq, ScannedIs, BlankIs
      <4>4. Tracks(AtWork(k), Scanned(<<>>), text)
        BY <4>1, <4>2, <4>3 DEF GoesOn, Follows
      <4>5. text = <<>>
        <5>1. text \o AtWork(k).text = Strip(<<>>) /\ AtWork(k).text = <<>>
          BY <4>3, <4>4, AtWorkIs DEF Tracks
        <5>2. text \o <<>> = text
          BY ConcatEmptySeq DEF TextInv
        <5>3. Strip(<<>>) = <<>>
          BY DEF Strip
        <5> QED
          BY <5>1, <5>2, <5>3
      <4>6. GoesOn(k)'
        BY <3>1, <4>3, <4>4, <4>5 DEF GoesOn, Follows, Tracks, Strip
      <4>7. handle' = <<k>> /\ handle' # <<>>
        BY <3>1, <4>2
      <4> QED
        BY <3>1, <3>2, <4>6, <4>7 DEF TextInv
    <3> QED
      BY <3>3, <3>4
  <2>7. ASSUME NEW s, NEW size, EncodeInto(s, size) PROVE TextInv'
    BY <2>1, <2>7 DEF EncodeInto
  <2> QED
    BY <2>2, <2>3, <2>4, <2>5, <2>6, <2>7 DEF Next
<1> QED
  BY <1>1, <1>2, TextInvIsEnough, PTL DEF Spec

-----------------------------------------------------------------------------
(* Integers of WebIDL.                                                       *)

LEMMA MaxOfTwo ==
    ASSUME NEW a \in Int, NEW b \in Int
    PROVE  /\ Max({a, b}) = IF a >= b THEN a ELSE b
           /\ Min({a, b}) = IF a <= b THEN a ELSE b
<1> DEFINE S == {a, b}
<1>1. a \in S /\ b \in S /\ \A y \in S : y = a \/ y = b
  OBVIOUS
<1> HIDE DEF S
<1>2. \A y \in S : y \in Int
  BY <1>1
<1>3. /\ a >= b => \A y \in S : y <= a
      /\ ~(a >= b) => \A y \in S : y <= b
      /\ a <= b => \A y \in S : a <= y
      /\ ~(a <= b) => \A y \in S : b <= y
  BY <1>1
<1>4. /\ a >= b => Max(S) = a
      /\ ~(a >= b) => Max(S) = b
      /\ a <= b => Min(S) = a
      /\ ~(a <= b) => Min(S) = b
  BY <1>1, <1>2, <1>3, ExtremeIs
<1> QED
  BY <1>4 DEF S

LEMMA DistanceIs ==
    ASSUME NEW q \in Int, NEW m \in Int
    PROVE  /\ Distance(q, m) \in Nat
           /\ Distance(q, m) = IF q >= 4 * m THEN q - 4 * m ELSE 4 * m - q
<1> DEFINE a == q - 4 * m
           b == 4 * m - q
<1>1. a \in Int /\ b \in Int /\ a = -b
  OBVIOUS
<1>2. Distance(q, m) = IF a >= b THEN a ELSE b
  BY <1>1, MaxOfTwo DEF Distance
<1> QED
  BY <1>2

\* The subsets of a set that grows by one element become twice as many.
LEMMA PowersDouble == \A n \in Nat : 2 ^ n \in Nat /\ 2 ^ (n + 1) = 2 * (2 ^ n)
<1> SUFFICES ASSUME NEW n \in Nat PROVE 2 ^ n \in Nat /\ 2 ^ (n + 1) = 2 * (2 ^ n)
  OBVIOUS
<1> DEFINE A == 1 .. n
           B == 1 .. n + 1
           P == SUBSET A
           Q == {X \cup {n + 1} : X \in P}
<1>1. /\ IsFiniteSet(A) /\ Cardinality(A) = n
      /\ IsFiniteSet(B) /\ Cardinality(B) = n + 1
  <2>1. Cardinality(A) = IF 1 > n THEN 0 ELSE (n - 1) + 1
    BY FS_Interval
  <2>2. Cardinality(B) = IF 1 > n + 1 THEN 0 ELSE ((n + 1) - 1) + 1
    BY FS_Interval
  <2>3. IsFiniteSet(A) /\ IsFiniteSet(B)
    BY FS_Interval
  <2> QED
    BY <2>1, <2>2, <2>3
<1>2. B = A \cup {n + 1} /\ n + 1 \notin A
  OBVIOUS
<1> HIDE DEF A, B
<1>3. /\ IsFiniteSet(P) /\ Cardinality(P) = 2 ^ n
      /\ Cardinality(SUBSET B) = 2 ^ (n + 1)
  BY <1>1, FS_SUBSET
<1>4. SUBSET B = P \cup Q /\ P \cap Q = {}
  <2>1. ASSUME NEW X \in SUBSET B PROVE X \in P \cup Q
    <3>1. CASE n + 1 \in X
      <4>1. X \ {n + 1} \in P /\ X = (X \ {n + 1}) \cup {n + 1}
        BY <3>1, <1>2
      <4> QED
        BY <4>1
    <3>2. CASE n + 1 \notin X
      BY <3>2, <1>2
    <3> QED
      BY <3>1, <3>2
  <2>2. P \cup Q \subseteq SUBSET B
    BY <1>2
  <2>3. P \cap Q = {}
    BY <1>2
  <2> QED
    BY <2>1, <2>2, <2>3
<1>5. IsFiniteSet(Q) /\ Cardinality(Q) = Cardinality(P)
  <2> DEFINE f == [X \in P |-> X \cup {n + 1}]
  <2>1. f \in [P -> Q] /\ \A Y \in Q : \E X \in P : f[X] = Y
    OBVIOUS
  <2>2. ASSUME NEW X \in P, NEW Y \in P, f[X] = f[Y] PROVE X = Y
    <3>1. X \cup {n + 1} = Y \cup {n + 1} /\ n + 1 \notin X /\ n + 1 \notin Y
      BY <2>2, <1>2
    <3> QED
      BY <3>1
  <2> HIDE DEF f, P, Q
  <2>3. f \in Bijection(P, Q)
    BY <2>1, <2>2 DEF Bijection, Injection, Surjection, IsInjective
  <2>4. ExistsBijection(P, Q)
    BY <2>3 DEF ExistsBijection
  <2> QED
    BY <2>4, <1>3, FS_Bijection
<1> HIDE DEF P, Q
<1>6. Cardinality(P \cup Q) = Cardinality(P) + (Cardinality(Q) - Cardinality(P \cap Q))
  BY <1>3, <1>5, FS_Union
<1>7. Cardinality(P \cap Q) = 0 /\ Cardinality(P) \in Nat
  BY <1>3, <1>4, FS_EmptySet, FS_CardinalityType
<1> DEFINE c == Cardinality(P)
<1>8. c = 2 ^ n /\ c \in Nat /\ 2 ^ (n + 1) = Cardinality(P \cup Q)
  BY <1>3, <1>4, <1>7
<1>9. Cardinality(P \cup Q) = c + (c - 0)
  BY <1>5, <1>6, <1>7
<1> HIDE DEF c
<1>10. Cardinality(P \cup Q) = 2 * c
  BY <1>8, <1>9
<1> QED
  BY <1>8, <1>10

LEMMA PowerIs ==
    ASSUME NEW bits \in Nat \ {0}
    PROVE  /\ 2 ^ bits \in Nat \ {0} /\ 2 ^ (bits - 1) \in Nat \ {0}
           /\ 2 ^ bits = 2 * (2 ^ (bits - 1))
<1> DEFINE K == {n \in Nat : 2 ^ n # 0}
<1>1. 0 \in K
  <2>1. 2 ^ 0 = 1
    OBVIOUS
  <2> QED
    BY <2>1
<1>2. ASSUME NEW n \in Nat, n \in K PROVE n + 1 \in K
  <2>1. 2 ^ n \in Nat /\ 2 ^ (n + 1) = 2 * (2 ^ n) /\ 2 ^ n # 0
    BY <1>2, PowersDouble
  <2> QED
    BY <2>1
<1> HIDE DEF K
<1>3. \A n \in Nat : n \in K
  BY <1>1, <1>2, SetInduction
<1>4. bits - 1 \in Nat /\ (bits - 1) + 1 = bits
  OBVIOUS
<1>5. 2 ^ (bits - 1) \in Nat /\ 2 ^ (bits - 1) # 0
  BY <1>3, <1>4, PowersDouble DEF K
<1>6. 2 ^ bits = 2 * (2 ^ (bits - 1))
  BY <1>4, PowersDouble
<1> QED
  BY <1>5, <1>6

LEMMA RangeIs ==
    ASSUME NEW bits \in Nat \ {0}, NEW unsigned \in BOOLEAN
    PROVE  /\ LowerBound(bits, unsigned) \in Int /\ UpperBound(bits, unsigned) \in Int
           /\ LowerBound(bits, unsigned) <= 0 /\ UpperBound(bits, unsigned) >= 0
           /\ UpperBound(bits, unsigned) = LowerBound(bits, unsigned) + (2 ^ bits - 1)
           /\ ~unsigned => UpperBound(bits, unsigned) = 2 ^ (bits - 1) - 1
           /\ unsigned => LowerBound(bits, unsigned) = 0
<1> DEFINE p == 2 ^ bits
           h == 2 ^ (bits - 1)
<1>1. p \in Nat \ {0} /\ h \in Nat \ {0} /\ p = 2 * h
  BY PowerIs
<1>2. CASE unsigned
  <2>1. LowerBound(bits, unsigned) = 0 /\ UpperBound(bits, unsigned) = p - 1
    BY <1>2 DEF LowerBound, UpperBound
  <2> HIDE DEF p, h
  <2>2. p - 1 \in Int /\ p - 1 >= 0 /\ p - 1 = 0 + (p - 1)
    BY <1>1
  <2> QED
    BY <2>1, <2>2, <1>2 DEF p
<1>3. CASE ~unsigned
  <2>1. LowerBound(bits, unsigned) = -h /\ UpperBound(bits, unsigned) = h - 1
    BY <1>3 DEF LowerBound, UpperBound
  <2> HIDE DEF p, h
  <2>2. -h \in Int /\ -h <= 0 /\ h - 1 \in Int /\ h - 1 >= 0 /\ h - 1 = -h + (p - 1)
    BY <1>1
  <2> QED
    BY <2>1, <2>2, <1>3 DEF p, h
<1> QED
  BY <1>2, <1>3

LEMMA SafeRangeIs ==
    ASSUME NEW unsigned \in BOOLEAN
    PROVE  /\ SafeLowerBound(unsigned) \in Int /\ SafeUpperBound \in Int
           /\ SafeLowerBound(unsigned) <= 0 /\ SafeUpperBound >= 0
<1> DEFINE p == 2 ^ SafeBits
<1>1. p \in Nat \ {0}
  BY WebIdlAssumption, PowerIs
<1>2. /\ SafeUpperBound = p - 1
      /\ SafeLowerBound(unsigned) = IF unsigned THEN 0 ELSE 1 - p
  BY DEF SafeUpperBound, SafeLowerBound
<1> HIDE DEF p
<1> QED
  BY <1>1, <1>2

\* What integerPart returns is the number without its fraction.
LEMMA WholeIs ==
    ASSUME NEW q \in Int
    PROVE  Whole(q) = IntegerPart(q) /\ IntegerPart(q) \in Int
<1> DEFINE w == IntegerPart(q)
           I == IF q >= 0 THEN 0 .. q ELSE q .. 0
           Is(m) == Distance(q, m) < 4 /\ 4 * m \in I
           C == {q \div 4, q \div 4 + 1}
<1>1. q \in Int
  OBVIOUS
<1>2. /\ w \in Int
      /\ q >= 0 => 0 <= w /\ 4 * w <= q /\ q - 4 * w < 4
      /\ q < 0 => w <= 0 /\ q <= 4 * w /\ 4 * w - q < 4
  <2>1. CASE q >= 0
    <3>1. w = q \div 4
      BY <2>1 DEF IntegerPart
    <3> QED
      BY <1>1, <2>1, <3>1
  <2>2. CASE q < 0
    <3>1. w = -((-q) \div 4)
      BY <1>1, <2>2 DEF IntegerPart
    <3> QED
      BY <1>1, <2>2, <3>1
  <2> QED
    BY <1>1, <2>1, <2>2
<1> HIDE DEF w
<1>3. w \in C
  <2> DEFINE f == q \div 4
             e == q % 4
  <2>1. f \in Int /\ e \in 0 .. 3 /\ q = 4 * f + e
    OBVIOUS
  <2> HIDE DEF f, e
  <2>2. w = f \/ w = f + 1
    BY <1>2, <2>1
  <2> QED
    BY <2>2 DEF f
<1>4. Is(w)
  <2>1. Distance(q, w) < 4
    <3>1. Distance(q, w) = IF q >= 4 * w THEN q - 4 * w ELSE 4 * w - q
      BY <1>1, <1>2, DistanceIs
    <3> QED
      BY <1>1, <1>2, <3>1
  <2>2. 4 * w \in I
    BY <1>1, <1>2
  <2> QED
    BY <2>1, <2>2
<1>5. ASSUME NEW m \in C, Is(m) PROVE m = w
  <2>1. m \in Int
    BY <1>1
  <2>2. Distance(q, m) < 4 /\ 4 * m \in I
    BY <1>5
  <2> DEFINE d == Distance(q, m)
  <2>5. d = IF q >= 4 * m THEN q - 4 * m ELSE 4 * m - q
    BY <1>1, <2>1, DistanceIs
  <2>6. d < 4
    BY <2>2
  <2> HIDE DEF d
  <2>3. CASE q >= 0
    <3>1. 4 * m <= q /\ q - 4 * m < 4
      BY <1>1, <2>1, <2>2, <2>3, <2>5, <2>6
    <3> QED
      BY <1>1, <1>2, <2>1, <2>3, <3>1
  <2>4. CASE q < 0
    <3>1. q <= 4 * m /\ 4 * m - q < 4
      BY <1>1, <2>1, <2>2, <2>4, <2>5, <2>6
    <3> QED
      BY <1>1, <1>2, <2>1, <2>4, <3>1
  <2> QED
    BY <1>1, <2>3, <2>4
<1>6. Whole(q) = CHOOSE m \in C : Is(m)
  BY DEF Whole
<1> HIDE DEF Is, C
<1>7. Whole(q) = w
  BY <1>3, <1>4, <1>5, <1>6
<1> QED
  BY <1>2, <1>7 DEF w

\* evenRound: the nearest whole number, the even one of two.
LEMMA EvenRoundIs ==
    ASSUME NEW q \in Int
    PROVE  /\ EvenRound(q) \in Int
           /\ Distance(q, EvenRound(q)) <= 2
           /\ Distance(q, EvenRound(q)) = 2 => EvenRound(q) % 2 = 0
<1> DEFINE r == EvenRound(q)
           f == q \div 4
           e == q % 4
           i == IntegerPart(q)
           g == f % 2
<1>1. f \in Int /\ e \in 0 .. 3 /\ q = 4 * f + e
  OBVIOUS
<1>2. (q + 2) \div 4 = IF e >= 2 THEN f + 1 ELSE f
  OBVIOUS
<1>3. /\ q >= 0 => i = f
      /\ q < 0 => i = IF e = 0 THEN f ELSE f + 1
  BY DEF IntegerPart
<1>4. g \in {0, 1} /\ (f + 1) % 2 = 1 - g
  OBVIOUS
<1>5. r = IF (q > 0 /\ e = 2 /\ i % 2 = 0) \/ (q < 0 /\ e = 2 /\ i % 2 = 1)
          THEN f ELSE (q + 2) \div 4
  BY DEF EvenRound, Half, MathFloor, MathRound
<1>6. r \in Int /\ (e # 2 => r = IF e >= 2 THEN f + 1 ELSE f)
  BY <1>1, <1>2, <1>5
<1>7. e = 2 => r \in {f, f + 1} /\ r % 2 = 0
  <2>1. ASSUME e = 2, q > 0 PROVE r \in {f, f + 1} /\ r % 2 = 0
    <3>1. i = f
      BY <2>1, <1>3
    <3>2. r = IF g = 0 THEN f ELSE f + 1
      BY <2>1, <3>1, <1>2, <1>5
    <3> QED
      BY <3>2, <1>4
  <2>2. ASSUME e = 2, q < 0 PROVE r \in {f, f + 1} /\ r % 2 = 0
    <3>1. i = f + 1
      BY <2>2, <1>3
    <3>2. i % 2 = 1 - g
      BY <3>1, <1>4
    <3> HIDE DEF r, g, i, f, e
    <3>3. r = IF 1 - g = 1 THEN f ELSE f + 1
      BY <2>2, <3>2, <1>2, <1>5
    <3>4. r = IF g = 0 THEN f ELSE f + 1
      BY <3>3, <1>4
    <3> QED
      BY <3>4, <1>4 DEF g
  <2>3. e = 2 => q # 0
    OBVIOUS
  <2> QED
    BY <2>1, <2>2, <2>3
<1> HIDE DEF r, f, e, i, g
<1>8. /\ r \in Int
      /\ e = 0 => r = f
      /\ e = 1 => r = f
      /\ e = 2 => r = f \/ r = f + 1
      /\ e = 3 => r = f + 1
  BY <1>6, <1>7
<1>9. Distance(q, r) <= 2 /\ (Distance(q, r) = 2 => e = 2)
  <2> DEFINE d == Distance(q, r)
  <2>1. d = IF q >= 4 * r THEN q - 4 * r ELSE 4 * r - q
    BY <1>8, DistanceIs
  <2> HIDE DEF d
  <2>2. \/ e \in 0 .. 2 /\ r = f
        \/ e \in 2 .. 3 /\ r = f + 1
    BY <1>1, <1>8
  <2>3. d <= 2 /\ (d = 2 => e = 2)
    BY <1>1, <1>8, <2>1, <2>2
  <2> QED
    BY <2>3 DEF d
<1>10. r \in Int /\ Distance(q, r) <= 2 /\ (Distance(q, r) = 2 => r % 2 = 0)
  BY <1>6, <1>7, <1>9
<1> QED
  BY <1>10 DEF r

\* clamp: the nearest whole number of the range, the even one of two.
LEMMA ClampIs ==
    ASSUME NEW v, NEW low \in Int, NEW high \in Int, low <= high
    PROVE  /\ v.kind = "finite" /\ v.q \in Int =>
                /\ Clamp(v, low, high) \in low .. high
                /\ \A m \in low .. high \ {Clamp(v, low, high)} :
                    \/ Distance(v.q, Clamp(v, low, high)) < Distance(v.q, m)
                    \/ /\ Distance(v.q, Clamp(v, low, high)) = Distance(v.q, m)
                       /\ Clamp(v, low, high) % 2 = 0
           /\ v.kind = "Infinity" => Clamp(v, low, high) = high
           /\ v.kind = "-Infinity" => Clamp(v, low, high) = low
<1>1. v.kind = "Infinity" => Clamp(v, low, high) = high
  BY DEF Clamp
<1>2. v.kind = "-Infinity" => Clamp(v, low, high) = low
  BY DEF Clamp
<1>3. ASSUME v.kind = "finite", NEW q \in Int, v.q = q
      PROVE  /\ Clamp(v, low, high) \in low .. high
             /\ \A m \in low .. high \ {Clamp(v, low, high)} :
                    \/ Distance(q, Clamp(v, low, high)) < Distance(q, m)
                    \/ /\ Distance(q, Clamp(v, low, high)) = Distance(q, m)
                       /\ Clamp(v, low, high) % 2 = 0
  <2> DEFINE a == Max({q, 4 * low})
             c == Min({a, 4 * high})
             n == EvenRound(c)
  <2>1. Clamp(v, low, high) = n
    BY <1>3 DEF Clamp
  <2>2. a = IF q >= 4 * low THEN q ELSE 4 * low
    BY MaxOfTwo
  <2>3. a \in Int
    BY <2>2
  <2> HIDE DEF a
  <2>4. c = IF a <= 4 * high THEN a ELSE 4 * high
    BY <2>3, MaxOfTwo
  <2>5. c \in Int
    BY <2>3, <2>4
  <2>6. /\ q < 4 * low => c = 4 * low
        /\ q > 4 * high => c = 4 * high
        /\ 4 * low <= q /\ q <= 4 * high => c = q
    BY <2>2, <2>4
  <2> HIDE DEF c
  <2>7. /\ n \in Int
        /\ Distance(c, n) <= 2
        /\ Distance(c, n) = 2 => n % 2 = 0
    BY <2>5, EvenRoundIs
  <2> HIDE DEF n
  <2> DEFINE even == n % 2 = 0
  <2>8. /\ c - 4 * n <= 2 /\ 4 * n - c <= 2
        /\ c - 4 * n = 2 \/ 4 * n - c = 2 => even
    <3> DEFINE d == Distance(c, n)
    <3>1. d = IF c >= 4 * n THEN c - 4 * n ELSE 4 * n - c
      BY <2>5, <2>7, DistanceIs
    <3>2. d <= 2 /\ (d = 2 => even)
      BY <2>7
    <3> HIDE DEF d, even
    <3> QED
      BY <2>5, <2>7, <3>1, <3>2
  <2> HIDE DEF even
  <2>9. /\ c = 4 * low => n = low
        /\ c = 4 * high => n = high
    BY <2>5, <2>7, <2>8
  <2>10. n \in low .. high
    <3>1. CASE q < 4 * low
      BY <3>1, <2>6, <2>9
    <3>2. CASE q > 4 * high
      BY <3>2, <2>6, <2>9
    <3>3. CASE 4 * low <= q /\ q <= 4 * high
      <4>1. c = q
        BY <3>3, <2>6
      <4> QED
        BY <4>1, <3>3, <2>7, <2>8
    <3> QED
      BY <3>1, <3>2, <3>3
  <2>11. ASSUME NEW m \in low .. high, m # n
         PROVE  \/ Distance(q, n) < Distance(q, m)
                \/ Distance(q, n) = Distance(q, m) /\ even
    <3> DEFINE d == Distance(q, n)
               e == Distance(q, m)
    <3>1. m \in Int /\ n \in Int
      BY <2>7
    <3>2. d = IF q >= 4 * n THEN q - 4 * n ELSE 4 * n - q
      BY <3>1, DistanceIs
    <3>3. e = IF q >= 4 * m THEN q - 4 * m ELSE 4 * m - q
      BY <3>1, DistanceIs
    <3> SUFFICES d < e \/ (d = e /\ even)
      OBVIOUS
    <3> HIDE DEF d, e
    <3>4. CASE q < 4 * low
      BY <3>4, <2>6, <2>9, <2>11, <3>1, <3>2, <3>3
    <3>5. CASE q > 4 * high
      BY <3>5, <2>6, <2>9, <2>11, <3>1, <3>2, <3>3
    <3>6. CASE 4 * low <= q /\ q <= 4 * high
      <4>1. c = q
        BY <3>6, <2>6
      <4>2. d <= 2 /\ (d = 2 => even)
        BY <4>1, <2>8, <3>1, <3>2
      <4>3. e >= 2
        BY <4>1, <2>8, <2>11, <3>1, <3>3
      <4> QED
        BY <4>2, <4>3, <3>1, <3>2, <3>3
    <3> QED
      BY <3>4, <3>5, <3>6
  <2> QED
    BY <2>1, <2>10, <2>11 DEF even
<1> QED
  BY <1>1, <1>2, <1>3

LEMMA ProductIsLarge ==
    ASSUME NEW y \in Nat \ {0}, NEW k \in Int
    PROVE  y * k \in Int /\ (k > 0 => y * k >= y) /\ (k < 0 => y * k <= -y)
<1>1. \A a, b \in Nat : a * b >= 0
  OBVIOUS
<1>2. k > 0 => y * (k - 1) >= 0
  BY <1>1
<1>3. k < 0 => y * (-1 - k) >= 0
  BY <1>1
<1>4. y * (k - 1) = y * k - y /\ y * (-1 - k) = -y - y * k /\ y * k \in Int
  OBVIOUS
<1> QED
  BY <1>2, <1>3, <1>4

LEMMA RemainderIs ==
    ASSUME NEW y \in Nat \ {0}, NEW k \in Int, NEW a \in 0 .. y - 1, NEW x, x = y * k + a
    PROVE  x % y = a
<1> DEFINE j == x \div y
           b == x % y
           p == y * k
           r == y * j
<1>1. x \in Int
  OBVIOUS
<1>2. j \in Int /\ b \in 0 .. y - 1 /\ x = r + b
  BY <1>1
<1> HIDE DEF j, b
<1>3. p \in Int /\ r \in Int /\ y * (k - j) = p - r
  BY <1>2
<1>4. /\ k - j > 0 => y * (k - j) >= y
      /\ k - j < 0 => y * (k - j) <= -y
  <2>1. k - j \in Int
    BY <1>2
  <2> QED
    BY <2>1, ProductIsLarge
<1>5. x = p + a
  OBVIOUS
<1> HIDE DEF p
<1>6. k - j = 0
  <2>1. p - r = b - a
    <3> HIDE DEF r
    <3> QED
      BY <1>2, <1>3, <1>5
  <2> HIDE DEF r
  <2>2. p - r < y /\ p - r > -y
    BY <2>1, <1>2
  <2> QED
    BY <1>2, <1>3, <1>4, <2>2
<1>7. p = r
  BY <1>2, <1>6 DEF p
<1> HIDE DEF r
<1>8. b = a
  BY <1>2, <1>3, <1>5, <1>7
<1> QED
  BY <1>8 DEF b

\* The remainder of a division whose remainder has the sign of what is divided.
LEMMA ModuloIs ==
    ASSUME NEW x \in Int, NEW y \in Nat \ {0}
    PROVE  Modulo(x, y) = x % y /\ x % y \in 0 .. y - 1
<1> DEFINE s == Sign(x)
           z == s * x
           e == z % y
           d == z \div y
           r == s * e
           k == x \div y
           m == x % y
<1>1. Modulo(x, y) = IF Sign(y) # Sign(r) THEN r + y ELSE r
  BY DEF Modulo
<1>2. Sign(y) = 1
  BY DEF Sign
<1>3. s = IF x < 0 THEN -1 ELSE 1
  BY DEF Sign
<1>4. z \in Int /\ z = IF x < 0 THEN -x ELSE x
  BY <1>3
<1>5. m \in 0 .. y - 1
  OBVIOUS
<1>6. CASE x >= 0
  <2>1. r = m
    <3>1. z = x /\ s = 1
      BY <1>3, <1>4, <1>6
    <3>2. e = m
      BY <3>1
    <3> HIDE DEF e, m, s
    <3> QED
      BY <3>1, <3>2, <1>5
  <2> HIDE DEF r, m
  <2>2. Sign(r) = 1
    BY <2>1, <1>5 DEF Sign
  <2> QED
    BY <1>1, <1>2, <1>5, <2>1, <2>2 DEF m
<1>7. CASE x < 0
  <2>1. z = -x /\ s = -1
    BY <1>3, <1>4, <1>7
  <2> HIDE DEF z, s
  <2>2. e \in 0 .. y - 1 /\ e = (-x) % y
    BY <2>1
  <2>3. r = -e
    <3> HIDE DEF e
    <3> QED
      BY <2>1, <2>2
  <2>4. m = IF e = 0 THEN 0 ELSE y - e
    <3> DEFINE h == (-x) \div y
    <3>1. h \in Int /\ -x = y * h + e
      BY <2>2
    <3> HIDE DEF h, e
    <3>2. y * h \in Int /\ y * (-h) = -(y * h) /\ y * (-h - 1) = -(y * h) - y
      BY <3>1
    <3>3. x = y * (-h) + (-e) /\ x = y * (-h - 1) + (y - e)
      BY <2>2, <3>1, <3>2
    <3>4. CASE e = 0
      <4>1. x = y * (-h) + 0 /\ -h \in Int /\ 0 \in 0 .. y - 1
        BY <3>1, <3>2, <3>3, <3>4
      <4> QED
        BY <4>1, <3>4, RemainderIs
    <3>5. CASE e # 0
      <4> DEFINE b == y - e
                 j == -h - 1
      <4>1. b \in 0 .. y - 1 /\ j \in Int
        BY <2>2, <3>1, <3>5
      <4>2. x = y * j + b
        BY <3>3
      <4> HIDE DEF b, j
      <4>3. x % y = b
        BY <4>1, <4>2, RemainderIs
      <4> QED
        BY <4>3, <3>5 DEF b
    <3> QED
      BY <3>4, <3>5
  <2> HIDE DEF r, m, e
  <2>5. Sign(r) = IF e = 0 THEN 1 ELSE -1
    BY <2>2, <2>3 DEF Sign
  <2> QED
    BY <1>1, <1>2, <1>5, <2>2, <2>3, <2>4, <2>5 DEF m
<1> QED
  BY <1>6, <1>7

\* Without an option: the one number of the range that is congruent to x.  It is
\* found without the exact remainder for the shorter types, with it for long long.
LEMMA WrapIs ==
    ASSUME NEW x \in Int, NEW bits \in Nat \ {0}, NEW unsigned \in BOOLEAN
    PROVE  /\ Wrap(x, bits, unsigned) \in LowerBound(bits, unsigned) .. UpperBound(bits, unsigned)
           /\ (x - Wrap(x, bits, unsigned)) % (2 ^ bits) = 0
<1> DEFINE p == 2 ^ bits
           h == 2 ^ (bits - 1)
           low == LowerBound(bits, unsigned)
           high == UpperBound(bits, unsigned)
           m == x % p
           k == x \div p
           n == Wrap(x, bits, unsigned)
<1>1. p \in Nat \ {0} /\ h \in Nat \ {0} /\ p = 2 * h
  BY PowerIs
<1>2. /\ low \in Int /\ high \in Int
      /\ low <= 0 /\ high >= 0 /\ high = low + (p - 1)
      /\ ~unsigned => high = h - 1
      /\ unsigned => low = 0
  BY RangeIs
<1>3. Modulo(x, p) = m
  BY <1>1, ModuloIs
<1>4. n = IF x \in low .. high THEN x
          ELSE IF ~unsigned /\ m >= h THEN m - p ELSE m
  BY <1>3 DEF Wrap
<1> HIDE DEF p, h, low, high, n
<1>5. m \in 0 .. p - 1 /\ k \in Int /\ x = p * k + m
  BY <1>1
<1> HIDE DEF m, k
<1>6. n \in low .. high /\ n \in {x, m, m - p}
  <2>1. CASE x \in low .. high
    BY <1>4, <2>1
  <2>2. CASE x \notin low .. high /\ ~unsigned
    <3>1. high = h - 1 /\ low = -h
      BY <1>1, <1>2, <2>2
    <3> QED
      BY <1>1, <1>4, <1>5, <2>2, <3>1
  <2>3. CASE x \notin low .. high /\ unsigned
    <3>1. low = 0 /\ high = p - 1
      BY <1>1, <1>2, <2>3
    <3> QED
      BY <1>1, <1>4, <1>5, <2>3, <3>1
  <2> QED
    BY <2>1, <2>2, <2>3
<1>7. PICK j \in Int : x - n = p * j + 0
  <2>1. CASE n = x
    <3>1. x - n = p * 0 + 0
      BY <1>1, <2>1
    <3> QED
      BY <3>1
  <2>2. CASE n = m
    <3>1. x - n = p * k + 0
      BY <1>1, <1>5, <2>2
    <3> QED
      BY <1>5, <3>1
  <2>3. CASE n = m - p
    <3>1. p * (k + 1) = p * k + p /\ k + 1 \in Int
      BY <1>1, <1>5
    <3>2. x - n = p * (k + 1) + 0
      BY <1>1, <1>5, <2>3, <3>1
    <3> QED
      BY <3>1, <3>2
  <2> QED
    BY <1>6, <2>1, <2>2, <2>3
<1>8. 0 \in 0 .. p - 1
  BY <1>1
<1>9. (x - n) % p = 0
  <2> DEFINE y == x - n
  <2>1. y = p * j + 0
    BY <1>7
  <2> HIDE DEF y
  <2>2. y % p = 0
    BY <1>1, <1>7, <1>8, <2>1, RemainderIs
  <2> QED
    BY <2>2 DEF y
<1> QED
  BY <1>6, <1>9 DEF p, low, high, n

LEMMA AsBigIntNIs ==
    ASSUME NEW x \in Int, NEW bits \in Nat \ {0}, NEW unsigned \in BOOLEAN
    PROVE  /\ AsBigIntN(x, bits, unsigned) \in LowerBound(bits, unsigned) .. UpperBound(bits, unsigned)
           /\ (x - AsBigIntN(x, bits, unsigned)) % (2 ^ bits) = 0
<1> DEFINE R == LowerBound(bits, unsigned) .. UpperBound(bits, unsigned)
           Is(n) == (x - n) % (2 ^ bits) = 0
<1>1. Wrap(x, bits, unsigned) \in R /\ Is(Wrap(x, bits, unsigned))
  BY WrapIs
<1>2. AsBigIntN(x, bits, unsigned) = CHOOSE n \in R : Is(n)
  BY DEF AsBigIntN
<1> HIDE DEF R, Is
<1>3. AsBigIntN(x, bits, unsigned) \in R /\ Is(AsBigIntN(x, bits, unsigned))
  BY <1>1, <1>2
<1> QED
  BY <1>3 DEF R, Is

-----------------------------------------------------------------------------
(* Numbers with SafeBits significant bits.                                   *)

LEMMA PowersAdd == \A a, b \in Nat : 2 ^ (a + b) = 2 ^ a * 2 ^ b
<1> SUFFICES ASSUME NEW a \in Nat PROVE \A b \in Nat : 2 ^ (a + b) = 2 ^ a * 2 ^ b
  OBVIOUS
<1> DEFINE K == {b \in Nat : 2 ^ (a + b) = 2 ^ a * 2 ^ b}
           A == 2 ^ a
<1>1. A \in Nat
  BY PowersDouble
<1>2. 0 \in K
  <2>1. 2 ^ 0 = 1 /\ a + 0 = a
    OBVIOUS
  <2>2. A = A * 1
    BY <1>1
  <2> QED
    BY <2>1, <2>2
<1>3. ASSUME NEW b \in Nat, b \in K PROVE b + 1 \in K
  <2> DEFINE B == 2 ^ b
             C == 2 ^ (a + b)
  <2>1. C = A * B
    BY <1>3
  <2>2. B \in Nat /\ C \in Nat /\ 2 ^ (b + 1) = 2 * B
    BY PowersDouble
  <2>3. 2 ^ ((a + b) + 1) = 2 * C /\ (a + b) + 1 = a + (b + 1)
    <3>1. a + b \in Nat
      OBVIOUS
    <3> QED
      BY <3>1, PowersDouble
  <2> HIDE DEF A, B, C
  <2>4. 2 * C = A * (2 * B)
    BY <1>1, <2>1, <2>2
  <2> QED
    BY <2>2, <2>3, <2>4 DEF A
<1> HIDE DEF K
<1>4. \A b \in Nat : b \in K
  BY <1>2, <1>3, SetInduction
<1> QED
  BY <1>4 DEF K

LEMMA PowersGrow ==
    ASSUME NEW a \in Nat, NEW b \in Nat
    PROVE  /\ 2 ^ a \in Nat \ {0} /\ 2 ^ b \in Nat \ {0}
           /\ a <= b => 2 ^ a <= 2 ^ b
           /\ a < b => 2 ^ a < 2 ^ b
<1>1. \A n \in Nat : 2 ^ n \in Nat \ {0}
  <2>1. ASSUME NEW n \in Nat PROVE 2 ^ n \in Nat \ {0}
    <3>1. n + 1 \in Nat \ {0} /\ (n + 1) - 1 = n
      OBVIOUS
    <3> QED
      BY <3>1, PowerIs
  <2> QED
    BY <2>1
<1> DEFINE A == 2 ^ a
           B == 2 ^ b
<1>2. ASSUME a <= b PROVE A <= B /\ (a < b => A < B)
  <2> DEFINE c == b - a
             C == 2 ^ c
  <2>1. c \in Nat /\ a + c = b /\ (a < b => c \in Nat \ {0})
    BY <1>2
  <2>2. B = A * C
    BY <2>1, PowersAdd
  <2>3. a < b => C > 1
    <3>1. ASSUME a < b PROVE C > 1
      <4> DEFINE H == 2 ^ (c - 1)
      <4>1. H \in Nat \ {0} /\ C = 2 * H
        BY <2>1, <3>1, PowerIs
      <4> HIDE DEF H, C
      <4> QED
        BY <4>1
    <3> QED
      BY <3>1
  <2>4. A \in Nat \ {0} /\ C \in Nat \ {0}
    BY <1>1, <2>1
  <2> HIDE DEF A, B, C, c
  <2>5. A * (C - 1) = A * C - A /\ C - 1 \in Int
    BY <2>4
  <2>6. C - 1 > 0 => A * (C - 1) >= A
    BY <2>4, <2>5, ProductIsLarge
  <2>7. C = 1 => B = A
    BY <2>2, <2>4
  <2>8. A * C \in Int
    BY <2>4
  <2>9. C > 1 => A < B
    BY <2>2, <2>4, <2>5, <2>6, <2>8
  <2>10. B \in Int /\ (C = 1 \/ C > 1)
    BY <2>2, <2>4, <2>8
  <2> QED
    BY <2>3, <2>4, <2>7, <2>9, <2>10
<1> HIDE DEF A, B
<1>3. A \in Nat \ {0} /\ B \in Nat \ {0}
  BY <1>1 DEF A, B
<1> QED
  BY <1>2, <1>3 DEF A, B

\* The spacing at x is a power of two, with the least exponent that has room for x.
LEMMA SpacingIs ==
    ASSUME NEW x \in Int
    PROVE  \E e \in Nat : /\ Spacing(x) = 2 ^ e /\ HasRoom(x, e)
                          /\ \A f \in Nat : HasRoom(x, f) => e <= f
<1> DEFINE M == Magnitude(x)
           T == {e \in Nat : HasRoom(x, e)}
           Is(e) == HasRoom(x, e) /\ (e > 0 => ~HasRoom(x, e - 1))
<1>1. M \in Nat /\ SafeBits \in Nat
  BY WebIdlAssumption DEF Magnitude
<1>2. M \in T
  <2> DEFINE K == {n \in Nat : n < 2 ^ n}
  <2>1. 0 \in K
    <3>1. 2 ^ 0 = 1
      OBVIOUS
    <3> QED
      BY <3>1
  <2>2. ASSUME NEW n \in Nat, n \in K PROVE n + 1 \in K
    <3>1. 2 ^ n \in Nat /\ 2 ^ (n + 1) = 2 * (2 ^ n) /\ n < 2 ^ n
      BY <2>2, PowersDouble
    <3> QED
      BY <3>1
  <2> HIDE DEF K
  <2>3. \A n \in Nat : n \in K
    BY <2>1, <2>2, SetInduction
  <2> HIDE DEF M
  <2>4. M < 2 ^ M
    BY <1>1, <2>3 DEF K
  <2>5. 2 ^ M <= 2 ^ (SafeBits + M) /\ 2 ^ M \in Nat /\ 2 ^ (SafeBits + M) \in Nat
    BY <1>1, PowersGrow
  <2>6. M <= 2 ^ (SafeBits + M)
    <3> DEFINE a == 2 ^ M
               b == 2 ^ (SafeBits + M)
    <3>1. M < a /\ a <= b /\ a \in Nat /\ b \in Nat
      BY <2>4, <2>5
    <3> HIDE DEF a, b
    <3>2. M <= b
      BY <1>1, <3>1
    <3> QED
      BY <3>2 DEF b
  <2> QED
    BY <1>1, <2>6 DEF HasRoom, M
<1>3. ASSUME NEW e \in Nat, NEW f \in Nat, e <= f, HasRoom(x, e) PROVE HasRoom(x, f)
  <2> DEFINE a == 2 ^ (SafeBits + e)
             b == 2 ^ (SafeBits + f)
  <2>1. a <= b /\ a \in Nat /\ b \in Nat
    BY <1>1, <1>3, PowersGrow
  <2>2. M <= a
    BY <1>3 DEF HasRoom
  <2> HIDE DEF a, b, M
  <2>3. M <= b
    BY <1>1, <2>1, <2>2
  <2> QED
    BY <2>3 DEF HasRoom, b, M
<1> HIDE DEF M
<1>4. T \subseteq Nat /\ T # {}
  BY <1>1, <1>2
<1>5. Min(T) \in T /\ \A n \in T : Min(T) <= n
  BY <1>4, MinProperty
<1> DEFINE d == Min(T)
<1>6. d \in 0 .. M /\ Is(d)
  <2> HIDE DEF d
  <2>1. d \in T /\ \A n \in T : d <= n
    BY <1>5 DEF d
  <2>2. d > 0 => d - 1 \in Nat /\ ~(d <= d - 1)
    BY <2>1
  <2> QED
    BY <1>1, <1>2, <2>1, <2>2
<1>7. PICK e \in 0 .. M : /\ Is(e)
                          /\ e = CHOOSE n \in 0 .. M : Is(n)
  <2> HIDE DEF Is, d
  <2> QED
    BY <1>6
<1>8. Spacing(x) = 2 ^ e
  BY <1>7 DEF Spacing, M
<1>9. ASSUME NEW f \in Nat, HasRoom(x, f) PROVE e <= f
  <2> SUFFICES ASSUME f < e PROVE FALSE
    BY <1>1, <1>7
  <2>1. e - 1 \in Nat /\ f <= e - 1 /\ e > 0
    BY <1>1, <1>7
  <2>2. HasRoom(x, e - 1)
    BY <1>3, <1>9, <2>1
  <2> QED
    BY <1>7, <2>1, <2>2
<1>10. e \in Nat
  BY <1>1, <1>7
<1> QED
  BY <1>7, <1>8, <1>9, <1>10

LEMMA DoubleIs ==
    ASSUME NEW x \in Int, IsDouble(x)
    PROVE  \E e \in Nat, k \in Int : x = 2 ^ e * k /\ HasRoom(x, e)
<1>1. PICK e \in Nat : Spacing(x) = 2 ^ e /\ HasRoom(x, e)
  BY SpacingIs
<1> DEFINE u == 2 ^ e
           k == x \div u
<1>2. u \in Nat \ {0} /\ x % u = 0
  BY <1>1, PowersGrow DEF IsDouble
<1> HIDE DEF u
<1>3. k \in Int /\ x = u * k + (x % u)
  BY <1>2
<1> HIDE DEF k
<1>4. x = u * k
  BY <1>2, <1>3
<1> QED
  BY <1>1, <1>3, <1>4 DEF u

LEMMA DoubleIf ==
    ASSUME NEW x \in Int, NEW e \in Nat, NEW k \in Int, x = 2 ^ e * k, HasRoom(x, e)
    PROVE  IsDouble(x)
<1>1. PICK f \in Nat : Spacing(x) = 2 ^ f /\ f <= e
  BY SpacingIs
<1> DEFINE u == 2 ^ f
           w == 2 ^ (e - f)
<1>2. 2 ^ e = u * w
  <2>1. e - f \in Nat /\ f + (e - f) = e
    BY <1>1
  <2> QED
    BY <2>1, PowersAdd
<1>3. u \in Nat \ {0} /\ w \in Nat \ {0}
  <2>1. e - f \in Nat
    BY <1>1
  <2> QED
    BY <2>1, PowersGrow
<1>4. x = (u * w) * k
  BY <1>2
<1> HIDE DEF u, w
<1>5. x = u * (w * k) /\ w * k \in Int
  BY <1>3, <1>4
<1> DEFINE i == w * k
<1> HIDE DEF i
<1>6. x = u * i + 0 /\ i \in Int /\ 0 \in 0 .. u - 1
  BY <1>3, <1>5 DEF i
<1>7. x % u = 0
  BY <1>3, <1>6, RemainderIs
<1> QED
  BY <1>1, <1>7 DEF IsDouble, u

\* What is left of a double without its fraction is a double.
LEMMA PartIsDouble ==
    ASSUME NEW q \in Int, IsDouble(q)
    PROVE  IsDouble(IntegerPart(q))
<1> DEFINE x == IntegerPart(q)
           s == 2 ^ SafeBits
<1>1. PICK e \in Nat, k \in Int : q = 2 ^ e * k /\ HasRoom(q, e)
  BY DoubleIs
<1>2. x \in Int
  BY DEF IntegerPart
<1>3. 4 * Magnitude(x) <= Magnitude(q) /\ Magnitude(x) \in Nat /\ Magnitude(q) \in Nat
  <2>1. CASE q >= 0
    <3>1. x = q \div 4
      BY <2>1 DEF IntegerPart
    <3> HIDE DEF x
    <3> QED
      BY <2>1, <3>1 DEF Magnitude
  <2>2. CASE q < 0
    <3>1. x = -((-q) \div 4)
      BY <2>2 DEF IntegerPart
    <3> HIDE DEF x
    <3> QED
      BY <2>2, <3>1 DEF Magnitude
  <2> QED
    BY <2>1, <2>2
<1>4. SafeBits \in Nat /\ s \in Nat
  BY WebIdlAssumption, PowersDouble
<1>5. CASE e < 2
  <2> DEFINE t == 2 ^ (SafeBits + e)
  <2>1. t <= 2 * s /\ t \in Nat
    <3>1. 2 ^ (SafeBits + 1) = 2 * s
      BY <1>4, PowersDouble
    <3>2. SafeBits + e \in Nat /\ SafeBits + 1 \in Nat /\ SafeBits + e <= SafeBits + 1
      BY <1>4, <1>5
    <3> QED
      BY <3>1, <3>2, PowersGrow
  <2>2. Magnitude(q) <= t
    BY <1>1 DEF HasRoom
  <2> DEFINE a == Magnitude(x)
             b == Magnitude(q)
  <2> HIDE DEF s, t, a, b
  <2>3. a <= s
    BY <1>3, <1>4, <2>1, <2>2 DEF a, b
  <2>4. HasRoom(x, 0)
    <3>1. SafeBits + 0 = SafeBits
      BY <1>4
    <3> QED
      BY <2>3, <3>1 DEF HasRoom, s, a
  <2> HIDE DEF x
  <2>5. x = 2 ^ 0 * x
    <3>1. 2 ^ 0 = 1
      OBVIOUS
    <3>2. x = 1 * x
      BY <1>2
    <3> QED
      BY <3>1, <3>2
  <2>6. IsDouble(x)
    BY <1>2, <2>4, <2>5, DoubleIf
  <2> QED
    BY <2>6 DEF x
<1>6. CASE e >= 2
  <2> DEFINE f == e - 2
             u == 2 ^ f
             t == 2 ^ (SafeBits + f)
  <2>1. f \in Nat /\ SafeBits + f \in Nat
    BY <1>4, <1>6
  <2>2. u \in Nat /\ t \in Nat /\ 2 ^ e = 4 * u /\ 2 ^ (SafeBits + e) = 4 * t
    <3>1. \A n \in Nat : 2 ^ n \in Nat /\ 2 ^ (n + 2) = 4 * (2 ^ n)
      <4>1. ASSUME NEW n \in Nat PROVE 2 ^ n \in Nat /\ 2 ^ (n + 2) = 4 * (2 ^ n)
        <5>1. 2 ^ n \in Nat /\ 2 ^ (n + 1) = 2 * (2 ^ n)
          BY PowersDouble
        <5>2. 2 ^ ((n + 1) + 1) = 2 * (2 ^ (n + 1)) /\ (n + 1) + 1 = n + 2
          <6>1. n + 1 \in Nat
            OBVIOUS
          <6> QED
            BY <6>1, PowersDouble
        <5> QED
          BY <5>1, <5>2
      <4> QED
        BY <4>1
    <3>2. f + 2 = e /\ (SafeBits + f) + 2 = SafeBits + e
      BY <1>4
    <3> QED
      BY <2>1, <3>1, <3>2
  <2>3. q = (4 * u) * k /\ Magnitude(q) <= 4 * t
    BY <1>1, <2>2 DEF HasRoom
  <2> HIDE DEF u, t
  <2>4. u * k \in Int /\ q = 4 * (u * k)
    BY <2>2, <2>3
  <2> DEFINE y == u * k
  <2> HIDE DEF y
  <2>5. x = y
    BY <2>4 DEF IntegerPart, y
  <2> DEFINE a == Magnitude(x)
             b == Magnitude(q)
  <2> HIDE DEF a, b, x
  <2>6. a <= t
    BY <1>3, <2>2, <2>3 DEF a, b
  <2>7. HasRoom(x, f)
    BY <2>6 DEF HasRoom, a, t
  <2>8. x = 2 ^ f * k
    BY <2>5 DEF y, u
  <2>9. IsDouble(x)
    BY <1>2, <2>1, <2>7, <2>8, DoubleIf
  <2> QED
    BY <2>9 DEF x
<1> QED
  BY <1>5, <1>6

\* A double of h bits and more keeps its last bits in a place where a number of h
\* bits is a double.
LEMMA LastBitsAreDouble ==
    ASSUME NEW x \in Int, IsDouble(x), NEW h \in Nat, SafeBits <= h, h <= LongBits,
           2 ^ h <= Magnitude(x), NEW j \in Int, NEW m \in Int, x - m = 2 ^ LongBits * j,
           Magnitude(m) <= 2 ^ h
    PROVE  IsDouble(m)
<1>1. PICK e \in Nat, k \in Int : x = 2 ^ e * k /\ HasRoom(x, e)
  BY DoubleIs
<1>2. SafeBits \in Nat /\ LongBits \in Nat /\ Magnitude(x) \in Nat
  BY WebIdlAssumption DEF Magnitude
<1> DEFINE g == h - SafeBits
<1>3. g \in Nat /\ SafeBits + g = h /\ LongBits - g \in Nat /\ g + (LongBits - g) = LongBits
  BY <1>2
<1>4. g <= e
  <2> SUFFICES ASSUME SafeBits + e < h PROVE FALSE
    BY <1>2
  <2> DEFINE a == 2 ^ (SafeBits + e)
             b == 2 ^ h
             M == Magnitude(x)
  <2>1. a < b /\ a \in Nat /\ b \in Nat
    BY <1>2, PowersGrow
  <2>2. M <= a /\ b <= M
    BY <1>1 DEF HasRoom
  <2>3. M \in Nat
    BY <1>2
  <2> HIDE DEF a, b, M
  <2> QED
    BY <2>1, <2>2, <2>3
<1> DEFINE u == 2 ^ g
           v == 2 ^ (e - g)
           w == 2 ^ (LongBits - g)
<1>5. 2 ^ e = u * v /\ 2 ^ LongBits = u * w
  <2>1. e - g \in Nat /\ g + (e - g) = e
    BY <1>3, <1>4
  <2> HIDE DEF g
  <2> QED
    BY <1>3, <2>1, PowersAdd
<1>6. u \in Nat /\ v \in Nat /\ w \in Nat
  <2>1. e - g \in Nat
    BY <1>3, <1>4
  <2> QED
    BY <1>3, <2>1, PowersDouble
<1>7. x = (u * v) * k /\ x - m = (u * w) * j
  BY <1>1, <1>5
<1> HIDE DEF u, v, w, g
<1>8. m = x - (u * w) * j
  BY <1>6, <1>7
<1>9. (u * v) * k - (u * w) * j = u * (v * k - w * j) /\ v * k - w * j \in Int
  BY <1>6
<1>10. m = u * (v * k - w * j)
  BY <1>7, <1>8, <1>9
<1>11. HasRoom(m, g)
  BY <1>3 DEF HasRoom
<1>12. m = 2 ^ g * (v * k - w * j)
  BY <1>10 DEF u
<1> QED
  BY <1>3, <1>9, <1>11, <1>12, DoubleIf

\* The last 64 bits of a double are a double, signed or not, unless they are those of
\* a negative number taken without their sign.
LEMMA LongLongIsDouble ==
    ASSUME NEW x \in Int, IsDouble(x), NEW unsigned \in BOOLEAN, unsigned => x >= 0
    PROVE  IsDouble(AsBigIntN(x, LongBits, unsigned))
<1> DEFINE m == AsBigIntN(x, LongBits, unsigned)
           low == LowerBound(LongBits, unsigned)
           high == UpperBound(LongBits, unsigned)
           p == 2 ^ LongBits
           h == IF unsigned THEN LongBits ELSE LongBits - 1
           b == 2 ^ h
           j == (x - m) \div p
<1>1. SafeBits \in Nat /\ LongBits \in Nat \ {0} /\ SafeBits < LongBits
  BY WebIdlAssumption
<1>2. h \in Nat /\ SafeBits <= h /\ h <= LongBits
  BY <1>1
<1>3. /\ m \in low .. high /\ (x - m) % p = 0
  BY <1>1, AsBigIntNIs
<1>4. /\ low \in Int /\ high \in Int /\ high = low + (p - 1)
      /\ low = IF unsigned THEN 0 ELSE -b
      /\ high = b - 1
      /\ p \in Nat \ {0} /\ b \in Nat \ {0}
  <2>1. /\ low \in Int /\ high \in Int /\ high = low + (p - 1)
        /\ unsigned => low = 0
        /\ ~unsigned => high = 2 ^ (LongBits - 1) - 1
    BY <1>1, RangeIs
  <2>2. p \in Nat \ {0} /\ 2 ^ (LongBits - 1) \in Nat \ {0} /\ p = 2 * (2 ^ (LongBits - 1))
    BY <1>1, PowerIs
  <2>3. b = IF unsigned THEN p ELSE 2 ^ (LongBits - 1)
    OBVIOUS
  <2>4. b \in Nat \ {0} /\ (unsigned => p = b) /\ (~unsigned => p = 2 * b /\ high = b - 1)
    BY <2>1, <2>2, <2>3
  <2> HIDE DEF b, low, high, p
  <2> QED
    BY <2>1, <2>2, <2>4
<1> HIDE DEF m, low, high, p, h, b
<1>5. m \in Int /\ j \in Int /\ x - m = p * j
  <2>1. m \in Int /\ x - m \in Int
    BY <1>3, <1>4
  <2>2. j \in Int /\ x - m = p * j + ((x - m) % p)
    BY <1>4, <2>1
  <2> HIDE DEF j
  <2> QED
    BY <1>3, <1>4, <2>1, <2>2
<1> HIDE DEF j
<1>6. CASE Magnitude(x) < b
  <2>1. x \in low .. high
    BY <1>4, <1>6 DEF Magnitude
  <2>2. x - m < p /\ x - m > -p
    BY <1>3, <1>4, <1>5, <2>1
  <2>3. (j > 0 => p * j >= p) /\ (j < 0 => p * j <= -p)
    BY <1>4, <1>5, ProductIsLarge
  <2>4. j = 0
    <3> DEFINE r == p * j
    <3>1. r < p /\ r > -p /\ (j > 0 => r >= p) /\ (j < 0 => r <= -p) /\ r \in Int
      BY <1>4, <1>5, <2>2, <2>3
    <3> HIDE DEF r
    <3> QED
      BY <1>4, <1>5, <3>1
  <2>5. m = x
    <3>1. p * 0 = 0
      BY <1>4
    <3> QED
      BY <1>5, <2>4, <3>1
  <2> QED
    BY <2>5 DEF m
<1>7. CASE ~(Magnitude(x) < b)
  <2>1. b <= Magnitude(x)
    BY <1>4, <1>7 DEF Magnitude
  <2>2. Magnitude(m) <= b
    BY <1>3, <1>4, <1>5 DEF Magnitude
  <2>3. IsDouble(m)
    BY <1>2, <1>5, <2>1, <2>2, LastBitsAreDouble DEF b, p
  <2> QED
    BY <2>3 DEF m
<1> QED
  BY <1>6, <1>7

\* Number of a BigInt that is a double is exact.
LEMMA NumberIsExact ==
    ASSUME NEW x \in Int, IsDouble(x)
    PROVE  NumberOf(x) = x
<1>1. PICK e \in Nat : Spacing(x) = 2 ^ e
  BY SpacingIs
<1> DEFINE u == Spacing(x)
           k == x \div u
           rest == x % u
<1>2. u \in Nat \ {0} /\ rest = 0
  BY <1>1, PowersGrow DEF IsDouble
<1>3. NumberOf(x) = IF 2 * rest < u \/ (2 * rest = u /\ k % 2 = 0) THEN k * u ELSE (k + 1) * u
  BY DEF NumberOf
<1> HIDE DEF u
<1>4. k \in Int /\ x = u * k + rest
  BY <1>2
<1> HIDE DEF k, rest
<1>5. x = k * u
  BY <1>2, <1>4
<1>6. NumberOf(x) = k * u
  BY <1>2, <1>3
<1> QED
  BY <1>5, <1>6

\* Where it is not, it is a double than which none is nearer.
LEMMA NumberIsNearest ==
    ASSUME NEW m \in Nat
    PROVE  Nearest(NumberOf(m), m)
<1>0. m \in Int
  OBVIOUS
<1>1. PICK e \in Nat : /\ Spacing(m) = 2 ^ e /\ HasRoom(m, e)
                       /\ \A f \in Nat : HasRoom(m, f) => e <= f
  BY <1>0, SpacingIs
<1> DEFINE u == Spacing(m)
           k == m \div u
           rest == m % u
           n == NumberOf(m)
           s == 2 ^ SafeBits
           t == 2 ^ (SafeBits + e)
<1>2. u \in Nat \ {0} /\ SafeBits \in Nat \ {0}
  BY <1>1, PowersGrow, WebIdlAssumption
<1>3. n = IF 2 * rest < u \/ (2 * rest = u /\ k % 2 = 0) THEN k * u ELSE (k + 1) * u
  BY DEF NumberOf
<1>4. s \in Nat \ {0} /\ t \in Nat \ {0} /\ t = s * u
  BY <1>1, <1>2, PowersGrow, PowersAdd
<1>5. Magnitude(m) = m /\ m <= t
  BY <1>1 DEF Magnitude, HasRoom
<1> HIDE DEF u, n
<1>6. k \in Nat /\ rest \in 0 .. u - 1 /\ m = u * k + rest
  BY <1>2
<1> HIDE DEF k, rest, s, t
<1> DEFINE a == u * k
<1>7. a \in Nat /\ k * u = a /\ (k + 1) * u = a + u
  BY <1>2, <1>6
<1>8. m = a + rest
  BY <1>6
<1>9. \/ n = a /\ 2 * rest <= u
      \/ n = a + u /\ 2 * rest >= u
  <2> HIDE DEF a
  <2> QED
    BY <1>2, <1>3, <1>6, <1>7
<1>10. IsDouble(n)
  <2>1. PICK c \in {k, k + 1} : n = u * c /\ n <= t /\ n \in Nat
    <3>1. CASE n = a
      <4>1. a <= t
        <5> HIDE DEF a
        <5> QED
          BY <1>4, <1>5, <1>6, <1>7, <1>8
      <4> QED
        BY <3>1, <4>1, <1>7
    <3>2. CASE n = a + u /\ 2 * rest >= u
      <4>1. k < s
        <5> SUFFICES ASSUME k >= s PROVE FALSE
          BY <1>4, <1>6
        <5> DEFINE z == u * (k - s)
        <5>1. k - s \in Nat /\ u * (k - s) = u * k - s * u
          BY <1>2, <1>4, <1>6
        <5>2. \A i, l \in Nat : i * l >= 0
          OBVIOUS
        <5>3. z >= 0 /\ z = a - t
          BY <1>2, <1>4, <5>1, <5>2
        <5> HIDE DEF z, a
        <5> QED
          BY <1>2, <1>4, <1>5, <1>6, <1>7, <1>8, <3>2, <5>3
      <4> DEFINE z == u * (s - (k + 1))
      <4>2. s - (k + 1) \in Nat /\ z = s * u - (k + 1) * u
        BY <1>2, <1>4, <1>6, <4>1
      <4>3. \A i, l \in Nat : i * l >= 0
        OBVIOUS
      <4>4. z >= 0 /\ z = t - (a + u)
        BY <1>2, <1>4, <1>7, <4>2, <4>3
      <4>5. u * (k + 1) = a + u
        BY <1>2, <1>6
      <4> HIDE DEF z, a
      <4>6. a + u <= t
        BY <1>2, <1>4, <1>7, <4>4
      <4>7. n = u * (k + 1) /\ n <= t /\ n \in Nat
        BY <1>2, <1>7, <3>2, <4>5, <4>6
      <4> QED
        BY <4>7
    <3> QED
      BY <1>9, <3>1, <3>2
  <2>2. c \in Int /\ n = 2 ^ e * c
    BY <1>1, <1>6, <2>1 DEF u
  <2>3. HasRoom(n, e)
    <3>1. Magnitude(n) = n
      BY <2>1 DEF Magnitude
    <3> QED
      BY <2>1, <3>1 DEF HasRoom, t
  <2> QED
    BY <2>1, <2>2, <2>3, DoubleIf
<1>11. ASSUME NEW d \in Nat, IsDouble(d) PROVE d <= a \/ d >= a + u \/ rest = 0
  <2> SUFFICES ASSUME a < d, d < a + u, rest > 0 PROVE FALSE
    <3> HIDE DEF a
    <3> QED
      BY <1>2, <1>6, <1>7
  <2>1. PICK f \in Nat, c \in Int : d = 2 ^ f * c /\ HasRoom(d, f)
    BY <1>11, DoubleIs
  <2>2. CASE e <= f
    <3> DEFINE w == 2 ^ (f - e)
    <3>1. w \in Nat /\ 2 ^ f = u * w
      <4>1. f - e \in Nat /\ e + (f - e) = f
        BY <2>2
      <4>2. 2 ^ f = 2 ^ e * 2 ^ (f - e)
        BY <4>1, PowersAdd
      <4> QED
        BY <1>1, <4>1, <4>2, PowersDouble DEF u
    <3>2. d = (u * w) * c
      BY <2>1, <3>1
    <3> HIDE DEF w
    <3> DEFINE i == w * c - k
    <3>3. i \in Int /\ u * i = d - a
      <4>1. u * (w * c - k) = (u * w) * c - u * k /\ w * c - k \in Int
        BY <1>2, <1>6, <3>1
      <4> QED
        BY <3>2, <4>1
    <3> HIDE DEF i
    <3>4. (i > 0 => u * i >= u) /\ (i < 0 => u * i <= -u) /\ (i = 0 => u * i = 0)
      BY <1>2, <3>3, ProductIsLarge
    <3> HIDE DEF a
    <3> QED
      BY <1>2, <1>7, <3>3, <3>4
  <2>3. CASE f < e
    <3> DEFINE g == e - 1
               b == 2 ^ (SafeBits + g)
               y == 2 ^ (SafeBits - 1)
    <3>1. g \in Nat /\ ~(e <= g) /\ f <= g
      BY <2>3
    <3>2. m > b
      <4>1. ~HasRoom(m, g)
        BY <1>1, <3>1
      <4>2. b \in Nat
        BY <1>2, <3>1, PowersDouble
      <4> HIDE DEF g, b
      <4> QED
        BY <1>5, <4>1, <4>2 DEF HasRoom, b
    <3>3. d <= b
      <4> DEFINE l == 2 ^ (SafeBits + f)
      <4>1. l <= b /\ l \in Nat /\ b \in Nat
        BY <1>2, <3>1, PowersGrow
      <4>2. d <= l
        <5>1. Magnitude(d) = d
          BY DEF Magnitude
        <5> QED
          BY <2>1, <5>1 DEF HasRoom
      <4> HIDE DEF l, b
      <4> QED
        BY <4>1, <4>2
    <3>4. b = u * y /\ y \in Nat
      <4>1. SafeBits - 1 \in Nat /\ SafeBits + g = e + (SafeBits - 1)
        BY <1>2
      <4>2. 2 ^ (e + (SafeBits - 1)) = 2 ^ e * 2 ^ (SafeBits - 1)
        BY <4>1, PowersAdd
      <4> QED
        BY <1>1, <4>1, <4>2, PowersDouble DEF u
    <3> HIDE DEF b, y
    <3> DEFINE i == k - y
    <3>5. i \in Int /\ u * i = a - b
      <4>1. u * (k - y) = u * k - u * y
        BY <1>2, <1>6, <3>4
      <4> QED
        BY <1>6, <3>4, <4>1
    <3> HIDE DEF i
    <3>6. i < 0 => u * i <= -u
      BY <1>2, <3>5, ProductIsLarge
    <3>7. i >= 0 => u * i >= 0
      BY <1>2, <3>5
    <3>8. b \in Nat
      BY <1>2, <3>4
    <3> HIDE DEF a
    <3> QED
      BY <1>2, <1>6, <1>7, <1>8, <3>2, <3>3, <3>5, <3>6, <3>7, <3>8
  <2> QED
    BY <2>2, <2>3
<1>12. ASSUME NEW d \in 0 .. 2 ^ LongBits, IsDouble(d)
       PROVE  Magnitude(n - m) <= Magnitude(d - m)
  <2>1. d \in Nat
    BY WebIdlAssumption, PowersDouble
  <2>2. d <= a \/ d >= a + u \/ rest = 0
    BY <1>11, <1>12, <2>1
  <2> HIDE DEF a
  <2> QED
    BY <1>2, <1>6, <1>7, <1>8, <1>9, <2>1, <2>2 DEF Magnitude
<1> QED
  BY <1>10, <1>12 DEF Nearest, n

-----------------------------------------------------------------------------
(* The conversions to integers.                                              *)

LEMMA EnforceRangeIs ==
    ASSUME NEW v \in Numbers, NEW low \in Int, NEW high \in Int
    PROVE  /\ EnforceRange(v, low, high).ok
                <=> v.kind = "finite" /\ Whole(v.q) \in low .. high
           /\ EnforceRange(v, low, high).ok =>
                EnforceRange(v, low, high).value[1] = Whole(v.q)
<1> DEFINE w == IntegerPart(v.q)
           r == EnforceRange(v, low, high)
<1>1. r = IF v.kind # "finite" \/ w < low \/ w > high THEN Throws ELSE Gives(w)
  BY DEF EnforceRange
<1>2. ~Throws.ok /\ Gives(w).ok /\ Gives(w).value[1] = w
  BY DEF Throws, Gives
<1>3. CASE v.kind = "finite"
  <2>1. v.q \in Int
    BY <1>3, WebIdlAssumption DEF Numbers
  <2>2. Whole(v.q) = w /\ w \in Int
    BY <2>1, WholeIs
  <2> HIDE DEF w
  <2>3. w \in low .. high <=> ~(w < low \/ w > high)
    BY <2>2
  <2> HIDE DEF r
  <2>4. r.ok <=> w \in low .. high
    BY <1>1, <1>2, <1>3, <2>3
  <2>5. r.ok => r.value[1] = w
    BY <1>1, <1>2
  <2> QED
    BY <1>3, <2>2, <2>4, <2>5 DEF r
<1>4. CASE v.kind # "finite"
  BY <1>1, <1>2, <1>4
<1> QED
  BY <1>3, <1>4

\* The two conversions keep what the options promise.
LEMMA ConversionConverts ==
    ASSUME NEW v \in Numbers, NEW bits \in BitLengths \cup {LongBits}, NEW unsigned \in BOOLEAN,
           NEW option \in {"none", "enforceRange", "clamp"}
    PROVE  IntegerConverts(v, bits, unsigned, option,
               IF bits = LongBits THEN LongLongConversion(v, unsigned, option)
               ELSE IntegerConversion(v, bits, unsigned, option))
<1> DEFINE isLong == bits = LongBits
           long == isLong /\ option # "none"
           low == IF long THEN SafeLowerBound(unsigned) ELSE LowerBound(bits, unsigned)
           high == IF long THEN SafeUpperBound ELSE UpperBound(bits, unsigned)
           r == IF bits = LongBits THEN LongLongConversion(v, unsigned, option)
                ELSE IntegerConversion(v, bits, unsigned, option)
           n == r.value[1]
           wrapped == IF isLong THEN NumberOf(AsBigIntN(IntegerPart(v.q), LongBits, unsigned))
                      ELSE Wrap(IntegerPart(v.q), bits, unsigned)
           isRounded == isLong /\ option = "none" /\ unsigned /\ v.kind = "finite" /\ v.q < 0
<1>1. bits \in Nat \ {0}
  BY WebIdlAssumption
<1>2. low \in Int /\ high \in Int /\ low <= 0 /\ high >= 0
  BY <1>1, RangeIs, SafeRangeIs
<1>3. r = IF NoNumber(v) THEN Throws
          ELSE IF option = "enforceRange" THEN EnforceRange(v, low, high)
          ELSE IF option = "clamp" /\ v.kind # "NaN" THEN Gives(Clamp(v, low, high))
          ELSE Gives(IF v.kind = "finite" THEN wrapped ELSE 0)
  <2>1. CASE isLong
    BY <2>1 DEF LongLongConversion
  <2>2. CASE ~isLong
    BY <2>2 DEF IntegerConversion
  <2> QED
    BY <2>1, <2>2
<1>4. ~Throws.ok /\ \A x : Gives(x).ok /\ Gives(x).value[1] = x
  BY DEF Throws, Gives
<1>5. /\ v.kind \in {"finite", "NaN", "Infinity", "-Infinity", "bigint", "symbol"}
      /\ v.kind = "finite" => v.q \in Int /\ IsDouble(v.q)
      /\ NoNumber(v) <=> v.kind \in {"bigint", "symbol"}
  BY WebIdlAssumption DEF Numbers, NoNumber
<1> DEFINE InRange(m) == m \in low .. high
           Closest == \A m \in low .. high \ {n} :
                        \/ Distance(v.q, n) < Distance(v.q, m)
                        \/ Distance(v.q, n) = Distance(v.q, m) /\ n % 2 = 0
           Congruent(m) == (Whole(v.q) - m) % (2 ^ bits) = 0
           Rounded == \E m \in low .. high : Congruent(m) /\ Nearest(n, m)
<1> SUFFICES
      /\ r.ok <=> ~NoNumber(v) /\ (option = "enforceRange" => v.kind = "finite" /\ InRange(Whole(v.q)))
      /\ r.ok /\ ~isRounded => InRange(n)
      /\ r.ok /\ v.kind = "finite" =>
            CASE option = "enforceRange" -> n = Whole(v.q)
              [] option = "clamp" -> Closest
              [] OTHER -> IF isRounded THEN Rounded ELSE Congruent(n)
      /\ r.ok /\ v.kind = "Infinity" => n = IF option = "clamp" THEN high ELSE 0
      /\ r.ok /\ v.kind = "-Infinity" => n = IF option = "clamp" THEN low ELSE 0
      /\ r.ok /\ v.kind = "NaN" => n = 0
  BY DEF IntegerConverts
<1>6. InRange(0)
  BY <1>2
<1>7. CASE NoNumber(v)
  BY <1>3, <1>4, <1>5, <1>7
<1>8. CASE ~NoNumber(v) /\ option = "enforceRange"
  <2>1. r = EnforceRange(v, low, high)
    BY <1>3, <1>8
  <2> HIDE DEF r, low, high
  <2>2. /\ r.ok <=> v.kind = "finite" /\ InRange(Whole(v.q))
        /\ r.ok => n = Whole(v.q)
    BY <1>2, <2>1, EnforceRangeIs
  <2> HIDE DEF n, InRange, Closest, Congruent, Rounded
  <2> QED
    BY <1>8, <2>2
<1>9. CASE ~NoNumber(v) /\ option = "clamp" /\ v.kind # "NaN"
  <2>1. r.ok /\ n = Clamp(v, low, high)
    BY <1>3, <1>4, <1>9
  <2>2. v.kind = "finite" => v.q \in Int
    BY <1>5, WebIdlAssumption
  <2> HIDE DEF n, r, low, high
  <2>3. /\ v.kind = "finite" => InRange(n) /\ Closest
        /\ v.kind = "Infinity" => n = high
        /\ v.kind = "-Infinity" => n = low
    BY <1>2, <2>1, <2>2, ClampIs
  <2>4. InRange(high) /\ InRange(low)
    BY <1>2
  <2> HIDE DEF InRange, Closest, Congruent, Rounded
  <2> QED
    BY <1>5, <1>9, <2>1, <2>3, <2>4
<1>10. CASE ~NoNumber(v) /\ option # "enforceRange" /\ ~(option = "clamp" /\ v.kind # "NaN")
  <2>1. r.ok /\ n = IF v.kind = "finite" THEN wrapped ELSE 0
    BY <1>3, <1>4, <1>10
  <2>2. v.kind = "finite" =>
            /\ option = "none"
            /\ IF isRounded THEN Rounded ELSE InRange(n) /\ Congruent(n)
    <3> SUFFICES ASSUME v.kind = "finite"
                 PROVE  /\ option = "none"
                        /\ IF isRounded THEN Rounded ELSE InRange(n) /\ Congruent(n)
      OBVIOUS
    <3>1. option = "none"
      BY <1>10
    <3>2. low = LowerBound(bits, unsigned) /\ high = UpperBound(bits, unsigned)
      BY <3>1
    <3>3. Whole(v.q) = IntegerPart(v.q) /\ IntegerPart(v.q) \in Int
      BY <1>5, WholeIs
    <3>4. n = wrapped
      BY <2>1
    <3> HIDE DEF n, r, low, high
    <3> DEFINE w == Whole(v.q)
               m == IF isLong THEN AsBigIntN(w, bits, unsigned) ELSE Wrap(w, bits, unsigned)
    <3>5. n = IF isLong THEN NumberOf(m) ELSE m
      BY <3>3, <3>4
    <3>6. w \in Int /\ IsDouble(w) /\ (unsigned /\ v.q >= 0 => w >= 0)
      <4>1. v.q >= 0 => IntegerPart(v.q) >= 0
        BY <1>5 DEF IntegerPart
      <4> QED
        BY <1>5, <3>3, <4>1, PartIsDouble
    <3>7. InRange(m) /\ Congruent(m)
      <4> HIDE DEF w
      <4>1. InRange(m) /\ (w - m) % (2 ^ bits) = 0
        BY <1>1, <3>2, <3>6, WrapIs, AsBigIntNIs
      <4> QED
        BY <4>1 DEF w
    <3>8. CASE isRounded
      <4>1. m \in Nat
        <5>1. low = 0
          BY <1>1, <3>2, <3>8, RangeIs
        <5> HIDE DEF m
        <5> QED
          BY <1>2, <3>7, <5>1
      <4> HIDE DEF m
      <4>2. Nearest(n, m)
        BY <3>5, <3>8, <4>1, NumberIsNearest
      <4> QED
        BY <3>1, <3>7, <3>8, <4>2
    <3>9. CASE ~isRounded
      <4>1. isLong => IsDouble(m) /\ m \in Int
        <5>1. ASSUME isLong PROVE IsDouble(m) /\ m \in Int
          <6>1. m = AsBigIntN(w, LongBits, unsigned) /\ (unsigned => w >= 0)
            BY <1>5, <3>1, <3>6, <3>9, <5>1
          <6> HIDE DEF w, m
          <6>2. m \in Int
            BY <1>2, <3>7
          <6> QED
            BY <3>6, <6>1, <6>2, LongLongIsDouble
        <5> QED
          BY <5>1
      <4> HIDE DEF m
      <4>2. n = m
        BY <3>5, <4>1, NumberIsExact
      <4> QED
        BY <3>1, <3>7, <3>9, <4>2
    <3> QED
      BY <3>8, <3>9
  <2> HIDE DEF n, r, InRange, Closest, Congruent, Rounded
  <2> QED
    BY <1>5, <1>6, <1>10, <2>1, <2>2
<1> QED
  BY <1>7, <1>8, <1>9, <1>10

-----------------------------------------------------------------------------
(* Objects of WebIDL.                                                        *)

LEMMA ValuesAppend ==
    ASSUME NEW S, NEW s \in Seq(S), NEW x \in S
    PROVE  Values(Append(s, x)) = Values(s) \cup {x}
<1> DEFINE a == Append(s, x)
           N == Len(s)
<1>1. N \in Nat /\ Len(a) = N + 1 /\ a[N + 1] = x /\ \A i \in 1 .. N : a[i] = s[i]
  BY AppendProperties, LenProperties
<1>2. Values(a) = {a[i] : i \in 1 .. N + 1} /\ Values(s) = {s[i] : i \in 1 .. N}
  BY <1>1 DEF Values
<1> HIDE DEF a, N
<1>3. 1 .. N + 1 = (1 .. N) \cup {N + 1}
  BY <1>1
<1>4. {a[i] : i \in 1 .. N + 1} = {s[i] : i \in 1 .. N} \cup {x}
  BY <1>1, <1>3
<1> QED
  BY <1>2, <1>4 DEF a

\* What is selected is what was there and is wanted.
LEMMA SelectValues ==
    ASSUME NEW S, NEW s \in Seq(S), NEW T
    PROVE  Values(Select(s, T)) = Values(s) \cap T
<1> DEFINE N == Len(s)
           from(n) == {s[i] : i \in 1 .. n} \cap T
<1>1. PICK of : Selects(of, S, s, T)
  BY SelectSteps
<1>2. N \in Nat /\ \A i \in 1 .. N : s[i] \in S
  BY LenProperties, ElementOfSeq
<1>3. /\ of \in [0 .. N -> Seq(S \cap T)]
      /\ of[0] = <<>> /\ Select(s, T) = of[N]
      /\ \A n \in 1 .. N :
            of[n] = IF s[n] \in T THEN Append(of[n - 1], s[n]) ELSE of[n - 1]
  BY <1>1 DEF Selects
<1>4. Values(s) = {s[i] : i \in 1 .. N}
  BY DEF Values
<1> HIDE DEF N
<1> DEFINE K == {n \in Nat : n <= N => Values(of[n]) = from(n)}
<1>5. 0 \in K
  <2>1. Values(<<>>) = {}
    BY EmptySeq DEF Values
  <2> QED
    BY <1>3, <2>1
<1>6. ASSUME NEW n \in Nat, n \in K PROVE n + 1 \in K
  <2> SUFFICES ASSUME n + 1 <= N PROVE Values(of[n + 1]) = from(n + 1)
    OBVIOUS
  <2> DEFINE x == s[n + 1]
  <2>1. /\ n + 1 \in 1 .. N /\ n \in 0 .. N /\ (n + 1) - 1 = n
        /\ 1 .. n + 1 = (1 .. n) \cup {n + 1}
    BY <1>2
  <2>2. of[n] \in Seq(S \cap T) /\ Values(of[n]) = from(n) /\ x \in S
    BY <1>2, <1>3, <1>6, <2>1
  <2>3. of[n + 1] = IF x \in T THEN Append(of[n], x) ELSE of[n]
    BY <1>3, <2>1
  <2>4. {s[i] : i \in 1 .. n + 1} = {s[i] : i \in 1 .. n} \cup {x}
    BY <2>1
  <2> HIDE DEF x
  <2>5. CASE x \in T
    <3>1. Values(Append(of[n], x)) = Values(of[n]) \cup {x}
      BY <2>2, <2>5, ValuesAppend
    <3> QED
      BY <2>2, <2>3, <2>4, <2>5, <3>1
  <2>6. CASE x \notin T
    BY <2>2, <2>3, <2>4, <2>6
  <2> QED
    BY <2>5, <2>6
<1> HIDE DEF K
<1>7. N \in K
  BY <1>2, <1>5, <1>6, SetInduction
<1>8. Values(of[N]) = from(N)
  BY <1>2, <1>7 DEF K
<1> QED
  BY <1>3, <1>4, <1>8

LEMMA RecordsConvert ==
    ASSUME NEW properties \in Properties, NEW isProxy \in BOOLEAN, NEW typedKey \in TypedKeys
    PROVE  RecordConverts(properties, isProxy, typedKey,
               IF isProxy THEN SlowRecord(properties, typedKey)
               ELSE FastRecord(properties, typedKey))
<1> DEFINE V == Values(properties)
           own == {p \in V : p.enumerable}
           named == {p \in own : ~p.symbol}
           met == IF isProxy THEN own ELSE {p \in V : p.enumerable /\ ~p.symbol}
           r == IF isProxy THEN SlowRecord(properties, typedKey)
                ELSE FastRecord(properties, typedKey)
           Rejected(p) == typedKey[p.key] = NoKey \/ p.value = "bad"
<1>1. properties \in Seq(Property)
  <2>1. properties \in BoundedSeq(Property, MaxProperties)
    BY DEF Properties
  <2> QED
    BY <2>1, WebIdlAssumption DEF BoundedSeq, SeqOf
<1>2. \A p \in V : p \in Property
  <2>1. \A i \in 1 .. Len(properties) : properties[i] \in Property
    BY <1>1, ElementOfSeq
  <2> QED
    BY <2>1 DEF Values
<1>3. V \cap met = met
  OBVIOUS
<1>4. r = RecordOf(Select(properties, met), typedKey)
  BY DEF SlowRecord, FastRecord
<1>5. Values(Select(properties, met)) = met
  BY <1>1, <1>3, SelectValues
<1> HIDE DEF V, r
<1>6. r = IF \E p \in met : p.symbol \/ Rejected(p) THEN Throws
          ELSE Gives([k \in {typedKey[p.key] : p \in met} |-> "given"])
  BY <1>4, <1>5 DEF RecordOf
<1>7. \A p \in V : ~Rejected(p) <=> p.value = "good" /\ typedKey[p.key] # NoKey
  BY <1>2 DEF Property
<1>8. met = IF isProxy THEN own ELSE named
  OBVIOUS
<1>9. named \subseteq own /\ \A p \in own : p \in V
  OBVIOUS
<1>10. \A p \in own : p \in named <=> ~p.symbol
  OBVIOUS
<1> DEFINE Taken(p) == p.value = "good" /\ typedKey[p.key] # NoKey
<1> HIDE DEF met, own, named, Rejected
<1> DEFINE bad == \E p \in met : p.symbol \/ Rejected(p)
           keys == {typedKey[p.key] : p \in met}
<1>11. r.ok <=> ~bad
  BY <1>6 DEF Throws, Gives
<1>12. ~bad => DOMAIN r.value[1] = keys
  <2>1. ~bad => r.value[1] = [k \in keys |-> "given"]
    BY <1>6 DEF Gives
  <2> HIDE DEF keys
  <2> QED
    BY <2>1
<1>13. ~bad <=> (\A p \in named : Taken(p)) /\ (isProxy => named = own)
  <2> HIDE DEF Taken
  <2>0. \A p \in own : ~Rejected(p) <=> Taken(p)
    BY <1>7, <1>9 DEF Taken
  <2>1. CASE isProxy
    <3>1. met = own
      BY <1>8, <2>1
    <3> QED
      BY <1>9, <1>10, <2>0, <2>1, <3>1
  <2>2. CASE ~isProxy
    <3>1. met = named
      BY <1>8, <2>2
    <3> QED
      BY <1>9, <1>10, <2>0, <2>2, <3>1
  <2> QED
    BY <2>1, <2>2
<1>14. ~bad => met = named
  BY <1>8, <1>13
<1>15. /\ r.ok <=> (\A p \in named : Taken(p)) /\ (isProxy => named = own)
       /\ r.ok => DOMAIN r.value[1] = {typedKey[p.key] : p \in named}
  <2> HIDE DEF bad, Taken
  <2> QED
    BY <1>11, <1>12, <1>13, <1>14
<1> QED
  BY <1>15 DEF RecordConverts, own, named, V, r

LEMMA BuffersConvert ==
    ASSUME NEW b \in Buffers, NEW allowShared \in BOOLEAN, NEW accepts, NEW accepted, NEW result,
           accepts \in Names \cup {"ArrayBuffer", "DataView", "ArrayBufferView", "BufferSource"},
           accepted <=> CASE accepts = "ArrayBuffer" -> ArrayBuffer(b, allowShared)
                          [] accepts = "DataView" -> DataView(b, allowShared)
                          [] accepts = "ArrayBufferView" -> ArrayBufferView(b, allowShared)
                          [] accepts = "BufferSource" -> BufferSource(b, allowShared)
                          [] OTHER -> TypedArray(b, accepts, allowShared),
           result = IF accepted THEN Gives(b) ELSE Throws
    PROVE  BufferConverts(b, accepts, allowShared, result)
<1>1. result.ok <=> accepted
  BY DEF Gives, Throws
<1>2. b.is \in {"ArrayBuffer", "DataView", "other"} \cup Names /\ b.shared \in BOOLEAN
  BY Zenon DEF Buffers
<1>3. accepted => SharedAllowed(b, allowShared)
  BY <1>2 DEF ArrayBuffer, DataView, ArrayBufferView, BufferSource, TypedArray, SharedAllowed, Names
<1>4. accepts = "BufferSource" /\ SharedAllowed(b, allowShared) => (accepted <=> b.is # "other")
  BY <1>2 DEF BufferSource, IsView, Names
<1> QED
  BY <1>1, <1>3, <1>4 DEF BufferConverts

\* A dictionary's conversion in progress.
Given(members, v) ==
    {k \in {m.key : m \in members} : v.type = "Object" /\ v.has[k] # "undefined"}
Required(members) == {m.key : m \in {n \in members : n.required}}
Refused(members, v) ==
    {k \in Given(members, v) : v.has[k] = "bad"} \cup (Required(members) \ Given(members, v))
Convertible(v) == v.type \in {"Undefined", "Null", "Object"}
MemberValues == {"good", "bad", "undefined"}
Objects == [type : Types, has : [Keys -> MemberValues]]

DictState ==
    [ok : BOOLEAN, dict : UNION {[D -> {"given", "default"}] : D \in SUBSET Keys},
     reads : Seq(Keys)]

\* All members up to the key k have been read, or one of them was refused.
ReadUpTo(members, v, k, st) ==
    /\ st.ok <=> Convertible(v) /\ \A r \in Refused(members, v) : r > k
    /\ st.ok => st.dict = [x \in {y \in Given(members, v) : y <= k} \cup Defaults(members) |->
                              IF x \in Given(members, v) /\ x <= k THEN "given" ELSE "default"]
    /\ \A x \in Values(st.reads) : x <= k
    /\ Convertible(v) => Values(st.reads) = {x \in {m.key : m \in members} :
                                   x <= k /\ \A r \in Refused(members, v) : x <= r}
    /\ \A i, j \in 1 .. Len(st.reads) : i < j => st.reads[i] < st.reads[j]

LEMMA ReadMemberType ==
    ASSUME NEW st \in DictState, NEW m \in Members, NEW found \in MemberValues
    PROVE  ReadMember(st, m, found) \in DictState
<1> DEFINE d == IF found = "good"
                THEN [k \in DOMAIN st.dict \cup {m.key} |->
                         IF k = m.key THEN "given" ELSE st.dict[k]]
                ELSE st.dict
           ok == IF found = "undefined" THEN ~m.required ELSE found = "good"
           reads == Append(st.reads, m.key)
           Dicts == UNION {[D -> {"given", "default"}] : D \in SUBSET Keys}
<1>1. st.ok \in BOOLEAN /\ st.reads \in Seq(Keys) /\ st.dict \in Dicts
  BY Zenon DEF DictState
<1>2. m.key \in Keys /\ m.required \in BOOLEAN
  BY Zenon DEF Members
<1>3. PICK D \in SUBSET Keys : st.dict \in [D -> {"given", "default"}]
  BY <1>1
<1>4. d \in Dicts
  <2>1. CASE found = "good"
    <3>1. d \in [D \cup {m.key} -> {"given", "default"}]
      BY <1>3, <2>1
    <3>2. D \cup {m.key} \in SUBSET Keys
      BY <1>2
    <3> HIDE DEF d
    <3> QED
      BY <3>1, <3>2
  <2>2. CASE found # "good"
    BY <1>1, <2>2
  <2> QED
    BY <2>1, <2>2
<1>5. reads \in Seq(Keys)
  BY <1>1, <1>2, AppendProperties
<1>6. ok \in BOOLEAN
  BY <1>2, Zenon
<1>7. ReadMember(st, m, found) = IF ~st.ok THEN st ELSE [ok |-> ok, dict |-> d, reads |-> reads]
  BY DEF ReadMember
<1> HIDE DEF d, ok, reads, Dicts
<1>8. [ok |-> ok, dict |-> d, reads |-> reads] \in [ok : BOOLEAN, dict : Dicts, reads : Seq(Keys)]
  BY <1>4, <1>5, <1>6
<1>9. [ok |-> ok, dict |-> d, reads |-> reads] \in DictState
  BY <1>8 DEF DictState, Dicts
<1> QED
  BY <1>7, <1>9

LEMMA ReadsAreKeys ==
    ASSUME NEW st \in DictState
    PROVE  st.reads \in Seq(Keys) /\ Values(st.reads) \subseteq Keys
<1>1. st.reads \in Seq(Keys)
  BY Zenon DEF DictState
<1>2. \A i \in 1 .. Len(st.reads) : st.reads[i] \in Keys
  BY <1>1, ElementOfSeq
<1> QED
  BY <1>1, <1>2 DEF Values

\* A key that no member has is passed over.
LEMMA KeySkipped ==
    ASSUME NEW members \in SUBSET Members, NEW v, NEW k \in Nat, NEW st \in DictState,
           ReadUpTo(members, v, k, st), ~\E m \in members : m.key = k + 1
    PROVE  ReadUpTo(members, v, k + 1, st)
<1> DEFINE Ks == {m.key : m \in members}
           G == Given(members, v)
           R == Refused(members, v)
           D == Defaults(members)
<1>1. k + 1 \notin Ks
  OBVIOUS
<1>2. Ks \subseteq Nat
  BY DEF Members, Keys
<1>3. G \subseteq Ks /\ R \subseteq Ks /\ D \subseteq Ks
  BY DEF Given, Refused, Required, Defaults
<1>4. /\ st.ok <=> Convertible(v) /\ \A r \in R : r > k
      /\ st.ok => st.dict = [x \in {y \in G : y <= k} \cup D |->
                                IF x \in G /\ x <= k THEN "given" ELSE "default"]
      /\ \A x \in Values(st.reads) : x <= k
      /\ Convertible(v) => Values(st.reads) = {x \in Ks : x <= k /\ \A r \in R : x <= r}
      /\ \A i, j \in 1 .. Len(st.reads) : i < j => st.reads[i] < st.reads[j]
  BY DEF ReadUpTo
<1> HIDE DEF Ks, G, R, D
<1>5. \A x \in Ks : (x <= k <=> x <= k + 1) /\ (x > k <=> x > k + 1)
  BY <1>1, <1>2
<1>6. (\A r \in R : r > k) <=> (\A r \in R : r > k + 1)
  BY <1>3, <1>5
<1>7. {y \in G : y <= k} = {y \in G : y <= k + 1}
  BY <1>3, <1>5
<1>8. [x \in {y \in G : y <= k} \cup D |-> IF x \in G /\ x <= k THEN "given" ELSE "default"]
      = [x \in {y \in G : y <= k + 1} \cup D |-> IF x \in G /\ x <= k + 1 THEN "given" ELSE "default"]
  <2>1. \A x \in G : x <= k <=> x <= k + 1
    BY <1>3, <1>5
  <2> QED
    BY <1>7, <2>1
<1>9. {x \in Ks : x <= k /\ \A r \in R : x <= r} = {x \in Ks : x <= k + 1 /\ \A r \in R : x <= r}
  BY <1>5
<1>10. \A x \in Values(st.reads) : x <= k + 1
  <2>1. Values(st.reads) \subseteq Int
    <3>1. Values(st.reads) \subseteq Keys
      BY ReadsAreKeys
    <3> QED
      BY <3>1 DEF Keys
  <2> QED
    BY <1>4, <2>1
<1>11. /\ st.ok <=> Convertible(v) /\ \A r \in R : r > k + 1
       /\ st.ok => st.dict = [x \in {y \in G : y <= k + 1} \cup D |->
                                 IF x \in G /\ x <= k + 1 THEN "given" ELSE "default"]
       /\ Convertible(v) => Values(st.reads) = {x \in Ks : x <= k + 1 /\ \A r \in R : x <= r}
  BY <1>4, <1>6, <1>8, <1>9
<1> QED
  BY <1>4, <1>10, <1>11 DEF ReadUpTo, Ks, G, R, D

ValueOf(v, k) == IF v.type = "Object" THEN v.has[k] ELSE "undefined"

\* The member of a key is read.
LEMMA KeyRead ==
    ASSUME NEW members \in MemberSets, NEW v \in Objects, NEW k \in Nat, NEW st \in DictState,
           ReadUpTo(members, v, k, st), NEW m \in members, m.key = k + 1
    PROVE  ReadUpTo(members, v, k + 1, ReadMember(st, m, ValueOf(v, k + 1)))
<1> DEFINE Ks == {n.key : n \in members}
           G == Given(members, v)
           R == Refused(members, v)
           Q == Required(members)
           D == Defaults(members)
           found == ValueOf(v, k + 1)
           K == k + 1
           next == ReadMember(st, m, found)
           reads == Append(st.reads, K)
           Is(n, s) == [x \in {y \in G : y <= n} \cup D |->
                           IF x \in G /\ x <= n THEN "given" ELSE "default"]
           Come(n) == {x \in Ks : x <= n /\ \A r \in R : x <= r}
<1>1. /\ members \subseteq Members
      /\ \A a, b \in members : a.key = b.key => a = b
  BY DEF MemberSets
<1>2. K \in Ks /\ Ks \subseteq Keys /\ Ks \subseteq Nat
  BY <1>1 DEF Members, Keys
<1>3. G \subseteq Ks /\ Q \subseteq Ks /\ R \subseteq Ks /\ D \subseteq Ks
  BY DEF Given, Refused, Required, Defaults
<1>4. v.has \in [Keys -> MemberValues] /\ v.has[K] \in MemberValues
  <2>1. v.has \in [Keys -> MemberValues]
    BY DEF Objects
  <2> QED
    BY <1>2, <2>1
<1>5. found \in MemberValues
  BY <1>4 DEF ValueOf, MemberValues
<1>6. K \in G <=> found # "undefined"
  BY <1>2 DEF Given, ValueOf
<1>7. K \in Q <=> m.required
  BY <1>1 DEF Required
<1>8. /\ found = "bad" => K \in R
      /\ found = "good" => K \notin R
      /\ found = "undefined" => (K \in R <=> m.required)
  <2>1. K \in G => found = v.has[K]
    BY DEF Given, ValueOf
  <2> QED
    BY <1>6, <1>7, <2>1 DEF Refused
<1>9. m.required \in BOOLEAN
  BY <1>1, Zenon DEF Members
<1>10. /\ st.ok <=> Convertible(v) /\ \A r \in R : r > k
       /\ st.ok => st.dict = Is(k, st)
       /\ \A x \in Values(st.reads) : x <= k
       /\ Convertible(v) => Values(st.reads) = Come(k)
       /\ \A i, j \in 1 .. Len(st.reads) : i < j => st.reads[i] < st.reads[j]
  BY DEF ReadUpTo
<1>11. st.reads \in Seq(Keys) /\ Values(st.reads) \subseteq Keys /\ Keys \subseteq Nat
  BY ReadsAreKeys DEF Keys
<1>12. next = IF ~st.ok THEN st
              ELSE [ok |-> IF found = "undefined" THEN ~m.required ELSE found = "good",
                    dict |-> IF found = "good"
                             THEN [x \in DOMAIN st.dict \cup {K} |->
                                      IF x = K THEN "given" ELSE st.dict[x]]
                             ELSE st.dict,
                    reads |-> reads]
  BY DEF ReadMember
<1> SUFFICES
       /\ next.ok <=> Convertible(v) /\ \A r \in R : r > K
       /\ next.ok => next.dict = Is(K, next)
       /\ \A x \in Values(next.reads) : x <= K
       /\ Convertible(v) => Values(next.reads) = Come(K)
       /\ \A i, j \in 1 .. Len(next.reads) : i < j => next.reads[i] < next.reads[j]
  BY DEF ReadUpTo
<1> HIDE DEF Ks, G, R, Q, D, found, next
<1>15. \A x \in Values(st.reads) : x <= K
  <2> SUFFICES ASSUME NEW x \in Values(st.reads) PROVE x <= K
    OBVIOUS
  <2>1. x <= k
    BY <1>10
  <2>2. x \in Nat
    BY <1>11
  <2> QED
    BY <2>1, <2>2
<1>13. CASE ~st.ok
  <2>1. next = st
    BY <1>12, <1>13
  <2>2. ~(Convertible(v) /\ \A r \in R : r > K)
    <3>1. \A r \in R : r > K => r > k
      BY <1>2, <1>3
    <3> QED
      BY <1>10, <1>13, <3>1
  <2>3. \A x \in Values(st.reads) : x <= K
    BY <1>15
  <2>4. Convertible(v) => Come(k) = Come(K)
    <3> SUFFICES ASSUME Convertible(v) PROVE Come(k) = Come(K)
      OBVIOUS
    <3>1. PICK r \in R : ~(r > k)
      BY <1>10, <1>13
    <3>2. \A x \in Ks : x <= r => x <= k /\ x <= K
      BY <1>2, <1>3, <3>1
    <3> QED
      BY <3>2
  <2> HIDE DEF Come, Is
  <2> QED
    BY <1>10, <1>13, <2>1, <2>2, <2>3, <2>4
<1>14. CASE st.ok
  <2>1. Convertible(v) /\ (\A r \in R : r > k) /\ st.dict = Is(k, st) /\ Values(st.reads) = Come(k)
    BY <1>10, <1>14
  <2>2. next = [ok |-> IF found = "undefined" THEN ~m.required ELSE found = "good",
                    dict |-> IF found = "good"
                             THEN [x \in DOMAIN st.dict \cup {K} |->
                                      IF x = K THEN "given" ELSE st.dict[x]]
                             ELSE st.dict,
                    reads |-> reads]
    BY <1>12, <1>14
  <2>3. next.ok <=> K \notin R
    <3>1. next.ok <=> IF found = "undefined" THEN ~m.required ELSE found = "good"
      BY <2>2
    <3> HIDE DEF K
    <3> QED
      BY <3>1, <1>5, <1>8, <1>9 DEF MemberValues
  <2>4. (\A r \in R : r > K) <=> K \notin R
    BY <1>2, <1>3, <2>1
  <2>5. next.ok => next.dict = Is(K, next)
    <3> SUFFICES ASSUME next.ok PROVE next.dict = Is(K, next)
      OBVIOUS
    <3>1. found \in {"good", "undefined"}
      BY <1>5, <1>8, <2>3 DEF MemberValues
    <3>2. \A x \in Ks : x <= K <=> x <= k \/ x = K
      BY <1>2
    <3>3. CASE found = "good"
      <4>1. next.dict = [x \in DOMAIN st.dict \cup {K} |-> IF x = K THEN "given" ELSE st.dict[x]]
        BY <2>2, <3>3
      <4>2. K \in G
        BY <1>6, <3>3
      <4>3. DOMAIN st.dict = {y \in G : y <= k} \cup D
        BY <2>1
      <4>4. DOMAIN st.dict \cup {K} = {y \in G : y <= K} \cup D
        BY <1>2, <1>3, <3>2, <4>2, <4>3
      <4>5. ASSUME NEW x \in DOMAIN st.dict \cup {K}
            PROVE  (IF x = K THEN "given" ELSE st.dict[x]) = IF x \in G /\ x <= K THEN "given" ELSE "default"
        <5>1. CASE x = K
          <6>1. K <= K
            BY <1>2
          <6> QED
            BY <4>2, <5>1, <6>1
        <5>2. CASE x # K
          <6>1. x \in {y \in G : y <= k} \cup D
            BY <4>3, <4>5, <5>2
          <6>2. st.dict[x] = IF x \in G /\ x <= k THEN "given" ELSE "default"
            BY <2>1, <6>1
          <6>3. x \in Ks
            BY <1>3, <6>1
          <6>4. x <= k <=> x <= K
            BY <3>2, <5>2, <6>3
          <6> QED
            BY <5>2, <6>2, <6>4
        <5> QED
          BY <5>1, <5>2
      <4> QED
        BY <4>1, <4>4, <4>5
    <3>4. CASE found = "undefined"
      <4>1. next.dict = st.dict
        BY <2>2, <3>4
      <4>2. K \notin G
        BY <1>6, <3>4
      <4>3. \A x \in G : x <= k <=> x <= K
        BY <1>3, <3>2, <4>2
      <4>4. {y \in G : y <= k} = {y \in G : y <= K}
        BY <4>3
      <4>5. Is(k, st) = Is(K, next)
        BY <4>3, <4>4
      <4> QED
        BY <2>1, <4>1, <4>5
    <3> QED
      BY <3>1, <3>3, <3>4
  <2>6. next.reads = reads /\ Values(reads) = Values(st.reads) \cup {K}
    <3>1. next.reads = reads
      BY <2>2
    <3>2. Values(reads) = Values(st.reads) \cup {K}
      BY <1>2, <1>11, ValuesAppend
    <3> QED
      BY <3>1, <3>2
  <2>7. \A x \in Values(next.reads) : x <= K
    <3>1. K <= K
      BY <1>2
    <3> HIDE DEF K
    <3> QED
      BY <1>15, <2>6, <3>1
  <2>8. Come(K) = Come(k) \cup {K}
    <3>1. \A x \in Ks : x <= K <=> x <= k \/ x = K
      BY <1>2
    <3>2. \A r \in R : K <= r
      BY <1>2, <1>3, <2>1
    <3> QED
      BY <1>2, <3>1, <3>2
  <2>9. \A i, j \in 1 .. Len(next.reads) : i < j => next.reads[i] < next.reads[j]
    <3> DEFINE N == Len(st.reads)
    <3>1. /\ N \in Nat /\ Len(reads) = N + 1 /\ reads[N + 1] = K
          /\ \A i \in 1 .. N : reads[i] = st.reads[i]
      BY <1>2, <1>11, AppendProperties, LenProperties
    <3>2. \A i \in 1 .. N : st.reads[i] \in Values(st.reads)
      BY DEF Values
    <3>3. \A i \in 1 .. N : st.reads[i] <= k /\ st.reads[i] \in Nat
      BY <1>10, <1>11, <3>2
    <3>4. \A i, j \in 1 .. N : i < j => st.reads[i] < st.reads[j]
      BY <1>10
    <3> HIDE DEF N, reads
    <3>5. ASSUME NEW i \in 1 .. N + 1, NEW j \in 1 .. N + 1, i < j PROVE reads[i] < reads[j]
      <4>1. i \in 1 .. N
        BY <3>1, <3>5
      <4>2. CASE j \in 1 .. N
        BY <3>1, <3>4, <3>5, <4>1, <4>2
      <4>3. CASE j = N + 1
        BY <3>1, <3>3, <4>1, <4>3
      <4> QED
        BY <3>1, <4>2, <4>3
    <3> QED
      BY <2>6, <3>1, <3>5
  <2> HIDE DEF Come, Is, K, reads
  <2> QED
    BY <2>1, <2>3, <2>4, <2>5, <2>6, <2>7, <2>8, <2>9
<1> QED
  BY <1>13, <1>14

\* What the converter of a dictionary returns, and what it reads.
LEMMA DictionariesConvert ==
    ASSUME NEW members \in MemberSets, NEW v \in Objects
    PROVE  DictionaryConverts(members, v, Dictionary(members, v).reads,
               IF Dictionary(members, v).ok THEN Gives(Dictionary(members, v).dict) ELSE Throws)
<1> DEFINE N == MaxKey
           D == Defaults(members)
           start == [ok |-> v.type \in {"Undefined", "Null", "Object"},
                     dict |-> [k \in D |-> "default"], reads |-> <<>>]
           Has(k) == \E m \in members : m.key = k
           Of(k) == CHOOSE m \in members : m.key = k
           G == [p \in (1 .. N) \X DictState |->
                    IF Has(p[1]) THEN ReadMember(p[2], Of(p[1]), ValueOf(v, p[1])) ELSE p[2]]
           Rec(f) == f = [k \in 0 .. N |->
                            IF k = 0 THEN start
                            ELSE IF Has(k) THEN ReadMember(f[k - 1], Of(k), ValueOf(v, k))
                            ELSE f[k - 1]]
           Ks == {m.key : m \in members}
<1>1. members \subseteq Members /\ N \in Nat
  BY WebIdlAssumption DEF MemberSets
<1>2. ASSUME NEW k \in 1 .. N PROVE ValueOf(v, k) \in MemberValues
  <2>1. v.has \in [Keys -> MemberValues] /\ k \in Keys
    BY DEF Objects, Keys
  <2> QED
    BY <2>1 DEF ValueOf, MemberValues
<1>3. ASSUME NEW k, Has(k) PROVE Of(k) \in members /\ Of(k).key = k
  BY <1>3
<1>4. start \in DictState
  <2>1. D \subseteq Keys
    BY <1>1 DEF Defaults, Members
  <2>2. [k \in D |-> "default"] \in [D -> {"given", "default"}]
    OBVIOUS
  <2>3. <<>> \in Seq(Keys)
    BY EmptySeq
  <2> DEFINE dict == [k \in D |-> "default"]
             Dicts == UNION {[E -> {"given", "default"}] : E \in SUBSET Keys}
  <2>4. dict \in Dicts
    BY <2>1, <2>2
  <2> DEFINE ok == v.type \in {"Undefined", "Null", "Object"}
  <2>5. ok \in BOOLEAN
    OBVIOUS
  <2> HIDE DEF dict, Dicts, ok
  <2>6. [ok |-> ok, dict |-> dict, reads |-> <<>>]
            \in [ok : BOOLEAN, dict : Dicts, reads : Seq(Keys)]
    BY <2>3, <2>4, <2>5
  <2> QED
    BY <2>6 DEF DictState, dict, Dicts, ok
<1>5. /\ start.ok <=> Convertible(v)
      /\ start.dict = [k \in D |-> "default"] /\ start.reads = <<>>
  BY DEF Convertible
<1> HIDE DEF start, Has, Of, N
<1>6. \A k \in 1 .. N, st \in DictState :
         G[<<k, st>>] = IF Has(k) THEN ReadMember(st, Of(k), ValueOf(v, k)) ELSE st
  OBVIOUS
<1> HIDE DEF G
<1>7. ASSUME NEW k \in 1 .. N, NEW st \in DictState PROVE G[<<k, st>>] \in DictState
  <2>1. CASE Has(k)
    <3>1. Of(k) \in Members
      BY <1>1, <1>3, <2>1
    <3>2. ReadMember(st, Of(k), ValueOf(v, k)) \in DictState
      BY <1>2, <3>1, ReadMemberType
    <3> QED
      BY <1>6, <2>1, <3>2
  <2>2. CASE ~Has(k)
    BY <1>6, <2>2
  <2> QED
    BY <2>1, <2>2
<1>8. PICK g : Computes(g, N, DictState, start, G)
  BY <1>1, <1>4, <1>7, RecursionExists
<1>9. /\ g \in [0 .. N -> DictState] /\ g[0] = start
      /\ \A k \in 1 .. N : g[k] = G[<<k, g[k - 1]>>]
  BY <1>8 DEF Computes
<1>10. ASSUME NEW k \in 0 .. N
       PROVE  g[k] = IF k = 0 THEN start
                     ELSE IF Has(k) THEN ReadMember(g[k - 1], Of(k), ValueOf(v, k)) ELSE g[k - 1]
  <2>1. CASE k = 0
    BY <2>1, <1>9
  <2>2. CASE k # 0
    <3>1. k \in 1 .. N /\ k - 1 \in 0 .. N
      BY <1>1, <2>2
    <3>2. g[k - 1] \in DictState
      BY <1>9, <3>1
    <3>3. g[k] = G[<<k, g[k - 1]>>]
      BY <1>9, <3>1
    <3> QED
      BY <1>6, <2>2, <3>1, <3>2, <3>3
  <2> QED
    BY <2>1, <2>2
<1>11. Rec(g)
  <2>1. g = [k \in 0 .. N |-> g[k]]
    BY <1>9
  <2> QED
    BY <2>1, <1>10, Zenon
<1> DEFINE of == CHOOSE f : Rec(f)
<1>12. Rec(of)
  BY <1>11, Zenon
<1> DEFINE end == Dictionary(members, v)
<1>13. end = IF v.type \in {"Undefined", "Null"} /\ ~\E m \in members : m.required
             THEN start ELSE of[N]
  BY Zenon DEF Dictionary, start, N, Has, Of, ValueOf
<1> HIDE DEF of, end
<1>14. /\ of[0] = start
       /\ \A k \in 1 .. N : of[k] = IF Has(k) THEN ReadMember(of[k - 1], Of(k), ValueOf(v, k))
                                    ELSE of[k - 1]
  <2>1. \A k \in 0 .. N : of[k] = IF k = 0 THEN start
                                  ELSE IF Has(k) THEN ReadMember(of[k - 1], Of(k), ValueOf(v, k))
                                  ELSE of[k - 1]
    BY <1>12
  <2> HIDE DEF Rec
  <2> QED
    BY <1>1, <2>1
<1> HIDE DEF Rec
<1>15. Ks \subseteq Nat /\ \A x \in Ks : x >= 1 /\ x <= N
  BY <1>1 DEF Members, Keys, N
<1>16. /\ Given(members, v) \subseteq Ks /\ Refused(members, v) \subseteq Ks
       /\ Required(members) \subseteq Ks /\ D \subseteq Ks
  BY DEF Given, Refused, Required, Defaults
<1> DEFINE Gv == Given(members, v)
           Rf == Refused(members, v)
<1>17. ReadUpTo(members, v, 0, start)
  <2>1. Values(<<>>) = {}
    BY EmptySeq DEF Values
  <2>2. Len(<<>>) = 0
    BY EmptySeq
  <2>3. {y \in Gv : y <= 0} = {} /\ \A r \in Rf : r > 0
    BY <1>15, <1>16
  <2>4. {x \in Ks : x <= 0 /\ \A r \in Rf : x <= r} = {}
    BY <1>15
  <2>5. start.dict = [x \in {y \in Gv : y <= 0} \cup D |->
                        IF x \in Gv /\ x <= 0 THEN "given" ELSE "default"]
    <3>1. \A x \in D : ~(x \in Gv /\ x <= 0)
      BY <2>3
    <3> HIDE DEF Gv, D
    <3> QED
      BY <1>5, <2>3, <3>1
  <2> QED
    BY <1>5, <2>1, <2>2, <2>3, <2>4, <2>5 DEF ReadUpTo
<1> HIDE DEF Gv, Rf, D, Ks
<1> DEFINE T == {k \in Nat : k <= N => of[k] \in DictState /\ ReadUpTo(members, v, k, of[k])}
<1>18. 0 \in T
  BY <1>4, <1>14, <1>17
<1>19. ASSUME NEW k \in Nat, k \in T PROVE k + 1 \in T
  <2> SUFFICES ASSUME k + 1 <= N
               PROVE  of[k + 1] \in DictState /\ ReadUpTo(members, v, k + 1, of[k + 1])
    OBVIOUS
  <2>1. k + 1 \in 1 .. N /\ (k + 1) - 1 = k /\ k <= N
    BY <1>1
  <2>2. of[k] \in DictState /\ ReadUpTo(members, v, k, of[k])
    BY <1>19, <2>1
  <2>3. of[k + 1] = IF Has(k + 1) THEN ReadMember(of[k], Of(k + 1), ValueOf(v, k + 1)) ELSE of[k]
    BY <1>14, <2>1
  <2>4. CASE Has(k + 1)
    <3> DEFINE m == Of(k + 1)
    <3>1. m \in members /\ m.key = k + 1 /\ m \in Members
      BY <1>1, <1>3, <2>4
    <3>2. ValueOf(v, k + 1) \in MemberValues
      BY <1>2, <2>1
    <3> HIDE DEF m
    <3>3. ReadMember(of[k], m, ValueOf(v, k + 1)) \in DictState
      BY <2>2, <3>1, <3>2, ReadMemberType
    <3>4. ReadUpTo(members, v, k + 1, ReadMember(of[k], m, ValueOf(v, k + 1)))
      BY <2>2, <3>1, KeyRead
    <3> QED
      BY <2>3, <2>4, <3>3, <3>4 DEF m
  <2>5. CASE ~Has(k + 1)
    <3>1. ~\E m \in members : m.key = k + 1
      BY <2>5 DEF Has
    <3>2. ReadUpTo(members, v, k + 1, of[k])
      BY <1>1, <2>2, <3>1, KeySkipped
    <3> QED
      BY <2>2, <2>3, <2>5, <3>2
  <2> QED
    BY <2>4, <2>5
<1> HIDE DEF T
<1>20. N \in T
  BY <1>1, <1>18, <1>19, SetInduction
<1>21. of[N] \in DictState /\ ReadUpTo(members, v, N, of[N])
  BY <1>1, <1>20 DEF T
<1> DEFINE Promised(st) ==
             /\ st.ok <=> Convertible(v) /\ Rf = {}
             /\ st.ok => st.dict = [x \in Gv \cup D |-> IF x \in Gv THEN "given" ELSE "default"]
             /\ v.type = "Object" =>
                  /\ Values(st.reads) = {x \in Ks : \A r \in Rf : x <= r}
                  /\ \A i, j \in 1 .. Len(st.reads) : i < j => st.reads[i] < st.reads[j]
<1>22. Promised(of[N])
  <2> DEFINE st == of[N]
  <2>1. /\ st.ok <=> Convertible(v) /\ \A r \in Rf : r > N
        /\ st.ok => st.dict = [x \in {y \in Gv : y <= N} \cup D |->
                                  IF x \in Gv /\ x <= N THEN "given" ELSE "default"]
        /\ Convertible(v) => Values(st.reads) = {x \in Ks : x <= N /\ \A r \in Rf : x <= r}
        /\ \A i, j \in 1 .. Len(st.reads) : i < j => st.reads[i] < st.reads[j]
    BY <1>21 DEF ReadUpTo, Gv, Rf, D, Ks
  <2> HIDE DEF st
  <2>2. \A x \in Ks : x <= N /\ ~(x > N)
    BY <1>1, <1>15
  <2>3. Gv \subseteq Ks /\ Rf \subseteq Ks
    BY <1>16 DEF Gv, Rf
  <2>4. (\A r \in Rf : r > N) <=> Rf = {}
    BY <2>2, <2>3
  <2>5. [x \in {y \in Gv : y <= N} \cup D |-> IF x \in Gv /\ x <= N THEN "given" ELSE "default"]
        = [x \in Gv \cup D |-> IF x \in Gv THEN "given" ELSE "default"]
    <3>1. {y \in Gv : y <= N} = Gv /\ \A x \in Gv : x <= N
      BY <2>2, <2>3
    <3> QED
      BY <3>1
  <2>6. {x \in Ks : x <= N /\ \A r \in Rf : x <= r} = {x \in Ks : \A r \in Rf : x <= r}
    BY <2>2
  <2>7. v.type = "Object" => Convertible(v)
    BY DEF Convertible
  <2>8. Promised(st)
    BY <2>1, <2>4, <2>5, <2>6, <2>7
  <2> QED
    BY <2>8 DEF st
<1>23. ASSUME v.type \in {"Undefined", "Null"}, ~\E m \in members : m.required PROVE Promised(start)
  <2>1. Gv = {} /\ Required(members) = {}
    BY <1>23 DEF Given, Required, Gv
  <2>2. Rf = {}
    BY <2>1 DEF Refused, Rf, Gv
  <2>3. Convertible(v) /\ v.type # "Object"
    BY <1>23 DEF Convertible
  <2> QED
    BY <1>5, <2>1, <2>2, <2>3
<1>24. Promised(end)
  BY <1>13, <1>22, <1>23
<1> DEFINE result == IF end.ok THEN Gives(end.dict) ELSE Throws
<1>25. /\ result.ok <=> end.ok
       /\ end.ok => result.value[1] = end.dict
  <2>1. end.ok \in BOOLEAN
    <3>1. end \in DictState
      BY <1>4, <1>13, <1>21
    <3> QED
      BY <3>1, Zenon DEF DictState
  <2> QED
    BY <2>1 DEF Gives, Throws
<1> HIDE DEF result
<1>26. /\ result.ok <=> Convertible(v) /\ Rf = {}
       /\ result.ok =>
            result.value[1] = [x \in Gv \cup D |-> IF x \in Gv THEN "given" ELSE "default"]
       /\ v.type = "Object" =>
            /\ Values(end.reads) = {x \in Ks : \A r \in Rf : x <= r}
            /\ \A i, j \in 1 .. Len(end.reads) : i < j => end.reads[i] < end.reads[j]
  BY <1>24, <1>25
<1>27. DictionaryConverts(members, v, end.reads, result)
  BY <1>26 DEF DictionaryConverts, Convertible, Rf, Gv, D, Ks, Given, Refused, Required
<1> QED
  BY <1>27 DEF end, result

-----------------------------------------------------------------------------
(* The conversions of WebIDL.                                                *)

\* The conversions that are made: of integers, of dictionaries, records and buffers,
\* and those that neither invariant is about.
LEMMA ConversionsAre ==
    ASSUME IdlNext
    PROVE  \/ \E v \in Numbers, bits \in BitLengths \cup {LongBits}, unsigned \in BOOLEAN,
               option \in {"none", "enforceRange", "clamp"} :
                 ConvertInteger(v, bits, unsigned, option) /\ call'.of = "integer"
           \/ \E members \in MemberSets, type \in Types, has \in [Keys -> MemberValues] :
                 ConvertDictionary(members, [type |-> type, has |-> has]) /\ call'.of = "dictionary"
           \/ \E properties \in Properties, isProxy \in BOOLEAN, typedKey \in TypedKeys :
                 ConvertRecord(properties, isProxy, typedKey) /\ call'.of = "record"
           \/ \E b \in Buffers, allowShared \in BOOLEAN,
               accepts \in Names \cup {"ArrayBuffer", "DataView", "ArrayBufferView", "BufferSource"} :
                 ConvertBuffer(b, accepts, allowShared) /\ call'.of = "buffer"
           \/ call'.of \in {"float", "string", "sequence", "promise", "callback", "interface"}
<1>1. ASSUME NEW v, NEW bits, NEW unsigned, NEW option, ConvertInteger(v, bits, unsigned, option)
      PROVE  call'.of = "integer"
  BY <1>1 DEF ConvertInteger
<1>2. ASSUME NEW members, NEW v, ConvertDictionary(members, v) PROVE call'.of = "dictionary"
  BY <1>2 DEF ConvertDictionary
<1>3. ASSUME NEW properties, NEW isProxy, NEW typedKey,
             ConvertRecord(properties, isProxy, typedKey)
      PROVE  call'.of = "record"
  BY <1>3 DEF ConvertRecord
<1>4. ASSUME NEW b, NEW accepts, NEW allowShared, ConvertBuffer(b, accepts, allowShared)
      PROVE  call'.of = "buffer"
  BY <1>4 DEF ConvertBuffer
<1>5. ASSUME NEW class, NEW double, NEW restricted, NEW nullable, NEW isNullish,
             ConvertFloat(class, double, restricted, nullable, isNullish)
      PROVE  call'.of = "float"
  BY <1>5 DEF ConvertFloat
<1>6. ASSUME NEW v, NEW kind, NEW treatNull, ConvertString(v, kind, treatNull)
      PROVE  call'.of = "string"
  BY <1>6 DEF ConvertString
<1>7. ASSUME NEW v, ConvertSequence(v) PROVE call'.of = "sequence"
  BY <1>7 DEF ConvertSequence
<1>8. ASSUME NEW a, NEW b, NEW c, ConvertPromise(a, b) \/ Invoke(a, b, c) \/ ConvertInterface(a, b)
      PROVE  call'.of \in {"promise", "callback", "interface"}
  BY <1>8 DEF ConvertPromise, Invoke, ConvertInterface
<1> QED
  BY <1>1, <1>2, <1>3, <1>4, <1>5, <1>6, <1>7, <1>8 DEF IdlNext, MemberValues

\* Every conversion to an integer type gives the number that its option promises,
\* in the range of the type, or throws where the option says so: for types of any
\* length and doubles of any size and precision.  Only where a negative number
\* becomes an unsigned long long is it rounded, to a double that is nearest, which
\* may be the first past the range.
THEOREM IntegersAreConverted == IdlSpec => []IntegersConvert
<1>1. IdlInit => IntegersConvert
  BY DEF IdlInit, IntegersConvert
<1>2. IntegersConvert /\ [IdlNext]_idlVars => IntegersConvert'
  <2> SUFFICES ASSUME IntegersConvert, [IdlNext]_idlVars PROVE IntegersConvert'
    OBVIOUS
  <2>1. ASSUME NEW v \in Numbers, NEW bits \in BitLengths \cup {LongBits}, NEW unsigned \in BOOLEAN,
               NEW option \in {"none", "enforceRange", "clamp"},
               ConvertInteger(v, bits, unsigned, option)
        PROVE  IntegersConvert'
    <3> DEFINE r == IF bits = LongBits THEN LongLongConversion(v, unsigned, option)
                    ELSE IntegerConversion(v, bits, unsigned, option)
    <3>1. /\ call' = [of |-> "integer", v |-> v, bits |-> bits,
                      unsigned |-> unsigned, option |-> option]
          /\ outcome' = r
      BY <2>1 DEF ConvertInteger
    <3>2. IntegerConverts(v, bits, unsigned, option, r)
      BY ConversionConverts
    <3> HIDE DEF r
    <3>3. /\ call'.v = v /\ call'.bits = bits
          /\ call'.unsigned = unsigned /\ call'.option = option
      BY <3>1, Zenon
    <3>4. IntegerConverts(call'.v, call'.bits, call'.unsigned, call'.option, outcome')
      BY <3>1, <3>2, <3>3, Zenon
    <3> QED
      BY <3>4 DEF IntegersConvert
  <2>2. CASE call'.of # "integer"
    BY <2>2 DEF IntegersConvert
  <2>3. CASE UNCHANGED idlVars
    BY <2>3 DEF idlVars, IntegersConvert
  <2>4. ASSUME IdlNext, call'.of = "integer"
        PROVE  \E v \in Numbers, bits \in BitLengths \cup {LongBits}, unsigned \in BOOLEAN,
                  option \in {"none", "enforceRange", "clamp"} :
                    ConvertInteger(v, bits, unsigned, option)
    BY <2>4, ConversionsAre
  <2> QED
    BY <2>1, <2>2, <2>3, <2>4
<1> QED
  BY <1>1, <1>2, PTL DEF IdlSpec

\* Dictionaries hold what was given over what is default and are read in order, each
\* member once, up to the first that is refused; records hold the enumerable own
\* properties on both ways; shared memory passes only where it is allowed.
THEOREM ObjectsAreConverted == IdlSpec => []ObjectsConvert
<1>1. IdlInit => ObjectsConvert
  BY DEF IdlInit, ObjectsConvert
<1>2. ObjectsConvert /\ [IdlNext]_idlVars => ObjectsConvert'
  <2> SUFFICES ASSUME ObjectsConvert, [IdlNext]_idlVars PROVE ObjectsConvert'
    OBVIOUS
  <2>1. ASSUME NEW members \in MemberSets, NEW type \in Types, NEW has \in [Keys -> MemberValues],
               ConvertDictionary(members, [type |-> type, has |-> has])
        PROVE  ObjectsConvert'
    <3> DEFINE v == [type |-> type, has |-> has]
               d == Dictionary(members, v)
               r == IF d.ok THEN Gives(d.dict) ELSE Throws
    <3>1. v \in Objects
      BY DEF Objects
    <3> HIDE DEF v
    <3>2. DictionaryConverts(members, v, d.reads, r)
      BY <3>1, DictionariesConvert
    <3>3. call' = [of |-> "dictionary", members |-> members, v |-> v, reads |-> d.reads]
          /\ outcome' = r
      BY <2>1, Zenon DEF ConvertDictionary, v
    <3> HIDE DEF d, r
    <3> DEFINE reads == d.reads
    <3> HIDE DEF reads
    <3>4. call' = [of |-> "dictionary", members |-> members, v |-> v, reads |-> reads]
      BY <3>3 DEF reads
    <3>5. /\ call'.of = "dictionary" /\ call'.members = members
          /\ call'.v = v /\ call'.reads = reads
      BY <3>4
    <3>6. DictionaryConverts(call'.members, call'.v, call'.reads, outcome')
      BY <3>2, <3>3, <3>5, Zenon DEF reads
    <3> QED
      BY <3>5, <3>6 DEF ObjectsConvert
  <2>2. ASSUME NEW properties \in Properties, NEW isProxy \in BOOLEAN, NEW typedKey \in TypedKeys,
               ConvertRecord(properties, isProxy, typedKey)
        PROVE  ObjectsConvert'
    <3> DEFINE r == IF isProxy THEN SlowRecord(properties, typedKey)
                    ELSE FastRecord(properties, typedKey)
    <3>1. RecordConverts(properties, isProxy, typedKey, r)
      BY RecordsConvert
    <3>2. /\ call' = [of |-> "record", properties |-> properties, isProxy |-> isProxy,
                      typedKey |-> typedKey]
          /\ outcome' = r
      BY <2>2 DEF ConvertRecord
    <3> HIDE DEF r
    <3>3. /\ call'.of = "record" /\ call'.properties = properties
          /\ call'.isProxy = isProxy /\ call'.typedKey = typedKey
      BY <3>2, Zenon
    <3>4. RecordConverts(call'.properties, call'.isProxy, call'.typedKey, outcome')
      BY <3>1, <3>2, <3>3, Zenon
    <3> QED
      BY <3>3, <3>4 DEF ObjectsConvert
  <2>3. ASSUME NEW b \in Buffers, NEW allowShared \in BOOLEAN,
               NEW accepts \in Names \cup {"ArrayBuffer", "DataView", "ArrayBufferView", "BufferSource"},
               ConvertBuffer(b, accepts, allowShared)
        PROVE  ObjectsConvert'
    <3> DEFINE accepted == CASE accepts = "ArrayBuffer" -> ArrayBuffer(b, allowShared)
                             [] accepts = "DataView" -> DataView(b, allowShared)
                             [] accepts = "ArrayBufferView" -> ArrayBufferView(b, allowShared)
                             [] accepts = "BufferSource" -> BufferSource(b, allowShared)
                             [] OTHER -> TypedArray(b, accepts, allowShared)
               r == IF accepted THEN Gives(b) ELSE Throws
    <3>1. BufferConverts(b, accepts, allowShared, r)
      BY BuffersConvert
    <3>2. call' = [of |-> "buffer", b |-> b, converter |-> accepts, allowShared |-> allowShared]
          /\ outcome' = r
      BY <2>3, Zenon DEF ConvertBuffer
    <3> HIDE DEF r
    <3>3. /\ call'.of = "buffer" /\ call'.b = b
          /\ call'.converter = accepts /\ call'.allowShared = allowShared
      BY <3>2, Zenon
    <3>4. BufferConverts(call'.b, call'.converter, call'.allowShared, outcome')
      BY <3>1, <3>2, <3>3, Zenon
    <3> QED
      BY <3>3, <3>4 DEF ObjectsConvert
  <2>4. CASE call'.of \notin {"dictionary", "record", "buffer"}
    BY <2>4 DEF ObjectsConvert
  <2>5. CASE UNCHANGED idlVars
    BY <2>5 DEF idlVars, ObjectsConvert
  <2>6. ASSUME IdlNext, call'.of \in {"dictionary", "record", "buffer"}
        PROVE  \/ \E members \in MemberSets, type \in Types, has \in [Keys -> MemberValues] :
                    ConvertDictionary(members, [type |-> type, has |-> has])
               \/ \E properties \in Properties, isProxy \in BOOLEAN, typedKey \in TypedKeys :
                    ConvertRecord(properties, isProxy, typedKey)
               \/ \E b \in Buffers, allowShared \in BOOLEAN,
                     accepts \in Names \cup {"ArrayBuffer", "DataView", "ArrayBufferView", "BufferSource"} :
                    ConvertBuffer(b, accepts, allowShared)
    BY <2>6, ConversionsAre
  <2> QED
    BY <2>1, <2>2, <2>3, <2>4, <2>5, <2>6
<1> QED
  BY <1>1, <1>2, PTL DEF IdlSpec
=============================================================================
