-------------------------- MODULE SerialLinkProofs --------------------------
(***************************************************************************)
(* What the serial thread does for any number of frames and restarts, any  *)
(* texts and any way in which read() cuts the stream: every variable keeps *)
(* its type, a message never outgrows its block, and the frames that were  *)
(* closed are the messages that are delivered.                             *)
(***************************************************************************)
EXTENDS SerialLink, Induction, TLAPS

-----------------------------------------------------------------------------
(* Types *)

LEMMA ByteTypes ==
  /\ "+" \in Byte /\ "-" \in Byte /\ Banner \in Seq(Byte)
  /\ \A p \in Text : p \in Seq(Byte)
<1>1. ASSUME NEW p \in Text \cup {Banner} PROVE p \in Seq(Byte)
  <2>1. p \in Seq(STRING)
    BY BannerAssumption, TextAssumption
  <2>2. p \in Seq(Range(p))
    BY <2>1, SeqOfRange
  <2>3. Range(p) \subseteq Byte
    BY DEF Byte
  <2> QED BY <2>2, <2>3, SeqMonotonic
<1> QED BY <1>1 DEF Byte

\* What can be put on the line for a text: the lengths and the bytes of its parts.
LEMMA LineTypes ==
  ASSUME NEW p \in Text, NEW lost \in SUBSET Lossy,
         NEW i \in IF "text" \in lost THEN DOMAIN p ELSE {1}
  PROVE  LET f == OnTheLine(p, lost, i) IN
         /\ f.open \in Seq(Byte) /\ f.text \in Seq(Byte) /\ f.close \in Seq(Byte)
         /\ Len(f.text) <= Len(p)
         /\ "open" \notin lost => f.open = Marker("+")
         /\ \A k \in 1 .. Len(f.close) : f.close[k] = "-"
<1> DEFINE f == OnTheLine(p, lost, i)
           D == DELIM_LENGTH
<1>1. p \in Seq(Byte) /\ "+" \in Byte /\ "-" \in Byte /\ Len(p) \in Nat
  BY ByteTypes
<1>2. \A b \in {"+", "-"} : /\ Marker(b) \in Seq({b}) /\ Len(Marker(b)) = D
                           /\ \A k \in 1 .. D : Marker(b)[k] = b
  BY DelimAssumption DEF Marker
<1>3. \A b \in {"+", "-"} : Marker(b) # <<>>
  BY <1>2, DelimAssumption
<1>4. \A b \in {"+", "-"} : /\ Tail(Marker(b)) \in Seq({b})
                           /\ Len(Tail(Marker(b))) = D - 1
  BY <1>2, <1>3, HeadTailProperties
<1>5. f.open \in Seq({"+"}) /\ f.close \in Seq({"-"})
  BY <1>2, <1>4 DEF OnTheLine
<1>6. f.text \in Seq(Byte) /\ Len(f.text) <= Len(p)
  <2>1. CASE "text" \in lost
    <3>1. i \in 1 .. Len(p)
      BY <1>1, <2>1
    <3> DEFINE u == SubSeq(p, 1, i - 1)
               v == SubSeq(p, i + 1, Len(p))
    <3>2. (\A k \in 1 .. i - 1 : p[k] \in Byte) /\ (\A k \in i + 1 .. Len(p) : p[k] \in Byte)
      BY <1>1, <3>1
    <3>3. u \in Seq(Byte) /\ Len(u) = i - 1
      BY <1>1, <3>1, <3>2, SubSeqProperties
    <3>4. v \in Seq(Byte) /\ Len(v) = Len(p) - i
      BY <1>1, <3>1, <3>2, SubSeqProperties
    <3>5. f.text = u \o v
      BY <2>1 DEF OnTheLine, RemoveAt
    <3> HIDE DEF u, v, f
    <3>6. f.text \in Seq(Byte) /\ Len(f.text) = Len(u) + Len(v)
      BY <3>3, <3>4, <3>5, ConcatProperties
    <3> QED BY <1>1, <3>1, <3>3, <3>4, <3>6
  <2>2. CASE "text" \notin lost
    BY <1>1, <2>2 DEF OnTheLine
  <2> QED BY <2>1, <2>2
<1>7. "open" \notin lost => f.open = Marker("+")
  BY DEF OnTheLine
<1> HIDE DEF f
<1>8. f.open \in Seq(Byte) /\ f.close \in Seq(Byte)
  BY <1>1, <1>5, SeqMonotonic
<1>9. \A k \in 1 .. Len(f.close) : f.close[k] = "-"
  BY <1>5
<1> QED BY <1>6, <1>7, <1>8, <1>9 DEF f

\* The parts of TypeOK that different actors disturb.
SentRecord == [text : Seq(Byte), closed : BOOLEAN]

LineOK == wire \in Seq(Byte) /\ sent \in Seq(SentRecord) /\ boots \in 0 .. MAX_BOOTS
BufferOK == buffer \in Seq(Byte) /\ Len(buffer) <= READ_MAX
CountsOK ==
  /\ plus_count \in 0 .. DELIM_LENGTH /\ (running => plus_count < DELIM_LENGTH)
  /\ minus_count \in 0 .. DELIM_LENGTH - 1
MessagesOK == current_message \in Seq(Byte) \cup {NULL} /\ delivered \in Seq(Seq(Byte))
FlagsOK == running \in BOOLEAN /\ crashed \in BOOLEAN

LEMMA TypeParts == TypeOK <=> LineOK /\ BufferOK /\ CountsOK /\ MessagesOK /\ FlagsOK
BY DEF TypeOK, LineOK, BufferOK, CountsOK, MessagesOK, FlagsOK, SentRecord

LEMMA InitType == Init => TypeOK
<1> SUFFICES ASSUME Init PROVE TypeOK
  OBVIOUS
<1>1. LineOK
  BY BoundAssumption DEF Init, LineOK
<1>2. BufferOK
  <2>1. buffer = <<>> /\ <<>> \in Seq(Byte) /\ Len(<<>>) = 0
    BY DEF Init
  <2> QED BY <2>1, DelimAssumption DEF BufferOK
<1>3. CountsOK
  BY DelimAssumption DEF Init, CountsOK
<1>4. FlagsOK
  BY DEF Init, FlagsOK
<1>5. MessagesOK
  BY DEF Init, MessagesOK
<1> QED BY <1>1, <1>2, <1>3, <1>4, <1>5, TypeParts

LEMMA ControllerType ==
  ASSUME TypeOK, Controller
  PROVE  LineOK'
<1>1. LineOK
  BY TypeParts
<1>2. ASSUME NEW p \in Text, NEW lost \in SUBSET Lossy,
             NEW i \in IF "text" \in lost THEN DOMAIN p ELSE {1}, writeSerial(p, lost, i)
      PROVE  LineOK'
  <2> DEFINE f == OnTheLine(p, lost, i)
             r == [text |-> f.text, closed |-> "close" \notin lost]
  <2>1. f.open \in Seq(Byte) /\ f.text \in Seq(Byte) /\ f.close \in Seq(Byte)
    BY LineTypes
  <2>2. /\ wire' = wire \o f.open \o f.text \o f.close
        /\ sent' = Append(sent, r) /\ boots' = boots
    BY <1>2 DEF writeSerial
  <2> HIDE DEF f
  <2>3. wire' \in Seq(Byte)
    BY <1>1, <2>1, <2>2 DEF LineOK
  <2>4. r \in SentRecord
    BY <2>1 DEF SentRecord
  <2> HIDE DEF r
  <2>5. sent' \in Seq(SentRecord)
    BY <1>1, <2>2, <2>4 DEF LineOK
  <2> QED BY <1>1, <2>2, <2>3, <2>5 DEF LineOK
<1>3. CASE setup
  <2>1. wire' = wire \o Banner /\ sent' = sent /\ boots' = boots + 1 /\ boots < MAX_BOOTS
    BY <1>3 DEF setup
  <2>2. wire' \in Seq(Byte)
    BY <1>1, <2>1, ByteTypes DEF LineOK
  <2>3. boots' \in 0 .. MAX_BOOTS
    BY <1>1, <2>1, BoundAssumption DEF LineOK
  <2> QED BY <1>1, <2>1, <2>2, <2>3 DEF LineOK
<1> QED BY <1>2, <1>3 DEF Controller

\* What read() takes from the line, and what it leaves there.
LEMMA ReadSplits ==
  ASSUME TypeOK, read_serial
  PROVE  /\ wire' \in Seq(Byte) /\ buffer' \in Seq(Byte) /\ Len(buffer') <= READ_MAX
         /\ buffer' \o wire' = wire /\ buffer = <<>>
<1>1. PICK n \in 1 .. READ_MAX : /\ n <= Len(wire)
                                /\ buffer' = SubSeq(wire, 1, n)
                                /\ wire' = SubSeq(wire, n + 1, Len(wire))
  BY DEF read_serial
<1>2. wire \in Seq(Byte) /\ Len(wire) \in Nat /\ n \in Nat /\ n \in 1 .. Len(wire)
  BY <1>1, DelimAssumption DEF TypeOK
<1>3. (\A k \in 1 .. n : wire[k] \in Byte) /\ (\A k \in n + 1 .. Len(wire) : wire[k] \in Byte)
  BY <1>2
<1>4. SubSeq(wire, 1, n) \in Seq(Byte) /\ Len(SubSeq(wire, 1, n)) = n
  BY <1>2, <1>3, SubSeqProperties
<1>5. SubSeq(wire, n + 1, Len(wire)) \in Seq(Byte)
  BY <1>2, <1>3, SubSeqProperties
<1>6. SubSeq(wire, 1, n) \o SubSeq(wire, n + 1, Len(wire)) = SubSeq(wire, 1, Len(wire))
  BY <1>2, ConcatAdjacentSubSeq
<1>7. SubSeq(wire, 1, Len(wire)) = wire
  BY <1>2, SubSeqFull
<1>8. buffer = <<>>
  BY DEF read_serial
<1>9. n <= READ_MAX
  BY DelimAssumption
<1> QED BY <1>1, <1>4, <1>5, <1>6, <1>7, <1>8, <1>9

\* One byte of the buffer is parsed.
LEMMA ByteTaken ==
  ASSUME TypeOK, NEW b, NextByte(b)
  PROVE  BufferOK' /\ b \in Byte /\ Live
<1>1. buffer \in Seq(Byte) /\ buffer # <<>> /\ buffer' = Tail(buffer) /\ b = Head(buffer)
  BY DEF TypeOK, NextByte
<1>2. Tail(buffer) \in Seq(Byte) /\ Len(Tail(buffer)) = Len(buffer) - 1 /\ Head(buffer) \in Byte
  BY <1>1, HeadTailProperties
<1>3. Len(buffer) \in Nat /\ Len(buffer) <= READ_MAX /\ READ_MAX \in Nat
  BY <1>1, DelimAssumption DEF TypeOK
<1> QED BY <1>1, <1>2, <1>3 DEF BufferOK, NextByte

LEMMA NextType == TypeOK /\ [Next]_vars => TypeOK'
<1> SUFFICES ASSUME TypeOK, [Next]_vars PROVE TypeOK'
  OBVIOUS
<1> USE DelimAssumption
<1>1. LineOK /\ BufferOK /\ CountsOK /\ MessagesOK /\ FlagsOK
  BY TypeParts
<1>2. LineOK'
  <2>1. CASE read_serial
    BY <1>1, <2>1, ReadSplits DEF LineOK, read_serial
  <2>2. CASE UNCHANGED controller
    BY <1>1, <2>2 DEF LineOK, controller
  <2>3. parse_buffer \/ cleanup \/ UNCHANGED vars => UNCHANGED controller
    BY DEF parse_buffer, CountPlus, new_message, CountMinus, close_message, StoreByte, cleanup, vars
  <2> QED BY <2>1, <2>2, <2>3, ControllerType DEF Next, SerialThread
<1>3. BufferOK'
  <2>1. CASE read_serial
    BY <2>1, ReadSplits DEF BufferOK
  <2>2. CASE parse_buffer
    BY <2>2, ByteTaken
    DEF parse_buffer, CountPlus, new_message, CountMinus, close_message, StoreByte
  <2>3. CASE cleanup
    BY <2>3 DEF cleanup, BufferOK
  <2>4. CASE UNCHANGED buffer
    BY <1>1, <2>4 DEF BufferOK
  <2>5. Controller \/ UNCHANGED vars => UNCHANGED buffer
    BY DEF Controller, writeSerial, setup, vars
  <2> QED BY <2>1, <2>2, <2>3, <2>4, <2>5 DEF Next, SerialThread
<1>4. CountsOK'
  <2>1. CASE CountPlus \/ new_message \/ CountMinus \/ close_message \/ StoreByte
    BY <1>1, <2>1, DelimAssumption
    DEF CountPlus, new_message, CountMinus, close_message, StoreByte, NextByte, Live, CountsOK
  <2>2. CASE cleanup
    BY <1>1, <2>2, DelimAssumption DEF cleanup, Live, CountsOK
  <2>3. CASE UNCHANGED <<running, plus_count, minus_count>>
    BY <1>1, <2>3 DEF CountsOK
  <2>4. Controller \/ read_serial \/ UNCHANGED vars
          => UNCHANGED <<running, plus_count, minus_count>>
    BY DEF Controller, writeSerial, setup, read_serial, vars, parser
  <2> QED BY <2>1, <2>2, <2>3, <2>4 DEF Next, SerialThread, parse_buffer
<1>5. MessagesOK'
  <2>1. CASE new_message \/ cleanup
    <3>1. delivered' = delivered /\ current_message' \in {<<>>, NULL}
      BY <2>1 DEF new_message, cleanup
    <3>2. <<>> \in Seq(Byte)
      OBVIOUS
    <3> QED BY <1>1, <3>1, <3>2 DEF MessagesOK
  <2>2. CASE close_message
    <3>1. CASE current_message = NULL
      BY <1>1, <2>2, <3>1 DEF close_message, MessagesOK
    <3>2. CASE current_message # NULL
      BY <1>1, <2>2, <3>2 DEF close_message, MessagesOK
    <3> QED BY <3>1, <3>2
  <2>3. CASE StoreByte
    <3>1. PICK b \in Byte :
            /\ delivered' = delivered
            /\ \/ current_message # NULL /\ current_message' = Append(current_message, b)
               \/ current_message' = current_message
      BY <2>3 DEF StoreByte
    <3> QED BY <1>1, <3>1 DEF MessagesOK
  <2>4. CASE UNCHANGED <<current_message, delivered>>
    BY <1>1, <2>4 DEF MessagesOK
  <2>5. Controller \/ read_serial \/ CountPlus \/ CountMinus \/ UNCHANGED vars
          => UNCHANGED <<current_message, delivered>>
    BY DEF Controller, writeSerial, setup, read_serial, CountPlus, CountMinus, vars, parser
  <2> QED BY <2>1, <2>2, <2>3, <2>4, <2>5 DEF Next, SerialThread, parse_buffer
<1>6. FlagsOK'
  <2>1. running' \in BOOLEAN
    BY <1>1, Zenon DEF FlagsOK, Next, Controller, writeSerial, setup, SerialThread, read_serial,
       parse_buffer, CountPlus, new_message, CountMinus, close_message, StoreByte, cleanup, vars
  <2>2. crashed' \in BOOLEAN
    BY <1>1, Zenon DEF FlagsOK, Next, Controller, writeSerial, setup, SerialThread, read_serial,
       parse_buffer, CountPlus, new_message, CountMinus, close_message, StoreByte, cleanup, vars
  <2> QED BY <2>1, <2>2 DEF FlagsOK
<1> QED BY <1>2, <1>3, <1>4, <1>5, <1>6, TypeParts, PTL

\* Every variable keeps its type, whatever is lost on the line: neither delimiter
\* counter reaches its bound while the serial thread runs, and the buffer never holds more than one read().
THEOREM TypeCorrect == Spec => []TypeOK
BY InitType, NextType, PTL DEF Spec

-----------------------------------------------------------------------------
(* A message fits its block *)

Stream == buffer \o wire

\* The places of s between a and b that do not hold a delimiter.
Plain(s, a, b) == {k \in a .. b : s[k] \notin {"+", "-"}}

\* An opening marker lies between a and b.
HasMarker(s, a, b) ==
  \E i \in a .. b : i + DELIM_LENGTH - 1 <= b /\ \A k \in i .. i + DELIM_LENGTH - 1 : s[k] = "+"

\* The next bytes complete an opening marker, before any other byte.
Opening(s) ==
  /\ DELIM_LENGTH - plus_count <= Len(s)
  /\ \A k \in 1 .. DELIM_LENGTH - plus_count : s[k] = "+"

\* Between two opening markers of s lie at most room bytes for a message.
Close(s, room) ==
  \A a, b \in 1 .. Len(s) :
    a <= b /\ ~ HasMarker(s, a, b) => Cardinality(Plain(s, a, b)) <= room

\* So do the m bytes of the open message and those that go on with it.
Rest(s, m, room) ==
  \A b \in 1 .. Len(s) : ~ HasMarker(s, 1, b) => m + Cardinality(Plain(s, 1, b)) <= room

\* What a block has room for besides the lines that setup may still print.
Room == BUFFER_SIZE - (MAX_BOOTS - boots) * Len(Banner)

Fits == current_message # NULL => Len(current_message) <= Room

RestFits ==
  current_message # NULL /\ ~ Opening(Stream) => Rest(Stream, Len(current_message), Room)

FitInv == TypeOK /\ Fits /\ (Live => Close(Stream, Room) /\ RestFits)

LEMMA PlainCount ==
  ASSUME NEW s, NEW a \in Int, NEW b \in Int
  PROVE  IsFiniteSet(Plain(s, a, b)) /\ Cardinality(Plain(s, a, b)) \in Nat
<1>1. IsFiniteSet(a .. b)
  BY FS_Interval
<1>2. Plain(s, a, b) \in SUBSET (a .. b)
  BY DEF Plain
<1>3. IsFiniteSet(Plain(s, a, b))
  BY <1>1, <1>2, FS_Subset
<1> QED BY <1>3, FS_CardinalityType

LEMMA PlainBound ==
  ASSUME NEW s, NEW a \in Int, NEW b \in Int, NEW T, IsFiniteSet(T), Plain(s, a, b) \subseteq T
  PROVE  Cardinality(Plain(s, a, b)) <= Cardinality(T)
BY FS_Subset

LEMMA PlainShift ==
  ASSUME NEW s \in Seq(Byte), s # <<>>, NEW a \in 1 .. Len(s), NEW b \in 0 .. Len(s) - 1
  PROVE  Cardinality(Plain(Tail(s), a, b)) = Cardinality(Plain(s, a + 1, b + 1))
<1> DEFINE t == Tail(s)
           P == Plain(t, a, b)
           Q == Plain(s, a + 1, b + 1)
           f == [k \in P |-> k + 1]
<1>1. Len(s) \in Nat /\ Len(t) = Len(s) - 1 /\ \A k \in 1 .. Len(s) - 1 : t[k] = s[k + 1]
  BY HeadTailProperties
<1> HIDE DEF t
<1>2. \A k \in P : k \in Int /\ k \in a .. b /\ k \in 1 .. Len(s) - 1
  BY <1>1 DEF Plain
<1>3. \A k \in P : k + 1 \in Q
  BY <1>1, <1>2 DEF Plain
<1>4. ASSUME NEW l \in Q PROVE l - 1 \in P /\ f[l - 1] = l
  <2>1. l \in a + 1 .. b + 1 /\ s[l] \notin {"+", "-"}
    BY DEF Plain
  <2>2. l - 1 \in a .. b /\ l - 1 \in 1 .. Len(s) - 1 /\ (l - 1) + 1 = l
    BY <1>1, <2>1
  <2>3. t[l - 1] = s[l]
    BY <1>1, <2>2
  <2>4. l - 1 \in P
    BY <2>1, <2>2, <2>3 DEF Plain
  <2> QED BY <2>2, <2>4
<1>5. f \in [P -> Q] /\ DOMAIN f = P
  BY <1>3
<1>6. \A k, l \in P : f[k] = f[l] => k = l
  BY <1>2
<1>7. \A l \in Q : \E k \in P : f[k] = l
  BY <1>4
<1> HIDE DEF f, P, Q
<1>8. f \in Bijection(P, Q)
  BY <1>5, <1>6, <1>7 DEF Bijection, Injection, IsInjective, Surjection
<1>9. ExistsBijection(P, Q)
  BY <1>8 DEF ExistsBijection
<1>10. IsFiniteSet(P)
  BY PlainCount DEF P
<1> QED BY <1>9, <1>10, FS_Bijection DEF P, Q, t

LEMMA MarkerShift ==
  ASSUME NEW s \in Seq(Byte), s # <<>>, NEW a \in 1 .. Len(s), NEW b \in 0 .. Len(s) - 1,
         HasMarker(s, a + 1, b + 1)
  PROVE  HasMarker(Tail(s), a, b)
<1> USE DelimAssumption
<1> DEFINE t == Tail(s)
<1>1. Len(s) \in Nat /\ \A k \in 1 .. Len(s) - 1 : t[k] = s[k + 1]
  BY HeadTailProperties
<1> HIDE DEF t
<1>2. PICK i \in a + 1 .. b + 1 : /\ i + DELIM_LENGTH - 1 <= b + 1
                                 /\ \A k \in i .. i + DELIM_LENGTH - 1 : s[k] = "+"
  BY DEF HasMarker
<1>3. i - 1 \in a .. b /\ (i - 1) + DELIM_LENGTH - 1 <= b
  BY <1>1, <1>2
<1>4. ASSUME NEW k \in i - 1 .. (i - 1) + DELIM_LENGTH - 1 PROVE t[k] = "+"
  <2>1. k \in 1 .. Len(s) - 1 /\ k + 1 \in i .. i + DELIM_LENGTH - 1
    BY <1>1, <1>2
  <2> QED BY <1>1, <1>2, <2>1
<1>5. HasMarker(t, a, b)
  BY <1>3, <1>4 DEF HasMarker
<1> QED BY <1>5 DEF t

\* A marker among the first bytes of s is one of u, which starts like s.
LEMMA MarkerStays ==
  ASSUME NEW s \in Seq(Byte), NEW u \in Seq(Byte),
         \A k \in 1 .. Len(s) : u[k] = s[k],
         NEW a \in 1 .. Len(s), NEW b \in Nat, NEW c \in Nat, c <= b, c <= Len(s), HasMarker(s, a, c)
  PROVE  HasMarker(u, a, b)
<1> USE DelimAssumption
<1>1. PICK i \in a .. c : /\ i + DELIM_LENGTH - 1 <= c
                         /\ \A k \in i .. i + DELIM_LENGTH - 1 : s[k] = "+"
  BY DEF HasMarker
<1>2. i \in a .. b /\ i + DELIM_LENGTH - 1 <= b /\ Len(s) \in Nat
  BY <1>1
<1>3. \A k \in i .. i + DELIM_LENGTH - 1 : k \in 1 .. Len(s)
  BY <1>1, <1>2
<1>4. \A k \in i .. i + DELIM_LENGTH - 1 : u[k] = "+"
  BY <1>1, <1>3
<1> QED BY <1>2, <1>4 DEF HasMarker

-----------------------------------------------------------------------------
(* What is printed *)

\* u is s and a frame behind it, or what is left of one: a whole opening marker, then
\* at most n bytes for a message.
Framed(u, s, n) ==
  /\ Len(u) >= Len(s) + DELIM_LENGTH
  /\ \A k \in 1 .. Len(s) : u[k] = s[k]
  /\ \A k \in Len(s) + 1 .. Len(s) + DELIM_LENGTH : u[k] = "+"
  /\ \A k \in Len(s) + DELIM_LENGTH + 1 .. Len(u) :
       u[k] \in {"+", "-"} \/ k <= Len(s) + DELIM_LENGTH + n

LEMMA FrameIsFramed ==
  ASSUME NEW s \in Seq(Byte), NEW t \in Seq(Byte), NEW c \in Seq(Byte), NEW n \in Nat,
         Len(t) <= n, \A k \in 1 .. Len(c) : c[k] = "-"
  PROVE  /\ s \o Marker("+") \o t \o c \in Seq(Byte)
         /\ Framed(s \o Marker("+") \o t \o c, s, n)
<1> USE DelimAssumption
<1> DEFINE o == Marker("+")
           D == DELIM_LENGTH
<1>1. o \in Seq(Byte) /\ Len(o) = D /\ \A k \in 1 .. D : o[k] = "+"
  BY ByteTypes DEF Marker
<1> HIDE DEF o
<1>2. /\ s \o o \in Seq(Byte) /\ Len(s \o o) = Len(s) + D
      /\ \A k \in 1 .. Len(s) + D : (s \o o)[k] = IF k <= Len(s) THEN s[k] ELSE o[k - Len(s)]
  BY <1>1, ConcatProperties
<1> DEFINE v == s \o o
<1> HIDE DEF v
<1>3. v \in Seq(Byte) /\ Len(v) = Len(s) + D
      /\ \A k \in 1 .. Len(s) + D : v[k] = IF k <= Len(s) THEN s[k] ELSE o[k - Len(s)]
  BY <1>2 DEF v
<1> DEFINE w == v \o t
<1>4. /\ w \in Seq(Byte) /\ Len(w) = Len(v) + Len(t)
      /\ \A k \in 1 .. Len(v) + Len(t) : w[k] = IF k <= Len(v) THEN v[k] ELSE t[k - Len(v)]
  BY <1>3, ConcatProperties
<1> HIDE DEF w
<1> DEFINE x == w \o c
<1>5. /\ x \in Seq(Byte) /\ Len(x) = Len(w) + Len(c)
      /\ \A k \in 1 .. Len(w) + Len(c) : x[k] = IF k <= Len(w) THEN w[k] ELSE c[k - Len(w)]
  BY <1>4, ConcatProperties
<1> HIDE DEF x
<1>6. s \o Marker("+") \o t \o c = x
  BY DEF x, w, v, o
<1>7. Len(s) \in Nat /\ Len(t) \in Nat /\ Len(c) \in Nat
  OBVIOUS
<1>8. \A k \in 1 .. Len(s) : x[k] = s[k]
  BY <1>3, <1>4, <1>5, <1>7
<1>9. ASSUME NEW k \in Len(s) + 1 .. Len(s) + D PROVE x[k] = "+"
  <2>1. x[k] = o[k - Len(s)] /\ k - Len(s) \in 1 .. D
    BY <1>3, <1>4, <1>5, <1>7
  <2> QED BY <1>1, <2>1
<1>10. ASSUME NEW k \in Len(s) + D + 1 .. Len(x), k > Len(s) + D + n PROVE x[k] = "-"
  <2>1. x[k] = c[k - Len(w)] /\ k - Len(w) \in 1 .. Len(c)
    BY <1>3, <1>4, <1>5, <1>7, <1>10
  <2> QED BY <2>1
<1>11. Framed(x, s, n)
  BY <1>3, <1>4, <1>5, <1>7, <1>8, <1>9, <1>10 DEF Framed
<1> QED BY <1>5, <1>6, <1>11

\* What is behind w is behind w with q before it.
LEMMA FramedBehind ==
  ASSUME NEW q \in Seq(Byte), NEW w \in Seq(Byte), NEW x \in Seq(Byte), NEW n \in Nat,
         Framed(x, w, n)
  PROVE  Framed(q \o x, q \o w, n)
<1> USE DelimAssumption
<1> DEFINE u == q \o x
           s == q \o w
           D == DELIM_LENGTH
<1>1. /\ Len(q) \in Nat /\ Len(w) \in Nat /\ Len(x) \in Nat /\ D \in Nat
      /\ Len(x) >= Len(w) + D
  BY DEF Framed
<1>2. /\ Len(u) = Len(q) + Len(x) /\ Len(s) = Len(q) + Len(w)
      /\ \A k \in 1 .. Len(q) : u[k] = q[k] /\ s[k] = q[k]
      /\ \A k \in Len(q) + 1 .. Len(u) : u[k] = x[k - Len(q)]
      /\ \A k \in Len(q) + 1 .. Len(s) : s[k] = w[k - Len(q)]
  BY <1>1, ConcatProperties
<1> HIDE DEF u, s, D
<1>3. ASSUME NEW k \in 1 .. Len(s) PROVE u[k] = s[k]
  <2>1. CASE k <= Len(q)
    BY <1>1, <1>2, <2>1
  <2>2. CASE k > Len(q)
    <3>1. k - Len(q) \in 1 .. Len(w) /\ k \in Len(q) + 1 .. Len(u) /\ k \in Len(q) + 1 .. Len(s)
      BY <1>1, <1>2, <2>2
    <3>2. x[k - Len(q)] = w[k - Len(q)]
      BY <3>1 DEF Framed
    <3> QED BY <1>2, <3>1, <3>2
  <2> QED BY <1>1, <2>1, <2>2
<1>4. ASSUME NEW k \in Len(s) + 1 .. Len(s) + D PROVE u[k] = "+"
  <2>1. k - Len(q) \in Len(w) + 1 .. Len(w) + D /\ k \in Len(q) + 1 .. Len(u)
    BY <1>1, <1>2
  <2>2. x[k - Len(q)] = "+"
    BY <2>1 DEF Framed, D
  <2> QED BY <1>2, <2>1, <2>2
<1>5. ASSUME NEW k \in Len(s) + D + 1 .. Len(u) PROVE u[k] \in {"+", "-"} \/ k <= Len(s) + D + n
  <2>1. k - Len(q) \in Len(w) + D + 1 .. Len(x) /\ k \in Len(q) + 1 .. Len(u)
    BY <1>1, <1>2
  <2>2. x[k - Len(q)] \in {"+", "-"} \/ k - Len(q) <= Len(w) + D + n
    BY <2>1 DEF Framed, D
  <2> QED BY <1>1, <1>2, <2>1, <2>2
<1>6. Len(u) >= Len(s) + D
  BY <1>1, <1>2
<1> QED BY <1>3, <1>4, <1>5, <1>6 DEF Framed, D, u, s

\* Without a marker up to b, b is not behind the marker of the frame.
LEMMA BeforeMarker ==
  ASSUME NEW s \in Seq(Byte), NEW u \in Seq(Byte), NEW n \in Nat, Framed(u, s, n),
         NEW a \in 1 .. Len(s) + 1, NEW b \in 1 .. Len(u), ~ HasMarker(u, a, b)
  PROVE  /\ Plain(u, a, b) \subseteq Plain(s, a, Len(s))
         /\ b <= Len(s) => Plain(u, a, b) = Plain(s, a, b)
<1> USE DelimAssumption
<1>1. Len(s) \in Nat /\ Len(u) \in Nat
  OBVIOUS
<1>2. b < Len(s) + DELIM_LENGTH
  <2> SUFFICES ASSUME b >= Len(s) + DELIM_LENGTH PROVE FALSE
    BY <1>1
  <2> DEFINE i == Len(s) + 1
  <2>1. i \in a .. b /\ i + DELIM_LENGTH - 1 = Len(s) + DELIM_LENGTH
    BY <1>1
  <2>2. \A k \in i .. i + DELIM_LENGTH - 1 : u[k] = "+"
    BY <2>1 DEF Framed
  <2> HIDE DEF i
  <2>3. HasMarker(u, a, b)
    BY <1>1, <2>1, <2>2 DEF HasMarker
  <2> QED BY <2>3
<1>3. ASSUME NEW k \in Plain(u, a, b) PROVE k \in a .. Len(s) /\ u[k] = s[k]
  <2>1. k \in a .. b /\ u[k] \notin {"+", "-"}
    BY DEF Plain
  <2>2. k \notin Len(s) + 1 .. Len(s) + DELIM_LENGTH
    BY <2>1 DEF Framed
  <2>3. k \in 1 .. Len(s)
    BY <1>1, <1>2, <2>1, <2>2
  <2> QED BY <2>1, <2>3 DEF Framed
<1>4. Plain(u, a, b) \subseteq Plain(s, a, Len(s))
  BY <1>3 DEF Plain
<1>5. ASSUME b <= Len(s) PROVE Plain(u, a, b) = Plain(s, a, b)
  <2>1. \A k \in a .. b : u[k] = s[k]
    BY <1>1, <1>5 DEF Framed
  <2> QED BY <2>1 DEF Plain
<1> QED BY <1>4, <1>5

LEMMA FrameFits ==
  ASSUME NEW s \in Seq(Byte), NEW u \in Seq(Byte), NEW n \in Nat, Framed(u, s, n),
         NEW room \in Int, n <= room
  PROVE  /\ Close(s, room) => Close(u, room)
         /\ \A m \in Nat : m <= room /\ Rest(s, m, room) => Rest(u, m, room)
<1> USE DelimAssumption
<1>1. Len(s) \in Nat /\ Len(u) \in Nat /\ \A k \in 1 .. Len(s) : u[k] = s[k]
  BY DEF Framed
<1>2. ASSUME Close(s, room), NEW a \in 1 .. Len(u), NEW b \in 1 .. Len(u), a <= b, ~ HasMarker(u, a, b)
      PROVE  Cardinality(Plain(u, a, b)) <= room
  <2>1. CASE a <= Len(s)
    <3>1. CASE b <= Len(s)
      <4>1. ~ HasMarker(s, a, b)
        BY <1>1, <1>2, <2>1, <3>1, MarkerStays
      <4>2. Plain(u, a, b) = Plain(s, a, b)
        BY <1>1, <1>2, <2>1, <3>1, BeforeMarker
      <4> QED BY <1>1, <1>2, <2>1, <3>1, <4>1, <4>2 DEF Close
    <3>2. CASE b > Len(s)
      <4>1. ~ HasMarker(s, a, Len(s))
        BY <1>1, <1>2, <2>1, <3>2, MarkerStays
      <4>2. Cardinality(Plain(s, a, Len(s))) <= room
        BY <1>1, <1>2, <2>1, <4>1 DEF Close
      <4>3. Plain(u, a, b) \subseteq Plain(s, a, Len(s))
        BY <1>1, <1>2, <2>1, BeforeMarker
      <4>4. /\ IsFiniteSet(Plain(s, a, Len(s))) /\ Cardinality(Plain(s, a, Len(s))) \in Nat
            /\ Cardinality(Plain(u, a, b)) \in Nat
        BY <1>1, PlainCount
      <4>5. Cardinality(Plain(u, a, b)) <= Cardinality(Plain(s, a, Len(s)))
        BY <4>3, <4>4, PlainBound
      <4> QED BY <4>2, <4>4, <4>5
    <3> QED BY <1>1, <3>1, <3>2
  <2>2. CASE a > Len(s)
    <3> DEFINE T == Len(s) + DELIM_LENGTH + 1 .. Len(s) + DELIM_LENGTH + n
    <3>1. ASSUME NEW k \in Plain(u, a, b) PROVE k \in T
      <4>1. k \in Len(s) + 1 .. Len(u) /\ u[k] \notin {"+", "-"}
        BY <1>1, <2>2 DEF Plain
      <4>2. k \notin Len(s) + 1 .. Len(s) + DELIM_LENGTH
        BY <4>1 DEF Framed
      <4>3. k \in Len(s) + DELIM_LENGTH + 1 .. Len(u)
        BY <1>1, <4>1, <4>2
      <4>4. k <= Len(s) + DELIM_LENGTH + n
        BY <4>1, <4>3 DEF Framed
      <4> QED BY <1>1, <4>3, <4>4
    <3>2. IsFiniteSet(T) /\ Cardinality(T) = n
      <4> DEFINE lo == Len(s) + DELIM_LENGTH + 1
                 hi == Len(s) + DELIM_LENGTH + n
      <4>1. lo \in Int /\ hi \in Int /\ lo <= hi + 1 /\ hi - lo + 1 = n
        BY <1>1
      <4>2. T = lo .. hi
        OBVIOUS
      <4> HIDE DEF lo, hi, T
      <4>3. IsFiniteSet(lo .. hi) /\ Cardinality(lo .. hi) = IF lo > hi THEN 0 ELSE hi - lo + 1
        BY <4>1, FS_Interval
      <4> QED BY <4>1, <4>2, <4>3
    <3> HIDE DEF T
    <3>3. Cardinality(Plain(u, a, b)) <= n /\ Cardinality(Plain(u, a, b)) \in Nat
      BY <3>1, <3>2, PlainBound, PlainCount
    <3> QED BY <3>3
  <2> QED BY <1>1, <2>1, <2>2
<1>3. ASSUME NEW m \in Nat, m <= room, Rest(s, m, room), NEW b \in 1 .. Len(u), ~ HasMarker(u, 1, b)
      PROVE  m + Cardinality(Plain(u, 1, b)) <= room
  <2>1. CASE b <= Len(s)
    <3>1. ~ HasMarker(s, 1, b)
      BY <1>1, <1>3, <2>1, MarkerStays
    <3>2. Plain(u, 1, b) = Plain(s, 1, b)
      BY <1>1, <1>3, <2>1, BeforeMarker
    <3> QED BY <1>1, <1>3, <2>1, <3>1, <3>2 DEF Rest
  <2>2. CASE b > Len(s)
    <3>1. Plain(u, 1, b) \subseteq Plain(s, 1, Len(s))
      BY <1>1, <1>3, BeforeMarker
    <3>2. /\ IsFiniteSet(Plain(s, 1, Len(s))) /\ Cardinality(Plain(s, 1, Len(s))) \in Nat
          /\ Cardinality(Plain(u, 1, b)) \in Nat
      BY <1>1, PlainCount
    <3>3. Cardinality(Plain(u, 1, b)) <= Cardinality(Plain(s, 1, Len(s)))
      BY <3>1, <3>2, PlainBound
    <3>4. m + Cardinality(Plain(s, 1, Len(s))) <= room
      <4>1. CASE Len(s) = 0
        <5>1. Plain(s, 1, Len(s)) = {}
          BY <4>1 DEF Plain
        <5>2. Cardinality(Plain(s, 1, Len(s))) = 0
          BY <5>1, FS_EmptySet
        <5> QED BY <1>3, <5>2
      <4>2. CASE Len(s) # 0
        <5>1. ~ HasMarker(s, 1, Len(s))
          BY <1>1, <1>3, <2>2, <4>2, MarkerStays
        <5> QED BY <1>1, <1>3, <4>2, <5>1 DEF Rest
      <4> QED BY <4>1, <4>2
    <3> QED BY <3>2, <3>3, <3>4
  <2> QED BY <1>1, <2>1, <2>2
<1>4. Close(s, room) => Close(u, room)
  BY <1>2 DEF Close
<1>5. ASSUME NEW m \in Nat, m <= room, Rest(s, m, room) PROVE Rest(u, m, room)
  BY <1>3, <1>5 DEF Rest
<1> QED BY <1>4, <1>5

\* The line that setup prints adds its length to what may lie between two markers.
LEMMA BannerPlain ==
  ASSUME NEW s \in Seq(Byte), NEW t \in Seq(Byte), NEW u \in Seq(Byte), u = s \o t,
         NEW a \in 1 .. Len(u), NEW b \in 1 .. Len(u), NEW c \in Nat,
         c = IF b <= Len(s) THEN b ELSE Len(s)
  PROVE  Cardinality(Plain(u, a, b)) <= Cardinality(Plain(s, a, c)) + Len(t)
<1> DEFINE lo == Len(s) + 1
           hi == Len(s) + Len(t)
           T == lo .. hi
           P == Plain(s, a, c)
           Q == Plain(u, a, b)
<1>1. /\ Len(s) \in Nat /\ Len(t) \in Nat /\ Len(u) = Len(s) + Len(t)
      /\ \A k \in 1 .. Len(s) : u[k] = s[k]
  BY ConcatProperties
<1>2. lo \in Int /\ hi \in Int /\ lo <= hi + 1 /\ hi - lo + 1 = Len(t)
  BY <1>1
<1>3. ASSUME NEW k \in Q PROVE k \in P \cup T
  <2>1. k \in a .. b /\ u[k] \notin {"+", "-"}
    BY DEF Plain
  <2>2. CASE k <= Len(s)
    <3>1. k \in a .. c /\ k \in 1 .. Len(s)
      BY <1>1, <2>1, <2>2
    <3>2. u[k] = s[k]
      BY <1>1, <3>1
    <3> QED BY <2>1, <3>1, <3>2 DEF Plain
  <2>3. CASE k > Len(s)
    BY <1>1, <2>1, <2>3
  <2> QED BY <1>1, <2>1, <2>2, <2>3
<1>4. IsFiniteSet(P) /\ Cardinality(P) \in Nat /\ Cardinality(Q) \in Nat
  BY <1>1, PlainCount
<1> HIDE DEF lo, hi
<1>5. IsFiniteSet(T) /\ Cardinality(T) = Len(t)
  <2>1. IsFiniteSet(T) /\ Cardinality(T) = IF lo > hi THEN 0 ELSE hi - lo + 1
    BY <1>2, FS_Interval
  <2> QED BY <1>2, <2>1
<1> HIDE DEF T, P
<1>6. /\ IsFiniteSet(P \cup T) /\ IsFiniteSet(P \cap T)
      /\ Cardinality(P \cup T) = Cardinality(P) + Cardinality(T) - Cardinality(P \cap T)
  BY <1>4, <1>5, FS_Union, FS_Intersection
<1>7. Cardinality(P \cap T) \in Nat
  BY <1>6, FS_CardinalityType
<1>8. Cardinality(Q) <= Cardinality(P \cup T)
  BY <1>1, <1>3, <1>6, PlainBound
<1> HIDE DEF Q
<1>9. Cardinality(Q) <= Cardinality(P) + Len(t)
  BY <1>1, <1>4, <1>5, <1>6, <1>7, <1>8
<1> QED BY <1>9 DEF P, Q

LEMMA BannerFits ==
  ASSUME NEW s \in Seq(Byte), NEW t \in Seq(Byte), NEW u \in Seq(Byte), u = s \o t,
         NEW room \in Nat
  PROVE  /\ Close(s, room) => Close(u, room + Len(t))
         /\ \A m \in Nat : m <= room /\ Rest(s, m, room) => Rest(u, m, room + Len(t))
<1>1. /\ Len(s) \in Nat /\ Len(t) \in Nat /\ Len(u) = Len(s) + Len(t)
      /\ \A k \in 1 .. Len(s) : u[k] = s[k]
  BY ConcatProperties
<1>2. ASSUME NEW m \in Nat, m <= room, NEW a \in 1 .. Len(u), NEW b \in 1 .. Len(u),
             ~ HasMarker(u, a, b),
             \A c \in 1 .. Len(s) : a <= c /\ ~ HasMarker(s, a, c)
                                      => m + Cardinality(Plain(s, a, c)) <= room
      PROVE  m + Cardinality(Plain(u, a, b)) <= room + Len(t)
  <2> DEFINE c == IF b <= Len(s) THEN b ELSE Len(s)
  <2>1. c \in Nat /\ c <= b /\ c <= Len(s)
    BY <1>1
  <2>2. Cardinality(Plain(u, a, b)) <= Cardinality(Plain(s, a, c)) + Len(t)
    BY <2>1, BannerPlain
  <2> HIDE DEF c
  <2>3. Cardinality(Plain(s, a, c)) \in Nat /\ Cardinality(Plain(u, a, b)) \in Nat
    BY <1>1, <2>1, PlainCount
  <2>4. m + Cardinality(Plain(s, a, c)) <= room
    <3>1. CASE a <= c
      <4>1. a \in 1 .. Len(s) /\ c \in 1 .. Len(s) /\ b \in Nat
        BY <1>1, <2>1, <3>1
      <4>2. HasMarker(s, a, c) => HasMarker(u, a, b)
        BY <1>1, <2>1, <4>1, MarkerStays
      <4> QED BY <1>2, <3>1, <4>1, <4>2
    <3>2. CASE a > c
      <4>1. Plain(s, a, c) = {}
        BY <2>1, <3>2 DEF Plain
      <4>2. Cardinality(Plain(s, a, c)) = 0
        BY <4>1, FS_EmptySet
      <4> QED BY <1>2, <4>2
    <3> QED BY <1>1, <2>1, <3>1, <3>2
  <2> QED BY <1>1, <2>2, <2>3, <2>4
<1>3. ASSUME Close(s, room) PROVE Close(u, room + Len(t))
  <2> SUFFICES ASSUME NEW a \in 1 .. Len(u), NEW b \in 1 .. Len(u), ~ HasMarker(u, a, b)
               PROVE  Cardinality(Plain(u, a, b)) <= room + Len(t)
    BY DEF Close
  <2>1. \A c \in 1 .. Len(s) : Cardinality(Plain(s, a, c)) \in Nat
    BY <1>1, PlainCount
  <2>2. \A c \in 1 .. Len(s) : a <= c /\ ~ HasMarker(s, a, c)
                                 => 0 + Cardinality(Plain(s, a, c)) <= room
    BY <1>1, <1>3, <2>1 DEF Close
  <2>3. 0 + Cardinality(Plain(u, a, b)) <= room + Len(t)
    BY <1>2, <2>2
  <2>4. Cardinality(Plain(u, a, b)) \in Nat
    BY <1>1, PlainCount
  <2> QED BY <2>3, <2>4
<1>4. ASSUME NEW m \in Nat, m <= room, Rest(s, m, room) PROVE Rest(u, m, room + Len(t))
  <2> SUFFICES ASSUME NEW b \in 1 .. Len(u), ~ HasMarker(u, 1, b)
               PROVE  m + Cardinality(Plain(u, 1, b)) <= room + Len(t)
    BY DEF Rest
  <2>1. 1 \in 1 .. Len(u)
    BY <1>1
  <2>2. \A c \in 1 .. Len(s) : 1 <= c /\ ~ HasMarker(s, 1, c)
                                 => m + Cardinality(Plain(s, 1, c)) <= room
    BY <1>4 DEF Rest
  <2> QED BY <1>2, <1>4, <2>1, <2>2
<1> QED BY <1>3, <1>4

-----------------------------------------------------------------------------
(* What is parsed *)

LEMMA TailIsClose ==
  ASSUME NEW s \in Seq(Byte), s # <<>>, NEW room \in Int, Close(s, room)
  PROVE  Close(Tail(s), room)
<1> SUFFICES ASSUME NEW a \in 1 .. Len(Tail(s)), NEW b \in 1 .. Len(Tail(s)), a <= b,
                    ~ HasMarker(Tail(s), a, b)
             PROVE  Cardinality(Plain(Tail(s), a, b)) <= room
  BY DEF Close
<1>1. Len(s) \in Nat /\ Len(Tail(s)) = Len(s) - 1
  BY HeadTailProperties
<1>2. /\ a \in 1 .. Len(s) /\ b \in 0 .. Len(s) - 1
      /\ a + 1 \in 1 .. Len(s) /\ b + 1 \in 1 .. Len(s) /\ a + 1 <= b + 1
  BY <1>1
<1>3. ~ HasMarker(s, a + 1, b + 1)
  BY <1>2, MarkerShift
<1>4. Cardinality(Plain(s, a + 1, b + 1)) <= room
  BY <1>2, <1>3 DEF Close
<1> QED BY <1>2, <1>4, PlainShift

\* s begins with an opening marker.
StartsMarker(s) == DELIM_LENGTH <= Len(s) /\ \A k \in 1 .. DELIM_LENGTH : s[k] = "+"

\* A byte that does not begin an opening marker goes over to the open message, or
\* is a delimiter that does not belong to it.
LEMMA RestIsTaken ==
  ASSUME NEW s \in Seq(Byte), s # <<>>, NEW room \in Int, NEW m \in Nat,
         Rest(s, m, room), ~ StartsMarker(s)
  PROVE  /\ Rest(Tail(s), m, room)
         /\ s[1] \notin {"+", "-"} => m + 1 <= room /\ Rest(Tail(s), m + 1, room)
<1> USE DelimAssumption
<1>1. Len(s) \in Nat /\ Len(Tail(s)) = Len(s) - 1 /\ Len(s) # 0 /\ 1 \in 1 .. Len(s)
  BY HeadTailProperties, EmptySeq
<1>2. ASSUME NEW b \in 0 .. Len(s) - 1, HasMarker(s, 1, b + 1) PROVE HasMarker(Tail(s), 1, b)
  <2>1. PICK i \in 1 .. b + 1 : /\ i + DELIM_LENGTH - 1 <= b + 1
                               /\ \A k \in i .. i + DELIM_LENGTH - 1 : s[k] = "+"
    BY <1>2 DEF HasMarker
  <2>2. CASE i = 1
    <3>1. DELIM_LENGTH <= Len(s) /\ \A k \in 1 .. DELIM_LENGTH : s[k] = "+"
      BY <1>1, <2>1, <2>2
    <3> QED BY <3>1 DEF StartsMarker
  <2>3. CASE i # 1
    <3>1. i \in 1 + 1 .. b + 1
      BY <2>3
    <3>2. HasMarker(s, 1 + 1, b + 1)
      BY <2>1, <3>1 DEF HasMarker
    <3> QED BY <1>1, <3>2, MarkerShift
  <2> QED BY <2>2, <2>3
<1>3. ASSUME NEW b \in 0 .. Len(s) - 1
      PROVE  /\ Cardinality(Plain(Tail(s), 1, b)) \in Nat /\ Cardinality(Plain(s, 1, b + 1)) \in Nat
             /\ Cardinality(Plain(Tail(s), 1, b)) <= Cardinality(Plain(s, 1, b + 1))
             /\ s[1] \notin {"+", "-"} =>
                  Cardinality(Plain(s, 1, b + 1)) = Cardinality(Plain(Tail(s), 1, b)) + 1
  <2> DEFINE P == Plain(s, 2, b + 1)
             Q == Plain(s, 1, b + 1)
  <2>1. Cardinality(Plain(Tail(s), 1, b)) = Cardinality(P)
    <3>1. Cardinality(Plain(Tail(s), 1, b)) = Cardinality(Plain(s, 1 + 1, b + 1))
      BY <1>1, PlainShift
    <3> QED BY <3>1
  <2>2. IsFiniteSet(P) /\ Cardinality(P) \in Nat /\ IsFiniteSet(Q) /\ Cardinality(Q) \in Nat
    BY PlainCount
  <2>3. P \subseteq Q /\ 1 \notin P
    BY DEF Plain
  <2>4. s[1] \notin {"+", "-"} => Q = P \cup {1}
    BY DEF Plain
  <2>5. Cardinality(P) <= Cardinality(Q)
    BY <2>2, <2>3, FS_Subset
  <2> HIDE DEF P, Q
  <2>6. Cardinality(P \cup {1}) = Cardinality(P) + 1
    BY <2>2, <2>3, FS_AddElement
  <2> QED BY <2>1, <2>2, <2>4, <2>5, <2>6 DEF Q
<1>4. ASSUME NEW b \in 1 .. Len(Tail(s)), ~ HasMarker(Tail(s), 1, b)
      PROVE  /\ m + Cardinality(Plain(Tail(s), 1, b)) <= room
             /\ s[1] \notin {"+", "-"} => m + 1 + Cardinality(Plain(Tail(s), 1, b)) <= room
  <2>1. b \in 0 .. Len(s) - 1 /\ b + 1 \in 1 .. Len(s)
    BY <1>1
  <2>2. ~ HasMarker(s, 1, b + 1)
    BY <1>2, <1>4, <2>1
  <2>3. m + Cardinality(Plain(s, 1, b + 1)) <= room
    BY <2>1, <2>2 DEF Rest
  <2> QED BY <1>3, <2>1, <2>3
<1>5. ASSUME s[1] \notin {"+", "-"} PROVE m + 1 <= room
  <2>1. 0 \in 0 .. Len(s) - 1 /\ 0 + 1 = 1
    BY <1>1
  <2>2. ~ HasMarker(s, 1, 1)
    BY <1>5 DEF HasMarker
  <2>3. m + Cardinality(Plain(s, 1, 1)) <= room
    BY <1>1, <2>2 DEF Rest
  <2>4. Cardinality(Plain(s, 1, 0 + 1)) = Cardinality(Plain(Tail(s), 1, 0)) + 1
    BY <1>3, <1>5, <2>1
  <2>5. Cardinality(Plain(Tail(s), 1, 0)) \in Nat
    BY <1>3, <2>1
  <2> QED BY <2>3, <2>4, <2>5
<1>6. Rest(Tail(s), m, room)
  BY <1>4 DEF Rest
<1>7. s[1] \notin {"+", "-"} => Rest(Tail(s), m + 1, room)
  BY <1>4 DEF Rest
<1> QED BY <1>5, <1>6, <1>7

-----------------------------------------------------------------------------
(* The invariant *)

\* The blocks have room for a text and for every line that setup may print: one that
\* follows a frame without its closing marker goes to the message of that frame.
BlocksHaveRoom ==
  /\ MAX_BOOTS * Len(Banner) <= BUFFER_SIZE
  /\ \A p \in Text : Len(p) + MAX_BOOTS * Len(Banner) <= BUFFER_SIZE

LEMMA RoomIsEnough ==
  ASSUME TypeOK, BlocksHaveRoom
  PROVE  /\ Room \in Nat /\ Room <= BUFFER_SIZE /\ Len(Banner) \in Nat
         /\ \A p \in Text : Len(p) <= Room
         /\ boots' = boots => Room' = Room
         /\ boots' = boots + 1 => Room' = Room + Len(Banner)
<1> DEFINE l == Len(Banner)
           k == MAX_BOOTS - boots
<1>1. l \in Nat /\ boots \in Nat /\ k \in Nat /\ MAX_BOOTS = k + boots /\ BUFFER_SIZE \in Nat
  BY BannerAssumption, BoundAssumption DEF TypeOK
<1>2. Room = BUFFER_SIZE - k * l
  BY DEF Room
<1>3. \A p \in Text : Len(p) \in Nat
  BY TextAssumption
<1> HIDE DEF k, l
<1>4. k * l \in Nat /\ boots * l \in Nat /\ (k + boots) * l = k * l + boots * l
  BY <1>1
<1>5. MAX_BOOTS * l = k * l + boots * l
  BY <1>1, <1>4
<1>6. MAX_BOOTS * l <= BUFFER_SIZE
  BY DEF l, BlocksHaveRoom
<1>7. Room \in Nat /\ Room <= BUFFER_SIZE
  BY <1>1, <1>2, <1>4, <1>5, <1>6
<1>8. ASSUME NEW p \in Text PROVE Len(p) <= Room
  <2>1. Len(p) + MAX_BOOTS * l <= BUFFER_SIZE
    BY DEF BlocksHaveRoom, l
  <2> QED BY <1>1, <1>2, <1>3, <1>4, <1>5, <2>1
<1>9. boots' = boots => Room' = Room
  BY DEF Room
<1>10. ASSUME boots' = boots + 1 PROVE Room' = Room + l
  <2>1. Room' = BUFFER_SIZE - (MAX_BOOTS - boots') * l
    BY DEF Room, l
  <2>2. MAX_BOOTS - boots' = k - 1
    BY <1>1, <1>10
  <2>3. (k - 1) * l = k * l - l
    BY <1>1
  <2> QED BY <1>1, <1>2, <1>4, <2>1, <2>2, <2>3
<1> QED BY <1>1, <1>7, <1>8, <1>9, <1>10 DEF l

LEMMA InitFit == BlocksHaveRoom /\ Init => FitInv
<1> SUFFICES ASSUME BlocksHaveRoom, Init PROVE FitInv
  OBVIOUS
<1>1. TypeOK /\ current_message = NULL
  BY InitType DEF Init
<1>2. Stream = <<>> \o <<>>
  BY DEF Init, Stream
<1>3. Stream \in Seq(Byte) /\ Len(Stream) = 0
  <2>1. <<>> \in Seq(Byte) /\ Len(<<>>) = 0
    OBVIOUS
  <2>2. Len(<<>> \o <<>>) = 0 /\ <<>> \o <<>> \in Seq(Byte)
    BY <2>1, ConcatProperties
  <2> QED BY <1>2, <2>2
<1>4. Close(Stream, Room)
  BY <1>3 DEF Close
<1> QED BY <1>1, <1>4 DEF FitInv, Fits, RestFits

LEMMA StreamType ==
  ASSUME TypeOK
  PROVE  Stream \in Seq(Byte) /\ Len(Stream) = Len(buffer) + Len(wire)
BY ConcatProperties DEF TypeOK, Stream

LEMMA FrameKeepsFit ==
  ASSUME "open" \notin Lossy, BlocksHaveRoom, FitInv,
         NEW p \in Text, NEW lost \in SUBSET Lossy,
         NEW i \in IF "text" \in lost THEN DOMAIN p ELSE {1}, writeSerial(p, lost, i)
  PROVE  Fits' /\ (Live' => Close(Stream, Room)' /\ RestFits')
<1> DEFINE f == OnTheLine(p, lost, i)
           s == Stream
           u == Stream'
           m == Len(current_message)
<1>1. TypeOK /\ Fits /\ (Live => Close(Stream, Room) /\ RestFits)
  BY DEF FitInv
<1>2. /\ wire' = wire \o f.open \o f.text \o f.close
      /\ UNCHANGED <<boots, running, crashed, buffer, plus_count, current_message>>
  BY DEF writeSerial, parser
<1>3. /\ f.open = Marker("+") /\ f.text \in Seq(Byte) /\ f.close \in Seq(Byte)
      /\ f.open \in Seq(Byte) /\ Len(f.text) <= Len(p)
      /\ \A k \in 1 .. Len(f.close) : f.close[k] = "-"
  BY LineTypes
<1> DEFINE t == f.text
           c == f.close
<1> HIDE DEF f
<1>4. u = buffer \o (wire \o Marker("+") \o t \o c)
  BY <1>2, <1>3 DEF Stream
<1>5. s = buffer \o wire /\ s \in Seq(Byte) /\ buffer \in Seq(Byte) /\ wire \in Seq(Byte)
      /\ Marker("+") \in Seq(Byte)
  BY <1>1, <1>3, StreamType DEF Stream, TypeOK
<1>6. Room \in Nat /\ Len(p) <= Room /\ Room' = Room
  BY <1>1, <1>2, RoomIsEnough
<1> HIDE DEF t, c, s, u
<1>7. t \in Seq(Byte) /\ c \in Seq(Byte) /\ Len(t) <= Len(p) /\ \A k \in 1 .. Len(c) : c[k] = "-"
  BY <1>3 DEF t, c
<1>8. Len(p) \in Nat /\ Len(t) <= Len(p)
  BY <1>7, TextAssumption
<1> DEFINE x == wire \o Marker("+") \o t \o c
<1>9. x \in Seq(Byte) /\ Framed(x, wire, Len(p)) /\ u = buffer \o x
  BY <1>4, <1>5, <1>7, <1>8, FrameIsFramed
<1> HIDE DEF x
<1>10. u \in Seq(Byte) /\ Framed(u, s, Len(p))
  <2>1. buffer \o x \in Seq(Byte)
    BY <1>5, <1>9, ConcatProperties
  <2>2. Framed(buffer \o x, buffer \o wire, Len(p))
    BY <1>5, <1>8, <1>9, FramedBehind
  <2> QED BY <1>5, <1>9, <2>1, <2>2
<1>11. /\ Close(s, Room) => Close(u, Room)
       /\ \A n \in Nat : n <= Room /\ Rest(s, n, Room) => Rest(u, n, Room)
  <2> DEFINE n == Len(p)
             room == Room
  <2>1. n \in Nat /\ room \in Int /\ n <= room /\ Framed(u, s, n)
    BY <1>6, <1>8, <1>10
  <2> HIDE DEF n, room
  <2>2. /\ Close(s, room) => Close(u, room)
        /\ \A k \in Nat : k <= room /\ Rest(s, k, room) => Rest(u, k, room)
    BY <1>5, <1>10, <2>1, FrameFits
  <2> QED BY <2>2 DEF room
<1>12. Fits'
  BY <1>1, <1>2, <1>6 DEF Fits
<1>13. Live' => Live
  BY <1>2 DEF Live
<1>14. ASSUME Live' PROVE Close(Stream, Room)'
  <2>1. Close(u, Room)
    BY <1>1, <1>11, <1>13, <1>14 DEF s
  <2>2. Close(u, Room')
    BY <1>6, <2>1
  <2> QED BY <2>2 DEF Close, HasMarker, Plain, u
<1>15. ASSUME Live', current_message' # NULL, ~ Opening(Stream)' PROVE Rest(u, m, Room)
  <2>1. plus_count' = plus_count /\ plus_count \in 0 .. DELIM_LENGTH
    BY <1>1, <1>2 DEF TypeOK
  <2>2. ASSUME Opening(s) PROVE Opening(Stream)'
    <3> DEFINE d == DELIM_LENGTH - plus_count
    <3>1. d \in Nat /\ d <= Len(s) /\ \A k \in 1 .. d : s[k] = "+"
      BY <2>1, <2>2, DelimAssumption DEF Opening
    <3>2. d <= Len(u) /\ \A k \in 1 .. Len(s) : u[k] = s[k]
      BY <1>5, <1>10, <3>1, DelimAssumption DEF Framed
    <3> HIDE DEF d
    <3>3. \A k \in 1 .. d : k \in 1 .. Len(s)
      BY <1>5, <3>1
    <3>4. \A k \in 1 .. d : u[k] = "+"
      BY <3>1, <3>2, <3>3
    <3> QED BY <2>1, <3>2, <3>4 DEF Opening, u, d
  <2>3. ~ Opening(Stream) /\ current_message # NULL
    BY <1>2, <1>15, <2>2 DEF s
  <2>4. Rest(s, m, Room)
    BY <1>1, <1>13, <1>15, <2>3 DEF RestFits, s
  <2>5. m \in Nat /\ m <= Room
    BY <1>1, <2>3 DEF Fits, TypeOK
  <2> QED BY <1>11, <2>4, <2>5
<1>16. ASSUME Live' PROVE RestFits'
  <2> SUFFICES ASSUME current_message' # NULL, ~ Opening(Stream)'
               PROVE  Rest(Stream, Len(current_message), Room)'
    BY DEF RestFits
  <2>1. Rest(u, m, Room) /\ Room' = Room /\ Len(current_message') = m
    BY <1>2, <1>6, <1>15, <1>16
  <2> QED BY <2>1 DEF Rest, HasMarker, Plain, u
<1> QED BY <1>12, <1>14, <1>16

LEMMA SetupKeepsFit ==
  ASSUME BlocksHaveRoom, FitInv, setup
  PROVE  Fits' /\ (Live' => Close(Stream, Room)' /\ RestFits')
<1> DEFINE s == Stream
           u == Stream'
           m == Len(current_message)
           room == Room
<1>1. TypeOK /\ Fits /\ (Live => Close(Stream, Room) /\ RestFits)
  BY DEF FitInv
<1>2. /\ wire' = wire \o Banner /\ boots' = boots + 1
      /\ UNCHANGED <<running, crashed, buffer, plus_count, current_message>>
  BY DEF setup, parser
<1>3. /\ s = buffer \o wire /\ s \in Seq(Byte) /\ buffer \in Seq(Byte) /\ wire \in Seq(Byte)
      /\ Banner \in Seq(Byte) /\ u = buffer \o (wire \o Banner)
  BY <1>1, <1>2, StreamType, ByteTypes DEF Stream, TypeOK
<1>4. room \in Nat /\ Len(Banner) \in Nat /\ Room' = room + Len(Banner)
  BY <1>1, <1>2, RoomIsEnough
<1> HIDE DEF s, u, room
<1>5. u = s \o Banner
  <2>1. (buffer \o wire) \o Banner = buffer \o (wire \o Banner)
    BY <1>3, ConcatAssociative
  <2> QED BY <1>3, <2>1
<1>6. u \in Seq(Byte)
  BY <1>3, <1>5, ConcatProperties
<1>7. /\ Close(s, room) => Close(u, room + Len(Banner))
      /\ \A k \in Nat : k <= room /\ Rest(s, k, room) => Rest(u, k, room + Len(Banner))
  BY <1>3, <1>4, <1>5, <1>6, BannerFits
<1>8. current_message # NULL => m \in Nat /\ m <= room
  BY <1>1 DEF Fits, TypeOK, room
<1>9. Fits'
  BY <1>2, <1>4, <1>8 DEF Fits
<1>10. Live' => Live
  BY <1>2 DEF Live
<1>11. ASSUME Live' PROVE Close(Stream, Room)'
  <2>1. Close(s, room)
    BY <1>1, <1>10, <1>11 DEF s, room
  <2>2. Close(u, Room')
    BY <1>4, <1>7, <2>1
  <2> QED BY <2>2 DEF Close, HasMarker, Plain, u
<1>12. ASSUME Live', current_message' # NULL, ~ Opening(Stream)'
       PROVE  Rest(u, m, room + Len(Banner))
  <2>1. plus_count' = plus_count /\ plus_count \in 0 .. DELIM_LENGTH
    BY <1>1, <1>2 DEF TypeOK
  <2>2. ASSUME Opening(s) PROVE Opening(Stream)'
    <3> DEFINE d == DELIM_LENGTH - plus_count
    <3>1. d \in Nat /\ d <= Len(s) /\ \A k \in 1 .. d : s[k] = "+"
      BY <2>1, <2>2, DelimAssumption DEF Opening
    <3>2. Len(s) \in Nat /\ Len(s) <= Len(u) /\ \A k \in 1 .. Len(s) : u[k] = s[k]
      BY <1>3, <1>5, ConcatProperties
    <3> HIDE DEF d
    <3>3. d <= Len(u) /\ \A k \in 1 .. d : u[k] = "+"
      BY <3>1, <3>2, <1>6
    <3> QED BY <2>1, <3>3 DEF Opening, u, d
  <2>3. ~ Opening(Stream) /\ current_message # NULL
    BY <1>2, <1>12, <2>2 DEF s
  <2>4. Rest(s, m, room)
    BY <1>1, <1>10, <1>12, <2>3 DEF RestFits, s, room
  <2> QED BY <1>7, <1>8, <2>3, <2>4
<1>13. ASSUME Live' PROVE RestFits'
  <2> SUFFICES ASSUME current_message' # NULL, ~ Opening(Stream)'
               PROVE  Rest(Stream, Len(current_message), Room)'
    BY DEF RestFits
  <2>1. Rest(u, m, Room') /\ Len(current_message') = m
    BY <1>2, <1>4, <1>12, <1>13
  <2> QED BY <2>1 DEF Rest, HasMarker, Plain, u
<1> QED BY <1>9, <1>11, <1>13

\* read() moves bytes from the line to the buffer: the stream stays what it is.
LEMMA ReadKeepsFit ==
  ASSUME BlocksHaveRoom, FitInv, read_serial
  PROVE  Fits' /\ (Live' => Close(Stream, Room)' /\ RestFits')
<1>1. TypeOK /\ Fits /\ (Live => Close(Stream, Room) /\ RestFits)
  BY DEF FitInv
<1>2. /\ UNCHANGED <<boots, running, crashed, plus_count, current_message>> /\ Live
      /\ Room' = Room
  BY <1>1, RoomIsEnough DEF read_serial, parser
<1>3. Stream' = Stream
  <2>1. buffer' \o wire' = wire /\ buffer = <<>> /\ wire \in Seq(Byte)
    BY <1>1, ReadSplits DEF TypeOK
  <2>2. <<>> \o wire = wire
    BY <2>1, ConcatEmptySeq
  <2> QED BY <2>1, <2>2 DEF Stream
<1>4. Fits'
  BY <1>1, <1>2 DEF Fits
<1>5. Close(Stream, Room)'
  BY <1>1, <1>2, <1>3 DEF Close, HasMarker, Plain
<1>6. RestFits'
  <2>1. Opening(Stream)' <=> Opening(Stream)
    BY <1>2, <1>3 DEF Opening
  <2>2. ASSUME current_message # NULL, ~ Opening(Stream)
        PROVE  Rest(Stream, Len(current_message), Room)'
    <3>1. Rest(Stream, Len(current_message), Room)
      BY <1>1, <1>2, <2>2 DEF RestFits
    <3> QED BY <1>2, <1>3, <3>1 DEF Rest, HasMarker, Plain
  <2> QED BY <1>2, <2>1, <2>2 DEF RestFits
<1> QED BY <1>4, <1>5, <1>6

\* What one byte leaves of the stream.
LEMMA StreamTail ==
  ASSUME TypeOK, NEW b, NextByte(b), UNCHANGED controller
  PROVE  /\ Stream \in Seq(Byte) /\ Stream # <<>> /\ Stream[1] = b /\ Stream' = Tail(Stream)
         /\ Live
<1>1. /\ Live /\ wire' = wire
      /\ buffer # <<>> /\ b = Head(buffer) /\ buffer' = Tail(buffer)
  BY DEF NextByte, controller
<1>2. /\ buffer \in Seq(Byte) /\ wire \in Seq(Byte) /\ Stream \in Seq(Byte)
      /\ Stream = buffer \o wire
  BY <1>1, StreamType DEF Stream, TypeOK
<1>3. /\ Len(buffer) \in Nat \ {0} /\ buffer[1] = b
      /\ Len(Stream) = Len(buffer) + Len(wire) /\ Stream[1] = buffer[1]
  BY <1>1, <1>2, HeadTailProperties, ConcatProperties, EmptySeq
<1>4. Stream # <<>>
  BY <1>2, <1>3
<1>5. Tail(buffer) \o wire = Tail(buffer \o wire)
  BY <1>1, <1>2, TailOfConcat
<1>6. Stream' = Tail(Stream)
  BY <1>1, <1>2, <1>5 DEF Stream
<1> QED BY <1>1, <1>2, <1>3, <1>4, <1>6

LEMMA ByteFits ==
  ASSUME BlocksHaveRoom, FitInv, NEW b, NextByte(b), UNCHANGED controller
  PROVE  /\ Stream \in Seq(Byte) /\ Stream # <<>> /\ Stream[1] = b /\ Stream' = Tail(Stream)
         /\ Len(Stream') = Len(Stream) - 1 /\ Len(Stream) \in Nat \ {0}
         /\ Live /\ Room \in Nat /\ Room' = Room
         /\ Close(Stream', Room) /\ Close(Stream, Room)'
<1>1. TypeOK /\ Live /\ Close(Stream, Room) /\ boots' = boots
  BY DEF FitInv, NextByte, controller
<1>2. Stream \in Seq(Byte) /\ Stream # <<>> /\ Stream[1] = b /\ Stream' = Tail(Stream)
  BY <1>1, StreamTail
<1>3. Len(Stream) \in Nat \ {0}
  BY <1>2, EmptySeq
<1>4. Len(Stream') = Len(Stream) - 1
  BY <1>2, <1>3, HeadTailProperties
<1>5. Room \in Nat /\ Room' = Room
  BY <1>1, RoomIsEnough
<1>6. Close(Stream', Room)
  <2> DEFINE s == Stream
             room == Room
  <2>1. s \in Seq(Byte) /\ s # <<>> /\ room \in Int /\ Close(s, room)
    BY <1>1, <1>2, <1>3, <1>5
  <2> HIDE DEF s, room
  <2>2. Close(Tail(s), room)
    BY <2>1, TailIsClose
  <2> QED BY <1>2, <2>2 DEF s, room
<1>7. Close(Stream, Room)'
  BY <1>5, <1>6 DEF Close, HasMarker, Plain
<1> QED BY <1>1, <1>2, <1>3, <1>4, <1>5, <1>6, <1>7

LEMMA ParserKeepsFit ==
  ASSUME BlocksHaveRoom, FitInv, parse_buffer
  PROVE  Fits' /\ (Live' => Close(Stream, Room)' /\ RestFits')
<1> USE DelimAssumption
<1> DEFINE m == Len(current_message)
           s == Stream
           t == Stream'
<1>1. /\ plus_count \in 0 .. DELIM_LENGTH /\ DELIM_LENGTH \in Nat \ {0}
      /\ (Live => plus_count < DELIM_LENGTH)
      /\ current_message # NULL => m \in Nat /\ m <= Room
      /\ current_message # NULL => current_message \in Seq(Byte)
  BY DEF FitInv, Fits, TypeOK, Live
<1>2. ASSUME Live, current_message # NULL, ~ Opening(Stream) PROVE Rest(Stream, m, Room)
  BY <1>2 DEF FitInv, RestFits
\* An open message that goes on behind a byte which does not complete a marker.
<1>3. ASSUME NEW b, NextByte(b), UNCHANGED controller, current_message # NULL, ~ Opening(Stream)
      PROVE  /\ Rest(t, m, Room)
             /\ b \notin {"+", "-"} => m + 1 <= Room /\ Rest(t, m + 1, Room)
  <2>1. /\ s \in Seq(Byte) /\ s # <<>> /\ s[1] = b /\ t = Tail(s) /\ Live
        /\ Room \in Nat /\ Len(s) \in Nat
    BY <1>3, ByteFits
  <2>2. Rest(s, m, Room) /\ m \in Nat
    BY <1>1, <1>2, <1>3, <2>1
  <2>3. ~ StartsMarker(s)
    <3> SUFFICES ASSUME StartsMarker(s) PROVE Opening(s)
      BY <1>3
    <3>1. DELIM_LENGTH <= Len(s) /\ \A k \in 1 .. DELIM_LENGTH : s[k] = "+"
      BY DEF StartsMarker
    <3>2. DELIM_LENGTH - plus_count <= DELIM_LENGTH /\ DELIM_LENGTH - plus_count \in Nat
      BY <1>1
    <3> HIDE DEF s
    <3>3. \A k \in 1 .. DELIM_LENGTH - plus_count : k \in 1 .. DELIM_LENGTH
      BY <1>1
    <3> QED BY <2>1, <3>1, <3>2, <3>3 DEF Opening
  <2> DEFINE room == Room
  <2>4. room \in Int
    BY <2>1
  <2> HIDE DEF s, t, room
  <2>5. Rest(s, m, room)
    BY <2>2 DEF room
  <2>6. /\ Rest(Tail(s), m, room)
        /\ s[1] \notin {"+", "-"} => m + 1 <= room /\ Rest(Tail(s), m + 1, room)
    BY <2>1, <2>2, <2>3, <2>4, <2>5, RestIsTaken
  <2> QED BY <2>1, <2>6 DEF room
<1>4. ASSUME NEW n, Rest(t, n, Room), Room' = Room, current_message' # NULL,
             Len(current_message') = n
      PROVE  RestFits'
  <2>1. Rest(Stream, Len(current_message), Room)'
    BY <1>4 DEF Rest, HasMarker, Plain
  <2> QED BY <2>1 DEF RestFits
<1>5. CASE CountPlus
  <2>1. /\ NextByte("+") /\ UNCHANGED controller /\ plus_count' = plus_count + 1
        /\ plus_count + 1 < DELIM_LENGTH /\ current_message' = current_message
    BY <1>5 DEF CountPlus
  <2>2. /\ s \in Seq(Byte) /\ s # <<>> /\ s[1] = "+" /\ t = Tail(s) /\ Room' = Room
        /\ Len(t) = Len(s) - 1 /\ Len(s) \in Nat \ {0} /\ Close(Stream, Room)'
    BY <2>1, ByteFits
  <2>3. Fits'
    BY <1>1, <2>1, <2>2 DEF Fits
  <2>4. ASSUME Opening(s) PROVE Opening(Stream)'
    <3> DEFINE d == DELIM_LENGTH - plus_count
    <3>1. d \in Nat /\ d <= Len(s) /\ \A k \in 1 .. d : s[k] = "+"
      BY <1>1, <2>4 DEF Opening
    <3>2. DELIM_LENGTH - plus_count' = d - 1
      BY <1>1, <2>1
    <3>3. \A k \in 1 .. Len(s) - 1 : t[k] = s[k + 1]
      BY <2>2, HeadTailProperties
    <3> HIDE DEF d
    <3>4. \A k \in 1 .. d - 1 : k \in 1 .. Len(s) - 1 /\ k + 1 \in 1 .. d
      BY <2>2, <3>1
    <3>5. d - 1 <= Len(t) /\ \A k \in 1 .. d - 1 : t[k] = "+"
      BY <2>2, <3>1, <3>3, <3>4
    <3> QED BY <3>2, <3>5 DEF Opening
  <2>5. ASSUME current_message' # NULL, ~ Opening(Stream)' PROVE RestFits'
    <3>1. Rest(t, m, Room)
      BY <1>3, <2>1, <2>4, <2>5
    <3> QED BY <1>4, <2>1, <2>2, <2>5, <3>1
  <2> QED BY <2>2, <2>3, <2>5 DEF RestFits
<1>6. CASE new_message
  <2>1. NextByte("+") /\ UNCHANGED controller /\ current_message' = <<>>
    BY <1>6 DEF new_message
  <2>2. /\ t \in Seq(Byte) /\ Room' = Room /\ Room \in Nat /\ Close(t, Room)
        /\ Close(Stream, Room)'
    <3>1. Stream \in Seq(Byte) /\ Stream # <<>> /\ t = Tail(Stream)
      BY <2>1, ByteFits
    <3>2. Tail(Stream) \in Seq(Byte)
      BY <3>1, HeadTailProperties
    <3> QED BY <2>1, <3>1, <3>2, ByteFits
  <2>3. Fits'
    BY <2>1, <2>2 DEF Fits
  <2>4. Rest(t, 0, Room)
    <3> HIDE DEF t
    <3>1. ASSUME NEW b \in 1 .. Len(t), ~ HasMarker(t, 1, b)
          PROVE  0 + Cardinality(Plain(t, 1, b)) <= Room
      <4>1. 1 \in 1 .. Len(t) /\ 1 <= b /\ 1 \in Int /\ b \in Int
        BY <2>2
      <4>2. Cardinality(Plain(t, 1, b)) <= Room
        BY <2>2, <3>1, <4>1 DEF Close
      <4>3. Cardinality(Plain(t, 1, b)) \in Nat
        BY <4>1, PlainCount
      <4> QED BY <4>2, <4>3
    <3> QED BY <3>1 DEF Rest
  <2>5. ASSUME current_message' # NULL PROVE RestFits'
    BY <1>4, <2>1, <2>2, <2>4, <2>5
  <2> QED BY <2>2, <2>3, <2>5 DEF RestFits
<1>7. CASE CountMinus
  <2>1. /\ NextByte("-") /\ UNCHANGED controller /\ current_message' = current_message
    BY <1>7 DEF CountMinus
  <2>2. s[1] = "-" /\ Room' = Room /\ Close(Stream, Room)'
    BY <2>1, ByteFits
  <2>3. Fits'
    BY <1>1, <2>1, <2>2 DEF Fits
  <2>4. ~ Opening(Stream)
    <3>1. 1 \in 1 .. DELIM_LENGTH - plus_count
      BY <1>1, <2>1 DEF NextByte
    <3> QED BY <2>2, <3>1 DEF Opening
  <2>5. ASSUME current_message' # NULL PROVE RestFits'
    <3>1. Rest(t, m, Room)
      BY <1>3, <2>1, <2>4, <2>5
    <3> QED BY <1>4, <2>1, <2>2, <2>5, <3>1
  <2> QED BY <2>2, <2>3, <2>5 DEF RestFits
<1>8. CASE close_message
  <2>1. NextByte("-") /\ UNCHANGED controller /\ current_message' = NULL
    BY <1>8 DEF close_message
  <2>2. Close(Stream, Room)'
    BY <2>1, ByteFits
  <2> QED BY <2>1, <2>2 DEF Fits, RestFits
<1>9. CASE StoreByte
  <2>1. PICK b \in Byte \ {"+", "-"} :
          /\ NextByte(b) /\ UNCHANGED controller
          /\ \/ /\ current_message # NULL
                /\ current_message' = Append(current_message, b)
                /\ UNCHANGED crashed
             \/ current_message = NULL /\ crashed' = TRUE /\ current_message' = current_message
    BY <1>9 DEF StoreByte
  <2>2. s[1] = b /\ Room' = Room /\ Room \in Nat /\ Close(Stream, Room)'
    BY <2>1, ByteFits
  <2>3. ~ Opening(Stream)
    <3>1. 1 \in 1 .. DELIM_LENGTH - plus_count
      BY <1>1, <2>1 DEF NextByte
    <3> QED BY <2>1, <2>2, <3>1 DEF Opening
  <2>4. CASE current_message # NULL
    <3>1. current_message' = Append(current_message, b) /\ current_message \in Seq(Byte)
      BY <1>1, <2>1, <2>4
    <3>2. Len(current_message') = m + 1
      BY <2>1, <3>1, AppendProperties
    <3>3. m + 1 <= Room /\ Rest(t, m + 1, Room)
      BY <1>3, <2>1, <2>3, <2>4
    <3>4. Fits'
      BY <2>2, <3>2, <3>3 DEF Fits
    <3>5. ASSUME current_message' # NULL PROVE RestFits'
      BY <1>4, <2>2, <3>2, <3>3, <3>5
    <3> QED BY <2>2, <3>4, <3>5 DEF RestFits
  <2>5. CASE current_message = NULL
    BY <2>1, <2>5 DEF Fits, Live
  <2> QED BY <2>4, <2>5
<1> QED BY <1>5, <1>6, <1>7, <1>8, <1>9 DEF parse_buffer

LEMMA NextFit ==
  "open" \notin Lossy /\ BlocksHaveRoom
    /\ FitInv /\ [Next]_vars => FitInv'
<1> SUFFICES ASSUME "open" \notin Lossy, BlocksHaveRoom,
                    FitInv, [Next]_vars
             PROVE  FitInv'
  OBVIOUS
<1>1. TypeOK'
  BY NextType DEF FitInv
<1>2. Fits' /\ (Live' => Close(Stream, Room)' /\ RestFits')
  <2>1. CASE \E p \in Text, lost \in SUBSET Lossy :
               \E i \in IF "text" \in lost THEN DOMAIN p ELSE {1} : writeSerial(p, lost, i)
    BY <2>1, FrameKeepsFit
  <2>2. CASE setup
    BY <2>2, SetupKeepsFit
  <2>3. CASE read_serial
    BY <2>3, ReadKeepsFit
  <2>4. CASE parse_buffer
    BY <2>4, ParserKeepsFit
  <2>5. CASE cleanup
    <3>1. current_message' = NULL /\ ~ Live'
      BY <2>5 DEF cleanup, Live
    <3> QED BY <3>1 DEF Fits
  <2>6. CASE UNCHANGED vars
    <3>1. /\ UNCHANGED <<current_message, boots, running, crashed, plus_count, buffer, wire>>
          /\ Stream' = Stream /\ Room' = Room
      BY <2>6 DEF vars, controller, parser, Stream, Room
    <3>2. Fits'
      BY <3>1 DEF FitInv, Fits
    <3>3. (Live => Close(Stream, Room))'
      BY <3>1 DEF FitInv, Live, Close, HasMarker, Plain
    <3>4. (Live => RestFits)'
      BY <3>1 DEF FitInv, Live, RestFits, Rest, Opening, HasMarker, Plain
    <3> QED BY <3>2, <3>3, <3>4
  <2> QED BY <2>1, <2>2, <2>3, <2>4, <2>5, <2>6 DEF Next, Controller, SerialThread
<1> QED BY <1>1, <1>2 DEF FitInv

\* As long as no byte of an opening marker is lost and a block has room for a text and
\* for the lines that setup prints, the bytes that parse_buffer stores without a look
\* at current_message_index stay inside the block: between two opening markers never
\* lies more than a block holds, however read() cuts the stream.
THEOREM MessagesFit ==
  ASSUME "open" \notin Lossy, BlocksHaveRoom
  PROVE  Spec => []MessageFitsBlock
<1>1. Init => FitInv
  BY InitFit
<1>2. FitInv /\ [Next]_vars => FitInv'
  BY NextFit
<1>3. FitInv => MessageFitsBlock
  <2> SUFFICES ASSUME FitInv, current_message # NULL PROVE Len(current_message) <= BUFFER_SIZE
    BY DEF MessageFitsBlock
  <2>1. Len(current_message) <= Room /\ Len(current_message) \in Nat
    BY DEF FitInv, Fits, TypeOK
  <2>2. Room \in Nat /\ Room <= BUFFER_SIZE
    BY RoomIsEnough DEF FitInv
  <2> QED BY <2>1, <2>2, BoundAssumption
<1> QED BY <1>1, <1>2, <1>3, PTL DEF Spec

-----------------------------------------------------------------------------
(* What has been sent and closed *)

Texts == Seq(Seq(Byte))

\* h[n] is the texts of the first n frames of s that are closed.
Closing(h, s) ==
  /\ h[0] = <<>> /\ \A n \in 0 .. Len(s) : h[n] \in Texts
  /\ \A n \in 1 .. Len(s) : s[n].closed => h[n] = Append(h[n - 1], s[n].text)
  /\ \A n \in 1 .. Len(s) : ~ s[n].closed => h[n] = h[n - 1]

LEMMA ClosedSteps ==
  ASSUME NEW s \in Seq(SentRecord)
  PROVE  \E h : Closing(h, s) /\ Closed(s) = h[Len(s)]
<1> DEFINE L == Len(s)
           V == Texts
           Next1(n, v) == IF s[n].closed THEN Append(v, s[n].text) ELSE v
           step == [x \in Nat \X V |-> IF x[1] + 1 \in 1 .. L THEN Next1(x[1] + 1, x[2]) ELSE x[2]]
           Is(f) == f = [n \in 0 .. L |-> IF n = 0 THEN <<>> ELSE Next1(n, f[n - 1])]
           h == CHOOSE f : Is(f)
<1>1. L \in Nat /\ \A n \in 1 .. L : s[n] \in SentRecord
  OBVIOUS
<1>2. \A n \in 1 .. L : s[n].text \in Seq(Byte)
  BY <1>1 DEF SentRecord
<1>3. \A n \in 1 .. L, v \in V : Next1(n, v) \in V
  BY <1>2 DEF Texts
<1>4. <<>> \in V
  BY DEF Texts
<1>5. Closed(s) = h[L]
  BY DEF Closed
<1> HIDE DEF L, V, Next1
<1>6. \A x \in Nat \X V : x[1] \in Nat /\ x[2] \in V
  OBVIOUS
<1>7. step \in [Nat \X V -> V]
  BY <1>3, <1>6
<1>8. \A n \in 0 .. L - 1, v \in V : step[<<n, v>>] = Next1(n + 1, v)
  <2> SUFFICES ASSUME NEW n \in 0 .. L - 1, NEW v \in V PROVE step[<<n, v>>] = Next1(n + 1, v)
    OBVIOUS
  <2>1. <<n, v>> \in Nat \X V /\ <<n, v>>[1] = n /\ <<n, v>>[2] = v /\ n + 1 \in 1 .. L
    BY <1>1
  <2> QED BY <2>1
<1> HIDE DEF step
<1>9. PICK f \in [0 .. L -> V] : Run(f, <<>>, step, L)
  BY <1>1, <1>4, <1>7, RunsExist
<1>10. ASSUME NEW n \in 0 .. L PROVE f[n] = IF n = 0 THEN <<>> ELSE Next1(n, f[n - 1])
  <2>1. CASE n = 0
    BY <1>9, <2>1 DEF Run
  <2>2. CASE n # 0
    <3>1. n - 1 \in 0 .. L - 1 /\ n - 1 \in 0 .. L /\ (n - 1) + 1 = n
      BY <1>1, <2>2
    <3>2. f[n] = step[<<n - 1, f[n - 1]>>]
      BY <1>9, <3>1 DEF Run
    <3>3. f[n - 1] \in V
      BY <1>9, <3>1
    <3> QED BY <1>8, <2>2, <3>1, <3>2, <3>3
  <2> QED BY <2>1, <2>2
<1>11. Is(f)
  BY <1>9, <1>10
<1>12. Is(h)
  BY <1>11
<1>13. \A n \in 0 .. L : h[n] = IF n = 0 THEN <<>> ELSE Next1(n, h[n - 1])
  BY <1>12
<1> HIDE DEF h
<1> DEFINE T == {n \in Nat : h[n] \in V}
<1>14. 0 \in T
  BY <1>1, <1>4, <1>13
<1>15. ASSUME NEW n \in 0 .. L - 1, n \in T PROVE n + 1 \in T
  <2>1. n + 1 \in 0 .. L /\ n + 1 # 0 /\ (n + 1) - 1 = n /\ n + 1 \in 1 .. L
    BY <1>1
  <2>2. h[n + 1] = Next1(n + 1, h[n])
    BY <1>13, <2>1
  <2>3. h[n + 1] \in V
    BY <1>3, <1>15, <2>1, <2>2
  <2> QED BY <2>1, <2>3
<1> HIDE DEF T
<1>16. 0 .. L \subseteq T
  BY <1>1, <1>14, <1>15, IntervalInduction
<1>17. \A n \in 0 .. L : h[n] \in V
  BY <1>16 DEF T
<1>18. \A n \in 1 .. L : h[n] = Next1(n, h[n - 1])
  <2>1. \A n \in 1 .. L : n \in 0 .. L /\ n # 0
    BY <1>1
  <2> QED BY <1>13, <2>1
<1>19. h[0] = <<>>
  BY <1>1, <1>13
<1>20. /\ \A n \in 1 .. L : s[n].closed => h[n] = Append(h[n - 1], s[n].text)
       /\ \A n \in 1 .. L : ~ s[n].closed => h[n] = h[n - 1]
  BY <1>18, Zenon DEF Next1
<1>21. Closing(h, s)
  BY <1>17, <1>19, <1>20 DEF Closing, L, V
<1> QED BY <1>5, <1>21 DEF L

LEMMA ClosedAppend ==
  ASSUME NEW s \in Seq(SentRecord), NEW r \in SentRecord
  PROVE  /\ Closed(s) \in Texts
         /\ r.closed => Closed(Append(s, r)) = Append(Closed(s), r.text)
         /\ ~ r.closed => Closed(Append(s, r)) = Closed(s)
<1> DEFINE t == Append(s, r)
           L == Len(s)
<1>1. PICK h : Closing(h, s) /\ Closed(s) = h[L]
  BY ClosedSteps
<1>2. t \in Seq(SentRecord)
  OBVIOUS
<1>3. PICK g : Closing(g, t) /\ Closed(t) = g[Len(t)]
  BY <1>2, ClosedSteps
<1>4. L \in Nat /\ Len(t) = L + 1 /\ t[L + 1] = r /\ \A n \in 1 .. L : t[n] = s[n]
  OBVIOUS
<1> HIDE DEF t, L
<1>5. /\ h[0] = <<>> /\ \A n \in 0 .. L : h[n] \in Texts
      /\ \A n \in 1 .. L : s[n].closed => h[n] = Append(h[n - 1], s[n].text)
      /\ \A n \in 1 .. L : ~ s[n].closed => h[n] = h[n - 1]
  BY <1>1 DEF Closing, L
<1>6. /\ g[0] = <<>>
      /\ \A n \in 1 .. L + 1 : t[n].closed => g[n] = Append(g[n - 1], t[n].text)
      /\ \A n \in 1 .. L + 1 : ~ t[n].closed => g[n] = g[n - 1]
  BY <1>3, <1>4 DEF Closing
<1> DEFINE T == {n \in Nat : g[n] = h[n]}
<1>7. 0 \in T
  BY <1>5, <1>6
<1>8. ASSUME NEW n \in 0 .. L - 1, n \in T PROVE n + 1 \in T
  <2>1. n + 1 \in 1 .. L /\ n + 1 \in 1 .. L + 1 /\ (n + 1) - 1 = n /\ n + 1 \in Nat
    BY <1>4
  <2>2. t[n + 1] = s[n + 1] /\ g[n] = h[n]
    BY <1>4, <1>8, <2>1
  <2>3. CASE s[n + 1].closed
    <3>1. h[n + 1] = Append(h[n], s[n + 1].text)
      BY <1>5, <2>1, <2>3
    <3>2. g[n + 1] = Append(g[n], s[n + 1].text)
      BY <1>6, <2>1, <2>2, <2>3
    <3> QED BY <2>1, <2>2, <3>1, <3>2
  <2>4. CASE ~ s[n + 1].closed
    <3>1. h[n + 1] = h[n]
      BY <1>5, <2>1, <2>4
    <3>2. g[n + 1] = g[n]
      BY <1>6, <2>1, <2>2, <2>4
    <3> QED BY <2>1, <2>2, <3>1, <3>2
  <2> QED BY <2>3, <2>4
<1> HIDE DEF T
<1>9. 0 .. L \subseteq T
  BY <1>4, <1>7, <1>8, IntervalInduction
<1>10. g[L] = h[L] /\ h[L] \in Texts
  <2>1. L \in 0 .. L
    BY <1>4
  <2> QED BY <1>5, <1>9, <2>1 DEF T
<1>11. L + 1 \in 1 .. L + 1 /\ (L + 1) - 1 = L
  BY <1>4
<1>12. r.closed => g[L + 1] = Append(g[L], r.text)
  BY <1>4, <1>6, <1>11
<1>13. ~ r.closed => g[L + 1] = g[L]
  BY <1>4, <1>6, <1>11
<1> QED BY <1>1, <1>3, <1>4, <1>10, <1>12, <1>13 DEF t

-----------------------------------------------------------------------------
(* Every closed frame is delivered *)

\* a is how c begins.
Starts(a, c) == Len(a) <= Len(c) /\ \A i \in 1 .. Len(a) : a[i] = c[i]

\* The state of the parser; bad is 1 after a write through the null pointer.
St(plus, minus, cur, del, bad) ==
  [plus |-> plus, minus |-> minus, cur |-> cur, del |-> del, bad |-> bad]

Counts == 0 .. DELIM_LENGTH - 1
Messages == Seq(Byte) \cup {NULL}

State == [plus : Counts, minus : Counts, cur : Messages, del : Texts, bad : {0, 1}]

Parser == St(plus_count, minus_count, current_message, delivered, 0)

\* The parser goes from p to q with the byte b.
Parses(p, b, q) ==
  /\ p.bad = 1 => q = p
  /\ p.bad = 0 /\ b = "+" =>
       q = IF p.plus + 1 < DELIM_LENGTH THEN St(p.plus + 1, p.minus, p.cur, p.del, 0)
           ELSE St(0, p.minus, <<>>, p.del, 0)
  /\ p.bad = 0 /\ b = "-" =>
       q = IF p.minus + 1 < DELIM_LENGTH THEN St(p.plus, p.minus + 1, p.cur, p.del, 0)
           ELSE St(p.plus, 0, NULL, IF p.cur = NULL THEN p.del ELSE Append(p.del, p.cur), 0)
  /\ p.bad = 0 /\ b \notin {"+", "-"} =>
       q = IF p.cur = NULL THEN St(0, 0, NULL, p.del, 1)
           ELSE St(0, 0, Append(p.cur, b), p.del, 0)

\* f is what the parser goes through with the bytes s, and never delivers more than c.
Trace(f, s, p, q, c) ==
  /\ f \in [0 .. Len(s) -> State] /\ f[0] = p /\ f[Len(s)] = q
  /\ \A i \in 1 .. Len(s) : Parses(f[i - 1], s[i], f[i])
  /\ \A i \in 0 .. Len(s) : Starts(f[i].del, c)

Leads(s, p, q, c) == \E f : Trace(f, s, p, q, c)

LEMMA StartsGrow ==
  ASSUME NEW c \in Texts, NEW t \in Seq(Byte), NEW a \in Texts
  PROVE  /\ Starts(c, c) /\ Starts(c, Append(c, t)) /\ (Starts(a, c) => Starts(a, Append(c, t)))
<1> DEFINE S == Seq(Byte)
<1>1. c \in Seq(S) /\ a \in Seq(S) /\ t \in S
  BY DEF Texts
<1> HIDE DEF S
<1>2. /\ Len(c) \in Nat /\ Len(a) \in Nat /\ Len(Append(c, t)) = Len(c) + 1
      /\ \A i \in 1 .. Len(c) : Append(c, t)[i] = c[i]
  BY <1>1, AppendProperties
<1>3. \A i \in 1 .. Len(a) : Len(a) <= Len(c) => i \in 1 .. Len(c)
  BY <1>2
<1> QED BY <1>2, <1>3 DEF Starts

LEMMA NothingParsed ==
  ASSUME NEW p \in State, NEW c, Starts(p.del, c)
  PROVE  Leads(<<>>, p, p, c)
<1> DEFINE f == [i \in 0 .. 0 |-> p]
<1>1. Len(<<>>) = 0 /\ f \in [0 .. 0 -> State] /\ f[0] = p /\ (\A i \in 0 .. 0 : Starts(f[i].del, c))
  OBVIOUS
<1>2. Trace(f, <<>>, p, p, c)
  BY <1>1 DEF Trace
<1> QED BY <1>2 DEF Leads

\* One byte after the other.
LEMMA TraceOn ==
  ASSUME NEW s \in Seq(Byte), NEW b \in Byte, NEW p, NEW q \in State, NEW r \in State, NEW c,
         Leads(s, p, q, c), Parses(q, b, r), Starts(r.del, c)
  PROVE  Leads(Append(s, b), p, r, c)
<1> DEFINE n == Len(s)
           t == Append(s, b)
<1>1. PICK f : Trace(f, s, p, q, c)
  BY DEF Leads
<1>2. /\ n \in Nat /\ Len(t) = n + 1 /\ t[n + 1] = b /\ \A i \in 1 .. n : t[i] = s[i]
  BY AppendProperties
<1>3. /\ f \in [0 .. n -> State] /\ f[0] = p /\ f[n] = q
      /\ \A i \in 1 .. n : Parses(f[i - 1], s[i], f[i])
      /\ \A i \in 0 .. n : Starts(f[i].del, c)
  BY <1>1 DEF Trace
<1> HIDE DEF n, t
<1> DEFINE g == [i \in 0 .. n + 1 |-> IF i = n + 1 THEN r ELSE f[i]]
<1>4. /\ g \in [0 .. n + 1 -> State] /\ g[n + 1] = r /\ g[0] = p /\ g[n] = q
      /\ \A i \in 0 .. n : g[i] = f[i]
  <2>1. 0 \in 0 .. n + 1 /\ n \in 0 .. n + 1 /\ n + 1 \in 0 .. n + 1 /\ 0 # n + 1 /\ n # n + 1
    BY <1>2
  <2>2. \A i \in 0 .. n : i \in 0 .. n + 1 /\ i # n + 1
    BY <1>2
  <2>3. \A i \in 0 .. n + 1 : i # n + 1 => i \in 0 .. n
    BY <1>2
  <2>4. \A i \in 0 .. n : g[i] = f[i]
    BY <2>2
  <2>5. g \in [0 .. n + 1 -> State]
    BY <1>3, <2>3
  <2> QED BY <1>3, <2>1, <2>4, <2>5
<1> HIDE DEF g
<1>5. ASSUME NEW i \in 1 .. n + 1 PROVE Parses(g[i - 1], t[i], g[i])
  <2>1. CASE i = n + 1
    <3>1. i - 1 = n
      BY <1>2, <2>1
    <3> QED BY <1>2, <1>4, <2>1, <3>1
  <2>2. CASE i # n + 1
    <3>1. i \in 1 .. n /\ i \in 0 .. n /\ i - 1 \in 0 .. n
      BY <1>2, <2>2
    <3>2. g[i] = f[i] /\ g[i - 1] = f[i - 1] /\ t[i] = s[i]
      BY <1>2, <1>4, <3>1
    <3> QED BY <1>3, <3>1, <3>2
  <2> QED BY <2>1, <2>2
<1>6. ASSUME NEW i \in 0 .. n + 1 PROVE Starts(g[i].del, c)
  <2>1. i = n + 1 \/ i \in 0 .. n
    BY <1>2
  <2> QED BY <1>3, <1>4, <2>1
<1>7. Trace(g, t, p, r, c)
  BY <1>2, <1>4, <1>5, <1>6 DEF Trace
<1> QED BY <1>7 DEF Leads, t

\* One piece after the other.
LEMMA TraceConcat ==
  ASSUME NEW s \in Seq(Byte), NEW t \in Seq(Byte), NEW p, NEW q, NEW r, NEW c,
         Leads(s, p, q, c), Leads(t, q, r, c)
  PROVE  Leads(s \o t, p, r, c)
<1> DEFINE n == Len(s)
           m == Len(t)
           u == s \o t
<1>1. PICK f : Trace(f, s, p, q, c)
  BY DEF Leads
<1>2. PICK g : Trace(g, t, q, r, c)
  BY DEF Leads
<1>3. /\ n \in Nat /\ m \in Nat /\ Len(u) = n + m
      /\ \A i \in 1 .. n + m : u[i] = IF i <= n THEN s[i] ELSE t[i - n]
  BY ConcatProperties
<1>4. /\ f \in [0 .. n -> State] /\ f[0] = p /\ f[n] = q
      /\ \A i \in 1 .. n : Parses(f[i - 1], s[i], f[i])
      /\ \A i \in 0 .. n : Starts(f[i].del, c)
  BY <1>1 DEF Trace
<1>5. /\ g \in [0 .. m -> State] /\ g[0] = q /\ g[m] = r
      /\ \A i \in 1 .. m : Parses(g[i - 1], t[i], g[i])
      /\ \A i \in 0 .. m : Starts(g[i].del, c)
  BY <1>2 DEF Trace
<1> HIDE DEF n, m, u
<1> DEFINE h == [i \in 0 .. n + m |-> IF i <= n THEN f[i] ELSE g[i - n]]
<1>6. \A i \in 0 .. n : h[i] = f[i]
  <2>1. \A i \in 0 .. n : i \in 0 .. n + m /\ i <= n
    BY <1>3
  <2> QED BY <2>1
<1>7. \A i \in n .. n + m : h[i] = g[i - n]
  <2> SUFFICES ASSUME NEW i \in n .. n + m PROVE h[i] = g[i - n]
    OBVIOUS
  <2>1. i \in 0 .. n + m
    BY <1>3
  <2>2. CASE i = n
    <3>1. i - n = 0 /\ i <= n
      BY <1>3, <2>2
    <3> QED BY <1>4, <1>5, <2>1, <2>2, <3>1
  <2>3. CASE i # n
    <3>1. ~ (i <= n)
      BY <1>3, <2>3
    <3> QED BY <2>1, <3>1
  <2> QED BY <2>2, <2>3
<1>8. h \in [0 .. n + m -> State]
  <2>1. \A i \in 0 .. n + m : (i <= n => i \in 0 .. n) /\ (~ (i <= n) => i - n \in 0 .. m)
    BY <1>3
  <2> QED BY <1>4, <1>5, <2>1
<1> HIDE DEF h
<1>9. h[0] = p /\ h[n + m] = r
  <2>1. 0 \in 0 .. n /\ n + m \in n .. n + m /\ (n + m) - n = m
    BY <1>3
  <2> QED BY <1>4, <1>5, <1>6, <1>7, <2>1
<1>10. ASSUME NEW i \in 1 .. n + m PROVE Parses(h[i - 1], u[i], h[i])
  <2>1. CASE i <= n
    <3>1. i \in 1 .. n /\ i \in 0 .. n /\ i - 1 \in 0 .. n
      BY <1>3, <2>1
    <3>2. h[i] = f[i] /\ h[i - 1] = f[i - 1] /\ u[i] = s[i]
      BY <1>3, <1>6, <2>1, <3>1
    <3> QED BY <1>4, <3>1, <3>2
  <2>2. CASE ~ (i <= n)
    <3>1. i \in n .. n + m /\ i - 1 \in n .. n + m /\ i - n \in 1 .. m /\ (i - 1) - n = (i - n) - 1
      BY <1>3, <2>2
    <3>2. h[i] = g[i - n] /\ h[i - 1] = g[(i - n) - 1] /\ u[i] = t[i - n]
      BY <1>3, <1>7, <2>2, <3>1
    <3> QED BY <1>5, <3>1, <3>2
  <2> QED BY <2>1, <2>2
<1>11. ASSUME NEW i \in 0 .. n + m PROVE Starts(h[i].del, c)
  <2>1. i \in 0 .. n \/ (i \in n .. n + m /\ i - n \in 0 .. m)
    BY <1>3
  <2> QED BY <1>4, <1>5, <1>6, <1>7, <2>1
<1>12. Trace(h, u, p, r, c)
  BY <1>3, <1>8, <1>9, <1>10, <1>11 DEF Trace
<1> QED BY <1>12 DEF Leads, u

\* More may be sent.
LEMMA TraceGrows ==
  ASSUME NEW s, NEW p, NEW q, NEW c \in Texts, NEW t \in Seq(Byte), Leads(s, p, q, c)
  PROVE  Leads(s, p, q, Append(c, t))
<1>1. PICK f : Trace(f, s, p, q, c)
  BY DEF Leads
<1>2. \A i \in 0 .. Len(s) : f[i].del \in Texts
  BY <1>1 DEF Trace, State
<1> DEFINE d == Append(c, t)
<1>3. \A i \in 0 .. Len(s) : Starts(f[i].del, c) => Starts(f[i].del, d)
  BY <1>2, StartsGrow
<1> HIDE DEF d
<1>4. Trace(f, s, p, q, d)
  BY <1>1, <1>3 DEF Trace
<1> QED BY <1>4 DEF Leads, d

\* The first byte is parsed.
LEMMA TraceTail ==
  ASSUME NEW s \in Seq(Byte), s # <<>>, NEW p, NEW q, NEW c, Leads(s, p, q, c)
  PROVE  \E r \in State : Parses(p, s[1], r) /\ Starts(r.del, c) /\ Leads(Tail(s), r, q, c)
<1> DEFINE n == Len(s) - 1
           t == Tail(s)
<1>1. PICK f : Trace(f, s, p, q, c)
  BY DEF Leads
<1>2. n \in Nat /\ Len(s) = n + 1 /\ Len(t) = n /\ \A i \in 1 .. n : t[i] = s[i + 1]
  BY HeadTailProperties, EmptySeq
<1> HIDE DEF n, t
<1>3. /\ f \in [0 .. n + 1 -> State] /\ f[0] = p /\ f[n + 1] = q
      /\ \A i \in 1 .. n + 1 : Parses(f[i - 1], s[i], f[i])
      /\ \A i \in 0 .. n + 1 : Starts(f[i].del, c)
  BY <1>1, <1>2 DEF Trace
<1> DEFINE g == [i \in 0 .. n |-> f[i + 1]]
<1>4. \A i \in 0 .. n : g[i] = f[i + 1] /\ i + 1 \in 0 .. n + 1 /\ i + 1 \in 1 .. n + 1
  BY <1>2
<1>5. g \in [0 .. n -> State]
  BY <1>3, <1>4
<1> HIDE DEF g
<1>6. g[0] = f[1] /\ g[n] = q
  BY <1>2, <1>3, <1>4
<1>7. ASSUME NEW i \in 1 .. n PROVE Parses(g[i - 1], t[i], g[i])
  <2>1. i \in 0 .. n /\ i - 1 \in 0 .. n /\ (i - 1) + 1 = i /\ i + 1 \in 1 .. n + 1 /\ (i + 1) - 1 = i
    BY <1>2
  <2>2. g[i] = f[i + 1] /\ g[i - 1] = f[i] /\ t[i] = s[i + 1]
    BY <1>2, <1>4, <2>1
  <2>3. Parses(f[(i + 1) - 1], s[i + 1], f[i + 1])
    BY <1>3, <2>1
  <2> QED BY <2>1, <2>2, <2>3
<1>8. \A i \in 0 .. n : Starts(g[i].del, c)
  BY <1>3, <1>4
<1>9. Trace(g, t, f[1], q, c)
  BY <1>2, <1>5, <1>6, <1>7, <1>8 DEF Trace
<1>10. f[1] \in State /\ Parses(p, s[1], f[1]) /\ Starts(f[1].del, c)
  <2>1. 1 \in 1 .. n + 1 /\ 1 \in 0 .. n + 1 /\ 1 - 1 = 0
    BY <1>2
  <2> QED BY <1>3, <2>1
<1> QED BY <1>9, <1>10 DEF Leads, t

LEMMA MarkerShape ==
  /\ \A b \in {"+", "-"} : /\ Marker(b) \in Seq(Byte) /\ Len(Marker(b)) = DELIM_LENGTH
                           /\ \A i \in 1 .. DELIM_LENGTH : Marker(b)[i] = b
  /\ Tail(Marker("-")) \in Seq(Byte) /\ Len(Tail(Marker("-"))) = DELIM_LENGTH - 1
  /\ \A i \in 1 .. DELIM_LENGTH - 1 : Tail(Marker("-"))[i] = "-"
<1>1. "+" \in Byte /\ "-" \in Byte
  BY ByteTypes
<1>2. \A b \in {"+", "-"} : /\ Marker(b) \in Seq(Byte) /\ Len(Marker(b)) = DELIM_LENGTH
                           /\ \A i \in 1 .. DELIM_LENGTH : Marker(b)[i] = b
  BY <1>1, DelimAssumption DEF Marker
<1> DEFINE m == Marker("-")
<1>3. m \in Seq(Byte) /\ Len(m) = DELIM_LENGTH /\ m # <<>> /\ \A i \in 1 .. DELIM_LENGTH : m[i] = "-"
  BY <1>2, DelimAssumption
<1> HIDE DEF m
<1>4. /\ Tail(m) \in Seq(Byte) /\ Len(Tail(m)) = Len(m) - 1
      /\ \A i \in 1 .. Len(m) - 1 : Tail(m)[i] = m[i + 1]
  BY <1>3, HeadTailProperties
<1>5. \A i \in 1 .. DELIM_LENGTH - 1 : i \in 1 .. Len(m) - 1 /\ i + 1 \in 1 .. DELIM_LENGTH
  BY <1>3, DelimAssumption
<1> QED BY <1>2, <1>3, <1>4, <1>5 DEF m

LEMMA StateParts ==
  /\ \A pl, mi \in Counts, cu \in Messages, de \in Texts, ba \in {0, 1} :
       St(pl, mi, cu, de, ba) \in State
  /\ \A pl, mi, cu, de, ba :
       LET p == St(pl, mi, cu, de, ba) IN
       p.plus = pl /\ p.minus = mi /\ p.cur = cu /\ p.del = de /\ p.bad = ba
BY DEF St, State

LEMMA StateSplit ==
  ASSUME NEW p \in State
  PROVE  /\ p.plus \in Counts /\ p.minus \in Counts /\ p.cur \in Messages /\ p.del \in Texts
         /\ p.bad \in {0, 1} /\ p = St(p.plus, p.minus, p.cur, p.del, p.bad)
BY DEF St, State

\* The parser byte by byte.
LEMMA ParseCases ==
  ASSUME NEW pl, NEW mi, NEW cu, NEW de
  PROVE  LET p == St(pl, mi, cu, de, 0) IN
         /\ pl + 1 < DELIM_LENGTH => Parses(p, "+", St(pl + 1, mi, cu, de, 0))
         /\ ~ (pl + 1 < DELIM_LENGTH) => Parses(p, "+", St(0, mi, <<>>, de, 0))
         /\ mi + 1 < DELIM_LENGTH => Parses(p, "-", St(pl, mi + 1, cu, de, 0))
         /\ ~ (mi + 1 < DELIM_LENGTH) /\ cu # NULL =>
              Parses(p, "-", St(pl, 0, NULL, Append(de, cu), 0))
         /\ cu = NULL => \A b : b \notin {"+", "-"} => Parses(p, b, St(0, 0, NULL, de, 1))
         /\ cu # NULL => \A b : b \notin {"+", "-"} => Parses(p, b, St(0, 0, Append(cu, b), de, 0))
<1> DEFINE p == St(pl, mi, cu, de, 0)
<1>1. p.plus = pl /\ p.minus = mi /\ p.cur = cu /\ p.del = de /\ p.bad = 0
  BY StateParts
<1> HIDE DEF p
<1>2. pl + 1 < DELIM_LENGTH => Parses(p, "+", St(pl + 1, mi, cu, de, 0))
  BY <1>1 DEF Parses
<1>3. ~ (pl + 1 < DELIM_LENGTH) => Parses(p, "+", St(0, mi, <<>>, de, 0))
  BY <1>1 DEF Parses
<1>4. mi + 1 < DELIM_LENGTH => Parses(p, "-", St(pl, mi + 1, cu, de, 0))
  BY <1>1 DEF Parses
<1>5. ~ (mi + 1 < DELIM_LENGTH) /\ cu # NULL => Parses(p, "-", St(pl, 0, NULL, Append(de, cu), 0))
  BY <1>1 DEF Parses
<1>6. cu = NULL => \A b : b \notin {"+", "-"} => Parses(p, b, St(0, 0, NULL, de, 1))
  BY <1>1 DEF Parses
<1>7. cu # NULL => \A b : b \notin {"+", "-"} => Parses(p, b, St(0, 0, Append(cu, b), de, 0))
  BY <1>1 DEF Parses
<1> QED BY <1>2, <1>3, <1>4, <1>5, <1>6, <1>7 DEF p

LEMMA OpenPiece ==
  ASSUME NEW mi \in Counts, NEW cu \in Messages, NEW de \in Texts, NEW c, Starts(de, c)
  PROVE  Leads(Marker("+"), St(0, mi, cu, de, 0), St(0, mi, <<>>, de, 0), c)
<1> DEFINE n == DELIM_LENGTH
           p == St(0, mi, cu, de, 0)
           q == St(0, mi, <<>>, de, 0)
           f == [i \in 0 .. n |-> IF i = n THEN q ELSE St(i, mi, cu, de, 0)]
<1>1. /\ n \in Nat \ {0} /\ \A i \in 0 .. n : i = n \/ i \in 0 .. n - 1
      /\ \A i \in 0 .. n - 1 : i \in Counts
  BY DelimAssumption DEF Counts
<1>2. <<>> \in Messages /\ 0 \in Counts
  BY <1>1 DEF Messages, Counts
<1>3. /\ q \in State /\ q.del = de
      /\ \A i \in 0 .. n - 1 : St(i, mi, cu, de, 0) \in State /\ St(i, mi, cu, de, 0).del = de
  BY <1>1, <1>2, StateParts
<1> HIDE DEF n, q
<1>4. \A i \in 0 .. n - 1 : f[i] = St(i, mi, cu, de, 0)
  <2>1. \A i \in 0 .. n - 1 : i \in 0 .. n /\ i # n
    BY <1>1
  <2> QED BY <2>1
<1>5. f[n] = q /\ f \in [0 .. n -> State]
  <2>1. n \in 0 .. n
    BY <1>1
  <2> QED BY <1>1, <1>3, <2>1
<1> HIDE DEF f
<1>6. ASSUME NEW i \in 0 .. n PROVE Starts(f[i].del, c)
  <2>1. f[i].del = de
    BY <1>1, <1>3, <1>4, <1>5
  <2> QED BY <2>1
<1>7. f[0] = p
  <2>1. 0 \in 0 .. n - 1
    BY <1>1
  <2> QED BY <1>4, <2>1
<1>8. ASSUME NEW i \in 1 .. n PROVE Parses(f[i - 1], "+", f[i])
  <2>1. i - 1 \in 0 .. n - 1 /\ (i - 1) + 1 = i
    BY <1>1
  <2>2. f[i - 1] = St(i - 1, mi, cu, de, 0)
    BY <1>4, <2>1
  <2>3. CASE i = n
    <3>1. ~ ((i - 1) + 1 < DELIM_LENGTH)
      BY <1>1, <2>1, <2>3 DEF n
    <3>2. Parses(f[i - 1], "+", q)
      BY <2>2, <3>1, ParseCases DEF q
    <3> QED BY <1>5, <2>3, <3>2
  <2>4. CASE i # n
    <3>1. (i - 1) + 1 < DELIM_LENGTH /\ i \in 0 .. n - 1
      BY <1>1, <2>1, <2>4 DEF n
    <3>2. Parses(f[i - 1], "+", St((i - 1) + 1, mi, cu, de, 0))
      BY <2>2, <3>1, ParseCases
    <3> QED BY <1>4, <2>1, <3>1, <3>2
  <2> QED BY <2>3, <2>4
<1>9. Trace(f, Marker("+"), p, q, c)
  <2> DEFINE s == Marker("+")
  <2>1. Len(s) = n /\ \A i \in 1 .. n : s[i] = "+"
    BY MarkerShape DEF n
  <2> HIDE DEF s
  <2>2. Trace(f, s, p, q, c)
    BY <1>5, <1>6, <1>7, <1>8, <2>1 DEF Trace
  <2> QED BY <2>2 DEF s
<1> QED BY <1>9 DEF Leads, q

\* m closing delimiters less than a marker.
LEMMA MinusPiece ==
  ASSUME NEW pl \in Counts, NEW cu \in Messages, NEW de \in Texts, NEW c, Starts(de, c),
         NEW m \in Counts, NEW s \in Seq(Byte), Len(s) = m, \A i \in 1 .. m : s[i] = "-"
  PROVE  Leads(s, St(pl, 0, cu, de, 0), St(pl, m, cu, de, 0), c)
<1> DEFINE f == [i \in 0 .. m |-> St(pl, i, cu, de, 0)]
<1>1. m \in Nat /\ \A i \in 0 .. m : i \in Counts /\ i < DELIM_LENGTH
  BY DelimAssumption DEF Counts
<1>2. \A i \in 0 .. m : St(pl, i, cu, de, 0) \in State /\ St(pl, i, cu, de, 0).del = de
  BY <1>1, StateParts
<1>3. (\A i \in 0 .. m : f[i] = St(pl, i, cu, de, 0)) /\ f \in [0 .. m -> State]
  BY <1>2
<1> HIDE DEF f
<1>4. ASSUME NEW i \in 0 .. m PROVE Starts(f[i].del, c)
  <2>1. f[i].del = de
    BY <1>2, <1>3
  <2> QED BY <2>1
<1>5. f[0] = St(pl, 0, cu, de, 0) /\ f[m] = St(pl, m, cu, de, 0)
  <2>1. 0 \in 0 .. m /\ m \in 0 .. m
    BY <1>1
  <2> QED BY <1>3, <2>1
<1>6. ASSUME NEW i \in 1 .. m PROVE Parses(f[i - 1], s[i], f[i])
  <2>1. i - 1 \in 0 .. m /\ i \in 0 .. m /\ (i - 1) + 1 = i
    BY <1>1
  <2>2. f[i - 1] = St(pl, i - 1, cu, de, 0) /\ f[i] = St(pl, (i - 1) + 1, cu, de, 0) /\ s[i] = "-"
    BY <1>3, <2>1
  <2>3. (i - 1) + 1 < DELIM_LENGTH
    BY <1>1, <2>1
  <2> QED BY <2>2, <2>3, ParseCases
<1>7. Trace(f, s, St(pl, 0, cu, de, 0), St(pl, m, cu, de, 0), c)
  BY <1>3, <1>4, <1>5, <1>6 DEF Trace
<1> QED BY <1>7 DEF Leads

\* A closing marker delivers the message that is open.
LEMMA ClosePiece ==
  ASSUME NEW pl \in Counts, NEW cu \in Seq(Byte), NEW de \in Texts, NEW c, Starts(de, c),
         Starts(Append(de, cu), c), NULL \notin Seq(Byte)
  PROVE  Leads(Marker("-"), St(pl, 0, cu, de, 0), St(pl, 0, NULL, Append(de, cu), 0), c)
<1> DEFINE m == DELIM_LENGTH - 1
           s == [i \in 1 .. m |-> "-"]
           e == Append(de, cu)
           p == St(pl, 0, cu, de, 0)
           q == St(pl, m, cu, de, 0)
           r == St(pl, 0, NULL, e, 0)
<1>1. m \in Counts /\ m + 1 = DELIM_LENGTH /\ m \in Nat /\ 0 \in Counts
  BY DelimAssumption DEF Counts
<1>2. "-" \in Byte
  BY ByteTypes
<1>3. s \in Seq(Byte) /\ Len(s) = m /\ \A i \in 1 .. m : s[i] = "-"
  BY <1>1, <1>2
<1>4. Marker("-") = Append(s, "-")
  <2>1. Len(Append(s, "-")) = DELIM_LENGTH /\ Append(s, "-") \in Seq(Byte)
    BY <1>1, <1>2, <1>3, AppendProperties
  <2>2. \A i \in 1 .. DELIM_LENGTH : i \in 1 .. m \/ i = m + 1
    BY <1>1
  <2>3. \A i \in 1 .. DELIM_LENGTH : Append(s, "-")[i] = "-"
    BY <1>1, <1>2, <1>3, <2>2, AppendProperties
  <2> QED BY <2>1, <2>3, MarkerShape, SeqEqual
<1>5. cu \in Messages /\ NULL \in Messages /\ cu # NULL /\ e \in Texts
  BY DEF Messages, Texts
<1> HIDE DEF m, s, e
<1>6. q \in State /\ r \in State /\ r.del = e
  BY <1>1, <1>5, StateParts
<1>7. Parses(q, "-", r)
  <2>1. ~ (m + 1 < DELIM_LENGTH)
    BY <1>1, DelimAssumption
  <2> QED BY <1>5, <2>1, ParseCases DEF e
<1>8. Leads(s, p, q, c)
  BY <1>1, <1>3, <1>5, MinusPiece
<1> HIDE DEF p, q, r
<1>9. Starts(r.del, c)
  BY <1>6 DEF e
<1>10. Leads(Append(s, "-"), p, r, c)
  BY <1>2, <1>3, <1>6, <1>7, <1>8, <1>9, TraceOn
<1> QED BY <1>4, <1>10 DEF p, r, e

\* After a write through the null pointer nothing is parsed.
LEMMA BadPiece ==
  ASSUME NEW p \in State, NEW c, NEW s \in Seq(Byte), p.bad = 1, Starts(p.del, c)
  PROVE  Leads(s, p, p, c)
<1> DEFINE n == Len(s)
           f == [i \in 0 .. n |-> p]
<1>1. n \in Nat
  OBVIOUS
<1> HIDE DEF n
<1>2. \A i \in 1 .. n : i \in 0 .. n /\ i - 1 \in 0 .. n
  BY <1>1
<1>3. 0 \in 0 .. n /\ n \in 0 .. n /\ f \in [0 .. n -> State] /\ \A i \in 0 .. n : f[i] = p
  BY <1>1
<1> HIDE DEF f
<1>4. \A i \in 1 .. n : Parses(f[i - 1], s[i], f[i])
  BY <1>2, <1>3 DEF Parses
<1>5. Trace(f, s, p, p, c)
  BY <1>3, <1>4 DEF Trace, n
<1> QED BY <1>5 DEF Leads

\* The characters of a text or of a line of setup() are stored in the open message.
LEMMA PlainPiece ==
  ASSUME NEW pl \in Counts, NEW mi \in Counts, NEW m \in Seq(Byte), NEW de \in Texts,
         NEW c, Starts(de, c), NULL \notin Seq(Byte),
         NEW s \in Seq(Byte), s # <<>>, \A i \in 1 .. Len(s) : s[i] \notin {"+", "-"}
  PROVE  Leads(s, St(pl, mi, m, de, 0), St(0, 0, m \o s, de, 0), c)
<1> DEFINE n == Len(s)
           p == St(pl, mi, m, de, 0)
           Kept(i) == m \o SubSeq(s, 1, i)
           f == [i \in 0 .. n |-> IF i = 0 THEN p ELSE St(0, 0, Kept(i), de, 0)]
<1>1. n \in Nat \ {0}
  BY EmptySeq
<1>2. ASSUME NEW i \in 0 .. n PROVE Kept(i) \in Seq(Byte)
  <2>1. \A k \in 1 .. i : s[k] \in Byte
    BY <1>1
  <2>2. SubSeq(s, 1, i) \in Seq(Byte)
    BY <1>1, <2>1, SubSeqProperties
  <2> QED BY <2>2, ConcatProperties
<1>3. ASSUME NEW i \in 1 .. n
      PROVE  Kept(i) = Append(Kept(i - 1), s[i])
  <2> DEFINE x == m \o SubSeq(s, 1, i)
             u == m \o SubSeq(s, 1, i - 1)
             y == Append(u, s[i])
             v == SubSeq(s, 1, i)
             w == SubSeq(s, 1, i - 1)
  <2>1. /\ i \in 0 .. n /\ i - 1 \in 0 .. n /\ s[i] \in Byte
        /\ (\A k \in 1 .. i : s[k] \in Byte) /\ (\A k \in 1 .. i - 1 : s[k] \in Byte)
    BY <1>1
  <2>2. v \in Seq(Byte) /\ Len(v) = i /\ \A k \in 1 .. i : v[k] = s[k]
    BY <1>1, <2>1, SubSeqProperties
  <2>3. w \in Seq(Byte) /\ Len(w) = i - 1 /\ \A k \in 1 .. i - 1 : w[k] = s[k]
    BY <1>1, <2>1, SubSeqProperties
  <2> HIDE DEF v, w, n
  <2>4. /\ x \in Seq(Byte) /\ Len(x) = Len(m) + i
        /\ \A k \in 1 .. Len(m) + i : x[k] = IF k <= Len(m) THEN m[k] ELSE v[k - Len(m)]
    BY <2>2, ConcatProperties DEF v
  <2>5. /\ u \in Seq(Byte) /\ Len(u) = Len(m) + (i - 1)
        /\ \A k \in 1 .. Len(m) + (i - 1) : u[k] = IF k <= Len(m) THEN m[k] ELSE w[k - Len(m)]
    BY <2>3, ConcatProperties DEF w
  <2> HIDE DEF x, u
  <2>6. /\ y \in Seq(Byte) /\ Len(y) = Len(u) + 1 /\ y[Len(u) + 1] = s[i]
        /\ \A k \in 1 .. Len(u) : y[k] = u[k]
    BY <2>1, <2>5, AppendProperties
  <2> HIDE DEF y
  <2>7. Len(m) \in Nat /\ Len(x) = Len(y) /\ Len(u) + 1 = Len(x)
    BY <2>1, <2>4, <2>5, <2>6
  <2>8. ASSUME NEW k \in 1 .. Len(x) PROVE x[k] = y[k]
    <3>1. CASE k = Len(x)
      <4>1. k - Len(m) = i /\ ~ (k <= Len(m)) /\ k \in 1 .. Len(m) + i /\ i \in 1 .. i /\ k = Len(u) + 1
        BY <2>1, <2>4, <2>7, <3>1
      <4>2. x[k] = v[i]
        BY <2>4, <4>1
      <4>3. v[i] = s[i]
        BY <2>2, <4>1
      <4> QED BY <2>6, <4>1, <4>2, <4>3
    <3>2. CASE k # Len(x)
      <4>1. k \in 1 .. Len(m) + (i - 1) /\ k \in 1 .. Len(u) /\ k \in 1 .. Len(m) + i
        BY <2>1, <2>4, <2>5, <2>7, <3>2
      <4>2. CASE k <= Len(m)
        BY <2>4, <2>5, <2>6, <4>1, <4>2
      <4>3. CASE ~ (k <= Len(m))
        <5>1. k - Len(m) \in 1 .. i - 1 /\ k - Len(m) \in 1 .. i
          BY <2>7, <4>1, <4>3
        <5>2. x[k] = v[k - Len(m)] /\ v[k - Len(m)] = s[k - Len(m)]
          BY <2>2, <2>4, <4>1, <4>3, <5>1
        <5>3. u[k] = w[k - Len(m)] /\ w[k - Len(m)] = s[k - Len(m)]
          BY <2>3, <2>5, <4>1, <4>3, <5>1
        <5>4. y[k] = u[k]
          BY <2>6, <4>1
        <5> QED BY <5>2, <5>3, <5>4
      <4> QED BY <4>2, <4>3
    <3> QED BY <3>1, <3>2
  <2>9. x = y
    BY <2>4, <2>6, <2>7, <2>8, SeqEqual
  <2> QED BY <2>9 DEF x, y, u
<1>4. Kept(0) = m /\ Kept(n) = m \o s
  <2>1. SubSeq(s, 1, 0) = <<>>
    BY SubSeqEmpty
  <2> QED BY <2>1, SubSeqFull, ConcatEmptySeq
<1>5. \A x \in Seq(Byte) : x \in Messages /\ x # NULL
  BY DEF Messages
<1>6. 0 \in Counts
  BY DelimAssumption DEF Counts
<1> HIDE DEF n, Kept
<1>7. \A i \in 0 .. n : St(0, 0, Kept(i), de, 0) \in State /\ St(0, 0, Kept(i), de, 0).del = de
  BY <1>2, <1>5, <1>6, StateParts
<1>8. p \in State /\ p.del = de
  BY <1>5, StateParts
<1> HIDE DEF p
<1>9. /\ f[0] = p /\ f \in [0 .. n -> State] /\ f[n] = St(0, 0, m \o s, de, 0)
      /\ \A i \in 1 .. n : f[i] = St(0, 0, Kept(i), de, 0)
  <2>1. \A i \in 1 .. n : i \in 0 .. n /\ i # 0
    BY <1>1
  <2>2. 0 \in 0 .. n /\ n \in 1 .. n
    BY <1>1
  <2> QED BY <1>4, <1>7, <1>8, <2>1, <2>2
<1> HIDE DEF f
<1>10. ASSUME NEW i \in 1 .. n PROVE Parses(f[i - 1], s[i], f[i])
  <2> DEFINE x == Kept(i - 1)
  <2>1. s[i] \notin {"+", "-"}
    BY DEF n
  <2>2. i - 1 \in 0 .. n /\ x \in Seq(Byte) /\ x # NULL
    BY <1>1, <1>2, <1>5
  <2>3. f[i] = St(0, 0, Append(x, s[i]), de, 0)
    BY <1>3, <1>9
  <2>4. f[i - 1] = St(0, 0, x, de, 0) \/ f[i - 1] = St(pl, mi, x, de, 0)
    <3>1. CASE i = 1
      <4>1. i - 1 = 0
        BY <3>1
      <4> QED BY <1>4, <1>9, <4>1 DEF p
    <3>2. CASE i # 1
      <4>1. i - 1 \in 1 .. n
        BY <1>1, <3>2
      <4> QED BY <1>9, <4>1
    <3> QED BY <3>1, <3>2
  <2> HIDE DEF x
  <2>5. /\ Parses(St(0, 0, x, de, 0), s[i], St(0, 0, Append(x, s[i]), de, 0))
        /\ Parses(St(pl, mi, x, de, 0), s[i], St(0, 0, Append(x, s[i]), de, 0))
    BY <2>1, <2>2, ParseCases
  <2> QED BY <2>3, <2>4, <2>5
<1>11. ASSUME NEW i \in 0 .. n PROVE Starts(f[i].del, c)
  <2>1. i = 0 \/ i \in 1 .. n
    BY <1>1
  <2>2. f[i].del = de
    BY <1>7, <1>8, <1>9, <2>1
  <2> QED BY <2>2
<1>12. Trace(f, s, p, f[n], c)
  BY <1>9, <1>10, <1>11 DEF Trace, n
<1> QED BY <1>9, <1>12 DEF Leads, p

\* Outside a message the first of them is written through the null pointer.
LEMMA StrayPiece ==
  ASSUME NEW pl \in Counts, NEW mi \in Counts, NEW de \in Texts, NEW c, Starts(de, c),
         NEW s \in Seq(Byte), s # <<>>, \A i \in 1 .. Len(s) : s[i] \notin {"+", "-"}
  PROVE  Leads(s, St(pl, mi, NULL, de, 0), St(0, 0, NULL, de, 1), c)
<1> DEFINE n == Len(s)
           p == St(pl, mi, NULL, de, 0)
           b == St(0, 0, NULL, de, 1)
           f == [i \in 0 .. n |-> IF i = 0 THEN p ELSE b]
<1>1. n \in Nat \ {0}
  BY EmptySeq
<1>2. NULL \in Messages /\ 0 \in Counts
  BY DelimAssumption DEF Counts, Messages
<1>3. b \in State /\ b.del = de /\ b.bad = 1 /\ p \in State /\ p.del = de
  BY <1>2, StateParts
<1> HIDE DEF n, p, b
<1>4. f[0] = p /\ f \in [0 .. n -> State] /\ f[n] = b /\ \A i \in 1 .. n : f[i] = b
  <2>1. \A i \in 1 .. n : i \in 0 .. n /\ i # 0
    BY <1>1
  <2>2. 0 \in 0 .. n /\ n \in 1 .. n
    BY <1>1
  <2> QED BY <1>3, <2>1, <2>2
<1> HIDE DEF f
<1>5. ASSUME NEW i \in 1 .. n PROVE Parses(f[i - 1], s[i], f[i])
  <2>1. s[i] \notin {"+", "-"}
    BY DEF n
  <2>2. CASE i = 1
    <3>1. f[i - 1] = p /\ f[i] = b
      BY <1>4, <2>2
    <3> QED BY <2>1, <3>1, ParseCases DEF p, b
  <2>3. CASE i # 1
    <3>1. i - 1 \in 1 .. n
      BY <1>1, <2>3
    <3>2. f[i - 1] = b /\ f[i] = b
      BY <1>4, <3>1
    <3> QED BY <1>3, <3>2 DEF Parses
  <2> QED BY <2>2, <2>3
<1>6. ASSUME NEW i \in 0 .. n PROVE Starts(f[i].del, c)
  <2>1. i = 0 \/ i \in 1 .. n
    BY <1>1
  <2>2. f[i].del = de
    BY <1>3, <1>4, <2>1
  <2> QED BY <2>2
<1>7. Trace(f, s, p, b, c)
  BY <1>4, <1>5, <1>6 DEF Trace, n
<1> QED BY <1>7 DEF Leads, p, b


\* No text and no line of setup() holds a delimiter.
NoDelimiters == \A p \in Text \cup {Banner} : Range(p) \cap {"+", "-"} = {}

GoodEnd(q, c) == q.bad = 0 => q.plus = 0 /\ q.del = c

\* What is delivered is what was closed first, and the bytes under way lead the parser
\* to the rest of it.
DelInv ==
  /\ TypeOK /\ Starts(delivered, ClosedTexts)
  /\ Live => \E q \in State : Leads(Stream, Parser, q, ClosedTexts) /\ GoodEnd(q, ClosedTexts)

\* What a frame puts on the line holds no delimiter but those of its markers.
LEMMA LineShape ==
  ASSUME NoDelimiters, NEW p \in Text, NEW lost \in SUBSET Lossy,
         NEW i \in IF "text" \in lost THEN DOMAIN p ELSE {1}
  PROVE  LET f == OnTheLine(p, lost, i) IN
         /\ f.text # <<>> /\ \A k \in 1 .. Len(f.text) : f.text[k] \notin {"+", "-"}
         /\ f.close = IF "close" \in lost THEN Tail(Marker("-")) ELSE Marker("-")
<1> DEFINE t == OnTheLine(p, lost, i).text
           B == Byte \ {"+", "-"}
<1>1. p \in Seq(Byte) /\ Len(p) \in Nat /\ Len(p) >= 2
  BY ByteTypes, TextAssumption
<1>2. \A k \in 1 .. Len(p) : p[k] \in B
  <2>1. \A k \in 1 .. Len(p) : p[k] \in Range(p) /\ p[k] \in Byte
    BY <1>1 DEF Range
  <2> QED BY <2>1 DEF NoDelimiters
<1>3. t \in Seq(B) /\ Len(t) >= 1
  <2>1. CASE "text" \in lost
    <3> DEFINE u == SubSeq(p, 1, i - 1)
               v == SubSeq(p, i + 1, Len(p))
    <3>1. i \in 1 .. Len(p)
      BY <1>1, <2>1
    <3>2. (\A k \in 1 .. i - 1 : p[k] \in B) /\ (\A k \in i + 1 .. Len(p) : p[k] \in B)
      BY <1>1, <1>2, <3>1
    <3>3. u \in Seq(B) /\ Len(u) = i - 1
      BY <1>1, <3>1, <3>2, SubSeqProperties
    <3>4. v \in Seq(B) /\ Len(v) = Len(p) - i
      BY <1>1, <3>1, <3>2, SubSeqProperties
    <3>5. t = u \o v
      BY <2>1 DEF OnTheLine, RemoveAt
    <3> HIDE DEF u, v, t, B
    <3>6. t \in Seq(B) /\ Len(t) = Len(u) + Len(v)
      BY <3>3, <3>4, <3>5, ConcatProperties
    <3> QED BY <1>1, <3>1, <3>3, <3>4, <3>6
  <2>2. CASE "text" \notin lost
    <3>1. t = p
      BY <2>2 DEF OnTheLine
    <3> HIDE DEF t, B
    <3> QED BY <1>1, <1>2, <3>1
  <2> QED BY <2>1, <2>2
<1>4. OnTheLine(p, lost, i).close = IF "close" \in lost THEN Tail(Marker("-")) ELSE Marker("-")
  BY DEF OnTheLine
<1> HIDE DEF t
<1>5. t # <<>> /\ \A k \in 1 .. Len(t) : t[k] \notin {"+", "-"}
  BY <1>3
<1> QED BY <1>4, <1>5 DEF t

Undelimited(t) == t \in Seq(Byte) /\ t # <<>> /\ \A k \in 1 .. Len(t) : t[k] \notin {"+", "-"}

\* The end of a frame makes d of what was closed before.
EndsAs(t, z, c, d) == \/ z = Marker("-") /\ d = Append(c, t)
                      \/ z = Tail(Marker("-")) /\ d = c

FrameEnd(t, z, q, d) ==
  \E r \in State : Leads(Marker("+") \o t \o z, q, r, d) /\ GoodEnd(r, d)

\* A frame that is closed is delivered, one that is not closed is not.
LEMMA FramePiece ==
  ASSUME NEW q \in State, NEW c \in Texts, Starts(q.del, c), GoodEnd(q, c), NULL \notin Seq(Byte),
         NEW t, Undelimited(t), NEW z, NEW d, EndsAs(t, z, c, d)
  PROVE  FrameEnd(t, z, q, d)
<1> USE DEF Undelimited, EndsAs, FrameEnd
<1> DEFINE o == Marker("+")
           w == o \o t \o z
<1>1. /\ o \in Seq(Byte) /\ z \in Seq(Byte) /\ 0 \in Counts /\ DELIM_LENGTH - 1 \in Counts
      /\ q.del \in Texts
  BY MarkerShape, DelimAssumption, StateSplit DEF Counts
<1>2. d \in Texts /\ \A a \in Texts : Starts(a, c) => Starts(a, d)
  <2>1. Append(c, t) \in Texts
    BY DEF Texts
  <2> QED BY <2>1, StartsGrow
<1> HIDE DEF o
<1>3. o \o t \in Seq(Byte)
  BY <1>1, ConcatProperties
<1>4. w \in Seq(Byte)
  BY <1>1, <1>3, ConcatProperties
<1>5. Starts(q.del, d)
  BY <1>1, <1>2
<1>6. CASE q.bad = 1
  <2> HIDE DEF w
  <2>1. Leads(w, q, q, d) /\ GoodEnd(q, d)
    BY <1>4, <1>5, <1>6, BadPiece DEF GoodEnd
  <2> QED BY <1>2, <2>1 DEF w, o
<1>7. CASE q.bad # 1
  <2> DEFINE mi == q.minus
             cu == q.cur
             u == <<>>
             t1 == u \o t
  <2>1. /\ mi \in Counts /\ cu \in Messages /\ q = St(0, mi, cu, c, 0) /\ q.del = c
        /\ Starts(c, d)
    <3>1. q.bad = 0
      BY <1>7, StateSplit
    <3>2. q.plus = 0 /\ q.del = c
      BY <3>1 DEF GoodEnd
    <3> QED BY <1>5, <3>1, <3>2, StateSplit
  <2> HIDE DEF mi, cu
  <2>2. u \in Seq(Byte) /\ t1 = t /\ u \in Messages
    BY ConcatEmptySeq DEF Messages
  <2> HIDE DEF u
  <2>3. Leads(o, q, St(0, mi, u, c, 0), d)
    BY <2>1, OpenPiece DEF o, u
  <2>4. Leads(t, St(0, mi, u, c, 0), St(0, 0, t, c, 0), d)
    <3>1. Leads(t, St(0, mi, u, c, 0), St(0, 0, t1, c, 0), d)
      BY <1>1, <2>1, <2>2, PlainPiece
    <3> QED BY <2>2, <3>1
  <2>5. Leads(o \o t, q, St(0, 0, t, c, 0), d)
    BY <1>1, <2>3, <2>4, TraceConcat
  <2>6. t \in Messages /\ NULL \in Messages
    BY DEF Messages
  <2>7. CASE z = Marker("-") /\ d = Append(c, t)
    <3> DEFINE r == St(0, 0, NULL, d, 0)
    <3>1. r \in State /\ GoodEnd(r, d)
      BY <1>1, <1>2, <2>6, StateParts DEF GoodEnd
    <3>2. Starts(d, d)
      BY <1>2, StartsGrow
    <3>3. Leads(z, St(0, 0, t, c, 0), r, d)
      BY <1>1, <2>1, <2>7, <3>2, ClosePiece
    <3> HIDE DEF r
    <3>4. Leads((o \o t) \o z, q, r, d)
      BY <1>1, <1>3, <2>5, <3>3, TraceConcat
    <3> QED BY <1>2, <3>1, <3>4 DEF o
  <2>8. CASE z = Tail(Marker("-")) /\ d = c
    <3> DEFINE m == DELIM_LENGTH - 1
               r == St(0, m, t, c, 0)
    <3>1. r \in State /\ GoodEnd(r, d)
      BY <1>1, <2>6, <2>8, StateParts DEF GoodEnd
    <3>2. m \in Counts /\ Len(z) = m /\ \A i \in 1 .. m : z[i] = "-"
      BY <1>1, <2>8, MarkerShape
    <3> HIDE DEF m
    <3>3. Leads(z, St(0, 0, t, c, 0), r, d)
      BY <1>1, <2>1, <2>6, <3>2, MinusPiece
    <3> HIDE DEF r
    <3>4. Leads((o \o t) \o z, q, r, d)
      BY <1>1, <1>3, <2>5, <3>3, TraceConcat
    <3> QED BY <1>2, <3>1, <3>4 DEF o
  <2> QED BY <2>7, <2>8
<1> QED BY <1>6, <1>7

\* A line of setup() delivers nothing.
LEMMA BannerPiece ==
  ASSUME NoDelimiters, NULL \notin Seq(Byte),
         NEW q \in State, NEW c \in Texts, Starts(q.del, c), GoodEnd(q, c)
  PROVE  \E r \in State : Leads(Banner, q, r, c) /\ GoodEnd(r, c)
<1> DEFINE s == Banner
<1>1. s \in Seq(Byte) /\ 0 \in Counts
  BY ByteTypes, DelimAssumption DEF Counts
<1>2. \A k \in 1 .. Len(s) : s[k] \notin {"+", "-"}
  <2>1. \A k \in 1 .. Len(s) : s[k] \in Range(s)
    BY <1>1 DEF Range
  <2> QED BY <2>1 DEF NoDelimiters
<1> HIDE DEF s
<1>3. CASE s = <<>>
  <2>1. Leads(s, q, q, c)
    BY <1>3, NothingParsed
  <2> QED BY <2>1 DEF s
<1>4. CASE q.bad = 1
  <2>1. Leads(s, q, q, c)
    BY <1>1, <1>4, BadPiece
  <2> QED BY <2>1 DEF s
<1>5. CASE s # <<>> /\ q.bad # 1
  <2> DEFINE mi == q.minus
             cu == q.cur
  <2>1. mi \in Counts /\ cu \in Messages /\ q = St(0, mi, cu, c, 0) /\ q.del = c
    <3>1. q.bad = 0
      BY <1>5, StateSplit
    <3>2. q.plus = 0 /\ q.del = c
      BY <3>1 DEF GoodEnd
    <3> QED BY <3>1, <3>2, StateSplit
  <2>2. Starts(c, c)
    BY <2>1
  <2> HIDE DEF mi, cu
  <2>3. CASE cu = NULL
    <3> DEFINE r == St(0, 0, NULL, c, 1)
    <3>1. r \in State /\ GoodEnd(r, c)
      BY <1>1, <2>1, <2>3, StateParts DEF GoodEnd
    <3>2. Leads(s, q, r, c)
      BY <1>1, <1>2, <1>5, <2>1, <2>2, <2>3, StrayPiece
    <3> QED BY <3>1, <3>2 DEF s
  <2>4. CASE cu # NULL
    <3> DEFINE x == cu \o s
               r == St(0, 0, x, c, 0)
    <3>1. cu \in Seq(Byte)
      BY <2>1, <2>4 DEF Messages
    <3>2. x \in Seq(Byte)
      BY <1>1, <3>1, ConcatProperties
    <3>3. Leads(s, q, r, c)
      BY <1>1, <1>2, <1>5, <2>1, <2>2, <3>1, PlainPiece
    <3> HIDE DEF x
    <3>4. x \in Messages
      BY <3>2 DEF Messages
    <3>5. r \in State /\ GoodEnd(r, c)
      BY <1>1, <3>4, StateParts DEF GoodEnd
    <3> QED BY <3>3, <3>5 DEF s
  <2> QED BY <2>3, <2>4
<1> QED BY <1>3, <1>4, <1>5, StateSplit

LEMMA ClosedTyped ==
  ASSUME TypeOK
  PROVE  ClosedTexts \in Texts /\ delivered \in Texts /\ sent \in Seq(SentRecord)
<1>1. sent \in Seq(SentRecord) /\ delivered \in Texts
  BY DEF TypeOK, SentRecord, Texts
<1>2. PICK h : Closing(h, sent) /\ Closed(sent) = h[Len(sent)]
  BY <1>1, ClosedSteps
<1>3. Len(sent) \in 0 .. Len(sent)
  BY <1>1
<1> QED BY <1>1, <1>2, <1>3 DEF Closing, ClosedTexts

LEMMA ParserState ==
  ASSUME TypeOK, Live
  PROVE  /\ Parser \in State /\ Parser.plus = plus_count /\ Parser.minus = minus_count
         /\ Parser.cur = current_message /\ Parser.del = delivered /\ Parser.bad = 0
<1>1. minus_count \in Counts /\ current_message \in Messages /\ delivered \in Texts
  BY DEF TypeOK, Counts, Messages, Texts
<1>2. plus_count \in Counts
  <2>1. plus_count \in 0 .. DELIM_LENGTH /\ plus_count < DELIM_LENGTH
    BY DEF TypeOK, Live
  <2> QED BY <2>1, DelimAssumption DEF Counts
<1> QED BY <1>1, <1>2, StateParts DEF Parser

LEMMA InitDel == Init => DelInv
<1> SUFFICES ASSUME Init PROVE DelInv
  OBVIOUS
<1>1. TypeOK
  BY InitType
<1>2. ClosedTexts = <<>>
  <2>1. <<>> \in Seq(SentRecord) /\ Len(<<>>) = 0 /\ sent = <<>>
    BY DEF Init
  <2>2. PICK h : Closing(h, <<>>) /\ Closed(<<>>) = h[0]
    BY <2>1, ClosedSteps
  <2> QED BY <2>1, <2>2 DEF ClosedTexts, Closing
<1>3. delivered = <<>> /\ Starts(delivered, ClosedTexts) /\ plus_count = 0
  <2>1. delivered = <<>> /\ plus_count = 0
    BY DEF Init
  <2>2. Starts(<<>>, <<>>)
    BY DEF Starts
  <2> QED BY <1>2, <2>1, <2>2
<1>4. Stream = <<>>
  <2>1. buffer = <<>> /\ wire = <<>>
    BY DEF Init
  <2>2. <<>> \o <<>> = <<>>
    OBVIOUS
  <2> QED BY <2>1, <2>2 DEF Stream
<1>5. Leads(Stream, Parser, Parser, ClosedTexts) /\ GoodEnd(Parser, ClosedTexts) /\ Parser \in State
  <2>1. Live
    BY DEF Init, Live
  <2> QED BY <1>1, <1>2, <1>3, <1>4, <2>1, ParserState, NothingParsed DEF GoodEnd
<1> QED BY <1>1, <1>3, <1>5 DEF DelInv

\* What is known of a stream and a parser is known of those of the next state.
LEMMA LeadsNow ==
  ASSUME NEW s, NEW p, NEW q, NEW c, Leads(s, p, q, c),
         Stream' = s, Parser' = p, ClosedTexts' = c
  PROVE  Leads(Stream, Parser, q, ClosedTexts)'
<1>1. PICK f : Trace(f, s, p, q, c)
  BY DEF Leads
<1>2. Trace(f, Stream, Parser, q, ClosedTexts)'
  <2>1. (f \in [0 .. Len(Stream) -> State] /\ f[0] = Parser /\ f[Len(Stream)] = q)'
    BY <1>1 DEF Trace
  <2>2. (\A i \in 1 .. Len(Stream) : Parses(f[i - 1], Stream[i], f[i]))'
    BY <1>1 DEF Trace, Parses
  <2>3. (\A i \in 0 .. Len(Stream) : Starts(f[i].del, ClosedTexts))'
    BY <1>1 DEF Trace, Starts
  <2> QED BY <2>1, <2>2, <2>3 DEF Trace
<1> QED BY <1>2 DEF Leads

\* The controller puts more on the line.
LEMMA SentKeepsDel ==
  ASSUME DelInv, Live, UNCHANGED <<buffer, parser>>,
         NEW w \in Seq(Byte), wire' = wire \o w, NEW d \in Texts, ClosedTexts' = d,
         \A q \in State : Starts(q.del, ClosedTexts) /\ GoodEnd(q, ClosedTexts)
                          => \E r \in State : Leads(w, q, r, d) /\ GoodEnd(r, d),
         \/ d = ClosedTexts
         \/ \E t \in Seq(Byte) : d = Append(ClosedTexts, t)
  PROVE  \E r \in State : Leads(Stream, Parser, r, ClosedTexts)' /\ GoodEnd(r, ClosedTexts')
<1> DEFINE c == ClosedTexts
           s == Stream
<1>1. PICK q \in State : Leads(s, Parser, q, c) /\ GoodEnd(q, c)
  BY DEF DelInv
<1>2. s \in Seq(Byte) /\ s = buffer \o wire /\ buffer \in Seq(Byte) /\ wire \in Seq(Byte)
      /\ c \in Texts
  BY StreamType, ClosedTyped DEF DelInv, Stream, TypeOK
<1>3. Stream' = s \o w
  <2>1. buffer \in Seq(Byte) /\ wire \in Seq(Byte)
    BY <1>2
  <2>2. buffer \o (wire \o w) = (buffer \o wire) \o w
    BY <2>1, ConcatAssociative
  <2> QED BY <1>2, <2>2 DEF Stream
<1>4. Parser' = Parser
  BY DEF Parser, parser
<1> HIDE DEF c, s
<1>5. Starts(q.del, c)
  <2>1. PICK f : Trace(f, s, Parser, q, c)
    BY <1>1 DEF Leads
  <2>2. Len(s) \in 0 .. Len(s)
    BY <1>2
  <2> QED BY <2>1, <2>2 DEF Trace
<1>6. PICK r \in State : Leads(w, q, r, d) /\ GoodEnd(r, d)
  BY <1>1, <1>5 DEF c
<1>7. Leads(s, Parser, q, d)
  <2>1. CASE d = c
    BY <1>1, <2>1
  <2>2. CASE \E t \in Seq(Byte) : d = Append(c, t)
    BY <1>1, <1>2, <2>2, TraceGrows
  <2> QED BY <2>1, <2>2 DEF c
<1>8. Leads(s \o w, Parser, r, d)
  BY <1>2, <1>6, <1>7, TraceConcat
<1>9. Leads(Stream, Parser, r, ClosedTexts)'
  <2> DEFINE u == s \o w
             p == Parser
  <2>1. Stream' = u /\ Parser' = p /\ ClosedTexts' = d /\ Leads(u, p, r, d)
    BY <1>3, <1>4, <1>8
  <2> HIDE DEF u, p
  <2> QED BY <2>1, LeadsNow
<1> QED BY <1>6, <1>9

LEMMA FrameKeepsDel ==
  ASSUME "open" \notin Lossy, NoDelimiters, NULL \notin Seq(Byte), DelInv,
         NEW p \in Text, NEW lost \in SUBSET Lossy,
         NEW i \in IF "text" \in lost THEN DOMAIN p ELSE {1}, writeSerial(p, lost, i)
  PROVE  /\ Starts(delivered, ClosedTexts)'
         /\ Live' => \E r \in State : Leads(Stream, Parser, r, ClosedTexts)' /\ GoodEnd(r, ClosedTexts')
<1> DEFINE f == OnTheLine(p, lost, i)
           t == f.text
           z == f.close
           rec == [text |-> t, closed |-> "close" \notin lost]
           c == ClosedTexts
           d == ClosedTexts'
           w == Marker("+") \o t \o z
<1>1. TypeOK /\ Starts(delivered, c) /\ c \in Texts /\ delivered \in Texts
      /\ sent \in Seq(SentRecord) /\ wire \in Seq(Byte)
  BY ClosedTyped DEF DelInv, TypeOK
<1>2. f.open = Marker("+") /\ t \in Seq(Byte) /\ z \in Seq(Byte) /\ Marker("+") \in Seq(Byte)
  BY LineTypes, MarkerShape
<1>3. /\ t # <<>> /\ \A k \in 1 .. Len(t) : t[k] \notin {"+", "-"}
      /\ z = IF "close" \in lost THEN Tail(Marker("-")) ELSE Marker("-")
  BY LineShape
<1>4. /\ wire' = wire \o f.open \o t \o z /\ sent' = Append(sent, rec)
      /\ UNCHANGED <<running, crashed, buffer, parser>>
  BY DEF writeSerial
<1> HIDE DEF f
<1>5. /\ rec \in SentRecord /\ rec.text = t /\ (rec.closed <=> "close" \notin lost)
  BY <1>2 DEF SentRecord
<1> HIDE DEF t, z, rec, c
<1>6. d = Closed(sent') /\ c = Closed(sent)
  BY DEF ClosedTexts, c
<1>7. /\ "close" \notin lost => d = Append(c, t)
      /\ "close" \in lost => d = c
  BY <1>1, <1>4, <1>5, <1>6, ClosedAppend
<1>8. \/ z = Marker("-") /\ d = Append(c, t)
      \/ z = Tail(Marker("-")) /\ d = c
  BY <1>3, <1>7
<1> HIDE DEF d
<1>9. d \in Texts
  <2>1. Append(c, t) \in Texts
    BY <1>1, <1>2 DEF Texts
  <2> QED BY <1>1, <1>8, <2>1
<1>10. Starts(delivered, d)
  BY <1>1, <1>2, <1>8, StartsGrow
<1>11. Starts(delivered, ClosedTexts)'
  <2>1. delivered' = delivered
    BY <1>4 DEF parser
  <2> QED BY <1>10, <2>1 DEF Starts, d
<1>12. ASSUME NEW q \in State, Starts(q.del, c), GoodEnd(q, c)
       PROVE  \E r \in State : Leads(w, q, r, d) /\ GoodEnd(r, d)
  <2>1. Undelimited(t) /\ EndsAs(t, z, c, d)
    BY <1>2, <1>3, <1>8 DEF Undelimited, EndsAs
  <2>2. FrameEnd(t, z, q, d)
    BY <1>1, <1>12, <2>1, FramePiece
  <2> QED BY <2>2 DEF FrameEnd
<1>13. w \in Seq(Byte) /\ wire' = wire \o w
  <2> DEFINE m == Marker("+")
             mt == m \o t
  <2>1. wire \in Seq(Byte) /\ m \in Seq(Byte) /\ t \in Seq(Byte) /\ z \in Seq(Byte)
    BY <1>1, <1>2
  <2> HIDE DEF m
  <2>2. mt \in Seq(Byte) /\ wire \o m \o t = wire \o mt
    BY <2>1, ConcatProperties, ConcatAssociative
  <2> HIDE DEF mt
  <2>3. mt \o z \in Seq(Byte) /\ (wire \o mt) \o z = wire \o (mt \o z)
    BY <2>1, <2>2, ConcatProperties, ConcatAssociative
  <2> QED BY <1>2, <1>4, <2>2, <2>3 DEF mt, m
<1> HIDE DEF w
<1>14. ASSUME Live'
       PROVE  \E r \in State : Leads(Stream, Parser, r, ClosedTexts)' /\ GoodEnd(r, ClosedTexts')
  <2>1. Live /\ UNCHANGED <<buffer, parser>>
    BY <1>4, <1>14 DEF Live
  <2>2. d = c \/ \E x \in Seq(Byte) : d = Append(c, x)
    BY <1>2, <1>8
  <2>3. ClosedTexts' = d
    BY DEF d
  <2> QED BY <1>9, <1>12, <1>13, <2>1, <2>2, <2>3, SentKeepsDel DEF c
<1> QED BY <1>11, <1>14

LEMMA SetupKeepsDel ==
  ASSUME NoDelimiters, NULL \notin Seq(Byte), DelInv, setup
  PROVE  /\ Starts(delivered, ClosedTexts)'
         /\ Live' => \E r \in State : Leads(Stream, Parser, r, ClosedTexts)' /\ GoodEnd(r, ClosedTexts')
<1>1. /\ wire' = wire \o Banner /\ Banner \in Seq(Byte) /\ ClosedTexts \in Texts
      /\ UNCHANGED <<running, crashed, buffer, parser>> /\ ClosedTexts' = ClosedTexts
  BY ByteTypes, ClosedTyped DEF setup, DelInv, ClosedTexts, Closed
<1>2. Starts(delivered, ClosedTexts)'
  BY <1>1 DEF DelInv, Starts, parser
<1>3. ASSUME Live'
      PROVE  \E r \in State : Leads(Stream, Parser, r, ClosedTexts)' /\ GoodEnd(r, ClosedTexts')
  <2>1. Live
    BY <1>1, <1>3 DEF Live
  <2>2. \A q \in State : Starts(q.del, ClosedTexts) /\ GoodEnd(q, ClosedTexts)
          => \E r \in State : Leads(Banner, q, r, ClosedTexts) /\ GoodEnd(r, ClosedTexts)
    BY <1>1, BannerPiece
  <2> QED BY <1>1, <2>1, <2>2, SentKeepsDel
<1> QED BY <1>2, <1>3

LEMMA ReadKeepsDel ==
  ASSUME DelInv, read_serial
  PROVE  /\ Starts(delivered, ClosedTexts)'
         /\ Live' => \E r \in State : Leads(Stream, Parser, r, ClosedTexts)' /\ GoodEnd(r, ClosedTexts')
<1>1. Live /\ UNCHANGED <<sent, parser, running, crashed>> /\ TypeOK
  BY DEF read_serial, DelInv
<1>2. Stream' = Stream
  <2>1. buffer' \o wire' = wire /\ buffer = <<>> /\ wire \in Seq(Byte)
    BY <1>1, ReadSplits DEF TypeOK
  <2>2. <<>> \o wire = wire
    BY <2>1, ConcatEmptySeq
  <2> QED BY <2>1, <2>2 DEF Stream
<1>3. Parser' = Parser /\ ClosedTexts' = ClosedTexts
  BY <1>1 DEF Parser, parser, ClosedTexts, Closed
<1>4. Starts(delivered, ClosedTexts)'
  BY <1>1, <1>3 DEF DelInv, Starts, parser
<1>5. PICK q \in State : Leads(Stream, Parser, q, ClosedTexts) /\ GoodEnd(q, ClosedTexts)
  BY <1>1 DEF DelInv
<1> DEFINE s == Stream
           p == Parser
           c == ClosedTexts
<1>6. Leads(s, p, q, c) /\ Stream' = s /\ Parser' = p /\ ClosedTexts' = c /\ GoodEnd(q, c)
  BY <1>2, <1>3, <1>5
<1> HIDE DEF s, p, c
<1>7. Leads(Stream, Parser, q, ClosedTexts)'
  BY <1>6, LeadsNow
<1> QED BY <1>4, <1>6, <1>7

\* One turn of parse_buffer is a step of the parser, unless the program crashes.
LEMMA ParserStep ==
  ASSUME TypeOK, parse_buffer, NEW r, Parses(Parser, Head(buffer), r)
  PROVE  /\ UNCHANGED controller /\ NextByte(Head(buffer))
         /\ Live' => Parser' = r
         /\ ~ Live' => delivered' = delivered
<1> DEFINE p == Parser
           b == Head(buffer)
<1>1. p.plus = plus_count /\ p.minus = minus_count /\ p.cur = current_message /\ p.del = delivered
      /\ p.bad = 0
  <2>1. Live
    BY DEF parse_buffer, CountPlus, new_message, CountMinus, close_message, StoreByte, NextByte
  <2> QED BY <2>1, ParserState
<1>2. Parser' = St(plus_count', minus_count', current_message', delivered', 0)
  BY DEF Parser
<1>3. UNCHANGED controller /\ NextByte(b)
  BY DEF parse_buffer, CountPlus, new_message, CountMinus, close_message, StoreByte, NextByte
<1>4. Parses(p, b, r)
  OBVIOUS
<1> HIDE DEF p
<1>5. CASE CountPlus
  <2>1. /\ b = "+" /\ plus_count + 1 < DELIM_LENGTH /\ plus_count' = plus_count + 1
        /\ UNCHANGED <<running, crashed, minus_count, current_message, delivered>>
    BY <1>5 DEF CountPlus, NextByte
  <2>2. r = St(plus_count + 1, minus_count, current_message, delivered, 0)
    BY <1>1, <1>4, <2>1 DEF Parses
  <2> QED BY <1>2, <1>3, <2>1, <2>2
<1>6. CASE new_message
  <2>1. /\ b = "+" /\ ~ (plus_count + 1 < DELIM_LENGTH) /\ plus_count' = 0 /\ current_message' = <<>>
        /\ UNCHANGED <<running, crashed, minus_count, delivered>>
    BY <1>6, DelimAssumption DEF new_message, NextByte
  <2>2. r = St(0, minus_count, <<>>, delivered, 0)
    BY <1>1, <1>4, <2>1 DEF Parses
  <2> QED BY <1>2, <1>3, <2>1, <2>2
<1>7. CASE CountMinus
  <2>1. /\ b = "-" /\ minus_count + 1 < DELIM_LENGTH /\ minus_count' = minus_count + 1
        /\ UNCHANGED <<running, crashed, plus_count, current_message, delivered>>
    BY <1>7 DEF CountMinus, NextByte
  <2>2. r = St(plus_count, minus_count + 1, current_message, delivered, 0)
    BY <1>1, <1>4, <2>1 DEF Parses
  <2> QED BY <1>2, <1>3, <2>1, <2>2
<1>8. CASE close_message
  <2> DEFINE d == IF current_message = NULL THEN delivered ELSE Append(delivered, current_message)
  <2>1. /\ b = "-" /\ ~ (minus_count + 1 < DELIM_LENGTH) /\ minus_count' = 0
        /\ current_message' = NULL /\ delivered' = d
        /\ UNCHANGED <<running, crashed, plus_count>>
    BY <1>8, DelimAssumption DEF close_message, NextByte
  <2>2. r = St(plus_count, 0, NULL, d, 0)
    BY <1>1, <1>4, <2>1 DEF Parses
  <2>3. Live'
    BY <1>3, <2>1 DEF Live, NextByte
  <2> HIDE DEF d
  <2> QED BY <1>2, <1>3, <2>1, <2>2, <2>3
<1>9. CASE StoreByte
  <2>1. /\ b \notin {"+", "-"} /\ plus_count' = 0 /\ minus_count' = 0
        /\ UNCHANGED <<running, delivered>>
    BY <1>9 DEF StoreByte, NextByte
  <2>2. CASE current_message = NULL
    <3>1. ~ Live'
      BY <1>9, <2>2 DEF StoreByte, Live
    <3> QED BY <1>3, <2>1, <3>1
  <2>3. CASE current_message # NULL
    <3>1. current_message' = Append(current_message, b)
      BY <1>9, <2>3 DEF StoreByte, NextByte
    <3>2. r = St(0, 0, Append(current_message, b), delivered, 0)
      BY <1>1, <1>4, <2>1, <2>3 DEF Parses
    <3> QED BY <1>2, <1>3, <2>1, <3>1, <3>2
  <2> QED BY <2>2, <2>3
<1> QED BY <1>5, <1>6, <1>7, <1>8, <1>9 DEF parse_buffer

LEMMA ParserKeepsDel ==
  ASSUME DelInv, parse_buffer
  PROVE  /\ Starts(delivered, ClosedTexts)'
         /\ Live' => \E r \in State : Leads(Stream, Parser, r, ClosedTexts)' /\ GoodEnd(r, ClosedTexts')
<1> DEFINE b == Head(buffer)
           s == Stream
           p == Parser
           c == ClosedTexts
           t == Tail(s)
<1>1. NextByte(b) /\ UNCHANGED controller /\ TypeOK
  BY DEF parse_buffer, CountPlus, new_message, CountMinus, close_message, StoreByte, NextByte, DelInv
<1>2. s \in Seq(Byte) /\ s # <<>> /\ s[1] = b /\ Stream' = t /\ Live /\ ClosedTexts' = c
  BY <1>1, StreamTail DEF controller, ClosedTexts, Closed
<1>3. PICK q \in State : Leads(s, p, q, c) /\ GoodEnd(q, c)
  BY <1>2 DEF DelInv
<1> HIDE DEF b, s, p, c
<1>4. PICK r \in State : Parses(p, s[1], r) /\ Starts(r.del, c) /\ Leads(t, r, q, c)
  BY <1>2, <1>3, TraceTail
<1>5. (Live' => Parser' = r) /\ (~ Live' => delivered' = delivered)
  BY <1>1, <1>2, <1>4, ParserStep DEF b, p
<1>6. Starts(delivered', c)
  <2>1. CASE Live'
    <3>1. Parser'.del = delivered'
      BY StateParts DEF Parser
    <3> QED BY <1>4, <1>5, <2>1, <3>1
  <2>2. CASE ~ Live'
    <3>1. Starts(delivered, c)
      BY DEF DelInv, c
    <3> QED BY <1>5, <2>2, <3>1
  <2> QED BY <2>1, <2>2
<1>7. Starts(delivered, ClosedTexts)'
  BY <1>2, <1>6 DEF Starts
<1>8. ASSUME Live' PROVE Leads(Stream, Parser, q, ClosedTexts)' /\ GoodEnd(q, ClosedTexts')
  <2> HIDE DEF t
  <2>1. Stream' = t /\ Parser' = r /\ ClosedTexts' = c /\ Leads(t, r, q, c)
    BY <1>2, <1>4, <1>5, <1>8
  <2>2. Leads(Stream, Parser, q, ClosedTexts)'
    BY <2>1, LeadsNow
  <2> QED BY <1>3, <2>1, <2>2
<1> QED BY <1>7, <1>8

LEMMA NextDel ==
  "open" \notin Lossy /\ NoDelimiters /\ NULL \notin Seq(Byte)
    /\ DelInv /\ [Next]_vars => DelInv'
<1> SUFFICES ASSUME "open" \notin Lossy, NoDelimiters, NULL \notin Seq(Byte), DelInv, [Next]_vars
             PROVE  DelInv'
  OBVIOUS
<1>1. TypeOK'
  BY NextType DEF DelInv
<1> DEFINE Sound == /\ Starts(delivered, ClosedTexts)'
                    /\ Live' => \E r \in State : /\ Leads(Stream, Parser, r, ClosedTexts)'
                                                 /\ GoodEnd(r, ClosedTexts')
<1>2. Sound
  <2>1. CASE \E p \in Text, lost \in SUBSET Lossy :
               \E i \in IF "text" \in lost THEN DOMAIN p ELSE {1} : writeSerial(p, lost, i)
    BY <2>1, FrameKeepsDel
  <2>2. CASE setup
    BY <2>2, SetupKeepsDel
  <2>3. CASE read_serial
    BY <2>3, ReadKeepsDel
  <2>4. CASE parse_buffer
    BY <2>4, ParserKeepsDel
  <2>5. CASE cleanup
    <3>1. ~ Live' /\ delivered' = delivered /\ ClosedTexts' = ClosedTexts
      BY <2>5 DEF cleanup, Live, controller, ClosedTexts, Closed
    <3> QED BY <3>1 DEF DelInv, Starts
  <2>6. CASE UNCHANGED vars
    <3> DEFINE s == Stream
               p == Parser
               c == ClosedTexts
    <3>1. /\ Stream' = s /\ Parser' = p /\ ClosedTexts' = c /\ (Live' => Live)
          /\ delivered' = delivered
      BY <2>6 DEF vars, controller, parser, Stream, Parser, ClosedTexts, Closed, Live
    <3>2. Starts(delivered, ClosedTexts)'
      BY <3>1 DEF DelInv, Starts
    <3>3. ASSUME Live' PROVE \E r \in State : /\ Leads(Stream, Parser, r, ClosedTexts)'
                                              /\ GoodEnd(r, ClosedTexts')
      <4>1. PICK q \in State : Leads(s, p, q, c) /\ GoodEnd(q, c)
        BY <3>1, <3>3 DEF DelInv
      <4> HIDE DEF s, p, c
      <4> QED BY <3>1, <4>1, LeadsNow
    <3> QED BY <3>2, <3>3
  <2> QED BY <2>1, <2>2, <2>3, <2>4, <2>5, <2>6 DEF Next, Controller, SerialThread
<1> QED BY <1>1, <1>2 DEF DelInv, GoodEnd

\* As long as no byte of an opening marker is lost and no text holds a delimiter, the
\* serial thread delivers the texts of the frames whose closing marker is whole, in
\* order and nothing else: a frame that lost a character or its end takes no other
\* frame with it, wherever read() cuts the stream.
THEOREM FramesDelivered ==
  ASSUME "open" \notin Lossy, NoDelimiters, NULL \notin Seq(Byte)
  PROVE  Spec => []DeliversClosedFrames
<1>1. Init => DelInv
  BY InitDel
<1>2. DelInv /\ [Next]_vars => DelInv'
  BY NextDel
<1>3. DelInv => DeliversClosedFrames
  <2> SUFFICES ASSUME DelInv PROVE DeliversClosedFrames
    OBVIOUS
  <2> DEFINE a == delivered
             c == ClosedTexts
  <2>1. a \in Seq(Seq(Byte)) /\ c \in Seq(Seq(Byte)) /\ Starts(a, c)
    BY ClosedTyped DEF DelInv, Texts
  <2>2. ASSUME Live, wire = <<>>, buffer = <<>> PROVE a = c
    <3>1. PICK q \in State : Leads(Stream, Parser, q, c) /\ GoodEnd(q, c)
      BY <2>2 DEF DelInv
    <3>2. Stream = <<>>
      <4>1. <<>> \o <<>> = <<>>
        OBVIOUS
      <4> QED BY <2>2, <4>1 DEF Stream
    <3>3. q = Parser
      <4>1. PICK f : Trace(f, Stream, Parser, q, c)
        BY <3>1 DEF Leads
      <4>2. Len(Stream) = 0
        BY <3>2
      <4> QED BY <4>1, <4>2 DEF Trace
    <3>4. q.bad = 0 /\ q.del = a
      BY <2>2, <3>3, ParserState DEF DelInv
    <3> QED BY <3>1, <3>4 DEF GoodEnd
  <2> HIDE DEF a, c
  <2>3. IsPrefix(a, c)
    <3>1. Len(a) <= Len(c) /\ Len(a) \in Nat /\ \A i \in 1 .. Len(a) : a[i] = c[i]
      BY <2>1 DEF Starts
    <3> DEFINE u == SubSeq(a, 1, Len(a))
               v == SubSeq(c, 1, Len(a))
    <3>2. \A i \in 1 .. Len(a) : a[i] \in Seq(Byte) /\ c[i] \in Seq(Byte)
      BY <2>1, <3>1
    <3>3. u \in Seq(Seq(Byte)) /\ Len(u) = Len(a) /\ \A i \in 1 .. Len(a) : u[i] = a[i]
      BY <2>1, <3>1, <3>2, SubSeqProperties
    <3>4. v \in Seq(Seq(Byte)) /\ Len(v) = Len(a) /\ \A i \in 1 .. Len(a) : v[i] = c[i]
      BY <2>1, <3>1, <3>2, SubSeqProperties
    <3> HIDE DEF u, v
    <3>5. u = v
      BY <3>1, <3>3, <3>4, SeqEqual
    <3> QED BY <3>1, <3>5 DEF IsPrefix, u, v
  <2> QED BY <2>2, <2>3 DEF DeliversClosedFrames, a, c
<1> QED BY <1>1, <1>2, <1>3, PTL DEF Spec

=============================================================================
