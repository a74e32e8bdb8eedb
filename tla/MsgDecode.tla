------------------------------ MODULE MsgDecode ------------------------------
(***************************************************************************)
(* The contents of the messages between the serial thread and the user     *)
(* interface: frinfo/serial_comm.c stores the characters of a message in a *)
(* block from malloc and never terminates them, frinfo/msg_handler.c takes *)
(* the block for a string, decodes it and copies the vehicle status.       *)
(*                                                                         *)
(* What arrives between two markers is the text of a frame or whatever the *)
(* line has made of one; it is stored in one step (markers, lost bytes and *)
(* the index are in SerialLink).  The queue is one that does not overflow  *)
(* (the one that does is in MsgQueue).  Where the decoder leaves its       *)
(* buffer the behaviour of the program is undefined, and the user          *)
(* interface of the model stops.                                           *)
(***************************************************************************)
EXTENDS Integers, Sequences, SequencesExt

CONSTANTS
  Frame,    \* what the controller encodes: length, type, contents
  Damaged,  \* what may arrive in the place of its text
  Block,    \* the blocks malloc finds
  SIZE,     \* config->serial_buffer_size: of a block, and of decoded_msg
  Foreign,  \* what the rest of the program leaves in a block
  Behind    \* what lies behind a block, up to the first zero byte

\* A character is the number base64 gives it, or one of these.
Sextet == 0 .. 63
PLUS == 62   \* also the character of the opening marker
PAD == 64
NUL == 65
NOT_BASE64 == 66
Char == 0 .. NOT_BASE64
Text == Seq(Char \ {NUL})

Byte == 0 .. 255
Unknown == 256  \* no byte: what memory holds that nobody has set

MSG_TYPE_VEHICLE_STATUS == 1
HEADER == 2  \* sizeof(struct msg_header)
STATUS == 4  \* sizeof(struct vehicle_status)

ASSUME SizeAssumption == SIZE \in Nat /\ SIZE >= HEADER + STATUS
\* The length byte is right, and there is a type.
ASSUME FrameAssumption ==
  \A f \in Frame : f \in Seq(Byte) /\ f[1] = Len(f) /\ Len(f) >= HEADER
                   /\ 4 * ((Len(f) + 2) \div 3) <= SIZE
\* parse_buffer stays in its block: MessageFitsBlock of SerialLink.
ASSUME DamagedAssumption == \A t \in Damaged : t \in Text /\ Len(t) <= SIZE
ASSUME MemoryAssumption ==
  /\ Foreign \subseteq [1 .. SIZE -> Char]
  /\ Behind \subseteq Text /\ Behind # {}

VARIABLES
  memory,          \* the characters of each block
  queue,           \* the incoming queue: a block, and the text stored in it
  held,            \* history: the most characters a text has filled of each block
  ui,              \* the user interface: drawing, handling, overrun
  decoded_msg,     \* the buffer of msg_handler_handle
  vehicle_status

vars == <<memory, queue, held, ui, decoded_msg, vehicle_status>>

Zeroed == [i \in 1 .. SIZE |-> NUL]
Uninitialised == [i \in 1 .. SIZE |-> Unknown]

Queued == {q.block : q \in Range(queue)}

Init ==
  /\ memory = [b \in Block |-> Zeroed]
  /\ queue = <<>>
  /\ held = [b \in Block |-> 0]
  /\ ui = "drawing"
  /\ decoded_msg = Uninitialised
  /\ vehicle_status = <<0, 0, 0, 0>>

-----------------------------------------------------------------------------

\* Three bytes in four characters.
Group(a, b, c) ==
  <<a \div 4, (a % 4) * 16 + b \div 16, (b % 16) * 4 + c \div 64, c % 64>>

\* A last group of one or two bytes is filled up with padding.
encode(f) ==
  LET byte(i) == IF i <= Len(f) THEN f[i] ELSE 0
      group(i) == Group(byte(3 * i + 1), byte(3 * i + 2), byte(3 * i + 3))
  IN  [k \in 1 .. 4 * ((Len(f) + 2) \div 3) |->
         LET i == (k - 1) \div 4
             r == ((k - 1) % 4) + 1
         IN  IF 3 * i + r - 1 <= Len(f) THEN group(i)[r] ELSE PAD]

\* A plus is counted for the marker and never stored: a frame whose text has one
\* arrives damaged.
Arrival == {t \in {encode(f) : f \in Frame} : PLUS \notin Range(t)} \cup Damaged

\* The text over what the block held.
Stored(t, b) == [i \in 1 .. SIZE |-> IF i <= Len(t) THEN t[i] ELSE memory[b][i]]

\* parse_buffer: a block for the new message, its characters, onto the queue.
parse_buffer(t, b) ==
  /\ b \notin Queued
  /\ memory' = [memory EXCEPT ![b] = Stored(t, b)]
  /\ queue' = Append(queue, [block |-> b, text |-> t])
  /\ held' = [held EXCEPT ![b] = IF @ < Len(t) THEN Len(t) ELSE @]
  /\ UNCHANGED <<ui, decoded_msg, vehicle_status>>

\* The rest of the program uses a block in between.
Reuse(b, chars) ==
  /\ b \notin Queued
  /\ memory' = [memory EXCEPT ![b] = chars]
  /\ held' = [held EXCEPT ![b] = IF chars = Zeroed THEN 0 ELSE SIZE]
  /\ UNCHANGED <<queue, ui, decoded_msg, vehicle_status>>

-----------------------------------------------------------------------------

\* Mutant: the last character before the terminator is not counted.
strlenShort(b) ==
  LET n == SelectInSeq(memory[b], LAMBDA c : c = NUL)
  IN  {IF n = 0 THEN memory[b] ELSE SubSeq(memory[b], 1, n - 2)}

\* The characters that strlen counts: without a terminator in the block it goes on
\* into the memory behind.
strlen(b) ==
  LET n == SelectInSeq(memory[b], LAMBDA c : c = NUL)
  IN  IF n = 0 THEN {memory[b] \o v : v \in Behind} ELSE {SubSeq(memory[b], 1, n - 1)}

\* Padding at the end of a text.
Pads(t) == IF t[Len(t)] # PAD THEN 0 ELSE IF t[Len(t) - 1] # PAD THEN 1 ELSE 2

\* Three bytes in the four characters behind the first i groups.
Bytes(t, i) ==
  LET a == t[4 * i + 1]
      b == t[4 * i + 2]
      c == t[4 * i + 3]
      d == t[4 * i + 4]
  IN  <<a * 4 + b \div 16, (b % 16) * 16 + c \div 4, (c % 4) * 64 + d>>

Decode(t) ==
  [p \in 1 .. 3 * (Len(t) \div 4) - Pads(t) |-> Bytes(t, (p - 1) \div 3)[((p - 1) % 3) + 1]]

\* Mutant: what is missing of the last group is read as zero bits.
tb64decCompleted(t) ==
  LET u == t \o [i \in 1 .. (4 - (Len(t) % 4)) % 4 |-> 0]
  IN  IF Len(u) > 0 /\ \A i \in 1 .. Len(u) - Pads(u) : u[i] \in Sextet
      THEN Decode(u) ELSE <<>>

\* The bytes, none when the text is not whole groups of base64.
tb64dec(t) ==
  IF Len(t) > 0 /\ Len(t) % 4 = 0 /\ \A i \in 1 .. Len(t) - Pads(t) : t[i] \in Sextet
  THEN Decode(t) ELSE <<>>

\* Mutant: a buffer for the one message there is, without its terminator.
FitsStatus(t) == 3 * (Len(t) \div 4) + 1 <= HEADER + STATUS

\* The decoder writes whole groups and validate_msg a terminator.
Fits(t) == 3 * (Len(t) \div 4) + 1 <= SIZE

\* Mutant: whatever decodes is accepted.
AcceptsAny(bytes) == bytes # <<>>

\* The two checks of validate_msg.
Accepts(bytes) == bytes # <<>> /\ bytes[1] = Len(bytes)

\* decoded_msg[ret] = 0; the bytes behind it stay what they were.
Decoded(bytes) ==
  [i \in 1 .. SIZE |-> IF i <= Len(bytes) THEN bytes[i]
                       ELSE IF i = Len(bytes) + 1 THEN 0 ELSE decoded_msg[i]]

\* Mutant: every message is taken for a status.
IsStatusAlways(msg) == TRUE

IsStatus(msg) == msg[2] = MSG_TYPE_VEHICLE_STATUS

\* decoded_msg is an array on the stack, set by nobody.
msg_handler_handle ==
  /\ ui = "drawing" /\ ui' = "handling"
  /\ decoded_msg' = Uninitialised
  /\ UNCHANGED <<memory, queue, held, vehicle_status>>

\* One turn of its loop: validate_msg, process_msg, free.
HandleMessage ==
  /\ ui = "handling" /\ queue # <<>>
  /\ \E t \in strlen(Head(queue).block) :
       LET bytes == tb64dec(t) IN
       /\ Fits(t)
       /\ decoded_msg' = IF bytes = <<>> THEN Uninitialised ELSE Decoded(bytes)
       /\ vehicle_status' = IF Accepts(bytes) /\ IsStatus(decoded_msg')
                            THEN SubSeq(decoded_msg', HEADER + 1, HEADER + STATUS)
                            ELSE vehicle_status
  /\ queue' = Tail(queue)
  /\ UNCHANGED <<memory, held, ui>>

Overrun ==
  /\ ui = "handling" /\ queue # <<>>
  /\ \E t \in strlen(Head(queue).block) : ~ Fits(t)
  /\ ui' = "overrun"
  /\ UNCHANGED <<memory, queue, held, decoded_msg, vehicle_status>>

QueueEmpty ==
  /\ ui = "handling" /\ queue = <<>> /\ ui' = "drawing"
  /\ decoded_msg' = Uninitialised
  /\ UNCHANGED <<memory, queue, held, vehicle_status>>

Next ==
  \/ \E t \in Arrival, b \in Block : parse_buffer(t, b)
  \/ \E b \in Block, chars \in Foreign : Reuse(b, chars)
  \/ msg_handler_handle \/ HandleMessage \/ Overrun \/ QueueEmpty

Spec == Init /\ [][Next]_vars

-----------------------------------------------------------------------------

(***************************************************************************)
(* What a block held before never becomes part of a frame that arrived     *)
(* whole: when validate_msg accepts it, it decodes to that frame and       *)
(* nothing else, though strlen may read on into older characters.          *)
(***************************************************************************)
AcceptedAsSent ==
  \A q \in Range(queue) : \A f \in Frame, t \in strlen(q.block) :
    q.text = encode(f) /\ Accepts(tb64dec(t)) => tb64dec(t) = f

\* A text at least as long as everything its block has held since it was zero.
Longest(q) == Len(q.text) >= held[q.block] /\ Len(q.text) < SIZE

(***************************************************************************)
(* Such a text is accepted when it is a whole frame: whole frames of one   *)
(* length, which is what the controller sends, never spoil each other.     *)
(***************************************************************************)
LongestIsAccepted ==
  \A q \in Range(queue) : \A f \in Frame, t \in strlen(q.block) :
    q.text = encode(f) /\ Longest(q) => Accepts(tb64dec(t))

(***************************************************************************)
(* Such a text is rejected when it has lost one, two or three characters,  *)
(* whatever they were: only stale characters can hide the loss.            *)
(***************************************************************************)
DamageIsNoticed ==
  \A q \in Range(queue) : \A t \in strlen(q.block) :
    Len(q.text) % 4 # 0 /\ Longest(q) => ~ Accepts(tb64dec(t))

(***************************************************************************)
(* When a frame that arrived whole changes the vehicle status, it is a     *)
(* status frame, and as many bytes of the status as it has are its own:    *)
(* none is of an older message, of the terminator or of the stack.         *)
(***************************************************************************)
StatusIsSent ==
  [][\A f \in Frame :
       vehicle_status' # vehicle_status /\ Head(queue).text = encode(f) =>
         /\ f[2] = MSG_TYPE_VEHICLE_STATUS
         /\ \A i \in 1 .. STATUS : HEADER + i <= Len(f) => vehicle_status'[i] = f[HEADER + i]]_vars

(***************************************************************************)
(* Although strlen knows no bound, decoded_msg is large enough for what is *)
(* in a block that no text and nobody else has filled to its end.          *)
(***************************************************************************)
BufferSuffices == [][ui # "overrun" /\ ui' = "overrun" => held[Head(queue).block] = SIZE]_vars

=============================================================================
