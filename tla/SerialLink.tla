----------------------------- MODULE SerialLink -----------------------------
(***************************************************************************)
(* The serial line between the sensor-network controller and the           *)
(* infotainment program: controller.ino prints framed base64 texts, and    *)
(* the serial thread (frinfo/serial_comm.c) reads the bytes in pieces and  *)
(* cuts them into messages with two delimiter counters.                    *)
(*                                                                         *)
(* A byte is "+", "-" or a character of a text.  The line may lose a byte  *)
(* of the parts of a frame that Lossy names, and a restart of the          *)
(* controller prints a line of its own between two frames.                 *)
(***************************************************************************)
EXTENDS Naturals, Sequences, SequencesExt

CONSTANTS
  Text,          \* the base64 texts the controller may send
  Banner,        \* what setup() prints before the first frame
  DELIM_LENGTH,  \* "+" in an opening marker, "-" in a closing one (4)
  READ_MAX,      \* bytes of one read(): sizeof(buffer), the size of a pointer (8)
  BUFFER_SIZE,   \* config->serial_buffer_size, the size of a message block
  NULL,          \* the null pointer
  Lossy,         \* parts of a frame that may lose a byte
  MAX_FRAMES,    \* bound: frames sent
  MAX_BOOTS      \* bound: restarts of the controller

Part == {"open", "text", "close"}

ASSUME DelimAssumption == DELIM_LENGTH \in Nat \ {0} /\ READ_MAX \in Nat \ {0}
ASSUME BoundAssumption == BUFFER_SIZE \in Nat /\ MAX_FRAMES \in Nat /\ MAX_BOOTS \in Nat
ASSUME LossyAssumption == Lossy \subseteq Part
ASSUME BannerAssumption == Banner \in Seq(STRING)
\* The base64 text of a message is never shorter than two characters and fits
\* the block that is allocated for it.
ASSUME TextAssumption ==
  \A p \in Text : p \in Seq(STRING) /\ Len(p) >= 2 /\ Len(p) <= BUFFER_SIZE /\ "-" \notin Range(p)

VARIABLES
  wire,             \* bytes on the line and in the terminal driver, oldest first
  sent,             \* history: the frames printed, as they reach the line
  boots,            \* restarts of the controller
  running,          \* the serial thread is in serial_comm_loop's while (1)
  crashed,          \* the program has written through a null pointer
  buffer,           \* what is left to parse of the bytes of the last read()
  plus_count,
  minus_count,
  current_message,  \* NULL, or the characters stored in the open message
  delivered         \* history: the messages given to msg_queue_write

controller == <<wire, sent, boots>>
parser == <<plus_count, minus_count, current_message, delivered>>
vars == <<controller, running, crashed, buffer, parser>>

Byte == {"+", "-"} \cup UNION {Range(p) : p \in Text \cup {Banner}}

TypeOK ==
  /\ wire \in Seq(Byte)
  /\ sent \in Seq([text : Seq(Byte), closed : BOOLEAN])
  /\ boots \in 0 .. MAX_BOOTS
  /\ running \in BOOLEAN /\ crashed \in BOOLEAN
  /\ buffer \in Seq(Byte) /\ Len(buffer) <= READ_MAX
  /\ plus_count \in 0 .. DELIM_LENGTH /\ (running => plus_count < DELIM_LENGTH)
  /\ minus_count \in 0 .. DELIM_LENGTH - 1
  /\ current_message \in Seq(Byte) \cup {NULL}
  /\ delivered \in Seq(Seq(Byte))

\* The serial port has just been opened, and no frame is under way.
Init ==
  /\ wire = <<>> /\ sent = <<>> /\ boots = 0
  /\ running = TRUE /\ crashed = FALSE
  /\ buffer = <<>>
  /\ plus_count = 0 /\ minus_count = 0
  /\ current_message = NULL
  /\ delivered = <<>>

-----------------------------------------------------------------------------
(* The controller and the line                                             *)

Marker(b) == [i \in 1 .. DELIM_LENGTH |-> b]

\* A frame with one byte missing from each of the parts in lost; i is the
\* place of the character lost from the text.
OnTheLine(p, lost, i) ==
  [open  |-> IF "open" \in lost THEN Tail(Marker("+")) ELSE Marker("+"),
   text  |-> IF "text" \in lost THEN RemoveAt(p, i) ELSE p,
   close |-> IF "close" \in lost THEN Tail(Marker("-")) ELSE Marker("-")]

\* writeSerial: "++++", the text, "----".
writeSerial(p, lost, i) ==
  LET f == OnTheLine(p, lost, i) IN
  /\ Len(sent) < MAX_FRAMES
  /\ wire' = wire \o f.open \o f.text \o f.close
  /\ sent' = Append(sent, [text |-> f.text, closed |-> "close" \notin lost])
  /\ UNCHANGED <<boots, running, crashed, buffer, parser>>

\* setup: the controller (re)starts and prints a line without delimiters.
setup ==
  /\ boots < MAX_BOOTS
  /\ boots' = boots + 1
  /\ wire' = wire \o Banner
  /\ UNCHANGED <<sent, running, crashed, buffer, parser>>

Controller ==
  \/ \E p \in Text, lost \in SUBSET Lossy :
       \E i \in IF "text" \in lost THEN DOMAIN p ELSE {1} : writeSerial(p, lost, i)
  \/ setup

-----------------------------------------------------------------------------
(* The serial thread                                                       *)

Live == running /\ ~ crashed

\* Fault: what has arrived beyond one read() is flushed.
ReadAndFlush ==
  /\ Live /\ buffer = <<>>
  /\ \E n \in 1 .. READ_MAX : n <= Len(wire) /\ buffer' = SubSeq(wire, 1, n)
  /\ wire' = <<>>
  /\ UNCHANGED <<sent, boots, running, crashed, parser>>

\* read_serial: some of the bytes that have arrived, at most READ_MAX.  A read
\* that finds none returns EAGAIN and changes nothing.
read_serial ==
  /\ Live /\ buffer = <<>>
  /\ \E n \in 1 .. READ_MAX :
       /\ n <= Len(wire)
       /\ buffer' = SubSeq(wire, 1, n)
       /\ wire' = SubSeq(wire, n + 1, Len(wire))
  /\ UNCHANGED <<sent, boots, running, crashed, parser>>

\* One turn of the loop of parse_buffer.
NextByte(b) == Live /\ buffer # <<>> /\ Head(buffer) = b /\ buffer' = Tail(buffer)

CountPlus ==
  /\ NextByte("+") /\ plus_count + 1 < DELIM_LENGTH
  /\ plus_count' = plus_count + 1
  /\ UNCHANGED <<controller, running, crashed, minus_count, current_message, delivered>>

\* Faults: plus_count is not reset; an open message is continued.
OpenUncounted ==
  /\ NextByte("+") /\ plus_count + 1 = DELIM_LENGTH
  /\ plus_count' = plus_count + 1
  /\ current_message' = <<>>
  /\ UNCHANGED <<controller, running, crashed, minus_count, delivered>>

OpenContinued ==
  /\ NextByte("+") /\ plus_count + 1 = DELIM_LENGTH
  /\ plus_count' = 0
  /\ current_message' = IF current_message = NULL THEN <<>> ELSE current_message
  /\ UNCHANGED <<controller, running, crashed, minus_count, delivered>>

\* new_message: a message that is still open is freed.
new_message ==
  /\ NextByte("+") /\ plus_count + 1 = DELIM_LENGTH
  /\ plus_count' = 0
  /\ current_message' = <<>>
  /\ UNCHANGED <<controller, running, crashed, minus_count, delivered>>

CountMinus ==
  /\ NextByte("-") /\ minus_count + 1 < DELIM_LENGTH
  /\ minus_count' = minus_count + 1
  /\ UNCHANGED <<controller, running, crashed, plus_count, current_message, delivered>>

\* close_message: a closing marker outside a message is only logged.
close_message ==
  /\ NextByte("-") /\ minus_count + 1 = DELIM_LENGTH
  /\ minus_count' = 0
  /\ current_message' = NULL
  /\ delivered' = IF current_message = NULL THEN delivered
                  ELSE Append(delivered, current_message)
  /\ UNCHANGED <<controller, running, crashed, plus_count>>

\* Fault: only the counter of the opening marker is reset.
StoreUncounted ==
  \E b \in Byte \ {"+", "-"} :
    /\ NextByte(b)
    /\ plus_count' = 0 /\ UNCHANGED minus_count
    /\ IF current_message = NULL
       THEN crashed' = TRUE /\ UNCHANGED current_message
       ELSE current_message' = Append(current_message, b) /\ UNCHANGED crashed
    /\ UNCHANGED <<controller, running, delivered>>

\* Any other byte goes to the open message.
StoreByte ==
  \E b \in Byte \ {"+", "-"} :
    /\ NextByte(b)
    /\ plus_count' = 0 /\ minus_count' = 0
    /\ \/ /\ current_message # NULL
          /\ current_message' = Append(current_message, b)
          /\ UNCHANGED crashed
       \/ /\ current_message = NULL
          /\ crashed' = TRUE
          /\ UNCHANGED current_message
    /\ UNCHANGED <<controller, running, delivered>>

parse_buffer == CountPlus \/ new_message \/ CountMinus \/ close_message \/ StoreByte

\* The loop ends: shutdown is seen or read() fails before a byte is parsed, or
\* new_message finds no memory, and the counter stays where it is.  cleanup frees
\* the buffer and the open message.
cleanup ==
  /\ Live
  /\ \/ buffer = <<>> /\ UNCHANGED plus_count
     \/ /\ buffer # <<>> /\ Head(buffer) = "+" /\ plus_count + 1 = DELIM_LENGTH
        /\ plus_count' = plus_count + 1
  /\ running' = FALSE
  /\ buffer' = <<>>
  /\ current_message' = NULL
  /\ UNCHANGED <<controller, crashed, minus_count, delivered>>

SerialThread == read_serial \/ parse_buffer

Next == Controller \/ SerialThread \/ cleanup

Spec == Init /\ [][Next]_vars

\* serial_comm_loop polls the port without blocking.
FairSpec == Spec /\ WF_vars(SerialThread)

-----------------------------------------------------------------------------
(* Properties                                                              *)

\* The texts of the frames whose closing marker is whole.
Closed(frames) ==
  LET texts[n \in 0 .. Len(frames)] ==
        IF n = 0 THEN <<>>
        ELSE IF frames[n].closed THEN Append(texts[n - 1], frames[n].text)
        ELSE texts[n - 1]
  IN  texts[Len(frames)]

ClosedTexts == Closed(sent)

\* However read() cuts the stream into pieces and whichever frames lose their
\* closing marker or a character, serial_comm.c delivers exactly the texts of
\* the frames whose closing marker is whole, in order, and a damaged frame
\* takes no other frame with it.
DeliversClosedFrames ==
  /\ IsPrefix(delivered, ClosedTexts)
  /\ Live /\ wire = <<>> /\ buffer = <<>> => delivered = ClosedTexts

\* parse_buffer does not check current_message_index: a message stays inside
\* its block because each opening marker starts a new one.
MessageFitsBlock == current_message # NULL => Len(current_message) <= BUFFER_SIZE

\* serial_comm.c promises of parse_buffer that it returns 0 or 1.
ParserReturns == ~ crashed

\* A frame that was closed is delivered, unless the serial thread ends.
FramesArrive ==
  \A k \in 1 .. MAX_FRAMES : Len(ClosedTexts) >= k ~> (Len(delivered) >= k \/ ~ Live)

=============================================================================
