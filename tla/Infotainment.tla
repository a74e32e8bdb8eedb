---------------------------- MODULE Infotainment ----------------------------
(***************************************************************************)
(* The infotainment program as a whole (frinfo/frinfo.c, ui.c,             *)
(* msg_handler.c, and the life of the thread of serial_comm.c): the main   *)
(* thread opens the shared structure, starts the serial thread, runs the   *)
(* user interface, which drains the incoming queue once per drawn frame,   *)
(* and at the end asks the serial thread to stop, joins it and releases    *)
(* everything.                                                             *)
(*                                                                         *)
(* The incoming queue is the FIFO of OverwritingFifo, which MsgQueue       *)
(* implements; the bytes between the delimiters of a message are the       *)
(* subject of SerialLink and are left out here.  Messages are numbered in  *)
(* the order in which the controller sends them.                           *)
(***************************************************************************)
EXTENDS Naturals, Sequences, FiniteSets

CONSTANTS
  Faults,        \* the calls that may fail
  Valid,         \* the messages validate_msg accepts
  MAX_MESSAGES,  \* slots of a message queue
  MAX_SENT       \* bound: messages that arrive

Call == {"frinfo_open", "pthread_create", "malloc", "malloc_buffer",
         "open", "tcsetattr", "read"}
ASSUME FaultsAssumption == Faults \subseteq Call
ASSUME BoundsAssumption ==
  MAX_MESSAGES \in Nat \ {0} /\ MAX_SENT \in Nat /\ Valid \subseteq 1 .. MAX_SENT

VARIABLES
  main,              \* where the main thread is
  result,            \* what frinfo_start returned (0 or 1), 2 before it returns
  opened,            \* frinfo_open returned FUNC_SUCCESS
  queues,            \* state of fi.incoming_msg_queue and fi.outgoing_msg_queue
  vehicle_status,    \* state of fi.vehicle_status
  shutdown,          \* fi.shutdown
  serial_connected,  \* fi.serial_connected
  status,            \* number of the message in *fi.vehicle_status, 0 at first
  serial,            \* where the serial thread is
  serial_fd,         \* the static serial_fd
  buffer,            \* the static buffer is allocated
  current_message,   \* the open message, 0 for NULL
  received,          \* messages whose opening marker has been read so far
  fds,               \* the descriptors that are open, with their owner
  stolen,            \* history: a thread has closed a descriptor of another owner
  crashed,           \* an access through a pointer that is null or no longer valid
  fifo, pending, taken  \* the incoming queue: see OverwritingFifo

Incoming == INSTANCE OverwritingFifo
              WITH Thread <- {"main", "serial"}, Msg <- 1 .. MAX_SENT,
                   Capacity <- MAX_MESSAGES, NoMsg <- 0

queue == <<fifo, pending, taken>>
shared == <<queues, vehicle_status, opened>>
serialMemory == <<buffer, current_message, received>>
files == <<serial_fd, fds, stolen>>
vars == <<main, result, shared, shutdown, serial_connected, status, serial,
          files, serialMemory, crashed, queue>>

\* "raw": allocated, with no usable lock.  "garbage": never assigned.
QueueState == {"garbage", "null", "raw", "open"}
Fd == 0 .. 2
NoFd == 3  \* stands for the -1 of a failed open()

TypeOK ==
  /\ main \in {"open", "create", "window", "ui", "drain", "handle", "stop",
               "join", "close", "done"}
  /\ result \in 0 .. 2 /\ opened \in BOOLEAN
  /\ queues \in [{"incoming", "outgoing"} -> QueueState]
  /\ vehicle_status \in {"garbage", "null", "allocated"}
  /\ shutdown \in BOOLEAN /\ serial_connected \in BOOLEAN
  /\ status \in 0 .. MAX_SENT
  /\ serial \in {"none", "start", "port", "loop", "write", "read", "deliver",
                 "cleanup", "ended"}
  /\ serial_fd \in Fd \cup {NoFd}
  /\ buffer \in BOOLEAN
  /\ current_message \in 0 .. MAX_SENT /\ received \in 0 .. MAX_SENT
  /\ fds \in [Fd -> {"free", "stdin", "serial", "window"}]
  /\ stolen \in BOOLEAN /\ crashed \in BOOLEAN
  /\ Incoming!TypeOK

Init ==
  /\ main = "open" /\ result = 2 /\ opened = FALSE
  /\ queues = [q \in {"incoming", "outgoing"} |-> "garbage"]
  /\ vehicle_status = "garbage"
  /\ shutdown = FALSE /\ serial_connected = FALSE /\ status = 0
  /\ serial = "none" /\ serial_fd = 0
  /\ buffer = FALSE /\ current_message = 0 /\ received = 0
  /\ fds = [f \in Fd |-> IF f = 0 THEN "stdin" ELSE "free"]
  /\ stolen = FALSE /\ crashed = FALSE
  /\ Incoming!Init

\* open() gives the lowest free descriptor.
OpenFd(f, owner) ==
  /\ fds[f] = "free" /\ \A g \in Fd : fds[g] = "free" => f <= g
  /\ fds' = [fds EXCEPT ![f] = owner]

\* What close(f) leaves behind, and whether it hits somebody else's descriptor.
Closed(f) == [fds EXCEPT ![f] = "free"]
Foreign(f, owner) == fds[f] \notin {"free", owner}

Live == ~ crashed /\ main # "done"
Main(from, to) == Live /\ main = from /\ main' = to
Serial(from, to) == Live /\ serial = from /\ serial' = to

-----------------------------------------------------------------------------
(* The main thread: frinfo_start                                           *)

QueueStates(in, out) == [incoming |-> in, outgoing |-> out]

\* Each way frinfo_open can fail, in the order of its calls, and what it leaves.
FailedOpen ==
  { <<QueueStates("null", "garbage"), "garbage">>,  \* malloc of the incoming queue
    <<QueueStates("raw", "garbage"), "garbage">>,   \* its msg_queue_open
    <<QueueStates("open", "null"), "garbage">>,     \* malloc of the outgoing queue
    <<QueueStates("raw", "raw"), "garbage">>,       \* its msg_queue_open
    <<QueueStates("raw", "raw"), "null">> }         \* malloc of the vehicle status

\* frinfo_start goes on whatever frinfo_open returned.
frinfo_open ==
  /\ Main("open", "create")
  /\ \/ /\ queues' = QueueStates("open", "open") /\ vehicle_status' = "allocated"
        /\ opened' = TRUE
     \/ /\ "frinfo_open" \in Faults
        /\ \E left \in FailedOpen : queues' = left[1] /\ vehicle_status' = left[2]
        /\ UNCHANGED opened
  /\ UNCHANGED <<result, shutdown, serial_connected, status, serial, files,
                 serialMemory, crashed, queue>>

pthread_create ==
  /\ \/ /\ Main("create", "window") /\ serial' = "start"
        /\ UNCHANGED result
     \/ /\ "pthread_create" \in Faults
        /\ Main("create", "done") /\ result' = 1
        /\ UNCHANGED serial
  /\ UNCHANGED <<shared, shutdown, serial_connected, status, files, serialMemory,
                 crashed, queue>>

\* The window needs a descriptor for the connection to the display.
InitWindow ==
  /\ Main("window", "ui")
  /\ \E f \in Fd : OpenFd(f, "window")
  /\ UNCHANGED <<result, shared, shutdown, serial_connected, status, serial,
                 serial_fd, stolen, serialMemory, crashed, queue>>

\* The loop condition of ui_loop: the user may close the window at any time.
ui_loop ==
  /\ \/ Main("ui", "stop")
     \/ ~ shutdown /\ Main("ui", "drain")
  /\ UNCHANGED <<result, shared, shutdown, serial_connected, status, serial, files,
                 serialMemory, crashed, queue>>

\* msg_queue_read in msg_handler_handle; the call needs a queue with a lock.
ReadMessage ==
  /\ \/ /\ queues["incoming"] = "open"
        /\ Incoming!Read("main")
        /\ Main("drain", "handle")
        /\ UNCHANGED crashed
     \/ /\ queues["incoming"] # "open"
        /\ Main("drain", "drain")
        /\ crashed' = TRUE
        /\ UNCHANGED queue
  /\ UNCHANGED <<result, shared, shutdown, serial_connected, status, serial, files,
                 serialMemory>>

\* No message: the frame is drawn.  A message: validate_msg, process_msg, free.
HandleMessage ==
  LET m == taken["main"][1] IN
  /\ Main("handle", IF m = 0 THEN "ui" ELSE "drain")
  /\ status' = IF m \in Valid THEN m ELSE status
  /\ Incoming!Done("main")
  /\ UNCHANGED <<result, shared, shutdown, serial_connected, serial, files,
                 serialMemory, crashed>>

\* Fault: the serial thread is not told to stop.
StopSilently ==
  /\ Main("stop", "join")
  /\ fds' = [f \in Fd |-> IF fds[f] = "window" THEN "free" ELSE fds[f]]
  /\ UNCHANGED <<result, shared, shutdown, serial_connected, status, serial, serial_fd,
                 stolen, serialMemory, crashed, queue>>

\* CloseWindow, then fi.shutdown = true.
Stop ==
  /\ Main("stop", "join")
  /\ shutdown' = TRUE
  /\ fds' = [f \in Fd |-> IF fds[f] = "window" THEN "free" ELSE fds[f]]
  /\ UNCHANGED <<result, shared, serial_connected, status, serial, serial_fd, stolen,
                 serialMemory, crashed, queue>>

\* Fault: nobody waits for the serial thread.
NoJoin ==
  /\ Main("join", "close")
  /\ UNCHANGED <<result, shared, shutdown, serial_connected, status, serial, files,
                 serialMemory, crashed, queue>>

pthread_join ==
  /\ Main("join", "close")
  /\ serial = "ended"
  /\ UNCHANGED <<result, shared, shutdown, serial_connected, status, serial, files,
                 serialMemory, crashed, queue>>

\* frinfo_close: a null pointer is skipped, any other is taken as good.  A pointer
\* that was never assigned may happen to be null.
frinfo_close ==
  /\ \/ /\ Main("close", "done")
        /\ \A q \in DOMAIN queues : queues[q] # "raw"
        /\ queues' = QueueStates("null", "null") /\ vehicle_status' = "null"
        /\ result' = 0
        /\ fifo' = <<>>
        /\ UNCHANGED <<opened, crashed>>
     \/ /\ Main("close", "close")
        /\ \/ \E q \in DOMAIN queues : queues[q] \notin {"null", "open"}
           \/ vehicle_status = "garbage"
        /\ crashed' = TRUE
        /\ UNCHANGED <<shared, result, fifo>>
  /\ UNCHANGED <<shutdown, serial_connected, status, serial, files, serialMemory,
                 pending, taken>>

MainThread ==
  \/ frinfo_open \/ pthread_create \/ InitWindow \/ ui_loop \/ ReadMessage
  \/ HandleMessage \/ Stop \/ pthread_join \/ frinfo_close

-----------------------------------------------------------------------------
(* The serial thread: serial_comm_loop                                     *)

AllocateBuffer ==
  /\ \/ Serial("start", "port") /\ buffer' = TRUE
     \/ "malloc_buffer" \in Faults /\ Serial("start", "cleanup") /\ UNCHANGED buffer
  /\ UNCHANGED <<main, result, shared, shutdown, serial_connected, status, files,
                 current_message, received, crashed, queue>>

\* open_serial: a port that opens and cannot be set up is closed again, and
\* serial_fd keeps its number.
open_serial ==
  /\ \/ /\ Serial("port", "loop")
        /\ serial_fd' \in Fd /\ OpenFd(serial_fd', "serial")
        /\ serial_connected' = TRUE
     \/ /\ "open" \in Faults
        /\ Serial("port", "cleanup")
        /\ serial_fd' = NoFd
        /\ serial_connected' = FALSE
        /\ UNCHANGED fds
     \/ /\ "tcsetattr" \in Faults
        /\ Serial("port", "cleanup")
        /\ serial_fd' \in {f \in Fd : fds[f] = "free" /\ \A g \in 0 .. f - 1 : fds[g] # "free"}
        /\ serial_connected' = FALSE
        /\ UNCHANGED fds
  /\ UNCHANGED <<main, result, shared, shutdown, status, stolen, serialMemory,
                 crashed, queue>>

\* The top of the loop.
CheckShutdown ==
  /\ Serial("loop", IF shutdown THEN "cleanup" ELSE "write")
  /\ UNCHANGED <<main, result, shared, shutdown, serial_connected, status, files,
                 serialMemory, crashed, queue>>

\* write_serial: reads the outgoing queue, which nobody writes to.
write_serial ==
  /\ \/ queues["outgoing"] = "open" /\ Serial("write", "read") /\ UNCHANGED crashed
     \/ queues["outgoing"] # "open" /\ Serial("write", "write") /\ crashed' = TRUE
  /\ UNCHANGED <<main, result, shared, shutdown, serial_connected, status, files,
                 serialMemory, queue>>

\* read_serial, as far as messages are concerned: the bytes that were read hold
\* no marker, or the opening one of the next message, or the closing one.
ReadNothing == Serial("read", "loop") /\ UNCHANGED <<current_message, received, pending>>

ReadOpening ==
  /\ Serial("read", "loop")
  /\ received < MAX_SENT
  /\ received' = received + 1
  /\ current_message' = received + 1
  /\ UNCHANGED pending

\* close_message hands the message over to msg_queue_write.
ReadClosing ==
  /\ Serial("read", "deliver")
  /\ current_message # 0
  /\ pending' = [pending EXCEPT !["serial"] = current_message]
  /\ current_message' = 0
  /\ UNCHANGED received

\* read() fails, or new_message has no memory left.
ReadFails ==
  /\ {"read", "malloc"} \cap Faults # {}
  /\ Serial("read", "cleanup")
  /\ UNCHANGED <<received, pending>>
  /\ \/ "read" \in Faults /\ UNCHANGED current_message
     \/ "malloc" \in Faults /\ current_message' = 0

read_serial ==
  /\ ReadNothing \/ ReadOpening \/ ReadClosing \/ ReadFails
  /\ UNCHANGED <<main, result, shared, shutdown, serial_connected, status, files,
                 buffer, crashed, fifo, taken>>

\* msg_queue_write takes effect.  The incoming queue is open: frinfo_open opens it
\* before the outgoing queue, which this turn of the loop has already used.
Deliver ==
  /\ Serial("deliver", "loop")
  /\ Incoming!Write("serial")
  /\ UNCHANGED <<main, result, shared, shutdown, serial_connected, status, files,
                 serialMemory, crashed>>

\* Fault: the message that was being received is forgotten.
CleanupPort ==
  /\ Serial("cleanup", "ended")
  /\ \/ serial_fd = NoFd /\ UNCHANGED <<fds, stolen>>
     \/ /\ serial_fd # NoFd
        /\ fds' = Closed(serial_fd)
        /\ stolen' = (stolen \/ Foreign(serial_fd, "serial"))
  /\ buffer' = FALSE
  /\ UNCHANGED <<main, result, shared, shutdown, serial_connected, status, serial_fd,
                 current_message, received, crashed, queue>>

\* cleanup, and the thread returns.
cleanup ==
  /\ Serial("cleanup", "ended")
  /\ \/ serial_fd = NoFd /\ UNCHANGED <<fds, stolen>>
     \/ /\ serial_fd # NoFd
        /\ fds' = Closed(serial_fd)
        /\ stolen' = (stolen \/ Foreign(serial_fd, "serial"))
  /\ buffer' = FALSE /\ current_message' = 0
  /\ UNCHANGED <<main, result, shared, shutdown, serial_connected, status,
                 serial_fd, received, crashed, queue>>

SerialThread ==
  \/ AllocateBuffer \/ open_serial \/ CheckShutdown \/ write_serial
  \/ read_serial \/ Deliver \/ cleanup

-----------------------------------------------------------------------------
Next == MainThread \/ SerialThread

Spec == Init /\ [][Next]_vars

\* Both threads keep running: the serial thread polls, the window is redrawn at
\* 60 frames a second.  Nothing says that the user ever closes the window.
FairSpec == Spec /\ WF_vars(MainThread) /\ WF_vars(SerialThread)

-----------------------------------------------------------------------------
(* Properties                                                              *)

\* As long as the serial thread runs, the structure it shares with the main
\* thread is there: frinfo_close releases nothing before the join.
SharedWhileRunning ==
  opened /\ serial \notin {"none", "ended"} =>
    /\ \A q \in DOMAIN queues : queues[q] = "open"
    /\ vehicle_status = "allocated"

\* When frinfo_start returns 0 nothing is left behind, whichever way and at
\* whichever moment the serial thread ended: no queue, no vehicle status, no
\* read buffer, no half-received message, no open port.
NothingLeftBehind ==
  result = 0 /\ opened =>
    /\ \A q \in DOMAIN queues : queues[q] = "null"
    /\ vehicle_status = "null"
    /\ ~ buffer /\ current_message = 0
    /\ \A f \in Fd : fds[f] \notin {"serial", "window"}

\* cleanup is documented to clean up what is used in its file: it closes no
\* descriptor that belongs to somebody else.
ClosesOnlyItsOwn == ~ stolen

\* The vehicle status goes forward: however messages are overwritten in the
\* queue or rejected, the display never goes back to an older status.
StatusGoesForward == [][status' >= status]_status

\* Once the window of a program that was opened is closed, the program ends: the
\* serial thread sees shutdown, whatever it is doing, and neither thread waits for
\* the other for ever.
WindowClosedEnds == opened /\ main = "stop" ~> main = "done"

\* When the controller falls silent, the last message that was handed to
\* msg_queue_write is shown, however full the queue was and whatever was in it,
\* unless the window is closed first.
LatestIsShown ==
  MAX_SENT \in Valid =>
    (opened /\ pending["serial"] = MAX_SENT
       ~> status = MAX_SENT \/ main \in {"stop", "join", "close", "done"})

=============================================================================
