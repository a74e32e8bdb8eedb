---------------------------- MODULE BatterySensor ----------------------------
(***************************************************************************)
(* The battery sensor (battery-sensor/main/battery-sensor_main.c) and its  *)
(* CAN bus (components/can_network/can_network.c): an interrupt puts the   *)
(* address of every received frame on a queue; the task drains the queue,  *)
(* stores what the MCU answers about its configuration, and every 50 ms    *)
(* counts up to the moment it sends its requests, one in each loop.        *)
(*                                                                         *)
(* One part of the configuration is watched, any of them; a frame is the   *)
(* answer about that part or it is of no interest.                         *)
(*                                                                         *)
(* The queue is created for items of sizeof(struct can_message) and used   *)
(* with the address of a pointer: each receive also overwrites what lies   *)
(* behind msg on the stack of the task, which may be its two counters.     *)
(***************************************************************************)
EXTENDS Naturals, Sequences, SequencesExt

CONSTANTS
  Block,    \* addresses calloc can return for a message
  NULL,     \* the null pointer
  Faults,   \* what may go wrong: "nomem", "receive", "transmit"
  CAN_MESSAGE_QUEUE_SIZE,            \* (200)
  LOOPS_BETWEEN_MCU_STATUS_REQUEST,  \* (40)
  LOOPS_BETWEEN_MCU_CONFIG_REQUEST,  \* (600)
  STATUS_REQUESTS,  \* kinds of status request, 1 .. STATUS_REQUESTS (6)
  CONFIG_REQUESTS,  \* kinds of configuration request (11)
  WIDTH             \* bits of a loop counter (16)

ASSUME NullAssumption == NULL \notin Block
ASSUME FaultsAssumption == Faults \subseteq {"nomem", "receive", "transmit"}
\* What 2 ^ WIDTH is follows from WIDTH \in Nat, but not for the provers.
ASSUME SizesAssumption ==
  /\ CAN_MESSAGE_QUEUE_SIZE \in Nat
  /\ WIDTH \in Nat /\ 2 ^ WIDTH \in Nat \ {0}
  /\ LOOPS_BETWEEN_MCU_STATUS_REQUEST \in Nat /\ STATUS_REQUESTS \in Nat
  /\ LOOPS_BETWEEN_MCU_CONFIG_REQUEST \in Nat /\ CONFIG_REQUESTS \in Nat
ASSUME CounterAssumption ==
  /\ LOOPS_BETWEEN_MCU_STATUS_REQUEST + STATUS_REQUESTS < 2 ^ WIDTH
  /\ LOOPS_BETWEEN_MCU_CONFIG_REQUEST + CONFIG_REQUESTS < 2 ^ WIDTH

VARIABLES
  watched,            \* the configuration request whose answer is watched
  known,              \* the watched part of mcu_config has been stored
  pc,                 \* where the task is in its loop
  can_message_queue,  \* addresses of messages, oldest first
  allocated,          \* heap blocks of messages that are not yet freed
  answers,            \* blocks whose message is the watched answer
  msg,                \* the task's pointer to a message
  loops_since_last_summary_request,
  loops_since_last_config_request,
  request,            \* the last request: its kind and number
  asked,              \* the MCU has been asked for the watched part
  crashed             \* a write through a null pointer

counters == <<loops_since_last_summary_request, loops_since_last_config_request>>
heap == <<can_message_queue, allocated, answers, msg>>
vars == <<watched, known, pc, heap, counters, request, asked, crashed>>

Counter == 0 .. 2 ^ WIDTH - 1
Request == [kind : {"status"}, number : 1 .. STATUS_REQUESTS]
           \cup [kind : {"config"}, number : 1 .. CONFIG_REQUESTS]
None == [kind |-> "none"]

TypeOK ==
  /\ watched \in 1 .. CONFIG_REQUESTS /\ known \in BOOLEAN
  /\ pc \in {"start", "drain", "parse", "status", "config", "deleted"}
  /\ can_message_queue \in Seq(Block)
  /\ Len(can_message_queue) <= CAN_MESSAGE_QUEUE_SIZE
  /\ allocated \subseteq Block /\ answers \subseteq Block
  /\ msg \in Block \cup {NULL}
  /\ loops_since_last_summary_request \in Counter
  /\ loops_since_last_config_request \in Counter
  /\ request \in Request \cup {None}
  /\ asked \in BOOLEAN /\ crashed \in BOOLEAN

Init ==
  /\ watched \in 1 .. CONFIG_REQUESTS /\ known = FALSE
  /\ pc = "start"
  /\ can_message_queue = <<>> /\ allocated = {} /\ answers = {} /\ msg = NULL
  /\ loops_since_last_summary_request = 0 /\ loops_since_last_config_request = 0
  /\ request = None /\ asked = FALSE /\ crashed = FALSE

-----------------------------------------------------------------------------
(* twai_listener_rx_callback, the receive interrupt                        *)

\* Fault: the message is freed when it has been put on the queue.
FreeQueued(b, arrived) ==
  /\ b \in Block \ allocated
  /\ UNCHANGED allocated
  /\ can_message_queue' = IF arrived /\ Len(can_message_queue) < CAN_MESSAGE_QUEUE_SIZE
                          THEN Append(can_message_queue, b) ELSE can_message_queue

\* The message is allocated and its address put on the queue; if the frame cannot
\* be read, or the queue is full, nobody has the address any more.
Enqueue(b, arrived) ==
  /\ b \in Block \ allocated
  /\ allocated' = allocated \cup {b}
  /\ can_message_queue' = IF arrived /\ Len(can_message_queue) < CAN_MESSAGE_QUEUE_SIZE
                          THEN Append(can_message_queue, b) ELSE can_message_queue

\* The interrupt is enabled when the task has got as far as its loop.
Listening == ~ crashed /\ pc \notin {"start", "deleted"}

\* The MCU sends a frame, of its own accord or because it was asked.
Receive(answer, arrived) ==
  /\ Listening
  /\ arrived \/ "receive" \in Faults
  /\ answer => asked
  /\ asked' = (asked /\ ~ answer)
  /\ \E b \in Block :
       /\ Enqueue(b, arrived)
       /\ answers' = IF answer THEN answers \cup {b} ELSE answers \ {b}
  /\ UNCHANGED <<watched, known, pc, msg, counters, request, crashed>>

\* calloc's result is not checked.
ReceiveWithoutMemory ==
  /\ Listening /\ allocated = Block
  /\ crashed' = TRUE
  /\ UNCHANGED <<watched, known, pc, heap, counters, request, asked>>

-----------------------------------------------------------------------------
(* battery_sensor_task                                                     *)

Goto(from, to) == ~ crashed /\ pc = from /\ pc' = to

\* The queue is created and the bus started, or there is no memory for the queue:
\* the task ends, and nobody starts it again.
Start ==
  /\ Goto("start", "drain") \/ ("nomem" \in Faults /\ Goto("start", "deleted"))
  /\ UNCHANGED <<watched, known, heap, counters, request, asked, crashed>>

\* xQueueReceive writes the pointer and what follows it.
TakeMessage ==
  /\ Goto("drain", "parse")
  /\ can_message_queue # <<>>
  /\ msg' = Head(can_message_queue)
  /\ can_message_queue' = Tail(can_message_queue)
  /\ \/ UNCHANGED counters
     \/ /\ loops_since_last_summary_request' \in Counter
        /\ loops_since_last_config_request' \in Counter
  /\ UNCHANGED <<watched, known, allocated, answers, request, asked, crashed>>

\* parse_mcu_message, and the message is freed.
ParseMessage ==
  /\ Goto("parse", "drain")
  /\ known' = (known \/ msg \in answers)
  /\ allocated' = allocated \ {msg} /\ answers' = answers \ {msg}
  /\ msg' = NULL
  /\ UNCHANGED <<watched, can_message_queue, counters, request, asked, crashed>>

QueueDrained ==
  /\ Goto("drain", "status")
  /\ can_message_queue = <<>>
  /\ UNCHANGED <<watched, known, heap, counters, request, asked, crashed>>

\* Fault: the counter does not wrap.
Unbounded(c) == c + 1

\* The counters are uint16_t.
Increment(c) == (c + 1) % 2 ^ WIDTH

\* Faults: the cycle is over one request early; a counter past its last request
\* stays where it is.
EarlyReset(c, between, requests) ==
  IF Increment(c) = between + requests - 1 THEN 0 ELSE Increment(c)

NoWrap(c, between, requests) ==
  IF c >= between + requests THEN c
  ELSE IF Increment(c) = between + requests THEN 0 ELSE Increment(c)

\* The counter after a loop: back at 0 when the last request has been sent.
NextCount(c, between, requests) ==
  IF Increment(c) = between + requests THEN 0 ELSE Increment(c)

\* The request a loop makes, 0 when none is due or the number has no request.
Due(c, between, requests) ==
  IF Increment(c) \in between + 1 .. between + requests THEN Increment(c) - between ELSE 0

request_mcu_status ==
  LET k == Due(loops_since_last_summary_request,
               LOOPS_BETWEEN_MCU_STATUS_REQUEST, STATUS_REQUESTS) IN
  /\ Goto("status", "config")
  /\ loops_since_last_summary_request' =
       NextCount(loops_since_last_summary_request,
                 LOOPS_BETWEEN_MCU_STATUS_REQUEST, STATUS_REQUESTS)
  /\ request' = IF k = 0 THEN request ELSE [kind |-> "status", number |-> k]
  /\ UNCHANGED <<watched, known, heap, loops_since_last_config_request, asked, crashed>>

\* What twai_node_transmit says is ignored: a request may be lost.
request_mcu_config ==
  LET k == Due(loops_since_last_config_request,
               LOOPS_BETWEEN_MCU_CONFIG_REQUEST, CONFIG_REQUESTS) IN
  /\ Goto("config", "drain")
  /\ loops_since_last_config_request' =
       NextCount(loops_since_last_config_request,
                 LOOPS_BETWEEN_MCU_CONFIG_REQUEST, CONFIG_REQUESTS)
  /\ request' = IF k = 0 THEN request ELSE [kind |-> "config", number |-> k]
  /\ \/ asked' = (asked \/ k = watched)
     \/ "transmit" \in Faults /\ UNCHANGED asked
  /\ UNCHANGED <<watched, known, heap, loops_since_last_summary_request, crashed>>

battery_sensor_task ==
  \/ Start \/ TakeMessage \/ ParseMessage \/ QueueDrained
  \/ request_mcu_status \/ request_mcu_config

-----------------------------------------------------------------------------
Next ==
  \/ \E answer, arrived \in BOOLEAN : Receive(answer, arrived)
  \/ ReceiveWithoutMemory
  \/ battery_sensor_task

Spec == Init /\ [][Next]_vars

\* The task keeps running; a request that is made again and again reaches the
\* MCU, and an MCU that is asked again and again answers.
FairSpec ==
  /\ Spec
  /\ WF_vars(battery_sensor_task)
  /\ SF_vars(request_mcu_config /\ asked')
  /\ SF_vars(asked /\ (Receive(TRUE, TRUE) \/ ReceiveWithoutMemory))

-----------------------------------------------------------------------------
(* Properties                                                              *)

\* The interrupt and the task hand every message over at most once (one that finds
\* the queue full is not handed over at all, and its block is lost): an address on
\* the queue or in the hands of the task is that of an allocated message, and no
\* other one, so that the task never parses or frees a message that is gone.
MessagesAreOwned ==
  /\ IsInjective(can_message_queue)
  /\ Range(can_message_queue) \subseteq allocated
  /\ msg # NULL => msg \in allocated /\ msg \notin Range(can_message_queue)

\* From some moment on no frame of no interest reaches the task.
NothingElse == <>[](Range(can_message_queue) \cup ({msg} \ {NULL}) \subseteq answers)

\* There was no memory, for the queue or for a message.
Ended == crashed \/ pc = "deleted"

Silence == <>[](can_message_queue = <<>> /\ msg = NULL)

\* However the frames of a busy bus have overwritten the two counters, once the
\* bus is silent every request is made again and again.
AsksAgain ==
  Silence =>
    \/ <>Ended
    \/ /\ \A k \in 1 .. STATUS_REQUESTS :
            []<>(request.kind = "status" /\ request.number = k)
       /\ \A k \in 1 .. CONFIG_REQUESTS :
            []<>(request.kind = "config" /\ request.number = k)

\* Whatever is lost on the way, any part of the configuration the MCU is asked for
\* is stored in the end, when no other frames keep overwriting the counters.
ConfigIsLearnt == NothingElse => <>(known \/ Ended)

=============================================================================
