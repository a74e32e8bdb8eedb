---------------------------- MODULE BatteryProofs ----------------------------
(***************************************************************************)
(* Proofs about BatterySensor, for any number of blocks, any size of the   *)
(* queue and any faults: every variable keeps its type, and interrupt and  *)
(* task hand every message over at most once.                              *)
(***************************************************************************)
EXTENDS BatterySensor, TLAPS

\* What lies where: needed for the properties of sequences.
Places ==
  /\ can_message_queue \in Seq(Block)
  /\ allocated \subseteq Block
  /\ msg \in Block \cup {NULL}

IInv == Places /\ MessagesAreOwned

-----------------------------------------------------------------------------

\* A new element keeps a queue free of repetitions, and is all that is added.
LEMMA AppendKeeps ==
  ASSUME NEW S, NEW q \in Seq(S), NEW b \in S, IsInjective(q), b \notin Range(q)
  PROVE  IsInjective(Append(q, b)) /\ Range(Append(q, b)) = Range(q) \cup {b}
<1> DEFINE r == Append(q, b)
<1>1. /\ r \in Seq(S) /\ DOMAIN r = 1 .. Len(q) + 1 /\ DOMAIN q = 1 .. Len(q)
      /\ Len(q) \in Nat
      /\ \A i \in 1 .. Len(q) : r[i] = q[i]
      /\ r[Len(q) + 1] = b
  OBVIOUS
<1>2. \A i \in DOMAIN q : q[i] # b
  BY DEF Range
<1>3. IsInjective(r)
  <2> SUFFICES ASSUME NEW i \in DOMAIN r, NEW j \in DOMAIN r, r[i] = r[j]
               PROVE  i = j
    BY DEF IsInjective
  <2>1. CASE i \in DOMAIN q /\ j \in DOMAIN q
    BY <1>1, <2>1 DEF IsInjective
  <2>2. CASE i \notin DOMAIN q \/ j \notin DOMAIN q
    BY <1>1, <1>2, <2>2
  <2> QED BY <2>1, <2>2
<1>4. Range(r) = Range(q) \cup {b}
  <2>1. \A y \in Range(r) : y \in Range(q) \cup {b}
    BY <1>1 DEF Range
  <2>2. \A y \in Range(q) \cup {b} : \E i \in DOMAIN r : y = r[i]
    BY <1>1 DEF Range
  <2> QED BY <2>1, <2>2 DEF Range
<1> QED BY <1>3, <1>4

\* The first element of a queue without repetitions is not in the rest.
LEMMA TailKeeps ==
  ASSUME NEW S, NEW q \in Seq(S), q # <<>>, IsInjective(q)
  PROVE  /\ IsInjective(Tail(q)) /\ Range(Tail(q)) \subseteq Range(q)
         /\ Head(q) \in Range(q) /\ Head(q) \notin Range(Tail(q))
<1>1. /\ Len(q) \in Nat \ {0} /\ DOMAIN q = 1 .. Len(q)
      /\ DOMAIN Tail(q) = 1 .. Len(q) - 1
      /\ \A i \in DOMAIN Tail(q) : Tail(q)[i] = q[i + 1]
      /\ Head(q) = q[1]
  OBVIOUS
<1>2. IsInjective(Tail(q))
  BY <1>1 DEF IsInjective
<1>3. Range(Tail(q)) \subseteq Range(q)
  <2> SUFFICES ASSUME NEW i \in DOMAIN Tail(q) PROVE \E j \in DOMAIN q : Tail(q)[i] = q[j]
    BY DEF Range
  <2> QED BY <1>1
<1>4. Head(q) \in Range(q)
  BY <1>1 DEF Range
<1>5. Head(q) \notin Range(Tail(q))
  <2> SUFFICES ASSUME NEW i \in DOMAIN Tail(q), Tail(q)[i] = Head(q) PROVE FALSE
    BY DEF Range
  <2>1. q[i + 1] = q[1] /\ i + 1 \in DOMAIN q /\ 1 \in DOMAIN q /\ i + 1 # 1
    BY <1>1
  <2> QED BY <2>1 DEF IsInjective
<1> QED BY <1>2, <1>3, <1>4, <1>5

-----------------------------------------------------------------------------

LEMMA InitIInv == Init => IInv
<1> SUFFICES ASSUME Init PROVE IInv
  OBVIOUS
<1>1. Places
  BY DEF Init, Places
<1>2. IsInjective(<<>>) /\ Range(<<>>) = {}
  BY DEF IsInjective, Range
<1> QED BY <1>1, <1>2 DEF Init, IInv, MessagesAreOwned

\* The interrupt adds a block that nobody holds, or leaves the queue as it is.
LEMMA EnqueueKeeps ==
  ASSUME IInv, NEW b \in Block, NEW arrived \in BOOLEAN, Enqueue(b, arrived), UNCHANGED msg
  PROVE  IInv'
<1>1. b \notin allocated /\ b \notin Range(can_message_queue)
  BY DEF IInv, MessagesAreOwned, Enqueue
<1>2. CASE can_message_queue' = Append(can_message_queue, b)
  <2>1. /\ IsInjective(can_message_queue')
        /\ Range(can_message_queue') = Range(can_message_queue) \cup {b}
    BY <1>1, <1>2, AppendKeeps DEF IInv, Places, MessagesAreOwned
  <2>2. Places'
    BY <1>2 DEF IInv, Places, Enqueue
  <2> QED BY <1>1, <2>1, <2>2 DEF IInv, MessagesAreOwned, Enqueue
<1>3. CASE can_message_queue' = can_message_queue
  BY <1>3 DEF IInv, Places, MessagesAreOwned, Enqueue
<1> QED BY <1>2, <1>3 DEF Enqueue

LEMMA NextIInv == IInv /\ [Next]_vars => IInv'
<1> SUFFICES ASSUME IInv, [Next]_vars PROVE IInv'
  OBVIOUS
<1>1. ASSUME NEW answer \in BOOLEAN, NEW arrived \in BOOLEAN, Receive(answer, arrived)
      PROVE  IInv'
  <2>1. PICK b \in Block : Enqueue(b, arrived)
    BY <1>1 DEF Receive
  <2>2. UNCHANGED msg
    BY <1>1 DEF Receive
  <2> QED BY <2>1, <2>2, EnqueueKeeps
<1>2. CASE TakeMessage
  <2> DEFINE q == can_message_queue
  <2>1. q \in Seq(Block) /\ q # <<>> /\ IsInjective(q)
    BY <1>2 DEF TakeMessage, IInv, Places, MessagesAreOwned
  <2>2. q' = Tail(q) /\ msg' = Head(q) /\ allocated' = allocated
    BY <1>2 DEF TakeMessage
  <2>3. /\ IsInjective(q') /\ Range(q') \subseteq Range(q)
        /\ msg' \in Range(q) /\ msg' \notin Range(q')
    BY <2>1, <2>2, TailKeeps
  <2>4. Range(q) \subseteq allocated /\ allocated \subseteq Block
    BY DEF IInv, Places, MessagesAreOwned
  <2>5. q' \in Seq(Block)
    BY <2>1, <2>2
  <2> QED BY <2>2, <2>3, <2>4, <2>5 DEF IInv, Places, MessagesAreOwned
<1>3. CASE ParseMessage
  <2>1. /\ allocated' = allocated \ {msg} /\ msg' = NULL
        /\ can_message_queue' = can_message_queue
    BY <1>3 DEF ParseMessage
  <2>2. msg \notin Range(can_message_queue)
    BY NullAssumption DEF IInv, Places, MessagesAreOwned
  <2> QED BY <2>1, <2>2 DEF IInv, Places, MessagesAreOwned
<1>4. CASE UNCHANGED heap
  BY <1>4 DEF heap, IInv, Places, MessagesAreOwned
<1>5. ReceiveWithoutMemory \/ Start \/ QueueDrained \/ request_mcu_status
        \/ request_mcu_config \/ UNCHANGED vars => UNCHANGED heap
  BY DEF ReceiveWithoutMemory, Start, QueueDrained, request_mcu_status,
         request_mcu_config, vars, heap
<1> QED BY <1>1, <1>2, <1>3, <1>4, <1>5 DEF Next, battery_sensor_task

\* The invariant holds whenever and however the interrupt comes in between.
THEOREM IInvHolds == Spec => []IInv
BY InitIInv, NextIInv, PTL DEF Spec

\* The task never parses or frees a message that is gone: every address on the
\* queue or in its hands is that of an allocated message, and no other one.
THEOREM Owned == Spec => []MessagesAreOwned
<1>1. IInv => MessagesAreOwned
  BY DEF IInv
<1> QED BY IInvHolds, <1>1, PTL

-----------------------------------------------------------------------------
(* The counters and the requests *)

\* A counter of WIDTH bits stays one, however it is incremented and reset.
LEMMA CountsStayInRange ==
  ASSUME NEW c \in Counter, NEW between \in Nat, NEW requests \in Nat
  PROVE  /\ NextCount(c, between, requests) \in Counter
         /\ Due(c, between, requests) \in 0 .. requests
<1> DEFINE W == 2 ^ WIDTH
<1>1. W \in Nat \ {0}
  BY SizesAssumption
<1> HIDE DEF W
<1>2. c \in 0 .. W - 1 /\ (c + 1) % W \in 0 .. W - 1 /\ 0 \in 0 .. W - 1
  BY <1>1 DEF Counter, W
<1>3. Increment(c) \in 0 .. W - 1 /\ Counter = 0 .. W - 1
  BY <1>2 DEF Increment, Counter, W
<1>4. QED BY <1>1, <1>2, <1>3 DEF NextCount, Due

-----------------------------------------------------------------------------
(* Type correctness *)

\* The queue never takes more than its size, whoever calls Enqueue.
LEMMA EnqueueFits ==
  ASSUME TypeOK, NEW b \in Block, NEW arrived \in BOOLEAN, Enqueue(b, arrived)
  PROVE  /\ can_message_queue' \in Seq(Block)
         /\ Len(can_message_queue') <= CAN_MESSAGE_QUEUE_SIZE
         /\ allocated' \subseteq Block
<1> USE SizesAssumption
<1>1. /\ can_message_queue \in Seq(Block) /\ allocated \subseteq Block
      /\ Len(can_message_queue) \in Nat
      /\ Len(can_message_queue) <= CAN_MESSAGE_QUEUE_SIZE
  BY DEF TypeOK
<1>2. allocated' \subseteq Block
  BY <1>1 DEF Enqueue
<1>3. CASE /\ Len(can_message_queue) < CAN_MESSAGE_QUEUE_SIZE
           /\ can_message_queue' = Append(can_message_queue, b)
  <2>1. /\ Append(can_message_queue, b) \in Seq(Block)
        /\ Len(Append(can_message_queue, b)) = Len(can_message_queue) + 1
    BY <1>1
  <2> QED BY <1>1, <1>2, <1>3, <2>1
<1>4. CASE can_message_queue' = can_message_queue
  BY <1>1, <1>2, <1>4
<1> QED BY <1>3, <1>4 DEF Enqueue

\* The part of the state that interrupt and task leave alone keeps its type.
HeapOK ==
  /\ can_message_queue \in Seq(Block)
  /\ Len(can_message_queue) <= CAN_MESSAGE_QUEUE_SIZE
  /\ allocated \subseteq Block /\ answers \subseteq Block
  /\ msg \in Block \cup {NULL}

CountersOK ==
  /\ loops_since_last_summary_request \in Counter
  /\ loops_since_last_config_request \in Counter

ControlOK ==
  /\ watched \in 1 .. CONFIG_REQUESTS
  /\ pc \in {"start", "drain", "parse", "status", "config", "deleted"}
  /\ request \in Request \cup {None}

FlagsOK == known \in BOOLEAN /\ asked \in BOOLEAN /\ crashed \in BOOLEAN

LEMMA TypeParts == TypeOK <=> HeapOK /\ CountersOK /\ ControlOK /\ FlagsOK
BY DEF TypeOK, HeapOK, CountersOK, ControlOK, FlagsOK

LEMMA InitType == Init => TypeOK
<1> SUFFICES ASSUME Init PROVE TypeOK
  OBVIOUS
<1>1. 0 \in Counter
  BY SizesAssumption DEF Counter
<1>2. HeapOK
  BY SizesAssumption DEF Init, HeapOK
<1> QED BY <1>1, <1>2, TypeParts DEF Init, CountersOK, ControlOK, FlagsOK

LEMMA NextType == TypeOK /\ [Next]_vars => TypeOK'
<1> SUFFICES ASSUME TypeOK, [Next]_vars PROVE TypeOK'
  OBVIOUS
<1>0. HeapOK /\ CountersOK /\ ControlOK /\ FlagsOK
  BY TypeParts
<1>1. HeapOK'
  <2>1. ASSUME NEW answer \in BOOLEAN, NEW arrived \in BOOLEAN, Receive(answer, arrived)
        PROVE  HeapOK'
    <3>1. PICK b \in Block :
            /\ Enqueue(b, arrived)
            /\ answers' = IF answer THEN answers \cup {b} ELSE answers \ {b}
      BY <2>1 DEF Receive
    <3>2. msg' = msg
      BY <2>1 DEF Receive
    <3> QED BY <1>0, <3>1, <3>2, EnqueueFits DEF HeapOK
  <2>2. CASE TakeMessage
    <3> DEFINE q == can_message_queue
    <3>1. q \in Seq(Block) /\ q # <<>> /\ Len(q) \in Nat /\ Len(q) <= CAN_MESSAGE_QUEUE_SIZE
      BY <1>0, <2>2 DEF TakeMessage, HeapOK
    <3>2. Tail(q) \in Seq(Block) /\ Head(q) \in Block /\ Len(Tail(q)) = Len(q) - 1
      BY <3>1
    <3>3. /\ q' = Tail(q) /\ msg' = Head(q)
          /\ allocated' = allocated /\ answers' = answers
      BY <2>2 DEF TakeMessage
    <3>4. Len(Tail(q)) <= CAN_MESSAGE_QUEUE_SIZE
      BY <3>1, <3>2, SizesAssumption
    <3> QED BY <1>0, <3>2, <3>3, <3>4 DEF HeapOK
  <2>3. CASE ParseMessage
    BY <1>0, <2>3 DEF ParseMessage, HeapOK
  <2>4. CASE UNCHANGED heap
    BY <1>0, <2>4 DEF heap, HeapOK
  <2>5. ReceiveWithoutMemory \/ Start \/ QueueDrained \/ request_mcu_status
          \/ request_mcu_config \/ UNCHANGED vars => UNCHANGED heap
    BY DEF ReceiveWithoutMemory, Start, QueueDrained, request_mcu_status,
           request_mcu_config, vars, heap
  <2> QED BY <2>1, <2>2, <2>3, <2>4, <2>5 DEF Next, battery_sensor_task
<1>2. CountersOK'
  <2>1. CASE TakeMessage
    BY <1>0, <2>1 DEF TakeMessage, counters, CountersOK, Counter
  <2>2. CASE request_mcu_status
    BY <1>0, <2>2, CountsStayInRange, SizesAssumption
    DEF request_mcu_status, CountersOK
  <2>3. CASE request_mcu_config
    BY <1>0, <2>3, CountsStayInRange, SizesAssumption
    DEF request_mcu_config, CountersOK
  <2>4. CASE UNCHANGED counters
    BY <1>0, <2>4 DEF counters, CountersOK, Counter
  <2>5. (\E answer, arrived \in BOOLEAN : Receive(answer, arrived))
          \/ ReceiveWithoutMemory \/ Start \/ ParseMessage \/ QueueDrained
          \/ UNCHANGED vars => UNCHANGED counters
    BY DEF Receive, ReceiveWithoutMemory, Start, ParseMessage, QueueDrained, vars, counters
  <2> QED BY <2>1, <2>2, <2>3, <2>4, <2>5 DEF Next, battery_sensor_task
<1>3. ControlOK'
  <2>1. CASE request_mcu_status
    <3> DEFINE k == Due(loops_since_last_summary_request,
                        LOOPS_BETWEEN_MCU_STATUS_REQUEST, STATUS_REQUESTS)
    <3>1. k \in 0 .. STATUS_REQUESTS
      BY <1>0, CountsStayInRange, SizesAssumption DEF CountersOK
    <3>2. /\ request' = IF k = 0 THEN request ELSE [kind |-> "status", number |-> k]
          /\ pc' = "config" /\ watched' = watched
      BY <2>1 DEF request_mcu_status, Goto
    <3> HIDE DEF k
    <3>3. k # 0 => k \in 1 .. STATUS_REQUESTS
      BY <3>1, SizesAssumption
    <3> QED BY <1>0, <3>2, <3>3 DEF ControlOK, Request
  <2>2. CASE request_mcu_config
    <3> DEFINE k == Due(loops_since_last_config_request,
                        LOOPS_BETWEEN_MCU_CONFIG_REQUEST, CONFIG_REQUESTS)
    <3>1. k \in 0 .. CONFIG_REQUESTS
      BY <1>0, CountsStayInRange, SizesAssumption DEF CountersOK
    <3>2. /\ request' = IF k = 0 THEN request ELSE [kind |-> "config", number |-> k]
          /\ pc' = "drain" /\ watched' = watched
      BY <2>2 DEF request_mcu_config, Goto
    <3> HIDE DEF k
    <3>3. k # 0 => k \in 1 .. CONFIG_REQUESTS
      BY <3>1, SizesAssumption
    <3> QED BY <1>0, <3>2, <3>3 DEF ControlOK, Request
  <2>3. CASE Start \/ TakeMessage \/ ParseMessage \/ QueueDrained
    BY <1>0, <2>3 DEF Start, TakeMessage, ParseMessage, QueueDrained, Goto, ControlOK
  <2>4. CASE UNCHANGED <<watched, pc, request>>
    BY <1>0, <2>4 DEF ControlOK
  <2>5. (\E answer, arrived \in BOOLEAN : Receive(answer, arrived))
          \/ ReceiveWithoutMemory \/ UNCHANGED vars => UNCHANGED <<watched, pc, request>>
    BY DEF Receive, ReceiveWithoutMemory, vars
  <2> QED BY <2>1, <2>2, <2>3, <2>4, <2>5 DEF Next, battery_sensor_task
<1>4. FlagsOK'
  <2>1. known' \in BOOLEAN
    BY <1>0, Zenon DEF FlagsOK, Next, battery_sensor_task, Receive, ReceiveWithoutMemory,
       Start, TakeMessage, ParseMessage, QueueDrained, request_mcu_status,
       request_mcu_config, vars
  <2>2. asked' \in BOOLEAN
    BY <1>0, Zenon DEF FlagsOK, Next, battery_sensor_task, Receive, ReceiveWithoutMemory,
       Start, TakeMessage, ParseMessage, QueueDrained, request_mcu_status,
       request_mcu_config, vars
  <2>3. crashed' \in BOOLEAN
    BY <1>0, Zenon DEF FlagsOK, Next, battery_sensor_task, Receive, ReceiveWithoutMemory,
       Start, TakeMessage, ParseMessage, QueueDrained, request_mcu_status,
       request_mcu_config, vars
  <2> QED BY <2>1, <2>2, <2>3 DEF FlagsOK
<1> QED BY <1>1, <1>2, <1>3, <1>4, TypeParts, PTL

\* Every variable keeps its type: the queue its size, and the counters their width,
\* whatever the frames have written over them.
THEOREM TypeCorrect == Spec => []TypeOK
BY InitType, NextType, PTL DEF Spec

=============================================================================
