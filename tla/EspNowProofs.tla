---------------------------- MODULE EspNowProofs ----------------------------
(***************************************************************************)
(* Proofs about EspNowRegistration, for every set of clients, every size   *)
(* of the queues, every combination of faults and any number of restarts.  *)
(***************************************************************************)
EXTENDS EspNowRegistration, SequenceTheorems, TLAPS

Event == SendEvent \cup ReceiveEvent

\* Frames and events that carry a REG_ACK of a controller that has not restarted
\* only to a client that it has given a state other than REG.
KnownFrame ==
  {f \in Frame : f.type = "REG_ACK" /\ restarts[Controller] = 0
                   => f.to \in Client /\ clients[f.to] # "REG"}
KnownEvent(c) ==
  {e \in Event : e = Received(Controller, "REG_ACK") /\ restarts[Controller] = 0
                   => clients[c] # "REG"}

\* Whoever is sent, or is about to read, a REG_ACK of the controller has been
\* given a state other than REG by the controller.
AcksAreKnown ==
  /\ tx[Controller] \in Seq(KnownFrame)
  /\ \A c \in Client : events[c] \in Seq(KnownEvent(c))

\* The inductive invariant.
KInv == TypeOK /\ AcksAreKnown /\ ReadyIsKnown

-----------------------------------------------------------------------------
USE NodeAssumption, SizeAssumption DEF Node, Broadcast

(* The sequences: whatever set the elements are in, the operations of the  *)
(* event queue and of the driver keep them there.                          *)

\* A callback leaves a queue within its size.
LEMMA QueuedSeq ==
  ASSUME NEW S, NEW n, events[n] \in Seq(S), Len(events[n]) <= QUEUE_SIZE, NEW e \in S
  PROVE  Queued(n, e) \in Seq(S) /\ Len(Queued(n, e)) <= QUEUE_SIZE
<1>1. Len(events[n]) \in Nat
  BY LenProperties
<1>2. Append(events[n], e) \in Seq(S) /\ Len(Append(events[n], e)) = Len(events[n]) + 1
  BY AppendProperties
<1> QED
  BY <1>1, <1>2 DEF Queued

\* An event that is taken was in the queue, and the rest of the queue stays.
LEMMA TakeSeq ==
  ASSUME NEW S, NEW n \in Node, NEW e, Take(n, e), n \in DOMAIN events,
         events[n] \in Seq(S)
  PROVE  /\ e \in S
         /\ events'[n] \in Seq(S)
         /\ Len(events'[n]) <= Len(events[n])
         /\ events' = [events EXCEPT ![n] = events'[n]]
<1>1. e \in S /\ Tail(events[n]) \in Seq(S) /\ Len(Tail(events[n])) = Len(events[n]) - 1
  BY HeadTailProperties DEF Take
<1>2. Len(events[n]) \in Nat
  BY LenProperties
<1> QED
  BY <1>1, <1>2 DEF Take

\* A frame that esp_now_send accepts joins the frames of its node.
LEMMA SentSeq ==
  ASSUME NEW S, NEW n \in Node, NEW to, NEW type, Sent(n, to, type),
         n \in DOMAIN tx, tx[n] \in Seq(S),
         [to |-> to, type |-> type, status |-> "waiting"] \in S
  PROVE  tx'[n] \in Seq(S) /\ tx' = [tx EXCEPT ![n] = tx'[n]]
<1>1. Append(tx[n], [to |-> to, type |-> type, status |-> "waiting"]) \in Seq(S)
  BY AppendProperties
<1> QED
  BY <1>1 DEF Sent

-----------------------------------------------------------------------------
(* What a step does to the invariant, by the sequences it changes.         *)

\* Every node's queue holds events, and no more than its size.
QueuesOK == /\ events \in [Node -> Seq(Event)]
            /\ \A n \in Node : Len(events[n]) <= QUEUE_SIZE

PowerOK == task \in [Node -> {"off", "running", "deleted"}] /\ restarts \in [Node -> Nat]

LEMMA TypeParts ==
  TypeOK <=> /\ conn \in [Node -> ConnState]
             /\ clients \in [Client -> ConnState]
             /\ QueuesOK
             /\ tx \in [Node -> Seq(Frame)]
             /\ PowerOK
BY DEF TypeOK, QueuesOK, PowerOK, Event

\* As long as no client goes back to REG, what was known stays known.
LEMMA KnownGrows ==
  ASSUME KInv, UNCHANGED power, \A c \in Client : clients[c] # "REG" => clients'[c] # "REG"
  PROVE  /\ tx[Controller] \in Seq(KnownFrame')
         /\ \A c \in Client : events[c] \in Seq(KnownEvent(c)')
<1> USE DEF power
<1>1. KnownFrame \subseteq KnownFrame'
  BY DEF KnownFrame
<1>2. ASSUME NEW c \in Client PROVE KnownEvent(c) \subseteq KnownEvent(c)'
  BY DEF KnownEvent
<1> QED
  BY <1>1, <1>2, SeqMonotonic DEF KInv, AcksAreKnown

\* Taking an event preserves what the invariant says of the queues.
LEMMA TakeKeeps ==
  ASSUME KInv, UNCHANGED power, NEW n \in Node, NEW e, Take(n, e),
         \A c \in Client : clients[c] # "REG" => clients'[c] # "REG"
  PROVE  /\ QueuesOK'
         /\ \A c \in Client : events'[c] \in Seq(KnownEvent(c)')
         /\ e \in Event
         /\ n \in Client => e \in KnownEvent(n)
<1>1. QueuesOK /\ n \in DOMAIN events /\ events[n] \in Seq(Event)
  BY TypeParts DEF KInv, QueuesOK
<1>2. /\ e \in Event
      /\ events'[n] \in Seq(Event)
      /\ Len(events'[n]) <= Len(events[n])
      /\ events' = [events EXCEPT ![n] = events'[n]]
  BY <1>1, TakeSeq
<1>3. Len(events[n]) \in Nat /\ Len(events'[n]) \in Nat
  BY <1>1, <1>2, LenProperties
<1>4. QueuesOK'
  BY <1>1, <1>2, <1>3 DEF QueuesOK
<1>5. ASSUME NEW c \in Client PROVE events'[c] \in Seq(KnownEvent(c)')
  <2>1. events[c] \in Seq(KnownEvent(c)')
    BY KnownGrows
  <2>2. CASE c = n
    BY <1>1, <2>1, <2>2, TakeSeq
  <2>3. CASE c # n
    BY <1>1, <1>2, <2>1, <2>3 DEF QueuesOK
  <2> QED
    BY <2>2, <2>3
<1>6. n \in Client => e \in KnownEvent(n)
  BY <1>1, TakeSeq DEF KInv, AcksAreKnown
<1> QED
  BY <1>2, <1>4, <1>5, <1>6

\* Sending preserves what the invariant says of the frames, when a REG_ACK of the
\* controller goes to a client that is not in REG any more.
LEMMA SentKeeps ==
  ASSUME KInv, NEW n \in Node, NEW to \in Node \cup {Broadcast},
         NEW type \in {"REG", "REG_ACK"}, Sent(n, to, type), UNCHANGED power,
         \A c \in Client : clients[c] # "REG" => clients'[c] # "REG",
         n = Controller /\ type = "REG_ACK" => to \in Client /\ clients'[to] # "REG"
  PROVE  tx' \in [Node -> Seq(Frame)] /\ tx'[Controller] \in Seq(KnownFrame')
<1> DEFINE f == [to |-> to, type |-> type, status |-> "waiting"]
<1>1. tx \in [Node -> Seq(Frame)] /\ tx[Controller] \in Seq(KnownFrame')
  BY TypeParts, KnownGrows DEF KInv
<1>2. f \in Frame /\ (n = Controller => f \in KnownFrame')
  BY DEF Frame, KnownFrame
<1>3. tx'[n] \in Seq(Frame) /\ tx' = [tx EXCEPT ![n] = tx'[n]]
  BY <1>1, <1>2, SentSeq
<1>4. CASE n = Controller
  BY <1>1, <1>2, <1>3, <1>4, SentSeq
<1>5. CASE n # Controller
  BY <1>1, <1>3, <1>5
<1> QED
  BY <1>1, <1>3, <1>4, <1>5

\* The invariant of the next state, from its parts.
LEMMA Assemble ==
  ASSUME conn' \in [Node -> ConnState], clients' \in [Client -> ConnState], QueuesOK',
         tx' \in [Node -> Seq(Frame)], tx'[Controller] \in Seq(KnownFrame'),
         \A c \in Client : events'[c] \in Seq(KnownEvent(c)'),
         PowerOK', ReadyIsKnown'
  PROVE  KInv'
<1>1. TypeOK'
  BY DEF TypeOK, QueuesOK, PowerOK, Event
<1> QED
  BY <1>1 DEF KInv, AcksAreKnown

-----------------------------------------------------------------------------
(* The actions                                                             *)

LEMMA InitKInv == Init => KInv
<1> SUFFICES ASSUME Init PROVE KInv
  OBVIOUS
<1>1. \A S : <<>> \in Seq(S) /\ Len(<<>>) = 0
  BY EmptySeq
<1>2. TypeOK
  BY <1>1 DEF Init, TypeOK, ConnState
<1>3. AcksAreKnown
  BY <1>1 DEF Init, AcksAreKnown
<1>4. ReadyIsKnown
  BY DEF Init, ReadyIsKnown
<1> QED
  BY <1>2, <1>3, <1>4 DEF KInv

\* What leaves the power of the nodes alone leaves its type alone.
LEMMA PowerKeeps ==
  ASSUME KInv, UNCHANGED power
  PROVE  restarts' = restarts /\ PowerOK'
BY TypeParts DEF KInv, PowerOK, power

\* The network task of the controller.
LEMMA ControllerStep == KInv /\ ControllerTask => KInv'
<1> SUFFICES ASSUME KInv, ControllerTask PROVE KInv'
  OBVIOUS
<1> USE DEF ConnState
<1>0. UNCHANGED power /\ restarts' = restarts /\ PowerOK'
  <2>1. UNCHANGED power
    BY DEF ControllerTask, ControllerBroadcastSent, ControllerIdle, ControllerAckSent,
           ControllerAckFailed, ControllerReceive
  <2> QED
    BY <2>1, PowerKeeps
<1> USE <1>0
<1>1. /\ conn \in [Node -> ConnState]
      /\ clients \in [Client -> ConnState]
      /\ QueuesOK
      /\ tx \in [Node -> Seq(Frame)]
      /\ tx[Controller] \in Seq(KnownFrame)
      /\ \A c \in Client : events[c] \in Seq(KnownEvent(c))
      /\ ReadyIsKnown
  BY TypeParts DEF KInv, AcksAreKnown
<1>2. CASE ControllerBroadcastSent
  <2>1. PICK e \in SendEvent : Take(Controller, e)
    BY <1>2 DEF ControllerBroadcastSent
  <2>2. UNCHANGED <<conn, clients, tx>>
    BY <1>2 DEF ControllerBroadcastSent
  <2>3. QueuesOK' /\ \A c \in Client : events'[c] \in Seq(KnownEvent(c)')
    BY <2>1, <2>2, TakeKeeps
  <2> QED
    BY <1>1, <2>2, <2>3, KnownGrows, Assemble DEF ReadyIsKnown
<1>3. ASSUME NEW c \in Client, ControllerAckSent(c) PROVE KInv'
  <2> DEFINE e == [kind |-> "send", to |-> c, ok |-> TRUE]
  <2>1. /\ Take(Controller, e)
        /\ clients' = [clients EXCEPT ![c] = IF @ = "REG_ACK" THEN "READY" ELSE @]
        /\ UNCHANGED <<conn, tx>>
    BY <1>3 DEF ControllerAckSent
  <2>2. \A d \in Client : clients[d] # "REG" => clients'[d] # "REG"
    BY <1>1, <2>1
  <2>3. QueuesOK' /\ \A d \in Client : events'[d] \in Seq(KnownEvent(d)')
    <3> HIDE DEF e
    <3> QED
      BY <2>1, <2>2, TakeKeeps
  <2>4. clients' \in [Client -> ConnState] /\ ReadyIsKnown'
    BY <1>1, <2>1, <2>2 DEF ReadyIsKnown
  <2> QED
    BY <1>1, <2>1, <2>2, <2>3, <2>4, KnownGrows, Assemble
<1>4. ASSUME NEW c \in Client, ControllerAckFailed(c) PROVE KInv'
  <2> DEFINE e == [kind |-> "send", to |-> c, ok |-> FALSE]
  <2>1. Take(Controller, e) /\ UNCHANGED <<conn, clients>>
    BY <1>4 DEF ControllerAckFailed
  <2>2. QueuesOK' /\ \A d \in Client : events'[d] \in Seq(KnownEvent(d)')
    <3> HIDE DEF e
    <3> QED
      BY <2>1, TakeKeeps
  <2>3. tx' \in [Node -> Seq(Frame)] /\ tx'[Controller] \in Seq(KnownFrame')
    <3>1. CASE clients[c] = "REG_ACK" /\ Sent(Controller, c, "REG_ACK")
      BY <2>1, <3>1, SentKeeps
    <3>2. CASE UNCHANGED tx
      BY <1>1, <2>1, <3>2, KnownGrows
    <3> QED
      BY <1>4, <3>1, <3>2 DEF ControllerAckFailed, Refused
  <2> QED
    BY <1>1, <2>1, <2>2, <2>3, Assemble DEF ReadyIsKnown
<1>5. ASSUME NEW c \in Client, ControllerReceive(c) PROVE KInv'
  <2>1. Take(Controller, Received(c, "REG_ACK")) /\ UNCHANGED conn
    BY <1>5 DEF ControllerReceive
  <2>2. CASE /\ Sent(Controller, c, "REG_ACK")
             /\ clients' = [clients EXCEPT ![c] = "REG_ACK"]
    <3>1. \A d \in Client : clients[d] # "REG" => clients'[d] # "REG"
      BY <1>1, <2>2
    <3>2. QueuesOK' /\ \A d \in Client : events'[d] \in Seq(KnownEvent(d)')
      BY <2>1, <3>1, TakeKeeps
    <3>3. clients'[c] # "REG"
      BY <1>1, <2>2
    <3>4. tx' \in [Node -> Seq(Frame)] /\ tx'[Controller] \in Seq(KnownFrame')
      BY <2>2, <3>1, <3>3, SentKeeps
    <3>5. clients' \in [Client -> ConnState] /\ ReadyIsKnown'
      BY <1>1, <2>1, <2>2, <3>1 DEF ReadyIsKnown
    <3> QED
      BY <1>1, <2>1, <3>2, <3>4, <3>5, Assemble
  <2>3. CASE UNCHANGED tx /\ UNCHANGED clients
    <3>1. QueuesOK' /\ \A d \in Client : events'[d] \in Seq(KnownEvent(d)')
      BY <2>1, <2>3, TakeKeeps
    <3> QED
      BY <1>1, <2>1, <2>3, <3>1, KnownGrows, Assemble DEF ReadyIsKnown
  <2> QED
    BY <1>5, <2>2, <2>3 DEF ControllerReceive, Refused
<1>6. CASE ControllerIdle
  <2>1. UNCHANGED <<clients, events>>
    BY <1>6 DEF ControllerIdle
  <2>2. QueuesOK' /\ \A d \in Client : events'[d] \in Seq(KnownEvent(d)')
    BY <1>1, <2>1, KnownGrows DEF QueuesOK
  <2>3. CASE UNCHANGED tx /\ conn' = [conn EXCEPT ![Controller] = "READY"]
    <3>1. conn' \in [Node -> ConnState] /\ ReadyIsKnown'
      BY <1>1, <2>1, <2>3 DEF ReadyIsKnown
    <3> QED
      BY <1>1, <2>1, <2>2, <2>3, <3>1, KnownGrows, Assemble
  <2>4. CASE Sent(Controller, Broadcast, "REG") /\ UNCHANGED conn
    <3>1. tx' \in [Node -> Seq(Frame)] /\ tx'[Controller] \in Seq(KnownFrame')
      BY <2>1, <2>4, SentKeeps
    <3> QED
      BY <1>1, <2>1, <2>2, <2>4, <3>1, Assemble DEF ReadyIsKnown
  <2>5. CASE UNCHANGED tx /\ UNCHANGED conn
    BY <1>1, <2>1, <2>2, <2>5, KnownGrows, Assemble DEF ReadyIsKnown
  <2> QED
    BY <1>6, <2>3, <2>4, <2>5 DEF ControllerIdle, Refused
<1> QED
  BY <1>2, <1>3, <1>4, <1>5, <1>6 DEF ControllerTask

\* The network task of a client.
LEMMA ClientStep == ASSUME NEW c \in Client PROVE KInv /\ ClientTask(c) => KInv'
<1> SUFFICES ASSUME KInv, ClientTask(c) PROVE KInv'
  OBVIOUS
<1> USE DEF ConnState
<1>0. UNCHANGED power /\ restarts' = restarts /\ PowerOK'
  <2>1. UNCHANGED power
    BY DEF ClientTask, ClientSent, ClientReceiveReg, ClientReceiveAck
  <2> QED
    BY <2>1, PowerKeeps
<1> USE <1>0
<1>1. /\ conn \in [Node -> ConnState]
      /\ clients \in [Client -> ConnState]
      /\ tx \in [Node -> Seq(Frame)]
      /\ ReadyIsKnown
  BY TypeParts DEF KInv
<1>2. UNCHANGED clients /\ \E e : Take(c, e)
  BY DEF ClientTask, ClientSent, ClientReceiveReg, ClientReceiveAck
<1>3. QueuesOK' /\ \A d \in Client : events'[d] \in Seq(KnownEvent(d)')
  BY <1>2, TakeKeeps
<1>4. CASE ClientSent(c)
  <2>1. /\ UNCHANGED tx
        /\ conn' \in [Node -> ConnState]
        /\ \A d \in Client : conn'[d] = "READY" => conn[d] = "READY"
    BY <1>1, <1>4 DEF ClientSent
  <2> QED
    BY <1>1, <1>2, <1>3, <2>1, KnownGrows, Assemble DEF ReadyIsKnown
<1>5. CASE ClientReceiveReg(c)
  <2>1. CASE Sent(c, Controller, "REG_ACK") /\ conn' = [conn EXCEPT ![c] = "REG_ACK"]
    <3>1. tx' \in [Node -> Seq(Frame)] /\ tx'[Controller] \in Seq(KnownFrame')
      BY <1>2, <2>1, SentKeeps
    <3>2. conn' \in [Node -> ConnState] /\ ReadyIsKnown'
      BY <1>1, <1>2, <2>1 DEF ReadyIsKnown
    <3> QED
      BY <1>1, <1>2, <1>3, <3>1, <3>2, Assemble
  <2>2. CASE UNCHANGED <<conn, tx>>
    BY <1>1, <1>2, <1>3, <2>2, KnownGrows, Assemble DEF ReadyIsKnown
  <2> QED
    BY <1>5, <2>1, <2>2 DEF ClientReceiveReg, Refused
\* The client has the REG_ACK the controller sent it: it is known.
<1>6. CASE ClientReceiveAck(c)
  <2>1. /\ Take(c, Received(Controller, "REG_ACK"))
        /\ conn' = [conn EXCEPT ![c] = IF @ = "REG_ACK" THEN "READY" ELSE @]
        /\ UNCHANGED tx
    BY <1>6 DEF ClientReceiveAck
  <2>2. Received(Controller, "REG_ACK") \in KnownEvent(c)
    BY <1>2, <2>1, TakeKeeps
  <2>3. restarts[Controller] = 0 => clients[c] # "REG"
    BY <2>2 DEF KnownEvent
  <2>4. conn' \in [Node -> ConnState] /\ ReadyIsKnown'
    BY <1>1, <1>2, <2>1, <2>3 DEF ReadyIsKnown
  <2> QED
    BY <1>1, <1>2, <1>3, <2>1, <2>4, KnownGrows, Assemble
<1> QED
  BY <1>4, <1>5, <1>6 DEF ClientTask

\* A frame gets its status: the frames keep their destination and type.
LEMMA StatusKeeps ==
  ASSUME KInv, NEW n \in Node, tx[n] # <<>>, NEW st \in {"success", "fail"},
         tx' = [tx EXCEPT ![n][1].status = st], UNCHANGED <<clients, power>>
  PROVE  tx' \in [Node -> Seq(Frame)] /\ tx'[Controller] \in Seq(KnownFrame')
<1> DEFINE f == [tx[n][1] EXCEPT !.status = st]
<1>1. tx \in [Node -> Seq(Frame)] /\ tx[Controller] \in Seq(KnownFrame')
  BY TypeParts, KnownGrows DEF KInv
<1>2. 1 \in 1 .. Len(tx[n])
  BY <1>1, EmptySeq
<1>3. tx[n][1] \in Frame /\ (n = Controller => tx[n][1] \in KnownFrame')
  BY <1>1, <1>2, ElementOfSeq
<1>4. f \in Frame /\ (n = Controller => f \in KnownFrame')
  BY <1>3 DEF Frame, KnownFrame
<1>5. tx' = [tx EXCEPT ![n] = [tx[n] EXCEPT ![1] = f]]
  OBVIOUS
<1> HIDE DEF f
<1>6. [tx[n] EXCEPT ![1] = f] \in Seq(Frame)
  BY <1>1, <1>2, <1>4, ExceptSeq
<1>7. n = Controller => [tx[n] EXCEPT ![1] = f] \in Seq(KnownFrame')
  BY <1>1, <1>2, <1>4, ExceptSeq
<1> QED
  BY <1>1, <1>5, <1>6, <1>7

\* A callback that puts an event on a queue preserves what the invariant says of
\* the queues, when a REG_ACK of the controller goes to a known client.
LEMMA CallbackKeeps ==
  ASSUME KInv, UNCHANGED <<clients, power>>, NEW N \in SUBSET Node, NEW e \in Event,
         events' = [n \in Node |-> IF n \in N THEN Queued(n, e) ELSE events[n]],
         e = Received(Controller, "REG_ACK") /\ restarts[Controller] = 0
           => \A c \in N \cap Client : clients[c] # "REG"
  PROVE  QueuesOK' /\ \A c \in Client : events'[c] \in Seq(KnownEvent(c)')
<1>1. QueuesOK /\ \A c \in Client : events[c] \in Seq(KnownEvent(c)')
  BY TypeParts, KnownGrows DEF KInv
<1>2. \A n \in Node : Queued(n, e) \in Seq(Event) /\ Len(Queued(n, e)) <= QUEUE_SIZE
  BY <1>1, QueuedSeq DEF QueuesOK
<1>3. QueuesOK'
  BY <1>1, <1>2 DEF QueuesOK
<1>4. ASSUME NEW c \in Client PROVE events'[c] \in Seq(KnownEvent(c)')
  <2>1. CASE c \in N
    <3>1. e \in KnownEvent(c)'
      BY <2>1 DEF KnownEvent, power
    <3> QED
      BY <1>1, <2>1, <3>1, QueuedSeq DEF QueuesOK
  <2>2. CASE c \notin N
    BY <1>1, <2>2
  <2> QED
    BY <2>1, <2>2
<1> QED
  BY <1>3, <1>4

\* The radio and the send callback.
LEMMA RadioStep ==
  ASSUME NEW n \in Node PROVE KInv /\ (Transmit(n) \/ SendCallback(n)) => KInv'
<1> SUFFICES ASSUME KInv, Transmit(n) \/ SendCallback(n) PROVE KInv'
  OBVIOUS
<1> DEFINE f == Head(tx[n])
<1>0. UNCHANGED power /\ restarts' = restarts /\ PowerOK'
  <2>1. UNCHANGED power
    BY DEF Transmit, TransmitBroadcast, TransmitUnicast, SendCallback
  <2> QED
    BY <2>1, PowerKeeps
<1> USE <1>0
<1>1. /\ conn \in [Node -> ConnState]
      /\ clients \in [Client -> ConnState]
      /\ events \in [Node -> Seq(Event)]
      /\ tx \in [Node -> Seq(Frame)]
      /\ tx[Controller] \in Seq(KnownFrame)
      /\ ReadyIsKnown
  BY TypeParts DEF KInv, AcksAreKnown, QueuesOK
<1>2. tx[n] # <<>> /\ UNCHANGED <<conn, clients>>
  BY DEF Transmit, TransmitBroadcast, TransmitUnicast, SendCallback, SendCallbackDue
<1>3. f \in Frame /\ (n = Controller => f \in KnownFrame)
  BY <1>1, <1>2, HeadTailProperties
<1>4. Received(n, f.type) \in Event
  BY <1>3 DEF Received, Event, ReceiveEvent, Frame
<1>5. ReadyIsKnown' /\ conn' \in [Node -> ConnState] /\ clients' \in [Client -> ConnState]
  BY <1>1, <1>2 DEF ReadyIsKnown
\* What arrives as a REG_ACK of the controller left it as one.
<1>6. Received(n, f.type) = Received(Controller, "REG_ACK") /\ restarts[Controller] = 0
        => f.to \in Client /\ clients[f.to] # "REG"
  BY <1>3 DEF Received, KnownFrame
<1>7. ASSUME NEW heard \in SUBSET Client, TransmitBroadcast(n, heard) PROVE KInv'
  <2>1. /\ f.to = Broadcast
        /\ tx' = [tx EXCEPT ![n][1].status = "success"]
        /\ events' = [c \in Node |-> IF c \in heard THEN Queued(c, Received(n, f.type))
                                     ELSE events[c]]
    BY <1>7 DEF TransmitBroadcast
  <2>2. QueuesOK' /\ \A c \in Client : events'[c] \in Seq(KnownEvent(c)')
    BY <1>2, <1>4, <1>6, <2>1, CallbackKeeps
  <2>3. tx' \in [Node -> Seq(Frame)] /\ tx'[Controller] \in Seq(KnownFrame')
    BY <1>2, <2>1, StatusKeeps
  <2> QED
    BY <1>5, <2>2, <2>3, Assemble
<1>8. ASSUME NEW received \in BOOLEAN, NEW acked \in BOOLEAN,
             TransmitUnicast(n, received, acked)
      PROVE  KInv'
  <2> DEFINE N == IF received THEN {f.to} ELSE {}
  <2>1. /\ f.to # Broadcast
        /\ tx' = [tx EXCEPT ![n][1].status = IF acked THEN "success" ELSE "fail"]
        /\ events' = IF received
                     THEN [events EXCEPT ![f.to] = Queued(f.to, Received(n, f.type))]
                     ELSE events
    BY <1>8 DEF TransmitUnicast
  <2>2. f.to \in Node
    BY <1>3, <2>1 DEF Frame
  <2>3. events' = [m \in Node |-> IF m \in N THEN Queued(m, Received(n, f.type))
                                  ELSE events[m]]
    BY <1>1, <2>1, <2>2
  <2>4. QueuesOK' /\ \A c \in Client : events'[c] \in Seq(KnownEvent(c)')
    BY <1>2, <1>4, <1>6, <2>2, <2>3, CallbackKeeps
  <2>5. tx' \in [Node -> Seq(Frame)] /\ tx'[Controller] \in Seq(KnownFrame')
    BY <1>2, <2>1, StatusKeeps
  <2> QED
    BY <1>5, <2>4, <2>5, Assemble
<1>9. CASE SendCallback(n)
  <2> DEFINE e == [kind |-> "send", to |-> f.to, ok |-> f.status = "success"]
  <2>1. /\ events' = [events EXCEPT ![n] = Queued(n, e)]
        /\ tx' = [tx EXCEPT ![n] = Tail(tx[n])]
    BY <1>9 DEF SendCallback
  <2>2. e \in Event /\ e # Received(Controller, "REG_ACK")
    BY <1>3 DEF Event, SendEvent, Frame, Received
  <2>3. events' = [m \in Node |-> IF m \in {n} THEN Queued(m, e) ELSE events[m]]
    BY <1>1, <2>1
  <2>4. QueuesOK' /\ \A c \in Client : events'[c] \in Seq(KnownEvent(c)')
    <3> HIDE DEF e
    <3> QED
      BY <1>2, <2>2, <2>3, CallbackKeeps
  <2>5. Tail(tx[n]) \in Seq(Frame) /\ (n = Controller => Tail(tx[n]) \in Seq(KnownFrame'))
    BY <1>1, <1>2, KnownGrows, HeadTailProperties
  <2>6. tx' \in [Node -> Seq(Frame)] /\ tx'[Controller] \in Seq(KnownFrame')
    BY <1>1, <1>2, <2>1, <2>5, KnownGrows
  <2> QED
    BY <1>5, <2>4, <2>6, Assemble
<1> QED
  BY <1>7, <1>8, <1>9 DEF Transmit

\* A start changes no more than the power; a restart empties what the node held, and
\* after a restart of the controller what it had sent no longer counts.
LEMMA PowerStep ==
  ASSUME NEW n \in Node PROVE KInv /\ (Start(n) \/ Restart(n)) => KInv'
<1> SUFFICES ASSUME KInv, Start(n) \/ Restart(n) PROVE KInv'
  OBVIOUS
<1>1. /\ conn \in [Node -> ConnState]
      /\ clients \in [Client -> ConnState]
      /\ QueuesOK
      /\ tx \in [Node -> Seq(Frame)]
      /\ tx[Controller] \in Seq(KnownFrame)
      /\ \A c \in Client : events[c] \in Seq(KnownEvent(c))
      /\ ReadyIsKnown
      /\ PowerOK
  BY TypeParts DEF KInv, AcksAreKnown
<1>2. CASE Start(n)
  <2>1. UNCHANGED <<conn, clients, events, tx, restarts>> /\ PowerOK'
    BY <1>1, <1>2 DEF Start, PowerOK
  <2>2. QueuesOK' /\ ReadyIsKnown'
    BY <1>1, <2>1 DEF QueuesOK, ReadyIsKnown
  <2>3. KnownFrame' = KnownFrame /\ \A c \in Client : KnownEvent(c)' = KnownEvent(c)
    BY <2>1 DEF KnownFrame, KnownEvent
  <2> QED
    BY <1>1, <2>1, <2>2, <2>3, Assemble
<1>3. CASE Restart(n)
  <2>1. /\ conn' = [conn EXCEPT ![n] = "REG"]
        /\ events' = [events EXCEPT ![n] = <<>>]
        /\ tx' = [tx EXCEPT ![n] = <<>>]
        /\ clients' = IF n = Controller THEN [c \in Client |-> "REG"] ELSE clients
        /\ restarts' = [restarts EXCEPT ![n] = @ + 1]
    BY <1>3 DEF Restart
  <2>2. PowerOK'
    BY <1>1, <1>3 DEF Restart, PowerOK
  <2>3. \A S : <<>> \in Seq(S) /\ Len(<<>>) = 0
    BY EmptySeq
  <2>4. QueuesOK'
    BY <1>1, <2>1, <2>3 DEF QueuesOK
  <2>5. /\ conn' \in [Node -> ConnState]
        /\ clients' \in [Client -> ConnState]
        /\ tx' \in [Node -> Seq(Frame)]
    BY <1>1, <2>1, <2>3 DEF ConnState
  \* Nothing is claimed of a controller that has restarted.
  <2>6. CASE n = Controller
    <3>1. restarts'[Controller] # 0
      BY <1>1, <2>1, <2>6 DEF PowerOK
    <3>2. \A c \in Client : KnownEvent(c)' = Event
      BY <3>1 DEF KnownEvent, Event, SendEvent, ReceiveEvent
    <3>3. tx'[Controller] \in Seq(KnownFrame')
      BY <1>1, <2>1, <2>3, <2>6
    <3>4. \A c \in Client : events'[c] \in Seq(KnownEvent(c)')
      BY <2>4, <3>2 DEF QueuesOK
    <3>5. ReadyIsKnown'
      BY <3>1 DEF ReadyIsKnown
    <3> QED
      BY <2>2, <2>4, <2>5, <3>3, <3>4, <3>5, Assemble
  <2>7. CASE n # Controller
    <3>1. UNCHANGED clients /\ restarts'[Controller] = restarts[Controller]
      BY <1>1, <2>1, <2>7 DEF PowerOK
    <3>2. KnownFrame' = KnownFrame /\ \A c \in Client : KnownEvent(c)' = KnownEvent(c)
      BY <3>1 DEF KnownFrame, KnownEvent
    <3>3. tx'[Controller] \in Seq(KnownFrame')
      BY <1>1, <2>1, <2>7, <3>2
    <3>4. \A c \in Client : events'[c] \in Seq(KnownEvent(c)')
      BY <1>1, <2>1, <2>3, <3>2 DEF QueuesOK
    <3>5. ReadyIsKnown'
      BY <1>1, <2>1, <3>1 DEF ReadyIsKnown
    <3> QED
      BY <2>2, <2>4, <2>5, <3>3, <3>4, <3>5, Assemble
  <2> QED
    BY <2>6, <2>7
<1> QED
  BY <1>2, <1>3

\* Every step of the network preserves the invariant.
LEMMA StepKInv == KInv /\ [Next]_vars => KInv'
<1> SUFFICES ASSUME KInv, [Next]_vars PROVE KInv'
  OBVIOUS
<1>1. CASE Next
  BY <1>1, ControllerStep, ClientStep, RadioStep, PowerStep DEF Next
<1>2. CASE UNCHANGED vars
  BY <1>2 DEF vars, power, KInv, TypeOK, AcksAreKnown, KnownFrame, KnownEvent, ReadyIsKnown
<1> QED
  BY <1>1, <1>2

-----------------------------------------------------------------------------
(* The theorems                                                            *)

\* The inductive invariant holds in every reachable state.
THEOREM KInvHolds == Spec => []KInv
BY InitKInv, StepKInv, PTL DEF Spec

\* The states of the nodes, the event queues and the frames in the driver are
\* always well formed, and no callback overfills an event queue.
THEOREM TypeCorrect == Spec => []TypeOK
<1>1. KInv => TypeOK
  BY DEF KInv
<1> QED
  BY <1>1, KInvHolds, PTL

\* Whatever is lost, refused, repeated or given up and whichever clients restart, a
\* client never believes it is connected while a controller that has not restarted
\* still holds it for unregistered.
THEOREM ReadyClientsAreKnown == Spec => []ReadyIsKnown
<1>1. KInv => ReadyIsKnown
  BY DEF KInv
<1> QED
  BY <1>1, KInvHolds, PTL

-----------------------------------------------------------------------------
(***************************************************************************)
(* What holds when every frame that is acknowledged was received and every *)
(* event finds room, with frames lost and sends refused.                   *)
(***************************************************************************)

\* A client that has not restarted.
Fresh(c) == restarts[c] = 0

\* The results of its own sends that a client has yet to read.
SendAt(c) == {i \in DOMAIN events[c] : events[c][i].kind = "send"}

\* A client has at most one REG_ACK in the driver or in its event queue, and none in
\* its first state.
OneOutstanding(c) ==
  /\ conn[c] = "REG" => tx[c] = <<>> /\ SendAt(c) = {}
  /\ Len(tx[c]) <= 1
  /\ tx[c] # <<>> => SendAt(c) = {}
  /\ \A i, j \in SendAt(c) : i = j

\* The REG_ACK of a client has been acknowledged: it sends no other.
Acked(c) ==
  /\ conn[c] # "REG"
  /\ \A i \in DOMAIN tx[c] : tx[c][i].status = "success"
  /\ \A i \in SendAt(c) : events[c][i].ok

\* The answer of the controller has reached the client.
Answered(c) == conn[c] = "READY" \/ AckQueued(c)

\* A frame of the controller to a client answers a REG_ACK of the client, and one that
\* counts as sent has reached it.
Answer(f) ==
  f.to \in Client =>
    /\ f.type = "REG_ACK"
    /\ Fresh(f.to) => Acked(f.to) /\ (f.status = "success" => Answered(f.to))

\* The same of the events of the controller.
Heard(e) ==
  /\ e.kind = "send" /\ e.to \in Client /\ Fresh(e.to) => Acked(e.to) /\ (e.ok => Answered(e.to))
  /\ e.kind = "receive" /\ e.from \in Client /\ Fresh(e.from) => Acked(e.from)

FromClient(c, i) == events[Controller][i] = Received(c, "REG_ACK")

\* The inductive invariant, besides TypeOK.  A client sends nothing but REG_ACKs to the
\* controller, one at a time; ...
ClientFrames ==
  \A c \in Client : \A i \in DOMAIN tx[c] : tx[c][i].to = Controller /\ tx[c][i].type = "REG_ACK"
OneEach == \A c \in Client : Fresh(c) => OneOutstanding(c)
\* ... what the controller sends, reads and has in its table comes from a REG_ACK that was
\* acknowledged; ...
Answers == \A i \in DOMAIN tx[Controller] : Answer(tx[Controller][i])
Hears == \A i \in DOMAIN events[Controller] : Heard(events[Controller][i])
Table ==
  \A c \in Client : Fresh(c) =>
    /\ clients[c] # "REG" => Acked(c)
    /\ clients[c] = "READY" => Answered(c)
\* ... and that REG_ACK is heard once, from a client that was not known before.
HeardOnce ==
  \A c \in Client, i \in DOMAIN events[Controller] :
    Fresh(c) /\ FromClient(c, i) =>
      /\ clients[c] = "REG"
      /\ \A j \in DOMAIN events[Controller] : FromClient(c, j) => i = j

RInv == ClientFrames /\ OneEach /\ Answers /\ Hears /\ Table /\ HeardOnce
ReadyInv == TypeOK /\ RInv

\* Nothing is acknowledged that was not received, and no event is given up.
Reliable == Faults \cap {"ackloss", "drop", "nomem"} = {}

-----------------------------------------------------------------------------
USE NodeAssumption, SizeAssumption DEF Node, Broadcast

(* Sequences, by their indices.                                            *)

LEMMA TakeIndex ==
  ASSUME NEW S, NEW n \in Node, NEW e, Take(n, e), n \in DOMAIN events, events[n] \in Seq(S)
  PROVE  /\ 1 \in DOMAIN events[n] /\ events[n][1] = e
         /\ events' = [events EXCEPT ![n] = events'[n]]
         /\ \A i \in DOMAIN events'[n] :
              i \in Nat \ {0} /\ i + 1 \in DOMAIN events[n] /\ events'[n][i] = events[n][i + 1]
         /\ \A i \in DOMAIN events[n] :
              i # 1 => i - 1 \in DOMAIN events'[n] /\ events'[n][i - 1] = events[n][i]
<1>1. events[n] # <<>> /\ Head(events[n]) = e /\ events'[n] = Tail(events[n])
  BY DEF Take
<1>2. events' = [events EXCEPT ![n] = events'[n]]
  BY DEF Take
<1>3. \A s \in Seq(S) : s # <<>> =>
        /\ 1 \in DOMAIN s /\ s[1] = Head(s)
        /\ \A i \in DOMAIN Tail(s) : i \in Nat \ {0} /\ i + 1 \in DOMAIN s /\ Tail(s)[i] = s[i + 1]
        /\ \A i \in DOMAIN s : i # 1 => i - 1 \in DOMAIN Tail(s) /\ Tail(s)[i - 1] = s[i]
  OBVIOUS
<1>4. /\ 1 \in DOMAIN events[n] /\ events[n][1] = Head(events[n])
      /\ \A i \in DOMAIN Tail(events[n]) :
           i \in Nat \ {0} /\ i + 1 \in DOMAIN events[n] /\ Tail(events[n])[i] = events[n][i + 1]
      /\ \A i \in DOMAIN events[n] : i # 1 =>
           i - 1 \in DOMAIN Tail(events[n]) /\ Tail(events[n])[i - 1] = events[n][i]
  BY <1>1, <1>3, Zenon
<1> QED BY <1>1, <1>2, <1>4, Zenon

LEMMA AppendIndex ==
  ASSUME NEW S, NEW s \in Seq(S), NEW e, NEW r, r = Append(s, e)
  PROVE  /\ DOMAIN s \subseteq DOMAIN r /\ \A i \in DOMAIN s : r[i] = s[i]
         /\ Len(s) + 1 \in DOMAIN r /\ Len(s) + 1 \notin DOMAIN s /\ r[Len(s) + 1] = e
         /\ \A i \in DOMAIN r : i \in DOMAIN s \/ i = Len(s) + 1
OBVIOUS

LEMMA TailIndex ==
  ASSUME NEW S, NEW s \in Seq(S), s # <<>>
  PROVE  /\ 1 \in DOMAIN s /\ Head(s) = s[1]
         /\ \A i \in DOMAIN Tail(s) : i + 1 \in DOMAIN s /\ Tail(s)[i] = s[i + 1]
         /\ Len(s) <= 1 => Tail(s) = <<>>
OBVIOUS

-----------------------------------------------------------------------------
(* What a step does to the clients it leaves alone.                        *)

Untouched(c) ==
  conn'[c] = conn[c] /\ tx'[c] = tx[c] /\ events'[c] = events[c] /\ restarts'[c] = restarts[c]

LEMMA ClientUntouched ==
  ASSUME NEW c \in Client, Untouched(c)
  PROVE  /\ Fresh(c)' <=> Fresh(c)
         /\ OneOutstanding(c)' <=> OneOutstanding(c)
         /\ Acked(c)' <=> Acked(c)
         /\ Answered(c)' <=> Answered(c)
BY DEF Untouched, Fresh, OneOutstanding, SendAt, Acked, Answered, AckQueued, Received

\* A step that takes nothing back from a client that has been acknowledged.
Keeps(c) ==
  Fresh(c)' => /\ Fresh(c)
               /\ OneOutstanding(c)'
               /\ Acked(c) => Acked(c)' /\ (Answered(c) => Answered(c)')

LEMMA UntouchedKeeps ==
  ASSUME OneEach, NEW c \in Client, Untouched(c) PROVE Keeps(c)
BY ClientUntouched DEF Keeps, OneEach

LEMMA KeepsJustified ==
  ASSUME \A c \in Client : Keeps(c)
  PROVE  /\ OneEach'
         /\ \A f : Answer(f) => Answer(f)'
         /\ \A e : Heard(e) => Heard(e)'
BY DEF Keeps, OneEach, Answer, Heard

-----------------------------------------------------------------------------
(* The network task of the controller.                                     *)

\* Taking an event justifies it, and leaves the clients and the rest of the queue.
LEMMA ControllerTakes ==
  ASSUME ReadyInv, NEW e, Take(Controller, e), UNCHANGED power,
         \A c \in Client : conn'[c] = conn[c] /\ tx'[c] = tx[c]
  PROVE  /\ Heard(e)
         /\ \A c \in Client : Untouched(c) /\ Keeps(c)
         /\ ClientFrames' /\ OneEach' /\ Hears'
         /\ \A c \in Client, i \in DOMAIN events'[Controller] : FromClient(c, i)' =>
              i + 1 \in DOMAIN events[Controller] /\ FromClient(c, i + 1)
         /\ \A i \in DOMAIN events'[Controller] : i \in Nat \ {0}
         /\ 1 \in DOMAIN events[Controller] /\ events[Controller][1] = e
<1>1. /\ events \in [Node -> Seq(Event)] /\ restarts' = restarts /\ Controller \in Node
  BY TypeParts DEF ReadyInv, QueuesOK, power
<1>2. /\ 1 \in DOMAIN events[Controller] /\ events[Controller][1] = e
      /\ events' = [events EXCEPT ![Controller] = events'[Controller]]
      /\ \A i \in DOMAIN events'[Controller] :
           i \in Nat \ {0} /\ i + 1 \in DOMAIN events[Controller]
           /\ events'[Controller][i] = events[Controller][i + 1]
  BY <1>1, TakeIndex
<1>3. Heard(e)
  BY <1>2 DEF ReadyInv, RInv, Hears
<1>4. \A c \in Client : Untouched(c)
  BY <1>1, <1>2 DEF Untouched
<1>5. \A c \in Client : Keeps(c)
  BY <1>4, UntouchedKeeps DEF ReadyInv, RInv
<1>6. ClientFrames'
  BY DEF ReadyInv, RInv, ClientFrames
<1>7. Hears'
  BY <1>2, <1>5, KeepsJustified DEF ReadyInv, RInv, Hears
<1>8. \A c \in Client, i \in DOMAIN events'[Controller] : FromClient(c, i)' =>
        i + 1 \in DOMAIN events[Controller] /\ FromClient(c, i + 1)
  BY <1>2 DEF FromClient, Received
<1> QED
  BY <1>2, <1>3, <1>4, <1>5, <1>6, <1>7, <1>8, KeepsJustified

\* A client that keeps its state in the table keeps what it relies on.
LEMMA TableKeeps ==
  ASSUME Table, \A c \in Client : Keeps(c),
         NEW c \in Client, clients'[c] \in {clients[c], "REG"}, Fresh(c)'
  PROVE  /\ clients'[c] # "REG" => Acked(c)'
         /\ clients'[c] = "READY" => Answered(c)'
BY DEF Table, Keeps

\* A frame that is accepted joins frames that stay justified.
LEMMA SendAnswers ==
  ASSUME ReadyInv, \A c \in Client : Keeps(c),
         NEW to, NEW type, Sent(Controller, to, type),
         to \in Client => type = "REG_ACK" /\ (Fresh(to) => Acked(to))
  PROVE  Answers' /\ \A c \in Client : tx'[c] = tx[c]
<1> DEFINE f == [to |-> to, type |-> type, status |-> "waiting"]
<1>1. tx \in [Node -> Seq(Frame)] /\ Controller \in Node
  BY DEF ReadyInv, TypeOK
<1>2. tx' = [tx EXCEPT ![Controller] = Append(tx[Controller], f)]
  BY DEF Sent
<1>3. Answer(f)
  BY DEF Answer
<1>4. \A g : g = f \/ (\E i \in DOMAIN tx[Controller] : g = tx[Controller][i]) => Answer(g)'
  <2>1. \A i \in DOMAIN tx[Controller] : Answer(tx[Controller][i])
    BY DEF ReadyInv, RInv, Answers
  <2> HIDE DEF f
  <2> QED BY <1>3, <2>1, KeepsJustified
<1>5. tx'[Controller] = Append(tx[Controller], f)
  BY <1>1, <1>2
<1>6. \A i \in DOMAIN tx'[Controller] :
        tx'[Controller][i] = f \/ (i \in DOMAIN tx[Controller] /\ tx'[Controller][i] = tx[Controller][i])
  <2> HIDE DEF f
  <2> QED BY <1>1, <1>5, AppendIndex
<1>7. Answers'
  <2> HIDE DEF f
  <2> QED BY <1>4, <1>6 DEF Answers
<1> QED BY <1>1, <1>2, <1>7

\* The answers stay justified when the driver is left alone.
LEMMA AnswersStay ==
  ASSUME Answers, \A c \in Client : Keeps(c), tx'[Controller] = tx[Controller]
  PROVE  Answers'
BY KeepsJustified DEF Answers

\* When no client comes into the table, hearing a client once is left alone.
LEMMA OnceStays ==
  ASSUME HeardOnce, \A c \in Client : Keeps(c) /\ (clients[c] = "REG" => clients'[c] = "REG"),
         \A i \in DOMAIN events'[Controller] : i \in Nat \ {0},
         \A c \in Client, i \in DOMAIN events'[Controller] : FromClient(c, i)' =>
           i + 1 \in DOMAIN events[Controller] /\ FromClient(c, i + 1)
  PROVE  HeardOnce'
<1> SUFFICES ASSUME NEW c \in Client, NEW i \in DOMAIN events'[Controller],
                    Fresh(c)', FromClient(c, i)'
             PROVE  /\ clients'[c] = "REG"
                    /\ \A j \in DOMAIN events'[Controller] : FromClient(c, j)' => i = j
  BY DEF HeardOnce
<1>1. i + 1 \in DOMAIN events[Controller] /\ FromClient(c, i + 1) /\ Fresh(c)
  BY DEF Keeps
<1>2. ASSUME NEW j \in DOMAIN events'[Controller], FromClient(c, j)' PROVE i = j
  <2>1. i + 1 = j + 1
    BY <1>1, <1>2 DEF HeardOnce
  <2> QED BY <2>1
<1> QED BY <1>1, <1>2 DEF HeardOnce

LEMMA ControllerBroadcastReady ==
  ASSUME ReadyInv, ControllerBroadcastSent PROVE RInv'
<1>1. PICK e \in SendEvent : Take(Controller, e) /\ UNCHANGED <<conn, clients, tx, power>>
  BY DEF ControllerBroadcastSent
<1>2. \A c \in Client : conn'[c] = conn[c] /\ tx'[c] = tx[c]
  BY <1>1
<1>3. ClientFrames' /\ OneEach' /\ Hears' /\ \A c \in Client : Keeps(c)
  BY <1>1, <1>2, ControllerTakes
<1>4. Answers' /\ Table'
  BY <1>1, <1>3, AnswersStay, TableKeeps DEF ReadyInv, RInv, Table
<1>5. HeardOnce'
  BY <1>1, <1>2, ControllerTakes, OnceStays DEF ReadyInv, RInv
<1> QED BY <1>3, <1>4, <1>5 DEF RInv

LEMMA ControllerAckSentReady ==
  ASSUME ReadyInv, NEW c \in Client, ControllerAckSent(c) PROVE RInv'
<1> DEFINE e == [kind |-> "send", to |-> c, ok |-> TRUE]
<1>1. /\ Take(Controller, e)
      /\ clients' = [clients EXCEPT ![c] = IF @ = "REG_ACK" THEN "READY" ELSE @]
      /\ UNCHANGED <<conn, tx, power>>
  BY DEF ControllerAckSent
<1>2. \A d \in Client : conn'[d] = conn[d] /\ tx'[d] = tx[d]
  BY <1>1
<1>3. /\ ClientFrames' /\ OneEach' /\ Hears' /\ \A d \in Client : Keeps(d)
      /\ Heard(e)
  BY <1>1, <1>2, ControllerTakes
<1>4. Answers'
  BY <1>1, <1>3, AnswersStay DEF ReadyInv, RInv
<1>5. /\ \A d \in Client \ {c} : clients'[d] = clients[d]
      /\ clients[c] = "REG" => clients'[c] = "REG"
  BY <1>1 DEF ReadyInv, TypeOK
<1>6. Fresh(c) => Acked(c) /\ Answered(c)
  BY <1>3 DEF Heard
<1>7. Table'
  <2> SUFFICES ASSUME NEW d \in Client, Fresh(d)'
               PROVE  /\ clients'[d] # "REG" => Acked(d)'
                      /\ clients'[d] = "READY" => Answered(d)'
    BY DEF Table
  <2>1. CASE d = c
    BY <1>3, <1>6, <2>1 DEF Keeps
  <2>2. CASE d # c
    BY <1>3, <1>5, <2>2, TableKeeps DEF ReadyInv, RInv
  <2> QED BY <2>1, <2>2
<1>8. HeardOnce'
  <2>1. \A d \in Client : Keeps(d) /\ (clients[d] = "REG" => clients'[d] = "REG")
    BY <1>3, <1>5
  <2> QED BY <1>1, <1>2, <2>1, ControllerTakes, OnceStays DEF ReadyInv, RInv
<1> QED BY <1>3, <1>4, <1>7, <1>8 DEF RInv

LEMMA ControllerAckFailedReady ==
  ASSUME ReadyInv, NEW c \in Client, ControllerAckFailed(c) PROVE RInv'
<1> DEFINE e == [kind |-> "send", to |-> c, ok |-> FALSE]
<1>1. /\ Take(Controller, e)
      /\ Sent(Controller, c, "REG_ACK") \/ UNCHANGED tx
      /\ UNCHANGED <<conn, clients, power>>
  BY DEF ControllerAckFailed, Refused
<1>2. \A d \in Client : conn'[d] = conn[d] /\ tx'[d] = tx[d]
  BY <1>1 DEF Sent, ReadyInv, TypeOK
<1>3. /\ ClientFrames' /\ OneEach' /\ Hears' /\ \A d \in Client : Keeps(d)
      /\ Heard(e)
  BY <1>1, <1>2, ControllerTakes
<1>4. Answers'
  <2>1. Fresh(c) => Acked(c)
    BY <1>3 DEF Heard
  <2> QED BY <1>1, <1>3, <2>1, AnswersStay, SendAnswers DEF ReadyInv, RInv
<1>5. Table'
  BY <1>1, <1>3, TableKeeps DEF ReadyInv, RInv, Table
<1>6. HeardOnce'
  BY <1>1, <1>2, ControllerTakes, OnceStays DEF ReadyInv, RInv
<1> QED BY <1>3, <1>4, <1>5, <1>6 DEF RInv

\* The REG_ACK of a client is answered: the client is not known before, and heard no
\* second time.
LEMMA ControllerReceiveReady ==
  ASSUME ReadyInv, NEW c \in Client, ControllerReceive(c) PROVE RInv'
<1> DEFINE e == Received(c, "REG_ACK")
<1>1. /\ Take(Controller, e)
      /\ \/ Sent(Controller, c, "REG_ACK") /\ clients' = [clients EXCEPT ![c] = "REG_ACK"]
         \/ UNCHANGED <<clients, tx>>
      /\ UNCHANGED <<conn, power>>
  BY DEF ControllerReceive, Refused
<1>2. \A d \in Client : conn'[d] = conn[d] /\ tx'[d] = tx[d]
  BY <1>1 DEF Sent, ReadyInv, TypeOK
<1>3. /\ ClientFrames' /\ OneEach' /\ Hears' /\ \A d \in Client : Keeps(d)
      /\ Heard(e)
      /\ \A d \in Client, i \in DOMAIN events'[Controller] : FromClient(d, i)' =>
           i + 1 \in DOMAIN events[Controller] /\ FromClient(d, i + 1)
      /\ \A i \in DOMAIN events'[Controller] : i \in Nat \ {0}
      /\ 1 \in DOMAIN events[Controller] /\ FromClient(c, 1)
  BY <1>1, <1>2, ControllerTakes DEF FromClient
<1>4. Fresh(c) => Acked(c)
  BY <1>3 DEF Heard, Received
<1>5. Answers'
  BY <1>1, <1>3, <1>4, AnswersStay, SendAnswers DEF ReadyInv, RInv
<1>6. /\ \A d \in Client \ {c} : clients'[d] = clients[d]
      /\ clients'[c] \in {clients[c], "REG_ACK"}
  BY <1>1 DEF ReadyInv, TypeOK
<1>7. Table'
  <2> SUFFICES ASSUME NEW d \in Client, Fresh(d)'
               PROVE  /\ clients'[d] # "REG" => Acked(d)'
                      /\ clients'[d] = "READY" => Answered(d)'
    BY DEF Table
  <2>1. CASE clients'[d] = clients[d]
    BY <1>3, <2>1, TableKeeps DEF ReadyInv, RInv
  <2>2. CASE clients'[d] # clients[d]
    BY <1>3, <1>4, <1>6, <2>2 DEF Keeps
  <2> QED BY <2>1, <2>2
<1>8. HeardOnce'
  <2> SUFFICES ASSUME NEW d \in Client, NEW i \in DOMAIN events'[Controller],
                      Fresh(d)', FromClient(d, i)'
               PROVE  /\ clients'[d] = "REG"
                      /\ \A j \in DOMAIN events'[Controller] : FromClient(d, j)' => i = j
    BY DEF HeardOnce
  <2>1. Fresh(d) /\ i + 1 \in DOMAIN events[Controller] /\ FromClient(d, i + 1)
    BY <1>3 DEF Keeps
  <2>2. d # c
    <3>1. ASSUME d = c PROVE FALSE
      <4>1. i + 1 = 1
        BY <1>3, <2>1, <3>1 DEF ReadyInv, RInv, HeardOnce
      <4> QED BY <1>3, <4>1
    <3> QED BY <3>1
  <2>3. ASSUME NEW j \in DOMAIN events'[Controller], FromClient(d, j)' PROVE i = j
    <3>1. j + 1 \in DOMAIN events[Controller] /\ FromClient(d, j + 1)
      BY <1>3, <2>3
    <3>2. i + 1 = j + 1
      BY <2>1, <3>1 DEF ReadyInv, RInv, HeardOnce
    <3> QED BY <1>3, <3>2
  <2>4. clients'[d] = "REG"
    BY <1>6, <2>1, <2>2 DEF ReadyInv, RInv, HeardOnce
  <2> QED BY <2>3, <2>4
<1> QED BY <1>3, <1>5, <1>7, <1>8 DEF RInv

\* Nobody has sent anything: the controller begins a round, or is done.
LEMMA ControllerIdleReady == ASSUME ReadyInv, ControllerIdle PROVE RInv'
<1>1. /\ Sent(Controller, Broadcast, "REG") \/ UNCHANGED tx
      /\ \A c \in Client : conn'[c] = conn[c]
      /\ UNCHANGED <<clients, events, power>>
  BY DEF ControllerIdle, Refused, ReadyInv, TypeOK
<1>2. \A c \in Client : Untouched(c) /\ Keeps(c)
  BY <1>1, UntouchedKeeps DEF Untouched, Sent, ReadyInv, TypeOK, RInv, power
<1>3. Answers'
  BY <1>1, <1>2, AnswersStay, SendAnswers DEF ReadyInv, RInv
<1>4. ClientFrames' /\ OneEach' /\ Table'
  BY <1>1, <1>2, KeepsJustified, TableKeeps DEF ReadyInv, RInv, ClientFrames, Untouched, Table
<1>5. Hears'
  BY <1>1, <1>2, KeepsJustified DEF ReadyInv, RInv, Hears
<1>6. HeardOnce'
  BY <1>1, <1>2 DEF ReadyInv, RInv, HeardOnce, FromClient, Received, Keeps
<1> QED BY <1>3, <1>4, <1>5, <1>6 DEF RInv

-----------------------------------------------------------------------------
(* The network task of a client.                                           *)

\* A step of one client that keeps what has been acknowledged changes nothing for the
\* controller and for the others.
LEMMA ClientAlone ==
  ASSUME ReadyInv, NEW c \in Client, Keeps(c),
         \A d \in Client \ {c} : Untouched(d),
         clients' = clients, events'[Controller] = events[Controller],
         tx'[Controller] = tx[Controller],
         \A i \in DOMAIN tx'[c] : tx'[c][i].to = Controller /\ tx'[c][i].type = "REG_ACK"
  PROVE  RInv'
<1>1. \A d \in Client : Keeps(d)
  BY UntouchedKeeps DEF ReadyInv, RInv
<1>2. OneEach' /\ Answers' /\ Table'
  BY <1>1, KeepsJustified, AnswersStay, TableKeeps DEF ReadyInv, RInv, Table
<1>3. Hears'
  BY <1>1, KeepsJustified DEF ReadyInv, RInv, Hears
<1>4. ClientFrames'
  BY DEF ReadyInv, RInv, ClientFrames, Untouched
<1>5. HeardOnce'
  BY <1>1 DEF ReadyInv, RInv, HeardOnce, FromClient, Received, Keeps
<1> QED BY <1>2, <1>3, <1>4, <1>5 DEF RInv

\* What taking an event does to the queue of a client.
LEMMA ClientTakes ==
  ASSUME ReadyInv, NEW c \in Client, NEW e, Take(c, e)
  PROVE  /\ \A n \in Node \ {c} : events'[n] = events[n]
         /\ 1 \in DOMAIN events[c] /\ events[c][1] = e
         /\ \A i \in DOMAIN events'[c] :
              i \in Nat \ {0} /\ i + 1 \in DOMAIN events[c] /\ events'[c][i] = events[c][i + 1]
         /\ \A i \in DOMAIN events[c] :
              i # 1 => i - 1 \in DOMAIN events'[c] /\ events'[c][i - 1] = events[c][i]
<1>1. events \in [Node -> Seq(Event)] /\ c \in Node
  BY TypeParts DEF ReadyInv, QueuesOK
<1>2. /\ events' = [events EXCEPT ![c] = events'[c]]
      /\ 1 \in DOMAIN events[c] /\ events[c][1] = e
      /\ \A i \in DOMAIN events'[c] :
           i \in Nat \ {0} /\ i + 1 \in DOMAIN events[c] /\ events'[c][i] = events[c][i + 1]
      /\ \A i \in DOMAIN events[c] :
           i # 1 => i - 1 \in DOMAIN events'[c] /\ events'[c][i - 1] = events[c][i]
  BY <1>1, TakeIndex
<1> QED BY <1>1, <1>2

\* The result of a REG_ACK: the client goes back only when it was not acknowledged.
LEMMA ClientSentReady ==
  ASSUME ReadyInv, NEW c \in Client, ClientSent(c) PROVE RInv'
<1>1. PICK ok \in BOOLEAN :
        /\ Take(c, [kind |-> "send", to |-> Controller, ok |-> ok])
        /\ conn' = [conn EXCEPT ![c] = IF ~ ok /\ @ = "REG_ACK" THEN "REG" ELSE @]
        /\ UNCHANGED <<clients, tx, power>>
  BY DEF ClientSent
<1> DEFINE e == [kind |-> "send", to |-> Controller, ok |-> ok]
<1>2. /\ \A n \in Node \ {c} : events'[n] = events[n]
      /\ 1 \in DOMAIN events[c] /\ events[c][1] = e
      /\ \A i \in DOMAIN events'[c] :
           i \in Nat \ {0} /\ i + 1 \in DOMAIN events[c] /\ events'[c][i] = events[c][i + 1]
      /\ \A i \in DOMAIN events[c] :
           i # 1 => i - 1 \in DOMAIN events'[c] /\ events'[c][i - 1] = events[c][i]
  BY <1>1, ClientTakes
<1>3. /\ \A d \in Client \ {c} : Untouched(d)
      /\ conn'[c] = IF ~ ok /\ conn[c] = "REG_ACK" THEN "REG" ELSE conn[c]
      /\ tx' = tx /\ restarts' = restarts
  BY <1>1, <1>2 DEF Untouched, power, ReadyInv, TypeOK
<1>4. Keeps(c)
  <2> SUFFICES ASSUME Fresh(c)'
               PROVE  /\ Fresh(c) /\ OneOutstanding(c)'
                      /\ Acked(c) => Acked(c)' /\ (Answered(c) => Answered(c)')
    BY DEF Keeps
  <2>1. Fresh(c) /\ OneOutstanding(c) /\ 1 \in SendAt(c)
    BY <1>2, <1>3 DEF Fresh, SendAt, ReadyInv, RInv, OneEach
  <2>2. tx[c] = <<>> /\ conn[c] # "REG"
    BY <2>1 DEF OneOutstanding
  <2>3. \A i \in DOMAIN events'[c] : events'[c][i].kind # "send"
    <3> SUFFICES ASSUME NEW i \in DOMAIN events'[c], events'[c][i].kind = "send" PROVE FALSE
      OBVIOUS
    <3>1. i + 1 \in SendAt(c) /\ i \in Nat \ {0}
      BY <1>2 DEF SendAt
    <3>2. i + 1 = 1
      BY <2>1, <3>1 DEF OneOutstanding
    <3> QED BY <3>1, <3>2
  <2>4. SendAt(c)' = {}
    BY <2>3 DEF SendAt
  <2>5. OneOutstanding(c)'
    BY <1>3, <2>2, <2>4 DEF OneOutstanding
  <2>6. ASSUME Acked(c) PROVE Acked(c)' /\ (Answered(c) => Answered(c)')
    <3>1. ok /\ conn'[c] = conn[c]
      BY <1>2, <1>3, <2>1, <2>6 DEF Acked, SendAt
    <3>2. Acked(c)'
      BY <1>3, <2>2, <2>4, <3>1 DEF Acked
    <3>3. ASSUME AckQueued(c) PROVE AckQueued(c)'
      <4>1. PICK i \in DOMAIN events[c] : events[c][i] = Received(Controller, "REG_ACK")
        BY <3>3 DEF AckQueued
      <4>2. i # 1
        BY <1>2, <4>1 DEF Received
      <4>3. i - 1 \in DOMAIN events'[c] /\ events'[c][i - 1] = Received(Controller, "REG_ACK")
        BY <1>2, <4>1, <4>2
      <4> QED BY <3>1, <3>3, <4>3 DEF AckQueued, Received
    <3> QED BY <3>1, <3>2, <3>3 DEF Answered
  <2> QED BY <2>1, <2>5, <2>6
<1> QED BY <1>1, <1>2, <1>3, <1>4, ClientAlone DEF ReadyInv, RInv, ClientFrames

\* The answer of the controller.
LEMMA ClientReceiveAckReady ==
  ASSUME ReadyInv, NEW c \in Client, ClientReceiveAck(c) PROVE RInv'
<1> DEFINE e == Received(Controller, "REG_ACK")
<1>1. /\ Take(c, e)
      /\ conn' = [conn EXCEPT ![c] = IF @ = "REG_ACK" THEN "READY" ELSE @]
      /\ UNCHANGED <<clients, tx, power>>
  BY DEF ClientReceiveAck
<1>2. /\ \A n \in Node \ {c} : events'[n] = events[n]
      /\ 1 \in DOMAIN events[c] /\ events[c][1] = e
      /\ \A i \in DOMAIN events'[c] :
           i \in Nat \ {0} /\ i + 1 \in DOMAIN events[c] /\ events'[c][i] = events[c][i + 1]
  BY <1>1, ClientTakes
<1>3. /\ \A d \in Client \ {c} : Untouched(d)
      /\ conn'[c] = IF conn[c] = "REG_ACK" THEN "READY" ELSE conn[c]
      /\ tx' = tx /\ restarts' = restarts
  BY <1>1, <1>2 DEF Untouched, power, ReadyInv, TypeOK
<1>4. Keeps(c)
  <2> SUFFICES ASSUME Fresh(c)'
               PROVE  /\ Fresh(c) /\ OneOutstanding(c)'
                      /\ Acked(c) => Acked(c)' /\ (Answered(c) => Answered(c)')
    BY DEF Keeps
  <2>1. Fresh(c) /\ OneOutstanding(c)
    BY <1>3 DEF Fresh, ReadyInv, RInv, OneEach
  <2>2. \A i \in SendAt(c)' : i \in Nat /\ i + 1 \in SendAt(c) /\ events'[c][i] = events[c][i + 1]
    BY <1>2 DEF SendAt
  <2>3. OneOutstanding(c)'
    <3>1. \A i, j \in SendAt(c)' : i = j
      <4> SUFFICES ASSUME NEW i \in SendAt(c)', NEW j \in SendAt(c)' PROVE i = j
        OBVIOUS
      <4>1. i + 1 = j + 1
        BY <2>1, <2>2 DEF OneOutstanding
      <4> QED BY <2>2, <4>1
    <3>2. SendAt(c) = {} => SendAt(c)' = {}
      BY <2>2
    <3> QED BY <1>3, <2>1, <3>1, <3>2 DEF OneOutstanding
  <2>4. Acked(c) => Acked(c)'
    BY <1>3, <2>2 DEF Acked
  <2>5. Acked(c) => Answered(c)'
    BY <1>3 DEF Acked, Answered, ReadyInv, TypeOK, ConnState
  <2> QED BY <2>1, <2>3, <2>4, <2>5
<1> QED BY <1>1, <1>2, <1>3, <1>4, ClientAlone DEF ReadyInv, RInv, ClientFrames

\* REG: a client in its first state has nothing outstanding, and sends its REG_ACK.
LEMMA ClientReceiveRegReady ==
  ASSUME ReadyInv, NEW c \in Client, ClientReceiveReg(c) PROVE RInv'
<1> DEFINE e == Received(Controller, "REG")
<1>1. /\ Take(c, e) /\ UNCHANGED <<clients, power>>
      /\ \/ conn[c] = "REG" /\ Sent(c, Controller, "REG_ACK") /\ conn' = [conn EXCEPT ![c] = "REG_ACK"]
         \/ UNCHANGED <<conn, tx>>
  BY DEF ClientReceiveReg, Refused
<1>2. /\ \A n \in Node \ {c} : events'[n] = events[n]
      /\ 1 \in DOMAIN events[c] /\ events[c][1] = e
      /\ \A i \in DOMAIN events'[c] :
           i \in Nat \ {0} /\ i + 1 \in DOMAIN events[c] /\ events'[c][i] = events[c][i + 1]
      /\ \A i \in DOMAIN events[c] :
           i # 1 => i - 1 \in DOMAIN events'[c] /\ events'[c][i - 1] = events[c][i]
  BY <1>1, ClientTakes
<1>3. /\ \A n \in Node \ {c} : conn'[n] = conn[n] /\ tx'[n] = tx[n] /\ restarts' = restarts
      /\ \A d \in Client \ {c} : Untouched(d)
  BY <1>1, <1>2 DEF Untouched, power, ReadyInv, TypeOK, Sent
<1>4. \A i \in SendAt(c)' : i \in Nat /\ i + 1 \in SendAt(c) /\ events'[c][i] = events[c][i + 1]
  BY <1>2 DEF SendAt
<1>5. ASSUME Fresh(c)
      PROVE  /\ \A i, j \in SendAt(c)' : i = j
             /\ SendAt(c) = {} => SendAt(c)' = {}
  <2>1. ASSUME NEW i \in SendAt(c)', NEW j \in SendAt(c)' PROVE i = j
    <3>1. i + 1 = j + 1
      BY <1>4, <1>5, <2>1 DEF OneOutstanding, ReadyInv, RInv, OneEach
    <3> QED BY <1>4, <2>1, <3>1
  <2> QED BY <1>4, <2>1
<1>6. CASE UNCHANGED <<conn, tx>>
  <2>1. Keeps(c)
    <3> SUFFICES ASSUME Fresh(c)'
                 PROVE  /\ Fresh(c) /\ OneOutstanding(c)'
                        /\ Acked(c) => Acked(c)' /\ (Answered(c) => Answered(c)')
      BY DEF Keeps
    <3>1. Fresh(c) /\ OneOutstanding(c)
      BY <1>3 DEF Fresh, ReadyInv, RInv, OneEach
    <3>2. OneOutstanding(c)'
      BY <1>5, <1>6, <3>1 DEF OneOutstanding
    <3>3. Acked(c) => Acked(c)'
      BY <1>4, <1>6 DEF Acked
    <3>4. ASSUME AckQueued(c) PROVE AckQueued(c)'
      <4>1. PICK i \in DOMAIN events[c] : events[c][i] = Received(Controller, "REG_ACK")
        BY <3>4 DEF AckQueued
      <4>2. i # 1
        BY <1>2, <4>1 DEF Received
      <4>3. i - 1 \in DOMAIN events'[c] /\ events'[c][i - 1] = Received(Controller, "REG_ACK")
        BY <1>2, <4>1, <4>2
      <4> QED BY <1>6, <3>4, <4>3 DEF AckQueued, Received
    <3> QED BY <1>6, <3>1, <3>2, <3>3, <3>4 DEF Answered
  <2> QED BY <1>1, <1>2, <1>3, <1>6, <2>1, ClientAlone DEF ReadyInv, RInv, ClientFrames
<1>7. CASE conn[c] = "REG" /\ Sent(c, Controller, "REG_ACK") /\ conn' = [conn EXCEPT ![c] = "REG_ACK"]
  <2> DEFINE f == [to |-> Controller, type |-> "REG_ACK", status |-> "waiting"]
  <2>1. tx'[c] = Append(tx[c], f) /\ conn'[c] = "REG_ACK" /\ tx[c] \in Seq(Frame)
    BY <1>7 DEF Sent, ReadyInv, TypeOK
  <2>2. \A i \in DOMAIN tx'[c] :
          tx'[c][i] = f \/ (i \in DOMAIN tx[c] /\ tx'[c][i] = tx[c][i])
    <3> HIDE DEF f
    <3> QED BY <2>1, AppendIndex
  <2>3. \A i \in DOMAIN tx'[c] : tx'[c][i].to = Controller /\ tx'[c][i].type = "REG_ACK"
    BY <2>2 DEF ReadyInv, RInv, ClientFrames
  <2>4. Keeps(c)
    <3> SUFFICES ASSUME Fresh(c)' PROVE Fresh(c) /\ OneOutstanding(c)' /\ ~ Acked(c)
      BY DEF Keeps
    <3>1. Fresh(c) /\ OneOutstanding(c)
      BY <1>3 DEF Fresh, ReadyInv, RInv, OneEach
    <3>2. tx[c] = <<>> /\ SendAt(c)' = {}
      BY <1>5, <1>7, <3>1 DEF OneOutstanding
    <3>3. Len(tx'[c]) <= 1
      BY <2>1, <3>2
    <3>4. OneOutstanding(c)'
      BY <2>1, <3>2, <3>3 DEF OneOutstanding
    <3> QED BY <1>7, <3>1, <3>4 DEF Acked
  <2> QED BY <1>1, <1>2, <1>3, <2>3, <2>4, ClientAlone
<1> QED BY <1>1, <1>6, <1>7

-----------------------------------------------------------------------------
(* The radio, the callbacks and the power switch.                          *)

\* The first frame of a node gets its status.
LEMMA StatusIndex ==
  ASSUME ReadyInv, NEW n \in Node, tx[n] # <<>>, NEW st \in {"success", "fail"},
         tx' = [tx EXCEPT ![n][1].status = st]
  PROVE  /\ \A m \in Node \ {n} : tx'[m] = tx[m]
         /\ Head(tx[n]) = tx[n][1] /\ 1 \in DOMAIN tx[n]
         /\ DOMAIN tx'[n] = DOMAIN tx[n] /\ Len(tx'[n]) = Len(tx[n]) /\ tx'[n] # <<>>
         /\ \A i \in DOMAIN tx[n] : tx'[n][i].to = tx[n][i].to /\ tx'[n][i].type = tx[n][i].type
         /\ tx'[n][1].status = st
         /\ \A i \in DOMAIN tx[n] : i # 1 => tx'[n][i] = tx[n][i]
<1>1. tx \in [Node -> Seq(Frame)] /\ tx[n] \in Seq(Frame) /\ Head(tx[n]) = tx[n][1]
      /\ 1 \in DOMAIN tx[n] /\ tx[n][1] \in Frame
  BY DEF ReadyInv, TypeOK
<1>2. tx'[n] = [tx[n] EXCEPT ![1] = [tx[n][1] EXCEPT !.status = st]]
      /\ \A m \in Node \ {n} : tx'[m] = tx[m]
  BY <1>1
<1>3. tx'[n] \in Seq(Frame) /\ Len(tx'[n]) = Len(tx[n]) /\ DOMAIN tx'[n] = DOMAIN tx[n]
  <2>1. [tx[n][1] EXCEPT !.status = st] \in Frame
    BY <1>1 DEF Frame
  <2> HIDE DEF Frame
  <2> QED BY <1>1, <1>2, <2>1
<1>4. /\ tx'[n][1] = [tx[n][1] EXCEPT !.status = st]
      /\ \A i \in DOMAIN tx[n] : i # 1 => tx'[n][i] = tx[n][i]
  BY <1>1, <1>2
<1>5. tx'[n][1].to = tx[n][1].to /\ tx'[n][1].type = tx[n][1].type /\ tx'[n][1].status = st
  BY <1>1, <1>4 DEF Frame
<1>6. tx'[n] # <<>>
  BY <1>1, <1>3
<1> QED BY <1>1, <1>2, <1>3, <1>4, <1>5, <1>6

\* A frame is queued for a client, which thereby loses nothing.
LEMMA HearsKeeps ==
  ASSUME ReadyInv, NEW c \in Client, NEW e \in ReceiveEvent,
         events'[c] \in {events[c], Append(events[c], e)},
         conn'[c] = conn[c], tx'[c] = tx[c], restarts'[c] = restarts[c]
  PROVE  Keeps(c)
<1>1. events[c] \in Seq(Event)
  BY TypeParts DEF ReadyInv, QueuesOK
<1>2. /\ DOMAIN events[c] \subseteq DOMAIN events'[c]
      /\ \A i \in DOMAIN events[c] : events'[c][i] = events[c][i]
      /\ \A i \in DOMAIN events'[c] : i \in DOMAIN events[c] \/ events'[c][i] = e
  <2>1. CASE events'[c] = events[c]
    BY <2>1
  <2>2. CASE events'[c] = Append(events[c], e)
    BY <1>1, <2>2, AppendIndex
  <2> QED BY <2>1, <2>2
<1>3. e.kind # "send"
  BY DEF ReceiveEvent
<1>4. SendAt(c)' = SendAt(c) /\ \A i \in SendAt(c) : events'[c][i] = events[c][i]
  BY <1>2, <1>3 DEF SendAt
<1>5. AckQueued(c) => AckQueued(c)'
  BY <1>2 DEF AckQueued, Received
<1>6. OneOutstanding(c) => OneOutstanding(c)'
  BY <1>4 DEF OneOutstanding
<1>7. Acked(c) => Acked(c)'
  BY <1>4 DEF Acked
<1> QED BY <1>5, <1>6, <1>7 DEF Keeps, Fresh, Answered, ReadyInv, RInv, OneEach

\* A broadcast, which only the controller sends.
LEMMA BroadcastReady ==
  ASSUME ReadyInv, NEW n \in Node, NEW heard \in SUBSET Client, TransmitBroadcast(n, heard)
  PROVE  RInv'
<1> USE DEF TransmitBroadcast
<1>1. n = Controller
  <2>1. \A c \in Client : tx[c] # <<>> => Head(tx[c]).to = Controller
    BY TailIndex DEF ReadyInv, RInv, TypeOK, ClientFrames
  <2> QED BY <2>1
<1>2. /\ \A m \in Client : tx'[m] = tx[m]
      /\ DOMAIN tx'[Controller] = DOMAIN tx[Controller]
      /\ tx'[Controller][1].to = Broadcast
      /\ \A i \in DOMAIN tx[Controller] : i # 1 => tx'[Controller][i] = tx[Controller][i]
  BY <1>1, StatusIndex
<1> DEFINE e == Received(Controller, Head(tx[Controller]).type)
<1>3. e \in ReceiveEvent
  <2>1. Head(tx[Controller]) \in Frame
    BY <1>1 DEF ReadyInv, TypeOK
  <2> QED BY <2>1, Zenon DEF Received, ReceiveEvent, Frame
<1>4. events'[Controller] = events[Controller]
      /\ \A c \in Client : events'[c] \in {events[c], Append(events[c], e)}
  BY <1>1 DEF Queued
<1>5. UNCHANGED <<conn, clients, restarts>>
  BY DEF power
<1>6. \A c \in Client : Keeps(c)
  <2> HIDE DEF e
  <2> QED BY <1>2, <1>3, <1>4, <1>5, HearsKeeps
<1>7. Answers'
  <2>1. \A i \in DOMAIN tx[Controller] : Answer(tx[Controller][i])
    BY DEF ReadyInv, RInv, Answers
  <2>2. \A f : f.to = Broadcast => Answer(f)'
    BY DEF Answer
  <2> QED BY <1>2, <1>6, <2>1, <2>2, KeepsJustified DEF Answers
<1>8. OneEach' /\ ClientFrames' /\ Table'
  BY <1>2, <1>5, <1>6, KeepsJustified, TableKeeps DEF ReadyInv, RInv, ClientFrames, Table
<1>9. Hears'
  BY <1>4, <1>6, KeepsJustified DEF ReadyInv, RInv, Hears
<1>10. HeardOnce'
  BY <1>4, <1>5, <1>6 DEF ReadyInv, RInv, HeardOnce, FromClient, Received, Keeps
<1> QED BY <1>7, <1>8, <1>9, <1>10 DEF RInv

\* The answer of the controller to a client: acknowledged, it has been received.
LEMMA AnswerReady ==
  ASSUME Reliable, ReadyInv, NEW received \in BOOLEAN, NEW acked \in BOOLEAN,
         TransmitUnicast(Controller, received, acked)
  PROVE  RInv'
<1> DEFINE f == Head(tx[Controller])
           st == IF acked THEN "success" ELSE "fail"
           e == Received(Controller, f.type)
<1>1. /\ tx[Controller] # <<>> /\ f.to # Broadcast
      /\ acked => received
      /\ events' = IF received THEN [events EXCEPT ![f.to] = Append(events[f.to], e)] ELSE events
      /\ tx' = [tx EXCEPT ![Controller][1].status = st]
      /\ UNCHANGED <<conn, clients, power>>
  <2>1. /\ tx[Controller] # <<>> /\ f.to # Broadcast /\ (acked => received)
        /\ Len(events[f.to]) < QUEUE_SIZE
    BY DEF TransmitUnicast, Reliable, CanReceive
  <2> QED BY <2>1 DEF TransmitUnicast, Queued
<1>2. f \in Frame /\ f = tx[Controller][1] /\ 1 \in DOMAIN tx[Controller] /\ f.to \in Node
  <2>1. f \in Frame /\ f = tx[Controller][1] /\ 1 \in DOMAIN tx[Controller]
    BY <1>1, TailIndex DEF ReadyInv, TypeOK
  <2> QED BY <1>1, <2>1 DEF Frame
<1>3. /\ \A m \in Node \ {Controller} : tx'[m] = tx[m]
      /\ DOMAIN tx'[Controller] = DOMAIN tx[Controller]
      /\ tx'[Controller][1].to = f.to /\ tx'[Controller][1].type = f.type
      /\ tx'[Controller][1].status = st
      /\ \A i \in DOMAIN tx[Controller] : i # 1 => tx'[Controller][i] = tx[Controller][i]
  <2>1. st \in {"success", "fail"}
    OBVIOUS
  <2> HIDE DEF st
  <2>2. /\ \A m \in Node \ {Controller} : tx'[m] = tx[m]
        /\ DOMAIN tx'[Controller] = DOMAIN tx[Controller]
        /\ \A i \in DOMAIN tx[Controller] :
             tx'[Controller][i].to = tx[Controller][i].to /\ tx'[Controller][i].type = tx[Controller][i].type
        /\ tx'[Controller][1].status = st
        /\ \A i \in DOMAIN tx[Controller] : i # 1 => tx'[Controller][i] = tx[Controller][i]
    BY <1>1, <2>1, StatusIndex
  <2> QED BY <1>2, <2>2, Zenon
<1>4. e \in ReceiveEvent
  BY <1>2, Zenon DEF Received, ReceiveEvent, Frame
<1>5. /\ UNCHANGED <<conn, clients, restarts>> /\ events \in [Node -> Seq(Event)]
      /\ Answer(f)
  BY <1>1, <1>2, TypeParts DEF power, ReadyInv, QueuesOK, RInv, Answers
<1> HIDE DEF f, st, e
<1>6. \A c \in Client : Keeps(c)
  <2>1. \A c \in Client : events'[c] \in {events[c], Append(events[c], e)}
    BY <1>1, <1>5
  <2> QED BY <1>3, <1>4, <1>5, <2>1, HearsKeeps
<1>7. Answers'
  <2>1. \A i \in DOMAIN tx[Controller] : Answer(tx[Controller][i])
    BY DEF ReadyInv, RInv, Answers
  <2>2. ASSUME NEW c \in Client, c = f.to, acked, Fresh(c)' PROVE Answered(c)'
    <3>1. events'[c] = Append(events[c], e) /\ events[c] \in Seq(Event)
      BY <1>1, <1>5, <2>2
    <3>2. f.type = "REG_ACK" /\ conn[c] # "REG"
      BY <1>5, <1>6, <2>2 DEF Answer, Keeps, Acked
    <3>3. \E i \in DOMAIN events'[c] : events'[c][i] = e
      BY <3>1, AppendIndex
    <3>4. conn'[c] \in {"REG_ACK", "READY"}
      BY <1>5, <3>2 DEF ReadyInv, TypeOK, ConnState
    <3>5. e = Received(Controller, "REG_ACK")
      BY <3>2 DEF e
    <3> QED BY <3>3, <3>4, <3>5 DEF Answered, AckQueued, Received
  <2>3. \A g, i : i \in DOMAIN tx[Controller] /\ g = tx[Controller][i] => Answer(g)'
    BY <1>6, <2>1, KeepsJustified
  <2>4. \A g : g.to = f.to /\ g.type = f.type /\ g.status = st => Answer(g)'
    <3> SUFFICES ASSUME NEW g, g.to = f.to, g.type = f.type, g.status = st, g.to \in Client
                 PROVE  /\ g.type = "REG_ACK"
                        /\ Fresh(g.to)' => Acked(g.to)' /\ (g.status = "success" => Answered(g.to)')
      BY DEF Answer
    <3>1. g.type = "REG_ACK" /\ (Fresh(g.to) => Acked(g.to))
      BY <1>5 DEF Answer
    <3>2. Fresh(g.to)' => Acked(g.to)'
      BY <1>6, <3>1 DEF Keeps
    <3>3. Fresh(g.to)' /\ g.status = "success" => Answered(g.to)'
      BY <2>2 DEF st
    <3> QED BY <3>1, <3>2, <3>3
  <2>5. \A i, g : i \in DOMAIN tx'[Controller] /\ g = tx'[Controller][i] => Answer(g)'
    <3> SUFFICES ASSUME NEW i \in DOMAIN tx'[Controller], NEW g, g = tx'[Controller][i] PROVE Answer(g)'
      OBVIOUS
    <3>1. CASE i = 1
      BY <1>3, <2>4, <3>1
    <3>2. CASE i # 1
      BY <1>3, <2>3, <3>2
    <3> QED BY <3>1, <3>2
  <2> QED BY <2>5 DEF Answers
<1>8. OneEach' /\ ClientFrames' /\ Table'
  BY <1>3, <1>5, <1>6, KeepsJustified, TableKeeps DEF ReadyInv, RInv, ClientFrames, Table
<1>9. \A i \in DOMAIN events'[Controller] :
        \/ events'[Controller][i] = e
        \/ i \in DOMAIN events[Controller] /\ events'[Controller][i] = events[Controller][i]
  <2>1. events'[Controller] \in {events[Controller], Append(events[Controller], e)}
    BY <1>1, <1>5
  <2> QED BY <1>5, <2>1, AppendIndex
<1>10. e.kind = "receive" /\ e.from = Controller
  BY DEF e, Received
<1>11. Hears'
  <2>1. \A g : g.kind = "receive" /\ g.from = Controller => Heard(g)'
    BY DEF Heard
  <2>2. \A i, g : i \in DOMAIN events'[Controller] /\ g = events'[Controller][i] => Heard(g)'
    BY <1>6, <1>9, <1>10, <2>1, KeepsJustified DEF ReadyInv, RInv, Hears
  <2> QED BY <2>2 DEF Hears
<1>12. HeardOnce'
  <2>1. \A c \in Client, i \in DOMAIN events'[Controller] : FromClient(c, i)' =>
          i \in DOMAIN events[Controller] /\ FromClient(c, i)
    BY <1>9, <1>10 DEF FromClient, Received
  <2> QED BY <1>5, <1>6, <2>1 DEF ReadyInv, RInv, HeardOnce, Keeps
<1> QED BY <1>7, <1>8, <1>11, <1>12 DEF RInv

\* The REG_ACK of a client: it is received once, by a controller that has never heard of
\* the client.
LEMMA RegAckReady ==
  ASSUME Reliable, ReadyInv, NEW c \in Client, NEW received \in BOOLEAN, NEW acked \in BOOLEAN,
         TransmitUnicast(c, received, acked)
  PROVE  RInv'
<1> DEFINE f == Head(tx[c])
           st == IF acked THEN "success" ELSE "fail"
           e == Received(c, "REG_ACK")
<1>1. /\ tx[c] # <<>> /\ f = tx[c][1] /\ 1 \in DOMAIN tx[c] /\ f.status = "waiting"
      /\ f.to = Controller /\ f.type = "REG_ACK"
  <2>1. tx[c] # <<>> /\ f.status = "waiting"
    BY DEF TransmitUnicast
  <2>2. f = tx[c][1] /\ 1 \in DOMAIN tx[c]
    BY <2>1, TailIndex DEF ReadyInv, TypeOK
  <2> QED BY <2>1, <2>2 DEF ReadyInv, RInv, ClientFrames
<1>2. /\ acked <=> received
      /\ events' = IF received THEN [events EXCEPT ![Controller] = Append(events[Controller], e)] ELSE events
      /\ tx' = [tx EXCEPT ![c][1].status = st]
      /\ UNCHANGED <<conn, clients, power>>
  <2>1. (acked <=> received) /\ Len(events[Controller]) < QUEUE_SIZE
    BY <1>1 DEF TransmitUnicast, Reliable, CanReceive
  <2> QED BY <1>1, <2>1 DEF TransmitUnicast, Queued
<1>3. /\ \A m \in Node \ {c} : tx'[m] = tx[m]
      /\ DOMAIN tx'[c] = DOMAIN tx[c] /\ Len(tx'[c]) = Len(tx[c]) /\ tx'[c] # <<>>
      /\ \A i \in DOMAIN tx[c] : tx'[c][i].to = tx[c][i].to /\ tx'[c][i].type = tx[c][i].type
      /\ tx'[c][1].status = st
  <2>1. st \in {"success", "fail"}
    OBVIOUS
  <2>2. tx[c] # <<>> /\ c \in Node /\ tx' = [tx EXCEPT ![c][1].status = st]
    BY <1>1, <1>2
  <2> HIDE DEF st, f, e
  <2> QED BY <2>1, <2>2, StatusIndex
<1>4. /\ UNCHANGED <<conn, clients, restarts>> /\ events \in [Node -> Seq(Event)]
      /\ \A d \in Client : events'[d] = events[d]
      /\ \A d \in Client \ {c} : Untouched(d)
  BY <1>2, <1>3, TypeParts DEF power, ReadyInv, QueuesOK, Untouched
<1>5. ~ Acked(c)
  BY <1>1 DEF Acked
<1>6. ASSUME Fresh(c)
      PROVE  OneOutstanding(c)' /\ (received => Acked(c)')
  <2>1. OneOutstanding(c)
    BY <1>6 DEF ReadyInv, RInv, OneEach
  <2>2. SendAt(c)' = {} /\ conn'[c] # "REG" /\ Len(tx[c]) <= 1
    BY <1>1, <1>4, <2>1 DEF OneOutstanding, SendAt
  <2>3. \A i \in DOMAIN tx'[c] : i = 1
    BY <1>3, <2>2 DEF ReadyInv, TypeOK
  <2>4. received => \A i \in DOMAIN tx'[c] : tx'[c][i].status = "success"
    BY <1>2, <1>3, <2>3
  <2> HIDE DEF f, st, e
  <2> QED BY <1>3, <2>2, <2>4 DEF OneOutstanding, Acked
<1>7. Keeps(c)
  BY <1>4, <1>5, <1>6 DEF Keeps, Fresh
<1>8. ClientFrames'
  BY <1>3 DEF ReadyInv, RInv, ClientFrames
<1> HIDE DEF f, st, e
<1>9. CASE ~ received
  BY <1>2, <1>3, <1>4, <1>7, <1>8, <1>9, ClientAlone DEF ClientFrames
<1>10. CASE received
  <2>1. \A d \in Client : Keeps(d)
    BY <1>4, <1>7, UntouchedKeeps DEF ReadyInv, RInv
  <2>2. events'[Controller] = Append(events[Controller], e) /\ events[Controller] \in Seq(Event)
    BY <1>2, <1>4, <1>10
  <2>3. \A i \in DOMAIN events'[Controller] :
          \/ i = Len(events[Controller]) + 1 /\ events'[Controller][i] = e
          \/ i \in DOMAIN events[Controller] /\ events'[Controller][i] = events[Controller][i]
    BY <2>2, AppendIndex
  <2>4. OneEach' /\ Answers' /\ Table'
    BY <1>3, <1>4, <2>1, KeepsJustified, AnswersStay, TableKeeps DEF ReadyInv, RInv, Table
  <2>5. Hears'
    <3>1. \A g : g = e => Heard(g)'
      BY <1>4, <1>6, <1>10 DEF Heard, e, Received, Fresh
    <3>2. \A g, i : i \in DOMAIN events'[Controller] /\ g = events'[Controller][i] => Heard(g)'
      BY <2>1, <2>3, <3>1, KeepsJustified DEF ReadyInv, RInv, Hears
    <3> QED BY <3>2 DEF Hears
  <2>6. Fresh(c) => /\ clients[c] = "REG"
                    /\ \A i \in DOMAIN events[Controller] : ~ FromClient(c, i)
    BY <1>5 DEF ReadyInv, RInv, Table, Hears, Heard, FromClient, Received
  <2>7. HeardOnce'
    <3> SUFFICES ASSUME NEW d \in Client, NEW i \in DOMAIN events'[Controller],
                        Fresh(d)', FromClient(d, i)'
                 PROVE  /\ clients'[d] = "REG"
                        /\ \A j \in DOMAIN events'[Controller] : FromClient(d, j)' => i = j
      BY DEF HeardOnce
    <3>1. Fresh(d)
      BY <2>1 DEF Keeps
    <3>2. CASE d = c
      BY <1>4, <2>3, <2>6, <3>1, <3>2 DEF FromClient, Received
    <3>3. CASE d # c
      <4>1. \A j \in DOMAIN events'[Controller] : FromClient(d, j)' =>
              j \in DOMAIN events[Controller] /\ FromClient(d, j)
        BY <2>3, <3>3 DEF FromClient, e, Received
      <4> QED BY <1>4, <3>1, <4>1 DEF ReadyInv, RInv, HeardOnce
    <3> QED BY <3>2, <3>3
  <2> QED BY <1>8, <2>4, <2>5, <2>7 DEF RInv
<1> QED BY <1>9, <1>10

\* What a send callback does to the queue and to the driver of its node.
LEMMA CallbackIndex ==
  ASSUME Reliable, ReadyInv, NEW n \in Node, SendCallback(n)
  PROVE  LET e == [kind |-> "send", to |-> tx[n][1].to, ok |-> tx[n][1].status = "success"] IN
         /\ \A m \in Node \ {n} : tx'[m] = tx[m] /\ events'[m] = events[m]
         /\ UNCHANGED <<conn, clients, restarts>>
         /\ 1 \in DOMAIN tx[n] /\ tx[n] # <<>>
         /\ \A i \in DOMAIN tx'[n] : i + 1 \in DOMAIN tx[n] /\ tx'[n][i] = tx[n][i + 1]
         /\ Len(tx[n]) <= 1 => tx'[n] = <<>>
         /\ DOMAIN events[n] \subseteq DOMAIN events'[n]
         /\ \A i \in DOMAIN events[n] : events'[n][i] = events[n][i]
         /\ \A i \in DOMAIN events'[n] :
              i \in DOMAIN events[n] \/ (i = Len(events[n]) + 1 /\ events'[n][i] = e)
<1> DEFINE e == [kind |-> "send", to |-> tx[n][1].to, ok |-> tx[n][1].status = "success"]
<1>1. /\ tx \in [Node -> Seq(Frame)] /\ events \in [Node -> Seq(Event)]
      /\ tx[n] \in Seq(Frame) /\ events[n] \in Seq(Event) /\ tx[n] # <<>>
  BY TypeParts DEF ReadyInv, QueuesOK, TypeOK, SendCallback, SendCallbackDue
<1>2. Head(tx[n]) = tx[n][1] /\ 1 \in DOMAIN tx[n] /\ Len(events[n]) < QUEUE_SIZE
  BY <1>1, TailIndex DEF SendCallback, CanQueue, Reliable
<1>3. /\ events' = [events EXCEPT ![n] = Append(events[n], e)]
      /\ tx' = [tx EXCEPT ![n] = Tail(tx[n])]
      /\ UNCHANGED <<conn, clients, restarts>>
  BY <1>2 DEF SendCallback, Queued, power
<1> HIDE DEF e
<1>4. /\ events'[n] = Append(events[n], e) /\ tx'[n] = Tail(tx[n])
      /\ \A m \in Node \ {n} : tx'[m] = tx[m] /\ events'[m] = events[m]
  BY <1>1, <1>3
<1>5. /\ \A i \in DOMAIN tx'[n] : i + 1 \in DOMAIN tx[n] /\ tx'[n][i] = tx[n][i + 1]
      /\ Len(tx[n]) <= 1 => tx'[n] = <<>>
  BY <1>1, <1>4, TailIndex
<1>6. /\ DOMAIN events[n] \subseteq DOMAIN events'[n]
      /\ \A i \in DOMAIN events[n] : events'[n][i] = events[n][i]
      /\ events'[n][Len(events[n]) + 1] = e
      /\ \A i \in DOMAIN events'[n] : i \in DOMAIN events[n] \/ i = Len(events[n]) + 1
  BY <1>1, <1>4, AppendIndex
<1> QED BY <1>1, <1>2, <1>3, <1>4, <1>5, <1>6, Zenon DEF e

\* The result of an answer: a success has reached the client.
LEMMA ControllerCallbackReady ==
  ASSUME Reliable, ReadyInv, SendCallback(Controller) PROVE RInv'
<1> DEFINE f == tx[Controller][1]
           e == [kind |-> "send", to |-> f.to, ok |-> f.status = "success"]
<1>1. /\ \A m \in Node \ {Controller} : tx'[m] = tx[m] /\ events'[m] = events[m]
      /\ UNCHANGED <<conn, clients, restarts>>
      /\ 1 \in DOMAIN tx[Controller]
      /\ \A i \in DOMAIN tx'[Controller] :
           i + 1 \in DOMAIN tx[Controller] /\ tx'[Controller][i] = tx[Controller][i + 1]
      /\ \A i \in DOMAIN events'[Controller] :
           \/ i \in DOMAIN events[Controller] /\ events'[Controller][i] = events[Controller][i]
           \/ i = Len(events[Controller]) + 1 /\ events'[Controller][i] = e
  BY CallbackIndex, Zenon
<1>2. \A c \in Client : Untouched(c) /\ Keeps(c)
  BY <1>1, UntouchedKeeps DEF Untouched, ReadyInv, RInv
<1>3. Answers'
  BY <1>1, <1>2, KeepsJustified DEF Answers, ReadyInv, RInv
<1>4. OneEach' /\ ClientFrames' /\ Table'
  BY <1>1, <1>2, KeepsJustified, TableKeeps DEF ReadyInv, RInv, ClientFrames, Table
<1>5. Heard(e)
  <2>1. Answer(f)
    BY <1>1 DEF ReadyInv, RInv, Answers
  <2> QED BY <2>1 DEF Answer, Heard
<1>6. Hears'
  <2> HIDE DEF e
  <2>1. \A g, i : i \in DOMAIN events'[Controller] /\ g = events'[Controller][i] => Heard(g)'
    BY <1>1, <1>2, <1>5, KeepsJustified DEF ReadyInv, RInv, Hears
  <2> QED BY <2>1 DEF Hears
<1>7. HeardOnce'
  <2>1. \A c \in Client, i \in DOMAIN events'[Controller] : FromClient(c, i)' =>
          i \in DOMAIN events[Controller] /\ FromClient(c, i)
    BY <1>1 DEF FromClient, Received
  <2> QED BY <1>1, <1>2, <2>1 DEF ReadyInv, RInv, HeardOnce, Keeps
<1> QED BY <1>3, <1>4, <1>6, <1>7 DEF RInv

\* The result of a REG_ACK: the driver of the client is empty again.
LEMMA ClientCallbackReady ==
  ASSUME Reliable, ReadyInv, NEW c \in Client, SendCallback(c) PROVE RInv'
<1> DEFINE e == [kind |-> "send", to |-> tx[c][1].to, ok |-> tx[c][1].status = "success"]
<1>1. /\ \A m \in Node \ {c} : tx'[m] = tx[m] /\ events'[m] = events[m]
      /\ UNCHANGED <<conn, clients, restarts>>
      /\ 1 \in DOMAIN tx[c] /\ tx[c] # <<>>
      /\ \A i \in DOMAIN tx'[c] : i + 1 \in DOMAIN tx[c] /\ tx'[c][i] = tx[c][i + 1]
      /\ Len(tx[c]) <= 1 => tx'[c] = <<>>
      /\ DOMAIN events[c] \subseteq DOMAIN events'[c]
      /\ \A i \in DOMAIN events[c] : events'[c][i] = events[c][i]
      /\ \A i \in DOMAIN events'[c] :
           i \in DOMAIN events[c] \/ (i = Len(events[c]) + 1 /\ events'[c][i] = e)
  <2>1. c \in Node
    OBVIOUS
  <2> QED BY <2>1, CallbackIndex, Zenon
<1>2. e.ok <=> tx[c][1].status = "success"
  OBVIOUS
<1> HIDE DEF e
<1>3. Keeps(c)
  <2> SUFFICES ASSUME Fresh(c)'
               PROVE  /\ Fresh(c) /\ OneOutstanding(c)'
                      /\ Acked(c) => Acked(c)' /\ (Answered(c) => Answered(c)')
    BY DEF Keeps
  <2>1. Fresh(c) /\ OneOutstanding(c)
    BY <1>1 DEF Fresh, ReadyInv, RInv, OneEach
  <2>2. SendAt(c) = {} /\ tx'[c] = <<>> /\ conn[c] # "REG"
    BY <1>1, <2>1 DEF OneOutstanding
  <2>3. \A i \in SendAt(c)' : i = Len(events[c]) + 1 /\ events'[c][i] = e
    BY <1>1, <2>2 DEF SendAt
  <2>4. OneOutstanding(c)'
    BY <1>1, <2>2, <2>3 DEF OneOutstanding
  <2>5. Acked(c) => Acked(c)'
    BY <1>1, <1>2, <2>2, <2>3 DEF Acked
  <2>6. Answered(c) => Answered(c)'
    BY <1>1 DEF Answered, AckQueued, Received
  <2> QED BY <2>1, <2>4, <2>5, <2>6
<1> QED BY <1>1, <1>3, ClientAlone DEF Untouched, ReadyInv, RInv, ClientFrames

\* Switching on.
LEMMA StartReady == ASSUME ReadyInv, NEW n \in Node, Start(n) PROVE RInv'
<1>1. UNCHANGED <<conn, clients, events, tx, restarts>>
  BY DEF Start
<1>2. \A c \in Client : Keeps(c)
  BY <1>1, UntouchedKeeps DEF Untouched, ReadyInv, RInv
<1> QED
  BY <1>1, <1>2, KeepsJustified, AnswersStay, TableKeeps
  DEF ReadyInv, RInv, ClientFrames, Table, Hears, HeardOnce, FromClient, Received, Keeps

\* The controller restarts: nothing is on its way from it, and its table is empty.
LEMMA ControllerRestartReady == ASSUME ReadyInv, Restart(Controller) PROVE RInv'
<1>1. /\ events'[Controller] = <<>> /\ tx'[Controller] = <<>>
      /\ clients' = [c \in Client |-> "REG"]
      /\ \A c \in Client : Untouched(c)
  BY DEF Restart, ReadyInv, TypeOK, Untouched
<1>2. \A c \in Client : Keeps(c)
  BY <1>1, UntouchedKeeps DEF ReadyInv, RInv
<1> QED
  BY <1>1, <1>2, KeepsJustified
  DEF ReadyInv, RInv, ClientFrames, Untouched, Answers, Hears, Table, HeardOnce

\* A client restarts: what is said of clients that have not says nothing of it any more.
LEMMA ClientRestartReady == ASSUME ReadyInv, NEW c \in Client, Restart(c) PROVE RInv'
<1>1. /\ restarts[c] \in Nat /\ restarts'[c] = restarts[c] + 1
      /\ tx'[c] = <<>> /\ clients' = clients
      /\ tx'[Controller] = tx[Controller] /\ events'[Controller] = events[Controller]
      /\ \A d \in Client \ {c} : Untouched(d)
  BY DEF Restart, ReadyInv, TypeOK, Untouched
<1>2. Keeps(c)
  BY <1>1 DEF Keeps, Fresh
<1> QED BY <1>1, <1>2, ClientAlone

-----------------------------------------------------------------------------
(* The invariant and what follows from it.                                 *)

LEMMA InitReady == Init => RInv
<1> SUFFICES ASSUME Init PROVE RInv
  OBVIOUS
<1>1. \A n \in Node : events[n] = <<>> /\ tx[n] = <<>>
  BY DEF Init
<1>2. \A c \in Client : SendAt(c) = {} /\ Len(tx[c]) = 0 /\ clients[c] = "REG"
  BY <1>1 DEF Init, SendAt
<1> QED
  BY <1>1, <1>2 DEF RInv, ClientFrames, OneEach, OneOutstanding, Answers, Hears, Table, HeardOnce

LEMMA StepReady == Reliable /\ ReadyInv /\ [Next]_vars => RInv'
<1> SUFFICES ASSUME Reliable, ReadyInv, [Next]_vars PROVE RInv'
  OBVIOUS
<1>1. CASE UNCHANGED vars
  <2>1. \A c \in Client : Keeps(c)
    BY <1>1, UntouchedKeeps DEF vars, power, Untouched, ReadyInv, RInv
  <2> QED
    BY <1>1, <2>1, KeepsJustified, AnswersStay, TableKeeps
    DEF vars, power, ReadyInv, RInv, ClientFrames, Table, Hears, HeardOnce, FromClient, Received, Keeps
<1>2. CASE ControllerTask
  BY <1>2, ControllerBroadcastReady, ControllerAckSentReady, ControllerAckFailedReady,
     ControllerReceiveReady, ControllerIdleReady DEF ControllerTask
<1>3. ASSUME NEW c \in Client, ClientTask(c) PROVE RInv'
  BY <1>3, ClientSentReady, ClientReceiveRegReady, ClientReceiveAckReady DEF ClientTask
<1>4. ASSUME NEW n \in Node, Transmit(n) PROVE RInv'
  BY <1>4, BroadcastReady, AnswerReady, RegAckReady DEF Transmit
<1>5. ASSUME NEW n \in Node, SendCallback(n) PROVE RInv'
  BY <1>5, ControllerCallbackReady, ClientCallbackReady
<1>6. ASSUME NEW n \in Node, Start(n) \/ Restart(n) PROVE RInv'
  BY <1>6, StartReady, ControllerRestartReady, ClientRestartReady
<1> QED BY <1>1, <1>2, <1>3, <1>4, <1>5, <1>6 DEF Next

\* The inductive invariant for readiness holds as long as the driver of a node neither
\* loses an acknowledgement nor gives an event up.
THEOREM ReadyInvHolds == ASSUME Reliable PROVE Spec => []ReadyInv
<1>1. Init => ReadyInv
  BY InitReady, InitKInv DEF ReadyInv, KInv
<1>2. ReadyInv /\ TypeOK' /\ [Next]_vars => ReadyInv'
  BY StepReady DEF ReadyInv
<1> QED
  BY <1>1, <1>2, TypeCorrect, PTL DEF Spec

\* A client that has not restarted and that the controller counts as ready is in its
\* ready state, or about to read the answer that takes it there.
THEOREM Mutual == ASSUME Reliable PROVE Spec => []ReadyIsMutual
<1>1. ReadyInv => ReadyIsMutual
  BY DEF ReadyInv, RInv, Table, Fresh, Answered, ReadyIsMutual
<1> QED BY <1>1, ReadyInvHolds, PTL

\* No late or repeated REG_ACK takes such a client back.
THEOREM Final == ASSUME Reliable PROVE Spec => ReadyIsFinal
<1>1. ReadyInv /\ [Next]_vars =>
        [\A c \in Client :
           clients[c] = "READY" /\ restarts[c] = 0
             => clients'[c] = "READY" \/ restarts'[Controller] # restarts[Controller]]_clients
  <2> SUFFICES ASSUME ReadyInv, [Next]_vars, clients' # clients,
                      NEW c \in Client, clients[c] = "READY", restarts[c] = 0
               PROVE  clients'[c] = "READY" \/ restarts'[Controller] # restarts[Controller]
    OBVIOUS
  <2>1. \/ \E d \in Client : ControllerAckSent(d) \/ ControllerReceive(d)
        \/ \E n \in Node : Restart(n)
    BY DEF vars, power, Next, ControllerTask, ControllerBroadcastSent, ControllerIdle,
           ControllerAckFailed, ClientTask, ClientSent, ClientReceiveReg, ClientReceiveAck,
           Transmit, TransmitBroadcast, TransmitUnicast, SendCallback, Start
  <2>2. CASE \E d \in Client : ControllerAckSent(d)
    BY <2>2 DEF ControllerAckSent, ReadyInv, TypeOK
  <2>3. ASSUME NEW d \in Client, ControllerReceive(d) PROVE clients'[c] = "READY"
    <3>1. 1 \in DOMAIN events[Controller] /\ FromClient(d, 1)
      BY <2>3, TakeIndex, TypeParts DEF ControllerReceive, ReadyInv, QueuesOK, FromClient
    <3>2. d # c
      BY <3>1 DEF ReadyInv, RInv, HeardOnce, Fresh
    <3> QED BY <2>3, <3>2 DEF ControllerReceive, ReadyInv, TypeOK
  <2>4. CASE \E n \in Node : Restart(n)
    BY <2>4 DEF Restart, ReadyInv, TypeOK
  <2> QED BY <2>1, <2>2, <2>3, <2>4
<1> QED BY <1>1, ReadyInvHolds, PTL DEF Spec, ReadyIsFinal

=============================================================================
