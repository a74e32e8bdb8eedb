-------------------------- MODULE EspNowRegistration --------------------------
(***************************************************************************)
(* Registration in the sensor network (components/network/network.c): the  *)
(* controller broadcasts REG until every client has checked in, a client   *)
(* answers with REG_ACK, the controller answers that with its own REG_ACK. *)
(*                                                                         *)
(* On each node two contexts meet in the event queue: the Wi-Fi task calls *)
(* the receive and send callbacks, which put events on the queue, and the  *)
(* network task takes them off, drains the queue, and sleeps for 250 ms.   *)
(* A send callback says whether the other end acknowledged the frame at    *)
(* the MAC level, which is not whether the other end received it.          *)
(*                                                                         *)
(* The nodes are switched on in any order, and a node may restart at any   *)
(* moment: everything it knew, its queue and its driver held is lost.      *)
(***************************************************************************)
EXTENDS Naturals, Sequences, FiniteSets

CONSTANTS
  Client,      \* the clients, by client id
  Controller,  \* the controller
  Faults,      \* what may go wrong: "loss", "ackloss", "drop", "busy", "nomem"
  MAX_RESTARTS, \* bound: how often each node restarts
  QUEUE_SIZE,  \* NETWORK_EVENT_QUEUE_SIZE (50)
  TX_SIZE      \* bound: frames waiting in the driver of a node

Node == Client \cup {Controller}
Broadcast == "broadcast"

ASSUME NodeAssumption == Controller \notin Client /\ Broadcast \notin Node
ASSUME SizeAssumption == QUEUE_SIZE \in Nat \ {0} /\ TX_SIZE \in Nat \ {0}
ASSUME FaultsAssumption == Faults \subseteq {"loss", "ackloss", "drop", "busy", "nomem"}
ASSUME RestartsAssumption == MAX_RESTARTS \in [Node -> Nat]

VARIABLES
  conn,     \* network_conn_state of every node
  clients,  \* network_client_states of the controller
  events,   \* network_event_queue of every node
  tx,       \* frames esp_now_send has accepted, with what became of them
  task,     \* network_task of every node
  restarts  \* how often every node has restarted

power == <<task, restarts>>
vars == <<conn, clients, events, tx, power>>

ConnState == {"REG", "REG_ACK", "READY"}
Frame == [to : Node \cup {Broadcast}, type : {"REG", "REG_ACK"},
          status : {"waiting", "success", "fail"}]
SendEvent == [kind : {"send"}, to : Node \cup {Broadcast}, ok : BOOLEAN]
ReceiveEvent == [kind : {"receive"}, type : {"REG", "REG_ACK"}, from : Node]

TypeOK ==
  /\ conn \in [Node -> ConnState]
  /\ clients \in [Client -> ConnState]
  /\ events \in [Node -> Seq(SendEvent \cup ReceiveEvent)]
  /\ \A n \in Node : Len(events[n]) <= QUEUE_SIZE
  /\ tx \in [Node -> Seq(Frame)]
  /\ task \in [Node -> {"off", "running", "deleted"}]
  /\ restarts \in [Node -> Nat]

Init ==
  /\ conn = [n \in Node |-> "REG"]
  /\ clients = [c \in Client |-> "REG"]
  /\ events = [n \in Node |-> <<>>]
  /\ tx = [n \in Node |-> <<>>]
  /\ task = [n \in Node |-> "off"]
  /\ restarts = [n \in Node |-> 0]

-----------------------------------------------------------------------------
(* network_task from its start                                             *)

\* A node gets as far as its loop, or the task ends because there is no memory
\* for its message buffer: nobody starts it again.
Start(n) ==
  /\ task[n] = "off"
  /\ \/ task' = [task EXCEPT ![n] = "running"]
     \/ "nomem" \in Faults /\ task' = [task EXCEPT ![n] = "deleted"]
  /\ UNCHANGED <<conn, clients, events, tx, restarts>>

\* Fault: the connection state outlives the restart, the queue does not.
RestartKeepingState(n) ==
  /\ task[n] # "off" /\ restarts[n] < MAX_RESTARTS[n]
  /\ restarts' = [restarts EXCEPT ![n] = @ + 1]
  /\ task' = [task EXCEPT ![n] = "off"]
  /\ events' = [events EXCEPT ![n] = <<>>]
  /\ tx' = [tx EXCEPT ![n] = <<>>]
  /\ UNCHANGED <<conn, clients>>

\* The variables a node starts with; the controller has its table besides.
Restart(n) ==
  /\ task[n] # "off" /\ restarts[n] < MAX_RESTARTS[n]
  /\ restarts' = [restarts EXCEPT ![n] = @ + 1]
  /\ task' = [task EXCEPT ![n] = "off"]
  /\ conn' = [conn EXCEPT ![n] = "REG"]
  /\ events' = [events EXCEPT ![n] = <<>>]
  /\ tx' = [tx EXCEPT ![n] = <<>>]
  /\ clients' = IF n = Controller THEN [c \in Client |-> "REG"] ELSE clients

-----------------------------------------------------------------------------
(* The radio and the callbacks                                             *)

\* A callback waits for room, up to NETWORK_EVENT_QUEUE_MAX_DELAY ticks, and then
\* gives its event up.
CanQueue(n) == Len(events[n]) < QUEUE_SIZE \/ "drop" \in Faults

\* Fault: the queue takes an event it has no room for.
QueuedAnyway(n, e) == Append(events[n], e)

\* The event queue after a callback has tried to put e on it.
Queued(n, e) == IF Len(events[n]) < QUEUE_SIZE THEN Append(events[n], e) ELSE events[n]

\* Both callbacks of a node run in its Wi-Fi task: a frame that comes in while a
\* send callback is due has its event queued after it when room is short.
SendCallbackDue(n) == tx[n] # <<>> /\ Head(tx[n]).status # "waiting"
CanReceive(n) ==
  \/ "drop" \in Faults
  \/ Len(events[n]) < (IF SendCallbackDue(n) THEN QUEUE_SIZE - 1 ELSE QUEUE_SIZE)

Received(n, type) == [kind |-> "receive", type |-> type, from |-> n]

\* The first frame of n goes out.  A broadcast is not acknowledged: it counts as
\* sent whoever hears it.
TransmitBroadcast(n, heard) ==
  /\ tx[n] # <<>> /\ Head(tx[n]).status = "waiting" /\ Head(tx[n]).to = Broadcast
  /\ \A c \in heard : task[c] = "running"
  /\ heard = {c \in Client : task[c] = "running"} \/ Faults \cap {"loss", "nomem"} # {}
  /\ \A c \in heard : CanReceive(c)
  /\ events' = [c \in Node |-> IF c \in heard THEN Queued(c, Received(n, Head(tx[n]).type))
                               ELSE events[c]]
  /\ tx' = [tx EXCEPT ![n][1].status = "success"]
  /\ UNCHANGED <<conn, clients, power>>

\* A unicast frame is received and acknowledged, or lost, or it is received and
\* all its acknowledgements are lost, or it is acknowledged and the callback finds
\* no memory for its data.  While the other end's callback waits for room the
\* frame is on its way.
TransmitUnicast(n, received, acked) ==
  LET f == Head(tx[n]) IN
  /\ tx[n] # <<>> /\ f.status = "waiting" /\ f.to # Broadcast
  /\ received => task[f.to] = "running"
  /\ \/ received /\ acked
     \/ ~ received /\ ~ acked /\ ("loss" \in Faults \/ task[f.to] # "running")
     \/ received /\ ~ acked /\ "ackloss" \in Faults
     \/ ~ received /\ acked /\ task[f.to] = "running" /\ "nomem" \in Faults
  /\ CanReceive(f.to)
  /\ events' = IF received
               THEN [events EXCEPT ![f.to] = Queued(f.to, Received(n, f.type))]
               ELSE events
  /\ tx' = [tx EXCEPT ![n][1].status = IF acked THEN "success" ELSE "fail"]
  /\ UNCHANGED <<conn, clients, power>>

\* network_send_callback.
SendCallback(n) ==
  LET f == Head(tx[n]) IN
  /\ SendCallbackDue(n)
  /\ CanQueue(n)
  /\ events' = [events EXCEPT ![n] =
                  Queued(n, [kind |-> "send", to |-> f.to, ok |-> f.status = "success"])]
  /\ tx' = [tx EXCEPT ![n] = Tail(tx[n])]
  /\ UNCHANGED <<conn, clients, power>>

\* esp_now_send accepts a frame, or, when the driver has no memory, refuses it.
Sent(n, to, type) ==
  /\ Len(tx[n]) < TX_SIZE
  /\ tx' = [tx EXCEPT ![n] = Append(@, [to |-> to, type |-> type, status |-> "waiting"])]
Refused == "busy" \in Faults /\ UNCHANGED tx

-----------------------------------------------------------------------------
(* network_controller_process                                              *)

\* The network task of n takes the event e off its queue.
Take(n, e) ==
  /\ events[n] # <<>> /\ Head(events[n]) = e
  /\ events' = [events EXCEPT ![n] = Tail(events[n])]

\* The result of a broadcast is of no consequence.
ControllerBroadcastSent ==
  \E e \in SendEvent :
    /\ Take(Controller, e) /\ e.to = Broadcast
    /\ UNCHANGED <<conn, clients, tx, power>>

\* A REG_ACK of the controller has been acknowledged: the client is ready.
ControllerAckSent(c) ==
  /\ Take(Controller, [kind |-> "send", to |-> c, ok |-> TRUE])
  /\ clients' = [clients EXCEPT ![c] = IF @ = "REG_ACK" THEN "READY" ELSE @]
  /\ UNCHANGED <<conn, tx, power>>

\* Faults: a REG_ACK that failed is not sent again; it takes the client back to
\* the start.
GiveUp(c) ==
  /\ Take(Controller, [kind |-> "send", to |-> c, ok |-> FALSE])
  /\ UNCHANGED <<conn, clients, tx, power>>

StartOver(c) ==
  /\ Take(Controller, [kind |-> "send", to |-> c, ok |-> FALSE])
  /\ clients' = [clients EXCEPT ![c] = "REG"]
  /\ UNCHANGED <<conn, tx, power>>

\* A REG_ACK of the controller has not been acknowledged: it is sent again, and
\* what esp_now_send says to that is ignored.
ControllerAckFailed(c) ==
  /\ Take(Controller, [kind |-> "send", to |-> c, ok |-> FALSE])
  /\ \/ clients[c] = "REG_ACK" /\ (Sent(Controller, c, "REG_ACK") \/ Refused)
     \/ clients[c] # "REG_ACK" /\ UNCHANGED tx
  /\ UNCHANGED <<conn, clients, power>>

\* Fault: the client counts as ready before it has the answer.
ReadyAtOnce(c) ==
  /\ Take(Controller, Received(c, "REG_ACK"))
  /\ Sent(Controller, c, "REG_ACK") /\ clients' = [clients EXCEPT ![c] = "READY"]
  /\ UNCHANGED <<conn, power>>

\* A client has answered: it is answered in turn, whatever state it was in.
ControllerReceive(c) ==
  /\ Take(Controller, Received(c, "REG_ACK"))
  /\ \/ Sent(Controller, c, "REG_ACK") /\ clients' = [clients EXCEPT ![c] = "REG_ACK"]
     \/ Refused /\ UNCHANGED clients
  /\ UNCHANGED <<conn, power>>

all_clients_checked_in == \A c \in Client : clients[c] = "READY"

\* The queue is empty: registration is over or REG is broadcast again.  In the
\* 250 ms the task sleeps in between, the driver gets rid of the last broadcast.
ControllerIdle ==
  /\ task[Controller] = "running"
  /\ events[Controller] = <<>>
  /\ conn[Controller] = "REG"
  /\ \/ /\ all_clients_checked_in
        /\ conn' = [conn EXCEPT ![Controller] = "READY"]
        /\ UNCHANGED tx
     \/ /\ ~ all_clients_checked_in
        /\ \A i \in DOMAIN tx[Controller] : tx[Controller][i].to # Broadcast
        /\ Sent(Controller, Broadcast, "REG") \/ Refused
        /\ UNCHANGED conn
  /\ UNCHANGED <<clients, events, power>>

ControllerTask ==
  \/ ControllerBroadcastSent \/ ControllerIdle
  \/ \E c \in Client : ControllerAckSent(c) \/ ControllerAckFailed(c) \/ ControllerReceive(c)

-----------------------------------------------------------------------------
(* network_client_process                                                  *)

\* The REG_ACK of the client has not been acknowledged: back to the start.
ClientSent(c) ==
  \E ok \in BOOLEAN :
    /\ Take(c, [kind |-> "send", to |-> Controller, ok |-> ok])
    /\ conn' = [conn EXCEPT ![c] = IF ~ ok /\ @ = "REG_ACK" THEN "REG" ELSE @]
    /\ UNCHANGED <<clients, tx, power>>

\* Fault: REG is answered in every state.
AnswerAlways(c) ==
  /\ Take(c, Received(Controller, "REG"))
  /\ Sent(c, Controller, "REG_ACK") /\ conn' = [conn EXCEPT ![c] = "REG_ACK"]
  /\ UNCHANGED <<clients, power>>

\* REG counts only in the first state.
ClientReceiveReg(c) ==
  /\ Take(c, Received(Controller, "REG"))
  /\ \/ /\ conn[c] = "REG"
        /\ \/ Sent(c, Controller, "REG_ACK") /\ conn' = [conn EXCEPT ![c] = "REG_ACK"]
           \/ Refused /\ UNCHANGED conn
     \/ conn[c] # "REG" /\ UNCHANGED <<conn, tx>>
  /\ UNCHANGED <<clients, power>>

\* REG_ACK counts only in the second.
ClientReceiveAck(c) ==
  /\ Take(c, Received(Controller, "REG_ACK"))
  /\ conn' = [conn EXCEPT ![c] = IF @ = "REG_ACK" THEN "READY" ELSE @]
  /\ UNCHANGED <<clients, tx, power>>

ClientTask(c) == ClientSent(c) \/ ClientReceiveReg(c) \/ ClientReceiveAck(c)

-----------------------------------------------------------------------------
Transmit(n) ==
  \/ \E heard \in SUBSET Client : TransmitBroadcast(n, heard)
  \/ \E received, acked \in BOOLEAN : TransmitUnicast(n, received, acked)

Next ==
  \/ ControllerTask
  \/ \E c \in Client : ClientTask(c)
  \/ \E n \in Node : Transmit(n) \/ SendCallback(n) \/ Start(n) \/ Restart(n)

Spec == Init /\ [][Next]_vars

\* Every node is switched on.  The tasks, the radio and the callbacks keep
\* running, and a node that sends again and again is heard in the end.
Fairness ==
  /\ WF_vars(ControllerTask) /\ \A c \in Client : WF_vars(ClientTask(c))
  /\ \A n \in Node : WF_vars(Start(n)) /\ WF_vars(SendCallback(n)) /\ WF_vars(Transmit(n))
  /\ SF_vars(TransmitBroadcast(Controller, Client))
  /\ \A n \in Node : SF_vars(TransmitUnicast(n, TRUE, TRUE))

FairSpec == Spec /\ Fairness

-----------------------------------------------------------------------------
(* Properties                                                              *)

\* The controller's REG_ACK is on its way through the event queue of c.
AckQueued(c) ==
  conn[c] = "REG_ACK" /\ \E i \in DOMAIN events[c] : events[c][i] = Received(Controller, "REG_ACK")

\* A client that thinks the connection is ready is known to the controller,
\* whatever was lost or refused on the way and however often clients restarted,
\* as long as the controller itself has not.
ReadyIsKnown ==
  restarts[Controller] = 0 => \A c \in Client : conn[c] = "READY" => clients[c] # "REG"

\* "If we send a reg-ack to a client, and it's successful the connection to that
\* client is ready": a client that has not restarted is in its ready state or has
\* the answer that takes it there in its event queue.
ReadyIsMutual ==
  \A c \in Client :
    clients[c] = "READY" /\ restarts[c] = 0 => conn[c] = "READY" \/ AckQueued(c)

\* Once a client counts as ready for the controller it stays so, unless one of the
\* two restarts: no late or repeated REG_ACK takes it back.
ReadyIsFinal ==
  [][\A c \in Client :
       clients[c] = "READY" /\ restarts[c] = 0
         => clients'[c] = "READY" \/ restarts'[Controller] # restarts[Controller]]_clients

\* Unless the controller restarts, registration ends, whatever the clients do; and
\* a client that does not restart is registered in the end, whatever the others do.
AllRegister ==
  [](restarts[Controller] = 0)
    => /\ <>[](conn[Controller] = "READY")
       /\ \A c \in Client : [](restarts[c] = 0) => <>[](conn[c] = "READY")

\* A client that has answered REG hears no REG any more until it is answered in
\* turn: nobody is left waiting there, not even after a restart in the middle of
\* the handshake, unless it is the controller that restarts.
NobodyWaits ==
  [](restarts[Controller] = 0)
    => \A c \in Client : conn[c] = "REG_ACK" ~> conn[c] # "REG_ACK"

=============================================================================
