------------------------- MODULE InfotainmentProofs -------------------------
(***************************************************************************)
(* Proofs about Infotainment, for every set of faults, every set of        *)
(* accepted messages, every size of the queue and any number of messages.  *)
(***************************************************************************)
EXTENDS Infotainment, SequenceTheorems, TLAPS

\* Which of the two threads exist at the same time.
Phases ==
  /\ main \in {"open", "create"} => serial = "none"
  /\ main = "close" => serial = "ended"
  /\ main = "done" => serial \in {"none", "ended"}

\* The shared structure is whole from the end of frinfo_open until frinfo_start
\* returns.
WholeUntilReturn ==
  /\ main = "open" => ~ opened
  /\ opened /\ result # 0 =>
       (\A q \in DOMAIN queues : queues[q] = "open") /\ vehicle_status = "allocated"

\* frinfo_start returns 0 after the join, with everything shared released.
ReturnIsLast ==
  result = 0 =>
    /\ main = "done" /\ serial = "ended"
    /\ \A q \in DOMAIN queues : queues[q] = "null"
    /\ vehicle_status = "null"

\* Who has a descriptor open, and what the serial thread has when it has ended.
Descriptors ==
  /\ \A f \in Fd : fds[f] = "serial" =>
       serial_fd = f /\ serial \in {"loop", "write", "read", "deliver", "cleanup"}
  /\ \A f \in Fd : fds[f] = "window" => main \in {"ui", "drain", "handle", "stop"}
SerialEnds == serial = "ended" => ~ buffer /\ current_message = 0

\* How many messages have been received to their end, or given up.
Complete == IF current_message = 0 THEN received ELSE received - 1

\* A message with the number m that the user interface has is newer than the status, and
\* older than those in the queue and the one on its way into the queue.
Newer(m) ==
  /\ status < m
  /\ \A i \in DOMAIN fifo : m < fifo[i]
  /\ pending["serial"] # 0 => m < pending["serial"]

\* From the status to the message being received, the numbers go up.
InOrder ==
  /\ current_message \in {0, received}
  /\ status <= Complete /\ pending["serial"] <= Complete
  /\ pending["serial"] # 0 => serial = "deliver" /\ status < pending["serial"]
  /\ \A i \in DOMAIN fifo :
       /\ status < fifo[i] /\ fifo[i] <= Complete
       /\ pending["serial"] # 0 => fifo[i] < pending["serial"]
  /\ \A i, j \in DOMAIN fifo : i < j => fifo[i] < fifo[j]
  /\ taken["main"] # <<>> /\ taken["main"][1] # 0 =>
       Newer(taken["main"][1]) /\ taken["main"][1] <= Complete

\* The inductive invariant of the life cycle.
LifeInv ==
  /\ TypeOK
  /\ Phases
  /\ WholeUntilReturn
  /\ ReturnIsLast
  /\ Descriptors
  /\ SerialEnds

-----------------------------------------------------------------------------
USE FaultsAssumption, BoundsAssumption

\* The program before frinfo_open.
LEMMA InitLife == Init => LifeInv
<1> SUFFICES ASSUME Init PROVE LifeInv
  OBVIOUS
<1>1. Incoming!TypeOK
  BY DEF Init, Incoming!Init, Incoming!TypeOK
<1>2. /\ opened \in BOOLEAN /\ shutdown \in BOOLEAN /\ serial_connected \in BOOLEAN
      /\ buffer \in BOOLEAN /\ stolen \in BOOLEAN /\ crashed \in BOOLEAN
  BY Zenon DEF Init
<1>3. TypeOK
  BY <1>1, <1>2 DEF Init, TypeOK, QueueState, Fd, NoFd
<1>4. Phases /\ WholeUntilReturn /\ ReturnIsLast /\ Descriptors /\ SerialEnds
  BY DEF Init, Phases, WholeUntilReturn, ReturnIsLast, Descriptors, SerialEnds, Fd
<1> QED
  BY <1>3, <1>4 DEF LifeInv

-----------------------------------------------------------------------------
(* The steps of the incoming queue that the two threads take.              *)

LEMMA ReadKeepsQueue ==
  ASSUME Incoming!TypeOK, Incoming!Read("main") PROVE Incoming!TypeOK'
<1> USE DEF Incoming!TypeOK, Incoming!Read
<1>1. CASE fifo = <<>>
  BY <1>1
<1>2. CASE fifo # <<>>
  <2>1. /\ fifo' = Tail(fifo) /\ taken' = [taken EXCEPT !["main"] = <<Head(fifo)>>]
        /\ pending' = pending
    BY <1>2
  <2>2. Head(fifo) \in 1 .. MAX_SENT /\ fifo' \in Seq(1 .. MAX_SENT) /\ Len(fifo') <= MAX_MESSAGES
    BY <1>2, <2>1
  <2> DEFINE Answer == {<<>>} \cup {<<a>> : a \in (1 .. MAX_SENT) \cup {0}}
  <2>3. <<Head(fifo)>> \in Answer
    BY <2>2
  <2>4. taken \in [{"main", "serial"} -> Answer]
    OBVIOUS
  <2> HIDE DEF Answer
  <2>5. taken' \in [{"main", "serial"} -> Answer]
    BY <2>1, <2>3, <2>4
  <2> USE DEF Answer
  <2> QED
    BY <2>1, <2>2, <2>5
<1> QED
  BY <1>1, <1>2

LEMMA DoneKeepsQueue ==
  ASSUME Incoming!TypeOK, Incoming!Done("main") PROVE Incoming!TypeOK'
BY DEF Incoming!TypeOK, Incoming!Done

LEMMA WriteKeepsQueue ==
  ASSUME Incoming!TypeOK, Incoming!Write("serial") PROVE Incoming!TypeOK'
<1> USE DEF Incoming!TypeOK, Incoming!Write
<1> DEFINE room == IF Len(fifo) = MAX_MESSAGES THEN Tail(fifo) ELSE fifo
<1>1. room \in Seq(1 .. MAX_SENT) /\ Len(room) < MAX_MESSAGES
  <2>1. CASE Len(fifo) = MAX_MESSAGES
    <3>1. fifo \in Seq(1 .. MAX_SENT) /\ fifo # <<>> /\ room = Tail(fifo)
      BY <2>1
    <3>2. room \in Seq(1 .. MAX_SENT) /\ Len(room) = Len(fifo) - 1
      BY <3>1, HeadTailProperties
    <3> QED BY <2>1, <3>2
  <2>2. CASE Len(fifo) # MAX_MESSAGES
    BY <2>2
  <2> QED BY <2>1, <2>2
<1>2. pending["serial"] \in 1 .. MAX_SENT /\ fifo' = Append(room, pending["serial"])
  OBVIOUS
<1>3. fifo' \in Seq(1 .. MAX_SENT) /\ Len(fifo') <= MAX_MESSAGES
  BY <1>1, <1>2
<1>4. pending' \in [{"main", "serial"} -> 1 .. MAX_SENT \cup {0}]
  OBVIOUS
<1>5. taken' \in [{"main", "serial"} -> {<<>>} \cup {<<a>> : a \in 1 .. MAX_SENT \cup {0}}]
  BY Zenon
<1> QED
  BY <1>3, <1>4, <1>5, Zenon DEF Incoming!TypeOK

LEMMA QueueUntouched ==
  ASSUME Incoming!TypeOK, UNCHANGED queue PROVE Incoming!TypeOK'
BY Zenon DEF Incoming!TypeOK, queue

-----------------------------------------------------------------------------
(* The steps of the main thread.                                           *)

LEMMA OpenStep == ASSUME LifeInv, frinfo_open PROVE LifeInv'
<1> USE DEF LifeInv, frinfo_open, Main, Live, files, serialMemory
<1>1. /\ queues' \in [{"incoming", "outgoing"} -> QueueState]
      /\ vehicle_status' \in {"garbage", "null", "allocated"}
  BY DEF QueueStates, FailedOpen, QueueState
<1>2. opened' \in BOOLEAN
  BY Zenon DEF TypeOK
<1>3. TypeOK'
  BY <1>1, <1>2, QueueUntouched DEF TypeOK
<1>4. Phases' /\ ReturnIsLast' /\ Descriptors' /\ SerialEnds'
  BY DEF TypeOK, Phases, ReturnIsLast, Descriptors, SerialEnds
<1>5. WholeUntilReturn'
  BY DEF TypeOK, WholeUntilReturn, QueueStates
<1> QED
  BY <1>3, <1>4, <1>5

LEMMA CreateStep == ASSUME LifeInv, pthread_create PROVE LifeInv'
<1> USE DEF LifeInv, pthread_create, Main, Live, files, serialMemory, shared
<1>1. TypeOK'
  BY QueueUntouched DEF TypeOK
<1>2. Phases' /\ WholeUntilReturn' /\ ReturnIsLast' /\ Descriptors' /\ SerialEnds'
  BY DEF TypeOK, Phases, WholeUntilReturn, ReturnIsLast, Descriptors, SerialEnds
<1> QED
  BY <1>1, <1>2

LEMMA WindowSteps ==
  ASSUME LifeInv, InitWindow \/ ui_loop \/ Stop \/ pthread_join PROVE LifeInv'
<1> USE DEF LifeInv, InitWindow, ui_loop, Stop, pthread_join, OpenFd, Main, Live,
            files, serialMemory, shared
<1>1. shutdown' \in BOOLEAN
  BY Zenon DEF TypeOK
<1>2. fds' \in [Fd -> {"free", "stdin", "serial", "window"}]
  BY DEF TypeOK
<1>3. TypeOK'
  BY <1>1, <1>2, QueueUntouched DEF TypeOK
<1>4. Phases' /\ WholeUntilReturn' /\ ReturnIsLast' /\ SerialEnds'
  BY DEF TypeOK, Phases, WholeUntilReturn, ReturnIsLast, SerialEnds
<1>5. Descriptors'
  BY DEF TypeOK, Descriptors
<1> QED
  BY <1>3, <1>4, <1>5

LEMMA ReadStep == ASSUME LifeInv, ReadMessage PROVE LifeInv'
<1> USE DEF LifeInv, ReadMessage, Main, Live, files, serialMemory, shared
<1>1. Incoming!TypeOK'
  <2>1. Incoming!TypeOK /\ (Incoming!Read("main") \/ UNCHANGED queue)
    BY Zenon DEF TypeOK
  <2> QED BY <2>1, QueueUntouched, ReadKeepsQueue, Zenon
<1>2. crashed' \in BOOLEAN
  BY Zenon DEF TypeOK
<1>3. TypeOK'
  BY <1>1, <1>2 DEF TypeOK
<1>4. Phases' /\ WholeUntilReturn' /\ ReturnIsLast' /\ SerialEnds' /\ Descriptors'
  BY DEF TypeOK, Phases, WholeUntilReturn, ReturnIsLast, SerialEnds, Descriptors
<1> QED
  BY <1>3, <1>4

LEMMA HandleStep == ASSUME LifeInv, HandleMessage PROVE LifeInv'
<1> USE DEF LifeInv, HandleMessage, Main, Live, files, serialMemory, shared
<1>1. Incoming!TypeOK'
  BY DoneKeepsQueue, Zenon DEF TypeOK
<1>2. status' \in 0 .. MAX_SENT
  <2>1. status' = status \/ status' \in Valid
    OBVIOUS
  <2>2. Valid \subseteq 0 .. MAX_SENT
    BY BoundsAssumption
  <2>3. status \in 0 .. MAX_SENT
    BY DEF TypeOK
  <2> QED BY <2>1, <2>2, <2>3, Zenon
<1>3. main' \in {"ui", "drain"} /\ main = "handle"
  OBVIOUS
<1>4. TypeOK'
  BY <1>1, <1>2, <1>3 DEF TypeOK
<1>5. Phases' /\ WholeUntilReturn' /\ ReturnIsLast' /\ SerialEnds' /\ Descriptors'
  BY <1>3 DEF TypeOK, Phases, WholeUntilReturn, ReturnIsLast, SerialEnds, Descriptors
<1> QED
  BY <1>4, <1>5

\* frinfo_close comes after the join; it can only crash where frinfo_open failed.
LEMMA CloseStep == ASSUME LifeInv, frinfo_close PROVE LifeInv'
<1> USE DEF LifeInv, frinfo_close, Main, Live, files, serialMemory, shared
<1>1. CASE main' = "done"
  <2> USE <1>1
  <2>1. Incoming!TypeOK'
    <3>1. fifo' \in Seq(1 .. MAX_SENT) /\ Len(fifo') <= MAX_MESSAGES
      OBVIOUS
    <3> QED BY <3>1, Zenon DEF TypeOK, Incoming!TypeOK
  <2>2. TypeOK'
    BY <2>1 DEF TypeOK, QueueStates, QueueState
  <2>3. Phases' /\ WholeUntilReturn' /\ ReturnIsLast' /\ SerialEnds' /\ Descriptors'
    BY DEF TypeOK, Phases, WholeUntilReturn, ReturnIsLast, SerialEnds, Descriptors, QueueStates
  <2> QED BY <2>2, <2>3
<1>2. CASE main' = "close"
  <2> USE <1>2
  <2>1. Incoming!TypeOK'
    BY QueueUntouched DEF TypeOK, queue
  <2>2. TypeOK'
    BY <2>1 DEF TypeOK
  <2>3. Phases' /\ WholeUntilReturn' /\ ReturnIsLast' /\ SerialEnds' /\ Descriptors'
    BY DEF TypeOK, Phases, WholeUntilReturn, ReturnIsLast, SerialEnds, Descriptors
  <2> QED BY <2>2, <2>3
<1> QED
  BY <1>1, <1>2

-----------------------------------------------------------------------------
(* The steps of the serial thread.                                         *)

LEMMA PortSteps == ASSUME LifeInv, AllocateBuffer \/ open_serial PROVE LifeInv'
<1> USE DEF LifeInv, AllocateBuffer, open_serial, OpenFd, Serial, Live, files, serialMemory, shared
<1>1. buffer' \in BOOLEAN /\ serial_connected' \in BOOLEAN
  BY Zenon DEF TypeOK
<1>2. serial_fd' \in Fd \cup {NoFd} /\ fds' \in [Fd -> {"free", "stdin", "serial", "window"}]
  BY DEF TypeOK
<1>3. TypeOK'
  BY <1>1, <1>2, QueueUntouched DEF TypeOK
<1>4. Phases' /\ WholeUntilReturn' /\ ReturnIsLast' /\ SerialEnds'
  BY DEF TypeOK, Phases, WholeUntilReturn, ReturnIsLast, SerialEnds
<1>5. Descriptors'
  BY DEF TypeOK, Phases, Descriptors
<1> QED
  BY <1>3, <1>4, <1>5

LEMMA LoopSteps == ASSUME LifeInv, CheckShutdown \/ write_serial PROVE LifeInv'
<1> USE DEF LifeInv, CheckShutdown, write_serial, Serial, Live, files, serialMemory, shared
<1>1. crashed' \in BOOLEAN
  BY Zenon DEF TypeOK
<1>2. serial' \in {"cleanup", "write", "read"} /\ serial \in {"loop", "write"}
  OBVIOUS
<1>3. TypeOK'
  BY <1>1, <1>2, QueueUntouched DEF TypeOK
<1>4. Phases' /\ WholeUntilReturn' /\ ReturnIsLast' /\ SerialEnds' /\ Descriptors'
  BY <1>2 DEF TypeOK, Phases, WholeUntilReturn, ReturnIsLast, SerialEnds, Descriptors
<1> QED
  BY <1>3, <1>4

LEMMA ReadSteps == ASSUME LifeInv, read_serial PROVE LifeInv'
<1> USE DEF LifeInv, read_serial, ReadNothing, ReadOpening, ReadClosing, ReadFails,
            Serial, Live, files, serialMemory, shared
<1>1. current_message' \in 0 .. MAX_SENT /\ received' \in 0 .. MAX_SENT
  BY DEF TypeOK
<1>2. Incoming!TypeOK'
  <2>1. pending' \in [{"main", "serial"} -> 1 .. MAX_SENT \cup {0}]
    BY DEF TypeOK, Incoming!TypeOK
  <2> QED BY <2>1, Zenon DEF TypeOK, Incoming!TypeOK
<1>3. TypeOK'
  BY <1>1, <1>2 DEF TypeOK
<1>4. Phases' /\ WholeUntilReturn' /\ ReturnIsLast' /\ SerialEnds' /\ Descriptors'
  BY DEF TypeOK, Phases, WholeUntilReturn, ReturnIsLast, SerialEnds, Descriptors
<1> QED
  BY <1>3, <1>4

LEMMA DeliverStep == ASSUME LifeInv, Deliver PROVE LifeInv'
<1> USE DEF LifeInv, Deliver, Serial, Live, files, serialMemory, shared
<1>1. Incoming!TypeOK'
  BY WriteKeepsQueue, Zenon DEF TypeOK
<1>2. TypeOK'
  BY <1>1 DEF TypeOK
<1>3. Phases' /\ WholeUntilReturn' /\ ReturnIsLast' /\ SerialEnds' /\ Descriptors'
  BY DEF TypeOK, Phases, WholeUntilReturn, ReturnIsLast, SerialEnds, Descriptors
<1> QED
  BY <1>2, <1>3

\* The only open port is the one serial_fd names.
LEMMA CleanupStep == ASSUME LifeInv, cleanup PROVE LifeInv'
<1> USE DEF LifeInv, cleanup, Closed, Serial, Live, files, serialMemory, shared
<1>1. buffer' \in BOOLEAN /\ stolen' \in BOOLEAN
  BY Zenon DEF TypeOK, Foreign
<1>2. fds' \in [Fd -> {"free", "stdin", "serial", "window"}]
  BY DEF TypeOK
<1>3. TypeOK'
  BY <1>1, <1>2, QueueUntouched DEF TypeOK
<1>4. Phases' /\ WholeUntilReturn' /\ ReturnIsLast' /\ SerialEnds'
  BY DEF TypeOK, Phases, WholeUntilReturn, ReturnIsLast, SerialEnds
<1>5. Descriptors'
  BY DEF TypeOK, Descriptors, Fd, NoFd
<1> QED
  BY <1>3, <1>4, <1>5

-----------------------------------------------------------------------------

LEMMA NextLife == LifeInv /\ [Next]_vars => LifeInv'
<1> SUFFICES ASSUME LifeInv, [Next]_vars PROVE LifeInv'
  OBVIOUS
<1>1. CASE UNCHANGED vars
  <2> USE <1>1 DEF vars, shared, files, serialMemory, LifeInv
  <2>1. TypeOK'
    BY QueueUntouched DEF TypeOK
  <2>2. Phases' /\ WholeUntilReturn' /\ ReturnIsLast' /\ Descriptors' /\ SerialEnds'
    BY DEF Phases, WholeUntilReturn, ReturnIsLast, Descriptors, SerialEnds
  <2> QED BY <2>1, <2>2
<1>2. CASE MainThread
  BY <1>2, OpenStep, CreateStep, WindowSteps, ReadStep, HandleStep, CloseStep DEF MainThread
<1>3. CASE SerialThread
  BY <1>3, PortSteps, LoopSteps, ReadSteps, DeliverStep, CleanupStep DEF SerialThread
<1> QED
  BY <1>1, <1>2, <1>3 DEF Next

\* The conjunction of what frinfo.c relies on is inductive.
THEOREM LifeInvHolds == Spec => []LifeInv
BY InitLife, NextLife, PTL DEF Spec

\* Every variable of the program, the descriptors and the queue included, keeps its
\* type whatever fails.
THEOREM TypeCorrect == Spec => []TypeOK
<1>1. LifeInv => TypeOK
  BY DEF LifeInv
<1> QED
  BY <1>1, LifeInvHolds, PTL

\* frinfo_close releases nothing that the serial thread may still use.
THEOREM Shared == Spec => []SharedWhileRunning
<1>1. LifeInv => SharedWhileRunning
  BY DEF LifeInv, ReturnIsLast, WholeUntilReturn, SharedWhileRunning
<1> QED
  BY <1>1, LifeInvHolds, PTL

\* When frinfo_start returns 0 no queue, no memory and no descriptor is left.
THEOREM CleanExit == Spec => []NothingLeftBehind
<1>1. LifeInv => NothingLeftBehind
  BY DEF LifeInv, ReturnIsLast, Descriptors, SerialEnds, NothingLeftBehind
<1> QED
  BY <1>1, LifeInvHolds, PTL

-----------------------------------------------------------------------------
(* The order of the messages.                                              *)

OrderInv == LifeInv /\ InOrder

\* What InOrder speaks of.
ordered == <<current_message, received, status, pending, serial, fifo, taken>>

LEMMA InitOrder == Init => OrderInv
<1> SUFFICES ASSUME Init PROVE InOrder
  BY InitLife DEF OrderInv
<1> QED
  BY DEF Init, Incoming!Init, InOrder, Complete, Newer

LEMMA OrderUntouched == ASSUME InOrder, UNCHANGED ordered PROVE InOrder'
BY DEF ordered, InOrder, Complete, Newer

\* The oldest message goes to the user interface.
LEMMA ReadOrder == ASSUME OrderInv, ReadMessage PROVE InOrder'
<1> USE DEF OrderInv, LifeInv, TypeOK, Incoming!TypeOK, ReadMessage, serialMemory
<1>1. CASE queues["incoming"] # "open"
  BY <1>1, OrderUntouched DEF ordered, queue
<1>2. CASE queues["incoming"] = "open"
  <2>1. /\ Incoming!Read("main")
        /\ UNCHANGED <<current_message, received, status, serial>>
    BY <1>2
  <2>2. CASE fifo = <<>>
    BY <2>1, <2>2 DEF Incoming!Read, InOrder, Complete, Newer
  <2>3. CASE fifo # <<>>
    <3>1. /\ fifo' = Tail(fifo) /\ pending' = pending
          /\ taken'["main"] = <<Head(fifo)>>
      BY <2>1, <2>3 DEF Incoming!Read
    <3>2. /\ Head(fifo) = fifo[1] /\ 1 \in DOMAIN fifo
          /\ \A i \in DOMAIN fifo' : i + 1 \in DOMAIN fifo /\ fifo'[i] = fifo[i + 1] /\ i \in Nat \ {0}
      BY <2>3, <3>1
    <3>3. \A i, j \in DOMAIN fifo' : i < j => fifo'[i] < fifo'[j]
      BY <3>2 DEF InOrder
    <3>4. /\ status < fifo[1] /\ fifo[1] <= Complete
          /\ pending["serial"] # 0 => fifo[1] < pending["serial"]
          /\ \A i \in DOMAIN fifo' : fifo[1] < fifo'[i]
      BY <3>2 DEF InOrder
    <3>5. \A i \in DOMAIN fifo' :
            /\ status < fifo'[i] /\ fifo'[i] <= Complete
            /\ pending["serial"] # 0 => fifo'[i] < pending["serial"]
      BY <3>2 DEF InOrder
    <3>6. taken'["main"][1] = fifo[1]
      BY <3>1, <3>2
    <3>7. Complete' = Complete /\ UNCHANGED <<current_message, received, status, pending, serial>>
      BY <2>1, <3>1 DEF Complete
    <3>8. InOrder => /\ current_message \in {0, received}
                     /\ status <= Complete /\ pending["serial"] <= Complete
                     /\ pending["serial"] # 0 => serial = "deliver" /\ status < pending["serial"]
      BY DEF InOrder
    <3> HIDE DEF Incoming!TypeOK, ReadMessage
    <3> QED
      BY <3>3, <3>4, <3>5, <3>6, <3>7, <3>8, SMT DEF InOrder, Newer
  <2> QED BY <2>2, <2>3
<1> QED BY <1>1, <1>2

\* The user interface shows the message it has, or throws it away.
LEMMA HandleOrder ==
  ASSUME OrderInv, HandleMessage PROVE InOrder' /\ status <= status'
<1> USE DEF OrderInv, LifeInv, TypeOK, Incoming!TypeOK, HandleMessage, serialMemory
<1>1. /\ taken["main"] # <<>> /\ taken'["main"] = <<>>
      /\ UNCHANGED <<current_message, received, serial, fifo, pending>>
  BY DEF Incoming!Done
<1>2. CASE status' = status
  BY <1>1, <1>2 DEF InOrder, Complete, Newer
<1>3. CASE status' # status
  <2>1. status' = taken["main"][1] /\ taken["main"][1] # 0
    BY <1>3
  <2>2. Newer(taken["main"][1]) /\ taken["main"][1] <= Complete
    BY <1>1, <2>1 DEF InOrder
  <2> QED BY <1>1, <2>1, <2>2 DEF InOrder, Complete, Newer
<1> QED BY <1>2, <1>3

\* frinfo_close throws away what is left.
LEMMA CloseOrder == ASSUME OrderInv, frinfo_close PROVE InOrder'
BY DEF OrderInv, frinfo_close, serialMemory, InOrder, Complete, Newer

\* Bytes are read: a message begins or ends.
LEMMA ReceiveOrder == ASSUME OrderInv, read_serial PROVE InOrder'
<1> USE DEF OrderInv, LifeInv, TypeOK, Incoming!TypeOK, read_serial, Serial
<1>1. CASE ReadNothing
  BY <1>1 DEF ReadNothing, InOrder, Complete, Newer
<1>2. CASE ReadOpening
  BY <1>2 DEF ReadOpening, InOrder, Complete, Newer
<1>3. CASE ReadClosing
  BY <1>3 DEF ReadClosing, InOrder, Complete, Newer
<1>4. CASE ReadFails
  BY <1>4 DEF ReadFails, InOrder, Complete, Newer
<1> QED BY <1>1, <1>2, <1>3, <1>4

\* The newest message goes to the end of the queue.
LEMMA DeliverOrder == ASSUME OrderInv, Deliver PROVE InOrder'
<1> USE DEF OrderInv, LifeInv, TypeOK, Incoming!TypeOK, Deliver, serialMemory
<1> DEFINE room == IF Len(fifo) = MAX_MESSAGES THEN Tail(fifo) ELSE fifo
<1>1. /\ pending["serial"] \in 1 .. MAX_SENT /\ pending'["serial"] = 0
      /\ fifo' = Append(room, pending["serial"])
      /\ UNCHANGED <<current_message, received, status, taken>>
  BY DEF Incoming!Write
<1>2. /\ room \in Seq(1 .. MAX_SENT)
      /\ \E k \in {0, 1} : \A i \in DOMAIN room : i + k \in DOMAIN fifo /\ room[i] = fifo[i + k]
  <2>1. CASE Len(fifo) = MAX_MESSAGES
    BY <2>1, HeadTailProperties
  <2>2. CASE Len(fifo) # MAX_MESSAGES
    BY <2>2
  <2> QED BY <2>1, <2>2
<1> HIDE DEF room
<1>3. PICK k \in {0, 1} : \A i \in DOMAIN room : i + k \in DOMAIN fifo /\ room[i] = fifo[i + k]
  BY <1>2
<1>4. /\ DOMAIN fifo' = 1 .. Len(room) + 1 /\ DOMAIN room = 1 .. Len(room) /\ Len(room) \in Nat
      /\ \A i \in DOMAIN room : fifo'[i] = room[i]
      /\ fifo'[Len(room) + 1] = pending["serial"]
  BY <1>1, <1>2, AppendProperties
<1>5. \A i \in DOMAIN fifo' :
        fifo'[i] = pending["serial"] \/ (i \in DOMAIN room /\ i + k \in DOMAIN fifo /\ fifo'[i] = fifo[i + k])
  BY <1>3, <1>4
<1>6. /\ status < pending["serial"] /\ pending["serial"] <= Complete
      /\ \A i \in DOMAIN fifo : status < fifo[i] /\ fifo[i] <= Complete /\ fifo[i] < pending["serial"]
      /\ \A i, j \in DOMAIN fifo : i < j => fifo[i] < fifo[j]
  BY <1>1 DEF InOrder
<1>7. /\ status \in Nat /\ Complete \in Int
      /\ fifo \in Seq(1 .. MAX_SENT) /\ \A i \in DOMAIN fifo : fifo[i] \in Nat
  BY DEF Complete
<1>8. Complete' = Complete
  BY <1>1 DEF Complete
<1>9. taken["main"] # <<>> /\ taken["main"][1] # 0 =>
        /\ status < taken["main"][1] /\ taken["main"][1] <= Complete
        /\ \A i \in DOMAIN fifo : taken["main"][1] < fifo[i]
        /\ taken["main"][1] < pending["serial"]
  BY <1>1 DEF InOrder, Newer
<1>10. status <= Complete /\ current_message \in {0, received}
  BY DEF InOrder
<1> HIDE DEF OrderInv, LifeInv, TypeOK, Incoming!TypeOK, Deliver, serialMemory
<1>11. \A i \in DOMAIN fifo' : status < fifo'[i] /\ fifo'[i] <= Complete
  BY <1>5, <1>6
<1>12. \A i, j \in DOMAIN fifo' : i < j => fifo'[i] < fifo'[j]
  <2> SUFFICES ASSUME NEW i \in DOMAIN fifo', NEW j \in DOMAIN fifo', i < j
               PROVE  fifo'[i] < fifo'[j]
    OBVIOUS
  <2>1. i \in DOMAIN room /\ fifo'[i] = fifo[i + k] /\ i + k \in DOMAIN fifo
    BY <1>3, <1>4
  <2>2. CASE j = Len(room) + 1
    BY <1>4, <1>6, <2>1, <2>2
  <2>3. CASE j # Len(room) + 1
    <3>1. j \in DOMAIN room /\ fifo'[j] = fifo[j + k] /\ j + k \in DOMAIN fifo
      BY <1>3, <1>4, <2>3
    <3>2. i + k < j + k
      BY <1>4
    <3> QED BY <1>6, <2>1, <3>1, <3>2
  <2> QED BY <2>2, <2>3
<1>13. taken["main"] # <<>> /\ taken["main"][1] # 0 =>
         \A i \in DOMAIN fifo' : taken["main"][1] < fifo'[i]
  BY <1>5, <1>9
<1> QED
  BY <1>1, <1>7, <1>8, <1>9, <1>10, <1>11, <1>12, <1>13, SMT DEF InOrder, Newer

\* The other steps of the serial thread leave the messages alone, and none of them
\* is taken while a message is on its way into the queue.
LEMMA QuietOrder ==
  ASSUME OrderInv, AllocateBuffer \/ open_serial \/ CheckShutdown \/ write_serial \/ cleanup
  PROVE  InOrder'
<1>1. /\ serial # "deliver" /\ pending["serial"] = 0
      /\ UNCHANGED <<received, status, pending, fifo, taken>>
      /\ current_message' \in {0, current_message}
  BY DEF OrderInv, InOrder, AllocateBuffer, open_serial, CheckShutdown, write_serial, cleanup,
         Serial, serialMemory, queue
<1>2. CASE current_message' = current_message
  BY <1>1, <1>2 DEF OrderInv, InOrder, Complete, Newer
<1>3. CASE current_message' = 0
  <2>1. Complete <= Complete'
    BY <1>1, <1>3 DEF OrderInv, LifeInv, TypeOK, Complete
  <2>2. /\ status \in Nat /\ Complete \in Int /\ Complete' \in Int
        /\ \A i \in DOMAIN fifo : fifo[i] \in Nat
        /\ taken["main"] # <<>> => taken["main"][1] \in Nat
    BY <1>1, <1>3 DEF OrderInv, LifeInv, TypeOK, Incoming!TypeOK, Complete
  <2>3. /\ pending["serial"] <= Complete' /\ status <= Complete'
        /\ \A i \in DOMAIN fifo : fifo[i] <= Complete'
        /\ taken["main"] # <<>> /\ taken["main"][1] # 0 => taken["main"][1] <= Complete'
    <3>1. /\ pending["serial"] <= Complete /\ status <= Complete
          /\ \A i \in DOMAIN fifo : fifo[i] <= Complete
          /\ taken["main"] # <<>> /\ taken["main"][1] # 0 => taken["main"][1] <= Complete
      BY DEF OrderInv, InOrder
    <3> QED BY <1>1, <2>1, <2>2, <3>1
  <2>4. /\ taken["main"] # <<>> /\ taken["main"][1] # 0 => Newer(taken["main"][1])
        /\ \A i \in DOMAIN fifo : status < fifo[i]
        /\ \A i, j \in DOMAIN fifo : i < j => fifo[i] < fifo[j]
    BY DEF OrderInv, InOrder
  <2> QED
    BY <1>1, <1>3, <2>3, <2>4 DEF InOrder, Newer
<1> QED BY <1>1, <1>2, <1>3

LEMMA NextOrder == OrderInv /\ [Next]_vars => OrderInv'
<1> SUFFICES ASSUME OrderInv, [Next]_vars PROVE InOrder'
  BY NextLife DEF OrderInv
<1>1. CASE UNCHANGED vars
  BY <1>1, OrderUntouched DEF vars, serialMemory, queue, ordered, OrderInv
<1>2. CASE MainThread
  <2>1. CASE frinfo_open \/ InitWindow \/ ui_loop \/ Stop \/ pthread_join
    BY <2>1, OrderUntouched
    DEF frinfo_open, InitWindow, ui_loop, Stop, pthread_join, serialMemory, queue,
        ordered, OrderInv
  <2>2. CASE pthread_create
    <3>1. pending["serial"] = 0
      BY <2>2 DEF OrderInv, LifeInv, Phases, InOrder, pthread_create, Main
    <3> QED
      BY <2>2, <3>1 DEF pthread_create, serialMemory, queue, OrderInv, InOrder, Complete, Newer
  <2> QED
    BY <1>2, <2>1, <2>2, ReadOrder, HandleOrder, CloseOrder DEF MainThread
<1>3. CASE SerialThread
  BY <1>3, ReceiveOrder, DeliverOrder, QuietOrder DEF SerialThread
<1> QED BY <1>1, <1>2, <1>3 DEF Next

\* From the display back to the port the messages are in order, each once.
THEOREM OrderHolds == Spec => []OrderInv
BY InitOrder, NextOrder, PTL DEF Spec

\* The vehicle status never goes back to an older message.
THEOREM StatusForward == Spec => StatusGoesForward
<1>1. OrderInv /\ [Next]_vars => [status' >= status]_status
  <2> SUFFICES ASSUME OrderInv, [Next]_vars PROVE status' = status \/ status' >= status
    BY Zenon
  <2>1. CASE HandleMessage
    BY <2>1, HandleOrder DEF OrderInv, LifeInv, TypeOK, HandleMessage
  <2>2. CASE ~ HandleMessage
    BY <2>2
    DEF vars, Next, MainThread, SerialThread, frinfo_open, pthread_create, InitWindow, ui_loop,
        ReadMessage, Stop, pthread_join, frinfo_close, AllocateBuffer, open_serial,
        CheckShutdown, write_serial, read_serial, Deliver, cleanup
  <2> QED BY <2>1, <2>2
<1> QED
  BY <1>1, OrderHolds, PTL DEF Spec, StatusGoesForward

=============================================================================
