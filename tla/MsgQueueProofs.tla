--------------------------- MODULE MsgQueueProofs ---------------------------
(***************************************************************************)
(* Proofs about MsgQueue, for every number of slots, every set of threads  *)
(* and every set of addresses.                                             *)
(***************************************************************************)
EXTENDS MsgQueue, SequenceTheorems, TLAPS

\* A thread is inside the critical section exactly when it holds the mutex.
LockDiscipline == \A t \in Thread : pc[t] \in Critical <=> lock = t

\* Which threads have a message in hand.
InHand ==
  \A t \in Thread :
    /\ pc[t] \in {"w_lock", "w_room", "w_store", "holding"} => msg[t] # NULL
    /\ pc[t] \in {"idle", "w_unlock", "r_lock", "r_take"} => msg[t] = NULL

\* A writer that has made room stores into an empty slot.
RoomMade == \A t \in Thread : pc[t] = "w_store" => queue[write_cursor] = NULL

\* A closed queue is empty and nobody is using it.
ClosedIsQuiet ==
  ~ isOpen => /\ \A i \in Slot : queue[i] = NULL
              /\ \A t \in Thread : pc[t] = "idle"

\* The inductive invariant.
IInv ==
  /\ TypeOK
  /\ LockDiscipline
  /\ InHand
  /\ RoomMade
  /\ ClosedIsQuiet
  /\ RingIsContiguous
  /\ SingleOwner

-----------------------------------------------------------------------------
USE MaxAssumption, NullAssumption

\* A cursor that is moved past the last slot stays inside the ring.
LEMMA IncInSlot == \A c \in Slot : Inc(c) \in Slot
BY DEF Slot, Inc

\* The queue msg_queue_open leaves behind satisfies the invariant.
LEMMA InitIInv == Init => IInv
<1> SUFFICES ASSUME Init PROVE IInv
  OBVIOUS
<1>1. TypeOK
  BY DEF Init, TypeOK, Slot, Control
<1>2. LockDiscipline /\ InHand /\ RoomMade /\ ClosedIsQuiet
  BY DEF Init, LockDiscipline, Critical, InHand, RoomMade, ClosedIsQuiet
<1>3. RingIsContiguous
  BY DEF Init, RingIsContiguous, InWindow, Slot
<1>4. SingleOwner
  BY DEF Init, SingleOwner
<1> QED
  BY <1>1, <1>2, <1>3, <1>4 DEF IInv

\* Taking the mutex or giving it back changes neither the ring nor the owners.
LEMMA LockSteps ==
  ASSUME IInv, NEW t \in Thread,
         WriteLock(t) \/ WriteUnlock(t) \/ ReadLock(t) \/ ReadUnlock(t)
  PROVE  IInv'
<1> USE DEF WriteLock, WriteUnlock, ReadLock, ReadUnlock, Goto, Lock, Unlock, ring
<1>1. TypeOK'
  BY DEF IInv, TypeOK, Control
<1>2. LockDiscipline'
  BY DEF IInv, TypeOK, LockDiscipline, Critical, Control
<1>3. InHand'
  BY DEF IInv, TypeOK, InHand
<1>4. RoomMade'
  BY DEF IInv, TypeOK, RoomMade
<1>5. ClosedIsQuiet'
  BY DEF IInv, ClosedIsQuiet
<1>6. RingIsContiguous' /\ SingleOwner'
  BY DEF IInv, RingIsContiguous, InWindow, SingleOwner
<1> QED
  BY <1>1, <1>2, <1>3, <1>4, <1>5, <1>6 DEF IInv

\* A caller starts a read.
LEMMA ConsumeStep == ASSUME IInv, NEW t \in Thread, Consume(t) PROVE IInv'
<1> USE DEF Consume, CallRead, Goto, ring
<1>1. TypeOK'
  BY DEF IInv, TypeOK, Control
<1>2. LockDiscipline' /\ InHand' /\ RoomMade' /\ ClosedIsQuiet'
  BY DEF IInv, TypeOK, LockDiscipline, Critical, InHand, RoomMade, ClosedIsQuiet
<1>3. RingIsContiguous' /\ SingleOwner'
  BY DEF IInv, RingIsContiguous, InWindow, SingleOwner
<1> QED
  BY <1>1, <1>2, <1>3 DEF IInv

\* A caller starts a write: the fresh message is in nobody else's hands.
LEMMA ProduceStep == ASSUME IInv, NEW t \in Thread, Produce(t) PROVE IInv'
<1>1. PICK m \in Msg \ allocated :
        allocated' = allocated \cup {m} /\ CallWrite(t, m)
  BY DEF Produce
<1> USE <1>1 DEF CallWrite, Goto, ring
<1>2. TypeOK'
  BY DEF IInv, TypeOK, Control
<1>3. LockDiscipline' /\ InHand' /\ RoomMade' /\ ClosedIsQuiet'
  BY DEF IInv, TypeOK, LockDiscipline, Critical, InHand, RoomMade, ClosedIsQuiet
<1>4. RingIsContiguous'
  BY DEF IInv, RingIsContiguous, InWindow
<1>5. SingleOwner'
  <2>1. /\ \A i \in Slot : queue[i] # m
        /\ \A u \in Thread : msg[u] # m
        /\ msg[t] = NULL
    BY DEF IInv, TypeOK, SingleOwner, InHand
  <2>2. msg' = [msg EXCEPT ![t] = m] /\ queue' = queue
    OBVIOUS
  <2>3. /\ \A i, j \in Slot : queue'[i] # NULL /\ queue'[i] = queue'[j] => i = j
        /\ \A u \in Thread, i \in Slot : msg'[u] # NULL => msg'[u] # queue'[i]
        /\ \A u, v \in Thread : msg'[u] # NULL /\ msg'[u] = msg'[v] => u = v
    BY <2>1, <2>2 DEF IInv, TypeOK, SingleOwner
  <2>4. {msg'[u] : u \in Thread} \ {NULL} = ({msg[u] : u \in Thread} \ {NULL}) \cup {m}
    BY <2>1, <2>2 DEF IInv, TypeOK
  <2>5. allocated' = ({queue'[i] : i \in Slot} \cup {msg'[u] : u \in Thread}) \ {NULL}
    BY <2>2, <2>4 DEF IInv, SingleOwner
  <2> QED
    BY <2>3, <2>5 DEF SingleOwner
<1> QED
  BY <1>2, <1>3, <1>4, <1>5 DEF IInv

\* Making room in a full ring frees the oldest message and leaves the rest in
\* one piece: the ring is full only when both cursors are at the same slot.
LEMMA MakeRoomStep == ASSUME IInv, NEW t \in Thread, WriteMakeRoom(t) PROVE IInv'
<1> USE DEF WriteMakeRoom, Goto
<1>1. TypeOK'
  BY IncInSlot DEF IInv, TypeOK, Control
<1>2. LockDiscipline' /\ InHand' /\ ClosedIsQuiet'
  BY DEF IInv, TypeOK, LockDiscipline, Critical, InHand, ClosedIsQuiet
<1>3. RoomMade'
  BY DEF IInv, TypeOK, RoomMade, LockDiscipline, Critical
<1>4. CASE queue[write_cursor] = NULL
  BY <1>1, <1>2, <1>3, <1>4
  DEF IInv, TypeOK, RingIsContiguous, InWindow, SingleOwner
<1>5. CASE queue[write_cursor] # NULL
  <2>1. isOpen /\ write_cursor = read_cursor
    BY <1>5 DEF IInv, TypeOK, RingIsContiguous, InWindow, ClosedIsQuiet, Slot
  <2>2. queue' = [queue EXCEPT ![write_cursor] = NULL] /\ read_cursor' = Inc(write_cursor)
    BY <1>5, <2>1
  <2>3. RingIsContiguous'
    BY <1>5, <2>1, <2>2 DEF IInv, TypeOK, RingIsContiguous, InWindow, Slot, Inc
  <2>4. SingleOwner'
    BY <1>5, <2>2 DEF IInv, TypeOK, SingleOwner
  <2> QED
    BY <1>1, <1>2, <1>3, <2>3, <2>4 DEF IInv
<1> QED
  BY <1>4, <1>5

\* The message moves from the writer into the slot behind the newest one.
LEMMA StoreStep == ASSUME IInv, NEW t \in Thread, WriteStore(t) PROVE IInv'
<1> USE DEF WriteStore, Goto
<1>1. TypeOK'
  BY IncInSlot DEF IInv, TypeOK, Control
<1>2. LockDiscipline' /\ InHand' /\ ClosedIsQuiet'
  BY DEF IInv, TypeOK, LockDiscipline, Critical, InHand, ClosedIsQuiet
<1>3. RoomMade'
  BY DEF IInv, TypeOK, RoomMade, LockDiscipline, Critical
<1>4. queue[write_cursor] = NULL /\ msg[t] # NULL
  BY DEF IInv, RoomMade, InHand
<1>5. RingIsContiguous'
  BY <1>4 DEF IInv, TypeOK, RingIsContiguous, InWindow, Slot, Inc
<1>6. SingleOwner'
  BY <1>4 DEF IInv, TypeOK, SingleOwner
<1> QED
  BY <1>1, <1>2, <1>3, <1>5, <1>6 DEF IInv

\* The oldest message moves from its slot to the reader.
LEMMA TakeStep == ASSUME IInv, NEW t \in Thread, ReadTake(t) PROVE IInv'
<1> USE DEF ReadTake, Goto
<1>1. TypeOK'
  BY IncInSlot DEF IInv, TypeOK, Control
<1>2. LockDiscipline' /\ InHand' /\ ClosedIsQuiet'
  BY DEF IInv, TypeOK, LockDiscipline, Critical, InHand, ClosedIsQuiet
<1>3. RoomMade'
  BY DEF IInv, TypeOK, RoomMade, LockDiscipline, Critical
<1>4. RingIsContiguous'
  BY DEF IInv, TypeOK, RingIsContiguous, InWindow, Slot, Inc
<1>5. SingleOwner'
  <2>1. msg[t] = NULL
    BY DEF IInv, InHand
  <2> QED
    BY <2>1 DEF IInv, TypeOK, SingleOwner
<1> QED
  BY <1>1, <1>2, <1>3, <1>4, <1>5 DEF IInv

\* The reader frees what it has read.
LEMMA FreeStep == ASSUME IInv, NEW t \in Thread, FreeRead(t) PROVE IInv'
<1> USE DEF FreeRead, Goto, ring
<1>1. TypeOK'
  BY DEF IInv, TypeOK, Control
<1>2. LockDiscipline' /\ InHand' /\ RoomMade' /\ ClosedIsQuiet'
  BY DEF IInv, TypeOK, LockDiscipline, Critical, InHand, RoomMade, ClosedIsQuiet
<1>3. RingIsContiguous'
  BY DEF IInv, RingIsContiguous, InWindow
<1>4. SingleOwner'
  BY DEF IInv, TypeOK, SingleOwner, InHand
<1> QED
  BY <1>1, <1>2, <1>3, <1>4 DEF IInv

\* Closing frees every message left in the ring; nobody holds one.
LEMMA CloseStep == ASSUME IInv, Close PROVE IInv'
<1> USE DEF Close
<1>1. TypeOK' /\ LockDiscipline' /\ InHand' /\ RoomMade' /\ ClosedIsQuiet'
  BY DEF IInv, TypeOK, LockDiscipline, InHand, RoomMade, ClosedIsQuiet
<1>2. RingIsContiguous'
  BY DEF RingIsContiguous
<1>3. SingleOwner'
  BY DEF IInv, TypeOK, SingleOwner, InHand
<1> QED
  BY <1>1, <1>2, <1>3 DEF IInv

\* Every step of every thread preserves the invariant.
LEMMA StepIInv == IInv /\ [Next]_vars => IInv'
<1> SUFFICES ASSUME IInv, [Next]_vars PROVE IInv'
  OBVIOUS
<1>1. CASE UNCHANGED vars
  BY <1>1 DEF vars, IInv, TypeOK, LockDiscipline, InHand, RoomMade, ClosedIsQuiet,
              RingIsContiguous, InWindow, SingleOwner
<1>2. CASE Close
  BY <1>2, CloseStep
<1>3. ASSUME NEW t \in Thread,
             Produce(t) \/ Consume(t) \/ FreeRead(t) \/ WriteStep(t) \/ ReadStep(t)
      PROVE  IInv'
  BY <1>3, LockSteps, ConsumeStep, ProduceStep, MakeRoomStep, StoreStep, TakeStep, FreeStep
  DEF WriteStep, ReadStep
<1> QED
  BY <1>1, <1>2, <1>3 DEF Next

\* The conjunction of the invariants of msg_queue.c is inductive.
THEOREM IInvHolds == Spec => []IInv
BY InitIInv, StepIInv, PTL DEF Spec

\* The cursors stay inside the ring and every slot holds a message or NULL.
THEOREM TypeCorrect == Spec => []TypeOK
<1>1. IInv => TypeOK
  BY DEF IInv
<1> QED
  BY <1>1, IInvHolds, PTL

\* The messages of the ring are always in one piece between the two cursors,
\* however many slots the ring has and however many threads use it.
THEOREM Contiguous == Spec => []RingIsContiguous
<1>1. IInv => RingIsContiguous
  BY DEF IInv
<1> QED
  BY <1>1, IInvHolds, PTL

\* msg_queue.c and its callers never free a message twice, never leave a
\* pointer to a freed message behind and never forget a message.
THEOREM Ownership == Spec => []SingleOwner
<1>1. IInv => SingleOwner
  BY DEF IInv
<1> QED
  BY <1>1, IInvHolds, PTL

-----------------------------------------------------------------------------
(* The refinement: MsgQueue implements OverwritingFifo.                    *)

\* Counting on from the read cursor stays inside the ring, and after Count slots
\* comes the write cursor.
LEMMA CountFacts ==
  ASSUME IInv
  PROVE  /\ Count \in 0 .. MAX_MESSAGES
         /\ Count = 0 <=> queue[read_cursor] = NULL
         /\ Count = MAX_MESSAGES <=> queue[write_cursor] # NULL
         /\ Count < MAX_MESSAGES /\ isOpen => Ahead(Count) = write_cursor
         /\ \A k \in 0 .. MAX_MESSAGES - 1 : Ahead(k) \in Slot
         /\ \A k \in 0 .. Count - 1 : queue[Ahead(k)] # NULL
<1> USE DEF IInv, TypeOK, Slot
<1>1. CASE ~ isOpen
  <2>1. Count = 0
    BY <1>1 DEF ClosedIsQuiet, Count
  <2> QED
    BY <1>1, <2>1 DEF ClosedIsQuiet, Ahead
<1>2. CASE isOpen
  <2>1. \A i \in Slot : queue[i] # NULL <=> InWindow(i)
    BY <1>2 DEF RingIsContiguous
  <2>2. \A k \in 0 .. MAX_MESSAGES - 1 : Ahead(k) \in Slot
    BY DEF Ahead
  <2>3. CASE queue[read_cursor] = NULL
    <3>1. read_cursor = write_cursor
      BY <2>1, <2>3 DEF InWindow
    <3> QED
      BY <2>2, <2>3, <3>1 DEF Count, Ahead
  <2>4. CASE queue[read_cursor] # NULL
    <3>1. /\ Count \in 1 .. MAX_MESSAGES
          /\ Count = MAX_MESSAGES <=> read_cursor = write_cursor
          /\ Count < MAX_MESSAGES => Ahead(Count) = write_cursor
      BY <2>4 DEF Count, Ahead
    <3>2. queue[write_cursor] # NULL <=> read_cursor = write_cursor
      BY <2>1, <2>4 DEF InWindow
    <3>3. \A k \in 0 .. Count - 1 : InWindow(Ahead(k))
      BY <2>4 DEF InWindow, Count, Ahead
    <3> QED
      BY <2>1, <2>2, <2>4, <3>1, <3>2, <3>3
  <2> QED BY <2>3, <2>4
<1> QED BY <1>1, <1>2

\* The messages of the ring, oldest first, as a sequence.
LEMMA ContentsFacts ==
  ASSUME IInv
  PROVE  /\ Contents \in Seq(Msg) /\ Len(Contents) = Count
         /\ Contents = <<>> <=> queue[read_cursor] = NULL
         /\ Count # 0 => Head(Contents) = queue[read_cursor]
<1>1. Count \in Nat /\ \A k \in 1 .. Count : queue[Ahead(k - 1)] \in Msg
  <2> SUFFICES ASSUME NEW k \in 1 .. Count PROVE queue[Ahead(k - 1)] \in Msg
    BY CountFacts
  <2>1. k - 1 \in 0 .. Count - 1 /\ k - 1 \in 0 .. MAX_MESSAGES - 1
    BY CountFacts
  <2> QED
    BY <2>1, CountFacts DEF IInv, TypeOK
<1>2. Contents \in Seq(Msg) /\ Len(Contents) = Count
  BY <1>1 DEF Contents
<1>3. Ahead(0) = read_cursor
  BY DEF Ahead, IInv, TypeOK, Slot
<1> QED
  BY <1>1, <1>2, <1>3, CountFacts DEF Contents

\* At most one thread is between making room and storing, and while there is one
\* no other thread is at the ring.
LEMMA OneAtTheRing ==
  ASSUME IInv, NEW t \in Thread, pc[t] \in Critical
  PROVE  \A u \in Thread : pc[u] \in Critical => u = t
BY DEF IInv, LockDiscipline

LEMMA NobodyStoring ==
  ASSUME ~ \E t \in Thread : pc[t] = "w_store" PROVE AbsFifo = Contents
BY DEF AbsFifo

LEMMA Storing ==
  ASSUME IInv, NEW t \in Thread, pc[t] = "w_store"
  PROVE  AbsFifo = Append(Contents, msg[t])
<1>1. (CHOOSE u \in Thread : pc[u] = "w_store") = t
  BY OneAtTheRing DEF Critical
<1> QED BY <1>1 DEF AbsFifo

\* msg_queue_open leaves an empty queue behind.
LEMMA InitFifo == Init => Fifo!Init
<1> SUFFICES ASSUME Init PROVE Fifo!Init
  OBVIOUS
<1>1. IInv
  BY InitIInv
<1>2. AbsFifo = <<>>
  BY <1>1, NobodyStoring, ContentsFacts DEF Init, Slot
<1> QED
  BY <1>2 DEF Init, Fifo!Init, AbsPending, AbsTaken

\* What the lemmas above say of a state, so that they can be used of the next one.
FifoFacts ==
  /\ Count \in 0 .. MAX_MESSAGES
  /\ Contents \in Seq(Msg) /\ Len(Contents) = Count
  /\ (\A t \in Thread : pc[t] # "w_store") => AbsFifo = Contents
  /\ \A t \in Thread : pc[t] = "w_store" => AbsFifo = Append(Contents, msg[t])

LEMMA FactsNow == IInv => FifoFacts
<1> SUFFICES ASSUME IInv PROVE FifoFacts
  OBVIOUS
<1>1. Count \in 0 .. MAX_MESSAGES /\ Contents \in Seq(Msg) /\ Len(Contents) = Count
  BY CountFacts, ContentsFacts
<1>2. (\A t \in Thread : pc[t] # "w_store") => AbsFifo = Contents
  BY NobodyStoring
<1>3. \A t \in Thread : pc[t] = "w_store" => AbsFifo = Append(Contents, msg[t])
  BY Storing
<1> QED BY <1>1, <1>2, <1>3 DEF FifoFacts

LEMMA FactsNext == IInv' => FifoFacts'
BY FactsNow, PTL

\* A sequence is the function it looks like.
LEMMA SeqIsFunction ==
  ASSUME NEW S, NEW n, NEW s \in Seq(S), Len(s) = n
  PROVE  s = [k \in 1 .. n |-> s[k]]
OBVIOUS

\* Taking the oldest message out of its slot and moving the read cursor on leaves
\* the rest of the messages, in their order.
LEMMA DropOldest ==
  ASSUME IInv, IInv', queue[read_cursor] # NULL,
         queue' = [queue EXCEPT ![read_cursor] = NULL],
         read_cursor' = Inc(read_cursor), write_cursor' = write_cursor
  PROVE  Contents' = Tail(Contents)
<1>1. Count \in 1 .. MAX_MESSAGES /\ \A k \in 0 .. MAX_MESSAGES - 1 : Ahead(k) \in Slot
  BY CountFacts
<1> USE DEF IInv, TypeOK, Slot
<1>2. Count' = Count - 1
  <2>1. isOpen
    BY DEF ClosedIsQuiet
  <2>2. \A i \in Slot : queue[i] # NULL <=> InWindow(i)
    BY <2>1 DEF RingIsContiguous
  <2> QED
    BY <2>2 DEF Count, Inc, InWindow
<1>3. \A k \in 1 .. Count - 1 : (Ahead(k - 1))' = Ahead(k) /\ Ahead(k) # read_cursor
  BY <1>1 DEF Ahead, Inc
<1>4. \A k \in 1 .. Count - 1 : queue'[(Ahead(k - 1))'] = queue[Ahead(k)]
  <2> SUFFICES ASSUME NEW k \in 1 .. Count - 1 PROVE queue'[(Ahead(k - 1))'] = queue[Ahead(k)]
    OBVIOUS
  <2>1. Ahead(k) \in Slot \ {read_cursor} /\ (Ahead(k - 1))' = Ahead(k)
    <3>1. k \in 0 .. MAX_MESSAGES - 1
      BY <1>1
    <3> QED BY <1>1, <1>3, <3>1
  <2> QED BY <2>1
<1>5. Contents' = [k \in 1 .. Count - 1 |-> queue[Ahead(k)]]
  BY <1>2, <1>4, Zenon DEF Contents
<1>6. Tail(Contents) = [k \in 1 .. Count - 1 |-> queue[Ahead(k)]]
  <2>1. Contents \in Seq(Msg) /\ Len(Contents) = Count /\ Contents # <<>>
    BY <1>1, ContentsFacts, Zenon
  <2>2. Tail(Contents) = [k \in 1 .. Count - 1 |-> Contents[k + 1]]
    <3>1. Tail(Contents) \in Seq(Msg) /\ Len(Tail(Contents)) = Count - 1
      BY <2>1, HeadTailProperties
    <3>2. \A k \in 1 .. Count - 1 : Tail(Contents)[k] = Contents[k + 1]
      BY <2>1, <3>1, HeadTailProperties
    <3>3. Tail(Contents) = [k \in 1 .. Count - 1 |-> Tail(Contents)[k]]
      BY <3>1, SeqIsFunction, Zenon
    <3> QED BY <3>2, <3>3, Zenon
  <2>3. \A k \in 1 .. Count - 1 : Contents[k + 1] = queue[Ahead(k)]
    BY <1>1 DEF Contents
  <2> QED BY <2>2, <2>3, Zenon
<1> QED BY <1>5, <1>6

\* A message stored at the write cursor comes after all the others.
LEMMA StoreAppends ==
  ASSUME IInv, IInv', NEW t \in Thread, WriteStore(t)
  PROVE  Contents' = Append(Contents, msg[t])
<1>1. queue[write_cursor] = NULL /\ msg[t] # NULL /\ isOpen
  BY DEF WriteStore, Goto, IInv, RoomMade, InHand, ClosedIsQuiet
<1>2. Count \in 0 .. MAX_MESSAGES - 1 /\ Ahead(Count) = write_cursor
  BY <1>1, CountFacts
<1> USE DEF IInv, TypeOK, Slot, WriteStore, Goto
<1>3. Count' = Count + 1
  <2>1. \A i \in Slot : queue[i] # NULL <=> InWindow(i)
    BY <1>1 DEF RingIsContiguous
  <2>2. queue'[read_cursor'] # NULL
    BY <1>1, <2>1 DEF InWindow
  <2> QED
    BY <1>1, <2>1, <2>2 DEF Count, Inc, InWindow
<1>4. \A k \in 1 .. Count : queue'[(Ahead(k - 1))'] = queue[Ahead(k - 1)]
  <2> SUFFICES ASSUME NEW k \in 1 .. Count
               PROVE  queue'[(Ahead(k - 1))'] = queue[Ahead(k - 1)]
    OBVIOUS
  <2>1. (Ahead(k - 1))' = Ahead(k - 1) /\ Ahead(k - 1) # write_cursor
    BY <1>1, <1>2, CountFacts DEF Ahead
  <2> QED BY <2>1
<1>5. \A k \in 1 .. Count + 1 : k - 1 = Count => queue'[(Ahead(k - 1))'] = msg[t]
  BY <1>2 DEF Ahead
<1>6. Contents' = [k \in 1 .. Count + 1 |-> IF k \in 1 .. Count THEN queue[Ahead(k - 1)] ELSE msg[t]]
  <2>1. Contents' = [k \in 1 .. Count + 1 |-> queue'[(Ahead(k - 1))']]
    BY <1>3, Zenon DEF Contents
  <2>2. \A k \in 1 .. Count + 1 :
          queue'[(Ahead(k - 1))'] = IF k \in 1 .. Count THEN queue[Ahead(k - 1)] ELSE msg[t]
    <3> SUFFICES ASSUME NEW k \in 1 .. Count + 1
                 PROVE  queue'[(Ahead(k - 1))'] = IF k \in 1 .. Count THEN queue[Ahead(k - 1)] ELSE msg[t]
      OBVIOUS
    <3>1. CASE k \in 1 .. Count
      BY <1>4, <3>1
    <3>2. CASE k \notin 1 .. Count
      <4>1. k - 1 = Count
        BY <1>2, <3>2
      <4> QED BY <1>5, <3>2, <4>1
    <3> QED BY <3>1, <3>2
  <2> QED BY <2>1, <2>2, Zenon
<1>7. Append(Contents, msg[t])
        = [k \in 1 .. Count + 1 |-> IF k \in 1 .. Count THEN queue[Ahead(k - 1)] ELSE msg[t]]
  <2>1. Contents \in Seq(Msg) /\ Len(Contents) = Count
    BY ContentsFacts, Zenon
  <2>2. Append(Contents, msg[t])
          = [k \in 1 .. Count + 1 |-> IF k = Count + 1 THEN msg[t] ELSE Contents[k]]
    BY <2>1
  <2>3. \A k \in 1 .. Count + 1 :
          (IF k = Count + 1 THEN msg[t] ELSE Contents[k])
            = IF k \in 1 .. Count THEN queue[Ahead(k - 1)] ELSE msg[t]
    BY <1>2 DEF Contents
  <2> QED BY <2>2, <2>3, Zenon
<1> QED BY <1>6, <1>7

\* A step of t that leaves the ring alone, starts or ends no store, and changes at
\* most the message of t, leaves the abstract queue alone.
LEMMA SameFifo ==
  ASSUME IInv, IInv', NEW t \in Thread, UNCHANGED ring,
         pc[t] # "w_store", pc'[t] # "w_store",
         \A u \in Thread \ {t} : pc'[u] = pc[u] /\ msg'[u] = msg[u]
  PROVE  AbsFifo' = AbsFifo
<1>1. Contents' = Contents
  BY DEF ring, Contents, Count, Ahead
<1>2. CASE \A u \in Thread : pc[u] # "w_store"
  BY <1>1, <1>2, FactsNow, FactsNext DEF FifoFacts
<1>3. ASSUME NEW u \in Thread, pc[u] = "w_store" PROVE AbsFifo' = AbsFifo
  <2>1. pc'[u] = "w_store" /\ msg'[u] = msg[u]
    BY <1>3
  <2> QED
    BY <1>1, <1>3, <2>1, FactsNow, FactsNext DEF FifoFacts
<1> QED BY <1>2, <1>3

\* Waiting for the mutex, taking it, and giving it back are no steps of the FIFO,
\* except that a reader that found nothing is done with the answer.
LEMMA LockMaps ==
  ASSUME IInv, IInv', NEW t \in Thread,
         WriteLock(t) \/ WriteUnlock(t) \/ ReadLock(t) \/ ReadUnlock(t) \/ Consume(t)
  PROVE  [Fifo!Next]_(Fifo!vars)
<1> USE DEF WriteLock, WriteUnlock, ReadLock, ReadUnlock, Consume, CallRead, Goto
<1>1. UNCHANGED <<ring, msg>>
  OBVIOUS
<1>2. AbsFifo' = AbsFifo
  BY <1>1, SameFifo DEF IInv, TypeOK
<1>3. AbsPending' = AbsPending
  BY DEF AbsPending, IInv, TypeOK
<1>4. CASE AbsTaken' = AbsTaken
  BY <1>2, <1>3, <1>4 DEF Fifo!vars
<1>5. CASE AbsTaken' # AbsTaken
  <2>1. ReadUnlock(t) /\ msg[t] = NULL
    BY <1>5 DEF AbsTaken, IInv, TypeOK
  <2>2. AbsTaken[t] # <<>> /\ AbsTaken' = [AbsTaken EXCEPT ![t] = <<>>]
    BY <2>1 DEF AbsTaken, IInv, TypeOK
  <2>3. Fifo!Done(t)
    BY <1>2, <1>3, <2>2 DEF Fifo!Done
  <2> QED BY <2>3 DEF Fifo!Next
<1> QED BY <1>4, <1>5

\* A write is asked for.
LEMMA ProduceMaps ==
  ASSUME IInv, IInv', NEW t \in Thread, Produce(t) PROVE [Fifo!Next]_(Fifo!vars)
<1>1. PICK m \in Msg \ allocated : CallWrite(t, m)
  BY DEF Produce
<1> USE <1>1 DEF CallWrite, Goto
<1>2. AbsFifo' = AbsFifo
  BY SameFifo DEF IInv, TypeOK
<1>3. /\ AbsPending[t] = NULL /\ AbsTaken[t] = <<>>
      /\ AbsPending' = [AbsPending EXCEPT ![t] = m] /\ AbsTaken' = AbsTaken
  BY DEF AbsPending, AbsTaken, IInv, TypeOK
<1>4. Fifo!Request(t, m)
  BY <1>2, <1>3 DEF Fifo!Request
<1> QED BY <1>4 DEF Fifo!Next

\* Making room is the moment a write takes effect.
LEMMA MakeRoomMaps ==
  ASSUME IInv, IInv', NEW t \in Thread, WriteMakeRoom(t) PROVE Fifo!Write(t)
<1> USE DEF WriteMakeRoom, Goto
<1>1. AbsFifo = Contents /\ AbsFifo' = Append(Contents', msg[t])
  <2>1. \A u \in Thread : pc[u] # "w_store"
    BY OneAtTheRing DEF Critical
  <2>2. pc'[t] = "w_store" /\ msg' = msg
    BY DEF IInv, TypeOK
  <2> QED BY <2>1, <2>2, FactsNow, FactsNext DEF FifoFacts
<1>2. Contents' = IF Len(Contents) = MAX_MESSAGES THEN Tail(Contents) ELSE Contents
  <2>1. CASE queue[write_cursor] = NULL
    <3>1. Contents' = Contents
      BY <2>1 DEF Contents, Count, Ahead
    <3> QED BY <2>1, <3>1, CountFacts, ContentsFacts
  <2>2. CASE queue[write_cursor] # NULL
    <3>1. /\ write_cursor = read_cursor /\ write_cursor' = write_cursor
          /\ queue' = [queue EXCEPT ![read_cursor] = NULL] /\ read_cursor' = Inc(read_cursor)
          /\ Count = MAX_MESSAGES
      BY <2>2, CountFacts DEF IInv, TypeOK, RingIsContiguous, InWindow, ClosedIsQuiet, Slot, Count
    <3>2. Contents' = Tail(Contents)
      BY <2>2, <3>1, DropOldest
    <3> QED BY <3>1, <3>2, ContentsFacts
  <2> QED BY <2>1, <2>2
<1>3. /\ AbsPending[t] = msg[t] /\ msg[t] # NULL
      /\ AbsPending' = [AbsPending EXCEPT ![t] = NULL] /\ AbsTaken' = AbsTaken
  BY DEF AbsPending, AbsTaken, IInv, TypeOK, InHand
<1> QED
  BY <1>1, <1>2, <1>3 DEF Fifo!Write

\* Storing puts the message where the abstract queue already has it.
LEMMA StoreMaps ==
  ASSUME IInv, IInv', NEW t \in Thread, WriteStore(t) PROVE UNCHANGED Fifo!vars
<1> USE DEF WriteStore, Goto
<1>1. AbsFifo = Append(Contents, msg[t]) /\ AbsFifo' = Contents'
  <2>1. pc[t] = "w_store" /\ \A u \in Thread : pc'[u] # "w_store"
    BY OneAtTheRing DEF Critical, IInv, TypeOK
  <2> QED BY <2>1, FactsNow, FactsNext DEF FifoFacts
<1>2. Contents' = Append(Contents, msg[t])
  BY StoreAppends
<1>3. AbsPending' = AbsPending /\ AbsTaken' = AbsTaken
  BY DEF AbsPending, AbsTaken, IInv, TypeOK
<1> QED BY <1>1, <1>2, <1>3 DEF Fifo!vars

\* Taking the message out of its slot is the moment a read takes effect.
LEMMA TakeMaps ==
  ASSUME IInv, IInv', NEW t \in Thread, ReadTake(t) PROVE Fifo!Read(t)
<1> USE DEF ReadTake, Goto
<1>1. AbsFifo = Contents /\ AbsFifo' = Contents'
  <2>1. \A u \in Thread : pc[u] # "w_store" /\ pc'[u] # "w_store"
    BY OneAtTheRing DEF Critical, IInv, TypeOK
  <2> QED BY <2>1, FactsNow, FactsNext DEF FifoFacts
<1>2. /\ AbsPending[t] = NULL /\ AbsTaken[t] = <<>> /\ AbsPending' = AbsPending
      /\ AbsTaken' = [AbsTaken EXCEPT ![t] = <<queue[read_cursor]>>]
  BY DEF AbsPending, AbsTaken, IInv, TypeOK
<1>3. CASE queue[read_cursor] = NULL
  <2>1. Contents' = Contents /\ Contents = <<>>
    BY <1>3, ContentsFacts DEF Contents, Count, Ahead
  <2> QED BY <1>1, <1>2, <1>3, <2>1 DEF Fifo!Read
<1>4. CASE queue[read_cursor] # NULL
  <2>1. Contents # <<>> /\ Head(Contents) = queue[read_cursor]
    BY <1>4, ContentsFacts, CountFacts
  <2>2. Contents' = Tail(Contents)
    BY <1>4, DropOldest
  <2> QED BY <1>1, <1>2, <2>1, <2>2 DEF Fifo!Read
<1> QED BY <1>3, <1>4

\* The reader is done with its message.
LEMMA FreeMaps ==
  ASSUME IInv, IInv', NEW t \in Thread, FreeRead(t) PROVE Fifo!Done(t)
<1> USE DEF FreeRead, Goto
<1>1. AbsFifo' = AbsFifo
  BY SameFifo DEF IInv, TypeOK
<1>2. /\ AbsTaken[t] # <<>> /\ AbsTaken' = [AbsTaken EXCEPT ![t] = <<>>]
      /\ AbsPending' = AbsPending
  BY DEF AbsPending, AbsTaken, IInv, TypeOK
<1> QED BY <1>1, <1>2 DEF Fifo!Done

\* Closing throws away what is left, if anything is.
LEMMA CloseMaps == ASSUME IInv, IInv', Close PROVE [Fifo!Next]_(Fifo!vars)
<1> USE DEF Close
<1>1. \A t \in Thread : pc[t] = "idle" /\ pc'[t] = "idle"
  OBVIOUS
<1>2. AbsFifo = Contents /\ AbsFifo' = Contents'
  BY <1>1, FactsNow, FactsNext DEF FifoFacts
<1>3. Contents' = <<>>
  <2>1. Count' = 0
    BY DEF Count, IInv, TypeOK
  <2> QED BY <2>1, FactsNext DEF FifoFacts
<1>4. UNCHANGED <<AbsPending, AbsTaken>> /\ \A t \in Thread : AbsPending[t] = NULL /\ AbsTaken[t] = <<>>
  BY <1>1 DEF AbsPending, AbsTaken
<1>5. CASE Contents = <<>>
  BY <1>2, <1>3, <1>4, <1>5 DEF Fifo!vars
<1>6. CASE Contents # <<>>
  BY <1>2, <1>3, <1>4, <1>6 DEF Fifo!Discard, Fifo!Next
<1> QED BY <1>5, <1>6

\* Every step of the ring is a step of the FIFO, or none.
LEMMA StepFifo == IInv /\ IInv' /\ [Next]_vars => [Fifo!Next]_(Fifo!vars)
<1> SUFFICES ASSUME IInv, IInv', [Next]_vars PROVE [Fifo!Next]_(Fifo!vars)
  OBVIOUS
<1>1. CASE UNCHANGED vars
  BY <1>1 DEF vars, Fifo!vars, AbsFifo, AbsPending, AbsTaken, Contents, Count, Ahead
<1>2. CASE Close
  BY <1>2, CloseMaps
<1>3. ASSUME NEW t \in Thread,
             Produce(t) \/ Consume(t) \/ FreeRead(t) \/ WriteStep(t) \/ ReadStep(t)
      PROVE  [Fifo!Next]_(Fifo!vars)
  <2>1. CASE Produce(t)
    BY <2>1, ProduceMaps
  <2>2. CASE WriteMakeRoom(t) \/ ReadTake(t) \/ FreeRead(t)
    BY <2>2, MakeRoomMaps, TakeMaps, FreeMaps DEF Fifo!Next
  <2>3. CASE WriteStore(t)
    BY <2>3, StoreMaps
  <2>4. CASE WriteLock(t) \/ WriteUnlock(t) \/ ReadLock(t) \/ ReadUnlock(t) \/ Consume(t)
    BY <2>4, LockMaps
  <2> QED BY <1>3, <2>1, <2>2, <2>3, <2>4 DEF WriteStep, ReadStep
<1> QED BY <1>1, <1>2, <1>3 DEF Next

\* msg_queue.c, with its cursors, its slots and its mutex, is an overwriting FIFO for
\* every number of slots and of threads.
THEOREM Implements == Spec => ImplementsFifo
BY InitFifo, StepFifo, IInvHolds, PTL DEF Spec, ImplementsFifo, Fifo!Spec

=============================================================================
