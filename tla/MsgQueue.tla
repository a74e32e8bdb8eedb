------------------------------ MODULE MsgQueue ------------------------------
(***************************************************************************)
(* The message queue of the infotainment program (frinfo/msg_queue.c): a   *)
(* ring of MAX_MESSAGES pointers with a read and a write cursor, guarded   *)
(* by a mutex.  The serial thread writes the frames it has parsed and the  *)
(* user-interface thread drains them; a write that finds its slot occupied *)
(* frees the message there and moves the read cursor past it.              *)
(*                                                                         *)
(* A message is the address of a heap block.  Each call is split at the    *)
(* points where another thread may run: the acquisition of the mutex, what *)
(* is done before and after making room, and the release.  The mutex makes *)
(* the steps between them atomic; the model does not assume it does.       *)
(***************************************************************************)
EXTENDS Naturals, Sequences

CONSTANTS
  Thread,        \* the threads that use the queue
  Msg,           \* addresses malloc can return for a message
  NULL,          \* the null pointer
  MAX_MESSAGES   \* slots of the ring (256 in msg_queue.h)

ASSUME MaxAssumption == MAX_MESSAGES \in Nat \ {0}
ASSUME NullAssumption == NULL \notin Msg /\ NULL \notin Thread

VARIABLES
  queue,         \* q->queue: the slots
  write_cursor,  \* q->write_cursor
  read_cursor,   \* q->read_cursor
  lock,          \* holder of q->lock, NULL when it is free
  isOpen,        \* between msg_queue_open and msg_queue_close
  pc,            \* pc[t]: where thread t is in its call
  msg,           \* msg[t]: the argument or the result of the call of t
  allocated      \* heap blocks of messages that are malloc'ed and not yet freed

ring == <<queue, write_cursor, read_cursor>>
vars == <<queue, write_cursor, read_cursor, lock, isOpen, pc, msg, allocated>>

Slot == 0 .. MAX_MESSAGES - 1

\* Where a thread can be.  "holding": the caller has the message it read.
Control == {"idle", "w_lock", "w_room", "w_store", "w_unlock",
            "r_lock", "r_take", "r_unlock", "holding"}
Critical == {"w_room", "w_store", "w_unlock", "r_take", "r_unlock"}

TypeOK ==
  /\ queue \in [Slot -> Msg \cup {NULL}]
  /\ write_cursor \in Slot
  /\ read_cursor \in Slot
  /\ lock \in Thread \cup {NULL}
  /\ isOpen \in BOOLEAN
  /\ pc \in [Thread -> Control]
  /\ msg \in [Thread -> Msg \cup {NULL}]
  /\ allocated \subseteq Msg

\* Fault: the limit is compared before the cursor is incremented.
IncLate(c) == IF c = MAX_MESSAGES THEN 0 ELSE c + 1

\* inc_read_cursor and inc_write_cursor: past the last slot comes the first.
Inc(c) == IF c + 1 = MAX_MESSAGES THEN 0 ELSE c + 1

Goto(t, from, to) == pc[t] = from /\ pc' = [pc EXCEPT ![t] = to]

-----------------------------------------------------------------------------
(* msg_queue_open: no message, both cursors at the first slot.             *)
Init ==
  /\ queue = [i \in Slot |-> NULL]
  /\ write_cursor = 0
  /\ read_cursor = 0
  /\ lock = NULL
  /\ isOpen = TRUE
  /\ pc = [t \in Thread |-> "idle"]
  /\ msg = [t \in Thread |-> NULL]
  /\ allocated = {}

\* lock_msg_queue and unlock_msg_queue.
Lock(t) == lock = NULL /\ lock' = t
Unlock == lock' = NULL

-----------------------------------------------------------------------------
(* msg_queue_write(q, m)                                                   *)

\* The caller has m from malloc and hands it over.
CallWrite(t, m) ==
  /\ isOpen
  /\ Goto(t, "idle", "w_lock")
  /\ msg' = [msg EXCEPT ![t] = m]
  /\ UNCHANGED <<ring, lock, isOpen>>

\* Fault: a writer that does not wait for the mutex.
WriteLockless(t) ==
  /\ Goto(t, "w_lock", "w_room")
  /\ lock' = t
  /\ UNCHANGED <<ring, isOpen, msg, allocated>>

WriteLock(t) ==
  /\ Goto(t, "w_lock", "w_room")
  /\ Lock(t)
  /\ UNCHANGED <<ring, isOpen, msg, allocated>>

\* Fault: the read cursor stays at the slot that is overwritten.
WriteInPlace(t) ==
  /\ Goto(t, "w_room", "w_store")
  /\ allocated' = allocated \ {queue[write_cursor]}
  /\ queue' = [queue EXCEPT ![write_cursor] = NULL]
  /\ UNCHANGED <<read_cursor, write_cursor, lock, isOpen, msg>>

\* An occupied slot is freed, and the read cursor leaves it if it is there.
WriteMakeRoom(t) ==
  /\ Goto(t, "w_room", "w_store")
  /\ \/ /\ queue[write_cursor] = NULL
        /\ UNCHANGED <<queue, read_cursor, allocated>>
     \/ /\ queue[write_cursor] # NULL
        /\ allocated' = allocated \ {queue[write_cursor]}
        /\ queue' = [queue EXCEPT ![write_cursor] = NULL]
        /\ read_cursor' = IF write_cursor = read_cursor
                          THEN Inc(read_cursor) ELSE read_cursor
  /\ UNCHANGED <<write_cursor, lock, isOpen, msg>>

\* The queue becomes the owner of the message.
WriteStore(t) ==
  /\ Goto(t, "w_store", "w_unlock")
  /\ queue' = [queue EXCEPT ![write_cursor] = msg[t]]
  /\ write_cursor' = Inc(write_cursor)
  /\ msg' = [msg EXCEPT ![t] = NULL]
  /\ UNCHANGED <<read_cursor, lock, isOpen, allocated>>

WriteUnlock(t) ==
  /\ Goto(t, "w_unlock", "idle")
  /\ Unlock
  /\ UNCHANGED <<ring, isOpen, msg, allocated>>

-----------------------------------------------------------------------------
(* msg_queue_read(q)                                                       *)

CallRead(t) ==
  /\ isOpen
  /\ Goto(t, "idle", "r_lock")
  /\ UNCHANGED <<ring, lock, isOpen, msg>>

ReadLock(t) ==
  /\ Goto(t, "r_lock", "r_take")
  /\ Lock(t)
  /\ UNCHANGED <<ring, isOpen, msg, allocated>>

\* Fault: the slot keeps its pointer to the message the reader will free.
ReadKeep(t) ==
  /\ Goto(t, "r_take", "r_unlock")
  /\ msg' = [msg EXCEPT ![t] = queue[read_cursor]]
  /\ read_cursor' = IF queue[read_cursor] = NULL THEN read_cursor ELSE Inc(read_cursor)
  /\ UNCHANGED <<queue, write_cursor, lock, isOpen, allocated>>

\* The message at the read cursor, if any, leaves the queue.
ReadTake(t) ==
  /\ Goto(t, "r_take", "r_unlock")
  /\ msg' = [msg EXCEPT ![t] = queue[read_cursor]]
  /\ \/ /\ queue[read_cursor] = NULL
        /\ UNCHANGED <<queue, read_cursor>>
     \/ /\ queue[read_cursor] # NULL
        /\ queue' = [queue EXCEPT ![read_cursor] = NULL]
        /\ read_cursor' = Inc(read_cursor)
  /\ UNCHANGED <<write_cursor, lock, isOpen, allocated>>

\* Fault: an early return when there is no message, without the unlock.
ReadReturn(t) ==
  /\ Goto(t, "r_unlock", IF msg[t] = NULL THEN "idle" ELSE "holding")
  /\ lock' = IF msg[t] = NULL THEN lock ELSE NULL
  /\ UNCHANGED <<ring, isOpen, msg, allocated>>

ReadUnlock(t) ==
  /\ Goto(t, "r_unlock", IF msg[t] = NULL THEN "idle" ELSE "holding")
  /\ Unlock
  /\ UNCHANGED <<ring, isOpen, msg, allocated>>

-----------------------------------------------------------------------------
(* The callers' side of the contract.                                      *)

\* A caller mallocs a message and writes it.
Produce(t) ==
  \E m \in Msg \ allocated :
    /\ allocated' = allocated \cup {m}
    /\ CallWrite(t, m)

Consume(t) == CallRead(t) /\ UNCHANGED allocated

\* "reader MUST free returned pointer".
FreeRead(t) ==
  /\ Goto(t, "holding", "idle")
  /\ allocated' = allocated \ {msg[t]}
  /\ msg' = [msg EXCEPT ![t] = NULL]
  /\ UNCHANGED <<ring, lock, isOpen>>

(* msg_queue_close takes no lock: frinfo_close calls it when the user      *)
(* interface has returned and the serial thread has been joined.           *)
Close ==
  /\ isOpen
  /\ \A t \in Thread : pc[t] = "idle"
  /\ isOpen' = FALSE
  /\ allocated' = allocated \ {queue[i] : i \in Slot}
  /\ queue' = [i \in Slot |-> NULL]
  /\ UNCHANGED <<write_cursor, read_cursor, lock, pc, msg>>

-----------------------------------------------------------------------------
\* The steps inside a call, once it has begun.
WriteStep(t) == WriteLock(t) \/ WriteMakeRoom(t) \/ WriteStore(t) \/ WriteUnlock(t)
ReadStep(t) == ReadLock(t) \/ ReadTake(t) \/ ReadUnlock(t)

Next ==
  \/ \E t \in Thread :
       \/ Produce(t) \/ Consume(t) \/ FreeRead(t)
       \/ WriteStep(t) \/ ReadStep(t)
  \/ Close

Spec == Init /\ [][Next]_vars

\* A thread that is not blocked on the mutex keeps running.
Fairness == \A t \in Thread : WF_vars(WriteStep(t) \/ ReadStep(t) \/ FreeRead(t))
FairSpec == Spec /\ Fairness

-----------------------------------------------------------------------------
(* Properties                                                              *)

\* A slot between the read cursor and the write cursor, going up and around.
InWindow(i) ==
  \/ read_cursor < write_cursor /\ read_cursor <= i /\ i < write_cursor
  \/ write_cursor < read_cursor /\ (read_cursor <= i \/ i < write_cursor)
  \/ write_cursor = read_cursor /\ queue[read_cursor] # NULL

\* The occupied slots of the ring are exactly those from the read cursor up
\* to the write cursor: whichever of msg_queue_write and msg_queue_read moved
\* a cursor last, no gap is left that would make the reader stop short of the
\* messages behind it, and no message is left outside the reader's path.
RingIsContiguous == isOpen => \A i \in Slot : queue[i] # NULL <=> InWindow(i)

\* Every message that is allocated has exactly one owner, a slot or a thread,
\* and every pointer in a slot or held by a thread is to an allocated message:
\* the free in msg_queue_write, the free of the reader and the one in
\* msg_queue_close never free a message twice, never leave a dangling pointer
\* and never forget a message.
SingleOwner ==
  /\ \A i, j \in Slot : queue[i] # NULL /\ queue[i] = queue[j] => i = j
  /\ \A t \in Thread, i \in Slot : msg[t] # NULL => msg[t] # queue[i]
  /\ \A t, u \in Thread : msg[t] # NULL /\ msg[t] = msg[u] => t = u
  /\ allocated = ({queue[i] : i \in Slot} \cup {msg[t] : t \in Thread}) \ {NULL}

\* The mutex of a queue is always released again by the thread that took it,
\* on every path through msg_queue_write and msg_queue_read.
LockIsReleased == \A t \in Thread : (lock = t) ~> (lock # t)

-----------------------------------------------------------------------------
(* The queue implements an overwriting FIFO.                               *)

Count ==
  IF queue[read_cursor] = NULL THEN 0
  ELSE IF read_cursor < write_cursor THEN write_cursor - read_cursor
       ELSE MAX_MESSAGES - read_cursor + write_cursor

\* The slot k places after the read cursor.
Ahead(k) == IF read_cursor + k < MAX_MESSAGES
            THEN read_cursor + k ELSE read_cursor + k - MAX_MESSAGES

Contents == [k \in 1 .. Count |-> queue[Ahead(k - 1)]]

\* A write takes effect when it has made room, a read when it takes.
AbsFifo ==
  IF \E t \in Thread : pc[t] = "w_store"
  THEN Append(Contents, msg[CHOOSE t \in Thread : pc[t] = "w_store"])
  ELSE Contents

AbsPending == [t \in Thread |-> IF pc[t] \in {"w_lock", "w_room"} THEN msg[t] ELSE NULL]

AbsTaken ==
  [t \in Thread |-> IF pc[t] \in {"r_unlock", "holding"} THEN <<msg[t]>> ELSE <<>>]

Fifo == INSTANCE OverwritingFifo
          WITH Capacity <- MAX_MESSAGES, NoMsg <- NULL,
               fifo <- AbsFifo, pending <- AbsPending, taken <- AbsTaken

\* The ring, its cursors and its mutex implement an overwriting FIFO: messages
\* come out in the order the writes took effect, none twice, a read reports an
\* empty queue only when it is empty, and only a write to a full queue loses a
\* message, always the oldest one.
ImplementsFifo == Fifo!Spec

=============================================================================
