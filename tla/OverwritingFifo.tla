--------------------------- MODULE OverwritingFifo ---------------------------
(***************************************************************************)
(* What a message queue of the infotainment program promises its callers:  *)
(* a first-in first-out queue of bounded capacity whose Write never blocks *)
(* and never fails, because a full queue gives up its oldest message, and  *)
(* whose Read hands out the oldest message or reports that there is none.  *)
(* Every operation takes effect atomically, once, between its call and its *)
(* return.  MsgQueue implements this specification.                        *)
(***************************************************************************)
EXTENDS Naturals, Sequences

CONSTANTS
  Thread,    \* the callers
  Msg,       \* the messages
  Capacity,  \* how many messages the queue can hold
  NoMsg      \* not a message: the answer of a Read that found none

VARIABLES
  fifo,     \* the messages in the queue, oldest first
  pending,  \* pending[t]: the message t is writing, NoMsg once the write took effect
  taken     \* taken[t]: <<answer>> from the moment the read of t takes effect
            \* until t is done with the answer, <<>> otherwise

vars == <<fifo, pending, taken>>

TypeOK ==
  /\ fifo \in Seq(Msg)
  /\ Len(fifo) <= Capacity
  /\ pending \in [Thread -> Msg \cup {NoMsg}]
  /\ taken \in [Thread -> {<<>>} \cup {<<a>> : a \in Msg \cup {NoMsg}}]

Init ==
  /\ fifo = <<>>
  /\ pending = [t \in Thread |-> NoMsg]
  /\ taken = [t \in Thread |-> <<>>]

\* t asks for m to be written.
Request(t, m) ==
  /\ pending[t] = NoMsg
  /\ taken[t] = <<>>
  /\ pending' = [pending EXCEPT ![t] = m]
  /\ UNCHANGED <<fifo, taken>>

\* Faults: a full queue that grows, and a full queue that refuses.
WriteBeyond(t) ==
  /\ pending[t] # NoMsg
  /\ fifo' = Append(fifo, pending[t])
  /\ pending' = [pending EXCEPT ![t] = NoMsg]
  /\ UNCHANGED taken

WriteUnlessFull(t) ==
  /\ pending[t] # NoMsg
  /\ fifo' = IF Len(fifo) = Capacity THEN fifo ELSE Append(fifo, pending[t])
  /\ pending' = [pending EXCEPT ![t] = NoMsg]
  /\ UNCHANGED taken

\* The write of t takes effect; the oldest message of a full queue is lost.
Write(t) ==
  /\ pending[t] # NoMsg
  /\ fifo' = Append(IF Len(fifo) = Capacity THEN Tail(fifo) ELSE fifo, pending[t])
  /\ pending' = [pending EXCEPT ![t] = NoMsg]
  /\ UNCHANGED taken

\* Fault: the newest message is read first.
ReadNewest(t) ==
  /\ pending[t] = NoMsg
  /\ taken[t] = <<>>
  /\ \/ /\ fifo = <<>>
        /\ taken' = [taken EXCEPT ![t] = <<NoMsg>>]
        /\ UNCHANGED fifo
     \/ /\ fifo # <<>>
        /\ taken' = [taken EXCEPT ![t] = <<fifo[Len(fifo)]>>]
        /\ fifo' = SubSeq(fifo, 1, Len(fifo) - 1)
  /\ UNCHANGED pending

\* The read of t takes effect.
Read(t) ==
  /\ pending[t] = NoMsg
  /\ taken[t] = <<>>
  /\ \/ /\ fifo = <<>>
        /\ taken' = [taken EXCEPT ![t] = <<NoMsg>>]
        /\ UNCHANGED fifo
     \/ /\ fifo # <<>>
        /\ taken' = [taken EXCEPT ![t] = <<Head(fifo)>>]
        /\ fifo' = Tail(fifo)
  /\ UNCHANGED pending

\* t is done with what it read.
Done(t) ==
  /\ taken[t] # <<>>
  /\ taken' = [taken EXCEPT ![t] = <<>>]
  /\ UNCHANGED <<fifo, pending>>

\* The queue is destroyed with the messages left in it.
Discard ==
  /\ fifo # <<>>
  /\ \A t \in Thread : pending[t] = NoMsg /\ taken[t] = <<>>
  /\ fifo' = <<>>
  /\ UNCHANGED <<pending, taken>>

Next ==
  \/ \E t \in Thread : Write(t) \/ Read(t) \/ Done(t) \/ (\E m \in Msg : Request(t, m))
  \/ Discard

Spec == Init /\ [][Next]_vars

=============================================================================
