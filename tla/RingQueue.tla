----------------------------- MODULE RingQueue ------------------------------
(***************************************************************************)
(* RingQueue (fifoqueue.cpp), the queue between the threads that record,   *)
(* encode, send, decode and play voice.  Every call holds queuelock from   *)
(* its first read to its last write, so a call is a step.                  *)
(*                                                                         *)
(* Left out: packets longer than a slot, which no caller pushes, and       *)
(* QueueIsEmpty, which changes nothing.                                    *)
(*                                                                         *)
(* An operator named X_Y is the operator X with a plausible mistake Y.     *)
(***************************************************************************)
EXTENDS Integers, Sequences

CONSTANTS
  FIFODEEP,  \* the number of slots
  Packets    \* what may be pushed

ASSUME RingAssumption ==
  /\ FIFODEEP \in Nat
  /\ FIFODEEP >= 2
  /\ Packets # {}

VARIABLES
  ringqueue,   \* the packet in each slot
  queue_head,  \* where the next packet goes
  queue_tail,  \* where the oldest packet is
  packet,      \* the packet taken last
  ret          \* what the last call returned

vars == <<ringqueue, queue_head, queue_tail, packet, ret>>

Slots == 0..(FIFODEEP - 1)

\* The indices never leave the ring.
TypeOK ==
  /\ ringqueue \in [Slots -> Packets]
  /\ queue_head \in Slots
  /\ queue_tail \in Slots
  /\ packet \in Packets
  /\ ret \in {"none", "okay", "full", "success", "empty"}

\* The zeroes the slots are filled with are not told from a packet: nobody
\* reads a slot that was not written.
Init ==
  /\ ringqueue \in [Slots -> Packets]
  /\ queue_head = 0
  /\ queue_tail = 0
  /\ packet \in Packets
  /\ ret = "none"
-----------------------------------------------------------------------------
\* The comparison with FIFODEEP, at both ends.
Wrap_Late(i) == IF i = FIFODEEP + 1 THEN 0 ELSE i
Wrap(i) == IF i = FIFODEEP THEN 0 ELSE i

\* The test for a full ring: the index is compared before it is wrapped.
IsFull(next_index) == next_index = queue_tail

\* The slot at the head is written even when the packet is then refused.
PushToQueue(p) ==
  /\ ringqueue' = [ringqueue EXCEPT ![queue_head] = p]
  /\ IF IsFull(queue_head + 1)
     THEN /\ ret' = "full"
          /\ UNCHANGED queue_head
     ELSE /\ ret' = "okay"
          /\ queue_head' = Wrap(queue_head + 1)
  /\ UNCHANGED <<queue_tail, packet>>

\* The oldest packet, read before the tail moves on.
TakeFromQueue_Advanced ==
  /\ IF queue_head # queue_tail
     THEN /\ packet' = ringqueue[Wrap(queue_tail + 1)]
          /\ queue_tail' = Wrap(queue_tail + 1)
          /\ ret' = "success"
     ELSE /\ ret' = "empty"
          /\ UNCHANGED <<packet, queue_tail>>
  /\ UNCHANGED <<ringqueue, queue_head>>
TakeFromQueue ==
  /\ IF queue_head # queue_tail
     THEN /\ packet' = ringqueue[queue_tail]
          /\ queue_tail' = Wrap(queue_tail + 1)
          /\ ret' = "success"
     ELSE /\ ret' = "empty"
          /\ UNCHANGED <<packet, queue_tail>>
  /\ UNCHANGED <<ringqueue, queue_head>>

ClearQueue ==
  /\ queue_tail' = queue_head
  /\ ret' = "none"
  /\ UNCHANGED <<ringqueue, queue_head, packet>>

Next == (\E p \in Packets : PushToQueue(p)) \/ TakeFromQueue \/ ClearQueue

Spec == Init /\ [][Next]_vars
-----------------------------------------------------------------------------
\* The packets in the ring, oldest first.
Size == IF queue_tail <= queue_head THEN queue_head - queue_tail
                                    ELSE queue_head - queue_tail + FIFODEEP
Slot(i) == IF queue_tail + i < FIFODEEP THEN queue_tail + i ELSE queue_tail + i - FIFODEEP
Queue == [i \in 1..Size |-> ringqueue[Slot(i - 1)]]

Fifo == INSTANCE VoiceFifo WITH queue <- Queue, Depth <- FIFODEEP - 1

\* The ring is a queue of FIFODEEP-1 packets: it keeps their order, gives none
\* twice and none that was overwritten, and refuses only when it is full.
ImplementsFifo == Fifo!Spec

\* fifoqueue.cpp:324 and 328 call the outcomes of a push `okay' and `full': a
\* packet that is accepted is in the queue, with all that was queued before.
AcceptedIsKept ==
  [][\A p \in Packets : PushToQueue(p) /\ ret' = "okay" => Queue' = Append(Queue, p)]_vars
=============================================================================
