---------------------------- MODULE QueuesProofs -----------------------------
(***************************************************************************)
(* Proofs about the queues of fifoqueue.cpp, for any number of slots,      *)
(* packets and threads.  RingQueue: its indices stay in bounds and every   *)
(* call of it is a call of the queue VoiceFifo.  FifoQueue: no slot is     *)
(* queued twice and none is written while it is queued, so it is the       *)
(* queue of VoiceFifo too, and each packet in it has its token.  Both hold *)
(* of Queues, in which either is used.                                     *)
(***************************************************************************)
EXTENDS Queues, SequenceTheorems, FiniteSetTheorems, TLAPS

USE RingAssumption, FifoAssumption DEF Slots, FifoSlots

-----------------------------------------------------------------------------
(***************************************************************************)
(* The ring.                                                               *)
(***************************************************************************)

THEOREM RingTypes == Spec => []TypeOK
<1>1. Init => TypeOK
  BY DEF Init, TypeOK
<1>2. TypeOK /\ [Next]_vars => TypeOK'
  <2> SUFFICES ASSUME TypeOK, [Next]_vars PROVE TypeOK'
    OBVIOUS
  <2>1. ASSUME NEW p \in Packets, PushToQueue(p) PROVE TypeOK'
    BY <2>1 DEF TypeOK, PushToQueue, Wrap
  <2>2. CASE TakeFromQueue
    BY <2>2 DEF TypeOK, TakeFromQueue, Wrap
  <2>3. CASE ClearQueue
    BY <2>3 DEF TypeOK, ClearQueue
  <2>4. CASE UNCHANGED vars
    BY <2>4 DEF TypeOK, vars
  <2> QED
    BY <2>1, <2>2, <2>3, <2>4 DEF Next
<1> QED
  BY <1>1, <1>2, PTL DEF Spec

-----------------------------------------------------------------------------
(***************************************************************************)
(* The abstract queue seen in the ring.                                    *)
(***************************************************************************)

LEMMA SizeRange == TypeOK => Size \in 0..(FIFODEEP - 1)
BY DEF TypeOK, Size

LEMMA SlotRange ==
  ASSUME TypeOK, NEW i \in 0..(FIFODEEP - 1)
  PROVE  Slot(i) \in Slots
BY DEF TypeOK, Slot

LEMMA QueueIsSeq == TypeOK => Queue \in Seq(Packets) /\ Len(Queue) = Size
<1> SUFFICES ASSUME TypeOK PROVE Queue \in Seq(Packets) /\ Len(Queue) = Size
  OBVIOUS
<1>1. Size \in Nat
  BY SizeRange
<1>2. \A i \in 1..Size : ringqueue[Slot(i - 1)] \in Packets
  BY SizeRange, SlotRange DEF TypeOK
<1> QED
  BY <1>1, <1>2 DEF Queue

LEMMA QueueStaysSeq == TypeOK' => (Queue \in Seq(Packets) /\ Len(Queue) = Size)'
BY QueueIsSeq, PTL

\* The slot at the head holds no packet of the queue: a push may write it.
LEMMA HeadIsFree ==
  ASSUME TypeOK, NEW i \in 0..(Size - 1)
  PROVE  Slot(i) # queue_head
BY DEF TypeOK, Slot, Size

LEMMA EmptyIsEqual == TypeOK => (Size = 0 <=> queue_head = queue_tail)
BY DEF TypeOK, Size

-----------------------------------------------------------------------------
(***************************************************************************)
(* Every call is a call of the abstract queue.                             *)
(***************************************************************************)

\* A push that moves the head to a free slot appends.
LEMMA PushAppends ==
  ASSUME TypeOK, TypeOK', NEW p \in Packets, PushToQueue(p),
         queue_head' # queue_head, queue_head' # queue_tail
  PROVE  Size < FIFODEEP - 1 /\ Queue' = Append(Queue, p)
<1>1. /\ ringqueue' = [ringqueue EXCEPT ![queue_head] = p]
      /\ queue_head' = Wrap(queue_head + 1) /\ UNCHANGED queue_tail
  BY DEF PushToQueue
<1>2. Size' = Size + 1 /\ Size < FIFODEEP - 1 /\ Slot(Size) = queue_head
  BY <1>1 DEF TypeOK, Size, Slot, Wrap
<1>3. \A i \in 0..(FIFODEEP - 1) : Slot(i)' = Slot(i)
  BY <1>1 DEF Slot
<1>4. ASSUME NEW i \in 0..(Size - 1) PROVE ringqueue'[Slot(i)'] = ringqueue[Slot(i)]
  <2>1. i \in 0..(FIFODEEP - 1)
    BY SizeRange
  <2>2. Slot(i)' = Slot(i) /\ Slot(i) # queue_head /\ Slot(i) \in Slots
    BY <1>3, <2>1, SlotRange, HeadIsFree
  <2> QED
    BY <1>1, <2>2 DEF TypeOK
<1>5. ASSUME NEW n \in 0..(FIFODEEP - 1), n = Size PROVE ringqueue'[Slot(n)'] = p
  <2>1. Slot(n)' = queue_head
    BY <1>2, <1>3, <1>5
  <2> QED
    BY <1>1, <2>1 DEF TypeOK
<1>6. /\ Queue \in Seq(Packets) /\ Len(Queue) = Size
      /\ Queue' \in Seq(Packets) /\ Len(Queue') = Size + 1
  BY <1>2, QueueIsSeq, QueueStaysSeq
<1>7. ASSUME NEW i \in 1..(Size + 1) PROVE Queue'[i] = Append(Queue, p)[i]
  <2>1. Queue'[i] = ringqueue'[Slot(i - 1)']
    BY <1>2 DEF Queue
  <2>2. CASE i \in 1..Size
    <3>1. Append(Queue, p)[i] = Queue[i]
      BY <1>6, <2>2, AppendProperties
    <3>2. Queue[i] = ringqueue[Slot(i - 1)]
      BY <2>2 DEF Queue
    <3>3. ringqueue'[Slot(i - 1)'] = ringqueue[Slot(i - 1)]
      BY <1>4, <2>2, SizeRange
    <3> QED
      BY <2>1, <3>1, <3>2, <3>3
  <2>3. CASE i = Size + 1
    <3>1. Append(Queue, p)[Size + 1] = p
      BY <1>6, AppendProperties
    <3>2. i - 1 = Size /\ i - 1 \in 0..(FIFODEEP - 1)
      BY <2>3, SizeRange
    <3> QED
      BY <1>5, <2>1, <2>3, <3>1, <3>2
  <2>4. i \in 1..Size \/ i = Size + 1
    BY SizeRange
  <2> QED
    BY <2>2, <2>3, <2>4
<1> QED
  <2>1. Append(Queue, p) \in Seq(Packets) /\ Len(Append(Queue, p)) = Size + 1
    BY <1>6, AppendProperties
  <2>2. Queue' = Append(Queue, p)
    BY <1>6, <1>7, <2>1, SeqEqual
  <2> QED
    BY <1>2, <2>2

\* A push that finds the next index at the tail changes nothing that counts.
LEMMA PushRefuses ==
  ASSUME TypeOK, TypeOK', NEW p \in Packets, PushToQueue(p), queue_head + 1 = queue_tail
  PROVE  Size = FIFODEEP - 1 /\ Queue' = Queue
<1>1. /\ ringqueue' = [ringqueue EXCEPT ![queue_head] = p]
      /\ UNCHANGED <<queue_head, queue_tail>>
  BY DEF PushToQueue, IsFull
<1>2. Size = FIFODEEP - 1 /\ Size' = Size
  BY <1>1 DEF TypeOK, Size
<1>3. \A i \in 1..Size : ringqueue'[Slot(i - 1)'] = ringqueue[Slot(i - 1)]
  BY <1>1, SizeRange, SlotRange, HeadIsFree DEF TypeOK, Slot
<1> QED
  BY <1>2, <1>3 DEF Queue

\* A push that wraps onto the tail empties a full ring.
LEMMA PushOverruns ==
  ASSUME TypeOK, TypeOK', NEW p \in Packets, PushToQueue(p), queue_head' = queue_tail,
         queue_head' # queue_head
  PROVE  Size = FIFODEEP - 1 /\ Queue' = <<>>
<1>1. Size = FIFODEEP - 1 /\ Size' = 0
  BY DEF PushToQueue, TypeOK, Size, Wrap
<1>2. Queue' \in Seq(Packets) /\ Len(Queue') = 0
  <2>1. Queue' = [i \in 1..0 |-> ringqueue'[Slot(i - 1)']]
    BY <1>1 DEF Queue
  <2> QED
    BY <2>1
<1> QED
  BY <1>1, <1>2

\* A take that finds the ring not empty takes the head.
LEMMA TakeIsHead ==
  ASSUME TypeOK, TypeOK', TakeFromQueue, queue_head # queue_tail
  PROVE  Queue # <<>> /\ packet' = Head(Queue) /\ Queue' = Tail(Queue)
<1>1. /\ packet' = ringqueue[queue_tail]
      /\ queue_tail' = Wrap(queue_tail + 1) /\ UNCHANGED <<ringqueue, queue_head>>
  BY DEF TakeFromQueue
<1>2. Size' = Size - 1 /\ Size \in 1..(FIFODEEP - 1) /\ Slot(0) = queue_tail
  BY <1>1 DEF TypeOK, Size, Slot, Wrap
<1>3. \A i \in 0..(Size - 2) : Slot(i)' = Slot(i + 1)
  BY <1>1, <1>2 DEF TypeOK, Slot, Wrap
<1>4. Queue \in Seq(Packets) /\ Len(Queue) = Size
  BY QueueIsSeq
<1>5. Queue # <<>> /\ Head(Queue) = Queue[1] /\ Queue[1] = ringqueue[Slot(0)]
  BY <1>2, <1>4 DEF Queue
<1>6. /\ Tail(Queue) \in Seq(Packets) /\ Len(Tail(Queue)) = Size - 1
      /\ \A i \in 1..(Size - 1) : Tail(Queue)[i] = Queue[i + 1]
  BY <1>4, <1>5, HeadTailProperties
<1>7. Queue' \in Seq(Packets) /\ Len(Queue') = Size - 1
  BY <1>2, QueueStaysSeq
<1>8. \A i \in 1..(Size - 1) : Queue'[i] = Queue[i + 1]
  BY <1>1, <1>2, <1>3 DEF Queue
<1>9. Queue' = Tail(Queue)
  BY <1>6, <1>7, <1>8, SeqEqual
<1> QED
  BY <1>1, <1>2, <1>5, <1>9

LEMMA ClearEmpties ==
  ASSUME TypeOK, TypeOK', ClearQueue
  PROVE  Queue' = <<>>
<1>1. Size' = 0
  BY DEF ClearQueue, Size, TypeOK
<1>2. Queue' = [i \in 1..0 |-> ringqueue'[Slot(i - 1)']]
  BY <1>1 DEF Queue
<1> QED
  BY <1>2

\* The ring keeps its promise: whatever threads push, take and clear, packets
\* leave it in order, once each, and it refuses only FIFODEEP-1 packets.
THEOREM RingIsFifo == Spec => ImplementsFifo
<1> USE DEF Fifo!vars
<1>1. Init => Fifo!Init
  <2> SUFFICES ASSUME Init PROVE Fifo!Init
    OBVIOUS
  <2>1. Size = 0
    BY DEF Init, Size
  <2>2. Queue = [i \in 1..0 |-> ringqueue[Slot(i - 1)]]
    BY <2>1 DEF Queue
  <2>3. Queue = <<>>
    BY <2>2
  <2> QED
    BY <2>3 DEF Init, Fifo!Init
<1>2. TypeOK /\ TypeOK' /\ [Next]_vars => [Fifo!Next]_(Fifo!vars)
  <2> SUFFICES ASSUME TypeOK, TypeOK', [Next]_vars PROVE [Fifo!Next]_(Fifo!vars)
    OBVIOUS
  <2> USE QueueIsSeq DEF Fifo!Next
  <2>1. ASSUME NEW p \in Packets, PushToQueue(p) PROVE Fifo!Next
    <3>1. CASE queue_head + 1 = queue_tail
      <4>1. Fifo!Refuse
        BY <2>1, <3>1, PushRefuses DEF Fifo!Refuse, PushToQueue, IsFull
      <4> QED
        BY <4>1
    <3>2. CASE queue_head + 1 # queue_tail
      <4>1. /\ queue_head' = Wrap(queue_head + 1) /\ ret' = "okay" /\ UNCHANGED packet
            /\ queue_head' # queue_head
        BY <2>1, <3>2 DEF PushToQueue, IsFull, Wrap, TypeOK
      <4>2. CASE queue_head' = queue_tail
        BY <2>1, <4>1, <4>2, PushOverruns DEF Fifo!Overrun
      <4>3. CASE queue_head' # queue_tail
        BY <2>1, <4>1, <4>3, PushAppends DEF Fifo!Accept
      <4> QED
        BY <4>2, <4>3
    <3> QED
      BY <3>1, <3>2
  <2>2. CASE TakeFromQueue
    <3>1. CASE queue_head # queue_tail
      BY <2>2, <3>1, TakeIsHead DEF Fifo!Take, TakeFromQueue
    <3>2. CASE queue_head = queue_tail
      <4>1. Queue = <<>>
        BY <3>2, EmptyIsEqual
      <4>2. UNCHANGED <<ringqueue, queue_head, queue_tail>>
        BY <2>2, <3>2 DEF TakeFromQueue
      <4>3. Queue' = Queue
        BY <4>2 DEF Queue, Size, Slot
      <4> QED
        BY <2>2, <3>2, <4>1, <4>3 DEF Fifo!Nothing, TakeFromQueue
    <3> QED
      BY <3>1, <3>2
  <2>3. CASE ClearQueue
    BY <2>3, ClearEmpties DEF Fifo!Clear, ClearQueue
  <2>4. CASE UNCHANGED vars
    BY <2>4 DEF vars, Queue, Size, Slot
  <2> QED
    BY <2>1, <2>2, <2>3, <2>4 DEF Next
<1> QED
  BY <1>1, <1>2, RingTypes, PTL DEF Spec, ImplementsFifo, Fifo!Spec

\* What a push does, exactly: a ring that is not full takes the packet and a full
\* one refuses it, but a full ring whose oldest packet is in slot 0 says that it
\* took the packet and loses everything.  AcceptedIsKept, which ring_accept
\* refutes, fails in that state only.
THEOREM PushOutcome ==
  Spec => [][\A p \in Packets : PushToQueue(p) =>
               IF Size < FIFODEEP - 1 THEN ret' = "okay" /\ Queue' = Append(Queue, p)
               ELSE IF queue_tail # 0 THEN ret' = "full" /\ UNCHANGED Queue
               ELSE ret' = "okay" /\ Queue' = <<>>]_vars
<1> DEFINE Outcome(p) == IF Size < FIFODEEP - 1 THEN ret' = "okay" /\ Queue' = Append(Queue, p)
                         ELSE IF queue_tail # 0 THEN ret' = "full" /\ UNCHANGED Queue
                         ELSE ret' = "okay" /\ Queue' = <<>>
<1>1. ASSUME TypeOK, TypeOK', NEW p \in Packets, PushToQueue(p) PROVE Outcome(p)
  <2>1. CASE queue_head + 1 = queue_tail
    <3>1. ret' = "full" /\ queue_tail # 0
      BY <1>1, <2>1 DEF PushToQueue, IsFull, TypeOK
    <3> QED
      BY <1>1, <2>1, <3>1, PushRefuses
  <2>2. CASE queue_head + 1 # queue_tail
    <3>1. ret' = "okay" /\ queue_head' = Wrap(queue_head + 1) /\ queue_head' # queue_head
      BY <1>1, <2>2 DEF PushToQueue, IsFull, Wrap, TypeOK
    <3>2. CASE queue_head' = queue_tail
      <4>1. queue_tail = 0
        BY <2>2, <3>1, <3>2 DEF Wrap
      <4> QED
        BY <1>1, <3>1, <3>2, <4>1, PushOverruns
    <3>3. CASE queue_head' # queue_tail
      BY <1>1, <3>1, <3>3, PushAppends
    <3> QED
      BY <3>2, <3>3
  <2> QED
    BY <2>1, <2>2
<1>2. TypeOK /\ TypeOK' => \A p \in Packets : PushToQueue(p) => Outcome(p)
  BY <1>1
<1> QED
  BY <1>2, RingTypes, PTL DEF Spec
-----------------------------------------------------------------------------
(***************************************************************************)
(* The list.                                                               *)
(***************************************************************************)

\* The slot used k packets before slot f.
Back(f, k) == IF f >= k THEN f - k ELSE f - k + FifoDepth

\* The queued slots are the last ones used: this is what ClearQueue keeps by
\* leaving fifo_index alone, and what makes NoAlias inductive.
InTurn ==
  /\ Len(m_list) <= FifoDepth
  /\ \A i \in 1..Len(m_list) : m_list[i] = Back(fifo_index, Len(m_list) - i + 1)

SlotInv == FifoTypeOK /\ InTurn

LEMMA PushInTurn ==
  ASSUME SlotInv, ~ListIsFull, m_list' = Append(m_list, fifo_index), fifo_index' = NextIndex
  PROVE  m_list' \in Seq(FifoSlots) /\ fifo_index' \in FifoSlots /\ InTurn'
<1>1. /\ fifo_index \in FifoSlots /\ m_list \in Seq(FifoSlots)
      /\ Len(m_list) < FifoDepth /\ Len(m_list) \in Nat
  BY DEF SlotInv, FifoTypeOK, InTurn, ListIsFull
<1>2. fifo_index' = IF fifo_index + 1 = FifoDepth THEN 0 ELSE fifo_index + 1
  BY <1>1 DEF NextIndex
<1>3. /\ m_list' \in Seq(FifoSlots) /\ Len(m_list') = Len(m_list) + 1
      /\ \A i \in 1..Len(m_list) : m_list'[i] = m_list[i]
      /\ m_list'[Len(m_list) + 1] = fifo_index
  BY <1>1, AppendProperties
<1>4. \A k \in 1..FifoDepth :
         Back(fifo_index', k) = IF k = 1 THEN fifo_index ELSE Back(fifo_index, k - 1)
  BY <1>1, <1>2 DEF Back
<1>5. ASSUME NEW i \in 1..(Len(m_list) + 1)
      PROVE  m_list'[i] = Back(fifo_index', Len(m_list) + 1 - i + 1)
  <2>1. CASE i = Len(m_list) + 1
    BY <1>1, <1>3, <1>4, <2>1
  <2>2. CASE i \in 1..Len(m_list)
    BY <1>1, <1>3, <1>4, <2>2 DEF SlotInv, InTurn
  <2> QED
    BY <1>1, <2>1, <2>2
<1> QED
  BY <1>1, <1>2, <1>3, <1>5 DEF InTurn

LEMMA TakeInTurn ==
  ASSUME SlotInv, m_list # <<>>, m_list' = Tail(m_list), UNCHANGED fifo_index
  PROVE  m_list' \in Seq(FifoSlots) /\ InTurn'
<1>1. m_list \in Seq(FifoSlots) /\ Len(m_list) \in Nat \ {0}
  BY DEF SlotInv, FifoTypeOK
<1>2. /\ m_list' \in Seq(FifoSlots) /\ Len(m_list') = Len(m_list) - 1
      /\ \A i \in 1..(Len(m_list) - 1) : m_list'[i] = m_list[i + 1]
  BY <1>1, HeadTailProperties
<1> QED
  BY <1>1, <1>2 DEF SlotInv, InTurn

\* Clear or a step that leaves the list alone.
LEMMA ListInTurn ==
  ASSUME SlotInv, m_list' \in {m_list, <<>>}, UNCHANGED fifo_index
  PROVE  m_list' \in Seq(FifoSlots) /\ InTurn'
<1>1. m_list \in Seq(FifoSlots)
  BY DEF SlotInv, FifoTypeOK
<1>2. CASE m_list' = m_list
  BY <1>1, <1>2 DEF SlotInv, InTurn
<1>3. CASE m_list' = <<>>
  BY <1>3 DEF InTurn
<1> QED
  BY <1>2, <1>3

LEMMA SlotStep == SlotInv /\ [FifoNext]_fifoVars => SlotInv'
<1> SUFFICES ASSUME SlotInv, [FifoNext]_fifoVars PROVE SlotInv'
  OBVIOUS
<1>1. ASSUME NEW t \in Producers, NEW p \in FifoPackets, Push(t, p) PROVE SlotInv'
  <2>1. CASE ListIsFull
    <3>1. m_list' \in Seq(FifoSlots) /\ InTurn'
      BY <1>1, <2>1, ListInTurn DEF Push
    <3> QED
      BY <1>1, <2>1, <3>1 DEF Push, SlotInv, FifoTypeOK
  <2>2. CASE ~ListIsFull
    <3>1. m_list' \in Seq(FifoSlots) /\ fifo_index' \in FifoSlots /\ InTurn'
      BY <1>1, <2>2, PushInTurn DEF Push
    <3> QED
      BY <1>1, <2>2, <3>1 DEF Push, SlotInv, FifoTypeOK
  <2> QED
    BY <2>1, <2>2
<1>2. ASSUME NEW t \in Producers, Post(t) PROVE SlotInv'
  <2>1. m_list' \in Seq(FifoSlots) /\ InTurn'
    BY <1>2, ListInTurn DEF Post
  <2> QED
    BY <1>2, <2>1 DEF Post, SlotInv, FifoTypeOK
<1>3. ASSUME NEW t \in Takers, Wait(t) PROVE SlotInv'
  <2>1. m_list' \in Seq(FifoSlots) /\ InTurn'
    BY <1>3, ListInTurn DEF Wait
  <2> QED
    BY <1>3, <2>1 DEF Wait, SlotInv, FifoTypeOK
<1>4. ASSUME NEW t \in Takers, Take(t) PROVE SlotInv'
  <2>1. m_list' \in Seq(FifoSlots) /\ InTurn'
    BY <1>4, ListInTurn, TakeInTurn DEF Take
  <2>2. taken' \in FifoPackets
    BY <1>4, HeadTailProperties DEF Take, SlotInv, FifoTypeOK
  <2> QED
    BY <1>4, <2>1, <2>2 DEF Take, SlotInv, FifoTypeOK
<1>5. CASE Clear
  <2>1. m_list' \in Seq(FifoSlots) /\ InTurn'
    BY <1>5, ListInTurn DEF Clear
  <2> QED
    BY <1>5, <2>1 DEF Clear, SlotInv, FifoTypeOK
<1>6. CASE UNCHANGED fifoVars
  <2>1. m_list' \in Seq(FifoSlots) /\ InTurn'
    BY <1>6, ListInTurn DEF fifoVars
  <2> QED
    BY <1>6, <2>1 DEF fifoVars, SlotInv, FifoTypeOK
<1> QED
  BY <1>1, <1>2, <1>3, <1>4, <1>5, <1>6 DEF FifoNext

\* The list holds the slots used last, in turn.
THEOREM SlotsInTurn == FifoSpec => []SlotInv
<1>1. FifoInit => SlotInv
  BY DEF FifoInit, SlotInv, FifoTypeOK, InTurn
<1> QED
  BY <1>1, SlotStep, PTL DEF FifoSpec

\* Types.
THEOREM FifoTypes == FifoSpec => []FifoTypeOK
BY SlotsInTurn, PTL DEF SlotInv

\* The slots are used in turn and there are as many as the list may hold: no
\* slot is queued twice, and the one that is written next is not queued, so no
\* packet is overwritten before it is taken.
NoAlias ==
  /\ \A i, j \in 1..Len(m_list) : m_list[i] = m_list[j] => i = j
  /\ ~ListIsFull => \A i \in 1..Len(m_list) : m_list[i] # fifo_index

LEMMA InTurnNoAlias == SlotInv => NoAlias
<1> SUFFICES ASSUME SlotInv PROVE NoAlias
  OBVIOUS
<1>1. fifo_index \in FifoSlots /\ Len(m_list) \in Nat /\ Len(m_list) <= FifoDepth
  BY DEF SlotInv, FifoTypeOK, InTurn
<1>2. \A k, l \in 1..FifoDepth : Back(fifo_index, k) = Back(fifo_index, l) => k = l
  BY <1>1 DEF Back
<1>3. \A k \in 1..(FifoDepth - 1) : Back(fifo_index, k) # fifo_index
  BY <1>1 DEF Back
<1> QED
  BY <1>1, <1>2, <1>3 DEF SlotInv, InTurn, NoAlias, ListIsFull

\* No queued packet is overwritten: neither is a slot queued twice, nor is the
\* slot of the next push queued.
THEOREM NoOverwrite == FifoSpec => []NoAlias
BY InTurnNoAlias, SlotsInTurn, PTL
-----------------------------------------------------------------------------
(***************************************************************************)
(* The tokens.                                                             *)
(***************************************************************************)
CoverInv == FifoTypeOK /\ TokensCover

\* Each packet that is queued has its token, be it still to be posted or
\* already taken: Push and Post, or Wait and Take, hand it on in between.
LEMMA CoverStep == CoverInv /\ FifoTypeOK' /\ [FifoNext]_fifoVars => CoverInv'
<1> SUFFICES ASSUME CoverInv, FifoTypeOK', [FifoNext]_fifoVars PROVE TokensCover'
  BY DEF CoverInv
<1> DEFINE pc == Cardinality(posting)
           hc == Cardinality(holding)
           n == Len(m_list)
<1>1. IsFiniteSet(posting) /\ IsFiniteSet(holding)
  BY FS_Subset DEF CoverInv, FifoTypeOK
<1>2. pc \in Nat /\ hc \in Nat /\ n \in Nat /\ queuesem \in Nat /\ n <= queuesem + pc + hc
  BY <1>1, FS_CardinalityType DEF CoverInv, FifoTypeOK, TokensCover
<1>3. \A t : /\ t \notin posting => Cardinality(posting \cup {t}) = pc + 1
             /\ t \in posting => Cardinality(posting \ {t}) = pc - 1
             /\ t \notin holding => Cardinality(holding \cup {t}) = hc + 1
             /\ t \in holding => Cardinality(holding \ {t}) = hc - 1
  BY <1>1, FS_AddElement, FS_RemoveElement
<1>4. m_list \in Seq(FifoSlots) /\ (m_list # <<>> => Len(Tail(m_list)) = n - 1)
      /\ Len(Append(m_list, fifo_index)) = n + 1
  BY HeadTailProperties, AppendProperties DEF CoverInv, FifoTypeOK
<1> HIDE DEF pc, hc, n
<1>5. ASSUME NEW t \in Producers, NEW p \in FifoPackets, Push(t, p) PROVE TokensCover'
  <2>1. CASE ListIsFull
    BY <1>5, <2>1 DEF Push, CoverInv, TokensCover
  <2>2. CASE ~ListIsFull
    <3>1. Len(m_list') = n + 1 /\ Cardinality(posting') = pc + 1
      BY <1>3, <1>4, <1>5, <2>2 DEF Push
    <3>2. queuesem' = queuesem /\ Cardinality(holding') = hc
      BY <1>5 DEF Push, hc
    <3> QED
      BY <1>2, <3>1, <3>2 DEF TokensCover
  <2> QED
    BY <2>1, <2>2
<1>6. ASSUME NEW t \in Producers, Post(t) PROVE TokensCover'
  <2>1. Len(m_list') = n /\ Cardinality(holding') = hc
    BY <1>6 DEF Post, n, hc
  <2>2. queuesem' = queuesem + 1 /\ Cardinality(posting') = pc - 1
    BY <1>3, <1>6 DEF Post
  <2> QED
    BY <1>2, <2>1, <2>2 DEF TokensCover
<1>7. ASSUME NEW t \in Takers, Wait(t) PROVE TokensCover'
  <2>1. Len(m_list') = n /\ Cardinality(posting') = pc
    BY <1>7 DEF Wait, n, pc
  <2>2. queuesem' = queuesem - 1 /\ Cardinality(holding') = hc + 1
    BY <1>3, <1>7 DEF Wait
  <2> QED
    BY <1>2, <2>1, <2>2 DEF TokensCover
<1>8. ASSUME NEW t \in Takers, Take(t) PROVE TokensCover'
  <2>1. /\ queuesem' = queuesem /\ Cardinality(posting') = pc
        /\ Cardinality(holding') = hc - 1 /\ hc - 1 \in Nat
    <3>1. holding' = holding \ {t} /\ t \in holding
      BY <1>8 DEF Take
    <3>2. IsFiniteSet(holding')
      BY <1>1, <3>1, FS_Subset
    <3> QED
      BY <1>3, <1>8, <3>1, <3>2, FS_CardinalityType DEF Take, pc
  <2>2. CASE m_list = <<>>
    <3>1. Len(m_list') = 0
      BY <1>8, <2>2 DEF Take
    <3> QED
      BY <1>2, <2>1, <3>1 DEF TokensCover
  <2>3. CASE m_list # <<>>
    <3>1. Len(m_list') = n - 1
      BY <1>4, <1>8, <2>3 DEF Take
    <3> QED
      BY <1>2, <2>1, <3>1 DEF TokensCover
  <2> QED
    BY <2>2, <2>3
<1>9. CASE Clear
  <2>1. Len(m_list') = 0 /\ UNCHANGED <<queuesem, posting, holding>>
    BY <1>9 DEF Clear
  <2> QED
    BY <1>2, <2>1 DEF TokensCover, pc, hc
<1>10. CASE UNCHANGED fifoVars
  BY <1>10 DEF fifoVars, CoverInv, TokensCover
<1> QED
  BY <1>5, <1>6, <1>7, <1>8, <1>9, <1>10 DEF FifoNext

\* No taker waits for a packet that has no token: there are never more packets
\* than tokens posted, about to be posted or held (fifoqueue.cpp:90-180).
THEOREM EachHasToken == FifoSpec => []TokensCover
<1>1. FifoInit => CoverInv
  <2> SUFFICES ASSUME FifoInit PROVE CoverInv
    OBVIOUS
  <2>1. FifoTypeOK
    BY DEF FifoInit, FifoTypeOK
  <2>2. Len(m_list) = 0 /\ queuesem = 0 /\ Cardinality(posting) = 0
    BY FS_EmptySet DEF FifoInit
  <2>3. Cardinality(holding) = 0
    BY FS_EmptySet DEF FifoInit
  <2> QED
    BY <2>1, <2>2, <2>3 DEF CoverInv, TokensCover
<1>2. CoverInv => TokensCover
  BY DEF CoverInv
<1> QED
  BY <1>1, <1>2, CoverStep, FifoTypes, PTL DEF FifoSpec
-----------------------------------------------------------------------------
(***************************************************************************)
(* The refinement.                                                         *)
(***************************************************************************)
LEMMA ListQueueIsSeq ==
  ASSUME FifoTypeOK
  PROVE  /\ ListQueue \in Seq(FifoPackets)
         /\ Len(ListQueue) = Len(m_list)
         /\ \A i \in 1..Len(m_list) : ListQueue[i] = fifobuff[m_list[i]]
BY DEF FifoTypeOK, ListQueue

\* Neither tokens nor the slot that is free for the next packet matter to it.
LEMMA ListPushAppends ==
  ASSUME SlotInv, SlotInv', NEW t, NEW p \in FifoPackets, Push(t, p), ~ListIsFull
  PROVE  ListQueue' = Append(ListQueue, p)
<1>1. /\ m_list' = Append(m_list, fifo_index)
      /\ fifobuff' = [fifobuff EXCEPT ![fifo_index] = p]
  BY DEF Push
<1>2. m_list \in Seq(FifoSlots) /\ fifo_index \in FifoSlots /\ fifobuff \in [FifoSlots -> FifoPackets]
  BY DEF SlotInv, FifoTypeOK
<1>3. \A i \in 1..Len(m_list) : m_list[i] # fifo_index /\ m_list[i] \in FifoSlots
  BY <1>2, InTurnNoAlias DEF NoAlias
<1>4. /\ Len(m_list') = Len(m_list) + 1 /\ m_list'[Len(m_list) + 1] = fifo_index
      /\ \A i \in 1..Len(m_list) : m_list'[i] = m_list[i]
  BY <1>1, <1>2, AppendProperties
<1>5. /\ ListQueue \in Seq(FifoPackets) /\ Len(ListQueue) = Len(m_list)
      /\ \A i \in 1..Len(m_list) : ListQueue[i] = fifobuff[m_list[i]]
  BY ListQueueIsSeq DEF SlotInv
<1>6. /\ ListQueue' \in Seq(FifoPackets) /\ Len(ListQueue') = Len(m_list')
      /\ \A i \in 1..Len(m_list') : ListQueue'[i] = fifobuff'[m_list'[i]]
  BY ListQueueIsSeq DEF SlotInv, FifoTypeOK, ListQueue
<1> DEFINE q == ListQueue
           r == ListQueue'
           n == Len(m_list)
<1>7. n \in Nat /\ \A i \in 1..n : r[i] = q[i]
  <2>1. n \in Nat
    BY <1>2
  <2>2. ASSUME NEW i \in 1..n PROVE r[i] = q[i]
    <3>1. i \in 1..Len(m_list') /\ m_list'[i] = m_list[i]
      BY <1>4, <2>1
    <3>2. fifobuff'[m_list[i]] = fifobuff[m_list[i]]
      BY <1>1, <1>2, <1>3
    <3> QED
      BY <1>5, <1>6, <3>1, <3>2
  <2> QED
    BY <2>1, <2>2
<1>8. r[n + 1] = p
  BY <1>1, <1>2, <1>4, <1>6, <1>7
<1>9. q \in Seq(FifoPackets) /\ r \in Seq(FifoPackets) /\ Len(q) = n /\ Len(r) = n + 1
  BY <1>4, <1>5, <1>6
<1> HIDE DEF q, r, n
<1>10. Append(q, p) \in Seq(FifoPackets) /\ Len(Append(q, p)) = n + 1
       /\ \A i \in 1..(n + 1) : r[i] = Append(q, p)[i]
  BY <1>7, <1>8, <1>9, AppendProperties
<1> QED
  BY <1>7, <1>9, <1>10, SeqEqual DEF q, r

LEMMA ListTakeIsHead ==
  ASSUME SlotInv, SlotInv', NEW t, Take(t), m_list # <<>>
  PROVE  ListQueue # <<>> /\ taken' = Head(ListQueue) /\ ListQueue' = Tail(ListQueue)
<1>1. m_list' = Tail(m_list) /\ fifobuff' = fifobuff /\ taken' = fifobuff[Head(m_list)]
  BY DEF Take
<1>2. m_list \in Seq(FifoSlots) /\ Len(m_list) \in Nat \ {0}
  BY DEF SlotInv, FifoTypeOK
<1>3. /\ Len(m_list') = Len(m_list) - 1 /\ Head(m_list) = m_list[1]
      /\ \A i \in 1..Len(m_list') : m_list'[i] = m_list[i + 1]
  BY <1>1, <1>2, HeadTailProperties
<1>4. /\ ListQueue \in Seq(FifoPackets) /\ Len(ListQueue) = Len(m_list)
      /\ \A i \in 1..Len(m_list) : ListQueue[i] = fifobuff[m_list[i]]
  BY ListQueueIsSeq DEF SlotInv
<1>5. /\ ListQueue' \in Seq(FifoPackets) /\ Len(ListQueue') = Len(m_list')
      /\ \A i \in 1..Len(m_list') : ListQueue'[i] = fifobuff'[m_list'[i]]
  BY ListQueueIsSeq DEF SlotInv, FifoTypeOK, ListQueue
<1> DEFINE q == ListQueue
           r == ListQueue'
           n == Len(m_list)
<1>6. q \in Seq(FifoPackets) /\ Len(q) = n /\ n \in Nat \ {0} /\ q[1] = taken'
  BY <1>1, <1>2, <1>3, <1>4
<1>7. r \in Seq(FifoPackets) /\ Len(r) = n - 1 /\ \A i \in 1..(n - 1) : r[i] = q[i + 1]
  <2>1. ASSUME NEW i \in 1..(n - 1) PROVE r[i] = q[i + 1]
    <3>1. i \in 1..Len(m_list') /\ i + 1 \in 1..n /\ m_list'[i] = m_list[i + 1]
      BY <1>2, <1>3
    <3>2. r[i] = fifobuff[m_list[i + 1]]
      BY <1>1, <1>5, <3>1
    <3>3. q[i + 1] = fifobuff[m_list[i + 1]]
      BY <1>4, <3>1
    <3> QED
      BY <3>2, <3>3
  <2> QED
    BY <1>3, <1>5, <2>1
<1> HIDE DEF q, r, n
<1>8. q # <<>> /\ Head(q) = q[1] /\ Tail(q) \in Seq(FifoPackets) /\ Len(Tail(q)) = n - 1
      /\ \A i \in 1..(n - 1) : Tail(q)[i] = q[i + 1]
  BY <1>6, HeadTailProperties
<1>9. r = Tail(q)
  BY <1>6, <1>7, <1>8, SeqEqual
<1> QED
  BY <1>6, <1>8, <1>9 DEF q, r

\* Whatever the order in which threads push, post, wait, take and clear, the
\* list is a first-in-first-out queue of FifoDepth packets (fifoqueue.cpp).
THEOREM ListIsFifo == FifoSpec => ListImplementsFifo
<1> USE DEF Voice!vars
<1>1. FifoInit => Voice!Init
  <2> SUFFICES ASSUME FifoInit PROVE Voice!Init
    OBVIOUS
  <2>1. ListQueue = <<>>
    BY DEF FifoInit, ListQueue
  <2> QED
    BY <2>1 DEF FifoInit, Voice!Init
<1>2. SlotInv /\ SlotInv' /\ [FifoNext]_fifoVars => [Voice!Next]_(Voice!vars)
  <2> SUFFICES ASSUME SlotInv, SlotInv', [FifoNext]_fifoVars PROVE [Voice!Next]_(Voice!vars)
    OBVIOUS
  <2>0. /\ Len(ListQueue) = Len(m_list) /\ Len(m_list) \in Nat /\ Len(m_list) <= FifoDepth
        /\ m_list = <<>> <=> ListQueue = <<>>
    BY ListQueueIsSeq DEF SlotInv, FifoTypeOK, InTurn
  <2>1. ASSUME UNCHANGED <<fifobuff, m_list>> PROVE ListQueue' = ListQueue
    BY <2>1 DEF ListQueue
  <2>2. ASSUME NEW t \in Producers, NEW p \in FifoPackets, Push(t, p) PROVE Voice!Next
    <3>1. CASE ListIsFull
      BY <2>0, <2>1, <2>2, <3>1 DEF Push, ListIsFull, Voice!Next, Voice!Refuse
    <3>2. CASE ~ListIsFull
      <4>1. ListQueue' = Append(ListQueue, p) /\ Len(ListQueue) < FifoDepth
        BY <2>0, <2>2, <3>2, ListPushAppends DEF ListIsFull
      <4> QED
        BY <2>2, <3>2, <4>1 DEF Push, Voice!Next, Voice!Accept
    <3> QED
      BY <3>1, <3>2
  <2>3. ASSUME NEW t \in Takers, Take(t) PROVE Voice!Next
    <3>1. CASE m_list = <<>>
      BY <2>0, <2>1, <2>3, <3>1 DEF Take, Voice!Next, Voice!Nothing
    <3>2. CASE m_list # <<>>
      BY <2>3, <3>2, ListTakeIsHead DEF Take, Voice!Next, Voice!Take
    <3> QED
      BY <3>1, <3>2
  <2>4. CASE Clear
    <3>1. ListQueue' = <<>>
      BY <2>4 DEF Clear, ListQueue
    <3> QED
      BY <2>4, <3>1 DEF Clear, Voice!Next, Voice!Clear
  <2>5. ASSUME NEW t, Post(t) \/ Wait(t) PROVE UNCHANGED (Voice!vars)
    BY <2>1, <2>5 DEF Post, Wait
  <2>6. CASE UNCHANGED fifoVars
    BY <2>1, <2>6 DEF fifoVars
  <2> QED
    BY <2>2, <2>3, <2>4, <2>5, <2>6 DEF FifoNext
<1> QED
  BY <1>1, <1>2, SlotsInTurn, PTL DEF FifoSpec, ListImplementsFifo, Voice!Spec
-----------------------------------------------------------------------------
(***************************************************************************)
(* Both side by side.  While one of them is used the other lies idle, so a *)
(* behaviour of Queues is one of either, and each keeps what was shown of  *)
(* it alone.                                                               *)
(***************************************************************************)
LEMMA QueuesSimulate == QueuesSpec => Spec /\ FifoSpec
<1>1. QueuesInit => Init /\ FifoInit
  BY DEF QueuesInit
<1>2. [QueuesNext]_queueVars => [Next]_vars /\ [FifoNext]_fifoVars
  BY DEF QueuesNext, queueVars
<1> QED
  BY <1>1, <1>2, PTL DEF QueuesSpec, Spec, FifoSpec

\* Which queue is used does not change, and the indices, slots and tokens of
\* either stay in range, whichever is used (QueuesTypeOK).
THEOREM QueuesTypes == QueuesSpec => []QueuesTypeOK
<1>1. QueuesInit => kind \in {"ring", "list"}
  BY DEF QueuesInit
<1>2. kind \in {"ring", "list"} /\ [QueuesNext]_queueVars => (kind \in {"ring", "list"})'
  BY DEF QueuesNext, queueVars
<1>3. QueuesSpec => [](kind \in {"ring", "list"})
  BY <1>1, <1>2, PTL DEF QueuesSpec
<1> QED
  BY <1>3, QueuesSimulate, RingTypes, FifoTypes, PTL DEF QueuesTypeOK

\* Whichever of the queues is used, it is the queue VoiceFifo promises, the idle
\* one too; and a packet in the list is neither overwritten nor without a token.
THEOREM QueuesKeepPromise ==
  QueuesSpec => ImplementsFifo /\ ListImplementsFifo /\ [](NoAlias /\ TokensCover)
BY QueuesSimulate, RingIsFifo, ListIsFifo, NoOverwrite, EachHasToken, PTL
=============================================================================
