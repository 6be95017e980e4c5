----------------------------- MODULE FifoQueue ------------------------------
(***************************************************************************)
(* FifoQueue and DynFifoQueue (fifoqueue.cpp): a list of slots under       *)
(* queuelock and a semaphore that counts its packets.  The lock and the    *)
(* semaphore are taken one after the other, so between them the other      *)
(* threads run: a packet is in the list before its token is posted, and a  *)
(* taker holds a token before it looks at the list.                        *)
(*                                                                         *)
(* An operator named X_Y is the operator X with a plausible mistake Y.     *)
(***************************************************************************)
EXTENDS Integers, Sequences, FiniteSets

CONSTANTS
  FifoDepth,    \* the number of slots
  FifoPackets,  \* what may be pushed
  Producers,    \* the threads that push
  Takers,       \* the threads that take
  MayClear,     \* whether ClearQueue is called
  MaxTokens     \* bound: the tokens that are posted or about to be

ASSUME FifoAssumption ==
  /\ FifoDepth \in Nat \ {0}
  /\ MaxTokens \in Nat
  /\ FifoPackets # {}
  /\ MayClear \in BOOLEAN
  /\ IsFiniteSet(Producers) /\ IsFiniteSet(Takers)

VARIABLES
  fifobuff,    \* the packet in each slot
  fifo_index,  \* the slot of the next packet
  m_list,      \* the slots queued, oldest first
  queuesem,    \* the value of the semaphore
  posting,     \* producers that pushed and did not post yet
  holding,     \* takers that have a token and did not look yet
  taken,       \* the packet taken last
  found        \* what the last call found

fifoVars == <<fifobuff, fifo_index, m_list, queuesem, posting, holding, taken, found>>

FifoSlots == 0..(FifoDepth - 1)

FifoTypeOK ==
  /\ fifobuff \in [FifoSlots -> FifoPackets]
  /\ fifo_index \in FifoSlots
  /\ m_list \in Seq(FifoSlots)
  /\ queuesem \in Nat
  /\ posting \subseteq Producers
  /\ holding \subseteq Takers
  /\ taken \in FifoPackets
  /\ found \in {"none", "okay", "full", "success", "empty"}

FifoInit ==
  /\ fifobuff \in [FifoSlots -> FifoPackets]
  /\ fifo_index = 0
  /\ m_list = <<>>
  /\ queuesem = 0
  /\ posting = {}
  /\ holding = {}
  /\ taken \in FifoPackets
  /\ found = "none"
-----------------------------------------------------------------------------
ListIsFull_OffByOne == Len(m_list) >= FifoDepth + 1
ListIsFull == Len(m_list) >= FifoDepth

NextIndex == IF fifo_index + 1 >= FifoDepth THEN 0 ELSE fifo_index + 1

\* PushToQueue, up to the unlock.
Push(t, p) ==
  /\ t \notin posting
  /\ queuesem + Cardinality(posting) < MaxTokens
  /\ IF ListIsFull
     THEN /\ found' = "full"
          /\ UNCHANGED <<fifobuff, fifo_index, m_list, posting>>
     ELSE /\ fifobuff' = [fifobuff EXCEPT ![fifo_index] = p]
          /\ m_list' = Append(m_list, fifo_index)
          /\ fifo_index' = NextIndex
          /\ posting' = posting \cup {t}
          /\ found' = "okay"
  /\ UNCHANGED <<queuesem, holding, taken>>

\* Its SemPost, after the unlock.
Post_Never(t) ==
  /\ t \in posting
  /\ posting' = posting \ {t}
  /\ UNCHANGED <<fifobuff, fifo_index, m_list, queuesem, holding, taken, found>>
Post(t) ==
  /\ t \in posting
  /\ posting' = posting \ {t}
  /\ queuesem' = queuesem + 1
  /\ UNCHANGED <<fifobuff, fifo_index, m_list, holding, taken, found>>

\* SemWait of TakeFromQueue; when it times out nothing changes.
Wait(t) ==
  /\ t \notin holding
  /\ queuesem > 0
  /\ queuesem' = queuesem - 1
  /\ holding' = holding \cup {t}
  /\ UNCHANGED <<fifobuff, fifo_index, m_list, posting, taken, found>>

\* The rest of TakeFromQueue.
Take(t) ==
  /\ t \in holding
  /\ holding' = holding \ {t}
  /\ IF m_list # <<>>
     THEN /\ taken' = fifobuff[Head(m_list)]
          /\ m_list' = Tail(m_list)
          /\ found' = "success"
     ELSE found' = "empty" /\ UNCHANGED <<taken, m_list>>
  /\ UNCHANGED <<fifobuff, fifo_index, queuesem, posting>>

\* ClearQueue empties the list and leaves the semaphore alone.
Clear ==
  /\ MayClear
  /\ m_list' = <<>>
  /\ found' = "none"
  /\ UNCHANGED <<fifobuff, fifo_index, queuesem, posting, holding, taken>>

FifoNext ==
  \/ \E t \in Producers : Post(t) \/ \E p \in FifoPackets : Push(t, p)
  \/ \E t \in Takers : Wait(t) \/ Take(t)
  \/ Clear

FifoSpec == FifoInit /\ [][FifoNext]_fifoVars

\* A producer goes on to its SemPost, a taker asks again and again.
FairFifoSpec ==
  /\ FifoSpec
  /\ \A t \in Producers : WF_fifoVars(Post(t))
  /\ \A t \in Takers : WF_fifoVars(Wait(t) \/ Take(t))
-----------------------------------------------------------------------------
\* Every queued packet has a token, posted, about to be posted or held by a
\* taker: no taker waits while a packet lies in the list for good.
TokensCover ==
  Len(m_list) <= queuesem + Cardinality(posting) + Cardinality(holding)

ListQueue == [i \in 1..Len(m_list) |-> fifobuff[m_list[i]]]

Voice == INSTANCE VoiceFifo WITH
  queue <- ListQueue, packet <- taken, ret <- found,
  Packets <- FifoPackets, Depth <- FifoDepth

\* The list is a queue of FifoDepth packets that keeps their order and their
\* contents, whichever threads push and take.
ListImplementsFifo == Voice!Spec

\* No packet stays at the head of the list: it is taken in the end, also when
\* takers give up and come back, and whatever is pushed behind it.
HeadMoves ==
  \A i \in FifoSlots :
    m_list # <<>> /\ Head(m_list) = i ~> m_list = <<>> \/ Head(m_list) # i
=============================================================================
