------------------------------- MODULE Queues -------------------------------
(***************************************************************************)
(* The queues of fifoqueue.cpp one by one: RingQueue, which MyRepeater.h   *)
(* declares four times, and FifoQueue, which it declares in a comment next *)
(* to it.  A behaviour is one of either; the other queue lies idle.        *)
(***************************************************************************)
EXTENDS RingQueue, FifoQueue

VARIABLE kind  \* which queue is in use

queueVars == <<kind, vars, fifoVars>>

\* The indices of the ring and the slots of the list stay in their buffers, and
\* the semaphore of the list does not go negative.
QueuesTypeOK ==
  /\ kind \in {"ring", "list"}
  /\ TypeOK
  /\ FifoTypeOK

RingIdle == ringqueue = [s \in Slots |-> packet] /\ packet = CHOOSE p \in Packets : TRUE
ListIdle == fifobuff = [s \in FifoSlots |-> taken] /\ taken = CHOOSE p \in FifoPackets : TRUE

QueuesInit ==
  /\ kind \in {"ring", "list"}
  /\ Init
  /\ FifoInit
  /\ IF kind = "ring" THEN ListIdle ELSE RingIdle

QueuesNext ==
  \/ kind = "ring" /\ Next /\ UNCHANGED <<kind, fifoVars>>
  \/ kind = "list" /\ FifoNext /\ UNCHANGED <<kind, vars>>

\* The threads of the list go on as in FairFifoSpec.
QueuesSpec ==
  /\ QueuesInit
  /\ [][QueuesNext]_queueVars
  /\ \A t \in Producers : WF_queueVars(Post(t) /\ UNCHANGED <<kind, vars>>)
  /\ \A t \in Takers : WF_queueVars((Wait(t) \/ Take(t)) /\ UNCHANGED <<kind, vars>>)
=============================================================================
