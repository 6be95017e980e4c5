----------------------------- MODULE VoiceFifo ------------------------------
(***************************************************************************)
(* What a queue of voice packets promises the threads on both ends of it:  *)
(* packets come out in the order they were accepted, none twice and none   *)
(* that was not accepted.  When the queue is full a push is refused or, at *)
(* worst, accepted at the price of everything queued.                      *)
(***************************************************************************)
EXTENDS Naturals, Sequences

CONSTANTS
  Packets,  \* what may be queued
  Depth     \* how many packets fit

VARIABLES
  queue,    \* the packets accepted and not yet taken
  packet,   \* the packet taken last
  ret       \* what the last call returned

vars == <<queue, packet, ret>>

Init ==
  /\ queue = <<>>
  /\ packet \in Packets
  /\ ret = "none"

Accept(p) ==
  /\ Len(queue) < Depth
  /\ queue' = Append(queue, p)
  /\ ret' = "okay"
  /\ UNCHANGED packet

Refuse ==
  /\ Len(queue) = Depth
  /\ ret' = "full"
  /\ UNCHANGED <<queue, packet>>

Overrun ==
  /\ Len(queue) = Depth
  /\ queue' = <<>>
  /\ ret' = "okay"
  /\ UNCHANGED packet

Take ==
  /\ queue # <<>>
  /\ packet' = Head(queue)
  /\ queue' = Tail(queue)
  /\ ret' = "success"

Nothing ==
  /\ queue = <<>>
  /\ ret' = "empty"
  /\ UNCHANGED <<queue, packet>>

Clear ==
  /\ queue' = <<>>
  /\ ret' = "none"
  /\ UNCHANGED packet

Next == (\E p \in Packets : Accept(p)) \/ Refuse \/ Overrun \/ Take \/ Nothing \/ Clear

Spec == Init /\ [][Next]_vars
=============================================================================
