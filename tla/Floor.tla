------------------------------- MODULE Floor --------------------------------
(***************************************************************************)
(* What the arbitration of the channel promises: the channel is taken by   *)
(* one gateway when it is free and nobody uses it, changes hands only by   *)
(* becoming free, and is freed over the master's own voice only, never     *)
(* while a slave still uses it.  Nothing is promised after the first fault.*)
(***************************************************************************)
EXTENDS Naturals

CONSTANTS
  Node,    \* the gateways
  Master   \* the one that keeps the channel

VARIABLES
  users,   \* who holds the channel, from the grant to the release
  busy,    \* whether the master takes it for held
  fault    \* whether the promise is off

vars == <<users, busy, fault>>

Init == users = {} /\ ~busy /\ ~fault

Take(n) == users = {} /\ ~busy /\ users' = {n} /\ busy'

\* The user of the channel is done with it; the master need not know it yet.
Leave == users # {} /\ users' = {} /\ UNCHANGED busy

Free == busy /\ users \subseteq {Master} /\ users' = {} /\ ~busy'

Next ==
  \/ ~fault /\ UNCHANGED fault /\ ((\E n \in Node : Take(n)) \/ Leave \/ Free)
  \/ fault' /\ users' \in SUBSET Node /\ busy' \in BOOLEAN

Spec == Init /\ [][Next]_vars
=============================================================================
