----------------------------- MODULE MCChannel -----------------------------
(***************************************************************************)
(* Instances of Channel for TLC.  The slaves are interchangeable: no       *)
(* action of Channel tells one from another.                               *)
(***************************************************************************)
EXTENDS Channel, TLC

SlaveSymmetry == Permutations(Slaves)

\* The properties that speak of the time before the first fault need no state
\* after it.
UntilFault == ~fault
=============================================================================
