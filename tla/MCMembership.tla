---------------------------- MODULE MCMembership ----------------------------
(***************************************************************************)
(* Instances of Membership for TLC.  No action tells one slave from        *)
(* another.                                                                *)
(***************************************************************************)
EXTENDS Membership, TLC

SlaveSymmetry == Permutations(Slaves)
=============================================================================
