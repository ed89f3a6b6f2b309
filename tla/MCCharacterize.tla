---------------------------- MODULE MCCharacterize ----------------------------
(* An instance of Characterize for TLC: batches of two, a short last one,   *)
(* more work than a 16-bit or a 32-bit counter holds.                       *)
EXTENDS Characterize

MCWork(e) == 2 * e + 1

Full == [s \in Slot |-> Wanted(0, 32)]

MCLeftover == {Nothing, Full}
===============================================================================
