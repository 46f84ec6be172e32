---------------------------- MODULE MCRecurring ----------------------------
(* Small instances of RecurringDelivery for TLC. *)
EXTENDS RecurringDelivery, TLC

OnlyFirst == {<<1, 0>>}

ProcSymmetry == Permutations(Procs)
=============================================================================
