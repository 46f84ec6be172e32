----------------------------- MODULE MCInterest -----------------------------
(* A small instance of LateInterest for TLC in which the reference rate     *)
(* rises while the invoice is overdue.                                      *)
EXTENDS LateInterest

MCTableRates == << 2, 3 >>
=============================================================================
