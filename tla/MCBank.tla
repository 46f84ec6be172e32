------------------------------- MODULE MCBank -------------------------------
(* Small instances of BankReconciliation for TLC. *)
EXTENDS BankReconciliation, TLC

CONSTANTS d1, y1, bank, suspense, b1, b2

MCFiscalYear == d1 :> y1
MCAmount == [b \in Banks |-> 1]

Receive(source) ==
  [date |-> d1, doc |-> None, bank |-> source,
   lines |-> << [acct |-> bank, debit |-> 1, credit |-> 0],
                [acct |-> suspense, debit |-> 0, credit |-> 1] >>]

(* The same movement on the bank account, booked directly from b1 or from   *)
(* b2, or with no bank source (an imported voucher, a replacement).         *)
MCPayloads == {Receive(b1), Receive(b2), Receive(None)}

MCSymmetry == Permutations(Procs)
=============================================================================
