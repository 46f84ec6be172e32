------------------------------ MODULE MCLedger ------------------------------
(* Small instances of Ledger for TLC. *)
EXTENDS Ledger, TLC

CONSTANTS d1, d2, y1, y2, bank, sales, b1, receipt, creditNote, invoice

MCDates == {d1, d2}
MCYears == {y1, y2}
MCFiscalYear == d1 :> y1 @@ d2 :> y2

Two(from, to, amount) ==
  << [acct |-> from, debit |-> amount, credit |-> 0],
     [acct |-> to, debit |-> 0, credit |-> amount] >>

Pay(date, doc, source, lines) ==
  [date |-> date, doc |-> doc, bank |-> source, lines |-> lines]

(* A documented sale settled by a bank transaction, a sale with no receipt  *)
(* (only an import may post it), a credit note, an issued invoice and an    *)
(* unbalanced input.                                                        *)
MCPayloads ==
  { Pay(d2, receipt, b1, Two(bank, sales, 2)),
    Pay(d1, None, None, Two(bank, sales, 1)),
    Pay(d1, creditNote, None, Two(sales, bank, 1)),
    Pay(d2, invoice, None, Two(bank, sales, 2)),
    Pay(d1, receipt, None, << [acct |-> bank, debit |-> 1, credit |-> 0],
                              [acct |-> sales, debit |-> 0, credit |-> 2] >>) }

ProcSymmetry == Permutations(Procs)
=============================================================================
