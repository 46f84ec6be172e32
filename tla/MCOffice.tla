------------------------------ MODULE MCOffice ------------------------------
(***************************************************************************)
(* Small instances of the bookkeeping components for TLC, explored in one  *)
(* run.                                                                    *)
(***************************************************************************)
EXTENDS Office, TLC

CONSTANTS d1, y1, bank, suspense, b1, b2,     \* BankReconciliation
          bill1, out1, out2,                  \* Payables
          doc1, doc2, line1, line2,           \* Batches
          rule1, rule2,
          accrual, asset, bought1, bought2    \* Schedules

-----------------------------------------------------------------------------
MCFiscalYear == d1 :> y1
MCAmount == [b \in Banks |-> 1]

Receive(source) ==
  [date |-> d1, doc |-> None, bank |-> source,
   lines |-> << [acct |-> bank, debit |-> 1, credit |-> 0],
                [acct |-> suspense, debit |-> 0, credit |-> 1] >>]

(* The same movement on the bank account, booked directly from b1 or from   *)
(* b2, or with no bank source (an imported voucher, a replacement).         *)
MCPayloads == {Receive(b1), Receive(b2), Receive(None)}

(* Two equal movements on one day, then a day on which one is taken back.   *)
MCHistory ==
  << [day |-> 0, text |-> "fee", amount |-> 1],
     [day |-> 0, text |-> "fee", amount |-> 1],
     [day |-> 1, text |-> "fee", amount |-> -1],
     [day |-> 1, text |-> "fee", amount |-> 2] >>

MCBillGross == bill1 :> 2
MCPaid == out1 :> 2 @@ out2 :> 2

(* A domestic invoice, one whose currency has risen and one whose has       *)
(* fallen, so that shares of the carrying amount are rounded both ways.     *)
MCInvoices ==
  { [currency |-> "DKK", gross |-> 5, vat |-> 1, dkk |-> 5, vatDkk |-> 1, due |-> 0],
    [currency |-> "EUR", gross |-> 4, vat |-> 1, dkk |-> 6, vatDkk |-> 2, due |-> 0],
    [currency |-> "SEK", gross |-> 5, vat |-> 1, dkk |-> 3, vatDkk |-> 1, due |-> 0] }

MCBankLines ==
  { [amount |-> 3, date |-> 1], [amount |-> 6, date |-> 1],
    [amount |-> -1, date |-> 1] }

MCTableRates == << 2, 3 >>

MCPrincipalOf == [c \in Clients |-> "owner"]

MCBestMatch == line1 :> doc1 @@ line2 :> doc2

(* The second version replaces the first from day 2 on, if it is disabled.  *)
MCInterval == rule1 :> {1, 2} @@ rule2 :> {2}
MCInvoiceDay == doc1 :> <<2, 1>> @@ doc2 :> <<1, 2>>

MCTotal == accrual :> 5 @@ asset :> 2
MCPeriods == accrual :> 2 @@ asset :> 3
MCPrice == bought1 :> 1 @@ bought2 :> 3

-----------------------------------------------------------------------------
(* One purchase, or two, with its line, VAT evidence and an approved rule;  *)
(* MaxDrift is left for what happens to them.                               *)
MCBatchesReady ==
  /\ \/ facts = (doc1 :> 1 @@ doc2 :> 0) /\ imported = {line1} /\ vatOk = {doc1}
        /\ drift = 0
     \/ facts = (doc1 :> 1 @@ doc2 :> 1) /\ imported = {line1, line2} /\ vatOk = {doc1, doc2}
        /\ drift = 2
  /\ \E p \in Principals :
       rule = (rule1 :> [creator |-> p, events |-> (1 :> "approved" @@ 2 :> "none")] @@
               rule2 :> [creator |-> NoPlan, events |-> (1 :> "none" @@ 2 :> "none")])
  /\ deciding = [p \in Principals |-> NoPlan]
  /\ booked = {}
  /\ planning = [k \in Runs |-> NoPlan] /\ runs = [k \in Runs |-> NoPlan]

(* The parts, with the invoice fixed wherever it plays no role.            *)
MCOfficeInit ==
  /\ part \in {"bank", "import", "payables", "receivables", "interest",
               "drafts", "idempotency", "batches", "schedules"}
  /\ BankInit /\ BankImportInit /\ PayablesInit /\ ReceivablesInit
  /\ LateInterestInit /\ DraftsInit /\ IdempotencyInit /\ SchedulesInit
  /\ (IF part = "batches" THEN MCBatchesReady ELSE BatchesInit)
  /\ (part # "receivables" => invoice.currency = "DKK")

MCOfficeSpec == MCOfficeInit /\ [][OfficeNext]_officeVars

(* p1 and p2 are the processes of every component.                         *)
OfficeSymmetry == Permutations(Procs)
=============================================================================
