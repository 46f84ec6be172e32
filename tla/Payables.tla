------------------------------ MODULE Payables ------------------------------
(***************************************************************************)
(* What the company owes its suppliers (src/core/payables.ts), expenses    *)
(* paid straight from the bank (expense-booking.ts), the correction that   *)
(* turns the second into the first                                         *)
(* (direct-bank-purchase-payable-correction.ts) and the adoption of        *)
(* creditor postings of an earlier system                                  *)
(* (legacy-bank-payable-backfill.ts).  The journal is reduced to what each *)
(* entry does to the document and the bank line it names.  The terminal,   *)
(* the agent loop and the servers are processes of their own.              *)
(***************************************************************************)
EXTENDS Integers, Sequences, FiniteSets, FiniteSetsExt

CONSTANTS
  Bills,             \* purchase documents in DKK
  BillGross,         \* the amount of each
  Outgoing,          \* outgoing bank lines in DKK
  Paid,              \* the amount of each, positive
  Payers,            \* processes that pay outside a receipt's transaction
  NoLine,            \* an entry that names no bank line
  MaxPayableEntries  \* bound on the journal

ASSUME PayablesAssumption ==
  /\ BillGross \in [Bills -> Nat \ {0}] /\ Paid \in [Outgoing -> Nat \ {0}]
  /\ NoLine \notin Outgoing /\ MaxPayableEntries \in Nat

VARIABLES
  journal,       \* journal_entries: what they book, in order
  lineEvidence,  \* the effective reconciliation of each bank line
  payables,      \* the payable of each bill: its journal entry, or 0
  payments,      \* payable_payments
  paying,        \* payPayableFromBank between its checks and its transaction
  settled        \* direct_bank_purchase_payable_corrections

payablesVars == <<journal, lineEvidence, payables, payments, paying, settled>>

PayableEntries == DOMAIN journal

Undone(e) == \E f \in PayableEntries : journal[f].kind = "reversal" /\ journal[f].of = e

Live(e) == journal[e].kind # "reversal" /\ ~Undone(e)

JournalRoom(n) == Len(journal) + n =< MaxPayableEntries

Entry(kind, bill, line) == [kind |-> kind, bill |-> bill, line |-> line, of |-> 0]

(* openBalanceOf: what the bill's payments leave.                           *)
PayableOpen(bill) ==
  BillGross[bill] - MapThenSumSet(LAMBDA p : Paid[p.line], {p \in payments : p.bill = bill})

-----------------------------------------------------------------------------
(* bookExpenseFromBank, in one immediate transaction: the bank line is      *)
(* outgoing, not linked to an entry, and its amount is the document's.      *)
BookExpense(bill, line) ==
  /\ JournalRoom(1)
  /\ lineEvidence[line] = 0
  /\ Paid[line] = BillGross[bill]
  /\ journal' = Append(journal, Entry("expense", bill, line))
  /\ lineEvidence' = [lineEvidence EXCEPT ![line] = Len(journal) + 1]
  /\ UNCHANGED <<payables, payments, paying, settled>>

(* registerPayable: debit the expense, credit the creditor.  The bill is    *)
(* looked up first; a second one in the meantime violates its unique key.   *)
RegisterPayable(bill) ==
  /\ JournalRoom(1)
  /\ payables[bill] = 0
  /\ journal' = Append(journal, Entry("bill", bill, NoLine))
  /\ payables' = [payables EXCEPT ![bill] = Len(journal) + 1]
  /\ UNCHANGED <<lineEvidence, payments, paying, settled>>

(* The checks of payPayableFromBank, which read outside its transaction.    *)
MayPay(bill, line) ==
  /\ payables[bill] # 0
  /\ lineEvidence[line] = 0
  /\ \A p \in payments : p.line # line
  /\ Paid[line] =< PayableOpen(bill)

CheckPayment(p, bill, line) ==
  /\ paying[p] = <<>>
  /\ MayPay(bill, line)
  /\ paying' = [paying EXCEPT ![p] = <<bill, line>>]
  /\ UNCHANGED <<journal, lineEvidence, payables, payments, settled>>

(* A mutant of PostPayment: the bank line is not examined again.            *)
PostPaymentUnchecked(p) ==
  /\ paying[p] # <<>> /\ JournalRoom(1)
  /\ LET bill == paying[p][1]  line == paying[p][2]
     IN /\ journal' = Append(journal, Entry("payment", bill, line))
        /\ lineEvidence' = [lineEvidence EXCEPT ![line] = Len(journal) + 1]
        /\ payments' = payments \union
             {[bill |-> bill, line |-> line, entry |-> Len(journal) + 1]}
  /\ paying' = [paying EXCEPT ![p] = <<>>]
  /\ UNCHANGED <<payables, settled>>

(* The transaction: postJournalEntry refuses a bank line that has an entry  *)
(* by now, and the payment is recorded with the settlement.                 *)
PostPayment(p) ==
  /\ paying[p] # <<>> /\ JournalRoom(1)
  /\ LET bill == paying[p][1]  line == paying[p][2]
     IN IF lineEvidence[line] = 0
          THEN /\ journal' = Append(journal, Entry("payment", bill, line))
               /\ lineEvidence' = [lineEvidence EXCEPT ![line] = Len(journal) + 1]
               /\ payments' = payments \union
                    {[bill |-> bill, line |-> line, entry |-> Len(journal) + 1]}
          ELSE UNCHANGED <<journal, lineEvidence, payments>>
  /\ paying' = [paying EXCEPT ![p] = <<>>]
  /\ UNCHANGED <<payables, settled>>

(* The same under a receipt's transaction (the servers): checked and posted *)
(* in one step.                                                             *)
PayInReceipt(bill, line) ==
  /\ JournalRoom(1)
  /\ MayPay(bill, line)
  /\ journal' = Append(journal, Entry("payment", bill, line))
  /\ lineEvidence' = [lineEvidence EXCEPT ![line] = Len(journal) + 1]
  /\ payments' = payments \union
       {[bill |-> bill, line |-> line, entry |-> Len(journal) + 1]}
  /\ UNCHANGED <<payables, paying, settled>>

(* reverseJournalEntry knows nothing of payables; what reconciled the bank  *)
(* line stays its evidence.                                                 *)
ReverseEntry(e) ==
  /\ JournalRoom(1)
  /\ Live(e)
  /\ journal' = Append(journal, [journal[e] EXCEPT !.kind = "reversal", !.of = e])
  /\ UNCHANGED <<lineEvidence, payables, payments, paying, settled>>

-----------------------------------------------------------------------------
(* context: exactly one entry names the document and the bank line; it is   *)
(* not reversed and the document is no payable.                             *)
DirectPurchase(bill, line) ==
  {e \in PayableEntries : /\ journal[e].bill = bill /\ journal[e].line = line
                   /\ Cardinality({f \in PayableEntries : journal[f].bill = bill
                                                /\ journal[f].line = line}) = 1}

(* A mutant of CorrectPurchase: the direct entry is not reversed.           *)
CorrectKeepingPurchase(bill, line) ==
  /\ JournalRoom(2)
  /\ Paid[line] = BillGross[bill] /\ payables[bill] = 0
  /\ \A q \in payments : q.line # line
  /\ \E e \in DirectPurchase(bill, line) :
       /\ journal' = journal \o <<Entry("bill", bill, NoLine), Entry("payment", bill, NoLine)>>
       /\ payables' = [payables EXCEPT ![bill] = Len(journal) + 1]
       /\ payments' = payments \union
            {[bill |-> bill, line |-> line, entry |-> Len(journal) + 2]}
       /\ lineEvidence' = [lineEvidence EXCEPT ![line] = Len(journal) + 2]
       /\ settled' = settled \union {<<bill, line>>}
  /\ UNCHANGED paying

(* applyDirectBankPurchasePayableCorrection, with the reviewed plan         *)
(* recomputed in the same transaction: the direct entry is reversed, the    *)
(* bill registered and paid by the same bank line, and the settlement       *)
(* becomes the line's evidence.                                             *)
CorrectPurchase(bill, line) ==
  /\ JournalRoom(3)
  /\ Paid[line] = BillGross[bill] /\ payables[bill] = 0
  /\ \A q \in payments : q.line # line
  /\ \E e \in DirectPurchase(bill, line) :
       /\ lineEvidence[line] = e
       /\ journal' = journal \o <<[journal[e] EXCEPT !.kind = "reversal", !.of = e],
                                  Entry("bill", bill, NoLine),
                                  Entry("payment", bill, NoLine)>>
       /\ payables' = [payables EXCEPT ![bill] = Len(journal) + 2]
       /\ payments' = payments \union
            {[bill |-> bill, line |-> line, entry |-> Len(journal) + 3]}
       /\ lineEvidence' = [lineEvidence EXCEPT ![line] = Len(journal) + 3]
       /\ settled' = settled \union {<<bill, line>>}
  /\ UNCHANGED paying

-----------------------------------------------------------------------------
(* Creditor postings of an earlier system, posted by hand or imported: a    *)
(* bill, and its payment from a bank line.                                  *)
PostLegacyBill(bill) ==
  /\ JournalRoom(1)
  /\ journal' = Append(journal, Entry("bill", bill, NoLine))
  /\ UNCHANGED <<lineEvidence, payables, payments, paying, settled>>

PostLegacyPayment(bill, line) ==
  /\ JournalRoom(1)
  /\ lineEvidence[line] = 0
  /\ journal' = Append(journal, Entry("payment", bill, line))
  /\ lineEvidence' = [lineEvidence EXCEPT ![line] = Len(journal) + 1]
  /\ UNCHANGED <<payables, payments, paying, settled>>

(* applyLegacyPayablePaymentBackfill: two live entries named by the caller  *)
(* become a payable and its payment; nothing is posted.                     *)
AdoptLegacy(bill, purchase, payment) ==
  LET line == journal[payment].line IN
  /\ Live(purchase) /\ journal[purchase].kind = "bill" /\ journal[purchase].bill = bill
  /\ Live(payment) /\ journal[payment].kind = "payment" /\ journal[payment].bill = bill
  /\ purchase < payment
  /\ line # NoLine /\ lineEvidence[line] = payment /\ Paid[line] = BillGross[bill]
  /\ payables[bill] = 0
  /\ \A b \in Bills : payables[b] # purchase
  /\ \A q \in payments : q.line # line /\ q.entry # payment
  /\ payables' = [payables EXCEPT ![bill] = purchase]
  /\ payments' = payments \union {[bill |-> bill, line |-> line, entry |-> payment]}
  /\ UNCHANGED <<journal, lineEvidence, paying, settled>>

-----------------------------------------------------------------------------
PayablesInit ==
  /\ journal = <<>>
  /\ lineEvidence = [l \in Outgoing |-> 0]
  /\ payables = [b \in Bills |-> 0]
  /\ payments = {} /\ settled = {}
  /\ paying = [p \in Payers |-> <<>>]

PayablesNext ==
  \/ \E bill \in Bills :
       \/ RegisterPayable(bill) \/ PostLegacyBill(bill)
       \/ \E line \in Outgoing :
            \/ BookExpense(bill, line) \/ PayInReceipt(bill, line)
            \/ CorrectPurchase(bill, line) \/ PostLegacyPayment(bill, line)
            \/ \E p \in Payers : CheckPayment(p, bill, line)
       \/ \E e, f \in PayableEntries : AdoptLegacy(bill, e, f)
  \/ \E p \in Payers : PostPayment(p)
  \/ \E e \in PayableEntries : ReverseEntry(e)

PayablesSpec == PayablesInit /\ [][PayablesNext]_payablesVars

-----------------------------------------------------------------------------
PayablesTypeOK ==
  /\ \A e \in PayableEntries :
       /\ journal[e].kind \in {"expense", "bill", "payment", "reversal"}
       /\ journal[e].bill \in Bills /\ journal[e].line \in Outgoing \union {NoLine}
       /\ journal[e].of \in 0 .. e - 1
  /\ lineEvidence \in [Outgoing -> {0} \union PayableEntries]
  /\ payables \in [Bills -> {0} \union PayableEntries]
  /\ \A p \in payments : p.bill \in Bills /\ p.line \in Outgoing /\ p.entry \in PayableEntries
  /\ settled \subseteq Bills \X Outgoing

(* The live entries that took money of this bank line out of the bank.      *)
PaysFrom(line) ==
  {e \in PayableEntries : /\ Live(e)
                   /\ \/ journal[e].kind \in {"expense", "payment"} /\ journal[e].line = line
                      \/ \E p \in payments : p.entry = e /\ p.line = line}

(* Money that left the bank once is booked once: whatever checks read an    *)
(* unlinked line, and however often it is booked, corrected or adopted, at  *)
(* most one live entry pays with it, and that entry is the line's evidence  *)
(* (payables.ts:556, :602; the transactions at :590 and                     *)
(* direct-bank-purchase-payable-correction.ts:40).                          *)
LinePaysOnce == \A l \in Outgoing : PaysFrom(l) \subseteq {lineEvidence[l]}

(* "over-payment is rejected, not booked as a creditor over-payment"        *)
(* (payables.ts:20).                                                        *)
NeverOverpaid == \A b \in Bills : payables[b] # 0 => PayableOpen(b) >= 0
=============================================================================
