---------------------------- MODULE Receivables ----------------------------
(***************************************************************************)
(* The life of one issued invoice after it is booked: payments, combined   *)
(* settlements, refunds, credit notes, bad-debt write-offs, reminder fees  *)
(* and the statutory compensation (src/core/invoice-payments.ts,           *)
(* invoice-settlement.ts, invoice-claim-settlement.ts, invoice-refunds.ts, *)
(* credit-notes.ts, invoice-bad-debt.ts, invoice-reminders.ts,             *)
(* invoice-compensation.ts) over the tables, the evidence view and the     *)
(* triggers of schema.sql.                                                 *)
(*                                                                         *)
(* Every operation but the registration of a reminder works inside one     *)
(* BEGIN IMMEDIATE transaction.  What makes them hard is the date: any of  *)
(* them may be entered later than it took effect, so the order of the      *)
(* journal and the order of the dates differ.  All claims are posted to    *)
(* one receivable account; late interest is a module of its own, and what  *)
(* a reversal of one of these journals does is left out.                   *)
(***************************************************************************)
EXTENDS Integers, Sequences, FiniteSets, Functions

CONSTANTS
  IssuedInvoices,  \* the invoices an instance starts from
  BankLines,       \* imported bank lines, in the currency they are to pay
  Amounts,         \* amounts a caller may give
  LastDay,         \* days run from the invoice date, 0, to this one
  Collectors,      \* processes that register reminders
  Fee,             \* a reminder fee
  Compensation,    \* STATUTORY_COMPENSATION_DKK
  MaxReminders,    \* MAX_REMINDERS_PER_CLAIM
  MinDays,         \* MIN_DAYS_BETWEEN_REMINDERS
  NoReminder,      \* no reminder is being registered
  MaxRows,         \* bound on the entries against the principal
  MaxClaims        \* bound on the claims

Days == 0..LastDay

ASSUME ReceivablesAssumption ==
  /\ \A inv \in IssuedInvoices :
       /\ {inv.gross, inv.vat, inv.dkk} \subseteq Nat \ {0} /\ inv.vatDkk \in Nat
       /\ inv.due \in Int
  /\ \A l \in BankLines : l.amount \in Int \ {0} /\ l.date \in Days
  /\ Amounts \subseteq Nat \ {0}
  /\ LastDay \in Nat /\ MinDays \in Nat /\ MaxReminders \in Nat
  /\ MaxRows \in Nat /\ IsFiniteSet(Collectors) /\ {Fee, Compensation} \subseteq Nat

VARIABLES
  invoice,   \* currency, gross, VAT, due day, and both as booked in DKK
  rows,      \* entries against the principal, in the order of the journal
  claims,    \* reminder fees and compensation, with the day they were posted
  received,  \* invoice_claim_payments, each with how many claims there were
  used,      \* bank lines a payment, a claim payment or a refund consumed
  reminding  \* the reminder a clerk has checked and not yet inserted

receivablesVars == <<invoice, rows, claims, received, used, reminding>>

Foreign == invoice.currency # "DKK"

-----------------------------------------------------------------------------
(* Balances.  A row lowers the principal by its amount and the receivable   *)
(* account by its dkk; a refund raises them, so both are negative.          *)

Rounded(a, b) == (2 * a + b) \div (2 * b)

SumOf(rs, S, field) == SumFunctionOnSet([i \in DOMAIN rs |-> rs[i][field]], S)

OpenAfter(rs, S) == invoice.gross - SumOf(rs, S, "amount")

Open == OpenAfter(rows, DOMAIN rows)

CarryingAfter(rs, S) == invoice.dkk - SumOf(rs, S, "dkk")

Carrying == CarryingAfter(rows, DOMAIN rows)

ClaimTotal == SumOf(claims, DOMAIN claims, "amount")

ReceivedTotal == SumOf(received, DOMAIN received, "amount")

ClaimOpen == Open + ClaimTotal - ReceivedTotal

Overdue(day) == Open > 0 /\ day > invoice.due

-----------------------------------------------------------------------------
(* The evidence of a write-off.                                             *)

(* Row i counts before row w: by date, then by journal entry.               *)
Earlier(rs, i, w) ==
  rs[i].date < rs[w].date \/ (rs[i].date = rs[w].date /\ i < w)

Relieves(row) == row.kind \in {"credit", "writeoff"}

(* Cumulative VAT: the share of the relief so far, exact when it is all.    *)
CumulativeVat(vat, relieved) ==
  IF relieved = invoice.gross THEN vat ELSE Rounded(vat * relieved, invoice.gross)

(* What a foreign receivable gives up for `amount` of what is open.         *)
ForeignRelief(open, carrying, amount) ==
  IF amount = open THEN carrying ELSE Rounded(carrying * amount, open)

ReliefOf(open, carrying, amount) ==
  IF Foreign THEN ForeignRelief(open, carrying, amount) ELSE amount

(* invoice_bad_debt_writeoff_journal_evidence.is_valid                      *)
ValidWriteOff(rs, w) ==
  LET before == {i \in DOMAIN rs : Earlier(rs, i, w)}
      reliefs == {i \in before : Relieves(rs[i])}
      relieved == SumOf(rs, reliefs, "amount") + rs[w].amount
      open == OpenAfter(rs, before)
      carrying == CarryingAfter(rs, 1..(w - 1))
      expected == ReliefOf(open, carrying, rs[w].amount)
  IN /\ relieved <= invoice.gross
     /\ rs[w].vat = CumulativeVat(invoice.vat, relieved) - SumOf(rs, reliefs, "vat")
     /\ rs[w].vat \in 0..rs[w].amount
     /\ rs[w].vatDkk = CumulativeVat(invoice.vatDkk, relieved)
                         - SumOf(rs, reliefs, "vatDkk")
     /\ rs[w].vatDkk \in 0..expected
     /\ ~\E i \in DOMAIN rs :
           /\ rs[i].kind = "credit"
           /\ i # w /\ ~Earlier(rs, i, w)
     /\ rs[w].amount <= open
     /\ carrying > 0
     /\ Foreign \/ carrying = open
     /\ expected > 0
     /\ rs[w].dkk = expected

(* A mutant of WriteOffsStand: only the newest row is looked at.            *)
WriteOffsStandNewest(rs) ==
  rs # <<>> /\ rs[Len(rs)].kind = "writeoff" => ValidWriteOff(rs, Len(rs))

(* The three triggers that re-evaluate every write-off of the invoice.      *)
WriteOffsStand(rs) ==
  \A w \in DOMAIN rs : rs[w].kind = "writeoff" => ValidWriteOff(rs, w)

(* The evidence of the payments of a foreign invoice: each must fit what    *)
(* was open in the order of the journal.                                    *)
PaymentsStand(rs) ==
  Foreign =>
    \A p \in DOMAIN rs : rs[p].kind = "payment" =>
      LET open == OpenAfter(rs, {i \in 1..(p - 1) : rs[i].kind # "refund"})
      IN rs[p].amount <= open

(* The evidence of the receipts of claims: every claim the invoice has now, *)
(* not only those of the time of the receipt, must have been posted in a    *)
(* journal before it and be effective on its day; a claim registered later  *)
(* was posted later.  What was received in the order of the journal must    *)
(* fit what was claimed.                                                    *)
ReceiptsStand ==
  \A r \in DOMAIN received :
    /\ \A i \in DOMAIN claims :
         /\ i <= received[r].claims
         /\ claims[i].date <= received[r].day
         /\ claims[i].posted \in 0 .. received[r].day
    /\ SumOf(received, 1 .. r, "amount") <= ClaimTotal

(* validateInvoiceJournalEvidence, which every status starts with.          *)
EvidenceOk(rs) == WriteOffsStand(rs) /\ PaymentsStand(rs) /\ ReceiptsStand

-----------------------------------------------------------------------------
(* The claims: calculateClaimReceivableBalances and its callers.            *)

(* A mutant of ClaimsEffective: posted, on whatever day.                    *)
ClaimsPosted(day) == \A i \in DOMAIN claims : claims[i].posted \in Days

(* Every claim is posted and effective on the day of the receipt.           *)
ClaimsEffective(day) ==
  \A i \in DOMAIN claims :
    /\ claims[i].posted \in Days
    /\ claims[i].date <= day
    /\ claims[i].posted <= day

LedgerClaims == ClaimTotal - ReceivedTotal

Earliest(a, b) == IF a < b THEN a ELSE b

(* A receipt that bank line l brings for the claims, all of them posted.    *)
Receipt(l, date, amount) ==
  [date |-> date, amount |-> amount, day |-> Earliest(date, l.date),
   claims |-> Len(claims)]

-----------------------------------------------------------------------------
(* Entries against the principal.                                           *)

EvidenceRow(kind, date, amount, dkk, vat, vatDkk) ==
  [kind |-> kind, date |-> date, amount |-> amount, dkk |-> dkk,
   vat |-> vat, vatDkk |-> vatDkk]

Room == Len(rows) < MaxRows

(* Insert a row; a trigger refuses it if an older write-off would no longer *)
(* be backed by its evidence.                                               *)
Append1(row) ==
  /\ Room
  /\ WriteOffsStand(Append(rows, row))
  /\ rows' = Append(rows, row)

(* Two mutants of Reduce: the cap is not re-read, or the carrying balance   *)
(* is not compared.                                                         *)
ReduceUncapped(kind, date, amount) ==
  /\ EvidenceOk(rows)
  /\ Append1(EvidenceRow(kind, date, amount, ReliefOf(Open, Carrying, amount), 0, 0))

ReduceProportional(kind, date, amount) ==
  /\ EvidenceOk(rows)
  /\ amount <= Open
  /\ LET relief == IF Foreign THEN Rounded(invoice.dkk * amount, invoice.gross)
                              ELSE amount
     IN Append1(EvidenceRow(kind, date, amount, relief, 0, 0))

(* What applyInvoicePayment does to the principal under the write lock.     *)
Reduce(kind, date, amount) ==
  /\ EvidenceOk(rows)
  /\ amount <= Open
  /\ Foreign \/ Carrying = Open
  /\ Foreign => Carrying > 0
  /\ LET relief == ReliefOf(Open, Carrying, amount)
     IN /\ relief \in 1..Carrying
        /\ Append1(EvidenceRow(kind, date, amount, relief, 0, 0))

(* A payment from a bank line: the whole line, and no line twice.           *)
PayFromBank(l, date) ==
  /\ l \notin used /\ l.amount > 0
  /\ Reduce("payment", date, l.amount)
  /\ used' = used \union {l}
  /\ UNCHANGED <<invoice, claims, received, reminding>>

(* A payment without a bank line; only in DKK.                              *)
PayManually(date, amount) ==
  /\ ~Foreign
  /\ Reduce("payment", date, amount)
  /\ UNCHANGED <<invoice, claims, received, used, reminding>>

(* settleInvoiceFromBank: up to the principal it is a payment ...           *)
SettlePrincipal(l, date) ==
  /\ l.amount <= ClaimOpen
  /\ ~(l.amount > Open /\ Open > 0)
  /\ PayFromBank(l, date)

(* ... beyond it the rest goes to the claims, all of them posted; in DKK.   *)
SettleCombined(l, date) ==
  LET principal == Open
      rest == l.amount - principal
  IN /\ l \notin used /\ l.amount > 0
     /\ EvidenceOk(rows)
     /\ ~Foreign
     /\ l.amount <= ClaimOpen
     /\ principal > 0 /\ rest > 0
     /\ Carrying = principal
     /\ ClaimsEffective(Earliest(date, l.date))
     /\ rest <= LedgerClaims
     /\ Append1(EvidenceRow("payment", date, principal, principal, 0, 0))
     /\ received' = Append(received, Receipt(l, date, rest))
     /\ used' = used \union {l}
     /\ UNCHANGED <<invoice, claims, reminding>>

(* settleInvoiceClaimsFromBank: claims are paid once the principal is.      *)
SettleClaims(l, date) ==
  /\ l \notin used /\ l.amount > 0
  /\ EvidenceOk(rows)
  /\ Open = 0
  /\ ClaimOpen > 0
  /\ l.amount <= ClaimOpen
  /\ ClaimsEffective(Earliest(date, l.date))
  /\ LedgerClaims = ClaimOpen
  /\ received' = Append(received, Receipt(l, date, l.amount))
  /\ used' = used \union {l}
  /\ UNCHANGED <<invoice, rows, claims, reminding>>

(* refundInvoiceToBank: an overpaid DKK invoice, an outgoing bank line.     *)
Refund(l, date) ==
  /\ l \notin used /\ l.amount < 0
  /\ ~Foreign
  /\ EvidenceOk(rows)
  /\ -l.amount <= -Open
  /\ Carrying = Open
  /\ Append1(EvidenceRow("refund", date, l.amount, l.amount, 0, 0))
  /\ used' = used \union {l}
  /\ UNCHANGED <<invoice, claims, received, reminding>>

(* A mutant of IssueCreditNote: its VAT is a share of its own amount.       *)
IssueCreditNoteOwnShare(date, amount) ==
  LET credits == {i \in DOMAIN rows : rows[i].kind = "credit"}
      total == SumOf(rows, credits, "amount") + amount
  IN /\ total <= invoice.gross
     /\ Append1(EvidenceRow("credit", date, amount,
                    Rounded(invoice.dkk * amount, invoice.gross),
                    Rounded(invoice.vat * amount, invoice.gross),
                    Rounded(invoice.vatDkk * amount, invoice.gross)))
     /\ UNCHANGED <<invoice, claims, received, used, reminding>>

(* issueCreditNote: cumulative shares of the booking.  It looks neither at  *)
(* the payments nor at the carrying balance, so an invoice may become       *)
(* overpaid; after a write-off a trigger refuses it.                        *)
IssueCreditNote(date, amount) ==
  LET credits == {i \in DOMAIN rows : rows[i].kind = "credit"}
      total == SumOf(rows, credits, "amount") + amount
      share(booked) == IF total = invoice.gross THEN booked
                       ELSE Rounded(booked * total, invoice.gross)
      dkk == share(invoice.dkk) - SumOf(rows, credits, "dkk")
      vatDkk == share(invoice.vatDkk) - SumOf(rows, credits, "vatDkk")
  IN /\ Room
     /\ total <= invoice.gross
     /\ vatDkk \in 0..(dkk - 1)
     /\ ~\E i \in DOMAIN rows : rows[i].kind = "writeoff"
     /\ rows' = Append(rows, EvidenceRow("credit", date, amount, dkk,
                          share(invoice.vat) - SumOf(rows, credits, "vat"),
                          vatDkk))
     /\ UNCHANGED <<invoice, claims, received, used, reminding>>

(* calculateBadDebtVatAllocation: relief counts up to the date of this one. *)
VatAllocation(vat, field, date, amount) ==
  LET reliefs == {i \in DOMAIN rows : Relieves(rows[i]) /\ rows[i].date <= date}
  IN CumulativeVat(vat, SumOf(rows, reliefs, "amount") + amount)
       - SumOf(rows, reliefs, field)

ReliefFits(date, amount) ==
  LET reliefs == {i \in DOMAIN rows : Relieves(rows[i]) /\ rows[i].date <= date}
  IN SumOf(rows, reliefs, "amount") + amount <= invoice.gross

(* writeOffInvoiceBadDebt                                                   *)
WriteOff(date, amount) ==
  LET vat == VatAllocation(invoice.vat, "vat", date, amount)
      vatDkk == VatAllocation(invoice.vatDkk, "vatDkk", date, amount)
  IN /\ EvidenceOk(rows)
     /\ amount <= Open
     /\ Foreign \/ Carrying = Open
     /\ ReliefFits(date, amount)
     /\ vat \in 0..amount
     /\ ReliefOf(Open, Carrying, amount) \in 1..Carrying
     /\ vatDkk \in 0..(ReliefOf(Open, Carrying, amount) - 1)
     /\ Append1(EvidenceRow("writeoff", date, amount, ReliefOf(Open, Carrying, amount),
                    vat, vatDkk))
     /\ UNCHANGED <<invoice, claims, received, used, reminding>>

-----------------------------------------------------------------------------
(* Claims.                                                                  *)

Unposted == -1

Claim(kind, date, amount) ==
  [kind |-> kind, date |-> date, amount |-> amount, posted |-> Unposted]

Reminders == {i \in DOMAIN claims : claims[i].kind = "reminder"}

(* What registerInvoiceReminder reads before it writes.                     *)
ReminderAllowed(date) ==
  /\ Overdue(date)
  /\ Cardinality(Reminders) < MaxReminders
  /\ \A i \in Reminders : date - claims[i].date >= MinDays

(* The check of registerInvoiceReminder ...                                 *)
CheckReminder(clerk, date) ==
  /\ reminding[clerk] = NoReminder
  /\ Len(claims) < MaxClaims
  /\ EvidenceOk(rows) /\ ~Foreign
  /\ ReminderAllowed(date)
  /\ reminding' = [reminding EXCEPT ![clerk] = date]
  /\ UNCHANGED <<invoice, rows, claims, received, used>>

(* ... and its insert: no transaction joins the two.                        *)
RegisterReminder(clerk) ==
  /\ reminding[clerk] # NoReminder
  /\ claims' = Append(claims, Claim("reminder", reminding[clerk], Fee))
  /\ reminding' = [reminding EXCEPT ![clerk] = NoReminder]
  /\ UNCHANGED <<invoice, rows, received, used>>

(* registerInvoiceLateCompensation: once per invoice, under the write lock. *)
RegisterCompensation(date) ==
  /\ Len(claims) < MaxClaims
  /\ EvidenceOk(rows)
  /\ Overdue(date)
  /\ ~\E i \in DOMAIN claims : claims[i].kind = "compensation"
  /\ claims' = Append(claims, Claim("compensation", date, Compensation))
  /\ UNCHANGED <<invoice, rows, received, used, reminding>>

(* postInvoiceReminderToLedger, postInvoiceCompensationToLedger             *)
PostClaim(i, date) ==
  /\ claims[i].posted = Unposted
  /\ date >= claims[i].date
  /\ claims' = [claims EXCEPT ![i].posted = date]
  /\ UNCHANGED <<invoice, rows, received, used, reminding>>

-----------------------------------------------------------------------------

ReceivablesInit ==
  /\ invoice \in IssuedInvoices
  /\ rows = <<>>
  /\ claims = <<>>
  /\ received = <<>>
  /\ used = {}
  /\ reminding = [clerk \in Collectors |-> NoReminder]

PrincipalNext ==
  \E date \in Days :
    \/ \E l \in BankLines :
         \/ PayFromBank(l, date)
         \/ SettlePrincipal(l, date)
         \/ SettleCombined(l, date)
         \/ Refund(l, date)
    \/ \E amount \in Amounts :
         \/ PayManually(date, amount)
         \/ IssueCreditNote(date, amount)
         \/ WriteOff(date, amount)

ClaimNext ==
  \/ \E clerk \in Collectors : RegisterReminder(clerk)
  \/ \E date \in Days :
       \/ \E clerk \in Collectors : CheckReminder(clerk, date)
       \/ RegisterCompensation(date)
       \/ \E i \in DOMAIN claims : PostClaim(i, date)
       \/ \E l \in BankLines : SettleClaims(l, date)

ReceivablesNext == PrincipalNext \/ ClaimNext

ReceivablesSpec == ReceivablesInit /\ [][ReceivablesNext]_receivablesVars

-----------------------------------------------------------------------------
(* Properties.                                                              *)

Entries ==
  [kind : {"payment", "refund", "credit", "writeoff"}, date : Days,
   amount : Int, dkk : Int, vat : Int, vatDkk : Int]

ReceivablesTypeOK ==
  /\ invoice \in IssuedInvoices
  /\ rows \in Seq(Entries) /\ Len(rows) <= MaxRows
  /\ claims \in Seq([kind : {"reminder", "compensation"}, date : Days,
                      amount : {Fee, Compensation}, posted : Days \union {Unposted}])
  /\ received \in Seq([date : Days, amount : Nat, day : Days, claims : Nat])
  /\ used \subseteq BankLines
  /\ reminding \in [Collectors -> Days \union {NoReminder}]

(* Output VAT is given back exactly once: over all credit notes and         *)
(* write-offs, in whatever order they were entered and dated, the VAT       *)
(* relieved is the share of the principal relieved, in the currency of the  *)
(* invoice and in DKK, and so never more than the booking declared.         *)
VatReliefExact ==
  LET reliefs == {i \in DOMAIN rows : Relieves(rows[i])}
      relieved == SumOf(rows, reliefs, "amount")
  IN /\ relieved <= invoice.gross
     /\ SumOf(rows, reliefs, "vat") = CumulativeVat(invoice.vat, relieved)
     /\ SumOf(rows, reliefs, "vatDkk") = CumulativeVat(invoice.vatDkk, relieved)

(* No entry against the principal, however it is dated, makes the evidence  *)
(* of an earlier one invalid.  Nor does a claim, with one exception: a      *)
(* reminder that was checked before the claims were paid and is inserted    *)
(* after it takes the evidence of that receipt away for good, and with it   *)
(* the status of the invoice.  No other claim comes after a receipt, and at *)
(* most one reminder of each clerk does.                                    *)
EvidenceStands ==
  /\ \A w \in DOMAIN rows : rows[w].kind = "writeoff" => ValidWriteOff(rows, w)
  /\ PaymentsStand(rows)
  /\ (\A r \in DOMAIN received : received[r].claims = Len(claims)) => ReceiptsStand
  /\ \A r \in DOMAIN received :
       /\ \A i \in DOMAIN claims :
            i > received[r].claims => claims[i].kind = "reminder"
       /\ Len(claims) <= received[r].claims + Cardinality(Collectors)

(* What was given back of an invoice rests on evidence and is exact.        *)
ReliefStands == VatReliefExact /\ EvidenceStands

(* An invoice closed by a payment or a write-off leaves nothing on the      *)
(* debtor account, whatever the exchange rates and the roundings were.      *)
SettledLeavesNothing ==
  /\ ~Foreign => Carrying = Open
  /\ rows # <<>> /\ Open = 0 /\ rows[Len(rows)].kind # "credit" => Carrying = 0

(* What registerInvoiceReminder promises in its error messages: at most     *)
(* MaxReminders fees, and MinDays between two of them.                      *)
RemindersWithinLimits ==
  /\ Cardinality(Reminders) <= MaxReminders
  /\ \A i, j \in Reminders :
       i < j => claims[j].date - claims[i].date >= MinDays

=============================================================================
