---------------------------- MODULE LateInterest ----------------------------
(***************************************************************************)
(* Statutory late interest on one issued invoice                           *)
(* (src/core/invoice-interest.ts): staged claims, their posting, and the   *)
(* correction of a posted claim that a back-dated payment made too large.  *)
(*                                                                         *)
(* A claim bills the difference between the interest of all days so far    *)
(* and what the claims before it billed, so that rounding happens once.    *)
(* The principal of a past day may still change: a payment, a credit note  *)
(* or a refund is entered with the date it took effect.                    *)
(***************************************************************************)
EXTENDS Integers, Sequences

CONSTANTS
  Gross,            \* the gross amount of the invoice
  Due,              \* effectiveDueDate
  LastInterestDay,  \* days run from 0 to this one
  RateChange,       \* the day of a half-yearly change of the reference rate
  TableRates,       \* the annual rate before and from RateChange
  ManualRates,      \* annual rates a caller may give instead
  Divisor,          \* principal times rate of one day is this part of an oere
  Changes,          \* amounts of payments, credit notes, refunds, receipts
  MaxChanges,       \* bound on those
  MaxInterest       \* bound on the claims

InterestDays == 0..LastInterestDay

ASSUME LateInterestAssumption ==
  /\ Gross \in Nat /\ Due \in InterestDays /\ LastInterestDay \in Nat
  /\ RateChange \in Int /\ TableRates \in Seq(Nat) /\ Len(TableRates) = 2
  /\ ManualRates \subseteq Nat /\ Divisor \in Nat \ {0}
  /\ Changes \subseteq Nat \ {0} /\ MaxChanges \in Nat /\ MaxInterest \in Nat

VARIABLES
  paid,                 \* what each day's entries take off the principal
  changes,              \* number of entries so far
  credited,             \* total of the credit notes
  interest,             \* invoice_interest_claims, in the order of their dates
  interestCorrections,  \* invoice_interest_corrections, in the order of the journal
  receipts              \* invoice_claim_payments, a total

lateInterestVars == <<paid, changes, credited, interest, interestCorrections, receipts>>

-----------------------------------------------------------------------------
(* The principal and its interest.                                          *)

OverDays(f, S) ==
  LET upTo[d \in -1..LastInterestDay] ==
        IF d = -1 THEN 0 ELSE upTo[d - 1] + (IF d \in S THEN f[d] ELSE 0)
  IN upTo[LastInterestDay]

OverSeq(s, S) ==
  LET upTo[i \in 0..Len(s)] ==
        IF i = 0 THEN 0 ELSE upTo[i - 1] + (IF i \in S THEN s[i].amount ELSE 0)
  IN upTo[Len(s)]

Positive(n) == IF n > 0 THEN n ELSE 0

Smaller(a, b) == IF a < b THEN a ELSE b

Larger(a, b) == IF a < b THEN b ELSE a

OpenBalanceAsOf(day) == Gross - OverDays(paid, 0..day)

OpenBalance == OpenBalanceAsOf(LastInterestDay)

LookupRate(day) == TableRates[IF day < RateChange THEN 1 ELSE 2]

(* windowSegments at one rate: principal times rate, day by day.            *)
WindowSegments(from, to, rate) ==
  OverDays([d \in InterestDays |-> Positive(OpenBalanceAsOf(d)) * rate],
           from..(to - 1))

(* claimRateWindows: a rate of the table is split where it changes.         *)
ClaimRateWindows(from, to, source, rate) ==
  IF source = "manual" THEN WindowSegments(from, to, rate)
  ELSE WindowSegments(from, Smaller(to, RateChange), TableRates[1])
         + WindowSegments(Larger(from, RateChange), to, TableRates[2])

CumulativeInterest(units) == (2 * units + Divisor) \div (2 * Divisor)

-----------------------------------------------------------------------------
(* calculateInvoiceLateInterest                                             *)

Claims == DOMAIN interest

LastClaimDate == interest[Len(interest)].date

Anchor == IF interest = <<>> THEN Due ELSE Larger(Due, LastClaimDate)

(* The window of claim i starts where the one before it ended.              *)
From(i) == IF i = 1 THEN Due ELSE interest[i - 1].date

ClaimableDays(asOf) == IF OpenBalanceAsOf(asOf) > 0 THEN Positive(asOf - Anchor) ELSE 0

(* The units of all claims so far: each window at the claim's stored rate.  *)
PriorWindows(asOf) ==
  OverSeq([i \in Claims |->
             [amount |-> WindowSegments(Smaller(From(i), asOf),
                           Smaller(interest[i].date, asOf), interest[i].rate)]],
          Claims)

TotalInterest(asOf, source, rate) ==
  CumulativeInterest(PriorWindows(asOf)
                       + ClaimRateWindows(Anchor, asOf, source, rate))

BilledUntil(asOf) ==
  OverSeq(interest, {i \in Claims : interest[i].date <= asOf})

CorrectedUntil(asOf) ==
  OverSeq(interestCorrections, {i \in DOMAIN interestCorrections : interestCorrections[i].date <= asOf})

PriorClaimed(asOf) == BilledUntil(asOf) - CorrectedUntil(asOf)

(* A mutant of Accrued: a claim bills its own window, rounded by itself,    *)
(* whatever the claims before it billed.                                    *)
AccruedAlone(asOf, source, rate) ==
  IF ClaimableDays(asOf) > 0
  THEN CumulativeInterest(ClaimRateWindows(Anchor, asOf, source, rate)) ELSE 0

Accrued(asOf, source, rate) ==
  IF ClaimableDays(asOf) > 0
  THEN Positive(TotalInterest(asOf, source, rate) - PriorClaimed(asOf)) ELSE 0

-----------------------------------------------------------------------------
(* proposeInterestCorrection and the plan every correction must fit.        *)

Posted == {i \in Claims : interest[i].posted}

PostedInterest == OverSeq(interest, Posted)

OwnWindow(i) ==
  ClaimRateWindows(From(i), interest[i].date, interest[i].source, interest[i].rate)

LawfulInterest ==
  CumulativeInterest(OverSeq([i \in Claims |-> [amount |-> OwnWindow(i)]], Posted))

AlreadyCorrected == OverSeq(interestCorrections, DOMAIN interestCorrections)

OverClaimed == Positive(PostedInterest - LawfulInterest - AlreadyCorrected)

Ceiling == Positive(PostedInterest - LawfulInterest)

(* What claim i alone bills too much.                                       *)
RawOverclaim == [i \in Claims |->
  IF i \in Posted
  THEN Positive(interest[i].amount - CumulativeInterest(OwnWindow(i))) ELSE 0]

(* claimOverclaims, summed up: the ceiling shared out to the oldest claim   *)
(* first, a rounding remainder to the last.                                 *)
CeilingUpTo ==
  LET ceiling == Ceiling
      raw == RawOverclaim
      over == {i \in Claims : raw[i] > 0}
      upTo[i \in 0..Len(interest)] ==
        IF i = 0 THEN 0
        ELSE IF i \in over /\ \A j \in over : j <= i THEN ceiling
             ELSE Smaller(upTo[i - 1] + raw[i], ceiling)
  IN upTo

(* The amounts `before` + 1 .. `before` + `amount` of the ceiling may be    *)
(* corrected on `date`: no claim they belong to is later.                   *)
FitsPlan(before, amount, date) ==
  LET upTo == CeilingUpTo
  IN /\ before + amount <= upTo[Len(interest)]
     /\ \A i \in Claims :
          upTo[i] > Larger(before, upTo[i - 1]) /\ upTo[i - 1] < before + amount
            => date >= interest[i].date

(* buildInterestCorrectionEvidencePlan over the persisted corrections; the  *)
(* status of the invoice, and so every operation that reads it, depends on  *)
(* it.                                                                      *)
CorrectionsStand ==
  \A k \in DOMAIN interestCorrections :
    FitsPlan(OverSeq(interestCorrections, 1..(k - 1)), interestCorrections[k].amount,
             interestCorrections[k].date)

OutstandingInterest == PostedInterest - AlreadyCorrected - receipts

-----------------------------------------------------------------------------
(* Entries against the principal, by the day they took effect.              *)

Enter(day, amount) ==
  /\ changes' = changes + 1
  /\ paid' = [paid EXCEPT ![day] = @ + amount]
  /\ UNCHANGED <<interest, interestCorrections, receipts>>

(* applyInvoicePayment: within what is open now, whatever day it is for.    *)
PayPrincipal(day, amount) ==
  /\ changes < MaxChanges /\ amount <= OpenBalance
  /\ CorrectionsStand
  /\ Enter(day, amount)
  /\ UNCHANGED credited

(* issueCreditNote                                                          *)
CreditPrincipal(day, amount) ==
  /\ changes < MaxChanges /\ credited + amount <= Gross
  /\ Enter(day, amount)
  /\ credited' = credited + amount

(* refundInvoiceToBank                                                      *)
RefundPrincipal(day, amount) ==
  /\ changes < MaxChanges /\ amount <= -OpenBalance
  /\ CorrectionsStand
  /\ Enter(day, -amount)
  /\ UNCHANGED credited

(* settleInvoiceClaimsFromBank: all claims posted, the principal paid.      *)
ReceiveInterest(amount) ==
  /\ changes < MaxChanges
  /\ OpenBalance = 0 /\ Posted = Claims
  /\ amount <= OutstandingInterest
  /\ CorrectionsStand
  /\ receipts' = receipts + amount
  /\ changes' = changes + 1
  /\ UNCHANGED <<paid, credited, interest, interestCorrections>>

-----------------------------------------------------------------------------
(* The operations on claims, each but the posting under the write lock.     *)

(* The rate of the as-of day, or the caller's.                              *)
RateInputs(asOf) ==
  {<<"table", LookupRate(asOf)>>} \union ({"manual"} \X ManualRates)

(* registerInvoiceLateInterest                                              *)
RegisterInterest(asOf, source, rate) ==
  LET amount == Accrued(asOf, source, rate)
  IN /\ Len(interest) < MaxInterest
     /\ ~\E i \in Claims : interest[i].date = asOf /\ interest[i].rate = rate
     /\ amount > 0
     /\ CorrectionsStand
     /\ interest' = Append(interest,
          [date |-> asOf, source |-> source, rate |-> rate,
           amount |-> amount, posted |-> FALSE])
     /\ UNCHANGED <<paid, changes, credited, interestCorrections, receipts>>

(* postInvoiceLateInterestToLedger: any claim the caller names; the status  *)
(* of the invoice is read only for the answer.                              *)
PostInterest(i) ==
  /\ ~interest[i].posted
  /\ interest' = [interest EXCEPT ![i].posted = TRUE]
  /\ UNCHANGED <<paid, changes, credited, interestCorrections, receipts>>

(* A mutant of RequiresRefund: the receipts of the customer are forgotten.  *)
RequiresRefundUnpaid == OverClaimed > PostedInterest - AlreadyCorrected

RequiresRefund == OverClaimed > OutstandingInterest

(* postInterestCorrection; `date` is throughDate unless the caller gives it *)
PostCorrection(date) ==
  /\ Posted # {}
  /\ OverClaimed > 0
  /\ ~RequiresRefund
  /\ CorrectionsStand
  /\ FitsPlan(AlreadyCorrected, OverClaimed, date)
  /\ interestCorrections' = Append(interestCorrections, [date |-> date, amount |-> OverClaimed])
  /\ UNCHANGED <<paid, changes, credited, interest, receipts>>

-----------------------------------------------------------------------------

LateInterestInit ==
  /\ paid = [d \in InterestDays |-> 0]
  /\ changes = 0
  /\ credited = 0
  /\ interest = <<>>
  /\ interestCorrections = <<>>
  /\ receipts = 0

LateInterestNext ==
  \/ \E day \in InterestDays :
       \/ \E amount \in Changes :
            \/ PayPrincipal(day, amount)
            \/ CreditPrincipal(day, amount)
            \/ RefundPrincipal(day, amount)
       \/ \E r \in RateInputs(day) : RegisterInterest(day, r[1], r[2])
       \/ PostCorrection(day)
  \/ \E amount \in Changes : ReceiveInterest(amount)
  \/ \E i \in Claims : PostInterest(i)

LateInterestSpec == LateInterestInit /\ [][LateInterestNext]_lateInterestVars

-----------------------------------------------------------------------------
(* Properties.                                                              *)

LateInterestTypeOK ==
  /\ paid \in [InterestDays -> Int]
  /\ changes \in 0..MaxChanges
  /\ credited \in 0..Gross
  /\ interest \in Seq([date : InterestDays, source : {"table", "manual"},
                        rate : Nat, amount : Nat \ {0}, posted : BOOLEAN])
  /\ Len(interest) <= MaxInterest
  /\ interestCorrections \in Seq([date : InterestDays, amount : Nat \ {0}])
  /\ receipts \in Nat

(* The interest of every day from the due date to the last claim, each day  *)
(* once, at the rate of the claim that covers it.                           *)
LawfulThrough ==
  CumulativeInterest(
    OverSeq([i \in Claims |-> [amount |-> OwnWindow(i)]], Claims))

NetBilled == OverSeq(interest, Claims) - AlreadyCorrected

(* "A second claim re-bills no day an earlier one covered": however the     *)
(* claims are staged, posted, corrected and overtaken by back-dated         *)
(* payments, a new claim never brings what is billed above the interest of  *)
(* each day taken once.                                                     *)
NoDayBilledTwice ==
  [][interest' # interest /\ Len(interest') > Len(interest)
       => NetBilled' <= LawfulThrough']_lateInterestVars

(* What the customer paid and what was credited back never exceed the       *)
(* interest posted: no correction gives back money that was collected, and  *)
(* no receipt settles what was credited.                                    *)
InterestReceivableCovered == OutstandingInterest >= 0

(* "It never proposes correcting the same excess twice": a correction never *)
(* leaves less billed than the interest of each day taken once.             *)
ExcessGivenBackOnce ==
  [][interestCorrections' # interestCorrections => NetBilled' >= LawfulThrough']_lateInterestVars

=============================================================================
