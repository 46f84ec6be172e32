----------------------------- MODULE VatReturns -----------------------------
(***************************************************************************)
(* The VAT report of a period and the return made from it                  *)
(* (src/core/vat.ts, vat-rubric.ts, vat-filing.ts, vat-vies-list.ts).  The *)
(* report adds up the VAT accounts and, by VAT code, the bases; a return   *)
(* is refused when the VAT booked and the VAT the bases call for differ by *)
(* more than the rounding of single lines explains.                        *)
(*                                                                         *)
(* Amounts are whole oere.  Entries are in DKK and each has one base line, *)
(* booked by the program's own postings on the native chart, where reverse *)
(* charge shares the output VAT account with sales; what is inferred from  *)
(* imported vouchers is left out.  A transfer to the settlement account    *)
(* is recognised as such and takes no part in a report.                    *)
(***************************************************************************)
EXTENDS Integers, Sequences, FiniteSets, Functions

CONSTANTS
  VatPeriods,     \* the VAT periods, consecutive numbers
  Vouchers,       \* what is booked without an invoice: [code, base]
  DomesticPrice,  \* net price of the domestic invoice
  ForeignPrice,   \* net price of the invoice to another EU country
  ForeignPeriod,  \* the period that invoice is dated in
  Krone,          \* oere in a krone
  MaxVatEntries   \* bound on the entries

ASSUME VatAssumption ==
  /\ VatPeriods \subseteq Int /\ IsFiniteSet(VatPeriods)
  /\ \A v \in Vouchers : v.base \in Nat \ {0} /\ v.code # "DK_BAD_DEBT_25"
  /\ {DomesticPrice, ForeignPrice, Krone} \subseteq Nat \ {0}
  /\ ForeignPeriod \in VatPeriods /\ MaxVatEntries \in Nat

VARIABLES
  vatEntries,   \* the journal entries with a VAT base line
  returnState,  \* the state of each VAT period
  onSalesList,  \* whether the foreign invoice is issued
  credited,     \* how much of each invoice's gross is credited
  writtenOff    \* how much of the domestic invoice is written off

vatVars == <<vatEntries, returnState, onSalesList, credited, writtenOff>>

-----------------------------------------------------------------------------
(* Rounding and codes.                                                      *)

(* a * n / d to the nearest oere, halves away from zero.                    *)
Share(a, n, d) ==
  IF a >= 0 THEN (2 * a * n + d) \div (2 * d) ELSE -((2 * (-a) * n + d) \div (2 * d))

Percent25(a) == Share(a, 1, 4)

Sale == "DK_SALE_25"
ForeignSale == "REVERSE_CHARGE_EXEMPT"
Purchase == "DK_PURCHASE_25"
Goods == "EU_GOODS_ACQUISITION"
Representation == "REPRESENTATION_SPECIAL"
BadDebt == "DK_BAD_DEBT_25"
EuService == "EU_SERVICE_REVERSE_CHARGE"
ReverseCharge == {Goods, EuService, "NON_EU_SERVICE_REVERSE_CHARGE"}
RubrikC == {"DK_SALE_EXEMPT", "DOMESTIC_REVERSE_CHARGE_EXEMPT"}

OutputCodes == {Sale, BadDebt} \union ReverseCharge
OrdinaryCodes == {Sale, BadDebt}
InputCodes == {Purchase, Representation} \union ReverseCharge

(* The VAT each posting puts on the accounts for output and input VAT.      *)
OutputOf(code, base) ==
  IF code \in {Sale} \union ReverseCharge THEN Percent25(base) ELSE 0

InputOf(code, base) ==
  CASE code \in {Purchase} \union ReverseCharge -> Percent25(base)
    [] code = Representation -> Percent25(Percent25(base))
    [] OTHER -> 0

VatEntry(p, code, base, out, in) ==
  [period |-> p, code |-> code, base |-> base, out |-> out, in |-> in,
   invoice |-> "none", share |-> FALSE, reverses |-> 0]

-----------------------------------------------------------------------------
(* The report.                                                              *)

EntryIds == DOMAIN vatEntries
Taken(e) == \E r \in EntryIds : vatEntries[r].reverses = e

(* A mutant of EntriesOf: an entry that was reversed since counts as void.  *)
EntriesOfLive(p) == {e \in EntryIds : vatEntries[e].period = p /\ ~Taken(e)}

(* The entries of a period, reversed or reversing ones with the others.     *)
EntriesOf(p) == {e \in EntryIds : vatEntries[e].period = p}

Of(p, codes) == {e \in EntriesOf(p) : vatEntries[e].code \in codes}
VatSum(figure, s) == SumFunctionOnSet([e \in EntryIds |-> vatEntries[e][figure]], s)

Base(p, codes) == VatSum("base", Of(p, codes))
OutputVat(p) == VatSum("out", EntriesOf(p))
InputVat(p) == VatSum("in", EntriesOf(p))

(* Reverse charge has no account of its own: its VAT follows from its lines.*)
ReverseChargeVat(p, codes) ==
  SumFunctionOnSet([e \in EntryIds |-> Percent25(vatEntries[e].base)], Of(p, codes))

Expected25(p, codes) == Percent25(Base(p, codes))
ExpectedOrdinary(p) == Expected25(p, {Sale}) - Expected25(p, {BadDebt})
ExpectedInput(p) ==
  Expected25(p, {Purchase}) + Expected25(p, ReverseCharge)
    + Percent25(Expected25(p, {Representation}))

(* A mutant of Tolerance: entries and reversals that cancel are not counted.*)
ToleranceOfActive(p, codes) ==
  LET active == {e \in Of(p, codes) : vatEntries[e].reverses = 0 /\ ~Taken(e)}
  IN IF active = {} THEN 0 ELSE Cardinality(active) - 1

(* Every line but the first may be off by one oere.                         *)
Tolerance(p, codes) ==
  IF Of(p, codes) = {} THEN 0 ELSE Cardinality(Of(p, codes)) - 1

Within(a, b, tolerance) == a - b \in (-tolerance)..tolerance

ReportOk(p) ==
  /\ Within(OutputVat(p), ExpectedOrdinary(p) + Expected25(p, ReverseCharge),
            Tolerance(p, OutputCodes))
  /\ Within(InputVat(p), ExpectedInput(p), Tolerance(p, InputCodes))
  /\ Within(OutputVat(p) - ReverseChargeVat(p, ReverseCharge),
            ExpectedOrdinary(p), Tolerance(p, OrdinaryCodes))

-----------------------------------------------------------------------------
(* The form and the return.                                                 *)

WholeKroner(a) == IF a >= 0 THEN a \div Krone ELSE -((-a) \div Krone)

(* VAT on goods from abroad has its own field while their base is positive. *)
Form(p) ==
  LET abroad == ReverseChargeVat(p, ReverseCharge)
      goods == IF Base(p, {Goods}) > 0 THEN ReverseChargeVat(p, {Goods}) ELSE 0
      salgsmoms == WholeKroner(OutputVat(p) - abroad)
      kobsmoms == WholeKroner(InputVat(p))
      varekob == WholeKroner(goods)
      ydelseskob == WholeKroner(abroad - goods)
  IN [salgsmoms |-> salgsmoms, kobsmoms |-> kobsmoms,
      varekob |-> varekob, ydelseskob |-> ydelseskob,
      momsIAlt |-> salgsmoms + varekob + ydelseskob - kobsmoms,
      rubrikAVarer |-> WholeKroner(Base(p, {Goods})),
      rubrikAYdelser |-> WholeKroner(Base(p, {EuService})),
      rubrikC |-> WholeKroner(Base(p, RubrikC))]

(* The EU sales list holds the invoices issued in the period, booked or not.*)
SalesList(p) == IF onSalesList /\ p = ForeignPeriod THEN ForeignPrice ELSE 0

(* A return can be made of a period that is final, whose report holds, and  *)
(* whose sales abroad are classified: so much as on the sales list, so much *)
(* as goods that are not on it.                                             *)
MayFile(p, onList, offList) ==
  /\ returnState[p] \in {"closed", "reported"}
  /\ ReportOk(p)
  /\ onList + offList = Base(p, {ForeignSale})
  /\ onList = SalesList(p)

-----------------------------------------------------------------------------
(* Postings.                                                                *)

Invoices2 == {"domestic", "foreign"}
CodeOf(i) == IF i = "domestic" THEN Sale ELSE ForeignSale
PriceOf(i) == IF i = "domestic" THEN DomesticPrice ELSE ForeignPrice
VatOf(i) == OutputOf(CodeOf(i), PriceOf(i))
GrossOf(i) == PriceOf(i) + VatOf(i)

InvoiceEntries(i) == {e \in EntryIds : vatEntries[e].invoice = i}
Invoiced(i) == InvoiceEntries(i) # {}

MayPost(p) == returnState[p] = "open" /\ Len(vatEntries) < MaxVatEntries
PostVat(e) == vatEntries' = Append(vatEntries, e)

BookVoucher(p, v) ==
  /\ MayPost(p)
  /\ PostVat(VatEntry(p, v.code, v.base, OutputOf(v.code, v.base),
                      InputOf(v.code, v.base)))
  /\ UNCHANGED <<returnState, onSalesList, credited, writtenOff>>

(* issueInvoice: that the period is final is a warning only.                *)
IssueForeignInvoice ==
  /\ ~onSalesList
  /\ onSalesList' = TRUE
  /\ UNCHANGED <<vatEntries, returnState, credited, writtenOff>>

(* An invoice is booked on the day it was issued.                           *)
BookSale(p, i) ==
  /\ MayPost(p) /\ ~Invoiced(i)
  /\ i = "foreign" => onSalesList /\ p = ForeignPeriod
  /\ PostVat([VatEntry(p, CodeOf(i), PriceOf(i), VatOf(i), 0)
                EXCEPT !.invoice = i])
  /\ UNCHANGED <<returnState, onSalesList, credited, writtenOff>>

(* The VAT of a part of an invoice is what brings all that was given back   *)
(* to its share of the invoice's VAT; the base is the rest.                 *)
VatGivenBack(i, amount) ==
  LET back == credited[i] + (IF i = "domestic" THEN writtenOff ELSE 0)
  IN Share(VatOf(i), back + amount, GrossOf(i)) - Share(VatOf(i), back, GrossOf(i))

(* A mutant of MayCredit: what was credited before is not looked at.        *)
MayCreditAnew(i, amount) == Invoiced(i) /\ amount <= GrossOf(i)

(* Nothing is credited after a write-off, and no more than was invoiced.    *)
MayCredit(i, amount) ==
  /\ Invoiced(i)
  /\ credited[i] + amount <= GrossOf(i)
  /\ i = "domestic" => writtenOff = 0

BookCreditNote(p, i, amount) ==
  LET vat == VatGivenBack(i, amount)
  IN /\ MayPost(p) /\ MayCredit(i, amount)
     /\ PostVat([VatEntry(p, CodeOf(i), -(amount - vat), -vat, 0)
                   EXCEPT !.invoice = i, !.share = TRUE])
     /\ credited' = [credited EXCEPT ![i] = @ + amount]
     /\ UNCHANGED <<returnState, onSalesList, writtenOff>>

BookBadDebt(p, amount) ==
  LET vat == VatGivenBack("domestic", amount)
  IN /\ MayPost(p) /\ Invoiced("domestic")
     /\ \A e \in InvoiceEntries("domestic") : vatEntries[e].period <= p
     /\ credited["domestic"] + writtenOff + amount <= GrossOf("domestic")
     /\ PostVat([VatEntry(p, BadDebt, amount - vat, -vat, 0)
                   EXCEPT !.invoice = "domestic", !.share = TRUE])
     /\ writtenOff' = writtenOff + amount
     /\ UNCHANGED <<returnState, onSalesList, credited>>

(* An entry is taken back by its mirror image, dated in any open period.    *)
(* Entries that belong to invoices are not.                                 *)
TakeBackEntry(p, e) ==
  LET o == vatEntries[e]
  IN /\ MayPost(p)
     /\ o.invoice = "none" /\ o.reverses = 0 /\ ~Taken(e)
     /\ PostVat([VatEntry(p, o.code, -o.base, -o.out, -o.in)
                   EXCEPT !.reverses = e])
     /\ UNCHANGED <<returnState, onSalesList, credited, writtenOff>>

-----------------------------------------------------------------------------
(* The period.                                                              *)

SetReturnState(p, from, to) ==
  /\ returnState[p] = from
  /\ returnState' = [returnState EXCEPT ![p] = to]
  /\ UNCHANGED <<vatEntries, onSalesList, credited, writtenOff>>

CloseReturn(p) == SetReturnState(p, "open", "closed")
ReopenReturn(p) == SetReturnState(p, "closed", "open")
ReportReturn(p) == SetReturnState(p, "closed", "reported")

VatInit ==
  /\ vatEntries = <<>>
  /\ returnState = [p \in VatPeriods |-> "open"]
  /\ onSalesList = FALSE
  /\ credited = [i \in Invoices2 |-> 0] /\ writtenOff = 0

VatNext ==
  \/ IssueForeignInvoice
  \/ \E p \in VatPeriods :
       \/ \E v \in Vouchers : BookVoucher(p, v)
       \/ \E i \in Invoices2 :
            \/ BookSale(p, i)
            \/ \E amount \in 1..GrossOf(i) : BookCreditNote(p, i, amount)
       \/ \E amount \in 1..GrossOf("domestic") : BookBadDebt(p, amount)
       \/ \E e \in EntryIds : TakeBackEntry(p, e)
       \/ CloseReturn(p)
       \/ ReopenReturn(p)
       \/ ReportReturn(p)

VatSpec == VatInit /\ [][VatNext]_vatVars

-----------------------------------------------------------------------------
(* Properties.                                                              *)

VatTypeOK ==
  /\ Len(vatEntries) <= MaxVatEntries
  /\ \A e \in EntryIds :
       /\ vatEntries[e].period \in VatPeriods
       /\ {vatEntries[e].base, vatEntries[e].out, vatEntries[e].in} \subseteq Int
       /\ vatEntries[e].reverses \in 0..(e - 1)
  /\ returnState \in [VatPeriods -> {"open", "closed", "reported"}]
  /\ onSalesList \in BOOLEAN
  /\ \A i \in Invoices2 : credited[i] \in 0..GrossOf(i)
  /\ writtenOff \in 0..(GrossOf("domestic") - credited["domestic"])

Untaken == {e \in EntryIds : vatEntries[e].reverses = 0 /\ ~Taken(e)}

(* Nothing is declared twice and nothing lost: all periods together declare *)
(* the VAT of the entries that were not taken back.                         *)
AddsUp(figure) ==
  SumFunctionOnSet([p \in VatPeriods |-> VatSum(figure, EntriesOf(p))], VatPeriods)
  = VatSum(figure, Untaken)

(* The figures are of the entries, so only a posting can change them.       *)
FinalIsKept ==
  vatEntries' # vatEntries =>
  \A p \in VatPeriods :
    returnState[p] # "open" /\ returnState'[p] # "open" =>
      Form(p)' = Form(p) /\ ReportOk(p)' = ReportOk(p)

(* What is declared for a period does not change while the period is final, *)
(* although its entries may be taken back and its invoices credited in      *)
(* later periods; and all periods together declare the VAT of what was not  *)
(* taken back, nothing twice and nothing lost.                              *)
DeclaredOnce == [](\A figure \in {"out", "in"} : AddsUp(figure)) /\ [][FinalIsKept]_vatVars

(* What the program books, each line rounded by itself, and takes back in   *)
(* whatever period never stops a return: only a share of an invoice - a     *)
(* partial credit or a partial write-off - can exceed the tolerance.        *)
OnlySharesStopReturns ==
  \A p \in VatPeriods :
    (\E e \in Of(p, OrdinaryCodes) : vatEntries[e].share) \/ ReportOk(p)

(* Sales abroad that are all booked and all on the EU sales list can be     *)
(* declared as such: goods off the list are never needed to make the return *)
(* pass.                                                                    *)
ListedSalesCanBeFiled ==
  \A p \in VatPeriods :
    /\ returnState[p] # "open" /\ ReportOk(p)
    /\ onSalesList => Invoiced("foreign")
    /\ \A e \in Of(p, {ForeignSale}) : vatEntries[e].invoice = "foreign"
    => MayFile(p, Base(p, {ForeignSale}), 0)

=============================================================================
