----------------------------- MODULE Schedules -----------------------------
(***************************************************************************)
(* Amounts that reach the result over several periods: accruals            *)
(* (src/core/accruals.ts) and fixed assets (src/core/assets.ts), and the   *)
(* purchase that is written off at once.  An item is parked on a balance   *)
(* account and released period by period; the registers report what is     *)
(* left from their own rows, not from the ledger.                          *)
(* Left out: account validation, dates, the text of the entries, a         *)
(* category's defaults.                                                    *)
(***************************************************************************)
EXTENDS Integers, Sequences, FiniteSets, Functions

CONSTANTS
  Accruals,        \* accruals that may be registered
  Assets,          \* assets that may be registered
  Total,           \* the amount of each, in oere
  Periods,         \* the number of periods of each
  AssetPurchases,  \* purchase documents that may be written off
  Price,           \* the amount of each
  Threshold,       \* STRAKSAFSKRIVNING_THRESHOLDS_BY_YEAR for their year
  Posters,         \* processes between their check and their transaction
  MaxPostings      \* bound on the journal

Items == Accruals \union Assets

ASSUME SchedulesAssumption ==
  /\ Accruals \intersect Assets = {} /\ Items \intersect AssetPurchases = {}
  /\ Total \in [Items -> Nat \ {0}] /\ Periods \in [Items -> Nat \ {0}]
  /\ Price \in [AssetPurchases -> Nat \ {0}] /\ Threshold \in Nat /\ MaxPostings \in Nat

VARIABLES
  books,       \* journal entries: of an item's period (0 registers it), in order
  reversals,   \* the entries that were reversed
  registered,  \* rows of accruals and assets
  released,    \* accrual_schedule_postings and asset_depreciation_entries
  writeOffs,   \* asset_writeoffs
  review,      \* purchases queued for the advisor
  checked      \* per process: the period or purchase it found free

schedulesVars == <<books, reversals, registered, released, writeOffs, review, checked>>

Free == <<>>

(* A mutant of Slice: the remainder is lost.                                *)
SliceFloor(item, p) == Total[item] \div Periods[item]

(* computeAccrualSchedule and computeDepreciationSchedule: equal slices,    *)
(* the last one with the remainder.                                         *)
Slice(item, p) ==
  LET base == Total[item] \div Periods[item]
  IN  IF p = Periods[item] THEN Total[item] - base * (Periods[item] - 1) ELSE base

PostedOf(item) == {x \in released : x[1] = item}

(* The register reports: what the register's own rows leave.                *)
Remaining(item) == Total[item] - SumFunction([x \in PostedOf(item) |-> Slice(x[1], x[2])])

FullyRecognized(item) == Cardinality(PostedOf(item)) = Periods[item]

(* What the live entries of the ledger leave on the balance account; an     *)
(* asset was put there by its purchase.                                     *)
Parked(item) ==
  LET live == {i \in DOMAIN books \ reversals : books[i][1] = item}
      opened == IF item \in Assets \/ \E i \in live : books[i][2] = 0 THEN Total[item] ELSE 0
      slices == [i \in {j \in live : books[j][2] > 0} |-> Slice(item, books[i][2])]
  IN  opened - SumFunction(slices)

Posting == Len(books) < MaxPostings

-----------------------------------------------------------------------------
(* registerAccrual posts the entry that parks the amount, in one            *)
(* transaction with its row; registerAsset only records the asset.          *)
RegisterItem(item) ==
  /\ item \notin registered
  /\ registered' = registered \union {item}
  /\ IF item \in Accruals
     THEN Posting /\ books' = Append(books, <<item, 0>>)
     ELSE UNCHANGED books
  /\ UNCHANGED <<reversals, released, writeOffs, review, checked>>

(* recognizeAccrualPeriod and postDepreciationPeriod look for a posting of  *)
(* the period before their transaction.                                     *)
CheckPeriod(p, item, period) ==
  /\ checked[p] = Free
  /\ item \in registered /\ <<item, period>> \notin released
  /\ checked' = [checked EXCEPT ![p] = <<item, period>>]
  /\ UNCHANGED <<books, reversals, registered, released, writeOffs, review>>

(* A mutant of PostPeriod: nothing is asked of the unique index.            *)
PostPeriodAnyway(p) ==
  LET x == checked[p]
  IN  /\ x # Free /\ x[1] \in Items /\ Posting /\ Slice(x[1], x[2]) > 0
      /\ books' = Append(books, x)
      /\ released' = released \union {x}
      /\ checked' = [checked EXCEPT ![p] = Free]
      /\ UNCHANGED <<reversals, registered, writeOffs, review>>

(* The transaction: the journal refuses an empty amount, the unique index   *)
(* a second posting of the period; either takes the entry back with it.     *)
PostPeriod(p) ==
  LET x == checked[p]
      accepted == Slice(x[1], x[2]) > 0 /\ x \notin released
  IN  /\ x # Free /\ x[1] \in Items /\ Posting
      /\ books' = IF accepted THEN Append(books, x) ELSE books
      /\ released' = IF accepted THEN released \union {x} ELSE released
      /\ checked' = [checked EXCEPT ![p] = Free]
      /\ UNCHANGED <<reversals, registered, writeOffs, review>>

(* postImmediateWriteOff up to its transaction: above the threshold the     *)
(* purchase goes to the advisor, and one that was written off is refused.   *)
CheckWriteOff(p, doc) ==
  /\ checked[p] = Free
  /\ IF Price[doc] > Threshold
     THEN review' = review \union {doc} /\ UNCHANGED checked
     ELSE /\ doc \notin writeOffs
          /\ checked' = [checked EXCEPT ![p] = <<doc, 0>>]
          /\ UNCHANGED review
  /\ UNCHANGED <<books, reversals, registered, released, writeOffs>>

PostWriteOff(p) ==
  LET doc == checked[p][1]
      accepted == doc \notin writeOffs
  IN  /\ checked[p] # Free /\ doc \in AssetPurchases /\ Posting
      /\ books' = IF accepted THEN Append(books, checked[p]) ELSE books
      /\ writeOffs' = writeOffs \union {doc}
      /\ checked' = [checked EXCEPT ![p] = Free]
      /\ UNCHANGED <<reversals, registered, released, review>>

(* The process is gone before its transaction.                              *)
DropCheck(p) ==
  /\ checked[p] # Free
  /\ checked' = [checked EXCEPT ![p] = Free]
  /\ UNCHANGED <<books, reversals, registered, released, writeOffs, review>>

(* reverseJournalEntry takes any of these entries; the registers are not    *)
(* told.                                                                    *)
ReverseScheduled(i) ==
  /\ i \in DOMAIN books \ reversals
  /\ reversals' = reversals \union {i}
  /\ UNCHANGED <<books, registered, released, writeOffs, review, checked>>

-----------------------------------------------------------------------------
SchedulesInit ==
  /\ books = <<>> /\ reversals = {}
  /\ registered = {} /\ released = {}
  /\ writeOffs = {} /\ review = {}
  /\ checked = [p \in Posters |-> Free]

SchedulesNext ==
  \/ \E item \in Items : RegisterItem(item)
  \/ \E p \in Posters, item \in Items : \E period \in 1 .. Periods[item] :
       CheckPeriod(p, item, period)
  \/ \E p \in Posters : PostPeriod(p) \/ PostWriteOff(p) \/ DropCheck(p)
  \/ \E p \in Posters, doc \in AssetPurchases : CheckWriteOff(p, doc)
  \/ \E i \in DOMAIN books : ReverseScheduled(i)

SchedulesSpec == SchedulesInit /\ [][SchedulesNext]_schedulesVars

-----------------------------------------------------------------------------
SchedulesTypeOK ==
  /\ \A i \in DOMAIN books :
       books[i] \in (Items \X Nat) \union (AssetPurchases \X {0})
  /\ reversals \subseteq DOMAIN books
  /\ registered \subseteq Items
  /\ \A x \in released : x[1] \in registered /\ x[2] \in 1 .. Periods[x[1]]
  /\ writeOffs \subseteq AssetPurchases /\ review \subseteq AssetPurchases

(* While none of its entries was reversed, what the register reports of an  *)
(* item is what the ledger holds, it never goes below zero, and an item     *)
(* whose periods are all posted is released to the last oere; a purchase is *)
(* written off by one entry.                                                *)
RegisterIsTheLedger ==
  /\ \A item \in registered :
       (\A i \in reversals : books[i][1] # item) =>
         /\ Parked(item) = Remaining(item) /\ Remaining(item) >= 0
         /\ FullyRecognized(item) => Parked(item) = 0
  /\ \A i, j \in DOMAIN books : (books[i] = books[j] /\ books[i][1] \in AssetPurchases) => i = j

(* The same after reversals: refuted, since a reversed period stays         *)
(* recognized in the register and can never be recognized again.            *)
RegisterSeesReversals == \A item \in registered : Parked(item) = Remaining(item)
=============================================================================
