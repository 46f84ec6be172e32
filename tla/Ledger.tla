------------------------------- MODULE Ledger -------------------------------
(***************************************************************************)
(* The journal of one company database: src/core/ledger.ts over the        *)
(* journal tables, triggers and unique indexes of src/core/schema.sql and  *)
(* the issued-number table of src/core/sequences.ts.                       *)
(*                                                                         *)
(* Several operating-system processes (CLI, HTTP server, MCP server) share *)
(* one SQLite file.  A BEGIN IMMEDIATE transaction is one action.  What a  *)
(* caller reads before it takes the write lock is an action of its own:    *)
(* reverseJournalEntry validates first and locks afterwards.               *)
(***************************************************************************)
EXTENDS Integers, Sequences, FiniteSets, FiniteSetsExt, Functions

CONSTANTS
  Payloads,        \* the JournalEntryInput values callers submit
  Dates,           \* transaction dates
  Years,           \* fiscal-year labels
  FiscalYear,      \* [Dates -> Years], fiscalYearLabelFromDate
  Accounts,        \* the chart of accounts
  ResultAccounts,  \* the income and expense accounts among them
  CreditNotes,     \* documents of type credit_note
  Invoices,        \* documents of type issued_invoice
  Keys,            \* sequence keys of the company: its CVR, or company-<id>
  FirstKey,        \* the key the company starts with
  Procs,           \* processes that may have a reversal in flight
  None,            \* an absent document, bank transaction or request
  MaxEntries       \* bound on the number of journal rows

(* A line names an account and what it debits or credits, in oere.          *)
JournalLineInput == [acct : Accounts, debit : Nat, credit : Nat]

ASSUME LedgerAssumption ==
  /\ FiscalYear \in [Dates -> Years]
  /\ FirstKey \in Keys
  /\ None \notin CreditNotes \cup Invoices
  /\ MaxEntries \in Nat
  /\ \A p \in Payloads :
       /\ p.date \in Dates
       /\ p.lines \in Seq(JournalLineInput)

VARIABLES
  entries,    \* journal_entries with their journal_lines, in id order
  issued,     \* sequences rows of kind journal_entry (0: no row yet)
  companyKey, \* companies.cvr as companySequenceScope uses it
  locked,     \* dates some effectively closed or reported period covers
  pending     \* reversals validated outside the write lock, by process

ledgerVars == <<entries, issued, companyKey, locked, pending>>

-----------------------------------------------------------------------------
(* Reading the journal.                                                     *)

Ids == 1..Len(entries)

IsOriginal(i) == entries[i].rev = 0

Reversed(i) == \E j \in Ids : entries[j].rev = i

(* An original nobody has reversed: "an active original posted entry".      *)
Active(i) == IsOriginal(i) /\ ~Reversed(i)

EntrySuffixes(es, year) == {es[i].no : i \in {j \in 1..Len(es) : es[j].year = year}}

MaxEntryNoSuffix(es, year) == Max(EntrySuffixes(es, year) \cup {0})

(* Two mutants of NextSequenceValue: the upsert returns the value it found, *)
(* or forgets the floor.                                                    *)
NextBeforeIncrement(year) == issued[<<companyKey, year>>]

NextWithoutFloor(year) == issued[<<companyKey, year>>] + 1

(* nextSequenceValue's upsert: the stored value plus one, never below the   *)
(* floor plus one; a missing row reads 0.                                   *)
NextSequenceValue(year) ==
  LET floor == MaxEntryNoSuffix(entries, year)
      value == issued[<<companyKey, year>>]
  IN  IF value < floor THEN floor + 1 ELSE value + 1

PreviousHash(es) == IF es = <<>> THEN "GENESIS" ELSE es[Len(es)].hash

(* A collision-free hash is the pair of what it covers.                     *)
HashEntry(data, prev) == <<data, prev>>

CanonicalEntryData(e) ==
  [id |-> e.id, year |-> e.year, no |-> e.no, date |-> e.date, doc |-> e.doc,
   bank |-> e.bank, lines |-> e.lines, prog |-> e.prog, status |-> e.status,
   rev |-> e.rev]

Row(data, prev) ==
  [id |-> data.id, year |-> data.year, no |-> data.no, date |-> data.date,
   doc |-> data.doc, bank |-> data.bank, lines |-> data.lines,
   prog |-> data.prog, status |-> data.status, rev |-> data.rev,
   prev |-> prev, hash |-> HashEntry(data, prev)]

-----------------------------------------------------------------------------
(* What a payload must satisfy before it is written.                        *)

Side(lines, side) == SumFunction([i \in DOMAIN lines |-> lines[i][side]])

Balanced(lines) == Side(lines, "debit") = Side(lines, "credit")

OneSided(l) == (l.debit = 0) # (l.credit = 0)

TouchesResult(lines) == \E i \in DOMAIN lines : lines[i].acct \in ResultAccounts

(* A mutant of SwapSides: the reversal repeats the original.                *)
KeepSides(lines) == lines

SwapSides(lines) ==
  [i \in DOMAIN lines |-> [acct   |-> lines[i].acct,
                           debit  |-> lines[i].credit,
                           credit |-> lines[i].debit]]

CreditNoteBooked(doc) ==
  doc \in CreditNotes /\ \E i \in Ids : entries[i].doc = doc

(* validateJournalEntryWithPolicy: `historical` is the import policy that   *)
(* waives the missing receipt, `linked` the bank transactions that carry an *)
(* append-only reconciliation link.                                         *)
ValidPayload(p, historical, linked) ==
  /\ p.date \notin locked
  /\ Len(p.lines) >= 2
  /\ \A i \in DOMAIN p.lines : OneSided(p.lines[i])
  /\ Balanced(p.lines)
  /\ TouchesResult(p.lines) => historical \/ p.doc # None
  /\ ~CreditNoteBooked(p.doc)
  /\ p.bank = None \/ p.bank \notin linked

(* A mutant of DatabaseAccepts: the reversal-shape trigger does not look at *)
(* earlier reversals.                                                       *)
DatabaseAcceptsAnyTarget(p, rev, linked) ==
  /\ rev = 0 /\ p.bank # None =>
       \A i \in Ids : IsOriginal(i) => entries[i].bank # p.bank
  /\ rev # 0 => rev \in Ids /\ entries[rev].doc \notin Invoices \cup CreditNotes
  /\ ~CreditNoteBooked(p.doc)
  /\ p.bank = None \/ p.bank \notin linked

(* The guards the database itself puts on a journal row: the unique index   *)
(* over posted bank sources, the reversal-shape trigger, the one-journal    *)
(* rule for credit notes, the ban on reversing invoice evidence and the     *)
(* conflict with an existing reconciliation link.                           *)
DatabaseAccepts(p, rev, linked) ==
  /\ rev = 0 /\ p.bank # None =>
       \A i \in Ids : IsOriginal(i) => entries[i].bank # p.bank
  /\ rev # 0 => /\ rev \in Ids
                /\ Active(rev)
                /\ entries[rev].doc \notin Invoices \cup CreditNotes
  /\ ~CreditNoteBooked(p.doc)
  /\ p.bank = None \/ p.bank \notin linked

(* The insert shared by applyJournalEntry and the reversal: id, number,     *)
(* chain link, row and lines, all under the write lock.                     *)
AppendEntry(p, lines, prog, rev) ==
  LET year == FiscalYear[p.date]
      no   == NextSequenceValue(year)
      data == [id |-> Len(entries) + 1, year |-> year, no |-> no,
               date |-> p.date, doc |-> p.doc, bank |-> p.bank,
               lines |-> lines, prog |-> prog, rev |-> rev,
               status |-> IF rev = 0 THEN "posted" ELSE "reversed"]
  IN  /\ Len(entries) < MaxEntries
      /\ entries' = Append(entries, Row(data, PreviousHash(entries)))
      /\ issued' = [issued EXCEPT ![<<companyKey, year>>] = no]

-----------------------------------------------------------------------------
(* Operations.                                                              *)

(* postJournalEntry and, with `historical`, postVerifiedHistoricalImport-   *)
(* Entry: validation and insert run in the same immediate transaction.      *)
PostJournalEntry(p, historical, linked) ==
  /\ ValidPayload(p, historical, linked)
  /\ DatabaseAccepts(p, 0, linked)
  /\ AppendEntry(p, p.lines, IF historical THEN "import" ELSE "manual", 0)
  /\ UNCHANGED <<companyKey, locked, pending>>

(* The receipt exemption is inherited only by a reversal of an imported     *)
(* voucher that has no document.                                            *)
FromImport(i) == entries[i].prog = "import" /\ entries[i].doc = None

ReversalPayload(i, date) ==
  [date |-> date, doc |-> entries[i].doc, bank |-> entries[i].bank,
   lines |-> SwapSides(entries[i].lines)]

ProtectedInvoice(i) == entries[i].doc \in Invoices \cup CreditNotes

(* reverseJournalEntry up to the write lock.                                *)
ValidateReversal(proc, i, date, linked) ==
  /\ pending[proc] = None
  /\ i \in Ids
  /\ IsOriginal(i)
  /\ ~ProtectedInvoice(i)
  /\ ~Reversed(i)
  /\ ValidPayload(ReversalPayload(i, date), FromImport(i), linked)
  /\ pending' = [pending EXCEPT ![proc] = [id |-> i, date |-> date]]
  /\ UNCHANGED <<entries, issued, companyKey, locked>>

(* A mutant of ApplyReversal: the period lock is not checked again.         *)
ApplyReversalUnchecked(proc, linked) ==
  /\ pending[proc] # None
  /\ LET i == pending[proc].id
         p == ReversalPayload(i, pending[proc].date)
     IN  /\ ~ProtectedInvoice(i)
         /\ DatabaseAccepts(p, i, linked)
         /\ AppendEntry(p, p.lines,
                        IF FromImport(i) THEN "import" ELSE "manual", i)
  /\ pending' = [pending EXCEPT ![proc] = None]
  /\ UNCHANGED <<companyKey, locked>>

(* reverseJournalEntry inside its immediate transaction: the protection and *)
(* the period lock are checked again, the rest is left to the triggers.     *)
ApplyReversal(proc, linked) ==
  /\ pending[proc] # None
  /\ LET i == pending[proc].id
         p == ReversalPayload(i, pending[proc].date)
     IN  /\ ~ProtectedInvoice(i)
         /\ p.date \notin locked
         /\ DatabaseAccepts(p, i, linked)
         /\ AppendEntry(p, p.lines,
                        IF FromImport(i) THEN "import" ELSE "manual", i)
  /\ pending' = [pending EXCEPT ![proc] = None]
  /\ UNCHANGED <<companyKey, locked>>

(* A reversal that loses a race, is rolled back by a trigger, or whose      *)
(* process dies leaves nothing behind.                                      *)
AbandonReversal(proc) ==
  /\ pending[proc] # None
  /\ pending' = [pending EXCEPT ![proc] = None]
  /\ UNCHANGED <<entries, issued, companyKey, locked>>

(* setCompanyProfile may correct the CVR number at any time; the fiscal     *)
(* configuration itself is frozen by companies_fiscal_lock.                 *)
SetCompanyKey(k) ==
  /\ k # companyKey
  /\ companyKey' = k
  /\ UNCHANGED <<entries, issued, locked, pending>>

(* What closing, and reopening, a period does to posting; Periods.tla has   *)
(* the workflow behind it.                                                  *)
LockDate(d) ==
  /\ d \notin locked
  /\ locked' = locked \cup {d}
  /\ UNCHANGED <<entries, issued, companyKey, pending>>

UnlockDate(d) ==
  /\ d \in locked
  /\ locked' = locked \ {d}
  /\ UNCHANGED <<entries, issued, companyKey, pending>>

-----------------------------------------------------------------------------
LedgerInit ==
  /\ entries = <<>>
  /\ issued = [s \in Keys \X Years |-> 0]
  /\ companyKey = FirstKey
  /\ locked = {}
  /\ pending = [proc \in Procs |-> None]

Next ==
  \/ \E p \in Payloads, historical \in BOOLEAN : PostJournalEntry(p, historical, {})
  \/ \E proc \in Procs, i \in Ids, d \in Dates : ValidateReversal(proc, i, d, {})
  \/ \E proc \in Procs : ApplyReversal(proc, {})
  \/ \E proc \in Procs : AbandonReversal(proc)
  \/ \E k \in Keys : SetCompanyKey(k)
  \/ \E d \in Dates : LockDate(d)
  \/ \E d \in Dates : UnlockDate(d)

Spec == LedgerInit /\ [][Next]_ledgerVars

-----------------------------------------------------------------------------
(* verifyAuditChain: what the audit recomputes from the stored rows.        *)

ChainLinked(es) ==
  \A i \in 1..Len(es) :
    LET before == IF i = 1 THEN "GENESIS" ELSE es[i - 1].hash
    IN  /\ es[i].prev = before
        /\ es[i].hash = HashEntry(CanonicalEntryData(es[i]), before)

ReversalsExact(es) ==
  \A i \in 1..Len(es) :
    /\ es[i].status = "reversed" <=> es[i].rev # 0
    /\ es[i].rev # 0 =>
         LET o == es[i].rev IN
         /\ o < i
         /\ es[o].rev = 0
         /\ es[i].doc = es[o].doc /\ es[i].bank = es[o].bank
         /\ es[i].lines = SwapSides(es[o].lines)
         /\ \A j \in 1..Len(es) : es[j].rev = o => j = i

EntriesBalanced(es) == \A i \in 1..Len(es) : Balanced(es[i].lines)

ReceiptsPresent(es) ==
  \A i \in 1..Len(es) :
    TouchesResult(es[i].lines) => es[i].prog = "import" \/ es[i].doc # None

(* The tail-truncation guard against the issued sequence values.            *)
NothingMissing(es, iss) ==
  \A s \in DOMAIN iss :
    LET rows == {i \in 1..Len(es) : es[i].year = s[2]}
    IN  /\ MaxEntryNoSuffix(es, s[2]) >= iss[s]
        /\ Cardinality(rows) >= iss[s]

(* Rows on one bank transaction, less the originals and the reversals that  *)
(* cancel each other.                                                       *)
BankUsedOnce(es) ==
  LET live == {i \in 1..Len(es) :
                 es[i].rev = 0 /\ ~\E j \in 1..Len(es) : es[j].rev = i}
  IN  \A i, j \in live :
        es[i].bank # None /\ es[i].bank = es[j].bank => i = j

VerifyAuditChain(es, iss) ==
  /\ ChainLinked(es)
  /\ ReversalsExact(es)
  /\ EntriesBalanced(es)
  /\ ReceiptsPresent(es)
  /\ NothingMissing(es, iss)
  /\ BankUsedOnce(es)

-----------------------------------------------------------------------------
(* Properties.                                                              *)

(* Type invariant: every row has its shape, numbers and references are in   *)
(* range, and a reversal in flight names a row that exists.                 *)
TypeOK ==
  /\ entries \in Seq(Range(entries))
  /\ \A i \in Ids :
       /\ entries[i].id = i
       /\ entries[i].year \in Years
       /\ entries[i].date \in Dates
       /\ entries[i].no \in Nat \ {0}
       /\ entries[i].rev \in 0..(i - 1)
       /\ entries[i].status \in {"posted", "reversed"}
       /\ entries[i].prog \in {"manual", "import"}
  /\ Len(entries) <= MaxEntries
  /\ issued \in [Keys \X Years -> Nat]
  /\ companyKey \in Keys
  /\ locked \subseteq Dates
  /\ pending \in [Procs -> [id : Ids, date : Dates] \cup {None}]

(* The audit of verifyAuditChain never raises an alarm about a journal that *)
(* only postJournalEntry and reverseJournalEntry have written, whatever the *)
(* processes interleave, lose or abandon.                                   *)
AuditAccepts == VerifyAuditChain(entries, issued)

(* The numbers issued in a fiscal year are 1, 2, 3, ... with no hole and no *)
(* duplicate, and grow with the row id, even when the CVR number, and with  *)
(* it the row of the sequences table, changes between two postings          *)
(* (nextEntryNo, nextSequenceValue).                                        *)
NumbersGapless ==
  /\ \A y \in Years : \E n \in 0..Len(entries) : EntrySuffixes(entries, y) = 1..n
  /\ \A i, j \in Ids :
       i < j /\ entries[i].year = entries[j].year => entries[i].no < entries[j].no

(* No step writes a row dated inside a locked period, although a reversal   *)
(* validated its date before the lock fell (KODE-4 of ledger.ts).           *)
NoEntryInLockedPeriod ==
  [][\A i \in (Len(entries) + 1)..Len(entries') :
       entries'[i].date \notin locked]_ledgerVars

(* The net movement of an account over a set of rows.                       *)
Movement(a, rows) ==
  SumFunction([i \in rows |->
    SumFunction([k \in DOMAIN entries[i].lines |->
      IF entries[i].lines[k].acct = a
        THEN entries[i].lines[k].debit - entries[i].lines[k].credit ELSE 0])])

(* The balance over all rows, reversals included, is the balance over the   *)
(* active originals: accountBalanceSnapshot and activeLedgerBalanceOre sum  *)
(* every row, the reconciliation controls look only at active ones.         *)
BalanceIsActive ==
  \A a \in Accounts : Movement(a, Ids) = Movement(a, {i \in Ids : Active(i)})

(* The journal implements the abstract book of active postings.             *)
Book == INSTANCE ActiveBook WITH
  count <- Len(entries), active <- {i \in Ids : Active(i)}

BookSpec == Book!Spec

=============================================================================
