# Rentemester in TLA+

Rentemester is a Danish bookkeeping system (TypeScript on Bun, SQLite). One
company is one SQLite file. The command line, the HTTP server, the MCP server,
the scheduled runners and the agent loop are separate operating-system processes
that open the same file; a second, workspace-wide SQLite file holds companies,
accounts, invitations and the shared document inbox. The legal promises of the
program (an append-only journal with gapless numbers and a hash chain, periods
that stay closed once filed, one piece of accounting evidence per bank
transaction) rest on three things: `BEGIN IMMEDIATE` transactions, SQL triggers
and unique indexes, and checks that TypeScript code makes *before* it takes the
write lock. Around them stand files, an identity service, an access point for
e-invoices and backups, none of which takes part in a transaction. The models
are about these meeting each other.

All modules are plain TLA+. Each process step that commits on its own is one
action; a `BEGIN IMMEDIATE` transaction, with the triggers it fires, is one
action; a check made before the transaction is an action of its own; so are a
call of an outside service, the publication of a file, and the answer to either.

## 1. The modules

| module | models (under `src/src/core/`) | in the runs of |
|---|---|---|
| `Ledger` | `ledger.ts`, `sequences.ts`, journal tables and triggers of `schema.sql` | `MCLedger` |
| `ActiveBook` | the promise of the journal: an abstract specification | `MCLedger` |
| `BankReconciliation` | `bank-journal-reconciliation.ts`, migrations 0006, 0033, 0035, the unmatched-transaction part of `exceptions.ts`; extends `Ledger` | `MCBank`, `MCOffice` |
| `Periods` | `periods.ts`, `period-close-readiness.ts` | `MCPeriods` |
| `RecurringDelivery` | `recurring-runner.ts`, the generation in `recurring-invoices.ts`, migration 0003 | `MCRecurring` |
| `OneShot` | the promise of the runner: an abstract specification | `MCRecurring` |
| `BankImport` | `bank.ts` | `MCOffice` |
| `Payables` | `payables.ts`, `expense-booking.ts`, the payable corrections and the adoption of old payments | `MCOffice` |
| `Receivables` | payments, settlement, refunds, credit notes, write-offs, reminders and compensation of invoices | `MCOffice` |
| `LateInterest` | `invoice-interest.ts` | `MCInterest`, `MCOffice` |
| `Drafts` | `accounting-drafts.ts` | `MCOffice` |
| `Idempotency` | `idempotency.ts` | `MCOffice` |
| `Batches` | `bookkeeping-batch.ts`, `posting-rules.ts`, `purchase-vat-preflight.ts` | `MCOffice` |
| `Schedules` | `accruals.ts`, `assets.ts` | `MCOffice` |
| `WorkspaceAccess` | `workspace-bootstrap.ts`, `workspace-invitations.ts`, `workspace-access.ts` | `MCWorkspace` |
| `ServiceCredentials` | `workspace-service-principals.ts` | `MCWorkspace` |
| `DocumentIntake` | `documents.ts`, `document-storage.ts`, `mail-intake.ts`, `imap-intake.ts`, `workspace-document-inbox.ts` | `MCWorkspace` |
| `Backups` | `system-backups.ts`, `backup-governance.ts`, `system-restore.ts` | `MCWorkspace` |
| `PublicEInvoice` | `public-einvoice.ts` and its transmitter | `MCWorkspace` |
| `Consolidation` | `intercompany-reconciliation.ts`, `consolidation-eliminations.ts` | `MCWorkspace` |
| `SchemaMigrations` | `db.ts`, `schema-version.ts` | `MCRegister` |
| `Issuing` | `issued-invoices.ts`, `invoice-booking.ts`, the issuing of credit notes | `MCRegister` |
| `VatReturns` | `vat.ts`, `vat-rubric.ts`, `vat-filing.ts`, `vat-vies-list.ts` | `MCRegister` |
| `HistoricalImport` | `opening-balance.ts`, `import/`; extends `DocumentIntake` | `MCRegister` |
| `DataProtection` | `gdpr.ts` | `MCRegister` |
| `Sums` | lemmas on sums, least elements and sequences, for the proofs | |
| `Office`, `Workspace`, `Register` | the components of one company's books, of the workspace, and of what happens to a register, side by side | the run of that name |
| `LedgerProofs` | theorems about `Ledger` and `BankReconciliation` | |
| `IntakeProofs`, `PeriodsProofs`, `RecurringProofs` | theorems about `DocumentIntake`, `Periods` and `RecurringDelivery` | |
| `OfficeProofs`, `WorkspaceProofs`, `RegisterProofs` | theorems about the components that the module of that name composes, and about the composition | |

Definitions keep the names of the functions they translate where TLA+ permits it
(`nextSequenceValue` is `NextSequenceValue`, `verifyAuditChain` is
`VerifyAuditChain`, `effectivePeriodState` is `EffectivePeriodState`). A
definition called "a mutant of X" is a plausible bug in X. No specification uses
it; it serves to show that a property notices the bug.

### How the modules are composed

`BankReconciliation` extends `Ledger` and `HistoricalImport` extends
`DocumentIntake`: there the two parts write the same tables, and every action of
the larger module says what it does to the state of the smaller one.

`Office`, `Workspace` and `Register` put components side by side that share no
table one of the properties speaks of; `MCOffice`, `MCWorkspace` and `MCRegister`
are their small instances. Their variable `part` names the component of a
behaviour; the others stand still. A behaviour of all of them moving together,
projected on one of them, is a behaviour of that one alone, so nothing is lost for
properties of a single component, and the state space is the sum and not the
product of theirs. `MCOfficeInit` and `MCRegisterInit` restrict the initial states
further: the invoice whose currency varies and the ledger with tables from before
vary only where `part` is the component that reads them, and batches start with
one or two purchases, their lines and a first rule in place (`MCBatchesReady`).

Where a component uses the journal but does not share the state of `Ledger`, it
keeps the journal entries *its* checks read, in posting order and with
reversals; that an entry once posted stays, that a row is reversed at most once
and that a unique index holds under a race are what `Ledger` shows.

### Ledger

| variable | in the code |
|---|---|
| `entries` | `journal_entries` with their `journal_lines`, in id order; a reversal row has `rev` = the id it reverses |
| `issued` | `sequences` rows of kind `journal_entry`, per company key and fiscal year |
| `companyKey` | the key `companySequenceScope` derives: the CVR number, else `company-<id>` |
| `locked` | the dates `validateJournalTransactionDate` refuses |
| `pending` | reversals a process has validated and not yet applied |

`PostJournalEntry` is `postJournalEntry` for the manual and for the historical
import policy: the posting rules (balance, at least two lines, receipts on result
accounts, credit notes and issued invoices), the period lock checked again under
the write lock, the unique index on the bank transaction, number, hash, insert.
`ValidateReversal` and `ApplyReversal` are the two halves of
`reverseJournalEntry`: the first reads outside the lock, the second locks,
rechecks the period and inserts, and the triggers of the schema stand between a
stale validation and a second reversal. `SetCompanyKey` is an update of the
company profile that changes the CVR number and, with it, the sequence row that
numbers entries. `LockDate` and `UnlockDate` are what `Periods` does to posting.

The hash of a row is the pair of what it covers: equal hashes mean equal contents,
the usual assumption for SHA-256. Left out: foreign-currency lines and rounding,
the non-cash and opening-creditor policies (they relax one posting rule each), the
repair reversal, and the text of an entry.

`ActiveBook` is what the journal promises its readers: a sequence of rows that
only grows by one, and a set of active originals to which a step adds the new row
or from which it removes one row for ever.

### BankReconciliation

| variable | in the code |
|---|---|
| `links` | `bank_journal_reconciliation_links`, append-only |
| `corrections` | `bank_reconciliation_correction_events`, append-only |
| `open` | bank transactions with an open `UNMATCHED_BANK_TRANSACTION` exception |
| `requests` | what a process has read, planned or begun outside the write lock |

`Effective(b)` is the view `bank_journal_reconciliations`: direct journals, links
and corrections of `b`, each with a typed identity (`direct:7`, `append-only:2`,
`correction:1`), less those some correction supersedes. `Post` and
`FinishReversal` extend the journal's actions with what the same transaction does
to the queue. `CheckLink`/`InsertLink`, `PlanCorrection`/`ApplyCorrection` and
`ReadUnmatched`/`RefreshStale`/`RecordUnmatched` are the three check-then-act
protocols: between the two halves any other process runs, and `Abandon` is a
refusal, a plan nobody applies, or a crash. The exception types other than the
unmatched bank transaction are left out.

### Periods

| variable | in the code |
|---|---|
| `row` | `accounting_periods`: status (`"none"`: no row) and filing reference |
| `events` | the `audit_log` rows of each period, oldest first |
| `decisions` | `period_close_decisions`, in id order, with `supersedes` |
| `openItems` | `period_close_open_items`, the blockers a forced close waived |
| `reviews` | the packets stored in `period_close_reviews` |
| `postings`, `control`, `open` | the books as the readiness controls see them, per day |
| `reopening` | the step a process has reached in `reopenAccountingPeriod` |

The row status is updated by a close or a report only; a reopen writes an event,
and `effectivePeriodState` replays the events over the row. `ClosePeriod`,
`ReclosePeriod`, `ReportPeriod` and `BackfillReference` are the branches of
`closeAccountingPeriod`, which runs in one `BEGIN IMMEDIATE` transaction.
`reopenAccountingPeriod` has no transaction. It is five actions, one per
statement that commits (`CheckReopen`, `AppendReopenEvent`, `SnapshotReopen`,
`ReviewReopen`, `DecideReopen`), and `CrashReopen` may end it after each.
`PostEntry`, `ImportBankLine` and `SettleDay` change the books around it.

Abstractions. A packet stands for its SHA-256 hash. The control accounts are one
value per day out of `Evidence`, of which `Mismatched` blocks the close; a control
that is *unavailable* blocks like one that is blocked and not waivable. The
waivable controls (unreconciled bank lines, open exceptions) are one set of days,
`open`. There is one VAT cadence, `Today` does not move, and callers close a VAT
period on its own window only. Rows of the kind `vat_quarter` from before the VAT
cadence existed are left out.

### RecurringDelivery

| variable | in the code |
|---|---|
| `active` | `recurring_invoice_templates` with `active = 1` |
| `nextIssue` | their `next_issue_date`, as the index of the period it is the date of |
| `generated` | `recurring_invoice_generations`, and the claims, which the same transaction writes |
| `documents` | how many invoices `issueInvoice` has made for a period |
| `latest`, `attempts` | what the code reads of `recurring_invoice_delivery_events`: the last event of a generation, and whether it has an `attempted` row |
| `ready`, `provider`, `sent` | outside: whether the preflight of a template would pass, what the provider made of a document, how often a document crossed the transport |
| `run` | the step a process has reached in `runRecurringInvoices`, with what it has read |

`StartRun` plans the missing periods under the cap, by template id and period.
`ReadTemplate` is what `generateRecurringInvoice` reads before its transaction, with
the copy of `next_issue_date` it later compares with; `IssueGeneration`,
`SkipGeneration` and `AbortGeneration` are the outcomes of the transaction, the last
one the exception of the trigger that forbids the date to go back, which ends the
whole run. `ReadCandidates` is `deliveryCandidates`. Each candidate is then an await
at a time: `PreflightFails` or `Reserve`, `Transmit`, `RecordOutcome`, or `Observe`.
`GenerateOne` is the direct command for a single period (any process may give it,
only `Schedulers` start runs), `Retire` retires a template, and a process may
`Crash` between any two steps. A status answer may be older than the provider's
state, and `deliver` may fail before or after the document has crossed.

Abstractions. A date is the index of its period, and a caller may ask for any;
the arithmetic of `periodIndexAsOf` is left out. The planning reads of a run are
one step, and so are the candidate reads of all templates, though the code reads
template by template. Whether a preflight passes is a property of the template,
read at the step that uses its result. All templates exist from the start. Every
run has an adapter, as both callers see to it. `OneShot` is the promise: an
invoice is issued at most once, and sent at most once after that.

### The office: components of one company's books

**BankImport.** `transactions` are the rows of `bank_transactions`, `unchecked`
what an import has inserted and not yet walked, `breaks` the balance-break
exceptions, `exports` the statements imported so far (a history variable),
`active` the account. `ImportRows` is the insert transaction,
`VerifyContinuity` the walk after it, `CrashImport` the death between the two. A
row is recognised by its content and its occurrence *within its own file*. A file
is any choice of the account's movements, oldest or newest first, and `NewRows` is
the loop over it.

**Payables.** `journal` with reversals, `lineEvidence` (the document and journal
a bank line is evidence of), `payables`, `payments`, `paying` (a clerk between
`CheckPayment` and `PostPayment`) and `settled`. Bills are registered or posted
in the old form, expenses booked from a line, receipts paid at once, purchases
corrected into payables, old payments adopted, entries reversed.

**Receivables.** One invoice: `rows` are all dated rows (payments, settlements,
refunds, credit notes, write-offs) in posting order, `claims` the reminder fees
and compensations, `received` and `used` what the bank brought and what of it is
spent, `reminding` a clerk inside a reminder. Since a row may carry a date
before an earlier row's, the order of the journal is not the order of the dates;
each later reading rebuilds what an earlier row rested on. A receipt for the
claims of the invoice rests on *all* of them: `received` keeps how many there
were, and `ReceiptsStand` is what `invoice-journal-evidence.ts` asks of it at every
later reading. A reminder is checked and inserted without a transaction, so one
may be inserted after a receipt it precedes; that reading then fails. Interest
claims are left to `LateInterest`, and reversals of these journals are left out.

**LateInterest.** `paid`, `credited`, `changes` (reference rates), `interest`
(the claims with the days and the rate they were made with),
`interestCorrections`, `receipts`. A claim covers days by the balance of each
day; payments may be dated back before it.

**Drafts.** `register` (events of a draft, append-only), `postable` (what a
payload would now post), `journals`. The hash of an event is its place in the
register.

**Idempotency.** `outcomes` (prunable), `tombstones` (not), `effects`, `calls`
and `today`. `Decide`, `Execute` and `Replay` are one request; the caller may
lose any answer and ask again.

**Batches.** `facts` (evidence of documents), `imported`, `vatOk`, `rule` and
`deciding` (the life cycle of the versions of a posting rule with its two-step
transition), `planning`, `booked`, `runs`. `rule` keeps the last event of each
day a decision takes effect on, and a rule counts as of the day of the *invoice*
(`InForce`), not as of now. `planBookkeepingBatch` has no transaction and is three
reads: the pairs (`SuggestPairs`), their items (`ReadItems`), and the sources and
the universe with which the run is written (`CreateRun`); anything may happen in
between, also a purchase booked by hand. A plan is drawn up as of no run yet
(`NoPlan`), so nothing of it is ignored; an application leaves its own entries out
when it compares. `ApplyRun` is one transaction in which any of the open items may
fail and is rolled back to its savepoint; a further application takes up what has
no receipt. `drift` counts the changes around a plan and is only a bound.

**Schedules.** `books` and `reversals` of the schedule's postings, `registered`,
`released`, `writeOffs`, `review` and `checked` (a process between a check and
its posting).

### The workspace: components around the books

**WorkspaceAccess.** `boot` is the saga of the first user, `operator` an operator
between its reads, the identity service and its writes, `invitation` the
invitations; `identities`, `secured`, `access`, `member`, `archived` the rows
they make. The lookup of an identity, its creation and the mail are steps
between the transactions.

**ServiceCredentials.** `events` (append-only operation events), `step` and
`target` of a call in flight, `keys` and `disabled` at the provider, `claims`
and `recovering`. A call or its recovery may die after every write, and a recovery
may claim an operation whose call still runs; `early` remembers (the code does not)
which were claimed before their key had been issued.

**DocumentIntake.** `files` beside `documents`, `writer` (a process between its
file and its row), `mailQueue`, `seen`, `handled`, and for the inbox of the
workspace `assignment` and `handoff` with claims that expire.

**Backups.** `originals` and `rows` of a ledger and its documents, `backups`,
`backupJob`, the governance (`enforced`, `offsite`, `placements`), and
`restoreTarget` with `restores`: staging, validation, removal, rename.

**PublicEInvoice.** `submissions`, `deliveryLog` (append-only), `sending` and
`watching` (calls in flight), `remote` and `posts` at the access point. A post
may be taken and its answer lost.

**Consolidation.** `books` holds the rows of two companies' ledgers in the order
of their commits, `mappings` the state of each mapping of accounts between them,
`eliminationLog` the append-only events of the eliminations, and `deriving` the
payload a command is deriving. A command is one transaction of the control
database and so alone; the two ledgers are other files, read one after the other
by three statements each (entries the audit counts, lines, head), while both
companies post and reverse. An approval and an application derive the payload
again and are refused when it is not the proposed one.

### The register: the company's file as a whole

**SchemaMigrations.** `history` of applied migrations, `loose` (its table is the one
without strict columns) and `readRows` (what a process has read of that table and
is about to rebuild it from), `built` (how often each migration committed), `old`
and `disputed` tables, `body` of each guard, `opener` (a process at its step of
opening the file), `mixed` (programs of two versions were opening it at once),
`doubled` (two processes set out to rebuild the loose table), `crashes`. What a
step finds is read outside the transaction that acts on it: `InspectTable` and
`RebuildTable`, `RecheckHistory` and `UpgradeHistory`, `LookForNext` and `Migrate`.
The blocks at the end of an opening run in the order of the code; which of two
blocks on one trigger is meant to win is finding 2.

**Issuing.** `issuedDocs`, `numberOf`, `issuedFiles`, `writeLock`, `attempts`,
`clerk`, `invoiceJournals`, `posting`, `deaths`, `unread`: files are published
before the row commits and taken back after a commit that failed or seemed to. A
credit note takes the next number of its series or a name chosen by hand
(`ChosenNames`), which draws nothing and may look like an invoice's; rows and files
of all documents share one set of names.

**VatReturns.** `vatEntries` in posting order with reversals, `returnState` per
period, `onSalesList` (the foreign invoice is issued, on a date in `ForeignPeriod`;
its booking is a later step), `credited` and `writtenOff` of invoices. Amounts are
in øre with `Krone` as the unit of a return.

**HistoricalImport.** `openings` and `marker` (the primobalance), `vouchers`,
`archive`, `accepted`, `rejected` and `importer`, besides the files and documents
of `DocumentIntake`.

**DataProtection.** `parties`, `texts`, `retained`, `erasures`, `asked`, `erased`,
`requests`: who a row is about is found by name and by company number. An erasure
resolves its subject before the transaction that erases (`ResolveErasure`,
`EraseSubject`), and rows come and change in between; the several reads of
the first half are one step.

## 2. The runs

| run | what moves | bound | what it shows |
|---|---|---|---|
| `ledger` | 2 processes, 2 fiscal years, 2 sequence keys, 5 payloads of which several must be refused | 3 rows | the audit accepts every reachable journal; numbers gapless; balances equal active balances; nothing enters a locked date; `ActiveBook` is implemented |
| `bank_reversed` | 1 process | 3 rows | finding 1 |
| `periods` | 2 processes that reopen and may die, one VAT period of one day that an old program may have reported, 2 filing references | 4 events, 2 reviews | reported is terminal with one reference; a lock rests on a reviewed packet and leaves its waived blockers on record |
| `periods_overlap` | 1 process; a VAT period and two custom periods that overlap it and each other, one ending after today | 3 events a period | periods of a kind stay disjoint; reported books are frozen |
| `recurring_delivery` | 2 processes, 1 template | 2 periods, 1 crash | `OneShot` is implemented; `next_issue_date` follows the last generated period |
| `recurring_fair` | 1 scheduler and 1 person, 1 template | 2 periods, 1 crash, cap 2 | liveness: every due period is generated, attempted and followed to the provider's answer |
| `office` | nine components: two processes each in the bank evidence, the drafts, the requests, the payments, the batches and the schedules, one importer of statements and one collector of claims | see below | the properties of the office components |
| `interest_rate_change` | `LateInterest` with a change of the reference rate | 3 days, 2 claims | finding 3 |
| `workspace` | six components, with crashes between any two steps of those that call, copy or publish; one restorer of backups | see below | the properties of the workspace components |
| `register` | five components: two openers of a ledger and two clerks that issue, who may die, two importers, one erasure at a time | see below | the properties of the register components |
| `schema_own_guards` | `SchemaMigrations` with two openers and two programs | as in `register` | finding 2 |
| `vat_credited_sale` | `VatReturns` | 2 periods, 3 entries | finding 4 |

**Why the bounds are enough.** In the journal a violation needs at most an
original, its reversal and one more row (a second reversal, a second use of the
bank transaction, a number after a key change): three rows, and two processes
because every hazard is a pair of steps around another process's commit. The same
three rows suffice for *book, reverse, replace* of bank evidence in `office`,
with two links. A period needs four events for *close, reopen, close or report*,
and a forced close uses one event more. In `periods` an import moves the control
account as a posting would, so postings are left to `periods_overlap`. The
runner's hazards are two runs over one document, or a run and a direct call over
two periods of one template, of which the later is generated first; the state of a
run holds all it has read, so a second process and two periods give every stale
list. The cap of two in `recurring_fair` never binds with two periods, so the run
says nothing of rejected periods that use the cap up (section 5).

In `office`: statements are cut from a history of four movements, two of them equal,
so that two files may overlap, repeat or split the pair; five entries hold a bill, a
payment, a correction and their reversals; three rows of an invoice are the fewest
in which two rounded shares and a later, back-dated row meet, for an invoice in DKK,
one in a currency that has risen and one in a currency that has fallen; one claim
bounds the checks and not the inserts, so a reminder checked before the claims were
paid still arrives as a second one after the receipt; five draft events are *create,
submit, reject, revise, submit* before the approval; two documents and two lines
make an item of a batch stale by a document, by a line and by the other item, the
facts of a document change once and its day with them, two rule versions and two
days (`RuleDays`) let the second version follow the first from the later day on,
before or after the invoice's, and three changes (`MaxDrift`) of the sources are one
before, one during and one after the planning; two days of requests are one pruning;
four postings write off a schedule half way and reverse a part. In `workspace` two
credential operations replace one another's key, two firms claim one content, two
moments let a backup age, six delivery events hold two attempts with a lost answer
and a status query, three rows and three events are a balance that moves between a
proposal, its approval and its application. In `register` an older and a newer
program (schema versions 2 and 4) open one ledger; three attempts of two clerks with
one death meet each other's files, under drawn numbers and under two chosen names,
one of its own and the one the second invoice will have; two periods and three
entries hold a sale, its credit and a reversal; one erasure that resolves, waits and
erases leaves a name or number room to change before and after it; two Dinero
exports share a receipt and a third source competes with them.

Processes are interchangeable in every module. The runs with two of them use that
symmetry, except `recurring_fair`: it checks liveness, for which symmetry
reduction would be unsound.

Deadlock is checked in the runs of `Ledger`, `BankReconciliation`, `Periods` and
`RecurringDelivery`, where imports, key changes, unlocking or the next run are
always possible. In the compositions and in the two runs of one of their
components it is not: a finite set of requests, rows or attempts ends there, and
a system with nothing left to do has not failed.

**Fairness.** Only the runner has a schedule: `recurring-workspace.ts` says that
production calls it "normally once daily". `FairRecurringSpec` therefore assumes,
for each process: a run that has begun goes on (weak fairness of `RunStep`, until
a crash); the scheduler keeps calling with the current date (strong fairness of
`StartRun` at `LastIndex` for each member of `Schedulers`, strong because a crash
or a direct call may intervene each time); and a provider that has finished with
a document and is asked again and again says so one day (strong fairness of
`Observe` with a final answer, which without it could fail for ever). Nothing is
assumed of people, of crashes or of the preflight. Everywhere else what the code
leaves undone after a crash (an unmatched transaction between
`resolveException` and `recordException`, a reopen without its decision, a
submission in progress) is repaired, if at all, by a person or by a command that
no scheduler forces; the properties there are safety and action properties.

### Properties

Each module has one type invariant (`TypeOK`, `PeriodsTypeOK`; `RecurringTypeOK`
is only proved; `OfficeTypeOK`, `WorkspaceTypeOK` and `RegisterTypeOK` join
those of their components). The others, each explained where it is defined:

| property | of | what it says |
|---|---|---|
| `AuditAccepts` | `Ledger` | `verifyAuditChain` recomputes hashes, reversals, receipts, numbering and single use of bank transactions, and accepts whatever the processes interleave; a false alarm in an append-only journal could never be repaired |
| `NumbersGapless` | `Ledger` | the numbers of a fiscal year are 1..n although a new CVR number starts a new `sequences` row |
| `NoEntryInLockedPeriod` | `Ledger` | no step writes a row on a locked date, although a reversal validated its date before the period was closed |
| `BalanceIsActive` | `Ledger` | sums over all rows equal sums over active rows, which parts of the code use interchangeably |
| `BookSpec` | `Ledger` | the journal implements `ActiveBook`: it grows by one row, and an active original leaves for ever |
| `EvidenceSound` | `BankReconciliation` | a movement has at most one effective reconciliation and one live booking, and every link was verified |
| `QueueLosesNothing` | `BankReconciliation` | an exception leaves the queue because its movement got its evidence in that step, because a person resolved it, or because a sync still under way owes it a new text; never otherwise |
| `DecisionsHaveEvidence` | `Periods` | every decision rests on a reviewed packet of its own window, no lock on a blocker nobody may waive, and what was waived stands as an open item |
| `ReportedIsTerminal`, `ReportedBooksFrozen` | `Periods` | a filed period keeps its state, its reference and its books, even while another process reopens it |
| `SameKindDisjoint` | `Periods` | periods of one kind never overlap |
| `NextDateFollows` | `RecurringDelivery` | the next date is the one after the last generated period although it is computed from a copy read before the lock |
| `PromiseSpec` | `RecurringDelivery` | a period has one invoice and it crosses the transport at most once (`OneShot`) |
| `InvoicesArrive` | `RecurringDelivery` | each due period is generated; its invoice is attempted once the transport is in order, an interrupted attempt stays known, and an accepted document is followed until the provider has an answer |
| `StoredIsTheFullestExport` | `BankImport` | of each content there are as many rows as the fullest single export holds: none lost, none doubled, whatever overlaps |
| `LinePaysOnce` | `Payables` | at most one live entry pays with a bank line, and it is the one the line is evidence of |
| `ReliefStands` | `Receivables` | VAT taken back by credit notes and write-offs is exact when the invoice is closed, and evidence accepted when a row was booked is accepted by every later reading; a receipt for claims is, until a reminder checked before it comes after it, and nothing else does |
| `NoDayBilledTwice` | `LateInterest` | no day of a balance is billed twice, net of corrections |
| `ReviewedIsPosted` | `Drafts` | what is posted is the current version, submitted, seen by someone who wrote none of it, once |
| `EffectOnce` | `Idempotency` | a key takes effect at most once and every answer is true, through retries and pruning |
| `BatchBooksWhatWasReviewed` | `Batches` | what an application books is what the approver saw, from evidence that has not changed since, by the one rule in force on the day of the invoice |
| `RegisterIsTheLedger` | `Schedules` | what the register says is left equals what is parked in the ledger, never below zero, and is released to the last øre |
| `OneFirstIdentity` | `WorkspaceAccess` | the bootstrap makes one first user with one identity, through crashes and retries |
| `OwnersRemain` | `WorkspaceAccess` | no order of disabling, accepting and archiving leaves a company or the workspace without an owner, except when a user gives up the second factor |
| `NoSurpriseKey` | `ServiceCredentials` | a recovered operation leaves no key that works, unless its recovery came before its key was issued; a completed one leaves none of the credential it replaced |
| `IntakeIsComplete` | `DocumentIntake` | a document has its file, a mail is handled or still there, an inbox document is handed over once |
| `RestoredIsWhole` | `Backups` | a restored ledger holds the rows of one finished backup and the file of every document among them |
| `TakenOnce` | `PublicEInvoice` | the provider takes a document at most once, and "delivered" is true |
| `EliminationsWereTrue` | `Consolidation` | what was approved or applied is a balance both ledgers showed at one moment, although neither stands still while it is read |
| `SchemaStands` | `SchemaMigrations` | the history says what was applied, each once and in order, and at rest each guard is what the last block on it made it, unless two processes rebuilt the loose history table |
| `InvoicesStand` | `Issuing` | an issued document keeps its name and its files, drawn numbers are 1..n beside the names chosen by hand, no invoice is credited beyond itself, and it is booked once by an entry that fits it |
| `OnlySharesStopReturns` | `VatReturns` | rounding alone never stops a return; only a partial share of a credit note or write-off can exceed the tolerance |
| `DeclaredOnce` | `VatReturns` | a final return does not change, and all periods together declare exactly what was not taken back |
| `CutoverStands` | `HistoricalImport` | at most one export is accepted; its vouchers, archive and receipts are all there, and a failed import leaves none |
| `ErasedStaysErased` | `DataProtection` | what an erasure had resolved stays redacted in every later report, under names and numbers that came between its two steps or afterwards |

### Findings

Each is a disagreement of the program with a sentence in its own source, which a
run shows.

1. `bank_reversed`. `periods.ts:571` says that a reversed entry makes its bank
   transaction unreconciled again. The view keeps the reversed journal as the
   effective reconciliation until somebody applies a correction, so neither the
   exception queue nor the close guard sees the transaction.
2. `schema_own_guards`. `purchase_posting_applications` once permitted an update in
   place; the program is to "reassert a strict append-only application ledger on
   every open instead" (`schema-version.ts:465`). Seventy lines on, the block of the
   eleventh migration (538-549) drops that trigger and creates the weaker one of the
   migration again, also on every open: each opening of a ledger with all migrations
   ends with the trigger that allows the update of a row not yet posted.
3. `interest_rate_change`. A second claim is said to re-bill no day an earlier one
   covered (`invoice-interest.ts:361`). The earlier claim was computed with the
   window split where the reference rate changes, and is later recomputed at the
   one rate stored on it. Two claims suffice, with nothing paid or credited in
   between: the second finds the difference for the days before the change and
   bills it, though no balance changed.
4. `vat_credited_sale`. The field for goods off the sales list "must never be used
   to make the check pass" (`vat-filing.ts:198`). The list adds up invoices and
   ignores credit notes, the base does not; a listed sale credited in full leaves
   a return that passes only with the opposite amount in that field.

## 3. The theorems

Proved with TLAPS for all values of the constants, under the named assumptions of
the modules (`LedgerAssumption`, `PeriodsAssumption`, `RecurringAssumption` and
their like), which TLC evaluates in every run. Each theorem about a component is
`Spec => []P` or `Spec => [][A]_vars` and rests on an invariant that is inductive;
below is what that invariant adds, and why `P` alone does not go through. TLC has
checked each invariant on a small instance before its proof.

What the assumptions say beyond types: `SchemaAssumption`, that there is a last
version, that the guards a program reasserts are a sequence and do not include the
guard of the last migration (`db.ts:494`); `BatchesAssumption`, that what marks an
entry made by hand and an absent run is no run, plan, person or transition, and that
each version of a document's facts has a day; `IssuingAssumption`, that a chosen
name is not one of the numbers a credit note would draw; `DataProtectionAssumption`,
that names and company numbers differ, and that master rows, sides of papers and
bank texts are different places; `VatAssumption`, that no voucher is booked under
the code of a bad debt, which only `invoice-bad-debt.ts` posts; `PeriodsAssumption`,
that rows older than the program do not overlap within their kind.

**Sums.** What the proofs share: sums of a function over a finite set (unfolding,
adding, removing, renaming, comparing), least and greatest elements, the first or
last place in a sequence. The folds of the community modules are functions, so
their values can be reasoned about; the provers have no induction over data, so
each fact is proved from a smallest set for which it fails, by `WFMin`.

**LedgerProofs.** The invariant `LedgerInv` is `TypeOK /\ NumberInv /\ RowInv`.
`NumberInv` relates the `sequences` rows to the journal: for each year there is
an n such that the suffixes are 1..n, numbers grow with the id, and *no* sequence
key has issued more than n. The last part is what `NumbersGapless` lacks to be
inductive: without it the value of an old key could overtake the rows when the
company returns to it. `RowInv` says of each row, in terms of the rows before it,
what `VerifyAuditChain` says of the whole journal; it is preserved by appending
because every action only appends. `LedgerInvariant` proves it invariant.
`TypeCorrect`, `NumbersAreGapless` and `AuditAlwaysAccepts` follow;
`LockedPeriodsStayClosed` and `LedgerImplementsBook` are step properties under
it, the second by the refinement mapping `count <- Len(entries)`, `active <-`
the originals nobody reversed. `BalancesAgree` needs that a reversal carries the
lines of its original with debit and credit exchanged: it then adds the opposite
of what it takes out of the active rows.

The bank evidence stands in the same module. `BankInv` is `LedgerInv` with
`EvidenceFacts` and the types of what processes have read. Each index and trigger
looks at one table, so that there is one evidence has to go through all three: every
correction is rooted in a direct journal or a link of its transaction, the two
exclude each other, and what is superseded is reversed. Hence a correction finds
nothing in force and a link finds nothing at all. `EvidenceStaysSound`,
`QueueIsKept` and `BankTypes` follow.

**PeriodsProofs.** `PeriodsInv` joins row and reopen types, `SameKindDisjoint` and
`RowsFollowEvents`: a period without a row has no event and no decision, and a
row that reads `closed` over a `period_report` event carries no reference. The
first clause is needed because `ClosePeriod` guards on the missing row while the
effective state is read from the events; the second because `BackfillReference`
writes a reference and must not overwrite one. From it follow
`SameKindStaysDisjoint`, `ReportedStaysReported` (a report event is never removed
and absorbs every later one, and each of the actions that write `row` is disabled
or keeps the reference) and `ReportedBooksStayFrozen` (a reported row is locked
on all its days, whichever other period covers them). `EvidenceInv` adds what
packets, reviews, decisions and reopens in flight say of each other. The packet of
a decision may come from elsewhere (a report takes that of an earlier decision, a
reopen carries its own over its commits), so the invariant says where it is in
the meantime: a reopen has a packet of its own window from its third step on, and
that packet is stored from the fourth.
`DecisionsRestOnEvidence` and `PeriodsTypes` follow.

**RecurringProofs.** `RecurringInv` is `TablesOK /\ LogOK /\ RunsOK /\ OneHolder
/\ NextDateFollows`. The promise is not inductive: a process between its
reservation and the call of the transport must know that nobody has sent the
document. So `RunsOK`
says that a held document has its `attempted` row and is unsent exactly until
`Transmit`, `TablesOK` that what was sent was attempted, and `OneHolder` that no second
process holds it. `NextDateFollows` needs from `RunsOK` that the copy of the next
date a run carries is never ahead of the stored one: then a date that is later
than the copy and not refused by the trigger is at least the stored one, and
one that is not written is not later than what is stored. `RecurringTypeCorrect`,
`OneHolderAlways` and `NextDateAlwaysFollows` are parts of it, and
`RunnerKeepsPromise` is the refinement of `OneShot`, step by step under it.

**OfficeProofs.**

- *Idempotency.* The executor looks at tombstones, never at effects; so `EffectOnce`
  needs that the two are one list without repetition, whatever was pruned, and
  that an answer under way rests on a tombstone with its request.
- *Drafts.* A draft has one current version (`DraftsHaveCurrent`), a version names
  one payload (`VersionsHaveOnePayload`, behind "what was seen is what is posted"),
  and nothing follows a posting (`PostedIsLast`).
- *Payables.* `LinePaysOnce` is inductive together with the types: the journal only
  grows, so no reversed entry comes back, and each action that pays with a line
  looks for its evidence inside the transaction.
- *Schedules.* The journal and the registers list the same recognitions and
  write-offs, each once. The sum the ledger holds is then the register's sum by
  renaming, which no invariant about sums alone would give.
- *LateInterest.* What is billed is compared with the interest of all days taken
  once, which is a sum over windows of days; the program sums windows too, cut where
  the balance changes, and rounds at the end. The proof splits a window into its
  days, joins the windows of the claims before it (`ClaimsInOrder`), and rounds once.
  The sums agree only if no claim reaches across a change of the rate:
  `DaysAreBilledOnce` assumes that of all states of a behaviour
  (`ClaimsWithinOneRate`), and `SteadyRateBillsOnce` shows that it holds when the
  rate is steady while the invoice is overdue. Neither can be dropped; the run
  `interest_rate_change` is the counterexample. `InterestStaysCovered` needs neither.
- *Batches.* The reads of a plan agree on nothing but what they cannot get wrong: its
  items have each document and each line once and their lines are imported
  (`ItemsStand`, from the first read on). All else the application finds again: the
  sources and the universe are those stored last, so what was overtaken while the
  plan was read is refused, and what was stored holds now. Entries of other runs are
  in neither universe or in both; entries of the run itself are items with a receipt
  (`BookedInPlan`). Hence an item without a receipt books a line that nothing has
  booked, and a document that nothing has booked but what the plan lists.
- *BankImport.* No two rows of an account agree in content and occurrence, and the
  occurrences stored are those that some imported file reaches
  (`RowsReachTheExports`). Occurrences in a file are 0 to n - 1 without a gap, so as
  many rows are stored as the fullest file holds. The loop of an import is a
  recursive function; what it inserts is shown by its least place of failure.
- *Receivables.* A back-dated row changes what an earlier one is read against. Once
  something is written off, the write-off that is last by date speaks of all
  relief; before that the VAT given back is, at each credit note, the share of what
  is credited up to it, so each note gets a difference of two shares and the last
  one the rest. A receipt found every claim there was, posted and effective
  (`ReceiptsBacked`); from then on nothing is open and nothing allowed opens it
  again, so what claim still comes is a reminder that some clerk had checked before,
  one of each clerk at most.

**WorkspaceProofs.**

- *ServiceCredentials.* A key is issued once (`KeysAreIssuedOnce`), what is replaced was
  issued before (`TargetsWereIssued`), a call whose key is still to be issued is
  pending or was claimed early (`RunningIsPending`), and a recovery of any other has
  the key in what it scanned (`RecoveryKnowsItsKey`). `SettledKeysAreSettled` has no
  hypothesis: a recovery beside a running call is harmless once the key is there.
- *PublicEInvoice.* A sender in flight holds the last event of its key
  (`SendersHoldTheirKey`), status queries are about queued submissions
  (`WatchersFollowQueued`), and what the provider has taken blocks a further
  attempt (`TakenIsBlocked`).
- *Consolidation.* A count that is the same twice means that the ledger stood still
  between, since rows are only added. A proposal and an approval with equal
  payloads have equal counts around the moment between them, so all six readings
  are true at that moment.
- *WorkspaceAccess.* The bootstrap reserves one address and all operators act for
  it; everything else waits for `access_completed`. `OwnersStay` is a step property.
- *Backups.* The files are copied after the snapshot and files never disappear, so
  they cover its rows; a listed backup is not written again; a staging directory
  is a copy of one listed backup.

**IntakeProofs.** A published file without a row has one owner, the writer that
published it, and only the owner removes it; a source is found by its content
before it is registered.

**RegisterProofs.**

- *HistoricalImport.* The receipts an import has published have the import as that
  owner, beside the writers of the intake. At most one import is landing its rows,
  and it does so in a ledger without a primobalance.
- *SchemaMigrations.* Every guard that is not yet what it says is in the hands of
  somebody: an opener that has not come to it, or one that is about to create what
  it dropped; while programs are not mixed there is one such opener. While the
  history table is loose nobody is past it, and an opener that is about to rebuild
  it holds all its rows as long as no other is (`LoneRebuild`); what anybody has read
  in it has run (`RowsRan`), so that even a second rebuild tells nothing false, only
  less.
- *VatReturns.* Every line but a share of the domestic invoice is rounded by itself,
  so k lines deviate by (k+1)/2 øre at most and representation by 0.625 (k+1),
  which is within the tolerance; the tolerances of the parts fit that of the
  whole. For `VatIsDeclaredOnce`: an entry changes the figures of one period, which
  is open, and a reversal takes back one entry that nothing had taken back.
- *Issuing.* The first file of an attempt bars every other attempt at its number, until
  it is removed; so at most one attempt at a number has files, a commit finds all
  of its own, and what is removed belongs to no document and to no other attempt. The
  argument is about names and not about numbers, so it covers names chosen by hand;
  that the drawn numbers have no gap rests on the counter moving inside the
  transaction that commits the row, and on a chosen name drawing nothing.
  Credit that is left inside the transaction is left at the commit, since the lock
  is held.
- *DataProtection.* An erasure writes its tombstone under several keys, of which
  later requests may lose some when a subject gets another name or number. One of
  them lasts (`LastingKey`): the row's own key for a master row and for a side of a
  paper without a company number, the number for a side that has one, and what a
  bank text mentions. The invariant is that each erased row has its tombstone under
  that key, and that a request that has resolved its subject holds that key for
  each row it found, whatever changes before it writes (`AskedHolds`);
  `ErasureIsForGood` then shows that every later report looks for it.

**The compositions.** `OfficeRunsItsParts`, `WorkspaceRunsItsParts` and
`RegisterRunsItsParts` show that a behaviour of a composition is, in the variables
of each component, a behaviour of that component. With them the theorems about the
components carry over: `OfficeTypes`, `WorkspaceTypes` and `RegisterTypes` are the
joined type invariants, and `OfficeKeepsItsBooks`, `WorkspaceStands` and
`RegisterStands` say that the components keep all their promises together, except
the one that has a hypothesis (`NoDayBilledTwice`).

**Only model-checked.** Every invariant and every step property of the runs that
pass is stated by a theorem. What stays with TLC is `InvoicesArrive`, since liveness
is out of the prover's reach, and the assumption of `MCPeriods` that the closed form
of the event replay equals the loop of the code, since the loop is a RECURSIVE
operator.

## 4. The system

Every part, with its state, its operations, what is hard about it and what makes
it correct. **M** modelled, **P** partly, **-** not. PROJECT.json says for each what
the modules leave out.

- **Journal and audit chain** (P). Journal rows, lines, sequences, hash chain.
  Post, import, reverse, verify. Hard: validation before the lock, triggers as the
  last line, numbers over a key change. Correct: append-only, balanced, gapless,
  chained, audit without false alarms.
- **Bank reconciliation evidence** (M). Links, corrections, the view. Hard:
  check-then-act, chains of corrections. Correct: one evidence per transaction.
- **Accounting periods and close readiness** (P). Rows, events, packets, reviews,
  decisions, open items. Hard: event replay over a row, the reopen without a
  transaction. Correct: reported is terminal, locks rest on evidence.
- **Exception queue** (P). Open cases and their resolution. Hard: filled from a
  list read earlier. Correct: no case lost, one per cause.
- **Sequences and company profile** (P). Per key and year counters. Correct: no
  gap, no repeat.
- **Audit log and actors** (P). Append-only events with an actor.
- **Bank import and matching** (P). Accounts, statement lines, batches. Hard:
  overlapping statements, equal lines. Correct: a movement is stored once.
- **Payables and expenses**, **bank payable corrections** (P). Bills, payments,
  booking routes that exclude each other. Hard: two clerks, reversal of one of
  several entries. Correct: a bank line pays once.
- **Invoices: issuing** (P). Numbers, files, booking, repair. Hard: files beside
  the transaction. Correct: an issued document stands, booked once.
- **Invoices: receivables and claims** (P). Payments, credit notes, write-offs,
  reminders, compensation. Hard: back-dated rows, rounded shares, currency.
  Correct: evidence stays valid, VAT relief exact.
- **Invoices: late interest** (M). Correct: no day billed twice.
- **Accounting drafts** (M). Correct: posted as reviewed by somebody else.
- **Bookkeeping batches and posting rules** (P). Plan, approve, apply with a receipt
  per item. Hard: stale approvals, partial application.
- **Idempotent mutations** (M). Hard: a retry after a lost answer, pruning.
- **Recurring invoices and delivery** (P). Hard: two runners, a crash between
  attempt and outcome. Correct: one invoice a period, sent at most once, in the end.
- **Accruals, assets and mileage** (P). Schedules of postings. Correct: the parts
  add up to the whole.
- **VAT** (P). Report, form, sales list, returns. Hard: rounding, tolerance,
  later reversals. Correct: everything declared once.
- **Documents and mail intake**, **workspace inbox** (P, M). Hard: files beside
  rows, redelivered mail, two databases. Correct: no row without its file, no
  mail lost, one handoff.
- **Electronic invoicing** (P). Hard: unknown outcomes. Correct: taken once.
- **Workspace access, bootstrap and invitations**, **service credentials** (M).
  Hard: external calls between transactions. Correct: one first identity, owners
  remain, no surprise key.
- **Backup, restore and snapshots** (P). Hard: crash in between. Correct: a
  restored ledger is whole.
- **Data protection** (P). Hard: a subject resolved before the
  transaction, identities that change. Correct: erased stays erased.
- **Schema and migrations** (P). Hard: several programs open one file. Correct:
  once each, in order, the guards of one opening alone in force.
- **Historical import and opening balances** (P). Hard: two imports at a time,
  rollback of files. Correct: one cutover, all of it or nothing.
- **Consolidation of groups** (P). Mappings of intercompany accounts, eliminations
  of their balances in a control database. Hard: two ledgers in other files that
  move while they are read, an approval long after the proposal. Correct: what is
  eliminated was true at one moment.
- **Workspace registry**, **reports and dashboards**,
  **agent loop**, **HTTP server, MCP server and command line**, **cockpit** (-).
  See section 6.

## 5. What is known not to hold

Sentences that no documentation promises, but that a reader might take for
granted. The names in brackets are properties TLC refutes, or the constant of the
model that makes the difference; no run checks them.

**Ledger and bank.** A journal that is link evidence may be reversed; the audit
then reports an error until a correction is applied. The link trigger does not
look at other links to the journal, so two transactions of one amount may rest on
one booking. A transaction reconciled during a sync gets an exception that stays
until a person resolves it.

**Import.** Equal movements that no single file holds together count as one. A
crash after the rows loses the warning of a gap. A complete statement, newest
first, whose balance returns to an earlier value raises a false gap
(`NoFalseBreak`).

**Periods.** Two decisions may supersede the same one: the reopen looks its
predecessor up outside a transaction (`SupersedesLast`).
After a crash in a reopen the last decision is the one of the close while the
period is open. A reopen event written after a report lets the lifecycle control
of an overlapping window pass; the report itself stays in force. A reopened period
is reported on the packet of its last close, whatever changed since, as
`periods.ts:676` says.

**Runner.** A stale result may hide the terminal one of another runner
(`TerminalStaysTruthful`), and with it an accepted
document from later queries; redelivery stays blocked by the `attempted` row. As
many rejected periods as the cap admits stop every later one
(`GapsFill`). Documents that are only reported count
against the limit of the delivery list. What a retired template has not
delivered is never delivered.

**Payables, receivables, interest.** Two clerks may overpay a bill from two lines.
Reversing a payable's journal leaves the payable open. The reminder limits are
checked before the transaction. An excess of interest below that of days billed
later may be given back twice. The credit note that closes a foreign invoice after
a partial payment may leave one øre of the carrying amount. A reminder checked before
the claims of an invoice were paid, and inserted after it, makes every later reading
of that invoice fail, and nothing removes it (`ReceiptsStand` without its condition).

**Batches, rules and schedules.** A purchase booked by hand while a plan is being read
is in the plan's ledger, and is booked once more if it is still suggested for a free
line: nobody asks whether the document was booked. The rule application a plan
stores with an item is never compared; the application takes the rule it finds then.
Approval and rejection of a rule may race. An amount below
the number of periods leaves empty slices; a reversed period does not count as
open again.

**Issuing.** A file left by a crash, or by a look at the database that failed,
blocks every later issue of its series, which `issued-invoices.ts:126` calls
recoverable. So does a credit note that was named by hand like the next invoice: the
number is never free and the counter never passes it. A manual journal that names a
booked invoice is neither reversible nor repairable.

**VAT.** The VAT of a single partial credit note or write-off is rounded as a share
and may be an øre off, which stops the return of its period. Lines marked exempt
get a code the ledger's list of codes refuses (`invoice-booking.ts:61`,
`ledger.ts:488`). Evidence for the fields of list B may change after the report.

**Import of history.** Two primobalances entered by hand at the same time are both
posted, against `opening-balance.ts:105`: check, journal and marker are three
steps. Receipts of an import that died block later imports and uploads of them. A
reversed primobalance still blocks a new one.

**Schema.** While a process opens the ledger, or after one died there, the weaker
triggers of the first schema are in force, and an older program that was checked
before a newer one migrated reasserts only what it knows. Two processes that find the
history table without strict columns at the same time rebuild it twice, the second
from rows read before the first went on: it forgets migrations that have run
(`HistoryIsTrue` without `doubled`), and the next opening tries to run them again.

**Workspace.** A recovery that claims an operation before the call has issued its
key leaves a key nobody knows (`NoSurpriseKey` without `early`). Two ingestions of
one invoice may both pass the search for duplicates. A handoff of content the
company holds from elsewhere never completes. A ledger created in the target between
the second look and the removal is deleted with it. A placement may be recorded for
one backup although the archive of another was read at the destination
(`OffsiteIsTheBackup`). A submission whose sender died stays in progress.

**Groups.** Who proposed an elimination may apply it when it had been proposed
with the same payload before by somebody else (`ProposerNeverApplies`, with two
rows and five events): the code looks for the first proposal of the payload,
while `docs/group-structure.md:73` says that the proposer neither approves nor
applies. An elimination applied under one id stays in force, and stops the report,
when the balance has moved and was eliminated anew under another id. The figures
of the report itself are of no single moment.

**Exceptions.** `exceptions.ts` deduplicates by type, line, document, message and
required action, and some messages hold a balance: a part-paid overdue bill gets a
second open exception.

## 6. Not modelled, and the plan

Not modelled, with the reason:

- *Workspace registry.* `workspace.json` is read, changed and written back without
  a lock (`workspace.ts:266`), so two registrations may lose one; nothing in the
  repository promises more.
- *Reports and dashboards.* Read-only aggregation and layout, the largest part of
  the code by lines. Most of what the map does not cover is of this kind, or
  parsing, formatting, validation of single fields, and the entry points.
- *HTTP server, MCP server, command line, cockpit.* They parse, authorise and call
  the core. Their concurrency is that of the processes in the models.
- *Agent loop.* It calls the operations above in a fixed order and keeps no state
  but its report.
- Parts of modelled components: group manifests, dispositions of unmatched
  entries, consolidation profiles and the layout of the group's report, statement
  formats and match scores, document
  extraction, supplier commitments, mileage, the one-stop shop and settlement
  transfers of VAT, the receiving side of e-invoices, signing keys of backups, the
  layout of a data export.

Next, in this order: the dispositions between the companies of a group; the other
exception types with the syncs of the agent loop; the receiving side of e-invoices.
