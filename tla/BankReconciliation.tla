------------------------- MODULE BankReconciliation -------------------------
(***************************************************************************)
(* What counts as the accounting evidence of a bank transaction:           *)
(* src/core/bank-journal-reconciliation.ts with the tables, triggers and   *)
(* view of migrations 0006, 0033 and 0035, beside the journal of Ledger    *)
(* and the unmatched-transaction queue of src/core/exceptions.ts.          *)
(*                                                                         *)
(* A bank transaction is reconciled by a journal entry that names it       *)
(* (direct), by an append-only link to an entry that exists already, or by *)
(* a correction event that supersedes one of these.  Linking checks first  *)
(* and inserts in a later transaction; a correction is planned, reviewed   *)
(* and applied later; the queue is read and then filled outside any        *)
(* transaction.                                                            *)
(***************************************************************************)
EXTENDS Ledger

CONSTANTS
  Banks,        \* bank transactions
  Mapped,       \* those whose bank account names a ledger account
  BankAccount,  \* the ledger account money at the bank is booked on
  Amount,       \* [Banks -> Int], the amount in DKK
  MaxLinks      \* bound on links and on correction events

ASSUME BankAssumption ==
  /\ None \notin Banks
  /\ None \notin [op : {"sync"}, left : SUBSET Banks, stale : SUBSET Banks]
  /\ Mapped \subseteq Banks
  /\ BankAccount \in Accounts
  /\ Amount \in [Banks -> Int]
  /\ MaxLinks \in Nat

VARIABLES
  links,        \* bank_journal_reconciliation_links
  corrections,  \* bank_reconciliation_correction_events
  open,         \* bank transactions with an open UNMATCHED_BANK_TRANSACTION
  requests      \* work begun outside the write lock, by process

bankVars == <<links, corrections, open, requests>>
vars == <<ledgerVars, bankVars>>

-----------------------------------------------------------------------------
(* The view bank_journal_reconciliations.                                   *)

Linked == {links[k].bank : k \in DOMAIN links}

(* Everything that ever reconciled b, each with the journal it points at:   *)
(* the typed identities 'direct:7', 'append-only:2', 'correction:1'.        *)
Candidates(b) ==
  {[kind |-> "direct", id |-> i, entry |-> i] :
     i \in {j \in Ids : IsOriginal(j) /\ entries[j].bank = b}} \cup
  {[kind |-> "append-only", id |-> k, entry |-> links[k].entry] :
     k \in {m \in DOMAIN links : links[m].bank = b}} \cup
  {[kind |-> "correction", id |-> k, entry |-> corrections[k].new] :
     k \in {m \in DOMAIN corrections : corrections[m].bank = b}}

Superseded(r) ==
  \E k \in DOMAIN corrections :
    corrections[k].kind = r.kind /\ corrections[k].id = r.id

Effective(b) == {r \in Candidates(b) : ~Superseded(r)}

Reconciled(b) == Effective(b) # {}

ReconcilesOn(i) == {b \in Banks : \E r \in Effective(b) : r.entry = i}

BooksAmount(i, b) == Movement(BankAccount, {i}) = Amount[b]

-----------------------------------------------------------------------------
(* Guards the code evaluates.                                               *)

Idle(proc) == pending[proc] = None /\ requests[proc] = None

(* A mutant of DatabaseAcceptsLink: the trigger forgets direct journals of  *)
(* the bank transaction.                                                    *)
DatabaseAcceptsDoubleLink(b, i) ==
  /\ b \in Mapped
  /\ i \in Ids
  /\ Active(i)
  /\ entries[i].bank = None
  /\ BooksAmount(i, b)
  /\ b \notin Linked

(* The trigger bank_journal_reconciliation_links_guard_insert and the       *)
(* unique index on the bank transaction.                                    *)
DatabaseAcceptsLink(b, i) ==
  /\ b \in Mapped
  /\ i \in Ids
  /\ Active(i)
  /\ entries[i].bank = None
  /\ \A j \in Ids : entries[j].bank # b
  /\ BooksAmount(i, b)
  /\ b \notin Linked

(* A mutant of Correctable: the old journal need not be reversed.           *)
CorrectableLive(b, new) ==
  /\ Cardinality(Effective(b)) = 1
  /\ new \in Ids
  /\ Active(new)
  /\ entries[new].bank = None
  /\ ReconcilesOn(new) = {}
  /\ BooksAmount(new, b)

(* correctionContext: the one current reconciliation of b rests on a        *)
(* reversed journal, and the replacement is an active, unused entry over    *)
(* the same amount.                                                         *)
Correctable(b, new) ==
  /\ Cardinality(Effective(b)) = 1
  /\ \A r \in Effective(b) : ~Active(r.entry)
  /\ new \in Ids
  /\ Active(new)
  /\ entries[new].bank = None
  /\ ReconcilesOn(new) = {}
  /\ BooksAmount(new, b)

Context(b, new) ==
  LET current == CHOOSE r \in Effective(b) : TRUE
  IN  [bank |-> b, kind |-> current.kind, id |-> current.id,
       old |-> current.entry, new |-> new]

(* The trigger of migration 0035 and the unique indexes of 0033.            *)
DatabaseAcceptsCorrection(c) ==
  /\ c.new # c.old
  /\ Active(c.new)
  /\ entries[c.new].bank = None
  /\ BooksAmount(c.new, c.bank)
  /\ \A k \in DOMAIN links : links[k].entry # c.new
  /\ \A k \in DOMAIN corrections : corrections[k].new # c.new
  /\ [kind |-> c.kind, id |-> c.id, entry |-> c.old] \in Effective(c.bank)

-----------------------------------------------------------------------------
(* The journal's operations in this company.  A posting that names a bank   *)
(* transaction resolves its exception in the same transaction.              *)

(* A mutant of Post: every open exception is resolved.                      *)
PostClearingQueue(p, historical) ==
  /\ PostJournalEntry(p, historical, Linked)
  /\ open' = {}
  /\ UNCHANGED <<links, corrections, requests>>

Post(p, historical) ==
  /\ PostJournalEntry(p, historical, Linked)
  /\ open' = open \ {p.bank}
  /\ UNCHANGED <<links, corrections, requests>>

StartReversal(proc, i, d) ==
  /\ Idle(proc)
  /\ ValidateReversal(proc, i, d, Linked)
  /\ UNCHANGED bankVars

FinishReversal(proc) ==
  /\ ApplyReversal(proc, Linked) \/ AbandonReversal(proc)
  /\ UNCHANGED bankVars

(* linkBankTransactionToJournal up to its transaction.  A bank transaction  *)
(* that is reconciled already is answered without any write.                *)
CheckLink(proc, b, i) ==
  /\ Idle(proc)
  /\ ~Reconciled(b)
  /\ b \in Mapped
  /\ i \in Ids
  /\ Active(i)
  /\ entries[i].bank = None
  /\ BooksAmount(i, b)
  /\ requests' = [requests EXCEPT ![proc] = [op |-> "link", bank |-> b, entry |-> i]]
  /\ UNCHANGED <<ledgerVars, links, corrections, open>>

(* A mutant of InsertLink: the two ids are bound in the wrong order.        *)
InsertLinkSwapped(proc) ==
  /\ requests[proc] # None
  /\ requests[proc].op = "link"
  /\ LET b == requests[proc].bank
         i == requests[proc].entry
     IN  /\ DatabaseAcceptsLink(b, i)
         /\ Len(links) < MaxLinks
         /\ links' = Append(links, [bank |-> i, entry |-> b])
         /\ open' = open \ {b}
  /\ requests' = [requests EXCEPT ![proc] = None]
  /\ UNCHANGED <<ledgerVars, corrections>>

InsertLink(proc) ==
  /\ requests[proc] # None
  /\ requests[proc].op = "link"
  /\ LET b == requests[proc].bank
         i == requests[proc].entry
     IN  /\ DatabaseAcceptsLink(b, i)
         /\ Len(links) < MaxLinks
         /\ links' = Append(links, [bank |-> b, entry |-> i])
         /\ open' = open \ {b}
  /\ requests' = [requests EXCEPT ![proc] = None]
  /\ UNCHANGED <<ledgerVars, corrections>>

(* planBankReconciliationCorrection; the reviewer holds the hash-bound plan.*)
PlanCorrection(proc, b, new) ==
  /\ Idle(proc)
  /\ Correctable(b, new)
  /\ requests' = [requests EXCEPT ![proc] =
                    [op |-> "correct", plan |-> Context(b, new)]]
  /\ UNCHANGED <<ledgerVars, links, corrections, open>>

(* applyBankReconciliationCorrection: planned again under the write lock,   *)
(* and refused unless the plan is the reviewed one.                         *)
ApplyCorrection(proc) ==
  /\ requests[proc] # None
  /\ requests[proc].op = "correct"
  /\ LET c == requests[proc].plan
     IN  /\ Correctable(c.bank, c.new)
         /\ Context(c.bank, c.new) = c
         /\ DatabaseAcceptsCorrection(c)
         /\ Len(corrections) < MaxLinks
         /\ corrections' = Append(corrections, c)
  /\ requests' = [requests EXCEPT ![proc] = None]
  /\ UNCHANGED <<ledgerVars, links, open>>

(* syncUnmatchedBankTransactionExceptions reads all unmatched transactions, *)
(* with their open exceptions: `left` are the ones that lack one, `stale`   *)
(* the ones whose text a document that arrived since would change.          *)
ReadUnmatched(proc) ==
  /\ Idle(proc)
  /\ LET unmatched == {b \in Banks : ~Reconciled(b)} IN
       /\ unmatched # {}
       /\ \E stale \in SUBSET (unmatched \cap open) :
            requests' = [requests EXCEPT ![proc] =
              [op |-> "sync", left |-> unmatched \ open, stale |-> stale]]
  /\ UNCHANGED <<ledgerVars, links, corrections, open>>

(* A stale exception is resolved, to be recorded again with the new text.   *)
RefreshStale(proc) ==
  /\ requests[proc] # None
  /\ requests[proc].op = "sync"
  /\ \E b \in requests[proc].stale :
       /\ open' = open \ {b}
       /\ requests' = [requests EXCEPT ![proc].left = @ \cup {b},
                                       ![proc].stale = @ \ {b}]
  /\ UNCHANGED <<ledgerVars, links, corrections>>

(* One exception after the other is recorded, whatever happened to its      *)
(* transaction in the meantime.                                             *)
RecordUnmatched(proc) ==
  /\ requests[proc] # None
  /\ requests[proc].op = "sync"
  /\ \E b \in requests[proc].left :
       /\ open' = open \cup {b}
       /\ requests' = [requests EXCEPT ![proc].left = @ \ {b}]
  /\ UNCHANGED <<ledgerVars, links, corrections>>

(* resolveException: a person closes the case with a note.                  *)
ResolveException(b) ==
  /\ b \in open
  /\ open' = open \ {b}
  /\ UNCHANGED <<ledgerVars, links, corrections, requests>>

(* A refused insert, a plan nobody applies, the end of a sync, a crash.     *)
Abandon(proc) ==
  /\ requests[proc] # None
  /\ requests' = [requests EXCEPT ![proc] = None]
  /\ UNCHANGED <<ledgerVars, links, corrections, open>>

-----------------------------------------------------------------------------
BankInit ==
  /\ LedgerInit
  /\ links = <<>>
  /\ corrections = <<>>
  /\ open = {}
  /\ requests = [proc \in Procs |-> None]

BankNext ==
  \/ \E p \in Payloads, historical \in BOOLEAN : Post(p, historical)
  \/ \E proc \in Procs, i \in Ids, d \in Dates : StartReversal(proc, i, d)
  \/ \E proc \in Procs : FinishReversal(proc)
  \/ \E proc \in Procs, b \in Banks, i \in Ids : CheckLink(proc, b, i)
  \/ \E proc \in Procs : InsertLink(proc)
  \/ \E proc \in Procs, b \in Banks, i \in Ids : PlanCorrection(proc, b, i)
  \/ \E proc \in Procs : ApplyCorrection(proc)
  \/ \E proc \in Procs : ReadUnmatched(proc)
  \/ \E proc \in Procs : RefreshStale(proc)
  \/ \E proc \in Procs : RecordUnmatched(proc)
  \/ \E b \in Banks : ResolveException(b)
  \/ \E proc \in Procs : Abandon(proc)

BankSpec == BankInit /\ [][BankNext]_vars

-----------------------------------------------------------------------------
(* Properties.                                                              *)

(* Type invariant: links and corrections name bank transactions and rows    *)
(* that exist.                                                              *)
BankTypeOK ==
  /\ TypeOK
  /\ \A k \in DOMAIN links : links[k].bank \in Banks /\ links[k].entry \in Ids
  /\ \A k \in DOMAIN corrections :
       /\ corrections[k].bank \in Banks
       /\ corrections[k].kind \in {"direct", "append-only", "correction"}
       /\ corrections[k].old \in Ids
       /\ corrections[k].new \in Ids
  /\ Len(links) <= MaxLinks
  /\ Len(corrections) <= MaxLinks
  /\ open \subseteq Banks
  /\ DOMAIN requests = Procs

(* Every consumer of the view sees at most one current row for a bank       *)
(* transaction (the last check of verifyAuditChain on corrections),         *)
(* whichever of posting, linking and correcting race.                       *)
OneReconciliation == \A b \in Banks : Cardinality(Effective(b)) <= 1

(* Of all the journals that ever stood for a bank transaction at most one   *)
(* is in force: the money is never in the accounts twice on its evidence.   *)
BookedOnce ==
  \A b \in Banks : \A r, s \in Candidates(b) :
    Active(r.entry) /\ Active(s.entry) => r.entry = s.entry

(* What verifyAuditChain asks of links and correction events apart from     *)
(* their journal being unreversed: no direct journal beside a link, the     *)
(* exact amount, and a correction whose target is dead evidence of the      *)
(* same bank transaction, superseded once.                                  *)
LinksVerified ==
  /\ \A k \in DOMAIN links :
       /\ \A i \in Ids : entries[i].bank # links[k].bank
       /\ entries[links[k].entry].bank = None
       /\ BooksAmount(links[k].entry, links[k].bank)
  /\ \A k \in DOMAIN corrections :
       LET c == corrections[k] IN
       /\ [kind |-> c.kind, id |-> c.id, entry |-> c.old] \in Candidates(c.bank)
       /\ Reversed(c.old)
       /\ entries[c.new].bank = None
       /\ BooksAmount(c.new, c.bank)
       /\ \A m \in DOMAIN corrections :
            corrections[m].kind = c.kind /\ corrections[m].id = c.id => m = k

(* The evidence of bank movements is sound: one current row each, one       *)
(* journal in force, and every link and correction as the audit wants it.   *)
EvidenceSound == OneReconciliation /\ BookedOnce /\ LinksVerified

(* An exception leaves the queue because the transaction got its evidence   *)
(* in the same step, because a person resolved it, or because a sync that   *)
(* is still running owes it a new text; never otherwise.                    *)
QueueLosesNothing ==
  [][\A b \in open \ open' :
       \/ Reconciled(b)'
       \/ ResolveException(b)
       \/ \E proc \in Procs : /\ requests'[proc] # None
                             /\ requests'[proc].op = "sync"
                             /\ b \in requests'[proc].left]_vars

-----------------------------------------------------------------------------
(* What the repository says and the code does not do.                       *)

(* periods.ts: "a reversed entry correctly makes the transaction            *)
(* unreconciled again".                                                     *)
ReversedIsUnreconciled ==
  \A b \in Banks : \A r \in Effective(b) : Active(r.entry)

=============================================================================
