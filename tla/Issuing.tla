------------------------------ MODULE Issuing ------------------------------
(***************************************************************************)
(* Issuing and booking of invoices (src/core/issued-invoices.ts,           *)
(* invoice-booking.ts, invoice-legacy-repair-evidence.ts) and the issuing  *)
(* of credit notes (credit-notes.ts).  A document is a row and one or two  *)
(* immutable files; the files are published before the row is committed,   *)
(* by a link that fails when the name is taken, and taken back when the    *)
(* commit fails.  An issued invoice is booked later, by a posting that     *)
(* names it; journals somebody entered against the invoice are replaced by *)
(* a repair.                                                               *)
(*                                                                         *)
(* All documents are of one fiscal year.  A number of a series chosen by   *)
(* hand must be the next one and is drawn like any other; a credit note    *)
(* may also have a number outside its series, which draws nothing, and     *)
(* that may look like the number of an invoice.  The rows and files of all *)
(* documents share one set of names.  Journals of an invoice are never     *)
(* reversed by the general reversal, which refuses them.                   *)
(***************************************************************************)
EXTENDS Integers, Sequences, FiniteSets

CONSTANTS
  Clerks,       \* processes that issue and book
  CreditUnits,  \* what an invoice can be credited for
  ChosenNames,  \* names outside their series that credit notes are given
  NoClerk,      \* nobody holds the write lock
  MaxAttempts,  \* bound on the attempts to issue a document
  MaxJournals,  \* bound on the entries about invoices
  MaxDeaths     \* bound on the processes that die

ASSUME IssuingAssumption ==
  /\ NoClerk \notin Clerks /\ CreditUnits \in Nat \ {0}
  /\ {MaxAttempts, MaxJournals, MaxDeaths} \subseteq Nat
  /\ ChosenNames \subseteq {"invoice", "own"} \X (1..MaxAttempts)

VARIABLES
  issuedDocs,       \* committed rows of invoices and credit notes
  numberOf,         \* the sequence of each series
  issuedFiles,      \* which attempt wrote the file at each path, 0 for no file
  writeLock,        \* who is inside a transaction
  attempts,         \* attempts to issue so far
  clerk,            \* what each process is doing
  invoiceJournals,  \* entries about invoices
  posting,          \* issued_invoice_postings: the entry of each invoice booked
  deaths,           \* processes that have died
  unread            \* whether the look at the database after a failure has failed

issuingVars == <<issuedDocs, numberOf, issuedFiles, writeLock, attempts, clerk,
                 invoiceJournals, posting, deaths, unread>>

-----------------------------------------------------------------------------
(* Documents, their names and their files.                                  *)

Series == {"invoice", "credit"}
Kinds(t) == IF t = "invoice" THEN <<"json", "pdf">> ELSE <<"json">>
Numbers == 1..MaxAttempts
Paths == {<<s, n, k>> : s \in Series \union {"own"}, n \in Numbers,
                        k \in {"json", "pdf"}}

Path(d, i) == <<d.series, d.no, Kinds(d.type)[i]>>

(* A number that was drawn is of the series of the document's type.         *)
Drawn(d) == d.series = d.type
SameName(d, e) == d.series = e.series /\ d.no = e.no

IssuedInvoiceDocs == {d \in issuedDocs : d.type = "invoice"}
Credited(n) == Cardinality({d \in issuedDocs : d.type = "credit" /\ d.of = n})

NoRow == [type |-> "none", series |-> "none", no |-> 0, of |-> 0, attempt |-> 0]
Waiting == [step |-> "idle", row |-> NoRow, at |-> 0, invoice |-> 0]
Doing(s, d, i) == [step |-> s, row |-> d, at |-> i, invoice |-> 0]

-----------------------------------------------------------------------------
(* Journals.                                                                *)

ActiveFor(n) == {j \in invoiceJournals : j.invoice = n /\ ~j.reversed}
Unlinked(n) == {j \in ActiveFor(n) : j.id # posting[n]}
NewEntry(n) ==
  [id |-> Cardinality(invoiceJournals) + 1, invoice |-> n, reversed |-> FALSE]

bookVars == <<invoiceJournals, posting>>
issueVars == <<issuedDocs, numberOf, issuedFiles, attempts, deaths, unread>>

-----------------------------------------------------------------------------
(* issueInvoice and issueCreditNote.                                        *)

(* The transaction begins: the row is inserted, which fails, and leaves     *)
(* nothing, when another row has the name.                                  *)
BeginDocument(c, type, series, n, of) ==
  LET d == [type |-> type, series |-> series, no |-> n, of |-> of,
            attempt |-> attempts + 1]
  IN /\ clerk[c] = Waiting /\ writeLock = NoClerk
     /\ attempts < MaxAttempts
     /\ \A e \in issuedDocs : ~SameName(d, e)
     /\ attempts' = attempts + 1
     /\ writeLock' = c
     /\ clerk' = [clerk EXCEPT ![c] = Doing("publish", d, 1)]
     /\ UNCHANGED <<issuedDocs, numberOf, issuedFiles, deaths, unread, bookVars>>

BeginInvoice(c) ==
  BeginDocument(c, "invoice", "invoice", numberOf["invoice"] + 1, 0)

(* A credit note needs the booking of the invoice, an exact journal of what *)
(* is credited, and something left to credit.                               *)
MayCreditInvoice(d) ==
  d.type = "invoice" /\ posting[d.no] # 0 /\ Credited(d.no) < CreditUnits

BeginCreditNote(c, d) ==
  /\ MayCreditInvoice(d)
  /\ BeginDocument(c, "credit", "credit", numberOf["credit"] + 1, d.no)

(* reserveManualCreditNoteNumber: a number that is not of the series of the *)
(* year is taken as it is.                                                  *)
BeginNamedCreditNote(c, d, name) ==
  /\ MayCreditInvoice(d)
  /\ BeginDocument(c, "credit", name[1], name[2], d.no)

(* A mutant of Publish: the file is renamed over one that is there.         *)
PublishOver(c) ==
  LET d == clerk[c].row
      i == clerk[c].at
  IN /\ clerk[c].step = "publish"
     /\ i \in DOMAIN Kinds(d.type)
     /\ issuedFiles' = [issuedFiles EXCEPT ![Path(d, i)] = d.attempt]
     /\ clerk' = [clerk EXCEPT ![c].at = i + 1]
     /\ UNCHANGED <<issuedDocs, numberOf, writeLock, attempts, deaths, unread,
                    bookVars>>

(* promoteTempFileExclusive, inside the transaction.  A name that is taken  *)
(* throws, which rolls everything back.                                     *)
PublishIssue(c) ==
  LET d == clerk[c].row
      i == clerk[c].at
  IN /\ clerk[c].step = "publish"
     /\ i \in DOMAIN Kinds(d.type)
     /\ IF issuedFiles[Path(d, i)] = 0
        THEN /\ issuedFiles' = [issuedFiles EXCEPT ![Path(d, i)] = d.attempt]
             /\ clerk' = [clerk EXCEPT ![c].at = i + 1]
             /\ UNCHANGED writeLock
        ELSE /\ clerk' = [clerk EXCEPT ![c] = Doing("look", d, i - 1)]
             /\ writeLock' = NoClerk
             /\ UNCHANGED issuedFiles
     /\ UNCHANGED <<issuedDocs, numberOf, attempts, deaths, unread, bookVars>>

(* COMMIT, which may also report a failure, with the row in the database or *)
(* rolled back.                                                             *)
Commit(c) ==
  LET d == clerk[c].row
  IN /\ clerk[c].step = "publish"
     /\ clerk[c].at \notin DOMAIN Kinds(d.type)
     /\ writeLock' = NoClerk
     /\ \E committed, reported \in BOOLEAN :
          /\ reported => committed
          /\ issuedDocs' = IF committed THEN issuedDocs \union {d} ELSE issuedDocs
          /\ numberOf' = IF committed /\ Drawn(d)
                         THEN [numberOf EXCEPT ![d.series] = d.no] ELSE numberOf
          /\ clerk' = [clerk EXCEPT ![c] =
                         IF reported THEN Waiting
                         ELSE Doing("look", d, Len(Kinds(d.type)))]
     /\ UNCHANGED <<issuedFiles, attempts, deaths, unread, bookVars>>

-----------------------------------------------------------------------------
(* The catch: the files it has published are removed, the last one first,   *)
(* unless a committed row names them or the database cannot be read.        *)

(* A mutant of Look: what the commit reported is believed.                  *)
LookAway(c) ==
  /\ clerk[c].step = "look"
  /\ clerk' = [clerk EXCEPT ![c] =
                 IF clerk[c].at = 0 THEN Waiting
                 ELSE Doing("remove", clerk[c].row, clerk[c].at)]
  /\ UNCHANGED <<issuedDocs, numberOf, issuedFiles, writeLock, attempts, deaths,
                 unread, bookVars>>

Look(c) ==
  LET d == clerk[c].row
      i == clerk[c].at
      named == \E e \in issuedDocs : SameName(d, e)
  IN /\ clerk[c].step = "look"
     /\ \E readable \in BOOLEAN :
          /\ i = 0 => readable
          /\ unread' = (unread \/ ~readable)
          /\ clerk' = [clerk EXCEPT ![c] =
                         IF i = 0 THEN Waiting
                         ELSE IF readable /\ ~named THEN Doing("remove", d, i)
                         ELSE Doing("look", d, i - 1)]
     /\ UNCHANGED <<issuedDocs, numberOf, issuedFiles, writeLock, attempts, deaths,
                    bookVars>>

TakeBack(c) ==
  LET d == clerk[c].row
      i == clerk[c].at
  IN /\ clerk[c].step = "remove"
     /\ issuedFiles' = [issuedFiles EXCEPT ![Path(d, i)] = 0]
     /\ clerk' = [clerk EXCEPT ![c] = Doing("look", d, i - 1)]
     /\ UNCHANGED <<issuedDocs, numberOf, writeLock, attempts, deaths, unread,
                    bookVars>>

(* The process dies; its transaction is rolled back, its files stay.        *)
Die(c) ==
  /\ clerk[c] # Waiting /\ deaths < MaxDeaths
  /\ deaths' = deaths + 1
  /\ clerk' = [clerk EXCEPT ![c] = Waiting]
  /\ writeLock' = IF writeLock = c THEN NoClerk ELSE writeLock
  /\ UNCHANGED <<issuedDocs, numberOf, issuedFiles, attempts, unread, bookVars>>

-----------------------------------------------------------------------------
(* postIssuedInvoiceToLedger.                                               *)

MayBook(n) == posting[n] = 0 /\ Unlinked(n) = {}

(* Everything is checked before the transaction.                            *)
CheckBooking(c, d) ==
  /\ clerk[c] = Waiting /\ d.type = "invoice"
  /\ MayBook(d.no)
  /\ clerk' = [clerk EXCEPT ![c] =
                 [Waiting EXCEPT !.step = "book", !.invoice = d.no]]
  /\ UNCHANGED <<issueVars, writeLock, bookVars>>

(* A mutant of Book: only the posting is looked up again.                   *)
BookUnlessPosted(c) ==
  LET n == clerk[c].invoice
  IN /\ clerk[c].step = "book" /\ writeLock = NoClerk
     /\ Cardinality(invoiceJournals) < MaxJournals
     /\ posting[n] = 0
     /\ invoiceJournals' = invoiceJournals \union {NewEntry(n)}
     /\ posting' = [posting EXCEPT ![n] = NewEntry(n).id]
     /\ clerk' = [clerk EXCEPT ![c] = Waiting]
     /\ UNCHANGED <<issueVars, writeLock>>

(* And once more inside it, where the entry and its posting are written.    *)
BookInvoice(c) ==
  LET n == clerk[c].invoice
  IN /\ clerk[c].step = "book" /\ writeLock = NoClerk
     /\ Cardinality(invoiceJournals) < MaxJournals
     /\ IF MayBook(n)
        THEN /\ invoiceJournals' = invoiceJournals \union {NewEntry(n)}
             /\ posting' = [posting EXCEPT ![n] = NewEntry(n).id]
        ELSE UNCHANGED bookVars
     /\ clerk' = [clerk EXCEPT ![c] = Waiting]
     /\ UNCHANGED <<issueVars, writeLock>>

(* Any journal may name an invoice as its document.                         *)
PostByHand(c, d) ==
  /\ clerk[c] = Waiting /\ d.type = "invoice" /\ writeLock = NoClerk
  /\ Cardinality(invoiceJournals) < MaxJournals
  /\ invoiceJournals' = invoiceJournals \union {NewEntry(d.no)}
  /\ UNCHANGED <<issueVars, writeLock, clerk, posting>>

(* repairUnlinkedIssuedInvoiceBooking: one transaction books the invoice    *)
(* and reverses the only journal it had, by an entry of its own that no     *)
(* other operation looks at.                                                *)
Repair(c, j) ==
  /\ clerk[c] = Waiting /\ writeLock = NoClerk
  /\ Cardinality(invoiceJournals) < MaxJournals
  /\ posting[j.invoice] = 0 /\ ActiveFor(j.invoice) = {j}
  /\ invoiceJournals' = (invoiceJournals \ {j}) \union
                   {[j EXCEPT !.reversed = TRUE], NewEntry(j.invoice)}
  /\ posting' = [posting EXCEPT ![j.invoice] = NewEntry(j.invoice).id]
  /\ UNCHANGED <<issueVars, writeLock, clerk>>

-----------------------------------------------------------------------------

IssuingInit ==
  /\ issuedDocs = {} /\ numberOf = [s \in Series |-> 0]
  /\ issuedFiles = [p \in Paths |-> 0]
  /\ writeLock = NoClerk /\ attempts = 0
  /\ clerk = [c \in Clerks |-> Waiting]
  /\ invoiceJournals = {} /\ posting = [n \in Numbers |-> 0]
  /\ deaths = 0 /\ unread = FALSE

IssuingNext ==
  \E c \in Clerks :
    \/ BeginInvoice(c)
    \/ \E d \in issuedDocs : BeginCreditNote(c, d)
    \/ \E d \in issuedDocs, name \in ChosenNames : BeginNamedCreditNote(c, d, name)
    \/ PublishIssue(c)
    \/ Commit(c)
    \/ Look(c)
    \/ TakeBack(c)
    \/ Die(c)
    \/ \E d \in issuedDocs : CheckBooking(c, d) \/ PostByHand(c, d)
    \/ BookInvoice(c)
    \/ \E j \in invoiceJournals : Repair(c, j)

IssuingSpec == IssuingInit /\ [][IssuingNext]_issuingVars

-----------------------------------------------------------------------------
(* Properties.                                                              *)

IssuingTypeOK ==
  /\ \A d \in issuedDocs : d.type \in Series /\ d.no \in Numbers
  /\ \A p \in Paths : issuedFiles[p] \in 0..MaxAttempts
  /\ \A c \in Clerks :
       clerk[c].step \in {"idle", "publish", "look", "remove", "book"}
  /\ writeLock \in Clerks \union {NoClerk}
  /\ \A n \in Numbers : posting[n] \in 0..MaxJournals

(* The numbers drawn in each series are 1, 2, 3, ... with one document      *)
(* each, although credit notes with names of their own, even of invoices to *)
(* come, are issued among them, and no two documents have one name; the     *)
(* files of a document are there and are those written with it, whatever    *)
(* failed, died or was taken back meanwhile; no more is credited than was   *)
(* invoiced; and a file without a document stays behind only where a        *)
(* process died or could not read the database.                             *)
IssuedStands ==
  /\ \A s \in Series :
       LET drawn == {d \in issuedDocs : d.type = s /\ Drawn(d)}
       IN /\ {d.no : d \in drawn} = 1..numberOf[s]
          /\ Cardinality(drawn) = numberOf[s]
  /\ \A d, e \in issuedDocs : SameName(d, e) => d = e
  /\ \A d \in issuedDocs : \A i \in DOMAIN Kinds(d.type) :
       issuedFiles[Path(d, i)] = d.attempt
  /\ \A d \in IssuedInvoiceDocs : Credited(d.no) <= CreditUnits
  /\ deaths = 0 /\ ~unread /\ (\A c \in Clerks : clerk[c].row = NoRow)
     => \A p \in Paths :
          issuedFiles[p] = 0 \/ \E d \in issuedDocs : d.attempt = issuedFiles[p]

(* An invoice is booked once, for good, and never on top of a journal that  *)
(* already stands for it, also when that journal arrived after the check.   *)
BookedCleanly ==
  [][\A n \in Numbers :
       /\ posting[n] # 0 => posting'[n] = posting[n]
       /\ posting[n] = 0 /\ posting'[n] # 0 => Unlinked(n)' = {}]_issuingVars

(* What is issued stands, and is booked once and cleanly.                   *)
InvoicesStand == []IssuedStands /\ BookedCleanly

=============================================================================
