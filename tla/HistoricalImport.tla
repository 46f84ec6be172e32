-------------------------- MODULE HistoricalImport --------------------------
(***************************************************************************)
(* How a company that kept its books elsewhere gets its history:           *)
(* the primobalance of src/core/opening-balance.ts, posted by itself or by *)
(* an import (import/framework.ts), and the import of a whole export of    *)
(* Dinero, with its vouchers, its earlier years (import/dinero-archive.ts) *)
(* and its receipts (import/dinero-bilag.ts), in one transaction.          *)
(*                                                                         *)
(* The receipts become documents on the way: their files are published     *)
(* inside the transaction and taken back after it failed, while others     *)
(* upload documents of their own.  Importers are processes; each may end   *)
(* between two steps.                                                      *)
(***************************************************************************)
EXTENDS DocumentIntake, Naturals, Sequences, Functions

CONSTANTS
  Importers,     \* processes that import or post a primobalance
  Importing,     \* the company
  Exports,       \* complete exports of Dinero
  OtherSources,  \* sources with a primobalance and vouchers only
  ByHand,        \* the origin of a primobalance entered by itself
  ReceiptsOf,    \* the receipts in each export
  YearsOf        \* the fiscal years before its cut-over in each export

ASSUME HistoricalImportAssumption ==
  /\ Importing \in Firms
  /\ ReceiptsOf \in [Exports -> SUBSET Contents]
  /\ Exports \cap OtherSources = {} /\ ByHand \notin Exports \union OtherSources

VARIABLES
  openings,  \* journals that call themselves a primobalance, by their origin
  marker,    \* opening_balances: the journal it names, 0 if none
  vouchers,  \* the sources whose vouchers are posted
  archive,   \* import_archive_years
  accepted,  \* dinero_import_accepted, rejected that were accepted, in order
  rejected,  \* the exports of those that were rejected
  importer   \* what each process is doing

historyVars == <<openings, marker, vouchers, archive, accepted, rejected, importer>>
importVars == <<historyVars, documentVars>>

Resting ==
  [at |-> "idle", source |-> ByHand, entry |-> 0, left |-> {}, published |-> {},
   good |-> TRUE]

Rest(i) == importer' = [importer EXCEPT ![i] = Resting]
Proceed(i, place) == importer' = [importer EXCEPT ![i].at = place]

(* One connection writes at a time, a whole import long.                    *)
MayWrite == \A i \in Importers : importer[i].at # "landing"

-----------------------------------------------------------------------------
(* The primobalance.                                                        *)

(* A mutant of NoPrimobalance: only the table is looked at.                 *)
NoMarker == marker = 0

(* Neither the table nor, after a crash between the two, a journal with the *)
(* text of a primobalance.                                                  *)
NoPrimobalance == marker = 0 /\ openings = <<>>

(* postOpeningBalance: the checks, ...                                      *)
CheckOpening(i) ==
  /\ importer[i] = Resting /\ NoPrimobalance
  /\ Proceed(i, "posting")
  /\ UNCHANGED <<openings, marker, vouchers, archive, accepted, rejected, documentVars>>

(* ... the journal, ...                                                     *)
PostOpening(i) ==
  /\ importer[i].at = "posting" /\ MayWrite
  /\ openings' = Append(openings, ByHand)
  /\ importer' = [importer EXCEPT ![i].at = "marking",
                                  ![i].entry = Len(openings) + 1]
  /\ UNCHANGED <<marker, vouchers, archive, accepted, rejected, documentVars>>

(* ... and the marker, of which there can be one.                           *)
MarkOpening(i) ==
  /\ importer[i].at = "marking" /\ MayWrite
  /\ marker' = IF marker = 0 THEN importer[i].entry ELSE marker
  /\ Rest(i)
  /\ UNCHANGED <<openings, vouchers, archive, accepted, rejected, documentVars>>

(* postDineroPostings and archiveDineroYears, which skips what it has.      *)
PostVouchers(s) == vouchers' = vouchers \union {s}
ArchiveYears(d) == archive' = archive \union YearsOf[d]

(* What runImportImpl leaves behind: a primobalance with its marker and the *)
(* vouchers since.                                                          *)
Land(s) ==
  /\ openings' = Append(openings, s)
  /\ marker' = Len(openings) + 1
  /\ PostVouchers(s)

(* runImport, of any other source: one transaction.                         *)
RunImport(i, s) ==
  /\ importer[i] = Resting /\ MayWrite /\ NoPrimobalance
  /\ Land(s)
  /\ UNCHANGED <<archive, accepted, rejected, importer, documentVars>>

-----------------------------------------------------------------------------
(* runDineroV4.                                                             *)

(* Before the transaction: not accepted before, no year archived before.    *)
PlanDinero(i, d) ==
  /\ importer[i] = Resting
  /\ d \notin Range(accepted) /\ YearsOf[d] \cap archive = {}
  /\ importer' = [importer EXCEPT ![i].at = "planned", ![i].source = d,
                                  ![i].left = ReceiptsOf[d]]
  /\ UNCHANGED <<openings, marker, vouchers, archive, accepted, rejected, documentVars>>

(* The transaction begins.  A source the ledger refuses and a dry run end   *)
(* here, without a trace.                                                   *)
BeginDinero(i, refused) ==
  /\ importer[i].at = "planned" /\ MayWrite
  /\ IF refused \/ ~NoPrimobalance THEN Rest(i) ELSE Proceed(i, "landing")
  /\ UNCHANGED <<openings, marker, vouchers, archive, accepted, rejected, documentVars>>

(* A mutant of IngestReceipt: a file that is there already is taken over.   *)
AdoptReceipt(i, r, refused) ==
  LET known == Registered(Importing, r)
      publishes == ~known /\ ~refused
  IN /\ importer[i].at = "landing" /\ r \in importer[i].left
     /\ importer' = [importer EXCEPT
          ![i].left = @ \ {r}, ![i].good = @ /\ (known \/ publishes),
          ![i].published = IF publishes THEN @ \union {r} ELSE @]
     /\ files' = IF publishes
                 THEN [files EXCEPT ![Importing] = @ \union {r}] ELSE files
     /\ UNCHANGED <<documents, writer, seen, mailQueue, handled, assignment,
                    handoff, openings, marker, vouchers, archive, accepted, rejected>>

(* ingestReceipt: a document that is registered is reused, a new one gets   *)
(* its file.  A refusal, also because the file is there without a document, *)
(* is noted and the next receipt follows.                                   *)
IngestReceipt(i, r, refused) ==
  LET known == Registered(Importing, r)
      publishes == ~known /\ ~refused /\ r \notin files[Importing]
  IN /\ importer[i].at = "landing" /\ r \in importer[i].left
     /\ importer' = [importer EXCEPT
          ![i].left = @ \ {r}, ![i].good = @ /\ (known \/ publishes),
          ![i].published = IF publishes THEN @ \union {r} ELSE @]
     /\ files' = IF publishes
                 THEN [files EXCEPT ![Importing] = @ \union {r}] ELSE files
     /\ UNCHANGED <<documents, writer, seen, mailQueue, handled, assignment,
                    handoff, openings, marker, vouchers, archive, accepted, rejected>>

(* The rest of the transaction and its commit.                              *)
AcceptDinero(i) ==
  LET d == importer[i].source
  IN /\ importer[i].at = "landing" /\ importer[i].left = {} /\ importer[i].good
     /\ Land(d)
     /\ ArchiveYears(d)
     /\ accepted' = Append(accepted, d)
     /\ documents' = [documents EXCEPT ![Importing] = @ \union
          {[content |-> r, origin |-> Upload] : r \in importer[i].published}]
     /\ Rest(i)
     /\ UNCHANGED <<rejected, files, writer, seen, mailQueue, handled, assignment, handoff>>

(* Anything in it throws and all is rolled back.  The published files are   *)
(* known once ingestDineroBilag has returned.                               *)
FailDinero(i) ==
  /\ importer[i].at = "landing"
  /\ importer' = [importer EXCEPT ![i].at = "failed",
       ![i].published = IF importer[i].left = {} THEN @ ELSE {}]
  /\ UNCHANGED <<openings, marker, vouchers, archive, accepted, rejected, documentVars>>

(* They are unlinked one by one, whatever the database says of them, ...    *)
UnlinkReceipt(i, r) ==
  /\ importer[i].at = "failed" /\ r \in importer[i].published
  /\ files' = [files EXCEPT ![Importing] = @ \ {r}]
  /\ importer' = [importer EXCEPT ![i].published = @ \ {r}]
  /\ UNCHANGED <<documents, writer, seen, mailQueue, handled, assignment,
                 handoff, openings, marker, vouchers, archive, accepted, rejected>>

(* ... and the attempt is recorded in a transaction of its own.             *)
RecordRejected(i) ==
  /\ importer[i].at = "failed" /\ importer[i].published = {} /\ MayWrite
  /\ rejected' = rejected \union {importer[i].source}
  /\ Rest(i)
  /\ UNCHANGED <<openings, marker, vouchers, archive, accepted, documentVars>>

(* A process ends, or a call is refused by what is not modelled.            *)
StopImporter(i) ==
  /\ importer[i] # Resting
  /\ Rest(i)
  /\ UNCHANGED <<openings, marker, vouchers, archive, accepted, rejected, documentVars>>

(* Everyone else's documents; their rows wait for the importer's lock.      *)
OthersIngest ==
  /\ DocumentIntakeNext
  /\ ~MayWrite =>
       documents' = documents /\ seen' = seen /\ mailQueue' = mailQueue
  /\ UNCHANGED historyVars

-----------------------------------------------------------------------------

ImportInit ==
  /\ DocumentIntakeInit
  /\ openings = <<>> /\ marker = 0 /\ vouchers = {} /\ archive = {}
  /\ accepted = <<>> /\ rejected = {} /\ importer = [i \in Importers |-> Resting]

ImportNext ==
  \/ OthersIngest
  \/ \E i \in Importers :
       \/ CheckOpening(i) \/ PostOpening(i) \/ MarkOpening(i)
       \/ \E s \in OtherSources : RunImport(i, s)
       \/ \E d \in Exports : PlanDinero(i, d)
       \/ \E refused \in BOOLEAN : BeginDinero(i, refused)
       \/ \E r \in Contents, refused \in BOOLEAN : IngestReceipt(i, r, refused)
       \/ AcceptDinero(i) \/ FailDinero(i)
       \/ \E r \in Contents : UnlinkReceipt(i, r)
       \/ RecordRejected(i) \/ StopImporter(i)

ImportSpec == ImportInit /\ [][ImportNext]_importVars

-----------------------------------------------------------------------------
(* Properties.                                                              *)

ImportTypeOK ==
  /\ DocumentIntakeTypeOK
  /\ Range(openings) \subseteq Exports \union OtherSources \union {ByHand}
  /\ marker \in 0..Len(openings)
  /\ vouchers \subseteq Exports \union OtherSources
  /\ Range(accepted) \subseteq Exports /\ rejected \subseteq Exports
  /\ \A i \in Importers :
       importer[i].at \in {"idle", "posting", "marking", "planned", "landing",
                           "failed"}

(* One import of Dinero is accepted, ever, also of two that were planned at *)
(* the same time, and it began in a ledger without a primobalance, marked   *)
(* or left behind by a crash: the first is its own and the one that is      *)
(* marked.  All of its receipts are documents, of a rejected one there are   *)
(* no vouchers, and every document of the company has its file, whichever   *)
(* imports failed and took their files back while others uploaded the same  *)
(* receipts.                                                                *)
CutoverStands ==
  /\ Len(accepted) <= 1
  /\ \A d \in Range(accepted) :
       /\ openings[1] = d /\ marker = 1
       /\ \A r \in ReceiptsOf[d] : Registered(Importing, r)
  /\ vouchers \cap Exports = Range(accepted)
  /\ DocumentsHaveFiles

(* "exactly one primobalance per company - a second call is rejected"       *)
(* (opening-balance.ts:105).  Two calls at the same time are not.           *)
OnePrimobalance == Len(openings) <= 1

=============================================================================
