--------------------------- MODULE DocumentIntake ---------------------------
(***************************************************************************)
(* How bytes become a registered document of a company                     *)
(* (src/core/documents.ts, document-storage.ts), and two callers that have *)
(* a register of their own: the mail intake (mail-intake.ts, with          *)
(* imap-intake.ts in front of it) and the inbox of the workspace           *)
(* (workspace-document-inbox.ts), which lives in another database.         *)
(*                                                                         *)
(* A file is published before the row that names it, and the callers note  *)
(* the document afterwards.  Any number of processes do this at the same   *)
(* time, each may stop between two steps, and a call is one transaction    *)
(* per step.                                                               *)
(***************************************************************************)
EXTENDS FiniteSets

CONSTANTS
  Contents,   \* bytes, identified by their hash
  InvoiceOf,  \* the supplier and invoice number on each
  Firms,      \* companies, each with its files and its documents
  Writers,    \* processes
  Mails,      \* messages in the maildrop of a company, with one attachment
  MailOf,     \* the firm and the content of each message
  Sources,    \* sources in the inbox of the workspace
  SourceOf,   \* the content of each source
  Upload,     \* the origin of a document that was ingested directly
  NoFirm      \* not assigned

ASSUME DocumentIntakeAssumption ==
  /\ MailOf \in [Mails -> [firm : Firms, content : Contents]]
  /\ SourceOf \in [Sources -> Contents]
  /\ Upload \notin Mails \union Sources /\ Mails \cap Sources = {}
  /\ NoFirm \notin Firms

VARIABLES
  files,       \* published files of each firm
  documents,   \* documents of each firm: content, origin
  writer,      \* what each process is doing
  seen,        \* mail_intake_messages
  mailQueue,   \* mails with an open exception of the intake
  handled,     \* mails a run of the intake has gone through since it arrived
  assignment,  \* rm_workspace_inbox_assignments: firm, state and document
  handoff      \* rm_workspace_inbox_handoff_claims: holder and lease

documentVars ==
  <<files, documents, writer, seen, mailQueue, handled, assignment, handoff>>

-----------------------------------------------------------------------------
(* ingestDocument.                                                          *)

AtRest == [at |-> "idle", firm |-> NoFirm, content |-> NoFirm, origin |-> Upload, ok |-> FALSE]

Registered(f, b) == \E d \in documents[f] : d.content = b

SameInvoice(f, b) == \E d \in documents[f] : InvoiceOf[d.content] = InvoiceOf[b]

Goto(w, place) == writer' = [writer EXCEPT ![w].at = place]

Answer(w, good) == writer' = [writer EXCEPT ![w].at = "answer", ![w].ok = good]

(* Duplicates are looked for before anything is written; a caller may force *)
(* a second scan of an invoice.                                             *)
LookForDuplicates(w, force) ==
  LET f == writer[w].firm
      b == writer[w].content
  IN /\ writer[w].at = "ingest"
     /\ IF Registered(f, b) \/ (~force /\ SameInvoice(f, b))
        THEN Answer(w, FALSE) ELSE Goto(w, "publish")
     /\ UNCHANGED <<files, documents, seen, mailQueue, handled, assignment, handoff>>

(* A mutant of Publish: a file that is already there is as good.            *)
PublishOrAdopt(w) ==
  LET f == writer[w].firm
      b == writer[w].content
  IN /\ writer[w].at = "publish"
     /\ files' = [files EXCEPT ![f] = @ \union {b}]
     /\ Goto(w, "register")
     /\ UNCHANGED <<documents, seen, mailQueue, handled, assignment, handoff>>

(* publishDocumentSnapshot links the file if it is absent; a file that is   *)
(* there, with a row or without one, is not adopted.                        *)
Publish(w) ==
  LET f == writer[w].firm
      b == writer[w].content
  IN /\ writer[w].at = "publish"
     /\ IF b \in files[f]
        THEN Answer(w, FALSE) /\ UNCHANGED files
        ELSE Goto(w, "register") /\ files' = [files EXCEPT ![f] = @ \union {b}]
     /\ UNCHANGED <<documents, seen, mailQueue, handled, assignment, handoff>>

(* The transaction; `fails` is any error of it.                             *)
Register(w, fails) ==
  LET f == writer[w].firm
      b == writer[w].content
  IN /\ writer[w].at = "register"
     /\ IF fails \/ Registered(f, b)
        THEN Goto(w, "clean") /\ UNCHANGED documents
        ELSE /\ Answer(w, TRUE)
             /\ documents' = [documents EXCEPT ![f] = @ \union
                                {[content |-> b, origin |-> writer[w].origin]}]
     /\ UNCHANGED <<files, seen, mailQueue, handled, assignment, handoff>>

(* The file published by this call is removed when no row references it:    *)
(* first the question ...                                                   *)
AskRegistered(w) ==
  /\ writer[w].at = "clean"
  /\ IF Registered(writer[w].firm, writer[w].content)
     THEN Answer(w, FALSE) ELSE Goto(w, "remove")
  /\ UNCHANGED <<files, documents, seen, mailQueue, handled, assignment, handoff>>

(* ... then removePublishedSnapshot.                                        *)
RemoveFile(w) ==
  /\ writer[w].at = "remove"
  /\ files' = [files EXCEPT ![writer[w].firm] = @ \ {writer[w].content}]
  /\ Answer(w, FALSE)
  /\ UNCHANGED <<documents, seen, mailQueue, handled, assignment, handoff>>

(* A process ends between two steps.                                        *)
StopWriter(w) ==
  /\ writer[w] # AtRest
  /\ writer' = [writer EXCEPT ![w] = AtRest]
  /\ UNCHANGED <<files, documents, seen, mailQueue, handled, assignment, handoff>>

Done(w) == writer' = [writer EXCEPT ![w] = AtRest]

(* documents ingest, of a file by a person.                                 *)
IngestUpload(w, f, b) ==
  /\ writer[w] = AtRest
  /\ writer' = [writer EXCEPT ![w] = [AtRest EXCEPT !.at = "ingest", !.firm = f, !.content = b]]
  /\ UNCHANGED <<files, documents, seen, mailQueue, handled, assignment, handoff>>

AnswerUpload(w) ==
  /\ writer[w].at = "answer" /\ writer[w].origin = Upload
  /\ Done(w)
  /\ UNCHANGED <<files, documents, seen, mailQueue, handled, assignment, handoff>>

-----------------------------------------------------------------------------
(* ingestMailDrop, of one message with one attachment.                      *)

(* What the intake refuses on sight (size, sender, no message id or no      *)
(* metadata) goes to the exception queue.                                   *)
RefuseMail(m) ==
  /\ m \notin seen
  /\ mailQueue' = mailQueue \union {m}
  /\ handled' = handled \union {m}
  /\ UNCHANGED <<files, documents, writer, seen, assignment, handoff>>

IngestMail(w, m) ==
  /\ writer[w] = AtRest
  /\ m \notin seen
  /\ writer' = [writer EXCEPT ![w] =
       [AtRest EXCEPT !.at = "ingest", !.firm = MailOf[m].firm,
                      !.content = MailOf[m].content, !.origin = m]]
  /\ UNCHANGED <<files, documents, seen, mailQueue, handled, assignment, handoff>>

(* A mutant of AnswerMail: the attachment is noted before it is known       *)
(* whether it was ingested.                                                 *)
NoteMail(w) ==
  LET m == writer[w].origin
  IN /\ writer[w].at = "answer" /\ m \in Mails
     /\ handled' = handled \union {m}
     /\ seen' = seen \union {m} /\ UNCHANGED mailQueue
     /\ Done(w)
     /\ UNCHANGED <<files, documents, assignment, handoff>>

(* A document is noted, a failure becomes an exception; each is a           *)
(* transaction after the one of the ingest.                                 *)
AnswerMail(w) ==
  LET m == writer[w].origin
  IN /\ writer[w].at = "answer" /\ m \in Mails
     /\ handled' = handled \union {m}
     /\ IF writer[w].ok
        THEN seen' = seen \union {m} /\ UNCHANGED mailQueue
        ELSE mailQueue' = mailQueue \union {m} /\ UNCHANGED seen
     /\ Done(w)
     /\ UNCHANGED <<files, documents, assignment, handoff>>

-----------------------------------------------------------------------------
(* The inbox of the workspace.                                              *)

(* approveWorkspaceInboxAssignment: one active destination per source.      *)
ApproveAssignment(s, f) ==
  /\ assignment[s].state = "none"
  /\ assignment' = [assignment EXCEPT ![s].firm = f, ![s].state = "approved"]
  /\ UNCHANGED <<files, documents, writer, seen, mailQueue, handled, handoff>>

(* The claim, in the control database.                                      *)
ClaimHandoff(w, s) ==
  /\ writer[w] = AtRest
  /\ assignment[s].state = "approved"
  /\ handoff[s].state = "none" \/ (handoff[s].state = "claimed" /\ handoff[s].expired)
  /\ handoff' = [handoff EXCEPT ![s] = [state |-> "claimed", by |-> w, expired |-> FALSE]]
  /\ writer' = [writer EXCEPT ![w] =
       [AtRest EXCEPT !.at = "find", !.firm = assignment[s].firm,
                      !.content = SourceOf[s], !.origin = s]]
  /\ UNCHANGED <<files, documents, seen, mailQueue, handled, assignment>>

(* An earlier attempt is recognised by the marker of its document.          *)
FindMarker(w) ==
  /\ writer[w].at = "find"
  /\ IF \E d \in documents[writer[w].firm] : d.origin = writer[w].origin
     THEN Answer(w, TRUE) ELSE Goto(w, "ingest")
  /\ UNCHANGED <<files, documents, seen, mailQueue, handled, assignment, handoff>>

(* A mutant of CompleteHandoff: whoever comes last completes it.            *)
CompleteAnyHandoff(w) ==
  LET s == writer[w].origin
  IN /\ writer[w].at = "answer" /\ s \in Sources
     /\ assignment' = [assignment EXCEPT ![s].state = "completed",
          ![s].document = {d \in documents[writer[w].firm] : d.content = SourceOf[s]}]
     /\ handoff' = [handoff EXCEPT ![s].state = "completed"]
     /\ Done(w)
     /\ UNCHANGED <<files, documents, seen, mailQueue, handled>>

(* The end, in the control database, if the claim is still its own; a       *)
(* refused ingest leaves the claim to its lease.                            *)
CompleteHandoff(w) ==
  LET s == writer[w].origin
  IN /\ writer[w].at = "answer" /\ s \in Sources
     /\ IF writer[w].ok /\ handoff[s].state = "claimed" /\ handoff[s].by = w
        THEN /\ assignment' = [assignment EXCEPT ![s].state = "completed",
                  ![s].document = {d \in documents[writer[w].firm] : d.origin = s}]
             /\ handoff' = [handoff EXCEPT ![s].state = "completed"]
        ELSE UNCHANGED <<assignment, handoff>>
     /\ Done(w)
     /\ UNCHANGED <<files, documents, seen, mailQueue, handled>>

ExpireHandoff(s) ==
  /\ handoff[s].state = "claimed" /\ ~handoff[s].expired
  /\ handoff' = [handoff EXCEPT ![s].expired = TRUE]
  /\ UNCHANGED <<files, documents, writer, seen, mailQueue, handled, assignment>>

-----------------------------------------------------------------------------

DocumentIntakeInit ==
  /\ files = [f \in Firms |-> {}]
  /\ documents = [f \in Firms |-> {}]
  /\ writer = [w \in Writers |-> AtRest]
  /\ seen = {} /\ mailQueue = {} /\ handled = {}
  /\ assignment = [s \in Sources |-> [firm |-> NoFirm, state |-> "none", document |-> {}]]
  /\ handoff = [s \in Sources |-> [state |-> "none", by |-> NoFirm, expired |-> FALSE]]

DocumentIntakeNext ==
  \/ \E w \in Writers :
       \/ \E force \in BOOLEAN : LookForDuplicates(w, force)
       \/ Publish(w)
       \/ \E fails \in BOOLEAN : Register(w, fails)
       \/ AskRegistered(w)
       \/ RemoveFile(w)
       \/ StopWriter(w)
       \/ \E f \in Firms, b \in Contents : IngestUpload(w, f, b)
       \/ AnswerUpload(w)
       \/ \E m \in Mails : IngestMail(w, m)
       \/ AnswerMail(w)
       \/ \E s \in Sources : ClaimHandoff(w, s)
       \/ FindMarker(w)
       \/ CompleteHandoff(w)
  \/ \E m \in Mails : RefuseMail(m)
  \/ \E s \in Sources :
       \/ \E f \in Firms : ApproveAssignment(s, f)
       \/ ExpireHandoff(s)

DocumentIntakeSpec == DocumentIntakeInit /\ [][DocumentIntakeNext]_documentVars

-----------------------------------------------------------------------------
(* Properties.                                                              *)

DocumentIntakeTypeOK ==
  /\ files \in [Firms -> SUBSET Contents]
  /\ \A f \in Firms : documents[f] \subseteq
       [content : Contents, origin : Mails \union Sources \union {Upload}]
  /\ \A w \in Writers :
       writer[w].at \in {"idle", "find", "ingest", "publish", "register",
                         "clean", "remove", "answer"}
  /\ seen \subseteq Mails /\ mailQueue \subseteq Mails /\ handled \subseteq Mails
  /\ \A s \in Sources :
       /\ assignment[s].state \in {"none", "approved", "completed"}
       /\ handoff[s].state \in {"none", "claimed", "completed"}

(* A registered document has its file, although files are published before  *)
(* and removed after the transactions that decide about them, by processes  *)
(* that do not wait for each other.                                         *)
DocumentsHaveFiles ==
  \A f \in Firms : \A d \in documents[f] : d.content \in files[f]

(* A mail that a run went through is either a document of the firm, noted   *)
(* or not, or in the exception queue: no attachment disappears between the  *)
(* document register, the file store and the intake's own memory.           *)
MailAccounted ==
  \A m \in handled : m \in mailQueue \/ Registered(MailOf[m].firm, MailOf[m].content)

(* A source of the workspace becomes at most one document, in the one firm  *)
(* it was assigned to, and the assignment names that document once it says  *)
(* completed - whichever of the processes that held a claim got there, and  *)
(* wherever the others stopped.                                             *)
HandedOverOnce ==
  \A s \in Sources :
    LET made == {f \in Firms : \E d \in documents[f] : d.origin = s}
    IN /\ made \subseteq {assignment[s].firm}
       /\ assignment[s].state = "completed" =>
            /\ Cardinality(assignment[s].document) = 1
            /\ assignment[s].document =
                 {d \in documents[assignment[s].firm] : d.origin = s}

(* What comes in by upload, by mail or from the workspace is accounted for: *)
(* every document has its file, every mail its document or its exception,   *)
(* every source of the workspace its one document.                          *)
IntakeIsComplete == DocumentsHaveFiles /\ MailAccounted /\ HandedOverOnce

(* Without a caller's force no two documents of a firm carry the same       *)
(* invoice of the same supplier.                                            *)
InvoiceOnce ==
  [][\A f \in Firms : \A d \in documents'[f] \ documents[f] :
       ~\E e \in documents[f] : InvoiceOf[e.content] = InvoiceOf[d.content]]_documentVars

=============================================================================
