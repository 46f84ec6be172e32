---------------------------- MODULE MCWorkspace ----------------------------
(***************************************************************************)
(* Small instances of the components around the ledgers for TLC, explored  *)
(* in one run.                                                             *)
(***************************************************************************)
EXTENDS Workspace, TLC

CONSTANTS p1, p2,                                     \* processes
          content1, firm1, firm2, mail1, source1,     \* DocumentIntake
          line1                                       \* Backups

-----------------------------------------------------------------------------
(* The file a person uploads, a mail carries and the inbox assigns.         *)
MCInvoiceOf == content1 :> "invoice"
MCMailOf == mail1 :> [firm |-> firm1, content |-> content1]
MCSourceOf == source1 :> content1

MCBookingDate == line1 :> 1

-----------------------------------------------------------------------------
(* p1 and p2 are the processes of every component.                          *)
WorkspaceSymmetry == Permutations({p1, p2})
=============================================================================
