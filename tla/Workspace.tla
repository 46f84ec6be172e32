----------------------------- MODULE Workspace ------------------------------
(***************************************************************************)
(* The components around the ledgers, side by side.  Each keeps its tables *)
(* or its directory to itself, so a behaviour of this module is a          *)
(* behaviour of one of them, the one `part` names, while the rest stand    *)
(* still.                                                                  *)
(***************************************************************************)
EXTENDS WorkspaceAccess, ServiceCredentials, DocumentIntake, Backups,
        PublicEInvoice, Consolidation

VARIABLE part  \* the component that is at work

workspaceVars ==
  <<part, workspaceAccessVars, serviceCredentialsVars, documentVars, backupsVars,
    publicEInvoiceVars, consolidationVars>>

-----------------------------------------------------------------------------
WorkspaceInit ==
  /\ part \in {"access", "credentials", "documents", "backups", "einvoice",
              "group"}
  /\ WorkspaceAccessInit /\ ServiceCredentialsInit /\ DocumentIntakeInit
  /\ BackupsInit /\ PublicEInvoiceInit /\ ConsolidationInit

WorkspaceNext ==
  /\ UNCHANGED part
  /\ IF part = "access" THEN WorkspaceAccessNext
                        ELSE UNCHANGED workspaceAccessVars
  /\ IF part = "credentials" THEN ServiceCredentialsNext
                             ELSE UNCHANGED serviceCredentialsVars
  /\ IF part = "documents" THEN DocumentIntakeNext ELSE UNCHANGED documentVars
  /\ IF part = "backups" THEN BackupsNext ELSE UNCHANGED backupsVars
  /\ IF part = "einvoice" THEN PublicEInvoiceNext
                          ELSE UNCHANGED publicEInvoiceVars
  /\ IF part = "group" THEN ConsolidationNext ELSE UNCHANGED consolidationVars

WorkspaceSpec == WorkspaceInit /\ [][WorkspaceNext]_workspaceVars

(* Every component's tables, files and events have their types.             *)
WorkspaceTypeOK ==
  /\ WorkspaceAccessTypeOK
  /\ ServiceCredentialsTypeOK
  /\ DocumentIntakeTypeOK
  /\ BackupsTypeOK
  /\ PublicEInvoiceTypeOK
  /\ ConsolidationTypeOK
=============================================================================
