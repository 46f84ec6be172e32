------------------------------- MODULE Office -------------------------------
(***************************************************************************)
(* The bookkeeping components side by side.  They share the company        *)
(* database and no table the others' properties speak of, so a behaviour   *)
(* of this module is a behaviour of one of them, the one `part` names,     *)
(* while the rest stand still.                                             *)
(***************************************************************************)
EXTENDS BankReconciliation, BankImport, Payables, Receivables, LateInterest,
        Drafts, Idempotency, Batches, Schedules

VARIABLE part  \* the component that is at work

officeVars ==
  <<part, vars, bankImportVars, payablesVars, receivablesVars, lateInterestVars,
    draftsVars, idempotencyVars, batchesVars, schedulesVars>>

-----------------------------------------------------------------------------
OfficeInit ==
  /\ part \in {"bank", "import", "payables", "receivables", "interest",
               "drafts", "idempotency", "batches", "schedules"}
  /\ BankInit /\ BankImportInit /\ PayablesInit /\ ReceivablesInit
  /\ LateInterestInit /\ DraftsInit /\ IdempotencyInit /\ BatchesInit
  /\ SchedulesInit

OfficeNext ==
  /\ UNCHANGED part
  /\ IF part = "bank" THEN BankNext ELSE UNCHANGED vars
  /\ IF part = "import" THEN BankImportNext ELSE UNCHANGED bankImportVars
  /\ IF part = "payables" THEN PayablesNext ELSE UNCHANGED payablesVars
  /\ IF part = "receivables" THEN ReceivablesNext ELSE UNCHANGED receivablesVars
  /\ IF part = "interest" THEN LateInterestNext ELSE UNCHANGED lateInterestVars
  /\ IF part = "drafts" THEN DraftsNext ELSE UNCHANGED draftsVars
  /\ IF part = "idempotency" THEN IdempotencyNext ELSE UNCHANGED idempotencyVars
  /\ IF part = "batches" THEN BatchesNext ELSE UNCHANGED batchesVars
  /\ IF part = "schedules" THEN SchedulesNext ELSE UNCHANGED schedulesVars

OfficeSpec == OfficeInit /\ [][OfficeNext]_officeVars

(* Every component's tables have their types.                               *)
OfficeTypeOK ==
  /\ BankTypeOK
  /\ BankImportTypeOK
  /\ PayablesTypeOK
  /\ ReceivablesTypeOK
  /\ LateInterestTypeOK
  /\ DraftsTypeOK
  /\ IdempotencyTypeOK
  /\ BatchesTypeOK
  /\ SchedulesTypeOK
=============================================================================
