------------------------------ MODULE Register ------------------------------
(***************************************************************************)
(* What happens to the register of a company as a whole: it is opened by   *)
(* several programs, documents are issued into it, VAT returns are made    *)
(* from it, its history is imported and the people in it are erased.  The  *)
(* five share no state a property speaks of, so a behaviour of this module *)
(* is one of theirs, of the one `part` names, while the others stand       *)
(* still.                                                                  *)
(***************************************************************************)
EXTENDS SchemaMigrations, Issuing, VatReturns, HistoricalImport,
        DataProtection

VARIABLE part  \* the component that is at work

registerVars ==
  <<part, schemaVars, issuingVars, vatVars, importVars, dataProtectionVars>>

-----------------------------------------------------------------------------
RegisterInit ==
  /\ part \in {"schema", "issuing", "vat", "import", "gdpr"}
  /\ SchemaInit /\ IssuingInit /\ VatInit /\ ImportInit
  /\ DataProtectionInit

RegisterNext ==
  /\ UNCHANGED part
  /\ IF part = "schema" THEN SchemaNext ELSE UNCHANGED schemaVars
  /\ IF part = "issuing" THEN IssuingNext ELSE UNCHANGED issuingVars
  /\ IF part = "vat" THEN VatNext ELSE UNCHANGED vatVars
  /\ IF part = "import" THEN ImportNext ELSE UNCHANGED importVars
  /\ IF part = "gdpr" THEN DataProtectionNext ELSE UNCHANGED dataProtectionVars

RegisterSpec == RegisterInit /\ [][RegisterNext]_registerVars

(* Every component's tables have their types.                               *)
RegisterTypeOK ==
  /\ SchemaTypeOK
  /\ IssuingTypeOK
  /\ VatTypeOK
  /\ ImportTypeOK
  /\ DataProtectionTypeOK
=============================================================================
