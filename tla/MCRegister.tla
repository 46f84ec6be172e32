----------------------------- MODULE MCRegister -----------------------------
(***************************************************************************)
(* Small instances for TLC of what happens to the register of a company as *)
(* a whole, explored in one run.                                           *)
(***************************************************************************)
EXTENDS Register, TLC

CONSTANTS p1, p2, u1, d1, d2, s1, r1, r2, company,
          name1, name2, cvr1, cvr2, master1, paper1, text1   \* DataProtection

-----------------------------------------------------------------------------
(* Migration 2, the third of the program, replaces the guard of the         *)
(* templates, and 4, its eleventh, brings in the one of the purchases; the  *)
(* block of 3, its fourth, has a stricter one of its own.                   *)
MCOldTables == <<"periods", "erasures">>
MCReassertions ==
  << <<2, "templates", 2>>, <<3, "purchases", 9>>, <<4, "purchases", 4>> >>

(* Names the clerks choose by hand for credit notes: one of their own, and  *)
(* the one of the second invoice.                                           *)
MCChosenNames == {<<"own", 1>>, <<"invoice", 2>>}

(* Bases whose quarter is rounded, also once more for representation.       *)
MCVouchers ==
  { [code |-> Sale, base |-> 2], [code |-> Purchase, base |-> 2],
    [code |-> Goods, base |-> 6], [code |-> EuService, base |-> 2],
    [code |-> Representation, base |-> 8] }

(* Both exports hold the receipt that others upload.                        *)
MCReceiptsOf == d1 :> {r1, r2} @@ d2 :> {r1}
MCYearsOf == d1 :> {1} @@ d2 :> {1}
MCInvoiceOf == r1 :> 1 @@ r2 :> 2
MCNothing == << >>

MCMentions == text1 :> name1

-----------------------------------------------------------------------------

(* Tables from before the history matter only to those who open the ledger. *)
MCRegisterInit == RegisterInit /\ (part # "schema" => old = {} /\ ~loose)

MCRegisterSpec == MCRegisterInit /\ [][RegisterNext]_registerVars

RegisterSymmetry == Permutations({p1, p2})
=============================================================================
