----------------------------- MODULE MCPeriods -----------------------------
(* Small instances of Periods for TLC: a VAT period of one day, and two     *)
(* custom periods that overlap it and each other.                           *)
EXTENDS Periods, TLC

CONSTANTS q1, c1, c2

MCStart == [p \in Periods |-> IF p = c2 THEN 2 ELSE 1]
MCEnd == [p \in Periods |-> IF p = q1 THEN 1 ELSE 2]
MCKind == [p \in Periods |-> IF p = q1 THEN "vat_period" ELSE "custom"]

(* The closed form of the replay that the guards use is what the loop of    *)
(* effectivePeriodState computes, on every audit log of up to five events.  *)
ASSUME ReplayIsTheLoop ==
  \A status \in {"none", "open", "closed", "reported"} :
    \A log \in SeqOf({"period_close", "period_reopen", "period_report", "other"}, 5) :
      Replay(status, log) = FoldLeft(ReplayEvent, status, log)

ProcSymmetry == Permutations(Procs)

ProcRefSymmetry == ProcSymmetry \cup Permutations(References)
=============================================================================
