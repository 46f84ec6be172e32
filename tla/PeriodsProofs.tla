--------------------------- MODULE PeriodsProofs ---------------------------
(***************************************************************************)
(* Theorems about Periods for every set of periods, processes and bounds.  *)
(*                                                                         *)
(* That a reported period keeps its receipt is not inductive by itself:    *)
(* ReportPeriod would replace the receipt of a period that the audit log   *)
(* reports while its row still reads `closed`.  RowsFollowEvents says that *)
(* such a period has no receipt yet, and that a period without a row has   *)
(* no events either.                                                       *)
(***************************************************************************)
EXTENDS Periods, Sums

EventTypes == {"period_close", "period_report", "period_reopen",
               "PERIOD_CLOSED_WITH_OPEN_ITEMS", "period_report_reference_backfill"}

RowsTyped ==
  /\ row \in [Periods -> [status : {"none", "closed", "reported"},
                          ref : References \cup {None}]]
  /\ events \in [Periods -> Seq(EventTypes)]

(* A reopen in flight is one of a period that has a row.                    *)
ReopensTyped ==
  /\ DOMAIN reopening = Procs
  /\ \A proc \in Procs : reopening[proc] # None =>
       /\ "period" \in DOMAIN reopening[proc]
       /\ reopening[proc].period \in Periods
       /\ row[reopening[proc].period].status # "none"

HasReport(p) == \E i \in DOMAIN events[p] : events[p][i] = "period_report"

RowsFollowEvents ==
  \A p \in Periods :
    /\ row[p].status = "none" => events[p] = <<>>
    /\ row[p].status = "closed" /\ HasReport(p) => row[p].ref = None

PeriodsInv ==
  /\ RowsTyped /\ ReopensTyped /\ RowsFollowEvents /\ SameKindDisjoint
  /\ DOMAIN postings = Dates

(* A status is `reported` exactly when the row or an event says so.         *)
LEMMA ReplayReported ==
  ASSUME NEW status \in {"none", "closed", "reported"}, NEW log \in Seq(EventTypes)
  PROVE  Replay(status, log) = "reported" <=>
           status = "reported" \/ \E i \in DOMAIN log : log[i] = "period_report"
<1> DEFINE moves == {i \in DOMAIN log : log[i] \in {"period_close", "period_reopen"}}
<1>1. CASE status = "reported" \/ \E i \in DOMAIN log : log[i] = "period_report"
  BY <1>1 DEF Replay
<1>2. CASE ~(status = "reported" \/ \E i \in DOMAIN log : log[i] = "period_report")
  <2>1. Replay(status, log) =
          IF moves = {} THEN status
          ELSE IF log[Max(moves)] = "period_close" THEN "closed" ELSE "open"
    BY <1>2 DEF Replay
  <2> QED BY <1>2, <2>1
<1> QED BY <1>1, <1>2

LEMMA EffectiveReported ==
  ASSUME RowsTyped, NEW p \in Periods
  PROVE  EffectivePeriodState(p) = "reported" <=>
           row[p].status = "reported" \/ HasReport(p)
<1>1. row[p].status \in {"none", "closed", "reported"} /\ events[p] \in Seq(EventTypes)
  BY DEF RowsTyped
<1> QED BY <1>1, ReplayReported DEF EffectivePeriodState, HasReport

(* How a step changes a period: its row gets a status and a receipt, its    *)
(* audit log grows.                                                         *)
RowStep(p, status, ref, tail) ==
  /\ row' = [row EXCEPT ![p] = [status |-> status, ref |-> ref]]
  /\ events' = [events EXCEPT ![p] = @ \o tail]
  /\ row[p].status = "none" =>
       \A q \in Periods :
         Kind[q] = Kind[p] /\ row[q].status # "none" => ~Overlap(p, q)
  /\ row[p].status = "reported" => status = "reported" /\ ref = row[p].ref
  /\ HasReport(p) /\ row[p].ref # None => ref = row[p].ref
  /\ status = "closed"
     /\ (HasReport(p) \/ \E i \in DOMAIN tail : tail[i] = "period_report")
     => ref = None

SomeRowStep ==
  \E p \in Periods, status \in {"closed", "reported"}, ref \in References \cup {None},
     tail \in Seq(EventTypes) : RowStep(p, status, ref, tail)

(* The log a change leaves contains a report exactly when the old one or    *)
(* the new events do.                                                       *)
LEMMA HasReportAfter ==
  ASSUME RowsTyped, NEW p \in Periods, NEW tail \in Seq(EventTypes),
         events'[p] = events[p] \o tail
  PROVE  HasReport(p)' <=>
           HasReport(p) \/ \E i \in DOMAIN tail : tail[i] = "period_report"
<1>1. events[p] \in Seq(EventTypes)
  BY DEF RowsTyped
<1>2. (\E i \in DOMAIN (events[p] \o tail) : (events[p] \o tail)[i] = "period_report") <=>
      (\E i \in DOMAIN events[p] : events[p][i] = "period_report")
      \/ (\E i \in DOMAIN tail : tail[i] = "period_report")
  <2>1. ASSUME NEW i \in DOMAIN (events[p] \o tail),
               (events[p] \o tail)[i] = "period_report"
        PROVE  \/ \E k \in DOMAIN events[p] : events[p][k] = "period_report"
               \/ \E k \in DOMAIN tail : tail[k] = "period_report"
    <3>1. CASE i \in 1..Len(events[p])
      BY <1>1, <2>1, <3>1
    <3>2. CASE i \notin 1..Len(events[p])
      <4>1. i - Len(events[p]) \in DOMAIN tail
            /\ tail[i - Len(events[p])] = "period_report"
        BY <1>1, <2>1, <3>2
      <4> QED BY <4>1
    <3> QED BY <3>1, <3>2
  <2>2. ASSUME NEW i \in DOMAIN events[p], events[p][i] = "period_report"
        PROVE  i \in DOMAIN (events[p] \o tail) /\ (events[p] \o tail)[i] = "period_report"
    BY <1>1, <2>2
  <2>3. ASSUME NEW i \in DOMAIN tail, tail[i] = "period_report"
        PROVE  /\ Len(events[p]) + i \in DOMAIN (events[p] \o tail)
               /\ (events[p] \o tail)[Len(events[p]) + i] = "period_report"
    BY <1>1, <2>3
  <2> QED BY <2>1, <2>2, <2>3
<1> QED BY <1>2 DEF HasReport

LEMMA RowStepKeeps ==
  ASSUME PeriodsInv, SomeRowStep
  PROVE  RowsTyped' /\ RowsFollowEvents' /\ SameKindDisjoint'
<1>1. PICK p \in Periods, status \in {"closed", "reported"},
           ref \in References \cup {None}, tail \in Seq(EventTypes) :
        RowStep(p, status, ref, tail)
  BY DEF SomeRowStep
<1>2. RowsTyped'
  BY <1>1 DEF PeriodsInv, RowsTyped, RowStep
<1>3. row'[p] = [status |-> status, ref |-> ref] /\ events'[p] = events[p] \o tail
  BY <1>1 DEF PeriodsInv, RowsTyped, RowStep
<1>4. \A q \in Periods : q # p => row'[q] = row[q] /\ events'[q] = events[q]
  BY <1>1 DEF PeriodsInv, RowsTyped, RowStep
<1>5. RowsFollowEvents'
  <2>1. ASSUME NEW q \in Periods
        PROVE  /\ row'[q].status = "none" => events'[q] = <<>>
               /\ row'[q].status = "closed" /\ HasReport(q)' => row'[q].ref = None
    <3>1. CASE q # p
      <4>1. HasReport(q)' <=> HasReport(q)
        BY <1>4, <3>1 DEF HasReport
      <4> QED BY <1>4, <3>1, <4>1 DEF PeriodsInv, RowsFollowEvents
    <3>2. CASE q = p
      <4>1. HasReport(p)' <=>
              HasReport(p) \/ \E i \in DOMAIN tail : tail[i] = "period_report"
        BY <1>3, HasReportAfter DEF PeriodsInv
      <4> QED BY <1>1, <1>3, <3>2, <4>1 DEF RowStep
    <3> QED BY <3>1, <3>2
  <2> QED BY <2>1 DEF RowsFollowEvents
<1>6. SameKindDisjoint'
  <2>1. \A q \in Periods : row'[q].status # "none" => q = p \/ row[q].status # "none"
    BY <1>4
  <2>2. \A q, r \in Periods : Overlap(q, r) <=> Overlap(r, q)
    BY DEF Overlap
  <2> QED BY <1>1, <2>1, <2>2 DEF SameKindDisjoint, PeriodsInv, RowStep, Overlap
<1> QED BY <1>2, <1>5, <1>6

-----------------------------------------------------------------------------
(* Every action either leaves rows and logs alone or is a RowStep.          *)

LEMMA EventsKnown ==
  /\ <<"period_close">> \in Seq(EventTypes)
  /\ <<"period_report">> \in Seq(EventTypes)
  /\ <<"period_reopen">> \in Seq(EventTypes)
  /\ <<"period_report_reference_backfill">> \in Seq(EventTypes)
  /\ <<"period_close", "PERIOD_CLOSED_WITH_OPEN_ITEMS">> \in Seq(EventTypes)
  /\ <<"period_report", "PERIOD_CLOSED_WITH_OPEN_ITEMS">> \in Seq(EventTypes)
  /\ {"period_report", "period_reopen", "period_report_reference_backfill"}
       \subseteq EventTypes
BY DEF EventTypes

LEMMA ClosePeriodStep ==
  ASSUME PeriodsInv, NEW p \in Periods, NEW status \in {"closed", "reported"},
         NEW ref \in References \cup {None}, NEW force \in BOOLEAN,
         ClosePeriod(p, status, ref, force)
  PROVE  SomeRowStep
<1> DEFINE event == IF status = "reported" THEN "period_report" ELSE "period_close"
           waived == force /\ WaivableBlocked(Readiness(p))
           tail == IF waived THEN <<event, "PERIOD_CLOSED_WITH_OPEN_ITEMS">> ELSE <<event>>
<1>1. events' = [events EXCEPT ![p] = @ \o tail]
  BY DEF ClosePeriod, RecordClose
<1>2. tail \in Seq(EventTypes)
  BY EventsKnown
<1>3. status = "closed" => \A i \in DOMAIN tail : tail[i] # "period_report"
  OBVIOUS
<1>4. row[p].status = "none" /\ events[p] = <<>>
  BY DEF ClosePeriod, PeriodsInv, RowsFollowEvents
<1>5. ~HasReport(p)
  BY <1>4 DEF HasReport
<1>6. /\ row' = [row EXCEPT ![p] = [status |-> status, ref |-> ref]]
      /\ \A q \in Periods :
           Kind[q] = Kind[p] /\ row[q].status # "none" => ~Overlap(p, q)
  BY DEF ClosePeriod, Overlap
<1> HIDE DEF tail
<1>7. RowStep(p, status, ref, tail)
  BY <1>1, <1>3, <1>4, <1>5, <1>6 DEF RowStep
<1> QED BY <1>2, <1>7 DEF SomeRowStep

LEMMA ReclosePeriodStep ==
  ASSUME PeriodsInv, NEW p \in Periods, NEW given \in References \cup {None},
         NEW force \in BOOLEAN, ReclosePeriod(p, given, force)
  PROVE  SomeRowStep
<1> DEFINE ref == IF given = None THEN row[p].ref ELSE given
           waived == force /\ WaivableBlocked(Readiness(p))
           tail == IF waived THEN <<"period_close", "PERIOD_CLOSED_WITH_OPEN_ITEMS">>
                             ELSE <<"period_close">>
<1>1. events' = [events EXCEPT ![p] = @ \o tail]
  BY DEF ReclosePeriod, RecordClose
<1>2. tail \in Seq(EventTypes) /\ \A i \in DOMAIN tail : tail[i] # "period_report"
  BY EventsKnown
<1>3. /\ row[p] \in [status : {"none", "closed", "reported"}, ref : References \cup {None}]
      /\ row[p].status # "none" /\ EffectivePeriodState(p) # "reported"
  BY DEF ReclosePeriod, PeriodsInv, RowsTyped
<1>4. row[p].status = "closed" /\ ~HasReport(p)
  BY <1>3, EffectiveReported DEF PeriodsInv
<1>5. row' = [row EXCEPT ![p] = [status |-> "closed", ref |-> ref]]
  <2>1. row' = [row EXCEPT ![p].ref = ref]
    BY DEF ReclosePeriod
  <2>2. [row[p] EXCEPT !.ref = ref] = [status |-> "closed", ref |-> ref]
    BY <1>3, <1>4
  <2> QED BY <2>1, <2>2
<1>6. ref \in References \cup {None}
  BY <1>3
<1> HIDE DEF tail, ref
<1>7. RowStep(p, "closed", ref, tail)
  BY <1>1, <1>2, <1>4, <1>5 DEF RowStep
<1> QED BY <1>2, <1>6, <1>7 DEF SomeRowStep

LEMMA ReportPeriodStep ==
  ASSUME PeriodsInv, NEW p \in Periods, NEW ref \in References,
         ReportPeriod(p, ref)
  PROVE  SomeRowStep
<1>1. events' = [events EXCEPT ![p] = @ \o <<"period_report">>]
  BY DEF ReportPeriod
<1>2. row[p].status = "closed" /\ row' = [row EXCEPT ![p] = [status |-> "reported", ref |-> ref]]
  BY DEF ReportPeriod
<1>3. ~HasReport(p)
  <2>1. HasReport(p) => row[p].ref = None
    BY <1>2 DEF PeriodsInv, RowsFollowEvents
  <2>2. HasReport(p) => EffectivePeriodState(p) = "reported"
    BY EffectiveReported DEF PeriodsInv
  <2> QED BY <2>1, <2>2 DEF ReportPeriod
<1>4. RowStep(p, "reported", ref, <<"period_report">>)
  BY <1>1, <1>2, <1>3 DEF RowStep
<1> QED BY <1>4, EventsKnown DEF SomeRowStep

LEMMA BackfillStep ==
  ASSUME PeriodsInv, NEW p \in Periods, NEW ref \in References,
         BackfillReference(p, ref)
  PROVE  SomeRowStep
<1>1. events' = [events EXCEPT ![p] = @ \o <<"period_report_reference_backfill">>]
  BY DEF BackfillReference
<1>2. /\ row[p].status = "closed" /\ row[p].ref = None
      /\ row' = [row EXCEPT ![p] = [status |-> "reported", ref |-> ref]]
  BY DEF BackfillReference
<1>3. RowStep(p, "reported", ref, <<"period_report_reference_backfill">>)
  BY <1>1, <1>2 DEF RowStep
<1> QED BY <1>3, EventsKnown DEF SomeRowStep

LEMMA AppendReopenStep ==
  ASSUME PeriodsInv, NEW proc \in Procs, AppendReopenEvent(proc)
  PROVE  SomeRowStep
<1> DEFINE p == reopening[proc].period
<1>1. p \in Periods /\ row[p].status # "none"
  BY DEF AppendReopenEvent, PeriodsInv, ReopensTyped
<1>2. events' = [events EXCEPT ![p] = @ \o <<"period_reopen">>] /\ row' = row
  BY DEF AppendReopenEvent
<1> HIDE DEF p
<1>4. row[p] \in [status : {"none", "closed", "reported"}, ref : References \cup {None}]
  BY <1>1 DEF PeriodsInv, RowsTyped
<1>5. row' = [row EXCEPT ![p] = [status |-> row[p].status, ref |-> row[p].ref]]
  BY <1>1, <1>2, <1>4 DEF PeriodsInv, RowsTyped
<1>6. row[p].status = "closed" /\ HasReport(p) => row[p].ref = None
  BY <1>1 DEF PeriodsInv, RowsFollowEvents
<1>7. RowStep(p, row[p].status, row[p].ref, <<"period_reopen">>)
  <2>1. \A i \in DOMAIN <<"period_reopen">> : <<"period_reopen">>[i] # "period_report"
    OBVIOUS
  <2>2. events' = [events EXCEPT ![p] = @ \o <<"period_reopen">>]
    BY <1>2
  <2>3. row[p].status # "none"
    BY <1>1
  <2> QED BY <1>5, <1>6, <2>1, <2>2, <2>3 DEF RowStep
<1> QED BY <1>1, <1>4, <1>7, EventsKnown DEF SomeRowStep

LEMMA StepShape ==
  ASSUME PeriodsInv, [PeriodsNext]_periodVars
  PROVE  UNCHANGED <<row, events>> \/ SomeRowStep
<1>1. ASSUME NEW p \in Periods, NEW status \in {"closed", "reported"},
             NEW ref \in References \cup {None}, NEW force \in BOOLEAN,
             ClosePeriod(p, status, ref, force)
      PROVE  SomeRowStep
  BY <1>1, ClosePeriodStep
<1>2. ASSUME NEW p \in Periods, NEW ref \in References \cup {None},
             NEW force \in BOOLEAN, ReclosePeriod(p, ref, force)
      PROVE  SomeRowStep
  BY <1>2, ReclosePeriodStep
<1>3. ASSUME NEW p \in Periods, NEW ref \in References, ReportPeriod(p, ref)
      PROVE  SomeRowStep
  BY <1>3, ReportPeriodStep
<1>4. ASSUME NEW p \in Periods, NEW ref \in References, BackfillReference(p, ref)
      PROVE  SomeRowStep
  BY <1>4, BackfillStep
<1>5. ASSUME NEW p \in Periods, ReviewReadiness(p)
      PROVE  UNCHANGED <<row, events>>
  BY <1>5 DEF ReviewReadiness, closeVars
<1>6. CASE CloseNext
  BY <1>1, <1>2, <1>3, <1>4, <1>5, <1>6 DEF CloseNext
<1>7. ASSUME NEW proc \in Procs, AppendReopenEvent(proc)
      PROVE  SomeRowStep
  BY <1>7, AppendReopenStep
<1>8. ASSUME NEW proc \in Procs,
             \/ \E p \in Periods : CheckReopen(proc, p)
             \/ SnapshotReopen(proc) \/ ReviewReopen(proc)
             \/ DecideReopen(proc) \/ CrashReopen(proc)
      PROVE  UNCHANGED <<row, events>>
  BY <1>8 DEF CheckReopen, SnapshotReopen, ReviewReopen, DecideReopen,
              CrashReopen, closeVars
<1>9. CASE ReopenNext
  BY <1>7, <1>8, <1>9 DEF ReopenNext
<1>10. CASE BooksNext
  BY <1>10 DEF BooksNext, PostEntry, ImportBankLine, SettleDay, closeVars
<1>11. CASE UNCHANGED periodVars
  BY <1>11 DEF periodVars
<1> QED BY <1>6, <1>9, <1>10, <1>11 DEF PeriodsNext

-----------------------------------------------------------------------------
(* The invariant.                                                           *)

LEMMA PeriodsInitInv ==
  ASSUME PeriodsInit
  PROVE  PeriodsInv
<1>0. PICK old \in SUBSET Legacy :
        /\ row = [p \in Periods |->
             [status |-> IF p \in old THEN "closed" ELSE "none", ref |-> None]]
        /\ events = [p \in Periods |->
             IF p \in old THEN <<"period_close", "period_report">> ELSE <<>>]
  BY DEF PeriodsInit
<1>1. RowsTyped
  <2>1. row \in [Periods -> [status : {"none", "closed", "reported"},
                             ref : References \cup {None}]]
    BY <1>0
  <2>2. <<"period_close", "period_report">> \in Seq(EventTypes)
        /\ <<>> \in Seq(EventTypes)
    BY DEF EventTypes
  <2>3. events \in [Periods -> Seq(EventTypes)]
    BY <1>0, <2>2
  <2> QED BY <2>1, <2>3 DEF RowsTyped
<1>2. ReopensTyped
  BY DEF PeriodsInit, ReopensTyped
<1>3. RowsFollowEvents
  BY <1>0 DEF PeriodsInit, RowsFollowEvents, HasReport
<1>4. SameKindDisjoint
  <2>1. \A p \in Periods : Start[p] \in Int /\ End[p] \in Int
    BY PeriodsAssumption
  <2>2. \A p \in Periods : row[p].status # "none" => p \in Legacy
    BY <1>0
  <2> QED BY <2>1, <2>2, PeriodsAssumption DEF SameKindDisjoint, Overlap
<1>5. DOMAIN postings = Dates
  BY DEF PeriodsInit
<1> QED BY <1>1, <1>2, <1>3, <1>4, <1>5 DEF PeriodsInv

(* A row once written is never deleted.                                     *)
LEMMA RowsStay ==
  ASSUME PeriodsInv, UNCHANGED <<row, events>> \/ SomeRowStep,
         NEW q \in Periods, row[q].status # "none"
  PROVE  row'[q].status # "none"
BY DEF SomeRowStep, RowStep, PeriodsInv, RowsTyped

LEMMA ReopenStep ==
  ASSUME PeriodsInv, [PeriodsNext]_periodVars
  PROVE  \/ reopening' = reopening
         \/ \E proc \in Procs : reopening' = [reopening EXCEPT ![proc] = None]
         \/ \E proc \in Procs : \E r :
              /\ reopening' = [reopening EXCEPT ![proc] = r]
              /\ "period" \in DOMAIN r /\ r.period \in Periods
              /\ row[r.period].status # "none"
<1>1. ASSUME NEW proc \in Procs, NEW p \in Periods, CheckReopen(proc, p)
      PROVE  \E r : /\ reopening' = [reopening EXCEPT ![proc] = r]
                    /\ "period" \in DOMAIN r /\ r.period \in Periods
                    /\ row[r.period].status # "none"
  <2> DEFINE new == [at |-> "checked", period |-> p, packet |-> None, latest |-> 0]
  <2>1. reopening' = [reopening EXCEPT ![proc] = new] /\ row[p].status # "none"
    BY <1>1 DEF CheckReopen
  <2>2. "period" \in DOMAIN new /\ new.period = p
    OBVIOUS
  <2> QED BY <2>1, <2>2
<1>2. ASSUME NEW proc \in Procs,
             AppendReopenEvent(proc) \/ SnapshotReopen(proc) \/ ReviewReopen(proc)
      PROVE  \E r : /\ reopening' = [reopening EXCEPT ![proc] = r]
                    /\ "period" \in DOMAIN r /\ r.period \in Periods
                    /\ row[r.period].status # "none"
  <2> DEFINE old == reopening[proc]
  <2>1. /\ "period" \in DOMAIN old /\ old.period \in Periods
        /\ row[old.period].status # "none"
        /\ DOMAIN reopening = Procs
    BY <1>2 DEF AppendReopenEvent, SnapshotReopen, ReviewReopen, PeriodsInv, ReopensTyped
  <2>2. CASE AppendReopenEvent(proc)
    <3> DEFINE new == [old EXCEPT !.at = "event"]
    <3>1. reopening' = [reopening EXCEPT ![proc] = new]
      BY <2>2 DEF AppendReopenEvent
    <3>2. "period" \in DOMAIN new /\ new.period = old.period
      BY <2>1
    <3> QED BY <2>1, <3>1, <3>2
  <2>3. CASE SnapshotReopen(proc)
    <3> DEFINE new == [old EXCEPT !.at = "snapshot", !.packet = Readiness(old.period)]
    <3>1. reopening' = [reopening EXCEPT ![proc] = new]
      BY <2>1, <2>3 DEF SnapshotReopen
    <3>2. "period" \in DOMAIN new /\ new.period = old.period
      BY <2>1
    <3> QED BY <2>1, <3>1, <3>2
  <2>4. CASE ReviewReopen(proc)
    <3> DEFINE new == [old EXCEPT !.at = "reviewed",
                                  !.latest = LatestPeriodCloseDecision(old.period)]
    <3>1. reopening' = [reopening EXCEPT ![proc] = new]
      BY <2>1, <2>4 DEF ReviewReopen
    <3>2. "period" \in DOMAIN new /\ new.period = old.period
      BY <2>1
    <3> QED BY <2>1, <3>1, <3>2
  <2> QED BY <1>2, <2>2, <2>3, <2>4
<1>3. ASSUME NEW proc \in Procs, DecideReopen(proc) \/ CrashReopen(proc)
      PROVE  reopening' = [reopening EXCEPT ![proc] = None]
  BY <1>3 DEF DecideReopen, CrashReopen
<1>4. CASE ReopenNext
  BY <1>1, <1>2, <1>3, <1>4 DEF ReopenNext
<1>5. CASE CloseNext
  BY <1>5 DEF CloseNext, ClosePeriod, ReclosePeriod, ReportPeriod,
              BackfillReference, ReviewReadiness
<1>6. CASE BooksNext
  BY <1>6 DEF BooksNext, PostEntry, ImportBankLine, SettleDay
<1>7. CASE UNCHANGED periodVars
  BY <1>7 DEF periodVars
<1> QED BY <1>4, <1>5, <1>6, <1>7 DEF PeriodsNext

LEMMA PeriodsNextInv ==
  ASSUME PeriodsInv, [PeriodsNext]_periodVars
  PROVE  PeriodsInv'
<1>1. UNCHANGED <<row, events>> \/ SomeRowStep
  BY StepShape
<1>2. RowsTyped' /\ RowsFollowEvents' /\ SameKindDisjoint'
  <2>1. CASE UNCHANGED <<row, events>>
    BY <2>1 DEF PeriodsInv, RowsTyped, RowsFollowEvents, HasReport, SameKindDisjoint
  <2> QED BY <1>1, <2>1, RowStepKeeps
<1>3. \A q \in Periods : row[q].status # "none" => row'[q].status # "none"
  BY <1>1, RowsStay
<1>4. ReopensTyped'
  BY <1>3, ReopenStep DEF PeriodsInv, ReopensTyped
<1>5. DOMAIN postings' = Dates
  BY DEF PeriodsInv, PeriodsNext, CloseNext, ReopenNext, BooksNext, periodVars,
         bookVars, ClosePeriod, ReclosePeriod, ReportPeriod, BackfillReference,
         ReviewReadiness, CheckReopen, AppendReopenEvent, SnapshotReopen,
         ReviewReopen, DecideReopen, CrashReopen, PostEntry, ImportBankLine, SettleDay
<1> QED BY <1>2, <1>4, <1>5 DEF PeriodsInv

(* The inductive invariant: rows and logs have their types, a reopen in     *)
(* flight is one of a period with a row, a period without a row has no      *)
(* history, a `closed` row over a report event has no receipt yet, and      *)
(* periods of one kind are disjoint.                                        *)
THEOREM PeriodsInvariant == PeriodsSpec => []PeriodsInv
<1>1. PeriodsInit => PeriodsInv
  BY PeriodsInitInv
<1>2. PeriodsInv /\ [PeriodsNext]_periodVars => PeriodsInv'
  BY PeriodsNextInv
<1> QED BY <1>1, <1>2, PTL DEF PeriodsSpec

(* Two periods of one kind never overlap, for any set of windows and any    *)
(* number of processes and reopenings.                                      *)
THEOREM SameKindStaysDisjoint == PeriodsSpec => []SameKindDisjoint
<1>1. PeriodsInv => SameKindDisjoint
  BY DEF PeriodsInv
<1> QED BY <1>1, PeriodsInvariant, PTL

(* `reported` is terminal and a filing reference is never replaced, however *)
(* the steps of concurrent reopens, closes and crashes interleave.          *)
THEOREM ReportedStaysReported == PeriodsSpec => ReportedIsTerminal
<1> DEFINE Stays == \A p \in Periods : EffectivePeriodState(p) = "reported" =>
             /\ EffectivePeriodState(p)' = "reported"
             /\ row[p].ref # None => row'[p].ref = row[p].ref
<1>1. ASSUME PeriodsInv, PeriodsInv', [PeriodsNext]_periodVars
      PROVE  Stays
  <2> SUFFICES ASSUME NEW p \in Periods, EffectivePeriodState(p) = "reported"
               PROVE  /\ EffectivePeriodState(p)' = "reported"
                      /\ row[p].ref # None => row'[p].ref = row[p].ref
    OBVIOUS
  <2>1. row[p].status = "reported" \/ HasReport(p)
    BY <1>1, EffectiveReported DEF PeriodsInv
  <2>2. EffectivePeriodState(p)' = "reported" <=>
          row'[p].status = "reported" \/ HasReport(p)'
    <3>1. row'[p].status \in {"none", "closed", "reported"} /\ events'[p] \in Seq(EventTypes)
      BY <1>1 DEF PeriodsInv, RowsTyped
    <3> QED BY <3>1, ReplayReported DEF EffectivePeriodState, HasReport
  <2>3. CASE UNCHANGED <<row, events>>
    BY <2>1, <2>2, <2>3 DEF HasReport
  <2>4. CASE SomeRowStep
    <3>1. PICK q \in Periods, status \in {"closed", "reported"},
               ref \in References \cup {None}, tail \in Seq(EventTypes) :
            RowStep(q, status, ref, tail)
      BY <2>4 DEF SomeRowStep
    <3>2. CASE q # p
      <4>1. row'[p] = row[p] /\ events'[p] = events[p]
        BY <1>1, <3>1, <3>2 DEF RowStep, PeriodsInv, RowsTyped
      <4> QED BY <2>1, <2>2, <4>1 DEF HasReport
    <3>3. CASE q = p
      <4>1. row'[p] = [status |-> status, ref |-> ref] /\ events'[p] = events[p] \o tail
        BY <1>1, <3>1, <3>3 DEF RowStep, PeriodsInv, RowsTyped
      <4>2. HasReport(p) => HasReport(p)'
        BY <1>1, <4>1, HasReportAfter DEF PeriodsInv
      <4> QED BY <2>1, <2>2, <3>1, <3>3, <4>1, <4>2 DEF RowStep
    <3> QED BY <3>2, <3>3
  <2> QED BY <1>1, <2>3, <2>4, StepShape
<1>2. PeriodsInv /\ PeriodsInv' /\ [PeriodsNext]_periodVars => [Stays]_periodVars
  BY <1>1
<1> HIDE DEF Stays
<1>3. PeriodsSpec => [][Stays]_periodVars
  BY <1>2, PeriodsInvariant, PTL DEF PeriodsSpec
<1> QED BY <1>3 DEF Stays, ReportedIsTerminal

(* No posting reaches a day of a reported period.                           *)
THEOREM ReportedBooksStayFrozen == PeriodsSpec => ReportedBooksFrozen
<1> DEFINE Frozen == \A p \in Periods : EffectivePeriodState(p) = "reported" =>
             \A d \in Days(p) : postings'[d] = postings[d]
<1>1. ASSUME PeriodsInv, [PeriodsNext]_periodVars
      PROVE  Frozen
  <2> SUFFICES ASSUME NEW p \in Periods, EffectivePeriodState(p) = "reported",
                      NEW d \in Days(p)
               PROVE  postings'[d] = postings[d]
    OBVIOUS
  <2>1. row[p].status \in {"closed", "reported"}
    <3>1. row[p].status = "reported" \/ HasReport(p)
      BY <1>1, EffectiveReported DEF PeriodsInv
    <3>2. row[p].status \in {"none", "closed", "reported"}
      BY <1>1 DEF PeriodsInv, RowsTyped
    <3> QED BY <1>1, <3>1, <3>2 DEF PeriodsInv, RowsFollowEvents, HasReport
  <2>2. Locked(d)
    BY <2>1 DEF Locked
  <2>3. ASSUME NEW c \in Dates, NEW e \in Evidence, PostEntry(c, e)
        PROVE  postings'[d] = postings[d]
    <3>1. c # d
      BY <2>2, <2>3 DEF PostEntry
    <3> QED BY <1>1, <2>3, <3>1 DEF PostEntry, PeriodsInv, Days
  <2>4. CASE BooksNext
    BY <2>3, <2>4 DEF BooksNext, ImportBankLine, SettleDay
  <2>5. CASE CloseNext
    BY <2>5 DEF CloseNext, ClosePeriod, ReclosePeriod, ReportPeriod,
                BackfillReference, ReviewReadiness, bookVars
  <2>6. CASE ReopenNext
    BY <2>6 DEF ReopenNext, CheckReopen, AppendReopenEvent, SnapshotReopen,
                ReviewReopen, DecideReopen, CrashReopen, bookVars
  <2>7. CASE UNCHANGED periodVars
    BY <2>7 DEF periodVars
  <2> QED BY <1>1, <2>4, <2>5, <2>6, <2>7 DEF PeriodsNext
<1>2. PeriodsInv /\ [PeriodsNext]_periodVars => [Frozen]_periodVars
  BY <1>1
<1> HIDE DEF Frozen
<1>3. PeriodsSpec => [][Frozen]_periodVars
  BY <1>2, PeriodsInvariant, PTL DEF PeriodsSpec
<1> QED BY <1>3 DEF Frozen, ReportedBooksFrozen

-----------------------------------------------------------------------------
(***************************************************************************)
(* What every decision rests on.                                           *)
(*                                                                         *)
(* The packet of a decision is looked up when it was reviewed, by another  *)
(* process perhaps: a close reviews it before, a report takes that of an   *)
(* earlier decision, a reopen carries its own from one commit to the next. *)
(* The invariant says where each of them is in the meantime.               *)
(***************************************************************************)

DecisionRecords ==
  [period : Periods, packet : Packets, supersedes : Nat,
   decision : {"closed", "forced_closed", "reopened"}]

OfWindow(packet, p) == packet.window = <<Start[p], End[p]>>

Reopens ==
  [at : {"checked", "event", "snapshot", "reviewed"}, period : Periods,
   packet : Packets \cup {None}, latest : Nat]

DecisionsTyped ==
  /\ decisions \in Seq(DecisionRecords)
  /\ \A k \in DOMAIN decisions : decisions[k].supersedes \in 0 .. (k - 1)
  /\ \A i \in openItems : i.decision \in DOMAIN decisions /\ i.period \in Periods
  /\ reviews \subseteq Packets

BooksTyped ==
  /\ postings \in [Dates -> 0 .. MaxPostings]
  /\ control \in [Dates -> Evidence]
  /\ open \subseteq Dates

LogsBounded ==
  \A p \in Periods :
    Len(events[p]) <= MaxEvents /\ (row[p].status # "none" => events[p] # <<>>)

(* A reopen has its snapshot from its third step on, and has saved it after *)
(* the fourth.                                                              *)
ReopensCarry ==
  \A proc \in Procs : reopening[proc] # None =>
    /\ reopening[proc] \in Reopens
    /\ reopening[proc].latest <= Len(decisions)
    /\ reopening[proc].at \in {"snapshot", "reviewed"} =>
         /\ reopening[proc].packet \in Packets
         /\ OfWindow(reopening[proc].packet, reopening[proc].period)
    /\ reopening[proc].at = "reviewed" => reopening[proc].packet \in reviews

EvidenceInv ==
  /\ PeriodsInv /\ DecisionsTyped /\ BooksTyped /\ LogsBounded /\ ReopensCarry
  /\ DecisionsHaveEvidence

LEMMA ReadinessTyped ==
  ASSUME EvidenceInv, NEW p \in Periods
  PROVE  Readiness(p) \in Packets /\ OfWindow(Readiness(p), p)
<1> DEFINE Candidates == {q \in Periods :
              /\ row[q].status # "none"
              /\ Overlap(p, q)
              /\ events[q] = <<>> \/ events[q][Len(events[q])] # "period_reopen"}
           Told(q) == [period |-> q, row |-> row[q],
             last |-> IF events[q] = <<>> THEN "none" ELSE events[q][Len(events[q])]]
           Tellable == [period : Periods,
                        row : [status : {"closed", "reported"}, ref : References \cup {None}],
                        last : {"period_close", "period_report",
                                "PERIOD_CLOSED_WITH_OPEN_ITEMS",
                                "period_report_reference_backfill"}]
           Until == {d \in Dates : d <= End[p]}
<1>1. ASSUME NEW q \in Candidates
      PROVE  Told(q) \in Tellable
  <2>1. q \in Periods /\ row[q].status # "none" /\ events[q] # <<>>
    BY DEF EvidenceInv, LogsBounded
  <2>2. row[q] \in [status : {"closed", "reported"}, ref : References \cup {None}]
    <3>1. row[q] \in [status : {"none", "closed", "reported"}, ref : References \cup {None}]
      BY <2>1 DEF EvidenceInv, PeriodsInv, RowsTyped
    <3> QED BY <2>1, <3>1
  <2>3. events[q][Len(events[q])] \in EventTypes
    <3>1. events[q] \in Seq(EventTypes)
      BY <2>1 DEF EvidenceInv, PeriodsInv, RowsTyped
    <3>2. Len(events[q]) \in DOMAIN events[q]
      BY <2>1, <3>1
    <3> QED BY <3>1, <3>2
  <2>4. events[q][Len(events[q])] # "period_reopen"
    BY <2>1
  <2> QED BY <2>1, <2>2, <2>3, <2>4 DEF EventTypes
<1>2. LifecycleEvidence(p) = {Told(q) : q \in Candidates}
  BY DEF LifecycleEvidence
<1>3. {Told(q) : q \in Candidates} \in SUBSET Tellable
  BY <1>1
<1>4. LifecycleEvidence(p) \in SUBSET Tellable
  BY <1>2, <1>3
<1>5. [d \in Until |-> control[d]] \in UNION {[ds -> Evidence] : ds \in SUBSET Dates}
  <2>1. [d \in Until |-> control[d]] \in [Until -> Evidence]
    BY DEF EvidenceInv, BooksTyped
  <2>2. Until \in SUBSET Dates
    OBVIOUS
  <2> QED BY <2>1, <2>2
<1>6. open \cap Days(p) \in SUBSET Dates
  BY DEF EvidenceInv, BooksTyped
<1> HIDE DEF Candidates, Told, Tellable
<1>7. Packets = [window : {<<Start[q], End[q]>> : q \in Periods},
                 lifecycle : SUBSET Tellable, open : SUBSET Dates,
                 control : UNION {[ds -> Evidence] : ds \in SUBSET Dates}]
  BY DEF Packets, Tellable
<1>8. Readiness(p) = [window |-> <<Start[p], End[p]>>, lifecycle |-> LifecycleEvidence(p),
                      open |-> open \cap Days(p), control |-> [d \in Until |-> control[d]]]
  BY DEF Readiness
<1>9. <<Start[p], End[p]>> \in {<<Start[q], End[q]>> : q \in Periods}
  OBVIOUS
<1> HIDE DEF Until
<1> QED BY <1>4, <1>5, <1>6, <1>7, <1>8, <1>9 DEF OfWindow

LEMMA LatestInRange ==
  ASSUME decisions \in Seq(DecisionRecords), NEW p
  PROVE  LatestPeriodCloseDecision(p) \in 0 .. Len(decisions)
<1>1. DecisionsOf(p) \cup {0} \in SUBSET Nat /\ Len(decisions) \in Nat
      /\ \A k \in DecisionsOf(p) \cup {0} : k <= Len(decisions)
  BY DEF DecisionsOf
<1>2. LatestPeriodCloseDecision(p) \in DecisionsOf(p) \cup {0}
  BY <1>1, MaxIsGreatest DEF LatestPeriodCloseDecision
<1> QED BY <1>1, <1>2

-----------------------------------------------------------------------------
(* What a new decision must bring.                                          *)
Grounded(dec, items) ==
  /\ dec \in DecisionRecords /\ dec.supersedes <= Len(decisions)
  /\ dec.packet \in reviews /\ OfWindow(dec.packet, dec.period)
  /\ \A i \in items : i.decision = Len(decisions) + 1 /\ i.period \in Periods
  /\ dec.decision \in {"closed", "forced_closed"} =>
       /\ ~NonWaivable(dec.packet)
       /\ WaivableBlocked(dec.packet) =>
            \E i \in openItems \cup items :
              i.period = dec.period /\ i.packet = dec.packet
              /\ i.decision <= Len(decisions) + 1

DecisionStep ==
  \E dec, items : /\ Grounded(dec, items) /\ decisions' = Append(decisions, dec)
                  /\ openItems' = openItems \cup items /\ reviews' = reviews

ReviewStep ==
  /\ UNCHANGED <<decisions, openItems>>
  /\ reviews \subseteq reviews' /\ reviews' \subseteq Packets

LEMMA ReviewStepKeeps ==
  ASSUME EvidenceInv, ReviewStep
  PROVE  DecisionsTyped' /\ DecisionsHaveEvidence'
<1>1. DecisionsTyped'
  BY DEF EvidenceInv, DecisionsTyped, ReviewStep
<1>2. DecisionsHaveEvidence'
  <2>1. \A p \in Periods : LockDecisions(p)' = LockDecisions(p)
    BY DEF ReviewStep, LockDecisions, DecisionsOf
  <2> QED BY <2>1 DEF EvidenceInv, DecisionsHaveEvidence, ReviewStep
<1> QED BY <1>1, <1>2

LEMMA DecisionStepKeeps ==
  ASSUME EvidenceInv, DecisionStep
  PROVE  DecisionsTyped' /\ DecisionsHaveEvidence'
<1>1. PICK dec, items :
        /\ Grounded(dec, items) /\ decisions' = Append(decisions, dec)
        /\ openItems' = openItems \cup items /\ reviews' = reviews
  BY DEF DecisionStep
<1>2. PICK n \in Nat : n = Len(decisions)
  BY DEF EvidenceInv, DecisionsTyped
<1>3. /\ decisions' \in Seq(DecisionRecords)
      /\ DOMAIN decisions = 1 .. n /\ DOMAIN decisions' = 1 .. n + 1
      /\ decisions'[n + 1] = dec
      /\ \A k \in 1 .. n : decisions'[k] = decisions[k]
  BY <1>1, <1>2 DEF EvidenceInv, DecisionsTyped, Grounded
<1>4. DecisionsTyped'
  <2>1. \A k \in 1 .. n + 1 : decisions'[k].supersedes \in 0 .. (k - 1)
    <3>1. dec.supersedes \in 0 .. n
      BY <1>1, <1>2 DEF Grounded, DecisionRecords
    <3>2. \A k \in 1 .. n : decisions'[k].supersedes \in 0 .. (k - 1)
      BY <1>3 DEF EvidenceInv, DecisionsTyped
    <3> QED BY <1>3, <3>1, <3>2
  <2>2. \A i \in openItems' : i.decision \in 1 .. n + 1 /\ i.period \in Periods
    BY <1>1, <1>2, <1>3 DEF EvidenceInv, DecisionsTyped, Grounded
  <2>3. reviews' \subseteq Packets
    BY <1>1 DEF EvidenceInv, DecisionsTyped
  <2> QED BY <1>3, <2>1, <2>2, <2>3 DEF DecisionsTyped
<1>5. DecisionsHaveEvidence'
  <2>1. ASSUME NEW k \in DOMAIN decisions'
        PROVE  decisions'[k].packet \in reviews' /\ OfWindow(decisions'[k].packet, decisions'[k].period)
    <3>1. CASE k \in 1 .. n
      BY <1>1, <1>3, <3>1 DEF EvidenceInv, DecisionsHaveEvidence, OfWindow
    <3>2. CASE k = n + 1
      BY <1>1, <1>3, <3>2 DEF Grounded
    <3> QED BY <1>3, <3>1, <3>2
  <2>2. ASSUME NEW p \in Periods, NEW k \in LockDecisions(p)'
        PROVE  LET packet == decisions'[k].packet IN
               /\ ~NonWaivable(packet)
               /\ WaivableBlocked(packet) =>
                    \E i \in openItems' :
                      i.period = p /\ i.packet = packet /\ i.decision <= k
    <3>1. k \in 1 .. n + 1 /\ decisions'[k].period = p
          /\ decisions'[k].decision \in {"closed", "forced_closed"}
      BY <1>3 DEF LockDecisions, DecisionsOf
    <3>2. CASE k \in 1 .. n
      <4>1. k \in LockDecisions(p) /\ decisions'[k] = decisions[k]
        BY <1>3, <3>1, <3>2 DEF LockDecisions, DecisionsOf
      <4> QED BY <1>1, <4>1 DEF EvidenceInv, DecisionsHaveEvidence
    <3>3. CASE k = n + 1
      <4>1. decisions'[k] = dec
        BY <1>3, <3>3
      <4> QED BY <1>1, <1>2, <3>1, <3>3, <4>1 DEF Grounded
    <3> QED BY <3>1, <3>2, <3>3
  <2> QED BY <2>1, <2>2 DEF DecisionsHaveEvidence, OfWindow
<1> QED BY <1>4, <1>5

LEMMA RecordCloseDecides ==
  ASSUME EvidenceInv, NEW p \in Periods, NEW event, NEW force \in BOOLEAN,
         ReadyToClose(p, force), RecordClose(p, event, force), reviews' = reviews
  PROVE  DecisionStep
<1>1. PICK packet : packet = Readiness(p)
  OBVIOUS
<1>2. packet \in Packets /\ OfWindow(packet, p)
  BY <1>1, ReadinessTyped
<1>3. LatestPeriodCloseDecision(p) \in 0 .. Len(decisions) /\ Len(decisions) \in Nat
  BY LatestInRange DEF EvidenceInv, DecisionsTyped
<1>4. PICK latest \in Nat : latest = LatestPeriodCloseDecision(p) /\ latest <= Len(decisions)
  BY <1>3
<1>5. PICK dec : dec = Decision(p, packet, IF force THEN "forced_closed" ELSE "closed", latest)
  OBVIOUS
<1>6. PICK items : items = IF force /\ WaivableBlocked(packet)
                    THEN {[decision |-> Len(decisions) + 1, period |-> p,
                           packet |-> packet, items |-> packet.open]} ELSE {}
  OBVIOUS
<1>7. /\ decisions' = Append(decisions, dec) /\ openItems' = openItems \cup items
  BY <1>1, <1>4, <1>5, <1>6 DEF RecordClose
<1>8. /\ dec \in DecisionRecords /\ dec.supersedes = latest /\ dec.packet = packet
      /\ dec.period = p
  BY <1>2, <1>5 DEF Decision, DecisionRecords
<1>9. packet \in reviews /\ ~NonWaivable(packet) /\ (~force => ~WaivableBlocked(packet))
  BY <1>1 DEF ReadyToClose
<1>10. WaivableBlocked(packet) =>
         \E i \in items : i.period = p /\ i.packet = packet /\ i.decision <= Len(decisions) + 1
  <2> SUFFICES ASSUME WaivableBlocked(packet)
               PROVE  \E i \in items : i.period = p /\ i.packet = packet
                                       /\ i.decision <= Len(decisions) + 1
    OBVIOUS
  <2>1. PICK i : i = [decision |-> Len(decisions) + 1, period |-> p,
                      packet |-> packet, items |-> packet.open]
    OBVIOUS
  <2>2. items = {i}
    BY <1>6, <1>9, <2>1
  <2>3. i.period = p /\ i.packet = packet /\ i.decision = Len(decisions) + 1
    BY <2>1
  <2>4. i.decision <= Len(decisions) + 1
    BY <1>3, <2>3
  <2> QED BY <2>2, <2>3, <2>4
<1>11. \A i \in items : i.decision = Len(decisions) + 1 /\ i.period \in Periods
  BY <1>6
<1>12. Grounded(dec, items)
  BY <1>2, <1>4, <1>8, <1>9, <1>10, <1>11 DEF Grounded
<1> QED BY <1>7, <1>12 DEF DecisionStep

LEMMA ReportDecides ==
  ASSUME EvidenceInv, NEW p \in Periods, NEW ref \in References, ReportPeriod(p, ref)
  PROVE  DecisionStep
<1>1. PICK n \in Nat : n = Len(decisions)
  BY DEF EvidenceInv, DecisionsTyped
<1>2. LockDecisions(p) \in SUBSET Nat /\ LockDecisions(p) # {}
      /\ \A k \in LockDecisions(p) : k <= n
  BY <1>1 DEF LockDecisions, DecisionsOf, ReportPeriod, EvidenceInv, DecisionsTyped
<1>3. PICK k \in LockDecisions(p) : k = Max(LockDecisions(p))
  BY <1>1, <1>2, MaxIsGreatest
<1>4. PICK packet : packet = decisions[k].packet
  OBVIOUS
<1>5. k \in 1 .. n /\ k \in DOMAIN decisions /\ decisions[k].period = p
  BY <1>1, <1>3 DEF LockDecisions, DecisionsOf, EvidenceInv, DecisionsTyped
<1>6. packet \in reviews /\ OfWindow(packet, p) /\ packet \in Packets
  BY <1>4, <1>5 DEF EvidenceInv, DecisionsHaveEvidence, OfWindow, DecisionsTyped
<1>7. /\ ~NonWaivable(packet)
      /\ WaivableBlocked(packet) =>
           \E i \in openItems : i.period = p /\ i.packet = packet /\ i.decision <= k
  BY <1>3, <1>4 DEF EvidenceInv, DecisionsHaveEvidence
<1>8. LatestPeriodCloseDecision(p) \in 0 .. n
  BY <1>1, LatestInRange DEF EvidenceInv, DecisionsTyped
<1>9. PICK latest \in 0 .. n : latest = LatestPeriodCloseDecision(p)
  BY <1>8
<1>10. PICK dec : dec = Decision(p, packet, "closed", latest)
  OBVIOUS
<1>11. decisions' = Append(decisions, dec) /\ openItems' = openItems \cup {}
       /\ reviews' = reviews
  BY <1>3, <1>4, <1>9, <1>10 DEF ReportPeriod
<1>12. /\ dec \in DecisionRecords /\ dec.supersedes <= n /\ dec.packet = packet
       /\ dec.period = p
  BY <1>6, <1>9, <1>10 DEF Decision, DecisionRecords
<1>13. WaivableBlocked(packet) =>
         \E i \in openItems : i.period = p /\ i.packet = packet /\ i.decision <= n + 1
  <2> SUFFICES ASSUME WaivableBlocked(packet)
               PROVE  \E i \in openItems : i.period = p /\ i.packet = packet /\ i.decision <= n + 1
    OBVIOUS
  <2>1. PICK i \in openItems : i.period = p /\ i.packet = packet /\ i.decision <= k
    BY <1>7
  <2>2. i.decision \in Nat
    BY <1>1 DEF EvidenceInv, DecisionsTyped
  <2>3. i.decision <= n + 1
    BY <1>5, <2>1, <2>2
  <2> QED BY <2>1, <2>3
<1>14. Grounded(dec, {})
  BY <1>1, <1>6, <1>7, <1>12, <1>13 DEF Grounded
<1> QED BY <1>11, <1>14 DEF DecisionStep

LEMMA ReopenDecides ==
  ASSUME EvidenceInv, NEW proc \in Procs, DecideReopen(proc)
  PROVE  DecisionStep
<1>1. PICK r : r = reopening[proc]
  OBVIOUS
<1>2. /\ r \in Reopens /\ r.latest <= Len(decisions) /\ r.packet \in reviews
      /\ r.packet \in Packets /\ OfWindow(r.packet, r.period)
  BY <1>1 DEF DecideReopen, EvidenceInv, ReopensCarry
<1>3. PICK dec : dec = Decision(r.period, r.packet, "reopened", r.latest)
  OBVIOUS
<1>4. /\ dec \in DecisionRecords /\ dec.supersedes = r.latest /\ dec.packet = r.packet
      /\ dec.period = r.period /\ dec.decision = "reopened"
  BY <1>2, <1>3 DEF Decision, DecisionRecords, Reopens
<1>5. Grounded(dec, {})
  BY <1>2, <1>4 DEF Grounded
<1>6. decisions' = Append(decisions, dec) /\ openItems' = openItems \cup {}
      /\ reviews' = reviews
  BY <1>1, <1>3 DEF DecideReopen
<1> QED BY <1>5, <1>6 DEF DecisionStep

LEMMA DecisionsKeep ==
  ASSUME EvidenceInv, [PeriodsNext]_periodVars
  PROVE  DecisionStep \/ ReviewStep
<1> USE DEF closeVars
<1>0. reviews \subseteq Packets
  BY DEF EvidenceInv, DecisionsTyped
<1>1. ASSUME NEW p \in Periods, NEW status \in {"closed", "reported"},
             NEW ref \in References \cup {None}, NEW force \in BOOLEAN,
             ClosePeriod(p, status, ref, force)
      PROVE  DecisionStep
  BY <1>1, RecordCloseDecides DEF ClosePeriod
<1>2. ASSUME NEW p \in Periods, NEW ref \in References \cup {None},
             NEW force \in BOOLEAN, ReclosePeriod(p, ref, force)
      PROVE  DecisionStep
  BY <1>2, RecordCloseDecides DEF ReclosePeriod
<1>3. ASSUME NEW p \in Periods, NEW ref \in References, ReportPeriod(p, ref)
      PROVE  DecisionStep
  BY <1>3, ReportDecides
<1>4. ASSUME NEW p \in Periods, NEW ref \in References, BackfillReference(p, ref)
      PROVE  ReviewStep
  BY <1>0, <1>4 DEF BackfillReference, ReviewStep
<1>5. ASSUME NEW p \in Periods, ReviewReadiness(p)
      PROVE  ReviewStep
  <2>1. Readiness(p) \in Packets
    BY ReadinessTyped
  <2> QED BY <1>0, <1>5, <2>1 DEF ReviewReadiness, ReviewStep
<1>6. CASE CloseNext
  BY <1>1, <1>2, <1>3, <1>4, <1>5, <1>6 DEF CloseNext
<1>7. ASSUME NEW proc \in Procs, DecideReopen(proc)
      PROVE  DecisionStep
  BY <1>7, ReopenDecides
<1>8. ASSUME NEW proc \in Procs, ReviewReopen(proc)
      PROVE  ReviewStep
  <2>1. reopening[proc].packet \in Packets
    BY <1>8 DEF ReviewReopen, EvidenceInv, ReopensCarry
  <2> QED BY <1>0, <1>8, <2>1 DEF ReviewReopen, ReviewStep
<1>9. ASSUME NEW proc \in Procs,
             \/ \E p \in Periods : CheckReopen(proc, p)
             \/ AppendReopenEvent(proc) \/ SnapshotReopen(proc) \/ CrashReopen(proc)
      PROVE  ReviewStep
  BY <1>0, <1>9 DEF CheckReopen, AppendReopenEvent, SnapshotReopen, CrashReopen, ReviewStep
<1>10. CASE ReopenNext
  BY <1>7, <1>8, <1>9, <1>10 DEF ReopenNext
<1>11. CASE BooksNext
  BY <1>0, <1>11 DEF BooksNext, PostEntry, ImportBankLine, SettleDay, ReviewStep
<1>12. CASE UNCHANGED periodVars
  BY <1>0, <1>12 DEF periodVars, ReviewStep
<1> QED BY <1>6, <1>10, <1>11, <1>12 DEF PeriodsNext
-----------------------------------------------------------------------------
(* Logs, books and reopens.                                                 *)

LogStep ==
  \E p \in Periods, tail \in Seq(EventTypes) :
    /\ tail # <<>> /\ Len(events[p]) + Len(tail) <= MaxEvents
    /\ events' = [events EXCEPT ![p] = @ \o tail]
    /\ \A q \in Periods : q # p => row'[q].status = row[q].status

LEMMA LogStepKeeps ==
  ASSUME EvidenceInv, LogStep
  PROVE  LogsBounded'
<1>1. PICK p \in Periods, tail \in Seq(EventTypes) :
        /\ tail # <<>> /\ Len(events[p]) + Len(tail) <= MaxEvents
        /\ events' = [events EXCEPT ![p] = @ \o tail]
        /\ \A q \in Periods : q # p => row'[q].status = row[q].status
  BY DEF LogStep
<1>2. events \in [Periods -> Seq(EventTypes)]
  BY DEF EvidenceInv, PeriodsInv, RowsTyped
<1>3. ASSUME NEW q \in Periods
      PROVE  Len(events'[q]) <= MaxEvents /\ (row'[q].status # "none" => events'[q] # <<>>)
  <2>1. CASE q = p
    <3>1. events'[q] = events[p] \o tail
      BY <1>1, <1>2, <2>1
    <3>2. Len(events[p] \o tail) = Len(events[p]) + Len(tail) /\ Len(tail) > 0
      BY <1>1, <1>2
    <3>3. Len(<<>>) = 0 /\ Len(events[p]) \in Nat /\ Len(tail) \in Nat
      BY <1>2
    <3> QED BY <1>1, <3>1, <3>2, <3>3
  <2>2. CASE q # p
    <3>1. events'[q] = events[q] /\ row'[q].status = row[q].status
      BY <1>1, <1>2, <2>2
    <3> QED BY <3>1 DEF EvidenceInv, LogsBounded
  <2> QED BY <2>1, <2>2
<1> QED BY <1>3 DEF LogsBounded

LEMMA RecordCloseLogs ==
  ASSUME EvidenceInv, NEW p \in Periods, NEW force \in BOOLEAN,
         NEW event \in {"period_close", "period_report"}, RecordClose(p, event, force),
         Room(p, IF force THEN 2 ELSE 1),
         \A q \in Periods : q # p => row'[q].status = row[q].status
  PROVE  LogStep
<1> DEFINE waived == force /\ WaivableBlocked(Readiness(p))
<1>1. PICK tail : tail = IF waived THEN <<event, "PERIOD_CLOSED_WITH_OPEN_ITEMS">>
                                   ELSE <<event>>
  OBVIOUS
<1>2. events' = [events EXCEPT ![p] = @ \o tail]
  BY <1>1 DEF RecordClose
<1>3. /\ tail \in Seq(EventTypes) /\ tail # <<>> /\ Len(tail) \in 1 .. 2
      /\ ~force => Len(tail) = 1
  <2> HIDE DEF waived
  <2>1. CASE waived
    <3>1. tail = <<event, "PERIOD_CLOSED_WITH_OPEN_ITEMS">>
      BY <1>1, <2>1
    <3>2. event \in EventTypes /\ "PERIOD_CLOSED_WITH_OPEN_ITEMS" \in EventTypes
      BY DEF EventTypes
    <3>3. tail \in Seq(EventTypes) /\ Len(tail) = 2 /\ tail # <<>>
      BY <3>1, <3>2
    <3> QED BY <2>1, <3>3 DEF waived
  <2>2. CASE ~waived
    <3>1. tail = <<event>> /\ event \in EventTypes
      BY <1>1, <2>2 DEF EventTypes
    <3>2. tail \in Seq(EventTypes) /\ Len(tail) = 1 /\ tail # <<>>
      BY <3>1
    <3> QED BY <3>2
  <2> QED BY <2>1, <2>2
<1>4. Len(events[p]) \in Nat /\ MaxEvents \in Nat
  BY PeriodsAssumption DEF EvidenceInv, PeriodsInv, RowsTyped
<1>5. Len(events[p]) + Len(tail) <= MaxEvents
  <2>1. CASE force
    <3>1. PICK n \in Nat : n = Len(events[p])
      BY <1>4
    <3>2. PICK l \in 1 .. 2 : l = Len(tail)
      BY <1>3
    <3>3. n + 2 <= MaxEvents
      BY <2>1, <3>1 DEF Room
    <3>4. n + l <= MaxEvents
      BY <1>4, <3>3
    <3> QED BY <3>1, <3>2, <3>4
  <2>2. CASE ~force
    <3>1. Len(events[p]) + 1 <= MaxEvents
      BY <2>2 DEF Room
    <3> QED BY <1>3, <1>4, <2>2, <3>1
  <2> QED BY <2>1, <2>2
<1> QED BY <1>2, <1>3, <1>5 DEF LogStep

LEMMA LogsKeep ==
  ASSUME EvidenceInv, [PeriodsNext]_periodVars
  PROVE  LogsBounded'
<1> USE DEF closeVars
<1>0. LogStep => LogsBounded'
  BY LogStepKeeps
<1>11. UNCHANGED <<row, events>> => LogsBounded'
  BY DEF LogsBounded, EvidenceInv
<1>1. ASSUME NEW p \in Periods, NEW status \in {"closed", "reported"},
             NEW ref \in References \cup {None}, NEW force \in BOOLEAN,
             ClosePeriod(p, status, ref, force)
      PROVE  LogStep
  <2>1. \A q \in Periods : q # p => row'[q].status = row[q].status
    BY <1>1 DEF ClosePeriod, EvidenceInv, PeriodsInv, RowsTyped
  <2> QED BY <1>1, <2>1, RecordCloseLogs DEF ClosePeriod
<1>2. ASSUME NEW p \in Periods, NEW ref \in References \cup {None},
             NEW force \in BOOLEAN, ReclosePeriod(p, ref, force)
      PROVE  LogStep
  <2>1. \A q \in Periods : q # p => row'[q].status = row[q].status
    BY <1>2 DEF ReclosePeriod, EvidenceInv, PeriodsInv, RowsTyped
  <2> QED BY <1>2, <2>1, RecordCloseLogs DEF ReclosePeriod
<1>3. ASSUME NEW p \in Periods, NEW ref \in References,
             ReportPeriod(p, ref) \/ BackfillReference(p, ref)
      PROVE  LogStep
  <2>1. \A q \in Periods : q # p => row'[q].status = row[q].status
    BY <1>3 DEF ReportPeriod, BackfillReference, EvidenceInv, PeriodsInv, RowsTyped
  <2>2. PICK event \in {"period_report", "period_report_reference_backfill"} :
          events' = [events EXCEPT ![p] = @ \o <<event>>]
    BY <1>3 DEF ReportPeriod, BackfillReference
  <2>3. <<event>> \in Seq(EventTypes) /\ <<event>> # <<>> /\ Len(<<event>>) = 1
    BY DEF EventTypes
  <2> QED BY <1>3, <2>1, <2>2, <2>3 DEF LogStep, ReportPeriod, BackfillReference, Room
<1>4. ASSUME NEW p \in Periods, ReviewReadiness(p)
      PROVE  UNCHANGED <<row, events>>
  BY <1>4 DEF ReviewReadiness
<1>5. CASE CloseNext
  BY <1>0, <1>1, <1>2, <1>3, <1>4, <1>5, <1>11 DEF CloseNext
<1>6. ASSUME NEW proc \in Procs, AppendReopenEvent(proc)
      PROVE  LogStep
  <2>1. PICK p \in Periods : p = reopening[proc].period
    BY <1>6 DEF AppendReopenEvent, EvidenceInv, PeriodsInv, ReopensTyped
  <2>2. <<"period_reopen">> \in Seq(EventTypes) /\ <<"period_reopen">> # <<>>
        /\ Len(<<"period_reopen">>) = 1
    BY DEF EventTypes
  <2> QED BY <1>6, <2>1, <2>2 DEF LogStep, AppendReopenEvent, Room
<1>7. ASSUME NEW proc \in Procs,
             \/ \E p \in Periods : CheckReopen(proc, p)
             \/ SnapshotReopen(proc) \/ ReviewReopen(proc)
             \/ DecideReopen(proc) \/ CrashReopen(proc)
      PROVE  UNCHANGED <<row, events>>
  BY <1>7 DEF CheckReopen, SnapshotReopen, ReviewReopen, DecideReopen, CrashReopen
<1>8. CASE ReopenNext
  BY <1>0, <1>6, <1>7, <1>8, <1>11 DEF ReopenNext
<1>9. CASE BooksNext
  BY <1>9, <1>11 DEF BooksNext, PostEntry, ImportBankLine, SettleDay
<1>10. CASE UNCHANGED periodVars
  BY <1>10, <1>11 DEF periodVars
<1> QED BY <1>5, <1>8, <1>9, <1>10 DEF PeriodsNext

LEMMA BooksKeep ==
  ASSUME EvidenceInv, [PeriodsNext]_periodVars
  PROVE  BooksTyped'
<1>1. ASSUME NEW d \in Dates, NEW e \in Evidence, PostEntry(d, e)
      PROVE  BooksTyped'
  BY <1>1, PeriodsAssumption DEF PostEntry, BooksTyped, EvidenceInv
<1>2. ASSUME NEW d \in Dates, NEW e \in Evidence, ImportBankLine(d, e)
      PROVE  BooksTyped'
  BY <1>2 DEF ImportBankLine, BooksTyped, EvidenceInv
<1>3. ASSUME NEW d \in Dates, SettleDay(d)
      PROVE  BooksTyped'
  BY <1>3 DEF SettleDay, BooksTyped, EvidenceInv
<1>4. CASE BooksNext
  BY <1>1, <1>2, <1>3, <1>4 DEF BooksNext
<1>5. UNCHANGED bookVars => BooksTyped'
  BY DEF bookVars, BooksTyped, EvidenceInv
<1>6. CASE CloseNext
  BY <1>5, <1>6 DEF CloseNext, ClosePeriod, ReclosePeriod, ReportPeriod,
                    BackfillReference, ReviewReadiness
<1>7. CASE ReopenNext
  BY <1>5, <1>7 DEF ReopenNext, CheckReopen, AppendReopenEvent, SnapshotReopen,
                    ReviewReopen, DecideReopen, CrashReopen
<1>8. CASE UNCHANGED periodVars
  BY <1>5, <1>8 DEF periodVars, bookVars
<1> QED BY <1>4, <1>6, <1>7, <1>8 DEF PeriodsNext

(* What a reopen in flight carries, after the step as well.                 *)
Carries(r) ==
  /\ r \in Reopens /\ r.latest <= Len(decisions)
  /\ r.at \in {"snapshot", "reviewed"} => r.packet \in Packets /\ OfWindow(r.packet, r.period)
  /\ r.at = "reviewed" => r.packet \in reviews

LEMMA CarriesLater ==
  ASSUME EvidenceInv, DecisionStep \/ ReviewStep, NEW r, Carries(r)
  PROVE  Carries(r)'
<1>1. PICK n \in Nat : n = Len(decisions)
  BY DEF EvidenceInv, DecisionsTyped
<1>2. reviews \subseteq reviews'
  BY DEF DecisionStep, ReviewStep
<1>3. Len(decisions') \in {n, n + 1}
  <2>1. CASE ReviewStep
    BY <1>1, <2>1 DEF ReviewStep
  <2>2. CASE DecisionStep
    <3>1. PICK dec \in DecisionRecords : decisions' = Append(decisions, dec)
      BY <2>2 DEF DecisionStep, Grounded
    <3> QED BY <1>1, <3>1 DEF EvidenceInv, DecisionsTyped
  <2> QED BY <2>1, <2>2
<1>4. r.latest \in Nat /\ r.latest <= n
  BY <1>1 DEF Carries, Reopens
<1>5. r.latest <= Len(decisions')
  BY <1>3, <1>4
<1> QED BY <1>2, <1>5 DEF Carries

(* A step of a reopen puts something it may carry in place of what it had.  *)
ReopenCarries ==
  \/ reopening' = reopening
  \/ \E proc \in Procs : reopening' = [reopening EXCEPT ![proc] = None]
  \/ \E proc \in Procs : \E r : /\ reopening' = [reopening EXCEPT ![proc] = r]
                                 /\ Carries(r)'

LEMMA ReopenStepsCarry ==
  ASSUME EvidenceInv, [PeriodsNext]_periodVars
  PROVE  ReopenCarries
<1>0. DecisionStep \/ ReviewStep
  BY DecisionsKeep
<1>1. ASSUME NEW proc \in Procs, NEW p \in Periods, CheckReopen(proc, p)
      PROVE  ReopenCarries
  <2>1. PICK r : r = [at |-> "checked", period |-> p, packet |-> None, latest |-> 0]
    OBVIOUS
  <2>2. reopening' = [reopening EXCEPT ![proc] = r]
    BY <1>1, <2>1 DEF CheckReopen
  <2>3. r \in Reopens /\ r.at = "checked" /\ r.latest = 0
    BY <2>1 DEF Reopens
  <2>4. Len(decisions) \in Nat
    BY DEF EvidenceInv, DecisionsTyped
  <2>5. Carries(r)
    BY <2>3, <2>4 DEF Carries
  <2>6. Carries(r)'
    BY <1>0, <2>5, CarriesLater
  <2> QED BY <2>2, <2>6 DEF ReopenCarries
<1>2. ASSUME NEW proc \in Procs, AppendReopenEvent(proc)
      PROVE  ReopenCarries
  <2>1. PICK old : old = reopening[proc]
    OBVIOUS
  <2>2. old \in Reopens /\ Carries(old)
    BY <1>2, <2>1 DEF AppendReopenEvent, EvidenceInv, ReopensCarry, Carries
  <2>3. PICK r : r = [old EXCEPT !.at = "event"]
    OBVIOUS
  <2>4. reopening' = [reopening EXCEPT ![proc] = r]
    BY <1>2, <2>1, <2>3 DEF AppendReopenEvent
  <2>5. r \in Reopens /\ r.at = "event" /\ r.latest = old.latest
    BY <2>2, <2>3 DEF Reopens
  <2>6. Carries(r)
    BY <2>2, <2>5 DEF Carries
  <2>7. Carries(r)'
    BY <1>0, <2>6, CarriesLater
  <2> QED BY <2>4, <2>7 DEF ReopenCarries
<1>3. ASSUME NEW proc \in Procs, SnapshotReopen(proc)
      PROVE  ReopenCarries
  <2>1. PICK old : old = reopening[proc]
    OBVIOUS
  <2>2. old \in Reopens /\ Carries(old)
    BY <1>3, <2>1 DEF SnapshotReopen, EvidenceInv, ReopensCarry, Carries
  <2>3. PICK packet : packet = Readiness(old.period)
    OBVIOUS
  <2>4. packet \in Packets /\ OfWindow(packet, old.period)
    BY <2>2, <2>3, ReadinessTyped DEF Reopens
  <2>5. PICK r : r = [old EXCEPT !.at = "snapshot", !.packet = packet]
    OBVIOUS
  <2>6. reopening' = [reopening EXCEPT ![proc] = r]
    <3>1. DOMAIN reopening = Procs /\ reopening[proc] # None
      BY <1>3 DEF EvidenceInv, PeriodsInv, ReopensTyped, SnapshotReopen
    <3> QED BY <1>3, <2>1, <2>2, <2>3, <2>5, <3>1 DEF SnapshotReopen, Reopens
  <2>7. r \in Reopens /\ r.at = "snapshot" /\ r.latest = old.latest /\ r.packet = packet
        /\ r.period = old.period
    BY <2>2, <2>4, <2>5 DEF Reopens
  <2>8. Carries(r)
    BY <2>2, <2>4, <2>7 DEF Carries
  <2>9. Carries(r)'
    BY <1>0, <2>8, CarriesLater
  <2> QED BY <2>6, <2>9 DEF ReopenCarries
<1>4. ASSUME NEW proc \in Procs, ReviewReopen(proc)
      PROVE  ReopenCarries
  <2>1. PICK old : old = reopening[proc]
    OBVIOUS
  <2>2. old \in Reopens /\ Carries(old) /\ old.at = "snapshot"
    BY <1>4, <2>1 DEF ReviewReopen, EvidenceInv, ReopensCarry, Carries
  <2>3. LatestPeriodCloseDecision(old.period) \in 0 .. Len(decisions)
        /\ Len(decisions) \in Nat
    BY LatestInRange DEF EvidenceInv, DecisionsTyped
  <2>4. PICK latest \in Nat : latest = LatestPeriodCloseDecision(old.period)
                              /\ latest <= Len(decisions)
    BY <2>3
  <2>5. PICK r : r = [old EXCEPT !.at = "reviewed", !.latest = latest]
    OBVIOUS
  <2>6. reopening' = [reopening EXCEPT ![proc] = r]
    <3>1. DOMAIN reopening = Procs /\ reopening[proc] # None
      BY <1>4 DEF EvidenceInv, PeriodsInv, ReopensTyped, ReviewReopen
    <3> QED BY <1>4, <2>1, <2>2, <2>4, <2>5, <3>1 DEF ReviewReopen, Reopens
  <2>7. r \in Reopens /\ r.at = "reviewed" /\ r.latest = latest /\ r.packet = old.packet
        /\ r.period = old.period
    BY <2>2, <2>4, <2>5 DEF Reopens
  <2>8. r.packet \in reviews' /\ UNCHANGED decisions
    BY <1>4, <2>1, <2>7 DEF ReviewReopen, closeVars
  <2>9. Carries(r)'
    BY <2>2, <2>4, <2>7, <2>8 DEF Carries
  <2> QED BY <2>6, <2>9 DEF ReopenCarries
<1>5. ASSUME NEW proc \in Procs, DecideReopen(proc) \/ CrashReopen(proc)
      PROVE  ReopenCarries
  BY <1>5 DEF DecideReopen, CrashReopen, ReopenCarries
<1>6. CASE ReopenNext
  BY <1>1, <1>2, <1>3, <1>4, <1>5, <1>6 DEF ReopenNext
<1>7. CASE CloseNext
  BY <1>7 DEF CloseNext, ClosePeriod, ReclosePeriod, ReportPeriod,
              BackfillReference, ReviewReadiness, ReopenCarries
<1>8. CASE BooksNext
  BY <1>8 DEF BooksNext, PostEntry, ImportBankLine, SettleDay, ReopenCarries
<1>9. CASE UNCHANGED periodVars
  BY <1>9 DEF periodVars, ReopenCarries
<1> QED BY <1>6, <1>7, <1>8, <1>9 DEF PeriodsNext

LEMMA ReopensKeep ==
  ASSUME EvidenceInv, [PeriodsNext]_periodVars
  PROVE  ReopensCarry'
<1>1. ASSUME NEW proc \in Procs, reopening'[proc] # None
      PROVE  Carries(reopening[proc])'
  <2>1. PICK r : r = reopening'[proc]
    OBVIOUS
  <2>2. \/ r = reopening[proc]
        \/ Carries(r)'
    BY <1>1, <2>1, ReopenStepsCarry DEF ReopenCarries, EvidenceInv, PeriodsInv, ReopensTyped
  <2>3. r = reopening[proc] => Carries(r)
    BY <1>1, <2>1 DEF EvidenceInv, ReopensCarry, Carries
  <2>4. Carries(r)'
    BY <2>2, <2>3, DecisionsKeep, CarriesLater
  <2> QED BY <2>1, <2>4
<1> QED BY <1>1 DEF ReopensCarry, Carries

LEMMA EvidenceKeeps ==
  ASSUME EvidenceInv, [PeriodsNext]_periodVars
  PROVE  EvidenceInv'
<1>1. PeriodsInv'
  BY PeriodsNextInv DEF EvidenceInv
<1>2. DecisionsTyped' /\ DecisionsHaveEvidence'
  BY DecisionsKeep, DecisionStepKeeps, ReviewStepKeeps
<1>3. BooksTyped' /\ LogsBounded' /\ ReopensCarry'
  BY BooksKeep, LogsKeep, ReopensKeep
<1> QED BY <1>1, <1>2, <1>3 DEF EvidenceInv

LEMMA PristineTyped ==
  ASSUME NEW p \in Periods
  PROVE  /\ PristinePacket(p) \in Packets /\ OfWindow(PristinePacket(p), p)
         /\ ~NonWaivable(PristinePacket(p)) /\ ~WaivableBlocked(PristinePacket(p))
<1> DEFINE Until == {d \in Dates : d <= End[p]}
           controls == [d \in Until |-> Clean]
<1>1. controls \in UNION {[ds -> Evidence] : ds \in SUBSET Dates}
  <2>1. controls \in [Until -> Evidence] /\ Until \in SUBSET Dates
    BY PeriodsAssumption
  <2> QED BY <2>1
<1>2. \A d \in DOMAIN controls : controls[d] \notin Mismatched
  BY PeriodsAssumption
<1>3. PristinePacket(p) = [window |-> <<Start[p], End[p]>>, lifecycle |-> {},
                           open |-> {}, control |-> controls]
  BY DEF PristinePacket
<1>4. <<Start[p], End[p]>> \in {<<Start[q], End[q]>> : q \in Periods}
  OBVIOUS
<1> HIDE DEF controls
<1>5. PristinePacket(p) \in Packets
  BY <1>1, <1>3, <1>4 DEF Packets
<1> QED BY <1>2, <1>3, <1>5 DEF OfWindow, NonWaivable, WaivableBlocked

LEMMA EvidenceStarts ==
  ASSUME PeriodsInit
  PROVE  EvidenceInv
<1>1. PICK old \in SUBSET Legacy :
       /\ row = [p \in Periods |->
            [status |-> IF p \in old THEN "closed" ELSE "none", ref |-> None]]
       /\ events = [p \in Periods |->
            IF p \in old THEN <<"period_close", "period_report">> ELSE <<>>]
       /\ decisions =
            SetToSeq({Decision(p, PristinePacket(p), "closed", 0) : p \in old})
       /\ reviews = {PristinePacket(p) : p \in old}
  BY DEF PeriodsInit
<1>2. old \in SUBSET Periods /\ IsFiniteSet(old)
  BY PeriodsAssumption, FS_Subset
<1> DEFINE S == {Decision(p, PristinePacket(p), "closed", 0) : p \in old}
<1>3. IsFiniteSet(S)
  <2> DEFINE f == [p \in old |-> Decision(p, PristinePacket(p), "closed", 0)]
  <2>1. f \in Surjection(old, S)
    BY DEF Surjection
  <2> HIDE DEF f, S
  <2> QED BY <1>2, <2>1, FS_Surjection
<1>4. PICK n \in Nat : n = Cardinality(S) /\ ExistsBijection(1 .. n, S)
  BY <1>3, FS_CardinalityType
<1>5. decisions \in [1 .. n -> S]
  <2>1. \E f \in [1 .. n -> S] : IsInjective(f)
    BY <1>4 DEF ExistsBijection, Bijection, Injection, IsInjective
  <2>2. (CHOOSE f \in [1 .. n -> S] : IsInjective(f)) \in [1 .. n -> S]
    BY <2>1
  <2>3. decisions = CHOOSE f \in [1 .. n -> S] : IsInjective(f)
    BY <1>1, <1>4 DEF SetToSeq
  <2> QED BY <2>2, <2>3
<1>6. PeriodsInv
  BY PeriodsInitInv
<1>7. ASSUME NEW dec \in S
      PROVE  /\ dec \in DecisionRecords /\ dec.supersedes = 0
             /\ dec.packet \in reviews /\ OfWindow(dec.packet, dec.period)
             /\ ~NonWaivable(dec.packet) /\ ~WaivableBlocked(dec.packet)
  <2>1. PICK p \in old : dec = Decision(p, PristinePacket(p), "closed", 0)
    OBVIOUS
  <2>2. p \in Periods
    BY <1>2
  <2>3. PICK packet : packet = PristinePacket(p)
    OBVIOUS
  <2>4. /\ packet \in Packets /\ OfWindow(packet, p)
        /\ ~NonWaivable(packet) /\ ~WaivableBlocked(packet)
    BY <2>2, <2>3, PristineTyped
  <2>5. /\ dec \in DecisionRecords /\ dec.supersedes = 0 /\ dec.packet = packet
        /\ dec.period = p
    BY <2>1, <2>2, <2>3, <2>4 DEF Decision, DecisionRecords
  <2> QED BY <1>1, <2>3, <2>4, <2>5
<1> HIDE DEF S
<1>8. \A k \in 1 .. n : decisions[k] \in S
  BY <1>5
<1>9. S \in SUBSET DecisionRecords
  BY <1>7
<1>10. decisions \in Seq(DecisionRecords) /\ DOMAIN decisions = 1 .. n
  BY <1>5, <1>9
<1>11. DecisionsTyped
  <2>1. \A k \in 1 .. n : decisions[k].supersedes = 0
    BY <1>7, <1>8
  <2>2. reviews \subseteq Packets
    <3>1. \A p \in old : PristinePacket(p) \in Packets
      BY <1>2, PristineTyped
    <3> QED BY <1>1, <3>1
  <2>3. openItems = {}
    BY DEF PeriodsInit
  <2> QED BY <1>10, <2>1, <2>2, <2>3 DEF DecisionsTyped
<1>12. BooksTyped
  BY PeriodsAssumption DEF PeriodsInit, BooksTyped
<1>13. LogsBounded
  <2>1. ASSUME NEW p \in Periods
        PROVE  Len(events[p]) <= MaxEvents /\ (row[p].status # "none" => events[p] # <<>>)
    <3>1. CASE p \in old
      <4>1. events[p] = <<"period_close", "period_report">> /\ MaxEvents >= 2 /\ MaxEvents \in Nat
        BY <1>1, <3>1, PeriodsAssumption
      <4>2. Len(events[p]) = 2 /\ events[p] # <<>>
        BY <4>1
      <4> QED BY <4>1, <4>2
    <3>2. CASE p \notin old
      <4>1. events[p] = <<>> /\ row[p].status = "none" /\ MaxEvents \in Nat
        BY <1>1, <3>2, PeriodsAssumption
      <4>2. Len(events[p]) = 0
        BY <4>1
      <4> QED BY <4>1, <4>2
    <3> QED BY <3>1, <3>2
  <2> QED BY <2>1 DEF LogsBounded
<1>14. ReopensCarry
  BY DEF PeriodsInit, ReopensCarry
<1>15. DecisionsHaveEvidence
  <2>1. \A k \in DOMAIN decisions :
          decisions[k].packet \in reviews /\ OfWindow(decisions[k].packet, decisions[k].period)
    BY <1>7, <1>8, <1>10
  <2>2. \A k \in DOMAIN decisions :
          ~NonWaivable(decisions[k].packet) /\ ~WaivableBlocked(decisions[k].packet)
    BY <1>7, <1>8, <1>10
  <2>3. \A p \in Periods : LockDecisions(p) \in SUBSET DOMAIN decisions
    BY DEF LockDecisions, DecisionsOf
  <2> QED BY <2>1, <2>2, <2>3 DEF DecisionsHaveEvidence, OfWindow
<1> QED BY <1>6, <1>11, <1>12, <1>13, <1>14, <1>15 DEF EvidenceInv

(* The invariant behind the decisions: logs, packets and decisions agree,   *)
(* whatever reopens are in flight or died between two commits.              *)
THEOREM EvidenceInvariant == PeriodsSpec => []EvidenceInv
<1>1. PeriodsInit => EvidenceInv
  BY EvidenceStarts
<1>2. EvidenceInv /\ [PeriodsNext]_periodVars => EvidenceInv'
  BY EvidenceKeeps
<1> QED BY <1>1, <1>2, PTL DEF PeriodsSpec

(* Rows, logs, packets, decisions and reopens in flight have their types,   *)
(* and what they refer to exists.                                           *)
THEOREM PeriodsTypes == PeriodsSpec => []PeriodsTypeOK
<1>1. EvidenceInv => PeriodsTypeOK
  <2> SUFFICES ASSUME EvidenceInv PROVE PeriodsTypeOK
    OBVIOUS
  <2> USE DEF EvidenceInv
  <2>1. /\ row \in [Periods -> [status : {"none", "closed", "reported"},
                                ref : References \cup {None}]]
        /\ \A p \in Periods : Len(events[p]) <= MaxEvents
    BY DEF PeriodsInv, RowsTyped, LogsBounded
  <2>2. \A k \in DOMAIN decisions :
          /\ decisions[k].period \in Periods
          /\ decisions[k].packet \in Packets
          /\ decisions[k].decision \in {"closed", "forced_closed", "reopened"}
          /\ decisions[k].supersedes \in 0..(k - 1)
    <3>1. ASSUME NEW k \in DOMAIN decisions
          PROVE  decisions[k] \in DecisionRecords
                 /\ decisions[k].supersedes \in 0..(k - 1)
      BY DEF DecisionsTyped
    <3> QED BY <3>1 DEF DecisionRecords
  <2>3. /\ \A i \in openItems : i.decision \in DOMAIN decisions /\ i.period \in Periods
        /\ reviews \subseteq Packets
    BY DEF DecisionsTyped
  <2>4. \A proc \in Procs : reopening[proc] # None =>
          reopening[proc].period \in Periods /\ reopening[proc].latest \in 0..Len(decisions)
    <3>1. Len(decisions) \in Nat
      BY DEF DecisionsTyped
    <3> QED BY <3>1 DEF ReopensCarry, Reopens
  <2> QED BY <2>1, <2>2, <2>3, <2>4 DEF BooksTyped, PeriodsTypeOK
<1> QED BY <1>1, EvidenceInvariant, PTL

(* Every lifecycle decision rests on a packet of its own window that was    *)
(* reviewed, no lock on a blocker nobody may waive, and what was waived is  *)
(* an open item: for any number of periods, processes that reopen at the    *)
(* same time, and crashes between their commits.                            *)
THEOREM DecisionsRestOnEvidence == PeriodsSpec => []DecisionsHaveEvidence
<1>1. EvidenceInv => DecisionsHaveEvidence
  BY DEF EvidenceInv
<1> QED BY <1>1, EvidenceInvariant, PTL
=============================================================================
