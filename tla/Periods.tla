------------------------------ MODULE Periods ------------------------------
(***************************************************************************)
(* Closing, reporting and reopening accounting periods: src/core/periods.ts *)
(* over the append-only packets, reviews and decisions of                   *)
(* src/core/period-close-readiness.ts.                                      *)
(*                                                                         *)
(* A close is one BEGIN IMMEDIATE transaction and one action.  A reopen has *)
(* no transaction: every statement of it commits on its own, so other       *)
(* processes run between its steps and a crash leaves it half done.         *)
(***************************************************************************)
EXTENDS Integers, Sequences, FiniteSets, FiniteSetsExt, SequencesExt

CONSTANTS
  Dates,        \* days, as an interval of integers
  Today,        \* the day on which everything happens
  Periods,      \* periods callers may ask for
  Start, End,   \* [Periods -> Dates], period_start and period_end
  Kind,         \* [Periods -> kinds], canonicalPeriodKind
  Legacy,       \* periods an old program may have reported, in the audit log alone
  Evidence,     \* what the control accounts can show for one day
  Mismatched,   \* the evidence under which a control account disagrees
  Clean,        \* the evidence of a day nothing happened on
  References,   \* filing receipts
  None,         \* no receipt, no reopen in flight
  Procs,        \* operating-system processes
  Crashes,      \* may a process die in the middle of a reopen
  MaxEvents,    \* bound on the lifecycle events of one period
  MaxReviews,   \* bound on the reviews asked for explicitly
  MaxPostings   \* bound on the postings of one day

ASSUME PeriodsAssumption ==
  /\ Dates \subseteq Int
  /\ Start \in [Periods -> Dates] /\ End \in [Periods -> Dates]
  /\ Legacy \subseteq Periods /\ IsFiniteSet(Legacy)
  /\ \A p, q \in Legacy :
       p # q /\ Kind[p] = Kind[q] => End[p] < Start[q] \/ End[q] < Start[p]
  /\ Clean \in Evidence \ Mismatched
  /\ None \notin References
  /\ Crashes \in BOOLEAN
  /\ MaxEvents \in Nat /\ MaxReviews \in Nat /\ MaxPostings \in Nat
  /\ Legacy # {} => MaxEvents >= 2

VARIABLES
  row,        \* accounting_periods: status ("none": no row) and reference
  events,     \* audit_log of each period, oldest first
  decisions,  \* period_close_decisions, in id order
  openItems,  \* period_close_open_items: the waived blockers of a decision
  reviews,    \* the packets some period_close_reviews row carries
  postings,   \* number of journal entries dated on a day
  control,    \* what the control accounts show for a day
  open,       \* days with an unreconciled bank line or an open exception
  reopening   \* the reopen a process is in the middle of

bookVars == <<postings, control, open>>
closeVars == <<row, events, decisions, openItems>>
periodVars == <<row, events, decisions, openItems, reviews,
                postings, control, open, reopening>>

-----------------------------------------------------------------------------
(* Lifecycle.                                                               *)

Days(p) == {d \in Dates : Start[p] <= d /\ d <= End[p]}

Overlap(p, q) == Start[p] <= End[q] /\ Start[q] <= End[p]

(* The replay of the audit events over the row status: `reported` absorbs,  *)
(* otherwise the last close or reopen counts.                               *)
Replay(status, log) ==
  LET moves == {i \in DOMAIN log : log[i] \in {"period_close", "period_reopen"}}
  IN  IF status = "reported" \/ \E i \in DOMAIN log : log[i] = "period_report"
        THEN "reported"
      ELSE IF moves = {} THEN status
      ELSE IF log[Max(moves)] = "period_close" THEN "closed" ELSE "open"

(* The loop of effectivePeriodState, event by event.                        *)
ReplayEvent(state, event) ==
  CASE state = "reported"         -> state
    [] event = "period_report"    -> "reported"
    [] event = "period_close"     -> "closed"
    [] event = "period_reopen"    -> "open"
    [] OTHER                      -> state

EffectivePeriodState(p) == Replay(row[p].status, events[p])

(* A mutant of Locked: only rows that read `closed` are candidates.         *)
LockedByClosed(d) ==
  \E p \in Periods : /\ d \in Days(p)
                     /\ row[p].status = "closed"
                     /\ EffectivePeriodState(p) # "open"

(* validateJournalTransactionDate refuses a date some locked period covers. *)
Locked(d) ==
  \E p \in Periods : /\ d \in Days(p)
                     /\ row[p].status \in {"closed", "reported"}
                     /\ EffectivePeriodState(p) # "open"

-----------------------------------------------------------------------------
(* Readiness.                                                               *)

(* PERIOD_LIFECYCLE: overlapping periods whose last event is not a reopen.  *)
LifecycleEvidence(p) ==
  {[period |-> q, row |-> row[q],
    last |-> IF events[q] = <<>> THEN "none" ELSE events[q][Len(events[q])]] :
     q \in {q \in Periods :
              /\ row[q].status # "none"
              /\ Overlap(p, q)
              /\ events[q] = <<>> \/ events[q][Len(events[q])] # "period_reopen"}}

(* computePeriodCloseReadiness: the controls of a window.  Its hash is as   *)
(* good as the packet, so packets stand for their hashes.                   *)
Readiness(p) ==
  [window    |-> <<Start[p], End[p]>>,
   lifecycle |-> LifecycleEvidence(p),
   open      |-> open \cap Days(p),
   control   |-> [d \in {d \in Dates : d <= End[p]} |-> control[d]]]

(* Blocked or unavailable controls that no force may waive.                 *)
NonWaivable(packet) ==
  \/ packet.lifecycle # {}
  \/ \E d \in DOMAIN packet.control : packet.control[d] \in Mismatched

WaivableBlocked(packet) == packet.open # {}

DecisionsOf(p) == {k \in DOMAIN decisions : decisions[k].period = p}

(* A mutant of LatestPeriodCloseDecision: it is read after the insert.      *)
LatestAfterInsert(p) == Len(decisions) + 1

LatestPeriodCloseDecision(p) == Max(DecisionsOf(p) \cup {0})

Decision(p, packet, kind, supersedes) ==
  [period |-> p, packet |-> packet, decision |-> kind, supersedes |-> supersedes]

LockDecisions(p) ==
  {k \in DecisionsOf(p) : decisions[k].decision \in {"closed", "forced_closed"}}

-----------------------------------------------------------------------------
(* Closing and reporting.                                                   *)

Idle == \E proc \in Procs : reopening[proc] = None

Room(p, n) == Len(events[p]) + n <= MaxEvents

(* What a close rechecks under the write lock: the packet somebody          *)
(* reviewed is still the readiness of the books, and whatever it blocks on  *)
(* is waivable and waived.                                                  *)
ReadyToClose(p, force) ==
  LET packet == Readiness(p) IN
  /\ packet \in reviews
  /\ ~NonWaivable(packet)
  /\ ~force => ~WaivableBlocked(packet) /\ End[p] <= Today

(* A mutant of RecordClose: the waived blockers are not written down.       *)
RecordCloseNoItems(p, event, force) ==
  /\ events' = [events EXCEPT ![p] = Append(@, event)]
  /\ decisions' = Append(decisions,
       Decision(p, Readiness(p), IF force THEN "forced_closed" ELSE "closed",
                LatestPeriodCloseDecision(p)))
  /\ openItems' = openItems

(* The audit events and the evidence of a close: the decision, and with     *)
(* `force` the open items it waived.                                        *)
RecordClose(p, event, force) ==
  LET packet == Readiness(p)
      waived == force /\ WaivableBlocked(packet)
      id     == Len(decisions) + 1
  IN  /\ events' = [events EXCEPT ![p] = @ \o
           IF waived THEN <<event, "PERIOD_CLOSED_WITH_OPEN_ITEMS">> ELSE <<event>>]
      /\ decisions' = Append(decisions,
           Decision(p, packet, IF force THEN "forced_closed" ELSE "closed",
                    LatestPeriodCloseDecision(p)))
      /\ openItems' = openItems \cup
           IF waived THEN {[decision |-> id, period |-> p, packet |-> packet,
                            items |-> packet.open]} ELSE {}

(* A mutant of ClosePeriod: no look at overlapping periods.                 *)
ClosePeriodAnyway(p, status, ref, force) ==
  /\ Idle
  /\ row[p].status = "none"
  /\ ReadyToClose(p, force)
  /\ Room(p, IF force THEN 2 ELSE 1)
  /\ row' = [row EXCEPT ![p] = [status |-> status, ref |-> ref]]
  /\ RecordClose(p, IF status = "reported" THEN "period_report"
                                           ELSE "period_close", force)
  /\ UNCHANGED <<reviews, reopening>> /\ UNCHANGED bookVars

(* The first close of a period, or its first close straight to `reported`;  *)
(* no period of the same kind may overlap it.                               *)
ClosePeriod(p, status, ref, force) ==
  /\ Idle
  /\ row[p].status = "none"
  /\ ReadyToClose(p, force)
  /\ \A q \in Periods :
       Kind[q] = Kind[p] /\ row[q].status # "none" => ~Overlap(p, q)
  /\ Room(p, IF force THEN 2 ELSE 1)
  /\ row' = [row EXCEPT ![p] = [status |-> status, ref |-> ref]]
  /\ RecordClose(p, IF status = "reported" THEN "period_report"
                                           ELSE "period_close", force)
  /\ UNCHANGED <<reviews, reopening>> /\ UNCHANGED bookVars

(* Closing a reopened period again: the row stays as it is, a receipt the   *)
(* caller gives replaces the stored one.                                    *)
ReclosePeriod(p, ref, force) ==
  /\ Idle
  /\ row[p].status # "none" /\ EffectivePeriodState(p) = "open"
  /\ ReadyToClose(p, force)
  /\ Room(p, IF force THEN 2 ELSE 1)
  /\ row' = [row EXCEPT ![p].ref = IF ref = None THEN @ ELSE ref]
  /\ RecordClose(p, "period_close", force)
  /\ UNCHANGED <<reviews, reopening>> /\ UNCHANGED bookVars

(* A period whose row reads `closed` is reported with a receipt, bound to   *)
(* the packet of its last close; readiness is not computed again.           *)
ReportPeriod(p, ref) ==
  /\ Idle
  /\ row[p].status = "closed"
  /\ LockDecisions(p) # {}
  /\ EffectivePeriodState(p) # "reported" \/ row[p].ref # None
  /\ Room(p, 1)
  /\ row' = [row EXCEPT ![p] = [status |-> "reported", ref |-> ref]]
  /\ events' = [events EXCEPT ![p] = @ \o <<"period_report">>]
  /\ decisions' = Append(decisions,
       Decision(p, decisions[Max(LockDecisions(p))].packet, "closed",
                LatestPeriodCloseDecision(p)))
  /\ UNCHANGED <<openItems, reviews, reopening>> /\ UNCHANGED bookVars

(* A mutant of BackfillReference: a receipt may replace a receipt.          *)
BackfillAgain(p, ref) ==
  /\ Idle
  /\ LockDecisions(p) # {}
  /\ EffectivePeriodState(p) = "reported"
  /\ Room(p, 1)
  /\ row' = [row EXCEPT ![p] = [status |-> "reported", ref |-> ref]]
  /\ events' = [events EXCEPT ![p] = @ \o <<"period_report_reference_backfill">>]
  /\ UNCHANGED <<decisions, openItems, reviews, reopening>> /\ UNCHANGED bookVars

(* A period an old program reported in the audit log alone gets its receipt *)
(* once.                                                                    *)
BackfillReference(p, ref) ==
  /\ Idle
  /\ row[p] = [status |-> "closed", ref |-> None]
  /\ LockDecisions(p) # {}
  /\ EffectivePeriodState(p) = "reported"
  /\ Room(p, 1)
  /\ row' = [row EXCEPT ![p] = [status |-> "reported", ref |-> ref]]
  /\ events' = [events EXCEPT ![p] = @ \o <<"period_report_reference_backfill">>]
  /\ UNCHANGED <<decisions, openItems, reviews, reopening>> /\ UNCHANGED bookVars

(* reviewPeriodCloseReadiness on behalf of a caller.                        *)
ReviewReadiness(p) ==
  /\ Idle
  /\ Cardinality(reviews) < MaxReviews
  /\ reviews' = reviews \cup {Readiness(p)}
  /\ UNCHANGED <<closeVars, reopening>> /\ UNCHANGED bookVars

-----------------------------------------------------------------------------
(* Reopening: every step is a statement that commits on its own.            *)

(* The check of the effective state.                                        *)
CheckReopen(proc, p) ==
  /\ reopening[proc] = None
  /\ row[p].status # "none"
  /\ EffectivePeriodState(p) = "closed"
  /\ Room(p, 1)
  /\ reopening' = [reopening EXCEPT ![proc] =
       [at |-> "checked", period |-> p, packet |-> None, latest |-> 0]]
  /\ UNCHANGED <<closeVars, reviews>> /\ UNCHANGED bookVars

(* The period_reopen event: from here on the period accepts postings.       *)
AppendReopenEvent(proc) ==
  /\ reopening[proc] # None /\ reopening[proc].at = "checked"
  /\ LET p == reopening[proc].period IN
       /\ Room(p, 1)
       /\ events' = [events EXCEPT ![p] = @ \o <<"period_reopen">>]
  /\ reopening' = [reopening EXCEPT ![proc].at = "event"]
  /\ UNCHANGED <<row, decisions, openItems, reviews>> /\ UNCHANGED bookVars

(* The fresh snapshot of the readiness.                                     *)
SnapshotReopen(proc) ==
  /\ reopening[proc] # None /\ reopening[proc].at = "event"
  /\ reopening' = [reopening EXCEPT ![proc].at = "snapshot",
                                    ![proc].packet = Readiness(reopening[proc].period)]
  /\ UNCHANGED <<closeVars, reviews>> /\ UNCHANGED bookVars

(* A mutant of ReviewReopen: the snapshot is not persisted.                 *)
ReviewReopenUnsaved(proc) ==
  /\ reopening[proc] # None /\ reopening[proc].at = "snapshot"
  /\ reopening' = [reopening EXCEPT ![proc].at = "reviewed",
       ![proc].latest = LatestPeriodCloseDecision(reopening[proc].period)]
  /\ UNCHANGED <<closeVars, reviews>> /\ UNCHANGED bookVars

(* Persist it, then look up the decision to supersede.                      *)
ReviewReopen(proc) ==
  /\ reopening[proc] # None /\ reopening[proc].at = "snapshot"
  /\ reviews' = reviews \cup {reopening[proc].packet}
  /\ reopening' = [reopening EXCEPT ![proc].at = "reviewed",
       ![proc].latest = LatestPeriodCloseDecision(reopening[proc].period)]
  /\ UNCHANGED closeVars /\ UNCHANGED bookVars

(* The `reopened` decision.                                                 *)
DecideReopen(proc) ==
  /\ reopening[proc] # None /\ reopening[proc].at = "reviewed"
  /\ decisions' = Append(decisions,
       Decision(reopening[proc].period, reopening[proc].packet, "reopened",
                reopening[proc].latest))
  /\ reopening' = [reopening EXCEPT ![proc] = None]
  /\ UNCHANGED <<row, events, openItems, reviews>> /\ UNCHANGED bookVars

(* The process dies: what it has committed stays.                           *)
CrashReopen(proc) ==
  /\ Crashes
  /\ reopening[proc] # None
  /\ reopening' = [reopening EXCEPT ![proc] = None]
  /\ UNCHANGED <<closeVars, reviews>> /\ UNCHANGED bookVars

-----------------------------------------------------------------------------
(* The books.                                                               *)

(* postJournalEntry: refused in a locked period.  It may or may not move a  *)
(* control account.                                                         *)
PostEntry(d, e) ==
  /\ Idle
  /\ ~Locked(d)
  /\ postings[d] < MaxPostings
  /\ postings' = [postings EXCEPT ![d] = @ + 1]
  /\ control' = [control EXCEPT ![d] = e]
  /\ UNCHANGED <<closeVars, reviews, open, reopening>>

(* importBankCsv: a statement line moves the statement balance and has no   *)
(* journal yet.  No period lock applies to it.                              *)
ImportBankLine(d, e) ==
  /\ Idle
  /\ open' = open \cup {d}
  /\ control' = [control EXCEPT ![d] = e]
  /\ UNCHANGED <<closeVars, reviews, postings, reopening>>

(* The bank lines and exceptions of a day are reconciled or resolved.       *)
SettleDay(d) ==
  /\ Idle
  /\ d \in open
  /\ open' = open \ {d}
  /\ UNCHANGED <<closeVars, reviews, postings, control, reopening>>

-----------------------------------------------------------------------------
PristinePacket(p) ==
  [window |-> <<Start[p], End[p]>>, lifecycle |-> {}, open |-> {},
   control |-> [d \in {d \in Dates : d <= End[p]} |-> Clean]]

PeriodsInit ==
  /\ \E old \in SUBSET Legacy :
       /\ row = [p \in Periods |->
            [status |-> IF p \in old THEN "closed" ELSE "none", ref |-> None]]
       /\ events = [p \in Periods |->
            IF p \in old THEN <<"period_close", "period_report">> ELSE <<>>]
       /\ decisions =
            SetToSeq({Decision(p, PristinePacket(p), "closed", 0) : p \in old})
       /\ reviews = {PristinePacket(p) : p \in old}
  /\ openItems = {}
  /\ postings = [d \in Dates |-> 0]
  /\ control = [d \in Dates |-> Clean]
  /\ open = {}
  /\ reopening = [proc \in Procs |-> None]

CloseNext ==
  \E p \in Periods :
    \/ \E status \in {"closed", "reported"}, ref \in References \cup {None},
          force \in BOOLEAN : ClosePeriod(p, status, ref, force)
    \/ \E ref \in References \cup {None}, force \in BOOLEAN : ReclosePeriod(p, ref, force)
    \/ \E ref \in References : ReportPeriod(p, ref)
    \/ \E ref \in References : BackfillReference(p, ref)
    \/ ReviewReadiness(p)

ReopenNext ==
  \E proc \in Procs :
    \/ \E p \in Periods : CheckReopen(proc, p)
    \/ AppendReopenEvent(proc)
    \/ SnapshotReopen(proc)
    \/ ReviewReopen(proc)
    \/ DecideReopen(proc)
    \/ CrashReopen(proc)

BooksNext ==
  \E d \in Dates :
    \/ \E e \in Evidence : PostEntry(d, e)
    \/ \E e \in Evidence : ImportBankLine(d, e)
    \/ SettleDay(d)

PeriodsNext == CloseNext \/ ReopenNext \/ BooksNext

PeriodsSpec == PeriodsInit /\ [][PeriodsNext]_periodVars

-----------------------------------------------------------------------------
(* Properties.                                                              *)

Packets ==
  [window : {<<Start[p], End[p]>> : p \in Periods},
   lifecycle : SUBSET [period : Periods,
                       row : [status : {"closed", "reported"}, ref : References \cup {None}],
                       last : {"period_close", "period_report",
                               "PERIOD_CLOSED_WITH_OPEN_ITEMS",
                               "period_report_reference_backfill"}],
   open : SUBSET Dates,
   control : UNION {[ds -> Evidence] : ds \in SUBSET Dates}]

(* Type invariant: rows, events, decisions and the steps of a reopen have   *)
(* their shape, and references between them are in range.                   *)
PeriodsTypeOK ==
  /\ row \in [Periods -> [status : {"none", "closed", "reported"},
                          ref : References \cup {None}]]
  /\ \A p \in Periods : Len(events[p]) <= MaxEvents
  /\ \A k \in DOMAIN decisions :
       /\ decisions[k].period \in Periods
       /\ decisions[k].packet \in Packets
       /\ decisions[k].decision \in {"closed", "forced_closed", "reopened"}
       /\ decisions[k].supersedes \in 0..(k - 1)
  /\ \A i \in openItems : i.decision \in DOMAIN decisions /\ i.period \in Periods
  /\ reviews \subseteq Packets
  /\ postings \in [Dates -> 0..MaxPostings]
  /\ control \in [Dates -> Evidence]
  /\ open \subseteq Dates
  /\ \A proc \in Procs : reopening[proc] # None =>
       /\ reopening[proc].period \in Periods
       /\ reopening[proc].latest \in 0..Len(decisions)

(* A period that is reported stays reported and keeps its filing reference, *)
(* even when another process was in the middle of reopening it (KODE-9).    *)
ReportedIsTerminal ==
  [][\A p \in Periods : EffectivePeriodState(p) = "reported" =>
       /\ EffectivePeriodState(p)' = "reported"
       /\ row[p].ref # None => row'[p].ref = row[p].ref]_periodVars

(* Nothing is posted into a reported period any more, whoever closes or     *)
(* reopens periods that overlap it.                                         *)
ReportedBooksFrozen ==
  [][\A p \in Periods : EffectivePeriodState(p) = "reported" =>
       \A d \in Days(p) : postings'[d] = postings[d]]_periodVars

(* Two periods of one kind never overlap, although a reopened period no     *)
(* longer blocks the readiness of the windows it covers.                    *)
SameKindDisjoint ==
  \A p, q \in Periods :
    /\ p # q /\ Kind[p] = Kind[q]
    /\ row[p].status # "none" /\ row[q].status # "none"
    => ~Overlap(p, q)

(* Every lifecycle decision rests on a packet of its own window that        *)
(* somebody reviewed, the decision of a half-finished reopen included; no   *)
(* period was ever locked on a packet with a blocker nobody may waive; and  *)
(* what was waived stands as an open item of the period, also when the lock *)
(* is the report that follows a forced close.                               *)
DecisionsHaveEvidence ==
  /\ \A k \in DOMAIN decisions :
       /\ decisions[k].packet \in reviews
       /\ decisions[k].packet.window =
            <<Start[decisions[k].period], End[decisions[k].period]>>
  /\ \A p \in Periods : \A k \in LockDecisions(p) :
       LET packet == decisions[k].packet IN
       /\ ~NonWaivable(packet)
       /\ WaivableBlocked(packet) =>
            \E i \in openItems :
              i.period = p /\ i.packet = packet /\ i.decision <= k

-----------------------------------------------------------------------------
(* What the repository says and the code does not do.                       *)

(* periods.ts, on the reopen: the decision "explicitly supersedes the last  *)
(* lifecycle decision for this period".                                     *)
SupersedesLast ==
  \A k \in DOMAIN decisions :
    decisions[k].supersedes = Max({j \in DecisionsOf(decisions[k].period) : j < k} \cup {0})

=============================================================================
