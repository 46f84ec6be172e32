------------------------- MODULE RecurringDelivery -------------------------
(***************************************************************************)
(* Recurring invoices: src/core/recurring-runner.ts and the generation in  *)
(* src/core/recurring-invoices.ts over the tables, unique indexes and      *)
(* triggers of migration 0003.                                             *)
(*                                                                         *)
(* A scheduler, or several, calls the runner; a person may generate a      *)
(* single period beside it.  The runner reads what is due, then works      *)
(* through the list: each invoice is one BEGIN IMMEDIATE transaction, each *)
(* delivery awaits the transport between commits, and the process may die  *)
(* anywhere.                                                               *)
(***************************************************************************)
EXTENDS Integers, FiniteSets

CONSTANTS
  Templates,   \* template ids
  Manual,      \* the templates with delivery channel `manual`
  LastIndex,   \* the last period a run is asked for
  Rejected,    \* periods whose invoice issueInvoice refuses
  Cap,         \* maxGenerations
  Procs,       \* processes that may generate a single period
  Schedulers,  \* those of them that also run the runner
  None,        \* no run
  MaxCrashes   \* bound on the number of crashes

(* A generation: a template and the index of a period of it.                *)
Gens == Templates \X (0..LastIndex)

ASSUME RecurringAssumption ==
  /\ Templates \subseteq Int
  /\ Manual \subseteq Templates
  /\ LastIndex \in Nat
  /\ Rejected \subseteq Gens
  /\ Cap \in Nat \ {0}
  /\ MaxCrashes \in Nat

VARIABLES
  active,     \* templates nobody has retired
  generated,  \* recurring_invoice_generations
  documents,  \* how many invoices were issued for a generation
  nextIssue,  \* next_issue_date of a template, as a period index
  latest,     \* the last recurring_invoice_delivery_events row
  attempts,   \* generations with an `attempted` row
  ready,      \* templates whose preflight would pass
  provider,   \* what the provider has made of a document (external)
  sent,       \* how often a document crossed the transport
  run,        \* the run a process is in the middle of
  crashes     \* how many processes have died

issueVars == <<active, generated, documents, nextIssue>>
deliveryVars == <<latest, attempts, ready, provider, sent>>
recurringVars == <<issueVars, deliveryVars, run, crashes>>

-----------------------------------------------------------------------------
(* Order and limits: by template id, then by period.                        *)

Before(g, h) == g[1] < h[1] \/ (g[1] = h[1] /\ g[2] < h[2])

IsFirst(g, S) == g \in S /\ \A h \in S \ {g} : Before(g, h)

Capped(S) == {g \in S : Cardinality({h \in S : Before(h, g)}) < Cap}

Busy(proc, at) == run[proc] # None /\ run[proc].at = at

(* What a status answer may say; it may be older than the provider's state. *)
Answers(state) ==
  CASE state = "none"      -> {}
    [] state = "accepted"  -> {"accepted_pending"}
    [] state = "delivered" -> {"accepted_pending", "acknowledged"}
    [] state = "rejected"  -> {"accepted_pending", "terminal_failed"}

(* A mutant of Retryable: a failed preflight is final.                      *)
RetryableOnce == {"none"}

(* The last events after which a delivery is tried.                         *)
Retryable == {"none", "preflight_failed"}

(* A mutant of Observable: nobody asks about accepted documents again.      *)
ObservableNever == {}

(* The last events after which the provider is asked for the status.        *)
Observable == {"accepted_pending"}

-----------------------------------------------------------------------------
(* Generating.                                                              *)

(* A mutant of StartRun: periods before the next date are not looked at.    *)
StartRunAtNext(proc, asOf) ==
  /\ proc \in Schedulers /\ run[proc] = None
  /\ LET due == {g \in Gens : g[1] \in active /\ g[2] <= asOf}
     IN  run' = [run EXCEPT ![proc] =
           [at |-> "generate", due |-> due,
            todo |-> Capped({g \in due : g[2] >= nextIssue[g[1]]})]]
  /\ UNCHANGED <<issueVars, deliveryVars, crashes>>

(* The runner reads the active templates, and the first missing periods.    *)
StartRun(proc, asOf) ==
  /\ proc \in Schedulers /\ run[proc] = None
  /\ LET due == {g \in Gens : g[1] \in active /\ g[2] <= asOf}
     IN  run' = [run EXCEPT ![proc] =
           [at |-> "generate", due |-> due, todo |-> Capped(due \ generated)]]
  /\ UNCHANGED <<issueVars, deliveryVars, crashes>>

(* A person asks for one period; nothing is delivered in this call.         *)
GenerateOne(proc, g) ==
  /\ run[proc] = None
  /\ run' = [run EXCEPT ![proc] = [at |-> "generate", due |-> {}, todo |-> {g}]]
  /\ UNCHANGED <<issueVars, deliveryVars, crashes>>

(* The reads of generateRecurringInvoice before its transaction.            *)
ReadTemplate(proc) ==
  /\ Busy(proc, "generate")
  /\ \E g \in run[proc].todo :
       /\ IsFirst(g, run[proc].todo)
       /\ run' = [run EXCEPT ![proc] =
            IF g[1] \in active /\ g \notin generated
              THEN [at |-> "issue", due |-> @.due, todo |-> @.todo \ {g},
                    gen |-> g, next |-> nextIssue[g[1]]]
              ELSE [at |-> "generate", due |-> @.due, todo |-> @.todo \ {g}]]
  /\ UNCHANGED <<issueVars, deliveryVars, crashes>>

BackToList(proc) ==
  run' = [run EXCEPT ![proc] =
    [at |-> "generate", due |-> @.due, todo |-> @.todo]]

(* The next date is written when it is later than the one read before the   *)
(* transaction; the trigger aborts when it is then earlier than the stored. *)
MovesNext(proc) == run[proc].gen[2] + 1 > run[proc].next

(* A mutant of TriggerAborts: the table has no trigger.                     *)
NoTrigger(proc) == FALSE

TriggerAborts(proc) ==
  MovesNext(proc) /\ run[proc].gen[2] + 1 < nextIssue[run[proc].gen[1]]

(* A mutant of IssueGeneration: the transaction trusts the earlier read.    *)
IssueUnclaimed(proc) ==
  /\ Busy(proc, "issue")
  /\ LET g == run[proc].gen IN
       /\ g \notin Rejected
       /\ ~TriggerAborts(proc)
       /\ generated' = generated \cup {g}
       /\ documents' = [documents EXCEPT ![g] = @ + 1]
       /\ nextIssue' = [nextIssue EXCEPT ![g[1]] =
                          IF MovesNext(proc) THEN g[2] + 1 ELSE @]
  /\ BackToList(proc)
  /\ UNCHANGED <<active, deliveryVars, crashes>>

(* The transaction: claim, issue, link, advance the date.                   *)
IssueGeneration(proc) ==
  /\ Busy(proc, "issue")
  /\ LET g == run[proc].gen IN
       /\ g \notin generated \cup Rejected
       /\ ~TriggerAborts(proc)
       /\ generated' = generated \cup {g}
       /\ documents' = [documents EXCEPT ![g] = @ + 1]
       /\ nextIssue' = [nextIssue EXCEPT ![g[1]] =
                          IF MovesNext(proc) THEN g[2] + 1 ELSE @]
  /\ BackToList(proc)
  /\ UNCHANGED <<active, deliveryVars, crashes>>

(* It exists by now, or issueInvoice refuses it and all is rolled back.     *)
SkipGeneration(proc) ==
  /\ Busy(proc, "issue")
  /\ run[proc].gen \in generated \cup Rejected
  /\ BackToList(proc)
  /\ UNCHANGED <<issueVars, deliveryVars, crashes>>

(* The trigger's exception leaves generateRecurringInvoice and the runner.  *)
AbortGeneration(proc) ==
  /\ Busy(proc, "issue")
  /\ run[proc].gen \notin generated \cup Rejected
  /\ TriggerAborts(proc)
  /\ run' = [run EXCEPT ![proc] = None]
  /\ UNCHANGED <<issueVars, deliveryVars, crashes>>

-----------------------------------------------------------------------------
(* Delivering.                                                              *)

(* deliveryCandidates, once the list of missing periods is done.  What was  *)
(* attempted without an outcome, failed for good or is uncertain counts     *)
(* against the limit and is only reported.                                  *)
ReadCandidates(proc) ==
  /\ Busy(proc, "generate") /\ run[proc].todo = {}
  /\ LET rows == Capped({g \in run[proc].due \cap generated :
                           g[1] \notin Manual /\ latest[g] # "acknowledged"})
     IN  run' = [run EXCEPT ![proc] =
           [at      |-> "deliver",
            fresh   |-> {g \in rows : latest[g] \in Retryable},
            pending |-> {g \in rows : latest[g] \in Observable}]]
  /\ UNCHANGED <<issueVars, deliveryVars, crashes>>

Turn(proc, g) == IsFirst(g, run[proc].fresh \cup run[proc].pending)

(* The step is done: go on with the rest of the candidates.                 *)
Drop(proc, g) ==
  run' = [run EXCEPT ![proc] =
    [at |-> "deliver", fresh |-> @.fresh \ {g}, pending |-> @.pending \ {g}]]

Hold(proc, g, at) ==
  run' = [run EXCEPT ![proc] =
    [at |-> at, fresh |-> @.fresh, pending |-> @.pending, gen |-> g]]

(* The preflight fails or throws.  (Both callers always have an adapter.)   *)
PreflightFails(proc) ==
  /\ Busy(proc, "deliver")
  /\ \E g \in run[proc].fresh :
       /\ Turn(proc, g)
       /\ g[1] \notin ready
       /\ latest' = [latest EXCEPT ![g] = "preflight_failed"]
       /\ Drop(proc, g)
  /\ UNCHANGED <<issueVars, attempts, ready, provider, sent, crashes>>

(* A mutant of Reserve: no unique index on the `attempted` row.             *)
ReserveAgain(proc) ==
  /\ Busy(proc, "deliver")
  /\ \E g \in run[proc].fresh :
       /\ Turn(proc, g)
       /\ g[1] \in ready
       /\ attempts' = attempts \cup {g}
       /\ latest' = [latest EXCEPT ![g] = "attempted"]
       /\ Hold(proc, g, "reserved")
  /\ UNCHANGED <<issueVars, ready, provider, sent, crashes>>

(* The preflight passes and the `attempted` row is inserted, unless there   *)
(* is one.                                                                  *)
Reserve(proc) ==
  /\ Busy(proc, "deliver")
  /\ \E g \in run[proc].fresh :
       /\ Turn(proc, g)
       /\ g[1] \in ready
       /\ IF g \in attempts
            THEN Drop(proc, g) /\ UNCHANGED <<latest, attempts>>
            ELSE /\ attempts' = attempts \cup {g}
                 /\ latest' = [latest EXCEPT ![g] = "attempted"]
                 /\ Hold(proc, g, "reserved")
  /\ UNCHANGED <<issueVars, ready, provider, sent, crashes>>

(* adapter.deliver crosses the transport; the provider may never see it.    *)
Transmit(proc) ==
  /\ Busy(proc, "reserved")
  /\ LET g == run[proc].gen IN
       /\ sent' = [sent EXCEPT ![g] = @ + 1]
       /\ \E state \in {"none", "accepted", "delivered", "rejected"} :
            provider' = [provider EXCEPT ![g] = state]
       /\ Hold(proc, g, "sent")
  /\ UNCHANGED <<issueVars, latest, attempts, ready, crashes>>

(* deliver returns an outcome, or throws, before or after the transport.    *)
RecordOutcome(proc) ==
  /\ Busy(proc, "reserved") \/ Busy(proc, "sent")
  /\ LET g == run[proc].gen IN
       /\ \E o \in {"uncertain"} \cup
                   IF run[proc].at = "sent" THEN Answers(provider[g]) ELSE {} :
            latest' = [latest EXCEPT ![g] = o]
       /\ Drop(proc, g)
  /\ UNCHANGED <<issueVars, attempts, ready, provider, sent, crashes>>

(* observePending and its row; a failed query leaves the document pending.  *)
Observe(proc, o) ==
  /\ Busy(proc, "deliver")
  /\ \E g \in run[proc].pending :
       /\ Turn(proc, g)
       /\ o \in {"accepted_pending", "uncertain"} \cup Answers(provider[g])
       /\ latest' = [latest EXCEPT ![g] = o]
       /\ Drop(proc, g)
  /\ UNCHANGED <<issueVars, attempts, ready, provider, sent, crashes>>

EndRun(proc) ==
  /\ Busy(proc, "deliver")
  /\ run[proc].fresh \cup run[proc].pending = {}
  /\ run' = [run EXCEPT ![proc] = None]
  /\ UNCHANGED <<issueVars, deliveryVars, crashes>>

-----------------------------------------------------------------------------
(* Around the runner.                                                       *)

(* retireRecurringInvoiceTemplate.                                          *)
Retire(t) ==
  /\ active' = active \ {t}
  /\ UNCHANGED <<generated, documents, nextIssue, deliveryVars, run, crashes>>

(* Somebody completes, or breaks, the transport or the recipient.           *)
Configure(t) ==
  /\ ready' = IF t \in ready THEN ready \ {t} ELSE ready \cup {t}
  /\ UNCHANGED <<issueVars, latest, attempts, provider, sent, run, crashes>>

(* The provider finishes what it accepted.                                  *)
ProviderSettles(g) ==
  /\ provider[g] = "accepted"
  /\ \E state \in {"delivered", "rejected"} :
       provider' = [provider EXCEPT ![g] = state]
  /\ UNCHANGED <<issueVars, latest, attempts, ready, sent, run, crashes>>

(* The process dies; the transaction it was in is rolled back.              *)
Crash(proc) ==
  /\ run[proc] # None
  /\ crashes < MaxCrashes
  /\ crashes' = crashes + 1
  /\ run' = [run EXCEPT ![proc] = None]
  /\ UNCHANGED <<issueVars, deliveryVars>>

-----------------------------------------------------------------------------
RecurringInit ==
  /\ active = Templates
  /\ generated = {}
  /\ documents = [g \in Gens |-> 0]
  /\ nextIssue = [t \in Templates |-> 0]
  /\ latest = [g \in Gens |-> "none"]
  /\ attempts = {}
  /\ ready = Templates
  /\ provider = [g \in Gens |-> "none"]
  /\ sent = [g \in Gens |-> 0]
  /\ run = [proc \in Procs |-> None]
  /\ crashes = 0

Events == {"attempted", "acknowledged", "accepted_pending", "terminal_failed",
           "uncertain", "preflight_failed"}

RunStep(proc) ==
  \/ ReadTemplate(proc)
  \/ IssueGeneration(proc)
  \/ SkipGeneration(proc)
  \/ AbortGeneration(proc)
  \/ ReadCandidates(proc)
  \/ PreflightFails(proc)
  \/ Reserve(proc)
  \/ Transmit(proc)
  \/ RecordOutcome(proc)
  \/ \E o \in Events : Observe(proc, o)
  \/ EndRun(proc)

RecurringNext ==
  \/ \E proc \in Procs : \/ \E asOf \in 0..LastIndex : StartRun(proc, asOf)
                         \/ \E g \in Gens : GenerateOne(proc, g)
                         \/ RunStep(proc)
                         \/ Crash(proc)
  \/ \E t \in Templates : Retire(t) \/ Configure(t)
  \/ \E g \in Gens : ProviderSettles(g)

RecurringSpec == RecurringInit /\ [][RecurringNext]_recurringVars

(* A process that runs goes on running; the scheduler keeps calling with    *)
(* today's date; a provider asked for ever answers one day with what it     *)
(* knows.                                                                   *)
FairRecurringSpec ==
  /\ RecurringSpec
  /\ \A proc \in Procs : WF_recurringVars(RunStep(proc))
  /\ \A proc \in Schedulers :
       /\ SF_recurringVars(StartRun(proc, LastIndex))
       /\ SF_recurringVars(Observe(proc, "acknowledged")
                           \/ Observe(proc, "terminal_failed"))

-----------------------------------------------------------------------------
(* Properties.                                                              *)

Holding(proc) == run[proc] # None /\ run[proc].at \in {"reserved", "sent"}

(* Type invariant: generations, events and runs in flight have their types, *)
(* and what a run delivers has an invoice.                                  *)
RecurringTypeOK ==
  /\ active \subseteq Templates
  /\ generated \subseteq Gens
  /\ documents \in [Gens -> 0..1]
  /\ nextIssue \in [Templates -> 0..(LastIndex + 1)]
  /\ latest \in [Gens -> Events \cup {"none"}]
  /\ attempts \subseteq generated
  /\ ready \subseteq Templates
  /\ provider \in [Gens -> {"none", "accepted", "delivered", "rejected"}]
  /\ sent \in [Gens -> 0..1]
  /\ DOMAIN run = Procs
  /\ \A proc \in Procs : run[proc] # None =>
       \/ Busy(proc, "generate") /\ run[proc].todo \subseteq Gens
       \/ Busy(proc, "issue") /\ run[proc].gen \in Gens \ run[proc].todo
       \/ /\ Busy(proc, "deliver") \/ Holding(proc)
          /\ run[proc].fresh \cup run[proc].pending \subseteq generated
  /\ crashes \in 0..MaxCrashes

(* The runner keeps its promise: one invoice a period, sent at most once,   *)
(* whichever runs, direct calls and crashes interleave.                     *)
Promise == INSTANCE OneShot WITH Gens <- Gens, issued <- documents, sent <- sent

PromiseSpec == Promise!Spec

(* next_issue_date is the date after the last generated period, although it *)
(* is compared with a copy read before the transaction.                     *)
NextDateFollows ==
  \A t \in Templates :
    /\ \A k \in 0..LastIndex : <<t, k>> \in generated => k < nextIssue[t]
    /\ nextIssue[t] # 0 => <<t, nextIssue[t] - 1>> \in generated

(* Only one process holds the reservation of a document.                    *)
OneHolder ==
  \A p, q \in Procs :
    Holding(p) /\ Holding(q) /\ run[p].gen = run[q].gen => p = q

(* Every due period of a template that stays active gets its invoice, apart *)
(* from those the core rejects.                                             *)
GapsFill ==
  \A g \in Gens \ Rejected : <>(g \in generated \/ g[1] \notin active)

(* If the transport of a template is in order from some time on and the     *)
(* template stays active, each of its invoices is attempted.                *)
DeliveriesStart ==
  \A g \in {g \in Gens : g[1] \notin Manual} :
    <>[](g[1] \in ready \cap active) => (g \in generated ~> g \in attempts)

(* A pending document the provider has finished with gets its outcome, as   *)
(* long as its template stays active.                                       *)
AnswersArrive ==
  \A g \in Gens :
    <>[](g[1] \in active) =>
      (latest[g] = "accepted_pending" /\ provider[g] \in {"delivered", "rejected"}
         ~> latest[g] \in {"acknowledged", "terminal_failed", "uncertain"})

(* Deliveries progress: what can be sent is sent, what the provider knows is *)
(* learnt.                                                                   *)
DeliveriesProgress == DeliveriesStart /\ AnswersArrive

(* The whole promise of a recurring invoice: it is made, sent and followed.  *)
InvoicesArrive == GapsFill /\ DeliveriesProgress

-----------------------------------------------------------------------------
(* What the repository says and the code does not do.                       *)

(* recurring-runner.test.ts: "a terminal provider failure remains truthful  *)
(* and permanently blocks redelivery".                                      *)
TerminalStaysTruthful ==
  [][\A g \in Gens : latest[g] = "terminal_failed" =>
       latest'[g] = "terminal_failed"]_recurringVars

=============================================================================
