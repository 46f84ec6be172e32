------------------------------- MODULE Batches -------------------------------
(***************************************************************************)
(* Reviewed bookkeeping batches (src/core/bookkeeping-batch.ts) and the    *)
(* posting rules and VAT evidence that make a purchase executable          *)
(* (src/core/posting-rules.ts, purchase-vat-preflight.ts,                  *)
(* expense-booking.ts).                                                    *)
(*                                                                         *)
(* A plan is computed from documents, bank lines, rules and entries that   *)
(* are read one after the other, stored, approved by a second principal    *)
(* and applied later, perhaps more than once, while all of those go on     *)
(* changing.  A rule counts as of the date of the invoice, and decisions   *)
(* about rules may take effect on an earlier or a later day than today.    *)
(***************************************************************************)
EXTENDS Integers, FiniteSets

CONSTANTS
  PurchaseDocs,  \* purchase documents
  OutLines,      \* outgoing bank lines in the scope of the plans
  BestMatch,     \* suggestBankMatches: the purchase suggested for a line
  Rules,         \* posting rule versions whose conditions the purchases meet
  RuleDays,      \* days on which decisions about rules take effect
  Interval,      \* a version's days, from effective_from to effective_to
  InvoiceDay,    \* the day of a document, or of the plan where it has no date
  Principals,    \* planners, approvers, and those who decide on rules
  Runs,          \* run keys
  MaxVersion,    \* bound on the changes of a document's evidence
  MaxDrift,      \* bound on the changes of the sources of a plan
  Hand,          \* an entry that was not posted by a batch
  NoPlan         \* a run that does not exist

BatchItems == [line : OutLines, doc : PurchaseDocs, version : 1..MaxVersion]

Identities ==
  [line : OutLines, doc : PurchaseDocs, version : 0..MaxVersion, rules : SUBSET Rules,
   vat : BOOLEAN, paid : BOOLEAN]

BatchEntries ==
  [doc : PurchaseDocs, line : OutLines, version : 1..MaxVersion, rules : SUBSET Rules,
   run : Runs \union {Hand}]

Universes ==
  [banks : SUBSET (OutLines \X BOOLEAN), documents : SUBSET (PurchaseDocs \X (1..MaxVersion)),
   ledger : SUBSET BatchEntries]

BatchRuns ==
  [plan : [items : SUBSET BatchItems, sources : SUBSET Identities, universe : Universes],
   planner : Principals, approver : Principals \union {NoPlan}, receipts : SUBSET OutLines]

(* A plan that is being made.                                               *)
Plannings ==
  [planner : Principals, step : {"pairs", "items"}, pairs : SUBSET OutLines,
   items : SUBSET BatchItems]

Decisions == {"approved", "rejected", "disabled"}
RuleStates == Decisions \union {"none", "proposed"}

Transitions == [rule : Rules, to : Decisions, day : RuleDays]

ASSUME BatchesAssumption ==
  /\ BestMatch \in [OutLines -> PurchaseDocs]
  /\ MaxVersion \in Nat /\ MaxDrift \in Nat /\ Hand \notin Runs
  /\ RuleDays \subseteq Nat /\ Interval \in [Rules -> SUBSET RuleDays]
  /\ InvoiceDay \in [PurchaseDocs -> [1..MaxVersion -> RuleDays]]
  /\ NoPlan \notin Runs \union {Hand} \union Principals
  /\ NoPlan \notin BatchRuns \union Plannings \union Transitions

VARIABLES
  facts,     \* version of the facts of each purchase; 0 before it arrives
  imported,  \* bank lines
  vatOk,     \* purchases with fresh VAT evidence
  rule,      \* each rule version: its creator, and the last event of each day
  drift,     \* how often a source has changed; it serves as a bound only
  deciding,  \* the transition a principal has checked and not yet appended
  booked,    \* posted purchases: document, line, and what they rest on
  planning,  \* planBookkeepingBatch for a run key, between its reads
  runs       \* bookkeeping_batch_runs with revision, approval and receipts

batchesVars == <<facts, imported, vatOk, rule, drift, deciding, booked, planning, runs>>

-----------------------------------------------------------------------------
(* Rules.                                                                   *)

(* stateAt(r, day) = state: the last event that takes effect by that day.   *)
InState(r, day, state) ==
  \E from \in RuleDays :
    /\ from <= day
    /\ rule[r].events[from] = state
    /\ \A later \in RuleDays : from < later /\ later <= day => rule[r].events[later] = "none"

(* evaluatePostingRules at the day of the document.                         *)
InForce(d) ==
  LET day == InvoiceDay[d][facts[d]]
  IN {r \in Rules : day \in Interval[r] /\ InState(r, day, "approved")}

(* Exactly one match is a proposal; anything else, {}, is a human's to make. *)
RuleFor(d) == IF Cardinality(InForce(d)) = 1 THEN InForce(d) ELSE {}

-----------------------------------------------------------------------------
(* Planning.                                                                *)

(* A posted entry the run did not make itself.                              *)
Foreigners(k) == {e \in booked : e.run # k}

PaidFor(l, among) == \E e \in among : e.line = l

OpenPurchases(k) ==
  {d \in PurchaseDocs : facts[d] > 0 /\
     ((~\E e \in booked : e.doc = d) \/ (\E e \in booked : e.doc = d /\ e.run = k))}

(* candidateUniverse, as the run sees it when its own effects are ignored;  *)
(* a plan that is being made is of no run yet.                              *)
Universe(k) ==
  [banks |-> {<<l, PaidFor(l, Foreigners(k))>> : l \in imported},
   documents |-> {<<d, facts[d]>> : d \in OpenPurchases(k)},
   ledger |-> Foreigners(k)]

Unreconciled == {l \in imported : ~PaidFor(l, booked)}

Suggested(l) == BestMatch[l] \in OpenPurchases(NoPlan)
                  /\ ~\E e \in booked : e.doc = BestMatch[l]

(* The lines whose purchase no other line of the plan is suggested for.     *)
Unambiguous(pairs) ==
  {l \in pairs : ~\E m \in pairs \ {l} : BestMatch[m] = BestMatch[l]}

(* The partition "ready": one rule and VAT evidence.                        *)
Ready(pairs) ==
  {l \in Unambiguous(pairs) : RuleFor(BestMatch[l]) # {} /\ BestMatch[l] \in vatOk}

(* What sourceIdentities says of an item.                                   *)
Identity(item) ==
  [line |-> item.line, doc |-> item.doc, version |-> facts[item.doc],
   rules |-> RuleFor(item.doc), vat |-> item.doc \in vatOk,
   paid |-> PaidFor(item.line, booked)]

(* planBookkeepingBatch reads, in no transaction, the free lines and what   *)
(* is suggested for them, ...                                               *)
SuggestPairs(k, p) ==
  /\ planning[k] = NoPlan /\ runs[k] = NoPlan
  /\ planning' = [planning EXCEPT ![k] =
                    [planner |-> p, step |-> "pairs", items |-> {},
                     pairs |-> {l \in Unreconciled : Suggested(l)}]]
  /\ UNCHANGED <<facts, imported, vatOk, rule, drift, deciding, booked, runs>>

(* ... then the evidence, the rule and the VAT evidence of each, ...        *)
ReadItems(k) ==
  /\ planning[k] # NoPlan /\ planning[k].step = "pairs"
  /\ planning' = [planning EXCEPT
       ![k].step = "items",
       ![k].items = {[line |-> l, doc |-> BestMatch[l], version |-> facts[BestMatch[l]]] :
                       l \in Ready(planning[k].pairs)}]
  /\ UNCHANGED <<facts, imported, vatOk, rule, drift, deciding, booked, runs>>

(* ... and then, once more, the identities of its sources.                  *)
(* createBookkeepingBatchRun stores the plan, which cannot change between,  *)
(* and its key binds it.                                                    *)
CreateRun(k) ==
  /\ planning[k] # NoPlan /\ planning[k].step = "items"
  /\ runs' = [runs EXCEPT ![k] =
                [plan |-> [items |-> planning[k].items,
                           sources |-> {Identity(item) : item \in planning[k].items},
                           universe |-> Universe(NoPlan)],
                 planner |-> planning[k].planner, approver |-> NoPlan, receipts |-> {}]]
  /\ planning' = [planning EXCEPT ![k] = NoPlan]
  /\ UNCHANGED <<facts, imported, vatOk, rule, drift, deciding, booked>>

-----------------------------------------------------------------------------
(* Application.                                                             *)

(* sourceIdentities, compared: an item with a receipt stands as planned.    *)
SourcesUnchanged(k) ==
  \A item \in runs[k].plan.items :
    item.line \in runs[k].receipts \/ Identity(item) \in runs[k].plan.sources

(* A mutant of Fresh: only what the plan books is looked at again.          *)
FreshItems(k) == SourcesUnchanged(k)

Fresh(k) == SourcesUnchanged(k) /\ Universe(k) = runs[k].plan.universe

(* applyPurchaseAction asks all of it again ...                             *)
Bookable(item) ==
  /\ facts[item.doc] = item.version
  /\ RuleFor(item.doc) # {}
  /\ item.doc \in vatOk
  /\ ~PaidFor(item.line, booked)

(* ... and posts by the rule it finds, inside a savepoint.                  *)
Booked(item, k) ==
  [doc |-> item.doc, line |-> item.line, version |-> item.version,
   rules |-> RuleFor(item.doc), run |-> k]

(* applyBookkeepingBatch: one transaction.  A stale plan books nothing; an  *)
(* item that fails is rolled back to its savepoint and the others stand.    *)
Apply(k, failing) ==
  LET todo == {item \in runs[k].plan.items : item.line \notin runs[k].receipts}
      done == {item \in todo : Bookable(item) /\ item.line \notin failing}
  IN /\ runs[k] # NoPlan
     /\ runs[k].approver \in Principals
     /\ Fresh(k)
     /\ failing \subseteq {item.line : item \in todo}
     /\ booked' = booked \union {Booked(item, k) : item \in done}
     /\ runs' = [runs EXCEPT ![k].receipts = @ \union {item.line : item \in done}]
     /\ UNCHANGED <<facts, imported, vatOk, rule, drift, deciding, planning>>

(* A mutant of ApproveRun: the planner may approve.                         *)
ApproveOwnRun(k, p) ==
  /\ runs[k] # NoPlan
  /\ runs[k].approver = NoPlan
  /\ runs' = [runs EXCEPT ![k].approver = p]
  /\ UNCHANGED <<facts, imported, vatOk, rule, drift, deciding, booked, planning>>

(* approveBookkeepingBatchPlan                                              *)
ApproveRun(k, p) ==
  /\ runs[k] # NoPlan
  /\ runs[k].planner # p
  /\ runs[k].approver = NoPlan
  /\ runs' = [runs EXCEPT ![k].approver = p]
  /\ UNCHANGED <<facts, imported, vatOk, rule, drift, deciding, booked, planning>>

-----------------------------------------------------------------------------
(* The sources change.                                                      *)

Drift == drift < MaxDrift /\ drift' = drift + 1

ImportLine(l) ==
  /\ Drift
  /\ l \notin imported
  /\ imported' = imported \union {l}
  /\ UNCHANGED <<facts, vatOk, rule, deciding, booked, planning, runs>>

(* A purchase arrives, or missing facts of one that no entry refers to are  *)
(* filled in: VAT evidence is bound to the identity it was given for.       *)
ChangeEvidence(d) ==
  /\ Drift
  /\ facts[d] < MaxVersion
  /\ ~\E e \in booked : e.doc = d
  /\ facts' = [facts EXCEPT ![d] = @ + 1]
  /\ vatOk' = vatOk \ {d}
  /\ UNCHANGED <<imported, rule, deciding, booked, planning, runs>>

(* ensurePurchaseVatPreflight ends well ...                                 *)
PassVat(d) ==
  /\ Drift
  /\ facts[d] > 0 /\ d \notin vatOk
  /\ vatOk' = vatOk \union {d}
  /\ UNCHANGED <<facts, imported, rule, deciding, booked, planning, runs>>

(* ... and its evidence grows older than 90 days.                           *)
VatExpires(d) ==
  /\ Drift
  /\ d \in vatOk
  /\ vatOk' = vatOk \ {d}
  /\ UNCHANGED <<facts, imported, rule, deciding, booked, planning, runs>>

(* bookExpenseFromBank by a person: the line is free; whether the document  *)
(* was booked before is not asked.                                          *)
BookByHand(d, l) ==
  /\ Drift
  /\ facts[d] > 0
  /\ l \in imported
  /\ ~PaidFor(l, booked)
  /\ booked' = booked \union {[doc |-> d, line |-> l, version |-> facts[d],
                                 rules |-> {}, run |-> Hand]}
  /\ UNCHANGED <<facts, imported, vatOk, rule, deciding, planning, runs>>

(* createPostingRuleProposal, on today's date or on another.                *)
ProposeRule(r, p, day) ==
  /\ Drift
  /\ rule[r].creator = NoPlan
  /\ rule' = [rule EXCEPT ![r] = [creator |-> p,
                                  events |-> [@.events EXCEPT ![day] = "proposed"]]]
  /\ UNCHANGED <<facts, imported, vatOk, deciding, booked, planning, runs>>

(* transitionPostingRule reads the state of the day the transition is to    *)
(* take effect on ("disabled" stands for "superseded" as well) ...          *)
CheckTransition(p, r, to, day) ==
  /\ deciding[p] = NoPlan
  /\ to = "approved" => p # rule[r].creator
  /\ to \in {"approved", "rejected"} => InState(r, day, "proposed")
  /\ to = "disabled" => InState(r, day, "approved")
  /\ deciding' = [deciding EXCEPT ![p] = [rule |-> r, to |-> to, day |-> day]]
  /\ UNCHANGED <<facts, imported, vatOk, rule, drift, booked, planning, runs>>

(* ... and appends the event in a transaction of its own.                   *)
AppendTransition(p) ==
  /\ Drift
  /\ deciding[p] # NoPlan
  /\ rule' = [rule EXCEPT ![deciding[p].rule].events[deciding[p].day] = deciding[p].to]
  /\ deciding' = [deciding EXCEPT ![p] = NoPlan]
  /\ UNCHANGED <<facts, imported, vatOk, booked, planning, runs>>

-----------------------------------------------------------------------------

BatchesInit ==
  /\ facts = [d \in PurchaseDocs |-> 0]
  /\ imported = {}
  /\ vatOk = {}
  /\ drift = 0
  /\ rule = [r \in Rules |-> [creator |-> NoPlan, events |-> [day \in RuleDays |-> "none"]]]
  /\ deciding = [p \in Principals |-> NoPlan]
  /\ booked = {}
  /\ planning = [k \in Runs |-> NoPlan]
  /\ runs = [k \in Runs |-> NoPlan]

SourcesNext ==
  \/ \E l \in OutLines : ImportLine(l)
  \/ \E d \in PurchaseDocs :
       \/ ChangeEvidence(d)
       \/ PassVat(d)
       \/ VatExpires(d)
       \/ \E l \in OutLines : BookByHand(d, l)
  \/ \E p \in Principals :
       \/ AppendTransition(p)
       \/ \E r \in Rules, day \in RuleDays :
            \/ ProposeRule(r, p, day)
            \/ \E to \in Decisions : CheckTransition(p, r, to, day)

BatchesNext ==
  \/ SourcesNext
  \/ \E k \in Runs :
       \/ ReadItems(k)
       \/ CreateRun(k)
       \/ \E p \in Principals : SuggestPairs(k, p) \/ ApproveRun(k, p)
       \/ \E failing \in SUBSET OutLines : Apply(k, failing)

BatchesSpec == BatchesInit /\ [][BatchesNext]_batchesVars

-----------------------------------------------------------------------------
(* Properties.                                                              *)

BatchesTypeOK ==
  /\ facts \in [PurchaseDocs -> 0..MaxVersion]
  /\ imported \subseteq OutLines
  /\ vatOk \subseteq PurchaseDocs
  /\ rule \in [Rules -> [creator : Principals \union {NoPlan}, events : [RuleDays -> RuleStates]]]
  /\ drift \in 0..MaxDrift
  /\ deciding \in [Principals -> Transitions \union {NoPlan}]
  /\ booked \subseteq BatchEntries
  /\ \A e \in booked : e.line \in imported /\ e.version <= facts[e.doc]
  /\ planning \in [Runs -> Plannings \union {NoPlan}]
  /\ runs \in [Runs -> BatchRuns \union {NoPlan}]
  /\ \A k \in Runs :
       runs[k] # NoPlan => runs[k].receipts \subseteq {item.line : item \in runs[k].plan.items}

(* A batch posts only what somebody else reviewed, and only while it is     *)
(* still true: each purchase it books rests on an item of the approved plan *)
(* and on the facts, the VAT evidence and the one rule in force on the      *)
(* invoice's day that hold at that moment, and the plan's sources name that *)
(* rule; the line is free; no entry books the document that the plan did    *)
(* not list; and no document or line that could have changed the plan has   *)
(* appeared since it was drawn up.                                          *)
BatchBooksWhatWasReviewed ==
  [][\A k \in Runs : \A e \in booked' \ booked : e.run = k =>
       /\ runs[k].approver \in Principals \ {runs[k].planner}
       /\ \E item \in runs[k].plan.items :
            item.line = e.line /\ item.doc = e.doc /\ item.version = e.version
       /\ \E known \in runs[k].plan.sources :
            known.line = e.line /\ known.rules = e.rules /\ known.vat
       /\ e.version = facts[e.doc] /\ e.doc \in vatOk
       /\ e.rules = InForce(e.doc) /\ Cardinality(InForce(e.doc)) = 1
       /\ ~\E f \in booked : f.line = e.line
       /\ \A f \in booked : f.doc = e.doc => f \in runs[k].plan.universe.ledger
       /\ \A l \in Unreconciled : <<l, FALSE>> \in runs[k].plan.universe.banks
       /\ \A d \in OpenPurchases(NoPlan) :
            <<d, facts[d]>> \in runs[k].plan.universe.documents]_batchesVars

=============================================================================
