--------------------------- MODULE Consolidation ----------------------------
(***************************************************************************)
(* Mappings of intercompany accounts and eliminations of intercompany      *)
(* balances (intercompany-reconciliation.ts, consolidation-                *)
(* eliminations.ts), for one pair of companies and one report day.         *)
(*                                                                         *)
(* A command is one immediate transaction of the control database, so at   *)
(* most one payload, `deriving`, is being derived.  The two ledgers it is  *)
(* derived from are other files: they are read one after the other, each   *)
(* by three statements of its own, while their companies go on posting     *)
(* and reversing.  The rows of both stand in one sequence, in the order of *)
(* their commits, so a prefix of it is a moment.                           *)
(***************************************************************************)
EXTENDS Integers, FiniteSets, Sequences, SequencesExt

CONSTANTS
  MaxRows,           \* bound: rows in both ledgers together
  Mappings,          \* mapping ids, all of the same accounts
  Eliminations,      \* elimination ids
  Reviewers,         \* audit actors
  NotDeriving,       \* no payload is being derived
  MaxEliminationEvents   \* bound: events of all eliminations together

ASSUME ConsolidationAssumption ==
  /\ MaxRows \in Nat /\ MaxEliminationEvents \in Nat
  /\ NotDeriving \notin Reviewers

VARIABLES
  books,           \* the rows of both ledgers, in the order of their commits
  mappings,        \* the last event of each mapping
  eliminationLog,  \* rm_consolidation_elimination_events, in id order
  deriving         \* the payload that is being derived

consolidationVars == <<books, mappings, eliminationLog, deriving>>

-----------------------------------------------------------------------------
Sides == {"left", "right"}

(* late: dated after the report day; rev: the row this one reverses, 0 for  *)
(* an original.                                                             *)
Rows == [side : Sides, late : BOOLEAN, rev : 0 .. MaxRows]

Ledger(s, t) == {i \in 1 .. t : books[i].side = s}

(* The lines on the mapped accounts up to the report day: every original    *)
(* moves their balance by one unit, a reversal takes that back.             *)
Selection(s, t) == {i \in Ledger(s, t) : ~books[i].late}

Balance(selection) ==
  Cardinality({i \in selection : books[i].rev = 0})
    - Cardinality({i \in selection : books[i].rev # 0})

(* The hash of the last row, which covers the rows before it.               *)
LedgerHead(s, t) ==
  SelectLastInSubSeq(books, 1, t, LAMBDA row : row.side = s)

(* readSide of the left company, then of the right: the entries the audit   *)
(* counts, the lines, the head.                                             *)
Reading(k, t) ==
  LET s == IF k <= 3 THEN "left" ELSE "right" IN
  CASE k \in {1, 4} -> Cardinality(Ledger(s, t))
    [] k \in {2, 5} -> Selection(s, t)
    [] OTHER        -> LedgerHead(s, t)

PostRow(s, late) ==
  /\ Len(books) < MaxRows
  /\ books' = Append(books, [side |-> s, late |-> late, rev |-> 0])

ReverseRow(i, late) ==
  /\ Len(books) < MaxRows
  /\ books[i].rev = 0 /\ \A j \in DOMAIN books : books[j].rev # i
  /\ books[i].late => late
  /\ books' = Append(books, [side |-> books[i].side, late |-> late, rev |-> i])

BooksMove ==
  /\ \E late \in BOOLEAN :
       \/ \E s \in Sides : PostRow(s, late)
       \/ \E i \in DOMAIN books : ReverseRow(i, late)
  /\ UNCHANGED <<mappings, eliminationLog, deriving>>

-----------------------------------------------------------------------------
(* A mapping is approved by another actor than its proposer's, while no     *)
(* other approved mapping has an account of its own.                        *)
SetMapping(m, status, p) ==
  /\ deriving = NotDeriving
  /\ mappings' = [mappings EXCEPT ![m] = [status |-> status, actor |-> p]]
  /\ UNCHANGED <<books, eliminationLog, deriving>>

ProposeMapping(m, p) ==
  /\ mappings[m].status \in {"none", "revoked"}
  /\ SetMapping(m, "proposed", p)

ApproveMapping(m, p) ==
  /\ mappings[m].status = "proposed" /\ mappings[m].actor # p
  /\ \A other \in Mappings : mappings[other].status # "approved"
  /\ SetMapping(m, "approved", p)

RevokeMapping(m, p) ==
  /\ mappings[m].status = "approved"
  /\ SetMapping(m, "revoked", p)

-----------------------------------------------------------------------------
(* The event a lifecycle stands at: 0 before the first one.                 *)
LatestOf(e) == SelectLastInSeq(eliminationLog, LAMBDA event : event.id = e)

Stage(e) == IF LatestOf(e) = 0 THEN "none" ELSE eliminationLog[LatestOf(e)].type

Payload(e) == eliminationLog[LatestOf(e)].payload

AppendEvent(type, e, payload, p) ==
  eliminationLog' = Append(eliminationLog,
    [id |-> e, type |-> type, payload |-> payload, actor |-> p])

(* The first proposal of this payload, which applyBalanceElimination takes  *)
(* for the proposal of the current lifecycle.                               *)
FirstProposal(e) ==
  SelectInSeq(eliminationLog, LAMBDA event :
    event.id = e /\ event.type = "proposed" /\ event.payload = Payload(e))

(* What an approval and an application ask before they derive again.        *)
MayAdvance(type, e, m, p) ==
  \/ type = "proposed"
  \/ /\ type = "approved" /\ Stage(e) = "proposed"
     /\ Payload(e).mapping = m /\ eliminationLog[LatestOf(e)].actor # p
  \/ /\ type = "applied" /\ Stage(e) = "approved"
     /\ Payload(e).mapping = m /\ eliminationLog[FirstProposal(e)].actor # p

(* derivePayload up to the first statement that reads a ledger.             *)
BeginDeriving(type, e, m, p) ==
  /\ deriving = NotDeriving
  /\ Len(eliminationLog) < MaxEliminationEvents
  /\ mappings[m].status = "approved"
  /\ MayAdvance(type, e, m, p)
  /\ deriving' = [type |-> type, id |-> e, mapping |-> m, actor |-> p,
                  read |-> <<Reading(1, Len(books))>>]
  /\ UNCHANGED <<books, mappings, eliminationLog>>

ReadOn ==
  /\ deriving # NotDeriving /\ Len(deriving.read) < 6
  /\ deriving' = [deriving EXCEPT
                    !.read = Append(@, Reading(Len(@) + 1, Len(books)))]
  /\ UNCHANGED <<books, mappings, eliminationLog>>

Derived(d) == [mapping |-> d.mapping, read |-> d.read]

(* The two balances match and are positive.                                 *)
Eligible(read) == Balance(read[2]) = Balance(read[5]) /\ Balance(read[2]) > 0

(* A mutant of StillCurrent: what is derived again is not compared with     *)
(* what was proposed.                                                       *)
StillDerivable(d) == Payload(d.id).mapping = d.mapping

(* assertStillCurrent: an approval or an application has derived what was   *)
(* proposed.                                                                *)
StillCurrent(d) == Derived(d) = Payload(d.id)

FinishDeriving ==
  LET d == deriving IN
  /\ d # NotDeriving /\ Len(d.read) = 6
  /\ Eligible(d.read)
  /\ IF d.type = "proposed" THEN Stage(d.id) \in {"none", "rejected", "reversed"}
                            ELSE StillCurrent(d)
  /\ AppendEvent(d.type, d.id,
                 IF d.type = "proposed" THEN Derived(d) ELSE Payload(d.id), d.actor)
  /\ deriving' = NotDeriving
  /\ UNCHANGED <<books, mappings>>

(* The command throws, and its transaction rolls back.                      *)
RefuseDeriving ==
  /\ deriving # NotDeriving
  /\ deriving' = NotDeriving
  /\ UNCHANGED <<books, mappings, eliminationLog>>

(* rejectBalanceElimination and reverseBalanceElimination, by anybody.      *)
Withdraw(e, p) ==
  /\ deriving = NotDeriving
  /\ Len(eliminationLog) < MaxEliminationEvents
  /\ \/ Stage(e) = "proposed" /\ AppendEvent("rejected", e, Payload(e), p)
     \/ Stage(e) = "applied" /\ AppendEvent("reversed", e, Payload(e), p)
  /\ UNCHANGED <<books, mappings, deriving>>

-----------------------------------------------------------------------------
ConsolidationInit ==
  /\ books = << >>
  /\ mappings = [m \in Mappings |-> [status |-> "none", actor |-> NotDeriving]]
  /\ eliminationLog = << >>
  /\ deriving = NotDeriving

ConsolidationNext ==
  \/ BooksMove
  \/ ReadOn \/ FinishDeriving \/ RefuseDeriving
  \/ \E p \in Reviewers :
       \/ \E m \in Mappings :
            ProposeMapping(m, p) \/ ApproveMapping(m, p) \/ RevokeMapping(m, p)
       \/ \E e \in Eliminations : Withdraw(e, p)
       \/ \E e \in Eliminations, m \in Mappings,
             type \in {"proposed", "approved", "applied"} :
            BeginDeriving(type, e, m, p)

ConsolidationSpec ==
  ConsolidationInit /\ [][ConsolidationNext]_consolidationVars

-----------------------------------------------------------------------------
(* Rows, events and the payload being derived have their types.             *)
ConsolidationTypeOK ==
  /\ books \in Seq(Rows) /\ Len(books) <= MaxRows
  /\ mappings \in [Mappings -> [status : {"none", "proposed", "approved", "revoked"},
                                actor : Reviewers \union {NotDeriving}]]
  /\ Len(eliminationLog) <= MaxEliminationEvents
  /\ \A i \in DOMAIN eliminationLog :
       LET event == eliminationLog[i] IN
       /\ event.id \in Eliminations /\ event.actor \in Reviewers
       /\ event.type \in {"proposed", "approved", "rejected", "applied", "reversed"}
       /\ event.payload.mapping \in Mappings /\ Len(event.payload.read) = 6
  /\ deriving # NotDeriving =>
       /\ deriving.type \in {"proposed", "approved", "applied"}
       /\ deriving.id \in Eliminations /\ deriving.actor \in Reviewers
       /\ deriving.mapping \in Mappings /\ Len(deriving.read) \in 1 .. 6

(* What was approved for elimination, and so what is eliminated, is a       *)
(* balance both ledgers showed at one and the same moment, and it was not   *)
(* zero: although each is read by three statements, one ledger after the    *)
(* other, while both go on posting and reversing, and readings that never   *)
(* held together can be proposed (consolidation-eliminations.ts:123).       *)
EliminationsWereTrue ==
  \A i \in DOMAIN eliminationLog :
    eliminationLog[i].type \in {"approved", "applied"} =>
      \E t \in DOMAIN books :
        /\ \A k \in 1 .. 6 : eliminationLog[i].payload.read[k] = Reading(k, t)
        /\ Eligible(eliminationLog[i].payload.read)

(* "Forslagets actor må hverken godkende eller anvende det"                 *)
(* (docs/group-structure.md:73): whoever applies an elimination is not the  *)
(* actor of the proposal its lifecycle began with.                          *)
ProposerNeverApplies ==
  \A i \in DOMAIN eliminationLog :
    eliminationLog[i].type = "applied" =>
      LET proposal == SelectLastInSubSeq(eliminationLog, 1, i, LAMBDA event :
            event.id = eliminationLog[i].id /\ event.type = "proposed") IN
      eliminationLog[proposal].actor # eliminationLog[i].actor
=============================================================================
