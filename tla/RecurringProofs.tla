-------------------------- MODULE RecurringProofs --------------------------
(***************************************************************************)
(* Theorems about RecurringDelivery.  A reservation is exclusive because   *)
(* its row is never removed: whoever holds a document at the transport has *)
(* its `attempted` row, and nobody else can get one.  The copy of the next *)
(* date a run carries is never ahead of the stored one.                    *)
(***************************************************************************)
EXTENDS RecurringDelivery, TLAPS

(* What a run in flight knows is true of the tables.                        *)
ListOK(r) == r.due \subseteq Gens /\ r.todo \subseteq Gens

QueueOK(r) == r.fresh \subseteq generated /\ r.pending \subseteq generated

RunOK(r) ==
  \/ r = None
  \/ r.at = "generate" /\ ListOK(r)
  \/ /\ r.at = "issue" /\ ListOK(r)
     /\ r.gen \in Gens /\ r.gen \notin r.todo
     /\ r.next \in Nat /\ r.next <= nextIssue[r.gen[1]]
  \/ r.at = "deliver" /\ QueueOK(r)
  \/ /\ r.at \in {"reserved", "sent"} /\ QueueOK(r)
     /\ r.gen \in attempts
     /\ r.at = "reserved" => sent[r.gen] = 0

(* The tables.                                                              *)
TablesOK ==
  /\ active \subseteq Templates
  /\ generated \subseteq Gens
  /\ documents = [g \in Gens |-> IF g \in generated THEN 1 ELSE 0]
  /\ nextIssue \in [Templates -> 0..(LastIndex + 1)]
  /\ attempts \subseteq generated
  /\ sent \in [Gens -> 0..1]
  /\ \A g \in Gens : sent[g] = 1 => g \in attempts

(* The delivery log and the world around it.                                *)
LogOK ==
  /\ latest \in [Gens -> Events \cup {"none"}]
  /\ ready \subseteq Templates
  /\ provider \in [Gens -> {"none", "accepted", "delivered", "rejected"}]
  /\ crashes \in 0..MaxCrashes

RunsOK ==
  /\ run = [proc \in Procs |-> run[proc]]
  /\ \A proc \in Procs : RunOK(run[proc])

(* The inductive invariant.                                                 *)
RecurringInv == TablesOK /\ LogOK /\ RunsOK /\ OneHolder /\ NextDateFollows

-----------------------------------------------------------------------------
(* A process moves to a run that holds no document; the tables a run relies *)
(* on only grow.                                                            *)
Monotone ==
  /\ generated \subseteq generated' /\ attempts \subseteq attempts'
  /\ \A t \in Templates : nextIssue[t] <= nextIssue'[t]

LEMMA MoveKeepsRuns ==
  ASSUME TablesOK, TablesOK', RunsOK, OneHolder, Monotone, sent' = sent,
         NEW proc \in Procs, NEW r,
         run' = [run EXCEPT ![proc] = r],
         RunOK(r), r = None \/ r.at \notin {"reserved", "sent"}
  PROVE  RunsOK' /\ OneHolder'
<1>1. \A p \in Procs : run'[p] = IF p = proc THEN r ELSE run[p]
  BY DEF RunsOK
<1>2. ASSUME NEW p \in Procs
      PROVE  RunOK(run[p])'
  <2>1. RunOK(run'[p])
    BY <1>1 DEF RunsOK
  <2>2. \A t \in Templates : nextIssue[t] \in Int /\ nextIssue'[t] \in Int
    BY RecurringAssumption DEF TablesOK, RecurringAssumption
  <2>3. \A g \in Gens : g[1] \in Templates
    BY DEF Gens
  <2> QED BY <2>1, <2>2, <2>3 DEF RunOK, ListOK, QueueOK, Monotone
<1>3. RunsOK'
  BY <1>1, <1>2 DEF RunsOK
<1>4. OneHolder'
  BY <1>1 DEF OneHolder, Holding
<1> QED BY <1>3, <1>4

(* Steps that leave runs, documents and dates alone.                        *)
LEMMA IdleKeeps ==
  ASSUME RunsOK, OneHolder, NextDateFollows,
         UNCHANGED <<generated, nextIssue, attempts, sent, run>>
  PROVE  RunsOK' /\ OneHolder' /\ NextDateFollows'
BY DEF RunsOK, RunOK, ListOK, QueueOK, OneHolder, Holding, NextDateFollows

-----------------------------------------------------------------------------
(* A step of a process that adds no row a run relies on.                    *)
Moves ==
  /\ \E proc \in Procs : \E r :
       /\ run' = [run EXCEPT ![proc] = r]
       /\ RunOK(r)
       /\ r = None \/ r.at \notin {"reserved", "sent"}
  /\ UNCHANGED <<generated, documents, nextIssue, attempts, sent>>
  /\ active' = active

(* Reading what is due, and the reads and refusals of one generation.       *)
LEMMA ListSteps ==
  ASSUME RecurringInv, NEW proc \in Procs,
         \/ \E asOf \in 0..LastIndex : StartRun(proc, asOf)
         \/ \E g \in Gens : GenerateOne(proc, g)
         \/ ReadTemplate(proc)
         \/ SkipGeneration(proc)
         \/ AbortGeneration(proc)
         \/ ReadCandidates(proc)
         \/ EndRun(proc)
         \/ Crash(proc)
  PROVE  Moves
<1> USE DEF RecurringInv, issueVars, deliveryVars
<1>0. RunOK(run[proc]) /\ run = [p \in Procs |-> run[p]]
  BY DEF RunsOK
<1>1. ASSUME NEW asOf \in 0..LastIndex, StartRun(proc, asOf)
      PROVE  Moves
  <2> DEFINE due == {g \in Gens : g[1] \in active /\ g[2] <= asOf}
             r == [at |-> "generate", due |-> due, todo |-> Capped(due \ generated)]
  <2>1. RunOK(r)
    BY DEF RunOK, ListOK, Capped
  <2>2. run' = [run EXCEPT ![proc] = r]
    BY <1>1 DEF StartRun
  <2>3. r.at = "generate"
    OBVIOUS
  <2> HIDE DEF r
  <2> QED BY <1>1, <2>1, <2>2, <2>3 DEF StartRun, Moves
<1>2. ASSUME NEW g \in Gens, GenerateOne(proc, g)
      PROVE  Moves
  <2> DEFINE r == [at |-> "generate", due |-> {}, todo |-> {g}]
  <2>1. RunOK(r)
    BY DEF RunOK, ListOK
  <2>2. run' = [run EXCEPT ![proc] = r]
    BY <1>2 DEF GenerateOne
  <2>3. r.at = "generate"
    OBVIOUS
  <2> HIDE DEF r
  <2> QED BY <1>2, <2>1, <2>2, <2>3 DEF GenerateOne, Moves
<1>3. CASE ReadTemplate(proc)
  <2>1. run[proc].at = "generate" /\ ListOK(run[proc])
    BY <1>0, <1>3 DEF ReadTemplate, Busy, RunOK
  <2>2. PICK g \in run[proc].todo :
          run' = [run EXCEPT ![proc] =
            IF g[1] \in active /\ g \notin generated
              THEN [at |-> "issue", due |-> run[proc].due, todo |-> run[proc].todo \ {g},
                    gen |-> g, next |-> nextIssue[g[1]]]
              ELSE [at |-> "generate", due |-> run[proc].due, todo |-> run[proc].todo \ {g}]]
    BY <1>3, Zenon DEF ReadTemplate
  <2>3. g \in Gens /\ g[1] \in Templates
    BY <2>1 DEF ListOK, Gens
  <2>4. nextIssue[g[1]] \in Nat
    <3>1. nextIssue[g[1]] \in 0..(LastIndex + 1)
      BY <2>3 DEF TablesOK
    <3> QED BY <3>1, RecurringAssumption DEF RecurringAssumption
  <2> DEFINE r == [at |-> "issue", due |-> run[proc].due, todo |-> run[proc].todo \ {g},
                    gen |-> g, next |-> nextIssue[g[1]]]
             q == [at |-> "generate", due |-> run[proc].due, todo |-> run[proc].todo \ {g}]
  <2>5. RunOK(r)
    BY <2>1, <2>3, <2>4 DEF RunOK, ListOK
  <2>6. RunOK(q)
    BY <2>1 DEF RunOK, ListOK
  <2>7. \/ run' = [run EXCEPT ![proc] = r]
        \/ run' = [run EXCEPT ![proc] = q]
    BY <2>2
  <2>8. r.at = "issue" /\ q.at = "generate"
    OBVIOUS
  <2> HIDE DEF r, q
  <2> QED BY <1>3, <2>5, <2>6, <2>7, <2>8 DEF ReadTemplate, Moves
<1>4. CASE SkipGeneration(proc)
  <2> DEFINE r == [at |-> "generate", due |-> run[proc].due, todo |-> run[proc].todo]
  <2>1. RunOK(r)
    BY <1>0, <1>4 DEF SkipGeneration, Busy, RunOK, ListOK
  <2>2. run' = [run EXCEPT ![proc] = r]
    BY <1>4 DEF SkipGeneration, BackToList
  <2>3. r.at = "generate"
    OBVIOUS
  <2> HIDE DEF r
  <2> QED BY <1>4, <2>1, <2>2, <2>3 DEF SkipGeneration, Moves
<1>5. CASE AbortGeneration(proc) \/ EndRun(proc) \/ Crash(proc)
  BY <1>5 DEF AbortGeneration, EndRun, Crash, Moves, RunOK
<1>6. CASE ReadCandidates(proc)
  <2> DEFINE rows == Capped({g \in run[proc].due \cap generated :
                              g[1] \notin Manual /\ latest[g] # "acknowledged"})
             r == [at      |-> "deliver",
                   fresh   |-> {g \in rows : latest[g] \in Retryable},
                   pending |-> {g \in rows : latest[g] \in Observable}]
  <2>1. RunOK(r)
    BY DEF RunOK, QueueOK, Capped
  <2>2. run' = [run EXCEPT ![proc] = r]
    BY <1>6 DEF ReadCandidates
  <2>3. r.at = "deliver"
    OBVIOUS
  <2> HIDE DEF r
  <2> QED BY <1>6, <2>1, <2>2, <2>3 DEF ReadCandidates, Moves
<1> QED BY <1>1, <1>2, <1>3, <1>4, <1>5, <1>6

(* A candidate is done with: its step changes at most the delivery log.     *)
LEMMA DropMoves ==
  ASSUME RecurringInv, NEW proc \in Procs, NEW g, run[proc] # None,
         run[proc].at \in {"deliver", "reserved", "sent"},
         Drop(proc, g),
         UNCHANGED <<active, generated, documents, nextIssue, attempts, sent>>
  PROVE  Moves
<1> DEFINE r == [at |-> "deliver", fresh |-> run[proc].fresh \ {g},
                 pending |-> run[proc].pending \ {g}]
<1>1. RunOK(run[proc])
  BY DEF RecurringInv, RunsOK
<1>2. RunOK(r)
  BY <1>1 DEF RunOK, QueueOK
<1>3. run' = [run EXCEPT ![proc] = r]
  BY DEF Drop
<1>4. r.at = "deliver"
  OBVIOUS
<1> HIDE DEF r
<1> QED BY <1>2, <1>3, <1>4 DEF Moves

(* Preflights that fail, reservations that are lost, outcomes, answers.     *)
LEMMA DeliverySteps ==
  ASSUME RecurringInv, NEW proc \in Procs,
         \/ PreflightFails(proc)
         \/ Reserve(proc) /\ UNCHANGED attempts
         \/ RecordOutcome(proc)
         \/ \E o \in Events : Observe(proc, o)
  PROVE  Moves
<1>1. CASE PreflightFails(proc)
  <2>1. PICK g \in run[proc].fresh : Drop(proc, g)
    BY <1>1 DEF PreflightFails
  <2> QED BY <1>1, <2>1, DropMoves DEF PreflightFails, Busy, issueVars
<1>2. CASE Reserve(proc) /\ UNCHANGED attempts
  <2>1. PICK g \in run[proc].fresh :
          \/ Drop(proc, g)
          \/ g \notin attempts /\ attempts' = attempts \cup {g}
    BY <1>2 DEF Reserve
  <2>2. Drop(proc, g)
    BY <1>2, <2>1
  <2> QED BY <1>2, <2>2, DropMoves DEF Reserve, Busy, issueVars
<1>3. CASE RecordOutcome(proc)
  <2>1. PICK g : g = run[proc].gen
    OBVIOUS
  <2>2. Drop(proc, g)
    BY <1>3, <2>1 DEF RecordOutcome
  <2> QED BY <1>3, <2>2, DropMoves DEF RecordOutcome, Busy, issueVars
<1>4. ASSUME NEW o \in Events, Observe(proc, o)
      PROVE  Moves
  <2>1. PICK g \in run[proc].pending : Drop(proc, g)
    BY <1>4 DEF Observe
  <2> QED BY <1>4, <2>1, DropMoves DEF Observe, Busy, issueVars
<1> QED BY <1>1, <1>2, <1>3, <1>4

LEMMA MovesKeep ==
  ASSUME RecurringInv, Moves
  PROVE  TablesOK' /\ RunsOK' /\ OneHolder' /\ NextDateFollows'
<1>1. TablesOK'
  BY DEF RecurringInv, Moves, TablesOK
<1>2. NextDateFollows'
  BY DEF RecurringInv, Moves, NextDateFollows
<1>3. \A t \in Templates : nextIssue[t] \in Int
  BY RecurringAssumption DEF RecurringInv, TablesOK, RecurringAssumption
<1>4. Monotone
  BY <1>3 DEF Moves, Monotone
<1>5. ASSUME NEW proc \in Procs, NEW r,
             run' = [run EXCEPT ![proc] = r], RunOK(r),
             r = None \/ r.at \notin {"reserved", "sent"}
      PROVE  RunsOK' /\ OneHolder'
  BY <1>1, <1>4, <1>5, MoveKeepsRuns DEF RecurringInv, Moves
<1>6. RunsOK' /\ OneHolder'
  BY <1>5 DEF Moves
<1> QED BY <1>1, <1>2, <1>6

(* An invoice is issued: the dates and the documents follow the table.      *)
LEMMA IssueKeeps ==
  ASSUME RecurringInv, NEW proc \in Procs, IssueGeneration(proc)
  PROVE  /\ TablesOK' /\ RunsOK' /\ OneHolder' /\ NextDateFollows'
         /\ \E g \in Gens : Promise!Issue(g)
<1> DEFINE r == [at |-> "generate", due |-> run[proc].due, todo |-> run[proc].todo]
<1>1. PICK g : g = run[proc].gen
  OBVIOUS
<1>2. /\ ListOK(run[proc]) /\ g \in Gens
      /\ run[proc].next \in Nat /\ run[proc].next <= nextIssue[g[1]]
  BY <1>1 DEF RecurringInv, RunsOK, RunOK, IssueGeneration, Busy
<1>3. /\ g \notin generated
      /\ generated' = generated \cup {g}
      /\ documents' = [documents EXCEPT ![g] = @ + 1]
  BY <1>1 DEF IssueGeneration
<1>4. nextIssue' = [nextIssue EXCEPT ![g[1]] =
                      IF g[2] + 1 > run[proc].next THEN g[2] + 1 ELSE @]
  BY <1>1 DEF IssueGeneration, MovesNext
<1>5. g[2] + 1 > run[proc].next => g[2] + 1 >= nextIssue[g[1]]
  <2>1. ~(g[2] + 1 > run[proc].next /\ g[2] + 1 < nextIssue[g[1]])
    BY <1>1 DEF IssueGeneration, TriggerAborts, MovesNext
  <2>2. g[1] \in Templates /\ g[2] \in 0..LastIndex /\ LastIndex \in Nat
    BY <1>2, RecurringAssumption DEF Gens, RecurringAssumption
  <2>3. nextIssue[g[1]] \in 0..(LastIndex + 1)
    BY <2>2 DEF RecurringInv, TablesOK
  <2> QED BY <2>1, <2>2, <2>3
<1>6. UNCHANGED <<active, latest, attempts, ready, provider, sent>>
  BY DEF IssueGeneration, deliveryVars
<1>7. /\ g[1] \in Templates /\ g[2] \in 0..LastIndex /\ g = <<g[1], g[2]>>
      /\ LastIndex \in Nat
  BY <1>2, RecurringAssumption DEF Gens, RecurringAssumption
<1>8. nextIssue \in [Templates -> 0..(LastIndex + 1)]
  BY DEF RecurringInv, TablesOK
<1>9. nextIssue' \in [Templates -> 0..(LastIndex + 1)]
  BY <1>4, <1>7, <1>8
<1>10. /\ \A t \in Templates : nextIssue[t] <= nextIssue'[t]
       /\ g[2] < nextIssue'[g[1]]
       /\ nextIssue'[g[1]] = nextIssue[g[1]] \/ nextIssue'[g[1]] = g[2] + 1
       /\ \A t \in Templates : t # g[1] => nextIssue'[t] = nextIssue[t]
  BY <1>2, <1>4, <1>5, <1>7, <1>8
<1>11. documents' = [h \in Gens |-> IF h \in generated' THEN 1 ELSE 0]
  BY <1>2, <1>3 DEF RecurringInv, TablesOK
<1>12. TablesOK'
  BY <1>2, <1>3, <1>6, <1>9, <1>11 DEF RecurringInv, TablesOK
<1>13. NextDateFollows'
  <2>1. ASSUME NEW t \in Templates, NEW k \in 0..LastIndex, <<t, k>> \in generated'
        PROVE  k < nextIssue'[t]
    <3>1. CASE <<t, k>> = g
      BY <3>1, <1>10
    <3>2. CASE <<t, k>> \in generated
      <4>1. k < nextIssue[t]
        BY <3>2 DEF RecurringInv, NextDateFollows
      <4> QED BY <4>1, <1>7, <1>8, <1>9, <1>10
    <3> QED BY <2>1, <3>1, <3>2, <1>3
  <2>2. ASSUME NEW t \in Templates, nextIssue'[t] # 0
        PROVE  <<t, nextIssue'[t] - 1>> \in generated'
    <3>1. CASE nextIssue'[t] = nextIssue[t]
      BY <2>2, <3>1, <1>3 DEF RecurringInv, NextDateFollows
    <3>2. CASE t = g[1] /\ nextIssue'[t] = g[2] + 1
      BY <3>2, <1>3, <1>7
    <3> QED BY <3>1, <3>2, <1>10
  <2> QED BY <2>1, <2>2 DEF NextDateFollows
<1>14. RunsOK' /\ OneHolder'
  <2>1. RunOK(r)
    BY <1>2 DEF RunOK, ListOK
  <2>2. run' = [run EXCEPT ![proc] = r]
    BY DEF IssueGeneration, BackToList
  <2>3. r.at = "generate"
    OBVIOUS
  <2>4. Monotone
    BY <1>3, <1>6, <1>10 DEF Monotone
  <2>5. sent' = sent
    BY <1>6
  <2>6. TablesOK /\ RunsOK /\ OneHolder
    BY DEF RecurringInv
  <2> HIDE DEF r
  <2>7. PICK q : q = r
    OBVIOUS
  <2>8. /\ run' = [run EXCEPT ![proc] = q] /\ RunOK(q)
        /\ q = None \/ q.at \notin {"reserved", "sent"}
    BY <2>1, <2>2, <2>3, <2>7
  <2> QED BY <2>4, <2>5, <2>6, <2>8, <1>12, MoveKeepsRuns
<1>15. Promise!Issue(g)
  <2>1. documents[g] = 0
    BY <1>2, <1>3 DEF RecurringInv, TablesOK
  <2> QED BY <2>1, <1>3, <1>6 DEF Promise!Issue
<1> QED BY <1>2, <1>12, <1>13, <1>14, <1>15

(* A process that holds a document, with what a Hold leaves in its run.     *)
Held(g, at, r) ==
  [at |-> at, fresh |-> r.fresh, pending |-> r.pending, gen |-> g]

(* A reservation is won: nobody held the document before.                   *)
LEMMA ReserveKeeps ==
  ASSUME RecurringInv, NEW proc \in Procs, Reserve(proc), attempts' # attempts
  PROVE  TablesOK' /\ RunsOK' /\ OneHolder' /\ NextDateFollows'
<1>1. PICK g \in run[proc].fresh :
        /\ g \notin attempts
        /\ attempts' = attempts \cup {g}
        /\ run' = [run EXCEPT ![proc] = Held(g, "reserved", run[proc])]
  BY DEF Reserve, Hold, Held
<1>2. UNCHANGED <<active, generated, documents, nextIssue, sent>>
  BY DEF Reserve, issueVars
<1>3. QueueOK(run[proc]) /\ g \in generated /\ g \in Gens
  BY <1>1 DEF RecurringInv, RunsOK, RunOK, Reserve, Busy, QueueOK, TablesOK
<1>4. sent[g] = 0
  BY <1>1, <1>3 DEF RecurringInv, TablesOK
<1>5. TablesOK'
  BY <1>1, <1>2, <1>3 DEF RecurringInv, TablesOK
<1>6. NextDateFollows'
  BY <1>2 DEF RecurringInv, NextDateFollows
<1>7. /\ run' = [p \in Procs |-> run'[p]]
      /\ \A p \in Procs : run'[p] = IF p = proc THEN Held(g, "reserved", run[proc])
                                                ELSE run[p]
  BY <1>1 DEF RecurringInv, RunsOK
<1>8. ASSUME NEW p \in Procs
      PROVE  RunOK(run[p])'
  <2>1. CASE p = proc
    BY <1>1, <1>2, <1>3, <1>4, <1>7, <2>1 DEF Held, RunOK, QueueOK
  <2>2. CASE p # proc
    <3>1. RunOK(run[p]) /\ run'[p] = run[p]
      BY <1>7, <2>2 DEF RecurringInv, RunsOK
    <3> QED BY <3>1, <1>1, <1>2 DEF RunOK, ListOK, QueueOK
  <2> QED BY <2>1, <2>2
<1>9. RunsOK'
  BY <1>7, <1>8 DEF RunsOK
<1>10. \A p \in Procs : Holding(p) => run[p].gen # g
  BY <1>1 DEF RecurringInv, RunsOK, RunOK, Holding
<1>11. OneHolder'
  BY <1>7, <1>10 DEF RecurringInv, OneHolder, Holding, Held
<1> QED BY <1>5, <1>6, <1>9, <1>11

(* A document crosses the transport: only its holder sends it, once.        *)
LEMMA TransmitKeeps ==
  ASSUME RecurringInv, NEW proc \in Procs, Transmit(proc)
  PROVE  /\ TablesOK' /\ RunsOK' /\ OneHolder' /\ NextDateFollows'
         /\ \E g \in Gens : Promise!Send(g)
<1>1. PICK g : g = run[proc].gen
  OBVIOUS
<1>2. /\ sent' = [sent EXCEPT ![g] = @ + 1]
      /\ run' = [run EXCEPT ![proc] = Held(g, "sent", run[proc])]
      /\ UNCHANGED <<active, generated, documents, nextIssue, attempts>>
  BY <1>1 DEF Transmit, Hold, Held, issueVars
<1>3. /\ QueueOK(run[proc]) /\ g \in attempts /\ sent[g] = 0
      /\ g \in generated /\ g \in Gens
  BY <1>1 DEF RecurringInv, RunsOK, RunOK, Transmit, Busy, TablesOK
<1>4. sent \in [Gens -> 0..1]
  BY DEF RecurringInv, TablesOK
<1>5. /\ sent' = [sent EXCEPT ![g] = 1]
      /\ sent' \in [Gens -> 0..1]
      /\ \A h \in Gens : h # g => sent'[h] = sent[h]
  BY <1>2, <1>3, <1>4
<1>6. TablesOK'
  BY <1>2, <1>3, <1>5 DEF RecurringInv, TablesOK
<1>7. NextDateFollows'
  BY <1>2 DEF RecurringInv, NextDateFollows
<1>8. /\ run' = [p \in Procs |-> run'[p]]
      /\ \A p \in Procs : run'[p] = IF p = proc THEN Held(g, "sent", run[proc])
                                                ELSE run[p]
  BY <1>2 DEF RecurringInv, RunsOK
<1>9. \A p \in Procs : Holding(p) /\ p # proc => run[p].gen # g
  BY <1>1 DEF RecurringInv, OneHolder, Holding, Transmit, Busy
<1>10. ASSUME NEW p \in Procs
       PROVE  RunOK(run[p])'
  <2>1. CASE p = proc
    BY <1>2, <1>3, <1>8, <2>1 DEF Held, RunOK, QueueOK
  <2>2. CASE p # proc
    <3>1. RunOK(run[p]) /\ run'[p] = run[p]
      BY <1>8, <2>2 DEF RecurringInv, RunsOK
    <3>2. CASE run[p] = None \/ run[p].at \notin {"reserved", "sent"}
      BY <3>1, <3>2, <1>2 DEF RunOK, ListOK, QueueOK
    <3>3. CASE Holding(p)
      <4>1. run[p].gen \in attempts /\ run[p].gen # g /\ QueueOK(run[p])
        BY <3>1, <3>3, <1>9, <2>2 DEF RunOK, Holding
      <4>2. run[p].gen \in Gens
        BY <4>1 DEF RecurringInv, TablesOK
      <4> QED BY <3>1, <3>3, <4>1, <4>2, <1>2, <1>5 DEF RunOK, ListOK, QueueOK, Holding
    <3> QED BY <3>2, <3>3 DEF Holding
  <2> QED BY <2>1, <2>2
<1>11. RunsOK'
  BY <1>8, <1>10 DEF RunsOK
<1>12. OneHolder'
  BY <1>8, <1>9 DEF RecurringInv, OneHolder, Holding, Held
<1>13. Promise!Send(g)
  <2>1. documents[g] = 1
    BY <1>3 DEF RecurringInv, TablesOK
  <2> QED BY <2>1, <1>2, <1>3, <1>5 DEF Promise!Send
<1> QED BY <1>3, <1>6, <1>7, <1>11, <1>12, <1>13

-----------------------------------------------------------------------------
(* The log, the world and the crash counter keep their types.               *)
LEMMA LogKeeps ==
  ASSUME RecurringInv, [RecurringNext]_recurringVars
  PROVE  LogOK'
<1> USE DEF RecurringInv, LogOK
<1>1. CASE UNCHANGED recurringVars
  BY <1>1 DEF recurringVars, deliveryVars
<1>2. ASSUME NEW proc \in Procs,
             \/ \E asOf \in 0..LastIndex : StartRun(proc, asOf)
             \/ \E g \in Gens : GenerateOne(proc, g)
             \/ ReadTemplate(proc) \/ SkipGeneration(proc)
             \/ AbortGeneration(proc) \/ ReadCandidates(proc) \/ EndRun(proc)
             \/ IssueGeneration(proc)
      PROVE  LogOK'
  BY <1>2 DEF StartRun, GenerateOne, ReadTemplate, SkipGeneration,
              AbortGeneration, ReadCandidates, EndRun, IssueGeneration, deliveryVars
<1>3. ASSUME NEW proc \in Procs, PreflightFails(proc) \/ Reserve(proc)
      PROVE  LogOK'
  BY <1>3 DEF PreflightFails, Reserve, Events
<1>4. ASSUME NEW proc \in Procs, Transmit(proc)
      PROVE  LogOK'
  BY <1>4 DEF Transmit
<1>5. ASSUME NEW proc \in Procs, RecordOutcome(proc)
      PROVE  LogOK'
  <2>1. PICK g, o : latest' = [latest EXCEPT ![g] = o] /\ (g \in Gens => o \in Events)
    <3>1. PICK g : g = run[proc].gen
      OBVIOUS
    <3>2. PICK o \in {"uncertain"} \cup
                   IF run[proc].at = "sent" THEN Answers(provider[g]) ELSE {} :
            latest' = [latest EXCEPT ![g] = o]
      BY <1>5, <3>1 DEF RecordOutcome
    <3>3. g \in Gens => o \in Events
      BY <3>2 DEF Answers, Events
    <3> QED BY <3>2, <3>3
  <2> QED BY <1>5, <2>1 DEF RecordOutcome
<1>6. ASSUME NEW proc \in Procs, NEW o \in Events, Observe(proc, o)
      PROVE  LogOK'
  BY <1>6 DEF Observe
<1>7. ASSUME NEW proc \in Procs, Crash(proc)
      PROVE  LogOK'
  BY <1>7, RecurringAssumption DEF Crash, deliveryVars, RecurringAssumption
<1>8. ASSUME NEW t \in Templates, Retire(t) \/ Configure(t)
      PROVE  LogOK'
  BY <1>8 DEF Retire, Configure, deliveryVars
<1>9. ASSUME NEW g \in Gens, ProviderSettles(g)
      PROVE  LogOK'
  BY <1>9 DEF ProviderSettles
<1> QED BY <1>1, <1>2, <1>3, <1>4, <1>5, <1>6, <1>7, <1>8, <1>9
        DEF RecurringNext, RunStep

(* Every step keeps the tables, runs, holders and dates, and is a step of   *)
(* the promise or leaves its variables alone.                               *)
LEMMA StepKeeps ==
  ASSUME RecurringInv, [RecurringNext]_recurringVars
  PROVE  /\ TablesOK' /\ RunsOK' /\ OneHolder' /\ NextDateFollows'
         /\ [Promise!Next]_<<documents, sent>>
<1>0. Moves => UNCHANGED <<documents, sent>>
  BY DEF Moves
<1>1. CASE UNCHANGED recurringVars
  <2>1. UNCHANGED <<active, generated, documents, nextIssue, attempts, sent, run>>
    BY <1>1 DEF recurringVars, issueVars, deliveryVars
  <2>2. TablesOK'
    BY <2>1 DEF RecurringInv, TablesOK
  <2> QED BY <2>1, <2>2, IdleKeeps DEF RecurringInv
<1>2. ASSUME NEW proc \in Procs,
             \/ \E asOf \in 0..LastIndex : StartRun(proc, asOf)
             \/ \E g \in Gens : GenerateOne(proc, g)
             \/ ReadTemplate(proc) \/ SkipGeneration(proc)
             \/ AbortGeneration(proc) \/ ReadCandidates(proc) \/ EndRun(proc)
             \/ Crash(proc)
      PROVE  Moves
  BY <1>2, ListSteps
<1>3. ASSUME NEW proc \in Procs,
             \/ PreflightFails(proc)
             \/ Reserve(proc) /\ UNCHANGED attempts
             \/ RecordOutcome(proc)
             \/ \E o \in Events : Observe(proc, o)
      PROVE  Moves
  BY <1>3, DeliverySteps
<1>4. ASSUME NEW proc \in Procs, IssueGeneration(proc)
      PROVE  /\ TablesOK' /\ RunsOK' /\ OneHolder' /\ NextDateFollows'
             /\ Promise!Next
  BY <1>4, IssueKeeps DEF Promise!Next
<1>5. ASSUME NEW proc \in Procs, Reserve(proc), attempts' # attempts
      PROVE  /\ TablesOK' /\ RunsOK' /\ OneHolder' /\ NextDateFollows'
             /\ UNCHANGED <<documents, sent>>
  BY <1>5, ReserveKeeps DEF Reserve, issueVars
<1>6. ASSUME NEW proc \in Procs, Transmit(proc)
      PROVE  /\ TablesOK' /\ RunsOK' /\ OneHolder' /\ NextDateFollows'
             /\ Promise!Next
  BY <1>6, TransmitKeeps DEF Promise!Next
<1>7. ASSUME \/ \E t \in Templates : Retire(t) \/ Configure(t)
             \/ \E g \in Gens : ProviderSettles(g)
      PROVE  /\ TablesOK' /\ RunsOK' /\ OneHolder' /\ NextDateFollows'
             /\ UNCHANGED <<documents, sent>>
  <2>1. UNCHANGED <<generated, documents, nextIssue, attempts, sent, run>>
    BY <1>7 DEF Retire, Configure, ProviderSettles, issueVars, deliveryVars
  <2>2. active' \subseteq Templates
    BY <1>7 DEF Retire, Configure, ProviderSettles, issueVars, RecurringInv, TablesOK
  <2>3. TablesOK'
    BY <2>1, <2>2 DEF RecurringInv, TablesOK
  <2> QED BY <2>1, <2>3, IdleKeeps DEF RecurringInv
<1>8. Moves => /\ TablesOK' /\ RunsOK' /\ OneHolder' /\ NextDateFollows'
               /\ UNCHANGED <<documents, sent>>
  BY <1>0, MovesKeep
<1>9. \/ UNCHANGED recurringVars
      \/ \E proc \in Procs :
           \/ \/ \E asOf \in 0..LastIndex : StartRun(proc, asOf)
              \/ \E g \in Gens : GenerateOne(proc, g)
              \/ ReadTemplate(proc) \/ SkipGeneration(proc)
              \/ AbortGeneration(proc) \/ ReadCandidates(proc) \/ EndRun(proc)
              \/ Crash(proc)
           \/ \/ PreflightFails(proc)
              \/ Reserve(proc) /\ UNCHANGED attempts
              \/ RecordOutcome(proc)
              \/ \E o \in Events : Observe(proc, o)
           \/ IssueGeneration(proc)
           \/ Reserve(proc) /\ attempts' # attempts
           \/ Transmit(proc)
      \/ \E t \in Templates : Retire(t) \/ Configure(t)
      \/ \E g \in Gens : ProviderSettles(g)
  BY DEF RecurringNext, RunStep
<1> QED BY <1>1, <1>2, <1>3, <1>4, <1>5, <1>6, <1>7, <1>8, <1>9

-----------------------------------------------------------------------------
LEMMA InitHolds == RecurringInit => RecurringInv
<1> SUFFICES ASSUME RecurringInit PROVE RecurringInv
  OBVIOUS
<1> USE RecurringAssumption DEF RecurringInit, RecurringAssumption
<1>1. TablesOK
  BY DEF TablesOK
<1>2. LogOK
  BY DEF LogOK
<1>3. RunsOK
  BY DEF RunsOK, RunOK
<1>4. OneHolder
  BY DEF OneHolder, Holding
<1>5. NextDateFollows
  BY DEF NextDateFollows
<1> QED BY <1>1, <1>2, <1>3, <1>4, <1>5 DEF RecurringInv

(* The inductive invariant of the runner, in every interleaving of runs,    *)
(* direct calls, crashes and retirements.                                   *)
THEOREM RecurringInvariant == RecurringSpec => []RecurringInv
<1>1. RecurringInv /\ [RecurringNext]_recurringVars => RecurringInv'
  BY StepKeeps, LogKeeps DEF RecurringInv
<1> QED BY InitHolds, <1>1, PTL DEF RecurringSpec

(* Tables, log and runs have their types in every reachable state, and what *)
(* a run delivers has an invoice.                                           *)
THEOREM RecurringTypeCorrect == RecurringSpec => []RecurringTypeOK
<1>1. RecurringInv => RecurringTypeOK
  <2> SUFFICES ASSUME RecurringInv PROVE RecurringTypeOK
    OBVIOUS
  <2>1. documents \in [Gens -> 0..1]
    BY DEF RecurringInv, TablesOK
  <2>2. DOMAIN run = Procs
    BY DEF RecurringInv, RunsOK
  <2>3. ASSUME NEW proc \in Procs, run[proc] # None
        PROVE  \/ Busy(proc, "generate") /\ run[proc].todo \subseteq Gens
               \/ Busy(proc, "issue") /\ run[proc].gen \in Gens \ run[proc].todo
               \/ /\ Busy(proc, "deliver") \/ Holding(proc)
                  /\ run[proc].fresh \cup run[proc].pending \subseteq generated
    BY <2>3 DEF RecurringInv, RunsOK, RunOK, ListOK, QueueOK, Busy, Holding
  <2> QED BY <2>1, <2>2, <2>3 DEF RecurringInv, TablesOK, LogOK, RecurringTypeOK
<1> QED BY RecurringInvariant, <1>1, PTL

(* Only one process ever holds the reservation of a document, so two        *)
(* runners never cross the transport with the same invoice.                 *)
THEOREM OneHolderAlways == RecurringSpec => []OneHolder
<1>1. RecurringInv => OneHolder
  BY DEF RecurringInv
<1> QED BY RecurringInvariant, <1>1, PTL

(* next_issue_date follows the last generated period for any number of      *)
(* runners and direct calls: the trigger closes the race of the stale copy. *)
THEOREM NextDateAlwaysFollows == RecurringSpec => []NextDateFollows
<1>1. RecurringInv => NextDateFollows
  BY DEF RecurringInv
<1> QED BY RecurringInvariant, <1>1, PTL

(* The runner implements its promise: every period is issued at most once,  *)
(* and sent at most once after that.                                        *)
THEOREM RunnerKeepsPromise == RecurringSpec => PromiseSpec
<1>1. RecurringInit => Promise!Init
  BY DEF RecurringInit, Promise!Init
<1>2. RecurringInv /\ [RecurringNext]_recurringVars => [Promise!Next]_<<documents, sent>>
  BY StepKeeps
<1> QED BY RecurringInvariant, <1>1, <1>2, PTL DEF RecurringSpec, PromiseSpec, Promise!Spec
=============================================================================
