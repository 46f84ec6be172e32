-------------------------- MODULE WorkspaceProofs ---------------------------
(* Theorems about the components around the ledgers, each and together.     *)
EXTENDS Workspace, IntakeProofs, Sums, FiniteSetTheorems, TLAPS

-----------------------------------------------------------------------------
(***************************************************************************)
(* Theorems about ServiceCredentials for all operations and recoverers,    *)
(* also where an operation is recovered while its call is still under way. *)
(*                                                                         *)
(* That a settled operation has settled the provider's side follows from   *)
(* three things.  A key is issued once, by the step of its own operation,  *)
(* so what is disabled stays so.  An operation whose key is still to be    *)
(* issued is pending, or was claimed early.  And what a recovery that did  *)
(* not come too early has left to disable includes all that is enabled of  *)
(* what it looks for, also when others disable the same.                   *)
(***************************************************************************)

EventRecords ==
  [status : {"pending", "recovering", "failed", "recovered", "completed"}, claim : Nat]

CredentialsTyped ==
  /\ events \in [Operations -> Seq(EventRecords)]
  /\ target \in [Operations -> [type : {"create", "rotate", "revoke"},
                                credential : Operations \union {NoCredential}]]
  /\ step \in [Operations -> {"issue", "disable", "finish", "ended"}]
  /\ keys \subseteq Operations /\ disabled \subseteq Operations
  /\ keys \intersect disabled = {}
  /\ recovering \in [Recoverers -> [op : Operations \union {NoCredential},
                                    claim : Nat, scanned : SUBSET Operations]]
  /\ claims \in 0..MaxClaims /\ early \subseteq Operations

(* A key comes from the one step of its operation that issues it.           *)
KeysAreIssuedOnce ==
  \A op \in Operations :
    op \in keys \union disabled => step[op] # "issue" /\ events[op] # <<>>

(* The credential an operation acts on was issued before.                   *)
TargetsWereIssued ==
  \A op \in Operations :
    /\ target[op].credential \in keys \union disabled \union {NoCredential}
    /\ target[op].type = "create" => target[op].credential = NoCredential
    /\ step[op] = "issue" => target[op].type # "revoke"
    /\ step[op] = "finish" => target[op].credential \notin keys

(* An operation under way or claimed has events; one whose key is still to *)
(* be issued is pending, or was claimed early; a revocation issues none.    *)
RunningIsPending ==
  \A op \in Operations :
    /\ step[op] # "ended" \/ op \in early => events[op] # <<>>
    /\ step[op] = "issue" => Status(op) = "pending" \/ op \in early
    /\ op \in early => target[op].type # "revoke"

(* The key a recovery of the operation looks for.                           *)
Sought(op) == IF target[op].type = "revoke" THEN target[op].credential ELSE op

RecoveryKnowsItsKey ==
  \A r \in Recoverers :
    recovering[r] # Resting =>
      LET op == recovering[r].op
      IN /\ op \in Operations /\ events[op] # <<>>
         /\ op \notin early =>
              /\ step[op] # "issue"
              /\ Sought(op) \in keys => Sought(op) \in recovering[r].scanned

CredentialsInv ==
  /\ CredentialsTyped /\ KeysAreIssuedOnce /\ TargetsWereIssued
  /\ RunningIsPending /\ RecoveryKnowsItsKey /\ NoSurpriseKey

-----------------------------------------------------------------------------
(* Events.                                                                  *)

(* What an append does to the latest events.                                *)
LEMMA AppendedIsLatest ==
  ASSUME events \in [Operations -> Seq(EventRecords)], NEW op \in Operations,
         NEW log \in Seq(EventRecords), NEW e \in EventRecords,
         events' = [events EXCEPT ![op] = Append(log, e)]
  PROVE  /\ events' \in [Operations -> Seq(EventRecords)]
         /\ events'[op] # <<>> /\ LatestEvent(op)' = e
         /\ \A q \in Operations \ {op} :
              events'[q] = events[q] /\ LatestEvent(q)' = LatestEvent(q)
<1> DEFINE longer == Append(log, e)
<1>1. longer \in Seq(EventRecords) /\ Len(longer) = Len(log) + 1 /\ Len(log) \in Nat
      /\ longer[Len(log) + 1] = e
  OBVIOUS
<1>2. Len(<< >>) = 0
  OBVIOUS
<1>3. events' = [events EXCEPT ![op] = longer]
  OBVIOUS
<1> HIDE DEF longer
<1>4. longer # << >> /\ longer[Len(longer)] = e
  BY <1>1, <1>2
<1> QED BY <1>1, <1>3, <1>4 DEF LatestEvent

LEMMA StatusAppended ==
  ASSUME CredentialsTyped, NEW op \in Operations,
         NEW s \in {"pending", "recovering", "failed", "recovered", "completed"},
         NEW claim \in Nat, AppendStatus(op, s, claim)
  PROVE  /\ events' \in [Operations -> Seq(EventRecords)]
         /\ events'[op] # <<>> /\ Status(op)' = s
         /\ \A q \in Operations \ {op} :
              events'[q] = events[q] /\ Status(q)' = Status(q)
<1>1. events[op] \in Seq(EventRecords) /\ events \in [Operations -> Seq(EventRecords)]
  BY DEF CredentialsTyped
<1>2. Event(s, claim) \in EventRecords /\ Event(s, claim).status = s
  BY DEF Event, EventRecords
<1>3. events' = [events EXCEPT ![op] = Append(events[op], Event(s, claim))]
  BY DEF AppendStatus
<1> QED BY <1>1, <1>2, <1>3, AppendedIsLatest DEF Status

LEMMA RecoveredAppended ==
  ASSUME CredentialsTyped, NEW op \in Operations,
         events' = [events EXCEPT ![op] =
                      @ \o <<Event("failed", 0), Event("recovered", 0)>>]
  PROVE  /\ events' \in [Operations -> Seq(EventRecords)]
         /\ events'[op] # <<>> /\ Status(op)' = "recovered"
         /\ \A q \in Operations \ {op} :
              events'[q] = events[q] /\ Status(q)' = Status(q)
<1> DEFINE log == Append(events[op], Event("failed", 0))
<1>1. events[op] \in Seq(EventRecords) /\ events \in [Operations -> Seq(EventRecords)]
  BY DEF CredentialsTyped
<1>2. Event("failed", 0) \in EventRecords /\ Event("recovered", 0) \in EventRecords
      /\ Event("recovered", 0).status = "recovered"
  BY DEF Event, EventRecords
<1>3. log \in Seq(EventRecords)
  BY <1>1, <1>2
<1>4. events[op] \o <<Event("failed", 0), Event("recovered", 0)>>
        = Append(log, Event("recovered", 0))
  BY <1>1, <1>2
<1>5. events' = [events EXCEPT ![op] = Append(log, Event("recovered", 0))]
  BY <1>1, <1>4
<1> HIDE DEF log
<1> QED BY <1>1, <1>2, <1>3, <1>5, AppendedIsLatest DEF Status

(* Disabling a key.                                                         *)
LEMMA Disabled ==
  ASSUME CredentialsTyped, NEW k \in Operations \union {NoCredential}, DisableKey(k)
  PROVE  /\ keys' = keys \ {k}
         /\ keys' \union disabled' = keys \union disabled
         /\ disabled' \subseteq Operations /\ keys' \intersect disabled' = {}
BY DEF CredentialsTyped, DisableKey

-----------------------------------------------------------------------------
(* The steps of an operation.                                               *)

LEMMA BeginKeepsInv ==
  ASSUME CredentialsInv, NEW op \in Operations,
         NEW type \in {"create", "rotate", "revoke"},
         NEW k \in Operations \union {NoCredential}, Begin(op, type, k)
  PROVE  CredentialsInv'
<1>1. CredentialsTyped /\ events[op] = <<>>
  BY DEF CredentialsInv, Begin
<1>2. /\ events' \in [Operations -> Seq(EventRecords)]
      /\ events'[op] # <<>> /\ Status(op)' = "pending"
      /\ \A q \in Operations \ {op} :
           events'[q] = events[q] /\ Status(q)' = Status(q)
  BY <1>1, StatusAppended DEF Begin
<1>3. /\ target'[op] = [type |-> type, credential |-> k]
      /\ step'[op] = IF type = "revoke" THEN "disable" ELSE "issue"
      /\ \A q \in Operations \ {op} : target'[q] = target[q] /\ step'[q] = step[q]
      /\ UNCHANGED <<keys, disabled, recovering, claims, early>>
  BY <1>1 DEF Begin, CredentialsTyped
<1>4. CredentialsTyped'
  BY <1>1, <1>2, <1>3 DEF CredentialsTyped, Begin
<1>5. op \notin keys \union disabled
  BY <1>1 DEF CredentialsInv, KeysAreIssuedOnce
<1>6. KeysAreIssuedOnce'
  BY <1>2, <1>3, <1>5 DEF CredentialsInv, KeysAreIssuedOnce
<1>7. TargetsWereIssued'
  BY <1>3 DEF CredentialsInv, TargetsWereIssued, Begin
<1>8. RunningIsPending'
  BY <1>1, <1>2, <1>3 DEF CredentialsInv, RunningIsPending
<1>9. RecoveryKnowsItsKey'
  BY <1>1, <1>2, <1>3 DEF CredentialsInv, RecoveryKnowsItsKey, Sought
<1>10. NoSurpriseKey'
  BY <1>2, <1>3 DEF CredentialsInv, NoSurpriseKey
<1> QED BY <1>4, <1>6, <1>7, <1>8, <1>9, <1>10 DEF CredentialsInv

LEMMA IssueKeepsInv ==
  ASSUME CredentialsInv, NEW op \in Operations, IssueKey(op)
  PROVE  CredentialsInv'
<1>1. CredentialsTyped /\ step[op] = "issue" /\ op \notin keys \union disabled
  BY DEF CredentialsInv, IssueKey, KeysAreIssuedOnce
<1>2. /\ keys' = keys \union {op}
      /\ step'[op] = IF target[op].type = "rotate" THEN "disable" ELSE "finish"
      /\ \A q \in Operations \ {op} : step'[q] = step[q]
      /\ UNCHANGED <<events, target, disabled, recovering, claims, early>>
  BY <1>1 DEF IssueKey, CredentialsTyped
<1>3. \A q \in Operations : Status(q)' = Status(q)
  BY <1>2 DEF Status, LatestEvent
<1>4. (Status(op) = "pending" \/ op \in early) /\ events[op] # <<>>
  BY <1>1 DEF CredentialsInv, RunningIsPending, Status, LatestEvent, Event
<1>5. \A q \in Operations : target[q].credential # op
  BY <1>1, ServiceCredentialsAssumption DEF CredentialsInv, TargetsWereIssued
<1>6. CredentialsTyped'
  BY <1>1, <1>2 DEF CredentialsTyped, IssueKey
<1>7. KeysAreIssuedOnce'
  BY <1>2, <1>4 DEF CredentialsInv, KeysAreIssuedOnce
<1>8. TargetsWereIssued'
  <2>1. target[op].type # "rotate" => target[op].credential = NoCredential
    BY <1>1 DEF CredentialsInv, TargetsWereIssued, CredentialsTyped
  <2> QED BY <1>1, <1>2, <1>5, <2>1, ServiceCredentialsAssumption
          DEF CredentialsInv, TargetsWereIssued, CredentialsTyped
<1>9. RunningIsPending'
  BY <1>2, <1>3, <1>4 DEF CredentialsInv, RunningIsPending
<1>10. RecoveryKnowsItsKey'
  BY <1>1, <1>2, <1>5 DEF CredentialsInv, RecoveryKnowsItsKey, Sought
<1>11. NoSurpriseKey'
  BY <1>2, <1>3, <1>4, <1>5 DEF CredentialsInv, NoSurpriseKey
<1> QED BY <1>6, <1>7, <1>8, <1>9, <1>10, <1>11 DEF CredentialsInv

LEMMA DisableOldKeepsInv ==
  ASSUME CredentialsInv, NEW op \in Operations, DisableOld(op)
  PROVE  CredentialsInv'
<1> DEFINE k == target[op].credential
<1>1. CredentialsTyped /\ step[op] = "disable" /\ DisableKey(k)
      /\ k \in Operations \union {NoCredential}
      /\ UNCHANGED <<events, target, recovering, claims, early>>
  BY DEF CredentialsInv, DisableOld, CredentialsTyped
<1>2. /\ step'[op] = "finish" /\ \A q \in Operations \ {op} : step'[q] = step[q]
  BY <1>1 DEF DisableOld, CredentialsTyped
<1>3. /\ keys' = keys \ {k}
      /\ keys' \union disabled' = keys \union disabled
      /\ disabled' \subseteq Operations /\ keys' \intersect disabled' = {}
  BY <1>1, Disabled
<1>4. \A q \in Operations : Status(q)' = Status(q)
  BY <1>1 DEF Status, LatestEvent
<1>5. CredentialsTyped'
  BY <1>1, <1>3 DEF CredentialsTyped, DisableOld
<1>6. KeysAreIssuedOnce'
  BY <1>1, <1>2, <1>3 DEF CredentialsInv, KeysAreIssuedOnce
<1>7. TargetsWereIssued'
  BY <1>1, <1>2, <1>3 DEF CredentialsInv, TargetsWereIssued
<1>8. RunningIsPending'
  BY <1>1, <1>2, <1>4 DEF CredentialsInv, RunningIsPending
<1>9. RecoveryKnowsItsKey'
  BY <1>1, <1>2, <1>3 DEF CredentialsInv, RecoveryKnowsItsKey, Sought
<1>10. NoSurpriseKey'
  BY <1>1, <1>3, <1>4 DEF CredentialsInv, NoSurpriseKey
<1> QED BY <1>5, <1>6, <1>7, <1>8, <1>9, <1>10 DEF CredentialsInv

LEMMA CompleteKeepsInv ==
  ASSUME CredentialsInv, NEW op \in Operations, Complete(op)
  PROVE  CredentialsInv'
<1>1. CredentialsTyped /\ step[op] = "finish"
      /\ UNCHANGED <<target, keys, disabled, recovering, claims, early>>
  BY DEF CredentialsInv, Complete
<1>2. /\ events' \in [Operations -> Seq(EventRecords)]
      /\ events'[op] # <<>> /\ Status(op)' = "completed"
      /\ \A q \in Operations \ {op} :
           events'[q] = events[q] /\ Status(q)' = Status(q)
  BY <1>1, StatusAppended DEF Complete
<1>3. step'[op] = "ended" /\ \A q \in Operations \ {op} : step'[q] = step[q]
  BY <1>1 DEF Complete, CredentialsTyped
<1>4. CredentialsTyped'
  BY <1>1, <1>2 DEF CredentialsTyped, Complete
<1>5. KeysAreIssuedOnce'
  BY <1>1, <1>2, <1>3 DEF CredentialsInv, KeysAreIssuedOnce
<1>6. TargetsWereIssued'
  BY <1>1, <1>3 DEF CredentialsInv, TargetsWereIssued
<1>7. RunningIsPending'
  BY <1>1, <1>2, <1>3 DEF CredentialsInv, RunningIsPending
<1>8. RecoveryKnowsItsKey'
  BY <1>1, <1>2, <1>3 DEF CredentialsInv, RecoveryKnowsItsKey, Sought
<1>9. NoSurpriseKey'
  BY <1>1, <1>2 DEF CredentialsInv, NoSurpriseKey, TargetsWereIssued
<1> QED BY <1>4, <1>5, <1>6, <1>7, <1>8, <1>9 DEF CredentialsInv

LEMMA FailKeepsInv ==
  ASSUME CredentialsInv, NEW op \in Operations, NEW compensated \in BOOLEAN,
         Fail(op, compensated)
  PROVE  CredentialsInv'
<1>1. CredentialsTyped /\ step[op] # "ended"
      /\ UNCHANGED <<target, recovering, claims, early>>
  BY DEF CredentialsInv, Fail
<1>2. /\ events' \in [Operations -> Seq(EventRecords)]
      /\ events'[op] # <<>> /\ Status(op)' = "failed"
      /\ \A q \in Operations \ {op} :
           events'[q] = events[q] /\ Status(q)' = Status(q)
  BY <1>1, StatusAppended DEF Fail
<1>3. step'[op] = "ended" /\ \A q \in Operations \ {op} : step'[q] = step[q]
  BY <1>1 DEF Fail, CredentialsTyped
<1>4. /\ keys' \subseteq keys /\ keys' \union disabled' = keys \union disabled
      /\ disabled' \subseteq Operations /\ keys' \intersect disabled' = {}
  <2>1. CASE compensated
    BY <1>1, <2>1, Disabled DEF Fail
  <2>2. CASE ~compensated
    BY <1>1, <2>2 DEF Fail, CredentialsTyped
  <2> QED BY <2>1, <2>2
<1>5. CredentialsTyped'
  BY <1>1, <1>2, <1>4 DEF CredentialsTyped, Fail
<1>6. KeysAreIssuedOnce'
  BY <1>1, <1>2, <1>3, <1>4 DEF CredentialsInv, KeysAreIssuedOnce
<1>7. TargetsWereIssued'
  BY <1>1, <1>3, <1>4 DEF CredentialsInv, TargetsWereIssued
<1>8. RunningIsPending'
  BY <1>1, <1>2, <1>3 DEF CredentialsInv, RunningIsPending
<1>9. RecoveryKnowsItsKey'
  BY <1>1, <1>2, <1>3, <1>4 DEF CredentialsInv, RecoveryKnowsItsKey, Sought
<1>10. NoSurpriseKey'
  BY <1>1, <1>2, <1>4 DEF CredentialsInv, NoSurpriseKey
<1> QED BY <1>5, <1>6, <1>7, <1>8, <1>9, <1>10 DEF CredentialsInv

LEMMA CrashKeepsInv ==
  ASSUME CredentialsInv, NEW op \in Operations, Crash(op)
  PROVE  CredentialsInv'
<1>1. CredentialsTyped /\ step[op] # "ended"
      /\ UNCHANGED <<events, target, keys, disabled, recovering, claims, early>>
  BY DEF CredentialsInv, Crash
<1>2. step'[op] = "ended" /\ \A q \in Operations \ {op} : step'[q] = step[q]
  BY <1>1 DEF Crash, CredentialsTyped
<1>3. CredentialsTyped'
  BY <1>1 DEF CredentialsTyped, Crash
<1>4. KeysAreIssuedOnce' /\ TargetsWereIssued' /\ RunningIsPending'
  BY <1>1, <1>2 DEF CredentialsInv, KeysAreIssuedOnce, TargetsWereIssued,
                    RunningIsPending, Status, LatestEvent
<1>5. RecoveryKnowsItsKey'
  BY <1>1, <1>2 DEF CredentialsInv, RecoveryKnowsItsKey, Sought
<1>6. NoSurpriseKey'
  BY <1>1 DEF CredentialsInv, NoSurpriseKey, Status, LatestEvent
<1> QED BY <1>3, <1>4, <1>5, <1>6 DEF CredentialsInv

-----------------------------------------------------------------------------
(* The steps of a recovery.                                                 *)

LEMMA ClaimKeepsInv ==
  ASSUME CredentialsInv, NEW r \in Recoverers, NEW op \in Operations,
         ClaimRecovery(r, op)
  PROVE  CredentialsInv'
<1> DEFINE scan == IF target[op].type = "revoke"
                   THEN keys \intersect {target[op].credential}
                   ELSE keys \intersect {op}
<1>1. /\ CredentialsTyped /\ events[op] # <<>>
      /\ Status(op) \notin {"recovered", "completed"}
      /\ early' = IF step[op] = "issue" THEN early \union {op} ELSE early
      /\ UNCHANGED <<target, step, keys, disabled>>
  BY DEF CredentialsInv, ClaimRecovery, Status, LatestEvent, Event
<1>2. claims' = claims + 1 /\ claims' \in Nat /\ claims' \in 0..MaxClaims
  BY <1>1, ServiceCredentialsAssumption DEF ClaimRecovery, CredentialsTyped
<1>3. /\ events' \in [Operations -> Seq(EventRecords)]
      /\ events'[op] # <<>> /\ Status(op)' = "recovering"
      /\ \A q \in Operations \ {op} :
           events'[q] = events[q] /\ Status(q)' = Status(q)
  BY <1>1, <1>2, StatusAppended DEF ClaimRecovery
<1>4. recovering' =
        [recovering EXCEPT ![r] = [op |-> op, claim |-> claims', scanned |-> scan]]
  BY DEF ClaimRecovery
<1>5. scan \subseteq Operations /\ (Sought(op) \in keys => Sought(op) \in scan)
  BY <1>1 DEF CredentialsTyped, Sought
<1> HIDE DEF scan
<1>6. CredentialsTyped'
  BY <1>1, <1>2, <1>3, <1>4, <1>5 DEF CredentialsTyped
<1>7. KeysAreIssuedOnce' /\ TargetsWereIssued'
  BY <1>1, <1>3 DEF CredentialsInv, KeysAreIssuedOnce, TargetsWereIssued
<1>8. RunningIsPending'
  BY <1>1, <1>3 DEF CredentialsInv, RunningIsPending, TargetsWereIssued
<1>9. RecoveryKnowsItsKey'
  <2>1. recovering'[r].op = op /\ recovering'[r].scanned = scan
        /\ \A q \in Recoverers \ {r} : recovering'[q] = recovering[q]
    BY <1>1, <1>4 DEF CredentialsTyped
  <2>2. \A o \in Operations : events[o] # <<>> => events'[o] # <<>>
    BY <1>3
  <2> QED BY <1>1, <1>5, <2>1, <2>2 DEF CredentialsInv, RecoveryKnowsItsKey, Sought
<1>10. NoSurpriseKey'
  BY <1>1, <1>3 DEF CredentialsInv, NoSurpriseKey
<1> QED BY <1>6, <1>7, <1>8, <1>9, <1>10 DEF CredentialsInv

LEMMA DisableFoundKeepsInv ==
  ASSUME CredentialsInv, NEW r \in Recoverers, DisableFound(r)
  PROVE  CredentialsInv'
<1>1. PICK k \in recovering[r].scanned :
        /\ DisableKey(k)
        /\ recovering' = [recovering EXCEPT ![r].scanned = @ \ {k}]
  BY DEF DisableFound
<1>2. CredentialsTyped /\ k \in Operations /\ UNCHANGED <<events, target, step, claims, early>>
  BY <1>1 DEF CredentialsInv, DisableFound, CredentialsTyped
<1>3. /\ keys' = keys \ {k}
      /\ keys' \union disabled' = keys \union disabled
      /\ disabled' \subseteq Operations /\ keys' \intersect disabled' = {}
  BY <1>1, <1>2, Disabled
<1>4. \A q \in Operations : Status(q)' = Status(q)
  BY <1>2 DEF Status, LatestEvent
<1>5. /\ recovering[r] # Resting
      /\ recovering'[r].op = recovering[r].op
      /\ recovering'[r].scanned = recovering[r].scanned \ {k}
      /\ \A q \in Recoverers \ {r} : recovering'[q] = recovering[q]
  BY <1>1, <1>2 DEF CredentialsTyped, Resting
<1>6. CredentialsTyped'
  BY <1>1, <1>2, <1>3 DEF CredentialsTyped
<1>7. KeysAreIssuedOnce' /\ TargetsWereIssued' /\ RunningIsPending'
  BY <1>2, <1>3, <1>4 DEF CredentialsInv, KeysAreIssuedOnce, TargetsWereIssued,
                          RunningIsPending
<1>8. RecoveryKnowsItsKey'
  BY <1>2, <1>3, <1>5 DEF CredentialsInv, RecoveryKnowsItsKey, Sought
<1>9. NoSurpriseKey'
  BY <1>2, <1>3, <1>4 DEF CredentialsInv, NoSurpriseKey
<1> QED BY <1>6, <1>7, <1>8, <1>9 DEF CredentialsInv

(* A recoverer that rests looks for nothing.                                *)
LEMMA RestingKnows ==
  ASSUME CredentialsInv, NEW r \in Recoverers,
         recovering' = [recovering EXCEPT ![r] = Resting],
         UNCHANGED <<target, step, keys, disabled, claims, early>>,
         \A q \in Operations : events[q] # <<>> => events'[q] # <<>>
  PROVE  RecoveryKnowsItsKey'
<1>1. recovering'[r] = Resting /\ \A q \in Recoverers \ {r} : recovering'[q] = recovering[q]
  BY DEF CredentialsInv, CredentialsTyped
<1> QED BY <1>1 DEF CredentialsInv, RecoveryKnowsItsKey, Sought

LEMMA RestingTyped ==
  ASSUME CredentialsTyped, NEW r \in Recoverers,
         recovering' = [recovering EXCEPT ![r] = Resting],
         UNCHANGED <<target, step, keys, disabled, claims, early>>,
         events' \in [Operations -> Seq(EventRecords)]
  PROVE  CredentialsTyped'
BY DEF CredentialsTyped, Resting

LEMMA FinishRecoveryKeepsInv ==
  ASSUME CredentialsInv, NEW r \in Recoverers, FinishRecovery(r)
  PROVE  CredentialsInv'
<1>0. PICK op \in Operations : op = recovering[r].op
  BY DEF CredentialsInv, RecoveryKnowsItsKey, FinishRecovery
<1>1. /\ CredentialsTyped
      /\ op \notin early => step[op] # "issue" /\ Sought(op) \notin keys
      /\ recovering' = [recovering EXCEPT ![r] = Resting]
      /\ UNCHANGED <<target, step, keys, disabled, claims, early>>
  BY <1>0 DEF CredentialsInv, RecoveryKnowsItsKey, FinishRecovery
<1>2. /\ events' \in [Operations -> Seq(EventRecords)]
      /\ events'[op] # <<>>
      /\ Status(op)' = IF target[op].type = "revoke" THEN "completed" ELSE "recovered"
      /\ \A q \in Operations \ {op} :
           events'[q] = events[q] /\ Status(q)' = Status(q)
  <2>1. CASE target[op].type = "revoke"
    BY <1>0, <1>1, <2>1, StatusAppended DEF FinishRecovery
  <2>2. CASE target[op].type # "revoke"
    BY <1>0, <1>1, <2>2, RecoveredAppended DEF FinishRecovery
  <2> QED BY <2>1, <2>2
<1>3. CredentialsTyped'
  BY <1>1, <1>2, RestingTyped
<1>4. KeysAreIssuedOnce' /\ TargetsWereIssued' /\ RunningIsPending'
  BY <1>1, <1>2 DEF CredentialsInv, KeysAreIssuedOnce, TargetsWereIssued,
                    RunningIsPending
<1>5. RecoveryKnowsItsKey'
  BY <1>1, <1>2, RestingKnows
<1>6. NoSurpriseKey'
  BY <1>1, <1>2 DEF CredentialsInv, RunningIsPending, NoSurpriseKey, Sought
<1> QED BY <1>3, <1>4, <1>5, <1>6 DEF CredentialsInv

LEMMA FailRecoveryKeepsInv ==
  ASSUME CredentialsInv, NEW r \in Recoverers, FailRecovery(r)
  PROVE  CredentialsInv'
<1>0. PICK op \in Operations : op = recovering[r].op
  BY DEF CredentialsInv, RecoveryKnowsItsKey, FailRecovery, Resting
<1>1. /\ CredentialsTyped
      /\ op \notin early => step[op] # "issue"
      /\ recovering' = [recovering EXCEPT ![r] = Resting]
      /\ UNCHANGED <<target, step, keys, disabled, claims, early>>
  BY <1>0 DEF CredentialsInv, RecoveryKnowsItsKey, FailRecovery, Resting
<1>2. /\ events' \in [Operations -> Seq(EventRecords)]
      /\ events[op] # <<>> => events'[op] # <<>>
      /\ Status(op)' \in {Status(op), "failed"}
      /\ \A q \in Operations \ {op} :
           events'[q] = events[q] /\ Status(q)' = Status(q)
  <2>1. CASE AppendStatus(op, "failed", 0)
    BY <1>1, <2>1, StatusAppended
  <2>2. CASE UNCHANGED events
    BY <1>1, <2>2 DEF CredentialsTyped, Status, LatestEvent
  <2> QED BY <1>0, <2>1, <2>2 DEF FailRecovery
<1>3. CredentialsTyped'
  BY <1>1, <1>2, RestingTyped
<1>4. KeysAreIssuedOnce' /\ TargetsWereIssued' /\ RunningIsPending'
  BY <1>1, <1>2 DEF CredentialsInv, KeysAreIssuedOnce, TargetsWereIssued,
                    RunningIsPending
<1>5. RecoveryKnowsItsKey'
  BY <1>1, <1>2, RestingKnows
<1>6. NoSurpriseKey'
  BY <1>1, <1>2 DEF CredentialsInv, NoSurpriseKey
<1> QED BY <1>3, <1>4, <1>5, <1>6 DEF CredentialsInv

LEMMA UnchangedKeepsInv ==
  ASSUME CredentialsInv,
         UNCHANGED <<events, target, step, keys, disabled, claims, early>>,
         UNCHANGED recovering \/ \E r \in Recoverers : LeaveRecovery(r)
  PROVE  CredentialsInv'
<1>1. CredentialsTyped' /\ RecoveryKnowsItsKey'
  <2>1. CASE UNCHANGED recovering
    BY <2>1 DEF CredentialsInv, CredentialsTyped, RecoveryKnowsItsKey, Sought
  <2>2. ASSUME NEW r \in Recoverers, LeaveRecovery(r)
        PROVE  CredentialsTyped' /\ RecoveryKnowsItsKey'
    BY <2>2, RestingTyped, RestingKnows
       DEF LeaveRecovery, CredentialsInv, CredentialsTyped
  <2> QED BY <2>1, <2>2
<1> QED BY <1>1 DEF CredentialsInv, KeysAreIssuedOnce, TargetsWereIssued,
                    RunningIsPending, NoSurpriseKey, Status, LatestEvent

-----------------------------------------------------------------------------

LEMMA CredentialsInvHolds == ServiceCredentialsSpec => []CredentialsInv
<1>1. ServiceCredentialsInit => CredentialsInv
  BY ServiceCredentialsAssumption
     DEF ServiceCredentialsInit, CredentialsInv, CredentialsTyped, KeysAreIssuedOnce,
         TargetsWereIssued, RunningIsPending, RecoveryKnowsItsKey, NoSurpriseKey,
         Resting, Status, LatestEvent, Event
<1>2. CredentialsInv /\ [ServiceCredentialsNext]_serviceCredentialsVars => CredentialsInv'
  <2> SUFFICES ASSUME CredentialsInv, [ServiceCredentialsNext]_serviceCredentialsVars
               PROVE  CredentialsInv'
    OBVIOUS
  <2>1. ASSUME NEW op \in Operations, NEW type \in {"create", "rotate", "revoke"},
               NEW k \in Operations \union {NoCredential}, Begin(op, type, k)
        PROVE  CredentialsInv'
    BY <2>1, BeginKeepsInv
  <2>2. ASSUME NEW op \in Operations,
               \/ IssueKey(op) \/ DisableOld(op) \/ Complete(op) \/ Crash(op)
               \/ \E compensated \in BOOLEAN : Fail(op, compensated)
        PROVE  CredentialsInv'
    BY <2>2, IssueKeepsInv, DisableOldKeepsInv, CompleteKeepsInv, CrashKeepsInv,
       FailKeepsInv
  <2>3. ASSUME NEW r \in Recoverers,
               \/ \E op \in Operations : ClaimRecovery(r, op)
               \/ DisableFound(r) \/ FinishRecovery(r) \/ FailRecovery(r)
        PROVE  CredentialsInv'
    BY <2>3, ClaimKeepsInv, DisableFoundKeepsInv, FinishRecoveryKeepsInv,
       FailRecoveryKeepsInv
  <2>4. ASSUME NEW r \in Recoverers, LeaveRecovery(r)
        PROVE  CredentialsInv'
    BY <2>4, UnchangedKeepsInv DEF LeaveRecovery
  <2>5. CASE UNCHANGED serviceCredentialsVars
    BY <2>5, UnchangedKeepsInv DEF serviceCredentialsVars
  <2> QED BY <2>1, <2>2, <2>3, <2>4, <2>5 DEF ServiceCredentialsNext
<1> QED BY <1>1, <1>2, PTL DEF ServiceCredentialsSpec

(* A recovered operation leaves no key that works unless a recovery claimed *)
(* it before its key was issued, and a completed one none of the credential *)
(* it replaced, for any number of operations, recoverers and claims, also   *)
(* where the call of an operation is still under way when it is recovered.  *)
THEOREM SettledKeysAreSettled == ServiceCredentialsSpec => []NoSurpriseKey
<1>1. CredentialsInv => NoSurpriseKey
  BY DEF CredentialsInv
<1> QED BY <1>1, CredentialsInvHolds, PTL

(* Events, keys, operations and recoveries have their types, and no key is  *)
(* both enabled and disabled.                                               *)
THEOREM CredentialsTypes == ServiceCredentialsSpec => []ServiceCredentialsTypeOK
<1>1. CredentialsInv => ServiceCredentialsTypeOK
  <2> SUFFICES ASSUME CredentialsInv PROVE ServiceCredentialsTypeOK
    OBVIOUS
  <2>1. CredentialsTyped
    BY DEF CredentialsInv
  <2>2. ASSUME NEW op \in Operations
        PROVE  Status(op) \in {"none", "pending", "recovering", "failed", "recovered", "completed"}
    <3>1. PICK log \in Seq(EventRecords) : log = events[op]
      BY <2>1 DEF CredentialsTyped
    <3>2. CASE log = <<>>
      BY <3>1, <3>2 DEF Status, LatestEvent, Event
    <3>3. CASE log # <<>>
      <4>1. log[Len(log)] \in EventRecords
        BY <3>3
      <4> QED BY <3>1, <3>3, <4>1 DEF Status, LatestEvent, EventRecords
    <3> QED BY <3>2, <3>3
  <2> QED BY <2>1, <2>2 DEF CredentialsTyped, ServiceCredentialsTypeOK
<1> QED BY <1>1, CredentialsInvHolds, PTL

-----------------------------------------------------------------------------
(***************************************************************************)
(* Theorems about PublicEInvoice for all submissions, senders and watchers.*)
(*                                                                         *)
(* That the provider takes a document once is not inductive by itself: the *)
(* reservation knows only the events.  The invariant says that a sender on *)
(* its way holds the last event of its key alone, that a watcher is behind *)
(* a key somebody has queued, and that a key whose document was taken may  *)
(* not be delivered, whatever of the outcome has reached the books.        *)
(***************************************************************************)

DeliveryEvents ==
  [type : {"delivery_reserved", "delivery_failed", "queued", "status_observed",
           "delivered"},
   status : Terminal \union {"none", "queued", "pre-acceptance-failed",
                             "delivery-uncertain"}]

SubmissionsTyped ==
  /\ submissions \in [Submissions -> {"none", "prepared", "acknowledged"}]
  /\ deliveryLog \in [Submissions -> Seq(DeliveryEvents)]
  /\ sending \in [Senders -> [key : Submissions \union {NoKey},
                              post : {"before", "refused", "taken", "unknown"}]]
  /\ watching \in [Watchers -> [key : Submissions \union {NoKey},
                                told : Terminal \union {"none", "queued"}]]
  /\ remote \in [Submissions -> Terminal \union {"none", "queued"}]
  /\ posts \in [Submissions -> Nat]

(* A sender has its key for itself; before its POST nobody has posted it.   *)
SendersHoldTheirKey ==
  \A p \in Senders, k \in Submissions : sending[p].key = k =>
    /\ LatestIs(k, "delivery_reserved") /\ ~Has(k, "queued")
    /\ submissions[k] # "none"
    /\ sending[p].post \in {"before", "refused"} => posts[k] = 0
    /\ \A q \in Senders : sending[q].key = k => q = p

WatchersFollowQueued ==
  \A w \in Watchers, k \in Submissions : watching[w].key = k =>
    /\ Has(k, "queued") /\ submissions[k] # "none"
    /\ watching[w].told = "delivered" => remote[k] = "delivered"

(* What was taken is not delivered again; what is not submitted has no log. *)
TakenIsBlocked ==
  \A k \in Submissions :
    /\ posts[k] # 0 => ~MayDeliver(k) /\ submissions[k] # "none"
    /\ submissions[k] = "none" => deliveryLog[k] = <<>>

DeliveryInv ==
  /\ SubmissionsTyped /\ SendersHoldTheirKey /\ WatchersFollowQueued
  /\ TakenIsBlocked /\ TakenOnce

-----------------------------------------------------------------------------

(* A log with one more event.                                               *)
LEMMA LongerLog ==
  ASSUME NEW log \in Seq(DeliveryEvents), NEW e \in DeliveryEvents
  PROVE  /\ Append(log, e) \in Seq(DeliveryEvents) /\ Append(log, e) # <<>>
         /\ Append(log, e)[Len(Append(log, e))] = e
         /\ {Append(log, e)[i] : i \in DOMAIN Append(log, e)}
              = {log[i] : i \in DOMAIN log} \union {e}
<1> DEFINE longer == Append(log, e)
<1>1. longer \in Seq(DeliveryEvents) /\ Len(longer) = Len(log) + 1 /\ Len(log) \in Nat
      /\ longer[Len(log) + 1] = e /\ DOMAIN longer = 1..(Len(log) + 1)
      /\ \A i \in 1..Len(log) : longer[i] = log[i]
      /\ DOMAIN log = 1..Len(log)
  OBVIOUS
<1>2. Len(<< >>) = 0
  OBVIOUS
<1> HIDE DEF longer
<1>3. longer # << >> /\ longer[Len(longer)] = e
  BY <1>1, <1>2
<1>4. {longer[i] : i \in DOMAIN longer} = {log[i] : i \in DOMAIN log} \union {e}
  <2>1. 1..(Len(log) + 1) = 1..Len(log) \union {Len(log) + 1}
    BY <1>1
  <2> QED BY <1>1, <2>1
<1> QED BY <1>1, <1>3, <1>4 DEF longer

(* How a log changes: e is its last event, and nothing is lost from it.     *)
LEMMA Recorded ==
  ASSUME SubmissionsTyped, NEW k \in Submissions, NEW e \in DeliveryEvents,
         RecordEvent(k, e.type, e.status)
  PROVE  /\ deliveryLog' \in [Submissions -> Seq(DeliveryEvents)]
         /\ deliveryLog'[k] # <<>> /\ deliveryLog'[k][Len(deliveryLog'[k])] = e
         /\ Events(k)' = Events(k) \union {e}
         /\ \A j \in Submissions \ {k} : deliveryLog'[j] = deliveryLog[j]
<1>1. e = [type |-> e.type, status |-> e.status]
  BY DEF DeliveryEvents
<1>2. deliveryLog' = [deliveryLog EXCEPT ![k] = Append(deliveryLog[k], e)]
  BY <1>1 DEF RecordEvent, SubmissionsTyped
<1>3. deliveryLog \in [Submissions -> Seq(DeliveryEvents)]
  BY DEF SubmissionsTyped
<1>4. deliveryLog[k] \in Seq(DeliveryEvents)
  BY <1>3
<1> DEFINE longer == Append(deliveryLog[k], e)
<1>5. /\ longer \in Seq(DeliveryEvents) /\ longer # <<>> /\ longer[Len(longer)] = e
      /\ {longer[i] : i \in DOMAIN longer}
           = {deliveryLog[k][i] : i \in DOMAIN deliveryLog[k]} \union {e}
  BY <1>4, LongerLog
<1>6. deliveryLog'[k] = longer
  BY <1>2, <1>3
<1> HIDE DEF longer
<1>7. Events(k)' = {longer[i] : i \in DOMAIN longer}
  BY <1>6 DEF Events
<1>8. Events(k)' = Events(k) \union {e}
  BY <1>5, <1>7 DEF Events
<1>9. deliveryLog' \in [Submissions -> Seq(DeliveryEvents)]
      /\ \A j \in Submissions \ {k} : deliveryLog'[j] = deliveryLog[j]
  BY <1>2, <1>3, <1>5 DEF longer
<1> QED BY <1>5, <1>6, <1>8, <1>9

(* What a log with one more event of k means for the others, and for k.     *)
LEMMA RecordedMeans ==
  ASSUME SubmissionsTyped, NEW k \in Submissions, NEW e \in DeliveryEvents,
         RecordEvent(k, e.type, e.status)
  PROVE  /\ deliveryLog' \in [Submissions -> Seq(DeliveryEvents)]
         /\ \A t : Has(k, t)' <=> Has(k, t) \/ e.type = t
         /\ \A t : LatestIs(k, t)' <=> e.type = t
         /\ deliveryLog'[k] # <<>> /\ deliveryLog'[k][Len(deliveryLog'[k])] = e
         /\ \A j \in Submissions \ {k} :
              /\ deliveryLog'[j] = deliveryLog[j]
              /\ \A t : (Has(j, t)' <=> Has(j, t)) /\ (LatestIs(j, t)' <=> LatestIs(j, t))
<1>1. /\ deliveryLog' \in [Submissions -> Seq(DeliveryEvents)]
      /\ deliveryLog'[k] # <<>> /\ deliveryLog'[k][Len(deliveryLog'[k])] = e
      /\ Events(k)' = Events(k) \union {e}
      /\ \A j \in Submissions \ {k} : deliveryLog'[j] = deliveryLog[j]
  BY Recorded
<1>2. ASSUME NEW t
      PROVE  /\ Has(k, t)' <=> Has(k, t) \/ e.type = t
             /\ LatestIs(k, t)' <=> e.type = t
  BY <1>1 DEF Has, LatestIs
<1>3. ASSUME NEW t, NEW j \in Submissions \ {k}
      PROVE  (Has(j, t)' <=> Has(j, t)) /\ (LatestIs(j, t)' <=> LatestIs(j, t))
  <2>1. Events(j)' = Events(j)
    BY <1>1 DEF Events
  <2> QED BY <1>1, <2>1 DEF Has, LatestIs
<1> QED BY <1>1, <1>2, <1>3

-----------------------------------------------------------------------------
(* The steps of a sender.                                                   *)

LEMMA SubmitKeepsInv ==
  ASSUME DeliveryInv, NEW k \in Submissions, NEW acknowledged \in BOOLEAN,
         Submit(k, acknowledged)
  PROVE  DeliveryInv'
<1>1. /\ SubmissionsTyped /\ submissions[k] = "none" /\ deliveryLog[k] = <<>>
      /\ UNCHANGED <<sending, watching, remote, posts>>
  BY DEF DeliveryInv, Submit, TakenIsBlocked
<1>2. /\ submissions'[k] = (IF acknowledged THEN "acknowledged" ELSE "prepared")
      /\ \A j \in Submissions \ {k} : submissions'[j] = submissions[j]
      /\ submissions' \in [Submissions -> {"none", "prepared", "acknowledged"}]
  BY <1>1 DEF Submit, SubmissionsTyped
<1>3. posts[k] = 0 /\ \A t : ~Has(k, t)
  BY <1>1 DEF DeliveryInv, TakenIsBlocked, Has, Events
<1>4. /\ deliveryLog' \in [Submissions -> Seq(DeliveryEvents)]
      /\ ~acknowledged => UNCHANGED deliveryLog
      /\ \A j \in Submissions \ {k} :
           /\ deliveryLog'[j] = deliveryLog[j]
           /\ \A t : (Has(j, t)' <=> Has(j, t)) /\ (LatestIs(j, t)' <=> LatestIs(j, t))
  <2>1. CASE acknowledged
    <3> DEFINE e == [type |-> "delivered", status |-> "delivered"]
    <3>1. e \in DeliveryEvents /\ RecordEvent(k, e.type, e.status)
      BY <2>1 DEF DeliveryEvents, Terminal, Submit
    <3> QED BY <1>1, <2>1, <3>1, RecordedMeans
  <2>2. CASE ~acknowledged
    BY <1>1, <2>2 DEF Submit, SubmissionsTyped, Has, LatestIs, Events
  <2> QED BY <2>1, <2>2
<1>5. SubmissionsTyped'
  BY <1>1, <1>2, <1>4 DEF SubmissionsTyped
<1>6. SendersHoldTheirKey'
  <2> SUFFICES ASSUME NEW q \in Senders, NEW j \in Submissions, sending[q].key = j
               PROVE  /\ LatestIs(j, "delivery_reserved")' /\ ~Has(j, "queued")'
                      /\ submissions'[j] # "none"
                      /\ sending[q].post \in {"before", "refused"} => posts[j] = 0
                      /\ \A o \in Senders : sending[o].key = j => o = q
    BY <1>1 DEF SendersHoldTheirKey
  <2>1. LatestIs(j, "delivery_reserved") /\ ~Has(j, "queued")
        /\ submissions[j] # "none"
        /\ (sending[q].post \in {"before", "refused"} => posts[j] = 0)
        /\ \A o \in Senders : sending[o].key = j => o = q
    BY DEF DeliveryInv, SendersHoldTheirKey
  <2>2. j # k
    BY <1>1, <2>1
  <2>3. LatestIs(j, "delivery_reserved")' /\ ~Has(j, "queued")'
    BY <1>4, <2>1, <2>2
  <2> QED BY <1>2, <2>1, <2>2, <2>3
<1>7. WatchersFollowQueued'
  BY <1>1, <1>2, <1>4 DEF DeliveryInv, WatchersFollowQueued, SubmissionsTyped
<1>8. TakenIsBlocked'
  BY <1>1, <1>2, <1>3, <1>4 DEF DeliveryInv, TakenIsBlocked, MayDeliver, Acknowledged
<1>9. TakenOnce'
  <2>1. submissions'[k] = "prepared" => ~Acknowledged(k)'
    BY <1>1, <1>2, <1>3, <1>4 DEF Acknowledged, Has, Events
  <2> QED BY <1>1, <1>2, <1>3, <1>4, <2>1 DEF DeliveryInv, TakenOnce, Acknowledged
<1> QED BY <1>5, <1>6, <1>7, <1>8, <1>9 DEF DeliveryInv

LEMMA ReserveKeepsInv ==
  ASSUME DeliveryInv, NEW p \in Senders, NEW k \in Submissions, ReserveAttempt(p, k)
  PROVE  DeliveryInv'
<1> DEFINE e == [type |-> "delivery_reserved", status |-> "none"]
<1>1. /\ SubmissionsTyped /\ MayDeliver(k) /\ ~Sending(p)
      /\ UNCHANGED <<watching, remote, posts>>
  BY DEF DeliveryInv, ReserveAttempt
<1>2. /\ submissions'[k] = (IF submissions[k] = "none" THEN "prepared" ELSE submissions[k])
      /\ \A j \in Submissions \ {k} : submissions'[j] = submissions[j]
      /\ submissions' \in [Submissions -> {"none", "prepared", "acknowledged"}]
  BY <1>1 DEF ReserveAttempt, SubmissionsTyped
<1>3. e \in DeliveryEvents /\ RecordEvent(k, e.type, e.status)
  BY DEF DeliveryEvents, ReserveAttempt
<1>4. /\ deliveryLog' \in [Submissions -> Seq(DeliveryEvents)]
      /\ \A t : Has(k, t)' <=> Has(k, t) \/ e.type = t
      /\ \A t : LatestIs(k, t)' <=> e.type = t
      /\ \A j \in Submissions \ {k} :
           /\ deliveryLog'[j] = deliveryLog[j]
           /\ \A t : (Has(j, t)' <=> Has(j, t)) /\ (LatestIs(j, t)' <=> LatestIs(j, t))
  BY <1>1, <1>3, RecordedMeans
<1>5. /\ sending'[p] = [key |-> k, post |-> "before"]
      /\ \A q \in Senders \ {p} : sending'[q] = sending[q]
      /\ sending' \in [Senders -> [key : Submissions \union {NoKey},
                                   post : {"before", "refused", "taken", "unknown"}]]
  BY <1>1 DEF ReserveAttempt, SubmissionsTyped
<1>6. /\ posts[k] = 0 /\ ~Has(k, "queued") /\ ~Has(k, "delivered")
      /\ ~LatestIs(k, "delivery_reserved") /\ submissions[k] # "acknowledged"
  BY <1>1 DEF DeliveryInv, TakenIsBlocked, MayDeliver, Acknowledged
<1> HIDE DEF e
<1>7. e.type = "delivery_reserved"
  BY DEF e
<1>8. SubmissionsTyped'
  BY <1>1, <1>2, <1>4, <1>5 DEF SubmissionsTyped
<1>9. SendersHoldTheirKey'
  <2>1. \A q \in Senders : sending[q].key # k
    BY <1>6 DEF DeliveryInv, SendersHoldTheirKey
  <2> SUFFICES ASSUME NEW q \in Senders, NEW j \in Submissions, sending'[q].key = j
               PROVE  /\ LatestIs(j, "delivery_reserved")' /\ ~Has(j, "queued")'
                      /\ submissions'[j] # "none"
                      /\ sending'[q].post \in {"before", "refused"} => posts'[j] = 0
                      /\ \A o \in Senders : sending'[o].key = j => o = q
    BY DEF SendersHoldTheirKey
  <2>2. CASE q = p
    <3>1. j = k
      BY <1>5, <2>2
    <3> QED BY <1>1, <1>2, <1>4, <1>5, <1>6, <1>7, <2>1, <2>2, <3>1
            DEF SubmissionsTyped
  <2>3. CASE q # p
    <3>1. sending[q] = sending'[q] /\ j # k
      BY <1>5, <2>1, <2>3
    <3>2. LatestIs(j, "delivery_reserved") /\ ~Has(j, "queued")
          /\ submissions[j] # "none"
          /\ (sending[q].post \in {"before", "refused"} => posts[j] = 0)
          /\ \A o \in Senders : sending[o].key = j => o = q
      BY <3>1 DEF DeliveryInv, SendersHoldTheirKey
    <3>3. LatestIs(j, "delivery_reserved")' /\ ~Has(j, "queued")'
      BY <1>4, <3>1, <3>2
    <3>4. \A o \in Senders : sending'[o].key = j => o = q
      BY <1>5, <3>1, <3>2
    <3> QED BY <1>1, <1>2, <3>1, <3>2, <3>3, <3>4
  <2> QED BY <2>2, <2>3
<1>10. WatchersFollowQueued'
  BY <1>1, <1>2, <1>4, <1>6 DEF DeliveryInv, WatchersFollowQueued, SubmissionsTyped
<1>11. TakenIsBlocked'
  BY <1>1, <1>2, <1>4, <1>6 DEF DeliveryInv, TakenIsBlocked, MayDeliver, Acknowledged
<1>12. TakenOnce'
  BY <1>1, <1>2, <1>4, <1>6, <1>7 DEF DeliveryInv, TakenOnce, Acknowledged
<1> QED BY <1>8, <1>9, <1>10, <1>11, <1>12 DEF DeliveryInv

(* Steps that write nothing to the books.                                   *)
LEMMA BooksUnchanged ==
  ASSUME UNCHANGED <<submissions, deliveryLog>>
  PROVE  \A k : /\ \A t : (Has(k, t)' <=> Has(k, t)) /\ (LatestIs(k, t)' <=> LatestIs(k, t))
                /\ (MayDeliver(k)' <=> MayDeliver(k))
                /\ (Acknowledged(k)' <=> Acknowledged(k))
BY DEF Has, LatestIs, Events, MayDeliver, Acknowledged

(* A sender comes to a new place with its key, or leaves it.                *)
LEMMA SenderMoves ==
  ASSUME DeliveryInv, NEW p \in Senders,
         NEW post \in {"before", "refused", "taken", "unknown"},
         UNCHANGED <<submissions, deliveryLog, watching, remote, posts>>,
         \/ /\ sending' = [sending EXCEPT ![p].post = post]
            /\ sending[p].post = "before"
         \/ sending' = [sending EXCEPT ![p] = [key |-> NoKey, post |-> "before"]]
  PROVE  DeliveryInv'
<1>1. SubmissionsTyped
  BY DEF DeliveryInv
<1>2. /\ sending' \in [Senders -> [key : Submissions \union {NoKey},
                                   post : {"before", "refused", "taken", "unknown"}]]
      /\ \A q \in Senders \ {p} : sending'[q] = sending[q]
      /\ \/ sending'[p].key = NoKey
         \/ sending'[p].key = sending[p].key /\ sending[p].post = "before"
  <2>1. CASE sending' = [sending EXCEPT ![p] = [key |-> NoKey, post |-> "before"]]
    BY <1>1, <2>1 DEF SubmissionsTyped
  <2>2. CASE sending' = [sending EXCEPT ![p].post = post] /\ sending[p].post = "before"
    BY <1>1, <2>2 DEF SubmissionsTyped
  <2> QED BY <2>1, <2>2
<1>3. SubmissionsTyped'
  BY <1>1, <1>2 DEF SubmissionsTyped
<1>4. SendersHoldTheirKey'
  <2> SUFFICES ASSUME NEW q \in Senders, NEW j \in Submissions, sending'[q].key = j
               PROVE  /\ LatestIs(j, "delivery_reserved")' /\ ~Has(j, "queued")'
                      /\ submissions'[j] # "none"
                      /\ sending'[q].post \in {"before", "refused"} => posts'[j] = 0
                      /\ \A o \in Senders : sending'[o].key = j => o = q
    BY DEF SendersHoldTheirKey
  <2>1. sending[q].key = j /\ (sending'[q] = sending[q] \/ sending[q].post = "before")
    BY <1>2, PublicEInvoiceAssumption
  <2>2. LatestIs(j, "delivery_reserved") /\ ~Has(j, "queued")
        /\ submissions[j] # "none"
        /\ (sending[q].post \in {"before", "refused"} => posts[j] = 0)
        /\ \A o \in Senders : sending[o].key = j => o = q
    BY <2>1 DEF DeliveryInv, SendersHoldTheirKey
  <2>3. \A o \in Senders : sending'[o].key = j => sending[o].key = j
    BY <1>2, PublicEInvoiceAssumption
  <2> QED BY <2>1, <2>2, <2>3, BooksUnchanged
<1>5. WatchersFollowQueued' /\ TakenIsBlocked' /\ TakenOnce'
  BY BooksUnchanged DEF DeliveryInv, WatchersFollowQueued, TakenIsBlocked, TakenOnce
<1> QED BY <1>3, <1>4, <1>5 DEF DeliveryInv

LEMMA PostKeepsInv ==
  ASSUME DeliveryInv, NEW p \in Senders, NEW took \in BOOLEAN, NEW told \in BOOLEAN,
         Post(p, took, told)
  PROVE  DeliveryInv'
<1>1. PICK k \in Submissions : k = sending[p].key
  BY DEF DeliveryInv, SubmissionsTyped, Post, Sending
<1>2. /\ SubmissionsTyped /\ sending[p].post = "before"
      /\ sending' = [sending EXCEPT ![p].post = IF told THEN "taken" ELSE "unknown"]
      /\ posts' = [posts EXCEPT ![k] = IF took THEN @ + 1 ELSE @]
      /\ remote' = [remote EXCEPT ![k] = IF took /\ @ = "none" THEN "queued" ELSE @]
      /\ UNCHANGED <<submissions, deliveryLog, watching>>
  BY <1>1 DEF DeliveryInv, Post
<1>3. /\ posts[k] = 0 /\ LatestIs(k, "delivery_reserved") /\ ~Has(k, "queued")
      /\ submissions[k] # "none"
      /\ \A q \in Senders : sending[q].key = k => q = p
  BY <1>1, <1>2 DEF DeliveryInv, SendersHoldTheirKey
<1>4. /\ sending' \in [Senders -> [key : Submissions \union {NoKey},
                                   post : {"before", "refused", "taken", "unknown"}]]
      /\ sending'[p].key = k /\ sending'[p].post \in {"taken", "unknown"}
      /\ \A q \in Senders \ {p} : sending'[q] = sending[q]
  BY <1>1, <1>2 DEF SubmissionsTyped
<1>5. /\ posts' \in [Submissions -> Nat] /\ posts'[k] \in {0, 1}
      /\ \A j \in Submissions \ {k} : posts'[j] = posts[j]
  BY <1>2, <1>3 DEF SubmissionsTyped
<1>6. /\ remote' \in [Submissions -> Terminal \union {"none", "queued"}]
      /\ \A j \in Submissions : remote[j] = "delivered" => remote'[j] = "delivered"
  BY <1>2 DEF SubmissionsTyped
<1>7. SubmissionsTyped'
  BY <1>2, <1>4, <1>5, <1>6 DEF SubmissionsTyped
<1>8. SendersHoldTheirKey'
  <2> SUFFICES ASSUME NEW q \in Senders, NEW j \in Submissions, sending'[q].key = j
               PROVE  /\ LatestIs(j, "delivery_reserved")' /\ ~Has(j, "queued")'
                      /\ submissions'[j] # "none"
                      /\ sending'[q].post \in {"before", "refused"} => posts'[j] = 0
                      /\ \A o \in Senders : sending'[o].key = j => o = q
    BY DEF SendersHoldTheirKey
  <2>1. sending[q].key = j /\ \A o \in Senders : sending'[o].key = sending[o].key
    BY <1>1, <1>4
  <2>2. LatestIs(j, "delivery_reserved") /\ ~Has(j, "queued")
        /\ submissions[j] # "none"
        /\ (sending[q].post \in {"before", "refused"} => posts[j] = 0)
        /\ \A o \in Senders : sending[o].key = j => o = q
    BY <2>1 DEF DeliveryInv, SendersHoldTheirKey
  <2>3. sending'[q].post \in {"before", "refused"} => posts'[j] = 0
    BY <1>1, <1>4, <1>5, <2>1, <2>2
  <2> QED BY <1>2, <2>1, <2>2, <2>3, BooksUnchanged
<1>9. WatchersFollowQueued'
  BY <1>2, <1>6, BooksUnchanged DEF DeliveryInv, WatchersFollowQueued
<1>10. TakenIsBlocked'
  <2>1. ~MayDeliver(k)
    BY <1>3 DEF MayDeliver
  <2> QED BY <1>2, <1>3, <1>5, <2>1, BooksUnchanged DEF DeliveryInv, TakenIsBlocked
<1>11. TakenOnce'
  BY <1>2, <1>5, <1>6, BooksUnchanged DEF DeliveryInv, TakenOnce
<1> QED BY <1>7, <1>8, <1>9, <1>10, <1>11 DEF DeliveryInv

LEMMA OutcomeKeepsInv ==
  ASSUME DeliveryInv, NEW p \in Senders, RecordOutcome(p)
  PROVE  DeliveryInv'
<1>1. PICK k \in Submissions : k = sending[p].key
  BY DEF DeliveryInv, SubmissionsTyped, RecordOutcome, Sending
<1>2. PICK e \in DeliveryEvents : e = OutcomeEvent(p)
  BY <1>1 DEF DeliveryInv, SubmissionsTyped, RecordOutcome, OutcomeEvent, DeliveryEvents,
              Terminal
<1>3. /\ SubmissionsTyped /\ sending[p].post \in {"refused", "taken", "unknown"}
      /\ RecordEvent(k, e.type, e.status)
      /\ sending' = [sending EXCEPT ![p] = [key |-> NoKey, post |-> "before"]]
      /\ UNCHANGED <<submissions, watching, remote, posts>>
  BY <1>1, <1>2 DEF DeliveryInv, RecordOutcome, SubmissionsTyped
<1>4. /\ deliveryLog' \in [Submissions -> Seq(DeliveryEvents)]
      /\ \A t : Has(k, t)' <=> Has(k, t) \/ e.type = t
      /\ \A t : LatestIs(k, t)' <=> e.type = t
      /\ deliveryLog'[k] # <<>> /\ deliveryLog'[k][Len(deliveryLog'[k])] = e
      /\ \A j \in Submissions \ {k} :
           /\ deliveryLog'[j] = deliveryLog[j]
           /\ \A t : (Has(j, t)' <=> Has(j, t)) /\ (LatestIs(j, t)' <=> LatestIs(j, t))
  BY <1>3, RecordedMeans
<1>5. /\ sending[p].post \in {"before", "refused"} => posts[k] = 0
      /\ submissions[k] # "none" /\ ~Has(k, "queued")
      /\ \A q \in Senders : sending[q].key = k => q = p
  BY <1>1 DEF DeliveryInv, SendersHoldTheirKey
<1>6. /\ sending' \in [Senders -> [key : Submissions \union {NoKey},
                                   post : {"before", "refused", "taken", "unknown"}]]
      /\ sending'[p].key = NoKey
      /\ \A q \in Senders \ {p} : sending'[q] = sending[q]
  BY <1>3 DEF SubmissionsTyped
<1>7. /\ e.type = "delivered" => remote[k] = "delivered"
      /\ \/ e.type \in {"delivered", "queued"}
         \/ e.type = "delivery_failed" /\ e.status = "delivery-uncertain"
         \/ posts[k] = 0 /\ e.type = "delivery_failed"
  BY <1>1, <1>2, <1>3, <1>5 DEF OutcomeEvent
<1>8. SubmissionsTyped'
  BY <1>3, <1>4, <1>6 DEF SubmissionsTyped
<1>9. SendersHoldTheirKey'
  <2> SUFFICES ASSUME NEW q \in Senders, NEW j \in Submissions, sending'[q].key = j
               PROVE  /\ LatestIs(j, "delivery_reserved")' /\ ~Has(j, "queued")'
                      /\ submissions'[j] # "none"
                      /\ sending'[q].post \in {"before", "refused"} => posts'[j] = 0
                      /\ \A o \in Senders : sending'[o].key = j => o = q
    BY DEF SendersHoldTheirKey
  <2>1. q # p /\ sending'[q] = sending[q] /\ j # k
    BY <1>5, <1>6, PublicEInvoiceAssumption
  <2>2. LatestIs(j, "delivery_reserved") /\ ~Has(j, "queued")
        /\ submissions[j] # "none"
        /\ (sending[q].post \in {"before", "refused"} => posts[j] = 0)
        /\ \A o \in Senders : sending[o].key = j => o = q
    BY <2>1 DEF DeliveryInv, SendersHoldTheirKey
  <2>3. \A o \in Senders : sending'[o].key = j => sending[o].key = j
    BY <1>6, PublicEInvoiceAssumption
  <2>4. LatestIs(j, "delivery_reserved")' /\ ~Has(j, "queued")'
    BY <1>4, <2>1, <2>2
  <2> QED BY <1>3, <2>1, <2>2, <2>3, <2>4
<1>10. WatchersFollowQueued'
  BY <1>3, <1>4 DEF DeliveryInv, WatchersFollowQueued
<1>11. TakenIsBlocked'
  <2>1. posts[k] # 0 => ~MayDeliver(k)'
    BY <1>4, <1>7 DEF MayDeliver, Acknowledged
  <2>2. \A j \in Submissions \ {k} : MayDeliver(j)' <=> MayDeliver(j)
    BY <1>3, <1>4 DEF MayDeliver, Acknowledged
  <2> QED BY <1>3, <1>4, <1>5, <2>1, <2>2 DEF DeliveryInv, TakenIsBlocked
<1>12. TakenOnce'
  BY <1>3, <1>4, <1>7 DEF DeliveryInv, TakenOnce, Acknowledged
<1> QED BY <1>8, <1>9, <1>10, <1>11, <1>12 DEF DeliveryInv

-----------------------------------------------------------------------------
(* The provider and the watchers.                                           *)

LEMMA ProceedKeepsInv ==
  ASSUME DeliveryInv, NEW k \in Submissions, NEW status \in Terminal, Proceed(k, status)
  PROVE  DeliveryInv'
<1>1. /\ remote' \in [Submissions -> Terminal \union {"none", "queued"}]
      /\ \A j \in Submissions : remote[j] = "delivered" => remote'[j] = "delivered"
      /\ UNCHANGED <<submissions, deliveryLog, sending, watching, posts>>
  BY DEF DeliveryInv, SubmissionsTyped, Proceed
<1> QED BY <1>1, BooksUnchanged DEF DeliveryInv, SubmissionsTyped, SendersHoldTheirKey,
           WatchersFollowQueued, TakenIsBlocked, TakenOnce

LEMMA WatcherMoves ==
  ASSUME DeliveryInv, NEW w \in Watchers,
         UNCHANGED <<submissions, deliveryLog, sending, remote, posts>>,
         \/ watching' = [watching EXCEPT ![w] = [key |-> NoKey, told |-> "none"]]
         \/ \E k \in Submissions : AskStatus(w, k)
  PROVE  DeliveryInv'
<1>1. SubmissionsTyped' /\ WatchersFollowQueued'
  <2>1. CASE watching' = [watching EXCEPT ![w] = [key |-> NoKey, told |-> "none"]]
    BY <2>1, BooksUnchanged, PublicEInvoiceAssumption
       DEF DeliveryInv, SubmissionsTyped, WatchersFollowQueued
  <2>2. ASSUME NEW k \in Submissions, AskStatus(w, k)
        PROVE  SubmissionsTyped' /\ WatchersFollowQueued'
    <3>1. /\ watching' = [watching EXCEPT ![w] = [key |-> k, told |-> remote[k]]]
          /\ Has(k, "queued") /\ submissions[k] # "none"
      BY <2>2 DEF AskStatus
    <3> QED BY <3>1, BooksUnchanged, PublicEInvoiceAssumption
            DEF DeliveryInv, SubmissionsTyped, WatchersFollowQueued
  <2> QED BY <2>1, <2>2
<1> QED BY <1>1, BooksUnchanged DEF DeliveryInv, SendersHoldTheirKey, TakenIsBlocked,
           TakenOnce

LEMMA RecordStatusKeepsInv ==
  ASSUME DeliveryInv, NEW w \in Watchers, NEW cut \in BOOLEAN, RecordStatus(w, cut)
  PROVE  DeliveryInv'
<1> DEFINE observed == [type |-> "status_observed", status |-> watching[w].told]
           done == [type |-> "delivered", status |-> "delivered"]
           both == watching[w].told = "delivered" /\ ~cut
<1>1. PICK k \in Submissions : k = watching[w].key
  BY DEF DeliveryInv, SubmissionsTyped, RecordStatus
<1>2. /\ SubmissionsTyped
      /\ deliveryLog' = [deliveryLog EXCEPT ![k] =
           IF both THEN @ \o <<observed, done>> ELSE Append(@, observed)]
      /\ watching' = [watching EXCEPT ![w] = [key |-> NoKey, told |-> "none"]]
      /\ UNCHANGED <<submissions, sending, remote, posts>>
  BY <1>1 DEF DeliveryInv, RecordStatus
<1>3. Has(k, "queued") /\ submissions[k] # "none" /\ (both => remote[k] = "delivered")
  BY <1>1 DEF DeliveryInv, WatchersFollowQueued
<1>4. observed \in DeliveryEvents /\ done \in DeliveryEvents
      /\ observed.type = "status_observed" /\ done.type = "delivered"
  BY <1>2 DEF SubmissionsTyped, DeliveryEvents, Terminal
<1> HIDE DEF observed, done, both
<1> DEFINE log == deliveryLog[k]
           once == Append(log, observed)
           twice == Append(once, done)
<1>5. log \in Seq(DeliveryEvents)
  BY <1>2 DEF SubmissionsTyped
<1>6. /\ once \in Seq(DeliveryEvents)
      /\ {once[i] : i \in DOMAIN once} = {log[i] : i \in DOMAIN log} \union {observed}
  BY <1>4, <1>5, LongerLog
<1>7. log \o <<observed, done>> = twice
  BY <1>4, <1>5
<1> HIDE DEF once
<1>8. /\ twice \in Seq(DeliveryEvents)
      /\ {twice[i] : i \in DOMAIN twice} = {once[i] : i \in DOMAIN once} \union {done}
  BY <1>4, <1>6, LongerLog
<1> HIDE DEF twice
<1>9. /\ deliveryLog'[k] = IF both THEN twice ELSE once
      /\ \A j \in Submissions \ {k} : deliveryLog'[j] = deliveryLog[j]
      /\ deliveryLog' \in [Submissions -> Seq(DeliveryEvents)]
  <2> DEFINE next == IF both THEN twice ELSE once
  <2>1. deliveryLog' = [deliveryLog EXCEPT ![k] = next]
    <3>1. CASE both
      BY <1>2, <1>7, <3>1
    <3>2. CASE ~both
      BY <1>2, <3>2 DEF once
    <3> QED BY <3>1, <3>2
  <2>2. next \in Seq(DeliveryEvents)
    BY <1>6, <1>8
  <2> HIDE DEF next
  <2>3. deliveryLog' \in [Submissions -> Seq(DeliveryEvents)] /\ deliveryLog'[k] = next
        /\ \A j \in Submissions \ {k} : deliveryLog'[j] = deliveryLog[j]
    <3>1. deliveryLog \in [Submissions -> Seq(DeliveryEvents)]
      BY <1>2 DEF SubmissionsTyped
    <3> QED BY <2>1, <2>2, <3>1
  <2> QED BY <2>3 DEF next
<1>10. Events(k)' = Events(k) \union (IF both THEN {observed, done} ELSE {observed})
  <2>1. CASE both
    <3>1. Events(k)' = {twice[i] : i \in DOMAIN twice}
      BY <1>9, <2>1 DEF Events
    <3> QED BY <1>6, <1>8, <2>1, <3>1 DEF Events
  <2>2. CASE ~both
    <3>1. Events(k)' = {once[i] : i \in DOMAIN once}
      BY <1>9, <2>2 DEF Events
    <3> QED BY <1>6, <2>2, <3>1 DEF Events
  <2> QED BY <2>1, <2>2
<1> HIDE DEF log
<1>11. Has(k, "queued")' /\ (Has(k, "delivered")' => Has(k, "delivered") \/ both)
  BY <1>3, <1>4, <1>10 DEF Has
<1>12. ASSUME NEW j \in Submissions \ {k}
       PROVE  /\ \A t : (Has(j, t)' <=> Has(j, t)) /\ (LatestIs(j, t)' <=> LatestIs(j, t))
              /\ MayDeliver(j)' <=> MayDeliver(j)
  <2>1. deliveryLog'[j] = deliveryLog[j] /\ Events(j)' = Events(j)
    BY <1>9 DEF Events
  <2> QED BY <1>2, <2>1 DEF Has, LatestIs, MayDeliver, Acknowledged
<1>13. SubmissionsTyped'
  BY <1>2, <1>9 DEF SubmissionsTyped
<1>14. SendersHoldTheirKey'
  <2> SUFFICES ASSUME NEW q \in Senders, NEW j \in Submissions, sending[q].key = j
               PROVE  /\ LatestIs(j, "delivery_reserved")' /\ ~Has(j, "queued")'
                      /\ submissions[j] # "none"
                      /\ sending[q].post \in {"before", "refused"} => posts[j] = 0
                      /\ \A o \in Senders : sending[o].key = j => o = q
    BY <1>2 DEF SendersHoldTheirKey
  <2>1. LatestIs(j, "delivery_reserved") /\ ~Has(j, "queued")
        /\ submissions[j] # "none"
        /\ (sending[q].post \in {"before", "refused"} => posts[j] = 0)
        /\ \A o \in Senders : sending[o].key = j => o = q
    BY DEF DeliveryInv, SendersHoldTheirKey
  <2>2. LatestIs(j, "delivery_reserved")' /\ ~Has(j, "queued")'
    BY <1>3, <1>12, <2>1
  <2> QED BY <2>1, <2>2
<1>15. WatchersFollowQueued'
  <2> SUFFICES ASSUME NEW v \in Watchers, NEW j \in Submissions, watching'[v].key = j
               PROVE  /\ Has(j, "queued")' /\ submissions[j] # "none"
                      /\ watching'[v].told = "delivered" => remote[j] = "delivered"
    BY <1>2 DEF WatchersFollowQueued
  <2>1. watching'[v] = watching[v]
    BY <1>2, PublicEInvoiceAssumption DEF SubmissionsTyped
  <2>2. /\ Has(j, "queued") /\ submissions[j] # "none"
        /\ watching[v].told = "delivered" => remote[j] = "delivered"
    BY <2>1 DEF DeliveryInv, WatchersFollowQueued
  <2>3. Has(j, "queued")'
    BY <1>11, <1>12, <2>2
  <2> QED BY <2>1, <2>2, <2>3
<1>16. TakenIsBlocked'
  <2>1. ~MayDeliver(k)'
    BY <1>11 DEF MayDeliver
  <2> QED BY <1>2, <1>3, <1>9, <1>12, <2>1 DEF DeliveryInv, TakenIsBlocked
<1>17. TakenOnce'
  BY <1>2, <1>3, <1>11, <1>12 DEF DeliveryInv, TakenOnce, Acknowledged
<1> QED BY <1>13, <1>14, <1>15, <1>16, <1>17 DEF DeliveryInv

-----------------------------------------------------------------------------

LEMMA DeliveryInvHolds == PublicEInvoiceSpec => []DeliveryInv
<1>1. PublicEInvoiceInit => DeliveryInv
  BY PublicEInvoiceAssumption
     DEF PublicEInvoiceInit, DeliveryInv, SubmissionsTyped, SendersHoldTheirKey,
         WatchersFollowQueued, TakenIsBlocked, TakenOnce, Terminal
<1>2. DeliveryInv /\ [PublicEInvoiceNext]_publicEInvoiceVars => DeliveryInv'
  <2> SUFFICES ASSUME DeliveryInv, [PublicEInvoiceNext]_publicEInvoiceVars
               PROVE  DeliveryInv'
    OBVIOUS
  <2>1. ASSUME NEW k \in Submissions, NEW acknowledged \in BOOLEAN, Submit(k, acknowledged)
        PROVE  DeliveryInv'
    BY <2>1, SubmitKeepsInv
  <2>2. ASSUME NEW p \in Senders, NEW k \in Submissions, ReserveAttempt(p, k)
        PROVE  DeliveryInv'
    BY <2>2, ReserveKeepsInv
  <2>3. ASSUME NEW p \in Senders, FailBeforePost(p) \/ CrashSending(p)
        PROVE  DeliveryInv'
    BY <2>3, SenderMoves DEF FailBeforePost, CrashSending
  <2>4. ASSUME NEW p \in Senders, RecordOutcome(p)
        PROVE  DeliveryInv'
    BY <2>4, OutcomeKeepsInv
  <2>5. ASSUME NEW p \in Senders, NEW took \in BOOLEAN, NEW told \in BOOLEAN,
               Post(p, took, told)
        PROVE  DeliveryInv'
    BY <2>5, PostKeepsInv
  <2>6. ASSUME NEW k \in Submissions, NEW status \in Terminal, Proceed(k, status)
        PROVE  DeliveryInv'
    BY <2>6, ProceedKeepsInv
  <2>7. ASSUME NEW w \in Watchers, LoseStatus(w) \/ \E k \in Submissions : AskStatus(w, k)
        PROVE  DeliveryInv'
    BY <2>7, WatcherMoves DEF LoseStatus, AskStatus
  <2>8. ASSUME NEW w \in Watchers, NEW cut \in BOOLEAN, RecordStatus(w, cut)
        PROVE  DeliveryInv'
    BY <2>8, RecordStatusKeepsInv
  <2>9. CASE UNCHANGED publicEInvoiceVars
    BY <2>9, BooksUnchanged
       DEF publicEInvoiceVars, DeliveryInv, SubmissionsTyped, SendersHoldTheirKey,
           WatchersFollowQueued, TakenIsBlocked, TakenOnce
  <2> QED BY <2>1, <2>2, <2>3, <2>4, <2>5, <2>6, <2>7, <2>8, <2>9 DEF PublicEInvoiceNext
<1> QED BY <1>1, <1>2, PTL DEF PublicEInvoiceSpec

(* The rows, the events, the calls and the provider's documents have their  *)
(* types, and a call on its way holds the last event of its key.            *)
THEOREM PublicEInvoiceTypes == PublicEInvoiceSpec => []PublicEInvoiceTypeOK
<1>1. DeliveryInv => PublicEInvoiceTypeOK
  <2> SUFFICES ASSUME DeliveryInv PROVE PublicEInvoiceTypeOK
    OBVIOUS
  <2>1. \A k \in Submissions : Events(k) \subseteq DeliveryEvents
    BY DEF DeliveryInv, SubmissionsTyped, Events
  <2>2. \A p \in Senders : Sending(p) => LatestIs(sending[p].key, "delivery_reserved")
    BY DEF DeliveryInv, SubmissionsTyped, SendersHoldTheirKey, Sending
  <2> QED BY <2>1, <2>2 DEF DeliveryInv, SubmissionsTyped, PublicEInvoiceTypeOK,
                            DeliveryEvents
<1> QED BY <1>1, DeliveryInvHolds, PTL

(* The provider takes a document once and what the books call delivered on  *)
(* its word is delivered, for any number of submissions, calls and events.  *)
THEOREM DocumentsAreTakenOnce == PublicEInvoiceSpec => []TakenOnce
<1>1. DeliveryInv => TakenOnce
  BY DEF DeliveryInv
<1> QED BY <1>1, DeliveryInvHolds, PTL

-----------------------------------------------------------------------------
(***************************************************************************)
(* Theorems about Consolidation for all mappings, eliminations, reviewers  *)
(* and ledgers of any length.                                              *)
(*                                                                         *)
(* A reading of a ledger is a set of rows or depends on one, and the rows  *)
(* only grow: two equal counts have the same rows between them.  What was  *)
(* proposed was read before some moment, and what an approval derives was  *)
(* read after it, so if both are equal each ledger stood still around that *)
(* moment, and the readings are all true then.                             *)
(***************************************************************************)

(* The readings were taken one after the other between two moments.         *)
ReadBetween(read, low, high) ==
  \E ts \in [1 .. 6 -> low .. high] :
    /\ \A k \in 1 .. Len(read) : read[k] = Reading(k, ts[k])
    /\ \A j, k \in 1 .. Len(read) : j <= k => ts[j] <= ts[k]

TrueAt(read, t) == \A k \in 1 .. 6 : read[k] = Reading(k, t)

Readings == Nat \union SUBSET Nat

Payloads == [mapping : Mappings, read : Seq(Readings)]

EliminationEvents ==
  [id : Eliminations, actor : Reviewers, payload : Payloads,
   type : {"proposed", "approved", "rejected", "applied", "reversed"}]

ConsolidationTyped ==
  /\ books \in Seq(Rows) /\ Len(books) <= MaxRows
  /\ mappings \in [Mappings -> [status : {"none", "proposed", "approved", "revoked"},
                                actor : Reviewers \union {NotDeriving}]]
  /\ eliminationLog \in Seq(EliminationEvents)
  /\ Len(eliminationLog) <= MaxEliminationEvents

EventsWereRead ==
  \A i \in DOMAIN eliminationLog :
    LET read == eliminationLog[i].payload.read IN
    Len(read) = 6 /\ ReadBetween(read, 0, Len(books))

DerivingTyped ==
  deriving # NotDeriving =>
    /\ deriving \in [type : {"proposed", "approved", "applied"},
                     id : Eliminations, mapping : Mappings, actor : Reviewers,
                     read : Seq(Readings)]
    /\ Len(deriving.read) \in 1 .. 6
    /\ Len(eliminationLog) < MaxEliminationEvents

(* What is derived again is read after what was proposed.                   *)
DerivedLater ==
  deriving # NotDeriving =>
    \E moment \in 0 .. Len(books) :
      /\ ReadBetween(deriving.read, moment, Len(books))
      /\ deriving.type # "proposed" =>
           /\ LatestOf(deriving.id) # 0
           /\ ReadBetween(Payload(deriving.id).read, 0, moment)

ConsolidationInv ==
  /\ ConsolidationTyped /\ DerivingTyped
  /\ EventsWereRead /\ DerivedLater /\ EliminationsWereTrue

-----------------------------------------------------------------------------
(* Readings.                                                                *)

LEMMA LedgerFinite ==
  ASSUME NEW s, NEW t \in Nat
  PROVE  IsFiniteSet(Ledger(s, t)) /\ Cardinality(Ledger(s, t)) \in Nat
<1>1. Ledger(s, t) \in SUBSET (1 .. t)
  BY DEF Ledger
<1>2. IsFiniteSet(1 .. t)
  BY FS_Interval
<1> QED BY <1>1, <1>2, FS_Subset, FS_CardinalityType

LEMMA HeadOfLedger ==
  ASSUME NEW s, NEW t
  PROVE  LedgerHead(s, t) = IF Ledger(s, t) # {} THEN Max(Ledger(s, t)) ELSE 0
BY DEF LedgerHead, Ledger, SelectLastInSubSeq

LEMMA ReadingTyped ==
  ASSUME NEW k \in 1 .. 6, NEW t \in Nat
  PROVE  Reading(k, t) \in Readings
<1> DEFINE s == IF k <= 3 THEN "left" ELSE "right"
<1>1. Cardinality(Ledger(s, t)) \in Nat
  BY LedgerFinite
<1>2. Ledger(s, t) \in SUBSET Nat /\ \A i \in Ledger(s, t) : i <= t
  BY DEF Ledger
<1>3. Selection(s, t) \in SUBSET Nat
  BY <1>2 DEF Selection
<1>4. LedgerHead(s, t) \in Nat
  <2>1. CASE Ledger(s, t) # {}
    <3>1. Max(Ledger(s, t)) \in Ledger(s, t)
      BY <1>2, <2>1, MaxIsGreatest
    <3> QED BY <1>2, <2>1, <3>1, HeadOfLedger
  <2>2. CASE Ledger(s, t) = {}
    BY <2>2, HeadOfLedger
  <2> QED BY <2>1, <2>2
<1>5. Reading(k, t) \in {Cardinality(Ledger(s, t)), Selection(s, t), LedgerHead(s, t)}
  BY DEF Reading
<1> QED BY <1>1, <1>3, <1>4, <1>5 DEF Readings

LEMMA SameLedgerSameReading ==
  ASSUME NEW k \in 1 .. 6, NEW t, NEW u,
         Ledger(IF k <= 3 THEN "left" ELSE "right", t)
           = Ledger(IF k <= 3 THEN "left" ELSE "right", u)
  PROVE  Reading(k, t) = Reading(k, u)
BY HeadOfLedger DEF Reading, Selection

(* Between two equal counts no row of the ledger was written.               *)
LEMMA LedgerStoodStill ==
  ASSUME NEW s, NEW t \in Nat, NEW u \in Nat, NEW v \in Nat, t <= v, v <= u,
         Cardinality(Ledger(s, t)) = Cardinality(Ledger(s, u))
  PROVE  Ledger(s, v) = Ledger(s, t)
<1>1. Ledger(s, t) \in SUBSET Ledger(s, u) /\ Ledger(s, v) \in SUBSET Ledger(s, u)
      /\ Ledger(s, t) \in SUBSET Ledger(s, v)
  BY DEF Ledger
<1>2. Ledger(s, u) = Ledger(s, t)
  BY <1>1, LedgerFinite, FS_Subset
<1> QED BY <1>1, <1>2

(* What was read before a moment and again after it was true then.          *)
LEMMA ReadTwice ==
  ASSUME NEW read, NEW moment \in Nat, NEW present \in Nat, Len(read) = 6,
         ReadBetween(read, 0, moment), ReadBetween(read, moment, present)
  PROVE  TrueAt(read, moment)
<1>1. PICK ts \in [1 .. 6 -> 0 .. moment] :
        /\ \A k \in 1 .. 6 : read[k] = Reading(k, ts[k])
        /\ \A j, k \in 1 .. 6 : j <= k => ts[j] <= ts[k]
  BY DEF ReadBetween
<1>2. PICK us \in [1 .. 6 -> moment .. present] :
        \A k \in 1 .. 6 : read[k] = Reading(k, us[k])
  BY DEF ReadBetween
<1>3. ASSUME NEW k \in 1 .. 6
      PROVE  read[k] = Reading(k, moment)
  <2> DEFINE s == IF k <= 3 THEN "left" ELSE "right"
             c == IF k <= 3 THEN 1 ELSE 4
  <2>1. c \in 1 .. 6 /\ c <= k /\ c \in {1, 4} /\ (k <= 3 <=> c <= 3)
    OBVIOUS
  <2> HIDE DEF c
  <2>2. Reading(c, ts[c]) = Cardinality(Ledger(s, ts[c]))
        /\ Reading(c, us[c]) = Cardinality(Ledger(s, us[c]))
    BY <2>1 DEF Reading
  <2>3. ts[c] \in Nat /\ us[c] \in Nat /\ ts[k] \in Nat
        /\ ts[c] <= ts[k] /\ ts[k] <= moment /\ moment <= us[c]
    BY <1>1, <1>2, <2>1
  <2>4. Cardinality(Ledger(s, ts[c])) = Cardinality(Ledger(s, us[c]))
    BY <1>1, <1>2, <2>1, <2>2
  <2>5. Ledger(s, ts[k]) = Ledger(s, ts[c]) /\ Ledger(s, moment) = Ledger(s, ts[c])
    BY <2>3, <2>4, LedgerStoodStill
  <2>6. Reading(k, ts[k]) = Reading(k, moment)
    BY <2>5, SameLedgerSameReading
  <2> QED BY <1>1, <2>6
<1> QED BY <1>3 DEF TrueAt

LEMMA ReadBetweenWider ==
  ASSUME NEW read, NEW low \in Nat, NEW high \in Nat, NEW higher \in Nat,
         high <= higher, ReadBetween(read, low, high)
  PROVE  ReadBetween(read, low, higher)
<1>1. [1 .. 6 -> low .. high] \subseteq [1 .. 6 -> low .. higher]
  OBVIOUS
<1> QED BY <1>1 DEF ReadBetween

LEMMA LaterRowsDoNotTell ==
  ASSUME NEW k \in 1 .. 6, NEW t \in Nat, \A i \in 1 .. t : books'[i] = books[i]
  PROVE  Reading(k, t)' = Reading(k, t)
<1>1. ASSUME NEW s
      PROVE  /\ Ledger(s, t)' = Ledger(s, t)
             /\ Selection(s, t)' = Selection(s, t)
             /\ LedgerHead(s, t)' = LedgerHead(s, t)
  <2>1. Ledger(s, t)' = Ledger(s, t)
    BY DEF Ledger
  <2>2. Selection(s, t)' = Selection(s, t)
    <3>1. Ledger(s, t) \in SUBSET (1 .. t)
      BY DEF Ledger
    <3> QED BY <2>1, <3>1 DEF Selection
  <2>3. LedgerHead(s, t)'
          = IF Ledger(s, t)' # {} THEN Max(Ledger(s, t)') ELSE 0
    BY DEF LedgerHead, Ledger, SelectLastInSubSeq
  <2> QED BY <2>1, <2>2, <2>3, HeadOfLedger
<1> QED BY <1>1 DEF Reading

LEMMA BalanceStays ==
  ASSUME NEW t \in Nat, NEW selection \in SUBSET (1 .. t),
         \A i \in 1 .. t : books'[i] = books[i]
  PROVE  Balance(selection)' = Balance(selection)
<1>1. {i \in selection : books'[i].rev = 0} = {i \in selection : books[i].rev = 0}
  OBVIOUS
<1>2. {i \in selection : books'[i].rev # 0} = {i \in selection : books[i].rev # 0}
  OBVIOUS
<1> QED BY <1>1, <1>2 DEF Balance

LEMMA ReadBetweenLater ==
  ASSUME NEW read, NEW low \in Nat, NEW high \in Nat, NEW later \in Nat,
         high <= later, \A i \in 1 .. high : books'[i] = books[i],
         ReadBetween(read, low, high), Len(read) \in 0 .. 6
  PROVE  ReadBetween(read, low, later)'
<1>1. PICK ts \in [1 .. 6 -> low .. high] :
        /\ \A k \in 1 .. Len(read) : read[k] = Reading(k, ts[k])
        /\ \A j, k \in 1 .. Len(read) : j <= k => ts[j] <= ts[k]
  BY DEF ReadBetween
<1>2. ts \in [1 .. 6 -> low .. later]
  OBVIOUS
<1>3. ASSUME NEW k \in 1 .. Len(read)
      PROVE  read[k] = Reading(k, ts[k])'
  <2>3. PICK l \in 0 .. 6 : l = Len(read)
    OBVIOUS
  <2>4. k \in 1 .. l
    BY <2>3
  <2>0. k \in 1 .. 6
    BY <2>4
  <2>5. ts[k] \in low .. high
    BY <2>0
  <2>6. PICK t \in low .. high : t = ts[k]
    BY <2>5
  <2>7. t \in Nat /\ \A i \in 1 .. t : books'[i] = books[i]
    OBVIOUS
  <2>1. ts[k] \in Nat /\ \A i \in 1 .. ts[k] : books'[i] = books[i]
    BY <2>6, <2>7
  <2>2. Reading(k, ts[k])' = Reading(k, ts[k])
    BY <2>0, <2>1, LaterRowsDoNotTell
  <2> QED BY <1>1, <2>2
<1> QED BY <1>1, <1>2, <1>3 DEF ReadBetween

LEMMA TrueLater ==
  ASSUME NEW read, NEW t \in Nat, \A i \in 1 .. t : books'[i] = books[i],
         TrueAt(read, t), Eligible(read)
  PROVE  TrueAt(read, t)' /\ Eligible(read)'
<1>1. TrueAt(read, t)'
  <2>1. \A k \in 1 .. 6 : Reading(k, t)' = Reading(k, t)
    BY LaterRowsDoNotTell
  <2> QED BY <2>1 DEF TrueAt
<1>2. read[2] \in SUBSET (1 .. t) /\ read[5] \in SUBSET (1 .. t)
  <2>1. read[2] = Selection("left", t) /\ read[5] = Selection("right", t)
    BY DEF TrueAt, Reading
  <2> QED BY <2>1 DEF Selection, Ledger
<1>3. Balance(read[2])' = Balance(read[2]) /\ Balance(read[5])' = Balance(read[5])
  BY <1>2, BalanceStays
<1> QED BY <1>1, <1>3 DEF Eligible

LEMMA NothingAtFirst ==
  ASSUME NEW read, TrueAt(read, 0)
  PROVE  ~Eligible(read)
<1>1. read[2] = {}
  BY DEF TrueAt, Reading, Selection, Ledger
<1>2. {i \in read[2] : books[i].rev = 0} = {} /\ {i \in read[2] : books[i].rev # 0} = {}
  BY <1>1
<1>3. Cardinality({}) = 0
  BY FS_EmptySet
<1>4. Balance(read[2]) = 0 - 0
  BY <1>2, <1>3 DEF Balance
<1> QED BY <1>4 DEF Eligible

-----------------------------------------------------------------------------
(* Events.                                                                  *)

LEMMA LatestOfIsAnEvent ==
  ASSUME NEW e, eliminationLog \in Seq(EliminationEvents), LatestOf(e) # 0
  PROVE  /\ LatestOf(e) \in DOMAIN eliminationLog
         /\ eliminationLog[LatestOf(e)] \in EliminationEvents
         /\ Payload(e) = eliminationLog[LatestOf(e)].payload
<1> DEFINE S == {i \in 1 .. Len(eliminationLog) : eliminationLog[i].id = e}
<1>1. LatestOf(e) = IF S # {} THEN Max(S) ELSE 0
  BY DEF LatestOf, SelectLastInSeq
<1>2. S \in SUBSET Nat /\ Len(eliminationLog) \in Nat
      /\ \A i \in S : i <= Len(eliminationLog) /\ i \in DOMAIN eliminationLog
  OBVIOUS
<1> HIDE DEF S
<1>3. LatestOf(e) \in S
  BY <1>1, <1>2, MaxIsGreatest
<1>4. LatestOf(e) \in DOMAIN eliminationLog
  BY <1>2, <1>3
<1> QED BY <1>4 DEF Payload

-----------------------------------------------------------------------------
(* Every action keeps the invariant.                                        *)

LEMMA ConsolidationStarts ==
  ASSUME ConsolidationInit
  PROVE  ConsolidationInv
<1>1. ConsolidationTyped
  BY ConsolidationAssumption DEF ConsolidationInit, ConsolidationTyped
<1>2. DerivingTyped /\ DerivedLater
  BY DEF ConsolidationInit, DerivingTyped, DerivedLater
<1>3. EventsWereRead /\ EliminationsWereTrue
  BY DEF ConsolidationInit, EventsWereRead, EliminationsWereTrue
<1> QED BY <1>1, <1>2, <1>3 DEF ConsolidationInv

(* A row of a ledger falsifies nothing that was read before it.             *)
LEMMA RowsKeep ==
  ASSUME ConsolidationInv, NEW row \in Rows, Len(books) < MaxRows,
         books' = Append(books, row),
         UNCHANGED <<mappings, eliminationLog, deriving>>
  PROVE  ConsolidationInv'
<1> USE DEF ConsolidationInv
<1>1. PICK n \in Nat : n = Len(books)
  BY DEF ConsolidationTyped
<1>2. /\ books' \in Seq(Rows) /\ Len(books') = n + 1
      /\ \A i \in 1 .. n : books'[i] = books[i]
  BY <1>1 DEF ConsolidationTyped
<1>3. ConsolidationTyped'
  BY <1>1, <1>2, ConsolidationAssumption DEF ConsolidationTyped
<1>4. DerivingTyped'
  BY DEF DerivingTyped
<1>5. EventsWereRead'
  <2> SUFFICES ASSUME NEW i \in DOMAIN eliminationLog
               PROVE  LET read == eliminationLog[i].payload.read IN
                      Len(read) = 6 /\ ReadBetween(read, 0, Len(books))'
    BY DEF EventsWereRead
  <2>1. PICK read : read = eliminationLog[i].payload.read
    OBVIOUS
  <2>2. Len(read) = 6 /\ ReadBetween(read, 0, n)
    BY <1>1, <2>1 DEF EventsWereRead
  <2>3. ReadBetween(read, 0, n + 1)'
    BY <1>1, <1>2, <2>2, ReadBetweenLater
  <2> QED BY <1>2, <2>1, <2>2, <2>3
<1>6. DerivedLater'
  <2> SUFFICES ASSUME deriving # NotDeriving
               PROVE  DerivedLater'
    BY DEF DerivedLater
  <2>1. PICK moment \in 0 .. n :
          /\ ReadBetween(deriving.read, moment, n)
          /\ deriving.type # "proposed" =>
               /\ LatestOf(deriving.id) # 0
               /\ ReadBetween(Payload(deriving.id).read, 0, moment)
    BY <1>1 DEF DerivedLater
  <2>2. PICK read : read = deriving.read
    OBVIOUS
  <2>3. ReadBetween(read, moment, n + 1)'
    BY <1>1, <1>2, <2>1, <2>2, ReadBetweenLater DEF DerivingTyped
  <2>4. ASSUME deriving.type # "proposed"
        PROVE  LatestOf(deriving.id)' # 0 /\ ReadBetween(Payload(deriving.id).read, 0, moment)'
    <3>1. LatestOf(deriving.id)' = LatestOf(deriving.id)
          /\ Payload(deriving.id)' = Payload(deriving.id)
      <4>1. deriving' = deriving /\ eliminationLog' = eliminationLog
        OBVIOUS
      <4>2. LatestOf(deriving.id)' = LatestOf(deriving.id)
        BY <4>1 DEF LatestOf, SelectLastInSeq
      <4> QED BY <4>1, <4>2 DEF Payload
    <3>2. PICK first : first = Payload(deriving.id).read
      OBVIOUS
    <3>5. LatestOf(deriving.id) \in DOMAIN eliminationLog
          /\ Payload(deriving.id) = eliminationLog[LatestOf(deriving.id)].payload
      BY <2>1, <2>4, LatestOfIsAnEvent DEF ConsolidationTyped
    <3>3. Len(first) = 6
      BY <3>2, <3>5 DEF EventsWereRead
    <3>6. moment \in Nat /\ moment <= n
      OBVIOUS
    <3>7. ReadBetween(first, 0, moment)
      BY <2>1, <2>4, <3>2
    <3>4. ReadBetween(first, 0, moment)'
      BY <3>3, <3>6, <3>7, <1>2, ReadBetweenLater
    <3> QED BY <2>1, <2>4, <3>1, <3>2, <3>4
  <2> QED BY <1>2, <2>2, <2>3, <2>4 DEF DerivedLater
<1>7. EliminationsWereTrue'
  <2> SUFFICES ASSUME NEW i \in DOMAIN eliminationLog,
                      eliminationLog[i].type \in {"approved", "applied"}
               PROVE  \E t \in DOMAIN books' :
                        /\ TrueAt(eliminationLog[i].payload.read, t)'
                        /\ Eligible(eliminationLog[i].payload.read)'
    BY DEF EliminationsWereTrue, TrueAt
  <2>1. PICK read : read = eliminationLog[i].payload.read
    OBVIOUS
  <2>2. PICK t \in DOMAIN books : TrueAt(read, t) /\ Eligible(read)
    BY <2>1 DEF EliminationsWereTrue, TrueAt
  <2>3. t \in 1 .. n /\ t \in DOMAIN books'
    BY <1>1, <1>2 DEF ConsolidationTyped
  <2>4. TrueAt(read, t)' /\ Eligible(read)'
    BY <1>2, <2>2, <2>3, TrueLater
  <2> QED BY <2>1, <2>3, <2>4
<1> QED BY <1>3, <1>4, <1>5, <1>6, <1>7

LEMMA BooksMoveKeeps ==
  ASSUME ConsolidationInv, BooksMove
  PROVE  ConsolidationInv'
<1>1. \E row \in Rows : books' = Append(books, row) /\ Len(books) < MaxRows
  <2>1. ASSUME NEW late \in BOOLEAN, NEW s \in Sides, PostRow(s, late)
        PROVE  \E row \in Rows : books' = Append(books, row) /\ Len(books) < MaxRows
    BY <2>1, ConsolidationAssumption DEF PostRow, Rows
  <2>2. ASSUME NEW late \in BOOLEAN, NEW i \in DOMAIN books, ReverseRow(i, late)
        PROVE  \E row \in Rows : books' = Append(books, row) /\ Len(books) < MaxRows
    <3>2. books[i] \in Rows /\ i \in 0 .. MaxRows
      BY ConsolidationAssumption DEF ConsolidationInv, ConsolidationTyped
    <3>1. [side |-> books[i].side, late |-> late, rev |-> i] \in Rows
      BY <3>2 DEF Rows
    <3> QED BY <2>2, <3>1 DEF ReverseRow
  <2> QED BY <2>1, <2>2 DEF BooksMove
<1>2. UNCHANGED <<mappings, eliminationLog, deriving>>
  BY DEF BooksMove
<1> QED BY <1>1, <1>2, RowsKeep

(* A command or a reading leaves the ledgers alone, and what the log says   *)
(* of them stays true.                                                      *)
LEMMA OldEventsStand ==
  ASSUME ConsolidationInv, UNCHANGED books, NEW i \in DOMAIN eliminationLog,
         NEW read, read = eliminationLog[i].payload.read
  PROVE  /\ Len(read) = 6 /\ ReadBetween(read, 0, Len(books))'
         /\ eliminationLog[i].type \in {"approved", "applied"} =>
              \E t \in DOMAIN books : TrueAt(read, t)' /\ Eligible(read)'
<1> USE DEF ConsolidationInv
<1>1. PICK n \in Nat : n = Len(books) /\ n = Len(books')
  BY DEF ConsolidationTyped
<1>2. \A j \in 1 .. n : books'[j] = books[j]
  OBVIOUS
<1>3. Len(read) = 6 /\ ReadBetween(read, 0, n)
  BY <1>1 DEF EventsWereRead
<1>4. ReadBetween(read, 0, n)'
  BY <1>2, <1>3, ReadBetweenLater
<1>5. ASSUME eliminationLog[i].type \in {"approved", "applied"}
      PROVE  \E t \in DOMAIN books : TrueAt(read, t)' /\ Eligible(read)'
  <2>1. PICK t \in DOMAIN books : TrueAt(read, t) /\ Eligible(read)
    BY <1>5 DEF EliminationsWereTrue, TrueAt
  <2>2. t \in 1 .. n
    BY <1>1, <2>1 DEF ConsolidationTyped
  <2> QED BY <1>2, <2>1, <2>2, TrueLater
<1> QED BY <1>1, <1>3, <1>4, <1>5

LEMMA LogStands ==
  ASSUME ConsolidationInv, UNCHANGED <<books, eliminationLog>>
  PROVE  EventsWereRead' /\ EliminationsWereTrue'
<1>1. ASSUME NEW i \in DOMAIN eliminationLog
      PROVE  LET read == eliminationLog[i].payload.read IN
             Len(read) = 6 /\ ReadBetween(read, 0, Len(books))'
  <2>1. PICK read : read = eliminationLog[i].payload.read
    OBVIOUS
  <2>2. Len(read) = 6 /\ ReadBetween(read, 0, Len(books))'
    BY <2>1, OldEventsStand
  <2> QED BY <2>1, <2>2
<1>2. ASSUME NEW i \in DOMAIN eliminationLog,
             eliminationLog[i].type \in {"approved", "applied"}
      PROVE  \E t \in DOMAIN books' :
               /\ TrueAt(eliminationLog[i].payload.read, t)'
               /\ Eligible(eliminationLog[i].payload.read)'
  <2>1. PICK read : read = eliminationLog[i].payload.read
    OBVIOUS
  <2>2. \E t \in DOMAIN books : TrueAt(read, t)' /\ Eligible(read)'
    BY <1>2, <2>1, OldEventsStand
  <2> QED BY <2>1, <2>2
<1>3. EventsWereRead'
  BY <1>1 DEF EventsWereRead
<1>4. EliminationsWereTrue'
  BY <1>2 DEF EliminationsWereTrue, TrueAt
<1> QED BY <1>3, <1>4

(* What a new event must bring.                                             *)
WellRead(event) ==
  /\ event \in EliminationEvents
  /\ Len(event.payload.read) = 6 /\ ReadBetween(event.payload.read, 0, Len(books))
  /\ event.type \in {"approved", "applied"} =>
       \E t \in DOMAIN books :
         TrueAt(event.payload.read, t) /\ Eligible(event.payload.read)

LEMMA EventKeeps ==
  ASSUME ConsolidationInv, UNCHANGED <<books, mappings>>, deriving' = NotDeriving,
         Len(eliminationLog) < MaxEliminationEvents,
         NEW event, eliminationLog' = Append(eliminationLog, event), WellRead(event)
  PROVE  ConsolidationInv'
<1> USE DEF ConsolidationInv
<1>1. PICK n \in Nat : n = Len(books) /\ n = Len(books')
  BY DEF ConsolidationTyped
<1>2. PICK l \in Nat : l = Len(eliminationLog)
  BY DEF ConsolidationTyped
<1>3. /\ eliminationLog' \in Seq(EliminationEvents)
      /\ DOMAIN eliminationLog' = 1 .. l + 1 /\ Len(eliminationLog') = l + 1
      /\ \A i \in 1 .. l : i \in DOMAIN eliminationLog
                           /\ eliminationLog'[i] = eliminationLog[i]
      /\ eliminationLog'[l + 1] = event
  BY <1>2 DEF ConsolidationTyped, WellRead
<1>4. ConsolidationTyped'
  BY <1>2, <1>3, ConsolidationAssumption DEF ConsolidationTyped
<1>5. DerivingTyped' /\ DerivedLater'
  BY DEF DerivingTyped, DerivedLater
<1>6. ASSUME NEW i \in DOMAIN eliminationLog', NEW read,
             read = eliminationLog'[i].payload.read
      PROVE  /\ Len(read) = 6 /\ ReadBetween(read, 0, Len(books))'
             /\ eliminationLog'[i].type \in {"approved", "applied"} =>
                  \E t \in DOMAIN books : TrueAt(read, t)' /\ Eligible(read)'
  <2>1. CASE i \in 1 .. l
    BY <1>3, <1>6, <2>1, OldEventsStand
  <2>2. CASE i = l + 1
    <3>1. read = event.payload.read /\ eliminationLog'[i].type = event.type
      BY <1>3, <1>6, <2>2
    <3>2. Len(read) = 6 /\ ReadBetween(read, 0, n)
      BY <1>1, <3>1 DEF WellRead
    <3>3. ReadBetween(read, 0, n)'
      BY <1>1, <3>2, ReadBetweenLater
    <3>4. ASSUME event.type \in {"approved", "applied"}
          PROVE  \E t \in DOMAIN books : TrueAt(read, t)' /\ Eligible(read)'
      <4>1. PICK t \in DOMAIN books : TrueAt(read, t) /\ Eligible(read)
        BY <3>1, <3>4 DEF WellRead
      <4>2. t \in Nat
        BY <4>1 DEF ConsolidationTyped
      <4> QED BY <4>1, <4>2, TrueLater
    <3> QED BY <1>1, <3>1, <3>2, <3>3, <3>4
  <2> QED BY <1>3, <2>1, <2>2
<1>7. EventsWereRead'
  <2> SUFFICES ASSUME NEW i \in DOMAIN eliminationLog'
               PROVE  /\ Len(eliminationLog'[i].payload.read) = 6
                      /\ ReadBetween(eliminationLog[i].payload.read, 0, Len(books))'
    BY DEF EventsWereRead
  <2>1. PICK read : read = eliminationLog'[i].payload.read
    OBVIOUS
  <2>2. Len(read) = 6 /\ ReadBetween(read, 0, Len(books))'
    BY <1>6, <2>1
  <2> QED BY <2>1, <2>2
<1>8. EliminationsWereTrue'
  <2> SUFFICES ASSUME NEW i \in DOMAIN eliminationLog',
                      eliminationLog'[i].type \in {"approved", "applied"}
               PROVE  \E t \in DOMAIN books' :
                        /\ TrueAt(eliminationLog[i].payload.read, t)'
                        /\ Eligible(eliminationLog[i].payload.read)'
    BY DEF EliminationsWereTrue, TrueAt
  <2>1. PICK read : read = eliminationLog'[i].payload.read
    OBVIOUS
  <2>2. \E t \in DOMAIN books : TrueAt(read, t)' /\ Eligible(read)'
    BY <1>6, <2>1
  <2> QED BY <2>1, <2>2
<1> QED BY <1>4, <1>5, <1>7, <1>8

LEMMA MappingsKeep ==
  ASSUME ConsolidationInv, NEW m \in Mappings, NEW p \in Reviewers,
         ProposeMapping(m, p) \/ ApproveMapping(m, p) \/ RevokeMapping(m, p)
  PROVE  ConsolidationInv'
<1>1. PICK status \in {"proposed", "approved", "revoked"} : SetMapping(m, status, p)
  BY DEF ProposeMapping, ApproveMapping, RevokeMapping
<1>2. /\ mappings' = [mappings EXCEPT ![m] = [status |-> status, actor |-> p]]
      /\ UNCHANGED <<books, eliminationLog>> /\ deriving' = NotDeriving
  BY <1>1 DEF SetMapping
<1>3. ConsolidationTyped'
  BY <1>2 DEF ConsolidationTyped, ConsolidationInv
<1>4. DerivingTyped' /\ DerivedLater'
  BY <1>2 DEF DerivingTyped, DerivedLater
<1>5. EventsWereRead' /\ EliminationsWereTrue'
  BY <1>2, LogStands
<1> QED BY <1>3, <1>4, <1>5 DEF ConsolidationInv

LEMMA RefuseKeeps ==
  ASSUME ConsolidationInv, RefuseDeriving
  PROVE  ConsolidationInv'
<1>1. UNCHANGED <<books, mappings, eliminationLog>> /\ deriving' = NotDeriving
  BY DEF RefuseDeriving
<1>2. ConsolidationTyped'
  BY <1>1 DEF ConsolidationTyped, ConsolidationInv
<1>3. DerivingTyped' /\ DerivedLater'
  BY <1>1 DEF DerivingTyped, DerivedLater
<1>4. EventsWereRead' /\ EliminationsWereTrue'
  BY <1>1, LogStands
<1> QED BY <1>2, <1>3, <1>4 DEF ConsolidationInv

LEMMA WithdrawKeeps ==
  ASSUME ConsolidationInv, NEW e \in Eliminations, NEW p \in Reviewers, Withdraw(e, p)
  PROVE  ConsolidationInv'
<1>1. PICK type \in {"rejected", "reversed"} :
        /\ Stage(e) # "none"
        /\ eliminationLog' = Append(eliminationLog,
             [id |-> e, type |-> type, payload |-> Payload(e), actor |-> p])
  BY DEF Withdraw, AppendEvent
<1>2. PICK event : event = [id |-> e, type |-> type, payload |-> Payload(e), actor |-> p]
  OBVIOUS
<1>3. /\ LatestOf(e) \in DOMAIN eliminationLog
      /\ eliminationLog[LatestOf(e)] \in EliminationEvents
      /\ Payload(e) = eliminationLog[LatestOf(e)].payload
  BY <1>1, LatestOfIsAnEvent DEF Stage, ConsolidationInv, ConsolidationTyped
<1>4. event \in EliminationEvents
  BY <1>2, <1>3 DEF EliminationEvents
<1>5. WellRead(event)
  BY <1>2, <1>3, <1>4 DEF WellRead, ConsolidationInv, EventsWereRead
<1>6. /\ UNCHANGED <<books, mappings>> /\ deriving' = NotDeriving
      /\ Len(eliminationLog) < MaxEliminationEvents
  BY DEF Withdraw
<1> QED BY <1>1, <1>2, <1>5, <1>6, EventKeeps

LEMMA ProposalStands ==
  ASSUME ConsolidationInv, UNCHANGED <<books, eliminationLog>>, NEW e,
         NEW moment \in Nat, LatestOf(e) # 0, ReadBetween(Payload(e).read, 0, moment)
  PROVE  LatestOf(e)' # 0 /\ ReadBetween(Payload(e).read, 0, moment)'
<1>1. LatestOf(e)' = LatestOf(e)
  BY DEF LatestOf, SelectLastInSeq
<1>2. Payload(e)' = Payload(e)
  BY <1>1 DEF Payload
<1>3. /\ LatestOf(e) \in DOMAIN eliminationLog
      /\ Payload(e) = eliminationLog[LatestOf(e)].payload
  BY LatestOfIsAnEvent DEF ConsolidationInv, ConsolidationTyped
<1>4. PICK first : first = Payload(e).read
  OBVIOUS
<1>5. Len(first) = 6 /\ ReadBetween(first, 0, moment)
  BY <1>3, <1>4 DEF ConsolidationInv, EventsWereRead
<1>6. ReadBetween(first, 0, moment)'
  BY <1>5, ReadBetweenLater
<1> QED BY <1>1, <1>2, <1>4, <1>6

LEMMA BeginKeeps ==
  ASSUME ConsolidationInv, NEW type \in {"proposed", "approved", "applied"},
         NEW e \in Eliminations, NEW m \in Mappings, NEW p \in Reviewers,
         BeginDeriving(type, e, m, p)
  PROVE  ConsolidationInv'
<1>1. PICK present \in Nat : present = Len(books) /\ present = Len(books')
  BY DEF BeginDeriving, ConsolidationInv, ConsolidationTyped
<1>2. UNCHANGED <<books, mappings, eliminationLog>>
  BY DEF BeginDeriving
<1>3. PICK r : r = Reading(1, present)
  OBVIOUS
<1>4. deriving' = [type |-> type, id |-> e, mapping |-> m, actor |-> p, read |-> <<r>>]
  BY <1>1, <1>3 DEF BeginDeriving
<1>5. r \in Readings
  BY <1>3, ReadingTyped
<1>6. ConsolidationTyped' /\ EventsWereRead' /\ EliminationsWereTrue'
  BY <1>2, LogStands DEF ConsolidationInv, ConsolidationTyped
<1>7. DerivingTyped'
  BY <1>2, <1>4, <1>5 DEF DerivingTyped, BeginDeriving
<1>8. ReadBetween(<<r>>, present, present)'
  <2>1. [k \in 1 .. 6 |-> present] \in [1 .. 6 -> present .. present]
    OBVIOUS
  <2>2. Reading(1, present)' = r
    BY <1>2, <1>3, LaterRowsDoNotTell
  <2>3. \A k \in 1 .. Len(<<r>>) : k = 1 /\ <<r>>[k] = r
    OBVIOUS
  <2>4. /\ \A k \in 1 .. Len(<<r>>) : <<r>>[k] = Reading(k, [j \in 1 .. 6 |-> present][k])'
        /\ \A j, k \in 1 .. Len(<<r>>) :
             j <= k => [i \in 1 .. 6 |-> present][j] <= [i \in 1 .. 6 |-> present][k]
    BY <2>2, <2>3
  <2> QED BY <2>1, <2>4 DEF ReadBetween
<1>9. ASSUME type # "proposed"
      PROVE  LatestOf(e)' # 0 /\ ReadBetween(Payload(e).read, 0, present)'
  <2>1. Stage(e) # "none"
    BY <1>9 DEF BeginDeriving, MayAdvance
  <2>2. /\ LatestOf(e) # 0 /\ LatestOf(e) \in DOMAIN eliminationLog
        /\ Payload(e) = eliminationLog[LatestOf(e)].payload
    BY <2>1, LatestOfIsAnEvent DEF Stage, ConsolidationInv, ConsolidationTyped
  <2>3. ReadBetween(Payload(e).read, 0, present)
    BY <1>1, <2>2 DEF ConsolidationInv, EventsWereRead
  <2> QED BY <1>2, <2>2, <2>3, ProposalStands
<1>10. DerivedLater'
  <2>1. /\ deriving'.read = <<r>> /\ deriving'.type = type /\ deriving'.id = e
    BY <1>4
  <2>2. present \in 0 .. present
    OBVIOUS
  <2>3. ReadBetween(deriving.read, present, present)'
    BY <1>8, <2>1
  <2>4. deriving'.type # "proposed" =>
          /\ LatestOf(deriving.id)' # 0
          /\ ReadBetween(Payload(deriving.id).read, 0, present)'
    BY <1>9, <2>1 DEF LatestOf, Payload
  <2> QED BY <1>1, <2>2, <2>3, <2>4 DEF DerivedLater
<1> QED BY <1>6, <1>7, <1>10 DEF ConsolidationInv

LEMMA ReadOnKeeps ==
  ASSUME ConsolidationInv, ReadOn
  PROVE  ConsolidationInv'
<1>1. PICK present \in Nat : present = Len(books) /\ present = Len(books')
  BY DEF ReadOn, ConsolidationInv, ConsolidationTyped
<1>2. UNCHANGED <<books, mappings, eliminationLog>> /\ deriving # NotDeriving
  BY DEF ReadOn
<1>3. PICK d : d = deriving
  OBVIOUS
<1>4. PICK n \in 1 .. 5 : n = Len(d.read)
  BY <1>2, <1>3 DEF ReadOn, DerivingTyped, ConsolidationInv
<1>5. PICK r : r = Reading(n + 1, present)
  OBVIOUS
<1>6. PICK read : read = Append(d.read, r)
  OBVIOUS
<1>7. deriving' = [d EXCEPT !.read = read]
  BY <1>1, <1>3, <1>4, <1>5, <1>6 DEF ReadOn
<1>8. /\ d \in [type : {"proposed", "approved", "applied"}, id : Eliminations,
                mapping : Mappings, actor : Reviewers, read : Seq(Readings)]
      /\ Len(eliminationLog) < MaxEliminationEvents
  BY <1>2, <1>3 DEF DerivingTyped, ConsolidationInv
<1>9. r \in Readings
  BY <1>5, ReadingTyped
<1>10. /\ read \in Seq(Readings) /\ Len(read) = n + 1 /\ read[n + 1] = r
       /\ \A k \in 1 .. n : read[k] = d.read[k]
  BY <1>4, <1>6, <1>8, <1>9
<1>11. /\ deriving'.read = read /\ deriving'.type = d.type /\ deriving'.id = d.id
       /\ deriving' \in [type : {"proposed", "approved", "applied"}, id : Eliminations,
                         mapping : Mappings, actor : Reviewers, read : Seq(Readings)]
  BY <1>7, <1>8, <1>10
<1>12. DerivingTyped'
  <2>0. Len(read) \in 1 .. 6
    <3>1. n + 1 \in 1 .. 6
      OBVIOUS
    <3>2. Len(read) = n + 1
      BY <1>10
    <3> QED BY <3>1, <3>2
  <2>1. Len(deriving'.read) \in 1 .. 6
    BY <1>11, <2>0
  <2>2. Len(eliminationLog') < MaxEliminationEvents
    BY <1>2, <1>8
  <2> QED BY <1>11, <2>1, <2>2 DEF DerivingTyped
<1>13. ConsolidationTyped' /\ EventsWereRead' /\ EliminationsWereTrue'
  BY <1>2, LogStands DEF ConsolidationInv, ConsolidationTyped
<1>14. PICK moment \in 0 .. present :
         /\ ReadBetween(d.read, moment, present)
         /\ d.type # "proposed" =>
              /\ LatestOf(d.id) # 0
              /\ ReadBetween(Payload(d.id).read, 0, moment)
  BY <1>1, <1>2, <1>3 DEF DerivedLater, ConsolidationInv
<1>15. ReadBetween(read, moment, present)'
  <2>1. PICK ts \in [1 .. 6 -> moment .. present] :
          /\ \A k \in 1 .. n : d.read[k] = Reading(k, ts[k])
          /\ \A j, k \in 1 .. n : j <= k => ts[j] <= ts[k]
    BY <1>4, <1>14 DEF ReadBetween
  <2>2. PICK us \in [1 .. 6 -> moment .. present] :
          us = [k \in 1 .. 6 |-> IF k <= n THEN ts[k] ELSE present]
    <3>1. present \in moment .. present
      OBVIOUS
    <3>2. \A k \in 1 .. 6 : (IF k <= n THEN ts[k] ELSE present) \in moment .. present
      BY <3>1
    <3> QED BY <3>2
  <2>3. ASSUME NEW k \in 1 .. n + 1 PROVE read[k] = Reading(k, us[k])'
    <3>1. Reading(k, us[k])' = Reading(k, us[k])
      <4>1. k \in 1 .. 6 /\ us[k] \in Nat
        OBVIOUS
      <4> QED BY <1>2, <4>1, LaterRowsDoNotTell
    <3>2. CASE k <= n
      <4>1. k \in 1 .. n /\ us[k] = ts[k]
        BY <2>2, <3>2
      <4> QED BY <1>10, <2>1, <3>1, <4>1
    <3>3. CASE k = n + 1
      <4>1. us[k] = present
        BY <2>2, <3>3
      <4> QED BY <1>5, <1>10, <3>1, <3>3, <4>1
    <3> QED BY <3>2, <3>3
  <2>4. ASSUME NEW j \in 1 .. n + 1, NEW k \in 1 .. n + 1, j <= k
        PROVE  us[j] <= us[k]
    BY <2>1, <2>2, <2>4
  <2> QED BY <1>10, <2>3, <2>4 DEF ReadBetween
<1>16. ASSUME d.type # "proposed"
       PROVE  LatestOf(d.id)' # 0 /\ ReadBetween(Payload(d.id).read, 0, moment)'
  BY <1>2, <1>14, <1>16, ProposalStands
<1>17. DerivedLater'
  <2>1. ReadBetween(deriving.read, moment, present)'
    BY <1>11, <1>15
  <2>2. deriving'.type # "proposed" =>
          /\ LatestOf(deriving.id)' # 0
          /\ ReadBetween(Payload(deriving.id).read, 0, moment)'
    BY <1>11, <1>16 DEF LatestOf, Payload
  <2> QED BY <1>1, <2>1, <2>2 DEF DerivedLater
<1> QED BY <1>12, <1>13, <1>17 DEF ConsolidationInv

(* The readings of an approval equal those of the proposal, so both were    *)
(* true at the moment the approval began.                                   *)
LEMMA FinishKeeps ==
  ASSUME ConsolidationInv, FinishDeriving
  PROVE  ConsolidationInv'
<1>1. PICK present \in Nat : present = Len(books)
  BY DEF ConsolidationInv, ConsolidationTyped
<1>2. PICK d : d = deriving
  OBVIOUS
<1>3. /\ d # NotDeriving /\ Len(d.read) = 6 /\ Eligible(d.read)
      /\ UNCHANGED <<books, mappings>> /\ deriving' = NotDeriving
  BY <1>2 DEF FinishDeriving
<1>4. /\ d \in [type : {"proposed", "approved", "applied"}, id : Eliminations,
                mapping : Mappings, actor : Reviewers, read : Seq(Readings)]
      /\ Len(eliminationLog) < MaxEliminationEvents
  BY <1>2, <1>3 DEF DerivingTyped, ConsolidationInv
<1>5. PICK moment \in 0 .. present :
        /\ ReadBetween(d.read, moment, present)
        /\ d.type # "proposed" =>
             /\ LatestOf(d.id) # 0
             /\ ReadBetween(Payload(d.id).read, 0, moment)
  BY <1>1, <1>2, <1>3 DEF DerivedLater, ConsolidationInv
<1>6. PICK payload : payload = Derived(d)
  OBVIOUS
<1>7. d.type # "proposed" => payload = Payload(d.id)
  BY <1>2, <1>6 DEF FinishDeriving, StillCurrent
<1>8. PICK event : event = [id |-> d.id, type |-> d.type, payload |-> payload,
                            actor |-> d.actor]
  OBVIOUS
<1>9. eliminationLog' = Append(eliminationLog, event)
  BY <1>2, <1>6, <1>7, <1>8 DEF FinishDeriving, AppendEvent
<1>10. payload \in Payloads /\ payload.read = d.read
  BY <1>4, <1>6 DEF Derived, Payloads
<1>11. event \in EliminationEvents /\ event.payload.read = d.read /\ event.type = d.type
  BY <1>4, <1>8, <1>10 DEF EliminationEvents
<1>12. ReadBetween(d.read, 0, present)
  <2>1. [1 .. 6 -> moment .. present] \subseteq [1 .. 6 -> 0 .. present]
    OBVIOUS
  <2> QED BY <1>5, <2>1 DEF ReadBetween
<1>13. ASSUME d.type \in {"approved", "applied"}
       PROVE  \E t \in DOMAIN books : TrueAt(d.read, t) /\ Eligible(d.read)
  <2>1. ReadBetween(d.read, 0, moment)
    BY <1>5, <1>7, <1>10, <1>13
  <2>2. TrueAt(d.read, moment)
    BY <1>3, <1>5, <2>1, ReadTwice
  <2>3. moment # 0
    BY <1>3, <2>2, NothingAtFirst
  <2>4. moment \in DOMAIN books
    BY <1>1, <2>3 DEF ConsolidationInv, ConsolidationTyped
  <2> QED BY <1>3, <2>2, <2>4
<1>14. WellRead(event)
  BY <1>1, <1>3, <1>11, <1>12, <1>13 DEF WellRead
<1> QED BY <1>3, <1>4, <1>9, <1>14, EventKeeps

LEMMA ConsolidationKeeps ==
  ASSUME ConsolidationInv, [ConsolidationNext]_consolidationVars
  PROVE  ConsolidationInv'
<1>1. CASE UNCHANGED consolidationVars
  <2>1. UNCHANGED <<books, mappings, eliminationLog, deriving>>
    BY <1>1 DEF consolidationVars
  <2>2. ConsolidationTyped' /\ DerivingTyped'
    BY <2>1 DEF ConsolidationInv, ConsolidationTyped, DerivingTyped
  <2>3. EventsWereRead' /\ EliminationsWereTrue'
    BY <2>1, LogStands
  <2>4. ASSUME deriving # NotDeriving PROVE DerivedLater'
    <3>1. PICK present \in Nat : present = Len(books) /\ present = Len(books')
      BY <2>1 DEF ConsolidationInv, ConsolidationTyped
    <3>2. PICK d : d = deriving /\ d = deriving'
      BY <2>1
    <3>3. PICK moment \in 0 .. present :
            /\ ReadBetween(d.read, moment, present)
            /\ d.type # "proposed" =>
                 LatestOf(d.id) # 0 /\ ReadBetween(Payload(d.id).read, 0, moment)
      BY <2>4, <3>1, <3>2 DEF ConsolidationInv, DerivedLater
    <3>4. ReadBetween(d.read, moment, present)'
      <4>1. Len(d.read) \in 0 .. 6
        BY <2>4, <3>2 DEF ConsolidationInv, DerivingTyped
      <4> QED BY <2>1, <3>3, <4>1, ReadBetweenLater
    <3>5. d.type # "proposed" =>
            LatestOf(d.id)' # 0 /\ ReadBetween(Payload(d.id).read, 0, moment)'
      BY <2>1, <3>3, ProposalStands
    <3>6. ReadBetween(deriving.read, moment, present)'
      BY <3>2, <3>4
    <3>7. deriving'.type # "proposed" =>
            /\ LatestOf(deriving.id)' # 0
            /\ ReadBetween(Payload(deriving.id).read, 0, moment)'
      BY <3>2, <3>5 DEF LatestOf, Payload
    <3> QED BY <3>1, <3>6, <3>7 DEF DerivedLater
  <2>5. deriving = NotDeriving => DerivedLater'
    BY <2>1 DEF DerivedLater
  <2> QED BY <2>2, <2>3, <2>4, <2>5 DEF ConsolidationInv
<1>2. CASE BooksMove
  BY <1>2, BooksMoveKeeps
<1>3. CASE ReadOn \/ FinishDeriving \/ RefuseDeriving
  BY <1>3, ReadOnKeeps, FinishKeeps, RefuseKeeps
<1>4. ASSUME NEW p \in Reviewers, NEW m \in Mappings,
             ProposeMapping(m, p) \/ ApproveMapping(m, p) \/ RevokeMapping(m, p)
      PROVE  ConsolidationInv'
  BY <1>4, MappingsKeep
<1>5. ASSUME NEW p \in Reviewers, NEW e \in Eliminations, Withdraw(e, p)
      PROVE  ConsolidationInv'
  BY <1>5, WithdrawKeeps
<1>6. ASSUME NEW p \in Reviewers, NEW e \in Eliminations, NEW m \in Mappings,
             NEW type \in {"proposed", "approved", "applied"}, BeginDeriving(type, e, m, p)
      PROVE  ConsolidationInv'
  BY <1>6, BeginKeeps
<1> QED BY <1>1, <1>2, <1>3, <1>4, <1>5, <1>6 DEF ConsolidationNext

(* The invariant of proposals, approvals and what is being derived for them *)
(* (consolidation-eliminations.ts).                                         *)
THEOREM ConsolidationInvariant == ConsolidationSpec => []ConsolidationInv
<1>1. ConsolidationInit => ConsolidationInv
  BY ConsolidationStarts
<1>2. ConsolidationInv /\ [ConsolidationNext]_consolidationVars => ConsolidationInv'
  BY ConsolidationKeeps
<1> QED BY <1>1, <1>2, PTL DEF ConsolidationSpec

(* Rows, events and the payload being derived have their types.             *)
THEOREM ConsolidationTypes == ConsolidationSpec => []ConsolidationTypeOK
<1>1. ConsolidationInv => ConsolidationTypeOK
  <2> SUFFICES ASSUME ConsolidationInv PROVE ConsolidationTypeOK
    OBVIOUS
  <2> USE DEF ConsolidationInv
  <2>1. ASSUME NEW i \in DOMAIN eliminationLog
        PROVE  LET event == eliminationLog[i] IN
               /\ event.id \in Eliminations /\ event.actor \in Reviewers
               /\ event.type \in {"proposed", "approved", "rejected", "applied", "reversed"}
               /\ event.payload.mapping \in Mappings /\ Len(event.payload.read) = 6
    <3>1. eliminationLog[i] \in EliminationEvents
      BY DEF ConsolidationTyped
    <3>2. Len(eliminationLog[i].payload.read) = 6
      BY DEF EventsWereRead
    <3> QED BY <3>1, <3>2 DEF EliminationEvents, Payloads
  <2> QED BY <2>1 DEF ConsolidationTyped, DerivingTyped, ConsolidationTypeOK
<1> QED BY <1>1, ConsolidationInvariant, PTL

(* What is approved or applied was a balance both ledgers showed at one     *)
(* moment, whatever they posted and reversed between the six statements     *)
(* that read them and between the proposal and the approval                 *)
(* (consolidation-eliminations.ts:123).                                     *)
THEOREM EliminationsAreTrue == ConsolidationSpec => []EliminationsWereTrue
<1>1. ConsolidationInv => EliminationsWereTrue
  BY DEF ConsolidationInv
<1> QED BY <1>1, ConsolidationInvariant, PTL

-----------------------------------------------------------------------------
(***************************************************************************)
(* WorkspaceAccess, for any number of identities, companies, operators and *)
(* invitations.  Everything but the bootstrap waits for its end, and the   *)
(* bootstrap knows one address: all operators act for the reserved one.    *)
(***************************************************************************)

Phases == {"none", "reserved", "identity_created", "mail_confirmed", "access_completed"}

BootRecords ==
  [phase : Phases, email : Users \union {NoUser}, company : Companies \union {NoUser},
   userId : Users \union {NoUser}]

OperatorRecords ==
  [at : {"idle", "look", "create", "note", "mail", "complete"},
   email : Users \union {NoUser}, found : Users \union {NoUser}]

IssuedRecords ==
  [status : {"issued", "delivery_confirmed", "delivery_failed", "cancelled", "accepted"},
   email : Users, role : {"workspace_owner", "member"}, company : Companies,
   companyRole : {"owner", "reader"}, expired : BOOLEAN]

InvitationRecords == IssuedRecords \union {NoInvitation}

AccessTyped ==
  /\ identities \subseteq Users /\ secured \subseteq identities
  /\ archived \subseteq Companies
  /\ access \in [Users -> {"none", "disabled", "member", "workspace_owner"}]
  /\ member \in [Users -> [Companies -> {"none", "revoked", "owner", "reader"}]]
  /\ boot \in BootRecords
  /\ operator \in [Operators -> OperatorRecords]
  /\ invitation \in [Invitations -> InvitationRecords]

OnlyKnown ==
  /\ \A u \in Users : access[u] # "none" => u \in identities
  /\ \A u \in Users, c \in Companies : member[u][c] # "none" => u \in identities

(* Where the bootstrap and its operators are.                               *)
OneAddress ==
  /\ boot.phase = "none" => identities = {} /\ \A o \in Operators : operator[o].at = "idle"
  /\ boot.phase # "none" => boot.email \in Users
  /\ boot.userId \in identities \union {NoUser}
  /\ boot.phase \in {"identity_created", "mail_confirmed", "access_completed"}
       => boot.userId # NoUser
  /\ \A o \in Operators :
       /\ operator[o].at # "idle" => operator[o].email = boot.email
       /\ operator[o].at = "note" => operator[o].found \in identities

NobodyYet ==
  boot.phase # "access_completed" =>
    /\ identities \subseteq {boot.email}
    /\ \A i \in Invitations : invitation[i].status = "none"
    /\ \A u \in Users : access[u] = "none" /\ \A c \in Companies : member[u][c] = "none"

AccessInv == AccessTyped /\ OnlyKnown /\ OneAddress /\ NobodyYet

-----------------------------------------------------------------------------

LEMMA BootstrapKeepsAccess ==
  ASSUME WorkspaceAccessAssumption, AccessInv, NEW o \in Operators,
         \/ \E u \in Users, c \in Companies : Reserve(o, u, c)
         \/ LookUp(o)
         \/ \E ok \in BOOLEAN : CreateFirst(o, ok)
         \/ NoteIdentity(o)
         \/ ConfirmMail(o)
         \/ CompleteBootstrap(o)
         \/ GiveUp(o)
  PROVE  AccessInv'
<1> USE DEF AccessInv
<1>1. Idle \in OperatorRecords /\ Idle.at = "idle"
  BY DEF Idle, OperatorRecords
<1>2. ASSUME NEW u \in Users, NEW c \in Companies, Reserve(o, u, c) PROVE AccessInv'
  <2>1. PICK q : q = [at |-> IF boot.userId = NoUser THEN "look" ELSE "mail",
                      email |-> u, found |-> NoUser]
    OBVIOUS
  <2>2. q \in OperatorRecords /\ q.at \in {"look", "mail"} /\ q.email = u
    BY <2>1 DEF OperatorRecords
  <2>3. PICK n : n = [phase |-> "reserved", email |-> u, company |-> c, userId |-> NoUser]
    OBVIOUS
  <2>4. n \in BootRecords /\ n.email = u /\ n.phase = "reserved" /\ n.userId = NoUser
    BY <2>3 DEF BootRecords, Phases
  <2>5. /\ \/ boot.phase = "none" /\ identities = {} /\ boot' = n
           \/ boot.phase # "none" /\ boot.email = u /\ boot' = boot
        /\ operator' = [operator EXCEPT ![o] = q]
        /\ UNCHANGED <<identities, secured, access, member, archived, invitation>>
    BY <1>2, <2>1, <2>3 DEF Reserve
  <2>6. AccessTyped' /\ OnlyKnown'
    BY <2>2, <2>4, <2>5 DEF AccessTyped, OnlyKnown
  <2>7. OneAddress'
    BY <2>2, <2>4, <2>5 DEF OneAddress, AccessTyped
  <2>8. NobodyYet'
    BY <2>4, <2>5 DEF NobodyYet
  <2> QED BY <2>6, <2>7, <2>8
<1>3. ASSUME LookUp(o) PROVE AccessInv'
  <2>1. PICK q : operator' = [operator EXCEPT ![o] = q]
                 /\ q = IF operator[o].email \in identities
                          THEN [operator[o] EXCEPT !.at = "note", !.found = operator[o].email]
                          ELSE [operator[o] EXCEPT !.at = "create"]
    BY <1>3 DEF LookUp
  <2>2. operator[o] \in OperatorRecords /\ operator[o].email = boot.email
    BY <1>3 DEF LookUp, AccessTyped, OneAddress
  <2>3. /\ q \in OperatorRecords /\ q.email = operator[o].email
        /\ q.at = "note" => q.found \in identities
    BY <2>1, <2>2 DEF OperatorRecords
  <2>4. UNCHANGED <<identities, secured, access, member, archived, boot, invitation>>
        /\ operator[o].at = "look"
    BY <1>3 DEF LookUp
  <2>5. AccessTyped' /\ OnlyKnown' /\ NobodyYet'
    BY <2>1, <2>3, <2>4 DEF AccessTyped, OnlyKnown, NobodyYet
  <2>6. OneAddress'
    BY <2>1, <2>2, <2>3, <2>4 DEF OneAddress, AccessTyped
  <2> QED BY <2>5, <2>6
<1>4. ASSUME NEW ok \in BOOLEAN, CreateFirst(o, ok) PROVE AccessInv'
  <2>1. operator[o] \in OperatorRecords /\ operator[o].email = boot.email /\ boot.phase # "none"
    BY <1>4 DEF CreateFirst, AccessTyped, OneAddress
  <2>2. PICK e \in Users : e = boot.email
    BY <2>1 DEF OneAddress
  <2>3. PICK q : operator' = [operator EXCEPT ![o] = q]
                 /\ q = IF ok THEN [operator[o] EXCEPT !.at = "note", !.found = operator[o].email]
                              ELSE Idle
    BY <1>4 DEF CreateFirst, Stop
  <2>4. /\ q \in OperatorRecords
        /\ q.at # "idle" => q.email = e
        /\ q.at = "note" => q.found = e
    BY <1>1, <2>1, <2>2, <2>3 DEF OperatorRecords
  <2>5. identities' = identities \union {e}
        /\ UNCHANGED <<secured, access, member, archived, boot, invitation>>
    BY <1>4, <2>1, <2>2 DEF CreateFirst
  <2>6. AccessTyped' /\ OnlyKnown'
    BY <2>2, <2>3, <2>4, <2>5 DEF AccessTyped, OnlyKnown
  <2>7. OneAddress'
    BY <2>1, <2>2, <2>3, <2>4, <2>5 DEF OneAddress, AccessTyped
  <2>8. NobodyYet'
    BY <2>2, <2>5 DEF NobodyYet
  <2> QED BY <2>6, <2>7, <2>8
<1>5. ASSUME NoteIdentity(o) PROVE AccessInv'
  <2>1. PICK f \in identities : f = operator[o].found
    BY <1>5 DEF NoteIdentity, OneAddress
  <2>2. PICK q : q = [operator[o] EXCEPT !.at = "mail"]
    OBVIOUS
  <2>3. operator[o] \in OperatorRecords
    BY DEF AccessTyped
  <2>4. q \in OperatorRecords /\ q.at = "mail" /\ q.email = operator[o].email
    BY <2>2, <2>3 DEF OperatorRecords
  <2>5. operator' = [operator EXCEPT ![o] = q] /\ operator[o].at = "note"
        /\ UNCHANGED <<identities, secured, access, member, archived, invitation>>
    BY <1>5, <2>2 DEF NoteIdentity
  <2>6. boot' \in BootRecords /\ boot'.email = boot.email
        /\ boot'.userId # NoUser /\ boot'.userId \in identities
        /\ (boot'.phase = boot.phase \/ boot.userId = NoUser) /\ boot'.phase # "none"
    <3>1. CASE boot.userId # NoUser
      BY <1>5, <3>1 DEF NoteIdentity, AccessTyped, OneAddress
    <3>2. CASE boot.userId = NoUser
      <4>1. PICK n : n = [boot EXCEPT !.phase = "identity_created", !.userId = f]
        OBVIOUS
      <4>2. n \in BootRecords /\ n.email = boot.email /\ n.userId = f /\ n.phase # "none"
        BY <2>1, <4>1 DEF BootRecords, AccessTyped, Phases
      <4>3. boot' = n /\ f # NoUser
        BY <1>5, <2>1, <3>2, <4>1 DEF NoteIdentity, AccessTyped, WorkspaceAccessAssumption
      <4> QED BY <2>1, <3>2, <4>2, <4>3
    <3> QED BY <3>1, <3>2
  <2>7. boot.userId = NoUser => boot.phase # "access_completed"
    BY DEF OneAddress
  <2>8. AccessTyped' /\ OnlyKnown'
    BY <2>4, <2>5, <2>6 DEF AccessTyped, OnlyKnown
  <2>9. OneAddress'
    BY <2>4, <2>5, <2>6 DEF OneAddress, AccessTyped
  <2>10. NobodyYet'
    BY <2>5, <2>6, <2>7 DEF NobodyYet
  <2> QED BY <2>8, <2>9, <2>10
<1>6. ASSUME ConfirmMail(o) PROVE AccessInv'
  <2>2. PICK q : q = [operator[o] EXCEPT !.at = "complete"]
    OBVIOUS
  <2>3. operator[o] \in OperatorRecords
    BY DEF AccessTyped
  <2>4. q \in OperatorRecords /\ q.at = "complete" /\ q.email = operator[o].email
    BY <2>2, <2>3 DEF OperatorRecords
  <2>5. operator' = [operator EXCEPT ![o] = q] /\ operator[o].at = "mail"
        /\ UNCHANGED <<identities, secured, access, member, archived, invitation>>
    BY <1>6, <2>2 DEF ConfirmMail
  <2>6. boot' \in BootRecords /\ boot'.email = boot.email /\ boot'.userId = boot.userId
        /\ (boot'.phase = boot.phase \/ (boot.phase = "identity_created"
                                         /\ boot'.phase = "mail_confirmed"))
    <3>1. CASE boot.phase # "identity_created"
      BY <1>6, <3>1 DEF ConfirmMail, AccessTyped
    <3>2. CASE boot.phase = "identity_created"
      <4>1. PICK n : n = [boot EXCEPT !.phase = "mail_confirmed"]
        OBVIOUS
      <4>2. n \in BootRecords /\ n.email = boot.email /\ n.userId = boot.userId
            /\ n.phase = "mail_confirmed"
        BY <4>1 DEF BootRecords, AccessTyped, Phases
      <4>3. boot' = n
        BY <1>6, <3>2, <4>1 DEF ConfirmMail
      <4> QED BY <3>2, <4>2, <4>3
    <3> QED BY <3>1, <3>2
  <2>8. AccessTyped' /\ OnlyKnown'
    BY <2>4, <2>5, <2>6 DEF AccessTyped, OnlyKnown
  <2>9. OneAddress'
    BY <2>4, <2>5, <2>6 DEF OneAddress, AccessTyped
  <2>10. NobodyYet'
    BY <2>5, <2>6 DEF NobodyYet
  <2> QED BY <2>8, <2>9, <2>10
<1>7. ASSUME CompleteBootstrap(o) PROVE AccessInv'
  <2>1. PICK u, c : u = boot.userId /\ c = boot.company
    OBVIOUS
  <2>2. /\ boot.phase = "mail_confirmed"
        /\ access' = [access EXCEPT ![u] = "workspace_owner"]
        /\ member' = [member EXCEPT ![u][c] = "owner"]
        /\ boot' = [boot EXCEPT !.phase = "access_completed"]
        /\ operator' = [operator EXCEPT ![o] = Idle]
        /\ UNCHANGED <<identities, secured, archived, invitation>>
    BY <1>7, <2>1 DEF CompleteBootstrap, Stop
  <2>3. u \in identities
    BY <2>1, <2>2 DEF OneAddress
  <2>4. PICK n : n = [boot EXCEPT !.phase = "access_completed"]
    OBVIOUS
  <2>5. n \in BootRecords /\ n.email = boot.email /\ n.userId = boot.userId
        /\ n.phase = "access_completed"
    BY <2>4 DEF BootRecords, AccessTyped, Phases
  <2>6. boot' = n
    BY <2>2, <2>4
  <2>7. access' \in [Users -> {"none", "disabled", "member", "workspace_owner"}]
        /\ member' \in [Users -> [Companies -> {"none", "revoked", "owner", "reader"}]]
    BY <2>2 DEF AccessTyped
  <2>8. AccessTyped'
    BY <1>1, <2>2, <2>5, <2>6, <2>7 DEF AccessTyped
  <2>9. OnlyKnown'
    BY <2>2, <2>3 DEF OnlyKnown, AccessTyped
  <2>10. OneAddress'
    BY <1>1, <2>2, <2>5, <2>6 DEF OneAddress, AccessTyped
  <2>11. NobodyYet'
    BY <2>5, <2>6 DEF NobodyYet
  <2> QED BY <2>8, <2>9, <2>10, <2>11
<1>8. ASSUME GiveUp(o) PROVE AccessInv'
  <2>1. operator' = [operator EXCEPT ![o] = Idle]
        /\ UNCHANGED <<identities, secured, access, member, archived, boot, invitation>>
    BY <1>8 DEF GiveUp, Stop
  <2>2. AccessTyped' /\ OnlyKnown' /\ NobodyYet'
    BY <1>1, <2>1 DEF AccessTyped, OnlyKnown, NobodyYet
  <2>3. OneAddress'
    BY <1>1, <2>1 DEF OneAddress, AccessTyped
  <2> QED BY <2>2, <2>3
<1> QED BY <1>2, <1>3, <1>4, <1>5, <1>6, <1>7, <1>8

(* Members and companies change only after the bootstrap.                   *)
LEMMA MembersKeepAccess ==
  ASSUME AccessInv, NEW u \in Users,
         \/ \E r \in {"workspace_owner", "member"} : Activate(u, r)
         \/ Disable(u)
         \/ \E c \in Companies :
              \/ \E r \in {"owner", "reader"} : Grant(u, c, r)
              \/ Revoke(u, c)
         \/ SetSecured(u)
         \/ \E c \in Companies : SetArchived(c)
  PROVE  AccessInv'
<1> USE DEF AccessInv
<1>1. UNCHANGED <<identities, boot, operator, invitation>>
  BY DEF Activate, Disable, Grant, Revoke, SetSecured, SetArchived
<1>2. \/ boot.phase = "access_completed"
      \/ UNCHANGED <<access, member>>
  BY DEF Activate, Disable, Grant, Revoke, SetSecured, SetArchived, Administered
<1>3. secured' \subseteq identities /\ archived' \subseteq Companies
  BY DEF Activate, Disable, Grant, Revoke, SetSecured, SetArchived, AccessTyped
<1>4. /\ access' \in [Users -> {"none", "disabled", "member", "workspace_owner"}]
      /\ \A v \in Users : access'[v] # "none" => v \in identities
  BY DEF Activate, Disable, Grant, Revoke, SetSecured, SetArchived, AccessTyped, OnlyKnown
<1>5. /\ member' \in [Users -> [Companies -> {"none", "revoked", "owner", "reader"}]]
      /\ \A v \in Users, c \in Companies : member'[v][c] # "none" => v \in identities
  <2>1. ASSUME NEW c \in Companies, NEW r \in {"owner", "reader", "revoked"}, u \in identities,
               member' = [member EXCEPT ![u][c] = r]
        PROVE  <1>5!:
    BY <2>1 DEF AccessTyped, OnlyKnown
  <2>2. ASSUME UNCHANGED member
        PROVE  <1>5!:
    BY <2>2 DEF AccessTyped, OnlyKnown
  <2>3. \/ UNCHANGED member
        \/ /\ u \in identities
           /\ \E c \in Companies, r \in {"owner", "reader", "revoked"} :
                member' = [member EXCEPT ![u][c] = r]
    BY DEF Activate, Disable, Grant, Revoke, SetSecured, SetArchived, OnlyKnown
  <2> QED BY <2>1, <2>2, <2>3
<1>6. AccessTyped' /\ OnlyKnown'
  BY <1>1, <1>3, <1>4, <1>5 DEF AccessTyped, OnlyKnown
<1>7. OneAddress' /\ NobodyYet'
  BY <1>1, <1>2 DEF OneAddress, NobodyYet
<1> QED BY <1>6, <1>7

LEMMA InvitationsKeepAccess ==
  ASSUME AccessInv, NEW i \in Invitations,
         \/ \E u \in Users, wr \in {"workspace_owner", "member"}, c \in Companies,
               cr \in {"owner", "reader"} : Issue(i, u, wr, c, cr)
         \/ \E s \in {"delivery_confirmed", "delivery_failed"} : RecordDelivery(i, s)
         \/ Cancel(i) \/ Expire(i) \/ Claim(i) \/ Accept(i)
  PROVE  AccessInv'
<1> USE DEF AccessInv
<1>1. boot.phase = "access_completed"
  BY DEF NobodyYet, Administered, Issue, RecordDelivery, Cancel, Expire, Claim, Accept,
         Claimable
<1>2. UNCHANGED <<secured, archived, boot, operator>>
  BY DEF Issue, RecordDelivery, Cancel, Expire, Claim, Accept
<1>3. PICK n : n = invitation[i]
  OBVIOUS
<1>4. n \in InvitationRecords /\ (n.status # "none" => n \in IssuedRecords)
  BY <1>3 DEF AccessTyped, InvitationRecords, NoInvitation
<1>5. n.status # "none" =>
        /\ n.email \in Users /\ n.role \in {"workspace_owner", "member"}
        /\ n.companyRole \in {"owner", "reader"}
  BY <1>4 DEF IssuedRecords
<1>6. invitation' \in [Invitations -> InvitationRecords]
  <2>1. ASSUME n.status # "none",
               NEW s \in {"issued", "delivery_confirmed", "delivery_failed", "cancelled",
                          "accepted"}
        PROVE  [n EXCEPT !.status = s] \in InvitationRecords
    BY <1>4, <2>1 DEF InvitationRecords, IssuedRecords
  <2>2. n.status # "none" => [n EXCEPT !.expired = TRUE] \in InvitationRecords
    BY <1>4 DEF InvitationRecords, IssuedRecords
  <2>3. ASSUME NEW u \in Users, NEW wr \in {"workspace_owner", "member"}, NEW c \in Companies,
               NEW cr \in {"owner", "reader"}
        PROVE  [status |-> "issued", email |-> u, role |-> wr, company |-> c,
                companyRole |-> cr, expired |-> FALSE] \in InvitationRecords
    BY DEF InvitationRecords, IssuedRecords
  <2>4. \/ UNCHANGED invitation
        \/ \E m \in InvitationRecords : invitation' = [invitation EXCEPT ![i] = m]
    <3>1. ASSUME NEW u \in Users, NEW wr \in {"workspace_owner", "member"},
                 NEW c \in Companies, NEW cr \in {"owner", "reader"}, Issue(i, u, wr, c, cr)
          PROVE  \E m \in InvitationRecords : invitation' = [invitation EXCEPT ![i] = m]
      BY <2>3, <3>1 DEF Issue
    <3>2. ASSUME NEW s \in {"delivery_confirmed", "delivery_failed"}, RecordDelivery(i, s)
          PROVE  \E m \in InvitationRecords : invitation' = [invitation EXCEPT ![i] = m]
      BY <1>3, <2>1, <3>2 DEF RecordDelivery
    <3>3. CASE Cancel(i)
      BY <1>3, <2>1, <3>3 DEF Cancel
    <3>4. CASE Expire(i)
      BY <1>3, <2>2, <3>4 DEF Expire
    <3>5. CASE Claim(i)
      BY <3>5 DEF Claim
    <3>6. CASE Accept(i)
      BY <1>3, <2>1, <3>6 DEF Accept, Claimable
    <3> QED BY <3>1, <3>2, <3>3, <3>4, <3>5, <3>6
  <2> QED BY <2>4 DEF AccessTyped
<1>7. identities \subseteq identities' /\ identities' \subseteq Users
  <2>1. CASE Claim(i)
    <3>1. boot.phase = "access_completed" /\ identities' = identities \union {n.email}
      BY <1>1, <1>3, <2>1 DEF Claim
    <3>2. n.status # "none"
      BY <1>3, <2>1 DEF Claim, Claimable
    <3> QED BY <1>5, <3>1, <3>2 DEF AccessTyped
  <2>2. CASE ~Claim(i)
    BY <2>2 DEF Issue, RecordDelivery, Cancel, Expire, Accept, AccessTyped
  <2> QED BY <2>1, <2>2
<1>8. /\ access' \in [Users -> {"none", "disabled", "member", "workspace_owner"}]
      /\ \A v \in Users : access'[v] # "none" => v \in identities'
  BY <1>3, <1>5, <1>7 DEF Issue, RecordDelivery, Cancel, Expire, Claim, Accept, Claimable,
                          AccessTyped, OnlyKnown
<1>9. /\ member' \in [Users -> [Companies -> {"none", "revoked", "owner", "reader"}]]
      /\ \A v \in Users, c \in Companies : member'[v][c] # "none" => v \in identities'
  <2>1. CASE Accept(i)
    <3>1. PICK u, c : u = n.email /\ c = n.company
      OBVIOUS
    <3>2. member' = [member EXCEPT ![u][c] = n.companyRole] /\ u \in identities
          /\ n.status # "none"
      BY <1>3, <2>1, <3>1 DEF Accept, Claimable
    <3> QED BY <1>5, <1>7, <3>2 DEF AccessTyped, OnlyKnown
  <2>2. CASE ~Accept(i)
    <3>1. UNCHANGED member
      BY <2>2 DEF Issue, RecordDelivery, Cancel, Expire, Claim
    <3> QED BY <1>7, <3>1 DEF AccessTyped, OnlyKnown
  <2> QED BY <2>1, <2>2
<1>10. AccessTyped' /\ OnlyKnown'
  BY <1>2, <1>6, <1>7, <1>8, <1>9 DEF AccessTyped, OnlyKnown
<1>11. OneAddress'
  BY <1>1, <1>2, <1>7 DEF OneAddress
<1>12. NobodyYet'
  BY <1>1, <1>2 DEF NobodyYet
<1> QED BY <1>10, <1>11, <1>12

LEMMA AccessStep ==
  ASSUME WorkspaceAccessAssumption, AccessInv, [WorkspaceAccessNext]_workspaceAccessVars
  PROVE  AccessInv'
<1>1. CASE BootstrapNext
  BY <1>1, BootstrapKeepsAccess DEF BootstrapNext
<1>2. CASE MembersNext
  BY <1>2, MembersKeepAccess DEF MembersNext
<1>3. CASE InvitationsNext
  BY <1>3, InvitationsKeepAccess DEF InvitationsNext
<1>4. CASE \E u \in Users : SetSecured(u)
  BY <1>4, MembersKeepAccess
<1>5. ASSUME NEW c \in Companies, SetArchived(c) PROVE AccessInv'
  <2>1. UNCHANGED <<identities, secured, access, member, boot, operator, invitation>>
        /\ archived' \subseteq Companies
    BY <1>5 DEF SetArchived, AccessInv, AccessTyped
  <2> QED BY <2>1 DEF AccessInv, AccessTyped, OnlyKnown, OneAddress, NobodyYet
<1>6. CASE UNCHANGED workspaceAccessVars
  BY <1>6 DEF AccessInv, AccessTyped, OnlyKnown, OneAddress, NobodyYet, workspaceAccessVars
<1> QED BY <1>1, <1>2, <1>3, <1>4, <1>5, <1>6 DEF WorkspaceAccessNext

(* The invariant of the bootstrap, the invitations and the members          *)
(* (WorkspaceAccessSpec).                                                   *)
THEOREM AccessInvariant == WorkspaceAccessSpec => []AccessInv
<1>1. WorkspaceAccessInit => AccessInv
  <2> SUFFICES ASSUME WorkspaceAccessInit PROVE AccessInv
    OBVIOUS
  <2>1. Idle \in OperatorRecords /\ Idle.at = "idle"
    BY DEF Idle, OperatorRecords
  <2>2. NoInvitation \in InvitationRecords /\ NoInvitation.status = "none"
    BY DEF NoInvitation, InvitationRecords
  <2>3. boot \in BootRecords /\ boot.phase = "none" /\ boot.userId = NoUser
    BY DEF WorkspaceAccessInit, BootRecords, Phases
  <2>4. AccessTyped /\ OnlyKnown
    BY <2>1, <2>2, <2>3 DEF WorkspaceAccessInit, AccessTyped, OnlyKnown
  <2>5. OneAddress /\ NobodyYet
    BY <2>1, <2>2, <2>3 DEF WorkspaceAccessInit, OneAddress, NobodyYet
  <2> QED BY <2>4, <2>5 DEF AccessInv
<1>2. AccessInv /\ [WorkspaceAccessNext]_workspaceAccessVars => AccessInv'
  BY AccessStep, WorkspaceAccessAssumption
<1> QED BY <1>1, <1>2, PTL DEF WorkspaceAccessSpec

(* Type correctness of identities, roles, reservation and invitations; only *)
(* who exists has a role.                                                   *)
THEOREM AccessTypes == WorkspaceAccessSpec => []WorkspaceAccessTypeOK
<1>1. AccessInv => WorkspaceAccessTypeOK
  <2> SUFFICES ASSUME AccessInv PROVE WorkspaceAccessTypeOK
    OBVIOUS
  <2>1. ASSUME NEW r \in BootRecords
        PROVE  /\ r.phase \in Phases /\ r.email \in Users \union {NoUser}
               /\ r.company \in Companies \union {NoUser}
               /\ r.userId \in Users \union {NoUser}
    BY DEF BootRecords
  <2>2. ASSUME NEW r \in OperatorRecords
        PROVE  r.at \in {"idle", "look", "create", "note", "mail", "complete"}
    BY DEF OperatorRecords
  <2>3. ASSUME NEW r \in InvitationRecords
        PROVE  r.status \in {"none", "issued", "delivery_confirmed", "delivery_failed",
                             "cancelled", "accepted"}
    BY DEF InvitationRecords, IssuedRecords, NoInvitation
  <2> QED BY <2>1, <2>2, <2>3 DEF AccessInv, AccessTyped, OnlyKnown, WorkspaceAccessTypeOK,
                                  Phases
<1> QED BY <1>1, AccessInvariant, PTL

(* Until the bootstrap has ended there is one identity at most and nobody   *)
(* has access to anything, for any number of operators that run it, stop    *)
(* and start again (workspace-bootstrap.ts).                                *)
THEOREM FirstIdentityIsTheOnlyOne == WorkspaceAccessSpec => []OneFirstIdentity
<1>1. AccessInv => OneFirstIdentity
  BY DEF AccessInv, OneAddress, NobodyYet, OneFirstIdentity
<1> QED BY <1>1, AccessInvariant, PTL

(* No step but a user's own giving up of TOTP takes the last effective      *)
(* owner of the workspace or of a company (workspace-access.ts).            *)
THEOREM OwnersStay == WorkspaceAccessSpec => OwnersRemain
<1> DEFINE Kept == /\ WorkspaceOwners # {} => WorkspaceOwners' # {}
                   /\ \A c \in Companies : CompanyOwners(c) # {} => CompanyOwners(c)' # {}
<1>1. ASSUME AccessInv, [WorkspaceAccessNext]_workspaceAccessVars, secured' = secured
      PROVE  Kept
  <2>1. /\ access \in [Users -> {"none", "disabled", "member", "workspace_owner"}]
        /\ member \in [Users -> [Companies -> {"none", "revoked", "owner", "reader"}]]
    BY <1>1 DEF AccessInv, AccessTyped
  <2>2. ASSUME \A u \in Users : access[u] = "workspace_owner" => access'[u] = "workspace_owner",
               \A u \in Users, c \in Companies : member[u][c] = "owner" => member'[u][c] = "owner"
        PROVE  Kept
    BY <1>1, <2>2 DEF WorkspaceOwners, CompanyOwners
  <2>3. ASSUME NEW u \in Users, access[u] = "workspace_owner" => WorkspaceKeepsOwner(u),
               NEW r, access' = [access EXCEPT ![u] = r], UNCHANGED member
        PROVE  Kept
    <3>1. \A v \in WorkspaceOwners \ {u} : v \in WorkspaceOwners'
      BY <1>1, <2>1, <2>3 DEF WorkspaceOwners
    <3>2. \A c \in Companies : \A v \in CompanyOwners(c) \ {u} : v \in CompanyOwners(c)'
      BY <2>3, <3>1 DEF CompanyOwners
    <3>3. CASE u \in WorkspaceOwners
      <4>1. WorkspaceKeepsOwner(u)
        BY <2>3, <3>3 DEF WorkspaceOwners
      <4> QED BY <3>1, <3>2, <4>1 DEF WorkspaceKeepsOwner, CompanyKeepsOwner, CompanyOwners
    <3>4. CASE u \notin WorkspaceOwners
      BY <3>1, <3>2, <3>4 DEF CompanyOwners
    <3> QED BY <3>3, <3>4
  <2>4. ASSUME NEW u \in Users, NEW c \in Companies, NEW r, UNCHANGED access,
               member[u][c] = "owner" => CompanyKeepsOwner(u, c),
               member' = [member EXCEPT ![u][c] = r]
        PROVE  Kept
    <3>1. WorkspaceOwners' = WorkspaceOwners
      BY <1>1, <2>4 DEF WorkspaceOwners
    <3>2. \A d \in Companies, v \in Users : d # c \/ v # u => member'[v][d] = member[v][d]
      BY <2>1, <2>4
    <3>3. \A d \in Companies : \A v \in CompanyOwners(d) :
            d # c \/ v # u => v \in CompanyOwners(d)'
      BY <3>1, <3>2 DEF CompanyOwners, WorkspaceOwners
    <3>4. u \in CompanyOwners(c) => CompanyOwners(c) \ {u} # {}
      BY <2>4 DEF CompanyKeepsOwner, CompanyOwners
    <3> QED BY <3>1, <3>3, <3>4
  <2>5. CASE BootstrapNext
    <3>1. PICK o \in Operators :
            \/ UNCHANGED <<access, member>>
            \/ CompleteBootstrap(o)
      BY <2>5 DEF BootstrapNext, Reserve, LookUp, CreateFirst, NoteIdentity, ConfirmMail, GiveUp
    <3>2. CASE CompleteBootstrap(o)
      <4>1. PICK u, c : access' = [access EXCEPT ![u] = "workspace_owner"]
                        /\ member' = [member EXCEPT ![u][c] = "owner"]
        BY <3>2 DEF CompleteBootstrap
      <4>2. \A v \in Users : access[v] = "workspace_owner" => access'[v] = "workspace_owner"
        BY <2>1, <4>1
      <4>3. \A v \in Users, d \in Companies : member[v][d] = "owner" => member'[v][d] = "owner"
        BY <2>1, <4>1
      <4> QED BY <2>2, <4>2, <4>3
    <3> QED BY <2>2, <3>1, <3>2
  <2>6. CASE MembersNext
    <3>1. PICK u \in Users :
            \/ \E r \in {"workspace_owner", "member"} : Activate(u, r)
            \/ Disable(u)
            \/ \E c \in Companies :
                 \/ \E r \in {"owner", "reader"} : Grant(u, c, r)
                 \/ Revoke(u, c)
      BY <2>6 DEF MembersNext
    <3>2. ASSUME NEW r \in {"workspace_owner", "member"}, Activate(u, r) PROVE Kept
      BY <2>3, <3>2 DEF Activate
    <3>3. ASSUME Disable(u) PROVE Kept
      BY <2>3, <3>3 DEF Disable
    <3>4. ASSUME NEW c \in Companies, NEW r \in {"owner", "reader"}, Grant(u, c, r) PROVE Kept
      BY <2>4, <3>4 DEF Grant
    <3>5. ASSUME NEW c \in Companies, Revoke(u, c) PROVE Kept
      BY <2>4, <3>5 DEF Revoke
    <3> QED BY <3>1, <3>2, <3>3, <3>4, <3>5
  <2>7. CASE InvitationsNext
    <3>1. PICK i \in Invitations : UNCHANGED <<access, member>> \/ Accept(i)
      BY <2>7 DEF InvitationsNext, Issue, RecordDelivery, Cancel, Expire, Claim
    <3>2. CASE Accept(i)
      <4>1. PICK n, u, c : n = invitation[i] /\ u = n.email /\ c = n.company
        OBVIOUS
      <4>2. /\ member[u][c] \in {"owner", "reader"} => member[u][c] = n.companyRole
            /\ access' = [access EXCEPT ![u] =
                 IF @ \in {"none", "disabled"} \/ (@ = "member" /\ n.role = "workspace_owner")
                 THEN n.role ELSE @]
            /\ member' = [member EXCEPT ![u][c] = n.companyRole]
        BY <3>2, <4>1 DEF Accept
      <4>3. \A v \in Users : access[v] = "workspace_owner" => access'[v] = "workspace_owner"
        BY <2>1, <4>2
      <4>4. \A v \in Users, d \in Companies : member[v][d] = "owner" => member'[v][d] = "owner"
        BY <2>1, <4>2
      <4> QED BY <2>2, <4>3, <4>4
    <3> QED BY <2>2, <3>1, <3>2
  <2>8. CASE \/ \E u \in Users : SetSecured(u)
             \/ \E c \in Companies : SetArchived(c)
             \/ UNCHANGED workspaceAccessVars
    <3>1. UNCHANGED <<access, member>>
      BY <2>8 DEF SetSecured, SetArchived, workspaceAccessVars
    <3> QED BY <2>2, <3>1
  <2> QED BY <1>1, <2>5, <2>6, <2>7, <2>8 DEF WorkspaceAccessNext
<1>2. AccessInv /\ [WorkspaceAccessNext]_workspaceAccessVars =>
        [secured' = secured =>
           /\ WorkspaceOwners # {} => WorkspaceOwners' # {}
           /\ \A c \in Companies : CompanyOwners(c) # {} => CompanyOwners(c)' # {}
        ]_workspaceAccessVars
  BY <1>1
<1> QED BY <1>2, AccessInvariant, PTL DEF WorkspaceAccessSpec, OwnersRemain

-----------------------------------------------------------------------------
(***************************************************************************)
(* Backups, for any documents, bank lines, restorers and destinations: the *)
(* files are copied after the snapshot and never disappear, so they cover  *)
(* its rows; a directory is listed once its manifest is there and is not   *)
(* written again; and a staging directory is a copy of one listed backup.  *)
(***************************************************************************)

LedgerRows == [item : Documents \union BankLines, at : 1 .. MaxTime]

BackupRecords ==
  [createdAt : Nat, rows : SUBSET LedgerRows, files : SUBSET Documents, manifest : BOOLEAN]

JobRecords ==
  [pc : {"snapshot", "copy", "manifest"}, createdAt : Nat, rows : SUBSET LedgerRows,
   files : SUBSET Documents]

RestoreRecords ==
  [pc : {"staging", "built", "remove", "rename"}, backup : BackupRecords,
   rows : SUBSET LedgerRows, files : SUBSET Documents]

TargetRecords ==
  [kind : {"absent", "empty", "files"}]
    \union [kind : {"company"}, rows : SUBSET LedgerRows, files : SUBSET Documents]

BackupsTyped ==
  /\ now \in 1 .. MaxTime
  /\ originals \subseteq Documents /\ rows \subseteq LedgerRows
  /\ backups \subseteq BackupRecords
  /\ backupJob \in JobRecords \union {Nothing}
  /\ restores \in [Restorers -> RestoreRecords \union {Nothing}]
  /\ restoreTarget \in TargetRecords

Whole(rs, fs) == \A r \in rs : r.item \in Documents => r.item \in fs

BackupsTaken ==
  /\ Whole(rows, originals)
  /\ \A b \in backups : b.rows \subseteq rows /\ b.files \subseteq originals
  /\ \A b \in Listed : Whole(b.rows, b.files)
  /\ backupJob # Nothing =>
       /\ backupJob.rows \subseteq rows /\ backupJob.files \subseteq originals
       /\ backupJob.pc = "manifest" => Whole(backupJob.rows, backupJob.files)
       /\ \A b \in Listed : b.createdAt # backupJob.createdAt

FromListed(rs, fs) == \E b \in Listed : b.rows = rs /\ b.files = fs

RestoresFromListed ==
  /\ \A r \in Restorers :
       /\ restores[r].pc = "staging" => restores[r].backup \in Listed
       /\ restores[r].pc \in {"built", "remove", "rename"} =>
            FromListed(restores[r].rows, restores[r].files)
  /\ restoreTarget.kind = "company" => FromListed(restoreTarget.rows, restoreTarget.files)

BackupsInv == BackupsTyped /\ BackupsTaken /\ RestoresFromListed

-----------------------------------------------------------------------------
(* What is read from a record of each kind.                                 *)

LEMMA JobFields ==
  ASSUME NEW j \in JobRecords
  PROVE  /\ j.pc \in {"snapshot", "copy", "manifest"} /\ j.createdAt \in Nat
         /\ j.rows \subseteq LedgerRows /\ j.files \subseteq Documents /\ j # Nothing
<1>1. Nothing.pc = "none"
  BY DEF Nothing
<1> QED BY <1>1 DEF JobRecords

LEMMA RestoreFields ==
  ASSUME NEW s \in RestoreRecords
  PROVE  /\ s.pc \in {"staging", "built", "remove", "rename"} /\ s.backup \in BackupRecords
         /\ s.rows \subseteq LedgerRows /\ s.files \subseteq Documents /\ s # Nothing
<1>1. Nothing.pc = "none"
  BY DEF Nothing
<1> QED BY <1>1 DEF RestoreRecords

LEMMA BackupFields ==
  ASSUME NEW b \in BackupRecords
  PROVE  /\ b.createdAt \in Nat /\ b.rows \subseteq LedgerRows
         /\ b.files \subseteq Documents /\ b.manifest \in BOOLEAN
BY DEF BackupRecords

-----------------------------------------------------------------------------
(* Bookkeeping adds, and so do backups.                                     *)

LEMMA BookkeepingKeeps ==
  ASSUME BackupsAssumption, BackupsInv,
         \/ \E d \in Documents : PublishFile(d) \/ InsertDocument(d)
         \/ \E l \in BankLines : ImportLine(l)
         \/ ConfigureLock \/ Tick
         \/ \E d \in Destinations :
              \/ \E b \in Listed : PlaceArchive(d, b)
              \/ \E b, s \in Listed : ConfirmPlacement(d, b.createdAt, s.createdAt)
  PROVE  BackupsInv'
<1> USE DEF BackupsInv
<1>1. UNCHANGED <<backups, backupJob, restoreTarget, restores>>
  BY DEF PublishFile, InsertDocument, ImportLine, ConfigureLock, Tick, PlaceArchive,
         ConfirmPlacement
<1>2. Listed' = Listed
  BY <1>1 DEF Listed
<1>3. originals \subseteq originals' /\ rows \subseteq rows' /\ originals' \subseteq Documents
      /\ now' \in 1 .. MaxTime
  <2>1. originals \subseteq originals' /\ rows \subseteq rows' /\ originals' \subseteq Documents
    BY DEF PublishFile, InsertDocument, ImportLine, ConfigureLock, Tick, PlaceArchive,
           ConfirmPlacement, BackupsTyped
  <2>2. CASE Tick
    BY <2>2 DEF Tick, BackupsTyped, BackupsAssumption
  <2>3. CASE ~Tick
    BY <2>3 DEF PublishFile, InsertDocument, ImportLine, ConfigureLock, PlaceArchive,
                ConfirmPlacement, BackupsTyped
  <2> QED BY <2>1, <2>2, <2>3
<1>4. rows' \subseteq LedgerRows /\ Whole(rows', originals')
  <2>1. ASSUME NEW d \in Documents, InsertDocument(d)
        PROVE  rows' \subseteq LedgerRows /\ Whole(rows', originals')
    <3>1. PICK n : n = [item |-> d, at |-> now]
      OBVIOUS
    <3>2. n \in LedgerRows /\ n.item = d /\ d \in originals
      BY <2>1, <3>1 DEF LedgerRows, BackupsTyped, InsertDocument
    <3>3. rows' = rows \union {n} /\ originals' = originals
      BY <2>1, <3>1 DEF InsertDocument
    <3> QED BY <3>2, <3>3 DEF BackupsTyped, BackupsTaken, Whole
  <2>2. ASSUME NEW l \in BankLines, ImportLine(l)
        PROVE  rows' \subseteq LedgerRows /\ Whole(rows', originals')
    <3>1. PICK n : n = [item |-> l, at |-> now]
      OBVIOUS
    <3>2. n \in LedgerRows /\ n.item = l /\ l \notin Documents
      BY <2>2, <3>1 DEF LedgerRows, BackupsTyped, BackupsAssumption
    <3>3. rows' = rows \union {n} /\ originals' = originals
      BY <2>2, <3>1 DEF ImportLine
    <3> QED BY <3>2, <3>3 DEF BackupsTyped, BackupsTaken, Whole
  <2>3. CASE UNCHANGED rows
    BY <1>3, <2>3 DEF BackupsTyped, BackupsTaken, Whole
  <2> QED BY <2>1, <2>2, <2>3 DEF PublishFile, ConfigureLock, Tick, PlaceArchive,
                                  ConfirmPlacement
<1>5. BackupsTyped'
  BY <1>1, <1>3, <1>4 DEF BackupsTyped
<1>6. BackupsTaken'
  BY <1>1, <1>2, <1>3, <1>4 DEF BackupsTaken, Whole
<1>7. RestoresFromListed'
  BY <1>1, <1>2 DEF RestoresFromListed, FromListed
<1> QED BY <1>5, <1>6, <1>7

LEMMA BackupKeeps ==
  ASSUME BackupsAssumption, BackupsInv,
         StartBackup \/ Snapshot \/ CopyFiles \/ PromoteManifest \/ CrashBackup
  PROVE  BackupsInv'
<1> USE DEF BackupsInv
<1>1. UNCHANGED <<now, originals, rows, restoreTarget, restores>>
  BY DEF StartBackup, Snapshot, CopyFiles, PromoteManifest, CrashBackup
<1>2. Nothing.pc = "none"
  BY DEF Nothing
<1>3. ASSUME Listed \subseteq Listed' PROVE RestoresFromListed'
  BY <1>1, <1>3 DEF RestoresFromListed, FromListed
<1>4. CASE StartBackup
  <2>1. PICK b : b = [createdAt |-> now, rows |-> {}, files |-> {}, manifest |-> FALSE]
    OBVIOUS
  <2>2. b \in BackupRecords /\ b.createdAt = now /\ b.rows = {} /\ b.files = {} /\ ~b.manifest
    BY <2>1 DEF BackupRecords, BackupsTyped
  <2>3. PICK j : j = [pc |-> "snapshot", createdAt |-> now, rows |-> {}, files |-> {}]
    OBVIOUS
  <2>4. j \in JobRecords /\ j.pc = "snapshot" /\ j.createdAt = now /\ j.rows = {} /\ j.files = {}
    BY <2>3 DEF JobRecords, BackupsTyped
  <2>5. backups' = backups \union {b} /\ backupJob' = j /\ \A o \in backups : o.createdAt # now
    BY <1>4, <2>1, <2>3 DEF StartBackup, Job
  <2>6. Listed' = Listed
    BY <2>2, <2>5 DEF Listed
  <2>7. BackupsTyped'
    BY <1>1, <2>2, <2>4, <2>5 DEF BackupsTyped
  <2>8. BackupsTaken'
    BY <1>1, <2>2, <2>4, <2>5, <2>6 DEF BackupsTaken, Whole, Listed
  <2> QED BY <1>3, <2>6, <2>7, <2>8
<1>5. ASSUME Snapshot \/ CopyFiles PROVE BackupsInv'
  <2>1. backupJob \in JobRecords /\ backupJob # Nothing
    BY <1>2, <1>5, JobFields DEF BackupsTyped, Snapshot, CopyFiles
  <2>2. PICK j : j = backupJob
    OBVIOUS
  <2>3. /\ backupJob' \in JobRecords /\ backupJob'.createdAt = j.createdAt
        /\ backupJob'.rows \subseteq rows /\ backupJob'.files \subseteq originals
        /\ backupJob'.pc = "manifest" => Whole(backupJob'.rows, backupJob'.files)
    <3>1. CASE Snapshot
      <4>1. PICK n : n = [j EXCEPT !.pc = "copy", !.rows = rows]
        OBVIOUS
      <4>2. n \in JobRecords /\ n.createdAt = j.createdAt /\ n.rows = rows
            /\ n.files = j.files /\ n.pc = "copy"
        BY <2>1, <2>2, <4>1 DEF JobRecords, BackupsTyped
      <4>3. backupJob' = n
        BY <2>2, <3>1, <4>1 DEF Snapshot, Job
      <4> QED BY <2>1, <2>2, <4>2, <4>3 DEF BackupsTaken
    <3>2. CASE CopyFiles
      <4>1. PICK n : n = [j EXCEPT !.pc = "manifest", !.files = originals]
        OBVIOUS
      <4>2. n \in JobRecords /\ n.createdAt = j.createdAt /\ n.rows = j.rows
            /\ n.files = originals
        BY <2>1, <2>2, <4>1 DEF JobRecords, BackupsTyped
      <4>3. backupJob' = n
        BY <2>2, <3>2, <4>1 DEF CopyFiles, Job
      <4> QED BY <2>1, <2>2, <4>2, <4>3 DEF BackupsTaken, Whole
    <3> QED BY <1>5, <3>1, <3>2
  <2>4. UNCHANGED backups
    BY <1>5 DEF Snapshot, CopyFiles
  <2>5. Listed' = Listed
    BY <2>4 DEF Listed
  <2>6. BackupsTyped'
    BY <1>1, <2>3, <2>4 DEF BackupsTyped
  <2>7. BackupsTaken'
    BY <1>1, <2>1, <2>2, <2>3, <2>4, <2>5 DEF BackupsTaken, Whole
  <2> QED BY <1>3, <2>5, <2>6, <2>7
<1>6. CASE PromoteManifest
  <2>1. PICK j \in JobRecords : j = backupJob /\ j.pc = "manifest"
    BY <1>2, <1>6 DEF BackupsTyped, PromoteManifest
  <2>2. /\ j # Nothing /\ j.rows \subseteq rows /\ j.files \subseteq originals
        /\ j.rows \subseteq LedgerRows /\ j.files \subseteq Documents
        /\ Whole(j.rows, j.files)
        /\ \A b \in Listed : b.createdAt # j.createdAt
    BY <2>1, JobFields DEF BackupsTaken
  <2> DEFINE promoted(b) == [b EXCEPT !.rows = j.rows, !.files = j.files, !.manifest = TRUE]
  <2>3. ASSUME NEW b \in BackupRecords
        PROVE  /\ promoted(b) \in BackupRecords /\ promoted(b).createdAt = b.createdAt
               /\ promoted(b).rows = j.rows /\ promoted(b).files = j.files
    BY <2>2 DEF BackupRecords
  <2>4. backups' = {IF b.createdAt = j.createdAt THEN promoted(b) ELSE b : b \in backups}
        /\ backupJob' = Nothing
    BY <1>6, <2>1 DEF PromoteManifest, Job
  <2> HIDE DEF promoted
  <2>5. \A x \in backups' : \/ x \in backups /\ x.createdAt # j.createdAt
                           \/ \E b \in backups : x = promoted(b)
    BY <2>4
  <2>6. Listed \subseteq Listed'
    BY <2>2, <2>4 DEF Listed
  <2>7. BackupsTyped'
    BY <1>1, <2>3, <2>4, <2>5 DEF BackupsTyped
  <2>8. \A x \in backups' : x.rows \subseteq rows /\ x.files \subseteq originals
    BY <2>2, <2>3, <2>5 DEF BackupsTyped, BackupsTaken
  <2>9. \A x \in Listed' : Whole(x.rows, x.files)
    BY <2>2, <2>3, <2>5 DEF BackupsTyped, BackupsTaken, Listed
  <2>10. BackupsTaken'
    BY <1>1, <2>4, <2>8, <2>9 DEF BackupsTaken
  <2> QED BY <1>3, <2>6, <2>7, <2>10
<1>7. CASE CrashBackup
  <2>1. backupJob' = Nothing /\ UNCHANGED backups
    BY <1>7 DEF CrashBackup, Job
  <2>2. Listed' = Listed
    BY <2>1 DEF Listed
  <2> QED BY <1>1, <1>3, <2>1, <2>2 DEF BackupsTyped, BackupsTaken
<1> QED BY <1>4, <1>5, <1>6, <1>7

-----------------------------------------------------------------------------
(* Restores.                                                                *)

LEMMA RestoreKeeps ==
  ASSUME BackupsInv, NEW r \in Restorers,
         \/ \E b \in Listed : BeginRestore(r, b)
         \/ BuildStaging(r) \/ RemoveTarget(r) \/ RenameStaging(r)
         \/ AbandonRestore(r)
         \/ \E allowed \in BOOLEAN : Recheck(r, allowed)
  PROVE  BackupsInv'
<1> USE DEF BackupsInv
<1>1. UNCHANGED <<now, originals, rows, backups, backupJob>>
  BY DEF BeginRestore, BuildStaging, RemoveTarget, RenameStaging, AbandonRestore, Recheck
<1>2. Listed' = Listed /\ \A rs, fs : FromListed(rs, fs)' <=> FromListed(rs, fs)
  BY <1>1 DEF Listed, FromListed
<1>3. BackupsTaken'
  BY <1>1, <1>2 DEF BackupsTaken, Whole
<1>4. Nothing.pc = "none"
  BY DEF Nothing
<1>5. ASSUME NEW s \in RestoreRecords \union {Nothing}, restores' = [restores EXCEPT ![r] = s],
             s.pc = "staging" => s.backup \in Listed,
             s.pc \in {"built", "remove", "rename"} => FromListed(s.rows, s.files),
             restoreTarget' \in TargetRecords,
             restoreTarget'.kind = "company" => FromListed(restoreTarget'.rows, restoreTarget'.files)
      PROVE  BackupsInv'
  <2>1. BackupsTyped'
    BY <1>1, <1>5 DEF BackupsTyped
  <2>2. ASSUME NEW q \in Restorers
        PROVE  /\ restores'[q].pc = "staging" => restores'[q].backup \in Listed
               /\ restores'[q].pc \in {"built", "remove", "rename"} =>
                    FromListed(restores'[q].rows, restores'[q].files)
    <3>1. CASE q = r
      BY <1>5, <3>1 DEF BackupsTyped
    <3>2. CASE q # r
      <4>1. restores'[q] = restores[q]
        BY <1>5, <3>2 DEF BackupsTyped
      <4> QED BY <4>1 DEF RestoresFromListed
    <3> QED BY <3>1, <3>2
  <2>3. RestoresFromListed'
    BY <1>1, <1>2, <1>5, <2>2 DEF RestoresFromListed, FromListed
  <2> QED BY <1>3, <2>1, <2>3
<1>6. restoreTarget \in TargetRecords
      /\ (restoreTarget.kind = "company" => FromListed(restoreTarget.rows, restoreTarget.files))
  BY DEF BackupsTyped, RestoresFromListed
<1>7. ASSUME NEW b \in Listed, BeginRestore(r, b) PROVE BackupsInv'
  <2>1. PICK s : s = [pc |-> "staging", backup |-> b, rows |-> {}, files |-> {}]
    OBVIOUS
  <2>2. s \in RestoreRecords /\ s.pc = "staging" /\ s.backup = b
    BY <2>1 DEF RestoreRecords, Listed, BackupsTyped
  <2>3. restores' = [restores EXCEPT ![r] = s] /\ UNCHANGED restoreTarget
    BY <1>7, <2>1 DEF BeginRestore, Restore
  <2> QED BY <1>5, <1>6, <2>2, <2>3
<1>8. PICK s : s = restores[r]
  OBVIOUS
<1>9. s.pc # "none" => s \in RestoreRecords /\ s # Nothing
  BY <1>4, <1>8, RestoreFields DEF BackupsTyped
<1>10. CASE BuildStaging(r)
  <2>1. s \in RestoreRecords /\ s.backup \in Listed
    BY <1>8, <1>9, <1>10 DEF BuildStaging, RestoresFromListed
  <2>2. PICK b \in Listed : b = s.backup
    BY <2>1
  <2>3. b.rows \subseteq LedgerRows /\ b.files \subseteq Documents
    BY BackupFields DEF Listed, BackupsTyped
  <2>4. PICK n : n = [s EXCEPT !.pc = "built", !.rows = b.rows, !.files = b.files]
    OBVIOUS
  <2>5. n \in RestoreRecords /\ n.pc = "built" /\ n.rows = b.rows /\ n.files = b.files
    BY <2>1, <2>3, <2>4 DEF RestoreRecords
  <2>6. restores' = [restores EXCEPT ![r] = n] /\ UNCHANGED restoreTarget
    BY <1>8, <1>10, <2>2, <2>4 DEF BuildStaging, Restore
  <2> QED BY <1>5, <1>6, <2>5, <2>6 DEF FromListed
<1>11. CASE RemoveTarget(r)
  <2>1. s \in RestoreRecords /\ FromListed(s.rows, s.files)
    BY <1>8, <1>9, <1>11 DEF RemoveTarget, RestoresFromListed
  <2>2. PICK n : n = [s EXCEPT !.pc = "rename"]
    OBVIOUS
  <2>3. n \in RestoreRecords /\ n.pc = "rename" /\ n.rows = s.rows /\ n.files = s.files
    BY <2>1, <2>2 DEF RestoreRecords
  <2>4. PICK t : t = [kind |-> "absent"]
    OBVIOUS
  <2>5. t \in TargetRecords /\ t.kind # "company"
    BY <2>4 DEF TargetRecords
  <2>6. restores' = [restores EXCEPT ![r] = n] /\ restoreTarget' = t
    BY <1>8, <1>11, <2>2, <2>4 DEF RemoveTarget, Restore
  <2> QED BY <1>5, <2>1, <2>3, <2>5, <2>6
<1>12. CASE RenameStaging(r)
  <2>1. s \in RestoreRecords /\ FromListed(s.rows, s.files)
    BY <1>8, <1>9, <1>12 DEF RenameStaging, RestoresFromListed
  <2>2. PICK t : t = [kind |-> "company", rows |-> s.rows, files |-> s.files]
    OBVIOUS
  <2>3. t \in TargetRecords /\ t.rows = s.rows /\ t.files = s.files
    <3>1. s.rows \subseteq LedgerRows /\ s.files \subseteq Documents
      BY <2>1, RestoreFields
    <3> QED BY <2>2, <3>1 DEF TargetRecords
  <2>4. restores' = [restores EXCEPT ![r] = Nothing]
        /\ (restoreTarget' = t \/ UNCHANGED restoreTarget)
    BY <1>8, <1>12, <2>2 DEF RenameStaging, Restore
  <2> QED BY <1>4, <1>5, <1>6, <2>1, <2>3, <2>4
<1>13. CASE AbandonRestore(r)
  BY <1>4, <1>5, <1>6, <1>13 DEF AbandonRestore, Restore
<1>14. ASSUME NEW allowed \in BOOLEAN, Recheck(r, allowed) PROVE BackupsInv'
  <2>1. s \in RestoreRecords /\ FromListed(s.rows, s.files)
    BY <1>8, <1>9, <1>14 DEF Recheck, RestoresFromListed
  <2>2. ASSUME NEW pc \in {"rename", "remove"}
        PROVE  /\ [s EXCEPT !.pc = pc] \in RestoreRecords
               /\ [s EXCEPT !.pc = pc].rows = s.rows /\ [s EXCEPT !.pc = pc].files = s.files
               /\ [s EXCEPT !.pc = pc].pc = pc
    BY <2>1 DEF RestoreRecords
  <2>3. /\ UNCHANGED restoreTarget
        /\ \/ restores' = [restores EXCEPT ![r] = Nothing]
           \/ \E pc \in {"rename", "remove"} :
                restores' = [restores EXCEPT ![r] = [s EXCEPT !.pc = pc]]
    BY <1>8, <1>14 DEF Recheck, Restore
  <2>4. CASE restores' = [restores EXCEPT ![r] = Nothing]
    BY <1>4, <1>5, <1>6, <2>3, <2>4
  <2>5. ASSUME NEW pc \in {"rename", "remove"},
               restores' = [restores EXCEPT ![r] = [s EXCEPT !.pc = pc]]
        PROVE  BackupsInv'
    <3>1. PICK n : n = [s EXCEPT !.pc = pc]
      OBVIOUS
    <3>2. n \in RestoreRecords /\ n.rows = s.rows /\ n.files = s.files /\ n.pc = pc
      BY <2>2, <3>1
    <3> QED BY <1>5, <1>6, <2>1, <2>3, <2>5, <3>1, <3>2
  <2> QED BY <2>3, <2>4, <2>5
<1> QED BY <1>7, <1>10, <1>11, <1>12, <1>13, <1>14

LEMMA BackupsStep ==
  ASSUME BackupsAssumption, BackupsInv, [BackupsNext]_backupsVars
  PROVE  BackupsInv'
<1>1. CASE UseTarget
  <2>1. PICK t : restoreTarget' = t /\ (t = [kind |-> "empty"] \/ t = [kind |-> "files"])
    BY <1>1 DEF UseTarget
  <2>2. t \in TargetRecords /\ t.kind # "company"
    BY <2>1 DEF TargetRecords
  <2>3. UNCHANGED <<now, originals, rows, backups, backupJob, restores>>
    BY <1>1 DEF UseTarget
  <2> QED BY <2>1, <2>2, <2>3 DEF BackupsInv, BackupsTyped, BackupsTaken, RestoresFromListed,
                                  FromListed, Listed, Whole
<1>2. CASE UNCHANGED backupsVars
  BY <1>2 DEF BackupsInv, BackupsTyped, BackupsTaken, RestoresFromListed, FromListed, Listed,
              Whole, backupsVars
<1> QED BY <1>1, <1>2, BookkeepingKeeps, BackupKeeps, RestoreKeeps DEF BackupsNext

(* The invariant of backups and restores (BackupsSpec).                     *)
THEOREM BackupsInvariant == BackupsSpec => []BackupsInv
<1>1. BackupsInit => BackupsInv
  <2> SUFFICES ASSUME BackupsInit PROVE BackupsInv
    OBVIOUS
  <2>1. Nothing.pc = "none"
    BY DEF Nothing
  <2>2. restoreTarget \in TargetRecords /\ restoreTarget.kind = "absent"
    BY DEF BackupsInit, TargetRecords
  <2>3. BackupsTyped
    BY <2>2, BackupsAssumption DEF BackupsInit, BackupsTyped, BackupsAssumption
  <2>4. BackupsTaken /\ RestoresFromListed
    BY <2>1, <2>2 DEF BackupsInit, BackupsTaken, RestoresFromListed, Listed, Whole
  <2> QED BY <2>3, <2>4 DEF BackupsInv
<1>2. BackupsInv /\ [BackupsNext]_backupsVars => BackupsInv'
  BY BackupsStep, BackupsAssumption
<1> QED BY <1>1, <1>2, PTL DEF BackupsSpec

(* A restored company has the rows of one finished backup and the file of   *)
(* every document among them, for any number of documents and restorers and *)
(* wherever a backup or a restore stops (system-backups.ts,                 *)
(* system-restore.ts).                                                      *)
THEOREM RestoredAreWhole == BackupsSpec => []RestoredIsWhole
<1>1. BackupsInv => RestoredIsWhole
  BY DEF BackupsInv, BackupsTaken, RestoresFromListed, FromListed, Whole, RestoredIsWhole
<1> QED BY <1>1, BackupsInvariant, PTL

(* Rows, files, backups and restores have their types, and every backup has *)
(* only rows and files the company has.                                     *)
THEOREM BackupsTypes == BackupsSpec => []BackupsTypeOK
<1>1. BackupsInv => BackupsTypeOK
  <2> SUFFICES ASSUME BackupsInv PROVE BackupsTypeOK
    OBVIOUS
  <2>1. \A r \in rows : r.item \in Documents \union BankLines /\ r.at \in 1 .. MaxTime
    <3>1. rows \subseteq LedgerRows
      BY DEF BackupsInv, BackupsTyped
    <3> QED BY <3>1 DEF LedgerRows
  <2>2. restoreTarget.kind \in {"absent", "empty", "files", "company"}
    <3>1. restoreTarget \in TargetRecords
      BY DEF BackupsInv, BackupsTyped
    <3> QED BY <3>1 DEF TargetRecords
  <2>3. ASSUME NEW r \in Restorers
        PROVE  restores[r].pc \in {"none", "staging", "built", "remove", "rename"}
    <3>1. restores[r] \in RestoreRecords \union {Nothing}
      BY DEF BackupsInv, BackupsTyped
    <3> QED BY <3>1 DEF RestoreRecords, Nothing
  <2> QED
    BY <2>1, <2>2, <2>3 DEF BackupsInv, BackupsTyped, BackupsTaken, BackupsTypeOK
<1> QED BY <1>1, BackupsInvariant, PTL

-----------------------------------------------------------------------------
(* The workspace as a whole: the components around the ledgers, side by side. *)

(* A behaviour of the workspace as a whole is, seen through the variables of  *)
(* one component, a behaviour of that component: its own step, or none.     *)
LEMMA WorkspaceRunsItsParts ==
  WorkspaceSpec =>
    /\ WorkspaceAccessSpec
    /\ ServiceCredentialsSpec
    /\ DocumentIntakeSpec
    /\ BackupsSpec
    /\ PublicEInvoiceSpec
    /\ ConsolidationSpec
<1>1. WorkspaceSpec => WorkspaceAccessSpec
  <2>1. WorkspaceInit => WorkspaceAccessInit
    BY DEF WorkspaceInit
  <2>2. [WorkspaceNext]_workspaceVars => [WorkspaceAccessNext]_workspaceAccessVars
    BY DEF WorkspaceNext, workspaceVars
  <2> QED BY <2>1, <2>2, PTL DEF WorkspaceSpec, WorkspaceAccessSpec
<1>2. WorkspaceSpec => ServiceCredentialsSpec
  <2>1. WorkspaceInit => ServiceCredentialsInit
    BY DEF WorkspaceInit
  <2>2. [WorkspaceNext]_workspaceVars => [ServiceCredentialsNext]_serviceCredentialsVars
    BY DEF WorkspaceNext, workspaceVars
  <2> QED BY <2>1, <2>2, PTL DEF WorkspaceSpec, ServiceCredentialsSpec
<1>3. WorkspaceSpec => DocumentIntakeSpec
  <2>1. WorkspaceInit => DocumentIntakeInit
    BY DEF WorkspaceInit
  <2>2. [WorkspaceNext]_workspaceVars => [DocumentIntakeNext]_documentVars
    BY DEF WorkspaceNext, workspaceVars
  <2> QED BY <2>1, <2>2, PTL DEF WorkspaceSpec, DocumentIntakeSpec
<1>4. WorkspaceSpec => BackupsSpec
  <2>1. WorkspaceInit => BackupsInit
    BY DEF WorkspaceInit
  <2>2. [WorkspaceNext]_workspaceVars => [BackupsNext]_backupsVars
    BY DEF WorkspaceNext, workspaceVars
  <2> QED BY <2>1, <2>2, PTL DEF WorkspaceSpec, BackupsSpec
<1>5. WorkspaceSpec => PublicEInvoiceSpec
  <2>1. WorkspaceInit => PublicEInvoiceInit
    BY DEF WorkspaceInit
  <2>2. [WorkspaceNext]_workspaceVars => [PublicEInvoiceNext]_publicEInvoiceVars
    BY DEF WorkspaceNext, workspaceVars
  <2> QED BY <2>1, <2>2, PTL DEF WorkspaceSpec, PublicEInvoiceSpec
<1>6. WorkspaceSpec => ConsolidationSpec
  <2>1. WorkspaceInit => ConsolidationInit
    BY DEF WorkspaceInit
  <2>2. [WorkspaceNext]_workspaceVars => [ConsolidationNext]_consolidationVars
    BY DEF WorkspaceNext, workspaceVars
  <2> QED BY <2>1, <2>2, PTL DEF WorkspaceSpec, ConsolidationSpec
<1> QED BY <1>1, <1>2, <1>3, <1>4, <1>5, <1>6

(* Every component's tables have their types in every state of the whole.   *)
THEOREM WorkspaceTypes == WorkspaceSpec => []WorkspaceTypeOK
<1>1. /\ WorkspaceAccessTypeOK
      /\ ServiceCredentialsTypeOK
      /\ DocumentIntakeTypeOK
      /\ BackupsTypeOK
      /\ PublicEInvoiceTypeOK
      /\ ConsolidationTypeOK
      => WorkspaceTypeOK
  BY DEF WorkspaceTypeOK
<1> QED
  BY <1>1, WorkspaceRunsItsParts, AccessTypes, CredentialsTypes,
     IntakeTypes, BackupsTypes, PublicEInvoiceTypes, ConsolidationTypes,
     PTL

(* What the components around the ledgers promise, every one of them in     *)
(* every behaviour of the workspace.                                        *)
THEOREM WorkspaceStands ==
  WorkspaceSpec =>
    /\ []OneFirstIdentity
    /\ []NoSurpriseKey
    /\ OwnersRemain
    /\ []IntakeIsComplete
    /\ []RestoredIsWhole
    /\ []TakenOnce
    /\ []EliminationsWereTrue
<1> QED
  BY WorkspaceRunsItsParts, FirstIdentityIsTheOnlyOne,
     SettledKeysAreSettled, OwnersStay, IntakeStaysComplete,
     RestoredAreWhole, DocumentsAreTakenOnce, EliminationsAreTrue, PTL
=============================================================================
