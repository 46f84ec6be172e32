------------------------- MODULE ServiceCredentials -------------------------
(***************************************************************************)
(* Credentials of service accounts                                         *)
(* (src/core/workspace-service-principals.ts): create, rotate and revoke   *)
(* are sagas over the API key provider and the control database, and a     *)
(* recovery ends one that was cut short.                                   *)
(*                                                                         *)
(* A key bears the marker of the operation that asked for it, so a key is  *)
(* identified here by its operation.  All operations are on one account.   *)
(***************************************************************************)
EXTENDS Integers, Sequences

CONSTANTS
  Operations,    \* operation ids, each also the key made for it
  Recoverers,    \* processes that recover operations
  MaxClaims,     \* bound on the claims of recoverers
  NoCredential   \* no credential

ASSUME ServiceCredentialsAssumption == MaxClaims \in Nat /\ NoCredential \notin Operations

VARIABLES
  events,      \* operation events of each operation: status and claim
  target,      \* type of each operation and the credential it acts on
  step,        \* where the process of each operation is
  keys,        \* enabled keys at the provider
  disabled,    \* keys the provider made and has disabled
  recovering,  \* what each recoverer is at, and its claim
  claims,      \* claims handed out so far, some of whose leases are over
  early        \* operations claimed while their key was still to be issued: the
               \* code does not keep it, the properties speak of it

serviceCredentialsVars ==
  <<events, target, step, keys, disabled, recovering, claims, early>>

-----------------------------------------------------------------------------
(* The event log of an operation.                                           *)

Event(s, claim) == [status |-> s, claim |-> claim]

LatestEvent(op) ==
  IF events[op] = <<>> THEN Event("none", 0) ELSE events[op][Len(events[op])]

Status(op) == LatestEvent(op).status

AppendStatus(op, s, claim) ==
  events' = [events EXCEPT ![op] = Append(@, Event(s, claim))]

DisableKey(k) ==
  /\ keys' = keys \ {k}
  /\ disabled' = IF k \in keys THEN disabled \union {k} ELSE disabled

-----------------------------------------------------------------------------
(* The operations.                                                          *)

(* beginOperation: an operation id is used once.                            *)
Begin(op, type, k) ==
  /\ events[op] = <<>>
  /\ IF type = "create" THEN k = NoCredential ELSE k \in keys \union disabled
  /\ AppendStatus(op, "pending", 0)
  /\ target' = [target EXCEPT ![op] = [type |-> type, credential |-> k]]
  /\ step' = [step EXCEPT ![op] = IF type = "revoke" THEN "disable" ELSE "issue"]
  /\ UNCHANGED <<keys, disabled, recovering, claims, early>>

(* createApiKey                                                             *)
IssueKey(op) ==
  /\ step[op] = "issue"
  /\ keys' = keys \union {op}
  /\ step' = [step EXCEPT ![op] = IF target[op].type = "rotate" THEN "disable" ELSE "finish"]
  /\ UNCHANGED <<events, target, disabled, recovering, claims, early>>

(* disable of the old credential                                            *)
DisableOld(op) ==
  /\ step[op] = "disable"
  /\ DisableKey(target[op].credential)
  /\ step' = [step EXCEPT ![op] = "finish"]
  /\ UNCHANGED <<events, target, recovering, claims, early>>

(* The audit events and the event completed, in one transaction.            *)
Complete(op) ==
  /\ step[op] = "finish"
  /\ AppendStatus(op, "completed", 0)
  /\ step' = [step EXCEPT ![op] = "ended"]
  /\ UNCHANGED <<target, keys, disabled, recovering, claims, early>>

(* An error of the provider or the database.  Rotation disables the new key *)
(* if it can.                                                               *)
Fail(op, compensated) ==
  /\ step[op] \in {"issue", "disable", "finish"}
  /\ compensated => target[op].type = "rotate" /\ step[op] # "issue"
  /\ IF compensated THEN DisableKey(op) ELSE UNCHANGED <<keys, disabled>>
  /\ AppendStatus(op, "failed", 0)
  /\ step' = [step EXCEPT ![op] = "ended"]
  /\ UNCHANGED <<target, recovering, claims, early>>

(* SimulatedCrash, and the real ones.                                       *)
Crash(op) ==
  /\ step[op] \in {"issue", "disable", "finish"}
  /\ step' = [step EXCEPT ![op] = "ended"]
  /\ UNCHANGED <<events, target, keys, disabled, recovering, claims, early>>

-----------------------------------------------------------------------------
(* Recovery.                                                                *)

Resting == [op |-> NoCredential, claim |-> 0, scanned |-> {}]

(* The claim.  A claim within its lease is respected; leases run out at any *)
(* time.  A failed operation may be claimed too, and so may one whose call  *)
(* is still under way: nothing here tells it from a call that was cut short.*)
ClaimRecovery(r, op) ==
  /\ recovering[r] = Resting
  /\ Status(op) \in {"pending", "failed", "recovering"}
  /\ claims < MaxClaims
  /\ claims' = claims + 1
  /\ AppendStatus(op, "recovering", claims')
  /\ recovering' = [recovering EXCEPT ![r] =
       [op |-> op, claim |-> claims',
        scanned |-> IF target[op].type = "revoke" THEN keys \intersect {target[op].credential}
                    ELSE keys \intersect {op}]]
  /\ early' = IF step[op] = "issue" THEN early \union {op} ELSE early
  /\ UNCHANGED <<target, step, keys, disabled>>

(* disable of what the scan found                                           *)
DisableFound(r) ==
  /\ \E k \in recovering[r].scanned :
       /\ DisableKey(k)
       /\ recovering' = [recovering EXCEPT ![r].scanned = @ \ {k}]
  /\ UNCHANGED <<events, target, step, claims, early>>

(* A mutant of FinishRecovery: an interrupted rotation counts as recovered  *)
(* although the disabling of its key failed.                                *)
FinishAnyway(r) ==
  LET op == recovering[r].op
  IN /\ recovering[r] # Resting
     /\ LatestEvent(op) = Event("recovering", recovering[r].claim)
     /\ IF target[op].type = "revoke"
        THEN AppendStatus(op, "completed", 0)
        ELSE events' = [events EXCEPT ![op] = @ \o <<Event("failed", 0), Event("recovered", 0)>>]
     /\ recovering' = [recovering EXCEPT ![r] = Resting]
     /\ UNCHANGED <<target, step, keys, disabled, claims, early>>

(* finishRecovered, or the end of a recovered revocation: only the holder   *)
(* of the latest claim.                                                     *)
FinishRecovery(r) ==
  LET op == recovering[r].op
  IN /\ recovering[r] # Resting /\ recovering[r].scanned = {}
     /\ LatestEvent(op) = Event("recovering", recovering[r].claim)
     /\ IF target[op].type = "revoke"
        THEN AppendStatus(op, "completed", 0)
        ELSE events' = [events EXCEPT ![op] = @ \o <<Event("failed", 0), Event("recovered", 0)>>]
     /\ recovering' = [recovering EXCEPT ![r] = Resting]
     /\ UNCHANGED <<target, step, keys, disabled, claims, early>>

(* A provider's error: finish("failed") if the claim is still its own.      *)
FailRecovery(r) ==
  LET op == recovering[r].op
  IN /\ recovering[r].scanned # {}
     /\ IF LatestEvent(op) = Event("recovering", recovering[r].claim)
        THEN AppendStatus(op, "failed", 0) ELSE UNCHANGED events
     /\ recovering' = [recovering EXCEPT ![r] = Resting]
     /\ UNCHANGED <<target, step, keys, disabled, claims, early>>

(* The process ends, or its claim has passed to another.                    *)
LeaveRecovery(r) ==
  /\ recovering[r] # Resting
  /\ recovering' = [recovering EXCEPT ![r] = Resting]
  /\ UNCHANGED <<events, target, step, keys, disabled, claims, early>>

-----------------------------------------------------------------------------

ServiceCredentialsInit ==
  /\ events = [op \in Operations |-> <<>>]
  /\ target = [op \in Operations |-> [type |-> "create", credential |-> NoCredential]]
  /\ step = [op \in Operations |-> "ended"]
  /\ keys = {} /\ disabled = {}
  /\ recovering = [r \in Recoverers |-> Resting]
  /\ claims = 0 /\ early = {}

ServiceCredentialsNext ==
  \/ \E op \in Operations :
       \/ \E type \in {"create", "rotate", "revoke"}, k \in Operations \union {NoCredential} :
            Begin(op, type, k)
       \/ IssueKey(op)
       \/ DisableOld(op)
       \/ Complete(op)
       \/ \E compensated \in BOOLEAN : Fail(op, compensated)
       \/ Crash(op)
  \/ \E r \in Recoverers :
       \/ \E op \in Operations : ClaimRecovery(r, op)
       \/ DisableFound(r)
       \/ FinishRecovery(r)
       \/ FailRecovery(r)
       \/ LeaveRecovery(r)

ServiceCredentialsSpec ==
  ServiceCredentialsInit /\ [][ServiceCredentialsNext]_serviceCredentialsVars

-----------------------------------------------------------------------------
(* Properties.                                                              *)

ServiceCredentialsTypeOK ==
  /\ keys \subseteq Operations /\ disabled \subseteq Operations
  /\ keys \intersect disabled = {}
  /\ \A op \in Operations :
       /\ step[op] \in {"issue", "disable", "finish", "ended"}
       /\ target[op].type \in {"create", "rotate", "revoke"}
       /\ target[op].credential \in Operations \union {NoCredential}
       /\ Status(op) \in {"none", "pending", "recovering", "failed", "recovered", "completed"}
  /\ \A r \in Recoverers : recovering[r].op \in Operations \union {NoCredential}
  /\ claims \in 0..MaxClaims /\ early \subseteq Operations

(* An operation that is settled has settled the provider's side as well: a  *)
(* recovered one leaves no key that works and whose secret nobody was ever  *)
(* given, unless a recovery claimed it before its key was issued, and a     *)
(* completed rotation or revocation leaves none of the credential it        *)
(* replaced - wherever the process stopped or still is, however many        *)
(* recoveries were tried at once, and however they failed.                  *)
NoSurpriseKey ==
  \A op \in Operations :
    /\ Status(op) = "recovered" /\ op \in keys => op \in early
    /\ Status(op) = "completed" => target[op].credential \notin keys

=============================================================================
