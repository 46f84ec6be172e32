---------------------------- MODULE Idempotency ----------------------------
(***************************************************************************)
(* Local mutations under a client's idempotency key                        *)
(* (src/core/idempotency.ts).  The executor owns one BEGIN IMMEDIATE       *)
(* transaction: the business write, the tombstone of the key and the       *)
(* recorded outcome commit together or not at all.  A client that does not *)
(* learn the answer asks again with the same key; retention deletes        *)
(* outcomes and keeps tombstones.                                          *)
(***************************************************************************)
EXTENDS Integers, Sequences, FiniteSets

CONSTANTS
  Clients,      \* processes that call; several may act for one principal
  RequestKeys,  \* idempotency keys
  Requests,     \* validated payloads of the operation
  PrincipalOf,  \* the authenticated principal of each client
  Retention,    \* IDEMPOTENCY_RETENTION_DAYS
  MaxDay,       \* bound on the clock
  MaxTries      \* bound on the calls of a client

ASSUME IdempotencyAssumption ==
  Retention \in Nat /\ MaxDay \in Nat /\ MaxTries \in Nat \ {0}

CallingPrincipals == {PrincipalOf[c] : c \in Clients}

VARIABLES
  today,       \* the clock of the server
  tombstones,  \* mutation_idempotency_tombstones
  outcomes,    \* mutation_idempotency_outcomes: the tombstones that have one
  effects,     \* the business writes that were committed
  calls        \* what each client asks, how often it did, and the answer

idempotencyVars == <<today, tombstones, outcomes, effects, calls>>

NoCall == [status |-> "idle"]

(* The tombstone of a key: one per key and principal, in this ledger.       *)
Prior(c) == {t \in tombstones : t.key = calls[c].key /\ t.principal = PrincipalOf[c]}

Answer(c, status) == calls' = [calls EXCEPT ![c].status = status]

(* A client decides on a mutation and a key; another client of the same     *)
(* principal may use the key for something else.                            *)
Decide(c, key, request) ==
  /\ calls[c] = NoCall
  /\ calls' = [calls EXCEPT ![c] =
                 [status |-> "asked", key |-> key, request |-> request, tries |-> 1]]
  /\ UNCHANGED <<today, tombstones, outcomes, effects>>

(* executeLocalIdempotentMutation, the first call with this key: the        *)
(* business write succeeds and is recorded ...                              *)
Execute(c) ==
  LET t == [key |-> calls[c].key, principal |-> PrincipalOf[c],
            request |-> calls[c].request, expires |-> today + Retention]
  IN /\ calls[c].status = "asked"
     /\ Prior(c) = {}
     /\ tombstones' = tombstones \union {t}
     /\ outcomes' = outcomes \union {t}
     /\ effects' = Append(effects, [t |-> t, client |-> c])
     /\ Answer(c, "ok")
     /\ UNCHANGED today

(* ... or it is rejected by the domain: everything is rolled back.          *)
Refuse(c) ==
  /\ calls[c].status = "asked"
  /\ Prior(c) = {}
  /\ Answer(c, "rejected")
  /\ UNCHANGED <<today, tombstones, outcomes, effects>>

(* A mutant of Replay: the payload is not compared.                         *)
ReplayAny(c) ==
  /\ calls[c].status = "asked"
  /\ \E t \in Prior(c) : Answer(c, IF t \in outcomes THEN "ok" ELSE "expired")
  /\ UNCHANGED <<today, tombstones, outcomes, effects>>

(* The key is known: the recorded outcome, unless the payload differs or    *)
(* the outcome was pruned.                                                  *)
Replay(c) ==
  /\ calls[c].status = "asked"
  /\ \E t \in Prior(c) :
       Answer(c, IF t.request # calls[c].request THEN "conflict"
                 ELSE IF t \in outcomes THEN "ok" ELSE "expired")
  /\ UNCHANGED <<today, tombstones, outcomes, effects>>

(* The process dies inside the transaction, or the answer is lost: the      *)
(* client cannot tell which and asks again.  A rejection may be retried too *)
AskAgain(c) ==
  /\ calls[c].status \in {"asked", "ok", "rejected"}
  /\ calls[c].tries < MaxTries
  /\ calls' = [calls EXCEPT ![c].status = "asked", ![c].tries = @ + 1]
  /\ UNCHANGED <<today, tombstones, outcomes, effects>>

(* A mutant of PruneOutcomes: the tombstones go with the outcomes.          *)
PruneTombstones ==
  /\ \E t \in outcomes : t.expires <= today
  /\ outcomes' = {t \in outcomes : t.expires > today}
  /\ tombstones' = {t \in tombstones : t.expires > today}
  /\ UNCHANGED <<today, effects, calls>>

(* pruneExpiredIdempotencyOutcomes                                          *)
PruneOutcomes ==
  /\ \E t \in outcomes : t.expires <= today
  /\ outcomes' = {t \in outcomes : t.expires > today}
  /\ UNCHANGED <<today, tombstones, effects, calls>>

Tomorrow ==
  /\ today < MaxDay
  /\ today' = today + 1
  /\ UNCHANGED <<tombstones, outcomes, effects, calls>>

-----------------------------------------------------------------------------

IdempotencyInit ==
  /\ today = 0
  /\ tombstones = {}
  /\ outcomes = {}
  /\ effects = <<>>
  /\ calls = [c \in Clients |-> NoCall]

IdempotencyNext ==
  \/ \E c \in Clients :
       \/ \E key \in RequestKeys, request \in Requests : Decide(c, key, request)
       \/ Execute(c)
       \/ Refuse(c)
       \/ Replay(c)
       \/ AskAgain(c)
  \/ PruneOutcomes
  \/ Tomorrow

IdempotencySpec == IdempotencyInit /\ [][IdempotencyNext]_idempotencyVars

-----------------------------------------------------------------------------
(* Properties.                                                              *)

Tombstones ==
  [key : RequestKeys, principal : CallingPrincipals, request : Requests,
   expires : Retention..(MaxDay + Retention)]

IdempotencyTypeOK ==
  /\ today \in 0..MaxDay
  /\ tombstones \subseteq Tombstones
  /\ outcomes \subseteq tombstones
  /\ effects \in Seq([t : Tombstones, client : Clients])
  /\ calls \in [Clients -> {NoCall} \union
       [status : {"asked", "ok", "rejected", "conflict", "expired"},
        key : RequestKeys, request : Requests, tries : 1..MaxTries]]

(* However often a call is repeated, by however many clients of the         *)
(* principal, and however much time passes between the tries, a key takes   *)
(* effect at most once; a client that is told "ok" asked for what took      *)
(* effect, and one that is told "expired" knows that it did.                *)
EffectOnce ==
  /\ \A i, j \in DOMAIN effects :
       effects[i].t.key = effects[j].t.key
         /\ effects[i].t.principal = effects[j].t.principal => i = j
  /\ \A c \in Clients :
       calls[c].status \in {"ok", "expired"} =>
         \E i \in DOMAIN effects :
           /\ effects[i].t.key = calls[c].key
           /\ effects[i].t.principal = PrincipalOf[c]
           /\ effects[i].t.request = calls[c].request

=============================================================================
