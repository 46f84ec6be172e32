---------------------------- MODULE OfficeProofs ----------------------------
(* Theorems about the components that keep the books of a company, and      *)
(* about the office as a whole.                                             *)
EXTENDS Office, LedgerProofs, Sums, SequenceTheorems, TLAPS

-----------------------------------------------------------------------------
(***************************************************************************)
(* Theorems about Idempotency for all clients, keys, payloads and bounds.  *)
(*                                                                         *)
(* That a key takes effect once is not inductive by itself: the executor   *)
(* looks at the tombstones, not at the effects.  The invariant says that   *)
(* the two are one and the same list, without repetition, whatever was     *)
(* pruned, and that every answer is backed by a tombstone.                 *)
(***************************************************************************)

AskedCalls ==
  [status : {"asked", "ok", "rejected", "conflict", "expired"},
   key : RequestKeys, request : Requests, tries : 1..MaxTries]

Effects == [t : Tombstones, client : Clients]

(* A key of a principal has one tombstone.                                  *)
OneTombstone ==
  \A t, u \in tombstones : t.key = u.key /\ t.principal = u.principal => t = u

(* The tombstones are those of the effects, each of its own.                *)
EffectsRemembered ==
  /\ \A i \in DOMAIN effects : effects[i].t \in tombstones
  /\ \A i, j \in DOMAIN effects : effects[i].t = effects[j].t => i = j
  /\ \A t \in tombstones : \E i \in DOMAIN effects : effects[i].t = t

(* Who was told that a key took effect asked for what its tombstone says.   *)
AnswersBacked ==
  \A c \in Clients :
    calls[c].status \in {"ok", "expired"} =>
      \E t \in tombstones :
        /\ t.key = calls[c].key
        /\ t.principal = PrincipalOf[c]
        /\ t.request = calls[c].request

IdempotencyInv ==
  /\ IdempotencyTypeOK /\ OneTombstone /\ EffectsRemembered /\ AnswersBacked

-----------------------------------------------------------------------------

LEMMA CallsTyped ==
  ASSUME IdempotencyTypeOK, NEW c \in Clients, calls[c].status # "idle"
  PROVE  calls[c] \in AskedCalls
BY DEF IdempotencyTypeOK, AskedCalls, NoCall

(* An answer changes the status of one call.                                *)
LEMMA AnswerTyped ==
  ASSUME IdempotencyTypeOK, NEW c \in Clients,
         NEW s \in {"asked", "ok", "rejected", "conflict", "expired"},
         calls[c].status # "idle", Answer(c, s)
  PROVE  /\ calls' \in [Clients -> {NoCall} \union AskedCalls]
         /\ calls'[c] = [calls[c] EXCEPT !.status = s]
         /\ \A b \in Clients \ {c} : calls'[b] = calls[b]
<1>1. calls[c] \in AskedCalls
  BY CallsTyped
<1>2. calls \in [Clients -> {NoCall} \union AskedCalls]
  BY DEF IdempotencyTypeOK, AskedCalls
<1>3. calls' = [calls EXCEPT ![c] = [calls[c] EXCEPT !.status = s]]
  BY <1>2 DEF Answer
<1>4. [calls[c] EXCEPT !.status = s] \in AskedCalls
  BY <1>1 DEF AskedCalls
<1> QED BY <1>2, <1>3, <1>4

(* A step that changes calls only, and gives one client a backed answer.    *)
LEMMA AnswerKeepsInv ==
  ASSUME IdempotencyInv, NEW c \in Clients,
         NEW s \in {"asked", "ok", "rejected", "conflict", "expired"},
         calls[c].status # "idle", Answer(c, s),
         UNCHANGED <<today, tombstones, outcomes, effects>>,
         s \in {"ok", "expired"} =>
           \E t \in Prior(c) : t.request = calls[c].request
  PROVE  IdempotencyInv'
<1>1. calls[c] \in AskedCalls /\ IdempotencyTypeOK
  BY CallsTyped DEF IdempotencyInv
<1>2. /\ calls' \in [Clients -> {NoCall} \union AskedCalls]
      /\ calls'[c] = [calls[c] EXCEPT !.status = s]
      /\ \A b \in Clients \ {c} : calls'[b] = calls[b]
  BY <1>1, AnswerTyped
<1>3. /\ calls'[c].status = s /\ calls'[c].key = calls[c].key
      /\ calls'[c].request = calls[c].request
  BY <1>1, <1>2 DEF AskedCalls
<1>4. IdempotencyTypeOK'
  BY <1>1, <1>2 DEF IdempotencyTypeOK, AskedCalls
<1>5. AnswersBacked'
  <2> SUFFICES ASSUME NEW b \in Clients, calls'[b].status \in {"ok", "expired"}
               PROVE  \E t \in tombstones :
                        /\ t.key = calls'[b].key
                        /\ t.principal = PrincipalOf[b]
                        /\ t.request = calls'[b].request
    BY DEF AnswersBacked
  <2>1. CASE b = c
    BY <1>3, <2>1 DEF Prior
  <2>2. CASE b # c
    BY <1>2, <2>2 DEF IdempotencyInv, AnswersBacked
  <2> QED BY <2>1, <2>2
<1> QED BY <1>4, <1>5 DEF IdempotencyInv, OneTombstone, EffectsRemembered

(* The business write and its tombstone.                                    *)
LEMMA ExecuteKeepsInv ==
  ASSUME IdempotencyInv, NEW c \in Clients, Execute(c)
  PROVE  IdempotencyInv'
<1> DEFINE t == [key |-> calls[c].key, principal |-> PrincipalOf[c],
                 request |-> calls[c].request, expires |-> today + Retention]
           e == [t |-> t, client |-> c]
<1>1. calls[c] \in AskedCalls /\ IdempotencyTypeOK
  BY CallsTyped DEF Execute, IdempotencyInv
<1>2. t \in Tombstones
  <2>1. today + Retention \in Retention..(MaxDay + Retention)
    BY <1>1, IdempotencyAssumption DEF IdempotencyTypeOK
  <2> QED BY <1>1, <2>1 DEF Tombstones, CallingPrincipals, AskedCalls
<1>3. /\ calls' \in [Clients -> {NoCall} \union AskedCalls]
      /\ calls'[c] = [calls[c] EXCEPT !.status = "ok"]
      /\ \A b \in Clients \ {c} : calls'[b] = calls[b]
  BY <1>1, AnswerTyped DEF Execute
<1>4. /\ tombstones' = tombstones \union {t} /\ outcomes' = outcomes \union {t}
      /\ effects' = Append(effects, e) /\ today' = today
  BY DEF Execute
<1>5. effects \in Seq(Effects) /\ effects' \in Seq(Effects)
  BY <1>1, <1>2, <1>4 DEF IdempotencyTypeOK, Effects
<1>6. \A u \in tombstones : u.key # t.key \/ u.principal # t.principal
  BY DEF Execute, Prior
<1>7. t \notin tombstones
  BY <1>6
<1> HIDE DEF t
<1>8. /\ DOMAIN effects' = DOMAIN effects \union {Len(effects) + 1}
      /\ Len(effects) + 1 \notin DOMAIN effects
      /\ \A i \in DOMAIN effects : effects'[i] = effects[i]
      /\ effects'[Len(effects) + 1].t = t
  BY <1>4, <1>5
<1>9. IdempotencyTypeOK'
  BY <1>1, <1>2, <1>3, <1>4, <1>5 DEF IdempotencyTypeOK, AskedCalls, Effects
<1>10. OneTombstone'
  BY <1>4, <1>6 DEF OneTombstone, IdempotencyInv
<1>11. EffectsRemembered'
  BY <1>4, <1>7, <1>8 DEF EffectsRemembered, IdempotencyInv
<1>12. AnswersBacked'
  <2> SUFFICES ASSUME NEW b \in Clients, calls'[b].status \in {"ok", "expired"}
               PROVE  \E u \in tombstones' :
                        /\ u.key = calls'[b].key
                        /\ u.principal = PrincipalOf[b]
                        /\ u.request = calls'[b].request
    BY DEF AnswersBacked
  <2>1. CASE b = c
    <3>1. calls'[c].key = calls[c].key /\ calls'[c].request = calls[c].request
      BY <1>1, <1>3 DEF AskedCalls
    <3> QED BY <1>4, <2>1, <3>1 DEF t
  <2>2. CASE b # c
    BY <1>3, <1>4, <2>2 DEF IdempotencyInv, AnswersBacked
  <2> QED BY <2>1, <2>2
<1> QED BY <1>9, <1>10, <1>11, <1>12 DEF IdempotencyInv

(* The invariant holds of every behaviour: tombstones, effects and answers  *)
(* agree whatever is retried, pruned or refused.                            *)
THEOREM IdempotencyInvariant == IdempotencySpec => []IdempotencyInv
<1>1. IdempotencyInit => IdempotencyInv
  <2> SUFFICES ASSUME IdempotencyInit PROVE IdempotencyInv
    OBVIOUS
  <2>1. IdempotencyTypeOK
    BY IdempotencyAssumption DEF IdempotencyInit, IdempotencyTypeOK
  <2> QED BY <2>1 DEF IdempotencyInit, IdempotencyInv, OneTombstone,
                      EffectsRemembered, AnswersBacked, NoCall
<1>2. IdempotencyInv /\ [IdempotencyNext]_idempotencyVars => IdempotencyInv'
  <2> SUFFICES ASSUME IdempotencyInv, [IdempotencyNext]_idempotencyVars
               PROVE  IdempotencyInv'
    OBVIOUS
  <2> USE DEF IdempotencyInv
  <2>1. ASSUME NEW c \in Clients, NEW key \in RequestKeys, NEW request \in Requests,
               Decide(c, key, request)
        PROVE  IdempotencyInv'
    <3> DEFINE asked == [status |-> "asked", key |-> key, request |-> request,
                         tries |-> 1]
    <3>1. calls' = [calls EXCEPT ![c] = asked]
          /\ UNCHANGED <<today, tombstones, outcomes, effects>>
      BY <2>1 DEF Decide
    <3>2. calls'[c].status = "asked" /\ \A b \in Clients \ {c} : calls'[b] = calls[b]
      BY <3>1 DEF IdempotencyTypeOK
    <3>3. asked \in AskedCalls
      BY IdempotencyAssumption DEF AskedCalls
    <3>4. IdempotencyTypeOK'
      BY <3>1, <3>3 DEF IdempotencyTypeOK, AskedCalls
    <3>5. AnswersBacked'
      BY <3>1, <3>2 DEF AnswersBacked
    <3> QED BY <3>1, <3>4, <3>5 DEF OneTombstone, EffectsRemembered
  <2>2. ASSUME NEW c \in Clients, Execute(c)
        PROVE  IdempotencyInv'
    BY <2>2, ExecuteKeepsInv
  <2>3. ASSUME NEW c \in Clients, Refuse(c)
        PROVE  IdempotencyInv'
    BY <2>3, AnswerKeepsInv DEF Refuse
  <2>4. ASSUME NEW c \in Clients, Replay(c)
        PROVE  IdempotencyInv'
    <3>1. PICK t \in Prior(c) :
            Answer(c, IF t.request # calls[c].request THEN "conflict"
                      ELSE IF t \in outcomes THEN "ok" ELSE "expired")
      BY <2>4 DEF Replay
    <3>2. CASE t.request # calls[c].request
      BY <2>4, <3>1, <3>2, AnswerKeepsInv DEF Replay
    <3>3. CASE t.request = calls[c].request /\ t \in outcomes
      BY <2>4, <3>1, <3>3, AnswerKeepsInv DEF Replay
    <3>4. CASE t.request = calls[c].request /\ t \notin outcomes
      BY <2>4, <3>1, <3>4, AnswerKeepsInv DEF Replay
    <3> QED BY <3>2, <3>3, <3>4
  <2>5. ASSUME NEW c \in Clients, AskAgain(c)
        PROVE  IdempotencyInv'
    <3> DEFINE asked == [calls[c] EXCEPT !.status = "asked"]
               again == [asked EXCEPT !.tries = asked.tries + 1]
    <3>1. calls[c] \in AskedCalls /\ calls[c].tries < MaxTries
      BY <2>5, CallsTyped DEF AskAgain
    <3>2. calls' = [calls EXCEPT ![c] = again]
          /\ UNCHANGED <<today, tombstones, outcomes, effects>>
      BY <2>5 DEF AskAgain, IdempotencyTypeOK
    <3>3. again \in AskedCalls /\ again.status = "asked"
      <4>1. calls[c].tries + 1 \in 1..MaxTries
        BY <3>1, IdempotencyAssumption DEF AskedCalls
      <4>2. asked \in AskedCalls /\ asked.tries = calls[c].tries
            /\ asked.status = "asked"
        BY <3>1 DEF AskedCalls
      <4> HIDE DEF asked
      <4> QED BY <4>1, <4>2 DEF AskedCalls
    <3>4. IdempotencyTypeOK'
      BY <3>2, <3>3 DEF IdempotencyTypeOK, AskedCalls
    <3>5. calls'[c].status = "asked" /\ \A b \in Clients \ {c} : calls'[b] = calls[b]
      BY <3>2, <3>3 DEF IdempotencyTypeOK
    <3>6. AnswersBacked'
      BY <3>2, <3>5 DEF AnswersBacked
    <3> QED BY <3>2, <3>4, <3>6 DEF OneTombstone, EffectsRemembered
  <2>6. CASE PruneOutcomes
    <3>1. /\ outcomes' \subseteq outcomes
          /\ UNCHANGED <<today, tombstones, effects, calls>>
      BY <2>6 DEF PruneOutcomes
    <3> QED BY <3>1 DEF IdempotencyTypeOK, OneTombstone, EffectsRemembered,
                        AnswersBacked
  <2>7. CASE Tomorrow
    <3>1. today' \in 0..MaxDay /\ UNCHANGED <<tombstones, outcomes, effects, calls>>
      BY <2>7, IdempotencyAssumption DEF Tomorrow, IdempotencyTypeOK
    <3> QED BY <3>1 DEF IdempotencyTypeOK, OneTombstone, EffectsRemembered,
                        AnswersBacked
  <2>8. CASE UNCHANGED idempotencyVars
    BY <2>8 DEF idempotencyVars, IdempotencyTypeOK, OneTombstone,
                EffectsRemembered, AnswersBacked
  <2> QED BY <2>1, <2>2, <2>3, <2>4, <2>5, <2>6, <2>7, <2>8 DEF IdempotencyNext
<1> QED BY <1>1, <1>2, PTL DEF IdempotencySpec

(* The clock, the tombstones, the outcomes and the calls have their types.  *)
THEOREM IdempotencyTypes == IdempotencySpec => []IdempotencyTypeOK
BY IdempotencyInvariant, PTL DEF IdempotencyInv

(* A key takes effect at most once and every answer is true, for any number *)
(* of clients, principals, keys and tries (executeLocalIdempotentMutation). *)
THEOREM KeysTakeEffectOnce == IdempotencySpec => []EffectOnce
<1>1. IdempotencyInv => EffectOnce
  BY DEF IdempotencyInv, OneTombstone, EffectsRemembered, AnswersBacked, EffectOnce
<1> QED BY <1>1, IdempotencyInvariant, PTL

-----------------------------------------------------------------------------
(***************************************************************************)
(* Theorems about Drafts for all drafts, actors and payloads, and registers*)
(* of any length.                                                          *)
(*                                                                         *)
(* The current event of a draft is the last of its events: that there is   *)
(* one is part of the invariant, since an append makes the next.  So are   *)
(* the two facts the reviewer's guard relies on, that a version has one    *)
(* payload and that a posted draft has no event after its posting.         *)
(***************************************************************************)

DraftRecords ==
  [draft : DraftIds, type : DraftEventTypes, version : Nat \ {0},
   payload : DraftPayloads, actor : Actors]

JournalRecords ==
  [draft : DraftIds, payload : DraftPayloads, named : Nat \ {0}, by : Actors]

IsCurrent(d, c) ==
  /\ c \in DraftEvents(d)
  /\ \A i \in DraftEvents(d) : i <= c /\ register[i].version <= register[c].version

DraftsTyped ==
  /\ register \in Seq(DraftRecords) /\ Len(register) <= MaxDraftEvents
  /\ postable \subseteq DraftPayloads
  /\ journals \in Seq(JournalRecords)
  /\ \A n \in DOMAIN journals : journals[n].named <= Len(register)

(* A draft that has events has a current one, of its highest version.       *)
DraftsHaveCurrent ==
  \A d \in DraftIds : DraftEvents(d) # {} => \E c \in DOMAIN register : IsCurrent(d, c)

VersionsHaveOnePayload ==
  \A d \in DraftIds : \A i, j \in DraftEvents(d) :
    register[i].version = register[j].version => register[i].payload = register[j].payload

(* The part of ReviewedIsPosted that is about one journal entry.            *)
Reviewed(j) ==
  LET e == register[j.named]
  IN /\ e.draft = j.draft /\ e.type = "submitted" /\ e.payload = j.payload
     /\ e.actor # j.by
     /\ \A i \in DraftEvents(j.draft) :
          /\ register[i].type \in {"created", "revised"} =>
               i < j.named /\ register[i].version <= e.version
          /\ register[i].type \in {"created", "revised"}
               /\ register[i].version = e.version =>
                 register[i].actor # j.by /\ register[i].payload = j.payload

PostedIsLast ==
  \A n \in DOMAIN journals : \A c \in DOMAIN register :
    IsCurrent(journals[n].draft, c) => register[c].type = "approved_posted"

DraftsInv ==
  /\ DraftsTyped /\ DraftsHaveCurrent /\ VersionsHaveOnePayload
  /\ PostedIsLast /\ ReviewedIsPosted

-----------------------------------------------------------------------------

LEMMA CurrentIsLast ==
  ASSUME DraftsTyped, DraftsHaveCurrent, NEW d \in DraftIds
  PROVE  /\ Current(d) = 0 <=> DraftEvents(d) = {}
         /\ Current(d) # 0 => Current(d) \in DOMAIN register /\ IsCurrent(d, Current(d))
<1>1. register \in Seq(DraftRecords) /\ DOMAIN register = 1..Len(register)
      /\ Len(register) \in Nat
  BY DEF DraftsTyped
<1>2. DraftEvents(d) \subseteq DOMAIN register /\ 0 \notin DraftEvents(d)
  BY <1>1 DEF DraftEvents
<1>3. CASE DraftEvents(d) = {}
  BY <1>3 DEF Current
<1>4. CASE DraftEvents(d) # {}
  <2>1. PICK c \in DraftEvents(d) : IsCurrent(d, c)
    BY <1>4 DEF DraftsHaveCurrent, IsCurrent
  <2>2. \A j \in DraftEvents(d) : j <= c
    BY <2>1 DEF IsCurrent
  <2>3. Current(d) = CHOOSE i \in DraftEvents(d) : \A j \in DraftEvents(d) : j <= i
    BY <1>4 DEF Current
  <2>4. Current(d) \in DraftEvents(d) /\ \A j \in DraftEvents(d) : j <= Current(d)
    BY <2>2, <2>3, Zenon
  <2>5. Current(d) = c
    BY <1>1, <1>2, <2>1, <2>2, <2>4
  <2> QED BY <1>2, <1>4, <2>1, <2>5
<1> QED BY <1>3, <1>4

(* The register after e, which is of draft d, has become its last event.    *)
RegisterGrows(d, e, last) ==
  /\ register' \in Seq(DraftRecords) /\ Len(register') = last
  /\ DOMAIN register' = DOMAIN register \union {last}
  /\ DOMAIN register = 1..Len(register) /\ Len(register) \in Nat
  /\ last = Len(register) + 1 /\ last <= MaxDraftEvents
  /\ \A i \in DOMAIN register : register'[i] = register[i] /\ i < last
  /\ register'[last] = e
  /\ DraftEvents(d)' = DraftEvents(d) \union {last}
  /\ \A x \in DraftIds \ {d} : DraftEvents(x)' = DraftEvents(x)

LEMMA Appended ==
  ASSUME DraftsTyped, NEW d \in DraftIds, NEW a \in Actors, NEW type \in DraftEventTypes,
         NEW version \in Nat \ {0}, NEW payload \in DraftPayloads,
         AppendDraftEvent(a, d, type, version, payload)
  PROVE  \E last \in Nat :
           RegisterGrows(d, [draft |-> d, type |-> type, version |-> version,
                             payload |-> payload, actor |-> a], last)
<1> DEFINE e == [draft |-> d, type |-> type, version |-> version,
                 payload |-> payload, actor |-> a]
<1>0. PICK last \in Nat : last = Len(register) + 1
  BY DEF DraftsTyped
<1>1. e \in DraftRecords /\ register \in Seq(DraftRecords) /\ register' = Append(register, e)
      /\ Len(register) < MaxDraftEvents
  BY DEF DraftRecords, DraftsTyped, AppendDraftEvent
<1>2. e.draft = d
  OBVIOUS
<1> HIDE DEF e
<1>3. /\ register' \in Seq(DraftRecords) /\ Len(register') = last
      /\ DOMAIN register = 1..Len(register) /\ Len(register) \in Nat
      /\ DOMAIN register' = 1..last
      /\ \A i \in DOMAIN register : register'[i] = register[i]
      /\ register'[last] = e
  BY <1>0, <1>1
<1>4. DOMAIN register' = DOMAIN register \union {last}
      /\ \A i \in DOMAIN register : i < last
  BY <1>0, <1>3
<1>5. last <= MaxDraftEvents
  BY <1>0, <1>1, <1>3, DraftsAssumption
<1>6. DraftEvents(d)' = DraftEvents(d) \union {last}
  BY <1>2, <1>3, <1>4 DEF DraftEvents
<1>7. \A x \in DraftIds \ {d} : DraftEvents(x)' = DraftEvents(x)
  BY <1>2, <1>3, <1>4 DEF DraftEvents
<1>8. RegisterGrows(d, e, last)
  BY <1>0, <1>3, <1>4, <1>5, <1>6, <1>7 DEF RegisterGrows
<1> QED BY <1>8 DEF e

-----------------------------------------------------------------------------

LEMMA ReviewedParts ==
  ReviewedIsPosted <=>
    \A n \in DOMAIN journals :
      /\ Reviewed(journals[n])
      /\ \A m \in DOMAIN journals : journals[m].draft = journals[n].draft => m = n
BY DEF ReviewedIsPosted, Reviewed

(* What an event may say that is appended to a draft: nothing was posted,   *)
(* and it repeats the current version or begins the next.                   *)
MayFollow(d, version, payload) ==
  DraftEvents(d) # {} =>
    LET current == register[Current(d)]
    IN /\ current.type # "approved_posted"
       /\ \/ version = current.version /\ payload = current.payload
          \/ version = current.version + 1

LEMMA AppendKeepsRegister ==
  ASSUME DraftsInv, NEW d \in DraftIds, NEW a \in Actors, NEW type \in DraftEventTypes,
         NEW version \in Nat \ {0}, NEW payload \in DraftPayloads,
         MayFollow(d, version, payload),
         AppendDraftEvent(a, d, type, version, payload)
  PROVE  /\ DraftsHaveCurrent' /\ VersionsHaveOnePayload'
         /\ \A c \in DOMAIN register' : IsCurrent(d, c)' => c = Len(register) + 1
         /\ \A x \in DraftIds \ {d}, c \in DOMAIN register' :
              IsCurrent(x, c)' <=> c \in DOMAIN register /\ IsCurrent(x, c)
         /\ \A n \in DOMAIN journals : journals[n].draft # d
         /\ \A j \in JournalRecords :
              j.draft # d /\ j.draft \in DraftIds /\ j.named \in DOMAIN register
                /\ Reviewed(j) => Reviewed(j)'
<1>1. DraftsTyped /\ DraftsHaveCurrent
  BY DEF DraftsInv
<1>0. PICK last \in Nat :
        RegisterGrows(d, [draft |-> d, type |-> type, version |-> version,
                          payload |-> payload, actor |-> a], last)
  BY <1>1, Appended, Zenon
<1>2. /\ register' \in Seq(DraftRecords) /\ last = Len(register) + 1
      /\ DOMAIN register' = DOMAIN register \union {last}
      /\ DOMAIN register = 1..Len(register) /\ Len(register) \in Nat
      /\ \A i \in DOMAIN register : register'[i] = register[i] /\ i < last
      /\ register'[last] = [draft |-> d, type |-> type, version |-> version,
                            payload |-> payload, actor |-> a]
      /\ DraftEvents(d)' = DraftEvents(d) \union {last}
      /\ \A x \in DraftIds \ {d} : DraftEvents(x)' = DraftEvents(x)
  BY <1>0 DEF RegisterGrows
<1>3. \A x \in DraftIds : DraftEvents(x) \subseteq DOMAIN register
  BY DEF DraftEvents
<1>4. \A i \in DOMAIN register : register[i] \in DraftRecords
  BY <1>1 DEF DraftsTyped
<1>5. DraftEvents(d) # {} =>
        /\ Current(d) \in DOMAIN register /\ IsCurrent(d, Current(d))
        /\ register[Current(d)].type # "approved_posted"
        /\ \/ version = register[Current(d)].version /\ payload = register[Current(d)].payload
           \/ version = register[Current(d)].version + 1
  BY <1>1, CurrentIsLast DEF MayFollow
<1>6. \A i \in DraftEvents(d) : register[i].version <= version
  BY <1>3, <1>4, <1>5 DEF IsCurrent, DraftRecords
<1>7. IsCurrent(d, last)'
  BY <1>2, <1>3, <1>4, <1>6 DEF IsCurrent, DraftRecords
<1>8. ASSUME NEW x \in DraftIds \ {d}, NEW c \in DOMAIN register'
      PROVE  IsCurrent(x, c)' <=> c \in DOMAIN register /\ IsCurrent(x, c)
  BY <1>2, <1>3 DEF IsCurrent
<1>9. DraftsHaveCurrent'
  <2> SUFFICES ASSUME NEW x \in DraftIds, DraftEvents(x)' # {}
               PROVE  \E c \in DOMAIN register' : IsCurrent(x, c)'
    BY DEF DraftsHaveCurrent
  <2>1. CASE x = d
    BY <1>2, <1>7, <2>1
  <2>2. CASE x # d
    <3>1. PICK c \in DOMAIN register : IsCurrent(x, c)
      BY <1>1, <1>2, <2>2 DEF DraftsHaveCurrent
    <3> QED BY <1>2, <1>8, <2>2, <3>1
  <2> QED BY <2>1, <2>2
<1>10. VersionsHaveOnePayload'
  <2>1. \A i \in DraftEvents(d) : register[i].version = version => register[i].payload = payload
    <3> SUFFICES ASSUME NEW i \in DraftEvents(d), register[i].version = version
                 PROVE  register[i].payload = payload
      OBVIOUS
    <3>1. register[i].version <= register[Current(d)].version
          /\ Current(d) \in DraftEvents(d)
      BY <1>5 DEF IsCurrent
    <3>2. register[i].version \in Nat /\ register[Current(d)].version \in Nat
      BY <1>3, <1>4, <3>1 DEF DraftRecords
    <3>3. version = register[Current(d)].version /\ payload = register[Current(d)].payload
      BY <1>5, <3>1, <3>2
    <3> QED BY <3>1, <3>3 DEF DraftsInv, VersionsHaveOnePayload
  <2> SUFFICES ASSUME NEW x \in DraftIds, NEW i \in DraftEvents(x)', NEW j \in DraftEvents(x)',
                      register'[i].version = register'[j].version
               PROVE  register'[i].payload = register'[j].payload
    BY DEF VersionsHaveOnePayload
  <2>2. \A k \in DOMAIN register : register'[k] = register[k] /\ k # last
    BY <1>2
  <2>3. register'[last].version = version /\ register'[last].payload = payload
    BY <1>2
  <2>4. CASE x # d
    BY <1>2, <1>3, <2>2, <2>4 DEF DraftsInv, VersionsHaveOnePayload
  <2>5. CASE x = d
    BY <1>2, <1>3, <2>1, <2>2, <2>3, <2>5 DEF DraftsInv, VersionsHaveOnePayload
  <2> QED BY <2>4, <2>5
<1>11. ASSUME NEW n \in DOMAIN journals
       PROVE  journals[n].draft # d
  <2>1. /\ journals[n].draft \in DraftIds /\ journals[n].named \in DOMAIN register
        /\ Reviewed(journals[n])
    <3>1. journals[n] \in JournalRecords /\ journals[n].named <= Len(register)
      BY <1>1 DEF DraftsTyped
    <3>2. Reviewed(journals[n])
      BY ReviewedParts DEF DraftsInv
    <3> QED BY <1>2, <3>1, <3>2 DEF JournalRecords
  <2>2. journals[n].named \in DraftEvents(journals[n].draft)
    BY <2>1 DEF Reviewed, DraftEvents
  <2> QED BY <1>5, <2>1, <2>2 DEF DraftsInv, PostedIsLast
<1>12. ASSUME NEW j \in JournalRecords, j.draft # d, j.draft \in DraftIds,
              j.named \in DOMAIN register, Reviewed(j)
       PROVE  Reviewed(j)'
  <2>1. DraftEvents(j.draft)' = DraftEvents(j.draft)
        /\ DraftEvents(j.draft) \subseteq DOMAIN register
    BY <1>2, <1>3, <1>12
  <2> QED BY <1>2, <1>12, <2>1 DEF Reviewed
<1>13. ASSUME NEW c \in DOMAIN register', IsCurrent(d, c)'
       PROVE  c = last
  <2>1. last <= c /\ (c \in DOMAIN register \/ c = last)
    BY <1>2, <1>13 DEF IsCurrent
  <2> QED BY <1>2, <2>1
<1> QED BY <1>2, <1>8, <1>9, <1>10, <1>11, <1>12, <1>13

-----------------------------------------------------------------------------
(* The operations.                                                          *)

LEMMA AppendTyped ==
  ASSUME DraftsTyped, NEW d \in DraftIds, NEW a \in Actors, NEW type \in DraftEventTypes,
         NEW version \in Nat \ {0}, NEW payload \in DraftPayloads,
         AppendDraftEvent(a, d, type, version, payload)
  PROVE  /\ register' \in Seq(DraftRecords) /\ Len(register') <= MaxDraftEvents
         /\ Len(register') = Len(register) + 1 /\ Len(register) \in Nat
         /\ DOMAIN register' = DOMAIN register \union {Len(register) + 1}
         /\ DOMAIN register = 1..Len(register)
<1>1. PICK last \in Nat :
        RegisterGrows(d, [draft |-> d, type |-> type, version |-> version,
                          payload |-> payload, actor |-> a], last)
  BY Appended, Zenon
<1> QED BY <1>1 DEF RegisterGrows

(* What was posted of other drafts stays reviewed, and last.                *)
LEMMA OldJournalsStay ==
  ASSUME DraftsInv, NEW d \in DraftIds, NEW a \in Actors, NEW type \in DraftEventTypes,
         NEW version \in Nat \ {0}, NEW payload \in DraftPayloads,
         MayFollow(d, version, payload),
         AppendDraftEvent(a, d, type, version, payload),
         NEW j \in JournalRecords, NEW n \in DOMAIN journals, j = journals[n]
  PROVE  /\ j.draft # d /\ Reviewed(j)'
         /\ \A c \in DOMAIN register' :
              IsCurrent(j.draft, c)' => register'[c].type = "approved_posted"
<1>1. DraftsTyped /\ j.named <= Len(register)
  BY DEF DraftsInv, DraftsTyped
<1>2. /\ DOMAIN register = 1..Len(register) /\ Len(register) \in Nat
  BY <1>1, AppendTyped, Zenon
<1>3. /\ \A x \in DraftIds \ {d}, c \in DOMAIN register' :
           IsCurrent(x, c)' <=> c \in DOMAIN register /\ IsCurrent(x, c)
      /\ \A m \in DOMAIN journals : journals[m].draft # d
      /\ \A k \in JournalRecords :
           k.draft # d /\ k.draft \in DraftIds /\ k.named \in DOMAIN register
             /\ Reviewed(k) => Reviewed(k)'
  BY AppendKeepsRegister, Zenon
<1>4. Reviewed(j)
  BY ReviewedParts DEF DraftsInv
<1>5. j.draft \in DraftIds \ {d} /\ j.named \in DOMAIN register
  BY <1>1, <1>2, <1>3 DEF JournalRecords
<1>6. Reviewed(j)'
  BY <1>3, <1>4, <1>5
<1>7. \A i \in DOMAIN register : register'[i] = register[i]
  <2>1. register \in Seq(DraftRecords)
    BY <1>1 DEF DraftsTyped
  <2> QED BY <2>1 DEF AppendDraftEvent
<1>8. ASSUME NEW c \in DOMAIN register', IsCurrent(j.draft, c)'
      PROVE  register'[c].type = "approved_posted"
  <2>1. c \in DOMAIN register /\ IsCurrent(j.draft, c)
    BY <1>3, <1>5, <1>8
  <2> QED BY <1>7, <2>1 DEF DraftsInv, PostedIsLast
<1> QED BY <1>5, <1>6, <1>8

(* An event that posts nothing.                                             *)
LEMMA EventKeepsInv ==
  ASSUME DraftsInv, NEW d \in DraftIds, NEW a \in Actors, NEW type \in DraftEventTypes,
         NEW version \in Nat \ {0}, NEW payload \in DraftPayloads,
         MayFollow(d, version, payload),
         AppendDraftEvent(a, d, type, version, payload), UNCHANGED <<postable, journals>>
  PROVE  DraftsInv'
<1>1. DraftsTyped /\ \A n \in DOMAIN journals :
        journals[n] \in JournalRecords /\ journals[n].named <= Len(register)
  BY DEF DraftsInv, DraftsTyped
<1>2. /\ register' \in Seq(DraftRecords) /\ Len(register') <= MaxDraftEvents
      /\ Len(register') = Len(register) + 1 /\ Len(register) \in Nat
      /\ DOMAIN register' = DOMAIN register \union {Len(register) + 1}
      /\ DOMAIN register = 1..Len(register)
  BY <1>1, AppendTyped, Zenon
<1>3. DraftsHaveCurrent' /\ VersionsHaveOnePayload'
  BY AppendKeepsRegister, Zenon
<1>4. DraftsTyped'
  BY <1>1, <1>2 DEF DraftsTyped, JournalRecords
<1>6. ASSUME NEW n \in DOMAIN journals
      PROVE  /\ Reviewed(journals[n])'
             /\ \A c \in DOMAIN register' :
                  IsCurrent(journals[n].draft, c)' => register'[c].type = "approved_posted"
  <2>1. PICK j \in JournalRecords : j = journals[n]
    BY <1>1, <1>6
  <2>2. /\ Reviewed(j)'
        /\ \A c \in DOMAIN register' :
             IsCurrent(j.draft, c)' => register'[c].type = "approved_posted"
    BY <1>6, <2>1, OldJournalsStay, Zenon
  <2>3. journals'[n] = j
    BY <2>1
  <2> QED BY <2>2, <2>3 DEF Reviewed, IsCurrent
<1>7. ReviewedIsPosted'
  <2>1. \A n \in DOMAIN journals' :
          \A m \in DOMAIN journals' : journals'[m].draft = journals'[n].draft => m = n
    BY ReviewedParts DEF DraftsInv
  <2>2. \A n \in DOMAIN journals' : Reviewed(journals[n])'
    BY <1>6
  <2> QED BY <2>1, <2>2 DEF ReviewedIsPosted, Reviewed
<1>8. PostedIsLast'
  BY <1>6 DEF PostedIsLast
<1> QED BY <1>3, <1>4, <1>7, <1>8 DEF DraftsInv

(* The caller names the current event: it exists, and has its type.         *)
LEMMA CurrentTyped ==
  ASSUME DraftsInv, NEW d \in DraftIds, NEW named \in DraftEvents(d), NEW types,
         ExactCurrent(d, named, types)
  PROVE  /\ named = Current(d) /\ named \in DOMAIN register
         /\ IsCurrent(d, named) /\ register[named] \in DraftRecords
         /\ register[named].type \in types
<1>1. named = Current(d) /\ register[named].type \in types
  BY DEF ExactCurrent
<1>2. named \in DOMAIN register /\ register \in Seq(DraftRecords) /\ DraftEvents(d) # {}
  BY DEF DraftsInv, DraftsTyped, DraftEvents
<1>3. IsCurrent(d, named)
  BY <1>1, <1>2, CurrentIsLast DEF DraftsInv
<1> QED BY <1>1, <1>2, <1>3

(* To be posted, an entry must not have been posted.                        *)
LEMMA ApproveKeepsInv ==
  ASSUME DraftsInv, NEW a \in Actors, NEW d \in DraftIds, NEW named \in DraftEvents(d),
         ApproveAndPost(a, d, named)
  PROVE  DraftsInv'
<1> DEFINE e == register[named]
           j == [draft |-> d, payload |-> e.payload, named |-> named, by |-> a]
<1>1. /\ named = Current(d) /\ named \in DOMAIN register
      /\ IsCurrent(d, named) /\ e \in DraftRecords /\ e.type = "submitted"
  BY CurrentTyped DEF ApproveAndPost
<1>2. /\ IndependentReviewer(a, d)
      /\ AppendDraftEvent(a, d, "approved_posted", e.version, e.payload)
      /\ journals' = Append(journals, j) /\ postable' = postable
  BY <1>1 DEF ApproveAndPost
<1>3. DraftsTyped /\ \A n \in DOMAIN journals :
        journals[n] \in JournalRecords /\ journals[n].named <= Len(register)
  BY DEF DraftsInv, DraftsTyped
<1>4. /\ e.version \in Nat \ {0} /\ e.payload \in DraftPayloads
      /\ "approved_posted" \in DraftEventTypes /\ MayFollow(d, e.version, e.payload)
  BY <1>1 DEF DraftRecords, DraftEventTypes, MayFollow
<1>5. PICK last \in Nat :
        RegisterGrows(d, [draft |-> d, type |-> "approved_posted", version |-> e.version,
                          payload |-> e.payload, actor |-> a], last)
  BY <1>2, <1>3, <1>4, Appended, Zenon
<1>6. /\ register' \in Seq(DraftRecords) /\ Len(register') = last
      /\ DOMAIN register' = DOMAIN register \union {last}
      /\ DOMAIN register = 1..Len(register) /\ Len(register) \in Nat
      /\ last = Len(register) + 1 /\ last <= MaxDraftEvents
      /\ \A i \in DOMAIN register : register'[i] = register[i] /\ i < last
      /\ register'[last].type = "approved_posted" /\ register'[last].actor = a
      /\ DraftEvents(d)' = DraftEvents(d) \union {last}
      /\ \A x \in DraftIds \ {d} : DraftEvents(x)' = DraftEvents(x)
  BY <1>5 DEF RegisterGrows
<1>7. /\ DraftsHaveCurrent' /\ VersionsHaveOnePayload'
      /\ \A c \in DOMAIN register' : IsCurrent(d, c)' => c = Len(register) + 1
      /\ \A x \in DraftIds \ {d}, c \in DOMAIN register' :
           IsCurrent(x, c)' <=> c \in DOMAIN register /\ IsCurrent(x, c)
      /\ \A n \in DOMAIN journals : journals[n].draft # d
      /\ \A k \in JournalRecords :
           k.draft # d /\ k.draft \in DraftIds /\ k.named \in DOMAIN register
             /\ Reviewed(k) => Reviewed(k)'
  BY <1>2, <1>4, AppendKeepsRegister, Zenon
<1>8. j \in JournalRecords
  BY <1>1, <1>4, <1>6 DEF JournalRecords
<1>9. PICK k \in JournalRecords : k = j
  BY <1>8
<1>10. k.draft = d /\ k.named = named /\ k.by = a /\ k.payload = e.payload
  BY <1>9
<1> HIDE DEF j
<1>11. /\ journals \in Seq(JournalRecords) /\ journals' \in Seq(JournalRecords)
       /\ DOMAIN journals' = DOMAIN journals \union {Len(journals) + 1}
       /\ Len(journals) + 1 \notin DOMAIN journals
       /\ \A n \in DOMAIN journals : journals'[n] = journals[n]
       /\ journals'[Len(journals) + 1] = k
  <2>1. journals \in Seq(JournalRecords) /\ journals' = Append(journals, k)
    BY <1>2, <1>3, <1>9 DEF DraftsTyped
  <2> QED BY <2>1
<1>12. DraftsTyped'
  <2>1. \A n \in DOMAIN journals : journals[n].named <= last
    BY <1>3, <1>6 DEF JournalRecords
  <2>2. k.named <= last
    BY <1>1, <1>6, <1>10
  <2>3. \A n \in DOMAIN journals' : journals'[n].named <= last
    BY <1>11, <2>1, <2>2
  <2> QED BY <1>2, <1>3, <1>6, <1>11, <2>3 DEF DraftsTyped
<1>13. Reviewed(k)'
  <2>1. /\ e.actor # a /\ e.draft = d
        /\ \A i \in DraftEvents(d) :
             register[i].type \in {"created", "revised"} /\ register[i].version = e.version
               => register[i].actor # a
    BY <1>1, <1>2 DEF IndependentReviewer, VersionAuthor, IsCurrent, DraftEvents
  <2>2. \A i \in DraftEvents(d) :
          /\ i \in DOMAIN register
          /\ i <= named /\ register[i].version <= e.version
          /\ register[i].version = e.version => register[i].payload = e.payload
    BY <1>1 DEF IsCurrent, DraftsInv, VersionsHaveOnePayload, DraftEvents
  <2>3. \A i \in DraftEvents(d) :
          register[i].type \in {"created", "revised"} => i < named
    BY <1>1, <1>6, <2>2
  <2>4. register'[named] = e /\ last # named
    BY <1>1, <1>6
  <2> SUFFICES /\ e.draft = k.draft /\ e.type = "submitted" /\ e.payload = k.payload
               /\ e.actor # k.by
               /\ \A i \in DraftEvents(d) \union {last} :
                    /\ register'[i].type \in {"created", "revised"} =>
                         i < k.named /\ register'[i].version <= e.version
                    /\ register'[i].type \in {"created", "revised"}
                         /\ register'[i].version = e.version =>
                           register'[i].actor # k.by /\ register'[i].payload = k.payload
    BY <1>6, <1>10, <2>4 DEF Reviewed
  <2> QED BY <1>1, <1>6, <1>10, <2>1, <2>2, <2>3
<1>14. ASSUME NEW n \in DOMAIN journals'
       PROVE  /\ Reviewed(journals[n])'
              /\ \A m \in DOMAIN journals' : journals'[m].draft = journals'[n].draft => m = n
              /\ \A c \in DOMAIN register' :
                   IsCurrent(journals[n].draft, c)' => register'[c].type = "approved_posted"
  <2>1. CASE n = Len(journals) + 1
    <3>1. journals'[n] = k
      BY <1>11, <2>1
    <3>2. Reviewed(journals[n])'
      BY <1>13, <3>1 DEF Reviewed
    <3>3. \A m \in DOMAIN journals' : journals'[m].draft = d => m = n
      BY <1>7, <1>11, <2>1
    <3>4. \A c \in DOMAIN register' : IsCurrent(d, c)' => register'[c].type = "approved_posted"
      BY <1>6, <1>7
    <3> QED BY <1>10, <3>1, <3>2, <3>3, <3>4 DEF IsCurrent
  <2>2. CASE n # Len(journals) + 1
    <3>1. n \in DOMAIN journals /\ journals'[n] = journals[n]
      BY <1>11, <1>14, <2>2
    <3>2. PICK i \in JournalRecords : i = journals[n]
      BY <1>3, <3>1
    <3>3. /\ i.draft # d /\ Reviewed(i)'
          /\ \A c \in DOMAIN register' :
               IsCurrent(i.draft, c)' => register'[c].type = "approved_posted"
      BY <1>2, <1>4, <3>1, <3>2, OldJournalsStay, Zenon
    <3>4. \A m \in DOMAIN journals : journals[m].draft = journals[n].draft => m = n
      BY <3>1, ReviewedParts DEF DraftsInv
    <3>5. \A m \in DOMAIN journals' : journals'[m].draft = journals'[n].draft => m = n
      BY <1>10, <1>11, <3>1, <3>2, <3>3, <3>4
    <3> QED BY <3>1, <3>2, <3>3, <3>5 DEF Reviewed, IsCurrent
  <2> QED BY <2>1, <2>2
<1>15. ReviewedIsPosted' /\ PostedIsLast'
  BY <1>14 DEF ReviewedIsPosted, Reviewed, PostedIsLast
<1> QED BY <1>7, <1>12, <1>15 DEF DraftsInv

-----------------------------------------------------------------------------

LEMMA DraftsInvHolds == DraftsSpec => []DraftsInv
<1>1. DraftsInit => DraftsInv
  BY DraftsAssumption
     DEF DraftsInit, DraftsInv, DraftsTyped, DraftsHaveCurrent, VersionsHaveOnePayload,
         PostedIsLast, ReviewedIsPosted, DraftEvents
<1>2. DraftsInv /\ [DraftsNext]_draftsVars => DraftsInv'
  <2> SUFFICES ASSUME DraftsInv, [DraftsNext]_draftsVars
               PROVE  DraftsInv'
    OBVIOUS
  <2>1. ASSUME NEW a \in Actors, NEW d \in DraftIds, NEW payload \in DraftPayloads,
               CreateDraft(a, d, payload)
        PROVE  DraftsInv'
    <3>1. MayFollow(d, 1, payload)
      BY <2>1, CurrentIsLast DEF CreateDraft, MayFollow, DraftsInv
    <3>2. /\ 1 \in Nat \ {0} /\ "created" \in DraftEventTypes
          /\ AppendDraftEvent(a, d, "created", 1, payload)
          /\ UNCHANGED <<postable, journals>>
      BY <2>1 DEF CreateDraft, DraftEventTypes
    <3> QED BY <3>1, <3>2, EventKeepsInv, Zenon
  <2>2. ASSUME NEW a \in Actors, NEW d \in DraftIds, NEW named \in DraftEvents(d),
               NEW payload \in DraftPayloads, ReviseDraft(a, d, named, payload)
        PROVE  DraftsInv'
    <3> DEFINE version == register[named].version + 1
    <3>1. /\ named = Current(d) /\ register[named] \in DraftRecords
          /\ register[named].type \in {"created", "revised", "rejected"}
      BY <2>2, CurrentTyped DEF ReviseDraft
    <3>2. version \in Nat \ {0} /\ MayFollow(d, version, payload)
      BY <3>1 DEF DraftRecords, MayFollow
    <3>3. /\ "revised" \in DraftEventTypes
          /\ AppendDraftEvent(a, d, "revised", version, payload)
          /\ UNCHANGED <<postable, journals>>
      BY <2>2, <3>1 DEF ReviseDraft, DraftEventTypes
    <3> HIDE DEF version
    <3> QED BY <3>2, <3>3, EventKeepsInv, Zenon
  <2>3. ASSUME NEW a \in Actors, NEW d \in DraftIds, NEW named \in DraftEvents(d),
               SubmitDraft(a, d, named) \/ RejectDraft(a, d, named)
        PROVE  DraftsInv'
    <3> DEFINE e == register[named]
    <3>1. /\ named = Current(d) /\ e \in DraftRecords
          /\ e.type \in {"created", "revised", "submitted"}
      BY <2>3, CurrentTyped DEF SubmitDraft, RejectDraft
    <3>2. /\ e.version \in Nat \ {0} /\ e.payload \in DraftPayloads
          /\ MayFollow(d, e.version, e.payload)
      BY <3>1 DEF DraftRecords, MayFollow
    <3>3. /\ "submitted" \in DraftEventTypes /\ "rejected" \in DraftEventTypes
          /\ \/ AppendDraftEvent(a, d, "submitted", e.version, e.payload)
             \/ AppendDraftEvent(a, d, "rejected", e.version, e.payload)
          /\ UNCHANGED <<postable, journals>>
      BY <2>3, <3>1 DEF SubmitDraft, RejectDraft, DraftEventTypes
    <3> HIDE DEF e
    <3> QED BY <3>2, <3>3, EventKeepsInv, Zenon
  <2>4. ASSUME NEW a \in Actors, NEW d \in DraftIds, NEW named \in DraftEvents(d),
               ApproveAndPost(a, d, named)
        PROVE  DraftsInv'
    BY <2>4, ApproveKeepsInv
  <2>5. ASSUME postable' \subseteq postable, UNCHANGED <<register, journals>>
        PROVE  DraftsInv'
    BY <2>5 DEF DraftsInv, DraftsTyped, DraftsHaveCurrent, VersionsHaveOnePayload,
                PostedIsLast, ReviewedIsPosted, IsCurrent, DraftEvents
  <2>6. CASE \E payload \in DraftPayloads : PostableChanges(payload)
    BY <2>5, <2>6 DEF PostableChanges
  <2>7. CASE UNCHANGED draftsVars
    BY <2>5, <2>7 DEF draftsVars
  <2> QED BY <2>1, <2>2, <2>3, <2>4, <2>6, <2>7 DEF DraftsNext
<1> QED BY <1>1, <1>2, PTL DEF DraftsSpec

(* The register, the payloads and the journal have their types.             *)
THEOREM DraftsTypes == DraftsSpec => []DraftsTypeOK
<1>1. DraftsInv => DraftsTypeOK
  <2> SUFFICES ASSUME DraftsInv PROVE DraftsTypeOK
    OBVIOUS
  <2> DEFINE PostedDrafts == [draft : DraftIds, payload : DraftPayloads,
                              named : 1..MaxDraftEvents, by : Actors]
  <2>1. journals \in Seq(JournalRecords) /\ register \in Seq(DraftRecords)
    BY DEF DraftsInv, DraftsTyped
  <2>2. ASSUME NEW n \in 1..Len(journals)
        PROVE  journals[n] \in PostedDrafts
    <3>1. journals[n] \in JournalRecords /\ journals[n].named <= Len(register)
          /\ Len(register) <= MaxDraftEvents /\ Len(register) \in Nat
      BY <2>1, <2>2 DEF DraftsInv, DraftsTyped
    <3>2. journals[n].named \in 1..MaxDraftEvents
      BY <3>1, DraftsAssumption DEF JournalRecords
    <3> QED BY <3>1, <3>2 DEF JournalRecords
  <2> HIDE DEF PostedDrafts
  <2>3. journals \in Seq(PostedDrafts)
    <3>1. Len(journals) \in Nat /\ journals \in [1..Len(journals) -> PostedDrafts]
      BY <2>1, <2>2
    <3> QED BY <3>1, SeqDef
  <2> QED BY <2>1, <2>3 DEF DraftsInv, DraftsTyped, DraftsTypeOK, DraftRecords, PostedDrafts
<1> QED BY <1>1, DraftsInvHolds, PTL

(* What is posted from a draft is what an independent person saw submitted, *)
(* once, in a register of any length (approveAndPostAccountingDraft).       *)
THEOREM PostedAsReviewed == DraftsSpec => []ReviewedIsPosted
<1>1. DraftsInv => ReviewedIsPosted
  BY DEF DraftsInv
<1> QED BY <1>1, DraftsInvHolds, PTL

-----------------------------------------------------------------------------
(* Payables: money that left the bank once is booked once, for any number  *)
(* of bills, bank lines, processes and entries.  Beside the types the      *)
(* property is inductive: an entry is born live or a reversal, only        *)
(* reversals are added afterwards, and each step that gives a line new     *)
(* evidence has seen it without any or takes the old one back itself.      *)

EntryRecords ==
  [kind : {"expense", "bill", "payment", "reversal"}, bill : Bills,
   line : Outgoing \union {NoLine}, of : Nat]

PaymentRecords == [bill : Bills, line : Outgoing, entry : Nat]

PayablesTyped ==
  /\ journal \in Seq(EntryRecords)
  /\ \A e \in PayableEntries : journal[e].of \in 0 .. e - 1
  /\ lineEvidence \in [Outgoing -> {0} \union PayableEntries]
  /\ payables \in [Bills -> {0} \union PayableEntries]
  /\ payments \subseteq PaymentRecords
  /\ \A p \in payments : p.entry \in PayableEntries
  /\ paying \in [Payers -> {<<>>} \union (Bills \X Outgoing)]
  /\ settled \subseteq Bills \X Outgoing

PayablesInv == PayablesTyped /\ LinePaysOnce

(* What is not under way is what has no bill to pay.                        *)
LEMMA UnderWay ==
  ASSUME PayablesTyped, NEW p \in Payers, paying[p] # <<>>
  PROVE  paying[p][1] \in Bills /\ paying[p][2] \in Outgoing
BY DEF PayablesTyped

(* The journal only grows, so no entry comes back to life.                  *)
Grows ==
  /\ Len(journal') >= Len(journal)
  /\ \A e \in PayableEntries : e \in PayableEntries' /\ journal'[e] = journal[e]

LEMMA GrowsKeepsDead ==
  ASSUME PayablesTyped, Grows
  PROVE  \A e \in PayableEntries : Live(e)' => Live(e)
BY DEF Grows, Live, Undone

(* A reversal carries the bill and the line of what it takes back.          *)
LEMMA Reversal ==
  ASSUME PayablesTyped, NEW e \in PayableEntries
  PROVE  /\ [journal[e] EXCEPT !.kind = "reversal", !.of = e] \in EntryRecords
         /\ [journal[e] EXCEPT !.kind = "reversal", !.of = e].kind = "reversal"
         /\ [journal[e] EXCEPT !.kind = "reversal", !.of = e].of = e
<1>1. e \in Nat /\ journal[e] \in EntryRecords
  BY DEF PayablesTyped, PayableEntries
<1>2. PICK j \in EntryRecords : j = journal[e]
  BY <1>1
<1>3. PICK k : k = [j EXCEPT !.kind = "reversal"]
  OBVIOUS
<1>4. k \in EntryRecords /\ k.kind = "reversal"
  BY <1>3 DEF EntryRecords
<1>5. PICK r : r = [k EXCEPT !.of = e]
  OBVIOUS
<1>6. r \in EntryRecords /\ r.kind = "reversal" /\ r.of = e
  BY <1>1, <1>4, <1>5 DEF EntryRecords
<1>7. [journal[e] EXCEPT !.kind = "reversal", !.of = e] = r
  BY <1>2, <1>3, <1>5
<1> QED
  BY <1>6, <1>7

LEMMA AppendGrows ==
  ASSUME PayablesTyped, NEW x \in EntryRecords, x.of \in 0 .. Len(journal),
         journal' = Append(journal, x)
  PROVE  /\ Grows
         /\ Len(journal) \in Nat
         /\ PayableEntries = 1 .. Len(journal)
         /\ PayableEntries' = PayableEntries \union {Len(journal) + 1}
         /\ journal'[Len(journal) + 1] = x
         /\ (journal \in Seq(EntryRecords))'
         /\ (\A e \in PayableEntries : journal[e].of \in 0 .. e - 1)'
<1> PICK n \in Nat : n = Len(journal)
  BY DEF PayablesTyped
<1>1. /\ PayableEntries = 1 .. n /\ PayableEntries' = 1 .. n + 1
      /\ Len(journal') = n + 1 /\ journal' \in Seq(EntryRecords)
      /\ \A e \in 1 .. n : journal'[e] = journal[e]
      /\ journal'[n + 1] = x
  BY DEF PayablesTyped, PayableEntries
<1>2. ASSUME NEW e \in 1 .. n + 1 PROVE journal'[e].of \in 0 .. e - 1
  <2>1. CASE e \in 1 .. n
    BY <1>1, <2>1 DEF PayablesTyped
  <2>2. CASE e = n + 1
    BY <1>1, <2>2
  <2> QED BY <2>1, <2>2
<1> QED
  BY <1>1, <1>2 DEF Grows

-----------------------------------------------------------------------------
LEMMA PayablesInitInv ==
  ASSUME PayablesAssumption, PayablesInit
  PROVE  PayablesInv
<1>1. journal \in Seq(EntryRecords) /\ PayableEntries = {}
  BY DEF PayablesInit, PayableEntries
<1> QED
  BY <1>1 DEF PayablesInit, PayablesInv, PayablesTyped, LinePaysOnce, PaysFrom

(* An entry that pays with a line that had no evidence becomes its          *)
(* evidence, whether or not it is recorded as the payment of a bill.        *)
LEMMA NewEvidence ==
  ASSUME PayablesAssumption, PayablesInv,
         NEW kind \in {"expense", "payment"}, NEW bill \in Bills, NEW line \in Outgoing,
         lineEvidence[line] = 0,
         journal' = Append(journal, Entry(kind, bill, line)),
         lineEvidence' = [lineEvidence EXCEPT ![line] = Len(journal) + 1],
         payments' \subseteq
           payments \union {[bill |-> bill, line |-> line, entry |-> Len(journal) + 1]},
         paying' \in [Payers -> {<<>>} \union (Bills \X Outgoing)],
         UNCHANGED <<payables, settled>>
  PROVE  PayablesInv'
<1> DEFINE x == Entry(kind, bill, line)
<1>1. x \in EntryRecords /\ x.of = 0 /\ x.line = line
  BY DEF Entry, EntryRecords
<1> PICK n \in Nat : n = Len(journal)
  BY DEF PayablesInv, PayablesTyped
<1>2. /\ Grows /\ PayableEntries = 1 .. n
      /\ PayableEntries' = PayableEntries \union {n + 1} /\ journal'[n + 1] = x
      /\ (journal \in Seq(EntryRecords))'
      /\ (\A e \in PayableEntries : journal[e].of \in 0 .. e - 1)'
  BY <1>1, AppendGrows, n = Len(journal), x.of \in 0 .. Len(journal) DEF PayablesInv
<1> HIDE DEF x
<1>3. PICK q : q = [bill |-> bill, line |-> line, entry |-> n + 1]
  OBVIOUS
<1>4. /\ q \in PaymentRecords /\ q.line = line /\ q.entry = n + 1
      /\ payments' \subseteq payments \union {q}
  BY <1>3 DEF PaymentRecords
<1>5. PayablesTyped'
  BY <1>2, <1>4 DEF PayablesInv, PayablesTyped
<1>6. ASSUME NEW l \in Outgoing, NEW e \in PaysFrom(l)' PROVE e = lineEvidence'[l]
  <2>1. CASE e = n + 1
    <3>1. \A p \in payments : p.entry # e
      BY <1>2, <2>1 DEF PayablesInv, PayablesTyped
    <3>2. l = line
      BY <1>1, <1>2, <1>4, <2>1, <3>1 DEF PaysFrom
    <3> QED
      BY <2>1, <3>2 DEF PayablesInv, PayablesTyped
  <2>2. CASE e \in PayableEntries
    <3>1. Live(e) /\ journal'[e] = journal[e]
      BY <1>2, <2>2, GrowsKeepsDead DEF PaysFrom, PayablesInv, Grows
    <3>2. e # q.entry
      BY <1>2, <1>4, <2>2
    <3>3. e \in PaysFrom(l)
      BY <1>4, <2>2, <3>1, <3>2 DEF PaysFrom
    <3>4. lineEvidence[l] = e
      BY <3>3 DEF PayablesInv, LinePaysOnce
    <3>5. l # line
      BY <1>2, <2>2, <3>4
    <3> QED
      BY <3>4, <3>5 DEF PayablesInv, PayablesTyped
  <2> QED
    BY <1>2, <2>1, <2>2 DEF PaysFrom
<1> QED
  BY <1>5, <1>6 DEF PayablesInv, LinePaysOnce

(* An entry that takes nothing out of the bank changes no line's evidence.  *)
LEMMA PaysNothing ==
  ASSUME PayablesAssumption, PayablesInv, NEW x \in EntryRecords,
         x.of \in 0 .. Len(journal), x.kind \in {"bill", "reversal"},
         journal' = Append(journal, x),
         payables' = payables \/ \E b \in Bills :
           payables' = [payables EXCEPT ![b] = Len(journal) + 1],
         UNCHANGED <<lineEvidence, payments, paying, settled>>
  PROVE  PayablesInv'
<1> PICK n \in Nat : n = Len(journal)
  BY DEF PayablesInv, PayablesTyped
<1>1. /\ Grows /\ PayableEntries = 1 .. n
      /\ PayableEntries' = PayableEntries \union {n + 1} /\ journal'[n + 1] = x
      /\ (journal \in Seq(EntryRecords))'
      /\ (\A e \in PayableEntries : journal[e].of \in 0 .. e - 1)'
  BY AppendGrows DEF PayablesInv
<1>2. PayablesTyped'
  BY <1>1 DEF PayablesInv, PayablesTyped
<1>3. ASSUME NEW l \in Outgoing, NEW e \in PaysFrom(l)' PROVE e = lineEvidence[l]
  <2>1. \A p \in payments : p.entry # n + 1
    BY <1>1 DEF PayablesInv, PayablesTyped
  <2>2. e \in PayableEntries
    BY <1>1, <2>1 DEF PaysFrom
  <2>3. Live(e) /\ journal'[e] = journal[e]
    BY <1>1, <2>2, GrowsKeepsDead DEF PaysFrom, PayablesInv, Grows
  <2> QED
    BY <2>2, <2>3 DEF PaysFrom, PayablesInv, LinePaysOnce
<1> QED
  BY <1>2, <1>3 DEF PayablesInv, LinePaysOnce

(* The correction takes the line's evidence back before it gives it new.    *)
LEMMA CorrectPurchaseInv ==
  ASSUME PayablesAssumption, PayablesInv,
         NEW bill \in Bills, NEW line \in Outgoing, CorrectPurchase(bill, line)
  PROVE  PayablesInv'
<1> PICK n \in Nat : n = Len(journal)
  BY DEF PayablesInv, PayablesTyped
<1>1. PICK e \in DirectPurchase(bill, line) :
        /\ lineEvidence[line] = e
        /\ journal' = journal \o <<[journal[e] EXCEPT !.kind = "reversal", !.of = e],
                                   Entry("bill", bill, NoLine),
                                   Entry("payment", bill, NoLine)>>
        /\ payables' = [payables EXCEPT ![bill] = n + 2]
        /\ payments' = payments \union
             {[bill |-> bill, line |-> line, entry |-> n + 3]}
        /\ lineEvidence' = [lineEvidence EXCEPT ![line] = n + 3]
        /\ settled' = settled \union {<<bill, line>>}
        /\ paying' = paying
  BY DEF CorrectPurchase
<1>2. e \in 1 .. n /\ PayableEntries = 1 .. n
  BY <1>1 DEF PayablesInv, PayablesTyped, PayableEntries, DirectPurchase
<1>3. PICK r : r = [journal[e] EXCEPT !.kind = "reversal", !.of = e]
  OBVIOUS
<1>4. r \in EntryRecords /\ r.kind = "reversal" /\ r.of = e
  BY <1>2, <1>3, Reversal DEF PayablesInv
<1>5. PICK b : b = Entry("bill", bill, NoLine)
  OBVIOUS
<1>6. PICK s : s = Entry("payment", bill, NoLine)
  OBVIOUS
<1>7. /\ b \in EntryRecords /\ b.kind = "bill" /\ b.of = 0
      /\ s \in EntryRecords /\ s.line = NoLine /\ s.of = 0
  BY <1>5, <1>6 DEF Entry, EntryRecords
<1>8. journal' = journal \o <<r, b, s>>
  BY <1>1, <1>3, <1>5, <1>6
<1>9. /\ journal' \in Seq(EntryRecords) /\ Len(journal') = n + 3
      /\ PayableEntries' = 1 .. n + 3
      /\ \A k \in 1 .. n : journal'[k] = journal[k]
      /\ journal'[n + 1] = r /\ journal'[n + 2] = b /\ journal'[n + 3] = s
  <2>1. <<r, b, s>> \in Seq(EntryRecords)
    BY <1>4, <1>7
  <2> QED
    BY <1>8, <2>1 DEF PayablesInv, PayablesTyped, PayableEntries
<1>10. Grows
  BY <1>2, <1>9 DEF Grows
<1>11. PICK q : q = [bill |-> bill, line |-> line, entry |-> n + 3]
  OBVIOUS
<1>12. /\ q \in PaymentRecords /\ q.line = line /\ q.entry = n + 3
       /\ payments' = payments \union {q}
  BY <1>1, <1>11 DEF PaymentRecords
<1>13. PayablesTyped'
  <2>1. \A k \in PayableEntries' : journal'[k].of \in 0 .. k - 1
    <3> SUFFICES ASSUME NEW k \in 1 .. n + 3 PROVE journal'[k].of \in 0 .. k - 1
      BY <1>9
    <3>1. CASE k \in 1 .. n
      BY <1>2, <1>9, <3>1 DEF PayablesInv, PayablesTyped
    <3>2. CASE k \in {n + 1, n + 2, n + 3}
      BY <1>2, <1>4, <1>7, <1>9, <3>2
    <3> QED BY <3>1, <3>2
  <2> QED
    <3>1. /\ lineEvidence' \in [Outgoing -> {0} \union PayableEntries']
          /\ payables' \in [Bills -> {0} \union PayableEntries']
      BY <1>1, <1>2, <1>9 DEF PayablesInv, PayablesTyped
    <3>2. /\ payments' \subseteq PaymentRecords
          /\ \A p \in payments' : p.entry \in PayableEntries'
      BY <1>2, <1>9, <1>12 DEF PayablesInv, PayablesTyped
    <3>3. /\ paying' \in [Payers -> {<<>>} \union (Bills \X Outgoing)]
          /\ settled' \subseteq Bills \X Outgoing
      BY <1>1 DEF PayablesInv, PayablesTyped
    <3> QED
      BY <1>9, <2>1, <3>1, <3>2, <3>3 DEF PayablesTyped
<1>14. ASSUME NEW l \in Outgoing, NEW k \in PaysFrom(l)' PROVE k = lineEvidence'[l]
  <2>1. \A p \in payments : p.entry \in 1 .. n
    BY <1>2 DEF PayablesInv, PayablesTyped
  <2>2. NoLine # l /\ journal'[k].kind # "reversal"
    BY DEF PayablesAssumption, PaysFrom, Live
  <2>3. k \in 1 .. n \/ k = n + 3
    <3>1. k \in 1 .. n + 3 /\ k # n + 1
      BY <1>4, <1>9, <2>2 DEF PaysFrom
    <3>2. k # n + 2
      BY <1>7, <1>9, <1>12, <2>1 DEF PaysFrom
    <3> QED BY <3>1, <3>2
  <2>4. CASE k = n + 3
    <3>1. l = line
      BY <1>7, <1>9, <1>12, <2>1, <2>2, <2>4 DEF PaysFrom
    <3> QED
      BY <1>1, <2>4, <3>1 DEF PayablesInv, PayablesTyped
  <2>5. CASE k \in 1 .. n
    <3>1. Live(k) /\ journal'[k] = journal[k]
      BY <1>2, <1>10, <2>5, GrowsKeepsDead DEF PaysFrom, PayablesInv, Grows
    <3>2. k \in PaysFrom(l)
      BY <1>2, <1>12, <2>5, <3>1 DEF PaysFrom
    <3>3. lineEvidence[l] = k
      BY <3>2 DEF PayablesInv, LinePaysOnce
    <3>4. Undone(e)'
      BY <1>4, <1>9 DEF Undone
    <3>5. l # line
      BY <1>1, <3>3, <3>4 DEF PaysFrom, Live
    <3> QED
      BY <1>1, <3>3, <3>5 DEF PayablesInv, PayablesTyped
  <2> QED
    BY <2>3, <2>4, <2>5
<1> QED
  BY <1>13, <1>14 DEF PayablesInv, LinePaysOnce

LEMMA AdoptLegacyInv ==
  ASSUME PayablesInv, NEW bill \in Bills, NEW e \in PayableEntries,
         NEW f \in PayableEntries, AdoptLegacy(bill, e, f)
  PROVE  PayablesInv'
<1>1. PICK line : line = journal[f].line
  OBVIOUS
<1>2. /\ line \in Outgoing /\ lineEvidence[line] = f
      /\ payables' = [payables EXCEPT ![bill] = e]
      /\ payments' = payments \union {[bill |-> bill, line |-> line, entry |-> f]}
      /\ UNCHANGED <<journal, lineEvidence, paying, settled>>
  <2>1. journal[f] \in EntryRecords
    BY DEF PayablesInv, PayablesTyped, PayableEntries
  <2> QED
    BY <1>1, <2>1 DEF AdoptLegacy, EntryRecords
<1>3. PICK q : q = [bill |-> bill, line |-> line, entry |-> f]
  OBVIOUS
<1>4. /\ q \in PaymentRecords /\ q.line = line /\ q.entry = f
      /\ payments' = payments \union {q}
  BY <1>2, <1>3 DEF PaymentRecords, PayableEntries, PayablesInv, PayablesTyped
<1>5. PayablesTyped'
  BY <1>2, <1>4 DEF PayablesInv, PayablesTyped, PayableEntries
<1>6. ASSUME NEW l \in Outgoing, NEW k \in PaysFrom(l)' PROVE k = lineEvidence[l]
  <2>1. k \in PaysFrom(l) \/ (k = f /\ l = line)
    BY <1>2, <1>4 DEF PaysFrom, Live, Undone, PayableEntries
  <2> QED
    BY <1>2, <2>1 DEF PayablesInv, LinePaysOnce
<1> QED
  BY <1>2, <1>5, <1>6 DEF PayablesInv, LinePaysOnce

(* A step that only reads for a payment.                                    *)
LEMMA BooksStandStill ==
  ASSUME PayablesInv, UNCHANGED <<journal, lineEvidence, payables, payments, settled>>,
         paying' \in [Payers -> {<<>>} \union (Bills \X Outgoing)]
  PROVE  PayablesInv'
<1>1. PayablesTyped'
  BY DEF PayablesInv, PayablesTyped, PayableEntries
<1>2. LinePaysOnce'
  BY DEF PayablesInv, LinePaysOnce, PaysFrom, Live, Undone, PayableEntries
<1> QED BY <1>1, <1>2 DEF PayablesInv

LEMMA PostPaymentInv ==
  ASSUME PayablesAssumption, PayablesInv, NEW p \in Payers, PostPayment(p)
  PROVE  PayablesInv'
<1>1. paying' \in [Payers -> {<<>>} \union (Bills \X Outgoing)]
  BY DEF PostPayment, PayablesInv, PayablesTyped
<1>2. PICK bill \in Bills, line \in Outgoing : bill = paying[p][1] /\ line = paying[p][2]
  BY UnderWay DEF PostPayment, PayablesInv
<1>3. CASE lineEvidence[line] = 0
  <2>1. /\ journal' = Append(journal, Entry("payment", bill, line))
        /\ lineEvidence' = [lineEvidence EXCEPT ![line] = Len(journal) + 1]
        /\ payments' = payments \union
             {[bill |-> bill, line |-> line, entry |-> Len(journal) + 1]}
        /\ UNCHANGED <<payables, settled>>
    BY <1>2, <1>3 DEF PostPayment
  <2> QED
    BY <1>1, <1>3, <2>1, NewEvidence
<1>4. CASE lineEvidence[line] # 0
  <2>1. UNCHANGED <<journal, lineEvidence, payables, payments, settled>>
    BY <1>2, <1>4 DEF PostPayment
  <2> QED
    BY <1>1, <2>1, BooksStandStill
<1> QED BY <1>3, <1>4

LEMMA PayablesStepInv ==
  ASSUME PayablesAssumption, PayablesInv, [PayablesNext]_payablesVars
  PROVE  PayablesInv'
<1> USE DEF PayablesInv
<1>0. paying \in [Payers -> {<<>>} \union (Bills \X Outgoing)]
  BY DEF PayablesTyped
<1>1. CASE UNCHANGED payablesVars
  BY <1>0, <1>1, BooksStandStill DEF payablesVars
<1>2. ASSUME NEW bill \in Bills, RegisterPayable(bill) \/ PostLegacyBill(bill)
      PROVE  PayablesInv'
  <2>1. PICK x : x = Entry("bill", bill, NoLine)
    OBVIOUS
  <2>2. x \in EntryRecords /\ x.of \in 0 .. Len(journal) /\ x.kind = "bill"
    BY <2>1 DEF Entry, EntryRecords, PayablesTyped
  <2>3. /\ journal' = Append(journal, x)
        /\ payables' = payables \/ payables' = [payables EXCEPT ![bill] = Len(journal) + 1]
        /\ UNCHANGED <<lineEvidence, payments, paying, settled>>
    BY <1>2, <2>1 DEF RegisterPayable, PostLegacyBill
  <2> QED
    BY <2>2, <2>3, PaysNothing
<1>3. ASSUME NEW bill \in Bills, NEW line \in Outgoing, BookExpense(bill, line)
      PROVE  PayablesInv'
  BY <1>0, <1>3, NewEvidence DEF BookExpense
<1>4. ASSUME NEW bill \in Bills, NEW line \in Outgoing, PayInReceipt(bill, line)
      PROVE  PayablesInv'
  BY <1>0, <1>4, NewEvidence DEF PayInReceipt, MayPay
<1>5. ASSUME NEW bill \in Bills, NEW line \in Outgoing, PostLegacyPayment(bill, line)
      PROVE  PayablesInv'
  BY <1>0, <1>5, NewEvidence DEF PostLegacyPayment
<1>6. ASSUME NEW bill \in Bills, NEW line \in Outgoing, CorrectPurchase(bill, line)
      PROVE  PayablesInv'
  BY <1>6, CorrectPurchaseInv
<1>7. ASSUME NEW bill \in Bills, NEW line \in Outgoing, NEW p \in Payers,
             CheckPayment(p, bill, line)
      PROVE  PayablesInv'
  <2>1. paying' \in [Payers -> {<<>>} \union (Bills \X Outgoing)]
    BY <1>0, <1>7 DEF CheckPayment
  <2> QED
    BY <1>7, <2>1, BooksStandStill DEF CheckPayment
<1>8. ASSUME NEW bill \in Bills, NEW e \in PayableEntries, NEW f \in PayableEntries,
             AdoptLegacy(bill, e, f)
      PROVE  PayablesInv'
  BY <1>8, AdoptLegacyInv
<1>9. ASSUME NEW p \in Payers, PostPayment(p) PROVE PayablesInv'
  BY <1>9, PostPaymentInv
<1>10. ASSUME NEW e \in PayableEntries, ReverseEntry(e) PROVE PayablesInv'
  <2>1. PICK x : x = [journal[e] EXCEPT !.kind = "reversal", !.of = e]
    OBVIOUS
  <2>2. x \in EntryRecords /\ x.of \in 0 .. Len(journal) /\ x.kind = "reversal"
    <3>1. x \in EntryRecords /\ x.kind = "reversal" /\ x.of = e
      BY <2>1, Reversal
    <3>2. e \in 1 .. Len(journal) /\ Len(journal) \in Nat
      BY DEF PayablesTyped, PayableEntries
    <3> QED
      BY <3>1, <3>2
  <2> QED
    BY <1>10, <2>1, <2>2, PaysNothing DEF ReverseEntry
<1> QED
  BY <1>1, <1>2, <1>3, <1>4, <1>5, <1>6, <1>7, <1>8, <1>9, <1>10 DEF PayablesNext

-----------------------------------------------------------------------------
(* The types and the property, inductive together, of what the company      *)
(* owes its suppliers (payables.ts, expense-booking.ts and the two          *)
(* corrections).                                                            *)
THEOREM PayablesInvariant == PayablesSpec => []PayablesInv
<1>1. PayablesInit => PayablesInv
  BY PayablesInitInv, PayablesAssumption
<1>2. PayablesInv /\ [PayablesNext]_payablesVars => PayablesInv'
  BY PayablesStepInv, PayablesAssumption
<1> QED BY <1>1, <1>2, PTL DEF PayablesSpec

(* At most one live entry pays with a bank line, and it is the line's       *)
(* evidence, whatever was checked before another process booked the line    *)
(* (payPayableFromBank, bookExpenseFromBank,                                *)
(* applyDirectBankPurchasePayableCorrection,                                *)
(* applyLegacyPayablePaymentBackfill).                                      *)
THEOREM LinesPayOnce == PayablesSpec => []LinePaysOnce
<1>1. PayablesInv => LinePaysOnce
  BY DEF PayablesInv
<1> QED
  BY <1>1, PayablesInvariant, PTL

(* The journal, the rows that point into it and what is settled have their  *)
(* types.                                                                   *)
THEOREM PayablesTypes == PayablesSpec => []PayablesTypeOK
<1>1. PayablesInv => PayablesTypeOK
  <2> SUFFICES ASSUME PayablesInv PROVE PayablesTypeOK
    OBVIOUS
  <2>1. \A e \in PayableEntries : journal[e] \in EntryRecords
    BY DEF PayablesInv, PayablesTyped, PayableEntries
  <2> QED
    BY <2>1 DEF PayablesInv, PayablesTyped, PayablesTypeOK, EntryRecords, PaymentRecords
<1> QED BY <1>1, PayablesInvariant, PTL

-----------------------------------------------------------------------------
(* Schedules: what a register reports of an item is what the ledger holds  *)
(* of it, for any number of items, periods, amounts and processes.  The    *)
(* invariant says that the journal and the registers list the same things, *)
(* each once; that the sums agree follows by renaming the entries of an    *)
(* item to its postings, and those to the periods.                         *)

ScheduleEntries == (Items \X Nat) \union (AssetPurchases \X {0})

Checked ==
  {x \in Items \X Nat : x[1] \in registered /\ x[2] \in 1 .. Periods[x[1]]}
    \union (AssetPurchases \X {0})

SchedulesTyped ==
  /\ books \in Seq(ScheduleEntries)
  /\ reversals \subseteq DOMAIN books
  /\ registered \subseteq Items
  /\ released \subseteq Items \X Nat
  /\ \A x \in released : x[1] \in registered /\ x[2] \in 1 .. Periods[x[1]]
  /\ writeOffs \subseteq AssetPurchases /\ review \subseteq AssetPurchases
  /\ checked \in [Posters -> {Free} \union Checked]

(* Nothing is in the journal twice.                                         *)
EntersOnce == \A i, j \in DOMAIN books : books[i] = books[j] => i = j

(* Every entry has its row, and every row its entry.                        *)
EntriesHaveRows ==
  \A i \in DOMAIN books :
    /\ books[i][1] \in Items /\ books[i][2] > 0 => books[i] \in released
    /\ books[i][1] \in Items /\ books[i][2] = 0 => books[i][1] \in registered
    /\ books[i][1] \in AssetPurchases => books[i][1] \in writeOffs

RowsHaveEntries ==
  /\ \A x \in released : \E i \in DOMAIN books : books[i] = x
  /\ \A a \in registered \intersect Accruals :
       \E i \in DOMAIN books : books[i][1] = a /\ books[i][2] = 0

SchedulesInv == SchedulesTyped /\ EntersOnce /\ EntriesHaveRows /\ RowsHaveEntries

LEMMA SchedulesInitially == SchedulesInit => SchedulesInv
BY SchedulesAssumption
   DEF SchedulesInit, SchedulesInv, SchedulesTyped, EntersOnce, EntriesHaveRows,
       RowsHaveEntries, Checked, ScheduleEntries, Free

(* A new entry that is like none before it.                                 *)
LEMMA NewEntry ==
  ASSUME SchedulesInv, NEW x \in ScheduleEntries, books' = Append(books, x),
         \A i \in DOMAIN books : books[i] # x
  PROVE  /\ (books \in Seq(ScheduleEntries))' /\ EntersOnce'
         /\ DOMAIN books \subseteq DOMAIN books'
         /\ \A i \in DOMAIN books : books'[i] = books[i]
         /\ \A i \in DOMAIN books' : i \notin DOMAIN books => books'[i] = x
         /\ \E i \in DOMAIN books' : books'[i] = x
<1>1. PICK n \in Nat : n = Len(books) /\ DOMAIN books = 1 .. n
  BY DEF SchedulesInv, SchedulesTyped
<1>2. /\ (books \in Seq(ScheduleEntries))' /\ DOMAIN books' = 1 .. n + 1
      /\ \A i \in 1 .. n : books'[i] = books[i]
      /\ books'[n + 1] = x
  BY <1>1 DEF SchedulesInv, SchedulesTyped
<1>3. \A i \in 1 .. n + 1 : i \notin 1 .. n => i = n + 1
  OBVIOUS
<1>4. EntersOnce'
  BY <1>1, <1>2, <1>3 DEF SchedulesInv, EntersOnce
<1> QED
  BY <1>1, <1>2, <1>3, <1>4

LEMMA RegisterItemKeeps ==
  ASSUME SchedulesInv, NEW item \in Items, RegisterItem(item)
  PROVE  SchedulesInv'
<1> USE DEF SchedulesInv
<1>1. Checked \subseteq Checked' /\ item \notin registered /\ registered' = registered \union {item}
  BY DEF Checked, RegisterItem
<1>2. CASE item \in Accruals
  <2>a. <<item, 0>> \in ScheduleEntries
    BY DEF ScheduleEntries
  <2>1. PICK x \in ScheduleEntries : x = <<item, 0>> /\ x[1] = item /\ x[2] = 0
    BY <2>a
  <2>2. books' = Append(books, x) /\ UNCHANGED <<reversals, released, writeOffs, review, checked>>
    BY <1>2, <2>1 DEF RegisterItem
  <2>3. \A i \in DOMAIN books : books[i] # x
    BY <1>1, <2>1 DEF EntriesHaveRows
  <2>4. /\ (books \in Seq(ScheduleEntries))' /\ EntersOnce'
        /\ DOMAIN books \subseteq DOMAIN books'
        /\ \A i \in DOMAIN books : books'[i] = books[i]
        /\ \A i \in DOMAIN books' : i \notin DOMAIN books => books'[i] = x
        /\ \E i \in DOMAIN books' : books'[i] = x
    BY <2>2, <2>3, NewEntry
  <2>5. SchedulesTyped'
    BY <1>1, <2>2, <2>4 DEF SchedulesTyped
  <2>6. item \notin AssetPurchases
    BY SchedulesAssumption DEF Items
  <2>7. EntriesHaveRows'
    BY <1>1, <2>1, <2>2, <2>4, <2>6 DEF EntriesHaveRows
  <2>8. RowsHaveEntries'
    BY <1>1, <2>1, <2>2, <2>4 DEF RowsHaveEntries
  <2> QED BY <2>4, <2>5, <2>7, <2>8
<1>3. CASE item \notin Accruals
  <2>1. UNCHANGED <<books, reversals, released, writeOffs, review, checked>>
    BY <1>3 DEF RegisterItem
  <2>2. SchedulesTyped'
    BY <1>1, <2>1 DEF SchedulesTyped
  <2> QED BY <1>1, <1>3, <2>1, <2>2 DEF EntersOnce, EntriesHaveRows, RowsHaveEntries
<1> QED BY <1>2, <1>3

(* What only changes what the processes have in hand, the advisor's queue   *)
(* or the list of reversals.                                                *)
LEMMA AsideKeeps ==
  ASSUME SchedulesInv, UNCHANGED <<books, registered, released, writeOffs>>,
         reversals' \subseteq DOMAIN books, review' \subseteq AssetPurchases,
         checked' \in [Posters -> {Free} \union Checked]
  PROVE  SchedulesInv'
<1>1. Checked' = Checked
  BY DEF Checked
<1>2. SchedulesTyped'
  BY <1>1 DEF SchedulesInv, SchedulesTyped
<1> QED
  BY <1>2 DEF SchedulesInv, EntersOnce, EntriesHaveRows, RowsHaveEntries

LEMMA PostPeriodKeeps ==
  ASSUME SchedulesInv, NEW p \in Posters, PostPeriod(p)
  PROVE  SchedulesInv'
<1> USE DEF SchedulesInv
<1>1. PICK x : x = checked[p]
  OBVIOUS
<1>2. x \in Checked /\ x[1] \in Items
  BY <1>1 DEF PostPeriod, SchedulesTyped
<1>3. x \in Items \X Nat /\ x[1] \in registered /\ x[2] \in 1 .. Periods[x[1]]
  BY <1>2, SchedulesAssumption DEF Checked
<1>4. Checked' = Checked /\ UNCHANGED <<reversals, registered, writeOffs, review>>
  BY DEF Checked, PostPeriod
<1>5. checked' \in [Posters -> {Free} \union Checked]
  BY DEF PostPeriod, SchedulesTyped
<1>6. CASE Slice(x[1], x[2]) > 0 /\ x \notin released
  <2>1. books' = Append(books, x) /\ released' = released \union {x}
    BY <1>1, <1>6 DEF PostPeriod
  <2>2. x \in ScheduleEntries /\ x[2] > 0
    BY <1>3, SchedulesAssumption DEF ScheduleEntries
  <2>3. \A i \in DOMAIN books : books[i] # x
    BY <1>2, <1>6, <2>2 DEF EntriesHaveRows
  <2>4. /\ (books \in Seq(ScheduleEntries))' /\ EntersOnce'
        /\ DOMAIN books \subseteq DOMAIN books'
        /\ \A i \in DOMAIN books : books'[i] = books[i]
        /\ \A i \in DOMAIN books' : i \notin DOMAIN books => books'[i] = x
        /\ \E i \in DOMAIN books' : books'[i] = x
    BY <2>1, <2>2, <2>3, NewEntry
  <2>5. SchedulesTyped'
    BY <1>3, <1>4, <1>5, <2>1, <2>4 DEF SchedulesTyped
  <2>6. x[1] \notin AssetPurchases
    BY <1>2, SchedulesAssumption
  <2>7. EntriesHaveRows'
    BY <1>4, <2>1, <2>2, <2>4, <2>6 DEF EntriesHaveRows
  <2>8. RowsHaveEntries'
    BY <1>4, <2>1, <2>4 DEF RowsHaveEntries
  <2> QED BY <2>4, <2>5, <2>7, <2>8
<1>7. CASE ~(Slice(x[1], x[2]) > 0 /\ x \notin released)
  <2>1. UNCHANGED <<books, released>>
    BY <1>1, <1>7 DEF PostPeriod
  <2> QED BY <1>4, <1>5, <2>1, AsideKeeps DEF SchedulesTyped
<1> QED BY <1>6, <1>7

LEMMA PostWriteOffKeeps ==
  ASSUME SchedulesInv, NEW p \in Posters, PostWriteOff(p)
  PROVE  SchedulesInv'
<1> USE DEF SchedulesInv
<1>1. PICK x : x = checked[p]
  OBVIOUS
<1>2. x \in Checked /\ x[1] \in AssetPurchases
  BY <1>1 DEF PostWriteOff, SchedulesTyped
<1>3. x \in AssetPurchases \X {0} /\ x[1] \notin Items /\ x[2] = 0
  BY <1>2, SchedulesAssumption DEF Checked
<1>4. Checked' = Checked /\ UNCHANGED <<reversals, registered, released, review>>
  BY DEF Checked, PostWriteOff
<1>5. checked' \in [Posters -> {Free} \union Checked]
  BY DEF PostWriteOff, SchedulesTyped
<1>6. writeOffs' = writeOffs \union {x[1]}
  BY <1>1 DEF PostWriteOff
<1>7. CASE x[1] \notin writeOffs
  <2>1. books' = Append(books, x)
    BY <1>1, <1>7 DEF PostWriteOff
  <2>2. x \in ScheduleEntries
    BY <1>3 DEF ScheduleEntries
  <2>3. \A i \in DOMAIN books : books[i] # x
    BY <1>2, <1>7 DEF EntriesHaveRows
  <2>4. /\ (books \in Seq(ScheduleEntries))' /\ EntersOnce'
        /\ DOMAIN books \subseteq DOMAIN books'
        /\ \A i \in DOMAIN books : books'[i] = books[i]
        /\ \A i \in DOMAIN books' : i \notin DOMAIN books => books'[i] = x
        /\ \E i \in DOMAIN books' : books'[i] = x
    BY <2>1, <2>2, <2>3, NewEntry
  <2>5. SchedulesTyped'
    BY <1>2, <1>4, <1>5, <1>6, <2>4 DEF SchedulesTyped
  <2>6. EntriesHaveRows'
    BY <1>3, <1>4, <1>6, <2>4 DEF EntriesHaveRows
  <2>7. RowsHaveEntries'
    BY <1>4, <2>4 DEF RowsHaveEntries
  <2> QED BY <2>4, <2>5, <2>6, <2>7
<1>8. CASE x[1] \in writeOffs
  <2>1. UNCHANGED <<books, writeOffs>>
    BY <1>1, <1>6, <1>8 DEF PostWriteOff
  <2> QED BY <1>4, <1>5, <2>1, AsideKeeps DEF SchedulesTyped
<1> QED BY <1>7, <1>8

LEMMA SchedulesKeeps == SchedulesInv /\ [SchedulesNext]_schedulesVars => SchedulesInv'
<1> SUFFICES ASSUME SchedulesInv, [SchedulesNext]_schedulesVars PROVE SchedulesInv'
  OBVIOUS
<1> USE DEF SchedulesInv
<1>1. CASE UNCHANGED schedulesVars
  BY <1>1, AsideKeeps DEF schedulesVars, SchedulesTyped
<1>2. ASSUME NEW item \in Items, RegisterItem(item) PROVE SchedulesInv'
  BY <1>2, RegisterItemKeeps
<1>3. ASSUME NEW p \in Posters, NEW item \in Items, NEW period \in 1 .. Periods[item],
             CheckPeriod(p, item, period)
      PROVE  SchedulesInv'
  <2>1. <<item, period>> \in Checked
    BY <1>3, SchedulesAssumption DEF CheckPeriod, Checked
  <2>2. checked' \in [Posters -> {Free} \union Checked]
    BY <1>3, <2>1 DEF CheckPeriod, SchedulesTyped
  <2> QED BY <1>3, <2>2, AsideKeeps DEF CheckPeriod, SchedulesTyped
<1>4. ASSUME NEW p \in Posters, PostPeriod(p) PROVE SchedulesInv'
  BY <1>4, PostPeriodKeeps
<1>5. ASSUME NEW p \in Posters, PostWriteOff(p) PROVE SchedulesInv'
  BY <1>5, PostWriteOffKeeps
<1>6. ASSUME NEW p \in Posters, DropCheck(p) PROVE SchedulesInv'
  <2>1. checked' \in [Posters -> {Free} \union Checked]
    BY <1>6 DEF DropCheck, SchedulesTyped
  <2> QED BY <1>6, <2>1, AsideKeeps DEF DropCheck, SchedulesTyped
<1>7. ASSUME NEW p \in Posters, NEW doc \in AssetPurchases, CheckWriteOff(p, doc)
      PROVE  SchedulesInv'
  <2>1. <<doc, 0>> \in Checked
    BY DEF Checked
  <2>2. checked' \in [Posters -> {Free} \union Checked]
    BY <1>7, <2>1 DEF CheckWriteOff, SchedulesTyped
  <2>3. review' \subseteq AssetPurchases
    BY <1>7 DEF CheckWriteOff, SchedulesTyped
  <2> QED BY <1>7, <2>2, <2>3, AsideKeeps DEF CheckWriteOff, SchedulesTyped
<1>8. ASSUME NEW i \in DOMAIN books, ReverseScheduled(i) PROVE SchedulesInv'
  <2>1. reversals' \subseteq DOMAIN books
    BY <1>8 DEF ReverseScheduled, SchedulesTyped
  <2> QED BY <1>8, <2>1, AsideKeeps DEF ReverseScheduled, SchedulesTyped
<1> QED
  BY <1>1, <1>2, <1>3, <1>4, <1>5, <1>6, <1>7, <1>8 DEF SchedulesNext

(* The registers and the journal list the same things, whichever process    *)
(* books first and whatever is reversed.                                    *)
THEOREM SchedulesInvariant == SchedulesSpec => []SchedulesInv
<1>1. SchedulesInit => SchedulesInv
  BY SchedulesInitially
<1>2. SchedulesInv /\ [SchedulesNext]_schedulesVars => SchedulesInv'
  BY SchedulesKeeps
<1> QED BY <1>1, <1>2, PTL DEF SchedulesSpec

-----------------------------------------------------------------------------
(* The slices of an item make up its amount, and none is negative.          *)
LEMMA SlicesMakeTheTotal ==
  ASSUME NEW item \in Items
  PROVE  LET slices == [n \in 1 .. Periods[item] |-> Slice(item, n)]
         IN  /\ \A n \in 1 .. Periods[item] : slices[n] \in Nat
             /\ SumFunctionOnSet(slices, 1 .. Periods[item]) = Total[item]
<1>1. PICK k \in Nat \ {0} : k = Periods[item]
  BY SchedulesAssumption
<1>2. PICK total \in Nat : total = Total[item]
  BY SchedulesAssumption
<1>3. PICK base : base = total \div k
  OBVIOUS
<1>4. base \in Nat /\ base * k <= total
  <2>1. total = k * (total \div k) + (total % k) /\ total % k \in 0 .. k - 1
    OBVIOUS
  <2>2. (total \div k) \in Int /\ (total \div k) >= 0
    OBVIOUS
  <2> QED BY <1>3, <2>1, <2>2
<1>5. base * (k - 1) \in Nat /\ base * (k - 1) <= total
  BY <1>4
<1>6. PICK slices : slices = [n \in 1 .. k |-> Slice(item, n)]
  OBVIOUS
<1>7. /\ \A n \in 1 .. k - 1 : slices[n] = base
      /\ slices[k] = total - base * (k - 1)
  BY <1>1, <1>2, <1>3, <1>6 DEF Slice
<1>8. \A n \in 1 .. k : slices[n] \in Nat
  <2>1. \A n \in 1 .. k : n \in 1 .. k - 1 \/ n = k
    OBVIOUS
  <2> QED BY <1>4, <1>5, <1>7, <2>1
<1>9. PICK S : S = 1 .. k - 1
  OBVIOUS
<1>10. PICK whole : whole = 1 .. k /\ whole = S \union {k}
  BY <1>9
<1>14. IsFiniteSet(S) /\ k \notin S
  BY <1>9, FS_Interval
<1>11. SumFunctionOnSet(slices, S) = base * (k - 1)
  <2>1. \A n \in 1 .. k - 1 : slices[n] = base
    BY <1>7
  <2> QED BY <1>4, <1>9, <2>1, SumOfEqual
<1>12. SumFunctionOnSet(slices, S \union {k}) = slices[k] + SumFunctionOnSet(slices, S)
  <2>1. \A n \in S \union {k} : slices[n] \in Int
    BY <1>8, <1>10
  <2> QED BY <1>14, <2>1, SumAdds
<1>13. SumFunctionOnSet(slices, whole) = total
  <2>1. slices[k] = total - base * (k - 1)
    BY <1>7
  <2>2. PICK most \in Nat : most = base * (k - 1)
    BY <1>5
  <2>3. slices[k] = total - most
    BY <2>1, <2>2
  <2>4. SumFunctionOnSet(slices, S) = most
    BY <1>11, <2>2
  <2>5. SumFunctionOnSet(slices, whole) = slices[k] + SumFunctionOnSet(slices, S)
    BY <1>10, <1>12
  <2> QED BY <2>3, <2>4, <2>5
<1> QED
  BY <1>1, <1>2, <1>6, <1>8, <1>10, <1>13

(* What the register leaves of an item is what its periods leave.           *)
LEMMA RemainingByPeriods ==
  ASSUME SchedulesInv, NEW item \in Items
  PROVE  LET slices == [n \in 1 .. Periods[item] |-> Slice(item, n)]
             done == {n \in 1 .. Periods[item] : <<item, n>> \in released}
         IN  /\ Remaining(item) = Total[item] - SumFunctionOnSet(slices, done)
             /\ IsFiniteSet(PostedOf(item))
             /\ Cardinality(PostedOf(item)) = Cardinality(done)
<1>1. PICK k \in Nat \ {0} : k = Periods[item]
  BY SchedulesAssumption
<1>2. PICK slices : slices = [n \in 1 .. k |-> Slice(item, n)]
  OBVIOUS
<1>3. PICK done : done = {n \in 1 .. k : <<item, n>> \in released}
  OBVIOUS
<1>4. PICK f : f = [n \in done |-> <<item, n>>]
  OBVIOUS
<1>5. PICK P : P = PostedOf(item)
  OBVIOUS
<1>6. IsFiniteSet(done) /\ done \subseteq 1 .. k
  <2>1. PICK S : S = 1 .. k
    OBVIOUS
  <2>2. IsFiniteSet(S) /\ done \in SUBSET S
    BY <1>3, <2>1, FS_Interval
  <2> QED BY <2>1, <2>2, FS_Subset
<1>7. \A x \in P : x = <<item, x[2]>> /\ x[2] \in done
  BY <1>1, <1>3, <1>5 DEF PostedOf, SchedulesInv, SchedulesTyped
<1>8. \A n \in done : f[n] \in P /\ f[n][1] = item /\ f[n][2] = n
  BY <1>3, <1>4, <1>5 DEF PostedOf
<1>9. P = {f[n] : n \in done} /\ \A m, n \in done : f[m] = f[n] => m = n
  BY <1>4, <1>7, <1>8
<1>10. f \in Bijection(done, P)
  <2>1. f \in [done -> P]
    BY <1>4, <1>8
  <2>2. \A x \in P : \E n \in done : f[n] = x
    BY <1>9
  <2>3. \A m, n \in done : f[m] = f[n] => m = n
    BY <1>9
  <2> QED BY <2>1, <2>2, <2>3 DEF Bijection, Injection, Surjection, IsInjective
<1>11. IsFiniteSet(P) /\ Cardinality(P) = Cardinality(done)
  BY <1>6, <1>10, FS_Bijection DEF ExistsBijection
<1>12. PICK G : G = [x \in P |-> Slice(x[1], x[2])]
  OBVIOUS
<1>13. \A n \in done : slices[n] \in Int /\ G[f[n]] = slices[n]
  BY <1>1, <1>2, <1>6, <1>8, <1>12, SlicesMakeTheTotal
<1>14. SumFunctionOnSet(G, {f[n] : n \in done}) = SumFunctionOnSet(slices, done)
  <2>1. IsFiniteSet(done)
    BY <1>6
  <2>2. \A m, n \in done : f[m] = f[n] => m = n
    BY <1>9
  <2> QED BY <1>13, <2>1, <2>2, SumRenames
<1>15. Remaining(item) = Total[item] - SumFunctionOnSet(G, P)
  BY <1>5, <1>12 DEF Remaining, SumFunction
<1> QED
  BY <1>1, <1>2, <1>3, <1>5, <1>9, <1>11, <1>14, <1>15

(* While nothing of an item is reversed, the ledger holds what the register *)
(* leaves.                                                                  *)
LEMMA LedgerHoldsTheRest ==
  ASSUME SchedulesInv, NEW item \in registered, \A i \in reversals : books[i][1] # item
  PROVE  Parked(item) = Remaining(item)
<1>1. item \in Items
  BY DEF SchedulesInv, SchedulesTyped
<1>2. PICK P : P = PostedOf(item)
  OBVIOUS
<1>3. PICK I : I = {i \in DOMAIN books : books[i][1] = item /\ books[i][2] > 0}
  OBVIOUS
<1>4. PICK n \in Nat : n = Len(books) /\ DOMAIN books = 1 .. n
  BY DEF SchedulesInv, SchedulesTyped
<1>5. IsFiniteSet(I)
  <2>1. PICK S : S = 1 .. n
    OBVIOUS
  <2>2. IsFiniteSet(S) /\ I \in SUBSET S
    BY <1>3, <1>4, <2>1, FS_Interval
  <2> QED BY <2>2, FS_Subset
<1>6. \A i \in I : books[i] \in P
  BY <1>1, <1>2, <1>3 DEF PostedOf, SchedulesInv, EntriesHaveRows
<1>7. \A x \in P : \E i \in I : books[i] = x
  <2>1. \A x \in P : x[1] = item /\ x[2] > 0 /\ \E i \in DOMAIN books : books[i] = x
    BY <1>1, <1>2, SchedulesAssumption
       DEF PostedOf, SchedulesInv, SchedulesTyped, RowsHaveEntries
  <2> QED BY <1>3, <2>1
<1>8. P = {books[i] : i \in I} /\ \A i, j \in I : books[i] = books[j] => i = j
  BY <1>3, <1>6, <1>7 DEF SchedulesInv, EntersOnce
<1>9. PICK F : F = [i \in I |-> Slice(item, books[i][2])]
  OBVIOUS
<1>10. PICK G : G = [x \in P |-> Slice(x[1], x[2])]
  OBVIOUS
<1>11. \A i \in I : F[i] \in Int /\ G[books[i]] = F[i]
  <2>1. \A i \in I : books[i][1] = item /\ books[i][2] \in 1 .. Periods[item]
    BY <1>2, <1>3, <1>6 DEF PostedOf, SchedulesInv, SchedulesTyped
  <2>2. \A m \in 1 .. Periods[item] : Slice(item, m) \in Int
    <3>1. PICK slices : slices = [m \in 1 .. Periods[item] |-> Slice(item, m)]
      OBVIOUS
    <3>2. \A m \in 1 .. Periods[item] : slices[m] \in Nat
      BY <1>1, <3>1, SlicesMakeTheTotal
    <3> QED BY <3>1, <3>2
  <2> QED BY <1>6, <1>9, <1>10, <2>1, <2>2
<1>12. SumFunctionOnSet(G, {books[i] : i \in I}) = SumFunctionOnSet(F, I)
  BY <1>5, <1>8, <1>11, SumRenames
<1>13. Remaining(item) = Total[item] - SumFunctionOnSet(G, P)
  BY <1>2, <1>10 DEF Remaining, SumFunction
<1>14. PICK live : live = {i \in DOMAIN books \ reversals : books[i][1] = item}
  OBVIOUS
<1>15. live = {i \in DOMAIN books : books[i][1] = item}
  BY <1>14 DEF SchedulesInv, SchedulesTyped
<1>16. {j \in live : books[j][2] > 0} = I
  BY <1>3, <1>15
<1>17. item \in Assets \/ \E i \in live : books[i][2] = 0
  BY <1>1, <1>15 DEF Items, SchedulesInv, RowsHaveEntries
<1>18. Parked(item) = Total[item] - SumFunctionOnSet(F, I)
  BY <1>9, <1>14, <1>16, <1>17 DEF Parked, SumFunction
<1> QED BY <1>8, <1>12, <1>13, <1>18

LEMMA RegisterAgrees == SchedulesInv => RegisterIsTheLedger
<1> SUFFICES ASSUME SchedulesInv PROVE RegisterIsTheLedger
  OBVIOUS
<1>1. ASSUME NEW item \in registered
      PROVE  Remaining(item) >= 0 /\ (FullyRecognized(item) => Remaining(item) = 0)
  <2>1. item \in Items
    BY DEF SchedulesInv, SchedulesTyped
  <2>2. PICK k \in Nat \ {0} : k = Periods[item]
    BY <2>1, SchedulesAssumption
  <2>3. PICK total \in Nat : total = Total[item]
    BY <2>1, SchedulesAssumption
  <2>4. PICK slices : slices = [n \in 1 .. k |-> Slice(item, n)]
    OBVIOUS
  <2>5. PICK done : done = {n \in 1 .. k : <<item, n>> \in released}
    OBVIOUS
  <2>6. \A n \in 1 .. k : slices[n] \in Nat
    BY <2>1, <2>2, <2>4, SlicesMakeTheTotal
  <2>7. SumFunctionOnSet(slices, 1 .. k) = total
    BY <2>1, <2>2, <2>3, <2>4, SlicesMakeTheTotal
  <2>8. Remaining(item) = total - SumFunctionOnSet(slices, done)
    BY <2>1, <2>2, <2>3, <2>4, <2>5, RemainingByPeriods
  <2>9. Cardinality(PostedOf(item)) = Cardinality(done)
    BY <2>1, <2>2, <2>5, RemainingByPeriods
  <2>10. PICK S : S = 1 .. k
    OBVIOUS
  <2>11. IsFiniteSet(S) /\ Cardinality(S) = k /\ done \in SUBSET S
    BY <2>5, <2>10, FS_Interval
  <2>12. /\ SumFunctionOnSet(slices, done) \in Nat
         /\ SumFunctionOnSet(slices, done) <= SumFunctionOnSet(slices, S)
    <3>1. \A n \in S : slices[n] \in Nat
      BY <2>6, <2>10
    <3> QED BY <2>11, <3>1, SumsGrow
  <2>13. Cardinality(done) = k => done = S
    BY <2>11, FS_Subset
  <2>14. Remaining(item) >= 0
    BY <2>7, <2>8, <2>10, <2>12
  <2>15. ASSUME FullyRecognized(item) PROVE Remaining(item) = 0
    <3>1. Cardinality(done) = k
      BY <2>2, <2>9, <2>15 DEF FullyRecognized
    <3>2. SumFunctionOnSet(slices, done) = total
      BY <2>7, <2>10, <2>13, <3>1
    <3> QED BY <2>8, <3>2
  <2> QED BY <2>14, <2>15
<1>2. \A item \in registered :
        (\A i \in reversals : books[i][1] # item) => Parked(item) = Remaining(item)
  BY LedgerHoldsTheRest
<1>3. \A i, j \in DOMAIN books :
        (books[i] = books[j] /\ books[i][1] \in AssetPurchases) => i = j
  BY DEF SchedulesInv, EntersOnce
<1> QED BY <1>1, <1>2, <1>3 DEF RegisterIsTheLedger

(* Until something is reversed the register's rest of every item is the     *)
(* ledger's, never negative and nothing when all periods are posted; and a  *)
(* purchase is written off once - for any number of items, periods, amounts *)
(* and processes between their check and their transaction (accruals.ts,    *)
(* assets.ts).                                                              *)
THEOREM RegistersAgree == SchedulesSpec => []RegisterIsTheLedger
BY SchedulesInvariant, RegisterAgrees, PTL

(* The journal, the reversals and the registers have their types.           *)
THEOREM SchedulesTypes == SchedulesSpec => []SchedulesTypeOK
<1>1. SchedulesInv => SchedulesTypeOK
  BY DEF SchedulesInv, SchedulesTyped, SchedulesTypeOK, ScheduleEntries
<1> QED BY <1>1, SchedulesInvariant, PTL

-----------------------------------------------------------------------------
(* Receivables: what was given back of an invoice is exact and rests on    *)
(* evidence, for any number of entries in any order of dates.  That the    *)
(* VAT adds up is inductive only among credit notes, each of which is the  *)
(* share up to it; once something is written off, the evidence of the      *)
(* write-off that is last by date speaks of all relief there is, however   *)
(* it was entered, and the triggers keep that evidence true.               *)

Figures == {"amount", "dkk", "vat", "vatDkk"}

ReliefsIn(rs) == {i \in DOMAIN rs : Relieves(rs[i])}

HasWriteOff(rs) == \E w \in DOMAIN rs : rs[w].kind = "writeoff"

(* VatReliefExact of any sequence of entries.                               *)
ExactOver(rs) ==
  /\ SumOf(rs, ReliefsIn(rs), "amount") <= invoice.gross
  /\ SumOf(rs, ReliefsIn(rs), "vat")
       = CumulativeVat(invoice.vat, SumOf(rs, ReliefsIn(rs), "amount"))
  /\ SumOf(rs, ReliefsIn(rs), "vatDkk")
       = CumulativeVat(invoice.vatDkk, SumOf(rs, ReliefsIn(rs), "amount"))

(* A refund gives back what a DKK invoice was overpaid.                     *)
RefundsInDkk(rs) == Foreign => \A i \in DOMAIN rs : rs[i].kind # "refund"

RowsHold(rs) ==
  /\ rs \in Seq(Entries)
  /\ WriteOffsStand(rs)
  /\ PaymentsStand(rs)
  /\ ExactOver(rs)
  /\ RefundsInDkk(rs)

PrincipalInv == invoice \in IssuedInvoices /\ RowsHold(rows)

-----------------------------------------------------------------------------
(* Sums over the entries.                                                   *)

LEMMA FigureTypes ==
  ASSUME NEW r \in Entries, NEW field \in Figures
  PROVE  r[field] \in Int
BY DEF Entries, Figures

LEMMA SumSplits ==
  ASSUME NEW rs \in Seq(Entries), NEW field \in Figures, NEW S, S \subseteq DOMAIN rs
  PROVE  /\ SumOf(rs, S, field) \in Int
         /\ \A a \in S : SumOf(rs, S, field) = rs[a][field] + SumOf(rs, S \ {a}, field)
<1>1. PICK n \in Nat : n = Len(rs) /\ DOMAIN rs = 1 .. n
  OBVIOUS
<1>2. PICK T : T = 1 .. n
  OBVIOUS
<1>3. IsFiniteSet(T) /\ S \in SUBSET T
  BY <1>1, <1>2, FS_Interval
<1>4. IsFiniteSet(S)
  BY <1>3, FS_Subset
<1>5. PICK F : F = [i \in DOMAIN rs |-> rs[i][field]]
  OBVIOUS
<1>6. \A i \in S : F[i] = rs[i][field] /\ F[i] \in Int
  BY <1>1, <1>5, FigureTypes
<1>7. SumFunctionOnSet(F, S) \in Int
  BY <1>4, <1>6, SumType
<1>8. ASSUME NEW a \in S
      PROVE  SumFunctionOnSet(F, S) = F[a] + SumFunctionOnSet(F, S \ {a})
  BY <1>4, <1>6, SumRemoves
<1> QED BY <1>5, <1>6, <1>7, <1>8 DEF SumOf

LEMMA SumExtends ==
  ASSUME NEW rs \in Seq(Entries), NEW r \in Entries, NEW field \in Figures,
         NEW S, S \subseteq DOMAIN rs
  PROVE  /\ SumOf(Append(rs, r), S, field) = SumOf(rs, S, field)
         /\ SumOf(Append(rs, r), S \union {Len(rs) + 1}, field)
              = r[field] + SumOf(rs, S, field)
<1>1. PICK n \in Nat : n = Len(rs) /\ DOMAIN rs = 1 .. n
  OBVIOUS
<1>2. PICK T : T = 1 .. n
  OBVIOUS
<1>3. IsFiniteSet(T) /\ S \in SUBSET T
  BY <1>1, <1>2, FS_Interval
<1>4. IsFiniteSet(S) /\ n + 1 \notin S
  BY <1>2, <1>3, FS_Subset
<1>5. PICK es : es = Append(rs, r)
  OBVIOUS
<1>6. /\ es \in Seq(Entries) /\ DOMAIN es = 1 .. n + 1
      /\ es[n + 1] = r /\ \A i \in 1 .. n : es[i] = rs[i]
  BY <1>1, <1>5
<1>7. PICK F : F = [i \in DOMAIN rs |-> rs[i][field]]
  OBVIOUS
<1>8. PICK G : G = [i \in DOMAIN es |-> es[i][field]]
  OBVIOUS
<1>9. \A i \in S : F[i] = G[i]
  BY <1>1, <1>2, <1>3, <1>6, <1>7, <1>8
<1>10. SumFunctionOnSet(F, S) = SumFunctionOnSet(G, S)
  BY <1>4, <1>9, SumCongruence
<1>11. PICK m : m = n + 1
  OBVIOUS
<1>12. \A i \in S \union {m} : G[i] \in Int
  <2>1. \A i \in 1 .. n + 1 : G[i] = es[i][field] /\ es[i] \in Entries
    BY <1>6, <1>8
  <2>2. \A i \in S \union {m} : i \in 1 .. n + 1
    BY <1>2, <1>3, <1>11
  <2> QED BY <2>1, <2>2, FigureTypes
<1>13. G[m] = r[field]
  BY <1>6, <1>8, <1>11
<1>14. SumFunctionOnSet(G, S \union {m}) = G[m] + SumFunctionOnSet(G, S)
  BY <1>4, <1>11, <1>12, SumAdds
<1> QED
  BY <1>1, <1>5, <1>7, <1>8, <1>10, <1>11, <1>13, <1>14 DEF SumOf

-----------------------------------------------------------------------------
LEMMA InvoiceTypes ==
  ASSUME invoice \in IssuedInvoices
  PROVE  /\ invoice.gross \in Nat \ {0} /\ invoice.dkk \in Nat \ {0}
         /\ invoice.vat \in Int /\ invoice.vatDkk \in Int
BY ReceivablesAssumption

LEMMA RoundedTypes ==
  ASSUME NEW a \in Int, NEW b \in Nat \ {0}
  PROVE  Rounded(a, b) \in Int
<1>1. PICK c \in Int : c = 2 * a + b
  OBVIOUS
<1>2. PICK d \in Nat \ {0} : d = 2 * b
  OBVIOUS
<1>3. c \div d \in Int
  OBVIOUS
<1> QED BY <1>1, <1>2, <1>3 DEF Rounded

LEMMA CumulativeTypes ==
  ASSUME invoice \in IssuedInvoices, NEW vat \in Int, NEW relieved \in Int
  PROVE  CumulativeVat(vat, relieved) \in Int
<1>1. vat * relieved \in Int
  OBVIOUS
<1>2. Rounded(vat * relieved, invoice.gross) \in Int
  BY <1>1, InvoiceTypes, RoundedTypes
<1> QED BY <1>2 DEF CumulativeVat

(* The write-off that is last by date, and by entry on one date.            *)
LEMMA LastWriteOff ==
  ASSUME NEW rs \in Seq(Entries), HasWriteOff(rs)
  PROVE  \E w \in DOMAIN rs :
           /\ rs[w].kind = "writeoff"
           /\ \A v \in DOMAIN rs :
                rs[v].kind = "writeoff" /\ v # w => Earlier(rs, v, w)
<1>1. PICK n \in Nat : n = Len(rs) /\ DOMAIN rs = 1 .. n
  OBVIOUS
<1>2. \A i \in 1 .. n : rs[i].date \in 0 .. LastDay /\ rs[i].date \in Nat
  <2>1. \A i \in 1 .. n : rs[i] \in Entries
    BY <1>1
  <2>2. LastDay \in Nat
    BY ReceivablesAssumption
  <2>3. \A e \in Entries : e.date \in 0 .. LastDay
    BY DEF Entries, Days
  <2> QED BY <2>1, <2>2, <2>3
<1>3. PICK W : W = {w \in 1 .. n : rs[w].kind = "writeoff"}
  OBVIOUS
<1>4. W # {} /\ W \subseteq 1 .. n
  BY <1>1, <1>3 DEF HasWriteOff
<1>5. PICK D : D = {d \in Nat : \E w \in W : rs[w].date = d}
  OBVIOUS
<1>6. D \in SUBSET Nat /\ D # {} /\ \A d \in D : d <= LastDay
  <2>1. PICK w \in W : TRUE
    BY <1>4
  <2>2. rs[w].date \in D
    BY <1>2, <1>4, <1>5, <2>1
  <2>3. \A d \in D : d <= LastDay
    BY <1>2, <1>4, <1>5, ReceivablesAssumption
  <2> QED BY <1>5, <2>2, <2>3
<1>7. PICK d \in D : \A k \in D : k <= d
  BY <1>6, ReceivablesAssumption, GreatestExists
<1>8. PICK I : I = {w \in W : rs[w].date = d}
  OBVIOUS
<1>9. I \in SUBSET Nat /\ I # {} /\ \A k \in I : k <= n
  <2>1. PICK w \in W : rs[w].date = d
    BY <1>5, <1>7
  <2>2. w \in I
    BY <1>8, <2>1
  <2>3. I \subseteq 1 .. n
    BY <1>4, <1>8
  <2> QED BY <1>1, <2>2, <2>3
<1>10. PICK w \in I : \A k \in I : k <= w
  BY <1>1, <1>9, GreatestExists
<1>11. ASSUME NEW v \in W, v # w PROVE Earlier(rs, v, w)
  <2>1. rs[v].date \in D /\ rs[v].date \in Nat /\ d \in Nat
    BY <1>2, <1>4, <1>5, <1>7
  <2>2. rs[v].date < d \/ rs[v].date = d
    BY <1>7, <2>1
  <2>3. rs[v].date = d => v <= w
    BY <1>8, <1>10, <1>11
  <2>4. v \in Nat /\ w \in Nat /\ rs[w].date = d
    BY <1>4, <1>8, <1>10, <1>11
  <2> QED BY <1>11, <2>2, <2>3, <2>4 DEF Earlier
<1> QED BY <1>1, <1>3, <1>8, <1>10, <1>11

(* As soon as there is a write-off, the evidence of the last one is the     *)
(* sum over all reliefs.                                                    *)
LEMMA WriteOffsMakeExact ==
  ASSUME invoice \in IssuedInvoices, NEW rs \in Seq(Entries), HasWriteOff(rs),
         WriteOffsStand(rs)
  PROVE  ExactOver(rs)
<1>1. PICK w \in DOMAIN rs :
        /\ rs[w].kind = "writeoff"
        /\ \A v \in DOMAIN rs :
             rs[v].kind = "writeoff" /\ v # w => Earlier(rs, v, w)
  BY LastWriteOff
<1>2. ValidWriteOff(rs, w)
  BY <1>1 DEF WriteOffsStand
<1>3. PICK reliefs : reliefs = {i \in {j \in DOMAIN rs : Earlier(rs, j, w)} : Relieves(rs[i])}
  OBVIOUS
<1>4. PICK all : all = ReliefsIn(rs)
  OBVIOUS
<1>5. \A i \in DOMAIN rs : rs[i].kind = "credit" /\ i # w => Earlier(rs, i, w)
  BY <1>2 DEF ValidWriteOff
<1>6. ~Earlier(rs, w, w)
  <2>1. w \in Nat /\ rs[w].date \in Int
    <3>1. rs[w] \in Entries
      BY <1>1
    <3>2. \A e \in Entries : e.date \in 0 .. LastDay
      BY DEF Entries, Days
    <3> QED BY <1>1, <3>1, <3>2
  <2> QED BY <2>1 DEF Earlier
<1>7. w \in all /\ all \subseteq DOMAIN rs
  BY <1>1, <1>4 DEF ReliefsIn, Relieves
<1>8. all \ {w} = reliefs
  BY <1>1, <1>3, <1>4, <1>5, <1>6 DEF ReliefsIn, Relieves
<1>9. /\ SumOf(rs, reliefs, "amount") + rs[w].amount <= invoice.gross
      /\ rs[w].vat = CumulativeVat(invoice.vat, SumOf(rs, reliefs, "amount") + rs[w].amount)
                        - SumOf(rs, reliefs, "vat")
      /\ rs[w].vatDkk = CumulativeVat(invoice.vatDkk, SumOf(rs, reliefs, "amount") + rs[w].amount)
                        - SumOf(rs, reliefs, "vatDkk")
      /\ rs[w].vat \in 0 .. rs[w].amount
  BY <1>2, <1>3 DEF ValidWriteOff
<1>10. ASSUME NEW field \in Figures
       PROVE  /\ SumOf(rs, all, field) = rs[w][field] + SumOf(rs, reliefs, field)
              /\ SumOf(rs, reliefs, field) \in Int /\ rs[w][field] \in Int
  <2>1. reliefs \subseteq DOMAIN rs
    BY <1>3
  <2>2. SumOf(rs, reliefs, field) \in Int
    BY <2>1, SumSplits
  <2>3. SumOf(rs, all, field) = rs[w][field] + SumOf(rs, all \ {w}, field)
    BY <1>7, SumSplits
  <2>4. rs[w] \in Entries
    BY <1>1
  <2>5. rs[w][field] \in Int
    BY <2>4, FigureTypes
  <2> QED BY <1>8, <2>2, <2>3, <2>5
<1>11. PICK sum \in Int : sum = SumOf(rs, all, "amount")
  BY <1>7, SumSplits DEF Figures
<1>12. sum = SumOf(rs, reliefs, "amount") + rs[w].amount
  BY <1>10, <1>11 DEF Figures
<1>13. /\ SumOf(rs, all, "vat") = rs[w].vat + SumOf(rs, reliefs, "vat")
       /\ SumOf(rs, reliefs, "vat") \in Int /\ rs[w].vat \in Int
  BY <1>10 DEF Figures
<1>14. /\ SumOf(rs, all, "vatDkk") = rs[w].vatDkk + SumOf(rs, reliefs, "vatDkk")
       /\ SumOf(rs, reliefs, "vatDkk") \in Int /\ rs[w].vatDkk \in Int
  BY <1>10 DEF Figures
<1>15. sum <= invoice.gross
  BY <1>9, <1>12
<1>16. PICK c \in Int : c = CumulativeVat(invoice.vat, sum)
  BY InvoiceTypes, CumulativeTypes
<1>17. PICK e \in Int : e = CumulativeVat(invoice.vatDkk, sum)
  BY InvoiceTypes, CumulativeTypes
<1>18. rs[w].vat = c - SumOf(rs, reliefs, "vat") /\ rs[w].vatDkk = e - SumOf(rs, reliefs, "vatDkk")
  BY <1>9, <1>12, <1>16, <1>17
<1> QED BY <1>4, <1>11, <1>13, <1>14, <1>15, <1>16, <1>17, <1>18 DEF ExactOver

-----------------------------------------------------------------------------
(* One more entry.                                                          *)
LEMMA AppendedEntry ==
  ASSUME NEW rs \in Seq(Entries), NEW r \in Entries
  PROVE  \E n \in Nat :
           /\ n = Len(rs) /\ DOMAIN rs = 1 .. n
           /\ Append(rs, r) \in Seq(Entries)
           /\ DOMAIN Append(rs, r) = 1 .. n + 1
           /\ \A i \in 1 .. n : Append(rs, r)[i] = rs[i]
           /\ Append(rs, r)[n + 1] = r
OBVIOUS

(* What neither credits nor writes off leaves the relief as it was.         *)
LEMMA ExactWithoutRelief ==
  ASSUME NEW rs \in Seq(Entries), NEW r \in Entries, ~Relieves(r), ExactOver(rs)
  PROVE  ExactOver(Append(rs, r))
<1>1. PICK es : es = Append(rs, r)
  OBVIOUS
<1>2. PICK n \in Nat :
        /\ n = Len(rs) /\ DOMAIN rs = 1 .. n
        /\ es \in Seq(Entries) /\ DOMAIN es = 1 .. n + 1
        /\ \A i \in 1 .. n : es[i] = rs[i]
        /\ es[n + 1] = r
  BY <1>1, AppendedEntry
<1>3. ReliefsIn(es) = ReliefsIn(rs)
  <2>1. \A i \in 1 .. n + 1 : i \in 1 .. n \/ i = n + 1
    OBVIOUS
  <2>2. \A i \in 1 .. n : i \in 1 .. n + 1
    OBVIOUS
  <2> QED BY <1>2, <2>1, <2>2 DEF ReliefsIn
<1>4. PICK S : S = ReliefsIn(rs) /\ S \subseteq DOMAIN rs
  BY DEF ReliefsIn
<1>5. \A field \in Figures : SumOf(es, S, field) = SumOf(rs, S, field)
  BY <1>1, <1>4, SumExtends
<1>6. /\ SumOf(es, S, "amount") = SumOf(rs, S, "amount")
      /\ SumOf(es, S, "vat") = SumOf(rs, S, "vat")
      /\ SumOf(es, S, "vatDkk") = SumOf(rs, S, "vatDkk")
  BY <1>5 DEF Figures
<1> QED BY <1>1, <1>3, <1>4, <1>6 DEF ExactOver

(* Among credit notes each is the share up to it.                           *)
LEMMA ExactCredit ==
  ASSUME invoice \in IssuedInvoices, NEW rs \in Seq(Entries), ~HasWriteOff(rs),
         NEW r \in Entries, r.kind = "credit", NEW credits,
         credits = {i \in DOMAIN rs : rs[i].kind = "credit"},
         NEW total, total = SumOf(rs, credits, "amount") + r.amount,
         total <= invoice.gross,
         r.vat = CumulativeVat(invoice.vat, total) - SumOf(rs, credits, "vat"),
         r.vatDkk = CumulativeVat(invoice.vatDkk, total) - SumOf(rs, credits, "vatDkk")
  PROVE  ExactOver(Append(rs, r))
<1>1. PICK es : es = Append(rs, r)
  OBVIOUS
<1>2. PICK n \in Nat :
        /\ n = Len(rs) /\ DOMAIN rs = 1 .. n
        /\ es \in Seq(Entries) /\ DOMAIN es = 1 .. n + 1
        /\ \A i \in 1 .. n : es[i] = rs[i]
        /\ es[n + 1] = r
  BY <1>1, AppendedEntry
<1>3. PICK S : S = ReliefsIn(es)
  OBVIOUS
<1>4. S = credits \union {n + 1}
  <2>1. \A i \in 1 .. n + 1 : i \in 1 .. n \/ i = n + 1
    OBVIOUS
  <2>2. \A i \in 1 .. n : i \in 1 .. n + 1
    OBVIOUS
  <2>3. n + 1 \in 1 .. n + 1
    OBVIOUS
  <2> QED BY <1>2, <1>3, <2>1, <2>2, <2>3 DEF ReliefsIn, Relieves, HasWriteOff
<1>5. ASSUME NEW field \in Figures
      PROVE  /\ SumOf(es, S, field) = r[field] + SumOf(rs, credits, field)
             /\ SumOf(rs, credits, field) \in Int /\ r[field] \in Int
  BY <1>1, <1>2, <1>4, SumExtends, SumSplits, FigureTypes
<1>6. /\ SumOf(es, S, "amount") = r.amount + SumOf(rs, credits, "amount")
      /\ SumOf(rs, credits, "amount") \in Int /\ r.amount \in Int
  BY <1>5 DEF Figures
<1>7. /\ SumOf(es, S, "vat") = r.vat + SumOf(rs, credits, "vat")
      /\ SumOf(rs, credits, "vat") \in Int /\ r.vat \in Int
  BY <1>5 DEF Figures
<1>8. /\ SumOf(es, S, "vatDkk") = r.vatDkk + SumOf(rs, credits, "vatDkk")
      /\ SumOf(rs, credits, "vatDkk") \in Int /\ r.vatDkk \in Int
  BY <1>5 DEF Figures
<1>9. total \in Int /\ SumOf(es, S, "amount") = total
  BY <1>6
<1>10. PICK c \in Int : c = CumulativeVat(invoice.vat, total)
  BY <1>9, InvoiceTypes, CumulativeTypes
<1>11. PICK e \in Int : e = CumulativeVat(invoice.vatDkk, total)
  BY <1>9, InvoiceTypes, CumulativeTypes
<1>12. SumOf(es, S, "vat") = c /\ SumOf(es, S, "vatDkk") = e
  BY <1>7, <1>8, <1>10, <1>11
<1> QED BY <1>1, <1>3, <1>9, <1>10, <1>11, <1>12 DEF ExactOver

(* What was open before entry p, in the order of the journal.               *)
OpenBefore(rs, p) == OpenAfter(rs, {i \in 1 .. (p - 1) : rs[i].kind # "refund"})

(* A payment that fits what is open is evidence, and takes none away.       *)
LEMMA PaymentsStandOver ==
  ASSUME NEW rs \in Seq(Entries), NEW r \in Entries, PaymentsStand(rs),
         RefundsInDkk(rs),
         Foreign /\ r.kind = "payment" => r.amount <= OpenAfter(rs, DOMAIN rs)
  PROVE  PaymentsStand(Append(rs, r))
<1>1. PICK es : es = Append(rs, r)
  OBVIOUS
<1>2. PICK n \in Nat :
        /\ n = Len(rs) /\ DOMAIN rs = 1 .. n
        /\ es \in Seq(Entries) /\ DOMAIN es = 1 .. n + 1
        /\ \A i \in 1 .. n : es[i] = rs[i]
        /\ es[n + 1] = r
  BY <1>1, AppendedEntry
<1>3. SUFFICES ASSUME Foreign, NEW p \in 1 .. n + 1, es[p].kind = "payment"
               PROVE  es[p].amount <= OpenBefore(es, p)
  BY <1>1, <1>2 DEF PaymentsStand, OpenBefore
<1>4. PICK S : S = {i \in 1 .. (p - 1) : rs[i].kind # "refund"}
  OBVIOUS
<1>5. \A i \in 1 .. (p - 1) : i \in 1 .. n
  BY <1>2, <1>3
<1>6. OpenBefore(es, p) = OpenAfter(es, S) /\ OpenBefore(rs, p) = OpenAfter(rs, S)
  <2>1. {i \in 1 .. (p - 1) : es[i].kind # "refund"} = S
    BY <1>2, <1>4, <1>5
  <2> QED BY <1>4, <2>1 DEF OpenBefore
<1>7. S \subseteq DOMAIN rs
  BY <1>2, <1>4, <1>5
<1>8. OpenBefore(es, p) = OpenBefore(rs, p)
  <2>1. SumOf(es, S, "amount") = SumOf(rs, S, "amount")
    BY <1>1, <1>7, SumExtends DEF Figures
  <2> QED BY <1>6, <2>1 DEF OpenAfter
<1>9. CASE p \in 1 .. n
  <2>1. rs[p].kind = "payment" /\ es[p] = rs[p] /\ p \in DOMAIN rs
    BY <1>2, <1>3, <1>9
  <2>2. rs[p].amount <= OpenBefore(rs, p)
    BY <1>3, <2>1 DEF PaymentsStand, OpenBefore
  <2> QED BY <1>8, <2>1, <2>2
<1>10. CASE p = n + 1
  <2>1. \A i \in DOMAIN rs : rs[i].kind # "refund"
    BY <1>3 DEF RefundsInDkk
  <2>2. n + 1 - 1 = n
    BY <1>2
  <2>3. S = DOMAIN rs
    BY <1>2, <1>4, <1>10, <2>1, <2>2
  <2>4. OpenBefore(es, p) = OpenAfter(rs, DOMAIN rs)
    BY <1>6, <1>8, <2>3
  <2>5. es[p] = r
    BY <1>2, <1>10
  <2>6. r.amount <= OpenAfter(rs, DOMAIN rs)
    BY <1>3, <2>5
  <2> QED BY <2>4, <2>5, <2>6
<1> QED BY <1>2, <1>3, <1>9, <1>10

LEMMA AppendedHolds ==
  ASSUME RowsHold(rows), NEW r \in Entries, Foreign => r.kind # "refund",
         Foreign /\ r.kind = "payment" => r.amount <= Open,
         WriteOffsStand(Append(rows, r)), ExactOver(Append(rows, r))
  PROVE  RowsHold(Append(rows, r))
<1>1. PICK rs : rs = rows
  OBVIOUS
<1>2. PICK es : es = Append(rs, r)
  OBVIOUS
<1>3. rs \in Seq(Entries) /\ PaymentsStand(rs) /\ RefundsInDkk(rs)
  BY <1>1 DEF RowsHold
<1>4. PICK n \in Nat :
        /\ n = Len(rs) /\ DOMAIN rs = 1 .. n
        /\ es \in Seq(Entries) /\ DOMAIN es = 1 .. n + 1
        /\ \A i \in 1 .. n : es[i] = rs[i]
        /\ es[n + 1] = r
  BY <1>2, <1>3, AppendedEntry
<1>5. PaymentsStand(es)
  BY <1>1, <1>2, <1>3, PaymentsStandOver DEF Open
<1>6. RefundsInDkk(es)
  BY <1>3, <1>4 DEF RefundsInDkk
<1> QED BY <1>1, <1>2, <1>4, <1>5, <1>6 DEF RowsHold

-----------------------------------------------------------------------------
(* The balances.                                                            *)
LEMMA BalanceTypes ==
  ASSUME PrincipalInv
  PROVE  Open \in Int /\ Carrying \in Int
<1>1. rows \in Seq(Entries)
  BY DEF PrincipalInv, RowsHold
<1>2. PICK S : S = DOMAIN rows
  OBVIOUS
<1>3. SumOf(rows, S, "amount") \in Int /\ SumOf(rows, S, "dkk") \in Int
  BY <1>1, <1>2, SumSplits DEF Figures
<1> QED BY <1>2, <1>3, InvoiceTypes DEF PrincipalInv, Open, Carrying, OpenAfter, CarryingAfter

LEMMA ReliefTypes ==
  ASSUME PrincipalInv, NEW amount \in Nat \ {0}, amount <= Open
  PROVE  ReliefOf(Open, Carrying, amount) \in Int
<1>1. PICK o \in Int : o = Open
  BY BalanceTypes
<1>2. PICK c \in Int : c = Carrying
  BY BalanceTypes
<1>3. o \in Nat \ {0} /\ c * amount \in Int
  BY <1>1, <1>2
<1>4. Rounded(c * amount, o) \in Int
  BY <1>3, RoundedTypes
<1> QED BY <1>1, <1>2, <1>4 DEF ReliefOf, ForeignRelief

LEMMA EntryTyped ==
  ASSUME NEW kind \in {"payment", "refund", "credit", "writeoff"}, NEW date \in Days,
         NEW amount \in Int, NEW dkk \in Int, NEW vat \in Int, NEW vatDkk \in Int
  PROVE  /\ EvidenceRow(kind, date, amount, dkk, vat, vatDkk) \in Entries
         /\ EvidenceRow(kind, date, amount, dkk, vat, vatDkk).kind = kind
         /\ EvidenceRow(kind, date, amount, dkk, vat, vatDkk).amount = amount
         /\ EvidenceRow(kind, date, amount, dkk, vat, vatDkk).vat = vat
         /\ EvidenceRow(kind, date, amount, dkk, vat, vatDkk).vatDkk = vatDkk
BY DEF EvidenceRow, Entries

(* The rows of the next state hold when their value does.                   *)
LEMMA RowsMove ==
  ASSUME NEW es, UNCHANGED invoice, rows' = es, RowsHold(es)
  PROVE  RowsHold(rows)'
<1>1. WriteOffsStand(rows)'
  <2> SUFFICES ASSUME NEW w \in DOMAIN es, es[w].kind = "writeoff"
               PROVE  ValidWriteOff(rows, w)'
    BY DEF WriteOffsStand
  <2>1. ValidWriteOff(es, w)
    BY DEF RowsHold, WriteOffsStand
  <2> QED
    BY <2>1
       DEF ValidWriteOff, Earlier, Relieves, SumOf, OpenAfter, CarryingAfter, ReliefOf,
           ForeignRelief, Rounded, CumulativeVat, Foreign
<1>2. PaymentsStand(rows)'
  BY DEF RowsHold, PaymentsStand, SumOf, OpenAfter, Foreign
<1>3. ExactOver(rows)'
  BY DEF RowsHold, ExactOver, ReliefsIn, Relieves, SumOf, CumulativeVat, Rounded
<1>4. RefundsInDkk(rows)'
  BY DEF RowsHold, RefundsInDkk, Foreign
<1> QED BY <1>1, <1>2, <1>3, <1>4 DEF RowsHold

-----------------------------------------------------------------------------
(* What is neither a credit note nor a write-off.                           *)
LEMMA PlainEntry ==
  ASSUME PrincipalInv, UNCHANGED invoice, NEW kind \in {"payment", "refund"},
         NEW date \in Days, NEW amount \in Int, NEW dkk \in Int,
         Foreign => kind # "refund", Foreign /\ kind = "payment" => amount <= Open,
         Append1(EvidenceRow(kind, date, amount, dkk, 0, 0))
  PROVE  PrincipalInv'
<1>1. PICK r : r = EvidenceRow(kind, date, amount, dkk, 0, 0)
  OBVIOUS
<1>2. r \in Entries /\ r.kind = kind /\ r.amount = amount
  BY <1>1, EntryTyped
<1>3. WriteOffsStand(Append(rows, r)) /\ rows' = Append(rows, r)
  BY <1>1 DEF Append1
<1>4. ~Relieves(r)
  BY <1>2 DEF Relieves
<1>5. ExactOver(Append(rows, r))
  BY <1>2, <1>4, ExactWithoutRelief DEF PrincipalInv, RowsHold
<1>6. RowsHold(Append(rows, r))
  BY <1>2, <1>3, <1>5, AppendedHolds DEF PrincipalInv
<1>7. RowsHold(rows)'
  BY <1>3, <1>6, RowsMove
<1> QED BY <1>7 DEF PrincipalInv

LEMMA ReduceHolds ==
  ASSUME PrincipalInv, UNCHANGED invoice, NEW date \in Days,
         NEW amount \in Nat \ {0}, Reduce("payment", date, amount)
  PROVE  PrincipalInv'
<1>1. PICK relief : relief = ReliefOf(Open, Carrying, amount)
  OBVIOUS
<1>2. amount <= Open /\ Append1(EvidenceRow("payment", date, amount, relief, 0, 0))
  BY <1>1 DEF Reduce
<1>3. relief \in Int
  BY <1>1, <1>2, ReliefTypes
<1> QED BY <1>2, <1>3, PlainEntry

LEMMA SettleCombinedHolds ==
  ASSUME PrincipalInv, NEW date \in Days, NEW l \in BankLines, SettleCombined(l, date)
  PROVE  PrincipalInv'
<1>1. PICK principal : principal = Open
  OBVIOUS
<1>2. /\ UNCHANGED invoice /\ ~Foreign
      /\ Append1(EvidenceRow("payment", date, principal, principal, 0, 0))
  BY <1>1 DEF SettleCombined
<1>3. principal \in Int
  BY <1>1, BalanceTypes
<1> QED BY <1>2, <1>3, PlainEntry

LEMMA RefundHolds ==
  ASSUME PrincipalInv, NEW date \in Days, NEW l \in BankLines, Refund(l, date)
  PROVE  PrincipalInv'
<1>1. l.amount \in Int
  BY ReceivablesAssumption
<1>2. /\ UNCHANGED invoice /\ ~Foreign
      /\ Append1(EvidenceRow("refund", date, l.amount, l.amount, 0, 0))
  BY DEF Refund
<1> QED BY <1>1, <1>2, PlainEntry

LEMMA IssueCreditNoteHolds ==
  ASSUME PrincipalInv, NEW date \in Days, NEW amount \in Nat \ {0},
         IssueCreditNote(date, amount)
  PROVE  PrincipalInv'
<1>1. invoice \in IssuedInvoices /\ RowsHold(rows) /\ rows \in Seq(Entries)
  BY DEF PrincipalInv, RowsHold
<1>2. PICK credits : credits = {i \in DOMAIN rows : rows[i].kind = "credit"}
  OBVIOUS
<1>3. PICK total : total = SumOf(rows, credits, "amount") + amount
  OBVIOUS
<1>4. PICK dkk : dkk = (IF total = invoice.gross THEN invoice.dkk
                        ELSE Rounded(invoice.dkk * total, invoice.gross))
                         - SumOf(rows, credits, "dkk")
  OBVIOUS
<1>5. PICK vat : vat = CumulativeVat(invoice.vat, total) - SumOf(rows, credits, "vat")
  OBVIOUS
<1>6. PICK vatDkk : vatDkk = CumulativeVat(invoice.vatDkk, total)
                               - SumOf(rows, credits, "vatDkk")
  OBVIOUS
<1>7. PICK r : r = EvidenceRow("credit", date, amount, dkk, vat, vatDkk)
  OBVIOUS
<1>8. /\ total <= invoice.gross /\ ~HasWriteOff(rows)
      /\ rows' = Append(rows, r) /\ UNCHANGED invoice
  BY <1>2, <1>3, <1>4, <1>5, <1>6, <1>7
     DEF IssueCreditNote, CumulativeVat, HasWriteOff
<1>9. \A field \in Figures : SumOf(rows, credits, field) \in Int
  BY <1>1, <1>2, SumSplits
<1>10. total \in Int
  BY <1>3, <1>9 DEF Figures
<1>11. /\ CumulativeVat(invoice.vat, total) \in Int
       /\ CumulativeVat(invoice.vatDkk, total) \in Int
       /\ CumulativeVat(invoice.dkk, total) \in Int
  <2>1. invoice.vat \in Int /\ invoice.vatDkk \in Int /\ invoice.dkk \in Int
    BY <1>1, InvoiceTypes
  <2> QED BY <1>1, <1>10, <2>1, CumulativeTypes
<1>12. dkk = CumulativeVat(invoice.dkk, total) - SumOf(rows, credits, "dkk")
  BY <1>4 DEF CumulativeVat
<1>13. dkk \in Int /\ vat \in Int /\ vatDkk \in Int
  BY <1>5, <1>6, <1>9, <1>11, <1>12 DEF Figures
<1>14. /\ r \in Entries /\ r.kind = "credit" /\ r.amount = amount
       /\ r.vat = vat /\ r.vatDkk = vatDkk
  BY <1>7, <1>13, EntryTyped
<1>15. ExactOver(Append(rows, r))
  BY <1>1, <1>2, <1>3, <1>5, <1>6, <1>8, <1>14, ExactCredit
<1>16. WriteOffsStand(Append(rows, r))
  <2>1. PICK es : es = Append(rows, r)
    OBVIOUS
  <2>2. PICK n \in Nat :
          /\ n = Len(rows) /\ DOMAIN rows = 1 .. n
          /\ es \in Seq(Entries) /\ DOMAIN es = 1 .. n + 1
          /\ \A i \in 1 .. n : es[i] = rows[i]
          /\ es[n + 1] = r
    <3>1. PICK rs \in Seq(Entries) : rs = rows
      BY <1>1
    <3>2. r \in Entries
      BY <1>14
    <3>3. PICK n \in Nat :
            /\ n = Len(rs) /\ DOMAIN rs = 1 .. n
            /\ Append(rs, r) \in Seq(Entries)
            /\ DOMAIN Append(rs, r) = 1 .. n + 1
            /\ \A i \in 1 .. n : Append(rs, r)[i] = rs[i]
            /\ Append(rs, r)[n + 1] = r
      BY <3>2, AppendedEntry
    <3> QED BY <2>1, <3>1, <3>3
  <2>3. \A w \in 1 .. n + 1 : w \in 1 .. n \/ w = n + 1
    OBVIOUS
  <2>4. \A w \in DOMAIN es : es[w].kind # "writeoff"
    BY <1>8, <1>14, <2>2, <2>3 DEF HasWriteOff
  <2> QED BY <2>1, <2>4 DEF WriteOffsStand
<1>17. RowsHold(Append(rows, r))
  BY <1>1, <1>14, <1>15, <1>16, AppendedHolds
<1>18. RowsHold(rows)'
  BY <1>8, <1>17, RowsMove
<1> QED BY <1>1, <1>8, <1>18 DEF PrincipalInv

LEMMA WriteOffHolds ==
  ASSUME PrincipalInv, NEW date \in Days, NEW amount \in Nat \ {0},
         WriteOff(date, amount)
  PROVE  PrincipalInv'
<1>1. invoice \in IssuedInvoices /\ RowsHold(rows) /\ rows \in Seq(Entries)
  BY DEF PrincipalInv, RowsHold
<1>2. PICK vat : vat = VatAllocation(invoice.vat, "vat", date, amount)
  OBVIOUS
<1>3. PICK vatDkk : vatDkk = VatAllocation(invoice.vatDkk, "vatDkk", date, amount)
  OBVIOUS
<1>4. PICK dkk : dkk = ReliefOf(Open, Carrying, amount)
  OBVIOUS
<1>5. PICK r : r = EvidenceRow("writeoff", date, amount, dkk, vat, vatDkk)
  OBVIOUS
<1>6. /\ vat \in 0 .. amount /\ vatDkk \in 0 .. (dkk - 1) /\ amount <= Open
      /\ WriteOffsStand(Append(rows, r)) /\ rows' = Append(rows, r)
      /\ UNCHANGED invoice
  BY <1>2, <1>3, <1>4, <1>5 DEF WriteOff, Append1
<1>7. dkk \in Int
  BY <1>4, <1>6, ReliefTypes
<1>8. vat \in Int /\ vatDkk \in Int
  BY <1>6, <1>7
<1>9. r \in Entries /\ r.kind = "writeoff"
  BY <1>5, <1>7, <1>8, EntryTyped
<1>10. PICK es : es = Append(rows, r)
  OBVIOUS
<1>11. es \in Seq(Entries) /\ HasWriteOff(es)
  <2>1. PICK n \in Nat :
          /\ es \in Seq(Entries) /\ DOMAIN es = 1 .. n + 1
          /\ es[n + 1] = r
    BY <1>1, <1>9, <1>10, AppendedEntry
  <2>2. n + 1 \in 1 .. n + 1
    OBVIOUS
  <2> QED BY <1>9, <2>1, <2>2 DEF HasWriteOff
<1>12. ExactOver(es)
  BY <1>1, <1>6, <1>10, <1>11, WriteOffsMakeExact
<1>13. RowsHold(Append(rows, r))
  BY <1>1, <1>6, <1>9, <1>10, <1>12, AppendedHolds
<1>14. RowsHold(rows)'
  BY <1>6, <1>13, RowsMove
<1> QED BY <1>1, <1>6, <1>14 DEF PrincipalInv

-----------------------------------------------------------------------------
(* What was booked of an invoice stays exact and stays backed by evidence,  *)
(* whatever is entered and however it is dated.                             *)
THEOREM PrincipalInvariant == ReceivablesSpec => []PrincipalInv
<1>1. ReceivablesInit => PrincipalInv
  <2> SUFFICES ASSUME ReceivablesInit PROVE PrincipalInv
    OBVIOUS
  <2>1. invoice \in IssuedInvoices /\ rows = <<>>
    BY DEF ReceivablesInit
  <2>2. rows \in Seq(Entries) /\ DOMAIN rows = {}
    BY <2>1
  <2>3. WriteOffsStand(rows) /\ PaymentsStand(rows) /\ RefundsInDkk(rows)
    BY <2>2 DEF WriteOffsStand, PaymentsStand, RefundsInDkk
  <2>4. ReliefsIn(rows) = {}
    BY <2>2 DEF ReliefsIn
  <2>5. \A field \in Figures : SumOf(rows, {}, field) = 0
    BY SumOfNothing DEF SumOf
  <2>6. /\ SumOf(rows, {}, "amount") = 0 /\ SumOf(rows, {}, "vat") = 0
        /\ SumOf(rows, {}, "vatDkk") = 0
    BY <2>5 DEF Figures
  <2>7. \A vat \in Int : CumulativeVat(vat, 0) = 0
    <3> SUFFICES ASSUME NEW vat \in Int PROVE CumulativeVat(vat, 0) = 0
      OBVIOUS
    <3>1. PICK g \in Nat \ {0} : g = invoice.gross
      BY <2>1, InvoiceTypes
    <3>2. vat * 0 = 0
      OBVIOUS
    <3>3. PICK d \in Nat \ {0} : d = 2 * g
      OBVIOUS
    <3>4. g \div d = 0
      BY <3>3
    <3>5. 2 * 0 + g = g
      OBVIOUS
    <3>6. Rounded(0, g) = 0
      BY <3>3, <3>4, <3>5 DEF Rounded
    <3>7. 0 # g
      OBVIOUS
    <3> QED BY <3>1, <3>2, <3>6, <3>7 DEF CumulativeVat
  <2>8. ExactOver(rows)
    <3>1. invoice.gross \in Nat /\ invoice.vat \in Int /\ invoice.vatDkk \in Int
      BY <2>1, InvoiceTypes
    <3>2. CumulativeVat(invoice.vat, 0) = 0 /\ CumulativeVat(invoice.vatDkk, 0) = 0
      BY <2>7, <3>1
    <3>3. 0 <= invoice.gross
      BY <3>1
    <3> QED BY <2>4, <2>6, <3>2, <3>3 DEF ExactOver
  <2> QED BY <2>1, <2>2, <2>3, <2>8 DEF PrincipalInv, RowsHold
<1>2. PrincipalInv /\ [ReceivablesNext]_receivablesVars => PrincipalInv'
  <2> SUFFICES ASSUME PrincipalInv, [ReceivablesNext]_receivablesVars
               PROVE  PrincipalInv'
    OBVIOUS
  <2>1. ASSUME UNCHANGED <<invoice, rows>> PROVE PrincipalInv'
    <3>1. RowsHold(rows)'
      BY <2>1, RowsMove DEF PrincipalInv
    <3> QED BY <2>1, <3>1 DEF PrincipalInv
  <2>2. ASSUME NEW date \in Days, NEW l \in BankLines, PayFromBank(l, date)
        PROVE  PrincipalInv'
    <3>1. l.amount \in Nat \ {0}
      BY <2>2, ReceivablesAssumption DEF PayFromBank
    <3> QED BY <2>2, <3>1, ReduceHolds DEF PayFromBank
  <2>3. ASSUME NEW date \in Days, NEW l \in BankLines, SettlePrincipal(l, date)
        PROVE  PrincipalInv'
    BY <2>2, <2>3 DEF SettlePrincipal
  <2>4. ASSUME NEW date \in Days, NEW amount \in Amounts, PayManually(date, amount)
        PROVE  PrincipalInv'
    <3>1. amount \in Nat \ {0}
      BY ReceivablesAssumption
    <3> QED BY <2>4, <3>1, ReduceHolds DEF PayManually
  <2>5. ASSUME NEW date \in Days, NEW amount \in Amounts, IssueCreditNote(date, amount)
        PROVE  PrincipalInv'
    <3>1. amount \in Nat \ {0}
      BY ReceivablesAssumption
    <3> QED BY <2>5, <3>1, IssueCreditNoteHolds
  <2>6. ASSUME NEW date \in Days, NEW amount \in Amounts, WriteOff(date, amount)
        PROVE  PrincipalInv'
    <3>1. amount \in Nat \ {0}
      BY ReceivablesAssumption
    <3> QED BY <2>6, <3>1, WriteOffHolds
  <2>7. CASE PrincipalNext
    BY <2>2, <2>3, <2>4, <2>5, <2>6, <2>7, SettleCombinedHolds, RefundHolds
       DEF PrincipalNext
  <2>8. CASE ClaimNext
    BY <2>1, <2>8
       DEF ClaimNext, RegisterReminder, CheckReminder, RegisterCompensation, PostClaim,
           SettleClaims
  <2>9. CASE UNCHANGED receivablesVars
    BY <2>1, <2>9 DEF receivablesVars
  <2> QED BY <2>7, <2>8, <2>9 DEF ReceivablesNext
<1> QED BY <1>1, <1>2, PTL DEF ReceivablesSpec

-----------------------------------------------------------------------------
(* The tables of the claims have their types.                               *)

ClaimRecords ==
  [kind : {"reminder", "compensation"}, date : Days,
   amount : {Fee, Compensation}, posted : Days \union {Unposted}]

Receipts == [date : Days, amount : Nat, day : Days, claims : Nat]

ReceivablesTyped ==
  /\ Len(rows) <= MaxRows
  /\ claims \in Seq(ClaimRecords)
  /\ received \in Seq(Receipts)
  /\ used \subseteq BankLines
  /\ reminding \in [Collectors -> Days \union {NoReminder}]

(* A principal entry: one more row where there was room.                    *)
LEMMA RowsWithinBound ==
  ASSUME rows \in Seq(Entries), NEW r, Len(rows) < MaxRows, rows' = Append(rows, r)
  PROVE  (Len(rows) <= MaxRows)'
<1>1. PICK n \in Nat : n = Len(rows)
  OBVIOUS
<1>2. Len(Append(rows, r)) = n + 1
  BY <1>1
<1>3. n < MaxRows /\ MaxRows \in Nat
  BY <1>1, ReceivablesAssumption
<1> QED BY <1>2, <1>3

LEMMA ReceiptTyped ==
  ASSUME ReceivablesTyped, NEW l \in BankLines, NEW date \in Days, NEW amount \in Nat
  PROVE  /\ Receipt(l, date, amount) \in Receipts
         /\ Receipt(l, date, amount).amount = amount
         /\ Receipt(l, date, amount).day = Earliest(date, l.date)
         /\ Receipt(l, date, amount).claims = Len(claims)
<1>1. PICK d \in Days : d = Earliest(date, l.date)
  BY ReceivablesAssumption DEF Earliest
<1>2. PICK n \in Nat : n = Len(claims)
  BY DEF ReceivablesTyped
<1> QED BY <1>1, <1>2 DEF Receipt, Receipts

LEMMA ReceivablesTypedStep ==
  ASSUME PrincipalInv, ReceivablesTyped, [ReceivablesNext]_receivablesVars
  PROVE  ReceivablesTyped'
<1>1. rows \in Seq(Entries)
  BY DEF PrincipalInv, RowsHold
<1>2. ASSUME NEW date \in Days, NEW kind, NEW amount, Reduce(kind, date, amount)
      PROVE  (Len(rows) <= MaxRows)'
  BY <1>1, <1>2, RowsWithinBound DEF Reduce, Append1, Room
<1>3. ASSUME NEW date \in Days, NEW l \in BankLines, PayFromBank(l, date)
      PROVE  ReceivablesTyped'
  BY <1>2, <1>3 DEF ReceivablesTyped, PayFromBank
<1>4. ASSUME NEW date \in Days, NEW l \in BankLines, SettleCombined(l, date)
      PROVE  ReceivablesTyped'
  <2>1. PICK o \in Int : o = Open
    BY BalanceTypes
  <2>2. PICK rest : rest = l.amount - Open
    OBVIOUS
  <2>3. rest \in Int
    BY <2>1, <2>2, ReceivablesAssumption
  <2>4. /\ rest > 0 /\ used' = used \union {l} /\ UNCHANGED <<claims, reminding>>
        /\ received' = Append(received, Receipt(l, date, rest))
    BY <1>4, <2>2 DEF SettleCombined
  <2>5. Receipt(l, date, rest) \in Receipts
    <3>1. rest \in Nat
      BY <2>3, <2>4
    <3> QED BY <3>1, ReceiptTyped
  <2>6. received' \in Seq(Receipts)
    BY <2>4, <2>5 DEF ReceivablesTyped
  <2>7. (Len(rows) <= MaxRows)'
    BY <1>1, <1>4, RowsWithinBound DEF SettleCombined, Append1, Room
  <2> QED BY <2>4, <2>6, <2>7 DEF ReceivablesTyped
<1>5. ASSUME NEW date \in Days, NEW l \in BankLines, Refund(l, date)
      PROVE  ReceivablesTyped'
  <2>1. (Len(rows) <= MaxRows)'
    BY <1>1, <1>5, RowsWithinBound DEF Refund, Append1, Room
  <2> QED BY <1>5, <2>1 DEF ReceivablesTyped, Refund
<1>6. ASSUME NEW date \in Days, NEW amount, PayManually(date, amount)
      PROVE  ReceivablesTyped'
  BY <1>2, <1>6 DEF ReceivablesTyped, PayManually
<1>7. ASSUME NEW date \in Days, NEW amount, IssueCreditNote(date, amount)
      PROVE  ReceivablesTyped'
  <2>1. (Len(rows) <= MaxRows)'
    BY <1>1, <1>7, RowsWithinBound DEF IssueCreditNote, Room
  <2> QED BY <1>7, <2>1 DEF ReceivablesTyped, IssueCreditNote
<1>8. ASSUME NEW date \in Days, NEW amount, WriteOff(date, amount)
      PROVE  ReceivablesTyped'
  <2>1. (Len(rows) <= MaxRows)'
    BY <1>1, <1>8, RowsWithinBound DEF WriteOff, Append1, Room
  <2> QED BY <1>8, <2>1 DEF ReceivablesTyped, WriteOff
<1>9. ASSUME NEW kind \in {"reminder", "compensation"}, NEW date \in Days,
             NEW amount \in {Fee, Compensation}
      PROVE  Append(claims, Claim(kind, date, amount)) \in Seq(ClaimRecords)
  <2>1. Claim(kind, date, amount) \in ClaimRecords
    BY DEF Claim, ClaimRecords
  <2> QED BY <2>1 DEF ReceivablesTyped
<1>10. ASSUME NEW clerk \in Collectors, RegisterReminder(clerk)
       PROVE  ReceivablesTyped'
  <2>1. reminding[clerk] \in Days
    BY <1>10 DEF ReceivablesTyped, RegisterReminder
  <2>2. claims' \in Seq(ClaimRecords)
    BY <1>9, <1>10, <2>1 DEF RegisterReminder
  <2> QED BY <1>10, <2>2 DEF ReceivablesTyped, RegisterReminder
<1>11. ASSUME NEW date \in Days, NEW clerk \in Collectors, CheckReminder(clerk, date)
       PROVE  ReceivablesTyped'
  BY <1>11 DEF ReceivablesTyped, CheckReminder
<1>12. ASSUME NEW date \in Days, RegisterCompensation(date)
       PROVE  ReceivablesTyped'
  BY <1>9, <1>12 DEF ReceivablesTyped, RegisterCompensation
<1>13. ASSUME NEW date \in Days, NEW i \in DOMAIN claims, PostClaim(i, date)
       PROVE  ReceivablesTyped'
  <2>1. claims[i] \in ClaimRecords
    BY DEF ReceivablesTyped
  <2>2. [claims[i] EXCEPT !.posted = date] \in ClaimRecords
    BY <2>1 DEF ClaimRecords
  <2>3. [claims EXCEPT ![i] = [claims[i] EXCEPT !.posted = date]] \in Seq(ClaimRecords)
    BY <2>2 DEF ReceivablesTyped
  <2>4. claims' \in Seq(ClaimRecords)
    BY <1>13, <2>3 DEF PostClaim
  <2> QED BY <1>13, <2>4 DEF ReceivablesTyped, PostClaim
<1>14. ASSUME NEW date \in Days, NEW l \in BankLines, SettleClaims(l, date)
       PROVE  ReceivablesTyped'
  <2>1. l.amount \in Nat
    BY <1>14, ReceivablesAssumption DEF SettleClaims
  <2>2. Receipt(l, date, l.amount) \in Receipts
    BY <2>1, ReceiptTyped
  <2> QED BY <1>14, <2>2 DEF ReceivablesTyped, SettleClaims
<1>15. CASE PrincipalNext
  BY <1>3, <1>4, <1>5, <1>6, <1>7, <1>8, <1>15 DEF PrincipalNext, SettlePrincipal
<1>16. CASE ClaimNext
  BY <1>10, <1>11, <1>12, <1>13, <1>14, <1>16 DEF ClaimNext
<1>17. CASE UNCHANGED receivablesVars
  BY <1>17 DEF ReceivablesTyped, receivablesVars
<1> QED BY <1>15, <1>16, <1>17 DEF ReceivablesNext

THEOREM EventClaimsTyped == ReceivablesSpec => []ReceivablesTyped
<1>1. ReceivablesInit => ReceivablesTyped
  BY ReceivablesAssumption DEF ReceivablesInit, ReceivablesTyped
<1>2. PrincipalInv /\ ReceivablesTyped /\ [ReceivablesNext]_receivablesVars => ReceivablesTyped'
  BY ReceivablesTypedStep
<1> QED BY <1>1, <1>2, PrincipalInvariant, PTL DEF ReceivablesSpec

(* The invoice, its rows, its claims and what was received for them have    *)
(* their types.                                                             *)
THEOREM ReceivablesTypes == ReceivablesSpec => []ReceivablesTypeOK
<1>1. PrincipalInv /\ ReceivablesTyped => ReceivablesTypeOK
  BY DEF PrincipalInv, RowsHold, ReceivablesTyped, ReceivablesTypeOK, ClaimRecords, Receipts
<1> QED BY <1>1, PrincipalInvariant, EventClaimsTyped, PTL

-----------------------------------------------------------------------------
(* The evidence of the receipts.  Once claims have been paid nothing is     *)
(* open, and nothing that is allowed opens it again; so whatever claim      *)
(* comes later is a reminder that some clerk had checked by then.           *)

Pending == {c \in Collectors : reminding[c] # NoReminder}

ReceiptBacked(r) ==
  /\ received[r].claims <= Len(claims)
  /\ \A i \in 1 .. received[r].claims :
       /\ claims[i].date <= received[r].day
       /\ claims[i].posted \in 0 .. received[r].day
  /\ SumOf(received, 1 .. r, "amount") <= SumOf(claims, 1 .. received[r].claims, "amount")
  /\ \A i \in DOMAIN claims : i > received[r].claims => claims[i].kind = "reminder"
  /\ Len(claims) + Cardinality(Pending) <= received[r].claims + Cardinality(Collectors)

ReceiptsBacked ==
  /\ received # <<>> => Open <= 0
  /\ \A r \in DOMAIN received : ReceiptBacked(r)

ReceivablesInv == PrincipalInv /\ ReceivablesTyped /\ ReceiptsBacked

LEMMA ReceiptFields ==
  ASSUME ReceivablesTyped, NEW r \in DOMAIN received
  PROVE  /\ received[r] \in Receipts /\ received[r].claims \in Nat
         /\ received[r]["amount"] \in Int
<1>1. received[r] \in Receipts
  BY DEF ReceivablesTyped
<1>2. PICK rec \in Receipts : rec = received[r]
  BY <1>1
<1>3. rec.claims \in Nat /\ rec["amount"] \in Int
  BY DEF Receipts
<1> QED BY <1>2, <1>3

LEMMA ClaimFields ==
  ASSUME ReceivablesTyped, NEW i \in DOMAIN claims
  PROVE  claims[i] \in ClaimRecords /\ claims[i]["amount"] \in Int
<1>1. claims[i] \in ClaimRecords
  BY DEF ReceivablesTyped
<1>2. PICK c \in ClaimRecords : c = claims[i]
  BY <1>1
<1>3. c["amount"] \in {Fee, Compensation}
  BY DEF ClaimRecords
<1> QED BY <1>2, <1>3, ReceivablesAssumption

LEMMA FieldSums ==
  ASSUME NEW n \in Nat, NEW es, NEW fs, NEW field,
         1 .. n \subseteq DOMAIN es, 1 .. n \subseteq DOMAIN fs,
         \A i \in 1 .. n : es[i][field] = fs[i][field]
  PROVE  SumOf(es, 1 .. n, field) = SumOf(fs, 1 .. n, field)
<1>1. PICK S : S = 1 .. n
  OBVIOUS
<1>2. IsFiniteSet(S)
  BY <1>1, FS_Interval
<1>3. PICK F : F = [i \in DOMAIN es |-> es[i][field]]
  OBVIOUS
<1>4. PICK G : G = [i \in DOMAIN fs |-> fs[i][field]]
  OBVIOUS
<1>5. \A i \in S : F[i] = G[i]
  BY <1>1, <1>3, <1>4
<1>6. SumFunctionOnSet(F, S) = SumFunctionOnSet(G, S)
  BY <1>2, <1>5, SumCongruence
<1> QED BY <1>1, <1>3, <1>4, <1>6 DEF SumOf

LEMMA FieldSumExtends ==
  ASSUME NEW n \in Nat, NEW es, NEW field, 1 .. n + 1 \subseteq DOMAIN es,
         \A i \in 1 .. n + 1 : es[i][field] \in Int
  PROVE  /\ SumOf(es, 1 .. n, field) \in Int
         /\ SumOf(es, 1 .. n + 1, field) = es[n + 1][field] + SumOf(es, 1 .. n, field)
<1>1. PICK S : S = 1 .. n
  OBVIOUS
<1>2. PICK m : m = n + 1
  OBVIOUS
<1>3. IsFiniteSet(S) /\ m \notin S /\ 1 .. m = S \union {m}
  <2>1. IsFiniteSet(S)
    BY <1>1, FS_Interval
  <2>2. m \notin S /\ 1 .. m = S \union {m}
    BY <1>1, <1>2
  <2> QED BY <2>1, <2>2
<1>4. PICK F : F = [i \in DOMAIN es |-> es[i][field]]
  OBVIOUS
<1>5. \A i \in S \union {m} : F[i] = es[i][field] /\ F[i] \in Int
  BY <1>1, <1>2, <1>3, <1>4
<1>6. SumFunctionOnSet(F, S) \in Int
  BY <1>3, <1>5, SumType
<1>7. SumFunctionOnSet(F, S \union {m}) = F[m] + SumFunctionOnSet(F, S)
  BY <1>3, <1>5, SumAdds
<1> QED BY <1>1, <1>2, <1>3, <1>4, <1>5, <1>6, <1>7 DEF SumOf

(* What is open after one more entry.                                       *)
LEMMA OpenMoves ==
  ASSUME PrincipalInv, NEW r \in Entries, rows' = Append(rows, r), UNCHANGED invoice
  PROVE  /\ Open \in Int /\ r.amount \in Int
         /\ Open' = Open - r.amount
<1>1. rows \in Seq(Entries) /\ invoice.gross \in Int
  BY InvoiceTypes DEF PrincipalInv, RowsHold
<1>2. PICK es : es = Append(rows, r)
  OBVIOUS
<1>3. PICK S : S = DOMAIN rows
  OBVIOUS
<1>4. DOMAIN es = S \union {Len(rows) + 1}
  BY <1>1, <1>2, <1>3
<1>5. PICK m : m = Len(rows) + 1
  OBVIOUS
<1>6. SumOf(es, S \union {m}, "amount") = r["amount"] + SumOf(rows, S, "amount")
  BY <1>1, <1>2, <1>3, <1>5, SumExtends DEF Figures
<1>7. SumOf(rows, S, "amount") \in Int
  BY <1>1, <1>3, SumSplits DEF Figures
<1>8. r.amount \in Int
  BY DEF Entries
<1>9. Open = invoice.gross - SumOf(rows, S, "amount")
  BY <1>3 DEF Open, OpenAfter
<1>10. Open' = invoice.gross - SumOf(es, S \union {m}, "amount")
  BY <1>2, <1>4, <1>5 DEF Open, OpenAfter, SumOf
<1> QED BY <1>1, <1>6, <1>7, <1>8, <1>9, <1>10

(* Nothing of the receipts and claims changes.                              *)
LEMMA ReceiptsKept ==
  ASSUME ReceivablesInv, UNCHANGED <<claims, received, reminding>>,
         received # <<>> => Open' <= 0
  PROVE  ReceiptsBacked'
<1>1. \A r \in DOMAIN received : ReceiptBacked(r)'
  BY DEF ReceivablesInv, ReceiptsBacked, ReceiptBacked, Pending, SumOf
<1> QED BY <1>1 DEF ReceiptsBacked

LEMMA PendingAreFew ==
  ASSUME NEW S \in SUBSET Collectors
  PROVE  /\ IsFiniteSet(S) /\ Cardinality(S) \in Nat
         /\ Cardinality(Collectors) \in Nat /\ Cardinality(S) <= Cardinality(Collectors)
<1>1. IsFiniteSet(Collectors)
  BY ReceivablesAssumption
<1>2. IsFiniteSet(S) /\ Cardinality(S) <= Cardinality(Collectors)
  BY <1>1, FS_Subset
<1> QED BY <1>1, <1>2, FS_CardinalityType

(* One more receipt.                                                        *)
LEMMA ReceiptAdded ==
  ASSUME ReceivablesInv, NEW l \in BankLines, NEW date \in Days, NEW amount \in Nat,
         received' = Append(received, Receipt(l, date, amount)),
         ClaimsEffective(Earliest(date, l.date)), amount <= LedgerClaims,
         UNCHANGED <<claims, reminding>>, Open' <= 0
  PROVE  ReceiptsBacked'
<1>1. PICK n \in Nat : n = Len(received) /\ DOMAIN received = 1 .. n
  BY DEF ReceivablesInv, ReceivablesTyped
<1>2. PICK k \in Nat : k = Len(claims) /\ DOMAIN claims = 1 .. k
  BY DEF ReceivablesInv, ReceivablesTyped
<1>3. PICK rec : rec = Receipt(l, date, amount)
  OBVIOUS
<1>4. rec \in Receipts /\ rec.amount = amount /\ rec.claims = k
      /\ rec.day = Earliest(date, l.date)
  BY <1>2, <1>3, ReceiptTyped DEF ReceivablesInv
<1>5. PICK new : new = received'
  OBVIOUS
<1>6. /\ received \in Seq(Receipts) /\ new = Append(received, rec)
      /\ DOMAIN new = 1 .. n + 1 /\ new[n + 1] = rec
      /\ \A r \in 1 .. n : new[r] = received[r]
  BY <1>1, <1>3, <1>5 DEF ReceivablesInv, ReceivablesTyped
<1>7. \A r \in 1 .. n + 1 : new[r]["amount"] \in Int
  <2>1. \A r \in 1 .. n : received[r]["amount"] \in Int
    BY <1>1, ReceiptFields DEF ReceivablesInv
  <2>2. rec["amount"] \in Int
    BY <1>4 DEF Receipts
  <2>3. \A r \in 1 .. n + 1 : r \in 1 .. n \/ r = n + 1
    OBVIOUS
  <2> QED BY <1>6, <2>1, <2>2, <2>3
<1>8. ASSUME NEW r \in 1 .. n PROVE ReceiptBacked(r)'
  <2>1. r \in Nat /\ 1 .. r \subseteq 1 .. n /\ 1 .. r \subseteq 1 .. n + 1
    OBVIOUS
  <2>2. SumOf(new, 1 .. r, "amount") = SumOf(received, 1 .. r, "amount")
    <3>1. \A i \in 1 .. r : new[i]["amount"] = received[i]["amount"]
      BY <1>6, <2>1
    <3>2. 1 .. r \subseteq DOMAIN new /\ 1 .. r \subseteq DOMAIN received
      BY <1>1, <1>6, <2>1
    <3> QED BY <2>1, <3>1, <3>2, FieldSums
  <2>3. new[r] = received[r] /\ ReceiptBacked(r)
    BY <1>1, <1>6 DEF ReceivablesInv, ReceiptsBacked
  <2>4. SumOf(new, 1 .. r, "amount") = SumOf(received, 1 .. r, "amount")'
    BY <1>5 DEF SumOf
  <2>5. SumOf(claims, 1 .. received[r].claims, "amount")'
          = SumOf(claims, 1 .. received[r].claims, "amount")
    BY <1>5, <2>3 DEF SumOf
  <2> QED BY <1>5, <2>2, <2>3, <2>4, <2>5 DEF ReceiptBacked, Pending
<1>9. ReceiptBacked(n + 1)'
  <2>1. \A i \in 1 .. k : /\ claims[i].date <= rec.day
                         /\ claims[i].posted \in Days /\ claims[i].posted <= rec.day
    BY <1>2, <1>4 DEF ClaimsEffective
  <2>2. rec.day \in Days
    BY <1>4 DEF Receipts
  <2>3. \A i \in 1 .. k : claims[i].posted \in 0 .. rec.day
    <3> SUFFICES ASSUME NEW i \in 1 .. k PROVE claims[i].posted \in 0 .. rec.day
      OBVIOUS
    <3>1. PICK d \in Nat : d = rec.day
      BY <2>2, ReceivablesAssumption DEF Days
    <3>2. PICK q \in Nat : q = claims[i].posted
      BY <2>1, ReceivablesAssumption DEF Days
    <3> QED BY <2>1, <3>1, <3>2
  <2>4. PICK c : c = ClaimTotal /\ c = SumOf(claims, 1 .. k, "amount")
    BY <1>2 DEF ClaimTotal
  <2>5. c \in Int
    <3>1. \A i \in 1 .. k : claims[i]["amount"] \in Int
      BY <1>2, ClaimFields DEF ReceivablesInv
    <3>2. PICK F : F = [i \in DOMAIN claims |-> claims[i]["amount"]]
      OBVIOUS
    <3>3. PICK S : S = 1 .. k
      OBVIOUS
    <3>40. IsFiniteSet(S)
      BY <3>3, FS_Interval
    <3>4. IsFiniteSet(S) /\ \A i \in S : F[i] \in Int
      BY <1>2, <3>1, <3>2, <3>3, <3>40
    <3>5. SumFunctionOnSet(F, S) \in Int
      BY <3>4, SumType
    <3> QED BY <2>4, <3>2, <3>3, <3>5 DEF SumOf
  <2>6. PICK t : t = ReceivedTotal /\ t = SumOf(received, 1 .. n, "amount")
    BY <1>1 DEF ReceivedTotal
  <2>7. SumOf(new, 1 .. n, "amount") = t
    <3>1. 1 .. n \subseteq 1 .. n + 1
      OBVIOUS
    <3>2. \A i \in 1 .. n : new[i]["amount"] = received[i]["amount"]
      BY <1>6
    <3>3. 1 .. n \subseteq DOMAIN new /\ 1 .. n \subseteq DOMAIN received
      BY <1>1, <1>6, <3>1
    <3> QED BY <2>6, <3>2, <3>3, FieldSums
  <2>8. t \in Int /\ SumOf(new, 1 .. n + 1, "amount") = amount + t
    <3>1. 1 .. n + 1 \subseteq DOMAIN new
      BY <1>6
    <3>2. /\ SumOf(new, 1 .. n, "amount") \in Int
          /\ SumOf(new, 1 .. n + 1, "amount") = new[n + 1]["amount"] + SumOf(new, 1 .. n, "amount")
      BY <1>7, <3>1, FieldSumExtends
    <3>3. new[n + 1]["amount"] = amount
      BY <1>4, <1>6
    <3> QED BY <2>7, <3>2, <3>3
  <2>9. amount + t <= c
    BY <2>4, <2>5, <2>6, <2>8 DEF LedgerClaims
  <2>10. SumOf(new, 1 .. n + 1, "amount") = SumOf(received, 1 .. n + 1, "amount")'
    BY <1>5 DEF SumOf
  <2>11. SumOf(claims, 1 .. k, "amount")' = c
    BY <2>4 DEF SumOf
  <2>12. k + Cardinality(Pending) <= k + Cardinality(Collectors)
    <3>1. Pending \in SUBSET Collectors
      BY DEF Pending
    <3> QED BY <3>1, PendingAreFew
  <2>13. received'[n + 1] = rec /\ claims' = claims /\ Pending' = Pending
    BY <1>5, <1>6 DEF Pending
  <2>14. \A i \in 1 .. k : ~(i > k)
    OBVIOUS
  <2>15. SumOf(received, 1 .. n + 1, "amount")' <= SumOf(claims, 1 .. k, "amount")'
    BY <2>8, <2>9, <2>10, <2>11
  <2> QED BY <1>2, <1>4, <2>1, <2>3, <2>12, <2>13, <2>14, <2>15 DEF ReceiptBacked
<1>10. \A r \in 1 .. n + 1 : r \in 1 .. n \/ r = n + 1
  OBVIOUS
<1>11. \A r \in 1 .. n + 1 : ReceiptBacked(r)'
  BY <1>8, <1>9, <1>10
<1>12. DOMAIN received' = 1 .. n + 1
  BY <1>5, <1>6
<1> QED BY <1>11, <1>12 DEF ReceiptsBacked

(* A reminder checked before is inserted.                                   *)
LEMMA ReminderLate ==
  ASSUME ReceivablesInv, NEW clerk \in Collectors, RegisterReminder(clerk)
  PROVE  ReceiptsBacked'
<1>1. PICK k \in Nat : k = Len(claims) /\ DOMAIN claims = 1 .. k
  BY DEF ReceivablesInv, ReceivablesTyped
<1>2. PICK c : c = Claim("reminder", reminding[clerk], Fee)
  OBVIOUS
<1>3. PICK new : new = claims'
  OBVIOUS
<1>4. /\ claims \in Seq(ClaimRecords) /\ c.kind = "reminder"
      /\ new = Append(claims, c) /\ UNCHANGED <<invoice, rows, received>>
  BY <1>2, <1>3 DEF ReceivablesInv, ReceivablesTyped, RegisterReminder, Claim
<1>5. /\ DOMAIN new = 1 .. k + 1 /\ Len(new) = k + 1 /\ new[k + 1] = c
      /\ \A i \in 1 .. k : new[i] = claims[i]
  BY <1>1, <1>4
<1>6. Open' = Open
  BY <1>4 DEF Open, OpenAfter, SumOf
<1>7. Cardinality(Pending') = Cardinality(Pending) - 1 /\ Cardinality(Pending) \in Nat
  <2>1. /\ clerk \in Pending /\ Pending \in SUBSET Collectors
        /\ Pending' = Pending \ {clerk}
    BY DEF Pending, RegisterReminder, ReceivablesInv, ReceivablesTyped
  <2>2. IsFiniteSet(Pending) /\ Cardinality(Pending) \in Nat
    BY <2>1, PendingAreFew
  <2>3. Cardinality(Pending \ {clerk}) = Cardinality(Pending) - 1
    BY <2>1, <2>2, FS_RemoveElement
  <2> QED BY <2>1, <2>2, <2>3
<1>8. ASSUME NEW r \in DOMAIN received PROVE ReceiptBacked(r)'
  <2>1. ReceiptBacked(r)
    BY DEF ReceivablesInv, ReceiptsBacked
  <2>20. received[r].claims \in Nat
    BY ReceiptFields DEF ReceivablesInv
  <2>2. PICK m \in Nat : m = received[r].claims /\ m <= k
    BY <1>1, <2>1, <2>20 DEF ReceiptBacked
  <2>3. 1 .. m \subseteq 1 .. k /\ 1 .. m \subseteq 1 .. k + 1
    BY <2>2
  <2>4. SumOf(new, 1 .. m, "amount") = SumOf(claims, 1 .. m, "amount")
    BY <1>1, <1>5, <2>3, FieldSums
  <2>5. \A i \in 1 .. m : new[i] = claims[i]
    BY <1>5, <2>3
  <2>6. \A i \in 1 .. k + 1 : i > m => new[i].kind = "reminder"
    <3>1. \A i \in 1 .. k + 1 : i \in 1 .. k \/ i = k + 1
      OBVIOUS
    <3> QED BY <1>1, <1>4, <1>5, <2>1, <2>2, <3>1 DEF ReceiptBacked
  <2>7. k + 1 + Cardinality(Pending') <= m + Cardinality(Collectors)
    <3>1. k + Cardinality(Pending) <= m + Cardinality(Collectors)
      BY <1>1, <2>1, <2>2 DEF ReceiptBacked
    <3>2. Cardinality(Collectors) \in Nat
      BY PendingAreFew
    <3> QED BY <1>7, <3>1, <3>2
  <2>8. m <= k + 1
    BY <2>2
  <2>9. SumOf(received, 1 .. r, "amount")' <= SumOf(claims, 1 .. m, "amount")'
    <3>1. SumOf(received, 1 .. r, "amount")' = SumOf(received, 1 .. r, "amount")
      BY <1>4 DEF SumOf
    <3>2. SumOf(claims, 1 .. m, "amount")' = SumOf(new, 1 .. m, "amount")
      BY <1>3 DEF SumOf
    <3> QED BY <2>1, <2>2, <2>4, <3>1, <3>2 DEF ReceiptBacked
  <2>10. received'[r] = received[r] /\ claims' = new
    BY <1>3, <1>4
  <2>11. \A i \in 1 .. m : /\ new[i].date <= received[r].day
                         /\ new[i].posted \in 0 .. received[r].day
    BY <2>1, <2>2, <2>5 DEF ReceiptBacked
  <2> QED BY <1>5, <2>2, <2>6, <2>7, <2>8, <2>9, <2>10, <2>11 DEF ReceiptBacked
<1> QED BY <1>4, <1>6, <1>8 DEF ReceiptsBacked, ReceivablesInv

(* A claim is posted: one from before a receipt has been.                   *)
LEMMA PostingKeepsReceipts ==
  ASSUME ReceivablesInv, NEW i \in DOMAIN claims, NEW date \in Days, PostClaim(i, date)
  PROVE  ReceiptsBacked'
<1>1. PICK k \in Nat : k = Len(claims) /\ DOMAIN claims = 1 .. k
  BY DEF ReceivablesInv, ReceivablesTyped
<1>2. PICK new : new = claims'
  OBVIOUS
<1>3. /\ claims \in Seq(ClaimRecords) /\ claims[i].posted = -1
      /\ new = [claims EXCEPT ![i].posted = date]
      /\ UNCHANGED <<invoice, rows, received, reminding>>
  BY <1>2 DEF ReceivablesInv, ReceivablesTyped, PostClaim, Unposted
<1>4. /\ DOMAIN new = 1 .. k
      /\ \A j \in 1 .. k : j # i => new[j] = claims[j]
      /\ \A j \in 1 .. k : /\ new[j].kind = claims[j].kind
                          /\ new[j]["amount"] = claims[j]["amount"]
  BY <1>1, <1>3 DEF ClaimRecords
<1>5. Len(new) = k
  <2>1. PICK q : q = claims[i]
    OBVIOUS
  <2>2. new = [claims EXCEPT ![i] = [q EXCEPT !.posted = date]]
    BY <1>3, <2>1
  <2> QED BY <1>1, <1>3, <2>2
<1>6. Open' = Open
  BY <1>3 DEF Open, OpenAfter, SumOf
<1>7. ASSUME NEW r \in DOMAIN received PROVE ReceiptBacked(r)'
  <2>1. ReceiptBacked(r)
    BY DEF ReceivablesInv, ReceiptsBacked
  <2>20. received[r].claims \in Nat
    BY ReceiptFields DEF ReceivablesInv
  <2>2. PICK m \in Nat : m = received[r].claims /\ m <= k
    BY <1>1, <2>1, <2>20 DEF ReceiptBacked
  <2>3. 1 .. m \subseteq 1 .. k
    BY <2>2
  <2>4. i \notin 1 .. m
    <3>1. i \in 1 .. m => claims[i].posted \in 0 .. received[r].day
      BY <2>1, <2>2 DEF ReceiptBacked
    <3>2. ~(-1 \in 0 .. received[r].day)
      OBVIOUS
    <3> QED BY <1>3, <3>1, <3>2
  <2>5. SumOf(new, 1 .. m, "amount") = SumOf(claims, 1 .. m, "amount")
    BY <1>1, <1>4, <2>3, FieldSums
  <2>6. \A j \in 1 .. m : new[j] = claims[j]
    BY <1>4, <2>3, <2>4
  <2>7. SumOf(received, 1 .. r, "amount")' <= SumOf(claims, 1 .. m, "amount")'
    <3>1. SumOf(received, 1 .. r, "amount")' = SumOf(received, 1 .. r, "amount")
      BY <1>3 DEF SumOf
    <3>2. SumOf(claims, 1 .. m, "amount")' = SumOf(new, 1 .. m, "amount")
      BY <1>2 DEF SumOf
    <3> QED BY <2>1, <2>2, <2>5, <3>1, <3>2 DEF ReceiptBacked
  <2>8. received'[r] = received[r] /\ claims' = new /\ Pending' = Pending
    BY <1>2, <1>3 DEF Pending
  <2>9. \A j \in 1 .. m : /\ new[j].date <= received[r].day
                        /\ new[j].posted \in 0 .. received[r].day
    BY <2>1, <2>2, <2>6 DEF ReceiptBacked
  <2>10. \A j \in 1 .. k : j > m => new[j].kind = "reminder"
    BY <1>1, <1>4, <2>1, <2>2 DEF ReceiptBacked
  <2>11. k + Cardinality(Pending) <= m + Cardinality(Collectors)
    BY <1>1, <2>1, <2>2 DEF ReceiptBacked
  <2> QED BY <1>4, <1>5, <2>2, <2>7, <2>8, <2>9, <2>10, <2>11 DEF ReceiptBacked
<1> QED BY <1>3, <1>6, <1>7 DEF ReceiptsBacked, ReceivablesInv

(* An entry against the principal leaves nothing open where nothing was.    *)
LEMMA NothingReopens ==
  ASSUME ReceivablesInv, PrincipalNext, UNCHANGED <<claims, received, reminding>>,
         received # <<>>
  PROVE  Open' <= 0
<1>1. PICK o \in Int : o = Open /\ o <= 0
  BY BalanceTypes DEF ReceivablesInv, ReceiptsBacked
<1>2. ASSUME NEW date \in Days, NEW kind, NEW amount \in Nat \ {0}, Reduce(kind, date, amount)
      PROVE  FALSE
  BY <1>1, <1>2 DEF Reduce
<1>3. ASSUME NEW date \in Days, NEW l \in BankLines, PayFromBank(l, date) PROVE FALSE
  <2>1. l.amount \in Nat \ {0}
    BY <1>3, ReceivablesAssumption DEF PayFromBank
  <2> QED BY <1>2, <1>3, <2>1 DEF PayFromBank
<1>4. ASSUME NEW date \in Days, NEW l \in BankLines, SettleCombined(l, date) PROVE FALSE
  BY <1>1, <1>4 DEF SettleCombined
<1>5. ASSUME NEW date \in Days, NEW l \in BankLines, Refund(l, date) PROVE Open' <= 0
  <2>1. PICK a \in Int : a = l.amount
    BY ReceivablesAssumption
  <2>2. PICK r : r = EvidenceRow("refund", date, a, a, 0, 0)
    OBVIOUS
  <2>3. r \in Entries /\ r.amount = a
    BY <2>1, <2>2, EntryTyped
  <2>4. rows' = Append(rows, r) /\ UNCHANGED invoice /\ -a <= -o
    BY <1>1, <1>5, <2>1, <2>2 DEF Refund, Append1
  <2>5. Open' = o - a
    BY <1>1, <2>3, <2>4, OpenMoves DEF ReceivablesInv
  <2> QED BY <2>1, <2>4, <2>5
<1>6. ASSUME NEW date \in Days, NEW amount \in Amounts, PayManually(date, amount)
      PROVE  FALSE
  BY <1>2, <1>6, ReceivablesAssumption DEF PayManually
<1>7. ASSUME NEW date \in Days, NEW amount \in Amounts, IssueCreditNote(date, amount)
      PROVE  Open' <= 0
  <2>10. PICK r : /\ rows' = Append(rows, r)
                  /\ \E dkk, vat, vatDkk : r = EvidenceRow("credit", date, amount, dkk, vat, vatDkk)
    BY <1>7 DEF IssueCreditNote
  <2>1. rows' = Append(rows, r) /\ r.amount = amount
    BY <2>10 DEF EvidenceRow
  <2>2. /\ PrincipalInv' /\ PrincipalInv /\ UNCHANGED invoice
        /\ amount \in Nat \ {0}
    BY <1>7, IssueCreditNoteHolds, ReceivablesAssumption DEF IssueCreditNote, ReceivablesInv
  <2>3. r \in Entries
    <3>1. rows \in Seq(Entries) /\ Append(rows, r) \in Seq(Entries)
      BY <2>1, <2>2 DEF PrincipalInv, RowsHold
    <3>2. PICK n \in Nat : n = Len(rows)
      BY <3>1
    <3>3. Append(rows, r)[n + 1] = r /\ n + 1 \in DOMAIN Append(rows, r)
      BY <3>1, <3>2
    <3> QED BY <3>1, <3>3
  <2>4. Open' = o - amount
    BY <1>1, <2>1, <2>2, <2>3, OpenMoves
  <2> QED BY <1>1, <2>2, <2>4
<1>8. ASSUME NEW date \in Days, NEW amount \in Amounts, WriteOff(date, amount)
      PROVE  FALSE
  <2>1. amount \in Nat \ {0} /\ amount <= Open
    BY <1>8, ReceivablesAssumption DEF WriteOff
  <2> QED BY <1>1, <2>1
<1> QED BY <1>3, <1>4, <1>5, <1>6, <1>7, <1>8 DEF PrincipalNext, SettlePrincipal

LEMMA ReceiptsStep ==
  ASSUME ReceivablesInv, [ReceivablesNext]_receivablesVars
  PROVE  ReceiptsBacked'
<1>1. ASSUME NEW date \in Days, NEW l \in BankLines, SettleCombined(l, date)
      PROVE  ReceiptsBacked'
  <2>1. PICK o \in Int : o = Open
    BY BalanceTypes DEF ReceivablesInv
  <2>2. PICK rest \in Int : rest = l.amount - o
    BY <2>1, ReceivablesAssumption
  <2>3. /\ rest > 0 /\ rest <= LedgerClaims /\ ClaimsEffective(Earliest(date, l.date))
        /\ received' = Append(received, Receipt(l, date, rest))
        /\ UNCHANGED <<claims, reminding>>
    BY <1>1, <2>1, <2>2 DEF SettleCombined
  <2>4. PICK r : r = EvidenceRow("payment", date, o, o, 0, 0)
    OBVIOUS
  <2>5. r \in Entries /\ r.amount = o
    BY <2>1, <2>4, EntryTyped
  <2>6. rows' = Append(rows, r) /\ UNCHANGED invoice
    BY <1>1, <2>1, <2>4 DEF SettleCombined, Append1
  <2>7. Open' = o - o
    BY <2>1, <2>5, <2>6, OpenMoves DEF ReceivablesInv
  <2>8. rest \in Nat /\ Open' <= 0
    BY <2>1, <2>2, <2>3, <2>7
  <2> QED BY <2>3, <2>8, ReceiptAdded
<1>2. ASSUME NEW date \in Days, NEW l \in BankLines, SettleClaims(l, date)
      PROVE  ReceiptsBacked'
  <2>1. l.amount \in Nat
    BY <1>2, ReceivablesAssumption DEF SettleClaims
  <2>2. Open' <= 0 /\ Open = 0
    BY <1>2 DEF SettleClaims, Open, OpenAfter, SumOf
  <2>3. l.amount <= LedgerClaims
    BY <1>2 DEF SettleClaims
  <2> QED BY <1>2, <2>1, <2>2, <2>3, ReceiptAdded DEF SettleClaims
<1>3. CASE PrincipalNext /\ UNCHANGED <<claims, received, reminding>>
  BY <1>3, NothingReopens, ReceiptsKept
<1>4. ASSUME NEW date \in Days, Overdue(date), received' = received PROVE ReceiptsBacked'
  <2>1. Open \in Int /\ Open > 0
    BY <1>4, BalanceTypes DEF Overdue, ReceivablesInv
  <2>2. received = <<>>
    BY <2>1 DEF ReceivablesInv, ReceiptsBacked
  <2> QED BY <1>4, <2>2 DEF ReceiptsBacked
<1>5. ASSUME NEW date \in Days, NEW clerk \in Collectors, CheckReminder(clerk, date)
      PROVE  ReceiptsBacked'
  BY <1>4, <1>5 DEF CheckReminder, ReminderAllowed
<1>6. ASSUME NEW date \in Days, RegisterCompensation(date) PROVE ReceiptsBacked'
  BY <1>4, <1>6 DEF RegisterCompensation
<1>7. CASE UNCHANGED receivablesVars
  <2>1. Open' = Open /\ UNCHANGED <<claims, received, reminding>>
    BY <1>7 DEF receivablesVars, Open, OpenAfter, SumOf
  <2> QED BY <2>1, ReceiptsKept DEF ReceivablesInv, ReceiptsBacked
<1>8. CASE PrincipalNext
  BY <1>1, <1>3, <1>8
     DEF PrincipalNext, PayFromBank, SettlePrincipal, Refund, PayManually, IssueCreditNote,
         WriteOff
<1>9. CASE ClaimNext
  BY <1>2, <1>5, <1>6, <1>9, ReminderLate, PostingKeepsReceipts DEF ClaimNext
<1> QED BY <1>7, <1>8, <1>9 DEF ReceivablesNext

(* What was booked of an invoice stays exact and stays backed by evidence,  *)
(* whatever is entered and however it is dated; the receipts of its claims  *)
(* are backed by the claims there were, and only reminders come later.      *)
THEOREM ReceivablesInvariant == ReceivablesSpec => []ReceivablesInv
<1>1. ReceivablesInit => ReceiptsBacked
  BY DEF ReceivablesInit, ReceiptsBacked
<1>2. PrincipalInv /\ ReceivablesTyped /\ ReceiptsBacked /\ [ReceivablesNext]_receivablesVars
        => ReceiptsBacked'
  BY ReceiptsStep DEF ReceivablesInv
<1>3. PrincipalInv /\ ReceivablesTyped /\ ReceiptsBacked => ReceivablesInv
  BY DEF ReceivablesInv
<1> QED BY <1>1, <1>2, <1>3, PrincipalInvariant, EventClaimsTyped, PTL DEF ReceivablesSpec

(* Output VAT is given back exactly once over all credit notes and          *)
(* write-offs, in the currency of the invoice and in DKK, no entry against  *)
(* the principal takes the evidence of an earlier one away, and that of a   *)
(* receipt of claims is taken away by nothing but reminders that had been   *)
(* checked before it, at most one of each clerk.                            *)
THEOREM ReliefIsExact == ReceivablesSpec => []ReliefStands
<1>1. ReceivablesInv => ReliefStands
  <2> SUFFICES ASSUME ReceivablesInv PROVE ReliefStands
    OBVIOUS
  <2>1. VatReliefExact /\ WriteOffsStand(rows) /\ PaymentsStand(rows)
    BY DEF ReceivablesInv, PrincipalInv, RowsHold, VatReliefExact, ExactOver, ReliefsIn
  <2>2. PICK k \in Nat : k = Len(claims) /\ DOMAIN claims = 1 .. k
    BY DEF ReceivablesInv, ReceivablesTyped
  <2>3. \A r \in DOMAIN received : ReceiptBacked(r) /\ received[r].claims \in Nat
    BY ReceiptFields DEF ReceivablesInv, ReceiptsBacked
  <2>4. ASSUME \A r \in DOMAIN received : received[r].claims = Len(claims)
        PROVE  ReceiptsStand
    BY <2>2, <2>3, <2>4 DEF ReceiptsStand, ReceiptBacked, ClaimTotal
  <2>5. ASSUME NEW r \in DOMAIN received
        PROVE  Len(claims) <= received[r].claims + Cardinality(Collectors)
    <3>1. k + Cardinality(Pending) <= received[r].claims + Cardinality(Collectors)
      BY <2>2, <2>3 DEF ReceiptBacked
    <3>2. Pending \in SUBSET Collectors
      BY DEF Pending
    <3> QED BY <2>2, <2>3, <3>1, <3>2, PendingAreFew
  <2> QED
    BY <2>1, <2>3, <2>4, <2>5
       DEF ReliefStands, EvidenceStands, WriteOffsStand, ReceiptBacked
<1> QED BY <1>1, ReceivablesInvariant, PTL

-----------------------------------------------------------------------------
(***************************************************************************)
(* Late interest: no day is billed twice as long as no claim reaches       *)
(* across a change of the reference rate.  A claim is the difference       *)
(* between the interest of all days so far and what was billed before, so  *)
(* everything hangs on the program adding up the same days at the same     *)
(* rates each time.                                                        *)
(***************************************************************************)

(* The recursive definitions are sums over sets.                            *)
LEMMA DaysAddUp ==
  ASSUME LateInterestAssumption, NEW f, NEW S, \A d \in InterestDays : f[d] \in Int
  PROVE  OverDays(f, S) = SumFunctionOnSet(f, S \intersect InterestDays)
<1> DEFINE L == LastInterestDay
           Step(g) == g = [d \in -1..L |->
                             IF d = -1 THEN 0 ELSE g[d - 1] + (IF d \in S THEN f[d] ELSE 0)]
           Sum(n) == SumFunctionOnSet(f, S \intersect 0..(n - 1))
<1>0. L \in Nat
  BY DEF LateInterestAssumption
<1>1. OverDays(f, S) = (CHOOSE g : Step(g))[L]
  BY DEF OverDays
<1>2. Sum(0) = 0
  <2>1. S \intersect 0..(0 - 1) = {}
    OBVIOUS
  <2> QED BY <2>1, SumOfNothing
<1>3. ASSUME NEW n \in Nat, n <= L
      PROVE  Sum(n + 1) = Sum(n) + (IF n \in S THEN f[n] ELSE 0)
  <2>1. PICK T : T = S \intersect 0..(n - 1)
    OBVIOUS
  <2>2. IsFiniteSet(T) /\ n \notin T /\ \A d \in T \union {n} : f[d] \in Int
    <3>1. 0..(n - 1) \in SUBSET InterestDays /\ IsFiniteSet(0..(n - 1)) /\ n \in InterestDays
          /\ n \notin 0..(n - 1)
      BY <1>0, <1>3, FS_Interval DEF InterestDays
    <3> QED BY <2>1, <3>1, FS_Subset
  <2>3. SumFunctionOnSet(f, T) \in Int
    BY <2>2, SumType
  <2>4. CASE n \in S
    <3>1. S \intersect 0..((n + 1) - 1) = T \union {n}
      BY <1>3, <2>1, <2>4
    <3>2. Sum(n + 1) = f[n] + SumFunctionOnSet(f, T)
      BY <2>2, <3>1, SumAdds
    <3> QED BY <2>1, <2>2, <2>3, <2>4, <3>2
  <2>5. CASE n \notin S
    <3>1. S \intersect 0..((n + 1) - 1) = T
      BY <1>3, <2>1, <2>5
    <3>2. Sum(n + 1) = SumFunctionOnSet(f, T) /\ Sum(n) = SumFunctionOnSet(f, T)
      BY <2>1, <3>1
    <3> HIDE DEF Sum
    <3> QED BY <2>3, <2>5, <3>2
  <2> QED BY <2>4, <2>5
<1> HIDE DEF Sum
<1>4. PICK G : G = [d \in -1..L |-> Sum(d + 1)]
  OBVIOUS
<1>5. Step(G)
  <2>1. ASSUME NEW d \in -1..L
        PROVE  Sum(d + 1) = IF d = -1 THEN 0 ELSE G[d - 1] + (IF d \in S THEN f[d] ELSE 0)
    <3>1. CASE d = -1
      BY <1>2, <3>1
    <3>2. CASE d # -1
      <4>1. d \in Nat /\ d <= L /\ d - 1 \in -1..L
        BY <1>0, <3>2
      <4>2. G[d - 1] = Sum(d)
        BY <1>4, <4>1
      <4> QED BY <1>3, <3>2, <4>1, <4>2
    <3> QED BY <3>1, <3>2
  <2> QED BY <1>4, <2>1
<1>6. PICK h : h = (CHOOSE g : Step(g)) /\ Step(h)
  BY <1>5
<1> DEFINE Follows(g) ==
      /\ g[-1] = 0
      /\ \A d \in 0..L : g[d] = g[d - 1] + (IF d \in S THEN f[d] ELSE 0)
<1>11. ASSUME NEW g, Step(g) PROVE Follows(g)
  <2>1. g[-1] = 0
    BY <1>0, <1>11
  <2>2. ASSUME NEW d \in 0..L PROVE g[d] = g[d - 1] + (IF d \in S THEN f[d] ELSE 0)
    <3>1. d \in -1..L /\ d # -1
      BY <1>0
    <3> QED BY <1>11, <3>1
  <2> QED BY <2>1, <2>2
<1>12. Follows(G) /\ Follows(h)
  <2> HIDE DEF Follows, Step
  <2> QED BY <1>5, <1>6, <1>11
<1>7. \A n \in Nat : n <= L + 1 => h[n - 1] = G[n - 1]
  <2> DEFINE Bad == {n \in Nat : n <= L + 1 /\ h[n - 1] # G[n - 1]}
  <2> SUFFICES ASSUME Bad # {} PROVE FALSE
    OBVIOUS
  <2>1. PICK n \in Bad : \A k \in Bad : n <= k
    BY LeastExists
  <2>2. n \in Nat /\ n <= L + 1 /\ n - 1 \in -1..L
    BY <1>0, <2>1
  <2>3. CASE n = 0
    <3>1. n - 1 = -1
      BY <2>3
    <3> QED BY <1>12, <2>1, <3>1
  <2>4. CASE n # 0
    <3>1. n - 1 \in Nat /\ n - 1 \notin Bad /\ n - 1 <= L + 1
      <4>1. n - 1 \in Nat /\ ~(n <= n - 1) /\ n - 1 <= L + 1
        BY <1>0, <2>2, <2>4
      <4> HIDE DEF Bad
      <4> QED BY <2>1, <4>1
    <3>2. h[(n - 1) - 1] = G[(n - 1) - 1]
      BY <3>1
    <3>3. n - 1 \in 0..L
      BY <2>2, <2>4
    <3> QED BY <1>12, <2>1, <3>2, <3>3
  <2> QED BY <2>3, <2>4
<1>8. h[L] = G[L]
  <2>1. L + 1 \in Nat /\ (L + 1) - 1 = L /\ L + 1 <= L + 1
    BY <1>0
  <2> QED BY <1>7, <2>1
<1>9. G[L] = Sum(L + 1)
  BY <1>0, <1>4
<1>10. S \intersect 0..((L + 1) - 1) = S \intersect InterestDays
  BY <1>0 DEF InterestDays
<1> QED BY <1>1, <1>6, <1>8, <1>9, <1>10 DEF Sum

LEMMA SeqAddsUp ==
  ASSUME NEW s, NEW n \in Nat, Len(s) = n, NEW S,
         \A i \in 1..n : s[i].amount \in Int
  PROVE  OverSeq(s, S) = SumFunctionOnSet([i \in 1..n |-> s[i].amount], S \intersect 1..n)
<1> DEFINE f == [i \in 1..n |-> s[i].amount]
           Step(g) == g = [i \in 0..n |->
                             IF i = 0 THEN 0 ELSE g[i - 1] + (IF i \in S THEN s[i].amount ELSE 0)]
           Sum(i) == SumFunctionOnSet(f, S \intersect 1..i)
<1>1. OverSeq(s, S) = (CHOOSE g : Step(g))[n]
  BY DEF OverSeq
<1>2. Sum(0) = 0
  <2>1. S \intersect 1..0 = {}
    OBVIOUS
  <2> QED BY <2>1, SumOfNothing
<1>3. ASSUME NEW i \in 1..n
      PROVE  Sum(i) = Sum(i - 1) + (IF i \in S THEN s[i].amount ELSE 0)
  <2>1. PICK T : T = S \intersect 1..(i - 1)
    OBVIOUS
  <2>2. IsFiniteSet(T) /\ i \notin T /\ \A j \in T \union {i} : f[j] \in Int
    <3>1. 1..(i - 1) \in SUBSET (1..n) /\ IsFiniteSet(1..(i - 1)) /\ i \notin 1..(i - 1)
      BY FS_Interval
    <3> QED BY <2>1, <3>1, FS_Subset
  <2>3. SumFunctionOnSet(f, T) \in Int
    BY <2>2, SumType
  <2>4. CASE i \in S
    <3>1. S \intersect 1..i = T \union {i}
      BY <1>3, <2>1, <2>4
    <3>2. Sum(i) = f[i] + SumFunctionOnSet(f, T)
      BY <2>2, <3>1, SumAdds
    <3>3. f[i] = s[i].amount /\ f[i] \in Int
      BY <2>2
    <3> HIDE DEF f
    <3> QED BY <2>1, <2>3, <2>4, <3>2, <3>3
  <2>5. CASE i \notin S
    <3>1. S \intersect 1..i = T
      BY <1>3, <2>1, <2>5
    <3>2. Sum(i) = SumFunctionOnSet(f, T) /\ Sum(i - 1) = SumFunctionOnSet(f, T)
      BY <2>1, <3>1
    <3> HIDE DEF Sum
    <3> QED BY <2>3, <2>5, <3>2
  <2> QED BY <2>4, <2>5
<1> HIDE DEF Sum
<1>4. PICK G : G = [i \in 0..n |-> Sum(i)]
  OBVIOUS
<1>5. Step(G)
  <2>1. ASSUME NEW i \in 0..n
        PROVE  Sum(i) = IF i = 0 THEN 0 ELSE G[i - 1] + (IF i \in S THEN s[i].amount ELSE 0)
    <3>1. CASE i = 0
      BY <1>2, <3>1
    <3>2. CASE i # 0
      <4>1. i \in 1..n /\ i - 1 \in 0..n
        BY <3>2
      <4>2. G[i - 1] = Sum(i - 1)
        BY <1>4, <4>1
      <4> QED BY <1>3, <3>2, <4>1, <4>2
    <3> QED BY <3>1, <3>2
  <2> QED BY <1>4, <2>1
<1>6. PICK h : h = (CHOOSE g : Step(g)) /\ Step(h)
  BY <1>5
<1> DEFINE Follows(g) ==
      /\ g[0] = 0
      /\ \A i \in 1..n : g[i] = g[i - 1] + (IF i \in S THEN s[i].amount ELSE 0)
<1>8. ASSUME NEW g, Step(g) PROVE Follows(g)
  <2>1. g[0] = 0
    BY <1>8
  <2>2. ASSUME NEW i \in 1..n PROVE g[i] = g[i - 1] + (IF i \in S THEN s[i].amount ELSE 0)
    <3>1. i \in 0..n /\ i # 0
      OBVIOUS
    <3> QED BY <1>8, <3>1
  <2> QED BY <2>1, <2>2
<1>9. Follows(G) /\ Follows(h)
  <2> HIDE DEF Follows, Step
  <2> QED BY <1>5, <1>6, <1>8
<1>7. \A i \in 0..n : h[i] = G[i]
  <2> DEFINE Bad == {i \in Nat : i <= n /\ h[i] # G[i]}
  <2>0. SUFFICES ASSUME Bad # {} PROVE FALSE
    OBVIOUS
  <2>1. PICK i \in Bad : \A k \in Bad : i <= k
    BY <2>0, LeastExists
  <2>2. i \in Nat /\ i <= n /\ i \in 0..n
    BY <2>1
  <2>3. CASE i = 0
    BY <1>9, <2>1, <2>3
  <2>4. CASE i # 0
    <3>1. i - 1 \in Nat /\ i - 1 \notin Bad /\ i - 1 <= n
      <4>1. i - 1 \in Nat /\ ~(i <= i - 1) /\ i - 1 <= n
        BY <2>2, <2>4
      <4> HIDE DEF Bad
      <4> QED BY <2>1, <4>1
    <3>2. h[i - 1] = G[i - 1]
      BY <3>1
    <3>3. i \in 1..n
      BY <2>2, <2>4
    <3> QED BY <1>9, <2>1, <3>2, <3>3
  <2> QED BY <2>3, <2>4
<1> QED BY <1>1, <1>4, <1>6, <1>7 DEF Sum

-----------------------------------------------------------------------------
(* Windows of days.                                                         *)

LEMMA HorizonTyped ==
  ASSUME LateInterestAssumption
  PROVE  /\ LastInterestDay \in Nat /\ InterestDays = 0..LastInterestDay
         /\ Due \in InterestDays /\ Divisor \in Nat /\ Divisor > 0 /\ RateChange \in Int
         /\ TableRates[1] \in Nat /\ TableRates[2] \in Nat
         /\ IsFiniteSet(InterestDays) /\ \A S : IsFiniteSet(S \intersect InterestDays)
         /\ InterestDays \subseteq Nat
<1>1. TableRates[1] \in Nat /\ TableRates[2] \in Nat
  BY DEF LateInterestAssumption
<1>2. IsFiniteSet(0..LastInterestDay)
  BY FS_Interval DEF LateInterestAssumption
<1>3. InterestDays = 0..LastInterestDay
  BY DEF InterestDays
<1>4. ASSUME NEW S PROVE IsFiniteSet(S \intersect InterestDays)
  <2>1. S \intersect InterestDays \subseteq InterestDays
    OBVIOUS
  <2> QED BY <1>2, <1>3, <2>1, FS_Subset
<1>5. Due \in InterestDays /\ Divisor \in Nat /\ Divisor > 0 /\ RateChange \in Int
      /\ LastInterestDay \in Nat
  BY DEF LateInterestAssumption
<1>6. InterestDays \subseteq Nat
  BY <1>3, <1>5
<1> QED BY <1>1, <1>2, <1>3, <1>4, <1>5, <1>6

LEMMA DaysTyped ==
  ASSUME LateInterestAssumption, NEW f, NEW S, \A d \in InterestDays : f[d] \in Int
  PROVE  OverDays(f, S) \in Int
<1>1. PICK A : A = S \intersect InterestDays
  OBVIOUS
<1>2. IsFiniteSet(A) /\ \A d \in A : f[d] \in Int
  BY <1>1, HorizonTyped
<1>3. SumFunctionOnSet(f, A) \in Int
  BY <1>2, SumType
<1>4. OverDays(f, S) = SumFunctionOnSet(f, A)
  BY <1>1, DaysAddUp
<1> QED BY <1>3, <1>4

LEMMA DaysAgree ==
  ASSUME LateInterestAssumption, NEW f, NEW g, NEW S,
         \A d \in InterestDays : f[d] \in Int /\ g[d] \in Int,
         \A d \in S \intersect InterestDays : f[d] = g[d]
  PROVE  OverDays(f, S) = OverDays(g, S)
<1>1. SumFunctionOnSet(f, S \intersect InterestDays) = SumFunctionOnSet(g, S \intersect InterestDays)
  BY HorizonTyped, SumCongruence
<1> QED BY <1>1, DaysAddUp

LEMMA DaysSplit ==
  ASSUME LateInterestAssumption, NEW f, NEW S, NEW T, \A d \in InterestDays : f[d] \in Int,
         S \intersect T = {}
  PROVE  OverDays(f, S \union T) = OverDays(f, S) + OverDays(f, T)
<1>1. PICK A, B : A = S \intersect InterestDays /\ B = T \intersect InterestDays
  OBVIOUS
<1>2. A \intersect B = {} /\ A \union B = (S \union T) \intersect InterestDays
      /\ \A x \in A \union B : f[x] \in Int
  BY <1>1
<1>3. IsFiniteSet(A) /\ IsFiniteSet(B)
  BY <1>1, HorizonTyped
<1>4. SumFunctionOnSet(f, A \union B) = SumFunctionOnSet(f, A) + SumFunctionOnSet(f, B)
  BY <1>2, <1>3, SumOfUnion
<1> QED BY <1>1, <1>2, <1>4, DaysAddUp

LEMMA BalanceTyped ==
  ASSUME LateInterestAssumption, paid \in [InterestDays -> Int], NEW day
  PROVE  OpenBalanceAsOf(day) \in Int /\ Positive(OpenBalanceAsOf(day)) \in Nat
<1>1. OverDays(paid, 0..day) \in Int
  BY DaysTyped
<1>2. OpenBalanceAsOf(day) \in Int
  BY <1>1 DEF OpenBalanceAsOf, LateInterestAssumption
<1> QED BY <1>2 DEF Positive

(* The units of a day at a rate.                                            *)
UnitsAt(rate) == [d \in InterestDays |-> Positive(OpenBalanceAsOf(d)) * rate]

LEMMA UnitsTyped ==
  ASSUME LateInterestAssumption, paid \in [InterestDays -> Int], NEW rate \in Nat
  PROVE  \A d \in InterestDays : UnitsAt(rate)[d] \in Int
<1> SUFFICES ASSUME NEW d \in InterestDays PROVE UnitsAt(rate)[d] \in Int
  OBVIOUS
<1>1. PICK b \in Nat : b = Positive(OpenBalanceAsOf(d))
  BY BalanceTyped
<1>2. UnitsAt(rate)[d] = b * rate
  BY <1>1 DEF UnitsAt
<1> QED BY <1>2

LEMMA WindowTyped ==
  ASSUME LateInterestAssumption, paid \in [InterestDays -> Int], NEW from, NEW to, NEW rate \in Nat
  PROVE  /\ WindowSegments(from, to, rate) = OverDays(UnitsAt(rate), from..(to - 1))
         /\ WindowSegments(from, to, rate) \in Int
<1>1. WindowSegments(from, to, rate) = OverDays(UnitsAt(rate), from..(to - 1))
  BY DEF WindowSegments, UnitsAt
<1> QED BY <1>1, UnitsTyped, DaysTyped

LEMMA RateWindowsTyped ==
  ASSUME LateInterestAssumption, paid \in [InterestDays -> Int], NEW from, NEW to,
         NEW source, NEW rate \in Nat
  PROVE  ClaimRateWindows(from, to, source, rate) \in Int
<1>1. WindowSegments(from, to, rate) \in Int
      /\ WindowSegments(from, Smaller(to, RateChange), TableRates[1]) \in Int
      /\ WindowSegments(Larger(from, RateChange), to, TableRates[2]) \in Int
  BY HorizonTyped, WindowTyped
<1> QED BY <1>1 DEF ClaimRateWindows

(* A window in which the table has one rate is not split by it.             *)
LEMMA OneRate ==
  ASSUME LateInterestAssumption, paid \in [InterestDays -> Int], NEW from \in Int, NEW to \in Int,
         NEW source, NEW rate \in Nat,
         source # "manual" => \A d \in from..(to - 1) : LookupRate(d) = rate
  PROVE  ClaimRateWindows(from, to, source, rate) = WindowSegments(from, to, rate)
<1>1. CASE source = "manual"
  BY <1>1 DEF ClaimRateWindows
<1>2. CASE source # "manual"
  <2>1. PICK A, B : A = from..(Smaller(to, RateChange) - 1) /\ B = Larger(from, RateChange)..(to - 1)
    OBVIOUS
  <2>2. A \intersect B = {} /\ A \union B = from..(to - 1)
    BY <2>1, HorizonTyped DEF Smaller, Larger
  <2>3. ASSUME NEW d \in A PROVE TableRates[1] = rate
    <3>1. d \in from..(to - 1) /\ d < RateChange
      BY <2>1, HorizonTyped DEF Smaller
    <3>2. LookupRate(d) = TableRates[1]
      BY <3>1 DEF LookupRate
    <3> QED BY <1>2, <3>1, <3>2
  <2>4. ASSUME NEW d \in B PROVE TableRates[2] = rate
    <3>1. d \in from..(to - 1) /\ ~(d < RateChange)
      BY <2>1, HorizonTyped DEF Larger
    <3>2. LookupRate(d) = TableRates[2]
      BY <3>1 DEF LookupRate
    <3> QED BY <1>2, <3>1, <3>2
  <2>5. OverDays(UnitsAt(TableRates[1]), A) = OverDays(UnitsAt(rate), A)
    <3>1. PICK f, g : f = UnitsAt(TableRates[1]) /\ g = UnitsAt(rate)
      OBVIOUS
    <3>2. \A d \in A \intersect InterestDays : f[d] = g[d]
      BY <2>3, <3>1
    <3>3. \A d \in InterestDays : f[d] \in Int /\ g[d] \in Int
      BY <3>1, HorizonTyped, UnitsTyped
    <3>4. OverDays(f, A) = OverDays(g, A)
      BY <3>2, <3>3, DaysAgree
    <3> QED BY <3>1, <3>4
  <2>6. OverDays(UnitsAt(TableRates[2]), B) = OverDays(UnitsAt(rate), B)
    <3>1. PICK f, g : f = UnitsAt(TableRates[2]) /\ g = UnitsAt(rate)
      OBVIOUS
    <3>2. \A d \in B \intersect InterestDays : f[d] = g[d]
      BY <2>4, <3>1
    <3>3. \A d \in InterestDays : f[d] \in Int /\ g[d] \in Int
      BY <3>1, HorizonTyped, UnitsTyped
    <3>4. OverDays(f, B) = OverDays(g, B)
      BY <3>2, <3>3, DaysAgree
    <3> QED BY <3>1, <3>4
  <2>7. OverDays(UnitsAt(rate), A \union B)
          = OverDays(UnitsAt(rate), A) + OverDays(UnitsAt(rate), B)
    BY <2>2, UnitsTyped, DaysSplit
  <2>8. /\ WindowSegments(from, Smaller(to, RateChange), TableRates[1])
             = OverDays(UnitsAt(TableRates[1]), A)
        /\ WindowSegments(Larger(from, RateChange), to, TableRates[2])
             = OverDays(UnitsAt(TableRates[2]), B)
        /\ WindowSegments(from, to, rate) = OverDays(UnitsAt(rate), from..(to - 1))
    BY <2>1, HorizonTyped, WindowTyped
  <2> QED BY <1>2, <2>2, <2>5, <2>6, <2>7, <2>8 DEF ClaimRateWindows
<1> QED BY <1>1, <1>2

-----------------------------------------------------------------------------
(* Sums over claims.                                                        *)

LEMMA LenOfFunction ==
  ASSUME NEW n \in Nat, NEW s, s = [i \in 1..n |-> s[i]]
  PROVE  Len(s) = n /\ DOMAIN s = 1..n
<1>1. s \in Seq({s[i] : i \in 1..n})
  BY SeqDef
<1>2. DOMAIN s = 1..Len(s) /\ Len(s) \in Nat
  BY <1>1, LenProperties
<1> QED BY <1>2

LEMMA SeqTyped ==
  ASSUME NEW s, NEW n \in Nat, Len(s) = n, NEW S, \A i \in 1..n : s[i].amount \in Int
  PROVE  OverSeq(s, S) \in Int
<1>1. PICK A, f : A = S \intersect 1..n /\ f = [i \in 1..n |-> s[i].amount]
  OBVIOUS
<1>2. IsFiniteSet(A)
  <2>1. IsFiniteSet(1..n) /\ A \subseteq 1..n
    BY <1>1, FS_Interval
  <2> QED BY <2>1, FS_Subset
<1>3. \A i \in A : f[i] \in Int
  BY <1>1
<1>4. SumFunctionOnSet(f, A) \in Int
  BY <1>2, <1>3, SumType
<1>5. OverSeq(s, S) = SumFunctionOnSet(f, A)
  BY <1>1, SeqAddsUp
<1> QED BY <1>4, <1>5

LEMMA SeqOfNothing ==
  ASSUME NEW s, Len(s) = 0
  PROVE  OverSeq(s, {}) = 0
<1>1. PICK n \in Nat : n = 0
  OBVIOUS
<1>2. PICK S, f : S = {} /\ f = [i \in 1..n |-> s[i].amount]
  OBVIOUS
<1>3. Len(s) = n /\ \A i \in 1..n : s[i].amount \in Int
  BY <1>1
<1>4. OverSeq(s, S) = SumFunctionOnSet(f, S \intersect 1..n)
  BY <1>2, <1>3, SeqAddsUp
<1>5. S \intersect 1..n = {}
  BY <1>2
<1> QED BY <1>2, <1>4, <1>5, SumOfNothing

(* What is left of a sum when the sequence grows.                           *)
LEMMA SeqGrows ==
  ASSUME NEW s, NEW t, NEW n \in Nat, Len(s) = n, Len(t) = n + 1, NEW S, NEW T,
         \A i \in 1..n : s[i].amount \in Int /\ t[i].amount = s[i].amount,
         t[n + 1].amount \in Int,
         \A i \in 1..n : i \in T <=> i \in S
  PROVE  OverSeq(t, T) = OverSeq(s, S) + (IF n + 1 \in T THEN t[n + 1].amount ELSE 0)
<1>9. PICK f, g : /\ f = [i \in 1..n |-> s[i].amount]
                  /\ g = [i \in 1..(n + 1) |-> t[i].amount]
  OBVIOUS
<1>1. PICK A : A = S \intersect 1..n
  OBVIOUS
<1>2. IsFiniteSet(A)
  <2>1. IsFiniteSet(1..n) /\ A \subseteq 1..n
    BY <1>1, FS_Interval
  <2> QED BY <2>1, FS_Subset
<1>3. \A i \in A : f[i] = g[i] /\ g[i] \in Int
  BY <1>1, <1>9
<1>4. SumFunctionOnSet(f, A) = SumFunctionOnSet(g, A) /\ SumFunctionOnSet(g, A) \in Int
  BY <1>2, <1>3, SumCongruence, SumType
<1>5. OverSeq(s, S) = SumFunctionOnSet(f, A)
  BY <1>1, <1>9, SeqAddsUp
<1>6. OverSeq(t, T) = SumFunctionOnSet(g, T \intersect 1..(n + 1))
  <2>1. \A i \in 1..(n + 1) : t[i].amount \in Int
    <3>1. \A i \in 1..(n + 1) : i \in 1..n \/ i = n + 1
      OBVIOUS
    <3> QED BY <3>1
  <2>2. n + 1 \in Nat
    OBVIOUS
  <2> QED BY <1>9, <2>1, <2>2, SeqAddsUp
<1>7. CASE n + 1 \in T
  <2>1. T \intersect 1..(n + 1) = A \union {n + 1} /\ n + 1 \notin A
    BY <1>1, <1>7
  <2>2. g[n + 1] = t[n + 1].amount /\ \A i \in A \union {n + 1} : g[i] \in Int
    <3>1. n + 1 \in 1..(n + 1)
      OBVIOUS
    <3>2. g[n + 1] = t[n + 1].amount
      BY <1>9, <3>1
    <3> QED BY <1>3, <3>2
  <2>3. SumFunctionOnSet(g, A \union {n + 1}) = g[n + 1] + SumFunctionOnSet(g, A)
    BY <1>2, <2>1, <2>2, SumAdds
  <2>4. PICK a, x : a = SumFunctionOnSet(g, A) /\ x = t[n + 1].amount /\ a \in Int /\ x \in Int
    BY <1>4
  <2>5. OverSeq(t, T) = x + a /\ OverSeq(s, S) = a
    BY <1>4, <1>5, <1>6, <2>1, <2>2, <2>3, <2>4
  <2>6. OverSeq(t, T) = OverSeq(s, S) + x
    BY <2>4, <2>5
  <2> QED BY <1>7, <2>4, <2>6
<1>8. CASE n + 1 \notin T
  <2>1. T \intersect 1..(n + 1) = A
    BY <1>1, <1>8
  <2>2. OverSeq(t, T) = OverSeq(s, S) /\ OverSeq(s, S) \in Int
    BY <1>4, <1>5, <1>6, <2>1
  <2>3. OverSeq(t, T) = OverSeq(s, S) + 0
    BY <2>2
  <2> QED BY <1>8, <2>3
<1> QED BY <1>7, <1>8

LEMMA SeqGrowsBy ==
  ASSUME NEW s, NEW t, NEW n \in Nat, Len(s) = n, Len(t) = n + 1, NEW x \in Int,
         \A i \in 1..n : s[i].amount \in Int /\ t[i].amount = s[i].amount,
         t[n + 1].amount = x
  PROVE  OverSeq(t, 1..(n + 1)) = OverSeq(s, 1..n) + x
<1>1. PICK S, T : S = 1..n /\ T = 1..(n + 1)
  OBVIOUS
<1>2. (\A i \in 1..n : i \in T <=> i \in S) /\ n + 1 \in T /\ t[n + 1].amount \in Int
  BY <1>1
<1>3. OverSeq(t, T) = OverSeq(s, S) + (IF n + 1 \in T THEN t[n + 1].amount ELSE 0)
  BY <1>2, SeqGrows
<1> QED BY <1>1, <1>2, <1>3

LEMMA SeqStays ==
  ASSUME NEW s, NEW t, NEW n \in Nat, Len(s) = n, Len(t) = n + 1, NEW S,
         \A i \in 1..n : s[i].amount \in Int /\ t[i].amount = s[i].amount,
         t[n + 1].amount \in Int, n + 1 \notin S
  PROVE  OverSeq(t, S) = OverSeq(s, S) /\ OverSeq(s, S) \in Int
<1>1. OverSeq(s, S) \in Int
  BY SeqTyped
<1>2. PICK T : T = S
  OBVIOUS
<1>3. \A i \in 1..n : i \in T <=> i \in S
  BY <1>2
<1>4. OverSeq(t, T) = OverSeq(s, S) + (IF n + 1 \in T THEN t[n + 1].amount ELSE 0)
  BY <1>3, SeqGrows
<1> QED BY <1>1, <1>2, <1>4

LEMMA SeqAgrees ==
  ASSUME NEW s, NEW t, NEW n \in Nat, Len(s) = n, Len(t) = n, NEW S, NEW T,
         \A i \in 1..n : s[i].amount \in Int /\ t[i].amount \in Int,
         \A i \in 1..n : i \in T <=> i \in S,
         \A i \in 1..n : i \in S => t[i].amount = s[i].amount
  PROVE  OverSeq(t, T) = OverSeq(s, S)
<1>9. PICK f, g : f = [i \in 1..n |-> s[i].amount] /\ g = [i \in 1..n |-> t[i].amount]
  OBVIOUS
<1>1. PICK A : A = S \intersect 1..n /\ A = T \intersect 1..n
  OBVIOUS
<1>2. IsFiniteSet(A)
  <2>1. IsFiniteSet(1..n) /\ A \subseteq 1..n
    BY <1>1, FS_Interval
  <2> QED BY <2>1, FS_Subset
<1>3. \A i \in A : f[i] = g[i]
  BY <1>1, <1>9
<1>4. SumFunctionOnSet(f, A) = SumFunctionOnSet(g, A)
  BY <1>2, <1>3, SumCongruence
<1> QED BY <1>1, <1>4, <1>9, SeqAddsUp

(* A part of amounts that are not negative is no more than all.             *)
LEMMA SeqPart ==
  ASSUME NEW s, NEW n \in Nat, Len(s) = n, NEW S, NEW T, S \intersect 1..n \subseteq T,
         \A i \in 1..n : s[i].amount \in Nat
  PROVE  OverSeq(s, S) <= OverSeq(s, T) /\ OverSeq(s, S) \in Nat
<1>9. PICK f : f = [i \in 1..n |-> s[i].amount]
  OBVIOUS
<1>1. PICK A, B : A = S \intersect 1..n /\ B = T \intersect 1..n
  OBVIOUS
<1>2. IsFiniteSet(B) /\ A \in SUBSET B
  <2>1. IsFiniteSet(1..n) /\ B \subseteq 1..n
    BY <1>1, FS_Interval
  <2> QED BY <1>1, <2>1, FS_Subset
<1>3. \A i \in B : f[i] \in Nat
  BY <1>1, <1>9
<1>4. SumFunctionOnSet(f, A) <= SumFunctionOnSet(f, B) /\ SumFunctionOnSet(f, A) \in Nat
  BY <1>2, <1>3, SumsGrow
<1> QED BY <1>1, <1>4, <1>9, SeqAddsUp

-----------------------------------------------------------------------------
(* The claims stand in the order of their dates, all after the due date.    *)
ClaimsInOrder ==
  \A i \in Claims :
    /\ interest[i].date > Due
    /\ \A j \in Claims : j < i => interest[j].date < interest[i].date

(* A claim at the rate of the table carries the rate of its date.           *)
TableRatesRecorded ==
  \A i \in Claims :
    interest[i].source = "table" => interest[i].rate = LookupRate(interest[i].date)

InterestInv ==
  /\ LateInterestTypeOK
  /\ ClaimsInOrder
  /\ TableRatesRecorded
  /\ InterestReceivableCovered

(* No claim at the rate of the table reaches across a change of that rate.  *)
ClaimsWithinOneRate ==
  \A i \in Claims :
    interest[i].source = "table" =>
      \A d \in From(i)..(interest[i].date - 1) : LookupRate(d) = interest[i].rate

(* The rate of the table does not change while the invoice is overdue.      *)
RateIsSteady == RateChange <= Due \/ RateChange > LastInterestDay

InterestClaims ==
  [date : InterestDays, source : {"table", "manual"}, rate : Nat,
   amount : Nat \ {0}, posted : BOOLEAN]

LEMMA ClaimsTyped ==
  ASSUME LateInterestTypeOK
  PROVE  /\ Len(interest) \in Nat /\ Claims = 1..Len(interest)
         /\ \A i \in Claims : interest[i] \in InterestClaims
         /\ \A i \in 1..Len(interest) : interest[i].amount \in Nat
         /\ Len(interestCorrections) \in Nat
         /\ DOMAIN interestCorrections = 1..Len(interestCorrections)
         /\ \A i \in 1..Len(interestCorrections) : interestCorrections[i].amount \in Nat
         /\ Posted \subseteq Claims
<1>1. interest \in Seq(InterestClaims)
  BY DEF LateInterestTypeOK, InterestClaims
<1>2. interestCorrections \in Seq([date : InterestDays, amount : Nat \ {0}])
  BY DEF LateInterestTypeOK
<1>3. Len(interest) \in Nat /\ DOMAIN interest = 1..Len(interest)
      /\ \A i \in 1..Len(interest) : interest[i] \in InterestClaims
  BY <1>1, LenProperties, ElementOfSeq
<1>4. \A i \in 1..Len(interest) : interest[i].amount \in Nat
  BY <1>3 DEF InterestClaims
<1>5. Len(interestCorrections) \in Nat
      /\ DOMAIN interestCorrections = 1..Len(interestCorrections)
      /\ \A i \in 1..Len(interestCorrections) :
           interestCorrections[i] \in [date : InterestDays, amount : Nat \ {0}]
  BY <1>2, LenProperties, ElementOfSeq
<1>6. \A i \in 1..Len(interestCorrections) : interestCorrections[i].amount \in Nat
  BY <1>5
<1> QED BY <1>3, <1>4, <1>5, <1>6 DEF Claims, Posted

LEMMA RoundingTyped ==
  ASSUME LateInterestAssumption, NEW u \in Int
  PROVE  CumulativeInterest(u) \in Int
<1>1. PICK k : k = 2 * Divisor /\ k \in Nat /\ k > 0
  BY HorizonTyped
<1>2. 2 * u + Divisor \in Int
  BY HorizonTyped
<1>3. (2 * u + Divisor) \div k \in Int
  BY <1>1, <1>2
<1> QED BY <1>1, <1>3 DEF CumulativeInterest

(* The amounts that the operations weigh against each other.                *)
LEMMA AmountsTyped ==
  ASSUME LateInterestAssumption, LateInterestTypeOK
  PROVE  /\ PostedInterest \in Nat /\ AlreadyCorrected \in Nat /\ LawfulInterest \in Int
         /\ OutstandingInterest \in Int /\ OverClaimed \in Nat
         /\ \A i \in Claims : OwnWindow(i) \in Int
         /\ \A asOf \in InterestDays : PriorClaimed(asOf) \in Int
<1>1. PostedInterest \in Nat
  BY ClaimsTyped, SeqPart DEF PostedInterest
<1>2. AlreadyCorrected \in Nat
  BY ClaimsTyped, SeqPart DEF AlreadyCorrected
<1>3. ASSUME NEW i \in Claims PROVE OwnWindow(i) \in Int
  <2>1. interest[i].rate \in Nat
    BY ClaimsTyped DEF InterestClaims
  <2> QED BY <2>1, RateWindowsTyped DEF OwnWindow, LateInterestTypeOK
<1>4. LawfulInterest \in Int
  <2>1. PICK s : s = [i \in Claims |-> [amount |-> OwnWindow(i)]]
    OBVIOUS
  <2>2. Len(s) = Len(interest) /\ \A i \in 1..Len(interest) : s[i].amount \in Int
    <3>1. s = [i \in 1..Len(interest) |-> s[i]]
      BY <2>1, ClaimsTyped
    <3>2. \A i \in 1..Len(interest) : s[i].amount \in Int
      BY <1>3, <2>1, ClaimsTyped
    <3> QED BY <3>1, <3>2, ClaimsTyped, LenOfFunction
  <2>3. OverSeq(s, Posted) \in Int
    BY <2>2, ClaimsTyped, SeqTyped
  <2> QED BY <2>1, <2>3, RoundingTyped DEF LawfulInterest
<1>5. OutstandingInterest \in Int
  BY <1>1, <1>2 DEF OutstandingInterest, LateInterestTypeOK
<1>6. OverClaimed \in Nat
  BY <1>1, <1>2, <1>4 DEF OverClaimed, Positive
<1>7. ASSUME NEW asOf \in InterestDays PROVE PriorClaimed(asOf) \in Int
  <2>1. BilledUntil(asOf) \in Nat
    BY ClaimsTyped, SeqPart DEF BilledUntil
  <2>2. CorrectedUntil(asOf) \in Nat
    BY ClaimsTyped, SeqPart DEF CorrectedUntil
  <2> QED BY <2>1, <2>2 DEF PriorClaimed
<1> QED BY <1>1, <1>2, <1>3, <1>4, <1>5, <1>6, <1>7

(* A claim that bills something is later than every claim before it.        *)
LEMMA BillsLater ==
  ASSUME LateInterestAssumption, LateInterestTypeOK, ClaimsInOrder,
         NEW asOf \in InterestDays, NEW source, NEW rate, Accrued(asOf, source, rate) > 0
  PROVE  /\ asOf > Due /\ \A i \in Claims : interest[i].date < asOf
         /\ Anchor = From(Len(interest) + 1) /\ Anchor \in Nat
         /\ Accrued(asOf, source, rate) = TotalInterest(asOf, source, rate) - PriorClaimed(asOf)
         /\ ClaimableDays(asOf) > 0
<1>0. asOf \in Nat /\ Due \in Nat
  BY HorizonTyped
<1>1. ClaimableDays(asOf) > 0
  BY DEF Accrued
<1>4. Accrued(asOf, source, rate) = TotalInterest(asOf, source, rate) - PriorClaimed(asOf)
  <2>1. PICK t : t = TotalInterest(asOf, source, rate) - PriorClaimed(asOf)
    OBVIOUS
  <2>2. Accrued(asOf, source, rate) = Positive(t)
    BY <1>1, <2>1 DEF Accrued
  <2>3. Positive(t) > 0
    BY <2>2
  <2>4. Positive(t) = t
    BY <2>3 DEF Positive
  <2> QED BY <2>1, <2>2, <2>4
<1>2. CASE interest = <<>>
  <2>1. Len(interest) = 0 /\ Claims = {}
    BY <1>2, ClaimsTyped, EmptySeq
  <2>2. Anchor = Due /\ From(Len(interest) + 1) = Due
    BY <1>2, <2>1 DEF Anchor, From
  <2>3. asOf > Due
    BY <1>0, <1>1, <2>2 DEF ClaimableDays, Positive
  <2> QED BY <1>0, <1>1, <1>4, <2>1, <2>2, <2>3
<1>3. CASE interest # <<>>
  <2>1. PICK n \in Nat : n = Len(interest) /\ n > 0 /\ n \in Claims
    <3>1. Len(interest) \in Nat /\ Len(interest) # 0 /\ Claims = 1..Len(interest)
      BY <1>3, ClaimsTyped, EmptySeq DEF LateInterestTypeOK
    <3> QED BY <3>1
  <2>2. PICK l \in Nat : l = interest[n].date /\ l > Due
    BY <2>1, ClaimsTyped, HorizonTyped DEF InterestClaims, ClaimsInOrder
  <2>3. Anchor = l
    BY <1>0, <1>3, <2>1, <2>2 DEF Anchor, LastClaimDate, Larger
  <2>4. From(n + 1) = l
    BY <2>1, <2>2 DEF From
  <2>5. asOf > l
    BY <1>0, <1>1, <2>3 DEF ClaimableDays, Positive
  <2>6. ASSUME NEW i \in Claims PROVE interest[i].date < asOf
    <3>1. interest[i].date \in Nat /\ i \in 1..n
      BY <2>1, ClaimsTyped, HorizonTyped DEF InterestClaims
    <3>2. i = n \/ i < n
      BY <3>1
    <3>3. interest[i].date <= l
      BY <2>1, <2>2, <3>1, <3>2 DEF ClaimsInOrder
    <3> QED BY <1>0, <2>5, <3>1, <3>3
  <2> QED BY <1>0, <1>1, <1>4, <2>1, <2>2, <2>3, <2>4, <2>5, <2>6
<1> QED BY <1>1, <1>2, <1>3, <1>4

-----------------------------------------------------------------------------
(* What each operation does to the claims.                                  *)

LEMMA InterestInit ==
  ASSUME LateInterestAssumption, LateInterestInit
  PROVE  InterestInv
<1>1. paid \in [InterestDays -> Int]
  BY DEF LateInterestInit
<1>2. /\ Len(interest) = 0 /\ Claims = {} /\ Posted = {}
      /\ Len(interestCorrections) = 0 /\ DOMAIN interestCorrections = {}
  BY DEF LateInterestInit, Claims, Posted
<1>3. changes \in 0..MaxChanges /\ credited \in 0..Gross /\ receipts \in Nat
  BY DEF LateInterestInit, LateInterestAssumption
<1>4. /\ interest \in Seq([date : InterestDays, source : {"table", "manual"},
                           rate : Nat, amount : Nat \ {0}, posted : BOOLEAN])
      /\ interestCorrections \in Seq([date : InterestDays, amount : Nat \ {0}])
  BY EmptySeq DEF LateInterestInit
<1>5. LateInterestTypeOK
  BY <1>1, <1>2, <1>3, <1>4 DEF LateInterestTypeOK, LateInterestAssumption
<1>6. ClaimsInOrder /\ TableRatesRecorded
  BY <1>2 DEF ClaimsInOrder, TableRatesRecorded
<1>7. InterestReceivableCovered
  <2>1. PostedInterest \in Nat /\ AlreadyCorrected \in Nat
    BY <1>5, AmountsTyped
  <2>2. AlreadyCorrected = 0
    <3>1. PICK s : s = interestCorrections /\ Len(s) = 0 /\ \A i \in 1..0 : s[i].amount \in Int
      BY <1>2
    <3>2. OverSeq(s, {}) = 0
      BY <3>1, SeqOfNothing
    <3> QED BY <1>2, <3>1, <3>2 DEF AlreadyCorrected
  <2> QED BY <2>1, <2>2 DEF InterestReceivableCovered, OutstandingInterest, LateInterestInit
<1> QED BY <1>5, <1>6, <1>7 DEF InterestInv

(* Entries against the principal leave the claims alone.                    *)
LEMMA EntriesKeep ==
  ASSUME LateInterestAssumption, InterestInv, NEW day \in InterestDays, NEW amount \in Int,
         Enter(day, amount), changes < MaxChanges, credited' \in 0..Gross
  PROVE  InterestInv'
<1>1. paid' \in [InterestDays -> Int]
  <2>1. paid[day] + amount \in Int
    BY DEF InterestInv, LateInterestTypeOK
  <2> QED BY <2>1 DEF InterestInv, LateInterestTypeOK, Enter
<1>2. changes' \in 0..MaxChanges
  BY DEF InterestInv, LateInterestTypeOK, Enter, LateInterestAssumption
<1>3. UNCHANGED <<interest, interestCorrections, receipts>>
  BY DEF Enter
<1>4. LateInterestTypeOK'
  BY <1>1, <1>2, <1>3 DEF InterestInv, LateInterestTypeOK
<1>5. ClaimsInOrder' /\ TableRatesRecorded'
  BY <1>3 DEF InterestInv, ClaimsInOrder, TableRatesRecorded, Claims, LookupRate
<1>6. InterestReceivableCovered'
  BY <1>3 DEF InterestInv, InterestReceivableCovered, OutstandingInterest, PostedInterest,
              AlreadyCorrected, Posted, Claims
<1> QED BY <1>4, <1>5, <1>6 DEF InterestInv

LEMMA ReceiptKeeps ==
  ASSUME LateInterestAssumption, InterestInv, NEW amount \in Changes, ReceiveInterest(amount)
  PROVE  InterestInv'
<1>1. amount \in Nat /\ amount <= OutstandingInterest /\ receipts' = receipts + amount
      /\ changes' = changes + 1 /\ changes < MaxChanges
      /\ UNCHANGED <<paid, credited, interest, interestCorrections>>
  BY DEF ReceiveInterest, LateInterestAssumption
<1>2. LateInterestTypeOK'
  BY <1>1 DEF InterestInv, LateInterestTypeOK, LateInterestAssumption
<1>3. ClaimsInOrder' /\ TableRatesRecorded'
  BY <1>1 DEF InterestInv, ClaimsInOrder, TableRatesRecorded, Claims, LookupRate
<1>4. InterestReceivableCovered'
  <2>1. PostedInterest' = PostedInterest /\ AlreadyCorrected' = AlreadyCorrected
    BY <1>1 DEF PostedInterest, AlreadyCorrected, Posted, Claims
  <2>2. PostedInterest \in Nat /\ AlreadyCorrected \in Nat /\ receipts \in Nat
    BY AmountsTyped DEF InterestInv, LateInterestTypeOK
  <2> QED BY <1>1, <2>1, <2>2 DEF InterestReceivableCovered, OutstandingInterest
<1> QED BY <1>2, <1>3, <1>4 DEF InterestInv

LEMMA PostingKeeps ==
  ASSUME LateInterestAssumption, InterestInv, NEW i \in Claims, PostInterest(i)
  PROVE  InterestInv'
<1>0. PICK n \in Nat : n = Len(interest) /\ Claims = 1..n
  BY ClaimsTyped DEF InterestInv
<1>1. interest' = [interest EXCEPT ![i].posted = TRUE]
      /\ UNCHANGED <<paid, changes, credited, interestCorrections, receipts>>
      /\ ~interest[i].posted
  BY DEF PostInterest
<1>2. interest \in [1..n -> InterestClaims] /\ interest \in Seq(InterestClaims)
  BY <1>0, LenProperties DEF InterestInv, LateInterestTypeOK, InterestClaims
<1>3. interest' \in [1..n -> InterestClaims]
  <2>1. [interest[i] EXCEPT !.posted = TRUE] \in InterestClaims
    BY <1>0, <1>2 DEF InterestClaims
  <2> QED BY <1>0, <1>1, <1>2, <2>1
<1>4. interest' \in Seq(InterestClaims) /\ Len(interest') = n /\ DOMAIN interest' = 1..n
  <2>1. interest' \in Seq(InterestClaims)
    BY <1>3, SeqDef
  <2>2. DOMAIN interest' = 1..Len(interest') /\ Len(interest') \in Nat
    BY <2>1, LenProperties
  <2> QED BY <1>3, <2>1, <2>2
<1>5. \A j \in 1..n : /\ interest'[j].date = interest[j].date
                      /\ interest'[j].source = interest[j].source
                      /\ interest'[j].rate = interest[j].rate
                      /\ interest'[j].amount = interest[j].amount
                      /\ interest'[j].posted = (interest[j].posted \/ j = i)
  <2> SUFFICES ASSUME NEW j \in 1..n
               PROVE  /\ interest'[j].date = interest[j].date
                      /\ interest'[j].source = interest[j].source
                      /\ interest'[j].rate = interest[j].rate
                      /\ interest'[j].amount = interest[j].amount
                      /\ interest'[j].posted = (interest[j].posted \/ j = i)
    OBVIOUS
  <2>1. interest[j] \in InterestClaims /\ interest[i] \in InterestClaims
    BY <1>0, <1>2
  <2>2. CASE j = i
    <3>1. interest'[i] = [interest[i] EXCEPT !.posted = TRUE]
      BY <1>0, <1>1, <1>2
    <3> QED BY <2>1, <2>2, <3>1 DEF InterestClaims
  <2>3. CASE j # i
    <3>1. interest'[j] = interest[j]
      BY <1>0, <1>1, <1>2, <2>3
    <3> QED BY <2>1, <2>3, <3>1 DEF InterestClaims
  <2> QED BY <2>2, <2>3
<1>6. LateInterestTypeOK'
  BY <1>0, <1>1, <1>4 DEF InterestInv, LateInterestTypeOK, InterestClaims
<1>7. Claims' = 1..n
  BY <1>4 DEF Claims
<1>8. ClaimsInOrder'
  BY <1>0, <1>5, <1>7 DEF InterestInv, ClaimsInOrder
<1>9. TableRatesRecorded'
  BY <1>0, <1>5, <1>7 DEF InterestInv, TableRatesRecorded, LookupRate
<1>10. InterestReceivableCovered'
  <2>1. PICK S, T : S = Posted /\ T = Posted'
    OBVIOUS
  <2>2. S \intersect 1..n \subseteq T
    <3>1. \A j \in S : j \in 1..n /\ interest[j].posted
      BY <1>0, <2>1 DEF Posted
    <3>2. \A j \in S : j \in Claims' /\ interest'[j].posted
      BY <1>5, <1>7, <3>1
    <3> QED BY <2>1, <3>2 DEF Posted
  <2>3. \A j \in 1..n : interest[j].amount \in Nat /\ interest'[j].amount = interest[j].amount
    BY <1>2, <1>5 DEF InterestClaims
  <2>4. OverSeq(interest, S) <= OverSeq(interest, T) /\ OverSeq(interest, S) \in Nat
    BY <1>0, <2>2, <2>3, SeqPart
  <2>5. OverSeq(interest', T) = OverSeq(interest, T)
    <3>1. PICK t : t = interest'
      OBVIOUS
    <3>2. Len(t) = n /\ \A j \in 1..n : t[j].amount \in Int /\ interest[j].amount \in Int
                                        /\ t[j].amount = interest[j].amount
      BY <1>4, <2>3, <3>1
    <3>3. OverSeq(t, T) = OverSeq(interest, T)
      BY <1>0, <3>2, SeqAgrees
    <3> QED BY <3>1, <3>3
  <2>6. PostedInterest = OverSeq(interest, S) /\ PostedInterest' = OverSeq(interest', T)
    BY <2>1 DEF PostedInterest
  <2>7. PostedInterest' \in Nat /\ PostedInterest' >= PostedInterest /\ PostedInterest \in Nat
    <3>1. OverSeq(interest, T) \in Int
      BY <1>0, <2>3, SeqTyped
    <3> QED BY <2>4, <2>5, <2>6, <3>1
  <2>8. AlreadyCorrected' = AlreadyCorrected /\ AlreadyCorrected \in Nat /\ receipts \in Nat
    BY <1>1, AmountsTyped DEF AlreadyCorrected, InterestInv, LateInterestTypeOK
  <2> QED BY <1>1, <2>7, <2>8 DEF InterestInv, InterestReceivableCovered, OutstandingInterest
<1> QED BY <1>6, <1>8, <1>9, <1>10 DEF InterestInv

LEMMA CorrectionKeeps ==
  ASSUME LateInterestAssumption, InterestInv, NEW date \in InterestDays, PostCorrection(date)
  PROVE  InterestInv'
<1>1. PICK r, x : /\ x = OverClaimed /\ r = [date |-> date, amount |-> x]
                  /\ interestCorrections' = Append(interestCorrections, r)
                  /\ UNCHANGED <<paid, changes, credited, interest, receipts>>
                  /\ x \in Nat \ {0} /\ x <= OutstandingInterest
  <2>1. OverClaimed \in Nat /\ OverClaimed > 0 /\ ~(OverClaimed > OutstandingInterest)
        /\ OutstandingInterest \in Int
    BY AmountsTyped DEF InterestInv, PostCorrection, RequiresRefund
  <2> QED BY <2>1 DEF PostCorrection
<1>8. PICK s, t : s = interestCorrections /\ t = interestCorrections'
  OBVIOUS
<1>2. PICK n \in Nat :
        /\ s = interestCorrections /\ t = interestCorrections' /\ n = Len(s)
        /\ s \in Seq([date : InterestDays, amount : Nat \ {0}])
        /\ DOMAIN s = 1..n /\ \A i \in 1..n : s[i].amount \in Nat
  BY <1>8, ClaimsTyped DEF InterestInv, LateInterestTypeOK
<1>3. /\ t \in Seq([date : InterestDays, amount : Nat \ {0}])
      /\ Len(t) = n + 1 /\ DOMAIN t = 1..(n + 1)
      /\ \A i \in 1..n : t[i] = s[i]
      /\ t[n + 1] = r
  <2>1. r \in [date : InterestDays, amount : Nat \ {0}]
    BY <1>1
  <2>2. t = Append(s, r)
    BY <1>1, <1>2
  <2>3. t \in Seq([date : InterestDays, amount : Nat \ {0}]) /\ Len(t) = n + 1
        /\ (\A i \in 1..n : t[i] = s[i]) /\ t[n + 1] = r
    BY <1>2, <2>1, <2>2, AppendProperties
  <2> QED BY <2>3, LenProperties
<1>4. LateInterestTypeOK'
  BY <1>1, <1>2, <1>3 DEF InterestInv, LateInterestTypeOK
<1>5. ClaimsInOrder' /\ TableRatesRecorded'
  BY <1>1 DEF InterestInv, ClaimsInOrder, TableRatesRecorded, Claims, LookupRate
<1>6. AlreadyCorrected' = AlreadyCorrected + x
  <2>0. PICK S, T : S = 1..n /\ T = 1..(n + 1)
    OBVIOUS
  <2>1. /\ \A i \in 1..n : s[i].amount \in Int /\ t[i].amount = s[i].amount
        /\ t[n + 1].amount \in Int /\ t[n + 1].amount = x
        /\ \A i \in 1..n : i \in T <=> i \in S
        /\ n + 1 \in T
    BY <1>1, <1>2, <1>3, <2>0
  <2>2. OverSeq(t, T) = OverSeq(s, S) + (IF n + 1 \in T THEN t[n + 1].amount ELSE 0)
    <3>1. Len(s) = n /\ Len(t) = n + 1
      BY <1>2, <1>3
    <3> QED BY <2>1, <3>1, SeqGrows, SMTT(60)
  <2>3. OverSeq(t, 1..(n + 1)) = OverSeq(s, 1..n) + x
    BY <2>0, <2>1, <2>2
  <2> QED BY <1>2, <1>3, <2>3 DEF AlreadyCorrected
<1>7. InterestReceivableCovered'
  <2>1. PostedInterest' = PostedInterest
    BY <1>1 DEF PostedInterest, Posted, Claims
  <2>2. PostedInterest \in Nat /\ AlreadyCorrected \in Nat /\ receipts \in Nat
    BY AmountsTyped DEF InterestInv, LateInterestTypeOK
  <2> QED BY <1>1, <1>6, <2>1, <2>2 DEF InterestReceivableCovered, OutstandingInterest
<1> QED BY <1>4, <1>5, <1>7 DEF InterestInv

(* The claim that is registered.                                            *)
LEMMA ClaimAppended ==
  ASSUME LateInterestAssumption, InterestInv, NEW asOf \in InterestDays,
         NEW source, NEW rate, <<source, rate>> \in RateInputs(asOf),
         RegisterInterest(asOf, source, rate)
  PROVE  \E n \in Nat, x \in Nat \ {0}, r \in InterestClaims :
           /\ n = Len(interest) /\ Claims = 1..n /\ Claims' = 1..(n + 1)
           /\ x = Accrued(asOf, source, rate)
           /\ r = [date |-> asOf, source |-> source, rate |-> rate, amount |-> x, posted |-> FALSE]
           /\ Len(interest') = n + 1 /\ n + 1 <= MaxInterest
           /\ \A i \in 1..n : interest'[i] = interest[i]
           /\ interest'[n + 1] = r
           /\ interest' \in Seq(InterestClaims)
           /\ rate \in Nat /\ source \in {"table", "manual"}
           /\ source = "table" => rate = LookupRate(asOf)
           /\ UNCHANGED <<paid, changes, credited, interestCorrections, receipts>>
<1>1. rate \in Nat /\ source \in {"table", "manual"} /\ (source = "table" => rate = LookupRate(asOf))
  <2>1. LookupRate(asOf) \in Nat
    BY HorizonTyped DEF LookupRate
  <2> QED BY <2>1 DEF RateInputs, LateInterestAssumption
<1>2. PICK n \in Nat : n = Len(interest) /\ Claims = 1..n
  BY ClaimsTyped DEF InterestInv
<1>3. PICK x : x = Accrued(asOf, source, rate) /\ x > 0
  BY DEF RegisterInterest
<1>4. x \in Nat \ {0}
  <2>1. x = TotalInterest(asOf, source, rate) - PriorClaimed(asOf)
    BY <1>3, BillsLater DEF InterestInv
  <2>2. PriorClaimed(asOf) \in Int
    BY AmountsTyped DEF InterestInv
  <2>3. PriorWindows(asOf) \in Int
    <3>1. PICK s : s = [i \in Claims |->
             [amount |-> WindowSegments(Smaller(From(i), asOf),
                           Smaller(interest[i].date, asOf), interest[i].rate)]]
      OBVIOUS
    <3>2. \A i \in 1..n : s[i].amount \in Int
      <4> SUFFICES ASSUME NEW i \in 1..n PROVE s[i].amount \in Int
        OBVIOUS
      <4>1. interest[i].rate \in Nat
        BY <1>2, ClaimsTyped DEF InterestInv, InterestClaims
      <4>2. WindowSegments(Smaller(From(i), asOf), Smaller(interest[i].date, asOf),
                           interest[i].rate) \in Int
        BY <4>1, WindowTyped DEF InterestInv, LateInterestTypeOK
      <4> QED BY <1>2, <3>1, <4>2
    <3>3. Len(s) = n
      <4>1. s = [i \in 1..n |-> s[i]]
        BY <1>2, <3>1
      <4> QED BY <4>1, LenOfFunction
    <3>4. OverSeq(s, Claims) \in Int
      BY <3>2, <3>3, SeqTyped
    <3> QED BY <3>1, <3>4 DEF PriorWindows
  <2>4. ClaimRateWindows(Anchor, asOf, source, rate) \in Int
    BY <1>1, RateWindowsTyped DEF InterestInv, LateInterestTypeOK
  <2>5. TotalInterest(asOf, source, rate) \in Int
    BY <2>3, <2>4, RoundingTyped DEF TotalInterest
  <2> QED BY <1>3, <2>1, <2>2, <2>5
<1>5. PICK r : r = [date |-> asOf, source |-> source, rate |-> rate, amount |-> x, posted |-> FALSE]
  OBVIOUS
<1>6. r \in InterestClaims
  BY <1>1, <1>4, <1>5 DEF InterestClaims
<1>7. /\ interest' = Append(interest, r) /\ n < MaxInterest
      /\ UNCHANGED <<paid, changes, credited, interestCorrections, receipts>>
  BY <1>2, <1>3, <1>5 DEF RegisterInterest
<1>8. interest \in Seq(InterestClaims)
  BY DEF InterestInv, LateInterestTypeOK, InterestClaims
<1>9. /\ interest' \in Seq(InterestClaims) /\ Len(interest') = n + 1
      /\ \A i \in 1..n : interest'[i] = interest[i]
      /\ interest'[n + 1] = r
  BY <1>2, <1>6, <1>7, <1>8, AppendProperties
<1>10. Claims' = 1..(n + 1)
  <2>1. DOMAIN interest' = 1..(n + 1)
    BY <1>9, LenProperties
  <2> QED BY <2>1 DEF Claims
<1>11. n + 1 <= MaxInterest
  BY <1>2, <1>7 DEF LateInterestAssumption
<1> QED BY <1>1, <1>2, <1>3, <1>4, <1>5, <1>6, <1>7, <1>9, <1>10, <1>11

LEMMA ClaimKeeps ==
  ASSUME LateInterestAssumption, InterestInv, NEW asOf \in InterestDays,
         NEW source, NEW rate, <<source, rate>> \in RateInputs(asOf),
         RegisterInterest(asOf, source, rate)
  PROVE  InterestInv'
<1>1. PICK n \in Nat, x \in Nat \ {0}, r \in InterestClaims :
           /\ n = Len(interest) /\ Claims = 1..n /\ Claims' = 1..(n + 1)
           /\ x = Accrued(asOf, source, rate)
           /\ r = [date |-> asOf, source |-> source, rate |-> rate, amount |-> x, posted |-> FALSE]
           /\ Len(interest') = n + 1 /\ n + 1 <= MaxInterest
           /\ \A i \in 1..n : interest'[i] = interest[i]
           /\ interest'[n + 1] = r
           /\ interest' \in Seq(InterestClaims)
           /\ rate \in Nat /\ source \in {"table", "manual"}
           /\ source = "table" => rate = LookupRate(asOf)
           /\ UNCHANGED <<paid, changes, credited, interestCorrections, receipts>>
  BY ClaimAppended
<1>2. LateInterestTypeOK'
  BY <1>1 DEF InterestInv, LateInterestTypeOK, InterestClaims
<1>3. asOf > Due /\ \A i \in 1..n : interest[i].date < asOf
  <2>1. Accrued(asOf, source, rate) > 0
    BY <1>1
  <2> QED BY <1>1, <2>1, BillsLater DEF InterestInv
<1>4. \A i \in 1..(n + 1) : i \in 1..n \/ i = n + 1
  OBVIOUS
<1>5. ClaimsInOrder'
  <2> SUFFICES ASSUME NEW i \in 1..(n + 1)
               PROVE  /\ interest'[i].date > Due
                      /\ \A j \in 1..(n + 1) : j < i => interest'[j].date < interest'[i].date
    BY <1>1 DEF ClaimsInOrder
  <2>1. CASE i \in 1..n
    <3>1. \A j \in 1..(n + 1) : j < i => j \in 1..n
      BY <2>1
    <3> QED BY <1>1, <2>1, <3>1 DEF InterestInv, ClaimsInOrder
  <2>2. CASE i = n + 1
    <3>1. \A j \in 1..(n + 1) : j < i => j \in 1..n
      BY <2>2
    <3>2. interest'[i].date = asOf
      BY <1>1, <2>2
    <3> QED BY <1>1, <1>3, <3>1, <3>2
  <2> QED BY <1>4, <2>1, <2>2
<1>6. TableRatesRecorded'
  <2> SUFFICES ASSUME NEW i \in 1..(n + 1), interest'[i].source = "table"
               PROVE  interest'[i].rate = LookupRate(interest'[i].date)
    BY <1>1 DEF TableRatesRecorded, LookupRate
  <2>1. CASE i \in 1..n
    BY <1>1, <2>1 DEF InterestInv, TableRatesRecorded
  <2>2. CASE i = n + 1
    <3>1. interest'[i].date = asOf /\ interest'[i].rate = rate /\ interest'[i].source = source
      BY <1>1, <2>2
    <3> QED BY <1>1, <3>1
  <2> QED BY <1>4, <2>1, <2>2
<1>7. InterestReceivableCovered'
  <2>1. PICK S, t : S = Posted /\ t = interest'
    OBVIOUS
  <2>2. S = Posted'
    <3>1. \A i : i \in Posted' <=> i \in 1..(n + 1) /\ interest'[i].posted
      BY <1>1 DEF Posted
    <3>2. \A i : i \in Posted <=> i \in 1..n /\ interest[i].posted
      BY <1>1 DEF Posted
    <3>3. ~interest'[n + 1].posted
      BY <1>1
    <3>4. ASSUME NEW i PROVE i \in Posted' <=> i \in Posted
      <4>1. (i \in 1..(n + 1) <=> i \in 1..n \/ i = n + 1) /\ n + 1 \notin 1..n
        OBVIOUS
      <4>2. i \in 1..n => (interest'[i].posted <=> interest[i].posted)
        BY <1>1, <1>4
      <4>3. i = n + 1 => ~interest'[i].posted
        BY <3>3
      <4> QED BY <3>1, <3>2, <4>1, <4>2, <4>3
    <3> QED BY <2>1, <3>4
  <2>3. n + 1 \notin S
    BY <1>1, <2>1 DEF Posted
  <2>8. \A i \in 1..Len(interest) : interest[i].amount \in Nat
    BY ClaimsTyped DEF InterestInv
  <2>9. PICK s : s = interest
    OBVIOUS
  <2>4. \A i \in 1..n : s[i].amount \in Int /\ t[i].amount = s[i].amount
    BY <1>1, <2>1, <2>8, <2>9
  <2>5. t[n + 1].amount \in Int /\ Len(t) = n + 1 /\ Len(s) = n
    BY <1>1, <2>1, <2>9
  <2>6. OverSeq(t, S) = OverSeq(interest, S) + 0
    <3>1. OverSeq(t, S) = OverSeq(s, S) /\ OverSeq(s, S) \in Int
      BY <2>3, <2>4, <2>5, SeqStays
    <3> QED BY <2>9, <3>1
  <2>7. PostedInterest' = PostedInterest /\ PostedInterest \in Nat
    <3>1. PostedInterest \in Nat
      BY AmountsTyped DEF InterestInv
    <3>2. PostedInterest' = OverSeq(t, S) /\ PostedInterest = OverSeq(interest, S)
      BY <2>1, <2>2 DEF PostedInterest
    <3> QED BY <2>6, <3>1, <3>2
  <2> QED BY <1>1, <2>7 DEF InterestInv, InterestReceivableCovered, OutstandingInterest, AlreadyCorrected
<1> QED BY <1>2, <1>5, <1>6, <1>7 DEF InterestInv

-----------------------------------------------------------------------------
(* The windows of the claims, over a principal p and the claims s.          *)
WindowOver(p, from, to, rate) ==
  OverDays([d \in InterestDays |-> Positive(Gross - OverDays(p, 0..d)) * rate], from..(to - 1))

RateWindowsOver(p, from, to, source, rate) ==
  IF source = "manual" THEN WindowOver(p, from, to, rate)
  ELSE WindowOver(p, from, Smaller(to, RateChange), TableRates[1])
         + WindowOver(p, Larger(from, RateChange), to, TableRates[2])

OwnOver(p, s, i) ==
  RateWindowsOver(p, IF i = 1 THEN Due ELSE s[i - 1].date, s[i].date, s[i].source, s[i].rate)

LEMMA WindowsOver ==
  /\ \A from, to, source, rate :
       ClaimRateWindows(from, to, source, rate) = RateWindowsOver(paid, from, to, source, rate)
  /\ \A i : OwnWindow(i) = OwnOver(paid, interest, i)
  /\ \A i : OwnWindow(i)' = OwnOver(paid', interest', i)
<1>1. \A from, to, source, rate :
        ClaimRateWindows(from, to, source, rate) = RateWindowsOver(paid, from, to, source, rate)
  BY DEF ClaimRateWindows, RateWindowsOver, WindowSegments, WindowOver, OpenBalanceAsOf
<1>2. \A i : OwnWindow(i) = OwnOver(paid, interest, i)
  BY DEF ClaimRateWindows, RateWindowsOver, WindowSegments, WindowOver, OpenBalanceAsOf,
         OwnWindow, OwnOver, From
<1>3. \A i : OwnWindow(i)' = OwnOver(paid', interest', i)
  BY DEF ClaimRateWindows, RateWindowsOver, WindowSegments, WindowOver, OpenBalanceAsOf,
         OwnWindow, OwnOver, From
<1> QED BY <1>1, <1>2, <1>3

LEMMA LawfulOver ==
  /\ LawfulThrough = CumulativeInterest(
       OverSeq([i \in Claims |-> [amount |-> OwnOver(paid, interest, i)]], Claims))
  /\ LawfulThrough' = CumulativeInterest(
       OverSeq([i \in Claims' |-> [amount |-> OwnOver(paid', interest', i)]], Claims'))
BY WindowsOver DEF LawfulThrough

(* Of the units the program adds up for a new claim, the claims before it   *)
(* have their own windows at their own rates.                               *)
LEMMA PriorWindowsAreOwn ==
  ASSUME LateInterestAssumption, InterestInv, ClaimsWithinOneRate,
         NEW asOf \in InterestDays, asOf > Due, \A i \in Claims : interest[i].date < asOf
  PROVE  /\ \A i \in Claims : OwnOver(paid, interest, i) \in Int
         /\ PriorWindows(asOf)
              = OverSeq([i \in Claims |-> [amount |-> OwnOver(paid, interest, i)]], Claims)
<1>0. PICK n \in Nat : n = Len(interest) /\ Claims = 1..n
  BY ClaimsTyped DEF InterestInv
<1>1. ASSUME NEW i \in Claims
      PROVE  /\ WindowSegments(Smaller(From(i), asOf), Smaller(interest[i].date, asOf),
                               interest[i].rate) = OwnOver(paid, interest, i)
             /\ OwnOver(paid, interest, i) \in Int
  <2>1. PICK from \in Nat : from = From(i) /\ from < asOf
    <3>1. asOf \in Nat /\ Due \in Nat
      BY HorizonTyped
    <3>2. CASE i = 1
      BY <3>1, <3>2 DEF From
    <3>3. CASE i # 1
      <4>1. i - 1 \in Claims
        BY <1>0, <3>3
      <4>2. interest[i - 1].date \in Nat /\ interest[i - 1].date < asOf
        BY <4>1, ClaimsTyped, HorizonTyped DEF InterestInv, InterestClaims
      <4> QED BY <3>3, <4>2 DEF From
    <3> QED BY <3>2, <3>3
  <2>2. PICK to \in Nat, source \in {"table", "manual"}, rate \in Nat :
          /\ to = interest[i].date /\ source = interest[i].source /\ rate = interest[i].rate
          /\ to < asOf
    <3>1. interest[i] \in InterestClaims
      BY ClaimsTyped DEF InterestInv
    <3>2. interest[i].date \in Nat /\ interest[i].rate \in Nat
          /\ interest[i].source \in {"table", "manual"} /\ interest[i].date < asOf
      BY <3>1, HorizonTyped DEF InterestClaims
    <3> QED BY <3>2
  <2>3. source # "manual" => \A d \in from..(to - 1) : LookupRate(d) = rate
    BY <2>1, <2>2 DEF ClaimsWithinOneRate
  <2>4. ClaimRateWindows(from, to, source, rate) = WindowSegments(from, to, rate)
    <3>1. paid \in [InterestDays -> Int]
      BY DEF InterestInv, LateInterestTypeOK
    <3>2. from \in Int /\ to \in Int
      OBVIOUS
    <3> QED BY <2>2, <2>3, <3>1, <3>2, OneRate
  <2>5. WindowSegments(from, to, rate) \in Int
    BY <2>2, WindowTyped DEF InterestInv, LateInterestTypeOK
  <2>6. OwnWindow(i) = ClaimRateWindows(from, to, source, rate)
    BY <2>1, <2>2 DEF OwnWindow
  <2>7. Smaller(from, asOf) = from /\ Smaller(to, asOf) = to
    BY <2>1, <2>2 DEF Smaller
  <2>8. OwnWindow(i) = OwnOver(paid, interest, i)
    BY WindowsOver
  <2> QED BY <2>1, <2>2, <2>4, <2>5, <2>6, <2>7, <2>8
<1>2. [i \in Claims |->
             [amount |-> WindowSegments(Smaller(From(i), asOf),
                           Smaller(interest[i].date, asOf), interest[i].rate)]]
        = [i \in Claims |-> [amount |-> OwnOver(paid, interest, i)]]
  BY <1>1
<1> QED BY <1>1, <1>2 DEF PriorWindows

(* A new claim and all claims before it come to the interest of all days,   *)
(* rounded once, but for corrections dated after the claim.                 *)
LEMMA ClaimBillsEachDayOnce ==
  ASSUME LateInterestAssumption, InterestInv, ClaimsWithinOneRate,
         NEW asOf \in InterestDays, NEW source, NEW rate,
         <<source, rate>> \in RateInputs(asOf), RegisterInterest(asOf, source, rate)
  PROVE  NetBilled' <= LawfulThrough'
<1>1. PICK n \in Nat, x \in Nat \ {0}, r \in InterestClaims :
           /\ n = Len(interest) /\ Claims = 1..n /\ Claims' = 1..(n + 1)
           /\ x = Accrued(asOf, source, rate)
           /\ r = [date |-> asOf, source |-> source, rate |-> rate, amount |-> x, posted |-> FALSE]
           /\ Len(interest') = n + 1 /\ n + 1 <= MaxInterest
           /\ \A i \in 1..n : interest'[i] = interest[i]
           /\ interest'[n + 1] = r
           /\ interest' \in Seq(InterestClaims)
           /\ rate \in Nat /\ source \in {"table", "manual"}
           /\ source = "table" => rate = LookupRate(asOf)
           /\ UNCHANGED <<paid, changes, credited, interestCorrections, receipts>>
  BY ClaimAppended
<1>2. /\ asOf > Due /\ \A i \in Claims : interest[i].date < asOf
      /\ Anchor = From(n + 1) /\ Anchor \in Nat
      /\ x = TotalInterest(asOf, source, rate) - PriorClaimed(asOf)
  <2>1. Accrued(asOf, source, rate) > 0
    BY <1>1
  <2> QED BY <1>1, <2>1, BillsLater DEF InterestInv
<1>3. PICK c, d : /\ c = interest /\ d = interest'
  OBVIOUS
<1>4. PICK p : p = paid /\ p = paid'
  BY <1>1
<1>5. PICK u, v : /\ u = [i \in 1..n |-> [amount |-> OwnOver(p, c, i)]]
                  /\ v = [i \in 1..(n + 1) |-> [amount |-> OwnOver(p, d, i)]]
  OBVIOUS
<1>6. PICK w \in Int : w = ClaimRateWindows(Anchor, asOf, source, rate)
  BY <1>1, RateWindowsTyped DEF InterestInv, LateInterestTypeOK
<1>7. (\A i \in 1..n : OwnOver(p, c, i) \in Int) /\ PriorWindows(asOf) = OverSeq(u, 1..n)
  BY <1>1, <1>2, <1>3, <1>4, <1>5, PriorWindowsAreOwn
<1>8. \A i \in 1..n : OwnOver(p, d, i) = OwnOver(p, c, i)
  <2> SUFFICES ASSUME NEW i \in 1..n PROVE OwnOver(p, d, i) = OwnOver(p, c, i)
    OBVIOUS
  <2>1. d[i] = c[i] /\ (i # 1 => d[i - 1] = c[i - 1])
    <3>1. i # 1 => i - 1 \in 1..n
      OBVIOUS
    <3> QED BY <1>1, <1>3, <3>1
  <2> QED BY <2>1 DEF OwnOver
<1>9. OwnOver(p, d, n + 1) = w
  <2>1. (IF n + 1 = 1 THEN Due ELSE d[(n + 1) - 1].date) = From(n + 1)
    <3>1. CASE n = 0
      BY <3>1 DEF From
    <3>2. CASE n # 0
      <4>1. n + 1 # 1 /\ (n + 1) - 1 = n /\ n \in 1..n
        BY <3>2
      <4>2. d[n] = c[n]
        BY <1>1, <1>3, <4>1
      <4> QED BY <1>3, <4>1, <4>2 DEF From
    <3> QED BY <3>1, <3>2
  <2>2. d[n + 1].date = asOf /\ d[n + 1].source = source /\ d[n + 1].rate = rate
    BY <1>1, <1>3
  <2>3. OwnOver(p, d, n + 1) = RateWindowsOver(p, Anchor, asOf, source, rate)
    BY <1>2, <2>1, <2>2 DEF OwnOver
  <2>4. w = RateWindowsOver(p, Anchor, asOf, source, rate)
    BY <1>4, <1>6, WindowsOver
  <2> QED BY <2>3, <2>4
<1>10. OverSeq(v, 1..(n + 1)) = OverSeq(u, 1..n) + w
  <2>2. Len(u) = n /\ Len(v) = n + 1
    <3>1. u = [i \in 1..n |-> u[i]] /\ v = [i \in 1..(n + 1) |-> v[i]] /\ n + 1 \in Nat
      BY <1>5
    <3> QED BY <3>1, LenOfFunction
  <2>3. /\ \A i \in 1..n : u[i].amount \in Int /\ v[i].amount = u[i].amount
        /\ v[n + 1].amount = w
    <3>1. \A i \in 1..n : u[i].amount = OwnOver(p, c, i) /\ v[i].amount = OwnOver(p, d, i)
      BY <1>5
    <3>2. v[n + 1].amount = OwnOver(p, d, n + 1)
      BY <1>5
    <3> QED BY <1>6, <1>7, <1>8, <1>9, <3>1, <3>2
  <2> QED BY <2>2, <2>3, SeqGrowsBy, SMTT(60)
<1>11. TotalInterest(asOf, source, rate) = LawfulThrough' /\ LawfulThrough' \in Int
  <2>1. LawfulThrough' = CumulativeInterest(OverSeq(v, 1..(n + 1)))
    BY <1>1, <1>3, <1>4, <1>5, LawfulOver
  <2>2. TotalInterest(asOf, source, rate) = CumulativeInterest(OverSeq(v, 1..(n + 1)))
    BY <1>6, <1>7, <1>10 DEF TotalInterest
  <2>3. OverSeq(v, 1..(n + 1)) \in Int
    <3>1. Len(u) = n /\ \A i \in 1..n : u[i].amount \in Int
      <4>1. u = [i \in 1..n |-> u[i]]
        BY <1>5
      <4> QED BY <1>5, <1>7, <4>1, LenOfFunction
    <3>2. OverSeq(u, 1..n) \in Int
      BY <3>1, SeqTyped
    <3> QED BY <1>6, <1>10, <3>2
  <2> QED BY <2>1, <2>2, <2>3, RoundingTyped
<1>12. BilledUntil(asOf) = OverSeq(c, 1..n)
  <2>1. {i \in Claims : interest[i].date <= asOf} = 1..n
    <3>1. \A i \in Claims : interest[i].date <= asOf
      <4>1. asOf \in Nat
        BY HorizonTyped
      <4>2. \A i \in Claims : interest[i].date \in Nat
        BY ClaimsTyped, HorizonTyped DEF InterestInv, InterestClaims
      <4> QED BY <1>2, <4>1, <4>2
    <3> QED BY <1>1, <3>1
  <2> QED BY <1>3, <2>1 DEF BilledUntil
<1>13. OverSeq(d, 1..(n + 1)) = OverSeq(c, 1..n) + x
  <2>2. Len(c) = n /\ Len(d) = n + 1
    BY <1>1, <1>3
  <2>3. /\ \A i \in 1..n : c[i].amount \in Int /\ d[i].amount = c[i].amount
        /\ d[n + 1].amount = x
    <3>1. \A i \in 1..Len(interest) : interest[i].amount \in Nat
      BY ClaimsTyped DEF InterestInv
    <3>2. \A i \in 1..n : c[i].amount \in Int
      BY <1>1, <1>3, <3>1
    <3> QED BY <1>1, <1>3, <3>2
  <2> QED BY <2>2, <2>3, SeqGrowsBy, SMTT(60)
<1>14. CorrectedUntil(asOf) <= AlreadyCorrected /\ CorrectedUntil(asOf) \in Nat
  <2>1. PICK S, T, k : /\ S = {i \in DOMAIN interestCorrections : interestCorrections[i].date <= asOf}
                       /\ T = DOMAIN interestCorrections
                       /\ k = Len(interestCorrections)
    OBVIOUS
  <2>2. k \in Nat /\ S \intersect 1..k \subseteq T
        /\ \A i \in 1..k : interestCorrections[i].amount \in Nat
    BY <2>1, ClaimsTyped DEF InterestInv
  <2>3. OverSeq(interestCorrections, S) <= OverSeq(interestCorrections, T)
        /\ OverSeq(interestCorrections, S) \in Nat
    BY <2>1, <2>2, SeqPart
  <2> QED BY <2>1, <2>3 DEF CorrectedUntil, AlreadyCorrected
<1>15. NetBilled' = OverSeq(d, 1..(n + 1)) - AlreadyCorrected
  BY <1>1, <1>3 DEF NetBilled, AlreadyCorrected
<1>16. PICK b \in Int : b = OverSeq(c, 1..n)
  <2>1. \A i \in 1..Len(interest) : interest[i].amount \in Nat
    BY ClaimsTyped DEF InterestInv
  <2>2. \A i \in 1..n : c[i].amount \in Int
    BY <1>1, <1>3, <2>1
  <2>3. Len(c) = n
    BY <1>1, <1>3
  <2> QED BY <2>2, <2>3, SeqTyped
<1>17. PICK k \in Nat, l \in Nat, z \in Int :
         k = AlreadyCorrected /\ l = CorrectedUntil(asOf) /\ l <= k /\ z = LawfulThrough'
  BY <1>11, <1>14, AmountsTyped DEF InterestInv
<1>18. x = z - (b - l)
  BY <1>2, <1>11, <1>12, <1>16, <1>17 DEF PriorClaimed
<1>19. NetBilled' = (b + x) - k
  BY <1>13, <1>15, <1>16, <1>17
<1> QED BY <1>17, <1>18, <1>19

-----------------------------------------------------------------------------
(* Every step.                                                              *)

LEMMA InterestStep ==
  ASSUME LateInterestAssumption, InterestInv, [LateInterestNext]_lateInterestVars
  PROVE  /\ InterestInv'
         /\ Len(interest') > Len(interest) =>
              \E asOf \in InterestDays : \E source, rate :
                <<source, rate>> \in RateInputs(asOf) /\ RegisterInterest(asOf, source, rate)
<1>0. Len(interest) \in Nat
  BY ClaimsTyped DEF InterestInv
<1>1. ASSUME NEW day \in InterestDays, NEW amount \in Changes,
             PayPrincipal(day, amount) \/ CreditPrincipal(day, amount) \/ RefundPrincipal(day, amount)
      PROVE  InterestInv' /\ interest' = interest
  <2>1. amount \in Nat /\ changes < MaxChanges
    BY <1>1 DEF PayPrincipal, CreditPrincipal, RefundPrincipal, LateInterestAssumption
  <2>2. credited' \in 0..Gross
    BY <1>1, <2>1 DEF PayPrincipal, CreditPrincipal, RefundPrincipal, InterestInv,
                      LateInterestTypeOK, LateInterestAssumption
  <2>3. \E a \in Int : Enter(day, a)
    BY <1>1, <2>1 DEF PayPrincipal, CreditPrincipal, RefundPrincipal
  <2> QED BY <2>1, <2>2, <2>3, EntriesKeep DEF Enter
<1>2. ASSUME NEW amount \in Changes, ReceiveInterest(amount)
      PROVE  InterestInv' /\ interest' = interest
  BY <1>2, ReceiptKeeps DEF ReceiveInterest
<1>3. ASSUME NEW i \in Claims, PostInterest(i)
      PROVE  InterestInv' /\ Len(interest') = Len(interest)
  <2>1. InterestInv'
    BY <1>3, PostingKeeps
  <2>2. PICK n \in Nat : n = Len(interest) /\ DOMAIN interest = 1..n
    BY ClaimsTyped DEF InterestInv, Claims
  <2>3. DOMAIN interest' = 1..n
    BY <1>3, <2>2 DEF PostInterest
  <2>4. DOMAIN interest' = 1..Len(interest') /\ Len(interest') \in Nat
    BY <2>1, LenProperties DEF InterestInv, LateInterestTypeOK
  <2> QED BY <2>1, <2>2, <2>3, <2>4
<1>4. ASSUME NEW date \in InterestDays, PostCorrection(date)
      PROVE  InterestInv' /\ interest' = interest
  BY <1>4, CorrectionKeeps DEF PostCorrection
<1>5. ASSUME NEW asOf \in InterestDays, NEW pair \in RateInputs(asOf),
             RegisterInterest(asOf, pair[1], pair[2])
      PROVE  /\ InterestInv'
             /\ \E source, rate : <<source, rate>> \in RateInputs(asOf)
                                  /\ RegisterInterest(asOf, source, rate)
  <2>3. pair = <<pair[1], pair[2]>>
    <3>1. CASE pair = <<"table", LookupRate(asOf)>>
      BY <3>1
    <3>2. CASE pair \in {"manual"} \X ManualRates
      BY <3>2
    <3> QED BY <3>1, <3>2 DEF RateInputs
  <2>1. PICK source, rate : source = pair[1] /\ rate = pair[2] /\ <<source, rate>> \in RateInputs(asOf)
    BY <2>3
  <2>2. RegisterInterest(asOf, source, rate)
    BY <1>5, <2>1
  <2> QED BY <2>1, <2>2, ClaimKeeps
<1>6. CASE UNCHANGED lateInterestVars
  <2>1. UNCHANGED <<paid, changes, credited, interest, interestCorrections, receipts>>
    BY <1>6 DEF lateInterestVars
  <2> QED BY <1>0, <2>1 DEF InterestInv, LateInterestTypeOK, ClaimsInOrder, TableRatesRecorded,
             InterestReceivableCovered, OutstandingInterest, PostedInterest, AlreadyCorrected,
             Posted, Claims, LookupRate
<1>7. CASE LateInterestNext
  <2> DEFINE Kept == InterestInv' /\ Len(interest') = Len(interest)
             Added(asOf) == \E source, rate : <<source, rate>> \in RateInputs(asOf)
                                              /\ RegisterInterest(asOf, source, rate)
  <2>1. CASE \E day \in InterestDays, amount \in Changes :
               \/ PayPrincipal(day, amount)
               \/ CreditPrincipal(day, amount)
               \/ RefundPrincipal(day, amount)
    <3>1. Kept
      BY <1>1, <2>1
    <3> QED BY <1>0, <3>1
  <2>2. CASE \E day \in InterestDays : PostCorrection(day)
    <3>1. Kept
      BY <1>4, <2>2
    <3> QED BY <1>0, <3>1
  <2>3. CASE \E amount \in Changes : ReceiveInterest(amount)
    <3>1. Kept
      BY <1>2, <2>3
    <3> QED BY <1>0, <3>1
  <2>4. CASE \E i \in Claims : PostInterest(i)
    <3>1. Kept
      BY <1>3, <2>4
    <3> QED BY <1>0, <3>1
  <2>5. CASE \E day \in InterestDays : \E r \in RateInputs(day) : RegisterInterest(day, r[1], r[2])
    <3>1. PICK day \in InterestDays : InterestInv' /\ Added(day)
      BY <1>5, <2>5
    <3> QED BY <3>1
  <2> QED BY <1>7, <2>1, <2>2, <2>3, <2>4, <2>5 DEF LateInterestNext
<1> QED BY <1>6, <1>7

(* The claims of an invoice: types, the order of the claims, the rates they *)
(* record, and a receivable that is never negative.                         *)
THEOREM InterestInvariant == LateInterestSpec => []InterestInv
<1>1. LateInterestInit => InterestInv
  BY LateInterestAssumption, InterestInit
<1>2. InterestInv /\ [LateInterestNext]_lateInterestVars => InterestInv'
  BY LateInterestAssumption, InterestStep
<1> QED BY <1>1, <1>2, PTL DEF LateInterestSpec

(* Every value of the module stays in its type.                             *)
THEOREM InterestTypes == LateInterestSpec => []LateInterestTypeOK
<1>1. InterestInv => LateInterestTypeOK
  BY DEF InterestInv
<1> QED BY <1>1, InterestInvariant, PTL

(* What the customer paid and what was credited back never exceed the       *)
(* interest posted (postInterestCorrection, settleInvoiceClaimsFromBank).   *)
THEOREM InterestStaysCovered == LateInterestSpec => []InterestReceivableCovered
<1>1. InterestInv => InterestReceivableCovered
  BY DEF InterestInv
<1> QED BY <1>1, InterestInvariant, PTL

(* While no claim at the rate of the table reaches across a change of that  *)
(* rate, a new claim never brings what is billed above the interest of each *)
(* day taken once (calculateInvoiceLateInterest).                           *)
THEOREM DaysAreBilledOnce ==
  LateInterestSpec /\ []ClaimsWithinOneRate => NoDayBilledTwice
<1>1. InterestInv /\ ClaimsWithinOneRate /\ [LateInterestNext]_lateInterestVars
        => [interest' # interest /\ Len(interest') > Len(interest)
              => NetBilled' <= LawfulThrough']_lateInterestVars
  BY LateInterestAssumption, InterestStep, ClaimBillsEachDayOnce
<1> QED BY <1>1, InterestInvariant, PTL DEF LateInterestSpec, NoDayBilledTwice

(* A rate that does not change while the invoice is overdue is no rate a    *)
(* claim could reach across.                                                *)
LEMMA SteadyRateClaims ==
  ASSUME LateInterestAssumption, RateIsSteady, InterestInv
  PROVE  ClaimsWithinOneRate
<1> SUFFICES ASSUME NEW i \in Claims, interest[i].source = "table",
                    NEW d \in From(i)..(interest[i].date - 1)
             PROVE  LookupRate(d) = interest[i].rate
  BY DEF ClaimsWithinOneRate
<1>1. interest[i].rate = LookupRate(interest[i].date)
  BY DEF InterestInv, TableRatesRecorded
<1>2. PICK to \in Nat : to = interest[i].date /\ to <= LastInterestDay
  BY ClaimsTyped, HorizonTyped DEF InterestInv, InterestClaims
<1>3. From(i) \in Nat /\ From(i) >= Due
  <2>1. CASE i = 1
    BY <2>1, HorizonTyped DEF From
  <2>2. CASE i # 1
    <3>1. i - 1 \in Claims
      BY <2>2, ClaimsTyped DEF InterestInv
    <3>2. interest[i - 1].date \in Nat /\ interest[i - 1].date > Due /\ Due \in Nat
      BY <3>1, ClaimsTyped, HorizonTyped DEF InterestInv, InterestClaims, ClaimsInOrder
    <3> QED BY <2>2, <3>2 DEF From
  <2> QED BY <2>1, <2>2
<1>4. d \in Int /\ d >= Due /\ d < to /\ Due \in Int /\ RateChange \in Int /\ LastInterestDay \in Int
  BY <1>2, <1>3, HorizonTyped
<1>5. d < RateChange <=> to < RateChange
  BY <1>2, <1>4 DEF RateIsSteady
<1> QED BY <1>1, <1>2, <1>5 DEF LookupRate

(* With a reference rate that does not change while the invoice is overdue, *)
(* no day is billed twice.                                                  *)
THEOREM SteadyRateBillsOnce == RateIsSteady /\ LateInterestSpec => NoDayBilledTwice
<1>1. RateIsSteady /\ InterestInv => ClaimsWithinOneRate
  BY LateInterestAssumption, SteadyRateClaims
<1>2. RateIsSteady => []RateIsSteady
  <2>1. RateIsSteady => RateIsSteady'
    BY DEF RateIsSteady
  <2> QED BY <2>1, PTL
<1> QED BY <1>1, <1>2, InterestInvariant, DaysAreBilledOnce, PTL

-----------------------------------------------------------------------------
(***************************************************************************)
(* Reviewed batches.  The items of a plan have each document and each line *)
(* once from the first read on, and what the plan says of its sources is   *)
(* frozen when it is stored: an application that finds them as planned     *)
(* rests on what holds now.  Entries the run did not make are compared     *)
(* with the universe of the plan; those it made are items of the plan with *)
(* a receipt.                                                              *)
(***************************************************************************)

ItemsStand(items) ==
  \A item, other \in items : item.doc = other.doc \/ item.line = other.line => item = other

LinesImported(items) == \A item \in items : item.line \in imported

RunStands(r) ==
  /\ ItemsStand(r.plan.items)
  /\ r.receipts \subseteq {item.line : item \in r.plan.items}
  /\ r.approver # r.planner

PlanningStands(r) ==
  /\ ItemsStand(r.items) /\ LinesImported(r.items)
  /\ \A l \in r.pairs : l \in imported /\ facts[BestMatch[l]] > 0

BookedInPlan(e) ==
  e.run \in Runs =>
    /\ runs[e.run] # NoPlan
    /\ e.line \in runs[e.run].receipts
    /\ \E item \in runs[e.run].plan.items : item.doc = e.doc /\ item.line = e.line

BatchesInv ==
  /\ BatchesTypeOK
  /\ \A k \in Runs : runs[k] # NoPlan => RunStands(runs[k]) /\ LinesImported(runs[k].plan.items)
  /\ \A k \in Runs : planning[k] # NoPlan => PlanningStands(planning[k]) /\ runs[k] = NoPlan
  /\ \A e \in booked : BookedInPlan(e)

-----------------------------------------------------------------------------
(* Planning.                                                                *)

LEMMA FactsTyped ==
  ASSUME BatchesAssumption, BatchesInv
  PROVE  /\ MaxVersion \in Nat /\ facts \in [PurchaseDocs -> 0..MaxVersion]
         /\ imported \subseteq OutLines /\ booked \subseteq BatchEntries
BY DEF BatchesAssumption, BatchesInv, BatchesTypeOK

LEMMA UniverseTyped ==
  ASSUME BatchesAssumption, BatchesInv, NEW k
  PROVE  Universe(k) \in Universes
<1>1. PICK banks, documents, ledger :
        /\ banks = {<<l, PaidFor(l, Foreigners(k))>> : l \in imported}
        /\ documents = {<<d, facts[d]>> : d \in OpenPurchases(k)}
        /\ ledger = Foreigners(k)
  OBVIOUS
<1>2. banks \subseteq OutLines \X BOOLEAN
  <2>1. \A l \in imported : l \in OutLines /\ PaidFor(l, Foreigners(k)) \in BOOLEAN
    BY FactsTyped DEF PaidFor
  <2> QED BY <1>1, <2>1
<1>3. documents \subseteq PurchaseDocs \X (1..MaxVersion)
  <2>1. \A d \in OpenPurchases(k) : d \in PurchaseDocs /\ facts[d] > 0 /\ facts[d] \in 0..MaxVersion
    BY FactsTyped DEF OpenPurchases
  <2> QED BY <1>1, <2>1, FactsTyped
<1>4. ledger \subseteq BatchEntries
  BY <1>1, FactsTyped DEF Foreigners
<1>5. Universe(k) = [banks |-> banks, documents |-> documents, ledger |-> ledger]
  BY <1>1 DEF Universe
<1> QED BY <1>2, <1>3, <1>4, <1>5 DEF Universes

LEMMA RuleForTyped ==
  ASSUME NEW d
  PROVE  /\ RuleFor(d) \subseteq Rules
         /\ RuleFor(d) # {} => Cardinality(InForce(d)) = 1 /\ RuleFor(d) = InForce(d)
BY DEF RuleFor, InForce

LEMMA IdentityTyped ==
  ASSUME BatchesAssumption, BatchesInv, NEW item \in BatchItems
  PROVE  Identity(item) \in Identities
<1>1. /\ item.line \in OutLines /\ item.doc \in PurchaseDocs
      /\ facts[item.doc] \in 0..MaxVersion
  BY FactsTyped DEF BatchItems
<1>2. /\ RuleFor(item.doc) \subseteq Rules /\ (item.doc \in vatOk) \in BOOLEAN
      /\ PaidFor(item.line, booked) \in BOOLEAN
  BY RuleForTyped DEF PaidFor
<1> QED BY <1>1, <1>2 DEF Identity, Identities

LEMMA SuggestedIsSound ==
  ASSUME BatchesAssumption, BatchesInv, NEW l \in Unreconciled, Suggested(l)
  PROVE  /\ l \in imported /\ l \in OutLines /\ BestMatch[l] \in PurchaseDocs
         /\ facts[BestMatch[l]] > 0
<1>1. l \in imported
  BY DEF Unreconciled
<1>2. BestMatch[l] \in PurchaseDocs /\ facts[BestMatch[l]] > 0
  BY DEF Suggested, OpenPurchases
<1> QED BY <1>1, <1>2, FactsTyped

-----------------------------------------------------------------------------
(* Steps.                                                                   *)

LEMMA BatchesStart ==
  ASSUME BatchesAssumption, BatchesInit
  PROVE  BatchesInv
<1>1. facts \in [PurchaseDocs -> 0..MaxVersion] /\ drift \in 0..MaxDrift
  BY DEF BatchesInit, BatchesAssumption
<1>2. rule \in [Rules -> [creator : Principals \union {NoPlan}, events : [RuleDays -> RuleStates]]]
  BY DEF BatchesInit, RuleStates
<1> QED BY <1>1, <1>2 DEF BatchesInv, BatchesTypeOK, BatchesInit

(* An application books items of its plan that have no receipt yet.         *)
LEMMA AppliedItems ==
  ASSUME BatchesAssumption, BatchesInv, NEW k \in Runs, NEW failing, Apply(k, failing),
         NEW e \in booked' \ booked
  PROVE  \E item \in runs[k].plan.items :
           /\ e = Booked(item, k)
           /\ item.line \notin runs[k].receipts
           /\ item.line \in runs'[k].receipts
           /\ Bookable(item)
           /\ Identity(item) \in runs[k].plan.sources
           /\ item \in BatchItems
<1>1. runs[k] \in BatchRuns /\ SourcesUnchanged(k)
  BY DEF BatchesInv, BatchesTypeOK, Apply, Fresh
<1>2. PICK todo, done :
        /\ todo = {item \in runs[k].plan.items : item.line \notin runs[k].receipts}
        /\ done = {item \in todo : Bookable(item) /\ item.line \notin failing}
        /\ booked' = booked \union {Booked(item, k) : item \in done}
        /\ runs' = [runs EXCEPT ![k].receipts = @ \union {item.line : item \in done}]
  BY DEF Apply
<1>3. PICK item \in done : e = Booked(item, k)
  BY <1>2
<1>4. item \in runs[k].plan.items /\ item.line \notin runs[k].receipts /\ Bookable(item)
  BY <1>2, <1>3
<1>5. item.line \in runs'[k].receipts
  BY <1>1, <1>2, <1>3 DEF BatchesInv, BatchesTypeOK, BatchRuns
<1>6. item \in BatchItems
  BY <1>1, <1>4 DEF BatchRuns
<1> QED BY <1>1, <1>3, <1>4, <1>5, <1>6 DEF SourcesUnchanged

LEMMA ApplyKeeps ==
  ASSUME BatchesAssumption, BatchesInv, NEW k \in Runs, NEW failing, Apply(k, failing)
  PROVE  BatchesInv'
<1>1. RunStands(runs[k]) /\ LinesImported(runs[k].plan.items) /\ runs[k] # NoPlan
  BY DEF BatchesInv, Apply
<1>2. PICK more :
        /\ more \subseteq {item.line : item \in runs[k].plan.items}
        /\ runs' = [runs EXCEPT ![k].receipts = @ \union more]
  <2>1. PICK todo, done :
          /\ todo = {item \in runs[k].plan.items : item.line \notin runs[k].receipts}
          /\ done = {item \in todo : Bookable(item) /\ item.line \notin failing}
          /\ runs' = [runs EXCEPT ![k].receipts = @ \union {item.line : item \in done}]
    BY DEF Apply
  <2> QED BY <2>1
<1>3. runs \in [Runs -> BatchRuns \union {NoPlan}] /\ runs[k] \in BatchRuns
  BY <1>1 DEF BatchesInv, BatchesTypeOK
<1>4. PICK old, new :
        /\ old = runs[k] /\ new = [old EXCEPT !.receipts = @ \union more]
        /\ runs' = [runs EXCEPT ![k] = new]
  BY <1>2, <1>3
<1>5. /\ new.plan = old.plan /\ new.approver = old.approver /\ new.planner = old.planner
      /\ new.receipts = old.receipts \union more /\ new \in BatchRuns
  <2>1. \A item \in old.plan.items : item.line \in OutLines
    BY <1>3, <1>4 DEF BatchRuns, BatchItems
  <2>2. more \subseteq OutLines
    BY <1>2, <1>4, <2>1
  <2> QED BY <1>3, <1>4, <2>2 DEF BatchRuns
<1>6. runs'[k] = new /\ \A j \in Runs \ {k} : runs'[j] = runs[j]
  BY <1>3, <1>4
<1>7. runs' \in [Runs -> BatchRuns \union {NoPlan}]
  BY <1>3, <1>4, <1>5
<1>8. RunStands(new) /\ new # NoPlan
  BY <1>1, <1>2, <1>4, <1>5 DEF RunStands, BatchesAssumption
<1>9. UNCHANGED <<facts, imported, vatOk, rule, drift, deciding, planning>>
  BY DEF Apply
<1>10. ASSUME NEW j \in Runs, runs'[j] # NoPlan
       PROVE  RunStands(runs'[j]) /\ LinesImported(runs[j].plan.items)'
  <2>1. CASE j = k
    BY <1>1, <1>4, <1>5, <1>6, <1>8, <1>9, <2>1 DEF LinesImported
  <2>2. CASE j # k
    BY <1>6, <1>9, <1>10, <2>2 DEF BatchesInv, LinesImported
  <2> QED BY <2>1, <2>2
<1>11. ASSUME NEW e \in booked' \ booked
       PROVE  /\ e \in BatchEntries /\ e.line \in imported /\ e.version <= facts[e.doc]
              /\ BookedInPlan(e)'
  <2>1. PICK item \in runs[k].plan.items :
           /\ e = Booked(item, k)
           /\ item.line \in runs'[k].receipts
           /\ Bookable(item)
           /\ item \in BatchItems
    BY <1>11, AppliedItems
  <2>2. e.doc = item.doc /\ e.line = item.line /\ e.run = k /\ e.version = item.version
    BY <2>1 DEF Booked
  <2>3. e \in BatchEntries
    BY <2>1, RuleForTyped DEF BatchItems, Booked, BatchEntries
  <2>4. facts[e.doc] = e.version /\ e.version \in 1..MaxVersion
    BY <2>1, <2>2 DEF Bookable, BatchItems
  <2>5. e.line \in imported
    BY <1>1, <2>1, <2>2 DEF LinesImported
  <2> QED BY <1>4, <1>5, <1>6, <1>8, <2>1, <2>2, <2>3, <2>4, <2>5, FactsTyped DEF BookedInPlan
<1>12. ASSUME NEW e \in booked PROVE BookedInPlan(e)'
  BY <1>4, <1>5, <1>6, <1>8 DEF BatchesInv, BookedInPlan
<1>13. BatchesTypeOK'
  BY <1>7, <1>9, <1>10, <1>11 DEF BatchesInv, BatchesTypeOK, RunStands
<1>14. ASSUME NEW j \in Runs, planning'[j] # NoPlan PROVE PlanningStands(planning[j])' /\ runs'[j] = NoPlan
  <2>1. planning[j] # NoPlan /\ j # k
    BY <1>1, <1>9, <1>14 DEF BatchesInv
  <2> QED BY <1>6, <1>9, <2>1 DEF BatchesInv, PlanningStands, LinesImported
<1> QED BY <1>10, <1>11, <1>12, <1>13, <1>14 DEF BatchesInv

LEMMA PlanningMoves ==
  ASSUME BatchesAssumption, BatchesInv, NEW k \in Runs, NEW new \in Plannings,
         PlanningStands(new), runs[k] = NoPlan,
         planning' = [planning EXCEPT ![k] = new],
         UNCHANGED <<facts, imported, vatOk, rule, drift, deciding, booked, runs>>
  PROVE  BatchesInv'
<1>1. planning \in [Runs -> Plannings \union {NoPlan}]
  BY DEF BatchesInv, BatchesTypeOK
<1>2. /\ planning' \in [Runs -> Plannings \union {NoPlan}] /\ planning'[k] = new
      /\ \A j \in Runs \ {k} : planning'[j] = planning[j]
  BY <1>1
<1>3. BatchesTypeOK'
  BY <1>2 DEF BatchesInv, BatchesTypeOK
<1>4. ASSUME NEW j \in Runs, planning'[j] # NoPlan
      PROVE  PlanningStands(planning[j])' /\ runs'[j] = NoPlan
  <2>1. CASE j = k
    BY <1>2, <2>1 DEF PlanningStands, LinesImported
  <2>2. CASE j # k
    BY <1>2, <1>4, <2>2 DEF BatchesInv, PlanningStands, LinesImported
  <2> QED BY <2>1, <2>2
<1> QED BY <1>3, <1>4 DEF BatchesInv, BookedInPlan, LinesImported

LEMMA SuggestKeeps ==
  ASSUME BatchesAssumption, BatchesInv, NEW k \in Runs, NEW p \in Principals, SuggestPairs(k, p)
  PROVE  BatchesInv'
<1>1. PICK new : /\ new = [planner |-> p, step |-> "pairs", items |-> {},
                           pairs |-> {l \in Unreconciled : Suggested(l)}]
                 /\ planning' = [planning EXCEPT ![k] = new]
  BY DEF SuggestPairs
<1>2. UNCHANGED <<facts, imported, vatOk, rule, drift, deciding, booked, runs>> /\ runs[k] = NoPlan
  BY DEF SuggestPairs
<1>3. \A l \in new.pairs : l \in imported /\ l \in OutLines /\ facts[BestMatch[l]] > 0
  BY <1>1, SuggestedIsSound
<1>4. new \in Plannings
  BY <1>1, <1>3 DEF Plannings
<1>5. PlanningStands(new)
  BY <1>1, <1>3 DEF PlanningStands, ItemsStand, LinesImported
<1> QED BY <1>1, <1>2, <1>4, <1>5, PlanningMoves

LEMMA ReadKeeps ==
  ASSUME BatchesAssumption, BatchesInv, NEW k \in Runs, ReadItems(k)
  PROVE  BatchesInv'
<1>1. PICK old, new, items :
        /\ old = planning[k] /\ old # NoPlan
        /\ items = {[line |-> l, doc |-> BestMatch[l], version |-> facts[BestMatch[l]]] :
                      l \in Ready(old.pairs)}
        /\ new = [old EXCEPT !.step = "items", !.items = items]
        /\ planning' = [planning EXCEPT ![k] = new]
  <2>1. planning \in [Runs -> Plannings \union {NoPlan}]
    BY DEF BatchesInv, BatchesTypeOK
  <2> QED BY <2>1 DEF ReadItems
<1>2. UNCHANGED <<facts, imported, vatOk, rule, drift, deciding, booked, runs>> /\ runs[k] = NoPlan
  BY <1>1 DEF ReadItems, BatchesInv
<1>3. old \in Plannings /\ PlanningStands(old)
  BY <1>1 DEF BatchesInv, BatchesTypeOK
<1>4. /\ new.planner = old.planner /\ new.step = "items" /\ new.pairs = old.pairs
      /\ new.items = items /\ new = [planner |-> old.planner, step |-> "items",
                                     pairs |-> old.pairs, items |-> items]
  BY <1>1, <1>3 DEF Plannings
<1>5. ASSUME NEW item \in items
      PROVE  item \in BatchItems /\ item.line \in imported
  <2>1. PICK l \in Ready(old.pairs) :
           item = [line |-> l, doc |-> BestMatch[l], version |-> facts[BestMatch[l]]]
    BY <1>1
  <2>2. l \in old.pairs
    BY DEF Ready, Unambiguous
  <2>3. l \in imported /\ facts[BestMatch[l]] > 0 /\ l \in OutLines
    BY <1>3, <2>2 DEF PlanningStands, Plannings
  <2>4. BestMatch[l] \in PurchaseDocs
    BY <2>3 DEF BatchesAssumption
  <2>5. facts[BestMatch[l]] \in 1..MaxVersion
    BY <2>3, <2>4, FactsTyped
  <2> QED BY <2>1, <2>3, <2>4, <2>5 DEF BatchItems
<1>6. ASSUME NEW item \in items, NEW other \in items,
             item.doc = other.doc \/ item.line = other.line
      PROVE  item = other
  <2>1. PICK l \in Ready(old.pairs) :
           item = [line |-> l, doc |-> BestMatch[l], version |-> facts[BestMatch[l]]]
    BY <1>1
  <2>2. PICK m \in Ready(old.pairs) :
           other = [line |-> m, doc |-> BestMatch[m], version |-> facts[BestMatch[m]]]
    BY <1>1
  <2>3. l \in Unambiguous(old.pairs) /\ m \in old.pairs
    BY DEF Ready, Unambiguous
  <2>4. BestMatch[m] = BestMatch[l] => m = l
    BY <2>3 DEF Unambiguous
  <2> QED BY <1>6, <2>1, <2>2, <2>4
<1>7. new \in Plannings
  BY <1>3, <1>4, <1>5 DEF Plannings
<1>8. PlanningStands(new)
  BY <1>3, <1>4, <1>5, <1>6 DEF PlanningStands, ItemsStand, LinesImported
<1> QED BY <1>1, <1>2, <1>7, <1>8, PlanningMoves

LEMMA CreateKeeps ==
  ASSUME BatchesAssumption, BatchesInv, NEW k \in Runs, CreateRun(k)
  PROVE  BatchesInv'
<1>1. PICK old, sources, universe, plan, new :
        /\ old = planning[k] /\ old # NoPlan
        /\ sources = {Identity(item) : item \in old.items}
        /\ universe = Universe(NoPlan)
        /\ plan = [items |-> old.items, sources |-> sources, universe |-> universe]
        /\ new = [plan |-> plan, planner |-> old.planner, approver |-> NoPlan, receipts |-> {}]
        /\ runs' = [runs EXCEPT ![k] = new]
        /\ planning' = [planning EXCEPT ![k] = NoPlan]
  BY DEF CreateRun
<1>2. UNCHANGED <<facts, imported, vatOk, rule, drift, deciding, booked>>
  BY DEF CreateRun
<1>3. old \in Plannings /\ PlanningStands(old)
  BY <1>1 DEF BatchesInv, BatchesTypeOK
<1>4. old.items \subseteq BatchItems /\ old.planner \in Principals
  BY <1>3 DEF Plannings
<1>5. sources \subseteq Identities
  BY <1>1, <1>4, IdentityTyped
<1>6. universe \in Universes
  BY <1>1, UniverseTyped
<1>7. new \in BatchRuns
  BY <1>1, <1>4, <1>5, <1>6 DEF BatchRuns
<1>8. runs \in [Runs -> BatchRuns \union {NoPlan}] /\ planning \in [Runs -> Plannings \union {NoPlan}]
  BY DEF BatchesInv, BatchesTypeOK
<1>9. /\ runs' \in [Runs -> BatchRuns \union {NoPlan}] /\ runs'[k] = new
      /\ \A j \in Runs \ {k} : runs'[j] = runs[j]
      /\ planning' \in [Runs -> Plannings \union {NoPlan}] /\ planning'[k] = NoPlan
      /\ \A j \in Runs \ {k} : planning'[j] = planning[j]
  BY <1>1, <1>7, <1>8
<1>10. new.plan.items = old.items /\ RunStands(new)
  BY <1>1, <1>3, <1>4 DEF RunStands, PlanningStands, BatchesAssumption
<1>11. ASSUME NEW j \in Runs, runs'[j] # NoPlan
       PROVE  RunStands(runs'[j]) /\ LinesImported(runs[j].plan.items)'
  <2>1. CASE j = k
    BY <1>2, <1>3, <1>9, <1>10, <2>1 DEF LinesImported, PlanningStands
  <2>2. CASE j # k
    BY <1>2, <1>9, <1>11, <2>2 DEF BatchesInv, LinesImported
  <2> QED BY <2>1, <2>2
<1>12. ASSUME NEW j \in Runs, planning'[j] # NoPlan PROVE PlanningStands(planning[j])' /\ runs'[j] = NoPlan
  BY <1>2, <1>9, <1>12 DEF BatchesInv, PlanningStands, LinesImported
<1>13. ASSUME NEW e \in booked PROVE BookedInPlan(e)'
  <2>1. CASE e.run = k
    <3>1. runs[k] = NoPlan
      BY <1>1 DEF BatchesInv
    <3> QED BY <2>1, <3>1 DEF BatchesInv, BookedInPlan
  <2>2. CASE e.run # k
    BY <1>9, <2>2 DEF BatchesInv, BookedInPlan
  <2> QED BY <2>1, <2>2
<1>14. BatchesTypeOK'
  BY <1>2, <1>9, <1>11 DEF BatchesInv, BatchesTypeOK, RunStands
<1> QED BY <1>2, <1>11, <1>12, <1>13, <1>14 DEF BatchesInv

LEMMA ApproveKeeps ==
  ASSUME BatchesAssumption, BatchesInv, NEW k \in Runs, NEW p \in Principals, ApproveRun(k, p)
  PROVE  BatchesInv'
<1>1. PICK old, new : /\ old = runs[k] /\ new = [old EXCEPT !.approver = p]
                      /\ runs' = [runs EXCEPT ![k] = new]
  BY DEF ApproveRun
<1>2. UNCHANGED <<facts, imported, vatOk, rule, drift, deciding, booked, planning>> /\ old # NoPlan
      /\ old.planner # p
  BY <1>1 DEF ApproveRun
<1>3. runs \in [Runs -> BatchRuns \union {NoPlan}] /\ old \in BatchRuns
  BY <1>1, <1>2 DEF BatchesInv, BatchesTypeOK
<1>4. new \in BatchRuns /\ new.plan = old.plan /\ new.receipts = old.receipts
      /\ new.planner = old.planner /\ new.approver = p
  BY <1>1, <1>3 DEF BatchRuns
<1>5. runs' \in [Runs -> BatchRuns \union {NoPlan}] /\ runs'[k] = new
      /\ \A j \in Runs \ {k} : runs'[j] = runs[j]
  BY <1>1, <1>3, <1>4
<1>6. RunStands(old) /\ LinesImported(old.plan.items)
  BY <1>1, <1>2 DEF BatchesInv
<1>7. ASSUME NEW j \in Runs, runs'[j] # NoPlan
      PROVE  RunStands(runs'[j]) /\ LinesImported(runs[j].plan.items)'
  <2>1. CASE j = k
    BY <1>2, <1>4, <1>5, <1>6, <2>1 DEF LinesImported, RunStands
  <2>2. CASE j # k
    BY <1>2, <1>5, <1>7, <2>2 DEF BatchesInv, LinesImported
  <2> QED BY <2>1, <2>2
<1>8. ASSUME NEW e \in booked PROVE BookedInPlan(e)'
  <2>1. new # NoPlan
    BY <1>4 DEF BatchesAssumption
  <2> QED BY <1>1, <1>2, <1>4, <1>5, <2>1 DEF BatchesInv, BookedInPlan
<1>9. BatchesTypeOK'
  BY <1>2, <1>5, <1>7 DEF BatchesInv, BatchesTypeOK, RunStands
<1>10. ASSUME NEW j \in Runs, planning'[j] # NoPlan
       PROVE  PlanningStands(planning[j])' /\ runs'[j] = NoPlan
  <2>1. j # k
    BY <1>1, <1>2, <1>10 DEF BatchesInv
  <2> QED BY <1>2, <1>5, <1>10, <2>1 DEF BatchesInv, PlanningStands, LinesImported
<1> QED BY <1>2, <1>7, <1>8, <1>9, <1>10 DEF BatchesInv

(* Sources may change as they like as long as nothing imported is lost.     *)
LEMMA SourcesKeep ==
  ASSUME BatchesAssumption, BatchesInv, UNCHANGED <<booked, planning, runs>>, BatchesTypeOK',
         imported \subseteq imported', \A d \in PurchaseDocs : facts[d] <= facts'[d]
  PROVE  BatchesInv'
<1>1. ASSUME NEW k \in Runs, planning[k] # NoPlan PROVE PlanningStands(planning[k])'
  <2>1. PICK r : r = planning[k] /\ r = planning'[k] /\ r \in Plannings /\ PlanningStands(r)
    BY <1>1 DEF BatchesInv, BatchesTypeOK
  <2>2. ASSUME NEW l \in r.pairs PROVE l \in imported' /\ facts'[BestMatch[l]] > 0
    <3>1. l \in imported /\ facts[BestMatch[l]] > 0 /\ BestMatch[l] \in PurchaseDocs
      BY <2>1 DEF PlanningStands, Plannings, BatchesAssumption
    <3>2. facts[BestMatch[l]] \in Int /\ facts'[BestMatch[l]] \in Int
      BY <3>1, FactsTyped DEF BatchesTypeOK
    <3> QED BY <3>1, <3>2
  <2> QED BY <2>1, <2>2 DEF PlanningStands, LinesImported
<1> QED BY <1>1 DEF BatchesInv, BookedInPlan, LinesImported

LEMMA DriftTyped ==
  ASSUME BatchesAssumption, BatchesInv, Drift
  PROVE  drift' \in 0..MaxDrift
<1>1. MaxDrift \in Nat /\ drift \in 0..MaxDrift
  BY DEF BatchesAssumption, BatchesInv, BatchesTypeOK
<1> QED BY <1>1 DEF Drift

LEMMA HandKeeps ==
  ASSUME BatchesAssumption, BatchesInv, NEW d \in PurchaseDocs, NEW l \in OutLines, BookByHand(d, l)
  PROVE  BatchesInv'
<1>1. PICK e : e = [doc |-> d, line |-> l, version |-> facts[d], rules |-> {}, run |-> Hand]
               /\ booked' = booked \union {e}
  BY DEF BookByHand
<1>2. UNCHANGED <<facts, imported, vatOk, rule, deciding, planning, runs>> /\ facts[d] > 0 /\ l \in imported
      /\ drift' \in 0..MaxDrift
  BY DriftTyped DEF BookByHand
<1>3. e \in BatchEntries /\ e.line \in imported /\ e.version <= facts[e.doc] /\ e.run = Hand
  BY <1>1, <1>2, FactsTyped DEF BatchEntries
<1>4. BookedInPlan(e)'
  BY <1>3 DEF BookedInPlan, BatchesAssumption
<1>5. ASSUME NEW f \in booked PROVE BookedInPlan(f)'
  BY <1>2 DEF BatchesInv, BookedInPlan
<1>6. BatchesTypeOK'
  BY <1>1, <1>2, <1>3 DEF BatchesInv, BatchesTypeOK
<1> QED BY <1>1, <1>2, <1>4, <1>5, <1>6 DEF BatchesInv, LinesImported, PlanningStands

LEMMA SourcesTyped ==
  ASSUME BatchesAssumption, BatchesInv, UNCHANGED <<booked, planning, runs>>, SourcesNext
  PROVE  /\ BatchesTypeOK' /\ imported \subseteq imported'
         /\ \A c \in PurchaseDocs : facts[c] <= facts'[c]
<1> DEFINE Goal == /\ BatchesTypeOK' /\ imported \subseteq imported'
                   /\ \A c \in PurchaseDocs : facts[c] <= facts'[c]
           States == [creator : Principals \union {NoPlan}, events : [RuleDays -> RuleStates]]
<1>0. \A c \in PurchaseDocs : facts[c] \in Int /\ facts[c] <= facts[c]
  BY FactsTyped
<1> USE DEF BatchesInv, BatchesTypeOK
<1>1. ASSUME NEW l \in OutLines, ImportLine(l) PROVE Goal
  BY <1>0, <1>1, DriftTyped DEF ImportLine
<1>2. ASSUME NEW d \in PurchaseDocs, ChangeEvidence(d) PROVE Goal
  <2>1. facts' \in [PurchaseDocs -> 0..MaxVersion] /\ \A c \in PurchaseDocs : facts[c] <= facts'[c]
    BY <1>2, FactsTyped DEF ChangeEvidence
  <2>2. \A e \in booked : e.version <= facts'[e.doc]
    BY <2>1, FactsTyped DEF BatchEntries
  <2> QED BY <1>2, <2>1, <2>2, DriftTyped DEF ChangeEvidence
<1>3. ASSUME NEW d \in PurchaseDocs, PassVat(d) \/ VatExpires(d) PROVE Goal
  BY <1>0, <1>3, DriftTyped DEF PassVat, VatExpires
<1>4. ASSUME NEW d \in PurchaseDocs, NEW l \in OutLines, BookByHand(d, l) PROVE Goal
  BY <1>0, <1>4, DriftTyped DEF BookByHand
<1>5. ASSUME NEW p \in Principals, AppendTransition(p) PROVE Goal
  <2>1. deciding[p] \in Transitions
    BY <1>5 DEF AppendTransition
  <2>2. PICK r, to, day : r = deciding[p].rule /\ to = deciding[p].to /\ day = deciding[p].day
                          /\ r \in Rules /\ to \in RuleStates /\ day \in RuleDays
    BY <2>1 DEF Transitions, RuleStates
  <2>3. PICK old, new : /\ old = rule[r] /\ new = [old EXCEPT !.events[day] = to]
                        /\ rule' = [rule EXCEPT ![r] = new]
    <3>1. rule \in [Rules -> States]
      OBVIOUS
    <3> QED BY <1>5, <2>2, <3>1 DEF AppendTransition
  <2>4. new \in States
    <3>1. old \in States
      BY <2>2, <2>3
    <3>2. PICK was, is : was = old.events /\ is = [was EXCEPT ![day] = to]
      OBVIOUS
    <3>3. is \in [RuleDays -> RuleStates]
      BY <2>2, <3>1, <3>2
    <3>4. new = [creator |-> old.creator, events |-> is]
      BY <2>3, <3>1, <3>2
    <3> QED BY <3>1, <3>3, <3>4
  <2>5. rule' \in [Rules -> States]
    BY <2>3, <2>4
  <2> QED BY <1>0, <1>5, <2>5, DriftTyped DEF AppendTransition
<1>6. ASSUME NEW p \in Principals, NEW r \in Rules, NEW day \in RuleDays, ProposeRule(r, p, day)
      PROVE  Goal
  <2>1. PICK old, new : /\ old = rule[r].events /\ new = [old EXCEPT ![day] = "proposed"]
                        /\ rule' = [rule EXCEPT ![r] = [creator |-> p, events |-> new]]
    BY <1>6 DEF ProposeRule
  <2>2. new \in [RuleDays -> RuleStates]
    BY <2>1 DEF RuleStates
  <2>3. rule' \in [Rules -> States]
    BY <2>1, <2>2
  <2> QED BY <1>0, <1>6, <2>3, DriftTyped DEF ProposeRule
<1>7. ASSUME NEW p \in Principals, NEW r \in Rules, NEW day \in RuleDays,
             NEW to \in Decisions, CheckTransition(p, r, to, day)
      PROVE  Goal
  BY <1>0, <1>7 DEF CheckTransition, Transitions
<1> HIDE DEF BatchesInv, BatchesTypeOK
<1> QED BY <1>1, <1>2, <1>3, <1>4, <1>5, <1>6, <1>7 DEF SourcesNext

LEMMA BatchesStep ==
  ASSUME BatchesAssumption, BatchesInv, [BatchesNext]_batchesVars
  PROVE  BatchesInv'
<1>1. CASE UNCHANGED batchesVars
  <2>1. UNCHANGED <<facts, imported, vatOk, rule, drift, deciding, booked, planning, runs>>
    BY <1>1 DEF batchesVars
  <2>2. BatchesTypeOK'
    BY <2>1 DEF BatchesInv, BatchesTypeOK
  <2>3. \A d \in PurchaseDocs : facts[d] <= facts'[d]
    BY <2>1, FactsTyped
  <2> QED BY <2>1, <2>2, <2>3, SourcesKeep
<1>2. CASE SourcesNext
  <2>1. CASE \E d \in PurchaseDocs, l \in OutLines : BookByHand(d, l)
    BY <2>1, HandKeeps
  <2>2. CASE ~\E d \in PurchaseDocs, l \in OutLines : BookByHand(d, l)
    <3>1. UNCHANGED <<booked, planning, runs>>
      BY <1>2, <2>2 DEF SourcesNext, ImportLine, ChangeEvidence, PassVat, VatExpires,
        AppendTransition, ProposeRule, CheckTransition
    <3> QED BY <1>2, <3>1, SourcesTyped, SourcesKeep
  <2> QED BY <2>1, <2>2
<1>3. CASE \E k \in Runs : \/ ReadItems(k) \/ CreateRun(k)
                           \/ \E p \in Principals : SuggestPairs(k, p) \/ ApproveRun(k, p)
  BY <1>3, SuggestKeeps, ReadKeeps, CreateKeeps, ApproveKeeps
<1>4. CASE \E k \in Runs : \E failing \in SUBSET OutLines : Apply(k, failing)
  BY <1>4, ApplyKeeps
<1> QED BY <1>1, <1>2, <1>3, <1>4 DEF BatchesNext

(* What a plan says of its moment is never lost while it waits.             *)
THEOREM BatchesInvariant == BatchesSpec => []BatchesInv
<1>1. BatchesInit => BatchesInv
  BY BatchesStart, BatchesAssumption
<1>2. BatchesInv /\ [BatchesNext]_batchesVars => BatchesInv'
  BY BatchesStep, BatchesAssumption
<1> QED BY <1>1, <1>2, PTL DEF BatchesSpec

(* The tables of the batches, their rules and their runs have their types.  *)
THEOREM BatchesTypes == BatchesSpec => []BatchesTypeOK
<1>1. BatchesInv => BatchesTypeOK
  BY DEF BatchesInv
<1> QED BY <1>1, BatchesInvariant, PTL

-----------------------------------------------------------------------------
(* What an application rests on.                                            *)

Rests(k, e) ==
  /\ runs[k].approver \in Principals \ {runs[k].planner}
  /\ \E item \in runs[k].plan.items :
       item.line = e.line /\ item.doc = e.doc /\ item.version = e.version
  /\ \E known \in runs[k].plan.sources :
       known.line = e.line /\ known.rules = e.rules /\ known.vat
  /\ e.version = facts[e.doc] /\ e.doc \in vatOk
  /\ e.rules = InForce(e.doc) /\ Cardinality(InForce(e.doc)) = 1
  /\ ~\E f \in booked : f.line = e.line
  /\ \A f \in booked : f.doc = e.doc => f \in runs[k].plan.universe.ledger
  /\ \A l \in Unreconciled : <<l, FALSE>> \in runs[k].plan.universe.banks
  /\ \A d \in OpenPurchases(NoPlan) :
       <<d, facts[d]>> \in runs[k].plan.universe.documents

LEMMA AppliedIsReviewed ==
  ASSUME BatchesAssumption, BatchesInv, NEW k \in Runs, NEW failing, Apply(k, failing),
         NEW e \in booked' \ booked
  PROVE  Rests(k, e)
<1>1. /\ RunStands(runs[k]) /\ Universe(k) = runs[k].plan.universe
      /\ runs[k].approver \in Principals
  BY DEF Apply, BatchesInv, Fresh
<1>2. PICK item \in runs[k].plan.items :
           /\ e = Booked(item, k)
           /\ item.line \notin runs[k].receipts
           /\ Bookable(item)
           /\ Identity(item) \in runs[k].plan.sources
  BY AppliedItems
<1>3. e.doc = item.doc /\ e.line = item.line /\ e.version = item.version
      /\ e.rules = RuleFor(item.doc)
  BY <1>2 DEF Booked
<1>4. PICK u : u = runs[k].plan.universe /\ u = Universe(k)
  BY <1>1
<1>5. /\ u.banks = {<<l, PaidFor(l, Foreigners(k))>> : l \in imported}
      /\ u.documents = {<<d, facts[d]>> : d \in OpenPurchases(k)}
      /\ u.ledger = Foreigners(k)
  BY <1>4 DEF Universe
<1>6. /\ e.version = facts[e.doc] /\ e.doc \in vatOk /\ RuleFor(e.doc) # {}
      /\ ~\E f \in booked : f.line = e.line
  BY <1>2, <1>3 DEF Bookable, PaidFor
<1>7. e.rules = InForce(e.doc) /\ Cardinality(InForce(e.doc)) = 1
  BY <1>3, <1>6, RuleForTyped
<1>8. ASSUME NEW f \in booked, f.doc = e.doc PROVE f \in u.ledger
  <2>1. SUFFICES ASSUME f.run = k PROVE FALSE
    BY <1>5 DEF Foreigners
  <2>2. PICK other \in runs[k].plan.items : other.doc = f.doc /\ other.line = f.line
                                             /\ f.line \in runs[k].receipts
    BY <2>1 DEF BatchesInv, BookedInPlan
  <2>3. other = item
    BY <1>1, <1>3, <1>8, <2>2 DEF RunStands, ItemsStand
  <2> QED BY <1>2, <2>2, <2>3
<1>9. ASSUME NEW l \in Unreconciled PROVE <<l, FALSE>> \in u.banks
  <2>1. l \in imported /\ ~PaidFor(l, booked)
    BY DEF Unreconciled
  <2>2. PaidFor(l, Foreigners(k)) = FALSE
    BY <2>1 DEF PaidFor, Foreigners
  <2> QED BY <1>5, <2>1, <2>2
<1>10. ASSUME NEW d \in OpenPurchases(NoPlan) PROVE <<d, facts[d]>> \in u.documents
  <2>1. \A f \in booked : f.run # NoPlan
    BY FactsTyped DEF BatchEntries, BatchesAssumption
  <2>2. d \in OpenPurchases(k)
    BY <2>1 DEF OpenPurchases
  <2> QED BY <1>5, <2>2
<1>11. \E known \in runs[k].plan.sources :
         known.line = e.line /\ known.rules = e.rules /\ known.vat
  <2>1. /\ Identity(item).line = e.line /\ Identity(item).rules = e.rules
        /\ Identity(item).vat = (item.doc \in vatOk)
    BY <1>3 DEF Identity
  <2> QED BY <1>2, <1>3, <1>6, <2>1
<1>12. runs[k].approver # runs[k].planner
  BY <1>1 DEF RunStands
<1> QED BY <1>1, <1>2, <1>3, <1>4, <1>6, <1>7, <1>8, <1>9, <1>10, <1>11, <1>12 DEF Rests

(* A batch posts only what somebody else reviewed and only while all of it  *)
(* is still true, whatever was imported, booked or decided in between, as   *)
(* of whatever day.                                                         *)
THEOREM BatchesBookWhatWasReviewed == BatchesSpec => BatchBooksWhatWasReviewed
<1> DEFINE Resting == \A k \in Runs : \A e \in booked' \ booked : e.run = k => Rests(k, e)
<1>1. BatchesInv /\ [BatchesNext]_batchesVars => [Resting]_batchesVars
  <2> SUFFICES ASSUME BatchesInv, BatchesNext, NEW k \in Runs, NEW e \in booked' \ booked, e.run = k
               PROVE  Rests(k, e)
    OBVIOUS
  <2>1. CASE SourcesNext
    <3>1. CASE \E d \in PurchaseDocs, l \in OutLines : BookByHand(d, l)
      <4>1. e.run = Hand
        BY <3>1 DEF BookByHand
      <4> QED BY <4>1, BatchesAssumption DEF BatchesAssumption
    <3>2. CASE ~\E d \in PurchaseDocs, l \in OutLines : BookByHand(d, l)
      <4>1. UNCHANGED booked
        BY <2>1, <3>2 DEF SourcesNext, ImportLine, ChangeEvidence, PassVat, VatExpires,
          AppendTransition, ProposeRule, CheckTransition
      <4> QED BY <4>1
    <3> QED BY <3>1, <3>2
  <2>2. CASE \E j \in Runs : \/ ReadItems(j) \/ CreateRun(j)
                             \/ \E p \in Principals : SuggestPairs(j, p) \/ ApproveRun(j, p)
    BY <2>2 DEF ReadItems, SuggestPairs, CreateRun, ApproveRun
  <2>3. CASE \E j \in Runs : \E failing \in SUBSET OutLines : Apply(j, failing)
    <3>1. PICK j \in Runs, failing \in SUBSET OutLines : Apply(j, failing)
      BY <2>3
    <3>2. j = k
      <4>1. \E item \in runs[j].plan.items : e = Booked(item, j)
        BY <3>1, AppliedItems, BatchesAssumption
      <4> QED BY <4>1 DEF Booked
    <3> QED BY <3>1, <3>2, AppliedIsReviewed, BatchesAssumption
  <2> QED BY <2>1, <2>2, <2>3 DEF BatchesNext
<1> QED BY <1>1, BatchesInvariant, PTL DEF BatchesSpec, BatchBooksWhatWasReviewed, Rests

-----------------------------------------------------------------------------
(***************************************************************************)
(* The import of bank statements: an account holds as many rows of a       *)
(* content as the fullest export of it, whatever the bank exported and in  *)
(* which order.  The rows of a content carry the occurrences 0, 1, ...     *)
(* without a gap, each once, and reach as far as some export does.         *)
(***************************************************************************)

StatementAccounts == BankAccounts \union {NoAccount}

ImportedRows == [account : StatementAccounts, move : Moves, occurrence : Nat]

Copies(file, i) == Cardinality({k \in DOMAIN file : SameContent(file[k], i)})

LEMMA FileTyped ==
  ASSUME BankImportAssumption, NEW file \in Exports
  PROVE  /\ file \in Seq(Moves) /\ Len(file) \in Nat /\ DOMAIN file = 1..Len(file)
         /\ \A k \in 1..Len(file) : file[k] \in Moves
<1>1. PICK n \in 1..Len(History) : file \in [1..n -> Moves]
  BY DEF Exports
<1>2. n \in Nat
  BY DEF BankImportAssumption
<1>3. file \in Seq(Moves)
  BY <1>1, <1>2, SeqDef
<1> QED BY <1>1, <1>3, LenProperties, ElementOfSeq

LEMMA ContentIsAnEquivalence ==
  /\ \A i : SameContent(i, i)
  /\ \A i, j : SameContent(i, j) => SameContent(j, i)
  /\ \A i, j, k : SameContent(i, j) /\ SameContent(j, k) => SameContent(i, k)
BY DEF SameContent

LEMMA OccurrenceTyped ==
  ASSUME BankImportAssumption, NEW file \in Exports, NEW k \in 1..Len(file)
  PROVE  Occurrence(file, k) \in Nat
<1>1. PICK S : S = {j \in 1 .. k - 1 : SameContent(file[j], file[k])}
  OBVIOUS
<1>2. IsFiniteSet(S)
  <2>1. IsFiniteSet(1 .. k - 1)
    <3>1. k - 1 \in Int /\ 1 \in Int
      BY FileTyped
    <3> QED BY <3>1, FS_Interval
  <2>2. S \in SUBSET (1 .. k - 1)
    BY <1>1
  <2> QED BY <2>1, <2>2, FS_Subset
<1> QED BY <1>1, <1>2, FS_CardinalityType DEF Occurrence

(* A later row of the same content has a later occurrence.                  *)
LEMMA OccurrenceGrows ==
  ASSUME BankImportAssumption, NEW file \in Exports,
         NEW k \in 1..Len(file), NEW l \in 1..Len(file), k < l, SameContent(file[k], file[l])
  PROVE  Occurrence(file, k) < Occurrence(file, l)
<1>0. Len(file) \in Nat
  BY FileTyped
<1>1. PICK S, T : /\ S = {j \in 1 .. k - 1 : SameContent(file[j], file[k])}
                  /\ T = {j \in 1 .. l - 1 : SameContent(file[j], file[l])}
  OBVIOUS
<1>2. IsFiniteSet(S) /\ IsFiniteSet(T)
  <2>1. k - 1 \in Int /\ l - 1 \in Int /\ 1 \in Int
    BY <1>0
  <2>2. IsFiniteSet(1 .. k - 1) /\ IsFiniteSet(1 .. l - 1)
    BY <2>1, FS_Interval
  <2>3. S \in SUBSET (1 .. k - 1) /\ T \in SUBSET (1 .. l - 1)
    BY <1>1
  <2> QED BY <2>2, <2>3, FS_Subset
<1>3. k \notin S /\ S \union {k} \in SUBSET T
  <2>1. k \notin S
    BY <1>0, <1>1
  <2>2. k \in T
    BY <1>0, <1>1
  <2>3. ASSUME NEW j \in S PROVE j \in T
    <3>1. j \in 1 .. k - 1 /\ SameContent(file[j], file[k])
      BY <1>1
    <3>2. j \in 1 .. l - 1 /\ SameContent(file[j], file[l])
      BY <1>0, <3>1, ContentIsAnEquivalence
    <3> QED BY <1>1, <3>2
  <2> QED BY <2>1, <2>2, <2>3
<1>4. Cardinality(S \union {k}) = Cardinality(S) + 1
  BY <1>2, <1>3, FS_AddElement
<1>5. Cardinality(S \union {k}) <= Cardinality(T)
  BY <1>2, <1>3, FS_Subset
<1>6. Cardinality(S) \in Nat /\ Cardinality(T) \in Nat
  BY <1>2, FS_CardinalityType
<1>7. Cardinality(S) < Cardinality(T)
  BY <1>4, <1>5, <1>6
<1> QED BY <1>1, <1>7 DEF Occurrence

LEMMA OccurrenceIsOnce ==
  ASSUME BankImportAssumption, NEW file \in Exports,
         NEW k \in 1..Len(file), NEW l \in 1..Len(file), SameContent(file[k], file[l]),
         Occurrence(file, k) = Occurrence(file, l)
  PROVE  k = l
<1>1. k \in Nat /\ l \in Nat
  BY FileTyped
<1>2. Occurrence(file, k) \in Nat /\ Occurrence(file, l) \in Nat
  BY OccurrenceTyped
<1>3. ~(k < l)
  <2> SUFFICES ASSUME k < l PROVE FALSE
    OBVIOUS
  <2>1. Occurrence(file, k) < Occurrence(file, l)
    BY OccurrenceGrows
  <2> QED BY <1>2, <2>1
<1>4. ~(l < k)
  <2> SUFFICES ASSUME l < k PROVE FALSE
    OBVIOUS
  <2>1. SameContent(file[l], file[k])
    BY ContentIsAnEquivalence
  <2>2. Occurrence(file, l) < Occurrence(file, k)
    BY <2>1, OccurrenceGrows
  <2> QED BY <1>2, <2>2
<1> QED BY <1>1, <1>3, <1>4

(* The occurrences of a content in a file are 0, 1, ... up to its copies.   *)
LEMMA OccurrencesFill ==
  ASSUME BankImportAssumption, NEW file \in Exports, NEW i \in Moves
  PROVE  /\ Copies(file, i) \in Nat
         /\ \A o \in Nat : o < Copies(file, i) <=>
              \E k \in 1..Len(file) : SameContent(file[k], i) /\ Occurrence(file, k) = o
<1>0. Len(file) \in Nat /\ DOMAIN file = 1..Len(file)
  BY FileTyped
<1>1. PICK D : D = {k \in 1..Len(file) : SameContent(file[k], i)}
  OBVIOUS
<1>2. IsFiniteSet(D) /\ D \subseteq 1..Len(file)
  <2>1. IsFiniteSet(1..Len(file)) /\ D \in SUBSET (1..Len(file))
    BY <1>0, <1>1, FS_Interval
  <2> QED BY <2>1, FS_Subset
<1>3. PICK n \in Nat : n = Cardinality(D) /\ n = Copies(file, i)
  BY <1>0, <1>1, <1>2, FS_CardinalityType DEF Copies
<1>4. \A k \in D : Occurrence(file, k) \in 0..(n - 1)
  <2> SUFFICES ASSUME NEW k \in D PROVE Occurrence(file, k) \in 0..(n - 1)
    OBVIOUS
  <2>1. k \in 1..Len(file) /\ SameContent(file[k], i) /\ k \in Nat
    BY <1>0, <1>1
  <2>2. PICK S : S = {j \in 1 .. k - 1 : SameContent(file[j], file[k])}
    OBVIOUS
  <2>3. k \notin S /\ S \union {k} \in SUBSET D
    <3>1. k \notin S
      BY <2>1, <2>2
    <3>2. ASSUME NEW j \in S PROVE j \in D
      <4>1. j \in 1 .. k - 1 /\ SameContent(file[j], file[k])
        BY <2>2
      <4>2. j \in 1..Len(file) /\ SameContent(file[j], i)
        BY <1>0, <2>1, <4>1, ContentIsAnEquivalence
      <4> QED BY <1>1, <4>2
    <3> QED BY <3>1, <3>2
  <2>4. IsFiniteSet(S)
    BY <1>2, <2>3, FS_Subset
  <2>5. Cardinality(S \union {k}) = Cardinality(S) + 1
    BY <2>3, <2>4, FS_AddElement
  <2>6. Cardinality(S \union {k}) <= n
    <3>1. Cardinality(S \union {k}) <= Cardinality(D)
      BY <1>2, <2>3, FS_Subset
    <3> QED BY <1>3, <3>1
  <2>7. Occurrence(file, k) = Cardinality(S) /\ Occurrence(file, k) \in Nat
    BY <2>1, <2>2, OccurrenceTyped DEF Occurrence
  <2> QED BY <2>5, <2>6, <2>7
<1>5. PICK f : f = [k \in D |-> Occurrence(file, k)]
  OBVIOUS
<1>6. f \in Injection(D, 0..(n - 1))
  <2>1. f \in [D -> 0..(n - 1)]
    BY <1>4, <1>5
  <2>2. \A k, l \in D : f[k] = f[l] => k = l
    <3> SUFFICES ASSUME NEW k \in D, NEW l \in D, f[k] = f[l] PROVE k = l
      OBVIOUS
    <3>1. k \in 1..Len(file) /\ l \in 1..Len(file) /\ SameContent(file[k], file[l])
      BY <1>1, ContentIsAnEquivalence
    <3>2. Occurrence(file, k) = Occurrence(file, l)
      BY <1>5
    <3> QED BY <3>1, <3>2, OccurrenceIsOnce
  <2> QED BY <2>1, <2>2 DEF Injection, IsInjective
<1>7. IsFiniteSet(0..(n - 1)) /\ Cardinality(0..(n - 1)) = n
  <2>1. 0 \in Int /\ n - 1 \in Int /\ (0 > n - 1 <=> n = 0)
    OBVIOUS
  <2>2. IsFiniteSet(0..(n - 1))
        /\ Cardinality(0..(n - 1)) = IF 0 > n - 1 THEN 0 ELSE (n - 1) - 0 + 1
    BY <2>1, FS_Interval
  <2> QED BY <2>1, <2>2
<1>8. f \in Surjection(D, 0..(n - 1))
  BY <1>2, <1>3, <1>6, <1>7, FS_Injection
<1>9. \A o \in 0..(n - 1) : \E k \in D : f[k] = o
  BY <1>8 DEF Surjection
<1>10. ASSUME NEW o \in Nat
       PROVE  o < n <=> \E k \in 1..Len(file) : SameContent(file[k], i) /\ Occurrence(file, k) = o
  <2>1. ASSUME o < n
        PROVE  \E k \in 1..Len(file) : SameContent(file[k], i) /\ Occurrence(file, k) = o
    <3>1. o \in 0..(n - 1)
      BY <2>1
    <3>2. PICK k \in D : f[k] = o
      BY <1>9, <3>1
    <3> QED BY <1>1, <1>5, <3>2
  <2>2. ASSUME NEW k \in 1..Len(file), SameContent(file[k], i), Occurrence(file, k) = o
        PROVE  o < n
    <3>1. k \in D
      BY <1>1, <2>2
    <3>2. o \in 0..(n - 1)
      BY <1>4, <2>2, <3>1
    <3> QED BY <3>2
  <2> QED BY <2>1, <2>2
<1> QED BY <1>3, <1>10

-----------------------------------------------------------------------------
(* The loop over the file.                                                  *)

(* What the loop has inserted once it has seen the rows up to k.            *)
InsertedUpTo(account, file, k, new) ==
  /\ new \in Seq(ImportedRows)
  /\ \A x \in 1..Len(new) : \E j \in 1..k :
       ~Known(account, file[j], Occurrence(file, j)) /\ new[x] = ImportedRow(account, file, j)
  /\ \A j \in 1..k : ~Known(account, file[j], Occurrence(file, j)) =>
       \E x \in 1..Len(new) : new[x] = ImportedRow(account, file, j)
  /\ \A x, y \in 1..Len(new) :
       SameContent(new[x].move, new[y].move) /\ new[x].occurrence = new[y].occurrence => x = y

LEMMA LoopStarts ==
  ASSUME NEW account, NEW file
  PROVE  InsertedUpTo(account, file, 0, <<>>)
<1>1. <<>> \in Seq(ImportedRows) /\ Len(<<>>) = 0
  BY EmptySeq
<1> QED BY <1>1 DEF InsertedUpTo

LEMMA RowTyped ==
  ASSUME BankImportAssumption, NEW account \in StatementAccounts, NEW file \in Exports,
         NEW k \in 1..Len(file)
  PROVE  /\ ImportedRow(account, file, k) \in ImportedRows
         /\ ImportedRow(account, file, k).account = account
         /\ ImportedRow(account, file, k).move = file[k]
         /\ ImportedRow(account, file, k).occurrence = Occurrence(file, k)
<1>1. file[k] \in Moves /\ Occurrence(file, k) \in Nat
  BY FileTyped, OccurrenceTyped
<1> QED BY <1>1 DEF ImportedRow, ImportedRows

LEMMA LoopGoesOn ==
  ASSUME BankImportAssumption, NEW account \in StatementAccounts, NEW file \in Exports,
         NEW k \in 1..Len(file), NEW new, InsertedUpTo(account, file, k - 1, new)
  PROVE  InsertedUpTo(account, file, k,
           IF Known(account, file[k], Occurrence(file, k)) THEN new
           ELSE Append(new, ImportedRow(account, file, k)))
<1>0. k \in Nat /\ Len(file) \in Nat
  BY FileTyped
<1>1. \A j \in 1..k : j \in 1..(k - 1) \/ j = k
  BY <1>0
<1>2. \A j \in 1..(k - 1) : j \in 1..k /\ j \in 1..Len(file) /\ j # k
  BY <1>0
<1>3. k \in 1..k
  BY <1>0
<1>4. CASE Known(account, file[k], Occurrence(file, k))
  <2>1. InsertedUpTo(account, file, k, new)
    <3>1. \A x \in 1..Len(new) : \E j \in 1..k :
            ~Known(account, file[j], Occurrence(file, j)) /\ new[x] = ImportedRow(account, file, j)
      BY <1>2 DEF InsertedUpTo
    <3>2. \A j \in 1..k : ~Known(account, file[j], Occurrence(file, j)) =>
            \E x \in 1..Len(new) : new[x] = ImportedRow(account, file, j)
      BY <1>1, <1>4 DEF InsertedUpTo
    <3> QED BY <3>1, <3>2 DEF InsertedUpTo
  <2> QED BY <1>4, <2>1
<1>5. CASE ~Known(account, file[k], Occurrence(file, k))
  <2>1. PICK row, t : row = ImportedRow(account, file, k) /\ t = Append(new, row)
    OBVIOUS
  <2>2. row \in ImportedRows /\ row.move = file[k] /\ row.occurrence = Occurrence(file, k)
    BY <2>1, RowTyped
  <2>3. PICK n \in Nat : n = Len(new) /\ new \in Seq(ImportedRows)
    BY LenProperties DEF InsertedUpTo
  <2>4. /\ t \in Seq(ImportedRows) /\ Len(t) = n + 1
        /\ \A x \in 1..n : t[x] = new[x]
        /\ t[n + 1] = row
    BY <2>1, <2>2, <2>3, AppendProperties
  <2>5. \A x \in 1..(n + 1) : x \in 1..n \/ x = n + 1
    OBVIOUS
  <2>6. \A x \in 1..Len(t) : \E j \in 1..k :
          ~Known(account, file[j], Occurrence(file, j)) /\ t[x] = ImportedRow(account, file, j)
    <3> SUFFICES ASSUME NEW x \in 1..(n + 1)
                 PROVE  \E j \in 1..k : /\ ~Known(account, file[j], Occurrence(file, j))
                                        /\ t[x] = ImportedRow(account, file, j)
      BY <2>4
    <3>1. CASE x \in 1..n
      BY <1>2, <2>3, <2>4, <3>1 DEF InsertedUpTo
    <3>2. CASE x = n + 1
      BY <1>3, <1>5, <2>1, <2>4, <3>2
    <3> QED BY <2>5, <3>1, <3>2
  <2>7. \A j \in 1..k : ~Known(account, file[j], Occurrence(file, j)) =>
          \E x \in 1..Len(t) : t[x] = ImportedRow(account, file, j)
    <3> SUFFICES ASSUME NEW j \in 1..k, ~Known(account, file[j], Occurrence(file, j))
                 PROVE  \E x \in 1..(n + 1) : t[x] = ImportedRow(account, file, j)
      BY <2>4
    <3>1. CASE j = k
      <4>1. n + 1 \in 1..(n + 1)
        OBVIOUS
      <4> QED BY <2>1, <2>4, <3>1, <4>1
    <3>2. CASE j # k
      <4>1. PICK x \in 1..n : new[x] = ImportedRow(account, file, j)
        BY <1>1, <2>3, <3>2 DEF InsertedUpTo
      <4>2. x \in 1..(n + 1)
        OBVIOUS
      <4> QED BY <2>4, <4>1, <4>2
    <3> QED BY <3>1, <3>2
  <2>8. ASSUME NEW x \in 1..n
        PROVE  ~(SameContent(t[x].move, row.move) /\ t[x].occurrence = row.occurrence)
    <3>1. PICK j \in 1..(k - 1) : new[x] = ImportedRow(account, file, j)
      BY <2>3 DEF InsertedUpTo
    <3>2. j \in 1..Len(file) /\ j # k
      BY <1>2
    <3>3. t[x].move = file[j] /\ t[x].occurrence = Occurrence(file, j)
      BY <2>4, <3>1, <3>2, RowTyped
    <3> QED BY <2>2, <3>2, <3>3, OccurrenceIsOnce
  <2>9. \A x, y \in 1..Len(t) :
          SameContent(t[x].move, t[y].move) /\ t[x].occurrence = t[y].occurrence => x = y
    <3> SUFFICES ASSUME NEW x \in 1..(n + 1), NEW y \in 1..(n + 1),
                        SameContent(t[x].move, t[y].move), t[x].occurrence = t[y].occurrence
                 PROVE  x = y
      BY <2>4
    <3>1. CASE x \in 1..n /\ y \in 1..n
      BY <2>3, <2>4, <3>1 DEF InsertedUpTo
    <3>2. CASE x \in 1..n /\ y = n + 1
      BY <2>4, <2>8, <3>2
    <3>3. CASE x = n + 1 /\ y \in 1..n
      <4>1. SameContent(t[y].move, t[x].move)
        BY ContentIsAnEquivalence
      <4> QED BY <2>4, <2>8, <3>3, <4>1
    <3> QED BY <2>5, <3>1, <3>2, <3>3
  <2>10. InsertedUpTo(account, file, k, t)
    BY <2>4, <2>6, <2>7, <2>9 DEF InsertedUpTo
  <2> QED BY <1>5, <2>1, <2>10
<1> QED BY <1>4, <1>5

LEMMA NewRowsInserted ==
  ASSUME BankImportAssumption, NEW account \in StatementAccounts, NEW file \in Exports
  PROVE  InsertedUpTo(account, file, Len(file), NewRows(account, file))
<1> DEFINE More(k, s) == IF Known(account, file[k], Occurrence(file, k)) THEN s
                         ELSE Append(s, ImportedRow(account, file, k))
           Loop(g, n) == g = [k \in 0 .. n |-> IF k = 0 THEN <<>> ELSE More(k, g[k - 1])]
<1>0. PICK N \in Nat : N = Len(file)
  BY FileTyped
<1>1. NewRows(account, file) = (CHOOSE g : Loop(g, N))[N]
  BY <1>0 DEF NewRows
<1> HIDE DEF More
<1>2. \A n \in Nat : \E g : Loop(g, n)
  <2> DEFINE Bad == {n \in Nat : ~\E g : Loop(g, n)}
  <2>0. SUFFICES ASSUME Bad # {} PROVE FALSE
    OBVIOUS
  <2>1. PICK n \in Bad : \A m \in Bad : n <= m
    BY <2>0, LeastExists
  <2>2. n \in Nat /\ ~\E g : Loop(g, n)
    BY <2>1
  <2>3. CASE n = 0
    <3>1. PICK g : g = [k \in 0 .. 0 |-> <<>>]
      OBVIOUS
    <3>2. \A k \in 0 .. 0 : k = 0
      OBVIOUS
    <3>3. Loop(g, 0)
      BY <3>1, <3>2
    <3> QED BY <2>2, <2>3, <3>3
  <2>4. CASE n # 0
    <3>1. n - 1 \in Nat /\ n - 1 \notin Bad
      <4>1. n - 1 \in Nat /\ ~(n <= n - 1)
        BY <2>2, <2>4
      <4> HIDE DEF Bad
      <4> QED BY <2>1, <4>1
    <3>2. PICK g : Loop(g, n - 1)
      BY <3>1
    <3>3. PICK h : h = [k \in 0 .. n |-> IF k = n THEN More(n, g[n - 1]) ELSE g[k]]
      OBVIOUS
    <3>4. ASSUME NEW k \in 0 .. n
          PROVE  h[k] = IF k = 0 THEN <<>> ELSE More(k, h[k - 1])
      <4>1. CASE k = n
        <5>1. n - 1 \in 0 .. n /\ n - 1 # n /\ n \in 0 .. n
          BY <2>2, <3>1
        <5>2. h[n] = More(n, g[n - 1]) /\ h[n - 1] = g[n - 1]
          BY <3>3, <5>1
        <5> QED BY <2>4, <4>1, <5>2
      <4>2. CASE k # n
        <5>1. k \in 0 .. (n - 1)
          BY <2>2, <4>2
        <5>2. h[k] = g[k] /\ g[k] = IF k = 0 THEN <<>> ELSE More(k, g[k - 1])
          BY <3>2, <3>3, <4>2, <5>1
        <5>3. k # 0 => h[k - 1] = g[k - 1]
          <6>1. k # 0 => k - 1 \in 0 .. n /\ k - 1 # n
            BY <2>2, <5>1
          <6> QED BY <3>3, <6>1
        <5> QED BY <5>2, <5>3
      <4> QED BY <4>1, <4>2
    <3>5. Loop(h, n)
      <4>1. DOMAIN h = 0 .. n /\ h = [k \in 0 .. n |-> h[k]]
        BY <3>3
      <4> QED BY <3>4, <4>1
    <3> QED BY <2>2, <3>5
  <2> QED BY <2>3, <2>4
<1>3. PICK h : h = (CHOOSE g : Loop(g, N)) /\ Loop(h, N)
  BY <1>2
<1>4. h[0] = <<>> /\ \A k \in 1 .. N : h[k] = More(k, h[k - 1])
  <2>1. h[0] = <<>>
    <3>1. 0 \in 0 .. N
      OBVIOUS
    <3> QED BY <1>3, <3>1
  <2>2. ASSUME NEW k \in 1 .. N PROVE h[k] = More(k, h[k - 1])
    <3>1. k \in 0 .. N /\ k # 0
      OBVIOUS
    <3> QED BY <1>3, <3>1
  <2> QED BY <2>1, <2>2
<1> HIDE DEF Loop
<1>5. \A k \in Nat : k <= N => InsertedUpTo(account, file, k, h[k])
  <2> DEFINE Bad == {k \in Nat : k <= N /\ ~InsertedUpTo(account, file, k, h[k])}
  <2>0. SUFFICES ASSUME Bad # {} PROVE FALSE
    OBVIOUS
  <2>1. PICK k \in Bad : \A m \in Bad : k <= m
    BY <2>0, LeastExists
  <2>2. k \in Nat /\ k <= N /\ ~InsertedUpTo(account, file, k, h[k])
    BY <2>1
  <2>3. CASE k = 0
    <3>1. InsertedUpTo(account, file, 0, <<>>)
      BY LoopStarts
    <3> QED BY <1>4, <2>2, <2>3, <3>1
  <2>4. CASE k # 0
    <3>1. k - 1 \in Nat /\ k - 1 \notin Bad /\ k - 1 <= N /\ k \in 1 .. N
      <4>1. k - 1 \in Nat /\ ~(k <= k - 1) /\ k - 1 <= N /\ k \in 1 .. N
        BY <2>2, <2>4
      <4> HIDE DEF Bad
      <4> QED BY <2>1, <4>1
    <3>2. InsertedUpTo(account, file, k - 1, h[k - 1])
      BY <3>1
    <3>3. InsertedUpTo(account, file, k, More(k, h[k - 1]))
      BY <1>0, <3>1, <3>2, LoopGoesOn DEF More
    <3> QED BY <1>4, <2>2, <3>1, <3>3
  <2> QED BY <2>3, <2>4
<1> QED BY <1>0, <1>1, <1>3, <1>5

-----------------------------------------------------------------------------
(* The rows of the table.                                                   *)

KnownIn(s, account, i, o) ==
  \E k \in 1..Len(s) :
    s[k].account = account /\ SameContent(s[k].move, i) /\ s[k].occurrence = o

(* No two rows of an account say the same under the same occurrence.        *)
OneRowPerOccurrence(s) ==
  \A k, l \in 1..Len(s) :
    /\ s[k].account = s[l].account
    /\ SameContent(s[k].move, s[l].move)
    /\ s[k].occurrence = s[l].occurrence
    => k = l

(* The occurrences stored are those that some export reaches.               *)
RowsReachTheExports(s, E) ==
  \A account \in StatementAccounts, i \in Moves, o \in Nat :
    KnownIn(s, account, i, o) <=> \E e \in E : e.account = account /\ o < Copies(e.file, i)

StatementInv ==
  /\ transactions \in Seq(ImportedRows)
  /\ active \subseteq BankAccounts
  /\ exports \subseteq [account : StatementAccounts, file : Exports]
  /\ OneRowPerOccurrence(transactions)
  /\ RowsReachTheExports(transactions, exports)

LEMMA RowsTyped ==
  ASSUME NEW s \in Seq(ImportedRows)
  PROVE  /\ Len(s) \in Nat /\ DOMAIN s = 1..Len(s)
         /\ \A k \in 1..Len(s) : s[k] \in ImportedRows
BY LenProperties, ElementOfSeq

LEMMA KnownIsStored ==
  ASSUME transactions \in Seq(ImportedRows), NEW account, NEW i, NEW o
  PROVE  Known(account, i, o) <=> KnownIn(transactions, account, i, o)
<1>1. DOMAIN transactions = 1..Len(transactions)
  BY RowsTyped
<1> QED BY <1>1 DEF Known, KnownIn

LEMMA StatementStart ==
  ASSUME BankImportInit
  PROVE  StatementInv
<1>1. transactions = <<>> /\ exports = {} /\ active \subseteq BankAccounts
  BY DEF BankImportInit
<1>2. transactions \in Seq(ImportedRows) /\ Len(transactions) = 0
  BY <1>1, EmptySeq
<1> QED BY <1>1, <1>2 DEF StatementInv, OneRowPerOccurrence, RowsReachTheExports, KnownIn

LEMMA ImportKeeps ==
  ASSUME BankImportAssumption, StatementInv, NEW c,
         NEW account \in StatementAccounts, NEW file \in Exports, ImportRows(c, account, file)
  PROVE  StatementInv'
<1>1. PICK s, t, new : s = transactions /\ t = transactions' /\ new = NewRows(account, file)
  OBVIOUS
<1>2. t = s \o new /\ active' = active
      /\ exports' = exports \union {[account |-> account, file |-> file]}
  BY <1>1 DEF ImportRows
<1>3. InsertedUpTo(account, file, Len(file), new)
  BY <1>1, NewRowsInserted
<1>4. s \in Seq(ImportedRows) /\ new \in Seq(ImportedRows)
  BY <1>1, <1>3 DEF StatementInv, InsertedUpTo
<1>5. PICK n \in Nat, m \in Nat : n = Len(s) /\ m = Len(new)
  BY <1>4, RowsTyped
<1>6. /\ t \in Seq(ImportedRows) /\ Len(t) = n + m
      /\ \A k \in 1..n : t[k] = s[k]
      /\ \A k \in 1..m : t[n + k] = new[k]
  <2>1. /\ t \in Seq(ImportedRows) /\ Len(t) = n + m
        /\ \A k \in 1..(n + m) : t[k] = IF k <= n THEN s[k] ELSE new[k - n]
    BY <1>2, <1>4, <1>5, ConcatProperties
  <2>2. ASSUME NEW k \in 1..n PROVE t[k] = s[k]
    <3>1. k \in 1..(n + m) /\ k <= n
      OBVIOUS
    <3> QED BY <2>1, <3>1
  <2>3. ASSUME NEW k \in 1..m PROVE t[n + k] = new[k]
    <3>1. n + k \in 1..(n + m) /\ ~(n + k <= n) /\ (n + k) - n = k
      OBVIOUS
    <3> QED BY <2>1, <3>1
  <2> QED BY <2>1, <2>2, <2>3
<1>7. \A k \in 1..(n + m) : k \in 1..n \/ \E x \in 1..m : k = n + x
  <2> SUFFICES ASSUME NEW k \in 1..(n + m), k \notin 1..n PROVE \E x \in 1..m : k = n + x
    OBVIOUS
  <2>1. k - n \in 1..m /\ k = n + (k - n)
    OBVIOUS
  <2> QED BY <2>1
<1>8. \A x \in 1..m : \E j \in 1..Len(file) :
        /\ new[x] = ImportedRow(account, file, j) /\ ~Known(account, file[j], Occurrence(file, j))
        /\ new[x].account = account /\ new[x].move = file[j]
        /\ new[x].occurrence = Occurrence(file, j)
  <2> SUFFICES ASSUME NEW x \in 1..m
               PROVE \E j \in 1..Len(file) :
                 /\ new[x] = ImportedRow(account, file, j)
                 /\ ~Known(account, file[j], Occurrence(file, j))
                 /\ new[x].account = account /\ new[x].move = file[j]
                 /\ new[x].occurrence = Occurrence(file, j)
    OBVIOUS
  <2>1. PICK j \in 1..Len(file) :
          new[x] = ImportedRow(account, file, j) /\ ~Known(account, file[j], Occurrence(file, j))
    BY <1>3, <1>5 DEF InsertedUpTo
  <2> QED BY <2>1, RowTyped
<1>9. OneRowPerOccurrence(t)
  <2>1. ASSUME NEW x \in 1..n, NEW y \in 1..m, s[x].account = new[y].account,
               SameContent(s[x].move, new[y].move), s[x].occurrence = new[y].occurrence
        PROVE  FALSE
    <3>1. PICK j \in 1..Len(file) :
            /\ ~Known(account, file[j], Occurrence(file, j))
            /\ new[y].account = account /\ new[y].move = file[j]
            /\ new[y].occurrence = Occurrence(file, j)
      BY <1>8
    <3>2. KnownIn(s, account, file[j], Occurrence(file, j))
      BY <1>5, <2>1, <3>1 DEF KnownIn
    <3> QED BY <1>1, <1>4, <3>1, <3>2, KnownIsStored
  <2> SUFFICES ASSUME NEW k \in 1..(n + m), NEW l \in 1..(n + m),
                      t[k].account = t[l].account, SameContent(t[k].move, t[l].move),
                      t[k].occurrence = t[l].occurrence
               PROVE  k = l
    BY <1>6 DEF OneRowPerOccurrence
  <2>2. CASE k \in 1..n /\ l \in 1..n
    BY <1>1, <1>5, <1>6, <2>2 DEF StatementInv, OneRowPerOccurrence
  <2>3. CASE k \in 1..n /\ \E x \in 1..m : l = n + x
    BY <1>6, <2>1, <2>3
  <2>4. CASE (\E x \in 1..m : k = n + x) /\ l \in 1..n
    <3>1. PICK x \in 1..m : k = n + x
      BY <2>4
    <3>2. SameContent(t[l].move, t[k].move)
      BY ContentIsAnEquivalence
    <3> QED BY <1>6, <2>1, <2>4, <3>1, <3>2
  <2>5. CASE (\E x \in 1..m : k = n + x) /\ (\E x \in 1..m : l = n + x)
    <3>1. PICK x \in 1..m, y \in 1..m : k = n + x /\ l = n + y
      BY <2>5
    <3>2. new[x] = t[k] /\ new[y] = t[l]
      BY <1>6, <3>1
    <3>3. x = y
      BY <1>3, <1>5, <3>2 DEF InsertedUpTo
    <3> QED BY <3>1, <3>3
  <2> QED BY <1>7, <2>2, <2>3, <2>4, <2>5
<1>10. RowsReachTheExports(t, exports')
  <2> SUFFICES ASSUME NEW a \in StatementAccounts, NEW i \in Moves, NEW o \in Nat
               PROVE  KnownIn(t, a, i, o)
                        <=> \E e \in exports' : e.account = a /\ o < Copies(e.file, i)
    BY DEF RowsReachTheExports
  <2>1. KnownIn(s, a, i, o) <=> \E e \in exports : e.account = a /\ o < Copies(e.file, i)
    BY <1>1 DEF StatementInv, RowsReachTheExports
  <2>2. KnownIn(s, a, i, o) => KnownIn(t, a, i, o)
    <3> SUFFICES ASSUME NEW k \in 1..n, s[k].account = a, SameContent(s[k].move, i),
                        s[k].occurrence = o
                 PROVE  KnownIn(t, a, i, o)
      BY <1>5 DEF KnownIn
    <3>1. k \in 1..(n + m) /\ t[k] = s[k]
      BY <1>6
    <3> QED BY <1>6, <3>1 DEF KnownIn
  <2>3. ASSUME a = account, NEW j \in 1..Len(file), SameContent(file[j], i), Occurrence(file, j) = o
        PROVE  KnownIn(t, a, i, o)
    <3>1. CASE Known(account, file[j], Occurrence(file, j))
      <4>1. KnownIn(s, account, file[j], o)
        BY <1>1, <1>4, <2>3, <3>1, KnownIsStored
      <4>2. KnownIn(s, a, i, o)
        BY <2>3, <4>1, ContentIsAnEquivalence DEF KnownIn
      <4> QED BY <2>2, <4>2
    <3>2. CASE ~Known(account, file[j], Occurrence(file, j))
      <4>1. PICK x \in 1..m : new[x] = ImportedRow(account, file, j)
        BY <1>3, <1>5, <3>2 DEF InsertedUpTo
      <4>2. n + x \in 1..(n + m) /\ t[n + x] = ImportedRow(account, file, j)
        BY <1>6, <4>1
      <4>3. /\ t[n + x].account = a /\ t[n + x].move = file[j] /\ t[n + x].occurrence = o
        BY <2>3, <4>2, RowTyped
      <4> QED BY <1>6, <2>3, <4>2, <4>3 DEF KnownIn
    <3> QED BY <3>1, <3>2
  <2>4. ASSUME KnownIn(t, a, i, o), ~KnownIn(s, a, i, o)
        PROVE  a = account /\ \E j \in 1..Len(file) : SameContent(file[j], i) /\ Occurrence(file, j) = o
    <3>1. PICK k \in 1..(n + m) :
            t[k].account = a /\ SameContent(t[k].move, i) /\ t[k].occurrence = o
      BY <1>6, <2>4 DEF KnownIn
    <3>2. CASE k \in 1..n
      BY <1>5, <1>6, <2>4, <3>1, <3>2 DEF KnownIn
    <3>3. CASE \E x \in 1..m : k = n + x
      <4>1. PICK x \in 1..m : k = n + x /\ t[k] = new[x]
        BY <1>6, <3>3
      <4> QED BY <1>8, <3>1, <4>1
    <3> QED BY <1>7, <3>2, <3>3
  <2>5. o < Copies(file, i)
          <=> \E j \in 1..Len(file) : SameContent(file[j], i) /\ Occurrence(file, j) = o
    BY OccurrencesFill
  <2>6. (\E e \in exports' : e.account = a /\ o < Copies(e.file, i))
          <=> \/ \E e \in exports : e.account = a /\ o < Copies(e.file, i)
              \/ a = account /\ o < Copies(file, i)
    <3>1. PICK f : f = [account |-> account, file |-> file]
      OBVIOUS
    <3>2. f.account = account /\ f.file = file /\ exports' = exports \union {f}
      BY <1>2, <3>1
    <3> QED BY <3>2
  <2> QED BY <2>1, <2>2, <2>3, <2>4, <2>5, <2>6
<1>11. exports' \subseteq [account : StatementAccounts, file : Exports]
  BY <1>2 DEF StatementInv
<1> QED BY <1>1, <1>2, <1>6, <1>9, <1>10, <1>11 DEF StatementInv

LEMMA StatementStep ==
  ASSUME BankImportAssumption, StatementInv, [BankImportNext]_bankImportVars
  PROVE  StatementInv'
<1>1. ASSUME UNCHANGED <<transactions, exports>>, active' \subseteq BankAccounts
      PROVE  StatementInv'
  BY <1>1 DEF StatementInv, OneRowPerOccurrence, RowsReachTheExports, KnownIn
<1>2. ASSUME NEW c \in Importers, NEW account \in BankAccounts \union {NoAccount},
             NEW file \in Exports, ImportRows(c, account, file)
      PROVE  StatementInv'
  BY <1>2, ImportKeeps DEF StatementAccounts
<1>3. ASSUME NEW c \in Importers, VerifyContinuity(c) \/ CrashImport(c)
      PROVE  StatementInv'
  BY <1>1, <1>3 DEF VerifyContinuity, CrashImport, StatementInv
<1>4. ASSUME NEW account \in BankAccounts, UpdateBankAccount(account)
      PROVE  StatementInv'
  <2>1. active' \subseteq BankAccounts
    BY <1>4 DEF UpdateBankAccount, StatementInv
  <2> QED BY <1>1, <1>4, <2>1 DEF UpdateBankAccount
<1>5. CASE UNCHANGED bankImportVars
  BY <1>1, <1>5 DEF bankImportVars, StatementInv
<1> QED BY <1>2, <1>3, <1>4, <1>5 DEF BankImportNext

(* Rows without gap or repetition that reach as far as some export are as   *)
(* many as the fullest export has.                                          *)
LEMMA AsManyAsTheFullest ==
  ASSUME BankImportAssumption, StatementInv
  PROVE  StoredIsTheFullestExport
<1> SUFFICES ASSUME NEW account \in StatementAccounts, NEW i \in Moves
             PROVE  Cardinality({k \in DOMAIN transactions :
                                   /\ transactions[k].account = account
                                   /\ SameContent(transactions[k].move, i)})
                      = Max({Cardinality({k \in DOMAIN e.file : SameContent(e.file[k], i)}) :
                               e \in {x \in exports : x.account = account}} \union {0})
  BY DEF StoredIsTheFullestExport, StatementAccounts
<1>1. PICK s : s = transactions /\ s \in Seq(ImportedRows)
  BY DEF StatementInv
<1>2. PICK D : D = {k \in 1..Len(s) : s[k].account = account /\ SameContent(s[k].move, i)}
  OBVIOUS
<1>3. PICK C : C = {Copies(e.file, i) : e \in {x \in exports : x.account = account}} \union {0}
  OBVIOUS
<1>4. IsFiniteSet(D) /\ Cardinality(D) \in Nat
  <2>1. 1 \in Int /\ Len(s) \in Int
    BY <1>1, RowsTyped
  <2>2. IsFiniteSet(1..Len(s)) /\ D \in SUBSET (1..Len(s))
    BY <1>2, <2>1, FS_Interval
  <2>3. IsFiniteSet(D)
    BY <2>2, FS_Subset
  <2> QED BY <2>3, FS_CardinalityType
<1>5. C \subseteq Nat /\ 0 \in C
  <2>1. \A e \in exports : Copies(e.file, i) \in Nat
    BY OccurrencesFill DEF StatementInv
  <2> QED BY <1>3, <2>1
<1>6. PICK f : f = [k \in D |-> s[k].occurrence]
  OBVIOUS
<1>7. \A k, l \in D : f[k] = f[l] => k = l
  <2> SUFFICES ASSUME NEW k \in D, NEW l \in D, f[k] = f[l] PROVE k = l
    OBVIOUS
  <2>1. /\ k \in 1..Len(s) /\ l \in 1..Len(s) /\ s[k].account = s[l].account
        /\ SameContent(s[k].move, s[l].move)
    BY <1>2, ContentIsAnEquivalence
  <2>2. s[k].occurrence = s[l].occurrence
    BY <1>6
  <2> QED BY <1>1, <2>1, <2>2 DEF StatementInv, OneRowPerOccurrence
<1>8. \A k \in D : f[k] \in Nat
  <2>1. \A k \in D : s[k] \in ImportedRows
    BY <1>1, <1>2, RowsTyped
  <2> QED BY <1>6, <2>1 DEF ImportedRows
<1>9. \A o \in Nat : (\E k \in D : f[k] = o) <=> \E x \in C : o < x
  <2> SUFFICES ASSUME NEW o \in Nat
               PROVE  (\E k \in D : f[k] = o) <=> \E x \in C : o < x
    OBVIOUS
  <2>1. (\E k \in D : f[k] = o) <=> KnownIn(s, account, i, o)
    BY <1>2, <1>6 DEF KnownIn
  <2>2. KnownIn(s, account, i, o) <=> \E e \in exports : e.account = account /\ o < Copies(e.file, i)
    BY <1>1 DEF StatementInv, RowsReachTheExports
  <2>3. ~(o < 0)
    OBVIOUS
  <2>4. (\E x \in C : o < x) <=> \E e \in exports : e.account = account /\ o < Copies(e.file, i)
    BY <1>3, <2>3
  <2> QED BY <2>1, <2>2, <2>4
<1>10. \A x \in C : x <= Cardinality(D)
  <2> SUFFICES ASSUME NEW x \in C PROVE x <= Cardinality(D)
    OBVIOUS
  <2>1. x \in Nat
    BY <1>5
  <2>2. PICK I : I = {k \in D : f[k] < x}
    OBVIOUS
  <2>3. PICK g : g = [k \in I |-> f[k]]
    OBVIOUS
  <2>4. g \in Surjection(I, 0..(x - 1))
    <3>1. g \in [I -> 0..(x - 1)]
      BY <1>8, <2>1, <2>2, <2>3
    <3>2. ASSUME NEW o \in 0..(x - 1) PROVE \E k \in I : g[k] = o
      <4>1. o \in Nat /\ o < x
        BY <2>1
      <4>2. PICK k \in D : f[k] = o
        BY <1>9, <4>1
      <4> QED BY <2>2, <2>3, <4>1, <4>2
    <3> QED BY <3>1, <3>2 DEF Surjection
  <2>5. IsFiniteSet(I) /\ Cardinality(I) <= Cardinality(D) /\ Cardinality(I) \in Nat
    <3>1. I \in SUBSET D
      BY <2>2
    <3> QED BY <1>4, <3>1, FS_Subset, FS_CardinalityType
  <2>6. Cardinality(0..(x - 1)) <= Cardinality(I)
    BY <2>4, <2>5, FS_Surjection
  <2>7. Cardinality(0..(x - 1)) = x
    <3>1. 0 \in Int /\ x - 1 \in Int /\ (0 > x - 1 <=> x = 0)
      BY <2>1
    <3>2. Cardinality(0..(x - 1)) = IF 0 > x - 1 THEN 0 ELSE (x - 1) - 0 + 1
      BY <3>1, FS_Interval
    <3> QED BY <2>1, <3>1, <3>2
  <2> QED BY <1>4, <2>1, <2>5, <2>6, <2>7
<1>11. PICK b \in C : \A x \in C : x <= b
  <2>1. PICK B : B = {y \in Nat : \A x \in C : x <= y}
    OBVIOUS
  <2>2. B \subseteq Nat /\ Cardinality(D) \in B
    BY <1>4, <1>10, <2>1
  <2>3. PICK b \in B : \A y \in B : b <= y
    BY <2>2, LeastExists
  <2>4. b \in Nat /\ \A x \in C : x <= b
    BY <2>1, <2>3
  <2>5. b \in C
    <3> SUFFICES ASSUME b \notin C PROVE FALSE
      OBVIOUS
    <3>1. b # 0
      BY <1>5
    <3>2. \A x \in C : x <= b - 1
      BY <1>5, <2>4
    <3>3. b - 1 \in Nat
      BY <2>4, <3>1
    <3>4. b - 1 \in B
      BY <2>1, <3>2, <3>3
    <3> QED BY <2>3, <2>4, <3>4
  <2> QED BY <2>4, <2>5
<1>12. Max(C) = b
  <2>1. \A x, y \in C : x >= y /\ y >= x => x = y
    BY <1>5
  <2>2. \A x \in C : b >= x
    BY <1>5, <1>11
  <2>3. Max(C) \in C /\ \A y \in C : Max(C) >= y
    BY <2>2 DEF Max
  <2> QED BY <2>1, <2>2, <2>3
<1>13. Cardinality(D) = b
  <2>1. b \in Nat
    BY <1>5
  <2>2. f \in Injection(D, 0..(b - 1))
    <3>1. ASSUME NEW k \in D PROVE f[k] \in 0..(b - 1)
      <4>1. f[k] \in Nat
        BY <1>8
      <4>2. PICK x \in C : f[k] < x
        BY <1>9, <4>1
      <4>3. x \in Nat /\ x <= b
        BY <1>5, <1>11
      <4> QED BY <2>1, <4>1, <4>2, <4>3
    <3>2. f \in [D -> 0..(b - 1)]
      BY <1>6, <3>1
    <3> QED BY <1>7, <3>2 DEF Injection, IsInjective
  <2>3. IsFiniteSet(0..(b - 1)) /\ Cardinality(0..(b - 1)) = b
    <3>1. 0 \in Int /\ b - 1 \in Int /\ (0 > b - 1 <=> b = 0)
      BY <2>1
    <3>2. IsFiniteSet(0..(b - 1)) /\ Cardinality(0..(b - 1)) = IF 0 > b - 1 THEN 0 ELSE (b - 1) - 0 + 1
      BY <3>1, FS_Interval
    <3> QED BY <2>1, <3>1, <3>2
  <2>4. Cardinality(D) <= b
    BY <2>2, <2>3, FS_Injection
  <2> QED BY <1>4, <1>10, <2>1, <2>4
<1>14. D = {k \in DOMAIN transactions : /\ transactions[k].account = account
                                        /\ SameContent(transactions[k].move, i)}
  BY <1>1, <1>2, RowsTyped
<1> QED BY <1>3, <1>12, <1>13, <1>14 DEF Copies

-----------------------------------------------------------------------------
(* The rows of an account and a content carry the occurrences that some     *)
(* export reaches, each once (importBankCsv).                               *)
THEOREM StatementInvariant == BankImportSpec => []StatementInv
<1>1. BankImportInit => StatementInv
  BY StatementStart
<1>2. StatementInv /\ [BankImportNext]_bankImportVars => StatementInv'
  BY BankImportAssumption, StatementStep
<1> QED BY <1>1, <1>2, PTL DEF BankImportSpec

(* However the exports overlap and whatever their order, an account has as  *)
(* many rows of a content as the fullest export of it imported there (the   *)
(* occurrence in transactionFingerprint).                                   *)
THEOREM OverlapsAddNothing == BankImportSpec => []StoredIsTheFullestExport
<1>1. StatementInv => StoredIsTheFullestExport
  BY BankImportAssumption, AsManyAsTheFullest
<1> QED BY <1>1, StatementInvariant, PTL

-----------------------------------------------------------------------------
(* The rows that wait for the walk, and those it found a break at.          *)

StatementTyped ==
  /\ unchecked \in [Importers -> Seq(1..Len(transactions))]
  /\ breaks \subseteq 1..Len(transactions)

LEMMA StatementTypedStep ==
  ASSUME BankImportAssumption, StatementInv, StatementTyped,
         [BankImportNext]_bankImportVars
  PROVE  StatementTyped'
<1>1. PICK n \in Nat : n = Len(transactions)
  BY RowsTyped DEF StatementInv
<1>2. /\ unchecked \in [Importers -> Seq(1..n)]
      /\ breaks \subseteq 1..n
  BY <1>1 DEF StatementTyped
<1>3. ASSUME NEW c \in Importers, NEW account \in BankAccounts \union {NoAccount},
             NEW file \in Exports, ImportRows(c, account, file)
      PROVE  StatementTyped'
  <2>1. PICK new : new = NewRows(account, file)
    OBVIOUS
  <2>2. new \in Seq(ImportedRows)
    BY <2>1, NewRowsInserted DEF InsertedUpTo, StatementAccounts
  <2>3. PICK m \in Nat : m = Len(new) /\ DOMAIN new = 1..m
    BY <2>2, RowsTyped
  <2>4. /\ transactions' = transactions \o new
        /\ unchecked' = [unchecked EXCEPT ![c] = [k \in 1..m |-> n + k]]
        /\ breaks' = breaks
    BY <1>1, <1>3, <2>1, <2>3 DEF ImportRows
  <2>5. Len(transactions') = n + m
    BY <1>1, <2>2, <2>3, <2>4, ConcatProperties DEF StatementInv
  <2>6. PICK T, U : T = 1..n /\ U = 1..(n + m)
    OBVIOUS
  <2>7. T \subseteq U
    BY <2>6
  <2>8. [k \in 1..m |-> n + k] \in [1..m -> U]
    BY <2>6
  <2>9. [k \in 1..m |-> n + k] \in Seq(U)
    BY <2>8, SeqDef
  <2>10. Seq(T) \subseteq Seq(U)
    <3> SUFFICES ASSUME NEW q \in Seq(T) PROVE q \in Seq(U)
      OBVIOUS
    <3>1. Len(q) \in Nat /\ q \in [1..Len(q) -> T]
      BY LenProperties
    <3>2. q \in [1..Len(q) -> U]
      BY <2>7, <3>1
    <3> QED BY <3>1, <3>2, SeqDef
  <2>11. unchecked \in [Importers -> Seq(T)] /\ breaks \subseteq T
    BY <1>2, <2>6
  <2>12. unchecked' \in [Importers -> Seq(U)] /\ breaks' \subseteq U
    BY <2>4, <2>7, <2>9, <2>10, <2>11
  <2> QED BY <2>5, <2>6, <2>12 DEF StatementTyped
<1>4. \A c \in Importers : [unchecked EXCEPT ![c] = <<>>] \in [Importers -> Seq(1..n)]
  <2>1. <<>> \in Seq(1..n)
    BY EmptySeq
  <2> QED BY <1>2, <2>1
<1>5. ASSUME NEW c \in Importers, VerifyContinuity(c)
      PROVE  StatementTyped'
  <2>1. Breaks(unchecked[c]) \subseteq Range(unchecked[c])
    BY DEF Breaks
  <2>2. Range(unchecked[c]) \subseteq 1..n
    <3>1. PICK q \in Seq(1..n) : q = unchecked[c]
      BY <1>2
    <3>2. q \in [1..Len(q) -> 1..n]
      BY <3>1, LenProperties
    <3> QED BY <3>1, <3>2 DEF Range
  <2>3. breaks' \subseteq 1..n
    BY <1>2, <1>5, <2>1, <2>2 DEF VerifyContinuity
  <2>4. unchecked' \in [Importers -> Seq(1..n)] /\ Len(transactions') = n
    BY <1>1, <1>4, <1>5 DEF VerifyContinuity
  <2> QED BY <2>3, <2>4 DEF StatementTyped
<1>6. ASSUME NEW c \in Importers, CrashImport(c)
      PROVE  StatementTyped'
  <2>1. unchecked' \in [Importers -> Seq(1..n)] /\ Len(transactions') = n /\ breaks' = breaks
    BY <1>1, <1>4, <1>6 DEF CrashImport
  <2> QED BY <1>2, <2>1 DEF StatementTyped
<1>7. ASSUME NEW account \in BankAccounts, UpdateBankAccount(account)
      PROVE  StatementTyped'
  BY <1>7 DEF UpdateBankAccount, StatementTyped
<1>8. CASE UNCHANGED bankImportVars
  BY <1>8 DEF bankImportVars, StatementTyped
<1> QED BY <1>3, <1>5, <1>6, <1>7, <1>8 DEF BankImportNext

(* Rows name movements, waiting rows and exceptions name rows.              *)
THEOREM BankImportTypes == BankImportSpec => []BankImportTypeOK
<1>1. BankImportInit => StatementTyped
  <2> SUFFICES ASSUME BankImportInit PROVE StatementTyped
    OBVIOUS
  <2>1. <<>> \in Seq(1..Len(transactions))
    BY EmptySeq
  <2> QED BY <2>1 DEF BankImportInit, StatementTyped
<1>2. /\ StatementInv /\ StatementTyped /\ [BankImportNext]_bankImportVars
      => StatementTyped'
  BY BankImportAssumption, StatementTypedStep
<1>3. StatementInv /\ StatementTyped => BankImportTypeOK
  <2> SUFFICES ASSUME StatementInv, StatementTyped PROVE BankImportTypeOK
    OBVIOUS
  <2>1. PICK n \in Nat : n = Len(transactions) /\ DOMAIN transactions = 1..n
    BY RowsTyped DEF StatementInv
  <2>2. \A i \in 1..n : transactions[i].move \in Moves
    <3>1. \A i \in 1..n : transactions[i] \in ImportedRows
      BY <2>1, RowsTyped DEF StatementInv
    <3> QED BY <3>1 DEF ImportedRows
  <2>3. ASSUME NEW c \in Importers PROVE Range(unchecked[c]) \subseteq 1..n
    <3>1. PICK q \in Seq(1..n) : q = unchecked[c]
      BY <2>1 DEF StatementTyped
    <3>2. q \in [1..Len(q) -> 1..n]
      BY <3>1, LenProperties
    <3> QED BY <3>1, <3>2 DEF Range
  <2> QED
    BY <2>1, <2>2, <2>3 DEF StatementInv, StatementTyped, BankImportTypeOK
<1> QED BY <1>1, <1>2, <1>3, StatementInvariant, PTL DEF BankImportSpec

-----------------------------------------------------------------------------
(* The office as a whole: what each component keeps, they keep side by side.  *)

(* A behaviour of the office as a whole is, seen through the variables of  *)
(* one component, a behaviour of that component: its own step, or none.     *)
LEMMA OfficeRunsItsParts ==
  OfficeSpec =>
    /\ BankSpec
    /\ BankImportSpec
    /\ PayablesSpec
    /\ ReceivablesSpec
    /\ LateInterestSpec
    /\ DraftsSpec
    /\ IdempotencySpec
    /\ BatchesSpec
    /\ SchedulesSpec
<1>1. OfficeSpec => BankSpec
  <2>1. OfficeInit => BankInit
    BY DEF OfficeInit
  <2>2. [OfficeNext]_officeVars => [BankNext]_vars
    BY DEF OfficeNext, officeVars
  <2> QED BY <2>1, <2>2, PTL DEF OfficeSpec, BankSpec
<1>2. OfficeSpec => BankImportSpec
  <2>1. OfficeInit => BankImportInit
    BY DEF OfficeInit
  <2>2. [OfficeNext]_officeVars => [BankImportNext]_bankImportVars
    BY DEF OfficeNext, officeVars
  <2> QED BY <2>1, <2>2, PTL DEF OfficeSpec, BankImportSpec
<1>3. OfficeSpec => PayablesSpec
  <2>1. OfficeInit => PayablesInit
    BY DEF OfficeInit
  <2>2. [OfficeNext]_officeVars => [PayablesNext]_payablesVars
    BY DEF OfficeNext, officeVars
  <2> QED BY <2>1, <2>2, PTL DEF OfficeSpec, PayablesSpec
<1>4. OfficeSpec => ReceivablesSpec
  <2>1. OfficeInit => ReceivablesInit
    BY DEF OfficeInit
  <2>2. [OfficeNext]_officeVars => [ReceivablesNext]_receivablesVars
    BY DEF OfficeNext, officeVars
  <2> QED BY <2>1, <2>2, PTL DEF OfficeSpec, ReceivablesSpec
<1>5. OfficeSpec => LateInterestSpec
  <2>1. OfficeInit => LateInterestInit
    BY DEF OfficeInit
  <2>2. [OfficeNext]_officeVars => [LateInterestNext]_lateInterestVars
    BY DEF OfficeNext, officeVars
  <2> QED BY <2>1, <2>2, PTL DEF OfficeSpec, LateInterestSpec
<1>6. OfficeSpec => DraftsSpec
  <2>1. OfficeInit => DraftsInit
    BY DEF OfficeInit
  <2>2. [OfficeNext]_officeVars => [DraftsNext]_draftsVars
    BY DEF OfficeNext, officeVars
  <2> QED BY <2>1, <2>2, PTL DEF OfficeSpec, DraftsSpec
<1>7. OfficeSpec => IdempotencySpec
  <2>1. OfficeInit => IdempotencyInit
    BY DEF OfficeInit
  <2>2. [OfficeNext]_officeVars => [IdempotencyNext]_idempotencyVars
    BY DEF OfficeNext, officeVars
  <2> QED BY <2>1, <2>2, PTL DEF OfficeSpec, IdempotencySpec
<1>8. OfficeSpec => BatchesSpec
  <2>1. OfficeInit => BatchesInit
    BY DEF OfficeInit
  <2>2. [OfficeNext]_officeVars => [BatchesNext]_batchesVars
    BY DEF OfficeNext, officeVars
  <2> QED BY <2>1, <2>2, PTL DEF OfficeSpec, BatchesSpec
<1>9. OfficeSpec => SchedulesSpec
  <2>1. OfficeInit => SchedulesInit
    BY DEF OfficeInit
  <2>2. [OfficeNext]_officeVars => [SchedulesNext]_schedulesVars
    BY DEF OfficeNext, officeVars
  <2> QED BY <2>1, <2>2, PTL DEF OfficeSpec, SchedulesSpec
<1> QED BY <1>1, <1>2, <1>3, <1>4, <1>5, <1>6, <1>7, <1>8, <1>9

(* Every component's tables have their types in every state of the whole.   *)
THEOREM OfficeTypes == OfficeSpec => []OfficeTypeOK
<1>1. /\ BankTypeOK
      /\ BankImportTypeOK
      /\ PayablesTypeOK
      /\ ReceivablesTypeOK
      /\ LateInterestTypeOK
      /\ DraftsTypeOK
      /\ IdempotencyTypeOK
      /\ BatchesTypeOK
      /\ SchedulesTypeOK
      => OfficeTypeOK
  BY DEF OfficeTypeOK
<1> QED
  BY <1>1, OfficeRunsItsParts, BankTypes, BankImportTypes, PayablesTypes,
     ReceivablesTypes, InterestTypes, DraftsTypes, IdempotencyTypes,
     BatchesTypes, SchedulesTypes, PTL

(* What the components promise of the books, every one of them in every     *)
(* behaviour of the office: the bank's evidence, its queue and its stored   *)
(* statement, what a line pays, what a claim is relieved of, what a draft,  *)
(* a request and a batch post, and what the schedules say of the ledger.    *)
THEOREM OfficeKeepsItsBooks ==
  OfficeSpec =>
    /\ []EvidenceSound
    /\ QueueLosesNothing
    /\ []StoredIsTheFullestExport
    /\ []LinePaysOnce
    /\ []ReliefStands
    /\ []ReviewedIsPosted
    /\ []EffectOnce
    /\ BatchBooksWhatWasReviewed
    /\ []RegisterIsTheLedger
<1> QED
  BY OfficeRunsItsParts, EvidenceStaysSound, QueueIsKept,
     OverlapsAddNothing, LinesPayOnce, ReliefIsExact, PostedAsReviewed,
     KeysTakeEffectOnce, BatchesBookWhatWasReviewed, RegistersAgree, PTL
=============================================================================
