--------------------------- MODULE PublicEInvoice ---------------------------
(***************************************************************************)
(* The transmission of a public invoice through an access point            *)
(* (src/core/public-einvoice.ts) with the transport that drives Digisense  *)
(* (src/core/efaktura/digisense-transmitter.ts).  A submission is an       *)
(* invoice together with the access point's identity: its idempotency key. *)
(* The document is handed over between two database writes, and what       *)
(* became of it is known only from what the provider answers.              *)
(* Left out: the invoice XML and its validation, the envelope, the audit   *)
(* log.                                                                    *)
(***************************************************************************)
EXTENDS Naturals, Sequences, FiniteSets

CONSTANTS
  Submissions,  \* idempotency keys
  Senders,      \* calls of transmitPublicEInvoicePeppol
  Watchers,     \* calls of resumePublicEInvoicePeppolSubmission
  NoKey,        \* a call that is not on its way
  MaxDelivery   \* bound on the events of one submission

ASSUME PublicEInvoiceAssumption ==
  /\ NoKey \notin Submissions /\ MaxDelivery \in Nat

Terminal == {"delivered", "unable-to-deliver"}

VARIABLES
  submissions,  \* peppol_submissions.status, or "none"
  deliveryLog,  \* peppol_submission_events: <<[type, status], ...>>
  sending,      \* per sender: the key it reserved, and how far its POST is
  watching,     \* per watcher: its key and the status it was told
  remote,       \* the provider's document for each key: its status, or "none"
  posts         \* (history) documents the provider took for each key

publicEInvoiceVars == <<submissions, deliveryLog, sending, watching, remote, posts>>

Events(k) == {deliveryLog[k][i] : i \in DOMAIN deliveryLog[k]}

Has(k, type) == \E e \in Events(k) : e.type = type

(* effectiveAcknowledgement: a delivered event, or a row of that status.    *)
Acknowledged(k) == Has(k, "delivered") \/ submissions[k] = "acknowledged"

(* latestSubmissionEvent.                                                   *)
LatestIs(k, type) ==
  deliveryLog[k] # <<>> /\ deliveryLog[k][Len(deliveryLog[k])].type = type

RoomFor(k) == Len(deliveryLog[k]) < MaxDelivery

(* recordSubmissionEvent.                                                   *)
RecordEvent(k, type, status) ==
  deliveryLog' = [deliveryLog EXCEPT ![k] = Append(@, [type |-> type, status |-> status])]

Sending(p) == sending[p].key # NoKey

-----------------------------------------------------------------------------
(* submitPublicEInvoicePeppol: the first submission of the key inserts its  *)
(* row; a caller that has an acknowledgement of its own hands it in, and it *)
(* becomes the status of the row.                                           *)
Submit(k, acknowledged) ==
  /\ submissions[k] = "none" /\ RoomFor(k)
  /\ submissions' = [submissions EXCEPT ![k] =
       IF acknowledged THEN "acknowledged" ELSE "prepared"]
  /\ IF acknowledged THEN RecordEvent(k, "delivered", "delivered") ELSE UNCHANGED deliveryLog
  /\ UNCHANGED <<sending, watching, remote, posts>>

(* A mutant of MayDeliver: a reservation does not hold off the next one.    *)
MayDeliverReserved(k) ==
  /\ ~Acknowledged(k) /\ ~Has(k, "queued")
  /\ LatestIs(k, "delivery_failed") =>
       deliveryLog[k][Len(deliveryLog[k])].status = "pre-acceptance-failed"

(* A mutant of MayDeliver: any failed attempt may be repeated.              *)
MayDeliverFailed(k) ==
  /\ ~Acknowledged(k) /\ ~Has(k, "queued")
  /\ ~LatestIs(k, "delivery_reserved")

(* The reservation goes ahead only when nothing says the provider has the   *)
(* document: no acknowledgement, no remote id, no attempt under way, and    *)
(* the last failure, if any, came before any POST.                          *)
MayDeliver(k) ==
  /\ ~Acknowledged(k)
  /\ ~Has(k, "queued")
  /\ LatestIs(k, "delivery_failed") =>
       deliveryLog[k][Len(deliveryLog[k])].status = "pre-acceptance-failed"
  /\ ~LatestIs(k, "delivery_reserved")

(* The reservation of transmitPublicEInvoicePeppol, in one immediate        *)
(* transaction: the row is inserted unless it exists.                       *)
ReserveAttempt(p, k) ==
  /\ ~Sending(p) /\ RoomFor(k)
  /\ submissions' = [submissions EXCEPT ![k] = IF @ = "none" THEN "prepared" ELSE @]
  /\ MayDeliver(k)
  /\ RecordEvent(k, "delivery_reserved", "none")
  /\ sending' = [sending EXCEPT ![p] = [key |-> k, post |-> "before"]]
  /\ UNCHANGED <<watching, remote, posts>>

(* The transport validates the document and stops before the POST.          *)
FailBeforePost(p) ==
  /\ Sending(p) /\ sending[p].post = "before"
  /\ sending' = [sending EXCEPT ![p].post = "refused"]
  /\ UNCHANGED <<submissions, deliveryLog, watching, remote, posts>>

(* The POST of the transport.  Whether the provider took the document and   *)
(* whether the sender was told are two questions.                           *)
Post(p, took, told) ==
  LET k == sending[p].key
  IN  /\ Sending(p) /\ sending[p].post = "before"
      /\ told => took
      /\ sending' = [sending EXCEPT ![p].post = IF told THEN "taken" ELSE "unknown"]
      /\ posts' = [posts EXCEPT ![k] = IF took THEN @ + 1 ELSE @]
      /\ remote' = [remote EXCEPT ![k] = IF took /\ @ = "none" THEN "queued" ELSE @]
      /\ UNCHANGED <<submissions, deliveryLog, watching>>

(* The provider delivers a queued document or gives it up.                  *)
Proceed(k, status) ==
  /\ remote[k] = "queued"
  /\ remote' = [remote EXCEPT ![k] = status]
  /\ UNCHANGED <<submissions, deliveryLog, sending, watching, posts>>

(* A mutant of OutcomeEvent: an unclear answer is taken for a failure.      *)
OutcomeEventHopeful(p) ==
  CASE sending[p].post = "taken" /\ remote[sending[p].key] = "delivered" ->
         [type |-> "delivered", status |-> "delivered"]
    [] sending[p].post = "taken" /\ remote[sending[p].key] # "delivered" ->
         [type |-> "queued", status |-> remote[sending[p].key]]
    [] OTHER -> [type |-> "delivery_failed", status |-> "pre-acceptance-failed"]

(* What the outcome is recorded as: a document that was taken is delivered  *)
(* or queued with the status polled last; an unclear answer blocks the key; *)
(* only a failure known to precede the POST leaves it free.                 *)
OutcomeEvent(p) ==
  CASE sending[p].post = "taken" /\ remote[sending[p].key] = "delivered" ->
         [type |-> "delivered", status |-> "delivered"]
    [] sending[p].post = "taken" /\ remote[sending[p].key] # "delivered" ->
         [type |-> "queued", status |-> remote[sending[p].key]]
    [] sending[p].post = "unknown" ->
         [type |-> "delivery_failed", status |-> "delivery-uncertain"]
    [] sending[p].post = "refused" ->
         [type |-> "delivery_failed", status |-> "pre-acceptance-failed"]

RecordOutcome(p) ==
  LET e == OutcomeEvent(p)
  IN  /\ Sending(p) /\ sending[p].post # "before"
      /\ RecordEvent(sending[p].key, e.type, e.status)
      /\ sending' = [sending EXCEPT ![p] = [key |-> NoKey, post |-> "before"]]
      /\ UNCHANGED <<submissions, watching, remote, posts>>

(* The process dies somewhere between the reservation and the outcome.      *)
CrashSending(p) ==
  /\ Sending(p)
  /\ sending' = [sending EXCEPT ![p] = [key |-> NoKey, post |-> "before"]]
  /\ UNCHANGED <<submissions, deliveryLog, watching, remote, posts>>

-----------------------------------------------------------------------------
(* resumePublicEInvoicePeppolSubmission up to its await: a queued document  *)
(* without acknowledgement is asked about.                                  *)
AskStatus(w, k) ==
  /\ watching[w].key = NoKey
  /\ submissions[k] = "prepared" /\ ~Acknowledged(k) /\ Has(k, "queued")
  /\ watching' = [watching EXCEPT ![w] = [key |-> k, told |-> remote[k]]]
  /\ UNCHANGED <<submissions, deliveryLog, sending, remote, posts>>

(* The status query fails, or the process dies before it writes.            *)
LoseStatus(w) ==
  /\ watching[w].key # NoKey
  /\ watching' = [watching EXCEPT ![w] = [key |-> NoKey, told |-> "none"]]
  /\ UNCHANGED <<submissions, deliveryLog, sending, remote, posts>>

(* The answer is appended, and with it, as a second write, the delivery it  *)
(* reports; `cut` is a process that dies between the two.                   *)
RecordStatus(w, cut) ==
  LET k == watching[w].key
      seen == [type |-> "status_observed", status |-> watching[w].told]
      done == [type |-> "delivered", status |-> "delivered"]
  IN  /\ k # NoKey /\ RoomFor(k)
      /\ cut => watching[w].told = "delivered"
      /\ deliveryLog' = [deliveryLog EXCEPT ![k] =
           IF watching[w].told = "delivered" /\ ~cut THEN @ \o <<seen, done>>
           ELSE Append(@, seen)]
      /\ watching' = [watching EXCEPT ![w] = [key |-> NoKey, told |-> "none"]]
      /\ UNCHANGED <<submissions, sending, remote, posts>>

-----------------------------------------------------------------------------
PublicEInvoiceInit ==
  /\ submissions = [k \in Submissions |-> "none"]
  /\ deliveryLog = [k \in Submissions |-> <<>>]
  /\ sending = [p \in Senders |-> [key |-> NoKey, post |-> "before"]]
  /\ watching = [w \in Watchers |-> [key |-> NoKey, told |-> "none"]]
  /\ remote = [k \in Submissions |-> "none"]
  /\ posts = [k \in Submissions |-> 0]

PublicEInvoiceNext ==
  \/ \E k \in Submissions, acknowledged \in BOOLEAN : Submit(k, acknowledged)
  \/ \E p \in Senders, k \in Submissions : ReserveAttempt(p, k)
  \/ \E p \in Senders : FailBeforePost(p) \/ RecordOutcome(p) \/ CrashSending(p)
  \/ \E p \in Senders, took, told \in BOOLEAN : Post(p, took, told)
  \/ \E k \in Submissions, status \in Terminal : Proceed(k, status)
  \/ \E w \in Watchers, k \in Submissions : AskStatus(w, k)
  \/ \E w \in Watchers : LoseStatus(w)
  \/ \E w \in Watchers, cut \in BOOLEAN : RecordStatus(w, cut)

PublicEInvoiceSpec == PublicEInvoiceInit /\ [][PublicEInvoiceNext]_publicEInvoiceVars

-----------------------------------------------------------------------------
(* A call between its reservation and its outcome still holds the last      *)
(* event of its key.                                                        *)
PublicEInvoiceTypeOK ==
  /\ submissions \in [Submissions -> {"none", "prepared", "acknowledged"}]
  /\ \A k \in Submissions : \A e \in Events(k) :
       e.type \in {"delivery_reserved", "delivery_failed", "queued", "status_observed",
                   "delivered"}
  /\ sending \in [Senders -> [key : Submissions \union {NoKey},
                              post : {"before", "refused", "taken", "unknown"}]]
  /\ watching \in [Watchers -> [key : Submissions \union {NoKey},
                                told : Terminal \union {"none", "queued"}]]
  /\ remote \in [Submissions -> Terminal \union {"none", "queued"}]
  /\ posts \in [Submissions -> Nat]
  /\ \A p \in Senders :
       Sending(p) => LatestIs(sending[p].key, "delivery_reserved")

(* The provider takes the document of a key at most once, whoever calls,    *)
(* however the answers are lost and wherever a call dies, and what the      *)
(* books call delivered on its word is delivered there (the reservation of  *)
(* transmitPublicEInvoicePeppol).                                           *)
TakenOnce ==
  \A k \in Submissions :
    /\ posts[k] =< 1
    /\ (submissions[k] = "prepared" /\ Acknowledged(k)) => remote[k] = "delivered"
=============================================================================
