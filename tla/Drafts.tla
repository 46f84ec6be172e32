------------------------------- MODULE Drafts -------------------------------
(***************************************************************************)
(* Accounting drafts (src/core/accounting-drafts.ts): an append-only,      *)
(* hash-chained register of what authors write, submit, and reviewers      *)
(* reject or post.  Every operation is one BEGIN IMMEDIATE transaction and *)
(* names by its hash the event its caller means, which may be any event    *)
(* the caller ever saw.                                                    *)
(*                                                                         *)
(* The hash of an event is modelled by its place in the register: the      *)
(* chain makes both unique.                                                *)
(***************************************************************************)
EXTENDS Integers, Sequences

CONSTANTS
  DraftIds,       \* the ids callers choose
  Actors,         \* authors, submitters and reviewers
  DraftPayloads,  \* journal entries somebody may want to post
  MaxDraftEvents  \* bound on the register

ASSUME DraftsAssumption == MaxDraftEvents \in Nat

VARIABLES
  register,  \* accounting_draft_events
  postable,  \* the payloads validateJournalEntry accepts at present
  journals   \* what was posted, with the hash the reviewer named

draftsVars == <<register, postable, journals>>

DraftEventTypes == {"created", "revised", "submitted", "rejected", "approved_posted"}

DraftEvents(d) == {i \in DOMAIN register : register[i].draft = d}

(* currentEvent; 0 when the draft does not exist.                           *)
Current(d) ==
  IF DraftEvents(d) = {} THEN 0
  ELSE CHOOSE i \in DraftEvents(d) : \A j \in DraftEvents(d) : j <= i

AppendDraftEvent(a, d, type, version, payload) ==
  /\ Len(register) < MaxDraftEvents
  /\ register' = Append(register, [draft |-> d, type |-> type,
                                   version |-> version, payload |-> payload,
                                   actor |-> a])

(* createAccountingDraft                                                    *)
CreateDraft(a, d, payload) ==
  /\ Current(d) = 0
  /\ payload \in postable
  /\ AppendDraftEvent(a, d, "created", 1, payload)
  /\ UNCHANGED <<postable, journals>>

(* A mutant of ExactCurrent: the draft's current event is taken as meant.   *)
SomeCurrent(d, named, types) ==
  Current(d) # 0 /\ register[Current(d)].type \in types

(* The event the caller names is the current one, and of such a type.       *)
ExactCurrent(d, named, types) ==
  /\ register[named].type \in types
  /\ named = Current(d)

(* reviseAccountingDraft                                                    *)
ReviseDraft(a, d, named, payload) ==
  /\ ExactCurrent(d, named, {"created", "revised", "rejected"})
  /\ payload \in postable
  /\ AppendDraftEvent(a, d, "revised", register[Current(d)].version + 1, payload)
  /\ UNCHANGED <<postable, journals>>

(* submitAccountingDraft; the payload is validated again.                   *)
SubmitDraft(a, d, named) ==
  LET current == register[Current(d)]
  IN /\ ExactCurrent(d, named, {"created", "revised"})
     /\ current.payload \in postable
     /\ AppendDraftEvent(a, d, "submitted", current.version, current.payload)
     /\ UNCHANGED <<postable, journals>>

VersionAuthor(d) ==
  LET written == {i \in DraftEvents(d) :
                    /\ register[i].type \in {"created", "revised"}
                    /\ register[i].version = register[Current(d)].version}
  IN {register[i].actor : i \in written}

(* A mutant of IndependentReviewer: only the submitter is excluded.         *)
IndependentOfSubmitter(a, d) == a # register[Current(d)].actor

(* assertIndependentReviewer                                                *)
IndependentReviewer(a, d) ==
  /\ a # register[Current(d)].actor
  /\ a \notin VersionAuthor(d)

(* rejectAccountingDraft                                                    *)
RejectDraft(a, d, named) ==
  LET current == register[Current(d)]
  IN /\ ExactCurrent(d, named, {"submitted"})
     /\ IndependentReviewer(a, d)
     /\ AppendDraftEvent(a, d, "rejected", current.version, current.payload)
     /\ UNCHANGED <<postable, journals>>

(* approveAndPostAccountingDraft: the entry and the event commit together.  *)
(* Asked again after the fact, it answers with the entry and writes nothing.*)
ApproveAndPost(a, d, named) ==
  LET current == register[Current(d)]
  IN /\ ExactCurrent(d, named, {"submitted"})
     /\ IndependentReviewer(a, d)
     /\ current.payload \in postable
     /\ AppendDraftEvent(a, d, "approved_posted", current.version, current.payload)
     /\ journals' = Append(journals, [draft |-> d, payload |-> current.payload,
                                      named |-> named, by |-> a])
     /\ UNCHANGED postable

(* A period is closed or an account disabled between the edits.             *)
PostableChanges(payload) ==
  /\ payload \in postable
  /\ postable' = postable \ {payload}
  /\ UNCHANGED <<register, journals>>

-----------------------------------------------------------------------------

DraftsInit ==
  /\ register = <<>>
  /\ postable = DraftPayloads
  /\ journals = <<>>

DraftsNext ==
  \/ \E a \in Actors, d \in DraftIds :
       \/ \E payload \in DraftPayloads : CreateDraft(a, d, payload)
       \/ \E named \in DraftEvents(d) :
            \/ \E payload \in DraftPayloads : ReviseDraft(a, d, named, payload)
            \/ SubmitDraft(a, d, named)
            \/ RejectDraft(a, d, named)
            \/ ApproveAndPost(a, d, named)
  \/ \E payload \in DraftPayloads : PostableChanges(payload)

DraftsSpec == DraftsInit /\ [][DraftsNext]_draftsVars

-----------------------------------------------------------------------------
(* Properties.                                                              *)

DraftsTypeOK ==
  /\ register \in Seq([draft : DraftIds, type : DraftEventTypes, version : Nat \ {0},
                       payload : DraftPayloads, actor : Actors])
  /\ Len(register) <= MaxDraftEvents
  /\ postable \subseteq DraftPayloads
  /\ journals \in Seq([draft : DraftIds, payload : DraftPayloads,
                       named : 1..MaxDraftEvents, by : Actors])

(* What reaches the journal from a draft is exactly what an independent     *)
(* person saw submitted: the entry has the payload of the submitted event   *)
(* its reviewer named, that event and the version it submits are of other   *)
(* people, nothing was revised since, and a draft is posted once.           *)
ReviewedIsPosted ==
  \A n \in DOMAIN journals :
    LET j == journals[n]
        e == register[j.named]
    IN /\ e.draft = j.draft /\ e.type = "submitted" /\ e.payload = j.payload
       /\ e.actor # j.by
       /\ \A i \in DraftEvents(j.draft) :
            /\ register[i].type \in {"created", "revised"} =>
                 i < j.named /\ register[i].version <= e.version
            /\ register[i].type \in {"created", "revised"}
                 /\ register[i].version = e.version =>
                   register[i].actor # j.by /\ register[i].payload = j.payload
       /\ \A m \in DOMAIN journals : journals[m].draft = j.draft => m = n

=============================================================================
