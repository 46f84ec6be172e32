--------------------------- MODULE WorkspaceAccess ---------------------------
(***************************************************************************)
(* Who may use a hosted workspace: the bootstrap of its first owner        *)
(* (src/core/workspace-bootstrap.ts), invitations (workspace-invitations)  *)
(* and the access of members (workspace-access), three writers of the same *)
(* append-only tables of the control database.                             *)
(*                                                                         *)
(* The identity provider is another party: operators of the bootstrap look *)
(* an identity up, create it and send mail between their transactions, may *)
(* do so at the same time, and may stop anywhere.  An identity stands for  *)
(* its email address.  Company roles are "owner" and, for the three that   *)
(* behave alike here, "reader".                                            *)
(***************************************************************************)
EXTENDS Integers, FiniteSets

CONSTANTS
  Users,        \* identities
  Companies,    \* registered companies
  Operators,    \* processes that run the bootstrap
  Invitations,  \* invitation ids
  NoUser        \* no identity yet

ASSUME WorkspaceAccessAssumption == NoUser \notin Users /\ Companies # {}

VARIABLES
  identities,  \* Better Auth users
  secured,     \* those with a verified address and TOTP
  access,      \* latest rm_workspace_user_access_events of each user
  member,      \* latest rm_company_membership_events of each user and company
  archived,    \* companies archived in the manifest
  boot,        \* rm_workspace_bootstrap_events, reduced to the reservation
  operator,    \* where each bootstrap operator is
  invitation   \* latest rm_workspace_invitation_events of each invitation

workspaceAccessVars ==
  <<identities, secured, access, member, archived, boot, operator, invitation>>

-----------------------------------------------------------------------------
(* Effective owners.                                                        *)

WorkspaceOwners == {u \in Users : access[u] = "workspace_owner" /\ u \in secured}

CompanyOwners(c) == {u \in WorkspaceOwners : member[u][c] = "owner"}

(* assertCompanyOwnerCanBeRemoved                                           *)
CompanyKeepsOwner(u, c) == CompanyOwners(c) \ {u} # {}

(* A mutant of WorkspaceKeepsOwner: the companies are not asked.            *)
WorkspaceKeepsAnyOwner(u) == WorkspaceOwners \ {u} # {}

(* assertWorkspaceOwnerCanBeRemoved                                         *)
WorkspaceKeepsOwner(u) ==
  /\ WorkspaceOwners \ {u} # {}
  /\ \A c \in Companies : member[u][c] = "owner" => CompanyKeepsOwner(u, c)

-----------------------------------------------------------------------------
(* Bootstrap.                                                               *)

Idle == [at |-> "idle", email |-> NoUser, found |-> NoUser]

Stop(o) == operator' = [operator EXCEPT ![o] = Idle]

(* A mutant of Reserve: each address has a reservation of its own.          *)
ReserveEach(o, u, c) ==
  /\ operator[o] = Idle
  /\ c \notin archived
  /\ boot' = IF boot.email = u THEN boot
             ELSE [phase |-> "reserved", email |-> u, company |-> c, userId |-> NoUser]
  /\ operator' = [operator EXCEPT ![o] =
       [at |-> IF boot'.userId = NoUser THEN "look" ELSE "mail", email |-> u, found |-> NoUser]]
  /\ UNCHANGED <<identities, secured, access, member, archived, invitation>>

(* reserveFirstWorkspaceBootstrap: the one reservation is made while there  *)
(* is no identity at all, and resumed only for its own address and company. *)
Reserve(o, u, c) ==
  /\ operator[o] = Idle
  /\ c \notin archived
  /\ \/ /\ boot.phase = "none" /\ identities = {}
        /\ boot' = [phase |-> "reserved", email |-> u, company |-> c, userId |-> NoUser]
     \/ /\ boot.phase # "none" /\ boot.email = u /\ boot.company = c
        /\ UNCHANGED boot
  /\ boot.phase # "access_completed"
  /\ operator' = [operator EXCEPT ![o] =
       [at |-> IF boot.userId = NoUser THEN "look" ELSE "mail", email |-> u, found |-> NoUser]]
  /\ UNCHANGED <<identities, secured, access, member, archived, invitation>>

(* findIdentityByCanonicalEmail                                             *)
LookUp(o) ==
  /\ operator[o].at = "look"
  /\ operator' = [operator EXCEPT ![o] =
       IF @.email \in identities THEN [@ EXCEPT !.at = "note", !.found = operator[o].email]
       ELSE [@ EXCEPT !.at = "create"]]
  /\ UNCHANGED <<identities, secured, access, member, archived, boot, invitation>>

(* createFirstIdentity: the address is unique, and an identity that another *)
(* operator made meanwhile is the answer; it may also fail after creating.  *)
CreateFirst(o, ok) ==
  /\ operator[o].at = "create"
  /\ identities' = identities \union {operator[o].email}
  /\ IF ok THEN operator' = [operator EXCEPT ![o] =
                               [@ EXCEPT !.at = "note", !.found = operator[o].email]]
           ELSE Stop(o)
  /\ UNCHANGED <<secured, access, member, archived, boot, invitation>>

(* The event identity_created, by the first operator to get here.           *)
NoteIdentity(o) ==
  /\ operator[o].at = "note"
  /\ boot' = IF boot.userId # NoUser THEN boot
             ELSE [boot EXCEPT !.phase = "identity_created", !.userId = operator[o].found]
  /\ operator' = [operator EXCEPT ![o].at = "mail"]
  /\ UNCHANGED <<identities, secured, access, member, archived, invitation>>

(* resendVerification succeeded, and the event mail_confirmed.              *)
ConfirmMail(o) ==
  /\ operator[o].at = "mail"
  /\ boot' = IF boot.phase = "identity_created" THEN [boot EXCEPT !.phase = "mail_confirmed"]
             ELSE boot
  /\ operator' = [operator EXCEPT ![o].at = "complete"]
  /\ UNCHANGED <<identities, secured, access, member, archived, invitation>>

(* completeFirstWorkspaceBootstrap                                          *)
CompleteBootstrap(o) ==
  LET u == boot.userId
      c == boot.company
  IN /\ operator[o].at = "complete"
     /\ boot.phase = "mail_confirmed"
     /\ c \notin archived
     /\ access[u] \in {"none", "workspace_owner"}
     /\ member[u][c] \in {"none", "owner"}
     /\ access' = [access EXCEPT ![u] = "workspace_owner"]
     /\ member' = [member EXCEPT ![u][c] = "owner"]
     /\ boot' = [boot EXCEPT !.phase = "access_completed"]
     /\ Stop(o)
     /\ UNCHANGED <<identities, secured, archived, invitation>>

(* A provider's error, a refusal of the last step, or the end of the        *)
(* process.                                                                 *)
GiveUp(o) ==
  /\ operator[o] # Idle
  /\ Stop(o)
  /\ UNCHANGED <<identities, secured, access, member, archived, boot, invitation>>

-----------------------------------------------------------------------------
(* Members.  The router lets only owners call what follows; its check comes *)
(* before the body is awaited, so all that is certain at the time of the    *)
(* call is that there has been an owner.                                    *)

Administered == boot.phase = "access_completed"

(* activateWorkspaceUser                                                    *)
Activate(u, r) ==
  /\ Administered /\ u \in identities
  /\ access[u] # r
  /\ access[u] = "workspace_owner" => WorkspaceKeepsOwner(u)
  /\ access' = [access EXCEPT ![u] = r]
  /\ UNCHANGED <<identities, secured, member, archived, boot, operator, invitation>>

(* disableWorkspaceUser                                                     *)
Disable(u) ==
  /\ Administered
  /\ access[u] \in {"member", "workspace_owner"}
  /\ access[u] = "workspace_owner" => WorkspaceKeepsOwner(u)
  /\ access' = [access EXCEPT ![u] = "disabled"]
  /\ UNCHANGED <<identities, secured, member, archived, boot, operator, invitation>>

(* grantCompanyMembership                                                   *)
Grant(u, c, r) ==
  /\ Administered /\ u \in identities
  /\ c \notin archived
  /\ member[u][c] # r
  /\ member[u][c] = "owner" => CompanyKeepsOwner(u, c)
  /\ member' = [member EXCEPT ![u][c] = r]
  /\ UNCHANGED <<identities, secured, access, archived, boot, operator, invitation>>

(* revokeCompanyMembership                                                  *)
Revoke(u, c) ==
  /\ Administered
  /\ member[u][c] \in {"owner", "reader"}
  /\ member[u][c] = "owner" => CompanyKeepsOwner(u, c)
  /\ member' = [member EXCEPT ![u][c] = "revoked"]
  /\ UNCHANGED <<identities, secured, access, archived, boot, operator, invitation>>

-----------------------------------------------------------------------------
(* Invitations.                                                             *)

(* issueWorkspaceInvitation                                                 *)
Issue(i, u, wr, c, cr) ==
  /\ Administered
  /\ invitation[i].status = "none"
  /\ c \notin archived
  /\ invitation' = [invitation EXCEPT ![i] =
       [status |-> "issued", email |-> u, role |-> wr, company |-> c,
        companyRole |-> cr, expired |-> FALSE]]
  /\ UNCHANGED <<identities, secured, access, member, archived, boot, operator>>

(* recordWorkspaceInvitationDelivery, after the mail was sent or not.       *)
RecordDelivery(i, s) ==
  /\ invitation[i].status = "issued"
  /\ s \in {"delivery_confirmed", "delivery_failed"}
  /\ invitation' = [invitation EXCEPT ![i].status = s]
  /\ UNCHANGED <<identities, secured, access, member, archived, boot, operator>>

(* cancelWorkspaceInvitation                                                *)
Cancel(i) ==
  /\ invitation[i].status \in {"issued", "delivery_confirmed"}
  /\ invitation' = [invitation EXCEPT ![i].status = "cancelled"]
  /\ UNCHANGED <<identities, secured, access, member, archived, boot, operator>>

(* WORKSPACE_INVITATION_TTL_MS                                              *)
Expire(i) ==
  /\ invitation[i].status # "none" /\ ~invitation[i].expired
  /\ invitation' = [invitation EXCEPT ![i].expired = TRUE]
  /\ UNCHANGED <<identities, secured, access, member, archived, boot, operator>>

(* readClaimableWorkspaceInvitation                                         *)
Claimable(i) == invitation[i].status = "delivery_confirmed" /\ ~invitation[i].expired

(* The claim creates the identity first ...                                 *)
Claim(i) ==
  /\ Claimable(i)
  /\ invitation[i].email \notin identities
  /\ identities' = identities \union {invitation[i].email}
  /\ UNCHANGED <<secured, access, member, archived, boot, operator, invitation>>

(* A mutant of Accept: the invitation's roles replace the user's.           *)
AcceptOverwrites(i) ==
  LET n == invitation[i]
      u == n.email
      c == n.company
  IN /\ Claimable(i) /\ u \in identities
     /\ c \notin archived
     /\ access' = [access EXCEPT ![u] = n.role]
     /\ member' = [member EXCEPT ![u][c] = n.companyRole]
     /\ invitation' = [invitation EXCEPT ![i].status = "accepted"]
     /\ UNCHANGED <<identities, secured, archived, boot, operator>>

(* ... and acceptWorkspaceInvitation raises its access, never lowers it.    *)
Accept(i) ==
  LET n == invitation[i]
      u == n.email
      c == n.company
  IN /\ Claimable(i) /\ u \in identities
     /\ c \notin archived
     /\ member[u][c] \in {"owner", "reader"} => member[u][c] = n.companyRole
     /\ access' = [access EXCEPT ![u] =
          IF @ \in {"none", "disabled"} \/ (@ = "member" /\ n.role = "workspace_owner")
          THEN n.role ELSE @]
     /\ member' = [member EXCEPT ![u][c] = n.companyRole]
     /\ invitation' = [invitation EXCEPT ![i].status = "accepted"]
     /\ UNCHANGED <<identities, secured, archived, boot, operator>>

-----------------------------------------------------------------------------
(* Outside this code: users verify their address and enrol in TOTP, or give *)
(* TOTP up; companies are archived and restored.                            *)

SetSecured(u) ==
  /\ u \in identities
  /\ secured' = IF u \in secured THEN secured \ {u} ELSE secured \union {u}
  /\ UNCHANGED <<identities, access, member, archived, boot, operator, invitation>>

(* setWorkspaceCompanyArchived                                              *)
SetArchived(c) ==
  /\ archived' = IF c \in archived THEN archived \ {c} ELSE archived \union {c}
  /\ UNCHANGED <<identities, secured, access, member, boot, operator, invitation>>

-----------------------------------------------------------------------------

NoInvitation ==
  [status |-> "none", email |-> NoUser, role |-> "member", company |-> NoUser,
   companyRole |-> "reader", expired |-> FALSE]

WorkspaceAccessInit ==
  /\ identities = {} /\ secured = {} /\ archived = {}
  /\ access = [u \in Users |-> "none"]
  /\ member = [u \in Users |-> [c \in Companies |-> "none"]]
  /\ boot = [phase |-> "none", email |-> NoUser, company |-> NoUser, userId |-> NoUser]
  /\ operator = [o \in Operators |-> Idle]
  /\ invitation = [i \in Invitations |-> NoInvitation]

BootstrapNext ==
  \E o \in Operators :
    \/ \E u \in Users, c \in Companies : Reserve(o, u, c)
    \/ LookUp(o)
    \/ \E ok \in BOOLEAN : CreateFirst(o, ok)
    \/ NoteIdentity(o)
    \/ ConfirmMail(o)
    \/ CompleteBootstrap(o)
    \/ GiveUp(o)

MembersNext ==
  \E u \in Users :
    \/ \E r \in {"workspace_owner", "member"} : Activate(u, r)
    \/ Disable(u)
    \/ \E c \in Companies :
         \/ \E r \in {"owner", "reader"} : Grant(u, c, r)
         \/ Revoke(u, c)

InvitationsNext ==
  \E i \in Invitations :
    \/ \E u \in Users, wr \in {"workspace_owner", "member"}, c \in Companies,
          cr \in {"owner", "reader"} : Issue(i, u, wr, c, cr)
    \/ \E s \in {"delivery_confirmed", "delivery_failed"} : RecordDelivery(i, s)
    \/ Cancel(i)
    \/ Expire(i)
    \/ Claim(i)
    \/ Accept(i)

WorkspaceAccessNext ==
  \/ BootstrapNext
  \/ MembersNext
  \/ InvitationsNext
  \/ \E u \in Users : SetSecured(u)
  \/ \E c \in Companies : SetArchived(c)

WorkspaceAccessSpec == WorkspaceAccessInit /\ [][WorkspaceAccessNext]_workspaceAccessVars

-----------------------------------------------------------------------------
(* Properties.                                                              *)

WorkspaceAccessTypeOK ==
  /\ identities \subseteq Users /\ secured \subseteq identities
  /\ archived \subseteq Companies
  /\ access \in [Users -> {"none", "disabled", "member", "workspace_owner"}]
  /\ member \in [Users -> [Companies -> {"none", "revoked", "owner", "reader"}]]
  /\ \A u \in Users : access[u] # "none" => u \in identities
  /\ \A u \in Users, c \in Companies : member[u][c] # "none" => u \in identities
  /\ boot.phase \in {"none", "reserved", "identity_created", "mail_confirmed", "access_completed"}
  /\ boot.email \in Users \union {NoUser} /\ boot.userId \in Users \union {NoUser}
  /\ boot.company \in Companies \union {NoUser}
  /\ \A o \in Operators :
       operator[o].at \in {"idle", "look", "create", "note", "mail", "complete"}
  /\ \A i \in Invitations :
       invitation[i].status \in {"none", "issued", "delivery_confirmed",
                                 "delivery_failed", "cancelled", "accepted"}

(* Until the bootstrap has completed nobody else exists in the workspace,   *)
(* whoever ran it, how often it was tried and wherever it stopped; what it  *)
(* remembers is the identity of the address that reserved it, and nobody    *)
(* has access to anything before it ends.                                   *)
OneFirstIdentity ==
  boot.phase # "access_completed" =>
    /\ identities \subseteq {boot.email}
    /\ boot.userId \in identities \union {NoUser}
    /\ \A u \in Users : access[u] = "none" /\ \A c \in Companies : member[u][c] = "none"

(* No call of this code takes the last effective owner from the workspace   *)
(* or from a company, in whatever order activations, grants, revocations    *)
(* and accepted invitations are applied; only a user who gives up TOTP can. *)
OwnersRemain ==
  [][secured' = secured =>
       /\ WorkspaceOwners # {} => WorkspaceOwners' # {}
       /\ \A c \in Companies : CompanyOwners(c) # {} => CompanyOwners(c)' # {}
    ]_workspaceAccessVars

=============================================================================
