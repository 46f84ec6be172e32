--------------------------- MODULE DataProtection ---------------------------
(***************************************************************************)
(* Access and erasure requests of data subjects (src/core/gdpr.ts).  A     *)
(* subject is named by a CVR number, by a name or by both; what rows are   *)
(* its own follows from the identities the books hold at that moment, and  *)
(* those change: customers are renamed, get a CVR number, share a name.    *)
(* Nothing is deleted: an erasure is a tombstone under pseudonymous keys,  *)
(* and every report redacts the rows for which it finds one.               *)
(* Left out: the journal and the audit log as sources, which fields are    *)
(* redacted, raw keys of earlier releases, the signed export.              *)
(***************************************************************************)
EXTENDS Naturals, FiniteSets

CONSTANTS
  Names, Cvrs,  \* what identifies a party
  Unknown,      \* no name or no CVR number is given
  Masters,      \* customers and vendors
  Papers,       \* documents, each with a sender and a recipient
  Texts,        \* bank transactions whose text mentions somebody
  Mentions,     \* the name or CVR number each text mentions
  MaxRequests   \* bound on the erasure requests

ASSUME DataProtectionAssumption ==
  /\ Unknown \notin Names \union Cvrs /\ Names \intersect Cvrs = {}
  /\ Masters \intersect (Papers \X {"sender", "recipient"}) = {}
  /\ Texts \intersect (Masters \union Papers \union (Papers \X {"sender", "recipient"})) = {}
  /\ Mentions \in [Texts -> Names \union Cvrs] /\ MaxRequests \in Nat

VARIABLES
  parties,    \* who is on record, by place: a master row, or a side of a document
  texts,      \* the bank texts imported
  retained,   \* documents and texts under bookkeeping retention
  erasures,   \* gdpr_erasures: <<key, row>>
  asked,      \* what the erasure under way has resolved of its subject
  erased,     \* (history) the places erased of what their request had resolved
  requests    \* erasure requests so far

dataProtectionVars == <<parties, texts, retained, erasures, asked, erased, requests>>

Identities == [name : Names, cvr : Cvrs \union {Unknown}]

Subjects ==
  {s \in [name : Names \union {Unknown}, cvr : Cvrs \union {Unknown}] :
     s.name # Unknown \/ s.cvr # Unknown}

Nobody == [name |-> Unknown, cvr |-> Unknown]

(* The places a party is recorded at, and the row each belongs to.          *)
Places == Masters \union (Papers \X {"sender", "recipient"})

RowOf(place) == IF place \in Masters THEN place ELSE place[1]

OnRecord(P) == {x \in Places : P[x] # Nobody}

-----------------------------------------------------------------------------
(* resolveSubjectScope over the parties P.                                  *)
Matched(P, s) ==
  {x \in OnRecord(P) : /\ s.cvr = Unknown \/ P[x].cvr = s.cvr
                       /\ s.name = Unknown \/ P[x].name = s.name}

IdentityAt(P, x) == IF P[x].cvr # Unknown THEN <<"cvr", P[x].cvr>> ELSE <<"row", x>>

(* A CVR number and a name must meet in one party; a name alone must not    *)
(* stand for two.                                                           *)
Resolves(P, s) ==
  /\ (s.cvr # Unknown /\ s.name # Unknown) => Matched(P, s) # {}
  /\ s.cvr = Unknown => Cardinality({IdentityAt(P, x) : x \in Matched(P, s)}) =< 1

(* A name stands for the subject while no other CVR number carries it and   *)
(* at most one party without a number does.                                 *)
SafeName(P, s, n) ==
  LET named == {x \in OnRecord(P) : P[x].name = n}
      cvrs == {P[x].cvr : x \in named} \ {Unknown}
  IN  /\ IF s.cvr # Unknown THEN cvrs \subseteq {s.cvr} ELSE Cardinality(cvrs) =< 1
      /\ Cardinality({x \in named : P[x].cvr = Unknown}) =< 1

SafeNames(P, s) ==
  {n \in ({s.name} \ {Unknown}) \union {P[x].name : x \in Matched(P, s)} : SafeName(P, s, n)}

(* The identity the request is about.                                       *)
CanonicalKey(P, s) ==
  LET ids == {IdentityAt(P, x) : x \in Matched(P, s)}
  IN  IF s.cvr # Unknown THEN <<"cvr", s.cvr>>
      ELSE IF Cardinality(ids) = 1 THEN CHOOSE id \in ids : TRUE
      ELSE <<"name", s.name>>

(* A mutant of TombstoneKeys: without the rows' own keys.                   *)
TombstoneKeysNoRow(P, s) ==
  {CanonicalKey(P, s)} \union {<<"name", n>> : n \in SafeNames(P, s)}

(* The keys a tombstone is written under: the identity, its safe names, and *)
(* the row of each party that may change or has no CVR number.              *)
TombstoneKeys(P, s) ==
  {CanonicalKey(P, s)} \union {<<"name", n>> : n \in SafeNames(P, s)}
    \union {<<"row", x>> : x \in {y \in Matched(P, s) : y \in Masters \/ P[y].cvr = Unknown}}

(* The keys a report looks for.                                             *)
ReadKeys(P, s) ==
  TombstoneKeys(P, s) \union
  {<<"cvr", P[x].cvr>> : x \in {y \in Matched(P, s) : P[y].cvr # Unknown}}

(* What bank texts are searched for.                                        *)
Terms(P, s) == SafeNames(P, s) \union ({s.cvr} \ {Unknown})

(* collectSourceRows: the place at which each row is the subject's own; a   *)
(* document shows its sender when both sides match.                         *)
OwnRows(P, T, s, terms) ==
  LET matched == Matched(P, s)
  IN  {x \in matched : \/ x \in Masters \/ x[2] = "sender"
                       \/ <<x[1], "sender">> \notin matched}
      \union {b \in T : Mentions[b] \in terms}

Own(P, T, s) == OwnRows(P, T, s, Terms(P, s))

RowAt(x) == IF x \in Texts THEN x ELSE RowOf(x)

(* loadErasures: the rows that have a tombstone under one of the keys.      *)
Redacted(E, keys, x) == \E k \in keys : <<k, RowAt(x)>> \in E

(* Master data is kept as long as any linked row is.                        *)
Kept(own, x) ==
  IF x \in Masters THEN \E y \in own : y \notin Masters /\ RowAt(y) \in retained
  ELSE RowAt(x) \in retained

(* strengthenErasureAliases: rows that are redacted get every current key;  *)
(* under a CVR number only rows that carry it themselves.                   *)
Strengthened(P, T, E, s, keys) ==
  LET found == {y \in Own(P, T, s) :
                  /\ Redacted(E, keys, y)
                  /\ s.cvr # Unknown =>
                       s.cvr = IF y \in Texts THEN Mentions[y] ELSE P[y].cvr}
  IN  E \union {<<k, RowAt(x)>> : k \in TombstoneKeys(P, s), x \in found}

(* strengthenGdprErasureAliasesForIdentity, called by every writer of a     *)
(* party inside its transaction.                                            *)
Bound(P, T, E, party) ==
  LET named == <<"name", party.name>>
  IN  IF party.cvr = Unknown \/ ~\E e \in E : e[1] = named THEN E
      ELSE Strengthened(P, T, E, party, ReadKeys(P, party) \union {named})

-----------------------------------------------------------------------------
(* createCustomer and updateCustomer, createVendor and updateVendor.        *)
WriteMaster(m, party) ==
  LET P == [parties EXCEPT ![m] = party]
  IN  /\ parties[m] # party
      /\ parties' = P
      /\ erasures' = Bound(P, texts, erasures, party)
      /\ UNCHANGED <<texts, retained, asked, erased, requests>>

(* ingestDocument and the issue of an invoice: both sides are written once, *)
(* and they are two parties.                                                *)
RecordPaper(d, sender, recipient) ==
  LET P == [parties EXCEPT ![<<d, "sender">>] = sender, ![<<d, "recipient">>] = recipient]
  IN  /\ parties[<<d, "sender">>] = Nobody
      /\ sender.cvr = recipient.cvr => sender.cvr = Unknown /\ sender.name # recipient.name
      /\ parties' = P
      /\ retained' = retained \union {d}
      /\ erasures' = Bound(P, texts, Bound(P, texts, erasures, sender), recipient)
      /\ UNCHANGED <<texts, asked, erased, requests>>

ImportText(b) ==
  /\ b \notin texts
  /\ texts' = texts \union {b}
  /\ retained' = retained \union {b}
  /\ UNCHANGED <<parties, erasures, asked, erased, requests>>

(* The retention of a row ends.                                             *)
RetentionEnds(r) ==
  /\ r \in retained
  /\ retained' = retained \ {r}
  /\ UNCHANGED <<parties, texts, erasures, asked, erased, requests>>

(* findGdprSubject and buildGdprSubjectExport, where they change something. *)
Report(s) ==
  LET E == Strengthened(parties, texts, erasures, s, ReadKeys(parties, s))
  IN  /\ erasures # {} /\ Resolves(parties, s)
      /\ E # erasures
      /\ erasures' = E
      /\ UNCHANGED <<parties, texts, retained, asked, erased, requests>>

(* eraseGdprSubject: the subject is resolved before the transaction.        *)
NoRequest == [subject |-> Nobody, keys |-> {}, tombstones |-> {}, terms |-> {}, rows |-> {}]

ResolveErasure(s) ==
  /\ asked = NoRequest /\ requests < MaxRequests
  /\ Resolves(parties, s)
  /\ asked' = [subject |-> s, keys |-> ReadKeys(parties, s),
               tombstones |-> TombstoneKeys(parties, s),
               terms |-> Terms(parties, s), rows |-> Matched(parties, s)]
  /\ requests' = requests + 1
  /\ UNCHANGED <<parties, texts, retained, erasures, erased>>

(* The transaction: every row of the subject that is not retained, or that  *)
(* is redacted already, is redacted under the keys resolved before.         *)
EraseSubject ==
  LET own == OwnRows(parties, texts, asked.subject, asked.terms)
      granted == {x \in own : Redacted(erasures, asked.keys, x) \/ ~Kept(own, x)}
  IN  /\ asked # NoRequest
      /\ erasures' = erasures \union {<<k, RowAt(x)>> : k \in asked.tombstones, x \in granted}
      /\ erased' = erased \union (granted \intersect (asked.rows \union Texts))
      /\ asked' = NoRequest
      /\ UNCHANGED <<parties, texts, retained, requests>>

-----------------------------------------------------------------------------
DataProtectionInit ==
  /\ parties = [x \in Places |-> Nobody]
  /\ texts = {}
  /\ retained = {}
  /\ erasures = {}
  /\ asked = NoRequest
  /\ erased = {}
  /\ requests = 0

DataProtectionNext ==
  \/ \E m \in Masters, party \in Identities : WriteMaster(m, party)
  \/ \E d \in Papers, sender, recipient \in Identities : RecordPaper(d, sender, recipient)
  \/ \E b \in Texts : ImportText(b)
  \/ \E r \in Papers \union Texts : RetentionEnds(r)
  \/ \E s \in Subjects : Report(s) \/ ResolveErasure(s)
  \/ EraseSubject

DataProtectionSpec == DataProtectionInit /\ [][DataProtectionNext]_dataProtectionVars

-----------------------------------------------------------------------------
DataProtectionTypeOK ==
  /\ parties \in [Places -> Identities \union {Nobody}]
  /\ texts \subseteq Texts
  /\ retained \subseteq Papers \union texts
  /\ erased \subseteq Places \union texts
  /\ asked.subject \in Subjects \union {Nobody} /\ asked.rows \subseteq Places
  /\ requests \in 0 .. MaxRequests

(* What was erased stays redacted in every later report that shows it, also *)
(* under a name or CVR number the subject got between the two steps of the  *)
(* request or afterwards.  A row that came between them has no such promise.*)
ErasedStaysErased ==
  \A x \in erased, s \in Subjects :
    Resolves(parties, s) /\ x \in Own(parties, texts, s)
    => Redacted(erasures, ReadKeys(parties, s), x)
=============================================================================
