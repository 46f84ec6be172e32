--------------------------- MODULE RegisterProofs ---------------------------
(* Theorems about what happens to the register of a company, each and       *)
(* together.                                                                *)
EXTENDS Register, IntakeProofs, Sums, FiniteSetTheorems,
        SequenceTheorems, TLAPS

-----------------------------------------------------------------------------
(* HistoricalImport: the cut-over of a company stands, for any number of   *)
(* importers, exports and receipts and whoever else registers documents.   *)
(* A file an import published has that import as its one owner until its   *)
(* row is there or the file is gone, beside the owners of the intake; and  *)
(* who writes does so alone, in a ledger without a primobalance.           *)

OpeningOrigins == Exports \union OtherSources \union {ByHand}

ImporterRecords ==
  [at : {"idle", "posting", "marking", "planned", "landing", "failed"},
   source : OpeningOrigins, entry : Nat, left : SUBSET Contents,
   published : SUBSET Contents, good : BOOLEAN]

ImportTyped ==
  /\ importer \in [Importers -> ImporterRecords]
  /\ openings \in Seq(OpeningOrigins) /\ marker \in Nat
  /\ accepted \in Seq(Exports) /\ rejected \subseteq Exports
  /\ vouchers \subseteq Exports \union OtherSources

(* No writer of the intake answers for the file.                            *)
Unowned(f, b) ==
  \A w \in Writers : Owns(w) => ~(writer[w].firm = f /\ writer[w].content = b)

(* A file an importer published is its own, and no row names it yet.        *)
PublishedHeld ==
  /\ \A i \in Importers : \A r \in importer[i].published :
       r \in files[Importing] /\ ~Registered(Importing, r) /\ Unowned(Importing, r)
  /\ \A i, k \in Importers :
       importer[i].published \cap importer[k].published # {} => i = k

(* What an importer has got to.                                             *)
ImportWorks(j) ==
  /\ j.at \in {"planned", "landing", "failed"} => j.source \in Exports
  /\ j.at = "planned" => ReceiptsOf[j.source] \subseteq j.left
  /\ j.at \notin {"landing", "failed"} => j.published = {}
  /\ j.at = "landing" => NoPrimobalance
  /\ j.at = "landing" /\ j.good =>
       \A r \in ReceiptsOf[j.source] \ j.left :
         Registered(Importing, r) \/ r \in j.published

LandsAlone ==
  \A i, k \in Importers :
    importer[i].at = "landing" /\ importer[k].at = "landing" => i = k

AcceptedFirst ==
  /\ accepted # <<>> =>
       /\ Len(accepted) = 1 /\ openings # <<>>
       /\ openings[1] = accepted[1] /\ marker = 1
       /\ \A r \in ReceiptsOf[accepted[1]] : Registered(Importing, r)
  /\ vouchers \cap Exports = Range(accepted)

ImportInv ==
  /\ IntakeInv /\ ImportTyped /\ PublishedHeld /\ LandsAlone /\ AcceptedFirst
  /\ \A i \in Importers : ImportWorks(importer[i])

-----------------------------------------------------------------------------
(* What the steps of the intake leave to an importer.                       *)

LEMMA UnownedStays ==
  ASSUME IntakeTyped, NEW w \in Writers, NEW j, writer' = [writer EXCEPT ![w] = j],
         NEW f, NEW b, Unowned(f, b),
         j.at \in {"register", "clean", "remove"} =>
           \/ Owns(w) /\ j.firm = writer[w].firm /\ j.content = writer[w].content
           \/ ~(j.firm = f /\ j.content = b)
  PROVE  Unowned(f, b)'
<1>1. /\ \A v \in Writers : v # w => writer'[v] = writer[v]
      /\ writer'[w] = j
  BY DEF IntakeTyped
<1> QED BY <1>1 DEF Unowned, Owns

(* A file nobody in the intake answers for stays, and gets no row from it.  *)
LEMMA IntakeLeaves ==
  ASSUME IntakeInv, DocumentIntakeNext, NEW f \in Firms, NEW b,
         b \in files[f], Unowned(f, b)
  PROVE  /\ b \in files'[f] /\ Unowned(f, b)'
         /\ ~Registered(f, b) => ~Registered(f, b)'
<1> USE DEF IntakeInv
<1>1. CASE UNCHANGED <<files, documents, writer>>
  BY <1>1 DEF Unowned, Owns, Registered
<1>2. ASSUME NEW w \in Writers, NEW j, writer' = [writer EXCEPT ![w] = j],
             j.at \notin {"register", "clean", "remove"}, UNCHANGED <<files, documents>>
      PROVE  /\ b \in files'[f] /\ Unowned(f, b)'
             /\ ~Registered(f, b) => ~Registered(f, b)'
  BY <1>2, UnownedStays DEF Registered
<1>3. ASSUME NEW w \in Writers, NEW p \in Busy \ {"find", "register", "clean", "remove"},
             writer[w].at # "idle", Goto(w, p), UNCHANGED <<files, documents>>
      PROVE  /\ b \in files'[f] /\ Unowned(f, b)'
             /\ ~Registered(f, b) => ~Registered(f, b)'
  <2>1. PICK j \in WriterRecords : writer' = [writer EXCEPT ![w] = j] /\ j.at = p
    BY <1>3, GotoMoves
  <2> QED BY <1>2, <1>3, <2>1
<1>4. ASSUME NEW w \in Writers, NEW good \in BOOLEAN,
             writer[w].at # "idle", Answer(w, good), UNCHANGED <<files, documents>>
      PROVE  /\ b \in files'[f] /\ Unowned(f, b)'
             /\ ~Registered(f, b) => ~Registered(f, b)'
  <2>1. PICK j \in WriterRecords : writer' = [writer EXCEPT ![w] = j] /\ j.at = "answer"
    BY <1>4, AnswerMoves
  <2> QED BY <1>2, <1>4, <2>1
<1>5. ASSUME NEW w \in Writers, Owns(w), NEW p \in {"clean", "remove"}, Goto(w, p),
             UNCHANGED <<files, documents>>
      PROVE  /\ b \in files'[f] /\ Unowned(f, b)'
             /\ ~Registered(f, b) => ~Registered(f, b)'
  <2>1. writer[w].at # "idle" /\ p \in Busy \ {"find"}
    BY <1>5 DEF Owns, Busy
  <2>2. PICK j \in WriterRecords :
          /\ writer' = [writer EXCEPT ![w] = j]
          /\ j.firm = writer[w].firm /\ j.content = writer[w].content
    BY <1>5, <2>1, GotoMoves
  <2>3. Unowned(f, b)'
    BY <1>5, <2>2, UnownedStays
  <2> QED BY <1>5, <2>3 DEF Registered
<1>6. ASSUME NEW w \in Writers, Publish(w)
      PROVE  /\ b \in files'[f] /\ Unowned(f, b)'
             /\ ~Registered(f, b) => ~Registered(f, b)'
  <2>1. writer[w].at = "publish" /\ UNCHANGED documents
    BY <1>6 DEF Publish
  <2>2. CASE Answer(w, FALSE) /\ UNCHANGED files
    BY <1>4, <2>1, <2>2
  <2>3. CASE /\ writer[w].content \notin files[writer[w].firm]
             /\ Goto(w, "register")
             /\ files' = [files EXCEPT ![writer[w].firm] = @ \union {writer[w].content}]
    <3>1. PICK j \in WriterRecords :
            /\ writer' = [writer EXCEPT ![w] = j]
            /\ j.firm = writer[w].firm /\ j.content = writer[w].content
      BY <2>1, <2>3, GotoMoves DEF Busy
    <3>2. ~(j.firm = f /\ j.content = b)
      BY <2>3, <3>1
    <3>3. Unowned(f, b)'
      BY <3>1, <3>2, UnownedStays
    <3>4. b \in files'[f]
      BY <2>3 DEF IntakeTyped
    <3> QED BY <2>1, <3>3, <3>4 DEF Registered
  <2> QED BY <1>6, <2>2, <2>3 DEF Publish
<1>7. ASSUME NEW w \in Writers, NEW fails \in BOOLEAN, Register(w, fails)
      PROVE  /\ b \in files'[f] /\ Unowned(f, b)'
             /\ ~Registered(f, b) => ~Registered(f, b)'
  <2>1. writer[w].at = "register" /\ UNCHANGED files /\ Owns(w)
    BY <1>7 DEF Register, Owns
  <2>2. CASE Goto(w, "clean") /\ UNCHANGED documents
    BY <1>5, <2>1, <2>2
  <2>3. CASE /\ Answer(w, TRUE)
             /\ documents' = [documents EXCEPT ![writer[w].firm] = @ \union
                   {[content |-> writer[w].content, origin |-> writer[w].origin]}]
    <3>1. PICK j \in WriterRecords : writer' = [writer EXCEPT ![w] = j] /\ j.at = "answer"
      BY <2>1, <2>3, AnswerMoves
    <3>2. Unowned(f, b)'
      BY <3>1, UnownedStays
    <3>3. ~(writer[w].firm = f /\ writer[w].content = b)
      BY <2>1 DEF Unowned
    <3>4. ASSUME NEW d \in documents'[f], d.content = b PROVE d \in documents[f]
      BY <2>3, <3>3, <3>4 DEF IntakeTyped
    <3> QED BY <2>1, <3>2, <3>4 DEF Registered
  <2> QED BY <1>7, <2>2, <2>3 DEF Register
<1>8. ASSUME NEW w \in Writers, RemoveFile(w)
      PROVE  /\ b \in files'[f] /\ Unowned(f, b)'
             /\ ~Registered(f, b) => ~Registered(f, b)'
  <2>1. /\ writer[w].at = "remove" /\ UNCHANGED documents /\ Owns(w) /\ Answer(w, FALSE)
        /\ files' = [files EXCEPT ![writer[w].firm] = @ \ {writer[w].content}]
    BY <1>8 DEF RemoveFile, Owns
  <2>2. PICK j \in WriterRecords : writer' = [writer EXCEPT ![w] = j] /\ j.at = "answer"
    BY <2>1, AnswerMoves
  <2>3. Unowned(f, b)'
    BY <2>2, UnownedStays
  <2>4. ~(writer[w].firm = f /\ writer[w].content = b)
    BY <2>1 DEF Unowned
  <2>5. b \in files'[f]
    BY <2>1, <2>4 DEF IntakeTyped
  <2> QED BY <2>1, <2>3, <2>5 DEF Registered
<1>9. ASSUME NEW w \in Writers, AskRegistered(w)
      PROVE  /\ b \in files'[f] /\ Unowned(f, b)'
             /\ ~Registered(f, b) => ~Registered(f, b)'
  <2>1. writer[w].at = "clean" /\ UNCHANGED <<files, documents>> /\ Owns(w)
    BY <1>9 DEF AskRegistered, Owns
  <2> QED BY <1>4, <1>5, <1>9, <2>1 DEF AskRegistered
<1>10. ASSUME NEW w \in Writers,
              (\E force \in BOOLEAN : LookForDuplicates(w, force)) \/ FindMarker(w)
       PROVE  /\ b \in files'[f] /\ Unowned(f, b)'
              /\ ~Registered(f, b) => ~Registered(f, b)'
  <2>1. /\ writer[w].at # "idle" /\ UNCHANGED <<files, documents>>
        /\ \/ Answer(w, FALSE) \/ Answer(w, TRUE)
           \/ Goto(w, "publish") \/ Goto(w, "ingest")
    BY <1>10 DEF LookForDuplicates, FindMarker
  <2> QED BY <1>3, <1>4, <2>1 DEF Busy
<1>11. ASSUME NEW w \in Writers,
              \/ StopWriter(w) \/ AnswerUpload(w) \/ AnswerMail(w) \/ CompleteHandoff(w)
              \/ \E g \in Firms, c \in Contents : IngestUpload(w, g, c)
              \/ \E m \in Mails : IngestMail(w, m)
              \/ \E s \in Sources : ClaimHandoff(w, s)
       PROVE  /\ b \in files'[f] /\ Unowned(f, b)'
              /\ ~Registered(f, b) => ~Registered(f, b)'
  <2>1. CASE StopWriter(w) \/ AnswerUpload(w) \/ AnswerMail(w) \/ CompleteHandoff(w)
    <3>1. writer' = [writer EXCEPT ![w] = AtRest] /\ UNCHANGED <<files, documents>>
      BY <2>1 DEF StopWriter, AnswerUpload, AnswerMail, CompleteHandoff, Done
    <3> QED BY <1>2, <3>1, RestingIsIdle
  <2>2. ASSUME NEW g \in Firms, NEW c \in Contents, IngestUpload(w, g, c)
        PROVE  /\ b \in files'[f] /\ Unowned(f, b)'
               /\ ~Registered(f, b) => ~Registered(f, b)'
    <3>1. PICK j : j = [AtRest EXCEPT !.at = "ingest", !.firm = g, !.content = c]
      OBVIOUS
    <3>2. j.at = "ingest"
      BY <3>1 DEF AtRest
    <3> QED BY <1>2, <2>2, <3>1, <3>2 DEF IngestUpload
  <2>3. ASSUME NEW m \in Mails, IngestMail(w, m)
        PROVE  /\ b \in files'[f] /\ Unowned(f, b)'
               /\ ~Registered(f, b) => ~Registered(f, b)'
    <3>1. PICK j : j = [AtRest EXCEPT !.at = "ingest", !.firm = MailOf[m].firm,
                                      !.content = MailOf[m].content, !.origin = m]
      OBVIOUS
    <3>2. j.at = "ingest"
      BY <3>1 DEF AtRest
    <3> QED BY <1>2, <2>3, <3>1, <3>2 DEF IngestMail
  <2>4. ASSUME NEW s \in Sources, ClaimHandoff(w, s)
        PROVE  /\ b \in files'[f] /\ Unowned(f, b)'
               /\ ~Registered(f, b) => ~Registered(f, b)'
    <3>1. PICK j : j = [AtRest EXCEPT !.at = "find", !.firm = assignment[s].firm,
                                      !.content = SourceOf[s], !.origin = s]
      OBVIOUS
    <3>2. j.at = "find"
      BY <3>1 DEF AtRest
    <3> QED BY <1>2, <2>4, <3>1, <3>2 DEF ClaimHandoff
  <2> QED BY <1>11, <2>1, <2>2, <2>3, <2>4
<1>12. CASE \/ \E m \in Mails : RefuseMail(m)
            \/ \E s \in Sources :
                 \/ \E g \in Firms : ApproveAssignment(s, g)
                 \/ ExpireHandoff(s)
  BY <1>1, <1>12 DEF RefuseMail, ApproveAssignment, ExpireHandoff
<1> QED
  BY <1>6, <1>7, <1>8, <1>9, <1>10, <1>11, <1>12 DEF DocumentIntakeNext

(* No row goes away.                                                        *)
LEMMA RowsGrow ==
  ASSUME IntakeInv, DocumentIntakeNext, NEW f \in Firms
  PROVE  documents[f] \subseteq documents'[f]
<1>1. ASSUME NEW w \in Writers, NEW fails \in BOOLEAN, Register(w, fails)
      PROVE  documents[f] \subseteq documents'[f]
  BY <1>1 DEF Register, IntakeInv, IntakeTyped
<1> QED
  BY <1>1
     DEF DocumentIntakeNext, LookForDuplicates, Publish, AskRegistered, RemoveFile,
         StopWriter, IngestUpload, AnswerUpload, IngestMail, AnswerMail, ClaimHandoff,
         FindMarker, CompleteHandoff, RefuseMail, ApproveAssignment, ExpireHandoff

-----------------------------------------------------------------------------
(* The importers.                                                           *)

LEMMA ImporterFields ==
  ASSUME NEW j \in ImporterRecords
  PROVE  /\ j.at \in {"idle", "posting", "marking", "planned", "landing", "failed"}
         /\ j.source \in OpeningOrigins /\ j.entry \in Nat /\ j.left \subseteq Contents
         /\ j.published \subseteq Contents /\ j.good \in BOOLEAN
BY DEF ImporterRecords

LEMMA RestingWorks == Resting \in ImporterRecords /\ ImportWorks(Resting)
                      /\ Resting.at = "idle" /\ Resting.published = {}
BY DEF Resting, ImporterRecords, ImportWorks, OpeningOrigins

(* Importer i moves to j, and the rest of the ledger is as it should be.    *)
LEMMA ImporterMoves ==
  ASSUME ImportInv, NEW i \in Importers, NEW j \in ImporterRecords,
         importer' = [importer EXCEPT ![i] = j],
         IntakeInv', AcceptedFirst', ImportWorks(j)',
         \A k \in Importers : k # i => ImportWorks(importer[k])',
         j.at = "landing" => \A k \in Importers : k # i => importer[k].at # "landing",
         openings' \in Seq(OpeningOrigins), marker' \in Nat, accepted' \in Seq(Exports),
         rejected' \subseteq Exports, vouchers' \subseteq Exports \union OtherSources,
         \A k \in Importers : \A r \in importer'[k].published :
           /\ r \in files'[Importing] /\ ~Registered(Importing, r)'
           /\ Unowned(Importing, r)',
         \A k \in Importers : k # i => importer[k].published \cap j.published = {}
  PROVE  ImportInv'
<1> USE DEF ImportInv
<1>1. /\ \A k \in Importers : k # i => importer'[k] = importer[k]
      /\ importer'[i] = j
  BY DEF ImportTyped
<1>2. ImportTyped'
  BY DEF ImportTyped
<1>3. PublishedHeld'
  <2>1. \A k, l \in Importers :
          importer'[k].published \cap importer'[l].published # {} => k = l
    BY <1>1 DEF PublishedHeld
  <2> QED BY <2>1 DEF PublishedHeld
<1>4. LandsAlone'
  BY <1>1 DEF LandsAlone
<1>5. \A k \in Importers : ImportWorks(importer[k])'
  <2> SUFFICES ASSUME NEW k \in Importers PROVE ImportWorks(importer[k])'
    OBVIOUS
  <2>1. CASE k = i
    BY <1>1, <2>1 DEF ImportWorks, NoPrimobalance, Registered
  <2>2. CASE k # i
    BY <2>2
  <2> QED BY <2>1, <2>2
<1> QED BY <1>2, <1>3, <1>4, <1>5

(* Without a word about documents: the steps on the primobalance, the plan, *)
(* the beginning, the failure and the end.                                  *)
LEMMA QuietMoves ==
  ASSUME ImportInv, NEW i \in Importers, NEW j \in ImporterRecords,
         importer' = [importer EXCEPT ![i] = j], UNCHANGED documentVars,
         AcceptedFirst', ImportWorks(j)',
         (\E k \in Importers : importer[k].at = "landing" /\ k # i) =>
           UNCHANGED <<openings, marker>>,
         j.at = "landing" => \A k \in Importers : k # i => importer[k].at # "landing",
         openings' \in Seq(OpeningOrigins), marker' \in Nat, accepted' \in Seq(Exports),
         rejected' \subseteq Exports, vouchers' \subseteq Exports \union OtherSources,
         j.published \subseteq importer[i].published
  PROVE  ImportInv'
<1> USE DEF ImportInv
<1>1. /\ \A k \in Importers : k # i => importer'[k] = importer[k]
      /\ importer'[i] = j
  BY DEF ImportTyped
<1>2. IntakeInv'
  BY OthersKeepIntake
<1>3. UNCHANGED <<files, documents, writer>>
  BY DEF documentVars
<1>4. \A k \in Importers : \A r \in importer'[k].published :
        r \in files'[Importing] /\ ~Registered(Importing, r)' /\ Unowned(Importing, r)'
  <2> SUFFICES ASSUME NEW k \in Importers, NEW r \in importer'[k].published
               PROVE  r \in files'[Importing] /\ ~Registered(Importing, r)'
                      /\ Unowned(Importing, r)'
    OBVIOUS
  <2>1. r \in importer[k].published
    BY <1>1
  <2>2. r \in files[Importing] /\ ~Registered(Importing, r) /\ Unowned(Importing, r)
    BY <2>1 DEF PublishedHeld
  <2> QED BY <1>3, <2>2 DEF Registered, Unowned, Owns
<1>5. \A k \in Importers : k # i => importer[k].published \cap j.published = {}
  BY DEF PublishedHeld
<1>6. ASSUME NEW k \in Importers, k # i PROVE ImportWorks(importer[k])'
  <2>1. ImportWorks(importer[k]) /\ importer'[k] = importer[k]
    BY <1>1, <1>6
  <2>2. importer[k].at = "landing" => UNCHANGED <<openings, marker>>
    BY <1>6
  <2> QED BY <1>3, <2>1, <2>2 DEF ImportWorks, NoPrimobalance, Registered
<1> QED BY <1>2, <1>4, <1>5, <1>6, ImporterMoves

(* Nobody lands while another writes.                                       *)
LEMMA AcceptedStays ==
  ASSUME AcceptedFirst, UNCHANGED <<openings, marker, vouchers, accepted, documents>>
  PROVE  AcceptedFirst'
BY DEF AcceptedFirst, Registered

LEMMA RestMoves ==
  ASSUME ImportInv, NEW i \in Importers, Rest(i), UNCHANGED documentVars, AcceptedFirst',
         (\E k \in Importers : importer[k].at = "landing" /\ k # i) =>
           UNCHANGED <<openings, marker>>,
         openings' \in Seq(OpeningOrigins), marker' \in Nat, accepted' \in Seq(Exports),
         rejected' \subseteq Exports, vouchers' \subseteq Exports \union OtherSources
  PROVE  ImportInv'
<1>1. ImportWorks(Resting)'
  BY DEF ImportWorks, Resting
<1>2. PICK j : j = Resting
  OBVIOUS
<1>3. j \in ImporterRecords /\ j.at = "idle" /\ j.published = {}
  BY <1>2, RestingWorks
<1>4. importer' = [importer EXCEPT ![i] = j]
  BY <1>2 DEF Rest
<1>5. ImportWorks(j)'
  BY <1>3 DEF ImportWorks
<1>6. j.published \subseteq importer[i].published
  BY <1>3
<1> QED BY <1>3, <1>4, <1>5, <1>6, QuietMoves

LEMMA PrimobalanceKeeps ==
  ASSUME ImportInv, NEW i \in Importers,
         \/ CheckOpening(i) \/ PostOpening(i) \/ MarkOpening(i)
         \/ \E s \in OtherSources : RunImport(i, s)
  PROVE  ImportInv'
<1> USE DEF ImportInv
<1>1. PICK o \in ImporterRecords : o = importer[i]
  BY DEF ImportTyped
<1>2. /\ openings \in Seq(OpeningOrigins) /\ marker \in Nat /\ accepted \in Seq(Exports)
      /\ rejected \subseteq Exports /\ vouchers \subseteq Exports \union OtherSources
  BY DEF ImportTyped
<1>3. CASE CheckOpening(i)
  <2>1. PICK j : j = [Resting EXCEPT !.at = "posting"]
    OBVIOUS
  <2>2. j \in ImporterRecords /\ j.at = "posting" /\ j.published = {}
    BY <2>1 DEF Resting, ImporterRecords, OpeningOrigins
  <2>3. /\ importer' = [importer EXCEPT ![i] = j]
        /\ UNCHANGED <<openings, marker, vouchers, archive, accepted, rejected, documentVars>>
    BY <1>3, <2>1 DEF CheckOpening, Proceed
  <2>4. ImportWorks(j)'
    BY <2>2 DEF ImportWorks
  <2>5. AcceptedFirst'
    BY <2>3, AcceptedStays DEF documentVars
  <2>6. j.published \subseteq importer[i].published
    BY <2>2
  <2> QED BY <1>2, <2>2, <2>3, <2>4, <2>5, <2>6, QuietMoves
<1>4. CASE PostOpening(i)
  <2>1. PICK n \in Nat : n = Len(openings) + 1
    BY <1>2
  <2>2. PICK k : k = [o EXCEPT !.at = "marking"]
    OBVIOUS
  <2>3. PICK j : j = [k EXCEPT !.entry = n]
    OBVIOUS
  <2>4. k \in ImporterRecords /\ k.at = "marking" /\ k.published = o.published
    BY <2>2 DEF ImporterRecords
  <2>5. j \in ImporterRecords /\ j.at = "marking" /\ j.published = o.published
    BY <2>3, <2>4 DEF ImporterRecords
  <2>6. /\ importer[i].at = "posting" /\ MayWrite
        /\ openings' = Append(openings, ByHand)
        /\ importer' = [importer EXCEPT ![i] = j]
        /\ UNCHANGED <<marker, vouchers, archive, accepted, rejected, documentVars>>
    BY <1>1, <1>4, <2>1, <2>2, <2>3 DEF PostOpening
  <2>7. j.published = {}
    BY <1>1, <2>5, <2>6 DEF ImportWorks
  <2>8. ImportWorks(j)'
    BY <2>5, <2>7 DEF ImportWorks
  <2>9. openings' \in Seq(OpeningOrigins)
    BY <1>2, <2>6 DEF OpeningOrigins
  <2>10. openings # <<>> => openings' # <<>> /\ openings'[1] = openings[1]
    BY <1>2, <2>6
  <2>11. AcceptedFirst'
    BY <2>6, <2>10 DEF AcceptedFirst, Registered, documentVars
  <2>12. \A l \in Importers : importer[l].at # "landing"
    BY <2>6 DEF MayWrite
  <2>13. j.published \subseteq importer[i].published
    BY <2>7
  <2> QED BY <1>2, <2>5, <2>6, <2>8, <2>9, <2>11, <2>12, <2>13, QuietMoves
<1>5. CASE MarkOpening(i)
  <2>1. /\ MayWrite /\ Rest(i)
        /\ marker' = IF marker = 0 THEN o.entry ELSE marker
        /\ UNCHANGED <<openings, vouchers, archive, accepted, rejected, documentVars>>
    BY <1>1, <1>5 DEF MarkOpening
  <2>2. marker' \in Nat
    BY <1>1, <1>2, <2>1, ImporterFields
  <2>3. AcceptedFirst'
    BY <2>1 DEF AcceptedFirst, Registered, documentVars
  <2>4. \A l \in Importers : importer[l].at # "landing"
    BY <2>1 DEF MayWrite
  <2> QED BY <1>2, <2>1, <2>2, <2>3, <2>4, RestMoves
<1>6. ASSUME NEW s \in OtherSources, RunImport(i, s) PROVE ImportInv'
  <2>1. /\ MayWrite /\ marker = 0 /\ openings = <<>>
        /\ openings' = Append(openings, s) /\ marker' = Len(openings) + 1
        /\ vouchers' = vouchers \union {s}
        /\ UNCHANGED <<archive, accepted, rejected, importer, documentVars>>
    BY <1>6 DEF RunImport, Land, PostVouchers, NoPrimobalance
  <2>2. accepted = <<>>
    BY <2>1 DEF AcceptedFirst
  <2>3. s \notin Exports
    BY <1>6, HistoricalImportAssumption
  <2>4. AcceptedFirst'
    BY <2>1, <2>2, <2>3 DEF AcceptedFirst
  <2>5. openings' \in Seq(OpeningOrigins)
    BY <1>2, <2>1 DEF OpeningOrigins
  <2>6. importer' = [importer EXCEPT ![i] = o]
    BY <1>1, <2>1 DEF ImportTyped
  <2>7. \A l \in Importers : importer[l].at # "landing"
    BY <2>1 DEF MayWrite
  <2>8. ImportWorks(o)'
    BY <1>1, <2>7 DEF ImportWorks
  <2>9. o.published \subseteq importer[i].published
    BY <1>1
  <2>10. vouchers' \subseteq Exports \union OtherSources /\ marker' \in Nat
    BY <1>2, <2>1
  <2> QED BY <1>1, <1>2, <2>1, <2>4, <2>5, <2>6, <2>7, <2>8, <2>9, <2>10, QuietMoves
<1> QED BY <1>3, <1>4, <1>5, <1>6

LEMMA PlanKeeps ==
  ASSUME ImportInv, NEW i \in Importers,
         \/ \E d \in Exports : PlanDinero(i, d)
         \/ \E refused \in BOOLEAN : BeginDinero(i, refused)
         \/ FailDinero(i) \/ RecordRejected(i) \/ StopImporter(i)
  PROVE  ImportInv'
<1> USE DEF ImportInv
<1>1. PICK o \in ImporterRecords : o = importer[i]
  BY DEF ImportTyped
<1>2. /\ openings \in Seq(OpeningOrigins) /\ marker \in Nat /\ accepted \in Seq(Exports)
      /\ rejected \subseteq Exports /\ vouchers \subseteq Exports \union OtherSources
  BY DEF ImportTyped
<1>3. ASSUME NEW d \in Exports, PlanDinero(i, d) PROVE ImportInv'
  <2>1. PICK receipts : receipts = ReceiptsOf[d] /\ receipts \subseteq Contents
    BY HistoricalImportAssumption
  <2>2. PICK j : j = [Resting EXCEPT !.at = "planned", !.source = d, !.left = receipts]
    OBVIOUS
  <2>3. /\ j \in ImporterRecords /\ j.at = "planned" /\ j.published = {}
        /\ j.source = d /\ j.left = receipts
    BY <2>1, <2>2 DEF Resting, ImporterRecords, OpeningOrigins
  <2>4. /\ importer' = [importer EXCEPT ![i] = j]
        /\ UNCHANGED <<openings, marker, vouchers, archive, accepted, rejected, documentVars>>
    BY <1>3, <2>1, <2>2 DEF PlanDinero
  <2>5. ImportWorks(j)'
    BY <2>1, <2>3 DEF ImportWorks
  <2>6. AcceptedFirst'
    BY <2>4, AcceptedStays DEF documentVars
  <2>7. j.published \subseteq importer[i].published
    BY <2>3
  <2> QED BY <1>2, <2>3, <2>4, <2>5, <2>6, <2>7, QuietMoves
<1>4. ASSUME NEW refused \in BOOLEAN, BeginDinero(i, refused) PROVE ImportInv'
  <2>1. /\ importer[i].at = "planned" /\ MayWrite
        /\ Rest(i) \/ (NoPrimobalance /\ Proceed(i, "landing"))
        /\ UNCHANGED <<openings, marker, vouchers, archive, accepted, rejected, documentVars>>
    BY <1>4 DEF BeginDinero
  <2>2. AcceptedFirst'
    BY <2>1, AcceptedStays DEF documentVars
  <2>3. CASE Rest(i)
    BY <1>2, <2>1, <2>2, <2>3, RestMoves
  <2>4. CASE NoPrimobalance /\ Proceed(i, "landing")
    <3>1. PICK j : j = [o EXCEPT !.at = "landing"]
      OBVIOUS
    <3>2. /\ j \in ImporterRecords /\ j.at = "landing" /\ j.published = o.published
          /\ j.source = o.source /\ j.left = o.left
      BY <3>1 DEF ImporterRecords
    <3>3. importer' = [importer EXCEPT ![i] = j]
      BY <1>1, <2>4, <3>1 DEF Proceed
    <3>4. o.source \in Exports /\ ReceiptsOf[o.source] \subseteq o.left /\ o.published = {}
      BY <1>1, <2>1 DEF ImportWorks
    <3>5. ImportWorks(j)'
      BY <2>1, <2>4, <3>2, <3>4 DEF ImportWorks, NoPrimobalance
    <3>6. j.published \subseteq importer[i].published
      BY <3>2, <3>4
    <3>7. \A k \in Importers : importer[k].at # "landing"
      BY <2>1 DEF MayWrite
    <3> QED BY <1>2, <2>1, <2>2, <3>2, <3>3, <3>5, <3>6, <3>7, QuietMoves
  <2> QED BY <2>1, <2>3, <2>4
<1>5. CASE FailDinero(i)
  <2>1. PICK p : p = (IF o.left = {} THEN o.published ELSE {})
    OBVIOUS
  <2>2. PICK k : k = [o EXCEPT !.at = "failed"]
    OBVIOUS
  <2>3. PICK j : j = [k EXCEPT !.published = p]
    OBVIOUS
  <2>4. p \subseteq o.published /\ p \subseteq Contents
    BY <2>1, ImporterFields
  <2>5. k \in ImporterRecords /\ k.at = "failed" /\ k.source = o.source
    BY <2>2 DEF ImporterRecords
  <2>6. j \in ImporterRecords /\ j.at = "failed" /\ j.source = o.source /\ j.published = p
    BY <2>3, <2>4, <2>5 DEF ImporterRecords
  <2>7. /\ importer[i].at = "landing"
        /\ importer' = [importer EXCEPT ![i] = j]
        /\ UNCHANGED <<openings, marker, vouchers, archive, accepted, rejected, documentVars>>
    BY <1>1, <1>5, <2>1, <2>2, <2>3 DEF FailDinero, ImportTyped
  <2>8. o.source \in Exports
    BY <1>1, <2>7 DEF ImportWorks
  <2>9. ImportWorks(j)'
    BY <2>6, <2>8 DEF ImportWorks
  <2>10. AcceptedFirst'
    BY <2>7, AcceptedStays DEF documentVars
  <2>11. j.published \subseteq importer[i].published
    BY <1>1, <2>4, <2>6
  <2> QED BY <1>2, <2>6, <2>7, <2>9, <2>10, <2>11, QuietMoves
<1>6. CASE RecordRejected(i)
  <2>1. /\ importer[i].at = "failed" /\ Rest(i)
        /\ rejected' = rejected \union {o.source}
        /\ UNCHANGED <<openings, marker, vouchers, archive, accepted, documentVars>>
    BY <1>1, <1>6 DEF RecordRejected
  <2>2. o.source \in Exports
    BY <1>1, <2>1 DEF ImportWorks
  <2>3. AcceptedFirst'
    BY <2>1, AcceptedStays DEF documentVars
  <2>4. rejected' \subseteq Exports
    BY <1>2, <2>1, <2>2
  <2> QED BY <1>2, <2>1, <2>3, <2>4, RestMoves
<1>7. CASE StopImporter(i)
  <2>1. /\ Rest(i)
        /\ UNCHANGED <<openings, marker, vouchers, archive, accepted, rejected, documentVars>>
    BY <1>7 DEF StopImporter
  <2>2. AcceptedFirst'
    BY <2>1, AcceptedStays DEF documentVars
  <2> QED BY <1>2, <2>1, <2>2, RestMoves
<1> QED BY <1>3, <1>4, <1>5, <1>6, <1>7

-----------------------------------------------------------------------------
(* The receipts.                                                            *)

(* Files come and go, as long as those with a row or an owner stay.         *)
LEMMA FilesChange ==
  ASSUME IntakeInv, files' \in [Firms -> SUBSET Contents],
         UNCHANGED <<documents, writer, seen, mailQueue, handled, assignment, handoff>>,
         \A f \in Firms : \A b \in files[f] :
           Registered(f, b) \/ ~Unowned(f, b) => b \in files'[f]
  PROVE  IntakeInv'
<1> USE DEF IntakeInv
<1>1. IntakeTyped'
  BY DEF IntakeTyped
<1>2. FilesOwned'
  <2>1. DocumentsHaveFiles'
    BY DEF FilesOwned, DocumentsHaveFiles, Registered
  <2>2. ASSUME NEW w \in Writers, Owns(w)' PROVE writer'[w].content \in files'[writer'[w].firm]
    <3>1. Owns(w) /\ writer[w].firm \in Firms
      BY <2>2, BusyIsTyped, WriterFields DEF Owns
    <3>2. PICK f, b : f = writer[w].firm /\ b = writer[w].content
      OBVIOUS
    <3>3. b \in files[f] /\ ~Unowned(f, b)
      BY <3>1, <3>2 DEF FilesOwned, Unowned
    <3> QED BY <3>1, <3>2, <3>3
  <2>3. \A w \in Writers : Owns(w)' => ~Registered(writer[w].firm, writer[w].content)'
    BY DEF FilesOwned, Owns, Registered
  <2>4. \A v, w \in Writers :
          /\ Owns(v)' /\ Owns(w)'
          /\ writer'[v].firm = writer'[w].firm /\ writer'[v].content = writer'[w].content
          => v = w
    BY DEF FilesOwned, Owns
  <2> QED BY <2>1, <2>2, <2>3, <2>4 DEF FilesOwned
<1>3. AssignmentsKept
  BY AssignmentStays
<1>4. RowsUnique' /\ \A k : JobWorks(k) => JobWorks(k)'
  BY <1>3, RowsStay
<1>5. WritersWork'
  <2> SUFFICES ASSUME NEW w \in Writers, NEW k, k = writer'[w], k.at # "idle"
               PROVE  JobWorks(k)'
    BY DEF WritersWork, JobWorks
  <2> QED BY <1>4 DEF WritersWork
<1>6. CompletedNamesRow' /\ MailAccounted' /\ ApprovedHasFirm'
  BY <1>3, CompletedStays, AccountedStays DEF AssignmentsKept
<1> QED BY <1>1, <1>2, <1>4, <1>5, <1>6

(* The rows of an import, each for a file that has none and no owner.       *)
LEMMA RowsCome ==
  ASSUME IntakeInv, NEW new, new \subseteq Contents, NEW f \in Firms,
         \A b \in new : b \in files[f] /\ ~Registered(f, b) /\ Unowned(f, b),
         documents' = [documents EXCEPT ![f] = @ \union
                         {[content |-> b, origin |-> Upload] : b \in new}],
         UNCHANGED <<files, writer, seen, mailQueue, handled, assignment, handoff>>
  PROVE  IntakeInv'
<1> USE DEF IntakeInv
<1>1. PICK rows : rows = {[content |-> b, origin |-> Upload] : b \in new}
  OBVIOUS
<1>2. \A d \in rows : d \in DocumentRecords /\ d.content \in new /\ d.origin = Upload
                      /\ d = [content |-> d.content, origin |-> Upload]
  BY <1>1 DEF DocumentRecords, Origins
<1>3. \A d, e \in rows : d.content = e.content => d = e
  BY <1>2
<1>4. documents' = [documents EXCEPT ![f] = @ \union rows]
  BY <1>1
<1>5. \A g \in Firms : \A e : e \in documents'[g] <=> e \in documents[g] \/ (g = f /\ e \in rows)
  BY <1>4 DEF IntakeTyped
<1>6. documents' \in [Firms -> SUBSET DocumentRecords]
  BY <1>2, <1>4 DEF IntakeTyped
<1>7. IntakeTyped'
  BY <1>6 DEF IntakeTyped
<1>8. Upload \notin Mails \union Sources
  BY DocumentIntakeAssumption
<1>9. FilesOwned'
  <2>1. DocumentsHaveFiles'
    BY <1>2, <1>5 DEF FilesOwned, DocumentsHaveFiles
  <2>2. ASSUME NEW v \in Writers, Owns(v)'
        PROVE  /\ writer'[v].content \in files'[writer'[v].firm]
               /\ ~Registered(writer[v].firm, writer[v].content)'
    <3>1. Owns(v) /\ writer[v] \in WriterRecords
      BY <2>2, BusyIsTyped DEF Owns
    <3>2. PICK g, c : g = writer[v].firm /\ c = writer[v].content
      OBVIOUS
    <3>3. /\ c \in files[g] /\ ~Registered(g, c) /\ ~(g = f /\ c \in new) /\ g \in Firms
      BY <3>1, <3>2, WriterFields DEF FilesOwned, Unowned
    <3>4. \A e \in documents'[g] : e.content # c
      BY <1>2, <1>5, <3>3 DEF Registered
    <3> QED BY <3>2, <3>3, <3>4 DEF Registered
  <2>3. \A u, v \in Writers :
          /\ Owns(u)' /\ Owns(v)'
          /\ writer'[u].firm = writer'[v].firm /\ writer'[u].content = writer'[v].content
          => u = v
    BY DEF FilesOwned, Owns
  <2> QED BY <2>1, <2>2, <2>3 DEF FilesOwned
<1>10. RowsUnique'
  <2>1. \A e \in documents[f] : e.content \notin new
    BY DEF Registered
  <2>2. ASSUME NEW g \in Firms, NEW d \in documents'[g], NEW e \in documents'[g],
               d.content = e.content
        PROVE  d = e
    <3>1. d \in documents[g] \/ (g = f /\ d \in rows)
      BY <1>5
    <3>2. e \in documents[g] \/ (g = f /\ e \in rows)
      BY <1>5
    <3> QED BY <1>2, <1>3, <2>1, <2>2, <3>1, <3>2 DEF RowsUnique
  <2>3. ASSUME NEW g \in Firms, NEW d \in documents'[g], d.origin \in Sources
        PROVE  /\ d.content = SourceOf[d.origin]
               /\ assignment[d.origin].state # "none" /\ g = assignment[d.origin].firm
    BY <1>2, <1>5, <1>8, <2>3 DEF RowsUnique
  <2> QED BY <2>2, <2>3 DEF RowsUnique
<1>11. WritersWork'
  <2> SUFFICES ASSUME NEW v \in Writers, NEW k, k = writer[v], k.at # "idle"
               PROVE  JobWorks(k)'
    BY DEF WritersWork, JobWorks
  <2>1. JobWorks(k) /\ k.firm \in Firms
    BY BusyIsTyped, WriterFields DEF WritersWork
  <2> QED BY <1>5, <2>1 DEF JobWorks
<1>12. ApprovedHasFirm'
  BY DEF ApprovedHasFirm
<1>13. CompletedNamesRow'
  <2> SUFFICES ASSUME NEW s \in Sources, assignment[s].state = "completed"
               PROVE  {e \in documents'[assignment[s].firm] : e.origin = s}
                        = {e \in documents[assignment[s].firm] : e.origin = s}
    BY DEF CompletedNamesRow
  <2>1. PICK g \in Firms : g = assignment[s].firm
    BY DEF ApprovedHasFirm
  <2>2. \A e \in rows : e.origin # s
    BY <1>2, <1>8
  <2>3. \A e : e.origin = s => (e \in documents'[g] <=> e \in documents[g])
    BY <1>5, <2>2
  <2> QED BY <2>1, <2>3
<1>14. MailAccounted'
  <2> SUFFICES ASSUME NEW m \in Mails, Registered(MailOf[m].firm, MailOf[m].content)
               PROVE  Registered(MailOf[m].firm, MailOf[m].content)'
    BY DEF MailAccounted, IntakeTyped
  <2>1. PICK g, c : g = MailOf[m].firm /\ c = MailOf[m].content
    OBVIOUS
  <2>2. g \in Firms
    BY <2>1, DocumentIntakeAssumption
  <2>3. PICK e \in documents[g] : e.content = c
    BY <2>1 DEF Registered
  <2>4. e \in documents'[g]
    BY <1>5, <2>2, <2>3
  <2> QED BY <2>1, <2>3, <2>4 DEF Registered
<1> QED BY <1>7, <1>9, <1>10, <1>11, <1>12, <1>13, <1>14

LEMMA ReceiptKeeps ==
  ASSUME ImportInv, NEW i \in Importers, NEW r \in Contents, NEW refused \in BOOLEAN,
         IngestReceipt(i, r, refused)
  PROVE  ImportInv'
<1> USE DEF ImportInv
<1>1. PICK o \in ImporterRecords : o = importer[i]
  BY DEF ImportTyped
<1>2. PICK known \in BOOLEAN : known <=> Registered(Importing, r)
  OBVIOUS
<1>3. PICK publishes \in BOOLEAN :
        publishes <=> ~known /\ ~refused /\ r \notin files[Importing]
  OBVIOUS
<1>4. PICK p : p = IF publishes THEN o.published \union {r} ELSE o.published
  OBVIOUS
<1>5. PICK good \in BOOLEAN : good <=> o.good /\ (known \/ publishes)
  OBVIOUS
<1>6. PICK left : left = o.left \ {r}
  OBVIOUS
<1>7. PICK k : k = [o EXCEPT !.left = left]
  OBVIOUS
<1>8. PICK l : l = [k EXCEPT !.good = good]
  OBVIOUS
<1>9. PICK j : j = [l EXCEPT !.published = p]
  OBVIOUS
<1>10. left \subseteq Contents /\ p \subseteq Contents /\ o.good \in BOOLEAN
  BY <1>4, <1>6, ImporterFields
<1>11. k \in ImporterRecords /\ k.at = o.at /\ k.source = o.source /\ k.left = left
  BY <1>7, <1>10 DEF ImporterRecords
<1>12. l \in ImporterRecords /\ l.at = o.at /\ l.source = o.source /\ l.left = left
       /\ l.good = good
  BY <1>8, <1>11 DEF ImporterRecords
<1>13. j \in ImporterRecords /\ j.at = o.at /\ j.source = o.source /\ j.left = left
       /\ j.good = good /\ j.published = p
  BY <1>9, <1>10, <1>12 DEF ImporterRecords
<1>14. /\ importer[i].at = "landing"
       /\ files' = IF publishes THEN [files EXCEPT ![Importing] = @ \union {r}] ELSE files
       /\ UNCHANGED <<documents, writer, seen, mailQueue, handled, assignment, handoff,
                      openings, marker, vouchers, archive, accepted, rejected>>
  BY <1>2, <1>3 DEF IngestReceipt
<1>15. importer' = [importer EXCEPT ![i] = j]
  <2>1. good = (o.good /\ (known \/ publishes))
    BY <1>5, <1>10
  <2>2. importer' = [importer EXCEPT
          ![i].left = @ \ {r},
          ![i].good = @ /\ (known \/ publishes),
          ![i].published = IF publishes THEN @ \union {r} ELSE @]
    BY <1>2, <1>3 DEF IngestReceipt
  <2> QED BY <1>1, <1>4, <1>6, <1>7, <1>8, <1>9, <2>1, <2>2 DEF ImportTyped
<1>16. Importing \in Firms /\ files \in [Firms -> SUBSET Contents]
  BY HistoricalImportAssumption DEF IntakeInv, IntakeTyped
<1>17. /\ files' \in [Firms -> SUBSET Contents]
       /\ \A f \in Firms : files[f] \subseteq files'[f]
       /\ publishes => r \in files'[Importing]
  BY <1>14, <1>16
<1>18. IntakeInv'
  BY <1>14, <1>17, FilesChange
<1>19. publishes => ~Registered(Importing, r) /\ Unowned(Importing, r)
  <2> SUFFICES ASSUME publishes PROVE ~Registered(Importing, r) /\ Unowned(Importing, r)
    OBVIOUS
  <2>1. ~Registered(Importing, r) /\ r \notin files[Importing]
    BY <1>2, <1>3
  <2> QED BY <2>1 DEF Unowned, IntakeInv, FilesOwned
<1>20. \A m \in Importers : importer'[m] = IF m = i THEN j ELSE importer[m]
  BY <1>15 DEF ImportTyped
<1>21. \A m \in Importers : \A b \in importer'[m].published :
         b \in files'[Importing] /\ ~Registered(Importing, b)' /\ Unowned(Importing, b)'
  <2> SUFFICES ASSUME NEW m \in Importers, NEW b \in importer'[m].published
               PROVE  b \in files'[Importing] /\ ~Registered(Importing, b)'
                      /\ Unowned(Importing, b)'
    OBVIOUS
  <2>1. b \in importer[m].published \/ (publishes /\ b = r)
    BY <1>1, <1>4, <1>13, <1>20
  <2>2. b \in files'[Importing] /\ ~Registered(Importing, b) /\ Unowned(Importing, b)
    BY <1>16, <1>17, <1>19, <2>1 DEF PublishedHeld
  <2> QED BY <1>14, <2>2 DEF Registered, Unowned, Owns
<1>22. \A m \in Importers : m # i => importer[m].published \cap j.published = {}
  BY <1>1, <1>3, <1>4, <1>13 DEF PublishedHeld
<1>23. \A m \in Importers : m # i => ImportWorks(importer[m])'
  <2> SUFFICES ASSUME NEW m \in Importers, m # i, NEW n, n = importer'[m]
               PROVE  ImportWorks(n)'
    BY DEF ImportWorks, NoPrimobalance, Registered
  <2>1. ImportWorks(n)
    BY <1>20
  <2> QED BY <1>14, <2>1 DEF ImportWorks, NoPrimobalance, Registered
<1>24. ImportWorks(j)'
  <2>1. ImportWorks(o) /\ o.at = "landing"
    BY <1>1, <1>14
  <2>2. /\ o.source \in Exports /\ NoPrimobalance
        /\ o.good => \A b \in ReceiptsOf[o.source] \ o.left :
                       Registered(Importing, b) \/ b \in o.published
    BY <2>1 DEF ImportWorks
  <2>3. good => \A b \in ReceiptsOf[o.source] \ left : Registered(Importing, b) \/ b \in p
    BY <1>2, <1>4, <1>5, <1>6, <2>2
  <2> QED BY <1>13, <1>14, <2>1, <2>2, <2>3 DEF ImportWorks, NoPrimobalance, Registered
<1>25. AcceptedFirst'
  BY <1>14, AcceptedStays
<1>26. \A m \in Importers : m # i => importer[m].at # "landing"
  BY <1>14 DEF LandsAlone
<1>27. /\ openings' \in Seq(OpeningOrigins) /\ marker' \in Nat /\ accepted' \in Seq(Exports)
       /\ rejected' \subseteq Exports /\ vouchers' \subseteq Exports \union OtherSources
  BY <1>14 DEF ImportTyped
<1> QED
  BY <1>13, <1>15, <1>18, <1>21, <1>22, <1>23, <1>24, <1>25, <1>26, <1>27, ImporterMoves

LEMMA AcceptKeeps ==
  ASSUME ImportInv, NEW i \in Importers, AcceptDinero(i)
  PROVE  ImportInv'
<1> USE DEF ImportInv
<1>1. PICK o \in ImporterRecords : o = importer[i]
  BY DEF ImportTyped
<1>2. PICK d : d = o.source
  OBVIOUS
<1>3. PICK new : new = o.published
  OBVIOUS
<1>4. /\ o.at = "landing" /\ o.left = {} /\ o.good
      /\ openings' = Append(openings, d) /\ marker' = Len(openings) + 1
      /\ vouchers' = vouchers \union {d} /\ accepted' = Append(accepted, d)
      /\ documents' = [documents EXCEPT ![Importing] = @ \union
                         {[content |-> b, origin |-> Upload] : b \in new}]
      /\ importer' = [importer EXCEPT ![i] = Resting]
      /\ UNCHANGED <<rejected, files, writer, seen, mailQueue, handled, assignment, handoff>>
  BY <1>1, <1>2, <1>3 DEF AcceptDinero, Land, PostVouchers, Rest
<1>5. /\ d \in Exports /\ marker = 0 /\ openings = <<>>
      /\ \A r \in ReceiptsOf[d] : Registered(Importing, r) \/ r \in new
  <2>1. ImportWorks(o)
    BY <1>1
  <2> QED BY <1>2, <1>3, <1>4, <2>1 DEF ImportWorks, NoPrimobalance
<1>6. /\ accepted = <<>> /\ vouchers \cap Exports = {}
  BY <1>5 DEF AcceptedFirst, Range
<1>7. \A b \in new : b \in files[Importing] /\ ~Registered(Importing, b)
                     /\ Unowned(Importing, b)
  BY <1>1, <1>3 DEF PublishedHeld
<1>8. Importing \in Firms /\ new \subseteq Contents
  BY <1>1, <1>3, ImporterFields, HistoricalImportAssumption
<1>9. IntakeInv'
  BY <1>4, <1>7, <1>8, RowsCome
<1>10. PICK rows : rows = {[content |-> b, origin |-> Upload] : b \in new}
  OBVIOUS
<1>11. \A e : e \in documents'[Importing] <=> e \in documents[Importing] \/ e \in rows
  BY <1>4, <1>8, <1>10 DEF IntakeInv, IntakeTyped
<1>12. \A e \in rows : e.content \in new
  BY <1>10
<1>13. ASSUME NEW b \in new PROVE \E e \in rows : e.content = b
  <2>1. PICK e : e = [content |-> b, origin |-> Upload]
    OBVIOUS
  <2>2. e \in rows /\ e.content = b
    BY <1>10, <2>1
  <2> QED BY <2>2
<1>14. \A b : Registered(Importing, b)' <=> Registered(Importing, b) \/ b \in new
  BY <1>11, <1>12, <1>13 DEF Registered
<1>15. /\ accepted' \in Seq(Exports) /\ Len(accepted') = 1 /\ accepted'[1] = d
       /\ accepted' # <<>> /\ Range(accepted') = {d}
  <2>1. accepted' = <<d>>
    BY <1>4, <1>6
  <2> QED BY <1>5, <2>1 DEF Range
<1>16. /\ openings' \in Seq(OpeningOrigins) /\ openings' # <<>> /\ openings'[1] = d
       /\ marker' = 1
  <2>1. openings' = <<d>>
    BY <1>4, <1>5
  <2>2. d \in OpeningOrigins
    BY <1>5 DEF OpeningOrigins
  <2> QED BY <1>4, <1>5, <2>1, <2>2
<1>17. AcceptedFirst'
  <2>1. \A r \in ReceiptsOf[d] : Registered(Importing, r)'
    BY <1>5, <1>14
  <2>2. vouchers' \cap Exports = {d}
    BY <1>4, <1>5, <1>6
  <2> QED BY <1>15, <1>16, <2>1, <2>2 DEF AcceptedFirst, Registered
<1>18. PICK j : j = Resting
  OBVIOUS
<1>19. j \in ImporterRecords /\ j.at = "idle" /\ j.published = {}
  BY <1>18, RestingWorks
<1>20. importer' = [importer EXCEPT ![i] = j]
  BY <1>4, <1>18
<1>21. ImportWorks(j)'
  BY <1>19 DEF ImportWorks
<1>22. \A m \in Importers : importer'[m] = IF m = i THEN j ELSE importer[m]
  BY <1>20 DEF ImportTyped
<1>23. \A m \in Importers : m # i => importer[m].at # "landing"
  BY <1>1, <1>4 DEF LandsAlone
<1>24. \A m \in Importers : m # i => ImportWorks(importer[m])'
  <2> SUFFICES ASSUME NEW m \in Importers, m # i, NEW n, n = importer'[m]
               PROVE  ImportWorks(n)'
    BY DEF ImportWorks, NoPrimobalance, Registered
  <2>1. ImportWorks(n) /\ n.at # "landing"
    BY <1>22, <1>23
  <2> QED BY <2>1 DEF ImportWorks
<1>25. \A m \in Importers : \A b \in importer'[m].published :
         b \in files'[Importing] /\ ~Registered(Importing, b)' /\ Unowned(Importing, b)'
  <2> SUFFICES ASSUME NEW m \in Importers, NEW b \in importer'[m].published
               PROVE  b \in files'[Importing] /\ ~Registered(Importing, b)'
                      /\ Unowned(Importing, b)'
    OBVIOUS
  <2>1. m # i /\ b \in importer[m].published
    BY <1>19, <1>22
  <2>2. /\ b \in files[Importing] /\ ~Registered(Importing, b) /\ Unowned(Importing, b)
        /\ b \notin new
    BY <1>1, <1>3, <2>1 DEF PublishedHeld
  <2> QED BY <1>4, <1>14, <2>2 DEF Unowned, Owns
<1>26. /\ rejected' \subseteq Exports /\ vouchers' \subseteq Exports \union OtherSources
       /\ marker' \in Nat
  BY <1>4, <1>5, <1>16 DEF ImportTyped
<1> QED
  BY <1>9, <1>15, <1>16, <1>17, <1>19, <1>20, <1>21, <1>24, <1>25, <1>26, ImporterMoves

LEMMA UnlinkKeeps ==
  ASSUME ImportInv, NEW i \in Importers, NEW r \in Contents, UnlinkReceipt(i, r)
  PROVE  ImportInv'
<1> USE DEF ImportInv
<1>1. PICK o \in ImporterRecords : o = importer[i]
  BY DEF ImportTyped
<1>2. PICK p : p = o.published \ {r}
  OBVIOUS
<1>3. PICK j : j = [o EXCEPT !.published = p]
  OBVIOUS
<1>4. p \subseteq Contents /\ p \subseteq o.published
  BY <1>2, ImporterFields
<1>5. j \in ImporterRecords /\ j.at = o.at /\ j.source = o.source /\ j.published = p
  BY <1>3, <1>4 DEF ImporterRecords
<1>6. /\ o.at = "failed" /\ r \in o.published
      /\ files' = [files EXCEPT ![Importing] = @ \ {r}]
      /\ importer' = [importer EXCEPT ![i] = j]
      /\ UNCHANGED <<documents, writer, seen, mailQueue, handled, assignment, handoff,
                     openings, marker, vouchers, archive, accepted, rejected>>
  BY <1>1, <1>2, <1>3 DEF UnlinkReceipt, ImportTyped
<1>7. ~Registered(Importing, r) /\ Unowned(Importing, r)
  BY <1>1, <1>6 DEF PublishedHeld
<1>8. Importing \in Firms /\ files \in [Firms -> SUBSET Contents]
  BY HistoricalImportAssumption DEF IntakeInv, IntakeTyped
<1>9. /\ files' \in [Firms -> SUBSET Contents]
      /\ \A f \in Firms : \A b \in files[f] : ~(f = Importing /\ b = r) => b \in files'[f]
  BY <1>6, <1>8
<1>10. IntakeInv'
  BY <1>6, <1>7, <1>9, FilesChange
<1>11. \A m \in Importers : importer'[m] = IF m = i THEN j ELSE importer[m]
  BY <1>6 DEF ImportTyped
<1>12. \A m \in Importers : \A b \in importer'[m].published :
         b \in files'[Importing] /\ ~Registered(Importing, b)' /\ Unowned(Importing, b)'
  <2> SUFFICES ASSUME NEW m \in Importers, NEW b \in importer'[m].published
               PROVE  b \in files'[Importing] /\ ~Registered(Importing, b)'
                      /\ Unowned(Importing, b)'
    OBVIOUS
  <2>1. b \in importer[m].published /\ b # r
    BY <1>1, <1>2, <1>5, <1>6, <1>11 DEF PublishedHeld
  <2>2. b \in files[Importing] /\ ~Registered(Importing, b) /\ Unowned(Importing, b)
    BY <2>1 DEF PublishedHeld
  <2> QED BY <1>6, <1>8, <1>9, <2>1, <2>2 DEF Registered, Unowned, Owns
<1>13. \A m \in Importers : m # i => importer[m].published \cap j.published = {}
  BY <1>1, <1>4, <1>5 DEF PublishedHeld
<1>14. \A m \in Importers : m # i => ImportWorks(importer[m])'
  <2> SUFFICES ASSUME NEW m \in Importers, m # i, NEW n, n = importer'[m]
               PROVE  ImportWorks(n)'
    BY DEF ImportWorks, NoPrimobalance, Registered
  <2>1. ImportWorks(n)
    BY <1>11
  <2> QED BY <1>6, <2>1 DEF ImportWorks, NoPrimobalance, Registered
<1>15. ImportWorks(j)'
  <2>1. ImportWorks(o)
    BY <1>1
  <2> QED BY <1>5, <1>6, <2>1 DEF ImportWorks
<1>16. AcceptedFirst'
  BY <1>6, AcceptedStays
<1>17. /\ openings' \in Seq(OpeningOrigins) /\ marker' \in Nat /\ accepted' \in Seq(Exports)
       /\ rejected' \subseteq Exports /\ vouchers' \subseteq Exports \union OtherSources
  BY <1>6 DEF ImportTyped
<1> QED
  BY <1>5, <1>6, <1>10, <1>12, <1>13, <1>14, <1>15, <1>16, <1>17, ImporterMoves

(* Everyone else leaves an importer what is its own.                        *)
LEMMA OthersIngestKeeps ==
  ASSUME ImportInv, OthersIngest
  PROVE  ImportInv'
<1> USE DEF ImportInv
<1>1. DocumentIntakeNext /\ UNCHANGED historyVars
  BY DEF OthersIngest
<1>2. IntakeInv'
  BY <1>1, IntakeStep
<1>3. Importing \in Firms
  BY HistoricalImportAssumption
<1>4. \A b : Registered(Importing, b) => Registered(Importing, b)'
  BY <1>1, <1>3, RowsGrow DEF Registered
<1>5. /\ UNCHANGED <<openings, marker, vouchers, accepted, rejected, importer>>
  BY <1>1 DEF historyVars
<1>6. PublishedHeld'
  <2>1. ASSUME NEW m \in Importers, NEW b \in importer'[m].published
        PROVE  b \in files'[Importing] /\ ~Registered(Importing, b)'
               /\ Unowned(Importing, b)'
    <3>1. b \in files[Importing] /\ ~Registered(Importing, b) /\ Unowned(Importing, b)
      BY <1>5 DEF PublishedHeld
    <3> QED BY <1>1, <1>3, <3>1, IntakeLeaves
  <2> QED BY <1>5, <2>1 DEF PublishedHeld
<1>7. ASSUME NEW m \in Importers PROVE ImportWorks(importer[m])'
  <2> SUFFICES ASSUME NEW n, n = importer'[m] PROVE ImportWorks(n)'
    BY DEF ImportWorks, NoPrimobalance, Registered
  <2>1. ImportWorks(n)
    BY <1>5
  <2> QED BY <1>4, <1>5, <2>1 DEF ImportWorks, NoPrimobalance
<1>8. AcceptedFirst'
  BY <1>4, <1>5 DEF AcceptedFirst
<1>9. ImportTyped' /\ LandsAlone'
  BY <1>5 DEF ImportTyped, LandsAlone
<1> QED BY <1>2, <1>6, <1>7, <1>8, <1>9

(* The invariant of the import, with the one of the intake inside it.       *)
THEOREM ImportInvariant == ImportSpec => []ImportInv
<1>1. ImportInit => ImportInv
  <2> SUFFICES ASSUME ImportInit PROVE ImportInv
    OBVIOUS
  <2>1. IntakeInv
    BY IntakeStarts DEF ImportInit
  <2>2. \A i \in Importers : importer[i] = Resting
    BY DEF ImportInit
  <2>3. ImportTyped
    BY RestingWorks DEF ImportInit, ImportTyped
  <2>4. PublishedHeld /\ LandsAlone
    BY <2>2, RestingWorks DEF PublishedHeld, LandsAlone
  <2>5. AcceptedFirst
    BY DEF ImportInit, AcceptedFirst, Range
  <2> QED BY <2>1, <2>2, <2>3, <2>4, <2>5, RestingWorks DEF ImportInv
<1>2. ImportInv /\ [ImportNext]_importVars => ImportInv'
  <2> SUFFICES ASSUME ImportInv, [ImportNext]_importVars PROVE ImportInv'
    OBVIOUS
  <2>1. ASSUME NEW i \in Importers,
               \/ CheckOpening(i) \/ PostOpening(i) \/ MarkOpening(i)
               \/ \E s \in OtherSources : RunImport(i, s)
        PROVE  ImportInv'
    BY <2>1, PrimobalanceKeeps
  <2>2. ASSUME NEW i \in Importers,
               \/ \E d \in Exports : PlanDinero(i, d)
               \/ \E refused \in BOOLEAN : BeginDinero(i, refused)
               \/ FailDinero(i) \/ RecordRejected(i) \/ StopImporter(i)
        PROVE  ImportInv'
    BY <2>2, PlanKeeps
  <2>3. ASSUME NEW i \in Importers,
               \/ \E r \in Contents, refused \in BOOLEAN : IngestReceipt(i, r, refused)
               \/ \E r \in Contents : UnlinkReceipt(i, r)
               \/ AcceptDinero(i)
        PROVE  ImportInv'
    BY <2>3, ReceiptKeeps, UnlinkKeeps, AcceptKeeps
  <2>4. CASE UNCHANGED importVars
    <3>1. UNCHANGED documentVars /\ UNCHANGED historyVars
      BY <2>4 DEF importVars
    <3>2. IntakeInv'
      BY <3>1, OthersKeepIntake DEF ImportInv
    <3>3. UNCHANGED <<openings, marker, vouchers, accepted, rejected, importer,
                      files, documents, writer>>
      BY <3>1 DEF historyVars, documentVars
    <3>4. PublishedHeld'
      BY <3>3 DEF ImportInv, PublishedHeld, Registered, Unowned, Owns
    <3>5. ImportTyped' /\ LandsAlone' /\ AcceptedFirst'
      BY <3>3 DEF ImportInv, ImportTyped, LandsAlone, AcceptedFirst, Registered
    <3>6. \A i \in Importers : ImportWorks(importer[i])'
      BY <3>3 DEF ImportInv, ImportWorks, NoPrimobalance, Registered
    <3> QED BY <3>2, <3>4, <3>5, <3>6 DEF ImportInv
  <2> QED BY <2>1, <2>2, <2>3, <2>4, OthersIngestKeeps DEF ImportNext
<1> QED BY <1>1, <1>2, PTL DEF ImportSpec

(* One import of Dinero is accepted, ever; it began in a ledger without a   *)
(* primobalance, its receipts are documents, of rejected ones nothing is    *)
(* posted, and every document has its file (import/dinero-archive.ts,       *)
(* dinero-bilag.ts, opening-balance.ts).                                    *)
THEOREM CutoverIsWhole == ImportSpec => []CutoverStands
<1>1. ImportInv => CutoverStands
  <2> SUFFICES ASSUME ImportInv PROVE CutoverStands
    OBVIOUS
  <2>1. accepted \in Seq(Exports) /\ AcceptedFirst /\ DocumentsHaveFiles
    BY DEF ImportInv, ImportTyped, IntakeInv, FilesOwned
  <2>2. CASE accepted = <<>>
    BY <2>1, <2>2 DEF CutoverStands, AcceptedFirst, Range
  <2>3. CASE accepted # <<>>
    <3>1. Len(accepted) = 1 /\ Range(accepted) = {accepted[1]}
      BY <2>1, <2>3 DEF AcceptedFirst, Range
    <3> QED BY <2>1, <2>3, <3>1 DEF CutoverStands, AcceptedFirst
  <2> QED BY <2>2, <2>3
<1> QED BY <1>1, ImportInvariant, PTL

-----------------------------------------------------------------------------
(* The marker names a journal that is there.                                *)

MarkerNamesJournal ==
  /\ marker <= Len(openings)
  /\ \A i \in Importers :
       importer[i].at = "marking" => importer[i].entry <= Len(openings)

(* Journals may be added; nobody begins to mark.                            *)
LEMMA MarkerStays ==
  ASSUME ImportTyped, MarkerNamesJournal,
         openings' = openings \/ \E s : openings' = Append(openings, s),
         marker' = marker \/ marker' = Len(openings'),
         \A i \in Importers :
           importer'[i].at = "marking" => importer'[i] = importer[i]
  PROVE  MarkerNamesJournal'
<1>1. PICK n \in Nat : n = Len(openings)
  BY DEF ImportTyped
<1>2. PICK m \in Nat : m = Len(openings') /\ n <= m
  <2>1. CASE openings' = openings
    BY <1>1, <2>1
  <2>2. ASSUME NEW s, openings' = Append(openings, s)
        PROVE  Len(openings') = n + 1
    BY <1>1, <2>2 DEF ImportTyped
  <2> QED BY <1>1, <2>1, <2>2
<1>3. marker' <= m
  BY <1>1, <1>2 DEF ImportTyped, MarkerNamesJournal
<1>4. ASSUME NEW i \in Importers, importer'[i].at = "marking"
      PROVE  importer'[i].entry <= m
  <2>1. importer[i].entry \in Nat /\ importer[i].entry <= n /\ importer'[i] = importer[i]
    BY <1>1, <1>4, ImporterFields DEF ImportTyped, MarkerNamesJournal
  <2> QED BY <1>2, <2>1
<1> QED BY <1>2, <1>3, <1>4 DEF MarkerNamesJournal

(* One importer moves, and not to mark.                                     *)
LEMMA OnlyOneMoves ==
  ASSUME ImportTyped, NEW i \in Importers, NEW j, j.at # "marking",
         importer' = [importer EXCEPT ![i] = j]
  PROVE  \A k \in Importers : importer'[k].at = "marking" => importer'[k] = importer[k]
BY DEF ImportTyped

LEMMA MarkerStep ==
  ASSUME ImportTyped, MarkerNamesJournal, [ImportNext]_importVars
  PROVE  MarkerNamesJournal'
<1>1. Resting.at # "marking"
  BY DEF Resting
<1>2. ASSUME NEW i \in Importers, Rest(i)
      PROVE  \A k \in Importers : importer'[k].at = "marking" => importer'[k] = importer[k]
  BY <1>1, <1>2, OnlyOneMoves DEF Rest
<1>3. ASSUME NEW i \in Importers, NEW place, place # "marking", Proceed(i, place)
      PROVE  \A k \in Importers : importer'[k].at = "marking" => importer'[k] = importer[k]
  <2>1. PICK j : j = [importer[i] EXCEPT !.at = place]
    OBVIOUS
  <2>2. importer[i] \in ImporterRecords
    BY DEF ImportTyped
  <2>3. j.at = place /\ importer' = [importer EXCEPT ![i] = j]
    BY <1>3, <2>1, <2>2 DEF Proceed, ImporterRecords
  <2> QED BY <1>3, <2>3, OnlyOneMoves
<1>4. ASSUME NEW i \in Importers, CheckOpening(i) PROVE MarkerNamesJournal'
  BY <1>3, <1>4, MarkerStays DEF CheckOpening
<1>5. ASSUME NEW i \in Importers, PostOpening(i) PROVE MarkerNamesJournal'
  <2>1. PICK n \in Nat : n = Len(openings)
    BY DEF ImportTyped
  <2>2. Len(openings') = n + 1 /\ marker' = marker
    BY <1>5, <2>1 DEF PostOpening, ImportTyped
  <2>3. importer'[i].entry = n + 1 /\ \A k \in Importers : k # i => importer'[k] = importer[k]
    <3>1. importer[i] \in ImporterRecords /\ importer \in [Importers -> ImporterRecords]
      BY DEF ImportTyped
    <3> QED BY <1>5, <2>1, <3>1 DEF PostOpening, ImporterRecords
  <2>4. marker' <= n + 1
    BY <2>1, <2>2 DEF ImportTyped, MarkerNamesJournal
  <2>5. ASSUME NEW k \in Importers, importer'[k].at = "marking"
        PROVE  importer'[k].entry <= n + 1
    <3>1. CASE k = i
      BY <2>1, <2>3, <3>1
    <3>2. CASE k # i
      <4>1. importer[k].entry \in Nat /\ importer[k].entry <= n
        BY <2>1, <2>3, <2>5, <3>2, ImporterFields DEF ImportTyped, MarkerNamesJournal
      <4> QED BY <2>1, <2>3, <3>2, <4>1
    <3> QED BY <3>1, <3>2
  <2> QED BY <2>2, <2>4, <2>5 DEF MarkerNamesJournal
<1>6. ASSUME NEW i \in Importers, MarkOpening(i) PROVE MarkerNamesJournal'
  <2>1. marker' <= Len(openings)
    BY <1>6 DEF MarkOpening, MarkerNamesJournal
  <2>2. openings' = openings
    BY <1>6 DEF MarkOpening
  <2>3. \A k \in Importers : importer'[k].at = "marking" => importer'[k] = importer[k]
    BY <1>2, <1>6 DEF MarkOpening
  <2> QED BY <2>1, <2>2, <2>3 DEF MarkerNamesJournal
<1>7. ASSUME NEW i \in Importers, NEW s \in OtherSources, RunImport(i, s)
      PROVE  MarkerNamesJournal'
  <2>1. openings' = Append(openings, s) /\ marker' = Len(openings) + 1 /\ importer' = importer
    BY <1>7 DEF RunImport, Land
  <2>2. Len(openings') = Len(openings) + 1
    BY <2>1 DEF ImportTyped
  <2> QED BY <2>1, <2>2, MarkerStays
<1>8. ASSUME NEW i \in Importers, NEW d \in Exports, PlanDinero(i, d)
      PROVE  MarkerNamesJournal'
  <2>1. importer[i] \in ImporterRecords
    BY DEF ImportTyped
  <2>2. PICK j : /\ importer' = [importer EXCEPT ![i] = j]
                 /\ j = [importer[i] EXCEPT !.at = "planned", !.source = d,
                                            !.left = ReceiptsOf[d]]
    BY <1>8 DEF PlanDinero
  <2>3. j.at # "marking"
    BY <2>1, <2>2 DEF ImporterRecords
  <2>4. \A k \in Importers : importer'[k].at = "marking" => importer'[k] = importer[k]
    BY <2>2, <2>3, OnlyOneMoves
  <2> QED BY <1>8, <2>4, MarkerStays DEF PlanDinero
<1>9. ASSUME NEW i \in Importers, NEW refused \in BOOLEAN, BeginDinero(i, refused)
      PROVE  MarkerNamesJournal'
  BY <1>2, <1>3, <1>9, MarkerStays DEF BeginDinero
<1>10. ASSUME NEW i \in Importers, NEW r \in Contents, NEW refused \in BOOLEAN,
              IngestReceipt(i, r, refused)
       PROVE  MarkerNamesJournal'
  <2>1. importer[i] \in ImporterRecords /\ importer[i].at = "landing"
    BY <1>10 DEF ImportTyped, IngestReceipt
  <2>2. PICK left, good, published :
          importer' = [importer EXCEPT ![i] = [importer[i] EXCEPT
            !.left = left, !.good = good, !.published = published]]
    BY <1>10 DEF IngestReceipt
  <2>3. [importer[i] EXCEPT !.left = left, !.good = good, !.published = published].at
          = "landing"
    BY <2>1 DEF ImporterRecords
  <2>4. \A k \in Importers : importer'[k].at = "marking" => importer'[k] = importer[k]
    BY <2>2, <2>3, OnlyOneMoves
  <2> QED BY <1>10, <2>4, MarkerStays DEF IngestReceipt
<1>11. ASSUME NEW i \in Importers, AcceptDinero(i) PROVE MarkerNamesJournal'
  <2>1. PICK s : openings' = Append(openings, s) /\ marker' = Len(openings) + 1
    BY <1>11 DEF AcceptDinero, Land
  <2>2. Len(openings') = Len(openings) + 1
    BY <2>1 DEF ImportTyped
  <2> QED BY <1>2, <1>11, <2>1, <2>2, MarkerStays DEF AcceptDinero
<1>12. ASSUME NEW i \in Importers, FailDinero(i) PROVE MarkerNamesJournal'
  <2>1. importer[i] \in ImporterRecords
    BY DEF ImportTyped
  <2>2. PICK published :
          importer' = [importer EXCEPT ![i] = [importer[i] EXCEPT
            !.at = "failed", !.published = published]]
    BY <1>12 DEF FailDinero
  <2>3. [importer[i] EXCEPT !.at = "failed", !.published = published].at = "failed"
    BY <2>1 DEF ImporterRecords
  <2>4. \A k \in Importers : importer'[k].at = "marking" => importer'[k] = importer[k]
    BY <2>2, <2>3, OnlyOneMoves
  <2> QED BY <1>12, <2>4, MarkerStays DEF FailDinero
<1>13. ASSUME NEW i \in Importers, NEW r \in Contents, UnlinkReceipt(i, r)
       PROVE  MarkerNamesJournal'
  <2>1. importer[i] \in ImporterRecords /\ importer[i].at = "failed"
    BY <1>13 DEF ImportTyped, UnlinkReceipt
  <2>2. PICK published :
          importer' = [importer EXCEPT ![i] = [importer[i] EXCEPT !.published = published]]
    BY <1>13 DEF UnlinkReceipt
  <2>3. [importer[i] EXCEPT !.published = published].at = "failed"
    BY <2>1 DEF ImporterRecords
  <2>4. \A k \in Importers : importer'[k].at = "marking" => importer'[k] = importer[k]
    BY <2>2, <2>3, OnlyOneMoves
  <2> QED BY <1>13, <2>4, MarkerStays DEF UnlinkReceipt
<1>14. ASSUME NEW i \in Importers, RecordRejected(i) \/ StopImporter(i)
       PROVE  MarkerNamesJournal'
  BY <1>2, <1>14, MarkerStays DEF RecordRejected, StopImporter
<1>15. CASE UNCHANGED historyVars
  BY <1>15 DEF historyVars, MarkerNamesJournal
<1>16. CASE ImportNext
  BY <1>4, <1>5, <1>6, <1>7, <1>8, <1>9, <1>10, <1>11, <1>12, <1>13, <1>14, <1>15, <1>16
     DEF ImportNext, OthersIngest
<1> QED BY <1>15, <1>16 DEF importVars

(* The journals, the marker, the imports and the documents have their types. *)
THEOREM ImportTypes == ImportSpec => []ImportTypeOK
<1>1. ImportInit => MarkerNamesJournal
  <2> SUFFICES ASSUME ImportInit PROVE MarkerNamesJournal
    OBVIOUS
  <2>1. Len(openings) = 0 /\ marker = 0
    BY DEF ImportInit
  <2>2. \A i \in Importers : importer[i].at = "idle"
    BY RestingWorks DEF ImportInit
  <2> QED BY <2>1, <2>2 DEF MarkerNamesJournal
<1>2. ImportInv /\ MarkerNamesJournal /\ [ImportNext]_importVars => MarkerNamesJournal'
  BY MarkerStep DEF ImportInv
<1>3. ImportInv /\ MarkerNamesJournal => ImportTypeOK
  <2> SUFFICES ASSUME ImportInv, MarkerNamesJournal PROVE ImportTypeOK
    OBVIOUS
  <2>1. ImportTyped /\ DocumentIntakeTypeOK
    BY IntakeIsTyped DEF ImportInv
  <2>2. marker \in 0..Len(openings)
    BY <2>1 DEF ImportTyped, MarkerNamesJournal
  <2>3. Range(openings) \subseteq OpeningOrigins /\ Range(accepted) \subseteq Exports
    BY <2>1 DEF ImportTyped, Range
  <2>4. ASSUME NEW i \in Importers
        PROVE  importer[i].at \in {"idle", "posting", "marking", "planned", "landing",
                                   "failed"}
    BY <2>1, ImporterFields DEF ImportTyped
  <2> QED BY <2>1, <2>2, <2>3, <2>4 DEF ImportTyped, ImportTypeOK, OpeningOrigins
<1> QED BY <1>1, <1>2, <1>3, ImportInvariant, PTL DEF ImportSpec

-----------------------------------------------------------------------------
(* SchemaMigrations: the history is true whoever opens the ledger, and the *)
(* guards are what it says once nobody is opening it, for any migrations,  *)
(* guards and processes.  As long as a guard is not what the history says, *)
(* some process that is opening the ledger will put it right: one that has *)
(* not restored the triggers yet, one that has the blocks on the guard     *)
(* before it, or one that creates the guard it dropped.  One that loses a  *)
(* race gives up, and leaves that to the winner.  While the table of the   *)
(* history is loose nobody is past it, so whoever rebuilds it alone puts   *)
(* back all the rows there are.                                            *)

SchemaSteps ==
  {"closed", "check", "inspect", "rebuild", "restore", "record", "upgrade", "look",
   "apply", "reassert", "create", "ready"}

OpenerRecords == [step : SchemaSteps, at : Nat, version : Nat]

SchemaTyped ==
  /\ opener \in [Openers -> OpenerRecords]
  /\ history \subseteq Nat
  /\ built \in [Migrations -> Nat]
  /\ body \in [Guards -> Bodies]
  /\ crashes \in Nat /\ mixed \in BOOLEAN
  /\ loose \in BOOLEAN /\ doubled \in BOOLEAN
  /\ readRows \in [Openers -> SUBSET Nat]

HistoryPrefix == ~doubled => \A m \in history : 1 .. m \subseteq history

(* Who looks for a migration or applies it has all before it in the         *)
(* history.                                                                 *)
NextIsApplied ==
  \A o \in Openers : opener[o].step \in {"look", "apply"} =>
    /\ opener[o].at \in Nat \ {0}
    /\ opener[o].step = "apply" => opener[o].at <= opener[o].version
    /\ ~doubled => 1 .. (opener[o].at - 1) \subseteq history

(* Nobody is past the loose table.  Whoever rebuilds it alone has read all  *)
(* that is in it, and whatever anybody has read there has run.              *)
Past == {"look", "apply", "reassert", "create", "ready"}

LoneRebuild ==
  /\ loose => \A o \in Openers : opener[o].step \notin Past
  /\ ~doubled => \A o \in Openers : opener[o].step = "upgrade" =>
       /\ loose /\ readRows[o] = history
       /\ \A q \in Openers : opener[q].step = "upgrade" => q = o

RowsRan == \A o \in Openers, m \in Migrations : m \in readRows[o] => built[m] >= 1

(* The blocks are counted from one.                                         *)
BlocksBegin == \A o \in Openers : opener[o].step = "reassert" => opener[o].at >= 1

(* Unless two programs were opening it, those that do are the same one, and *)
(* it has all migrations of the history.                                    *)
OneProgram ==
  ~mixed /\ ~doubled =>
    /\ \A o \in Opening : history \subseteq 1 .. opener[o].version
    /\ \A o, q \in Opening : opener[o].version = opener[q].version

(* Old VAT periods that contradict each other stop every opening.           *)
DisputeStops ==
  disputed =>
    /\ 1 \in old
    /\ \A o \in Openers :
         \/ opener[o].step \in {"closed", "check"}
         \/ opener[o].step = "inspect" /\ opener[o].at = 1

-----------------------------------------------------------------------------
(* The guards.                                                              *)

Said(g) ==
  {i \in DOMAIN Reassertions : Reassertions[i][2] = g /\ Reassertions[i][1] \in history}

LastSaid(g) == CHOOSE i \in Said(g) : \A j \in Said(g) : j <= i

Right(g) == body[g] = LastWord(g)

Late == {"record", "upgrade", "look", "apply", "reassert", "create", "ready"}

(* Who has the last word on the guard still before it.                      *)
WillSay(o, g) ==
  \/ opener[o].step \in {"record", "upgrade", "look"}
  \/ opener[o].step = "apply" /\ opener[o].at \notin history
  \/ opener[o].step = "reassert" /\ opener[o].at <= LastSaid(g)

Attended(g) ==
  \/ \E o \in Openers : opener[o].step \in {"inspect", "rebuild", "restore"}
  \/ Said(g) # {} /\ \E o \in Openers : WillSay(o, g)
  \/ g = LastGuard /\ body[g] = 0 /\ \E o \in Openers : opener[o].step = "create"

(* Beyond the triggers of the first schema, every guard is right or in the  *)
(* hands of somebody.                                                       *)
GuardsAttended ==
  ~doubled =>
    /\ \A g \in Guards \ BaselineGuards : Said(g) = {} => body[g] = 0
    /\ crashes = 0 /\ ~mixed /\ (\E o \in Openers : opener[o].step \in Late) =>
         \A g \in Guards : Right(g) \/ Attended(g)

(* What holds of the history and the processes, whatever the guards.        *)
OpeningsStand ==
  /\ SchemaTyped /\ HistoryIsTrue /\ HistoryPrefix /\ NextIsApplied /\ BlocksBegin
  /\ OneProgram /\ DisputeStops /\ LoneRebuild /\ RowsRan

SchemaInv == OpeningsStand /\ GuardsAttended

-----------------------------------------------------------------------------
LEMMA OpenerFields ==
  ASSUME SchemaTyped, NEW o \in Openers
  PROVE  /\ opener[o].step \in SchemaSteps /\ opener[o].at \in Nat
         /\ opener[o].version \in Nat
BY DEF SchemaTyped, OpenerRecords

(* A step of one process to a place.                                        *)
LEMMA MoveFields ==
  ASSUME SchemaTyped, NEW o \in Openers, NEW s \in SchemaSteps, NEW n \in Nat,
         MoveTo(o, s, n)
  PROVE  /\ opener' \in [Openers -> OpenerRecords]
         /\ opener'[o].step = s /\ opener'[o].at = n
         /\ opener'[o].version = opener[o].version
         /\ \A q \in Openers : q # o => opener'[q] = opener[q]
<1>1. PICK a \in OpenerRecords : a = opener[o]
  BY DEF SchemaTyped
<1>2. PICK b : b = [a EXCEPT !.step = s]
  OBVIOUS
<1>3. PICK c : c = [b EXCEPT !.at = n]
  OBVIOUS
<1>4. b \in OpenerRecords /\ b.step = s /\ b.version = a.version
  BY <1>2 DEF OpenerRecords
<1>5. c \in OpenerRecords /\ c.step = s /\ c.version = a.version /\ c.at = n
  BY <1>3, <1>4 DEF OpenerRecords
<1>6. opener' = [opener EXCEPT ![o] = c]
  BY <1>1, <1>2, <1>3 DEF MoveTo, SchemaTyped
<1> QED BY <1>1, <1>5, <1>6 DEF SchemaTyped

LEMMA ClosedFields ==
  ASSUME SchemaTyped, NEW o \in Openers, opener' = [opener EXCEPT ![o] = Closed]
  PROVE  /\ opener' \in [Openers -> OpenerRecords]
         /\ opener'[o].step = "closed"
         /\ \A q \in Openers : q # o => opener'[q] = opener[q]
<1>1. PICK c : c = Closed
  OBVIOUS
<1>2. c \in OpenerRecords /\ c.step = "closed"
  BY <1>1 DEF Closed, OpenerRecords, SchemaSteps
<1> QED BY <1>1, <1>2 DEF SchemaTyped

(* The last word is the word of the last who said something.                *)
LEMMA LastSaidIs ==
  ASSUME NEW g, Said(g) # {}
  PROVE  /\ LastSaid(g) \in Said(g) /\ LastSaid(g) \in Nat
         /\ \A j \in Said(g) : j <= LastSaid(g)
         /\ LastWord(g) = Reassertions[LastSaid(g)][3]
<1>1. PICK n \in Nat : n = Len(Reassertions) /\ DOMAIN Reassertions = 1 .. n
  BY SchemaAssumption
<1>2. PICK S : S = Said(g)
  OBVIOUS
<1>3. S \in SUBSET Nat /\ S # {} /\ \A i \in S : i <= n
  BY <1>1, <1>2 DEF Said
<1>4. \E i \in S : \A j \in S : j <= i
  BY <1>1, <1>3, GreatestExists
<1>5. PICK l : l = CHOOSE i \in S : \A j \in S : j <= i
  OBVIOUS
<1>6. l \in S /\ \A j \in S : j <= l
  BY <1>4, <1>5
<1>7. LastSaid(g) = l
  BY <1>2, <1>5 DEF LastSaid
<1>8. LastWord(g) = Reassertions[l][3]
  BY <1>2, <1>3, <1>5 DEF LastWord, Said
<1> QED BY <1>2, <1>3, <1>6, <1>7, <1>8

LEMMA Unsaid ==
  ASSUME NEW g, Said(g) = {}
  PROVE  LastWord(g) = IF g \in BaselineGuards THEN 1 ELSE 0
BY DEF LastWord, Said

-----------------------------------------------------------------------------
(* The history and the processes.                                           *)

LEMMA HistoryKept ==
  ASSUME UNCHANGED history, NEW g
  PROVE  Said(g)' = Said(g) /\ LastSaid(g)' = LastSaid(g) /\ LastWord(g)' = LastWord(g)
BY DEF Said, LastSaid, LastWord

(* One process goes on or gives up, and the history stays.                  *)
LEMMA OneOpenerMoves ==
  ASSUME OpeningsStand, NEW o \in Openers,
         UNCHANGED <<history, built, disputed, mixed>>, doubled => doubled',
         readRows' \in [Openers -> SUBSET Nat], loose' \in BOOLEAN, doubled' \in BOOLEAN,
         LoneRebuild', RowsRan',
         opener' \in [Openers -> OpenerRecords],
         \A q \in Openers : q # o => opener'[q] = opener[q],
         opener'[o].step = "closed" \/
           (o \in Opening /\ opener'[o].version = opener[o].version),
         opener'[o].step \in {"look", "apply"} =>
           /\ opener'[o].at \in Nat \ {0}
           /\ opener'[o].step = "apply" => opener'[o].at <= opener'[o].version
           /\ ~doubled' => 1 .. (opener'[o].at - 1) \subseteq history,
         opener'[o].step = "reassert" => opener'[o].at >= 1,
         disputed => /\ 1 \in old'
                     /\ \/ opener'[o].step \in {"closed", "check"}
                        \/ opener'[o].step = "inspect" /\ opener'[o].at = 1,
         body' \in [Guards -> Bodies], crashes' \in Nat
  PROVE  OpeningsStand'
<1>1. SchemaTyped'
  BY DEF OpeningsStand, SchemaTyped
<1>2. HistoryIsTrue'
  BY DEF OpeningsStand, HistoryIsTrue
<1>3. HistoryPrefix'
  BY DEF OpeningsStand, HistoryPrefix
<1>4. NextIsApplied'
  <2>1. \A q \in Openers : opener'[q].step \in {"look", "apply"} =>
          /\ opener'[q].at \in Nat \ {0}
          /\ opener'[q].step = "apply" => opener'[q].at <= opener'[q].version
          /\ ~doubled' => 1 .. (opener'[q].at - 1) \subseteq history
    BY DEF OpeningsStand, NextIsApplied
  <2> QED BY <2>1 DEF NextIsApplied
<1>5. BlocksBegin'
  BY DEF OpeningsStand, BlocksBegin
<1>6. \A q \in Opening' : q \in Opening /\ opener'[q].version = opener[q].version
  BY DEF Opening
<1>7. OneProgram'
  BY <1>6 DEF OpeningsStand, OneProgram
<1>8. DisputeStops'
  BY DEF OpeningsStand, DisputeStops
<1> QED BY <1>1, <1>2, <1>3, <1>4, <1>5, <1>7, <1>8 DEF OpeningsStand

(* It does not turn to the loose table.                                     *)
LEMMA LeavesTable ==
  ASSUME OpeningsStand, NEW o \in Openers,
         UNCHANGED <<history, built, loose, readRows, doubled>>,
         \A q \in Openers : q # o => opener'[q] = opener[q],
         opener'[o].step # "upgrade",
         opener'[o].step \in Past => opener[o].step \in Past
  PROVE  /\ LoneRebuild' /\ RowsRan' /\ doubled' = doubled
         /\ readRows' \in [Openers -> SUBSET Nat] /\ loose' \in BOOLEAN
         /\ doubled' \in BOOLEAN
<1>1. RowsRan'
  BY DEF OpeningsStand, RowsRan
<1>2. LoneRebuild'
  BY DEF OpeningsStand, LoneRebuild
<1> QED BY <1>1, <1>2 DEF OpeningsStand, SchemaTyped

(* What a step that leaves the history must leave to the guards.            *)
LEMMA GuardsStayAttended ==
  ASSUME UNCHANGED <<history, mixed>>,
         ~doubled' => \A g \in Guards \ BaselineGuards : Said(g) = {} => body'[g] = 0,
         crashes' = 0 /\ ~mixed /\ ~doubled'
           /\ (\E o \in Openers : opener'[o].step \in Late) =>
           \A g \in Guards : body'[g] = LastWord(g) \/ Attended(g)'
  PROVE  GuardsAttended'
<1>1. \A g : Said(g)' = Said(g) /\ LastWord(g)' = LastWord(g)
  BY HistoryKept
<1>2. \A g : Right(g)' <=> body'[g] = LastWord(g)
  BY <1>1 DEF Right
<1> QED BY <1>1, <1>2 DEF GuardsAttended

(* Giving up leaves a guard to somebody, unless it was the one.             *)
LEMMA OthersAttend ==
  ASSUME NEW g \in Guards, NEW o \in Openers, UNCHANGED history, Attended(g),
         body'[g] = body[g],
         \A q \in Openers : q # o => opener'[q] = opener[q],
         opener[o].step \notin {"inspect", "rebuild", "restore"},
         Said(g) # {} => ~WillSay(o, g),
         g = LastGuard /\ body[g] = 0 => opener[o].step # "create"
  PROVE  Attended(g)'
<1>1. Said(g)' = Said(g) /\ LastSaid(g)' = LastSaid(g)
  BY HistoryKept
<1>2. CASE \E q \in Openers : opener[q].step \in {"inspect", "rebuild", "restore"}
  BY <1>2 DEF Attended
<1>3. CASE Said(g) # {} /\ \E q \in Openers : WillSay(q, g)
  <2>1. PICK q \in Openers : WillSay(q, g)
    BY <1>3
  <2>2. q # o
    BY <1>3, <2>1
  <2>3. WillSay(q, g)'
    BY <1>1, <2>1, <2>2 DEF WillSay
  <2> QED BY <1>1, <1>3, <2>3 DEF Attended
<1>4. CASE g = LastGuard /\ body[g] = 0 /\ \E q \in Openers : opener[q].step = "create"
  BY <1>4 DEF Attended
<1> QED BY <1>2, <1>3, <1>4 DEF Attended

-----------------------------------------------------------------------------
(* The steps.                                                               *)

LEMMA PreflightStep ==
  ASSUME SchemaInv, NEW o \in Openers, NEW v \in Versions, Preflight(o, v)
  PROVE  SchemaInv'
<1>1. PICK r : r = [step |-> "check", at |-> 0, version |-> v]
  OBVIOUS
<1>2. v \in Nat
  BY SchemaAssumption
<1>3. r \in OpenerRecords /\ r.step = "check" /\ r.version = v
  BY <1>1, <1>2 DEF OpenerRecords, SchemaSteps
<1>4. SchemaTyped
  BY DEF SchemaInv, OpeningsStand
<1>5. opener' = [opener EXCEPT ![o] = r]
  BY <1>1 DEF Preflight, migrationVars
<1>6. /\ opener' \in [Openers -> OpenerRecords] /\ opener'[o] = r
      /\ \A q \in Openers : q # o => opener'[q] = opener[q]
  BY <1>3, <1>4, <1>5 DEF SchemaTyped
<1>7. opener[o].step = "closed"
  BY DEF Preflight, Closed
<1>8. UNCHANGED <<history, loose, readRows, built, doubled, old, disputed, body, crashes>>
  BY DEF Preflight, migrationVars
<1>80. LoneRebuild' /\ RowsRan'
  BY <1>3, <1>6, <1>8, LeavesTable DEF SchemaInv, OpeningsStand, Past
<1>9. SchemaTyped'
  <2>1. mixed' \in BOOLEAN
    BY DEF Preflight, migrationVars
  <2> QED BY <1>4, <1>6, <1>8, <2>1 DEF SchemaTyped
<1>10. HistoryIsTrue' /\ HistoryPrefix'
  BY <1>8 DEF SchemaInv, OpeningsStand, HistoryIsTrue, HistoryPrefix
<1>11. NextIsApplied'
  <2>1. \A q \in Openers : opener'[q].step \in {"look", "apply"} =>
          /\ opener'[q].at \in Nat \ {0}
          /\ opener'[q].step = "apply" => opener'[q].at <= opener'[q].version
          /\ ~doubled => 1 .. (opener'[q].at - 1) \subseteq history
    BY <1>3, <1>6 DEF SchemaInv, OpeningsStand, NextIsApplied
  <2> QED BY <1>8, <2>1 DEF NextIsApplied
<1>12. BlocksBegin'
  BY <1>3, <1>6 DEF SchemaInv, OpeningsStand, BlocksBegin
<1>13. OneProgram'
  <2>1. SUFFICES ASSUME ~mixed', ~doubled'
                 PROVE  /\ \A q \in Opening' : history' \subseteq 1 .. opener'[q].version
                        /\ \A q, p \in Opening' : opener'[q].version = opener'[p].version
    BY DEF OneProgram
  <2>2. ~mixed /\ \A q \in Opening : opener[q].version = v
    BY <2>1 DEF Preflight, migrationVars
  <2>3. \A q \in Opening' : opener'[q].version = v
    BY <1>3, <1>6, <2>2 DEF Opening
  <2>4. history' \subseteq 1 .. v
    BY <1>8 DEF Preflight, Compatible
  <2> QED BY <2>3, <2>4
<1>14. DisputeStops'
  BY <1>3, <1>6, <1>8 DEF SchemaInv, OpeningsStand, DisputeStops
<1>15. OpeningsStand'
  BY <1>9, <1>10, <1>11, <1>12, <1>13, <1>14, <1>80 DEF OpeningsStand
<1>16. GuardsAttended'
  <2>1. mixed \in BOOLEAN /\ (~mixed' => ~mixed)
    BY <1>4 DEF Preflight, SchemaTyped
  <2>2. \A g : Said(g)' = Said(g) /\ LastWord(g)' = LastWord(g)
    BY <1>8, HistoryKept
  <2>3. ~doubled' => \A g \in Guards \ BaselineGuards : Said(g)' = {} => body'[g] = 0
    BY <1>8, <2>2 DEF SchemaInv, GuardsAttended
  <2>4. ASSUME crashes' = 0, ~mixed', ~doubled', \E q \in Openers : opener'[q].step \in Late,
               NEW g \in Guards
        PROVE  Right(g)' \/ Attended(g)'
    <3>1. \E q \in Openers : opener[q].step \in Late
      BY <1>3, <1>6, <2>4 DEF Late
    <3>2. Right(g) \/ Attended(g)
      BY <1>8, <2>1, <2>4, <3>1 DEF SchemaInv, GuardsAttended
    <3>3. ~WillSay(o, g)
      BY <1>7 DEF WillSay
    <3>4. Attended(g) => Attended(g)'
      BY <1>6, <1>7, <1>8, <3>3, OthersAttend
    <3> QED BY <1>8, <2>2, <3>2, <3>4 DEF Right
  <2> QED BY <2>3, <2>4 DEF GuardsAttended
<1> QED BY <1>15, <1>16 DEF SchemaInv

(* A process gives up that is not one of those guards wait for.             *)
LEMMA AbandonStep ==
  ASSUME SchemaInv, NEW o \in Openers, AbandonOpening(o), UNCHANGED mixed,
         crashes' \in Nat, crashes' = 0 => crashes = 0,
         ~mixed /\ ~doubled /\ crashes' = 0 =>
           /\ opener[o].step \in {"check", "inspect", "apply", "create", "ready"}
           /\ opener[o].step = "inspect" => disputed
           /\ opener[o].step = "apply" => opener[o].at \in history
           /\ opener[o].step = "create" => body[LastGuard] # 0
  PROVE  SchemaInv'
<1>1. SchemaTyped
  BY DEF SchemaInv, OpeningsStand
<1>2. UNCHANGED <<history, loose, readRows, built, doubled, old, disputed, body>>
  BY DEF AbandonOpening, migrationVars
<1>3. /\ opener' \in [Openers -> OpenerRecords] /\ opener'[o].step = "closed"
      /\ \A q \in Openers : q # o => opener'[q] = opener[q]
  BY <1>1, ClosedFields DEF AbandonOpening, migrationVars
<1>4. body' \in [Guards -> Bodies]
  BY <1>1, <1>2 DEF SchemaTyped
<1>5. OpeningsStand'
  <2>1. LoneRebuild' /\ RowsRan'
    BY <1>2, <1>3, LeavesTable DEF SchemaInv, Past
  <2>2. disputed => 1 \in old'
    BY <1>2 DEF SchemaInv, OpeningsStand, DisputeStops
  <2> QED BY <1>1, <1>2, <1>3, <1>4, <2>1, <2>2, OneOpenerMoves DEF SchemaInv, SchemaTyped
<1>6. ~doubled => \A g \in Guards \ BaselineGuards : Said(g) = {} => body'[g] = 0
  BY <1>2 DEF SchemaInv, GuardsAttended
<1>7. ASSUME crashes' = 0, ~mixed, ~doubled', \E q \in Openers : opener'[q].step \in Late,
             NEW g \in Guards
      PROVE  body'[g] = LastWord(g) \/ Attended(g)'
  <2>1. \E q \in Openers : opener[q].step \in Late
    BY <1>3, <1>7 DEF Late
  <2>2. ~disputed
    BY <2>1 DEF SchemaInv, OpeningsStand, DisputeStops, Late
  <2>3. Right(g) \/ Attended(g)
    BY <1>2, <1>7, <2>1 DEF SchemaInv, GuardsAttended
  <2>4. ~WillSay(o, g)
    BY <1>2, <1>7 DEF WillSay
  <2>5. Attended(g) => Attended(g)'
    BY <1>2, <1>3, <1>7, <2>2, <2>4, OthersAttend
  <2> QED BY <1>2, <2>3, <2>5 DEF Right
<1>8. GuardsAttended'
  BY <1>2, <1>6, <1>7, GuardsStayAttended
<1> QED BY <1>5, <1>8 DEF SchemaInv

(* Whoever is opening it alone with its like finds the history compatible.  *)
LEMMA AloneIsCompatible ==
  ASSUME SchemaInv, ~mixed, ~doubled, NEW o \in Opening
  PROVE  Compatible(opener[o].version)
<1>1. history \subseteq 1 .. opener[o].version
  BY DEF SchemaInv, OpeningsStand, OneProgram
<1>2. \A m \in history : 1 .. m \subseteq history
  BY DEF SchemaInv, OpeningsStand, HistoryPrefix
<1> QED BY <1>1, <1>2 DEF Compatible

LEMMA GuardBodies == SchemaTyped => \A g \in Guards : body[g] \in Bodies
BY DEF SchemaTyped

LEMMA ClosedIsOpening ==
  ASSUME NEW o \in Openers, opener[o].step \notin {"closed", "ready"}
  PROVE  o \in Opening
BY DEF Opening

(* A step to a place where the triggers are about to be restored.           *)
LEMMA AheadOfRestore ==
  ASSUME SchemaInv, NEW o \in Openers, UNCHANGED <<history, mixed, doubled>>,
         opener'[o].step \in {"inspect", "rebuild", "restore"},
         ~doubled => \A g \in Guards \ BaselineGuards : Said(g) = {} => body'[g] = 0
  PROVE  GuardsAttended'
<1>1. \A g \in Guards : Attended(g)'
  BY DEF Attended
<1> QED BY <1>1, GuardsStayAttended

LEMMA EvaluateStep ==
  ASSUME SchemaInv, NEW o \in Openers, EvaluateSchema(o)
  PROVE  SchemaInv'
<1>1. SchemaTyped
  BY DEF SchemaInv, OpeningsStand
<1>2. opener[o].step = "check" /\ UNCHANGED <<mixed, crashes>>
  BY DEF EvaluateSchema, migrationVars
<1>3. o \in Opening /\ crashes' \in Nat
  BY <1>1, <1>2, ClosedIsOpening DEF SchemaTyped
<1>4. CASE ~Compatible(opener[o].version)
  <2>1. AbandonOpening(o)
    BY <1>4 DEF EvaluateSchema, migrationVars
  <2>2. UNCHANGED mixed /\ (crashes' = 0 => crashes = 0)
    BY <1>2
  <2> QED BY <1>2, <1>3, <2>1, <2>2, AbandonStep
<1>5. CASE Compatible(opener[o].version)
  <2>1. MoveTo(o, "inspect", 1) /\ UNCHANGED <<history, loose, readRows, built, doubled, old, disputed>>
    BY <1>5 DEF EvaluateSchema, migrationVars
  <2>2. body' = [g \in Guards |->
                   IF g \in BaselineGuards /\ body[g] = 0 THEN 1 ELSE body[g]]
    BY <1>5 DEF EvaluateSchema, migrationVars
  <2>3. /\ opener' \in [Openers -> OpenerRecords] /\ opener'[o].step = "inspect"
        /\ opener'[o].at = 1 /\ opener'[o].version = opener[o].version
        /\ \A q \in Openers : q # o => opener'[q] = opener[q]
    BY <1>1, <2>1, MoveFields DEF SchemaSteps
  <2>30. LoneRebuild' /\ RowsRan' /\ (disputed => 1 \in old')
    BY <2>1, <2>3, LeavesTable DEF SchemaInv, OpeningsStand, DisputeStops, Past
  <2>4. 1 \in Bodies
    BY DEF Bodies
  <2>5. body' \in [Guards -> Bodies]
    BY <1>1, <2>2, <2>4, GuardBodies
  <2>6. OpeningsStand'
    BY <1>1, <1>2, <1>3, <2>1, <2>3, <2>30, <2>5, OneOpenerMoves DEF SchemaInv, SchemaTyped
  <2>7. ~doubled => \A g \in Guards \ BaselineGuards : Said(g) = {} => body'[g] = 0
    BY <2>2 DEF SchemaInv, GuardsAttended
  <2>8. GuardsAttended'
    BY <1>2, <2>1, <2>3, <2>7, AheadOfRestore
  <2> QED BY <2>6, <2>8 DEF SchemaInv
<1> QED BY <1>4, <1>5

(* A step among the places before that.                                     *)
LEMMA OnlyAhead ==
  ASSUME SchemaInv, NEW o \in Openers, o \in Opening, ~disputed,
         UNCHANGED <<history, loose, readRows, built, doubled, old, disputed, body, mixed,
                     crashes>>,
         opener' \in [Openers -> OpenerRecords],
         opener'[o].step \in {"inspect", "rebuild", "restore"},
         opener'[o].version = opener[o].version,
         \A q \in Openers : q # o => opener'[q] = opener[q]
  PROVE  SchemaInv'
<1>1. LoneRebuild' /\ RowsRan'
  BY LeavesTable DEF SchemaInv, Past
<1>2. body' \in [Guards -> Bodies] /\ crashes' \in Nat
  BY DEF SchemaInv, OpeningsStand, SchemaTyped
<1>3. OpeningsStand'
  BY <1>1, <1>2, OneOpenerMoves DEF SchemaInv, OpeningsStand, SchemaTyped
<1>4. GuardsAttended'
  BY AheadOfRestore DEF SchemaInv, GuardsAttended
<1> QED BY <1>3, <1>4 DEF SchemaInv

LEMMA InspectStep ==
  ASSUME SchemaInv, NEW o \in Openers, InspectTable(o)
  PROVE  SchemaInv'
<1>1. SchemaTyped
  BY DEF SchemaInv, OpeningsStand
<1>2. PICK i : i = opener[o].at
  OBVIOUS
<1>3. opener[o].step = "inspect" /\ UNCHANGED <<mixed, crashes>> /\ i \in Nat
  BY <1>1, <1>2, OpenerFields DEF InspectTable
<1>4. o \in Opening /\ crashes' \in Nat /\ crashes' = crashes
  BY <1>1, <1>3, ClosedIsOpening DEF SchemaTyped
<1>5. CASE i \in old /\ i = 1 /\ disputed
  <2>1. AbandonOpening(o)
    BY <1>2, <1>5 DEF InspectTable
  <2> QED BY <1>3, <1>4, <1>5, <2>1, AbandonStep
<1>6. CASE ~(i \in old /\ i = 1 /\ disputed)
  <2>1. UNCHANGED <<history, loose, readRows, built, doubled, old, disputed, body>>
    BY <1>2, <1>6 DEF InspectTable, migrationVars
  <2>2. ~disputed
    BY <1>2, <1>3, <1>6 DEF SchemaInv, OpeningsStand, DisputeStops
  <2>3. PICK s \in {"inspect", "rebuild", "restore"}, n \in Nat : MoveTo(o, s, n)
    <3>1. CASE i \notin DOMAIN OldTables
      BY <1>2, <1>6, <3>1 DEF InspectTable
    <3>2. CASE i \in DOMAIN OldTables /\ i \in old
      BY <1>2, <1>3, <1>6, <3>2 DEF InspectTable
    <3>3. CASE i \in DOMAIN OldTables /\ i \notin old
      <4>1. i + 1 \in Nat /\ MoveTo(o, "inspect", i + 1)
        BY <1>2, <1>3, <1>6, <3>3 DEF InspectTable
      <4> QED BY <4>1
    <3> QED BY <3>1, <3>2, <3>3
  <2>4. /\ opener' \in [Openers -> OpenerRecords] /\ opener'[o].step = s
        /\ opener'[o].version = opener[o].version
        /\ \A q \in Openers : q # o => opener'[q] = opener[q]
    BY <1>1, <2>3, MoveFields DEF SchemaSteps
  <2> QED BY <1>1, <1>3, <1>4, <2>1, <2>2, <2>4, OnlyAhead
<1> QED BY <1>5, <1>6

LEMMA RebuildStep ==
  ASSUME SchemaInv, NEW o \in Openers, RebuildTable(o)
  PROVE  SchemaInv'
<1>1. SchemaTyped
  BY DEF SchemaInv, OpeningsStand
<1>2. PICK i : i = opener[o].at
  OBVIOUS
<1>3. /\ opener[o].step = "rebuild" /\ UNCHANGED <<mixed, crashes>> /\ i \in Nat
      /\ UNCHANGED <<history, loose, readRows, built, doubled, disputed>>
      /\ body' = [body EXCEPT ![OldTables[i]] = 0] /\ MoveTo(o, "inspect", i + 1)
  BY <1>1, <1>2, OpenerFields DEF RebuildTable, migrationVars
<1>4. o \in Opening /\ crashes' \in Nat /\ crashes' = crashes
  BY <1>1, <1>3, ClosedIsOpening DEF SchemaTyped
<1>5. ~disputed
  BY <1>3 DEF SchemaInv, OpeningsStand, DisputeStops
<1>6. i + 1 \in Nat
  BY <1>3
<1>7. /\ opener' \in [Openers -> OpenerRecords] /\ opener'[o].step = "inspect"
      /\ opener'[o].version = opener[o].version
      /\ \A q \in Openers : q # o => opener'[q] = opener[q]
  BY <1>1, <1>3, <1>6, MoveFields DEF SchemaSteps
<1>8. 0 \in Bodies
  BY DEF Bodies
<1>9. body' \in [Guards -> Bodies]
  BY <1>1, <1>3, <1>8 DEF SchemaTyped
<1>10. \A g \in Guards : body'[g] = 0 \/ body'[g] = body[g]
  BY <1>1, <1>3 DEF SchemaTyped
<1>11. LoneRebuild' /\ RowsRan'
  BY <1>3, <1>7, LeavesTable DEF SchemaInv, Past
<1>12. OpeningsStand'
  BY <1>1, <1>3, <1>4, <1>5, <1>7, <1>9, <1>11, OneOpenerMoves DEF SchemaInv, SchemaTyped
<1>13. ~doubled => \A g \in Guards \ BaselineGuards : Said(g) = {} => body'[g] = 0
  BY <1>10 DEF SchemaInv, GuardsAttended
<1>14. GuardsAttended'
  BY <1>3, <1>7, <1>13, AheadOfRestore
<1> QED BY <1>12, <1>14 DEF SchemaInv

(* A process past the disputes shows there are none.                        *)
LEMMA NoDispute ==
  ASSUME SchemaInv, NEW o \in Openers,
         opener[o].step \notin {"closed", "check", "inspect"}
  PROVE  ~disputed
BY DEF SchemaInv, OpeningsStand, DisputeStops

LEMMA RestoreStep ==
  ASSUME SchemaInv, NEW o \in Openers, RestoreTriggers(o)
  PROVE  SchemaInv'
<1>1. SchemaTyped
  BY DEF SchemaInv, OpeningsStand
<1>2. /\ opener[o].step = "restore" /\ MoveTo(o, "record", 0)
      /\ UNCHANGED <<history, loose, readRows, built, doubled, old, disputed, mixed, crashes>>
      /\ body' = [g \in Guards |-> IF g \in BaselineGuards THEN 1 ELSE body[g]]
  BY DEF RestoreTriggers, migrationVars
<1>3. o \in Opening /\ crashes' \in Nat /\ ~disputed
  BY <1>1, <1>2, ClosedIsOpening, NoDispute DEF SchemaTyped
<1>4. /\ opener' \in [Openers -> OpenerRecords] /\ opener'[o].step = "record"
      /\ opener'[o].version = opener[o].version
      /\ \A q \in Openers : q # o => opener'[q] = opener[q]
  BY <1>1, <1>2, MoveFields DEF SchemaSteps
<1>5. 1 \in Bodies
  BY DEF Bodies
<1>6. body' \in [Guards -> Bodies]
  BY <1>1, <1>2, <1>5, GuardBodies
<1>70. LoneRebuild' /\ RowsRan'
  BY <1>2, <1>4, LeavesTable DEF SchemaInv, Past
<1>7. OpeningsStand'
  BY <1>1, <1>2, <1>3, <1>4, <1>6, <1>70, OneOpenerMoves DEF SchemaInv, SchemaTyped
<1>8. ~doubled => \A g \in Guards \ BaselineGuards : Said(g) = {} => body'[g] = 0
  BY <1>2 DEF SchemaInv, GuardsAttended
<1>9. ASSUME ~doubled, NEW g \in Guards
      PROVE  body'[g] = LastWord(g) \/ Attended(g)'
  <2>1. CASE Said(g) = {}
    <3>1. LastWord(g) = IF g \in BaselineGuards THEN 1 ELSE 0
      BY <2>1, Unsaid
    <3>2. body'[g] = IF g \in BaselineGuards THEN 1 ELSE 0
      BY <1>2, <1>8, <1>9, <2>1
    <3> QED BY <3>1, <3>2
  <2>2. CASE Said(g) # {}
    <3>1. Said(g)' # {}
      BY <1>2, <2>2, HistoryKept
    <3>2. WillSay(o, g)'
      BY <1>4 DEF WillSay
    <3> QED BY <3>1, <3>2 DEF Attended
  <2> QED BY <2>1, <2>2
<1>10. GuardsAttended'
  BY <1>2, <1>8, <1>9, GuardsStayAttended
<1> QED BY <1>7, <1>10 DEF SchemaInv

(* One of the last steps, which leaves the guards and goes on to say what   *)
(* it has to.                                                               *)
LEMMA GoesOn ==
  ASSUME SchemaInv, NEW o \in Openers, UNCHANGED <<history, mixed, crashes>>,
         doubled => doubled',
         \A q \in Openers : q # o => opener'[q] = opener[q],
         opener[o].step \in {"record", "upgrade", "look", "reassert", "create"},
         ~doubled => \A g \in Guards \ BaselineGuards : Said(g) = {} => body'[g] = 0,
         ~mixed /\ ~doubled' => \A g \in Guards :
           \/ body'[g] = LastWord(g)
           \/ /\ body'[g] = body[g]
              /\ Said(g) # {} /\ WillSay(o, g) => WillSay(o, g)'
              /\ ~(g = LastGuard /\ body[g] = 0 /\ opener[o].step = "create")
           \/ g = LastGuard /\ body'[g] = 0 /\ opener'[o].step = "create"
           \/ Said(g) # {} /\ WillSay(o, g)'
  PROVE  GuardsAttended'
<1>1. ASSUME crashes' = 0, ~mixed, ~doubled', NEW g \in Guards, body'[g] # LastWord(g)
      PROVE  Attended(g)'
  <2>1. CASE /\ body'[g] = body[g]
             /\ Said(g) # {} /\ WillSay(o, g) => WillSay(o, g)'
             /\ ~(g = LastGuard /\ body[g] = 0 /\ opener[o].step = "create")
    <3>1. opener[o].step \in Late
      BY DEF Late
    <3>2. Right(g) \/ Attended(g)
      BY <1>1, <3>1 DEF SchemaInv, GuardsAttended
    <3>3. Attended(g)
      BY <1>1, <2>1, <3>2 DEF Right
    <3>4. CASE Said(g) # {} /\ WillSay(o, g)
      <4>1. Said(g)' # {} /\ WillSay(o, g)'
        BY <2>1, <3>4, HistoryKept
      <4> QED BY <4>1 DEF Attended
    <3>5. CASE ~(Said(g) # {} /\ WillSay(o, g))
      BY <2>1, <3>3, <3>5, OthersAttend
    <3> QED BY <3>4, <3>5
  <2>2. CASE g = LastGuard /\ body'[g] = 0 /\ opener'[o].step = "create"
    BY <2>2 DEF Attended
  <2>3. CASE Said(g) # {} /\ WillSay(o, g)'
    <3>1. Said(g)' # {}
      BY <2>3, HistoryKept
    <3> QED BY <2>3, <3>1 DEF Attended
  <2> QED BY <1>1, <2>1, <2>2, <2>3
<1> QED BY <1>1, GuardsStayAttended

LEMMA RecheckStep ==
  ASSUME SchemaInv, NEW o \in Openers, RecheckHistory(o)
  PROVE  SchemaInv'
<1>1. SchemaTyped
  BY DEF SchemaInv, OpeningsStand
<1>2. opener[o].step = "record" /\ UNCHANGED <<mixed, crashes>>
  BY DEF RecheckHistory
<1>3. o \in Opening /\ crashes' \in Nat /\ ~disputed /\ crashes' = crashes
  BY <1>1, <1>2, ClosedIsOpening, NoDispute DEF SchemaTyped
<1>4. CASE ~Compatible(opener[o].version)
  <2>1. AbandonOpening(o)
    BY <1>4 DEF RecheckHistory
  <2>2. mixed \/ doubled
    BY <1>3, <1>4, AloneIsCompatible
  <2> QED BY <1>2, <1>3, <2>1, <2>2, AbandonStep
<1>5. CASE Compatible(opener[o].version)
  <2>1. /\ MoveTo(o, IF loose THEN "upgrade" ELSE "look", 1)
        /\ readRows' = [readRows EXCEPT ![o] = IF loose THEN history ELSE {}]
        /\ doubled' = (doubled \/ \E q \in Openers : loose /\ opener[q].step = "upgrade")
        /\ UNCHANGED <<history, loose, built, old, disputed, body>>
    BY <1>5 DEF RecheckHistory
  <2>2. /\ opener' \in [Openers -> OpenerRecords]
        /\ opener'[o].step = IF loose THEN "upgrade" ELSE "look"
        /\ opener'[o].at = 1 /\ opener'[o].version = opener[o].version
        /\ \A q \in Openers : q # o => opener'[q] = opener[q]
    BY <1>1, <2>1, MoveFields DEF SchemaSteps
  <2>3. body' \in [Guards -> Bodies]
    BY <1>1, <2>1 DEF SchemaTyped
  <2>4. PICK S : S = IF loose THEN history ELSE {}
    OBVIOUS
  <2>5. S \in SUBSET Nat /\ (loose => S = history)
    BY <1>1, <2>4 DEF SchemaTyped
  <2>6. /\ readRows' \in [Openers -> SUBSET Nat] /\ readRows'[o] = S
        /\ \A q \in Openers : q # o => readRows'[q] = readRows[q]
    BY <1>1, <2>1, <2>4, <2>5 DEF SchemaTyped
  <2>7. doubled' \in BOOLEAN /\ (doubled => doubled') /\ loose' \in BOOLEAN
    BY <1>1, <2>1 DEF SchemaTyped
  <2>8. RowsRan'
    <3>1. \A m \in Migrations : m \in S => built[m] >= 1
      BY <2>4 DEF SchemaInv, OpeningsStand, HistoryIsTrue
    <3>2. \A q \in Openers, m \in Migrations : m \in readRows'[q] => built[m] >= 1
      BY <2>6, <3>1 DEF SchemaInv, OpeningsStand, RowsRan
    <3> QED BY <2>1, <3>2 DEF RowsRan
  <2>9. LoneRebuild'
    <3>1. loose' => \A q \in Openers : opener'[q].step \notin Past
      BY <2>1, <2>2 DEF SchemaInv, OpeningsStand, LoneRebuild, Past
    <3>2. ASSUME ~doubled', NEW q \in Openers, opener'[q].step = "upgrade"
          PROVE  loose' /\ readRows'[q] = history' /\ q = o
      <4>1. ~doubled
        BY <2>7, <3>2
      <4>2. q = o
        BY <2>1, <2>2, <3>2, <4>1 DEF SchemaInv, OpeningsStand, LoneRebuild
      <4>3. loose
        BY <2>2, <3>2, <4>2
      <4> QED BY <2>1, <2>5, <2>6, <4>2, <4>3
    <3> QED BY <3>1, <3>2 DEF LoneRebuild
  <2>10. 1 .. (1 - 1) = {}
    OBVIOUS
  <2>11. OpeningsStand'
    BY <1>2, <1>3, <2>1, <2>2, <2>3, <2>6, <2>7, <2>8, <2>9, <2>10, OneOpenerMoves DEF SchemaInv
  <2>12. \A g : WillSay(o, g)'
    BY <2>2 DEF WillSay
  <2>13. ~doubled => \A g \in Guards \ BaselineGuards : Said(g) = {} => body'[g] = 0
    BY <2>1 DEF SchemaInv, GuardsAttended
  <2>14. GuardsAttended'
    BY <1>2, <2>1, <2>2, <2>7, <2>12, <2>13, GoesOn
  <2> QED BY <2>11, <2>14 DEF SchemaInv
<1> QED BY <1>4, <1>5

(* Rows are put back: all there are, or no more is claimed than that they   *)
(* have run.                                                                *)
LEMMA UpgradeStep ==
  ASSUME SchemaInv, NEW o \in Openers, UpgradeHistory(o)
  PROVE  SchemaInv'
<1>1. SchemaTyped
  BY DEF SchemaInv, OpeningsStand
<1>2. /\ opener[o].step = "upgrade" /\ MoveTo(o, "look", 1)
      /\ history' = readRows[o] /\ loose' = FALSE /\ readRows' = [readRows EXCEPT ![o] = {}]
      /\ UNCHANGED <<built, old, disputed, body, mixed, doubled, crashes>>
  BY DEF UpgradeHistory
<1>3. o \in Opening /\ crashes' \in Nat /\ ~disputed
  BY <1>1, <1>2, ClosedIsOpening, NoDispute DEF SchemaTyped
<1>4. /\ opener' \in [Openers -> OpenerRecords] /\ opener'[o].step = "look"
      /\ opener'[o].at = 1 /\ opener'[o].version = opener[o].version
      /\ \A q \in Openers : q # o => opener'[q] = opener[q]
  BY <1>1, <1>2, MoveFields DEF SchemaSteps
<1>5. body' \in [Guards -> Bodies]
  BY <1>1, <1>2 DEF SchemaTyped
<1>6. /\ readRows' \in [Openers -> SUBSET Nat] /\ readRows'[o] = {}
      /\ \A q \in Openers : q # o => readRows'[q] = readRows[q]
  BY <1>1, <1>2 DEF SchemaTyped
<1>7. RowsRan'
  <2>1. \A q \in Openers, m \in Migrations : m \in readRows'[q] => built[m] >= 1
    BY <1>6 DEF SchemaInv, OpeningsStand, RowsRan
  <2> QED BY <1>2, <2>1 DEF RowsRan
<1>8. 1 .. (1 - 1) = {}
  OBVIOUS
<1>9. CASE ~doubled
  <2>1. /\ history' = history /\ loose
        /\ \A q \in Openers : opener[q].step = "upgrade" => q = o
    BY <1>2, <1>9 DEF SchemaInv, OpeningsStand, LoneRebuild
  <2>2. \A q \in Openers : opener'[q].step # "upgrade"
    BY <1>4, <2>1
  <2>3. LoneRebuild'
    BY <1>2, <2>2 DEF LoneRebuild
  <2>40. /\ opener'[o].step = "look" /\ opener'[o].at = 1 /\ 1 \in Nat \ {0}
         /\ 1 .. (opener'[o].at - 1) \subseteq history
    BY <1>4, <1>8
  <2>4. OpeningsStand'
    BY <1>1, <1>2, <1>3, <1>4, <1>5, <1>6, <1>7, <2>1, <2>3, <2>40, OneOpenerMoves
    DEF SchemaInv, SchemaTyped
  <2>5. \A g : WillSay(o, g)'
    BY <1>4 DEF WillSay
  <2>6. \A g \in Guards \ BaselineGuards : Said(g) = {} => body'[g] = 0
    BY <1>2, <1>9 DEF SchemaInv, GuardsAttended
  <2>7. GuardsAttended'
    BY <1>2, <1>4, <1>9, <2>1, <2>5, <2>6, GoesOn
  <2> QED BY <2>4, <2>7 DEF SchemaInv
<1>10. CASE doubled
  <2>1. doubled'
    BY <1>2, <1>10
  <2>2. SchemaTyped'
    <3>1. history' \subseteq Nat
      BY <1>1, <1>2 DEF SchemaTyped
    <3> QED BY <1>1, <1>2, <1>3, <1>4, <1>5, <1>6, <3>1 DEF SchemaTyped
  <2>3. HistoryIsTrue'
    BY <1>2, <2>1 DEF SchemaInv, OpeningsStand, RowsRan, HistoryIsTrue
  <2>4. NextIsApplied'
    <3>1. \A q \in Openers : opener'[q].step \in {"look", "apply"} =>
            /\ opener'[q].at \in Nat \ {0}
            /\ opener'[q].step = "apply" => opener'[q].at <= opener'[q].version
      BY <1>4 DEF SchemaInv, OpeningsStand, NextIsApplied
    <3> QED BY <2>1, <3>1 DEF NextIsApplied
  <2>5. BlocksBegin'
    BY <1>4 DEF SchemaInv, OpeningsStand, BlocksBegin
  <2>6. DisputeStops'
    BY <1>2, <1>3 DEF DisputeStops
  <2>7. LoneRebuild'
    BY <1>2, <2>1 DEF LoneRebuild
  <2>8. HistoryPrefix' /\ OneProgram' /\ GuardsAttended'
    BY <2>1 DEF HistoryPrefix, OneProgram, GuardsAttended
  <2> QED BY <1>7, <2>2, <2>3, <2>4, <2>5, <2>6, <2>7, <2>8 DEF SchemaInv, OpeningsStand
<1> QED BY <1>1, <1>9, <1>10 DEF SchemaTyped

LEMMA LookStep ==
  ASSUME SchemaInv, NEW o \in Openers, LookForNext(o)
  PROVE  SchemaInv'
<1>1. SchemaTyped
  BY DEF SchemaInv, OpeningsStand
<1>2. /\ opener[o].step = "look"
      /\ UNCHANGED <<history, loose, readRows, built, doubled, old, disputed, body, mixed, crashes>>
  BY DEF LookForNext, migrationVars
<1>3. o \in Opening /\ crashes' \in Nat /\ ~disputed
  BY <1>1, <1>2, ClosedIsOpening, NoDispute DEF SchemaTyped
<1>4. body' \in [Guards -> Bodies]
  BY <1>1, <1>2 DEF SchemaTyped
<1>5. ~doubled => \A g \in Guards \ BaselineGuards : Said(g) = {} => body'[g] = 0
  BY <1>2 DEF SchemaInv, GuardsAttended
<1>6. PICK m \in Nat \ {0} : m = opener[o].at
  BY <1>2 DEF SchemaInv, OpeningsStand, NextIsApplied
<1>7. ~doubled => 1 .. (m - 1) \subseteq history
  BY <1>2, <1>6 DEF SchemaInv, OpeningsStand, NextIsApplied
<1>8. CASE m > opener[o].version
  <2>1. MoveTo(o, "reassert", 1)
    BY <1>6, <1>8 DEF LookForNext
  <2>2. /\ opener' \in [Openers -> OpenerRecords] /\ opener'[o].step = "reassert"
        /\ opener'[o].at = 1 /\ opener'[o].version = opener[o].version
        /\ \A q \in Openers : q # o => opener'[q] = opener[q]
    BY <1>1, <2>1, MoveFields DEF SchemaSteps
  <2>3. LoneRebuild' /\ RowsRan'
    BY <1>2, <2>2, LeavesTable DEF SchemaInv, Past
  <2>4. OpeningsStand'
    BY <1>1, <1>2, <1>3, <1>4, <2>2, <2>3, OneOpenerMoves DEF SchemaInv, SchemaTyped
  <2>5. \A g \in Guards : Said(g) # {} => WillSay(o, g)'
    <3>1. SUFFICES ASSUME NEW g \in Guards, Said(g) # {}
                   PROVE  WillSay(o, g)'
      OBVIOUS
    <3>2. LastSaid(g) \in Said(g) /\ LastSaid(g)' = LastSaid(g)
      BY <1>2, <3>1, LastSaidIs, HistoryKept
    <3>3. PICK n \in Nat : DOMAIN Reassertions = 1 .. n
      BY SchemaAssumption
    <3>4. LastSaid(g)' >= 1
      BY <3>2, <3>3 DEF Said
    <3> QED BY <2>2, <3>4 DEF WillSay
  <2>6. GuardsAttended'
    BY <1>2, <1>5, <2>2, <2>5, GoesOn
  <2> QED BY <2>4, <2>6 DEF SchemaInv
<1>9. CASE m <= opener[o].version
  <2>0. PICK v \in Nat : v = opener[o].version
    BY <1>1, OpenerFields
  <2>1. /\ ~(m > opener[o].version) /\ m + 1 \in Nat \ {0} /\ m + 1 \in Nat
        /\ m \in history => MoveTo(o, "look", m + 1)
        /\ m \notin history => MoveTo(o, "apply", m)
    <3>1. ~(m > opener[o].version) /\ m + 1 \in Nat \ {0} /\ m + 1 \in Nat
      BY <1>6, <1>9, <2>0
    <3> QED BY <1>6, <3>1 DEF LookForNext
  <2>2. CASE m \in history
    <3>1. /\ opener' \in [Openers -> OpenerRecords] /\ opener'[o].step = "look"
          /\ opener'[o].at = m + 1 /\ opener'[o].version = opener[o].version
          /\ \A q \in Openers : q # o => opener'[q] = opener[q]
      BY <1>1, <2>1, <2>2, MoveFields DEF SchemaSteps
    <3>2. LoneRebuild' /\ RowsRan'
      BY <1>2, <3>1, LeavesTable DEF SchemaInv, Past
    <3>3. ~doubled => 1 .. (m + 1 - 1) \subseteq history
      BY <1>6, <2>2 DEF SchemaInv, OpeningsStand, HistoryPrefix
    <3>4. OpeningsStand'
      BY <1>1, <1>2, <1>3, <1>4, <2>1, <3>1, <3>2, <3>3, OneOpenerMoves
      DEF SchemaInv, SchemaTyped
    <3>5. \A g : WillSay(o, g)'
      BY <3>1 DEF WillSay
    <3>6. GuardsAttended'
      BY <1>2, <1>5, <3>1, <3>5, GoesOn
    <3> QED BY <3>4, <3>6 DEF SchemaInv
  <2>3. CASE m \notin history
    <3>1. /\ opener' \in [Openers -> OpenerRecords] /\ opener'[o].step = "apply"
          /\ opener'[o].at = m /\ opener'[o].version = opener[o].version
          /\ \A q \in Openers : q # o => opener'[q] = opener[q]
      BY <1>1, <2>1, <2>3, MoveFields DEF SchemaSteps
    <3>2. LoneRebuild' /\ RowsRan'
      BY <1>2, <3>1, LeavesTable DEF SchemaInv, Past
    <3>3. OpeningsStand'
      BY <1>1, <1>2, <1>3, <1>4, <1>6, <1>7, <1>9, <3>1, <3>2, OneOpenerMoves
      DEF SchemaInv, SchemaTyped
    <3>4. \A g : WillSay(o, g)'
      BY <1>2, <2>3, <3>1 DEF WillSay
    <3>5. GuardsAttended'
      BY <1>2, <1>5, <3>1, <3>4, GoesOn
    <3> QED BY <3>3, <3>5 DEF SchemaInv
  <2> QED BY <2>2, <2>3
<1> QED
  <2>1. PICK v \in Nat : v = opener[o].version
    BY <1>1, OpenerFields
  <2> QED BY <1>6, <1>8, <1>9, <2>1

(* The winner of a migration looks on, and has every guard before it that   *)
(* the migration or an earlier one speaks of.                               *)
LEMMA MigrateStep ==
  ASSUME SchemaInv, NEW o \in Openers, Migrate(o)
  PROVE  SchemaInv'
<1>1. SchemaTyped
  BY DEF SchemaInv, OpeningsStand
<1>2. opener[o].step = "apply" /\ UNCHANGED <<mixed, crashes>>
  BY DEF Migrate
<1>3. o \in Opening /\ crashes' \in Nat /\ ~disputed /\ crashes' = crashes
  BY <1>1, <1>2, ClosedIsOpening, NoDispute DEF SchemaTyped
<1>4. CASE opener[o].at \in history
  <2>1. AbandonOpening(o)
    BY <1>4 DEF Migrate
  <2> QED BY <1>2, <1>3, <1>4, <2>1, AbandonStep
<1>5. CASE opener[o].at \notin history
  <2>1. PICK m : m = opener[o].at
    OBVIOUS
  <2>2. /\ m \in Nat \ {0} /\ m <= opener[o].version
        /\ ~doubled => 1 .. (m - 1) \subseteq history
    BY <1>2, <2>1 DEF SchemaInv, OpeningsStand, NextIsApplied
  <2>3. /\ history' = history \union {m} /\ built' = [built EXCEPT ![m] = @ + 1]
        /\ body' = BodyAfter(m) /\ MoveTo(o, "look", m + 1)
        /\ UNCHANGED <<loose, readRows, old, disputed, doubled>>
    BY <1>5, <2>1 DEF Migrate
  <2>40. m + 1 \in Nat /\ m + 1 \in Nat \ {0}
    BY <2>2
  <2>4. /\ opener' \in [Openers -> OpenerRecords] /\ opener'[o].step = "look"
        /\ opener'[o].at = m + 1 /\ opener'[o].version = opener[o].version
        /\ \A q \in Openers : q # o => opener'[q] = opener[q]
    BY <1>1, <2>3, <2>40, MoveFields DEF SchemaSteps
  <2>41. 1 .. (m + 1 - 1) = 1 .. m
    BY <2>2
  <2>42. ~doubled => 1 .. m \subseteq history'
    BY <2>2, <2>3
  <2>5. SchemaTyped'
    <3>1. history' \subseteq Nat
      BY <1>1, <2>2, <2>3 DEF SchemaTyped
    <3>2. built' \in [Migrations -> Nat]
      <4>1. built \in [Migrations -> Nat]
        BY <1>1 DEF SchemaTyped
      <4>2. PICK b : b = built[m] + 1
        OBVIOUS
      <4>3. m \in Migrations => b \in Nat
        BY <4>1, <4>2
      <4>4. built' = [built EXCEPT ![m] = b]
        BY <2>3, <4>2
      <4> QED BY <4>1, <4>3, <4>4
    <3>3. \A g \in Guards : body'[g] \in Bodies
      <4>1. SUFFICES ASSUME NEW g \in Guards
                     PROVE  body'[g] \in Bodies
        OBVIOUS
      <4>2. CASE \E i \in DOMAIN Reassertions : Reassertions[i] = <<m, g, m>>
        <5>1. PICK i \in DOMAIN Reassertions : Reassertions[i] = <<m, g, m>>
          BY <4>2
        <5>2. m \in Bodies
          BY <5>1 DEF Bodies
        <5> QED BY <2>3, <4>2, <5>2 DEF BodyAfter
      <4>3. CASE ~\E i \in DOMAIN Reassertions : Reassertions[i] = <<m, g, m>>
        BY <1>1, <2>3, <4>3, GuardBodies DEF BodyAfter
      <4> QED BY <4>2, <4>3
    <3>4. body' \in [Guards -> Bodies]
      <4>1. PICK F : F = [g \in Guards |-> body'[g]]
        OBVIOUS
      <4>2. body' = F
        BY <2>3, <4>1 DEF BodyAfter
      <4>3. F \in [Guards -> Bodies]
        BY <3>3, <4>1
      <4> QED BY <4>2, <4>3
    <3> QED BY <1>1, <1>2, <1>3, <2>3, <2>4, <3>1, <3>2, <3>4 DEF SchemaTyped
  <2>6. HistoryIsTrue'
    <3>1. SUFFICES ASSUME NEW n \in Migrations
                   PROVE  /\ n \in history' => built'[n] >= 1
                          /\ ~doubled => /\ built'[n] = IF n \in history' THEN 1 ELSE 0
                                         /\ n \in history' => 1 .. n \subseteq history'
      BY <2>3 DEF HistoryIsTrue
    <3>2. /\ n \in history => built[n] >= 1
          /\ ~doubled => /\ built[n] = IF n \in history THEN 1 ELSE 0
                         /\ n \in history => 1 .. n \subseteq history
      BY DEF SchemaInv, OpeningsStand, HistoryIsTrue
    <3>3. built[n] \in Nat
      BY <1>1 DEF SchemaTyped
    <3>4. built'[n] = IF n = m THEN built[n] + 1 ELSE built[n]
      BY <1>1, <2>3 DEF SchemaTyped
    <3>5. n \in history' => built'[n] >= 1
      BY <2>3, <3>2, <3>3, <3>4
    <3>6. ASSUME ~doubled PROVE built'[n] = IF n \in history' THEN 1 ELSE 0
      BY <1>5, <2>1, <2>3, <3>2, <3>4, <3>6
    <3>7. ASSUME ~doubled, n \in history' PROVE 1 .. n \subseteq history'
      BY <2>3, <2>42, <3>2, <3>7
    <3> QED BY <3>5, <3>6, <3>7
  <2>7. HistoryPrefix'
    BY <2>3, <2>42 DEF SchemaInv, OpeningsStand, HistoryPrefix
  <2>8. NextIsApplied'
    <3>1. ASSUME NEW q \in Openers, opener'[q].step \in {"look", "apply"}
          PROVE  /\ opener'[q].at \in Nat \ {0}
                 /\ opener'[q].step = "apply" => opener'[q].at <= opener'[q].version
                 /\ ~doubled => 1 .. (opener'[q].at - 1) \subseteq history'
      <4>1. CASE q = o
        <5>1. PICK n : n = opener'[q].at
          OBVIOUS
        <5>20. n = m + 1 /\ opener'[q].step = "look"
          BY <2>4, <4>1, <5>1
        <5>2. n \in Nat \ {0} /\ n - 1 = m
          BY <2>2, <5>20
        <5>3. ~doubled => 1 .. (n - 1) \subseteq history'
          BY <2>3, <2>42, <5>2
        <5> QED BY <5>1, <5>20, <5>2, <5>3
      <4>2. CASE q # o
        <5>1. opener'[q] = opener[q]
          BY <2>4, <4>2
        <5>2. /\ opener[q].at \in Nat \ {0}
              /\ opener[q].step = "apply" => opener[q].at <= opener[q].version
              /\ ~doubled => 1 .. (opener[q].at - 1) \subseteq history
          BY <3>1, <5>1 DEF SchemaInv, OpeningsStand, NextIsApplied
        <5> QED BY <2>3, <5>1, <5>2
      <4> QED BY <4>1, <4>2
    <3> QED BY <2>3, <3>1 DEF NextIsApplied
  <2>80. LoneRebuild'
    <3>1. ~loose
      BY <1>2 DEF SchemaInv, OpeningsStand, LoneRebuild, Past
    <3>2. ~doubled => \A q \in Openers : opener'[q].step # "upgrade"
      BY <2>4, <3>1 DEF SchemaInv, OpeningsStand, LoneRebuild
    <3> QED BY <2>3, <3>1, <3>2 DEF LoneRebuild
  <2>81. RowsRan'
    <3>1. ASSUME NEW q \in Openers, NEW n \in Migrations, n \in readRows[q]
          PROVE  built'[n] >= 1
      <4>1. built[n] \in Nat /\ built[n] >= 1
        BY <1>1, <3>1 DEF SchemaInv, OpeningsStand, RowsRan, SchemaTyped
      <4>2. built'[n] = IF n = m THEN built[n] + 1 ELSE built[n]
        BY <1>1, <2>3 DEF SchemaTyped
      <4> QED BY <4>1, <4>2
    <3> QED BY <2>3, <3>1 DEF RowsRan
  <2>9. BlocksBegin'
    BY <2>4 DEF SchemaInv, OpeningsStand, BlocksBegin
  <2>10. OneProgram'
    <3>1. \A q \in Opening' : q \in Opening /\ opener'[q].version = opener[q].version
      BY <1>3, <2>4 DEF Opening
    <3>2. SUFFICES ASSUME ~mixed, ~doubled
                   PROVE  /\ \A q \in Opening' : history' \subseteq 1 .. opener'[q].version
                          /\ \A q, p \in Opening' : opener'[q].version = opener'[p].version
      BY <1>2, <2>3 DEF OneProgram
    <3>3. PICK v \in Nat : v = opener[o].version
      BY <1>1, OpenerFields
    <3>4. \A q \in Opening : opener[q].version = v
      BY <1>3, <3>2, <3>3 DEF SchemaInv, OpeningsStand, OneProgram
    <3>5. history \subseteq 1 .. v
      BY <1>3, <3>2, <3>3 DEF SchemaInv, OpeningsStand, OneProgram
    <3>6. m \in 1 .. v
      BY <2>2, <3>3
    <3>7. history' \subseteq 1 .. v
      BY <2>3, <3>5, <3>6
    <3> QED BY <3>1, <3>4, <3>7
  <2>11. DisputeStops'
    BY <1>3, <2>3 DEF DisputeStops
  <2>12. OpeningsStand'
    BY <2>5, <2>6, <2>7, <2>8, <2>80, <2>81, <2>9, <2>10, <2>11 DEF OpeningsStand
  <2>13. ASSUME NEW g \in Guards, Said(g)' = {}
         PROVE  /\ Said(g) = {} /\ LastWord(g)' = LastWord(g) /\ body'[g] = body[g]
                /\ Attended(g) => Attended(g)'
    <3>1. Said(g) = {}
      BY <2>3, <2>13 DEF Said
    <3>2. LastWord(g)' = IF g \in BaselineGuards THEN 1 ELSE 0
      BY <2>13 DEF LastWord, Said
    <3>3. LastWord(g) = IF g \in BaselineGuards THEN 1 ELSE 0
      BY <3>1, Unsaid
    <3>4. ~\E i \in DOMAIN Reassertions : Reassertions[i] = <<m, g, m>>
      BY <2>3, <2>13 DEF Said
    <3>5. body'[g] = body[g]
      BY <2>3, <3>4 DEF BodyAfter
    <3>6. Attended(g) => Attended(g)'
      BY <1>2, <2>4, <3>1, <3>5 DEF Attended
    <3> QED BY <3>1, <3>2, <3>3, <3>5, <3>6
  <2>14. ~doubled => \A g \in Guards \ BaselineGuards : Said(g)' = {} => body'[g] = 0
    BY <2>13 DEF SchemaInv, GuardsAttended
  <2>15. ASSUME crashes' = 0, ~mixed', ~doubled, NEW g \in Guards
         PROVE  Right(g)' \/ Attended(g)'
    <3>1. CASE Said(g)' # {}
      <4>1. WillSay(o, g)'
        BY <2>4 DEF WillSay
      <4> QED BY <3>1, <4>1 DEF Attended
    <3>2. CASE Said(g)' = {}
      <4>1. opener[o].step \in Late
        BY <1>2 DEF Late
      <4>2. Right(g) \/ Attended(g)
        BY <1>2, <1>3, <2>15, <4>1 DEF SchemaInv, GuardsAttended
      <4> QED BY <2>13, <3>2, <4>2 DEF Right
    <3> QED BY <3>1, <3>2
  <2>16. GuardsAttended'
    BY <2>3, <2>14, <2>15 DEF GuardsAttended
  <2> QED BY <2>12, <2>16 DEF SchemaInv
<1> QED BY <1>4, <1>5

(* A block has its word, or leaves it to a later one.                       *)
LEMMA ReassertStep ==
  ASSUME SchemaInv, NEW o \in Openers, Reassert(o)
  PROVE  SchemaInv'
<1>1. SchemaTyped
  BY DEF SchemaInv, OpeningsStand
<1>2. PICK i : i = opener[o].at
  OBVIOUS
<1>3. /\ opener[o].step = "reassert" /\ i \in DOMAIN Reassertions
      /\ MoveTo(o, "reassert", i + 1)
      /\ UNCHANGED <<history, loose, readRows, built, doubled, old, disputed, mixed, crashes>>
  BY <1>2 DEF Reassert, migrationVars
<1>4. o \in Opening /\ crashes' \in Nat /\ ~disputed
  BY <1>1, <1>3, ClosedIsOpening, NoDispute DEF SchemaTyped
<1>5. i \in Nat /\ i >= 1 /\ i + 1 \in Nat /\ i + 1 >= 1
  BY <1>1, <1>2, <1>3, OpenerFields DEF SchemaInv, OpeningsStand, BlocksBegin
<1>6. /\ opener' \in [Openers -> OpenerRecords] /\ opener'[o].step = "reassert"
      /\ opener'[o].at = i + 1 /\ opener'[o].version = opener[o].version
      /\ \A q \in Openers : q # o => opener'[q] = opener[q]
  BY <1>1, <1>3, <1>5, MoveFields DEF SchemaSteps
<1>7. PICK m, h, b : m = Reassertions[i][1] /\ h = Reassertions[i][2] /\ b = Reassertions[i][3]
  OBVIOUS
<1>8. h \in Guards /\ b \in Bodies /\ h # LastGuard
  BY <1>3, <1>7, SchemaAssumption
<1>9. body' = IF m \in history \intersect 1 .. opener[o].version
              THEN [body EXCEPT ![h] = b] ELSE body
  BY <1>2, <1>7 DEF Reassert, migrationVars
<1>10. body' \in [Guards -> Bodies]
  BY <1>1, <1>8, <1>9 DEF SchemaTyped
<1>110. LoneRebuild' /\ RowsRan'
  BY <1>3, <1>6, LeavesTable DEF SchemaInv, Past
<1>11. OpeningsStand'
  BY <1>1, <1>3, <1>4, <1>5, <1>6, <1>10, <1>110, OneOpenerMoves DEF SchemaInv, SchemaTyped
<1>12. \A g \in Guards : g # h => body'[g] = body[g]
  BY <1>1, <1>9 DEF SchemaTyped
<1>13. m \in history => i \in Said(h)
  BY <1>3, <1>7 DEF Said
<1>14. ~doubled => \A g \in Guards \ BaselineGuards : Said(g) = {} => body'[g] = 0
  BY <1>9, <1>12, <1>13 DEF SchemaInv, GuardsAttended
<1>15. ASSUME ~mixed, ~doubled, NEW g \in Guards
       PROVE  \/ body'[g] = LastWord(g)
              \/ /\ body'[g] = body[g]
                 /\ Said(g) # {} /\ WillSay(o, g) => WillSay(o, g)'
                 /\ ~(g = LastGuard /\ body[g] = 0 /\ opener[o].step = "create")
              \/ g = LastGuard /\ body'[g] = 0 /\ opener'[o].step = "create"
              \/ Said(g) # {} /\ WillSay(o, g)'
  <2>1. history \subseteq 1 .. opener[o].version
    BY <1>4, <1>15 DEF SchemaInv, OpeningsStand, OneProgram
  <2>2. CASE g = h /\ m \in history
    <3>1. body'[g] = b
      BY <1>1, <1>8, <1>9, <2>1, <2>2 DEF SchemaTyped
    <3>2. /\ LastSaid(g) \in Nat /\ i <= LastSaid(g)
          /\ LastWord(g) = Reassertions[LastSaid(g)][3]
      BY <1>13, <2>2, LastSaidIs
    <3>3. CASE i = LastSaid(g)
      BY <1>7, <3>1, <3>2, <3>3
    <3>4. CASE i # LastSaid(g)
      <4>1. i + 1 <= LastSaid(g)
        BY <1>5, <3>2, <3>4
      <4>2. LastSaid(g)' = LastSaid(g)
        BY <1>3, HistoryKept
      <4>3. WillSay(o, g)'
        BY <1>6, <4>1, <4>2 DEF WillSay
      <4> QED BY <1>13, <2>2, <4>3
    <3> QED BY <3>3, <3>4
  <2>3. CASE ~(g = h /\ m \in history)
    <3>1. body'[g] = body[g]
      BY <1>9, <1>12, <2>3
    <3>2. ASSUME Said(g) # {}, WillSay(o, g)
          PROVE  WillSay(o, g)'
      <4>1. i <= LastSaid(g)
        BY <1>2, <1>3, <3>2 DEF WillSay
      <4>2. LastSaid(g) \in Said(g) /\ LastSaid(g) \in Nat /\ LastSaid(g)' = LastSaid(g)
        BY <1>3, <3>2, LastSaidIs, HistoryKept
      <4>3. i # LastSaid(g)
        BY <1>7, <2>3, <4>2 DEF Said
      <4> QED BY <1>5, <1>6, <4>1, <4>2, <4>3 DEF WillSay
    <3> QED BY <1>3, <3>1, <3>2
  <2> QED BY <2>2, <2>3
<1>16. GuardsAttended'
  BY <1>3, <1>6, <1>14, <1>15, GoesOn
<1> QED BY <1>11, <1>16 DEF SchemaInv

LEMMA DropStep ==
  ASSUME SchemaInv, NEW o \in Openers, DropLastGuard(o)
  PROVE  SchemaInv'
<1>1. SchemaTyped
  BY DEF SchemaInv, OpeningsStand
<1>2. /\ opener[o].step = "reassert" /\ opener[o].at \notin DOMAIN Reassertions
      /\ MoveTo(o, "create", 0) /\ body' = [body EXCEPT ![LastGuard] = 0]
      /\ UNCHANGED <<history, loose, readRows, built, doubled, old, disputed, mixed, crashes>>
  BY DEF DropLastGuard, migrationVars
<1>3. o \in Opening /\ crashes' \in Nat /\ ~disputed
  BY <1>1, <1>2, ClosedIsOpening, NoDispute DEF SchemaTyped
<1>4. /\ opener' \in [Openers -> OpenerRecords] /\ opener'[o].step = "create"
      /\ opener'[o].version = opener[o].version
      /\ \A q \in Openers : q # o => opener'[q] = opener[q]
  BY <1>1, <1>2, MoveFields DEF SchemaSteps
<1>5. 0 \in Bodies /\ LastGuard \in BaselineGuards
  BY SchemaAssumption DEF Bodies
<1>6. body' \in [Guards -> Bodies] /\ \A g \in Guards : g # LastGuard => body'[g] = body[g]
  BY <1>1, <1>2, <1>5 DEF SchemaTyped
<1>70. LoneRebuild' /\ RowsRan'
  BY <1>2, <1>4, LeavesTable DEF SchemaInv, Past
<1>7. OpeningsStand'
  BY <1>1, <1>2, <1>3, <1>4, <1>6, <1>70, OneOpenerMoves DEF SchemaInv, SchemaTyped
<1>8. ~doubled => \A g \in Guards \ BaselineGuards : Said(g) = {} => body'[g] = 0
  BY <1>5, <1>6 DEF SchemaInv, GuardsAttended
<1>9. ASSUME NEW g \in Guards, g = LastGuard
      PROVE  body'[g] = 0
  BY <1>1, <1>2, <1>9 DEF SchemaTyped
<1>10. ASSUME NEW g \in Guards, Said(g) # {}
       PROVE  ~WillSay(o, g)
  <2>1. LastSaid(g) \in DOMAIN Reassertions
    BY <1>10, LastSaidIs DEF Said
  <2>2. PICK n \in Nat : DOMAIN Reassertions = 1 .. n
    BY SchemaAssumption
  <2>3. opener[o].at \in Nat /\ opener[o].at >= 1
    BY <1>1, <1>2, OpenerFields DEF SchemaInv, OpeningsStand, BlocksBegin
  <2> QED BY <1>2, <2>1, <2>2, <2>3 DEF WillSay
<1>11. GuardsAttended'
  BY <1>2, <1>4, <1>6, <1>8, <1>9, <1>10, GoesOn
<1> QED BY <1>7, <1>11 DEF SchemaInv

LEMMA CreateStep ==
  ASSUME SchemaInv, NEW o \in Openers, CreateLastGuard(o)
  PROVE  SchemaInv'
<1>1. SchemaTyped
  BY DEF SchemaInv, OpeningsStand
<1>2. opener[o].step = "create" /\ UNCHANGED <<mixed, crashes>>
  BY DEF CreateLastGuard, migrationVars
<1>3. o \in Opening /\ crashes' \in Nat /\ ~disputed /\ crashes' = crashes
  BY <1>1, <1>2, ClosedIsOpening, NoDispute DEF SchemaTyped
<1>4. CASE body[LastGuard] # 0
  <2>1. AbandonOpening(o)
    BY <1>4 DEF CreateLastGuard, migrationVars
  <2> QED BY <1>2, <1>3, <1>4, <2>1, AbandonStep
<1>5. CASE body[LastGuard] = 0
  <2>1. /\ body' = [body EXCEPT ![LastGuard] = 1] /\ MoveTo(o, "ready", 0)
        /\ UNCHANGED <<history, loose, readRows, built, doubled, old, disputed>>
    BY <1>5 DEF CreateLastGuard, migrationVars
  <2>2. /\ opener' \in [Openers -> OpenerRecords] /\ opener'[o].step = "ready"
        /\ opener'[o].version = opener[o].version
        /\ \A q \in Openers : q # o => opener'[q] = opener[q]
    BY <1>1, <2>1, MoveFields DEF SchemaSteps
  <2>3. 1 \in Bodies /\ LastGuard \in BaselineGuards /\ LastGuard \in Guards
    BY SchemaAssumption DEF Bodies, Guards
  <2>4. body' \in [Guards -> Bodies] /\ \A g \in Guards : g # LastGuard => body'[g] = body[g]
    BY <1>1, <2>1, <2>3 DEF SchemaTyped
  <2>50. LoneRebuild' /\ RowsRan'
    BY <1>2, <2>1, <2>2, LeavesTable DEF SchemaInv, Past
  <2>5. OpeningsStand'
    BY <1>1, <1>2, <1>3, <2>1, <2>2, <2>4, <2>50, OneOpenerMoves DEF SchemaInv, SchemaTyped
  <2>6. ~doubled => \A g \in Guards \ BaselineGuards : Said(g) = {} => body'[g] = 0
    BY <2>3, <2>4 DEF SchemaInv, GuardsAttended
  <2>7. Said(LastGuard) = {}
    BY SchemaAssumption DEF Said
  <2>8. body'[LastGuard] = LastWord(LastGuard)
    <3>1. LastWord(LastGuard) = 1
      BY <2>3, <2>7, Unsaid
    <3> QED BY <1>1, <2>1, <2>3, <3>1 DEF SchemaTyped
  <2>9. \A g \in Guards : ~WillSay(o, g)
    BY <1>2 DEF WillSay
  <2>10. GuardsAttended'
    BY <1>2, <2>1, <2>2, <2>4, <2>6, <2>8, <2>9, GoesOn
  <2> QED BY <2>5, <2>10 DEF SchemaInv
<1> QED BY <1>4, <1>5

LEMMA CloseStep ==
  ASSUME SchemaInv, NEW o \in Openers, Close(o)
  PROVE  SchemaInv'
<1>1. PICK c \in Nat : c = crashes
  BY DEF SchemaInv, OpeningsStand, SchemaTyped
<1>2. AbandonOpening(o) /\ UNCHANGED mixed
  BY DEF Close
<1>3. crashes' = IF opener[o].step = "ready" THEN c ELSE c + 1
  BY <1>1 DEF Close
<1>4. crashes' \in Nat /\ (crashes' = 0 => crashes = 0 /\ opener[o].step = "ready")
  BY <1>1, <1>3
<1> QED BY <1>2, <1>4, AbandonStep

-----------------------------------------------------------------------------
LEMMA SchemaStarts == SchemaInit => SchemaInv
<1> SUFFICES ASSUME SchemaInit PROVE SchemaInv
  OBVIOUS
<1>1. PICK c : c = Closed
  OBVIOUS
<1>2. c \in OpenerRecords /\ c.step = "closed"
  BY <1>1 DEF Closed, OpenerRecords, SchemaSteps
<1>3. opener \in [Openers -> OpenerRecords] /\ \A o \in Openers : opener[o].step = "closed"
  BY <1>1, <1>2 DEF SchemaInit
<1>4. SchemaTyped
  <2>1. body \in [Guards -> Bodies]
    BY DEF SchemaInit, Bodies
  <2>2. history \subseteq Nat /\ built \in [Migrations -> Nat]
    BY DEF SchemaInit
  <2>3. readRows \in [Openers -> SUBSET Nat] /\ loose \in BOOLEAN /\ doubled \in BOOLEAN
    BY DEF SchemaInit
  <2> QED BY <1>3, <2>1, <2>2, <2>3 DEF SchemaInit, SchemaTyped
<1>5. HistoryIsTrue /\ HistoryPrefix
  <2>1. history = {} \/ history = {1}
    BY DEF SchemaInit
  <2>2. 1 .. 1 = {1}
    OBVIOUS
  <2>3. \A m \in history : 1 .. m \subseteq history
    BY <2>1, <2>2
  <2>4. \A m \in Migrations : built[m] = IF m \in history THEN 1 ELSE 0
    BY DEF SchemaInit
  <2> QED BY <2>3, <2>4 DEF HistoryIsTrue, HistoryPrefix
<1>6. NextIsApplied /\ BlocksBegin /\ DisputeStops
  BY <1>3 DEF SchemaInit, NextIsApplied, BlocksBegin, DisputeStops
<1>60. LoneRebuild /\ RowsRan
  BY <1>3 DEF SchemaInit, LoneRebuild, RowsRan, Past
<1>7. OneProgram
  BY <1>3 DEF OneProgram, Opening
<1>8. GuardsAttended
  BY <1>3 DEF SchemaInit, GuardsAttended, Late
<1> QED BY <1>4, <1>5, <1>6, <1>60, <1>7, <1>8 DEF SchemaInv, OpeningsStand

LEMMA SchemaStep == SchemaInv /\ [SchemaNext]_schemaVars => SchemaInv'
<1> SUFFICES ASSUME SchemaInv, [SchemaNext]_schemaVars PROVE SchemaInv'
  OBVIOUS
<1>1. CASE UNCHANGED schemaVars
  <2>1. OpeningsStand'
    BY <1>1 DEF SchemaInv, OpeningsStand, SchemaTyped, HistoryIsTrue, HistoryPrefix,
      NextIsApplied, BlocksBegin, OneProgram, Opening, DisputeStops, LoneRebuild, RowsRan,
      schemaVars
  <2>2. GuardsAttended'
    <3>1. UNCHANGED <<history, mixed, body, opener, crashes, doubled>>
      BY <1>1 DEF schemaVars
    <3>2. \A g \in Guards : Attended(g) => Attended(g)'
      <4>1. \A g : Said(g)' = Said(g) /\ LastSaid(g)' = LastSaid(g)
        BY <3>1, HistoryKept
      <4>2. \A g, o : WillSay(o, g) => WillSay(o, g)'
        BY <3>1, <4>1 DEF WillSay
      <4> QED BY <3>1, <4>1, <4>2 DEF Attended
    <3> QED BY <3>1, <3>2, GuardsStayAttended DEF SchemaInv, GuardsAttended, Right
  <2> QED BY <2>1, <2>2 DEF SchemaInv
<1>2. CASE SchemaNext
  <2>1. PICK o \in Openers :
          \/ \E v \in Versions : Preflight(o, v)
          \/ EvaluateSchema(o)
          \/ InspectTable(o)
          \/ RebuildTable(o)
          \/ RestoreTriggers(o)
          \/ RecheckHistory(o)
          \/ UpgradeHistory(o)
          \/ LookForNext(o)
          \/ Migrate(o)
          \/ Reassert(o)
          \/ DropLastGuard(o)
          \/ CreateLastGuard(o)
          \/ Close(o)
    BY <1>2 DEF SchemaNext
  <2> QED BY <2>1, PreflightStep, EvaluateStep, InspectStep, RebuildStep, RestoreStep,
        RecheckStep, UpgradeStep, LookStep, MigrateStep, ReassertStep, DropStep, CreateStep, CloseStep
<1> QED BY <1>1, <1>2

(* Whichever programs open the ledger, whatever of it is from before and    *)
(* wherever they die, the history is true, and as long as no two rebuild    *)
(* its loose table at once, it is complete, and a guard that is not yet     *)
(* what it says is in the hands of somebody who will see to it.             *)
THEOREM SchemaInvariant == SchemaSpec => []SchemaInv
<1>1. SchemaInit => SchemaInv
  BY SchemaStarts
<1>2. SchemaInv /\ [SchemaNext]_schemaVars => SchemaInv'
  BY SchemaStep
<1> QED BY <1>1, <1>2, PTL DEF SchemaSpec

(* Every migration of the history has run.  Unless two processes rebuilt    *)
(* its loose table at once, it has run exactly once, no other has left      *)
(* anything, none is skipped, and a ledger that is at rest after openings   *)
(* of one version, none of which died, has the guards that the blocks of    *)
(* one opening leave (db.ts, schema-version.ts:208-645).                    *)
THEOREM SchemaIsItsHistory == SchemaSpec => []SchemaStands
<1>1. SchemaInv => SchemaStands
  <2> SUFFICES ASSUME SchemaInv PROVE SchemaStands
    OBVIOUS
  <2>1. HistoryIsTrue
    BY DEF SchemaInv, OpeningsStand
  <2>2. ASSUME Opening = {}, crashes = 0, ~mixed, ~doubled,
               \E o \in Openers : opener[o].step = "ready", NEW g \in Guards
        PROVE  body[g] = LastWord(g)
    <3>1. \A o \in Openers : opener[o].step \in {"closed", "ready"}
      BY <2>2 DEF Opening
    <3>2. ~Attended(g)
      BY <3>1 DEF Attended, WillSay
    <3>3. Right(g) \/ Attended(g)
      BY <2>2 DEF SchemaInv, GuardsAttended, Late
    <3> QED BY <3>2, <3>3 DEF Right
  <2>3. GuardsAtRest
    BY <2>2 DEF GuardsAtRest
  <2> QED BY <2>1, <2>3 DEF SchemaStands
<1> QED BY <1>1, SchemaInvariant, PTL

-----------------------------------------------------------------------------
(* No process runs, and no history has, what no program is.                 *)

VersionsKnown == \A o \in Openers : opener[o].version \in Versions \union {0}

SchemaBounded ==
  /\ history \subseteq Migrations /\ old \subseteq DOMAIN OldTables
  /\ \A o \in Openers : readRows[o] \subseteq Migrations
  /\ VersionsKnown /\ crashes \in 0..MaxCrashes

LEMMA NewestIs ==
  /\ Newest \in Versions
  /\ \A v \in Versions : 1 .. v \subseteq Migrations
<1>1. PICK n \in Versions : \A v \in Versions : v <= n
  BY SchemaAssumption
<1>2. Newest \in Versions /\ \A v \in Versions : v <= Newest
  BY <1>1 DEF Newest
<1>3. PICK m \in Nat : m = Newest
  BY <1>2, SchemaAssumption
<1>4. ASSUME NEW v \in Versions PROVE 1 .. v \subseteq 1 .. m
  <2>1. v \in Nat /\ v <= m
    BY <1>2, <1>3, SchemaAssumption
  <2> QED BY <2>1
<1> QED BY <1>2, <1>3, <1>4 DEF Migrations

LEMMA MoveKeepsVersions ==
  ASSUME SchemaTyped, VersionsKnown, NEW o \in Openers, NEW s, NEW n, MoveTo(o, s, n)
  PROVE  VersionsKnown'
<1>1. PICK a \in OpenerRecords : a = opener[o]
  BY DEF SchemaTyped
<1>2. PICK b : b = [a EXCEPT !.step = s]
  OBVIOUS
<1>3. PICK c : c = [b EXCEPT !.at = n]
  OBVIOUS
<1>4. c.version = a.version
  BY <1>2, <1>3 DEF OpenerRecords
<1>5. opener' = [opener EXCEPT ![o] = c]
  BY <1>1, <1>2, <1>3 DEF MoveTo, SchemaTyped
<1> QED BY <1>1, <1>4, <1>5 DEF SchemaTyped, VersionsKnown

LEMMA ClosingKeepsVersions ==
  ASSUME SchemaTyped, VersionsKnown, NEW o \in Openers,
         opener' = [opener EXCEPT ![o] = Closed]
  PROVE  VersionsKnown'
<1>1. Closed.version = 0
  BY DEF Closed
<1> QED BY <1>1 DEF SchemaTyped, VersionsKnown

LEMMA SchemaStaysBounded ==
  ASSUME SchemaInv, SchemaBounded, [SchemaNext]_schemaVars
  PROVE  SchemaBounded'
<1>0. SchemaTyped /\ NextIsApplied /\ VersionsKnown
  BY DEF SchemaInv, OpeningsStand, SchemaBounded
<1>1. ASSUME NEW o \in Openers, AbandonOpening(o)
      PROVE  /\ VersionsKnown' /\ (history \subseteq Migrations)'
             /\ (old \subseteq DOMAIN OldTables)'
             /\ \A q \in Openers : readRows'[q] \subseteq Migrations
  BY <1>0, <1>1, ClosingKeepsVersions DEF AbandonOpening, migrationVars, SchemaBounded
<1>2. ASSUME NEW o \in Openers, NEW s, NEW n, MoveTo(o, s, n)
      PROVE  VersionsKnown'
  BY <1>0, <1>2, MoveKeepsVersions
<1>3. ASSUME NEW o \in Openers, NEW v \in Versions, Preflight(o, v)
      PROVE  SchemaBounded'
  <2>1. PICK c : c = [step |-> "check", at |-> 0, version |-> v]
    OBVIOUS
  <2>2. c.version \in Versions /\ opener' = [opener EXCEPT ![o] = c]
    BY <1>3, <2>1 DEF Preflight, migrationVars
  <2>3. VersionsKnown'
    BY <1>0, <2>2 DEF SchemaTyped, VersionsKnown
  <2> QED BY <1>3, <2>3 DEF Preflight, migrationVars, SchemaBounded
<1>4. ASSUME NEW o \in Openers, EvaluateSchema(o) PROVE SchemaBounded'
  BY <1>1, <1>2, <1>4 DEF EvaluateSchema, migrationVars, SchemaBounded
<1>5. ASSUME NEW o \in Openers, InspectTable(o) PROVE SchemaBounded'
  <2>1. CASE opener[o].at \in old /\ opener[o].at = 1 /\ disputed
    BY <1>1, <1>5, <2>1 DEF InspectTable, SchemaBounded
  <2>2. CASE ~(opener[o].at \in old /\ opener[o].at = 1 /\ disputed)
    <3>1. UNCHANGED <<migrationVars, old, crashes>>
      BY <1>5, <2>2 DEF InspectTable
    <3>2. \E s, n : MoveTo(o, s, n)
      BY <1>5, <2>2 DEF InspectTable
    <3> QED BY <1>2, <3>1, <3>2 DEF migrationVars, SchemaBounded
  <2> QED BY <2>1, <2>2
<1>50. ASSUME NEW o \in Openers, RebuildTable(o) PROVE SchemaBounded'
  BY <1>2, <1>50 DEF RebuildTable, migrationVars, SchemaBounded
<1>6. ASSUME NEW o \in Openers, RestoreTriggers(o) PROVE SchemaBounded'
  BY <1>2, <1>6 DEF RestoreTriggers, migrationVars, SchemaBounded
<1>7. ASSUME NEW o \in Openers, RecheckHistory(o) PROVE SchemaBounded'
  <2>1. CASE ~Compatible(opener[o].version)
    BY <1>1, <1>7, <2>1 DEF RecheckHistory, SchemaBounded
  <2>2. CASE Compatible(opener[o].version)
    <3>1. /\ UNCHANGED <<history, old, crashes>>
          /\ readRows' = [readRows EXCEPT ![o] = IF loose THEN history ELSE {}]
          /\ MoveTo(o, IF loose THEN "upgrade" ELSE "look", 1)
      BY <1>7, <2>2 DEF RecheckHistory
    <3>2. \A q \in Openers : readRows'[q] \in {readRows[q], history, {}}
      BY <1>0, <3>1 DEF SchemaTyped
    <3>3. \A q \in Openers : readRows'[q] \subseteq Migrations
      BY <3>2 DEF SchemaBounded
    <3>4. VersionsKnown'
      BY <1>2, <3>1
    <3> QED BY <3>1, <3>3, <3>4 DEF SchemaBounded
  <2> QED BY <2>1, <2>2
<1>70. ASSUME NEW o \in Openers, UpgradeHistory(o) PROVE SchemaBounded'
  <2>1. /\ UNCHANGED <<old, crashes>> /\ history' = readRows[o]
        /\ readRows' = [readRows EXCEPT ![o] = {}] /\ MoveTo(o, "look", 1)
    BY <1>70 DEF UpgradeHistory
  <2>2. \A q \in Openers : readRows'[q] \in {readRows[q], {}}
    BY <1>0, <2>1 DEF SchemaTyped
  <2>3. \A q \in Openers : readRows'[q] \subseteq Migrations
    BY <2>2 DEF SchemaBounded
  <2>4. VersionsKnown'
    BY <1>2, <2>1
  <2> QED BY <2>1, <2>3, <2>4 DEF SchemaBounded
<1>8. ASSUME NEW o \in Openers, LookForNext(o) PROVE SchemaBounded'
  BY <1>2, <1>8 DEF LookForNext, migrationVars, SchemaBounded
<1>9. ASSUME NEW o \in Openers, Migrate(o) PROVE SchemaBounded'
  <2>1. CASE opener[o].at \in history
    BY <1>1, <1>9, <2>1 DEF Migrate, SchemaBounded
  <2>2. CASE opener[o].at \notin history
    <3>1. PICK m \in Nat \ {0} : m = opener[o].at
      BY <1>0, <1>9 DEF Migrate, NextIsApplied
    <3>2. PICK v \in Nat : v = opener[o].version
      BY <1>0, OpenerFields
    <3>3. m <= v
      BY <1>0, <1>9, <3>1, <3>2 DEF Migrate, NextIsApplied
    <3>4. v \in Versions
      <4>1. v # 0
        BY <3>3
      <4> QED BY <1>0, <3>2, <4>1 DEF VersionsKnown
    <3>5. m \in Migrations
      <4>1. m \in 1 .. v
        BY <3>3
      <4> QED BY <3>4, <4>1, NewestIs
    <3>6. history' = history \union {m} /\ UNCHANGED <<old, crashes, readRows>>
          /\ MoveTo(o, "look", m + 1)
      BY <1>9, <2>2, <3>1 DEF Migrate
    <3> QED BY <1>2, <3>5, <3>6 DEF SchemaBounded
  <2> QED BY <2>1, <2>2
<1>10. ASSUME NEW o \in Openers, Reassert(o) PROVE SchemaBounded'
  BY <1>2, <1>10 DEF Reassert, migrationVars, SchemaBounded
<1>11. ASSUME NEW o \in Openers, DropLastGuard(o) PROVE SchemaBounded'
  BY <1>2, <1>11 DEF DropLastGuard, migrationVars, SchemaBounded
<1>12. ASSUME NEW o \in Openers, CreateLastGuard(o) PROVE SchemaBounded'
  BY <1>1, <1>2, <1>12 DEF CreateLastGuard, migrationVars, SchemaBounded
<1>13. ASSUME NEW o \in Openers, Close(o) PROVE SchemaBounded'
  <2>1. AbandonOpening(o) /\ (opener[o].step # "ready" => crashes < MaxCrashes)
        /\ crashes' = IF opener[o].step = "ready" THEN crashes ELSE crashes + 1
    BY <1>13 DEF Close
  <2>2. crashes \in 0..MaxCrashes /\ MaxCrashes \in Nat
    BY SchemaAssumption DEF SchemaBounded
  <2>3. crashes' \in 0..MaxCrashes
    <3>1. CASE opener[o].step = "ready"
      BY <2>1, <2>2, <3>1
    <3>2. CASE opener[o].step # "ready"
      <4>1. crashes' = crashes + 1 /\ crashes < MaxCrashes
        BY <2>1, <3>2
      <4> QED BY <2>2, <4>1
    <3> QED BY <3>1, <3>2
  <2> QED BY <1>1, <2>1, <2>3 DEF SchemaBounded
<1>14. CASE UNCHANGED schemaVars
  BY <1>14 DEF schemaVars, SchemaBounded, VersionsKnown
<1> QED
  BY <1>3, <1>4, <1>5, <1>50, <1>6, <1>7, <1>70, <1>8, <1>9, <1>10, <1>11, <1>12, <1>13,
     <1>14
     DEF SchemaNext

(* The history, the tables, the guards and the processes have their types.  *)
THEOREM SchemaTypes == SchemaSpec => []SchemaTypeOK
<1>1. SchemaInit => SchemaBounded
  <2> SUFFICES ASSUME SchemaInit PROVE SchemaBounded
    OBVIOUS
  <2>1. \A o \in Openers : opener[o].version = 0 /\ readRows[o] = {}
    BY DEF SchemaInit, Closed
  <2>2. 1 \in Migrations
    <3>1. Newest \in Nat \ {0}
      BY NewestIs, SchemaAssumption
    <3>2. PICK n \in Nat \ {0} : n = Newest
      BY <3>1
    <3> QED BY <3>2 DEF Migrations
  <2>3. history \subseteq Migrations
    BY <2>2 DEF SchemaInit
  <2> QED BY <2>1, <2>3, SchemaAssumption DEF SchemaInit, SchemaBounded, VersionsKnown
<1>2. SchemaInv /\ SchemaBounded /\ [SchemaNext]_schemaVars => SchemaBounded'
  BY SchemaStaysBounded
<1>3. SchemaInv /\ SchemaBounded => SchemaTypeOK
  <2> SUFFICES ASSUME SchemaInv, SchemaBounded PROVE SchemaTypeOK
    OBVIOUS
  <2>1. SchemaTyped
    BY DEF SchemaInv, OpeningsStand
  <2>2. \A o \in Openers : opener[o].step \in SchemaSteps
    BY <2>1, OpenerFields
  <2> QED
    BY <2>1, <2>2, GuardBodies
       DEF SchemaTyped, SchemaBounded, VersionsKnown, SchemaTypeOK, SchemaSteps
<1> QED BY <1>1, <1>2, <1>3, SchemaInvariant, PTL DEF SchemaSpec

-----------------------------------------------------------------------------
(* VatReturns: what the periods declare adds up to what was booked and not *)
(* taken back, a final period's return stays as it was, and entries that   *)
(* are rounded one by one never exceed the tolerance, for any vouchers,    *)
(* prices, periods and number of entries.  A line's VAT is within half an  *)
(* oere of a quarter of its base, so k lines are within (k + 1) / 2 of a   *)
(* quarter of theirs together, and that is less than k if k is not one.    *)

VatFigures == {"base", "out", "in"}

VatCodes == {v.code : v \in Vouchers} \union {Sale, ForeignSale, BadDebt}

VatRecords ==
  [period : VatPeriods, code : VatCodes, base : Int, out : Int, in : Int,
   invoice : Invoices2 \union {"none"}, share : BOOLEAN, reverses : Nat]

VatTyped ==
  /\ vatEntries \in Seq(VatRecords) /\ Len(vatEntries) <= MaxVatEntries
  /\ \A e \in EntryIds : vatEntries[e].reverses < e
  /\ returnState \in [VatPeriods -> {"open", "closed", "reported"}]
  /\ credited \in [Invoices2 -> Nat] /\ writtenOff \in Nat
  /\ \A i \in Invoices2 : credited[i] <= GrossOf(i)
  /\ credited["domestic"] + writtenOff <= GrossOf("domestic")

LineIsRounded(e) ==
  e.out = OutputOf(e.code, e.base) /\ e.in = InputOf(e.code, e.base)

(* Every line is rounded by itself, but a share of a domestic invoice.      *)
LineStands(e) ==
  /\ e.share => e.invoice # "none"
  /\ e.code = BadDebt => e.share
  /\ LineIsRounded(e) \/ (e.share /\ e.code \in OrdinaryCodes /\ e.in = 0)

LinesStand == \A e \in EntryIds : LineStands(vatEntries[e])

(* All periods together declare the entries that were not taken back.      *)
PeriodsAddUp == \A figure \in {"out", "in"} : AddsUp(figure)

VatInv == VatTyped /\ LinesStand /\ PeriodsAddUp

-----------------------------------------------------------------------------
(* Sums of parts.                                                           *)

LEMMA SumOfZeros ==
  ASSUME NEW F, NEW S, IsFiniteSet(S), \A x \in S : F[x] = 0
  PROVE  SumFunctionOnSet(F, S) = 0
<1> DEFINE Bad == {s \in SUBSET S : SumFunctionOnSet(F, s) # 0}
<1> SUFFICES ASSUME Bad # {} PROVE FALSE
  OBVIOUS
<1>0. Bad \in SUBSET SUBSET S
  OBVIOUS
<1>1. PICK s \in Bad : \A U \in SUBSET s : U # s => U \notin Bad
  <2> HIDE DEF Bad
  <2> QED BY <1>0, SmallestSet
<1>2. s # {} /\ IsFiniteSet(s)
  <2>1. SumFunctionOnSet(F, {}) = 0
    BY SumOfNothing
  <2> QED BY <1>1, <2>1, FS_Subset
<1>3. PICK a \in s : a = Pick(s)
  BY <1>2, PickIsIn
<1>4. SumFunctionOnSet(F, s) = F[a] + SumFunctionOnSet(F, s \ {a})
  BY <1>2, <1>3, SumPicks
<1>5. SumFunctionOnSet(F, s \ {a}) = 0
  BY <1>1, <1>3
<1> QED BY <1>1, <1>4, <1>5

LEMMA SumOfPart ==
  ASSUME NEW F, NEW S, IsFiniteSet(S), \A x \in S : F[x] \in Int,
         NEW T \in SUBSET S, \A x \in S \ T : F[x] = 0
  PROVE  SumFunctionOnSet(F, S) = SumFunctionOnSet(F, T)
<1>1. PICK R : R = S \ T
  OBVIOUS
<1>2. IsFiniteSet(R) /\ IsFiniteSet(T) /\ T \intersect R = {} /\ T \union R = S
  BY <1>1, FS_Subset
<1>3. SumFunctionOnSet(F, S) = SumFunctionOnSet(F, T) + SumFunctionOnSet(F, R)
  BY <1>2, SumOfUnion
<1>4. SumFunctionOnSet(F, R) = 0
  BY <1>1, <1>2, SumOfZeros
<1>5. SumFunctionOnSet(F, T) \in Int
  BY <1>2, SumType
<1> QED BY <1>3, <1>4, <1>5

(* One amount of a sum is another.                                          *)
LEMMA SumChanges ==
  ASSUME NEW F, NEW G, NEW S, IsFiniteSet(S), NEW a \in S,
         \A x \in S : F[x] \in Int /\ G[x] \in Int /\ (x # a => G[x] = F[x])
  PROVE  SumFunctionOnSet(G, S) = SumFunctionOnSet(F, S) + (G[a] - F[a])
<1>1. PICK u : u = S \ {a}
  OBVIOUS
<1>2. IsFiniteSet(u) /\ \A x \in u : F[x] = G[x] /\ F[x] \in Int
  BY <1>1, FS_Subset
<1>3. SumFunctionOnSet(F, u) = SumFunctionOnSet(G, u)
  BY <1>2, SumCongruence
<1>4. PICK n \in Int : n = SumFunctionOnSet(F, u)
  BY <1>2, SumType
<1>5. SumFunctionOnSet(F, S) = F[a] + n /\ SumFunctionOnSet(G, S) = G[a] + n
  BY <1>1, <1>3, <1>4, SumRemoves
<1> QED BY <1>4, <1>5

(* Amounts that are m times others but for d each are so together but for d *)
(* times their number.                                                      *)
LEMMA SumsNear ==
  ASSUME NEW F, NEW G, NEW S, IsFiniteSet(S), NEW m \in Nat, NEW d \in Nat,
         \A x \in S : F[x] \in Int /\ G[x] \in Int /\ m * F[x] - G[x] \in -d..d
  PROVE  LET k == d * Cardinality(S)
         IN  m * SumFunctionOnSet(F, S) - SumFunctionOnSet(G, S) \in -k..k
<1> DEFINE Off(s) == m * SumFunctionOnSet(F, s) - SumFunctionOnSet(G, s)
           Bad == {s \in SUBSET S :
                     ~(Off(s) \in -(d * Cardinality(s))..(d * Cardinality(s)))}
<1> SUFFICES ASSUME Bad # {} PROVE FALSE
  OBVIOUS
<1>0. Bad \in SUBSET SUBSET S
  OBVIOUS
<1>1. PICK s \in Bad : \A U \in SUBSET s : U # s => U \notin Bad
  <2> HIDE DEF Bad
  <2> QED BY <1>0, SmallestSet
<1>2. IsFiniteSet(s)
  BY <1>1, FS_Subset
<1>3. CASE s = {}
  <2>1. SumFunctionOnSet(F, {}) = 0 /\ SumFunctionOnSet(G, {}) = 0 /\ Cardinality({}) = 0
    BY SumOfNothing, FS_EmptySet
  <2>2. Off({}) = 0 /\ d * Cardinality({}) = 0
    BY <2>1
  <2> QED BY <1>1, <1>3, <2>2
<1>4. CASE s # {}
  <2>1. PICK a \in s : TRUE
    BY <1>4
  <2>2. PICK u : u = s \ {a}
    OBVIOUS
  <2>3. u \in SUBSET S /\ u \notin Bad /\ IsFiniteSet(u)
    BY <1>1, <1>2, <2>1, <2>2, FS_Subset
  <2>4. PICK k \in Nat : k = Cardinality(u) /\ Cardinality(s) = k + 1
    <3>1. Cardinality(u) \in Nat
      BY <2>3, FS_CardinalityType
    <3>2. Cardinality(s) \in Nat
      BY <1>2, FS_CardinalityType
    <3>3. Cardinality(u) = Cardinality(s) - 1
      BY <1>2, <2>1, <2>2, FS_RemoveElement
    <3> QED BY <3>1, <3>2, <3>3
  <2>5. PICK p \in Int, q \in Int :
          p = SumFunctionOnSet(F, u) /\ q = SumFunctionOnSet(G, u)
    BY <2>3, SumType
  <2>6. PICK x \in Int, y \in Int : x = F[a] /\ y = G[a]
    BY <1>1, <2>1
  <2>7. SumFunctionOnSet(F, s) = x + p /\ SumFunctionOnSet(G, s) = y + q
    <3>1. \A z \in s : F[z] \in Int /\ G[z] \in Int
      BY <1>1
    <3>2. SumFunctionOnSet(F, s) = F[a] + SumFunctionOnSet(F, s \ {a})
      BY <1>2, <2>1, <3>1, SumRemoves
    <3>3. SumFunctionOnSet(G, s) = G[a] + SumFunctionOnSet(G, s \ {a})
      BY <1>2, <2>1, <3>1, SumRemoves
    <3> QED BY <2>2, <2>5, <2>6, <3>2, <3>3
  <2>8. m * p - q \in -(d * k)..(d * k)
    BY <2>3, <2>4, <2>5
  <2>9. m * x - y \in -d..d
    BY <1>1, <2>1, <2>6
  <2>10. d * (k + 1) = d * k + d /\ m * (x + p) = m * x + m * p
    <3>1. \A b, c, e \in Int : b * (c + e) = b * c + b * e
      OBVIOUS
    <3>2. d * 1 = d
      OBVIOUS
    <3>3. d * (k + 1) = d * k + d * 1
      BY <3>1
    <3>4. m * (x + p) = m * x + m * p
      BY <3>1
    <3> QED BY <3>2, <3>3, <3>4
  <2>11. PICK dk \in Int, mx \in Int, mp \in Int : dk = d * k /\ mx = m * x /\ mp = m * p
    BY <2>4, <2>5, <2>6
  <2>12. (mx + mp) - (y + q) \in -(dk + d)..(dk + d)
    BY <2>5, <2>6, <2>8, <2>9, <2>11
  <2>13. Off(s) \in -(d * (k + 1))..(d * (k + 1))
    BY <2>7, <2>10, <2>11, <2>12
  <2> QED BY <1>1, <2>4, <2>13
<1> QED BY <1>3, <1>4

-----------------------------------------------------------------------------
(* Rounding.                                                                *)

LEMMA QuarterRounds ==
  ASSUME NEW a \in Int
  PROVE  /\ Percent25(a) \in Int /\ Percent25(-a) = -Percent25(a)
         /\ 4 * Percent25(a) - a \in -2..2
         /\ a >= 0 => Percent25(a) >= 0
<1>1. PICK x \in Nat : a = x \/ a = -x
  OBVIOUS
<1>2. PICK r \in Nat : r = (2 * x + 4) \div 8
  BY <1>1
<1>3. 8 * r <= 2 * x + 4 /\ 2 * x + 4 < 8 * r + 8
  BY <1>1, <1>2
<1>4. \A z \in Int : Percent25(z) = IF z >= 0 THEN (2 * z + 4) \div 8
                                    ELSE -((2 * (-z) + 4) \div 8)
  BY DEF Percent25, Share
<1>5. x = 0 => r = 0
  BY <1>2
<1>6. Percent25(x) = r /\ Percent25(-x) = -r
  BY <1>1, <1>2, <1>4, <1>5
<1>7. 4 * r - x \in -2..2 /\ 4 * (-r) - (-x) \in -2..2 /\ -(-x) = x /\ -(-r) = r
  BY <1>1, <1>2, <1>3
<1>8. CASE a = x
  BY <1>2, <1>6, <1>7, <1>8
<1>9. CASE a = -x
  BY <1>1, <1>2, <1>5, <1>6, <1>7, <1>9
<1> QED BY <1>1, <1>8, <1>9

LEMMA ShareTypes ==
  ASSUME NEW a \in Int, NEW n \in Int, NEW d \in Nat \ {0}
  PROVE  Share(a, n, d) \in Int
<1>1. PICK x \in Int, y \in Int : x = 2 * a * n + d /\ y = 2 * (-a) * n + d
  OBVIOUS
<1>2. PICK c \in Nat \ {0} : c = 2 * d
  OBVIOUS
<1>3. x \div c \in Int /\ y \div c \in Int
  BY <1>1, <1>2
<1> QED BY <1>1, <1>2, <1>3 DEF Share

LEMMA ShareOfNothing ==
  ASSUME NEW n \in Int, NEW d \in Nat \ {0}
  PROVE  Share(0, n, d) = 0
<1>1. 2 * 0 * n + d = d
  OBVIOUS
<1>2. d \div (2 * d) = 0
  OBVIOUS
<1> QED BY <1>1, <1>2 DEF Share

(* What the tolerance of a group of lines is.                               *)
Slack(S) == IF S = {} THEN 0 ELSE Cardinality(S) - 1

(* Amounts rounded one by one to quarters of bases.                         *)
LEMMA GroupRounds ==
  ASSUME NEW F, NEW G, NEW S, IsFiniteSet(S),
         \A x \in S : G[x] \in Int /\ F[x] = Percent25(G[x])
  PROVE  SumFunctionOnSet(F, S) - Percent25(SumFunctionOnSet(G, S))
           \in -Slack(S)..Slack(S)
<1>1. \A x \in S : F[x] \in Int /\ 4 * F[x] - G[x] \in -2..2
  BY QuarterRounds
<1>2. PICK f \in Int, g \in Int :
        f = SumFunctionOnSet(F, S) /\ g = SumFunctionOnSet(G, S)
  BY <1>1, SumType
<1>3. PICK k \in Nat : k = Cardinality(S)
  BY FS_CardinalityType
<1>4. 4 * f - g \in -(2 * k)..(2 * k)
  <2>1. 4 \in Nat /\ 2 \in Nat
    OBVIOUS
  <2> QED BY <1>1, <1>2, <1>3, <2>1, SumsNear
<1>5. PICK r \in Int : r = Percent25(g) /\ 4 * r - g \in -2..2
  BY <1>2, QuarterRounds
<1>6. CASE S = {}
  <2>1. f = 0 /\ g = 0
    BY <1>2, <1>6, SumOfNothing
  <2>2. r = 0
    BY <1>5, <2>1
  <2> QED BY <1>2, <1>5, <1>6, <2>1, <2>2 DEF Slack
<1>7. CASE k = 1
  <2>1. PICK a : S = {a}
    BY <1>3, <1>7, FS_Singleton
  <2>2. \A h : SumFunctionOnSet(h, {}) = 0
    BY SumOfNothing
  <2>3. S \ {a} = {} /\ a \in S
    BY <2>1
  <2>4. f = F[a] + 0 /\ g = G[a] + 0
    <3>1. SumFunctionOnSet(F, S) = F[a] + SumFunctionOnSet(F, S \ {a})
      BY <1>1, <2>3, SumRemoves
    <3>2. SumFunctionOnSet(G, S) = G[a] + SumFunctionOnSet(G, S \ {a})
      BY <2>3, SumRemoves
    <3> QED BY <1>2, <2>2, <2>3, <3>1, <3>2
  <2>5. f = r
    BY <1>1, <1>5, <2>3, <2>4
  <2> QED BY <1>2, <1>3, <1>5, <1>7, <2>3, <2>5 DEF Slack
<1>8. CASE S # {} /\ k # 1
  <2>1. k >= 2
    BY <1>3, <1>8, FS_EmptySet
  <2>2. f - r \in -(k - 1)..(k - 1)
    BY <1>2, <1>4, <1>5, <2>1
  <2> QED BY <1>2, <1>3, <1>5, <1>8, <2>2 DEF Slack
<1> QED BY <1>6, <1>7, <1>8

(* And quarters of quarters.                                                *)
LEMMA GroupRoundsTwice ==
  ASSUME NEW F, NEW G, NEW S, IsFiniteSet(S),
         \A x \in S : G[x] \in Int /\ F[x] = Percent25(Percent25(G[x]))
  PROVE  SumFunctionOnSet(F, S) - Percent25(Percent25(SumFunctionOnSet(G, S)))
           \in -Slack(S)..Slack(S)
<1>0. ASSUME NEW z \in Int
      PROVE  /\ Percent25(Percent25(z)) \in Int
             /\ 16 * Percent25(Percent25(z)) - z \in -10..10
  <2>1. PICK c \in Int : c = Percent25(z) /\ 4 * c - z \in -2..2
    BY QuarterRounds
  <2>2. PICK t \in Int : t = Percent25(c) /\ 4 * t - c \in -2..2
    BY QuarterRounds
  <2>3. 16 * t - z \in -10..10
    BY <2>1, <2>2
  <2> QED BY <2>1, <2>2, <2>3
<1>1. \A x \in S : F[x] \in Int /\ 16 * F[x] - G[x] \in -10..10
  BY <1>0
<1>2. PICK f \in Int, g \in Int :
        f = SumFunctionOnSet(F, S) /\ g = SumFunctionOnSet(G, S)
  BY <1>1, SumType
<1>3. PICK k \in Nat : k = Cardinality(S)
  BY FS_CardinalityType
<1>4. 16 * f - g \in -(10 * k)..(10 * k)
  <2>1. 16 \in Nat /\ 10 \in Nat
    OBVIOUS
  <2> QED BY <1>1, <1>2, <1>3, <2>1, SumsNear
<1>5. PICK r \in Int : r = Percent25(Percent25(g)) /\ 16 * r - g \in -10..10
  BY <1>0, <1>2
<1>6. CASE S = {}
  <2>1. f = 0 /\ g = 0
    BY <1>2, <1>6, SumOfNothing
  <2>2. r = 0
    BY <1>5, <2>1
  <2> QED BY <1>2, <1>5, <1>6, <2>1, <2>2 DEF Slack
<1>7. CASE k = 1
  <2>1. PICK a : S = {a}
    BY <1>3, <1>7, FS_Singleton
  <2>2. \A h : SumFunctionOnSet(h, {}) = 0
    BY SumOfNothing
  <2>3. S \ {a} = {} /\ a \in S
    BY <2>1
  <2>4. f = F[a] + 0 /\ g = G[a] + 0
    <3>1. SumFunctionOnSet(F, S) = F[a] + SumFunctionOnSet(F, S \ {a})
      BY <1>1, <2>3, SumRemoves
    <3>2. SumFunctionOnSet(G, S) = G[a] + SumFunctionOnSet(G, S \ {a})
      BY <2>3, SumRemoves
    <3> QED BY <1>2, <2>2, <2>3, <3>1, <3>2
  <2>5. f = r
    BY <1>1, <1>5, <2>3, <2>4
  <2> QED BY <1>2, <1>3, <1>5, <1>7, <2>3, <2>5 DEF Slack
<1>8. CASE S # {} /\ k # 1
  <2>1. k >= 2
    BY <1>3, <1>8, FS_EmptySet
  <2>2. f - r \in -(k - 1)..(k - 1)
    BY <1>2, <1>4, <1>5, <2>1
  <2> QED BY <1>2, <1>3, <1>5, <1>8, <2>2 DEF Slack
<1> QED BY <1>6, <1>7, <1>8

(* The tolerances of parts fit in that of the whole.                        *)
LEMMA SlackAdds ==
  ASSUME NEW A, NEW B, NEW C, IsFiniteSet(C), A \subseteq C, B \subseteq C,
         A \intersect B = {}
  PROVE  /\ Slack(A) \in Nat /\ Slack(B) \in Nat /\ Slack(C) \in Nat
         /\ Slack(A) + Slack(B) <= Slack(C)
<1>1. IsFiniteSet(A) /\ IsFiniteSet(B) /\ IsFiniteSet(A \union B) /\ A \union B \subseteq C
  BY FS_Subset
<1>2. PICK a \in Nat, b \in Nat, c \in Nat, u \in Nat :
        /\ a = Cardinality(A) /\ b = Cardinality(B) /\ c = Cardinality(C)
        /\ u = Cardinality(A \union B)
  BY <1>1, FS_CardinalityType
<1>3. u <= c
  BY <1>1, <1>2, FS_Subset
<1>4. u = a + b
  <2>1. Cardinality(A \intersect B) = 0
    BY FS_EmptySet
  <2>2. u = a + b - 0
    BY <1>1, <1>2, <2>1, FS_Union
  <2> QED BY <1>2, <2>2
<1>5. (A = {} <=> a = 0) /\ (B = {} <=> b = 0) /\ (C = {} <=> c = 0)
  BY <1>1, <1>2, FS_EmptySet
<1> QED BY <1>2, <1>3, <1>4, <1>5 DEF Slack

-----------------------------------------------------------------------------
(* The entries of a period.                                                 *)

LEMMA LineTypes ==
  ASSUME VatTyped, NEW e \in EntryIds
  PROVE  /\ vatEntries[e] \in VatRecords
         /\ vatEntries[e].base \in Int /\ vatEntries[e].out \in Int
         /\ vatEntries[e].in \in Int /\ vatEntries[e].period \in VatPeriods
<1>1. vatEntries[e] \in VatRecords
  BY DEF VatTyped, EntryIds
<1> QED BY <1>1 DEF VatRecords

LEMMA LinesFinite ==
  ASSUME VatTyped, NEW S, S \subseteq EntryIds
  PROVE  IsFiniteSet(S)
<1>1. PICK n \in Nat : n = Len(vatEntries)
  BY DEF VatTyped
<1>2. IsFiniteSet(1 .. n)
  BY FS_Interval
<1>3. EntryIds = 1 .. n
  BY <1>1 DEF EntryIds, VatTyped
<1> QED BY <1>2, <1>3, FS_Subset

LEMMA PartOfPeriod ==
  ASSUME NEW p, NEW codes
  PROVE  Of(p, codes) \subseteq EntriesOf(p) /\ EntriesOf(p) \subseteq EntryIds
BY DEF Of, EntriesOf

(* The lines of a code, rounded one by one, are within their tolerance of a *)
(* quarter of their bases.                                                  *)
LEMMA CodesRound ==
  ASSUME VatTyped, NEW p, NEW codes, NEW figure \in {"out", "in"},
         \A e \in Of(p, codes) : vatEntries[e][figure] = Percent25(vatEntries[e].base)
  PROVE  /\ VatSum(figure, Of(p, codes)) \in Int /\ Expected25(p, codes) \in Int
         /\ VatSum(figure, Of(p, codes)) - Expected25(p, codes)
              \in -Slack(Of(p, codes))..Slack(Of(p, codes))
<1>1. PICK S : S = Of(p, codes)
  OBVIOUS
<1>2. S \subseteq EntryIds
  BY <1>1, PartOfPeriod
<1>3. IsFiniteSet(S)
  BY <1>2, LinesFinite
<1>4. PICK F : F = [e \in EntryIds |-> vatEntries[e][figure]]
  OBVIOUS
<1>5. PICK G : G = [e \in EntryIds |-> vatEntries[e].base]
  OBVIOUS
<1>6. \A e \in S : G[e] \in Int /\ F[e] = Percent25(G[e])
  BY <1>1, <1>2, <1>4, <1>5, LineTypes
<1>7. SumFunctionOnSet(F, S) - Percent25(SumFunctionOnSet(G, S)) \in -Slack(S)..Slack(S)
  BY <1>3, <1>6, GroupRounds
<1>8. \A e \in S : F[e] \in Int
  BY <1>6, QuarterRounds
<1>9. SumFunctionOnSet(F, S) \in Int /\ SumFunctionOnSet(G, S) \in Int
  BY <1>3, <1>6, <1>8, SumType
<1>10. Percent25(SumFunctionOnSet(G, S)) \in Int
  BY <1>9, QuarterRounds
<1>11. /\ VatSum(figure, Of(p, codes)) = SumFunctionOnSet(F, S)
       /\ Expected25(p, codes) = Percent25(SumFunctionOnSet(G, S))
  BY <1>1, <1>4, <1>5 DEF VatSum, Expected25, Base
<1> QED BY <1>1, <1>7, <1>9, <1>10, <1>11

LEMMA RepresentationRounds ==
  ASSUME VatTyped, NEW p,
         \A e \in Of(p, {Representation}) :
           vatEntries[e].in = Percent25(Percent25(vatEntries[e].base))
  PROVE  LET S == Of(p, {Representation})
         IN  /\ VatSum("in", S) \in Int
             /\ Percent25(Expected25(p, {Representation})) \in Int
             /\ VatSum("in", S) - Percent25(Expected25(p, {Representation}))
                  \in -Slack(S)..Slack(S)
<1>1. PICK S : S = Of(p, {Representation})
  OBVIOUS
<1>2. S \subseteq EntryIds
  BY <1>1, PartOfPeriod
<1>3. IsFiniteSet(S)
  BY <1>2, LinesFinite
<1>4. PICK F : F = [e \in EntryIds |-> vatEntries[e]["in"]]
  OBVIOUS
<1>5. PICK G : G = [e \in EntryIds |-> vatEntries[e].base]
  OBVIOUS
<1>6. \A e \in S : G[e] \in Int /\ F[e] = Percent25(Percent25(G[e]))
  BY <1>1, <1>2, <1>4, <1>5, LineTypes
<1>7. SumFunctionOnSet(F, S) - Percent25(Percent25(SumFunctionOnSet(G, S)))
        \in -Slack(S)..Slack(S)
  BY <1>3, <1>6, GroupRoundsTwice
<1>8. \A e \in S : F[e] \in Int
  BY <1>6, QuarterRounds
<1>9. SumFunctionOnSet(F, S) \in Int /\ SumFunctionOnSet(G, S) \in Int
  BY <1>3, <1>6, <1>8, SumType
<1>10. Percent25(Percent25(SumFunctionOnSet(G, S))) \in Int
  BY <1>9, QuarterRounds
<1>11. /\ VatSum("in", Of(p, {Representation})) = SumFunctionOnSet(F, S)
       /\ Percent25(Expected25(p, {Representation}))
            = Percent25(Percent25(SumFunctionOnSet(G, S)))
  BY <1>1, <1>4, <1>5 DEF VatSum, Expected25, Base
<1> QED BY <1>1, <1>7, <1>9, <1>10, <1>11

(* A sum over a period is one over the lines that carry something.          *)
LEMMA SumIsOfPart ==
  ASSUME VatTyped, NEW figure \in VatFigures, NEW S, S \subseteq EntryIds,
         NEW T \in SUBSET S, \A e \in S \ T : vatEntries[e][figure] = 0
  PROVE  VatSum(figure, S) = VatSum(figure, T) /\ VatSum(figure, T) \in Int
<1>1. PICK F : F = [e \in EntryIds |-> vatEntries[e][figure]]
  OBVIOUS
<1>2. IsFiniteSet(S) /\ IsFiniteSet(T)
  BY LinesFinite
<1>3. \A e \in S : F[e] \in Int
  BY <1>1, LineTypes DEF VatFigures
<1>4. \A e \in S \ T : F[e] = 0
  BY <1>1
<1>5. SumFunctionOnSet(F, S) = SumFunctionOnSet(F, T)
  BY <1>2, <1>3, <1>4, SumOfPart
<1>6. SumFunctionOnSet(F, T) \in Int
  BY <1>2, <1>3, SumType
<1> QED BY <1>1, <1>5, <1>6 DEF VatSum

LEMMA SumIsOfTwo ==
  ASSUME VatTyped, NEW figure \in VatFigures, NEW A, NEW B,
         A \subseteq EntryIds, B \subseteq EntryIds, A \intersect B = {}
  PROVE  /\ VatSum(figure, A \union B) = VatSum(figure, A) + VatSum(figure, B)
         /\ VatSum(figure, A) \in Int /\ VatSum(figure, B) \in Int
<1>1. PICK F : F = [e \in EntryIds |-> vatEntries[e][figure]]
  OBVIOUS
<1>2. IsFiniteSet(A) /\ IsFiniteSet(B)
  BY LinesFinite
<1>3. \A e \in A \union B : F[e] \in Int
  BY <1>1, LineTypes DEF VatFigures
<1>4. SumFunctionOnSet(F, A \union B) = SumFunctionOnSet(F, A) + SumFunctionOnSet(F, B)
  BY <1>2, <1>3, SumOfUnion
<1>5. SumFunctionOnSet(F, A) \in Int /\ SumFunctionOnSet(F, B) \in Int
  BY <1>2, <1>3, SumType
<1> QED BY <1>1, <1>4, <1>5 DEF VatSum

(* The report of a period without shares of domestic invoices holds.        *)
LEMMA RoundedReportsHold ==
  ASSUME VatTyped, LinesStand, NEW p,
         \A e \in Of(p, OrdinaryCodes) : ~vatEntries[e].share
  PROVE  ReportOk(p)
<1>1. PICK P, A, B, C, D :
        /\ P = EntriesOf(p) /\ A = Of(p, {Sale}) /\ B = Of(p, ReverseCharge)
        /\ C = Of(p, {Purchase}) /\ D = Of(p, {Representation})
  OBVIOUS
<1>2. /\ P \subseteq EntryIds /\ A \subseteq P /\ B \subseteq P /\ C \subseteq P
      /\ D \subseteq P
  BY <1>1 DEF Of, EntriesOf
<1>3. /\ A \intersect B = {} /\ C \intersect B = {} /\ (C \union B) \intersect D = {}
  BY <1>1 DEF Of, Sale, Purchase, Representation, ReverseCharge, Goods, EuService
<1>4. ASSUME NEW e \in P
      PROVE  /\ vatEntries[e].code # BadDebt /\ LineIsRounded(vatEntries[e])
             /\ e \in A <=> vatEntries[e].code = Sale
             /\ e \in B <=> vatEntries[e].code \in ReverseCharge
             /\ e \in C <=> vatEntries[e].code = Purchase
             /\ e \in D <=> vatEntries[e].code = Representation
  <2>1. LineStands(vatEntries[e])
    BY <1>2 DEF LinesStand
  <2>2. vatEntries[e].code \in OrdinaryCodes => e \in Of(p, OrdinaryCodes)
    BY <1>1, <1>4 DEF Of
  <2>3. vatEntries[e].code # BadDebt /\ LineIsRounded(vatEntries[e])
    BY <2>1, <2>2 DEF LineStands, OrdinaryCodes
  <2> QED BY <1>1, <1>4, <2>3 DEF Of
<1>5. Of(p, {BadDebt}) = {}
  BY <1>1, <1>4 DEF Of
<1>6. Of(p, OrdinaryCodes) = A
  BY <1>1, <1>4 DEF Of, OrdinaryCodes
<1>7. Expected25(p, {BadDebt}) = 0
  <2>1. Base(p, {BadDebt}) = 0
    BY <1>5, SumOfNothing DEF Base, VatSum
  <2> QED BY <2>1 DEF Expected25, Percent25, Share
<1>8. /\ Of(p, OutputCodes) \subseteq P /\ A \subseteq Of(p, OutputCodes)
      /\ B \subseteq Of(p, OutputCodes)
  BY <1>1 DEF Of, OutputCodes
<1>9. /\ Of(p, InputCodes) \subseteq P /\ C \union B \subseteq Of(p, InputCodes)
      /\ D \subseteq Of(p, InputCodes)
  BY <1>1 DEF Of, InputCodes
<1>10. \A e \in P \ (A \union B) : vatEntries[e].out = 0
  BY <1>4 DEF LineIsRounded, OutputOf
<1>11. \A e \in P \ ((C \union B) \union D) : vatEntries[e].in = 0
  BY <1>4 DEF LineIsRounded, InputOf
<1>12. \A e \in A \union B : vatEntries[e].out = Percent25(vatEntries[e].base)
  BY <1>2, <1>4 DEF LineIsRounded, OutputOf
<1>13. \A e \in C \union B : vatEntries[e].in = Percent25(vatEntries[e].base)
  <2>1. Representation \notin {Purchase} \union ReverseCharge
    BY DEF Representation, Purchase, ReverseCharge, Goods, EuService
  <2>2. SUFFICES ASSUME NEW e \in C \union B
                 PROVE  vatEntries[e].in = Percent25(vatEntries[e].base)
    OBVIOUS
  <2>3. /\ vatEntries[e].code \in {Purchase} \union ReverseCharge
        /\ vatEntries[e].in = InputOf(vatEntries[e].code, vatEntries[e].base)
    BY <1>2, <1>4 DEF LineIsRounded
  <2> QED BY <2>1, <2>3 DEF InputOf
<1>14. \A e \in D : vatEntries[e].in = Percent25(Percent25(vatEntries[e].base))
  <2>1. Representation \notin {Purchase} \union ReverseCharge
    BY DEF Representation, Purchase, ReverseCharge, Goods, EuService
  <2> QED BY <1>2, <1>4, <2>1 DEF LineIsRounded, InputOf
<1>15. PICK oA \in Int, eA \in Int :
         /\ oA = VatSum("out", A) /\ eA = Expected25(p, {Sale})
         /\ oA - eA \in -Slack(A)..Slack(A)
  BY <1>1, <1>12, CodesRound
<1>16. PICK oB \in Int, eB \in Int :
         /\ oB = VatSum("out", B) /\ eB = Expected25(p, ReverseCharge)
         /\ oB - eB \in -Slack(B)..Slack(B)
  BY <1>1, <1>12, CodesRound
<1>17. PICK iB \in Int :
         iB = VatSum("in", B) /\ iB - eB \in -Slack(B)..Slack(B)
  BY <1>1, <1>13, <1>16, CodesRound
<1>18. PICK iC \in Int, eC \in Int :
         /\ iC = VatSum("in", C) /\ eC = Expected25(p, {Purchase})
         /\ iC - eC \in -Slack(C)..Slack(C)
  BY <1>1, <1>13, CodesRound
<1>19. PICK iD \in Int, eD \in Int :
         /\ iD = VatSum("in", D) /\ eD = Percent25(Expected25(p, {Representation}))
         /\ iD - eD \in -Slack(D)..Slack(D)
  BY <1>1, <1>14, RepresentationRounds
<1>20. OutputVat(p) = oA + oB
  <2>1. VatSum("out", P) = VatSum("out", A \union B)
    BY <1>2, <1>10, SumIsOfPart DEF VatFigures
  <2>2. VatSum("out", A \union B) = VatSum("out", A) + VatSum("out", B)
    BY <1>2, <1>3, SumIsOfTwo DEF VatFigures
  <2> QED BY <1>1, <1>15, <1>16, <2>1, <2>2 DEF OutputVat
<1>21. InputVat(p) = (iC + iB) + iD
  <2>1. VatSum("in", P) = VatSum("in", (C \union B) \union D)
    BY <1>2, <1>11, SumIsOfPart DEF VatFigures
  <2>2. VatSum("in", C \union B) = VatSum("in", C) + VatSum("in", B)
    BY <1>2, <1>3, SumIsOfTwo DEF VatFigures
  <2>3. VatSum("in", (C \union B) \union D) = VatSum("in", C \union B) + VatSum("in", D)
    BY <1>2, <1>3, SumIsOfTwo DEF VatFigures
  <2> QED BY <1>1, <1>17, <1>18, <1>19, <2>1, <2>2, <2>3 DEF InputVat
<1>22. ReverseChargeVat(p, ReverseCharge) = oB
  <2>1. PICK F : F = [e \in EntryIds |-> Percent25(vatEntries[e].base)]
    OBVIOUS
  <2>2. PICK G : G = [e \in EntryIds |-> vatEntries[e]["out"]]
    OBVIOUS
  <2>3. B \subseteq EntryIds /\ \A e \in B : F[e] = G[e]
    BY <1>2, <1>12, <2>1, <2>2
  <2>4. SumFunctionOnSet(F, B) = SumFunctionOnSet(G, B)
    BY <2>3, LinesFinite, SumCongruence
  <2> QED BY <1>1, <1>16, <2>1, <2>2, <2>4 DEF ReverseChargeVat, VatSum
<1>23. PICK tA \in Nat, tB \in Nat, tO \in Nat :
         /\ tA = Slack(A) /\ tB = Slack(B) /\ tO = Tolerance(p, OutputCodes)
         /\ tA + tB <= tO
  <2>1. Tolerance(p, OutputCodes) = Slack(Of(p, OutputCodes))
    BY DEF Tolerance, Slack
  <2>2. IsFiniteSet(Of(p, OutputCodes))
    BY <1>2, <1>8, LinesFinite
  <2> QED BY <1>3, <1>8, <2>1, <2>2, SlackAdds
<1>24. PICK tC \in Nat, tCB \in Nat, tD \in Nat, tI \in Nat :
         /\ tC = Slack(C) /\ tCB = Slack(C \union B) /\ tD = Slack(D)
         /\ tI = Tolerance(p, InputCodes) /\ tC + tB <= tCB /\ tCB + tD <= tI
  <2>1. Tolerance(p, InputCodes) = Slack(Of(p, InputCodes))
    BY DEF Tolerance, Slack
  <2>2. IsFiniteSet(Of(p, InputCodes)) /\ IsFiniteSet(C \union B)
    BY <1>2, <1>9, LinesFinite
  <2>3. Slack(C) \in Nat /\ Slack(C) + Slack(B) <= Slack(C \union B)
    BY <1>3, <2>2, SlackAdds
  <2>4. /\ Slack(C \union B) \in Nat /\ Slack(D) \in Nat /\ Slack(Of(p, InputCodes)) \in Nat
        /\ Slack(C \union B) + Slack(D) <= Slack(Of(p, InputCodes))
    BY <1>3, <1>9, <2>2, SlackAdds
  <2> QED BY <1>23, <2>1, <2>3, <2>4
<1>25. Tolerance(p, OrdinaryCodes) = tA
  BY <1>6, <1>23 DEF Tolerance, Slack
<1>26. /\ (oA + oB) - ((eA - 0) + eB) \in -tO..tO
       /\ ((oA + oB) - oB) - (eA - 0) \in -tA..tA
  BY <1>15, <1>16, <1>23
<1>27. ((iC + iB) + iD) - ((eC + eB) + eD) \in -tI..tI
  BY <1>17, <1>18, <1>19, <1>23, <1>24
<1>28. ExpectedOrdinary(p) = eA - 0 /\ ExpectedInput(p) = (eC + eB) + eD
  BY <1>7, <1>15, <1>16, <1>18, <1>19 DEF ExpectedOrdinary, ExpectedInput
<1> QED
  BY <1>16, <1>20, <1>21, <1>22, <1>23, <1>24, <1>25, <1>26, <1>27, <1>28
    DEF ReportOk, Within

-----------------------------------------------------------------------------
(* An entry is posted.                                                      *)

LEMMA Prices ==
  ASSUME NEW i \in Invoices2
  PROVE  /\ PriceOf(i) \in Nat \ {0} /\ VatOf(i) \in Nat /\ GrossOf(i) \in Nat \ {0}
         /\ i = "foreign" => VatOf(i) = 0
<1>1. PriceOf(i) \in Nat \ {0}
  BY VatAssumption DEF PriceOf
<1>2. CASE i = "domestic"
  <2>1. VatOf(i) = Percent25(PriceOf(i))
    BY <1>2 DEF VatOf, CodeOf, OutputOf
  <2>2. VatOf(i) \in Nat
    BY <1>1, <2>1, QuarterRounds
  <2> QED BY <1>1, <1>2, <2>2 DEF GrossOf
<1>3. CASE i = "foreign"
  <2>1. VatOf(i) = 0
    BY <1>3 DEF VatOf, CodeOf, OutputOf, Sale, ForeignSale, ReverseCharge, Goods, EuService
  <2> QED BY <1>1, <1>3, <2>1 DEF GrossOf
<1> QED BY <1>2, <1>3 DEF Invoices2

LEMMA GivenBack ==
  ASSUME VatTyped, NEW i \in Invoices2, NEW amount \in Nat
  PROVE  /\ VatGivenBack(i, amount) \in Int
         /\ i = "foreign" => VatGivenBack(i, amount) = 0
<1>1. PICK back \in Nat : back = credited[i] + (IF i = "domestic" THEN writtenOff ELSE 0)
  BY DEF VatTyped
<1>2. PICK v \in Nat, g \in Nat \ {0} : v = VatOf(i) /\ g = GrossOf(i)
  BY Prices
<1>3. VatGivenBack(i, amount) = Share(v, back + amount, g) - Share(v, back, g)
  BY <1>1, <1>2 DEF VatGivenBack
<1>4. back + amount \in Int /\ back \in Int /\ v \in Int
  BY <1>1, <1>2
<1>5. Share(v, back + amount, g) \in Int /\ Share(v, back, g) \in Int
  BY <1>2, <1>4, ShareTypes
<1>6. v = 0 => Share(v, back + amount, g) = 0 /\ Share(v, back, g) = 0
  BY <1>2, <1>4, ShareOfNothing
<1> QED BY <1>2, <1>3, <1>5, <1>6, Prices

(* What appending an entry does to the table.                               *)
LEMMA PostedEntries ==
  ASSUME VatTyped, NEW r \in VatRecords, PostVat(r), NEW n \in Nat, n = Len(vatEntries)
  PROVE  /\ EntryIds = 1 .. n /\ EntryIds' = 1 .. n + 1 /\ n + 1 \notin EntryIds
         /\ vatEntries' \in Seq(VatRecords) /\ Len(vatEntries') = n + 1
         /\ vatEntries'[n + 1] = r
         /\ \A e \in EntryIds : e \in EntryIds' /\ vatEntries'[e] = vatEntries[e]
BY DEF VatTyped, PostVat, EntryIds

(* The sums over entries that were there stay.                              *)
LEMMA PostedSums ==
  ASSUME VatTyped, NEW r \in VatRecords, PostVat(r), NEW n \in Nat, n = Len(vatEntries),
         NEW figure \in VatFigures, NEW S, S \subseteq EntryIds
  PROVE  LET G == [e \in EntryIds' |-> vatEntries'[e][figure]]
         IN  /\ SumFunctionOnSet(G, S) = VatSum(figure, S)
             /\ SumFunctionOnSet(G, S \union {n + 1}) = r[figure] + VatSum(figure, S)
             /\ VatSum(figure, S) \in Int
<1>1. PICK F : F = [e \in EntryIds |-> vatEntries[e][figure]]
  OBVIOUS
<1>2. PICK G : G = [e \in EntryIds' |-> vatEntries'[e][figure]]
  OBVIOUS
<1>3. PICK m : m = n + 1
  OBVIOUS
<1>4. /\ m \notin EntryIds /\ m \in EntryIds' /\ vatEntries'[m] = r
      /\ \A e \in EntryIds : e \in EntryIds' /\ vatEntries'[e] = vatEntries[e]
  BY <1>3, PostedEntries
<1>5. IsFiniteSet(S)
  BY LinesFinite
<1>6. \A e \in S : F[e] = G[e] /\ F[e] \in Int
  BY <1>1, <1>2, <1>4, LineTypes DEF VatFigures
<1>7. G[m] = r[figure] /\ r[figure] \in Int
  BY <1>2, <1>4 DEF VatFigures, VatRecords
<1>8. SumFunctionOnSet(F, S) = SumFunctionOnSet(G, S)
  BY <1>5, <1>6, SumCongruence
<1>9. SumFunctionOnSet(G, S \union {m}) = G[m] + SumFunctionOnSet(G, S)
  <2>1. \A e \in S \union {m} : G[e] \in Int
    BY <1>6, <1>7
  <2>2. m \notin S
    BY <1>4
  <2> QED BY <1>5, <2>1, <2>2, SumAdds
<1>10. SumFunctionOnSet(F, S) \in Int
  BY <1>5, <1>6, SumType
<1> QED BY <1>1, <1>2, <1>3, <1>7, <1>8, <1>9, <1>10 DEF VatSum

(* The entries of the periods after it.                                     *)
LEMMA PostedPeriods ==
  ASSUME VatTyped, NEW r \in VatRecords, PostVat(r), NEW n \in Nat, n = Len(vatEntries),
         NEW q
  PROVE  EntriesOf(q)' = IF q = r.period THEN EntriesOf(q) \union {n + 1} ELSE EntriesOf(q)
<1>1. PICK m : m = n + 1
  OBVIOUS
<1>2. /\ m \notin EntryIds /\ EntryIds' = EntryIds \union {m} /\ vatEntries'[m] = r
      /\ \A e \in EntryIds : vatEntries'[e] = vatEntries[e]
  <2>1. 1 .. n + 1 = (1 .. n) \union {n + 1}
    OBVIOUS
  <2> QED BY <1>1, <2>1, PostedEntries
<1>3. EntriesOf(q)' = {e \in EntryIds \union {m} : vatEntries'[e].period = q}
  BY <1>2 DEF EntriesOf
<1>4. \A e : e \in EntriesOf(q)' <=> e \in EntriesOf(q) \/ (e = m /\ q = r.period)
  BY <1>2, <1>3 DEF EntriesOf
<1> QED BY <1>1, <1>4

(* An entry is new, or takes one back that stands.                          *)
IsNew(r) == r.reverses = 0

TakesBack(r) ==
  LET t == r.reverses
  IN  /\ t \in Untaken
      /\ r.out = -vatEntries[t].out /\ r.in = -vatEntries[t].in

LEMMA PostedUntaken ==
  ASSUME VatTyped, NEW r \in VatRecords, PostVat(r), NEW n \in Nat, n = Len(vatEntries)
  PROVE  /\ IsNew(r) => Untaken' = Untaken \union {n + 1}
         /\ TakesBack(r) => Untaken' = Untaken \ {r.reverses}
<1>1. PICK m : m = n + 1
  OBVIOUS
<1>2. /\ m \notin EntryIds /\ EntryIds' = EntryIds \union {m} /\ vatEntries'[m] = r
      /\ \A e \in EntryIds : vatEntries'[e] = vatEntries[e]
  <2>1. 1 .. n + 1 = (1 .. n) \union {n + 1}
    OBVIOUS
  <2> QED BY <1>1, <2>1, PostedEntries
<1>3. \A e \in EntryIds : vatEntries[e].reverses # m /\ e # 0
  <2>1. EntryIds = 1 .. n
    BY PostedEntries
  <2>2. \A e \in EntryIds : vatEntries[e].reverses \in Nat /\ vatEntries[e].reverses < e
    BY LineTypes DEF VatTyped, VatRecords
  <2> QED BY <1>1, <2>1, <2>2
<1>4. \A e \in EntryIds : Taken(e)' <=> Taken(e) \/ r.reverses = e
  BY <1>2 DEF Taken
<1>5. r.reverses # m => ~Taken(m)'
  BY <1>2, <1>3 DEF Taken
<1>6. \A e : e \in Untaken' <=>
        e \in EntryIds \union {m} /\ vatEntries'[e].reverses = 0 /\ ~Taken(e)'
  BY <1>2 DEF Untaken
<1>7. CASE IsNew(r)
  <2>1. r.reverses = 0 /\ m # 0 /\ ~TakesBack(r)
    BY <1>1, <1>3, <1>7 DEF IsNew, TakesBack, Untaken
  <2>2. \A e : e \in Untaken' <=> e \in Untaken \union {m}
    BY <1>2, <1>3, <1>4, <1>5, <1>6, <2>1 DEF Untaken
  <2> QED BY <1>1, <2>1, <2>2
<1>8. CASE TakesBack(r)
  <2>1. r.reverses \in EntryIds /\ r.reverses # 0
    BY <1>3, <1>8 DEF TakesBack, Untaken
  <2>2. \A e : e \in Untaken' <=> e \in Untaken \ {r.reverses}
    BY <1>2, <1>4, <1>6, <2>1 DEF Untaken
  <2> QED BY <2>1, <2>2 DEF IsNew
<1> QED BY <1>7, <1>8

LEMMA PostedAddsUp ==
  ASSUME VatTyped, PeriodsAddUp, NEW r \in VatRecords, PostVat(r), IsNew(r) \/ TakesBack(r)
  PROVE  PeriodsAddUp'
<1>1. PICK n \in Nat : n = Len(vatEntries)
  BY DEF VatTyped
<1>2. SUFFICES ASSUME NEW figure \in {"out", "in"}
               PROVE  SumFunctionOnSet([p \in VatPeriods |-> VatSum(figure, EntriesOf(p))'],
                                       VatPeriods) = VatSum(figure, Untaken)'
  BY DEF PeriodsAddUp, AddsUp
<1>3. figure \in VatFigures
  BY DEF VatFigures
<1>4. PICK G : G = [e \in EntryIds' |-> vatEntries'[e][figure]]
  OBVIOUS
<1>5. \A S : VatSum(figure, S)' = SumFunctionOnSet(G, S')
  BY <1>4 DEF VatSum
<1>6. r[figure] \in Int /\ r.period \in VatPeriods
  BY DEF VatRecords
<1>7. ASSUME NEW S, S \subseteq EntryIds
      PROVE  /\ SumFunctionOnSet(G, S) = VatSum(figure, S)
             /\ SumFunctionOnSet(G, S \union {n + 1}) = r[figure] + VatSum(figure, S)
             /\ VatSum(figure, S) \in Int
  BY <1>1, <1>3, <1>4, <1>7, PostedSums
<1>8. PICK N : N = [p \in VatPeriods |-> VatSum(figure, EntriesOf(p))]
  OBVIOUS
<1>9. PICK M : M = [p \in VatPeriods |-> VatSum(figure, EntriesOf(p))']
  OBVIOUS
<1>10. ASSUME NEW q \in VatPeriods
       PROVE  /\ N[q] \in Int
              /\ M[q] = IF q = r.period THEN r[figure] + N[q] ELSE N[q]
  <2>1. EntriesOf(q) \subseteq EntryIds
    BY DEF EntriesOf
  <2>2. M[q] = SumFunctionOnSet(G, EntriesOf(q)')
    BY <1>5, <1>9
  <2>3. EntriesOf(q)' = IF q = r.period THEN EntriesOf(q) \union {n + 1} ELSE EntriesOf(q)
    BY <1>1, PostedPeriods
  <2>4. N[q] = VatSum(figure, EntriesOf(q))
    BY <1>8
  <2> QED BY <1>7, <2>1, <2>2, <2>3, <2>4
<1>11. SumFunctionOnSet(M, VatPeriods)
         = SumFunctionOnSet(N, VatPeriods) + (M[r.period] - N[r.period])
  <2>1. \A q \in VatPeriods : N[q] \in Int /\ M[q] \in Int /\ (q # r.period => M[q] = N[q])
    BY <1>6, <1>10
  <2>2. PICK a \in VatPeriods : a = r.period
    BY <1>6
  <2>3. IsFiniteSet(VatPeriods)
    BY VatAssumption
  <2>4. SumFunctionOnSet(M, VatPeriods) = SumFunctionOnSet(N, VatPeriods) + (M[a] - N[a])
    BY <2>1, <2>2, <2>3, SumChanges
  <2> QED BY <2>2, <2>4
<1>12. SumFunctionOnSet(N, VatPeriods) = VatSum(figure, Untaken)
  BY <1>8 DEF PeriodsAddUp, AddsUp
<1>13. Untaken \subseteq EntryIds
  BY DEF Untaken
<1>14. PICK u \in Int : u = VatSum(figure, Untaken)
  BY <1>7, <1>13
<1>15. SumFunctionOnSet(M, VatPeriods) = u + r[figure]
  BY <1>6, <1>10, <1>11, <1>12, <1>14
<1>16. VatSum(figure, Untaken)' = u + r[figure]
  <2>1. VatSum(figure, Untaken)' = SumFunctionOnSet(G, Untaken')
    BY <1>5
  <2>2. CASE IsNew(r)
    <3>1. Untaken' = Untaken \union {n + 1}
      BY <1>1, <2>2, PostedUntaken
    <3>2. SumFunctionOnSet(G, Untaken \union {n + 1}) = r[figure] + u
      BY <1>7, <1>13, <1>14
    <3>3. VatSum(figure, Untaken)' = r[figure] + u
      BY <2>1, <3>1, <3>2
    <3> QED BY <1>6, <1>14, <3>3
  <2>3. CASE TakesBack(r)
    <3>1. PICK t \in Untaken : t = r.reverses
      BY <2>3 DEF TakesBack
    <3>2. Untaken' = Untaken \ {t}
      BY <1>1, <2>3, <3>1, PostedUntaken
    <3>3. VatSum(figure, Untaken)' = VatSum(figure, Untaken \ {t})
      <4>1. Untaken \ {t} \subseteq EntryIds
        BY <1>13
      <4> QED BY <1>7, <2>1, <3>2, <4>1
    <3>4. u = vatEntries[t][figure] + VatSum(figure, Untaken \ {t})
      <4>1. PICK F : F = [e \in EntryIds |-> vatEntries[e][figure]]
        OBVIOUS
      <4>2. IsFiniteSet(Untaken) /\ \A e \in Untaken : F[e] \in Int
        BY <1>3, <1>13, <4>1, LinesFinite, LineTypes DEF VatFigures
      <4>3. SumFunctionOnSet(F, Untaken) = F[t] + SumFunctionOnSet(F, Untaken \ {t})
        BY <4>2, SumRemoves
      <4> QED BY <1>13, <1>14, <4>1, <4>3 DEF VatSum
    <3>5. r[figure] = -vatEntries[t][figure]
      BY <2>3, <3>1 DEF TakesBack
    <3>6. vatEntries[t][figure] \in Int /\ VatSum(figure, Untaken \ {t}) \in Int
      <4>1. Untaken \ {t} \subseteq EntryIds /\ t \in EntryIds
        BY <1>13
      <4> QED BY <1>7, <4>1, LineTypes
    <3> QED BY <3>3, <3>4, <3>5, <3>6
  <2> QED BY <2>2, <2>3
<1> QED BY <1>9, <1>15, <1>16

(* A line rounded by itself, and a share of an invoice.                     *)
LEMMA RoundedStands ==
  ASSUME NEW r, r.share = FALSE, r.code # BadDebt,
         r.out = OutputOf(r.code, r.base), r.in = InputOf(r.code, r.base)
  PROVE  LineStands(r)
<1>1. LineIsRounded(r)
  BY DEF LineIsRounded
<1>2. ~r.share
  OBVIOUS
<1> QED BY <1>1, <1>2 DEF LineStands

LEMMA ShareStands ==
  ASSUME NEW r, r.share = TRUE, r.invoice # "none",
         LineIsRounded(r) \/ (r.code \in OrdinaryCodes /\ r.in = 0)
  PROVE  LineStands(r)
<1>1. r.share
  OBVIOUS
<1> QED BY <1>1 DEF LineStands

(* A posting that stands keeps what holds, if the amounts given back do.    *)
LEMMA Posting ==
  ASSUME VatInv, NEW r \in VatRecords, PostVat(r), LineStands(r),
         IsNew(r) \/ TakesBack(r), Len(vatEntries) < MaxVatEntries,
         UNCHANGED returnState,
         credited' \in [Invoices2 -> Nat], writtenOff' \in Nat,
         \A i \in Invoices2 : credited'[i] <= GrossOf(i),
         credited'["domestic"] + writtenOff' <= GrossOf("domestic")
  PROVE  VatInv'
<1>1. PICK n \in Nat : n = Len(vatEntries)
  BY DEF VatInv, VatTyped
<1>2. /\ EntryIds = 1 .. n /\ EntryIds' = 1 .. n + 1
      /\ vatEntries' \in Seq(VatRecords) /\ Len(vatEntries') = n + 1
      /\ vatEntries'[n + 1] = r
      /\ \A e \in EntryIds : vatEntries'[e] = vatEntries[e]
  BY <1>1, PostedEntries DEF VatInv
<1>3. r.reverses < n + 1
  BY <1>1, <1>2 DEF IsNew, TakesBack, Untaken
<1>4. \A e \in EntryIds' : e \in EntryIds \/ e = n + 1
  BY <1>2
<1>5. VatTyped'
  <2>1. Len(vatEntries') <= MaxVatEntries
    BY <1>1, <1>2, VatAssumption
  <2>2. \A e \in EntryIds' : vatEntries'[e].reverses < e
    BY <1>2, <1>3, <1>4 DEF VatInv, VatTyped
  <2> QED BY <1>2, <2>1, <2>2 DEF VatInv, VatTyped, GrossOf
<1>6. LinesStand'
  <2>1. \A e \in EntryIds' : LineStands(vatEntries'[e])
    BY <1>2, <1>4 DEF VatInv, LinesStand
  <2> QED BY <2>1 DEF LinesStand
<1>7. PeriodsAddUp'
  BY PostedAddsUp DEF VatInv
<1> QED BY <1>5, <1>6, <1>7 DEF VatInv

-----------------------------------------------------------------------------
(* The steps.                                                               *)

LEMMA OutputTypes ==
  ASSUME NEW code, NEW base \in Int
  PROVE  /\ OutputOf(code, base) \in Int /\ InputOf(code, base) \in Int
         /\ OutputOf(code, -base) = -OutputOf(code, base)
         /\ InputOf(code, -base) = -InputOf(code, base)
<1>1. PICK q \in Int : q = Percent25(base) /\ Percent25(-base) = -q
  BY QuarterRounds
<1>2. PICK t \in Int : t = Percent25(q) /\ Percent25(-q) = -t
  BY QuarterRounds
<1>3. OutputOf(code, base) \in Int /\ OutputOf(code, -base) = -OutputOf(code, base)
  BY <1>1 DEF OutputOf
<1>4. Representation \notin {Purchase} \union ReverseCharge
  BY DEF Representation, Purchase, ReverseCharge, Goods, EuService
<1>5. CASE code \in {Purchase} \union ReverseCharge
  BY <1>1, <1>3, <1>4, <1>5 DEF InputOf
<1>6. CASE code = Representation
  BY <1>1, <1>2, <1>3, <1>4, <1>6 DEF InputOf
<1>7. CASE code \notin {Purchase, Representation} \union ReverseCharge
  BY <1>3, <1>7 DEF InputOf
<1> QED BY <1>5, <1>6, <1>7

LEMMA VoucherStep ==
  ASSUME VatInv, NEW p \in VatPeriods, NEW v \in Vouchers, BookVoucher(p, v)
  PROVE  VatInv'
<1>1. v.base \in Int /\ v.code # BadDebt /\ v.code \in VatCodes
  BY VatAssumption DEF BadDebt, VatCodes
<1>2. PICK o \in Int, i \in Int : o = OutputOf(v.code, v.base) /\ i = InputOf(v.code, v.base)
  BY <1>1, OutputTypes
<1>3. PICK r : r = VatEntry(p, v.code, v.base, o, i)
  OBVIOUS
<1>4. r \in VatRecords /\ LineStands(r) /\ IsNew(r)
  <2>1. /\ r.code = v.code /\ r.base = v.base /\ r.out = o /\ r.in = i /\ r.share = FALSE
        /\ r.reverses = 0
    BY <1>3 DEF VatEntry
  <2>2. LineStands(r)
    BY <1>1, <1>2, <2>1, RoundedStands
  <2>3. r \in VatRecords
    BY <1>1, <1>2, <1>3 DEF VatEntry, VatRecords
  <2> QED BY <2>1, <2>2, <2>3 DEF IsNew
<1>5. PostVat(r) /\ Len(vatEntries) < MaxVatEntries
      /\ UNCHANGED <<returnState, credited, writtenOff>>
  BY <1>2, <1>3 DEF BookVoucher, MayPost
<1> QED BY <1>4, <1>5, Posting DEF VatInv, VatTyped

LEMMA CodesOfInvoices ==
  ASSUME NEW i \in Invoices2
  PROVE  /\ CodeOf(i) \in VatCodes /\ CodeOf(i) # BadDebt /\ i # "none"
         /\ i = "domestic" => CodeOf(i) = Sale
         /\ i = "foreign" => CodeOf(i) = ForeignSale
BY DEF CodeOf, VatCodes, Invoices2, Sale, ForeignSale, BadDebt

LEMMA ForeignSaleHasNoVat ==
  ASSUME NEW base
  PROVE  OutputOf(ForeignSale, base) = 0 /\ InputOf(ForeignSale, base) = 0
BY DEF OutputOf, InputOf, ForeignSale, Sale, Purchase, Representation, ReverseCharge,
  Goods, EuService

LEMMA SaleIsOutput == ASSUME NEW base PROVE InputOf(Sale, base) = 0
BY DEF InputOf, Sale, Purchase, Representation, ReverseCharge, Goods, EuService

LEMMA SaleStep ==
  ASSUME VatInv, NEW p \in VatPeriods, NEW i \in Invoices2, BookSale(p, i)
  PROVE  VatInv'
<1>1. PICK b \in Int, o \in Int, c \in VatCodes : b = PriceOf(i) /\ o = VatOf(i) /\ c = CodeOf(i)
  BY Prices, CodesOfInvoices
<1>2. o = OutputOf(c, b) /\ InputOf(c, b) = 0 /\ c # BadDebt
  BY <1>1, CodesOfInvoices, ForeignSaleHasNoVat, SaleIsOutput DEF VatOf, Invoices2
<1>3. PICK d : d = VatEntry(p, c, b, o, 0)
  OBVIOUS
<1>4. PICK r : r = [d EXCEPT !.invoice = i]
  OBVIOUS
<1>5. d \in VatRecords
  BY <1>1, <1>3 DEF VatEntry, VatRecords
<1>6. r \in VatRecords /\ LineStands(r) /\ IsNew(r)
  <2>1. /\ d.code = c /\ d.base = b /\ d.out = o /\ d.in = 0 /\ d.share = FALSE
        /\ d.reverses = 0
    BY <1>3 DEF VatEntry
  <2>2. /\ r.code = c /\ r.base = b /\ r.out = o /\ r.in = 0 /\ r.share = FALSE
        /\ r.reverses = 0 /\ r \in VatRecords
    BY <1>4, <1>5, <2>1 DEF VatRecords
  <2>3. LineStands(r)
    BY <1>2, <2>2, RoundedStands
  <2> QED BY <2>2, <2>3 DEF IsNew
<1>7. /\ PostVat(r) /\ Len(vatEntries) < MaxVatEntries
      /\ UNCHANGED <<returnState, credited, writtenOff>>
  BY <1>1, <1>3, <1>4 DEF BookSale, MayPost
<1> QED BY <1>6, <1>7, Posting DEF VatInv, VatTyped

(* A share of an invoice.                                                   *)
LEMMA ShareEntry ==
  ASSUME NEW p \in VatPeriods, NEW i \in Invoices2, NEW c \in {Sale, ForeignSale, BadDebt},
         NEW b \in Int, NEW o \in Int, c = ForeignSale => o = 0,
         NEW r, r = [VatEntry(p, c, b, o, 0) EXCEPT !.invoice = i, !.share = TRUE]
  PROVE  r \in VatRecords /\ LineStands(r) /\ IsNew(r)
<1>1. PICK d : d = VatEntry(p, c, b, o, 0)
  OBVIOUS
<1>2. PICK e : e = [d EXCEPT !.invoice = i]
  OBVIOUS
<1>3. r = [e EXCEPT !.share = TRUE]
  BY <1>1, <1>2
<1>4. d \in VatRecords /\ d.code = c /\ d.base = b /\ d.out = o /\ d.in = 0 /\ d.reverses = 0
  BY <1>1 DEF VatEntry, VatRecords, VatCodes
<1>5. /\ e \in VatRecords /\ e.code = c /\ e.base = b /\ e.out = o /\ e.in = 0
      /\ e.reverses = 0 /\ e.invoice = i
  BY <1>2, <1>4 DEF VatRecords
<1>6. /\ r \in VatRecords /\ r.code = c /\ r.base = b /\ r.out = o /\ r.in = 0
      /\ r.reverses = 0 /\ r.invoice = i /\ r.share = TRUE
  BY <1>3, <1>5 DEF VatRecords
<1>7. c # ForeignSale => c \in OrdinaryCodes
  BY DEF OrdinaryCodes
<1>8. i # "none"
  BY DEF Invoices2
<1>9. LineIsRounded(r) \/ r.code \in OrdinaryCodes
  BY <1>6, <1>7, ForeignSaleHasNoVat DEF LineIsRounded
<1>10. LineStands(r)
  BY <1>6, <1>8, <1>9, ShareStands
<1> QED BY <1>6, <1>10 DEF IsNew

LEMMA CreditNoteStep ==
  ASSUME VatInv, NEW p \in VatPeriods, NEW i \in Invoices2, NEW amount \in 1 .. GrossOf(i),
         BookCreditNote(p, i, amount)
  PROVE  VatInv'
<1>1. VatTyped /\ amount \in Nat
  BY Prices DEF VatInv
<1>2. PICK vat \in Int : vat = VatGivenBack(i, amount) /\ (i = "foreign" => vat = 0)
  BY <1>1, GivenBack
<1>3. PICK c : c = CodeOf(i)
  OBVIOUS
<1>4. c \in {Sale, ForeignSale, BadDebt} /\ (c = ForeignSale => i = "foreign")
  BY <1>3, CodesOfInvoices DEF Invoices2, Sale, ForeignSale
<1>5. PICK b \in Int, o \in Int : b = -(amount - vat) /\ o = -vat /\ (c = ForeignSale => o = 0)
  BY <1>1, <1>2, <1>4
<1>6. PICK r : r = [VatEntry(p, c, b, o, 0) EXCEPT !.invoice = i, !.share = TRUE]
  OBVIOUS
<1>7. r \in VatRecords /\ LineStands(r) /\ IsNew(r)
  BY <1>4, <1>5, <1>6, ShareEntry
<1>8. /\ PostVat(r) /\ Len(vatEntries) < MaxVatEntries
      /\ credited' = [credited EXCEPT ![i] = @ + amount]
      /\ UNCHANGED <<returnState, writtenOff>>
      /\ credited[i] + amount <= GrossOf(i) /\ (i = "domestic" => writtenOff = 0)
  BY <1>2, <1>3, <1>5, <1>6 DEF BookCreditNote, MayPost, MayCredit
<1>9. PICK k \in Nat : k = credited[i] + amount
  BY <1>1 DEF VatTyped
<1>10. credited' = [credited EXCEPT ![i] = k]
  BY <1>8, <1>9
<1>11. credited' \in [Invoices2 -> Nat] /\ \A j \in Invoices2 : credited'[j] <= GrossOf(j)
  BY <1>1, <1>8, <1>9, <1>10 DEF VatTyped
<1>12. credited'["domestic"] + writtenOff' <= GrossOf("domestic")
  BY <1>1, <1>8, <1>9, <1>10, Prices DEF VatTyped, Invoices2
<1> QED BY <1>1, <1>7, <1>8, <1>11, <1>12, Posting DEF VatTyped

LEMMA BadDebtStep ==
  ASSUME VatInv, NEW p \in VatPeriods, NEW amount \in 1 .. GrossOf("domestic"),
         BookBadDebt(p, amount)
  PROVE  VatInv'
<1>0. "domestic" \in Invoices2
  BY DEF Invoices2
<1>1. VatTyped /\ amount \in Nat
  BY <1>0, Prices DEF VatInv
<1>2. PICK vat \in Int : vat = VatGivenBack("domestic", amount)
  BY <1>0, <1>1, GivenBack
<1>3. PICK b \in Int, o \in Int : b = amount - vat /\ o = -vat
  BY <1>1, <1>2
<1>4. PICK r : r = [VatEntry(p, BadDebt, b, o, 0)
                      EXCEPT !.invoice = "domestic", !.share = TRUE]
  OBVIOUS
<1>5. r \in VatRecords /\ LineStands(r) /\ IsNew(r)
  <2>1. BadDebt # ForeignSale
    BY DEF BadDebt, ForeignSale
  <2> QED BY <1>0, <1>3, <1>4, <2>1, ShareEntry
<1>6. /\ PostVat(r) /\ Len(vatEntries) < MaxVatEntries
      /\ writtenOff' = writtenOff + amount /\ UNCHANGED <<returnState, credited>>
      /\ (credited["domestic"] + writtenOff) + amount <= GrossOf("domestic")
  BY <1>2, <1>3, <1>4 DEF BookBadDebt, MayPost
<1>7. writtenOff' \in Nat /\ credited'["domestic"] + writtenOff' <= GrossOf("domestic")
  BY <1>0, <1>1, <1>6, Prices DEF VatTyped
<1> QED BY <1>1, <1>5, <1>6, <1>7, Posting DEF VatTyped

LEMMA TakeBackStep ==
  ASSUME VatInv, NEW p \in VatPeriods, NEW e \in EntryIds, TakeBackEntry(p, e)
  PROVE  VatInv'
<1>1. PICK o : o = vatEntries[e]
  OBVIOUS
<1>2. VatTyped /\ o \in VatRecords /\ LineStands(o)
  BY <1>1, LineTypes DEF VatInv, LinesStand
<1>3. o.invoice = "none" /\ o.reverses = 0 /\ ~Taken(e)
  BY <1>1 DEF TakeBackEntry
<1>4. /\ o.code \in VatCodes /\ o.code # BadDebt /\ LineIsRounded(o)
      /\ o.base \in Int /\ o.out \in Int /\ o.in \in Int
  BY <1>2, <1>3 DEF LineStands, VatRecords
<1>5. PICK c \in VatCodes, b \in Int, u \in Int, i \in Int :
        c = o.code /\ b = -o.base /\ u = -o.out /\ i = -o.in
  BY <1>4
<1>6. u = OutputOf(c, b) /\ i = InputOf(c, b)
  BY <1>4, <1>5, OutputTypes DEF LineIsRounded
<1>7. PICK d : d = VatEntry(p, c, b, u, i)
  OBVIOUS
<1>8. PICK r : r = [d EXCEPT !.reverses = e]
  OBVIOUS
<1>9. e \in Nat
  BY <1>2 DEF VatTyped, EntryIds
<1>10. /\ d \in VatRecords /\ d.code = c /\ d.base = b /\ d.out = u /\ d.in = i
       /\ d.share = FALSE
  BY <1>5, <1>7 DEF VatEntry, VatRecords
<1>11. /\ r \in VatRecords /\ r.code = c /\ r.base = b /\ r.out = u /\ r.in = i
       /\ r.share = FALSE /\ r.reverses = e
  BY <1>8, <1>9, <1>10 DEF VatRecords
<1>12. LineStands(r)
  BY <1>4, <1>5, <1>6, <1>11, RoundedStands
<1>13. TakesBack(r)
  BY <1>1, <1>3, <1>5, <1>11 DEF TakesBack, Untaken
<1>14. /\ PostVat(r) /\ Len(vatEntries) < MaxVatEntries
       /\ UNCHANGED <<returnState, credited, writtenOff>>
  BY <1>1, <1>5, <1>7, <1>8 DEF TakeBackEntry, MayPost
<1> QED BY <1>2, <1>11, <1>12, <1>13, <1>14, Posting DEF VatTyped

LEMMA PeriodStep ==
  ASSUME VatInv, NEW p \in VatPeriods, NEW from,
         NEW to \in {"open", "closed", "reported"}, SetReturnState(p, from, to)
  PROVE  VatInv'
<1>1. UNCHANGED <<vatEntries, credited, writtenOff>>
  BY DEF SetReturnState
<1>2. returnState' \in [VatPeriods -> {"open", "closed", "reported"}]
  BY DEF SetReturnState, VatInv, VatTyped
<1>3. VatTyped'
  BY <1>1, <1>2 DEF VatInv, VatTyped, EntryIds
<1>4. LinesStand'
  BY <1>1 DEF VatInv, LinesStand, EntryIds
<1>5. PeriodsAddUp'
  BY <1>1 DEF VatInv, PeriodsAddUp, AddsUp, VatSum, EntriesOf, Untaken, Taken, EntryIds
<1> QED BY <1>3, <1>4, <1>5 DEF VatInv

-----------------------------------------------------------------------------
LEMMA VatStarts == VatInit => VatInv
<1> SUFFICES ASSUME VatInit PROVE VatInv
  OBVIOUS
<1>1. vatEntries = <<>> /\ EntryIds = {}
  BY DEF VatInit, EntryIds
<1>2. VatTyped
  <2>1. \A i \in Invoices2 : GrossOf(i) \in Nat
    BY Prices
  <2>2. "domestic" \in Invoices2
    BY DEF Invoices2
  <2>3. vatEntries \in Seq(VatRecords) /\ Len(vatEntries) = 0
    BY <1>1
  <2> QED BY <1>1, <2>1, <2>2, <2>3, VatAssumption DEF VatInit, VatTyped
<1>3. LinesStand
  BY <1>1 DEF LinesStand
<1>4. PeriodsAddUp
  <2>1. SUFFICES ASSUME NEW figure \in {"out", "in"}
                 PROVE  SumFunctionOnSet([p \in VatPeriods |-> VatSum(figure, EntriesOf(p))],
                                         VatPeriods) = VatSum(figure, Untaken)
    BY DEF PeriodsAddUp, AddsUp
  <2>2. PICK N : N = [p \in VatPeriods |-> VatSum(figure, EntriesOf(p))]
    OBVIOUS
  <2>3. Untaken = {} /\ \A p : EntriesOf(p) = {}
    BY <1>1 DEF Untaken, EntriesOf
  <2>4. VatSum(figure, {}) = 0
    BY SumOfNothing DEF VatSum
  <2>5. \A p \in VatPeriods : N[p] = 0
    BY <2>2, <2>3, <2>4
  <2>6. SumFunctionOnSet(N, VatPeriods) = 0
    BY <2>5, VatAssumption, SumOfZeros
  <2> QED BY <2>2, <2>3, <2>4, <2>6
<1> QED BY <1>2, <1>3, <1>4 DEF VatInv

LEMMA VatStep == VatInv /\ [VatNext]_vatVars => VatInv'
<1> SUFFICES ASSUME VatInv, [VatNext]_vatVars PROVE VatInv'
  OBVIOUS
<1>1. CASE UNCHANGED <<vatEntries, returnState, credited, writtenOff>>
  <2>1. VatTyped'
    BY <1>1 DEF VatInv, VatTyped, EntryIds
  <2>2. LinesStand'
    BY <1>1 DEF VatInv, LinesStand, EntryIds
  <2>3. PeriodsAddUp'
    BY <1>1 DEF VatInv, PeriodsAddUp, AddsUp, VatSum, EntriesOf, Untaken, Taken, EntryIds
  <2> QED BY <2>1, <2>2, <2>3 DEF VatInv
<1>2. CASE VatNext /\ ~IssueForeignInvoice
  <2>1. PICK p \in VatPeriods :
          \/ \E v \in Vouchers : BookVoucher(p, v)
          \/ \E i \in Invoices2 :
               \/ BookSale(p, i)
               \/ \E amount \in 1..GrossOf(i) : BookCreditNote(p, i, amount)
          \/ \E amount \in 1..GrossOf("domestic") : BookBadDebt(p, amount)
          \/ \E e \in EntryIds : TakeBackEntry(p, e)
          \/ SetReturnState(p, "open", "closed")
          \/ SetReturnState(p, "closed", "open")
          \/ SetReturnState(p, "closed", "reported")
    BY <1>2 DEF VatNext, CloseReturn, ReopenReturn, ReportReturn
  <2> QED BY <2>1, VoucherStep, SaleStep, CreditNoteStep, BadDebtStep, TakeBackStep, PeriodStep
<1> QED BY <1>1, <1>2 DEF IssueForeignInvoice, vatVars

(* Entries have their types; all but the shares of the domestic invoice are *)
(* rounded one by one; and the periods add up to what was not taken back.   *)
THEOREM VatInvariant == VatSpec => []VatInv
<1>1. VatInit => VatInv
  BY VatStarts
<1>2. VatInv /\ [VatNext]_vatVars => VatInv'
  BY VatStep
<1> QED BY <1>1, <1>2, PTL DEF VatSpec

(* What the program books, each line rounded by itself, never stops a       *)
(* return; only a share of an invoice can exceed the tolerance.             *)
THEOREM RoundingNeverStops == VatSpec => []OnlySharesStopReturns
<1>1. VatInv => OnlySharesStopReturns
  BY RoundedReportsHold DEF VatInv, OnlySharesStopReturns
<1> QED BY <1>1, VatInvariant, PTL

-----------------------------------------------------------------------------
(* A final period.                                                          *)

(* A posting in another period changes nothing of what a period declares.   *)
LEMMA OthersDeclareTheSame ==
  ASSUME VatTyped, NEW r \in VatRecords, PostVat(r), NEW p, p # r.period
  PROVE  Form(p)' = Form(p) /\ ReportOk(p)' = ReportOk(p)
<1>1. PICK n \in Nat : n = Len(vatEntries)
  BY DEF VatTyped
<1>2. EntriesOf(p) \subseteq EntryIds
  BY DEF EntriesOf
<1>3. EntriesOf(p)' = EntriesOf(p)
  BY <1>1, PostedPeriods
<1>4. \A e \in EntryIds : e \in EntryIds' /\ vatEntries'[e] = vatEntries[e]
  BY <1>1, PostedEntries
<1>5. ASSUME NEW codes
      PROVE  Of(p, codes)' = Of(p, codes) /\ Of(p, codes) \subseteq EntryIds
  BY <1>2, <1>3, <1>4 DEF Of
<1>6. ASSUME NEW figure \in VatFigures, NEW S, S \subseteq EntryIds
      PROVE  VatSum(figure, S)' = VatSum(figure, S)
  <2>1. PICK G : G = [e \in EntryIds' |-> vatEntries'[e][figure]]
    OBVIOUS
  <2>2. SumFunctionOnSet(G, S) = VatSum(figure, S)
    BY <1>1, <1>6, <2>1, PostedSums
  <2> QED BY <2>1, <2>2 DEF VatSum
<1>7. ASSUME NEW codes
      PROVE  /\ Base(p, codes)' = Base(p, codes)
             /\ Expected25(p, codes)' = Expected25(p, codes)
             /\ Tolerance(p, codes)' = Tolerance(p, codes)
  <2>1. Of(p, codes)' = Of(p, codes)
    BY <1>5
  <2>2. VatSum("base", Of(p, codes))' = VatSum("base", Of(p, codes))
    <3>1. PICK S : S = Of(p, codes)
      OBVIOUS
    <3>2. VatSum("base", S)' = VatSum("base", S)
      BY <1>5, <1>6, <3>1 DEF VatFigures
    <3> QED BY <2>1, <3>1, <3>2 DEF VatSum
  <2>3. Base(p, codes)' = Base(p, codes)
    BY <2>2 DEF Base
  <2> QED BY <2>1, <2>3 DEF Expected25, Tolerance
<1>8. ASSUME NEW codes
      PROVE  ReverseChargeVat(p, codes)' = ReverseChargeVat(p, codes)
  <2>1. PICK S : S = Of(p, codes)
    OBVIOUS
  <2>2. S \subseteq EntryIds /\ IsFiniteSet(S) /\ Of(p, codes)' = S
    BY <1>5, <2>1, LinesFinite
  <2>3. PICK F : F = [e \in EntryIds |-> Percent25(vatEntries[e].base)]
    OBVIOUS
  <2>4. PICK G : G = [e \in EntryIds' |-> Percent25(vatEntries'[e].base)]
    OBVIOUS
  <2>5. \A e \in S : G[e] = F[e]
    BY <1>4, <2>2, <2>3, <2>4
  <2>6. SumFunctionOnSet(G, S) = SumFunctionOnSet(F, S)
    BY <2>2, <2>5, SumCongruence
  <2>7. ReverseChargeVat(p, codes) = SumFunctionOnSet(F, S)
    BY <2>1, <2>3 DEF ReverseChargeVat
  <2>8. ReverseChargeVat(p, codes)' = SumFunctionOnSet(G, S)
    BY <2>2, <2>4 DEF ReverseChargeVat
  <2> QED BY <2>6, <2>7, <2>8
<1>9. OutputVat(p)' = OutputVat(p) /\ InputVat(p)' = InputVat(p)
  <2>1. PICK S : S = EntriesOf(p)
    OBVIOUS
  <2>2. VatSum("out", S)' = VatSum("out", S) /\ VatSum("in", S)' = VatSum("in", S)
    BY <1>2, <1>6, <2>1 DEF VatFigures
  <2> QED BY <1>3, <2>1, <2>2 DEF OutputVat, InputVat, VatSum
<1>10. ExpectedOrdinary(p)' = ExpectedOrdinary(p) /\ ExpectedInput(p)' = ExpectedInput(p)
  BY <1>7 DEF ExpectedOrdinary, ExpectedInput
<1>11. Form(p)' = Form(p)
  BY <1>7, <1>8, <1>9 DEF Form
<1>12. ReportOk(p)' = ReportOk(p)
  BY <1>7, <1>8, <1>9, <1>10 DEF ReportOk
<1> QED BY <1>11, <1>12

(* An entry is posted in an open period, or none is.                        *)
LEMMA PostsInOpen ==
  ASSUME VatInv, VatNext
  PROVE  \/ UNCHANGED vatEntries
         \/ \E r \in VatRecords : PostVat(r) /\ returnState[r.period] = "open"
<1>1. VatTyped
  BY DEF VatInv
<1>2. PICK p \in VatPeriods :
        \/ \E v \in Vouchers : BookVoucher(p, v)
        \/ \E i \in Invoices2 :
             \/ BookSale(p, i)
             \/ \E amount \in 1..GrossOf(i) : BookCreditNote(p, i, amount)
        \/ \E amount \in 1..GrossOf("domestic") : BookBadDebt(p, amount)
        \/ \E e \in EntryIds : TakeBackEntry(p, e)
        \/ UNCHANGED vatEntries
  BY VatAssumption
     DEF VatNext, CloseReturn, ReopenReturn, ReportReturn, SetReturnState, IssueForeignInvoice
<1>3. VatInv'
  BY VatStep
<1>4. PICK n \in Nat : n = Len(vatEntries)
  BY <1>1 DEF VatTyped
<1>5. ASSUME NEW r, PostVat(r)
      PROVE  r \in VatRecords
  <2>1. vatEntries' = Append(vatEntries, r) /\ vatEntries \in Seq(VatRecords)
    BY <1>1, <1>5 DEF PostVat, VatTyped
  <2>2. Len(vatEntries') = n + 1 /\ vatEntries'[n + 1] = r
    BY <1>4, <2>1
  <2>3. vatEntries' \in Seq(VatRecords)
    BY <1>3 DEF VatInv, VatTyped
  <2>4. n + 1 \in 1 .. Len(vatEntries')
    BY <1>4, <2>2
  <2> QED BY <2>2, <2>3, <2>4
<1>6. ASSUME NEW v \in Vouchers, BookVoucher(p, v)
      PROVE  \E r \in VatRecords : PostVat(r) /\ returnState[r.period] = "open"
  <2>1. PICK r : r = VatEntry(p, v.code, v.base, OutputOf(v.code, v.base),
                              InputOf(v.code, v.base))
    OBVIOUS
  <2>2. PostVat(r) /\ r.period = p /\ returnState[p] = "open"
    BY <1>6, <2>1 DEF BookVoucher, MayPost, VatEntry
  <2> QED BY <1>5, <2>2
<1>7. ASSUME NEW c, NEW b, NEW o, NEW i, NEW r,
             r = [VatEntry(p, c, b, o, 0) EXCEPT !.invoice = i, !.share = TRUE]
      PROVE  r.period = p
  BY <1>7 DEF VatEntry
<1>8. ASSUME NEW i \in Invoices2, BookSale(p, i)
      PROVE  \E r \in VatRecords : PostVat(r) /\ returnState[r.period] = "open"
  <2>1. PICK r : r = [VatEntry(p, CodeOf(i), PriceOf(i), VatOf(i), 0) EXCEPT !.invoice = i]
    OBVIOUS
  <2>2. PostVat(r) /\ r.period = p /\ returnState[p] = "open"
    BY <1>8, <2>1 DEF BookSale, MayPost, VatEntry
  <2> QED BY <1>5, <2>2
<1>9. ASSUME NEW i \in Invoices2, NEW amount, BookCreditNote(p, i, amount)
      PROVE  \E r \in VatRecords : PostVat(r) /\ returnState[r.period] = "open"
  <2>1. PICK b, o, c : b = -(amount - VatGivenBack(i, amount))
                       /\ o = -VatGivenBack(i, amount) /\ c = CodeOf(i)
    OBVIOUS
  <2>2. PICK r : r = [VatEntry(p, c, b, o, 0) EXCEPT !.invoice = i, !.share = TRUE]
    OBVIOUS
  <2>3. PostVat(r) /\ returnState[p] = "open"
    BY <1>9, <2>1, <2>2 DEF BookCreditNote, MayPost
  <2> QED BY <1>5, <1>7, <2>2, <2>3
<1>10. ASSUME NEW amount, BookBadDebt(p, amount)
       PROVE  \E r \in VatRecords : PostVat(r) /\ returnState[r.period] = "open"
  <2>1. PICK b, o : b = amount - VatGivenBack("domestic", amount)
                    /\ o = -VatGivenBack("domestic", amount)
    OBVIOUS
  <2>2. PICK r : r = [VatEntry(p, BadDebt, b, o, 0)
                        EXCEPT !.invoice = "domestic", !.share = TRUE]
    OBVIOUS
  <2>3. PostVat(r) /\ returnState[p] = "open"
    BY <1>10, <2>1, <2>2 DEF BookBadDebt, MayPost
  <2> QED BY <1>5, <1>7, <2>2, <2>3
<1>11. ASSUME NEW e \in EntryIds, TakeBackEntry(p, e)
       PROVE  \E r \in VatRecords : PostVat(r) /\ returnState[r.period] = "open"
  <2>1. PICK o : o = vatEntries[e]
    OBVIOUS
  <2>2. PICK r : r = [VatEntry(p, o.code, -o.base, -o.out, -o.in) EXCEPT !.reverses = e]
    OBVIOUS
  <2>3. PostVat(r) /\ r.period = p /\ returnState[p] = "open"
    BY <1>11, <2>1, <2>2 DEF TakeBackEntry, MayPost, VatEntry
  <2> QED BY <1>5, <2>3
<1> QED BY <1>2, <1>6, <1>8, <1>9, <1>10, <1>11

(* All periods together declare the VAT of what was not taken back, nothing *)
(* twice and nothing lost, and what a final period declares stays as it is. *)
THEOREM VatIsDeclaredOnce == VatSpec => DeclaredOnce
<1>1. VatInv /\ [VatNext]_vatVars => [FinalIsKept]_vatVars
  <2>1. SUFFICES ASSUME VatInv, VatNext, NEW p \in VatPeriods, returnState[p] # "open"
                 PROVE  Form(p)' = Form(p) /\ ReportOk(p)' = ReportOk(p)
    BY DEF FinalIsKept
  <2>2. CASE UNCHANGED vatEntries
    BY <2>2 DEF Form, ReportOk, Base, OutputVat, InputVat, ReverseChargeVat, Expected25,
      ExpectedOrdinary, ExpectedInput, Tolerance, Of, EntriesOf, VatSum, EntryIds
  <2>3. ASSUME NEW r \in VatRecords, PostVat(r), returnState[r.period] = "open"
        PROVE  Form(p)' = Form(p) /\ ReportOk(p)' = ReportOk(p)
    BY <2>1, <2>3, OthersDeclareTheSame DEF VatInv
  <2> QED BY <2>1, <2>2, <2>3, PostsInOpen
<1>2. VatInv => \A figure \in {"out", "in"} : AddsUp(figure)
  BY DEF VatInv, PeriodsAddUp
<1> QED BY <1>1, <1>2, VatInvariant, PTL DEF VatSpec, DeclaredOnce

(* Entries, returns and what was given back of an invoice have their types. *)
THEOREM VatTypes == VatSpec => []VatTypeOK
<1>1. VatInv /\ onSalesList \in BOOLEAN => VatTypeOK
  <2> SUFFICES ASSUME VatTyped, onSalesList \in BOOLEAN PROVE VatTypeOK
    BY DEF VatInv
  <2>1. ASSUME NEW e \in EntryIds
        PROVE  /\ vatEntries[e].period \in VatPeriods
               /\ {vatEntries[e].base, vatEntries[e].out, vatEntries[e].in} \subseteq Int
               /\ vatEntries[e].reverses \in 0..(e - 1)
    <3>1. PICK r \in VatRecords : r = vatEntries[e]
      BY DEF VatTyped, EntryIds
    <3>2. r.reverses < e /\ e \in Nat
      BY <3>1 DEF VatTyped, EntryIds
    <3> QED BY <3>1, <3>2 DEF VatRecords
  <2>2. \A i \in Invoices2 : GrossOf(i) \in Nat
    BY Prices
  <2>3. \A i \in Invoices2 : credited[i] \in 0..GrossOf(i)
    BY <2>2 DEF VatTyped
  <2>4. writtenOff \in 0..(GrossOf("domestic") - credited["domestic"])
    <3>1. PICK g \in Nat : g = GrossOf("domestic")
      BY <2>2 DEF Invoices2
    <3>2. PICK c \in Nat : c = credited["domestic"]
      BY DEF VatTyped, Invoices2
    <3>3. writtenOff \in Nat /\ c + writtenOff <= g
      BY <3>1, <3>2 DEF VatTyped
    <3>4. writtenOff \in 0..(g - c)
      BY <3>3
    <3> QED BY <3>1, <3>2, <3>4
  <2> QED BY <2>1, <2>3, <2>4 DEF VatTyped, VatTypeOK
<1>2. VatInit => onSalesList \in BOOLEAN
  BY DEF VatInit
<1>3. onSalesList \in BOOLEAN /\ [VatNext]_vatVars => (onSalesList \in BOOLEAN)'
  BY DEF VatNext, vatVars, IssueForeignInvoice, BookVoucher, BookSale, BookCreditNote,
         BookBadDebt, TakeBackEntry, CloseReturn, ReopenReturn, ReportReturn, SetReturnState
<1> QED BY <1>1, <1>2, <1>3, VatInvariant, PTL DEF VatSpec

-----------------------------------------------------------------------------
(* Issuing: the numbers drawn have no gaps, documents have names of their  *)
(* own and the files written with them and are booked once, for any        *)
(* clerks, names, attempts, failures and deaths.  Who is in a transaction  *)
(* has a name no document has; the first file of an attempt bars every     *)
(* other attempt at the same name until it is removed, which is the last   *)
(* thing an attempt that failed does; so what is removed is never a        *)
(* document's.                                                             *)

Docs == [type : Series, series : Series \union {"own"}, no : Numbers, of : Nat,
         attempt : Nat \ {0}]

ClerkSteps == {"idle", "publish", "look", "remove", "book"}

ClerkRecords ==
  [step : ClerkSteps, row : Docs \union {NoRow}, at : Nat, invoice : Nat]

InvoiceJournals == [id : Nat \ {0}, invoice : Nat, reversed : BOOLEAN]

IssuingTyped ==
  /\ clerk \in [Clerks -> ClerkRecords]
  /\ issuedDocs \in SUBSET Docs /\ IsFiniteSet(issuedDocs)
  /\ numberOf \in [Series -> Nat]
  /\ issuedFiles \in [Paths -> 0..MaxAttempts]
  /\ attempts \in 0..MaxAttempts
  /\ writeLock \in Clerks \union {NoClerk}
  /\ deaths \in Nat

JournalsTyped ==
  /\ invoiceJournals \in SUBSET InvoiceJournals /\ IsFiniteSet(invoiceJournals)
  /\ posting \in [Numbers -> 0..MaxJournals]

-----------------------------------------------------------------------------
(* What a clerk that issues a document has done.                            *)
AtWork(c) == clerk[c].step \in {"publish", "look", "remove"}
Row(c) == clerk[c].row
Published(c) == IF clerk[c].step = "publish" THEN clerk[c].at - 1 ELSE clerk[c].at

RowsDrawn ==
  /\ \A c \in Clerks : AtWork(c) =>
       /\ Row(c) \in Docs /\ Row(c).attempt <= attempts
       /\ Drawn(Row(c)) => Row(c).no <= Row(c).attempt
       /\ Published(c) \in 0 .. Len(Kinds(Row(c).type))
       /\ clerk[c].step = "remove" => clerk[c].at >= 1
  /\ \A d \in issuedDocs : d.attempt <= attempts
  /\ \A s \in Series : numberOf[s] <= attempts

OneAttempt ==
  /\ \A b, c \in Clerks :
       AtWork(b) /\ AtWork(c) /\ b # c => Row(b).attempt # Row(c).attempt
  /\ \A c \in Clerks : \A d \in issuedDocs :
       AtWork(c) /\ d.attempt = Row(c).attempt => d = Row(c)

LockHeld == \A c \in Clerks : clerk[c].step = "publish" <=> writeLock = c

InTransaction ==
  \A c \in Clerks : clerk[c].step = "publish" =>
    /\ Drawn(Row(c)) => Row(c).no = numberOf[Row(c).series] + 1
    /\ \A d \in issuedDocs : ~SameName(Row(c), d)
    /\ Row(c).type = "credit" => Credited(Row(c).of) < CreditUnits

FilesHeld ==
  \A c \in Clerks : AtWork(c) =>
    \A j \in 1 .. Published(c) : issuedFiles[Path(Row(c), j)] = Row(c).attempt

DocsHaveFiles ==
  \A d \in issuedDocs : \A i \in DOMAIN Kinds(d.type) :
    issuedFiles[Path(d, i)] = d.attempt

RemovesNoDocument ==
  \A c \in Clerks : clerk[c].step = "remove" =>
    \A d \in issuedDocs : ~SameName(d, Row(c))

OneName == \A d, e \in issuedDocs : SameName(d, e) => d = e

OfSeries(s) == {d \in issuedDocs : d.type = s /\ Drawn(d)}

Numbering ==
  \A s \in Series :
    /\ {d.no : d \in OfSeries(s)} = 1 .. numberOf[s]
    /\ Cardinality(OfSeries(s)) = numberOf[s]

CreditsFit == \A n \in Nat : Credited(n) <= CreditUnits

(* Who has the file at a path still before it to remove, or to commit.      *)
Keeps(c, p) ==
  AtWork(c) /\ \E j \in 1 .. Published(c) :
    p = Path(Row(c), j) /\ issuedFiles[p] = Row(c).attempt

NoLitter ==
  deaths = 0 /\ ~unread =>
    \A p \in Paths :
      \/ issuedFiles[p] = 0
      \/ \E d \in issuedDocs : d.attempt = issuedFiles[p]
      \/ \E c \in Clerks : Keeps(c, p)

IssuingHolds ==
  /\ RowsDrawn /\ OneAttempt /\ LockHeld /\ InTransaction /\ FilesHeld /\ DocsHaveFiles
  /\ RemovesNoDocument /\ OneName /\ Numbering /\ CreditsFit /\ NoLitter

IssuingInv == IssuingTyped /\ JournalsTyped /\ IssuingHolds

-----------------------------------------------------------------------------
LEMMA ClerkFields ==
  ASSUME IssuingTyped, NEW c \in Clerks
  PROVE  /\ clerk[c] \in ClerkRecords /\ clerk[c].step \in ClerkSteps
         /\ clerk[c].at \in Nat /\ clerk[c].row \in Docs \union {NoRow}
         /\ clerk[c].invoice \in Nat
<1>1. clerk[c] \in ClerkRecords
  BY DEF IssuingTyped
<1> QED BY <1>1 DEF ClerkRecords

LEMMA KindsOfType ==
  ASSUME NEW s \in Series
  PROVE  /\ Len(Kinds(s)) \in {1, 2} /\ DOMAIN Kinds(s) = 1 .. Len(Kinds(s))
         /\ \A i \in DOMAIN Kinds(s) :
              i \in {1, 2} /\ Kinds(s)[i] = IF i = 1 THEN "json" ELSE "pdf"
<1>1. CASE s = "invoice"
  <2>1. Kinds(s) = <<"json", "pdf">>
    BY <1>1 DEF Kinds
  <2>2. /\ Len(Kinds(s)) = 2 /\ DOMAIN Kinds(s) = {1, 2}
        /\ Kinds(s)[1] = "json" /\ Kinds(s)[2] = "pdf"
    BY <2>1
  <2> QED BY <2>2
<1>2. CASE s # "invoice"
  <2>1. Kinds(s) = <<"json">>
    BY <1>2 DEF Kinds
  <2>2. Len(Kinds(s)) = 1 /\ DOMAIN Kinds(s) = {1} /\ Kinds(s)[1] = "json"
    BY <2>1
  <2> QED BY <2>2
<1> QED BY <1>1, <1>2

(* A path tells the name of its document and which file it is.              *)
LEMMA PathTells ==
  ASSUME NEW d \in Docs, NEW e \in Docs, NEW i \in DOMAIN Kinds(d.type)
  PROVE  /\ Path(d, i) \in Paths
         /\ \A j \in DOMAIN Kinds(e.type) :
              /\ Path(d, i) = Path(e, j) => SameName(d, e) /\ i = j
              /\ SameName(d, e) /\ i = j => Path(d, i) = Path(e, j)
<1>1. /\ d.series \in Series \union {"own"} /\ d.no \in Numbers
      /\ d.type \in Series /\ e.type \in Series
  BY DEF Docs
<1>2. Path(d, i) = <<d.series, d.no, Kinds(d.type)[i]>>
  BY DEF Path
<1>3. i \in {1, 2} /\ Kinds(d.type)[i] = IF i = 1 THEN "json" ELSE "pdf"
  BY <1>1, KindsOfType
<1>4. Path(d, i) \in Paths
  BY <1>1, <1>2, <1>3 DEF Paths
<1>5. ASSUME NEW j \in DOMAIN Kinds(e.type)
      PROVE  /\ Path(d, i) = Path(e, j) => SameName(d, e) /\ i = j
             /\ SameName(d, e) /\ i = j => Path(d, i) = Path(e, j)
  <2>1. Path(e, j) = <<e.series, e.no, Kinds(e.type)[j]>>
    BY DEF Path
  <2>2. j \in {1, 2} /\ Kinds(e.type)[j] = IF j = 1 THEN "json" ELSE "pdf"
    BY <1>1, KindsOfType
  <2>3. Path(d, i) = Path(e, j) => /\ d.series = e.series /\ d.no = e.no
                                   /\ Kinds(d.type)[i] = Kinds(e.type)[j]
    BY <1>2, <2>1
  <2>4. Kinds(d.type)[i] = Kinds(e.type)[j] => i = j
    BY <1>3, <2>2
  <2>5. SameName(d, e) /\ i = j => Path(d, i) = Path(e, j)
    BY <1>2, <1>3, <2>1, <2>2 DEF SameName
  <2> QED BY <2>3, <2>4, <2>5 DEF SameName
<1> QED BY <1>4, <1>5

(* The files a clerk has published, among those of its document.            *)
LEMMA PublishedFiles ==
  ASSUME IssuingTyped, RowsDrawn, NEW c \in Clerks, AtWork(c)
  PROVE  /\ Row(c) \in Docs /\ Row(c).type \in Series /\ Published(c) \in Nat
         /\ Row(c).attempt \in Nat \ {0}
         /\ \A j \in 1 .. Published(c) : j \in DOMAIN Kinds(Row(c).type)
<1>1. Row(c) \in Docs /\ Published(c) \in 0 .. Len(Kinds(Row(c).type))
  BY DEF RowsDrawn
<1>2. Row(c).type \in Series /\ Row(c).attempt \in Nat \ {0}
  BY <1>1 DEF Docs
<1>3. /\ Len(Kinds(Row(c).type)) \in {1, 2}
      /\ DOMAIN Kinds(Row(c).type) = 1 .. Len(Kinds(Row(c).type))
  BY <1>2, KindsOfType
<1> QED BY <1>1, <1>2, <1>3

(* No two clerks have published at the same path, and none at the path of   *)
(* a document that is not its own.                                          *)
LEMMA PathsAreApart ==
  ASSUME IssuingTyped, IssuingHolds, NEW b \in Clerks, NEW c \in Clerks, b # c,
         AtWork(b), AtWork(c), NEW i \in 1 .. Published(b), NEW j \in 1 .. Published(c)
  PROVE  Path(Row(b), i) # Path(Row(c), j)
<1>1. issuedFiles[Path(Row(b), i)] = Row(b).attempt
  BY DEF IssuingHolds, FilesHeld
<1>2. issuedFiles[Path(Row(c), j)] = Row(c).attempt
  BY DEF IssuingHolds, FilesHeld
<1>3. Row(b).attempt # Row(c).attempt
  BY DEF IssuingHolds, OneAttempt
<1> QED BY <1>1, <1>2, <1>3

(* Two attempts that have a file under the same name are not both there.    *)
LEMMA OneAtName ==
  ASSUME IssuingTyped, IssuingHolds, NEW b \in Clerks, NEW c \in Clerks, b # c,
         AtWork(b), AtWork(c), Published(b) >= 1, Published(c) >= 1
  PROVE  ~SameName(Row(b), Row(c))
<1>1. /\ Row(b) \in Docs /\ Row(c) \in Docs /\ Published(b) \in Nat /\ Published(c) \in Nat
      /\ 1 \in DOMAIN Kinds(Row(b).type) /\ 1 \in DOMAIN Kinds(Row(c).type)
  BY PublishedFiles DEF IssuingHolds
<1>2. 1 \in 1 .. Published(b) /\ 1 \in 1 .. Published(c)
  BY <1>1
<1>3. Path(Row(b), 1) # Path(Row(c), 1)
  BY <1>2, PathsAreApart
<1> QED BY <1>1, <1>3, PathTells

-----------------------------------------------------------------------------
(* Booking leaves issuing alone.                                            *)
LEMMA IssuingKept ==
  ASSUME IssuingTyped, IssuingHolds, UNCHANGED <<issueVars, writeLock>>,
         clerk' \in [Clerks -> ClerkRecords],
         \A b \in Clerks : clerk'[b] = clerk[b] \/
           (~AtWork(b) /\ clerk'[b].step \notin {"publish", "look", "remove"})
  PROVE  IssuingTyped' /\ IssuingHolds'
<1>1. UNCHANGED <<issuedDocs, numberOf, issuedFiles, attempts, deaths, unread, writeLock>>
  BY DEF issueVars
<1>2. ASSUME NEW b \in Clerks, AtWork(b)'
      PROVE  AtWork(b) /\ clerk'[b] = clerk[b]
  BY <1>2 DEF AtWork
<1>3. ASSUME NEW b \in Clerks, AtWork(b)
      PROVE  clerk'[b] = clerk[b]
  BY <1>3 DEF AtWork
<1>4. IssuingTyped'
  BY <1>1 DEF IssuingTyped
<1>5. RowsDrawn'
  <2>1. \A b \in Clerks : AtWork(b)' =>
          /\ Row(b)' \in Docs /\ Row(b)'.attempt <= attempts
          /\ Drawn(Row(b)') => Row(b)'.no <= Row(b)'.attempt
          /\ Published(b)' \in 0 .. Len(Kinds(Row(b)'.type))
          /\ clerk'[b].step = "remove" => clerk'[b].at >= 1
    BY <1>2 DEF IssuingHolds, RowsDrawn, Row, Published, Drawn
  <2> QED BY <1>1, <2>1 DEF IssuingHolds, RowsDrawn
<1>6. OneAttempt'
  BY <1>1, <1>2 DEF IssuingHolds, OneAttempt, Row
<1>7. LockHeld'
  BY <1>1 DEF IssuingHolds, LockHeld, AtWork
<1>8. InTransaction'
  <2>1. ASSUME NEW b \in Clerks, clerk'[b].step = "publish"
        PROVE  /\ Drawn(Row(b)') => Row(b)'.no = numberOf'[Row(b)'.series] + 1
               /\ \A e \in issuedDocs' : ~SameName(Row(b)', e)
               /\ Row(b)'.type = "credit" => Credited(Row(b).of)' < CreditUnits
    <3>1. clerk[b].step = "publish" /\ Row(b)' = Row(b)
      BY <1>2, <2>1 DEF AtWork, Row
    <3>2. /\ Drawn(Row(b)) => Row(b).no = numberOf[Row(b).series] + 1
          /\ \A e \in issuedDocs : ~SameName(Row(b), e)
          /\ Row(b).type = "credit" => Credited(Row(b).of) < CreditUnits
      BY <3>1 DEF IssuingHolds, InTransaction
    <3>3. Credited(Row(b).of)' = Credited(Row(b).of)
      BY <1>1, <3>1 DEF Credited
    <3> QED BY <1>1, <3>1, <3>2, <3>3
  <2> QED BY <2>1 DEF InTransaction, Drawn, SameName
<1>9. FilesHeld'
  <2>1. \A b \in Clerks : AtWork(b)' => Row(b)' = Row(b) /\ Published(b)' = Published(b) /\ AtWork(b)
    BY <1>2 DEF Row, Published
  <2> QED BY <1>1, <2>1 DEF IssuingHolds, FilesHeld, Path
<1>10. DocsHaveFiles' /\ OneName' /\ Numbering' /\ CreditsFit'
  BY <1>1 DEF IssuingHolds, DocsHaveFiles, Path, OneName, SameName, Numbering, OfSeries,
             Drawn, CreditsFit, Credited
<1>11. RemovesNoDocument'
  BY <1>1, <1>2 DEF IssuingHolds, RemovesNoDocument, SameName, Row, AtWork
<1>12. NoLitter'
  <2>1. \A c \in Clerks, p \in Paths : Keeps(c, p) => Keeps(c, p)'
    BY <1>1, <1>3 DEF Keeps, AtWork, Row, Published, Path
  <2> QED BY <1>1, <2>1 DEF IssuingHolds, NoLitter
<1> QED
  BY <1>4, <1>5, <1>6, <1>7, <1>8, <1>9, <1>10, <1>11, <1>12 DEF IssuingHolds

-----------------------------------------------------------------------------
LEMMA DoingIs ==
  ASSUME NEW s \in {"publish", "look", "remove"}, NEW d \in Docs, NEW i \in Nat
  PROVE  /\ Doing(s, d, i) \in ClerkRecords /\ Doing(s, d, i).step = s
         /\ Doing(s, d, i).row = d /\ Doing(s, d, i).at = i
BY DEF Doing, ClerkRecords, ClerkSteps

LEMMA WaitingIs == Waiting \in ClerkRecords /\ Waiting.step = "idle" /\ Waiting.row = NoRow
BY DEF Waiting, ClerkRecords, ClerkSteps

(* What one clerk does leaves the others where they are.                    *)
LEMMA OneClerkMoves ==
  ASSUME IssuingTyped, NEW c \in Clerks, NEW r \in ClerkRecords,
         clerk' = [clerk EXCEPT ![c] = r]
  PROVE  /\ clerk' \in [Clerks -> ClerkRecords] /\ clerk'[c] = r
         /\ AtWork(c)' <=> r.step \in {"publish", "look", "remove"}
         /\ Row(c)' = r.row
         /\ Published(c)' = IF r.step = "publish" THEN r.at - 1 ELSE r.at
         /\ \A b \in Clerks \ {c} :
              /\ clerk'[b] = clerk[b] /\ (AtWork(b)' <=> AtWork(b))
              /\ Row(b)' = Row(b) /\ Published(b)' = Published(b)
<1>1. clerk' \in [Clerks -> ClerkRecords] /\ clerk'[c] = r
  BY DEF IssuingTyped
<1>2. \A b \in Clerks \ {c} : clerk'[b] = clerk[b]
  BY DEF IssuingTyped
<1> QED BY <1>1, <1>2 DEF AtWork, Row, Published

(* A transaction begins.                                                    *)
LEMMA BeginKeeps ==
  ASSUME IssuingTyped, IssuingHolds, NEW c \in Clerks, NEW t \in Series,
         NEW s \in Series \union {"own"}, NEW m \in Nat, NEW n \in Nat,
         IF s = t THEN m = numberOf[t] + 1 ELSE m \in Numbers,
         t = "credit" => Credited(n) < CreditUnits, BeginDocument(c, t, s, m, n)
  PROVE  IssuingTyped' /\ IssuingHolds'
<1> DEFINE d == [type |-> t, series |-> s, no |-> m, of |-> n, attempt |-> attempts + 1]
           r == Doing("publish", d, 1)
<1>1. /\ clerk[c] = Waiting /\ writeLock = NoClerk /\ attempts < MaxAttempts
      /\ attempts' = attempts + 1 /\ writeLock' = c
      /\ clerk' = [clerk EXCEPT ![c] = r]
      /\ UNCHANGED <<issuedDocs, numberOf, issuedFiles, deaths, unread>>
      /\ \A e \in issuedDocs : ~SameName(d, e)
  BY DEF BeginDocument
<1>2. MaxAttempts \in Nat /\ NoClerk \notin Clerks
  BY IssuingAssumption DEF IssuingAssumption
<1>3. /\ attempts \in Nat /\ numberOf[t] \in Nat /\ numberOf[t] <= attempts
      /\ attempts + 1 \in 0..MaxAttempts
  BY <1>1, <1>2 DEF IssuingTyped, IssuingHolds, RowsDrawn
<1>4. /\ d \in Docs /\ d.type = t /\ d.series = s /\ d.no = m /\ d.of = n
      /\ d.attempt = attempts + 1
      /\ Drawn(d) => d.no = numberOf[d.series] + 1 /\ d.no <= d.attempt
  <2>1. m \in Numbers
    BY <1>1, <1>2, <1>3 DEF Numbers
  <2>2. /\ d.type = t /\ d.series = s /\ d.no = m /\ d.of = n /\ d.attempt = attempts + 1
    OBVIOUS
  <2>3. d \in Docs
    BY <1>3, <2>1 DEF Docs
  <2>4. Drawn(d) => m = numberOf[t] + 1 /\ s = t
    BY <2>2 DEF Drawn
  <2> HIDE DEF d
  <2> QED BY <1>3, <2>2, <2>3, <2>4
<1>5. r \in ClerkRecords /\ r.step = "publish" /\ r.row = d /\ r.at = 1
  BY <1>4, DoingIs
<1> HIDE DEF d, r
<1>6. /\ clerk' \in [Clerks -> ClerkRecords] /\ clerk'[c] = r
      /\ AtWork(c)' /\ Row(c)' = d /\ Published(c)' = 0
  <2>1. /\ clerk' \in [Clerks -> ClerkRecords] /\ clerk'[c] = r
        /\ AtWork(c)' /\ Row(c)' = r.row
        /\ Published(c)' = IF r.step = "publish" THEN r.at - 1 ELSE r.at
    BY <1>1, <1>5, OneClerkMoves
  <2> QED BY <1>5, <2>1
<1>7. \A b \in Clerks \ {c} :
              /\ clerk'[b] = clerk[b] /\ (AtWork(b)' <=> AtWork(b))
              /\ Row(b)' = Row(b) /\ Published(b)' = Published(b)
  BY <1>1, <1>5, OneClerkMoves
<1>8. ~AtWork(c)
  BY <1>1, WaitingIs DEF AtWork
<1>9. \A b \in Clerks : AtWork(b) => b \in Clerks \ {c}
  BY <1>8
<1>10. IssuingTyped'
  BY <1>1, <1>3, <1>6 DEF IssuingTyped
<1>11. RowsDrawn'
  <2>1. \A b \in Clerks : AtWork(b)' =>
          /\ Row(b)' \in Docs /\ (Drawn(Row(b)') => Row(b)'.no <= Row(b)'.attempt)
          /\ Row(b)'.attempt <= attempts'
          /\ Published(b)' \in 0 .. Len(Kinds(Row(b)'.type))
          /\ clerk'[b].step = "remove" => clerk'[b].at >= 1
    <3>1. Len(Kinds(d.type)) \in {1, 2}
      BY <1>4, KindsOfType DEF Docs
    <3>2. 0 \in 0 .. Len(Kinds(d.type))
      BY <3>1
    <3>3. /\ d.attempt <= attempts' /\ clerk'[c].step = "publish"
      BY <1>1, <1>3, <1>4, <1>5, <1>6
    <3>4. ASSUME NEW b \in Clerks \ {c}, AtWork(b)
          PROVE  /\ Row(b) \in Docs /\ (Drawn(Row(b)) => Row(b).no <= Row(b).attempt)
                 /\ Row(b).attempt <= attempts'
                 /\ Published(b) \in 0 .. Len(Kinds(Row(b).type))
                 /\ clerk[b].step = "remove" => clerk[b].at >= 1
      <4>1. /\ Row(b) \in Docs /\ (Drawn(Row(b)) => Row(b).no <= Row(b).attempt)
            /\ Row(b).attempt <= attempts
            /\ Published(b) \in 0 .. Len(Kinds(Row(b).type))
            /\ clerk[b].step = "remove" => clerk[b].at >= 1
        BY <3>4 DEF IssuingHolds, RowsDrawn
      <4>2. Row(b).attempt \in Nat
        BY <4>1 DEF Docs
      <4> QED BY <4>1, <4>2, <1>1, <1>3
    <3> QED BY <1>4, <1>6, <1>7, <3>2, <3>3, <3>4
  <2>2. \A e \in issuedDocs' : e.attempt <= attempts'
    <3>1. ASSUME NEW e \in issuedDocs
          PROVE  e.attempt <= attempts'
      <4>1. e.attempt <= attempts /\ e.attempt \in Nat
        BY DEF IssuingHolds, RowsDrawn, IssuingTyped, Docs
      <4> QED BY <4>1, <1>1, <1>3
    <3> QED BY <3>1, <1>1
  <2>3. \A u \in Series : numberOf'[u] <= attempts'
    <3>1. \A u \in Series : numberOf[u] <= attempts /\ numberOf[u] \in Nat
      BY DEF IssuingHolds, RowsDrawn, IssuingTyped
    <3> QED BY <3>1, <1>1, <1>3
  <2> QED BY <2>1, <2>2, <2>3 DEF RowsDrawn
<1>12. OneAttempt'
  <2>1. ASSUME NEW b \in Clerks, AtWork(b)
        PROVE  Row(b).attempt # d.attempt
    <3>1. Row(b).attempt <= attempts /\ Row(b) \in Docs
      BY <2>1 DEF IssuingHolds, RowsDrawn
    <3>2. Row(b).attempt \in Nat
      BY <3>1 DEF Docs
    <3> QED BY <3>1, <3>2, <1>3, <1>4
  <2>2. ASSUME NEW e \in issuedDocs
        PROVE  e.attempt # d.attempt
    <3>1. e.attempt <= attempts /\ e.attempt \in Nat
      BY DEF IssuingHolds, RowsDrawn, IssuingTyped, Docs
    <3> QED BY <3>1, <1>3, <1>4
  <2>3. \A b, e \in Clerks : AtWork(b)' /\ AtWork(e)' /\ b # e => Row(b)'.attempt # Row(e)'.attempt
    BY <1>6, <1>7, <2>1 DEF IssuingHolds, OneAttempt
  <2>4. \A b \in Clerks : \A e \in issuedDocs :
          AtWork(b)' /\ e.attempt = Row(b)'.attempt => e = Row(b)'
    BY <1>6, <1>7, <2>2 DEF IssuingHolds, OneAttempt
  <2> QED BY <2>3, <2>4, <1>1 DEF OneAttempt
<1>13. LockHeld'
  BY <1>1, <1>2, <1>5, <1>6, <1>7 DEF IssuingHolds, LockHeld
<1>14. InTransaction'
  <2>1. \A b \in Clerks : clerk'[b].step = "publish" => b = c
    BY <1>1, <1>13 DEF LockHeld
  <2>2. /\ Drawn(Row(c)') => Row(c)'.no = numberOf'[Row(c)'.series] + 1
        /\ \A e \in issuedDocs' : ~SameName(Row(c)', e)
        /\ Row(c)'.type = "credit" => Credited(Row(c).of)' < CreditUnits
    <3>1. Credited(n)' = Credited(n)
      BY <1>1 DEF Credited
    <3>2. Credited(Row(c).of)' = Credited(n)'
      BY <1>4, <1>6 DEF Credited
    <3> QED BY <1>1, <1>4, <1>6, <3>1, <3>2
  <2> QED BY <2>1, <2>2 DEF InTransaction, Drawn, SameName
<1>15. FilesHeld'
  <2>1. \A b \in Clerks : AtWork(b)' => \A j \in 1 .. Published(b)' :
          issuedFiles[Path(Row(b)', j)] = Row(b)'.attempt
    BY <1>6, <1>7 DEF IssuingHolds, FilesHeld
  <2> QED BY <1>1, <2>1 DEF FilesHeld, Path
<1>16. DocsHaveFiles' /\ OneName' /\ Numbering' /\ CreditsFit'
  BY <1>1 DEF IssuingHolds, DocsHaveFiles, Path, OneName, SameName, Numbering, OfSeries,
             Drawn, CreditsFit, Credited
<1>17. RemovesNoDocument'
  BY <1>1, <1>5, <1>6, <1>7 DEF IssuingHolds, RemovesNoDocument, SameName
<1>18. NoLitter'
  <2>1. \A b \in Clerks, p \in Paths : Keeps(b, p) => Keeps(b, p)'
    BY <1>1, <1>7, <1>9 DEF Keeps, Path
  <2> QED BY <1>1, <2>1 DEF IssuingHolds, NoLitter
<1> QED
  BY <1>10, <1>11, <1>12, <1>13, <1>14, <1>15, <1>16, <1>17, <1>18 DEF IssuingHolds

(* A file is published, at a free name.                                     *)
LEMMA PublishIssueKeeps ==
  ASSUME IssuingTyped, IssuingHolds, NEW c \in Clerks, PublishIssue(c),
         issuedFiles[Path(Row(c), clerk[c].at)] = 0
  PROVE  IssuingTyped' /\ IssuingHolds'
<1>0. PICK d : d = clerk[c].row
  OBVIOUS
<1>00. PICK i : i = clerk[c].at
  OBVIOUS
<1> DEFINE r == [clerk[c] EXCEPT !.at = i + 1]
<1>1. /\ clerk[c].step = "publish" /\ i \in DOMAIN Kinds(d.type)
      /\ issuedFiles' = [issuedFiles EXCEPT ![Path(d, i)] = d.attempt]
      /\ clerk' = [clerk EXCEPT ![c].at = i + 1]
      /\ UNCHANGED <<issuedDocs, numberOf, writeLock, attempts, deaths, unread>>
      /\ issuedFiles[Path(d, i)] = 0
  BY <1>0, <1>00 DEF PublishIssue, Row
<1>2. /\ clerk[c] \in ClerkRecords /\ i \in Nat /\ AtWork(c) /\ Row(c) = d
      /\ clerk \in [Clerks -> ClerkRecords]
  BY <1>0, <1>00, <1>1, ClerkFields DEF AtWork, Row, IssuingTyped
<1>3. Published(c) = i - 1
  BY <1>1, <1>00 DEF Published
<1>4. /\ d \in Docs /\ (Drawn(d) => d.no <= d.attempt) /\ d.attempt <= attempts
      /\ d.type \in Series /\ d.attempt \in Nat \ {0}
  BY <1>2 DEF IssuingHolds, RowsDrawn, Docs
<1>5. /\ r \in ClerkRecords /\ r.step = "publish" /\ r.row = d /\ r.at = i + 1
      /\ clerk' = [clerk EXCEPT ![c] = r]
  <2>1. i + 1 \in Nat
    BY <1>2
  <2> QED BY <1>0, <1>1, <1>2, <2>1 DEF ClerkRecords
<1> HIDE DEF r
<1>6. /\ clerk' \in [Clerks -> ClerkRecords] /\ clerk'[c] = r
      /\ AtWork(c)' /\ Row(c)' = d /\ Published(c)' = i
  <2>1. /\ clerk' \in [Clerks -> ClerkRecords] /\ clerk'[c] = r
        /\ AtWork(c)' /\ Row(c)' = r.row
        /\ Published(c)' = IF r.step = "publish" THEN r.at - 1 ELSE r.at
    BY <1>5, OneClerkMoves
  <2> QED BY <1>2, <1>5, <2>1
<1>7. \A b \in Clerks \ {c} :
              /\ clerk'[b] = clerk[b] /\ (AtWork(b)' <=> AtWork(b))
              /\ Row(b)' = Row(b) /\ Published(b)' = Published(b)
  BY <1>5, OneClerkMoves
<1>8. /\ Path(d, i) \in Paths /\ d.attempt \in 0..MaxAttempts
      /\ DOMAIN Kinds(d.type) = 1 .. Len(Kinds(d.type))
      /\ Len(Kinds(d.type)) \in Nat
  <2>1. MaxAttempts \in Nat /\ attempts \in 0..MaxAttempts
    BY IssuingAssumption DEF IssuingAssumption, IssuingTyped
  <2>2. Path(d, i) \in Paths
    BY <1>1, <1>4, PathTells
  <2>3. Len(Kinds(d.type)) \in {1, 2} /\ DOMAIN Kinds(d.type) = 1 .. Len(Kinds(d.type))
    BY <1>4, KindsOfType
  <2> QED BY <1>4, <2>1, <2>2, <2>3
<1>9. /\ issuedFiles' \in [Paths -> 0..MaxAttempts]
      /\ issuedFiles'[Path(d, i)] = d.attempt
      /\ \A p \in Paths : p # Path(d, i) => issuedFiles'[p] = issuedFiles[p]
  BY <1>1, <1>8 DEF IssuingTyped
<1>10. IssuingTyped'
  BY <1>1, <1>6, <1>9 DEF IssuingTyped
<1>11. RowsDrawn'
  <2>1. i \in 0 .. Len(Kinds(d.type))
    BY <1>1, <1>2, <1>8
  <2>2. \A b \in Clerks : AtWork(b)' =>
          /\ Row(b)' \in Docs /\ (Drawn(Row(b)') => Row(b)'.no <= Row(b)'.attempt)
          /\ Row(b)'.attempt <= attempts
          /\ Published(b)' \in 0 .. Len(Kinds(Row(b)'.type))
          /\ clerk'[b].step = "remove" => clerk'[b].at >= 1
    BY <1>4, <1>5, <1>6, <1>7, <2>1 DEF IssuingHolds, RowsDrawn
  <2> QED BY <1>1, <2>2 DEF IssuingHolds, RowsDrawn
<1>12. OneAttempt'
  BY <1>1, <1>2, <1>6, <1>7 DEF IssuingHolds, OneAttempt
<1>13. LockHeld'
  BY <1>1, <1>5, <1>6, <1>7 DEF IssuingHolds, LockHeld
<1>14. InTransaction'
  <2>1. ASSUME NEW b \in Clerks, clerk'[b].step = "publish"
        PROVE  clerk[b].step = "publish" /\ Row(b)' = Row(b)
    BY <1>1, <1>2, <1>6, <1>7, <2>1
  <2>2. ASSUME NEW b \in Clerks, clerk[b].step = "publish", Row(b)' = Row(b)
        PROVE  /\ Drawn(Row(b)') => Row(b)'.no = numberOf'[Row(b)'.series] + 1
               /\ \A e \in issuedDocs' : ~SameName(Row(b)', e)
               /\ Row(b)'.type = "credit" => Credited(Row(b).of)' < CreditUnits
    <3>1. /\ Drawn(Row(b)) => Row(b).no = numberOf[Row(b).series] + 1
          /\ \A e \in issuedDocs : ~SameName(Row(b), e)
          /\ Row(b).type = "credit" => Credited(Row(b).of) < CreditUnits
      BY <2>2 DEF IssuingHolds, InTransaction
    <3>2. Credited(Row(b).of)' = Credited(Row(b).of)
      BY <1>1, <2>2 DEF Credited
    <3> QED BY <1>1, <2>2, <3>1, <3>2
  <2> QED BY <2>1, <2>2 DEF InTransaction, Drawn, SameName
<1>15. FilesHeld'
  <2>1. ASSUME NEW b \in Clerks, AtWork(b), NEW j \in 1 .. Published(b)
        PROVE  issuedFiles'[Path(Row(b), j)] = Row(b).attempt
    <3>1. issuedFiles[Path(Row(b), j)] = Row(b).attempt
      BY <2>1 DEF IssuingHolds, FilesHeld
    <3>2. /\ Row(b) \in Docs /\ j \in DOMAIN Kinds(Row(b).type) /\ Row(b).attempt # 0
      BY <2>1, PublishedFiles DEF IssuingHolds
    <3>3. Path(Row(b), j) \in Paths
      BY <3>2, PathTells
    <3> QED BY <1>1, <1>9, <3>1, <3>2, <3>3
  <2>2. ASSUME NEW j \in 1 .. i
        PROVE  issuedFiles'[Path(d, j)] = d.attempt
    <3>1. j = i \/ j \in 1 .. Published(c)
      BY <1>2, <1>3
    <3> QED BY <1>2, <1>9, <2>1, <3>1
  <2>3. \A b \in Clerks : AtWork(b)' => \A j \in 1 .. Published(b)' :
          issuedFiles'[Path(Row(b)', j)] = Row(b)'.attempt
    BY <1>6, <1>7, <2>1, <2>2
  <2> QED BY <2>3 DEF FilesHeld, Path
<1>16. DocsHaveFiles'
  <2>1. ASSUME NEW e \in issuedDocs, NEW j \in DOMAIN Kinds(e.type)
        PROVE  issuedFiles'[Path(e, j)] = e.attempt
    <3>1. issuedFiles[Path(e, j)] = e.attempt
      BY DEF IssuingHolds, DocsHaveFiles
    <3>2. e \in Docs /\ e.attempt # 0
      BY DEF IssuingTyped, Docs
    <3>3. Path(e, j) \in Paths
      BY <3>2, PathTells
    <3> QED BY <1>1, <1>9, <3>1, <3>2, <3>3
  <2> QED BY <1>1, <2>1 DEF DocsHaveFiles, Path
<1>17. OneName' /\ Numbering' /\ CreditsFit'
  BY <1>1 DEF IssuingHolds, OneName, SameName, Numbering, OfSeries, Drawn, CreditsFit, Credited
<1>18. RemovesNoDocument'
  BY <1>1, <1>5, <1>6, <1>7 DEF IssuingHolds, RemovesNoDocument, SameName
<1>19. NoLitter'
  <2>1. ASSUME NEW p \in Paths, p # Path(d, i), NEW b \in Clerks, Keeps(b, p)
        PROVE  Keeps(b, p)'
    <3>1. issuedFiles'[p] = issuedFiles[p]
      BY <1>9, <2>1
    <3>2. PICK j \in 1 .. Published(b) : p = Path(Row(b), j) /\ issuedFiles[p] = Row(b).attempt
      BY <2>1 DEF Keeps
    <3>3. AtWork(b)' /\ Row(b)' = Row(b) /\ j \in 1 .. Published(b)'
      <4>1. CASE b = c
        BY <1>2, <1>3, <1>6, <4>1
      <4>2. CASE b # c
        BY <1>7, <2>1, <4>2 DEF Keeps
      <4> QED BY <4>1, <4>2
    <3> QED BY <3>1, <3>2, <3>3 DEF Keeps, Path
  <2>2. Keeps(c, Path(d, i))'
    <3>1. i \in 1 .. i
      BY <1>1, <1>2, <1>8
    <3> QED BY <1>6, <1>9, <3>1 DEF Keeps, Path
  <2>3. ASSUME deaths = 0, ~unread, NEW p \in Paths
        PROVE  \/ issuedFiles'[p] = 0
               \/ \E e \in issuedDocs : e.attempt = issuedFiles'[p]
               \/ \E b \in Clerks : Keeps(b, p)'
    <3>1. CASE p = Path(d, i)
      BY <2>2, <3>1 DEF Keeps, Path
    <3>2. CASE p # Path(d, i)
      BY <1>9, <2>1, <2>3, <3>2 DEF IssuingHolds, NoLitter
    <3> QED BY <3>1, <3>2
  <2> QED BY <1>1, <2>3 DEF NoLitter
<1> QED
  BY <1>10, <1>11, <1>12, <1>13, <1>14, <1>15, <1>16, <1>17, <1>18, <1>19 DEF IssuingHolds

(* A clerk gives up, or steps back: nothing but its own state changes.      *)
LEMMA RetreatKeeps ==
  ASSUME IssuingTyped, IssuingHolds, NEW c \in Clerks, NEW r \in ClerkRecords,
         clerk' = [clerk EXCEPT ![c] = r],
         r.step \in {"look", "remove", "idle"},
         r.step # "idle" => AtWork(c) /\ r.row = Row(c) /\ r.at <= Published(c),
         r.step = "remove" =>
           /\ r.at >= 1
           /\ \A d \in issuedDocs : ~SameName(d, Row(c)),
         UNCHANGED <<issuedDocs, numberOf, issuedFiles, attempts>>,
         writeLock' = IF writeLock = c THEN NoClerk ELSE writeLock,
         deaths' \in Nat, NoLitter'
  PROVE  IssuingTyped' /\ IssuingHolds'
<1>1. /\ clerk' \in [Clerks -> ClerkRecords] /\ clerk'[c] = r
      /\ AtWork(c)' <=> r.step # "idle"
      /\ Row(c)' = r.row /\ Published(c)' = r.at
  BY OneClerkMoves
<1>2. \A b \in Clerks \ {c} :
              /\ clerk'[b] = clerk[b] /\ (AtWork(b)' <=> AtWork(b))
              /\ Row(b)' = Row(b) /\ Published(b)' = Published(b)
  BY OneClerkMoves
<1>3. NoClerk \notin Clerks /\ r.at \in Nat
  BY IssuingAssumption DEF IssuingAssumption, ClerkRecords
<1>4. ASSUME NEW b \in Clerks, AtWork(b)'
      PROVE  AtWork(b) /\ Row(b)' = Row(b) /\ Published(b)' \in 0 .. Published(b)
  <2>0. AtWork(b) => Published(b) \in Nat
    BY PublishedFiles DEF IssuingHolds
  <2>1. CASE b = c
    <3>1. AtWork(c) /\ r.row = Row(c) /\ r.at <= Published(c)
      BY <1>1, <1>4, <2>1
    <3> QED BY <1>1, <1>3, <2>0, <2>1, <3>1
  <2>2. CASE b # c
    <3>1. AtWork(b) /\ Row(b)' = Row(b) /\ Published(b)' = Published(b)
      BY <1>2, <1>4, <2>2
    <3> QED BY <2>0, <3>1
  <2> QED BY <2>1, <2>2
<1>5. IssuingTyped'
  BY <1>1 DEF IssuingTyped
<1>6. RowsDrawn'
  <2>1. ASSUME NEW b \in Clerks, AtWork(b)'
        PROVE  /\ Row(b)' \in Docs /\ (Drawn(Row(b)') => Row(b)'.no <= Row(b)'.attempt)
               /\ Row(b)'.attempt <= attempts
               /\ Published(b)' \in 0 .. Len(Kinds(Row(b)'.type))
               /\ clerk'[b].step = "remove" => clerk'[b].at >= 1
    <3>1. AtWork(b) /\ Row(b)' = Row(b) /\ Published(b)' \in 0 .. Published(b)
      BY <1>4, <2>1
    <3>2. /\ Row(b) \in Docs /\ (Drawn(Row(b)) => Row(b).no <= Row(b).attempt)
          /\ Row(b).attempt <= attempts
          /\ Published(b) \in 0 .. Len(Kinds(Row(b).type))
          /\ clerk[b].step = "remove" => clerk[b].at >= 1
      BY <3>1 DEF IssuingHolds, RowsDrawn
    <3>3. Len(Kinds(Row(b).type)) \in {1, 2}
      BY <3>2, KindsOfType DEF Docs
    <3>4. Published(b)' \in 0 .. Len(Kinds(Row(b).type))
      BY <3>1, <3>2, <3>3
    <3>5. clerk'[b].step = "remove" => clerk'[b].at >= 1
      BY <1>1, <1>2, <3>2
    <3> QED BY <3>1, <3>2, <3>4, <3>5
  <2> QED BY <2>1 DEF IssuingHolds, RowsDrawn
<1>7. OneAttempt'
  BY <1>4 DEF IssuingHolds, OneAttempt
<1>8. LockHeld'
  <2>1. ASSUME NEW b \in Clerks
        PROVE  clerk'[b].step = "publish" <=> writeLock' = b
    <3>1. clerk[b].step = "publish" <=> writeLock = b
      BY DEF IssuingHolds, LockHeld
    <3> QED BY <1>1, <1>2, <1>3, <3>1
  <2> QED BY <2>1 DEF LockHeld
<1>9. InTransaction'
  <2>1. ASSUME NEW b \in Clerks, clerk'[b].step = "publish"
        PROVE  clerk[b].step = "publish" /\ Row(b)' = Row(b)
    BY <1>1, <1>2, <2>1
  <2>2. ASSUME NEW b \in Clerks, clerk[b].step = "publish", Row(b)' = Row(b)
        PROVE  /\ Drawn(Row(b)') => Row(b)'.no = numberOf'[Row(b)'.series] + 1
               /\ \A e \in issuedDocs' : ~SameName(Row(b)', e)
               /\ Row(b)'.type = "credit" => Credited(Row(b).of)' < CreditUnits
    <3>1. /\ Drawn(Row(b)) => Row(b).no = numberOf[Row(b).series] + 1
          /\ \A e \in issuedDocs : ~SameName(Row(b), e)
          /\ Row(b).type = "credit" => Credited(Row(b).of) < CreditUnits
      BY <2>2 DEF IssuingHolds, InTransaction
    <3>2. Credited(Row(b).of)' = Credited(Row(b).of)
      BY <2>2 DEF Credited
    <3> QED BY <2>2, <3>1, <3>2
  <2> QED BY <2>1, <2>2 DEF InTransaction, Drawn, SameName
<1>10. FilesHeld'
  <2>1. ASSUME NEW b \in Clerks, AtWork(b)', NEW j \in 1 .. Published(b)'
        PROVE  issuedFiles[Path(Row(b)', j)] = Row(b)'.attempt
    <3>1. AtWork(b) /\ Row(b)' = Row(b) /\ Published(b)' \in 0 .. Published(b)
      BY <1>4, <2>1
    <3>2. Published(b) \in Nat
      BY <3>1, PublishedFiles DEF IssuingHolds
    <3>3. j \in 1 .. Published(b)
      BY <3>1, <3>2
    <3> QED BY <3>1, <3>3 DEF IssuingHolds, FilesHeld
  <2> QED BY <2>1 DEF FilesHeld, Path
<1>11. DocsHaveFiles' /\ OneName' /\ Numbering' /\ CreditsFit'
  BY DEF IssuingHolds, DocsHaveFiles, Path, OneName, SameName, Numbering, OfSeries, Drawn,
         CreditsFit, Credited
<1>12. RemovesNoDocument'
  <2>1. ASSUME NEW b \in Clerks, clerk'[b].step = "remove", NEW d \in issuedDocs
        PROVE  ~SameName(d, Row(b)')
    BY <1>1, <1>2, <2>1 DEF IssuingHolds, RemovesNoDocument, SameName
  <2> QED BY <2>1 DEF RemovesNoDocument, SameName
<1> QED
  BY <1>5, <1>6, <1>7, <1>8, <1>9, <1>10, <1>11, <1>12 DEF IssuingHolds

(* What a clerk holds it holds still, when its row and its files do.        *)
LEMMA LitterKept ==
  ASSUME IssuingHolds, NEW c \in Clerks, UNCHANGED <<issuedDocs, issuedFiles>>,
         deaths' = 0 /\ ~unread' => deaths = 0 /\ ~unread,
         \A b \in Clerks \ {c} :
              /\ (AtWork(b)' <=> AtWork(b))
              /\ Row(b)' = Row(b) /\ Published(b)' = Published(b),
         deaths' = 0 /\ ~unread' => \A p \in Paths : Keeps(c, p) =>
           Keeps(c, p)' \/ \E d \in issuedDocs : d.attempt = issuedFiles[p]
  PROVE  NoLitter'
<1>1. ASSUME NEW b \in Clerks \ {c}, NEW p \in Paths, Keeps(b, p)
      PROVE  Keeps(b, p)'
  BY <1>1 DEF Keeps, Path
<1> QED BY <1>1 DEF IssuingHolds, NoLitter

LEMMA PublishFails ==
  ASSUME IssuingTyped, IssuingHolds, NEW c \in Clerks, PublishIssue(c),
         issuedFiles[Path(Row(c), clerk[c].at)] # 0
  PROVE  IssuingTyped' /\ IssuingHolds'
<1>0. PICK d : d = clerk[c].row
  OBVIOUS
<1>00. PICK i : i = clerk[c].at
  OBVIOUS
<1>000. PICK r : r = Doing("look", d, i - 1)
  OBVIOUS
<1>1. /\ clerk[c].step = "publish" /\ i \in DOMAIN Kinds(d.type)
      /\ clerk' = [clerk EXCEPT ![c] = r] /\ writeLock' = NoClerk
      /\ UNCHANGED <<issuedDocs, issuedFiles, numberOf, attempts, deaths, unread>>
  BY <1>0, <1>00, <1>000 DEF PublishIssue, Row
<1>2. AtWork(c) /\ Row(c) = d /\ Published(c) = i - 1 /\ d \in Docs
  BY <1>0, <1>00, <1>1 DEF AtWork, Row, Published, IssuingHolds, RowsDrawn
<1>3. i - 1 \in Nat
  <2>1. Published(c) \in Nat
    BY <1>2, PublishedFiles DEF IssuingHolds
  <2> QED BY <1>2, <2>1
<1>4. r \in ClerkRecords /\ r.step = "look" /\ r.row = d /\ r.at = i - 1
  BY <1>000, <1>2, <1>3, DoingIs
<1>5. writeLock = c
  BY <1>1 DEF IssuingHolds, LockHeld
<1>6. AtWork(c)' /\ Row(c)' = d /\ Published(c)' = i - 1
  BY <1>1, <1>4, OneClerkMoves
<1>7. NoLitter'
  <2>1. \A p \in Paths : Keeps(c, p) => Keeps(c, p)'
    BY <1>1, <1>2, <1>6 DEF Keeps, Path
  <2>2. \A b \in Clerks \ {c} :
              /\ (AtWork(b)' <=> AtWork(b))
              /\ Row(b)' = Row(b) /\ Published(b)' = Published(b)
    BY <1>1, <1>4, OneClerkMoves
  <2> QED BY <1>1, <2>1, <2>2, LitterKept
<1>8. deaths' \in Nat /\ r.at <= Published(c) /\ r.step # "remove"
  BY <1>1, <1>2, <1>3, <1>4 DEF IssuingTyped
<1> QED BY <1>1, <1>2, <1>4, <1>5, <1>7, <1>8, RetreatKeeps

LEMMA LookKeeps ==
  ASSUME IssuingTyped, IssuingHolds, NEW c \in Clerks, Look(c)
  PROVE  IssuingTyped' /\ IssuingHolds'
<1>0. PICK d : d = clerk[c].row
  OBVIOUS
<1>00. PICK i : i = clerk[c].at
  OBVIOUS
<1> DEFINE named == \E e \in issuedDocs : SameName(d, e)
<1>1. PICK readable \in BOOLEAN :
         /\ i = 0 => readable
         /\ unread' = (unread \/ ~readable)
         /\ clerk' = [clerk EXCEPT ![c] =
                         IF i = 0 THEN Waiting
                         ELSE IF readable /\ ~named THEN Doing("remove", d, i)
                         ELSE Doing("look", d, i - 1)]
  BY <1>0, <1>00 DEF Look
<1>2. /\ clerk[c].step = "look"
      /\ UNCHANGED <<issuedDocs, issuedFiles, numberOf, writeLock, attempts, deaths>>
  BY DEF Look
<1>3. /\ AtWork(c) /\ Row(c) = d /\ Published(c) = i /\ d \in Docs /\ i \in Nat
      /\ i \in 0 .. Len(Kinds(d.type))
  BY <1>0, <1>00, <1>2, ClerkFields DEF AtWork, Row, Published, IssuingHolds, RowsDrawn
<1>4. writeLock # c
  BY <1>2 DEF IssuingHolds, LockHeld
<1>5. deaths' \in Nat
  BY <1>2 DEF IssuingTyped
<1>6. PICK r : r = IF i = 0 THEN Waiting
                   ELSE IF readable /\ ~named THEN Doing("remove", d, i)
                   ELSE Doing("look", d, i - 1)
  OBVIOUS
<1>7. clerk' = [clerk EXCEPT ![c] = r]
  BY <1>1, <1>6
<1>8. CASE i = 0
  <2>1. r \in ClerkRecords /\ r.step = "idle" /\ r.row = NoRow
    BY <1>6, <1>8, WaitingIs
  <2>2. \A b \in Clerks \ {c} :
              /\ (AtWork(b)' <=> AtWork(b))
              /\ Row(b)' = Row(b) /\ Published(b)' = Published(b)
    BY <1>7, <2>1, OneClerkMoves
  <2>3. \A p \in Paths : ~Keeps(c, p)
    BY <1>3, <1>8 DEF Keeps
  <2>4. NoLitter'
    BY <1>1, <1>2, <2>2, <2>3, LitterKept
  <2> QED BY <1>2, <1>4, <1>5, <1>7, <2>1, <2>4, RetreatKeeps
<1>9. CASE i # 0 /\ readable /\ ~named
  <2>1. r \in ClerkRecords /\ r.step = "remove" /\ r.row = d /\ r.at = i
    BY <1>3, <1>6, <1>9, DoingIs
  <2>2. \A b \in Clerks \ {c} :
              /\ (AtWork(b)' <=> AtWork(b))
              /\ Row(b)' = Row(b) /\ Published(b)' = Published(b)
    BY <1>7, <2>1, OneClerkMoves
  <2>3. AtWork(c)' /\ Row(c)' = d /\ Published(c)' = i
    BY <1>7, <2>1, OneClerkMoves
  <2>4. \A p \in Paths : Keeps(c, p) => Keeps(c, p)'
    BY <1>2, <1>3, <2>3 DEF Keeps, Path
  <2>5. NoLitter'
    BY <1>1, <1>2, <2>2, <2>4, LitterKept
  <2>6. r.at >= 1 /\ \A e \in issuedDocs : ~SameName(e, Row(c))
    BY <1>3, <1>9, <2>1 DEF SameName
  <2>7. r.at <= Published(c)
    BY <1>3, <2>1
  <2> QED BY <1>2, <1>3, <1>4, <1>5, <1>7, <2>1, <2>5, <2>6, <2>7, RetreatKeeps
<1>10. CASE i # 0 /\ ~(readable /\ ~named)
  <2>0. i - 1 \in Nat /\ i \in 1 .. i
    BY <1>3, <1>10
  <2>1. r \in ClerkRecords /\ r.step = "look" /\ r.row = d /\ r.at = i - 1
    BY <1>3, <1>6, <1>10, <2>0, DoingIs
  <2>2. \A b \in Clerks \ {c} :
              /\ (AtWork(b)' <=> AtWork(b))
              /\ Row(b)' = Row(b) /\ Published(b)' = Published(b)
    BY <1>7, <2>1, OneClerkMoves
  <2>3. AtWork(c)' /\ Row(c)' = d /\ Published(c)' = i - 1
    BY <1>7, <2>1, OneClerkMoves
  <2>4. ASSUME ~unread', NEW p \in Paths, Keeps(c, p)
        PROVE  Keeps(c, p)' \/ \E e \in issuedDocs : e.attempt = issuedFiles[p]
    <3>1. PICK j \in 1 .. i : p = Path(d, j) /\ issuedFiles[p] = d.attempt
      BY <1>3, <2>4 DEF Keeps
    <3>2. CASE j \in 1 .. (i - 1)
      BY <1>2, <2>3, <3>1, <3>2 DEF Keeps, Path
    <3>3. CASE j = i
      <4>1. PICK e \in issuedDocs : SameName(d, e)
        BY <1>1, <1>10, <2>4
      <4>2. /\ 1 \in DOMAIN Kinds(e.type) /\ 1 \in DOMAIN Kinds(d.type) /\ e \in Docs
            /\ 1 \in 1 .. i
        <5>1. d.type \in Series /\ e.type \in Series /\ e \in Docs
          BY <1>3 DEF Docs, IssuingTyped
        <5>2. /\ DOMAIN Kinds(d.type) = 1 .. Len(Kinds(d.type))
              /\ DOMAIN Kinds(e.type) = 1 .. Len(Kinds(e.type))
              /\ Len(Kinds(d.type)) \in {1, 2} /\ Len(Kinds(e.type)) \in {1, 2}
          BY <5>1, KindsOfType
        <5>3. 1 \in 1 .. i
          BY <1>3, <1>10
        <5>4. \A k \in {1, 2} : 1 \in 1 .. k
          OBVIOUS
        <5> QED BY <5>1, <5>2, <5>3, <5>4
      <4>3. Path(d, 1) = Path(e, 1)
        BY <1>3, <4>1, <4>2, PathTells
      <4>4. issuedFiles[Path(e, 1)] = e.attempt /\ issuedFiles[Path(d, 1)] = d.attempt
        BY <1>3, <4>2 DEF IssuingHolds, DocsHaveFiles, FilesHeld
      <4>5. e.attempt = issuedFiles[p]
        BY <3>1, <4>3, <4>4
      <4> QED BY <4>5
    <3> QED BY <1>3, <3>1, <3>2, <3>3
  <2>5. NoLitter'
    BY <1>1, <1>2, <2>2, <2>4, LitterKept
  <2>6. r.at <= Published(c)
    BY <1>3, <2>1
  <2> QED BY <1>2, <1>3, <1>4, <1>5, <1>7, <2>1, <2>5, <2>6, RetreatKeeps
<1> QED BY <1>8, <1>9, <1>10

LEMMA DieKeeps ==
  ASSUME IssuingTyped, IssuingHolds, NEW c \in Clerks, Die(c)
  PROVE  IssuingTyped' /\ IssuingHolds'
<1>1. /\ clerk' = [clerk EXCEPT ![c] = Waiting] /\ deaths' = deaths + 1
      /\ writeLock' = IF writeLock = c THEN NoClerk ELSE writeLock
      /\ UNCHANGED <<issuedDocs, numberOf, issuedFiles, attempts, unread>>
  BY DEF Die
<1>2. deaths' \in Nat /\ deaths' # 0
  BY <1>1 DEF IssuingTyped
<1>3. NoLitter'
  BY <1>2 DEF NoLitter
<1> QED BY <1>1, <1>2, <1>3, WaitingIs, RetreatKeeps

(* A row is committed.                                                      *)
LEMMA CommitKeeps ==
  ASSUME IssuingTyped, IssuingHolds, NEW c \in Clerks, Commit(c)
  PROVE  IssuingTyped' /\ IssuingHolds'
<1>0. PICK d : d = clerk[c].row
  OBVIOUS
<1>1. /\ clerk[c].step = "publish" /\ clerk[c].at \notin DOMAIN Kinds(d.type)
      /\ writeLock' = NoClerk /\ UNCHANGED <<issuedFiles, attempts, deaths, unread>>
  BY <1>0 DEF Commit
<1>2. PICK committed \in BOOLEAN, reported \in BOOLEAN :
        /\ reported => committed
        /\ issuedDocs' = IF committed THEN issuedDocs \union {d} ELSE issuedDocs
        /\ numberOf' = IF committed /\ Drawn(d) THEN [numberOf EXCEPT ![d.series] = d.no]
                                                ELSE numberOf
        /\ clerk' = [clerk EXCEPT ![c] =
                       IF reported THEN Waiting
                       ELSE Doing("look", d, Len(Kinds(d.type)))]
  BY <1>0 DEF Commit
<1>3. PICK r : r = IF reported THEN Waiting ELSE Doing("look", d, Len(Kinds(d.type)))
  OBVIOUS
<1>4. /\ AtWork(c) /\ Row(c) = d /\ d \in Docs /\ writeLock = c /\ d.type \in Series
      /\ (Drawn(d) => d.no <= d.attempt) /\ d.attempt <= attempts /\ d.attempt \in Nat
      /\ d.no \in Nat /\ d.of \in Nat
  BY <1>0, <1>1 DEF AtWork, Row, IssuingHolds, RowsDrawn, LockHeld, Docs, Numbers
<1>5. /\ Len(Kinds(d.type)) \in {1, 2}
      /\ DOMAIN Kinds(d.type) = 1 .. Len(Kinds(d.type))
  BY <1>4, KindsOfType
<1>6. Published(c) = Len(Kinds(d.type))
  <2>1. Published(c) = clerk[c].at - 1 /\ clerk[c].at \in Nat
    BY <1>1, ClerkFields DEF Published
  <2>2. Published(c) \in 0 .. Len(Kinds(d.type))
    BY <1>4 DEF IssuingHolds, RowsDrawn
  <2> QED BY <1>1, <1>5, <2>1, <2>2
<1>7. /\ r \in ClerkRecords /\ clerk' = [clerk EXCEPT ![c] = r]
      /\ reported => r.step = "idle"
      /\ ~reported => r.step = "look" /\ r.row = d /\ r.at = Published(c)
  <2>1. Len(Kinds(d.type)) \in Nat
    BY <1>5
  <2>2. CASE reported
    BY <1>2, <1>3, <2>2, WaitingIs
  <2>3. CASE ~reported
    BY <1>2, <1>3, <1>4, <1>6, <2>1, <2>3, DoingIs
  <2> QED BY <2>2, <2>3
<1>8. /\ clerk' \in [Clerks -> ClerkRecords] /\ clerk'[c] = r
      /\ AtWork(c)' => ~reported /\ Row(c)' = d /\ Published(c)' = Published(c)
      /\ ~reported => AtWork(c)'
  BY <1>7, OneClerkMoves
<1>9. \A b \in Clerks \ {c} :
              /\ clerk'[b] = clerk[b] /\ (AtWork(b)' <=> AtWork(b))
              /\ Row(b)' = Row(b) /\ Published(b)' = Published(b)
  BY <1>7, OneClerkMoves
<1>10. deaths' \in Nat
  BY <1>1 DEF IssuingTyped
<1>11. CASE ~committed
  <2>1. UNCHANGED <<issuedDocs, numberOf, issuedFiles, attempts>> /\ ~reported
    BY <1>1, <1>2, <1>11
  <2>2. \A p \in Paths : Keeps(c, p) => Keeps(c, p)'
    BY <1>1, <1>4, <1>8, <2>1 DEF Keeps, Path
  <2>3. NoLitter'
    BY <1>1, <1>9, <2>1, <2>2, LitterKept
  <2>4. r.at <= Published(c)
    BY <1>5, <1>6, <1>7, <2>1
  <2> QED BY <1>1, <1>4, <1>7, <1>10, <2>1, <2>3, <2>4, RetreatKeeps
<1>12. CASE committed
  <2>1. /\ issuedDocs' = issuedDocs \union {d}
        /\ numberOf' = IF Drawn(d) THEN [numberOf EXCEPT ![d.series] = d.no] ELSE numberOf
    BY <1>2, <1>12
  <2>2. /\ numberOf[d.type] \in Nat
        /\ Drawn(d) => d.no = numberOf[d.type] + 1 /\ numberOf'[d.type] = d.no
        /\ ~Drawn(d) => numberOf' = numberOf
        /\ \A s \in Series \ {d.type} : numberOf'[s] = numberOf[s]
    <3>1. numberOf[d.type] \in Nat
      BY <1>4 DEF IssuingTyped
    <3>2. Drawn(d) => d.no = numberOf[d.series] + 1 /\ d.series = d.type
      BY <1>1, <1>4 DEF IssuingHolds, InTransaction, Drawn
    <3> QED BY <1>4, <2>1, <3>1, <3>2 DEF IssuingTyped
  <2>3. IssuingTyped'
    <3>1. IsFiniteSet(issuedDocs')
      BY <2>1, FS_AddElement DEF IssuingTyped
    <3>2. issuedDocs' \in SUBSET Docs /\ numberOf' \in [Series -> Nat]
      BY <1>4, <2>1 DEF IssuingTyped, Drawn
    <3> QED BY <1>1, <1>8, <3>1, <3>2 DEF IssuingTyped
  <2>4. ASSUME NEW b \in Clerks, AtWork(b)'
        PROVE  AtWork(b) /\ Row(b)' = Row(b) /\ Published(b)' = Published(b)
    BY <1>4, <1>8, <1>9, <2>4
  <2>5. \A b \in Clerks : clerk'[b].step # "publish"
    <3>1. \A b \in Clerks \ {c} : clerk[b].step # "publish"
      BY <1>4 DEF IssuingHolds, LockHeld
    <3> QED BY <1>7, <1>8, <1>9, <3>1
  <2>6. RowsDrawn'
    <3>1. \A b \in Clerks : AtWork(b)' =>
          /\ Row(b)' \in Docs /\ (Drawn(Row(b)') => Row(b)'.no <= Row(b)'.attempt)
          /\ Row(b)'.attempt <= attempts
          /\ Published(b)' \in 0 .. Len(Kinds(Row(b)'.type))
          /\ clerk'[b].step = "remove" => clerk'[b].at >= 1
      BY <1>7, <1>8, <1>9, <2>4 DEF IssuingHolds, RowsDrawn
    <3>2. \A e \in issuedDocs' : e.attempt <= attempts
      BY <1>4, <2>1 DEF IssuingHolds, RowsDrawn
    <3>3. Drawn(d) => d.no <= attempts
      <4>1. attempts \in Nat
        BY DEF IssuingTyped
      <4> QED BY <1>4, <4>1
    <3>4. \A s \in Series : numberOf'[s] <= attempts
      BY <1>4, <2>2, <3>3 DEF IssuingHolds, RowsDrawn
    <3> QED BY <1>1, <3>1, <3>2, <3>4 DEF RowsDrawn
  <2>7. OneAttempt'
    <3>1. \A b, e \in Clerks :
            AtWork(b)' /\ AtWork(e)' /\ b # e => Row(b)'.attempt # Row(e)'.attempt
      BY <2>4 DEF IssuingHolds, OneAttempt
    <3>2. ASSUME NEW b \in Clerks, AtWork(b)', NEW e \in issuedDocs',
                 e.attempt = Row(b)'.attempt
          PROVE  e = Row(b)'
      <4>1. CASE e \in issuedDocs
        BY <2>4, <3>2, <4>1 DEF IssuingHolds, OneAttempt
      <4>2. CASE e = d
        BY <1>4, <2>4, <3>2, <4>2 DEF IssuingHolds, OneAttempt
      <4> QED BY <2>1, <4>1, <4>2
    <3> QED BY <3>1, <3>2 DEF OneAttempt
  <2>8. LockHeld'
    <3>1. NoClerk \notin Clerks
      BY IssuingAssumption DEF IssuingAssumption
    <3> QED BY <1>1, <2>5, <3>1 DEF LockHeld
  <2>9. InTransaction'
    BY <2>5 DEF InTransaction
  <2>10. FilesHeld'
    <3>1. \A b \in Clerks : AtWork(b)' => \A j \in 1 .. Published(b)' :
            issuedFiles[Path(Row(b)', j)] = Row(b)'.attempt
      BY <2>4 DEF IssuingHolds, FilesHeld
    <3> QED BY <1>1, <3>1 DEF FilesHeld, Path
  <2>11. DocsHaveFiles'
    <3>1. \A i \in DOMAIN Kinds(d.type) : issuedFiles[Path(d, i)] = d.attempt
      BY <1>4, <1>5, <1>6 DEF IssuingHolds, FilesHeld
    <3>2. \A e \in issuedDocs' : \A i \in DOMAIN Kinds(e.type) :
            issuedFiles[Path(e, i)] = e.attempt
      BY <2>1, <3>1 DEF IssuingHolds, DocsHaveFiles
    <3> QED BY <1>1, <3>2 DEF DocsHaveFiles, Path
  <2>12. RemovesNoDocument'
    <3>1. ASSUME NEW b \in Clerks, clerk'[b].step = "remove", NEW e \in issuedDocs'
          PROVE  ~SameName(e, Row(b)')
      <4>1. b # c
        BY <1>7, <1>8, <3>1
      <4>2. clerk[b].step = "remove" /\ Row(b)' = Row(b) /\ AtWork(b)
        BY <1>9, <3>1, <4>1 DEF AtWork
      <4>3. CASE e \in issuedDocs
        BY <4>2, <4>3 DEF IssuingHolds, RemovesNoDocument, SameName
      <4>4. CASE e = d
        <5>1. Published(b) >= 1
          BY <4>2 DEF IssuingHolds, RowsDrawn, Published
        <5>2. Published(c) >= 1
          <6>1. Published(c) \in {1, 2}
            BY <1>5, <1>6
          <6> QED BY <6>1
        <5>3. ~SameName(Row(c), Row(b))
          BY <1>4, <4>1, <4>2, <5>1, <5>2, OneAtName
        <5> QED BY <1>4, <4>2, <4>4, <5>3
      <4> QED BY <2>1, <4>3, <4>4
    <3> QED BY <3>1 DEF RemovesNoDocument, SameName
  <2>120. OneName'
    <3>1. \A e \in issuedDocs : ~SameName(d, e)
      BY <1>1, <1>4 DEF IssuingHolds, InTransaction
    <3>2. \A e, f \in issuedDocs' : SameName(e, f) => e = f
      BY <2>1, <3>1 DEF IssuingHolds, OneName, SameName
    <3> QED BY <3>2 DEF OneName, SameName
  <2>13. Numbering'
    <3>1. \A s \in Series : /\ {e.no : e \in OfSeries(s)} = 1 .. numberOf[s]
                            /\ Cardinality(OfSeries(s)) = numberOf[s]
      BY DEF IssuingHolds, Numbering
    <3>2. \A s \in Series \ {d.type} : OfSeries(s)' = OfSeries(s)
      BY <2>1 DEF OfSeries, Drawn
    <3>3. CASE ~Drawn(d)
      <4>1. \A s \in Series : OfSeries(s)' = OfSeries(s)
        BY <2>1, <3>3 DEF OfSeries, Drawn
      <4> QED BY <2>2, <3>1, <3>3, <4>1 DEF Numbering
    <3>4. CASE Drawn(d)
      <4>1. OfSeries(d.type)' = OfSeries(d.type) \union {d}
        BY <2>1, <3>4 DEF OfSeries, Drawn
      <4>2. IsFiniteSet(OfSeries(d.type))
        BY FS_Subset DEF IssuingTyped, OfSeries
      <4>3. d \notin OfSeries(d.type)
        <5>1. d.no \notin 1 .. numberOf[d.type]
          BY <2>2, <3>4
        <5> QED BY <1>4, <3>1, <5>1
      <4>4. Cardinality(OfSeries(d.type) \union {d}) = numberOf[d.type] + 1
        <5>1. Cardinality(OfSeries(d.type) \union {d}) = Cardinality(OfSeries(d.type)) + 1
          BY <4>2, <4>3, FS_AddElement, Zenon
        <5> QED BY <1>4, <3>1, <5>1
      <4>5. {e.no : e \in OfSeries(d.type) \union {d}} = 1 .. d.no
        <5>1. {e.no : e \in OfSeries(d.type) \union {d}}
                = {e.no : e \in OfSeries(d.type)} \union {d.no}
          OBVIOUS
        <5>2. 1 .. d.no = 1 .. numberOf[d.type] \union {d.no}
          BY <1>4, <2>2, <3>4
        <5> QED BY <1>4, <3>1, <5>1, <5>2
      <4>6. /\ {e.no : e \in OfSeries(d.type)'} = 1 .. numberOf'[d.type]
            /\ Cardinality(OfSeries(d.type)') = numberOf'[d.type]
        BY <2>2, <3>4, <4>1, <4>4, <4>5
      <4>7. \A s \in Series \ {d.type} :
              /\ {e.no : e \in OfSeries(s)'} = 1 .. numberOf'[s]
              /\ Cardinality(OfSeries(s)') = numberOf'[s]
        BY <2>2, <3>1, <3>2
      <4>8. \A s \in Series :
              /\ {e.no : e \in OfSeries(s)'} = 1 .. numberOf'[s]
              /\ Cardinality(OfSeries(s)') = numberOf'[s]
        BY <4>6, <4>7
      <4> QED BY <4>8 DEF Numbering
    <3> QED BY <3>3, <3>4
  <2>14. CreditsFit'
    <3>1. ASSUME NEW n \in Nat
          PROVE  Credited(n)' <= CreditUnits
      <4>1. PICK S : S = {e \in issuedDocs : e.type = "credit" /\ e.of = n}
        OBVIOUS
      <4>2. IsFiniteSet(S) /\ Cardinality(S) = Credited(n) /\ Cardinality(S) \in Nat
        BY <4>1, FS_Subset, FS_CardinalityType DEF IssuingTyped, Credited
      <4>3. Credited(n) <= CreditUnits /\ CreditUnits \in Nat
        BY IssuingAssumption DEF IssuingHolds, CreditsFit, IssuingAssumption
      <4>4. CASE d.type = "credit" /\ d.of = n
        <5>1. Credited(n) < CreditUnits
          BY <1>1, <1>4, <4>4 DEF IssuingHolds, InTransaction
        <5>2. Credited(n)' = Cardinality(S \union {d})
          BY <2>1, <4>1, <4>4 DEF Credited
        <5>3. Cardinality(S \union {d}) <= Cardinality(S) + 1
          <6>1. Cardinality(S \union {d}) = Cardinality(S)
                \/ Cardinality(S \union {d}) = Cardinality(S) + 1
            BY <4>2, FS_AddElement, Zenon
          <6> QED BY <4>2, <6>1
        <5>4. Cardinality(S \union {d}) \in Nat
          BY <4>2, FS_AddElement, FS_CardinalityType
        <5> QED BY <4>2, <4>3, <5>1, <5>2, <5>3, <5>4
      <4>5. CASE ~(d.type = "credit" /\ d.of = n)
        <5>1. Credited(n)' = Credited(n)
          BY <2>1, <4>5 DEF Credited
        <5> QED BY <4>3, <5>1
      <4> QED BY <4>4, <4>5
    <3> QED BY <3>1 DEF CreditsFit
  <2>15. NoLitter'
    <3>1. ASSUME NEW p \in Paths, NEW b \in Clerks, Keeps(b, p)
          PROVE  Keeps(b, p)' \/ \E e \in issuedDocs' : e.attempt = issuedFiles[p]
      <4>1. CASE b = c
        BY <1>4, <2>1, <3>1, <4>1 DEF Keeps
      <4>2. CASE b # c
        BY <1>1, <1>9, <3>1, <4>2 DEF Keeps, Path
      <4> QED BY <4>1, <4>2
    <3> QED BY <1>1, <2>1, <3>1 DEF IssuingHolds, NoLitter
  <2> QED
    BY <2>3, <2>6, <2>7, <2>8, <2>9, <2>10, <2>11, <2>12, <2>120, <2>13, <2>14, <2>15
    DEF IssuingHolds
<1> QED BY <1>11, <1>12

(* A file is removed.                                                       *)
LEMMA TakeBackKeeps ==
  ASSUME IssuingTyped, IssuingHolds, NEW c \in Clerks, TakeBack(c)
  PROVE  IssuingTyped' /\ IssuingHolds'
<1>0. PICK d : d = clerk[c].row
  OBVIOUS
<1>00. PICK i : i = clerk[c].at
  OBVIOUS
<1>000. PICK r : r = Doing("look", d, i - 1)
  OBVIOUS
<1>1. /\ clerk[c].step = "remove" /\ clerk' = [clerk EXCEPT ![c] = r]
      /\ issuedFiles' = [issuedFiles EXCEPT ![Path(d, i)] = 0]
      /\ UNCHANGED <<issuedDocs, numberOf, writeLock, attempts, deaths, unread>>
  BY <1>0, <1>00, <1>000 DEF TakeBack
<1>2. /\ AtWork(c) /\ Row(c) = d /\ Published(c) = i /\ d \in Docs /\ i \in Nat /\ i >= 1
      /\ i \in DOMAIN Kinds(d.type)
  <2>1. AtWork(c) /\ Row(c) = d /\ Published(c) = i /\ d \in Docs /\ i \in Nat /\ i >= 1
    BY <1>0, <1>00, <1>1, ClerkFields DEF AtWork, Row, Published, IssuingHolds, RowsDrawn
  <2>2. i \in 1 .. Published(c)
    BY <2>1
  <2> QED BY <2>1, <2>2, PublishedFiles DEF IssuingHolds
<1>3. i - 1 \in Nat /\ i \in 1 .. Published(c)
  BY <1>2
<1>4. r \in ClerkRecords /\ r.step = "look" /\ r.row = d /\ r.at = i - 1
  BY <1>000, <1>2, <1>3, DoingIs
<1>5. /\ clerk' \in [Clerks -> ClerkRecords] /\ clerk'[c] = r
      /\ AtWork(c)' /\ Row(c)' = d /\ Published(c)' = i - 1
  BY <1>1, <1>4, OneClerkMoves
<1>6. \A b \in Clerks \ {c} :
              /\ clerk'[b] = clerk[b] /\ (AtWork(b)' <=> AtWork(b))
              /\ Row(b)' = Row(b) /\ Published(b)' = Published(b)
  BY <1>1, <1>4, OneClerkMoves
<1>7. /\ issuedFiles' \in [Paths -> 0..MaxAttempts] /\ issuedFiles'[Path(d, i)] = 0
      /\ \A p \in Paths : p # Path(d, i) => issuedFiles'[p] = issuedFiles[p]
  <2>1. MaxAttempts \in Nat
    BY IssuingAssumption DEF IssuingAssumption
  <2>2. Path(d, i) \in Paths
    BY <1>2, PathTells
  <2> QED BY <1>1, <2>1, <2>2 DEF IssuingTyped
<1>8. IssuingTyped'
  BY <1>1, <1>5, <1>7 DEF IssuingTyped
<1>9. RowsDrawn'
  <2>1. i - 1 \in 0 .. Len(Kinds(d.type))
    <3>1. Len(Kinds(d.type)) \in {1, 2} /\ i \in 0 .. Len(Kinds(d.type))
      BY <1>2, KindsOfType DEF Docs, IssuingHolds, RowsDrawn
    <3> QED BY <1>2, <3>1
  <2>2. \A b \in Clerks : AtWork(b)' =>
          /\ Row(b)' \in Docs /\ (Drawn(Row(b)') => Row(b)'.no <= Row(b)'.attempt)
          /\ Row(b)'.attempt <= attempts
          /\ Published(b)' \in 0 .. Len(Kinds(Row(b)'.type))
          /\ clerk'[b].step = "remove" => clerk'[b].at >= 1
    BY <1>2, <1>4, <1>5, <1>6, <2>1 DEF IssuingHolds, RowsDrawn
  <2> QED BY <1>1, <2>2 DEF IssuingHolds, RowsDrawn
<1>10. OneAttempt'
  BY <1>1, <1>2, <1>5, <1>6 DEF IssuingHolds, OneAttempt
<1>11. LockHeld'
  BY <1>1, <1>4, <1>5, <1>6 DEF IssuingHolds, LockHeld
<1>12. InTransaction'
  <2>1. ASSUME NEW b \in Clerks, clerk'[b].step = "publish"
        PROVE  clerk[b].step = "publish" /\ Row(b)' = Row(b)
    BY <1>4, <1>5, <1>6, <2>1
  <2>2. ASSUME NEW b \in Clerks, clerk[b].step = "publish", Row(b)' = Row(b)
        PROVE  /\ Drawn(Row(b)') => Row(b)'.no = numberOf'[Row(b)'.series] + 1
               /\ \A e \in issuedDocs' : ~SameName(Row(b)', e)
               /\ Row(b)'.type = "credit" => Credited(Row(b).of)' < CreditUnits
    <3>1. /\ Drawn(Row(b)) => Row(b).no = numberOf[Row(b).series] + 1
          /\ \A e \in issuedDocs : ~SameName(Row(b), e)
          /\ Row(b).type = "credit" => Credited(Row(b).of) < CreditUnits
      BY <2>2 DEF IssuingHolds, InTransaction
    <3>2. Credited(Row(b).of)' = Credited(Row(b).of)
      BY <1>1, <2>2 DEF Credited
    <3> QED BY <1>1, <2>2, <3>1, <3>2
  <2> QED BY <2>1, <2>2 DEF InTransaction, Drawn, SameName
<1>13. FilesHeld'
  <2>1. ASSUME NEW b \in Clerks, AtWork(b)', NEW j \in 1 .. Published(b)'
        PROVE  issuedFiles'[Path(Row(b)', j)] = Row(b)'.attempt
    <3>1. AtWork(b) /\ Row(b)' = Row(b) /\ j \in 1 .. Published(b)
      <4>1. CASE b = c
        <5>1. j \in 1 .. (i - 1)
          BY <1>5, <2>1, <4>1
        <5> QED BY <1>2, <1>5, <4>1, <5>1
      <4>2. CASE b # c
        BY <1>6, <2>1, <4>2
      <4> QED BY <4>1, <4>2
    <3>2. /\ issuedFiles[Path(Row(b), j)] = Row(b).attempt
          /\ Row(b) \in Docs /\ j \in DOMAIN Kinds(Row(b).type)
      BY <3>1, PublishedFiles DEF IssuingHolds, FilesHeld
    <3>3. Path(Row(b), j) \in Paths
      BY <3>2, PathTells
    <3>4. Path(Row(b), j) # Path(d, i)
      <4>1. CASE b = c
        <5>1. j # i
          BY <1>2, <1>5, <2>1, <4>1
        <5> QED BY <1>2, <3>2, <4>1, <5>1, PathTells
      <4>2. CASE b # c
        BY <1>2, <1>3, <3>1, <4>2, PathsAreApart
      <4> QED BY <4>1, <4>2
    <3> QED BY <1>7, <3>1, <3>2, <3>3, <3>4
  <2> QED BY <2>1 DEF FilesHeld, Path
<1>14. DocsHaveFiles'
  <2>1. ASSUME NEW e \in issuedDocs, NEW j \in DOMAIN Kinds(e.type)
        PROVE  issuedFiles'[Path(e, j)] = e.attempt
    <3>1. issuedFiles[Path(e, j)] = e.attempt /\ e \in Docs
      BY DEF IssuingHolds, DocsHaveFiles, IssuingTyped
    <3>2. ~SameName(e, d)
      BY <1>1, <1>2 DEF IssuingHolds, RemovesNoDocument
    <3>3. Path(e, j) \in Paths /\ Path(e, j) # Path(d, i)
      BY <1>2, <3>1, <3>2, PathTells
    <3> QED BY <1>7, <3>1, <3>3
  <2> QED BY <1>1, <2>1 DEF DocsHaveFiles, Path
<1>15. OneName' /\ Numbering' /\ CreditsFit'
  BY <1>1 DEF IssuingHolds, OneName, SameName, Numbering, OfSeries, Drawn, CreditsFit, Credited
<1>16. RemovesNoDocument'
  BY <1>1, <1>4, <1>5, <1>6 DEF IssuingHolds, RemovesNoDocument, SameName
<1>17. NoLitter'
  <2>1. ASSUME NEW p \in Paths, p # Path(d, i), NEW b \in Clerks, Keeps(b, p)
        PROVE  Keeps(b, p)'
    <3>1. issuedFiles'[p] = issuedFiles[p]
      BY <1>7, <2>1
    <3>2. PICK j \in 1 .. Published(b) : p = Path(Row(b), j) /\ issuedFiles[p] = Row(b).attempt
      BY <2>1 DEF Keeps
    <3>3. AtWork(b)' /\ Row(b)' = Row(b) /\ j \in 1 .. Published(b)'
      <4>1. CASE b = c
        <5>1. j # i
          BY <1>2, <2>1, <3>2, <4>1
        <5>2. j \in 1 .. (i - 1)
          BY <1>2, <4>1, <5>1
        <5> QED BY <1>2, <1>5, <4>1, <5>2
      <4>2. CASE b # c
        BY <1>6, <2>1, <4>2 DEF Keeps
      <4> QED BY <4>1, <4>2
    <3> QED BY <3>1, <3>2, <3>3 DEF Keeps, Path
  <2>2. ASSUME deaths = 0, ~unread, NEW p \in Paths
        PROVE  \/ issuedFiles'[p] = 0
               \/ \E e \in issuedDocs : e.attempt = issuedFiles'[p]
               \/ \E b \in Clerks : Keeps(b, p)'
    <3>1. CASE p = Path(d, i)
      BY <1>7, <3>1
    <3>2. CASE p # Path(d, i)
      BY <1>7, <2>1, <2>2, <3>2 DEF IssuingHolds, NoLitter
    <3> QED BY <3>1, <3>2
  <2> QED BY <1>1, <2>2 DEF NoLitter
<1> QED
  BY <1>8, <1>9, <1>10, <1>11, <1>12, <1>13, <1>14, <1>15, <1>16, <1>17 DEF IssuingHolds

-----------------------------------------------------------------------------
(* Booking.  Journals are numbered by how many there are.                   *)
LEMMA JournalAdded ==
  ASSUME JournalsTyped, NEW n \in Nat, Cardinality(invoiceJournals) < MaxJournals
  PROVE  /\ NewEntry(n) \in InvoiceJournals /\ NewEntry(n).id \in 1..MaxJournals
         /\ NewEntry(n).invoice = n /\ NewEntry(n).reversed = FALSE
         /\ IsFiniteSet(invoiceJournals \union {NewEntry(n)})
<1>1. Cardinality(invoiceJournals) \in Nat
  BY FS_CardinalityType DEF JournalsTyped
<1>2. MaxJournals \in Nat
  BY IssuingAssumption DEF IssuingAssumption
<1>3. /\ Cardinality(invoiceJournals) + 1 \in 1..MaxJournals
      /\ Cardinality(invoiceJournals) + 1 \in Nat \ {0}
  BY <1>1, <1>2
<1>4. /\ NewEntry(n) \in InvoiceJournals /\ NewEntry(n).id \in 1..MaxJournals
      /\ NewEntry(n).invoice = n /\ NewEntry(n).reversed = FALSE
  BY <1>3 DEF NewEntry, InvoiceJournals
<1>5. IsFiniteSet(invoiceJournals \union {NewEntry(n)})
  BY FS_AddElement DEF JournalsTyped
<1> QED BY <1>4, <1>5

(* What is posted for an invoice is the entry that was added for it, and    *)
(* what was there before is no longer active.                               *)
PostsCleanly ==
  \A n \in Numbers :
    /\ posting[n] # 0 => posting'[n] = posting[n]
    /\ posting[n] = 0 /\ posting'[n] # 0 => Unlinked(n)' = {}

LEMMA PostingStays ==
  ASSUME JournalsTyped, UNCHANGED bookVars
  PROVE  JournalsTyped' /\ PostsCleanly
BY DEF JournalsTyped, bookVars, PostsCleanly

LEMMA BookKeeps ==
  ASSUME IssuingTyped, JournalsTyped, IssuingHolds, NEW c \in Clerks, BookInvoice(c)
  PROVE  IssuingTyped' /\ JournalsTyped' /\ IssuingHolds' /\ PostsCleanly
<1>0. PICK n : n = clerk[c].invoice
  OBVIOUS
<1>1. /\ clerk[c].step = "book" /\ Cardinality(invoiceJournals) < MaxJournals
      /\ clerk' = [clerk EXCEPT ![c] = Waiting]
      /\ UNCHANGED <<issueVars, writeLock>>
      /\ IF MayBook(n)
         THEN /\ invoiceJournals' = invoiceJournals \union {NewEntry(n)}
              /\ posting' = [posting EXCEPT ![n] = NewEntry(n).id]
         ELSE UNCHANGED bookVars
  BY <1>0 DEF BookInvoice
<1>2. IssuingTyped' /\ IssuingHolds'
  <2>1. clerk' \in [Clerks -> ClerkRecords] /\ clerk'[c] = Waiting
    BY <1>1, WaitingIs, OneClerkMoves
  <2>2. \A b \in Clerks : clerk'[b] = clerk[b] \/
           (~AtWork(b) /\ clerk'[b].step \notin {"publish", "look", "remove"})
    <3>1. \A b \in Clerks \ {c} : clerk'[b] = clerk[b]
      BY <1>1, WaitingIs, OneClerkMoves
    <3> QED BY <1>1, <2>1, <3>1, WaitingIs DEF AtWork
  <2> QED BY <1>1, <2>1, <2>2, IssuingKept
<1>3. n \in Nat
  BY <1>0, ClerkFields
<1>4. CASE ~MayBook(n)
  BY <1>1, <1>2, <1>4, PostingStays
<1>5. CASE MayBook(n)
  <2>1. PICK j : j = NewEntry(n)
    OBVIOUS
  <2>2. /\ j \in InvoiceJournals /\ j.id \in 1..MaxJournals /\ j.invoice = n
        /\ IsFiniteSet(invoiceJournals')
        /\ invoiceJournals' = invoiceJournals \union {j}
        /\ posting' = [posting EXCEPT ![n] = j.id]
    BY <1>1, <1>3, <1>5, <2>1, JournalAdded
  <2>3. JournalsTyped'
    <3>1. j.id \in 0..MaxJournals
      BY <2>2
    <3> QED BY <2>2, <3>1 DEF JournalsTyped
  <2>4. PostsCleanly
    <3>1. posting[n] = 0 /\ Unlinked(n) = {}
      BY <1>5 DEF MayBook
    <3>2. \A m \in Numbers : m # n => posting'[m] = posting[m]
      BY <2>2 DEF JournalsTyped
    <3>3. ASSUME n \in Numbers PROVE Unlinked(n)' = {}
      <4>1. posting'[n] = j.id
        BY <2>2, <3>3 DEF JournalsTyped
      <4>2. \A k \in invoiceJournals : ~(k.invoice = n /\ ~k.reversed)
        <5>1. \A k \in invoiceJournals : k.id # 0
          BY DEF JournalsTyped, InvoiceJournals
        <5> QED BY <3>1, <5>1 DEF Unlinked, ActiveFor
      <4> QED BY <2>2, <4>1, <4>2 DEF Unlinked, ActiveFor
    <3>4. ASSUME NEW m \in Numbers
          PROVE  /\ posting[m] # 0 => posting'[m] = posting[m]
                 /\ posting[m] = 0 /\ posting'[m] # 0 => Unlinked(m)' = {}
      <4>1. CASE m = n
        BY <3>1, <3>3, <4>1
      <4>2. CASE m # n
        BY <3>2, <4>2
      <4> QED BY <4>1, <4>2
    <3> QED BY <3>4 DEF PostsCleanly
  <2> QED BY <1>2, <2>3, <2>4
<1> QED BY <1>4, <1>5

LEMMA ByHandKeeps ==
  ASSUME IssuingTyped, JournalsTyped, IssuingHolds, NEW c \in Clerks, NEW d \in issuedDocs,
         PostByHand(c, d)
  PROVE  IssuingTyped' /\ JournalsTyped' /\ IssuingHolds' /\ PostsCleanly
<1>1. /\ Cardinality(invoiceJournals) < MaxJournals
      /\ invoiceJournals' = invoiceJournals \union {NewEntry(d.no)}
      /\ UNCHANGED <<issueVars, writeLock, clerk, posting>>
  BY DEF PostByHand
<1>2. d.no \in Nat
  BY DEF IssuingTyped, Docs, Numbers
<1>3. IssuingTyped' /\ IssuingHolds'
  <2>1. clerk' \in [Clerks -> ClerkRecords]
    BY <1>1 DEF IssuingTyped
  <2> QED BY <1>1, <2>1, IssuingKept
<1>4. NewEntry(d.no) \in InvoiceJournals /\ IsFiniteSet(invoiceJournals')
  BY <1>1, <1>2, JournalAdded
<1>5. JournalsTyped'
  BY <1>1, <1>4 DEF JournalsTyped
<1>6. PostsCleanly
  BY <1>1 DEF PostsCleanly
<1> QED BY <1>3, <1>5, <1>6

LEMMA RepairKeeps ==
  ASSUME IssuingTyped, JournalsTyped, IssuingHolds, NEW c \in Clerks,
         NEW j \in invoiceJournals, Repair(c, j)
  PROVE  IssuingTyped' /\ JournalsTyped' /\ IssuingHolds' /\ PostsCleanly
<1>0. PICK n : n = j.invoice
  OBVIOUS
<1>00. PICK k : k = NewEntry(n)
  OBVIOUS
<1>000. PICK o : o = [j EXCEPT !.reversed = TRUE]
  OBVIOUS
<1>1. /\ Cardinality(invoiceJournals) < MaxJournals
      /\ posting[n] = 0 /\ ActiveFor(n) = {j}
      /\ invoiceJournals' = (invoiceJournals \ {j}) \union {o, k}
      /\ posting' = [posting EXCEPT ![n] = k.id]
      /\ UNCHANGED <<issueVars, writeLock, clerk>>
  BY <1>0, <1>00, <1>000 DEF Repair
<1>2. IssuingTyped' /\ IssuingHolds'
  <2>1. clerk' \in [Clerks -> ClerkRecords]
    BY <1>1 DEF IssuingTyped
  <2> QED BY <1>1, <2>1, IssuingKept
<1>3. j \in InvoiceJournals /\ n \in Nat
  BY <1>0 DEF JournalsTyped, InvoiceJournals
<1>4. /\ k \in InvoiceJournals /\ k.id \in 1..MaxJournals /\ k.invoice = n
      /\ IsFiniteSet(invoiceJournals \union {k})
  BY <1>00, <1>1, <1>3, JournalAdded
<1>5. o \in InvoiceJournals /\ o.reversed = TRUE
  BY <1>000, <1>3 DEF InvoiceJournals
<1>6. IsFiniteSet(invoiceJournals')
  <2>1. IsFiniteSet((invoiceJournals \union {k}) \union {o})
    BY <1>4, FS_AddElement
  <2>2. invoiceJournals' \in SUBSET ((invoiceJournals \union {k}) \union {o})
    BY <1>1
  <2> QED BY <2>1, <2>2, FS_Subset
<1>7. JournalsTyped'
  <2>1. k.id \in 0..MaxJournals
    BY <1>4
  <2>2. posting' \in [Numbers -> 0..MaxJournals]
    BY <1>1, <2>1 DEF JournalsTyped
  <2>3. invoiceJournals' \in SUBSET InvoiceJournals
    BY <1>1, <1>4, <1>5 DEF JournalsTyped
  <2> QED BY <1>6, <2>2, <2>3 DEF JournalsTyped
<1>8. PostsCleanly
  <2>1. \A m \in Numbers : m # n => posting'[m] = posting[m]
    BY <1>1 DEF JournalsTyped
  <2>2. ASSUME n \in Numbers PROVE Unlinked(n)' = {}
    <3>1. posting'[n] = k.id
      BY <1>1, <2>2 DEF JournalsTyped
    <3>2. \A i \in invoiceJournals : i.invoice = n /\ ~i.reversed => i = j
      BY <1>1 DEF ActiveFor
    <3>3. \A i \in invoiceJournals' : i.invoice = n /\ ~i.reversed => i = k
      BY <1>1, <1>5, <3>2
    <3> QED BY <3>1, <3>3 DEF Unlinked, ActiveFor
  <2>3. ASSUME NEW m \in Numbers
        PROVE  /\ posting[m] # 0 => posting'[m] = posting[m]
               /\ posting[m] = 0 /\ posting'[m] # 0 => Unlinked(m)' = {}
    <3>1. CASE m = n
      BY <1>1, <2>2, <3>1
    <3>2. CASE m # n
      BY <2>1, <3>2
    <3> QED BY <3>1, <3>2
  <2> QED BY <2>3 DEF PostsCleanly
<1> QED BY <1>2, <1>7, <1>8

LEMMA CheckKeeps ==
  ASSUME IssuingTyped, JournalsTyped, IssuingHolds, NEW c \in Clerks, NEW d \in issuedDocs,
         CheckBooking(c, d)
  PROVE  IssuingTyped' /\ JournalsTyped' /\ IssuingHolds' /\ PostsCleanly
<1>0. PICK r : r = [Waiting EXCEPT !.step = "book", !.invoice = d.no]
  OBVIOUS
<1>1. /\ clerk[c] = Waiting /\ clerk' = [clerk EXCEPT ![c] = r]
      /\ UNCHANGED <<issueVars, writeLock, bookVars>>
  BY <1>0 DEF CheckBooking
<1>2. d.no \in Nat
  BY DEF IssuingTyped, Docs, Numbers
<1>3. r = [step |-> "book", row |-> NoRow, at |-> 0, invoice |-> d.no]
  BY <1>0 DEF Waiting
<1>4. r \in ClerkRecords /\ r.step = "book"
  BY <1>2, <1>3 DEF ClerkRecords, ClerkSteps
<1>5. /\ clerk' \in [Clerks -> ClerkRecords] /\ clerk'[c] = r
      /\ \A b \in Clerks \ {c} : clerk'[b] = clerk[b]
  BY <1>1, <1>4, OneClerkMoves
<1>6. ~AtWork(c)
  BY <1>1, WaitingIs DEF AtWork
<1>7. IssuingTyped' /\ IssuingHolds'
  BY <1>1, <1>4, <1>5, <1>6, IssuingKept
<1> QED BY <1>1, <1>7, PostingStays

-----------------------------------------------------------------------------
LEMMA IssuingStep ==
  ASSUME IssuingInv, [IssuingNext]_issuingVars
  PROVE  IssuingInv' /\ PostsCleanly
<1> USE DEF IssuingInv
<1>1. CASE UNCHANGED issuingVars
  <2>1. UNCHANGED <<issueVars, writeLock>> /\ UNCHANGED bookVars /\ UNCHANGED clerk
    BY <1>1 DEF issuingVars, issueVars, bookVars
  <2>2. clerk' \in [Clerks -> ClerkRecords]
    BY <2>1 DEF IssuingTyped
  <2> QED BY <2>1, <2>2, IssuingKept, PostingStays
<1>2. ASSUME NEW c \in Clerks, BeginInvoice(c)
      PROVE  IssuingInv' /\ PostsCleanly
  <2>1. /\ BeginDocument(c, "invoice", "invoice", numberOf["invoice"] + 1, 0)
        /\ "invoice" \in Series /\ 0 \in Nat /\ numberOf["invoice"] + 1 \in Nat
    BY <1>2 DEF BeginInvoice, Series, IssuingTyped
  <2>2. UNCHANGED bookVars
    BY <2>1 DEF BeginDocument
  <2> QED BY <2>1, <2>2, BeginKeeps, PostingStays
<1>3. ASSUME NEW c \in Clerks, NEW d \in issuedDocs, BeginCreditNote(c, d)
      PROVE  IssuingInv' /\ PostsCleanly
  <2>1. /\ BeginDocument(c, "credit", "credit", numberOf["credit"] + 1, d.no)
        /\ "credit" \in Series /\ d.no \in Nat /\ numberOf["credit"] + 1 \in Nat
        /\ Credited(d.no) < CreditUnits
    BY <1>3 DEF BeginCreditNote, MayCreditInvoice, Series, IssuingTyped, Docs, Numbers
  <2>2. UNCHANGED bookVars
    BY <2>1 DEF BeginDocument
  <2> QED BY <2>1, <2>2, BeginKeeps, PostingStays
<1>30. ASSUME NEW c \in Clerks, NEW d \in issuedDocs, NEW name \in ChosenNames,
              BeginNamedCreditNote(c, d, name)
       PROVE  IssuingInv' /\ PostsCleanly
  <2>0. name[1] \in {"invoice", "own"} /\ name[2] \in Numbers /\ name[2] \in Nat
    BY IssuingAssumption DEF IssuingAssumption, Numbers
  <2>1. /\ BeginDocument(c, "credit", name[1], name[2], d.no)
        /\ "credit" \in Series /\ d.no \in Nat /\ Credited(d.no) < CreditUnits
    BY <1>30 DEF BeginNamedCreditNote, MayCreditInvoice, Series, IssuingTyped, Docs, Numbers
  <2>2. UNCHANGED bookVars
    BY <2>1 DEF BeginDocument
  <2>3. name[1] \in Series \union {"own"} /\ name[1] # "credit"
    BY <2>0 DEF Series
  <2> QED BY <2>0, <2>1, <2>2, <2>3, BeginKeeps, PostingStays
<1>4. ASSUME NEW c \in Clerks, PublishIssue(c)
      PROVE  IssuingInv' /\ PostsCleanly
  <2>1. UNCHANGED bookVars
    BY <1>4 DEF PublishIssue
  <2>2. IssuingTyped' /\ IssuingHolds'
    <3>1. CASE issuedFiles[Path(Row(c), clerk[c].at)] = 0
      BY <1>4, <3>1, PublishIssueKeeps
    <3>2. CASE issuedFiles[Path(Row(c), clerk[c].at)] # 0
      BY <1>4, <3>2, PublishFails
    <3> QED BY <3>1, <3>2
  <2> QED BY <2>1, <2>2, PostingStays
<1>5. ASSUME NEW c \in Clerks, Commit(c)
      PROVE  IssuingInv' /\ PostsCleanly
  <2>1. UNCHANGED bookVars
    BY <1>5 DEF Commit
  <2> QED BY <1>5, <2>1, CommitKeeps, PostingStays
<1>6. ASSUME NEW c \in Clerks, Look(c)
      PROVE  IssuingInv' /\ PostsCleanly
  <2>1. UNCHANGED bookVars
    BY <1>6 DEF Look
  <2> QED BY <1>6, <2>1, LookKeeps, PostingStays
<1>7. ASSUME NEW c \in Clerks, TakeBack(c)
      PROVE  IssuingInv' /\ PostsCleanly
  <2>1. UNCHANGED bookVars
    BY <1>7 DEF TakeBack
  <2> QED BY <1>7, <2>1, TakeBackKeeps, PostingStays
<1>8. ASSUME NEW c \in Clerks, Die(c)
      PROVE  IssuingInv' /\ PostsCleanly
  <2>1. UNCHANGED bookVars
    BY <1>8 DEF Die
  <2> QED BY <1>8, <2>1, DieKeeps, PostingStays
<1>9. ASSUME NEW c \in Clerks, NEW d \in issuedDocs, CheckBooking(c, d)
      PROVE  IssuingInv' /\ PostsCleanly
  BY <1>9, CheckKeeps
<1>10. ASSUME NEW c \in Clerks, NEW d \in issuedDocs, PostByHand(c, d)
       PROVE  IssuingInv' /\ PostsCleanly
  BY <1>10, ByHandKeeps
<1>11. ASSUME NEW c \in Clerks, BookInvoice(c)
       PROVE  IssuingInv' /\ PostsCleanly
  BY <1>11, BookKeeps
<1>12. ASSUME NEW c \in Clerks, NEW j \in invoiceJournals, Repair(c, j)
       PROVE  IssuingInv' /\ PostsCleanly
  BY <1>12, RepairKeeps
<1> HIDE DEF IssuingInv
<1> QED
  BY <1>1, <1>2, <1>3, <1>30, <1>4, <1>5, <1>6, <1>7, <1>8, <1>9, <1>10, <1>11, <1>12
  DEF IssuingNext

LEMMA IssuingStart == IssuingInit => IssuingInv
<1> SUFFICES ASSUME IssuingInit PROVE IssuingInv
  OBVIOUS
<1> USE DEF IssuingInit
<1>1. /\ {MaxAttempts, MaxJournals} \subseteq Nat /\ NoClerk \notin Clerks
      /\ CreditUnits \in Nat
  BY IssuingAssumption DEF IssuingAssumption
<1>2. 0 \in 0..MaxAttempts /\ 0 \in 0..MaxJournals
  BY <1>1
<1>3. /\ IsFiniteSet({}) /\ Cardinality({}) = 0
  BY FS_EmptySet
<1>4. \A c \in Clerks : clerk[c] = Waiting /\ ~AtWork(c) /\ clerk[c].step = "idle"
  BY WaitingIs DEF AtWork
<1>5. IssuingTyped /\ JournalsTyped
  BY <1>2, <1>3, WaitingIs DEF IssuingTyped, JournalsTyped
<1>6. RowsDrawn /\ OneAttempt /\ LockHeld /\ InTransaction /\ FilesHeld /\ DocsHaveFiles
      /\ RemovesNoDocument /\ OneName
  BY <1>1, <1>4
  DEF RowsDrawn, OneAttempt, LockHeld, InTransaction, FilesHeld, DocsHaveFiles,
      RemovesNoDocument, OneName
<1>7. Numbering
  <2>1. \A s \in Series : OfSeries(s) = {} /\ numberOf[s] = 0
    BY DEF OfSeries
  <2>2. 1 .. 0 = {}
    OBVIOUS
  <2> QED BY <1>3, <2>1, <2>2 DEF Numbering
<1>8. CreditsFit
  <2>1. \A n \in Nat : {d \in issuedDocs : d.type = "credit" /\ d.of = n} = {}
    OBVIOUS
  <2> QED BY <1>1, <1>3, <2>1 DEF CreditsFit, Credited
<1>9. NoLitter
  BY DEF NoLitter
<1> QED BY <1>5, <1>6, <1>7, <1>8, <1>9 DEF IssuingInv, IssuingHolds

(* In every state: who is in a transaction has the next number of its       *)
(* series or a number of its own that no document has, what an attempt has  *)
(* published is its own, and what is removed is no document's               *)
(* (issued-invoices.ts, credit-notes.ts).                                   *)
THEOREM IssuingInvariant == IssuingSpec => []IssuingInv
<1>1. IssuingInit => IssuingInv
  BY IssuingStart
<1>2. IssuingInv /\ [IssuingNext]_issuingVars => IssuingInv'
  BY IssuingStep
<1> QED BY <1>1, <1>2, PTL DEF IssuingSpec

LEMMA InvImpliesStands ==
  ASSUME IssuingInv
  PROVE  IssuedStands
<1>1. \A s \in Series :
       LET drawn == {d \in issuedDocs : d.type = s /\ Drawn(d)}
       IN /\ {d.no : d \in drawn} = 1..numberOf[s]
          /\ Cardinality(drawn) = numberOf[s]
  BY DEF IssuingInv, IssuingHolds, Numbering, OfSeries
<1>10. \A d, e \in issuedDocs : SameName(d, e) => d = e
  BY DEF IssuingInv, IssuingHolds, OneName
<1>2. \A d \in issuedDocs : \A i \in DOMAIN Kinds(d.type) :
       issuedFiles[Path(d, i)] = d.attempt
  BY DEF IssuingInv, IssuingHolds, DocsHaveFiles
<1>3. \A d \in IssuedInvoiceDocs : Credited(d.no) <= CreditUnits
  <2>1. \A d \in issuedDocs : d.no \in Nat
    BY DEF IssuingInv, IssuingTyped, Docs, Numbers
  <2> QED BY <2>1 DEF IssuedInvoiceDocs, IssuingInv, IssuingHolds, CreditsFit
<1>4. ASSUME deaths = 0, ~unread, \A c \in Clerks : clerk[c].row = NoRow
      PROVE  \A p \in Paths :
               issuedFiles[p] = 0 \/ \E d \in issuedDocs : d.attempt = issuedFiles[p]
  <2>1. NoRow \notin Docs
    BY DEF NoRow, Docs, Series
  <2>2. \A c \in Clerks : ~AtWork(c)
    BY <1>4, <2>1 DEF IssuingInv, IssuingHolds, RowsDrawn, Row
  <2> QED BY <1>4, <2>2 DEF IssuingInv, IssuingHolds, NoLitter, Keeps
<1> QED BY <1>1, <1>10, <1>2, <1>3, <1>4 DEF IssuedStands

(* The numbers drawn are 1, 2, 3, ... whatever names credit notes are given *)
(* by hand, and no two documents have one name; documents have the files    *)
(* written with them, credit no more than was invoiced and leave no file    *)
(* behind unless someone died or could not look; and an invoice is booked   *)
(* once, for good, and never on top of a journal that stands for it         *)
(* (issued-invoices.ts, invoice-booking.ts,                                 *)
(* invoice-legacy-repair-evidence.ts, credit-notes.ts).                     *)
THEOREM IssuedAndBookedOnce == IssuingSpec => InvoicesStand
<1>1. IssuingInit => IssuingInv
  BY IssuingStart
<1>2. IssuingInv /\ [IssuingNext]_issuingVars => IssuingInv'
  BY IssuingStep
<1>3. IssuingInv => IssuedStands
  BY InvImpliesStands
<1>4. IssuingInv /\ [IssuingNext]_issuingVars
        => [\A n \in Numbers :
              /\ posting[n] # 0 => posting'[n] = posting[n]
              /\ posting[n] = 0 /\ posting'[n] # 0 => Unlinked(n)' = {}]_issuingVars
  BY IssuingStep DEF PostsCleanly
<1> QED BY <1>1, <1>2, <1>3, <1>4, PTL DEF IssuingSpec, InvoicesStand, BookedCleanly

(* Documents, files, clerks and journals have their types.                  *)
THEOREM IssuingTypes == IssuingSpec => []IssuingTypeOK
<1>1. IssuingInv => IssuingTypeOK
  <2> SUFFICES ASSUME IssuingTyped, JournalsTyped PROVE IssuingTypeOK
    BY DEF IssuingInv
  <2>1. \A d \in issuedDocs : d.type \in Series /\ d.no \in Numbers
    BY DEF IssuingTyped, Docs
  <2>2. \A c \in Clerks : clerk[c].step \in {"idle", "publish", "look", "remove", "book"}
    BY DEF IssuingTyped, ClerkRecords, ClerkSteps
  <2> QED BY <2>1, <2>2 DEF IssuingTyped, JournalsTyped, IssuingTypeOK
<1> QED BY <1>1, IssuingInvariant, PTL

-----------------------------------------------------------------------------
(***************************************************************************)
(* Data protection: what was erased stays redacted.  An erasure writes its *)
(* tombstone under many keys, because later requests may find the row in   *)
(* another way; of these keys one can never be lost: the row's own key for *)
(* a master row, whose identity may change, and for a side of a document   *)
(* without a CVR number; the CVR number for a side that has one, which a   *)
(* request by name reaches only if that name stands for one identity; and  *)
(* the identity a bank text mentions.  What a request has resolved holds   *)
(* that key for every row it has found, and still does when the request    *)
(* comes to write.                                                         *)
(***************************************************************************)

Sides == Papers \X {"sender", "recipient"}

(* The key that every later report of an erased row looks for.              *)
LastingKey(P, x) ==
  IF x \in Texts
  THEN IF Mentions[x] \in Cvrs THEN <<"cvr", Mentions[x]>> ELSE <<"name", Mentions[x]>>
  ELSE IF x \in Masters \/ P[x].cvr = Unknown THEN <<"row", x>>
  ELSE <<"cvr", P[x].cvr>>

Lasting(P, E, X) == \A x \in X : <<LastingKey(P, x), RowAt(x)>> \in E

(* The rows and texts that were resolved, with their keys.                  *)
AskedHolds(P, a) ==
  /\ a.rows \subseteq OnRecord(P)
  /\ \A x \in a.rows : LastingKey(P, x) \in a.tombstones
  /\ \A b \in Texts : Mentions[b] \in a.terms => LastingKey(P, b) \in a.tombstones

ErasureInv ==
  /\ DataProtectionTypeOK
  /\ IsFiniteSet(OnRecord(parties))
  /\ \A d \in Papers : parties[<<d, "sender">>] = Nobody => parties[<<d, "recipient">>] = Nobody
  /\ erased \subseteq OnRecord(parties) \union texts
  /\ Lasting(parties, erasures, erased)
  /\ AskedHolds(parties, asked)

LEMMA PlacesTyped ==
  ASSUME DataProtectionAssumption
  PROVE  /\ Places = Masters \union Sides
         /\ \A x \in Places : x \notin Texts /\ RowAt(x) = RowOf(x)
         /\ \A x \in Places : x \notin Masters => x \in Sides /\ x[1] \in Papers /\ RowOf(x) = x[1]
         /\ \A b \in Texts : RowAt(b) = b /\ Mentions[b] \in Names \union Cvrs
                             /\ Mentions[b] # Unknown
BY DEF DataProtectionAssumption, Places, Sides, RowAt, RowOf

LEMMA NobodyIsUnknown ==
  /\ Nobody.name = Unknown /\ Nobody.cvr = Unknown
BY DEF Nobody

(* A party on record has a name, and its CVR number if it has one is known. *)
LEMMA PartyTyped ==
  ASSUME DataProtectionAssumption, NEW P \in [Places -> Identities \union {Nobody}],
         NEW x \in OnRecord(P)
  PROVE  /\ x \in Places /\ P[x] \in Identities /\ P[x].name \in Names
         /\ P[x].cvr \in Cvrs \union {Unknown}
BY DEF OnRecord, Identities

(* What a request resolves for a row of the subject.                        *)
LEMMA ErasureLasts ==
  ASSUME DataProtectionAssumption, NEW P \in [Places -> Identities \union {Nobody}],
         IsFiniteSet(OnRecord(P)),
         NEW s \in Subjects, Resolves(P, s),
         NEW x \in Matched(P, s) \union {b \in Texts : Mentions[b] \in Terms(P, s)}
  PROVE  LastingKey(P, x) \in TombstoneKeys(P, s)
<1>1. CASE x \in Texts
  <2>1. Mentions[x] \in SafeNames(P, s) \union ({s.cvr} \ {Unknown})
    BY <1>1, PlacesTyped DEF Terms, Matched, OnRecord
  <2>2. CASE Mentions[x] \in Cvrs
    <3>1. \A y \in Matched(P, s) : P[y].name \in Names
      BY PartyTyped DEF Matched
    <3>2. SafeNames(P, s) \subseteq Names
      BY <3>1 DEF SafeNames, Subjects
    <3>3. Mentions[x] = s.cvr /\ s.cvr # Unknown
      BY <2>1, <2>2, <3>2 DEF DataProtectionAssumption
    <3>4. CanonicalKey(P, s) = <<"cvr", Mentions[x]>>
      BY <3>3 DEF CanonicalKey
    <3> QED BY <1>1, <2>2, <3>4 DEF LastingKey, TombstoneKeys
  <2>3. CASE Mentions[x] \notin Cvrs
    <3>1. Mentions[x] \in SafeNames(P, s)
      BY <2>1, <2>3 DEF Subjects
    <3> QED BY <1>1, <2>3, <3>1 DEF LastingKey, TombstoneKeys
  <2> QED BY <2>2, <2>3
<1>2. CASE x \notin Texts
  <2>1. x \in Matched(P, s)
    BY <1>2
  <2>2. CASE x \in Masters \/ P[x].cvr = Unknown
    BY <1>2, <2>1, <2>2 DEF LastingKey, TombstoneKeys
  <2>3. CASE x \notin Masters /\ P[x].cvr # Unknown
    <3>1. LastingKey(P, x) = <<"cvr", P[x].cvr>>
      BY <1>2, <2>3 DEF LastingKey
    <3>2. CASE s.cvr # Unknown
      <4>1. P[x].cvr = s.cvr
        BY <2>1, <3>2 DEF Matched
      <4> QED BY <3>1, <3>2, <4>1 DEF TombstoneKeys, CanonicalKey
    <3>3. CASE s.cvr = Unknown
      <4>1. PICK ids : ids = {IdentityAt(P, y) : y \in Matched(P, s)}
        OBVIOUS
      <4>2. IdentityAt(P, x) \in ids /\ IdentityAt(P, x) = <<"cvr", P[x].cvr>>
        BY <2>1, <2>3, <4>1 DEF IdentityAt
      <4>3. ids = {IdentityAt(P, x)} /\ Cardinality(ids) = 1
        <5>1. IsFiniteSet(Matched(P, s))
          <6>1. Matched(P, s) \in SUBSET OnRecord(P)
            BY DEF Matched
          <6> QED BY <6>1, FS_Subset
        <5>2. PICK f : f = [y \in Matched(P, s) |-> IdentityAt(P, y)]
          OBVIOUS
        <5>3. f \in Surjection(Matched(P, s), ids)
          BY <4>1, <5>2 DEF Surjection
        <5>4. IsFiniteSet(ids)
          BY <5>1, <5>3, FS_Surjection
        <5>5. Cardinality(ids) =< 1
          BY <3>3, <4>1 DEF Resolves
        <5>6. Cardinality(ids) \in Nat /\ Cardinality(ids) # 0
          BY <4>2, <5>4, FS_CardinalityType, FS_EmptySet
        <5>7. Cardinality(ids) = 1
          BY <5>5, <5>6
        <5> QED BY <4>2, <5>4, <5>7, FS_Singleton
      <4>4. CanonicalKey(P, s) = IdentityAt(P, x)
        <5>1. CanonicalKey(P, s) = CHOOSE id \in ids : TRUE
          BY <3>3, <4>1, <4>3 DEF CanonicalKey
        <5>2. (CHOOSE id \in ids : TRUE) \in ids
          BY <4>3
        <5> QED BY <4>3, <5>1, <5>2
      <4> QED BY <3>1, <4>2, <4>4 DEF TombstoneKeys
    <3> QED BY <3>2, <3>3
  <2> QED BY <2>2, <2>3
<1> QED BY <1>1, <1>2

-----------------------------------------------------------------------------
(* Tombstones are only ever added.                                          *)
LEMMA TombstonesGrow ==
  ASSUME NEW P, NEW T, NEW E
  PROVE  /\ \A s, keys : E \subseteq Strengthened(P, T, E, s, keys)
         /\ \A party : E \subseteq Bound(P, T, E, party)
<1>1. \A s, keys : E \subseteq Strengthened(P, T, E, s, keys)
  BY DEF Strengthened
<1> QED BY <1>1 DEF Bound

LEMMA ErasureStart ==
  ASSUME DataProtectionAssumption, DataProtectionInit
  PROVE  ErasureInv
<1>1. DataProtectionTypeOK
  BY DEF DataProtectionTypeOK, DataProtectionInit, DataProtectionAssumption, NoRequest
<1>2. OnRecord(parties) = {} /\ erased = {}
  BY DEF OnRecord, DataProtectionInit
<1>3. \A d \in Papers : <<d, "sender">> \in Places /\ <<d, "recipient">> \in Places
  BY DEF Places
<1>4. \A d \in Papers : parties[<<d, "recipient">>] = Nobody
  BY <1>3 DEF DataProtectionInit
<1>5. AskedHolds(parties, asked)
  BY DEF AskedHolds, DataProtectionInit, NoRequest
<1> QED BY <1>1, <1>2, <1>4, <1>5, FS_EmptySet DEF ErasureInv, Lasting

LEMMA MasterKeeps ==
  ASSUME DataProtectionAssumption, ErasureInv,
         NEW m \in Masters, NEW party \in Identities, WriteMaster(m, party)
  PROVE  ErasureInv'
<1>1. m \in Places /\ Masters \intersect Sides = {} /\ party # Nobody /\ m \notin Texts
  <2>1. party.name \in Names
    BY DEF Identities
  <2> QED BY <2>1, NobodyIsUnknown DEF Places, Sides, DataProtectionAssumption
<1>2. parties' = [parties EXCEPT ![m] = party] /\ erasures \subseteq erasures'
      /\ UNCHANGED <<texts, retained, asked, erased, requests>>
  BY TombstonesGrow DEF WriteMaster
<1>3. parties \in [Places -> Identities \union {Nobody}]
  BY DEF ErasureInv, DataProtectionTypeOK
<1>4. parties'[m] = party /\ \A x \in Places : x # m => parties'[x] = parties[x]
  BY <1>1, <1>2, <1>3
<1>5. parties' \in [Places -> Identities \union {Nobody}]
  BY <1>2, <1>3
<1>6. OnRecord(parties') = OnRecord(parties) \union {m}
  BY <1>1, <1>4 DEF OnRecord
<1>7. DataProtectionTypeOK'
  BY <1>2, <1>5 DEF ErasureInv, DataProtectionTypeOK
<1>8. IsFiniteSet(OnRecord(parties'))
  BY <1>6, FS_AddElement DEF ErasureInv
<1>9. \A d \in Papers : parties'[<<d, "sender">>] = Nobody => parties'[<<d, "recipient">>] = Nobody
  <2>1. \A d \in Papers : /\ <<d, "sender">> \in Sides /\ <<d, "recipient">> \in Sides
    BY DEF Sides
  <2>2. \A x \in Sides : x \in Places /\ x # m
    BY <1>1 DEF Places, Sides
  <2> QED BY <1>4, <2>1, <2>2 DEF ErasureInv
<1>10. \A x \in Places \union Texts : LastingKey(parties', x) = LastingKey(parties, x)
  <2> SUFFICES ASSUME NEW x \in Places \union Texts
               PROVE  LastingKey(parties', x) = LastingKey(parties, x)
    OBVIOUS
  <2>1. x \in Texts \/ x \in Places
    OBVIOUS
  <2>2. x \in Texts \/ x \in Masters \/ parties'[x] = parties[x]
    BY <1>4, <2>1
  <2> QED BY <2>2 DEF LastingKey
<1>11. erased \subseteq Places \union Texts /\ asked.rows \subseteq Places
  BY DEF ErasureInv, DataProtectionTypeOK
<1>12. Lasting(parties', erasures', erased')
  BY <1>2, <1>10, <1>11 DEF ErasureInv, Lasting
<1>13. AskedHolds(parties', asked')
  BY <1>2, <1>6, <1>10, <1>11 DEF ErasureInv, AskedHolds
<1> QED BY <1>2, <1>6, <1>7, <1>8, <1>9, <1>12, <1>13 DEF ErasureInv

LEMMA PaperKeeps ==
  ASSUME DataProtectionAssumption, ErasureInv, NEW d \in Papers,
         NEW sender \in Identities, NEW recipient \in Identities, RecordPaper(d, sender, recipient)
  PROVE  ErasureInv'
<1>1. PICK from, to : from = <<d, "sender">> /\ to = <<d, "recipient">>
  OBVIOUS
<1>2. from \in Places /\ to \in Places /\ from # to /\ from \notin Texts /\ to \notin Texts
      /\ sender # Nobody /\ recipient # Nobody
  <2>1. sender.name \in Names /\ recipient.name \in Names
    BY DEF Identities
  <2>2. from \in Places /\ to \in Places /\ from # to
    BY <1>1 DEF Places
  <2> QED BY <2>1, <2>2, NobodyIsUnknown, PlacesTyped DEF DataProtectionAssumption
<1>3. /\ parties' = [parties EXCEPT ![from] = sender, ![to] = recipient]
      /\ erasures \subseteq erasures' /\ retained' = retained \union {d}
      /\ UNCHANGED <<texts, asked, erased, requests>> /\ parties[from] = Nobody
  <2>1. PICK P : P = parties' /\ P = [parties EXCEPT ![from] = sender, ![to] = recipient]
    BY <1>1 DEF RecordPaper
  <2>2. erasures' = Bound(P, texts, Bound(P, texts, erasures, sender), recipient)
    BY <1>1, <2>1 DEF RecordPaper
  <2>3. erasures \subseteq erasures'
    BY <2>2, TombstonesGrow
  <2> QED BY <1>1, <2>1, <2>3 DEF RecordPaper
<1>4. parties \in [Places -> Identities \union {Nobody}]
  BY DEF ErasureInv, DataProtectionTypeOK
<1>5. parties'[from] = sender /\ parties'[to] = recipient
      /\ \A x \in Places : x # from /\ x # to => parties'[x] = parties[x]
  BY <1>2, <1>3, <1>4
<1>6. parties' \in [Places -> Identities \union {Nobody}]
  BY <1>3, <1>4
<1>7. OnRecord(parties') = (OnRecord(parties) \union {from}) \union {to}
  BY <1>2, <1>5 DEF OnRecord
<1>8. DataProtectionTypeOK'
  BY <1>3, <1>6 DEF ErasureInv, DataProtectionTypeOK
<1>9. IsFiniteSet(OnRecord(parties'))
  <2>1. IsFiniteSet(OnRecord(parties) \union {from})
    BY FS_AddElement DEF ErasureInv
  <2> QED BY <1>7, <2>1, FS_AddElement
<1>10. \A c \in Papers : parties'[<<c, "sender">>] = Nobody => parties'[<<c, "recipient">>] = Nobody
  <2> SUFFICES ASSUME NEW c \in Papers, parties'[<<c, "sender">>] = Nobody
               PROVE  parties'[<<c, "recipient">>] = Nobody
    OBVIOUS
  <2>1. c # d
    BY <1>1, <1>2, <1>5
  <2>2. <<c, "sender">> \in Places /\ <<c, "recipient">> \in Places
    BY DEF Places
  <2>3. /\ <<c, "sender">> # from /\ <<c, "sender">> # to
        /\ <<c, "recipient">> # from /\ <<c, "recipient">> # to
    BY <1>1, <2>1
  <2> QED BY <1>5, <2>2, <2>3 DEF ErasureInv
<1>11. parties[to] = Nobody
  BY <1>1, <1>3 DEF ErasureInv
<1>12. \A x \in OnRecord(parties) \union Texts : LastingKey(parties', x) = LastingKey(parties, x)
  <2> SUFFICES ASSUME NEW x \in OnRecord(parties) \union Texts
               PROVE  LastingKey(parties', x) = LastingKey(parties, x)
    OBVIOUS
  <2>1. x \in Texts \/ x \in OnRecord(parties)
    OBVIOUS
  <2>2. x \in Texts \/ parties'[x] = parties[x]
    BY <1>3, <1>5, <1>11, <2>1 DEF OnRecord
  <2> QED BY <2>2 DEF LastingKey
<1>13. erased \subseteq OnRecord(parties) \union Texts
  BY DEF ErasureInv, DataProtectionTypeOK
<1>14. Lasting(parties', erasures', erased')
  BY <1>3, <1>12, <1>13 DEF ErasureInv, Lasting
<1>15. AskedHolds(parties', asked')
  BY <1>3, <1>7, <1>12 DEF ErasureInv, AskedHolds
<1> QED BY <1>3, <1>7, <1>8, <1>9, <1>10, <1>14, <1>15 DEF ErasureInv

LEMMA ResolvingKeeps ==
  ASSUME DataProtectionAssumption, ErasureInv, NEW s \in Subjects, ResolveErasure(s)
  PROVE  ErasureInv'
<1>1. /\ asked' = [subject |-> s, keys |-> ReadKeys(parties, s),
                   tombstones |-> TombstoneKeys(parties, s),
                   terms |-> Terms(parties, s), rows |-> Matched(parties, s)]
      /\ requests' = requests + 1 /\ requests < MaxRequests /\ Resolves(parties, s)
      /\ UNCHANGED <<parties, texts, retained, erasures, erased>>
  BY DEF ResolveErasure
<1>2. /\ asked'.subject = s /\ asked'.tombstones = TombstoneKeys(parties, s)
      /\ asked'.terms = Terms(parties, s) /\ asked'.rows = Matched(parties, s)
  BY <1>1
<1>3. parties \in [Places -> Identities \union {Nobody}] /\ IsFiniteSet(OnRecord(parties))
  BY DEF ErasureInv, DataProtectionTypeOK
<1>4. Matched(parties, s) \subseteq OnRecord(parties) /\ OnRecord(parties) \subseteq Places
  BY DEF Matched, OnRecord
<1>5. \A x \in Matched(parties, s) \union {b \in Texts : Mentions[b] \in Terms(parties, s)} :
        LastingKey(parties, x) \in TombstoneKeys(parties, s)
  BY <1>1, <1>3, ErasureLasts
<1>6. AskedHolds(parties, asked')
  BY <1>2, <1>4, <1>5 DEF AskedHolds
<1>7. requests' \in 0 .. MaxRequests
  BY <1>1 DEF ErasureInv, DataProtectionTypeOK, DataProtectionAssumption
<1>8. DataProtectionTypeOK'
  BY <1>1, <1>2, <1>4, <1>7 DEF ErasureInv, DataProtectionTypeOK
<1> QED BY <1>1, <1>6, <1>8 DEF ErasureInv

LEMMA ErasingKeeps ==
  ASSUME DataProtectionAssumption, ErasureInv, EraseSubject
  PROVE  ErasureInv'
<1>1. PICK own, granted, more :
        /\ own = OwnRows(parties, texts, asked.subject, asked.terms)
        /\ granted = {x \in own : Redacted(erasures, asked.keys, x) \/ ~Kept(own, x)}
        /\ more = granted \intersect (asked.rows \union Texts)
  OBVIOUS
<1>2. /\ erasures' = erasures \union {<<k, RowAt(x)>> : k \in asked.tombstones, x \in granted}
      /\ erased' = erased \union more /\ asked' = NoRequest
      /\ UNCHANGED <<parties, texts, retained, requests>>
  BY <1>1 DEF EraseSubject
<1>3. own \subseteq OnRecord(parties) \union {b \in texts : Mentions[b] \in asked.terms}
  BY <1>1 DEF OwnRows, Matched
<1>4. /\ texts \subseteq Texts /\ OnRecord(parties) \subseteq Places
      /\ AskedHolds(parties, asked) /\ \A x \in Places : x \notin Texts
  BY PlacesTyped DEF ErasureInv, DataProtectionTypeOK, OnRecord
<1>5. more \subseteq OnRecord(parties) \union texts /\ more \subseteq granted
  BY <1>1, <1>3
<1>6. ASSUME NEW x \in more PROVE LastingKey(parties, x) \in asked.tombstones
  <2>1. CASE x \in asked.rows
    BY <1>4, <2>1 DEF AskedHolds
  <2>2. CASE x \in Texts
    <3>1. x \in own /\ x \notin OnRecord(parties)
      BY <1>1, <1>4, <1>6, <2>2
    <3>2. Mentions[x] \in asked.terms
      BY <1>3, <3>1
    <3> QED BY <1>4, <2>2, <3>2 DEF AskedHolds
  <2> QED BY <1>1, <1>6, <2>1, <2>2
<1>7. Lasting(parties', erasures', erased')
  BY <1>2, <1>5, <1>6 DEF ErasureInv, Lasting
<1>8. AskedHolds(parties', asked')
  BY <1>2 DEF AskedHolds, NoRequest
<1>9. DataProtectionTypeOK'
  BY <1>2, <1>4, <1>5 DEF ErasureInv, DataProtectionTypeOK, NoRequest
<1> QED BY <1>2, <1>5, <1>7, <1>8, <1>9 DEF ErasureInv

LEMMA ErasureStep ==
  ASSUME DataProtectionAssumption, ErasureInv, [DataProtectionNext]_dataProtectionVars
  PROVE  ErasureInv'
<1>1. ASSUME UNCHANGED <<parties, asked, erased, requests>>, texts \subseteq texts',
             texts' \subseteq Texts, retained' \subseteq Papers \union texts',
             erasures \subseteq erasures'
      PROVE  ErasureInv'
  <2>1. DataProtectionTypeOK'
    BY <1>1 DEF ErasureInv, DataProtectionTypeOK
  <2>2. Lasting(parties', erasures', erased')
    BY <1>1 DEF ErasureInv, Lasting
  <2> QED BY <1>1, <2>1, <2>2 DEF ErasureInv
<1>2. ASSUME NEW b \in Texts, ImportText(b) PROVE ErasureInv'
  BY <1>1, <1>2 DEF ImportText, ErasureInv, DataProtectionTypeOK
<1>3. ASSUME NEW r, RetentionEnds(r) PROVE ErasureInv'
  BY <1>1, <1>3 DEF RetentionEnds, ErasureInv, DataProtectionTypeOK
<1>4. ASSUME NEW s \in Subjects, Report(s) PROVE ErasureInv'
  <2>1. erasures \subseteq erasures'
    BY <1>4, TombstonesGrow DEF Report
  <2> QED BY <1>1, <1>4, <2>1 DEF Report, ErasureInv, DataProtectionTypeOK
<1>5. CASE UNCHANGED dataProtectionVars
  BY <1>1, <1>5 DEF dataProtectionVars, ErasureInv, DataProtectionTypeOK
<1> QED BY <1>2, <1>3, <1>4, <1>5, MasterKeeps, PaperKeeps, ResolvingKeeps, ErasingKeeps DEF DataProtectionNext

(* Every row that was erased has its tombstone under a key that no change   *)
(* of master data takes away (eraseGdprSubject).                            *)
THEOREM ErasureInvariant == DataProtectionSpec => []ErasureInv
<1>1. DataProtectionInit => ErasureInv
  BY DataProtectionAssumption, ErasureStart
<1>2. ErasureInv /\ [DataProtectionNext]_dataProtectionVars => ErasureInv'
  BY DataProtectionAssumption, ErasureStep
<1> QED BY <1>1, <1>2, PTL DEF DataProtectionSpec

(* Types: parties at places, tombstones for rows there are.                 *)
THEOREM ErasureTypes == DataProtectionSpec => []DataProtectionTypeOK
<1>1. ErasureInv => DataProtectionTypeOK
  BY DEF ErasureInv
<1> QED BY <1>1, ErasureInvariant, PTL

(* What was erased stays redacted in every later report that shows it,      *)
(* whatever the subject is called by then (eraseGdprSubject, loadErasures). *)
THEOREM ErasureIsForGood == DataProtectionSpec => []ErasedStaysErased
<1>1. ErasureInv => ErasedStaysErased
  <2> SUFFICES ASSUME ErasureInv, NEW s \in Subjects, Resolves(parties, s),
                      NEW x \in erased, x \in Own(parties, texts, s)
               PROVE  Redacted(erasures, ReadKeys(parties, s), x)
    BY DEF ErasedStaysErased
  <2>1. LastingKey(parties, x) \in ReadKeys(parties, s)
    <3>1. parties \in [Places -> Identities \union {Nobody}] /\ texts \in SUBSET Texts
          /\ IsFiniteSet(OnRecord(parties))
      BY DEF ErasureInv, DataProtectionTypeOK
    <3>2. x \in Matched(parties, s) \union {b \in Texts : Mentions[b] \in Terms(parties, s)}
      BY <3>1 DEF Own, OwnRows
    <3>3. LastingKey(parties, x) \in TombstoneKeys(parties, s)
      BY <3>1, <3>2, DataProtectionAssumption, ErasureLasts
    <3> QED BY <3>3 DEF ReadKeys
  <2>2. <<LastingKey(parties, x), RowAt(x)>> \in erasures
    BY DEF ErasureInv, Lasting
  <2> QED BY <2>1, <2>2 DEF Redacted
<1> QED BY <1>1, ErasureInvariant, PTL

-----------------------------------------------------------------------------
(* The register as a whole: what happens to it, side by side.                 *)

(* A behaviour of the register as a whole is, seen through the variables of  *)
(* one component, a behaviour of that component: its own step, or none.     *)
LEMMA RegisterRunsItsParts ==
  RegisterSpec =>
    /\ SchemaSpec
    /\ IssuingSpec
    /\ VatSpec
    /\ ImportSpec
    /\ DataProtectionSpec
<1>1. RegisterSpec => SchemaSpec
  <2>1. RegisterInit => SchemaInit
    BY DEF RegisterInit
  <2>2. [RegisterNext]_registerVars => [SchemaNext]_schemaVars
    BY DEF RegisterNext, registerVars
  <2> QED BY <2>1, <2>2, PTL DEF RegisterSpec, SchemaSpec
<1>2. RegisterSpec => IssuingSpec
  <2>1. RegisterInit => IssuingInit
    BY DEF RegisterInit
  <2>2. [RegisterNext]_registerVars => [IssuingNext]_issuingVars
    BY DEF RegisterNext, registerVars
  <2> QED BY <2>1, <2>2, PTL DEF RegisterSpec, IssuingSpec
<1>3. RegisterSpec => VatSpec
  <2>1. RegisterInit => VatInit
    BY DEF RegisterInit
  <2>2. [RegisterNext]_registerVars => [VatNext]_vatVars
    BY DEF RegisterNext, registerVars
  <2> QED BY <2>1, <2>2, PTL DEF RegisterSpec, VatSpec
<1>4. RegisterSpec => ImportSpec
  <2>1. RegisterInit => ImportInit
    BY DEF RegisterInit
  <2>2. [RegisterNext]_registerVars => [ImportNext]_importVars
    BY DEF RegisterNext, registerVars
  <2> QED BY <2>1, <2>2, PTL DEF RegisterSpec, ImportSpec
<1>5. RegisterSpec => DataProtectionSpec
  <2>1. RegisterInit => DataProtectionInit
    BY DEF RegisterInit
  <2>2. [RegisterNext]_registerVars => [DataProtectionNext]_dataProtectionVars
    BY DEF RegisterNext, registerVars
  <2> QED BY <2>1, <2>2, PTL DEF RegisterSpec, DataProtectionSpec
<1> QED BY <1>1, <1>2, <1>3, <1>4, <1>5

(* Every component's tables have their types in every state of the whole.   *)
THEOREM RegisterTypes == RegisterSpec => []RegisterTypeOK
<1>1. /\ SchemaTypeOK
      /\ IssuingTypeOK
      /\ VatTypeOK
      /\ ImportTypeOK
      /\ DataProtectionTypeOK
      => RegisterTypeOK
  BY DEF RegisterTypeOK
<1> QED
  BY <1>1, RegisterRunsItsParts, SchemaTypes, IssuingTypes, VatTypes,
     ImportTypes, ErasureTypes, PTL

(* What the register promises whatever happens to it: its schema is its     *)
(* history, its documents and returns stand, its history is imported whole  *)
(* and the people erased from it stay erased.                               *)
THEOREM RegisterStands ==
  RegisterSpec =>
    /\ []SchemaStands
    /\ InvoicesStand
    /\ []OnlySharesStopReturns
    /\ DeclaredOnce
    /\ []CutoverStands
    /\ []ErasedStaysErased
<1> QED
  BY RegisterRunsItsParts, SchemaIsItsHistory, IssuedAndBookedOnce,
     RoundingNeverStops, VatIsDeclaredOnce, CutoverIsWhole,
     ErasureIsForGood, PTL
=============================================================================
