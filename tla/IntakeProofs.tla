---------------------------- MODULE IntakeProofs ----------------------------
(***************************************************************************)
(* DocumentIntake, for any firms, contents, mails, sources and writers.  A *)
(* file belongs to the one writer that published it until its row is there *)
(* or the file is gone, so nobody removes a file a row names; and the row  *)
(* of a source is found by its content before a second one is written.     *)
(***************************************************************************)
EXTENDS DocumentIntake, TLAPS, FiniteSetTheorems

Origins == Mails \union Sources \union {Upload}

DocumentRecords == [content : Contents, origin : Origins]

WriterRecords ==
  [at : {"idle", "find", "ingest", "publish", "register", "clean", "remove", "answer"},
   firm : Firms, content : Contents, origin : Origins, ok : BOOLEAN]

AssignmentRecords ==
  [firm : Firms \union {NoFirm}, state : {"none", "approved", "completed"},
   document : SUBSET DocumentRecords]

HandoffRecords ==
  [state : {"none", "claimed", "completed"}, by : Writers \union {NoFirm}, expired : BOOLEAN]

IntakeTyped ==
  /\ files \in [Firms -> SUBSET Contents]
  /\ documents \in [Firms -> SUBSET DocumentRecords]
  /\ writer \in [Writers -> WriterRecords \union {AtRest}]
  /\ seen \subseteq Mails /\ mailQueue \subseteq Mails /\ handled \subseteq Mails
  /\ assignment \in [Sources -> AssignmentRecords]
  /\ handoff \in [Sources -> HandoffRecords]

Busy == {"find", "ingest", "publish", "register", "clean", "remove", "answer"}

Owns(w) == writer[w].at \in {"register", "clean", "remove"}

(* A published file without a row has one owner, which is not resting.      *)
FilesOwned ==
  /\ DocumentsHaveFiles
  /\ \A w \in Writers : Owns(w) => writer[w].content \in files[writer[w].firm]
  /\ \A w \in Writers : Owns(w) => ~Registered(writer[w].firm, writer[w].content)
  /\ \A v, w \in Writers :
       /\ Owns(v) /\ Owns(w)
       /\ writer[v].firm = writer[w].firm /\ writer[v].content = writer[w].content
       => v = w

(* Whom a busy writer works for, and what its answer rests on.              *)
JobWorks(j) ==
  /\ j.origin \in Mails => j.firm = MailOf[j.origin].firm /\ j.content = MailOf[j.origin].content
  /\ j.origin \in Sources =>
       /\ j.content = SourceOf[j.origin]
       /\ assignment[j.origin].state # "none" /\ j.firm = assignment[j.origin].firm
  /\ j.at = "find" => j.origin \in Sources
  /\ j.at = "answer" /\ j.ok =>
       \E d \in documents[j.firm] : d.content = j.content /\ d.origin = j.origin

WritersWork == \A w \in Writers : writer[w].at # "idle" => JobWorks(writer[w])

(* One row for a content; the row of a source has its content and firm.     *)
RowsUnique ==
  /\ \A f \in Firms : \A d, e \in documents[f] : d.content = e.content => d = e
  /\ \A f \in Firms : \A d \in documents[f] : d.origin \in Sources =>
       /\ d.content = SourceOf[d.origin]
       /\ assignment[d.origin].state # "none" /\ f = assignment[d.origin].firm

ApprovedHasFirm ==
  \A s \in Sources : assignment[s].state # "none" => assignment[s].firm \in Firms

CompletedNamesRow ==
  \A s \in Sources : assignment[s].state = "completed" =>
    /\ assignment[s].document # {}
    /\ assignment[s].document = {d \in documents[assignment[s].firm] : d.origin = s}

IntakeInv ==
  /\ IntakeTyped /\ FilesOwned /\ WritersWork /\ RowsUnique /\ ApprovedHasFirm
  /\ CompletedNamesRow /\ MailAccounted

-----------------------------------------------------------------------------

LEMMA WriterFields ==
  ASSUME NEW j \in WriterRecords
  PROVE  /\ j.at \in Busy \union {"idle"} /\ j.firm \in Firms /\ j.content \in Contents
         /\ j.origin \in Origins /\ j.ok \in BOOLEAN
BY DEF WriterRecords, Busy

LEMMA WriterAt ==
  ASSUME NEW i \in WriterRecords, NEW p \in Busy, NEW j, j = [i EXCEPT !.at = p]
  PROVE  /\ j \in WriterRecords /\ j.at = p /\ j.firm = i.firm /\ j.content = i.content
         /\ j.origin = i.origin /\ j.ok = i.ok
BY DEF WriterRecords, Busy

LEMMA RestingIsIdle == AtRest.at = "idle"
BY DEF AtRest

(* A busy writer has a firm, a content and an origin.                       *)
LEMMA BusyIsTyped ==
  ASSUME IntakeTyped, NEW w \in Writers, writer[w].at # "idle"
  PROVE  writer[w] \in WriterRecords
BY RestingIsIdle DEF IntakeTyped

(* A step in which one writer moves to j and owns nothing, while the rows   *)
(* and files stay.                                                          *)
Moves(w, j) ==
  /\ writer' = [writer EXCEPT ![w] = j]
  /\ UNCHANGED <<files, documents>>

LEMMA MoveKeepsFiles ==
  ASSUME IntakeTyped, FilesOwned, NEW w \in Writers, NEW j, Moves(w, j),
         j.at \in {"register", "clean", "remove"} =>
           /\ Owns(w) /\ j.firm = writer[w].firm /\ j.content = writer[w].content
  PROVE  FilesOwned'
<1>1. \A v \in Writers : v # w => writer'[v] = writer[v]
  BY DEF Moves, IntakeTyped
<1>2. writer'[w] = j
  BY DEF Moves, IntakeTyped
<1>3. \A v \in Writers : Owns(v)' =>
        /\ Owns(v) /\ writer'[v].firm = writer[v].firm
        /\ writer'[v].content = writer[v].content
  BY <1>1, <1>2 DEF Owns
<1>4. \A f, b : Registered(f, b)' <=> Registered(f, b)
  BY DEF Moves, Registered
<1>5. DocumentsHaveFiles'
  BY DEF Moves, FilesOwned, DocumentsHaveFiles
<1>6. \A v \in Writers : Owns(v)' => writer'[v].content \in files'[writer'[v].firm]
  BY <1>3 DEF Moves, FilesOwned
<1>7. \A v \in Writers : Owns(v)' => ~Registered(writer[v].firm, writer[v].content)'
  <2> SUFFICES ASSUME NEW v \in Writers, Owns(v)'
               PROVE  ~Registered(writer[v].firm, writer[v].content)'
    OBVIOUS
  <2>1. PICK f, b : f = writer'[v].firm /\ b = writer'[v].content
    OBVIOUS
  <2>2. ~Registered(f, b)
    BY <1>3, <2>1 DEF FilesOwned
  <2> QED BY <1>4, <2>1, <2>2 DEF Registered
<1>8. \A u, v \in Writers :
        /\ Owns(u)' /\ Owns(v)'
        /\ writer'[u].firm = writer'[v].firm /\ writer'[u].content = writer'[v].content
        => u = v
  BY <1>3 DEF FilesOwned
<1> QED BY <1>5, <1>6, <1>7, <1>8 DEF FilesOwned

(* An approved assignment keeps its firm.                                   *)
AssignmentsKept ==
  /\ assignment' \in [Sources -> AssignmentRecords]
  /\ \A s \in Sources : assignment[s].state # "none" =>
       assignment'[s].state # "none" /\ assignment'[s].firm = assignment[s].firm
  /\ ApprovedHasFirm'

LEMMA AssignmentStays ==
  ASSUME IntakeTyped, ApprovedHasFirm, UNCHANGED assignment
  PROVE  AssignmentsKept
BY DEF IntakeTyped, ApprovedHasFirm, AssignmentsKept

LEMMA CompletedStays ==
  ASSUME CompletedNamesRow, UNCHANGED <<documents, assignment>>
  PROVE  CompletedNamesRow'
BY DEF CompletedNamesRow

LEMMA RowsStay ==
  ASSUME RowsUnique, AssignmentsKept, UNCHANGED documents
  PROVE  /\ RowsUnique'
         /\ \A j : JobWorks(j) => JobWorks(j)'
BY DEF RowsUnique, AssignmentsKept, JobWorks

LEMMA AccountedStays ==
  ASSUME MailAccounted, UNCHANGED documents, UNCHANGED <<mailQueue, handled>>
  PROVE  MailAccounted'
BY DEF MailAccounted, Registered

(* A step of one writer that touches neither files nor rows.                *)
LEMMA MoveKeeps ==
  ASSUME IntakeInv, NEW w \in Writers, NEW j \in WriterRecords \union {AtRest}, Moves(w, j),
         j.at # "idle" => JobWorks(j),
         j.at \in {"register", "clean", "remove"} =>
           Owns(w) /\ j.firm = writer[w].firm /\ j.content = writer[w].content,
         seen' \subseteq Mails, mailQueue' \subseteq Mails, handled' \subseteq Mails,
         AssignmentsKept, handoff' \in [Sources -> HandoffRecords],
         CompletedNamesRow', MailAccounted'
  PROVE  IntakeInv'
<1> USE DEF IntakeInv
<1>1. IntakeTyped'
  BY DEF IntakeTyped, Moves, AssignmentsKept
<1>2. FilesOwned'
  BY MoveKeepsFiles
<1>3. RowsUnique' /\ \A k : JobWorks(k) => JobWorks(k)'
  BY RowsStay DEF Moves
<1>4. WritersWork'
  <2> SUFFICES ASSUME NEW v \in Writers, NEW k, k = writer'[v], k.at # "idle"
               PROVE  JobWorks(k)'
    BY DEF WritersWork, JobWorks
  <2>1. CASE v = w
    BY <1>3, <2>1 DEF Moves, IntakeTyped
  <2>2. CASE v # w
    <3>1. k = writer[v]
      BY <2>2 DEF Moves, IntakeTyped
    <3> QED BY <1>3, <3>1 DEF WritersWork
  <2> QED BY <2>1, <2>2
<1>5. ApprovedHasFirm'
  BY DEF AssignmentsKept
<1> QED BY <1>1, <1>2, <1>3, <1>4, <1>5

(* Goto and Answer, seen as such steps.                                     *)
LEMMA GotoMoves ==
  ASSUME IntakeInv, NEW w \in Writers, writer[w].at # "idle", NEW p \in Busy \ {"find"},
         Goto(w, p)
  PROVE  \E j \in WriterRecords :
           /\ writer' = [writer EXCEPT ![w] = j]
           /\ j.at = p /\ j.firm = writer[w].firm /\ j.content = writer[w].content
           /\ j.origin = writer[w].origin /\ j.ok = writer[w].ok
           /\ p # "answer" => JobWorks(j)
<1>1. PICK i \in WriterRecords : i = writer[w]
  BY BusyIsTyped DEF IntakeInv
<1>2. PICK j : j = [i EXCEPT !.at = p]
  OBVIOUS
<1>3. /\ j \in WriterRecords /\ j.at = p /\ j.firm = i.firm /\ j.content = i.content
      /\ j.origin = i.origin /\ j.ok = i.ok
  BY <1>2, WriterAt
<1>4. writer' = [writer EXCEPT ![w] = j]
  BY <1>1, <1>2 DEF Goto
<1>5. p # "answer" => JobWorks(j)
  BY <1>1, <1>3 DEF IntakeInv, WritersWork, JobWorks
<1> QED BY <1>1, <1>3, <1>4, <1>5

LEMMA AnswerMoves ==
  ASSUME IntakeInv, NEW w \in Writers, writer[w].at # "idle", NEW good \in BOOLEAN,
         Answer(w, good)
  PROVE  \E j \in WriterRecords :
           /\ writer' = [writer EXCEPT ![w] = j]
           /\ j.at = "answer" /\ j.firm = writer[w].firm /\ j.content = writer[w].content
           /\ j.origin = writer[w].origin /\ j.ok = good
           /\ ~good => JobWorks(j)
<1>1. PICK i \in WriterRecords : i = writer[w]
  BY BusyIsTyped DEF IntakeInv
<1>2. PICK k, j : k = [i EXCEPT !.at = "answer"] /\ j = [k EXCEPT !.ok = good]
  OBVIOUS
<1>3. /\ j \in WriterRecords /\ j.at = "answer" /\ j.firm = i.firm /\ j.content = i.content
      /\ j.origin = i.origin /\ j.ok = good
  <2>1. /\ k \in WriterRecords /\ k.at = "answer" /\ k.firm = i.firm
        /\ k.content = i.content /\ k.origin = i.origin
    BY <1>2, WriterAt DEF Busy
  <2>2. /\ j \in WriterRecords /\ j.at = k.at /\ j.firm = k.firm /\ j.content = k.content
        /\ j.origin = k.origin /\ j.ok = good
    BY <1>2, <2>1 DEF WriterRecords
  <2> QED BY <2>1, <2>2
<1>4. writer' = [writer EXCEPT ![w] = j]
  BY <1>1, <1>2 DEF Answer, IntakeInv, IntakeTyped
<1>5. ~good => JobWorks(j)
  BY <1>1, <1>3 DEF IntakeInv, WritersWork, JobWorks
<1> QED BY <1>1, <1>3, <1>4, <1>5

(* The steps that touch neither files, rows, assignments nor registers.     *)
LEMMA PlainMoveKeeps ==
  ASSUME IntakeInv, NEW w \in Writers, NEW j \in WriterRecords \union {AtRest},
         writer' = [writer EXCEPT ![w] = j], j.at # "idle" => JobWorks(j),
         j.at \in {"register", "clean", "remove"} =>
           Owns(w) /\ j.firm = writer[w].firm /\ j.content = writer[w].content,
         UNCHANGED <<files, documents, seen, mailQueue, handled, assignment>>,
         handoff' \in [Sources -> HandoffRecords]
  PROVE  IntakeInv'
<1>1. AssignmentsKept
  BY AssignmentStays DEF IntakeInv
<1>2. CompletedNamesRow'
  BY CompletedStays DEF IntakeInv
<1>3. MailAccounted'
  BY AccountedStays DEF IntakeInv
<1>4. seen' \subseteq Mails /\ mailQueue' \subseteq Mails /\ handled' \subseteq Mails
  BY DEF IntakeInv, IntakeTyped
<1> QED BY <1>1, <1>2, <1>3, <1>4, MoveKeeps DEF Moves

LEMMA IngestMovesKeep ==
  ASSUME DocumentIntakeAssumption, IntakeInv, NEW w \in Writers,
         \/ \E force \in BOOLEAN : LookForDuplicates(w, force)
         \/ AskRegistered(w) \/ FindMarker(w) \/ StopWriter(w) \/ AnswerUpload(w)
         \/ \E f \in Firms, b \in Contents : IngestUpload(w, f, b)
         \/ \E m \in Mails : IngestMail(w, m)
         \/ \E s \in Sources : ClaimHandoff(w, s)
  PROVE  IntakeInv'
<1>1. handoff \in [Sources -> HandoffRecords]
  BY DEF IntakeInv, IntakeTyped
<1>2. ASSUME NEW force \in BOOLEAN, LookForDuplicates(w, force) PROVE IntakeInv'
  <2>1. writer[w].at # "idle" /\ (Answer(w, FALSE) \/ Goto(w, "publish"))
        /\ UNCHANGED <<files, documents, seen, mailQueue, handled, assignment, handoff>>
    BY <1>2 DEF LookForDuplicates
  <2>2. CASE Answer(w, FALSE)
    <3>1. PICK j \in WriterRecords : writer' = [writer EXCEPT ![w] = j] /\ j.at = "answer"
                                     /\ JobWorks(j)
      BY <2>1, <2>2, AnswerMoves
    <3> QED BY <1>1, <2>1, <3>1, PlainMoveKeeps
  <2>3. CASE Goto(w, "publish")
    <3>1. PICK j \in WriterRecords : writer' = [writer EXCEPT ![w] = j] /\ j.at = "publish"
                                     /\ JobWorks(j)
      BY <2>1, <2>3, GotoMoves DEF Busy
    <3> QED BY <1>1, <2>1, <3>1, PlainMoveKeeps
  <2> QED BY <2>1, <2>2, <2>3
<1>3. CASE AskRegistered(w)
  <2>1. writer[w].at = "clean" /\ (Answer(w, FALSE) \/ Goto(w, "remove"))
        /\ UNCHANGED <<files, documents, seen, mailQueue, handled, assignment, handoff>>
    BY <1>3 DEF AskRegistered
  <2>2. CASE Answer(w, FALSE)
    <3>1. PICK j \in WriterRecords : writer' = [writer EXCEPT ![w] = j] /\ j.at = "answer"
                                     /\ JobWorks(j)
      BY <2>1, <2>2, AnswerMoves
    <3> QED BY <1>1, <2>1, <3>1, PlainMoveKeeps
  <2>3. CASE Goto(w, "remove")
    <3>1. PICK j \in WriterRecords :
            /\ writer' = [writer EXCEPT ![w] = j] /\ j.at = "remove" /\ JobWorks(j)
            /\ j.firm = writer[w].firm /\ j.content = writer[w].content
      BY <2>1, <2>3, GotoMoves DEF Busy
    <3>2. Owns(w)
      BY <2>1 DEF Owns
    <3> QED BY <1>1, <2>1, <3>1, <3>2, PlainMoveKeeps
  <2> QED BY <2>1, <2>2, <2>3
<1>4. CASE FindMarker(w)
  <2>1. /\ writer[w].at = "find"
        /\ \/ Answer(w, TRUE) /\ \E d \in documents[writer[w].firm] : d.origin = writer[w].origin
           \/ Goto(w, "ingest")
        /\ UNCHANGED <<files, documents, seen, mailQueue, handled, assignment, handoff>>
    BY <1>4 DEF FindMarker
  <2>2. CASE Answer(w, TRUE) /\ \E d \in documents[writer[w].firm] : d.origin = writer[w].origin
    <3>1. PICK j \in WriterRecords : 
            /\ writer' = [writer EXCEPT ![w] = j] /\ j.at = "answer"
            /\ j.firm = writer[w].firm /\ j.content = writer[w].content
            /\ j.origin = writer[w].origin
      BY <2>1, <2>2, AnswerMoves
    <3>2. JobWorks(j)
      <4>1. JobWorks(writer[w]) /\ writer[w] \in WriterRecords
        BY <2>1, BusyIsTyped DEF IntakeInv, WritersWork
      <4>2. PICK d \in documents[writer[w].firm] : d.origin = writer[w].origin
        BY <2>2
      <4>3. writer[w].origin \in Sources /\ writer[w].firm \in Firms
        BY <2>1, <4>1, WriterFields DEF JobWorks
      <4>4. d.content = writer[w].content
        BY <4>1, <4>2, <4>3 DEF JobWorks, IntakeInv, RowsUnique
      <4> QED BY <2>1, <3>1, <4>1, <4>2, <4>4 DEF JobWorks
    <3> QED BY <1>1, <2>1, <3>1, <3>2, PlainMoveKeeps
  <2>3. CASE Goto(w, "ingest")
    <3>1. PICK j \in WriterRecords : writer' = [writer EXCEPT ![w] = j] /\ j.at = "ingest"
                                     /\ JobWorks(j)
      BY <2>1, <2>3, GotoMoves DEF Busy
    <3> QED BY <1>1, <2>1, <3>1, PlainMoveKeeps
  <2> QED BY <2>1, <2>2, <2>3
<1>5. CASE StopWriter(w) \/ AnswerUpload(w)
  <2>1. writer' = [writer EXCEPT ![w] = AtRest]
        /\ UNCHANGED <<files, documents, seen, mailQueue, handled, assignment, handoff>>
    BY <1>5 DEF StopWriter, AnswerUpload, Done
  <2> QED BY <1>1, <2>1, RestingIsIdle, PlainMoveKeeps
<1>6. ASSUME NEW f \in Firms, NEW b \in Contents, IngestUpload(w, f, b) PROVE IntakeInv'
  <2>1. PICK j : j = [AtRest EXCEPT !.at = "ingest", !.firm = f, !.content = b]
    OBVIOUS
  <2>2. j \in WriterRecords /\ j.at = "ingest" /\ j.origin = Upload
    BY <2>1 DEF WriterRecords, Origins, AtRest
  <2>3. JobWorks(j)
    BY <2>2 DEF JobWorks, DocumentIntakeAssumption
  <2>4. writer' = [writer EXCEPT ![w] = j]
        /\ UNCHANGED <<files, documents, seen, mailQueue, handled, assignment, handoff>>
    BY <1>6, <2>1 DEF IngestUpload
  <2> QED BY <1>1, <2>2, <2>3, <2>4, PlainMoveKeeps
<1>7. ASSUME NEW m \in Mails, IngestMail(w, m) PROVE IntakeInv'
  <2>1. PICK f, b : f = MailOf[m].firm /\ b = MailOf[m].content
    OBVIOUS
  <2>2. f \in Firms /\ b \in Contents
    BY <2>1 DEF DocumentIntakeAssumption
  <2>3. PICK j : j = [AtRest EXCEPT !.at = "ingest", !.firm = f, !.content = b, !.origin = m]
    OBVIOUS
  <2>4. j \in WriterRecords /\ j.at = "ingest" /\ j.origin = m /\ j.firm = f /\ j.content = b
    BY <2>2, <2>3 DEF WriterRecords, Origins, AtRest
  <2>5. JobWorks(j)
    BY <2>1, <2>4 DEF JobWorks, DocumentIntakeAssumption
  <2>6. writer' = [writer EXCEPT ![w] = j]
        /\ UNCHANGED <<files, documents, seen, mailQueue, handled, assignment, handoff>>
    BY <1>7, <2>1, <2>3 DEF IngestMail
  <2> QED BY <1>1, <2>4, <2>5, <2>6, PlainMoveKeeps
<1>8. ASSUME NEW s \in Sources, ClaimHandoff(w, s) PROVE IntakeInv'
  <2>1. PICK f, b : f = assignment[s].firm /\ b = SourceOf[s]
    OBVIOUS
  <2>2. f \in Firms /\ b \in Contents
    <3>1. assignment[s].state = "approved"
      BY <1>8 DEF ClaimHandoff
    <3> QED BY <2>1, <3>1 DEF DocumentIntakeAssumption, IntakeInv, ApprovedHasFirm
  <2>3. PICK j : j = [AtRest EXCEPT !.at = "find", !.firm = f, !.content = b, !.origin = s]
    OBVIOUS
  <2>4. j \in WriterRecords /\ j.at = "find" /\ j.origin = s /\ j.firm = f /\ j.content = b
    BY <2>2, <2>3 DEF WriterRecords, Origins, AtRest
  <2>5. JobWorks(j)
    BY <1>8, <2>1, <2>4 DEF JobWorks, DocumentIntakeAssumption, ClaimHandoff
  <2>6. writer' = [writer EXCEPT ![w] = j]
        /\ UNCHANGED <<files, documents, seen, mailQueue, handled, assignment>>
    BY <1>8, <2>1, <2>3 DEF ClaimHandoff
  <2>7. PICK h : h = [state |-> "claimed", by |-> w, expired |-> FALSE]
    OBVIOUS
  <2>8. h \in HandoffRecords
    BY <2>7 DEF HandoffRecords
  <2>9. handoff' \in [Sources -> HandoffRecords]
    BY <1>1, <1>8, <2>7, <2>8 DEF ClaimHandoff
  <2> QED BY <2>4, <2>5, <2>6, <2>9, PlainMoveKeeps
<1> QED BY <1>2, <1>3, <1>4, <1>5, <1>6, <1>7, <1>8

-----------------------------------------------------------------------------
(* Files and rows.                                                          *)

LEMMA PublishKeeps ==
  ASSUME IntakeInv, NEW w \in Writers, Publish(w)
  PROVE  IntakeInv'
<1> USE DEF IntakeInv
<1>1. PICK f, b : f = writer[w].firm /\ b = writer[w].content
  OBVIOUS
<1>2. /\ writer[w].at = "publish" /\ writer[w] \in WriterRecords
      /\ UNCHANGED <<documents, seen, mailQueue, handled, assignment, handoff>>
  BY BusyIsTyped DEF Publish
<1>3. f \in Firms /\ b \in Contents
  BY <1>1, <1>2, WriterFields
<1>4. CASE b \in files[f]
  <2>1. Answer(w, FALSE) /\ UNCHANGED files
    BY <1>1, <1>4 DEF Publish
  <2>2. PICK j \in WriterRecords : writer' = [writer EXCEPT ![w] = j] /\ j.at = "answer"
                                   /\ JobWorks(j)
    BY <1>2, <2>1, AnswerMoves
  <2>3. handoff' \in [Sources -> HandoffRecords]
    BY <1>2 DEF IntakeTyped
  <2> QED BY <1>2, <2>1, <2>2, <2>3, PlainMoveKeeps
<1>5. CASE b \notin files[f]
  <2>1. Goto(w, "register") /\ files' = [files EXCEPT ![f] = @ \union {b}]
    BY <1>1, <1>5 DEF Publish
  <2>2. PICK j \in WriterRecords :
          /\ writer' = [writer EXCEPT ![w] = j] /\ j.at = "register" /\ JobWorks(j)
          /\ j.firm = f /\ j.content = b
    BY <1>1, <1>2, <2>1, GotoMoves DEF Busy
  <2>3. /\ \A v \in Writers : v # w => writer'[v] = writer[v]
        /\ writer'[w] = j
    BY <2>2 DEF IntakeTyped
  <2>4. \A g \in Firms : files[g] \subseteq files'[g]
    BY <2>1 DEF IntakeTyped
  <2>5. b \in files'[f]
    BY <1>3, <2>1 DEF IntakeTyped
  <2>6. \A v \in Writers : v # w /\ Owns(v) =>
          ~(writer[v].firm = f /\ writer[v].content = b)
    BY <1>5 DEF FilesOwned
  <2>7. ~Registered(f, b)
    BY <1>3, <1>5 DEF FilesOwned, DocumentsHaveFiles, Registered
  <2>8. \A v \in Writers : Owns(v)' =>
          \/ v = w /\ writer'[v].firm = f /\ writer'[v].content = b
          \/ v # w /\ Owns(v) /\ writer'[v] = writer[v]
    BY <2>2, <2>3 DEF Owns
  <2>9. FilesOwned'
    <3>1. DocumentsHaveFiles'
      BY <1>2, <2>4 DEF FilesOwned, DocumentsHaveFiles
    <3>2. ASSUME NEW v \in Writers, Owns(v)'
          PROVE  /\ writer'[v].content \in files'[writer'[v].firm]
                 /\ ~Registered(writer[v].firm, writer[v].content)'
      <4>1. CASE v = w
        BY <1>2, <2>5, <2>7, <2>8, <3>2, <4>1 DEF Registered
      <4>2. CASE v # w
        <5>1. Owns(v) /\ writer'[v] = writer[v] /\ writer[v] \in WriterRecords
          BY <2>8, <3>2, <4>2, BusyIsTyped DEF Owns
        <5>2. writer[v].firm \in Firms
          BY <5>1, WriterFields
        <5>3. /\ writer[v].content \in files[writer[v].firm]
              /\ ~Registered(writer[v].firm, writer[v].content)
          BY <5>1 DEF FilesOwned
        <5> QED BY <1>2, <2>4, <5>1, <5>2, <5>3 DEF Registered
      <4> QED BY <4>1, <4>2
    <3>3. \A u, v \in Writers :
            /\ Owns(u)' /\ Owns(v)'
            /\ writer'[u].firm = writer'[v].firm /\ writer'[u].content = writer'[v].content
            => u = v
      BY <2>6, <2>8 DEF FilesOwned
    <3> QED BY <3>1, <3>2, <3>3 DEF FilesOwned
  <2>10. IntakeTyped'
    BY <1>2, <1>3, <2>1, <2>2 DEF IntakeTyped
  <2>11. AssignmentsKept
    BY <1>2, AssignmentStays
  <2>12. RowsUnique' /\ \A k : JobWorks(k) => JobWorks(k)'
    BY <1>2, <2>11, RowsStay
  <2>13. WritersWork'
    <3> SUFFICES ASSUME NEW v \in Writers, NEW k, k = writer'[v], k.at # "idle"
                 PROVE  JobWorks(k)'
      BY DEF WritersWork, JobWorks
    <3> QED BY <2>2, <2>3, <2>12 DEF WritersWork
  <2>14. CompletedNamesRow' /\ MailAccounted' /\ ApprovedHasFirm'
    BY <1>2, <2>11, CompletedStays, AccountedStays DEF AssignmentsKept
  <2> QED BY <2>9, <2>10, <2>12, <2>13, <2>14
<1> QED BY <1>4, <1>5

LEMMA RemoveKeeps ==
  ASSUME IntakeInv, NEW w \in Writers, RemoveFile(w)
  PROVE  IntakeInv'
<1> USE DEF IntakeInv
<1>1. PICK f, b : f = writer[w].firm /\ b = writer[w].content
  OBVIOUS
<1>2. /\ writer[w].at = "remove" /\ writer[w] \in WriterRecords
      /\ files' = [files EXCEPT ![f] = @ \ {b}] /\ Answer(w, FALSE)
      /\ UNCHANGED <<documents, seen, mailQueue, handled, assignment, handoff>>
  BY <1>1, BusyIsTyped DEF RemoveFile
<1>3. f \in Firms /\ b \in Contents
  BY <1>1, <1>2, WriterFields
<1>4. Owns(w) /\ ~Registered(f, b)
  BY <1>1, <1>2 DEF Owns, FilesOwned
<1>5. PICK j \in WriterRecords : writer' = [writer EXCEPT ![w] = j] /\ j.at = "answer"
                                 /\ JobWorks(j)
  BY <1>2, AnswerMoves
<1>6. /\ \A v \in Writers : v # w => writer'[v] = writer[v]
      /\ writer'[w] = j
  BY <1>5 DEF IntakeTyped
<1>7. \A v \in Writers : Owns(v)' => v # w /\ Owns(v) /\ writer'[v] = writer[v]
  BY <1>5, <1>6 DEF Owns
<1>8. FilesOwned'
  <2>1. DocumentsHaveFiles'
    BY <1>2, <1>3, <1>4 DEF FilesOwned, DocumentsHaveFiles, Registered, IntakeTyped
  <2>2. ASSUME NEW v \in Writers, Owns(v)'
        PROVE  /\ writer'[v].content \in files'[writer'[v].firm]
               /\ ~Registered(writer[v].firm, writer[v].content)'
    <3>1. v # w /\ Owns(v) /\ writer'[v] = writer[v] /\ writer[v] \in WriterRecords
      BY <1>7, <2>2, BusyIsTyped DEF Owns
    <3>2. writer[v].firm \in Firms
      BY <3>1, WriterFields
    <3>3. /\ writer[v].content \in files[writer[v].firm]
          /\ ~Registered(writer[v].firm, writer[v].content)
          /\ ~(writer[v].firm = f /\ writer[v].content = b)
      BY <1>1, <1>4, <3>1 DEF FilesOwned
    <3> QED BY <1>2, <3>1, <3>2, <3>3 DEF Registered, IntakeTyped
  <2>3. \A u, v \in Writers :
          /\ Owns(u)' /\ Owns(v)'
          /\ writer'[u].firm = writer'[v].firm /\ writer'[u].content = writer'[v].content
          => u = v
    BY <1>7 DEF FilesOwned
  <2> QED BY <2>1, <2>2, <2>3 DEF FilesOwned
<1>9. IntakeTyped'
  BY <1>2, <1>3, <1>5 DEF IntakeTyped
<1>10. AssignmentsKept
  BY <1>2, AssignmentStays
<1>11. RowsUnique' /\ \A k : JobWorks(k) => JobWorks(k)'
  BY <1>2, <1>10, RowsStay
<1>12. WritersWork'
  <2> SUFFICES ASSUME NEW v \in Writers, NEW k, k = writer'[v], k.at # "idle"
               PROVE  JobWorks(k)'
    BY DEF WritersWork, JobWorks
  <2> QED BY <1>5, <1>6, <1>11 DEF WritersWork
<1>13. CompletedNamesRow' /\ MailAccounted' /\ ApprovedHasFirm'
  BY <1>2, <1>10, CompletedStays, AccountedStays DEF AssignmentsKept
<1> QED BY <1>8, <1>9, <1>11, <1>12, <1>13

LEMMA RegisterKeeps ==
  ASSUME IntakeInv, NEW w \in Writers, NEW fails \in BOOLEAN, Register(w, fails)
  PROVE  IntakeInv'
<1> USE DEF IntakeInv
<1>1. PICK f, b, o : f = writer[w].firm /\ b = writer[w].content /\ o = writer[w].origin
  OBVIOUS
<1>2. /\ writer[w].at = "register" /\ writer[w] \in WriterRecords
      /\ UNCHANGED <<files, seen, mailQueue, handled, assignment, handoff>>
  BY BusyIsTyped DEF Register
<1>3. f \in Firms /\ b \in Contents /\ o \in Origins
  BY <1>1, <1>2, WriterFields
<1>4. Owns(w) /\ ~Registered(f, b) /\ JobWorks(writer[w]) /\ b \in files[f]
  BY <1>1, <1>2 DEF Owns, FilesOwned, WritersWork
<1>5. CASE Goto(w, "clean") /\ UNCHANGED documents
  <2>1. PICK j \in WriterRecords :
          /\ writer' = [writer EXCEPT ![w] = j] /\ j.at = "clean" /\ JobWorks(j)
          /\ j.firm = writer[w].firm /\ j.content = writer[w].content
    BY <1>2, <1>5, GotoMoves DEF Busy
  <2>2. handoff' \in [Sources -> HandoffRecords]
    BY <1>2 DEF IntakeTyped
  <2> QED BY <1>2, <1>4, <1>5, <2>1, <2>2, PlainMoveKeeps
<1>6. PICK d : d = [content |-> b, origin |-> o]
  OBVIOUS
<1>7. d \in DocumentRecords /\ d.content = b /\ d.origin = o
  BY <1>3, <1>6 DEF DocumentRecords
<1>8. CASE Answer(w, TRUE) /\ documents' = [documents EXCEPT ![f] = @ \union {d}]
  <2>1. PICK j \in WriterRecords :
          /\ writer' = [writer EXCEPT ![w] = j] /\ j.at = "answer"
          /\ j.firm = f /\ j.content = b /\ j.origin = o
    BY <1>1, <1>2, <1>8, AnswerMoves
  <2>2. /\ \A v \in Writers : v # w => writer'[v] = writer[v]
        /\ writer'[w] = j
    BY <2>1 DEF IntakeTyped
  <2>3. \A g \in Firms : \A e : e \in documents'[g] <=> e \in documents[g] \/ (g = f /\ e = d)
    BY <1>3, <1>8 DEF IntakeTyped
  <2>4. \A v \in Writers : Owns(v)' => v # w /\ Owns(v) /\ writer'[v] = writer[v]
    BY <2>1, <2>2 DEF Owns
  <2>5. FilesOwned'
    <3>1. DocumentsHaveFiles'
      BY <1>2, <1>4, <1>7, <2>3 DEF FilesOwned, DocumentsHaveFiles
    <3>2. ASSUME NEW v \in Writers, Owns(v)'
          PROVE  /\ writer'[v].content \in files'[writer'[v].firm]
                 /\ ~Registered(writer[v].firm, writer[v].content)'
      <4>1. v # w /\ Owns(v) /\ writer'[v] = writer[v] /\ writer[v] \in WriterRecords
        BY <2>4, <3>2, BusyIsTyped DEF Owns
      <4>2. PICK g, c : g = writer[v].firm /\ c = writer[v].content
        OBVIOUS
      <4>3. /\ c \in files[g] /\ ~Registered(g, c) /\ ~(g = f /\ c = b) /\ g \in Firms
        BY <1>1, <1>4, <4>1, <4>2, WriterFields DEF FilesOwned
      <4>4. \A e \in documents'[g] : e.content # c
        BY <1>7, <2>3, <4>3 DEF Registered
      <4> QED BY <1>2, <4>1, <4>2, <4>3, <4>4 DEF Registered
    <3>3. \A u, v \in Writers :
            /\ Owns(u)' /\ Owns(v)'
            /\ writer'[u].firm = writer'[v].firm /\ writer'[u].content = writer'[v].content
            => u = v
      BY <2>4 DEF FilesOwned
    <3> QED BY <3>1, <3>2, <3>3 DEF FilesOwned
  <2>6. IntakeTyped'
    <3>1. documents' \in [Firms -> SUBSET DocumentRecords]
      BY <1>3, <1>7, <1>8 DEF IntakeTyped
    <3> QED BY <1>2, <2>1, <3>1 DEF IntakeTyped
  <2>7. RowsUnique'
    <3>1. \A e \in documents[f] : e.content # b
      BY <1>4 DEF Registered
    <3>2. o \in Sources => /\ b = SourceOf[o]
                           /\ assignment[o].state # "none" /\ f = assignment[o].firm
      BY <1>1, <1>4 DEF JobWorks
    <3> QED BY <1>2, <1>7, <2>3, <3>1, <3>2 DEF RowsUnique
  <2>8. \A k : k.firm \in Firms /\ JobWorks(k) => JobWorks(k)'
    BY <1>2, <2>3 DEF JobWorks
  <2>9. JobWorks(j)'
    <3>1. d \in documents'[f]
      BY <1>3, <2>3
    <3> QED BY <1>1, <1>2, <1>4, <1>7, <2>1, <3>1 DEF JobWorks
  <2>10. WritersWork'
    <3> SUFFICES ASSUME NEW v \in Writers, NEW k, k = writer'[v], k.at # "idle"
                 PROVE  JobWorks(k)'
      BY DEF WritersWork, JobWorks
    <3>1. CASE v = w
      BY <2>2, <2>9, <3>1
    <3>2. CASE v # w
      <4>1. k = writer[v] /\ JobWorks(k) /\ k \in WriterRecords
        BY <2>2, <3>2, BusyIsTyped DEF WritersWork
      <4> QED BY <2>8, <4>1, WriterFields
    <3> QED BY <3>1, <3>2
  <2>11. ApprovedHasFirm'
    BY <1>2 DEF ApprovedHasFirm
  <2>12. CompletedNamesRow'
    <3> SUFFICES ASSUME NEW s \in Sources, assignment[s].state = "completed"
                 PROVE  {e \in documents'[assignment[s].firm] : e.origin = s}
                          = {e \in documents[assignment[s].firm] : e.origin = s}
      BY <1>2 DEF CompletedNamesRow
    <3>1. PICK g \in Firms : g = assignment[s].firm
      BY DEF ApprovedHasFirm
    <3>2. PICK e \in documents[g] : e.origin = s
      BY <3>1 DEF CompletedNamesRow
    <3>3. e.content = SourceOf[s]
      BY <3>1, <3>2 DEF RowsUnique
    <3>4. ~(g = f /\ d.origin = s)
      <4> SUFFICES ASSUME g = f, o = s PROVE FALSE
        BY <1>7
      <4>1. b = SourceOf[s]
        BY <1>1, <1>4 DEF JobWorks
      <4> QED BY <1>4, <3>2, <3>3, <4>1 DEF Registered
    <3> QED BY <2>3, <3>1, <3>4
  <2>13. MailAccounted'
    <3> SUFFICES ASSUME NEW m \in Mails, Registered(MailOf[m].firm, MailOf[m].content)
                 PROVE  Registered(MailOf[m].firm, MailOf[m].content)'
      BY <1>2 DEF MailAccounted, IntakeTyped
    <3>1. PICK g, c : g = MailOf[m].firm /\ c = MailOf[m].content
      OBVIOUS
    <3>2. PICK e \in documents[g] : e.content = c
      BY <3>1 DEF Registered
    <3>3. documents[g] \subseteq documents'[g]
      BY <1>8 DEF IntakeTyped
    <3> QED BY <3>1, <3>2, <3>3 DEF Registered
  <2> QED BY <2>5, <2>6, <2>7, <2>10, <2>11, <2>12, <2>13
<1> QED BY <1>1, <1>5, <1>6, <1>8 DEF Register

-----------------------------------------------------------------------------
(* The registers of the callers.                                            *)

LEMMA AnswerMailKeeps ==
  ASSUME IntakeInv, NEW w \in Writers, AnswerMail(w)
  PROVE  IntakeInv'
<1> USE DEF IntakeInv
<1>1. PICK m \in Mails : m = writer[w].origin
  BY DEF AnswerMail
<1>2. /\ writer[w].at = "answer" /\ handled' = handled \union {m}
      /\ \/ writer[w].ok /\ seen' = seen \union {m} /\ UNCHANGED mailQueue
         \/ mailQueue' = mailQueue \union {m} /\ UNCHANGED seen
      /\ writer' = [writer EXCEPT ![w] = AtRest]
      /\ UNCHANGED <<files, documents, assignment, handoff>>
  BY <1>1 DEF AnswerMail, Done
<1>3. m \in mailQueue' \/ Registered(MailOf[m].firm, MailOf[m].content)
  <2>1. JobWorks(writer[w])
    BY <1>2 DEF WritersWork
  <2> QED BY <1>1, <1>2, <2>1 DEF JobWorks, Registered
<1>4. MailAccounted'
  <2>1. \A n \in handled' : n \in mailQueue' \/ Registered(MailOf[n].firm, MailOf[n].content)
    BY <1>2, <1>3 DEF MailAccounted
  <2> QED BY <1>2, <2>1 DEF MailAccounted, Registered
<1>5. seen' \subseteq Mails /\ mailQueue' \subseteq Mails /\ handled' \subseteq Mails
      /\ handoff' \in [Sources -> HandoffRecords]
  BY <1>2 DEF IntakeTyped
<1>6. AssignmentsKept /\ CompletedNamesRow'
  BY <1>2, AssignmentStays, CompletedStays
<1> QED BY <1>2, <1>4, <1>5, <1>6, RestingIsIdle, MoveKeeps DEF Moves

LEMMA CompleteKeeps ==
  ASSUME IntakeInv, NEW w \in Writers, CompleteHandoff(w)
  PROVE  IntakeInv'
<1> USE DEF IntakeInv
<1>1. PICK s \in Sources : s = writer[w].origin
  BY DEF CompleteHandoff
<1>2. PICK f : f = writer[w].firm
  OBVIOUS
<1>3. /\ writer[w].at = "answer" /\ writer[w] \in WriterRecords
      /\ writer' = [writer EXCEPT ![w] = AtRest]
      /\ UNCHANGED <<files, documents, seen, mailQueue, handled>>
  BY BusyIsTyped DEF CompleteHandoff, Done
<1>4. MailAccounted' /\ seen' \subseteq Mails /\ mailQueue' \subseteq Mails
      /\ handled' \subseteq Mails
  BY <1>3, AccountedStays DEF IntakeTyped
<1>5. CASE UNCHANGED <<assignment, handoff>>
  <2>1. handoff' \in [Sources -> HandoffRecords]
    BY <1>5 DEF IntakeTyped
  <2> QED BY <1>3, <1>5, <2>1, RestingIsIdle, PlainMoveKeeps
<1>6. PICK made : made = {d \in documents[f] : d.origin = s}
  OBVIOUS
<1>7. CASE /\ writer[w].ok
           /\ assignment' = [assignment EXCEPT ![s].state = "completed", ![s].document = made]
           /\ handoff' = [handoff EXCEPT ![s].state = "completed"]
  <2>1. JobWorks(writer[w])
    BY <1>3 DEF WritersWork
  <2>2. assignment[s].state # "none" /\ f = assignment[s].firm /\ made # {}
    BY <1>1, <1>2, <1>3, <1>6, <1>7, <2>1 DEF JobWorks
  <2>3. f \in Firms /\ made \subseteq DocumentRecords
    BY <1>2, <1>3, <1>6, WriterFields DEF IntakeTyped
  <2>4. PICK a \in AssignmentRecords : a = assignment[s]
    BY DEF IntakeTyped
  <2>5. PICK n : n = [[a EXCEPT !.state = "completed"] EXCEPT !.document = made]
    OBVIOUS
  <2>6. n \in AssignmentRecords /\ n.firm = f /\ n.state = "completed" /\ n.document = made
    BY <2>2, <2>3, <2>4, <2>5 DEF AssignmentRecords
  <2>7. assignment' = [assignment EXCEPT ![s] = n]
    BY <1>7, <2>4, <2>5 DEF IntakeTyped
  <2>8. /\ assignment' \in [Sources -> AssignmentRecords] /\ assignment'[s] = n
        /\ \A t \in Sources : t # s => assignment'[t] = assignment[t]
    BY <2>6, <2>7 DEF IntakeTyped
  <2>9. AssignmentsKept
    <3>1. ApprovedHasFirm'
      BY <2>3, <2>6, <2>8 DEF ApprovedHasFirm
    <3>2. \A t \in Sources : assignment[t].state # "none" =>
            assignment'[t].state # "none" /\ assignment'[t].firm = assignment[t].firm
      BY <2>2, <2>6, <2>8
    <3> QED BY <2>8, <3>1, <3>2 DEF AssignmentsKept
  <2>10. CompletedNamesRow'
    BY <1>3, <1>6, <2>2, <2>6, <2>8 DEF CompletedNamesRow
  <2>11. handoff' \in [Sources -> HandoffRecords]
    <3>1. PICK h \in HandoffRecords : h = handoff[s]
      BY DEF IntakeTyped
    <3>2. [h EXCEPT !.state = "completed"] \in HandoffRecords
      BY DEF HandoffRecords
    <3> QED BY <1>7, <3>1, <3>2 DEF IntakeTyped
  <2> QED BY <1>3, <1>4, <2>9, <2>10, <2>11, RestingIsIdle, MoveKeeps DEF Moves
<1> QED BY <1>1, <1>2, <1>5, <1>6, <1>7 DEF CompleteHandoff

LEMMA OthersKeepIntake ==
  ASSUME IntakeInv,
         \/ \E m \in Mails : RefuseMail(m)
         \/ \E s \in Sources :
              \/ \E f \in Firms : ApproveAssignment(s, f)
              \/ ExpireHandoff(s)
         \/ UNCHANGED documentVars
  PROVE  IntakeInv'
<1> USE DEF IntakeInv
<1>1. UNCHANGED <<files, documents, writer>>
  BY DEF RefuseMail, ApproveAssignment, ExpireHandoff, documentVars
<1>2. FilesOwned'
  BY <1>1 DEF FilesOwned, DocumentsHaveFiles, Owns, Registered
<1>3. MailAccounted' /\ seen' \subseteq Mails /\ mailQueue' \subseteq Mails
      /\ handled' \subseteq Mails
  BY <1>1 DEF RefuseMail, ApproveAssignment, ExpireHandoff, documentVars, IntakeTyped,
              MailAccounted, Registered
<1>4. ASSUME NEW s \in Sources, NEW f \in Firms, ApproveAssignment(s, f)
      PROVE  AssignmentsKept /\ CompletedNamesRow'
  <2>1. PICK a \in AssignmentRecords : a = assignment[s]
    BY DEF IntakeTyped
  <2>2. PICK n : n = [[a EXCEPT !.firm = f] EXCEPT !.state = "approved"]
    OBVIOUS
  <2>3. n \in AssignmentRecords /\ n.firm = f /\ n.state = "approved"
    BY <2>1, <2>2 DEF AssignmentRecords
  <2>4. assignment' = [assignment EXCEPT ![s] = n] /\ assignment[s].state = "none"
    BY <1>4, <2>1, <2>2 DEF ApproveAssignment, IntakeTyped
  <2>5. /\ assignment' \in [Sources -> AssignmentRecords] /\ assignment'[s] = n
        /\ \A t \in Sources : t # s => assignment'[t] = assignment[t]
    BY <2>3, <2>4 DEF IntakeTyped
  <2>6. ApprovedHasFirm'
    BY <2>3, <2>5 DEF ApprovedHasFirm
  <2> QED BY <1>1, <2>3, <2>4, <2>5, <2>6 DEF AssignmentsKept, CompletedNamesRow
<1>5. AssignmentsKept /\ CompletedNamesRow'
  BY <1>1, <1>4, AssignmentStays, CompletedStays DEF RefuseMail, ExpireHandoff, documentVars
<1>6. handoff' \in [Sources -> HandoffRecords]
  <2>1. ASSUME NEW s \in Sources, ExpireHandoff(s)
        PROVE  handoff' \in [Sources -> HandoffRecords]
    <3>1. PICK h \in HandoffRecords : h = handoff[s]
      BY DEF IntakeTyped
    <3>2. [h EXCEPT !.expired = TRUE] \in HandoffRecords
      BY DEF HandoffRecords
    <3> QED BY <2>1, <3>1, <3>2 DEF ExpireHandoff, IntakeTyped
  <2> QED BY <2>1 DEF RefuseMail, ApproveAssignment, documentVars, IntakeTyped
<1>7. IntakeTyped' /\ ApprovedHasFirm'
  BY <1>1, <1>3, <1>5, <1>6 DEF IntakeTyped, AssignmentsKept
<1>8. RowsUnique' /\ \A k : JobWorks(k) => JobWorks(k)'
  BY <1>1, <1>5, RowsStay
<1>9. WritersWork'
  <2> SUFFICES ASSUME NEW v \in Writers, NEW k, k = writer'[v], k.at # "idle"
               PROVE  JobWorks(k)'
    BY DEF WritersWork, JobWorks
  <2> QED BY <1>1, <1>8 DEF WritersWork
<1> QED BY <1>2, <1>3, <1>5, <1>7, <1>8, <1>9

LEMMA IntakeStarts ==
  ASSUME DocumentIntakeInit
  PROVE  IntakeInv
<1>1. PICK a : a = [firm |-> NoFirm, state |-> "none", document |-> {}]
  OBVIOUS
<1>2. a \in AssignmentRecords /\ a.state = "none"
  BY <1>1 DEF AssignmentRecords
<1>3. PICK h : h = [state |-> "none", by |-> NoFirm, expired |-> FALSE]
  OBVIOUS
<1>4. h \in HandoffRecords
  BY <1>3 DEF HandoffRecords
<1>5. IntakeTyped
  BY <1>1, <1>2, <1>3, <1>4 DEF DocumentIntakeInit, IntakeTyped
<1>6. \A w \in Writers : writer[w].at = "idle"
  BY RestingIsIdle DEF DocumentIntakeInit
<1>7. \A s \in Sources : assignment[s].state = "none"
  BY <1>1, <1>2 DEF DocumentIntakeInit
<1>8. FilesOwned /\ WritersWork
  BY <1>6 DEF DocumentIntakeInit, FilesOwned, WritersWork, DocumentsHaveFiles, Owns
<1>9. RowsUnique /\ ApprovedHasFirm /\ CompletedNamesRow /\ MailAccounted
  BY <1>7 DEF DocumentIntakeInit, RowsUnique, ApprovedHasFirm, CompletedNamesRow,
              MailAccounted
<1> QED BY <1>5, <1>8, <1>9 DEF IntakeInv

LEMMA IntakeStep ==
  ASSUME IntakeInv, DocumentIntakeNext
  PROVE  IntakeInv'
<1>1. ASSUME NEW w \in Writers,
             \/ Publish(w) \/ RemoveFile(w) \/ AnswerMail(w) \/ CompleteHandoff(w)
             \/ \E fails \in BOOLEAN : Register(w, fails)
      PROVE  IntakeInv'
  BY <1>1, PublishKeeps, RemoveKeeps, AnswerMailKeeps, CompleteKeeps, RegisterKeeps
<1>2. ASSUME NEW w \in Writers,
             \/ \E force \in BOOLEAN : LookForDuplicates(w, force)
             \/ AskRegistered(w) \/ FindMarker(w) \/ StopWriter(w) \/ AnswerUpload(w)
             \/ \E f \in Firms, b \in Contents : IngestUpload(w, f, b)
             \/ \E m \in Mails : IngestMail(w, m)
             \/ \E s \in Sources : ClaimHandoff(w, s)
      PROVE  IntakeInv'
  BY <1>2, IngestMovesKeep, DocumentIntakeAssumption
<1>3. CASE \/ \E m \in Mails : RefuseMail(m)
           \/ \E s \in Sources :
                \/ \E f \in Firms : ApproveAssignment(s, f)
                \/ ExpireHandoff(s)
  BY <1>3, OthersKeepIntake
<1> QED BY <1>1, <1>2, <1>3 DEF DocumentIntakeNext

(* The invariant of the intake (DocumentIntakeSpec).                        *)
THEOREM IntakeInvariant == DocumentIntakeSpec => []IntakeInv
<1>1. DocumentIntakeInit => IntakeInv
  BY IntakeStarts
<1>2. IntakeInv /\ [DocumentIntakeNext]_documentVars => IntakeInv'
  BY IntakeStep, OthersKeepIntake
<1> QED BY <1>1, <1>2, PTL DEF DocumentIntakeSpec

(* Every registered document has its file, every mail its document or its   *)
(* exception, every source its one document - for any writers that stop     *)
(* between their steps (documents.ts, mail-intake.ts,                       *)
(* workspace-document-inbox.ts).                                            *)
THEOREM IntakeStaysComplete == DocumentIntakeSpec => []IntakeIsComplete
<1>1. IntakeInv => HandedOverOnce
  <2> SUFFICES ASSUME IntakeInv, NEW s \in Sources
               PROVE  /\ {f \in Firms : \E d \in documents[f] : d.origin = s}
                           \subseteq {assignment[s].firm}
                      /\ assignment[s].state = "completed" =>
                           /\ Cardinality(assignment[s].document) = 1
                           /\ assignment[s].document =
                                {d \in documents[assignment[s].firm] : d.origin = s}
    BY DEF HandedOverOnce
  <2>1. {f \in Firms : \E d \in documents[f] : d.origin = s} \subseteq {assignment[s].firm}
    BY DEF IntakeInv, RowsUnique
  <2>2. ASSUME assignment[s].state = "completed"
        PROVE  Cardinality(assignment[s].document) = 1
    <3>1. PICK f \in Firms : f = assignment[s].firm
      BY <2>2 DEF IntakeInv, ApprovedHasFirm
    <3>2. PICK d \in documents[f] : d.origin = s
      BY <2>2, <3>1 DEF IntakeInv, CompletedNamesRow
    <3>3. \A e \in documents[f] : e.origin = s => e = d
      BY <3>2 DEF IntakeInv, RowsUnique
    <3>4. assignment[s].document = {d}
      BY <2>2, <3>1, <3>2, <3>3 DEF IntakeInv, CompletedNamesRow
    <3>5. Cardinality({d}) = 1
      BY FS_Singleton
    <3> QED BY <3>4, <3>5
  <2> QED BY <2>1, <2>2 DEF IntakeInv, CompletedNamesRow
<1>2. IntakeInv => IntakeIsComplete
  BY <1>1 DEF IntakeInv, FilesOwned, IntakeIsComplete
<1> QED BY <1>2, IntakeInvariant, PTL

(* Files, rows, writers, mails, assignments and handoffs have their types.  *)
LEMMA IntakeIsTyped == IntakeInv => DocumentIntakeTypeOK
<1> SUFFICES ASSUME IntakeTyped PROVE DocumentIntakeTypeOK
  BY DEF IntakeInv
<1>1. ASSUME NEW f \in Firms
      PROVE  documents[f] \subseteq
               [content : Contents, origin : Mails \union Sources \union {Upload}]
  BY DEF IntakeTyped, DocumentRecords, Origins
<1>2. ASSUME NEW w \in Writers
      PROVE  writer[w].at \in {"idle", "find", "ingest", "publish", "register",
                               "clean", "remove", "answer"}
  <2>1. writer[w] \in WriterRecords \union {AtRest}
    BY DEF IntakeTyped
  <2> QED BY <2>1 DEF WriterRecords, AtRest
<1>3. ASSUME NEW s \in Sources
      PROVE  /\ assignment[s].state \in {"none", "approved", "completed"}
             /\ handoff[s].state \in {"none", "claimed", "completed"}
  <2>1. assignment[s] \in AssignmentRecords /\ handoff[s] \in HandoffRecords
    BY DEF IntakeTyped
  <2> QED BY <2>1 DEF AssignmentRecords, HandoffRecords
<1> QED BY <1>1, <1>2, <1>3 DEF IntakeTyped, DocumentIntakeTypeOK

(* The same of every state of the intake (DocumentIntakeSpec).              *)
THEOREM IntakeTypes == DocumentIntakeSpec => []DocumentIntakeTypeOK
BY IntakeIsTyped, IntakeInvariant, PTL
=============================================================================
