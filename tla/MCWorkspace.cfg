SPECIFICATION WorkspaceSpec
CONSTANTS
  p1 = p1
  p2 = p2
  Users = {u1, u2}
  Companies = {c1}
  Operators = {p1, p2}
  Invitations = {i1}
  NoUser = NoUser
  Operations = {k1, k2}
  Recoverers = {p1, p2}
  MaxClaims = 2
  NoCredential = NoCredential
  content1 = content1
  firm1 = firm1
  firm2 = firm2
  mail1 = mail1
  source1 = source1
  Contents = {content1}
  InvoiceOf <- MCInvoiceOf
  Firms = {firm1, firm2}
  Writers = {p1, p2}
  Mails = {mail1}
  MailOf <- MCMailOf
  Sources = {source1}
  SourceOf <- MCSourceOf
  Upload = Upload
  NoFirm = NoFirm
  line1 = line1
  Documents = {doc1}
  BankLines = {line1}
  BookingDate <- MCBookingDate
  BackupWeek = 1
  Grace = 0
  Destinations = {drive1}
  Restorers = {p1}
  MaxTime = 2
  Submissions = {peppol1}
  Senders = {p1, p2}
  Watchers = {p1, p2}
  NoKey = NoKey
  MaxDelivery = 6
  MaxRows = 3
  Mappings = {m1}
  Eliminations = {e1}
  Reviewers = {p1, p2}
  NotDeriving = NotDeriving
  MaxEliminationEvents = 3
SYMMETRY WorkspaceSymmetry
INVARIANTS
  WorkspaceTypeOK OneFirstIdentity NoSurpriseKey IntakeIsComplete
  RestoredIsWhole TakenOnce EliminationsWereTrue
PROPERTY OwnersRemain
CHECK_DEADLOCK FALSE
