SPECIFICATION MCRegisterSpec
CONSTANTS
  p1 = p1
  p2 = p2
  Openers = {p1, p2}
  Versions = {2, 4}
  OldTables <- MCOldTables
  BaselineGuards = {"periods", "erasures", "templates", "accounts"}
  LastGuard = "accounts"
  Reassertions <- MCReassertions
  MaxCrashes = 1
  Clerks = {p1, p2}
  CreditUnits = 1
  NoClerk = NoClerk
  ChosenNames <- MCChosenNames
  MaxAttempts = 3
  MaxJournals = 3
  MaxDeaths = 1
  VatPeriods = {1, 2}
  Vouchers <- MCVouchers
  DomesticPrice = 4
  ForeignPrice = 1
  ForeignPeriod = 1
  Krone = 2
  MaxVatEntries = 3
  u1 = u1
  d1 = d1
  d2 = d2
  s1 = s1
  r1 = r1
  r2 = r2
  company = company
  Contents = {r1, r2}
  InvoiceOf <- MCInvoiceOf
  Firms = {company}
  Writers = {u1}
  Mails = {}
  MailOf <- MCNothing
  Sources = {}
  SourceOf <- MCNothing
  Upload = Upload
  NoFirm = NoFirm
  Importers = {p1, p2}
  Importing = company
  Exports = {d1, d2}
  OtherSources = {s1}
  ByHand = ByHand
  ReceiptsOf <- MCReceiptsOf
  YearsOf <- MCYearsOf
  name1 = name1
  name2 = name2
  cvr1 = cvr1
  cvr2 = cvr2
  master1 = master1
  paper1 = paper1
  text1 = text1
  Names = {name1, name2}
  Cvrs = {cvr1, cvr2}
  Unknown = Unknown
  Masters = {master1}
  Papers = {paper1}
  Texts = {text1}
  Mentions <- MCMentions
  MaxRequests = 1
SYMMETRY RegisterSymmetry
INVARIANT
  ListedSalesCanBeFiled
CHECK_DEADLOCK FALSE
