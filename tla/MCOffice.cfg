SPECIFICATION MCOfficeSpec
CONSTANTS
  None = None
  d1 = d1
  y1 = y1
  bank = bank
  suspense = suspense
  b1 = b1
  b2 = b2
  Payloads <- MCPayloads
  Dates = {d1}
  Years = {y1}
  FiscalYear <- MCFiscalYear
  Accounts = {bank, suspense}
  ResultAccounts = {}
  CreditNotes = {}
  Invoices = {}
  Keys = {k1}
  FirstKey = k1
  Procs = {p1, p2}
  MaxEntries = 3
  Banks = {b1, b2}
  Mapped = {b1}
  BankAccount = bank
  Amount <- MCAmount
  MaxLinks = 2
  History <- MCHistory
  BankAccounts = {account1}
  NoAccount = NoAccount
  Importers = {importer1}
  MaxImports = 2
  bill1 = bill1
  out1 = out1
  out2 = out2
  Bills = {bill1}
  BillGross <- MCBillGross
  Outgoing = {out1, out2}
  Paid <- MCPaid
  Payers = {p1, p2}
  NoLine = NoLine
  MaxPayableEntries = 5
  IssuedInvoices <- MCInvoices
  BankLines <- MCBankLines
  Amounts = {1, 2, 3}
  LastDay = 1
  Collectors = {clerk1}
  Fee = 1
  Compensation = 2
  MaxReminders = 1
  MinDays = 1
  NoReminder = NoReminder
  MaxRows = 3
  MaxClaims = 1
  Gross = 3
  Due = 0
  LastInterestDay = 3
  RateChange = 9
  TableRates <- MCTableRates
  ManualRates = {5}
  Divisor = 3
  Changes = {2, 3}
  MaxChanges = 2
  MaxInterest = 2
  DraftIds = {draft1}
  Actors = {p1, p2, p3}
  DraftPayloads = {entry1, entry2}
  MaxDraftEvents = 5
  Clients = {client1, client2}
  RequestKeys = {key1, key2}
  Requests = {request1, request2}
  PrincipalOf <- MCPrincipalOf
  Retention = 1
  MaxDay = 2
  MaxTries = 2
  doc1 = doc1
  doc2 = doc2
  line1 = line1
  line2 = line2
  PurchaseDocs = {doc1, doc2}
  OutLines = {line1, line2}
  BestMatch <- MCBestMatch
  rule1 = rule1
  rule2 = rule2
  Rules = {rule1, rule2}
  RuleDays = {1, 2}
  Interval <- MCInterval
  InvoiceDay <- MCInvoiceDay
  Principals = {p1, p2}
  Runs = {run1}
  MaxVersion = 2
  MaxDrift = 3
  Hand = Hand
  NoPlan = NoPlan
  accrual = accrual
  asset = asset
  bought1 = bought1
  bought2 = bought2
  Accruals = {accrual}
  Assets = {asset}
  AssetPurchases = {bought1, bought2}
  Posters = {p1, p2}
  Total <- MCTotal
  Periods <- MCPeriods
  Price <- MCPrice
  Threshold = 2
  MaxPostings = 4
SYMMETRY OfficeSymmetry
INVARIANTS
  OfficeTypeOK EvidenceSound 
  ReviewedIsPosted EffectOnce LinePaysOnce
  StoredIsTheFullestExport RegisterIsTheLedger
PROPERTIES
  QueueLosesNothing NoDayBilledTwice
  BatchBooksWhatWasReviewed
CHECK_DEADLOCK FALSE
