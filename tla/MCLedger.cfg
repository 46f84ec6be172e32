SPECIFICATION Spec
CONSTANTS
  None = None
  d1 = d1
  d2 = d2
  y1 = y1
  y2 = y2
  bank = bank
  sales = sales
  b1 = b1
  receipt = receipt
  creditNote = creditNote
  invoice = invoice
  Payloads <- MCPayloads
  Dates <- MCDates
  Years <- MCYears
  FiscalYear <- MCFiscalYear
  Accounts = {bank, sales}
  ResultAccounts = {sales}
  CreditNotes = {creditNote}
  Invoices = {invoice}
  Keys = {k1, k2}
  FirstKey = k1
  Procs = {p1, p2}
  MaxEntries = 3
SYMMETRY ProcSymmetry
INVARIANTS TypeOK AuditAccepts NumbersGapless BalanceIsActive
PROPERTIES NoEntryInLockedPeriod BookSpec
