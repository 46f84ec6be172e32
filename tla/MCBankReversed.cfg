SPECIFICATION BankSpec
CONSTANTS
  None = None
  d1 = d1
  y1 = y1
  bank = bank
  suspense = suspense
  b1 = b1
  b2 = b2
  Payloads <- MCPayloads
  Dates = {d1}
  Years = {y1}
  FiscalYear <- MCFiscalYear
  Accounts = {bank, suspense}
  ResultAccounts = {}
  CreditNotes = {}
  Invoices = {}
  Keys = {k1}
  FirstKey = k1
  Procs = {p1}
  MaxEntries = 3
  Banks = {b1, b2}
  Mapped = {b1}
  BankAccount = bank
  Amount <- MCAmount
  MaxLinks = 2
INVARIANT ReversedIsUnreconciled
