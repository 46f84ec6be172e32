SPECIFICATION FairRecurringSpec
CONSTANTS
  None = None
  Templates = {1}
  Manual = {}
  LastIndex = 1
  Rejected = {}
  Cap = 2
  Procs = {a, b}
  Schedulers = {a}
  MaxCrashes = 1
PROPERTIES InvoicesArrive
