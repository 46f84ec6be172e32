SPECIFICATION RecurringSpec
CONSTANTS
  None = None
  Templates = {1}
  Manual = {}
  LastIndex = 1
  Rejected = {}
  Cap = 2
  Procs = {a, b}
  Schedulers = {a, b}
  MaxCrashes = 1
SYMMETRY ProcSymmetry
INVARIANT NextDateFollows
PROPERTY PromiseSpec
