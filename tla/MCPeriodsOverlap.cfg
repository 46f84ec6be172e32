SPECIFICATION PeriodsSpec
CONSTANTS
  None = None
  q1 = q1
  c1 = c1
  c2 = c2
  Dates = {1, 2}
  Today = 1
  Periods = {q1, c1, c2}
  Start <- MCStart
  End <- MCEnd
  Kind <- MCKind
  Legacy = {}
  Evidence = {clean}
  Mismatched = {}
  Clean = clean
  References = {r1}
  Procs = {a}
  Crashes = FALSE
  MaxEvents = 3
  MaxReviews = 2
  MaxPostings = 1
INVARIANTS SameKindDisjoint
PROPERTIES ReportedBooksFrozen
