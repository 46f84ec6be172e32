SPECIFICATION PeriodsSpec
CONSTANTS
  None = None
  q1 = q1
  c1 = c1
  c2 = c2
  Dates = {1}
  Today = 1
  Periods = {q1}
  Start <- MCStart
  End <- MCEnd
  Kind <- MCKind
  Legacy = {q1}
  Evidence = {clean, off}
  Mismatched = {off}
  Clean = clean
  References = {r1, r2}
  Procs = {a, b}
  Crashes = TRUE
  MaxEvents = 4
  MaxReviews = 2
  MaxPostings = 0
SYMMETRY ProcRefSymmetry
INVARIANTS PeriodsTypeOK DecisionsHaveEvidence
PROPERTIES ReportedIsTerminal
