SPECIFICATION Spec
CONSTANTS
  NoRow = NoRow
  Ids = {i1}
  Callers = {c1, c2}
  Ttls = {1}
  Limits = {1, 2}
  MaxLimit = 2
  MaxClock = 2
SYMMETRY CallerSymmetry
INVARIANT AttemptsWithinLimit
