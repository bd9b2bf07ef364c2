SPECIFICATION Spec
CONSTANTS
  a = a
  b = b
  p = p
  q = q
  m1 = m1
  m2 = m2
  Task = {a, b}
  Path = {p, q}
  Name = {m1}
  Encode <- OneName
  Restored <- ReadAsSecond
  Shown <- ReadAsSecond
  x = x
  y = y
  Text = {x, y}
  Draft = {y}
  Absent = Absent
  TailOf <- NoTail
  MaxRows = 1
  MaxRuns = 3
INVARIANTS TypeOK StagedIsLogged WaveReviewsAll RollbackExact
PROPERTIES RollbackCopyKept 
SYMMETRY Symmetry
CHECK_DEADLOCK FALSE
