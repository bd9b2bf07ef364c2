SPECIFICATION Spec
CONSTANTS
  a = a
  b = b
  p = p
  q = q
  m1 = m1
  m2 = m2
  Task = {a}
  Path = {p, q}
  Name = {m1, m2}
  Encode <- OwnNames
  Restored <- ReadBack
  Shown <- ReadBack
  x = x
  y = y
  Text = {x, y}
  Draft = {y}
  Absent = Absent
  TailOf <- OneTail
  MaxRows = 2
  MaxRuns = 1
PROPERTIES ApprovedIsApplied
CHECK_DEADLOCK FALSE
