SPECIFICATION Spec
CONSTANTS
  a = a
  b = b
  p = p
  q = q
  Task = {a, b}
  Proc = {p}
  NoOne = NoOne
  Unread = Unread
PROPERTIES VerdictReported
