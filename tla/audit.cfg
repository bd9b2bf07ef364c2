SPECIFICATION Spec
CONSTANTS
  a = a
  b = b
  p = p
  q = q
  Task = {a, b}
  Proc = {p, q}
  NoOne = NoOne
  Unread = Unread
INVARIANTS TypeOK AuditedAtMostThrice CounterWhole
PROPERTIES DeferredAfterThree
SYMMETRY Symmetry
