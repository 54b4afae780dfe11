SPECIFICATION Spec
CONSTANTS
  a = a
  b = b
  x = x
  p1 = p1
  p2 = p2
  in1 = in1
  out1 = out1
  t = t
  Client = {a, b}
  Call = {x}
  Connection = {p1, p2}
  Pad = {in1, out1}
  CallOf <- MCCallOf
  ClientOf <- MCClientOf
  Relayed = {p1, p2}
  Inbound = {in1}
  Others <- MCOthers
  Evaluations = 3
  Overlap = 2
  MaxChanges = 4
SYMMETRY Alike
CHECK_DEADLOCK FALSE
INVARIANTS
  CountersBalance
  Summaries
  GaugesSettle
