SPECIFICATION Spec
CONSTANTS
  s1 = s1  a = a  h1 = h1  j1 = j1  j2 = j2  j3 = j3  r1 = r1
  Students = {s1}
  Standards = {a}
  ClassOf <- OneClass
  Heads = {h1}
  CustomHeads = {h1}
  Prices = {2, 3}
  Plans <- NoPlan
  CycleNames <- Halves
  PlanNames = {""}
  Jobs = {j1, j2, j3}
  Requests = {r1}
  Amounts = {1}
  MaxDay = 1
INVARIANTS TypeOK LedgersBacked
SYMMETRY JobSymmetry
CHECK_DEADLOCK FALSE
