SPECIFICATION Spec
CONSTANTS
  s1 = s1  y1 = y1  y2 = y2  a = a  b = b  d = d  a1 = a1  b1 = b1
  r1 = r1  r2 = r2  r3 = r3  nil = nil
  Students = {s1}
  Years = {y1, y2}
  Standards = {a, b, d}
  YearOf <- MCYears
  Sections = {a1, b1}
  ClassOf <- MCClasses
  NameOf <- MCNames
  Rolls = {1}
  Decisions = {"PROMOTE", "REPEAT", "GRADUATE", "SKIP"}
  Requests = {r1, r2, r3}
  None = nil
SYMMETRY RequestSymmetry
INVARIANTS TypeOK PromotionLinks PlaceOfMapping
PROPERTY TerminalStates
CHECK_DEADLOCK FALSE
