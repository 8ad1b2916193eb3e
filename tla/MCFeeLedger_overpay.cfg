SPECIFICATION Spec
CONSTANTS
  k1 = k1  k2 = k2  s1 = s1  r1 = r1  r2 = r2  r3 = r3  r4 = r4
  Ledgers = {k1, k2}
  Students = {s1}
  Owner <- MCOwner
  Requests = {r1, r2}
  Totals = {3}
  Amounts = {3}
  MaxDay = 1
INVARIANT NoOverpayment
CHECK_DEADLOCK FALSE
