SPECIFICATION StaffSpec
CONSTANTS
  l1 = l1  l2 = l2  b1 = b1  c1 = c1  r1 = r1  r2 = r2  r3 = r3
  Leaves = {l1, l2}
  Accounts = {b1}
  MaxDays = 2
  Cases = {c1}
  Requests = {r1, r2, r3}
SYMMETRY StaffSymmetry
INVARIANTS StaffTypeOK WithinBalance UsedDaysCounted LeaveNotices ToldAfterwards
PROPERTIES DecisionStands StagesInOrder
CHECK_DEADLOCK FALSE
