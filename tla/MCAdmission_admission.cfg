SPECIFICATION Spec
CONSTANTS
  u1 = u1  u2 = u2  u3 = u3  p = p  r1 = r1  r2 = r2  r3 = r3  r4 = r4
  Users = {u1, u2}
  School <- OneSchool
  Name <- MCNames
  Contact <- MCContacts
  Roles = {"TEACHER", "PARENT"}
  Templates <- MCTemplates
  Chosen <- FirstNumber
  MaxYear = 2
  Requests = {r1, r2, r3}
SYMMETRY RequestSymmetry
INVARIANTS TypeOK NamesakesNeedOverride UniqueIdentifiers AuditTellsStatus
PROPERTIES FormatFrozen MembersSpec
CHECK_DEADLOCK FALSE
