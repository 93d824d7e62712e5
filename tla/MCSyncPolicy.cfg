CONSTANTS
  r1 = r1
  r2 = r2
  Replica = {r1, r2}
  Call = {k1, k2}
  Limit = 1
  IdWindow = 1
  Refusable <- FirstRefused
  ValidatesBase = FALSE
  AdmitVaries = FALSE
  MaxSubmits = 2
  MaxResets = 1
  MaxCompacts = 0
  MaxFaults = 1
SPECIFICATION Spec
CHECK_DEADLOCK FALSE
SYMMETRY SlotSymmetry
PROPERTIES IsOneLog
INVARIANTS OnlyPolicyRejects
