CONSTANTS
  r1 = r1
  r2 = r2
  Replica = {r1, r2}
  Call = {k1, k2}
  Limit = 1
  IdWindow = 1
  Refusable <- NothingRefused
  ValidatesBase = FALSE
  AdmitVaries = FALSE
  MaxSubmits = 3
  MaxResets = 0
  MaxCompacts = 0
  MaxFaults = 1
SPECIFICATION Spec
CHECK_DEADLOCK FALSE
SYMMETRY Symmetry
INVARIANTS TypeOK NoLostEdit CommittedInOrder NoFlicker StoreReopens
