CONSTANTS
  r1 = r1
  r2 = r2
  Replica = {r1, r2}
  Call = {k1, k2}
  Limit = 1
  IdWindow = 1
  Refusable <- NothingRefused
  ValidatesBase = FALSE
  AdmitVaries = TRUE
  MaxSubmits = 2
  MaxResets = 0
  MaxCompacts = 1
  MaxFaults = 0
SPECIFICATION FairSpec
CHECK_DEADLOCK FALSE
PROPERTIES Converges
INVARIANTS ViewIsPrefix NoLostEdit
