CONSTANTS
  r1 = r1
  r2 = r2
  Replica = {r1}
  Call = {k1, k2}
  Limit = 1
  IdWindow = 1
  Refusable <- NothingRefused
  ValidatesBase = FALSE
  AdmitVaries = FALSE
  MaxSubmits = 2
  MaxResets = 1
  MaxCompacts = 1
  MaxFaults = 1
SPECIFICATION FairSpec
CHECK_DEADLOCK FALSE
PROPERTIES Converges
