CONSTANTS
  Key = {k1}
  Caller = {c1, c2, c3}
  NoOne = NoOne
  MaxRuns = 2
SPECIFICATION FairSpec
INVARIANTS TypeOK OneRunner ActedIsRecorded SuccessStands
PROPERTIES SuccessNotRepeated CallsEnd
