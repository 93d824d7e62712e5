CONSTANTS
  e1 = e1
  e2 = e2
  row1 = row1
  row2 = row2
  Edit = {e1, e2}
  RowOf <- OneRow
  Settler = {s1}
  Absorber = {a1}
  Nothing = Nothing
  Rebuilds = TRUE
  Quiet = FALSE
  MaxSeq = 4
  MaxEpoch = 2
  MaxFaults = 0
SPECIFICATION Spec
INVARIANTS AbsorbedIsInTable
