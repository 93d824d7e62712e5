CONSTANTS
  e1 = e1
  e2 = e2
  row1 = row1
  row2 = row2
  Edit = {e1, e2}
  RowOf <- OneRow
  Settler = {s1, s2}
  Absorber = {a1, a2}
  Nothing = Nothing
  Rebuilds = TRUE
  Quiet = TRUE
  MaxSeq = 3
  MaxEpoch = 2
  MaxFaults = 1
SPECIFICATION Spec
SYMMETRY Symmetry
INVARIANTS TypeOK AbsorbedIsInTable CompactedIsInTable AppliedIsInTable
