CONSTANTS
  Conn = {c1}
  OpId = {o1, o2, o3}
  Body = {b1}
  Replica = {r1}
  Actor = {a1}
  NoActor = NoActor
  NoOp = NoOp
  Compacted = Compacted
  SnapshotEvery = 2
  MaxSeq = 3
  MaxEpoch = 2
  MaxCompactions = 1
  MaxBatch = 2
SPECIFICATION BatchSpec
SYMMETRY Symmetry
INVARIANTS SettledHitIsCurrent BatchIsAtomic
