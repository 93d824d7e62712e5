CONSTANTS
  Conn = {c1}
  OpId = {o1, o2}
  Body = {b1, b2}
  Replica = {r1}
  Actor = {a1}
  NoActor = NoActor
  NoOp = NoOp
  Compacted = Compacted
  SnapshotEvery = 2
  MaxSeq = 3
  MaxEpoch = 2
  MaxCompactions = 0
  MaxBatch = 2
SPECIFICATION BatchSpec
INVARIANTS SettledHitIsCurrent
