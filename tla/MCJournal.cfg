CONSTANTS
  Conn = {c1, c2}
  OpId = {o1, o2, o3}
  Body = {b1}
  Replica = {r1, r2}
  Actor = {a1, a2}
  NoActor = NoActor
  NoOp = NoOp
  Compacted = Compacted
  SnapshotEvery = 2
  MaxSeq = 3
  MaxEpoch = 2
  MaxCompactions = 1
SPECIFICATION Spec
SYMMETRY Symmetry
INVARIANTS TypeOK StoredStateFaithful HitIsCurrent AckedOnce ReplicaHasOneActor TailComplete
PROPERTIES IsALog
