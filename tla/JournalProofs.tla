---------------------------- MODULE JournalProofs ----------------------------
(***************************************************************************)
(* Theorems about Journal for every set of connections, operations,        *)
(* replicas and actors, every snapshotEvery and every bound.               *)
(***************************************************************************)
EXTENDS Journal, TLAPS

OneRow(R) == \A r, s \in R : r.sequence = s.sequence => r = s
RowOf(R, n) == CHOOSE r \in {t \in R : t.sequence = n} : TRUE

\* The tables are one history, and what a lookup finds is of it. IInv implies
\* it, and so does what holds of one connection whose transactions roll back.
Coherent ==
  /\ TypeOK
  /\ RowsWellFormed
  /\ SnapshotIsPrefix
  /\ EpochsAreFresh
  /\ HitIsCurrent

-----------------------------------------------------------------------------
(* Lemmas about the operators.                                             *)

\* Looking a sequence up finds the row that has it.
LEMMA RowLookup ==
  ASSUME NEW R, OneRow(R), NEW r \in R
  PROVE  RowOf(R, r.sequence) = r
  BY DEF OneRow, RowOf

\* The columns of a row, as the lookups of Journal return them.
LEMMA Columns ==
  ASSUME OneRow(operations), NEW r \in operations
  PROVE  /\ CommittedAt(r.sequence) = [op |-> r.hash, actor |-> r.actor]
         /\ InputAt(r.sequence) = r.input
         /\ LastOp(r.sequence) = r.id
  <1>1. RowOf(operations, r.sequence) = r
    BY RowLookup
  <1>2. r \in RowsAt(r.sequence)
    BY DEF RowsAt
  <1> QED
    BY <1>1, <1>2 DEF CommittedAt, InputAt, LastOp, RowsAt, RowOf

\* Every row a sequence of the log names is there, and so is its entry.
LEMMA EntryTypes ==
  ASSUME TypeOK, RowsWellFormed, NEW n \in 1..doc.cursor
  PROVE  /\ CommittedAt(n) \in Entry
         /\ InputAt(n) \in {Compacted, CommittedAt(n)}
         /\ LastOp(n) \in OpId
  <1>1. PICK r \in operations : r.sequence = n
    BY DEF RowsWellFormed
  <1>2. OneRow(operations)
    BY DEF RowsWellFormed, OneRow
  <1>3. /\ CommittedAt(n) = [op |-> r.hash, actor |-> r.actor]
        /\ InputAt(n) = r.input
        /\ LastOp(n) = r.id
    BY <1>1, <1>2, Columns
  <1>4. r \in OperationRow
    BY <1>1 DEF TypeOK
  <1> QED
    BY <1>1, <1>3, <1>4 DEF RowsWellFormed, OperationRow, Entry

\* Replaying the operations after the stored snapshot gives the whole history.
LEMMA ReplayedIsHistory ==
  ASSUME TypeOK, RowsWellFormed, SnapshotIsPrefix
  PROVE  Replayed = History(doc.cursor)
  <1>1. ASSUME NEW i \in 1..doc.cursor
        PROVE  (IF i <= doc.snapshotCursor THEN doc.snapshot[i] ELSE InputAt(i))
                 = CommittedAt(i)
    <2>1. CASE i <= doc.snapshotCursor
      BY <2>1 DEF SnapshotIsPrefix, History, TypeOK
    <2>2. CASE ~(i <= doc.snapshotCursor)
      <3>1. PICK r \in operations : r.sequence = i
        BY DEF RowsWellFormed
      <3>2. OneRow(operations)
        BY DEF RowsWellFormed, OneRow
      <3>3. r.input # Compacted
        BY <2>2, <3>1 DEF SnapshotIsPrefix, TypeOK
      <3>4. r.input = [op |-> r.hash, actor |-> r.actor]
        BY <3>1, <3>3 DEF RowsWellFormed
      <3> QED
        BY <2>2, <3>1, <3>2, <3>4, Columns
    <2> QED
      BY <2>1, <2>2
  <1> QED
    BY <1>1 DEF Replayed, History

\* A history of at most MaxSeq entries is a snapshot.
LEMMA HistoryIsSnapshot ==
  ASSUME TypeOK, RowsWellFormed, NEW n \in 0..doc.cursor
  PROVE  History(n) \in Snapshots
  <1>1. n \in 0..MaxSeq /\ doc.cursor \in Nat
    BY BoundsAssumption DEF TypeOK
  <1>2. \A i \in 1..n : CommittedAt(i) \in Entry
    BY <1>1, EntryTypes
  <1>3. History(n) \in [1..n -> Entry]
    BY <1>2 DEF History
  <1> QED
    BY <1>1, <1>3 DEF Snapshots

\* Whatever a connection remembers, a hit is of the cursor.
LEMMA MaterializeCursor ==
  ASSUME NEW c
  PROVE  Materialize(c).cursor = doc.cursor
  BY DEF Materialize, EmptyState, CacheHit, Stored

LEMMA IInvCoherent ==
  ASSUME IInv
  PROVE  Coherent
  <1>1. ASSUME NEW c \in Conn, doc.cursor > 0, CacheHit(c)
        PROVE  cache[c].snapshot = History(doc.cursor)
    <2>1. epoch # NoEpoch
      BY <1>1 DEF IInv, EpochsAreFresh
    <2> QED
      BY <1>1, <2>1 DEF CacheHit, IInv, CacheIsPrefix
  <1> QED
    BY <1>1 DEF IInv, Coherent, HitIsCurrent

\* Whichever way `materialize` finds it, the state is the committed one.
LEMMA MaterializeIsHistory ==
  ASSUME Coherent, NEW c \in Conn
  PROVE  /\ Materialize(c) \in State
         /\ Materialize(c).cursor = doc.cursor
         /\ Materialize(c).snapshotCursor = doc.snapshotCursor
         /\ Materialize(c).snapshot = History(doc.cursor)
         /\ Materialize(c).last = IF doc.cursor = 0 THEN NoOp ELSE LastOp(doc.cursor)
         /\ Materialize(c).epoch = IF doc.cursor = 0 THEN NoEpoch ELSE epoch
  <1> USE DEF Coherent
  <1>0. doc.cursor \in 0..MaxSeq /\ doc.snapshotCursor \in 0..MaxSeq
    BY DEF TypeOK
  <1>1. CASE doc.cursor = 0
    <2>1. EmptyState \in State
      BY BoundsAssumption DEF EmptyState, State, Snapshots, NoEpoch
    <2>2. History(0) = <<>>
      BY DEF History
    <2>3. doc.snapshotCursor = 0
      BY <1>0, <1>1, BoundsAssumption DEF SnapshotIsPrefix
    <2> QED
      BY <1>1, <2>1, <2>2, <2>3 DEF Materialize, EmptyState
  <1>2. CASE doc.cursor # 0 /\ CacheHit(c)
    <2>1. Materialize(c) = cache[c]
      BY <1>2 DEF Materialize
    <2>2. doc.cursor > 0
      BY <1>0, <1>2, BoundsAssumption
    <2> QED
      BY <1>2, <2>1, <2>2 DEF CacheHit, HitIsCurrent, TypeOK
  <1>3. CASE doc.cursor # 0 /\ ~CacheHit(c)
    <2>1. Materialize(c) = Stored
      BY <1>3 DEF Materialize
    <2>2. Replayed = History(doc.cursor)
      BY ReplayedIsHistory
    <2>3. doc.cursor \in 1..doc.cursor /\ doc.cursor \in 0..doc.cursor
      BY <1>0, <1>3, BoundsAssumption
    <2>4. Replayed \in Snapshots
      BY <2>2, <2>3, HistoryIsSnapshot
    <2>5. LastOp(doc.cursor) \in OpId
      BY <2>3, EntryTypes
    <2>6. Stored \in State
      BY <1>0, <2>4, <2>5 DEF Stored, State, TypeOK
    <2> QED
      BY <1>3, <2>1, <2>2, <2>6 DEF Stored
  <1> QED
    BY <1>1, <1>2, <1>3

\* The committed state at the cursor, which a connection may remember.
Correct(s) ==
  /\ s.cursor = doc.cursor
  /\ s.snapshot = History(doc.cursor)
  /\ doc.cursor > 0 => s.last = LastOp(doc.cursor)
  /\ s.epoch <= minted

\* What `materialize` remembers may be remembered.
LEMMA RememberedIsCorrect ==
  ASSUME Coherent, NEW c \in Conn
  PROVE  /\ Remembered(c) \in [Conn -> State]
         /\ \A d \in Conn : Remembered(c)[d] = cache[d] \/ Correct(Remembered(c)[d])
         /\ doc.cursor > 0 => Correct(Remembered(c)[c])
  <1>1. doc.cursor \in Nat /\ epoch \in Nat /\ minted \in Nat
    BY BoundsAssumption DEF Coherent, TypeOK
  <1>2. /\ Materialize(c) \in State
        /\ Correct(Materialize(c))
    BY <1>1, MaterializeIsHistory DEF Correct, Coherent, EpochsAreFresh, NoEpoch
  <1>3. cache \in [Conn -> State]
    BY DEF Coherent, TypeOK
  <1> QED
    BY <1>1, <1>2, <1>3 DEF Remembered

-----------------------------------------------------------------------------
(* What each kind of step does to the rows.                                *)

\* A commit adds one row at the next sequence and leaves the others alone.
LEMMA CommitRows ==
  ASSUME Coherent, NEW c \in Conn, NEW op \in Operation, NEW actor \in Actor,
         CommitPrepared(Materialize(c), op, actor)
  PROVE  /\ RowsWellFormed'
         /\ operations' \subseteq OperationRow
         /\ doc'.cursor = doc.cursor + 1
         /\ doc.cursor + 1 \in 1..MaxSeq
         /\ \A n \in 1..doc.cursor : CommittedAt(n)' = CommittedAt(n)
         /\ \A n : n = doc.cursor + 1 =>
              CommittedAt(n)' = [op |-> op, actor |-> actor] /\ LastOp(n)' = op.id
  <1> DEFINE row == [id |-> op.id, sequence |-> doc.cursor + 1, actor |-> actor,
                     input |-> [op |-> op, actor |-> actor], hash |-> op]
  <1>0. doc.cursor \in 0..MaxSeq /\ operations \subseteq OperationRow
    BY DEF Coherent, TypeOK
  <1>1. Materialize(c).cursor = doc.cursor
    BY MaterializeCursor
  <1>2. operations' = operations \cup {row}
    BY <1>1 DEF CommitPrepared
  <1>3. doc.cursor + 1 \in 1..MaxSeq
    BY <1>0, <1>1, BoundsAssumption DEF CommitPrepared
  <1>4. doc'.cursor = doc.cursor + 1
    BY <1>0, <1>1 DEF CommitPrepared, RowAfter, Coherent, TypeOK
  <1>5. row \in OperationRow
    BY <1>3 DEF OperationRow, Operation, Entry
  <1>6. RowsWellFormed'
    <2>1. \A r \in operations : r.sequence \in 1..doc.cursor /\ r.id # op.id
      BY DEF Coherent, RowsWellFormed, CommitPrepared, PriorRows
    <2>2. \A r \in operations' :
            /\ r.sequence \in 1..doc'.cursor
            /\ r.id = r.hash.id
            /\ r.input \in {Compacted, [op |-> r.hash, actor |-> r.actor]}
      BY <1>0, <1>2, <1>4, <2>1 DEF Coherent, RowsWellFormed
    <2>3. \A n \in 1..doc'.cursor : \E r \in operations' : r.sequence = n
      <3> SUFFICES ASSUME NEW n \in 1..(doc.cursor + 1)
                   PROVE  \E r \in operations' : r.sequence = n
        BY <1>4
      <3>1. CASE n = doc.cursor + 1
        <4>1. row \in operations' /\ row.sequence = n
          BY <1>2, <3>1
        <4> QED
          BY <4>1
      <3>2. CASE n \in 1..doc.cursor
        BY <1>2, <3>2 DEF Coherent, RowsWellFormed
      <3> QED
        BY <1>0, <3>1, <3>2
    <2>4. \A r, s \in operations' : r.sequence = s.sequence \/ r.id = s.id => r = s
      BY <1>0, <1>2, <2>1 DEF Coherent, RowsWellFormed
    <2> QED
      BY <2>2, <2>3, <2>4 DEF RowsWellFormed
  <1>7. OneRow(operations) /\ OneRow(operations')
    BY <1>6 DEF Coherent, RowsWellFormed, OneRow
  <1>8. ASSUME NEW r \in operations'
        PROVE  /\ CommittedAt(r.sequence)' = [op |-> r.hash, actor |-> r.actor]
               /\ LastOp(r.sequence)' = r.id
    <2>1. RowOf(operations', r.sequence) = r
      BY <1>7, RowLookup
    <2>2. RowsAt(r.sequence)' # {}
      BY DEF RowsAt
    <2> QED
      BY <2>1, <2>2 DEF CommittedAt, LastOp, RowsAt, RowOf
  <1>9. ASSUME NEW n \in 1..doc.cursor
        PROVE  CommittedAt(n)' = CommittedAt(n)
    <2>1. PICK r \in operations : r.sequence = n
      BY DEF Coherent, RowsWellFormed
    <2>2. CommittedAt(n) = [op |-> r.hash, actor |-> r.actor]
      BY <1>7, <2>1, Columns
    <2>3. CommittedAt(r.sequence)' = [op |-> r.hash, actor |-> r.actor]
      BY <1>2, <1>8
    <2> QED
      BY <2>1, <2>2, <2>3 DEF CommittedAt, RowsAt
  <1>10. ASSUME NEW n, n = doc.cursor + 1
         PROVE  CommittedAt(n)' = [op |-> op, actor |-> actor] /\ LastOp(n)' = op.id
    <2>1. /\ row \in operations' /\ row.sequence = n
          /\ row.hash = op /\ row.actor = actor /\ row.id = op.id
      BY <1>2, <1>10
    <2>2. PICK r \in operations' :
            r.sequence = n /\ r.hash = op /\ r.actor = actor /\ r.id = op.id
      BY <2>1
    <2> QED
      BY <1>8, <2>2 DEF CommittedAt, LastOp, RowsAt
  <1> QED
    BY <1>0, <1>2, <1>3, <1>4, <1>5, <1>6, <1>9, <1>10

\* A compaction keeps every row's identity, actor and hash.
LEMMA CompactRows ==
  ASSUME Coherent, NEW c \in Conn, NEW through \in 0..MaxSeq,
         CompactCommit(c, through)
  PROVE  /\ RowsWellFormed'
         /\ operations' \subseteq OperationRow
         /\ \A n \in 1..doc.cursor : CommittedAt(n)' = CommittedAt(n)
  <1> DEFINE Drop(r) == IF r.sequence <= through THEN [r EXCEPT !.input = Compacted] ELSE r
  <1>0. operations \subseteq OperationRow
    BY DEF Coherent, TypeOK
  <1>1. operations' = {Drop(r) : r \in operations}
    BY DEF CompactCommit
  <1>2. doc'.cursor = doc.cursor
    BY DEF CompactCommit, SnapshotWritten, Coherent, TypeOK, Materialize
  <1>3. ASSUME NEW r \in operations
        PROVE  /\ Drop(r) \in OperationRow
               /\ Drop(r).id = r.id /\ Drop(r).sequence = r.sequence
               /\ Drop(r).hash = r.hash /\ Drop(r).actor = r.actor
               /\ Drop(r).input \in {r.input, Compacted}
    BY <1>0 DEF OperationRow
  <1> HIDE DEF Drop
  <1>4. RowsWellFormed'
    <2>1. \A r \in operations' :
            /\ r.sequence \in 1..doc'.cursor
            /\ r.id = r.hash.id
            /\ r.input \in {Compacted, [op |-> r.hash, actor |-> r.actor]}
      BY <1>1, <1>2, <1>3 DEF Coherent, RowsWellFormed
    <2>2. \A n \in 1..doc'.cursor : \E r \in operations' : r.sequence = n
      BY <1>1, <1>2, <1>3 DEF Coherent, RowsWellFormed
    <2>3. \A r, s \in operations' : r.sequence = s.sequence \/ r.id = s.id => r = s
      BY <1>1, <1>3 DEF Coherent, RowsWellFormed
    <2> QED
      BY <2>1, <2>2, <2>3 DEF RowsWellFormed
  <1>5. OneRow(operations) /\ OneRow(operations')
    BY <1>4 DEF Coherent, RowsWellFormed, OneRow
  <1>6. ASSUME NEW n \in 1..doc.cursor
        PROVE  CommittedAt(n)' = CommittedAt(n)
    <2>1. PICK r \in operations : r.sequence = n
      BY DEF Coherent, RowsWellFormed
    <2>2. CommittedAt(n) = [op |-> r.hash, actor |-> r.actor]
      BY <1>5, <2>1, Columns
    <2>3. Drop(r) \in operations' /\ Drop(r).sequence = n
      BY <1>1, <1>3, <2>1
    <2>4. RowOf(operations', n) = Drop(r)
      BY <1>5, <2>3, RowLookup
    <2> QED
      BY <1>3, <2>2, <2>4 DEF CommittedAt, RowsAt, RowOf
  <1> QED
    BY <1>1, <1>3, <1>4, <1>6

-----------------------------------------------------------------------------
(* The invariant holds initially and every step keeps it.                  *)

LEMMA EmptyStateTyped == EmptyState \in State
  BY BoundsAssumption DEF EmptyState, State, Snapshots, NoEpoch

THEOREM InitIInv == Init => IInv
  <1> SUFFICES ASSUME Init PROVE IInv
    OBVIOUS
  <1> USE BoundsAssumption DEF Init, NoRow, NoEpoch
  <1>1. <<>> \in Snapshots
    BY DEF Snapshots
  <1>2. TypeOK
    BY <1>1, EmptyStateTyped DEF TypeOK
  <1>3. RowsWellFormed
    BY DEF RowsWellFormed
  <1>4. SnapshotIsPrefix
    BY DEF SnapshotIsPrefix, History
  <1>5. EpochsAreFresh /\ CacheIsPrefix
    BY DEF EpochsAreFresh, CacheIsPrefix, EmptyState
  <1> QED
    BY <1>2, <1>3, <1>4, <1>5 DEF IInv

\* A step that leaves the tables alone and lets connections remember the
\* committed state, or forget what they remember.
LEMMA QuietTables ==
  ASSUME Coherent, UNCHANGED <<doc, operations, epoch, minted, replicas>>,
         cache' \in [Conn -> State],
         \A c \in Conn : cache'[c] \in {cache[c], EmptyState} \/ Correct(cache'[c]),
         compacting' \in [Conn -> SUBSET (0..MaxSeq)],
         acked' \subseteq [op : Operation, actor : Actor, sequence : 1..MaxSeq]
  PROVE  /\ Coherent'
         /\ \A n : History(n)' = History(n)
         /\ \A s : Correct(s) => Correct(s)'
  <1>1. \A n : History(n)' = History(n) /\ LastOp(n)' = LastOp(n)
    BY DEF History, CommittedAt, LastOp, RowsAt
  <1>2. TypeOK'
    BY DEF Coherent, TypeOK
  <1>3. RowsWellFormed'
    BY DEF Coherent, RowsWellFormed
  <1>4. SnapshotIsPrefix'
    BY <1>1 DEF Coherent, SnapshotIsPrefix
  <1>5. EpochsAreFresh'
    BY BoundsAssumption DEF Coherent, EpochsAreFresh, Correct, EmptyState, NoEpoch, TypeOK
  <1>6. HitIsCurrent'
    <2> SUFFICES ASSUME NEW c \in Conn, doc.cursor > 0, CacheHit(c)'
                 PROVE  cache'[c].snapshot = History(doc.cursor)
      BY <1>1 DEF HitIsCurrent
    <2>1. CASE cache'[c] = cache[c]
      BY <1>1, <2>1 DEF CacheHit, Coherent, HitIsCurrent
    <2>2. CASE cache'[c] = EmptyState
      BY <2>2 DEF CacheHit, EmptyState
    <2>3. CASE Correct(cache'[c])
      BY <2>3 DEF Correct
    <2> QED
      BY <2>1, <2>2, <2>3
  <1>7. \A s : Correct(s) => Correct(s)'
    BY <1>1 DEF Correct
  <1> QED
    BY <1>1, <1>2, <1>3, <1>4, <1>5, <1>6, <1>7 DEF Coherent

LEMMA QuietStep ==
  ASSUME IInv, UNCHANGED <<doc, operations, epoch, minted, replicas>>,
         cache' \in [Conn -> State],
         \A c \in Conn : cache'[c] \in {cache[c], EmptyState} \/ Correct(cache'[c]),
         compacting' \in [Conn -> SUBSET (0..MaxSeq)],
         acked' \subseteq [op : Operation, actor : Actor, sequence : 1..MaxSeq]
  PROVE  IInv'
  <1>1. Coherent' /\ \A n : History(n)' = History(n)
    BY QuietTables, IInvCoherent
  <1>2. CacheIsPrefix'
    <2> SUFFICES ASSUME NEW c \in Conn, cache'[c].epoch = epoch, epoch # NoEpoch
                 PROVE  /\ cache'[c].cursor <= doc.cursor
                        /\ cache'[c].snapshot = History(cache'[c].cursor)
      BY <1>1 DEF CacheIsPrefix
    <2>1. CASE cache'[c] = cache[c]
      BY <2>1 DEF IInv, CacheIsPrefix
    <2>2. CASE cache'[c] = EmptyState
      BY <2>2 DEF EmptyState
    <2>3. CASE Correct(cache'[c])
      BY <2>3, BoundsAssumption DEF Correct, IInv, TypeOK
    <2> QED
      BY <2>1, <2>2, <2>3
  <1> QED
    BY <1>1, <1>2 DEF IInv, Coherent

LEMMA EpochStep ==
  ASSUME IInv, Epoch
  PROVE  IInv'
  <1> USE DEF Epoch, NoEpoch
  <1>1. \A n : History(n)' = History(n)
    BY DEF History, CommittedAt, RowsAt
  <1>2. TypeOK'
    BY BoundsAssumption DEF IInv, TypeOK
  <1>3. RowsWellFormed'
    BY DEF IInv, RowsWellFormed
  <1>4. SnapshotIsPrefix'
    BY <1>1 DEF IInv, SnapshotIsPrefix
  <1>5. EpochsAreFresh'
    BY DEF IInv, EpochsAreFresh, TypeOK, State
  <1>6. CacheIsPrefix'
    \* No connection can remember anything of an epoch just minted.
    <2>1. \A c \in Conn : cache[c].epoch # epoch'
      BY DEF IInv, EpochsAreFresh, TypeOK, State
    <2> QED
      BY <2>1 DEF CacheIsPrefix
  <1> QED
    BY <1>2, <1>3, <1>4, <1>5, <1>6 DEF IInv

LEMMA ResetStep ==
  ASSUME IInv, NEW c \in Conn, Reset(c)
  PROVE  IInv'
  <1> USE BoundsAssumption DEF Reset, NoRow, NoEpoch
  <1>1. <<>> \in Snapshots
    BY DEF Snapshots
  <1>2. TypeOK'
    BY <1>1, EmptyStateTyped DEF IInv, TypeOK
  <1>3. RowsWellFormed'
    BY DEF RowsWellFormed
  <1>4. SnapshotIsPrefix'
    BY DEF SnapshotIsPrefix, History
  <1>5. EpochsAreFresh'
    BY DEF IInv, EpochsAreFresh, TypeOK, EmptyState
  <1>6. CacheIsPrefix'
    BY DEF CacheIsPrefix
  <1> QED
    BY <1>2, <1>3, <1>4, <1>5, <1>6 DEF IInv

\* A compaction drops payloads the stored snapshot has, by then, and what its
\* connection remembers is the committed state.
LEMMA CompactTables ==
  ASSUME Coherent, NEW c \in Conn, NEW through \in 0..MaxSeq, CompactCommit(c, through)
  PROVE  /\ TypeOK' /\ RowsWellFormed' /\ SnapshotIsPrefix' /\ EpochsAreFresh'
         /\ doc'.cursor = doc.cursor /\ doc.cursor \in 0..MaxSeq
         /\ \A n \in 0..doc.cursor : History(n)' = History(n)
         /\ \A d \in Conn : cache'[d] = cache[d] \/ Correct(cache'[d])
         /\ doc.cursor > 0 => Correct(cache'[c])
         /\ UNCHANGED <<epoch, minted, replicas, acked>>
  <1> DEFINE state == Materialize(c)
             lags == state.snapshotCursor < through
  <1>0. /\ doc.cursor \in 0..MaxSeq /\ doc.snapshotCursor \in 0..MaxSeq
        /\ doc.cursor \in 0..doc.cursor
    BY BoundsAssumption DEF Coherent, TypeOK
  <1>1. /\ state \in State
        /\ state.cursor = doc.cursor
        /\ state.snapshotCursor = doc.snapshotCursor
        /\ state.snapshot = History(doc.cursor)
        /\ state.last = IF doc.cursor = 0 THEN NoOp ELSE LastOp(doc.cursor)
        /\ state.epoch = IF doc.cursor = 0 THEN NoEpoch ELSE epoch
    BY MaterializeIsHistory
  <1>2. /\ RowsWellFormed'
        /\ operations' \subseteq OperationRow
        /\ \A n \in 1..doc.cursor : CommittedAt(n)' = CommittedAt(n)
    BY CompactRows
  <1>3. \A n \in 0..doc.cursor : History(n)' = History(n)
    BY <1>0, <1>2 DEF History
  <1>4. /\ doc'.cursor = doc.cursor
        /\ doc'.floor \in 0..MaxSeq
        /\ doc' \in [cursor : 0..MaxSeq, snapshot : Snapshots,
                     snapshotCursor : 0..MaxSeq, floor : 0..MaxSeq]
        /\ doc.cursor # 0 /\ lags =>
             doc'.snapshot = History(doc.cursor) /\ doc'.snapshotCursor = doc.cursor
        /\ doc.cursor = 0 \/ ~lags =>
             doc'.snapshot = doc.snapshot /\ doc'.snapshotCursor = doc.snapshotCursor
    <2> HIDE DEF state
    <2>1. History(doc.cursor) \in Snapshots
      BY <1>0, HistoryIsSnapshot DEF Coherent
    <2>2. doc \in [cursor : 0..MaxSeq, snapshot : Snapshots,
                   snapshotCursor : 0..MaxSeq, floor : 0..MaxSeq]
      BY DEF Coherent, TypeOK
    <2>3. doc' = IF doc.cursor = 0 THEN doc
                 ELSE [SnapshotWritten(state, through) EXCEPT !.floor = through]
      BY DEF CompactCommit, state
    <2>4. CASE doc.cursor = 0
      BY <2>2, <2>3, <2>4
    <2>5. CASE doc.cursor # 0 /\ lags
      BY <1>0, <1>1, <2>1, <2>2, <2>3, <2>5 DEF SnapshotWritten
    <2>6. CASE doc.cursor # 0 /\ ~lags
      BY <1>0, <1>1, <2>2, <2>3, <2>6 DEF SnapshotWritten
    <2> QED
      BY <2>4, <2>5, <2>6
  <1>5. /\ cache' \in [Conn -> State]
        /\ \A d \in Conn : cache'[d] = cache[d] \/ Correct(cache'[d])
        /\ doc.cursor > 0 => Correct(cache'[c])
    <2> HIDE DEF state
    <2>1. CASE lags
      <3>1. /\ [state EXCEPT !.snapshotCursor = state.cursor] \in State
            /\ Correct([state EXCEPT !.snapshotCursor = state.cursor])
        BY <1>0, <1>1, BoundsAssumption
           DEF State, Correct, Coherent, EpochsAreFresh, TypeOK, NoEpoch
      <3>2. cache' = [cache EXCEPT ![c] = [state EXCEPT !.snapshotCursor = state.cursor]]
        BY <2>1 DEF CompactCommit, state
      <3>3. cache \in [Conn -> State]
        BY DEF Coherent, TypeOK
      <3> QED
        BY <3>1, <3>2, <3>3
    <2>2. CASE ~lags
      <3>1. cache' = Remembered(c)
        BY <2>2 DEF CompactCommit, state
      <3> QED
        BY <3>1, RememberedIsCorrect
    <2> QED
      BY <2>1, <2>2
  <1>6. compacting' \in [Conn -> SUBSET (0..MaxSeq)]
    BY DEF CompactCommit, Coherent, TypeOK
  <1>7. UNCHANGED <<epoch, minted, replicas, acked>>
    BY DEF CompactCommit
  <1> HIDE DEF state, lags
  <1>8. TypeOK'
    BY <1>2, <1>4, <1>5, <1>6, <1>7 DEF Coherent, TypeOK
  <1>9. SnapshotIsPrefix'
    <2>1. doc'.snapshotCursor <= doc'.cursor
      BY <1>0, <1>4 DEF Coherent, SnapshotIsPrefix
    <2>2. (doc.snapshot = History(doc.snapshotCursor))'
      <3>1. doc'.snapshotCursor \in 0..doc.cursor
        BY <1>0, <1>4 DEF Coherent, SnapshotIsPrefix
      <3>2. doc'.snapshot = History(doc'.snapshotCursor)
        BY <1>0, <1>4 DEF Coherent, SnapshotIsPrefix
      <3> QED
        BY <1>3, <3>1, <3>2
    <2>3. ASSUME NEW r \in operations', r.sequence > doc'.snapshotCursor
          PROVE  r.input # Compacted
      \* The payload went only if `through` reached it, and the stored snapshot
      \* holds everything up to `through` by now, or to the cursor if that is less.
      <3>1. PICK s \in operations :
              r = IF s.sequence <= through THEN [s EXCEPT !.input = Compacted] ELSE s
        BY DEF CompactCommit
      <3>2. s \in OperationRow
        BY DEF Coherent, TypeOK
      <3>3. r.sequence = s.sequence /\ s.sequence \in 1..doc.cursor
        BY <3>1, <3>2 DEF OperationRow, Coherent, RowsWellFormed
      <3>4. doc.cursor # 0 /\ s.sequence > doc.snapshotCursor
        BY <1>0, <1>4, <2>3, <3>3
      <3>5. s.sequence > through
        BY <1>0, <1>1, <1>4, <2>3, <3>3, <3>4 DEF lags
      <3> QED
        BY <1>0, <3>1, <3>3, <3>4, <3>5 DEF Coherent, SnapshotIsPrefix
    <2> QED
      BY <2>1, <2>2, <2>3 DEF SnapshotIsPrefix
  <1>10. EpochsAreFresh'
    BY <1>4, <1>5, <1>7 DEF Coherent, EpochsAreFresh, Correct
  <1> QED
    BY <1>0, <1>3, <1>4, <1>5, <1>7, <1>2, <1>8, <1>9, <1>10

LEMMA CompactStep ==
  ASSUME IInv, NEW c \in Conn, NEW through \in 0..MaxSeq, CompactCommit(c, through)
  PROVE  IInv'
  <1>1. /\ TypeOK' /\ RowsWellFormed' /\ SnapshotIsPrefix' /\ EpochsAreFresh'
        /\ doc'.cursor = doc.cursor /\ doc.cursor \in 0..MaxSeq
        /\ \A n \in 0..doc.cursor : History(n)' = History(n)
        /\ \A d \in Conn : cache'[d] = cache[d] \/ Correct(cache'[d])
        /\ UNCHANGED epoch
    BY CompactTables, IInvCoherent
  <1>2. CacheIsPrefix'
    <2> SUFFICES ASSUME NEW d \in Conn, cache'[d].epoch = epoch, epoch # NoEpoch
                 PROVE  /\ cache'[d].cursor <= doc.cursor
                        /\ (cache[d].snapshot = History(cache[d].cursor))'
      BY <1>1 DEF CacheIsPrefix
    <2>1. /\ cache'[d].cursor \in 0..doc.cursor
          /\ cache'[d].snapshot = History(cache'[d].cursor)
      BY <1>1, BoundsAssumption DEF IInv, CacheIsPrefix, Correct, TypeOK, State
    <2> QED
      BY <1>1, <2>1
  <1> QED
    BY <1>1, <1>2 DEF IInv

\* A commit stores the history with the new entry at its end, and the state it
\* leaves to be remembered is that history.
LEMMA CommitTables ==
  ASSUME Coherent, NEW c \in Conn, NEW op \in Operation, NEW actor \in Actor,
         CommitPrepared(Materialize(c), op, actor)
  PROVE  /\ doc' \in [cursor : 0..MaxSeq, snapshot : Snapshots,
                      snapshotCursor : 0..MaxSeq, floor : 0..MaxSeq]
         /\ operations' \subseteq OperationRow
         /\ replicas' \in [Replica -> Actor \cup {NoActor}]
         /\ RowsWellFormed' /\ SnapshotIsPrefix'
         /\ doc'.cursor = doc.cursor + 1 /\ doc.cursor + 1 \in 1..MaxSeq
         /\ \A i \in 0..doc.cursor : History(i)' = History(i)
         /\ epoch' \in 1..MaxEpoch /\ minted' \in 0..MaxEpoch
         /\ epoch' <= minted' /\ minted <= minted'
         /\ epoch # NoEpoch => epoch' = epoch
         /\ epoch = NoEpoch => epoch' = minted + 1
         /\ \A s : s = Committing(Materialize(c), op, actor) =>
              s \in State /\ Correct(s)' /\ s.last = op.id
  <1> DEFINE state == Materialize(c)
             entry == [op |-> op, actor |-> actor]
             reduced == Reduce(state, entry)
             n == doc.cursor + 1
  <1>0. /\ doc.cursor \in 0..MaxSeq /\ doc.snapshotCursor \in 0..MaxSeq
        /\ doc.cursor \in Nat
        /\ MaxSeq \in Nat /\ MaxEpoch \in Nat /\ SnapshotEvery \in Nat
        /\ entry \in Entry
    BY BoundsAssumption, SnapshotEveryAssumption DEF Coherent, TypeOK, Entry
  <1>1. /\ state \in State
        /\ state.cursor = doc.cursor
        /\ state.snapshotCursor = doc.snapshotCursor
        /\ state.snapshot = History(doc.cursor)
    BY MaterializeIsHistory
  <1>2. /\ RowsWellFormed'
        /\ operations' \subseteq OperationRow
        /\ doc'.cursor = n
        /\ n \in 1..MaxSeq
        /\ \A i \in 1..doc.cursor : CommittedAt(i)' = CommittedAt(i)
        /\ \A i : i = n => CommittedAt(i)' = entry /\ LastOp(i)' = op.id
    BY CommitRows
  <1>3. \A i \in 0..doc.cursor : History(i)' = History(i)
    BY <1>0, <1>2 DEF History
  <1>4. \A i : i = n => History(i)' = reduced
    BY <1>0, <1>1, <1>2 DEF History, Reduce
  <1>5. reduced \in Snapshots
    <2>1. \A i \in 1..doc.cursor : CommittedAt(i) \in Entry
      BY EntryTypes DEF Coherent
    <2>2. reduced \in [1..n -> Entry]
      BY <1>0, <1>1, <2>1 DEF Reduce, History
    <2> QED
      BY <1>0, <1>2, <2>2 DEF Snapshots
  <1> HIDE DEF reduced, state
  <1>6. doc' = RowAfter(state, reduced)
    BY DEF CommitPrepared, state, reduced
  <1>7. /\ doc' \in [cursor : 0..MaxSeq, snapshot : Snapshots,
                     snapshotCursor : 0..MaxSeq, floor : 0..MaxSeq]
        /\ \/ doc'.snapshot = reduced /\ doc'.snapshotCursor = n
           \/ doc'.snapshot = doc.snapshot /\ doc'.snapshotCursor = doc.snapshotCursor
    <2>1. doc \in [cursor : 0..MaxSeq, snapshot : Snapshots,
                   snapshotCursor : 0..MaxSeq, floor : 0..MaxSeq]
      BY DEF Coherent, TypeOK
    <2>2. CASE n - doc.snapshotCursor >= SnapshotEvery
      <3>1. doc' = [cursor |-> n, snapshot |-> reduced,
                    snapshotCursor |-> n, floor |-> doc.floor]
        BY <1>1, <1>6, <2>2 DEF RowAfter
      <3> QED
        BY <1>2, <1>5, <2>1, <3>1
    <2>3. CASE ~(n - doc.snapshotCursor >= SnapshotEvery)
      <3>1. doc' = [doc EXCEPT !.cursor = n]
        BY <1>1, <1>6, <2>3 DEF RowAfter
      <3> QED
        BY <1>2, <2>1, <3>1
    <2> QED
      BY <2>2, <2>3
  <1>8. /\ epoch' \in 1..MaxEpoch /\ minted' \in 0..MaxEpoch
        /\ epoch' <= minted' /\ minted <= minted'
        /\ epoch # NoEpoch => epoch' = epoch
        /\ epoch = NoEpoch => epoch' = minted + 1
    BY <1>0 DEF CommitPrepared, NoEpoch, Coherent, TypeOK, EpochsAreFresh
  <1>9. \A s : s = Committing(state, op, actor) =>
          s \in State /\ Correct(s)' /\ s.last = op.id
    <2> SUFFICES ASSUME NEW s, s = Committing(state, op, actor)
                 PROVE  s \in State /\ Correct(s)' /\ s.last = op.id
      OBVIOUS
    <2>1. s = [snapshot |-> reduced, cursor |-> n,
               snapshotCursor |-> doc'.snapshotCursor,
               last |-> op.id, epoch |-> epoch']
      BY <1>2, <1>6 DEF Committing, reduced
    <2>2. s \in State
      BY <1>2, <1>5, <1>7, <1>8, <2>1 DEF State, Operation
    <2>3. Correct(s)'
      BY <1>2, <1>4, <1>8, <2>1 DEF Correct
    <2> QED
      BY <2>1, <2>2, <2>3
  <1>10. SnapshotIsPrefix'
    <2>1. /\ doc.snapshotCursor \in 0..doc.cursor
          /\ doc.snapshot = History(doc.snapshotCursor)
      BY <1>0 DEF Coherent, SnapshotIsPrefix
    <2>2. doc'.snapshotCursor <= doc'.cursor
      BY <1>0, <1>2, <1>7, <2>1
    <2>3. (doc.snapshot = History(doc.snapshotCursor))'
      BY <1>3, <1>4, <1>7, <2>1
    <2>4. ASSUME NEW r \in operations', r.sequence > doc'.snapshotCursor
          PROVE  r.input # Compacted
      <3>1. \/ r.input = entry
            \/ r \in operations
        BY DEF CommitPrepared
      <3>2. CASE r.input = entry
        BY <1>0, <3>2, NullsAssumption
      <3>3. CASE r \in operations
        <4>1. r.sequence \in 1..doc.cursor
          BY <3>3 DEF Coherent, RowsWellFormed
        <4>2. doc'.snapshotCursor = doc.snapshotCursor
          BY <1>0, <1>7, <2>4, <4>1
        <4> QED
          BY <2>4, <3>3, <4>2 DEF Coherent, SnapshotIsPrefix
      <3> QED
        BY <3>1, <3>2, <3>3
    <2> QED
      BY <2>2, <2>3, <2>4 DEF SnapshotIsPrefix
  <1>11. replicas' \in [Replica -> Actor \cup {NoActor}]
    BY DEF CommitPrepared, Coherent, TypeOK, Operation
  <1> QED
    BY <1>2, <1>3, <1>7, <1>8, <1>9, <1>10, <1>11 DEF state

\* A commit remembers the history with the new entry at its end.
LEMMA CommitStep ==
  ASSUME IInv, NEW c \in Conn, NEW op \in Operation, NEW actor \in Actor,
         AppendCommitted(c, op, actor)
  PROVE  IInv'
  <1>0. /\ doc.cursor \in Nat /\ epoch \in Nat /\ minted \in Nat
        /\ cache \in [Conn -> State]
    BY BoundsAssumption DEF IInv, TypeOK
  <1> DEFINE mine == Committing(Materialize(c), op, actor)
  <1>1. /\ CommitPrepared(Materialize(c), op, actor)
        /\ cache' = [cache EXCEPT ![c] = mine]
        /\ acked' = acked \cup {Ack(op, actor, Materialize(c).cursor + 1)}
        /\ compacting' = compacting
    BY DEF AppendCommitted
  <1>2. /\ doc' \in [cursor : 0..MaxSeq, snapshot : Snapshots,
                     snapshotCursor : 0..MaxSeq, floor : 0..MaxSeq]
        /\ operations' \subseteq OperationRow
        /\ replicas' \in [Replica -> Actor \cup {NoActor}]
        /\ RowsWellFormed' /\ SnapshotIsPrefix'
        /\ doc'.cursor = doc.cursor + 1 /\ doc.cursor + 1 \in 1..MaxSeq
        /\ \A i \in 0..doc.cursor : History(i)' = History(i)
        /\ epoch' \in 1..MaxEpoch /\ minted' \in 0..MaxEpoch
        /\ epoch' <= minted' /\ minted <= minted'
        /\ epoch # NoEpoch => epoch' = epoch
        /\ epoch = NoEpoch => epoch' = minted + 1
        /\ \A s : s = mine => s \in State /\ Correct(s)'
    BY <1>1, CommitTables, IInvCoherent
  <1> HIDE DEF mine
  <1>3. \A d \in Conn : cache'[d] = IF d = c THEN mine ELSE cache[d]
    BY <1>0, <1>1
  <1>4. TypeOK'
    <2>1. acked' \subseteq [op : Operation, actor : Actor, sequence : 1..MaxSeq]
      BY <1>1, <1>2, MaterializeCursor DEF Ack, IInv, TypeOK
    <2>2. cache' \in [Conn -> State]
      BY <1>0, <1>1, <1>2
    <2>3. epoch' \in 0..MaxEpoch
      BY <1>2, BoundsAssumption
    <2> QED
      BY <1>1, <1>2, <2>1, <2>2, <2>3 DEF IInv, TypeOK
  <1>5. EpochsAreFresh'
    <2>1. \A d \in Conn : cache'[d].epoch <= minted'
      <3> SUFFICES ASSUME NEW d \in Conn
                   PROVE  cache'[d].epoch <= minted'
        OBVIOUS
      <3>1. CASE d = c
        BY <1>2, <1>3, <3>1 DEF Correct
      <3>2. CASE d # c
        BY <1>0, <1>2, <1>3, <3>2, BoundsAssumption DEF IInv, EpochsAreFresh, State
      <3> QED
        BY <3>1, <3>2
    <2> QED
      BY <1>2, <2>1 DEF EpochsAreFresh, NoEpoch
  <1>6. CacheIsPrefix'
    <2> SUFFICES ASSUME NEW d \in Conn, cache'[d].epoch = epoch'
                 PROVE  /\ cache'[d].cursor <= doc'.cursor
                        /\ (cache[d].snapshot = History(cache[d].cursor))'
      BY DEF CacheIsPrefix
    <2>1. CASE d = c
      <3>1. cache'[d].cursor = doc'.cursor /\ cache'[d].snapshot = History(doc.cursor)'
        BY <1>2, <1>3, <2>1 DEF Correct
      <3> QED
        BY <1>0, <1>2, <3>1
    <2>2. CASE d # c
      <3>1. cache'[d] = cache[d]
        BY <1>3, <2>2
      <3>2. cache[d].epoch <= minted /\ cache[d].epoch \in Nat
        BY <1>0, BoundsAssumption DEF IInv, EpochsAreFresh, State
      <3>3. epoch # NoEpoch /\ epoch' = epoch
        BY <1>0, <1>2, <3>1, <3>2
      <3>4. /\ cache[d].cursor \in 0..doc.cursor
            /\ cache[d].snapshot = History(cache[d].cursor)
        BY <1>0, <3>1, <3>3 DEF IInv, CacheIsPrefix, State
      <3> QED
        BY <1>0, <1>2, <3>1, <3>4
    <2> QED
      BY <2>1, <2>2
  <1> QED
    BY <1>2, <1>4, <1>5, <1>6 DEF IInv

THEOREM NextIInv == IInv /\ [Next]_vars => IInv'
  <1> SUFFICES ASSUME IInv, [Next]_vars PROVE IInv'
    OBVIOUS
  <1>0. /\ cache \in [Conn -> State]
        /\ compacting \in [Conn -> SUBSET (0..MaxSeq)]
        /\ acked \subseteq [op : Operation, actor : Actor, sequence : 1..MaxSeq]
    BY DEF IInv, TypeOK
  <1>1. CASE Epoch
    BY <1>1, EpochStep
  <1>2. ASSUME NEW op \in Operation, NEW actor \in Actor, AppendAgain(op, actor)
        PROVE  IInv'
    <2>1. acked' \subseteq [op : Operation, actor : Actor, sequence : 1..MaxSeq]
      BY <1>2 DEF AppendAgain, PriorRows, Ack, IInv, TypeOK, OperationRow
    <2> QED
      BY <1>0, <1>2, <2>1, QuietStep DEF AppendAgain
  <1>3. ASSUME NEW op \in Operation, NEW actor \in Actor, NEW c \in Conn,
               AppendRefused(c, op, actor)
        PROVE  IInv'
    BY <1>0, <1>3, QuietStep, RememberedIsCorrect, IInvCoherent DEF AppendRefused
  <1>4. ASSUME NEW op \in Operation, NEW actor \in Actor, NEW c \in Conn,
               AppendCommitted(c, op, actor)
        PROVE  IInv'
    BY <1>4, CommitStep
  <1>5. ASSUME NEW c \in Conn, NEW through \in 0..MaxSeq, CompactCheck(c, through)
        PROVE  IInv'
    <2>1. compacting' \in [Conn -> SUBSET (0..MaxSeq)]
      BY <1>0, <1>5 DEF CompactCheck
    <2> QED
      BY <1>0, <1>5, <2>1, QuietStep DEF CompactCheck
  <1>6. ASSUME NEW c \in Conn, NEW through \in 0..MaxSeq, CompactCommit(c, through)
        PROVE  IInv'
    BY <1>6, CompactStep
  <1>7. ASSUME NEW c \in Conn, Load(c)
        PROVE  IInv'
    BY <1>0, <1>7, QuietStep, RememberedIsCorrect, IInvCoherent DEF Load
  <1>8. ASSUME NEW c \in Conn, Reset(c)
        PROVE  IInv'
    BY <1>8, ResetStep
  <1>9. ASSUME NEW c \in Conn, Evict(c)
        PROVE  IInv'
    <2>1. /\ cache' \in [Conn -> State]
          /\ \A d \in Conn : cache'[d] \in {cache[d], EmptyState}
      BY <1>0, <1>9, EmptyStateTyped DEF Evict
    <2> QED
      BY <1>0, <1>9, <2>1, QuietStep DEF Evict
  <1>10. ASSUME NEW c \in Conn, Restart(c)
         PROVE  IInv'
    <2>1. /\ cache' \in [Conn -> State]
          /\ \A d \in Conn : cache'[d] \in {cache[d], EmptyState}
          /\ compacting' \in [Conn -> SUBSET (0..MaxSeq)]
      BY <1>0, <1>10, EmptyStateTyped DEF Restart
    <2> QED
      BY <1>0, <1>10, <2>1, QuietStep DEF Restart
  <1>11. CASE UNCHANGED vars
    BY <1>0, <1>11, QuietStep DEF vars
  <1> QED
    BY <1>1, <1>2, <1>3, <1>4, <1>5, <1>6, <1>7, <1>8, <1>9, <1>10, <1>11
       DEF Next, SomeAppend, SomeCompact

THEOREM JournalIInv == Spec => []IInv
  BY InitIInv, NextIInv, PTL DEF Spec
=============================================================================
