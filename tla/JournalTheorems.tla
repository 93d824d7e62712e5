--------------------------- MODULE JournalTheorems ---------------------------
(***************************************************************************)
(* What the inductive invariant of JournalProofs gives: the properties the *)
(* runs of MCJournal check, for every value of the constants, and that     *)
(* Journal implements CommittedLog.                                        *)
(***************************************************************************)
EXTENDS JournalProofs, FiniteSetTheorems, SequenceTheorems

\* The tables, the caches and the running compactions keep their types.
THEOREM TypeCorrect == Spec => []TypeOK
  <1>1. IInv => TypeOK
    BY DEF IInv
  <1> QED
    BY <1>1, JournalIInv, PTL

\* The unique constraints of `operations` never have to refuse a commit.
THEOREM DenseLog == Spec => []OneRowPerSequence
  <1>1. IInv => OneRowPerSequence
    BY DEF IInv, RowsWellFormed, OneRowPerSequence
  <1> QED
    BY <1>1, JournalIInv, PTL

\* A cold load folds exactly what was committed.
THEOREM StoredFaithful == Spec => []StoredStateFaithful
  <1>1. IInv => StoredStateFaithful
    BY ReplayedIsHistory DEF IInv, StoredStateFaithful
  <1> QED
    BY <1>1, JournalIInv, PTL

\* A cache hit is the committed state, whichever connection has it.
THEOREM CacheCoherent == Spec => []HitIsCurrent
  <1>1. IInv => HitIsCurrent
    BY IInvCoherent DEF Coherent
  <1> QED
    BY <1>1, JournalIInv, PTL

-----------------------------------------------------------------------------
(* Replicas and actors.                                                    *)

\* Every operation of a replica is the actor's the replica is bound to.
THEOREM OneActor == Spec => []ReplicaHasOneActor
  <1>1. Init => ReplicaHasOneActor
    BY DEF Init, ReplicaHasOneActor
  <1>2. IInv /\ ReplicaHasOneActor /\ [Next]_vars => ReplicaHasOneActor'
    <2> SUFFICES ASSUME IInv, ReplicaHasOneActor, [Next]_vars
                 PROVE  ReplicaHasOneActor'
      OBVIOUS
    <2>0. operations \subseteq OperationRow /\ replicas \in [Replica -> Actor \cup {NoActor}]
      BY DEF IInv, TypeOK
    <2>1. ASSUME UNCHANGED <<operations, replicas>>
          PROVE  ReplicaHasOneActor'
      BY <2>1 DEF ReplicaHasOneActor
    <2>2. ASSUME NEW op \in Operation, NEW actor \in Actor, NEW c \in Conn,
                 AppendCommitted(c, op, actor)
          PROVE  ReplicaHasOneActor'
      <3> SUFFICES ASSUME NEW r \in operations'
                   PROVE  replicas'[r.hash.replica] = r.actor
        BY DEF ReplicaHasOneActor
      <3>1. /\ replicas' = [replicas EXCEPT ![op.replica] = actor]
            /\ replicas[op.replica] \in {NoActor, actor}
            /\ r \in operations \/ (r.hash = op /\ r.actor = actor)
        BY <2>2 DEF AppendCommitted, CommitPrepared, Bindable
      <3>2. CASE r \in operations
        BY <2>0, <3>1, <3>2, NullsAssumption DEF ReplicaHasOneActor, OperationRow, Operation
      <3>3. CASE r.hash = op /\ r.actor = actor
        BY <2>0, <3>1, <3>3 DEF Operation
      <3> QED
        BY <3>1, <3>2, <3>3
    <2>3. ASSUME NEW c \in Conn, NEW through \in 0..MaxSeq, CompactCommit(c, through)
          PROVE  ReplicaHasOneActor'
      BY <2>0, <2>3 DEF CompactCommit, ReplicaHasOneActor, OperationRow
    <2>4. ASSUME NEW c \in Conn, Reset(c)
          PROVE  ReplicaHasOneActor'
      BY <2>4 DEF Reset, ReplicaHasOneActor
    <2> QED
      BY <2>1, <2>2, <2>3, <2>4
         DEF Next, SomeAppend, SomeCompact, Epoch, AppendAgain, AppendRefused, CompactCheck,
             Load, Evict, Restart, vars
  <1> QED
    BY <1>1, <1>2, JournalIInv, PTL DEF Spec

\* A bound replica stays its actor's, whatever is reset.
THEOREM ReplicasStay == Spec => BindingsStand
  <1>1. IInv /\ [Next]_vars =>
          [\A r \in Replica : replicas[r] # NoActor => replicas'[r] = replicas[r]]_vars
    <2> SUFFICES ASSUME IInv, Next, NEW r \in Replica, replicas[r] # NoActor
                 PROVE  replicas'[r] = replicas[r]
      OBVIOUS
    <2>1. replicas \in [Replica -> Actor \cup {NoActor}]
      BY DEF IInv, TypeOK
    <2>2. ASSUME NEW op \in Operation, NEW actor \in Actor, NEW c \in Conn,
                 AppendCommitted(c, op, actor)
          PROVE  replicas'[r] = replicas[r]
      BY <2>1, <2>2 DEF AppendCommitted, CommitPrepared, Bindable
    <2> QED
      BY <2>2 DEF Next, SomeAppend, SomeCompact, Epoch, AppendAgain, AppendRefused, CompactCheck,
                  CompactCommit, Load, Reset, Evict, Restart
  <1> QED
    BY <1>1, JournalIInv, PTL DEF Spec, BindingsStand

-----------------------------------------------------------------------------
(* Exactly once.                                                           *)

AckedHasRow ==
  \A a \in acked : \E r \in operations :
    r.hash = a.op /\ r.actor = a.actor /\ r.sequence = a.sequence

\* Whatever was answered committed is committed once, where it was answered.
THEOREM ExactlyOnce == Spec => []AckedOnce
  <1>1. Init => AckedHasRow
    BY DEF Init, AckedHasRow
  <1>2. IInv /\ AckedHasRow /\ [Next]_vars => AckedHasRow'
    <2> SUFFICES ASSUME IInv, AckedHasRow, [Next]_vars
                 PROVE  AckedHasRow'
      OBVIOUS
    <2>0. operations \subseteq OperationRow
      BY DEF IInv, TypeOK
    <2>1. ASSUME UNCHANGED <<operations, acked>>
          PROVE  AckedHasRow'
      BY <2>1 DEF AckedHasRow
    <2>2. ASSUME NEW op \in Operation, NEW actor \in Actor, AppendAgain(op, actor)
          PROVE  AckedHasRow'
      <3>1. PICK r \in operations : /\ r.hash = op /\ r.actor = actor
                                    /\ acked' = acked \cup {Ack(op, r.actor, r.sequence)}
        BY <2>2 DEF AppendAgain, PriorRows, Same
      <3>2. operations' = operations
        BY <2>2 DEF AppendAgain
      <3> QED
        BY <3>1, <3>2 DEF AckedHasRow, Ack
    <2>3. ASSUME NEW op \in Operation, NEW actor \in Actor, NEW c \in Conn,
                 AppendCommitted(c, op, actor)
          PROVE  AckedHasRow'
      <3> DEFINE sequence == Materialize(c).cursor + 1
                 row == [id |-> op.id, sequence |-> sequence, actor |-> actor,
                         input |-> [op |-> op, actor |-> actor], hash |-> op]
      <3>1. /\ operations' = operations \cup {row}
            /\ acked' = acked \cup {Ack(op, actor, sequence)}
        BY <2>3 DEF AppendCommitted, CommitPrepared
      <3>2. row.hash = op /\ row.actor = actor /\ row.sequence = sequence
        OBVIOUS
      <3> HIDE DEF row, sequence
      <3> QED
        BY <3>1, <3>2 DEF AckedHasRow, Ack
    <2>4. ASSUME NEW c \in Conn, NEW through \in 0..MaxSeq, CompactCommit(c, through)
          PROVE  AckedHasRow'
      <3> SUFFICES ASSUME NEW a \in acked
                   PROVE  \E r \in operations' :
                            r.hash = a.op /\ r.actor = a.actor /\ r.sequence = a.sequence
        BY <2>4 DEF CompactCommit, AckedHasRow
      <3> DEFINE Drop(r) == IF r.sequence <= through
                            THEN [r EXCEPT !.input = Compacted] ELSE r
      <3>1. PICK r \in operations :
              r.hash = a.op /\ r.actor = a.actor /\ r.sequence = a.sequence
        BY DEF AckedHasRow
      <3>2. Drop(r) \in operations'
        BY <2>4 DEF CompactCommit
      <3>3. /\ Drop(r).hash = r.hash /\ Drop(r).actor = r.actor
            /\ Drop(r).sequence = r.sequence
        BY <2>0 DEF OperationRow
      <3> HIDE DEF Drop
      <3> QED
        BY <3>1, <3>2, <3>3
    <2>5. ASSUME NEW c \in Conn, Reset(c)
          PROVE  AckedHasRow'
      BY <2>5 DEF Reset, AckedHasRow
    <2> QED
      BY <2>1, <2>2, <2>3, <2>4, <2>5
         DEF Next, SomeAppend, SomeCompact, Epoch, AppendRefused, CompactCheck,
             Load, Evict, Restart, vars
  <1>3. IInv /\ AckedHasRow => AckedOnce
    <2> SUFFICES ASSUME IInv, AckedHasRow, NEW a \in acked, NEW b \in acked,
                        a.op.id = b.op.id
                 PROVE  a = b
      BY DEF AckedOnce, AckedHasRow
    <2>1. PICK r \in operations :
            r.hash = a.op /\ r.actor = a.actor /\ r.sequence = a.sequence
      BY DEF AckedHasRow
    <2>2. PICK s \in operations :
            s.hash = b.op /\ s.actor = b.actor /\ s.sequence = b.sequence
      BY DEF AckedHasRow
    <2>3. r = s
      BY <2>1, <2>2 DEF IInv, RowsWellFormed
    <2> QED
      BY <2>1, <2>2, <2>3 DEF IInv, TypeOK
  <1> QED
    BY <1>1, <1>2, <1>3, JournalIInv, PTL DEF Spec

-----------------------------------------------------------------------------
(* The floor.                                                              *)

\* With one compaction at a time no payload above the floor is ever missing.
LEMMA FloorStep ==
  ASSUME MaxCompactions = 1, IInv, FloorCovers, [Next]_vars
  PROVE  FloorCovers'
  <1>0. /\ operations \subseteq OperationRow
        /\ doc.cursor \in 0..MaxSeq /\ doc.floor \in 0..MaxSeq
        /\ compacting \in [Conn -> SUBSET (0..MaxSeq)]
        /\ MaxSeq \in Nat
    BY BoundsAssumption DEF IInv, TypeOK
  <1>1. ASSUME UNCHANGED <<doc, operations, compacting>>
        PROVE  FloorCovers'
    BY <1>1 DEF FloorCovers, InFlight
  <1>2. ASSUME NEW op \in Operation, NEW actor \in Actor, NEW c \in Conn,
               AppendCommitted(c, op, actor)
        PROVE  FloorCovers'
    <2>1. doc'.floor = doc.floor
      BY <1>2 DEF AppendCommitted, CommitPrepared, RowAfter, IInv, TypeOK
    <2>2. \A r \in operations' : r \in operations \/ r.input = [op |-> op, actor |-> actor]
      BY <1>2 DEF AppendCommitted, CommitPrepared
    <2>3. [op |-> op, actor |-> actor] # Compacted
      BY NullsAssumption DEF Entry
    <2>4. compacting' = compacting
      BY <1>2 DEF AppendCommitted
    <2> QED
      BY <2>1, <2>2, <2>3, <2>4 DEF FloorCovers, InFlight
  <1>3. ASSUME NEW c \in Conn, NEW through \in 0..MaxSeq, CompactCheck(c, through)
        PROVE  FloorCovers'
    <2>1. InFlight = {}
      <3> SUFFICES ASSUME NEW x, InFlight = {x} PROVE FALSE
        BY DEF FloorCovers
      <3>1. Cardinality({x}) = 1
        BY FS_Singleton
      <3> QED
        BY <1>3, <3>1 DEF CompactCheck
    <2>2. \A d \in Conn : compacting[d] = {}
      <3> SUFFICES ASSUME NEW d \in Conn, NEW t \in compacting[d] PROVE FALSE
        OBVIOUS
      <3>1. <<d, t>> \in Conn \X (0..MaxSeq)
        BY <1>0
      <3> QED
        BY <2>1, <3>1 DEF InFlight
    <2>3. compacting' = [compacting EXCEPT ![c] = {through}]
      BY <1>3, <2>2 DEF CompactCheck
    <2>4. InFlight' = {<<c, through>>}
      BY <1>0, <2>2, <2>3 DEF InFlight
    <2>5. doc' = doc /\ operations' = operations /\ through >= doc.floor
      BY <1>3 DEF CompactCheck
    <2> QED
      BY <1>0, <2>2, <2>3, <2>4, <2>5 DEF FloorCovers
  <1>4. ASSUME NEW c \in Conn, NEW through \in 0..MaxSeq, CompactCommit(c, through)
        PROVE  FloorCovers'
    <2>1. InFlight = {<<c, through>>} /\ through >= doc.floor
      <3>1. <<c, through>> \in InFlight
        BY <1>4 DEF CompactCommit, InFlight
      <3> QED
        BY <1>4, <3>1 DEF FloorCovers, CompactCommit
    <2>2. \A d \in Conn : compacting'[d] = {}
      <3> SUFFICES ASSUME NEW d \in Conn, NEW t \in compacting'[d] PROVE FALSE
        OBVIOUS
      <3>1. t \in compacting[d] /\ <<d, t>> # <<c, through>>
        BY <1>0, <1>4 DEF CompactCommit
      <3>2. <<d, t>> \in InFlight
        BY <1>0, <3>1 DEF InFlight
      <3> QED
        BY <2>1, <3>1, <3>2
    <2>3. InFlight' = {}
      BY <2>2 DEF InFlight
    <2>4. \A r \in operations' : r.input = Compacted => r.sequence <= doc'.floor
      <3>1. CASE doc.cursor = 0
        <4>1. operations = {}
          BY <1>0, <3>1 DEF IInv, RowsWellFormed
        <4> QED
          BY <1>4, <4>1 DEF CompactCommit
      <3>2. CASE doc.cursor # 0
        <4>1. doc'.floor = through
          BY <1>4, <3>2 DEF CompactCommit, SnapshotWritten, IInv, TypeOK
        <4>2. ASSUME NEW r \in operations', r.input = Compacted
              PROVE  r.sequence <= through
          <5>1. PICK s \in operations :
                  r = IF s.sequence <= through THEN [s EXCEPT !.input = Compacted] ELSE s
            BY <1>4 DEF CompactCommit
          <5>2. r.sequence = s.sequence /\ s.sequence \in 1..MaxSeq
            BY <1>0, <5>1 DEF OperationRow
          <5>3. CASE s.sequence <= through
            BY <5>2, <5>3
          <5>4. CASE ~(s.sequence <= through)
            BY <1>0, <2>1, <4>2, <5>1, <5>2, <5>4 DEF FloorCovers
          <5> QED
            BY <5>3, <5>4
        <4> QED
          BY <4>1, <4>2
      <3> QED
        BY <3>1, <3>2
    <2> QED
      BY <2>2, <2>3, <2>4 DEF FloorCovers
  <1>5. ASSUME NEW c \in Conn, Reset(c)
        PROVE  FloorCovers'
    <2>1. InFlight' = InFlight
      BY <1>5 DEF Reset, InFlight
    <2>2. /\ operations' = {} /\ compacting' = compacting
          /\ doc'.floor = 0
      BY <1>5 DEF Reset, NoRow
    <2>3. \A d \in Conn : \A t \in compacting[d] : t >= 0
      BY <1>0
    <2> QED
      BY <2>1, <2>2, <2>3 DEF FloorCovers
  <1>6. ASSUME NEW c \in Conn, Restart(c)
        PROVE  FloorCovers'
    <2>1. \A d \in Conn : compacting'[d] \subseteq compacting[d]
      BY <1>0, <1>6 DEF Restart
    <2>2. InFlight' \subseteq InFlight
      BY <2>1 DEF InFlight
    <2>3. doc' = doc /\ operations' = operations
      BY <1>6 DEF Restart
    <2> QED
      BY <2>1, <2>2, <2>3 DEF FloorCovers
  <1> QED
    BY <1>1, <1>2, <1>3, <1>4, <1>5, <1>6
       DEF Next, SomeAppend, SomeCompact, Epoch, AppendAgain, AppendRefused,
           Load, Evict, vars

LEMMA CoveredTail ==
  ASSUME IInv, FloorCovers
  PROVE  TailComplete
  <1>0. doc.cursor \in Nat /\ operations \subseteq OperationRow
    BY BoundsAssumption DEF IInv, TypeOK
  <1> SUFFICES ASSUME NEW after \in 0..doc.cursor, ReadPage(after).tag = "Page"
               PROVE  {r.sequence : r \in ReadPage(after).page} = (after + 1)..doc.cursor
    BY DEF TailComplete
  <1>1. /\ after >= doc.floor
        /\ ReadPage(after).page
             = {r \in operations : r.sequence > after /\ r.input # Compacted}
    BY DEF ReadPage, IInv, TypeOK
  <1>2. ASSUME NEW r \in ReadPage(after).page
        PROVE  r.sequence \in (after + 1)..doc.cursor
    BY <1>0, <1>1 DEF IInv, RowsWellFormed
  <1>3. ASSUME NEW n \in (after + 1)..doc.cursor
        PROVE  \E r \in ReadPage(after).page : r.sequence = n
    <2>1. PICK r \in operations : r.sequence = n
      BY <1>0 DEF IInv, RowsWellFormed
    <2>2. r.input # Compacted
      BY <1>0, <1>1, <2>1 DEF FloorCovers, IInv, TypeOK
    <2> QED
      BY <1>0, <1>1, <2>1, <2>2
  <1> QED
    BY <1>2, <1>3

\* With one compaction at a time, read never answers a tail that starts late.
THEOREM NoShortTail ==
  ASSUME MaxCompactions = 1
  PROVE  Spec => []TailComplete
  <1>1. Init => FloorCovers
    BY DEF Init, NoRow, FloorCovers, InFlight
  <1>2. IInv /\ FloorCovers /\ [Next]_vars => FloorCovers'
    BY FloorStep
  <1>3. IInv /\ FloorCovers => TailComplete
    BY CoveredTail
  <1> QED
    BY <1>1, <1>2, <1>3, JournalIInv, PTL DEF Spec

-----------------------------------------------------------------------------
(* The journal is a log.                                                   *)

\* A commit appends its entry to the log a cold connection loads.
LEMMA CommitAppends ==
  ASSUME IInv, NEW c \in Conn, NEW op \in Operation, NEW actor \in Actor,
         AppendCommitted(c, op, actor), Replayed = History(doc.cursor),
         (Replayed = History(doc.cursor))'
  PROVE  Log!Commit
  <1> DEFINE entry == [op |-> op, actor |-> actor]
  <1>0. doc.cursor \in Nat
    BY BoundsAssumption DEF IInv, TypeOK
  <1>1. /\ doc'.cursor = doc.cursor + 1
        /\ \A n \in 1..doc.cursor : CommittedAt(n)' = CommittedAt(n)
        /\ \A n : n = doc.cursor + 1 => CommittedAt(n)' = entry
    BY CommitRows, IInvCoherent DEF AppendCommitted
  <1>2. entry \in Log!Entry
    BY DEF Log!Entry, Entry
  <1>3. \A i \in DOMAIN Replayed : Replayed[i].op.id # entry.op.id
    <2> SUFFICES ASSUME NEW i \in 1..doc.cursor
                 PROVE  CommittedAt(i).op.id # op.id
      BY DEF History
    <2>1. PICK r \in operations : r.sequence = i
      BY DEF IInv, RowsWellFormed
    <2>2. CommittedAt(i) = [op |-> r.hash, actor |-> r.actor]
      BY <2>1, Columns DEF IInv, RowsWellFormed, OneRow
    <2>3. r.id # op.id /\ r.id = r.hash.id
      BY DEF AppendCommitted, CommitPrepared, PriorRows, IInv, RowsWellFormed
    <2> QED
      BY <2>2, <2>3
  <1>4. Replayed' = [i \in 1..(doc.cursor + 1) |->
                       IF i <= doc.cursor THEN CommittedAt(i) ELSE entry]
    BY <1>0, <1>1 DEF History
  <1>5. Append(Replayed, entry) = [i \in 1..(doc.cursor + 1) |->
                       IF i <= doc.cursor THEN CommittedAt(i) ELSE entry]
    <2>1. \A i \in 1..doc.cursor : CommittedAt(i) \in Entry
      BY EntryTypes DEF IInv
    <2>2. Replayed \in Seq(Entry) /\ Len(Replayed) = doc.cursor
      BY <1>0, <2>1 DEF History
    <2>3. entry \in Entry
      BY DEF Entry
    <2>4. /\ Append(Replayed, entry) \in Seq(Entry)
          /\ Len(Append(Replayed, entry)) = doc.cursor + 1
          /\ \A i \in 1..doc.cursor : Append(Replayed, entry)[i] = CommittedAt(i)
          /\ Append(Replayed, entry)[doc.cursor + 1] = entry
      BY <1>0, <2>2, <2>3, AppendProperties DEF History
    <2> QED
      BY <1>0, <2>4
  <1>6. IF epoch = 0
        THEN epoch' \in Nat \ ((1..minted) \cup {0}) /\ 1..minted' = (1..minted) \cup {epoch'}
        ELSE epoch' = epoch /\ minted' = minted
    BY BoundsAssumption DEF AppendCommitted, CommitPrepared, NoEpoch, IInv, TypeOK
  <1> QED
    BY <1>2, <1>3, <1>4, <1>5, <1>6 DEF Log!Commit, Log!CommitEntry, Log!Begin

LEMMA StepIsLogStep ==
  ASSUME IInv, IInv', Replayed = History(doc.cursor),
         (Replayed = History(doc.cursor))', [Next]_vars
  PROVE  [Log!Next]_Log!vars
  <1>1. ASSUME UNCHANGED <<doc, operations, epoch, minted>>
        PROVE  UNCHANGED Log!vars
    BY <1>1 DEF Log!vars, Replayed, InputAt, RowsAt
  <1>2. CASE Epoch
    <2>1. Replayed' = Replayed
      BY <1>2 DEF Epoch, Replayed, InputAt, RowsAt
    <2>2. epoch' \in Nat \ ((1..minted) \cup {0}) /\ 1..minted' = (1..minted) \cup {epoch'}
      BY <1>2, BoundsAssumption DEF Epoch, NoEpoch, IInv, TypeOK
    <2> QED
      BY <1>2, <2>1, <2>2 DEF Epoch, NoEpoch, Log!Next, Log!Open, Log!Begin
  <1>3. ASSUME NEW op \in Operation, NEW actor \in Actor, NEW c \in Conn,
               AppendCommitted(c, op, actor)
        PROVE  Log!Next
    BY <1>3, CommitAppends DEF Log!Next
  <1>4. ASSUME NEW c \in Conn, NEW through \in 0..MaxSeq, CompactCommit(c, through)
        PROVE  UNCHANGED Log!vars
    <2>1. doc'.cursor = doc.cursor
      BY <1>4 DEF CompactCommit, SnapshotWritten, IInv, TypeOK
    <2>2. \A n \in 1..doc.cursor : CommittedAt(n)' = CommittedAt(n)
      BY <1>4, CompactRows, IInvCoherent
    <2>3. Replayed' = Replayed
      BY <2>1, <2>2 DEF History
    <2>4. epoch' = epoch /\ minted' = minted
      BY <1>4 DEF CompactCommit
    <2> QED
      BY <2>3, <2>4 DEF Log!vars
  <1>5. ASSUME NEW c \in Conn, Reset(c)
        PROVE  Log!Next
    BY <1>5 DEF Reset, NoRow, NoEpoch, Replayed, Log!Next, Log!Reset
  <1> QED
    BY <1>1, <1>2, <1>3, <1>4, <1>5
       DEF Next, SomeAppend, SomeCompact, AppendAgain, AppendRefused, CompactCheck,
           Load, Evict, Restart, vars

\* Every journal is a CommittedLog: whatever its connections cache, snapshot,
\* compact and reset, operations are committed once, in one order.
THEOREM JournalIsALog == Spec => IsALog
  <1>1. Init => Log!Init
    BY DEF Init, NoRow, NoEpoch, Log!Init, Replayed
  <1>2. IInv => Replayed = History(doc.cursor)
    BY ReplayedIsHistory DEF IInv
  <1>3. IInv /\ IInv' /\ Replayed = History(doc.cursor)
          /\ (Replayed = History(doc.cursor))' /\ [Next]_vars => [Log!Next]_Log!vars
    BY StepIsLogStep
  <1> QED
    BY <1>1, <1>2, <1>3, JournalIInv, PTL DEF Spec, IsALog, Log!Spec
=============================================================================
