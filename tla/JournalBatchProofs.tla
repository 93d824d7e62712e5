-------------------------- MODULE JournalBatchProofs --------------------------
(***************************************************************************)
(* appendAll is all or nothing, for any number of connections, whatever a  *)
(* rolled back transaction left in their caches: a lookup that finds the   *)
(* wrong state still finds the right cursor, so the rows stay one log.     *)
(*                                                                         *)
(* With one connection and ids that always say the same, a lookup finds    *)
(* the right state, too.                                                   *)
(***************************************************************************)
EXTENDS JournalBatch, JournalProofs

Acks == [op : Operation, actor : Actor, sequence : 1..MaxSeq]

-----------------------------------------------------------------------------
(* The inductive invariant: the tables, and those a rollback would restore, *)
(* are each a log that holds what was answered.                             *)

\* The rows at and below the cursor of a document, one for each sequence and
\* each identity.
LogOf(d, rows) ==
  /\ d = [cursor |-> d.cursor, snapshot |-> d.snapshot,
          snapshotCursor |-> d.snapshotCursor, floor |-> d.floor]
  /\ d.cursor \in 0..MaxSeq
  /\ rows \subseteq OperationRow
  /\ \A r \in rows : r.sequence \in 1..d.cursor /\ r.id = r.hash.id
  /\ \A r, s \in rows : r.sequence = s.sequence \/ r.id = s.id => r = s

\* Every answer is of a row.
Answered(acks, rows) ==
  /\ acks \subseteq Acks
  /\ \A a \in acks : \E r \in rows :
       r.hash = a.op /\ r.actor = a.actor /\ r.sequence = a.sequence

\* What an open transaction will answer is in its rows; what was answered before
\* it is in those it would roll back to.
OpenBatch ==
  /\ batch = [conn |-> batch.conn, actor |-> batch.actor, before |-> batch.before,
              settled |-> batch.settled, acks |-> batch.acks, entries |-> batch.entries]
  /\ batch.actor \in Actor
  /\ Answered(batch.acks, operations)
  /\ LogOf(batch.before.doc, batch.before.operations)
  /\ Answered(acked, batch.before.operations)

AtomicIInv ==
  /\ LogOf(doc, operations)
  /\ Answered(acked, operations)
  /\ batch # NoBatch => OpenBatch
-----------------------------------------------------------------------------
(* Lemmas about the operators.                                             *)

LEMMA AnsweredStays ==
  ASSUME NEW acks, NEW rows, NEW more, Answered(acks, rows), rows \subseteq more
  PROVE  Answered(acks, more)
  BY DEF Answered

LEMMA AnsweredTogether ==
  ASSUME NEW acks, NEW others, NEW rows, Answered(acks, rows), Answered(others, rows)
  PROVE  Answered(acks \cup others, rows)
  BY DEF Answered

\* In a log each operation was answered one way.
LEMMA AnsweredOnce ==
  ASSUME LogOf(doc, operations), Answered(acked, operations)
  PROVE  AckedOnce
  <1> SUFFICES ASSUME NEW a \in acked, NEW b \in acked, a.op.id = b.op.id
               PROVE  a = b
    BY DEF AckedOnce, Answered
  <1>1. PICK r \in operations : r.hash = a.op /\ r.actor = a.actor /\ r.sequence = a.sequence
    BY DEF Answered
  <1>2. PICK s \in operations : s.hash = b.op /\ s.actor = b.actor /\ s.sequence = b.sequence
    BY DEF Answered
  <1>3. r = s
    BY <1>1, <1>2 DEF LogOf
  <1>4. a \in Acks /\ b \in Acks
    BY DEF Answered
  <1> QED
    BY <1>1, <1>2, <1>3, <1>4 DEF Acks

\* A commit adds one row after the cursor, of an identity that had none.
LEMMA CommitKeepsLog ==
  ASSUME LogOf(doc, operations), NEW c, NEW op \in Operation, NEW actor \in Actor,
         CommitPrepared(Materialize(c), op, actor)
  PROVE  /\ LogOf(doc', operations')
         /\ operations \subseteq operations'
         /\ Answered({Ack(op, actor, Materialize(c).cursor + 1)}, operations')
  <1> DEFINE sequence == Materialize(c).cursor + 1
             row == [id |-> op.id, sequence |-> sequence, actor |-> actor,
                     input |-> [op |-> op, actor |-> actor], hash |-> op]
  <1>1. doc.cursor \in Nat /\ sequence = doc.cursor + 1 /\ sequence \in 1..MaxSeq
    BY MaterializeCursor, BoundsAssumption DEF LogOf, CommitPrepared
  <1>2. operations' = operations \cup {row} /\ PriorRows(op.id) = {}
    BY DEF CommitPrepared
  <1>3. row \in OperationRow /\ row.sequence = sequence /\ row.id = op.id
        /\ row.hash = op /\ row.actor = actor
    BY <1>1 DEF OperationRow, Operation, Entry
  <1> HIDE DEF row
  <1>4. /\ doc'.cursor = sequence
        /\ doc' = [cursor |-> doc'.cursor, snapshot |-> doc'.snapshot,
                   snapshotCursor |-> doc'.snapshotCursor, floor |-> doc'.floor]
    <2> DEFINE snapshot == Reduce(Materialize(c), [op |-> op, actor |-> actor])
    <2>1. doc' = RowAfter(Materialize(c), snapshot)
      BY DEF CommitPrepared
    <2> HIDE DEF snapshot
    <2>2. doc = [cursor |-> doc.cursor, snapshot |-> doc.snapshot,
                 snapshotCursor |-> doc.snapshotCursor, floor |-> doc.floor]
      BY DEF LogOf
    <2>3. \/ doc' = [cursor |-> sequence, snapshot |-> snapshot,
                     snapshotCursor |-> sequence, floor |-> doc.floor]
          \/ doc' = [doc EXCEPT !.cursor = sequence]
      BY <2>1 DEF RowAfter
    <2> HIDE DEF sequence
    <2>4. CASE doc' = [cursor |-> sequence, snapshot |-> snapshot,
                       snapshotCursor |-> sequence, floor |-> doc.floor]
      BY <2>4
    <2>5. CASE doc' = [doc EXCEPT !.cursor = sequence]
      BY <2>2, <2>5
    <2> QED
      BY <2>3, <2>4, <2>5
  <1>5. \A r \in operations : r.sequence # sequence /\ r.id # op.id
    BY <1>1, <1>2 DEF LogOf, PriorRows
  <1>6. \A r \in operations' : r.sequence \in 1..doc'.cursor /\ r.id = r.hash.id
    BY <1>1, <1>2, <1>3, <1>4 DEF LogOf
  <1>7. \A r, s \in operations' : r.sequence = s.sequence \/ r.id = s.id => r = s
    BY <1>2, <1>3, <1>5 DEF LogOf
  <1>8. LogOf(doc', operations')
    BY <1>1, <1>2, <1>3, <1>4, <1>6, <1>7 DEF LogOf
  <1>9. Answered({Ack(op, actor, sequence)}, operations')
    BY <1>1, <1>2, <1>3 DEF Answered, Ack, Acks
  <1> QED
    BY <1>2, <1>8, <1>9

\* A compaction drops payloads and keeps what rows are looked up and answered by.
LEMMA CompactKeepsLog ==
  ASSUME LogOf(doc, operations), Answered(acked, operations), NEW c, NEW through \in 0..MaxSeq,
         CompactCommit(c, through)
  PROVE  LogOf(doc', operations') /\ Answered(acked', operations')
  <1> DEFINE Drop(r) == IF r.sequence <= through THEN [r EXCEPT !.input = Compacted] ELSE r
  <1>1. acked' = acked /\ operations' = {Drop(r) : r \in operations}
    BY DEF CompactCommit
  <1>2. \A r \in operations :
          /\ Drop(r) \in OperationRow /\ Drop(r).sequence = r.sequence /\ Drop(r).id = r.id
          /\ Drop(r).hash = r.hash /\ Drop(r).actor = r.actor
    BY DEF LogOf, OperationRow
  <1> HIDE DEF Drop
  <1>3. /\ doc'.cursor = doc.cursor
        /\ doc' = [cursor |-> doc'.cursor, snapshot |-> doc'.snapshot,
                   snapshotCursor |-> doc'.snapshotCursor, floor |-> doc'.floor]
    <2>1. doc = [cursor |-> doc.cursor, snapshot |-> doc.snapshot,
                 snapshotCursor |-> doc.snapshotCursor, floor |-> doc.floor]
      BY DEF LogOf
    <2> DEFINE state == Materialize(c)
    <2>2. \/ doc' = doc
          \/ doc' = [doc EXCEPT !.floor = through]
          \/ doc' = [[doc EXCEPT !.snapshot = state.snapshot, !.snapshotCursor = state.cursor]
                       EXCEPT !.floor = through]
      BY DEF CompactCommit, SnapshotWritten
    <2> HIDE DEF state
    <2> QED
      BY <2>1, <2>2
  <1>4. operations' \subseteq OperationRow
    BY <1>1, <1>2
  <1>5. \A r \in operations' : r.sequence \in 1..doc'.cursor /\ r.id = r.hash.id
    BY <1>1, <1>2, <1>3 DEF LogOf
  <1>6. \A r, s \in operations' : r.sequence = s.sequence \/ r.id = s.id => r = s
    BY <1>1, <1>2 DEF LogOf
  <1>7. Answered(acked', operations')
    <2> SUFFICES ASSUME NEW a \in acked
                 PROVE  \E r \in operations' :
                          r.hash = a.op /\ r.actor = a.actor /\ r.sequence = a.sequence
      BY <1>1 DEF Answered
    <2>1. PICK r \in operations : r.hash = a.op /\ r.actor = a.actor /\ r.sequence = a.sequence
      BY DEF Answered
    <2> QED
      BY <1>1, <1>2, <2>1
  <1> QED
    BY <1>3, <1>4, <1>5, <1>6, <1>7 DEF LogOf
-----------------------------------------------------------------------------
(* The steps.                                                              *)

\* What the journal does between transactions of appendAll.
LEMMA JournalStep ==
  ASSUME AtomicIInv, batch = NoBatch, Next
  PROVE  LogOf(doc', operations') /\ Answered(acked', operations')
  <1>0. LogOf(doc, operations) /\ Answered(acked, operations)
    BY DEF AtomicIInv
  <1>1. CASE UNCHANGED <<doc, operations, acked>>
    BY <1>0, <1>1
  <1>2. ASSUME NEW op \in Operation, NEW actor \in Actor, AppendAgain(op, actor)
        PROVE  LogOf(doc', operations') /\ Answered(acked', operations')
    <2>1. PICK r \in operations : /\ r.hash = op /\ r.actor = actor
                                  /\ acked' = acked \cup {Ack(op, r.actor, r.sequence)}
      BY <1>2 DEF AppendAgain, PriorRows, Same
    <2>2. r.sequence \in 1..MaxSeq /\ operations' = operations /\ doc' = doc
      BY <1>0, <1>2 DEF LogOf, OperationRow, AppendAgain
    <2>3. Answered({Ack(op, r.actor, r.sequence)}, operations)
      BY <2>1, <2>2 DEF Answered, Ack, Acks
    <2> QED
      BY <1>0, <2>1, <2>2, <2>3, AnsweredTogether
  <1>3. ASSUME NEW op \in Operation, NEW actor \in Actor, NEW c \in Conn,
               AppendCommitted(c, op, actor)
        PROVE  LogOf(doc', operations') /\ Answered(acked', operations')
    <2>1. /\ CommitPrepared(Materialize(c), op, actor)
          /\ acked' = acked \cup {Ack(op, actor, Materialize(c).cursor + 1)}
      BY <1>3 DEF AppendCommitted
    <2>2. /\ LogOf(doc', operations') /\ operations \subseteq operations'
          /\ Answered({Ack(op, actor, Materialize(c).cursor + 1)}, operations')
      BY <1>0, <2>1, CommitKeepsLog
    <2>3. Answered(acked, operations')
      BY <1>0, <2>2, AnsweredStays
    <2> QED
      BY <2>1, <2>2, <2>3, AnsweredTogether
  <1>4. ASSUME NEW c \in Conn, NEW through \in 0..MaxSeq, CompactCommit(c, through)
        PROVE  LogOf(doc', operations') /\ Answered(acked', operations')
    BY <1>0, <1>4, CompactKeepsLog
  <1>5. ASSUME NEW c \in Conn, Reset(c)
        PROVE  LogOf(doc', operations') /\ Answered(acked', operations')
    BY <1>5, BoundsAssumption DEF Reset, LogOf, Answered, NoRow
  <1> QED
    BY <1>1, <1>2, <1>3, <1>4, <1>5
       DEF Next, SomeAppend, SomeCompact, Epoch, AppendRefused, CompactCheck, Load, Evict, Restart

\* An entry of an open batch is answered from a row or adds one; nobody is told.
LEMMA EntryStep ==
  ASSUME AtomicIInv, NEW op \in Operation, BatchEntry(op)
  PROVE  AtomicIInv'
  <1>0. LogOf(doc, operations) /\ Answered(acked, operations) /\ batch # NoBatch /\ OpenBatch
    BY DEF AtomicIInv, BatchEntry
  <1>1. CASE EntryAgain(op)
    <2>1. PICK r \in operations :
            /\ r.hash = op /\ r.actor = batch.actor
            /\ batch' = [batch EXCEPT !.entries = @ + 1,
                           !.acks = @ \cup {Ack(op, r.actor, r.sequence)}]
      BY <1>1 DEF EntryAgain, PriorRows, Same
    <2>2. doc' = doc /\ operations' = operations /\ acked' = acked
      BY <1>1 DEF EntryAgain, vars
    <2>3. /\ batch' = [conn |-> batch'.conn, actor |-> batch'.actor, before |-> batch'.before,
                       settled |-> batch'.settled, acks |-> batch'.acks, entries |-> batch'.entries]
          /\ batch'.actor = batch.actor /\ batch'.before = batch.before
          /\ batch'.acks = batch.acks \cup {Ack(op, r.actor, r.sequence)}
      BY <1>0, <2>1 DEF OpenBatch
    <2>4. Answered({Ack(op, r.actor, r.sequence)}, operations)
      BY <1>0, <2>1 DEF LogOf, OperationRow, OpenBatch, Answered, Ack, Acks
    <2>5. Answered(batch'.acks, operations)
      BY <1>0, <2>3, <2>4, AnsweredTogether DEF OpenBatch
    <2>6. OpenBatch'
      BY <1>0, <2>2, <2>3, <2>5 DEF OpenBatch
    <2> QED
      BY <1>0, <2>2, <2>6 DEF AtomicIInv
  <1>2. CASE EntryCommitted(op)
    <2> DEFINE ack == Ack(op, batch.actor, Materialize(batch.conn).cursor + 1)
    <2>1. /\ CommitPrepared(Materialize(batch.conn), op, batch.actor)
          /\ batch.actor \in Actor /\ acked' = acked
      BY <1>0, <1>2 DEF EntryCommitted, OpenBatch
    <2>2. /\ batch' = [conn |-> batch'.conn, actor |-> batch'.actor, before |-> batch'.before,
                       settled |-> batch'.settled, acks |-> batch'.acks, entries |-> batch'.entries]
          /\ batch'.actor = batch.actor /\ batch'.before = batch.before
          /\ batch'.acks = batch.acks \cup {ack}
      <3>1. \E last : batch' = [batch EXCEPT !.entries = @ + 1, !.settled = last, !.acks = @ \cup {ack}]
        BY <1>2 DEF EntryCommitted
      <3> HIDE DEF ack
      <3> QED
        BY <1>0, <3>1 DEF OpenBatch
    <2>3. \A conn : \A actor \in Actor :
            conn = batch.conn /\ actor = batch.actor =>
              /\ LogOf(doc', operations') /\ operations \subseteq operations'
              /\ Answered({Ack(op, actor, Materialize(conn).cursor + 1)}, operations')
      BY <1>0, <2>1, CommitKeepsLog
    <2>4. /\ LogOf(doc', operations') /\ operations \subseteq operations'
          /\ Answered({ack}, operations')
      BY <2>1, <2>3
    <2> HIDE DEF ack
    <2>5. Answered(batch.acks, operations') /\ Answered(acked', operations')
      BY <1>0, <2>1, <2>4, AnsweredStays DEF OpenBatch
    <2>6. Answered(batch'.acks, operations')
      BY <2>2, <2>4, <2>5, AnsweredTogether
    <2>7. OpenBatch'
      BY <1>0, <2>1, <2>2, <2>6 DEF OpenBatch
    <2> QED
      BY <2>4, <2>5, <2>7 DEF AtomicIInv
  <1> QED
    BY <1>1, <1>2 DEF BatchEntry

LEMMA NextAtomic == AtomicIInv /\ [BatchNext]_bvars => AtomicIInv'
  <1> SUFFICES ASSUME AtomicIInv, [BatchNext]_bvars
               PROVE  AtomicIInv'
    OBVIOUS
  <1>0. LogOf(doc, operations) /\ Answered(acked, operations)
    BY DEF AtomicIInv
  <1>1. CASE batch = NoBatch /\ Next /\ UNCHANGED batch
    BY <1>1, JournalStep DEF AtomicIInv
  <1>2. ASSUME NEW c \in Conn, NEW actor \in Actor, BatchBegin(c, actor)
        PROVE  AtomicIInv'
    <2>1. /\ UNCHANGED <<doc, operations, acked>>
          /\ batch' = [conn |-> c, actor |-> actor, before |-> Tables,
                       settled |-> <<>>, acks |-> {}, entries |-> 0]
      BY <1>2 DEF BatchBegin, vars
    <2>2. batch'.before.doc = doc /\ batch'.before.operations = operations
      BY <2>1 DEF Tables
    <2>3. Answered({}, operations)
      BY DEF Answered
    <2>4. OpenBatch'
      BY <1>0, <2>1, <2>2, <2>3 DEF OpenBatch
    <2> QED
      BY <1>0, <2>1, <2>4 DEF AtomicIInv
  <1>3. ASSUME NEW op \in Operation, BatchEntry(op)
        PROVE  AtomicIInv'
    BY <1>3, EntryStep
  <1>4. CASE BatchCommit
    <2>1. /\ OpenBatch /\ UNCHANGED <<doc, operations>> /\ batch' = NoBatch
          /\ acked' = acked \cup batch.acks
      BY <1>4 DEF AtomicIInv, BatchCommit
    <2>2. Answered(acked', operations)
      BY <1>0, <2>1, AnsweredTogether DEF OpenBatch
    <2> QED
      BY <1>0, <2>1, <2>2 DEF AtomicIInv
  <1>5. CASE BatchRollback
    <2>1. /\ OpenBatch /\ doc' = batch.before.doc /\ operations' = batch.before.operations
          /\ acked' = acked /\ batch' = NoBatch
      BY <1>5 DEF AtomicIInv, BatchRollback
    <2> QED
      BY <2>1 DEF AtomicIInv, OpenBatch
  <1>6. ASSUME NEW c \in Conn, NEW op \in Operation, NEW actor \in Actor,
               AppendRolledBack(c, op, actor)
        PROVE  AtomicIInv'
    <2>1. UNCHANGED <<doc, operations, acked, batch>> /\ batch = NoBatch
      BY <1>6 DEF AppendRolledBack
    <2> QED
      BY <1>0, <2>1 DEF AtomicIInv
  <1>7. CASE UNCHANGED bvars
    BY <1>7 DEF AtomicIInv, OpenBatch, bvars, vars
  <1> QED
    BY <1>1, <1>2, <1>3, <1>4, <1>5, <1>6, <1>7 DEF BatchNext
-----------------------------------------------------------------------------
(* The theorems.                                                           *)

\* The tables, and those a rollback would restore, are each a log that holds
\* whatever was answered.
THEOREM BatchIInv == BatchSpec => []AtomicIInv
  <1>1. BatchInit => AtomicIInv
    BY BoundsAssumption DEF BatchInit, Init, NoRow, AtomicIInv, LogOf, Answered
  <1> QED
    BY <1>1, NextAtomic, PTL DEF BatchSpec

\* appendAll is all or nothing: whatever was answered is committed, once, after
\* any transactions that rolled back on any connections.
THEOREM AllOrNothing == BatchSpec => []BatchIsAtomic
  <1>1. AtomicIInv => BatchIsAtomic
    BY AnsweredOnce DEF AtomicIInv, BatchIsAtomic
  <1> QED
    BY <1>1, BatchIInv, PTL
-----------------------------------------------------------------------------
(* One connection, and ids that always say the same.  Then no state that a  *)
(* rolled back transaction left in the cache is ever found.                 *)

\* The journal that stands once the open transaction rolled back.
Before == INSTANCE Journal WITH
  doc <- batch.before.doc, operations <- batch.before.operations,
  epoch <- batch.before.epoch, replicas <- batch.before.replicas

OneConn == \A c, d \in Conn : c = d

\* The step commits op for the actor, or would have if it had not rolled back.
Commits(op, actor) ==
  \/ batch # NoBatch /\ batch.actor = actor /\ EntryCommitted(op)
  \/ \E c \in Conn : AppendCommitted(c, op, actor) \/ AppendRolledBack(c, op, actor)

\* Whatever is committed under an id, or rolled back, is what `says` has for it.
AsSaid(says) ==
  \A op \in Operation, actor \in Actor :
    Commits(op, actor) => says[op.id] = [op |-> op, actor |-> actor]

RowsSaid(rows, says) == \A r \in rows : says[r.id] = [op |-> r.hash, actor |-> r.actor]

\* A state after one entry is of that entry: the one state a lookup may find in
\* an open transaction without having remembered it there.
FirstSaid(s, says) == s.cursor = 1 => s.snapshot = [i \in 1..1 |-> says[s.last]]

\* The open transaction is where it began, or waits with the state of its last
\* entry; a rollback would restore a journal whose lookups are right.
OpenWell(says) ==
  /\ batch = [conn |-> batch.conn, actor |-> batch.actor, before |-> batch.before,
              settled |-> batch.settled, acks |-> batch.acks, entries |-> batch.entries]
  /\ batch.conn \in Conn /\ batch.actor \in Actor /\ batch.acks \subseteq Acks
  /\ Before!TypeOK /\ Before!RowsWellFormed /\ Before!SnapshotIsPrefix
  /\ Before!EpochsAreFresh /\ Before!HitIsCurrent
  /\ RowsSaid(batch.before.operations, says)
  /\ \/ /\ batch.settled = <<>>
        /\ doc = batch.before.doc /\ operations = batch.before.operations
     \/ \E s \in State : /\ batch.settled = <<s>> /\ Correct(s)
                         /\ batch.before.doc.cursor < doc.cursor

\* The tables in force and what is remembered of them.
StandsWell(says) ==
  /\ Coherent
  /\ RowsSaid(operations, says)
  /\ \A c \in Conn : FirstSaid(cache[c], says) \/ Correct(cache[c])

HitIInv(says) == StandsWell(says) /\ (batch # NoBatch => OpenWell(says))

\* The committed state after one entry is of that entry.
LEMMA CorrectFirst ==
  ASSUME Coherent, NEW says, RowsSaid(operations, says), NEW s, Correct(s)
  PROVE  FirstSaid(s, says)
  <1> SUFFICES ASSUME s.cursor = 1
               PROVE  s.snapshot = [i \in 1..1 |-> says[s.last]]
    BY DEF FirstSaid
  <1>1. doc.cursor = 1 /\ s.snapshot = History(1) /\ s.last = LastOp(1)
    BY DEF Correct
  <1>2. PICK r \in operations : r.sequence = 1
    BY <1>1 DEF Coherent, RowsWellFormed
  <1>3. OneRow(operations)
    BY DEF Coherent, RowsWellFormed, OneRow
  <1>4. CommittedAt(1) = [op |-> r.hash, actor |-> r.actor] /\ LastOp(1) = r.id
    BY <1>2, <1>3, Columns
  <1>5. CommittedAt(1) = says[s.last]
    BY <1>1, <1>2, <1>4 DEF RowsSaid
  <1>6. \A i \in 1..1 : CommittedAt(i) = says[s.last]
    BY <1>5
  <1> QED
    BY <1>1, <1>6 DEF History

\* Of the tables in force, what is right is right of those before, if it is of
\* their cursor.
LEMMA CorrectBefore ==
  ASSUME NEW says, OpenWell(says), Coherent, NEW s, Correct(s),
         s.cursor = batch.before.doc.cursor
  PROVE  s.snapshot = Before!History(batch.before.doc.cursor)
  <1>0. doc.cursor \in 0..MaxSeq
    BY DEF Coherent, TypeOK
  <1>1. doc.cursor \in Nat /\ s.cursor = doc.cursor /\ s.snapshot = History(doc.cursor)
    BY <1>0, BoundsAssumption DEF Correct
  <1>2. operations = batch.before.operations
    BY <1>1 DEF OpenWell
  <1> QED
    BY <1>1, <1>2 DEF History, CommittedAt, RowsAt,
         Before!History, Before!CommittedAt, Before!RowsAt

\* The tables before stay what they are while the transaction goes on.
LEMMA BeforeStays ==
  ASSUME NEW says, OpenWell(says), batch'.before = batch.before,
         minted' \in 0..MaxEpoch, minted <= minted', minted \in Nat,
         cache' \in [Conn -> State],
         \A c \in Conn : \/ cache'[c] = cache[c]
                         \/ /\ cache'[c].epoch <= minted'
                            /\ cache'[c].cursor = batch.before.doc.cursor =>
                                 cache'[c].snapshot = Before!History(batch.before.doc.cursor),
         compacting' \in [Conn -> SUBSET (0..MaxSeq)], acked' \subseteq Acks
  PROVE  /\ (Before!TypeOK /\ Before!RowsWellFormed /\ Before!SnapshotIsPrefix)'
         /\ (Before!EpochsAreFresh /\ Before!HitIsCurrent)'
  <1>1. \A n : Before!History(n)' = Before!History(n)
    BY DEF Before!History, Before!CommittedAt, Before!RowsAt
  <1>2. Before!LastOp(batch.before.doc.cursor)' = Before!LastOp(batch.before.doc.cursor)
    BY DEF Before!LastOp, Before!RowsAt
  <1>3. Before!TypeOK'
    BY DEF OpenWell, Before!TypeOK, Acks, Before!Snapshots, Snapshots, Before!Entry, Entry, State, Before!State, Operation, Before!Operation, OperationRow, Before!OperationRow
  <1>4. Before!RowsWellFormed'
    BY DEF OpenWell, Before!RowsWellFormed
  <1>5. Before!SnapshotIsPrefix'
    BY <1>1 DEF OpenWell, Before!SnapshotIsPrefix
  <1>6. Before!EpochsAreFresh'
    <2>1. batch.before.epoch \in Nat /\ \A c \in Conn : cache[c].epoch \in Nat
      BY BoundsAssumption DEF OpenWell, Before!TypeOK, Before!State
    <2> QED
      BY <2>1 DEF OpenWell, Before!EpochsAreFresh, Before!NoEpoch
  <1>7. Before!HitIsCurrent'
    BY <1>1, <1>2 DEF OpenWell, Before!HitIsCurrent, Before!CacheHit
  <1> QED
    BY <1>3, <1>4, <1>5, <1>6, <1>7

\* A rollback leaves the journal that stood before, with whatever the connection
\* remembered meanwhile.
LEMMA RestoredBefore ==
  ASSUME NEW says, OpenWell(says), Coherent, doc' = batch.before.doc,
         operations' = batch.before.operations, epoch' = batch.before.epoch,
         replicas' = batch.before.replicas, cache' \in [Conn -> State],
         \A c \in Conn : cache'[c] = cache[c] \/ Correct(cache'[c]),
         UNCHANGED <<minted, compacting, acked>>
  PROVE  Coherent' /\ RowsSaid(operations', says)
  <1>1. \A n : History(n)' = Before!History(n)
    BY DEF History, CommittedAt, RowsAt,
         Before!History, Before!CommittedAt, Before!RowsAt
  <1>2. LastOp(doc.cursor)' = Before!LastOp(batch.before.doc.cursor)
    BY DEF LastOp, RowsAt, Before!LastOp, Before!RowsAt
  <1>3. TypeOK'
    BY DEF OpenWell, TypeOK, Before!TypeOK, Before!Snapshots, Snapshots, Before!Entry, Entry,
         Operation, Before!Operation, OperationRow, Before!OperationRow
  <1>4. RowsWellFormed'
    BY DEF OpenWell, RowsWellFormed, Before!RowsWellFormed
  <1>5. SnapshotIsPrefix'
    BY <1>1 DEF OpenWell, SnapshotIsPrefix, Before!SnapshotIsPrefix
  <1>6. EpochsAreFresh'
    BY DEF OpenWell, Correct, EpochsAreFresh, Before!EpochsAreFresh, NoEpoch, Before!NoEpoch
  <1>7. HitIsCurrent'
    <2> SUFFICES ASSUME NEW c \in Conn, doc'.cursor > 0, CacheHit(c)'
                 PROVE  cache'[c].snapshot = Before!History(batch.before.doc.cursor)
      BY <1>1 DEF HitIsCurrent
    <2>1. CASE cache'[c] = cache[c]
      BY <1>2, <2>1 DEF OpenWell, CacheHit, Before!HitIsCurrent, Before!CacheHit
    <2>2. CASE Correct(cache'[c])
      BY <2>2, CorrectBefore DEF CacheHit
    <2> QED
      BY <2>1, <2>2
  <1> QED
    BY <1>3, <1>4, <1>5, <1>6, <1>7 DEF Coherent, OpenWell

\* A transaction begins: what stands is what a rollback would restore.
LEMMA BeginsBefore ==
  ASSUME Coherent, UNCHANGED vars, batch'.before = Tables
  PROVE  /\ Coherent'
         /\ (Before!TypeOK /\ Before!RowsWellFormed /\ Before!SnapshotIsPrefix)'
         /\ (Before!EpochsAreFresh /\ Before!HitIsCurrent)'
  <1>0. /\ batch'.before.doc = doc' /\ batch'.before.operations = operations'
        /\ batch'.before.epoch = epoch' /\ batch'.before.replicas = replicas'
    BY DEF Tables, vars
  <1>1. Coherent' /\ \A n : History(n)' = History(n)
    BY QuietTables DEF Coherent, TypeOK, vars
  <1>2. \A n : Before!History(n)' = History(n)'
    BY <1>0 DEF History, CommittedAt, RowsAt,
         Before!History, Before!CommittedAt, Before!RowsAt
  <1>3. \A c : Before!CacheHit(c)' = CacheHit(c)'
    BY <1>0 DEF CacheHit, Before!CacheHit, LastOp, RowsAt, Before!LastOp, Before!RowsAt
  <1>4. Before!TypeOK'
    BY <1>0, <1>1 DEF Coherent, TypeOK, Before!TypeOK, Before!Snapshots, Snapshots, State,
         Before!State, Before!Entry, Entry,
         Operation, Before!Operation, OperationRow, Before!OperationRow
  <1>5. Before!RowsWellFormed'
    BY <1>0, <1>1 DEF Coherent, RowsWellFormed, Before!RowsWellFormed
  <1>6. Before!SnapshotIsPrefix'
    BY <1>0, <1>1, <1>2 DEF Coherent, SnapshotIsPrefix, Before!SnapshotIsPrefix
  <1>7. Before!EpochsAreFresh'
    BY <1>0, <1>1 DEF Coherent, EpochsAreFresh, Before!EpochsAreFresh, NoEpoch, Before!NoEpoch
  <1>8. Before!HitIsCurrent'
    BY <1>0, <1>1, <1>2, <1>3 DEF Coherent, HitIsCurrent, Before!HitIsCurrent
  <1> QED
    BY <1>1, <1>4, <1>5, <1>6, <1>7, <1>8

-----------------------------------------------------------------------------
(* The steps of one connection.                                            *)

\* Whatever a connection remembers after one entry is of that entry.
LEMMA AllFirst ==
  ASSUME NEW says, StandsWell(says), NEW c \in Conn
  PROVE  FirstSaid(cache[c], says)
  BY CorrectFirst DEF StandsWell

LEMMA QuietHit ==
  ASSUME NEW says, StandsWell(says), UNCHANGED <<doc, operations, epoch, minted, replicas>>,
         cache' \in [Conn -> State],
         \A c \in Conn : cache'[c] \in {cache[c], EmptyState} \/ Correct(cache'[c]),
         compacting' \in [Conn -> SUBSET (0..MaxSeq)], acked' \subseteq Acks
  PROVE  StandsWell(says)'
  <1>1. Coherent' /\ \A s : Correct(s) => Correct(s)'
    BY QuietTables DEF StandsWell, Acks
  <1>2. RowsSaid(operations', says)
    BY DEF StandsWell
  <1>3. ASSUME NEW c \in Conn
        PROVE  (FirstSaid(cache[c], says) \/ Correct(cache[c]))'
    <2>1. CASE cache'[c] = cache[c]
      <3>1. FirstSaid(cache[c], says)
        BY AllFirst
      <3> QED
        BY <2>1, <3>1 DEF FirstSaid
    <2>2. CASE cache'[c] = EmptyState
      BY <2>2 DEF FirstSaid, EmptyState
    <2>3. CASE Correct(cache'[c])
      BY <1>1, <2>3 DEF Correct
    <2> QED
      BY <2>1, <2>2, <2>3
  <1> QED
    BY <1>1, <1>2, <1>3 DEF StandsWell

\* What a commit writes, whether its connection remembers it at once (append) or
\* not yet (an entry of appendAll). `mine` is the state it leaves.
LEMMA CommitHit ==
  ASSUME OneConn, NEW says, StandsWell(says), NEW c \in Conn,
         NEW op \in Operation, NEW actor \in Actor, says[op.id] = [op |-> op, actor |-> actor],
         CommitPrepared(Materialize(c), op, actor),
         compacting' \in [Conn -> SUBSET (0..MaxSeq)], acked' \subseteq Acks,
         \/ cache' = [cache EXCEPT ![c] = Committing(Materialize(c), op, actor)]
         \/ cache' = Remembered(c)
  PROVE  /\ StandsWell(says)'
         /\ \A s : s = Committing(Materialize(c), op, actor) => s \in State /\ Correct(s)'
         /\ doc'.cursor = doc.cursor + 1 /\ doc.cursor \in Nat
         /\ minted' \in 0..MaxEpoch /\ minted <= minted'
         /\ cache' \in [Conn -> State]
  <1> DEFINE mine == Committing(Materialize(c), op, actor)
  <1>0. /\ doc.cursor \in 0..MaxSeq /\ doc.cursor \in Nat /\ epoch \in Nat /\ minted \in Nat
        /\ cache \in [Conn -> State] /\ Coherent
    BY BoundsAssumption DEF StandsWell, Coherent, TypeOK
  <1>1. /\ doc' \in [cursor : 0..MaxSeq, snapshot : Snapshots,
                     snapshotCursor : 0..MaxSeq, floor : 0..MaxSeq]
        /\ operations' \subseteq OperationRow
        /\ replicas' \in [Replica -> Actor \cup {NoActor}]
        /\ RowsWellFormed' /\ SnapshotIsPrefix'
        /\ doc'.cursor = doc.cursor + 1 /\ doc.cursor + 1 \in 1..MaxSeq
        /\ epoch' \in 1..MaxEpoch /\ minted' \in 0..MaxEpoch
        /\ epoch' <= minted' /\ minted <= minted'
        /\ \A s : s = mine => s \in State /\ Correct(s)' /\ s.last = op.id
    BY <1>0, CommitTables
  <1>2. \/ cache' = [cache EXCEPT ![c] = mine]
        \/ cache' = Remembered(c)
    OBVIOUS
  <1> HIDE DEF mine
  <1>3. /\ Remembered(c) \in [Conn -> State]
        /\ \A d \in Conn : Remembered(c)[d] = cache[d] \/ Correct(Remembered(c)[d])
        /\ doc.cursor > 0 => Correct(Remembered(c)[c])
    BY <1>0, RememberedIsCorrect
  <1>4. cache' \in [Conn -> State]
    BY <1>0, <1>1, <1>2, <1>3
  <1>5. TypeOK'
    <2>1. epoch' \in 0..MaxEpoch
      BY <1>1, BoundsAssumption
    <2> QED
      BY <1>1, <1>4, <2>1 DEF TypeOK, Acks
  <1>6. RowsSaid(operations', says)
    <2>1. \A r \in operations' :
            r \in operations \/ (r.id = op.id /\ r.hash = op /\ r.actor = actor)
      BY DEF CommitPrepared
    <2> QED
      BY <2>1 DEF RowsSaid, StandsWell
  \* After the first entry of a document `Remembered` kept a state that may be
  \* found, but then it is of that entry.
  <1>7. ASSUME NEW d \in Conn
        PROVE  (FirstSaid(cache[d], says) \/ Correct(cache[d]))'
    <2>1. CASE cache' = [cache EXCEPT ![c] = mine]
      BY <1>0, <1>1, <2>1 DEF OneConn, Correct
    <2>2. CASE cache' = Remembered(c)
      <3>1. FirstSaid(cache[d], says)
        BY AllFirst
      <3>2. ASSUME Correct(Remembered(c)[d])
            PROVE  FirstSaid(Remembered(c)[d], says)
        BY <1>0, <3>2, CorrectFirst DEF StandsWell
      <3> QED
        BY <1>3, <2>2, <3>1, <3>2 DEF FirstSaid
    <2> QED
      BY <1>2, <2>1, <2>2
  <1>8. EpochsAreFresh'
    <2>1. \A d \in Conn : cache'[d].epoch <= minted'
      <3> SUFFICES ASSUME NEW d \in Conn
                   PROVE  cache'[d].epoch <= minted'
        OBVIOUS
      <3>1. cache[d].epoch <= minted /\ cache[d].epoch \in Nat /\ cache'[d].epoch \in Nat
        BY <1>0, <1>4, BoundsAssumption DEF Coherent, EpochsAreFresh, State
      <3>2. CASE cache' = [cache EXCEPT ![c] = mine]
        BY <1>0, <1>1, <3>1, <3>2 DEF OneConn, Correct
      <3>3. CASE cache' = Remembered(c)
        BY <1>0, <1>1, <1>3, <3>1, <3>3 DEF Correct
      <3> QED
        BY <1>2, <3>2, <3>3
    <2> QED
      BY <1>1, <2>1 DEF EpochsAreFresh, NoEpoch
  <1>9. HitIsCurrent'
    <2> SUFFICES ASSUME NEW d \in Conn, CacheHit(d)'
                 PROVE  (cache[d].snapshot = History(doc.cursor))'
      BY DEF HitIsCurrent
    <2>1. CASE cache' = [cache EXCEPT ![c] = mine]
      BY <1>0, <1>1, <2>1 DEF OneConn, Correct
    <2>2. CASE cache' = Remembered(c)
      <3>0. d = c /\ cache'[d].cursor = doc.cursor + 1
        BY <1>1 DEF OneConn, CacheHit
      <3>1. doc.cursor = 0
        BY <1>0, <1>3, <2>2, <3>0 DEF Correct
      <3>2. cache' = cache
        BY <2>2, <3>1 DEF Remembered
      <3>3. cache[d].cursor = 1 /\ cache[d].last = LastOp(doc.cursor)'
        BY <3>0, <3>1, <3>2 DEF CacheHit
      <3>4. FirstSaid(cache[d], says)
        BY AllFirst
      <3>5. \A s : s = mine => Correct(s)' /\ s.last = LastOp(doc.cursor)'
        BY <1>0, <1>1 DEF Correct
      <3>6. LastOp(doc.cursor)' = op.id
        BY <1>1, <3>5
      <3>7. History(doc.cursor)' = [i \in 1..1 |-> [op |-> op, actor |-> actor]]
        <4>1. mine.snapshot = Reduce(Materialize(c), [op |-> op, actor |-> actor])
          BY DEF mine, Committing
        <4>2. mine.snapshot = History(doc.cursor)'
          BY <1>1 DEF Correct
        <4>3. Materialize(c).cursor = 0
          BY <3>1, MaterializeCursor
        <4> QED
          BY <4>1, <4>2, <4>3 DEF Reduce
      <3> QED
        BY <3>2, <3>3, <3>4, <3>6, <3>7 DEF FirstSaid
    <2> QED
      BY <1>2, <2>1, <2>2
  <1>10. Coherent'
    BY <1>1, <1>5, <1>8, <1>9 DEF Coherent
  <1>11. StandsWell(says)'
    BY <1>6, <1>7, <1>10 DEF StandsWell
  <1> QED
    BY <1>0, <1>1, <1>4, <1>11 DEF mine

LEMMA CompactHit ==
  ASSUME OneConn, NEW says, StandsWell(says), NEW c \in Conn, NEW through \in 0..MaxSeq,
         CompactCommit(c, through)
  PROVE  StandsWell(says)'
  <1>0. Coherent /\ operations \subseteq OperationRow
    BY DEF StandsWell, Coherent, TypeOK
  <1>1. /\ TypeOK' /\ RowsWellFormed' /\ SnapshotIsPrefix' /\ EpochsAreFresh'
        /\ doc'.cursor = doc.cursor /\ doc.cursor \in 0..MaxSeq
        /\ \A n \in 0..doc.cursor : History(n)' = History(n)
        /\ \A d \in Conn : cache'[d] = cache[d] \/ Correct(cache'[d])
        /\ doc.cursor > 0 => Correct(cache'[c])
    BY <1>0, CompactTables
  <1>2. doc.cursor \in 0..doc.cursor
    BY <1>1, BoundsAssumption
  <1>3. HitIsCurrent'
    <2> SUFFICES ASSUME NEW d \in Conn, doc'.cursor > 0
                 PROVE  (cache[d].snapshot = History(doc.cursor))'
      BY DEF HitIsCurrent
    <2> QED
      BY <1>1, <1>2 DEF OneConn, Correct
  <1>4. RowsSaid(operations', says)
    <2> SUFFICES ASSUME NEW r \in operations'
                 PROVE  says[r.id] = [op |-> r.hash, actor |-> r.actor]
      BY DEF RowsSaid
    <2>1. PICK s \in operations :
            r = IF s.sequence <= through THEN [s EXCEPT !.input = Compacted] ELSE s
      BY DEF CompactCommit
    <2>2. s \in OperationRow
      BY <1>0
    <2>3. r.id = s.id /\ r.hash = s.hash /\ r.actor = s.actor
      BY <2>1, <2>2 DEF OperationRow
    <2> QED
      BY <2>3 DEF RowsSaid, StandsWell
  <1>5. ASSUME NEW d \in Conn
        PROVE  (FirstSaid(cache[d], says) \/ Correct(cache[d]))'
    <2>1. FirstSaid(cache[d], says)
      BY AllFirst
    <2>2. ASSUME Correct(cache'[d])
          PROVE  FirstSaid(cache'[d], says)
      BY <1>0, <2>2, CorrectFirst DEF StandsWell
    <2> QED
      BY <1>1, <2>1, <2>2 DEF FirstSaid
  <1> QED
    BY <1>1, <1>3, <1>4, <1>5 DEF StandsWell, Coherent

LEMMA EpochHit ==
  ASSUME NEW says, StandsWell(says), Epoch
  PROVE  StandsWell(says)'
  <1> USE DEF StandsWell, Coherent
  <1>0. doc.cursor \in Nat /\ minted \in Nat /\ epoch \in Nat
    BY BoundsAssumption DEF TypeOK
  <1>1. \A n : History(n)' = History(n)
    BY DEF Epoch, History, CommittedAt, RowsAt
  <1>2. TypeOK'
    BY BoundsAssumption DEF Epoch, TypeOK
  <1>3. RowsWellFormed' /\ SnapshotIsPrefix'
    BY <1>1 DEF Epoch, RowsWellFormed, SnapshotIsPrefix
  <1>4. EpochsAreFresh'
    BY BoundsAssumption DEF Epoch, EpochsAreFresh, TypeOK, State, NoEpoch
  \* A document that has no epoch yet has no row either.
  <1>5. HitIsCurrent'
    BY <1>0 DEF Epoch, HitIsCurrent, EpochsAreFresh
  <1>6. \A c \in Conn : FirstSaid(cache'[c], says)
    BY AllFirst DEF Epoch
  <1> QED
    BY <1>2, <1>3, <1>4, <1>5, <1>6 DEF Epoch

LEMMA ResetHit ==
  ASSUME OneConn, NEW says, StandsWell(says), NEW c \in Conn, Reset(c)
  PROVE  StandsWell(says)'
  <1> USE BoundsAssumption DEF Reset, NoRow, NoEpoch
  <1>1. <<>> \in Snapshots
    BY DEF Snapshots
  <1>2. TypeOK'
    BY <1>1, EmptyStateTyped DEF StandsWell, Coherent, TypeOK
  <1>3. RowsWellFormed'
    BY DEF RowsWellFormed
  <1>4. SnapshotIsPrefix'
    BY DEF SnapshotIsPrefix, History
  <1>5. EpochsAreFresh'
    BY DEF StandsWell, Coherent, EpochsAreFresh, TypeOK, EmptyState
  <1>6. HitIsCurrent'
    BY DEF HitIsCurrent
  <1>7. \A d \in Conn : cache'[d] = EmptyState
    BY DEF OneConn, StandsWell, Coherent, TypeOK
  <1>8. \A d \in Conn : FirstSaid(cache'[d], says)
    BY <1>7 DEF FirstSaid, EmptyState
  <1>9. RowsSaid(operations', says)
    BY DEF RowsSaid
  <1> QED
    BY <1>2, <1>3, <1>4, <1>5, <1>6, <1>8, <1>9 DEF StandsWell, Coherent

\* What the connection does between transactions that roll back.
LEMMA JournalHit ==
  ASSUME OneConn, NEW says, AsSaid(says), StandsWell(says), Next
  PROVE  StandsWell(says)'
  <1>0. /\ cache \in [Conn -> State] /\ Coherent
        /\ compacting \in [Conn -> SUBSET (0..MaxSeq)]
        /\ acked \subseteq Acks /\ operations \subseteq OperationRow
    BY DEF StandsWell, Coherent, TypeOK, Acks
  <1>1. CASE Epoch
    BY <1>1, EpochHit
  <1>2. ASSUME NEW op \in Operation, NEW actor \in Actor, AppendAgain(op, actor)
        PROVE  StandsWell(says)'
    <2>1. acked' \subseteq Acks
      BY <1>0, <1>2 DEF AppendAgain, PriorRows, Ack, Acks, OperationRow
    <2> QED
      BY <1>0, <1>2, <2>1, QuietHit DEF AppendAgain
  <1>3. ASSUME NEW op \in Operation, NEW actor \in Actor, NEW c \in Conn,
               AppendRefused(c, op, actor)
        PROVE  StandsWell(says)'
    BY <1>0, <1>3, QuietHit, RememberedIsCorrect DEF AppendRefused
  <1>4. ASSUME NEW op \in Operation, NEW actor \in Actor, NEW c \in Conn,
               AppendCommitted(c, op, actor)
        PROVE  StandsWell(says)'
    <2>1. /\ CommitPrepared(Materialize(c), op, actor)
          /\ cache' = [cache EXCEPT ![c] = Committing(Materialize(c), op, actor)]
          /\ acked' = acked \cup {Ack(op, actor, Materialize(c).cursor + 1)}
          /\ compacting' = compacting
      BY <1>4 DEF AppendCommitted
    <2>2. acked' \subseteq Acks
      <3>1. Materialize(c).cursor + 1 \in 1..MaxSeq
        BY <1>0, <2>1, CommitTables, MaterializeCursor
      <3> QED
        BY <1>0, <2>1, <3>1 DEF Ack, Acks
    <2>3. says[op.id] = [op |-> op, actor |-> actor]
      BY <1>4 DEF AsSaid, Commits
    <2> QED
      BY <1>0, <2>1, <2>2, <2>3, CommitHit
  <1>5. ASSUME NEW c \in Conn, NEW through \in 0..MaxSeq, CompactCheck(c, through)
        PROVE  StandsWell(says)'
    <2>1. compacting' \in [Conn -> SUBSET (0..MaxSeq)]
      BY <1>0, <1>5 DEF CompactCheck
    <2> QED
      BY <1>0, <1>5, <2>1, QuietHit DEF CompactCheck
  <1>6. ASSUME NEW c \in Conn, NEW through \in 0..MaxSeq, CompactCommit(c, through)
        PROVE  StandsWell(says)'
    BY <1>6, CompactHit
  <1>7. ASSUME NEW c \in Conn, Load(c)
        PROVE  StandsWell(says)'
    BY <1>0, <1>7, QuietHit, RememberedIsCorrect DEF Load
  <1>8. ASSUME NEW c \in Conn, Reset(c)
        PROVE  StandsWell(says)'
    BY <1>8, ResetHit
  <1>9. ASSUME NEW c \in Conn, Evict(c) \/ Restart(c)
        PROVE  StandsWell(says)'
    <2>1. /\ cache' \in [Conn -> State]
          /\ \A d \in Conn : cache'[d] \in {cache[d], EmptyState}
          /\ compacting' \in [Conn -> SUBSET (0..MaxSeq)]
      BY <1>0, <1>9, EmptyStateTyped DEF Evict, Restart
    <2> QED
      BY <1>0, <1>9, <2>1, QuietHit DEF Evict, Restart
  <1> QED
    BY <1>1, <1>2, <1>3, <1>4, <1>5, <1>6, <1>7, <1>8, <1>9 DEF Next, SomeAppend, SomeCompact

LEMMA BeginHit ==
  ASSUME NEW says, StandsWell(says), NEW c \in Conn, NEW actor \in Actor, BatchBegin(c, actor)
  PROVE  HitIInv(says)'
  <1>1. /\ UNCHANGED vars
        /\ batch' = [conn |-> c, actor |-> actor, before |-> Tables,
                     settled |-> <<>>, acks |-> {}, entries |-> 0]
    BY DEF BatchBegin
  <1>2. batch'.before = Tables /\ batch'.settled = <<>> /\ batch'.acks = {}
        /\ batch'.conn = c /\ batch'.actor = actor
    BY <1>1
  <1>3. /\ Coherent'
        /\ (Before!TypeOK /\ Before!RowsWellFormed /\ Before!SnapshotIsPrefix)'
        /\ (Before!EpochsAreFresh /\ Before!HitIsCurrent)'
    BY <1>1, <1>2, BeginsBefore DEF StandsWell
  <1>4. StandsWell(says)'
    BY <1>1, QuietHit DEF StandsWell, Coherent, TypeOK, vars, Acks
  <1>5. doc' = batch'.before.doc /\ operations' = batch'.before.operations
    BY <1>1, <1>2 DEF Tables, vars
  <1>6. RowsSaid(batch'.before.operations, says)
    BY <1>4, <1>5 DEF StandsWell
  <1> QED
    BY <1>1, <1>2, <1>3, <1>4, <1>5, <1>6 DEF HitIInv, OpenWell

\* An entry that has a row already changes what will be answered and nothing else.
LEMMA AgainHit ==
  ASSUME NEW says, StandsWell(says), OpenWell(says), NEW op \in Operation, EntryAgain(op)
  PROVE  HitIInv(says)'
  <1>0. /\ UNCHANGED vars /\ operations \subseteq OperationRow
        /\ minted \in 0..MaxEpoch /\ minted \in Nat /\ cache \in [Conn -> State]
        /\ compacting \in [Conn -> SUBSET (0..MaxSeq)] /\ acked \subseteq Acks
    BY BoundsAssumption DEF EntryAgain, StandsWell, Coherent, TypeOK, Acks
  <1>1. PICK r \in operations :
          /\ r.hash = op /\ r.actor = batch.actor
          /\ batch' = [batch EXCEPT !.entries = @ + 1,
                         !.acks = @ \cup {Ack(op, r.actor, r.sequence)}]
    BY DEF EntryAgain, PriorRows, Same
  <1>2. /\ batch' = [conn |-> batch'.conn, actor |-> batch'.actor, before |-> batch'.before,
                     settled |-> batch'.settled, acks |-> batch'.acks, entries |-> batch'.entries]
        /\ batch'.actor = batch.actor /\ batch'.before = batch.before
        /\ batch'.conn = batch.conn /\ batch'.settled = batch.settled
        /\ batch'.acks = batch.acks \cup {Ack(op, r.actor, r.sequence)}
    BY <1>1 DEF OpenWell
  <1>3. batch'.acks \subseteq Acks
    BY <1>0, <1>1, <1>2 DEF OpenWell, Acks, Ack, OperationRow
  <1>4. StandsWell(says)' /\ \A s : Correct(s) => Correct(s)'
    BY <1>0, QuietHit, QuietTables DEF StandsWell, vars, Acks
  <1>5. /\ (Before!TypeOK /\ Before!RowsWellFormed /\ Before!SnapshotIsPrefix)'
        /\ (Before!EpochsAreFresh /\ Before!HitIsCurrent)'
    BY <1>0, <1>2, BeforeStays DEF vars
  <1>6. OpenWell(says)'
    BY <1>0, <1>2, <1>3, <1>4, <1>5 DEF OpenWell, vars
  <1> QED
    BY <1>4, <1>6 DEF HitIInv

\* An entry that commits leaves what is remembered as it was before the entry, so
\* of no cursor a rollback or a later entry may find, but for the first one.
LEMMA EntryHit ==
  ASSUME OneConn, NEW says, AsSaid(says), StandsWell(says), OpenWell(says), batch # NoBatch,
         NEW op \in Operation, EntryCommitted(op)
  PROVE  HitIInv(says)'
  <1> DEFINE c == batch.conn
             mine == Committing(Materialize(c), op, batch.actor)
             ack == Ack(op, batch.actor, Materialize(c).cursor + 1)
  <1>0. /\ c \in Conn /\ batch.actor \in Actor /\ Coherent
        /\ minted \in Nat /\ doc.cursor \in Nat
        /\ compacting \in [Conn -> SUBSET (0..MaxSeq)] /\ acked \subseteq Acks
    BY BoundsAssumption DEF StandsWell, Coherent, TypeOK, Acks, OpenWell
  <1>1. /\ CommitPrepared(Materialize(c), op, batch.actor)
        /\ cache' = Remembered(c)
        /\ batch' = [batch EXCEPT !.entries = @ + 1, !.settled = <<mine>>, !.acks = @ \cup {ack}]
        /\ UNCHANGED <<compacting, acked>>
    BY DEF EntryCommitted
  <1>2. says[op.id] = [op |-> op, actor |-> batch.actor]
    BY <1>0 DEF AsSaid, Commits
  <1>3. /\ StandsWell(says)'
        /\ \A s : s = mine => s \in State /\ Correct(s)'
        /\ doc'.cursor = doc.cursor + 1
        /\ minted' \in 0..MaxEpoch /\ minted <= minted'
        /\ cache' \in [Conn -> State]
    BY <1>0, <1>1, <1>2, CommitHit
  <1>4. ack \in Acks
    <2>1. Materialize(c).cursor + 1 \in 1..MaxSeq
      BY <1>0, <1>1, CommitTables, MaterializeCursor
    <2> QED
      BY <1>0, <2>1 DEF Ack, Acks
  <1>5. PICK s : s = mine
    OBVIOUS
  <1> HIDE DEF c, mine, ack
  <1>6. /\ batch' = [conn |-> batch'.conn, actor |-> batch'.actor, before |-> batch'.before,
                     settled |-> batch'.settled, acks |-> batch'.acks, entries |-> batch'.entries]
        /\ batch'.actor = batch.actor /\ batch'.before = batch.before
        /\ batch'.conn = batch.conn /\ batch'.settled = <<s>>
        /\ batch'.acks = batch.acks \cup {ack}
    BY <1>1, <1>5 DEF OpenWell
  <1>7. \A d \in Conn : \/ cache'[d] = cache[d]
                        \/ /\ cache'[d].epoch <= minted'
                           /\ cache'[d].cursor = batch.before.doc.cursor =>
                                cache'[d].snapshot = Before!History(batch.before.doc.cursor)
    <2> SUFFICES ASSUME NEW d \in Conn, cache'[d] # cache[d]
                 PROVE  /\ cache'[d].epoch <= minted'
                        /\ cache'[d].cursor = batch.before.doc.cursor =>
                             cache'[d].snapshot = Before!History(batch.before.doc.cursor)
      OBVIOUS
    <2>1. Correct(cache'[d])
      BY <1>0, <1>1, RememberedIsCorrect
    <2>2. cache'[d].epoch \in Nat
      BY <1>3, BoundsAssumption DEF State
    <2> QED
      BY <1>0, <1>3, <2>1, <2>2, CorrectBefore, BoundsAssumption DEF Correct
  <1>8. /\ (Before!TypeOK /\ Before!RowsWellFormed /\ Before!SnapshotIsPrefix)'
        /\ (Before!EpochsAreFresh /\ Before!HitIsCurrent)'
    BY <1>0, <1>1, <1>3, <1>6, <1>7, BeforeStays
  <1>9. batch.before.doc.cursor < doc'.cursor
    BY <1>0, <1>3 DEF OpenWell, Before!TypeOK
  <1>10. OpenWell(says)'
    <2>1. \E t \in State : /\ batch'.settled = <<t>> /\ Correct(t)'
                           /\ batch'.before.doc.cursor < doc'.cursor
      BY <1>3, <1>5, <1>6, <1>9
    <2>2. batch'.acks \subseteq Acks /\ RowsSaid(batch'.before.operations, says)
      BY <1>4, <1>6 DEF OpenWell
    <2> QED
      BY <1>0, <1>6, <1>8, <2>1, <2>2 DEF OpenWell, c
  <1> QED
    BY <1>3, <1>10 DEF HitIInv

\* COMMIT: the connection remembers the state of the last entry.
LEMMA BatchCommitHit ==
  ASSUME OneConn, NEW says, StandsWell(says), OpenWell(says), BatchCommit
  PROVE  StandsWell(says)'
  <1>0. /\ UNCHANGED <<doc, operations, epoch, minted, replicas, compacting>>
        /\ cache' = IF batch.settled = <<>> THEN cache
                    ELSE [cache EXCEPT ![batch.conn] = batch.settled[1]]
        /\ acked' = acked \cup batch.acks
        /\ cache \in [Conn -> State] /\ compacting \in [Conn -> SUBSET (0..MaxSeq)]
        /\ acked' \subseteq Acks
    BY DEF BatchCommit, StandsWell, Coherent, TypeOK, Acks, OpenWell
  <1>1. CASE batch.settled = <<>>
    BY <1>0, <1>1, QuietHit
  <1>2. ASSUME NEW s \in State, batch.settled = <<s>>, Correct(s)
        PROVE  StandsWell(says)'
    <2>1. cache' = [cache EXCEPT ![batch.conn] = s]
      BY <1>0, <1>2
    <2>2. \A d \in Conn : cache'[d] = s
      BY <1>0, <2>1 DEF OneConn, OpenWell
    <2>3. cache' \in [Conn -> State]
      BY <1>0, <2>1
    <2> QED
      BY <1>0, <1>2, <2>2, <2>3, QuietHit
  <1> QED
    BY <1>1, <1>2 DEF OpenWell

LEMMA RollbackHit ==
  ASSUME NEW says, StandsWell(says), OpenWell(says), BatchRollback
  PROVE  StandsWell(says)'
  <1>0. /\ doc' = batch.before.doc /\ operations' = batch.before.operations
        /\ epoch' = batch.before.epoch /\ replicas' = batch.before.replicas
        /\ cache' \in {cache, Remembered(batch.conn)}
        /\ UNCHANGED <<minted, compacting, acked>>
        /\ cache \in [Conn -> State] /\ Coherent /\ batch.conn \in Conn
    BY DEF BatchRollback, StandsWell, Coherent, TypeOK, OpenWell
  <1>1. /\ cache' \in [Conn -> State]
        /\ \A d \in Conn : cache'[d] = cache[d] \/ Correct(cache'[d])
    BY <1>0, RememberedIsCorrect
  <1>2. Coherent' /\ RowsSaid(operations', says)
    BY <1>0, <1>1, RestoredBefore
  <1>3. ASSUME NEW d \in Conn
        PROVE  (FirstSaid(cache[d], says) \/ Correct(cache[d]))'
    <2>1. FirstSaid(cache[d], says)
      BY AllFirst
    <2>2. ASSUME Correct(cache'[d])
          PROVE  FirstSaid(cache'[d], says)
      BY <1>0, <2>2, CorrectFirst DEF StandsWell
    <2> QED
      BY <1>1, <2>1, <2>2 DEF FirstSaid
  <1> QED
    BY <1>2, <1>3 DEF StandsWell

LEMMA RowCursor ==
  ASSUME NEW s, NEW given, s.cursor \in Nat, s.snapshotCursor \in Nat,
         doc \in [cursor : 0..MaxSeq, snapshot : Snapshots,
                 snapshotCursor : 0..MaxSeq, floor : 0..MaxSeq]
  PROVE  RowAfter(s, given).snapshotCursor \in {s.cursor + 1, doc.snapshotCursor}
  <1>1. CASE s.cursor + 1 - s.snapshotCursor >= SnapshotEvery
    <2>1. RowAfter(s, given) = [cursor |-> s.cursor + 1, snapshot |-> given,
                                snapshotCursor |-> s.cursor + 1, floor |-> doc.floor]
      BY <1>1, SnapshotEveryAssumption DEF RowAfter
    <2> QED
      BY <2>1
  <1>2. CASE ~(s.cursor + 1 - s.snapshotCursor >= SnapshotEvery)
    <2>1. RowAfter(s, given) = [doc EXCEPT !.cursor = s.cursor + 1]
      BY <1>2, SnapshotEveryAssumption DEF RowAfter
    <2> QED
      BY <2>1
  <1> QED
    BY <1>1, <1>2

\* An append that rolled back remembers a state that is one operation ahead.
LEMMA RolledBackHit ==
  ASSUME OneConn, NEW says, AsSaid(says), StandsWell(says), NEW c \in Conn,
         NEW op \in Operation, NEW actor \in Actor, AppendRolledBack(c, op, actor)
  PROVE  StandsWell(says)'
  <1> DEFINE state == Materialize(c)
             mint == epoch = NoEpoch
             entry == [op |-> op, actor |-> actor]
             lost == [snapshot |-> Reduce(state, entry), cursor |-> state.cursor + 1,
                      snapshotCursor |-> RowAfter(state, <<>>).snapshotCursor,
                      last |-> op.id, epoch |-> IF mint THEN minted + 1 ELSE epoch]
  <1>0. /\ doc \in [cursor : 0..MaxSeq, snapshot : Snapshots,
                    snapshotCursor : 0..MaxSeq, floor : 0..MaxSeq]
        /\ doc.cursor \in Nat /\ MaxSeq \in Nat /\ MaxEpoch \in Nat
        /\ epoch \in 0..MaxEpoch /\ minted \in 0..MaxEpoch /\ epoch <= minted
        /\ cache \in [Conn -> State] /\ Coherent /\ entry \in Entry
    BY BoundsAssumption DEF StandsWell, Coherent, TypeOK, EpochsAreFresh, Entry
  <1>1. /\ state.cursor < MaxSeq
        /\ mint => minted < MaxEpoch
        /\ minted' = IF mint THEN minted + 1 ELSE minted
        /\ cache' = [cache EXCEPT ![c] = lost]
        /\ UNCHANGED <<doc, operations, epoch, replicas, compacting, acked>>
    BY DEF AppendRolledBack
  <1> HIDE DEF lost
  <1>2. /\ state.cursor = doc.cursor /\ state.snapshot = History(doc.cursor)
        /\ state.snapshotCursor = doc.snapshotCursor
    BY <1>0, MaterializeIsHistory
  <1>3. says[op.id] = entry
    BY DEF AsSaid, Commits
  <1>4. Reduce(state, entry) \in [1..(doc.cursor + 1) -> Entry]
    <2>1. \A i \in 1..doc.cursor : CommittedAt(i) \in Entry
      BY <1>0, EntryTypes DEF Coherent
    <2> QED
      BY <1>0, <1>2, <2>1 DEF Reduce, History
  <1> HIDE DEF state, entry
  <1>5. lost \in State
    <2> DEFINE reduced == Reduce(state, entry)
               row == RowAfter(state, <<>>)
    <2>0. /\ lost.snapshot = reduced /\ lost.cursor = doc.cursor + 1
          /\ lost.snapshotCursor = row.snapshotCursor /\ lost.last = op.id
          /\ lost.epoch = IF mint THEN minted + 1 ELSE epoch
          /\ lost = [snapshot |-> lost.snapshot, cursor |-> lost.cursor,
                     snapshotCursor |-> lost.snapshotCursor, last |-> lost.last,
                     epoch |-> lost.epoch]
      BY <1>2 DEF lost
    <2>1. row.snapshotCursor \in {doc.cursor + 1, doc.snapshotCursor}
      <3>1. state.cursor \in Nat /\ state.snapshotCursor \in Nat
        BY <1>0, <1>2
      <3> QED
        BY <1>0, <1>2, <3>1, RowCursor
    <2>2. doc.cursor < MaxSeq /\ (mint => minted < MaxEpoch)
      BY <1>1, <1>2
    <2> HIDE DEF reduced, row
    <2>3. doc.cursor + 1 \in 0..MaxSeq /\ doc.snapshotCursor \in 0..MaxSeq
      BY <1>0, <2>2
    <2>4. reduced \in Snapshots
      BY <1>4, <2>3 DEF Snapshots, reduced
    <2>5. lost.epoch \in 0..MaxEpoch
      BY <1>0, <2>0, <2>2
    <2>6. op.id \in OpId
      BY DEF Operation
    <2> QED
      BY <2>0, <2>1, <2>3, <2>4, <2>5, <2>6 DEF State
  <1>6. /\ lost.cursor = doc.cursor + 1 /\ lost.last = op.id
        /\ lost.snapshot = Reduce(state, entry) /\ lost.epoch <= minted'
    BY <1>0, <1>1, <1>2 DEF lost
  <1>7. FirstSaid(lost, says)
    <2>1. lost.cursor = 1 => Reduce(state, entry) = [i \in 1..1 |-> entry]
      BY <1>0, <1>2, <1>6 DEF Reduce
    <2> QED
      BY <1>3, <1>6, <2>1 DEF FirstSaid
  <1>8. /\ cache' \in [Conn -> State] /\ \A d \in Conn : cache'[d] = lost
        /\ minted' \in 0..MaxEpoch /\ minted <= minted'
    BY <1>0, <1>1, <1>5 DEF OneConn
  <1>9. \A n : History(n)' = History(n)
    BY <1>1 DEF History, CommittedAt, RowsAt
  <1>10. TypeOK'
    BY <1>1, <1>8 DEF StandsWell, Coherent, TypeOK
  <1>11. RowsWellFormed' /\ SnapshotIsPrefix'
    BY <1>1, <1>9 DEF StandsWell, Coherent, RowsWellFormed, SnapshotIsPrefix
  <1>12. EpochsAreFresh'
    BY <1>0, <1>1, <1>6, <1>8 DEF StandsWell, Coherent, EpochsAreFresh
  <1>13. HitIsCurrent'
    BY <1>0, <1>1, <1>6, <1>8 DEF HitIsCurrent, CacheHit
  <1> QED
    BY <1>1, <1>7, <1>8, <1>10, <1>11, <1>12, <1>13 DEF StandsWell, Coherent

LEMMA NextHit ==
  ASSUME OneConn, NEW says
  PROVE  HitIInv(says) /\ [BatchNext]_bvars /\ [AsSaid(says)]_bvars => HitIInv(says)'
  <1> SUFFICES ASSUME HitIInv(says), [BatchNext]_bvars, [AsSaid(says)]_bvars
               PROVE  HitIInv(says)'
    OBVIOUS
  <1>0. StandsWell(says) /\ (batch # NoBatch => OpenWell(says))
    BY DEF HitIInv
  <1>1. CASE UNCHANGED bvars
    <2>1. UNCHANGED vars /\ batch' = batch
      BY <1>1 DEF bvars
    <2>2. StandsWell(says)' /\ \A s : Correct(s) => Correct(s)'
      BY <1>0, <2>1, QuietHit, QuietTables DEF StandsWell, Coherent, TypeOK, vars, Acks
    <2>3. ASSUME OpenWell(says)
          PROVE  OpenWell(says)'
      <3>1. /\ (Before!TypeOK /\ Before!RowsWellFormed /\ Before!SnapshotIsPrefix)'
            /\ (Before!EpochsAreFresh /\ Before!HitIsCurrent)'
        BY <1>0, <2>1, <2>3, BeforeStays, BoundsAssumption
           DEF StandsWell, Coherent, TypeOK, vars, Acks
      <3> QED
        BY <2>1, <2>2, <2>3, <3>1 DEF OpenWell, vars
    <2> QED
      BY <1>0, <2>1, <2>2, <2>3 DEF HitIInv
  <1>2. CASE BatchNext /\ AsSaid(says)
    <2>1. CASE batch = NoBatch /\ Next /\ UNCHANGED batch
      BY <1>0, <1>2, <2>1, JournalHit DEF HitIInv
    <2>2. ASSUME NEW c \in Conn, NEW actor \in Actor, BatchBegin(c, actor)
          PROVE  HitIInv(says)'
      BY <1>0, <2>2, BeginHit
    <2>3. ASSUME NEW op \in Operation, BatchEntry(op)
          PROVE  HitIInv(says)'
      BY <1>0, <1>2, <2>3, AgainHit, EntryHit DEF BatchEntry
    <2>4. CASE BatchCommit
      BY <1>0, <2>4, BatchCommitHit DEF HitIInv, BatchCommit
    <2>5. CASE BatchRollback
      BY <1>0, <2>5, RollbackHit DEF HitIInv, BatchRollback
    <2>6. ASSUME NEW c \in Conn, NEW op \in Operation, NEW actor \in Actor,
                 AppendRolledBack(c, op, actor)
          PROVE  HitIInv(says)'
      <3>1. StandsWell(says)'
        BY <1>0, <1>2, <2>6, RolledBackHit
      <3> QED
        BY <2>6, <3>1 DEF HitIInv, AppendRolledBack
    <2> QED
      BY <1>2, <2>1, <2>2, <2>3, <2>4, <2>5, <2>6 DEF BatchNext
  <1> QED
    BY <1>1, <1>2

\* With one connection and ids that always say the same, the tables, those a
\* rollback would restore and what is remembered are of one history.
THEOREM BatchHit ==
  ASSUME OneConn, NEW CONSTANT says
  PROVE  BatchSpec /\ [][AsSaid(says)]_bvars => []HitIInv(says)
  <1>1. BatchInit => HitIInv(says)
    <2> SUFFICES ASSUME BatchInit
                 PROVE  HitIInv(says)
      OBVIOUS
    <2>1. IInv
      BY InitIInv DEF BatchInit
    <2>2. RowsSaid(operations, says) /\ \A c \in Conn : FirstSaid(cache[c], says)
      BY DEF BatchInit, Init, RowsSaid, FirstSaid, EmptyState
    <2> QED
      BY <2>1, <2>2, IInvCoherent DEF BatchInit, HitIInv, StandsWell
  <1> QED
    BY <1>1, NextHit, PTL DEF BatchSpec

\* A lookup between transactions finds exactly the committed state, although
\* transactions rolled back after they had remembered theirs.
THEOREM SettledHit ==
  ASSUME OneConn, NEW CONSTANT says
  PROVE  BatchSpec /\ [][AsSaid(says)]_bvars => []SettledHitIsCurrent
  <1>1. HitIInv(says) => SettledHitIsCurrent
    BY DEF HitIInv, StandsWell, Coherent, SettledHitIsCurrent
  <1> QED
    BY <1>1, BatchHit, PTL
=============================================================================
