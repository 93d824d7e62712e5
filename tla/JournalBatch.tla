----------------------------- MODULE JournalBatch -----------------------------
(***************************************************************************)
(* The journal with the transactions that can roll back after they touched *)
(* the cache: `appendAll` of packages/durable/src/journal.ts, whose entries *)
(* are steps of one transaction, and an `append` whose COMMIT fails.        *)
(*                                                                         *)
(* The tables roll back; the `current` map of the connection does not.     *)
(* While a batch is open the variables hold what its connection sees, and  *)
(* nothing else steps: SQLite serialises writers, and a reader elsewhere   *)
(* that sees the database before the batch could have stepped before it.   *)
(***************************************************************************)
EXTENDS Journal, Sequences

CONSTANT MaxBatch  \* bound: operations in one appendAll

ASSUME MaxBatchAssumption == MaxBatch \in Nat

VARIABLE batch  \* the transaction of appendAll, <<>> when there is none

bvars == <<vars, batch>>

Tables == [doc |-> doc, operations |-> operations, epoch |-> epoch,
           replicas |-> replicas]

NoBatch == <<>>

BatchInit == Init /\ batch = NoBatch

\* appendAll enters its transaction: `before` is what a rollback restores.
BatchBegin(c, actor) ==
  /\ batch = NoBatch
  /\ batch' = [conn |-> c, actor |-> actor, before |-> Tables,
               settled |-> <<>>, acks |-> {}, entries |-> 0]
  /\ UNCHANGED vars

\* One entry that has a row already: answered from it.
EntryAgain(op) ==
  /\ \E r \in PriorRows(op.id) :
       /\ Same(r, op, batch.actor)
       /\ batch' = [batch EXCEPT !.entries = @ + 1,
                      !.acks = @ \cup {Ack(op, r.actor, r.sequence)}]
  /\ UNCHANGED vars

\* One entry committed in the transaction. Its `working` map is its own, so
\* `materialize` reads the uncommitted row and remembers it in `current`; the
\* state it commits waits in `working` for settleBatch.
EntryCommitted(op) ==
  LET state == Materialize(batch.conn) IN
  /\ CommitPrepared(state, op, batch.actor)
  /\ cache' = Remembered(batch.conn)
  /\ batch' = [batch EXCEPT !.entries = @ + 1,
                 !.settled = <<Committing(state, op, batch.actor)>>,
                 !.acks = @ \cup {Ack(op, batch.actor, state.cursor + 1)}]
  /\ UNCHANGED <<compacting, acked>>

BatchEntry(op) ==
  /\ batch # NoBatch
  /\ batch.entries < MaxBatch
  /\ EntryAgain(op) \/ EntryCommitted(op)

\* Every entry stood: COMMIT, then settleBatch remembers the last state.
BatchCommit ==
  /\ batch # NoBatch
  /\ batch.entries > 0
  /\ cache' = IF batch.settled = <<>> THEN cache
              ELSE [cache EXCEPT ![batch.conn] = batch.settled[1]]
  /\ acked' = acked \cup batch.acks
  /\ batch' = NoBatch
  /\ UNCHANGED <<doc, operations, epoch, minted, replicas, compacting>>

\* Mutant of BatchRollback: entries are answered as they are decided.
BatchRollbackAnswered ==
  /\ batch # NoBatch
  /\ doc' = batch.before.doc
  /\ operations' = batch.before.operations
  /\ epoch' = batch.before.epoch
  /\ replicas' = batch.before.replicas
  /\ acked' = acked \cup batch.acks
  /\ batch' = NoBatch
  /\ UNCHANGED <<minted, compacting, cache>>

\* An entry is refused or in conflict, or COMMIT fails: the tables are what
\* they were. A refused entry has materialized first.
BatchRollback ==
  /\ batch # NoBatch
  /\ doc' = batch.before.doc
  /\ operations' = batch.before.operations
  /\ epoch' = batch.before.epoch
  /\ replicas' = batch.before.replicas
  /\ cache' \in {cache, Remembered(batch.conn)}
  /\ batch' = NoBatch
  /\ UNCHANGED <<minted, compacting, acked>>

\* append whose COMMIT fails, or whose fiber is interrupted before it: its
\* settleCommit has run inside the transaction that rolls back.
AppendRolledBack(c, op, actor) ==
  LET state == Materialize(c)
      mint  == epoch = NoEpoch
      lost  == [snapshot |-> Reduce(state, [op |-> op, actor |-> actor]),
                cursor |-> state.cursor + 1,
                snapshotCursor |-> RowAfter(state, <<>>).snapshotCursor,
                last |-> op.id, epoch |-> IF mint THEN minted + 1 ELSE epoch]
  IN
  /\ batch = NoBatch
  /\ PriorRows(op.id) = {}
  /\ Bindable(op.replica, actor)
  /\ state.cursor < MaxSeq
  /\ mint => minted < MaxEpoch
  /\ minted' = IF mint THEN minted + 1 ELSE minted
  /\ cache' = [cache EXCEPT ![c] = lost]
  /\ UNCHANGED <<doc, operations, epoch, replicas, compacting, acked, batch>>

BatchNext ==
  \/ batch = NoBatch /\ Next /\ UNCHANGED batch
  \/ \E c \in Conn, actor \in Actor : BatchBegin(c, actor)
  \/ \E op \in Operation : BatchEntry(op)
  \/ BatchCommit
  \/ BatchRollback
  \/ \E c \in Conn, op \in Operation, actor \in Actor : AppendRolledBack(c, op, actor)

BatchSpec == BatchInit /\ [][BatchNext]_bvars

-----------------------------------------------------------------------------

\* Between transactions, a connection whose cache is valid remembers exactly
\* the committed state, whatever was rolled back before.
SettledHitIsCurrent == batch = NoBatch => HitIsCurrent

\* appendAll is all or nothing: while its transaction runs nobody was answered
\* for an entry of it, and once it is over everything answered is in the log.
BatchIsAtomic == batch = NoBatch => AckedOnce
=============================================================================
