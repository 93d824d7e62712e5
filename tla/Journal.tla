------------------------------- MODULE Journal -------------------------------
(***************************************************************************)
(* The SQL journal of packages/durable/src/journal.ts, for one document:   *)
(* its rows in `documents`, `operations`, `epochs` and `replicas`, and the *)
(* in-memory cache and running compactions of every journal instance (a    *)
(* connection) that has the database open.                                 *)
(*                                                                         *)
(* A transaction of SQLite or Postgres is one action; what the code does   *)
(* outside its transactions (the bounds check of `compact`) is a step of   *)
(* its own, so other connections and fibers interleave there.  The reducer *)
(* is abstracted to the free one: a snapshot is the sequence of the        *)
(* entries folded into it, so two snapshots are equal only if every        *)
(* reducer would have made them equal.                                     *)
(***************************************************************************)
EXTENDS Integers, FiniteSets

CONSTANTS
  Conn,           \* journal instances open on one database
  OpId,           \* operation ids
  Body,           \* what an operation says, its id and replica apart
  Replica,        \* replica ids operations are sent from
  Actor,          \* authenticated actors (options.actorId of a principal)
  NoActor,        \* what an unbound replica id is bound to
  NoOp,           \* the id of no operation
  Compacted,      \* a payload that was compacted away
  SnapshotEvery,  \* options.snapshotEvery
  MaxSeq,         \* bound: operations committed between two resets
  MaxEpoch,       \* bound: epochs ever minted
  MaxCompactions  \* bound: compactions past their check at one time

ASSUME SnapshotEveryAssumption == SnapshotEvery \in Nat \ {0}
ASSUME BoundsAssumption ==
  MaxSeq \in Nat /\ MaxEpoch \in Nat /\ MaxCompactions \in Nat

VARIABLES
  doc,        \* the row of `documents`; cursor 0 stands for no row
  operations, \* the rows of `operations`
  epoch,      \* the row of `epochs`, or NoEpoch
  minted,     \* how many epochs were ever minted: a UUID is a fresh one
  replicas,   \* the rows of `replicas`: the actor each replica is bound to
  cache,      \* per connection, `current`: the state it remembers
  compacting, \* per connection, the compactions past their bounds check
  acked       \* the answers senders were given since the last reset

vars == <<doc, operations, epoch, minted, replicas, cache, compacting, acked>>

NoEpoch == 0

Operation == [id : OpId, body : Body, replica : Replica]

\* A stored operation: the sent one as `stamp` completed it from the actor.
Entry == [op : Operation, actor : Actor]

OperationRow ==
  [id : OpId, sequence : 1..MaxSeq, actor : Actor,
   input : Entry \cup {Compacted}, hash : Operation]

\* A snapshot: the entries folded into it, in order.
Snapshots == UNION {[1..n -> Entry] : n \in 0..MaxSeq}

\* The state of a document at its cursor, as `current` keeps it.
State == [snapshot : Snapshots, cursor : 0..MaxSeq, snapshotCursor : 0..MaxSeq,
          last : OpId \cup {NoOp}, epoch : 0..MaxEpoch]

ASSUME NullsAssumption == NoActor \notin Actor /\ Compacted \notin Entry

NoRow == [cursor |-> 0, snapshot |-> <<>>, snapshotCursor |-> 0, floor |-> 0]

-----------------------------------------------------------------------------
(* Reading the tables.                                                     *)

\* The rows of the operation a cursor stands at, and those of an identity.
RowsAt(n) == {r \in operations : r.sequence = n}
PriorRows(id) == {r \in operations : r.id = id}

LastOp(n) == IF RowsAt(n) = {} THEN NoOp ELSE (CHOOSE r \in RowsAt(n) : TRUE).id
InputAt(n) == (CHOOSE r \in RowsAt(n) : TRUE).input

\* What was committed at n, as the columns compaction keeps still tell it.
CommittedAt(n) == LET r == CHOOSE r \in RowsAt(n) : TRUE
                  IN  [op |-> r.hash, actor |-> r.actor]
History(n) == [i \in 1..n |-> CommittedAt(i)]

\* The stored snapshot with the operations since replayed over it.
Replayed ==
  [i \in 1..doc.cursor |->
     IF i <= doc.snapshotCursor THEN doc.snapshot[i] ELSE InputAt(i)]

Stored ==
  [snapshot |-> Replayed, cursor |-> doc.cursor,
   snapshotCursor |-> doc.snapshotCursor, last |-> LastOp(doc.cursor),
   epoch |-> epoch]

\* The state of a document without a row.  No lookup of a document with a row
\* matches it, so it stands for a cache that remembers nothing, too.
EmptyState ==
  [snapshot |-> <<>>, cursor |-> 0, snapshotCursor |-> 0,
   last |-> NoOp, epoch |-> NoEpoch]

\* Mutants: a lookup that compares too little.
CacheHitAnyEpoch(c) ==
  /\ cache[c].cursor = doc.cursor
  /\ cache[c].snapshotCursor = doc.snapshotCursor
  /\ cache[c].last = LastOp(doc.cursor)
CacheHitByEpoch(c) == cache[c].epoch = epoch

\* A row is there and what is remembered is of its cursor, its snapshot, its
\* last operation and its epoch.
CacheHit(c) ==
  /\ cache[c].cursor = doc.cursor
  /\ cache[c].snapshotCursor = doc.snapshotCursor
  /\ cache[c].last = LastOp(doc.cursor)
  /\ cache[c].epoch = epoch

Materialize(c) ==
  IF doc.cursor = 0 THEN EmptyState
  ELSE IF CacheHit(c) THEN cache[c] ELSE Stored

\* The cache once `materialize` ran on c: no row is not remembered.
Remembered(c) ==
  IF doc.cursor = 0 THEN cache ELSE [cache EXCEPT ![c] = Materialize(c)]

\* Mutant of ReadPage: a read that does not check the floor.
ReadPageAnyFloor(after) ==
  [tag |-> "Page",
   page |-> {r \in operations : r.sequence > after /\ r.input # Compacted}]

\* What `read` answers for the cursor `after`: the rows of one page, or a
\* refusal.  The page limit only cuts the tail short and is left to callers.
ReadPage(after) ==
  IF after > doc.cursor THEN [tag |-> "InvalidCursor", page |-> {}]
  ELSE IF after < doc.floor THEN [tag |-> "CompactedCursor", page |-> {}]
  ELSE [tag |-> "Page",
        page |-> {r \in operations : r.sequence > after /\ r.input # Compacted}]

-----------------------------------------------------------------------------
(* The operations.                                                         *)

Init ==
  /\ doc = NoRow
  /\ operations = {}
  /\ epoch = NoEpoch
  /\ minted = 0
  /\ replicas = [r \in Replica |-> NoActor]
  /\ cache = [c \in Conn |-> EmptyState]
  /\ compacting = [c \in Conn |-> {}]
  /\ acked = {}

\* epoch: the first call mints the identity, later ones read it.
Epoch ==
  /\ epoch = NoEpoch
  /\ minted < MaxEpoch
  /\ minted' = minted + 1
  /\ epoch' = minted'
  /\ UNCHANGED <<doc, operations, replicas, cache, compacting, acked>>

\* load: materialize in a transaction of its own.
Load(c) ==
  /\ cache' = Remembered(c)
  /\ UNCHANGED <<doc, operations, epoch, minted, replicas, compacting, acked>>

Ack(op, actor, sequence) == [op |-> op, actor |-> actor, sequence |-> sequence]

\* Mutant of Same: the payload hash is not compared.
SameActor(r, op, actor) == r.actor = actor

\* A retransmission: the content, by its hash, and the actor are the same.
Same(r, op, actor) == r.hash = op /\ r.actor = actor

\* append of an operation id that has a row: answered from it, or refused
\* with IdentityConflictError, which changes nothing.
AppendAgain(op, actor) ==
  /\ \E r \in PriorRows(op.id) :
       /\ Same(r, op, actor)
       /\ acked' = acked \cup {Ack(op, r.actor, r.sequence)}
  /\ UNCHANGED <<doc, operations, epoch, minted, replicas, cache, compacting>>

\* Mutant of Bindable: whoever sends takes the replica over.
BindableByAnyone(replica, actor) == TRUE

Bindable(replica, actor) == replicas[replica] \in {NoActor, actor}

\* append of a new operation that validate or authorize refuses: the
\* transaction rolls back, with the replica it bound, and leaves the cache.
AppendRefused(c, op, actor) ==
  /\ PriorRows(op.id) = {}
  /\ Bindable(op.replica, actor)
  /\ cache' = Remembered(c)
  /\ UNCHANGED <<doc, operations, epoch, minted, replicas, compacting, acked>>

\* The document row after a commit on `state`: the snapshot is written when
\* it lags by SnapshotEvery; a first commit that does not write it stores
\* the empty one.
RowAfter(state, snapshot) ==
  LET sequence == state.cursor + 1 IN
  IF sequence - state.snapshotCursor >= SnapshotEvery
  THEN [cursor |-> sequence, snapshot |-> snapshot,
        snapshotCursor |-> sequence, floor |-> doc.floor]
  ELSE [doc EXCEPT !.cursor = sequence]

Reduce(state, entry) ==
  [i \in 1..(state.cursor + 1) |->
     IF i <= state.cursor THEN state.snapshot[i] ELSE entry]

\* The state a commit of op on `state` leaves.
Committing(state, op, actor) ==
  LET reduced == Reduce(state, [op |-> op, actor |-> actor])
      row     == RowAfter(state, reduced)
  IN  [snapshot |-> reduced, cursor |-> row.cursor,
       snapshotCursor |-> row.snapshotCursor, last |-> op.id, epoch |-> epoch']

\* commitPrepared of a new operation, what it writes.  Its INSERT OR IGNORE
\* keeps an epoch that `epoch` minted before the first commit.
CommitPrepared(state, op, actor) ==
  LET sequence == state.cursor + 1
      entry    == [op |-> op, actor |-> actor]
  IN
  /\ PriorRows(op.id) = {}
  /\ Bindable(op.replica, actor)
  /\ sequence <= MaxSeq
  /\ IF epoch # NoEpoch THEN UNCHANGED <<epoch, minted>>
     ELSE minted < MaxEpoch /\ minted' = minted + 1 /\ epoch' = minted'
  /\ replicas' = [replicas EXCEPT ![op.replica] = actor]
  /\ operations' = operations \cup
       {[id |-> op.id, sequence |-> sequence, actor |-> actor,
         input |-> entry, hash |-> op]}
  /\ doc' = RowAfter(state, Reduce(state, entry))

\* append of a new operation that commits.
AppendCommitted(c, op, actor) ==
  LET state == Materialize(c) IN
  /\ CommitPrepared(state, op, actor)
  /\ cache' = [cache EXCEPT ![c] = Committing(state, op, actor)]
  /\ acked' = acked \cup {Ack(op, actor, state.cursor + 1)}
  /\ UNCHANGED compacting

\* The compactions past their check: a connection and a bound each.
InFlight == {x \in Conn \X (0..MaxSeq) : x[2] \in compacting[x[1]]}

\* compact, its bounds check: the cursor and the floor are read before the
\* transaction that compacts.
CompactCheck(c, through) ==
  /\ Cardinality(InFlight) < MaxCompactions
  /\ through >= doc.floor
  /\ through <= doc.cursor
  /\ compacting' = [compacting EXCEPT ![c] = @ \cup {through}]
  /\ UNCHANGED <<doc, operations, epoch, minted, replicas, cache, acked>>

\* Mutant of SnapshotWritten: a lagging snapshot is left as it is.
SnapshotLeftBehind(state, through) == doc

\* A stored snapshot that lags behind `through` is written at the cursor.
SnapshotWritten(state, through) ==
  IF state.snapshotCursor < through
  THEN [doc EXCEPT !.snapshot = state.snapshot, !.snapshotCursor = state.cursor]
  ELSE doc

\* compact, its transaction: the payloads are dropped and the floor is set,
\* with whatever bounds the check read. Without a row the updates match none.
CompactCommit(c, through) ==
  LET state == Materialize(c) IN
  /\ through \in compacting[c]
  /\ compacting' = [compacting EXCEPT ![c] = @ \ {through}]
  /\ doc' = IF doc.cursor = 0 THEN doc
            ELSE [SnapshotWritten(state, through) EXCEPT !.floor = through]
  /\ operations' = {IF r.sequence <= through THEN [r EXCEPT !.input = Compacted] ELSE r
                      : r \in operations}
  /\ cache' = IF state.snapshotCursor < through
              THEN [cache EXCEPT ![c] = [state EXCEPT !.snapshotCursor = state.cursor]]
              ELSE Remembered(c)
  /\ UNCHANGED <<epoch, minted, replicas, acked>>

\* Mutant of Reset: the epoch stays.
ResetKeepsEpoch(c) ==
  /\ doc' = NoRow
  /\ operations' = {}
  /\ cache' = [cache EXCEPT ![c] = EmptyState]
  /\ acked' = {}
  /\ UNCHANGED <<epoch, minted, replicas, compacting>>

\* reset: operations, snapshot and epoch go; replica bindings and compactions
\* already past their check stay. What other fibers do between its transaction
\* and `current.delete` is what another connection does with its own cache.
Reset(c) ==
  /\ doc' = NoRow
  /\ operations' = {}
  /\ epoch' = NoEpoch
  /\ cache' = [cache EXCEPT ![c] = EmptyState]
  /\ acked' = {}
  /\ UNCHANGED <<minted, replicas, compacting>>

\* The cache entry is the oldest of CACHED_DOCUMENTS and other documents
\* push it out.
Evict(c) ==
  /\ cache' = [cache EXCEPT ![c] = EmptyState]
  /\ UNCHANGED <<doc, operations, epoch, minted, replicas, compacting, acked>>

\* The process of a connection ends and a new one opens the database.
Restart(c) ==
  /\ cache' = [cache EXCEPT ![c] = EmptyState]
  /\ compacting' = [compacting EXCEPT ![c] = {}]
  /\ UNCHANGED <<doc, operations, epoch, minted, replicas, acked>>

SomeAppend ==
  \E op \in Operation, actor \in Actor :
    \/ AppendAgain(op, actor)
    \/ \E c \in Conn : AppendRefused(c, op, actor) \/ AppendCommitted(c, op, actor)

SomeCompact ==
  \E c \in Conn, through \in 0..MaxSeq :
    CompactCheck(c, through) \/ CompactCommit(c, through)

Next ==
  \/ Epoch
  \/ SomeAppend
  \/ SomeCompact
  \/ \E c \in Conn : Load(c) \/ Reset(c) \/ Evict(c) \/ Restart(c)

Spec == Init /\ [][Next]_vars

-----------------------------------------------------------------------------
(* What must hold of it.                                                   *)

\* Every variable holds what its table or map can hold.
TypeOK ==
  /\ doc \in [cursor : 0..MaxSeq, snapshot : Snapshots,
             snapshotCursor : 0..MaxSeq, floor : 0..MaxSeq]
  /\ operations \subseteq OperationRow
  /\ epoch \in 0..MaxEpoch /\ minted \in 0..MaxEpoch
  /\ replicas \in [Replica -> Actor \cup {NoActor}]
  /\ cache \in [Conn -> State]
  /\ compacting \in [Conn -> SUBSET (0..MaxSeq)]
  /\ acked \subseteq [op : Operation, actor : Actor, sequence : 1..MaxSeq]

\* The log is one total order without holes: the unique constraints on the
\* sequence and on the identity (migrate, commitPrepared) never have to fire,
\* whichever connection commits and whatever its cache remembers.
OneRowPerSequence ==
  /\ {r.sequence : r \in operations} = 1..doc.cursor
  /\ \A r, s \in operations : r.sequence = s.sequence \/ r.id = s.id => r = s

\* What a connection with a cold cache loads is the fold of everything
\* committed: no commit on a remembered state and no compaction, however
\* late its transaction runs after its check, ever loses or alters an entry
\* ("Compaction never removes an operation the stored snapshot has not
\* folded in", materialize).
StoredStateFaithful == Replayed = History(doc.cursor)

\* A connection that finds its cache valid remembers exactly the committed
\* state, after other connections committed, compacted or reset the document
\* (the comment on `current`).
HitIsCurrent ==
  \A c \in Conn :
    doc.cursor > 0 /\ CacheHit(c) => cache[c].snapshot = History(doc.cursor)

\* read never answers a tail that silently starts late or has a hole: every
\* page from a cursor at or above the floor holds every later operation.
TailComplete ==
  \A after \in 0..doc.cursor :
    ReadPage(after).tag = "Page" =>
      {r.sequence : r \in ReadPage(after).page} = (after + 1)..doc.cursor

\* Exactly once: whatever was answered committed is at the sequence it was
\* answered with, with the content and the actor it was sent with, and no
\* retransmission of it, before or after compaction, was answered otherwise.
AckedOnce ==
  /\ \A a \in acked : \E r \in operations :
       r.hash = a.op /\ r.actor = a.actor /\ r.sequence = a.sequence
  /\ \A a, b \in acked : a.op.id = b.op.id => a = b

\* All of a replica's operations are one actor's: the actor that bound it,
\* before a reset or after it, and never one whose append was refused.
ReplicaHasOneActor ==
  \A r \in operations : replicas[r.hash.replica] = r.actor

\* A replica never changes hands, not even by a reset (`replicas` is kept).
BindingsStand ==
  [][\A r \in Replica : replicas[r] # NoActor => replicas'[r] = replicas[r]]_vars

\* What makes the invariants above inductive. Every row is of this history, as
\* it was sent or without its payload, and every sequence has one.
RowsWellFormed ==
  /\ \A r \in operations :
       /\ r.sequence \in 1..doc.cursor
       /\ r.id = r.hash.id
       /\ r.input \in {Compacted, [op |-> r.hash, actor |-> r.actor]}
  /\ \A n \in 1..doc.cursor : \E r \in operations : r.sequence = n
  /\ \A r, s \in operations : r.sequence = s.sequence \/ r.id = s.id => r = s

\* The stored snapshot is a prefix, and everything after it has its payload.
SnapshotIsPrefix ==
  /\ doc.snapshotCursor <= doc.cursor
  /\ doc.snapshot = History(doc.snapshotCursor)
  /\ \A r \in operations : r.sequence > doc.snapshotCursor => r.input # Compacted

\* No history has the epoch of another, and none is without one.
EpochsAreFresh ==
  /\ doc.cursor > 0 => epoch # NoEpoch
  /\ epoch <= minted
  /\ \A c \in Conn : cache[c].epoch <= minted

\* What a connection remembers of the standing epoch is a prefix of its log,
\* hit or not.
CacheIsPrefix ==
  \A c \in Conn : cache[c].epoch = epoch /\ epoch # NoEpoch =>
    /\ cache[c].cursor <= doc.cursor
    /\ cache[c].snapshot = History(cache[c].cursor)

\* The inductive invariant: stored, replayed and remembered states all agree
\* with the rows, across commits, compactions and resets of every connection.
IInv ==
  /\ TypeOK
  /\ RowsWellFormed
  /\ SnapshotIsPrefix
  /\ EpochsAreFresh
  /\ CacheIsPrefix

\* While one compaction runs at a time: every dropped payload is at or below
\* the floor, and the compaction in flight only raises it.
FloorCovers ==
  /\ \A r \in operations : r.input = Compacted => r.sequence <= doc.floor
  /\ \A c \in Conn : \A through \in compacting[c] : through >= doc.floor
  /\ InFlight # {} => \E x : InFlight = {x}

\* The journal is a log of operations, each committed once, that only grows
\* while its epoch stands.  The log is what a cold connection loads.
Log == INSTANCE CommittedLog WITH
         log <- Replayed, epoch <- epoch, used <- 1..minted
IsALog == Log!Spec
=============================================================================
