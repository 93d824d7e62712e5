# Formal models of foldkit-plus

TLA+ models of the stateful core of this repository, the TLC configurations that
check them on small instances, and theorems about them that TLAPS proves for every
instance. The repository's own docs say what the packages are for; this file says
what is modelled, how, and what the checks and the proofs show.

- [The system](#the-system)
- [Modules and code](#modules-and-code)
- [Runs and bounds](#runs-and-bounds)
- [Fairness](#fairness)
- [Where code and documentation disagree](#where-code-and-documentation-disagree)
- [Proofs](#proofs)
- [Not modelled](#not-modelled)
- [Plan](#plan)

Run everything from this directory: `tlc -config MCSync.cfg MCSync` checks a model,
`tlapm JournalTheorems.tla` checks proofs. `PROJECT.json` lists components, runs, the
source lines of every definition, hazards, and for each checked property a mutation of
the model that breaks it.

## The system

foldkit-plus is some fifty packages over Foldkit (an Elm-like runtime in Effect). Most of
them are pure or drive one user's screen. Four groups keep state that several actors
change, across awaits, processes and networks; these are where the models are.

| Component | State it keeps | Operations | Hard behaviour | What makes it correct |
| --- | --- | --- | --- | --- |
| durable: journal (`packages/durable/src/journal.ts`) | Per document: operations, stored snapshot, floor, epoch, replica bindings; per connection: remembered states | append, appendAll, read, load, epoch, compact, reset | Several connections to one database, caches beside it, check-then-act in compact, rollback, retries | The log is dense and append-only; every state anyone reads is the fold of it; an operation is committed once |
| durable: effect ledger (same file) | One row per effect key; the in-flight registry of a process | runEffect, effect, clearEffect, recover | Joiners, interruption at each await, a crash between act and record | One run at a time; no act without a record; a success is never repeated or taken back |
| sync: replica (`packages/sync/src/sync.ts`) | Committed state and cursor, outbox, id window, epoch, in storage and in memory; a wake queue | submit, synchronize, start, reopen | Lost replies, crashes, pages, checkpoints, resets, submits during an exchange | No edit lost or doubled, submission order kept, the view is a prefix of the log plus the outbox |
| sync: exchange server (`packages/sync/src/journal.ts`) | None of its own: the journal | journalExchange | Six awaits on the journal between which others commit, compact, reset | Each operation acknowledged or rejected once and truthfully; the reply continues the caller's cursor |
| sync: edits journal (same file) | `applied` in a process; a table; effect records | settle, absorb | Overlapping settles and absorbs, failing writes, restarts, resets | The table holds whatever replicas are told to drop |
| sync: socket transport (`packages/sync/src/transport.ts`) | A queue, frames in flight, one socket, a reconnect loop | exchange, open, close, message, dispose | Closes with frames in flight, interrupted callers, late answers, missed notices | One slot per waiting call, its own answer, an end to every call |
| sync: mount, presence, storage, hosts | A replica as a Submodel; peers with a TTL; IndexedDB; timers | install, refresh, persist; set, leave, flush; claim, load, merge | Stale messages, throttles racing with departure, two tabs | Planned |
| remote: client | Normalized rows, optimistic layers, mutation ledger, an outbox shared by tabs, live subscriptions | mutate, settle, retry, read, subscribe, persist | Answers out of order, retries, offline queues, gaps | Planned |
| remote-server, remote-drizzle | Records of executed mutations; SQL | execute, evaluate, compile | Retries of executed operations | Planned (the record of answers) |
| agent, ssr, mirror, richtext | Subscriptions; a page cache; awaited echoes; replicated documents and histories | see `PROJECT.json` | Ordering; richtext operations are total and undo inverts | Planned |
| everything else | One user's model, or none | views, validation, translation | Sequential | Left to tests |

How they interact: a **replica** submits into its outbox and calls `Transport.exchange`
with its cursor, outbox and epoch. The **socket transport** carries that call as a frame
and turns the server's notices into wake-ups of the replica's loop. The **exchange
server** appends each operation to the **journal**, answers which were taken, and adds
the rows after the cursor or a checkpoint; last it calls `settle`. **settle** replays
the journal through the **effect ledger** into an application's table, and **absorb**
commits the server's own operation saying how far the table got, then compacts the journal
behind it. The journal tells its subscribers of commits, which become the notices.

The actors run concurrently: fibers interleave at each `yield*` of Effect, callbacks of a
socket run to their end, and processes share only the database.

## Modules and code

    CommittedLog          <-------  ReplicatedLog
      ^ implemented by                ^ implemented by
    Journal <- JournalBatch         Sync            <- SyncProofs
      ^            ^                EffectLedger    <- EffectLedgerProofs
    JournalProofs <- JournalBatch-  EditsJournal    <- EditsJournalProofs
      ^              Proofs         SocketTransport <- SocketTransportProofs
    JournalTheorems
                                    Filter          <- FilterProofs

An arrow points to the module that is extended or implemented; modules named `...Proofs` and
JournalTheorems hold theorems only. Sync's journal is CommittedLog too, and
Sync and SocketTransport use Filter.

**CommittedLog** is the abstract log: a sequence of entries with distinct ids that only
grows, until a reset starts another history under an identity never used before.

**ReplicatedLog** adds what replicas and their server promise a reader: beside the log, a
view in each replica, which is its first so many operations, takes in more of it, and
is never taken back (but by a reset, or a late answer of a history that was reset).

**Journal** models one document in one database and the connections to it (`Conn`, one
per journal instance). `doc`, `operations`, `epoch` and `replicas` are the tables;
`cache` is `current`; `compacting` holds compactions past their bounds check. A
transaction is one action, as SQLite's are (`CommitPrepared` with its materialization,
binding, snapshot write and refusals; `Reset`; `CompactCommit`); a check before a
transaction is another (`CompactCheck`). A state of the reducer is the sequence of entries
folded into it, so equality of states is equality of histories for any reducer. Operation
hashes are the operations, content and all; randomUUID is the next number never used.
`Evict` is the LRU's bound, `Restart` a new process.

**JournalBatch** adds `appendAll`, whose entries are decided one at a time inside one
transaction, and an append whose COMMIT fails. While the batch is open nobody else
commits. A rollback restores the tables; the states remembered meanwhile stay, as the
code leaves them.

**EffectLedger** has one step for each await of `runEffect`: reserve, read, write
`pending`, run, write the outcome, resolve the Deferred, release. A fiber may be
interrupted and a statement may fail at each of them, with or without its effect, and a
provider that was interrupted may have acted. When the statement recording a success
fails, `tapError` writes `failed` (phase `amend`), over the success if the statement
executed all the same; durable's README reads `failed` as an outcome that is not known.
The properties allow a success to be overwritten by this and nothing else: by the run that
wrote it, before any caller is answered. `acted` counts what the provider did, recorded or
not, and is what the properties compare the records with. It assumes the README of
durable: one executor per database.

**Sync** is replicas and the server. An operation is the range of messages it says, so
coalescing (`Submit` with `merges`) extends it. `rep` is the stored state, which the
memory agrees with after each step; `unsent` is what memory alone knows (which operations
no exchange carried) and a crash forgets. An exchange is a record in a slot of `Call`: the
server takes a step for each of its journal calls, and the client may give up at any
moment while the server goes on. `HandleFailure` is whatever fails an exchange at one of those
calls, `opens` included; what it appended stays. An operation that does not decode is one
the server refuses (`Refusable`). `refused` and `wiped` are the very operations that
a replica was told are rejected, and that were committed in a history since reset:
`NoLostEdit` and `NoFlicker` excuse the messages of these and of no other. The
journal is `CommittedLog`, which `JournalIsALog` proves of the real one.

**EditsJournal** is `settle` and `absorb`, a step for each await. The journal is its log
and floor, `runEffect` what EffectLedger shows of it: one run of a key, joined by others,
none once a success is recorded. A row remembers the sequence and the history it was
written in. `Nothing` is the edit of the server's own record. A compaction is one
step here; the gap between its check and its transaction is Journal's subject. `Rebuilds`
and `Quiet` are what an operator does about the table when the journal is reset: the
docs ask for a table rebuilt with the journal, and the passing runs grant that nothing is
in flight at that moment.

**SocketTransport** is the client side of one socket with serveSocket at the other end.
Frames have ids; answers come in any order. Time is order: whether a connection stayed
open long enough to count as healthy is a choice of `Close`. `failures` stops counting
one past `MaxRetries`, from where the code treats all values alike. **Filter** is
`Array.filter` as a recursive function, which the proofs can expand.

Sync's exchanges do not run over SocketTransport's frames. A frame the transport sends
again after a close is, to the server, a second exchange begun at the same moment whose
caller gave up: `ManualBegin` sends the same request beside the loop's, since `Begin` leaves
what it sends unchanged, and `GiveUp` drops its caller, each at the cost of one fault.

## Runs and bounds

Every module has an MC module that extends it, and configurations. Deadlock is checked
except in the Sync runs, where a system with empty outboxes and bounded submits stops.

| Run | Instance | Shows |
| --- | --- | --- |
| `journal` | 2 connections, 3 operation ids with 2 replicas and 2 actors, 3 commits, 2 histories, 1 compaction at a time, snapshots every 2 commits | Stored and remembered states are the fold of the committed entries; what was answered is committed, once, as it was sent; a replica is one actor's; a read never starts late; the journal implements CommittedLog |
| `journal_batch` | 1 connection, batches of 2, ids that always say the same | After any rollback nothing a later read or commit could use is left, and nobody was answered for a lost entry |
| `sync` | 2 replicas, 3 messages, 2 exchanges at a time, pages of 1, id window 1, 1 fault | No edit lost, doubled, reordered or flickering; the store always reopens |
| `sync_policy` | 2 messages, one refused, 1 reset, 1 fault | Replicas and server are a ReplicatedLog, across a reset; only policy rejects, a policy here that does not look at bases |
| `sync_converge` | 2 replicas, 2 messages, 1 compaction, admit that varies, no fault and no reset | Every outbox empties and every replica reads the whole log; pages and checkpoints give a prefix, up to the cursor; no message is lost beside a rejected one |
| `sync_converge_lost` | 1 replica, 2 messages, 1 compaction, 1 fault, no reset | The outbox empties after a lost reply, crash or failed exchange; a late page or checkpoint never takes the view back |
| `effects` | 1 key, 3 callers, 2 acts | One runner, no unrecorded act, no recorded success run again, no answered success taken back, every call ends |
| `edits` | 2 settles, 2 absorbs, 2 edits of one row, 3 commits, 2 histories, 1 fault | Nothing is absorbed, compacted or applied that the table does not show |
| `edits_serial` | 1 settle, 2 absorbs, 4 commits, 1 fault | Settle never asks for compacted history, and every edit reaches the table |
| `transport` | 3 exchanges, queue of 2, 1 retry | Slots, order and answers are right over reconnects, no change goes unnoticed, every call ends |
| `journal_tail_race`, `edits_slow` | see below | Counterexamples |

Why these bounds: two connections are the least at which one's cache can be stale for what
the other did, and three commits with a snapshot every two let one be folded, one be
compacted and one come after. Two histories tell an old epoch from a new one. Two
actors and replicas make a binding that can be broken. With pages of one row and an id
window of one, the second message already overflows both. One fault at every possible
step is what the retry protocol must absorb; the three messages of `sync` make an
operation that is coalesced, one behind it that is sent, and a retry of both. Three callers
are one runner and two that wait. Two edits of one row let a later edit overwrite an
earlier one; a queue of two with three calls fills. What the proofs cover needs none of
these bounds.

The bounds are guards: `MaxSeq`, `MaxEpoch`, `MaxCompactions`, `MaxBatch`, `MaxSubmits`,
`MaxResets`, `MaxCompacts`, `MaxFaults`, `MaxRuns`. `SnapshotEvery`, `Limit`, `IdWindow`,
`MaxQueue` and `MaxRetries` are options or constants of the code with small values.
Symmetry is used only over interchangeable constants and never with a liveness property.

## Fairness

- *Sync*: a server that began an exchange goes on, its reply or its failure arrives unless
  the client gave up, and a parked loop with a wake-up takes it (weak). The loop begins an
  exchange if it can again and again (strong): `LoopBegin` needs a free slot of `Call`,
  which is the model's bound and not the code's, and other exchanges may take the slots in
  turn. Nobody is obliged to submit. The backoff always ends in a retry (`sync.ts` start).
- *EffectLedger*: every step of a call is taken in the end; a run either ends or is
  interrupted. Effect runs a fiber that is ready; a provider that hangs for ever and
  is never interrupted is excluded, and would hold its joiners in the code too.
- *EditsJournal*: replicas keep exchanging, so settle keeps being called, and a settle
  or an absorb that began goes on. Absorbing is not required: absorb runs on a clock the
  application supplies.
- *SocketTransport*: the reconnect loop goes on and an attempt to connect ends (weak). A
  server reached again and again answers in the end, and its answer arrives (strong):
  without it a connection that closes just before each answer starves a call, which the
  code does not prevent. A call is not assumed to reach a socket: with none, it fails.

## Where code and documentation disagree

- `journal_tail_race`: `compact` reads cursor and floor before its transaction and never
  again in it. Of two compactions past that check, the one with the smaller bound may
  commit last and lower the floor below payloads the first removed; `read` then answers a
  tail that starts late, which journal.ts:905-906 says it must not. With one
  compaction at a time the property holds and is proved (`NoShortTail`).
- `edits_slow`: two exchanges settle at once; the slower one writes its older cursor over
  `applied` after an absorb compacted to the newer. Every later settle of the process asks
  for history that is gone and fails until a restart
  (docs/editing-server-data.md:217-218). With one settle at a time (`edits_serial`) it
  does not happen.

Further configurations with counterexamples, kept beside the runs:

- `MCJournalBatchShared.cfg`: with two journal instances, the states that a rolled-back
  `appendAll` left in one's cache match, in all four columns compared, what the other
  commits next (`SettledHitIsCurrent`; the comment at journal.ts:749-753).
- `MCJournalBatchReuse.cfg`: the same with one journal instance, when an operation id is
  used again with other content. An `append` whose COMMIT fails has remembered its state,
  because `settleCommit` is called inside the transaction (journal.ts:1181-1182 says
  it runs after the commit); an `appendAll` that then begins with the same id and another
  body commits a row that matches the remembered state in all four columns, and its second
  entry is reduced over the state that was rolled back.
- `MCSyncReset.cfg`: the documented `validate`, which refuses a `baseCursor` past the
  journal's cursor, rejects the edits a replica resends to a journal that was reset
  (`OnlyPolicyRejects`, which `sync_policy` checks with a policy that ignores bases).
- `MCSyncConvergeReset.cfg`: a replica whose `synchronize` is answered from the old
  history, while its loop's exchange is under way with the cursor of the new one, goes back
  to the old, then from nothing to the new at cursor 0. The loop is told there is no
  more and waits, with an empty view of a log that is not, until the next signal
  (`Converges` with a reset; no edit is lost).
- `MCSyncRevoked.cfg`: `admit` is asked before the journal, also of an operation that is sent
  again. One that was acknowledged while more is still to be read stays in the outbox
  and goes out with the request for the next page; when `admit` refuses it by then (a
  permission revoked between two pages) the replica is told it was rejected, and its
  committed copy arrives all the same (`RejectedNeverCommitted`; sync.ts:197-198 says that a
  rejected edit never reaches the committed state). No fault is needed. A policy that does
  not change its mind cannot do this, and no message is lost by it (`NoLostEdit`, which
  `sync_converge` checks with an `admit` that varies).
- `MCEditsJournalStale.cfg`: `TableAheadOfJournalError` compares a revision with a cursor,
  so a new history that grew as long as the stale table's revision is no longer refused.
- `MCEditsJournalReset.cfg`: a reset while an absorb is in progress lets it append
  the old history's `through` to the new one.

## Proofs

All are checked by tlapm with Z3, Zenon and LS4, from the constants' named assumptions only.

*JournalProofs* proves `Spec => []IInv` for any number of connections, compactions in
flight, snapshots and histories. `StoredStateFaithful` and `HitIsCurrent` are not inductive:
a cache that misses now may hit after another's commit, and a compaction's effect
depends on payloads that are there no longer. `IInv` adds that rows are well formed and
dense, that the stored snapshot is a prefix of the history with every later payload
kept, that epochs are fresh, and that what any connection remembers *of the standing
epoch* is a prefix, hit or not. Its proof has a lemma for what each action does to the
rows and tables (`CommitRows`, `CommitTables`, `CompactRows`, `CompactTables`) and one step
per action. These lemmas ask only that the tables are one history and that hits are of it
(`Coherent`), so that JournalBatchProofs uses them where `IInv` fails.

*JournalTheorems* concludes types, density, faithful loads and coherent caches from it,
and proves three more invariants beside it: one actor per replica, exactly-once
acknowledgement, and, while one compaction runs at a time (`FloorCovers`), complete tails.
`JournalIsALog` shows `Journal` implements `CommittedLog`: initial states map to
initial states, a committed entry maps to a commit, reset and epoch to theirs, and every
other step (compactions, evictions, restarts, refused or repeated appends) to a stutter.

*JournalBatchProofs* proves `BatchIsAtomic` for any number of connections, although
`SettledHitIsCurrent` is false with two: the state a lookup finds may be wrong, its cursor
never is (`MaterializeCursor`), and that is what the rows depend on. The invariant is
about two sets of tables, those in force and those a rollback would restore:
each is one log, and each answer names a row of the one it will be judged by.

It also proves `SettledHitIsCurrent`, under the two hypotheses without which it is false
(`MCJournalBatchShared.cfg`, `MCJournalBatchReuse.cfg`): one connection (`OneConn`), and ids
that always say the same (`AsSaid`: a function from ids to entries tells what is
committed under each, in every step). They restrict who acts and what is asked, never what
the code does with it. A state remembered in a transaction that rolled back is
not of the history. It can be found only by a lookup in that history grown to its cursor,
with its last id and its epoch, which is why the invariant (`HitIInv`) says of everything
remembered that a hit is right *when it is one* and that a state after a single entry is of
that entry (`FirstSaid`): a history that begins again under a fresh epoch has no other
protection from what an open transaction saw. While a batch is open the invariant is about
both sets of tables.

*EffectLedgerProofs* proves the ledger's types and its invariant for any keys, callers
and acts: a runner owns the registry's entry, its record was written before it runs,
no run is in progress over a recorded success, and a success that is about to be amended to
`failed` was answered to nobody (`AmendsUnanswered`). The four safety properties and the
action property `SuccessNotRepeated` follow.

*EditsJournalProofs* proves that nothing is absorbed, compacted or counted as applied that
the table does not show, for any number of settles and absorbs, whatever fails or
restarts. Each is stated under `Policy`, which is `Rebuilds /\ Quiet`: the table is
rebuilt with the journal and nothing is in flight when it is reset. Without it the
properties are false, which the configurations named above show.
`NeverBelowFloor` needs `OneSettler` as well, and `edits_slow` is its counterexample
without. The invariant says for every step of a settle or an absorb that may still act
what it has already seen to be in the table (`SettleFits`, `AbsorbFits`), and that
what the table shows only ever moves forward within a history.

*SocketTransportProofs* proves all of the transport's safety properties for any calls, any
queue and any number of retries. The frames the client holds are in the queue or in flight,
never in both (`OneSide`), so a close that puts those in flight back (`requeue`) and
an open that sends the queue leave the sequence `Held` as it was. The invariant says of it
that ids increase (`Increasing`), that it has one frame for each caller that waits,
and that an id names one call wherever a frame is, on the wire too (`IdsName`).
Interrupting a caller and taking its answer filter the sequence.

*SyncProofs* proves every safety property of the replicas and their server, for any finite
set of replicas, any messages, page size, id window, exchanges in progress and faults, in
layers, each an invariant that the next ones use:

- `Types`, the types of everything, requests and replies included;
- `OrderlyInv`: operations are in the order of their messages wherever they are, say
  messages that were submitted, and share none; and what may still be merged into
  comes after all that was sent (`UnsentLast`). This is why coalescing is safe: an id never
  has two versions (`SameId`), so a retry is never taken for a conflict;
- `SettledInv`: an acknowledgement, an id in the window and an operation of a page
  were committed, in the standing history or in one that was reset, and a reply rejects
  only what its request carried (`RejectsSent`). An id has one version, so the operation
  that leaves an outbox is itself committed or rejected: `NoLostEdit`, and `StoreReopens`
  with the order;
- `PrefixInv`: a committed state is a prefix of the log *if it is of the standing epoch*,
  and so are a page from its `from` and a checkpoint, although the log may have been
  reset and grown again while a reply was under way. `ViewIsPrefix` follows;
- `FlickerInv`: a request's cursor is not past its replica's, so a page never leaves
  a gap, and the last page or the checkpoint holds everything it acknowledges
  (`Holds`), which the operations committed after it cannot change (`StillHolds`);
- `PolicyInv`: what was refused is refusable, however often it was sent and whatever was
  reset, and nothing refusable is in a log, a reply or a committed state; `BasesStand` for a policy that looks at an operation's base;
- `OrderInv`: an operation known anywhere is in its replica's outbox or decided
  (committed, or refused for good), and everything before what a request
  carries is carried by it or decided (`Complete`). So an abandoned request that is still
  being handled cannot put an operation behind a later one: whoever sent the later one
  had the earlier one decided.

The refinement comes from `PrefixInv`, which gives every view as the log's first operations
before and after a step. The step that could take it back is a delivery: a page
adds what the view lacks, a checkpoint below it is an error (`Acceptable`), and only another
history's answer starts it again (`DeliveryIsRead`). `SyncIsOneLog` holds across resets
under any policy; `SyncServesALog` concludes that the journal, as the server uses it, does
nothing CommittedLog does not, which `JournalIsALog` proves of the real journal.

The first four layers and the refinement hold under any policy and across resets. The others have a
hypothesis, and each is needed, as TLC shows on two messages and two exchanges.
`Steady` says that the policy does not change its mind, and looks at
the base only if no history is reset; `NoResets` that `MaxResets` is zero. With an `admit`
that varies, an operation rejected in one exchange is committed by another that carried it
(the kind of case `MCSyncRevoked.cfg` shows), then behind a later one. With a `validate` that looks at
the base and a reset, edits are rejected that any other moment would take
(`MCSyncReset.cfg`). With a reset while two exchanges of one replica carry the same
edits, the one past the first edit goes on with the second and the other then commits the
first behind it; and of two replies around a reset, the later rebuilds the replica from a
page read before the other's edit was committed. The runs check `CommittedInOrder` and
`NoFlicker` without resets, and the policy's properties with one.

*FilterProofs* is what a filtered sequence is, for every sequence and every set:
its elements are those of the sequence that are in the set, in their order, at
positions that grow (`FilteredLeaves`). The induction over the length is made with the
least natural number that is a counterexample (`LeastNatural`, from the well-foundedness of
`<` on the naturals), since the library's induction theorem takes an operator.

What the theorems assume of the constants is what the modules name: bounds and sizes are
natural numbers (a page and the id window not empty, `LimitAssumption`), and the replicas
and the transport's calls are finitely many (`ReplicaAssumption`, `ExchangeAssumption`).

Only model-checked: liveness (`Converges`, `CallsEnd`, `EditsApplied`, `ExchangeEnds`), which
is out of the prover's reach. Every safety property of a passing run is a theorem.

## Not modelled

- *D1*: `atomically` runs a unit's statements directly there, without a transaction
  (journal.ts:656-660). Journal has transactions.
- *Corruption*: rows that do not decode, unreadable snapshots, migrations of the schema.
- *Interruption between `runEffect`'s reservation and its finalizers*: reservation and
  installation are one step.
- *Interruption inside submit*: its storage write and its Ref update are one step.
- *Several executors of effects on one database*, which durable's README rules out.
- *The HTTP transport*, which keeps no state between calls, malformed frames, and the
  shared socket's other listeners.
- *Mount, storage, presence, hosts, the Remote family, agent, ssr, mirror, richtext*:
  in the plan below.
- *Everything else* (views, forms, grids, validation, translation, adapters, generators):
  sequential code over one user's state or pure functions, for which tests are the better
  instrument; richtext-dom depends on what browsers do.

`PROJECT.json` lists each with its reason; packages without a model are listed by their
entry file and largest files. Hazards without a property name the plan's module.

## Plan

In this order, the most consequential behaviour first.

1. **MutationLedger** (`remote/src/ledger.ts`): answers applied at most once and in the
   order requests started, over a server that records answers; a retry of a failed request
   keeps its operation id and takes a new place in the order. Abstract specification: a
   register per field holding the last write.
2. **Outbox** (`remote/src/outbox.ts`, `outboxStore.ts`, `queue.ts`): several tabs
   over one store, merge by revision, settle then write, crashes. Composed with
   MutationLedger and the server's records.
3. **JournalD1**: the statements of a unit one by one, with what the comment of
   `atomically` says keeps them correct.
4. **Mount**, **TabStorage**: the replica's memory apart from its storage, submit split
   at its awaits, two tabs; composed with Sync's replica.
5. **Presence** with the host's revalidation timer.
6. **Optimistic** and **Live** (`remote/src/model.ts`, `live.ts`): layers over rows, gaps
   and resumption.
7. **Completion** (agent), **PageCache** (ssr), **Mirror**, and the laws of **richtext**
   operations over bounded documents: `applyOps` is total and undo inverts. The server
   gives one order, so no other order of delivery is considered.

Each new module takes its type invariant, properties aimed at the hazards listed for it,
and liveness where its scheduling justifies fairness; modules to prove about hold no
recursive operators and name their constants' assumptions.
