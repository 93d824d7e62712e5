--------------------------------- MODULE Sync ---------------------------------
(***************************************************************************)
(* The replicated-state protocol of packages/sync: replicas with a durable *)
(* outbox and an optimistic view (sync.ts, openReplica) that exchange with *)
(* a server over the journal of one document (journal.ts,                  *)
(* journalExchange).                                                       *)
(*                                                                         *)
(* The journal is CommittedLog, which the module Journal is proved to      *)
(* implement, with the floor of its compactions.  An exchange is a call    *)
(* whose server side takes one step for each call it makes on the journal, *)
(* so other calls, compactions and resets interleave there, and whose      *)
(* client may stop waiting at any moment while the server goes on.         *)
(*                                                                         *)
(* A message is the local sequence it was submitted at.  An operation of   *)
(* replica r under the id <<r, n>> says the messages n..upto: coalescing   *)
(* extends it, and the sequence moves on with every submit.                *)
(***************************************************************************)
EXTENDS Integers, Sequences, FiniteSets, SequencesExt, FiniteSetsExt, Filter

CONSTANTS
  Replica,       \* stores, each opened by one instance at a time
  Call,          \* slots for exchanges in progress, the abandoned included
  Limit,         \* options.limit of journalExchange: rows in one page
  IdWindow,      \* COMMITTED_ID_WINDOW
  Refusable,     \* ids of what does not decode, or authorize or validate refuse
  ValidatesBase, \* validate refuses a baseCursor past the journal's cursor
  AdmitVaries,   \* admit may refuse an operation now and not another time
  MaxSubmits,    \* bound: messages submitted by all replicas
  MaxResets,     \* bound: resets of the journal
  MaxCompacts,   \* bound: compactions of the journal
  MaxFaults      \* bound: lost replies, crashes, failed exchanges and extra calls

ASSUME ReplicaAssumption == IsFiniteSet(Replica)
ASSUME LimitAssumption == Limit \in Nat \ {0} /\ IdWindow \in Nat \ {0}
ASSUME SyncBoundsAssumption ==
  /\ MaxSubmits \in Nat /\ MaxResets \in Nat
  /\ MaxCompacts \in Nat /\ MaxFaults \in Nat

VARIABLES
  log, epoch, used,  \* the journal: its entries, its epoch, epochs so far
  floor,             \* the journal's compaction floor
  rep,               \* per replica, its state, as stored and as in memory
  unsent,            \* per replica, submitted operations no exchange carried
  loop,              \* per replica, where its `start` loop stands
  wake,              \* per replica, whether its wake queue holds a signal
  call,              \* per slot, the exchange in progress
  refused,           \* operations whose rejection a replica took
  wiped,             \* operations committed in a history that was reset
  compacts, faults   \* how often the bounded events happened

server == <<log, epoch, used, floor>>
history == <<refused, wiped>>
vars == <<server, rep, unsent, loop, wake, call, history, compacts, faults>>

OpIdOf(r, n) == <<r, n>>
Operation == [id : Replica \X (1..MaxSubmits), upto : 1..MaxSubmits, base : Nat]

Journal == INSTANCE CommittedLog WITH Actor <- Replica

-----------------------------------------------------------------------------
(* Operators.                                                              *)

IdsOf(ops) == {ops[i].id : i \in DOMAIN ops}
LogOps == [i \in DOMAIN log |-> log[i].op]

\* Whether the messages of these operations include replica r's k-th.
Says(ops, r, k) ==
  \E i \in DOMAIN ops : ops[i].id[1] = r /\ k \in ops[i].id[2]..ops[i].upto
SomeSays(ops, r, k) == \E op \in ops : op.id[1] = r /\ k \in op.id[2]..op.upto

EmptyReplica ==
  [next |-> 1, cursor |-> 0, committed |-> <<>>, ids |-> <<>>,
   pending |-> <<>>, epoch |-> 0]

NoCall == [phase |-> "none"]

\* Mutant of Request: the outbox is sent newest first.
RequestNewestFirst(r, by) ==
  [phase |-> "sent", of |-> r, by |-> by, waiting |-> TRUE,
   cursor |-> rep[r].cursor, pending |-> Reverse(rep[r].pending), seen |-> rep[r].epoch,
   from |-> 0, epoch |-> 0, done |-> 0, acks |-> {}, rejects |-> {},
   ops |-> <<>>, more |-> FALSE, checkpoint |-> <<>>]

\* What `exchange` sends: the cursor, the outbox and the epoch last seen. The rest
\* is where the server stands with it, and its reply.
Request(r, by) ==
  [phase |-> "sent", of |-> r, by |-> by, waiting |-> TRUE,
   cursor |-> rep[r].cursor, pending |-> rep[r].pending, seen |-> rep[r].epoch,
   from |-> 0, epoch |-> 0, done |-> 0, acks |-> {}, rejects |-> {},
   ops |-> <<>>, more |-> FALSE, checkpoint |-> <<>>]

\* The request once it is answered: a page of the journal's operations after
\* `from`, or a checkpoint.
Replied(request, ops, more, checkpoint) ==
  [request EXCEPT !.phase = "reply", !.ops = ops, !.more = more, !.checkpoint = checkpoint]

\* An identity no history had: crypto.randomUUID.
Fresh == Cardinality(used) + 1

-----------------------------------------------------------------------------
(* The replica.                                                            *)

Init ==
  /\ Journal!Init
  /\ floor = 0
  /\ rep = [r \in Replica |-> EmptyReplica]
  /\ unsent = [r \in Replica |-> {}]
  /\ loop = [r \in Replica |-> "run"]
  /\ wake = [r \in Replica |-> FALSE]
  /\ call = [k \in Call |-> NoCall]
  /\ refused = {} /\ wiped = {}
  /\ compacts = 0 /\ faults = 0

\* Mutant of Mergeable: what was sent is merged into, too.
MergeableSent(r) == rep[r].pending # <<>>

\* Whether the last operation of the outbox may still be merged into.
Mergeable(r) ==
  /\ rep[r].pending # <<>>
  /\ Last(rep[r].pending).id[2] \in unsent[r]

Submitted == Cardinality({m \in Replica \X (1..MaxSubmits) : m[2] < rep[m[1]].next})

\* submit: the message joins the outbox, as an operation of its own or merged
\* into the last one under its identity; the local sequence moves either way.
Submit(r, merges) ==
  LET state == rep[r]
      n     == state.next
      own   == [id |-> OpIdOf(r, n), upto |-> n, base |-> state.cursor]
      added == IF merges
               THEN [state.pending EXCEPT ![Len(state.pending)].upto = n]
               ELSE Append(state.pending, own)
  IN
  /\ Submitted < MaxSubmits
  /\ merges => Mergeable(r)
  /\ rep' = [rep EXCEPT ![r].next = n + 1, ![r].pending = added]
  /\ unsent' = [unsent EXCEPT ![r] = @ \cup {Last(added).id[2]}]
  /\ wake' = [wake EXCEPT ![r] = TRUE]
  /\ UNCHANGED <<server, loop, call, history, compacts, faults>>

\* exchangeOnce up to its request: what is sent is no longer mergeable.
Begin(r, k, by) ==
  /\ call[k] = NoCall
  /\ call' = [call EXCEPT ![k] = Request(r, by)]
  /\ unsent' = [unsent EXCEPT ![r] = @ \ {rep[r].pending[i].id[2] : i \in DOMAIN rep[r].pending}]
  /\ UNCHANGED <<server, rep, wake, history, compacts>>

\* The `start` loop exchanges.
LoopBegin(r) ==
  /\ loop[r] = "run"
  /\ loop' = [loop EXCEPT ![r] = "busy"]
  /\ \E k \in Call : Begin(r, k, "loop")
  /\ UNCHANGED faults

\* A caller of its own runs `synchronize` beside the loop. Each further page it
\* asks for is a call of its own; it may stop after any of them.
ManualBegin(r) ==
  /\ faults < MaxFaults
  /\ faults' = faults + 1
  /\ \E k \in Call : Begin(r, k, "caller")
  /\ UNCHANGED loop

\* The loop takes the signal it waits for.
LoopWake(r) ==
  /\ loop[r] = "parked"
  /\ wake[r]
  /\ loop' = [loop EXCEPT ![r] = "run"]
  /\ wake' = [wake EXCEPT ![r] = FALSE]
  /\ UNCHANGED <<server, rep, unsent, call, history, compacts, faults>>

\* Mutant of Restarted: the epoch is not compared.
RestartedNever(state, reply) == FALSE

\* Another epoch than the one known: the server's history is another one.
Restarted(state, reply) == state.epoch # 0 /\ reply.epoch # state.epoch

\* The state a reply is applied to: rebuilt from nothing after a restart, then
\* from the checkpoint when there is one.
Base(state, reply) ==
  LET kept == IF Restarted(state, reply)
              THEN [state EXCEPT !.cursor = 0, !.committed = <<>>, !.ids = <<>>]
              ELSE state
  IN  IF reply.checkpoint = <<>> THEN kept
      ELSE [kept EXCEPT !.cursor = reply.checkpoint[1].cursor,
                        !.committed = reply.checkpoint[1].model, !.ids = <<>>]

\* The operations of the page the replica has not passed.
NewOps(base, reply) ==
  SubSeq(reply.ops, Max({base.cursor - reply.from, 0}) + 1, Len(reply.ops))

\* Mutant of Acceptable: a checkpoint may be older than what the replica has.
AcceptableOlder(state, reply) ==
  LET base == Base(state, reply)
      new  == NewOps(base, reply)
  IN
  /\ new # <<>> => reply.from <= base.cursor
  /\ IdsOf(new) \cap Range(base.ids) = {}
  /\ Cardinality(IdsOf(new)) = Len(new)

\* CheckpointRegressionError and CommittedOrderError: what a reply may not do.
Acceptable(state, reply) ==
  LET base == Base(state, reply)
      new  == NewOps(base, reply)
      kept == IF Restarted(state, reply) THEN 0 ELSE state.cursor
  IN
  /\ reply.checkpoint # <<>> => reply.checkpoint[1].cursor >= kept
  /\ new # <<>> => reply.from <= base.cursor
  /\ IdsOf(new) \cap Range(base.ids) = {}
  /\ Cardinality(IdsOf(new)) = Len(new)

\* The outbox without the operations under these ids.
Staying(state, gone) ==
  Filtered(state.pending, {op \in ToSet(state.pending) : op.id \notin gone})

\* Mutants of Outbox: acknowledged operations go at once, whatever is still to
\* be read; only acknowledged ones go; they wait for their committed copy; one
\* rejection empties the outbox, as if all that was submitted had been sent.
OutboxDropsAcks(state, ids, reply) == Staying(state, ids \cup reply.rejects \cup reply.acks)
OutboxByAcks(state, ids, reply) ==
  Staying(state, reply.rejects \cup (IF reply.more THEN {} ELSE reply.acks))
OutboxAwaitsCopies(state, ids, reply) == Staying(state, ids \cup reply.rejects)
OutboxEmptied(state, ids, reply) ==
  Staying(state, ids \cup reply.acks \cup (IF reply.rejects = {} THEN {} ELSE IdsOf(state.pending)))

\* The outbox once the reply is applied: what arrived committed or rejected
\* goes, and what was acknowledged goes unless more is still to be read.
Outbox(state, ids, reply) ==
  Staying(state, ids \cup reply.rejects \cup (IF reply.more THEN {} ELSE reply.acks))

\* Mutant of Window: every id ever seen is kept.
WindowUnbounded(ids) == ids

\* The newest ids of the committed operations, as many as are kept.
Window(ids) == SubSeq(ids, Max({Len(ids) - IdWindow, 0}) + 1, Len(ids))

\* The state after a reply: everything of it at once.
Applied(state, reply) ==
  LET base == Base(state, reply)
      new  == NewOps(base, reply)
      ids  == base.ids \o [i \in DOMAIN new |-> new[i].id]
  IN  [next |-> state.next,
       cursor |-> base.cursor + Len(new),
       committed |-> base.committed \o new,
       ids |-> Window(ids),
       pending |-> Outbox(state, Range(ids), reply),
       epoch |-> reply.epoch]

\* Mutant of Ended: a loop that is told there is more waits for a signal.
EndedParks(k, again) ==
  /\ call' = [call EXCEPT ![k] = NoCall]
  /\ loop' = IF call[k].by = "loop"
             THEN [loop EXCEPT ![call[k].of] = "parked"]
             ELSE loop

\* The caller of an exchange that ended, the loop or another: the loop goes
\* on at once while the server has more and the cursor moved.
Ended(k, again) ==
  /\ call' = [call EXCEPT ![k] = NoCall]
  /\ loop' = IF call[k].by = "loop"
             THEN [loop EXCEPT ![call[k].of] = IF again THEN "run" ELSE "parked"]
             ELSE loop

\* The operations of the request that its reply rejects.
Rejected(request) == {op \in ToSet(request.pending) : op.id \in request.rejects}

\* The reply arrives and is applied, stored and installed under the lock.
Deliver(k) ==
  LET r == call[k].of
      next == Applied(rep[r], call[k])
      asked == IF Restarted(rep[r], call[k]) THEN 0 ELSE call[k].cursor
  IN
  /\ call[k].phase = "reply"
  /\ call[k].waiting
  /\ Acceptable(rep[r], call[k])
  /\ rep' = [rep EXCEPT ![r] = next]
  /\ refused' = refused \cup Rejected(call[k])
  /\ Ended(k, call[k].more /\ next.cursor > asked)
  /\ UNCHANGED <<server, unsent, wake, wiped, compacts, faults>>

\* After a failure the loop tries again on its backoff, or on a signal it takes.
Retried(k) ==
  \/ UNCHANGED wake
  \/ call[k].by = "loop" /\ wake' = [wake EXCEPT ![call[k].of] = FALSE]

\* The exchange fails at the replica: the server failed it or its reply is not
\* acceptable.
Failed(k) ==
  /\ call[k] # NoCall /\ call[k].waiting
  /\ \/ call[k].phase = "failed"
     \/ call[k].phase = "reply" /\ ~Acceptable(rep[call[k].of], call[k])
  /\ Ended(k, TRUE)
  /\ Retried(k)
  /\ UNCHANGED <<server, rep, unsent, history, compacts, faults>>

\* The client stops waiting, on a timeout or a lost connection; the server may
\* have begun, and goes on.
GiveUp(k) ==
  /\ faults < MaxFaults
  /\ faults' = faults + 1
  /\ call[k] # NoCall /\ call[k].waiting
  /\ call' = [call EXCEPT ![k].waiting = FALSE]
  /\ loop' = IF call[k].by = "loop" THEN [loop EXCEPT ![call[k].of] = "run"] ELSE loop
  /\ Retried(k)
  /\ UNCHANGED <<server, rep, unsent, history, compacts>>

\* The instance closes or crashes and its store is opened again: its calls are
\* abandoned, and nothing reopened counts as unsent.
Reopen(r) ==
  /\ faults < MaxFaults
  /\ faults' = faults + 1
  /\ call' = [k \in Call |-> IF call[k] # NoCall /\ call[k].of = r
                             THEN [call[k] EXCEPT !.waiting = FALSE] ELSE call[k]]
  /\ unsent' = [unsent EXCEPT ![r] = {}]
  /\ loop' = [loop EXCEPT ![r] = "run"]
  /\ wake' = [wake EXCEPT ![r] = FALSE]
  /\ UNCHANGED <<server, rep, history, compacts>>

-----------------------------------------------------------------------------
(* The server: one step for each call journalExchange makes.               *)

clients == <<rep, unsent, loop, history, compacts, faults>>

\* An abandoned request may never reach the server, and the reply to one is
\* thrown away.
Discard(k) ==
  /\ call[k] # NoCall
  /\ ~call[k].waiting
  /\ call[k].phase \in {"sent", "reply", "failed"}
  /\ call' = [call EXCEPT ![k] = NoCall]
  /\ UNCHANGED <<server, clients, wake>>

\* What the handler calls fails, and so does the exchange, whatever it committed:
\* `opens` refuses the connection, or opens, admit, settle or the journal fails.
HandleFailure(k) ==
  /\ faults < MaxFaults
  /\ faults' = faults + 1
  /\ call[k].phase \in {"sent", "check", "append", "load"}
  /\ call' = [call EXCEPT ![k].phase = "failed"]
  /\ UNCHANGED <<server, rep, unsent, loop, wake, history, compacts>>

\* journal.epoch: a replica that saw another one is answered from the start.
HandleEpoch(k) ==
  /\ call[k].phase = "sent"
  /\ epoch' = IF epoch = 0 THEN Fresh ELSE epoch
  /\ IF epoch = 0 THEN Journal!Open ELSE UNCHANGED <<log, used>>
  /\ call' = [call EXCEPT ![k].phase = "check", ![k].epoch = epoch',
       ![k].from = IF call[k].seen \notin {0, epoch'} THEN 0 ELSE call[k].cursor]
  /\ UNCHANGED <<floor, clients, wake>>

\* journal.cursor: a cursor past it fails the exchange before any append.
HandleCursor(k) ==
  /\ call[k].phase = "check"
  /\ call' = [call EXCEPT ![k].phase =
                IF call[k].from > Len(log) THEN "failed" ELSE "append"]
  /\ UNCHANGED <<server, clients, wake>>

Entry(r, op) == [op |-> op, actor |-> r]

\* What the decoder, authorize and validate make of an operation.
Allowed(op) ==
  /\ op.id \notin Refusable
  /\ ValidatesBase => op.base <= Len(log)

Acknowledge(k, op) ==
  call' = [call EXCEPT ![k].done = @ + 1, ![k].acks = @ \cup {op.id}]
Reject(k, op) ==
  call' = [call EXCEPT ![k].done = @ + 1, ![k].rejects = @ \cup {op.id}]

\* The operation committed under this id, if any, and whether it is the same:
\* its hash and its actor, which is the replica's own.
Prior(op) == {i \in DOMAIN log : log[i].op.id = op.id}

\* Mutant of Resent: every id that was used is a conflict.
ResentNever(op) == FALSE

Resent(op) == \A i \in Prior(op) : log[i].op = op

\* One pending operation: admit, then journal.append.
HandleOperation(k) ==
  LET op == call[k].pending[call[k].done + 1] IN
  /\ call[k].phase = "append"
  /\ call[k].done < Len(call[k].pending)
  /\ \/ \* admit refuses it, or it no longer decodes, whatever the journal holds
        /\ AdmitVaries
        /\ Reject(k, op)
        /\ UNCHANGED <<server, wake>>
     \/ \* committed before: acknowledged again, or a reused id
        /\ Prior(op) # {}
        /\ IF Resent(op) THEN Acknowledge(k, op) ELSE Reject(k, op)
        /\ UNCHANGED <<server, wake>>
     \/ \* authorize or validate refuses it
        /\ Prior(op) = {} /\ ~Allowed(op)
        /\ Reject(k, op)
        /\ UNCHANGED <<server, wake>>
     \/ \* committed, and every connection is sent a notice
        /\ Prior(op) = {} /\ Allowed(op)
        /\ epoch' = IF epoch = 0 THEN Fresh ELSE epoch
        /\ Journal!CommitEntry(Entry(call[k].of, op))
        /\ Acknowledge(k, op)
        /\ wake' = [r \in Replica |-> TRUE]
        /\ UNCHANGED floor
  /\ UNCHANGED clients

\* journal.read: a page, or below the floor the checkpoint is loaded; a reset
\* may have put the cursor past the log by now, which fails the exchange.
HandleRead(k) ==
  LET from == call[k].from
      page == SubSeq(LogOps, from + 1, Min({from + Limit, Len(log)}))
  IN
  /\ call[k].phase = "append"
  /\ call[k].done = Len(call[k].pending)
  /\ IF from > Len(log) THEN call' = [call EXCEPT ![k].phase = "failed"]
     ELSE IF from < floor THEN call' = [call EXCEPT ![k].phase = "load"]
     ELSE call' = [call EXCEPT ![k] = Replied(call[k], page, Len(page) = Limit, <<>>)]
  /\ UNCHANGED <<server, clients, wake>>

\* Mutant of HandleLoad: the snapshot is given the cursor of the floor.
HandleLoadAtFloor(k) ==
  /\ call[k].phase = "load"
  /\ call' = [call EXCEPT ![k] =
       Replied(call[k], <<>>, FALSE, <<[cursor |-> floor, model |-> LogOps]>>)]
  /\ UNCHANGED <<server, clients, wake>>

\* journal.load, for a cursor below the floor.
HandleLoad(k) ==
  /\ call[k].phase = "load"
  /\ call' = [call EXCEPT ![k] =
       Replied(call[k], <<>>, FALSE, <<[cursor |-> Len(log), model |-> LogOps]>>)]
  /\ UNCHANGED <<server, clients, wake>>

\* Maintenance on the journal.
CompactJournal ==
  /\ compacts < MaxCompacts
  /\ compacts' = compacts + 1
  /\ floor' \in (floor + 1)..Len(log)
  /\ UNCHANGED <<log, epoch, used, rep, unsent, loop, wake, call, history, faults>>

ResetJournal ==
  /\ Cardinality(used) <= MaxResets
  /\ epoch # 0
  /\ Journal!Reset
  /\ floor' = 0
  /\ wiped' = wiped \cup ToSet(LogOps)
  /\ UNCHANGED <<rep, unsent, loop, wake, call, refused, compacts, faults>>

ReplicaNext(r) ==
  \/ \E merges \in BOOLEAN : Submit(r, merges)
  \/ LoopBegin(r) \/ LoopWake(r)
  \/ ManualBegin(r) \/ Reopen(r)

CallNext(k) ==
  \/ Deliver(k) \/ Failed(k) \/ GiveUp(k) \/ Discard(k)
  \/ HandleEpoch(k) \/ HandleCursor(k) \/ HandleOperation(k)
  \/ HandleRead(k) \/ HandleLoad(k) \/ HandleFailure(k)

Next ==
  \/ \E r \in Replica : ReplicaNext(r)
  \/ \E k \in Call : CallNext(k)
  \/ CompactJournal
  \/ ResetJournal

Spec == Init /\ [][Next]_vars

\* The loop takes its steps, a server that began goes on, and a reply arrives
\* unless the client gave up; nobody need submit, and nothing need go wrong.
Fairness ==
  /\ \A r \in Replica : SF_vars(LoopBegin(r)) /\ WF_vars(LoopWake(r))
  /\ \A k \in Call : WF_vars(Deliver(k) \/ Failed(k) \/ Discard(k) \/ HandleEpoch(k)
                             \/ HandleCursor(k) \/ HandleOperation(k)
                             \/ HandleRead(k) \/ HandleLoad(k))

FairSpec == Spec /\ Fairness

-----------------------------------------------------------------------------
(* What must hold of it.                                                   *)

TypeOK ==
  /\ rep \in [Replica -> [next : 1..(MaxSubmits + 1), cursor : Nat,
                          committed : Seq(Operation), ids : Seq(Replica \X (1..MaxSubmits)),
                          pending : Seq(Operation), epoch : 0..(MaxResets + 1)]]
  /\ \A r \in Replica : Len(rep[r].ids) <= IdWindow
  /\ unsent \in [Replica -> SUBSET (1..MaxSubmits)]
  /\ loop \in [Replica -> {"run", "busy", "parked"}]
  /\ wake \in [Replica -> BOOLEAN]
  /\ floor \in 0..Len(log)
  /\ \A k \in Call : call[k].phase \in
       {"none", "sent", "check", "append", "load", "reply", "failed"}

\* No submitted message is ever lost: it is in the outbox, or committed, or
\* the very operation that said it was rejected to its replica, or was committed
\* in a history that was reset. Coalescing, lost replies, retries, crashes,
\* compaction and an admit that changes its mind included.
NoLostEdit ==
  \A r \in Replica : \A k \in 1..(rep[r].next - 1) :
    \/ Says(rep[r].pending, r, k)
    \/ Says(LogOps, r, k)
    \/ SomeSays(refused \cup wiped, r, k)

\* A replica's messages are committed in the order they were submitted and
\* none of them twice, whatever is coalesced, sent again or still being handled
\* for a caller that gave up.
CommittedInOrder ==
  \A i, j \in DOMAIN log : LET a == log[i].op  b == log[j].op IN
    i < j /\ a.id[1] = b.id[1] => a.upto < b.id[2]

\* A replica's committed state is a prefix of the server's log of the same
\* epoch, and its cursor says which: whatever page, checkpoint or late reply
\* it was built from.
ViewIsPrefix ==
  \A r \in Replica : rep[r].epoch = epoch =>
    /\ rep[r].cursor = Len(rep[r].committed)
    /\ IsPrefix(rep[r].committed, LogOps)

\* A submitted message never leaves the optimistic view: it stays in the
\* outbox until its committed copy is there, however the answer is paged.
NoFlicker ==
  \A r \in Replica : \A k \in 1..(rep[r].next - 1) :
    \/ rep[r].epoch # epoch
    \/ Says(rep[r].pending, r, k)
    \/ Says(rep[r].committed, r, k)
    \/ SomeSays(refused \cup wiped, r, k)

\* A rejected edit never reaches the committed state of any replica, not even
\* as the late answer of an exchange its sender gave up (Replica.committed:
\* "a rejected one never does"). An admit that changes its mind between two
\* pages breaks it: MCSyncRevoked.cfg.
RejectedNeverCommitted ==
  \A r \in Replica : ToSet(rep[r].committed) \cap refused = {}

\* Only what the policy refuses is rejected: a retry, a reset or a late reply
\* never makes the server refuse an edit it would have taken.
OnlyPolicyRejects == {op.id : op \in refused} \subseteq Refusable

\* Whatever an exchange stores, openReplica accepts: the outbox holds what was
\* submitted and is not committed, each message in one operation. A store that
\* broke it could never be opened again (InvalidOutboxError).
StoreReopens ==
  \A r \in Replica : LET p == rep[r].pending IN
    /\ \A i \in DOMAIN p : p[i].upto < rep[r].next
    /\ \A i, j \in DOMAIN p : i < j => p[i].upto < p[j].id[2]
    /\ IdsOf(p) \cap Range(rep[r].ids) = {}

\* What a replica shows of the standing history.
Views == [r \in Replica |-> IF rep[r].epoch = epoch THEN rep[r].committed ELSE <<>>]

Readers == INSTANCE ReplicatedLog WITH Actor <- Replica, view <- Views

\* Replicas and server together are one log that everyone reads a beginning of,
\* and what a replica once showed as committed stays: pages, checkpoints and
\* late answers that arrive in any order never take a view back, but for an
\* answer of a history that was reset.
IsOneLog == Readers!ViewSpec

\* Every edit is settled in the end, and every replica of the standing epoch
\* holds all of its log: no signal is lost while an exchange is under way.
Converges ==
  <>[](\A r \in Replica :
         /\ rep[r].pending = <<>>
         /\ rep[r].epoch = epoch => rep[r].cursor = Len(log))
=============================================================================
