----------------------------- MODULE EditsJournal -----------------------------
(***************************************************************************)
(* A table as the read model of a journal: `editsJournal` of               *)
(* packages/sync/src/journal.ts, whose `settle` ends every exchange and    *)
(* whose `absorb` runs on a clock, with `recover` of the journal.          *)
(*                                                                         *)
(* Exchanges settle concurrently, so each await of settle and absorb is a  *)
(* step.  The journal is its log and its floor, as the module Journal has  *)
(* it; runEffect is what EffectLedger shows of it: one run of a key at a   *)
(* time, which others join, and none once a success is recorded.           *)
(***************************************************************************)
EXTENDS Integers, Sequences, FiniteSets, SequencesExt, FiniteSetsExt

CONSTANTS
  Edit,      \* edit operations, each with one change
  RowOf,     \* the row of the table each edit changes
  Settler,   \* exchanges that settle at one time
  Absorber,  \* absorbs at one time
  Nothing,   \* the edit of a record that edits nothing
  Rebuilds,  \* a reset of the journal rebuilds the table with it
  Quiet,     \* the journal is reset only while no exchange or absorb runs
  MaxSeq,    \* bound: operations in one history
  MaxEpoch,  \* bound: histories
  MaxFaults  \* bound: crashes and failed writes

ASSUME RowOfAssumption == RowOf = [e \in Edit |-> RowOf[e]] /\ Nothing \notin Edit
ASSUME EditsPolicyAssumption == Rebuilds \in BOOLEAN /\ Quiet \in BOOLEAN
ASSUME EditsBoundsAssumption == MaxSeq \in Nat /\ MaxEpoch \in Nat /\ MaxFaults \in Nat

VARIABLES
  log, floor,    \* the journal's operations and its compaction floor
  epoch, minted, \* the epoch of this history, 0 before it has one
  table,         \* per row, its revision and the history that wrote it
  effects,       \* the intents whose success is recorded
  running,       \* the intents in progress in this process
  applied,       \* what the process last found applied
  settling,      \* per exchange, where its settle stands
  absorbing,     \* per absorb, where it stands
  faults         \* how often the bounded faults happened

journal == <<log, floor, epoch, minted>>
store == <<table, effects>>
vars == <<journal, store, running, applied, settling, absorbing, faults>>

Row == {RowOf[e] : e \in Edit}

\* An edit, or the server's record that the table holds what is up to
\* `through`, named by the cursor it was sequenced from.
EditAt(e) == [edit |-> e, from |-> 0, through |-> 0]
Absorbed(through, cursor) == [edit |-> Nothing, from |-> cursor + 1, through |-> through]

Idle == [phase |-> "idle"]
NotApplied == [cursor |-> 0, epoch |-> 0]

\* The edits of the log the snapshot still keeps.
Held == {n \in DOMAIN log :
           /\ log[n].edit # Nothing
           /\ \A m \in (n + 1)..Len(log) : log[m].through < n}

\* Mutant of Intent: the key is the operation's alone.
IntentOfOperation(s, op) == <<1, op.edit>>

\* The key of an operation's intent.
Intent(s, op) == <<settling[s].epoch, op.edit>>

TableRevision == Max({table[r].at : r \in Row})

Init ==
  /\ log = <<>> /\ floor = 0
  /\ epoch = 0 /\ minted = 0
  /\ table = [r \in Row |-> [at |-> 0, epoch |-> 0]]
  /\ effects = {} /\ running = {}
  /\ applied = NotApplied
  /\ settling = [s \in Settler |-> Idle]
  /\ absorbing = [a \in Absorber |-> Idle]
  /\ faults = 0

-----------------------------------------------------------------------------
(* The journal.                                                            *)

\* journal.epoch, and the first commit of a history.
OpenEpoch ==
  IF epoch # 0 THEN UNCHANGED <<epoch, minted>>
  ELSE minted < MaxEpoch /\ minted' = minted + 1 /\ epoch' = minted'

\* An exchange appends an edit, a resent one after a reset too.
CommitEdit(e) ==
  /\ Len(log) < MaxSeq
  /\ \A n \in DOMAIN log : log[n].edit # e
  /\ log' = Append(log, EditAt(e))
  /\ OpenEpoch
  /\ UNCHANGED <<floor, store, running, applied, settling, absorbing, faults>>

\* Mutant of ResetJournal: the floor of the lost history stays.
ResetKeepsFloor ==
  /\ epoch # 0 /\ minted < MaxEpoch
  /\ log' = <<>> /\ epoch' = 0
  /\ table' = [r \in Row |-> [at |-> 0, epoch |-> 0]]
  /\ UNCHANGED <<floor, minted, effects, running, applied, settling, absorbing, faults>>

\* The journal is reset, and the table with it when the operator rebuilds it.
ResetJournal ==
  /\ epoch # 0 /\ minted < MaxEpoch
  /\ Quiet => (\A s \in Settler : settling[s] = Idle) /\ (\A a \in Absorber : absorbing[a] = Idle)
  /\ log' = <<>> /\ floor' = 0 /\ epoch' = 0
  /\ table' = IF Rebuilds THEN [r \in Row |-> [at |-> 0, epoch |-> 0]] ELSE table
  /\ UNCHANGED <<minted, effects, running, applied, settling, absorbing, faults>>

-----------------------------------------------------------------------------
(* settle.                                                                 *)

\* A settle that finds out where to start, and one that recovers from there.
Starting(phase, history, from) == [phase |-> phase, epoch |-> history, from |-> from]
Recovering(phase, history, settled, ops) ==
  [phase |-> phase, epoch |-> history, settled |-> settled, ops |-> ops]

Goes(s, next) == settling' = [settling EXCEPT ![s] = next]
Turns(s, phase) ==
  Goes(s, Recovering(phase, settling[s].epoch, settling[s].settled, settling[s].ops))

\* The epoch, and where this process left off in it.
SettleBegin(s) ==
  /\ settling[s] = Idle
  /\ OpenEpoch
  /\ Goes(s, IF applied.epoch = epoch' THEN Starting("read", epoch', applied.cursor)
             ELSE Starting("table", epoch', 0))
  /\ UNCHANGED <<log, floor, store, running, applied, absorbing, faults>>

settles == <<journal, store, running, applied, absorbing, faults>>

\* The first settle of an epoch asks for the table's revision,
SettleTable(s) ==
  /\ settling[s].phase = "table"
  /\ Goes(s, Starting("cursor", settling[s].epoch, TableRevision))
  /\ UNCHANGED settles

\* refuses a table past the journal's cursor (TableAheadOfJournalError),
SettleCursor(s) ==
  /\ settling[s].phase = "cursor"
  /\ Goes(s, IF settling[s].from > Len(log) THEN Idle
             ELSE Starting("floor", settling[s].epoch, settling[s].from))
  /\ UNCHANGED settles

\* Mutant of SettleFloor: recovery starts at the beginning.
SettleFromStart(s) ==
  /\ settling[s].phase = "floor"
  /\ Goes(s, Starting("read", settling[s].epoch, 0))
  /\ UNCHANGED settles

\* and starts at the floor.
SettleFloor(s) ==
  /\ settling[s].phase = "floor"
  /\ Goes(s, Starting("read", settling[s].epoch, floor))
  /\ UNCHANGED settles

\* recover reads the operations after that: InvalidCursorError past the log,
\* CompactedCursorError below the floor.
SettleRead(s) ==
  LET from == settling[s].from IN
  /\ settling[s].phase = "read"
  /\ Goes(s, IF from \notin floor..Len(log) THEN Idle
             ELSE Recovering("intent", settling[s].epoch, from, SubSeq(log, from + 1, Len(log))))
  /\ UNCHANGED settles

\* Past an operation whose intent succeeded, or at the end for one whose
\* intent failed, for every settle in `group`.
Settled(group, ok) ==
  settling' = [s \in Settler |-> LET at == settling[s] IN
    IF s \notin group THEN at
    ELSE IF ok THEN Recovering("intent", at.epoch, at.settled + 1, Tail(at.ops))
    ELSE Recovering("done", at.epoch, at.settled, at.ops)]

\* Mutant of SettleIntent: an intent in progress counts as settled.
SettleIntentUnjoined(s) ==
  /\ settling[s].phase = "intent"
  /\ settling[s].ops # <<>>
  /\ LET op == Head(settling[s].ops)
         known == op.edit = Nothing \/ Intent(s, op) \in effects \cup running
     IN  IF known
         THEN Settled({s}, TRUE) /\ UNCHANGED running
         ELSE Turns(s, "apply") /\ running' = running \cup {Intent(s, op)}
  /\ UNCHANGED <<journal, store, applied, absorbing, faults>>

\* The next operation: without an intent or with a recorded success it is
\* settled; an intent in progress is joined; another is run.
SettleIntent(s) ==
  /\ settling[s].phase = "intent"
  /\ settling[s].ops # <<>>
  /\ LET op == Head(settling[s].ops) IN
     IF op.edit = Nothing \/ Intent(s, op) \in effects
     THEN Settled({s}, TRUE) /\ UNCHANGED running
     ELSE IF Intent(s, op) \in running
     THEN Turns(s, "join") /\ UNCHANGED running
     ELSE Turns(s, "apply") /\ running' = running \cup {Intent(s, op)}
  /\ UNCHANGED <<journal, store, applied, absorbing, faults>>

\* Those that run the intent s is at, or wait for it.
Sharing(s) ==
  LET key == Intent(s, Head(settling[s].ops)) IN
  {t \in Settler : settling[t].phase \in {"apply", "record", "join"}
                   /\ Intent(t, Head(settling[t].ops)) = key}

\* The sequence an operation committed at, as its stamp wrote it.
At(s) == settling[s].settled + 1

\* The row with the change applied: one past it is left as it is.
Written(s) ==
  LET row == RowOf[Head(settling[s].ops).edit] IN
  IF table[row].at > At(s) THEN table
  ELSE [table EXCEPT ![row] = [at |-> At(s), epoch |-> settling[s].epoch]]

\* apply: the table is written.
SettleApply(s) ==
  /\ settling[s].phase = "apply"
  /\ table' = Written(s)
  /\ Turns(s, "record")
  /\ UNCHANGED <<journal, effects, running, applied, absorbing, faults>>

\* The success is recorded, and whoever joined goes on.
SettleRecord(s) ==
  /\ settling[s].phase = "record"
  /\ effects' = effects \cup {Intent(s, Head(settling[s].ops))}
  /\ running' = running \ {Intent(s, Head(settling[s].ops))}
  /\ Settled(Sharing(s), TRUE)
  /\ UNCHANGED <<journal, table, applied, absorbing, faults>>

\* The write of the table or of the record fails, before or after the table
\* was written: recovery stops before this operation, for whoever joined too.
SettleFault(s) ==
  /\ settling[s].phase \in {"apply", "record"}
  /\ faults < MaxFaults
  /\ faults' = faults + 1
  /\ running' = running \ {Intent(s, Head(settling[s].ops))}
  /\ Settled(Sharing(s), FALSE)
  /\ UNCHANGED <<journal, store, applied, absorbing>>

\* recover returns the cursor everything settled through, and settle keeps it.
SettleEnd(s) ==
  /\ \/ settling[s].phase = "done"
     \/ settling[s].phase = "intent" /\ settling[s].ops = <<>>
  /\ applied' = [cursor |-> settling[s].settled, epoch |-> settling[s].epoch]
  /\ Goes(s, Idle)
  /\ UNCHANGED <<journal, store, running, absorbing, faults>>

-----------------------------------------------------------------------------
(* absorb.                                                                 *)

AbsorbGoes(a, next) == absorbing' = [absorbing EXCEPT ![a] = next]

absorbs == <<store, running, applied, settling, faults>>

\* What this process applied of the standing epoch, if anything.
AbsorbBegin(a) ==
  /\ absorbing[a] = Idle
  /\ OpenEpoch
  /\ AbsorbGoes(a, IF applied.epoch = epoch'
                   THEN [phase |-> "load", through |-> applied.cursor] ELSE Idle)
  /\ UNCHANGED <<log, floor, absorbs>>

\* journal.load: absorbed only when the snapshot still keeps such an edit.
AbsorbLoad(a) ==
  LET through == absorbing[a].through IN
  /\ absorbing[a].phase = "load"
  /\ AbsorbGoes(a, IF \E n \in Held : n <= through
                   THEN [phase |-> "append", through |-> through, cursor |-> Len(log)]
                   ELSE Idle)
  /\ UNCHANGED <<journal, absorbs>>

\* The server's record is appended, once: its name is the cursor's, so an
\* absorb that loaded the same one answers from history or conflicts with it.
AbsorbAppend(a) ==
  LET op == Absorbed(absorbing[a].through, absorbing[a].cursor)
      prior == {n \in DOMAIN log : log[n].edit = Nothing /\ log[n].from = op.from}
      next == [phase |-> "compact", through |-> op.through]
  IN
  /\ absorbing[a].phase = "append"
  /\ IF prior # {}
     THEN /\ AbsorbGoes(a, IF \A n \in prior : log[n] = op THEN next ELSE Idle)
          /\ UNCHANGED <<log, epoch, minted>>
     ELSE /\ Len(log) < MaxSeq
          /\ log' = Append(log, op)
          /\ OpenEpoch
          /\ AbsorbGoes(a, next)
  /\ UNCHANGED <<floor, absorbs>>

\* Mutant of AbsorbCompact: the log is compacted to its end.
AbsorbCompactAll(a) ==
  /\ absorbing[a].phase = "compact"
  /\ floor' = Len(log)
  /\ AbsorbGoes(a, Idle)
  /\ UNCHANGED <<log, epoch, minted, absorbs>>

\* journal.compact, refused below the floor and past the cursor.
AbsorbCompact(a) ==
  LET through == absorbing[a].through IN
  /\ absorbing[a].phase = "compact"
  /\ floor' = IF through \in floor..Len(log) THEN through ELSE floor
  /\ AbsorbGoes(a, Idle)
  /\ UNCHANGED <<log, epoch, minted, absorbs>>

\* The process ends: what it applied, what ran and what waited is gone.
Crash ==
  /\ faults < MaxFaults
  /\ faults' = faults + 1
  /\ running' = {}
  /\ applied' = NotApplied
  /\ settling' = [s \in Settler |-> Idle]
  /\ absorbing' = [a \in Absorber |-> Idle]
  /\ UNCHANGED <<journal, store>>

Settle(s) ==
  \/ SettleTable(s) \/ SettleCursor(s) \/ SettleFloor(s) \/ SettleRead(s)
  \/ SettleIntent(s) \/ SettleApply(s) \/ SettleRecord(s) \/ SettleEnd(s)

Absorb(a) == AbsorbLoad(a) \/ AbsorbAppend(a) \/ AbsorbCompact(a)

Next ==
  \/ \E e \in Edit : CommitEdit(e)
  \/ \E s \in Settler : SettleBegin(s) \/ Settle(s) \/ SettleFault(s)
  \/ \E a \in Absorber : AbsorbBegin(a) \/ Absorb(a)
  \/ ResetJournal
  \/ Crash

Spec == Init /\ [][Next]_vars

\* Replicas keep exchanging, and what began goes on.
Fairness ==
  /\ \A s \in Settler : WF_vars(SettleBegin(s)) /\ WF_vars(Settle(s))
  /\ \A a \in Absorber : WF_vars(Absorb(a))

FairSpec == Spec /\ Fairness

-----------------------------------------------------------------------------
(* What must hold of it.                                                   *)

\* Every variable holds what its table or map can hold.
TypeOK ==
  /\ Len(log) <= MaxSeq /\ floor \in 0..Len(log)
  /\ epoch \in 0..minted /\ minted \in 0..MaxEpoch
  /\ table \in [Row -> [at : 0..MaxSeq, epoch : 0..MaxEpoch]]
  /\ effects \cup running \subseteq (1..MaxEpoch) \X Edit
  /\ applied \in [cursor : 0..MaxSeq, epoch : 0..MaxEpoch]
  /\ \A s \in Settler : settling[s].phase \in
       {"idle", "table", "cursor", "floor", "read", "intent", "join", "apply", "record", "done"}
  /\ \A a \in Absorber : absorbing[a].phase \in {"idle", "load", "append", "compact"}

\* The table shows the edit at n of this history, or a later one of its row.
InTable(n) ==
  log[n].edit # Nothing =>
    table[RowOf[log[n].edit]].epoch = epoch /\ table[RowOf[log[n].edit]].at >= n

\* An edit the replicas were told to drop is in the table (`absorbed`: "the
\* table holds every edit through `through`"), whichever settles and absorbs
\* overlapped, failed or were repeated after a crash.
AbsorbedIsInTable ==
  \A m \in DOMAIN log : \A n \in 1..(m - 1) : n <= log[m].through => InTable(n)

\* "It never compacts past what recovery has applied."
CompactedIsInTable == \A n \in 1..floor : InTable(n)

\* Where a process continues, everything before is in the table.
AppliedIsInTable ==
  applied.epoch = epoch /\ epoch # 0 =>
    \A n \in DOMAIN log : n <= applied.cursor => InTable(n)

\* A settle "does not ask for history that is gone": where a process continues
\* is never below the floor its own absorbs compacted to.
NeverAsksForGone == applied.epoch = epoch /\ epoch # 0 => applied.cursor >= floor

\* Every committed edit reaches the table while exchanges go on, after failed
\* writes and crashes ("the next exchange's settle tries again").
EditsApplied == <>[](\A n \in DOMAIN log : InTable(n))
=============================================================================
