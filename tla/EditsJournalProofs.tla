-------------------------- MODULE EditsJournalProofs --------------------------
(***************************************************************************)
(* A table kept as the read model of a journal holds whatever a replica    *)
(* was told to drop, whatever the journal compacted and whatever a process *)
(* continues after, for any number of settles and absorbs at one time,     *)
(* under the policy the code's operator is asked for: a reset rebuilds the *)
(* table, and runs while no exchange does.                                 *)
(***************************************************************************)
EXTENDS EditsJournal, SequenceTheorems, TLAPS

Entry == [edit : Edit \cup {Nothing}, from : Nat, through : Nat]
Recoveries == {"intent", "join", "apply", "record", "done"}
Startings == {"table", "cursor", "floor", "read"}

\* The policy of the operator.
Policy == Rebuilds /\ Quiet

-----------------------------------------------------------------------------
(* The inductive invariant.                                                *)

Types ==
  /\ log \in Seq(Entry) /\ Len(log) <= MaxSeq /\ floor \in 0..Len(log)
  /\ minted \in 0..MaxEpoch /\ epoch \in 0..minted
  /\ table \in [Row -> [at : 0..MaxSeq, epoch : 0..MaxEpoch]]
  /\ effects \subseteq (1..minted) \X Edit /\ running \subseteq (1..minted) \X Edit
  /\ applied \in [cursor : 0..MaxSeq, epoch : 0..minted]
  /\ settling = [s \in Settler |-> settling[s]]
  /\ absorbing = [a \in Absorber |-> absorbing[a]]

\* Everything up to k is in the table.
AllIn(k) == \A n \in 1..Len(log) : n <= k => InTable(n)

\* Nothing is written before the first commit of a history, and a row that is
\* written is of this history.
RowsOfHistory ==
  /\ epoch = 0 => log = <<>>
  /\ \A r \in Row : table[r].at > 0 => epoch # 0 /\ table[r].epoch = epoch

\* An edit is committed once in a history.
EditsOnce ==
  \A m, n \in 1..Len(log) : log[m].edit = log[n].edit /\ log[m].edit # Nothing => m = n

\* A recorded success of this history is of a committed edit the table has.
EffectsInTable ==
  \A e \in Edit : <<epoch, e>> \in effects =>
    \E n \in 1..Len(log) : log[n].edit = e /\ InTable(n)

\* Where a process continues is in the log.
AppliedInLog ==
  applied.epoch = epoch /\ epoch # 0 => applied.cursor <= Len(log) /\ AllIn(applied.cursor)

\* A settle in progress is of this history, has settled only what the table
\* has, and goes on with the operations that follow it.
SettleFits(w) ==
  /\ w.phase \in {"idle"} \cup Startings \cup Recoveries
  /\ w.phase # "idle" => epoch # 0 /\ w.epoch = epoch
  /\ w.phase = "read" => w.from \in Nat /\ w.from <= Len(log) /\ AllIn(w.from)
  /\ w.phase \in Recoveries =>
       /\ w.settled \in Nat /\ w.ops \in Seq(Entry)
       /\ w.settled + Len(w.ops) <= Len(log)
       /\ \A i \in 1..Len(w.ops) : w.ops[i] = log[w.settled + i]
       /\ AllIn(w.settled)
  /\ w.phase \in {"join", "apply", "record"} => w.ops # <<>> /\ Head(w.ops).edit # Nothing
  /\ w.phase = "record" => InTable(w.settled + 1)

\* An absorb in progress is of this history and names only what the table has.
AbsorbFits(w) ==
  /\ w.phase \in {"idle", "load", "append", "compact"}
  /\ w.phase # "idle" =>
       epoch # 0 /\ w.through \in Nat /\ w.through <= Len(log) /\ AllIn(w.through)
  /\ w.phase = "append" => w.cursor \in Nat

IInv ==
  /\ Types
  /\ RowsOfHistory
  /\ EditsOnce
  /\ EffectsInTable
  /\ AppliedInLog
  /\ AbsorbedIsInTable
  /\ CompactedIsInTable
  /\ \A s \in Settler : SettleFits(settling[s])
  /\ \A a \in Absorber : AbsorbFits(absorbing[a])
-----------------------------------------------------------------------------
(* What a history that only grows keeps.                                   *)

\* Operations are added at the end, rows are only written forward, and a
\* history that has begun goes on.
Grows ==
  /\ Len(log) <= Len(log')
  /\ \A n \in 1..Len(log) : log'[n] = log[n]
  /\ epoch # 0 => epoch' = epoch
  /\ \A r \in Row : /\ table'[r].at >= table[r].at
                    /\ epoch # 0 /\ table[r].epoch = epoch => table'[r].epoch = epoch

LEMMA TypesOfLog ==
  ASSUME Types
  PROVE  /\ Len(log) \in Nat /\ DOMAIN log = 1..Len(log)
         /\ \A n \in 1..Len(log) : log[n] \in Entry /\ log[n].edit \in Edit \cup {Nothing}
         /\ \A n \in 1..Len(log) : log[n].edit # Nothing => RowOf[log[n].edit] \in Row
         /\ \A r \in Row : table[r].at \in Nat
  <1>1. log \in Seq(Entry)
    BY DEF Types
  <1>2. \A n \in 1..Len(log) : log[n] \in Entry
    BY <1>1
  <1>3. \A n \in 1..Len(log) : log[n].edit \in Edit \cup {Nothing}
    BY <1>2 DEF Entry
  <1>4. \A r \in Row : table[r].at \in Nat
    BY EditsBoundsAssumption DEF Types
  <1> QED
    BY <1>1, <1>2, <1>3, <1>4 DEF Row

\* What is in the table stays there.
LEMMA InTableStays ==
  ASSUME Types, Types', Grows, epoch # 0, NEW n \in 1..Len(log), InTable(n)
  PROVE  InTable(n)'
  <1>1. log'[n] = log[n] /\ epoch' = epoch
    BY DEF Grows
  <1>2. CASE log[n].edit = Nothing
    BY <1>1, <1>2 DEF InTable
  <1>3. CASE log[n].edit # Nothing
    <2> DEFINE r == RowOf[log[n].edit]
    <2>1. r \in Row /\ table[r].at \in Nat /\ n \in Nat
      BY <1>3, TypesOfLog
    <2>2. table'[r].at \in Nat
      BY <2>1, EditsBoundsAssumption DEF Types
    <2>3. table[r].epoch = epoch /\ table[r].at >= n
      BY <1>3 DEF InTable
    <2>4. table'[r].epoch = epoch /\ table'[r].at >= table[r].at
      BY <2>1, <2>3 DEF Grows
    <2>5. table'[r].at >= n
      BY <2>1, <2>2, <2>3, <2>4
    <2> QED
      BY <1>1, <2>4, <2>5 DEF InTable
  <1> QED
    BY <1>2, <1>3

LEMMA AllInStays ==
  ASSUME Types, Types', Grows, epoch # 0, NEW k \in Nat, k <= Len(log), AllIn(k)
  PROVE  AllIn(k)' /\ k <= Len(log)'
  <1>1. Len(log) \in Nat /\ Len(log') \in Nat /\ Len(log) <= Len(log')
    BY TypesOfLog DEF Types, Grows
  <1>2. \A n \in 1..Len(log') : n <= k => n \in 1..Len(log)
    BY <1>1
  <1>3. \A n \in 1..Len(log') : n <= k => InTable(n)'
    BY <1>2, InTableStays DEF AllIn
  <1> QED
    BY <1>1, <1>3 DEF AllIn

\* A settle goes on in a history that grew.
LEMMA SettleFitsStays ==
  ASSUME Types, Types', Grows, NEW w, SettleFits(w)
  PROVE  SettleFits(w)'
  <1>1. CASE w.phase = "idle"
    BY <1>1 DEF SettleFits, Recoveries, Startings
  <1>2. CASE w.phase # "idle"
    <2>0. epoch # 0 /\ epoch' = epoch /\ w.epoch = epoch
      BY <1>2 DEF SettleFits, Grows
    <2>1. w.phase = "read" => w.from \in Nat /\ w.from <= Len(log)' /\ AllIn(w.from)'
      BY <2>0, AllInStays DEF SettleFits
    <2>2. ASSUME w.phase \in Recoveries
          PROVE  /\ w.settled \in Nat /\ w.ops \in Seq(Entry)
                 /\ w.settled + Len(w.ops) <= Len(log')
                 /\ \A i \in 1..Len(w.ops) : w.ops[i] = log'[w.settled + i]
                 /\ AllIn(w.settled)'
      <3>1. /\ w.settled \in Nat /\ w.ops \in Seq(Entry)
            /\ w.settled + Len(w.ops) <= Len(log)
            /\ \A i \in 1..Len(w.ops) : w.ops[i] = log[w.settled + i]
            /\ AllIn(w.settled)
        BY <2>2 DEF SettleFits
      <3>2. Len(w.ops) \in Nat /\ Len(log) \in Nat /\ Len(log') \in Nat /\ Len(log) <= Len(log')
        BY <3>1, TypesOfLog DEF Types, Grows
      <3>3. w.settled <= Len(log) /\ \A i \in 1..Len(w.ops) : w.settled + i \in 1..Len(log)
        BY <3>1, <3>2
      <3>4. AllIn(w.settled)'
        BY <2>0, <3>1, <3>3, AllInStays
      <3>5. \A i \in 1..Len(w.ops) : w.ops[i] = log'[w.settled + i]
        BY <3>1, <3>3 DEF Grows
      <3> QED
        BY <3>1, <3>2, <3>4, <3>5
    <2>3. ASSUME w.phase = "record"
          PROVE  InTable(w.settled + 1)'
      <3>1. /\ w.settled \in Nat /\ w.ops \in Seq(Entry) /\ w.ops # <<>>
            /\ w.settled + Len(w.ops) <= Len(log) /\ InTable(w.settled + 1)
        BY <2>3 DEF SettleFits, Recoveries
      <3>2. w.settled + 1 \in 1..Len(log)
        BY <3>1, TypesOfLog
      <3> QED
        BY <2>0, <3>1, <3>2, InTableStays
    <2> QED
      BY <2>0, <2>1, <2>2, <2>3 DEF SettleFits
  <1> QED
    BY <1>1, <1>2

\* So does an absorb.
LEMMA AbsorbFitsStays ==
  ASSUME Types, Types', Grows, NEW w, AbsorbFits(w)
  PROVE  AbsorbFits(w)'
  <1>1. w.phase # "idle" => epoch' # 0 /\ w.through \in Nat /\ w.through <= Len(log)' /\ AllIn(w.through)'
    BY AllInStays DEF AbsorbFits, Grows
  <1> QED
    BY <1>1 DEF AbsorbFits

\* What the journal, the table and the process remember, when a history grows
\* by nothing that absorbs more than the table has.
LEMMA GrowsKeeps ==
  ASSUME IInv, Types', Grows, floor' = floor, applied' = applied, effects' = effects,
         minted' >= minted, epoch' \in {epoch, minted + 1},
         \A n \in 1..Len(log') : n \notin 1..Len(log) =>
           \E k \in Nat : log'[n].through = k /\ k <= Len(log) /\ AllIn(k)
  PROVE  EffectsInTable' /\ AppliedInLog' /\ AbsorbedIsInTable' /\ CompactedIsInTable'
  <1>0. /\ Types /\ RowsOfHistory /\ Len(log) \in Nat /\ Len(log') \in Nat /\ Len(log) <= Len(log')
        /\ DOMAIN log = 1..Len(log) /\ DOMAIN log' = 1..Len(log') /\ minted \in Nat /\ epoch <= minted
    BY TypesOfLog, EditsBoundsAssumption DEF IInv, Types, Grows
  <1>1. CASE epoch # 0
    <2>0. epoch' = epoch
      BY <1>1 DEF Grows
    <2>1. EffectsInTable'
      <3> SUFFICES ASSUME NEW e \in Edit, <<epoch, e>> \in effects
                   PROVE  \E n \in 1..Len(log') : log'[n].edit = e /\ InTable(n)'
        BY <2>0 DEF EffectsInTable
      <3>1. PICK n \in 1..Len(log) : log[n].edit = e /\ InTable(n)
        BY DEF IInv, EffectsInTable
      <3>2. n \in 1..Len(log') /\ log'[n] = log[n] /\ InTable(n)'
        BY <1>0, <1>1, <3>1, InTableStays DEF Grows
      <3> QED
        BY <3>1, <3>2
    <2>2. AppliedInLog'
      <3> SUFFICES ASSUME applied.epoch = epoch
                   PROVE  applied.cursor <= Len(log') /\ AllIn(applied.cursor)'
        BY <2>0 DEF AppliedInLog
      <3>1. applied.cursor \in Nat
        BY <1>0, EditsBoundsAssumption DEF Types
      <3> QED
        BY <1>0, <1>1, <3>1, AllInStays DEF IInv, AppliedInLog
    <2>3. AbsorbedIsInTable'
      <3> SUFFICES ASSUME NEW m \in 1..Len(log'), NEW n \in 1..(m - 1), n <= log'[m].through
                   PROVE  InTable(n)'
        BY <1>0 DEF AbsorbedIsInTable
      <3>1. CASE m \in 1..Len(log)
        <4>1. n \in 1..Len(log) /\ log'[m] = log[m]
          BY <1>0, <3>1 DEF Grows
        <4>2. InTable(n)
          BY <1>0, <3>1, <4>1 DEF IInv, AbsorbedIsInTable
        <4> QED
          BY <1>0, <1>1, <4>1, <4>2, InTableStays
      <3>2. CASE m \notin 1..Len(log)
        <4>1. PICK k \in Nat : log'[m].through = k /\ k <= Len(log) /\ AllIn(k)
          BY <3>2
        <4>2. n \in 1..Len(log) /\ InTable(n)
          BY <1>0, <4>1 DEF AllIn
        <4> QED
          BY <1>0, <1>1, <4>2, InTableStays
      <3> QED
        BY <3>1, <3>2
    <2>4. CompactedIsInTable'
      <3> SUFFICES ASSUME NEW n \in 1..floor
                   PROVE  InTable(n)'
        BY DEF CompactedIsInTable
      <3>1. n \in 1..Len(log) /\ InTable(n)
        BY <1>0 DEF Types, IInv, CompactedIsInTable
      <3> QED
        BY <1>0, <1>1, <3>1, InTableStays
    <2> QED
      BY <2>1, <2>2, <2>3, <2>4
  <1>2. CASE epoch = 0
    <2>0. log = <<>> /\ Len(log) = 0 /\ floor = 0
      BY <1>0, <1>2 DEF RowsOfHistory, Types
    <2>1. \A e \in Edit : <<epoch', e>> \notin effects
      BY <1>0, <1>2 DEF Types
    <2>2. applied.epoch # epoch' \/ epoch' = 0
      BY <1>0, <1>2 DEF Types
    <2>3. AbsorbedIsInTable'
      <3> SUFFICES ASSUME NEW m \in 1..Len(log'), NEW n \in 1..(m - 1), n <= log'[m].through
                   PROVE  FALSE
        BY <1>0 DEF AbsorbedIsInTable
      <3>1. PICK k \in Nat : log'[m].through = k /\ k <= Len(log)
        BY <1>0, <2>0
      <3> QED
        BY <1>0, <2>0, <3>1
    <2> QED
      BY <2>0, <2>1, <2>2, <2>3 DEF EffectsInTable, AppliedInLog, CompactedIsInTable
  <1> QED
    BY <1>1, <1>2

\* A step that writes neither the journal nor the table.
LEMMA NothingWritten ==
  ASSUME IInv, Types', UNCHANGED <<log, floor, epoch, minted, table>>
  PROVE  /\ Grows
         /\ RowsOfHistory' /\ EditsOnce' /\ AbsorbedIsInTable' /\ CompactedIsInTable'
         /\ effects' = effects => EffectsInTable'
         /\ applied' = applied => AppliedInLog'
         /\ \A w : SettleFits(w) => SettleFits(w)'
         /\ \A w : AbsorbFits(w) => AbsorbFits(w)'
  <1>0. Types
    BY DEF IInv
  <1>1. Grows
    BY <1>0, TypesOfLog DEF Grows
  <1>2. \A n : InTable(n)' = InTable(n)
    BY DEF InTable
  <1>3. \A k : AllIn(k)' = AllIn(k)
    BY <1>2 DEF AllIn
  <1>4. /\ RowsOfHistory' /\ EditsOnce'
        /\ effects' = effects => EffectsInTable'
        /\ applied' = applied => AppliedInLog'
    BY <1>2, <1>3 DEF IInv, RowsOfHistory, EditsOnce, EffectsInTable, AppliedInLog
  <1>5. AbsorbedIsInTable' /\ CompactedIsInTable'
    BY <1>2 DEF IInv, AbsorbedIsInTable, CompactedIsInTable
  <1>6. \A w : SettleFits(w) => SettleFits(w)'
    BY <1>0, <1>1, SettleFitsStays
  <1>7. \A w : AbsorbFits(w) => AbsorbFits(w)'
    BY <1>0, <1>1, AbsorbFitsStays
  <1> QED
    BY <1>1, <1>4, <1>5, <1>6, <1>7

\* Settles that moved to where they fit, and settles that stayed, fit a history
\* that grew.
LEMMA ManyMove ==
  ASSUME Types, Types', Grows,
         \A t \in Settler : \A v : v = settling'[t] => SettleFits(v)
  PROVE  \A t \in Settler : SettleFits(settling[t])'
  <1> SUFFICES ASSUME NEW t \in Settler
               PROVE  SettleFits(settling[t])'
    OBVIOUS
  <1>1. \A v : v = settling'[t] => SettleFits(v)'
    BY SettleFitsStays
  <1>2. \A v : v = settling'[t] => (SettleFits(v)' => SettleFits(settling[t])')
    BY DEF SettleFits, Recoveries, Startings
  <1> QED
    BY <1>1, <1>2

\* The other settles go on when one moves; so do the absorbs.
LEMMA OneMoves ==
  ASSUME IInv, Types', Grows, absorbing' = absorbing, NEW s \in Settler,
         \A t \in Settler : t # s => settling'[t] = settling[t],
         SettleFits(settling[s])'
  PROVE  /\ \A t \in Settler : SettleFits(settling[t])'
         /\ \A a \in Absorber : AbsorbFits(absorbing[a])'
  <1>0. Types
    BY DEF IInv
  <1>1. ASSUME NEW t \in Settler, t # s
        PROVE  SettleFits(settling[t])'
    <2>1. SettleFits(settling[t])
      BY DEF IInv
    <2>2. \A v : v = settling'[t] => (SettleFits(v)' => SettleFits(settling[t])')
      BY DEF SettleFits, Recoveries, Startings
    <2>3. \A v : v = settling[t] => (SettleFits(settling[t]) => SettleFits(v))
      OBVIOUS
    <2>4. \A v : SettleFits(v) => SettleFits(v)'
      BY <1>0, SettleFitsStays
    <2>5. settling'[t] = settling[t]
      BY <1>1
    <2> QED
      BY <2>1, <2>2, <2>3, <2>4, <2>5
  <1>2. ASSUME NEW a \in Absorber
        PROVE  AbsorbFits(absorbing[a])'
    <2>1. AbsorbFits(absorbing[a]) /\ absorbing'[a] = absorbing[a]
      BY DEF IInv
    <2>2. \A v : v = absorbing'[a] => (AbsorbFits(v)' => AbsorbFits(absorbing[a])')
      BY DEF AbsorbFits
    <2>3. \A v : AbsorbFits(v) => AbsorbFits(v)'
      BY <1>0, AbsorbFitsStays
    <2> QED
      BY <2>1, <2>2, <2>3
  <1> QED
    BY <1>1, <1>2

\* A step that moves one settle, and writes nothing.
LEMMA SettleMoves ==
  ASSUME IInv, NEW s \in Settler, NEW next,
         UNCHANGED <<log, floor, epoch, minted, table, effects, applied, absorbing>>,
         running' \subseteq (1..minted) \X Edit,
         Goes(s, next), SettleFits(next)
  PROVE  IInv'
  <1>0. Types /\ settling = [t \in Settler |-> settling[t]]
    BY DEF IInv, Types
  <1>1. /\ settling' = [t \in Settler |-> settling'[t]]
        /\ settling'[s] = next /\ \A t \in Settler : t # s => settling'[t] = settling[t]
    BY <1>0 DEF Goes
  <1>2. Types'
    BY <1>0, <1>1 DEF Types
  <1>3. /\ RowsOfHistory' /\ EditsOnce' /\ EffectsInTable' /\ AppliedInLog'
        /\ AbsorbedIsInTable' /\ CompactedIsInTable'
        /\ \A w : SettleFits(w) => SettleFits(w)'
        /\ \A w : AbsorbFits(w) => AbsorbFits(w)'
    BY <1>2, NothingWritten
  <1>4. ASSUME NEW t \in Settler
        PROVE  SettleFits(settling[t])'
    <2> DEFINE w == settling'[t]
    <2>1. SettleFits(w)
      BY <1>1 DEF IInv
    <2>2. SettleFits(w) => SettleFits(settling[t])'
      <3> HIDE DEF w
      <3>1. \A v : v = settling'[t] => (SettleFits(v) => SettleFits(settling[t])')
        BY <1>3 DEF SettleFits, Recoveries, Startings
      <3> QED
        BY <3>1 DEF w
    <2> QED
      BY <2>1, <2>2
  <1> QED
    BY <1>2, <1>3, <1>4 DEF IInv
-----------------------------------------------------------------------------
(* One lemma for each action of a settle.                                  *)

LEMMA IdleFits == SettleFits(Idle) /\ AbsorbFits(Idle)
  BY DEF SettleFits, AbsorbFits, Idle, Recoveries, Startings

\* What a settle that recovers has to show.
LEMMA RecoveringFits ==
  ASSUME epoch # 0, NEW phase \in {"intent", "done"}, NEW k \in Nat, NEW ops \in Seq(Entry),
         k + Len(ops) <= Len(log), \A i \in 1..Len(ops) : ops[i] = log[k + i], AllIn(k)
  PROVE  SettleFits(Recovering(phase, epoch, k, ops))
  <1> DEFINE u == Recovering(phase, epoch, k, ops)
  <1>1. u.phase = phase /\ u.epoch = epoch /\ u.settled = k /\ u.ops = ops
    BY DEF Recovering
  <1> HIDE DEF u
  <1>2. SettleFits(u)
    BY <1>1 DEF SettleFits, Startings, Recoveries
  <1> QED
    BY <1>2 DEF u

\* Up to the read of the operations nothing is claimed but the history; the
\* floor is below what the table has.
LEMMA StartingKeeps ==
  ASSUME IInv, NEW s \in Settler, SettleTable(s) \/ SettleCursor(s) \/ SettleFloor(s)
  PROVE  IInv'
  <1>0. Types /\ UNCHANGED <<log, floor, epoch, minted, table, effects, running, applied, absorbing>>
    BY DEF IInv, SettleTable, SettleCursor, SettleFloor, settles, journal, store
  <1>1. running' \subseteq (1..minted) \X Edit
    BY <1>0 DEF Types
  <1>2. settling[s].phase \in {"table", "cursor", "floor"}
    BY DEF SettleTable, SettleCursor, SettleFloor
  <1>3. epoch # 0 /\ settling[s].epoch = epoch
    BY <1>2 DEF IInv, SettleFits
  <1>4. ASSUME NEW phase \in {"cursor", "floor"}, NEW from
        PROVE  SettleFits(Starting(phase, settling[s].epoch, from))
    BY <1>3 DEF Starting, SettleFits, Startings, Recoveries
  <1>5. SettleFits(Starting("read", settling[s].epoch, floor))
    <2>1. floor \in Nat /\ floor <= Len(log)
      BY <1>0, TypesOfLog DEF Types
    <2>2. AllIn(floor)
      BY <2>1, <1>0, TypesOfLog DEF AllIn, IInv, CompactedIsInTable
    <2> QED
      BY <1>3, <2>1, <2>2 DEF Starting, SettleFits, Startings, Recoveries
  <1>6. \E next : Goes(s, next) /\ SettleFits(next)
    <2>1. CASE SettleTable(s)
      BY <1>4, <2>1 DEF SettleTable
    <2>2. CASE SettleCursor(s)
      BY <1>4, <2>2, IdleFits DEF SettleCursor
    <2>3. CASE SettleFloor(s)
      BY <1>5, <2>3 DEF SettleFloor
    <2> QED
      BY <2>1, <2>2, <2>3
  <1> QED
    BY <1>0, <1>1, <1>6, SettleMoves

\* What recover reads follows what it starts from.
LEMMA ReadKeeps ==
  ASSUME IInv, NEW s \in Settler, SettleRead(s)
  PROVE  IInv'
  <1> DEFINE from == settling[s].from
             next == IF from \notin floor..Len(log) THEN Idle
                     ELSE Recovering("intent", settling[s].epoch, from, SubSeq(log, from + 1, Len(log)))
  <1>0. /\ Types /\ UNCHANGED <<log, floor, epoch, minted, table, effects, running, applied, absorbing>>
        /\ settling[s].phase = "read" /\ Goes(s, next) /\ Len(log) \in Nat
    BY TypesOfLog DEF IInv, SettleRead, settles, journal, store
  <1>1. running' \subseteq (1..minted) \X Edit
    BY <1>0 DEF Types
  <1>2. /\ epoch # 0 /\ settling[s].epoch = epoch
        /\ from \in Nat /\ from <= Len(log) /\ AllIn(from)
    BY <1>0 DEF IInv, SettleFits
  <1>3. SettleFits(Recovering("intent", epoch, from, SubSeq(log, from + 1, Len(log))))
    <2> DEFINE ops == SubSeq(log, from + 1, Len(log))
    <2>1. log \in Seq(Entry)
      BY <1>0 DEF Types
    <2>2. ops \in Seq(Entry) /\ Len(ops) = Len(log) - from
      BY <1>0, <1>2, <2>1, SubSeqProperties
    <2>3. \A i \in 1..Len(ops) : ops[i] = log[from + i]
      BY <1>0, <1>2, <2>1, <2>2, SubSeqProperties
    <2>4. from + Len(ops) <= Len(log)
      BY <1>0, <1>2, <2>2
    <2> HIDE DEF ops, from
    <2>5. SettleFits(Recovering("intent", epoch, from, ops))
      BY <1>2, <2>2, <2>3, <2>4, RecoveringFits
    <2> QED
      BY <2>5 DEF ops, from
  <1>4. SettleFits(next)
    BY <1>2, <1>3, IdleFits
  <1> HIDE DEF next
  <1> QED
    BY <1>0, <1>1, <1>4, SettleMoves

\* Past an operation the table has.
LEMMA StepFits ==
  ASSUME Types, NEW w, SettleFits(w), w.phase \in Recoveries, w.ops # <<>>, InTable(w.settled + 1)
  PROVE  SettleFits(Recovering("intent", w.epoch, w.settled + 1, Tail(w.ops)))
  <1>0. /\ Len(log) \in Nat /\ epoch # 0 /\ w.epoch = epoch
        /\ w.settled \in Nat /\ w.ops \in Seq(Entry) /\ w.settled + Len(w.ops) <= Len(log)
        /\ \A i \in 1..Len(w.ops) : w.ops[i] = log[w.settled + i]
        /\ AllIn(w.settled)
    BY TypesOfLog DEF SettleFits, Recoveries
  <1>1. /\ Tail(w.ops) \in Seq(Entry) /\ Len(Tail(w.ops)) = Len(w.ops) - 1 /\ Len(w.ops) \in Nat
        /\ \A i \in 1..Len(Tail(w.ops)) : Tail(w.ops)[i] = w.ops[i + 1]
    BY <1>0, HeadTailProperties
  <1>2. \A i \in 1..Len(Tail(w.ops)) : Tail(w.ops)[i] = log[(w.settled + 1) + i]
    <2> SUFFICES ASSUME NEW i \in 1..Len(Tail(w.ops))
                 PROVE  Tail(w.ops)[i] = log[(w.settled + 1) + i]
      OBVIOUS
    <2>1. i + 1 \in 1..Len(w.ops) /\ w.settled + (i + 1) = (w.settled + 1) + i
      BY <1>0, <1>1
    <2> QED
      BY <1>0, <1>1, <2>1
  <1>3. AllIn(w.settled + 1)
    BY <1>0 DEF AllIn
  <1>4. w.settled + 1 \in Nat /\ w.settled + 1 + Len(Tail(w.ops)) <= Len(log)
    BY <1>0, <1>1
  <1> QED
    BY <1>0, <1>1, <1>2, <1>3, <1>4, RecoveringFits

\* Where a settle stands at the operation it has before it.
LEMMA AtOperation ==
  ASSUME Types, NEW w, SettleFits(w), w.phase \in Recoveries, w.ops # <<>>
  PROVE  /\ w.settled \in Nat /\ w.settled + 1 \in 1..Len(log)
         /\ Head(w.ops) = log[w.settled + 1]
         /\ epoch # 0 /\ w.epoch = epoch /\ AllIn(w.settled)
         /\ Head(w.ops).edit \in Edit \cup {Nothing}
  <1>1. /\ Len(log) \in Nat /\ epoch # 0 /\ w.epoch = epoch /\ AllIn(w.settled)
        /\ w.settled \in Nat /\ w.ops \in Seq(Entry) /\ w.settled + Len(w.ops) <= Len(log)
        /\ \A i \in 1..Len(w.ops) : w.ops[i] = log[w.settled + i]
    BY TypesOfLog DEF SettleFits, Recoveries
  <1>2. Len(w.ops) \in Nat /\ 1 \in 1..Len(w.ops) /\ Head(w.ops) = w.ops[1]
    BY <1>1
  <1>3. w.settled + 1 \in 1..Len(log) /\ Head(w.ops) = log[w.settled + 1]
    BY <1>1, <1>2
  <1> QED
    BY <1>1, <1>3, TypesOfLog

\* An operation is passed when its edit is recorded, which the table has.
LEMMA IntentKeeps ==
  ASSUME IInv, NEW s \in Settler, SettleIntent(s)
  PROVE  IInv'
  <1> DEFINE w == settling[s]
             op == Head(w.ops)
  <1>0. /\ Types /\ SettleFits(w) /\ w.phase = "intent" /\ w.ops # <<>>
        /\ UNCHANGED <<log, floor, epoch, minted, table, effects, applied, absorbing>>
        /\ settling = [t \in Settler |-> settling[t]]
    BY DEF IInv, Types, SettleIntent, journal, store
  <1>1. /\ w.settled \in Nat /\ w.settled + 1 \in 1..Len(log) /\ op = log[w.settled + 1]
        /\ epoch # 0 /\ w.epoch = epoch /\ op.edit \in Edit \cup {Nothing}
    BY <1>0, AtOperation DEF Recoveries
  <1>2. CASE op.edit = Nothing \/ Intent(s, op) \in effects
    <2>1. InTable(w.settled + 1)
      <3>1. CASE op.edit = Nothing
        BY <1>1, <3>1 DEF InTable
      <3>2. CASE op.edit # Nothing /\ Intent(s, op) \in effects
        <4>1. op.edit \in Edit /\ <<epoch, op.edit>> \in effects
          BY <1>1, <3>2 DEF Intent
        <4>2. PICK n \in 1..Len(log) : log[n].edit = op.edit /\ InTable(n)
          BY <4>1 DEF IInv, EffectsInTable
        <4>3. n = w.settled + 1
          BY <1>1, <3>2, <4>2 DEF IInv, EditsOnce
        <4> QED
          BY <4>2, <4>3
      <3> QED
        BY <1>2, <3>1, <3>2
    <2>2. SettleFits(Recovering("intent", w.epoch, w.settled + 1, Tail(w.ops)))
      BY <1>0, <2>1, StepFits DEF Recoveries
    <2>3. Goes(s, Recovering("intent", w.epoch, w.settled + 1, Tail(w.ops))) /\ running' = running
      BY <1>0, <1>2 DEF SettleIntent, Settled, Goes
    <2>4. running' \subseteq (1..minted) \X Edit
      BY <1>0, <2>3 DEF Types
    <2> HIDE DEF w
    <2> QED
      BY <1>0, <2>2, <2>3, <2>4, SettleMoves
  <1>3. CASE ~ (op.edit = Nothing \/ Intent(s, op) \in effects)
    <2>1. ASSUME NEW phase \in {"join", "apply"}
          PROVE  SettleFits(Recovering(phase, w.epoch, w.settled, w.ops))
      BY <1>0, <1>3 DEF SettleFits, Recovering, Recoveries, Startings
    <2>2. /\ \/ Goes(s, Recovering("join", w.epoch, w.settled, w.ops))
             \/ Goes(s, Recovering("apply", w.epoch, w.settled, w.ops))
          /\ running' \subseteq running \cup {Intent(s, op)}
      BY <1>3 DEF SettleIntent, Turns
    <2>3. Intent(s, op) \in (1..minted) \X Edit
      BY <1>0, <1>1, <1>3, EditsBoundsAssumption DEF Intent, Types
    <2>4. running' \subseteq (1..minted) \X Edit
      BY <1>0, <2>2, <2>3 DEF Types
    <2> HIDE DEF w
    <2> QED
      BY <1>0, <2>1, <2>2, <2>4, SettleMoves
  <1> QED
    BY <1>2, <1>3
\* The table is written for the operation the settle is at: its row moves to
\* that operation, or is past it and of this history already.
LEMMA ApplyKeeps ==
  ASSUME IInv, NEW s \in Settler, SettleApply(s)
  PROVE  IInv'
  <1> DEFINE w == settling[s]
             row == RowOf[Head(w.ops).edit]
             k == w.settled + 1
             next == Recovering("record", w.epoch, w.settled, w.ops)
  <1>0. /\ Types /\ SettleFits(w) /\ w.phase = "apply" /\ w.ops # <<>> /\ Head(w.ops).edit # Nothing
        /\ UNCHANGED <<log, floor, epoch, minted, effects, running, applied, absorbing>>
        /\ table' = IF table[row].at > k THEN table
                    ELSE [table EXCEPT ![row] = [at |-> k, epoch |-> w.epoch]]
        /\ settling = [t \in Settler |-> settling[t]] /\ Goes(s, next)
    BY DEF IInv, Types, SettleFits, SettleApply, Turns, Written, At, journal
  <1>1. /\ w.settled \in Nat /\ k \in 1..Len(log) /\ Head(w.ops) = log[k]
        /\ epoch # 0 /\ w.epoch = epoch /\ log[k].edit \in Edit /\ row = RowOf[log[k].edit] /\ row \in Row
    BY <1>0, AtOperation DEF Recoveries, Row
  <1> HIDE DEF row, k, next
  <1>2. /\ Len(log) \in Nat /\ k \in Nat /\ k <= MaxSeq /\ k > 0 /\ epoch \in 0..MaxEpoch
        /\ \A r \in Row : table[r] \in [at : 0..MaxSeq, epoch : 0..MaxEpoch] /\ table[r].at \in Nat
    BY <1>0, <1>1, TypesOfLog, EditsBoundsAssumption DEF Types
  <1>3. table' \in [Row -> [at : 0..MaxSeq, epoch : 0..MaxEpoch]]
    BY <1>0, <1>1, <1>2, EditsBoundsAssumption DEF Types
  <1>4. \A r \in Row : table'[r] = table[r] \/ (r = row /\ table'[r].at = k /\ table'[r].epoch = epoch /\ k >= table[r].at)
    <2>1. CASE table[row].at > k
      BY <1>0, <2>1
    <2>2. CASE ~ (table[row].at > k)
      <3>1. k >= table[row].at
        BY <1>1, <1>2, <2>2
      <3> QED
        BY <1>0, <1>1, <2>2, <3>1 DEF Types
    <2> QED
      BY <2>1, <2>2
  <1>5. settling' = [t \in Settler |-> settling'[t]] /\ settling'[s] = next
        /\ \A t \in Settler : t # s => settling'[t] = settling[t]
    BY <1>0 DEF Goes
  <1>6. Types'
    BY <1>0, <1>3, <1>5 DEF Types
  <1>7. Grows
    BY <1>0, <1>2, <1>4 DEF Grows
  <1>8. RowsOfHistory'
    BY <1>0, <1>1, <1>4 DEF IInv, RowsOfHistory
  <1>9. EditsOnce'
    BY <1>0 DEF IInv, EditsOnce
  <1>10. EffectsInTable' /\ AppliedInLog' /\ AbsorbedIsInTable' /\ CompactedIsInTable'
    BY <1>0, <1>2, <1>6, <1>7, GrowsKeeps, EditsBoundsAssumption DEF Types
  <1>11. ASSUME NEW n \in 1..Len(log), n = k
         PROVE  InTable(n)'
    <2>1. table'[row].at >= k /\ table'[row].epoch = epoch
      <3>1. CASE table[row].at > k
        <4>1. table[row].epoch = epoch
          BY <1>1, <1>2, <3>1 DEF IInv, RowsOfHistory
        <4> QED
          BY <1>0, <1>1, <1>2, <3>1, <4>1
      <3>2. CASE ~ (table[row].at > k)
        BY <1>0, <1>1, <1>2, <3>2 DEF Types
      <3> QED
        BY <3>1, <3>2
    <2>2. log' = log /\ epoch' = epoch /\ RowOf[log[n].edit] = row
      BY <1>0, <1>1, <1>11
    <2> QED
      BY <1>11, <2>1, <2>2 DEF InTable
  <1>12. \A v : SettleFits(v) => SettleFits(v)'
    BY <1>0, <1>6, <1>7, SettleFitsStays
  <1>13. SettleFits(settling[s])'
    <2>1. ASSUME NEW u, u = settling[s], NEW v, v = settling'[s]
          PROVE  SettleFits(v)'
      <3>1. v.phase = "record" /\ v.epoch = u.epoch /\ v.settled = u.settled /\ v.ops = u.ops
        BY <1>5, <2>1 DEF next, Recovering
      <3>2. SettleFits(u)' /\ u.phase = "apply"
        BY <1>0, <1>12, <2>1
      <3>3. InTable(v.settled + 1)'
        BY <1>1, <1>11, <2>1, <3>1 DEF k
      <3> QED
        BY <3>1, <3>2, <3>3 DEF SettleFits, Recoveries, Startings
    <2> QED
      BY <2>1 DEF SettleFits, Recoveries, Startings
  <1>14. /\ \A t \in Settler : SettleFits(settling[t])'
         /\ \A a \in Absorber : AbsorbFits(absorbing[a])'
    BY <1>0, <1>5, <1>6, <1>7, <1>13, OneMoves
  <1> QED
    BY <1>6, <1>8, <1>9, <1>10, <1>14 DEF IInv

\* Where those that share an intent stand: at the one operation of its edit.
LEMMA SharingAtOne ==
  ASSUME IInv, NEW s \in Settler, settling[s].phase \in {"apply", "record"}, NEW t \in Sharing(s)
  PROVE  /\ t \in Settler /\ settling[t].phase \in Recoveries /\ settling[t].ops # <<>>
         /\ settling[t].settled = settling[s].settled
  <1>1. /\ t \in Settler /\ settling[t].phase \in {"apply", "record", "join"}
        /\ Intent(t, Head(settling[t].ops)) = Intent(s, Head(settling[s].ops))
    BY DEF Sharing
  <1>2. /\ Types /\ SettleFits(settling[s]) /\ SettleFits(settling[t])
        /\ settling[s].ops # <<>> /\ Head(settling[s].ops).edit # Nothing /\ settling[t].ops # <<>>
        /\ settling[s].phase \in Recoveries /\ settling[t].phase \in Recoveries
    BY <1>1 DEF IInv, SettleFits, Recoveries
  <1>3. \A u \in {s, t} : /\ settling[u].settled \in Nat /\ settling[u].settled + 1 \in 1..Len(log)
                          /\ Head(settling[u].ops) = log[settling[u].settled + 1]
    BY <1>2, AtOperation
  <1>4. Head(settling[t].ops).edit = Head(settling[s].ops).edit
    BY <1>1 DEF Intent
  <1>5. settling[t].settled + 1 = settling[s].settled + 1
    BY <1>2, <1>3, <1>4 DEF IInv, EditsOnce
  <1> QED
    BY <1>1, <1>2, <1>3, <1>5

\* The recorded success is of an edit the table has; those that joined pass it.
LEMMA RecordKeeps ==
  ASSUME IInv, NEW s \in Settler, SettleRecord(s)
  PROVE  IInv'
  <1> DEFINE w == settling[s]
             k == w.settled + 1
             e == Head(w.ops).edit
  <1>0. /\ Types /\ SettleFits(w) /\ w.phase = "record" /\ w.ops # <<>>
        /\ UNCHANGED <<log, floor, epoch, minted, table, applied, absorbing>>
        /\ effects' = effects \cup {Intent(s, Head(w.ops))} /\ running' \subseteq running
        /\ Settled(Sharing(s), TRUE)
    BY DEF IInv, SettleFits, SettleRecord, journal
  <1>1. /\ k \in 1..Len(log) /\ log[k].edit = e /\ InTable(k) /\ e \in Edit
        /\ epoch # 0 /\ Intent(s, Head(w.ops)) = <<epoch, e>>
    BY <1>0, AtOperation DEF SettleFits, Recoveries, Intent
  <1>2. Types'
    <2>1. <<epoch, e>> \in (1..minted) \X Edit
      BY <1>0, <1>1, EditsBoundsAssumption DEF Types
    <2>2. settling' = [t \in Settler |-> settling'[t]]
      BY <1>0 DEF Settled
    <2> QED
      BY <1>0, <1>1, <2>1, <2>2 DEF Types
  <1>3. /\ Grows /\ RowsOfHistory' /\ EditsOnce' /\ AbsorbedIsInTable' /\ CompactedIsInTable'
        /\ AppliedInLog' /\ \A v : AbsorbFits(v) => AbsorbFits(v)'
    BY <1>0, <1>2, NothingWritten
  <1>4. EffectsInTable'
    <2> SUFFICES ASSUME NEW f \in Edit, <<epoch, f>> \in effects'
                 PROVE  \E n \in 1..Len(log) : log[n].edit = f /\ InTable(n)'
      BY <1>0 DEF EffectsInTable
    <2>1. \A n : InTable(n)' = InTable(n)
      BY <1>0 DEF InTable
    <2>2. CASE <<epoch, f>> \in effects
      BY <2>1, <2>2 DEF IInv, EffectsInTable
    <2>3. CASE <<epoch, f>> \notin effects
      <3>1. f = e
        BY <1>0, <1>1, <2>3
      <3>2. \A n : n = k => InTable(n)
        BY <1>1
      <3> HIDE DEF k
      <3> QED
        BY <1>1, <2>1, <3>1, <3>2
    <2> QED
      BY <2>2, <2>3
  <1>5. ASSUME NEW t \in Settler, NEW v, v = settling'[t]
        PROVE  SettleFits(v)
    <2>1. CASE t \notin Sharing(s)
      <3>1. v = settling[t]
        BY <1>0, <1>5, <2>1 DEF Settled
      <3> QED
        BY <3>1 DEF IInv
    <2>2. CASE t \in Sharing(s)
      <3>1. /\ settling[t].phase \in Recoveries /\ settling[t].ops # <<>>
            /\ settling[t].settled + 1 = k
        BY <1>0, <2>2, SharingAtOne
      <3>2. SettleFits(settling[t]) /\ InTable(settling[t].settled + 1)
        BY <1>1, <3>1 DEF IInv
      <3>3. v = Recovering("intent", settling[t].epoch, settling[t].settled + 1, Tail(settling[t].ops))
        BY <1>0, <1>5, <2>2 DEF Settled
      <3> HIDE DEF k
      <3> QED
        BY <1>0, <3>1, <3>2, <3>3, StepFits
    <2> QED
      BY <2>1, <2>2
  <1>6. \A t \in Settler : SettleFits(settling[t])'
    BY <1>0, <1>2, <1>3, <1>5, ManyMove
  <1>7. \A a \in Absorber : AbsorbFits(absorbing[a])'
    <2> SUFFICES ASSUME NEW a \in Absorber
                 PROVE  AbsorbFits(absorbing[a])'
      OBVIOUS
    <2>1. \A v : v = absorbing'[a] => (AbsorbFits(v)' => AbsorbFits(absorbing[a])')
      BY DEF AbsorbFits
    <2> QED
      BY <1>0, <1>3, <2>1 DEF IInv
  <1> QED
    BY <1>2, <1>3, <1>4, <1>6, <1>7 DEF IInv

\* A write that fails stops recovery where it is, for those that joined too.
LEMMA FaultKeeps ==
  ASSUME IInv, NEW s \in Settler, SettleFault(s)
  PROVE  IInv'
  <1>0. /\ Types /\ settling[s].phase \in {"apply", "record"}
        /\ UNCHANGED <<log, floor, epoch, minted, table, effects, applied, absorbing>>
        /\ running' \subseteq running /\ Settled(Sharing(s), FALSE)
    BY DEF IInv, SettleFault, journal, store
  <1>1. Types'
    <2>1. settling' = [t \in Settler |-> settling'[t]]
      BY <1>0 DEF Settled
    <2> QED
      BY <1>0, <2>1 DEF Types
  <1>2. /\ Grows /\ RowsOfHistory' /\ EditsOnce' /\ AbsorbedIsInTable' /\ CompactedIsInTable'
        /\ EffectsInTable' /\ AppliedInLog' /\ \A v : AbsorbFits(v) => AbsorbFits(v)'
    BY <1>0, <1>1, NothingWritten
  <1>3. ASSUME NEW t \in Settler, NEW v, v = settling'[t]
        PROVE  SettleFits(v)
    <2>1. CASE t \notin Sharing(s)
      <3>1. v = settling[t]
        BY <1>0, <1>3, <2>1 DEF Settled
      <3> QED
        BY <3>1 DEF IInv
    <2>2. CASE t \in Sharing(s)
      <3>1. settling[t].phase \in Recoveries /\ SettleFits(settling[t])
        BY <1>0, <2>2, SharingAtOne DEF IInv
      <3>2. v = Recovering("done", settling[t].epoch, settling[t].settled, settling[t].ops)
        BY <1>0, <1>3, <2>2 DEF Settled
      <3> QED
        BY <3>1, <3>2 DEF SettleFits, Recovering, Recoveries, Startings
    <2> QED
      BY <2>1, <2>2
  <1>4. \A t \in Settler : SettleFits(settling[t])'
    BY <1>0, <1>1, <1>2, <1>3, ManyMove
  <1>5. \A a \in Absorber : AbsorbFits(absorbing[a])'
    <2> SUFFICES ASSUME NEW a \in Absorber
                 PROVE  AbsorbFits(absorbing[a])'
      OBVIOUS
    <2>1. \A v : v = absorbing'[a] => (AbsorbFits(v)' => AbsorbFits(absorbing[a])')
      BY DEF AbsorbFits
    <2> QED
      BY <1>0, <1>2, <2>1 DEF IInv
  <1> QED
    BY <1>1, <1>2, <1>4, <1>5 DEF IInv

\* What settled through is in the table, so the process may continue after it.
LEMMA EndKeeps ==
  ASSUME IInv, NEW s \in Settler, SettleEnd(s)
  PROVE  IInv'
  <1> DEFINE w == settling[s]
  <1>0. /\ Types /\ settling = [t \in Settler |-> settling[t]]
        /\ w.phase \in {"done", "intent"} /\ SettleFits(w) /\ Goes(s, Idle)
        /\ UNCHANGED <<log, floor, epoch, minted, table, effects, running, absorbing>>
        /\ applied' = [cursor |-> w.settled, epoch |-> w.epoch]
    BY DEF IInv, Types, SettleEnd, journal, store
  <1>1. /\ epoch # 0 /\ w.epoch = epoch /\ w.settled \in Nat /\ AllIn(w.settled)
        /\ w.settled <= Len(log) /\ Len(log) \in Nat
    <2>1. /\ epoch # 0 /\ w.epoch = epoch /\ w.settled \in Nat /\ AllIn(w.settled)
          /\ w.ops \in Seq(Entry) /\ w.settled + Len(w.ops) <= Len(log)
      BY <1>0 DEF SettleFits, Recoveries
    <2>2. Len(w.ops) \in Nat /\ Len(log) \in Nat
      BY <1>0, <2>1, TypesOfLog
    <2> QED
      BY <2>1, <2>2
  <1>2. /\ settling' = [t \in Settler |-> settling'[t]] /\ settling'[s] = Idle
        /\ \A t \in Settler : t # s => settling'[t] = settling[t]
    BY <1>0 DEF Goes
  <1>3. Types'
    <2>1. w.settled \in 0..MaxSeq /\ w.epoch \in 0..minted
      BY <1>0, <1>1, EditsBoundsAssumption DEF Types
    <2> HIDE DEF w
    <2> QED
      BY <1>0, <1>2, <2>1 DEF Types
  <1>4. /\ Grows /\ RowsOfHistory' /\ EditsOnce' /\ AbsorbedIsInTable' /\ CompactedIsInTable'
        /\ EffectsInTable'
    BY <1>0, <1>3, NothingWritten
  <1>5. AppliedInLog'
    <2>1. AllIn(applied.cursor)'
      <3>1. \A n : InTable(n)' = InTable(n)
        BY <1>0 DEF InTable
      <3>2. applied'.cursor = w.settled
        BY <1>0
      <3> QED
        BY <1>0, <1>1, <3>1, <3>2 DEF AllIn
    <2>2. applied'.cursor <= Len(log')
      BY <1>0, <1>1
    <2> QED
      BY <2>1, <2>2 DEF AppliedInLog
  <1>6. SettleFits(settling[s])'
    BY <1>2 DEF SettleFits, Idle, Recoveries, Startings
  <1>7. /\ \A t \in Settler : SettleFits(settling[t])'
        /\ \A a \in Absorber : AbsorbFits(absorbing[a])'
    BY <1>0, <1>2, <1>3, <1>4, <1>6, OneMoves
  <1> QED
    BY <1>3, <1>4, <1>5, <1>7 DEF IInv

\* The absorbs of a history that grew, when one moves to where it fits.
LEMMA AbsorbMoves ==
  ASSUME IInv, Types', Grows, settling' = settling, NEW a \in Absorber, NEW next,
         AbsorbGoes(a, next), AbsorbFits(next)'
  PROVE  /\ \A t \in Settler : SettleFits(settling[t])'
         /\ \A b \in Absorber : AbsorbFits(absorbing[b])'
  <1>0. Types /\ absorbing = [b \in Absorber |-> absorbing[b]]
    BY DEF IInv, Types
  <1>1. ASSUME NEW t \in Settler, NEW v, v = settling'[t]
        PROVE  SettleFits(v)
    <2>1. v = settling[t]
      BY <1>1
    <2> QED
      BY <2>1 DEF IInv
  <1>2. \A t \in Settler : SettleFits(settling[t])'
    BY <1>0, <1>1, ManyMove
  <1>3. ASSUME NEW b \in Absorber, NEW v, v = absorbing'[b]
        PROVE  AbsorbFits(v)'
    <2>1. CASE b = a
      <3>1. v = next
        BY <1>0, <1>3, <2>1 DEF AbsorbGoes
      <3> QED
        BY <3>1
    <2>2. CASE b # a
      <3>1. v = absorbing[b]
        BY <1>0, <1>3, <2>2 DEF AbsorbGoes
      <3>2. AbsorbFits(v)
        BY <3>1 DEF IInv
      <3> QED
        BY <1>0, <3>2, AbsorbFitsStays
    <2> QED
      BY <2>1, <2>2
  <1>4. \A b \in Absorber : AbsorbFits(absorbing[b])'
    BY <1>3 DEF AbsorbFits
  <1> QED
    BY <1>2, <1>4
-----------------------------------------------------------------------------
(* The history begins, grows and ends.                                     *)

\* The first commit mints an epoch no store has seen.
LEMMA EpochOpens ==
  ASSUME Types, OpenEpoch
  PROVE  /\ epoch' \in {epoch, minted + 1} /\ epoch' # 0 /\ minted' >= minted
         /\ minted' \in 0..MaxEpoch /\ epoch' \in 0..minted' /\ minted \in Nat
         /\ epoch # 0 => epoch' = epoch /\ minted' = minted
         /\ epoch = 0 => epoch' = minted + 1
  BY EditsBoundsAssumption DEF Types, OpenEpoch

\* A history that begins has everything it had: nothing.
LEMMA EpochGrows ==
  ASSUME IInv, Types', OpenEpoch, UNCHANGED <<log, floor, table, effects, applied>>
  PROVE  /\ Grows
         /\ RowsOfHistory' /\ EditsOnce' /\ EffectsInTable' /\ AppliedInLog'
         /\ AbsorbedIsInTable' /\ CompactedIsInTable'
  <1>0. Types
    BY DEF IInv
  <1>1. Grows
    BY <1>0, TypesOfLog, EpochOpens DEF Grows
  <1>2. RowsOfHistory'
    BY <1>0, EpochOpens DEF IInv, RowsOfHistory
  <1>3. EditsOnce'
    BY DEF IInv, EditsOnce
  <1>4. EffectsInTable' /\ AppliedInLog' /\ AbsorbedIsInTable' /\ CompactedIsInTable'
    BY <1>0, <1>1, EpochOpens, GrowsKeeps
  <1> QED
    BY <1>1, <1>2, <1>3, <1>4

\* A settle begins where the process left off in this history, or finds out.
LEMMA BeginKeeps ==
  ASSUME IInv, NEW s \in Settler, SettleBegin(s)
  PROVE  IInv'
  <1>0. /\ Types /\ settling = [t \in Settler |-> settling[t]] /\ OpenEpoch
        /\ UNCHANGED <<log, floor, table, effects, running, applied, absorbing>>
        /\ Goes(s, IF applied.epoch = epoch' THEN Starting("read", epoch', applied.cursor)
                   ELSE Starting("table", epoch', 0))
    BY DEF IInv, Types, SettleBegin, store
  <1>1. /\ settling' = [t \in Settler |-> settling'[t]]
        /\ settling'[s] = IF applied.epoch = epoch' THEN Starting("read", epoch', applied.cursor)
                          ELSE Starting("table", epoch', 0)
        /\ \A t \in Settler : t # s => settling'[t] = settling[t]
    BY <1>0 DEF Goes
  <1>2. Types'
    BY <1>0, <1>1, EpochOpens DEF Types
  <1>3. /\ Grows
        /\ RowsOfHistory' /\ EditsOnce' /\ EffectsInTable' /\ AppliedInLog'
        /\ AbsorbedIsInTable' /\ CompactedIsInTable'
    BY <1>0, <1>2, EpochGrows
  <1>4. SettleFits(settling[s])'
    <2>0. epoch' # 0
      BY <1>0, EpochOpens
    <2>1. CASE applied.epoch = epoch'
      <3>1. applied' = applied /\ applied.cursor \in Nat
        BY <1>0, EditsBoundsAssumption DEF Types
      <3>2. applied.cursor <= Len(log') /\ AllIn(applied.cursor)'
        BY <1>3, <2>0, <2>1, <3>1 DEF AppliedInLog
      <3>3. /\ settling'[s].phase = "read" /\ settling'[s].epoch = epoch'
            /\ settling'[s].from = applied.cursor
        BY <1>1, <2>1 DEF Starting
      <3>4. AllIn(settling[s].from)'
        BY <3>1, <3>2, <3>3 DEF AllIn
      <3> QED
        BY <2>0, <3>1, <3>2, <3>3, <3>4 DEF SettleFits, Recoveries, Startings
    <2>2. CASE applied.epoch # epoch'
      <3>1. settling'[s].phase = "table" /\ settling'[s].epoch = epoch'
        BY <1>1, <2>2 DEF Starting
      <3> QED
        BY <2>0, <3>1 DEF SettleFits, Recoveries, Startings
    <2> QED
      BY <2>1, <2>2
  <1>5. /\ \A t \in Settler : SettleFits(settling[t])'
        /\ \A a \in Absorber : AbsorbFits(absorbing[a])'
    BY <1>0, <1>1, <1>2, <1>3, <1>4, OneMoves
  <1> QED
    BY <1>2, <1>3, <1>5 DEF IInv

\* An absorb begins with what the process applied of this history.
LEMMA AbsorbBeginKeeps ==
  ASSUME IInv, NEW a \in Absorber, AbsorbBegin(a)
  PROVE  IInv'
  <1>0. /\ Types /\ OpenEpoch
        /\ UNCHANGED <<log, floor, table, effects, running, applied, settling>>
        /\ absorbing' = [absorbing EXCEPT ![a] =
             IF applied.epoch = epoch' THEN [phase |-> "load", through |-> applied.cursor] ELSE Idle]
    BY DEF IInv, AbsorbBegin, AbsorbGoes, absorbs, store
  <1>1. Types'
    <2>1. absorbing' = [b \in Absorber |-> absorbing'[b]]
      BY <1>0 DEF Types
    <2>2. minted' \in 0..MaxEpoch /\ epoch' \in 0..minted' /\ minted' >= minted /\ minted \in Nat
      BY <1>0, EpochOpens
    <2>3. (1..minted) \X Edit \subseteq (1..minted') \X Edit /\ 0..minted \subseteq 0..minted'
      BY <2>2, EditsBoundsAssumption
    <2>4. applied \in [cursor : 0..MaxSeq, epoch : 0..minted']
      BY <1>0, <2>3 DEF Types
    <2> QED
      BY <1>0, <2>1, <2>2, <2>3, <2>4 DEF Types
  <1>2. /\ Grows
        /\ RowsOfHistory' /\ EditsOnce' /\ EffectsInTable' /\ AppliedInLog'
        /\ AbsorbedIsInTable' /\ CompactedIsInTable'
    BY <1>0, <1>1, EpochGrows
  <1>3. ASSUME NEW v, v = IF applied.epoch = epoch'
                         THEN [phase |-> "load", through |-> applied.cursor] ELSE Idle
        PROVE  AbsorbFits(v)'
    <2>0. epoch' # 0 /\ applied' = applied /\ applied.cursor \in Nat
      BY <1>0, EpochOpens, EditsBoundsAssumption DEF Types
    <2>1. CASE applied.epoch = epoch'
      <3>1. applied.cursor <= Len(log') /\ AllIn(applied.cursor)'
        BY <1>2, <2>0, <2>1 DEF AppliedInLog
      <3>2. v.phase = "load" /\ v.through = applied.cursor
        BY <1>3, <2>1
      <3> QED
        BY <2>0, <3>1, <3>2 DEF AbsorbFits, AllIn
    <2>2. CASE applied.epoch # epoch'
      <3>1. v.phase = "idle"
        BY <1>3, <2>2 DEF Idle
      <3> QED
        BY <3>1 DEF AbsorbFits
    <2> QED
      BY <2>1, <2>2
  <1>4. \E v : AbsorbGoes(a, v) /\ AbsorbFits(v)'
    BY <1>0, <1>3 DEF AbsorbGoes
  <1>5. /\ \A t \in Settler : SettleFits(settling[t])'
        /\ \A b \in Absorber : AbsorbFits(absorbing[b])'
    BY <1>0, <1>1, <1>2, <1>4, AbsorbMoves
  <1> QED
    BY <1>1, <1>2, <1>5 DEF IInv

\* The journal's snapshot is read.
LEMMA AbsorbLoadKeeps ==
  ASSUME IInv, NEW a \in Absorber, AbsorbLoad(a)
  PROVE  IInv'
  <1>0. /\ Types /\ absorbing[a].phase = "load" /\ AbsorbFits(absorbing[a])
        /\ UNCHANGED <<log, floor, epoch, minted, table, effects, running, applied, settling>>
        /\ \/ AbsorbGoes(a, Idle)
           \/ AbsorbGoes(a, [phase |-> "append", through |-> absorbing[a].through, cursor |-> Len(log)])
    BY DEF IInv, AbsorbLoad, absorbs, journal, store
  <1>1. Types'
    BY <1>0 DEF Types, AbsorbGoes
  <1>2. /\ Grows /\ RowsOfHistory' /\ EditsOnce' /\ AbsorbedIsInTable' /\ CompactedIsInTable'
        /\ EffectsInTable' /\ AppliedInLog' /\ \A w : AbsorbFits(w) => AbsorbFits(w)'
    BY <1>0, <1>1, NothingWritten
  <1>3. ASSUME NEW v, v = [phase |-> "append", through |-> absorbing[a].through, cursor |-> Len(log)]
        PROVE  AbsorbFits(v)
    <2>1. v.phase = "append" /\ v.through = absorbing[a].through /\ v.cursor \in Nat
      BY <1>0, <1>3, TypesOfLog
    <2> QED
      BY <1>0, <2>1 DEF AbsorbFits
  <1>4. \E v : AbsorbGoes(a, v) /\ AbsorbFits(v)'
    BY <1>0, <1>2, <1>3, IdleFits
  <1>5. /\ \A t \in Settler : SettleFits(settling[t])'
        /\ \A b \in Absorber : AbsorbFits(absorbing[b])'
    BY <1>0, <1>1, <1>2, <1>4, AbsorbMoves
  <1> QED
    BY <1>1, <1>2, <1>5 DEF IInv

\* The journal drops what the table has.
LEMMA AbsorbCompactKeeps ==
  ASSUME IInv, NEW a \in Absorber, AbsorbCompact(a)
  PROVE  IInv'
  <1> DEFINE through == absorbing[a].through
  <1>0. /\ Types /\ absorbing[a].phase = "compact" /\ AbsorbFits(absorbing[a])
        /\ UNCHANGED <<log, epoch, minted, table, effects, running, applied, settling>>
        /\ floor' = IF through \in floor..Len(log) THEN through ELSE floor
        /\ AbsorbGoes(a, Idle)
    BY DEF IInv, AbsorbCompact, absorbs, journal, store
  <1>1. through \in Nat /\ through <= Len(log) /\ AllIn(through) /\ Len(log) \in Nat
    BY <1>0, TypesOfLog DEF AbsorbFits
  <1>2. Types'
    <2>1. floor' \in 0..Len(log')
      BY <1>0, <1>1 DEF Types
    <2>2. absorbing' = [b \in Absorber |-> absorbing'[b]]
      BY <1>0 DEF Types, AbsorbGoes
    <2> QED
      BY <1>0, <2>1, <2>2 DEF Types
  <1>3. \A n : InTable(n)' = InTable(n)
    BY <1>0 DEF InTable
  <1>4. Grows
    BY <1>0, TypesOfLog DEF Grows
  <1>5. RowsOfHistory' /\ EditsOnce' /\ EffectsInTable' /\ AppliedInLog' /\ AbsorbedIsInTable'
    BY <1>0, <1>3
       DEF IInv, RowsOfHistory, EditsOnce, EffectsInTable, AppliedInLog, AllIn, AbsorbedIsInTable
  <1>6. CompactedIsInTable'
    BY <1>0, <1>1, <1>3 DEF IInv, CompactedIsInTable, AllIn
  <1>7. AbsorbFits(Idle)'
    BY DEF AbsorbFits, Idle
  <1>8. /\ \A t \in Settler : SettleFits(settling[t])'
        /\ \A b \in Absorber : AbsorbFits(absorbing[b])'
    BY <1>0, <1>2, <1>4, <1>7, AbsorbMoves
  <1> QED
    BY <1>2, <1>5, <1>6, <1>8 DEF IInv

\* The record that is appended absorbs only what the table has.
LEMMA AbsorbAppendKeeps ==
  ASSUME IInv, NEW a \in Absorber, AbsorbAppend(a)
  PROVE  IInv'
  <1> DEFINE w == absorbing[a]
             op == Absorbed(w.through, w.cursor)
             next == [phase |-> "compact", through |-> op.through]
  <1>0. /\ Types /\ w.phase = "append" /\ AbsorbFits(w)
        /\ UNCHANGED <<floor, table, effects, running, applied, settling>>
        /\ \/ /\ AbsorbGoes(a, next) \/ AbsorbGoes(a, Idle)
              /\ UNCHANGED <<log, epoch, minted>>
           \/ Len(log) < MaxSeq /\ log' = Append(log, op) /\ OpenEpoch /\ AbsorbGoes(a, next)
    BY DEF IInv, AbsorbAppend, absorbs, store
  <1>1. /\ epoch # 0 /\ w.through \in Nat /\ w.through <= Len(log) /\ AllIn(w.through)
        /\ op \in Entry /\ op.edit = Nothing /\ op.through = w.through /\ Len(log) \in Nat
        /\ log \in Seq(Entry)
    <2>1. epoch # 0 /\ w.through \in Nat /\ w.through <= Len(log) /\ AllIn(w.through) /\ w.cursor \in Nat
      BY <1>0 DEF AbsorbFits
    <2>2. w.cursor + 1 \in Nat
      BY <2>1
    <2>3. op \in Entry /\ op.edit = Nothing /\ op.through = w.through
      BY <2>1, <2>2 DEF Absorbed, Entry
    <2> QED
      BY <1>0, <2>1, <2>3, TypesOfLog DEF Types
  <1>2. ASSUME NEW v, v = next
        PROVE  AbsorbFits(v)
    <2>1. v.phase = "compact" /\ v.through = w.through
      BY <1>1, <1>2
    <2> QED
      BY <1>1, <2>1 DEF AbsorbFits
  <1>3. CASE UNCHANGED <<log, epoch, minted>> /\ (AbsorbGoes(a, next) \/ AbsorbGoes(a, Idle))
    <2>1. Types'
      BY <1>0, <1>3 DEF Types, AbsorbGoes
    <2>2. /\ Grows /\ RowsOfHistory' /\ EditsOnce' /\ AbsorbedIsInTable' /\ CompactedIsInTable'
          /\ EffectsInTable' /\ AppliedInLog' /\ \A v : AbsorbFits(v) => AbsorbFits(v)'
      BY <1>0, <1>3, <2>1, NothingWritten
    <2>3. \E v : AbsorbGoes(a, v) /\ AbsorbFits(v)'
      BY <1>2, <1>3, <2>2, IdleFits
    <2>4. /\ \A t \in Settler : SettleFits(settling[t])'
          /\ \A b \in Absorber : AbsorbFits(absorbing[b])'
      BY <1>0, <2>1, <2>2, <2>3, AbsorbMoves
    <2> QED
      BY <2>1, <2>2, <2>4 DEF IInv
  <1>4. CASE Len(log) < MaxSeq /\ log' = Append(log, op) /\ OpenEpoch /\ AbsorbGoes(a, next)
    <2>0. epoch' = epoch /\ minted' = minted
      BY <1>0, <1>1, <1>4, EpochOpens
    <2> HIDE DEF op, next
    <2>1. /\ log' \in Seq(Entry) /\ Len(log') = Len(log) + 1 /\ log'[Len(log) + 1] = op
          /\ \A n \in 1..Len(log) : log'[n] = log[n]
      BY <1>1, <1>4
    <2>2. Types'
      <3>1. Len(log') <= MaxSeq /\ floor' \in 0..Len(log')
        BY <1>0, <1>1, <1>4, <2>1, EditsBoundsAssumption DEF Types
      <3> QED
        BY <1>0, <1>4, <2>0, <2>1, <3>1 DEF Types, AbsorbGoes
    <2>3. Grows
      BY <1>0, <1>1, <2>0, <2>1, TypesOfLog DEF Grows
    <2>4. \A n \in 1..Len(log') : n \in 1..Len(log) \/ n = Len(log) + 1
      BY <1>1, <2>1
    <2>5. RowsOfHistory'
      BY <1>0, <1>1, <2>0 DEF IInv, RowsOfHistory
    <2>6. EditsOnce'
      <3> SUFFICES ASSUME NEW m \in 1..Len(log'), NEW n \in 1..Len(log'),
                          log'[m].edit = log'[n].edit, log'[m].edit # Nothing
                   PROVE  m = n
        BY DEF EditsOnce
      <3>1. m \in 1..Len(log) /\ n \in 1..Len(log)
        BY <1>1, <2>1, <2>4
      <3> QED
        BY <2>1, <3>1 DEF IInv, EditsOnce
    <2>7. EffectsInTable' /\ AppliedInLog' /\ AbsorbedIsInTable' /\ CompactedIsInTable'
      <3>1. \A n \in 1..Len(log') : n \notin 1..Len(log) =>
              \E k \in Nat : log'[n].through = k /\ k <= Len(log) /\ AllIn(k)
        BY <1>1, <2>1, <2>4
      <3>2. minted \in Nat
        BY <1>0, EditsBoundsAssumption DEF Types
      <3> QED
        BY <1>0, <2>0, <2>2, <2>3, <3>1, <3>2, GrowsKeeps
    <2>8. \E v : AbsorbGoes(a, v) /\ AbsorbFits(v)'
      BY <1>0, <1>2, <1>4, <2>2, <2>3, AbsorbFitsStays
    <2>9. /\ \A t \in Settler : SettleFits(settling[t])'
          /\ \A b \in Absorber : AbsorbFits(absorbing[b])'
      BY <1>0, <2>2, <2>3, <2>8, AbsorbMoves
    <2> QED
      BY <2>2, <2>5, <2>6, <2>7, <2>9 DEF IInv
  <1> HIDE DEF next, op
  <1> QED
    BY <1>0, <1>3, <1>4

\* An edit is committed once, and absorbs nothing.
LEMMA CommitKeeps ==
  ASSUME IInv, NEW e \in Edit, CommitEdit(e)
  PROVE  IInv'
  <1>0. /\ Types /\ Len(log) < MaxSeq /\ OpenEpoch /\ log' = Append(log, EditAt(e))
        /\ \A n \in 1..Len(log) : log[n].edit # e
        /\ UNCHANGED <<floor, table, effects, running, applied, settling, absorbing>>
        /\ Len(log) \in Nat /\ log \in Seq(Entry) /\ minted \in Nat
    BY TypesOfLog, EditsBoundsAssumption DEF IInv, Types, CommitEdit, store
  <1>1. EditAt(e) \in Entry /\ EditAt(e).edit = e /\ EditAt(e).through = 0
    BY DEF EditAt, Entry
  <1>2. /\ log' \in Seq(Entry) /\ Len(log') = Len(log) + 1 /\ log'[Len(log) + 1] = EditAt(e)
        /\ \A n \in 1..Len(log) : log'[n] = log[n]
    BY <1>0, <1>1
  <1>3. /\ \A n \in 1..Len(log') : n \in 1..Len(log) \/ n = Len(log) + 1
        /\ Len(log) <= Len(log')
    BY <1>0, <1>2
  <1>4. Types'
    <2>1. Len(log') <= MaxSeq /\ floor' \in 0..Len(log')
      BY <1>0, <1>2, EditsBoundsAssumption DEF Types
    <2>2. minted' \in 0..MaxEpoch /\ epoch' \in 0..minted' /\ minted' >= minted
      BY <1>0, EpochOpens
    <2>3. (1..minted) \X Edit \subseteq (1..minted') \X Edit /\ 0..minted \subseteq 0..minted'
      BY <1>0, <2>2, EditsBoundsAssumption
    <2>4. applied \in [cursor : 0..MaxSeq, epoch : 0..minted']
      BY <1>0, <2>3 DEF Types
    <2> QED
      BY <1>0, <1>2, <2>1, <2>2, <2>3, <2>4 DEF Types
  <1>5. Grows
    BY <1>0, <1>2, <1>3, EpochOpens, TypesOfLog DEF Grows
  <1>6. RowsOfHistory'
    BY <1>0, EpochOpens DEF IInv, RowsOfHistory
  <1>7. EditsOnce'
    <2> SUFFICES ASSUME NEW m \in 1..Len(log'), NEW n \in 1..Len(log'),
                        log'[m].edit = log'[n].edit, log'[m].edit # Nothing
                 PROVE  m = n
      BY DEF EditsOnce
    <2>1. m = Len(log) + 1 <=> n = Len(log) + 1
      BY <1>0, <1>1, <1>2, <1>3
    <2> QED
      BY <1>2, <1>3, <2>1 DEF IInv, EditsOnce
  <1>8. EffectsInTable' /\ AppliedInLog' /\ AbsorbedIsInTable' /\ CompactedIsInTable'
    <2>1. AllIn(0)
      BY DEF AllIn
    <2>2. \A n \in 1..Len(log') : n \notin 1..Len(log) =>
            \E k \in Nat : log'[n].through = k /\ k <= Len(log) /\ AllIn(k)
      BY <1>0, <1>1, <1>2, <1>3, <2>1
    <2> QED
      BY <1>0, <1>4, <1>5, <2>2, EpochOpens, GrowsKeeps
  <1>9. ASSUME NEW t \in Settler, NEW v, v = settling'[t]
        PROVE  SettleFits(v)
    <2>1. v = settling[t]
      BY <1>0, <1>9
    <2> QED
      BY <2>1 DEF IInv
  <1>10. \A t \in Settler : SettleFits(settling[t])'
    BY <1>0, <1>4, <1>5, <1>9, ManyMove
  <1>11. \A a \in Absorber : AbsorbFits(absorbing[a])'
    <2> SUFFICES ASSUME NEW a \in Absorber
                 PROVE  AbsorbFits(absorbing[a])'
      OBVIOUS
    <2>1. \A v : v = absorbing[a] => AbsorbFits(v)
      BY DEF IInv
    <2>2. \A v : v = absorbing[a] => AbsorbFits(v)'
      BY <1>0, <1>4, <1>5, <2>1, AbsorbFitsStays
    <2> QED
      BY <1>0, <2>2 DEF AbsorbFits
  <1> QED
    BY <1>4, <1>6, <1>7, <1>8, <1>10, <1>11 DEF IInv

\* Nothing is left of a history the operator ended: its rows are rebuilt and
\* nothing of it is in progress.
LEMMA ResetKeeps ==
  ASSUME Policy, IInv, ResetJournal
  PROVE  IInv'
  <1>0. /\ Types /\ log' = <<>> /\ floor' = 0 /\ epoch' = 0
        /\ table' = [r \in Row |-> [at |-> 0, epoch |-> 0]]
        /\ UNCHANGED <<minted, effects, running, applied, settling, absorbing>>
        /\ \A s \in Settler : settling[s] = Idle
        /\ \A a \in Absorber : absorbing[a] = Idle
    BY DEF IInv, Policy, ResetJournal
  <1>1. Len(log') = 0 /\ log' \in Seq(Entry) /\ DOMAIN log' = 1..0
    BY <1>0
  <1>2. Types'
    <2>1. table' \in [Row -> [at : 0..MaxSeq, epoch : 0..MaxEpoch]]
      BY <1>0, EditsBoundsAssumption
    <2> QED
      BY <1>0, <1>1, <2>1, EditsBoundsAssumption DEF Types
  <1>3. RowsOfHistory' /\ EditsOnce' /\ AppliedInLog' /\ AbsorbedIsInTable' /\ CompactedIsInTable'
    BY <1>0, <1>1 DEF RowsOfHistory, EditsOnce, AppliedInLog, AbsorbedIsInTable, CompactedIsInTable
  <1>4. EffectsInTable'
    BY <1>0 DEF EffectsInTable, Types
  <1>5. /\ \A s \in Settler : SettleFits(settling[s])'
        /\ \A a \in Absorber : AbsorbFits(absorbing[a])'
    BY <1>0 DEF SettleFits, AbsorbFits, Idle, Recoveries, Startings
  <1> QED
    BY <1>2, <1>3, <1>4, <1>5 DEF IInv

\* A process that ends remembers nothing.
LEMMA CrashKeeps ==
  ASSUME IInv, Crash
  PROVE  IInv'
  <1>0. /\ Types /\ running' = {} /\ applied' = NotApplied
        /\ settling' = [s \in Settler |-> Idle] /\ absorbing' = [a \in Absorber |-> Idle]
        /\ UNCHANGED <<log, floor, epoch, minted, table, effects>>
    BY DEF IInv, Crash, journal, store
  <1>1. Types'
    <2>1. applied' \in [cursor : 0..MaxSeq, epoch : 0..minted']
      BY <1>0, EditsBoundsAssumption DEF Types, NotApplied
    <2>2. /\ settling' = [s \in Settler |-> settling'[s]]
          /\ absorbing' = [a \in Absorber |-> absorbing'[a]]
      BY <1>0
    <2> QED
      BY <1>0, <2>1, <2>2 DEF Types
  <1>2. RowsOfHistory' /\ EditsOnce' /\ AbsorbedIsInTable' /\ CompactedIsInTable' /\ EffectsInTable'
    BY <1>0, <1>1, NothingWritten
  <1>3. AppliedInLog'
    BY <1>0 DEF AppliedInLog, NotApplied
  <1>4. /\ \A s \in Settler : SettleFits(settling[s])'
        /\ \A a \in Absorber : AbsorbFits(absorbing[a])'
    BY <1>0 DEF SettleFits, AbsorbFits, Idle, Recoveries, Startings
  <1> QED
    BY <1>1, <1>2, <1>3, <1>4 DEF IInv
-----------------------------------------------------------------------------
(* The theorems.                                                           *)

LEMMA InitIInv == Init => IInv
  <1> SUFFICES ASSUME Init
               PROVE  IInv
    OBVIOUS
  <1>1. /\ log = <<>> /\ Len(log) = 0 /\ log \in Seq(Entry) /\ DOMAIN log = 1..0
        /\ floor = 0 /\ epoch = 0
        /\ settling = [s \in Settler |-> Idle] /\ absorbing = [a \in Absorber |-> Idle]
        /\ effects = {} /\ table = [r \in Row |-> [at |-> 0, epoch |-> 0]]
    BY DEF Init
  <1>2. Types
    <2>1. applied \in [cursor : 0..MaxSeq, epoch : 0..minted]
      BY EditsBoundsAssumption DEF Init, NotApplied
    <2>2. table \in [Row -> [at : 0..MaxSeq, epoch : 0..MaxEpoch]]
      BY <1>1, EditsBoundsAssumption
    <2>3. /\ settling = [s \in Settler |-> settling[s]]
          /\ absorbing = [a \in Absorber |-> absorbing[a]]
      BY <1>1
    <2> QED
      BY <1>1, <2>1, <2>2, <2>3, EditsBoundsAssumption DEF Init, Types
  <1>3. /\ RowsOfHistory /\ EditsOnce /\ EffectsInTable /\ AppliedInLog
        /\ AbsorbedIsInTable /\ CompactedIsInTable
    BY <1>1 DEF RowsOfHistory, EditsOnce, EffectsInTable, AppliedInLog, AbsorbedIsInTable,
                CompactedIsInTable
  <1>4. /\ \A s \in Settler : SettleFits(settling[s])
        /\ \A a \in Absorber : AbsorbFits(absorbing[a])
    BY <1>1, IdleFits
  <1> QED
    BY <1>2, <1>3, <1>4 DEF IInv

LEMMA NextIInv == Policy /\ IInv /\ [Next]_vars => IInv'
  <1> SUFFICES ASSUME Policy, IInv, [Next]_vars
               PROVE  IInv'
    OBVIOUS
  <1>1. ASSUME NEW e \in Edit, CommitEdit(e)
        PROVE  IInv'
    BY <1>1, CommitKeeps
  <1>2. ASSUME NEW s \in Settler, SettleBegin(s) \/ Settle(s) \/ SettleFault(s)
        PROVE  IInv'
    BY <1>2, BeginKeeps, StartingKeeps, ReadKeeps, IntentKeeps, ApplyKeeps, RecordKeeps, EndKeeps,
       FaultKeeps DEF Settle
  <1>3. ASSUME NEW a \in Absorber, AbsorbBegin(a) \/ Absorb(a)
        PROVE  IInv'
    BY <1>3, AbsorbBeginKeeps, AbsorbLoadKeeps, AbsorbAppendKeeps, AbsorbCompactKeeps DEF Absorb
  <1>4. CASE ResetJournal
    BY <1>4, ResetKeeps
  <1>5. CASE Crash
    BY <1>5, CrashKeeps
  <1>6. CASE UNCHANGED vars
    <2>1. Types'
      BY <1>6 DEF IInv, Types, vars, journal, store
    <2>2. UNCHANGED <<log, floor, epoch, minted, table, effects, applied, settling, absorbing>>
      BY <1>6 DEF vars, journal, store
    <2>3. /\ RowsOfHistory' /\ EditsOnce' /\ AbsorbedIsInTable' /\ CompactedIsInTable'
          /\ EffectsInTable' /\ AppliedInLog'
      BY <2>1, <2>2, NothingWritten
    <2>4. \A n : InTable(n)' = InTable(n)
      BY <2>2 DEF InTable
    <2>5. /\ \A s \in Settler : SettleFits(settling[s])'
          /\ \A a \in Absorber : AbsorbFits(absorbing[a])'
      BY <2>2, <2>4 DEF IInv, SettleFits, AbsorbFits, AllIn
    <2> QED
      BY <2>1, <2>3, <2>5 DEF IInv
  <1> QED
    BY <1>1, <1>2, <1>3, <1>4, <1>5, <1>6 DEF Next

\* Whatever settles and absorbs overlap, fail or are repeated after a crash:
\* the table has what was settled, in every step of them.
THEOREM EditsIInv ==
  ASSUME Policy
  PROVE  Spec => []IInv
  <1>1. IInv /\ [Next]_vars => IInv'
    BY NextIInv
  <1> QED
    BY <1>1, InitIInv, PTL DEF Spec

\* Every variable holds what its table or map can hold.
THEOREM EditsTypeOK ==
  ASSUME Policy
  PROVE  Spec => []TypeOK
  <1>1. IInv => TypeOK
    <2> SUFFICES ASSUME IInv
                 PROVE  TypeOK
      OBVIOUS
    <2>1. effects \cup running \subseteq (1..MaxEpoch) \X Edit /\ epoch \in 0..minted
      BY EditsBoundsAssumption DEF IInv, Types
    <2>2. applied \in [cursor : 0..MaxSeq, epoch : 0..MaxEpoch]
      BY EditsBoundsAssumption DEF IInv, Types
    <2>3. \A s \in Settler : settling[s].phase \in
            {"idle", "table", "cursor", "floor", "read", "intent", "join", "apply", "record", "done"}
      BY DEF IInv, SettleFits, Recoveries, Startings
    <2>4. \A a \in Absorber : absorbing[a].phase \in {"idle", "load", "append", "compact"}
      BY DEF IInv, AbsorbFits
    <2> QED
      BY <2>1, <2>2, <2>3, <2>4 DEF IInv, Types, TypeOK
  <1> QED
    BY <1>1, EditsIInv, PTL

\* An edit the replicas were told to drop is in the table.
THEOREM AbsorbedStays ==
  ASSUME Policy
  PROVE  Spec => []AbsorbedIsInTable
  <1>1. IInv => AbsorbedIsInTable
    BY DEF IInv
  <1> QED
    BY <1>1, EditsIInv, PTL

\* Recovery's compaction never drops an operation the table does not show.
THEOREM CompactedStays ==
  ASSUME Policy
  PROVE  Spec => []CompactedIsInTable
  <1>1. IInv => CompactedIsInTable
    BY DEF IInv
  <1> QED
    BY <1>1, EditsIInv, PTL

\* Where the process continues, everything before is in the table.
THEOREM AppliedStays ==
  ASSUME Policy
  PROVE  Spec => []AppliedIsInTable
  <1>1. IInv => AppliedIsInTable
    BY TypesOfLog DEF IInv, AppliedInLog, AppliedIsInTable, AllIn
  <1> QED
    BY <1>1, EditsIInv, PTL
-----------------------------------------------------------------------------
(* One settle at a time never starts below the floor: what it is at is never  *)
(* behind what the process applied, and no absorb compacts past that.         *)

OneSettler == \A s, t \in Settler : s = t

\* As far as the process applied of this history, or else as the floor.
Reaches(k) == k \in Nat /\ k >= IF applied.epoch = epoch THEN applied.cursor ELSE floor

\* A settle looks for where to start only while nothing was applied.
Ahead(w) ==
  /\ w.phase \in {"table", "cursor", "floor"} => applied.epoch # epoch
  /\ w.phase = "read" => Reaches(w.from)
  /\ w.phase \in Recoveries => Reaches(w.settled)

\* An absorb names what the process applied.
Behind(w) == w.phase # "idle" => applied.epoch = epoch /\ w.through <= applied.cursor

FloorInv ==
  /\ NeverAsksForGone
  /\ \A s \in Settler : Ahead(settling[s])
  /\ \A a \in Absorber : Behind(absorbing[a])

LEMMA TypesOfCursors ==
  ASSUME Types
  PROVE  /\ floor \in Nat /\ epoch \in Nat /\ minted \in Nat
         /\ applied.cursor \in Nat /\ applied.epoch \in Nat /\ applied.epoch <= minted
  <1>1. Len(log) \in Nat
    BY TypesOfLog
  <1>2. applied.cursor \in 0..MaxSeq /\ applied.epoch \in 0..minted
    BY DEF Types
  <1> QED
    BY <1>1, <1>2, EditsBoundsAssumption DEF Types

\* The one settle moves forward, in a process that goes on.
LEMMA SettleStaysAhead ==
  ASSUME FloorInv, OneSettler, UNCHANGED <<floor, epoch, applied, absorbing>>, NEW s \in Settler,
         Ahead(settling'[s])
  PROVE  FloorInv'
  <1>1. NeverAsksForGone' /\ \A a \in Absorber : Behind(absorbing[a])'
    BY DEF FloorInv, NeverAsksForGone, Behind
  <1>2. \A t \in Settler : Ahead(settling[t])'
    BY DEF OneSettler, Ahead, Reaches, Recoveries
  <1> QED
    BY <1>1, <1>2 DEF FloorInv

LEMMA SettleKeepsFloor ==
  ASSUME IInv, FloorInv, OneSettler, NEW s \in Settler,
         Settle(s) \/ SettleFault(s), ~ SettleEnd(s)
  PROVE  FloorInv'
  <1> DEFINE w == settling[s]
  <1>0. /\ Types /\ settling = [t \in Settler |-> settling[t]] /\ Ahead(w) /\ SettleFits(w)
    BY DEF IInv, FloorInv, Types
  <1>1. /\ UNCHANGED <<floor, epoch, applied, absorbing>>
    BY DEF Settle, SettleTable, SettleCursor, SettleFloor, SettleRead, SettleIntent, SettleApply,
           SettleRecord, SettleFault, settles, journal
  <1>2. CASE SettleTable(s) \/ SettleCursor(s)
    <2>1. applied.epoch # epoch
      BY <1>0, <1>2 DEF Ahead, SettleTable, SettleCursor
    <2>2. settling'[s].phase \in {"idle", "cursor", "floor"}
      <3>1. CASE SettleTable(s)
        <4>1. settling'[s] = Starting("cursor", w.epoch, TableRevision)
          BY <1>0, <3>1 DEF SettleTable, Goes
        <4> QED
          BY <4>1 DEF Starting
      <3>2. CASE SettleCursor(s)
        <4>1. \/ settling'[s] = Idle
              \/ settling'[s] = Starting("floor", w.epoch, w.from)
          BY <1>0, <3>2 DEF SettleCursor, Goes
        <4> QED
          BY <4>1 DEF Idle, Starting
      <3> QED
        BY <1>2, <3>1, <3>2
    <2>3. Ahead(settling'[s])
      BY <2>1, <2>2 DEF Ahead, Recoveries
    <2> QED
      BY <1>1, <2>3, SettleStaysAhead
  <1>3. CASE SettleFloor(s)
    <2>1. settling'[s] = Starting("read", w.epoch, floor)
      BY <1>0, <1>3 DEF SettleFloor, Goes
    <2>2. applied.epoch # epoch
      BY <1>0, <1>3 DEF Ahead, SettleFloor
    <2>3. Reaches(floor)
      BY <1>0, <2>2, TypesOfCursors DEF Reaches
    <2>4. Ahead(settling'[s])
      BY <2>1, <2>3 DEF Ahead, Starting, Recoveries
    <2> QED
      BY <1>1, <2>4, SettleStaysAhead
  <1>4. CASE SettleRead(s)
    <2>1. \/ settling'[s] = Idle
          \/ \E ops : settling'[s] = Recovering("intent", w.epoch, w.from, ops)
      BY <1>0, <1>4 DEF SettleRead, Goes
    <2>2. Reaches(w.from)
      BY <1>0, <1>4 DEF Ahead, SettleRead
    <2>3. CASE settling'[s] = Idle
      <3>1. settling'[s].phase = "idle"
        BY <2>3 DEF Idle
      <3>2. Ahead(settling'[s])
        BY <3>1 DEF Ahead, Recoveries
      <3> QED
        BY <1>1, <3>2, SettleStaysAhead
    <2>4. CASE \E ops : settling'[s] = Recovering("intent", w.epoch, w.from, ops)
      <3>1. settling'[s].phase = "intent" /\ settling'[s].settled = w.from
        BY <2>4 DEF Recovering
      <3>2. Ahead(settling'[s])
        BY <2>2, <3>1 DEF Ahead, Recoveries
      <3> QED
        BY <1>1, <3>2, SettleStaysAhead
    <2> QED
      BY <2>1, <2>3, <2>4
  <1>5. CASE SettleIntent(s) \/ SettleApply(s) \/ SettleRecord(s) \/ SettleFault(s)
    <2>1. Reaches(w.settled) /\ w.phase \in Recoveries
      BY <1>0, <1>5 DEF Ahead, SettleIntent, SettleApply, SettleRecord, SettleFault, Recoveries
    <2>2. Reaches(w.settled + 1)
      BY <1>0, <2>1, TypesOfCursors DEF Reaches
    <2>3. \/ settling'[s] = w
          \/ \E phase \in Recoveries, k \in {w.settled, w.settled + 1} : \E ops :
               settling'[s] = Recovering(phase, w.epoch, k, ops)
      <3>1. CASE SettleIntent(s)
        BY <1>0, <3>1 DEF SettleIntent, Settled, Turns, Goes, Recoveries
      <3>2. CASE SettleApply(s)
        BY <1>0, <3>2 DEF SettleApply, Turns, Goes, Recoveries
      <3>3. CASE SettleRecord(s)
        BY <1>0, <3>3 DEF SettleRecord, Settled, Recoveries
      <3>4. CASE SettleFault(s)
        BY <1>0, <3>4 DEF SettleFault, Settled, Recoveries
      <3> QED
        BY <1>5, <3>1, <3>2, <3>3, <3>4
    <2>4. Ahead(settling'[s])
      <3>1. CASE settling'[s] = w
        BY <1>0, <3>1
      <3>2. CASE \E phase \in Recoveries, k \in {w.settled, w.settled + 1} : \E ops :
                   settling'[s] = Recovering(phase, w.epoch, k, ops)
        BY <2>1, <2>2, <3>2 DEF Ahead, Recovering, Recoveries
      <3> QED
        BY <2>3, <3>1, <3>2
    <2> QED
      BY <1>1, <2>4, SettleStaysAhead
  <1> QED
    BY <1>2, <1>3, <1>4, <1>5 DEF Settle

\* The end of the one settle is at or after what an absorb may compact to.
LEMMA EndKeepsFloor ==
  ASSUME IInv, FloorInv, OneSettler, NEW s \in Settler, SettleEnd(s)
  PROVE  FloorInv'
  <1> DEFINE w == settling[s]
  <1>0. /\ Types /\ settling = [t \in Settler |-> settling[t]] /\ Ahead(w) /\ SettleFits(w)
        /\ w.phase \in {"done", "intent"} /\ settling' = [settling EXCEPT ![s] = Idle]
        /\ UNCHANGED <<floor, epoch, absorbing>>
        /\ applied'.cursor = w.settled /\ applied'.epoch = w.epoch
    BY DEF IInv, FloorInv, Types, SettleEnd, Goes, journal
  <1>1. Reaches(w.settled) /\ w.epoch = epoch /\ epoch # 0
    BY <1>0 DEF Ahead, SettleFits, Recoveries
  <1>2. /\ floor \in Nat /\ applied.cursor \in Nat /\ w.settled \in Nat
        /\ applied.epoch = epoch => w.settled >= applied.cursor
        /\ applied.epoch # epoch => w.settled >= floor
    BY <1>0, <1>1, TypesOfCursors DEF Reaches
  <1>3. NeverAsksForGone'
    <2>1. w.settled >= floor
      BY <1>1, <1>2 DEF FloorInv, NeverAsksForGone
    <2> QED
      BY <1>0, <2>1 DEF NeverAsksForGone
  <1>4. \A t \in Settler : Ahead(settling[t])'
    <2>1. \A t \in Settler : settling'[t] = Idle
      BY <1>0 DEF OneSettler
    <2> QED
      BY <2>1 DEF Ahead, Idle, Recoveries
  <1>5. \A a \in Absorber : Behind(absorbing[a])'
    <2> SUFFICES ASSUME NEW a \in Absorber, absorbing[a].phase # "idle"
                 PROVE  absorbing[a].through <= w.settled
      BY <1>0, <1>1 DEF Behind
    <2>1. absorbing[a].through \in Nat /\ absorbing[a].through <= applied.cursor
          /\ applied.epoch = epoch
      BY DEF FloorInv, Behind, IInv, AbsorbFits
    <2> QED
      BY <1>2, <2>1
  <1> QED
    BY <1>3, <1>4, <1>5 DEF FloorInv

\* While a history has not begun nothing is in progress.
LEMMA NothingBeforeEpoch ==
  ASSUME IInv, epoch = 0
  PROVE  /\ \A s \in Settler : settling[s].phase = "idle"
         /\ \A a \in Absorber : absorbing[a].phase = "idle"
  BY DEF IInv, SettleFits, AbsorbFits

\* What was applied of no history is of none that begins.
LEMMA OpenKeepsFloor ==
  ASSUME IInv, FloorInv, OpenEpoch, UNCHANGED <<floor, applied>>
  PROVE  /\ NeverAsksForGone'
         /\ \A w : Ahead(w) /\ (epoch = 0 => w.phase = "idle") => Ahead(w)'
         /\ \A w : Behind(w) /\ (epoch = 0 => w.phase = "idle") => Behind(w)'
  <1>0. Types
    BY DEF IInv
  <1>1. CASE epoch # 0
    <2>1. epoch' = epoch
      BY <1>0, <1>1, EpochOpens
    <2> QED
      BY <2>1 DEF FloorInv, NeverAsksForGone, Ahead, Behind, Reaches
  <1>2. CASE epoch = 0
    <2>1. applied.epoch # epoch'
      BY <1>0, <1>2, EpochOpens, TypesOfCursors
    <2> QED
      BY <1>2, <2>1 DEF NeverAsksForGone, Ahead, Behind, Recoveries
  <1> QED
    BY <1>1, <1>2

\* A settle begins where the process left off.
LEMMA BeginKeepsFloor ==
  ASSUME IInv, FloorInv, OneSettler, NEW s \in Settler, SettleBegin(s)
  PROVE  FloorInv'
  <1>0. /\ Types /\ settling = [t \in Settler |-> settling[t]] /\ OpenEpoch
        /\ UNCHANGED <<floor, applied, absorbing>>
        /\ settling'[s] = IF applied.epoch = epoch' THEN Starting("read", epoch', applied.cursor)
                          ELSE Starting("table", epoch', 0)
    BY DEF IInv, Types, SettleBegin, Goes
  <1>1. /\ NeverAsksForGone'
        /\ \A w : Behind(w) /\ (epoch = 0 => w.phase = "idle") => Behind(w)'
    BY <1>0, OpenKeepsFloor
  <1>2. \A a \in Absorber : Behind(absorbing[a])'
    <2>1. \A a \in Absorber : \A v : v = absorbing[a] => Behind(v)'
      BY <1>1, NothingBeforeEpoch DEF FloorInv
    <2> QED
      BY <1>0, <2>1 DEF Behind
  <1>3. Ahead(settling[s])'
    <2>1. CASE applied.epoch = epoch'
      <3>1. settling'[s].phase = "read" /\ settling'[s].from = applied.cursor
        BY <1>0, <2>1 DEF Starting
      <3>2. applied.cursor \in Nat
        BY <1>0, TypesOfCursors
      <3> QED
        BY <1>0, <2>1, <3>1, <3>2 DEF Ahead, Reaches, Recoveries
    <2>2. CASE applied.epoch # epoch'
      <3>1. settling'[s].phase = "table"
        BY <1>0, <2>2 DEF Starting
      <3> QED
        BY <1>0, <2>2, <3>1 DEF Ahead, Recoveries
    <2> QED
      BY <2>1, <2>2
  <1>4. \A t \in Settler : Ahead(settling[t])'
    BY <1>3 DEF OneSettler
  <1> QED
    BY <1>1, <1>2, <1>4 DEF FloorInv

\* An edit is committed while settles and absorbs go on.
LEMMA CommitKeepsFloor ==
  ASSUME IInv, FloorInv, NEW e \in Edit, CommitEdit(e)
  PROVE  FloorInv'
  <1>0. OpenEpoch /\ UNCHANGED <<floor, applied, settling, absorbing>>
    BY DEF CommitEdit
  <1>1. /\ NeverAsksForGone'
        /\ \A w : Ahead(w) /\ (epoch = 0 => w.phase = "idle") => Ahead(w)'
        /\ \A w : Behind(w) /\ (epoch = 0 => w.phase = "idle") => Behind(w)'
    BY <1>0, OpenKeepsFloor
  <1>2. \A a \in Absorber : Behind(absorbing[a])'
    <2>1. \A a \in Absorber : \A v : v = absorbing[a] => Behind(v)'
      BY <1>1, NothingBeforeEpoch DEF FloorInv
    <2> QED
      BY <1>0, <2>1 DEF Behind
  <1>3. \A t \in Settler : Ahead(settling[t])'
    <2>1. \A t \in Settler : \A v : v = settling[t] => Ahead(v)'
      BY <1>1, NothingBeforeEpoch DEF FloorInv
    <2> QED
      BY <1>0, <2>1 DEF Ahead, Reaches
  <1> QED
    BY <1>1, <1>2, <1>3 DEF FloorInv

\* The absorbs compact to what they began with, which is applied.
LEMMA AbsorbKeepsFloor ==
  ASSUME IInv, FloorInv, NEW a \in Absorber, AbsorbBegin(a) \/ Absorb(a)
  PROVE  FloorInv'
  <1>0. /\ Types /\ absorbing = [b \in Absorber |-> absorbing[b]] /\ UNCHANGED <<applied, settling>>
    BY DEF IInv, Types, AbsorbBegin, Absorb, AbsorbLoad, AbsorbAppend, AbsorbCompact, absorbs
  <1>1. CASE AbsorbBegin(a)
    <2>1. /\ OpenEpoch /\ floor' = floor
          /\ absorbing' = [absorbing EXCEPT ![a] =
               IF applied.epoch = epoch' THEN [phase |-> "load", through |-> applied.cursor] ELSE Idle]
      BY <1>1 DEF AbsorbBegin, AbsorbGoes
    <2>2. /\ NeverAsksForGone'
          /\ \A w : Ahead(w) /\ (epoch = 0 => w.phase = "idle") => Ahead(w)'
          /\ \A w : Behind(w) /\ (epoch = 0 => w.phase = "idle") => Behind(w)'
      BY <1>0, <2>1, OpenKeepsFloor
    <2>3. \A t \in Settler : Ahead(settling[t])'
      <3>1. \A t \in Settler : \A v : v = settling[t] => Ahead(v)'
        BY <2>2, NothingBeforeEpoch DEF FloorInv
      <3> QED
        BY <1>0, <3>1 DEF Ahead, Reaches
    <2>4. ASSUME NEW b \in Absorber
          PROVE  Behind(absorbing[b])'
      <3>1. CASE b = a
        <4>1. applied.cursor \in Nat
          BY <1>0, TypesOfCursors
        <4>2. CASE applied.epoch = epoch'
          <5>1. absorbing'[b].through = applied.cursor
            BY <1>0, <2>1, <3>1, <4>2
          <5> QED
            BY <1>0, <4>1, <4>2, <5>1 DEF Behind
        <4>3. CASE applied.epoch # epoch'
          <5>1. absorbing'[b] = Idle
            BY <1>0, <2>1, <3>1, <4>3
          <5> QED
            BY <5>1 DEF Behind, Idle
        <4> QED
          BY <4>2, <4>3
      <3>2. CASE b # a
        <4>1. \A v : v = absorbing[b] => Behind(v)'
          BY <2>2, NothingBeforeEpoch DEF FloorInv
        <4>2. absorbing'[b] = absorbing[b]
          BY <1>0, <2>1, <3>2
        <4> QED
          BY <4>1, <4>2 DEF Behind
      <3> QED
        BY <3>1, <3>2
    <2> QED
      BY <2>2, <2>3, <2>4 DEF FloorInv
  <1>2. CASE Absorb(a)
    <2>0. /\ absorbing[a].phase # "idle" /\ epoch # 0 /\ applied.epoch = epoch
          /\ absorbing[a].through \in Nat /\ absorbing[a].through <= applied.cursor
          /\ AbsorbFits(absorbing[a])
      BY <1>2 DEF Absorb, AbsorbLoad, AbsorbAppend, AbsorbCompact, IInv, AbsorbFits, FloorInv, Behind
    <2>1. epoch' = epoch
      BY <1>0, <1>2, <2>0, EpochOpens
         DEF Absorb, AbsorbLoad, AbsorbAppend, AbsorbCompact, journal
    <2>2. floor' = floor \/ floor' = absorbing[a].through
      BY <1>2 DEF Absorb, AbsorbLoad, AbsorbAppend, AbsorbCompact, journal
    <2>3. \/ absorbing' = [absorbing EXCEPT ![a] = Idle]
          \/ \E w : absorbing' = [absorbing EXCEPT ![a] = w] /\ w.through = absorbing[a].through
      BY <1>2 DEF Absorb, AbsorbLoad, AbsorbAppend, AbsorbCompact, AbsorbGoes, Absorbed
    <2>4. NeverAsksForGone'
      BY <1>0, <2>0, <2>1, <2>2, TypesOfCursors DEF FloorInv, NeverAsksForGone
    <2>5. \A t \in Settler : Ahead(settling[t])'
      BY <1>0, <2>0, <2>1 DEF FloorInv, Ahead, Reaches
    <2>6. \A b \in Absorber : Behind(absorbing[b])'
      <3> SUFFICES ASSUME NEW b \in Absorber
                   PROVE  Behind(absorbing[b])'
        OBVIOUS
      <3>1. CASE b # a
        BY <1>0, <2>1, <2>3, <3>1 DEF FloorInv, Behind
      <3>2. CASE b = a
        BY <1>0, <2>0, <2>1, <2>3, <3>2 DEF Behind, Idle
      <3> QED
        BY <3>1, <3>2
    <2> QED
      BY <2>4, <2>5, <2>6 DEF FloorInv
  <1> QED
    BY <1>1, <1>2

LEMMA NextFloorInv == Policy /\ OneSettler /\ IInv /\ FloorInv /\ [Next]_vars => FloorInv'
  <1> SUFFICES ASSUME Policy, OneSettler, IInv, FloorInv, [Next]_vars
               PROVE  FloorInv'
    OBVIOUS
  <1>1. ASSUME NEW e \in Edit, CommitEdit(e)
        PROVE  FloorInv'
    BY <1>1, CommitKeepsFloor
  <1>2. ASSUME NEW s \in Settler, SettleBegin(s) \/ Settle(s) \/ SettleFault(s)
        PROVE  FloorInv'
    BY <1>2, BeginKeepsFloor, EndKeepsFloor, SettleKeepsFloor
  <1>3. ASSUME NEW a \in Absorber, AbsorbBegin(a) \/ Absorb(a)
        PROVE  FloorInv'
    BY <1>3, AbsorbKeepsFloor
  <1>4. CASE ResetJournal
    <2>1. /\ epoch' = 0 /\ \A s \in Settler : settling'[s] = Idle
          /\ \A a \in Absorber : absorbing'[a] = Idle
      BY <1>4 DEF Policy, ResetJournal
    <2> QED
      BY <2>1 DEF FloorInv, NeverAsksForGone, Ahead, Behind, Idle, Recoveries
  <1>5. CASE Crash
    <2>1. /\ applied'.epoch = 0 /\ \A s \in Settler : settling'[s] = Idle
          /\ \A a \in Absorber : absorbing'[a] = Idle
      BY <1>5 DEF Crash, NotApplied
    <2> QED
      BY <2>1 DEF FloorInv, NeverAsksForGone, Ahead, Behind, Idle, Recoveries
  <1>6. CASE UNCHANGED vars
    BY <1>6 DEF FloorInv, NeverAsksForGone, Ahead, Behind, Reaches, vars, journal
  <1> QED
    BY <1>1, <1>2, <1>3, <1>4, <1>5, <1>6 DEF Next

\* With one settle at a time, beside any number of absorbs, a settle never asks
\* for what was compacted. (With two it may: the run edits_slow.)
THEOREM NeverBelowFloor ==
  ASSUME Policy, OneSettler
  PROVE  Spec => []NeverAsksForGone
  <1>1. Init => FloorInv
    BY DEF Init, FloorInv, NeverAsksForGone, Ahead, Behind, Idle, Recoveries
  <1>2. IInv /\ FloorInv /\ [Next]_vars => FloorInv'
    BY NextFloorInv
  <1>3. FloorInv => NeverAsksForGone
    BY DEF FloorInv
  <1> QED
    BY <1>1, <1>2, <1>3, EditsIInv, PTL DEF Spec
=============================================================================
