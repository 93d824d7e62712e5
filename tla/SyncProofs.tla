------------------------------ MODULE SyncProofs ------------------------------
(***************************************************************************)
(* The replicas and their server keep every edit, in order, for any        *)
(* replicas, messages, calls in progress, pages, faults and compactions.   *)
(***************************************************************************)
EXTENDS Sync, FilterProofs, FiniteSetTheorems

Ids == Replica \X (1..MaxSubmits)
Epochs == 0..(MaxResets + 1)
Phases == {"sent", "check", "append", "load", "reply", "failed"}

NoResets == MaxResets = 0

\* A policy that always says the same of an operation: it does not vary, and what it
\* says of the base stands because the history does.
Steady == ~AdmitVaries /\ (ValidatesBase => NoResets)

-----------------------------------------------------------------------------
(* Types.                                                                  *)

RepRecord ==
  [next : 1..(MaxSubmits + 1), cursor : Nat, committed : Seq(Operation),
   ids : Seq(Ids), pending : Seq(Operation), epoch : Epochs]

RepTypes(s) == s \in RepRecord /\ Len(s.ids) <= IdWindow

Checkpoint == [cursor : Nat, model : Seq(Operation)]

CallRecord ==
  [phase : Phases, of : Replica, by : {"loop", "caller"}, waiting : BOOLEAN,
   cursor : Nat, pending : Seq(Operation), seen : Epochs, from : Nat, epoch : Epochs,
   done : Nat, acks : SUBSET Ids, rejects : SUBSET Ids,
   ops : Seq(Operation), more : BOOLEAN, checkpoint : Seq(Checkpoint)]

CallTypes(c) ==
  /\ c \in CallRecord
  /\ c.done <= Len(c.pending)
  /\ c.checkpoint # <<>> => c.ops = <<>>

ServerTyped ==
  /\ log \in Seq(Journal!Entry)
  /\ used = 1..Cardinality(used) /\ Cardinality(used) \in Epochs
  /\ epoch \in used \cup {0}
  /\ epoch = 0 => Cardinality(used) <= MaxResets
  /\ floor \in 0..Len(log)
  /\ wiped \subseteq Operation

ReplicasTyped ==
  /\ rep = [r \in Replica |-> rep[r]]
  /\ \A r \in Replica : RepTypes(rep[r])

LoopsTyped ==
  /\ unsent \in [Replica -> SUBSET (1..MaxSubmits)]
  /\ loop \in [Replica -> {"run", "busy", "parked"}]
  /\ wake \in [Replica -> BOOLEAN]

CallsTyped ==
  /\ call = [k \in Call |-> call[k]]
  /\ \A k \in Call : call[k] = NoCall \/ CallTypes(call[k])

Types == ServerTyped /\ ReplicasTyped /\ LoopsTyped /\ CallsTyped

-----------------------------------------------------------------------------
(* Operations, wherever they are.                                          *)

InLog == {log[i].op : i \in DOMAIN log}
Carried(c) == IF c = NoCall THEN {} ELSE ToSet(c.pending)
Outboxed(r) == ToSet(rep[r].pending)
Sent == InLog \cup wiped \cup UNION {Carried(call[k]) : k \in Call}
Known == Sent \cup UNION {Outboxed(r) : r \in Replica}

\* The ids of what was committed, in this history or another.
Settled == IdsOf(LogOps) \cup {op.id : op \in wiped}

\* Operations of one replica, in the order of their messages.
Outgoing(r, ops) ==
  /\ \A i \in DOMAIN ops : ops[i].id[1] = r
  /\ \A i, j \in DOMAIN ops : i < j => ops[i].id[2] < ops[j].id[2]

\* An operation says messages that were submitted.
Submittable == \A op \in Known : op.id[2] <= op.upto /\ op.upto < rep[op.id[1]].next

\* No message is said by two operations, and no id has two versions.
OneEach ==
  \A a, b \in Known : a.id[1] = b.id[1] =>
    a = b \/ a.upto < b.id[2] \/ b.upto < a.id[2]

\* What may still be merged into comes after everything that was sent.
UnsentLast ==
  \A r \in Replica : \A a \in Outboxed(r) : \A b \in Sent :
    b.id[1] = r /\ a.id[2] \in unsent[r] => b.id[2] < a.id[2]

\* Everything is in the order it was submitted.
OrderlyInv ==
  /\ \A r \in Replica : Outgoing(r, rep[r].pending)
  /\ \A k \in Call : call[k] # NoCall => Outgoing(call[k].of, call[k].pending)
  /\ Submittable
  /\ OneEach
  /\ UnsentLast

\* A call rejects what it carries.
RejectsSent ==
  \A k \in Call : call[k] # NoCall => call[k].rejects \subseteq IdsOf(call[k].pending)

\* What a replica or a call takes for committed was, and nothing got lost.
SettledInv ==
  /\ \A k \in Call : call[k] # NoCall =>
       call[k].acks \subseteq Settled /\ IdsOf(call[k].ops) \subseteq Settled
  /\ RejectsSent
  /\ \A r \in Replica : ToSet(rep[r].ids) \subseteq Settled
  /\ \A r \in Replica : IdsOf(rep[r].pending) \cap ToSet(rep[r].ids) = {}
  /\ NoLostEdit

-----------------------------------------------------------------------------
(* Committed states.                                                       *)

\* Operations of the log that follow its first n.
FromLog(n, ops) ==
  /\ n + Len(ops) <= Len(log)
  /\ \A i \in 1..Len(ops) : ops[i] = log[n + i].op

ViewFits(s) ==
  /\ s.epoch = 0 => s.committed = <<>> /\ s.cursor = 0
  /\ s.epoch = epoch => s.cursor = Len(s.committed) /\ FromLog(0, s.committed)

ReplyFits(c) ==
  c.phase = "reply" /\ c.epoch = epoch =>
    /\ c.checkpoint = <<>> => FromLog(c.from, c.ops)
    /\ c.checkpoint # <<>> =>
         /\ c.checkpoint[1].cursor = Len(c.checkpoint[1].model)
         /\ FromLog(0, c.checkpoint[1].model)

PrefixInv ==
  /\ \A r \in Replica : rep[r].epoch \in used \cup {0}
  /\ \A k \in Call : call[k] # NoCall =>
       call[k].phase \in {"sent", "failed"} \/ call[k].epoch \in used
  /\ \A r \in Replica : ViewFits(rep[r])
  /\ \A k \in Call : call[k] # NoCall => ReplyFits(call[k])

-----------------------------------------------------------------------------
(* Views.                                                                  *)

\* The page or checkpoint holds all that was acknowledged.
Holds(c) ==
  c.phase = "reply" /\ ~c.more =>
    \A i \in DOMAIN log : log[i].op.id \in c.acks =>
       i <= IF c.checkpoint = <<>> THEN c.from + Len(c.ops) ELSE c.checkpoint[1].cursor

FlickerInv ==
  /\ wiped = {}
  /\ \A r \in Replica : rep[r].epoch \in {0, epoch}
  /\ \A k \in Call : call[k] # NoCall =>
       /\ call[k].epoch \in {0, epoch}
       /\ call[k].cursor <= rep[call[k].of].cursor
       /\ call[k].from <= call[k].cursor
       /\ Holds(call[k])
  /\ \A r \in Replica : \A k \in 1..(rep[r].next - 1) :
       \/ Says(rep[r].pending, r, k)
       \/ Says(rep[r].committed, r, k)
       \/ SomeSays(refused, r, k)

-----------------------------------------------------------------------------
(* Policy.                                                                 *)

\* No operation was made on more than the journal holds.
BasesStand == ValidatesBase => \A op \in Known : op.base <= Len(log)

Permitted(ops) == IdsOf(ops) \cap Refusable = {}

PolicyInv ==
  /\ {op.id : op \in refused} \subseteq Refusable
  /\ Permitted(LogOps)
  /\ \A r \in Replica : Permitted(rep[r].committed)
  /\ \A k \in Call : call[k] # NoCall =>
       /\ call[k].rejects \subseteq Refusable
       /\ Permitted(call[k].ops)
       /\ call[k].checkpoint # <<>> => Permitted(call[k].checkpoint[1].model)

-----------------------------------------------------------------------------
(* Order.                                                                  *)

\* Committed, or never to be.
Decided(op) == op.id \in IdsOf(LogOps) \cup Refusable

\* Before an operation of these, everything known is among them or decided.
Complete(r, ops) ==
  \A a \in Known : \A i \in DOMAIN ops :
    a.id[1] = r /\ a.id[2] < ops[i].id[2] => a \in ToSet(ops) \/ Decided(a)

OrderInv ==
  /\ wiped = {}
  /\ CommittedInOrder
  /\ \A a \in Known : a \in Outboxed(a.id[1]) \/ Decided(a)
  /\ \A k \in Call : call[k] # NoCall =>
       /\ Complete(call[k].of, call[k].pending)
       /\ \A i \in 1..call[k].done : Decided(call[k].pending[i])
  /\ \A a \in Known, b \in InLog :
       a.id[1] = b.id[1] /\ a.id[2] < b.id[2] => Decided(a)

-----------------------------------------------------------------------------
(* Lemmas about the operators.                                             *)

LEMMA MaxOfTwo ==
  ASSUME NEW a \in Int, NEW b \in Int
  PROVE  Max({a, b}) = IF a >= b THEN a ELSE b
  <1>1. \E x \in {a, b} : \A y \in {a, b} : x >= y
    OBVIOUS
  <1> QED
    BY <1>1 DEF Max

LEMMA MinOfTwo ==
  ASSUME NEW a \in Int, NEW b \in Int
  PROVE  Min({a, b}) = IF a <= b THEN a ELSE b
  <1>1. \E x \in {a, b} : \A y \in {a, b} : x =< y
    OBVIOUS
  <1> QED
    BY <1>1 DEF Min

\* The fields of a replica's state and of a call.
LEMMA RepFields ==
  ASSUME NEW s, RepTypes(s)
  PROVE  /\ s.next \in 1..(MaxSubmits + 1) /\ s.next \in Nat /\ s.cursor \in Nat
         /\ s.committed \in Seq(Operation) /\ s.ids \in Seq(Ids)
         /\ s.pending \in Seq(Operation) /\ s.epoch \in Epochs
         /\ Len(s.ids) <= IdWindow
  <1>1. s \in RepRecord /\ Len(s.ids) <= IdWindow /\ MaxSubmits \in Nat
    BY SyncBoundsAssumption DEF RepTypes
  <1>2. /\ s.next \in 1..(MaxSubmits + 1) /\ s.cursor \in Nat
        /\ s.committed \in Seq(Operation) /\ s.ids \in Seq(Ids)
        /\ s.pending \in Seq(Operation) /\ s.epoch \in Epochs
    BY <1>1 DEF RepRecord
  <1> QED
    BY <1>1, <1>2

LEMMA CallFields ==
  ASSUME NEW c, CallTypes(c)
  PROVE  /\ c.phase \in Phases /\ c.of \in Replica /\ c.by \in {"loop", "caller"}
         /\ c.waiting \in BOOLEAN /\ c.more \in BOOLEAN
         /\ c.cursor \in Nat /\ c.from \in Nat
         /\ c.pending \in Seq(Operation) /\ c.ops \in Seq(Operation)
         /\ c.seen \in Epochs /\ c.epoch \in Epochs
         /\ c.done \in 0..Len(c.pending) /\ c.done \in Nat
         /\ c.acks \subseteq Ids /\ c.rejects \subseteq Ids
         /\ c.checkpoint \in Seq(Checkpoint)
         /\ c.checkpoint # <<>> =>
              /\ c.ops = <<>>
              /\ c.checkpoint[1].cursor \in Nat /\ c.checkpoint[1].model \in Seq(Operation)
  <1>1. /\ c \in CallRecord /\ c.done <= Len(c.pending)
        /\ c.checkpoint # <<>> => c.ops = <<>>
    BY DEF CallTypes
  <1>2. /\ c.phase \in Phases /\ c.of \in Replica /\ c.by \in {"loop", "caller"}
        /\ c.waiting \in BOOLEAN /\ c.more \in BOOLEAN
        /\ c.cursor \in Nat /\ c.from \in Nat
        /\ c.pending \in Seq(Operation) /\ c.ops \in Seq(Operation)
        /\ c.seen \in Epochs /\ c.epoch \in Epochs /\ c.done \in Nat
        /\ c.acks \subseteq Ids /\ c.rejects \subseteq Ids
        /\ c.checkpoint \in Seq(Checkpoint)
    BY <1>1 DEF CallRecord
  <1>3. c.checkpoint # <<>> => c.checkpoint[1] \in Checkpoint
    BY <1>2
  <1>4. \A x \in Checkpoint : x.cursor \in Nat /\ x.model \in Seq(Operation)
    BY DEF Checkpoint
  <1> QED
    BY <1>1, <1>2, <1>3, <1>4

\* NoCall is no request.
LEMMA CallsDiffer ==
  ASSUME NEW c, CallTypes(c)
  PROVE  c # NoCall /\ c.phase # "none"
  BY DEF CallTypes, CallRecord, Phases, NoCall

\* The log holds operations, and its entries' operations are a sequence.
LEMMA LogTyped ==
  ASSUME ServerTyped
  PROVE  /\ LogOps \in Seq(Operation) /\ Len(LogOps) = Len(log) /\ Len(log) \in Nat
         /\ DOMAIN log = 1..Len(log) /\ DOMAIN LogOps = 1..Len(log)
         /\ \A i \in 1..Len(log) : LogOps[i] = log[i].op /\ log[i].op \in Operation
         /\ InLog \subseteq Operation
         /\ IdsOf(LogOps) = {op.id : op \in InLog}
  <1>1. \A e \in Journal!Entry : e.op \in Operation
    BY DEF Journal!Entry
  <1>2. log \in Seq(Journal!Entry)
    BY DEF ServerTyped
  <1>3. /\ DOMAIN log = 1..Len(log) /\ Len(log) \in Nat
        /\ \A i \in 1..Len(log) : log[i].op \in Operation
    BY <1>1, <1>2
  <1>4. /\ LogOps = [i \in 1..Len(log) |-> log[i].op]
        /\ LogOps \in Seq(Operation) /\ Len(LogOps) = Len(log)
    BY <1>3 DEF LogOps
  <1>5. InLog \subseteq Operation
    BY <1>3 DEF InLog
  <1>6. IdsOf(LogOps) = {op.id : op \in InLog}
    BY <1>3, <1>4 DEF IdsOf, InLog
  <1> QED
    BY <1>3, <1>4, <1>5, <1>6

\* An operation has an id of its replica, and says some messages.
LEMMA OperationTyped ==
  ASSUME NEW op \in Operation
  PROVE  /\ op = [id |-> op.id, upto |-> op.upto, base |-> op.base]
         /\ op.id \in Ids /\ op.id[1] \in Replica /\ op.id[2] \in 1..MaxSubmits
         /\ op.id = <<op.id[1], op.id[2]>>
         /\ op.upto \in 1..MaxSubmits /\ op.base \in Nat
         /\ op.id[2] \in Nat /\ op.upto \in Nat
  BY SyncBoundsAssumption DEF Operation, Ids

LEMMA Counting ==
  ASSUME NEW n \in Nat
  PROVE  IsFiniteSet(1..n) /\ Cardinality(1..n) = n
  <1>1. IsFiniteSet(1..n) /\ Cardinality(1..n) = IF 1 > n THEN 0 ELSE n - 1 + 1
    BY FS_Interval
  <1> QED
    BY <1>1

\* While a message may be submitted, no replica has used up the numbers.
LEMMA NumbersLeft ==
  ASSUME ReplicasTyped, Submitted < MaxSubmits, NEW r \in Replica
  PROVE  rep[r].next \in 1..MaxSubmits
  <1> DEFINE All == {m \in Replica \X (1..MaxSubmits) : m[2] < rep[m[1]].next}
             Own == {r} \X (1..MaxSubmits)
  <1>0. MaxSubmits \in Nat /\ rep[r].next \in 1..(MaxSubmits + 1)
    BY SyncBoundsAssumption DEF ReplicasTyped, RepTypes, RepRecord
  <1> SUFFICES ASSUME rep[r].next = MaxSubmits + 1
               PROVE  FALSE
    BY <1>0
  <1>1. Own \subseteq All
    BY <1>0
  <1>2. IsFiniteSet(1..MaxSubmits) /\ Cardinality(1..MaxSubmits) = MaxSubmits
    BY <1>0, Counting
  <1>3. IsFiniteSet(All)
    <2>1. IsFiniteSet(Replica \X (1..MaxSubmits))
      BY <1>2, ReplicaAssumption, FS_Product
    <2> QED
      BY <2>1, FS_Subset
  <1>4. IsFiniteSet(Own) /\ Cardinality(Own) = MaxSubmits
    <2>1. IsFiniteSet({r}) /\ Cardinality({r}) = 1
      BY FS_Singleton
    <2>2. IsFiniteSet(Own) /\ Cardinality(Own) = Cardinality({r}) * Cardinality(1..MaxSubmits)
      BY <1>2, <2>1, FS_Product
    <2> QED
      BY <1>0, <1>2, <2>1, <2>2
  <1>5. Cardinality(Own) <= Cardinality(All) /\ Cardinality(All) \in Nat
    BY <1>1, <1>3, FS_Subset, FS_CardinalityType
  <1>6. Cardinality(All) < MaxSubmits
    BY DEF Submitted
  <1> HIDE DEF All, Own
  <1> QED
    BY <1>0, <1>4, <1>5, <1>6

\* A fresh epoch is the next number.
LEMMA FreshIsNext ==
  ASSUME ServerTyped, epoch = 0, used' = used \cup {Fresh}
  PROVE  /\ Fresh \in Epochs /\ Fresh \notin used /\ Fresh # 0
         /\ used' = 1..Cardinality(used') /\ Cardinality(used') \in Epochs
         /\ Fresh \in used'
  <1> DEFINE n == Cardinality(used)
  <1>1. n \in Nat /\ used = 1..n /\ n <= MaxResets /\ MaxResets \in Nat
    BY SyncBoundsAssumption DEF ServerTyped, Epochs
  <1>2. Fresh = n + 1
    BY DEF Fresh
  <1> HIDE DEF n
  <1>3. used' = 1..(n + 1)
    BY <1>1, <1>2
  <1>4. Cardinality(1..(n + 1)) = n + 1
    BY <1>1, Counting
  <1> QED
    <2>1. Fresh \in 1..(n + 1) /\ Fresh \notin 1..n /\ n + 1 \in 0..(MaxResets + 1)
      BY <1>1, <1>2
    <2>2. Cardinality(used') = n + 1
      BY <1>3, <1>4
    <2>3. /\ Fresh \in Epochs /\ Fresh # 0 /\ Fresh \in used'
          /\ Cardinality(used') \in Epochs
      BY <1>1, <1>3, <2>1, <2>2 DEF Epochs
    <2> QED
      BY <1>1, <1>3, <2>1, <2>2, <2>3

-----------------------------------------------------------------------------
(* What a reply makes of a replica's state.                                *)

\* The base has the replica's own outbox and numbers, and a committed state that
\* is its own, none, or the checkpoint.
LEMMA BaseIs ==
  ASSUME NEW s, RepTypes(s), NEW c, CallTypes(c)
  PROVE  LET b == Base(s, c) IN
         /\ b.cursor \in Nat /\ b.committed \in Seq(Operation) /\ b.ids \in Seq(Ids)
         /\ ToSet(b.ids) \subseteq ToSet(s.ids)
         /\ c.checkpoint # <<>> =>
              b.cursor = c.checkpoint[1].cursor /\ b.committed = c.checkpoint[1].model
         /\ c.checkpoint = <<>> /\ Restarted(s, c) =>
              b.cursor = 0 /\ b.committed = <<>>
         /\ c.checkpoint = <<>> /\ ~Restarted(s, c) =>
              b.cursor = s.cursor /\ b.committed = s.committed
  <1> DEFINE b == Base(s, c)
             kept == IF Restarted(s, c)
                     THEN [s EXCEPT !.cursor = 0, !.committed = <<>>, !.ids = <<>>]
                     ELSE s
  <1>1. b = IF c.checkpoint = <<>> THEN kept
            ELSE [kept EXCEPT !.cursor = c.checkpoint[1].cursor,
                              !.committed = c.checkpoint[1].model, !.ids = <<>>]
    BY DEF Base
  <1>2. kept \in RepRecord
    <2>1. s \in RepRecord /\ <<>> \in Seq(Operation) /\ <<>> \in Seq(Ids)
      BY DEF RepTypes
    <2> QED
      BY <2>1 DEF RepRecord
  <1>3. /\ Restarted(s, c) => kept.cursor = 0 /\ kept.committed = <<>> /\ kept.ids = <<>>
        /\ ~Restarted(s, c) => kept = s
    BY DEF RepTypes, RepRecord
  <1> HIDE DEF kept
  <1>4. CASE c.checkpoint = <<>>
    <2>1. b = kept
      BY <1>1, <1>4
    <2> QED
      BY <1>2, <1>3, <1>4, <2>1 DEF ToSet, RepRecord
  <1>5. CASE c.checkpoint # <<>>
    <2>1. c.checkpoint[1].cursor \in Nat /\ c.checkpoint[1].model \in Seq(Operation)
      BY <1>5, CallFields
    <2>2. /\ b.cursor = c.checkpoint[1].cursor
          /\ b.committed = c.checkpoint[1].model /\ b.ids = <<>>
      BY <1>1, <1>2, <1>5 DEF RepRecord
    <2> QED
      BY <1>5, <2>1, <2>2 DEF ToSet
  <1> QED
    BY <1>4, <1>5

\* How much of a page a replica at this cursor has passed.
Passed(cursor, from) == IF cursor >= from THEN cursor - from ELSE 0

\* The new operations are the rest of the page.
LEMMA NewOpsAre ==
  ASSUME NEW b, b.cursor \in Nat, NEW c, CallTypes(c)
  PROVE  LET new == NewOps(b, c)  skip == Passed(b.cursor, c.from) IN
         /\ new \in Seq(Operation) /\ Len(new) \in Nat
         /\ Len(new) = IF skip < Len(c.ops) THEN Len(c.ops) - skip ELSE 0
         /\ \A i \in 1..Len(new) : skip + i \in DOMAIN c.ops /\ new[i] = c.ops[skip + i]
  <1> DEFINE skip == Passed(b.cursor, c.from)
             new == NewOps(b, c)
  <1>1. c.from \in Nat /\ c.ops \in Seq(Operation) /\ Len(c.ops) \in Nat
    BY CallFields
  <1>2. skip \in Nat /\ Max({b.cursor - c.from, 0}) = skip
    <2>1. b.cursor - c.from \in Int /\ 0 \in Int
      BY <1>1
    <2>2. Max({b.cursor - c.from, 0}) = IF b.cursor - c.from >= 0 THEN b.cursor - c.from ELSE 0
      BY <2>1, MaxOfTwo
    <2> QED
      BY <1>1, <2>2 DEF Passed
  <1>3. new = SubSeq(c.ops, skip + 1, Len(c.ops))
    BY <1>2 DEF NewOps
  <1> HIDE DEF skip, new
  <1>4. /\ new \in Seq(Operation) /\ Len(new) \in Nat
        /\ Len(new) = IF skip < Len(c.ops) THEN Len(c.ops) - skip ELSE 0
        /\ \A i \in 1..Len(new) : new[i] = c.ops[skip + i]
    BY <1>1, <1>2, <1>3
  <1>5. \A i \in 1..Len(new) : skip + i \in DOMAIN c.ops
    BY <1>1, <1>2, <1>4
  <1> QED
    BY <1>4, <1>5 DEF new, skip

LEMMA RestIs ==
  ASSUME NEW S, NEW s \in Seq(S), NEW k \in 0..Len(s)
  PROVE  /\ SubSeq(s, k + 1, Len(s)) \in Seq(S)
         /\ Len(SubSeq(s, k + 1, Len(s))) = Len(s) - k
         /\ \A i \in 1..(Len(s) - k) : SubSeq(s, k + 1, Len(s))[i] = s[k + i]
  OBVIOUS

LEMMA WindowIs ==
  ASSUME NEW ids \in Seq(Ids)
  PROVE  /\ Window(ids) \in Seq(Ids) /\ Len(Window(ids)) <= IdWindow
         /\ ToSet(Window(ids)) \subseteq ToSet(ids)
  <1> DEFINE n == Len(ids)
             skip == IF n - IdWindow >= 0 THEN n - IdWindow ELSE 0
             w == Window(ids)
  <1>1. IdWindow \in Nat /\ n \in Nat /\ DOMAIN ids = 1..n
    BY LimitAssumption
  <1>2. Max({n - IdWindow, 0}) = skip
    BY <1>1, MaxOfTwo
  <1>3. w = SubSeq(ids, skip + 1, n)
    BY <1>2 DEF Window
  <1>4. skip \in 0..n /\ n - skip <= IdWindow
    BY <1>1
  <1> HIDE DEF skip, w
  <1>5. /\ w \in Seq(Ids) /\ Len(w) = n - skip
        /\ \A i \in 1..(n - skip) : w[i] = ids[skip + i]
    BY <1>3, <1>4, RestIs
  <1>6. \A i \in 1..(n - skip) : skip + i \in 1..n
    BY <1>1, <1>4
  <1>7. DOMAIN w = 1..(n - skip)
    BY <1>5
  <1>8. ToSet(w) \subseteq ToSet(ids)
    BY <1>1, <1>5, <1>6, <1>7 DEF ToSet
  <1> QED
    BY <1>4, <1>5, <1>8 DEF w

LEMMA ConcatSet ==
  ASSUME NEW S, NEW s \in Seq(S), NEW t \in Seq(S)
  PROVE  s \o t \in Seq(S) /\ ToSet(s \o t) = ToSet(s) \cup ToSet(t)
  <1> DEFINE u == s \o t
  <1>1. /\ u \in Seq(S) /\ Len(u) = Len(s) + Len(t)
        /\ \A i \in 1..Len(s) : u[i] = s[i]
        /\ \A i \in 1..Len(t) : u[Len(s) + i] = t[i]
    OBVIOUS
  <1>2. /\ Len(s) \in Nat /\ Len(t) \in Nat /\ DOMAIN u = 1..(Len(s) + Len(t))
        /\ DOMAIN s = 1..Len(s) /\ DOMAIN t = 1..Len(t)
    BY <1>1
  <1> HIDE DEF u
  <1>3. ASSUME NEW i \in 1..(Len(s) + Len(t))
        PROVE  u[i] \in ToSet(s) \cup ToSet(t)
    <2>1. CASE i <= Len(s)
      BY <1>1, <1>2, <2>1 DEF ToSet
    <2>2. CASE ~(i <= Len(s))
      <3>1. i - Len(s) \in 1..Len(t) /\ i = Len(s) + (i - Len(s))
        BY <1>2, <2>2
      <3> QED
        BY <1>1, <1>2, <3>1 DEF ToSet
    <2> QED
      BY <2>1, <2>2
  <1>4. \A i \in 1..Len(s) : i \in DOMAIN u
    BY <1>2
  <1>5. \A i \in 1..Len(t) : Len(s) + i \in DOMAIN u
    BY <1>2
  <1>6. ToSet(u) \subseteq ToSet(s) \cup ToSet(t)
    BY <1>2, <1>3 DEF ToSet
  <1>7. ToSet(s) \subseteq ToSet(u)
    BY <1>1, <1>2, <1>4 DEF ToSet
  <1>8. ToSet(t) \subseteq ToSet(u)
    BY <1>1, <1>2, <1>5 DEF ToSet
  <1> QED
    BY <1>1, <1>6, <1>7, <1>8 DEF u

\* What is dropped from the outbox.
Gone(b, new, c) ==
  ToSet(b.ids) \cup IdsOf(new) \cup c.rejects \cup (IF c.more THEN {} ELSE c.acks)

\* The state after a reply: the new operations follow the base, and what is gone
\* from the outbox leaves the rest in its order.
LEMMA AppliedIs ==
  ASSUME NEW s, RepTypes(s), NEW c, CallTypes(c)
  PROVE  LET b == Base(s, c)  new == NewOps(b, c)  t == Applied(s, c) IN
         /\ RepTypes(t)
         /\ t.next = s.next /\ t.epoch = c.epoch
         /\ t.cursor = b.cursor + Len(new)
         /\ t.committed = b.committed \o new
         /\ ToSet(t.ids) \subseteq ToSet(b.ids) \cup IdsOf(new)
         /\ t.pending = Staying(s, Gone(b, new, c))
  <1> DEFINE b == Base(s, c)
             new == NewOps(b, c)
             t == Applied(s, c)
             newIds == [i \in DOMAIN new |-> new[i].id]
             ids == b.ids \o newIds
  <1>1. /\ b.cursor \in Nat /\ b.committed \in Seq(Operation) /\ b.ids \in Seq(Ids)
    BY BaseIs
  <1>2. new \in Seq(Operation) /\ Len(new) \in Nat
    BY <1>1, NewOpsAre
  <1>3. /\ s.pending \in Seq(Operation) /\ s.next \in 1..(MaxSubmits + 1)
        /\ c.epoch \in Epochs
    BY RepFields, CallFields
  <1>4. t = [next |-> s.next, cursor |-> b.cursor + Len(new),
             committed |-> b.committed \o new, ids |-> Window(ids),
             pending |-> Outbox(s, Range(ids), c), epoch |-> c.epoch]
    BY DEF Applied
  <1> HIDE DEF b, new, t
  <1>5. newIds \in Seq(Ids) /\ ToSet(newIds) = IdsOf(new)
    <2>1. \A i \in 1..Len(new) : new[i].id \in Ids
      BY <1>2, OperationTyped
    <2> QED
      BY <1>2, <2>1 DEF ToSet, IdsOf
  <1> HIDE DEF newIds
  <1>6. ids \in Seq(Ids) /\ ToSet(ids) = ToSet(b.ids) \cup IdsOf(new)
    BY <1>1, <1>5, ConcatSet
  <1> HIDE DEF ids
  <1>7. /\ Window(ids) \in Seq(Ids) /\ Len(Window(ids)) <= IdWindow
        /\ ToSet(Window(ids)) \subseteq ToSet(ids)
    BY <1>6, WindowIs
  <1>8. Outbox(s, Range(ids), c) = Staying(s, Gone(b, new, c))
    <2>1. Range(ids) = ToSet(b.ids) \cup IdsOf(new)
      BY <1>6 DEF Range, ToSet
    <2> QED
      BY <2>1 DEF Outbox, Gone
  <1>9. Staying(s, Gone(b, new, c)) \in Seq(Operation)
    BY <1>3, FilteredLeaves DEF Staying
  <1>10. RepTypes(t)
    <2>1. b.committed \o new \in Seq(Operation) /\ b.cursor + Len(new) \in Nat
      BY <1>1, <1>2
    <2> QED
      BY <1>3, <1>4, <1>7, <1>8, <1>9, <2>1 DEF RepTypes, RepRecord
  <1> QED
    BY <1>4, <1>6, <1>7, <1>8, <1>10 DEF b, new, t

-----------------------------------------------------------------------------
(* What each action does, and that it keeps the types.                     *)

LEMMA CallMoved ==
  ASSUME CallsTyped, NEW k \in Call, NEW c, c = NoCall \/ CallTypes(c),
         call' = [call EXCEPT ![k] = c]
  PROVE  /\ CallsTyped' /\ call'[k] = c
         /\ \A j \in Call : j # k => call'[j] = call[j]
  BY DEF CallsTyped

LEMMA RepMoved ==
  ASSUME ReplicasTyped, NEW r \in Replica, NEW s, RepTypes(s),
         rep' = [rep EXCEPT ![r] = s]
  PROVE  /\ ReplicasTyped' /\ rep'[r] = s
         /\ \A o \in Replica : o # r => rep'[o] = rep[o]
  BY DEF ReplicasTyped

LEMMA ServerStays ==
  ASSUME ServerTyped, UNCHANGED server, UNCHANGED wiped
  PROVE  ServerTyped'
  BY DEF ServerTyped, server, Journal!Entry

\* A message is appended as an operation of its own, or is the last one's now.
LEMMA SubmitDoes ==
  ASSUME Types, NEW r \in Replica, NEW merges \in BOOLEAN, Submit(r, merges)
  PROVE  LET n == rep[r].next  p == rep[r].pending  q == rep'[r].pending IN
         /\ Types'
         /\ n \in 1..MaxSubmits /\ q \in Seq(Operation) /\ q # <<>>
         /\ rep'[r].next = n + 1 /\ rep'[r].cursor = rep[r].cursor
         /\ rep'[r].committed = rep[r].committed /\ rep'[r].ids = rep[r].ids
         /\ rep'[r].epoch = rep[r].epoch
         /\ \A o \in Replica : o # r => rep'[o] = rep[o] /\ unsent'[o] = unsent[o]
         /\ ~merges => /\ Len(q) = Len(p) + 1
                       /\ \A i \in 1..Len(p) : q[i] = p[i]
                       /\ q[Len(q)].id = OpIdOf(r, n) /\ q[Len(q)].upto = n
                       /\ q[Len(q)].base = rep[r].cursor
         /\ merges => /\ p # <<>> /\ Len(q) = Len(p)
                      /\ \A i \in 1..Len(p) : i # Len(p) => q[i] = p[i]
                      /\ q[Len(q)].id = p[Len(p)].id /\ q[Len(q)].upto = n
                      /\ q[Len(q)].base = p[Len(p)].base
                      /\ p[Len(p)].id[2] \in unsent[r]
         /\ unsent'[r] = unsent[r] \cup {q[Len(q)].id[2]}
  <1> DEFINE n == rep[r].next
             p == rep[r].pending
             own == [id |-> OpIdOf(r, n), upto |-> n, base |-> rep[r].cursor]
             q == IF merges THEN [p EXCEPT ![Len(p)].upto = n] ELSE Append(p, own)
  <1>0. /\ ReplicasTyped /\ LoopsTyped /\ CallsTyped /\ ServerTyped
        /\ RepTypes(rep[r]) /\ MaxSubmits \in Nat
    BY SyncBoundsAssumption DEF Types, ReplicasTyped
  <1>1. n \in 1..MaxSubmits /\ n + 1 \in 1..(MaxSubmits + 1)
    <2>1. Submitted < MaxSubmits
      BY DEF Submit
    <2>2. n \in 1..MaxSubmits
      BY <1>0, <2>1, NumbersLeft
    <2> QED
      BY <1>0, <2>2
  <1>2. /\ p \in Seq(Operation) /\ Len(p) \in Nat /\ rep[r].cursor \in Nat
        /\ rep[r] \in RepRecord
    BY <1>0, RepFields DEF RepTypes
  <1>3. own \in Operation
    BY <1>1, <1>2 DEF Operation, OpIdOf
  <1>4. merges => p # <<>> /\ p[Len(p)].id[2] \in unsent[r]
    BY DEF Submit, Mergeable, Last
  <1>5. /\ q \in Seq(Operation) /\ q # <<>>
        /\ ~merges => /\ Len(q) = Len(p) + 1
                      /\ \A i \in 1..Len(p) : q[i] = p[i]
                      /\ q[Len(q)].id = OpIdOf(r, n) /\ q[Len(q)].upto = n
                      /\ q[Len(q)].base = rep[r].cursor
        /\ merges => /\ p # <<>> /\ Len(q) = Len(p)
                     /\ \A i \in 1..Len(p) : i # Len(p) => q[i] = p[i]
                     /\ q[Len(q)].id = p[Len(p)].id /\ q[Len(q)].upto = n
                     /\ q[Len(q)].base = p[Len(p)].base
    <2>1. CASE merges
      <3>1. Len(p) \in DOMAIN p /\ p[Len(p)] \in Operation
        BY <1>2, <1>4, <2>1
      <3> DEFINE op == [p[Len(p)] EXCEPT !.upto = n]
      <3>2. op \in Operation /\ op.id = p[Len(p)].id /\ op.upto = n
            /\ op.base = p[Len(p)].base
        BY <1>1, <3>1 DEF Operation
      <3>3. q = [p EXCEPT ![Len(p)] = op]
        BY <2>1
      <3> HIDE DEF op, q
      <3> QED
        BY <1>2, <1>4, <2>1, <3>1, <3>2, <3>3
    <2>2. CASE ~merges
      <3>1. q = Append(p, own)
        BY <2>2
      <3>2. own.id = OpIdOf(r, n) /\ own.upto = n /\ own.base = rep[r].cursor
        OBVIOUS
      <3> HIDE DEF own, q
      <3> QED
        BY <1>2, <1>3, <2>2, <3>1, <3>2
    <2> QED
      BY <2>1, <2>2
  <1>6. /\ rep' = [rep EXCEPT ![r].next = n + 1, ![r].pending = q]
        /\ unsent' = [unsent EXCEPT ![r] = @ \cup {Last(q).id[2]}]
        /\ wake' = [wake EXCEPT ![r] = TRUE]
        /\ UNCHANGED <<server, loop, call, history>>
    BY DEF Submit
  <1> HIDE DEF q, p, own
  <1>7. /\ rep'[r] \in RepRecord /\ rep'[r].next = n + 1 /\ rep'[r].pending = q
        /\ rep'[r].cursor = rep[r].cursor /\ rep'[r].committed = rep[r].committed
        /\ rep'[r].ids = rep[r].ids /\ rep'[r].epoch = rep[r].epoch
    <2>1. rep = [o \in Replica |-> rep[o]]
      BY <1>0 DEF ReplicasTyped
    <2> QED
      BY <1>1, <1>2, <1>5, <1>6, <2>1 DEF RepRecord
  <1>8. rep' = [o \in Replica |-> rep'[o]] /\ \A o \in Replica : o # r => rep'[o] = rep[o]
    <2>1. rep = [o \in Replica |-> rep[o]]
      BY <1>0 DEF ReplicasTyped
    <2> QED
      BY <1>6, <2>1
  <1>9. ReplicasTyped'
    <2>1. RepTypes(rep'[r])
      BY <1>0, <1>7 DEF RepTypes
    <2> QED
      BY <1>0, <1>8, <2>1 DEF ReplicasTyped
  <1>10. q[Len(q)].id[2] \in 1..MaxSubmits
    <2>1. q[Len(q)] \in Operation
      BY <1>5
    <2> QED
      BY <2>1, OperationTyped
  <1>11. /\ LoopsTyped'
         /\ unsent'[r] = unsent[r] \cup {q[Len(q)].id[2]}
         /\ \A o \in Replica : o # r => unsent'[o] = unsent[o]
    BY <1>0, <1>6, <1>10 DEF LoopsTyped, Last
  <1>12. ServerTyped'
    BY <1>0, <1>6, ServerStays DEF history
  <1>13. CallsTyped'
    BY <1>0, <1>6 DEF CallsTyped
  <1> QED
    BY <1>1, <1>4, <1>5, <1>7, <1>8, <1>9, <1>11, <1>12, <1>13 DEF Types, p

\* An exchange carries the outbox and the cursor, and nothing carried is merged
\* into any more.
LEMMA BeginDoes ==
  ASSUME Types, NEW r \in Replica, NEW k \in Call, NEW by \in {"loop", "caller"},
         Begin(r, k, by), loop' \in [Replica -> {"run", "busy", "parked"}]
  PROVE  /\ Types' /\ UNCHANGED <<server, rep, history>>
         /\ call[k] = NoCall /\ call'[k] = Request(r, by) /\ CallTypes(call'[k])
         /\ \A j \in Call : j # k => call'[j] = call[j]
         /\ unsent'[r] = unsent[r] \ {op.id[2] : op \in Outboxed(r)}
         /\ \A o \in Replica : o # r => unsent'[o] = unsent[o]
  <1>0. /\ ReplicasTyped /\ LoopsTyped /\ CallsTyped /\ ServerTyped
        /\ RepTypes(rep[r])
    BY DEF Types, ReplicasTyped
  <1>1. CallTypes(Request(r, by))
    <2>1. /\ rep[r].cursor \in Nat /\ rep[r].pending \in Seq(Operation)
          /\ rep[r].epoch \in Epochs
      BY <1>0, RepFields
    <2>2. /\ <<>> \in Seq(Operation) /\ <<>> \in Seq(Checkpoint) /\ 0 \in Nat /\ 0 \in Epochs
          /\ {} \in SUBSET Ids /\ "sent" \in Phases
      BY SyncBoundsAssumption DEF Epochs, Phases
    <2>3. Request(r, by) \in CallRecord
      BY <2>1, <2>2 DEF Request, CallRecord
    <2>4. 0 <= Len(rep[r].pending)
      BY <2>1
    <2> QED
      BY <2>3, <2>4 DEF Request, CallTypes
  <1>2. /\ call' = [call EXCEPT ![k] = Request(r, by)] /\ call[k] = NoCall
        /\ UNCHANGED <<server, rep, wake, history>>
        /\ unsent' = [unsent EXCEPT ![r] = @ \ {rep[r].pending[i].id[2] : i \in DOMAIN rep[r].pending}]
    BY DEF Begin
  <1>3. /\ CallsTyped' /\ call'[k] = Request(r, by)
        /\ \A j \in Call : j # k => call'[j] = call[j]
    BY <1>0, <1>1, <1>2, CallMoved
  <1>4. {rep[r].pending[i].id[2] : i \in DOMAIN rep[r].pending} = {op.id[2] : op \in Outboxed(r)}
    BY DEF Outboxed, ToSet
  <1>5. /\ LoopsTyped' /\ unsent'[r] = unsent[r] \ {op.id[2] : op \in Outboxed(r)}
        /\ \A o \in Replica : o # r => unsent'[o] = unsent[o]
    BY <1>0, <1>2, <1>4 DEF LoopsTyped
  <1>6. ServerTyped' /\ ReplicasTyped'
    BY <1>0, <1>2, ServerStays DEF ReplicasTyped, history
  <1> QED
    BY <1>1, <1>2, <1>3, <1>5, <1>6 DEF Types

LEMMA LoopWakeDoes ==
  ASSUME Types, NEW r \in Replica, LoopWake(r)
  PROVE  Types' /\ UNCHANGED <<server, rep, call, unsent, history>>
  <1>1. /\ UNCHANGED <<server, rep, call, unsent, history>>
        /\ LoopsTyped'
    BY DEF LoopWake, Types, LoopsTyped
  <1> QED
    BY <1>1, ServerStays DEF Types, ReplicasTyped, CallsTyped, history

\* A call that ends leaves its slot.
LEMMA EndedDoes ==
  ASSUME Types, NEW k \in Call, NEW again \in BOOLEAN, call[k] # NoCall, Ended(k, again)
  PROVE  /\ CallsTyped' /\ call'[k] = NoCall
         /\ \A j \in Call : j # k => call'[j] = call[j]
         /\ loop' \in [Replica -> {"run", "busy", "parked"}]
  <1>0. CallsTyped /\ LoopsTyped /\ CallTypes(call[k])
    BY DEF Types, CallsTyped
  <1>1. call' = [call EXCEPT ![k] = NoCall]
    BY DEF Ended
  <1>2. call[k].of \in Replica
    BY <1>0, CallFields
  <1>3. loop' \in [Replica -> {"run", "busy", "parked"}]
    <2>1. /\ loop \in [Replica -> {"run", "busy", "parked"}]
          /\ loop' = IF call[k].by = "loop"
                     THEN [loop EXCEPT ![call[k].of] = IF again THEN "run" ELSE "parked"]
                     ELSE loop
      BY <1>0 DEF Ended, LoopsTyped
    <2> QED
      BY <1>2, <2>1
  <1> QED
    BY <1>0, <1>1, <1>3, CallMoved

LEMMA RetriedDoes ==
  ASSUME LoopsTyped, NEW k \in Call, Retried(k)
  PROVE  wake' \in [Replica -> BOOLEAN]
  BY DEF LoopsTyped, Retried

LEMMA DeliverDoes ==
  ASSUME Types, NEW k \in Call, Deliver(k)
  PROVE  LET c == call[k]  r == call[k].of IN
         /\ Types' /\ CallTypes(c) /\ r \in Replica /\ RepTypes(rep[r])
         /\ c.phase = "reply" /\ Acceptable(rep[r], c)
         /\ rep'[r] = Applied(rep[r], c)
         /\ \A o \in Replica : o # r => rep'[o] = rep[o]
         /\ call'[k] = NoCall /\ \A j \in Call : j # k => call'[j] = call[j]
         /\ refused' = refused \cup Rejected(c)
         /\ UNCHANGED <<server, unsent, wiped>>
  <1> DEFINE c == call[k]
             r == call[k].of
             t == Applied(rep[r], c)
  <1>1. c.phase = "reply"
    BY DEF Deliver
  <1>2. c # NoCall
    BY <1>1 DEF NoCall
  <1>3. CallTypes(c) /\ r \in Replica /\ RepTypes(rep[r])
    <2>1. CallTypes(c)
      BY <1>2 DEF Types, CallsTyped
    <2>2. r \in Replica
      BY <2>1, CallFields
    <2> QED
      BY <2>1, <2>2 DEF Types, ReplicasTyped
  <1>4. RepTypes(t)
    BY <1>3, AppliedIs
  <1>5. /\ rep' = [rep EXCEPT ![r] = t] /\ Acceptable(rep[r], c)
        /\ refused' = refused \cup Rejected(c)
        /\ UNCHANGED <<server, unsent, wake, wiped>>
    BY DEF Deliver
  <1>6. \E again \in BOOLEAN : Ended(k, again)
    <2>1. Ended(k, c.more /\ t.cursor > IF Restarted(rep[r], c) THEN 0 ELSE c.cursor)
      BY DEF Deliver
    <2> QED
      BY <2>1
  <1> HIDE DEF t
  <1>7. /\ CallsTyped' /\ call'[k] = NoCall
        /\ \A j \in Call : j # k => call'[j] = call[j]
        /\ loop' \in [Replica -> {"run", "busy", "parked"}]
    BY <1>2, <1>6, EndedDoes
  <1>8. ReplicasTyped' /\ rep'[r] = t /\ \A o \in Replica : o # r => rep'[o] = rep[o]
    <2>1. ReplicasTyped
      BY DEF Types
    <2> QED
      BY <1>3, <1>4, <1>5, <2>1, RepMoved
  <1>9. ServerTyped'
    BY <1>5, ServerStays DEF Types
  <1>10. LoopsTyped'
    BY <1>5, <1>7 DEF Types, LoopsTyped
  <1> QED
    BY <1>1, <1>3, <1>5, <1>7, <1>8, <1>9, <1>10 DEF Types, t

\* A failed, discarded or abandoned call leaves everything else alone.
LEMMA FailedDoes ==
  ASSUME Types, NEW k \in Call, Failed(k) \/ Discard(k)
  PROVE  /\ Types' /\ call'[k] = NoCall
         /\ \A j \in Call : j # k => call'[j] = call[j]
         /\ UNCHANGED <<server, rep, unsent, history>>
  <1>1. CASE Failed(k)
    <2>1. call[k] # NoCall /\ Ended(k, TRUE) /\ UNCHANGED <<server, rep, unsent, history>>
          /\ Retried(k)
      BY <1>1 DEF Failed
    <2>2. /\ CallsTyped' /\ call'[k] = NoCall
          /\ \A j \in Call : j # k => call'[j] = call[j]
          /\ loop' \in [Replica -> {"run", "busy", "parked"}]
      BY <2>1, EndedDoes
    <2>3. wake' \in [Replica -> BOOLEAN]
      BY <2>1, RetriedDoes DEF Types
    <2> QED
      BY <2>1, <2>2, <2>3, ServerStays DEF Types, LoopsTyped, ReplicasTyped, history
  <1>2. CASE Discard(k)
    <2>1. /\ call' = [call EXCEPT ![k] = NoCall]
          /\ UNCHANGED <<server, rep, unsent, history, loop, wake>>
      BY <1>2 DEF Discard, clients
    <2>2. /\ CallsTyped' /\ call'[k] = NoCall
          /\ \A j \in Call : j # k => call'[j] = call[j]
      BY <2>1, CallMoved DEF Types
    <2> QED
      BY <2>1, <2>2, ServerStays DEF Types, LoopsTyped, ReplicasTyped, history
  <1> QED
    BY <1>1, <1>2

\* The same call, but for who waits for it.
Unattended(c, d) == d = c \/ (c # NoCall /\ d = [c EXCEPT !.waiting = FALSE])

LEMMA UnattendedIs ==
  ASSUME NEW c, c = NoCall \/ CallTypes(c), NEW d, Unattended(c, d)
  PROVE  /\ d = NoCall <=> c = NoCall
         /\ d # NoCall =>
              /\ CallTypes(d) /\ d.of = c.of /\ d.phase = c.phase /\ d.cursor = c.cursor
              /\ d.pending = c.pending /\ d.from = c.from /\ d.epoch = c.epoch
              /\ d.done = c.done /\ d.acks = c.acks /\ d.rejects = c.rejects
              /\ d.ops = c.ops /\ d.more = c.more /\ d.checkpoint = c.checkpoint
  <1>1. CASE d = c
    BY <1>1
  <1>2. CASE c # NoCall /\ d = [c EXCEPT !.waiting = FALSE]
    <2>1. c \in CallRecord
      BY <1>2 DEF CallTypes
    <2>2. d \in CallRecord
      BY <1>2, <2>1 DEF CallRecord
    <2>3. /\ d.of = c.of /\ d.phase = c.phase /\ d.cursor = c.cursor
          /\ d.pending = c.pending /\ d.from = c.from /\ d.epoch = c.epoch
          /\ d.done = c.done /\ d.acks = c.acks /\ d.rejects = c.rejects
          /\ d.ops = c.ops /\ d.more = c.more /\ d.checkpoint = c.checkpoint
      BY <1>2, <2>1 DEF CallRecord
    <2>4. CallTypes(d)
      BY <1>2, <2>2, <2>3 DEF CallTypes
    <2> QED
      BY <1>2, <2>3, <2>4, CallsDiffer
  <1> QED
    BY <1>1, <1>2 DEF Unattended

LEMMA GiveUpDoes ==
  ASSUME Types, NEW k \in Call, GiveUp(k)
  PROVE  /\ Types' /\ \A j \in Call : Unattended(call[j], call'[j])
         /\ UNCHANGED <<server, rep, unsent, history>>
  <1>0. CallsTyped /\ LoopsTyped /\ CallTypes(call[k])
    BY DEF Types, CallsTyped, GiveUp
  <1>1. /\ call' = [call EXCEPT ![k] = [call[k] EXCEPT !.waiting = FALSE]] /\ call[k] # NoCall
        /\ Retried(k) /\ UNCHANGED <<server, rep, unsent, history>>
        /\ loop' = IF call[k].by = "loop" THEN [loop EXCEPT ![call[k].of] = "run"] ELSE loop
    BY <1>0 DEF GiveUp
  <1> DEFINE d == [call[k] EXCEPT !.waiting = FALSE]
  <1>2. CallTypes(d)
    BY <1>0, <1>1, UnattendedIs, CallsDiffer DEF Unattended
  <1>3. CallsTyped' /\ call'[k] = d /\ \A j \in Call : j # k => call'[j] = call[j]
    <2>1. call' = [call EXCEPT ![k] = d]
      BY <1>1
    <2> HIDE DEF d
    <2> QED
      BY <1>0, <1>2, <2>1, CallMoved
  <1>4. \A j \in Call : Unattended(call[j], call'[j])
    BY <1>1, <1>3 DEF Unattended
  <1>5. LoopsTyped'
    <2>1. call[k].of \in Replica
      BY <1>0, CallFields
    <2>2. wake' \in [Replica -> BOOLEAN]
      BY <1>0, <1>1, RetriedDoes
    <2> QED
      BY <1>0, <1>1, <2>1, <2>2 DEF LoopsTyped
  <1> QED
    BY <1>1, <1>3, <1>4, <1>5, ServerStays DEF Types, ReplicasTyped, history

LEMMA ReopenDoes ==
  ASSUME Types, NEW r \in Replica, Reopen(r)
  PROVE  /\ Types' /\ \A j \in Call : Unattended(call[j], call'[j])
         /\ UNCHANGED <<server, rep, history>>
         /\ unsent'[r] = {} /\ \A o \in Replica : o # r => unsent'[o] = unsent[o]
  <1>0. CallsTyped /\ LoopsTyped
    BY DEF Types
  <1>1. /\ call' = [k \in Call |-> IF call[k] # NoCall /\ call[k].of = r
                                   THEN [call[k] EXCEPT !.waiting = FALSE] ELSE call[k]]
        /\ UNCHANGED <<server, rep, history>>
        /\ unsent' = [unsent EXCEPT ![r] = {}]
        /\ loop' = [loop EXCEPT ![r] = "run"] /\ wake' = [wake EXCEPT ![r] = FALSE]
    BY DEF Reopen
  <1>2. \A j \in Call : Unattended(call[j], call'[j])
    BY <1>1 DEF Unattended
  <1>3. \A j \in Call : call'[j] = NoCall \/ CallTypes(call'[j])
    <2> SUFFICES ASSUME NEW j \in Call
                 PROVE  call'[j] = NoCall \/ CallTypes(call'[j])
      OBVIOUS
    <2>1. Unattended(call[j], call'[j]) /\ (call[j] = NoCall \/ CallTypes(call[j]))
      BY <1>0, <1>2 DEF CallsTyped
    <2> QED
      BY <2>1, UnattendedIs
  <1>4. call' = [k \in Call |-> call'[k]]
    BY <1>1
  <1>5. CallsTyped'
    BY <1>3, <1>4 DEF CallsTyped
  <1>6. /\ LoopsTyped' /\ unsent'[r] = {}
        /\ \A o \in Replica : o # r => unsent'[o] = unsent[o]
    BY <1>0, <1>1 DEF LoopsTyped
  <1> QED
    BY <1>1, <1>2, <1>5, <1>6, ServerStays DEF Types, ReplicasTyped, history

\* What the server leaves of a request.
SameRequest(c, d) == d.of = c.of /\ d.cursor = c.cursor /\ d.pending = c.pending
SameWork(c, d) ==
  SameRequest(c, d) /\ d.done = c.done /\ d.acks = c.acks /\ d.rejects = c.rejects

SameReply(c, d) == d.ops = c.ops /\ d.more = c.more /\ d.checkpoint = c.checkpoint

\* A call that takes a step of its own.
CallStepped(k) ==
  /\ call' = [j \in Call |-> call'[j]]
  /\ \A j \in Call : j # k => call'[j] = call[j]

LEMMA CallsTypedStill ==
  ASSUME CallsTyped, NEW k \in Call, CallStepped(k), CallTypes(call'[k])
  PROVE  CallsTyped'
  BY DEF CallsTyped, CallStepped

\* The journal takes its identity when it has none.
LEMMA EpochTaken ==
  ASSUME ServerTyped, epoch' = IF epoch = 0 THEN Fresh ELSE epoch,
         IF epoch = 0 THEN Journal!Begin ELSE UNCHANGED used
  PROVE  /\ epoch' # 0 /\ epoch' \in used' /\ epoch' \in Epochs /\ used \subseteq used'
         /\ used' = 1..Cardinality(used') /\ Cardinality(used') \in Epochs
         /\ epoch = 0 => epoch' \notin used
         /\ epoch # 0 => epoch' = epoch
  <1>1. CASE epoch = 0
    <2>1. used' = used \cup {Fresh} /\ epoch' = Fresh
      BY <1>1 DEF Journal!Begin
    <2> QED
      BY <1>1, <2>1, FreshIsNext
  <1>2. CASE epoch # 0
    <2>1. epoch' = epoch /\ used' = used /\ epoch \in used
      BY <1>2 DEF ServerTyped
    <2>2. epoch \in Epochs
      <3>1. /\ used = 1..Cardinality(used) /\ Cardinality(used) \in Epochs
            /\ MaxResets \in Nat
        BY SyncBoundsAssumption DEF ServerTyped
      <3> HIDE DEF ServerTyped
      <3>2. ASSUME NEW n \in Epochs, epoch \in 1..n
            PROVE  epoch \in Epochs
        BY <3>1, <3>2 DEF Epochs
      <3> QED
        BY <2>1, <3>1, <3>2
    <2> QED
      BY <1>2, <2>1, <2>2 DEF ServerTyped
  <1> QED
    BY <1>1, <1>2

LEMMA HandleEpochDoes ==
  ASSUME Types, NEW k \in Call, HandleEpoch(k)
  PROVE  LET c == call[k]  d == call'[k] IN
         /\ Types' /\ CallTypes(c) /\ CallTypes(d) /\ SameWork(c, d) /\ SameReply(c, d)
         /\ d.phase = "check" /\ d.epoch = epoch' /\ d.from \in {0, c.cursor}
         /\ \A j \in Call : j # k => call'[j] = call[j]
         /\ epoch' # 0 /\ epoch' \in used' /\ used \subseteq used'
         /\ epoch = 0 => epoch' \notin used
         /\ epoch # 0 => epoch' = epoch
         /\ UNCHANGED <<log, floor, rep, unsent, history>>
  <1> DEFINE c == call[k]
             d == call'[k]
  <1>0. ServerTyped /\ CallsTyped /\ ReplicasTyped /\ LoopsTyped
    BY DEF Types
  <1>1. /\ c.phase = "sent"
        /\ epoch' = IF epoch = 0 THEN Fresh ELSE epoch
        /\ IF epoch = 0 THEN Journal!Begin ELSE UNCHANGED used
        /\ UNCHANGED <<log, floor, rep, unsent, loop, wake, history>>
        /\ call' = [call EXCEPT ![k].phase = "check", ![k].epoch = epoch',
             ![k].from = IF call[k].seen \notin {0, epoch'} THEN 0 ELSE call[k].cursor]
    BY DEF HandleEpoch, Journal!Open, clients
  <1>2. CallTypes(c) /\ call = [j \in Call |-> call[j]]
    BY <1>0, <1>1 DEF CallsTyped, NoCall
  <1>3. /\ epoch' # 0 /\ epoch' \in used' /\ epoch' \in Epochs /\ used \subseteq used'
        /\ used' = 1..Cardinality(used') /\ Cardinality(used') \in Epochs
        /\ epoch = 0 => epoch' \notin used
        /\ epoch # 0 => epoch' = epoch
    BY <1>0, <1>1, EpochTaken
  <1>4. c \in CallRecord /\ c.cursor \in Nat
    BY <1>2, CallFields DEF CallTypes
  <1>5. /\ d.phase = "check" /\ d.epoch = epoch' /\ d.from \in {0, c.cursor}
        /\ SameWork(c, d) /\ SameReply(c, d)
        /\ d \in CallRecord
    BY <1>1, <1>2, <1>3, <1>4 DEF CallRecord, SameRequest, SameWork, SameReply, Phases
  <1>6. CallStepped(k)
    BY <1>1, <1>2 DEF CallStepped
  <1>7. CallTypes(d)
    BY <1>2, <1>5 DEF CallTypes, SameRequest, SameWork, SameReply
  <1>8. CallsTyped'
    BY <1>0, <1>6, <1>7, CallsTypedStill
  <1>9. ServerTyped'
    BY <1>0, <1>1, <1>3 DEF ServerTyped, Journal!Entry, history
  <1>10. ReplicasTyped' /\ LoopsTyped'
    BY <1>0, <1>1 DEF ReplicasTyped, LoopsTyped
  <1> QED
    BY <1>1, <1>2, <1>3, <1>5, <1>6, <1>7, <1>8, <1>9, <1>10 DEF Types, CallStepped

LEMMA HandleCursorDoes ==
  ASSUME Types, NEW k \in Call, HandleCursor(k)
  PROVE  LET c == call[k]  d == call'[k] IN
         /\ Types' /\ CallTypes(c) /\ CallTypes(d) /\ SameWork(c, d) /\ SameReply(c, d)
         /\ c.phase = "check" /\ d.phase \in {"failed", "append"}
         /\ d.epoch = c.epoch /\ d.from = c.from
         /\ \A j \in Call : j # k => call'[j] = call[j]
         /\ UNCHANGED <<server, rep, unsent, history>>
  <1> DEFINE c == call[k]
             d == call'[k]
  <1>0. ServerTyped /\ CallsTyped /\ ReplicasTyped /\ LoopsTyped
    BY DEF Types
  <1>1. /\ c.phase = "check"
        /\ call' = [call EXCEPT ![k].phase =
                IF call[k].from > Len(log) THEN "failed" ELSE "append"]
        /\ UNCHANGED <<server, rep, unsent, loop, wake, history>>
    BY DEF HandleCursor, clients
  <1>2. CallTypes(c) /\ call = [j \in Call |-> call[j]]
    BY <1>0, <1>1 DEF CallsTyped, NoCall
  <1>4. c \in CallRecord
    BY <1>2 DEF CallTypes
  <1>5. /\ d.phase \in {"failed", "append"} /\ d.epoch = c.epoch /\ d.from = c.from
        /\ SameWork(c, d) /\ SameReply(c, d)
        /\ d \in CallRecord
    BY <1>1, <1>2, <1>4 DEF CallRecord, SameRequest, SameWork, SameReply, Phases
  <1>6. CallStepped(k)
    BY <1>1, <1>2 DEF CallStepped
  <1>7. CallTypes(d)
    BY <1>2, <1>5 DEF CallTypes, SameRequest, SameWork, SameReply
  <1>8. CallsTyped'
    BY <1>0, <1>6, <1>7, CallsTypedStill
  <1>10. ServerTyped' /\ ReplicasTyped' /\ LoopsTyped'
    BY <1>0, <1>1, ServerStays DEF ReplicasTyped, LoopsTyped, history
  <1> QED
    BY <1>1, <1>2, <1>5, <1>6, <1>7, <1>8, <1>10 DEF Types, CallStepped

\* A failed exchange leaves everything but its phase.
LEMMA HandleFailureDoes ==
  ASSUME Types, NEW k \in Call, HandleFailure(k)
  PROVE  LET c == call[k]  d == call'[k] IN
         /\ Types' /\ CallTypes(c) /\ CallTypes(d) /\ SameWork(c, d) /\ SameReply(c, d)
         /\ d.phase = "failed"
         /\ d.epoch = c.epoch /\ d.from = c.from
         /\ \A j \in Call : j # k => call'[j] = call[j]
         /\ UNCHANGED <<server, rep, unsent, history>>
  <1> DEFINE c == call[k]
             d == call'[k]
  <1>0. ServerTyped /\ CallsTyped /\ ReplicasTyped /\ LoopsTyped
    BY DEF Types
  <1>1. /\ c.phase \in {"sent", "check", "append", "load"}
        /\ call' = [call EXCEPT ![k].phase = "failed"]
        /\ UNCHANGED <<server, rep, unsent, loop, wake, history>>
    BY DEF HandleFailure
  <1>2. CallTypes(c) /\ call = [j \in Call |-> call[j]]
    BY <1>0, <1>1 DEF CallsTyped, NoCall
  <1>4. c \in CallRecord
    BY <1>2 DEF CallTypes
  <1>5. /\ d.phase = "failed" /\ d.epoch = c.epoch /\ d.from = c.from
        /\ SameWork(c, d) /\ SameReply(c, d)
        /\ d \in CallRecord
    BY <1>1, <1>2, <1>4 DEF CallRecord, SameRequest, SameWork, SameReply, Phases
  <1>6. CallStepped(k)
    BY <1>1, <1>2 DEF CallStepped
  <1>7. CallTypes(d)
    BY <1>2, <1>5 DEF CallTypes, SameRequest, SameWork, SameReply
  <1>8. CallsTyped'
    BY <1>0, <1>6, <1>7, CallsTypedStill
  <1>10. ServerTyped' /\ ReplicasTyped' /\ LoopsTyped'
    BY <1>0, <1>1, ServerStays DEF ReplicasTyped, LoopsTyped, history
  <1> QED
    BY <1>1, <1>2, <1>5, <1>6, <1>7, <1>8, <1>10 DEF Types, CallStepped

\* The next pending operation is acknowledged or rejected, and nothing else of the
\* call changes.
Answered(c, d, op) ==
  /\ SameRequest(c, d) /\ SameReply(c, d)
  /\ d.phase = "append" /\ d.epoch = c.epoch /\ d.from = c.from /\ d.done = c.done + 1
  /\ \/ d.acks = c.acks \cup {op.id} /\ d.rejects = c.rejects
     \/ d.acks = c.acks /\ d.rejects = c.rejects \cup {op.id}

\* Why it is answered so, and what that does to the journal.
Refuses(c, d, op) ==
  /\ d.acks = c.acks
  /\ AdmitVaries \/ (Prior(op) # {} /\ ~Resent(op)) \/ (Prior(op) = {} /\ ~Allowed(op))
  /\ UNCHANGED server
AcknowledgesAgain(c, d, op) ==
  /\ d.rejects = c.rejects
  /\ Prior(op) # {} /\ Resent(op)
  /\ UNCHANGED server
Commits(c, d, op) ==
  /\ d.rejects = c.rejects
  /\ Prior(op) = {} /\ Allowed(op)
  /\ log' = Append(log, Entry(c.of, op))
  /\ epoch' # 0 /\ epoch' \in used' /\ used \subseteq used' /\ floor' = floor
  /\ epoch = 0 => epoch' \notin used
  /\ epoch # 0 => epoch' = epoch

LEMMA AnsweredKeepsTypes ==
  ASSUME NEW c, CallTypes(c), NEW op, NEW d, c.done < Len(c.pending),
         op = c.pending[c.done + 1], c.phase = "append",
         \/ d = [c EXCEPT !.done = @ + 1, !.acks = @ \cup {op.id}]
         \/ d = [c EXCEPT !.done = @ + 1, !.rejects = @ \cup {op.id}]
  PROVE  /\ CallTypes(d) /\ Answered(c, d, op) /\ op \in Operation
  <1>1. /\ c \in CallRecord /\ c.done \in Nat /\ c.acks \subseteq Ids /\ c.rejects \subseteq Ids
        /\ c.pending \in Seq(Operation)
        /\ c.checkpoint # <<>> => c.ops = <<>>
    BY CallFields DEF CallTypes
  <1>2. c.done + 1 \in Nat /\ c.done + 1 <= Len(c.pending) /\ op \in Operation
    BY <1>1
  <1>3. op.id \in Ids
    BY <1>2, OperationTyped
  <1>4. d \in CallRecord
    <2>1. /\ c \in CallRecord /\ c.done + 1 \in Nat
          /\ c.acks \cup {op.id} \in SUBSET Ids /\ c.rejects \cup {op.id} \in SUBSET Ids
      BY <1>1, <1>2, <1>3
    <2>2. CASE d = [c EXCEPT !.done = @ + 1, !.acks = @ \cup {op.id}]
      BY <2>1, <2>2 DEF CallRecord
    <2>3. CASE d = [c EXCEPT !.done = @ + 1, !.rejects = @ \cup {op.id}]
      BY <2>1, <2>3 DEF CallRecord
    <2> QED
      BY <2>2, <2>3
  <1>5. Answered(c, d, op)
    BY <1>1 DEF CallRecord, Answered, SameRequest, SameReply
  <1>6. CallTypes(d)
    BY <1>1, <1>2, <1>4, <1>5 DEF CallTypes, Answered, SameRequest, SameReply
  <1> QED
    BY <1>2, <1>5, <1>6

LEMMA HandleOperationDoes ==
  ASSUME Types, NEW k \in Call, HandleOperation(k)
  PROVE  LET c == call[k]  d == call'[k]  op == c.pending[c.done + 1] IN
         /\ Types' /\ CallTypes(c) /\ CallTypes(d)
         /\ c.phase = "append" /\ c.done < Len(c.pending) /\ op \in Operation
         /\ Answered(c, d, op)
         /\ Refuses(c, d, op) \/ AcknowledgesAgain(c, d, op) \/ Commits(c, d, op)
         /\ \A j \in Call : j # k => call'[j] = call[j]
         /\ UNCHANGED <<rep, unsent, history>>
  <1> DEFINE c == call[k]
             d == call'[k]
             op == c.pending[c.done + 1]
  <1>0. ServerTyped /\ CallsTyped /\ ReplicasTyped /\ LoopsTyped
    BY DEF Types
  <1>1. /\ c.phase = "append" /\ c.done < Len(c.pending)
        /\ UNCHANGED <<rep, unsent, loop, history>>
        /\ \/ AdmitVaries /\ Reject(k, op) /\ UNCHANGED <<server, wake>>
           \/ /\ Prior(op) # {}
              /\ IF Resent(op) THEN Acknowledge(k, op) ELSE Reject(k, op)
              /\ UNCHANGED <<server, wake>>
           \/ Prior(op) = {} /\ ~Allowed(op) /\ Reject(k, op) /\ UNCHANGED <<server, wake>>
           \/ /\ Prior(op) = {} /\ Allowed(op)
              /\ epoch' = IF epoch = 0 THEN Fresh ELSE epoch
              /\ Journal!CommitEntry(Entry(c.of, op))
              /\ Acknowledge(k, op)
              /\ wake' = [r \in Replica |-> TRUE]
              /\ UNCHANGED floor
    BY DEF HandleOperation, clients
  <1>2. CallTypes(c) /\ call = [j \in Call |-> call[j]]
    BY <1>0, <1>1 DEF CallsTyped, NoCall
  <1>3. c.of \in Replica /\ c.pending \in Seq(Operation) /\ c.done \in Nat
    BY <1>2, CallFields
  <1> HIDE DEF op
  <1> DEFINE acked == [c EXCEPT !.done = @ + 1, !.acks = @ \cup {op.id}]
             rejected == [c EXCEPT !.done = @ + 1, !.rejects = @ \cup {op.id}]
  <1>4. Acknowledge(k, op) => d = acked /\ CallStepped(k)
    <2> SUFFICES ASSUME Acknowledge(k, op)
                 PROVE  d = acked /\ CallStepped(k)
      OBVIOUS
    <2>1. call' = [call EXCEPT ![k].done = @ + 1, ![k].acks = @ \cup {op.id}]
      BY DEF Acknowledge
    <2>2. call' = [call EXCEPT ![k] = acked]
      BY <1>2, <2>1
    <2> QED
      BY <1>2, <2>2 DEF CallStepped
  <1>5. Reject(k, op) => d = rejected /\ CallStepped(k)
    <2> SUFFICES ASSUME Reject(k, op)
                 PROVE  d = rejected /\ CallStepped(k)
      OBVIOUS
    <2>1. call' = [call EXCEPT ![k].done = @ + 1, ![k].rejects = @ \cup {op.id}]
      BY DEF Reject
    <2>2. call' = [call EXCEPT ![k] = rejected]
      BY <1>2, <2>1
    <2> QED
      BY <1>2, <2>2 DEF CallStepped
  <1>6. (d = acked \/ d = rejected) /\ CallStepped(k)
    BY <1>1, <1>4, <1>5
  <1>7. CallTypes(d) /\ Answered(c, d, op) /\ op \in Operation
    BY <1>1, <1>2, <1>6, AnsweredKeepsTypes DEF op
  <1>8. /\ d = acked => d.rejects = c.rejects
        /\ d = rejected => d.acks = c.acks
    BY <1>2 DEF CallTypes, CallRecord
  <1> HIDE DEF acked, rejected, c, d
  <1>9. CallsTyped'
    BY <1>0, <1>6, <1>7, CallsTypedStill DEF d
  <1>10. ReplicasTyped'
    BY <1>0, <1>1 DEF ReplicasTyped
  <1>11. Refuses(c, d, op) \/ AcknowledgesAgain(c, d, op) => ServerTyped'
    BY <1>0, <1>1, ServerStays DEF Refuses, AcknowledgesAgain, history
  <1>12. wake' \in [Replica -> BOOLEAN]
    BY <1>0, <1>1 DEF LoopsTyped
  <1>13. LoopsTyped'
    BY <1>0, <1>1, <1>12 DEF LoopsTyped
  <1>14. ASSUME Prior(op) = {}, Allowed(op),
                epoch' = IF epoch = 0 THEN Fresh ELSE epoch,
                Journal!CommitEntry(Entry(c.of, op)), Acknowledge(k, op), UNCHANGED floor
         PROVE  Commits(c, d, op) /\ ServerTyped'
    <2>1. /\ log' = Append(log, Entry(c.of, op))
          /\ IF epoch = 0 THEN Journal!Begin ELSE UNCHANGED used
      BY <1>14 DEF Journal!CommitEntry
    <2>2. /\ epoch' # 0 /\ epoch' \in used' /\ epoch' \in Epochs /\ used \subseteq used'
          /\ used' = 1..Cardinality(used') /\ Cardinality(used') \in Epochs
          /\ epoch = 0 => epoch' \notin used
          /\ epoch # 0 => epoch' = epoch
      BY <1>0, <1>14, <2>1, EpochTaken
    <2>3. Entry(c.of, op) \in Journal!Entry
      BY <1>3, <1>7 DEF Entry, Journal!Entry
    <2>4. /\ log' \in Seq(Journal!Entry) /\ floor' \in 0..Len(log')
      <3> DEFINE E == Journal!Entry
                 e == Entry(c.of, op)
      <3>1. log \in Seq(E) /\ floor \in 0..Len(log) /\ floor' = floor /\ log' = Append(log, e)
            /\ e \in E
        BY <1>0, <1>14, <2>1, <2>3 DEF ServerTyped
      <3> HIDE DEF E, e
      <3>2. log' \in Seq(E) /\ floor' \in 0..Len(log')
        BY <3>1
      <3> QED
        BY <3>2 DEF E
    <2>5. ServerTyped'
      BY <1>0, <1>1, <2>2, <2>4 DEF ServerTyped, Journal!Entry, history
    <2>6. d.rejects = c.rejects
      BY <1>4, <1>8, <1>14 DEF d
    <2> QED
      BY <1>14, <2>1, <2>2, <2>5, <2>6 DEF Commits
  <1>15. /\ Refuses(c, d, op) \/ AcknowledgesAgain(c, d, op) \/ Commits(c, d, op)
         /\ ServerTyped'
    BY <1>1, <1>4, <1>5, <1>8, <1>11, <1>14 DEF Refuses, AcknowledgesAgain, d
  <1> QED
    BY <1>1, <1>2, <1>6, <1>7, <1>9, <1>10, <1>13, <1>15 DEF Types, CallStepped, c, d, op

\* A page is the log after its start, and the last one reaches the log's end.
LEMMA PageIs ==
  ASSUME ServerTyped, NEW from \in Nat, from <= Len(log)
  PROVE  LET page == SubSeq(LogOps, from + 1, Min({from + Limit, Len(log)})) IN
         /\ page \in Seq(Operation) /\ FromLog(from, page)
         /\ Len(page) # Limit => from + Len(page) = Len(log)
  <1> DEFINE n == Len(log)
             upto == IF from + Limit <= n THEN from + Limit ELSE n
             page == SubSeq(LogOps, from + 1, Min({from + Limit, Len(log)}))
  <1>1. /\ LogOps \in Seq(Operation) /\ Len(LogOps) = n /\ n \in Nat
        /\ \A i \in 1..n : LogOps[i] = log[i].op
        /\ Limit \in Nat /\ from \in Nat /\ from <= n
    BY LogTyped, LimitAssumption
  <1>2. Min({from + Limit, Len(log)}) = upto
    <2>1. from + Limit \in Int /\ n \in Int
      BY <1>1
    <2> QED
      BY <2>1, MinOfTwo
  <1>3. page = SubSeq(LogOps, from + 1, upto)
    BY <1>2
  <1>4. upto \in from..n /\ (upto - from # Limit => upto = n)
    BY <1>1
  <1> HIDE DEF upto, page, n
  <1>5. /\ page \in Seq(Operation) /\ Len(page) = upto - from
        /\ \A i \in 1..(upto - from) : page[i] = LogOps[from + i]
    BY <1>1, <1>3, <1>4
  <1>6. \A i \in 1..(upto - from) : from + i \in 1..n
    BY <1>1, <1>4
  <1>7. from + Len(page) <= n /\ \A i \in 1..Len(page) : page[i] = log[from + i].op
    BY <1>1, <1>4, <1>5, <1>6
  <1>8. Len(page) # Limit => from + Len(page) = n
    BY <1>1, <1>4, <1>5
  <1> QED
    BY <1>5, <1>7, <1>8 DEF FromLog, n, page

LEMMA HandleReadDoes ==
  ASSUME Types, NEW k \in Call, HandleRead(k)
  PROVE  LET c == call[k]  d == call'[k] IN
         /\ Types' /\ CallTypes(c) /\ CallTypes(d) /\ SameWork(c, d)
         /\ c.phase = "append" /\ c.done = Len(c.pending)
         /\ d.epoch = c.epoch /\ d.from = c.from
         /\ \/ d.phase \in {"failed", "load"} /\ SameReply(c, d)
            \/ /\ d.phase = "reply" /\ d.checkpoint = <<>> /\ FromLog(d.from, d.ops)
               /\ ~d.more => d.from + Len(d.ops) = Len(log)
         /\ \A j \in Call : j # k => call'[j] = call[j]
         /\ UNCHANGED <<server, rep, unsent, history>>
  <1> DEFINE c == call[k]
             d == call'[k]
             page == SubSeq(LogOps, c.from + 1, Min({c.from + Limit, Len(log)}))
             answer == Replied(c, page, Len(page) = Limit, <<>>)
  <1>0. ServerTyped /\ CallsTyped /\ ReplicasTyped /\ LoopsTyped
    BY DEF Types
  <1>1. /\ c.phase = "append" /\ c.done = Len(c.pending)
        /\ UNCHANGED <<server, rep, unsent, loop, wake, history>>
        /\ IF c.from > Len(log) THEN call' = [call EXCEPT ![k].phase = "failed"]
           ELSE IF c.from < floor THEN call' = [call EXCEPT ![k].phase = "load"]
           ELSE call' = [call EXCEPT ![k] = answer]
    BY DEF HandleRead, clients
  <1>2. CallTypes(c) /\ call = [j \in Call |-> call[j]]
    BY <1>0, <1>1 DEF CallsTyped, NoCall
  <1>3. /\ c \in CallRecord /\ c.from \in Nat /\ Len(log) \in Nat
        /\ c.done <= Len(c.pending) /\ (c.checkpoint # <<>> => c.ops = <<>>)
    BY <1>0, <1>2, CallFields, LogTyped DEF CallTypes
  <1>4. ASSUME NEW to \in {"failed", "load"}, call' = [call EXCEPT ![k].phase = to]
        PROVE  /\ CallTypes(d) /\ SameWork(c, d) /\ SameReply(c, d) /\ CallStepped(k)
               /\ d.epoch = c.epoch /\ d.from = c.from /\ d.phase = to
    <2>1. d = [c EXCEPT !.phase = to] /\ CallStepped(k)
      BY <1>2, <1>4 DEF CallStepped
    <2>2. to \in Phases
      BY DEF Phases
    <2> HIDE DEF d, c
    <2>3. d \in CallRecord /\ d.epoch = c.epoch /\ d.from = c.from /\ d.phase = to
      BY <1>3, <2>1, <2>2 DEF CallRecord
    <2>4. SameWork(c, d) /\ SameReply(c, d)
      BY <1>3, <2>1 DEF CallRecord, SameRequest, SameWork, SameReply
    <2> QED
      BY <1>3, <2>1, <2>3, <2>4 DEF CallTypes, SameRequest, SameWork, SameReply
  <1>5. ASSUME c.from <= Len(log), call' = [call EXCEPT ![k] = answer]
        PROVE  /\ CallTypes(d) /\ SameWork(c, d) /\ CallStepped(k)
               /\ d.epoch = c.epoch /\ d.from = c.from
               /\ d.phase = "reply" /\ d.checkpoint = <<>> /\ FromLog(d.from, d.ops)
               /\ ~d.more => d.from + Len(d.ops) = Len(log)
    <2>1. d = answer /\ CallStepped(k)
      BY <1>2, <1>5 DEF CallStepped
    <2>2. /\ page \in Seq(Operation) /\ FromLog(c.from, page)
          /\ Len(page) # Limit => c.from + Len(page) = Len(log)
      BY <1>0, <1>3, <1>5, PageIs
    <2>3. "reply" \in Phases /\ (Len(page) = Limit) \in BOOLEAN /\ <<>> \in Seq(Checkpoint)
      BY DEF Phases
    <2>4. d = [c EXCEPT !.phase = "reply", !.ops = page, !.more = (Len(page) = Limit),
                        !.checkpoint = <<>>]
      BY <2>1 DEF Replied
    <2> HIDE DEF d, c, page, answer
    <2>5. d \in CallRecord /\ d.epoch = c.epoch /\ d.from = c.from
          /\ d.phase = "reply" /\ d.checkpoint = <<>> /\ d.ops = page
          /\ d.more = (Len(page) = Limit)
      BY <1>3, <2>2, <2>3, <2>4 DEF CallRecord
    <2>6. SameWork(c, d)
      BY <1>3, <2>4 DEF CallRecord, SameRequest, SameWork
    <2> QED
      BY <1>3, <2>1, <2>2, <2>5, <2>6 DEF CallTypes, SameRequest, SameWork
  <1> HIDE DEF c, d, answer
  <1>6. /\ CallTypes(d) /\ SameWork(c, d) /\ CallStepped(k)
        /\ d.epoch = c.epoch /\ d.from = c.from
        /\ \/ d.phase \in {"failed", "load"} /\ SameReply(c, d)
           \/ /\ d.phase = "reply" /\ d.checkpoint = <<>> /\ FromLog(d.from, d.ops)
              /\ ~d.more => d.from + Len(d.ops) = Len(log)
    <2>1. c.from > Len(log) \/ c.from <= Len(log)
      BY <1>3
    <2> QED
      BY <1>1, <1>4, <1>5, <2>1
  <1>7. CallsTyped'
    BY <1>0, <1>6, CallsTypedStill DEF d
  <1>8. ServerTyped' /\ ReplicasTyped' /\ LoopsTyped'
    BY <1>0, <1>1, ServerStays DEF ReplicasTyped, LoopsTyped, history
  <1> QED
    BY <1>1, <1>2, <1>6, <1>7, <1>8 DEF Types, CallStepped, c, d

LEMMA HandleLoadDoes ==
  ASSUME Types, NEW k \in Call, HandleLoad(k)
  PROVE  LET c == call[k]  d == call'[k] IN
         /\ Types' /\ CallTypes(c) /\ CallTypes(d) /\ SameWork(c, d)
         /\ c.phase = "load" /\ d.phase = "reply" /\ d.epoch = c.epoch /\ d.from = c.from
         /\ d.ops = <<>> /\ d.checkpoint # <<>>
         /\ d.checkpoint[1].cursor = Len(log) /\ d.checkpoint[1].model = LogOps
         /\ \A j \in Call : j # k => call'[j] = call[j]
         /\ UNCHANGED <<server, rep, unsent, history>>
  <1> DEFINE c == call[k]
             d == call'[k]
             point == <<[cursor |-> Len(log), model |-> LogOps]>>
  <1>0. ServerTyped /\ CallsTyped /\ ReplicasTyped /\ LoopsTyped
    BY DEF Types
  <1>1. /\ c.phase = "load" /\ call' = [call EXCEPT ![k] = Replied(c, <<>>, FALSE, point)]
        /\ UNCHANGED <<server, rep, unsent, loop, wake, history>>
    BY DEF HandleLoad, clients
  <1>2. CallTypes(c) /\ call = [j \in Call |-> call[j]]
    BY <1>0, <1>1 DEF CallsTyped, NoCall
  <1>3. /\ c \in CallRecord /\ Len(log) \in Nat /\ LogOps \in Seq(Operation)
        /\ c.done <= Len(c.pending)
    BY <1>0, <1>2, CallFields, LogTyped DEF CallTypes
  <1>4. d = Replied(c, <<>>, FALSE, point) /\ CallStepped(k)
    BY <1>1, <1>2 DEF CallStepped
  <1>5. /\ point \in Seq(Checkpoint) /\ point # <<>>
        /\ point[1].cursor = Len(log) /\ point[1].model = LogOps
    <2>1. [cursor |-> Len(log), model |-> LogOps] \in Checkpoint
      BY <1>3 DEF Checkpoint
    <2> QED
      BY <2>1
  <1>6. d = [c EXCEPT !.phase = "reply", !.ops = <<>>, !.more = FALSE, !.checkpoint = point]
    BY <1>4 DEF Replied
  <1> HIDE DEF c, d, point
  <1>7. "reply" \in Phases /\ <<>> \in Seq(Operation) /\ FALSE \in BOOLEAN
    BY DEF Phases
  <1>8. /\ d \in CallRecord /\ d.phase = "reply" /\ d.ops = <<>> /\ d.checkpoint = point
        /\ d.epoch = c.epoch /\ d.from = c.from
    BY <1>3, <1>5, <1>6, <1>7 DEF CallRecord
  <1>9. SameWork(c, d)
    BY <1>3, <1>6 DEF CallRecord, SameRequest, SameWork
  <1>10. CallTypes(d)
    BY <1>3, <1>8, <1>9 DEF CallTypes, SameRequest, SameWork
  <1>11. CallsTyped'
    BY <1>0, <1>4, <1>10, CallsTypedStill DEF d
  <1>12. ServerTyped' /\ ReplicasTyped' /\ LoopsTyped'
    BY <1>0, <1>1, ServerStays DEF ReplicasTyped, LoopsTyped, history
  <1> QED
    BY <1>1, <1>2, <1>4, <1>5, <1>8, <1>9, <1>10, <1>11, <1>12 DEF Types, CallStepped, c, d

LEMMA CompactDoes ==
  ASSUME Types, CompactJournal
  PROVE  Types' /\ UNCHANGED <<log, epoch, used, rep, unsent, call, history>>
  <1>1. /\ ServerTyped /\ Len(log) \in Nat
        /\ floor' \in (floor + 1)..Len(log)
        /\ UNCHANGED <<log, epoch, used, rep, unsent, loop, wake, call, history>>
    BY LogTyped DEF Types, CompactJournal
  <1>2. floor' \in 0..Len(log)
    <2>1. floor \in 0..Len(log)
      BY <1>1 DEF ServerTyped
    <2> QED
      BY <1>1, <2>1
  <1>3. ServerTyped'
    BY <1>1, <1>2 DEF ServerTyped, Journal!Entry, history
  <1> QED
    BY <1>1, <1>3 DEF Types, ReplicasTyped, LoopsTyped, CallsTyped

\* The operations of the log.
LEMMA LogSet == ToSet(LogOps) = InLog
  BY DEF ToSet, LogOps, InLog

\* A reset needs an identity that is not the last one.
LEMMA ResetDoes ==
  ASSUME Types, ResetJournal
  PROVE  /\ Types' /\ epoch # 0 /\ epoch \in used /\ ~NoResets
         /\ log' = <<>> /\ epoch' = 0 /\ used' = used
         /\ wiped' = wiped \cup InLog
         /\ UNCHANGED <<rep, unsent, call, refused>>
  <1>1. /\ ServerTyped /\ epoch # 0 /\ Cardinality(used) <= MaxResets
        /\ log' = <<>> /\ epoch' = 0 /\ used' = used /\ floor' = 0
        /\ wiped' = wiped \cup InLog
        /\ UNCHANGED <<rep, unsent, loop, wake, call, refused>>
    BY LogSet DEF Types, ResetJournal, Journal!Reset
  <1>2. epoch \in used
    BY <1>1 DEF ServerTyped
  <1>3. ~NoResets
    <2> DEFINE n == Cardinality(used)
    <2>1. used = 1..n /\ n \in Nat /\ epoch \in used /\ n <= MaxResets
      BY <1>1, <1>2, SyncBoundsAssumption DEF ServerTyped, Epochs
    <2> HIDE DEF n
    <2>2. n >= 1
      BY <2>1
    <2> QED
      BY <2>1, <2>2, SyncBoundsAssumption DEF NoResets
  <1>4. ServerTyped'
    <2>1. <<>> \in Seq(Journal!Entry) /\ Len(<<>>) = 0
      OBVIOUS
    <2>2. InLog \subseteq Operation
      BY <1>1, LogTyped
    <2> QED
      BY <1>1, <2>1, <2>2 DEF ServerTyped, Journal!Entry
  <1> QED
    BY <1>1, <1>2, <1>3, <1>4 DEF Types, ReplicasTyped, LoopsTyped, CallsTyped

LEMMA InitTypes ==
  ASSUME Init
  PROVE  Types
  <1>1. /\ log = <<>> /\ epoch = 0 /\ used = {} /\ floor = 0 /\ wiped = {}
        /\ rep = [r \in Replica |-> EmptyReplica]
        /\ unsent = [r \in Replica |-> {}] /\ loop = [r \in Replica |-> "run"]
        /\ wake = [r \in Replica |-> FALSE] /\ call = [k \in Call |-> NoCall]
    BY DEF Init, Journal!Init
  <1>2. ServerTyped
    <2>1. Cardinality({}) = 0 /\ 0 \in Epochs /\ 0 <= MaxResets /\ {} = 1..0
      BY FS_EmptySet, SyncBoundsAssumption DEF Epochs
    <2>2. <<>> \in Seq(Journal!Entry) /\ Len(<<>>) = 0
      OBVIOUS
    <2> QED
      BY <1>1, <2>1, <2>2 DEF ServerTyped
  <1>3. RepTypes(EmptyReplica)
    <2>1. /\ 1 \in 1..(MaxSubmits + 1) /\ 0 \in Nat /\ 0 \in Epochs /\ 0 <= IdWindow
          /\ Len(<<>>) = 0 /\ <<>> \in Seq(Operation) /\ <<>> \in Seq(Ids)
      BY SyncBoundsAssumption, LimitAssumption DEF Epochs
    <2> QED
      BY <2>1 DEF RepTypes, RepRecord, EmptyReplica
  <1> QED
    BY <1>1, <1>2, <1>3 DEF Types, ReplicasTyped, LoopsTyped, CallsTyped

-----------------------------------------------------------------------------
(* The steps, and the types.                                               *)

SameCall(c, d) ==
  /\ SameWork(c, d) /\ SameReply(c, d) /\ d.epoch = c.epoch /\ d.from = c.from
  /\ d.phase = c.phase \/ d.phase = "failed"

\* A step that only ends calls, fails them, or stops waiting for them.
Quiet ==
  /\ UNCHANGED <<log, epoch, used, rep, history>>
  /\ \A r \in Replica : unsent'[r] \subseteq unsent[r]
  /\ \A j \in Call : call'[j] # NoCall => call[j] # NoCall /\ SameCall(call[j], call'[j])

LEMMA UnattendedQuiet ==
  ASSUME CallsTyped, \A j \in Call : Unattended(call[j], call'[j])
  PROVE  \A j \in Call : call'[j] # NoCall => call[j] # NoCall /\ SameCall(call[j], call'[j])
  <1> SUFFICES ASSUME NEW j \in Call, call'[j] # NoCall
               PROVE  call[j] # NoCall /\ SameCall(call[j], call'[j])
    OBVIOUS
  <1>1. Unattended(call[j], call'[j]) /\ (call[j] = NoCall \/ CallTypes(call[j]))
    BY DEF CallsTyped
  <1> QED
    BY <1>1, UnattendedIs DEF SameCall, SameWork, SameRequest, SameReply

BeginStep(r, k, by) == Begin(r, k, by) /\ loop' \in [Replica -> {"run", "busy", "parked"}]

\* Every step keeps the types, and is one of these.
LEMMA StepIs ==
  ASSUME Types, [Next]_vars
  PROVE  /\ Types'
         /\ \/ \E r \in Replica, merges \in BOOLEAN : Submit(r, merges)
            \/ \E r \in Replica, k \in Call, by \in {"loop", "caller"} : BeginStep(r, k, by)
            \/ \E k \in Call : Deliver(k)
            \/ Quiet
            \/ \E k \in Call : HandleEpoch(k)
            \/ \E k \in Call : HandleCursor(k)
            \/ \E k \in Call : HandleOperation(k)
            \/ \E k \in Call : HandleRead(k)
            \/ \E k \in Call : HandleLoad(k)
            \/ ResetJournal
  <1>0. LoopsTyped /\ CallsTyped
    BY DEF Types
  <1>1. ASSUME NEW r \in Replica, NEW merges \in BOOLEAN, Submit(r, merges)
        PROVE  Types'
    BY <1>1, SubmitDoes
  <1>2. ASSUME NEW r \in Replica, LoopBegin(r) \/ ManualBegin(r)
        PROVE  /\ Types'
               /\ \E k \in Call, by \in {"loop", "caller"} : BeginStep(r, k, by)
    <2>1. \E k \in Call, by \in {"loop", "caller"} : BeginStep(r, k, by)
      <3>1. CASE LoopBegin(r)
        <4>1. PICK k \in Call : Begin(r, k, "loop")
          BY <3>1 DEF LoopBegin
        <4>2. loop' \in [Replica -> {"run", "busy", "parked"}]
          BY <1>0, <3>1 DEF LoopBegin, LoopsTyped
        <4> QED
          BY <4>1, <4>2 DEF BeginStep
      <3>2. CASE ManualBegin(r)
        <4>1. PICK k \in Call : Begin(r, k, "caller")
          BY <3>2 DEF ManualBegin
        <4>2. loop' \in [Replica -> {"run", "busy", "parked"}]
          BY <1>0, <3>2 DEF ManualBegin, LoopsTyped
        <4> QED
          BY <4>1, <4>2 DEF BeginStep
      <3> QED
        BY <1>2, <3>1, <3>2
    <2>2. Types'
      BY <2>1, BeginDoes DEF BeginStep
    <2> QED
      BY <2>1, <2>2
  <1>3. ASSUME NEW r \in Replica, LoopWake(r)
        PROVE  Types' /\ Quiet
    BY <1>3, LoopWakeDoes DEF Quiet, server, SameCall, SameWork, SameRequest, SameReply
  <1>4. ASSUME NEW r \in Replica, Reopen(r)
        PROVE  Types' /\ Quiet
    <2>1. /\ Types' /\ \A j \in Call : Unattended(call[j], call'[j])
          /\ UNCHANGED <<server, rep, history>>
          /\ unsent'[r] = {} /\ \A o \in Replica : o # r => unsent'[o] = unsent[o]
      BY <1>4, ReopenDoes
    <2>2. \A o \in Replica : unsent'[o] \subseteq unsent[o]
      BY <2>1
    <2> QED
      BY <1>0, <2>1, <2>2, UnattendedQuiet DEF Quiet, server
  <1>5. ASSUME NEW k \in Call, Deliver(k)
        PROVE  Types'
    BY <1>5, DeliverDoes
  <1>6. ASSUME NEW k \in Call, Failed(k) \/ Discard(k)
        PROVE  Types' /\ Quiet
    <2>1. /\ Types' /\ call'[k] = NoCall
          /\ \A j \in Call : j # k => call'[j] = call[j]
          /\ UNCHANGED <<server, rep, unsent, history>>
      BY <1>6, FailedDoes
    <2> QED
      BY <2>1 DEF Quiet, server, SameCall, SameWork, SameRequest, SameReply
  <1>7. ASSUME NEW k \in Call, GiveUp(k)
        PROVE  Types' /\ Quiet
    <2>1. /\ Types' /\ \A j \in Call : Unattended(call[j], call'[j])
          /\ UNCHANGED <<server, rep, unsent, history>>
      BY <1>7, GiveUpDoes
    <2> QED
      BY <1>0, <2>1, UnattendedQuiet DEF Quiet, server
  <1>8. ASSUME NEW k \in Call, HandleEpoch(k)
        PROVE  Types'
    BY <1>8, HandleEpochDoes
  <1>9. ASSUME NEW k \in Call, HandleCursor(k)
        PROVE  Types'
    BY <1>9, HandleCursorDoes
  <1>10. ASSUME NEW k \in Call, HandleOperation(k)
         PROVE  Types'
    BY <1>10, HandleOperationDoes
  <1>11. ASSUME NEW k \in Call, HandleRead(k)
         PROVE  Types'
    BY <1>11, HandleReadDoes
  <1>12. ASSUME NEW k \in Call, HandleLoad(k)
         PROVE  Types'
    BY <1>12, HandleLoadDoes
  <1>13. ASSUME CompactJournal
         PROVE  Types' /\ Quiet
    BY <1>13, CompactDoes DEF Quiet, SameCall, SameWork, SameRequest, SameReply
  <1>14. ASSUME ResetJournal
         PROVE  Types'
    BY <1>14, ResetDoes
  <1>15. ASSUME UNCHANGED vars
         PROVE  Types' /\ Quiet
    <2>1. UNCHANGED <<server, log, epoch, used, rep, unsent, loop, wake, call, history>>
      BY <1>15 DEF vars, server
    <2>2. Types'
      BY <2>1, ServerStays DEF Types, ReplicasTyped, LoopsTyped, CallsTyped, history
    <2> QED
      BY <2>1, <2>2 DEF Quiet, SameCall, SameWork, SameRequest, SameReply
  <1>18. ASSUME NEW k \in Call, HandleFailure(k)
         PROVE  Types' /\ Quiet
    <2>1. /\ Types' /\ call[k] # NoCall /\ SameCall(call[k], call'[k])
          /\ \A j \in Call : j # k => call'[j] = call[j]
          /\ UNCHANGED <<server, rep, unsent, history>>
      BY <1>18, HandleFailureDoes, CallsDiffer DEF SameCall
    <2>2. \A j \in Call : call'[j] # NoCall => call[j] # NoCall /\ SameCall(call[j], call'[j])
      BY <2>1 DEF SameCall, SameWork, SameRequest, SameReply
    <2> QED
      BY <2>1, <2>2 DEF Quiet, server
  <1>16. ASSUME NEW r \in Replica, ReplicaNext(r)
         PROVE  /\ Types'
                /\ \/ \E merges \in BOOLEAN : Submit(r, merges)
                   \/ \E k \in Call, by \in {"loop", "caller"} : BeginStep(r, k, by)
                   \/ Quiet
    BY <1>1, <1>2, <1>3, <1>4, <1>16 DEF ReplicaNext
  <1>17. ASSUME NEW k \in Call, CallNext(k)
         PROVE  /\ Types'
                /\ \/ Deliver(k) \/ Quiet \/ HandleEpoch(k) \/ HandleCursor(k)
                   \/ HandleOperation(k) \/ HandleRead(k) \/ HandleLoad(k)
    BY <1>5, <1>6, <1>7, <1>8, <1>9, <1>10, <1>11, <1>12, <1>17, <1>18 DEF CallNext
  <1> QED
    BY <1>13, <1>14, <1>15, <1>16, <1>17 DEF Next

\* Every variable keeps to its type, and the journal's identities are counted.
THEOREM SyncTypes == Spec => []Types
  <1>1. Init => Types
    BY InitTypes
  <1>2. Types /\ [Next]_vars => Types'
    BY StepIs
  <1> QED
    BY <1>1, <1>2, PTL DEF Spec

\* TypeOK, the invariant the runs check.
THEOREM SyncTypeOK == Spec => []TypeOK
  <1>1. Types => TypeOK
    <2> SUFFICES ASSUME Types
                 PROVE  TypeOK
      OBVIOUS
    <2>1. \A r \in Replica : rep[r] \in RepRecord /\ Len(rep[r].ids) <= IdWindow
      BY DEF Types, ReplicasTyped, RepTypes
    <2>2. rep \in [Replica -> RepRecord]
      BY <2>1 DEF Types, ReplicasTyped
    <2>3. ASSUME NEW k \in Call
          PROVE  call[k].phase \in {"none", "sent", "check", "append", "load", "reply", "failed"}
      <3>1. CASE call[k] = NoCall
        BY <3>1 DEF NoCall
      <3>2. CASE call[k] # NoCall
        <4>1. CallTypes(call[k])
          BY <3>2 DEF Types, CallsTyped
        <4>2. call[k].phase \in Phases
          BY <4>1, CallFields
        <4> QED
          BY <4>2 DEF Phases
      <3> QED
        BY <3>1, <3>2
    <2> QED
      BY <2>1, <2>2, <2>3 DEF TypeOK, Types, LoopsTyped, ServerTyped, RepRecord, Ids, Epochs
  <1> QED
    BY <1>1, SyncTypes, PTL

-----------------------------------------------------------------------------
(* Operations keep the order of their messages.                            *)

\* The sets of operations, and the ids and messages of sequences by their sets.
LEMMA LogSets ==
  /\ IdsOf(LogOps) = {op.id : op \in InLog} /\ IdsOf(LogOps)' = {op.id : op \in InLog'}
  /\ \A r, k : Says(LogOps, r, k) <=> SomeSays(InLog, r, k)
  /\ \A r, k : Says(LogOps, r, k)' <=> SomeSays(InLog, r, k)'
  BY DEF IdsOf, LogOps, InLog, Says, SomeSays

LEMMA SequenceSets ==
  ASSUME NEW ops
  PROVE  /\ IdsOf(ops) = {op.id : op \in ToSet(ops)}
         /\ \A r, k : Says(ops, r, k) <=> SomeSays(ToSet(ops), r, k)
  BY DEF IdsOf, ToSet, Says, SomeSays

LEMMA KnownTyped ==
  ASSUME Types
  PROVE  /\ InLog \cup wiped \subseteq Sent /\ Sent \subseteq Known /\ Known \subseteq Operation
         /\ \A r \in Replica : Outboxed(r) \subseteq Known
         /\ \A k \in Call : call[k] # NoCall =>
              /\ CallTypes(call[k]) /\ ToSet(call[k].pending) \subseteq Sent
  <1>1. InLog \subseteq Operation /\ wiped \subseteq Operation
    BY LogTyped DEF Types, ServerTyped
  <1>2. \A r \in Replica : Outboxed(r) \subseteq Operation
    <2> SUFFICES ASSUME NEW r \in Replica
                 PROVE  Outboxed(r) \subseteq Operation
      OBVIOUS
    <2>1. rep[r].pending \in Seq(Operation)
      BY RepFields DEF Types, ReplicasTyped
    <2> QED
      BY <2>1 DEF Outboxed, ToSet
  <1>3. \A k \in Call : call[k] # NoCall => CallTypes(call[k])
    BY DEF Types, CallsTyped
  <1>4. \A k \in Call : Carried(call[k]) \subseteq Operation
    <2> SUFFICES ASSUME NEW k \in Call, call[k] # NoCall
                 PROVE  Carried(call[k]) \subseteq Operation
      BY DEF Carried
    <2>1. call[k].pending \in Seq(Operation)
      BY <1>3, CallFields
    <2> QED
      BY <2>1 DEF Carried, ToSet
  <1>5. \A k \in Call : call[k] # NoCall => ToSet(call[k].pending) = Carried(call[k])
    BY DEF Carried
  <1> QED
    BY <1>1, <1>2, <1>3, <1>4, <1>5 DEF Sent, Known

\* What stays of an outbox, in its order.
LEMMA StayingIs ==
  ASSUME NEW s, RepTypes(s), NEW gone
  PROVE  LET q == Staying(s, gone) IN
         /\ q \in Seq(Operation)
         /\ ToSet(q) = {op \in ToSet(s.pending) : op.id \notin gone}
         /\ \A r : Outgoing(r, s.pending) => Outgoing(r, q)
  <1> DEFINE p == s.pending
             S == {op \in ToSet(p) : op.id \notin gone}
             q == Staying(s, gone)
  <1>1. p \in Seq(Operation) /\ Len(p) \in Nat /\ DOMAIN p = 1..Len(p)
    BY RepFields
  <1>2. q = Filtered(p, S)
    BY DEF Staying
  <1> HIDE DEF p, S, q
  <1>3. q \in Seq(Operation) /\ \E at : Leaves(p, S, Len(p), q, at)
    BY <1>1, <1>2, FilteredLeaves
  <1>4. PICK at : Leaves(p, S, Len(p), q, at)
    BY <1>3
  <1>5. Len(q) \in Nat /\ DOMAIN q = 1..Len(q)
    BY <1>3
  <1>6. /\ \A i \in 1..Len(q) : at[i] \in 1..Len(p)
        /\ \A i, j \in 1..Len(q) : i < j => at[i] < at[j]
        /\ \A i \in 1..Len(q) : q[i] = p[at[i]] /\ p[at[i]] \in S
        /\ \A k \in 1..Len(p) : p[k] \in S => \E i \in 1..Len(q) : at[i] = k
    BY <1>4 DEF Leaves
  <1>7. ToSet(q) = S
    <2>1. ToSet(q) \subseteq S
      BY <1>5, <1>6 DEF ToSet
    <2>2. ASSUME NEW op \in S
          PROVE  op \in ToSet(q)
      <3>1. PICK k \in 1..Len(p) : p[k] = op
        BY <1>1 DEF S, ToSet
      <3>2. PICK i \in 1..Len(q) : at[i] = k
        BY <1>6, <3>1
      <3> QED
        BY <1>5, <1>6, <3>1, <3>2 DEF ToSet
    <2> QED
      BY <2>1, <2>2
  <1>8. ASSUME NEW r, Outgoing(r, p)
        PROVE  Outgoing(r, q)
    <2>1. /\ \A i \in 1..Len(p) : p[i].id[1] = r
          /\ \A i, j \in 1..Len(p) : i < j => p[i].id[2] < p[j].id[2]
      BY <1>1, <1>8 DEF Outgoing
    <2>2. \A i \in 1..Len(q) : q[i].id[1] = r
      BY <1>6, <2>1
    <2>3. ASSUME NEW i \in 1..Len(q), NEW j \in 1..Len(q), i < j
          PROVE  q[i].id[2] < q[j].id[2]
      <3>1. /\ at[i] \in 1..Len(p) /\ at[j] \in 1..Len(p) /\ at[i] < at[j]
            /\ q[i] = p[at[i]] /\ q[j] = p[at[j]]
        BY <1>6, <2>3
      <3> QED
        BY <2>1, <3>1
    <2> QED
      BY <1>5, <2>2, <2>3 DEF Outgoing
  <1> QED
    BY <1>3, <1>7, <1>8 DEF p, S, q

\* Where nothing new is known and no number is taken, nothing gets out of order.
LEMMA NothingNew ==
  ASSUME Submittable, OneEach, Known' \subseteq Known, Known \subseteq Operation,
         \A r \in Replica : rep'[r].next = rep[r].next
  PROVE  Submittable' /\ OneEach'
  <1>1. \A op \in Known : op.id[1] \in Replica
    BY OperationTyped
  <1> QED
    BY <1>1 DEF Submittable, OneEach

LEMMA NothingNewSent ==
  ASSUME UnsentLast, Sent' \subseteq Sent,
         \A r \in Replica : Outboxed(r)' \subseteq Outboxed(r) /\ unsent'[r] \subseteq unsent[r]
  PROVE  UnsentLast'
  BY DEF UnsentLast

\* What calls carry, when they only take steps.
LEMMA CarriedStays ==
  ASSUME \A j \in Call : call'[j] # NoCall =>
           call[j] # NoCall /\ SameRequest(call[j], call'[j])
  PROVE  /\ \A j \in Call : Carried(call[j])' \subseteq Carried(call[j])
         /\ (\A k \in Call : call[k] # NoCall => Outgoing(call[k].of, call[k].pending))
            => (\A k \in Call : call[k] # NoCall => Outgoing(call[k].of, call[k].pending))'
  BY DEF Carried, SameRequest, Outgoing

\* A step that leaves the outboxes alone and sends nothing new.
LEMMA NothingSent ==
  ASSUME Types, OrderlyInv, UNCHANGED rep,
         \A r \in Replica : unsent'[r] \subseteq unsent[r],
         \A j \in Call : call'[j] # NoCall =>
           call[j] # NoCall /\ SameRequest(call[j], call'[j]),
         InLog' \cup wiped' \subseteq Sent
  PROVE  OrderlyInv' /\ Known' \subseteq Known /\ Sent' \subseteq Sent
  <1>1. \A j \in Call : Carried(call[j])' \subseteq Carried(call[j])
    BY CarriedStays
  <1>2. Sent' \subseteq Sent
    BY <1>1 DEF Sent
  <1>3. \A r \in Replica : Outboxed(r)' = Outboxed(r)
    BY DEF Outboxed
  <1>4. Known' \subseteq Known
    BY <1>2, <1>3 DEF Known
  <1>5. Submittable' /\ OneEach'
    BY <1>4, NothingNew, KnownTyped DEF OrderlyInv
  <1>6. UnsentLast'
    BY <1>2, <1>3, NothingNewSent DEF OrderlyInv
  <1>7. (\A k \in Call : call[k] # NoCall => Outgoing(call[k].of, call[k].pending))'
    BY CarriedStays DEF OrderlyInv
  <1>8. (\A r \in Replica : Outgoing(r, rep[r].pending))'
    BY DEF OrderlyInv, Outgoing
  <1> QED
    BY <1>2, <1>4, <1>5, <1>6, <1>7, <1>8 DEF OrderlyInv

\* A submitted message comes after everything of its replica; the operation it is
\* merged into, if any, was not sent, and is not known any more as it was.
LEMMA SubmitOrdered ==
  ASSUME Types, OrderlyInv, NEW r \in Replica, NEW merges \in BOOLEAN, Submit(r, merges)
  PROVE  LET n == rep[r].next  q == rep'[r].pending  x == q[Len(q)] IN
         /\ UNCHANGED <<server, call, history>> /\ Sent' = Sent
         /\ n \in Nat /\ rep'[r].next = n + 1 /\ rep'[r].ids = rep[r].ids
         /\ \A o \in Replica : o # r => rep'[o] = rep[o]
         /\ x \in Operation /\ x \in Outboxed(r)' /\ x \notin Known
         /\ x.id[1] = r /\ x.upto = n /\ x.id[2] <= n
         /\ x.base = rep[r].cursor \/ \E a \in Outboxed(r) : x.base = a.base
         /\ Known' \subseteq Known \cup {x}
         /\ \A b \in Known' : b # x /\ b.id[1] = r => b.upto < x.id[2]
         /\ \A a \in Outboxed(r) : a \in Outboxed(r)' \/ a \notin Known'
         /\ \A a \in Outboxed(r)' :
              a = x \/ (a \in Outboxed(r) /\ a.id[2] < x.id[2])
         /\ IdsOf(q) \subseteq IdsOf(rep[r].pending) \cup {OpIdOf(r, n)}
         /\ \A k : SomeSays(Outboxed(r), r, k) => SomeSays(Outboxed(r), r, k)'
         /\ Outgoing(r, q)
  <1> DEFINE n == rep[r].next
             p == rep[r].pending
             q == rep'[r].pending
             lp == Len(p)
             lq == Len(q)
             x == q[lq]
             l == p[lp]
  <1>1. /\ n \in 1..MaxSubmits /\ q \in Seq(Operation) /\ q # <<>>
        /\ rep'[r].next = n + 1 /\ rep'[r].ids = rep[r].ids
        /\ \A o \in Replica : o # r => rep'[o] = rep[o] /\ unsent'[o] = unsent[o]
        /\ ~merges => /\ Len(q) = Len(p) + 1
                      /\ \A i \in 1..Len(p) : q[i] = p[i]
                      /\ x.id = OpIdOf(r, n) /\ x.upto = n /\ x.base = rep[r].cursor
        /\ merges => /\ p # <<>> /\ Len(q) = Len(p)
                     /\ \A i \in 1..Len(p) : i # Len(p) => q[i] = p[i]
                     /\ x.id = l.id /\ x.upto = n /\ x.base = l.base
                     /\ l.id[2] \in unsent[r]
        /\ unsent'[r] = unsent[r] \cup {x.id[2]}
    BY SubmitDoes
  <1>2. UNCHANGED <<server, call, history>>
    BY DEF Submit
  <1>3. p \in Seq(Operation) /\ n \in Nat
    BY RepFields DEF Types, ReplicasTyped
  <1>31. /\ DOMAIN p = 1..lp /\ DOMAIN q = 1..lq /\ lp \in Nat /\ lq \in Nat
         /\ lp >= 0 /\ lq >= 1
    BY <1>1, <1>3
  <1>32. /\ ~merges => lq = lp + 1 /\ \A i \in 1..lp : q[i] = p[i]
         /\ merges => lq = lp /\ lp >= 1 /\ \A i \in 1..lp : i # lp => q[i] = p[i]
    BY <1>1, <1>3, <1>31
  <1>33. q[lq] \in Operation
    BY <1>1, <1>31
  <1>4. Sent' = Sent /\ InLog' = InLog
    BY <1>2 DEF Sent, InLog, server, history
  <1>5. Outboxed(r) = {p[i] : i \in 1..lp} /\ Outboxed(r)' = {q[i] : i \in 1..lq}
    BY <1>31 DEF Outboxed, ToSet
  <1>6. /\ \A i \in 1..lp : p[i] \in Operation /\ p[i] \in Known /\ p[i].id[1] = r
        /\ \A i, j \in 1..lp : i < j => p[i].id[2] < p[j].id[2]
        /\ \A op \in Known : op \in Operation /\ op.id[2] <= op.upto
        /\ \A op \in Known : op.id[1] = r => op.upto < n
        /\ \A op \in Operation : op.id[2] \in Nat /\ op.upto \in Nat
                                 /\ op.id = <<op.id[1], op.id[2]>>
    <2>1. Outboxed(r) \subseteq Known /\ Known \subseteq Operation
      BY KnownTyped
    <2>2. /\ \A i \in 1..lp : p[i].id[1] = r
          /\ \A i, j \in 1..lp : i < j => p[i].id[2] < p[j].id[2]
      BY <1>31 DEF OrderlyInv, Outgoing
    <2>3. \A op \in Known : op.id[2] <= op.upto /\ op.upto < rep[op.id[1]].next
      BY DEF OrderlyInv, Submittable
    <2> QED
      BY <1>5, <2>1, <2>2, <2>3, OperationTyped
  <1> HIDE DEF lp, lq
  <1>7. x \in Operation /\ x \in Outboxed(r)'
    <2>1. lq \in 1..lq
      BY <1>31
    <2> QED
      BY <1>5, <1>33, <2>1
  <1>8. merges => /\ lp \in 1..lp /\ l \in Known /\ l \in Outboxed(r)
                  /\ l.id[1] = r /\ l.id[2] < n
    <2> SUFFICES ASSUME merges
                 PROVE  /\ lp \in 1..lp /\ l \in Known /\ l \in Outboxed(r)
                        /\ l.id[1] = r /\ l.id[2] < n
      OBVIOUS
    <2>1. lp \in 1..lp
      BY <1>31, <1>32
    <2>2. l \in Known /\ l \in Outboxed(r) /\ l.id[1] = r
      BY <1>5, <1>6, <2>1
    <2>3. l.id[2] <= l.upto /\ l.upto < n /\ l.id[2] \in Nat /\ l.upto \in Nat /\ n \in Nat
      BY <1>3, <1>6, <2>2
    <2> QED
      BY <2>1, <2>2, <2>3
  <1>9. x.id[1] = r /\ x.upto = n /\ x.id[2] <= n
    <2>0. n \in Nat /\ x.upto = n
      BY <1>1, <1>3
    <2>1. CASE merges
      <3>1. x.id = l.id /\ l.id[1] = r /\ l.id[2] < n /\ l.id[2] \in Nat
        BY <1>1, <1>6, <1>8, <2>1
      <3> QED
        BY <2>0, <3>1
    <2>2. CASE ~merges
      BY <1>1, <2>0, <2>2 DEF OpIdOf
    <2> QED
      BY <2>1, <2>2
  <1>10. x \notin Known
    BY <1>3, <1>6, <1>9
  <1> HIDE DEF n, p, q, x, l
  <1>11. \A a \in Outboxed(r)' : a = x \/ \E i \in 1..lp : a = p[i] /\ (merges => i < lp)
    <2>1. ASSUME NEW i \in 1..lq
          PROVE  q[i] = x \/ \E m \in 1..lp : q[i] = p[m] /\ (merges => m < lp)
      <3>1. CASE i = lq
        BY <3>1 DEF x
      <3>2. CASE i # lq
        <4>1. i \in 1..lp /\ q[i] = p[i] /\ (merges => i < lp)
          BY <1>31, <1>32, <3>2
        <4> QED
          BY <4>1
      <3> QED
        BY <3>1, <3>2
    <2> QED
      BY <1>5, <2>1
  <1>12. \A i \in 1..lp : (merges => i < lp) => p[i] \in Outboxed(r)'
    <2> SUFFICES ASSUME NEW i \in 1..lp, merges => i < lp
                 PROVE  p[i] \in Outboxed(r)'
      OBVIOUS
    <2>1. i \in 1..lq /\ q[i] = p[i]
      BY <1>31, <1>32
    <2> QED
      BY <1>5, <2>1
  \* What was merged into was not sent, and is nowhere as it was.
  <1>13. merges => l \notin Sent
    <2> SUFFICES ASSUME merges, l \in Sent
                 PROVE  FALSE
      OBVIOUS
    <2>1. l.id[1] = r /\ l.id[2] \in unsent[r] /\ l \in Outboxed(r)
      BY <1>1, <1>8
    <2>2. l.id[2] < l.id[2] /\ l.id[2] \in Nat
      BY <1>6, <1>8, <2>1 DEF OrderlyInv, UnsentLast
    <2> QED
      BY <2>2
  <1>14. \A o \in Replica : o # r =>
           Outboxed(o)' = Outboxed(o) /\ \A b \in Outboxed(o) : b.id[1] # r
    <2> SUFFICES ASSUME NEW o \in Replica, o # r
                 PROVE  Outboxed(o)' = Outboxed(o) /\ \A b \in Outboxed(o) : b.id[1] # r
      OBVIOUS
    <2>1. Outboxed(o)' = Outboxed(o)
      BY <1>1 DEF Outboxed
    <2>2. \A i \in DOMAIN rep[o].pending : rep[o].pending[i].id[1] = o
      BY DEF OrderlyInv, Outgoing
    <2> QED
      BY <2>1, <2>2 DEF Outboxed, ToSet
  <1>15. \A b \in Known' : b \in Sent \/ b \in Outboxed(r)'
                           \/ \E o \in Replica : o # r /\ b \in Outboxed(o)
    BY <1>4, <1>14 DEF Known
  <1>16. merges => l \notin Known'
    <2> SUFFICES ASSUME merges, l \in Known'
                 PROVE  FALSE
      OBVIOUS
    <2>1. l \in Outboxed(r)'
      BY <1>8, <1>13, <1>14, <1>15
    <2>2. PICK i \in 1..lp : l = p[i] /\ i < lp
      BY <1>8, <1>10, <1>11, <2>1
    <2>3. p[i].id[2] < p[lp].id[2] /\ p[i].id[2] \in Nat
      BY <1>6, <1>8, <2>2
    <2> QED
      BY <2>2, <2>3 DEF l
  <1>17. Known' \subseteq Known \cup {x}
    BY <1>6, <1>11, <1>15, KnownTyped
  <1>18. ASSUME NEW b \in Known', b # x, b.id[1] = r
         PROVE  b.upto < x.id[2]
    <2>1. b \in Known
      BY <1>17, <1>18
    <2>2. CASE ~merges
      <3>1. x.id[2] = n
        BY <1>1, <2>2 DEF OpIdOf
      <3> QED
        BY <1>6, <1>18, <2>1, <3>1
    <2>3. CASE merges
      <3>1. l \in Known /\ l.id[1] = r /\ x.id[2] = l.id[2] /\ l \in Outboxed(r)
            /\ l.id[2] \in unsent[r]
        BY <1>1, <1>8, <2>3
      <3>2. b.id[2] < l.id[2]
        <4>1. CASE b \in Sent
          BY <1>18, <3>1, <4>1 DEF OrderlyInv, UnsentLast
        <4>2. CASE b \in Outboxed(r)'
          <5>1. PICK i \in 1..lp : b = p[i] /\ i < lp
            BY <1>11, <1>18, <2>3, <4>2
          <5> QED
            BY <1>6, <1>8, <2>3, <5>1 DEF l
        <4> QED
          BY <1>14, <1>15, <1>18, <4>1, <4>2
      <3>3. b = l \/ b.upto < l.id[2] \/ l.upto < b.id[2]
        BY <1>18, <2>1, <3>1 DEF OrderlyInv, OneEach
      <3>4. /\ b.id[2] \in Nat /\ b.upto \in Nat /\ l.id[2] \in Nat /\ l.upto \in Nat
            /\ l.id[2] <= l.upto
        BY <1>6, <2>1, <3>1
      <3> QED
        BY <3>1, <3>2, <3>3, <3>4
    <2> QED
      BY <2>2, <2>3
  <1>19. \A i \in 1..lp : i < lp \/ i = lp
    BY <1>31
  <1>20. \A a \in Outboxed(r) : a \in Outboxed(r)' \/ (merges /\ a = l)
    BY <1>5, <1>12, <1>19 DEF l
  <1>21. \A a \in Outboxed(r) : a \in Outboxed(r)' \/ a \notin Known'
    BY <1>16, <1>20
  <1>22. ASSUME NEW a \in Outboxed(r)', a # x
         PROVE  a \in Outboxed(r) /\ a.id[2] < x.id[2]
    <2>1. a \in Outboxed(r)
      BY <1>5, <1>11, <1>22
    <2>2. a \in Known' /\ a \in Known /\ a.id[1] = r
      <3>1. a \in Known'
        BY DEF Known
      <3> QED
        BY <1>5, <1>6, <2>1, <3>1
    <2>3. a.upto < x.id[2]
      BY <1>18, <1>22, <2>2
    <2>4. a.id[2] <= a.upto /\ a.id[2] \in Nat /\ a.upto \in Nat /\ x.id[2] \in Nat
      BY <1>6, <1>7, <2>2
    <2> QED
      BY <2>1, <2>3, <2>4
  <1>23. IdsOf(q) \subseteq IdsOf(p) \cup {OpIdOf(r, n)}
    <2>1. IdsOf(q) = {op.id : op \in Outboxed(r)'} /\ IdsOf(p) = {op.id : op \in Outboxed(r)}
      BY SequenceSets DEF Outboxed, p, q
    <2>2. x.id = OpIdOf(r, n) \/ \E a \in Outboxed(r) : x.id = a.id
      BY <1>1, <1>8
    <2> QED
      BY <1>22, <2>1, <2>2
  <1>24. ASSUME NEW k, SomeSays(Outboxed(r), r, k)
         PROVE  SomeSays(Outboxed(r), r, k)'
    <2>1. PICK a \in Outboxed(r) : a.id[1] = r /\ k \in a.id[2]..a.upto
      BY <1>24 DEF SomeSays
    <2>2. CASE a \in Outboxed(r)'
      BY <2>1, <2>2 DEF SomeSays
    <2>3. CASE merges /\ a = l
      <3>1. x.id[2] = l.id[2] /\ x.upto = n /\ l.upto < n /\ x.id[1] = r
            /\ l.upto \in Nat /\ l.id[2] \in Nat /\ n \in Nat
        BY <1>1, <1>3, <1>6, <1>8, <1>9, <2>3
      <3>2. k \in x.id[2]..x.upto
        BY <2>1, <2>3, <3>1
      <3> QED
        BY <1>7, <3>1, <3>2 DEF SomeSays
    <2> QED
      BY <1>20, <2>2, <2>3
  <1>25. Outgoing(r, q)
    <2>1. \A i \in 1..lq : q[i].id[1] = r
      BY <1>5, <1>6, <1>9, <1>11
    <2>2. ASSUME NEW i \in 1..lq, NEW j \in 1..lq, i < j
          PROVE  q[i].id[2] < q[j].id[2]
      <3>1. /\ i # lq /\ i \in 1..lp /\ q[i] = p[i]
            /\ merges => i < lp
        BY <1>31, <1>32, <2>2
      <3>2. CASE j = lq
        <4>1. q[j] = x
          BY <3>2 DEF x
        <4>2. q[i] \in Outboxed(r)' /\ q[i] # x
          BY <1>5, <1>6, <1>10, <3>1
        <4> QED
          BY <1>22, <4>1, <4>2
      <3>3. CASE j # lq
        <4>1. j \in 1..lp /\ q[j] = p[j]
          BY <1>31, <1>32, <3>3
        <4> QED
          BY <1>6, <2>2, <3>1, <4>1
      <3> QED
        BY <3>2, <3>3
    <2> QED
      BY <1>31, <2>1, <2>2 DEF Outgoing
  <1>26. x.base = rep[r].cursor \/ \E a \in Outboxed(r) : x.base = a.base
    BY <1>1, <1>8
  <1> QED
    BY <1>1, <1>2, <1>3, <1>4, <1>7, <1>9, <1>10, <1>17, <1>18, <1>21, <1>22, <1>23, <1>24, <1>25,
       <1>26
       DEF n, p, q, x, lq, lp

LEMMA OrderlySubmit ==
  ASSUME Types, OrderlyInv, NEW r \in Replica, NEW merges \in BOOLEAN, Submit(r, merges)
  PROVE  OrderlyInv'
  <1> DEFINE n == rep[r].next
             q == rep'[r].pending
             x == q[Len(q)]
  <1>1. /\ UNCHANGED <<server, call, history>> /\ Sent' = Sent
        /\ n \in Nat /\ rep'[r].next = n + 1
        /\ \A o \in Replica : o # r => rep'[o] = rep[o]
        /\ x \in Operation /\ x \notin Known
        /\ x.id[1] = r /\ x.upto = n /\ x.id[2] <= n
        /\ Known' \subseteq Known \cup {x}
        /\ \A b \in Known' : b # x /\ b.id[1] = r => b.upto < x.id[2]
        /\ \A a \in Outboxed(r)' : a = x \/ (a \in Outboxed(r) /\ a.id[2] < x.id[2])
        /\ Outgoing(r, q)
    BY SubmitOrdered
  <1>2. /\ \A o \in Replica : o # r => unsent'[o] = unsent[o]
        /\ unsent'[r] = unsent[r] \cup {x.id[2]}
    BY SubmitDoes
  <1> HIDE DEF n, q, x
  <1>3. \A op \in Known : op.id[1] \in Replica /\ op.id[2] \in Nat /\ op.upto \in Nat
    BY KnownTyped, OperationTyped
  <1>4. (\A o \in Replica : Outgoing(o, rep[o].pending))'
    BY <1>1 DEF OrderlyInv, Outgoing, q
  <1>5. (\A k \in Call : call[k] # NoCall => Outgoing(call[k].of, call[k].pending))'
    BY <1>1 DEF OrderlyInv, Outgoing
  <1>6. Submittable'
    <2> SUFFICES ASSUME NEW op \in Known'
                 PROVE  op.id[2] <= op.upto /\ op.upto < rep'[op.id[1]].next
      BY DEF Submittable
    <2>1. CASE op = x
      BY <1>1, <2>1
    <2>2. CASE op \in Known
      <3>1. op.id[2] <= op.upto /\ op.upto < rep[op.id[1]].next
        BY <2>2 DEF OrderlyInv, Submittable
      <3>2. op.id[1] # r => rep'[op.id[1]] = rep[op.id[1]]
        BY <1>1, <1>3, <2>2
      <3>3. op.id[1] = r => op.upto < n /\ op.upto < n + 1
        BY <1>1, <1>3, <2>2, <3>1 DEF n
      <3> QED
        BY <1>1, <3>1, <3>2, <3>3
    <2> QED
      BY <1>1, <2>1, <2>2
  <1>7. OneEach'
    <2> SUFFICES ASSUME NEW a \in Known', NEW b \in Known', a.id[1] = b.id[1]
                 PROVE  a = b \/ a.upto < b.id[2] \/ b.upto < a.id[2]
      BY DEF OneEach
    <2>1. CASE a = x \/ b = x
      BY <1>1, <2>1
    <2>2. CASE a \in Known /\ b \in Known
      BY <2>2 DEF OrderlyInv, OneEach
    <2> QED
      BY <1>1, <2>1, <2>2
  <1>8. UnsentLast'
    <2> SUFFICES ASSUME NEW o \in Replica, NEW a \in Outboxed(o)', NEW b \in Sent,
                        b.id[1] = o, a.id[2] \in unsent'[o]
                 PROVE  b.id[2] < a.id[2]
      BY <1>1 DEF UnsentLast
    <2>0. \A c \in Outboxed(o) : c.id[2] \in unsent[o] => b.id[2] < c.id[2]
      BY DEF OrderlyInv, UnsentLast
    <2>1. CASE o # r
      <3>1. a \in Outboxed(o) /\ unsent'[o] = unsent[o]
        BY <1>1, <1>2, <2>1 DEF Outboxed
      <3> QED
        BY <2>0, <3>1
    <2>2. CASE o = r /\ a = x
      <3>1. b \in Known /\ b # x
        BY <1>1, KnownTyped
      <3>2. b \in Known'
        BY <1>1 DEF Known
      <3>3. b.upto < x.id[2] /\ b.id[2] <= b.upto
        BY <1>1, <2>2, <3>1, <3>2 DEF OrderlyInv, Submittable
      <3>4. b.id[2] \in Nat /\ b.upto \in Nat /\ x.id[2] \in Nat
        BY <1>1, <1>3, <3>1, OperationTyped
      <3> QED
        BY <2>2, <3>3, <3>4
    <2>3. CASE o = r /\ a # x
      <3>1. a \in Outboxed(r) /\ a.id[2] < x.id[2] /\ a.id[2] \in Nat /\ x.id[2] \in Nat
        BY <1>1, <1>3, <2>3, KnownTyped, OperationTyped
      <3>2. a.id[2] \in unsent[r]
        BY <1>2, <2>3, <3>1
      <3> QED
        BY <2>0, <2>3, <3>1, <3>2
    <2> QED
      BY <2>1, <2>2, <2>3
  <1> QED
    BY <1>4, <1>5, <1>6, <1>7, <1>8 DEF OrderlyInv

LEMMA OrderlyBegin ==
  ASSUME Types, OrderlyInv, NEW r \in Replica, NEW k \in Call, NEW by \in {"loop", "caller"},
         BeginStep(r, k, by)
  PROVE  OrderlyInv' /\ Known' = Known /\ InLog' = InLog
  <1>1. /\ UNCHANGED <<server, rep, history>>
        /\ call[k] = NoCall /\ call'[k] = Request(r, by) /\ CallTypes(call'[k])
        /\ \A j \in Call : j # k => call'[j] = call[j]
        /\ unsent'[r] = unsent[r] \ {op.id[2] : op \in Outboxed(r)}
        /\ \A o \in Replica : o # r => unsent'[o] = unsent[o]
    BY BeginDoes DEF BeginStep
  <1>2. /\ call'[k] # NoCall /\ call'[k].of = r /\ call'[k].pending = rep[r].pending
    <2>1. call'[k] # NoCall
      BY <1>1, CallsDiffer
    <2>2. call'[k].of = r /\ call'[k].pending = rep[r].pending
      BY <1>1 DEF Request
    <2> QED
      BY <2>1, <2>2
  <1>3. /\ Carried(call[k])' = Outboxed(r) /\ Carried(call[k]) = {}
        /\ \A j \in Call : j # k => Carried(call[j])' = Carried(call[j])
        /\ \A o \in Replica : Outboxed(o)' = Outboxed(o)
        /\ InLog' = InLog
    BY <1>1, <1>2 DEF Carried, Outboxed, InLog, server
  <1>4. Sent' = Sent \cup Outboxed(r)
    BY <1>1, <1>3 DEF Sent, history
  <1>5. Known' = Known
    BY <1>3, <1>4 DEF Known
  <1>6. Submittable' /\ OneEach'
    BY <1>1, <1>5, NothingNew, KnownTyped DEF OrderlyInv
  <1>7. \A o \in Replica : \A a \in Outboxed(o) : a.id[1] = o
    BY DEF OrderlyInv, Outgoing, Outboxed, ToSet
  <1>8. UnsentLast'
    <2> SUFFICES ASSUME NEW o \in Replica, NEW a \in Outboxed(o), NEW b \in Sent \cup Outboxed(r),
                        b.id[1] = o, a.id[2] \in unsent'[o]
                 PROVE  b.id[2] < a.id[2]
      BY <1>3, <1>4 DEF UnsentLast
    <2>1. a.id[2] \in unsent[o]
      BY <1>1
    <2>2. CASE b \in Sent
      BY <2>1, <2>2 DEF OrderlyInv, UnsentLast
    <2>3. CASE b \in Outboxed(r)
      <3>1. o = r
        BY <1>7, <2>3
      <3> QED
        BY <1>1, <3>1
    <2> QED
      BY <2>2, <2>3
  <1>9. (\A j \in Call : call[j] # NoCall => Outgoing(call[j].of, call[j].pending))'
    <2> SUFFICES ASSUME NEW j \in Call, call'[j] # NoCall
                 PROVE  Outgoing(call'[j].of, call'[j].pending)
      BY DEF Outgoing
    <2>1. CASE j = k
      BY <1>2, <2>1 DEF OrderlyInv
    <2>2. CASE j # k
      BY <1>1, <2>2 DEF OrderlyInv
    <2> QED
      BY <2>1, <2>2
  <1>10. (\A o \in Replica : Outgoing(o, rep[o].pending))'
    BY <1>1 DEF OrderlyInv, Outgoing
  <1> QED
    BY <1>3, <1>5, <1>6, <1>8, <1>9, <1>10 DEF OrderlyInv

\* What a reply takes from the outbox.
LEMMA DeliverTakes ==
  ASSUME Types, NEW k \in Call, Deliver(k)
  PROVE  LET c == call[k]  r == call[k].of
             b == Base(rep[r], c)  gone == Gone(b, NewOps(b, c), c) IN
         /\ c # NoCall /\ r \in Replica
         /\ rep'[r].next = rep[r].next
         /\ ToSet(rep'[r].pending) = {op \in ToSet(rep[r].pending) : op.id \notin gone}
         /\ \A o : Outgoing(o, rep[r].pending) => Outgoing(o, rep'[r].pending)
         /\ ToSet(b.ids) \subseteq ToSet(rep[r].ids)
         /\ IdsOf(NewOps(b, c)) \subseteq IdsOf(c.ops)
         /\ ToSet(rep'[r].ids) \subseteq ToSet(b.ids) \cup IdsOf(NewOps(b, c))
  <1> DEFINE c == call[k]
             r == call[k].of
             b == Base(rep[r], c)
             new == NewOps(b, c)
  <1>1. /\ CallTypes(c) /\ r \in Replica /\ RepTypes(rep[r])
        /\ rep'[r] = Applied(rep[r], c)
    BY DeliverDoes
  <1>2. /\ rep'[r].next = rep[r].next
        /\ rep'[r].pending = Staying(rep[r], Gone(b, new, c))
        /\ ToSet(rep'[r].ids) \subseteq ToSet(b.ids) \cup IdsOf(new)
    BY <1>1, AppliedIs
  <1>3. b.cursor \in Nat /\ ToSet(b.ids) \subseteq ToSet(rep[r].ids)
    BY <1>1, BaseIs
  <1>4. IdsOf(new) \subseteq IdsOf(c.ops)
    <2>1. /\ new \in Seq(Operation)
          /\ \A i \in 1..Len(new) : Passed(b.cursor, c.from) + i \in DOMAIN c.ops
                                    /\ new[i] = c.ops[Passed(b.cursor, c.from) + i]
      BY <1>1, <1>3, NewOpsAre
    <2>2. DOMAIN new = 1..Len(new)
      BY <2>1
    <2> HIDE DEF new
    <2> QED
      BY <2>1, <2>2 DEF IdsOf
  <1> HIDE DEF c, r, b, new
  <1>5. /\ ToSet(rep'[r].pending) = {op \in ToSet(rep[r].pending) : op.id \notin Gone(b, new, c)}
        /\ \A o : Outgoing(o, rep[r].pending) => Outgoing(o, rep'[r].pending)
    BY <1>1, <1>2, StayingIs
  <1>6. c # NoCall
    BY <1>1, CallsDiffer
  <1> QED
    BY <1>1, <1>2, <1>3, <1>4, <1>5, <1>6 DEF c, r, b, new

LEMMA OrderlyDeliver ==
  ASSUME Types, OrderlyInv, NEW k \in Call, Deliver(k)
  PROVE  OrderlyInv' /\ Known' \subseteq Known /\ InLog' = InLog
  <1>0. PICK r \in Replica : r = call[k].of
    BY DeliverDoes
  <1>1. /\ UNCHANGED <<server, unsent, wiped>>
        /\ \A o \in Replica : o # r => rep'[o] = rep[o]
        /\ call'[k] = NoCall /\ \A j \in Call : j # k => call'[j] = call[j]
    BY <1>0, DeliverDoes
  <1>2. /\ rep'[r].next = rep[r].next
        /\ Outboxed(r)' \subseteq Outboxed(r)
        /\ \A o : Outgoing(o, rep[r].pending) => Outgoing(o, rep'[r].pending)
    BY <1>0, DeliverTakes DEF Outboxed
  <1>3. /\ \A j \in Call : call'[j] # NoCall =>
             call[j] # NoCall /\ SameRequest(call[j], call'[j])
    BY <1>1 DEF SameRequest
  <1>4. \A o \in Replica : Outboxed(o)' \subseteq Outboxed(o) /\ rep'[o].next = rep[o].next
    BY <1>1, <1>2 DEF Outboxed
  <1>5. InLog' = InLog
    BY <1>1 DEF InLog, server
  <1>6. Sent' \subseteq Sent
    <2>1. \A j \in Call : Carried(call[j])' \subseteq Carried(call[j])
      BY <1>3, CarriedStays
    <2> QED
      BY <1>1, <1>5, <2>1 DEF Sent
  <1>7. Known' \subseteq Known
    BY <1>4, <1>6 DEF Known
  <1>8. Submittable' /\ OneEach'
    BY <1>4, <1>7, NothingNew, KnownTyped DEF OrderlyInv
  <1>9. UnsentLast'
    BY <1>1, <1>4, <1>6, NothingNewSent DEF OrderlyInv
  <1>10. (\A j \in Call : call[j] # NoCall => Outgoing(call[j].of, call[j].pending))'
    BY <1>3, CarriedStays DEF OrderlyInv
  <1>11. (\A o \in Replica : Outgoing(o, rep[o].pending))'
    <2> SUFFICES ASSUME NEW o \in Replica
                 PROVE  Outgoing(o, rep'[o].pending)
      BY DEF Outgoing
    <2>1. Outgoing(o, rep[o].pending)
      BY DEF OrderlyInv
    <2> QED
      BY <1>1, <1>2, <2>1
  <1> QED
    BY <1>5, <1>7, <1>8, <1>9, <1>10, <1>11 DEF OrderlyInv

\* A server that commits an operation of a request commits what was sent.
LEMMA CommittedWasSent ==
  ASSUME Types, NEW k \in Call, HandleOperation(k)
  PROVE  LET op == call[k].pending[call[k].done + 1] IN
         /\ op \in Sent /\ op \in Known /\ InLog \subseteq InLog'
         /\ InLog' \subseteq InLog \cup {op}
         /\ Commits(call[k], call'[k], op) => InLog' = InLog \cup {op}
  <1> DEFINE c == call[k]
             op == c.pending[c.done + 1]
  <1>1. /\ CallTypes(c) /\ c.done < Len(c.pending) /\ op \in Operation
        /\ \/ Refuses(c, call'[k], op) \/ AcknowledgesAgain(c, call'[k], op)
           \/ Commits(c, call'[k], op)
    BY HandleOperationDoes
  <1>2. op \in ToSet(c.pending)
    <2>1. c.pending \in Seq(Operation) /\ c.done \in Nat
      BY <1>1, CallFields
    <2>2. c.done + 1 \in DOMAIN c.pending
      BY <1>1, <2>1
    <2> QED
      BY <2>2 DEF ToSet
  <1>3. op \in Sent /\ op \in Known
    BY <1>1, <1>2, KnownTyped, CallsDiffer
  <1>4. UNCHANGED server => InLog' = InLog
    BY DEF server, InLog
  <1>5. ASSUME log' = Append(log, Entry(c.of, op))
        PROVE  InLog' = InLog \cup {op}
    <2> HIDE DEF op, c
    <2>1. log \in Seq(Journal!Entry)
      BY DEF Types, ServerTyped
    <2>2. /\ DOMAIN log = 1..Len(log) /\ DOMAIN log' = 1..(Len(log) + 1) /\ Len(log) \in Nat
          /\ \A i \in 1..Len(log) : log'[i] = log[i]
          /\ log'[Len(log) + 1] = Entry(c.of, op)
      BY <1>5, <2>1
    <2>3. /\ 1..(Len(log) + 1) = 1..Len(log) \cup {Len(log) + 1}
      BY <2>2
    <2>4. Entry(c.of, op).op = op
      BY DEF Entry
    <2> QED
      BY <2>2, <2>3, <2>4 DEF InLog
  <1> QED
    BY <1>1, <1>3, <1>4, <1>5 DEF Refuses, AcknowledgesAgain, Commits

\* Any step of the server on a call leaves its request.
LEMMA HandlersKeep ==
  ASSUME Types, NEW k \in Call,
         \/ HandleEpoch(k) \/ HandleCursor(k) \/ HandleOperation(k)
         \/ HandleRead(k) \/ HandleLoad(k)
  PROVE  /\ UNCHANGED <<rep, unsent, history>>
         /\ \A j \in Call : j # k => call'[j] = call[j]
         /\ CallTypes(call[k]) /\ CallTypes(call'[k]) /\ SameRequest(call[k], call'[k])
         /\ call[k] # NoCall /\ call'[k] # NoCall
         /\ \A j \in Call : call'[j] # NoCall =>
              call[j] # NoCall /\ SameRequest(call[j], call'[j])
         /\ InLog \subseteq InLog' /\ InLog' \subseteq Sent
         /\ ~HandleOperation(k) => log' = log /\ InLog' = InLog
  <1>1. /\ UNCHANGED <<rep, unsent, history>>
        /\ \A j \in Call : j # k => call'[j] = call[j]
        /\ CallTypes(call[k]) /\ CallTypes(call'[k]) /\ SameRequest(call[k], call'[k])
    BY HandleEpochDoes, HandleCursorDoes, HandleOperationDoes, HandleReadDoes, HandleLoadDoes
       DEF SameWork, Answered, server
  <1>2. call[k] # NoCall /\ call'[k] # NoCall
    BY <1>1, CallsDiffer
  <1>3. ~HandleOperation(k) => log' = log /\ InLog' = InLog
    BY HandleEpochDoes, HandleCursorDoes, HandleReadDoes, HandleLoadDoes DEF server, InLog
  <1>4. InLog \subseteq InLog' /\ InLog' \subseteq Sent
    BY <1>3, CommittedWasSent, KnownTyped
  <1> QED
    BY <1>1, <1>2, <1>3, <1>4 DEF SameRequest

\* Steps that neither submit, begin nor deliver only lose sight of operations.
LEMMA OrderlyOther ==
  ASSUME Types, OrderlyInv,
         \/ Quiet \/ ResetJournal
         \/ \E k \in Call : \/ HandleEpoch(k) \/ HandleCursor(k) \/ HandleOperation(k)
                            \/ HandleRead(k) \/ HandleLoad(k)
  PROVE  OrderlyInv' /\ Known' \subseteq Known /\ Sent' \subseteq Sent
  <1>1. /\ UNCHANGED rep /\ InLog' \cup wiped' \subseteq Sent
        /\ \A r \in Replica : unsent'[r] \subseteq unsent[r]
        /\ \A j \in Call : call'[j] # NoCall =>
             call[j] # NoCall /\ SameRequest(call[j], call'[j])
    <2>1. CASE Quiet
      <3>1. InLog' = InLog
        BY <2>1 DEF Quiet, InLog
      <3> QED
        BY <2>1, <3>1, KnownTyped DEF Quiet, SameCall, SameWork, history
    <2>2. CASE ResetJournal
      <3>1. UNCHANGED <<rep, unsent, call>> /\ log' = <<>> /\ wiped' = wiped \cup InLog
        BY <2>2, ResetDoes DEF ResetJournal
      <3>2. InLog' = {}
        BY <3>1 DEF InLog
      <3> QED
        BY <3>1, <3>2, KnownTyped DEF SameRequest
    <2>3. CASE \E k \in Call : \/ HandleEpoch(k) \/ HandleCursor(k) \/ HandleOperation(k)
                               \/ HandleRead(k) \/ HandleLoad(k)
      BY <2>3, HandlersKeep, KnownTyped DEF history
    <2> QED
      BY <2>1, <2>2, <2>3
  <1> QED
    BY <1>1, NothingSent

\* One id, one operation.
LEMMA SameId ==
  ASSUME Types, OrderlyInv, NEW a \in Known, NEW b \in Known, a.id = b.id
  PROVE  a = b
  <1>1. a \in Operation /\ b \in Operation
    BY KnownTyped
  <1>2. a.id[2] \in Nat /\ a.upto \in Nat /\ b.upto \in Nat
    BY <1>1, OperationTyped
  <1>3. a.id[2] <= a.upto /\ b.id[2] <= b.upto
    BY DEF OrderlyInv, Submittable
  <1>4. a = b \/ a.upto < b.id[2] \/ b.upto < a.id[2]
    BY DEF OrderlyInv, OneEach
  <1> QED
    BY <1>2, <1>3, <1>4

LEMMA InitOrderly ==
  ASSUME Init
  PROVE  OrderlyInv
  <1>1. /\ log = <<>> /\ rep = [r \in Replica |-> EmptyReplica]
        /\ call = [k \in Call |-> NoCall] /\ wiped = {}
    BY DEF Init, Journal!Init
  <1>2. /\ \A r \in Replica : rep[r].pending = <<>>
        /\ \A k \in Call : call[k] = NoCall
    BY <1>1 DEF EmptyReplica
  <1>3. Known = {} /\ Sent = {}
    BY <1>1, <1>2 DEF Known, Sent, InLog, Carried, Outboxed, ToSet
  <1> QED
    BY <1>2, <1>3 DEF OrderlyInv, Outgoing, Submittable, OneEach, UnsentLast

\* Operations keep the order of their messages, and what is sent is never merged
\* into, wherever operations are: stored, carried by requests or committed.
THEOREM SyncOrderly == Spec => []OrderlyInv
  <1>1. Init => OrderlyInv
    BY InitOrderly
  <1>2. Types /\ OrderlyInv /\ [Next]_vars => OrderlyInv'
    BY StepIs, OrderlySubmit, OrderlyBegin, OrderlyDeliver, OrderlyOther
  <1> QED
    BY <1>1, <1>2, SyncTypes, PTL DEF Spec

-----------------------------------------------------------------------------
(* What is taken for committed was, and nothing is lost.                   *)

\* Where a message may be.
StillThere(r, k) ==
  \/ SomeSays(Outboxed(r), r, k)
  \/ SomeSays(InLog, r, k)
  \/ SomeSays(refused \cup wiped, r, k)

LEMMA NoLostSets ==
  /\ NoLostEdit <=> \A r \in Replica : \A k \in 1..(rep[r].next - 1) : StillThere(r, k)
  /\ NoLostEdit' <=> (\A r \in Replica : \A k \in 1..(rep[r].next - 1) : StillThere(r, k))'
  <1>1. /\ \A r, k : Says(rep[r].pending, r, k) <=> SomeSays(Outboxed(r), r, k)
        /\ \A r, k : Says(rep[r].pending, r, k)' <=> SomeSays(Outboxed(r), r, k)'
    BY DEF Says, SomeSays, Outboxed, ToSet
  <1> QED
    BY <1>1, LogSets DEF NoLostEdit, StillThere

\* What is settled, by sets.
LEMMA SettledSets ==
  /\ Settled = {op.id : op \in InLog \cup wiped}
  /\ Settled' = {op.id : op \in InLog' \cup wiped'}
  BY LogSets DEF Settled

LEMMA SettledSubmit ==
  ASSUME Types, OrderlyInv, SettledInv,
         NEW r \in Replica, NEW merges \in BOOLEAN, Submit(r, merges)
  PROVE  SettledInv'
  <1> DEFINE n == rep[r].next
             q == rep'[r].pending
             x == q[Len(q)]
  <1>1. /\ UNCHANGED <<server, call, history>>
        /\ n \in Nat /\ rep'[r].next = n + 1 /\ rep'[r].ids = rep[r].ids
        /\ \A o \in Replica : o # r => rep'[o] = rep[o]
        /\ x \in Operation /\ x \in Outboxed(r)'
        /\ x.id[1] = r /\ x.upto = n /\ x.id[2] <= n
        /\ IdsOf(q) \subseteq IdsOf(rep[r].pending) \cup {OpIdOf(r, n)}
        /\ \A k : SomeSays(Outboxed(r), r, k) => SomeSays(Outboxed(r), r, k)'
    BY SubmitOrdered
  <1> HIDE DEF q, x
  <1>2. InLog' = InLog /\ Settled' = Settled
    BY <1>1, SettledSets DEF InLog, server, history
  <1>3. RejectsSent'
    BY <1>1 DEF SettledInv, RejectsSent, IdsOf
  <1>4. (\A k \in Call : call[k] # NoCall =>
           call[k].acks \subseteq Settled /\ IdsOf(call[k].ops) \subseteq Settled)'
    BY <1>1, <1>2 DEF SettledInv, IdsOf
  <1>5. (\A o \in Replica : ToSet(rep[o].ids) \subseteq Settled)'
    <2> SUFFICES ASSUME NEW o \in Replica
                 PROVE  ToSet(rep'[o].ids) \subseteq Settled
      BY <1>2
    <2>1. rep'[o].ids = rep[o].ids
      BY <1>1
    <2> QED
      BY <2>1 DEF SettledInv
  <1>6. OpIdOf(r, n) \notin Settled
    <2>1. \A op \in InLog \cup wiped : op.id[1] = r => op.id[2] < n
      <3> SUFFICES ASSUME NEW op \in InLog \cup wiped, op.id[1] = r
                   PROVE  op.id[2] < n
        OBVIOUS
      <3>1. op \in Known /\ op \in Operation
        BY KnownTyped
      <3>2. op.id[2] <= op.upto /\ op.upto < n
        BY <3>1 DEF OrderlyInv, Submittable
      <3> QED
        BY <1>1, <3>1, <3>2, OperationTyped
    <2> QED
      BY <1>1, <2>1, SettledSets DEF OpIdOf
  <1>7. (\A o \in Replica : IdsOf(rep[o].pending) \cap ToSet(rep[o].ids) = {})'
    <2> SUFFICES ASSUME NEW o \in Replica
                 PROVE  IdsOf(rep'[o].pending) \cap ToSet(rep'[o].ids) = {}
      BY DEF IdsOf
    <2>1. /\ IdsOf(rep[o].pending) \cap ToSet(rep[o].ids) = {}
          /\ ToSet(rep[o].ids) \subseteq Settled
      BY DEF SettledInv
    <2>2. CASE o = r
      BY <1>1, <1>6, <2>1, <2>2 DEF q
    <2>3. CASE o # r
      BY <1>1, <2>1, <2>3
    <2> QED
      BY <2>2, <2>3
  <1>8. NoLostEdit'
    <2> SUFFICES ASSUME NEW o \in Replica, NEW k \in 1..(rep'[o].next - 1)
                 PROVE  StillThere(o, k)'
      BY NoLostSets
    <2>1. \A m \in 1..(rep[o].next - 1) : StillThere(o, m)
      BY NoLostSets DEF SettledInv
    <2>2. CASE o = r /\ k = n
      <3>1. k \in x.id[2]..x.upto
        BY <1>1, <2>2, OperationTyped
      <3> QED
        BY <1>1, <2>2, <3>1 DEF StillThere, SomeSays
    <2>3. CASE o # r \/ k # n
      <3>1. k \in 1..(rep[o].next - 1)
        <4>1. CASE o = r
          BY <1>1, <2>3, <4>1
        <4>2. CASE o # r
          BY <1>1, <4>2
        <4> QED
          BY <4>1, <4>2
      <3>2. StillThere(o, k)
        BY <2>1, <3>1
      <3>3. SomeSays(Outboxed(o), o, k) => SomeSays(Outboxed(o), o, k)'
        <4>1. CASE o = r
          BY <1>1, <4>1
        <4>2. CASE o # r
          BY <1>1, <4>2 DEF SomeSays, Outboxed
        <4> QED
          BY <4>1, <4>2
      <3>4. SomeSays(InLog, o, k) => SomeSays(InLog, o, k)'
        BY <1>2 DEF SomeSays
      <3>5. refused' = refused /\ wiped' = wiped
        BY <1>1 DEF history
      <3> QED
        BY <3>2, <3>3, <3>4, <3>5 DEF StillThere
    <2> QED
      BY <2>2, <2>3
  <1> QED
    BY <1>3, <1>4, <1>5, <1>7, <1>8 DEF SettledInv

\* Steps that leave the replicas alone, lose nothing settled, and answer calls
\* with what is settled.
LEMMA SettledOther ==
  ASSUME Types, OrderlyInv, SettledInv, UNCHANGED <<rep, refused>>, Settled \subseteq Settled',
         wiped \subseteq wiped', InLog \subseteq InLog' \cup wiped', RejectsSent',
         (\A k \in Call : call[k] # NoCall =>
            call[k].acks \subseteq Settled /\ IdsOf(call[k].ops) \subseteq Settled)'
  PROVE  SettledInv'
  <1>2. (\A r \in Replica : ToSet(rep[r].ids) \subseteq Settled)'
    BY DEF SettledInv
  <1>3. (\A r \in Replica : IdsOf(rep[r].pending) \cap ToSet(rep[r].ids) = {})'
    BY DEF SettledInv, IdsOf
  <1>4. NoLostEdit'
    <2> SUFFICES ASSUME NEW r \in Replica, NEW k \in 1..(rep[r].next - 1)
                 PROVE  StillThere(r, k)'
      BY NoLostSets
    <2>1. StillThere(r, k)
      BY NoLostSets DEF SettledInv
    <2>2. SomeSays(Outboxed(r), r, k) => SomeSays(Outboxed(r), r, k)'
      BY DEF SomeSays, Outboxed
    <2>3. CASE SomeSays(InLog, r, k)
      <3>1. PICK op \in InLog : op.id[1] = r /\ k \in op.id[2]..op.upto
        BY <2>3 DEF SomeSays
      <3> QED
        BY <3>1 DEF StillThere, SomeSays
    <2>4. SomeSays(refused \cup wiped, r, k) => SomeSays(refused \cup wiped, r, k)'
      BY DEF SomeSays
    <2> QED
      BY <2>1, <2>2, <2>3, <2>4 DEF StillThere
  <1> QED
    BY <1>2, <1>3, <1>4 DEF SettledInv

LEMMA SettledDeliver ==
  ASSUME Types, OrderlyInv, SettledInv, NEW k \in Call, Deliver(k)
  PROVE  SettledInv'
  <1>0. PICK r \in Replica : r = call[k].of
    BY DeliverDoes
  <1> DEFINE c == call[k]
             b == Base(rep[r], c)
             new == NewOps(b, c)
             gone == Gone(b, new, c)
  <1>1. /\ UNCHANGED <<server, unsent, wiped>> /\ refused' = refused \cup Rejected(c)
        /\ \A o \in Replica : o # r => rep'[o] = rep[o]
        /\ call'[k] = NoCall /\ \A j \in Call : j # k => call'[j] = call[j]
    BY <1>0, DeliverDoes
  <1>2. /\ c # NoCall /\ rep'[r].next = rep[r].next
        /\ ToSet(rep'[r].pending) = {op \in ToSet(rep[r].pending) : op.id \notin gone}
        /\ ToSet(b.ids) \subseteq ToSet(rep[r].ids)
        /\ IdsOf(new) \subseteq IdsOf(c.ops)
        /\ ToSet(rep'[r].ids) \subseteq ToSet(b.ids) \cup IdsOf(new)
    BY <1>0, DeliverTakes
  <1> HIDE DEF b, new
  <1>3. InLog' = InLog /\ Settled' = Settled
    BY <1>1, SettledSets DEF InLog, server
  <1>4. /\ ToSet(rep[r].ids) \subseteq Settled
        /\ c.acks \subseteq Settled /\ IdsOf(c.ops) \subseteq Settled
    BY <1>2 DEF SettledInv
  <1>5. gone \subseteq Settled \cup c.rejects
    BY <1>2, <1>4 DEF Gone
  <1>6. RejectsSent'
    BY <1>1 DEF SettledInv, RejectsSent, IdsOf
  <1>7. (\A j \in Call : call[j] # NoCall =>
           call[j].acks \subseteq Settled /\ IdsOf(call[j].ops) \subseteq Settled)'
    BY <1>1, <1>3 DEF SettledInv, IdsOf
  <1>8. (\A o \in Replica : ToSet(rep[o].ids) \subseteq Settled)'
    <2> SUFFICES ASSUME NEW o \in Replica
                 PROVE  ToSet(rep'[o].ids) \subseteq Settled
      BY <1>3
    <2>1. CASE o = r
      BY <1>2, <1>4, <2>1
    <2>2. CASE o # r
      BY <1>1, <2>2 DEF SettledInv
    <2> QED
      BY <2>1, <2>2
  <1>9. (\A o \in Replica : IdsOf(rep[o].pending) \cap ToSet(rep[o].ids) = {})'
    <2> SUFFICES ASSUME NEW o \in Replica
                 PROVE  IdsOf(rep'[o].pending) \cap ToSet(rep'[o].ids) = {}
      BY DEF IdsOf
    <2>1. CASE o = r
      <3>1. IdsOf(rep'[r].pending) = {op.id : op \in ToSet(rep'[r].pending)}
        BY SequenceSets
      <3>2. ToSet(rep'[r].ids) \subseteq gone
        BY <1>2 DEF Gone
      <3> HIDE DEF gone
      <3> QED
        BY <1>2, <2>1, <3>1, <3>2
    <2>2. CASE o # r
      BY <1>1, <2>2 DEF SettledInv
    <2> QED
      BY <2>1, <2>2
  <1>10. NoLostEdit'
    <2> SUFFICES ASSUME NEW o \in Replica, NEW m \in 1..(rep'[o].next - 1)
                 PROVE  StillThere(o, m)'
      BY NoLostSets
    <2>1. m \in 1..(rep[o].next - 1)
      BY <1>1, <1>2
    <2>2. StillThere(o, m)
      BY <2>1, NoLostSets DEF SettledInv
    <2>3. SomeSays(InLog, o, m) => SomeSays(InLog, o, m)'
      BY <1>3 DEF SomeSays
    <2>4. SomeSays(refused \cup wiped, o, m) => SomeSays(refused \cup wiped, o, m)'
      BY <1>1 DEF SomeSays
    <2>5. CASE SomeSays(Outboxed(o), o, m)
      <3>1. PICK op \in Outboxed(o) : op.id[1] = o /\ m \in op.id[2]..op.upto
        BY <2>5 DEF SomeSays
      <3>2. op \in Known /\ op \in Operation
        BY KnownTyped
      <3>4. CASE op \in Outboxed(o)'
        BY <3>1, <3>4 DEF StillThere, SomeSays
      <3>5. CASE op \notin Outboxed(o)'
        <4>1. o = r
          BY <1>1, <3>5 DEF Outboxed
        <4>2. op.id \in gone
          BY <1>2, <3>5, <4>1 DEF Outboxed
        <4>3. CASE op.id \in c.rejects
          <5>1. c.rejects \subseteq IdsOf(c.pending)
            BY <1>2 DEF SettledInv, RejectsSent
          <5>2. PICK a \in ToSet(c.pending) : a.id = op.id
            BY <4>3, <5>1, SequenceSets
          <5>3. a \in Known
            BY <1>2, <5>2, KnownTyped
          <5>4. a = op
            BY <3>2, <5>2, <5>3, SameId
          <5>5. op \in Rejected(c)
            BY <4>3, <5>2, <5>4 DEF Rejected
          <5> QED
            BY <1>1, <3>1, <5>5 DEF StillThere, SomeSays
        <4>4. CASE op.id \notin c.rejects
          <5>1. PICK a \in InLog \cup wiped : a.id = op.id
            BY <1>5, <4>2, <4>4, SettledSets
          <5>2. a = op
            BY <3>2, <5>1, KnownTyped, SameId
          <5> QED
            BY <1>1, <1>3, <3>1, <5>1, <5>2 DEF StillThere, SomeSays
        <4> QED
          BY <4>3, <4>4
      <3> QED
        BY <3>4, <3>5
    <2> QED
      BY <2>2, <2>3, <2>4, <2>5 DEF StillThere
  <1> QED
    BY <1>6, <1>7, <1>8, <1>9, <1>10 DEF SettledInv

LEMMA SettledBegin ==
  ASSUME Types, OrderlyInv, SettledInv, NEW r \in Replica, NEW k \in Call,
         NEW by \in {"loop", "caller"}, BeginStep(r, k, by)
  PROVE  SettledInv'
  <1>1. /\ UNCHANGED <<server, rep, history>> /\ call'[k] = Request(r, by)
        /\ \A j \in Call : j # k => call'[j] = call[j]
    BY BeginDoes DEF BeginStep
  <1>2. InLog' = InLog /\ Settled' = Settled
    BY <1>1, SettledSets DEF InLog, server, history
  <1>3. call'[k].acks = {} /\ IdsOf(call'[k].ops) = {} /\ call'[k].rejects = {}
    BY <1>1 DEF Request, IdsOf
  <1>4. (\A j \in Call : call[j] # NoCall =>
           call[j].acks \subseteq Settled /\ IdsOf(call[j].ops) \subseteq Settled)'
    <2> SUFFICES ASSUME NEW j \in Call, call'[j] # NoCall
                 PROVE  call'[j].acks \subseteq Settled /\ IdsOf(call'[j].ops) \subseteq Settled
      BY <1>2 DEF IdsOf
    <2>1. CASE j = k
      BY <1>3, <2>1
    <2>2. CASE j # k
      BY <1>1, <2>2 DEF SettledInv
    <2> QED
      BY <2>1, <2>2
  <1>5. RejectsSent'
    <2> SUFFICES ASSUME NEW j \in Call, call'[j] # NoCall
                 PROVE  call'[j].rejects \subseteq IdsOf(call'[j].pending)
      BY DEF RejectsSent, IdsOf
    <2>1. CASE j = k
      BY <1>3, <2>1
    <2>2. CASE j # k
      BY <1>1, <2>2 DEF SettledInv, RejectsSent
    <2> QED
      BY <2>1, <2>2
  <1> QED
    BY <1>1, <1>2, <1>4, <1>5, SettledOther DEF history

\* The page of a read is of the log.
LEMMA PageIsSettled ==
  ASSUME NEW n \in Nat, NEW ops \in Seq(Operation), FromLog(n, ops), ServerTyped
  PROVE  ToSet(ops) \subseteq InLog
  <1>1. /\ DOMAIN ops = 1..Len(ops) /\ DOMAIN log = 1..Len(log)
        /\ Len(ops) \in Nat /\ Len(log) \in Nat
    BY LogTyped
  <1>2. \A i \in 1..Len(ops) : n + i \in 1..Len(log) /\ ops[i] = log[n + i].op
    <2>1. n + Len(ops) <= Len(log) /\ \A i \in 1..Len(ops) : ops[i] = log[n + i].op
      BY DEF FromLog
    <2>2. \A i \in 1..Len(ops) : n + i \in 1..Len(log)
      BY <1>1, <2>1
    <2> QED
      BY <2>1, <2>2
  <1> QED
    BY <1>1, <1>2 DEF ToSet, InLog

LEMMA SettledHandler ==
  ASSUME Types, OrderlyInv, SettledInv, NEW k \in Call,
         \/ HandleEpoch(k) \/ HandleCursor(k) \/ HandleOperation(k)
         \/ HandleRead(k) \/ HandleLoad(k)
  PROVE  SettledInv'
  <1> DEFINE c == call[k]
             d == call'[k]
  <1>1. /\ UNCHANGED <<rep, unsent, history>>
        /\ \A j \in Call : j # k => call'[j] = call[j]
        /\ CallTypes(c) /\ CallTypes(d) /\ c # NoCall /\ d # NoCall /\ SameRequest(c, d)
        /\ InLog \subseteq InLog'
        /\ ~HandleOperation(k) => log' = log /\ InLog' = InLog
    BY HandlersKeep
  <1>2. Settled \subseteq Settled' /\ wiped' = wiped /\ refused' = refused
    BY <1>1, SettledSets DEF history
  <1>3. c.acks \subseteq Settled /\ IdsOf(c.ops) \subseteq Settled
    BY <1>1 DEF SettledInv
  <1>4. d.acks \subseteq Settled' /\ IdsOf(d.ops) \subseteq Settled'
    <2>1. CASE HandleEpoch(k) \/ HandleCursor(k)
      <3>1. SameWork(c, d) /\ SameReply(c, d)
        BY <2>1, HandleEpochDoes, HandleCursorDoes
      <3> QED
        BY <1>2, <1>3, <3>1 DEF SameWork, SameReply
    <2>2. CASE HandleOperation(k)
      <3> DEFINE op == c.pending[c.done + 1]
      <3>1. /\ Answered(c, d, op)
            /\ Refuses(c, d, op) \/ AcknowledgesAgain(c, d, op) \/ Commits(c, d, op)
        BY <2>2, HandleOperationDoes
      <3>2. Commits(c, d, op) => InLog' = InLog \cup {op}
        BY <2>2, CommittedWasSent
      <3> HIDE DEF op, c, d
      <3>3. CASE d.acks = c.acks
        BY <1>2, <1>3, <3>1, <3>3 DEF Answered, SameReply
      <3>4. CASE d.acks # c.acks
        <4>1. d.acks = c.acks \cup {op.id} /\ d.ops = c.ops
          BY <3>1, <3>4 DEF Answered, SameReply
        <4>2. AcknowledgesAgain(c, d, op) => op.id \in {a.id : a \in InLog}
          BY DEF AcknowledgesAgain, Prior, InLog
        <4>3. op.id \in Settled'
          BY <1>1, <3>1, <3>2, <3>4, <4>2, SettledSets DEF Refuses
        <4> QED
          BY <1>2, <1>3, <4>1, <4>3
      <3> QED
        BY <3>3, <3>4
    <2>3. CASE HandleRead(k)
      <3>1. /\ SameWork(c, d) /\ d.from = c.from
            /\ SameReply(c, d) \/ FromLog(d.from, d.ops)
        BY <2>3, HandleReadDoes
      <3>2. FromLog(d.from, d.ops) => IdsOf(d.ops) \subseteq Settled
        <4>1. d.from \in Nat /\ d.ops \in Seq(Operation) /\ ServerTyped
          BY <1>1, CallFields DEF Types
        <4>2. FromLog(d.from, d.ops) => ToSet(d.ops) \subseteq InLog
          BY <4>1, PageIsSettled
        <4> QED
          BY <4>2, SequenceSets, SettledSets
      <3> QED
        BY <1>2, <1>3, <3>1, <3>2 DEF SameWork, SameReply
    <2>4. CASE HandleLoad(k)
      <3>1. SameWork(c, d) /\ d.ops = <<>>
        BY <2>4, HandleLoadDoes
      <3>2. IdsOf(d.ops) = {}
        BY <3>1 DEF IdsOf
      <3> QED
        BY <1>2, <1>3, <3>1, <3>2 DEF SameWork
    <2> QED
      BY <2>1, <2>2, <2>3, <2>4
  <1>5. (\A j \in Call : call[j] # NoCall =>
           call[j].acks \subseteq Settled /\ IdsOf(call[j].ops) \subseteq Settled)'
    <2> SUFFICES ASSUME NEW j \in Call, call'[j] # NoCall
                 PROVE  call'[j].acks \subseteq Settled' /\ IdsOf(call'[j].ops) \subseteq Settled'
      BY DEF IdsOf
    <2>1. CASE j = k
      BY <1>4, <2>1
    <2>2. CASE j # k
      BY <1>1, <1>2, <2>2 DEF SettledInv
    <2> QED
      BY <2>1, <2>2
  <1>6. d.rejects \subseteq IdsOf(c.pending)
    <2>1. c.rejects \subseteq IdsOf(c.pending)
      BY <1>1 DEF SettledInv, RejectsSent
    <2>2. CASE HandleOperation(k)
      <3> DEFINE op == c.pending[c.done + 1]
      <3>1. d.rejects \subseteq c.rejects \cup {op.id} /\ c.done < Len(c.pending)
        BY <2>2, HandleOperationDoes DEF Answered
      <3>2. c.pending \in Seq(Operation) /\ c.done \in Nat
        BY <1>1, CallFields
      <3>3. c.done + 1 \in DOMAIN c.pending
        BY <3>1, <3>2
      <3>4. op.id \in IdsOf(c.pending)
        BY <3>3 DEF IdsOf
      <3> QED
        BY <2>1, <3>1, <3>4
    <2>3. CASE ~HandleOperation(k)
      <3>1. d.rejects = c.rejects
        BY <2>3, HandleEpochDoes, HandleCursorDoes, HandleReadDoes, HandleLoadDoes DEF SameWork
      <3> QED
        BY <2>1, <3>1
    <2> QED
      BY <2>2, <2>3
  <1>7. RejectsSent'
    <2> SUFFICES ASSUME NEW j \in Call, call'[j] # NoCall
                 PROVE  call'[j].rejects \subseteq IdsOf(call'[j].pending)
      BY DEF RejectsSent, IdsOf
    <2>1. CASE j = k
      BY <1>1, <1>6, <2>1 DEF SameRequest
    <2>2. CASE j # k
      BY <1>1, <2>2 DEF SettledInv, RejectsSent
    <2> QED
      BY <2>1, <2>2
  <1> QED
    BY <1>1, <1>2, <1>5, <1>7, SettledOther

LEMMA SettledQuiet ==
  ASSUME Types, OrderlyInv, SettledInv, Quiet
  PROVE  SettledInv'
  <1>1. InLog' = InLog /\ Settled' = Settled /\ UNCHANGED <<rep, refused, wiped>>
    BY SettledSets DEF Quiet, InLog, history
  <1>2. (\A j \in Call : call[j] # NoCall =>
           call[j].acks \subseteq Settled /\ IdsOf(call[j].ops) \subseteq Settled)'
    <2> SUFFICES ASSUME NEW j \in Call, call'[j] # NoCall
                 PROVE  call'[j].acks \subseteq Settled /\ IdsOf(call'[j].ops) \subseteq Settled
      BY <1>1 DEF IdsOf
    <2>1. /\ call[j] # NoCall /\ call'[j].acks = call[j].acks /\ call'[j].ops = call[j].ops
      BY DEF Quiet, SameCall, SameWork, SameReply
    <2> QED
      BY <2>1 DEF SettledInv
  <1>3. RejectsSent'
    <2> SUFFICES ASSUME NEW j \in Call, call'[j] # NoCall
                 PROVE  call'[j].rejects \subseteq IdsOf(call'[j].pending)
      BY DEF RejectsSent, IdsOf
    <2>1. /\ call[j] # NoCall /\ call'[j].rejects = call[j].rejects
          /\ call'[j].pending = call[j].pending
      BY DEF Quiet, SameCall, SameWork, SameRequest
    <2> QED
      BY <2>1 DEF SettledInv, RejectsSent
  <1> QED
    BY <1>1, <1>2, <1>3, SettledOther

LEMMA SettledReset ==
  ASSUME Types, OrderlyInv, SettledInv, ResetJournal
  PROVE  SettledInv'
  <1>1. /\ wiped' = wiped \cup InLog /\ log' = <<>>
        /\ UNCHANGED <<rep, unsent, call, refused>>
    BY ResetDoes
  <1>2. Settled \subseteq Settled'
    BY <1>1, SettledSets
  <1>3. (\A j \in Call : call[j] # NoCall =>
           call[j].acks \subseteq Settled /\ IdsOf(call[j].ops) \subseteq Settled)'
    BY <1>1, <1>2 DEF SettledInv, IdsOf
  <1>4. RejectsSent'
    BY <1>1 DEF SettledInv, RejectsSent, IdsOf
  <1> QED
    BY <1>1, <1>2, <1>3, <1>4, SettledOther

LEMMA InitSettled ==
  ASSUME Init
  PROVE  SettledInv
  <1>1. /\ rep = [r \in Replica |-> EmptyReplica] /\ call = [k \in Call |-> NoCall]
        /\ wiped = {}
    BY DEF Init
  <1>2. /\ \A r \in Replica : rep[r].pending = <<>> /\ rep[r].ids = <<>> /\ rep[r].next = 1
        /\ \A k \in Call : call[k] = NoCall
    BY <1>1 DEF EmptyReplica
  <1>3. ToSet(<<>>) = {} /\ IdsOf(<<>>) = {}
    BY DEF ToSet, IdsOf
  <1>4. NoLostEdit
    BY <1>2 DEF NoLostEdit
  <1> QED
    BY <1>1, <1>2, <1>3, <1>4 DEF SettledInv, RejectsSent

\* What a replica or a call takes for committed was committed, in this history or
\* another, and every submitted message is somewhere.
THEOREM SyncSettled == Spec => []SettledInv
  <1>1. Init => SettledInv
    BY InitSettled
  <1>2. Types /\ OrderlyInv /\ SettledInv /\ [Next]_vars => SettledInv'
    BY StepIs, SettledSubmit, SettledBegin, SettledDeliver, SettledHandler, SettledQuiet,
       SettledReset
  <1> QED
    BY <1>1, <1>2, SyncTypes, SyncOrderly, PTL DEF Spec

\* No submitted message is ever lost, whatever is coalesced, sent again, lost on
\* the way, compacted or reset, and however the policy varies.
THEOREM SyncNoLostEdit == Spec => []NoLostEdit
  <1>1. SettledInv => NoLostEdit
    BY DEF SettledInv
  <1> QED
    BY <1>1, SyncSettled, PTL

\* Whatever an exchange stores, openReplica accepts.
THEOREM SyncStoreReopens == Spec => []StoreReopens
  <1>1. Types /\ OrderlyInv /\ SettledInv => StoreReopens
    <2> SUFFICES ASSUME Types, OrderlyInv, SettledInv, NEW r \in Replica
                 PROVE  LET p == rep[r].pending IN
                        /\ \A i \in DOMAIN p : p[i].upto < rep[r].next
                        /\ \A i, j \in DOMAIN p : i < j => p[i].upto < p[j].id[2]
                        /\ IdsOf(p) \cap Range(rep[r].ids) = {}
      BY DEF StoreReopens
    <2> DEFINE p == rep[r].pending
    <2>1. \A i \in DOMAIN p : p[i] \in Known /\ p[i] \in Operation /\ p[i].id[1] = r
      <3>1. \A i \in DOMAIN p : p[i] \in Outboxed(r)
        BY DEF Outboxed, ToSet
      <3> QED
        BY <3>1, KnownTyped DEF OrderlyInv, Outgoing
    <2>2. \A i \in DOMAIN p : p[i].upto < rep[r].next /\ p[i].id[2] <= p[i].upto
      BY <2>1 DEF OrderlyInv, Submittable
    <2>3. \A i, j \in DOMAIN p : i < j => p[i].id[2] < p[j].id[2]
      BY DEF OrderlyInv, Outgoing
    <2> HIDE DEF p
    <2>4. ASSUME NEW i \in DOMAIN p, NEW j \in DOMAIN p, i < j
          PROVE  p[i].upto < p[j].id[2]
      <3>1. p[i].id[2] < p[j].id[2] /\ p[j].id[2] <= p[j].upto
        BY <2>2, <2>3, <2>4
      <3>2. p[i] = p[j] \/ p[i].upto < p[j].id[2] \/ p[j].upto < p[i].id[2]
        BY <2>1 DEF OrderlyInv, OneEach
      <3>3. p[i].id[2] \in Nat /\ p[j].id[2] \in Nat /\ p[j].upto \in Nat
        BY <2>1, OperationTyped
      <3> QED
        BY <3>1, <3>2, <3>3
    <2>5. IdsOf(p) \cap Range(rep[r].ids) = {}
      BY DEF SettledInv, Range, ToSet, p
    <2> QED
      BY <2>2, <2>4, <2>5 DEF p
  <1> QED
    BY <1>1, SyncTypes, SyncOrderly, SyncSettled, PTL

-----------------------------------------------------------------------------
(* Committed states are prefixes of the log.                               *)

\* What follows the log's first n still does while the log only grows.
LEMMA FromLogGrows ==
  ASSUME ServerTyped, NEW e, e \in Journal!Entry, log' = log \/ log' = Append(log, e)
  PROVE  \A n \in Nat : \A ops \in Seq(Operation) : FromLog(n, ops) => FromLog(n, ops)'
  <1> SUFFICES ASSUME NEW n \in Nat, NEW ops \in Seq(Operation), FromLog(n, ops)
               PROVE  n + Len(ops) <= Len(log') /\ \A i \in 1..Len(ops) : ops[i] = log'[n + i].op
    BY DEF FromLog
  <1>1. /\ log \in Seq(Journal!Entry) /\ Len(log) \in Nat /\ Len(ops) \in Nat
        /\ n + Len(ops) <= Len(log) /\ \A i \in 1..Len(ops) : ops[i] = log[n + i].op
    BY DEF ServerTyped, FromLog
  <1>2. Len(log') >= Len(log) /\ Len(log') \in Nat /\ \A i \in 1..Len(log) : log'[i] = log[i]
    <2> DEFINE E == Journal!Entry
    <2>1. log \in Seq(E) /\ e \in E
      BY <1>1
    <2> HIDE DEF E
    <2> QED
      BY <2>1
  <1>3. \A i \in 1..Len(ops) : n + i \in 1..Len(log)
    BY <1>1
  <1> QED
    BY <1>1, <1>2, <1>3

\* A page that starts within a prefix of the log, joined with that prefix.
LEMMA Joined ==
  ASSUME NEW s \in Seq(Operation), NEW t \in Seq(Operation),
         FromLog(0, s), FromLog(Len(s), t)
  PROVE  FromLog(0, s \o t) /\ Len(s \o t) = Len(s) + Len(t)
  <1> DEFINE u == s \o t
  <1>1. /\ Len(u) = Len(s) + Len(t) /\ Len(s) \in Nat /\ Len(t) \in Nat
        /\ \A i \in 1..Len(s) : u[i] = s[i]
        /\ \A i \in 1..Len(t) : u[Len(s) + i] = t[i]
    OBVIOUS
  <1>2. /\ \A i \in 1..Len(s) : s[i] = log[0 + i].op
        /\ Len(s) + Len(t) <= Len(log) /\ \A i \in 1..Len(t) : t[i] = log[Len(s) + i].op
    BY DEF FromLog
  <1> HIDE DEF u
  <1>3. ASSUME NEW i \in 1..Len(u)
        PROVE  u[i] = log[0 + i].op
    <2>1. CASE i <= Len(s)
      BY <1>1, <1>2, <2>1
    <2>2. CASE ~(i <= Len(s))
      <3>1. i - Len(s) \in 1..Len(t) /\ i = Len(s) + (i - Len(s))
        BY <1>1, <2>2
      <3>2. u[i] = log[i].op
        BY <1>1, <1>2, <3>1
      <3> QED
        BY <3>2
    <2> QED
      BY <2>1, <2>2
  <1> QED
    BY <1>1, <1>2, <1>3 DEF u, FromLog

\* A reply of the standing history, applied to a state that fits it.
LEMMA AppliedFits ==
  ASSUME Types, NEW s, RepTypes(s), ViewFits(s), NEW c, CallTypes(c), ReplyFits(c),
         c.phase = "reply", c.epoch = epoch, epoch # 0, Acceptable(s, c)
  PROVE  LET t == Applied(s, c)  b == Base(s, c) IN
         /\ t.cursor = Len(t.committed) /\ FromLog(0, t.committed)
         /\ b.cursor = Len(b.committed)
         /\ c.checkpoint # <<>> => t.cursor = c.checkpoint[1].cursor
         /\ c.checkpoint = <<>> /\ b.cursor >= c.from =>
              t.cursor >= b.cursor /\ t.cursor >= c.from + Len(c.ops)
         /\ t.cursor >= b.cursor
  <1> DEFINE b == Base(s, c)
             new == NewOps(b, c)
             t == Applied(s, c)
             skip == Passed(b.cursor, c.from)
  <1>1. /\ s.cursor \in Nat /\ s.committed \in Seq(Operation)
        /\ c.from \in Nat /\ c.ops \in Seq(Operation)
        /\ c.checkpoint # <<>> => c.ops = <<>>
    BY RepFields, CallFields
  <1>2. /\ b.cursor \in Nat /\ b.committed \in Seq(Operation)
        /\ c.checkpoint # <<>> =>
             b.cursor = c.checkpoint[1].cursor /\ b.committed = c.checkpoint[1].model
        /\ c.checkpoint = <<>> /\ Restarted(s, c) => b.cursor = 0 /\ b.committed = <<>>
        /\ c.checkpoint = <<>> /\ ~Restarted(s, c) =>
             b.cursor = s.cursor /\ b.committed = s.committed
    BY BaseIs
  <1>3. /\ new \in Seq(Operation) /\ Len(new) \in Nat
        /\ Len(new) = IF skip < Len(c.ops) THEN Len(c.ops) - skip ELSE 0
        /\ \A i \in 1..Len(new) : skip + i \in DOMAIN c.ops /\ new[i] = c.ops[skip + i]
    BY <1>2, NewOpsAre
  <1>4. t.cursor = b.cursor + Len(new) /\ t.committed = b.committed \o new
    BY AppliedIs
  <1>5. new # <<>> => c.from <= b.cursor
    BY DEF Acceptable
  <1> HIDE DEF b, new, t
  <1>6. b.cursor = Len(b.committed) /\ FromLog(0, b.committed)
    <2>0. Len(<<>>) = 0 /\ FromLog(0, <<>>)
      <3>1. Len(log) \in Nat
        BY LogTyped DEF Types
      <3> QED
        BY <3>1 DEF FromLog
    <2>1. CASE c.checkpoint # <<>>
      BY <1>2, <2>1 DEF ReplyFits
    <2>2. CASE c.checkpoint = <<>> /\ Restarted(s, c)
      BY <1>2, <2>0, <2>2
    <2>3. CASE c.checkpoint = <<>> /\ ~Restarted(s, c)
      <3>1. s.epoch = 0 \/ s.epoch = epoch
        BY <2>3 DEF Restarted
      <3>2. s.cursor = Len(s.committed) /\ FromLog(0, s.committed)
        BY <2>0, <3>1 DEF ViewFits
      <3> QED
        BY <1>2, <2>3, <3>2
    <2> QED
      BY <2>1, <2>2, <2>3
  <1>7. FromLog(b.cursor, new)
    <2>1. CASE new = <<>>
      <3>1. b.cursor <= Len(log) /\ Len(log) \in Nat
        <4>1. 0 + Len(b.committed) <= Len(log)
          BY <1>6 DEF FromLog
        <4> QED
          BY <1>2, <1>6, <4>1, LogTyped DEF Types
      <3> QED
        BY <1>2, <2>1, <3>1 DEF FromLog
    <2>2. CASE new # <<>>
      <3>1. c.ops # <<>>
        <4>1. c.ops = <<>> => Len(new) = 0
          BY <1>1, <1>2, <1>3 DEF Passed
        <4> QED
          BY <1>3, <2>2, <4>1
      <3>2. FromLog(c.from, c.ops)
        BY <1>1, <3>1 DEF ReplyFits
      <3>3. skip = b.cursor - c.from /\ skip \in Nat
        BY <1>1, <1>2, <1>5, <2>2 DEF Passed
      <3>4. /\ c.from + Len(c.ops) <= Len(log) /\ Len(c.ops) \in Nat
            /\ DOMAIN c.ops = 1..Len(c.ops)
            /\ \A i \in 1..Len(c.ops) : c.ops[i] = log[c.from + i].op
        BY <1>1, <3>2 DEF FromLog
      <3> HIDE DEF skip
      <3>5. Len(new) = Len(c.ops) - skip
        <4>1. Len(new) # 0
          BY <1>3, <2>2
        <4> QED
          BY <1>3, <4>1
      <3>6. Len(log) \in Nat
        BY LogTyped DEF Types
      <3>7. b.cursor + Len(new) <= Len(log)
        BY <1>1, <1>2, <3>3, <3>4, <3>5, <3>6
      <3>8. \A i \in 1..Len(new) : new[i] = log[b.cursor + i].op
        <4> SUFFICES ASSUME NEW i \in 1..Len(new)
                     PROVE  new[i] = log[b.cursor + i].op
          OBVIOUS
        <4>1. new[i] = c.ops[skip + i] /\ skip + i \in 1..Len(c.ops)
          BY <1>3, <3>4
        <4>2. c.from + (skip + i) = b.cursor + i
          BY <1>1, <1>2, <3>3
        <4> QED
          BY <3>4, <4>1, <4>2
      <3> QED
        BY <3>7, <3>8 DEF FromLog
    <2> QED
      BY <2>1, <2>2
  <1>8. FromLog(0, t.committed) /\ t.cursor = Len(t.committed)
    BY <1>2, <1>3, <1>4, <1>6, <1>7, Joined
  <1>9. c.checkpoint # <<>> => t.cursor = c.checkpoint[1].cursor
    <2> SUFFICES ASSUME c.checkpoint # <<>>
                 PROVE  Len(new) = 0
      BY <1>2, <1>4
    <2>1. Len(c.ops) = 0 /\ skip \in Nat
      BY <1>1, <1>2 DEF Passed
    <2> QED
      BY <1>3, <2>1
  <1>10. t.cursor >= b.cursor
    BY <1>2, <1>3, <1>4
  <1>11. b.cursor >= c.from => t.cursor >= c.from + Len(c.ops)
    <2> SUFFICES ASSUME b.cursor >= c.from
                 PROVE  t.cursor >= c.from + Len(c.ops)
      OBVIOUS
    <2>1. skip = b.cursor - c.from /\ Len(c.ops) \in Nat
      BY <1>1 DEF Passed
    <2> HIDE DEF skip
    <2> QED
      BY <1>1, <1>2, <1>3, <1>4, <2>1
  <1> QED
    BY <1>6, <1>8, <1>9, <1>10, <1>11 DEF b, t

\* What a step makes of the history: it goes on, begins, or ends.
HistoryStep ==
  /\ used \subseteq used'
  /\ \/ epoch' = epoch /\ (log' = log \/ \E e \in Journal!Entry : log' = Append(log, e))
     \/ epoch = 0 /\ epoch' \notin used \cup {0}
     \/ epoch' = 0

SameView(s, t) == t.epoch = s.epoch /\ t.cursor = s.cursor /\ t.committed = s.committed
SameAnswer(c, d) == SameReply(c, d) /\ d.phase = c.phase /\ d.epoch = c.epoch /\ d.from = c.from

LEMMA ZeroUnused ==
  ASSUME ServerTyped
  PROVE  0 \notin used
  <1> DEFINE n == Cardinality(used)
  <1>1. used = 1..n /\ n \in Int
    BY SyncBoundsAssumption DEF ServerTyped, Epochs
  <1> HIDE DEF n
  <1> QED
    BY <1>1

\* What fits a history fits what a step makes of it.
LEMMA StillFits ==
  ASSUME Types, Types', HistoryStep
  PROVE  /\ \A s : RepTypes(s) /\ s.epoch \in used \cup {0} /\ ViewFits(s) => ViewFits(s)'
         /\ \A c : CallTypes(c) /\ c.epoch \in used /\ ReplyFits(c) => ReplyFits(c)'
  <1>1. ServerTyped /\ 0 \notin used /\ Len(log') \in Nat
    <2>1. ServerTyped /\ log' \in Seq(Journal!Entry)
      BY DEF Types, ServerTyped, Journal!Entry
    <2> QED
      BY <2>1, ZeroUnused
  <1>2. ASSUME epoch' = epoch
        PROVE  \/ \A n \in Nat : \A ops \in Seq(Operation) : FromLog(n, ops) => FromLog(n, ops)'
               \/ epoch' = 0
    <2>1. CASE \E e \in Journal!Entry : log' = Append(log, e)
      BY <1>1, <2>1, FromLogGrows
    <2>2. CASE log' = log
      BY <2>2 DEF FromLog
    <2> QED
      BY <1>2, <2>1, <2>2 DEF HistoryStep
  <1>3. FromLog(0, <<>>)'
    BY <1>1 DEF FromLog
  <1>4. ASSUME NEW s, RepTypes(s), s.epoch \in used \cup {0}, ViewFits(s)
        PROVE  ViewFits(s)'
    <2>1. s.committed \in Seq(Operation)
      BY <1>4, RepFields
    <2>2. s.epoch = 0 => s.committed = <<>> /\ s.cursor = 0
      BY <1>4 DEF ViewFits
    <2>3. ASSUME s.epoch = epoch'
          PROVE  s.cursor = Len(s.committed) /\ FromLog(0, s.committed)'
      <3>1. CASE s.epoch = 0
        BY <1>3, <2>2, <3>1
      <3>2. CASE s.epoch # 0
        <4>1. epoch' = epoch /\ epoch' # 0
          BY <1>4, <2>3, <3>2 DEF HistoryStep
        <4>2. s.cursor = Len(s.committed) /\ FromLog(0, s.committed)
          BY <1>4, <2>3, <4>1 DEF ViewFits
        <4> QED
          BY <1>2, <2>1, <4>1, <4>2
      <3> QED
        BY <3>1, <3>2
    <2> QED
      BY <2>2, <2>3 DEF ViewFits
  <1>5. ASSUME NEW c, CallTypes(c), c.epoch \in used, ReplyFits(c)
        PROVE  ReplyFits(c)'
    <2> SUFFICES ASSUME c.phase = "reply", c.epoch = epoch'
                 PROVE  /\ c.checkpoint = <<>> => FromLog(c.from, c.ops)'
                        /\ c.checkpoint # <<>> =>
                             /\ c.checkpoint[1].cursor = Len(c.checkpoint[1].model)
                             /\ FromLog(0, c.checkpoint[1].model)'
      BY DEF ReplyFits
    <2>1. epoch' = epoch /\ epoch' # 0
      BY <1>1, <1>5 DEF HistoryStep
    <2>2. /\ c.checkpoint = <<>> => FromLog(c.from, c.ops)
          /\ c.checkpoint # <<>> =>
               /\ c.checkpoint[1].cursor = Len(c.checkpoint[1].model)
               /\ FromLog(0, c.checkpoint[1].model)
      BY <1>5, <2>1 DEF ReplyFits
    <2>3. /\ c.from \in Nat /\ c.ops \in Seq(Operation)
          /\ c.checkpoint # <<>> => c.checkpoint[1].model \in Seq(Operation)
      BY <1>5, CallFields
    <2> QED
      BY <1>2, <2>1, <2>2, <2>3
  <1> QED
    BY <1>4, <1>5

\* Only what changed has to be looked at.
LEMMA PrefixKeeps ==
  ASSUME Types, Types', PrefixInv, HistoryStep,
         \A r \in Replica :
           \/ SameView(rep[r], rep'[r])
           \/ rep'[r].epoch \in used' /\ \E s : s = rep'[r] /\ ViewFits(s)',
         \A k \in Call : call'[k] # NoCall =>
           \/ call[k] # NoCall /\ SameAnswer(call[k], call'[k])
           \/ /\ call'[k].phase \in {"sent", "failed"} \/ call'[k].epoch \in used'
              /\ \E c : c = call'[k] /\ ReplyFits(c)'
  PROVE  PrefixInv'
  <1>1. /\ \A s : RepTypes(s) /\ s.epoch \in used \cup {0} /\ ViewFits(s) => ViewFits(s)'
        /\ \A c : CallTypes(c) /\ c.epoch \in used /\ ReplyFits(c) => ReplyFits(c)'
    BY StillFits
  <1>2. used \subseteq used'
    BY DEF HistoryStep
  <1>3. ASSUME NEW r \in Replica
        PROVE  rep'[r].epoch \in used' \cup {0} /\ \E s : s = rep'[r] /\ ViewFits(s)'
    <2>1. CASE SameView(rep[r], rep'[r])
      <3>1. PICK s : s = rep[r]
        OBVIOUS
      <3>2. PICK t : t = rep'[r]
        OBVIOUS
      <3>3. RepTypes(s) /\ s.epoch \in used \cup {0} /\ ViewFits(s)
        BY <3>1 DEF Types, ReplicasTyped, PrefixInv
      <3>4. ViewFits(s)'
        BY <1>1, <3>3
      <3>5. ViewFits(t)'
        BY <2>1, <3>1, <3>2, <3>4 DEF ViewFits, FromLog, SameView
      <3>6. t.epoch = s.epoch
        BY <2>1, <3>1, <3>2 DEF SameView
      <3> QED
        BY <1>2, <3>2, <3>3, <3>5, <3>6
    <2>2. CASE rep'[r].epoch \in used' /\ \E s : s = rep'[r] /\ ViewFits(s)'
      BY <2>2
    <2> QED
      BY <2>1, <2>2
  <1>4. ASSUME NEW k \in Call, call'[k] # NoCall
        PROVE  /\ call'[k].phase \in {"sent", "failed"} \/ call'[k].epoch \in used'
               /\ \E c : c = call'[k] /\ ReplyFits(c)'
    <2>1. CASE call[k] # NoCall /\ SameAnswer(call[k], call'[k])
      <3>1. PICK c : c = call[k]
        OBVIOUS
      <3>2. PICK d : d = call'[k]
        OBVIOUS
      <3>3. CallTypes(c) /\ (c.phase \in {"sent", "failed"} \/ c.epoch \in used) /\ ReplyFits(c)
        BY <2>1, <3>1 DEF Types, CallsTyped, PrefixInv
      <3>4. SameAnswer(c, d)
        BY <2>1, <3>1, <3>2
      <3>5. ReplyFits(c)'
        <4>1. CASE c.phase \in {"sent", "failed"}
          BY <4>1 DEF ReplyFits
        <4>2. CASE c.epoch \in used
          BY <1>1, <3>3, <4>2
        <4> QED
          BY <3>3, <4>1, <4>2
      <3>6. ReplyFits(d)'
        BY <3>4, <3>5 DEF ReplyFits, FromLog, SameAnswer, SameReply
      <3>7. d.phase \in {"sent", "failed"} \/ d.epoch \in used'
        BY <1>2, <3>3, <3>4 DEF SameAnswer
      <3> QED
        BY <3>2, <3>6, <3>7
    <2>2. CASE ~(call[k] # NoCall /\ SameAnswer(call[k], call'[k]))
      BY <1>4, <2>2
    <2> QED
      BY <2>1, <2>2
  <1>5. (\A r \in Replica : rep[r].epoch \in used \cup {0})'
    BY <1>3
  <1>6. (\A k \in Call : call[k] # NoCall => call[k].phase \in {"sent", "failed"} \/ call[k].epoch \in used)'
    BY <1>4
  <1>7. (\A r \in Replica : ViewFits(rep[r]))'
    BY <1>3 DEF ViewFits, FromLog
  <1>8. (\A k \in Call : call[k] # NoCall => ReplyFits(call[k]))'
    <2> SUFFICES ASSUME NEW k \in Call, call'[k] # NoCall
                 PROVE  ReplyFits(call[k])'
      OBVIOUS
    <2>1. PICK c : c = call'[k] /\ ReplyFits(c)'
      BY <1>4
    <2> QED
      BY <2>1 DEF ReplyFits, FromLog
  <1> QED
    BY <1>5, <1>6, <1>7, <1>8 DEF PrefixInv

LEMMA PrefixSubmit ==
  ASSUME Types, PrefixInv, NEW r \in Replica, NEW merges \in BOOLEAN, Submit(r, merges)
  PROVE  PrefixInv'
  <1>1. /\ Types'
        /\ rep'[r].cursor = rep[r].cursor /\ rep'[r].committed = rep[r].committed
        /\ rep'[r].epoch = rep[r].epoch
        /\ \A o \in Replica : o # r => rep'[o] = rep[o]
    BY SubmitDoes
  <1>2. UNCHANGED <<log, epoch, used, call>>
    BY DEF Submit, server
  <1>3. \A o \in Replica : SameView(rep[o], rep'[o])
    BY <1>1 DEF SameView
  <1>4. \A k \in Call : call'[k] # NoCall => call[k] # NoCall /\ SameAnswer(call[k], call'[k])
    BY <1>2 DEF SameAnswer, SameReply
  <1>5. HistoryStep
    BY <1>2 DEF HistoryStep
  <1> QED
    BY <1>1, <1>3, <1>4, <1>5, PrefixKeeps

LEMMA PrefixBegin ==
  ASSUME Types, PrefixInv, NEW r \in Replica, NEW k \in Call, NEW by \in {"loop", "caller"},
         BeginStep(r, k, by)
  PROVE  PrefixInv'
  <1>1. /\ Types' /\ UNCHANGED <<server, rep, history>> /\ call'[k] = Request(r, by)
        /\ \A j \in Call : j # k => call'[j] = call[j]
    BY BeginDoes DEF BeginStep
  <1>2. call'[k].phase = "sent"
    BY <1>1 DEF Request
  <1>3. \E c : c = call'[k] /\ ReplyFits(c)'
    <2>1. PICK c : c = call'[k]
      OBVIOUS
    <2>2. c.phase = "sent"
      BY <1>2, <2>1
    <2> QED
      BY <2>1, <2>2 DEF ReplyFits
  <1>4. \A j \in Call : call'[j] # NoCall =>
           \/ call[j] # NoCall /\ SameAnswer(call[j], call'[j])
           \/ /\ call'[j].phase \in {"sent", "failed"} \/ call'[j].epoch \in used'
              /\ \E c : c = call'[j] /\ ReplyFits(c)'
    <2> SUFFICES ASSUME NEW j \in Call, call'[j] # NoCall
                 PROVE  \/ call[j] # NoCall /\ SameAnswer(call[j], call'[j])
                        \/ /\ call'[j].phase \in {"sent", "failed"} \/ call'[j].epoch \in used'
                           /\ \E c : c = call'[j] /\ ReplyFits(c)'
      OBVIOUS
    <2>1. CASE j = k
      BY <1>2, <1>3, <2>1
    <2>2. CASE j # k
      BY <1>1, <2>2 DEF SameAnswer, SameReply
    <2> QED
      BY <2>1, <2>2
  <1>5. HistoryStep /\ \A o \in Replica : SameView(rep[o], rep'[o])
    BY <1>1 DEF HistoryStep, SameView, server
  <1> QED
    BY <1>1, <1>4, <1>5, PrefixKeeps

LEMMA PrefixDeliver ==
  ASSUME Types, PrefixInv, NEW k \in Call, Deliver(k)
  PROVE  PrefixInv'
  <1>0. PICK r, c, s, t :
          r \in Replica /\ r = call[k].of /\ c = call[k] /\ s = rep[r] /\ t = rep'[r]
    BY DeliverDoes
  <1>00. r \in Replica
    BY <1>0
  <1> USE <1>00
  <1>1. /\ Types' /\ CallTypes(c) /\ RepTypes(s)
        /\ c.phase = "reply" /\ Acceptable(s, c) /\ t = Applied(s, c)
        /\ \A o \in Replica : o # r => rep'[o] = rep[o]
        /\ call'[k] = NoCall /\ \A j \in Call : j # k => call'[j] = call[j]
        /\ UNCHANGED <<server, unsent, wiped>>
    BY <1>0, DeliverDoes
  <1>2. c # NoCall
    BY <1>1, CallsDiffer
  <1>3. ViewFits(s) /\ c.epoch \in used /\ ReplyFits(c)
    BY <1>0, <1>1, <1>2 DEF PrefixInv
  <1>4. 0 \notin used
    BY ZeroUnused DEF Types
  <1>5. t.epoch = c.epoch
    BY <1>1, AppliedIs
  <1>6. c.epoch = epoch => t.cursor = Len(t.committed) /\ FromLog(0, t.committed)
    <2>1. c.epoch = epoch => epoch # 0
      BY <1>3, <1>4
    <2> QED
      BY <1>1, <1>3, <2>1, AppliedFits
  <1>7. ViewFits(t)'
    <2>1. ViewFits(t)
      BY <1>3, <1>4, <1>5, <1>6 DEF ViewFits
    <2> QED
      BY <1>1, <2>1 DEF ViewFits, FromLog, server
  <1>8. \A o \in Replica :
          \/ SameView(rep[o], rep'[o])
          \/ rep'[o].epoch \in used' /\ \E z : z = rep'[o] /\ ViewFits(z)'
    <2> SUFFICES ASSUME NEW o \in Replica
                 PROVE  \/ SameView(rep[o], rep'[o])
                        \/ rep'[o].epoch \in used' /\ \E z : z = rep'[o] /\ ViewFits(z)'
      OBVIOUS
    <2>1. CASE o = r
      BY <1>0, <1>1, <1>3, <1>5, <1>7, <2>1 DEF server
    <2>2. CASE o # r
      BY <1>1, <2>2 DEF SameView
    <2> QED
      BY <2>1, <2>2
  <1>9. \A j \in Call : call'[j] # NoCall => call[j] # NoCall /\ SameAnswer(call[j], call'[j])
    BY <1>1 DEF SameAnswer, SameReply
  <1>10. HistoryStep
    BY <1>1 DEF HistoryStep, server
  <1> QED
    BY <1>1, <1>8, <1>9, <1>10, PrefixKeeps

LEMMA PrefixQuiet ==
  ASSUME Types, Types', PrefixInv, Quiet \/ ResetJournal
  PROVE  PrefixInv'
  <1>1. CASE Quiet
    <2>1. HistoryStep /\ \A o \in Replica : SameView(rep[o], rep'[o])
      BY <1>1 DEF Quiet, HistoryStep, SameView
    <2>2. ASSUME NEW j \in Call, call'[j] # NoCall
          PROVE  \/ call[j] # NoCall /\ SameAnswer(call[j], call'[j])
                 \/ /\ call'[j].phase \in {"sent", "failed"} \/ call'[j].epoch \in used'
                    /\ \E c : c = call'[j] /\ ReplyFits(c)'
      <3>1. call[j] # NoCall /\ SameCall(call[j], call'[j])
        BY <1>1, <2>2 DEF Quiet
      <3>2. CASE call'[j].phase = "failed"
        <4>1. PICK c : c = call'[j] /\ c.phase = "failed"
          BY <3>2
        <4>2. ReplyFits(c)'
          BY <4>1 DEF ReplyFits
        <4> QED
          BY <4>1, <4>2
      <3>3. CASE call'[j].phase # "failed"
        BY <3>1, <3>3 DEF SameCall, SameAnswer
      <3> QED
        BY <3>2, <3>3
    <2> QED
      BY <2>1, <2>2, PrefixKeeps
  <1>2. CASE ResetJournal
    <2>1. epoch' = 0 /\ used' = used /\ UNCHANGED <<rep, call>>
      BY <1>2, ResetDoes
    <2>2. HistoryStep /\ \A o \in Replica : SameView(rep[o], rep'[o])
      BY <2>1 DEF HistoryStep, SameView
    <2>3. \A j \in Call : call'[j] # NoCall => call[j] # NoCall /\ SameAnswer(call[j], call'[j])
      BY <2>1 DEF SameAnswer, SameReply
    <2> QED
      BY <2>2, <2>3, PrefixKeeps
  <1> QED
    BY <1>1, <1>2

LEMMA PrefixHandler ==
  ASSUME Types, Types', PrefixInv, NEW k \in Call,
         \/ HandleEpoch(k) \/ HandleCursor(k) \/ HandleOperation(k)
         \/ HandleRead(k) \/ HandleLoad(k)
  PROVE  PrefixInv'
  <1>0. PICK c, d : c = call[k] /\ d = call'[k]
    OBVIOUS
  <1>1. /\ UNCHANGED <<rep, unsent, history>>
        /\ \A j \in Call : j # k => call'[j] = call[j]
        /\ CallTypes(c) /\ CallTypes(d) /\ c # NoCall /\ d # NoCall
    BY <1>0, HandlersKeep
  <1>2. c.phase \in {"sent", "failed"} \/ c.epoch \in used
    BY <1>0, <1>1 DEF PrefixInv
  <1>3. /\ HistoryStep
        /\ d.epoch \in used'
        /\ SameAnswer(c, d) \/ ReplyFits(d)'
    <2>1. CASE HandleEpoch(k)
      <3>1. /\ d.phase = "check" /\ d.epoch = epoch'
            /\ epoch' # 0 /\ epoch' \in used' /\ used \subseteq used'
            /\ epoch = 0 => epoch' \notin used
            /\ epoch # 0 => epoch' = epoch
            /\ log' = log
        BY <1>0, <2>1, HandleEpochDoes
      <3> QED
        BY <3>1 DEF HistoryStep, ReplyFits
    <2>2. CASE HandleCursor(k)
      <3>1. /\ c.phase = "check" /\ d.phase \in {"failed", "append"} /\ d.epoch = c.epoch
            /\ UNCHANGED server
        BY <1>0, <2>2, HandleCursorDoes
      <3> QED
        BY <1>2, <3>1 DEF HistoryStep, ReplyFits, server
    <2>3. CASE HandleOperation(k)
      <3> DEFINE op == c.pending[c.done + 1]
      <3>1. /\ Answered(c, d, op) /\ c.phase = "append" /\ op \in Operation
            /\ Refuses(c, d, op) \/ AcknowledgesAgain(c, d, op) \/ Commits(c, d, op)
        BY <1>0, <2>3, HandleOperationDoes
      <3>2. Entry(c.of, op) \in Journal!Entry
        BY <1>1, <3>1, CallFields DEF Entry, Journal!Entry
      <3> HIDE DEF op
      <3>3. d.phase = "append" /\ d.epoch = c.epoch
        BY <3>1 DEF Answered
      <3>4. HistoryStep
        <4>1. CASE UNCHANGED server
          BY <4>1 DEF HistoryStep, server
        <4>2. CASE Commits(c, d, op)
          BY <3>2, <4>2 DEF HistoryStep, Commits
        <4> QED
          BY <3>1, <4>1, <4>2 DEF Refuses, AcknowledgesAgain
      <3> QED
        BY <1>2, <3>1, <3>3, <3>4 DEF HistoryStep, ReplyFits
    <2>4. CASE HandleRead(k)
      <3>1. /\ c.phase = "append" /\ d.epoch = c.epoch /\ UNCHANGED server
            /\ \/ d.phase \in {"failed", "load"}
               \/ d.phase = "reply" /\ d.checkpoint = <<>> /\ FromLog(d.from, d.ops)
        BY <1>0, <2>4, HandleReadDoes
      <3>2. FromLog(d.from, d.ops) => FromLog(d.from, d.ops)'
        BY <3>1 DEF FromLog, server
      <3> QED
        BY <1>2, <3>1, <3>2 DEF HistoryStep, ReplyFits, server
    <2>5. CASE HandleLoad(k)
      <3>1. /\ c.phase = "load" /\ d.epoch = c.epoch /\ UNCHANGED server
            /\ d.checkpoint # <<>>
            /\ d.checkpoint[1].cursor = Len(log) /\ d.checkpoint[1].model = LogOps
        BY <1>0, <2>5, HandleLoadDoes
      <3>2. Len(LogOps) = Len(log) /\ FromLog(0, LogOps)
        <4>1. /\ Len(LogOps) = Len(log) /\ Len(log) \in Nat
              /\ \A i \in 1..Len(log) : LogOps[i] = log[i].op
          BY LogTyped DEF Types
        <4>2. \A i \in 1..Len(log) : 0 + i = i
          BY <4>1
        <4> QED
          BY <4>1, <4>2 DEF FromLog
      <3>3. FromLog(0, d.checkpoint[1].model)'
        BY <3>1, <3>2 DEF FromLog, server
      <3> QED
        BY <1>2, <3>1, <3>2, <3>3 DEF HistoryStep, ReplyFits, server
    <2> QED
      BY <2>1, <2>2, <2>3, <2>4, <2>5
  <1>4. \A j \in Call : call'[j] # NoCall =>
           \/ call[j] # NoCall /\ SameAnswer(call[j], call'[j])
           \/ /\ call'[j].phase \in {"sent", "failed"} \/ call'[j].epoch \in used'
              /\ \E z : z = call'[j] /\ ReplyFits(z)'
    <2> SUFFICES ASSUME NEW j \in Call, call'[j] # NoCall
                 PROVE  \/ call[j] # NoCall /\ SameAnswer(call[j], call'[j])
                        \/ /\ call'[j].phase \in {"sent", "failed"} \/ call'[j].epoch \in used'
                           /\ \E z : z = call'[j] /\ ReplyFits(z)'
      OBVIOUS
    <2>1. CASE j = k
      BY <1>0, <1>1, <1>3, <2>1
    <2>2. CASE j # k
      BY <1>1, <2>2 DEF SameAnswer, SameReply
    <2> QED
      BY <2>1, <2>2
  <1>5. \A o \in Replica : SameView(rep[o], rep'[o])
    BY <1>1 DEF SameView
  <1> QED
    BY <1>3, <1>4, <1>5, PrefixKeeps

LEMMA InitPrefix ==
  ASSUME Init
  PROVE  PrefixInv
  <1>1. /\ rep = [r \in Replica |-> EmptyReplica] /\ call = [k \in Call |-> NoCall]
        /\ log = <<>>
    BY DEF Init, Journal!Init
  <1>2. /\ \A r \in Replica : rep[r] = EmptyReplica
        /\ \A k \in Call : call[k] = NoCall
    BY <1>1
  <1>3. FromLog(0, <<>>) /\ Len(<<>>) = 0
    BY <1>1 DEF FromLog
  <1> QED
    BY <1>2, <1>3 DEF PrefixInv, ViewFits, EmptyReplica

\* A replica's committed state, and every reply under way to it, is of the log of
\* its epoch, up to its cursor.
THEOREM SyncPrefix == Spec => []PrefixInv
  <1>1. Init => PrefixInv
    BY InitPrefix
  <1>2. Types /\ PrefixInv /\ [Next]_vars => PrefixInv'
    BY StepIs, PrefixSubmit, PrefixBegin, PrefixDeliver, PrefixHandler, PrefixQuiet
  <1> QED
    BY <1>1, <1>2, SyncTypes, PTL DEF Spec

\* ViewIsPrefix, the invariant the runs check.
THEOREM SyncViewIsPrefix == Spec => []ViewIsPrefix
  <1>1. Types /\ PrefixInv => ViewIsPrefix
    <2> SUFFICES ASSUME Types, PrefixInv, NEW r \in Replica, rep[r].epoch = epoch
                 PROVE  /\ rep[r].cursor = Len(rep[r].committed)
                        /\ IsPrefix(rep[r].committed, LogOps)
      BY DEF ViewIsPrefix
    <2> DEFINE s == rep[r].committed
    <2>1. rep[r].cursor = Len(s) /\ FromLog(0, s)
      BY DEF PrefixInv, ViewFits
    <2>2. s \in Seq(Operation)
      BY RepFields DEF Types, ReplicasTyped
    <2>3. /\ LogOps \in Seq(Operation) /\ Len(LogOps) = Len(log) /\ Len(log) \in Nat
          /\ \A i \in 1..Len(log) : LogOps[i] = log[i].op
      BY LogTyped DEF Types
    <2> HIDE DEF s
    <2>4. Len(s) <= Len(LogOps) /\ \A i \in 1..Len(s) : s[i] = LogOps[i]
      <3>1. 0 + Len(s) <= Len(log) /\ \A i \in 1..Len(s) : s[i] = log[0 + i].op
        BY <2>1 DEF FromLog
      <3>2. Len(s) \in Nat
        BY <2>2
      <3>3. \A i \in 1..Len(s) : 0 + i = i /\ i \in 1..Len(log)
        BY <2>3, <3>1, <3>2
      <3> QED
        BY <2>3, <3>1, <3>2, <3>3
    <2>5. s = SubSeq(LogOps, 1, Len(s))
      BY <2>2, <2>3, <2>4
    <2> QED
      BY <2>1, <2>4, <2>5 DEF IsPrefix, s
  <1> QED
    BY <1>1, SyncTypes, SyncPrefix, PTL

-----------------------------------------------------------------------------
(* Views never lose a message.                                             *)

\* Where a message may be for the replica that submitted it.
StillSeen(r, k) ==
  \/ Says(rep[r].pending, r, k)
  \/ Says(rep[r].committed, r, k)
  \/ SomeSays(refused, r, k)

\* What a call may hold, beside a committed state.
FlickerCall(c) ==
  /\ c.epoch \in {0, epoch}
  /\ c.cursor <= rep[c.of].cursor
  /\ c.from <= c.cursor
  /\ Holds(c)

LEMMA FlickerForms ==
  /\ FlickerInv <=>
       /\ wiped = {}
       /\ \A r \in Replica : rep[r].epoch \in {0, epoch}
       /\ \A k \in Call : call[k] # NoCall => FlickerCall(call[k])
       /\ \A r \in Replica : \A k \in 1..(rep[r].next - 1) : StillSeen(r, k)
  /\ FlickerInv' <=>
       /\ wiped' = {}
       /\ \A r \in Replica : rep'[r].epoch \in {0, epoch'}
       /\ \A k \in Call : call'[k] # NoCall => \E c : c = call'[k] /\ FlickerCall(c)'
       /\ (\A r \in Replica : \A k \in 1..(rep[r].next - 1) : StillSeen(r, k))'
  BY DEF FlickerInv, FlickerCall, Holds, StillSeen

\* The part of a call that counts here.
SameHeld(c, d) ==
  /\ d.of = c.of /\ d.cursor = c.cursor /\ d.acks = c.acks
  /\ SameReply(c, d) /\ d.epoch = c.epoch /\ d.from = c.from
  /\ d.phase = c.phase \/ d.phase = "failed"

\* What is held of the log still is while no call under way was told of what follows.
LEMMA StillHolds ==
  ASSUME Types, SettledInv, wiped = {},
         \/ log' = log
         \/ \E e \in Journal!Entry : /\ log' = Append(log, e)
                                     /\ \A i \in DOMAIN log : log[i].op.id # e.op.id,
         NEW c, Holds(c), c.acks \subseteq Settled
  PROVE  Holds(c)'
  <1> SUFFICES ASSUME c.phase = "reply", ~c.more,
                      NEW i \in DOMAIN log', log'[i].op.id \in c.acks
               PROVE  i <= IF c.checkpoint = <<>> THEN c.from + Len(c.ops)
                           ELSE c.checkpoint[1].cursor
    BY DEF Holds
  <1>1. i \in DOMAIN log /\ log'[i] = log[i]
    <2>1. CASE log' = log
      BY <2>1
    <2>2. CASE log' # log
      <3>1. PICK e \in Journal!Entry :
              log' = Append(log, e) /\ \A j \in DOMAIN log : log[j].op.id # e.op.id
        BY <2>2
      <3>2. /\ DOMAIN log = 1..Len(log) /\ DOMAIN log' = 1..(Len(log) + 1) /\ Len(log) \in Nat
            /\ \A j \in 1..Len(log) : log'[j] = log[j]
            /\ log'[Len(log) + 1] = e
        <4> DEFINE E == Journal!Entry
        <4>1. log \in Seq(E) /\ e \in E
          BY DEF Types, ServerTyped
        <4> HIDE DEF E
        <4> QED
          BY <3>1, <4>1
      <3>3. i # Len(log) + 1
        <4>1. \A j \in DOMAIN log : log[j].op.id # e.op.id
          BY <3>1
        <4>2. e.op.id \notin {a.id : a \in InLog}
          BY <4>1 DEF InLog
        <4>3. log'[i].op.id \in {a.id : a \in InLog}
          BY SettledSets
        <4> QED
          BY <3>2, <4>2, <4>3
      <3> QED
        BY <3>2, <3>3
    <2> QED
      BY <2>1, <2>2
  <1> QED
    BY <1>1 DEF Holds

\* Only what changed has to be looked at.
LEMMA FlickerKeeps ==
  ASSUME Types, SettledInv, FlickerInv, wiped' = wiped,
         epoch' = epoch \/ epoch = 0,
         \/ log' = log
         \/ \E e \in Journal!Entry : /\ log' = Append(log, e)
                                     /\ \A i \in DOMAIN log : log[i].op.id # e.op.id,
         \A r \in Replica : rep'[r].epoch \in {0, epoch'} /\ rep'[r].cursor >= rep[r].cursor,
         \A r \in Replica : \A k \in 1..(rep'[r].next - 1) : StillSeen(r, k)',
         \A k \in Call : call'[k] # NoCall =>
           \/ call[k] # NoCall /\ SameHeld(call[k], call'[k])
           \/ \E c : c = call'[k] /\ FlickerCall(c)',
         ReplicasTyped'
  PROVE  FlickerInv'
  <1>1. /\ wiped = {}
        /\ \A k \in Call : call[k] # NoCall => FlickerCall(call[k])
    BY FlickerForms
  <1>2. ASSUME NEW k \in Call, call'[k] # NoCall
        PROVE  \E c : c = call'[k] /\ FlickerCall(c)'
    <2>1. CASE call[k] # NoCall /\ SameHeld(call[k], call'[k])
      <3>1. PICK c, d : c = call[k] /\ d = call'[k]
        OBVIOUS
      <3>2. FlickerCall(c) /\ CallTypes(c) /\ SameHeld(c, d) /\ c.acks \subseteq Settled
        BY <1>1, <2>1, <3>1 DEF Types, CallsTyped, SettledInv
      <3>3. Holds(c)'
        BY <1>1, <3>2, StillHolds DEF FlickerCall
      <3>4. c.cursor <= rep'[c.of].cursor
        <4>1. c.of \in Replica /\ c.cursor \in Nat
          BY <3>2, CallFields
        <4>2. rep[c.of].cursor \in Nat /\ rep'[c.of].cursor \in Nat
          BY <4>1 DEF Types, ReplicasTyped, RepTypes, RepRecord
        <4>3. c.cursor <= rep[c.of].cursor
          BY <3>2 DEF FlickerCall
        <4> QED
          BY <4>1, <4>2, <4>3
      <3>5. c.epoch \in {0, epoch'} /\ c.from <= c.cursor
        BY <3>2 DEF FlickerCall
      <3>6. FlickerCall(d)'
        BY <3>2, <3>3, <3>4, <3>5 DEF FlickerCall, Holds, SameHeld, SameReply
      <3> QED
        BY <3>1, <3>6
    <2>2. CASE ~(call[k] # NoCall /\ SameHeld(call[k], call'[k]))
      BY <1>2, <2>2
    <2> QED
      BY <2>1, <2>2
  <1> QED
    BY <1>1, <1>2, FlickerForms

LEMMA FlickerSubmit ==
  ASSUME Types, OrderlyInv, SettledInv, FlickerInv, NEW r \in Replica, NEW merges \in BOOLEAN,
         Submit(r, merges)
  PROVE  FlickerInv'
  <1> DEFINE n == rep[r].next
             q == rep'[r].pending
             x == q[Len(q)]
  <1>1. /\ UNCHANGED <<server, call, history>>
        /\ n \in Nat /\ rep'[r].next = n + 1
        /\ \A o \in Replica : o # r => rep'[o] = rep[o]
        /\ x \in Operation /\ x \in Outboxed(r)' /\ x.id[1] = r /\ x.upto = n /\ x.id[2] <= n
        /\ \A k : SomeSays(Outboxed(r), r, k) => SomeSays(Outboxed(r), r, k)'
    BY SubmitOrdered
  <1>2. /\ Types'
        /\ rep'[r].cursor = rep[r].cursor /\ rep'[r].committed = rep[r].committed
        /\ rep'[r].epoch = rep[r].epoch
    BY SubmitDoes
  <1> HIDE DEF q, x
  <1>3. /\ \A o \in Replica : rep[o].epoch \in {0, epoch}
        /\ \A o \in Replica : \A k \in 1..(rep[o].next - 1) : StillSeen(o, k)
    BY FlickerForms
  <1>4. \A o \in Replica : rep'[o].epoch \in {0, epoch'} /\ rep'[o].cursor >= rep[o].cursor
    <2> SUFFICES ASSUME NEW o \in Replica
                 PROVE  rep'[o].epoch \in {0, epoch'} /\ rep'[o].cursor >= rep[o].cursor
      OBVIOUS
    <2>1. rep'[o].epoch = rep[o].epoch /\ rep'[o].cursor = rep[o].cursor
      BY <1>1, <1>2
    <2>2. rep[o].cursor \in Nat
      BY RepFields DEF Types, ReplicasTyped
    <2> QED
      BY <1>1, <1>3, <2>1, <2>2 DEF server
  <1>5. \A o \in Replica : \A k \in 1..(rep'[o].next - 1) : StillSeen(o, k)'
    <2> SUFFICES ASSUME NEW o \in Replica, NEW k \in 1..(rep'[o].next - 1)
                 PROVE  StillSeen(o, k)'
      OBVIOUS
    <2>1. /\ Says(rep[o].pending, o, k) <=> SomeSays(Outboxed(o), o, k)
          /\ Says(rep[o].pending, o, k)' <=> SomeSays(Outboxed(o), o, k)'
      BY DEF Says, SomeSays, Outboxed, ToSet
    <2>2. CASE o = r /\ k = n
      <3>1. k \in x.id[2]..x.upto
        BY <1>1, <2>2, OperationTyped
      <3>2. SomeSays(Outboxed(r), r, k)'
        BY <1>1, <3>1 DEF SomeSays
      <3> QED
        BY <2>1, <2>2, <3>2 DEF StillSeen
    <2>3. CASE o # r \/ k # n
      <3>1. k \in 1..(rep[o].next - 1)
        <4>1. CASE o = r
          BY <1>1, <2>3, <4>1
        <4>2. CASE o # r
          BY <1>1, <4>2
        <4> QED
          BY <4>1, <4>2
      <3>2. StillSeen(o, k)
        BY <1>3, <3>1
      <3>3. SomeSays(Outboxed(o), o, k) => SomeSays(Outboxed(o), o, k)'
        <4>1. CASE o = r
          BY <1>1, <4>1
        <4>2. CASE o # r
          BY <1>1, <4>2 DEF SomeSays, Outboxed
        <4> QED
          BY <4>1, <4>2
      <3>4. rep'[o].committed = rep[o].committed
        BY <1>1, <1>2
      <3>5. Says(rep[o].committed, o, k) => Says(rep[o].committed, o, k)'
        BY <3>4 DEF Says
      <3>6. refused' = refused
        BY <1>1 DEF history
      <3> QED
        BY <2>1, <3>2, <3>3, <3>5, <3>6 DEF StillSeen
    <2> QED
      BY <2>2, <2>3
  <1>6. \A k \in Call : call'[k] # NoCall => call[k] # NoCall /\ SameHeld(call[k], call'[k])
    BY <1>1 DEF SameHeld, SameReply
  <1>7. wiped' = wiped /\ epoch' = epoch /\ log' = log /\ ReplicasTyped'
    BY <1>1, <1>2 DEF server, history, Types
  <1> QED
    BY <1>4, <1>5, <1>6, <1>7, FlickerKeeps

\* Steps that leave the replicas alone.
LEMMA FlickerOther ==
  ASSUME Types, Types', SettledInv, FlickerInv, UNCHANGED <<rep, history>>,
         epoch' = epoch \/ epoch = 0,
         \/ log' = log
         \/ \E e \in Journal!Entry : /\ log' = Append(log, e)
                                     /\ \A i \in DOMAIN log : log[i].op.id # e.op.id,
         \A k \in Call : call'[k] # NoCall =>
           \/ call[k] # NoCall /\ SameHeld(call[k], call'[k])
           \/ \E c : c = call'[k] /\ FlickerCall(c)'
  PROVE  FlickerInv'
  <1>1. /\ \A o \in Replica : rep[o].epoch \in {0, epoch}
        /\ \A o \in Replica : \A k \in 1..(rep[o].next - 1) : StillSeen(o, k)
    BY FlickerForms
  <1>2. \A o \in Replica : rep[o].cursor \in Nat
    BY RepFields DEF Types, ReplicasTyped
  <1>3. \A o \in Replica : rep'[o].epoch \in {0, epoch'} /\ rep'[o].cursor >= rep[o].cursor
    BY <1>1, <1>2
  <1>4. \A o \in Replica : \A k \in 1..(rep'[o].next - 1) : StillSeen(o, k)'
    BY <1>1 DEF StillSeen, Says, SomeSays, history
  <1> QED
    BY <1>3, <1>4, FlickerKeeps DEF Types, history

LEMMA FlickerBegin ==
  ASSUME Types, SettledInv, FlickerInv, NEW r \in Replica, NEW k \in Call,
         NEW by \in {"loop", "caller"}, BeginStep(r, k, by)
  PROVE  FlickerInv'
  <1>1. /\ Types' /\ UNCHANGED <<server, rep, history>> /\ call'[k] = Request(r, by)
        /\ \A j \in Call : j # k => call'[j] = call[j]
    BY BeginDoes DEF BeginStep
  <1>2. PICK c : c = call'[k]
    OBVIOUS
  <1>3. /\ c.epoch = 0 /\ c.cursor = rep[r].cursor /\ c.of = r /\ c.from = 0
        /\ c.phase = "sent"
    BY <1>1, <1>2 DEF Request
  <1>4. rep[r].cursor \in Nat
    BY RepFields DEF Types, ReplicasTyped
  <1>5. FlickerCall(c)'
    BY <1>1, <1>3, <1>4 DEF FlickerCall, Holds
  <1>6. \A j \in Call : call'[j] # NoCall =>
          \/ call[j] # NoCall /\ SameHeld(call[j], call'[j])
          \/ \E d : d = call'[j] /\ FlickerCall(d)'
    <2> SUFFICES ASSUME NEW j \in Call, call'[j] # NoCall
                 PROVE  \/ call[j] # NoCall /\ SameHeld(call[j], call'[j])
                        \/ \E d : d = call'[j] /\ FlickerCall(d)'
      OBVIOUS
    <2>1. CASE j = k
      BY <1>2, <1>5, <2>1
    <2>2. CASE j # k
      BY <1>1, <2>2 DEF SameHeld, SameReply
    <2> QED
      BY <2>1, <2>2
  <1> QED
    BY <1>1, <1>6, FlickerOther DEF server

LEMMA FlickerQuiet ==
  ASSUME Types, Types', SettledInv, FlickerInv, Quiet
  PROVE  FlickerInv'
  <1>1. \A k \in Call : call'[k] # NoCall => call[k] # NoCall /\ SameHeld(call[k], call'[k])
    BY DEF Quiet, SameCall, SameWork, SameRequest, SameHeld
  <1>2. UNCHANGED <<rep, history>> /\ epoch' = epoch /\ log' = log
    BY DEF Quiet
  <1> QED
    BY <1>1, <1>2, FlickerOther

LEMMA FlickerHandler ==
  ASSUME Types, Types', SettledInv, FlickerInv, NEW k \in Call,
         \/ HandleEpoch(k) \/ HandleCursor(k) \/ HandleOperation(k)
         \/ HandleRead(k) \/ HandleLoad(k)
  PROVE  FlickerInv'
  <1>0. PICK c, d : c = call[k] /\ d = call'[k]
    OBVIOUS
  <1>1. /\ UNCHANGED <<rep, unsent, history>>
        /\ \A j \in Call : j # k => call'[j] = call[j]
        /\ CallTypes(c) /\ CallTypes(d) /\ c # NoCall /\ d # NoCall
        /\ SameRequest(c, d)
    BY <1>0, HandlersKeep
  <1>2. FlickerCall(c) /\ c.cursor \in Nat /\ c.from \in Nat
    BY <1>0, <1>1, CallFields, FlickerForms
  <1>3. c.cursor = d.cursor /\ c.of = d.of /\ d.cursor <= rep'[d.of].cursor
    BY <1>1, <1>2 DEF SameRequest, FlickerCall
  <1>4. \A i \in DOMAIN log : i \in Nat /\ i <= Len(log)
    BY LogTyped DEF Types
  <1>5. /\ FlickerCall(d)'
        /\ epoch' = epoch \/ epoch = 0
        /\ \/ log' = log
           \/ \E e \in Journal!Entry : /\ log' = Append(log, e)
                                       /\ \A i \in DOMAIN log : log[i].op.id # e.op.id
    <2>1. CASE HandleEpoch(k)
      <3>1. /\ d.phase = "check" /\ d.epoch = epoch' /\ d.from \in {0, c.cursor}
            /\ epoch # 0 => epoch' = epoch
            /\ log' = log
        BY <1>0, <2>1, HandleEpochDoes
      <3> QED
        BY <1>2, <1>3, <3>1 DEF FlickerCall, Holds
    <2>2. CASE HandleCursor(k)
      <3>1. /\ d.phase \in {"failed", "append"} /\ d.epoch = c.epoch /\ d.from = c.from
            /\ UNCHANGED server
        BY <1>0, <2>2, HandleCursorDoes
      <3> QED
        BY <1>2, <1>3, <3>1 DEF FlickerCall, Holds, server
    <2>3. CASE HandleOperation(k)
      <3> DEFINE op == c.pending[c.done + 1]
      <3>1. /\ Answered(c, d, op) /\ op \in Operation
            /\ Refuses(c, d, op) \/ AcknowledgesAgain(c, d, op) \/ Commits(c, d, op)
        BY <1>0, <2>3, HandleOperationDoes
      <3>2. Entry(c.of, op) \in Journal!Entry /\ Entry(c.of, op).op = op
        BY <1>1, <3>1, CallFields DEF Entry, Journal!Entry
      <3> HIDE DEF op
      <3>3. d.phase = "append" /\ d.epoch = c.epoch /\ d.from = c.from
        BY <3>1 DEF Answered
      <3>4. epoch' = epoch \/ epoch = 0
        BY <3>1 DEF Refuses, AcknowledgesAgain, Commits, server
      <3>5. FlickerCall(d)'
        BY <1>2, <1>3, <3>3, <3>4 DEF FlickerCall, Holds
      <3>6. \/ log' = log
            \/ \E e \in Journal!Entry : /\ log' = Append(log, e)
                                        /\ \A i \in DOMAIN log : log[i].op.id # e.op.id
        <4>1. CASE UNCHANGED server
          BY <4>1 DEF server
        <4>2. CASE Commits(c, d, op)
          <5>1. /\ log' = Append(log, Entry(c.of, op))
                /\ \A i \in DOMAIN log : log[i].op.id # op.id
            BY <4>2 DEF Commits, Prior
          <5> QED
            BY <3>2, <5>1
        <4> QED
          BY <3>1, <4>1, <4>2 DEF Refuses, AcknowledgesAgain
      <3> QED
        BY <3>4, <3>5, <3>6
    <2>4. CASE HandleRead(k)
      <3>1. /\ d.epoch = c.epoch /\ d.from = c.from /\ UNCHANGED server
            /\ \/ d.phase \in {"failed", "load"}
               \/ /\ d.phase = "reply" /\ d.checkpoint = <<>>
                  /\ ~d.more => d.from + Len(d.ops) = Len(log)
        BY <1>0, <2>4, HandleReadDoes
      <3>2. Holds(d)'
        BY <1>4, <3>1 DEF Holds, server
      <3> QED
        BY <1>2, <1>3, <3>1, <3>2 DEF FlickerCall, server
    <2>5. CASE HandleLoad(k)
      <3>1. /\ d.epoch = c.epoch /\ d.from = c.from /\ UNCHANGED server
            /\ d.checkpoint # <<>> /\ d.checkpoint[1].cursor = Len(log)
        BY <1>0, <2>5, HandleLoadDoes
      <3>2. Holds(d)'
        BY <1>4, <3>1 DEF Holds, server
      <3> QED
        BY <1>2, <1>3, <3>1, <3>2 DEF FlickerCall, server
    <2> QED
      BY <2>1, <2>2, <2>3, <2>4, <2>5
  <1>6. \A j \in Call : call'[j] # NoCall =>
          \/ call[j] # NoCall /\ SameHeld(call[j], call'[j])
          \/ \E z : z = call'[j] /\ FlickerCall(z)'
    <2> SUFFICES ASSUME NEW j \in Call, call'[j] # NoCall
                 PROVE  \/ call[j] # NoCall /\ SameHeld(call[j], call'[j])
                        \/ \E z : z = call'[j] /\ FlickerCall(z)'
      OBVIOUS
    <2>1. CASE j = k
      BY <1>0, <1>5, <2>1
    <2>2. CASE j # k
      BY <1>1, <2>2 DEF SameHeld, SameReply
    <2> QED
      BY <2>1, <2>2
  <1> QED
    BY <1>1, <1>5, <1>6, FlickerOther

\* A reply takes the replica to a later place in the log, and past all that it
\* acknowledges for good.
LEMMA DeliverReaches ==
  ASSUME Types, PrefixInv, FlickerInv, NEW k \in Call, Deliver(k)
  PROVE  LET c == call[k]  s == rep[call[k].of]  t == rep'[call[k].of] IN
         /\ t.epoch = epoch /\ s.epoch \in {0, epoch}
         /\ t.cursor = Len(t.committed) /\ FromLog(0, t.committed)
         /\ t.cursor >= s.cursor
         /\ ~c.more => \A i \in DOMAIN log : log[i].op.id \in c.acks => i <= t.cursor
  <1>0. PICK r, c, s, t :
          r \in Replica /\ r = call[k].of /\ c = call[k] /\ s = rep[r] /\ t = rep'[r]
    BY DeliverDoes
  <1>00. r \in Replica
    BY <1>0
  <1> USE <1>00
  <1>1. /\ CallTypes(c) /\ RepTypes(s)
        /\ c.phase = "reply" /\ Acceptable(s, c) /\ t = Applied(s, c)
    BY <1>0, DeliverDoes
  <1>2. c # NoCall
    BY <1>1, CallsDiffer
  <1>3. /\ ViewFits(s) /\ c.epoch \in used /\ ReplyFits(c)
        /\ FlickerCall(c) /\ c.of = r /\ s.epoch \in {0, epoch}
    BY <1>0, <1>1, <1>2, FlickerForms DEF PrefixInv
  <1>4. c.epoch = epoch /\ epoch # 0 /\ t.epoch = epoch
    <2>1. 0 \notin used
      BY ZeroUnused DEF Types
    <2>2. t.epoch = c.epoch
      BY <1>1, AppliedIs
    <2> QED
      BY <1>3, <2>1, <2>2 DEF FlickerCall
  <1>5. ~Restarted(s, c)
    BY <1>3, <1>4 DEF Restarted
  <1> DEFINE b == Base(s, c)
  <1>6. /\ t.cursor = Len(t.committed) /\ FromLog(0, t.committed)
        /\ c.checkpoint # <<>> => t.cursor = c.checkpoint[1].cursor
        /\ c.checkpoint = <<>> /\ b.cursor >= c.from =>
             t.cursor >= b.cursor /\ t.cursor >= c.from + Len(c.ops)
    BY <1>1, <1>3, <1>4, AppliedFits
  <1>7. /\ c.checkpoint = <<>> => b.cursor = s.cursor
        /\ s.cursor \in Nat /\ c.cursor \in Nat /\ c.from \in Nat
    BY <1>1, <1>5, BaseIs, RepFields, CallFields
  <1>8. c.checkpoint # <<>> => c.checkpoint[1].cursor >= s.cursor
    BY <1>1, <1>5 DEF Acceptable
  <1> HIDE DEF b
  <1>9. c.cursor <= s.cursor /\ c.from <= c.cursor /\ Holds(c)
    BY <1>0, <1>3 DEF FlickerCall
  <1>10. CASE c.checkpoint # <<>>
    <2>1. t.cursor = c.checkpoint[1].cursor
      BY <1>6, <1>10
    <2>2. ~c.more => \A i \in DOMAIN log : log[i].op.id \in c.acks => i <= t.cursor
      BY <1>1, <1>9, <1>10, <2>1 DEF Holds
    <2> QED
      BY <1>0, <1>3, <1>4, <1>6, <1>8, <1>10, <2>1, <2>2
  <1>11. CASE c.checkpoint = <<>>
    <2>1. b.cursor >= c.from /\ b.cursor = s.cursor
      BY <1>7, <1>9, <1>11
    <2>2. t.cursor >= s.cursor /\ t.cursor >= c.from + Len(c.ops)
      BY <1>6, <1>11, <2>1
    <2>3. ~c.more => \A i \in DOMAIN log : log[i].op.id \in c.acks => i <= c.from + Len(c.ops)
      BY <1>1, <1>9, <1>11 DEF Holds
    <2>4. ~c.more => \A i \in DOMAIN log : log[i].op.id \in c.acks => i <= t.cursor
      <3>1. t.cursor \in Nat /\ Len(c.ops) \in Nat
        <4>1. RepTypes(t)
          BY <1>1, AppliedIs
        <4>2. c.ops \in Seq(Operation)
          BY <1>1, CallFields
        <4> QED
          BY <4>1, <4>2, RepFields
      <3>2. \A i \in DOMAIN log : i \in Nat
        BY LogTyped DEF Types
      <3> QED
        BY <1>7, <2>2, <2>3, <3>1, <3>2
    <2> QED
      BY <1>0, <1>3, <1>4, <1>6, <2>2, <2>4
  <1> QED
    BY <1>10, <1>11

\* The state after a reply holds the new operations, and the log up to its cursor.
LEMMA HeldAfter ==
  ASSUME Types, OrderlyInv, PrefixInv, FlickerInv, NEW k \in Call, Deliver(k)
  PROVE  LET c == call[k]  s == rep[call[k].of]  t == rep'[call[k].of] IN
         /\ \A i \in DOMAIN log : i <= t.cursor => log[i].op \in ToSet(t.committed)
         /\ ToSet(NewOps(Base(s, c), c)) \subseteq ToSet(t.committed)
         /\ ToSet(t.committed) \subseteq InLog
  <1>0. PICK r, c, s, t :
          r \in Replica /\ r = call[k].of /\ c = call[k] /\ s = rep[r] /\ t = rep'[r]
    BY DeliverDoes
  <1>00. r \in Replica
    BY <1>0
  <1> USE <1>00
  <1>1. /\ CallTypes(c) /\ RepTypes(s) /\ t = Applied(s, c)
    BY <1>0, DeliverDoes
  <1>2. t.cursor = Len(t.committed) /\ FromLog(0, t.committed)
    BY <1>0, DeliverReaches
  <1>3. t.committed \in Seq(Operation) /\ ServerTyped
    BY <1>1, AppliedIs, RepFields DEF Types
  <1>4. ToSet(t.committed) \subseteq InLog
    BY <1>2, <1>3, PageIsSettled
  <1>5. ASSUME NEW i \in DOMAIN log, i <= t.cursor
        PROVE  log[i].op \in ToSet(t.committed)
    <2>1. /\ \A j \in 1..Len(t.committed) : t.committed[j] = log[0 + j].op
          /\ DOMAIN t.committed = 1..Len(t.committed) /\ i \in 1..Len(log) /\ Len(log) \in Nat
          /\ Len(t.committed) \in Nat
      BY <1>2, <1>3, LogTyped DEF FromLog
    <2>2. i \in 1..Len(t.committed) /\ 0 + i = i
      BY <1>2, <1>5, <2>1
    <2>3. t.committed[i] = log[i].op
      BY <2>1, <2>2
    <2> QED
      BY <2>1, <2>2, <2>3 DEF ToSet
  <1>6. ToSet(NewOps(Base(s, c), c)) \subseteq ToSet(t.committed)
    <2> DEFINE b == Base(s, c)
               new == NewOps(b, c)
    <2>1. b.cursor \in Nat /\ b.committed \in Seq(Operation)
      BY <1>1, BaseIs
    <2>2. new \in Seq(Operation)
      BY <1>1, <2>1, NewOpsAre
    <2>3. t.committed = b.committed \o new
      BY <1>1, AppliedIs
    <2> HIDE DEF b, new
    <2>4. ToSet(b.committed \o new) = ToSet(b.committed) \cup ToSet(new)
      BY <2>1, <2>2, ConcatSet
    <2> QED
      BY <2>3, <2>4 DEF b, new
  <1> QED
    BY <1>0, <1>4, <1>5, <1>6

LEMMA FlickerDeliver ==
  ASSUME Types, OrderlyInv, SettledInv, PrefixInv, FlickerInv, NEW k \in Call, Deliver(k)
  PROVE  FlickerInv'
  <1>0. PICK r, c, s, t :
          r \in Replica /\ r = call[k].of /\ c = call[k] /\ s = rep[r] /\ t = rep'[r]
    BY DeliverDoes
  <1>00. r \in Replica
    BY <1>0
  <1> USE <1>00
  <1>1. /\ Types' /\ CallTypes(c) /\ RepTypes(s)
        /\ \A o \in Replica : o # r => rep'[o] = rep[o]
        /\ call'[k] = NoCall /\ \A j \in Call : j # k => call'[j] = call[j]
        /\ refused' = refused \cup Rejected(c)
        /\ UNCHANGED <<server, unsent, wiped>>
    BY <1>0, DeliverDoes
  <1>2. /\ t.epoch = epoch /\ s.epoch \in {0, epoch}
        /\ t.cursor = Len(t.committed) /\ FromLog(0, t.committed)
        /\ t.cursor >= s.cursor
        /\ ~c.more => \A i \in DOMAIN log : log[i].op.id \in c.acks => i <= t.cursor
    BY <1>0, DeliverReaches
  <1> DEFINE b == Base(s, c)
             new == NewOps(b, c)
             gone == Gone(b, new, c)
  <1>3. /\ \A i \in DOMAIN log : i <= t.cursor => log[i].op \in ToSet(t.committed)
        /\ ToSet(new) \subseteq ToSet(t.committed)
        /\ ToSet(t.committed) \subseteq InLog
    BY <1>0, HeldAfter
  <1>4. /\ c # NoCall /\ t.next = s.next
        /\ ToSet(t.pending) = {op \in ToSet(s.pending) : op.id \notin gone}
        /\ ToSet(b.ids) \subseteq ToSet(s.ids)
    BY <1>0, DeliverTakes
  <1> HIDE DEF b, new
  <1>5. /\ wiped = {}
        /\ \A o \in Replica : rep[o].epoch \in {0, epoch}
        /\ \A o \in Replica : \A m \in 1..(rep[o].next - 1) : StillSeen(o, m)
    BY FlickerForms
  <1>6. \A op \in ToSet(s.pending) : op.id \in gone =>
          op.id \in c.rejects \/ op \in ToSet(t.committed)
    <2> SUFFICES ASSUME NEW op \in ToSet(s.pending), op.id \in gone, op.id \notin c.rejects
                 PROVE  op \in ToSet(t.committed)
      OBVIOUS
    <2>1. op \in Known /\ InLog \subseteq Known
      BY <1>0, KnownTyped DEF Outboxed
    <2>2. op.id \notin ToSet(b.ids)
      <3>1. IdsOf(s.pending) \cap ToSet(s.ids) = {}
        BY <1>0 DEF SettledInv
      <3> QED
        BY <1>4, <3>1, SequenceSets
    <2>3. CASE op.id \in IdsOf(new)
      <3>1. PICK a \in ToSet(new) : a.id = op.id
        BY <2>3, SequenceSets
      <3>2. a \in Known
        BY <1>3, <2>1
      <3> QED
        BY <1>3, <2>1, <3>1, <3>2, SameId
    <2>4. CASE ~c.more /\ op.id \in c.acks
      <3>1. op.id \in Settled
        BY <1>0, <1>4, <2>4 DEF SettledInv
      <3>2. op.id \in {a.id : a \in InLog}
        BY <1>5, <3>1, SettledSets
      <3>3. PICK i \in DOMAIN log : log[i].op.id = op.id
        BY <3>2 DEF InLog
      <3>4. log[i].op \in Known
        BY <2>1 DEF InLog
      <3>5. log[i].op = op
        BY <2>1, <3>3, <3>4, SameId
      <3>6. i <= t.cursor
        BY <1>2, <2>4, <3>3
      <3> QED
        BY <1>3, <3>5, <3>6
    <2> QED
      BY <2>2, <2>3, <2>4 DEF Gone
  <1>7. ToSet(s.committed) \subseteq ToSet(t.committed)
    <2>1. ViewFits(s) /\ s.committed \in Seq(Operation) /\ s.cursor \in Nat
      BY <1>0, <1>1, RepFields DEF PrefixInv
    <2>2. CASE s.epoch = 0
      BY <2>1, <2>2 DEF ViewFits, ToSet
    <2>3. CASE s.epoch = epoch
      <3>1. /\ s.cursor = Len(s.committed) /\ 0 + Len(s.committed) <= Len(log)
            /\ \A i \in 1..Len(s.committed) : s.committed[i] = log[0 + i].op
        BY <2>1, <2>3 DEF ViewFits, FromLog
      <3>2. /\ DOMAIN s.committed = 1..Len(s.committed) /\ DOMAIN log = 1..Len(log)
            /\ Len(log) \in Nat /\ t.cursor \in Nat
        <4>1. RepTypes(t)
          BY <1>0, <1>1 DEF Types, ReplicasTyped
        <4> QED
          BY <2>1, <4>1, LogTyped, RepFields DEF Types
      <3>3. ASSUME NEW i \in 1..Len(s.committed)
            PROVE  s.committed[i] \in ToSet(t.committed)
        <4>1. i \in DOMAIN log /\ i <= t.cursor /\ 0 + i = i
          BY <1>2, <2>1, <3>1, <3>2
        <4>2. s.committed[i] = log[i].op
          BY <3>1, <4>1
        <4> QED
          BY <1>3, <4>1, <4>2
      <3> QED
        BY <3>2, <3>3 DEF ToSet
    <2> QED
      BY <1>2, <2>2, <2>3
  <1>8. \A o \in Replica : rep'[o].epoch \in {0, epoch'} /\ rep'[o].cursor >= rep[o].cursor
    <2> SUFFICES ASSUME NEW o \in Replica
                 PROVE  rep'[o].epoch \in {0, epoch} /\ rep'[o].cursor >= rep[o].cursor
      BY <1>1 DEF server
    <2>1. CASE o = r
      BY <1>0, <1>2, <2>1
    <2>2. CASE o # r
      <3>1. rep[o].cursor \in Nat
        BY RepFields DEF Types, ReplicasTyped
      <3> QED
        BY <1>1, <1>5, <2>2, <3>1
    <2> QED
      BY <2>1, <2>2
  <1>9. \A o \in Replica : \A m \in 1..(rep'[o].next - 1) : StillSeen(o, m)'
    <2> SUFFICES ASSUME NEW o \in Replica, NEW m \in 1..(rep'[o].next - 1)
                 PROVE  StillSeen(o, m)'
      OBVIOUS
    <2>1. rep'[o].next = rep[o].next
      BY <1>0, <1>1, <1>4
    <2>2. StillSeen(o, m)
      BY <1>5, <2>1
    <2>3. CASE o # r
      <3>1. rep'[o] = rep[o] /\ refused \subseteq refused'
        BY <1>1, <2>3
      <3> QED
        BY <2>2, <3>1 DEF StillSeen, Says, SomeSays
    <2>4. CASE o = r
      <3>1. /\ StillSeen(o, m) <=>
                 \/ SomeSays(ToSet(s.pending), r, m)
                 \/ SomeSays(ToSet(s.committed), r, m)
                 \/ SomeSays(refused, r, m)
            /\ StillSeen(o, m)' <=>
                 \/ SomeSays(ToSet(t.pending), r, m)
                 \/ SomeSays(ToSet(t.committed), r, m)
                 \/ SomeSays(refused', r, m)
        BY <1>0, <2>4, SequenceSets DEF StillSeen
      <3>2. CASE SomeSays(ToSet(s.pending), r, m)
        <4>1. PICK op \in ToSet(s.pending) : op.id[1] = r /\ m \in op.id[2]..op.upto
          BY <3>2 DEF SomeSays
        <4>2. CASE op \in ToSet(t.pending)
          BY <3>1, <4>1, <4>2 DEF SomeSays
        <4>3. CASE op \in ToSet(t.committed)
          BY <3>1, <4>1, <4>3 DEF SomeSays
        <4>4. CASE op.id \in c.rejects
          <5>1. c.rejects \subseteq IdsOf(c.pending)
            BY <1>0, <1>4 DEF SettledInv, RejectsSent
          <5>2. PICK a \in ToSet(c.pending) : a.id = op.id
            BY <4>4, <5>1, SequenceSets
          <5>3. op \in Known /\ a \in Known
            BY <1>0, <1>4, <5>2, KnownTyped DEF Outboxed
          <5>4. a = op
            BY <5>2, <5>3, SameId
          <5>5. op \in Rejected(c)
            BY <4>4, <5>2, <5>4 DEF Rejected
          <5>6. SomeSays(refused', r, m)
            BY <1>1, <4>1, <5>5 DEF SomeSays
          <5> QED
            BY <3>1, <5>6
        <4> QED
          BY <1>4, <1>6, <4>2, <4>3, <4>4
      <3>3. CASE SomeSays(ToSet(s.committed), r, m)
        BY <1>7, <3>1, <3>3 DEF SomeSays
      <3>4. CASE SomeSays(refused, r, m)
        BY <1>1, <3>1, <3>4 DEF SomeSays
      <3> QED
        BY <2>2, <2>4, <3>1, <3>2, <3>3, <3>4
    <2> QED
      BY <2>3, <2>4
  <1>10. \A j \in Call : call'[j] # NoCall => call[j] # NoCall /\ SameHeld(call[j], call'[j])
    BY <1>1 DEF SameHeld, SameReply
  <1>11. wiped' = wiped /\ epoch' = epoch /\ log' = log /\ ReplicasTyped'
    BY <1>1 DEF server, Types
  <1> QED
    BY <1>8, <1>9, <1>10, <1>11, FlickerKeeps

LEMMA InitFlicker ==
  ASSUME Init
  PROVE  FlickerInv
  <1>1. /\ rep = [r \in Replica |-> EmptyReplica] /\ call = [k \in Call |-> NoCall]
        /\ wiped = {}
    BY DEF Init
  <1>2. /\ \A r \in Replica : rep[r].epoch = 0 /\ rep[r].next = 1
        /\ \A k \in Call : call[k] = NoCall
    BY <1>1 DEF EmptyReplica
  <1> QED
    BY <1>1, <1>2 DEF FlickerInv

\* In one history no replica's view goes back, and what a reply acknowledges for
\* good it also brings.
THEOREM SyncFlicker == ASSUME NoResets PROVE Spec => []FlickerInv
  <1>1. Init => FlickerInv
    BY InitFlicker
  <1>2. Types /\ OrderlyInv /\ SettledInv /\ PrefixInv /\ FlickerInv /\ [Next]_vars
          => FlickerInv'
    BY StepIs, ResetDoes, FlickerSubmit, FlickerBegin, FlickerDeliver, FlickerQuiet,
       FlickerHandler
  <1> QED
    BY <1>1, <1>2, SyncTypes, SyncOrderly, SyncSettled, SyncPrefix, PTL DEF Spec

\* NoFlicker, the invariant the runs check: a submitted message is in the outbox
\* or in the committed state of its replica at every moment.
THEOREM SyncNoFlicker == ASSUME NoResets PROVE Spec => []NoFlicker
  <1>1. ASSUME FlickerInv
        PROVE  NoFlicker
    <2>1. \A r, k : SomeSays(refused, r, k) => SomeSays(refused \cup wiped, r, k)
      BY DEF SomeSays
    <2> QED
      BY <1>1, <2>1 DEF FlickerInv, NoFlicker
  <1> QED
    BY <1>1, SyncFlicker, PTL

-----------------------------------------------------------------------------
(* Bases.                                                                  *)

\* In one history no replica is past the log.
LEMMA NobodyPast ==
  ASSUME Types, PrefixInv, FlickerInv, NEW r \in Replica
  PROVE  rep[r].cursor <= Len(log)
  <1>1. /\ ViewFits(rep[r]) /\ rep[r].epoch \in {0, epoch}
        /\ rep[r].cursor \in Nat /\ Len(log) \in Nat
    BY RepFields, LogTyped DEF PrefixInv, FlickerInv, Types, ReplicasTyped
  <1>2. CASE rep[r].epoch = 0
    BY <1>1, <1>2 DEF ViewFits
  <1>3. CASE rep[r].epoch = epoch
    <2>1. rep[r].cursor = Len(rep[r].committed) /\ 0 + Len(rep[r].committed) <= Len(log)
      BY <1>1, <1>3 DEF ViewFits, FromLog
    <2> QED
      BY <1>1, <2>1
  <1> QED
    BY <1>1, <1>2, <1>3

\* The log only grows, and what is known was, but for what is submitted.
LEMMA BasesKeep ==
  ASSUME Types, OrderlyInv, PrefixInv, FlickerInv, NoResets,
         \A op \in Known : op.base <= Len(log), [Next]_vars
  PROVE  \A op \in Known' : op.base <= Len(log')
  <1>1. Len(log) \in Nat /\ \A op \in Known : op.base \in Nat
    BY KnownTyped, LogTyped, OperationTyped DEF Types
  <1>2. ASSUME NEW r \in Replica, NEW merges \in BOOLEAN, Submit(r, merges)
        PROVE  \A op \in Known' : op.base <= Len(log')
    <2> DEFINE q == rep'[r].pending
               x == q[Len(q)]
    <2>1. /\ Known' \subseteq Known \cup {x} /\ log' = log
          /\ x.base = rep[r].cursor \/ \E a \in Outboxed(r) : x.base = a.base
      BY <1>2, SubmitOrdered DEF server
    <2> HIDE DEF x
    <2>2. x.base <= Len(log)
      BY <2>1, NobodyPast, KnownTyped
    <2> QED
      BY <2>1, <2>2
  <1>3. CASE \E r \in Replica, k \in Call, by \in {"loop", "caller"} : BeginStep(r, k, by)
    <2>1. Known' = Known /\ log' = log
      BY <1>3, OrderlyBegin, BeginDoes DEF BeginStep, server
    <2> QED
      BY <2>1
  <1>4. CASE \E k \in Call : Deliver(k)
    <2>1. Known' \subseteq Known /\ log' = log
      BY <1>4, OrderlyDeliver, DeliverDoes DEF server
    <2> QED
      BY <2>1
  <1>5. CASE Quiet
    <2>1. Known' \subseteq Known /\ log' = log
      BY <1>5, OrderlyOther DEF Quiet
    <2> QED
      BY <2>1
  <1>6. ASSUME NEW k \in Call,
               \/ HandleEpoch(k) \/ HandleCursor(k) \/ HandleOperation(k)
               \/ HandleRead(k) \/ HandleLoad(k)
        PROVE  \A op \in Known' : op.base <= Len(log')
    <2>1. Known' \subseteq Known
      BY <1>6, OrderlyOther
    <2>2. log' = log \/ Len(log') = Len(log) + 1
      <3>1. CASE ~HandleOperation(k)
        BY <1>6, <3>1, HandlersKeep
      <3>2. CASE HandleOperation(k)
        <4>1. log' = log \/ \E e : log' = Append(log, e)
          BY <3>2, HandleOperationDoes DEF Refuses, AcknowledgesAgain, Commits, server
        <4>2. log \in Seq(Journal!Entry)
          BY DEF Types, ServerTyped
        <4> QED
          BY <4>1, <4>2
      <3> QED
        BY <3>1, <3>2
    <2> QED
      BY <1>1, <2>1, <2>2
  <1> QED
    BY <1>2, <1>3, <1>4, <1>5, <1>6, StepIs, ResetDoes

\* A policy that looks at the base finds it in the log, where none is reset.
THEOREM SyncBases == ASSUME Steady PROVE Spec => []BasesStand
  <1>1. CASE ValidatesBase
    <2>0. NoResets
      BY <1>1 DEF Steady
    <2>1. Init => BasesStand
      <3> SUFFICES ASSUME Init PROVE BasesStand
        OBVIOUS
      <3>1. /\ log = <<>> /\ rep = [r \in Replica |-> EmptyReplica]
            /\ call = [k \in Call |-> NoCall] /\ wiped = {}
        BY DEF Init, Journal!Init
      <3>2. /\ \A r \in Replica : rep[r].pending = <<>>
            /\ \A k \in Call : call[k] = NoCall
        BY <3>1 DEF EmptyReplica
      <3>3. Known = {}
        BY <3>1, <3>2 DEF Known, Sent, InLog, Carried, Outboxed, ToSet
      <3> QED
        BY <3>3 DEF BasesStand
    <2>2. Types /\ OrderlyInv /\ PrefixInv /\ FlickerInv /\ BasesStand /\ [Next]_vars
            => BasesStand'
      BY <1>1, <2>0, BasesKeep DEF BasesStand
    <2> QED
      BY <2>0, <2>1, <2>2, SyncTypes, SyncOrderly, SyncPrefix, SyncFlicker, PTL DEF Spec
  <1>2. CASE ~ValidatesBase
    <2>1. BasesStand
      BY <1>2 DEF BasesStand
    <2> QED
      BY <2>1, PTL
  <1> QED
    BY <1>1, <1>2

-----------------------------------------------------------------------------
(* A steady policy.                                                        *)

\* Such a policy refuses an operation for what it is, and a retry is never taken
\* for a conflict.
LEMMA RefusedIsRefusable ==
  ASSUME Steady, Types, OrderlyInv, BasesStand, NEW k \in Call, HandleOperation(k),
         Refuses(call[k], call'[k], call[k].pending[call[k].done + 1])
  PROVE  call[k].pending[call[k].done + 1].id \in Refusable
  <1> DEFINE op == call[k].pending[call[k].done + 1]
  <1>1. op \in Known
    BY CommittedWasSent
  <1> HIDE DEF op
  <1>2. Resent(op)
    <2> SUFFICES ASSUME NEW i \in DOMAIN log, log[i].op.id = op.id
                 PROVE  log[i].op = op
      BY DEF Resent, Prior
    <2>1. log[i].op \in Known
      BY KnownTyped DEF InLog
    <2> QED
      BY <1>1, <2>1, SameId
  <1>3. ~Allowed(op)
    BY <1>2 DEF Refuses, Steady, op
  <1>4. ValidatesBase => op.base <= Len(log)
    BY <1>1 DEF BasesStand
  <1> QED
    BY <1>3, <1>4 DEF Allowed, op

LEMMA ConcatIds ==
  ASSUME NEW s \in Seq(Operation), NEW t \in Seq(Operation)
  PROVE  IdsOf(s \o t) = IdsOf(s) \cup IdsOf(t)
  BY ConcatSet, SequenceSets

LEMMA PolicyDeliver ==
  ASSUME Types, PolicyInv, NEW k \in Call, Deliver(k)
  PROVE  PolicyInv'
  <1>0. PICK r, c, s :
          r \in Replica /\ r = call[k].of /\ c = call[k] /\ s = rep[r]
    BY DeliverDoes
  <1>00. r \in Replica
    BY <1>0
  <1> USE <1>00
  <1>1. /\ CallTypes(c) /\ RepTypes(s)
        /\ rep'[r] = Applied(s, c)
        /\ \A o \in Replica : o # r => rep'[o] = rep[o]
        /\ call'[k] = NoCall /\ \A j \in Call : j # k => call'[j] = call[j]
        /\ refused' = refused \cup Rejected(c)
        /\ UNCHANGED <<server, unsent, wiped>>
    BY <1>0, DeliverDoes
  <1>2. /\ c.rejects \subseteq Refusable /\ Permitted(c.ops) /\ Permitted(s.committed)
        /\ c.checkpoint # <<>> => Permitted(c.checkpoint[1].model)
    BY <1>0, <1>1, CallsDiffer DEF PolicyInv
  <1> DEFINE b == Base(s, c)
             new == NewOps(b, c)
  <1>3. Permitted(b.committed) /\ b.committed \in Seq(Operation)
    <2>1. Permitted(<<>>)
      BY DEF Permitted, IdsOf
    <2> QED
      BY <1>1, <1>2, <2>1, BaseIs
  <1>4. Permitted(new) /\ new \in Seq(Operation)
    <2>1. IdsOf(new) \subseteq IdsOf(c.ops)
      BY <1>0, <1>1, DeliverTakes
    <2>2. new \in Seq(Operation)
      BY <1>1, BaseIs, NewOpsAre
    <2> QED
      BY <1>2, <2>1, <2>2 DEF Permitted
  <1>5. rep'[r].committed = b.committed \o new
    BY <1>1, AppliedIs
  <1> HIDE DEF b, new
  <1>6. Permitted(rep'[r].committed)
    BY <1>3, <1>4, <1>5, ConcatIds DEF Permitted
  <1>7. (\A o \in Replica : Permitted(rep[o].committed))'
    <2> SUFFICES ASSUME NEW o \in Replica
                 PROVE  Permitted(rep'[o].committed)
      BY DEF Permitted, IdsOf
    <2>1. CASE o = r
      BY <1>6, <2>1
    <2>2. CASE o # r
      BY <1>1, <2>2 DEF PolicyInv
    <2> QED
      BY <2>1, <2>2
  <1>8. Permitted(LogOps)'
    BY <1>1 DEF PolicyInv, Permitted, IdsOf, LogOps, server
  <1>9. (\A j \in Call : call[j] # NoCall =>
           /\ call[j].rejects \subseteq Refusable
           /\ Permitted(call[j].ops)
           /\ call[j].checkpoint # <<>> => Permitted(call[j].checkpoint[1].model))'
    BY <1>1 DEF PolicyInv, Permitted, IdsOf
  <1>10. {op.id : op \in refused'} \subseteq Refusable
    BY <1>1, <1>2 DEF PolicyInv, Rejected
  <1> QED
    BY <1>7, <1>8, <1>9, <1>10 DEF PolicyInv

\* What a call may hold.
PermittedCall(c) ==
  /\ c.rejects \subseteq Refusable
  /\ Permitted(c.ops)
  /\ c.checkpoint # <<>> => Permitted(c.checkpoint[1].model)

\* Steps that leave the committed states alone.
LEMMA PolicyOther ==
  ASSUME PolicyInv, refused' = refused, Permitted(LogOps)',
         \A r \in Replica : rep'[r].committed = rep[r].committed,
         \A k \in Call : call'[k] # NoCall => PermittedCall(call'[k])
  PROVE  PolicyInv'
  <1>1. (\A r \in Replica : Permitted(rep[r].committed))'
    BY DEF PolicyInv, Permitted, IdsOf
  <1>2. (\A k \in Call : call[k] # NoCall =>
           /\ call[k].rejects \subseteq Refusable
           /\ Permitted(call[k].ops)
           /\ call[k].checkpoint # <<>> => Permitted(call[k].checkpoint[1].model))'
    BY DEF PermittedCall, Permitted, IdsOf
  <1> QED
    BY <1>1, <1>2 DEF PolicyInv

LEMMA PolicyHandler ==
  ASSUME Steady, Types, OrderlyInv, BasesStand, PolicyInv, NEW k \in Call,
         \/ HandleEpoch(k) \/ HandleCursor(k) \/ HandleOperation(k)
         \/ HandleRead(k) \/ HandleLoad(k)
  PROVE  PolicyInv'
  <1> DEFINE c == call[k]
             d == call'[k]
  <1>1. /\ UNCHANGED <<rep, unsent, history>>
        /\ \A j \in Call : j # k => call'[j] = call[j]
        /\ CallTypes(c) /\ CallTypes(d) /\ c # NoCall /\ d # NoCall
        /\ ~HandleOperation(k) => log' = log
    BY HandlersKeep
  <1>2. PermittedCall(c)
    BY <1>1 DEF PolicyInv, PermittedCall
  <1>3. \A op \in InLog : op.id \notin Refusable
    BY LogSets DEF PolicyInv, Permitted
  <1>4. PermittedCall(d)
    <2>1. CASE HandleEpoch(k) \/ HandleCursor(k)
      <3>1. SameWork(c, d) /\ SameReply(c, d)
        BY <2>1, HandleEpochDoes, HandleCursorDoes
      <3> QED
        BY <1>2, <3>1 DEF PermittedCall, SameWork, SameReply
    <2>2. CASE HandleOperation(k)
      <3> DEFINE op == c.pending[c.done + 1]
      <3>1. /\ Answered(c, d, op)
            /\ Refuses(c, d, op) \/ AcknowledgesAgain(c, d, op) \/ Commits(c, d, op)
        BY <2>2, HandleOperationDoes
      <3>2. Refuses(c, d, op) => op.id \in Refusable
        BY <2>2, RefusedIsRefusable
      <3> HIDE DEF op, c, d
      <3>3. d.rejects \subseteq Refusable
        BY <1>2, <3>1, <3>2 DEF Answered, AcknowledgesAgain, Commits, PermittedCall
      <3> QED
        BY <1>2, <3>1, <3>3 DEF Answered, SameReply, PermittedCall
    <2>3. CASE HandleRead(k)
      <3>1. /\ SameWork(c, d) /\ d.from = c.from
            /\ SameReply(c, d) \/ (FromLog(d.from, d.ops) /\ d.checkpoint = <<>>)
        BY <2>3, HandleReadDoes
      <3>2. FromLog(d.from, d.ops) => Permitted(d.ops)
        <4>1. d.from \in Nat /\ d.ops \in Seq(Operation) /\ ServerTyped
          BY <1>1, CallFields DEF Types
        <4>2. FromLog(d.from, d.ops) => ToSet(d.ops) \subseteq InLog
          BY <4>1, PageIsSettled
        <4> QED
          BY <1>3, <4>2, SequenceSets DEF Permitted
      <3> QED
        BY <1>2, <3>1, <3>2 DEF SameWork, SameReply, PermittedCall
    <2>4. CASE HandleLoad(k)
      <3>1. /\ SameWork(c, d) /\ d.ops = <<>> /\ d.checkpoint # <<>>
            /\ d.checkpoint[1].model = LogOps
        BY <2>4, HandleLoadDoes
      <3>2. Permitted(d.ops)
        BY <3>1 DEF IdsOf, Permitted
      <3> QED
        BY <1>2, <3>1, <3>2 DEF SameWork, PermittedCall, PolicyInv
    <2> QED
      BY <2>1, <2>2, <2>3, <2>4
  <1>5. Permitted(LogOps)'
    <2>1. CASE log' = log
      BY <2>1 DEF PolicyInv, Permitted, IdsOf, LogOps
    <2>2. CASE HandleOperation(k)
      <3> DEFINE op == c.pending[c.done + 1]
      <3>1. Refuses(c, d, op) \/ AcknowledgesAgain(c, d, op) \/ Commits(c, d, op)
        BY <2>2, HandleOperationDoes
      <3>2. Commits(c, d, op) => InLog' = InLog \cup {op}
        BY <2>2, CommittedWasSent
      <3>3. CASE UNCHANGED server
        BY <3>3 DEF PolicyInv, Permitted, IdsOf, LogOps, server
      <3>4. CASE Commits(c, d, op)
        <4>1. op.id \notin Refusable
          BY <3>4 DEF Commits, Allowed
        <4> HIDE DEF op
        <4>2. \A a \in InLog' : a.id \notin Refusable
          BY <1>3, <3>2, <3>4, <4>1
        <4>3. IdsOf(LogOps)' \cap Refusable = {}
          BY <4>2, LogSets
        <4> QED
          BY <4>3 DEF Permitted
      <3> QED
        BY <3>1, <3>3, <3>4 DEF Refuses, AcknowledgesAgain
    <2> QED
      BY <1>1, <2>1, <2>2
  <1> HIDE DEF c, d
  <1>6. \A j \in Call : call'[j] # NoCall => PermittedCall(call'[j])
    <2> SUFFICES ASSUME NEW j \in Call, call'[j] # NoCall
                 PROVE  PermittedCall(call'[j])
      OBVIOUS
    <2>1. CASE j = k
      BY <1>4, <2>1 DEF d
    <2>2. CASE j # k
      BY <1>1, <2>2 DEF PolicyInv, PermittedCall
    <2> QED
      BY <2>1, <2>2
  <1> QED
    BY <1>1, <1>5, <1>6, PolicyOther DEF history

LEMMA PolicyQuiet ==
  ASSUME Types, PolicyInv,
         \/ Quiet \/ ResetJournal
         \/ \E r \in Replica, merges \in BOOLEAN : Submit(r, merges)
         \/ \E r \in Replica, k \in Call, by \in {"loop", "caller"} : BeginStep(r, k, by)
  PROVE  PolicyInv'
  <1>1. \A k \in Call : call[k] # NoCall => PermittedCall(call[k])
    BY DEF PolicyInv, PermittedCall
  <1>2. CASE Quiet
    <2>1. /\ Permitted(LogOps)' /\ refused' = refused
          /\ \A r \in Replica : rep'[r].committed = rep[r].committed
      BY <1>2 DEF Quiet, PolicyInv, Permitted, IdsOf, LogOps, history
    <2>2. \A k \in Call : call'[k] # NoCall => PermittedCall(call'[k])
      BY <1>1, <1>2 DEF Quiet, PermittedCall, SameCall, SameWork, SameReply
    <2> QED
      BY <2>1, <2>2, PolicyOther
  <1>3. CASE ResetJournal
    <2>1. log' = <<>> /\ UNCHANGED <<rep, call, refused>>
      BY <1>3, ResetDoes
    <2>2. Permitted(LogOps)'
      BY <2>1 DEF Permitted, IdsOf, LogOps
    <2> QED
      BY <1>1, <2>1, <2>2, PolicyOther
  <1>4. ASSUME NEW r \in Replica, NEW merges \in BOOLEAN, Submit(r, merges)
        PROVE  PolicyInv'
    <2>1. UNCHANGED <<log, call, refused>>
      BY <1>4 DEF Submit, server, history
    <2>2. /\ rep'[r].committed = rep[r].committed
          /\ \A o \in Replica : o # r => rep'[o] = rep[o]
      BY <1>4, SubmitDoes
    <2>3. \A o \in Replica : rep'[o].committed = rep[o].committed
      BY <2>2
    <2>4. Permitted(LogOps)'
      BY <2>1 DEF PolicyInv, Permitted, IdsOf, LogOps
    <2> QED
      BY <1>1, <2>1, <2>3, <2>4, PolicyOther
  <1>5. ASSUME NEW r \in Replica, NEW k \in Call, NEW by \in {"loop", "caller"},
               BeginStep(r, k, by)
        PROVE  PolicyInv'
    <2>1. /\ UNCHANGED <<server, rep, history>> /\ call'[k] = Request(r, by)
          /\ \A j \in Call : j # k => call'[j] = call[j]
      BY <1>5, BeginDoes DEF BeginStep
    <2>2. PermittedCall(call'[k])
      BY <2>1 DEF Request, PermittedCall, Permitted, IdsOf
    <2>3. \A j \in Call : call'[j] # NoCall => PermittedCall(call'[j])
      BY <1>1, <2>1, <2>2
    <2>4. Permitted(LogOps)' /\ refused' = refused
      BY <2>1 DEF PolicyInv, Permitted, IdsOf, LogOps, server, history
    <2> QED
      BY <2>1, <2>3, <2>4, PolicyOther
  <1> QED
    BY <1>2, <1>3, <1>4, <1>5

LEMMA InitPolicy ==
  ASSUME Init
  PROVE  PolicyInv
  <1>1. /\ rep = [r \in Replica |-> EmptyReplica] /\ call = [k \in Call |-> NoCall]
        /\ log = <<>> /\ refused = {}
    BY DEF Init, Journal!Init
  <1>2. \A r \in Replica : rep[r].committed = <<>>
    BY <1>1 DEF EmptyReplica
  <1>3. IdsOf(<<>>) = {} /\ IdsOf(LogOps) = {}
    BY <1>1 DEF IdsOf, LogOps
  <1> QED
    BY <1>1, <1>2, <1>3 DEF PolicyInv, Permitted

\* Under a policy that always says the same of an operation, only what it refuses is
\* rejected, and nothing of that reaches a log, a reply or a committed state.
THEOREM SyncPolicy == ASSUME Steady PROVE Spec => []PolicyInv
  <1>1. Init => PolicyInv
    BY InitPolicy
  <1>2. Types /\ OrderlyInv /\ BasesStand /\ PolicyInv /\ [Next]_vars => PolicyInv'
    BY StepIs, PolicyDeliver, PolicyHandler, PolicyQuiet
  <1> QED
    BY <1>1, <1>2, SyncTypes, SyncOrderly, SyncBases, PTL DEF Spec

\* A retry, a reset or a late reply never makes the server refuse what it would take.
THEOREM SyncOnlyPolicyRejects == ASSUME Steady PROVE Spec => []OnlyPolicyRejects
  <1>1. PolicyInv => OnlyPolicyRejects
    BY DEF PolicyInv, OnlyPolicyRejects
  <1> QED
    BY <1>1, SyncPolicy, PTL

-----------------------------------------------------------------------------
(* Committed in order.                                                     *)

LEMMA DecidedSets ==
  /\ \A op : Decided(op) <=> op.id \in {a.id : a \in InLog} \cup Refusable
  /\ \A op : Decided(op)' <=> op.id \in {a.id : a \in InLog'} \cup Refusable
  BY LogSets DEF Decided

\* Steps that commit nothing keep the order of what is committed.
LEMMA OrderKeeps ==
  ASSUME OrderInv, UNCHANGED <<log, wiped>>,
         \A a \in Known' : a \in Known \/ \A b \in Sent : b.id[1] = a.id[1] => ~(a.id[2] < b.id[2]),
         \A a \in Known' : a \in Outboxed(a.id[1])' \/ Decided(a),
         \A k \in Call : call'[k] # NoCall =>
           \/ /\ call[k] # NoCall /\ SameRequest(call[k], call'[k])
              /\ ToSet(call[k].pending) \subseteq Sent
              /\ Outgoing(call[k].of, call[k].pending)
              /\ call'[k].done = call[k].done
           \/ /\ \A a \in Known' : \A i \in DOMAIN call'[k].pending :
                   a.id[1] = call'[k].of /\ a.id[2] < call'[k].pending[i].id[2]
                   => a \in ToSet(call'[k].pending) \/ Decided(a)
              /\ \A i \in 1..call'[k].done : Decided(call'[k].pending[i]),
         InLog \subseteq Sent
  PROVE  OrderInv'
  <1>1. InLog' = InLog /\ (\A op : Decided(op)' <=> Decided(op))
    BY DecidedSets DEF InLog
  <1>2. CommittedInOrder' /\ wiped' = {}
    BY DEF OrderInv, CommittedInOrder
  <1>3. (\A a \in Known : a \in Outboxed(a.id[1]) \/ Decided(a))'
    BY <1>1
  <1>4. (\A a \in Known, b \in InLog :
           a.id[1] = b.id[1] /\ a.id[2] < b.id[2] => Decided(a))'
    BY <1>1 DEF OrderInv
  <1>5. ASSUME NEW k \in Call, call'[k] # NoCall
        PROVE  /\ \A a \in Known' : \A i \in DOMAIN call'[k].pending :
                    a.id[1] = call'[k].of /\ a.id[2] < call'[k].pending[i].id[2]
                    => a \in ToSet(call'[k].pending) \/ Decided(a)
               /\ \A i \in 1..call'[k].done : Decided(call'[k].pending[i])
    <2>1. CASE /\ call[k] # NoCall /\ SameRequest(call[k], call'[k])
               /\ ToSet(call[k].pending) \subseteq Sent
               /\ Outgoing(call[k].of, call[k].pending)
               /\ call'[k].done = call[k].done
      <3>1. /\ Complete(call[k].of, call[k].pending)
            /\ \A i \in 1..call[k].done : Decided(call[k].pending[i])
        BY <2>1 DEF OrderInv
      <3>2. call'[k].of = call[k].of /\ call'[k].pending = call[k].pending
        BY <2>1 DEF SameRequest
      <3>3. \A i \in DOMAIN call[k].pending :
              call[k].pending[i] \in Sent /\ call[k].pending[i].id[1] = call[k].of
        BY <2>1 DEF ToSet, Outgoing
      <3> QED
        BY <2>1, <3>1, <3>2, <3>3 DEF Complete
    <2>2. CASE ~(/\ call[k] # NoCall /\ SameRequest(call[k], call'[k])
                 /\ ToSet(call[k].pending) \subseteq Sent
                 /\ Outgoing(call[k].of, call[k].pending)
                 /\ call'[k].done = call[k].done)
      BY <1>5, <2>2
    <2> QED
      BY <2>1, <2>2
  <1>6. (\A k \in Call : call[k] # NoCall =>
           /\ Complete(call[k].of, call[k].pending)
           /\ \A i \in 1..call[k].done : Decided(call[k].pending[i]))'
    <2> SUFFICES ASSUME NEW k \in Call, call'[k] # NoCall
                 PROVE  /\ Complete(call[k].of, call[k].pending)'
                        /\ \A i \in 1..call'[k].done : Decided(call[k].pending[i])'
      OBVIOUS
    <2>1. Complete(call[k].of, call[k].pending)'
      BY <1>1, <1>5 DEF Complete, ToSet
    <2>2. \A i \in 1..call'[k].done : Decided(call[k].pending[i])'
      BY <1>1, <1>5 DEF Decided, IdsOf, LogOps
    <2> QED
      BY <2>1, <2>2
  <1> QED
    BY <1>2, <1>3, <1>4, <1>6 DEF OrderInv

\* The requests under way carry operations of their replica, all of them sent.
LEMMA RequestsAre ==
  ASSUME Types, OrderlyInv, NEW k \in Call, call[k] # NoCall
  PROVE  /\ CallTypes(call[k]) /\ ToSet(call[k].pending) \subseteq Sent
         /\ Outgoing(call[k].of, call[k].pending)
  BY KnownTyped DEF OrderlyInv

LEMMA OrderSubmit ==
  ASSUME Types, OrderlyInv, OrderInv, NEW r \in Replica, NEW merges \in BOOLEAN,
         Submit(r, merges)
  PROVE  OrderInv'
  <1> DEFINE q == rep'[r].pending
             x == q[Len(q)]
  <1>1. /\ UNCHANGED <<server, call, history>> /\ Sent' = Sent
        /\ \A o \in Replica : o # r => rep'[o] = rep[o]
        /\ x \in Operation /\ x \in Outboxed(r)' /\ x.id[1] = r /\ x \notin Known
        /\ Known' \subseteq Known \cup {x}
        /\ \A b \in Known' : b # x /\ b.id[1] = r => b.upto < x.id[2]
        /\ \A a \in Outboxed(r) : a \in Outboxed(r)' \/ a \notin Known'
    BY SubmitOrdered
  <1> HIDE DEF q, x
  <1>2. \A b \in Sent : b.id[1] = r => ~(x.id[2] < b.id[2])
    <2> SUFFICES ASSUME NEW b \in Sent, b.id[1] = r, x.id[2] < b.id[2]
                 PROVE  FALSE
      OBVIOUS
    <2>1. b \in Known /\ b \in Known' /\ b \in Operation /\ b # x
      BY <1>1, KnownTyped DEF Known
    <2>2. b.upto < x.id[2] /\ b.id[2] <= b.upto
      BY <1>1, <2>1 DEF OrderlyInv, Submittable
    <2>3. b.id[2] \in Nat /\ b.upto \in Nat /\ x.id[2] \in Nat
      BY <1>1, <2>1, OperationTyped
    <2> QED
      BY <2>2, <2>3
  <1>3. \A a \in Known' : a \in Known \/ \A b \in Sent : b.id[1] = a.id[1] => ~(a.id[2] < b.id[2])
    BY <1>1, <1>2
  <1>4. \A a \in Known' : a \in Outboxed(a.id[1])' \/ Decided(a)
    <2> SUFFICES ASSUME NEW a \in Known', a # x, ~Decided(a)
                 PROVE  a \in Outboxed(a.id[1])'
      BY <1>1
    <2>1. a \in Known /\ a.id[1] \in Replica
      BY <1>1, KnownTyped, OperationTyped
    <2>2. a \in Outboxed(a.id[1])
      BY <2>1 DEF OrderInv
    <2>3. CASE a.id[1] = r
      BY <1>1, <2>2, <2>3
    <2>4. CASE a.id[1] # r
      BY <1>1, <2>1, <2>2, <2>4 DEF Outboxed
    <2> QED
      BY <2>3, <2>4
  <1>5. \A k \in Call : call'[k] # NoCall =>
          /\ call[k] # NoCall /\ SameRequest(call[k], call'[k])
          /\ ToSet(call[k].pending) \subseteq Sent
          /\ Outgoing(call[k].of, call[k].pending)
          /\ call'[k].done = call[k].done
    BY <1>1, RequestsAre DEF SameRequest
  <1> QED
    BY <1>1, <1>3, <1>4, <1>5, OrderKeeps, KnownTyped DEF server, history

LEMMA OrderBegin ==
  ASSUME Types, OrderlyInv, OrderInv, NEW r \in Replica, NEW k \in Call,
         NEW by \in {"loop", "caller"}, BeginStep(r, k, by)
  PROVE  OrderInv'
  <1>1. /\ UNCHANGED <<server, rep, history>> /\ call'[k] = Request(r, by)
        /\ \A j \in Call : j # k => call'[j] = call[j]
    BY BeginDoes DEF BeginStep
  <1>2. Known' = Known /\ InLog' = InLog
    BY OrderlyBegin
  <1>3. call'[k].of = r /\ call'[k].pending = rep[r].pending /\ call'[k].done = 0
    BY <1>1 DEF Request
  <1>4. \A a \in Known' : a \in Outboxed(a.id[1])' \/ Decided(a)
    BY <1>1, <1>2 DEF OrderInv, Outboxed
  <1>5. /\ \A a \in Known' : \A i \in DOMAIN call'[k].pending :
             a.id[1] = call'[k].of /\ a.id[2] < call'[k].pending[i].id[2]
             => a \in ToSet(call'[k].pending) \/ Decided(a)
        /\ \A i \in 1..call'[k].done : Decided(call'[k].pending[i])
    BY <1>2, <1>3 DEF OrderInv, Outboxed
  <1>6. \A j \in Call : j # k /\ call'[j] # NoCall =>
          /\ call[j] # NoCall /\ SameRequest(call[j], call'[j])
          /\ ToSet(call[j].pending) \subseteq Sent
          /\ Outgoing(call[j].of, call[j].pending)
          /\ call'[j].done = call[j].done
    BY <1>1, RequestsAre DEF SameRequest
  <1> QED
    BY <1>1, <1>2, <1>4, <1>5, <1>6, OrderKeeps, KnownTyped DEF server, history

LEMMA OrderDeliver ==
  ASSUME Types, OrderlyInv, SettledInv, PolicyInv, OrderInv, NEW k \in Call, Deliver(k)
  PROVE  OrderInv'
  <1>0. PICK r, c :
          r \in Replica /\ r = call[k].of /\ c = call[k]
    BY DeliverDoes
  <1>00. r \in Replica
    BY <1>0
  <1> USE <1>00
  <1>1. /\ UNCHANGED <<server, unsent, wiped>>
        /\ \A o \in Replica : o # r => rep'[o] = rep[o]
        /\ call'[k] = NoCall /\ \A j \in Call : j # k => call'[j] = call[j]
    BY <1>0, DeliverDoes
  <1> DEFINE b == Base(rep[r], c)
             new == NewOps(b, c)
             gone == Gone(b, new, c)
  <1>2. /\ c # NoCall
        /\ ToSet(rep'[r].pending) = {op \in ToSet(rep[r].pending) : op.id \notin gone}
        /\ ToSet(b.ids) \subseteq ToSet(rep[r].ids) /\ IdsOf(new) \subseteq IdsOf(c.ops)
    BY <1>0, DeliverTakes
  <1> HIDE DEF b, new
  <1>3. gone \subseteq Settled \cup c.rejects
    <2>1. /\ ToSet(rep[r].ids) \subseteq Settled
          /\ c.acks \subseteq Settled /\ IdsOf(c.ops) \subseteq Settled
      BY <1>0, <1>2 DEF SettledInv
    <2> QED
      BY <1>2, <2>1 DEF Gone
  <1>4. c.rejects \subseteq Refusable /\ Settled = {a.id : a \in InLog}
    <2>1. c.rejects \subseteq Refusable
      BY <1>0, <1>2 DEF PolicyInv
    <2>2. wiped = {}
      BY DEF OrderInv
    <2> QED
      BY <2>1, <2>2, SettledSets
  <1>5. Known' \subseteq Known
    BY OrderlyDeliver
  <1>6. \A a \in Known' : a \in Outboxed(a.id[1])' \/ Decided(a)
    <2> SUFFICES ASSUME NEW a \in Known', a \notin Outboxed(a.id[1])'
                 PROVE  Decided(a)
      OBVIOUS
    <2>1. a \in Known /\ a.id[1] \in Replica
      BY <1>5, KnownTyped, OperationTyped
    <2>2. a \in Outboxed(a.id[1]) \/ Decided(a)
      BY <2>1 DEF OrderInv
    <2>3. CASE a \in Outboxed(a.id[1])
      <3>1. a.id[1] = r
        BY <1>1, <2>1, <2>3 DEF Outboxed
      <3>2. a.id \in gone
        BY <1>2, <2>3, <3>1 DEF Outboxed
      <3> QED
        BY <1>3, <1>4, <3>2, DecidedSets
    <2> QED
      BY <2>2, <2>3
  <1>7. \A j \in Call : call'[j] # NoCall =>
          /\ call[j] # NoCall /\ SameRequest(call[j], call'[j])
          /\ ToSet(call[j].pending) \subseteq Sent
          /\ Outgoing(call[j].of, call[j].pending)
          /\ call'[j].done = call[j].done
    BY <1>1, RequestsAre DEF SameRequest
  <1> QED
    BY <1>1, <1>5, <1>6, <1>7, OrderKeeps, KnownTyped DEF server

\* Quiet steps, and handlers that answer no operation.
LEMMA OrderQuiet ==
  ASSUME Types, OrderlyInv, OrderInv,
         \/ Quiet
         \/ \E k \in Call : HandleEpoch(k) \/ HandleCursor(k) \/ HandleRead(k) \/ HandleLoad(k)
  PROVE  OrderInv'
  <1>1. /\ UNCHANGED <<log, rep, wiped>>
        /\ \A j \in Call : call'[j] # NoCall =>
             /\ call[j] # NoCall /\ SameRequest(call[j], call'[j])
             /\ call'[j].done = call[j].done
    <2>1. CASE Quiet
      BY <2>1 DEF Quiet, SameCall, SameWork, history
    <2>2. ASSUME NEW k \in Call,
                 HandleEpoch(k) \/ HandleCursor(k) \/ HandleRead(k) \/ HandleLoad(k)
          PROVE  /\ UNCHANGED <<log, rep, wiped>>
                 /\ \A j \in Call : call'[j] # NoCall =>
                      /\ call[j] # NoCall /\ SameRequest(call[j], call'[j])
                      /\ call'[j].done = call[j].done
      <3>1. /\ UNCHANGED <<rep, unsent, history>>
            /\ \A j \in Call : j # k => call'[j] = call[j]
            /\ \A j \in Call : call'[j] # NoCall =>
                 call[j] # NoCall /\ SameRequest(call[j], call'[j])
        BY <2>2, HandlersKeep
      <3>2. SameWork(call[k], call'[k]) /\ log' = log
        BY <2>2, HandleEpochDoes, HandleCursorDoes, HandleReadDoes, HandleLoadDoes DEF server
      <3> QED
        BY <3>1, <3>2 DEF SameWork, history
    <2> QED
      BY <2>1, <2>2
  <1>2. Known' \subseteq Known
    BY OrderlyOther
  <1>3. \A a \in Known' : a \in Outboxed(a.id[1])' \/ Decided(a)
    BY <1>1, <1>2 DEF OrderInv, Outboxed
  <1>4. \A k \in Call : call[k] # NoCall =>
          /\ ToSet(call[k].pending) \subseteq Sent
          /\ Outgoing(call[k].of, call[k].pending)
    BY RequestsAre
  <1> QED
    BY <1>1, <1>2, <1>3, <1>4, OrderKeeps, KnownTyped

\* The server takes the operations of a request one by one, in their order: what is
\* before it in the request is decided, and so is everything else before it.
LEMMA OrderOperation ==
  ASSUME Steady, Types, OrderlyInv, BasesStand, OrderInv, NEW k \in Call, HandleOperation(k)
  PROVE  OrderInv'
  <1>0. PICK c, d, op : c = call[k] /\ d = call'[k] /\ op = c.pending[c.done + 1]
    OBVIOUS
  <1>1. /\ CallTypes(c) /\ c.done < Len(c.pending) /\ op \in Operation
        /\ Answered(c, d, op)
        /\ Refuses(c, d, op) \/ AcknowledgesAgain(c, d, op) \/ Commits(c, d, op)
        /\ \A j \in Call : j # k => call'[j] = call[j]
        /\ UNCHANGED <<rep, unsent, history>>
    BY <1>0, HandleOperationDoes
  <1>2. c # NoCall /\ d.of = c.of /\ d.pending = c.pending /\ d.done = c.done + 1
    BY <1>1, CallsDiffer DEF Answered, SameRequest
  <1>3. /\ c.pending \in Seq(Operation) /\ c.done \in Nat /\ Len(c.pending) \in Nat
        /\ DOMAIN c.pending = 1..Len(c.pending) /\ c.done + 1 \in 1..Len(c.pending)
    <2>1. c.pending \in Seq(Operation) /\ c.done \in Nat
      BY <1>1, CallFields
    <2> QED
      BY <1>1, <2>1
  <1>4. /\ op \in Known /\ InLog \subseteq InLog' /\ InLog' \subseteq InLog \cup {op}
        /\ Commits(c, d, op) => InLog' = InLog \cup {op}
    BY <1>0, CommittedWasSent
  <1>5. Known' \subseteq Known
    BY OrderlyOther
  <1>6. Outgoing(c.of, c.pending)
    BY <1>0, <1>2 DEF OrderlyInv
  <1>7. \A a : Decided(a) => Decided(a)'
    BY <1>4, DecidedSets
  <1>8. Decided(op)'
    <2>1. Refuses(c, d, op) => op.id \in Refusable
      BY <1>0, RefusedIsRefusable
    <2>2. AcknowledgesAgain(c, d, op) => op.id \in {a.id : a \in InLog}
      BY DEF AcknowledgesAgain, Prior, InLog
    <2> QED
      BY <1>1, <1>4, <2>1, <2>2, DecidedSets
  <1>9. wiped' = {}
    BY <1>1 DEF OrderInv, history
  <1>10. (\A a \in Known : a \in Outboxed(a.id[1]) \/ Decided(a))'
    <2> SUFFICES ASSUME NEW a \in Known'
                 PROVE  a \in Outboxed(a.id[1])' \/ Decided(a)'
      OBVIOUS
    <2>1. a \in Outboxed(a.id[1]) \/ Decided(a)
      BY <1>5 DEF OrderInv
    <2> QED
      BY <1>1, <1>7, <2>1 DEF Outboxed
  \* Everything known before op is decided.
  <1>11. \A a \in Known : a.id[1] = op.id[1] /\ a.id[2] < op.id[2] => Decided(a)
    <2> SUFFICES ASSUME NEW a \in Known, a.id[1] = op.id[1], a.id[2] < op.id[2]
                 PROVE  Decided(a)
      OBVIOUS
    <2>1. op.id[1] = c.of
      BY <1>0, <1>3, <1>6 DEF Outgoing
    <2>2. a \in ToSet(c.pending) \/ Decided(a)
      BY <1>0, <1>2, <1>3, <2>1 DEF OrderInv, Complete
    <2>3. ASSUME a \in ToSet(c.pending)
          PROVE  Decided(a)
      <3>1. PICK i \in 1..Len(c.pending) : a = c.pending[i]
        BY <1>3, <2>3 DEF ToSet
      <3>2. a.id[2] \in Nat /\ op.id[2] \in Nat
        BY <1>1, KnownTyped, OperationTyped
      <3>3. ~(c.done + 1 < i) /\ i # c.done + 1
        <4>1. c.done + 1 < i => op.id[2] < a.id[2]
          BY <1>0, <1>3, <1>6, <3>1 DEF Outgoing
        <4>2. i = c.done + 1 => a = op
          BY <1>0, <3>1
        <4> QED
          BY <3>2, <4>1, <4>2
      <3>4. i \in 1..c.done
        BY <1>3, <3>3
      <3> QED
        BY <1>0, <1>2, <3>1, <3>4 DEF OrderInv
    <2> QED
      BY <2>2, <2>3
  <1>12. (\A a \in Known, b \in InLog :
            a.id[1] = b.id[1] /\ a.id[2] < b.id[2] => Decided(a))'
    <2> SUFFICES ASSUME NEW a \in Known', NEW b \in InLog', a.id[1] = b.id[1], a.id[2] < b.id[2]
                 PROVE  Decided(a)'
      OBVIOUS
    <2>1. CASE b \in InLog
      BY <1>5, <1>7, <2>1 DEF OrderInv
    <2>2. CASE b = op
      BY <1>5, <1>7, <1>11, <2>2
    <2> QED
      BY <1>4, <2>1, <2>2
  <1>13. (\A j \in Call : call[j] # NoCall =>
            /\ Complete(call[j].of, call[j].pending)
            /\ \A i \in 1..call[j].done : Decided(call[j].pending[i]))'
    <2> SUFFICES ASSUME NEW j \in Call, call'[j] # NoCall
                 PROVE  /\ Complete(call[j].of, call[j].pending)'
                        /\ \A i \in 1..call'[j].done : Decided(call[j].pending[i])'
      OBVIOUS
    <2>1. PICK of, pending : of = call[j].of /\ pending = call[j].pending
      OBVIOUS
    <2>2. call[j] # NoCall /\ call'[j].of = of /\ call'[j].pending = pending
      BY <1>0, <1>1, <1>2, <2>1
    <2>3. /\ Complete(of, pending)
          /\ \A i \in 1..call[j].done : Decided(pending[i])
      BY <2>1, <2>2 DEF OrderInv
    <2>4. Complete(of, pending)'
      BY <1>5, <1>7, <2>3 DEF Complete
    <2>5. Complete(call[j].of, call[j].pending)'
      BY <2>2, <2>4 DEF Complete
    <2>6. \A i \in 1..call'[j].done : Decided(pending[i])'
      <3>1. CASE j = k
        <4>1. \A i \in 1..d.done : i \in 1..c.done \/ i = c.done + 1
          BY <1>2, <1>3
        <4> QED
          BY <1>0, <1>7, <1>8, <2>1, <2>3, <3>1, <4>1
      <3>2. CASE j # k
        BY <1>1, <1>7, <2>3, <3>2
      <3> QED
        BY <3>1, <3>2
    <2>7. \A i \in 1..call'[j].done : Decided(call[j].pending[i])'
      BY <2>2, <2>6 DEF Decided
    <2> QED
      BY <2>5, <2>7
  <1>14. CommittedInOrder'
    <2>1. CASE log' = log
      BY <2>1 DEF OrderInv, CommittedInOrder
    <2>2. CASE Commits(c, d, op)
      <3>1. /\ log' = Append(log, Entry(c.of, op)) /\ Prior(op) = {} /\ op.id \notin Refusable
        BY <2>2 DEF Commits, Allowed
      <3>2. /\ DOMAIN log = 1..Len(log) /\ DOMAIN log' = 1..(Len(log) + 1) /\ Len(log) \in Nat
            /\ \A i \in 1..Len(log) : log'[i] = log[i]
            /\ log'[Len(log) + 1].op = op
        <4>1. log \in Seq(Journal!Entry)
          BY DEF Types, ServerTyped
        <4>2. Entry(c.of, op).op = op
          BY DEF Entry
        <4> QED
          BY <3>1, <4>1, <4>2
      <3>3. \A i \in 1..Len(log) : log[i].op.id[1] = op.id[1] => log[i].op.upto < op.id[2]
        <4> SUFFICES ASSUME NEW i \in 1..Len(log), log[i].op.id[1] = op.id[1]
                     PROVE  log[i].op.upto < op.id[2]
          OBVIOUS
        <4>1. PICK a : a = log[i].op
          OBVIOUS
        <4>2. a \in InLog /\ a \in Known
          BY <3>2, <4>1, KnownTyped DEF InLog
        <4>3. a = op \/ a.upto < op.id[2] \/ op.upto < a.id[2]
          BY <1>4, <4>1, <4>2 DEF OrderlyInv, OneEach
        <4>4. a.id # op.id
          BY <3>1, <3>2, <4>1 DEF Prior
        <4>5. op.id \notin {e.id : e \in InLog}
          BY <3>1 DEF Prior, InLog
        <4>6. ~Decided(op)
          BY <3>1, <4>5, DecidedSets
        <4>7. ~(op.id[2] < a.id[2])
          BY <1>4, <4>1, <4>2, <4>6 DEF OrderInv
        <4>8. op.id[2] <= op.upto /\ op.id[2] \in Nat /\ op.upto \in Nat /\ a.id[2] \in Nat
          BY <1>1, <1>4, <4>2, KnownTyped, OperationTyped DEF OrderlyInv, Submittable
        <4> QED
          BY <4>1, <4>3, <4>4, <4>7, <4>8
      <3>4. ASSUME NEW i \in DOMAIN log', NEW j \in DOMAIN log', i < j,
                   log'[i].op.id[1] = log'[j].op.id[1]
            PROVE  log'[i].op.upto < log'[j].op.id[2]
        <4>1. i \in 1..Len(log) /\ log'[i] = log[i]
          BY <3>2, <3>4
        <4>2. CASE j = Len(log) + 1
          BY <3>2, <3>3, <3>4, <4>1, <4>2
        <4>3. CASE j # Len(log) + 1
          <5>1. j \in 1..Len(log) /\ log'[j] = log[j]
            BY <3>2, <4>3
          <5> QED
            BY <3>2, <3>4, <4>1, <5>1 DEF OrderInv, CommittedInOrder
        <4> QED
          BY <4>2, <4>3
      <3> QED
        BY <3>4 DEF CommittedInOrder
    <2> QED
      BY <1>1, <2>1, <2>2 DEF Refuses, AcknowledgesAgain, server
  <1> QED
    BY <1>9, <1>10, <1>12, <1>13, <1>14 DEF OrderInv

LEMMA InitOrder ==
  ASSUME Init
  PROVE  OrderInv
  <1>1. /\ rep = [r \in Replica |-> EmptyReplica] /\ call = [k \in Call |-> NoCall]
        /\ log = <<>> /\ wiped = {}
    BY DEF Init, Journal!Init
  <1>2. /\ \A r \in Replica : rep[r].pending = <<>>
        /\ \A k \in Call : call[k] = NoCall
    BY <1>1 DEF EmptyReplica
  <1>3. Known = {} /\ InLog = {}
    BY <1>1, <1>2 DEF Known, Sent, InLog, Carried, Outboxed, ToSet
  <1> QED
    BY <1>1, <1>2, <1>3 DEF OrderInv, CommittedInOrder

\* In one history and under a steady policy, everything before what a request
\* carries is carried by it or decided.
THEOREM SyncOrder == ASSUME Steady, NoResets PROVE Spec => []OrderInv
  <1>1. Init => OrderInv
    BY InitOrder
  <1>2. Types /\ OrderlyInv /\ SettledInv /\ BasesStand /\ PolicyInv /\ OrderInv
          /\ [Next]_vars => OrderInv'
    BY StepIs, ResetDoes, OrderSubmit, OrderBegin, OrderDeliver, OrderQuiet, OrderOperation
  <1> QED
    BY <1>1, <1>2, SyncTypes, SyncOrderly, SyncSettled, SyncBases,
       SyncPolicy, PTL DEF Spec

\* A replica's messages are committed in the order they were submitted, and none of
\* them twice.
THEOREM SyncCommittedInOrder == ASSUME Steady, NoResets PROVE Spec => []CommittedInOrder
  <1>1. OrderInv => CommittedInOrder
    BY DEF OrderInv
  <1> QED
    BY <1>1, SyncOrder, PTL

-----------------------------------------------------------------------------
(* Replicas and server are one log that everyone reads a beginning of.     *)

View(r) == IF rep[r].epoch = epoch THEN rep[r].committed ELSE <<>>

LEMMA Beginning ==
  ASSUME Types, NEW ops \in Seq(Operation), FromLog(0, ops)
  PROVE  Len(ops) \in 0..Len(log) /\ ops = [i \in 1..Len(ops) |-> log[i].op]
  <1>1. /\ Len(ops) \in Nat /\ 0 + Len(ops) <= Len(log) /\ Len(log) \in Nat
        /\ \A i \in 1..Len(ops) : ops[i] = log[0 + i].op
    BY LogTyped DEF Types, FromLog
  <1>2. \A i \in 1..Len(ops) : ops[i] = log[i].op
    <2>1. \A i \in 1..Len(ops) : 0 + i = i
      BY <1>1
    <2> QED
      BY <1>1, <2>1
  <1> QED
    BY <1>1, <1>2

\* A view is as many operations as the log begins with.
LEMMA ViewsAre ==
  ASSUME Types, PrefixInv, NEW r \in Replica
  PROVE  /\ Views[r] = View(r) /\ View(r) \in Seq(Operation)
         /\ Len(View(r)) \in 0..Len(log) /\ FromLog(0, View(r))
         /\ View(r) = [i \in 1..Len(View(r)) |-> log[i].op]
  <1>1. RepTypes(rep[r]) /\ ViewFits(rep[r]) /\ Len(log) \in Nat
    BY LogTyped DEF Types, ReplicasTyped, PrefixInv
  <1>2. View(r) \in Seq(Operation) /\ FromLog(0, View(r))
    <2>1. <<>> \in Seq(Operation) /\ FromLog(0, <<>>)
      BY <1>1 DEF FromLog
    <2>2. rep[r].committed \in Seq(Operation)
      BY <1>1, RepFields
    <2>3. rep[r].epoch = epoch => FromLog(0, rep[r].committed)
      BY <1>1 DEF ViewFits
    <2> QED
      BY <2>1, <2>2, <2>3 DEF View
  <1>3. Views[r] = View(r)
    BY DEF Views, View
  <1> QED
    BY <1>2, <1>3, Beginning

\* While the history stands, only what a replica takes in changes its view.
LEMMA ViewsStay ==
  ASSUME UNCHANGED <<rep, epoch>> \/ (epoch' = epoch /\ \A r \in Replica : SameView(rep[r], rep'[r]))
  PROVE  Views' = Views
  BY DEF Views, SameView

\* Before a history has its identity nobody has anything of it, nor just after.
LEMMA NobodyYet ==
  ASSUME PrefixInv, epoch = 0 \/ epoch \notin {rep[r].epoch : r \in Replica}
  PROVE  Views = [r \in Replica |-> <<>>]
  <1>1. \A r \in Replica : ViewFits(rep[r])
    BY DEF PrefixInv
  <1>2. \A r \in Replica : rep[r].epoch = epoch => rep[r].committed = <<>>
    BY <1>1 DEF ViewFits
  <1> QED
    BY <1>2 DEF Views

\* The journal opening its history.
LEMMA OpeningIsRead ==
  ASSUME Types, PrefixInv, PrefixInv', NEW k \in Call, HandleEpoch(k)
  PROVE  [Readers!ViewNext]_Readers!viewVars
  <1>1. /\ epoch = 0 => epoch' \notin used /\ epoch' # 0
        /\ epoch # 0 => epoch' = epoch
        /\ UNCHANGED <<log, rep>>
    BY HandleEpochDoes
  <1>2. CASE epoch # 0
    <2>1. UNCHANGED <<log, epoch, used, rep>>
      BY <1>1, <1>2 DEF HandleEpoch
    <2>2. Views' = Views
      BY <2>1, ViewsStay
    <2> QED
      BY <2>1, <2>2 DEF Readers!viewVars, Readers!vars
  <1>3. CASE epoch = 0
    <2>1. Readers!Open
      BY <1>3 DEF HandleEpoch, Journal!Open, Journal!Begin, Readers!Open, Readers!Begin
    <2>2. Views = [r \in Replica |-> <<>>]
      BY <1>3, NobodyYet
    <2>3. \A r \in Replica : rep'[r].epoch # epoch'
      BY <1>1, <1>3 DEF PrefixInv
    <2>4. Views' = [r \in Replica |-> <<>>]
      BY <2>3 DEF Views
    <2> QED
      BY <2>1, <2>2, <2>4 DEF Readers!ViewNext, Readers!Opened
  <1> QED
    BY <1>2, <1>3

\* An operation committed, or answered without one.
LEMMA CommittingIsRead ==
  ASSUME Types, Types', PrefixInv, PrefixInv', NEW k \in Call, HandleOperation(k)
  PROVE  [Readers!ViewNext]_Readers!viewVars
  <1>0. PICK c, d, op : c = call[k] /\ d = call'[k] /\ op = c.pending[c.done + 1]
    OBVIOUS
  <1>1. /\ CallTypes(c) /\ op \in Operation
        /\ Refuses(c, d, op) \/ AcknowledgesAgain(c, d, op) \/ Commits(c, d, op)
        /\ UNCHANGED rep
    BY <1>0, HandleOperationDoes
  <1>2. CASE UNCHANGED server
    <2>1. Views' = Views
      BY <1>1, <1>2, ViewsStay DEF server
    <2> QED
      BY <1>2, <2>1 DEF Readers!viewVars, Readers!vars, server
  <1>3. CASE ~UNCHANGED server
    <2>1. Commits(c, d, op)
      BY <1>1, <1>3 DEF Refuses, AcknowledgesAgain
    <2> DEFINE e == Entry(c.of, op)
    <2>2. Journal!CommitEntry(e)
      BY <1>0, <1>3 DEF HandleOperation
    <2>3. e \in Journal!Entry
      BY <1>1, CallFields DEF Entry, Journal!Entry
    <2>4. log \in Seq(Journal!Entry) /\ log' = Append(log, e)
      BY <2>1 DEF Types, ServerTyped, Commits
    <2> HIDE DEF e
    <2>5. log' # <<>> /\ log'[Len(log')] = e
      <3> DEFINE E == Journal!Entry
      <3>1. log \in Seq(E) /\ e \in E
        BY <2>3, <2>4
      <3> HIDE DEF E
      <3> QED
        BY <2>4, <3>1
    <2>6. Views' = Views
      <3>1. CASE epoch # 0
        <4>1. epoch' = epoch
          BY <2>1, <3>1 DEF Commits
        <4> QED
          BY <1>1, <4>1, ViewsStay
      <3>2. CASE epoch = 0
        <4>1. Views = [r \in Replica |-> <<>>]
          BY <3>2, NobodyYet
        <4>2. epoch' \notin used /\ epoch' # 0
          BY <2>1, <3>2 DEF Commits
        <4>3. \A r \in Replica : rep'[r].epoch # epoch'
          BY <1>1, <4>2 DEF PrefixInv
        <4>4. Views' = [r \in Replica |-> <<>>]
          BY <4>3 DEF Views
        <4> QED
          BY <4>1, <4>4
      <3> QED
        BY <3>1, <3>2
    <2>7. Readers!CommitEntry(e) /\ e \in Readers!Entry
      BY <2>2, <2>3 DEF Journal!CommitEntry, Journal!Begin, Journal!Entry,
                        Readers!CommitEntry, Readers!Begin, Readers!Entry
    <2> QED
      BY <2>5, <2>6, <2>7 DEF Readers!ViewNext, Readers!Committed
  <1> QED
    BY <1>2, <1>3

\* A reset, after which nothing anyone has is of this history.
LEMMA ResettingIsRead ==
  ASSUME Types, PrefixInv, PrefixInv', ResetJournal
  PROVE  [Readers!ViewNext]_Readers!viewVars
  <1>1. Readers!Reset
    BY DEF ResetJournal, Journal!Reset, Readers!Reset
  <1>2. epoch' = 0
    BY ResetDoes
  <1>3. \A r \in Replica : rep'[r].epoch = epoch' => rep'[r].committed = <<>>
    BY <1>2 DEF PrefixInv, ViewFits
  <1>4. Views' = [r \in Replica |-> <<>>]
    BY <1>3 DEF Views
  <1> QED
    BY <1>1, <1>4 DEF Readers!ViewNext, Readers!Restart, Readers!Nobody

\* A reply takes a view forward, or back to the start when it is of another history.
LEMMA DeliveryIsRead ==
  ASSUME Types, PrefixInv, PrefixInv', NEW k \in Call, Deliver(k)
  PROVE  [Readers!ViewNext]_Readers!viewVars
  <1>0. PICK r, c, s, t :
          r \in Replica /\ r = call[k].of /\ c = call[k] /\ s = rep[r] /\ t = rep'[r]
    BY DeliverDoes
  <1>00. r \in Replica
    BY <1>0
  <1> USE <1>00
  <1>1. /\ Types' /\ CallTypes(c) /\ RepTypes(s)
        /\ c.phase = "reply" /\ Acceptable(s, c) /\ t = Applied(s, c)
        /\ \A o \in Replica : o # r => rep'[o] = rep[o]
        /\ UNCHANGED <<log, epoch, used>>
    BY <1>0, DeliverDoes DEF server
  <1>2. ViewFits(s) /\ c.epoch \in used /\ ReplyFits(c) /\ 0 \notin used
    <2>1. c # NoCall
      BY <1>1, CallsDiffer
    <2> QED
      BY <1>0, <1>1, <2>1, ZeroUnused DEF PrefixInv, Types
  <1>3. t.epoch = c.epoch
    BY <1>1, AppliedIs
  <1>4. Views' = [Views EXCEPT ![r] = View(r)']
    <2>1. \A o \in Replica : o # r => View(o)' = View(o)
      BY <1>1 DEF View
    <2>2. Views = [o \in Replica |-> View(o)]
      BY DEF Views, View
    <2>3. Views' = [o \in Replica |-> View(o)']
      BY DEF Views, View
    <2> HIDE DEF View
    <2> QED
      BY <2>1, <2>2, <2>3
  <1>5. CASE c.epoch # epoch
    <2>1. View(r)' = <<>>
      BY <1>0, <1>1, <1>3, <1>5 DEF View
    <2>2. \E earlier \in used : earlier # epoch
      BY <1>2, <1>5
    <2>3. Readers!Relapse(r)
      BY <1>1, <1>4, <2>1, <2>2 DEF Readers!Relapse, Readers!vars
    <2> QED
      BY <2>3 DEF Readers!ViewNext
  <1>6. CASE c.epoch = epoch
    <2>1. /\ t.cursor = Len(t.committed)
          /\ c.checkpoint # <<>> => t.cursor = c.checkpoint[1].cursor
          /\ t.cursor >= Base(s, c).cursor
      BY <1>1, <1>2, <1>6, AppliedFits
    <2>2. Len(View(r)) <= Len(View(r)')
      <3>1. View(r)' = t.committed
        BY <1>0, <1>1, <1>3, <1>6 DEF View
      <3>2. CASE s.epoch # epoch
        <4>1. View(r) = <<>> /\ Len(<<>>) = 0
          BY <1>0, <3>2 DEF View
        <4>2. t.committed \in Seq(Operation)
          BY <1>1, AppliedIs, RepFields
        <4> QED
          BY <3>1, <4>1, <4>2
      <3>3. CASE s.epoch = epoch
        <4>1. View(r) = s.committed /\ s.cursor = Len(s.committed)
          BY <1>0, <1>2, <3>3 DEF View, ViewFits
        <4>2. ~Restarted(s, c)
          BY <1>6, <3>3 DEF Restarted
        <4>3. t.cursor >= s.cursor
          <5>1. CASE c.checkpoint = <<>>
            BY <1>1, <2>1, <4>2, <5>1, BaseIs
          <5>2. CASE c.checkpoint # <<>>
            BY <1>1, <2>1, <4>2, <5>2 DEF Acceptable
          <5> QED
            BY <5>1, <5>2
        <4>4. s.cursor \in Nat /\ t.cursor \in Nat
          BY <1>1, AppliedIs, RepFields
        <4> QED
          BY <2>1, <3>1, <4>1, <4>3, <4>4
      <3> QED
        BY <3>2, <3>3
    <2>3. /\ Views[r] = View(r) /\ Len(View(r)) \in Nat
          /\ Len(View(r)') \in 0..Len(log)
          /\ View(r)' = [i \in 1..Len(View(r)') |-> log[i].op]
      <3>1. View(r)' = t.committed /\ t.committed \in Seq(Operation) /\ FromLog(0, t.committed)
        BY <1>0, <1>1, <1>2, <1>3, <1>6, AppliedFits, AppliedIs, RepFields DEF View
      <3>2. r \in Replica
        BY <1>1
      <3>3. Views[r] = View(r) /\ Len(View(r)) \in 0..Len(log) /\ Len(log) \in Nat
        BY <3>2, ViewsAre, LogTyped DEF Types
      <3>4. /\ Len(t.committed) \in 0..Len(log)
            /\ t.committed = [i \in 1..Len(t.committed) |-> log[i].op]
        BY <3>1, Beginning
      <3> QED
        BY <3>1, <3>3, <3>4
    <2>4. PICK n : n = Len(View(r)')
      OBVIOUS
    <2>5. n \in Len(Views[r])..Len(log)
      BY <2>2, <2>3, <2>4
    <2>6. Views' = [Views EXCEPT ![r] = [i \in 1..n |-> log[i].op]]
      BY <1>4, <2>3, <2>4
    <2>7. Readers!Learn(r)
      BY <1>1, <2>5, <2>6 DEF Readers!Learn, Readers!vars
    <2> QED
      BY <2>7 DEF Readers!ViewNext
  <1> QED
    BY <1>5, <1>6

\* Everything else leaves the log and every view alone.
LEMMA RestIsRead ==
  ASSUME Types,
         \/ \E r \in Replica, merges \in BOOLEAN : Submit(r, merges)
         \/ \E r \in Replica, k \in Call, by \in {"loop", "caller"} : BeginStep(r, k, by)
         \/ Quiet
         \/ \E k \in Call : HandleCursor(k) \/ HandleRead(k) \/ HandleLoad(k)
  PROVE  [Readers!ViewNext]_Readers!viewVars
  <1>1. /\ UNCHANGED <<log, epoch, used>>
        /\ \A o \in Replica : SameView(rep[o], rep'[o])
    <2>1. ASSUME NEW r \in Replica, NEW merges \in BOOLEAN, Submit(r, merges)
          PROVE  /\ UNCHANGED <<log, epoch, used>>
                 /\ \A o \in Replica : SameView(rep[o], rep'[o])
      BY <2>1, SubmitDoes DEF Submit, server, SameView
    <2>2. CASE \E r \in Replica, k \in Call, by \in {"loop", "caller"} : BeginStep(r, k, by)
      BY <2>2 DEF BeginStep, Begin, server, SameView
    <2>3. CASE Quiet
      BY <2>3 DEF Quiet, SameView
    <2>4. CASE \E k \in Call : HandleCursor(k) \/ HandleRead(k) \/ HandleLoad(k)
      BY <2>4 DEF HandleCursor, HandleRead, HandleLoad, clients, server, SameView
    <2> QED
      BY <2>1, <2>2, <2>3, <2>4
  <1>2. Views' = Views
    BY <1>1, ViewsStay
  <1> QED
    BY <1>1, <1>2 DEF Readers!viewVars, Readers!vars

\* IsOneLog, the refinement the runs check: the server's journal and what every
\* replica shows of it are a ReplicatedLog, in every step of either.
THEOREM SyncIsOneLog == Spec => IsOneLog
  <1>1. Init => Readers!ViewInit
    BY DEF Init, Journal!Init, EmptyReplica, Views,
           Readers!ViewInit, Readers!Init, Readers!Nobody
  <1>2. Types /\ PrefixInv /\ [Next]_vars => PrefixInv' /\ Types'
    BY StepIs, PrefixSubmit, PrefixBegin, PrefixDeliver, PrefixHandler, PrefixQuiet
  <1>3. Types /\ PrefixInv /\ [Next]_vars => [Readers!ViewNext]_Readers!viewVars
    BY <1>2, StepIs, OpeningIsRead, CommittingIsRead, ResettingIsRead, DeliveryIsRead,
       RestIsRead
  <1> QED
    BY <1>1, <1>3, SyncTypes, SyncPrefix, PTL DEF Spec, IsOneLog, Readers!ViewSpec

\* A ReplicatedLog is a CommittedLog, so replicas and server change their journal in
\* the ways the real one has, and in no other.
THEOREM SyncServesALog == Spec => Journal!Spec
  <1>1. Readers!ViewInit => Journal!Init
    BY DEF Readers!ViewInit, Readers!Init, Journal!Init
  <1>2. [Readers!ViewNext]_Readers!viewVars => [Journal!Next]_Journal!vars
    <2>1. Readers!Opened => Journal!Open
      BY DEF Readers!Opened, Readers!Open, Readers!Begin, Journal!Open, Journal!Begin
    <2>2. Readers!Committed => Journal!Commit
      BY DEF Readers!Committed, Readers!CommitEntry, Readers!Begin, Readers!Entry,
             Journal!Commit, Journal!CommitEntry, Journal!Begin, Journal!Entry
    <2>3. Readers!Restart => Journal!Reset
      BY DEF Readers!Restart, Readers!Reset, Journal!Reset
    <2>4. UNCHANGED Readers!vars => UNCHANGED Journal!vars
      BY DEF Readers!vars, Journal!vars
    <2>5. UNCHANGED Readers!viewVars => UNCHANGED Readers!vars
      BY DEF Readers!viewVars
    <2> QED
      BY <2>1, <2>2, <2>3, <2>4, <2>5
         DEF Readers!ViewNext, Readers!Learn, Readers!Relapse, Journal!Next
  <1> QED
    BY <1>1, <1>2, SyncIsOneLog, PTL DEF IsOneLog, Readers!ViewSpec, Journal!Spec
=============================================================================
