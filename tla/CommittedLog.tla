----------------------------- MODULE CommittedLog -----------------------------
(***************************************************************************)
(* What a journal promises of one document, whatever its storage, caches,  *)
(* snapshots and compactions do: a sequence of committed operations, each  *)
(* at most once, that only grows until a reset starts another history      *)
(* under an identity no history had before.                                *)
(***************************************************************************)
EXTENDS Integers, Sequences

CONSTANTS Operation, Actor

VARIABLES
  log,    \* the committed entries, a sequence
  epoch,  \* the identity of this history, 0 before it has one
  used    \* every identity a history ever had

vars == <<log, epoch, used>>

Entry == [op : Operation, actor : Actor]

Init == log = <<>> /\ epoch = 0 /\ used = {}

\* A history takes its identity: never one used before.
Begin ==
  /\ epoch' \in Nat \ (used \cup {0})
  /\ used' = used \cup {epoch'}

Open ==
  /\ epoch = 0
  /\ Begin
  /\ UNCHANGED log

\* A new operation is committed after everything committed before.
CommitEntry(entry) ==
  /\ \A i \in DOMAIN log : log[i].op.id # entry.op.id
  /\ log' = Append(log, entry)
  /\ IF epoch = 0 THEN Begin ELSE UNCHANGED <<epoch, used>>

Commit == \E entry \in Entry : CommitEntry(entry)

Reset ==
  /\ log' = <<>>
  /\ epoch' = 0
  /\ UNCHANGED used

Next == Open \/ Commit \/ Reset

Spec == Init /\ [][Next]_vars
=============================================================================
