---------------------------- MODULE ReplicatedLog ----------------------------
(***************************************************************************)
(* What replicas and their server promise whoever reads a document: one    *)
(* CommittedLog, and in each replica a view of it, which is always the     *)
(* operations up to some point and only ever takes in more, until the log  *)
(* is reset.  A replica that has nothing of this history yet has an empty  *)
(* view; a late answer of an earlier one may put it back there.            *)
(***************************************************************************)
EXTENDS CommittedLog

VARIABLE view  \* per replica, the committed operations it shows

viewVars == <<vars, view>>

Nobody == [r \in Actor |-> <<>>]

ViewInit == Init /\ view = Nobody

\* The log takes its identity, or one more operation.
Opened == Open /\ UNCHANGED view

Committed ==
  LET entry == log'[Len(log')] IN
  /\ log' # <<>> /\ entry \in Entry
  /\ CommitEntry(entry)
  /\ UNCHANGED view

\* A replica takes in more of the log, as far as some operation.
Learn(r) ==
  \E n \in Len(view[r])..Len(log) :
    /\ view' = [view EXCEPT ![r] = [i \in 1..n |-> log[i].op]]
    /\ UNCHANGED vars

\* An answer of an earlier history arrives: the replica starts again.
Relapse(r) ==
  /\ \E earlier \in used : earlier # epoch
  /\ view' = [view EXCEPT ![r] = <<>>]
  /\ UNCHANGED vars

\* The document begins again, and no view is of it.
Restart == Reset /\ view' = Nobody

ViewNext ==
  \/ Opened \/ Committed \/ Restart
  \/ \E r \in Actor : Learn(r) \/ Relapse(r)

ViewSpec == ViewInit /\ [][ViewNext]_viewVars
=============================================================================
