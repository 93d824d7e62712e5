----------------------------- MODULE EffectLedger -----------------------------
(***************************************************************************)
(* The durable effect ledger of packages/durable/src/journal.ts: the table *)
(* `effects` and the in-flight registry of one journal instance, which is  *)
(* the one executor of its database.                                       *)
(*                                                                         *)
(* A call of runEffect takes one step for each of its awaits; its fiber    *)
(* may be interrupted at any of them, a statement may fail, and the        *)
(* process may end.  What the provider did is counted, recorded or not.    *)
(***************************************************************************)
EXTENDS Integers, FiniteSets

CONSTANTS
  Key,      \* effect keys
  Caller,   \* fibers that call runEffect, one call at a time each
  NoOne,    \* no entry of the registry
  MaxRuns   \* bound: how often the provider acts for one key

ASSUME NoOneAssumption == NoOne \notin Caller
ASSUME MaxRunsAssumption == MaxRuns \in Nat

VARIABLES
  effects,  \* per key, its row: a status and, once succeeded, a result
  inFlight, \* per key, the caller whose Deferred the registry holds
  acted,    \* per key, how often the provider acted
  cleared,  \* keys whose record was removed by clearEffect
  phase,    \* per caller, what its call waits for
  wants,    \* per caller, the key of its call
  retries,  \* per caller, whether its call retries a failed record
  answer    \* per caller, how its call ended or is about to end

vars == <<effects, inFlight, acted, cleared, phase, wants, retries, answer>>

Record == [status : {"none", "pending", "failed", "succeeded"}, result : 0..MaxRuns]
Answer == [tag : {"none", "ok", "failed", "refused", "error", "interrupted"},
           result : 0..MaxRuns]

Row(status, result) == [status |-> status, result |-> result]
Ended(tag, result) == [tag |-> tag, result |-> result]
NoRecord == Row("none", 0)
NoAnswer == Ended("none", 0)

\* The phases of the caller that owns the registry's entry of its key; those
\* in which it may still run or write ("amend": a success could not be recorded,
\* and tapError writes a failure); and those of a call that takes no more steps.
Running == {"read", "start", "run", "store", "amend"}
Owning == Running \cup {"settle", "release"}
Phases == Owning \cup {"idle", "wait", "done"}

Init ==
  /\ effects = [k \in Key |-> NoRecord]
  /\ inFlight = [k \in Key |-> NoOne]
  /\ acted = [k \in Key |-> 0]
  /\ cleared = {}
  /\ phase = [c \in Caller |-> "idle"]
  /\ wants \in [Caller -> Key]
  /\ retries = [c \in Caller |-> TRUE]
  /\ answer = [c \in Caller |-> NoAnswer]

\* Mutant of Reserve: whoever finds no record yet runs.
ReserveAlways(c, k) ==
  /\ inFlight' = [inFlight EXCEPT ![k] = c]
  /\ phase' = [phase EXCEPT ![c] = "read"]
  /\ answer' = [answer EXCEPT ![c] = NoAnswer]

\* The check-and-reserve of the registry: the first caller owns the run, later
\* ones wait for its Deferred, which may be resolved by now.
Reserve(c, k) ==
  LET owner == inFlight[k] IN
  \/ /\ owner = NoOne
     /\ inFlight' = [inFlight EXCEPT ![k] = c]
     /\ phase' = [phase EXCEPT ![c] = "read"]
     /\ answer' = [answer EXCEPT ![c] = NoAnswer]
  \/ /\ owner # NoOne
     /\ IF phase[owner] = "release"
        THEN /\ phase' = [phase EXCEPT ![c] = "done"]
             /\ answer' = [answer EXCEPT ![c] = answer[owner]]
        ELSE /\ phase' = [phase EXCEPT ![c] = "wait"]
             /\ answer' = [answer EXCEPT ![c] = NoAnswer]
     /\ UNCHANGED inFlight

\* runEffect is called with a key, and with retryFailed or not.
Call(c, k, retry) ==
  /\ phase[c] \in {"idle", "done"}
  /\ wants' = [wants EXCEPT ![c] = k]
  /\ retries' = [retries EXCEPT ![c] = retry]
  /\ Reserve(c, k)
  /\ UNCHANGED <<effects, acted, cleared>>

\* The call is about to end this way: its exit is known.
Ends(c, tag, result) ==
  /\ phase' = [phase EXCEPT ![c] = "settle"]
  /\ answer' = [answer EXCEPT ![c] = Ended(tag, result)]

Goes(c, next) ==
  /\ phase' = [phase EXCEPT ![c] = next]
  /\ UNCHANGED answer

\* Mutants of Read: a success is run again; the status is answered as it is.
ReadReruns(c) ==
  /\ phase[c] = "read"
  /\ Goes(c, "start")
  /\ UNCHANGED <<effects, inFlight, acted, cleared, wants, retries>>
ReadAnswersStatus(c) ==
  /\ phase[c] = "read"
  /\ \/ effects[wants[c]].status \in {"succeeded", "failed"} /\ Ends(c, effects[wants[c]].status, 0)
     \/ effects[wants[c]].status \in {"none", "pending"} /\ Goes(c, "start")
  /\ UNCHANGED <<effects, inFlight, acted, cleared, wants, retries>>

\* effect(key): a recorded success is the answer, a recorded failure is one
\* unless it is retried, and anything else is run.
Read(c) ==
  LET row == effects[wants[c]]
      refuses == row.status = "failed" /\ ~retries[c]
  IN
  /\ phase[c] = "read"
  /\ \/ row.status = "succeeded" /\ Ends(c, "ok", row.result)
     \/ refuses /\ Ends(c, "refused", 0)
     \/ row.status # "succeeded" /\ ~refuses /\ Goes(c, "start")
  /\ UNCHANGED <<effects, inFlight, acted, cleared, wants, retries>>

\* Mutant of Start: the run starts without a record of it.
StartUnrecorded(c) ==
  /\ phase[c] = "start"
  /\ Goes(c, "run")
  /\ UNCHANGED <<effects, inFlight, acted, cleared, wants, retries>>

\* The row the statement of this phase writes, and the table with it.
RowOf(c) ==
  IF phase[c] = "start" THEN Row("pending", 0)
  ELSE Row(IF answer[c].tag = "ok" THEN "succeeded" ELSE "failed", answer[c].result)
Recorded(c) == [effects EXCEPT ![wants[c]] = RowOf(c)]

\* The pending record is written before the run.
Start(c) ==
  /\ phase[c] = "start"
  /\ effects' = Recorded(c)
  /\ Goes(c, "run")
  /\ UNCHANGED <<inFlight, acted, cleared, wants, retries>>

\* The provider acts and answers, with a result or with a failure.
Run(c) ==
  /\ phase[c] = "run"
  /\ acted[wants[c]] < MaxRuns
  /\ acted' = [acted EXCEPT ![wants[c]] = @ + 1]
  /\ phase' = [phase EXCEPT ![c] = "store"]
  /\ \E tag \in {"ok", "failed"} :
       answer' = [answer EXCEPT ![c] = Ended(tag, IF tag = "ok" THEN acted'[wants[c]] ELSE 0)]
  /\ UNCHANGED <<effects, inFlight, cleared, wants, retries>>

\* The outcome of the run is recorded, and is the call's; or the failure is
\* that stands for a success that could not be.
Store(c) ==
  /\ phase[c] \in {"store", "amend"}
  /\ effects' = Recorded(c)
  /\ Goes(c, "settle")
  /\ UNCHANGED <<inFlight, acted, cleared, wants, retries>>

\* A statement that fails or is abandoned may have been executed.
MaybeRecorded(c) ==
  \/ UNCHANGED effects
  \/ phase[c] \in {"start", "store", "amend"} /\ effects' = Recorded(c)

Succeeded(c) == phase[c] = "store" /\ answer[c].tag = "ok"

\* Mutant of StatementFails: that a success could not be recorded is ignored.
StatementFailsIgnored(c) ==
  /\ phase[c] \in {"read", "start", "store", "amend"}
  /\ IF Succeeded(c) THEN Goes(c, "settle") ELSE Ends(c, "error", 0)
  /\ MaybeRecorded(c)
  /\ UNCHANGED <<inFlight, acted, cleared, wants, retries>>

\* A statement of the ledger fails with a JournalError before the run or after
\* it, and so does the call, whatever the run did. tapError sees the error of
\* recording a success too, and goes on to record a failure.
StatementFails(c) ==
  /\ phase[c] \in {"read", "start", "store", "amend"}
  /\ phase' = [phase EXCEPT ![c] = IF Succeeded(c) THEN "amend" ELSE "settle"]
  /\ answer' = [answer EXCEPT ![c] = Ended("error", 0)]
  /\ MaybeRecorded(c)
  /\ UNCHANGED <<inFlight, acted, cleared, wants, retries>>

\* The fiber is interrupted; the provider may have acted all the same.
Interrupt(c) ==
  /\ phase[c] \in Running
  /\ Ends(c, "interrupted", 0)
  /\ \/ UNCHANGED acted
     \/ /\ phase[c] = "run"
        /\ acted[wants[c]] < MaxRuns
        /\ acted' = [acted EXCEPT ![wants[c]] = @ + 1]
  /\ MaybeRecorded(c)
  /\ UNCHANGED <<inFlight, cleared, wants, retries>>

\* A caller that waits for another's run is interrupted alone.
InterruptWaiting(c) ==
  /\ phase[c] = "wait"
  /\ phase' = [phase EXCEPT ![c] = "done"]
  /\ answer' = [answer EXCEPT ![c] = Ended("interrupted", 0)]
  /\ UNCHANGED <<effects, inFlight, acted, cleared, wants, retries>>

Waiting(k) == {d \in Caller : phase[d] = "wait" /\ wants[d] = k}

\* Mutant of Settle: only a success resolves the Deferred.
SettleSuccess(c) ==
  /\ phase[c] = "settle"
  /\ phase' = [d \in Caller |->
       IF d = c THEN "release"
       ELSE IF d \in Waiting(wants[c]) /\ answer[c].tag = "ok" THEN "done" ELSE phase[d]]
  /\ answer' = [d \in Caller |->
       IF d \in Waiting(wants[c]) /\ answer[c].tag = "ok" THEN answer[c] ELSE answer[d]]
  /\ UNCHANGED <<effects, inFlight, acted, cleared, wants, retries>>

\* onExit: the Deferred is resolved, whatever the exit, and every caller that
\* waits for it ends the same way.
Settle(c) ==
  /\ phase[c] = "settle"
  /\ phase' = [d \in Caller |->
       IF d = c THEN "release" ELSE IF d \in Waiting(wants[c]) THEN "done" ELSE phase[d]]
  /\ answer' = [d \in Caller |-> IF d \in Waiting(wants[c]) THEN answer[c] ELSE answer[d]]
  /\ UNCHANGED <<effects, inFlight, acted, cleared, wants, retries>>

\* ensuring: the registry's entry goes.
Release(c) ==
  /\ phase[c] = "release"
  /\ phase' = [phase EXCEPT ![c] = "done"]
  /\ inFlight' = [inFlight EXCEPT ![wants[c]] = NoOne]
  /\ UNCHANGED <<effects, acted, cleared, wants, retries, answer>>

\* clearEffect: the record goes, a run of its key in progress or not.
Clear(k) ==
  /\ effects' = [effects EXCEPT ![k] = NoRecord]
  /\ cleared' = cleared \cup {k}
  /\ UNCHANGED <<inFlight, acted, phase, wants, retries, answer>>

\* The process ends and another opens the database: its calls and its registry
\* are gone, and of the runs in progress the provider may have acted on some.
Crash ==
  /\ phase' = [c \in Caller |-> "idle"]
  /\ inFlight' = [k \in Key |-> NoOne]
  /\ answer' = [c \in Caller |-> NoAnswer]
  /\ \E acting \in SUBSET {k \in Key : acted[k] < MaxRuns /\
                             \E c \in Caller : phase[c] = "run" /\ wants[c] = k} :
       acted' = [k \in Key |-> IF k \in acting THEN acted[k] + 1 ELSE acted[k]]
  /\ UNCHANGED <<effects, cleared, wants, retries>>

Step(c) ==
  \/ Read(c) \/ Start(c) \/ Run(c) \/ Store(c)
  \/ StatementFails(c) \/ Settle(c) \/ Release(c)

Next ==
  \/ \E c \in Caller : Step(c) \/ Interrupt(c) \/ InterruptWaiting(c)
  \/ \E c \in Caller, k \in Key, retry \in BOOLEAN : Call(c, k, retry)
  \/ \E k \in Key : Clear(k)
  \/ Crash

Spec == Init /\ [][Next]_vars

\* Every step of a call is taken in the end, a run that ends or is interrupted
\* being one; the bound on the provider leaves a run to its interruption.
Fairness == \A c \in Caller : WF_vars(Step(c) \/ Interrupt(c))

FairSpec == Spec /\ Fairness

-----------------------------------------------------------------------------
(* What must hold of it.                                                   *)

\* Every variable holds what its table or map can hold.
TypeOK ==
  /\ effects \in [Key -> Record]
  /\ inFlight \in [Key -> Caller \cup {NoOne}]
  /\ acted \in [Key -> 0..MaxRuns]
  /\ cleared \subseteq Key
  /\ phase \in [Caller -> Phases]
  /\ wants \in [Caller -> Key]
  /\ retries \in [Caller -> BOOLEAN]
  /\ answer \in [Caller -> Answer]

\* The registry names the one caller that runs a key, so two runs of a key are
\* never in progress, and a caller waits only while there is one to wait for.
OneRunner ==
  /\ \A c \in Caller : phase[c] \in Owning => inFlight[wants[c]] = c
  /\ \A k \in Key : inFlight[k] # NoOne =>
       phase[inFlight[k]] \in Owning /\ wants[inFlight[k]] = k
  /\ \A c \in Caller : phase[c] = "wait" =>
       inFlight[wants[c]] # NoOne /\ phase[inFlight[wants[c]]] # "release"

\* "succeeded: runEffect reuses it without contacting the provider": while a
\* success is recorded no run of its key is in progress, nor starts.
SuccessNotRerun ==
  \A c \in Caller :
    phase[c] \in {"start", "run", "store"} => effects[wants[c]].status # "succeeded"

\* The same of the steps: while a success is recorded the provider does not
\* act, and no start, failure or interruption of another call overwrites the
\* record. clearEffect removes it, and the one run that wrote it may still
\* replace it, when it was told that it had failed to.
SuccessNotRepeated ==
  [][\A k \in Key : effects[k].status = "succeeded" =>
       /\ acted'[k] = acted[k]
       /\ \/ effects'[k] \in {effects[k], NoRecord}
          \/ \E c \in Caller : phase[c] = "amend" /\ wants[c] = k /\ effects'[k] = RowOf(c)]_vars

\* "none: no run was recorded": the provider never acted for a key without a
\* record that was not cleared, so recovery sees every uncertain outcome, after
\* a crash, an interruption or a statement that failed.
ActedIsRecorded ==
  \A k \in Key : acted[k] > 0 => effects[k].status # "none" \/ k \in cleared

\* A success that any caller was answered is the recorded one, whoever ran it:
\* no later start, failure or interruption took it back.
SuccessStands ==
  \A c \in Caller : answer[c].tag = "ok" /\ phase[c] \in {"settle", "release", "done"} =>
    effects[wants[c]] = Row("succeeded", answer[c].result) \/ wants[c] \in cleared

\* What makes these inductive: a run in progress has its record, or had one
\* that was cleared.
RunsAreRecorded ==
  \A c \in Caller :
    phase[c] \in {"run", "store", "amend"} => effects[wants[c]].status # "none" \/ wants[c] \in cleared

\* A success whose recording failed was answered to nobody when the failure
\* takes its place.
AmendsUnanswered ==
  \A c, d \in Caller :
    /\ phase[c] = "amend" /\ wants[d] = wants[c]
    /\ answer[d].tag = "ok" /\ phase[d] \in {"settle", "release", "done"}
    => wants[c] \in cleared

\* The inductive invariant: one runner per key, its record written before it
\* runs and never over a success that was answered.
IInv ==
  /\ TypeOK
  /\ OneRunner
  /\ SuccessNotRerun
  /\ RunsAreRecorded
  /\ ActedIsRecorded
  /\ SuccessStands
  /\ AmendsUnanswered

\* Every call ends, the ones that wait for another's run included: it failed,
\* was interrupted or died, and the registry's entry goes each time.
CallsEnd == \A c \in Caller : phase[c] \notin {"idle", "done"} ~> phase[c] \in {"idle", "done"}
=============================================================================
