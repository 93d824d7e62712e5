-------------------------- MODULE EffectLedgerProofs --------------------------
(***************************************************************************)
(* The effect ledger keeps its inductive invariant, and never runs again   *)
(* what it recorded a success of, for any number of keys and callers.      *)
(***************************************************************************)
EXTENDS EffectLedger, TLAPS

\* An empty ledger satisfies the invariant.
LEMMA InitKeeps == Init => IInv
  BY MaxRunsAssumption, NoOneAssumption
     DEF Init, IInv, TypeOK, OneRunner, SuccessNotRerun, RunsAreRecorded,
         ActedIsRecorded, SuccessStands, AmendsUnanswered, Phases, Owning, Running, Record,
         Answer, Row, Ended, NoRecord, NoAnswer

-----------------------------------------------------------------------------
(* One lemma for each action.                                              *)

\* A call reserves its key, or joins the one that holds it.
LEMMA CallKeeps ==
  ASSUME IInv, NEW c \in Caller, NEW k \in Key, NEW retry \in BOOLEAN, Call(c, k, retry)
  PROVE  IInv'
  <1> USE DEF IInv
  <1>1. TypeOK'
    <2>1. inFlight[k] \in Caller \cup {NoOne}
      BY DEF TypeOK
    <2>2. answer' \in [Caller -> Answer]
      <3>1. NoAnswer \in Answer
        BY MaxRunsAssumption DEF NoAnswer, Ended, Answer
      <3>2. inFlight[k] # NoOne => answer[inFlight[k]] \in Answer
        BY <2>1 DEF TypeOK
      <3> QED
        BY <3>1, <3>2 DEF TypeOK, Call, Reserve
    <2>3. phase' \in [Caller -> Phases] /\ inFlight' \in [Key -> Caller \cup {NoOne}]
      BY DEF TypeOK, Call, Reserve, Phases, Owning, Running
    <2> QED
      BY <2>2, <2>3 DEF TypeOK, Call
  <1>2. OneRunner'
    BY NoOneAssumption DEF TypeOK, OneRunner, Call, Reserve, Owning, Running
  <1>3. SuccessNotRerun'
    BY DEF TypeOK, SuccessNotRerun, Call, Reserve, Row, NoRecord, Running
  <1>4. RunsAreRecorded'
    BY DEF TypeOK, RunsAreRecorded, Call, Reserve, Row, NoRecord, Running
  <1>5. ActedIsRecorded'
    BY DEF TypeOK, ActedIsRecorded, Call, Reserve, Row, NoRecord, Running
  <1>6. SuccessStands'
    BY NoOneAssumption DEF TypeOK, SuccessStands, OneRunner, Call, Reserve,
           Row, Ended, NoRecord, NoAnswer, Running, Owning
  <1>7. AmendsUnanswered'
    BY NoOneAssumption DEF TypeOK, AmendsUnanswered, OneRunner, SuccessNotRerun,
           SuccessStands, Call, Reserve, Row, Ended, NoAnswer, Running, Owning
  <1> QED
    BY <1>1, <1>2, <1>3, <1>4, <1>5, <1>6, <1>7

\* Reading a record decides whether to run, and writes nothing.
LEMMA ReadKeeps ==
  ASSUME IInv, NEW c \in Caller, Read(c)
  PROVE  IInv'
  <1> USE DEF IInv
  <1>1. TypeOK'
    <2>1. effects[wants[c]].result \in 0..MaxRuns
      BY DEF TypeOK, Record
    <2>2. answer' \in [Caller -> Answer]
      BY <2>1, MaxRunsAssumption DEF TypeOK, Read, Ends, Goes, Ended, Answer
    <2> QED
      BY <2>2 DEF TypeOK, Read, Ends, Goes, Phases, Owning, Running
  <1>2. OneRunner'
    BY NoOneAssumption DEF TypeOK, OneRunner, Read, Ends, Goes, Owning,
           Running
  <1>3. SuccessNotRerun'
    BY DEF TypeOK, SuccessNotRerun, Read, Ends, Goes, Row, NoRecord, Running
  <1>4. RunsAreRecorded'
    BY DEF TypeOK, RunsAreRecorded, Read, Ends, Goes, Row, NoRecord, Running
  <1>5. ActedIsRecorded'
    BY DEF TypeOK, ActedIsRecorded, Read, Ends, Goes, Row, NoRecord, Running
  <1>6. SuccessStands'
    <2>1. CASE effects[wants[c]].status = "succeeded"
      <3>1. effects[wants[c]] = Row("succeeded", effects[wants[c]].result)
        BY <2>1 DEF TypeOK, Record, Row
      <3> QED
        BY <2>1, <3>1 DEF TypeOK, SuccessStands, Read, Ends, Goes, Ended
    <2>2. CASE effects[wants[c]].status # "succeeded"
      BY <2>2 DEF TypeOK, SuccessStands, Read, Ends, Goes, Ended
    <2> QED
      BY <2>1, <2>2
  <1>7. AmendsUnanswered'
    BY NoOneAssumption DEF TypeOK, AmendsUnanswered, OneRunner, SuccessNotRerun,
           SuccessStands, Read, Ends, Goes, Row, Ended, NoAnswer, Running, Owning
  <1> QED
    BY <1>1, <1>2, <1>3, <1>4, <1>5, <1>6, <1>7

\* The pending record is written over no success: its key has one runner.
LEMMA StartKeeps ==
  ASSUME IInv, NEW c \in Caller, Start(c)
  PROVE  IInv'
  <1> USE DEF IInv
  <1>1. TypeOK'
    BY MaxRunsAssumption DEF TypeOK, Start, Recorded, RowOf, Goes, Phases,
           Owning, Running, Record, Answer, Row, Ended, NoRecord, NoAnswer
  <1>2. OneRunner'
    BY NoOneAssumption DEF TypeOK, OneRunner, Start, Recorded, RowOf, Goes,
           Owning, Running
  <1>3. SuccessNotRerun'
    BY DEF TypeOK, SuccessNotRerun, Start, Recorded, RowOf, Goes, Row,
           NoRecord, Running
  <1>4. RunsAreRecorded'
    BY DEF TypeOK, RunsAreRecorded, Start, Recorded, RowOf, Goes, Row,
           NoRecord, Running
  <1>5. ActedIsRecorded'
    BY DEF TypeOK, ActedIsRecorded, Start, Recorded, RowOf, Goes, Row,
           NoRecord, Running
  <1>6. SuccessStands'
    BY NoOneAssumption DEF TypeOK, SuccessStands, OneRunner,
           SuccessNotRerun, Start, Recorded, RowOf, Goes, Row, Ended,
           NoRecord, NoAnswer, Running, Owning
  <1>7. AmendsUnanswered'
    BY NoOneAssumption DEF TypeOK, AmendsUnanswered, OneRunner, SuccessNotRerun,
           SuccessStands, Start, Recorded, RowOf, Goes, Row, Ended, NoAnswer, Running, Owning
  <1> QED
    BY <1>1, <1>2, <1>3, <1>4, <1>5, <1>6, <1>7

\* The provider acts with the record of it written.
LEMMA RunKeeps ==
  ASSUME IInv, NEW c \in Caller, Run(c)
  PROVE  IInv'
  <1> USE DEF IInv
  <1>1. TypeOK'
    BY MaxRunsAssumption DEF TypeOK, Run, Phases, Owning, Running, Record,
           Answer, Row, Ended, NoRecord, NoAnswer
  <1>2. OneRunner'
    BY NoOneAssumption DEF TypeOK, OneRunner, Run, Owning, Running
  <1>3. SuccessNotRerun'
    BY DEF TypeOK, SuccessNotRerun, Run, Row, NoRecord, Running
  <1>4. RunsAreRecorded'
    BY DEF TypeOK, RunsAreRecorded, Run, Row, NoRecord, Running
  <1>5. ActedIsRecorded'
    BY DEF TypeOK, ActedIsRecorded, RunsAreRecorded, Run, Row, NoRecord,
           Running
  <1>6. SuccessStands'
    BY DEF TypeOK, SuccessStands, Run, Row, Ended, NoRecord, NoAnswer,
           Running
  <1>7. AmendsUnanswered'
    BY NoOneAssumption DEF TypeOK, AmendsUnanswered, OneRunner, SuccessNotRerun,
           SuccessStands, Run, Row, Ended, NoAnswer, Running, Owning
  <1> QED
    BY <1>1, <1>2, <1>3, <1>4, <1>5, <1>6, <1>7

\* An outcome replaces the record of its own run only.
LEMMA StoreKeeps ==
  ASSUME IInv, NEW c \in Caller, Store(c)
  PROVE  IInv'
  <1> USE DEF IInv
  <1>1. TypeOK'
    BY MaxRunsAssumption DEF TypeOK, Store, Recorded, RowOf, Goes, Phases,
           Owning, Running, Record, Answer, Row, Ended, NoRecord, NoAnswer
  <1>2. OneRunner'
    BY NoOneAssumption DEF TypeOK, OneRunner, Store, Recorded, RowOf, Goes,
           Owning, Running
  <1>3. SuccessNotRerun'
    BY NoOneAssumption DEF TypeOK, SuccessNotRerun, OneRunner, Store,
           Recorded, RowOf, Goes, Row, NoRecord, Running, Owning
  <1>4. RunsAreRecorded'
    BY DEF TypeOK, RunsAreRecorded, Store, Recorded, RowOf, Goes, Row,
           NoRecord, Running
  <1>5. ActedIsRecorded'
    BY DEF TypeOK, ActedIsRecorded, Store, Recorded, RowOf, Goes, Row,
           NoRecord, Running
  <1>6. SuccessStands'
    <2> SUFFICES ASSUME NEW d \in Caller, answer'[d].tag = "ok",
                        phase'[d] \in {"settle", "release", "done"}, wants[d] \notin cleared
                 PROVE  effects'[wants[d]] = Row("succeeded", answer'[d].result)
      BY DEF SuccessStands, Store
    <2>1. answer' = answer /\ effects'[wants[c]] = RowOf(c)
      BY DEF TypeOK, Store, Recorded, Goes
    <2>2. CASE d = c
      BY <2>1, <2>2 DEF Store, RowOf, Row
    <2>3. CASE d # c
      <3>1. phase[d] \in {"settle", "release", "done"} /\ answer[d].tag = "ok"
        BY <2>1, <2>3 DEF TypeOK, Store, Goes
      <3>2. effects[wants[d]] = Row("succeeded", answer[d].result)
        BY <3>1 DEF SuccessStands
      <3>3. wants[d] # wants[c]
        BY <3>1, <3>2 DEF SuccessNotRerun, AmendsUnanswered, Store, Row
      <3> QED
        BY <2>1, <3>2, <3>3 DEF TypeOK, Store, Recorded
    <2> QED
      BY <2>2, <2>3
  <1>7. AmendsUnanswered'
    BY NoOneAssumption DEF TypeOK, AmendsUnanswered, OneRunner, SuccessNotRerun,
           SuccessStands, Store, Recorded, RowOf, Goes, Row, Ended, NoAnswer, Running, Owning
  <1> QED
    BY <1>1, <1>2, <1>3, <1>4, <1>5, <1>6, <1>7

\* A failed statement, executed or not, leaves what an abandoned run leaves.
LEMMA StatementFailsKeeps ==
  ASSUME IInv, NEW c \in Caller, StatementFails(c)
  PROVE  IInv'
  <1> USE DEF IInv
  <1>1. TypeOK'
    BY MaxRunsAssumption DEF TypeOK, StatementFails, Succeeded, MaybeRecorded,
           Recorded, RowOf, Phases, Owning, Running, Record, Answer,
           Row, Ended, NoRecord, NoAnswer
  <1>2. OneRunner'
    BY NoOneAssumption DEF TypeOK, OneRunner, StatementFails, Succeeded, MaybeRecorded,
           Recorded, RowOf, Owning, Running
  <1>3. SuccessNotRerun'
    BY NoOneAssumption DEF TypeOK, SuccessNotRerun, OneRunner,
           StatementFails, Succeeded, MaybeRecorded, Recorded, RowOf, Row,
           NoRecord, Running, Owning
  <1>4. RunsAreRecorded'
    BY DEF TypeOK, RunsAreRecorded, StatementFails, Succeeded, MaybeRecorded, Recorded,
           RowOf, Row, NoRecord, Running
  <1>5. ActedIsRecorded'
    BY DEF TypeOK, ActedIsRecorded, StatementFails, Succeeded, MaybeRecorded, Recorded,
           RowOf, Row, NoRecord, Running
  <1>6. SuccessStands'
    <2> SUFFICES ASSUME NEW d \in Caller, answer'[d].tag = "ok",
                        phase'[d] \in {"settle", "release", "done"}, wants[d] \notin cleared
                 PROVE  effects'[wants[d]] = Row("succeeded", answer'[d].result)
      BY DEF SuccessStands, StatementFails
    <2>1. d # c
      BY DEF TypeOK, StatementFails, Ended
    <2>2. phase[d] \in {"settle", "release", "done"} /\ answer'[d] = answer[d]
      BY <2>1 DEF TypeOK, StatementFails
    <2>3. effects[wants[d]] = Row("succeeded", answer[d].result)
      BY <2>2 DEF SuccessStands
    <2>4. phase[c] \in {"start", "store", "amend"} => wants[d] # wants[c]
      BY <2>2, <2>3 DEF SuccessNotRerun, AmendsUnanswered, Row
    <2>5. effects'[wants[d]] = effects[wants[d]]
      BY <2>4 DEF TypeOK, StatementFails, MaybeRecorded, Recorded
    <2> QED
      BY <2>2, <2>3, <2>5
  <1>7. AmendsUnanswered'
    <2> SUFFICES ASSUME NEW a \in Caller, NEW d \in Caller,
                        phase'[a] = "amend", wants[d] = wants[a], answer'[d].tag = "ok",
                        phase'[d] \in {"settle", "release", "done"}
                 PROVE  wants[a] \in cleared
      BY DEF AmendsUnanswered, StatementFails
    <2>1. d # c
      BY DEF TypeOK, StatementFails, Ended
    <2>2. phase[d] \in {"settle", "release", "done"} /\ answer[d].tag = "ok"
      BY <2>1 DEF TypeOK, StatementFails
    <2>3. CASE a = c
      <3>1. phase[c] = "store"
        BY <2>3 DEF TypeOK, StatementFails, Succeeded
      <3>2. effects[wants[d]].status # "succeeded"
        BY <2>3, <3>1 DEF SuccessNotRerun
      <3>3. \/ effects[wants[d]] = Row("succeeded", answer[d].result)
            \/ wants[d] \in cleared
        BY <2>2 DEF SuccessStands
      <3>4. Row("succeeded", answer[d].result).status = "succeeded"
        BY DEF Row
      <3>5. wants[d] \in cleared
        BY <3>2, <3>3, <3>4
      <3> QED
        BY <3>5
    <2>4. CASE a # c
      <3>1. phase[a] = "amend"
        BY <2>4 DEF TypeOK, StatementFails
      <3> QED
        BY <2>2, <3>1 DEF AmendsUnanswered
    <2> QED
      BY <2>3, <2>4
  <1> QED
    BY <1>1, <1>2, <1>3, <1>4, <1>5, <1>6, <1>7

\* So does an interruption, the provider having acted or not.
LEMMA InterruptKeeps ==
  ASSUME IInv, NEW c \in Caller, Interrupt(c)
  PROVE  IInv'
  <1> USE DEF IInv
  <1>1. TypeOK'
    <2>1. answer[c].result \in 0..MaxRuns
      BY DEF TypeOK, Answer
    <2>2. effects' \in [Key -> Record]
      BY <2>1, MaxRunsAssumption DEF TypeOK, Interrupt, MaybeRecorded, Recorded, RowOf, Row, Record
    <2>3. answer' \in [Caller -> Answer] /\ phase' \in [Caller -> Phases]
      BY MaxRunsAssumption DEF TypeOK, Interrupt, Ends, Ended, Answer, Phases, Owning
    <2>4. acted' \in [Key -> 0..MaxRuns]
      BY MaxRunsAssumption DEF TypeOK, Interrupt
    <2> QED
      BY <2>2, <2>3, <2>4 DEF TypeOK, Interrupt
  <1>2. OneRunner'
    BY NoOneAssumption DEF TypeOK, OneRunner, Interrupt, MaybeRecorded,
           Recorded, RowOf, Ends, Owning, Running
  <1>3. SuccessNotRerun'
    BY NoOneAssumption DEF TypeOK, SuccessNotRerun, OneRunner, Interrupt,
           MaybeRecorded, Recorded, RowOf, Ends, Row, NoRecord, Running,
           Owning
  <1>4. RunsAreRecorded'
    BY DEF TypeOK, RunsAreRecorded, Interrupt, MaybeRecorded, Recorded,
           RowOf, Ends, Row, NoRecord, Running
  <1>5. ActedIsRecorded'
    BY DEF TypeOK, ActedIsRecorded, RunsAreRecorded, Interrupt,
           MaybeRecorded, Recorded, RowOf, Ends, Row, NoRecord, Running
  <1>6. SuccessStands'
    <2> SUFFICES ASSUME NEW d \in Caller, answer'[d].tag = "ok",
                        phase'[d] \in {"settle", "release", "done"}, wants[d] \notin cleared
                 PROVE  effects'[wants[d]] = Row("succeeded", answer'[d].result)
      BY DEF SuccessStands, Interrupt
    <2>1. d # c
      BY DEF TypeOK, Interrupt, Ends, Ended
    <2>2. phase[d] \in {"settle", "release", "done"} /\ answer'[d] = answer[d]
      BY <2>1 DEF TypeOK, Interrupt, Ends
    <2>3. effects[wants[d]] = Row("succeeded", answer[d].result)
      BY <2>2 DEF SuccessStands
    <2>4. phase[c] \in {"start", "store", "amend"} => wants[d] # wants[c]
      BY <2>2, <2>3 DEF SuccessNotRerun, AmendsUnanswered, Row
    <2>5. effects'[wants[d]] = effects[wants[d]]
      BY <2>4 DEF TypeOK, Interrupt, MaybeRecorded, Recorded
    <2> QED
      BY <2>2, <2>3, <2>5
  <1>7. AmendsUnanswered'
    BY NoOneAssumption DEF TypeOK, AmendsUnanswered, OneRunner, SuccessNotRerun,
           SuccessStands, Interrupt, MaybeRecorded, Recorded, RowOf, Ends, Row, Ended, NoAnswer, Running, Owning
  <1> QED
    BY <1>1, <1>2, <1>3, <1>4, <1>5, <1>6, <1>7

\* A waiting caller goes without disturbing the run.
LEMMA InterruptWaitingKeeps ==
  ASSUME IInv, NEW c \in Caller, InterruptWaiting(c)
  PROVE  IInv'
  <1> USE DEF IInv
  <1>1. TypeOK'
    BY MaxRunsAssumption DEF TypeOK, InterruptWaiting, Phases, Owning,
           Running, Record, Answer, Row, Ended, NoRecord, NoAnswer
  <1>2. OneRunner'
    BY NoOneAssumption DEF TypeOK, OneRunner, InterruptWaiting, Owning,
           Running
  <1>3. SuccessNotRerun'
    BY DEF TypeOK, SuccessNotRerun, InterruptWaiting, Row, NoRecord, Running
  <1>4. RunsAreRecorded'
    BY DEF TypeOK, RunsAreRecorded, InterruptWaiting, Row, NoRecord, Running
  <1>5. ActedIsRecorded'
    BY DEF TypeOK, ActedIsRecorded, InterruptWaiting, Row, NoRecord, Running
  <1>6. SuccessStands'
    BY DEF TypeOK, SuccessStands, InterruptWaiting, Row, Ended, NoRecord,
           NoAnswer, Running
  <1>7. AmendsUnanswered'
    BY NoOneAssumption DEF TypeOK, AmendsUnanswered, OneRunner, SuccessNotRerun,
           SuccessStands, InterruptWaiting, Row, Ended, NoAnswer, Running, Owning
  <1> QED
    BY <1>1, <1>2, <1>3, <1>4, <1>5, <1>6, <1>7

\* Whoever waits is answered what the runner is.
LEMMA SettleKeeps ==
  ASSUME IInv, NEW c \in Caller, Settle(c)
  PROVE  IInv'
  <1> USE DEF IInv
  <1>1. TypeOK'
    BY MaxRunsAssumption DEF TypeOK, Settle, Waiting, Phases, Owning,
           Running, Record, Answer, Row, Ended, NoRecord, NoAnswer
  <1>2. OneRunner'
    BY NoOneAssumption DEF TypeOK, OneRunner, Settle, Waiting, Owning,
           Running
  <1>3. SuccessNotRerun'
    BY DEF TypeOK, SuccessNotRerun, Settle, Waiting, Row, NoRecord, Running
  <1>4. RunsAreRecorded'
    BY DEF TypeOK, RunsAreRecorded, Settle, Waiting, Row, NoRecord, Running
  <1>5. ActedIsRecorded'
    BY DEF TypeOK, ActedIsRecorded, Settle, Waiting, Row, NoRecord, Running
  <1>6. SuccessStands'
    BY DEF TypeOK, SuccessStands, Settle, Waiting, Row, Ended, NoRecord,
           NoAnswer, Running
  <1>7. AmendsUnanswered'
    BY NoOneAssumption DEF TypeOK, AmendsUnanswered, OneRunner, SuccessNotRerun,
           SuccessStands, Settle, Waiting, Row, Ended, NoAnswer, Running, Owning
  <1> QED
    BY <1>1, <1>2, <1>3, <1>4, <1>5, <1>6, <1>7

\* The registry's entry goes once nobody waits on it.
LEMMA ReleaseKeeps ==
  ASSUME IInv, NEW c \in Caller, Release(c)
  PROVE  IInv'
  <1> USE DEF IInv
  <1>1. TypeOK'
    BY MaxRunsAssumption DEF TypeOK, Release, Phases, Owning, Running,
           Record, Answer, Row, Ended, NoRecord, NoAnswer
  <1>2. OneRunner'
    BY NoOneAssumption DEF TypeOK, OneRunner, Release, Owning, Running
  <1>3. SuccessNotRerun'
    BY DEF TypeOK, SuccessNotRerun, Release, Row, NoRecord, Running
  <1>4. RunsAreRecorded'
    BY DEF TypeOK, RunsAreRecorded, Release, Row, NoRecord, Running
  <1>5. ActedIsRecorded'
    BY DEF TypeOK, ActedIsRecorded, Release, Row, NoRecord, Running
  <1>6. SuccessStands'
    BY DEF TypeOK, SuccessStands, Release, Row, Ended, NoRecord, NoAnswer,
           Running
  <1>7. AmendsUnanswered'
    BY NoOneAssumption DEF TypeOK, AmendsUnanswered, OneRunner, SuccessNotRerun,
           SuccessStands, Release, Row, Ended, NoAnswer, Running, Owning
  <1> QED
    BY <1>1, <1>2, <1>3, <1>4, <1>5, <1>6, <1>7

\* A cleared record is remembered as cleared.
LEMMA ClearKeeps ==
  ASSUME IInv, NEW k \in Key, Clear(k)
  PROVE  IInv'
  <1> USE DEF IInv
  <1>1. TypeOK'
    BY MaxRunsAssumption DEF TypeOK, Clear, Phases, Owning, Running, Record,
           Answer, Row, Ended, NoRecord, NoAnswer
  <1>2. OneRunner'
    BY NoOneAssumption DEF TypeOK, OneRunner, Clear, Owning, Running
  <1>3. SuccessNotRerun'
    BY DEF TypeOK, SuccessNotRerun, Clear, Row, NoRecord, Running
  <1>4. RunsAreRecorded'
    BY DEF TypeOK, RunsAreRecorded, Clear, Row, NoRecord, Running
  <1>5. ActedIsRecorded'
    BY DEF TypeOK, ActedIsRecorded, Clear, Row, NoRecord, Running
  <1>6. SuccessStands'
    BY DEF TypeOK, SuccessStands, Clear, Row, Ended, NoRecord, NoAnswer,
           Running
  <1>7. AmendsUnanswered'
    BY NoOneAssumption DEF TypeOK, AmendsUnanswered, OneRunner, SuccessNotRerun,
           SuccessStands, Clear, Row, Ended, NoAnswer, Running, Owning
  <1> QED
    BY <1>1, <1>2, <1>3, <1>4, <1>5, <1>6, <1>7

\* A crash leaves the records as they are, and no runner.
LEMMA CrashKeeps ==
  ASSUME IInv, Crash
  PROVE  IInv'
  <1> USE DEF IInv
  <1>1. TypeOK'
    BY MaxRunsAssumption DEF TypeOK, Crash, Phases, Owning, Running, Record,
           Answer, Row, Ended, NoRecord, NoAnswer
  <1>2. OneRunner'
    BY NoOneAssumption DEF TypeOK, OneRunner, Crash, Owning, Running
  <1>3. SuccessNotRerun'
    BY DEF TypeOK, SuccessNotRerun, Crash, Row, NoRecord, Running
  <1>4. RunsAreRecorded'
    BY DEF TypeOK, RunsAreRecorded, Crash, Row, NoRecord, Running
  <1>5. ActedIsRecorded'
    BY DEF TypeOK, ActedIsRecorded, RunsAreRecorded, Crash, Row, NoRecord,
           Running
  <1>6. SuccessStands'
    BY DEF TypeOK, SuccessStands, Crash, Row, Ended, NoRecord, NoAnswer,
           Running
  <1>7. AmendsUnanswered'
    BY NoOneAssumption DEF TypeOK, AmendsUnanswered, OneRunner, SuccessNotRerun,
           SuccessStands, Crash, Row, Ended, NoAnswer, Running, Owning
  <1> QED
    BY <1>1, <1>2, <1>3, <1>4, <1>5, <1>6, <1>7

-----------------------------------------------------------------------------
(* The theorems.                                                           *)

\* One runner per key, its record written before it runs and never over a
\* success: the invariant of runEffect, clearEffect and crashes.
THEOREM LedgerIInv == Spec => []IInv
  <1>1. Init => IInv
    BY InitKeeps
  <1>2. IInv /\ [Next]_vars => IInv'
    <2> SUFFICES ASSUME IInv, [Next]_vars
                 PROVE  IInv'
      OBVIOUS
    <2>1. ASSUME NEW c \in Caller, Step(c)
          PROVE  IInv'
      BY <2>1, ReadKeeps, StartKeeps, RunKeeps, StoreKeeps, StatementFailsKeeps,
         SettleKeeps, ReleaseKeeps DEF Step
    <2>2. ASSUME NEW c \in Caller, Interrupt(c) \/ InterruptWaiting(c)
          PROVE  IInv'
      BY <2>2, InterruptKeeps, InterruptWaitingKeeps
    <2>3. ASSUME NEW c \in Caller, NEW k \in Key, NEW retry \in BOOLEAN, Call(c, k, retry)
          PROVE  IInv'
      BY <2>3, CallKeeps
    <2>4. ASSUME NEW k \in Key, Clear(k)
          PROVE  IInv'
      BY <2>4, ClearKeeps
    <2>5. CASE Crash
      BY <2>5, CrashKeeps
    <2>6. CASE UNCHANGED vars
      BY <2>6 DEF vars, IInv, TypeOK, OneRunner, SuccessNotRerun, RunsAreRecorded,
                  ActedIsRecorded, SuccessStands, AmendsUnanswered
    <2> QED
      BY <2>1, <2>2, <2>3, <2>4, <2>5, <2>6 DEF Next
  <1> QED
    BY <1>1, <1>2, PTL DEF Spec

\* Records, answers and the registry keep their types.
THEOREM LedgerTypeOK == Spec => []TypeOK
  <1>1. IInv => TypeOK
    BY DEF IInv
  <1> QED
    BY <1>1, LedgerIInv, PTL

\* Two runs of one key are never in progress in one instance, and no caller
\* waits for a run that is over.
THEOREM LedgerHasOneRunner == Spec => []OneRunner
  <1>1. IInv => OneRunner
    BY DEF IInv
  <1> QED
    BY <1>1, LedgerIInv, PTL

\* Whatever the provider did has a record, unless it was cleared.
THEOREM LedgerRecordsActs == Spec => []ActedIsRecorded
  <1>1. IInv => ActedIsRecorded
    BY DEF IInv
  <1> QED
    BY <1>1, LedgerIInv, PTL

\* A success that was answered stays the recorded one until it is cleared.
THEOREM LedgerSuccessStands == Spec => []SuccessStands
  <1>1. IInv => SuccessStands
    BY DEF IInv
  <1> QED
    BY <1>1, LedgerIInv, PTL

\* The provider is never contacted for a recorded success, and nothing overwrites
\* it but the failure that its own run records when told that it was not.
THEOREM LedgerNeverRepeats == Spec => SuccessNotRepeated
  <1>1. IInv /\ [Next]_vars =>
          [\A k \in Key : effects[k].status = "succeeded" =>
             /\ acted'[k] = acted[k]
             /\ \/ effects'[k] \in {effects[k], NoRecord}
                \/ \E c \in Caller : phase[c] = "amend" /\ wants[c] = k /\ effects'[k] = RowOf(c)]_vars
    <2> SUFFICES ASSUME IInv, Next, NEW k \in Key, effects[k].status = "succeeded"
                 PROVE  /\ acted'[k] = acted[k]
                        /\ \/ effects'[k] \in {effects[k], NoRecord}
                           \/ \E c \in Caller :
                                phase[c] = "amend" /\ wants[c] = k /\ effects'[k] = RowOf(c)
      OBVIOUS
    <2> USE DEF IInv
    <2>1. acted'[k] = acted[k]
      <3>1. ASSUME NEW c \in Caller, Run(c)
            PROVE  acted'[k] = acted[k]
        BY <3>1 DEF TypeOK, SuccessNotRerun, Run
      <3>2. ASSUME NEW c \in Caller, Interrupt(c)
            PROVE  acted'[k] = acted[k]
        BY <3>2 DEF TypeOK, SuccessNotRerun, Interrupt
      <3>3. CASE Crash
        BY <3>3 DEF TypeOK, SuccessNotRerun, Crash
      <3>4. CASE UNCHANGED acted
        BY <3>4
      <3> QED
        BY <3>1, <3>2, <3>3, <3>4
           DEF Next, Step, Call, Read, Start, Store, StatementFails, Settle, Release,
               InterruptWaiting, Clear
    <2>2. \/ effects'[k] \in {effects[k], NoRecord}
          \/ \E c \in Caller : phase[c] = "amend" /\ wants[c] = k /\ effects'[k] = RowOf(c)
      <3>1. ASSUME NEW c \in Caller, phase[c] \in {"start", "store", "amend"},
                   effects' = Recorded(c)
            PROVE  \/ effects'[k] = effects[k]
                   \/ phase[c] = "amend" /\ wants[c] = k /\ effects'[k] = RowOf(c)
        <4>1. wants[c] = k => phase[c] = "amend"
          BY <3>1 DEF TypeOK, SuccessNotRerun
        <4>2. effects'[k] = IF wants[c] = k THEN RowOf(c) ELSE effects[k]
          BY <3>1 DEF Recorded, TypeOK
        <4> QED
          BY <4>1, <4>2
      <3>2. ASSUME NEW l \in Key, Clear(l)
            PROVE  effects'[k] \in {effects[k], NoRecord}
        BY <3>2 DEF Clear, TypeOK
      <3>3. CASE UNCHANGED effects
        BY <3>3
      <3> QED
        BY <3>1, <3>2, <3>3
           DEF Next, Step, Call, Read, Start, Run, Store, StatementFails, Settle, Release,
               Interrupt, InterruptWaiting, MaybeRecorded, Crash
    <2> QED
      BY <2>1, <2>2
  <1> QED
    BY <1>1, LedgerIInv, PTL DEF Spec, SuccessNotRepeated
=============================================================================
