---------------------------- MODULE SocketTransport ----------------------------
(***************************************************************************)
(* The socket transport of packages/sync/src/transport.ts: `layerSocket`,  *)
(* its reconnect loop and its notices, against a server that serveSocket   *)
(* answers for.                                                            *)
(*                                                                         *)
(* A socket's callback and the body of `exchange` run to their end, so     *)
(* each is a step; the loop resumes in a step of its own.  Time is the     *)
(* order of steps: the loop wakes at some time, and a connection closes    *)
(* before or after it counts as healthy.  A frame is its id and its call.  *)
(***************************************************************************)
EXTENDS Integers, Sequences, FiniteSets, SequencesExt, Filter

CONSTANTS
  Exchange,   \* calls of `exchange`
  MaxQueue,   \* queued or in flight before a call is refused
  MaxRetries  \* closes in a row before nothing waits for a socket

ASSUME TransportAssumption == MaxQueue \in Nat /\ MaxRetries \in Nat
ASSUME ExchangeAssumption == IsFiniteSet(Exchange)

VARIABLES
  conn,      \* the socket: none, connecting or ready
  loop,      \* what the reconnect loop waits for, or that it has ended
  failures,  \* closes since a connection proved healthy; past MaxRetries all alike
  queued,    \* frames that wait for a socket
  inFlight,  \* frames sent and not answered, in the order of the map
  nextId,    \* the next frame's id
  status,    \* per call, how it stands
  answers,   \* per call, the call its answer was made for
  toServer,  \* frames on this connection the server has not answered
  toClient,  \* answers on this connection not yet received
  news,      \* the document changed and the replica was not woken since
  telling,   \* a notice is on this connection
  notice     \* a wake-up waits for the replica

frames == <<queued, inFlight, nextId, status, answers, toServer, toClient>>
notices == <<news, telling, notice>>
vars == <<conn, loop, failures, frames, notices>>

Ready == conn = "ready"
Waiting == {x \in Exchange : status[x] = "waiting"}
CallsOf(entries) == {entries[n].call : n \in DOMAIN entries}
Offline == failures > MaxRetries /\ ~Ready

Init ==
  /\ conn = "none" /\ loop = "connect"
  /\ failures = 0
  /\ queued = <<>> /\ inFlight = <<>> /\ nextId = 0
  /\ status = [x \in Exchange |-> "none"]
  /\ answers = [x \in Exchange |-> x]
  /\ toServer = {} /\ toClient = {}
  /\ news = FALSE /\ telling = FALSE /\ notice = FALSE

-----------------------------------------------------------------------------
(* exchange.                                                               *)

\* Mutant of FrameId: an id free among the frames that wait.
FrameIdByCount == Len(queued) + Len(inFlight)

\* Ids are never reused, by no connection either.
FrameId == nextId

Refuses(x) == status' = [status EXCEPT ![x] = "failed"] /\ UNCHANGED <<queued, inFlight, nextId, toServer>>

Accepts(x) ==
  LET entry == [id |-> FrameId, call |-> x] IN
  /\ status' = [status EXCEPT ![x] = "waiting"]
  /\ nextId' = nextId + 1
  /\ IF Ready
     THEN inFlight' = Append(inFlight, entry) /\ toServer' = toServer \cup {entry} /\ UNCHANGED queued
     ELSE queued' = Append(queued, entry) /\ UNCHANGED <<inFlight, toServer>>

\* Mutants of Ask: it waits for a socket that may be minutes away; over a full
\* queue; a frame counts as sent while the socket still connects.
AskOffline(x) ==
  /\ status[x] = "none"
  /\ IF loop = "ended" \/ Len(queued) + Len(inFlight) >= MaxQueue THEN Refuses(x) ELSE Accepts(x)
  /\ UNCHANGED <<conn, loop, failures, answers, toClient, notices>>
AskUnbounded(x) ==
  /\ status[x] = "none"
  /\ IF loop = "ended" \/ Offline THEN Refuses(x) ELSE Accepts(x)
  /\ UNCHANGED <<conn, loop, failures, answers, toClient, notices>>
AskEarly(x) ==
  /\ status[x] = "none"
  /\ IF loop = "ended" \/ Offline \/ Len(queued) + Len(inFlight) >= MaxQueue THEN Refuses(x)
     ELSE /\ status' = [status EXCEPT ![x] = "waiting"]
          /\ nextId' = nextId + 1
          /\ inFlight' = Append(inFlight, [id |-> FrameId, call |-> x])
          /\ toServer' = toServer \cup {[id |-> FrameId, call |-> x]}
          /\ UNCHANGED queued
  /\ UNCHANGED <<conn, loop, failures, answers, toClient, notices>>

\* A disposed transport, one that is offline and a full queue refuse; else the
\* frame is sent, or queued while there is no socket to send it on.
Ask(x) ==
  /\ status[x] = "none"
  /\ IF loop = "ended" \/ Offline \/ Len(queued) + Len(inFlight) >= MaxQueue
     THEN Refuses(x) ELSE Accepts(x)
  /\ UNCHANGED <<conn, loop, failures, answers, toClient, notices>>

Without(entries, x) == Filtered(entries, {entry \in ToSet(entries) : entry.call # x})

\* Mutant of Interrupt: the slot is kept until an answer comes.
InterruptKeepsSlot(x) ==
  /\ status[x] = "waiting"
  /\ status' = [status EXCEPT ![x] = "interrupted"]
  /\ UNCHANGED <<conn, loop, failures, queued, inFlight, nextId, answers, toServer, toClient, notices>>

\* An interrupted caller releases its slot; its frame may be on the wire.
Interrupt(x) ==
  /\ status[x] = "waiting"
  /\ status' = [status EXCEPT ![x] = "interrupted"]
  /\ queued' = Without(queued, x)
  /\ inFlight' = Without(inFlight, x)
  /\ UNCHANGED <<conn, loop, failures, nextId, answers, toServer, toClient, notices>>

-----------------------------------------------------------------------------
(* The connection.                                                         *)

\* Opening counts as a notice, and flushes what is queued.
Opened ==
  /\ conn' = "ready"
  /\ notice' = TRUE
  /\ inFlight' = inFlight \o queued
  /\ toServer' = toServer \cup ToSet(queued)
  /\ queued' = <<>>

\* makeSocket: a socket that connects, one that is open, or a throw.
Connect ==
  /\ loop = "connect" /\ conn = "none"
  /\ \/ /\ conn' = "connecting" /\ loop' = "open"
        /\ UNCHANGED <<queued, inFlight, toServer, notice>>
     \/ Opened /\ loop' = "open"
     \/ loop' = "failed" /\ UNCHANGED <<conn, queued, inFlight, toServer, notice>>
  /\ UNCHANGED <<failures, nextId, status, answers, toClient, news, telling>>

\* Mutant of Open: only the server's own frames are notices.
OpenSilently ==
  /\ conn = "connecting"
  /\ conn' = "ready"
  /\ inFlight' = inFlight \o queued
  /\ toServer' = toServer \cup ToSet(queued)
  /\ queued' = <<>>
  /\ UNCHANGED <<loop, failures, nextId, status, answers, toClient, notices>>

\* onOpen.
Open ==
  /\ conn = "connecting"
  /\ Opened
  /\ UNCHANGED <<loop, failures, nextId, status, answers, toClient, news, telling>>

\* Mutant of Requeued: what was sent is not sent again.
RequeuedNone == queued

\* requeue: the unanswered frames wait in front.
Requeued == inFlight \o queued

\* onClose: what was on the wire is lost; a connection that stayed open long
\* enough was healthy.
Close ==
  /\ conn # "none"
  /\ conn' = "none" /\ loop' = "failed"
  /\ failures' \in IF Ready THEN {failures, 0} ELSE {failures}
  /\ queued' = Requeued /\ inFlight' = <<>>
  /\ toServer' = {} /\ toClient' = {} /\ telling' = FALSE
  /\ UNCHANGED <<nextId, status, answers, news, notice>>

\* failAll.
AllFail ==
  /\ status' = [x \in Exchange |-> IF x \in CallsOf(queued \o inFlight) THEN "failed" ELSE status[x]]
  /\ queued' = <<>> /\ inFlight' = <<>>

\* The loop goes on after a close: one more failure, after too many of which
\* whatever waits fails, and then it sleeps.
LoopFails ==
  /\ loop = "failed" /\ loop' = "sleep"
  /\ failures' = IF failures > MaxRetries THEN failures ELSE failures + 1
  /\ IF failures' > MaxRetries THEN AllFail ELSE UNCHANGED <<status, queued, inFlight>>
  /\ UNCHANGED <<conn, nextId, answers, toServer, toClient, notices>>

Wake ==
  /\ loop = "sleep" /\ loop' = "connect"
  /\ UNCHANGED <<conn, failures, frames, notices>>

\* The layer's scope ends.
Dispose ==
  /\ loop # "ended" /\ loop' = "ended"
  /\ conn' = "none"
  /\ AllFail
  /\ toServer' = {} /\ toClient' = {} /\ telling' = FALSE
  /\ UNCHANGED <<failures, nextId, answers, news, notice>>

-----------------------------------------------------------------------------
(* The server, and what it sends.                                          *)

\* serveSocket answers a frame: its handlers run concurrently, so in no order.
Answer(x) ==
  \E frame \in toServer :
    /\ frame.call = x
    /\ toServer' = toServer \ {frame}
    /\ toClient' = toClient \cup {frame}
    /\ UNCHANGED <<conn, loop, failures, queued, inFlight, nextId, status, answers, notices>>

\* onMessage: the frame with the answer's id is answered, and the connection is
\* healthy; an id that no frame has is ignored.
Receive(x) ==
  \E frame \in toClient :
    LET matched == {n \in DOMAIN inFlight : inFlight[n].id = frame.id} IN
    /\ frame.call = x
    /\ toClient' = toClient \ {frame}
    /\ IF matched = {} THEN UNCHANGED <<failures, inFlight, status, answers>>
       ELSE LET call == inFlight[CHOOSE n \in matched : TRUE].call IN
            /\ failures' = 0
            /\ inFlight' = Without(inFlight, call)
            /\ status' = [status EXCEPT ![call] = "answered"]
            /\ answers' = [answers EXCEPT ![call] = frame.call]
    /\ UNCHANGED <<conn, loop, queued, nextId, toServer, notices>>

\* The document changes, and whoever is connected is sent a notice.
Commit ==
  /\ news' = TRUE
  /\ telling' = (telling \/ Ready)
  /\ UNCHANGED <<conn, loop, failures, frames, notice>>

\* The notice arrives: a wake-up, one however many wait.
Told ==
  /\ telling
  /\ telling' = FALSE /\ notice' = TRUE
  /\ UNCHANGED <<conn, loop, failures, frames, news>>

\* Replica.start takes the wake-up, and exchanges from its cursor.
WakeUp ==
  /\ notice
  /\ notice' = FALSE /\ news' = FALSE
  /\ UNCHANGED <<conn, loop, failures, frames, telling>>

Next ==
  \/ \E x \in Exchange : Ask(x) \/ Interrupt(x) \/ Answer(x) \/ Receive(x)
  \/ Connect \/ Open \/ Close \/ LoopFails \/ Wake \/ Dispose
  \/ Commit \/ Told \/ WakeUp

Spec == Init /\ [][Next]_vars

\* The loop goes on, an attempt to connect ends, and a server reached again and
\* again answers in the end, on a connection that lasts until its answer is in.
Fairness ==
  /\ WF_vars(Connect) /\ WF_vars(Open \/ (conn = "connecting" /\ Close))
  /\ WF_vars(LoopFails) /\ WF_vars(Wake)
  /\ \A x \in Exchange : SF_vars(Answer(x)) /\ SF_vars(Receive(x))

FairSpec == Spec /\ Fairness

-----------------------------------------------------------------------------
(* What must hold of it.                                                   *)

\* Every variable holds what it can hold, and the queue its bound.
TypeOK ==
  /\ conn \in {"none", "connecting", "ready"}
  /\ loop \in {"connect", "open", "failed", "sleep", "ended"}
  /\ failures \in 0..(MaxRetries + 1)
  /\ nextId \in 0..Cardinality(Exchange)
  /\ \A entry \in ToSet(queued \o inFlight) \cup toServer \cup toClient :
       entry \in [id : 0..nextId, call : Exchange]
  /\ Len(queued) + Len(inFlight) <= MaxQueue
  /\ status \in [Exchange -> {"none", "waiting", "answered", "failed", "interrupted"}]
  /\ answers \in [Exchange -> Exchange]
  /\ news \in BOOLEAN /\ telling \in BOOLEAN /\ notice \in BOOLEAN

\* Whoever waits has one slot and no one else has one, through every close,
\* answer and interruption: no call is forgotten, and "abandoned work" does not
\* exhaust the queue.
OneSlotEach ==
  /\ CallsOf(queued \o inFlight) = Waiting
  /\ Len(queued) + Len(inFlight) = Cardinality(Waiting)

\* Nothing is in flight without a socket nor waits beside an open one, and what
\* is sent again after a close goes in the order it was asked in.
OldestFirst ==
  /\ IF Ready THEN queued = <<>> ELSE inFlight = <<>>
  /\ \A m, n \in DOMAIN (queued \o inFlight) :
       m < n => (queued \o inFlight)[m].id < (queued \o inFlight)[n].id

\* "A late reply cannot resolve a newer frame": an answer is for its own call,
\* after frames were sent twice and callers gave up.
OwnAnswer == \A x \in Exchange : status[x] = "answered" => answers[x] = x

\* "Nothing waits for a socket that may be minutes away": after too many closes
\* the queue stays empty until a socket opens.
OfflineHoldsNothing == Offline /\ loop # "failed" => queued = <<>>

\* While connected, a change the replica was not woken for is a wake-up that
\* waits or a notice on its way, though it happened between two connections
\* ("a socket that just (re)connected may have missed notices").
NoMissedNotice == Ready /\ news => notice \/ telling

\* Every exchange ends: answered however often the connection closes, or failed
\* once it does not come back.
ExchangeEnds == \A x \in Exchange : status[x] = "waiting" ~> status[x] # "waiting"
=============================================================================
