------------------------ MODULE SocketTransportProofs ------------------------
(***************************************************************************)
(* The socket transport keeps one slot for each caller that waits, in the  *)
(* order of the calls, and gives each caller its own answer, for any       *)
(* number of calls, any queue and any number of closes.                    *)
(***************************************************************************)
EXTENDS SocketTransport, FilterProofs, FiniteSetTheorems

\* The frames the client holds: one of its two sequences is empty.
Held == IF Ready THEN inFlight ELSE queued

\* Every frame that is somewhere.
Somewhere == ToSet(Held) \cup toServer \cup toClient

Frame == [id : Nat, call : Exchange]

\* The types, without the bounds.
Types ==
  /\ conn \in {"none", "connecting", "ready"}
  /\ loop \in {"connect", "open", "failed", "sleep", "ended"}
  /\ failures \in 0..(MaxRetries + 1)
  /\ nextId \in Nat
  /\ queued \in Seq(Frame) /\ inFlight \in Seq(Frame)
  /\ toServer \in SUBSET Frame /\ toClient \in SUBSET Frame
  /\ status \in [Exchange -> {"none", "waiting", "answered", "failed", "interrupted"}]
  /\ answers \in [Exchange -> Exchange]
  /\ news \in BOOLEAN /\ telling \in BOOLEAN /\ notice \in BOOLEAN

\* A frame waits for a socket or is sent, never both.
OneSide == IF Ready THEN queued = <<>> ELSE inFlight = <<>>

\* Older frames come first.
Increasing(entries) ==
  \A m, n \in DOMAIN entries : m < n => entries[m].id < entries[n].id

\* An id names one call, of those that were made, and a call has one id.
IdsName(all) ==
  /\ \A f \in all : f.id < nextId /\ status[f.call] # "none"
  /\ \A f, g \in all : f.id = g.id <=> f.call = g.call

IInv ==
  /\ Types
  /\ OneSide
  /\ Increasing(Held)
  /\ IdsName(Somewhere)
  /\ CallsOf(Held) = Waiting
  /\ Len(Held) <= MaxQueue
  /\ OwnAnswer
  /\ OfflineHoldsNothing
  /\ NoMissedNotice

-----------------------------------------------------------------------------
(* What the model's operators do to the frames held.                       *)

\* Dropping the entry of a call leaves the others, in their order.
LEMMA WithoutDrops ==
  ASSUME NEW entries \in Seq(Frame), NEW x
  PROVE  /\ Without(entries, x) \in Seq(Frame)
         /\ Len(Without(entries, x)) <= Len(entries)
         /\ Increasing(entries) => Increasing(Without(entries, x))
         /\ ToSet(Without(entries, x)) = {f \in ToSet(entries) : f.call # x}
  <1> DEFINE S == {f \in ToSet(entries) : f.call # x}
             left == Without(entries, x)
  <1>0. left = Filtered(entries, S)
    BY DEF Without
  <1>1. left \in Seq(Frame)
    BY <1>0, FilteredLeaves
  <1>2. PICK at : Leaves(entries, S, Len(entries), left, at)
    BY <1>0, FilteredLeaves
  <1> HIDE DEF left
  <1>3. /\ Len(entries) \in Nat /\ Len(left) \in Nat
        /\ DOMAIN entries = 1..Len(entries) /\ DOMAIN left = 1..Len(left)
    BY <1>1
  <1>4. Increasing(entries) => Increasing(left)
    BY <1>2, <1>3 DEF Leaves, Increasing
  <1>5. ToSet(left) = S
    <2> HIDE DEF S
    <2>1. {left[i] : i \in DOMAIN left} = {entries[i] : i \in DOMAIN entries} \cap S
      BY <1>0, FilteredElements
    <2>2. ToSet(left) = ToSet(entries) \cap S
      BY <2>1 DEF ToSet
    <2> QED
      BY <2>2 DEF S
  <1>6. Len(left) <= Len(entries)
    BY <1>0, FilteredShorter
  <1> QED
    BY <1>1, <1>4, <1>5, <1>6 DEF left

\* A frame appended is held too.
LEMMA AppendHolds ==
  ASSUME NEW entries \in Seq(Frame), NEW f \in Frame
  PROVE  /\ Append(entries, f) \in Seq(Frame)
         /\ Len(Append(entries, f)) = Len(entries) + 1
         /\ ToSet(Append(entries, f)) = ToSet(entries) \cup {f}
         /\ Increasing(entries) /\ (\A g \in ToSet(entries) : g.id < f.id)
            => Increasing(Append(entries, f))
  <1> DEFINE new == Append(entries, f)
  <1>1. /\ new \in Seq(Frame) /\ Len(new) = Len(entries) + 1 /\ Len(entries) \in Nat
        /\ DOMAIN new = 1..(Len(entries) + 1) /\ DOMAIN entries = 1..Len(entries)
        /\ \A i \in 1..Len(entries) : new[i] = entries[i]
        /\ new[Len(entries) + 1] = f
    BY AppendProperties
  <1> HIDE DEF new
  <1>2. \A i \in DOMAIN new : i \in 1..Len(entries) \/ i = Len(entries) + 1
    BY <1>1
  <1>3. ToSet(new) = ToSet(entries) \cup {f}
    BY <1>1, <1>2 DEF ToSet
  <1>4. ASSUME Increasing(entries), \A g \in ToSet(entries) : g.id < f.id
        PROVE  Increasing(new)
    <2> SUFFICES ASSUME NEW m \in DOMAIN new, NEW n \in DOMAIN new, m < n
                 PROVE  new[m].id < new[n].id
      BY DEF Increasing
    <2>1. m \in 1..Len(entries)
      BY <1>1
    <2>2. entries[m] \in ToSet(entries)
      BY <1>1, <2>1 DEF ToSet
    <2>3. CASE n \in 1..Len(entries)
      BY <1>1, <1>4, <2>1, <2>3 DEF Increasing
    <2>4. CASE n = Len(entries) + 1
      BY <1>1, <1>4, <2>1, <2>2, <2>4
    <2> QED
      BY <1>2, <2>3, <2>4
  <1> QED
    BY <1>1, <1>3, <1>4 DEF new
\* With one of the two sequences empty, the two together are what is held.
LEMMA HeldIsBoth ==
  ASSUME Types, OneSide
  PROVE  /\ Held \in Seq(Frame)
         /\ queued \o inFlight = Held /\ inFlight \o queued = Held
         /\ Len(queued) + Len(inFlight) = Len(Held)
  <1>1. /\ queued \in Seq(Frame) /\ inFlight \in Seq(Frame)
        /\ IF Ready THEN queued = <<>> ELSE inFlight = <<>>
    BY DEF Types, OneSide
  <1> QED
    BY <1>1 DEF Held

\* Whatever is somewhere is a frame.
LEMMA SomewhereTyped ==
  ASSUME Types
  PROVE  \A f \in Somewhere : f \in Frame /\ f.id \in Nat /\ f.call \in Exchange
  <1>1. queued \in Seq(Frame) /\ inFlight \in Seq(Frame)
    BY DEF Types
  <1>2. ToSet(queued) \subseteq Frame /\ ToSet(inFlight) \subseteq Frame
    BY <1>1 DEF ToSet
  <1>3. Somewhere \subseteq Frame
    BY <1>2 DEF Somewhere, Held, Types
  <1> QED
    BY <1>3 DEF Frame

\* The calls of the entries held are those of the set of them.
LEMMA CallsOfSet ==
  \A entries : CallsOf(entries) = {f.call : f \in ToSet(entries)}
  BY DEF CallsOf, ToSet

\* Nothing is held after everything failed.
LEMMA EmptyHolds ==
  /\ <<>> \in Seq(Frame) /\ ToSet(<<>>) = {} /\ CallsOf(<<>>) = {} /\ Len(<<>>) = 0
  /\ Increasing(<<>>)
  BY DEF ToSet, CallsOf, Increasing

-----------------------------------------------------------------------------
(* One lemma for each action.                                              *)

\* Nothing waits, nothing is sent.
LEMMA InitKeeps == Init => IInv
  <1> SUFFICES ASSUME Init
               PROVE  IInv
    OBVIOUS
  <1>1. Held = <<>> /\ Somewhere = {}
    BY EmptyHolds DEF Init, Held, Somewhere, Ready
  <1>2. Types
    <2>1. status \in [Exchange -> {"none", "waiting", "answered", "failed", "interrupted"}]
      BY DEF Init
    <2>2. answers \in [Exchange -> Exchange]
      BY DEF Init
    <2>3. queued \in Seq(Frame) /\ inFlight \in Seq(Frame)
      BY EmptyHolds DEF Init
    <2>4. failures \in 0..(MaxRetries + 1)
      BY TransportAssumption DEF Init
    <2> QED
      BY <2>1, <2>2, <2>3, <2>4 DEF Init, Types
  <1>3. CallsOf(Held) = Waiting /\ Len(Held) <= MaxQueue /\ Increasing(Held) /\ IdsName(Somewhere)
    BY <1>1, EmptyHolds, TransportAssumption DEF Waiting, Init, IdsName
  <1>4. OneSide
    BY DEF OneSide, Init
  <1>5. OwnAnswer /\ OfflineHoldsNothing /\ NoMissedNotice
    BY DEF Init, OwnAnswer, OfflineHoldsNothing, NoMissedNotice
  <1> QED
    BY <1>1, <1>2, <1>3, <1>4, <1>5 DEF IInv

\* A refused call holds nothing, an accepted one has a new id.
LEMMA AskKeeps ==
  ASSUME IInv, NEW x \in Exchange, Ask(x)
  PROVE  IInv'
  <1>0. Types /\ OneSide /\ status[x] = "none" /\ CallsOf(Held) = Waiting /\ Held \in Seq(Frame)
    BY HeldIsBoth DEF IInv, Ask
  <1>1. UNCHANGED <<conn, loop, failures, answers, toClient, news, telling, notice>>
    BY DEF Ask, notices
  <1>2. Ready' = Ready
    BY <1>1 DEF Ready
  <1>3. CASE Refuses(x)
    <2>1. UNCHANGED <<queued, inFlight, nextId, toServer>> /\ status' = [status EXCEPT ![x] = "failed"]
      BY <1>3 DEF Refuses
    <2>2. Held' = Held /\ Somewhere' = Somewhere
      BY <1>1, <1>2, <2>1 DEF Held, Somewhere
    <2>3. Types' /\ OneSide'
      BY <1>0, <1>1, <1>2, <2>1 DEF Types, OneSide
    <2>4. Waiting' = Waiting
      BY <1>0, <2>1 DEF Waiting, Types
    <2>5. CallsOf(Held)' = CallsOf(Held)
      BY <2>2
    <2>6. IdsName(Somewhere)'
      BY <1>0, <2>1, <2>2 DEF IInv, IdsName, Types
    <2>7. OwnAnswer'
      BY <1>0, <1>1, <2>1 DEF IInv, OwnAnswer, Types
    <2>8. OfflineHoldsNothing' /\ NoMissedNotice'
      BY <1>1, <1>2, <2>1 DEF IInv, OfflineHoldsNothing, NoMissedNotice, Offline, Ready
    <2> QED
      BY <1>0, <2>2, <2>3, <2>4, <2>5, <2>6, <2>7, <2>8 DEF IInv, Increasing
  <1>4. CASE /\ Accepts(x)
             /\ ~ (loop = "ended" \/ Offline \/ Len(queued) + Len(inFlight) >= MaxQueue)
    <2> DEFINE entry == [id |-> nextId, call |-> x]
    <2>0. /\ entry \in Frame /\ entry.id = nextId /\ entry.call = x
          /\ nextId \in Nat /\ nextId' = nextId + 1
          /\ status' = [status EXCEPT ![x] = "waiting"]
          /\ Len(Held) < MaxQueue
      BY <1>0, <1>4, HeldIsBoth, TransportAssumption DEF Accepts, FrameId, Types, Frame
    <2>1. IF Ready
          THEN inFlight' = Append(inFlight, entry) /\ toServer' = toServer \cup {entry} /\ queued' = queued
          ELSE queued' = Append(queued, entry) /\ inFlight' = inFlight /\ toServer' = toServer
      BY <1>4 DEF Accepts, FrameId
    <2> HIDE DEF entry
    <2>2. Held' = Append(Held, entry)
      BY <1>2, <2>1 DEF Held
    <2>3. \A f \in Somewhere : f.id < nextId /\ f.call # x
      BY <1>0 DEF IInv, IdsName
    <2>4. /\ Held' \in Seq(Frame) /\ Len(Held') = Len(Held) + 1
          /\ ToSet(Held') = ToSet(Held) \cup {entry}
          /\ Increasing(Held')
      <3>1. \A f \in ToSet(Held) : f.id < entry.id
        BY <2>0, <2>3 DEF Somewhere
      <3>2. Increasing(Held)
        BY DEF IInv
      <3> QED
        BY <1>0, <2>0, <2>2, <3>1, <3>2, AppendHolds
    <2>5. Somewhere' = Somewhere \cup {entry}
      BY <1>1, <2>1, <2>4 DEF Somewhere
    <2>6. Types'
      <3>1. queued \in Seq(Frame) /\ inFlight \in Seq(Frame)
        BY <1>0 DEF Types
      <3>2. queued' \in Seq(Frame) /\ inFlight' \in Seq(Frame)
        BY <2>0, <2>1, <3>1, AppendHolds
      <3>3. toServer' \in SUBSET Frame
        BY <1>0, <2>0, <2>1 DEF Types
      <3> QED
        BY <1>0, <1>1, <2>0, <3>2, <3>3 DEF Types
    <2>7. OneSide'
      BY <1>0, <1>2, <2>1 DEF OneSide
    <2>8. IdsName(Somewhere)'
      <3>1. /\ \A f \in Somewhere : f.id < nextId /\ status[f.call] # "none" /\ f.call # x
            /\ \A f, g \in Somewhere : f.id = g.id <=> f.call = g.call
        BY <2>3 DEF IInv, IdsName
      <3>2. \A f \in Somewhere : f.id \in Nat /\ f.call \in Exchange
        BY <1>0, SomewhereTyped
      <3>3. \A f \in Somewhere : f.id < nextId' /\ f.id # nextId /\ status'[f.call] # "none"
        BY <1>0, <2>0, <3>1, <3>2 DEF Types
      <3>4. entry.id < nextId' /\ status'[entry.call] # "none"
        BY <1>0, <2>0 DEF Types
      <3> QED
        BY <2>0, <2>5, <3>1, <3>3, <3>4 DEF IdsName
    <2>9. Waiting' = Waiting \cup {x}
      BY <1>0, <2>0 DEF Waiting, Types
    <2>10. CallsOf(Held)' = CallsOf(Held) \cup {x}
      BY <2>0, <2>4, CallsOfSet
    <2>11. Len(Held)' <= MaxQueue
      BY <1>0, <2>0, <2>4, TransportAssumption
    <2>12. OwnAnswer'
      BY <1>0, <1>1, <2>0 DEF IInv, OwnAnswer, Types
    <2>13. OfflineHoldsNothing' /\ NoMissedNotice'
      BY <1>1, <1>2, <1>4, <2>1 DEF IInv, OfflineHoldsNothing, NoMissedNotice, Offline, Ready
    <2> QED
      BY <1>0, <2>4, <2>6, <2>7, <2>8, <2>9, <2>10, <2>11, <2>12, <2>13 DEF IInv, Increasing
  <1> QED
    BY <1>3, <1>4 DEF Ask
\* Ids still name their calls when no frame is new.
LEMMA NoNewFrame ==
  ASSUME Types, IdsName(Somewhere), Somewhere' \subseteq Somewhere, nextId' = nextId,
         \A x \in Exchange : status[x] # "none" => status'[x] # "none"
  PROVE  IdsName(Somewhere)'
  BY SomewhereTyped DEF IdsName

\* An interrupted caller's entry goes, and no other.
LEMMA InterruptKeeps ==
  ASSUME IInv, NEW x \in Exchange, Interrupt(x)
  PROVE  IInv'
  <1>0. /\ Types /\ OneSide /\ status[x] = "waiting" /\ CallsOf(Held) = Waiting /\ Held \in Seq(Frame)
        /\ Increasing(Held) /\ IdsName(Somewhere) /\ Len(Held) <= MaxQueue
    BY HeldIsBoth DEF IInv, Interrupt
  <1>1. /\ UNCHANGED <<conn, loop, failures, nextId, answers, toServer, toClient, news, telling, notice>>
        /\ status' = [status EXCEPT ![x] = "interrupted"]
        /\ queued' = Without(queued, x) /\ inFlight' = Without(inFlight, x)
    BY DEF Interrupt, notices
  <1>2. Ready' = Ready
    BY <1>1 DEF Ready
  <1>3. Held' = Without(Held, x)
    BY <1>1, <1>2 DEF Held
  <1>4. /\ Held' \in Seq(Frame) /\ Len(Held') <= Len(Held) /\ Increasing(Held')
        /\ ToSet(Held') = {f \in ToSet(Held) : f.call # x}
    BY <1>0, <1>3, WithoutDrops
  <1>5. queued \in Seq(Frame) /\ inFlight \in Seq(Frame)
    BY <1>0 DEF Types
  <1>6. queued' \in Seq(Frame) /\ inFlight' \in Seq(Frame)
    BY <1>1, <1>5, WithoutDrops
  <1>7. (queued = <<>> => queued' = <<>>) /\ (inFlight = <<>> => inFlight' = <<>>)
    BY <1>1, <1>5, <1>6, WithoutDrops, EmptyHolds
  <1>8. Types'
    BY <1>0, <1>1, <1>6 DEF Types
  <1>9. OneSide'
    BY <1>0, <1>2, <1>7 DEF OneSide
  <1>10. IdsName(Somewhere)'
    <2>1. Somewhere' \subseteq Somewhere
      BY <1>1, <1>4 DEF Somewhere
    <2>2. \A y \in Exchange : status[y] # "none" => status'[y] # "none"
      BY <1>0, <1>1 DEF Types
    <2> QED
      BY <1>0, <1>1, <2>1, <2>2, NoNewFrame
  <1>11. CallsOf(Held)' = CallsOf(Held) \ {x}
    BY <1>4, CallsOfSet
  <1>12. Waiting' = Waiting \ {x}
    BY <1>0, <1>1 DEF Waiting, Types
  <1>13. Len(Held)' <= MaxQueue
    BY <1>0, <1>4, TransportAssumption
  <1>14. OwnAnswer'
    BY <1>0, <1>1 DEF IInv, OwnAnswer, Types
  <1>15. OfflineHoldsNothing' /\ NoMissedNotice'
    BY <1>1, <1>2, <1>7 DEF IInv, OfflineHoldsNothing, NoMissedNotice, Offline
  <1> QED
    BY <1>0, <1>4, <1>8, <1>9, <1>10, <1>11, <1>12, <1>13, <1>14, <1>15 DEF IInv, Increasing

\* A step that leaves the client's frames where they are and who waits alone.
LEMMA SameHeldKeeps ==
  ASSUME IInv, Held' = Held, Types', OneSide', Somewhere' \subseteq Somewhere,
         UNCHANGED <<nextId, status, answers>>, OfflineHoldsNothing', NoMissedNotice'
  PROVE  IInv'
  <1>1. IdsName(Somewhere)'
    BY NoNewFrame DEF IInv
  <1>2. CallsOf(Held)' = CallsOf(Held) /\ Waiting' = Waiting
    BY DEF CallsOf, Waiting
  <1>3. OwnAnswer'
    BY DEF IInv, OwnAnswer
  <1> QED
    BY <1>1, <1>2, <1>3 DEF IInv, Increasing

\* A flush moves everything that waits, in its order.
LEMMA OpenedFlushes ==
  ASSUME Types, OneSide, ~Ready, Opened, UNCHANGED toClient
  PROVE  /\ queued' = <<>> /\ inFlight' = queued /\ Ready'
         /\ Held' = Held /\ Somewhere' \subseteq Somewhere
         /\ toServer' \in SUBSET Frame
  <1>1. queued \in Seq(Frame) /\ inFlight = <<>>
    BY DEF Types, OneSide
  <1>2. inFlight' = queued /\ queued' = <<>> /\ Ready'
    BY <1>1 DEF Opened, Ready
  <1>3. Held' = Held /\ Held = queued
    BY <1>2 DEF Held
  <1>4. toServer' = toServer \cup ToSet(queued)
    BY DEF Opened
  <1>5. ToSet(queued) \subseteq Frame
    BY <1>1 DEF ToSet
  <1> QED
    BY <1>2, <1>3, <1>4, <1>5 DEF Somewhere, Types

\* A connection that is attempted, opens at once, or throws.
LEMMA ConnectKeeps ==
  ASSUME IInv, Connect
  PROVE  IInv'
  <1>0. Types /\ OneSide /\ ~Ready /\ loop = "connect"
    BY DEF IInv, Connect, Ready
  <1>1. UNCHANGED <<failures, nextId, status, answers, toClient, news, telling>>
    BY DEF Connect
  <1>2. CASE Opened /\ loop' = "open"
    <2>1. /\ queued' = <<>> /\ inFlight' = queued /\ Ready' /\ Held' = Held
          /\ Somewhere' \subseteq Somewhere /\ toServer' \in SUBSET Frame
      BY <1>0, <1>1, <1>2, OpenedFlushes
    <2>2. conn' = "ready" /\ notice' = TRUE
      BY <1>2 DEF Opened
    <2>3. Types' /\ OneSide'
      BY <1>0, <1>1, <1>2, <2>1, <2>2, EmptyHolds DEF Types, OneSide
    <2>4. OfflineHoldsNothing' /\ NoMissedNotice'
      BY <2>1, <2>2 DEF OfflineHoldsNothing, NoMissedNotice
    <2> QED
      BY <1>1, <2>1, <2>3, <2>4, SameHeldKeeps
  <1>3. CASE /\ UNCHANGED <<queued, inFlight, toServer, notice>>
             /\ \/ conn' = "connecting" /\ loop' = "open"
                \/ loop' = "failed" /\ UNCHANGED conn
    <2>1. ~Ready'
      BY <1>0, <1>3 DEF Ready
    <2>2. Held' = Held /\ Somewhere' = Somewhere
      BY <1>0, <1>1, <1>3, <2>1 DEF Held, Somewhere
    <2>3. Types' /\ OneSide'
      BY <1>0, <1>1, <1>3, <2>1 DEF Types, OneSide
    <2>4. OfflineHoldsNothing' /\ NoMissedNotice'
      BY <1>0, <1>1, <1>3, <2>1 DEF IInv, OfflineHoldsNothing, NoMissedNotice, Offline
    <2> QED
      BY <1>1, <2>2, <2>3, <2>4, SameHeldKeeps
  <1> QED
    BY <1>2, <1>3 DEF Connect

\* The socket opens.
LEMMA OpenKeeps ==
  ASSUME IInv, Open
  PROVE  IInv'
  <1>0. Types /\ OneSide /\ ~Ready /\ Opened
    BY DEF IInv, Open, Ready
  <1>1. UNCHANGED <<loop, failures, nextId, status, answers, toClient, news, telling>>
    BY DEF Open
  <1>2. /\ queued' = <<>> /\ inFlight' = queued /\ Ready' /\ Held' = Held
        /\ Somewhere' \subseteq Somewhere /\ toServer' \in SUBSET Frame
    BY <1>0, <1>1, OpenedFlushes
  <1>3. conn' = "ready" /\ notice' = TRUE
    BY <1>0 DEF Opened
  <1>4. Types' /\ OneSide'
    BY <1>0, <1>1, <1>2, <1>3, EmptyHolds DEF Types, OneSide
  <1>5. OfflineHoldsNothing' /\ NoMissedNotice'
    BY <1>2, <1>3 DEF OfflineHoldsNothing, NoMissedNotice
  <1> QED
    BY <1>1, <1>2, <1>4, <1>5, SameHeldKeeps

\* What was in flight waits again, in front of what waited.
LEMMA CloseKeeps ==
  ASSUME IInv, Close
  PROVE  IInv'
  <1>0. Types /\ OneSide
    BY DEF IInv
  <1>1. /\ conn' = "none" /\ loop' = "failed" /\ failures' \in {failures, 0}
        /\ queued' = inFlight \o queued /\ inFlight' = <<>>
        /\ toServer' = {} /\ toClient' = {} /\ telling' = FALSE
        /\ UNCHANGED <<nextId, status, answers, news, notice>>
    BY DEF Close, Requeued
  <1>2. ~Ready'
    BY <1>1 DEF Ready
  <1>3. queued' = Held /\ Held \in Seq(Frame)
    BY <1>0, <1>1, HeldIsBoth
  <1>4. Held' = Held
    BY <1>2, <1>3 DEF Held
  <1>5. Somewhere' \subseteq Somewhere
    BY <1>1, <1>4 DEF Somewhere
  <1>6. Types'
    <2>1. failures' \in 0..(MaxRetries + 1)
      BY <1>0, <1>1, TransportAssumption DEF Types
    <2> QED
      BY <1>0, <1>1, <1>3, <2>1, EmptyHolds DEF Types
  <1>7. OneSide'
    BY <1>1, <1>2 DEF OneSide
  <1>8. OfflineHoldsNothing' /\ NoMissedNotice'
    BY <1>1, <1>2 DEF OfflineHoldsNothing, NoMissedNotice
  <1> QED
    BY <1>1, <1>4, <1>5, <1>6, <1>7, <1>8, SameHeldKeeps
\* failAll: whoever waited failed, and nothing is held.
LEMMA AllFailEmpties ==
  ASSUME IInv, AllFail, answers' = answers
  PROVE  /\ queued' = <<>> /\ inFlight' = <<>> /\ Held' = <<>>
         /\ status' \in [Exchange -> {"none", "waiting", "answered", "failed", "interrupted"}]
         /\ \A y \in Exchange : status[y] # "none" => status'[y] # "none"
         /\ Waiting' = {} /\ OwnAnswer'
  <1>0. Types /\ CallsOf(Held) = Waiting /\ queued \o inFlight = Held
    BY HeldIsBoth DEF IInv
  <1>1. /\ queued' = <<>> /\ inFlight' = <<>>
        /\ status' = [x \in Exchange |-> IF x \in Waiting THEN "failed" ELSE status[x]]
    BY <1>0 DEF AllFail
  <1>2. Held' = <<>>
    BY <1>1 DEF Held
  <1>3. status' \in [Exchange -> {"none", "waiting", "answered", "failed", "interrupted"}]
    BY <1>0, <1>1 DEF Types
  <1>4. \A y \in Exchange : status[y] # "none" => status'[y] # "none"
    BY <1>1
  <1>5. Waiting' = {}
    BY <1>1 DEF Waiting
  <1>6. OwnAnswer'
    BY <1>1 DEF IInv, OwnAnswer
  <1> QED
    BY <1>1, <1>2, <1>3, <1>4, <1>5, <1>6

\* One more failure, after too many of which whatever waits fails.
LEMMA LoopFailsKeeps ==
  ASSUME IInv, LoopFails
  PROVE  IInv'
  <1>0. Types /\ OneSide
    BY DEF IInv
  <1>1. /\ loop = "failed" /\ loop' = "sleep"
        /\ failures' = IF failures > MaxRetries THEN failures ELSE failures + 1
        /\ UNCHANGED <<conn, nextId, answers, toServer, toClient, news, telling, notice>>
    BY DEF LoopFails, notices
  <1>2. failures' \in 0..(MaxRetries + 1) /\ Ready' = Ready
    BY <1>0, <1>1, TransportAssumption DEF Types, Ready
  <1>3. CASE failures' > MaxRetries
    <2>1. AllFail
      BY <1>3 DEF LoopFails
    <2>2. /\ queued' = <<>> /\ inFlight' = <<>> /\ Held' = <<>>
          /\ status' \in [Exchange -> {"none", "waiting", "answered", "failed", "interrupted"}]
          /\ \A y \in Exchange : status[y] # "none" => status'[y] # "none"
          /\ Waiting' = {} /\ OwnAnswer'
      BY <1>1, <2>1, AllFailEmpties
    <2>3. Types' /\ OneSide'
      BY <1>0, <1>1, <1>2, <2>2, EmptyHolds DEF Types, OneSide
    <2>4. IdsName(Somewhere)'
      <3>1. Somewhere' \subseteq Somewhere
        BY <1>1, <2>2, EmptyHolds DEF Somewhere
      <3> QED
        BY <1>0, <1>1, <2>2, <3>1, NoNewFrame DEF IInv
    <2>5. CallsOf(Held)' = Waiting' /\ Len(Held)' <= MaxQueue /\ Increasing(Held)'
      BY <2>2, EmptyHolds, TransportAssumption
    <2>6. OfflineHoldsNothing' /\ NoMissedNotice'
      BY <1>1, <1>2, <2>2 DEF IInv, OfflineHoldsNothing, NoMissedNotice
    <2> QED
      BY <2>2, <2>3, <2>4, <2>5, <2>6 DEF IInv
  <1>4. CASE ~ (failures' > MaxRetries)
    <2>1. UNCHANGED <<status, queued, inFlight>>
      BY <1>4 DEF LoopFails
    <2>2. Held' = Held
      BY <1>2, <2>1 DEF Held
    <2>3. Somewhere' = Somewhere
      BY <1>1, <2>2 DEF Somewhere
    <2>4. Types' /\ OneSide'
      BY <1>0, <1>1, <1>2, <2>1 DEF Types, OneSide
    <2>5. OfflineHoldsNothing' /\ NoMissedNotice'
      BY <1>1, <1>2, <1>4 DEF IInv, OfflineHoldsNothing, NoMissedNotice, Offline
    <2> QED
      BY <1>1, <2>1, <2>2, <2>3, <2>4, <2>5, SameHeldKeeps
  <1> QED
    BY <1>3, <1>4

\* The layer's scope ends, and every caller fails.
LEMMA DisposeKeeps ==
  ASSUME IInv, Dispose
  PROVE  IInv'
  <1>0. Types /\ OneSide
    BY DEF IInv
  <1>1. /\ loop' = "ended" /\ conn' = "none" /\ AllFail
        /\ toServer' = {} /\ toClient' = {} /\ telling' = FALSE
        /\ UNCHANGED <<failures, nextId, answers, news, notice>>
    BY DEF Dispose
  <1>2. /\ queued' = <<>> /\ inFlight' = <<>> /\ Held' = <<>>
        /\ status' \in [Exchange -> {"none", "waiting", "answered", "failed", "interrupted"}]
        /\ \A y \in Exchange : status[y] # "none" => status'[y] # "none"
        /\ Waiting' = {} /\ OwnAnswer'
    BY <1>1, AllFailEmpties
  <1>3. Types' /\ OneSide' /\ ~Ready'
    BY <1>0, <1>1, <1>2, EmptyHolds DEF Types, OneSide, Ready
  <1>4. IdsName(Somewhere)'
    <2>1. Somewhere' \subseteq Somewhere
      BY <1>1, <1>2, EmptyHolds DEF Somewhere
    <2> QED
      BY <1>0, <1>1, <1>2, <2>1, NoNewFrame DEF IInv
  <1>5. CallsOf(Held)' = Waiting' /\ Len(Held)' <= MaxQueue /\ Increasing(Held)'
    BY <1>2, EmptyHolds, TransportAssumption
  <1>6. OfflineHoldsNothing' /\ NoMissedNotice'
    BY <1>2, <1>3 DEF OfflineHoldsNothing, NoMissedNotice
  <1> QED
    BY <1>2, <1>3, <1>4, <1>5, <1>6 DEF IInv

\* The server's answer has the id of the frame it answers.
LEMMA AnswerKeeps ==
  ASSUME IInv, NEW x \in Exchange, Answer(x)
  PROVE  IInv'
  <1>0. Types /\ OneSide
    BY DEF IInv
  <1>1. PICK frame \in toServer :
          /\ toServer' = toServer \ {frame} /\ toClient' = toClient \cup {frame}
          /\ UNCHANGED <<conn, loop, failures, queued, inFlight, nextId, status, answers, news, telling, notice>>
    BY DEF Answer, notices
  <1>2. Held' = Held /\ Ready' = Ready
    BY <1>1 DEF Held, Ready
  <1>3. Somewhere' \subseteq Somewhere
    BY <1>1, <1>2 DEF Somewhere
  <1>4. Types'
    BY <1>0, <1>1 DEF Types
  <1>5. OneSide' /\ OfflineHoldsNothing' /\ NoMissedNotice'
    BY <1>0, <1>1, <1>2 DEF IInv, OneSide, OfflineHoldsNothing, NoMissedNotice, Offline
  <1> QED
    BY <1>1, <1>2, <1>3, <1>4, <1>5, SameHeldKeeps

\* An answer goes to the call of the frame with its id, which is the call it
\* was made for, or to nobody.
LEMMA ReceiveKeeps ==
  ASSUME IInv, NEW x \in Exchange, Receive(x)
  PROVE  IInv'
  <1>0. Types /\ OneSide /\ IdsName(Somewhere) /\ CallsOf(Held) = Waiting /\ Increasing(Held)
    BY DEF IInv
  <1> DEFINE Matched(frame) == {n \in DOMAIN inFlight : inFlight[n].id = frame.id}
             Called(frame) == inFlight[CHOOSE n \in Matched(frame) : TRUE].call
  <1>1. PICK frame \in toClient :
          /\ toClient' = toClient \ {frame}
          /\ IF Matched(frame) = {} THEN UNCHANGED <<failures, inFlight, status, answers>>
             ELSE /\ failures' = 0
                  /\ inFlight' = Without(inFlight, Called(frame))
                  /\ status' = [status EXCEPT ![Called(frame)] = "answered"]
                  /\ answers' = [answers EXCEPT ![Called(frame)] = frame.call]
          /\ UNCHANGED <<conn, loop, queued, nextId, toServer, news, telling, notice>>
    BY DEF Receive, notices
  <1>2. Ready' = Ready
    BY <1>1 DEF Ready
  <1>3. toClient' \in SUBSET Frame
    BY <1>0, <1>1 DEF Types
  <1>4. CASE Matched(frame) = {}
    <2>1. UNCHANGED <<failures, inFlight, status, answers>>
      BY <1>1, <1>4
    <2> HIDE DEF Matched
    <2>2. Held' = Held
      BY <1>1, <1>2, <2>1 DEF Held
    <2>3. Somewhere' \subseteq Somewhere
      BY <1>1, <2>2 DEF Somewhere
    <2>4. Types'
      BY <1>0, <1>1, <1>3, <2>1 DEF Types
    <2>5. OneSide' /\ OfflineHoldsNothing' /\ NoMissedNotice'
      BY <1>0, <1>1, <1>2, <2>1 DEF IInv, OneSide, OfflineHoldsNothing, NoMissedNotice, Offline
    <2> QED
      BY <1>1, <2>1, <2>2, <2>3, <2>4, <2>5, SameHeldKeeps
  <1>5. CASE Matched(frame) # {}
    <2>1. PICK n \in DOMAIN inFlight : inFlight[n].id = frame.id /\ Called(frame) = inFlight[n].call
      BY <1>5
    <2> DEFINE call == Called(frame)
    <2>2. /\ failures' = 0 /\ inFlight' = Without(inFlight, call)
          /\ status' = [status EXCEPT ![call] = "answered"]
          /\ answers' = [answers EXCEPT ![call] = frame.call]
      BY <1>1, <1>5
    <2>3. call = inFlight[n].call
      BY <2>1
    <2> HIDE DEF Matched, Called, call
    <2>4. Ready /\ Held = inFlight /\ queued = <<>>
      <3>1. inFlight # <<>>
        BY <2>1
      <3> QED
        BY <1>0, <3>1 DEF OneSide, Held
    <2>5. inFlight \in Seq(Frame)
      BY <1>0 DEF Types
    <2>6. inFlight[n] \in ToSet(Held) /\ inFlight[n] \in Somewhere /\ frame \in Somewhere
      BY <1>1, <2>1, <2>4 DEF ToSet, Somewhere
    <2>7. frame.call = call /\ call \in Exchange
      BY <1>0, <2>1, <2>3, <2>6, SomewhereTyped DEF IdsName
    <2>8. call \in Waiting
      BY <1>0, <2>3, <2>6, CallsOfSet
    <2>9. /\ Held' = Without(Held, call) /\ Held' \in Seq(Frame) /\ Len(Held') <= Len(Held)
          /\ Increasing(Held') /\ ToSet(Held') = {f \in ToSet(Held) : f.call # call}
      <3>1. Held' = inFlight'
        BY <1>2, <2>4 DEF Held
      <3> QED
        BY <1>0, <2>2, <2>4, <2>5, <3>1, WithoutDrops
    <2>10. inFlight' = Held'
      BY <1>2, <2>4 DEF Held
    <2>11. Types'
      <3>1. answers' \in [Exchange -> Exchange]
        BY <1>0, <2>2, <2>7 DEF Types
      <3>2. status' \in [Exchange -> {"none", "waiting", "answered", "failed", "interrupted"}]
        BY <1>0, <2>2 DEF Types
      <3>3. failures' \in 0..(MaxRetries + 1)
        BY <2>2, TransportAssumption
      <3> QED
        BY <1>0, <1>1, <1>3, <2>9, <2>10, <3>1, <3>2, <3>3 DEF Types
    <2>12. OneSide'
      BY <1>1, <1>2, <2>4 DEF OneSide
    <2>13. IdsName(Somewhere)'
      <3>1. Somewhere' \subseteq Somewhere
        BY <1>1, <2>9 DEF Somewhere
      <3>2. \A y \in Exchange : status[y] # "none" => status'[y] # "none"
        BY <1>0, <2>2 DEF Types
      <3> QED
        BY <1>0, <1>1, <3>1, <3>2, NoNewFrame
    <2>14. CallsOf(Held)' = CallsOf(Held) \ {call}
      BY <2>9, CallsOfSet
    <2>15. Waiting' = Waiting \ {call}
      BY <1>0, <2>2 DEF Waiting, Types
    <2>16. Len(Held)' <= MaxQueue
      BY <2>4, <2>5, <2>9, TransportAssumption DEF IInv
    <2>17. OwnAnswer'
      BY <1>0, <2>2, <2>7 DEF IInv, OwnAnswer, Types
    <2>18. OfflineHoldsNothing' /\ NoMissedNotice'
      BY <1>1, <1>2, <2>4 DEF IInv, OfflineHoldsNothing, NoMissedNotice, Offline
    <2> QED
      BY <1>0, <2>9, <2>11, <2>12, <2>13, <2>14, <2>15, <2>16, <2>17, <2>18 DEF IInv
  <1> QED
    BY <1>4, <1>5

\* The loop wakes, a notice is sent, arrives or is taken.
LEMMA NoticeKeeps ==
  ASSUME IInv, Wake \/ Commit \/ Told \/ WakeUp
  PROVE  IInv'
  <1>0. Types /\ OneSide
    BY DEF IInv
  <1>1. UNCHANGED <<conn, failures, queued, inFlight, nextId, status, answers, toServer, toClient>>
    BY DEF Wake, Commit, Told, WakeUp, frames
  <1>2. Held' = Held /\ Ready' = Ready
    BY <1>1 DEF Held, Ready
  <1>3. Somewhere' = Somewhere
    BY <1>1, <1>2 DEF Somewhere
  <1>4. Types'
    <2>1. news' \in BOOLEAN /\ telling' \in BOOLEAN /\ notice' \in BOOLEAN
      BY <1>0 DEF Wake, Commit, Told, WakeUp, Types, notices, Ready
    <2>2. loop' \in {"connect", "open", "failed", "sleep", "ended"}
      BY <1>0 DEF Wake, Commit, Told, WakeUp, Types
    <2> QED
      BY <1>0, <1>1, <2>1, <2>2 DEF Types
  <1>5. OneSide'
    BY <1>0, <1>1, <1>2 DEF OneSide
  <1>6. OfflineHoldsNothing'
    BY <1>1, <1>2 DEF IInv, OfflineHoldsNothing, Offline, Wake, Commit, Told, WakeUp
  <1>7. NoMissedNotice'
    BY <1>2 DEF IInv, NoMissedNotice, Wake, Commit, Told, WakeUp, notices
  <1> QED
    BY <1>1, <1>2, <1>3, <1>4, <1>5, <1>6, <1>7, SameHeldKeeps

-----------------------------------------------------------------------------
(* The invariant, and what it gives.                                       *)

\* The transport keeps its inductive invariant.
THEOREM TransportIInv == Spec => []IInv
  <1>1. IInv /\ [Next]_vars => IInv'
    <2> SUFFICES ASSUME IInv, [Next]_vars
                 PROVE  IInv'
      OBVIOUS
    <2>1. ASSUME UNCHANGED vars
          PROVE  IInv'
      <3>1. Held' = Held
        BY <2>1 DEF vars, frames, Held, Ready
      <3>2. Somewhere' = Somewhere
        BY <2>1, <3>1 DEF vars, frames, Somewhere
      <3>3. Types' /\ OneSide'
        BY <2>1 DEF vars, frames, notices, IInv, Types, OneSide, Ready
      <3>4. OfflineHoldsNothing' /\ NoMissedNotice'
        BY <2>1 DEF vars, frames, notices, IInv, OfflineHoldsNothing, NoMissedNotice, Offline, Ready
      <3> QED
        BY <2>1, <3>1, <3>2, <3>3, <3>4, SameHeldKeeps DEF vars, frames
    <2>2. ASSUME NEW x \in Exchange, Ask(x) \/ Interrupt(x) \/ Answer(x) \/ Receive(x)
          PROVE  IInv'
      BY <2>2, AskKeeps, InterruptKeeps, AnswerKeeps, ReceiveKeeps
    <2>3. ASSUME Connect \/ Open \/ Close \/ LoopFails \/ Dispose
          PROVE  IInv'
      BY <2>3, ConnectKeeps, OpenKeeps, CloseKeeps, LoopFailsKeeps, DisposeKeeps
    <2> QED
      BY <2>1, <2>2, <2>3, NoticeKeeps DEF Next
  <1> QED
    BY InitKeeps, <1>1, PTL DEF Spec
\* "A late reply cannot resolve a newer frame": whoever is answered has the
\* answer made for its own call, whatever was lost, sent again or given up.
THEOREM AnswersAreOwn == Spec => []OwnAnswer
  <1>1. IInv => OwnAnswer
    BY DEF IInv
  <1> QED
    BY <1>1, TransportIInv, PTL

\* After too many closes the queue stays empty until a socket opens.
THEOREM OfflineIsEmpty == Spec => []OfflineHoldsNothing
  <1>1. IInv => OfflineHoldsNothing
    BY DEF IInv
  <1> QED
    BY <1>1, TransportIInv, PTL

\* A change that happened between two connections is a wake-up that waits.
THEOREM NoticeIsNotMissed == Spec => []NoMissedNotice
  <1>1. IInv => NoMissedNotice
    BY DEF IInv
  <1> QED
    BY <1>1, TransportIInv, PTL

\* Frames are in flight only on an open socket, and always in the order of
\* their calls, requeued ones included.
THEOREM OrderIsKept == Spec => []OldestFirst
  <1>1. IInv => OldestFirst
    BY HeldIsBoth DEF IInv, OldestFirst, OneSide, Increasing
  <1> QED
    BY <1>1, TransportIInv, PTL

\* Entries and waiting callers are one to one, so `Refuses` counts callers.
THEOREM OneSlotPerCaller == Spec => []OneSlotEach
  <1>1. ASSUME IInv
        PROVE  OneSlotEach
    <2>0. /\ Types /\ Held \in Seq(Frame) /\ queued \o inFlight = Held
          /\ Len(queued) + Len(inFlight) = Len(Held)
          /\ CallsOf(Held) = Waiting /\ Increasing(Held) /\ IdsName(Somewhere)
      BY <1>1, HeldIsBoth DEF IInv
    <2> DEFINE f == [n \in 1..Len(Held) |-> Held[n].call]
    <2>1. Len(Held) \in Nat /\ DOMAIN Held = 1..Len(Held)
      BY <2>0
    <2>2. \A n \in 1..Len(Held) : Held[n] \in Somewhere
      BY <2>1 DEF Somewhere, ToSet
    <2>3. f \in [1..Len(Held) -> Waiting]
      BY <2>0, <2>1 DEF CallsOf
    <2>4. \A y \in Waiting : \E n \in 1..Len(Held) : f[n] = y
      BY <2>0, <2>1 DEF CallsOf
    <2>5. ASSUME NEW m \in 1..Len(Held), NEW n \in 1..Len(Held), f[m] = f[n]
          PROVE  m = n
      <3>1. Held[m].id = Held[n].id
        BY <2>0, <2>2, <2>5 DEF IdsName
      <3>2. Held[m].id \in Nat /\ Held[n].id \in Nat
        BY <2>0, <2>2, SomewhereTyped
      <3>3. /\ m < n => Held[m].id < Held[n].id
            /\ n < m => Held[n].id < Held[m].id
        BY <2>0, <2>1 DEF Increasing
      <3> QED
        BY <2>1, <3>1, <3>2, <3>3
    <2>6. f \in Bijection(1..Len(Held), Waiting)
      <3> HIDE DEF f
      <3> QED
        BY <2>3, <2>4, <2>5 DEF Bijection, Injection, Surjection, IsInjective
    <2>7. Cardinality(Waiting) = Len(Held)
      <3>1. ExistsBijection(1..Len(Held), Waiting)
        BY <2>6 DEF ExistsBijection
      <3> QED
        BY <2>1, <3>1, FS_CountingElements
    <2> QED
      BY <2>0, <2>7 DEF OneSlotEach
  <1> QED
    BY <1>1, TransportIInv, PTL

-----------------------------------------------------------------------------
(* The types, with the bounds of the queue and of the ids.                 *)

\* The calls that were made.
Made == {x \in Exchange : status[x] # "none"}

IdsCounted == nextId <= Cardinality(Made)

LEMMA MadeFinite ==
  ASSUME NEW S, S \subseteq Exchange
  PROVE  IsFiniteSet(S) /\ Cardinality(S) \in Nat
  BY ExchangeAssumption, FS_Subset, FS_CardinalityType

\* A call is refused or takes the next id; nothing else takes one.
LEMMA IdsCountCalls ==
  ASSUME IInv, IdsCounted, [Next]_vars
  PROVE  IdsCounted'
  <1>0. /\ nextId \in Nat /\ status \in [Exchange -> {"none", "waiting", "answered", "failed", "interrupted"}]
        /\ Made \subseteq Exchange /\ Made' \subseteq Exchange
    BY DEF IInv, Types, Made
  <1>1. ASSUME NEW x \in Exchange, Ask(x)
        PROVE  IdsCounted'
    <2>1. x \notin Made /\ Made' = Made \cup {x} /\ nextId' \in {nextId, nextId + 1}
      BY <1>0, <1>1 DEF Ask, Refuses, Accepts, Made
    <2>2. Cardinality(Made') = Cardinality(Made) + 1
      BY <1>0, <2>1, MadeFinite, FS_AddElement
    <2> QED
      BY <1>0, <2>1, <2>2, MadeFinite DEF IdsCounted
  <1>2. ASSUME nextId' = nextId, Made \subseteq Made'
        PROVE  IdsCounted'
    <2>1. Cardinality(Made) <= Cardinality(Made')
      BY <1>0, <1>2, MadeFinite, FS_Subset
    <2> QED
      BY <1>0, <1>2, <2>1, MadeFinite DEF IdsCounted
  <1>3. ASSUME status' = status \/ AllFail
        PROVE  Made \subseteq Made'
    BY <1>3 DEF Made, AllFail
  <1>4. ASSUME NEW x \in Exchange, Interrupt(x) \/ Answer(x) \/ Receive(x)
        PROVE  nextId' = nextId /\ Made \subseteq Made'
    <2>1. nextId' = nextId
      BY <1>4 DEF Interrupt, Answer, Receive
    <2>2. CASE Interrupt(x)
      BY <1>0, <2>2 DEF Interrupt, Made
    <2>3. CASE Answer(x)
      BY <1>3, <2>3 DEF Answer
    <2>4. CASE Receive(x)
      <3>1. status' = status \/ \E y : status' = [status EXCEPT ![y] = "answered"]
        BY <2>4 DEF Receive
      <3>2. CASE status' = status
        BY <2>1, <3>2 DEF Made
      <3>3. ASSUME NEW y, status' = [status EXCEPT ![y] = "answered"]
            PROVE  Made \subseteq Made'
        BY <1>0, <3>3 DEF Made
      <3> QED
        BY <2>1, <3>1, <3>2, <3>3
    <2> QED
      BY <1>4, <2>1, <2>2, <2>3, <2>4
  <1>5. ASSUME Connect \/ Open \/ Close \/ LoopFails \/ Wake \/ Dispose \/ Commit \/ Told \/ WakeUp
               \/ UNCHANGED vars
        PROVE  nextId' = nextId /\ (status' = status \/ AllFail)
    BY <1>5 DEF Connect, Open, Close, LoopFails, Wake, Dispose, Commit, Told, WakeUp, vars, frames
  <1> QED
    BY <1>1, <1>2, <1>3, <1>4, <1>5 DEF Next

\* Every variable keeps its type, and the queue its bound.
THEOREM TransportTypeOK == Spec => []TypeOK
  <1>1. Init => IdsCounted
    BY FS_EmptySet DEF Init, Made, IdsCounted
  <1>2. IInv /\ IdsCounted /\ [Next]_vars => IdsCounted'
    BY IdsCountCalls
  <1>3. ASSUME IInv, IdsCounted
        PROVE  TypeOK
    <2>0. /\ Types /\ queued \o inFlight = Held /\ Len(queued) + Len(inFlight) = Len(Held)
          /\ Len(Held) <= MaxQueue /\ IdsName(Somewhere)
      BY <1>3, HeldIsBoth DEF IInv
    <2>1. nextId \in 0..Cardinality(Exchange)
      <3>1. Cardinality(Made) <= Cardinality(Exchange)
        BY ExchangeAssumption, FS_Subset DEF Made
      <3>2. Cardinality(Made) \in Nat /\ Cardinality(Exchange) \in Nat
        BY MadeFinite DEF Made
      <3> QED
        BY <1>3, <2>0, <3>1, <3>2 DEF Types, IdsCounted
    <2>2. \A f \in Somewhere : f \in [id : 0..nextId, call : Exchange]
      <3> SUFFICES ASSUME NEW f \in Somewhere
                   PROVE  f \in [id : 0..nextId, call : Exchange]
        OBVIOUS
      <3>1. f \in Frame /\ f.id \in Nat /\ f.call \in Exchange
        BY <2>0, SomewhereTyped
      <3>2. f.id < nextId /\ nextId \in Nat
        BY <2>0 DEF IdsName, Types
      <3>3. f.id \in 0..nextId
        BY <3>1, <3>2
      <3> QED
        BY <3>1, <3>3 DEF Frame
    <2>3. ToSet(queued \o inFlight) \cup toServer \cup toClient = Somewhere
      BY <2>0 DEF Somewhere
    <2> QED
      BY <2>0, <2>1, <2>2, <2>3 DEF TypeOK, Types
  <1> QED
    BY <1>1, <1>2, <1>3, TransportIInv, PTL DEF Spec
=============================================================================
