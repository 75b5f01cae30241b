----------------------------- MODULE Dispatcher -----------------------------
(***************************************************************************)
(* One Consumer of the Journal Dispatcher (journal/dispatcher.go): its     *)
(* goroutine polls the keys it registered, takes one Zone with pending     *)
(* events at a time, hands every event to the Consumer, follows the direct *)
(* continuation on the event's Stream, and moves the durable position.     *)
(*                                                                         *)
(* Consumers share nothing but the Journal, so one of them is modelled.    *)
(* journal[z] lists the committed events of Zone z in commit order; an     *)
(* event is known by its index in it.                                      *)
(***************************************************************************)
EXTENDS Naturals, Sequences, FiniteSetsExt, Functions

CONSTANTS
  Zones,
  EventTypes, Versions, Streams,
  Keys,          \* the EventTypes of the registered keys, in order
  KeyVersion,    \* their schema version
  MaxEvents,     \* bound on the events of a Zone
  MaxRestarts    \* bound on the times the process stops and starts again

KeyTypes == Range(Keys)

ASSUME ZonesAssumption == Zones # {}
ASSUME KeysAssumption ==
  KeyTypes \subseteq EventTypes /\ Keys \in Seq(KeyTypes) /\ Keys # << >> /\ IsInjective(Keys)
ASSUME VersionAssumption == KeyVersion \in Versions
ASSUME BoundsAssumption == MaxEvents \in Nat /\ MaxRestarts \in Nat

VARIABLES
  journal,    \* durable: journal[z], events [type, version, stream, cause]
  positions,  \* durable: positions[z][t], the next EventType sequence
  handled,    \* durable: <<z, i>> whose business result has committed
  loop,       \* the goroutine of runConsumer
  restarts    \* how often the process has stopped (history)

vars == <<journal, positions, handled, loop, restarts>>

\* loop.pc: "scanning" key, "bounding" its walk in zone, "walking" from
\* position up to through, "following" the Stream after event current,
\* "advancing" behind an event, "sleeping" until the poll timer fires.
Scan(key) == [pc |-> "scanning", key |-> key, zone |-> CHOOSE z \in Zones : TRUE,
              position |-> 0, through |-> 0, current |-> 0]

-----------------------------------------------------------------------------
(* The Journal as the reader shows it *)

\* The indices of the events of type t, and the EventType sequence of event i.
OfType(z, t)   == {i \in DOMAIN journal[z] : journal[z][i].type = t}
Sequence(z, i) == Cardinality({j \in OfType(z, journal[z][i].type) : j < i})

\* EventTypePosition : the sequence the next event of type t will get.
TypePosition(z, t) == Cardinality(OfType(z, t))

\* Event.Key() is one of the registered keys.
Registered(e) == e.type \in KeyTypes /\ e.version = KeyVersion

\* PendingZone: some event of the exact key at or after the position.
HasPending(z, t) ==
  \E i \in OfType(z, t) :
    Registered(journal[z][i]) /\ Sequence(z, i) >= positions[z][t]

\* StreamEventsAfter with limit 1: the indices of the next event, or none.
NextOnStream(z, i) ==
  LET later == {j \in DOMAIN journal[z] : j > i /\ journal[z][j].stream = journal[z][i].stream}
  IN {j \in later : \A k \in later : j <= k}

-----------------------------------------------------------------------------
Init ==
  /\ journal = [z \in Zones |-> << >>]
  /\ positions = [z \in Zones |-> [t \in EventTypes |-> 0]]
  /\ handled = {}
  /\ loop = Scan(1)
  /\ restarts = 0

\* A producer commits an event, caused by an earlier one or by none (0).
Publish(z, t, v, s, cause) ==
  /\ Len(journal[z]) < MaxEvents
  /\ cause \in {0} \union DOMAIN journal[z]
  /\ journal' = [journal EXCEPT ![z] =
       Append(@, [type |-> t, version |-> v, stream |-> s, cause |-> cause])]
  /\ UNCHANGED <<positions, handled, loop, restarts>>

\* processPending asks for a Zone; the order of occurrence times between
\* Zones is left open.
PickZone(z) ==
  /\ loop.pc = "scanning"
  /\ HasPending(z, Keys[loop.key])
  /\ loop' = [loop EXCEPT !.pc = "bounding", !.zone = z]
  /\ UNCHANGED <<journal, positions, handled, restarts>>

\* Mutant: the scan does not end behind the last key.
NothingPending_NoEnd ==
  /\ loop.pc = "scanning"
  /\ \A z \in Zones : ~HasPending(z, Keys[loop.key])
  /\ loop' = Scan(loop.key + 1)
  /\ UNCHANGED <<journal, positions, handled, restarts>>

\* Mutant: the scan ends at the first key with nothing pending.
NothingPending_EndsScan ==
  /\ loop.pc = "scanning"
  /\ \A z \in Zones : ~HasPending(z, Keys[loop.key])
  /\ loop' = [Scan(1) EXCEPT !.pc = "sleeping"]
  /\ UNCHANGED <<journal, positions, handled, restarts>>

\* Nothing pending: the next key, or the poll timer after the last one.
NothingPending ==
  /\ loop.pc = "scanning"
  /\ \A z \in Zones : ~HasPending(z, Keys[loop.key])
  /\ loop' = IF loop.key < Len(Keys) THEN Scan(loop.key + 1)
                                     ELSE [Scan(1) EXCEPT !.pc = "sleeping"]
  /\ UNCHANGED <<journal, positions, handled, restarts>>

\* The poll timer.
Poll ==
  /\ loop.pc = "sleeping"
  /\ loop' = Scan(1)
  /\ UNCHANGED <<journal, positions, handled, restarts>>

\* processEventType reads the position and the end of the EventType.
Bound ==
  LET t == Keys[loop.key] IN
    /\ loop.pc = "bounding"
    /\ loop' = [loop EXCEPT !.pc = "walking",
                            !.position = positions[loop.zone][t],
                            !.through = TypePosition(loop.zone, t)]
    /\ UNCHANGED <<journal, positions, handled, restarts>>

\* The walk stands before event i.
At(i) ==
  /\ loop.pc = "walking"
  /\ loop.position < loop.through
  /\ i \in OfType(loop.zone, Keys[loop.key])
  /\ Sequence(loop.zone, i) = loop.position

\* The walk is over; a processed key sends the scan back to the first one.
EndOfType ==
  /\ loop.pc = "walking"
  /\ loop.position >= loop.through
  /\ loop' = Scan(1)
  /\ UNCHANGED <<journal, positions, handled, restarts>>

\* The Consumer commits its business result for an event and returns nil.
Take(i) ==
  /\ handled' = handled \union {<<loop.zone, i>>}
  /\ loop' = [loop EXCEPT !.pc = "following", !.current = i]
  /\ UNCHANGED <<journal, positions, restarts>>

Handle(i) ==
  /\ At(i)
  /\ Registered(journal[loop.zone][i])
  /\ Take(i)

SkipVersion(i) ==
  /\ At(i)
  /\ ~Registered(journal[loop.zone][i])
  /\ loop' = [loop EXCEPT !.pc = "advancing"]
  /\ UNCHANGED <<journal, positions, handled, restarts>>

\* Mutant: any next event of the Stream is followed.
Continues_AnyCause(j) ==
  /\ j \in NextOnStream(loop.zone, loop.current)
  /\ Registered(journal[loop.zone][j])

\* handleCausalStream: j is the direct continuation of the current event.
Continues(j) ==
  /\ j \in NextOnStream(loop.zone, loop.current)
  /\ journal[loop.zone][j].cause = loop.current
  /\ Registered(journal[loop.zone][j])

\* Mutant: following moves the position of the followed EventType.
Follow_Advances(j) ==
  /\ loop.pc = "following"
  /\ Continues(j)
  /\ positions' = [positions EXCEPT ![loop.zone][journal[loop.zone][j].type] = Sequence(loop.zone, j) + 1]
  /\ handled' = handled \union {<<loop.zone, j>>}
  /\ loop' = [loop EXCEPT !.current = j]
  /\ UNCHANGED <<journal, restarts>>

Follow(j) ==
  /\ loop.pc = "following"
  /\ Continues(j)
  /\ Take(j)

EndOfStream ==
  /\ loop.pc = "following"
  /\ \A j \in DOMAIN journal[loop.zone] : ~Continues(j)
  /\ loop' = [loop EXCEPT !.pc = "advancing"]
  /\ UNCHANGED <<journal, positions, handled, restarts>>

\* Mutant: the position moves in memory only.
AdvancePosition_InMemory ==
  /\ loop.pc = "advancing"
  /\ loop' = [loop EXCEPT !.pc = "walking", !.position = @ + 1, !.current = 0]
  /\ UNCHANGED <<journal, positions, handled, restarts>>

\* Advance compares the durable position with the one of the walk.
AdvancePosition ==
  LET t == Keys[loop.key] IN
    /\ loop.pc = "advancing"
    /\ positions[loop.zone][t] = loop.position
    /\ loop.position + 1 <= TypePosition(loop.zone, t)
    /\ positions' = [positions EXCEPT ![loop.zone][t] = loop.position + 1]
    /\ loop' = [loop EXCEPT !.pc = "walking", !.position = @ + 1, !.current = 0]
    /\ UNCHANGED <<journal, handled, restarts>>

\* The process stops - killed, or because any error of the Consumer or of a
\* read made Run return - and starts again.
Restart ==
  /\ restarts < MaxRestarts
  /\ restarts' = restarts + 1
  /\ loop' = Scan(1)
  /\ UNCHANGED <<journal, positions, handled>>

Walk ==
  \/ \E z \in Zones : PickZone(z)
  \/ NothingPending
  \/ Poll
  \/ Bound
  \/ EndOfType
  \/ \E i \in 1 .. MaxEvents :
       \/ Handle(i)
       \/ SkipVersion(i)
       \/ Follow(i)
  \/ EndOfStream
  \/ AdvancePosition

Next ==
  \/ \E z \in Zones, t \in EventTypes, v \in Versions, s \in Streams :
       \E cause \in 0 .. MaxEvents : Publish(z, t, v, s, cause)
  \/ Walk
  \/ Restart

Spec == Init /\ [][Next]_vars

\* The goroutine keeps running; producers and crashes may stop.
FairSpec == Spec /\ WF_vars(Walk)

-----------------------------------------------------------------------------
(* Properties *)

Events == [type : EventTypes, version : Versions, stream : Streams, cause : Nat]

TypeOK ==
  /\ journal \in [Zones -> Seq(Events)]
  /\ positions \in [Zones -> [EventTypes -> Nat]]
  /\ handled \subseteq Zones \X Nat
  /\ loop \in [pc : {"scanning", "bounding", "walking", "following", "advancing", "sleeping"},
               key : 1 .. Len(Keys), zone : Zones,
               position : Nat, through : Nat, current : Nat]
  /\ restarts \in Nat

(* An effect runs ahead of an earlier event of its EventType only as the    *)
(* direct continuation of an event already handled (dispatcher.go:251).     *)
AheadOnlyAsContinuation ==
  \A z \in Zones : \A i \in DOMAIN journal[z] : <<z, i>> \in handled =>
    \/ \A j \in OfType(z, journal[z][i].type) :
         (j < i /\ Registered(journal[z][j])) => <<z, j>> \in handled
    \/ /\ <<z, journal[z][i].cause>> \in handled
       /\ i \in NextOnStream(z, journal[z][i].cause)

(* A walk never handles an event its EventType's position has passed        *)
(* already: without a restart, the second delivery of an event is the one   *)
(* by its own EventType after it was followed.                              *)
WalkedOnce ==
  \A i \in 1 .. MaxEvents :
    (At(i) /\ restarts = 0 /\ <<loop.zone, i>> \in handled) =>
      /\ journal[loop.zone][i].cause # 0
      /\ i \in NextOnStream(loop.zone, journal[loop.zone][i].cause)
      /\ <<loop.zone, journal[loop.zone][i].cause>> \in handled

(* The Dispatcher gives its Consumer the delivery every consumer is         *)
(* promised, for the EventTypes it registered.                              *)
LogOf(z, t) ==
  [m \in 1 .. TypePosition(z, t) |->
     journal[z][CHOOSE i \in OfType(z, t) : Sequence(z, i) = m - 1].version]

DeliveredLog == [z \in Zones |-> [t \in KeyTypes |-> LogOf(z, t)]]

DeliveredPositions == [z \in Zones |-> [t \in KeyTypes |-> positions[z][t]]]

DeliveredResults ==
  {<<h[1], journal[h[1]][h[2]].type, Sequence(h[1], h[2])>> : h \in handled}

Promise == INSTANCE Delivery WITH
  EventTypes <- KeyTypes,
  log <- DeliveredLog, positions <- DeliveredPositions, results <- DeliveredResults

ImplementsDelivery == Promise!Spec

(* Every event of a registered key is eventually handled and behind its     *)
(* position: no order of keys, Zones, continuations and restarts starves    *)
(* one, as long as the process comes back.  An event stays in the Journal,  *)
(* so this is "it is published" ~> "it is handled and passed".              *)
EventuallyHandled ==
  \A z \in Zones : \A n \in 1 .. MaxEvents :
    []<>((n \in DOMAIN journal[z] /\ Registered(journal[z][n])) =>
           (<<z, n>> \in handled /\ Sequence(z, n) < positions[z][journal[z][n].type]))
=============================================================================
