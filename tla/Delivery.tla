------------------------------ MODULE Delivery ------------------------------
(***************************************************************************)
(* What one consumer of the Journal is promised: every event of an         *)
(* EventKey it handles takes effect at least once, and its durable         *)
(* position passes an event only after that.  ActionRuntime.tla and        *)
(* Dispatcher.tla are shown to implement this.                             *)
(***************************************************************************)
EXTENDS Naturals, Sequences

CONSTANTS Zones, EventTypes, Versions,
          KeyVersion    \* the schema version of the EventKeys handled

VARIABLES
  log,        \* log[z][t] : the schema versions of the committed events
  positions,  \* positions[z][t] : the next EventType sequence to consume
  results     \* <<z, t, n>> : the effect of event n of t in z is committed

vars == <<log, positions, results>>

\* Event n (numbered from 0) of EventType t is one the consumer handles.
Handles(z, t, n) == n < Len(log[z][t]) /\ log[z][t][n + 1] = KeyVersion

Init ==
  /\ log = [z \in Zones |-> [t \in EventTypes |-> << >>]]
  /\ positions = [z \in Zones |-> [t \in EventTypes |-> 0]]
  /\ results = {}

Publish(z, t, v) ==
  /\ log' = [log EXCEPT ![z][t] = Append(@, v)]
  /\ UNCHANGED <<positions, results>>

Effect(z, t, n) ==
  /\ Handles(z, t, n)
  /\ results' = results \union {<<z, t, n>>}
  /\ UNCHANGED <<log, positions>>

Pass(z, t) ==
  LET n == positions[z][t] IN
    /\ n < Len(log[z][t])
    /\ Handles(z, t, n) => <<z, t, n>> \in results
    /\ positions' = [positions EXCEPT ![z][t] = n + 1]
    /\ UNCHANGED <<log, results>>

Next ==
  \E z \in Zones, t \in EventTypes :
    \/ \E v \in Versions : Publish(z, t, v)
    \/ \E n \in 0 .. Len(log[z][t]) : Effect(z, t, n)
    \/ Pass(z, t)

Spec == Init /\ [][Next]_vars

(* No event a consumer handles is behind its position without its effect.   *)
NothingPassedUnhandled ==
  \A z \in Zones, t \in EventTypes :
    \A n \in 0 .. positions[z][t] - 1 :
      Handles(z, t, n) => <<z, t, n>> \in results
=============================================================================
