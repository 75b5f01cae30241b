------------------------------ MODULE EventLog ------------------------------
(***************************************************************************)
(* What the Journal promises its consumers: one append-only sequence of    *)
(* events per Zone and EventType.  An event, once readable, keeps its      *)
(* place forever, nothing is ever inserted in front of it, and no event    *)
(* is readable twice.  Journal.tla is shown to implement this.             *)
(***************************************************************************)
EXTENDS Naturals, Sequences

CONSTANTS Zones, EventTypes

VARIABLE log     \* log[z][t] : the events of EventType t in Zone z, in order

Init == log = [z \in Zones |-> [t \in EventTypes |-> << >>]]

\* l is an initial part of m.
Prefix(l, m) ==
  /\ Len(l) <= Len(m)
  /\ \A i \in 1 .. Len(l) : m[i] = l[i]

\* No EventID stands at two places of the logs L.
NoRepeat(L) ==
  \A z1, z2 \in Zones, t1, t2 \in EventTypes :
    \A i \in 1 .. Len(L[z1][t1]), j \in 1 .. Len(L[z2][t2]) :
      L[z1][t1][i].id = L[z2][t2][j].id => z1 = z2 /\ t1 = t2 /\ i = j

\* Events of any Zones and EventTypes become readable together.
Extend ==
  /\ \A z \in Zones, t \in EventTypes : Prefix(log[z][t], log'[z][t])
  /\ NoRepeat(log')

\* Nothing that readers could see, or more of the logs.
Next == UNCHANGED log \/ Extend

Spec == Init /\ [][Next]_log
=============================================================================
