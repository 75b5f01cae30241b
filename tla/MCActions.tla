----------------------------- MODULE MCActions -----------------------------
(* Controlled Actions: the runtime of one, of two EventTypes as               *)
(* epoch.publication has, with an automatic and a manual caller; and the      *)
(* control plane of one whose Policy governs two Zones the evaluator scans    *)
(* one after the other, with two editors and one operator.  The control       *)
(* plane sees a runtime by its boundaries only, so that part says whose       *)
(* behaviour it is.                                                           *)
EXTENDS ActionRuntime

CONSTANTS
  Scan, Editors, Operators, Settings, MaxRevision, MaxEvents, LastInput, MaxClock,
  z1, z2, ta, tb, known, other, automatic, manual, a1, e1, e2, o1

VARIABLES
  part,
  policies, seen, inputs, draft, position, scheduled, failures, token, evaluator, operator,
  clock, stale

planeVars == <<policies, seen, inputs, draft, position, scheduled, failures, token, evaluator,
               operator, clock, stale>>

Plane == INSTANCE ControlPlane WITH log <- inputs, failed <- failures

ASSUME RuntimeAssumptions == Assumptions
ASSUME PlaneAssumptions == Plane!Assumptions

TwoKeys == <<ta, tb>>
OneKey == <<ta>>

OnePair == << <<z1, a1>> >>
TwoZones == << <<z1, a1>>, <<z2, a1>> >>

\* Two inputs start an Action whose Policy is Batch at once, one when it has
\* waited; an editor cannot publish what is Wrong.  Suspended behaves as Manual
\* does for the evaluator and as a missing Policy for the operator.
Batch  == [mode |-> "automatic", minimum |-> 2, wait |-> 1]
Manual == [mode |-> "manual", minimum |-> 0, wait |-> 0]
Wrong  == [mode |-> "manual", minimum |-> 1, wait |-> 0]
AllSettings == {Batch, Manual, Wrong}
BatchOnly == {Batch}

-----------------------------------------------------------------------------

ActionsInit ==
  /\ part \in {"runtime", "control_plane"}
  /\ Init
  /\ Plane!Init

ActionsNext ==
  \/ part = "runtime" /\ Next /\ UNCHANGED <<part, planeVars>>
  \/ part = "control_plane" /\ Plane!Next /\ UNCHANGED <<part, vars>>

\* The fairness of FairSpec of both modules, which asks for nothing in the
\* behaviours of the other.
RuntimeFairness ==
  /\ WF_vars(part = "runtime" /\ RunStep)
  /\ \A z \in Zones : SF_vars(part = "runtime" /\ Take(z))
  /\ \A c \in Callers : WF_vars(part = "runtime" /\ CallStep(c))
  /\ \A c \in Starters, z \in Zones : SF_vars(part = "runtime" /\ Request(c, z))

PlaneFairness ==
  /\ WF_planeVars(part = "control_plane" /\ Plane!Evaluate)
  /\ \A p \in Plane!Pairs :
       WF_planeVars(part = "control_plane" /\ (Plane!Consume(p) \/ Plane!Fail(p)))
  /\ WF_planeVars(part = "control_plane" /\ (Plane!CommitInput \/ Plane!RollbackInput))
  /\ WF_planeVars(part = "control_plane" /\ Plane!Tick)

ActionsSpec ==
  /\ ActionsInit
  /\ [][ActionsNext]_<<part, vars, planeVars>>
  /\ RuntimeFairness
  /\ PlaneFairness

-----------------------------------------------------------------------------

\* The properties of ControlPlane, as it states them: a Policy that is changed
\* stops its Action but for the start in progress (controlplane/
\* automatic_evaluator.go), input is worked on (action_signals.go), and the
\* pending input an evaluation reads is not younger than it (trigger.go).
AtMostOneStaleStart == Plane!AtMostOneStaleStart
EventuallyStarted == Plane!EventuallyStarted
PendingSinceValid == Plane!PendingSinceValid
=============================================================================
