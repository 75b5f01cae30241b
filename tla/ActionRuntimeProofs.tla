------------------------- MODULE ActionRuntimeProofs -------------------------
(***************************************************************************)
(* Proofs about ActionRuntime.tla for any Zones, EventTypes, versions and  *)
(* callers.  The invariant has two parts: Progress ties the runner's local *)
(* position to the durable one and to the committed effects; Scheduling    *)
(* orders the three in-memory boundary tables.                             *)
(***************************************************************************)
EXTENDS ActionRuntime, SequenceTheorems, TLAPS

\* The EventType the runner is at.
RunnerType == Keys[runner.key]

\* Where the runner stands, in terms of the durable state.
RunnerInPlace ==
  runner.pc \in {"delivering", "advancing"} =>
    /\ runner.key <= Len(Keys)
    /\ runner.next = positions[runner.zone][RunnerType]
    /\ runner.pc = "advancing" =>
         /\ runner.next < Len(log[runner.zone][RunnerType])
         /\ Handles(runner.zone, RunnerType, runner.next) =>
              <<runner.zone, RunnerType, runner.next>> \in results

\* Effects are committed up to the position and at most once beyond it.
ResultsInPlace ==
  \A z \in Zones, t \in EventTypes, n \in Nat :
    <<z, t, n>> \in results => n <= positions[z][t] /\ n < Len(log[z][t])

FoundWithinLog ==
  \A c \in Callers, t \in EventTypes :
    call[c].found[t] <= Len(log[call[c].zone][t])

Progress ==
  /\ RunnerInPlace
  /\ ResultsInPlace
  /\ FoundWithinLog
  /\ BoundariesWithinLog
  /\ NothingPassedUnhandled

\* A request is always for more than the boundary in progress.
RequestsBeyondActive ==
  \A z \in Zones, t \in EventTypes :
    (requests[z][t] > 0 /\ active[z][t] > 0) => requests[z][t] > active[z][t]

Scheduling == RequestsBeyondActive /\ FailedBoundaryRests /\ NoLostWake

IInv == TypeOK /\ Progress /\ Scheduling

-----------------------------------------------------------------------------
LEMMA KeysTyped ==
  ASSUME Assumptions
  PROVE  /\ Len(Keys) \in Nat \ {0}
         /\ \A k \in 1 .. Len(Keys) : Keys[k] \in EventTypes
BY EmptySeq, ElementOfSeq, LenProperties DEF Assumptions

\* Where a key index can go.
LEMMA KeyIndices ==
  ASSUME Assumptions
  PROVE  /\ 1 \in 1 .. Len(Keys) /\ 1 \in 1 .. Len(Keys) + 1
         /\ \A k \in 1 .. Len(Keys) : k \in 1 .. Len(Keys) + 1 /\ k + 1 \in 1 .. Len(Keys) + 1
         /\ \A k \in 1 .. Len(Keys) : k < Len(Keys) => k + 1 \in 1 .. Len(Keys)
<1> DEFINE n == Len(Keys)
<1>1. n \in Nat \ {0}
  BY KeysTyped
<1> HIDE DEF n
<1>2. /\ 1 \in 1 .. n /\ 1 \in 1 .. n + 1
      /\ \A k \in 1 .. n : k \in 1 .. n + 1 /\ k + 1 \in 1 .. n + 1
      /\ \A k \in 1 .. n : k < n => k + 1 \in 1 .. n
  BY <1>1
<1>3. QED BY <1>2 DEF n

LEMMA ConstantsTyped ==
  ASSUME Assumptions
  PROVE  /\ Nothing \in [EventTypes -> Nat]
         /\ [z \in Zones |-> Nothing] \in Boundaries
         /\ Idle \in Runners
         /\ [Idle EXCEPT !.pc = "taking"] \in Runners
         /\ Quiet \in Calls
<1>1. (CHOOSE z \in Zones : TRUE) \in Zones
  BY DEF Assumptions
<1>2. Nothing \in [EventTypes -> Nat]
  BY DEF Nothing
<1>3. Idle \in Runners /\ [Idle EXCEPT !.pc = "taking"] \in Runners
  BY <1>1, KeyIndices DEF Idle, Runners
<1>4. Quiet \in Calls
  BY <1>1, <1>2, KeysTyped DEF Quiet, Calls
<1>5. QED BY <1>2, <1>3, <1>4 DEF Boundaries

LEMMA InitIInv ==
  ASSUME Assumptions PROVE Init => IInv
<1> SUFFICES ASSUME Init PROVE IInv
  OBVIOUS
<1>1. TypeOK
  <2>1. log \in [Zones -> [EventTypes -> Seq(Versions)]]
    BY EmptySeq DEF Init
  <2>2. call \in [Callers -> Calls]
    BY ConstantsTyped DEF Init
  <2>3. QED BY <2>1, <2>2, ConstantsTyped DEF Init, TypeOK
<1>2. Progress
  <2>1. RunnerInPlace
    BY DEF Init, RunnerInPlace, Idle
  <2>2. ResultsInPlace
    BY DEF Init, ResultsInPlace
  <2>3. FoundWithinLog
    <3>1. ASSUME NEW c \in Callers, NEW t \in EventTypes
          PROVE  call[c].found[t] <= Len(log[call[c].zone][t])
      <4>1. call[c].found[t] = 0
        BY DEF Init, Quiet, Nothing
      <4>2. log[call[c].zone][t] = << >>
        BY DEF Assumptions, Init, Quiet
      <4>3. QED BY <4>1, <4>2
    <3>2. QED BY <3>1 DEF FoundWithinLog
  <2>4. BoundariesWithinLog
    <3>1. ASSUME NEW z \in Zones, NEW t \in EventTypes
          PROVE  log[z][t] = << >> /\ requests[z][t] = 0 /\ active[z][t] = 0 /\ positions[z][t] = 0
      BY DEF Init, Nothing
    <3>2. QED BY <3>1 DEF BoundariesWithinLog
  <2>5. NothingPassedUnhandled
    BY DEF Init, NothingPassedUnhandled, Nothing
  <2>6. QED BY <2>1, <2>2, <2>3, <2>4, <2>5 DEF Progress
<1>3. Scheduling
  BY DEF Init, Scheduling, RequestsBeyondActive, FailedBoundaryRests, NoLostWake, Nothing
<1>4. QED BY <1>1, <1>2, <1>3 DEF IInv

-----------------------------------------------------------------------------
(* Types *)

LEMMA WantedTyped ==
  ASSUME TypeOK, NEW c \in Callers
  PROVE  Wanted(c) \in [EventTypes -> Nat]
<1>1. call[c] \in Calls
  BY DEF TypeOK
<1>2. call[c].found \in [EventTypes -> Nat]
  BY <1>1 DEF Calls
<1>3. QED BY <1>2 DEF Wanted

\* A call takes one step; the rest of the memory stays.
LEMMA CallTyped ==
  ASSUME TypeOK, NEW c \in Callers, NEW k \in Calls,
         call' = [call EXCEPT ![c] = k], UNCHANGED <<durable, memory, runner, restarts>>
  PROVE  TypeOK'
BY DEF TypeOK, durable, memory

LEMMA NextTypeOK ==
  ASSUME Assumptions PROVE TypeOK /\ RunnerInPlace /\ [Next]_vars => TypeOK'
<1> SUFFICES ASSUME TypeOK, RunnerInPlace, [Next]_vars PROVE TypeOK'
  OBVIOUS
<1>0. ASSUME runner.pc \in {"delivering", "advancing"}
      PROVE  /\ runner.key \in 1 .. Len(Keys)
             /\ [runner EXCEPT !.pc = "choosing", !.key = @ + 1] \in Runners
             /\ [runner EXCEPT !.pc = "advancing"] \in Runners
             /\ [runner EXCEPT !.pc = "delivering", !.next = @ + 1] \in Runners
  <2>1. runner \in Runners
    BY DEF TypeOK
  <2>2. runner.key \in 1 .. Len(Keys)
    BY <1>0, <2>1, KeysTyped DEF RunnerInPlace, Runners
  <2>3. runner.key \in 1 .. Len(Keys) + 1 /\ runner.key + 1 \in 1 .. Len(Keys) + 1
    BY <2>2, KeyIndices
  <2>4. [runner EXCEPT !.pc = "choosing", !.key = @ + 1] \in Runners
    BY <2>1, <2>3 DEF Runners
  <2>5. [runner EXCEPT !.pc = "advancing"] \in Runners
    BY <2>1 DEF Runners
  <2>6. [runner EXCEPT !.pc = "delivering", !.next = @ + 1] \in Runners
    <3>1. runner.next + 1 \in Nat
      BY <2>1 DEF Runners
    <3>2. \A m \in Nat : [runner EXCEPT !.pc = "delivering", !.next = m] \in Runners
      BY <2>1 DEF Runners
    <3>3. QED BY <3>1, <3>2
  <2>7. QED BY <2>2, <2>4, <2>5, <2>6
<1>1. ASSUME NEW z \in Zones, NEW t \in EventTypes, NEW v \in Versions, Publish(z, t, v)
      PROVE  TypeOK'
  <2>1. log' \in [Zones -> [EventTypes -> Seq(Versions)]]
    BY <1>1 DEF TypeOK, Publish
  <2>2. QED BY <1>1, <2>1 DEF TypeOK, Publish, memory
<1>2. ASSUME NEW c \in Callers, NEW z \in Zones, Request(c, z) PROVE TypeOK'
  <2>1. [Quiet EXCEPT !.pc = "position", !.zone = z] \in Calls
    BY ConstantsTyped DEF Calls
  <2>2. QED BY <1>2, <2>1, CallTyped DEF Request
<1>3. ASSUME NEW c \in Callers, ReadPosition(c) PROVE TypeOK'
  <2>1. call[c] \in Calls
    BY DEF TypeOK
  <2>2. positions[call[c].zone][Keys[call[c].key]] \in Nat
    BY <2>1, KeysTyped DEF TypeOK, Boundaries, Calls
  <2>3. [call[c] EXCEPT !.pc = "pending",
                        !.seen = positions[call[c].zone][Keys[call[c].key]]] \in Calls
    BY <2>1, <2>2 DEF Calls
  <2>4. QED BY <1>3, <2>3, CallTyped DEF ReadPosition
<1>4. ASSUME NEW c \in Callers, ReadPending(c) PROVE TypeOK'
  <2> DEFINE t == Keys[call[c].key]
             through == Len(log[call[c].zone][t])
             found == IF HasPending(call[c].zone, t, call[c].seen)
                        THEN [call[c].found EXCEPT ![t] = through] ELSE call[c].found
  <2>1. call[c] \in Calls
    BY DEF TypeOK
  <2>2. call[c].zone \in Zones /\ call[c].key \in 1 .. Len(Keys) /\ call[c].found \in [EventTypes -> Nat]
    BY <2>1 DEF Calls
  <2>3. log[call[c].zone][t] \in Seq(Versions)
    BY <2>2, KeysTyped DEF TypeOK
  <2>4. found \in [EventTypes -> Nat]
    BY <2>2, <2>3, LenProperties
  <2> HIDE DEF found
  <2>5. CASE call[c].key < Len(Keys)
    <3>1. [call[c] EXCEPT !.pc = "position", !.key = @ + 1, !.found = found] \in Calls
      BY <2>1, <2>2, <2>4, <2>5, KeyIndices DEF Calls
    <3>2. call' = [call EXCEPT ![c] = [call[c] EXCEPT !.pc = "position", !.key = @ + 1, !.found = found]]
      BY <1>4, <2>5 DEF ReadPending, found
    <3>3. QED BY <1>4, <3>1, <3>2, CallTyped DEF ReadPending
  <2>6. CASE ~(call[c].key < Len(Keys)) /\ found = Nothing
    <3>1. call' = [call EXCEPT ![c] = Quiet]
      BY <1>4, <2>6 DEF ReadPending, found
    <3>2. QED BY <1>4, <3>1, CallTyped, ConstantsTyped DEF ReadPending
  <2>7. CASE ~(call[c].key < Len(Keys)) /\ found # Nothing
    <3>1. [call[c] EXCEPT !.pc = "schedule", !.found = found] \in Calls
      BY <2>1, <2>4 DEF Calls
    <3>2. call' = [call EXCEPT ![c] = [call[c] EXCEPT !.pc = "schedule", !.found = found]]
      BY <1>4, <2>7 DEF ReadPending, found
    <3>3. QED BY <1>4, <3>1, <3>2, CallTyped DEF ReadPending
  <2>8. QED BY <2>5, <2>6, <2>7
<1>5. ASSUME NEW c \in Callers, Schedule(c) PROVE TypeOK'
  <2>1. Wanted(c) \in [EventTypes -> Nat]
    BY WantedTyped
  <2>2. call[c] \in Calls /\ [call[c] EXCEPT !.pc = "notify"] \in Calls
    BY DEF TypeOK, Calls
  <2>3. CASE Wanted(c) = Nothing
    BY <1>5, <2>3, ConstantsTyped DEF TypeOK, Schedule, durable, memory
  <2>4. CASE Wanted(c) # Nothing
    <3>1. call' \in [Callers -> Calls]
      BY <1>5, <2>2, <2>4 DEF TypeOK, Schedule
    <3>2. failed' \in Boundaries
      BY <1>5, <2>4, ConstantsTyped DEF TypeOK, Schedule, Boundaries
    <3>3. requests' \in Boundaries
      <4>1. requests' = [requests EXCEPT ![call[c].zone] =
               [t \in EventTypes |-> IF Wanted(c)[t] > @[t] THEN Wanted(c)[t] ELSE @[t]]]
        BY <1>5, <2>4 DEF Schedule
      <4>2. requests \in Boundaries
        BY DEF TypeOK
      <4>3. QED BY <4>1, <4>2, <2>1 DEF Boundaries
    <3>4. QED BY <1>5, <2>4, <3>1, <3>2, <3>3 DEF TypeOK, Schedule, durable
  <2>5. QED BY <2>3, <2>4
<1>6. ASSUME NEW c \in Callers, Notify(c) PROVE TypeOK'
  BY <1>6, ConstantsTyped DEF TypeOK, Notify, durable
<1>7. ASSUME Wake \/ Drained \/ Choose \/ EndOfType PROVE TypeOK'
  <2>1. runner \in Runners
    BY DEF TypeOK
  <2>2. \A p \in {"waiting", "taking"} : [runner EXCEPT !.pc = p] \in Runners
    BY <2>1 DEF Runners
  <2>3. CASE Wake
    BY <2>2, <2>3 DEF TypeOK, Wake, durable
  <2>4. CASE Drained
    BY <2>2, <2>4 DEF TypeOK, Drained, durable, memory
  <2>5. CASE Choose
    <3>1. runner.key \in 1 .. Len(Keys) /\ runner.zone \in Zones
      BY <2>1, <2>5, KeysTyped DEF Choose, Runners
    <3>2. positions[runner.zone][Keys[runner.key]] \in Nat
      BY <3>1, KeysTyped DEF TypeOK, Boundaries
    <3>3. [runner EXCEPT !.key = @ + 1] \in Runners
      BY <2>1, <3>1, KeysTyped DEF Runners
    <3>4. [runner EXCEPT !.pc = "delivering",
                         !.next = positions[runner.zone][Keys[runner.key]]] \in Runners
      BY <2>1, <3>2 DEF Runners
    <3>5. runner' \in Runners
      BY <2>5, <3>3, <3>4 DEF Choose
    <3>6. QED BY <2>5, <3>5 DEF TypeOK, Choose, durable, memory
  <2>6. CASE EndOfType
    BY <2>6, <1>0 DEF TypeOK, EndOfType, durable, memory
  <2>7. QED BY <1>7, <2>3, <2>4, <2>5, <2>6
<1>8. ASSUME NEW z \in Zones, Take(z) PROVE TypeOK'
  <2>1. [pc |-> "choosing", zone |-> z, key |-> 1, next |-> 0] \in Runners
    BY KeysTyped DEF Runners
  <2>2. requests' \in Boundaries /\ active' \in Boundaries
    BY <1>8, ConstantsTyped DEF TypeOK, Take, Boundaries
  <2>3. QED BY <1>8, <2>1, <2>2 DEF TypeOK, Take, durable
<1>9. ASSUME Finish PROVE TypeOK'
  <2>1. active' \in Boundaries
    BY <1>9, ConstantsTyped DEF TypeOK, Finish, Boundaries
  <2>2. QED BY <1>9, <2>1, ConstantsTyped DEF TypeOK, Finish, durable
<1>10. ASSUME NEW z \in Zones, NEW t \in EventTypes, NEW n \in 0 .. MaxLog,
              Handle(z, t, n) \/ HandleIncomplete(z, t, n) \/ SkipVersion(z, t, n)
       PROVE  TypeOK'
  <2>1. n \in Nat
    BY DEF Assumptions
  <2>2. CASE Handle(z, t, n)
    BY <2>1, <2>2, <1>0 DEF TypeOK, Handle, At, memory
  <2>3. CASE HandleIncomplete(z, t, n)
    <3>1. failed' \in Boundaries
      BY <2>3 DEF TypeOK, HandleIncomplete, Boundaries
    <3>2. QED BY <2>3, <3>1, <1>0 DEF TypeOK, HandleIncomplete, At, durable
  <2>4. CASE SkipVersion(z, t, n)
    BY <2>4, <1>0 DEF TypeOK, SkipVersion, At, durable, memory
  <2>5. QED BY <1>10, <2>2, <2>3, <2>4
<1>11. ASSUME AdvancePosition PROVE TypeOK'
  <2>1. runner.pc = "advancing" /\ runner.next \in Nat
    BY <1>11 DEF TypeOK, AdvancePosition, Runners
  <2>2. positions' \in Boundaries
    <3>1. runner.next + 1 \in Nat
      BY <2>1
    <3>2. positions' = [positions EXCEPT ![runner.zone][Keys[runner.key]] = runner.next + 1]
      BY <1>11 DEF AdvancePosition
    <3>3. QED BY <3>1, <3>2 DEF TypeOK, Boundaries
  <2>3. QED BY <1>11, <1>0, <2>1, <2>2 DEF TypeOK, AdvancePosition, memory
<1>12. ASSUME Restart PROVE TypeOK'
  <2>1. call' \in [Callers -> Calls]
    BY <1>12, ConstantsTyped DEF Restart
  <2>2. requests' \in Boundaries /\ active' \in Boundaries /\ failed' \in Boundaries
    BY <1>12, ConstantsTyped DEF Restart
  <2>3. runner' \in Runners /\ wake' \in BOOLEAN
    BY <1>12, ConstantsTyped DEF Restart
  <2>4. restarts' \in Nat
    BY <1>12 DEF TypeOK, Restart
  <2>5. UNCHANGED durable
    BY <1>12 DEF Restart
  <2>6. QED BY <2>1, <2>2, <2>3, <2>4, <2>5 DEF TypeOK, durable
<1>13. ASSUME UNCHANGED vars PROVE TypeOK'
  BY <1>13 DEF TypeOK, vars, durable, memory
<1>14. QED
  BY <1>1, <1>2, <1>3, <1>4, <1>5, <1>6, <1>7, <1>8, <1>9, <1>10, <1>11, <1>12, <1>13
     DEF Next, CallStep, RunStep

-----------------------------------------------------------------------------
(* Progress: the runner, the positions, the effects and the log *)

\* The steps that leave the durable state alone.
LEMMA DurableFrame ==
  ASSUME Progress, UNCHANGED durable, RunnerInPlace', FoundWithinLog', BoundariesWithinLog'
  PROVE  Progress'
<1>1. ResultsInPlace' /\ NothingPassedUnhandled'
  BY DEF Progress, ResultsInPlace, NothingPassedUnhandled, Handles, durable
<1>2. QED BY <1>1 DEF Progress

\* The steps that leave the durable state and the runner alone.
LEMMA RunnerFrame ==
  ASSUME Progress, UNCHANGED <<durable, runner>>, FoundWithinLog', BoundariesWithinLog'
  PROVE  Progress'
<1>1. RunnerInPlace'
  BY DEF Progress, RunnerInPlace, RunnerType, Handles, durable
<1>2. QED BY <1>1, DurableFrame DEF durable

\* The steps of the runner that touch neither the durable state nor the calls
\* and make no boundary larger.
LEMMA BoundaryFrame ==
  ASSUME TypeOK, Progress, UNCHANGED <<durable, call>>, RunnerInPlace',
         \A z \in Zones, t \in EventTypes :
           /\ requests'[z][t] \in {0, requests[z][t], active[z][t]}
           /\ active'[z][t] \in {0, requests[z][t], active[z][t]}
  PROVE  Progress'
<1>1. FoundWithinLog'
  BY DEF Progress, FoundWithinLog, durable
<1>2. BoundariesWithinLog'
  <2>1. SUFFICES ASSUME NEW z \in Zones, NEW t \in EventTypes
                 PROVE  /\ requests'[z][t] <= Len(log[z][t])
                        /\ active'[z][t] <= Len(log[z][t])
                        /\ positions[z][t] <= Len(log[z][t])
    BY DEF BoundariesWithinLog, durable
  <2>2. Len(log[z][t]) \in Nat
    BY LenProperties DEF TypeOK
  <2>3. QED BY <2>2 DEF Progress, BoundariesWithinLog
<1>3. QED BY <1>1, <1>2, DurableFrame DEF durable

LEMMA PublishProgress ==
  ASSUME Assumptions, TypeOK, Progress, NEW z \in Zones, NEW t \in EventTypes, NEW v \in Versions,
         Publish(z, t, v)
  PROVE  Progress'
<1>1. log[z][t] \in Seq(Versions)
  BY DEF TypeOK
<1>2. \A y \in Zones, u \in EventTypes : Len(log[y][u]) \in Nat
  BY LenProperties DEF TypeOK
<1>3. \A y \in Zones, u \in EventTypes :
        log'[y][u] = IF y = z /\ u = t THEN Append(log[z][t], v) ELSE log[y][u]
  BY DEF Publish, TypeOK
<1>4. \A y \in Zones, u \in EventTypes :
        /\ Len(log'[y][u]) \in Nat
        /\ Len(log[y][u]) <= Len(log'[y][u])
        /\ \A i \in 1 .. Len(log[y][u]) : log'[y][u][i] = log[y][u][i]
  <2>1. /\ Len(Append(log[z][t], v)) = Len(log[z][t]) + 1
        /\ \A i \in 1 .. Len(log[z][t]) : Append(log[z][t], v)[i] = log[z][t][i]
    BY <1>1, AppendProperties
  <2>2. SUFFICES ASSUME NEW y \in Zones, NEW u \in EventTypes
                 PROVE  /\ Len(log'[y][u]) \in Nat
                        /\ Len(log[y][u]) <= Len(log'[y][u])
                        /\ \A i \in 1 .. Len(log[y][u]) : log'[y][u][i] = log[y][u][i]
    OBVIOUS
  <2>3. CASE y = z /\ u = t
    <3> DEFINE l == log[z][t]
               m == Append(l, v)
    <3>1. log'[y][u] = m /\ log[y][u] = l
      BY <1>3, <2>3
    <3>2. Len(l) \in Nat /\ Len(m) = Len(l) + 1 /\ \A i \in 1 .. Len(l) : m[i] = l[i]
      BY <1>2, <2>1
    <3> HIDE DEF l, m
    <3>3. QED BY <3>1, <3>2
  <2>4. CASE ~(y = z /\ u = t)
    BY <1>2, <1>3, <2>4
  <2>5. QED BY <2>3, <2>4
<1>5. \A y \in Zones, u \in EventTypes, n \in Nat :
        n < Len(log[y][u]) => (Handles(y, u, n)' <=> Handles(y, u, n))
  <2>1. SUFFICES ASSUME NEW y \in Zones, NEW u \in EventTypes, NEW n \in Nat,
                        n < Len(log[y][u])
                 PROVE  log'[y][u][n + 1] = log[y][u][n + 1] /\ n < Len(log'[y][u])
    BY DEF Handles
  <2>2. n + 1 \in 1 .. Len(log[y][u]) /\ Len(log[y][u]) \in Nat /\ Len(log'[y][u]) \in Nat
    BY <2>1, <1>2, <1>4
  <2>3. log'[y][u][n + 1] = log[y][u][n + 1]
    BY <2>2, <1>4
  <2>4. n < Len(log'[y][u])
    BY <2>1, <2>2, <1>4
  <2>5. QED BY <2>3, <2>4
<1>6. UNCHANGED <<positions, results, requests, active, runner, call>>
  BY DEF Publish, memory
<1>7. RunnerInPlace'
  <2>1. SUFFICES ASSUME runner.pc \in {"delivering", "advancing"}
                 PROVE  RunnerInPlace'
    BY <1>6 DEF RunnerInPlace
  <2>2. runner \in Runners
    BY DEF TypeOK
  <2>3. runner.zone \in Zones /\ RunnerType \in EventTypes /\ runner.next \in Nat
    BY <2>1, <2>2, KeysTyped DEF Progress, RunnerInPlace, RunnerType, Runners
  <2>4. RunnerType' = RunnerType
    BY <1>6 DEF RunnerType
  <2>5. ASSUME runner.pc = "advancing"
        PROVE  /\ runner.next < Len(log'[runner.zone][RunnerType])
               /\ Handles(runner.zone, RunnerType, runner.next)' =>
                    <<runner.zone, RunnerType, runner.next>> \in results
    <3>1. runner.next < Len(log[runner.zone][RunnerType])
      BY <2>5 DEF Progress, RunnerInPlace
    <3>2. Handles(runner.zone, RunnerType, runner.next)' <=> Handles(runner.zone, RunnerType, runner.next)
      BY <3>1, <2>3, <1>5, <1>6, <2>4
    <3>3. QED BY <3>1, <3>2, <2>3, <1>2, <1>4, <2>5 DEF Progress, RunnerInPlace
  <2>6. QED BY <2>1, <2>4, <2>5, <1>6 DEF Progress, RunnerInPlace
<1>8. ResultsInPlace'
  <2>1. SUFFICES ASSUME NEW y \in Zones, NEW u \in EventTypes, NEW n \in Nat,
                        <<y, u, n>> \in results
                 PROVE  n <= positions[y][u] /\ n < Len(log'[y][u])
    BY <1>6 DEF ResultsInPlace
  <2>2. n <= positions[y][u] /\ n < Len(log[y][u])
    BY <2>1 DEF Progress, ResultsInPlace
  <2>3. QED BY <2>2, <1>2, <1>4
<1>9. FoundWithinLog'
  <2>1. SUFFICES ASSUME NEW c \in Callers, NEW u \in EventTypes
                 PROVE  call[c].found[u] <= Len(log'[call[c].zone][u])
    BY <1>6 DEF FoundWithinLog
  <2>2. call[c] \in Calls
    BY DEF TypeOK
  <2>3. call[c].zone \in Zones /\ call[c].found[u] \in Nat
    BY <2>2 DEF Calls
  <2>4. call[c].found[u] <= Len(log[call[c].zone][u])
    BY DEF Progress, FoundWithinLog
  <2>5. QED BY <2>3, <2>4, <1>2, <1>4
<1>10. BoundariesWithinLog'
  <2>1. SUFFICES ASSUME NEW y \in Zones, NEW u \in EventTypes
                 PROVE  /\ requests[y][u] <= Len(log'[y][u])
                        /\ active[y][u] <= Len(log'[y][u])
                        /\ positions[y][u] <= Len(log'[y][u])
    BY <1>6 DEF BoundariesWithinLog
  <2>2. /\ requests[y][u] <= Len(log[y][u])
        /\ active[y][u] <= Len(log[y][u])
        /\ positions[y][u] <= Len(log[y][u])
    BY DEF Progress, BoundariesWithinLog
  <2>3. requests[y][u] \in Nat /\ active[y][u] \in Nat /\ positions[y][u] \in Nat
    BY DEF TypeOK, Boundaries
  <2>4. Len(log[y][u]) \in Nat /\ Len(log'[y][u]) \in Nat /\ Len(log[y][u]) <= Len(log'[y][u])
    BY <1>2, <1>4
  <2>5. \A m \in Nat : m <= Len(log[y][u]) => m <= Len(log'[y][u])
    BY <2>4, SMT
  <2>6. QED BY <2>2, <2>3, <2>5, Zenon
<1>11. NothingPassedUnhandled'
  <2>1. SUFFICES ASSUME NEW y \in Zones, NEW u \in EventTypes,
                        NEW n \in 0 .. positions[y][u] - 1, Handles(y, u, n)'
                 PROVE  <<y, u, n>> \in results
    BY <1>6 DEF NothingPassedUnhandled
  <2>2. positions[y][u] \in Nat /\ positions[y][u] <= Len(log[y][u])
    BY DEF TypeOK, Boundaries, Progress, BoundariesWithinLog
  <2>3. n \in Nat /\ n < Len(log[y][u])
    BY <2>2, <1>2
  <2>4. Handles(y, u, n)
    BY <2>1, <2>3, <1>5
  <2>5. QED BY <2>4 DEF Progress, NothingPassedUnhandled
<1>12. QED BY <1>7, <1>8, <1>9, <1>10, <1>11 DEF Progress

\* A caller's step that only changes the boundaries it found.
LEMMA CallProgress ==
  ASSUME TypeOK, Progress, NEW c \in Callers, NEW k \in Calls,
         call' = [call EXCEPT ![c] = k], UNCHANGED <<durable, memory, runner>>,
         \A t \in EventTypes : k.found[t] <= Len(log[k.zone][t])
  PROVE  Progress'
<1>1. FoundWithinLog'
  BY DEF Progress, FoundWithinLog, TypeOK, durable
<1>2. BoundariesWithinLog'
  BY DEF Progress, BoundariesWithinLog, durable, memory
<1>3. QED BY <1>1, <1>2, RunnerFrame

\* Nothing found is within any log.
LEMMA NothingFound ==
  ASSUME TypeOK
  PROVE  \A z \in Zones, t \in EventTypes : Nothing[t] <= Len(log[z][t])
<1>1. SUFFICES ASSUME NEW z \in Zones, NEW t \in EventTypes PROVE Nothing[t] <= Len(log[z][t])
  OBVIOUS
<1>2. Len(log[z][t]) \in Nat
  BY LenProperties DEF TypeOK
<1>3. QED BY <1>2 DEF Nothing

LEMMA RequestProgress ==
  ASSUME Assumptions, TypeOK, Progress, NEW c \in Callers, NEW z \in Zones, Request(c, z)
  PROVE  Progress'
<1> DEFINE k == [Quiet EXCEPT !.pc = "position", !.zone = z]
<1>1. k \in Calls
  BY ConstantsTyped DEF Calls
<1>2. k.zone = z /\ k.found = Nothing
  BY DEF Quiet
<1>3. QED BY <1>1, <1>2, NothingFound, CallProgress DEF Request

LEMMA ReadPositionProgress ==
  ASSUME Assumptions, TypeOK, Progress, NEW c \in Callers, ReadPosition(c)
  PROVE  Progress'
<1> DEFINE k == [call[c] EXCEPT !.pc = "pending",
                                !.seen = positions[call[c].zone][Keys[call[c].key]]]
<1>1. call[c] \in Calls
  BY DEF TypeOK
<1>2. positions[call[c].zone][Keys[call[c].key]] \in Nat
  BY <1>1, KeysTyped DEF TypeOK, Boundaries, Calls
<1>3. k \in Calls /\ k.zone = call[c].zone /\ k.found = call[c].found
  BY <1>1, <1>2 DEF Calls
<1>4. \A t \in EventTypes : k.found[t] <= Len(log[k.zone][t])
  BY <1>3 DEF Progress, FoundWithinLog
<1> HIDE DEF k
<1>5. call' = [call EXCEPT ![c] = k] /\ UNCHANGED <<durable, memory, runner>>
  BY DEF ReadPosition, k
<1>6. QED BY <1>3, <1>4, <1>5, CallProgress

LEMMA ReadPendingProgress ==
  ASSUME Assumptions, TypeOK, TypeOK', Progress, NEW c \in Callers, ReadPending(c)
  PROVE  Progress'
<1> DEFINE t == Keys[call[c].key]
           through == Len(log[call[c].zone][t])
           found == IF HasPending(call[c].zone, t, call[c].seen)
                      THEN [call[c].found EXCEPT ![t] = through] ELSE call[c].found
<1>1. call[c] \in Calls
  BY DEF TypeOK
<1>2. call[c].zone \in Zones /\ call[c].found \in [EventTypes -> Nat] /\ t \in EventTypes
  BY <1>1, KeysTyped DEF Calls
<1>3. \A u \in EventTypes : Len(log[call[c].zone][u]) \in Nat
  BY <1>2, LenProperties DEF TypeOK
<1>4. \A u \in EventTypes : found[u] <= Len(log[call[c].zone][u])
  BY <1>2, <1>3 DEF Progress, FoundWithinLog
<1> DEFINE k == IF call[c].key < Len(Keys)
                  THEN [call[c] EXCEPT !.pc = "position", !.key = @ + 1, !.found = found]
                  ELSE IF found = Nothing
                    THEN Quiet
                    ELSE [call[c] EXCEPT !.pc = "schedule", !.found = found]
<1>5. call' = [call EXCEPT ![c] = k]
  BY DEF ReadPending
<1> HIDE DEF found
<1>5a. (k.zone = call[c].zone /\ k.found = found) \/ k = Quiet
  BY <1>1 DEF Calls
<1> HIDE DEF k
<1>6. call'[c] = k
  BY <1>5 DEF TypeOK
<1>7. k \in Calls
  BY <1>6 DEF TypeOK
<1>8. Quiet.zone \in Zones /\ Quiet.found = Nothing
  BY ConstantsTyped DEF Calls, Quiet
<1>9. \A u \in EventTypes : k.found[u] <= Len(log[k.zone][u])
  BY <1>4, <1>5a, <1>8, NothingFound
<1>10. UNCHANGED <<durable, memory, runner>>
  BY DEF ReadPending
<1>11. QED BY <1>5, <1>7, <1>9, <1>10, CallProgress

LEMMA ScheduleProgress ==
  ASSUME Assumptions, TypeOK, Progress, NEW c \in Callers, Schedule(c)
  PROVE  Progress'
<1>1. call[c] \in Calls /\ call[c].zone \in Zones /\ call[c].found \in [EventTypes -> Nat]
  BY DEF TypeOK, Calls
<1>2. FoundWithinLog'
  <2>1. UNCHANGED log
    BY DEF Schedule, durable
  <2>2. \A u \in EventTypes : /\ Quiet.found[u] <= Len(log[Quiet.zone][u])
                              /\ call[c].found[u] <= Len(log[call[c].zone][u])
    <3>1. Quiet.zone \in Zones /\ Quiet.found = Nothing
      BY ConstantsTyped DEF Calls, Quiet
    <3>2. QED BY <3>1, NothingFound DEF Progress, FoundWithinLog
  <2>3. \/ call' = [call EXCEPT ![c] = Quiet]
        \/ call' = [call EXCEPT ![c] = [call[c] EXCEPT !.pc = "notify"]]
    BY DEF Schedule
  <2>4. ASSUME NEW d \in Callers
        PROVE  \/ call'[d] = Quiet
               \/ call'[d].zone = call[d].zone /\ call'[d].found = call[d].found
    <3> DEFINE k == [call[c] EXCEPT !.pc = "notify"]
    <3>1. k.zone = call[c].zone /\ k.found = call[c].found
      BY <1>1 DEF Calls
    <3>2. call' = [call EXCEPT ![c] = Quiet] \/ call' = [call EXCEPT ![c] = k]
      BY <2>3
    <3> HIDE DEF k
    <3>3. CASE d = c
      BY <3>1, <3>2, <3>3 DEF TypeOK
    <3>4. CASE d # c
      BY <3>2, <3>4 DEF TypeOK
    <3>5. QED BY <3>3, <3>4
  <2>5. \A d \in Callers, u \in EventTypes : call[d].found[u] <= Len(log[call[d].zone][u])
    BY DEF Progress, FoundWithinLog
  <2>6. QED BY <2>1, <2>2, <2>4, <2>5 DEF FoundWithinLog
<1>3. BoundariesWithinLog'
  <2>1. SUFFICES ASSUME NEW z \in Zones, NEW t \in EventTypes
                 PROVE  /\ requests'[z][t] <= Len(log[z][t])
                        /\ active'[z][t] <= Len(log[z][t])
                        /\ positions'[z][t] <= Len(log[z][t])
    BY DEF BoundariesWithinLog, Schedule, durable
  <2>2. active' = active /\ positions' = positions
    BY DEF Schedule, durable, memory
  <2>3. CASE UNCHANGED memory
    BY <2>2, <2>3 DEF Progress, BoundariesWithinLog, memory
  <2>4. CASE requests' = [requests EXCEPT ![call[c].zone] =
               [u \in EventTypes |-> IF Wanted(c)[u] > @[u] THEN Wanted(c)[u] ELSE @[u]]]
    <3>1. requests'[z][t] = requests[z][t] \/ (z = call[c].zone /\ requests'[z][t] = Wanted(c)[t])
      BY <2>4, <1>1 DEF TypeOK, Boundaries
    <3>2. Wanted(c)[t] \in {0, call[c].found[t]}
      BY DEF Wanted
    <3>3. Len(log[z][t]) \in Nat
      BY LenProperties DEF TypeOK
    <3>4. call[c].found[t] <= Len(log[call[c].zone][t])
      BY DEF Progress, FoundWithinLog
    <3>5. QED BY <2>2, <3>1, <3>2, <3>3, <3>4 DEF Progress, BoundariesWithinLog
  <2>5. QED BY <2>3, <2>4 DEF Schedule
<1>4. UNCHANGED <<durable, runner>>
  BY DEF Schedule
<1>5. QED BY <1>2, <1>3, <1>4, RunnerFrame

LEMMA NotifyProgress ==
  ASSUME Assumptions, TypeOK, Progress, NEW c \in Callers, Notify(c)
  PROVE  Progress'
<1>1. Quiet.zone \in Zones /\ Quiet.found = Nothing
  BY ConstantsTyped DEF Calls, Quiet
<1>2. FoundWithinLog'
  BY <1>1, NothingFound DEF Progress, FoundWithinLog, TypeOK, Notify, durable
<1>3. BoundariesWithinLog' /\ UNCHANGED <<durable, runner>>
  BY DEF Progress, BoundariesWithinLog, Notify, durable
<1>4. QED BY <1>2, <1>3, RunnerFrame

\* The runner's steps that move no position.
LEMMA QuietRunProgress ==
  ASSUME TypeOK, Progress,
         \/ Wake \/ Drained \/ Choose \/ EndOfType \/ Finish
         \/ \E z \in Zones : Take(z)
  PROVE  Progress'
<1>1. runner \in Runners
  BY DEF TypeOK
<1>2. CASE Wake
  <2>1. RunnerInPlace'
    BY <1>1, <1>2 DEF Wake, RunnerInPlace, Runners
  <2>2. QED BY <1>2, <2>1, BoundaryFrame DEF Wake
<1>3. CASE Drained
  <2>1. RunnerInPlace'
    BY <1>1, <1>3 DEF Drained, RunnerInPlace, Runners
  <2>2. QED BY <1>3, <2>1, BoundaryFrame DEF Drained, memory
<1>4. CASE Choose
  <2>1. UNCHANGED <<durable, memory, call>> /\ runner.key <= Len(Keys) /\ runner.pc = "choosing"
    BY <1>4 DEF Choose
  <2>2. CASE runner' = [runner EXCEPT !.key = @ + 1]
    <3>1. RunnerInPlace'
      BY <1>1, <2>1, <2>2 DEF RunnerInPlace, Runners
    <3>2. QED BY <2>1, <3>1, BoundaryFrame DEF memory
  <2>3. CASE runner' = [runner EXCEPT !.pc = "delivering",
                                      !.next = positions[runner.zone][Keys[runner.key]]]
    <3>1. RunnerInPlace'
      BY <1>1, <2>1, <2>3 DEF RunnerInPlace, RunnerType, Runners, durable
    <3>2. QED BY <2>1, <3>1, BoundaryFrame DEF memory
  <2>4. QED BY <1>4, <2>2, <2>3 DEF Choose
<1>5. CASE EndOfType
  <2>1. RunnerInPlace'
    BY <1>1, <1>5 DEF EndOfType, RunnerInPlace, Runners
  <2>2. QED BY <1>5, <2>1, BoundaryFrame DEF EndOfType, memory
<1>6. CASE Finish
  <2>1. RunnerInPlace'
    BY <1>1, <1>6 DEF Finish, RunnerInPlace, Idle
  <2>2. \A z \in Zones, t \in EventTypes : active'[z][t] \in {0, active[z][t]}
    BY <1>6 DEF Finish, TypeOK, Boundaries, Nothing
  <2>3. QED BY <1>6, <2>1, <2>2, BoundaryFrame DEF Finish
<1>7. ASSUME NEW z \in Zones, Take(z) PROVE Progress'
  <2>1. RunnerInPlace'
    BY <1>7 DEF Take, RunnerInPlace
  <2>2. \A y \in Zones, t \in EventTypes :
          /\ requests'[y][t] \in {0, requests[y][t]}
          /\ active'[y][t] \in {requests[y][t], active[y][t]}
    BY <1>7 DEF Take, TypeOK, Boundaries, Nothing
  <2>3. QED BY <1>7, <2>1, <2>2, BoundaryFrame DEF Take
<1>8. QED BY <1>2, <1>3, <1>4, <1>5, <1>6, <1>7

\* What being at an event means.
LEMMA AtPlace ==
  ASSUME TypeOK, Progress, NEW z \in Zones, NEW t \in EventTypes, NEW n, At(z, t, n)
  PROVE  /\ runner.zone = z /\ RunnerType = t /\ runner.next = n
         /\ runner.key \in 1 .. Len(Keys)
         /\ n = positions[z][t] /\ n \in Nat
         /\ n < Len(log[z][t])
<1>1. runner \in Runners
  BY DEF TypeOK
<1>2. runner.zone = z /\ RunnerType = t /\ runner.next = n
  BY DEF At, RunnerType
<1>3. runner.key \in 1 .. Len(Keys) /\ n = positions[z][t]
  BY <1>1, <1>2 DEF Progress, RunnerInPlace, At, Runners
<1>4. n \in Nat
  BY <1>3 DEF TypeOK, Boundaries
<1>5. active[z][t] <= Len(log[z][t]) /\ n < active[z][t]
  BY DEF Progress, BoundariesWithinLog, At
<1>6. active[z][t] \in Nat /\ Len(log[z][t]) \in Nat
  BY LenProperties DEF TypeOK, Boundaries
<1>7. QED BY <1>2, <1>3, <1>4, <1>5, <1>6

LEMMA HandleProgress ==
  ASSUME Assumptions, TypeOK, Progress, NEW z \in Zones, NEW t \in EventTypes, NEW n, Handle(z, t, n)
  PROVE  Progress'
<1>1. At(z, t, n)
  BY DEF Handle
<1>2. /\ runner.zone = z /\ RunnerType = t /\ runner.next = n
      /\ runner.key \in 1 .. Len(Keys)
      /\ n = positions[z][t] /\ n \in Nat
      /\ n < Len(log[z][t])
  BY <1>1, AtPlace
<1>3. /\ results' = results \union {<<z, t, n>>}
      /\ runner' = [runner EXCEPT !.pc = "advancing"]
      /\ UNCHANGED <<log, positions, requests, active, call>>
  BY DEF Handle, memory
<1>4. runner \in Runners
  BY DEF TypeOK
<1>5. RunnerInPlace'
  <2>1. runner'.zone = z /\ RunnerType' = t /\ runner'.next = n /\ runner'.key = runner.key
    BY <1>2, <1>3, <1>4 DEF RunnerType, Runners
  <2>2. runner'.key <= Len(Keys)
    BY <1>2, <2>1, KeysTyped
  <2>3. QED BY <1>2, <1>3, <2>1, <2>2 DEF RunnerInPlace
<1>6. ResultsInPlace'
  <2>1. SUFFICES ASSUME NEW y \in Zones, NEW u \in EventTypes, NEW m \in Nat,
                        <<y, u, m>> \in results'
                 PROVE  m <= positions[y][u] /\ m < Len(log[y][u])
    BY <1>3 DEF ResultsInPlace
  <2>2. CASE <<y, u, m>> \in results
    BY <2>2 DEF Progress, ResultsInPlace
  <2>3. CASE y = z /\ u = t /\ m = n
    BY <2>3, <1>2
  <2>4. QED BY <2>1, <2>2, <2>3, <1>3
<1>7. NothingPassedUnhandled'
  BY <1>3 DEF Progress, NothingPassedUnhandled, Handles
<1>8. FoundWithinLog' /\ BoundariesWithinLog'
  BY <1>3 DEF Progress, FoundWithinLog, BoundariesWithinLog
<1>9. QED BY <1>5, <1>6, <1>7, <1>8 DEF Progress

LEMMA HandleIncompleteProgress ==
  ASSUME TypeOK, Progress, NEW z \in Zones, NEW t \in EventTypes, NEW n, HandleIncomplete(z, t, n)
  PROVE  Progress'
<1>1. runner \in Runners
  BY DEF TypeOK
<1>2. RunnerInPlace'
  BY <1>1 DEF HandleIncomplete, RunnerInPlace, Runners
<1>3. QED BY <1>2, BoundaryFrame DEF HandleIncomplete

LEMMA SkipVersionProgress ==
  ASSUME Assumptions, TypeOK, Progress, NEW z \in Zones, NEW t \in EventTypes, NEW n, SkipVersion(z, t, n)
  PROVE  Progress'
<1>1. At(z, t, n)
  BY DEF SkipVersion
<1>2. /\ runner.zone = z /\ RunnerType = t /\ runner.next = n
      /\ runner.key \in 1 .. Len(Keys)
      /\ n = positions[z][t] /\ n \in Nat
      /\ n < Len(log[z][t])
  BY <1>1, AtPlace
<1>3. runner \in Runners
  BY DEF TypeOK
<1>4. /\ runner' = [runner EXCEPT !.pc = "advancing"]
      /\ ~Handles(z, t, n)
      /\ UNCHANGED <<durable, memory, call>>
  BY DEF SkipVersion
<1>5. RunnerInPlace'
  <2>1. runner'.zone = z /\ RunnerType' = t /\ runner'.next = n /\ runner'.key = runner.key
    BY <1>2, <1>3, <1>4 DEF RunnerType, Runners
  <2>2. runner'.key <= Len(Keys)
    BY <1>2, <2>1, KeysTyped
  <2>3. ~Handles(z, t, n)'
    BY <1>4 DEF Handles, durable
  <2>4. QED BY <1>2, <1>4, <2>1, <2>2, <2>3 DEF RunnerInPlace, durable
<1>6. QED BY <1>4, <1>5, BoundaryFrame DEF memory

LEMMA AdvanceProgress ==
  ASSUME Assumptions, TypeOK, Progress, AdvancePosition
  PROVE  Progress'
<1> DEFINE z == runner.zone
           t == RunnerType
           n == runner.next
<1>1. runner \in Runners /\ runner.pc = "advancing"
  BY DEF TypeOK, AdvancePosition
<1>2. runner.key \in 1 .. Len(Keys)
  BY <1>1, KeysTyped DEF Progress, RunnerInPlace, Runners
<1>3. z \in Zones /\ t \in EventTypes /\ n \in Nat
  BY <1>1, <1>2, KeysTyped DEF Runners, RunnerType
<1>4. /\ positions[z][t] = n /\ n < Len(log[z][t])
      /\ Handles(z, t, n) => <<z, t, n>> \in results
  BY <1>1 DEF Progress, RunnerInPlace
<1>5. /\ n + 1 <= Len(log[z][t])
      /\ positions' = [positions EXCEPT ![z][t] = n + 1]
      /\ runner' = [runner EXCEPT !.pc = "delivering", !.next = @ + 1]
      /\ UNCHANGED <<log, results, memory, call>>
  BY DEF AdvancePosition, RunnerType
<1>6. /\ runner'.zone = z /\ RunnerType' = t /\ runner'.next = n + 1
      /\ runner'.key = runner.key /\ runner'.pc = "delivering"
  BY <1>1, <1>5 DEF Runners, RunnerType
<1> HIDE DEF z, t, n
<1>7. \A y \in Zones, u \in EventTypes :
        positions'[y][u] = IF y = z /\ u = t THEN n + 1 ELSE positions[y][u]
  BY <1>3, <1>5 DEF TypeOK, Boundaries
<1>8. RunnerInPlace'
  <2>1. positions'[z][t] = n + 1
    BY <1>3, <1>7
  <2>2. runner.key <= Len(Keys)
    BY <1>2, KeysTyped
  <2>3. QED BY <1>6, <2>1, <2>2 DEF RunnerInPlace
<1>9. ResultsInPlace'
  <2>1. SUFFICES ASSUME NEW y \in Zones, NEW u \in EventTypes, NEW m \in Nat,
                        <<y, u, m>> \in results
                 PROVE  m <= positions'[y][u] /\ m < Len(log[y][u])
    BY <1>5 DEF ResultsInPlace
  <2>2. m <= positions[y][u] /\ m < Len(log[y][u])
    BY <2>1 DEF Progress, ResultsInPlace
  <2>3. QED BY <2>2, <1>3, <1>4, <1>7
<1>10. NothingPassedUnhandled'
  <2>1. SUFFICES ASSUME NEW y \in Zones, NEW u \in EventTypes,
                        NEW m \in 0 .. positions'[y][u] - 1, Handles(y, u, m)
                 PROVE  <<y, u, m>> \in results
    BY <1>5 DEF NothingPassedUnhandled, Handles
  <2>2. positions[y][u] \in Nat
    BY DEF TypeOK, Boundaries
  <2>3. CASE m \in 0 .. positions[y][u] - 1
    BY <2>1, <2>3 DEF Progress, NothingPassedUnhandled
  <2>4. CASE y = z /\ u = t /\ m = n
    BY <2>1, <2>4, <1>4
  <2>5. m \in 0 .. positions[y][u] - 1 \/ (y = z /\ u = t /\ m = n)
    BY <2>2, <1>3, <1>4, <1>7
  <2>6. QED BY <2>3, <2>4, <2>5
<1>11. FoundWithinLog'
  BY <1>5 DEF Progress, FoundWithinLog
<1>12. BoundariesWithinLog'
  BY <1>4, <1>5, <1>7 DEF Progress, BoundariesWithinLog, memory
<1>13. QED BY <1>8, <1>9, <1>10, <1>11, <1>12 DEF Progress

LEMMA RestartProgress ==
  ASSUME Assumptions, TypeOK, Progress, Restart
  PROVE  Progress'
<1>1. RunnerInPlace'
  BY DEF Restart, RunnerInPlace, Idle
<1>2. UNCHANGED durable
  BY DEF Restart
<1>3. FoundWithinLog'
  <2>1. Quiet.zone \in Zones /\ Quiet.found = Nothing
    BY ConstantsTyped DEF Calls, Quiet
  <2>2. QED BY <1>2, <2>1, NothingFound DEF FoundWithinLog, Restart, durable
<1>4. BoundariesWithinLog'
  <2>1. \A z \in Zones, t \in EventTypes : requests'[z][t] = Nothing[t] /\ active'[z][t] = Nothing[t]
    BY DEF Restart
  <2>2. QED BY <1>2, <2>1, NothingFound DEF Progress, BoundariesWithinLog, durable
<1>5. QED BY <1>1, <1>2, <1>3, <1>4, DurableFrame

LEMMA NextProgress ==
  ASSUME Assumptions PROVE TypeOK /\ TypeOK' /\ Progress /\ [Next]_vars => Progress'
<1> SUFFICES ASSUME TypeOK, TypeOK', Progress, [Next]_vars PROVE Progress'
  OBVIOUS
<1>1. ASSUME UNCHANGED vars PROVE Progress'
  <2>1. FoundWithinLog' /\ BoundariesWithinLog' /\ UNCHANGED <<durable, runner>>
    BY <1>1 DEF Progress, FoundWithinLog, BoundariesWithinLog, vars, durable, memory
  <2>2. QED BY <2>1, RunnerFrame
<1>2. QED
  BY <1>1, PublishProgress, RequestProgress, ReadPositionProgress, ReadPendingProgress,
     ScheduleProgress, NotifyProgress, QuietRunProgress, HandleProgress,
     HandleIncompleteProgress, SkipVersionProgress, AdvanceProgress, RestartProgress
     DEF Next, CallStep, RunStep

-----------------------------------------------------------------------------
(* Scheduling: requests, activations, failures and the wake token *)

\* The steps that leave the three tables alone.
LEMMA TablesFrame ==
  ASSUME Scheduling, UNCHANGED <<requests, active, failed>>, NoLostWake'
  PROVE  Scheduling'
BY DEF Scheduling, RequestsBeyondActive, FailedBoundaryRests

LEMMA ScheduleScheduling ==
  ASSUME TypeOK, Scheduling, NEW c \in Callers, Schedule(c)
  PROVE  Scheduling'
<1> DEFINE z == call[c].zone
           wanted == Wanted(c)
<1>1. wanted \in [EventTypes -> Nat]
  BY WantedTyped
<1>2. call[c] \in Calls
  BY DEF TypeOK
<1>3. z \in Zones /\ call[c].found \in [EventTypes -> Nat]
  BY <1>2 DEF Calls
<1>4. UNCHANGED <<runner, active>>
  BY DEF Schedule, memory
<1>5. CASE wanted = Nothing
  <2>1. UNCHANGED memory /\ call' = [call EXCEPT ![c] = Quiet] /\ call[c].pc = "schedule"
    BY <1>5 DEF Schedule
  <2>2. \A d \in Callers : call[d].pc = "notify" => call'[d].pc = "notify"
    BY <2>1 DEF TypeOK
  <2>3. NoLostWake'
    BY <1>4, <2>1, <2>2 DEF Scheduling, NoLostWake, memory
  <2>4. QED BY <2>1, <2>3, TablesFrame DEF memory
<1>6. CASE wanted # Nothing
  <2>1. /\ call' = [call EXCEPT ![c] = [call[c] EXCEPT !.pc = "notify"]]
        /\ failed' = IF c \in Retriers THEN [failed EXCEPT ![z] = Nothing] ELSE failed
        /\ requests' = [requests EXCEPT ![z] =
             [t \in EventTypes |-> IF wanted[t] > @[t] THEN wanted[t] ELSE @[t]]]
    BY <1>6 DEF Schedule
  <2>2. call'[c].pc = "notify"
    BY <1>2, <2>1 DEF TypeOK, Calls
  <2>3. NoLostWake'
    BY <2>2 DEF NoLostWake
  <2>4. ASSUME NEW y \in Zones, NEW t \in EventTypes
        PROVE  /\ requests[y][t] \in Nat /\ active[y][t] \in Nat /\ failed[y][t] \in Nat
               /\ \/ requests'[y][t] = requests[y][t]
                  \/ /\ y = z /\ wanted[t] > 0 /\ requests'[y][t] = wanted[t]
               /\ \/ c \in Retriers /\ y = z /\ failed'[y][t] = 0
                  \/ (c \notin Retriers \/ y # z) /\ failed'[y][t] = failed[y][t]
    <3>1. requests[y][t] \in Nat /\ active[y][t] \in Nat /\ failed[y][t] \in Nat
      BY DEF TypeOK, Boundaries
    <3>2. \/ c \in Retriers /\ y = z /\ failed'[y][t] = 0
          \/ (c \notin Retriers \/ y # z) /\ failed'[y][t] = failed[y][t]
      BY <2>1, <1>3 DEF TypeOK, Boundaries, Nothing
    <3>3. requests'[y][t] = IF y = z /\ wanted[t] > requests[y][t] THEN wanted[t] ELSE requests[y][t]
      BY <2>1, <1>3 DEF TypeOK, Boundaries
    <3>4. wanted[t] \in Nat
      BY <1>1
    <3> HIDE DEF wanted, z
    <3>5. QED BY <3>1, <3>2, <3>3, <3>4
  <2>5. ASSUME NEW t \in EventTypes, wanted[t] > 0
        PROVE  wanted[t] > active[z][t] /\ (c \notin Retriers => wanted[t] > failed[z][t])
    <3>1. c \notin Retriers => c \in Starters
      BY DEF Callers
    <3>2. wanted[t] = call[c].found[t] /\ ~(active[z][t] >= call[c].found[t])
          /\ ~(c \in Starters /\ failed[z][t] >= call[c].found[t])
      BY <2>5 DEF Wanted
    <3>3. call[c].found[t] \in Nat /\ active[z][t] \in Nat /\ failed[z][t] \in Nat
      BY <1>3 DEF TypeOK, Boundaries
    <3> HIDE DEF wanted, z
    <3>4. QED BY <3>1, <3>2, <3>3
  <2>6. RequestsBeyondActive'
    BY <2>4, <2>5, <1>4 DEF Scheduling, RequestsBeyondActive
  <2>7. FailedBoundaryRests'
    BY <2>4, <2>5 DEF Scheduling, FailedBoundaryRests
  <2>8. QED BY <2>3, <2>6, <2>7 DEF Scheduling
<1>7. QED BY <1>5, <1>6

LEMMA NextScheduling == TypeOK /\ Scheduling /\ [Next]_vars => Scheduling'
<1> SUFFICES ASSUME TypeOK, Scheduling, [Next]_vars PROVE Scheduling'
  OBVIOUS
<1>1. ASSUME UNCHANGED <<memory, runner, call>> PROVE Scheduling'
  <2>1. NoLostWake'
    BY <1>1 DEF Scheduling, NoLostWake, memory
  <2>2. QED BY <1>1, <2>1, TablesFrame DEF memory
<1>2. ASSUME NEW c \in Callers, NEW k,
             call' = [call EXCEPT ![c] = k], call[c].pc # "notify", UNCHANGED <<memory, runner>>
      PROVE  Scheduling'
  <2>1. \A d \in Callers : call[d].pc = "notify" => call'[d].pc = "notify"
    BY <1>2 DEF TypeOK
  <2>2. NoLostWake'
    BY <1>2, <2>1 DEF Scheduling, NoLostWake, memory
  <2>3. QED BY <1>2, <2>2, TablesFrame DEF memory
<1>3. ASSUME NEW c \in Callers, NEW z \in Zones, Request(c, z) PROVE Scheduling'
  BY <1>3, <1>2 DEF Request
<1>4. ASSUME NEW c \in Callers, ReadPosition(c) PROVE Scheduling'
  BY <1>4, <1>2 DEF ReadPosition
<1>5. ASSUME NEW c \in Callers, ReadPending(c) PROVE Scheduling'
  BY <1>5, <1>2 DEF ReadPending
<1>6. ASSUME NEW c \in Callers, Notify(c) PROVE Scheduling'
  <2>1. wake' /\ UNCHANGED <<requests, active, failed>>
    BY <1>6 DEF Notify
  <2>2. NoLostWake'
    BY <2>1 DEF NoLostWake
  <2>3. QED BY <2>1, <2>2, TablesFrame
<1>7. ASSUME UNCHANGED <<requests, active, failed, call, wake>>,
             runner'.pc # "waiting"
      PROVE  Scheduling'
  <2>1. NoLostWake'
    BY <1>7 DEF NoLostWake
  <2>2. QED BY <1>7, <2>1, TablesFrame
<1>8. ASSUME Wake PROVE Scheduling'
  <2>1. runner'.pc = "taking" /\ UNCHANGED <<requests, active, failed>>
    BY <1>8 DEF Wake, TypeOK, Runners
  <2>2. NoLostWake'
    BY <2>1 DEF NoLostWake
  <2>3. QED BY <2>1, <2>2, TablesFrame
<1>9. ASSUME NEW z \in Zones, Take(z) PROVE Scheduling'
  <2>1. /\ requests' = [requests EXCEPT ![z] = Nothing]
        /\ active' = [active EXCEPT ![z] = requests[z]]
        /\ failed' = failed /\ runner'.pc = "choosing"
    BY <1>9 DEF Take
  <2>2. \A y \in Zones, t \in EventTypes :
          /\ requests'[y][t] = IF y = z THEN 0 ELSE requests[y][t]
          /\ active'[y][t] = IF y = z THEN requests[z][t] ELSE active[y][t]
    BY <2>1 DEF TypeOK, Boundaries, Nothing
  <2>3. RequestsBeyondActive' /\ FailedBoundaryRests'
    BY <2>1, <2>2 DEF Scheduling, RequestsBeyondActive, FailedBoundaryRests
  <2>4. NoLostWake'
    BY <2>1 DEF NoLostWake
  <2>5. QED BY <2>3, <2>4 DEF Scheduling
<1>10. ASSUME Drained PROVE Scheduling'
  <2>1. requests' = [z \in Zones |-> Nothing] /\ UNCHANGED memory
    BY <1>10 DEF Drained, memory
  <2>2. NoLostWake'
    BY <2>1 DEF NoLostWake
  <2>3. QED BY <2>1, <2>2, TablesFrame DEF memory
<1>11. ASSUME Choose \/ EndOfType \/ AdvancePosition PROVE Scheduling'
  BY <1>11, <1>7 DEF Choose, EndOfType, AdvancePosition, TypeOK, Runners, memory
<1>12. ASSUME Finish PROVE Scheduling'
  <2>1. /\ active' = [active EXCEPT ![runner.zone] = Nothing]
        /\ UNCHANGED <<requests, failed>> /\ runner'.pc = "taking"
    BY <1>12 DEF Finish, Idle
  <2>2. \A y \in Zones, t \in EventTypes : active'[y][t] \in {0, active[y][t]}
    BY <2>1 DEF TypeOK, Boundaries, Nothing
  <2>3. RequestsBeyondActive' /\ FailedBoundaryRests'
    BY <2>1, <2>2 DEF Scheduling, RequestsBeyondActive, FailedBoundaryRests
  <2>4. NoLostWake'
    BY <2>1 DEF NoLostWake
  <2>5. QED BY <2>3, <2>4 DEF Scheduling
<1>13. ASSUME NEW z \in Zones, NEW t \in EventTypes, NEW n, Handle(z, t, n) \/ SkipVersion(z, t, n)
       PROVE  Scheduling'
  BY <1>13, <1>7 DEF Handle, SkipVersion, TypeOK, Runners, memory
<1>14. ASSUME NEW z \in Zones, NEW t \in EventTypes, NEW n, HandleIncomplete(z, t, n)
       PROVE  Scheduling'
  <2>1. /\ failed' = [failed EXCEPT ![z][t] = active[z][t]]
        /\ UNCHANGED <<requests, active>> /\ runner'.pc = "choosing"
    BY <1>14 DEF HandleIncomplete, TypeOK, Runners
  <2>2. \A y \in Zones, u \in EventTypes : failed'[y][u] \in {failed[y][u], active[y][u]}
    BY <2>1 DEF TypeOK, Boundaries
  <2>3. RequestsBeyondActive' /\ FailedBoundaryRests'
    BY <2>1, <2>2 DEF Scheduling, RequestsBeyondActive, FailedBoundaryRests
  <2>4. NoLostWake'
    BY <2>1 DEF NoLostWake
  <2>5. QED BY <2>3, <2>4 DEF Scheduling
<1>15. ASSUME Restart PROVE Scheduling'
  <2>1. /\ requests' = [z \in Zones |-> Nothing]
        /\ \A z \in Zones, t \in EventTypes : requests'[z][t] = 0
    BY <1>15 DEF Restart, Nothing
  <2>2. QED BY <2>1 DEF Scheduling, RequestsBeyondActive, FailedBoundaryRests, NoLostWake
<1>16. ASSUME NEW z \in Zones, NEW t \in EventTypes, NEW v \in Versions, Publish(z, t, v)
       PROVE  Scheduling'
  BY <1>16, <1>1 DEF Publish
<1>17. ASSUME UNCHANGED vars PROVE Scheduling'
  BY <1>17, <1>1 DEF vars
<1>18. QED
  BY <1>3, <1>4, <1>5, <1>6, <1>8, <1>9, <1>10, <1>11, <1>12, <1>13, <1>14, <1>15, <1>16,
     <1>17, ScheduleScheduling DEF Next, CallStep, RunStep

-----------------------------------------------------------------------------
(* Theorems *)

LEMMA NextIInv ==
  ASSUME Assumptions PROVE IInv /\ [Next]_vars => IInv'
<1> SUFFICES ASSUME IInv, [Next]_vars PROVE IInv'
  OBVIOUS
<1>1. TypeOK /\ Progress /\ Scheduling /\ RunnerInPlace
  BY DEF IInv, Progress
<1>2. TypeOK'
  BY <1>1, NextTypeOK
<1>3. Progress' /\ Scheduling'
  BY <1>1, <1>2, NextProgress, NextScheduling
<1>4. QED BY <1>2, <1>3 DEF IInv

LEMMA Invariance ==
  ASSUME Assumptions PROVE Spec => []IInv
<1>1. Init => IInv
  BY InitIInv
<1>2. IInv /\ [Next]_vars => IInv'
  BY NextIInv
<1>3. QED BY <1>1, <1>2, PTL DEF Spec

\* The type invariant of the runtime: request and runner never leave their
\* domains (runtime.go).
THEOREM TypeCorrect ==
  ASSUME Assumptions PROVE Spec => []TypeOK
<1>1. IInv => TypeOK
  BY DEF IInv
<1>2. Spec => []IInv
  BY Invariance
<1>3. QED BY <1>1, <1>2, PTL

\* No event of the Action is behind its position without its effect.
THEOREM DeliveryCorrect ==
  ASSUME Assumptions PROVE Spec => []NothingPassedUnhandled
<1>1. IInv => NothingPassedUnhandled
  BY DEF IInv, Progress
<1>2. Spec => []IInv
  BY Invariance
<1>3. QED BY <1>1, <1>2, PTL

\* Effects are committed in the order of the log.
THEOREM OrderCorrect ==
  ASSUME Assumptions PROVE Spec => []EffectsInOrder
<1>1. IInv => EffectsInOrder
  <2>1. SUFFICES ASSUME IInv, NEW r \in results, NEW n \in 0 .. r[3] - 1,
                        Handles(r[1], r[2], n)
                 PROVE  <<r[1], r[2], n>> \in results
    BY DEF EffectsInOrder
  <2>2. PICK z \in Zones, t \in EventTypes, m \in Nat : r = <<z, t, m>>
    BY <2>1 DEF IInv, TypeOK
  <2>3. m <= positions[z][t] /\ positions[z][t] \in Nat
    BY <2>1, <2>2 DEF IInv, Progress, ResultsInPlace, TypeOK, Boundaries
  <2>4. n \in 0 .. positions[z][t] - 1
    BY <2>2, <2>3
  <2>5. QED BY <2>1, <2>2, <2>4 DEF IInv, Progress, NothingPassedUnhandled
<1>2. Spec => []IInv
  BY Invariance
<1>3. QED BY <1>1, <1>2, PTL

\* A scheduled request always finds its runner.
THEOREM WakeCorrect ==
  ASSUME Assumptions PROVE Spec => []NoLostWake
<1>1. IInv => NoLostWake
  BY DEF IInv, Scheduling
<1>2. Spec => []IInv
  BY Invariance
<1>3. QED BY <1>1, <1>2, PTL

\* A failed boundary rests until a later boundary or a Retry.
THEOREM FailureCorrect ==
  ASSUME Assumptions PROVE Spec => []FailedBoundaryRests
<1>1. IInv => FailedBoundaryRests
  BY DEF IInv, Scheduling
<1>2. Spec => []IInv
  BY Invariance
<1>3. QED BY <1>1, <1>2, PTL

\* processEventType never meets the end of the log before its boundary.
THEOREM BoundariesCorrect ==
  ASSUME Assumptions PROVE Spec => []BoundariesWithinLog
<1>1. IInv => BoundariesWithinLog
  BY DEF IInv, Progress
<1>2. Spec => []IInv
  BY Invariance
<1>3. QED BY <1>1, <1>2, PTL

\* The runtime implements at-least-once delivery: publishing, an effect and a
\* move of the position are steps of Delivery, everything else is invisible.
THEOREM Refinement ==
  ASSUME Assumptions PROVE Spec => ImplementsDelivery
<1>1. Init => Promise!Init
  BY DEF Init, Promise!Init, Nothing
<1>2. IInv /\ [Next]_vars => [Promise!Next]_(Promise!vars)
  <2> SUFFICES ASSUME IInv, [Next]_vars PROVE [Promise!Next]_(Promise!vars)
    OBVIOUS
  <2>1. ASSUME UNCHANGED durable PROVE UNCHANGED Promise!vars
    BY <2>1 DEF durable, Promise!vars
  <2>2. ASSUME NEW z \in Zones, NEW t \in EventTypes, NEW v \in Versions, Publish(z, t, v)
        PROVE  Promise!Next
    <3>1. Promise!Publish(z, t, v)
      BY <2>2 DEF Publish, Promise!Publish
    <3>2. QED BY <3>1 DEF Promise!Next
  <2>3. ASSUME NEW z \in Zones, NEW t \in EventTypes, NEW n, Handle(z, t, n)
        PROVE  Promise!Next
    <3>1. n \in Nat /\ n < Len(log[z][t])
      BY <2>3, AtPlace DEF Handle, IInv
    <3>2. Len(log[z][t]) \in Nat
      BY LenProperties DEF IInv, TypeOK
    <3>3. n \in 0 .. Len(log[z][t])
      BY <3>1, <3>2
    <3>4. Promise!Effect(z, t, n)
      BY <2>3 DEF Handle, Handles, Promise!Effect, Promise!Handles
    <3>5. QED BY <3>3, <3>4 DEF Promise!Next
  <2>4. ASSUME AdvancePosition PROVE Promise!Next
    <3> DEFINE z == runner.zone
               t == RunnerType
               n == runner.next
    <3>1. runner \in Runners /\ runner.pc = "advancing"
      BY <2>4 DEF IInv, TypeOK, AdvancePosition
    <3>2. runner.key \in 1 .. Len(Keys)
      BY <3>1, KeysTyped DEF IInv, Progress, RunnerInPlace, Runners
    <3>3. z \in Zones /\ t \in EventTypes
      BY <3>1, <3>2, KeysTyped DEF Runners, RunnerType
    <3>4. /\ positions[z][t] = n /\ n < Len(log[z][t])
          /\ Handles(z, t, n) => <<z, t, n>> \in results
      BY <3>1 DEF IInv, Progress, RunnerInPlace
    <3>5. positions' = [positions EXCEPT ![z][t] = n + 1] /\ UNCHANGED <<log, results>>
      BY <2>4 DEF AdvancePosition, RunnerType
    <3>6. Promise!Pass(z, t)
      BY <3>4, <3>5 DEF Promise!Pass, Promise!Handles, Handles
    <3>7. QED BY <3>3, <3>6 DEF Promise!Next
  <2>5. ASSUME NEW c \in Callers, NEW z \in Zones, Request(c, z) PROVE UNCHANGED durable
    BY <2>5 DEF Request
  <2>6. ASSUME NEW c \in Callers, CallStep(c) PROVE UNCHANGED durable
    BY <2>6 DEF CallStep, ReadPosition, ReadPending, Schedule, Notify
  <2>7. ASSUME NEW z \in Zones, Take(z) PROVE UNCHANGED durable
    BY <2>7 DEF Take
  <2>8. ASSUME Wake \/ Drained \/ Choose \/ Finish \/ EndOfType \/ Restart
        PROVE  UNCHANGED durable
    BY <2>8 DEF Wake, Drained, Choose, Finish, EndOfType, Restart
  <2>9. ASSUME NEW z \in Zones, NEW t \in EventTypes, NEW n,
               HandleIncomplete(z, t, n) \/ SkipVersion(z, t, n)
        PROVE  UNCHANGED durable
    BY <2>9 DEF HandleIncomplete, SkipVersion
  <2>10. ASSUME UNCHANGED vars PROVE UNCHANGED durable
    BY <2>10 DEF vars
  <2>11. QED
    BY <2>1, <2>2, <2>3, <2>4, <2>5, <2>6, <2>7, <2>8, <2>9, <2>10 DEF Next, RunStep
<1>3. Spec => []IInv
  BY Invariance
<1>4. QED BY <1>1, <1>2, <1>3, PTL DEF Spec, Promise!Spec, ImplementsDelivery

-----------------------------------------------------------------------------
(* Redelivery *)

\* Until the process has stopped once, the only effect at or beyond a position
\* is that of the event the runner is about to pass.
EffectsBehind ==
  restarts = 0 =>
    \A z \in Zones, t \in EventTypes, n \in Nat :
      <<z, t, n>> \in results =>
        \/ n < positions[z][t]
        \/ runner.pc = "advancing" /\ z = runner.zone /\ t = RunnerType /\ n = runner.next

\* The steps that have no effect and move no position, with no event to pass.
LEMMA EffectsFrame ==
  ASSUME EffectsBehind, UNCHANGED <<positions, results, restarts>>,
         runner.pc # "advancing" \/ UNCHANGED runner
  PROVE  EffectsBehind'
BY DEF EffectsBehind, RunnerType

LEMMA HandleEffects ==
  ASSUME IInv, EffectsBehind, NEW z \in Zones, NEW t \in EventTypes, NEW n, Handle(z, t, n)
  PROVE  EffectsBehind'
<1>1. /\ runner.pc = "delivering" /\ z = runner.zone /\ t = RunnerType /\ n = runner.next
      /\ results' = results \union {<<z, t, n>>}
      /\ runner' = [runner EXCEPT !.pc = "advancing"]
      /\ UNCHANGED <<positions, restarts>>
  BY DEF Handle, At, RunnerType
<1>2. runner \in Runners
  BY DEF IInv, TypeOK
<1>3. /\ runner'.pc = "advancing" /\ runner'.zone = z /\ runner'.next = n
      /\ RunnerType' = t
  BY <1>1, <1>2 DEF Runners, RunnerType
<1>4. SUFFICES ASSUME restarts = 0, NEW y \in Zones, NEW u \in EventTypes, NEW m \in Nat,
                      <<y, u, m>> \in results'
               PROVE  m < positions[y][u] \/ (y = z /\ u = t /\ m = n)
  BY <1>1, <1>3 DEF EffectsBehind
<1>5. CASE <<y, u, m>> \in results
  BY <1>1, <1>4, <1>5 DEF EffectsBehind
<1>6. CASE <<y, u, m>> = <<z, t, n>>
  BY <1>6
<1>7. QED BY <1>1, <1>4, <1>5, <1>6

LEMMA AdvanceEffects ==
  ASSUME IInv, EffectsBehind, AdvancePosition
  PROVE  EffectsBehind'
<1> DEFINE z == runner.zone
           t == RunnerType
           n == runner.next
<1>1. runner \in Runners /\ runner.pc = "advancing"
  BY DEF IInv, TypeOK, AdvancePosition
<1>2. z \in Zones /\ n \in Nat /\ positions[z][t] = n
  BY <1>1 DEF Runners, AdvancePosition, RunnerType
<1>3. /\ positions' = [positions EXCEPT ![z][t] = n + 1]
      /\ UNCHANGED <<results, restarts>>
  BY DEF AdvancePosition, RunnerType
<1>4. \A y \in Zones, u \in EventTypes :
        positions'[y][u] = IF y = z /\ u = t THEN n + 1 ELSE positions[y][u]
  BY <1>3 DEF IInv, TypeOK, Boundaries
<1> HIDE DEF z, t, n
<1>5. SUFFICES ASSUME restarts = 0, NEW y \in Zones, NEW u \in EventTypes, NEW m \in Nat,
                      <<y, u, m>> \in results
               PROVE  m < positions'[y][u]
  BY <1>3 DEF EffectsBehind
<1>6. m < positions[y][u] \/ (y = z /\ u = t /\ m = n)
  BY <1>5 DEF EffectsBehind, z, t, n
<1>7. CASE y = z /\ u = t
  <2>1. m <= n
    BY <1>2, <1>6, <1>7
  <2>2. positions'[y][u] = n + 1
    BY <1>4, <1>7
  <2>3. QED BY <2>1, <2>2, <1>2
<1>8. CASE ~(y = z /\ u = t)
  BY <1>4, <1>6, <1>8
<1>9. QED BY <1>7, <1>8

LEMMA NextEffects == IInv /\ EffectsBehind /\ [Next]_vars => EffectsBehind'
<1> SUFFICES ASSUME IInv, EffectsBehind, [Next]_vars PROVE EffectsBehind'
  OBVIOUS
<1>1. ASSUME NEW z \in Zones, NEW t \in EventTypes, NEW v \in Versions, Publish(z, t, v)
      PROVE  EffectsBehind'
  BY <1>1, EffectsFrame DEF Publish
<1>2. ASSUME NEW c \in Callers, NEW z \in Zones, Request(c, z) PROVE EffectsBehind'
  BY <1>2, EffectsFrame DEF Request, durable
<1>3. ASSUME NEW c \in Callers, CallStep(c) PROVE EffectsBehind'
  BY <1>3, EffectsFrame DEF CallStep, ReadPosition, ReadPending, Schedule, Notify, durable
<1>4. ASSUME Wake \/ Drained \/ Choose \/ Finish \/ EndOfType PROVE EffectsBehind'
  BY <1>4, EffectsFrame DEF Wake, Drained, Choose, Finish, EndOfType, durable
<1>5. ASSUME NEW z \in Zones, Take(z) PROVE EffectsBehind'
  BY <1>5, EffectsFrame DEF Take, durable
<1>6. ASSUME NEW z \in Zones, NEW t \in EventTypes, NEW n,
             HandleIncomplete(z, t, n) \/ SkipVersion(z, t, n)
      PROVE  EffectsBehind'
  BY <1>6, EffectsFrame DEF HandleIncomplete, SkipVersion, At, durable
<1>7. ASSUME Restart PROVE EffectsBehind'
  <2>1. restarts' = restarts + 1 /\ restarts \in Nat
    BY <1>7 DEF Restart, IInv, TypeOK
  <2>2. restarts' # 0
    BY <2>1
  <2>3. QED BY <2>2 DEF EffectsBehind
<1>8. ASSUME UNCHANGED vars PROVE EffectsBehind'
  BY <1>8, EffectsFrame DEF vars, durable
<1>9. QED
  BY <1>1, <1>2, <1>3, <1>4, <1>5, <1>6, <1>7, <1>8, HandleEffects, AdvanceEffects
     DEF Next, RunStep

LEMMA EffectsInvariance ==
  ASSUME Assumptions PROVE Spec => []EffectsBehind
<1>1. Init => EffectsBehind
  BY DEF Init, EffectsBehind
<1>2. Spec => []IInv
  BY Invariance
<1>3. QED BY <1>1, <1>2, NextEffects, PTL DEF Spec

\* While the process lives, the handler never sees an event again after its
\* effect: whatever is scheduled twice or fails, processEventType starts at the
\* durable position, and only a stop between handle and Advance leaves an
\* effect beyond it.
THEOREM RedeliveryCorrect ==
  ASSUME Assumptions PROVE Spec => []RedeliveredOnlyAfterRestart
<1>1. IInv /\ EffectsBehind => RedeliveredOnlyAfterRestart
  <2>1. SUFFICES ASSUME IInv, EffectsBehind, NEW z \in Zones, NEW t \in EventTypes,
                        NEW n \in 0 .. MaxLog, At(z, t, n), <<z, t, n>> \in results,
                        ~(restarts > 0)
                 PROVE  FALSE
    BY DEF RedeliveredOnlyAfterRestart
  <2>2. restarts = 0 /\ n \in Nat
    BY <2>1 DEF Assumptions, IInv, TypeOK
  <2>3. runner.pc = "delivering" /\ z = runner.zone /\ t = RunnerType /\ n = runner.next
    BY <2>1 DEF At, RunnerType
  <2>4. n < positions[z][t]
    BY <2>1, <2>2, <2>3 DEF EffectsBehind
  <2>5. n = positions[z][t]
    BY <2>1, <2>3 DEF IInv, Progress, RunnerInPlace
  <2>6. QED BY <2>2, <2>4, <2>5
<1>2. Spec => []IInv /\ []EffectsBehind
  BY Invariance, EffectsInvariance
<1>3. QED BY <1>1, <1>2, PTL
=============================================================================
