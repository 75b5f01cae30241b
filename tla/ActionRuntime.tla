---------------------------- MODULE ActionRuntime ----------------------------
(***************************************************************************)
(* One controlled Action (internal/actionruntime): callers schedule the    *)
(* pending events of a Zone, one goroutine delivers them in order and      *)
(* moves the durable consumer position behind each of them.                *)
(*                                                                         *)
(* The Journal appears as its log per Zone and EventType (EventLog.tla):   *)
(* an event is its schema version, its number is its place.  Requests,     *)
(* activations and failures live in memory and die with the process.       *)
(***************************************************************************)
EXTENDS Naturals, Sequences, FiniteSets, Functions

CONSTANTS
  Zones,
  Keys,          \* the EventTypes of the Action, in the order they are served
  Versions,
  KeyVersion,    \* the schema version of the Action's EventKeys
  Starters,      \* callers of Start : the automatic evaluator
  Retriers,      \* callers of Retry : manual invocations
  MaxLog,        \* bound on the events of a Zone
  MaxRestarts    \* bound on the times the process stops and starts again

EventTypes == Range(Keys)
Callers == Starters \union Retriers

\* What the proofs assume of the constants.
Assumptions ==
  /\ Zones # {}
  /\ Keys \in Seq(EventTypes) /\ Keys # << >> /\ IsInjective(Keys)
  /\ Starters \intersect Retriers = {}
  /\ KeyVersion \in Versions
  /\ MaxLog \in Nat /\ MaxRestarts \in Nat

VARIABLES
  log,        \* durable: the Journal
  positions,  \* durable: the consumer's positions
  results,    \* durable: <<z, t, n>> whose business result has committed
  requests,   \* requests[z][t] : requested boundary, 0 when there is none
  active,     \* active[z][t] : boundary being processed, or 0
  failed,     \* failed[z][t] : boundary that failed in this process, or 0
  wake,       \* the wake channel (capacity 1) holds a token
  runner,     \* the goroutine of Run
  call,       \* call[c] : the Start or Retry the caller is in
  restarts    \* how often the process has stopped (history)

durable == <<log, positions, results>>
memory  == <<requests, active, failed, wake>>
vars == <<durable, memory, runner, call, restarts>>

Nothing == [t \in EventTypes |-> 0]

\* runner.pc: "waiting" for a token, "taking" a request, "choosing" the next
\* EventType, "delivering" its events, "advancing" the position behind one.
Idle  == [pc |-> "waiting", zone |-> CHOOSE z \in Zones : TRUE, key |-> 1, next |-> 0]
Quiet == [pc |-> "idle", zone |-> CHOOSE z \in Zones : TRUE, key |-> 1, seen |-> 0,
          found |-> Nothing]

Handles(z, t, n) == n < Len(log[z][t]) /\ log[z][t][n + 1] = KeyVersion

\* PendingEvents: is there an event of the key at or after the position?
HasPending(z, t, position) ==
  \E n \in position .. Len(log[z][t]) : Handles(z, t, n)

Init ==
  /\ log = [z \in Zones |-> [t \in EventTypes |-> << >>]]
  /\ positions = [z \in Zones |-> Nothing]
  /\ results = {}
  /\ requests = [z \in Zones |-> Nothing]
  /\ active = [z \in Zones |-> Nothing]
  /\ failed = [z \in Zones |-> Nothing]
  /\ wake = FALSE
  /\ runner = Idle
  /\ call = [c \in Callers |-> Quiet]
  /\ restarts = 0

HasRoom(z) == FoldFunction(LAMBDA events, n : Len(events) + n, 0, log[z]) < MaxLog

\* Another component commits an event (any version of the type).
Publish(z, t, v) ==
  /\ HasRoom(z)
  /\ log' = [log EXCEPT ![z][t] = Append(@, v)]
  /\ UNCHANGED <<positions, results, memory, runner, call, restarts>>

-----------------------------------------------------------------------------
(* request: Start and Retry.  Positions and pending events are read one key *)
(* after the other, outside the mutex.                                      *)

Request(c, z) ==
  /\ call[c].pc = "idle"
  /\ call' = [call EXCEPT ![c] = [Quiet EXCEPT !.pc = "position", !.zone = z]]
  /\ UNCHANGED <<durable, memory, runner, restarts>>

ReadPosition(c) ==
  /\ call[c].pc = "position"
  /\ call' = [call EXCEPT ![c] =
       [call[c] EXCEPT !.pc = "pending",
                       !.seen = positions[call[c].zone][Keys[call[c].key]]]]
  /\ UNCHANGED <<durable, memory, runner, restarts>>

\* Mutant: the loop over the keys runs one too far.
ReadPending_KeyTooFar(c) ==
  LET k == call[c]
      t == Keys[k.key]
      through == Len(log[k.zone][t])
      found == IF HasPending(k.zone, t, k.seen)
                 THEN [k.found EXCEPT ![t] = through] ELSE k.found
  IN
    /\ k.pc = "pending"
    /\ call' = [call EXCEPT ![c] = [k EXCEPT !.pc = "position", !.key = @ + 1, !.found = found]]
    /\ UNCHANGED <<durable, memory, runner, restarts>>

ReadPending(c) ==
  LET k == call[c]
      t == Keys[k.key]
      through == Len(log[k.zone][t])
      found == IF HasPending(k.zone, t, k.seen)
                 THEN [k.found EXCEPT ![t] = through] ELSE k.found
  IN
    /\ k.pc = "pending"
    /\ call' = [call EXCEPT ![c] =
         IF k.key < Len(Keys)
           THEN [k EXCEPT !.pc = "position", !.key = @ + 1, !.found = found]
           ELSE IF found = Nothing
           THEN Quiet
           ELSE [k EXCEPT !.pc = "schedule", !.found = found]]
    /\ UNCHANGED <<durable, memory, runner, restarts>>

\* Mutant: Start does not look at the failures.
Wanted_FailedToo(c) ==
  LET found == call[c].found
  IN [t \in EventTypes |-> IF active[call[c].zone][t] >= found[t] THEN 0 ELSE found[t]]

\* The boundaries left once those in progress, and for Start those that have
\* failed, are dropped.
Wanted(c) ==
  LET z == call[c].zone
      found == call[c].found
  IN [t \in EventTypes |->
       IF \/ active[z][t] >= found[t]
          \/ c \in Starters /\ failed[z][t] >= found[t]
         THEN 0 ELSE found[t]]

\* The critical section of request.
Schedule(c) ==
  LET z == call[c].zone
      wanted == Wanted(c)
  IN
    /\ call[c].pc = "schedule"
    /\ IF wanted = Nothing
         THEN /\ call' = [call EXCEPT ![c] = Quiet]
              /\ UNCHANGED memory
         ELSE /\ call' = [call EXCEPT ![c] = [call[c] EXCEPT !.pc = "notify"]]
              /\ failed' = IF c \in Retriers THEN [failed EXCEPT ![z] = Nothing] ELSE failed
              /\ requests' = [requests EXCEPT ![z] =
                   [t \in EventTypes |-> IF wanted[t] > @[t] THEN wanted[t] ELSE @[t]]]
              /\ UNCHANGED <<active, wake>>
    /\ UNCHANGED <<durable, runner, restarts>>

\* Mutant: nothing is sent.
Notify_Silent(c) ==
  /\ call[c].pc = "notify"
  /\ call' = [call EXCEPT ![c] = Quiet]
  /\ UNCHANGED <<durable, memory, runner, restarts>>

\* The non-blocking send on the wake channel.
Notify(c) ==
  /\ call[c].pc = "notify"
  /\ wake' = TRUE
  /\ call' = [call EXCEPT ![c] = Quiet]
  /\ UNCHANGED <<durable, requests, active, failed, runner, restarts>>

-----------------------------------------------------------------------------
(* Run *)

Wake ==
  /\ runner.pc = "waiting"
  /\ wake
  /\ wake' = FALSE
  /\ runner' = [runner EXCEPT !.pc = "taking"]
  /\ UNCHANGED <<durable, requests, active, failed, call, restarts>>

\* takeRequest: any Zone with a request.
Take(z) ==
  /\ runner.pc = "taking"
  /\ requests[z] # Nothing
  /\ requests' = [requests EXCEPT ![z] = Nothing]
  /\ active' = [active EXCEPT ![z] = requests[z]]
  /\ runner' = [pc |-> "choosing", zone |-> z, key |-> 1, next |-> 0]
  /\ UNCHANGED <<durable, failed, wake, call, restarts>>

\* Mutant: one request per wake-up.
Drained_Early ==
  /\ runner.pc = "taking"
  /\ runner' = [runner EXCEPT !.pc = "waiting"]
  /\ UNCHANGED <<durable, memory, call, restarts>>

Drained ==
  /\ runner.pc = "taking"
  /\ requests = [z \in Zones |-> Nothing]
  /\ runner' = [runner EXCEPT !.pc = "waiting"]
  /\ UNCHANGED <<durable, memory, call, restarts>>

\* processZone: the next requested EventType; processEventType reads its
\* position.
Choose ==
  /\ runner.pc = "choosing"
  /\ runner.key <= Len(Keys)
  /\ LET t == Keys[runner.key] IN
       runner' = IF active[runner.zone][t] = 0
                   THEN [runner EXCEPT !.key = @ + 1]
                   ELSE [runner EXCEPT !.pc = "delivering",
                                       !.next = positions[runner.zone][t]]
  /\ UNCHANGED <<durable, memory, call, restarts>>

\* finishRequest.
Finish ==
  /\ runner.pc = "choosing"
  /\ runner.key > Len(Keys)
  /\ active' = [active EXCEPT ![runner.zone] = Nothing]
  /\ runner' = [Idle EXCEPT !.pc = "taking"]
  /\ UNCHANGED <<durable, requests, failed, wake, call, restarts>>

\* The loop of processEventType is at event n of EventType t, below through.
At(z, t, n) ==
  /\ runner.pc = "delivering"
  /\ z = runner.zone
  /\ t = Keys[runner.key]
  /\ n = runner.next
  /\ n < active[z][t]

EndOfType ==
  /\ runner.pc = "delivering"
  /\ runner.next >= active[runner.zone][Keys[runner.key]]
  /\ runner' = [runner EXCEPT !.pc = "choosing", !.key = @ + 1]
  /\ UNCHANGED <<durable, memory, call, restarts>>

\* handle commits the business result and returns nil.
Handle(z, t, n) ==
  /\ At(z, t, n)
  /\ Handles(z, t, n)
  /\ results' = results \union {<<z, t, n>>}
  /\ runner' = [runner EXCEPT !.pc = "advancing"]
  /\ UNCHANGED <<log, positions, memory, call, restarts>>

\* Mutant: the loop goes on behind an incomplete event.
HandleIncomplete_GoesOn(z, t, n) ==
  /\ At(z, t, n)
  /\ Handles(z, t, n)
  /\ failed' = [failed EXCEPT ![z][t] = active[z][t]]
  /\ runner' = [runner EXCEPT !.next = n + 1]
  /\ UNCHANGED <<durable, requests, active, wake, call, restarts>>

\* handle returns ErrEventIncomplete: markFailed, on to the next EventType.
HandleIncomplete(z, t, n) ==
  /\ At(z, t, n)
  /\ Handles(z, t, n)
  /\ failed' = [failed EXCEPT ![z][t] = active[z][t]]
  /\ runner' = [runner EXCEPT !.pc = "choosing", !.key = @ + 1]
  /\ UNCHANGED <<durable, requests, active, wake, call, restarts>>

\* An event of another schema version is passed over.
SkipVersion(z, t, n) ==
  /\ At(z, t, n)
  /\ ~Handles(z, t, n)
  /\ runner' = [runner EXCEPT !.pc = "advancing"]
  /\ UNCHANGED <<durable, memory, call, restarts>>

\* Mutant: the position moves in memory only.
AdvancePosition_InMemory ==
  /\ runner.pc = "advancing"
  /\ runner' = [runner EXCEPT !.pc = "delivering", !.next = @ + 1]
  /\ UNCHANGED <<durable, memory, call, restarts>>

\* Mutant: the position moves to the boundary at the first event.
AdvancePosition_ToBoundary ==
  LET z == runner.zone
      t == Keys[runner.key]
  IN
    /\ runner.pc = "advancing"
    /\ positions' = [positions EXCEPT ![z][t] = active[z][t]]
    /\ runner' = [runner EXCEPT !.pc = "delivering", !.next = @ + 1]
    /\ UNCHANGED <<log, results, memory, call, restarts>>

\* Advance compares the durable position with the one read before.
AdvancePosition ==
  LET z == runner.zone
      t == Keys[runner.key]
  IN
    /\ runner.pc = "advancing"
    /\ positions[z][t] = runner.next
    /\ runner.next + 1 <= Len(log[z][t])
    /\ positions' = [positions EXCEPT ![z][t] = runner.next + 1]
    /\ runner' = [runner EXCEPT !.pc = "delivering", !.next = @ + 1]
    /\ UNCHANGED <<log, results, memory, call, restarts>>

\* The process stops - killed, or because any other error of handle, a read or
\* Advance made Run return - and starts again with empty memory.
Restart ==
  /\ restarts < MaxRestarts
  /\ restarts' = restarts + 1
  /\ requests' = [z \in Zones |-> Nothing]
  /\ active' = [z \in Zones |-> Nothing]
  /\ failed' = [z \in Zones |-> Nothing]
  /\ wake' = FALSE
  /\ runner' = Idle
  /\ call' = [c \in Callers |-> Quiet]
  /\ UNCHANGED durable

CallStep(c) == ReadPosition(c) \/ ReadPending(c) \/ Schedule(c) \/ Notify(c)

RunStep ==
  \/ Wake
  \/ \E z \in Zones : Take(z)
  \/ Drained
  \/ Choose
  \/ Finish
  \/ EndOfType
  \/ \E z \in Zones, t \in EventTypes, n \in 0 .. MaxLog :
       \/ Handle(z, t, n)
       \/ HandleIncomplete(z, t, n)
       \/ SkipVersion(z, t, n)
  \/ AdvancePosition

Next ==
  \/ \E z \in Zones, t \in EventTypes, v \in Versions : Publish(z, t, v)
  \/ \E c \in Callers, z \in Zones : Request(c, z)
  \/ \E c \in Callers : CallStep(c)
  \/ RunStep
  \/ Restart

Spec == Init /\ [][Next]_vars

\* The goroutine of Run and every call in progress keep running, and the
\* evaluator comes back to every Zone (its loop visits all of them at every
\* tick, controlplane/application/automatic_evaluator.go).
Fairness ==
  /\ WF_vars(RunStep)
  /\ \A z \in Zones : SF_vars(Take(z))
  /\ \A c \in Callers : WF_vars(CallStep(c))
  /\ \A c \in Starters, z \in Zones : SF_vars(Request(c, z))

FairSpec == Spec /\ Fairness

-----------------------------------------------------------------------------
(* Properties *)

Boundaries == [Zones -> [EventTypes -> Nat]]

Runners == [pc : {"waiting", "taking", "choosing", "delivering", "advancing"},
            zone : Zones, key : 1 .. Len(Keys) + 1, next : Nat]

Calls == [pc : {"idle", "position", "pending", "schedule", "notify"},
          zone : Zones, key : 1 .. Len(Keys), seen : Nat,
          found : [EventTypes -> Nat]]

TypeOK ==
  /\ log \in [Zones -> [EventTypes -> Seq(Versions)]]
  /\ positions \in Boundaries
  /\ results \subseteq Zones \X EventTypes \X Nat
  /\ requests \in Boundaries /\ active \in Boundaries /\ failed \in Boundaries
  /\ wake \in BOOLEAN
  /\ runner \in Runners
  /\ call \in [Callers -> Calls]
  /\ restarts \in Nat

(* Every event behind the position has had its effect, whatever the order   *)
(* of requests, failures, partial activations and restarts.                 *)
NothingPassedUnhandled ==
  \A z \in Zones, t \in EventTypes :
    \A n \in 0 .. positions[z][t] - 1 :
      Handles(z, t, n) => <<z, t, n>> \in results

(* Effects happen in the order of the log: none before those of every       *)
(* earlier event of its EventType.                                          *)
EffectsInOrder ==
  \A r \in results :
    \A n \in 0 .. r[3] - 1 :
      Handles(r[1], r[2], n) => <<r[1], r[2], n>> \in results

(* As long as the process lives no event is handed to the handler again     *)
(* after its effect: only a stop between the effect and Advance redelivers. *)
RedeliveredOnlyAfterRestart ==
  \A z \in Zones, t \in EventTypes, n \in 0 .. MaxLog :
    (At(z, t, n) /\ <<z, t, n>> \in results) => restarts > 0

(* A scheduled request is never forgotten by a sleeping runner: the token   *)
(* is in the channel or its sender is about to put it there.                *)
NoLostWake ==
  (runner.pc = "waiting" /\ requests # [z \in Zones |-> Nothing]) =>
    wake \/ \E c \in Callers : call[c].pc = "notify"

(* A boundary that failed is not scheduled again until an explicit Retry    *)
(* forgets the failure; only a later boundary is (runtime.go:117).          *)
FailedBoundaryRests ==
  \A z \in Zones, t \in EventTypes :
    (requests[z][t] > 0 /\ failed[z][t] > 0) => requests[z][t] > failed[z][t]

(* The runner never works on a boundary the log does not reach, so the      *)
(* "ended before Position" error of processEventType cannot happen.         *)
BoundariesWithinLog ==
  \A z \in Zones, t \in EventTypes :
    /\ requests[z][t] <= Len(log[z][t])
    /\ active[z][t] <= Len(log[z][t])
    /\ positions[z][t] <= Len(log[z][t])

(* The runtime gives its Action the delivery every consumer is promised.    *)
Promise == INSTANCE Delivery
ImplementsDelivery == Promise!Spec

(* Every committed event of the Action is eventually behind the position,   *)
(* unless its boundary fails in this process.  The log only grows and is    *)
(* bounded, so that always again having nothing left to deliver asks at     *)
(* least that each event leads to its delivery or its failure.              *)
EventuallyDelivered ==
  \A z \in Zones, t \in EventTypes :
    []<>(\A n \in 1 .. Len(log[z][t]) :
           Handles(z, t, n - 1) => (positions[z][t] >= n \/ failed[z][t] >= n))

(* What the comment of Retry says (runtime.go:123-124): it schedules the    *)
(* Zone's current boundaries even when they failed in this process.         *)
RetrySchedulesFailed ==
  [][\A c \in Retriers : \A t \in EventTypes :
       LET z == call[c].zone
           through == call[c].found[t]
       IN (/\ call[c].pc = "schedule" /\ call'[c].pc \in {"idle", "notify"}
           /\ restarts' = restarts
           /\ through > 0 /\ failed[z][t] >= through)
          => requests'[z][t] >= through]_vars
=============================================================================
