---------------------------- MODULE ControlPlane ----------------------------
(***************************************************************************)
(* The control plane: Policies that editors publish with an expected       *)
(* revision, the Automatic Evaluator that scans every Zone and Action and  *)
(* starts the ones whose Policy says so, and manual invocations.           *)
(*                                                                         *)
(* An Action's runtime (ActionRuntime.tla) appears by its boundaries: what *)
(* Start and Retry schedule, what it consumes, where it failed.  Events    *)
(* carry the time they occurred at, read from the same clock as "now".     *)
(***************************************************************************)
EXTENDS Naturals, Sequences, FiniteSetsExt, Functions

CONSTANTS
  Scan,         \* the <<Zone, Action>> pairs in the order of a scan
  Editors,      \* clients that read a Policy and publish another
  Operators,    \* clients that invoke an Action manually
  Settings,     \* [mode, minimum, wait] an editor may ask for
  MaxRevision,  \* bound on the changes of a Policy
  MaxEvents,    \* bound on the events of all inputs
  LastInput,    \* bound: no input occurs later
  MaxClock      \* bound on time

Pairs == Range(Scan)
Actions == {p[2] : p \in Pairs}

\* A missing Policy; RestorePolicy's rule for the others.
NoPolicy == [mode |-> "none", minimum |-> 0, wait |-> 0, revision |-> 0]
Valid(s) ==
  \/ s.mode = "automatic" /\ s.minimum > 0 /\ s.wait > 0
  \/ s.mode \in {"manual", "suspended"} /\ s.minimum = 0 /\ s.wait = 0

\* What the proofs assume of the constants.
Assumptions ==
  /\ Scan \in Seq(Pairs) /\ Scan # << >>
  /\ Settings \subseteq [mode : {"automatic", "manual", "suspended"}, minimum : Nat, wait : Nat]
  /\ {MaxRevision, MaxEvents, LastInput, MaxClock} \subseteq Nat

VARIABLES
  policies,   \* policies[a] : the stored Policy of Action a
  seen,       \* seen[e][a] : the Policy editor e has read last
  log,        \* log[p] : occurrence times of the committed input of pair p
  draft,      \* the open transaction of a producer: [pair, at] or << >>
  position,   \* position[p] : events of the input behind the consumer
  scheduled,  \* scheduled[p] : boundary the runtime is working to, or 0
  failed,     \* failed[p] : boundary that failed in this process, or 0
  token,      \* the wakeup channel (capacity 1) is full
  evaluator,  \* the goroutine of AutomaticEvaluator.Run
  operator,   \* operator[o] : the InvokeManual call o is in
  clock,
  stale       \* automatic starts of an Action since its Policy last changed
              \* to another mode than Automatic (history)

store == <<policies, seen, stale>>
input == <<log, draft, position>>
runtime == <<scheduled, failed>>
vars == <<store, input, runtime, token, evaluator, operator, clock>>

Idle == [pc |-> "idle", pair |-> Scan[1]]

\* evaluator.pc: "waiting" for a wakeup or the ticker; then for each pair of
\* the scan "policy" (now is read), "pending", "start"; "stopped" after an
\* error.
Waiting == [pc |-> "waiting", index |-> 1, now |-> 0, policy |-> NoPolicy]

Init ==
  /\ policies = [a \in Actions |-> NoPolicy]
  /\ seen = [e \in Editors |-> [a \in Actions |-> NoPolicy]]
  /\ log = [p \in Pairs |-> << >>]
  /\ draft = << >>
  /\ position = [p \in Pairs |-> 0]
  /\ scheduled = [p \in Pairs |-> 0]
  /\ failed = [p \in Pairs |-> 0]
  /\ token = FALSE
  /\ evaluator = [Waiting EXCEPT !.pc = "policy"]
  /\ operator = [o \in Operators |-> Idle]
  /\ clock = 0
  /\ stale = [a \in Actions |-> 0]

-----------------------------------------------------------------------------
(* Policies *)

ReadPolicy(e, a) ==
  /\ seen[e][a] # policies[a]
  /\ seen' = [seen EXCEPT ![e][a] = policies[a]]
  /\ UNCHANGED <<policies, stale, input, runtime, token, evaluator, operator, clock>>

\* Policies.Publish, one transaction: the expected revision must be the stored
\* one (0 creates), an unchanged setting keeps its revision.
SavedPolicy(s, revision) ==
  [mode |-> s.mode, minimum |-> s.minimum, wait |-> s.wait, revision |-> revision]

PublishPolicy(e, a, s) ==
  LET current == policies[a]
      expected == seen[e][a].revision
  IN
    /\ Valid(s)
    /\ draft = << >>
    /\ expected = current.revision
    /\ s # [mode |-> current.mode, minimum |-> current.minimum, wait |-> current.wait]
    /\ expected < MaxRevision
    /\ policies' = [policies EXCEPT ![a] = SavedPolicy(s, expected + 1)]
    /\ stale' = IF s.mode = "automatic" THEN stale ELSE [stale EXCEPT ![a] = 0]
    /\ UNCHANGED <<seen, input, runtime, token, evaluator, operator, clock>>

-----------------------------------------------------------------------------
(* Producers and the runtime of an Action *)

\* ActionPublisher: the wakeup is sent after Append, before the transaction
\* of the owner ends.
AppendInput(p) ==
  /\ draft = << >>
  /\ MapThenSumSet(LAMBDA q : Len(log[q]), Pairs) < MaxEvents
  /\ clock <= LastInput
  /\ draft' = [pair |-> p, at |-> clock]
  /\ token' = TRUE
  /\ UNCHANGED <<store, log, position, runtime, evaluator, operator, clock>>

CommitInput ==
  /\ draft # << >>
  /\ log' = [log EXCEPT ![draft.pair] = Append(@, draft.at)]
  /\ draft' = << >>
  /\ UNCHANGED <<store, position, runtime, token, evaluator, operator, clock>>

RollbackInput ==
  /\ draft # << >>
  /\ draft' = << >>
  /\ UNCHANGED <<store, log, position, runtime, token, evaluator, operator, clock>>

Consume(p) ==
  /\ draft = << >>
  /\ position[p] < scheduled[p]
  /\ position' = [position EXCEPT ![p] = @ + 1]
  /\ scheduled' = IF position[p] + 1 = scheduled[p] THEN [scheduled EXCEPT ![p] = 0] ELSE scheduled
  /\ UNCHANGED <<store, log, draft, failed, token, evaluator, operator, clock>>

Fail(p) ==
  /\ position[p] < scheduled[p]
  /\ failed' = [failed EXCEPT ![p] = scheduled[p]]
  /\ scheduled' = [scheduled EXCEPT ![p] = 0]
  /\ UNCHANGED <<store, input, token, evaluator, operator, clock>>

\* Runtime.Pending.
Count(p) == Len(log[p]) - position[p]
Since(p) == Min({log[p][i] : i \in position[p] + 1 .. Len(log[p])})

\* Runtime.Start and Runtime.Retry; Retry forgets the failure.
Schedule(p, retry) ==
  IF /\ Count(p) > 0
     /\ scheduled[p] < Len(log[p])
     /\ retry \/ failed[p] < Len(log[p])
    THEN /\ scheduled' = [scheduled EXCEPT ![p] = Len(log[p])]
         /\ failed' = IF retry THEN [failed EXCEPT ![p] = 0] ELSE failed
    ELSE UNCHANGED runtime

-----------------------------------------------------------------------------
(* InvokeManual: Policy, pending input, Retry *)

Invoke(o, p) ==
  /\ operator[o].pc = "idle"
  /\ policies[p[2]].mode = "manual"
  /\ operator' = [operator EXCEPT ![o] = [pc |-> "pending", pair |-> p]]
  /\ UNCHANGED <<store, input, runtime, token, evaluator, clock>>

ReadManualPending(o) ==
  /\ operator[o].pc = "pending"
  /\ operator' = [operator EXCEPT ![o] =
       IF Count(operator[o].pair) = 0 THEN Idle ELSE [@ EXCEPT !.pc = "retry"]]
  /\ UNCHANGED <<store, input, runtime, token, evaluator, clock>>

Retry(o) ==
  /\ operator[o].pc = "retry"
  /\ Schedule(operator[o].pair, TRUE)
  /\ operator' = [operator EXCEPT ![o] = Idle]
  /\ UNCHANGED <<store, input, token, evaluator, clock>>

-----------------------------------------------------------------------------
(* The Automatic Evaluator *)

Current == Scan[evaluator.index]

\* Mutant: the scan does not end behind the last pair.
NextPair_NoEnd == [Waiting EXCEPT !.pc = "policy", !.index = evaluator.index + 1]

\* evaluate has returned nil: the next pair, or back to the select.
NextPair ==
  IF evaluator.index < Len(Scan)
    THEN [Waiting EXCEPT !.pc = "policy", !.index = evaluator.index + 1]
    ELSE Waiting

\* Mutant: there is no ticker.
BeginScan_WakeupOnly ==
  /\ evaluator.pc = "waiting"
  /\ token
  /\ evaluator' = [Waiting EXCEPT !.pc = "policy"]
  /\ token' = FALSE
  /\ UNCHANGED <<store, input, runtime, operator, clock>>

\* A wakeup or the ticker.
BeginScan ==
  /\ evaluator.pc = "waiting"
  /\ evaluator' = [Waiting EXCEPT !.pc = "policy"]
  /\ token' \in {FALSE, token}
  /\ UNCHANGED <<store, input, runtime, operator, clock>>

\* now := time.Now(), then the Policy; a missing one ends the evaluation.
EvaluatePolicy ==
  /\ evaluator.pc = "policy"
  /\ evaluator' =
       IF policies[Current[2]] = NoPolicy THEN NextPair
       ELSE [evaluator EXCEPT !.pc = "pending", !.now = clock, !.policy = policies[Current[2]]]
  /\ UNCHANGED <<store, input, runtime, token, operator, clock>>

\* The pending input is read and ShouldInvoke decides with the earlier now.
EvaluatePending ==
  LET s == evaluator.policy
      count == Count(Current)
  IN
    /\ evaluator.pc = "pending"
    /\ evaluator' =
         IF s.mode # "automatic" \/ count = 0 THEN NextPair
         ELSE IF count >= s.minimum THEN [evaluator EXCEPT !.pc = "start"]
         ELSE IF Since(Current) > evaluator.now THEN [evaluator EXCEPT !.pc = "stopped"]
         ELSE IF evaluator.now - Since(Current) >= s.wait
         THEN [evaluator EXCEPT !.pc = "start"]
         ELSE NextPair
    /\ UNCHANGED <<store, input, runtime, token, operator, clock>>

\* Mutant: the evaluation goes on with the Policy it has read.
EvaluateStart_Again ==
  /\ evaluator.pc = "start"
  /\ Schedule(Current, FALSE)
  /\ stale' = IF policies[Current[2]].mode = "automatic" THEN stale
              ELSE [stale EXCEPT ![Current[2]] = @ + 1]
  /\ evaluator' = [evaluator EXCEPT !.pc = "pending"]
  /\ UNCHANGED <<policies, seen, input, token, operator, clock>>

EvaluateStart ==
  /\ evaluator.pc = "start"
  /\ Schedule(Current, FALSE)
  /\ stale' = IF policies[Current[2]].mode = "automatic" THEN stale
              ELSE [stale EXCEPT ![Current[2]] = @ + 1]
  /\ evaluator' = NextPair
  /\ UNCHANGED <<policies, seen, input, token, operator, clock>>

Tick ==
  /\ clock < MaxClock
  /\ clock' = clock + 1
  /\ UNCHANGED <<store, input, runtime, token, evaluator, operator>>

Evaluate == BeginScan \/ EvaluatePolicy \/ EvaluatePending \/ EvaluateStart

Next ==
  \/ \E e \in Editors, a \in Actions :
       \/ ReadPolicy(e, a)
       \/ \E s \in Settings : PublishPolicy(e, a, s)
  \/ \E p \in Pairs : AppendInput(p) \/ Consume(p) \/ Fail(p)
  \/ CommitInput
  \/ RollbackInput
  \/ \E o \in Operators :
       \/ \E p \in Pairs : Invoke(o, p)
       \/ ReadManualPending(o)
       \/ Retry(o)
  \/ Evaluate
  \/ Tick

Spec == Init /\ [][Next]_vars

\* The evaluator's ticker never ends, the runtime works on what is scheduled,
\* a transaction ends, time passes.
FairSpec ==
  /\ Spec
  /\ WF_vars(Evaluate)
  /\ \A p \in Pairs : WF_vars(Consume(p) \/ Fail(p))
  /\ WF_vars(CommitInput \/ RollbackInput)
  /\ WF_vars(Tick)

-----------------------------------------------------------------------------
(* Properties *)

Policies == [mode : {"none", "automatic", "manual", "suspended"},
             minimum : Nat, wait : Nat, revision : Nat]

TypeOK ==
  /\ policies \in [Actions -> Policies]
  /\ seen \in [Editors -> [Actions -> Policies]]
  /\ log \in [Pairs -> Seq(Nat)]
  /\ draft = << >> \/ draft \in [pair : Pairs, at : Nat]
  /\ position \in [Pairs -> Nat] /\ scheduled \in [Pairs -> Nat] /\ failed \in [Pairs -> Nat]
  /\ token \in BOOLEAN
  /\ evaluator \in [pc : {"waiting", "policy", "pending", "start", "stopped"},
                    index : 1 .. Len(Scan), now : Nat, policy : Policies]
  /\ operator \in [Operators -> [pc : {"idle", "pending", "retry"}, pair : Pairs]]
  /\ clock \in Nat
  /\ stale \in [Actions -> Nat]

(* Once a Policy is not Automatic any more, at most the evaluation in       *)
(* progress at that moment still starts the Action.                         *)
AtMostOneStaleStart ==
  \A a \in Actions : stale[a] <= 1

(* Committed input of an Action whose Policy stays Automatic is eventually  *)
(* consumed or fails, although signals are lost, coalesced and sent early   *)
(* (action_signals.go:3-4) - as long as the evaluator runs.  The log only   *)
(* grows, so each input that is there is asked for for ever after.          *)
EventuallyStarted ==
  \A p \in Pairs :
    []<>(\/ position[p] >= Len(log[p])
         \/ failed[p] >= Len(log[p])
         \/ policies[p[2]].mode # "automatic"
         \/ evaluator.pc = "stopped")

(* What ShouldInvoke asserts (trigger.go:20-22): the pending input it is    *)
(* given is never younger than now, else the evaluator's Run ends in an     *)
(* error and with it the process.                                           *)
PendingSinceValid == evaluator.pc # "stopped"
=============================================================================
