------------------------- MODULE ControlPlaneProofs -------------------------
(***************************************************************************)
(* Proofs about the control plane, for any scan, editors, operators and    *)
(* settings: its types, and that a Policy which is not Automatic any more  *)
(* is overtaken by at most one automatic start.                            *)
(***************************************************************************)
EXTENDS ControlPlane, TLAPS

(* The evaluator is about to start Action a on the strength of the Policy   *)
(* it has read, whatever was published since.                               *)
Deciding(a) ==
  /\ Current[2] = a
  /\ \/ evaluator.pc = "pending" /\ evaluator.policy.mode = "automatic"
     \/ evaluator.pc = "start"

(* An evaluation that overlaps the change of a Policy has used up nothing   *)
(* yet: the one stale start is still its own.                               *)
OverlapUnused ==
  \A a \in Actions : Deciding(a) /\ policies[a].mode # "automatic" => stale[a] = 0

IInv == TypeOK /\ AtMostOneStaleStart /\ OverlapUnused

-----------------------------------------------------------------------------
(* Lemmas about the scan *)

LEMMA ScanIndexed ==
  ASSUME Assumptions
  PROVE  /\ Len(Scan) \in Nat /\ 1 \in 1 .. Len(Scan)
         /\ \A i \in 1 .. Len(Scan) : Scan[i] \in Pairs /\ Scan[i][2] \in Actions
<1>1. Scan \in Seq(Pairs) /\ Scan # << >>
  BY DEF Assumptions
<1>2. Len(Scan) \in Nat /\ DOMAIN Scan = 1 .. Len(Scan) /\ Len(Scan) # 0
  BY <1>1
<1>3. \A i \in 1 .. Len(Scan) : Scan[i] \in Pairs
  BY <1>1, <1>2
<1>4. \A p \in Pairs : p[2] \in Actions
  BY DEF Actions
<1> QED
  BY <1>2, <1>3, <1>4

LEMMA IdleTyped ==
  ASSUME Assumptions PROVE Idle \in [pc : {"idle", "pending", "retry"}, pair : Pairs]
  BY ScanIndexed DEF Idle

LEMMA NoPolicyTyped == NoPolicy \in Policies
  BY DEF NoPolicy, Policies

LEMMA WaitingTyped ==
  ASSUME Assumptions
  PROVE  /\ Waiting \in [pc : {"waiting", "policy", "pending", "start", "stopped"},
                         index : 1 .. Len(Scan), now : Nat, policy : Policies]
         /\ Waiting.pc = "waiting" /\ Waiting.index = 1
  BY ScanIndexed, NoPolicyTyped DEF Waiting

(* The end of one evaluation: the next pair's Policy, or the select.        *)
LEMMA NextPairTyped ==
  ASSUME Assumptions, TypeOK
  PROVE  /\ NextPair \in [pc : {"waiting", "policy", "pending", "start", "stopped"},
                          index : 1 .. Len(Scan), now : Nat, policy : Policies]
         /\ NextPair.pc \in {"waiting", "policy"}
<1>1. evaluator.index \in 1 .. Len(Scan)
  BY DEF TypeOK
<1>2. CASE evaluator.index < Len(Scan)
  <2>1. NextPair = [pc |-> "policy", index |-> evaluator.index + 1, now |-> 0, policy |-> NoPolicy]
    BY <1>2 DEF NextPair, Waiting
  <2>2. evaluator.index + 1 \in 1 .. Len(Scan)
    BY <1>1, <1>2, ScanIndexed
  <2> QED
    BY <2>1, <2>2, NoPolicyTyped
<1>3. CASE ~(evaluator.index < Len(Scan))
  BY <1>3, WaitingTyped DEF NextPair
<1> QED
  BY <1>2, <1>3

LEMMA CurrentTyped ==
  ASSUME Assumptions, TypeOK
  PROVE  Current \in Pairs /\ Current[2] \in Actions
  BY ScanIndexed DEF TypeOK, Current
-----------------------------------------------------------------------------
(* Types *)

LEMMA InitTyped ==
  ASSUME Assumptions PROVE Init => TypeOK
<1> SUFFICES ASSUME Init PROVE TypeOK
  OBVIOUS
<1>1. \A e \in Editors : seen[e] \in [Actions -> Policies]
  BY NoPolicyTyped DEF Init
<1>2. evaluator = [pc |-> "policy", index |-> 1, now |-> 0, policy |-> NoPolicy]
  BY DEF Init, Waiting
<1>3. evaluator \in [pc : {"waiting", "policy", "pending", "start", "stopped"},
                     index : 1 .. Len(Scan), now : Nat, policy : Policies]
  BY <1>2, NoPolicyTyped, ScanIndexed
<1>4. policies \in [Actions -> Policies] /\ seen \in [Editors -> [Actions -> Policies]]
  BY <1>1, NoPolicyTyped DEF Init
<1>5. log \in [Pairs -> Seq(Nat)] /\ draft = << >> /\ token \in BOOLEAN
  <2>1. << >> \in Seq(Nat)
    OBVIOUS
  <2>2. log \in [Pairs -> Seq(Nat)]
    BY <2>1 DEF Init
  <2>3. draft = << >> /\ token = FALSE
    BY Zenon DEF Init
  <2> QED
    BY <2>2, <2>3
<1>6. operator \in [Operators -> [pc : {"idle", "pending", "retry"}, pair : Pairs]]
  BY IdleTyped DEF Init
<1>7. /\ position \in [Pairs -> Nat] /\ scheduled \in [Pairs -> Nat] /\ failed \in [Pairs -> Nat]
      /\ clock \in Nat /\ stale \in [Actions -> Nat]
  BY DEF Init
<1> QED
  BY <1>3, <1>4, <1>5, <1>6, <1>7 DEF TypeOK

(* Runtime.Start and Retry leave the types of the runtime alone.            *)
LEMMA ScheduleTyped ==
  ASSUME TypeOK, NEW p, NEW retry \in BOOLEAN, Schedule(p, retry), log \in [Pairs -> Seq(Nat)], p \in Pairs
  PROVE  scheduled' \in [Pairs -> Nat] /\ failed' \in [Pairs -> Nat]
<1>1. /\ Len(log[p]) \in Nat
      /\ scheduled \in [Pairs -> Nat] /\ failed \in [Pairs -> Nat]
  BY DEF TypeOK
<1>2. /\ scheduled' = scheduled \/ scheduled' = [scheduled EXCEPT ![p] = Len(log[p])]
      /\ failed' = failed \/ failed' = [failed EXCEPT ![p] = 0]
  BY DEF Schedule, runtime
<1>3. scheduled' \in [Pairs -> Nat]
  BY <1>1, <1>2
<1>4. failed' \in [Pairs -> Nat]
  BY <1>1, <1>2
<1> QED
  BY <1>3, <1>4

LEMMA StepTyped ==
  ASSUME Assumptions PROVE TypeOK /\ [Next]_vars => TypeOK'
<1> SUFFICES ASSUME TypeOK, [Next]_vars PROVE TypeOK'
  OBVIOUS
<1>1. ASSUME NEW e \in Editors, NEW a \in Actions, ReadPolicy(e, a) PROVE TypeOK'
  BY <1>1 DEF TypeOK, ReadPolicy, input, runtime
<1>2. ASSUME NEW e \in Editors, NEW a \in Actions, NEW s \in Settings, PublishPolicy(e, a, s) PROVE TypeOK'
  <2>1. seen[e][a].revision + 1 \in Nat
    BY DEF TypeOK, Policies
  <2>2. SavedPolicy(s, seen[e][a].revision + 1) \in Policies
    BY <2>1 DEF Assumptions, SavedPolicy, Policies
  <2>3. policies' \in [Actions -> Policies] /\ stale' \in [Actions -> Nat]
    BY <1>2, <2>2 DEF TypeOK, PublishPolicy
  <2> QED
    BY <1>2, <2>3 DEF TypeOK, PublishPolicy, input, runtime
<1>3. ASSUME NEW p \in Pairs, AppendInput(p) PROVE TypeOK'
  BY <1>3 DEF TypeOK, AppendInput, store, runtime
<1>4. ASSUME NEW p \in Pairs, Consume(p) PROVE TypeOK'
  BY <1>4 DEF TypeOK, Consume, store
<1>5. ASSUME NEW p \in Pairs, Fail(p) PROVE TypeOK'
  BY <1>5 DEF TypeOK, Fail, store, input
<1>6. CASE CommitInput
  <2>1. draft \in [pair : Pairs, at : Nat]
    BY <1>6 DEF TypeOK, CommitInput
  <2>2. log' \in [Pairs -> Seq(Nat)]
    BY <1>6, <2>1 DEF TypeOK, CommitInput
  <2> QED
    BY <1>6, <2>2 DEF TypeOK, CommitInput, store, runtime
<1>7. CASE RollbackInput
  BY <1>7 DEF TypeOK, RollbackInput, store, runtime
<1>8. ASSUME NEW o \in Operators, NEW p \in Pairs, Invoke(o, p) PROVE TypeOK'
  BY <1>8 DEF TypeOK, Invoke, store, input, runtime
<1>9. ASSUME NEW o \in Operators, ReadManualPending(o) PROVE TypeOK'
  BY <1>9, IdleTyped DEF TypeOK, ReadManualPending, store, input, runtime
<1>10. ASSUME NEW o \in Operators, Retry(o) PROVE TypeOK'
  <2>1. operator[o].pair \in Pairs
    BY DEF TypeOK
  <2>2. scheduled' \in [Pairs -> Nat] /\ failed' \in [Pairs -> Nat]
    BY <1>10, <2>1, ScheduleTyped DEF TypeOK, Retry
  <2> QED
    BY <1>10, <2>2, IdleTyped DEF TypeOK, Retry, store, input
<1>11. CASE BeginScan
  <2>1. evaluator' = [pc |-> "policy", index |-> 1, now |-> 0, policy |-> NoPolicy]
    BY <1>11 DEF BeginScan, Waiting
  <2>2. evaluator' \in [pc : {"waiting", "policy", "pending", "start", "stopped"},
                        index : 1 .. Len(Scan), now : Nat, policy : Policies]
    BY <2>1, ScanIndexed, NoPolicyTyped
  <2>3. token' \in BOOLEAN
    BY <1>11 DEF TypeOK, BeginScan
  <2> QED
    BY <1>11, <2>2, <2>3 DEF TypeOK, BeginScan, store, input, runtime
<1>12. CASE EvaluatePolicy
  BY <1>12, NextPairTyped, CurrentTyped DEF TypeOK, EvaluatePolicy, store, input, runtime
<1>13. CASE EvaluatePending
  <2>1. \/ evaluator' = NextPair
        \/ evaluator' = [evaluator EXCEPT !.pc = "start"]
        \/ evaluator' = [evaluator EXCEPT !.pc = "stopped"]
    BY <1>13 DEF EvaluatePending
  <2> QED
    BY <1>13, <2>1, NextPairTyped DEF TypeOK, EvaluatePending, store, input, runtime
<1>14. CASE EvaluateStart
  <2>1. scheduled' \in [Pairs -> Nat] /\ failed' \in [Pairs -> Nat]
    BY <1>14, CurrentTyped, ScheduleTyped DEF TypeOK, EvaluateStart
  <2>2. stale' \in [Actions -> Nat]
    <3>1. stale \in [Actions -> Nat]
      BY DEF TypeOK
    <3>2. stale' = stale \/ stale' = [stale EXCEPT ![Current[2]] = @ + 1]
      BY <1>14 DEF EvaluateStart
    <3> QED
      BY <3>1, <3>2
  <2> QED
    BY <1>14, <2>1, <2>2, NextPairTyped DEF TypeOK, EvaluateStart, input
<1>15. CASE Tick
  BY <1>15 DEF TypeOK, Tick, store, input, runtime
<1>16. CASE UNCHANGED vars
  BY <1>16 DEF TypeOK, vars, store, input, runtime
<1> QED
  BY <1>1, <1>2, <1>3, <1>4, <1>5, <1>6, <1>7, <1>8, <1>9, <1>10, <1>11, <1>12, <1>13, <1>14,
     <1>15, <1>16 DEF Next, Evaluate

-----------------------------------------------------------------------------
(* Stale starts *)

(* A step that leaves Policies, history and evaluator alone keeps both.     *)
LEMMA UntouchedKeeps ==
  ASSUME AtMostOneStaleStart, OverlapUnused, UNCHANGED <<policies, stale, evaluator>>
  PROVE  AtMostOneStaleStart' /\ OverlapUnused'
  BY DEF AtMostOneStaleStart, OverlapUnused, Deciding, Current

(* So does one after which the evaluator decides about nothing.             *)
LEMMA UndecidedKeeps ==
  ASSUME AtMostOneStaleStart, UNCHANGED stale, evaluator'.pc \notin {"pending", "start"}
  PROVE  AtMostOneStaleStart' /\ OverlapUnused'
  BY DEF AtMostOneStaleStart, OverlapUnused, Deciding

LEMMA StepKeepsStarts ==
  ASSUME Assumptions, IInv, [Next]_vars
  PROVE  AtMostOneStaleStart' /\ OverlapUnused'
<1> USE DEF IInv
<1>1. ASSUME NEW e \in Editors, NEW a \in Actions, NEW s \in Settings, PublishPolicy(e, a, s)
      PROVE  AtMostOneStaleStart' /\ OverlapUnused'
  <2>1. policies'[a].mode = s.mode /\ \A b \in Actions \ {a} : policies'[b] = policies[b]
    BY <1>1 DEF PublishPolicy, SavedPolicy, TypeOK
  <2>2. \A b \in Actions : Deciding(b)' <=> Deciding(b)
    BY <1>1 DEF PublishPolicy, Deciding, Current
  <2>3. CASE s.mode = "automatic"
    BY <1>1, <2>1, <2>2, <2>3 DEF PublishPolicy, AtMostOneStaleStart, OverlapUnused
  <2>4. CASE s.mode # "automatic"
    <3>1. stale'[a] = 0 /\ \A b \in Actions \ {a} : stale'[b] = stale[b]
      BY <1>1, <2>4 DEF PublishPolicy, TypeOK
    <3> QED
      BY <2>1, <2>2, <3>1 DEF AtMostOneStaleStart, OverlapUnused
  <2> QED
    BY <2>3, <2>4
<1>2. CASE EvaluatePolicy
  <2>1. CASE policies[Current[2]] = NoPolicy
    <3>1. evaluator'.pc \notin {"pending", "start"} /\ UNCHANGED stale
      BY <1>2, <2>1, NextPairTyped DEF EvaluatePolicy, store
    <3> QED
      BY <3>1, UndecidedKeeps
  <2>2. CASE policies[Current[2]] # NoPolicy
    <3>1. evaluator' = [evaluator EXCEPT !.pc = "pending", !.now = clock, !.policy = policies[Current[2]]]
      BY <1>2, <2>2 DEF EvaluatePolicy
    <3>2. Current' = Current /\ evaluator'.pc = "pending" /\ evaluator'.policy = policies[Current[2]]
      BY <3>1 DEF TypeOK, Current
    <3>3. UNCHANGED <<policies, stale>>
      BY <1>2 DEF EvaluatePolicy, store
    <3>4. \A a \in Actions : Deciding(a)' => policies[a].mode = "automatic"
      BY <3>2 DEF Deciding
    <3> QED
      BY <3>3, <3>4 DEF AtMostOneStaleStart, OverlapUnused
  <2> QED
    BY <2>1, <2>2
<1>3. CASE EvaluatePending
  <2>1. UNCHANGED <<policies, stale>>
    BY <1>3 DEF EvaluatePending, store
  <2>2. CASE evaluator' = NextPair \/ evaluator' = [evaluator EXCEPT !.pc = "stopped"]
    <3>1. evaluator'.pc \notin {"pending", "start"}
      BY <2>2, NextPairTyped DEF TypeOK
    <3> QED
      BY <2>1, <3>1, UndecidedKeeps
  <2>3. CASE evaluator.policy.mode = "automatic" /\ evaluator' = [evaluator EXCEPT !.pc = "start"]
    <3>1. \A a \in Actions : Deciding(a)' => Deciding(a)
      BY <1>3, <2>3 DEF TypeOK, EvaluatePending, Deciding, Current
    <3> QED
      BY <2>1, <3>1 DEF AtMostOneStaleStart, OverlapUnused
  <2> QED
    BY <1>3, <2>2, <2>3 DEF EvaluatePending
<1>4. CASE EvaluateStart
  <2>1. evaluator'.pc \notin {"pending", "start"}
    BY <1>4, NextPairTyped DEF EvaluateStart
  <2>2. Deciding(Current[2])
    BY <1>4 DEF EvaluateStart, Deciding
  <2>3. AtMostOneStaleStart'
    <3>1. CASE policies[Current[2]].mode = "automatic"
      BY <1>4, <3>1 DEF EvaluateStart, AtMostOneStaleStart
    <3>2. CASE policies[Current[2]].mode # "automatic"
      <4>1. stale[Current[2]] = 0
        BY <2>2, <3>2, CurrentTyped DEF OverlapUnused
      <4>2. stale' = [stale EXCEPT ![Current[2]] = 1]
        BY <1>4, <3>2, <4>1, CurrentTyped DEF EvaluateStart, TypeOK
      <4> QED
        BY <4>2 DEF AtMostOneStaleStart, TypeOK
    <3> QED
      BY <3>1, <3>2
  <2> QED
    BY <2>1, <2>3 DEF OverlapUnused, Deciding
<1>5. CASE BeginScan
  <2>1. evaluator'.pc = "policy" /\ UNCHANGED stale
    BY <1>5 DEF BeginScan, Waiting, store
  <2> QED
    BY <2>1, UndecidedKeeps
<1>6. CASE UNCHANGED <<policies, stale, evaluator>>
  BY <1>6, UntouchedKeeps
<1>7. ASSUME ~(UNCHANGED <<policies, stale, evaluator>>), ~Evaluate
      PROVE  \E e \in Editors, a \in Actions, s \in Settings : PublishPolicy(e, a, s)
  BY <1>7 DEF Next, vars, store, input, runtime, ReadPolicy, AppendInput, CommitInput, RollbackInput,
              Consume, Fail, Invoke, ReadManualPending, Retry, Tick
<1> QED
  BY <1>1, <1>2, <1>3, <1>4, <1>5, <1>6, <1>7 DEF Evaluate

-----------------------------------------------------------------------------
(* The invariant, and what follows from it *)

\* Types, the bound on stale starts and the fact it rests on, that an evaluation
\* overtaken by a Policy has started nothing yet, are kept by every step.
THEOREM Invariance ==
  ASSUME Assumptions PROVE Spec => []IInv
<1>1. Init => IInv
  <2> SUFFICES ASSUME Init PROVE AtMostOneStaleStart /\ OverlapUnused
    BY InitTyped DEF IInv
  <2> QED
    BY DEF Init, AtMostOneStaleStart, OverlapUnused
<1>2. IInv /\ [Next]_vars => IInv'
  BY StepTyped, StepKeepsStarts DEF IInv
<1> QED
  BY <1>1, <1>2, PTL DEF Spec

\* The types of ControlPlane.tla are kept.
THEOREM TypeCorrect ==
  ASSUME Assumptions PROVE Spec => []TypeOK
<1>1. IInv => TypeOK
  BY DEF IInv
<1>2. Spec => []IInv
  BY Invariance
<1> QED
  BY <1>1, <1>2, PTL

\* A Policy that is not Automatic any more is overtaken by one start at most,
\* the one of the evaluation in progress when it was published.
THEOREM StaleStartsBounded ==
  ASSUME Assumptions PROVE Spec => []AtMostOneStaleStart
<1>1. IInv => AtMostOneStaleStart
  BY DEF IInv
<1>2. Spec => []IInv
  BY Invariance
<1> QED
  BY <1>1, <1>2, PTL
=============================================================================
