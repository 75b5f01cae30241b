---------------------------- MODULE ServiceProofs ----------------------------
(***************************************************************************)
(* Proofs about the process that serves, what its clients leave in it and  *)
(* Communities, for any values of the constants.                           *)
(* Service.tla: the database is closed last, which needs, for each user of *)
(* it, an account of where the user can be at every stage of Run.          *)
(* Memory.tla: Evidence that was accepted can be read, whatever was stored *)
(* before of the Messages it cites.                                        *)
(* Activation.tla: the stored states replay, so a start accepts them.      *)
(* ZoneMerge.tla: the Parent is replaced as assigned, as rows and what     *)
(* they name agree however often the two Zones write in between.           *)
(* Citations.tla: a reference means one row, of the answer that shows it,  *)
(* as the ledger counts what it has given a dataset.                       *)
(* Communities.tla: the drift of the Communities is bounded because the    *)
(* changes between Manifests add up to at least the changes across them.   *)
(* Drift.tla, GlobalSearch.tla: requests are sound, by SearchProofs.       *)
(***************************************************************************)
EXTENDS Services, SearchProofs, SequenceTheorems, FiniteSetTheorems, WellFoundedInduction, TLAPS

-----------------------------------------------------------------------------
(* The process *)

\* What is held is given up by Close of the session and by Release only.
HeldUntilExit ==
  /\ "database" \notin held => stage = "exited" /\ held = {}
  /\ stage = "exited" => "database" \notin held

\* The errgroup runs while Run serves or waits for it.
GroupAwaited == dispatch = "running" => stage \in {"serving", "waiting"}

\* The server is off before Run serves and done when Run has stopped serving.
ServerDone ==
  /\ stage \in {"opening", "opened"} => server = "off"
  /\ stage \in {"waiting", "closing", "exited"} =>
       server \in {"off", "refused", "drained", "timeout", "failed"}

\* Requests are in flight only where they were accepted or given up.
RequestsServed == requests # {} => server \in {"serving", "draining", "timeout", "failed"}

\* Run goes on when Start has returned a session or nothing to be closed.
StartedFirst ==
  /\ stage \in {"opened", "serving", "waiting", "closing"} => start = "started"
  /\ stage = "opening" => start # "started"
  /\ start # "started" => session = "none"

\* The child has ended, or was never there, and nobody is to wait for it.
ChildEnded == sidecar = "none" \/ (sidecar = "gone" /\ exit = "taken")

\* Whoever receives the exit is the last to deal with the child.
ChildWatched ==
  /\ exit # "none" => sidecar = "gone"
  /\ stopping = "done" => exit = "taken"
  /\ stopping = "failed" => session = "closing"
  /\ stopping # "no" <=> (start = "terminating" \/ session = "closing")
  /\ start = "launch" => sidecar = "none"
  /\ start = "failed" => ChildEnded
  /\ start = "started" /\ session = "none" => sidecar = "none"
  /\ session = "closed" => ChildEnded

\* A process that has exited has closed its session, if it had one.
ExitClosed == stage = "exited" => start \in {"failed", "started"} /\ session \in {"none", "closed", "abandoned"}

\* The cache is closed by the session, or with everything else.
CacheKept ==
  "cache" \notin held =>
    \/ stage = "exited"
    \/ start = "started" /\ session \in {"none", "closed", "abandoned"}

\* Nobody but the watcher of the interrupt closes the session before Run does.
ClosedAfter ==
  ~interrupted /\ session \notin {"none", "open"} => stage \in {"closing", "exited"}

RunInv ==
  /\ Proc!TypeOK
  /\ HeldUntilExit
  /\ GroupAwaited
  /\ ServerDone
  /\ RequestsServed
  /\ StartedFirst
  /\ ChildWatched
  /\ ExitClosed
  /\ CacheKept
  /\ ClosedAfter

LEMMA RunInit == Proc!Init => RunInv
BY DEF Proc!Init, Proc!Quiet, RunInv, Proc!TypeOK, HeldUntilExit, GroupAwaited, ServerDone,
   RequestsServed,
       StartedFirst, ChildEnded, ChildWatched, ExitClosed, CacheKept, ClosedAfter

\* The child and its parent's goroutines leave Run, the runners and the server alone.
LEMMA ChildStep ==
  ASSUME RunInv, Proc!Exits \/ Proc!Reap \/ Proc!ReadReady
  PROVE  RunInv'
<1> USE DEF RunInv, Proc!TypeOK, HeldUntilExit, GroupAwaited, ServerDone, RequestsServed,
            StartedFirst, ChildEnded, ChildWatched, ExitClosed, CacheKept, ClosedAfter, Proc!childVars,
            Proc!groupVars, Proc!serverVars
<1>1. CASE Proc!Exits
  BY <1>1 DEF Proc!Exits
<1>2. CASE Proc!Reap
  BY <1>2 DEF Proc!Reap
<1>3. CASE Proc!ReadReady
  BY <1>3 DEF Proc!ReadReady
<1> QED
  BY <1>1, <1>2, <1>3

\* Start hands over a session that watches the child, or an ended child.
LEMMA StartStep ==
  ASSUME RunInv, Proc!NoAnalysis \/ Proc!Launch \/ Proc!SeesExit \/ Proc!SeesReady \/ Proc!Health
  PROVE  RunInv'
<1> USE DEF RunInv, Proc!TypeOK, HeldUntilExit, GroupAwaited, ServerDone, RequestsServed,
            StartedFirst, ChildEnded, ChildWatched, ExitClosed, CacheKept, ClosedAfter, Proc!childVars,
            Proc!groupVars, Proc!serverVars
<1>1. CASE Proc!NoAnalysis
  BY <1>1 DEF Proc!NoAnalysis
<1>2. CASE Proc!Launch
  BY <1>2 DEF Proc!Launch
<1>3. CASE Proc!SeesExit
  BY <1>3 DEF Proc!SeesExit
<1>4. CASE Proc!SeesReady
  BY <1>4 DEF Proc!SeesReady, Proc!Terminating
<1>5. CASE Proc!Health
  BY <1>5 DEF Proc!Health, Proc!Terminating
<1> QED
  BY <1>1, <1>2, <1>3, <1>4, <1>5

\* Who ends the child receives its exit before the session is closed.
LEMMA StopStep ==
  ASSUME RunInv, \/ Proc!BeginClose \/ Proc!Stopped \/ Proc!Kill
                 \/ Proc!KillFails \/ Proc!EndStop
  PROVE  RunInv'
<1> USE DEF RunInv, Proc!TypeOK, HeldUntilExit, GroupAwaited, ServerDone, RequestsServed,
            StartedFirst, ChildEnded, ChildWatched, ExitClosed, CacheKept, ClosedAfter, Proc!childVars,
            Proc!groupVars, Proc!serverVars
<1>1. CASE Proc!BeginClose
  BY <1>1 DEF Proc!BeginClose
<1>2. CASE Proc!Stopped
  BY <1>2 DEF Proc!Stopped
<1>3. CASE Proc!Kill
  BY <1>3 DEF Proc!Kill
<1>5. CASE Proc!KillFails
  BY <1>5 DEF Proc!KillFails
<1>4. CASE Proc!EndStop
  <2>1. CASE start = "terminating" /\ start' = "failed" /\ UNCHANGED <<session, held>>
    BY <1>4, <2>1 DEF Proc!EndStop
  <2>2. CASE /\ session = "closing"
             /\ session' = IF stopping = "failed" THEN "abandoned" ELSE "closed"
             /\ held' = held \ {"cache"}
             /\ UNCHANGED start
    <3>1. stage # "exited" /\ start = "started"
      BY <2>2
    <3>2. Proc!TypeOK' /\ HeldUntilExit' /\ CacheKept'
      BY <1>4, <2>2, <3>1 DEF Proc!EndStop
    <3>3. ChildWatched' /\ StartedFirst' /\ ExitClosed' /\ ClosedAfter'
      BY <1>4, <2>2, <3>1 DEF Proc!EndStop
    <3> QED
      BY <1>4, <3>2, <3>3 DEF Proc!EndStop
  <2> QED
    BY <1>4, <2>1, <2>2 DEF Proc!EndStop
<1> QED
  BY <1>1, <1>2, <1>3, <1>4, <1>5

\* The server ends for good, and keeps requests only when it gave up on them.
LEMMA HTTPStep ==
  ASSUME RunInv, Proc!Listen \/ Proc!Shutdown \/ Proc!ListenerFails
  PROVE  RunInv'
<1> USE DEF RunInv, Proc!TypeOK, HeldUntilExit, GroupAwaited, ServerDone, RequestsServed,
            StartedFirst, ChildEnded, ChildWatched, ExitClosed, CacheKept, ClosedAfter, Proc!childVars,
            Proc!groupVars, Proc!serverVars
<1>1. CASE Proc!Listen
  BY <1>1 DEF Proc!Listen, Proc!ServiceDone
<1>2. CASE Proc!Shutdown
  BY <1>2 DEF Proc!Shutdown, Proc!ServiceDone
<1>3. CASE Proc!ListenerFails
  BY <1>3 DEF Proc!ListenerFails
<1> QED
  BY <1>1, <1>2, <1>3

\* Run releases after it has waited for the server, the errgroup and the session.
LEMMA RunStep ==
  ASSUME RunInv, Proc!Serve \/ Proc!Cancel \/ Proc!AwaitDispatch \/ Proc!Release
  PROVE  RunInv'
<1> USE DEF RunInv, Proc!TypeOK, HeldUntilExit, GroupAwaited, ServerDone, RequestsServed,
            StartedFirst, ChildEnded, ChildWatched, ExitClosed, CacheKept, ClosedAfter, Proc!childVars,
            Proc!groupVars, Proc!serverVars
<1>1. CASE Proc!Serve
  BY <1>1 DEF Proc!Serve
<1>2. CASE Proc!Cancel
  BY <1>2 DEF Proc!Cancel
<1>3. CASE Proc!AwaitDispatch
  BY <1>3 DEF Proc!AwaitDispatch
<1>4. CASE Proc!Release
  BY <1>4 DEF Proc!Release
<1> QED
  BY <1>1, <1>2, <1>3, <1>4

\* A runner moves itself, records its error and nothing else.
LEMMA RunnerStep ==
  ASSUME RunInv, NEW r \in Runners, Proc!Runner(r)
  PROVE  RunInv'
<1> USE DEF RunInv, Proc!TypeOK, HeldUntilExit, GroupAwaited, ServerDone, RequestsServed,
            StartedFirst, ChildEnded, ChildWatched, ExitClosed, CacheKept, ClosedAfter, Proc!childVars,
            Proc!groupVars, Proc!serverVars
<1>1. CASE Proc!Handle(r)
  BY <1>1 DEF Proc!Handle
<1>2. CASE Proc!Handled(r)
  BY <1>2 DEF Proc!Handled
<1>3. CASE Proc!Fails(r)
  BY <1>3 DEF Proc!Fails, Proc!Returns
<1>4. CASE Proc!ReturnsCancelled(r)
  BY <1>4 DEF Proc!ReturnsCancelled, Proc!Returns
<1> QED
  BY <1>1, <1>2, <1>3, <1>4 DEF Proc!Runner

\* A request is accepted by a server that serves.
LEMMA RequestStep ==
  ASSUME RunInv, NEW q \in Requests, Proc!Accept(q) \/ Proc!Answer(q)
  PROVE  RunInv'
<1> USE DEF RunInv, Proc!TypeOK, HeldUntilExit, GroupAwaited, ServerDone, RequestsServed,
            StartedFirst, ChildEnded, ChildWatched, ExitClosed, CacheKept, ClosedAfter, Proc!childVars,
            Proc!groupVars, Proc!serverVars
<1>1. CASE Proc!Accept(q)
  BY <1>1 DEF Proc!Accept
<1>2. CASE Proc!Answer(q)
  BY <1>2 DEF Proc!Answer
<1> QED
  BY <1>1, <1>2

\* The interrupt and the end of the errgroup change one goroutine each.
LEMMA OtherStep ==
  ASSUME RunInv, Proc!Interrupt \/ Proc!EndGroup
  PROVE  RunInv'
<1> USE DEF RunInv, Proc!TypeOK, HeldUntilExit, GroupAwaited, ServerDone, RequestsServed,
            StartedFirst, ChildEnded, ChildWatched, ExitClosed, CacheKept, ClosedAfter, Proc!childVars,
            Proc!groupVars, Proc!serverVars
<1>1. CASE Proc!Interrupt
  BY <1>1 DEF Proc!Interrupt
<1>2. CASE Proc!EndGroup
  BY <1>2 DEF Proc!EndGroup
<1> QED
  BY <1>1, <1>2

LEMMA RunStepwise == RunInv /\ [Proc!Next]_Proc!vars => RunInv'
<1> SUFFICES ASSUME RunInv, [Proc!Next]_Proc!vars
             PROVE  RunInv'
  OBVIOUS
<1>1. CASE Proc!Child
  BY <1>1, ChildStep DEF Proc!Child
<1>2. CASE Proc!Start
  BY <1>2, StartStep DEF Proc!Start
<1>3. CASE Proc!BeginClose \/ Proc!Stop
  BY <1>3, StopStep DEF Proc!Stop
<1>4. CASE \E r \in Runners : Proc!Runner(r)
  BY <1>4, RunnerStep
<1>5. CASE \E q \in Requests : Proc!Accept(q) \/ Proc!Answer(q)
  BY <1>5, RequestStep
<1>6. CASE Proc!HTTP \/ Proc!ListenerFails
  BY <1>6, HTTPStep DEF Proc!HTTP
<1>7. CASE Proc!Run
  BY <1>7, RunStep DEF Proc!Run
<1>8. CASE Proc!Interrupt \/ Proc!EndGroup
  BY <1>8, OtherStep
<1>9. CASE UNCHANGED Proc!vars
  BY <1>9 DEF Proc!vars, RunInv, Proc!TypeOK, HeldUntilExit, GroupAwaited, ServerDone,
     RequestsServed,
            StartedFirst, ChildEnded, ChildWatched, ExitClosed, CacheKept, ClosedAfter, Proc!childVars,
            Proc!groupVars, Proc!serverVars
<1> QED
  BY <1>1, <1>2, <1>3, <1>4, <1>5, <1>6, <1>7, <1>8, <1>9 DEF Proc!Next

\* In the behaviours of another part the process has failed to start and has
\* given up nothing.
ProcessInv == IF part = "process" THEN RunInv ELSE held = {"database", "cache"}

LEMMA ProcessPart ==
  [ServicesNext]_servicesVars =>
    part' = part /\ [Proc!Next]_(Proc!vars) /\ (part # "process" => UNCHANGED held)
BY DEF ServicesNext, servicesVars, Only, procVars, Proc!vars

LEMMA ProcessInvariance == ServicesSpec => []ProcessInv
<1>1. ServicesInit => ProcessInv
  <2>1. ServicesInit => held = {"database", "cache"}
    BY DEF ServicesInit, Proc!Quiet
  <2>2. ServicesInit /\ part = "process" => Proc!Init
    BY DEF ServicesInit, Proc!Init
  <2>3. QED
    BY <2>1, <2>2, RunInit DEF ProcessInv
<1>2. ProcessInv /\ [ServicesNext]_servicesVars => ProcessInv'
  BY ProcessPart, RunStepwise DEF ProcessInv
<1>3. QED
  BY <1>1, <1>2, PTL DEF ServicesSpec

-----------------------------------------------------------------------------
(* What follows from it *)

\* The database is closed after the errgroup, the server and the analysis cache;
\* the cache after the sidecar, or after its Kill has failed, and under runners
\* or requests only if the process was interrupted (httpservice/service.go,
\* analysis/process.go).
THEOREM ReleasedLastCorrect == ServicesSpec => []ReleasedLast
<1>1. RunInv => Proc!ReleasedLast
  <2>1. ASSUME RunInv, "cache" \notin held
        PROVE  /\ Proc!Reaped \/ session = "abandoned"
               /\ Proc!Serving => session = "none" \/ interrupted
    <3>1. Proc!Reaped \/ session = "abandoned"
      BY <2>1 DEF RunInv, CacheKept, ExitClosed, ChildWatched, ChildEnded, Proc!Reaped
    <3>2. Proc!Serving => stage \in {"serving", "waiting"}
      BY <2>1 DEF RunInv, GroupAwaited, ServerDone, Proc!TypeOK, Proc!Serving
    <3>3. session = "open" => stage = "exited"
      BY <2>1 DEF RunInv, CacheKept
    <3> QED
      BY <2>1, <3>1, <3>2, <3>3 DEF RunInv, ClosedAfter
  <2>2. ASSUME RunInv, "database" \notin held
        PROVE  /\ "cache" \notin held /\ ~Proc!Serving
               /\ requests # {} => server \in {"timeout", "failed"}
    <3>1. stage = "exited" /\ held = {}
      BY <2>2 DEF RunInv, HeldUntilExit
    <3>2. ~Proc!Serving
      BY <2>2, <3>1 DEF RunInv, GroupAwaited, ServerDone, Proc!Serving
    <3>3. requests # {} => server \in {"timeout", "failed"}
      BY <2>2, <3>1 DEF RunInv, ServerDone, RequestsServed
    <3> QED
      BY <3>1, <3>2, <3>3
  <2> QED
    BY <2>1, <2>2 DEF Proc!ReleasedLast
<1>2. ProcessInv => ReleasedLast
  BY <1>1 DEF ProcessInv, ReleasedLast, Proc!ReleasedLast
<1> QED
  BY <1>2, ProcessInvariance, PTL

-----------------------------------------------------------------------------
(* Filters of the Message log *)

\* The loop of Log.Append: f[n] is what of the first n elements of s is left.
Kept(s, ids, f, n) ==
  IF n = 0 THEN <<>>
  ELSE IF s[n].id \in ids THEN f[n - 1] ELSE Append(f[n - 1], s[n])

IsLoop(s, ids, f, n) == f = [i \in 0 .. n |-> Kept(s, ids, f, i)]

LEMMA LoopExists ==
  ASSUME NEW s, NEW ids, NEW n \in Nat
  PROVE  \E f : IsLoop(s, ids, f, n)
<1> DEFINE T == {k \in Nat : ~ \E f : IsLoop(s, ids, f, k)}
<1>1. SUFFICES ASSUME T # {} PROVE FALSE
  OBVIOUS
<1>2. PICK k \in T : \A j \in T : k <= j
  BY <1>1, Least
<1>3. k \in Nat /\ ~ \E f : IsLoop(s, ids, f, k)
  OBVIOUS
<1>4. k # 0
  <2>1. IsLoop(s, ids, [i \in 0 .. 0 |-> <<>>], 0)
    BY DEF IsLoop, Kept
  <2>2. QED
    BY <1>3, <2>1
<1>5. k - 1 \in Nat /\ k - 1 \notin T
  BY <1>2, <1>3, <1>4
<1>6. PICK f : IsLoop(s, ids, f, k - 1)
  BY <1>5
<1> DEFINE g == [i \in 0 .. k |-> IF i = k THEN Kept(s, ids, f, k) ELSE f[i]]
<1>7. \A i \in 0 .. k : i # k => i \in 0 .. k - 1
  BY <1>3
<1>8. \A i \in 0 .. k - 1 : f[i] = Kept(s, ids, f, i)
  BY <1>6 DEF IsLoop
<1>9. ASSUME NEW i \in 0 .. k PROVE g[i] = Kept(s, ids, g, i)
  <2>1. i # 0 => g[i - 1] = f[i - 1]
    BY <1>3
  <2>2. Kept(s, ids, g, i) = Kept(s, ids, f, i)
    BY <2>1 DEF Kept
  <2>3. QED
    BY <1>7, <1>8, <2>2
<1>10. g = [i \in 0 .. k |-> g[i]]
  OBVIOUS
<1> HIDE DEF g
<1>11. g = [i \in 0 .. k |-> Kept(s, ids, g, i)]
  BY <1>9, <1>10
<1>12. QED
  BY <1>3, <1>11 DEF IsLoop

\* The elements of r are those of s whose id is not among ids.
Filters(s, ids, r) ==
  \A x : (\E i \in DOMAIN r : r[i] = x) <=> \E i \in 1 .. Len(s) : s[i].id \notin ids /\ s[i] = x

\* The loop leaves the elements whose id is not among ids, and no others.
LEMMA LoopFilters ==
  ASSUME NEW X, NEW s \in Seq(X), NEW ids, NEW f, IsLoop(s, ids, f, Len(s))
  PROVE  f[Len(s)] \in Seq(X) /\ Filters(s, ids, f[Len(s)])
<1> DEFINE Spots(k) == {i \in 1 .. k : s[i].id \notin ids}
           Good(k) ==
             /\ f[k] \in Seq(X)
             /\ \A x : (\E i \in DOMAIN f[k] : f[k][i] = x) <=> \E i \in Spots(k) : s[i] = x
           T == {k \in 0 .. Len(s) : ~Good(k)}
<1>1. /\ Len(s) \in Nat /\ \A i \in 1 .. Len(s) : s[i] \in X
      /\ \A i \in 0 .. Len(s) : f[i] = Kept(s, ids, f, i)
  BY DEF IsLoop
<1>2. T = {}
  <2>1. SUFFICES ASSUME T # {} PROVE FALSE
    OBVIOUS
  <2> HIDE DEF Good
  <2>2. T \subseteq Nat
    BY <1>1
  <2>3. PICK k \in T : \A j \in T : k <= j
    BY <2>1, <2>2, Least
  <2>4. k \in 0 .. Len(s) /\ ~Good(k) /\ k \in Nat
    BY <1>1
  <2> USE DEF Good
  <2>5. k # 0
    <3>1. f[0] = <<>>
      BY <1>1 DEF Kept
    <3>2. Good(0)
      BY <3>1
    <3>3. QED
      BY <2>4, <3>2
  <2>6. k - 1 \in 0 .. Len(s) /\ Good(k - 1)
    <3>1. k - 1 \in 0 .. Len(s) /\ ~(k <= k - 1)
      BY <2>4, <2>5
    <3>2. k - 1 \notin T
      BY <2>3, <3>1
    <3> HIDE DEF Good
    <3>3. QED
      BY <3>1, <3>2
  <2>7. CASE s[k].id \in ids
    <3>1. f[k] = f[k - 1]
      BY <1>1, <2>4, <2>5, <2>7 DEF Kept
    <3>2. Spots(k) = Spots(k - 1)
      BY <2>4, <2>5, <2>7
    <3> HIDE DEF Spots
    <3>3. QED
      BY <2>4, <2>6, <3>1, <3>2
  <2>8. CASE s[k].id \notin ids
    <3>1. f[k] = Append(f[k - 1], s[k])
      BY <1>1, <2>4, <2>5, <2>8 DEF Kept
    <3>2. Spots(k) = Spots(k - 1) \union {k}
      BY <2>4, <2>5, <2>8
    <3> HIDE DEF Spots
    <3>3. s[k] \in X /\ f[k - 1] \in Seq(X)
      BY <1>1, <2>4, <2>5, <2>6
    <3>4. /\ f[k] \in Seq(X) /\ Len(f[k]) = Len(f[k - 1]) + 1 /\ f[k][Len(f[k])] = s[k]
          /\ \A i \in 1 .. Len(f[k - 1]) : f[k][i] = f[k - 1][i]
      BY <3>1, <3>3
    <3>5. /\ DOMAIN f[k] = DOMAIN f[k - 1] \union {Len(f[k])}
          /\ DOMAIN f[k - 1] = 1 .. Len(f[k - 1])
      BY <3>3, <3>4
    <3>6. ASSUME NEW x
          PROVE  (\E i \in DOMAIN f[k] : f[k][i] = x) <=> \E i \in Spots(k) : s[i] = x
      <4>1. (\E i \in DOMAIN f[k] : f[k][i] = x)
              <=> (\E i \in DOMAIN f[k - 1] : f[k - 1][i] = x) \/ x = s[k]
        BY <3>4, <3>5
      <4>2. QED
        BY <2>6, <3>2, <4>1
    <3>7. QED
      BY <2>4, <3>4, <3>6
  <2>9. QED
    BY <2>7, <2>8
<1>3. Good(Len(s))
  <2> HIDE DEF Good
  <2>1. Len(s) \in 0 .. Len(s) /\ Len(s) \notin T
    BY <1>1, <1>2
  <2>2. QED
    BY <2>1
<1>4. QED
  BY <1>3 DEF Filters

-----------------------------------------------------------------------------
(* Memory *)

\* A Message ID has one text in the Log.
IdsOnce == \A e, f \in Mem!ToSet(log) : e.id = f.id => e = f

\* What a call carries.
Carried ==
  [at : {"begun", "checked", "appended", "verified"}, memory : Memories, batch : MessageLists]

\* The Messages of accepted Knowledge, and of Knowledge about to be, are stored.
Stored ==
  /\ \A m \in Memories : Mem!ToSet(accepted[m]) \subseteq Mem!ToSet(log)
  /\ \A a \in Agents :
       call[a].at = "verified" => Mem!ToSet(call[a].batch) \subseteq Mem!ToSet(log)

MemoryInv ==
  /\ log \in Seq(Mem!Messages)
  /\ accepted \in [Memories -> MessageLists \union {Mem!Absent}]
  /\ call \in [Agents -> Carried \union {Mem!Ended}]
  /\ begins \in 0 .. MaxCalls
  /\ IdsOnce
  /\ Stored

LEMMA MemoryInit == Mem!Assumptions /\ Mem!Init => MemoryInv
BY DEF Mem!Assumptions, Mem!Init, MemoryInv, IdsOnce, Stored, Mem!Absent, Mem!Ended, Mem!ToSet

\* What Log.Append adds is the Messages of the batch whose IDs are not stored.
LEMMA MissingMessages ==
  ASSUME Mem!Assumptions, MemoryInv, NEW b \in MessageLists
  PROVE  /\ Mem!Missing(b) \in Seq(Mem!Messages)
         /\ Mem!ToSet(Mem!Missing(b)) =
              {x \in Mem!ToSet(b) : \A e \in Mem!Existing(b) : e.id # x.id}
<1> DEFINE ids == {e.id : e \in Mem!Existing(b)}
           f == CHOOSE f : IsLoop(b, ids, f, Len(b))
<1>1. b \in Seq(Mem!Messages) /\ Len(b) \in Nat /\ DOMAIN b = 1 .. Len(b)
  BY DEF Mem!Assumptions
<1>2. IsLoop(b, ids, f, Len(b))
  BY <1>1, LoopExists
<1>3. Mem!Missing(b) = f[Len(b)]
  BY DEF Mem!Missing, IsLoop, Kept
<1> HIDE DEF f, ids
<1>4. f[Len(b)] \in Seq(Mem!Messages) /\ Filters(b, ids, f[Len(b)])
  BY <1>1, <1>2, LoopFilters
<1>5. \A x : x \in Mem!ToSet(Mem!Missing(b)) <=> x \in Mem!ToSet(b) /\ x.id \notin ids
  BY <1>1, <1>3, <1>4 DEF Mem!ToSet, Filters
<1>6. QED
  BY <1>3, <1>4, <1>5 DEF ids


\* A call that ends or goes on with what it carries, and changes no rows.
LEMMA CallGoesOn ==
  ASSUME MemoryInv, NEW a \in Agents, NEW stop \in {"ended", "checked", "verified"},
         call' = [call EXCEPT ![a] = IF stop = "ended" THEN Mem!Ended
                                     ELSE [at |-> stop, memory |-> call[a].memory,
                                           batch |-> call[a].batch]],
         call[a] # Mem!Ended,
         stop = "verified" => Mem!ToSet(call[a].batch) \subseteq Mem!ToSet(log),
         UNCHANGED <<log, accepted, begins>>
  PROVE  MemoryInv'
<1>1. call[a] \in Carried
  BY DEF MemoryInv
<1>2. /\ call' \in [Agents -> Carried \union {Mem!Ended}]
      /\ \A c \in Agents \ {a} : call'[c] = call[c]
      /\ call'[a].at = stop /\ (stop = "verified" => call'[a].batch = call[a].batch)
  <2>1. [at |-> stop, memory |-> call[a].memory, batch |-> call[a].batch] \in Carried
          \/ stop = "ended"
    BY <1>1 DEF Carried
  <2>2. QED
    BY <2>1 DEF MemoryInv, Mem!Ended
<1>3. Stored'
  BY <1>2 DEF MemoryInv, Stored
<1>4. QED
  BY <1>2, <1>3 DEF MemoryInv, IdsOnce

LEMMA AppendMessagesInv ==
  ASSUME Mem!Assumptions, MemoryInv, NEW a \in Agents, Mem!AppendMessages(a)
  PROVE  MemoryInv'
<1> DEFINE b == call[a].batch
           added == Mem!Missing(b)
<1>1. call[a] \in Carried /\ b \in MessageLists
  BY DEF MemoryInv, Mem!AppendMessages, Carried, Mem!Ended
<1>2. /\ log' = log \o added
      /\ call' = [call EXCEPT ![a].at = "appended"]
      /\ accepted' = accepted /\ begins' = begins
      /\ ~Mem!IdentityConflict(b)
  BY DEF Mem!AppendMessages
<1> HIDE DEF b, added
<1>3. /\ added \in Seq(Mem!Messages)
      /\ Mem!ToSet(added) = {x \in Mem!ToSet(b) : \A e \in Mem!Existing(b) : e.id # x.id}
  BY <1>1, MissingMessages DEF added
<1>4. log \in Seq(Mem!Messages)
  BY DEF MemoryInv
<1>5. log' \in Seq(Mem!Messages) /\ Mem!ToSet(log') = Mem!ToSet(log) \union Mem!ToSet(added)
  <2>1. /\ log' \in Seq(Mem!Messages) /\ Len(log') = Len(log) + Len(added)
        /\ \A i \in 1 .. Len(log') :
             log'[i] = IF i <= Len(log) THEN log[i] ELSE added[i - Len(log)]
    BY <1>2, <1>3, <1>4
  <2>2. /\ DOMAIN log = 1 .. Len(log) /\ DOMAIN added = 1 .. Len(added)
        /\ DOMAIN log' = 1 .. Len(log') /\ Len(log) \in Nat /\ Len(added) \in Nat
    BY <1>3, <1>4, <2>1
  <2>3. \A i \in DOMAIN log : i \in DOMAIN log' /\ log'[i] = log[i]
    BY <2>1, <2>2
  <2>4. \A i \in DOMAIN added : i + Len(log) \in DOMAIN log' /\ log'[i + Len(log)] = added[i]
    BY <2>1, <2>2
  <2>5. \A i \in DOMAIN log' :
          \/ i \in DOMAIN log /\ log'[i] = log[i]
          \/ i - Len(log) \in DOMAIN added /\ log'[i] = added[i - Len(log)]
    BY <2>1, <2>2
  <2>6. QED
    BY <2>1, <2>3, <2>4, <2>5 DEF Mem!ToSet
<1>6. ASSUME NEW e \in Mem!ToSet(log), NEW x \in Mem!ToSet(added) PROVE e.id # x.id
  BY <1>3 DEF Mem!Existing
<1>7. IdsOnce'
  <2>1. \A x, y \in Mem!ToSet(added) : x.id = y.id => x = y
    BY <1>1, <1>3 DEF Mem!Assumptions
  <2>2. \A x, y \in Mem!ToSet(log) : x.id = y.id => x = y
    BY DEF MemoryInv, IdsOnce
  <2>3. QED
    BY <1>5, <1>6, <2>1, <2>2 DEF IdsOnce
<1>8. /\ call' \in [Agents -> Carried \union {Mem!Ended}]
      /\ \A c \in Agents \ {a} : call'[c] = call[c]
      /\ call'[a].at = "appended"
  BY <1>1, <1>2 DEF MemoryInv, Carried
<1>9. Stored'
  BY <1>2, <1>5, <1>8 DEF MemoryInv, Stored
<1>10. QED
  BY <1>2, <1>5, <1>7, <1>8, <1>9 DEF MemoryInv

LEMMA MemoryStep ==
  ASSUME Mem!Assumptions, MemoryInv, [Mem!Next]_(Mem!vars)
  PROVE  MemoryInv'
<1>1. ASSUME NEW a \in Agents, NEW m \in Memories, NEW b \in MessageLists, Mem!Add(a, m, b)
      PROVE  MemoryInv'
  <2>1. /\ call' \in [Agents -> Carried \union {Mem!Ended}]
        /\ \A c \in Agents \ {a} : call'[c] = call[c]
        /\ call'[a].at = "begun"
    <3>1. [at |-> "begun", memory |-> m, batch |-> b] \in Carried
      BY DEF Carried
    <3>2. QED
      BY <1>1, <3>1 DEF Mem!Add, MemoryInv
  <2>2. begins' \in 0 .. MaxCalls /\ UNCHANGED <<log, accepted>>
    BY <1>1 DEF Mem!Add, MemoryInv, Mem!Assumptions
  <2>3. Stored'
    BY <2>1, <2>2 DEF MemoryInv, Stored
  <2>4. QED
    BY <2>1, <2>2, <2>3 DEF MemoryInv, IdsOnce
<1>2. ASSUME NEW a \in Agents, Mem!Check(a) \/ Mem!Verify(a) \/ Mem!Replayed(a) \/ Mem!Fail(a)
      PROVE  MemoryInv'
  <2>1. call[a] \in Carried
    BY <1>2 DEF MemoryInv, Mem!Check, Mem!Verify, Mem!Replayed, Mem!Fail, Mem!Ended
  <2>2. \A stop : [call EXCEPT ![a].at = stop] =
                  [call EXCEPT ![a] = [at |-> stop, memory |-> call[a].memory,
                                       batch |-> call[a].batch]]
    <3>1. \A stop : [call[a] EXCEPT !.at = stop] =
                    [at |-> stop, memory |-> call[a].memory, batch |-> call[a].batch]
      BY <2>1 DEF Carried
    <3>2. \A stop : [call EXCEPT ![a].at = stop] =
                    [call EXCEPT ![a] = [call[a] EXCEPT !.at = stop]]
      BY DEF MemoryInv
    <3>3. QED
      BY <3>1, <3>2
  <2>3. call[a] # Mem!Ended
    BY <1>2, <2>1 DEF Carried, Mem!Ended
  <2>4. CASE Mem!Check(a)
    BY <2>2, <2>3, <2>4, CallGoesOn DEF Mem!Check
  <2>5. CASE Mem!Verify(a)
    BY <2>2, <2>3, <2>5, CallGoesOn DEF Mem!Verify
  <2>6. CASE Mem!Replayed(a) \/ Mem!Fail(a)
    BY <2>3, <2>6, CallGoesOn DEF Mem!Replayed, Mem!Fail
  <2>7. QED
    BY <1>2, <2>4, <2>5, <2>6
<1>3. ASSUME NEW a \in Agents, Mem!Submit(a)
      PROVE  MemoryInv'
  <2>1. call[a] \in Carried /\ call[a].at = "verified"
    BY <1>3 DEF MemoryInv, Mem!Submit, Mem!Ended
  <2>2. /\ accepted' = [accepted EXCEPT ![call[a].memory] = call[a].batch]
        /\ call' = [call EXCEPT ![a] = Mem!Ended]
        /\ UNCHANGED <<log, begins>>
    BY <1>3 DEF Mem!Submit
  <2>3. /\ call' \in [Agents -> Carried \union {Mem!Ended}]
        /\ \A c \in Agents \ {a} : call'[c] = call[c]
        /\ call'[a].at = "ended"
    BY <2>2 DEF MemoryInv, Mem!Ended
  <2>4. /\ accepted' \in [Memories -> MessageLists \union {Mem!Absent}]
        /\ \A m \in Memories : accepted'[m] \in {accepted[m], call[a].batch}
    BY <2>1, <2>2 DEF MemoryInv, Carried
  <2>5. Stored'
    BY <2>1, <2>2, <2>3, <2>4 DEF MemoryInv, Stored
  <2>6. QED
    BY <2>2, <2>3, <2>4, <2>5 DEF MemoryInv, IdsOnce
<1>4. CASE UNCHANGED Mem!vars
  BY <1>4 DEF Mem!vars, MemoryInv, IdsOnce, Stored
<1>5. QED
  BY <1>1, <1>2, <1>3, <1>4, AppendMessagesInv DEF Mem!Next

LEMMA MemoryPart == [ServicesNext]_servicesVars => [Mem!Next]_(Mem!vars)
BY DEF ServicesNext, servicesVars, Only, memVars, Mem!vars

LEMMA MemoryInvariance == ServicesSpec => []MemoryInv
<1>1. ServicesInit => MemoryInv
  BY MemoryInit, MemoryAssumptions DEF ServicesInit
<1>2. MemoryInv /\ [ServicesNext]_servicesVars => MemoryInv'
  BY MemoryStep, MemoryPart, MemoryAssumptions
<1>3. QED
  BY <1>1, <1>2, PTL DEF ServicesSpec

\* The Messages that accepted Knowledge cites are in the Log, each under an ID
\* that names no other text, whatever agents add at once (memory/recorder.go).
THEOREM AcceptedEvidenceStored == ServicesSpec => []EvidenceStored
<1>1. MemoryInv => EvidenceStored
  <2> SUFFICES ASSUME MemoryInv, NEW m \in Memories, NEW x \in Mem!ToSet(accepted[m])
               PROVE  /\ {i \in 1 .. Len(log) : log[i].id = x.id} = {i \in 1 .. Len(log) : log[i] = x}
                      /\ x \in Mem!ToSet(log)
    BY DEF EvidenceStored, Mem!EvidenceStored
  <2>1. x \in Mem!ToSet(log)
    BY DEF MemoryInv, Stored
  <2>2. \A i \in 1 .. Len(log) : log[i] \in Mem!ToSet(log)
    BY DEF MemoryInv, Mem!ToSet
  <2>3. QED
    BY <2>1, <2>2 DEF MemoryInv, IdsOnce
<1>2. QED
  BY <1>1, MemoryInvariance, PTL

-----------------------------------------------------------------------------
(* Activation *)

\* Activation counts with an instance of FiniteSets of its own.
LEMMA Counting == \A S : Act!Cardinality(S) = Cardinality(S)
BY DEF Act!Cardinality, Cardinality

Reviews == [grade : Grades \union {Act!Unscorable}, at : Times]
MemoryStates == [reviews : Seq(Reviews), model : Models \union {Act!Down}]
Receipts == [input : Act!Observations, model : Models, sequence : Nat]

\* What is submitted is submitted to a process that runs, with an archived model.
Running ==
  /\ \A c \in Submitters : submission[c] # {} => model # Act!Down
  /\ model # Act!Down => model \in archived /\ model \in Models

ActivationInv ==
  /\ Act!TypeOK
  /\ states \in [Subjects -> MemoryStates]
  /\ observations \subseteq Receipts /\ IsFiniteSet(observations)
  /\ Running
  /\ Act!Verified

LEMMA ActivationInit == Act!Assumptions /\ Act!Init => ActivationInv
<1> SUFFICES ASSUME Act!Assumptions, Act!Init PROVE ActivationInv
  OBVIOUS
<1>1. Act!TypeOK
  BY DEF Act!Init, Act!TypeOK, Act!Assumptions
<1>2. states \in [Subjects -> MemoryStates]
  <2>1. Act!Fresh \in MemoryStates
    BY DEF Act!Fresh, MemoryStates
  <2>2. QED
    BY <2>1 DEF Act!Init
<1>3. observations \subseteq Receipts /\ IsFiniteSet(observations)
  BY FS_EmptySet DEF Act!Init
<1>4. ASSUME NEW s \in Subjects PROVE Act!Replays(s)
  <2>1. Act!Applied(s) = {}
    BY DEF Act!Init, Act!Applied
  <2>2. Len(states[s].reviews) = 0
    BY DEF Act!Init, Act!Fresh
  <2>3. Act!Cardinality({}) = 0
    BY Counting, FS_EmptySet
  <2>4. QED
    BY <2>1, <2>2, <2>3 DEF Act!Replays
<1>5. QED
  BY <1>1, <1>2, <1>3, <1>4 DEF ActivationInv, Act!Init, Running, Act!Verified

\* The steps that store no Observation.
LEMMA Unrecorded ==
  ASSUME ActivationInv, UNCHANGED <<observations, states>>, archived \subseteq archived',
         Act!TypeOK', Running'
  PROVE  ActivationInv'
<1>1. ASSUME NEW s \in Subjects PROVE Act!Replays(s)' = Act!Replays(s)
  BY DEF Act!Replays, Act!Applied
<1>2. Act!Verified'
  BY <1>1 DEF ActivationInv, Act!Verified
<1>3. QED
  BY <1>2 DEF ActivationInv

\* A graded Observation is the next review of its Subject.
LEMMA RecordGraded ==
  ASSUME Act!Assumptions, ActivationInv, NEW o \in Act!Observations,
         NEW new \in Receipts, new.input = o, new.model = model,
         new.sequence = Len(states[o.subject].reviews) + 1,
         observations' = observations \union {new},
         states' = [states EXCEPT ![o.subject] =
                      [reviews |-> Append(states[o.subject].reviews,
                                          [grade |-> o.grade, at |-> o.at]),
                       model |-> model]],
         Act!Appliable(o)
  PROVE  /\ states' \in [Subjects -> MemoryStates]
         /\ \A s \in Subjects : Act!Replays(s)'
<1> DEFINE n == Len(states[o.subject].reviews)
           next == [grade |-> o.grade, at |-> o.at]
           old == Act!Applied(o.subject)
<1>1. /\ o.subject \in Subjects /\ next \in Reviews /\ o.at \in Nat
      /\ states[o.subject] \in MemoryStates /\ model \in Models
      /\ states[o.subject].reviews \in Seq(Reviews) /\ n \in Nat
  <2>1. /\ o.subject \in Subjects /\ o.at \in Times /\ o.grade \in Grades \union {Act!Unscorable}
        /\ o.at \in Nat
    BY DEF Act!Observations, Act!Assumptions
  <2>2. states[o.subject] \in MemoryStates
    BY <2>1 DEF ActivationInv
  <2>3. states[o.subject].reviews \in Seq(Reviews)
    BY <2>2 DEF MemoryStates
  <2>4. next \in Reviews /\ model \in Models
    BY <2>1 DEF Reviews, Receipts
  <2>5. n \in Nat
    BY <2>3
  <2>6. QED
    BY <2>1, <2>2, <2>3, <2>4, <2>5
<1>2. /\ states' \in [Subjects -> MemoryStates]
      /\ \A s \in Subjects \ {o.subject} : states'[s] = states[s]
      /\ states'[o.subject].reviews = Append(states[o.subject].reviews, next)
      /\ states'[o.subject].model = model
  <2>1. [reviews |-> Append(states[o.subject].reviews, next), model |-> model] \in MemoryStates
    BY <1>1 DEF MemoryStates
  <2>2. QED
    BY <1>1, <2>1 DEF ActivationInv
<1>3. ASSUME NEW s \in Subjects, s # o.subject PROVE Act!Replays(s)'
  <2>1. Act!Applied(s)' = Act!Applied(s)
    BY <1>3 DEF Act!Applied
  <2>2. states'[s] = states[s] /\ Act!Replays(s)
    BY <1>2, <1>3 DEF ActivationInv, Act!Verified
  <2>3. QED
    BY <2>1, <2>2 DEF Act!Replays
<1>4. Act!Applied(o.subject)' = old \union {new}
  BY <1>1 DEF Act!Applied, Receipts
<1>5. /\ {r.sequence : r \in old} = 1 .. n
      /\ Cardinality(old) = n
      /\ \A r \in old : /\ r.model = states[o.subject].model
                        /\ states[o.subject].reviews[r.sequence] =
                             [grade |-> r.input.grade, at |-> r.input.at]
      /\ \A q, r \in old : q.sequence < r.sequence => q.input.at <= r.input.at
  BY <1>1, Counting DEF ActivationInv, Act!Verified, Act!Replays
<1>6. old \subseteq Receipts /\ IsFiniteSet(old)
  BY FS_Subset DEF ActivationInv, Act!Applied
<1>7. \A r \in old : r.sequence \in 1 .. n /\ r.input.at \in Nat
  BY <1>5, <1>6 DEF Receipts, Act!Observations, Act!Assumptions
<1> HIDE DEF n, next, old
<1>8. \A r \in old : /\ states[o.subject].model = model
                     /\ r.input.at <= o.at
  <2> SUFFICES ASSUME NEW r \in old
               PROVE  states[o.subject].model = model /\ r.input.at <= o.at
    OBVIOUS
  <2>1. r.sequence \in 1 .. n /\ n \in 1 .. n
    BY <1>1, <1>7
  <2>2. states[o.subject] # Act!Fresh
    BY <2>1, <1>1 DEF n, Act!Fresh
  <2>3. states[o.subject].model = model /\ o.at >= Act!LastReview(o.subject)
    BY <2>2 DEF Act!Appliable
  <2>4. PICK last \in old : last.sequence = n
    BY <1>5, <2>1
  <2>5. last.input.at = Act!LastReview(o.subject)
    <3>1. states[o.subject].reviews[n] = [grade |-> last.input.grade, at |-> last.input.at]
      BY <1>5, <2>4
    <3>2. QED
      BY <3>1 DEF Act!LastReview, n
  <2>6. r.input.at <= last.input.at
    <3>1. r.sequence < n => r.input.at <= last.input.at
      BY <1>5, <2>4
    <3>2. r.sequence = n => r.input.at = last.input.at
      <4>1. states[o.subject].reviews[r.sequence] =
              [grade |-> r.input.grade, at |-> r.input.at]
        BY <1>5
      <4>2. states[o.subject].reviews[n] = [grade |-> last.input.grade, at |-> last.input.at]
        BY <1>5, <2>4
      <4>3. QED
        BY <4>1, <4>2
    <3>3. QED
      BY <1>1, <1>7, <2>1, <2>4, <3>1, <3>2
  <2>7. QED
    BY <1>1, <1>7, <2>3, <2>4, <2>5, <2>6
<1>9. Act!Replays(o.subject)'
  <2> DEFINE history == old \union {new}
  <2>1. Len(states'[o.subject].reviews) = n + 1 /\ new.sequence = n + 1
        /\ states'[o.subject].reviews[n + 1] = next
        /\ \A i \in 1 .. n : states'[o.subject].reviews[i] = states[o.subject].reviews[i]
    BY <1>1, <1>2 DEF n
  <2>2. {r.sequence : r \in history} = 1 .. n + 1
    <3>1. {r.sequence : r \in history} = {r.sequence : r \in old} \union {n + 1}
      BY <2>1
    <3>2. QED
      <4>1. {r.sequence : r \in old} = 1 .. n /\ n \in Nat
        BY <1>1, <1>5
      <4>2. (1 .. n) \union {n + 1} = 1 .. n + 1
        BY <4>1
      <4>3. QED
        BY <3>1, <4>1, <4>2
  <2>3. Cardinality(history) = n + 1
    <3>1. new \notin old
      BY <1>1, <1>7, <2>1
    <3>2. QED
      BY <1>1, <1>5, <1>6, <3>1, FS_AddElement
  <2>4. ASSUME NEW r \in history
        PROVE  /\ r.model = states'[o.subject].model
               /\ states'[o.subject].reviews[r.sequence] =
                    [grade |-> r.input.grade, at |-> r.input.at]
    BY <1>2, <1>5, <1>7, <1>8, <2>1 DEF next
  <2>5. ASSUME NEW q \in history, NEW r \in history, q.sequence < r.sequence
        PROVE  q.input.at <= r.input.at
    <3>1. CASE r = new
      <4>1. q \in old
        BY <2>5, <3>1, <2>1, <1>1
      <4>2. QED
        BY <3>1, <4>1, <1>8
    <3>2. CASE r \in old
      <4>1. q # new
        BY <1>1, <1>7, <2>1, <2>5, <3>2
      <4>2. QED
        BY <1>5, <2>5, <3>2, <4>1
    <3>3. QED
      BY <3>1, <3>2
  <2> HIDE DEF history
  <2>6. Act!Applied(o.subject)' = history
    BY <1>4 DEF history
  <2>7. QED
    BY <2>1, <2>2, <2>3, <2>4, <2>5, <2>6, Counting DEF Act!Replays
<1>10. QED
  BY <1>2, <1>3, <1>9

LEMMA RecordInv ==
  ASSUME Act!Assumptions, ActivationInv, NEW c \in Submitters, NEW o \in submission[c],
         Act!Record(c, o)
  PROVE  ActivationInv'
<1> DEFINE graded == o.grade # Act!Unscorable
           n == Len(states[o.subject].reviews)
           new == [input |-> o, model |-> model, sequence |-> IF graded THEN n + 1 ELSE 0]
<1>1. o \in Act!Observations /\ o.subject \in Subjects
  BY DEF ActivationInv, Act!TypeOK, Act!Observations
<1>2. model \in archived /\ model \in Models
  BY DEF ActivationInv, Running
<1>3. /\ states[o.subject].reviews \in Seq(Reviews) /\ n \in Nat
      /\ Len(Append(states[o.subject].reviews, [grade |-> o.grade, at |-> o.at])) = n + 1
  BY <1>1 DEF ActivationInv, MemoryStates
<1>4. new \in Receipts
  BY <1>1, <1>2, <1>3 DEF Receipts
<1>5. /\ observations' = observations \union {new}
      /\ submission' = [submission EXCEPT ![c] = {}]
      /\ UNCHANGED <<targets, archived, model, stops>>
      /\ ~Act!Found(o.id)
  BY <1>3 DEF Act!Record
<1>6. /\ new.input = o /\ new.model = model
      /\ graded => new.sequence = n + 1
      /\ ~graded => new.sequence = 0
  OBVIOUS
<1> HIDE DEF new
<1>7. observations' \subseteq Receipts /\ IsFiniteSet(observations')
  BY <1>4, <1>5, FS_AddElement DEF ActivationInv
<1>8. Act!TypeOK'
  <2>1. submission' \in [Submitters -> SUBSET Act!Observations]
    BY <1>5 DEF ActivationInv, Act!TypeOK
  <2>2. \A r \in observations' : r.input \in Act!Observations /\ r.model \in Models
    BY <1>7 DEF Receipts
  <2>3. \A q, r \in observations' : q.input.id = r.input.id => q = r
    BY <1>5, <1>6 DEF ActivationInv, Act!TypeOK, Act!Found
  <2>4. QED
    BY <1>5, <2>1, <2>2, <2>3 DEF ActivationInv, Act!TypeOK
<1>9. Running'
  BY <1>5 DEF ActivationInv, Act!TypeOK, Running
<1>10. states' \in [Subjects -> MemoryStates] /\ \A s \in Subjects : Act!Replays(s)'
  <2>1. CASE graded
    <3>1. states' = [states EXCEPT ![o.subject] =
                       [reviews |-> Append(states[o.subject].reviews,
                                           [grade |-> o.grade, at |-> o.at]),
                        model |-> model]]
          /\ Act!Appliable(o)
      BY <2>1 DEF Act!Record
    <3>2. QED
      BY <1>1, <1>4, <1>5, <1>6, <2>1, <3>1, RecordGraded
  <2>2. CASE ~graded
    <3>1. states' = states
      BY <2>2 DEF Act!Record
    <3>2. ASSUME NEW s \in Subjects PROVE Act!Applied(s)' = Act!Applied(s)
      BY <1>5, <1>6, <2>2 DEF Act!Applied
    <3>3. QED
      BY <3>1, <3>2 DEF ActivationInv, Act!Verified, Act!Replays
  <2>3. QED
    BY <2>1, <2>2
<1>11. Act!Verified'
  <2>1. {r.model : r \in observations'} \subseteq archived'
    BY <1>2, <1>5, <1>6 DEF ActivationInv, Act!Verified
  <2>2. QED
    BY <1>10, <2>1 DEF Act!Verified
<1>12. QED
  BY <1>7, <1>8, <1>9, <1>10, <1>11 DEF ActivationInv

LEMMA ActivationStep ==
  ASSUME Act!Assumptions, ActivationInv, [Act!Next]_(Act!vars)
  PROVE  ActivationInv'
<1>1. CASE Act!Stop
  <2>1. Act!TypeOK' /\ Running'
    BY <1>1 DEF Act!Stop, ActivationInv, Act!TypeOK, Running, Act!Assumptions
  <2>2. QED
    BY <1>1, <2>1, Unrecorded DEF Act!Stop
<1>2. ASSUME NEW m \in Models, Act!Start(m) PROVE ActivationInv'
  <2>1. Act!TypeOK' /\ Running'
    BY <1>2 DEF Act!Start, ActivationInv, Act!TypeOK, Running
  <2>2. QED
    BY <1>2, <2>1, Unrecorded DEF Act!Start
<1>3. ASSUME NEW s \in Subjects, NEW deleted \in BOOLEAN, Act!Revise(s, deleted)
      PROVE  ActivationInv'
  <2>1. targets' \in [Subjects -> [version : 1 .. MaxVersions, deleted : BOOLEAN]]
    BY <1>3 DEF Act!Revise, ActivationInv, Act!TypeOK, Act!Assumptions
  <2>2. Act!TypeOK' /\ Running'
    BY <1>3, <2>1 DEF Act!Revise, ActivationInv, Act!TypeOK, Running
  <2>3. QED
    BY <1>3, <2>2, Unrecorded DEF Act!Revise
<1>4. ASSUME NEW c \in Submitters, NEW o \in Act!Observations, Act!Validate(c, o)
      PROVE  ActivationInv'
  <2>1. submission' \in [Submitters -> SUBSET Act!Observations]
    BY <1>4 DEF Act!Validate, ActivationInv, Act!TypeOK
  <2>2. Act!TypeOK' /\ Running'
    BY <1>4, <2>1 DEF Act!Validate, ActivationInv, Act!TypeOK, Running
  <2>3. QED
    BY <1>4, <2>2, Unrecorded DEF Act!Validate
<1>5. ASSUME NEW c \in Submitters, Act!Return(c) PROVE ActivationInv'
  <2>1. submission' \in [Submitters -> SUBSET Act!Observations]
    BY <1>5 DEF Act!Return, ActivationInv, Act!TypeOK
  <2>2. Act!TypeOK' /\ Running'
    BY <1>5, <2>1 DEF Act!Return, ActivationInv, Act!TypeOK, Running
  <2>3. QED
    BY <1>5, <2>2, Unrecorded DEF Act!Return
<1>6. CASE UNCHANGED Act!vars
  <2>1. Act!TypeOK' /\ Running'
    BY <1>6 DEF Act!vars, ActivationInv, Act!TypeOK, Running
  <2>2. QED
    BY <1>6, <2>1, Unrecorded DEF Act!vars
<1>7. QED
  BY <1>1, <1>2, <1>3, <1>4, <1>5, <1>6, RecordInv DEF Act!Next

LEMMA ActivationPart == [ServicesNext]_servicesVars => [Act!Next]_(Act!vars)
BY DEF ServicesNext, servicesVars, Only, actVars, Act!vars

LEMMA ActivationInvariance == ServicesSpec => []ActivationInv
<1>1. ServicesInit => ActivationInv
  BY ActivationInit, ActivationAssumptions DEF ServicesInit
<1>2. ActivationInv /\ [ServicesNext]_servicesVars => ActivationInv'
  BY ActivationStep, ActivationPart, ActivationAssumptions
<1>3. QED
  BY <1>1, <1>2, PTL DEF ServicesSpec

\* Every start finds states it can replay, whatever was submitted at once, in
\* whatever order and under whichever models (memory/activation).
THEOREM AlwaysRestartable == ServicesSpec => []Restartable
<1>1. ActivationInv => Restartable
  BY DEF ActivationInv, Restartable, Act!Restartable
<1>2. QED
  BY <1>1, ActivationInvariance, PTL

-----------------------------------------------------------------------------
(* Two Zones *)

Candidates == [base : Nat \ {0}, content : VersionContents, open : BOOLEAN]

\* l is k at a later time: Versions are appended and Candidates only decided.
Later(k, l) ==
  /\ Len(k.versions) <= Len(l.versions)
  /\ \A i \in 1 .. Len(k.versions) : l.versions[i] = k.versions[i]
  /\ Len(k.candidates) <= Len(l.candidates)
  /\ \A i \in 1 .. Len(k.candidates) :
       /\ l.candidates[i].base = k.candidates[i].base
       /\ l.candidates[i].content = k.candidates[i].content

\* A row names the Candidate that holds what the Parent said.
Backed(r) ==
  /\ r \in Zone!Row
  /\ LET candidates == child[r.object].candidates
         versions == parent[r.object].versions
     IN /\ r.candidate \in 1 .. Len(candidates)
        /\ r.parentVersion \in 1 .. Len(versions)
        /\ candidates[r.candidate].base = r.base
        /\ candidates[r.candidate].content = versions[r.parentVersion]

\* Rows are kept by the Child and in the memory of the calls.
RowsBacked ==
  /\ \A r \in assigned : Backed(r)
  /\ \A p \in Zone!Callers : calls[p].at # "returned" => \A r \in calls[p].row : Backed(r)

\* A merge has read objects of its Zone.
ViewsRead ==
  \A p \in Zone!Callers : calls[p].at = "read" => DOMAIN calls[p].view \subseteq Objects

ZoneInv ==
  /\ Zone!TypeOK
  /\ commands = [s \in Sources |-> commands[s]]
  /\ calls = [p \in Zone!Callers |-> calls[p]]
  /\ RowsBacked
  /\ ViewsRead

LEMMA ZoneInit == Zone!Init => ZoneInv
<1> SUFFICES ASSUME Zone!Init PROVE ZoneInv
  OBVIOUS
<1>1. [versions |-> <<>>, candidates |-> <<>>] \in Zone!Object
  BY EmptySeq DEF Zone!Object
<1>2. QED
  BY <1>1 DEF Zone!Init, ZoneInv, Zone!TypeOK, RowsBacked, ViewsRead, Zone!Returned, Zone!NoCommand

\* Parts of an object.
LEMMA ObjectParts ==
  ASSUME NEW k \in Zone!Object
  PROVE  /\ k.versions \in Seq(VersionContents \cup {Zone!Deleted}) /\ k.candidates \in Seq(Candidates)
         /\ k = [versions |-> k.versions, candidates |-> k.candidates]
         /\ Zone!Base(k) = Len(k.versions) /\ Zone!Base(k) \in Nat /\ Len(k.candidates) \in Nat
         /\ DOMAIN k.candidates = 1 .. Len(k.candidates)
BY DEF Zone!Object, Candidates, Zone!Base

LEMMA WithVersions ==
  ASSUME NEW k \in Zone!Object, NEW v
  PROVE  [k EXCEPT !.versions = v] = [versions |-> v, candidates |-> k.candidates]
BY DEF Zone!Object

LEMMA WithCandidates ==
  ASSUME NEW k \in Zone!Object, NEW v
  PROVE  [k EXCEPT !.candidates = v] = [versions |-> k.versions, candidates |-> v]
BY DEF Zone!Object

LEMMA SubmittedLater ==
  ASSUME NEW k \in Zone!Object, NEW c \in VersionContents
  PROVE  /\ Zone!Submitted(k, c) \in Zone!Object
         /\ Later(k, Zone!Submitted(k, c))
<1> DEFINE new == [base |-> Zone!Base(k), content |-> c, open |-> TRUE]
           first == [k EXCEPT !.versions = <<c>>]
           more == [k EXCEPT !.candidates = Append(@, new)]
<1>1. k \in Zone!Object /\ Later(k, k)
  BY ObjectParts DEF Later
<1>2. CASE Zone!Base(k) = 0
  <2>1. <<c>> \in Seq(VersionContents \cup {Zone!Deleted}) /\ Len(<<c>>) = 1
    OBVIOUS
  <2>2. /\ first = [versions |-> <<c>>, candidates |-> k.candidates] /\ first \in Zone!Object
    BY <2>1, ObjectParts DEF Zone!Object, Candidates
  <2>3. Len(k.versions) = 0
    BY <1>2, ObjectParts
  <2>4. Later(k, first)
    BY <2>1, <2>2, <2>3, ObjectParts DEF Later
  <2>5. ~Zone!Active(k) /\ Zone!Open(k) = {}
    <3>1. \A i \in DOMAIN k.candidates : k.candidates[i] \in Candidates
      BY ObjectParts
    <3>2. \A i \in DOMAIN k.candidates : k.candidates[i].base # 0
      BY <3>1 DEF Candidates
    <3>3. QED
      BY <1>2, <3>2 DEF Zone!Active, Zone!Open
  <2> HIDE DEF first
  <2>6. Zone!Submitted(k, c) = first
    BY <1>2, <2>5 DEF Zone!Submitted, first
  <2>7. QED
    BY <2>2, <2>4, <2>6
<1>3. CASE Zone!Base(k) # 0
  <2>1. new \in Candidates
    BY <1>3, ObjectParts DEF Candidates
  <2>2. /\ Append(k.candidates, new) \in Seq(Candidates)
        /\ Len(Append(k.candidates, new)) = Len(k.candidates) + 1
        /\ \A i \in 1 .. Len(k.candidates) : Append(k.candidates, new)[i] = k.candidates[i]
    BY <2>1, ObjectParts, AppendProperties
  <2>3. more = [versions |-> k.versions, candidates |-> Append(k.candidates, new)]
    BY WithCandidates
  <2> HIDE DEF new, more
  <2>4. more \in Zone!Object
    BY <2>2, <2>3, ObjectParts DEF Zone!Object, Candidates
  <2>5. Later(k, more)
    BY <2>2, <2>3, ObjectParts DEF Later
  <2>6. Zone!Submitted(k, c) \in {k, more}
    BY <1>3 DEF Zone!Submitted, more, new
  <2>7. QED
    BY <1>1, <2>4, <2>5, <2>6
<1>4. QED
  BY <1>2, <1>3

LEMMA DecidedLater ==
  ASSUME NEW k \in Zone!Object, NEW c \in VersionContents
  PROVE  /\ Zone!Decided(k, c) \in Zone!Object
         /\ Later(k, Zone!Decided(k, c))
<1> DEFINE closed == [i \in 1 .. Len(k.candidates) |->
                        IF i \in Zone!Open(k) THEN [k.candidates[i] EXCEPT !.open = FALSE]
                                              ELSE k.candidates[i]]
           versions == Zone!Decided(k, c).versions
<1>1. /\ closed \in Seq(Candidates)
      /\ Len(closed) = Len(k.candidates)
      /\ \A i \in 1 .. Len(k.candidates) : /\ closed[i].base = k.candidates[i].base
                                           /\ closed[i].content = k.candidates[i].content
  <2>1. \A i \in 1 .. Len(k.candidates) : k.candidates[i] \in Candidates
    BY ObjectParts
  <2>2. \A i \in 1 .. Len(k.candidates) :
           /\ closed[i] \in Candidates
           /\ closed[i].base = k.candidates[i].base
           /\ closed[i].content = k.candidates[i].content
    BY <2>1 DEF Candidates
  <2>3. closed \in [1 .. Len(k.candidates) -> Candidates] /\ Len(k.candidates) \in Nat
    BY <2>2, ObjectParts
  <2> HIDE DEF closed
  <2>4. closed \in Seq(Candidates) /\ Len(closed) = Len(k.candidates)
    BY <2>3
  <2>5. QED
    BY <2>2, <2>4
<1>2. /\ versions \in Seq(VersionContents \cup {Zone!Deleted})
      /\ Len(k.versions) <= Len(versions)
      /\ \A i \in 1 .. Len(k.versions) : versions[i] = k.versions[i]
  <2>1. versions \in {k.versions, Append(k.versions, c)}
    BY DEF Zone!Decided
  <2>2. /\ Append(k.versions, c) \in Seq(VersionContents \cup {Zone!Deleted})
        /\ Len(Append(k.versions, c)) = Len(k.versions) + 1
        /\ \A i \in 1 .. Len(k.versions) : Append(k.versions, c)[i] = k.versions[i]
    BY ObjectParts, AppendProperties
  <2>3. k.versions \in Seq(VersionContents \cup {Zone!Deleted}) /\ Len(k.versions) \in Nat
    BY ObjectParts
  <2> HIDE DEF versions
  <2>4. CASE versions = k.versions
    BY <2>3, <2>4
  <2>5. CASE versions = Append(k.versions, c)
    BY <2>2, <2>3, <2>5
  <2>6. QED
    BY <2>1, <2>4, <2>5
<1>3. Zone!Decided(k, c) = [versions |-> versions, candidates |-> closed]
  BY ObjectParts DEF Zone!Decided
<1> HIDE DEF versions, closed
<1>4. QED
  BY <1>1, <1>2, <1>3, ObjectParts DEF Zone!Object, Candidates, Later

LEMMA DeletedLater ==
  ASSUME NEW k \in Zone!Object
  PROVE  LET l == [k EXCEPT !.versions = Append(@, Zone!Deleted)]
         IN  l \in Zone!Object /\ Later(k, l)
<1> DEFINE versions == Append(k.versions, Zone!Deleted)
           l == [k EXCEPT !.versions = Append(@, Zone!Deleted)]
<1>1. /\ versions \in Seq(VersionContents \cup {Zone!Deleted})
      /\ Len(versions) = Len(k.versions) + 1
      /\ \A i \in 1 .. Len(k.versions) : versions[i] = k.versions[i]
  BY ObjectParts, AppendProperties
<1>2. l = [versions |-> versions, candidates |-> k.candidates]
  BY WithVersions
<1> HIDE DEF versions, l
<1>3. l \in Zone!Object /\ Later(k, l)
  BY <1>1, <1>2, ObjectParts DEF Zone!Object, Candidates, Later
<1>4. QED
  BY <1>3 DEF l

\* A row stays backed whatever the two Zones do.
LEMMA BackedLater ==
  ASSUME ZoneInv, child' \in [Objects -> Zone!Object], parent' \in [Objects -> Zone!Object],
         \A o \in Objects : Later(child[o], child'[o]) /\ Later(parent[o], parent'[o]),
         NEW r, Backed(r)
  PROVE  Backed(r)'
<1>1. r \in Zone!Row /\ r.object \in Objects
  BY DEF Backed, Zone!Row
<1>2. child[r.object] \in Zone!Object /\ parent[r.object] \in Zone!Object
      /\ child'[r.object] \in Zone!Object /\ parent'[r.object] \in Zone!Object
  BY <1>1 DEF ZoneInv, Zone!TypeOK
<1>3. /\ Len(child[r.object].candidates) \in Nat /\ Len(parent[r.object].versions) \in Nat
      /\ Len(child'[r.object].candidates) \in Nat /\ Len(parent'[r.object].versions) \in Nat
  BY <1>2, ObjectParts
<1>4. Later(child[r.object], child'[r.object]) /\ Later(parent[r.object], parent'[r.object])
  BY <1>1
<1>5. /\ r.candidate \in 1 .. Len(child[r.object].candidates)
      /\ r.parentVersion \in 1 .. Len(parent[r.object].versions)
      /\ child[r.object].candidates[r.candidate].base = r.base
      /\ child[r.object].candidates[r.candidate].content = parent[r.object].versions[r.parentVersion]
  BY DEF Backed
<1>6. /\ r.candidate \in 1 .. Len(child'[r.object].candidates)
      /\ r.parentVersion \in 1 .. Len(parent'[r.object].versions)
  <2>1. /\ Len(child[r.object].candidates) <= Len(child'[r.object].candidates)
        /\ Len(parent[r.object].versions) <= Len(parent'[r.object].versions)
    BY <1>4 DEF Later
  <2>2. QED
    BY <1>3, <1>5, <2>1
<1>7. /\ child'[r.object].candidates[r.candidate].base = r.base
      /\ child'[r.object].candidates[r.candidate].content = parent'[r.object].versions[r.parentVersion]
  BY <1>4, <1>5 DEF Later
<1>8. Zone!Row' = Zone!Row
  BY DEF Zone!Row
<1>9. QED
  BY <1>1, <1>6, <1>7, <1>8 DEF Backed

LEMMA LaterSelf == \A k \in Zone!Object : Later(k, k)
BY ObjectParts DEF Later

LEMMA LaterAgain ==
  ASSUME NEW k \in Zone!Object, NEW l \in Zone!Object, NEW m \in Zone!Object, Later(k, l), Later(l, m)
  PROVE  Later(k, m)
<1>1. /\ Len(k.versions) \in Nat /\ Len(l.versions) \in Nat /\ Len(m.versions) \in Nat
      /\ Len(k.candidates) \in Nat /\ Len(l.candidates) \in Nat /\ Len(m.candidates) \in Nat
  BY ObjectParts
<1>2. Len(k.versions) <= Len(m.versions) /\ Len(k.candidates) <= Len(m.candidates)
  <2>1. /\ Len(k.versions) <= Len(l.versions) /\ Len(l.versions) <= Len(m.versions)
        /\ Len(k.candidates) <= Len(l.candidates) /\ Len(l.candidates) <= Len(m.candidates)
    BY DEF Later
  <2>2. QED
    BY <1>1, <2>1
<1>3. \A i \in 1 .. Len(k.versions) : m.versions[i] = k.versions[i]
  <2> SUFFICES ASSUME NEW i \in 1 .. Len(k.versions) PROVE m.versions[i] = k.versions[i]
    OBVIOUS
  <2>1. i \in 1 .. Len(l.versions)
    BY <1>1 DEF Later
  <2>2. QED
    BY <2>1 DEF Later
<1>4. \A i \in 1 .. Len(k.candidates) : /\ m.candidates[i].base = k.candidates[i].base
                                         /\ m.candidates[i].content = k.candidates[i].content
  <2> SUFFICES ASSUME NEW i \in 1 .. Len(k.candidates)
               PROVE  /\ m.candidates[i].base = k.candidates[i].base
                      /\ m.candidates[i].content = k.candidates[i].content
    OBVIOUS
  <2>1. i \in 1 .. Len(l.candidates)
    BY <1>1 DEF Later
  <2>2. QED
    BY <2>1 DEF Later
<1>5. QED
  BY <1>2, <1>3, <1>4 DEF Later

\* What was there of every object is there after.
Preserved(before, after) ==
  /\ after \in [Objects -> Zone!Object]
  /\ \A o \in Objects : Later(before[o], after[o])

LEMMA PreservedSelf ==
  ASSUME NEW zone \in [Objects -> Zone!Object] PROVE Preserved(zone, zone)
BY LaterSelf DEF Preserved

LEMMA PreservedExcept ==
  ASSUME NEW zone \in [Objects -> Zone!Object], NEW o \in Objects, NEW l \in Zone!Object, Later(zone[o], l)
  PROVE  Preserved(zone, [zone EXCEPT ![o] = l])
BY LaterSelf DEF Preserved

\* What a Zone does by itself changes no row and no call.
LEMMA WriteInv ==
  ASSUME ZoneInv, Preserved(child, child'), Preserved(parent, parent'), UNCHANGED <<assigned, commands, calls>>
  PROVE  ZoneInv'
<1>1. \A r : Backed(r) => Backed(r)'
  BY BackedLater DEF Preserved
<1>2. Zone!TypeOK'
  BY DEF ZoneInv, Zone!TypeOK, Preserved
<1>3. QED
  BY <1>1, <1>2 DEF ZoneInv, RowsBacked, ViewsRead

LEMMA OwnLifeInv ==
  ASSUME ZoneInv, NEW o \in Objects,
         \/ Zone!DeleteChild(o) \/ Zone!DeleteParent(o)
         \/ \E c \in VersionContents : \/ Zone!SubmitChild(o, c) \/ Zone!SubmitParent(o, c)
                                        \/ Zone!ResolveChild(o, c) \/ Zone!ResolveParent(o, c)
  PROVE  ZoneInv'
<1> DEFINE After(k) == {Zone!Submitted(k, c) : c \in VersionContents}
                       \cup {Zone!Decided(k, c) : c \in VersionContents}
                       \cup {[k EXCEPT !.versions = Append(@, Zone!Deleted)]}
<1>1. child \in [Objects -> Zone!Object] /\ parent \in [Objects -> Zone!Object]
  BY DEF ZoneInv, Zone!TypeOK
<1>2. \A k \in Zone!Object : \A l \in After(k) : l \in Zone!Object /\ Later(k, l)
  BY SubmittedLater, DecidedLater, DeletedLater
<1>3. UNCHANGED <<assigned, commands, calls>>
  BY DEF Zone!SubmitChild, Zone!SubmitParent, Zone!ResolveChild, Zone!ResolveParent,
         Zone!DeleteChild, Zone!DeleteParent, Zone!Write
<1>4. \/ parent' = parent /\ \E l \in After(child[o]) : child' = [child EXCEPT ![o] = l]
      \/ child' = child /\ \E l \in After(parent[o]) : parent' = [parent EXCEPT ![o] = l]
  <2>1. CASE \E c \in VersionContents : Zone!SubmitChild(o, c) \/ Zone!ResolveChild(o, c)
    BY <2>1 DEF Zone!SubmitChild, Zone!ResolveChild, Zone!Write
  <2>2. CASE \E c \in VersionContents : Zone!SubmitParent(o, c) \/ Zone!ResolveParent(o, c)
    BY <2>2 DEF Zone!SubmitParent, Zone!ResolveParent, Zone!Write
  <2>3. CASE Zone!DeleteChild(o)
    <3>1. child' = [child EXCEPT ![o] = [child[o] EXCEPT !.versions = Append(@, Zone!Deleted)]]
      BY <2>3 DEF Zone!DeleteChild, Zone!Write
    <3>2. QED
      BY <2>3, <3>1 DEF Zone!DeleteChild, Zone!Write
  <2>4. CASE Zone!DeleteParent(o)
    <3>1. parent' = [parent EXCEPT ![o] = [parent[o] EXCEPT !.versions = Append(@, Zone!Deleted)]]
      BY <2>4 DEF Zone!DeleteParent, Zone!Write
    <3>2. QED
      BY <2>4, <3>1 DEF Zone!DeleteParent, Zone!Write
  <2>5. QED
    BY <2>1, <2>2, <2>3, <2>4
<1> HIDE DEF After
<1>5. Preserved(child, child') /\ Preserved(parent, parent')
  <2>1. CASE parent' = parent /\ \E l \in After(child[o]) : child' = [child EXCEPT ![o] = l]
    <3>1. PICK l \in After(child[o]) : child' = [child EXCEPT ![o] = l]
      BY <2>1
    <3>2. l \in Zone!Object /\ Later(child[o], l)
      BY <1>1, <1>2
    <3>3. QED
      BY <1>1, <2>1, <3>1, <3>2, PreservedExcept, PreservedSelf
  <2>2. CASE child' = child /\ \E l \in After(parent[o]) : parent' = [parent EXCEPT ![o] = l]
    <3>1. PICK l \in After(parent[o]) : parent' = [parent EXCEPT ![o] = l]
      BY <2>2
    <3>2. l \in Zone!Object /\ Later(parent[o], l)
      BY <1>1, <1>2
    <3>3. QED
      BY <1>1, <2>2, <3>1, <3>2, PreservedExcept, PreservedSelf
  <2>3. QED
    BY <1>4, <2>1, <2>2
<1>6. QED
  BY <1>3, <1>5, WriteInv

LEMMA BeginMergeInv ==
  ASSUME ZoneInv, NEW p \in Zone!Callers, Zone!BeginMerge(p)
  PROVE  ZoneInv'
<1> DEFINE row == IF p = Zone!Merger THEN {} ELSE calls[p].row
           view == [o \in {o \in Objects : Zone!Active(child[o])} |-> Zone!Base(child[o])]
<1>1. calls' = [calls EXCEPT ![p] = [at |-> "read", row |-> row, view |-> view]]
      /\ UNCHANGED <<child, parent, assigned, commands>>
  BY DEF Zone!BeginMerge
<1>2. \A r \in row : Backed(r)
  BY DEF Zone!BeginMerge, ZoneInv, RowsBacked
<1>0. DOMAIN view \subseteq Objects
  OBVIOUS
<1> HIDE DEF row, view
<1>3. /\ calls' = [q \in Zone!Callers |-> calls'[q]]
      /\ calls'[p].at = "read" /\ calls'[p].row = row /\ calls'[p].view = view
      /\ \A q \in Zone!Callers : q # p => calls'[q] = calls[q]
  BY <1>1 DEF ZoneInv
<1>4. \A r : Backed(r)' <=> Backed(r)
  BY <1>1 DEF Backed, Zone!Row
<1>5. RowsBacked'
  BY <1>1, <1>2, <1>3, <1>4 DEF ZoneInv, RowsBacked
<1>6. Zone!TypeOK'
  BY <1>1, <1>3 DEF ZoneInv, Zone!TypeOK
<1>7. ViewsRead'
  BY <1>0, <1>3 DEF ZoneInv, ViewsRead
<1>8. QED
  BY <1>1, <1>3, <1>5, <1>6, <1>7 DEF ZoneInv

LEMMA AbandonInv ==
  ASSUME ZoneInv, NEW p \in Zone!Callers, Zone!Abandon(p)
  PROVE  ZoneInv'
<1>1. calls' = [calls EXCEPT ![p] = Zone!Returned] /\ UNCHANGED <<child, parent, assigned, commands>>
  BY DEF Zone!Abandon
<1>2. /\ calls' = [q \in Zone!Callers |-> calls'[q]]
      /\ calls'[p].at = "returned"
      /\ \A q \in Zone!Callers : q # p => calls'[q] = calls[q]
  BY <1>1 DEF ZoneInv, Zone!Returned
<1>3. \A r : Backed(r)' <=> Backed(r)
  BY <1>1 DEF Backed, Zone!Row
<1>4. RowsBacked'
  BY <1>1, <1>2, <1>3 DEF ZoneInv, RowsBacked
<1>5. Zone!TypeOK'
  BY <1>1, <1>2 DEF ZoneInv, Zone!TypeOK
<1>6. ViewsRead'
  BY <1>2 DEF ZoneInv, ViewsRead
<1>7. QED
  BY <1>1, <1>2, <1>4, <1>5, <1>6 DEF ZoneInv

LEMMA ResumeInv ==
  ASSUME ZoneInv, NEW s \in Sources, Zone!Resume(s)
  PROVE  ZoneInv'
<1>1. PICK r \in assigned : calls' = [calls EXCEPT ![s] = [at |-> "resolved", row |-> {r}]]
  BY DEF Zone!Resume, Zone!ResolvedBy
<1>2. UNCHANGED <<child, parent, assigned, commands>> /\ s \in Zone!Callers
  BY DEF Zone!Resume, Zone!ResolvedBy, Zone!Callers
<1>3. /\ calls' = [q \in Zone!Callers |-> calls'[q]]
      /\ calls'[s].at = "resolved" /\ calls'[s].row = {r}
      /\ \A q \in Zone!Callers : q # s => calls'[q] = calls[q]
  BY <1>1, <1>2 DEF ZoneInv
<1>4. \A q : Backed(q)' <=> Backed(q)
  BY <1>2 DEF Backed, Zone!Row
<1>5. RowsBacked'
  BY <1>2, <1>3, <1>4 DEF ZoneInv, RowsBacked
<1>6. Zone!TypeOK'
  BY <1>2, <1>3 DEF ZoneInv, Zone!TypeOK
<1>7. ViewsRead'
  BY <1>3 DEF ZoneInv, ViewsRead
<1>8. QED
  BY <1>2, <1>3, <1>5, <1>6, <1>7 DEF ZoneInv

\* What a Resolution notes in a row is not what backs it.
LEMMA BackedNoted ==
  ASSUME NEW r, Backed(r), NEW by \in Sources \cup {Zone!Pending}, NEW reconciled \in BOOLEAN
  PROVE  Backed([r EXCEPT !.by = by, !.reconciled = reconciled]) /\ Backed([r EXCEPT !.by = by])
<1> DEFINE q == [r EXCEPT !.by = by, !.reconciled = reconciled]
           n == [r EXCEPT !.by = by]
<1>1. r \in Zone!Row
  BY DEF Backed
<1>2. /\ q \in Zone!Row /\ q.object = r.object /\ q.base = r.base
      /\ q.candidate = r.candidate /\ q.parentVersion = r.parentVersion
      /\ n \in Zone!Row /\ n.object = r.object /\ n.base = r.base
      /\ n.candidate = r.candidate /\ n.parentVersion = r.parentVersion
  BY <1>1 DEF Zone!Row
<1> HIDE DEF q, n
<1>3. Backed(q) /\ Backed(n)
  BY <1>2 DEF Backed
<1>4. QED
  BY <1>3 DEF q, n

LEMMA ReconcileInv ==
  ASSUME ZoneInv, NEW s \in Sources, Zone!Reconcile(s)
  PROVE  ZoneInv'
<1>1. /\ s \in Zone!Callers /\ calls[s].at = "merged"
      /\ assigned' = (assigned \ calls[s].row)
                       \cup {[r EXCEPT !.reconciled = TRUE] : r \in calls[s].row}
      /\ calls' = [calls EXCEPT ![s] = Zone!Returned]
      /\ UNCHANGED <<child, parent, commands>>
  BY DEF Zone!Reconcile, Zone!Reconciled, Zone!Callers
<1>2. \A r \in calls[s].row : Backed(r)
  BY <1>1 DEF ZoneInv, RowsBacked
<1>3. ASSUME NEW r \in calls[s].row PROVE Backed([r EXCEPT !.reconciled = TRUE])
  <2>1. /\ r \in Zone!Row /\ r.by \in Sources \cup {Zone!Pending}
    BY <1>2 DEF Backed, Zone!Row
  <2>2. [r EXCEPT !.reconciled = TRUE] = [r EXCEPT !.by = r.by, !.reconciled = TRUE]
    BY <2>1 DEF Zone!Row
  <2>3. QED
    BY <1>2, <2>1, <2>2, BackedNoted
<1>4. \A r \in assigned' : Backed(r)
  BY <1>1, <1>3 DEF ZoneInv, RowsBacked
<1>5. /\ calls' = [q \in Zone!Callers |-> calls'[q]]
      /\ calls'[s].at = "returned"
      /\ \A q \in Zone!Callers : q # s => calls'[q] = calls[q]
  BY <1>1 DEF ZoneInv, Zone!Returned
<1>6. \A q : Backed(q)' <=> Backed(q)
  BY <1>1 DEF Backed, Zone!Row
<1>7. RowsBacked'
  BY <1>4, <1>5, <1>6 DEF ZoneInv, RowsBacked
<1>8. Zone!TypeOK'
  <2>1. assigned' \subseteq Zone!Row
    BY <1>4 DEF Backed
  <2>2. QED
    BY <1>1, <1>5, <2>1 DEF ZoneInv, Zone!TypeOK
<1>9. ViewsRead'
  BY <1>5 DEF ZoneInv, ViewsRead
<1>10. QED
  BY <1>1, <1>5, <1>7, <1>8, <1>9 DEF ZoneInv

\* The Candidate of a row is one of its base and content, decided or not.
LEMMA CandidateFound ==
  ASSUME NEW k \in Zone!Object, NEW c,
         \E i \in DOMAIN k.candidates : k.candidates[i].base = Zone!Base(k) /\ k.candidates[i].content = c
  PROVE  /\ Zone!CandidateFor(k, c) \in 1 .. Len(k.candidates)
         /\ k.candidates[Zone!CandidateFor(k, c)].base = Zone!Base(k)
         /\ k.candidates[Zone!CandidateFor(k, c)].content = c
<1> DEFINE T == {i \in DOMAIN k.candidates : k.candidates[i].base = Zone!Base(k) /\ k.candidates[i].content = c}
<1>1. T \subseteq Nat /\ T # {} /\ DOMAIN k.candidates = 1 .. Len(k.candidates)
  BY ObjectParts
<1>2. \A i \in T : i \in 1 .. Len(k.candidates) /\ k.candidates[i].base = Zone!Base(k) /\ k.candidates[i].content = c
  BY <1>1
<1>3. Zone!CandidateFor(k, c) = Zone!Min(T)
  BY DEF Zone!CandidateFor
<1> HIDE DEF T
<1>4. PICK n \in T : \A m \in T : n <= m
  BY <1>1, Least
<1>5. Zone!Min(T) \in T
  BY <1>4 DEF Zone!Min
<1>6. QED
  BY <1>2, <1>3, <1>5

\* A merge submits what the Parent says to a Child that says something else,
\* so that a Candidate with it is there.
LEMMA SubmittedFound ==
  ASSUME NEW k \in Zone!Object, NEW c \in VersionContents, Zone!Active(k), Zone!Current(k) # c
  PROVE  LET l == Zone!Submitted(k, c) IN
           /\ Zone!Base(l) = Zone!Base(k)
           /\ \E i \in DOMAIN l.candidates : l.candidates[i].base = Zone!Base(l) /\ l.candidates[i].content = c
<1> DEFINE new == [base |-> Zone!Base(k), content |-> c, open |-> TRUE]
           more == [k EXCEPT !.candidates = Append(@, new)]
           l == Zone!Submitted(k, c)
<1>1. Zone!Base(k) # 0
  BY ObjectParts DEF Zone!Active
<1>2. CASE \E i \in Zone!Open(k) : k.candidates[i].content = c
  <2>1. l = k
    BY <1>1, <1>2 DEF Zone!Submitted
  <2> HIDE DEF l
  <2>2. QED
    BY <1>2, <2>1 DEF Zone!Open, l
<1>3. CASE ~\E i \in Zone!Open(k) : k.candidates[i].content = c
  <2>1. l = more
    BY <1>1, <1>3 DEF Zone!Submitted
  <2>2. more = [versions |-> k.versions, candidates |-> Append(k.candidates, new)]
    BY WithCandidates
  <2>3. new \in Candidates
    BY <1>1, ObjectParts DEF Candidates
  <2>4. /\ DOMAIN Append(k.candidates, new) = 1 .. Len(k.candidates) + 1
        /\ Append(k.candidates, new)[Len(k.candidates) + 1] = new
    BY <2>3, ObjectParts, AppendProperties
  <2>5. new.base = Zone!Base(k) /\ new.content = c
    OBVIOUS
  <2> HIDE DEF new, more, l
  <2>6. /\ Zone!Base(l) = Zone!Base(k)
        /\ l.candidates = Append(k.candidates, new)
    BY <2>1, <2>2 DEF Zone!Base
  <2>7. Len(k.candidates) + 1 \in DOMAIN l.candidates
    BY <2>4, <2>6, ObjectParts
  <2>8. QED
    BY <2>4, <2>5, <2>6, <2>7 DEF l
<1>4. QED
  BY <1>2, <1>3

\* What a merge assigns is backed: the Parent's content is a Candidate now.
LEMMA AssignedBacked ==
  ASSUME ZoneInv, NEW o \in Objects, Zone!Active(child[o]), Zone!Active(parent[o]), Zone!Differs(o),
         child'[o] = Zone!Submitted(child[o], Zone!Current(parent[o])), parent'[o] = parent[o],
         NEW r, r = Zone!Assignment(o, child'[o])
  PROVE  Backed(r)'
<1> DEFINE c == Zone!Current(parent[o])
<1>1. child[o] \in Zone!Object /\ parent[o] \in Zone!Object
  BY DEF ZoneInv, Zone!TypeOK
<1>2. /\ Zone!Base(parent[o]) \in 1 .. Len(parent[o].versions)
      /\ Zone!Base(parent[o]) \in Nat /\ c = parent[o].versions[Zone!Base(parent[o])]
      /\ c \in VersionContents
  <2>1. Zone!Base(parent[o]) \in Nat /\ Zone!Base(parent[o]) = Len(parent[o].versions) /\ Zone!Base(parent[o]) > 0
    BY <1>1, ObjectParts DEF Zone!Active
  <2>2. c = parent[o].versions[Zone!Base(parent[o])]
    BY DEF Zone!Current
  <2>3. c \in VersionContents \cup {Zone!Deleted}
    BY <1>1, <2>1, <2>2, ObjectParts
  <2>4. QED
    BY <2>1, <2>2, <2>3 DEF Zone!Active
<1> HIDE DEF c
<1>3. Zone!Current(child[o]) # c
  BY DEF Zone!Differs, c
<1>4. /\ child'[o] \in Zone!Object /\ Zone!Base(child'[o]) = Zone!Base(child[o])
      /\ \E i \in DOMAIN child'[o].candidates :
           child'[o].candidates[i].base = Zone!Base(child'[o]) /\ child'[o].candidates[i].content = c
  BY <1>1, <1>2, <1>3, SubmittedLater, SubmittedFound DEF c
<1> DEFINE i == Zone!CandidateFor(child'[o], c)
<1>5. /\ i \in 1 .. Len(child'[o].candidates)
      /\ child'[o].candidates[i].base = Zone!Base(child'[o])
      /\ child'[o].candidates[i].content = c
  BY <1>4, CandidateFound
<1>6. Zone!Base(child'[o]) \in Nat /\ i \in Nat
  BY <1>4, <1>5, ObjectParts
<1> HIDE DEF i
<1>7. r = [object |-> o, base |-> Zone!Base(child'[o]), candidate |-> i,
           parentVersion |-> Zone!Base(parent[o]), by |-> Zone!Pending, reconciled |-> FALSE]
  BY DEF Zone!Assignment, i, c
<1>8. /\ r \in Zone!Row /\ r.object = o /\ r.base = Zone!Base(child'[o]) /\ r.candidate = i
      /\ r.parentVersion = Zone!Base(parent[o])
  BY <1>2, <1>6, <1>7 DEF Zone!Row
<1>9. Zone!Row' = Zone!Row
  BY DEF Zone!Row
<1>10. QED
  BY <1>2, <1>5, <1>8, <1>9 DEF Backed

LEMMA CommitMergeInv ==
  ASSUME ZoneInv, NEW p \in Zone!Callers, Zone!CommitMerge(p)
  PROVE  ZoneInv'
<1> DEFINE view == calls[p].view
           new == {o \in DOMAIN view : Zone!Assigns(o)}
<1>1. /\ calls[p].at = "read"
      /\ \A o \in DOMAIN view : Zone!Mergeable(o, view[o])
      /\ parent' = [o \in Objects |->
           IF o \in DOMAIN view /\ Zone!Base(parent[o]) = 0
           THEN Zone!Submitted(parent[o], Zone!Current(child[o])) ELSE parent[o]]
      /\ child' = [o \in Objects |->
           IF o \in DOMAIN view /\ Zone!Assigns(o)
           THEN Zone!Submitted(child[o], Zone!Current(parent[o])) ELSE child[o]]
      /\ assigned' = assigned \cup {Zone!Assignment(o, child'[o]) : o \in new}
      /\ UNCHANGED commands
  BY DEF Zone!CommitMerge, Zone!Saved
<1>2. calls' = [calls EXCEPT ![p] = IF p = Zone!Merger THEN Zone!Returned
                                    ELSE [at |-> "merged", row |-> calls[p].row]]
  BY DEF Zone!CommitMerge, Zone!Saved
<1>3. DOMAIN view \subseteq Objects
  BY <1>1 DEF ZoneInv, ViewsRead
<1> HIDE DEF view
<1>4. \A o \in Objects : child[o] \in Zone!Object /\ parent[o] \in Zone!Object
  BY DEF ZoneInv, Zone!TypeOK
<1>5. ASSUME NEW k \in Zone!Object, Zone!Active(k) PROVE Zone!Current(k) \in VersionContents
  BY <1>5, ObjectParts DEF Zone!Active, Zone!Current
<1>6. \A o \in DOMAIN view : Zone!Active(child[o])
  BY <1>1 DEF Zone!Mergeable
<1>7. \A o \in new : Zone!Active(parent[o]) /\ Zone!Differs(o) /\ Zone!Base(parent[o]) # 0
  BY <1>1 DEF Zone!Mergeable, Zone!Assigns, Zone!Differs
<1>8. Preserved(parent, parent')
  <2>1. \A o \in Objects : parent'[o] \in {parent[o], Zone!Submitted(parent[o], Zone!Current(child[o]))}
    BY <1>1
  <2>2. \A o \in DOMAIN view : Zone!Current(child[o]) \in VersionContents
    BY <1>3, <1>4, <1>5, <1>6
  <2>3. ASSUME NEW o \in Objects PROVE parent'[o] \in Zone!Object /\ Later(parent[o], parent'[o])
    <3>1. CASE parent'[o] = parent[o]
      BY <1>4, <3>1, LaterSelf
    <3>2. CASE parent'[o] # parent[o]
      <4>1. o \in DOMAIN view /\ parent'[o] = Zone!Submitted(parent[o], Zone!Current(child[o]))
        BY <1>1, <3>2
      <4>2. QED
        BY <1>4, <2>2, <4>1, SubmittedLater
    <3>3. QED
      BY <3>1, <3>2
  <2>4. parent' = [o \in Objects |-> parent'[o]]
    BY <1>1
  <2>5. QED
    BY <2>3, <2>4 DEF Preserved
<1>9. Preserved(child, child')
  <2>1. ASSUME NEW o \in Objects PROVE child'[o] \in Zone!Object /\ Later(child[o], child'[o])
    <3>1. CASE o \notin new
      BY <1>1, <1>4, <3>1, LaterSelf
    <3>2. CASE o \in new
      <4>1. child'[o] = Zone!Submitted(child[o], Zone!Current(parent[o]))
        BY <1>1, <3>2
      <4>2. Zone!Current(parent[o]) \in VersionContents
        BY <1>4, <1>5, <1>7, <3>2
      <4>3. QED
        BY <1>4, <4>1, <4>2, SubmittedLater
    <3>3. QED
      BY <3>1, <3>2
  <2>2. child' = [o \in Objects |-> child'[o]]
    BY <1>1
  <2>3. QED
    BY <2>1, <2>2 DEF Preserved
<1>10. \A r : Backed(r) => Backed(r)'
  BY <1>8, <1>9, BackedLater DEF Preserved
<1>11. ASSUME NEW r \in assigned' PROVE Backed(r)'
  <2>1. CASE r \in assigned
    BY <1>10, <2>1 DEF ZoneInv, RowsBacked
  <2>2. CASE r \notin assigned
    <3>1. PICK o \in new : r = Zone!Assignment(o, child'[o])
      BY <1>1, <2>2
    <3>2. /\ o \in Objects /\ Zone!Active(child[o]) /\ Zone!Active(parent[o]) /\ Zone!Differs(o)
      BY <1>3, <1>6, <1>7
    <3>3. child'[o] = Zone!Submitted(child[o], Zone!Current(parent[o])) /\ parent'[o] = parent[o]
      BY <1>1, <1>7, <3>2
    <3>4. QED
      BY <3>1, <3>2, <3>3, AssignedBacked
  <2>3. QED
    BY <2>1, <2>2
<1>12. /\ calls' = [q \in Zone!Callers |-> calls'[q]]
       /\ calls'[p].at \in {"returned", "merged"}
       /\ calls'[p].at # "returned" => calls'[p].row = calls[p].row
       /\ \A q \in Zone!Callers : q # p => calls'[q] = calls[q]
  BY <1>2 DEF ZoneInv, Zone!Returned
<1>13. RowsBacked'
  <2>1. ASSUME NEW q \in Zone!Callers, calls'[q].at # "returned" PROVE \A r \in calls'[q].row : Backed(r)'
    BY <1>1, <1>10, <1>12, <2>1 DEF ZoneInv, RowsBacked
  <2>2. QED
    BY <1>11, <2>1 DEF RowsBacked
<1>14. Zone!TypeOK'
  <2>1. assigned' \subseteq Zone!Row'
    BY <1>11 DEF Backed
  <2>2. QED
    BY <1>1, <1>8, <1>9, <1>12, <2>1 DEF ZoneInv, Zone!TypeOK, Preserved, Zone!Row
<1>15. ViewsRead'
  BY <1>12 DEF ZoneInv, ViewsRead
<1>16. QED
  BY <1>1, <1>12, <1>13, <1>14, <1>15 DEF ZoneInv

\* The Parent is given the final content, or asked again through a merge.
LEMMA CarryBackPreserved ==
  ASSUME ZoneInv, NEW s \in Sources, NEW final \in VersionContents, NEW r \in assigned,
         Preserved(child, child'), Zone!CarryBack(s, r, final)
  PROVE  /\ Preserved(parent, parent')
         /\ calls' = [q \in Zone!Callers |-> calls'[q]]
         /\ \A q \in Zone!Callers : calls'[q].at \in {"returned", "resolved", "read", "merged"}
         /\ assigned' \subseteq Zone!Row
         /\ RowsBacked' /\ ViewsRead'
<1> DEFINE k == parent[r.object]
           l == Zone!Published(k, final)
           noted == [r EXCEPT !.by = s]
<1>1. /\ Backed(r) /\ r \in Zone!Row /\ r.object \in Objects /\ k \in Zone!Object
      /\ parent \in [Objects -> Zone!Object] /\ s \in Zone!Callers
  BY DEF ZoneInv, RowsBacked, Backed, Zone!TypeOK, Zone!Row, Zone!Callers
<1>2. l \in Zone!Object /\ Later(k, l)
  <2> DEFINE m == Zone!Submitted(k, final)
  <2>1. m \in Zone!Object /\ Later(k, m) /\ Zone!Decided(m, final) \in Zone!Object /\ Later(m, Zone!Decided(m, final))
    BY <1>1, SubmittedLater, DecidedLater
  <2>2. Later(k, Zone!Decided(m, final)) /\ Later(k, k)
    BY <1>1, <2>1, LaterAgain, LaterSelf
  <2>3. l \in {k, Zone!Decided(m, final)}
    BY DEF Zone!Published
  <2> HIDE DEF k, l, m
  <2>4. QED
    BY <1>1, <2>1, <2>2, <2>3
<1>3. \/ UNCHANGED calls /\ parent' = [parent EXCEPT ![r.object] = l]
      \/ parent' = parent /\ calls' = [calls EXCEPT ![s] = [at |-> "resolved", row |-> {noted}]]
  BY DEF Zone!CarryBack
<1>4. PICK reconciled \in BOOLEAN : assigned' = Zone!Marked(r, s, reconciled)
  BY DEF Zone!CarryBack
<1>5. Backed([r EXCEPT !.by = s, !.reconciled = reconciled]) /\ Backed(noted)
  BY <1>1, BackedNoted
<1>6. \A q \in assigned' : Backed(q)
  BY <1>4, <1>5 DEF ZoneInv, RowsBacked, Zone!Marked
<1> HIDE DEF k, l, noted
<1>7. Preserved(parent, parent')
  BY <1>1, <1>2, <1>3, PreservedExcept, PreservedSelf DEF k
<1>8. \A q : Backed(q) => Backed(q)'
  BY <1>7, BackedLater DEF Preserved
<1>9. \/ UNCHANGED calls
      \/ /\ calls' = [q \in Zone!Callers |-> calls'[q]]
         /\ calls'[s].at = "resolved" /\ calls'[s].row = {noted}
         /\ \A q \in Zone!Callers : q # s => calls'[q] = calls[q]
  BY <1>1, <1>3 DEF ZoneInv
<1>10. /\ calls' = [q \in Zone!Callers |-> calls'[q]]
       /\ \A q \in Zone!Callers : calls'[q].at \in {"returned", "resolved", "read", "merged"}
  BY <1>9 DEF ZoneInv, Zone!TypeOK
<1>11. RowsBacked'
  BY <1>5, <1>6, <1>8, <1>9 DEF ZoneInv, RowsBacked
<1>12. ViewsRead'
  BY <1>9 DEF ZoneInv, ViewsRead
<1>13. QED
  BY <1>6, <1>7, <1>10, <1>11, <1>12 DEF Backed

LEMMA ResolutionInv ==
  ASSUME ZoneInv, NEW s \in Sources,
         \/ Zone!Retry(s)
         \/ \E o \in Objects, final \in VersionContents : Zone!Resolve(s, o, final)
  PROVE  ZoneInv'
<1>1. child \in [Objects -> Zone!Object] /\ parent \in [Objects -> Zone!Object]
  BY DEF ZoneInv, Zone!TypeOK
<1>2. CASE Zone!Retry(s)
  <2>1. commands[s].final \in VersionContents /\ UNCHANGED <<child, commands>>
    BY <1>2 DEF Zone!Retry, ZoneInv, Zone!TypeOK
  <2>2. PICK r \in assigned : Zone!CarryBack(s, r, commands[s].final)
    BY <1>2 DEF Zone!Retry, Zone!Unresolved
  <2>3. Preserved(child, child')
    BY <1>1, <2>1, PreservedSelf
  <2>4. /\ Preserved(parent, parent')
        /\ calls' = [q \in Zone!Callers |-> calls'[q]]
        /\ \A q \in Zone!Callers : calls'[q].at \in {"returned", "resolved", "read", "merged"}
        /\ assigned' \subseteq Zone!Row
        /\ RowsBacked' /\ ViewsRead'
    BY <2>1, <2>2, <2>3, CarryBackPreserved
  <2>5. Zone!TypeOK'
    BY <2>1, <2>3, <2>4 DEF ZoneInv, Zone!TypeOK, Preserved
  <2>6. QED
    BY <2>1, <2>4, <2>5 DEF ZoneInv
<1>3. ASSUME NEW o \in Objects, NEW final \in VersionContents, Zone!Resolve(s, o, final)
      PROVE  ZoneInv'
  <2> DEFINE command == [object |-> o, base |-> Zone!Base(child[o]), final |-> final]
  <2>1. /\ commands' = [commands EXCEPT ![s] = command]
        /\ child' = [child EXCEPT ![o] = Zone!Decided(child[o], final)]
    BY <1>3 DEF Zone!Resolve
  <2>2. PICK r \in assigned : Zone!CarryBack(s, r, final)
    BY <1>3 DEF Zone!Resolve, Zone!Unresolved
  <2>3. Preserved(child, child')
    <3>1. child[o] \in Zone!Object
      BY <1>1
    <3>2. Zone!Decided(child[o], final) \in Zone!Object /\ Later(child[o], Zone!Decided(child[o], final))
      BY <3>1, DecidedLater
    <3>3. QED
      BY <1>1, <2>1, <3>2, PreservedExcept
  <2>4. /\ Preserved(parent, parent')
        /\ calls' = [q \in Zone!Callers |-> calls'[q]]
        /\ \A q \in Zone!Callers : calls'[q].at \in {"returned", "resolved", "read", "merged"}
        /\ assigned' \subseteq Zone!Row
        /\ RowsBacked' /\ ViewsRead'
    BY <2>2, <2>3, CarryBackPreserved
  <2>5. command \in [object : Objects, base : Nat, final : VersionContents]
    <3>1. Zone!Base(child[o]) \in Nat
      BY <1>1, ObjectParts
    <3>2. QED
      BY <3>1
  <2> HIDE DEF command
  <2>6. /\ commands' = [q \in Sources |-> commands'[q]]
        /\ commands'[s] = command /\ \A q \in Sources : q # s => commands'[q] = commands[q]
    BY <2>1 DEF ZoneInv
  <2>7. Zone!TypeOK'
    BY <2>3, <2>4, <2>5, <2>6 DEF ZoneInv, Zone!TypeOK, Preserved
  <2>8. QED
    BY <2>4, <2>6, <2>7 DEF ZoneInv
<1>4. QED
  BY <1>2, <1>3

LEMMA ZoneStep == ZoneInv /\ [Zone!Next]_(Zone!vars) => ZoneInv'
<1> SUFFICES ASSUME ZoneInv, [Zone!Next]_(Zone!vars) PROVE ZoneInv'
  OBVIOUS
<1>1. ASSUME NEW p \in Zone!Callers, Zone!BeginMerge(p) \/ Zone!CommitMerge(p) \/ Zone!Abandon(p)
      PROVE  ZoneInv'
  BY <1>1, BeginMergeInv, CommitMergeInv, AbandonInv
<1>2. ASSUME NEW s \in Sources,
             \/ Zone!Retry(s) \/ Zone!Resume(s) \/ Zone!Reconcile(s)
             \/ \E o \in Objects, final \in VersionContents : Zone!Resolve(s, o, final)
      PROVE  ZoneInv'
  BY <1>2, ResolutionInv, ResumeInv, ReconcileInv
<1>3. ASSUME NEW o \in Objects,
             \/ Zone!DeleteChild(o) \/ Zone!DeleteParent(o)
             \/ \E c \in VersionContents : \/ Zone!SubmitChild(o, c) \/ Zone!SubmitParent(o, c)
                                            \/ Zone!ResolveChild(o, c) \/ Zone!ResolveParent(o, c)
      PROVE  ZoneInv'
  BY <1>3, OwnLifeInv
<1>4. CASE UNCHANGED Zone!vars
  <2>1. child \in [Objects -> Zone!Object] /\ parent \in [Objects -> Zone!Object]
    BY DEF ZoneInv, Zone!TypeOK
  <2>2. QED
    BY <1>4, <2>1, WriteInv, PreservedSelf DEF Zone!vars
<1>5. QED
  BY <1>1, <1>2, <1>3, <1>4 DEF Zone!Next

LEMMA ZonePart == [ServicesNext]_servicesVars => [Zone!Next]_(Zone!vars)
BY DEF ServicesNext, servicesVars, Only, zoneVars, Zone!vars

LEMMA ZoneInvariance == ServicesSpec => []ZoneInv
<1>1. ServicesInit => ZoneInv
  BY ZoneInit DEF ServicesInit
<1>2. ZoneInv /\ [ServicesNext]_servicesVars => ZoneInv'
  BY ZoneStep, ZonePart
<1>3. QED
  BY <1>1, <1>2, PTL DEF ServicesSpec

\* A Submission to an active object adds no Version.
LEMMA SubmittedSame ==
  ASSUME NEW k \in Zone!Object, NEW c, Zone!Active(k)
  PROVE  /\ Zone!Base(Zone!Submitted(k, c)) = Zone!Base(k)
         /\ Zone!Current(Zone!Submitted(k, c)) = Zone!Current(k)
<1> DEFINE more == [k EXCEPT !.candidates = Append(@, [base |-> Zone!Base(k), content |-> c, open |-> TRUE])]
<1>1. Zone!Base(k) # 0
  BY ObjectParts DEF Zone!Active
<1>2. Zone!Submitted(k, c) \in {k, more}
  BY <1>1 DEF Zone!Submitted
<1>3. more.versions = k.versions
  BY WithCandidates
<1> HIDE DEF more
<1>4. QED
  BY <1>2, <1>3 DEF Zone!Base, Zone!Current

\* What is published to an active object is its Version then.
LEMMA PublishedCurrent ==
  ASSUME NEW k \in Zone!Object, NEW final \in VersionContents, Zone!Active(k)
  PROVE  Zone!Current(Zone!Published(k, final)) = final
<1> DEFINE m == Zone!Submitted(k, final)
<1>1. m \in Zone!Object /\ Zone!Current(m) = Zone!Current(k)
  BY SubmittedLater, SubmittedSame
<1>2. CASE Zone!Current(k) = final
  BY <1>2 DEF Zone!Published
<1>3. CASE Zone!Current(k) # final
  <2>1. Zone!Published(k, final) = Zone!Decided(m, final)
    BY <1>3 DEF Zone!Published
  <2>2. Zone!Decided(m, final).versions = Append(m.versions, final)
    BY <1>1, <1>3 DEF Zone!Decided
  <2> HIDE DEF m
  <2>3. /\ Len(Append(m.versions, final)) = Len(m.versions) + 1
        /\ Append(m.versions, final)[Len(m.versions) + 1] = final
    BY <1>1, ObjectParts, AppendProperties
  <2>4. QED
    BY <2>1, <2>2, <2>3 DEF Zone!Current, Zone!Base
<1>4. QED
  BY <1>2, <1>3

\* Only a Resolution that finds the Parent as assigned replaces what it says.
LEMMA CarriedBack ==
  ASSUME Zone!Assumptions, ZoneInv, NEW s \in Sources, NEW final \in VersionContents, NEW r \in assigned,
         r.by = Zone!Pending, Zone!CarryBack(s, r, final),
         commands'[s].object = r.object, commands'[s].final = final, Zone!Reviewed(s, r),
         NEW o \in Objects, Zone!Replaced(o)
  PROVE  Zone!AsDecided(o)
<1> DEFINE q == [r EXCEPT !.by = s, !.reconciled = TRUE]
<1>1. /\ r \in Zone!Row /\ Backed(r) /\ parent \in [Objects -> Zone!Object]
      /\ parent[o] \in Zone!Object /\ Zone!Base(parent[o]) \in Nat
  <2>1. r \in Zone!Row /\ Backed(r) /\ parent \in [Objects -> Zone!Object]
    BY DEF ZoneInv, RowsBacked, Zone!TypeOK
  <2>2. QED
    BY <2>1, ObjectParts
<1>2. parent' # parent
  BY <1>1 DEF Zone!Replaced
<1>3. /\ Zone!AsAssigned(r)
      /\ parent' = [parent EXCEPT ![r.object] = Zone!Published(parent[r.object], final)]
      /\ assigned' = (assigned \ {r}) \cup {q}
  BY <1>2 DEF Zone!CarryBack, Zone!Marked
<1>4. o = r.object
  BY <1>1, <1>3 DEF Zone!Replaced
<1>5. parent'[o] = Zone!Published(parent[o], final)
  BY <1>1, <1>3, <1>4
<1>6. Zone!Current(parent'[o]) = final
  BY <1>1, <1>5, PublishedCurrent DEF Zone!Replaced
<1>7. /\ q.by = s /\ q.object = r.object /\ q = [r EXCEPT !.by = q.by, !.reconciled = TRUE]
      /\ q # r
  BY <1>1 DEF Zone!Row, Zone!Assumptions
<1> HIDE DEF q
<1>8. r \in assigned \ assigned' /\ q \in assigned'
  BY <1>3, <1>7
<1>9. r.parentVersion = Zone!Base(parent[o])
  BY <1>3, <1>4 DEF Zone!AsAssigned
<1>10. /\ child[o].candidates[r.candidate].base = r.base
       /\ child[o].candidates[r.candidate].content = Zone!Current(parent[o])
  BY <1>1, <1>4, <1>9 DEF Backed, Zone!Current
<1>11. commands'[q.by].object = o /\ commands'[q.by].final = Zone!Current(parent'[o])
  BY <1>4, <1>6, <1>7
<1>12. Zone!Reviewed(q.by, r)
  BY <1>7
<1>13. QED
  BY <1>4, <1>7, <1>8, <1>9, <1>10, <1>11, <1>12 DEF Zone!AsDecided

\* Nothing else does: a Submission needs an object that is not there, a plain
\* Resolution a conflict of the Parent's own.
LEMMA NotReplaced ==
  ASSUME ZoneInv, NEW o \in Objects, Zone!Replaced(o), [Zone!Next]_(Zone!vars)
  PROVE  \E s \in Sources : \/ Zone!Retry(s)
                            \/ \E p \in Objects, final \in VersionContents : Zone!Resolve(s, p, final)
<1>1. /\ parent \in [Objects -> Zone!Object] /\ parent[o] \in Zone!Object
      /\ Zone!Base(parent[o]) \in Nat
  BY ObjectParts DEF ZoneInv, Zone!TypeOK
<1>2. parent'[o] # parent[o] /\ Zone!Base(parent'[o]) # Zone!Base(parent[o])
  BY <1>1 DEF Zone!Replaced
<1>3. /\ Zone!Active(parent[o]) /\ Zone!Base(parent[o]) # 0 /\ Zone!Open(parent[o]) = {}
      /\ Zone!Current(parent'[o]) # Zone!Deleted
  BY <1>1 DEF Zone!Replaced, Zone!Active
<1>4. ASSUME NEW p \in Objects, NEW c \in VersionContents, Zone!SubmitParent(p, c) PROVE FALSE
  <2>1. parent' = [parent EXCEPT ![p] = Zone!Submitted(parent[p], c)]
    BY <1>4 DEF Zone!SubmitParent, Zone!Write
  <2>2. p = o /\ parent'[o] = Zone!Submitted(parent[o], c)
    BY <1>1, <1>2, <2>1
  <2>3. QED
    BY <1>1, <1>2, <1>3, <2>2, SubmittedSame
<1>5. ASSUME NEW p \in Objects, NEW c \in VersionContents, Zone!ResolveParent(p, c) PROVE FALSE
  <2>1. parent' = [parent EXCEPT ![p] = Zone!Decided(parent[p], c)] /\ Zone!Open(parent[p]) # {}
    BY <1>5 DEF Zone!ResolveParent, Zone!Write
  <2>2. p = o
    BY <1>1, <1>2, <2>1
  <2>3. QED
    BY <1>3, <2>1, <2>2
<1>6. ASSUME NEW p \in Objects, Zone!DeleteParent(p) PROVE FALSE
  <2>1. parent' = [parent EXCEPT ![p] = [parent[p] EXCEPT !.versions = Append(@, Zone!Deleted)]]
    BY <1>6 DEF Zone!DeleteParent, Zone!Write
  <2>2. parent'[o] = [parent[o] EXCEPT !.versions = Append(parent[o].versions, Zone!Deleted)]
    BY <1>1, <1>2, <2>1
  <2>3. parent'[o].versions = Append(parent[o].versions, Zone!Deleted)
    BY <1>1, <2>2, WithVersions
  <2>4. /\ Len(Append(parent[o].versions, Zone!Deleted)) = Len(parent[o].versions) + 1
        /\ Append(parent[o].versions, Zone!Deleted)[Len(parent[o].versions) + 1] = Zone!Deleted
    BY <1>1, ObjectParts, AppendProperties
  <2>5. QED
    BY <1>3, <2>3, <2>4 DEF Zone!Current, Zone!Base
<1>7. ASSUME NEW p \in Zone!Callers, Zone!CommitMerge(p) PROVE FALSE
  <2>1. parent'[o] = parent[o]
    BY <1>3, <1>7 DEF Zone!CommitMerge
  <2>2. QED
    BY <1>2, <2>1
<1>8. parent' # parent
  BY <1>2
<1>9. QED
  BY <1>4, <1>5, <1>6, <1>7, <1>8
  DEF Zone!Next, Zone!vars, Zone!SubmitChild, Zone!ResolveChild, Zone!DeleteChild, Zone!Write,
      Zone!BeginMerge, Zone!Abandon, Zone!Resume, Zone!Reconcile

\* A Source that has resolved a row is noted in one from then on.
LEMMA NotesKept ==
  ASSUME Zone!Assumptions, ZoneInv, [Zone!Next]_(Zone!vars), NEW r \in assigned, r.by # Zone!Pending
  PROVE  \E q \in assigned' : q.by = r.by
<1>1. CASE r \in assigned'
  BY <1>1
<1>2. ASSUME NEW s \in Sources, NEW final, NEW p \in assigned, p.by = Zone!Pending,
             Zone!CarryBack(s, p, final)
      PROVE  r \in assigned'
  BY <1>2 DEF Zone!CarryBack, Zone!Marked
<1>3. ASSUME NEW s \in Sources, Zone!Retry(s) \/ \E o \in Objects, c \in VersionContents : Zone!Resolve(s, o, c)
      PROVE  r \in assigned'
  BY <1>2, <1>3 DEF Zone!Retry, Zone!Resolve, Zone!Unresolved
<1>4. ASSUME NEW s \in Sources, Zone!Reconcile(s)
      PROVE  \E q \in assigned' : q.by = r.by
  <2>1. assigned' = (assigned \ calls[s].row) \cup {[p EXCEPT !.reconciled = TRUE] : p \in calls[s].row}
    BY <1>4 DEF Zone!Reconcile, Zone!Reconciled
  <2>2. CASE r \in calls[s].row
    <3>1. [r EXCEPT !.reconciled = TRUE].by = r.by
      BY DEF ZoneInv, RowsBacked, Backed, Zone!Row
    <3>2. [r EXCEPT !.reconciled = TRUE] \in assigned'
      BY <2>1, <2>2
    <3>3. QED
      BY <3>1, <3>2
  <2>3. QED
    BY <2>1, <2>2
<1>5. ASSUME NEW p \in Zone!Callers, Zone!CommitMerge(p) PROVE r \in assigned'
  BY <1>5 DEF Zone!CommitMerge, Zone!Saved
<1>6. CASE UNCHANGED assigned
  BY <1>6
<1>7. QED
  BY <1>1, <1>3, <1>4, <1>5, <1>6
  DEF Zone!Next, Zone!vars, Zone!SubmitChild, Zone!ResolveChild, Zone!DeleteChild,
      Zone!SubmitParent, Zone!ResolveParent, Zone!DeleteParent, Zone!Write,
      Zone!BeginMerge, Zone!Abandon, Zone!Resume

\* Every command has resolved a row with its first call.
CommandsNoted ==
  \A s \in Sources : commands[s] # Zone!NoCommand => \E r \in assigned : r.by = s

LEMMA CommandsNotedStep ==
  ASSUME Zone!Assumptions, ZoneInv, CommandsNoted, [Zone!Next]_(Zone!vars)
  PROVE  CommandsNoted'
<1> SUFFICES ASSUME NEW s \in Sources, commands'[s] # Zone!NoCommand
             PROVE  \E r \in assigned' : r.by = s
  BY DEF CommandsNoted
<1>1. CASE commands[s] # Zone!NoCommand
  <2>1. PICK r \in assigned : r.by = s
    BY <1>1 DEF CommandsNoted
  <2>2. r.by # Zone!Pending
    BY <2>1 DEF Zone!Assumptions
  <2>3. QED
    BY <2>1, <2>2, NotesKept
<1>2. CASE commands[s] = Zone!NoCommand
  <2>1. PICK t \in Sources : \E o \in Objects, c \in VersionContents : Zone!Resolve(t, o, c)
    BY <1>2
    DEF Zone!Next, Zone!vars, Zone!SubmitChild, Zone!ResolveChild, Zone!DeleteChild,
        Zone!SubmitParent, Zone!ResolveParent, Zone!DeleteParent, Zone!Write,
        Zone!BeginMerge, Zone!CommitMerge, Zone!Abandon, Zone!Retry, Zone!Resume, Zone!Reconcile
  <2>2. PICK o \in Objects, c \in VersionContents : Zone!Resolve(t, o, c)
    BY <2>1
  <2>3. t = s
    <3>1. commands' = [commands EXCEPT ![t] = [object |-> o, base |-> Zone!Base(child[o]), final |-> c]]
      BY <2>2 DEF Zone!Resolve
    <3>2. QED
      BY <1>2, <3>1 DEF ZoneInv
  <2>4. PICK r \in assigned : Zone!CarryBack(s, r, c)
    BY <2>2, <2>3 DEF Zone!Resolve, Zone!Unresolved
  <2>5. PICK reconciled \in BOOLEAN : assigned' = Zone!Marked(r, s, reconciled)
    BY <2>4 DEF Zone!CarryBack
  <2>6. r \in Zone!Row
    BY DEF ZoneInv, RowsBacked, Backed
  <2>7. [r EXCEPT !.by = s, !.reconciled = reconciled].by = s
    BY <2>6 DEF Zone!Row
  <2>8. QED
    BY <2>5, <2>7 DEF Zone!Marked
<1>3. QED
  BY <1>1, <1>2

LEMMA NotedInvariance == ServicesSpec => []CommandsNoted
<1>1. ServicesInit => CommandsNoted
  BY DEF ServicesInit, Zone!Init, CommandsNoted
<1>2. ZoneInv /\ CommandsNoted /\ [ServicesNext]_servicesVars => CommandsNoted'
  BY CommandsNotedStep, ZonePart, ZoneAssumptions
<1>3. QED
  BY <1>1, <1>2, ZoneInvariance, PTL DEF ServicesSpec

\* A Resolution decides the Candidate of the row it resolves.
LEMMA ResolutionReviews ==
  ASSUME ZoneInv, NEW s \in Sources, NEW o \in Objects, NEW c \in VersionContents, Zone!Resolve(s, o, c),
         NEW r \in assigned, r.object = o, r.base = Zone!Base(child[o])
  PROVE  Zone!Reviewed(s, r)
<1> DEFINE k == child[o]
<1>1. k \in Zone!Object /\ child'[o] = Zone!Decided(k, c)
  BY DEF ZoneInv, Zone!TypeOK, Zone!Resolve
<1>2. /\ r.candidate \in 1 .. Len(k.candidates) /\ k.candidates[r.candidate].base = Zone!Base(k)
  BY DEF ZoneInv, RowsBacked, Backed
<1> HIDE DEF k
<1>3. r.candidate \in DOMAIN k.candidates /\ k.candidates[r.candidate] \in Candidates
  BY <1>1, <1>2, ObjectParts
<1>4. child'[o].candidates[r.candidate] =
        IF r.candidate \in Zone!Open(k) THEN [k.candidates[r.candidate] EXCEPT !.open = FALSE]
                                        ELSE k.candidates[r.candidate]
  BY <1>1, <1>3 DEF Zone!Decided
<1>5. r.candidate \in Zone!Open(k) <=> k.candidates[r.candidate].open
  BY <1>2, <1>3 DEF Zone!Open
<1>6. ~child'[o].candidates[r.candidate].open
  BY <1>3, <1>4, <1>5 DEF Candidates
<1>7. QED
  BY <1>6 DEF Zone!Reviewed

LEMMA ReplacedByResolution ==
  ASSUME Zone!Assumptions, ZoneInv, CommandsNoted, [Zone!Next]_(Zone!vars), NEW o \in Objects, Zone!Replaced(o)
  PROVE  Zone!AsDecided(o)
<1>1. PICK s \in Sources :
        \/ Zone!Retry(s)
        \/ \E p \in Objects, final \in VersionContents : Zone!Resolve(s, p, final)
  BY NotReplaced
<1>2. CASE Zone!Retry(s)
  <2>1. /\ commands[s].final \in VersionContents /\ commands' = commands
    BY <1>2 DEF Zone!Retry, ZoneInv, Zone!TypeOK
  <2>2. PICK r \in Zone!Unresolved(commands[s].object, commands[s].base) :
          Zone!CarryBack(s, r, commands[s].final)
    BY <1>2 DEF Zone!Retry
  <2>3. r \in assigned /\ r.by = Zone!Pending /\ r.object = commands[s].object
    BY <2>2 DEF Zone!Unresolved
  <2>4. Zone!Reviewed(s, r)
    BY <1>2 DEF Zone!Retry, CommandsNoted, Zone!Reviewed
  <2>5. QED
    BY <2>1, <2>2, <2>3, <2>4, CarriedBack
<1>3. ASSUME NEW p \in Objects, NEW final \in VersionContents, Zone!Resolve(s, p, final)
      PROVE  Zone!AsDecided(o)
  <2>1. commands'[s].object = p /\ commands'[s].final = final
    <3>1. commands' = [commands EXCEPT ![s] = [object |-> p, base |-> Zone!Base(child[p]), final |-> final]]
      BY <1>3 DEF Zone!Resolve
    <3>2. QED
      BY <3>1 DEF ZoneInv
  <2>2. PICK r \in Zone!Unresolved(p, Zone!Base(child[p])) : Zone!CarryBack(s, r, final)
    BY <1>3 DEF Zone!Resolve
  <2>3. r \in assigned /\ r.by = Zone!Pending /\ r.object = p /\ r.base = Zone!Base(child[p])
    BY <2>2 DEF Zone!Unresolved
  <2>4. Zone!Reviewed(s, r)
    BY <1>3, <2>3, ResolutionReviews
  <2>5. QED
    BY <2>1, <2>2, <2>3, <2>4, CarriedBack
<1>4. QED
  BY <1>1, <1>2, <1>3

\* However Submissions, merges, Resolutions and their retries interleave, what
\* the Parent says is replaced only as a pending row assigns it, by the final
\* content of the command that resolves the row, and after the Child has decided
\* on what is replaced unless the command is repeated (knowledge/zonemerger).
THEOREM ReplacedCorrect == ServicesSpec => ReplacedAsAssigned
<1>1. ZoneInv /\ CommandsNoted /\ [ServicesNext]_servicesVars =>
        [\A o \in Objects : Zone!Replaced(o) => Zone!AsDecided(o)]_(Zone!vars)
  BY ZonePart, ZoneAssumptions, ReplacedByResolution
<1>2. QED
  BY <1>1, ZoneInvariance, NotedInvariance, PTL
  DEF ServicesSpec, ReplacedAsAssigned, Zone!ReplacedAsAssigned

-----------------------------------------------------------------------------
(* Citations *)

\* Citations counts with an instance of FiniteSets of its own.
LEMMA CitationCounting == \A S : Cite!Cardinality(S) = Cardinality(S)
BY DEF Cite!Cardinality, Cardinality

Locals == [dataset : Datasets \union {"Reports"}, row : Nat]
Entries == [reference : Locals, row : [answer : Nat, local : Locals]]

\* The entries before the i-th that are of its dataset.
Before(led, i) ==
  {j \in 1 .. i - 1 : led[j].reference.dataset = led[i].reference.dataset}

\* A ledger numbers the rows of a dataset in their order.
Numbered(led) == \A i \in 1 .. Len(led) : led[i].reference.row = Cardinality(Before(led, i))

\* A number of a dataset is given once.
LEMMA GivenOnce ==
  ASSUME NEW led \in Seq(Entries), Numbered(led), NEW i \in 1 .. Len(led), NEW j \in 1 .. Len(led),
         led[i].reference = led[j].reference
  PROVE  i = j
<1>1. ASSUME NEW k \in 1 .. Len(led), NEW l \in 1 .. Len(led), k < l,
             led[k].reference = led[l].reference
      PROVE  FALSE
  <2>1. Before(led, k) \subseteq Before(led, l) /\ k \in Before(led, l) /\ k \notin Before(led, k)
    BY <1>1 DEF Before
  <2>2. IsFiniteSet(Before(led, l))
    <3>1. 1 \in Int /\ l - 1 \in Int
      OBVIOUS
    <3>2. IsFiniteSet(1 .. l - 1)
      BY <3>1, FS_Interval
    <3>3. Before(led, l) \subseteq 1 .. l - 1
      BY DEF Before
    <3>4. QED
      BY <3>2, <3>3, FS_Subset
  <2>3. Cardinality(Before(led, l)) = Cardinality(Before(led, k))
    BY <1>1 DEF Numbered
  <2>4. QED
    BY <2>1, <2>2, <2>3, FS_Subset
<1>2. i \in Nat /\ j \in Nat
  OBVIOUS
<1>3. QED
  BY <1>1, <1>2

\* A ledger that has bound rows of the n-th answer since it was led.
Grown(led, n) ==
  {l \in Seq(Entries) : /\ Numbered(l) /\ Len(led) <= Len(l)
                        /\ \A i \in 1 .. Len(led) : l[i] = led[i]
                        /\ \A i \in 1 .. Len(l) : i > Len(led) => l[i].row.answer = n}

LEMMA BindGrows ==
  ASSUME NEW led \in Seq(Entries), NEW n \in Nat, NEW l \in Grown(led, n),
         NEW local \in Locals
  PROVE  Cite!Bind(l, Cite!Row(n, local)) \in Grown(led, n)
<1> DEFINE same == {i \in DOMAIN l : l[i].reference.dataset = local.dataset}
           entry == [reference |-> [dataset |-> local.dataset, row |-> Cardinality(same)],
                     row |-> [answer |-> n, local |-> local]]
           m == Append(l, entry)
<1>1. Cite!Bind(l, Cite!Row(n, local)) = m
  BY CitationCounting DEF Cite!Bind, Cite!Row
<1>2. l \in Seq(Entries) /\ Len(l) \in Nat /\ Len(led) \in Nat /\ DOMAIN l = 1 .. Len(l)
  BY DEF Grown
<1>3. IsFiniteSet(same) /\ Cardinality(same) \in Nat
  <2>1. IsFiniteSet(1 .. Len(l)) /\ same \subseteq 1 .. Len(l)
    BY <1>2, FS_Interval
  <2>2. QED
    BY <2>1, FS_Subset, FS_CardinalityType
<1> HIDE DEF same
<1>4. entry \in Entries
  BY <1>3 DEF Entries, Locals
<1>5. entry.reference.row = Cardinality(same) /\ entry.reference.dataset = local.dataset
      /\ entry.row.answer = n
  OBVIOUS
<1> HIDE DEF entry
<1>6. /\ m \in Seq(Entries) /\ Len(m) = Len(l) + 1
      /\ \A i \in 1 .. Len(l) : m[i] = l[i]
      /\ m[Len(l) + 1] = entry
  BY <1>2, <1>4, AppendProperties
<1> HIDE DEF m
<1>7. ASSUME NEW i \in 1 .. Len(l) PROVE Before(m, i) = Before(l, i)
  BY <1>2, <1>6 DEF Before
<1>8. Before(m, Len(l) + 1) = same
  BY <1>2, <1>5, <1>6 DEF Before, same
<1>9. Numbered(m)
  <2>1. ASSUME NEW i \in 1 .. Len(m) PROVE m[i].reference.row = Cardinality(Before(m, i))
    <3>1. i \in 1 .. Len(l) \/ i = Len(l) + 1
      BY <1>2, <1>6
    <3>2. CASE i \in 1 .. Len(l)
      <4>1. l[i].reference.row = Cardinality(Before(l, i))
        BY <3>2 DEF Grown, Numbered
      <4>2. QED
        BY <3>2, <4>1, <1>6, <1>7
    <3>3. CASE i = Len(l) + 1
      BY <3>3, <1>5, <1>6, <1>8
    <3>4. QED
      BY <3>1, <3>2, <3>3
  <2>2. QED
    BY <2>1 DEF Numbered
<1>10. \A i \in 1 .. Len(led) : m[i] = led[i]
  BY <1>2, <1>6 DEF Grown
<1>11. ASSUME NEW i \in 1 .. Len(m), i > Len(led) PROVE m[i].row.answer = n
  <2>1. i \in 1 .. Len(l) \/ i = Len(l) + 1
    BY <1>2, <1>6
  <2>2. QED
    BY <2>1, <1>5, <1>6, <1>11 DEF Grown
<1>12. Len(led) <= Len(m)
  BY <1>2, <1>6 DEF Grown
<1>13. QED
  BY <1>1, <1>6, <1>9, <1>10, <1>11, <1>12 DEF Grown

\* The loop of bindCandidate.
IsBinding(f, led, list) ==
  f = [i \in 0 .. Len(list) |-> IF i = 0 THEN led ELSE Cite!Bind(f[i - 1], list[i])]

LEMMA BindAllGrows ==
  ASSUME NEW led \in Seq(Entries), Numbered(led), NEW n \in Nat, NEW locals \in Seq(Locals)
  PROVE  Cite!BindAll(led, Cite!RowsOf(n, locals)) \in Grown(led, n)
<1> DEFINE list == Cite!RowsOf(n, locals)
           pass == [p \in Grown(led, n) \X (1 .. Len(list)) |-> Cite!Bind(p[1], list[p[2]])]
           f == CHOOSE f : IsBinding(f, led, list)
<1>1. /\ Len(list) \in Nat
      /\ \A i \in 1 .. Len(list) : \E local \in Locals : list[i] = Cite!Row(n, local)
  <2>1. Len(locals) \in Nat /\ DOMAIN locals = 1 .. Len(locals)
        /\ \A i \in 1 .. Len(locals) : locals[i] \in Locals
    OBVIOUS
  <2>2. list = [i \in 1 .. Len(locals) |-> Cite!Row(n, locals[i])]
    BY <2>1 DEF Cite!RowsOf
  <2> HIDE DEF list
  <2>3. Len(list) = Len(locals)
    BY <2>1, <2>2
  <2>4. QED
    BY <2>1, <2>2, <2>3
<1>2. Cite!BindAll(led, list) = f[Len(list)]
  BY DEF Cite!BindAll, IsBinding
<1> HIDE DEF list
<1>3. led \in Grown(led, n)
  <2>1. Len(led) \in Nat
    OBVIOUS
  <2>2. QED
    BY <2>1 DEF Grown
<1>4. ASSUME NEW l \in Grown(led, n), NEW i \in 1 .. Len(list)
      PROVE  Cite!Bind(l, list[i]) \in Grown(led, n)
  BY <1>1, BindGrows
<1>5. pass \in [Grown(led, n) \X (1 .. Len(list)) -> Grown(led, n)]
  BY <1>4
<1>6. \E g : IsBinding(g, led, list)
  <2> HIDE DEF pass
  <2>1. HasRun(Grown(led, n), led, pass, Len(list))
    BY <1>1, <1>3, <1>5, LoopRuns
  <2>2. PICK g \in [0 .. Len(list) -> Grown(led, n)] :
          \A i \in 0 .. Len(list) : g[i] = Pass(g, led, pass, i)
    BY <2>1 DEF HasRun
  <2> USE DEF pass
  <2>3. ASSUME NEW i \in 0 .. Len(list)
        PROVE  g[i] = IF i = 0 THEN led ELSE Cite!Bind(g[i - 1], list[i])
    <3>1. i # 0 => i \in 1 .. Len(list) /\ i - 1 \in 0 .. Len(list)
      BY <1>1
    <3>2. i # 0 => <<g[i - 1], i>> \in Grown(led, n) \X (1 .. Len(list))
      BY <3>1
    <3>3. i # 0 => pass[<<g[i - 1], i>>] = Cite!Bind(g[i - 1], list[i])
      BY <3>2
    <3>4. QED
      BY <2>2, <3>3 DEF Pass
  <2>4. g = [i \in 0 .. Len(list) |-> g[i]]
    OBVIOUS
  <2>5. QED
    BY <2>3, <2>4 DEF IsBinding
<1>7. IsBinding(f, led, list)
  BY <1>6
<1> HIDE DEF f
<1>8. f[0] \in Grown(led, n) /\ \A i \in 1 .. Len(list) : f[i] = Cite!Bind(f[i - 1], list[i])
  BY <1>1, <1>3, <1>7 DEF IsBinding
<1>9. \A i \in 0 .. Len(list) : f[i] \in Grown(led, n)
  BY <1>1, <1>4, <1>8, LoopKeeps
<1>10. QED
  BY <1>1, <1>2, <1>9 DEF list

\* The loop of branchCandidate.
Taken(found, reference, valid) ==
  IF reference \in valid /\ ~Cite!Contains(found, reference) THEN Append(found, reference)
                                                              ELSE found

IsTaking(f, list, valid) ==
  f = [i \in 0 .. Len(list) |-> IF i = 0 THEN <<>> ELSE Taken(f[i - 1], list[i], valid)]

LEMMA DistinctList ==
  ASSUME NEW list \in Seq(Locals), NEW valid
  PROVE  Cite!Distinct(list, valid) \in Seq(Locals)
<1> DEFINE X == Seq(Locals)
           pass == [p \in X \X (1 .. Len(list)) |-> Taken(p[1], list[p[2]], valid)]
           f == CHOOSE f : IsTaking(f, list, valid)
<1>1. Cite!Distinct(list, valid) = f[Len(list)]
  BY DEF Cite!Distinct, IsTaking, Taken
<1>2. <<>> \in X /\ Len(list) \in Nat
  OBVIOUS
<1>3. ASSUME NEW found \in X, NEW i \in 1 .. Len(list) PROVE Taken(found, list[i], valid) \in X
  BY DEF Taken
<1> HIDE DEF X
<1>4. pass \in [X \X (1 .. Len(list)) -> X]
  BY <1>3
<1>5. \E g : IsTaking(g, list, valid)
  <2> HIDE DEF pass
  <2>1. HasRun(X, <<>>, pass, Len(list))
    BY <1>2, <1>4, LoopRuns
  <2>2. PICK g \in [0 .. Len(list) -> X] : \A i \in 0 .. Len(list) : g[i] = Pass(g, <<>>, pass, i)
    BY <2>1 DEF HasRun
  <2> USE DEF pass
  <2>3. ASSUME NEW i \in 0 .. Len(list)
        PROVE  g[i] = IF i = 0 THEN <<>> ELSE Taken(g[i - 1], list[i], valid)
    <3>1. i # 0 => i \in 1 .. Len(list) /\ i - 1 \in 0 .. Len(list)
      BY <1>2
    <3>2. i # 0 => <<g[i - 1], i>> \in X \X (1 .. Len(list))
      BY <3>1
    <3>3. i # 0 => pass[<<g[i - 1], i>>] = Taken(g[i - 1], list[i], valid)
      BY <3>2
    <3>4. QED
      BY <2>2, <3>3 DEF Pass
  <2>4. g = [i \in 0 .. Len(list) |-> g[i]]
    OBVIOUS
  <2>5. QED
    BY <2>3, <2>4 DEF IsTaking
<1>6. IsTaking(f, list, valid)
  BY <1>5
<1> HIDE DEF f
<1>7. f[0] \in X /\ \A i \in 1 .. Len(list) : f[i] = Taken(f[i - 1], list[i], valid)
  BY <1>2, <1>6 DEF IsTaking
<1>8. \A i \in 0 .. Len(list) : f[i] \in X
  BY <1>2, <1>3, <1>7, LoopKeeps
<1>9. QED
  BY <1>1, <1>2, <1>8 DEF X

\* The rows that a candidate may show are a list.
LEMMA EvidenceLists ==
  ASSUME Cite!Assumptions, NEW n, NEW text \in Cite!Evidence(n)
  PROVE  text.locals \in Seq(Locals)
<1>1. CASE n <= FoldAnswers
  <2>1. PICK count \in 1 .. MaxRow + 1 : text.locals = Cite!Reports(count)
    BY <1>1 DEF Cite!Evidence
  <2>2. count \in Nat /\ \A i \in 1 .. count : i - 1 \in Nat
    BY DEF Cite!Assumptions
  <2>3. \A i \in 1 .. count : [dataset |-> "Reports", row |-> i - 1] \in Locals
    BY <2>2 DEF Locals
  <2>4. QED
    BY <2>1, <2>2, <2>3 DEF Cite!Reports
<1>2. CASE ~(n <= FoldAnswers)
  <2>1. PICK cites \in Cite!Cites, valid \in SUBSET Cite!References :
          text.locals = Cite!Distinct(cites, valid)
    BY <1>2 DEF Cite!Evidence
  <2>2. PICK m \in 0 .. MaxCites : cites \in [1 .. m -> Cite!References]
    BY <2>1 DEF Cite!Cites, Cite!SeqOf
  <2>3. Cite!References \subseteq Locals /\ m \in Nat
    BY DEF Cite!References, Locals, Cite!Assumptions
  <2>4. cites \in Seq(Locals)
    BY <2>2, <2>3
  <2>5. QED
    BY <2>1, <2>4, DistinctList
<1>3. QED
  BY <1>1, <1>2

\* What an admitted answer shows are numbers of the rows bound for it.
Traced ==
  \A n \in 1 .. Len(admitted) : \A reference \in admitted[n] :
    \E i \in 1 .. Len(ledger) : ledger[i].reference = reference /\ ledger[i].row.answer = n

\* Every row that is bound is of an admitted answer.
BoundForAdmitted == \A i \in 1 .. Len(ledger) : ledger[i].row.answer \in 1 .. Len(admitted)

\* What the audit has found of a reference.
AuditedOnce ==
  \A item \in audited :
    /\ \A r, s \in item.rows : r = s
    /\ \A r \in item.rows : r.answer \in 1 .. Len(admitted)

CitationsInv ==
  /\ ledger \in Seq(Entries) /\ Numbered(ledger)
  /\ admitted \in Seq(SUBSET Locals) /\ candidate = Len(admitted) + 1
  /\ BoundForAdmitted
  /\ Traced
  /\ AuditedOnce

LEMMA CitationsInit == Cite!Init => CitationsInv
<1> SUFFICES ASSUME Cite!Init PROVE CitationsInv
  OBVIOUS
<1>1. ledger = <<>> /\ admitted = <<>> /\ candidate = 1 /\ audited = {} /\ Len(<<>>) = 0
  BY DEF Cite!Init
<1>2. QED
  BY <1>1 DEF CitationsInv, Numbered, BoundForAdmitted, Traced, AuditedOnce

\* An admission binds rows for its answer only and leaves what was bound.
LEMMA AdmitTextInv ==
  ASSUME CitationsInv, NEW text, NEW cites, text.locals \in Seq(Locals), Cite!AdmitText(text, cites)
  PROVE  CitationsInv'
<1> DEFINE bound == Cite!BindAll(ledger, Cite!RowsOf(candidate, text.locals))
           shown == Cite!Shown(cites, candidate, bound)
<1>1. ledger' = bound /\ admitted' = Append(admitted, shown) /\ candidate' = candidate + 1
      /\ audited' = audited
  BY DEF Cite!AdmitText
<1>2. ledger \in Seq(Entries) /\ Len(ledger) \in Nat
      /\ admitted \in Seq(SUBSET Locals) /\ Len(admitted) \in Nat /\ candidate = Len(admitted) + 1
  BY DEF CitationsInv
<1>3. bound \in Grown(ledger, candidate)
  BY <1>2, BindAllGrows DEF CitationsInv
<1>4. \A reference \in shown : \E i \in DOMAIN bound :
        bound[i].row.answer = candidate /\ bound[i].reference = reference
  BY DEF Cite!Shown, Cite!Rewritten
<1> HIDE DEF bound, shown
<1>5. /\ bound \in Seq(Entries) /\ Numbered(bound)
      /\ Len(ledger) <= Len(bound)
      /\ \A i \in 1 .. Len(ledger) : bound[i] = ledger[i]
      /\ \A i \in 1 .. Len(bound) : i > Len(ledger) => bound[i].row.answer = candidate
      /\ Len(bound) \in Nat /\ DOMAIN bound = 1 .. Len(bound)
  BY <1>3 DEF Grown
<1>6. shown \in SUBSET Locals
  <2>1. \A i \in 1 .. Len(bound) : bound[i] \in Entries
    BY <1>5
  <2>2. \A i \in 1 .. Len(bound) : bound[i].reference \in Locals
    BY <2>1 DEF Entries
  <2>3. QED
    BY <1>4, <1>5, <2>2
<1>7. /\ admitted' \in Seq(SUBSET Locals) /\ Len(admitted') = candidate
      /\ admitted'[candidate] = shown
      /\ \A n \in 1 .. Len(admitted) : admitted'[n] = admitted[n]
  BY <1>1, <1>2, <1>6, AppendProperties
<1>8. BoundForAdmitted'
  <2>1. ASSUME NEW i \in 1 .. Len(bound) PROVE bound[i].row.answer \in 1 .. candidate
    <3>1. i \in 1 .. Len(ledger) \/ i > Len(ledger)
      BY <1>2, <1>5
    <3>2. CASE i \in 1 .. Len(ledger)
      BY <3>2, <1>2, <1>5 DEF CitationsInv, BoundForAdmitted
    <3>3. CASE i > Len(ledger)
      BY <3>3, <1>2, <1>5
    <3>4. QED
      BY <3>1, <3>2, <3>3
  <2>2. QED
    BY <1>1, <1>7, <2>1 DEF BoundForAdmitted
<1>9. Traced'
  <2>1. ASSUME NEW n \in 1 .. candidate, NEW reference \in admitted'[n]
        PROVE  \E i \in 1 .. Len(bound) : bound[i].reference = reference /\ bound[i].row.answer = n
    <3>1. n \in 1 .. Len(admitted) \/ n = candidate
      BY <1>2
    <3>2. CASE n \in 1 .. Len(admitted)
      <4>1. PICK i \in 1 .. Len(ledger) : ledger[i].reference = reference /\ ledger[i].row.answer = n
        BY <3>2, <1>7 DEF CitationsInv, Traced
      <4>2. i \in 1 .. Len(bound) /\ bound[i] = ledger[i]
        BY <1>2, <1>5
      <4>3. QED
        BY <4>1, <4>2
    <3>3. CASE n = candidate
      BY <3>3, <1>4, <1>5, <1>7
    <3>4. QED
      BY <3>1, <3>2, <3>3
  <2>2. QED
    BY <1>1, <1>7, <2>1 DEF Traced
<1>10. AuditedOnce'
  BY <1>1, <1>2, <1>7 DEF CitationsInv, AuditedOnce
<1>11. QED
  BY <1>1, <1>2, <1>5, <1>7, <1>8, <1>9, <1>10 DEF CitationsInv

LEMMA CitationsStep ==
  Cite!Assumptions /\ CitationsInv /\ [Cite!Next]_(Cite!vars) => CitationsInv'
<1> SUFFICES ASSUME Cite!Assumptions, CitationsInv, [Cite!Next]_(Cite!vars) PROVE CitationsInv'
  OBVIOUS
<1>1. CASE Cite!Admit
  BY <1>1, EvidenceLists, AdmitTextInv DEF Cite!Admit
<1>2. CASE Cite!Truncate
  <2>1. PICK text \in Cite!Evidence(candidate) : \E cites : Cite!AdmitText(text, cites)
    BY <1>2 DEF Cite!Truncate
  <2>2. QED
    BY <2>1, EvidenceLists, AdmitTextInv
<1>3. CASE Cite!Leave
  BY <1>3 DEF Cite!Leave, CitationsInv, BoundForAdmitted, Traced, AuditedOnce
<1>4. CASE Cite!Audit
  <2>1. PICK reference :
          audited' = {[reference |-> reference,
                       rows |-> {ledger[i].row : i \in {j \in DOMAIN ledger :
                                                          ledger[j].reference = reference}}]}
    BY <1>4 DEF Cite!Audit
  <2>2. UNCHANGED <<candidate, ledger, admitted>>
    BY <1>4 DEF Cite!Audit
  <2>3. DOMAIN ledger = 1 .. Len(ledger) /\ ledger \in Seq(Entries) /\ Numbered(ledger)
    BY DEF CitationsInv
  <2>4. \A i, j \in DOMAIN ledger :
          ledger[i].reference = reference /\ ledger[j].reference = reference => i = j
    BY <2>3, GivenOnce
  <2>5. \A i \in DOMAIN ledger : ledger[i].row.answer \in 1 .. Len(admitted)
    BY <2>3 DEF CitationsInv, BoundForAdmitted
  <2>6. AuditedOnce'
    BY <2>1, <2>2, <2>4, <2>5 DEF AuditedOnce
  <2>7. QED
    BY <2>2, <2>6 DEF CitationsInv, BoundForAdmitted, Traced
<1>5. CASE UNCHANGED Cite!vars
  BY <1>5 DEF Cite!vars, CitationsInv, BoundForAdmitted, Traced, AuditedOnce
<1>6. QED
  BY <1>1, <1>2, <1>3, <1>4, <1>5 DEF Cite!Next

LEMMA CitationsPart == [ServicesNext]_servicesVars => [Cite!Next]_(Cite!vars)
BY DEF ServicesNext, servicesVars, Only, citeVars, Cite!vars

LEMMA CitationsInvariance == ServicesSpec => []CitationsInv
<1>1. ServicesInit => CitationsInv
  BY CitationsInit DEF ServicesInit
<1>2. CitationsInv /\ [ServicesNext]_servicesVars => CitationsInv'
  BY CitationAssumptions, CitationsPart, CitationsStep
<1>3. QED
  BY <1>1, <1>2, PTL DEF ServicesSpec

\* However many rows an answer has, whichever answers are left out and whether
\* the first is cut: a reference that an admitted answer shows means a row of
\* that answer's evidence alone, and an audited one at most one row, of an
\* answer that the Reduce was shown (query/drift/reduce_context.go, ledger.go).
THEOREM CitationsCorrect == ServicesSpec => []CitationsResolve
<1>1. CitationsInv => CitationsResolve
  <2> SUFFICES ASSUME CitationsInv PROVE CitationsResolve
    OBVIOUS
  <2>1. /\ DOMAIN ledger = 1 .. Len(ledger) /\ ledger \in Seq(Entries) /\ Numbered(ledger)
        /\ DOMAIN admitted = 1 .. Len(admitted)
    BY DEF CitationsInv
  <2>2. ASSUME NEW n \in DOMAIN admitted, NEW reference \in admitted[n]
        PROVE  {ledger[i].row.answer : i \in {j \in DOMAIN ledger : ledger[j].reference = reference}}
                 = {n}
    <3>1. PICK i \in DOMAIN ledger : ledger[i].reference = reference /\ ledger[i].row.answer = n
      BY <2>1 DEF CitationsInv, Traced
    <3>2. \A j \in DOMAIN ledger : ledger[j].reference = reference => j = i
      BY <2>1, <3>1, GivenOnce
    <3>3. QED
      BY <3>1, <3>2
  <2>3. ASSUME NEW item \in audited
        PROVE  /\ Cite!Cardinality(item.rows) <= 1
               /\ \A row \in item.rows : row.answer \in DOMAIN admitted
    <3>1. /\ \A r, s \in item.rows : r = s
          /\ \A row \in item.rows : row.answer \in DOMAIN admitted
      BY <2>1, <2>3 DEF CitationsInv, AuditedOnce
    <3>2. CASE item.rows = {}
      BY <3>1, <3>2, FS_EmptySet, CitationCounting
    <3>3. CASE item.rows # {}
      <4>1. PICK r : item.rows = {r}
        BY <3>1, <3>3
      <4>2. Cardinality(item.rows) = 1
        BY <4>1, FS_Singleton
      <4>3. QED
        BY <3>1, <4>2, CitationCounting
    <3>4. QED
      BY <3>2, <3>3
  <2>4. QED
    BY <2>2, <2>3 DEF CitationsResolve, Cite!CitationsResolve
<1>2. QED
  BY <1>1, CitationsInvariance, PTL

-----------------------------------------------------------------------------
(* Communities *)

\* What pending counts covers the changes since the Communities were detected.
PendingCovers ==
  structures # <<>> =>
    Com!ChangedRelations(sets[structures[Len(structures)]].relations,
                     manifests[Len(structures)].relations) <= pending

\* Communities are detected for the first Structure at the latest.
FirstDetected == structures = <<>> <=> sets = <<>>

\* A commit precedes the position's move.
CommitStored == deriving.committed => deriving.handled < Len(structures)

\* A Report generation that has added pages is about a prepared publication,
\* and the pages it has added are there.
PagesAdded ==
  page > 0 =>
    /\ reported + 1 <= epochs
    /\ publications[reported + 1] = "prepared"
    /\ 1 .. page \subseteq namespaces[reported + 1]

CommunitiesInv ==
  /\ Com!TypeOK
  /\ FirstDetected
  /\ CommitStored
  /\ Com!DriftBounded
  /\ PendingCovers
  /\ PagesAdded
  /\ Com!ReadySearchable

-----------------------------------------------------------------------------
(* Changed Relations *)

Changed(old, new) ==
  {r \in DOMAIN old \cup DOMAIN new :
     r \notin DOMAIN old \/ r \notin DOMAIN new \/ old[r] # new[r]}

\* Communities counts with an instance of FiniteSets of its own.
LEMMA SameCounts == \A S : Com!Cardinality(S) = Cardinality(S)
BY DEF Com!Cardinality, Cardinality

LEMMA FiniteRelations == Com!Assumptions => IsFiniteSet(Relations)
BY DEF Com!Assumptions, Com!IsFiniteSet, IsFiniteSet

\* A Relation changed from old to new has changed before or after any third
\* state, so the counts of the two stretches add up to at least the direct one.
LEMMA ChangesAddUp ==
  ASSUME IsFiniteSet(Relations), NEW old, NEW between, NEW new,
         DOMAIN old \subseteq Relations, DOMAIN between \subseteq Relations,
         DOMAIN new \subseteq Relations
  PROVE  /\ Com!ChangedRelations(old, new) \in Nat /\ Com!ChangedRelations(old, between) \in Nat
         /\ Com!ChangedRelations(between, new) \in Nat
         /\ Com!ChangedRelations(old, new)
              <= Com!ChangedRelations(old, between) + Com!ChangedRelations(between, new)
<1> DEFINE direct == Changed(old, new)
           before == Changed(old, between)
           after == Changed(between, new)
<1>1. direct \subseteq Relations /\ before \subseteq Relations /\ after \subseteq Relations
  BY DEF Changed
<1>2. IsFiniteSet(direct) /\ IsFiniteSet(before) /\ IsFiniteSet(after)
  BY <1>1, FS_Subset
<1>3. direct \subseteq before \cup after
  BY Zenon DEF Changed
<1>4. /\ Com!ChangedRelations(old, new) = Cardinality(direct)
      /\ Com!ChangedRelations(old, between) = Cardinality(before)
      /\ Com!ChangedRelations(between, new) = Cardinality(after)
  BY SameCounts DEF Com!ChangedRelations, Changed
<1> HIDE DEF direct, before, after
<1>5. /\ Cardinality(direct) \in Nat /\ Cardinality(before) \in Nat /\ Cardinality(after) \in Nat
      /\ Cardinality(before \cap after) \in Nat
  <2>1. IsFiniteSet(before \cap after)
    BY <1>2, FS_Subset
  <2>2. QED
    BY <1>2, <2>1, FS_CardinalityType
<1>6. /\ IsFiniteSet(before \cup after)
      /\ Cardinality(before \cup after)
           = Cardinality(before) + Cardinality(after) - Cardinality(before \cap after)
  BY <1>2, FS_Union
<1>7. Cardinality(direct) <= Cardinality(before \cup after)
  BY <1>3, <1>6, FS_Subset
<1>8. QED
  BY <1>4, <1>5, <1>6, <1>7

LEMMA NothingChanged == \A old : Com!ChangedRelations(old, old) = 0
<1> SUFFICES ASSUME NEW old PROVE Com!ChangedRelations(old, old) = 0
  OBVIOUS
<1>1. Changed(old, old) = {}
  BY DEF Changed
<1>2. Com!ChangedRelations(old, old) = Cardinality(Changed(old, old))
  BY SameCounts DEF Com!ChangedRelations, Changed
<1>3. QED
  BY <1>1, <1>2, FS_EmptySet

\* The Relations of a Manifest and of a CommunitySet are Relations.
LEMMA RelationsOfRows ==
  ASSUME Com!TypeOK
  PROVE  /\ \A n \in 1 .. Len(manifests) :
              manifests[n] \in Com!Manifest /\ DOMAIN manifests[n].relations \subseteq Relations
         /\ \A k \in 1 .. Len(sets) :
              sets[k] \in Com!CommunitySet /\ DOMAIN sets[k].relations \subseteq Relations
<1>1. \A n \in 1 .. Len(manifests) : manifests[n] \in Com!Manifest
  BY ElementOfSeq DEF Com!TypeOK
<1>2. \A k \in 1 .. Len(sets) : sets[k] \in Com!CommunitySet
  BY ElementOfSeq DEF Com!TypeOK
<1>3. \A f \in Com!Versions : DOMAIN f \subseteq Relations
  BY DEF Com!Versions
<1>4. QED
  BY <1>1, <1>2, <1>3 DEF Com!Manifest, Com!CommunitySet

\* The numbers that are lengths.
LEMMA Lengths ==
  ASSUME Com!TypeOK
  PROVE  /\ Len(manifests) \in Nat /\ Len(sets) \in Nat /\ Len(structures) \in Nat
         /\ structures # <<>> => Len(structures) \in 1 .. Len(structures)
         /\ \A n \in 1 .. Len(structures) : structures[n] \in 1 .. Len(sets)
         /\ Len(sets) = 0 => sets = <<>>
BY LenProperties, EmptySeq, ElementOfSeq DEF Com!TypeOK

LEMMA CommunitiesStart == Com!Assumptions /\ Com!Init => CommunitiesInv
<1> SUFFICES ASSUME Com!Assumptions, Com!Init PROVE CommunitiesInv
  OBVIOUS
<1>1. /\ formal \in [live : SUBSET Relations, version : [Relations -> 0 .. 0],
                     entities : SUBSET Com!Entities]
      /\ changes = 0
  BY DEF Com!Init
<1>2. \A S : <<>> \in Seq(S) /\ Len(<<>>) = 0
  BY EmptySeq
<1>3. Com!TypeOK
  BY <1>1, <1>2 DEF Com!Init, Com!TypeOK, Com!Assumptions
<1>4. QED
  BY <1>2, <1>3 DEF Com!Init, CommunitiesInv, FirstDetected, CommitStored, Com!DriftBounded,
     PendingCovers,
     PagesAdded, Com!ReadySearchable

-----------------------------------------------------------------------------
(* Knowledge and Manifests *)

LEMMA ChangeKeeps ==
  ASSUME Com!Assumptions, CommunitiesInv,
         NEW new \in [live : SUBSET Relations, version : [Relations -> 0 .. changes + 1],
                      entities : SUBSET Com!Entities],
         Com!Change(new)
  PROVE  CommunitiesInv'
<1>1. changes' \in 0 .. MaxChanges /\ formal' = new /\ changes' = changes + 1
  BY DEF Com!Change, CommunitiesInv, Com!TypeOK, Com!Assumptions
<1>2. UNCHANGED <<manifests, Com!structureVars, Com!reportVars>>
  BY DEF Com!Change
<1>3. Com!TypeOK'
  BY <1>1, <1>2 DEF CommunitiesInv, Com!TypeOK, Com!structureVars, Com!reportVars
<1>4. QED
  BY <1>2, <1>3 DEF CommunitiesInv, FirstDetected, CommitStored, Com!DriftBounded, PendingCovers,
     PagesAdded, Com!ReadySearchable, Com!structureVars, Com!reportVars

LEMMA RelationsKeep ==
  ASSUME Com!Assumptions, CommunitiesInv,
         \/ \E r \in Relations : Com!Relate(r) \/ Com!Unrelate(r)
         \/ \E e \in Com!Entities : Com!Forget(e)
  PROVE  CommunitiesInv'
<1>1. /\ formal \in [live : SUBSET Relations, version : [Relations -> 0 .. changes],
                     entities : SUBSET Com!Entities]
      /\ changes \in Nat
  BY DEF CommunitiesInv, Com!TypeOK
<1>2. formal.version \in [Relations -> 0 .. changes + 1]
  BY <1>1
<1>3. ASSUME NEW r \in Relations
      PROVE  [formal.version EXCEPT ![r] = @ + 1] \in [Relations -> 0 .. changes + 1]
  BY <1>1
<1>4. ASSUME NEW r \in Relations PROVE RelationEnds[r] \subseteq Com!Entities
  BY DEF Com!Entities
<1>5. ASSUME NEW r \in Relations, Com!Relate(r) PROVE CommunitiesInv'
  <2> DEFINE new == [live |-> formal.live \cup {r},
                     version |-> [formal.version EXCEPT ![r] = @ + 1],
                     entities |-> formal.entities \cup RelationEnds[r]]
  <2>1. new \in [live : SUBSET Relations, version : [Relations -> 0 .. changes + 1],
                 entities : SUBSET Com!Entities]
    BY <1>1, <1>3, <1>4
  <2>2. Com!Change(new)
    BY <1>5 DEF Com!Relate
  <2> HIDE DEF new
  <2>3. QED
    BY <2>1, <2>2, ChangeKeeps
<1>6. ASSUME NEW r \in Relations, Com!Unrelate(r) PROVE CommunitiesInv'
  <2> DEFINE new == [live |-> formal.live \ {r},
                     version |-> [formal.version EXCEPT ![r] = @ + 1],
                     entities |-> formal.entities]
  <2>1. new \in [live : SUBSET Relations, version : [Relations -> 0 .. changes + 1],
                 entities : SUBSET Com!Entities]
    BY <1>1, <1>3
  <2>2. Com!Change(new)
    BY <1>6 DEF Com!Unrelate
  <2> HIDE DEF new
  <2>3. QED
    BY <2>1, <2>2, ChangeKeeps
<1>7. ASSUME NEW e \in Com!Entities, Com!Forget(e) PROVE CommunitiesInv'
  <2> DEFINE new == [formal EXCEPT !.entities = @ \ {e}]
  <2>1. new \in [live : SUBSET Relations, version : [Relations -> 0 .. changes + 1],
                 entities : SUBSET Com!Entities]
    BY <1>1, <1>2
  <2>2. Com!Change(new)
    BY <1>7 DEF Com!Forget
  <2> HIDE DEF new
  <2>3. QED
    BY <2>1, <2>2, ChangeKeeps
<1>8. QED
  BY <1>5, <1>6, <1>7

LEMMA PublishManifestInv ==
  ASSUME Com!Assumptions, CommunitiesInv, Com!PublishManifest
  PROVE  CommunitiesInv'
<1> DEFINE m == [relations |-> [r \in formal.live |-> formal.version[r]],
                 entities |-> formal.entities]
<1>1. m \in Com!Manifest
  <2>1. /\ formal.live \in SUBSET Relations
        /\ formal.version \in [Relations -> 0 .. changes]
        /\ formal.entities \in SUBSET Com!Entities
        /\ changes \in 0 .. MaxChanges
    BY DEF CommunitiesInv, Com!TypeOK
  <2>2. [r \in formal.live |-> formal.version[r]] \in [formal.live -> 0 .. MaxChanges]
    BY <2>1 DEF Com!Assumptions
  <2>3. [r \in formal.live |-> formal.version[r]] \in Com!Versions
    BY <2>1, <2>2 DEF Com!Versions
  <2>4. QED
    BY <2>1, <2>3 DEF Com!Manifest
<1>2. /\ manifests' = Append(manifests, m) /\ UNCHANGED <<formal, changes>>
      /\ UNCHANGED <<Com!structureVars, Com!reportVars>>
  BY DEF Com!PublishManifest
<1> HIDE DEF m
<1>3. /\ manifests' \in Seq(Com!Manifest)
      /\ Len(manifests') = Len(manifests) + 1
      /\ \A n \in 1 .. Len(manifests) : manifests'[n] = manifests[n]
  BY <1>1, <1>2, AppendProperties DEF CommunitiesInv, Com!TypeOK
<1>4. Com!TypeOK'
  BY <1>2, <1>3, Lengths DEF CommunitiesInv, Com!TypeOK, Com!structureVars, Com!reportVars
<1>5. \A n \in 1 .. Len(structures) : manifests'[n] = manifests[n]
  BY <1>3, Lengths DEF CommunitiesInv, Com!TypeOK
<1>6. Com!DriftBounded' /\ PendingCovers'
  BY <1>2, <1>5, Lengths DEF CommunitiesInv, Com!DriftBounded, PendingCovers, Com!structureVars
<1>7. QED
  BY <1>2, <1>4, <1>6 DEF CommunitiesInv, FirstDetected, CommitStored,
     PagesAdded, Com!ReadySearchable, Com!structureVars, Com!reportVars

-----------------------------------------------------------------------------
(* Structures *)

\* A new Structure behind the others, whose Communities have not drifted
\* further than the new count says.
LEMMA StructureAdded ==
  ASSUME Com!Assumptions, CommunitiesInv, NEW k,
         sets' \in Seq(Com!CommunitySet),
         Len(sets') \in {Len(sets), Len(sets) + 1},
         \A i \in 1 .. Len(sets) : sets'[i] = sets[i],
         sets' # <<>>,
         k \in 1 .. Len(sets'),
         structures' = Append(structures, k),
         Len(structures) + 1 <= Len(manifests),
         pending' \in 0 .. ChangeThreshold - 1,
         Com!ChangedRelations(sets'[k].relations, manifests[Len(structures) + 1].relations) <= pending',
         Com!ChangedRelations(sets'[k].relations, manifests[Len(structures) + 1].relations) \in Nat,
         deriving.handled = Len(structures),
         deriving' = [deriving EXCEPT !.committed = TRUE],
         UNCHANGED <<Com!knowledgeVars, Com!reportVars>>
  PROVE  CommunitiesInv'
<1>1. Len(sets) \in Nat /\ Len(structures) \in Nat /\ 1 .. Len(sets) \subseteq 1 .. Len(sets')
  BY Lengths DEF CommunitiesInv
<1>2. structures \in Seq(1 .. Len(sets'))
  <2>1. \A n \in 1 .. Len(structures) : structures[n] \in 1 .. Len(sets')
    BY <1>1, Lengths DEF CommunitiesInv
  <2>2. structures \in Seq(1 .. Len(sets))
    BY DEF CommunitiesInv, Com!TypeOK
  <2>3. QED
    BY <1>1, <2>1, <2>2, SMT
<1>3. /\ structures' \in Seq(1 .. Len(sets'))
      /\ Len(structures') = Len(structures) + 1
      /\ structures' # <<>>
      /\ \A n \in 1 .. Len(structures) : structures'[n] = structures[n]
      /\ structures'[Len(structures) + 1] = k
  BY <1>2, AppendProperties
<1>4. deriving' \in [handled : 0 .. Len(structures'), committed : BOOLEAN]
      /\ deriving'.handled = Len(structures) /\ deriving'.committed
  <2>1. deriving \in [handled : 0 .. Len(structures), committed : BOOLEAN]
    BY DEF CommunitiesInv, Com!TypeOK
  <2>2. deriving' = [handled |-> deriving.handled, committed |-> TRUE]
    BY <2>1
  <2>3. Len(structures) \in 0 .. Len(structures')
    BY <1>1, <1>3
  <2>4. QED
    BY <2>2, <2>3
<1>5. Com!TypeOK'
  <2>1. /\ (changes \in 0 .. MaxChanges)'
        /\ (formal \in [live : SUBSET Relations, version : [Relations -> 0 .. changes],
                        entities : SUBSET Com!Entities])'
        /\ (manifests \in Seq(Com!Manifest))'
    BY DEF CommunitiesInv, Com!TypeOK, Com!knowledgeVars
  <2>2. Len(structures') <= Len(manifests')
    BY <1>3 DEF Com!knowledgeVars
  <2>3. (epochs \in 0 .. Len(structures) /\ reported \in 0 .. epochs)'
    BY <1>1, <1>3 DEF CommunitiesInv, Com!TypeOK, Com!reportVars
  <2>4. /\ (publications \in Seq({"none", "prepared", "ready"}) /\ Len(publications) = epochs)'
        /\ (namespaces \in Seq(SUBSET (1 .. Pages)) /\ Len(namespaces) = epochs)'
        /\ (page \in 0 .. Pages)'
    BY DEF CommunitiesInv, Com!TypeOK, Com!reportVars
  <2>5. QED
    BY <1>3, <1>4, <2>1, <2>2, <2>3, <2>4 DEF Com!TypeOK
<1>6. FirstDetected' /\ CommitStored'
  BY <1>1, <1>3, <1>4 DEF FirstDetected, CommitStored
<1>7. PendingCovers'
  BY <1>1, <1>3 DEF PendingCovers, Com!knowledgeVars
<1>8. Com!DriftBounded'
  <2>1. \A n \in 1 .. Len(structures) :
          Com!ChangedRelations(sets'[structures'[n]].relations, manifests'[n].relations)
            < ChangeThreshold
    BY <1>3, Lengths DEF CommunitiesInv, Com!DriftBounded, Com!knowledgeVars
  <2>2. Com!ChangedRelations(sets'[k].relations, manifests[Len(structures) + 1].relations)
          < ChangeThreshold
    BY DEF Com!Assumptions
  <2>3. QED
    BY <1>1, <1>3, <2>1, <2>2 DEF Com!DriftBounded, Com!knowledgeVars
<1>9. QED
  BY <1>5, <1>6, <1>7, <1>8 DEF CommunitiesInv, PagesAdded, Com!ReadySearchable, Com!reportVars

LEMMA DeriveInv ==
  ASSUME Com!Assumptions, CommunitiesInv, Com!Derive
  PROVE  CommunitiesInv'
<1> DEFINE n == deriving.handled + 1
<1>1. /\ Len(manifests) \in Nat /\ Len(sets) \in Nat /\ Len(structures) \in Nat
      /\ deriving.handled \in 0 .. Len(structures)
      /\ manifests \in Seq(Com!Manifest) /\ sets \in Seq(Com!CommunitySet)
      /\ pending \in 0 .. ChangeThreshold - 1
  BY Lengths DEF CommunitiesInv, Com!TypeOK
<1>2. /\ n <= Len(manifests) /\ deriving' = [deriving EXCEPT !.committed = TRUE]
      /\ UNCHANGED <<Com!knowledgeVars, Com!reportVars>>
  BY DEF Com!Derive
<1>3. CASE n <= Len(structures)
  <2>1. UNCHANGED <<sets, structures, pending>>
    BY <1>3 DEF Com!Derive
  <2>2. deriving' \in [handled : 0 .. Len(structures'), committed : BOOLEAN]
        /\ deriving'.handled < Len(structures)
    <3>1. deriving \in [handled : 0 .. Len(structures), committed : BOOLEAN]
      BY DEF CommunitiesInv, Com!TypeOK
    <3>2. structures' = structures /\ deriving.handled < Len(structures)
      BY <1>1, <1>3, <2>1
    <3>3. deriving' = [handled |-> deriving.handled, committed |-> TRUE]
      BY <1>2, <3>1
    <3>4. QED
      BY <3>1, <3>2, <3>3
  <2>3. Com!TypeOK'
    BY <1>2, <2>1, <2>2 DEF CommunitiesInv, Com!TypeOK, Com!knowledgeVars, Com!reportVars
  <2>4. QED
    BY <1>2, <2>1, <2>2, <2>3 DEF CommunitiesInv, FirstDetected, CommitStored, Com!DriftBounded,
       PendingCovers,
       PagesAdded, Com!ReadySearchable, Com!knowledgeVars, Com!reportVars
<1>4. CASE ~(n <= Len(structures))
  <2>1. deriving.handled = Len(structures) /\ n = Len(structures) + 1 /\ n \in 1 .. Len(manifests)
    BY <1>1, <1>2, <1>4
  <2>2. manifests[n] \in Com!Manifest /\ DOMAIN manifests[n].relations \subseteq Relations
    BY <2>1, RelationsOfRows DEF CommunitiesInv
  <2>3. CASE Com!Rebuilds(n)
    <3> DEFINE d == Com!Detected(manifests[n])
    <3>1. /\ sets' = Append(sets, d) /\ structures' = Append(structures, Len(sets'))
          /\ pending' = 0
      BY <1>4, <2>3 DEF Com!Derive
    <3>2. d \in Com!CommunitySet /\ d.relations = manifests[n].relations
      BY <2>2 DEF Com!Detected, Com!CommunitySet, Com!Manifest, Com!EndsOf, Com!Entities
    <3> HIDE DEF d
    <3>3. /\ sets' \in Seq(Com!CommunitySet) /\ Len(sets') = Len(sets) + 1 /\ sets' # <<>>
          /\ \A i \in 1 .. Len(sets) : sets'[i] = sets[i]
          /\ sets'[Len(sets) + 1] = d
      BY <1>1, <3>1, <3>2, AppendProperties
    <3>4. Com!ChangedRelations(sets'[Len(sets')].relations, manifests[n].relations) = 0
      BY <3>2, <3>3, NothingChanged
    <3>5. Len(sets') \in 1 .. Len(sets') /\ pending' \in 0 .. ChangeThreshold - 1
      BY <1>1, <3>1, <3>3 DEF Com!Assumptions
    <3>6. QED
      BY <1>2, <2>1, <3>1, <3>3, <3>4, <3>5, StructureAdded
  <2>4. CASE ~Com!Rebuilds(n)
    <3>1. /\ structures' = Append(structures, structures[n - 1])
          /\ pending' = Com!Accumulated(n) /\ sets' = sets
      BY <1>4, <2>4 DEF Com!Derive
    <3>2. sets # <<>> /\ structures # <<>> /\ ~(Com!Accumulated(n) >= ChangeThreshold)
      BY <2>4 DEF Com!Rebuilds, CommunitiesInv, FirstDetected
    <3>3. Len(structures) \in 1 .. Len(structures) /\ n - 1 = Len(structures) /\ n # 1
          /\ n - 1 \in 1 .. Len(manifests)
      BY <1>1, <2>1, <3>2, Lengths DEF CommunitiesInv
    <3> DEFINE k == structures[n - 1]
    <3>4. k \in 1 .. Len(sets) /\ DOMAIN sets[k].relations \subseteq Relations
          /\ DOMAIN manifests[n - 1].relations \subseteq Relations
      BY <3>3, Lengths, RelationsOfRows DEF CommunitiesInv
    <3>5. Com!ChangedRelations(sets[k].relations, manifests[n - 1].relations) <= pending
      BY <3>2, <3>3 DEF CommunitiesInv, PendingCovers
    <3> HIDE DEF k
    <3>6. Com!Accumulated(n) = pending + Com!ChangedRelations(manifests[n - 1].relations,
                                                           manifests[n].relations)
      BY <3>3 DEF Com!Accumulated, Com!Previous
    <3> HIDE DEF n
    <3> DEFINE drift == Com!ChangedRelations(sets[k].relations, manifests[n].relations)
               before == Com!ChangedRelations(sets[k].relations, manifests[n - 1].relations)
               last == Com!ChangedRelations(manifests[n - 1].relations, manifests[n].relations)
    <3>7. drift \in Nat /\ before \in Nat /\ last \in Nat /\ drift <= before + last
      BY <2>2, <3>4, ChangesAddUp, FiniteRelations
    <3>8. pending' \in 0 .. ChangeThreshold - 1 /\ drift <= pending'
      <4>1. before <= pending /\ pending' = pending + last /\ ~(pending' >= ChangeThreshold)
        BY <3>1, <3>2, <3>5, <3>6
      <4>2. pending \in Nat /\ ChangeThreshold \in Nat
        BY <1>1 DEF Com!Assumptions
      <4> HIDE DEF drift, before, last
      <4>3. QED
        BY <3>7, <4>1, <4>2
    <3>9. structures' = Append(structures, k)
      BY <3>1 DEF k
    <3>10. QED
      BY <1>1, <1>2, <2>1, <3>1, <3>2, <3>4, <3>7, <3>8, <3>9, StructureAdded
  <2>5. QED
    BY <2>3, <2>4
<1>5. QED
  BY <1>3, <1>4

LEMMA AdvanceDerivationInv ==
  ASSUME Com!Assumptions, CommunitiesInv, Com!AdvanceDerivation
  PROVE  CommunitiesInv'
<1>1. /\ deriving' = [handled |-> deriving.handled + 1, committed |-> FALSE]
      /\ UNCHANGED <<Com!knowledgeVars, sets, structures, pending, Com!reportVars>>
      /\ deriving.committed
  BY DEF Com!AdvanceDerivation
<1>2. deriving' \in [handled : 0 .. Len(structures), committed : BOOLEAN]
  BY <1>1, Lengths DEF CommunitiesInv, Com!TypeOK, CommitStored
<1>3. Com!TypeOK'
  BY <1>1, <1>2 DEF CommunitiesInv, Com!TypeOK, Com!knowledgeVars, Com!reportVars
<1>4. QED
  BY <1>1, <1>3 DEF CommunitiesInv, FirstDetected, CommitStored, Com!DriftBounded, PendingCovers,
     PagesAdded, Com!ReadySearchable, Com!knowledgeVars, Com!reportVars

-----------------------------------------------------------------------------
(* Reports *)

States == {"none", "prepared", "ready"}

\* The rows of the Epochs, and which one Report generation is at.
LEMMA ReportRows ==
  ASSUME Com!Assumptions, Com!TypeOK
  PROVE  /\ epochs \in Nat /\ reported \in Nat /\ reported <= epochs /\ page \in Nat /\ Pages \in Nat
         /\ \A n \in 1 .. epochs : publications[n] \in States /\ namespaces[n] \in SUBSET (1 .. Pages)
         /\ reported + 1 <= epochs => reported + 1 \in 1 .. epochs
         /\ publications \in Seq(States) /\ namespaces \in Seq(SUBSET (1 .. Pages))
         /\ Len(publications) = epochs /\ Len(namespaces) = epochs
<1>1. /\ Len(structures) \in Nat /\ epochs \in 0 .. Len(structures)
      /\ reported \in 0 .. epochs /\ page \in 0 .. Pages /\ Pages \in Nat
  BY Lengths DEF Com!TypeOK, Com!Assumptions
<1>2. /\ publications \in Seq(States) /\ namespaces \in Seq(SUBSET (1 .. Pages))
      /\ Len(publications) = epochs /\ Len(namespaces) = epochs
  BY DEF Com!TypeOK, States
<1>3. \A n \in 1 .. epochs : publications[n] \in States
  BY <1>2, ElementOfSeq
<1>4. \A n \in 1 .. epochs : namespaces[n] \in SUBSET (1 .. Pages)
  BY <1>2, ElementOfSeq
<1>5. QED
  BY <1>1, <1>2, <1>3, <1>4

LEMMA PublishEpochInv ==
  ASSUME Com!Assumptions, CommunitiesInv, Com!PublishEpoch
  PROVE  CommunitiesInv'
<1>1. /\ epochs < Len(structures) /\ epochs' = epochs + 1
      /\ publications' = Append(publications, "none")
      /\ namespaces' = Append(namespaces, {})
      /\ UNCHANGED <<Com!knowledgeVars, Com!structureVars, reported, page>>
  BY DEF Com!PublishEpoch
<1>2. /\ publications' \in Seq(States) /\ Len(publications') = epochs + 1
      /\ \A n \in 1 .. epochs : publications'[n] = publications[n]
      /\ publications'[epochs + 1] = "none"
  <2>1. "none" \in States
    BY DEF States
  <2>2. QED
    BY <1>1, <2>1, ReportRows, AppendProperties DEF CommunitiesInv
<1>3. /\ namespaces' \in Seq(SUBSET (1 .. Pages)) /\ Len(namespaces') = epochs + 1
      /\ \A n \in 1 .. epochs : namespaces'[n] = namespaces[n]
  <2>1. {} \in SUBSET (1 .. Pages)
    OBVIOUS
  <2>2. QED
    BY <1>1, <2>1, ReportRows, AppendProperties DEF CommunitiesInv
<1>4. epochs' \in 0 .. Len(structures) /\ reported \in 0 .. epochs'
  BY <1>1, ReportRows, Lengths DEF CommunitiesInv
<1>5. Com!TypeOK'
  BY <1>1, <1>2, <1>3, <1>4 DEF CommunitiesInv, Com!TypeOK, States, Com!knowledgeVars, Com!structureVars
<1>6. PagesAdded'
  BY <1>1, <1>2, <1>3, ReportRows DEF CommunitiesInv, PagesAdded
<1>7. Com!ReadySearchable'
  BY <1>1, <1>2, <1>3, ReportRows DEF CommunitiesInv, Com!ReadySearchable
<1>8. QED
  BY <1>1, <1>5, <1>6, <1>7 DEF CommunitiesInv, FirstDetected, CommitStored, Com!DriftBounded,
     PendingCovers,
     Com!knowledgeVars, Com!structureVars

\* The steps of one Report generation: they change its own rows, or advance.
LEMMA ReportStep ==
  ASSUME Com!Assumptions, CommunitiesInv,
         UNCHANGED <<Com!knowledgeVars, Com!structureVars, epochs>>,
         reported' \in 0 .. epochs,
         publications' \in Seq(States), Len(publications') = epochs,
         namespaces' \in Seq(SUBSET (1 .. Pages)), Len(namespaces') = epochs,
         page' \in 0 .. Pages,
         PagesAdded', Com!ReadySearchable'
  PROVE  CommunitiesInv'
<1>1. Com!TypeOK'
  BY DEF CommunitiesInv, Com!TypeOK, States, Com!knowledgeVars, Com!structureVars
<1>2. QED
  BY <1>1 DEF CommunitiesInv, FirstDetected, CommitStored, Com!DriftBounded, PendingCovers,
     Com!knowledgeVars, Com!structureVars

LEMMA PrepareReportsInv ==
  ASSUME Com!Assumptions, CommunitiesInv, Com!PrepareReports
  PROVE  CommunitiesInv'
<1> DEFINE n == reported + 1
<1>1. /\ n <= epochs /\ publications[n] = "none"
      /\ publications' = [publications EXCEPT ![n] = "prepared"]
      /\ UNCHANGED <<Com!knowledgeVars, Com!structureVars, epochs, reported, namespaces, page>>
  BY DEF Com!PrepareReports
<1>2. n \in 1 .. epochs /\ reported \in 0 .. epochs
  BY <1>1, ReportRows DEF CommunitiesInv
<1>3. /\ publications' \in Seq(States) /\ Len(publications') = epochs
      /\ \A i \in 1 .. epochs : publications'[i] = IF i = n THEN "prepared" ELSE publications[i]
  <2>1. "prepared" \in States
    BY DEF States
  <2>2. QED
    BY <1>1, <1>2, <2>1, ReportRows, ExceptSeq DEF CommunitiesInv
<1>4. ~(page > 0)
  BY <1>1 DEF CommunitiesInv, PagesAdded
<1>5. PagesAdded'
  BY <1>1, <1>4 DEF PagesAdded
<1>6. Com!ReadySearchable'
  BY <1>1, <1>3 DEF CommunitiesInv, Com!ReadySearchable
<1>7. QED
  BY <1>1, <1>2, <1>3, <1>5, <1>6, ReportStep, ReportRows DEF CommunitiesInv, Com!TypeOK

LEMMA AddReportVectorsInv ==
  ASSUME Com!Assumptions, CommunitiesInv, Com!AddReportVectors
  PROVE  CommunitiesInv'
<1> DEFINE n == reported + 1
           added == namespaces[n] \cup {page'}
<1>1. /\ n <= epochs /\ publications[n] = "prepared" /\ page < Pages /\ page' = page + 1
      /\ namespaces' = [namespaces EXCEPT ![n] = added]
      /\ UNCHANGED <<Com!knowledgeVars, Com!structureVars, epochs, reported, publications>>
  BY DEF Com!AddReportVectors
<1>2. n \in 1 .. epochs /\ reported \in 0 .. epochs /\ page' \in 1 .. Pages /\ page \in Nat
  BY <1>1, ReportRows DEF CommunitiesInv
<1>3. added \in SUBSET (1 .. Pages)
  BY <1>2, ReportRows DEF CommunitiesInv
<1>4. 1 .. page' \subseteq added
  <2>1. 1 .. page \subseteq namespaces[n]
    BY <1>2 DEF CommunitiesInv, PagesAdded
  <2>2. QED
    BY <1>1, <1>2, <2>1
<1> HIDE DEF added
<1>5. /\ namespaces' \in Seq(SUBSET (1 .. Pages)) /\ Len(namespaces') = epochs
      /\ \A i \in 1 .. epochs : namespaces'[i] = IF i = n THEN added ELSE namespaces[i]
  BY <1>1, <1>2, <1>3, ReportRows, ExceptSeq DEF CommunitiesInv
<1>6. PagesAdded'
  BY <1>1, <1>2, <1>4, <1>5 DEF PagesAdded
<1>7. Com!ReadySearchable'
  BY <1>1, <1>5 DEF CommunitiesInv, Com!ReadySearchable
<1>8. QED
  BY <1>1, <1>2, <1>5, <1>6, <1>7, ReportStep, ReportRows DEF CommunitiesInv

\* Every page was added by the Build that ends here, so all of them are there.
LEMMA CompleteReportsInv ==
  ASSUME Com!Assumptions, CommunitiesInv, Com!CompleteReports
  PROVE  CommunitiesInv'
<1> DEFINE n == reported + 1
<1>1. /\ n <= epochs /\ publications[n] = "prepared" /\ page = Pages /\ page' = 0
      /\ publications' = [publications EXCEPT ![n] = "ready"]
      /\ UNCHANGED <<Com!knowledgeVars, Com!structureVars, epochs, reported, namespaces>>
  BY DEF Com!CompleteReports, Com!AllAdded
<1>2. n \in 1 .. epochs /\ reported \in 0 .. epochs /\ page' \in 0 .. Pages
  BY <1>1, ReportRows DEF CommunitiesInv
<1>3. namespaces[n] = 1 .. Pages
  <2>1. namespaces[n] \subseteq 1 .. Pages
    BY <1>2, ReportRows DEF CommunitiesInv
  <2>2. page > 0 => 1 .. Pages \subseteq namespaces[n]
    BY <1>1 DEF CommunitiesInv, PagesAdded
  <2>3. ~(page > 0) => 1 .. Pages = {}
    BY <1>1, ReportRows DEF CommunitiesInv
  <2>4. QED
    BY <2>1, <2>2, <2>3
<1>4. /\ publications' \in Seq(States) /\ Len(publications') = epochs
      /\ \A i \in 1 .. epochs : publications'[i] = IF i = n THEN "ready" ELSE publications[i]
  <2>1. "ready" \in States
    BY DEF States
  <2>2. QED
    BY <1>1, <1>2, <2>1, ReportRows, ExceptSeq DEF CommunitiesInv
<1>5. PagesAdded'
  BY <1>1 DEF PagesAdded
<1>6. Com!ReadySearchable'
  BY <1>1, <1>3, <1>4 DEF CommunitiesInv, Com!ReadySearchable
<1>7. QED
  BY <1>1, <1>2, <1>4, <1>5, <1>6, ReportStep, ReportRows DEF CommunitiesInv

LEMMA AdvanceReportsInv ==
  ASSUME Com!Assumptions, CommunitiesInv, Com!AdvanceReports
  PROVE  CommunitiesInv'
<1>1. /\ reported + 1 <= epochs /\ publications[reported + 1] = "ready"
      /\ reported' = reported + 1
      /\ UNCHANGED <<Com!knowledgeVars, Com!structureVars, epochs, publications, namespaces, page>>
  BY DEF Com!AdvanceReports
<1>2. reported' \in 0 .. epochs /\ page \in 0 .. Pages
  BY <1>1, ReportRows DEF CommunitiesInv, Com!TypeOK
<1>3. ~(page > 0)
  BY <1>1 DEF CommunitiesInv, PagesAdded
<1>4. PagesAdded' /\ Com!ReadySearchable'
  BY <1>1, <1>3 DEF CommunitiesInv, PagesAdded, Com!ReadySearchable
<1>5. QED
  BY <1>1, <1>2, <1>4, ReportStep, ReportRows DEF CommunitiesInv

LEMMA StopInv ==
  ASSUME Com!Assumptions, CommunitiesInv, Com!Stop
  PROVE  CommunitiesInv'
<1>1. /\ deriving' = [deriving EXCEPT !.committed = FALSE] /\ page' = 0
      /\ UNCHANGED <<Com!knowledgeVars, sets, structures, pending, epochs, reported, publications,
                     namespaces>>
  BY DEF Com!Stop
<1>2. page' \in 0 .. Pages
  BY <1>1 DEF Com!Assumptions
<1>3. deriving \in [handled : 0 .. Len(structures), committed : BOOLEAN]
  BY DEF CommunitiesInv, Com!TypeOK
<1>4. deriving' \in [handled : 0 .. Len(structures), committed : BOOLEAN] /\ ~deriving'.committed
  <2>1. deriving' = [handled |-> deriving.handled, committed |-> FALSE]
    BY <1>1, <1>3
  <2>2. QED
    BY <1>3, <2>1
<1>5. Com!TypeOK'
  BY <1>1, <1>2, <1>4 DEF CommunitiesInv, Com!TypeOK, Com!knowledgeVars
<1>6. QED
  BY <1>1, <1>4, <1>5 DEF CommunitiesInv, FirstDetected, CommitStored, Com!DriftBounded, PendingCovers,
     PagesAdded, Com!ReadySearchable, Com!knowledgeVars

-----------------------------------------------------------------------------

LEMMA CommunitiesStep == Com!Assumptions /\ CommunitiesInv /\ [Com!Next]_Com!vars => CommunitiesInv'
<1> SUFFICES ASSUME Com!Assumptions, CommunitiesInv, [Com!Next]_Com!vars PROVE CommunitiesInv'
  OBVIOUS
<1>1. CASE \/ \E r \in Relations : Com!Relate(r) \/ Com!Unrelate(r)
           \/ \E e \in Com!Entities : Com!Forget(e)
  BY <1>1, RelationsKeep
<1>2. CASE Com!PublishManifest \/ Com!PublishEpoch \/ Com!Stop
  BY <1>2, PublishManifestInv, PublishEpochInv, StopInv
<1>3. CASE Com!Derivation
  BY <1>3, DeriveInv, AdvanceDerivationInv DEF Com!Derivation
<1>4. CASE Com!Reporting
  BY <1>4, PrepareReportsInv, AddReportVectorsInv, CompleteReportsInv, AdvanceReportsInv
     DEF Com!Reporting
<1>5. CASE UNCHANGED Com!vars
  BY <1>5 DEF Com!vars, CommunitiesInv, Com!TypeOK, FirstDetected, CommitStored, Com!DriftBounded,
     PendingCovers,
     PagesAdded, Com!ReadySearchable
<1>6. QED
  BY <1>1, <1>2, <1>3, <1>4, <1>5 DEF Com!Next

\* The derivation is all that changes what it is about.
LEMMA CommunitiesPart == [ServicesNext]_servicesVars => [Com!Next]_(Com!vars)
BY DEF ServicesNext, servicesVars, Only, comVars, Com!vars

LEMMA CommunitiesInvariance == ServicesSpec => []CommunitiesInv
<1>1. ServicesInit => CommunitiesInv
  BY CommunitiesStart, CommunityAssumptions DEF ServicesInit
<1>2. CommunitiesInv /\ [ServicesNext]_servicesVars => CommunitiesInv'
  BY CommunitiesStep, CommunitiesPart, CommunityAssumptions
<1>3. QED
  BY <1>1, <1>2, PTL DEF ServicesSpec

\* The Communities of a Structure are fewer than ChangeThreshold Relation
\* changes from its own Knowledge, through any number of Manifests and
\* redeliveries (structurebuild/builder.go).
THEOREM DriftIsBounded == ServicesSpec => []DriftBounded
<1>1. CommunitiesInv => DriftBounded
  BY DEF CommunitiesInv, DriftBounded
<1>2. QED
  BY <1>1, CommunitiesInvariance, PTL

\* Completed Reports have all their vectors, wherever stops have interrupted
\* the generation (reportgeneration/builder.go).
THEOREM CompletedReportsSearchable == ServicesSpec => []ReadySearchable
<1>1. CommunitiesInv => ReadySearchable
  BY DEF CommunitiesInv, ReadySearchable
<1>2. QED
  BY <1>1, CommunitiesInvariance, PTL

-----------------------------------------------------------------------------
(* Searches *)

LEMMA DriftPart == [ServicesNext]_servicesVars => [Search!Next]_(Search!vars)
BY DEF ServicesNext, servicesVars, Only, driftVars, Search!vars

LEMMA GlobalPart == [ServicesNext]_servicesVars => [Glob!Next]_(Glob!vars)
BY DEF ServicesNext, servicesVars, Only, globalVars, Glob!vars, Glob!selectionVars, Glob!reduceVars,
       Glob!auditVars

LEMMA SearchInvariance == ServicesSpec => [](DriftInv /\ GlobalInv)
<1>1. ServicesInit => DriftInv /\ GlobalInv
  BY SearchAssumptions, GlobalAssumptions, DriftStarts, GlobalStarts DEF ServicesInit
<1>2. DriftInv /\ GlobalInv /\ [ServicesNext]_servicesVars => (DriftInv /\ GlobalInv)'
  BY SearchAssumptions, GlobalAssumptions, DriftPart, GlobalPart, DriftStep, GlobalStep
<1>3. QED
  BY <1>1, <1>2, PTL DEF ServicesSpec

\* Whatever is read, what models answer, what fails and when the caller leaves:
\* a DRIFT request keeps to its limits and returns a whole graph of branches
\* (query/drift/budget.go, graph.go); a Global request selects and maps what is
\* relevant, once, and its answer cites what the Map was shown (query/global).
THEOREM RequestsSound == ServicesSpec => []RequestSound
<1>1. DriftInv /\ GlobalInv => RequestSound
  BY SearchAssumptions, GlobalAssumptions, BudgetIsKept, BranchesAreTraced, SelectionIsRelevant,
     IsShownOnce, AnswerIsTraced DEF RequestSound
<1>2. QED
  BY <1>1, SearchInvariance, PTL
=============================================================================
