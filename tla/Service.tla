------------------------------ MODULE Service ------------------------------
(***************************************************************************)
(* The life of the HTTP service process: opening the Project with its      *)
(* analysis sidecar, serving, and the way down after an interrupt, a       *)
(* failing runner or a failing listener.  Goroutines of four parts take    *)
(* part in it: Start and Close of the sidecar session, whose watcher       *)
(* closes it when the process is interrupted; the errgroup of the          *)
(* Dispatcher and the Action runners; the HTTP server; and Run itself,     *)
(* which releases what it owns last.                                       *)
(***************************************************************************)
EXTENDS FiniteSets

CONSTANTS
  Runners,      \* the Dispatcher and the Action runners
  Requests      \* HTTP requests that may be in flight at once

VARIABLES
  interrupted,  \* the context of the process is done
  cancelled,    \* serveProject has called cancel
  stage,        \* where Run is
  start,        \* where analysis.Start is
  sidecar,      \* the child process
  ready,        \* channel of the ready message
  exit,         \* channel `wait' of the child's exit: capacity and one value
  stopping,     \* the goroutine that ends the child: Start's or Close's
  session,      \* the analysis Session
  runners,      \* runners[r]: waiting, handling an event, or returned
  failure,      \* first error of the errgroup
  dispatch,     \* processRuntime.Run
  server,       \* serve and its Shutdown goroutine
  requests,     \* HTTP requests in flight
  held          \* what the process holds open

vars == <<interrupted, cancelled, stage, start, sidecar, ready, exit, stopping, session,
          runners, failure, dispatch, server, requests, held>>

childVars == <<sidecar, ready, exit, stopping>>
groupVars == <<runners, failure, dispatch>>
serverVars == <<server, requests>>

\* No goroutine but Run has begun.
Quiet ==
  /\ interrupted = FALSE
  /\ cancelled = FALSE
  /\ sidecar = "none"
  /\ ready = "none"
  /\ exit = "none"
  /\ stopping = "no"
  /\ session = "none"
  /\ runners = [r \in Runners |-> "waiting"]
  /\ failure = "none"
  /\ dispatch = "off"
  /\ server = "off"
  /\ requests = {}
  /\ held = {"database", "cache"}

Init ==
  /\ Quiet
  /\ stage = "opening"
  /\ start = "launch"

\* SIGINT or SIGTERM, at any time.
Interrupt ==
  /\ ~interrupted
  /\ interrupted' = TRUE
  /\ UNCHANGED <<cancelled, stage, start, childVars, session, groupVars, serverVars, held>>

-----------------------------------------------------------------------------
(* The child process, seen from its parent *)

\* It ends by itself, because of os.Interrupt or because it was killed.
Exits ==
  /\ sidecar \in {"up", "killed"}
  /\ sidecar' = "gone"
  /\ UNCHANGED <<interrupted, cancelled, stage, start, ready, exit, stopping, session,
                 groupVars, serverVars, held>>

\* The goroutine around child.Wait.
Reap ==
  /\ sidecar = "gone" /\ exit = "none"
  /\ exit' = "sent"
  /\ UNCHANGED <<interrupted, cancelled, stage, start, sidecar, ready, stopping, session,
                 groupVars, serverVars, held>>

\* readReadyMessage: one line of stdout that is valid or not, or none.
ReadReady ==
  /\ ready = "none" /\ sidecar # "none"
  /\ \/ ready' = "bad"
     \/ sidecar # "gone" /\ ready' = "valid"
  /\ UNCHANGED <<interrupted, cancelled, stage, start, sidecar, exit, stopping, session,
                 groupVars, serverVars, held>>

-----------------------------------------------------------------------------
(* analysis.Start *)

\* No settings of the Project require the sidecar, or the cache.
NoAnalysis ==
  /\ start = "launch"
  /\ start' = "started" /\ stage' = "opened" /\ held' = {"database"}
  /\ UNCHANGED <<interrupted, cancelled, childVars, session, groupVars, serverVars>>

Launch ==
  /\ start = "launch"
  /\ \/ start' = "failed" /\ UNCHANGED sidecar
     \/ ~interrupted /\ start' = "ready" /\ sidecar' = "up"
  /\ UNCHANGED <<interrupted, cancelled, stage, ready, exit, stopping, session,
                 groupVars, serverVars, held>>

\* terminateProcess begins: os.Interrupt, then the select.  (Where the signal
\* cannot be sent the child is killed at once: one that exits by itself.)
Terminating == start' = "terminating" /\ stopping' = "waiting"

\* Mutant: the child whose exit has been received is terminated like any other.
SeesExit_Terminates ==
  /\ start = "ready" /\ exit = "sent"
  /\ exit' = "taken"
  /\ Terminating
  /\ UNCHANGED <<interrupted, cancelled, stage, sidecar, ready, session,
                 groupVars, serverVars, held>>

\* The case of the select that takes the exit: there is nothing to terminate.
SeesExit ==
  /\ start = "ready" /\ exit = "sent"
  /\ exit' = "taken"
  /\ start' = "failed"
  /\ UNCHANGED <<interrupted, cancelled, stage, sidecar, ready, stopping, session,
                 groupVars, serverVars, held>>

\* A valid message; an invalid one; the startup timeout or the interrupt.
SeesReady ==
  /\ start = "ready"
  /\ \/ ready = "valid" /\ start' = "health" /\ UNCHANGED stopping
     \/ Terminating
  /\ UNCHANGED <<interrupted, cancelled, stage, sidecar, ready, exit, session,
                 groupVars, serverVars, held>>

\* The health request is answered by a child that is up, or fails.
Health ==
  /\ start = "health"
  /\ \/ /\ sidecar = "up" /\ start' = "started" /\ session' = "open" /\ stage' = "opened"
        /\ UNCHANGED stopping
     \/ Terminating /\ UNCHANGED <<session, stage>>
  /\ UNCHANGED <<interrupted, cancelled, sidecar, ready, exit, groupVars, serverVars, held>>

-----------------------------------------------------------------------------
(* terminateProcess and Session.Close: whoever ends the child *)

\* closeOnce: the watcher of the interrupt or Service.Close, the first of them.
BeginClose ==
  /\ session = "open"
  /\ interrupted \/ stage = "closing"
  /\ session' = "closing" /\ stopping' = "waiting"
  /\ UNCHANGED <<interrupted, cancelled, stage, start, sidecar, ready, exit,
                 groupVars, serverVars, held>>

\* The select over the exit and the timer, and the wait after Kill.
Stopped ==
  /\ stopping \in {"waiting", "killing"} /\ exit = "sent"
  /\ exit' = "taken" /\ stopping' = "done"
  /\ UNCHANGED <<interrupted, cancelled, stage, start, sidecar, ready, session,
                 groupVars, serverVars, held>>

\* The timer: Process.Kill ends a child that is up, another has ended already.
Kill ==
  /\ stopping = "waiting"
  /\ stopping' = "killing"
  /\ sidecar' = IF sidecar = "up" THEN "killed" ELSE sidecar
  /\ UNCHANGED <<interrupted, cancelled, stage, start, ready, exit, session,
                 groupVars, serverVars, held>>

\* Process.Kill fails: Close gives the child up, terminateProcess waits for it.
KillFails ==
  /\ stopping = "waiting" /\ sidecar = "up"
  /\ stopping' = IF session = "closing" THEN "failed" ELSE "killing"
  /\ UNCHANGED <<interrupted, cancelled, stage, start, sidecar, ready, exit, session,
                 groupVars, serverVars, held>>

\* Start returns its error, or Close closes the cache and closeDone, with the
\* error that the child may still be up.
EndStop ==
  /\ stopping \in {"done", "failed"}
  /\ stopping' = "no"
  /\ \/ /\ start = "terminating" /\ start' = "failed"
        /\ UNCHANGED <<session, held>>
     \/ /\ session = "closing"
        /\ session' = IF stopping = "failed" THEN "abandoned" ELSE "closed"
        /\ held' = held \ {"cache"}
        /\ UNCHANGED start
  /\ UNCHANGED <<interrupted, cancelled, stage, sidecar, ready, exit, groupVars, serverVars>>

-----------------------------------------------------------------------------
(* The errgroup of processRuntime.Run *)

ServiceDone == interrupted \/ cancelled
RunDone == ServiceDone \/ failure # "none"

Handle(r) ==
  /\ dispatch = "running" /\ runners[r] = "waiting"
  /\ runners' = [runners EXCEPT ![r] = "handling"]
  /\ UNCHANGED <<interrupted, cancelled, stage, start, childVars, session, failure, dispatch,
                 serverVars, held>>

Handled(r) ==
  /\ runners[r] = "handling"
  /\ runners' = [runners EXCEPT ![r] = "waiting"]
  /\ UNCHANGED <<interrupted, cancelled, stage, start, childVars, session, failure, dispatch,
                 serverVars, held>>

Returns(r, err) ==
  /\ dispatch = "running"
  /\ runners' = [runners EXCEPT ![r] = "returned"]
  /\ failure' = IF failure = "none" THEN err ELSE failure
  /\ UNCHANGED <<interrupted, cancelled, stage, start, childVars, session, dispatch,
                 serverVars, held>>

\* A handler fails, not least because the sidecar has just been closed.
Fails(r) == runners[r] = "handling" /\ Returns(r, "error")

ReturnsCancelled(r) == runners[r] # "returned" /\ RunDone /\ Returns(r, "cancelled")

\* group.Wait; an error that is not the caller's cancellation cancels the
\* service before it is put into dispatchResult.
EndGroup ==
  /\ dispatch = "running"
  /\ \A r \in Runners : runners[r] = "returned"
  /\ dispatch' = "returned"
  /\ cancelled' = (cancelled \/ failure = "error")
  /\ UNCHANGED <<interrupted, stage, start, childVars, session, runners, failure,
                 serverVars, held>>

-----------------------------------------------------------------------------
(* serve *)

Listen ==
  /\ server = "entering"
  /\ server' = IF ServiceDone THEN "refused" ELSE "serving"
  /\ UNCHANGED <<interrupted, cancelled, stage, start, childVars, session, groupVars,
                 requests, held>>

Accept(q) ==
  /\ server = "serving" /\ q \notin requests
  /\ requests' = requests \cup {q}
  /\ UNCHANGED <<interrupted, cancelled, stage, start, childVars, session, groupVars,
                 server, held>>

Answer(q) ==
  /\ q \in requests
  /\ requests' = requests \ {q}
  /\ UNCHANGED <<interrupted, cancelled, stage, start, childVars, session, groupVars,
                 server, held>>

\* server.Shutdown: no more requests are accepted, those in flight may finish
\* until shutdownWait is over.
Shutdown ==
  /\ \/ server = "serving" /\ ServiceDone /\ server' = "draining"
     \/ server = "draining" /\ requests = {} /\ server' = "drained"
     \/ server = "draining" /\ requests # {} /\ server' = "timeout"
  /\ UNCHANGED <<interrupted, cancelled, stage, start, childVars, session, groupVars,
                 requests, held>>

\* Accept fails: nothing is drained.
ListenerFails ==
  /\ server = "serving"
  /\ server' = "failed"
  /\ UNCHANGED <<interrupted, cancelled, stage, start, childVars, session, groupVars,
                 requests, held>>

-----------------------------------------------------------------------------
(* httpservice.Run *)

\* The rest of Open, the listener and the handler; any of them may fail.
Serve ==
  /\ stage = "opened"
  /\ \/ stage' = "serving" /\ dispatch' = "running" /\ server' = "entering"
     \/ stage' = "closing" /\ UNCHANGED <<dispatch, server>>
  /\ UNCHANGED <<interrupted, cancelled, start, childVars, session, runners, failure,
                 requests, held>>

\* serve has returned.
Cancel ==
  /\ stage = "serving"
  /\ server \in {"refused", "drained", "timeout", "failed"}
  /\ cancelled' = TRUE
  /\ stage' = "waiting"
  /\ UNCHANGED <<interrupted, start, childVars, session, groupVars, serverVars, held>>

\* Mutant: the result of the dispatcher is not waited for.
AwaitDispatch_Not ==
  /\ stage = "waiting"
  /\ stage' = "closing"
  /\ UNCHANGED <<interrupted, cancelled, start, childVars, session, groupVars, serverVars, held>>

\* <-dispatchResult
AwaitDispatch ==
  /\ stage = "waiting" /\ dispatch = "returned"
  /\ stage' = "closing"
  /\ UNCHANGED <<interrupted, cancelled, start, childVars, session, groupVars, serverVars, held>>

\* Service.Close waits for the session and closes the database with its lock
\* last; when Start has failed, Open closes the cache and the database.
Release ==
  /\ \/ stage = "closing" /\ session \in {"none", "closed", "abandoned"}
     \/ stage = "opening" /\ start = "failed"
  /\ held' = {}
  /\ stage' = "exited"
  /\ UNCHANGED <<interrupted, cancelled, start, childVars, session, groupVars, serverVars>>

-----------------------------------------------------------------------------

Child == Exits \/ Reap \/ ReadReady
Start == NoAnalysis \/ Launch \/ SeesExit \/ SeesReady \/ Health
Stop == Stopped \/ Kill \/ KillFails \/ EndStop
Runner(r) == Handle(r) \/ Handled(r) \/ Fails(r) \/ ReturnsCancelled(r)
HTTP == Listen \/ Shutdown
Run == Serve \/ Cancel \/ AwaitDispatch \/ Release

Next ==
  \/ Interrupt
  \/ Child \/ Start \/ BeginClose \/ Stop
  \/ \E r \in Runners : Runner(r)
  \/ EndGroup
  \/ \E q \in Requests : Accept(q) \/ Answer(q)
  \/ HTTP \/ ListenerFails
  \/ Run

\* A killed process exits; a goroutine that can go on does, and a timer fires;
\* a handler returns once its context is done.  Nothing is assumed of the
\* child otherwise, nor of the requests.
Fairness ==
  /\ WF_vars(sidecar = "killed" /\ Exits) /\ WF_vars(Reap)
  /\ WF_vars(Start) /\ WF_vars(BeginClose) /\ WF_vars(Stop)
  /\ \A r \in Runners : WF_vars(ReturnsCancelled(r))
  /\ WF_vars(EndGroup) /\ WF_vars(HTTP) /\ WF_vars(Run)

Spec == Init /\ [][Next]_vars /\ Fairness

-----------------------------------------------------------------------------

\* Types of the variables.
TypeOK ==
  /\ interrupted \in BOOLEAN /\ cancelled \in BOOLEAN
  /\ stage \in {"opening", "opened", "serving", "waiting", "closing", "exited"}
  /\ start \in {"launch", "ready", "health", "terminating", "failed", "started"}
  /\ sidecar \in {"none", "up", "killed", "gone"}
  /\ ready \in {"none", "valid", "bad"}
  /\ exit \in {"none", "sent", "taken"}
  /\ stopping \in {"no", "waiting", "killing", "done", "failed"}
  /\ session \in {"none", "open", "closing", "closed", "abandoned"}
  /\ runners \in [Runners -> {"waiting", "handling", "returned"}]
  /\ failure \in {"none", "error", "cancelled"}
  /\ dispatch \in {"off", "running", "returned"}
  /\ server \in {"off", "entering", "refused", "serving", "draining", "drained",
                 "timeout", "failed"}
  /\ requests \subseteq Requests
  /\ held \subseteq {"database", "cache"}

\* The child was never there or its exit has been received.
Reaped == sidecar = "none" \/ (sidecar = "gone" /\ exit = "taken")

\* The errgroup runs, or serve has not returned.
Serving == dispatch = "running" \/ server \in {"entering", "serving", "draining"}

\* The database is closed after the analysis cache and after the runners and the
\* server; only requests that outlast shutdownWait, or were in flight when the
\* listener failed, find it closed.  The cache is closed after the sidecar has
\* been reaped, unless its Kill has failed, but under runners and requests only
\* by the watcher of the interrupt (httpservice/service.go, serveProject and
\* Close; analysis/process.go, Start and Close).
ReleasedLast ==
  /\ "cache" \notin held =>
       /\ Reaped \/ session = "abandoned"
       /\ Serving => session = "none" \/ interrupted
  /\ "database" \notin held =>
       /\ "cache" \notin held /\ ~Serving
       /\ requests # {} => server \in {"timeout", "failed"}

\* Whatever ends the service ends the process: an interrupt during the startup
\* of the sidecar or later, a failing runner, a failing listener, whether the
\* sidecar answers or not; unless Start waits for a child that is still up after
\* its Kill has failed (process.go, Start, Close and terminateProcess;
\* service.go, serve).
EventuallyExits ==
  (interrupted \/ start = "failed" \/ failure # "none" \/ server = "failed") ~>
    \/ stage = "exited"
    \/ start = "terminating" /\ stopping = "killing" /\ sidecar = "up"
=============================================================================
