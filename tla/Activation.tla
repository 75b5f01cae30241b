----------------------------- MODULE Activation -----------------------------
(***************************************************************************)
(* Observations of recall.  Each is validated against current Knowledge,   *)
(* then stored in a transaction that also advances the memory state of its *)
(* Subject under the model the process was started with.  A start verifies *)
(* every stored state by replaying its Observations under the model that   *)
(* produced them, and refuses to serve when one differs.                   *)
(***************************************************************************)
EXTENDS Naturals, Sequences, FiniteSets

CONSTANTS
  Subjects,     \* Knowledge objects
  Ids,          \* Observation IDs, chosen by the callers
  Grades,       \* the grades of a scored Observation
  Times,        \* when recalls occurred
  Models,       \* model configurations, by ID
  Callers,      \* concurrent submissions
  MaxVersions,  \* bound on the Versions of a Subject
  MaxStops      \* bound on the process stops

VARIABLES
  targets,      \* targets[s]: current Version and whether it is deleted
  observations, \* stored Observations with their receipts
  states,       \* states[s]: the stored memory state, or Fresh
  archived,     \* archived models
  model,        \* the model this process runs with, or Down
  submission,   \* submission[c]: the validated Observation, if any
  stops         \* process stops so far

vars == <<targets, observations, states, archived, model, submission, stops>>

Down == "down"
Unscorable == "unscorable"

\* A state is determined by the reviews folded into it.
Fresh == [reviews |-> <<>>, model |-> Down]

Observations == [id : Ids, subject : Subjects, version : 1 .. MaxVersions,
                 grade : Grades \cup {Unscorable}, at : Times]

Init ==
  /\ targets = [s \in Subjects |-> [version |-> 1, deleted |-> FALSE]]
  /\ observations = {}
  /\ states = [s \in Subjects |-> Fresh]
  /\ archived = {}
  /\ model = Down
  /\ submission = [c \in Callers |-> {}]
  /\ stops = 0

Found(id) == \E r \in observations : r.input.id = id
Applied(s) == {r \in observations : r.input.subject = s /\ r.sequence > 0}

\* Replay, from the stored Observations of s: the application order is
\* complete, one model produced it, no review predates the one before it
\* (UpdateLiveness), and the result is the stored state.
Replays(s) ==
  LET history == Applied(s)
      n == Len(states[s].reviews) IN
  /\ {r.sequence : r \in history} = 1 .. n
  /\ Cardinality(history) = n
  /\ \A r \in history :
       /\ r.model = states[s].model
       /\ states[s].reviews[r.sequence] = [grade |-> r.input.grade, at |-> r.input.at]
  /\ \A q, r \in history : q.sequence < r.sequence => q.input.at <= r.input.at

\* Verify: all of it, and every Observation's model is archived.
Verified ==
  /\ \A s \in Subjects : Replays(s)
  /\ {r.model : r \in observations} \subseteq archived

\* Prepare at a process start.
Start(m) ==
  /\ model = Down
  /\ Verified
  /\ archived' = archived \cup {m}
  /\ model' = m
  /\ UNCHANGED <<targets, observations, states, submission, stops>>

Stop ==
  /\ model # Down
  /\ stops < MaxStops
  /\ stops' = stops + 1
  /\ model' = Down
  /\ submission' = [c \in Callers |-> {}]
  /\ UNCHANGED <<targets, observations, states, archived>>

\* Knowledge moves on: a new Version, possibly one that deletes the object.
Revise(s, deleted) ==
  /\ targets[s].version < MaxVersions
  /\ targets' = [targets EXCEPT ![s] = [version |-> @.version + 1, deleted |-> deleted]]
  /\ UNCHANGED <<observations, states, archived, model, submission, stops>>

\* Submit up to its transaction: not stored yet, and the Version it judges is
\* the current one.
Validate(c, o) ==
  /\ model # Down
  /\ submission[c] = {}
  /\ ~Found(o.id)
  /\ targets[o.subject] = [version |-> o.version, deleted |-> FALSE]
  /\ submission' = [submission EXCEPT ![c] = {o}]
  /\ UNCHANGED <<targets, observations, states, archived, model, stops>>

LastReview(s) == states[s].reviews[Len(states[s].reviews)].at

\* Mutant: the stored state is advanced whatever model produced it.
Appliable_AnyModel(o) ==
  states[o.subject] # Fresh => o.at >= LastReview(o.subject)

\* A graded Observation advances a state of the same model, and not into the
\* past: ErrModelMismatch, ErrOutOfOrder.
Appliable(o) ==
  states[o.subject] # Fresh =>
    /\ states[o.subject].model = model
    /\ o.at >= LastReview(o.subject)

\* The transaction of Submit: Observation and state together.
Record(c, o) ==
  LET reviews == Append(states[o.subject].reviews, [grade |-> o.grade, at |-> o.at])
      graded == o.grade # Unscorable IN
  /\ ~Found(o.id)
  /\ graded => Appliable(o)
  /\ observations' = observations \cup
       {[input |-> o, model |-> model, sequence |-> IF graded THEN Len(reviews) ELSE 0]}
  /\ states' = IF graded
               THEN [states EXCEPT ![o.subject] = [reviews |-> reviews, model |-> model]]
               ELSE states
  /\ submission' = [submission EXCEPT ![c] = {}]
  /\ UNCHANGED <<targets, archived, model, stops>>

\* The transaction finds the ID stored, and returns its receipt or
\* ErrObservationConflict; or it refuses the Observation; or the call fails.
Return(c) ==
  /\ submission[c] # {}
  /\ submission' = [submission EXCEPT ![c] = {}]
  /\ UNCHANGED <<targets, observations, states, archived, model, stops>>

Next ==
  \/ Stop
  \/ \E m \in Models : Start(m)
  \/ \E s \in Subjects, deleted \in BOOLEAN : Revise(s, deleted)
  \/ \E c \in Callers :
       \/ \E o \in Observations : Validate(c, o)
       \/ \E o \in submission[c] : Record(c, o)
       \/ Return(c)

Spec == Init /\ [][Next]_vars

-----------------------------------------------------------------------------

Assumptions ==
  /\ Times \subseteq Nat
  /\ MaxVersions \in Nat \ {0}
  /\ MaxStops \in Nat

\* Types of the variables; an Observation ID is stored once.
TypeOK ==
  /\ targets \in [Subjects -> [version : 1 .. MaxVersions, deleted : BOOLEAN]]
  /\ \A r \in observations : r.input \in Observations /\ r.model \in Models
  /\ \A q, r \in observations : q.input.id = r.input.id => q = r
  /\ archived \subseteq Models
  /\ model \in Models \cup {Down}
  /\ submission \in [Callers -> SUBSET Observations]
  /\ stops \in 0 .. MaxStops

\* A process can always be started again: whatever was submitted at once, in
\* whatever order, under whichever models, Verify accepts the stored states.
\* Verify runs over all Zones at every start, and one state it rejects keeps
\* the whole service down (preparation.go, Verify; service.go, Submit).
Restartable == Verified
=============================================================================
