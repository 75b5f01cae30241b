------------------------------- MODULE Journal -------------------------------
(***************************************************************************)
(* The Journal store: events appended inside the shared SQLite transaction *)
(* scope and the durable positions of their consumers.                     *)
(*                                                                         *)
(* Every write goes through transaction WithTx: one process-wide mutex and *)
(* BEGIN IMMEDIATE, so at most one transaction is open; its inserts are    *)
(* private until COMMIT.  A callback that fails, a cancelled context and a *)
(* crash all lose them.  Readers see committed rows only.                  *)
(***************************************************************************)
EXTENDS Naturals, Sequences, FiniteSetsExt

CONSTANTS
  Writers,        \* goroutines that publish
  NoWriter,       \* the write lock is free
  Zones, Streams, EventTypes,
  EventIDs,
  Contents,       \* what sameEvent compares besides the identities: version,
                  \* occurrence time, correlation, causation and body
  Batches,        \* the batches the application services publish
  AtomicBatches,  \* [members : SUBSET EventTypes, completion : EventTypes]
  Consumers

Proposals == [id : EventIDs, zone : Zones, stream : Streams,
              type : EventTypes, content : Contents]

ASSUME BatchesAssumption == Batches \subseteq Seq(Proposals)
ASSUME NoWriterAssumption == NoWriter \notin Writers

VARIABLES
  rows,       \* the committed rows of journal_events
  positions,  \* positions[k][z][t] : the row of journal_consumer_positions
  writer,     \* the goroutine inside WithTx
  phase,      \* phase[w] : "idle", "open" or "failed" (the callback errs)
  draft,      \* draft[w] : rows inserted by w's open transaction
  queue       \* queue[w] : events of w's batch Append has still to visit

vars == <<rows, positions, writer, phase, draft, queue>>

Rows == [id : EventIDs, zone : Zones, stream : Streams, type : EventTypes,
         content : Contents, sequence : Nat, streamSequence : Nat \ {0}]

-----------------------------------------------------------------------------
(* Reads *)

OfType(view, z, t)   == {e \in view : e.zone = z /\ e.type = t}
OfStream(view, z, s) == {e \in view : e.zone = z /\ e.stream = s}

\* The next EventType sequence, MAX + 1 or 0 : GetEventTypePosition.
TypePosition(view, z, t) ==
  Max({0} \union {e.sequence + 1 : e \in OfType(view, z, t)})

\* Mutant: the first event of a Stream is numbered like that of an EventType.
NextStreamSequence_FromZero(view, z, s) ==
  Max({0} \union {e.streamSequence + 1 : e \in OfStream(view, z, s)})

\* The next Stream sequence, MAX + 1 or 1 : GetLastStreamSequence + 1.
NextStreamSequence(view, z, s) ==
  1 + Max({0} \union {e.streamSequence : e \in OfStream(view, z, s)})

\* Mutant: the sequences are read outside the transaction.
View_Committed(w) == rows

\* What the connection of w's transaction reads: committed rows and its own.
View(w) == rows \union draft[w]

SameEvent(e, p) ==
  /\ e.id = p.id
  /\ e.zone = p.zone
  /\ e.stream = p.stream
  /\ e.type = p.type
  /\ e.content = p.content

NewRow(view, p) ==
  [id |-> p.id, zone |-> p.zone, stream |-> p.stream, type |-> p.type,
   content |-> p.content,
   sequence |-> TypePosition(view, p.zone, p.type),
   streamSequence |-> NextStreamSequence(view, p.zone, p.stream)]

-----------------------------------------------------------------------------
(* Publish: what is refused before anything is appended *)

TypesOf(batch) == {batch[i].type : i \in 1 .. Len(batch)}

\* Mutant: the batch need not end in the completion event.
KeepsAtomicBatch_OpenEnd(batch, contract) ==
  TypesOf(batch) \intersect contract.members # {} =>
    \A i \in 1 .. Len(batch) : batch[i].stream = batch[1].stream

\* A batch that touches an atomic contract is its members on one Stream
\* followed by exactly one completion event.
KeepsAtomicBatch(batch, contract) ==
  LET last == Len(batch) IN
    TypesOf(batch) \intersect (contract.members \union {contract.completion}) # {} =>
      /\ batch[last].type = contract.completion
      /\ \A i \in 1 .. last - 1 : batch[i].type \in contract.members
      /\ \A i \in 1 .. last : batch[i].stream = batch[last].stream

\* canonicalize and Publish: one Zone, no repeated EventID, whole atomic batches.
Publishable(batch) ==
  /\ batch # << >>
  /\ \A i, j \in 1 .. Len(batch) :
        /\ batch[i].zone = batch[j].zone
        /\ batch[i].id = batch[j].id => i = j
  /\ \A contract \in AtomicBatches : KeepsAtomicBatch(batch, contract)

-----------------------------------------------------------------------------
Init ==
  /\ rows = {}
  /\ positions = [k \in Consumers |-> [z \in Zones |-> [t \in EventTypes |-> 0]]]
  /\ writer = NoWriter
  /\ phase = [w \in Writers |-> "idle"]
  /\ draft = [w \in Writers |-> {}]
  /\ queue = [w \in Writers |-> << >>]

\* WithTx takes the mutex and begins an immediate transaction.
Begin(w) ==
  /\ phase[w] = "idle"
  /\ writer = NoWriter
  /\ writer' = w
  /\ phase' = [phase EXCEPT ![w] = "open"]
  /\ UNCHANGED <<rows, positions, draft, queue>>

\* Publisher.Publish inside the transaction: validate the whole batch first.
Publish(w, batch) ==
  /\ phase[w] = "open"
  /\ queue[w] = << >>
  /\ IF Publishable(batch)
       THEN queue' = [queue EXCEPT ![w] = batch] /\ UNCHANGED phase
       ELSE phase' = [phase EXCEPT ![w] = "failed"] /\ UNCHANGED queue
  /\ UNCHANGED <<rows, positions, writer, draft>>

\* Mutant: the EventID is not looked up.
AppendNew_Unchecked(w) ==
  /\ phase[w] = "open"
  /\ queue[w] # << >>
  /\ draft' = [draft EXCEPT ![w] = @ \union {NewRow(View(w), Head(queue[w]))}]
  /\ queue' = [queue EXCEPT ![w] = Tail(@)]
  /\ UNCHANGED <<rows, positions, writer, phase>>

\* One turn of the loop of Append, for an EventID no row has.
AppendNew(w) ==
  /\ phase[w] = "open"
  /\ queue[w] # << >>
  /\ \A e \in View(w) : e.id # Head(queue[w]).id
  /\ draft' = [draft EXCEPT ![w] = @ \union {NewRow(View(w), Head(queue[w]))}]
  /\ queue' = [queue EXCEPT ![w] = Tail(@)]
  /\ UNCHANGED <<rows, positions, writer, phase>>

\* The EventID is there already: the same event is skipped, another one is
\* ErrEventConflict.
AppendExisting(w) ==
  /\ phase[w] = "open"
  /\ queue[w] # << >>
  /\ \E e \in View(w) :
       /\ e.id = Head(queue[w]).id
       /\ IF SameEvent(e, Head(queue[w]))
            THEN queue' = [queue EXCEPT ![w] = Tail(@)] /\ UNCHANGED phase
            ELSE phase' = [phase EXCEPT ![w] = "failed"] /\ UNCHANGED queue
  /\ UNCHANGED <<rows, positions, writer, draft>>

\* WithTx returns: the write lock is released, nothing of w is left.
EndTx(w) ==
  /\ writer' = NoWriter
  /\ phase' = [phase EXCEPT ![w] = "idle"]
  /\ draft' = [draft EXCEPT ![w] = {}]
  /\ queue' = [queue EXCEPT ![w] = << >>]

\* The callback returned nil: COMMIT.
Commit(w) ==
  /\ phase[w] = "open"
  /\ queue[w] = << >>
  /\ rows' = rows \union draft[w]
  /\ EndTx(w)
  /\ UNCHANGED positions

\* The callback, a statement or the COMMIT failed, or the context was
\* cancelled: ROLLBACK.
Rollback(w) ==
  /\ phase[w] # "idle"
  /\ EndTx(w)
  /\ UNCHANGED <<rows, positions>>

\* The process dies; SQLite recovers the committed rows.
Crash ==
  /\ writer # NoWriter
  /\ writer' = NoWriter
  /\ phase' = [w \in Writers |-> "idle"]
  /\ draft' = [w \in Writers |-> {}]
  /\ queue' = [w \in Writers |-> << >>]
  /\ UNCHANGED <<rows, positions>>

\* Advance is one transaction of its own: check the head, then compare and set.
Advance(k, z, t, expected, position) ==
  /\ writer = NoWriter
  /\ position > expected
  /\ position <= TypePosition(rows, z, t)
  /\ positions[k][z][t] = expected
  /\ positions' = [positions EXCEPT ![k][z][t] = position]
  /\ UNCHANGED <<rows, writer, phase, draft, queue>>

Next ==
  \/ \E w \in Writers :
       \/ Begin(w)
       \/ \E batch \in Batches : Publish(w, batch)
       \/ AppendNew(w)
       \/ AppendExisting(w)
       \/ Commit(w)
       \/ Rollback(w)
  \/ Crash
  \/ \E k \in Consumers, z \in Zones, t \in EventTypes :
       \E expected, position \in 0 .. TypePosition(rows, z, t) + 1 :
         Advance(k, z, t, expected, position)

Spec == Init /\ [][Next]_vars

-----------------------------------------------------------------------------
(* Properties *)

TypeOK ==
  /\ rows \subseteq Rows
  /\ positions \in [Consumers -> [Zones -> [EventTypes -> Nat]]]
  /\ writer \in Writers \union {NoWriter}
  /\ phase \in [Writers -> {"idle", "open", "failed"}]
  /\ draft \in [Writers -> SUBSET Rows]
  /\ queue \in [Writers -> Seq(Proposals)]

\* No two rows share an EventID: event_id is the table's primary key, which
\* Append never runs into.
IdsUnique(view) == \A e, f \in view : e.id = f.id => e = f

\* Every EventType of a Zone is numbered 0, 1, 2, ... without gap or repeat.
TypesNumbered(view) ==
  /\ \A z \in Zones, t \in EventTypes :
       {e.sequence : e \in OfType(view, z, t)} = 0 .. TypePosition(view, z, t) - 1
  /\ \A e, f \in view :
       (e.zone = f.zone /\ e.type = f.type /\ e.sequence = f.sequence) => e = f

\* Every Stream of a Zone is numbered 1, 2, 3, ... without gap or repeat.
StreamsNumbered(view) ==
  /\ \A z \in Zones, s \in Streams :
       {e.streamSequence : e \in OfStream(view, z, s)}
         = 1 .. NextStreamSequence(view, z, s) - 1
  /\ \A e, f \in view :
       (/\ e.zone = f.zone
        /\ e.stream = f.stream
        /\ e.streamSequence = f.streamSequence) => e = f

(* A consumer position never points past the last committed event of its    *)
(* EventType, so no event can be appended behind a consumer (positions.go   *)
(* reads the head inside the transaction that moves the position).          *)
PositionsWithinLog ==
  \A k \in Consumers, z \in Zones, t \in EventTypes :
    positions[k][z][t] <= TypePosition(rows, z, t)

(* What readers find committed: identities and numbers that no interleaving *)
(* of writers, rollback or crash can make clash or skip, and no position    *)
(* beyond them.  A consumer that walks positions one by one relies on it: a *)
(* gap would stop it for good ("ended before Position",                     *)
(* journal/dispatcher.go:221).                                              *)
WellNumbered ==
  /\ IdsUnique(rows) /\ TypesNumbered(rows) /\ StreamsNumbered(rows)
  /\ PositionsWithinLog

(* An event that becomes readable always stands behind everything that was  *)
(* readable of its EventType and Stream before: no reader that has passed a *)
(* position misses an event committed late under a lower number.            *)
NoLateArrival ==
  [][\A e \in rows' \ rows :
       /\ e.sequence >= TypePosition(rows, e.zone, e.type)
       /\ e.streamSequence >= NextStreamSequence(rows, e.zone, e.stream)]_vars

(* A reader that sees a member of an atomic batch sees its completion in    *)
(* the same Stream (AtomicBatchContract, journal/registration.go:12-17).    *)
CompletionVisible ==
  \A contract \in AtomicBatches : \A e \in rows :
    e.type \in contract.members =>
      \E f \in OfStream(rows, e.zone, e.stream) : f.type = contract.completion

(* The committed rows, read by EventType, are the log the consumers are     *)
(* promised.                                                                *)
LogIn(view) ==
  [z \in Zones |-> [t \in EventTypes |->
    [i \in 1 .. TypePosition(view, z, t) |->
      CHOOSE e \in OfType(view, z, t) : e.sequence = i - 1]]]

Log == INSTANCE EventLog WITH log <- LogIn(rows)

ImplementsEventLog == Log!Spec
=============================================================================
