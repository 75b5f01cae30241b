------------------------------ MODULE Corpora ------------------------------
(***************************************************************************)
(* From recorded Documents to the Current Corpora of one Zone.  Document   *)
(* conversion saves a Text per Document; TextUnit creation writes its      *)
(* chunks into the building Corpora, one batch per transaction, after it   *)
(* has copied the Texts of the Child Zones; the vector consumer gives the  *)
(* building Corpora its vectors and activates it when no Text is half      *)
(* chunked.  Three goroutines, each reading its own EventType in order; a  *)
(* result commits before the position advances, so a stop in between       *)
(* delivers the event again.                                               *)
(***************************************************************************)
EXTENDS Naturals, Sequences, FiniteSetsExt

CONSTANTS
  Documents,     \* Documents that may be submitted here
  Children,      \* those of which a Child Zone may have a Text
  Batches,       \* Batches[d]: write batches the chunks of d's Text fill
  MaxRecorded,   \* bound on the DocumentRecorded events
  MaxCorpora,    \* bound on the Corpora begun
  MaxRestarts    \* bound on the process stops

VARIABLES
  recorded,      \* DocumentRecordedV1 events: documents
  prepared,      \* TextPreparedV1 events; the i-th answers the i-th record
  units,         \* TextUnitsPreparedV1 events: [source, corpora]
  converted, chunked, assembled,   \* positions of the three consumers
  boundary,      \* Documents with a Text in the accepted Corpora of the Children
  current,       \* Current Corpora, 0 before the first
  building,      \* Corpora being built, 0 when there is none
  spans,         \* spans[n][d]: batches of d's TextUnitSpans in Corpora n
  progress,      \* progress[d]: the row of text_chunking_progress
  vectors,       \* vectors[n][d]: batches with vectors in Namespace n
  vectored,      \* rows of corpus_text_vector_progress: <<corpora, document, event>>
  chunker,       \* TextUnit creation in memory
  assembler,     \* the vector consumer in memory
  restarts

journalVars == <<recorded, prepared, units>>
stateVars == <<current, building, spans, progress>>
vectorVars == <<vectors, vectored>>
vars == <<journalVars, converted, chunked, assembled, boundary, stateVars, vectorVars,
          chunker, assembler, restarts>>

Ids == 1 .. MaxCorpora
NoProgress == [source |-> 0, next |-> 0, completed |-> FALSE]
NoTexts == [d \in Documents |-> 0]
Idle == [at |-> "idle", corpora |-> 0, next |-> 0, left |-> {}]

Init ==
  /\ recorded = << >> /\ prepared = << >> /\ units = << >>
  /\ converted = 0 /\ chunked = 0 /\ assembled = 0
  /\ boundary = {}
  /\ current = 0 /\ building = 0
  /\ spans = [n \in Ids |-> NoTexts]
  /\ progress = [d \in Documents |-> NoProgress]
  /\ vectors = [n \in Ids |-> NoTexts]
  /\ vectored = {}
  /\ chunker = Idle /\ assembler = "idle"
  /\ restarts = 0

-----------------------------------------------------------------------------
(* Documents and Texts *)

\* What SubmitDocument commits: an event of its own per upload, also for
\* bytes the Zone knows already.
RecordDocument(d) ==
  /\ Len(recorded) < MaxRecorded
  /\ recorded' = Append(recorded, d)
  /\ UNCHANGED <<prepared, units, converted, chunked, assembled, boundary, stateVars,
                 vectorVars, chunker, assembler, restarts>>

\* PrepareText: the Text of the Document, found or extracted, is saved and
\* announced under an EventID made of the record's, so a second delivery
\* announces nothing new.
ConvertDocument ==
  /\ converted < Len(recorded)
  /\ Len(prepared) = converted
  /\ prepared' = Append(prepared, recorded[converted + 1])
  /\ UNCHANGED <<recorded, units, converted, chunked, assembled, boundary, stateVars,
                 vectorVars, chunker, assembler, restarts>>

AdvanceConversion ==
  /\ converted < Len(prepared)
  /\ converted' = converted + 1
  /\ UNCHANGED <<journalVars, chunked, assembled, boundary, stateVars, vectorVars,
                 chunker, assembler, restarts>>

-----------------------------------------------------------------------------
(* TextUnit creation *)

Source == chunked + 1
Chunking == prepared[Source]
Incomplete(d) == progress[d].source # 0 /\ ~progress[d].completed

\* BeginCorporaBuild: the Corpora being built, or the successor of the
\* Current one, filled with the spans of the Current one.
BuildId == IF building # 0 THEN building ELSE current + 1
Begun ==
  IF building # 0 \/ current = 0 THEN spans ELSE [spans EXCEPT ![BuildId] = spans[current]]

\* MergeChildCorpora of the Zones' merger: a later Corpora of a Child is
\* accepted; it has the Texts of the ones before (TextsWhole).
AcceptChildCorpora ==
  \E accepted \in SUBSET (Children \ boundary) :
    /\ accepted # {}
    /\ boundary' = boundary \union accepted
    /\ UNCHANGED <<journalVars, converted, chunked, assembled, stateVars, vectorVars,
                   chunker, assembler, restarts>>

\* A delivery begins with the boundaries of the Children, read once.
BeginDelivery ==
  /\ chunker.at = "idle"
  /\ chunked < Len(prepared)
  /\ chunker' = [at |-> "merging", corpora |-> 0, next |-> 0, left |-> boundary]
  /\ UNCHANGED <<journalVars, converted, chunked, assembled, boundary, stateVars,
                 vectorVars, assembler, restarts>>

\* SaveTextUnits: a Text that the boundaries had is copied in a transaction of
\* its own, without progress, unless the building Corpora has it.  One that is
\* there already begins the build all the same.
MergeTextUnits(d) ==
  /\ chunker.at = "merging"
  /\ d \in chunker.left
  /\ BuildId \in Ids
  /\ Begun[BuildId][d] \in {0, Batches[d]}
  /\ building' = BuildId
  /\ spans' = [Begun EXCEPT ![BuildId][d] = Batches[d]]
  /\ chunker' = [chunker EXCEPT !.left = @ \ {d}]
  /\ UNCHANGED <<journalVars, converted, chunked, assembled, boundary, current, progress,
                 vectorVars, assembler, restarts>>

\* One transaction: BeginCorporaBuild and OpenTextChunkingProgress.  An event
\* that has a row resumes where the row stands; another one clears what the
\* building Corpora has of its Text and starts at 0.  The insert is refused
\* while the Text has the row of another event.
OpenChunking ==
  LET row == progress[Chunking] IN
  /\ chunker.at = "merging"
  /\ chunker.left = {}
  /\ BuildId \in Ids
  /\ building' = BuildId
  /\ \/ /\ row.source = Source
        /\ spans' = Begun
        /\ progress' = progress
        /\ chunker' = [at |-> IF row.completed THEN "done" ELSE "writing",
                       corpora |-> BuildId, next |-> row.next, left |-> {}]
     \/ /\ row.source = 0
        /\ spans' = [Begun EXCEPT ![BuildId][Chunking] = 0]
        /\ progress' = [progress EXCEPT ![Chunking] = [NoProgress EXCEPT !.source = Source]]
        /\ chunker' = [at |-> "writing", corpora |-> BuildId, next |-> 0, left |-> {}]
  /\ UNCHANGED <<journalVars, converted, chunked, assembled, boundary, current, vectorVars,
                 assembler, restarts>>

\* SaveTextUnitBatch and AdvanceTextChunkingProgress of one transaction.  A
\* span that is there is inserted again in vain.
Writes(complete) ==
  /\ building = chunker.corpora
  /\ spans[building][Chunking] = chunker.next
  /\ progress[Chunking].next = chunker.next
  /\ spans' = [spans EXCEPT ![building][Chunking] = @ + 1]
  /\ progress' = [progress EXCEPT ![Chunking].next = @ + 1, ![Chunking].completed = complete]

WriteBatch ==
  /\ chunker.at = "writing"
  /\ chunker.next + 1 < Batches[Chunking]
  /\ Writes(FALSE)
  /\ chunker' = [chunker EXCEPT !.next = @ + 1]
  /\ UNCHANGED <<journalVars, converted, chunked, assembled, boundary, current, building,
                 vectorVars, assembler, restarts>>

\* The event TextUnitsPrepared has an EventID made of its source's.  The
\* Journal refuses the ID with another body: another Corpora.
Published(e) == \E k \in 1 .. Len(units) : units[k].source = e

\* The last batch completes the progress and announces the Text.
WriteFinal ==
  /\ chunker.at = "writing"
  /\ chunker.next + 1 = Batches[Chunking]
  /\ ~Published(Source)
  /\ Writes(TRUE)
  /\ units' = Append(units, [source |-> Source, corpora |-> building])
  /\ chunker' = [chunker EXCEPT !.at = "done", !.next = @ + 1]
  /\ UNCHANGED <<recorded, prepared, converted, chunked, assembled, boundary, current, building,
                 vectorVars, assembler, restarts>>

\* An error ends the delivery; a Retry delivers the event again.  Of a Text
\* that is merged the building Corpora has some chunks and not all, the Text of
\* the event has the row of another event, a batch is there already or its
\* Corpora is built no longer, or the Journal refuses the announcement.
FailChunking ==
  /\ \/ /\ chunker.at = "merging" /\ BuildId \in Ids
        /\ \/ \E d \in chunker.left : Begun[BuildId][d] \notin {0, Batches[d]}
           \/ chunker.left = {} /\ progress[Chunking].source \notin {0, Source}
     \/ /\ chunker.at = "writing"
        /\ \/ building # chunker.corpora
           \/ spans[chunker.corpora][Chunking] # chunker.next
           \/ chunker.next + 1 = Batches[Chunking] /\ Published(Source)
  /\ chunker' = Idle
  /\ UNCHANGED <<journalVars, converted, chunked, assembled, boundary, stateVars, vectorVars,
                 assembler, restarts>>

AdvanceChunking ==
  /\ chunker.at = "done"
  /\ chunked' = chunked + 1
  /\ chunker' = Idle
  /\ UNCHANGED <<journalVars, converted, assembled, boundary, stateVars, vectorVars,
                 assembler, restarts>>

-----------------------------------------------------------------------------
(* The vector consumer *)

Handled == units[assembled + 1]
HandledText == prepared[Handled.source]
HandledId == Handled.corpora

\* Build: the Corpora of the event must be readable and hold the Text as the
\* event counts it; vectors are built for all it holds by now, in the
\* Namespace of the Corpora.
BuildVectors ==
  /\ assembler = "idle"
  /\ assembled < Len(units)
  /\ HandledId <= current \/ HandledId = building
  /\ spans[HandledId][HandledText] = Batches[HandledText]
  /\ vectors' = [vectors EXCEPT ![HandledId] =
                   [d \in Documents |-> Max({@[d], spans[HandledId][d]})]]
  /\ assembler' = "built"
  /\ UNCHANGED <<journalVars, converted, chunked, assembled, boundary, stateVars, vectored,
                 chunker, restarts>>

\* RecordTextUnitVectors: one row per Text and Corpora, of one event.  The
\* Corpora is ready when no Text of the Zone is half chunked.
RecordVectors ==
  /\ assembler = "built"
  /\ \A row \in vectored :
       row[1] = HandledId /\ row[2] = HandledText => row[3] = assembled + 1
  /\ vectored' = vectored \cup {<<HandledId, HandledText, assembled + 1>>}
  /\ assembler' = IF (\E d \in Documents : Incomplete(d)) THEN "done" ELSE "ready"
  /\ UNCHANGED <<journalVars, converted, chunked, assembled, boundary, stateVars, vectors,
                 chunker, restarts>>

Done == assembler' = "done" /\ UNCHANGED stateVars
Fail == assembler' = "idle" /\ UNCHANGED stateVars

\* Mutant: the progress of the activated Corpora's Texts is kept.
Activate_KeepsProgress(n) ==
  /\ current' = n
  /\ building' = 0
  /\ UNCHANGED <<progress, spans>>
  /\ assembler' = "done"

\* Activate: the building Corpora becomes the Current one.
Activate(n) ==
  /\ current' = n
  /\ building' = 0
  /\ progress' = [d \in Documents |-> NoProgress]
  /\ spans' = spans
  /\ assembler' = "done"

\* Mutant: completion trusts the readiness read in the transaction before.
CompleteCorpora_Trusting ==
  /\ assembler = "ready"
  /\ IF current = HandledId THEN Done
     ELSE IF building = HandledId THEN Activate(HandledId) ELSE Fail
  /\ UNCHANGED <<journalVars, converted, chunked, assembled, boundary, vectorVars, chunker,
                 restarts>>

\* CompleteCorpora: FinalizeCorpora and Activate in one transaction, which
\* counts the half chunked Texts again.
CompleteCorpora ==
  /\ assembler = "ready"
  /\ \/ current = HandledId /\ Done
     \/ current # HandledId /\ building # HandledId /\ Fail
     \/ /\ current # HandledId /\ building = HandledId
        /\ \/ (\E d \in Documents : Incomplete(d)) /\ Fail
           \/ ~(\E d \in Documents : Incomplete(d)) /\ Activate(HandledId)
  /\ UNCHANGED <<journalVars, converted, chunked, assembled, boundary, vectorVars, chunker,
                 restarts>>

AdvanceAssembly ==
  /\ assembler = "done"
  /\ assembled' = assembled + 1
  /\ assembler' = "idle"
  /\ UNCHANGED <<journalVars, converted, chunked, boundary, stateVars, vectorVars, chunker,
                 restarts>>

-----------------------------------------------------------------------------

\* A process stop: what the consumers have in memory is gone.
Restart ==
  /\ restarts < MaxRestarts
  /\ restarts' = restarts + 1
  /\ chunker' = Idle
  /\ assembler' = "idle"
  /\ UNCHANGED <<journalVars, converted, chunked, assembled, boundary, stateVars, vectorVars>>

Convert == ConvertDocument \/ AdvanceConversion
Chunk ==
  \/ BeginDelivery
  \/ \E d \in Documents : MergeTextUnits(d)
  \/ OpenChunking \/ WriteBatch \/ WriteFinal \/ FailChunking \/ AdvanceChunking
Assemble == BuildVectors \/ RecordVectors \/ CompleteCorpora \/ AdvanceAssembly

Next ==
  \/ \E d \in Documents : RecordDocument(d)
  \/ AcceptChildCorpora
  \/ Convert
  \/ Chunk
  \/ Assemble
  \/ Restart

Spec == Init /\ [][Next]_vars

\* Every consumer goes on while it can: the dispatcher polls, and a failed
\* TextUnit creation is retried for as long as somebody asks for it.
Fairness == WF_vars(Convert) /\ WF_vars(Chunk) /\ WF_vars(Assemble)

FairSpec == Spec /\ Fairness

-----------------------------------------------------------------------------
(* Properties *)

Assumptions ==
  /\ Children \subseteq Documents
  /\ Batches \in [Documents -> Nat \ {0}]
  /\ MaxRecorded \in Nat
  /\ MaxCorpora \in Nat
  /\ MaxRestarts \in Nat

Progress == [source : 0 .. MaxRecorded, next : Nat, completed : BOOLEAN]

\* Types of the variables.
TypeOK ==
  /\ recorded \in Seq(Documents) /\ prepared \in Seq(Documents)
  /\ units \in Seq([source : 1 .. MaxRecorded, corpora : Ids])
  /\ converted \in 0 .. Len(recorded) /\ chunked \in 0 .. Len(prepared)
  /\ assembled \in 0 .. Len(units)
  /\ boundary \subseteq Children
  /\ current \in 0 .. MaxCorpora /\ building \in {0, current + 1}
  /\ spans \in [Ids -> [Documents -> Nat]]
  /\ progress \in [Documents -> Progress]
  /\ vectors \in [Ids -> [Documents -> Nat]]
  /\ vectored \subseteq Ids \X Documents \X (1 .. MaxRecorded)
  /\ chunker \in [at : {"idle", "merging", "writing", "done"}, corpora : 0 .. MaxCorpora,
                  next : Nat, left : SUBSET boundary]
  /\ assembler \in {"idle", "built", "ready", "done"}
  /\ restarts \in 0 .. MaxRestarts

\* An activated Corpora holds every Text it holds with all of its chunks, and
\* every Text the Corpora before it held.
TextsWhole ==
  \A n \in 1 .. current, d \in Documents :
    /\ spans[n][d] \in {0, Batches[d]}
    /\ n > 1 /\ spans[n - 1][d] > 0 => spans[n][d] > 0

\* A Text announced for an activated Corpora is in it, and once the vector
\* consumer has passed every event of a Corpora the Corpora is activated with
\* vectors for all of its chunks.  A Text merged from a Child between the
\* vectors and the activation of a Corpora has its vectors in the next one only.
AnnouncedFor(d, n) ==
  \E k \in 1 .. Len(units) : units[k].corpora = n /\ prepared[units[k].source] = d

VectorsWhole ==
  /\ \A k \in 1 .. Len(units) :
       units[k].corpora <= current => spans[units[k].corpora][prepared[units[k].source]] > 0
  /\ \A n \in 1 .. current :
       (\A k \in assembled + 1 .. Len(units) : units[k].corpora # n) =>
         \A d \in Documents :
           \/ vectors[n][d] = spans[n][d]
           \/ vectors[n][d] = 0 /\ d \in boundary /\ ~AnnouncedFor(d, n)

\* The Text was merged from a Child after its progress was opened and before
\* its first batch was stored.
MergedOver(d) ==
  /\ d \in boundary
  /\ progress[d].next = 0 /\ ~progress[d].completed
  /\ spans[building][d] = Batches[d]

\* Progress counts what is written of the Text in the building Corpora, so a
\* resumed event skips no chunk and writes none twice, except where a Child has
\* the Text too and a delivery that failed was repeated.
ProgressExact ==
  \A d \in Documents : progress[d].source # 0 =>
    /\ building # 0
    /\ spans[building][d] = progress[d].next \/ MergedOver(d)

\* A Corpora is whole when it becomes Current, although its chunks, their
\* progress and their vectors are written in transactions of two consumers
\* that stop and start in between (text_unit_preparation.go, corpora_assembly.go).
CorporaWhole == TextsWhole /\ VectorsWhole /\ ProgressExact

\* "NextChunkIndex is the number of ordered chunks already committed"
\* (text_unit_preparation.go:20), without the exception.
ChunksCommitted ==
  \A d \in Documents : progress[d].source # 0 => spans[building][d] = progress[d].next

\* TextUnit creation is stranded: its event was announced for a Corpora that
\* has been activated since, so that a delivery repeated after a stop writes
\* the Text once more, for the next Corpora, and cannot announce it.
Stranded ==
  /\ chunked < Len(prepared)
  /\ chunker.at # "done"
  /\ Published(Source)
  /\ \A k \in 1 .. Len(units) : units[k].source = Source => units[k].corpora <= current

\* The chunking of d cannot be resumed: a Child has the Text too, and the
\* delivery that opened its progress is over.  The next one either finds some of
\* its chunks where it merges all of them, or merges all and then finds those in
\* the way of its first batch.
Unresumable(d) ==
  /\ d \in boundary
  /\ Incomplete(d)
  /\ \/ spans[building][d] # progress[d].next
     \/ chunker.at = "idle"
     \/ chunker.at = "merging" /\ d \in chunker.left

Blocked == Stranded \/ \E d \in Documents : Unresumable(d)

InCurrent(e) == \E k \in 1 .. Len(units) : units[k].source = e /\ units[k].corpora <= current

\* Every recorded Document gets into a Current Corpora, or the consumer of the
\* Texts is blocked for ever behind a repeated delivery.  A record stays
\* recorded, so the first is Len(recorded) >= e ~> InCurrent(e).
EventuallyCurrent ==
  \/ \A e \in 1 .. MaxRecorded : []<>(Len(recorded) >= e => InCurrent(e))
  \/ <>[]Blocked
=============================================================================
