----------------------------- MODULE CorpusStore -----------------------------
(***************************************************************************)
(* How Documents, Texts, TextUnits and Corpora are written: statement      *)
(* groups one after another in the write transactions of uploads, of the   *)
(* three consumers of module Corpora, of the merge of a Child's Corpora    *)
(* and of the Message Log, over the tables of module CorpusRows.  SQLite   *)
(* admits one write transaction at a time; whatever fails inside it, or a  *)
(* stop of the process, undoes everything since BEGIN.                     *)
(*                                                                         *)
(* Module Corpora says what this promises: each transaction as one step.   *)
(* A Document is known by its digest; a Child Zone has stored and chunked  *)
(* those of Children, and stored the Texts of all in Known, before, which  *)
(* keeps nobody from uploading them here.                                  *)
(***************************************************************************)
EXTENDS CorpusRows

CONSTANTS
  Documents, Children, MaxRecorded, MaxCorpora, MaxRestarts,  \* as in Corpora
  Chunks,      \* Chunks[d]: the TextUnits that the Text of d is divided into
  Warned,      \* Warned[d]: the warnings of its extraction
  Known,       \* Documents whose Text a Child Zone has stored
  BatchSize,   \* textUnitWriteBatchSize
  MessageLists,  \* what may be appended to the Message Log: <<[id, text], ...>>
  MaxCalls,    \* bound on the recorded Documents and the appends together
  Idle         \* no write transaction is open

VARIABLES
  tables,      \* what is committed
  tx,          \* the open write transaction: its tables, and what it does next
  answered,    \* what callers of Append were told
  appends,     \* appends begun
  recorded, prepared, units, converted, chunked, assembled, vectors, chunker, assembler, restarts

storeVars == <<tables, tx, answered, appends>>
otherVars == <<recorded, prepared, units, converted, chunked, assembled, vectors, chunker,
               assembler, restarts>>

Home == "home"
Child == "child"

Batched(count) == (count + BatchSize - 1) \div BatchSize

\* A new UUID.
NewID(rows) == CHOOSE n \in 1 .. (Cardinality(rows) + 1) : \A row \in rows : row.id # n

-----------------------------------------------------------------------------
(* What the rows stand for in Corpora. *)

DigestOf(t, text) ==
  LET document == (CHOOSE row \in StoredText(t, text) : TRUE).document
  IN (CHOOSE row \in StoredDocument(t, document) : TRUE).digest

\* The Text of a Document, or none.
TextsOf(t, d) ==
  LET ids == {row.id : row \in DocumentByDigest(t, d)}
  IN {row.id : row \in {row \in t.texts : row.document \in ids}}
TextOf(t, d) == CHOOSE id \in TextsOf(t, d) : TRUE

\* Batches of each Document's spans in each Corpora.
BatchesOf(t) ==
  LET ids == [d \in Documents |-> TextsOf(t, d)]
      rows == In(Home, t.spans)
  IN [n \in 1 .. MaxCorpora |-> [d \in Documents |->
       Batched(Cardinality({row \in rows : row.corpora = n /\ row.text \in ids[d]}))]]

RowsOfProgress(t, d) ==
  LET ids == TextsOf(t, d) IN {row \in In(Home, t.progress) : row.text \in ids}

\* mergeCorpora: the Texts of the accepted Corpora.
ChildTexts ==
  UNION {DOMAIN LoadedCorpora(tables, Child, id) :
           id \in {id \in Boundary(tables, Home, Child) : Readable(tables, Child, id)}}

C == INSTANCE Corpora WITH
  Batches <- [d \in Documents |-> Batched(Len(Chunks[d]))],
  boundary <- {DigestOf(tables, id) : id \in ChildTexts},
  current <- CorpusState(tables, Home).current,
  building <- CorpusState(tables, Home).building,
  spans <- BatchesOf(tables),
  progress <- [d \in Documents |->
    IF RowsOfProgress(tables, d) = {} THEN [source |-> 0, next |-> 0, completed |-> FALSE]
    ELSE LET row == CHOOSE row \in RowsOfProgress(tables, d) : TRUE
         IN [source |-> row.source, next |-> Batched(row.next), completed |-> row.completed]],
  vectored <- {<<row.corpora, DigestOf(tables, row.text), row.source>> : row \in In(Home, tables.vectored)}

\* A Child Zone with a Current Corpora of its own.
ChildTables ==
  [NoTables EXCEPT
    !.documents = {[id |-> d, digest |-> d, location |-> d] : d \in Known},
    !.zoneDocuments = {[zone |-> Child, document |-> d] : d \in Known},
    !.texts = {[id |-> d, document |-> d, body |-> Chunks[d]] : d \in Known},
    !.localTexts = {[zone |-> Child, text |-> d] : d \in Known},
    !.warnings = UNION {{[text |-> d, position |-> i - 1, warning |-> Warned[d][i]] :
                           i \in DOMAIN Warned[d]} : d \in Known},
    !.units = UNION {{[zone |-> Child, id |-> u, text |-> u] : u \in ToSet(Chunks[d])} : d \in Children},
    !.spans = UNION {{[zone |-> Child, corpora |-> 1, text |-> d, at |-> i, unit |-> Chunks[d][i]] :
                        i \in DOMAIN Chunks[d]} : d \in Children},
    !.state = {[zone |-> Child, current |-> 1, building |-> NotBuilding, prepared |-> FALSE]}]

Init ==
  /\ tables = ChildTables
  /\ tx = Idle
  /\ answered = {}
  /\ appends = 0
  /\ C!Init

\* Steps of which the tables know nothing; the vectors are built of what the
\* Corpora of the event holds, if that can be read.
Elsewhere ==
  /\ UNCHANGED storeVars
  /\ \/ C!AdvanceConversion
     \/ C!BeginDelivery
     \/ C!AdvanceChunking
     \/ C!BuildVectors /\ CorporaLoads(tables, Home, units[assembled + 1].corpora)
     \/ C!AdvanceAssembly

-----------------------------------------------------------------------------
(* Transactions *)

\* BEGIN IMMEDIATE and the first statement group.
Begin(owner, about, t, next) ==
  /\ tx = Idle
  /\ tx' = [owner |-> owner, about |-> about, tables |-> t, next |-> next, at |-> 1]
  /\ UNCHANGED <<tables, answered, appends, otherVars>>

Continue(owner, at, t, next) ==
  /\ tx # Idle
  /\ tx.owner = owner
  /\ tx.next = at
  /\ tx' = [tx EXCEPT !.tables = t, !.next = next]
  /\ UNCHANGED <<tables, answered, appends, otherVars>>

Commit(owner) ==
  /\ tx # Idle
  /\ tx.owner = owner
  /\ tx.next = "commit"
  /\ tables' = tx.tables
  /\ tx' = Idle

\* An error or a cancelled context: ROLLBACK.  An error of the consumers that
\* write and complete a Corpora ends their delivery: it is taken together with
\* Stop, which does no more to it.
Rollback ==
  /\ tx # Idle
  /\ tx.owner \notin {"merge units", "chunking", "chunks", "vectors", "completion"}
  /\ tx' = Idle
  /\ UNCHANGED <<tables, answered, appends, otherVars>>

\* The process stops; SQLite rolls back what it finds open.
Stop ==
  /\ tx' = Idle
  /\ UNCHANGED <<tables, answered, appends>>
  /\ C!Restart

-----------------------------------------------------------------------------
(* Documents *)

\* The Document as an upload or a registration prepares it, in its Location.
Prepared(d) == [id |-> NewID(tables.documents), digest |-> d, location |-> d]

\* RegisterDocument stores a Document that no Zone has selected.
Register(d) ==
  /\ DocumentByDigest(tables, d) = {}
  /\ Begin("registration", d, SavedDocument(tables, Prepared(d)), "commit")

CommitRegistration ==
  /\ Commit("registration")
  /\ UNCHANGED <<answered, appends, otherVars>>

\* SubmitDocument: Record, Associate and the event in one transaction.
RecordUpload(d) ==
  /\ Len(recorded) < MaxRecorded
  /\ Len(recorded) + appends < MaxCalls
  /\ Begin("upload", d, SavedDocument(tables, Prepared(d)), "associate")

AssociateUpload ==
  /\ Continue("upload", "associate",
       AssociatedDocument(tx.tables, Home,
         (CHOOSE row \in DocumentByDigest(tx.tables, tx.about) : TRUE).id), "commit")
  /\ DocumentByDigest(tx.tables, tx.about) # {}

CommitUpload ==
  /\ Commit("upload")
  /\ recorded' = Append(recorded, tx.about)
  /\ UNCHANGED <<answered, appends, prepared, units, converted, chunked, assembled, vectors,
                 chunker, assembler, restarts>>

-----------------------------------------------------------------------------
(* Texts *)

\* Prepare: the Text of the Zone, or what is extracted, under a new ID.
PreparedText(t, d, document) ==
  LET found == FindText(t, Home, document) IN
  IF found # {} THEN RestoredText(t, CHOOSE row \in found : TRUE)
  ELSE [id |-> NewID(t.texts), document |-> document, body |-> Chunks[d], warnings |-> Warned[d]]

SaveText ==
  LET d == recorded[converted + 1] IN
  /\ converted < Len(recorded)
  /\ Len(prepared) = converted
  /\ \E row \in DocumentByDigest(tables, d) :
       LET value == PreparedText(tables, d, row.id) IN
       /\ TextAccepted(tables, Home, value)
       /\ Begin("text", TextAs(tables, value).id, SavedText(tables, value), "local")

MarkLocalText == Continue("text", "local", MarkedLocal(tx.tables, Home, tx.about), "commit")

CommitText ==
  /\ Commit("text")
  /\ prepared' = Append(prepared, DigestOf(tx.tables, tx.about))
  /\ UNCHANGED <<answered, appends, recorded, units, converted, chunked, assembled, vectors,
                 chunker, assembler, restarts>>

-----------------------------------------------------------------------------
(* The Corpora of a Child *)

\* MergeChildCorpora: the boundary moves to a later Corpora of the Child only.
AcceptChild ==
  LET id == CorpusState(tables, Child).current IN
  /\ \A accepted \in Boundary(tables, Home, Child) : id > accepted
  /\ Begin("boundary", id, SavedBoundary(tables, Home, Child, id), "commit")

\* saveText: the Document is recorded, which it is, and associated, and then
\* its Text is saved, each in a transaction of its own.
MergeDocument(id) ==
  /\ id \in ChildTexts
  /\ TextLoads(tables, Child, id)
  /\ LET document == LoadedText(tables, id).document IN
     /\ GetDocument(tables, Home, document) = {}
     /\ Begin("merge", id, AssociatedDocument(tables, Home, document), "commit")

MergeText(id) ==
  /\ id \in ChildTexts
  /\ TextLoads(tables, Child, id)
  /\ LET value == LoadedText(tables, id) IN
     /\ ~IsLocal(tables, Home, id)
     /\ TextAccepted(tables, Home, value)
     /\ Begin("merge", id, MarkedLocal(SavedText(tables, value), Home, id), "commit")

CommitMerge ==
  /\ Commit("boundary") \/ Commit("merge")
  /\ UNCHANGED <<answered, appends, otherVars>>

-----------------------------------------------------------------------------
(* The building Corpora *)

\* BeginCorporaBuild: a build is started, if there is none, and filled.
BeginBuild(owner, about) ==
  LET ensured == EnsuredState(tables, Home)
      state == CorpusState(ensured, Home)
  IN /\ chunker.at = "merging"
     /\ state.building = NotBuilding => state.current < MaxCorpora
     /\ Begin(owner, about, StartedBuild(ensured, Home),
              IF state.building = NotBuilding /\ state.current > 0 THEN "copy" ELSE "open")

CopySpans(owner) ==
  LET state == CorpusState(tx.tables, Home) IN
  Continue(owner, "copy", CopiedSpans(tx.tables, Home, state.current, state.building), "open")

BuildingID == CorpusState(tx.tables, Home).building

\* One TextUnit and its span; the last one is followed by the group after.
AddUnit(owner, text, body, last, after) ==
  LET id == BuildingID IN
  /\ tx.at <= last
  /\ UnitAccepted(tx.tables, Home, body[tx.at])
  /\ SpanAccepted(tx.tables, Home, id, text, tx.at)
  /\ ContentValid(LoadedText(tx.tables, text).body, tx.at, body[tx.at])
  /\ tx.next = "units"
  /\ tx.owner = owner
  /\ tx' = [tx EXCEPT !.at = @ + 1, !.next = IF tx.at = last THEN after ELSE "units",
              !.tables = AddedSpan(SavedUnit(@, Home, body[tx.at]), Home, id, text, tx.at, body[tx.at])]
  /\ UNCHANGED <<tables, answered, appends, otherVars>>

\* SaveTextUnits of the merge of a Child: its TextUnits, unless the same ones
\* are in the building Corpora already.
BeginMergeUnits(id) ==
  /\ DigestOf(tables, id) \in chunker.left
  /\ IsLocal(tables, Home, id)
  /\ BeginBuild("merge units", id)

SourceUnits == ChunkedText(tx.tables, Child, 1, tx.about)
TargetUnits == ChunkedText(tx.tables, Home, BuildingID, tx.about)

OpenMergeUnits ==
  /\ tx # Idle
  /\ tx.owner = "merge units"
  /\ TextLoads(tx.tables, Home, tx.about)
  /\ TargetUnits \in {<< >>, SourceUnits}
  /\ Continue("merge units", "open", tx.tables, IF TargetUnits = << >> THEN "units" ELSE "commit")

MergeUnit ==
  /\ tx # Idle
  /\ tx.owner = "merge units"
  /\ AddUnit("merge units", tx.about, SourceUnits, Len(SourceUnits), "commit")

CommitMergeUnits ==
  /\ Commit("merge units")
  /\ chunker' = [chunker EXCEPT !.left = @ \ {DigestOf(tx.tables, tx.about)}]
  /\ UNCHANGED <<answered, appends, recorded, prepared, units, converted, chunked, assembled,
                 vectors, assembler, restarts>>

\* PrepareTextUnits: OpenTextChunkingProgress of the event's Text.
Source == chunked + 1
BeginChunking ==
  /\ chunker.left = {}
  /\ BeginBuild("chunking", IF Source <= Len(prepared) THEN TextOf(tables, prepared[Source]) ELSE 0)

ResumeProgress ==
  /\ tx # Idle
  /\ Continue("chunking", "open", tx.tables, "commit")
  /\ \E row \in ProgressBySource(tx.tables, Home, Source) : row.text = tx.about

CreateProgress ==
  /\ tx # Idle
  /\ Continue("chunking", "open",
       CreatedProgress(ClearedSpans(tx.tables, Home, BuildingID, tx.about), Home, Source, tx.about), "commit")
  /\ IsBuilding(tx.tables, Home, BuildingID)
  /\ ProgressCreatable(tx.tables, Home, Source, tx.about)

CommitChunking ==
  /\ Commit("chunking")
  /\ \E row \in ProgressBySource(tx.tables, Home, Source) :
       chunker' = [at |-> IF row.completed THEN "done" ELSE "writing",
                   corpora |-> BuildingID, next |-> Batched(row.next), left |-> {}]
  /\ UNCHANGED <<answered, appends, recorded, prepared, units, converted, chunked, assembled,
                 vectors, assembler, restarts>>

\* SaveTextUnitBatch and AdvanceTextChunkingProgress, in memory after `done'
\* chunks; the last batch announces the Text in the same transaction.
Chunking == prepared[Source]
Written == chunker.next * BatchSize
BatchEnd == Min({Written + BatchSize, Len(Chunks[Chunking])})
LastBatch == BatchEnd = Len(Chunks[Chunking])

BeginBatch ==
  /\ chunker.at = "writing"
  /\ IsBuilding(tables, Home, chunker.corpora)
  /\ TextLoads(tables, Home, TextOf(tables, Chunking))
  /\ tx = Idle
  /\ tx' = [owner |-> "chunks", about |-> TextOf(tables, Chunking), tables |-> tables,
            next |-> "units", at |-> Written + 1]
  /\ UNCHANGED <<tables, answered, appends, otherVars>>

WriteUnit ==
  /\ tx # Idle
  /\ tx.owner = "chunks"
  /\ AddUnit("chunks", tx.about, Chunks[Chunking], BatchEnd, "advance")

AdvanceProgress ==
  /\ Continue("chunks", "advance",
       AdvancedProgress(tx.tables, Home, tx.about, Written, BatchEnd, LastBatch), "commit")
  /\ Advanceable(tx.tables, Home, tx.about, Written) # {}

Announced == \E k \in DOMAIN units : units[k].source = Source

CommitBatch ==
  /\ Commit("chunks")
  /\ IF LastBatch
     THEN ~Announced /\ units' = Append(units, [source |-> Source, corpora |-> BuildingID])
     ELSE UNCHANGED units
  /\ chunker' = [chunker EXCEPT !.at = IF LastBatch THEN "done" ELSE @, !.next = @ + 1]
  /\ UNCHANGED <<answered, appends, recorded, prepared, converted, chunked, assembled, vectors,
                 assembler, restarts>>

\* A Text that is merged is there in part, the Text of the event has the row of
\* another event, the Corpora has been activated, a range is there already, or
\* the Journal refuses the event.
RefuseChunking ==
  /\ \/ tx = Idle /\ chunker.at = "writing" /\ ~IsBuilding(tables, Home, chunker.corpora)
     \/ /\ tx # Idle /\ tx.owner = "merge units" /\ tx.next = "open"
        /\ TargetUnits \notin {<< >>, SourceUnits}
     \/ /\ tx # Idle /\ tx.owner = "chunking" /\ tx.next = "open"
        /\ ProgressBySource(tx.tables, Home, Source) = {}
        /\ ~ProgressCreatable(tx.tables, Home, Source, tx.about)
     \/ /\ tx # Idle /\ tx.owner = "chunks" /\ tx.next = "units"
        /\ ~SpanAccepted(tx.tables, Home, BuildingID, tx.about, tx.at)
     \/ tx # Idle /\ tx.owner = "chunks" /\ tx.next = "commit" /\ LastBatch /\ Announced
  /\ tx' = Idle
  /\ UNCHANGED <<tables, answered, appends>>
  /\ C!FailChunking

-----------------------------------------------------------------------------
(* Vectors and completion *)

Handled == units[assembled + 1]

RecordVectors ==
  /\ assembler = "built"
  /\ LET text == TextOf(tables, prepared[Handled.source])
         t == RecordedVectors(tables, Home, Handled.corpora, text, assembled + 1)
     IN /\ VectoredBy(t, Home, Handled.corpora, text) = {assembled + 1}
        /\ Begin("vectors", text, t, "commit")

CommitVectors ==
  /\ Commit("vectors")
  /\ assembler' = IF /\ IncompleteChunking(tx.tables, Home) = {}
                     /\ CountTextUnitSpans(tx.tables, Home, Handled.corpora) > 0
                  THEN "ready" ELSE "done"
  /\ UNCHANGED <<answered, appends, recorded, prepared, units, converted, chunked, assembled,
                 vectors, chunker, restarts>>

\* FinalizeCorpora
Finalize ==
  /\ assembler = "ready"
  /\ CorpusState(tables, Home).current # Handled.corpora
  /\ IsBuilding(tables, Home, Handled.corpora)
  /\ IncompleteChunking(tables, Home) = {}
  /\ CountCorporaTexts(tables, Home, Handled.corpora) > 0
  /\ CorporaLoads(tables, Home, Handled.corpora)
  /\ Begin("completion", 0, MarkedPrepared(tables, Home, Handled.corpora), "activate")

ActivateCorpus ==
  /\ Continue("completion", "activate", ActivatedCorpus(tx.tables, Home, Handled.corpora), "clear")
  /\ Readable(tx.tables, Home, Handled.corpora)

\* Mutant: the progress of the activated Corpora's Texts is kept.
ClearProgress_Kept == Continue("completion", "clear", tx.tables, "commit")

ClearProgress == Continue("completion", "clear", ClearedProgress(tx.tables, Home), "commit")

CommitCompletion ==
  /\ Commit("completion")
  /\ assembler' = "done"
  /\ UNCHANGED <<answered, appends, recorded, prepared, units, converted, chunked, assembled,
                 vectors, chunker, restarts>>

\* The Corpora is Current already, or there is nothing to complete.
NoCompletion ==
  /\ tx = Idle
  /\ UNCHANGED storeVars
  /\ C!CompleteCorpora

-----------------------------------------------------------------------------
(* Messages *)

MissingMessages(t, list) ==
  SelectSeq(list, LAMBDA message : MessagesWithID(t, Home, {message.id}) = {})

SameMessages(t, list) ==
  \A message \in ToSet(list) :
    \A row \in MessagesWithID(t, Home, {message.id}) : row.unit = message.text

BeginAppend(list) ==
  /\ Len(recorded) + appends < MaxCalls
  /\ SameMessages(tables, list)
  /\ tx = Idle
  /\ appends' = appends + 1
  /\ tx' = [owner |-> "messages", about |-> list, tables |-> tables, next |-> "messages", at |-> 1]
  /\ UNCHANGED <<tables, answered, otherVars>>

\* The next Message that is missing, at the next Position.
InsertMessage ==
  /\ tx # Idle
  /\ tx.owner = "messages"
  /\ MissingMessages(tx.tables, tx.about) # << >>
  /\ LET message == Head(MissingMessages(tx.tables, tx.about))
         position == NextPosition(tx.tables, Home)
     IN /\ UnitAccepted(tx.tables, Home, message.text)
        /\ MessageAccepted(tx.tables, Home, message.id, position)
        /\ Continue("messages", "messages",
             SavedMessage(SavedUnit(tx.tables, Home, message.text), Home, message.id, position,
                          message.text), "messages")

CommitAppend ==
  /\ tx # Idle
  /\ tx.owner = "messages"
  /\ MissingMessages(tx.tables, tx.about) = << >>
  /\ tables' = tx.tables
  /\ tx' = Idle
  /\ answered' = answered \union
       ToSet(Occurrences(MessagesWithID(tx.tables, Home, {m.id : m \in ToSet(tx.about)})))
  /\ UNCHANGED <<appends, otherVars>>

-----------------------------------------------------------------------------
Next ==
  \/ Elsewhere
  \/ \E d \in Documents : Register(d) \/ RecordUpload(d)
  \/ CommitRegistration \/ AssociateUpload \/ CommitUpload
  \/ SaveText \/ MarkLocalText \/ CommitText
  \/ AcceptChild
  \/ \E id \in {row.id : row \in tables.texts} : MergeDocument(id) \/ MergeText(id) \/ BeginMergeUnits(id)
  \/ CommitMerge \/ OpenMergeUnits \/ MergeUnit \/ CommitMergeUnits
  \/ CopySpans("merge units") \/ CopySpans("chunking")
  \/ BeginChunking \/ ResumeProgress \/ CreateProgress \/ CommitChunking
  \/ BeginBatch \/ WriteUnit \/ AdvanceProgress \/ CommitBatch \/ RefuseChunking
  \/ RecordVectors \/ CommitVectors
  \/ Finalize \/ ActivateCorpus \/ ClearProgress \/ CommitCompletion \/ NoCompletion
  \/ \E list \in MessageLists : BeginAppend(list)
  \/ InsertMessage \/ CommitAppend
  \/ Rollback
  \/ Stop

Spec == Init /\ [][Next]_<<storeVars, otherVars>>

-----------------------------------------------------------------------------
(* Properties *)

StepOfCorpora == UNCHANGED <<tables, otherVars>> \/ UNCHANGED C!vars \/ C!Next

\* Each transaction takes effect as one step of Corpora, or as none.
ImplementsCorpora == C!Init /\ [][StepOfCorpora]_<<storeVars, otherVars>>

\* All pages of a list, of one row each, after another.
Paged(page(_, _), count) == [i \in 1 .. count |-> page(i - 1, 1).rows[1]]

\* A digest and a Location name one Document and a Document one Text; what a
\* Zone has selected is stored, its Texts can be read with their warnings, and
\* lists show all of it, page by page.
DocumentsWhole ==
  /\ \A x, y \in tables.documents : (x.digest = y.digest \/ x.location = y.location) => x = y
  /\ \A x, y \in tables.texts : x.document = y.document => x = y
  /\ \A row \in tables.zoneDocuments : StoredDocument(tables, row.document) # {}
  /\ \A row \in tables.localTexts :
       /\ TextLoads(tables, row.zone, row.text)
       /\ LET text == LoadedText(tables, row.text)
              d == DigestOf(tables, row.text)
          IN text.body = Chunks[d] /\ text.warnings = Warned[d]
  /\ LET documents == ZoneDocuments(tables, Home)
         listed(offset, limit) == DocumentsPage(tables, Home, offset, limit)
         browsed(offset, limit) == BrowsedPage(tables, Home, offset, limit)
         texts_(offset, limit) == TextsPage(tables, Home, offset, limit)
         all == Paged(browsed, Cardinality(tables.documents))
     IN /\ ToSet(Paged(listed, Cardinality(documents))) = documents
        /\ {row.id : row \in ToSet(all)} = {row.id : row \in tables.documents}
        /\ {row.id : row \in {row \in ToSet(all) : row.selected}} = {row.id : row \in documents}
        /\ ToSet(Paged(texts_, CountTexts(tables, Home))) = LocalTexts(tables, Home)

\* Every activated Corpora can be read and has its Texts whole, in order, and
\* those of the Corpora before it; the one that is built has beginnings.  The
\* lookup finds the TextUnits of activated Corpora and no others, and each one
\* where it is.
CorporaReadable ==
  LET state == CorpusState(tables, Home)
      all == {row.id : row \in In(Home, tables.units)}
      activated == 1 .. state.current
  IN /\ \A n \in activated :
          LET content == LoadedCorpora(tables, Home, n) IN
          /\ CorporaLoads(tables, Home, n)
          /\ \A text \in DOMAIN content : content[text] = Chunks[DigestOf(tables, text)]
          /\ n > 1 => DOMAIN LoadedCorpora(tables, Home, n - 1) \subseteq DOMAIN content
          /\ {[text |-> place.text, at |-> place.at] : place \in Locations(tables, Home, n, all)} =
               {[text |-> row.text, at |-> row.at] : row \in SpanRows(tables, Home, n)}
     /\ \A row \in SpanRows(tables, Home, state.building) :
          IsPrefix(ChunkedText(tables, Home, state.building, row.text), Chunks[DigestOf(tables, row.text)])
     /\ {row.id : row \in UnitsBefore(tables, Home, all)} =
          UNION {{row.unit : row \in SpanRows(tables, Home, n)} : n \in activated}

\* Messages are numbered without a gap, can be read, and stay as the callers
\* that appended them were told.
MessagesKept ==
  LET rows == In(Home, tables.messages) IN
  /\ {row.position : row \in rows} = {i - 1 : i \in 1 .. Cardinality(rows)}
  /\ MessagesWithID(tables, Home, {row.id : row \in rows}) = rows
  /\ answered \subseteq ToSet(Occurrences(rows))

\* All that holds of the committed tables, which no open transaction changes.
CorpusSound == tx = Idle => DocumentsWhole /\ CorporaReadable /\ MessagesKept
=============================================================================
