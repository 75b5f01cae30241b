---------------------------- MODULE CorpusProofs ----------------------------
(***************************************************************************)
(* Proofs about the Journal and the Corpus for any values of the constants.*)
(* Journal.tla: what the open transaction reads - committed rows and its   *)
(* own - is well numbered, and nobody but the holder of the write lock has *)
(* anything to commit.                                                     *)
(* Documents.tla: that the content of a recorded Document is never         *)
(* discarded rests on who may record or reuse a path while an upload can   *)
(* still remove it: nobody, as long as the upload holds the mutex.         *)
(* Corpora.tla: that a Corpora is whole when it becomes Current rests on   *)
(* what the rows of the progress, the announced events and the vectors say *)
(* of each other at every step of the two consumers.                       *)
(***************************************************************************)
EXTENDS Services, SequenceTheorems, TLAPS

-----------------------------------------------------------------------------
(* Journal *)

\* Rows whose identities and numbers are in order.
Sound(view) ==
  /\ view \subseteq Rows
  /\ \A z \in Zones, t \in EventTypes : TypePosition(view, z, t) \in Nat
  /\ \A z \in Zones, s \in Streams : NextStreamSequence(view, z, s) \in Nat \ {0}
  /\ IdsUnique(view)
  /\ TypesNumbered(view)
  /\ StreamsNumbered(view)

\* Only the writer inside WithTx has a transaction.
OneWriter ==
  \A w \in Writers :
    IF w = writer
      THEN phase[w] # "idle"
      ELSE phase[w] = "idle" /\ draft[w] = {} /\ queue[w] = << >>

IInv ==
  /\ TypeOK
  /\ OneWriter
  /\ Sound(rows)
  /\ writer # NoWriter => Sound(View(writer))
  /\ PositionsWithinLog

-----------------------------------------------------------------------------
(* The numbers MAX + 1 hands out *)

\* The largest number of 0 .. n is n.
LEMMA MaxOfInterval ==
  ASSUME NEW n \in Nat
  PROVE  Max(0 .. n) = n
BY DEF Max

\* With no rows at all the next numbers are 0 and 1.
LEMMA EmptySound == Sound({})
<1>1. \A z \in Zones, t \in EventTypes : TypePosition({}, z, t) = 0
  <2>1. SUFFICES ASSUME NEW z \in Zones, NEW t \in EventTypes
                 PROVE  TypePosition({}, z, t) = 0
    OBVIOUS
  <2>2. {0} \union {e.sequence + 1 : e \in OfType({}, z, t)} = 0 .. 0
    BY DEF OfType
  <2>3. QED BY <2>2, MaxOfInterval DEF TypePosition
<1>2. \A z \in Zones, s \in Streams : NextStreamSequence({}, z, s) = 1
  <2>1. SUFFICES ASSUME NEW z \in Zones, NEW s \in Streams
                 PROVE  NextStreamSequence({}, z, s) = 1
    OBVIOUS
  <2>2. {0} \union {e.streamSequence : e \in OfStream({}, z, s)} = 0 .. 0
    BY DEF OfStream
  <2>3. Max({0} \union {e.streamSequence : e \in OfStream({}, z, s)}) = 0
    BY <2>2, MaxOfInterval
  <2>4. QED BY <2>3 DEF NextStreamSequence
<1>3. TypesNumbered({})
  BY <1>1 DEF TypesNumbered, OfType
<1>4. StreamsNumbered({})
  BY <1>2 DEF StreamsNumbered, OfStream
<1>5. QED BY <1>1, <1>2, <1>3, <1>4 DEF Sound, IdsUnique

\* Fewer rows of an EventType have a lower next number.
LEMMA PositionMonotone ==
  ASSUME NEW V, NEW W, V \subseteq W, Sound(V), Sound(W),
         NEW z \in Zones, NEW t \in EventTypes
  PROVE  TypePosition(V, z, t) <= TypePosition(W, z, t)
<1>1. {e.sequence : e \in OfType(V, z, t)} \subseteq {e.sequence : e \in OfType(W, z, t)}
  BY DEF OfType
<1>2. 0 .. TypePosition(V, z, t) - 1 \subseteq 0 .. TypePosition(W, z, t) - 1
  BY <1>1 DEF Sound, TypesNumbered
<1>3. TypePosition(V, z, t) \in Nat /\ TypePosition(W, z, t) \in Nat
  BY DEF Sound
<1>4. QED
  <2>1. CASE TypePosition(V, z, t) = 0
    BY <2>1, <1>3
  <2>2. CASE TypePosition(V, z, t) > 0
    <3>1. TypePosition(V, z, t) - 1 \in 0 .. TypePosition(V, z, t) - 1
      BY <2>2, <1>3
    <3>2. TypePosition(V, z, t) - 1 \in 0 .. TypePosition(W, z, t) - 1
      BY <3>1, <1>2
    <3>3. QED BY <3>2, <1>3
  <2>3. QED BY <2>1, <2>2, <1>3

\* An appended row takes the next number of its EventType and leaves those of
\* the others.
LEMMA InsertTypePosition ==
  ASSUME NEW V, Sound(V), NEW p \in Proposals,
         NEW z \in Zones, NEW t \in EventTypes
  PROVE  TypePosition(V \union {NewRow(V, p)}, z, t) =
           IF p.zone = z /\ p.type = t THEN TypePosition(V, z, t) + 1
                                       ELSE TypePosition(V, z, t)
<1> DEFINE r == NewRow(V, p)
           W == V \union {r}
<1>1. r.zone = p.zone /\ r.type = p.type /\ r.sequence = TypePosition(V, p.zone, p.type)
  BY DEF NewRow
<1>2. CASE ~(p.zone = z /\ p.type = t)
  <2>1. OfType(W, z, t) = OfType(V, z, t)
    BY <1>1, <1>2 DEF OfType
  <2>2. QED BY <2>1, <1>2 DEF TypePosition
<1>3. CASE p.zone = z /\ p.type = t
  <2> DEFINE n == TypePosition(V, z, t)
  <2>1. n \in Nat
    BY DEF Sound
  <2>2. OfType(W, z, t) = OfType(V, z, t) \union {r}
    BY <1>1, <1>3 DEF OfType
  <2>3. {e.sequence : e \in OfType(V, z, t)} = 0 .. n - 1
    BY DEF Sound, TypesNumbered
  <2>4. \A e \in OfType(V, z, t) : e.sequence \in Nat
    BY DEF Sound, OfType, Rows
  <2>5. {0} \union {e.sequence + 1 : e \in OfType(W, z, t)} = 0 .. n + 1
    <3>1. ASSUME NEW x \in {0} \union {e.sequence + 1 : e \in OfType(W, z, t)}
          PROVE  x \in 0 .. n + 1
      <4>1. CASE x = 0
        BY <4>1, <2>1
      <4>2. CASE x # 0
        <5>1. PICK e \in OfType(W, z, t) : x = e.sequence + 1
          BY <3>1, <4>2
        <5>2. CASE e = r
          BY <5>1, <5>2, <1>1, <1>3, <2>1
        <5>3. CASE e \in OfType(V, z, t)
          BY <5>1, <5>3, <2>3, <2>1
        <5>4. QED BY <5>2, <5>3, <2>2
      <4>3. QED BY <4>1, <4>2
    <3>2. ASSUME NEW x \in 0 .. n + 1
          PROVE  x \in {0} \union {e.sequence + 1 : e \in OfType(W, z, t)}
      <4>1. CASE x = 0
        BY <4>1
      <4>2. CASE x = n + 1
        <5>1. r \in OfType(W, z, t) /\ r.sequence = n
          BY <2>2, <1>1, <1>3
        <5>2. QED BY <5>1, <4>2
      <4>3. CASE x \in 1 .. n
        <5>1. x - 1 \in 0 .. n - 1
          BY <4>3, <2>1
        <5>2. PICK e \in OfType(V, z, t) : e.sequence = x - 1
          BY <5>1, <2>3
        <5>3. x = e.sequence + 1
          BY <5>2, <4>3, <2>1
        <5>4. QED BY <5>3, <2>2
      <4>4. x = 0 \/ x = n + 1 \/ x \in 1 .. n
        BY <3>2, <2>1
      <4>5. QED BY <4>1, <4>2, <4>3, <4>4
    <3>3. QED BY <3>1, <3>2
  <2>6. Max(0 .. n + 1) = n + 1
    BY <2>1, MaxOfInterval
  <2>7. TypePosition(W, z, t) = n + 1
    BY <2>5, <2>6 DEF TypePosition
  <2>8. QED BY <2>7, <1>3
<1>4. QED BY <1>2, <1>3

LEMMA IntervalGrows ==
  /\ \A n \in Nat : (0 .. n - 1) \union {n} = 0 .. (n + 1) - 1
  /\ \A n \in Nat \ {0} : (1 .. n - 1) \union {n} = 1 .. (n + 1) - 1
OBVIOUS

\* The EventType numbers of a set with one row more.
LEMMA InsertedSequences ==
  ASSUME NEW A, NEW r
  PROVE  {e.sequence : e \in A \union {r}} = {e.sequence : e \in A} \union {r.sequence}
OBVIOUS

\* The Stream numbers of a set with one row more.
LEMMA InsertedStreamSequences ==
  ASSUME NEW A, NEW r
  PROVE  {e.streamSequence : e \in A \union {r}}
         = {e.streamSequence : e \in A} \union {r.streamSequence}
OBVIOUS

\* The same for the numbers of its Stream.
LEMMA InsertStreamSequence ==
  ASSUME NEW V, Sound(V), NEW p \in Proposals,
         NEW z \in Zones, NEW s \in Streams
  PROVE  NextStreamSequence(V \union {NewRow(V, p)}, z, s) =
           IF p.zone = z /\ p.stream = s THEN NextStreamSequence(V, z, s) + 1
                                         ELSE NextStreamSequence(V, z, s)
<1> DEFINE r == NewRow(V, p)
           W == V \union {r}
<1>1. /\ r.zone = p.zone
      /\ r.stream = p.stream
      /\ r.streamSequence = NextStreamSequence(V, p.zone, p.stream)
  BY DEF NewRow
<1>2. CASE ~(p.zone = z /\ p.stream = s)
  <2>1. OfStream(W, z, s) = OfStream(V, z, s)
    BY <1>1, <1>2 DEF OfStream
  <2>2. QED BY <2>1, <1>2 DEF NextStreamSequence
<1>3. CASE p.zone = z /\ p.stream = s
  <2> DEFINE n == NextStreamSequence(V, z, s)
  <2>1. n \in Nat \ {0}
    BY DEF Sound
  <2>2. OfStream(W, z, s) = OfStream(V, z, s) \union {r}
    BY <1>1, <1>3 DEF OfStream
  <2>3. {e.streamSequence : e \in OfStream(V, z, s)} = 1 .. n - 1
    BY DEF Sound, StreamsNumbered
  <2>4. r.streamSequence = n
    BY <1>1, <1>3
  <2>5. {e.streamSequence : e \in OfStream(W, z, s)}
        = {e.streamSequence : e \in OfStream(V, z, s)} \union {n}
    BY <2>2, <2>4, InsertedStreamSequences
  <2>6. {0} \union (1 .. n - 1) \union {n} = 0 .. n
    BY <2>1
  <2>7. {0} \union {e.streamSequence : e \in OfStream(W, z, s)} = 0 .. n
    BY <2>3, <2>5, <2>6
  <2>8. Max(0 .. n) = n
    BY <2>1, MaxOfInterval
  <2>9. NextStreamSequence(W, z, s) = 1 + n
    BY <2>7, <2>8 DEF NextStreamSequence
  <2>10. QED BY <2>9, <2>1, <1>3
<1>4. QED BY <1>2, <1>3

\* What Append relies on: a row with a fresh EventID keeps the numbering.
LEMMA InsertSound ==
  ASSUME NEW V, Sound(V), NEW p \in Proposals, \A e \in V : e.id # p.id
  PROVE  Sound(V \union {NewRow(V, p)})
<1> DEFINE r == NewRow(V, p)
           W == V \union {r}
<1>1. p.zone \in Zones /\ p.type \in EventTypes /\ p.stream \in Streams
  BY DEF Proposals
<1>2. TypePosition(V, p.zone, p.type) \in Nat /\ NextStreamSequence(V, p.zone, p.stream) \in Nat \ {0}
  BY <1>1 DEF Sound
<1>3. r \in Rows
  BY <1>1, <1>2 DEF NewRow, Rows, Proposals
<1>4. /\ r.id = p.id
      /\ r.zone = p.zone /\ r.type = p.type /\ r.stream = p.stream
      /\ r.sequence = TypePosition(V, p.zone, p.type)
      /\ r.streamSequence = NextStreamSequence(V, p.zone, p.stream)
  BY DEF NewRow
<1>5. W \subseteq Rows
  BY <1>3 DEF Sound
<1>6. \A z \in Zones, t \in EventTypes : TypePosition(W, z, t) \in Nat
  <2>1. SUFFICES ASSUME NEW z \in Zones, NEW t \in EventTypes
                 PROVE  TypePosition(W, z, t) \in Nat
    OBVIOUS
  <2>2. TypePosition(V, z, t) \in Nat
    BY DEF Sound
  <2>3. QED BY <2>2, InsertTypePosition
<1>7. \A z \in Zones, s \in Streams : NextStreamSequence(W, z, s) \in Nat \ {0}
  <2>1. SUFFICES ASSUME NEW z \in Zones, NEW s \in Streams
                 PROVE  NextStreamSequence(W, z, s) \in Nat \ {0}
    OBVIOUS
  <2>2. NextStreamSequence(V, z, s) \in Nat \ {0}
    BY DEF Sound
  <2>3. QED BY <2>2, InsertStreamSequence
<1>8. IdsUnique(W)
  BY <1>4 DEF Sound, IdsUnique
<1>9. TypesNumbered(W)
  <2>1. ASSUME NEW z \in Zones, NEW t \in EventTypes
        PROVE  {e.sequence : e \in OfType(W, z, t)} = 0 .. TypePosition(W, z, t) - 1
    <3>1. TypePosition(V, z, t) \in Nat
      BY DEF Sound
    <3>2. {e.sequence : e \in OfType(V, z, t)} = 0 .. TypePosition(V, z, t) - 1
      BY DEF Sound, TypesNumbered
    <3>3. CASE p.zone = z /\ p.type = t
      <4>1. OfType(W, z, t) = OfType(V, z, t) \union {r}
        BY <1>4, <3>3 DEF OfType
      <4>2. {e.sequence : e \in OfType(W, z, t)}
            = {e.sequence : e \in OfType(V, z, t)} \union {TypePosition(V, z, t)}
        <5>1. {e.sequence : e \in OfType(W, z, t)}
              = {e.sequence : e \in OfType(V, z, t)} \union {r.sequence}
          <6> HIDE DEF r, W
          <6>1. QED BY <4>1, InsertedSequences
        <5>2. r.sequence = TypePosition(V, z, t)
          BY <1>4, <3>3
        <5>3. QED BY <5>1, <5>2
      <4>3. TypePosition(W, z, t) = TypePosition(V, z, t) + 1
        BY <3>3, InsertTypePosition
      <4>4. QED BY <3>1, <3>2, <4>2, <4>3, IntervalGrows
    <3>4. CASE ~(p.zone = z /\ p.type = t)
      <4>1. OfType(W, z, t) = OfType(V, z, t)
        BY <1>4, <3>4 DEF OfType
      <4>2. TypePosition(W, z, t) = TypePosition(V, z, t)
        BY <3>4, InsertTypePosition
      <4>3. QED BY <3>2, <4>1, <4>2
    <3>5. QED BY <3>3, <3>4
  <2>2. ASSUME NEW e \in V, e.zone = p.zone, e.type = p.type
        PROVE  e.sequence # r.sequence
    <3>1. e.sequence \in 0 .. TypePosition(V, p.zone, p.type) - 1
      BY <2>2, <1>1 DEF Sound, TypesNumbered, OfType
    <3>2. QED BY <3>1, <1>2, <1>4
  <2>3. \A e, f \in W :
          (e.zone = f.zone /\ e.type = f.type /\ e.sequence = f.sequence) => e = f
    BY <2>2, <1>4 DEF Sound, TypesNumbered
  <2>4. QED BY <2>1, <2>3 DEF TypesNumbered
<1>10. StreamsNumbered(W)
  <2>1. ASSUME NEW z \in Zones, NEW s \in Streams
        PROVE  {e.streamSequence : e \in OfStream(W, z, s)} = 1 .. NextStreamSequence(W, z, s) - 1
    <3>1. NextStreamSequence(V, z, s) \in Nat \ {0}
      BY DEF Sound
    <3>2. {e.streamSequence : e \in OfStream(V, z, s)} = 1 .. NextStreamSequence(V, z, s) - 1
      BY DEF Sound, StreamsNumbered
    <3>3. CASE p.zone = z /\ p.stream = s
      <4>1. OfStream(W, z, s) = OfStream(V, z, s) \union {r}
        BY <1>4, <3>3 DEF OfStream
      <4>2. {e.streamSequence : e \in OfStream(W, z, s)}
            = {e.streamSequence : e \in OfStream(V, z, s)} \union {NextStreamSequence(V, z, s)}
        <5>1. {e.streamSequence : e \in OfStream(W, z, s)}
              = {e.streamSequence : e \in OfStream(V, z, s)} \union {r.streamSequence}
          <6> HIDE DEF r, W
          <6>1. QED BY <4>1, InsertedStreamSequences
        <5>2. r.streamSequence = NextStreamSequence(V, z, s)
          BY <1>4, <3>3
        <5>3. QED BY <5>1, <5>2
      <4>3. NextStreamSequence(W, z, s) = NextStreamSequence(V, z, s) + 1
        BY <3>3, InsertStreamSequence
      <4>4. QED BY <3>1, <3>2, <4>2, <4>3, IntervalGrows
    <3>4. CASE ~(p.zone = z /\ p.stream = s)
      <4>1. OfStream(W, z, s) = OfStream(V, z, s)
        BY <1>4, <3>4 DEF OfStream
      <4>2. NextStreamSequence(W, z, s) = NextStreamSequence(V, z, s)
        BY <3>4, InsertStreamSequence
      <4>3. QED BY <3>2, <4>1, <4>2
    <3>5. QED BY <3>3, <3>4
  <2>2. ASSUME NEW e \in V, e.zone = p.zone, e.stream = p.stream
        PROVE  e.streamSequence # r.streamSequence
    <3>1. e.streamSequence \in 1 .. NextStreamSequence(V, p.zone, p.stream) - 1
      BY <2>2, <1>1 DEF Sound, StreamsNumbered, OfStream
    <3>2. QED BY <3>1, <1>2, <1>4
  <2>3. \A e, f \in W :
          (/\ e.zone = f.zone
           /\ e.stream = f.stream
           /\ e.streamSequence = f.streamSequence) => e = f
    BY <2>2, <1>4 DEF Sound, StreamsNumbered
  <2>4. QED BY <2>1, <2>3 DEF StreamsNumbered
<1>11. QED BY <1>5, <1>6, <1>7, <1>8, <1>9, <1>10 DEF Sound

-----------------------------------------------------------------------------
(* The inductive invariant *)

LEMMA InitIInv == Init => IInv
<1> SUFFICES ASSUME Init PROVE IInv
  OBVIOUS
<1>1. TypeOK
  BY DEF Init, TypeOK
<1>2. OneWriter
  BY NoWriterAssumption DEF Init, OneWriter
<1>3. Sound(rows) /\ writer = NoWriter
  BY EmptySound DEF Init
<1>4. PositionsWithinLog
  <2>1. ASSUME NEW k \in Consumers, NEW z \in Zones, NEW t \in EventTypes
        PROVE  positions[k][z][t] <= TypePosition(rows, z, t)
    <3>1. positions[k][z][t] = 0
      BY DEF Init
    <3>2. TypePosition(rows, z, t) \in Nat
      BY <1>3 DEF Sound
    <3>3. QED BY <3>1, <3>2
  <2>2. QED BY <2>1 DEF PositionsWithinLog
<1>5. QED BY <1>1, <1>2, <1>3, <1>4 DEF IInv

\* WithTx ends without a COMMIT : nothing readable has changed.
LEMMA ReleaseIInv ==
  ASSUME IInv, NEW w \in Writers, EndTx(w), phase[w] # "idle",
         UNCHANGED <<rows, positions>>
  PROVE  IInv'
<1>1. TypeOK'
  BY DEF IInv, TypeOK, EndTx
<1>2. w = writer
  BY DEF IInv, OneWriter
<1>3. OneWriter'
  BY <1>2, NoWriterAssumption DEF IInv, OneWriter, EndTx, TypeOK
<1>4. Sound(rows)' /\ PositionsWithinLog'
  BY DEF IInv, PositionsWithinLog
<1>5. writer' = NoWriter
  BY DEF EndTx
<1>6. QED BY <1>1, <1>3, <1>4, <1>5 DEF IInv

LEMMA CommitIInv ==
  ASSUME IInv, NEW w \in Writers, Commit(w)
  PROVE  IInv'
<1>1. w = writer /\ writer # NoWriter
  BY NoWriterAssumption DEF IInv, OneWriter, Commit
<1>2. rows' = View(w) /\ UNCHANGED positions /\ writer' = NoWriter
  BY DEF Commit, EndTx, View
<1>3. TypeOK'
  BY DEF IInv, TypeOK, Commit, EndTx
<1>4. OneWriter'
  BY <1>1, NoWriterAssumption DEF IInv, OneWriter, Commit, EndTx, TypeOK
<1>5. Sound(View(w)) /\ Sound(rows)
  BY <1>1 DEF IInv
<1>6. Sound(rows)'
  BY <1>2, <1>5
<1>7. PositionsWithinLog'
  <2>1. ASSUME NEW k \in Consumers, NEW z \in Zones, NEW t \in EventTypes
        PROVE  positions'[k][z][t] <= TypePosition(rows', z, t)
    <3>1. positions[k][z][t] <= TypePosition(rows, z, t) /\ positions[k][z][t] \in Nat
      BY DEF IInv, PositionsWithinLog, TypeOK
    <3>2. TypePosition(rows, z, t) <= TypePosition(View(w), z, t)
      BY <1>5, PositionMonotone DEF View
    <3>3. TypePosition(rows, z, t) \in Nat /\ TypePosition(View(w), z, t) \in Nat
      BY <1>5 DEF Sound
    <3>4. QED BY <3>1, <3>2, <3>3, <1>2
  <2>2. QED BY <2>1 DEF PositionsWithinLog
<1>8. QED BY <1>2, <1>3, <1>4, <1>6, <1>7 DEF IInv

LEMMA AppendNewIInv ==
  ASSUME IInv, NEW w \in Writers, AppendNew(w)
  PROVE  IInv'
<1>1. w = writer /\ writer # NoWriter
  BY NoWriterAssumption DEF IInv, OneWriter, AppendNew
<1>2. queue[w] \in Seq(Proposals) /\ queue[w] # << >>
  BY DEF IInv, TypeOK, AppendNew
<1>3. Head(queue[w]) \in Proposals /\ Tail(queue[w]) \in Seq(Proposals)
  BY <1>2
<1> DEFINE p == Head(queue[w])
           r == NewRow(View(w), p)
<1>4. Sound(View(w))
  BY <1>1 DEF IInv
<1>5. \A e \in View(w) : e.id # p.id
  BY DEF AppendNew
<1>6. Sound(View(w) \union {r})
  BY <1>3, <1>4, <1>5, InsertSound
<1>7. View(w)' = View(w) \union {r}
  BY DEF AppendNew, View, IInv, TypeOK
<1>8. r \in Rows
  BY <1>6 DEF Sound
<1>9. TypeOK'
  BY <1>3, <1>8 DEF IInv, TypeOK, AppendNew
<1>10. OneWriter'
  BY <1>1 DEF IInv, OneWriter, AppendNew, TypeOK
<1>11. UNCHANGED <<rows, positions, writer>>
  BY DEF AppendNew
<1>12. Sound(rows)' /\ PositionsWithinLog'
  BY <1>11 DEF IInv, PositionsWithinLog
<1>13. Sound(View(writer))'
  BY <1>1, <1>6, <1>7, <1>11
<1>14. QED BY <1>9, <1>10, <1>12, <1>13 DEF IInv

\* The steps that leave rows, drafts and positions alone.
LEMMA QuietIInv ==
  ASSUME IInv, TypeOK', OneWriter',
         UNCHANGED <<rows, positions, draft>>,
         writer' = writer \/ (writer = NoWriter /\ draft[writer'] = {})
  PROVE  IInv'
<1>1. Sound(rows)' /\ PositionsWithinLog'
  BY DEF IInv, PositionsWithinLog
<1>2. ASSUME writer' # NoWriter PROVE Sound(View(writer))'
  <2>1. CASE writer' = writer
    <3>1. View(writer)' = View(writer)
      BY <2>1 DEF View
    <3>2. Sound(View(writer))
      BY <1>2, <2>1 DEF IInv
    <3>3. QED BY <3>1, <3>2
  <2>2. CASE draft[writer'] = {}
    <3>1. View(writer)' = rows
      BY <2>2 DEF View
    <3>2. Sound(rows)
      BY DEF IInv
    <3>3. QED BY <3>1, <3>2
  <2>3. QED BY <2>1, <2>2
<1>3. QED BY <1>1, <1>2 DEF IInv

LEMMA NextIInv == IInv /\ [Next]_vars => IInv'
<1> SUFFICES ASSUME IInv, [Next]_vars PROVE IInv'
  OBVIOUS
<1>1. ASSUME NEW w \in Writers, Begin(w) PROVE IInv'
  <2>1. TypeOK'
    BY <1>1 DEF IInv, TypeOK, Begin
  <2>2. OneWriter'
    BY <1>1, NoWriterAssumption DEF IInv, OneWriter, Begin, TypeOK
  <2>3. writer' = w /\ draft[w] = {}
    BY <1>1, NoWriterAssumption DEF IInv, OneWriter, Begin
  <2>4. UNCHANGED <<rows, positions, draft>> /\ writer = NoWriter
    BY <1>1 DEF Begin
  <2>5. QED BY <2>1, <2>2, <2>3, <2>4, QuietIInv
<1>2. ASSUME NEW w \in Writers, NEW batch \in Batches, Publish(w, batch) PROVE IInv'
  <2>1. TypeOK'
    BY <1>2, BatchesAssumption DEF IInv, TypeOK, Publish
  <2>2. w = writer
    BY <1>2 DEF IInv, OneWriter, Publish
  <2>3. OneWriter'
    BY <1>2, <2>2 DEF IInv, OneWriter, Publish, TypeOK
  <2>4. UNCHANGED <<rows, positions, draft, writer>>
    BY <1>2 DEF Publish
  <2>5. QED BY <2>1, <2>3, <2>4, QuietIInv
<1>3. ASSUME NEW w \in Writers, AppendExisting(w) PROVE IInv'
  <2>1. queue[w] \in Seq(Proposals) /\ queue[w] # << >>
    BY <1>3 DEF IInv, TypeOK, AppendExisting
  <2>2. Tail(queue[w]) \in Seq(Proposals)
    BY <2>1
  <2>3. TypeOK'
    BY <1>3, <2>2 DEF IInv, TypeOK, AppendExisting
  <2>4. w = writer
    BY <1>3 DEF IInv, OneWriter, AppendExisting
  <2>5. OneWriter'
    BY <1>3, <2>4 DEF IInv, OneWriter, AppendExisting, TypeOK
  <2>6. UNCHANGED <<rows, positions, draft, writer>>
    BY <1>3 DEF AppendExisting
  <2>7. QED BY <2>3, <2>5, <2>6, QuietIInv
<1>4. ASSUME NEW w \in Writers, Rollback(w) PROVE IInv'
  BY <1>4, ReleaseIInv DEF Rollback
<1>5. ASSUME Crash PROVE IInv'
  <2>1. TypeOK' /\ OneWriter'
    BY <1>5, NoWriterAssumption DEF IInv, TypeOK, OneWriter, Crash
  <2>2. Sound(rows)' /\ PositionsWithinLog' /\ writer' = NoWriter
    BY <1>5 DEF IInv, PositionsWithinLog, Crash
  <2>3. QED BY <2>1, <2>2 DEF IInv
<1>6. ASSUME NEW k \in Consumers, NEW z \in Zones, NEW t \in EventTypes,
             NEW expected \in 0 .. TypePosition(rows, z, t) + 1,
             NEW position \in 0 .. TypePosition(rows, z, t) + 1,
             Advance(k, z, t, expected, position)
      PROVE  IInv'
  <2>1. TypePosition(rows, z, t) \in Nat
    BY DEF IInv, Sound
  <2>2. position \in Nat /\ position <= TypePosition(rows, z, t)
    BY <1>6, <2>1 DEF Advance
  <2>3. TypeOK'
    BY <1>6, <2>2 DEF IInv, TypeOK, Advance
  <2>4. OneWriter' /\ Sound(rows)' /\ writer' = NoWriter
    BY <1>6 DEF IInv, OneWriter, Advance
  <2>5. PositionsWithinLog'
    BY <1>6, <2>2 DEF IInv, TypeOK, PositionsWithinLog, Advance
  <2>6. QED BY <2>3, <2>4, <2>5 DEF IInv
<1>7. ASSUME UNCHANGED vars PROVE IInv'
  <2>1. TypeOK' /\ OneWriter' /\ UNCHANGED <<rows, positions, draft, writer>>
    BY <1>7 DEF IInv, TypeOK, OneWriter, vars
  <2>2. QED BY <2>1, QuietIInv
<1>8. QED
  BY <1>1, <1>2, <1>3, <1>4, <1>5, <1>6, <1>7, AppendNewIInv, CommitIInv DEF Next

LEMMA Invariance == Spec => []IInv
<1>1. QED BY InitIInv, NextIInv, PTL DEF Spec

\* The type invariant of the store.
THEOREM TypeCorrect == Spec => []TypeOK
<1>1. IInv => TypeOK
  BY DEF IInv
<1>2. QED BY <1>1, Invariance, PTL

\* Whatever the interleaving of writers, rollbacks and crashes, committed
\* events have distinct identities and gapless numbers: Append's MAX + 1 under
\* the write lock behaves like a sequence.
THEOREM NumberingCorrect == Spec => []WellNumbered
<1>1. IInv => WellNumbered
  BY DEF IInv, Sound, WellNumbered
<1>2. QED BY <1>1, Invariance, PTL

\* No consumer position runs ahead of the committed log.
THEOREM PositionsCorrect == Spec => []PositionsWithinLog
<1>1. IInv => PositionsWithinLog
  BY DEF IInv
<1>2. QED BY <1>1, Invariance, PTL

\* A number of W outside V's rows is not one of V's numbers.
LEMMA LateRow ==
  ASSUME NEW V, NEW W, V \subseteq W, Sound(V), Sound(W), NEW e \in W \ V
  PROVE  /\ e.sequence >= TypePosition(V, e.zone, e.type)
         /\ e.streamSequence >= NextStreamSequence(V, e.zone, e.stream)
<1>1. e \in Rows
  BY DEF Sound
<1>2. /\ e.zone \in Zones /\ e.type \in EventTypes /\ e.stream \in Streams
      /\ e.sequence \in Nat /\ e.streamSequence \in Nat \ {0}
  BY <1>1 DEF Rows
<1>3. e.sequence >= TypePosition(V, e.zone, e.type)
  <2>1. SUFFICES ASSUME e.sequence < TypePosition(V, e.zone, e.type) PROVE FALSE
    BY <1>2 DEF Sound
  <2>2. e.sequence \in 0 .. TypePosition(V, e.zone, e.type) - 1
    BY <2>1, <1>2 DEF Sound
  <2>3. PICK f \in OfType(V, e.zone, e.type) : f.sequence = e.sequence
    BY <2>2, <1>2 DEF Sound, TypesNumbered
  <2>4. QED BY <2>3 DEF Sound, TypesNumbered, OfType
<1>4. e.streamSequence >= NextStreamSequence(V, e.zone, e.stream)
  <2>1. SUFFICES ASSUME e.streamSequence < NextStreamSequence(V, e.zone, e.stream) PROVE FALSE
    BY <1>2 DEF Sound
  <2>2. e.streamSequence \in 1 .. NextStreamSequence(V, e.zone, e.stream) - 1
    BY <2>1, <1>2 DEF Sound
  <2>3. PICK f \in OfStream(V, e.zone, e.stream) : f.streamSequence = e.streamSequence
    BY <2>2, <1>2 DEF Sound, StreamsNumbered
  <2>4. QED BY <2>3 DEF Sound, StreamsNumbered, OfStream
<1>5. QED BY <1>3, <1>4

\* An event never becomes readable behind a position a reader has passed.
THEOREM NoLateArrivalCorrect == Spec => NoLateArrival
<1>1. IInv /\ [Next]_vars =>
        [\A e \in rows' \ rows :
           /\ e.sequence >= TypePosition(rows, e.zone, e.type)
           /\ e.streamSequence >= NextStreamSequence(rows, e.zone, e.stream)]_vars
  <2>1. SUFFICES ASSUME IInv, [Next]_vars, NEW e \in rows' \ rows
                 PROVE  /\ e.sequence >= TypePosition(rows, e.zone, e.type)
                        /\ e.streamSequence >= NextStreamSequence(rows, e.zone, e.stream)
    OBVIOUS
  <2>2. rows \subseteq rows'
    BY <2>1 DEF Next, vars, Begin, Publish, AppendNew, AppendExisting, Commit, Rollback, Crash, Advance
  <2>3. Sound(rows) /\ Sound(rows')
    BY <2>1, NextIInv DEF IInv
  <2>4. QED BY <2>2, <2>3, LateRow
<1>2. QED BY <1>1, Invariance, PTL DEF Spec, NoLateArrival

-----------------------------------------------------------------------------
(* The Journal implements the event log *)

\* Place i of a log holds the one row numbered i - 1.
LEMMA LogEntry ==
  ASSUME NEW V, Sound(V), NEW z \in Zones, NEW t \in EventTypes,
         NEW i \in 1 .. TypePosition(V, z, t)
  PROVE  /\ LogIn(V)[z][t][i] \in OfType(V, z, t)
         /\ LogIn(V)[z][t][i].sequence = i - 1
<1>1. TypePosition(V, z, t) \in Nat
  BY DEF Sound
<1>2. i - 1 \in 0 .. TypePosition(V, z, t) - 1
  BY <1>1
<1>3. PICK e \in OfType(V, z, t) : e.sequence = i - 1
  BY <1>2 DEF Sound, TypesNumbered
<1>4. LogIn(V)[z][t][i] = CHOOSE f \in OfType(V, z, t) : f.sequence = i - 1
  BY DEF LogIn
<1>5. QED BY <1>3, <1>4

LEMMA LogLength ==
  ASSUME NEW V, Sound(V), NEW z \in Zones, NEW t \in EventTypes
  PROVE  Len(LogIn(V)[z][t]) = TypePosition(V, z, t)
<1>1. TypePosition(V, z, t) \in Nat
  BY DEF Sound
<1>2. LogIn(V)[z][t] = [i \in 1 .. TypePosition(V, z, t) |->
                          CHOOSE e \in OfType(V, z, t) : e.sequence = i - 1]
  BY DEF LogIn
<1> DEFINE l == LogIn(V)[z][t]
           n == TypePosition(V, z, t)
<1>3. \A i \in 1 .. n : l[i] \in Rows
  BY LogEntry DEF OfType, Sound
<1>4. l \in [1 .. n -> Rows]
  <2> DEFINE entry(i) == CHOOSE e \in OfType(V, z, t) : e.sequence = i - 1
  <2>1. l = [i \in 1 .. n |-> entry(i)]
    BY <1>2
  <2> HIDE DEF l, n, entry
  <2>2. QED BY <2>1, <1>3
<1> HIDE DEF l, n
<1>5. l \in Seq(Rows)
  BY <1>1, <1>4, SeqDef DEF n
<1>6. DOMAIN l = 1 .. Len(l) /\ Len(l) \in Nat
  BY <1>5, LenProperties
<1>7. DOMAIN l = 1 .. n
  BY <1>4
<1>8. QED BY <1>1, <1>6, <1>7 DEF l, n

\* More rows make longer logs with the same beginning.
LEMMA LogGrows ==
  ASSUME NEW V, NEW W, V \subseteq W, Sound(V), Sound(W),
         NEW z \in Zones, NEW t \in EventTypes
  PROVE  Log!Prefix(LogIn(V)[z][t], LogIn(W)[z][t])
<1>1. TypePosition(V, z, t) <= TypePosition(W, z, t)
  BY PositionMonotone
<1>2. TypePosition(V, z, t) \in Nat /\ TypePosition(W, z, t) \in Nat
  BY DEF Sound
<1>3. ASSUME NEW i \in 1 .. TypePosition(V, z, t)
      PROVE  LogIn(W)[z][t][i] = LogIn(V)[z][t][i]
  <2>1. i \in 1 .. TypePosition(W, z, t)
    BY <1>1, <1>2
  <2> DEFINE e == LogIn(V)[z][t][i]
             f == LogIn(W)[z][t][i]
  <2>2. e \in OfType(V, z, t) /\ e.sequence = i - 1
    BY LogEntry
  <2>3. f \in OfType(W, z, t) /\ f.sequence = i - 1
    BY <2>1, LogEntry
  <2>4. e \in W /\ f \in W /\ e.zone = f.zone /\ e.type = f.type
    BY <2>2, <2>3 DEF OfType
  <2>5. QED BY <2>2, <2>3, <2>4 DEF Sound, TypesNumbered
<1>4. QED BY <1>1, <1>3, LogLength DEF Log!Prefix

LEMMA LogNoRepeat ==
  ASSUME NEW V, Sound(V)
  PROVE  Log!NoRepeat(LogIn(V))
<1>1. SUFFICES
        ASSUME NEW z1 \in Zones, NEW z2 \in Zones,
               NEW t1 \in EventTypes, NEW t2 \in EventTypes,
               NEW i \in 1 .. TypePosition(V, z1, t1),
               NEW j \in 1 .. TypePosition(V, z2, t2),
               LogIn(V)[z1][t1][i].id = LogIn(V)[z2][t2][j].id
        PROVE  z1 = z2 /\ t1 = t2 /\ i = j
  BY LogLength DEF Log!NoRepeat
<1> DEFINE e == LogIn(V)[z1][t1][i]
           f == LogIn(V)[z2][t2][j]
<1>2. e \in OfType(V, z1, t1) /\ e.sequence = i - 1
  BY LogEntry
<1>3. f \in OfType(V, z2, t2) /\ f.sequence = j - 1
  BY LogEntry
<1>4. e = f
  BY <1>1, <1>2, <1>3 DEF OfType, Sound, IdsUnique
<1>5. z1 = z2 /\ t1 = t2
  BY <1>2, <1>3, <1>4 DEF OfType
<1>6. i \in Int /\ j \in Int
  OBVIOUS
<1>7. QED BY <1>2, <1>3, <1>4, <1>5, <1>6

\* The Journal, read by EventType, implements the append-only log its consumers
\* are promised.
THEOREM Refinement == Spec => ImplementsEventLog
<1>1. Init => Log!Init
  <2>1. SUFFICES ASSUME Init, NEW z \in Zones, NEW t \in EventTypes
                 PROVE  LogIn(rows)[z][t] = << >>
    BY DEF Log!Init, LogIn
  <2>2. rows = {}
    BY <2>1 DEF Init
  <2>3. {0} \union {e.sequence + 1 : e \in OfType({}, z, t)} = 0 .. 0
    BY DEF OfType
  <2>4. TypePosition({}, z, t) = 0
    BY <2>3, MaxOfInterval DEF TypePosition
  <2>5. Sound(rows)
    BY <2>2, EmptySound
  <2>6. LogIn(rows)[z][t] = [i \in 1 .. 0 |-> CHOOSE e \in OfType({}, z, t) : e.sequence = i - 1]
    BY <2>2, <2>4 DEF LogIn
  <2>7. QED BY <2>6
<1>2. IInv /\ [Next]_vars => [Log!Next]_(LogIn(rows))
  <2>1. SUFFICES ASSUME IInv, [Next]_vars PROVE Log!Extend
    BY DEF Log!Next
  <2>2. rows \subseteq rows'
    BY <2>1 DEF Next, vars, Begin, Publish, AppendNew, AppendExisting, Commit, Rollback, Crash, Advance
  <2>3. Sound(rows) /\ Sound(rows')
    BY <2>1, NextIInv DEF IInv
  <2>4. \A z \in Zones, t \in EventTypes :
          Log!Prefix(LogIn(rows)[z][t], LogIn(rows')[z][t])
    BY <2>2, <2>3, LogGrows
  <2>5. Log!NoRepeat(LogIn(rows'))
    BY <2>3, LogNoRepeat
  <2>6. QED BY <2>4, <2>5 DEF Log!Extend
<1>3. QED BY <1>1, <1>2, Invariance, PTL DEF Spec, Log!Spec, ImplementsEventLog

-----------------------------------------------------------------------------
(* Atomic batches are seen whole *)

SameStream(e, f) == e.zone = f.zone /\ e.stream = f.stream

\* What a transaction reads, and the rest of the batch it is appending: every
\* member has its completion in the view or still to come.
Completing(view, rest) ==
  \A contract \in AtomicBatches :
    /\ \A e \in view : e.type \in contract.members =>
         \/ \E f \in view : f.type = contract.completion /\ SameStream(e, f)
         \/ \E i \in 1 .. Len(rest) :
              rest[i].type = contract.completion /\ SameStream(e, rest[i])
    /\ \A i \in 1 .. Len(rest) : rest[i].type \in contract.members =>
         \E j \in i .. Len(rest) :
           rest[j].type = contract.completion /\ SameStream(rest[i], rest[j])

CompletionInv ==
  /\ CompletionVisible
  /\ writer # NoWriter => Completing(View(writer), queue[writer])

\* With nothing left to append, completing is having the completion.
LEMMA NothingLeft ==
  ASSUME NEW view
  PROVE  Completing(view, << >>) <=>
           \A contract \in AtomicBatches : \A e \in view :
             e.type \in contract.members =>
               \E f \in view : f.type = contract.completion /\ SameStream(e, f)
BY DEF Completing

LEMMA VisibleIsCompleting == CompletionVisible <=> Completing(rows, << >>)
<1>1. ASSUME NEW contract \in AtomicBatches, NEW e \in rows
      PROVE  (\E f \in OfStream(rows, e.zone, e.stream) : f.type = contract.completion)
               <=> \E f \in rows : f.type = contract.completion /\ SameStream(e, f)
  BY DEF OfStream, SameStream
<1>2. QED BY <1>1, NothingLeft DEF CompletionVisible

\* Publish lets in only batches that complete themselves.
LEMMA PublishableCompletes ==
  ASSUME NEW view, NEW batch \in Seq(Proposals), Publishable(batch),
         Completing(view, << >>)
  PROVE  Completing(view, batch)
<1>1. SUFFICES ASSUME NEW contract \in AtomicBatches, NEW i \in 1 .. Len(batch),
                      batch[i].type \in contract.members
               PROVE  \E j \in i .. Len(batch) :
                        batch[j].type = contract.completion /\ SameStream(batch[i], batch[j])
  BY NothingLeft DEF Completing
<1> DEFINE last == Len(batch)
<1>2. last \in Nat /\ last \in 1 .. last /\ last \in i .. last
  BY <1>1
<1>3. TypesOf(batch) \intersect (contract.members \union {contract.completion}) # {}
  BY <1>1 DEF TypesOf
<1>4. KeepsAtomicBatch(batch, contract)
  BY DEF Publishable
<1>5. batch[last].type = contract.completion /\ batch[i].stream = batch[last].stream
  BY <1>3, <1>4 DEF KeepsAtomicBatch
<1>6. batch[i].zone = batch[last].zone
  BY <1>2 DEF Publishable
<1>7. QED BY <1>2, <1>5, <1>6 DEF SameStream

\* One turn of Append: the event at the head is in the view afterwards.
LEMMA ConsumedCompletes ==
  ASSUME NEW view, NEW rest \in Seq(Proposals), rest # << >>, NEW r,
         r.type = Head(rest).type, SameStream(Head(rest), r),
         Completing(view, rest)
  PROVE  Completing(view \union {r}, Tail(rest))
<1> DEFINE later == Tail(rest)
<1>1. /\ Len(rest) \in Nat \ {0} /\ Head(rest) = rest[1]
      /\ Len(later) = Len(rest) - 1
      /\ \A i \in 1 .. Len(later) : later[i] = rest[i + 1]
  OBVIOUS
<1>2. ASSUME NEW contract \in AtomicBatches, NEW e, NEW i \in 1 .. Len(rest),
             rest[i].type = contract.completion, SameStream(e, rest[i])
      PROVE  \/ \E f \in view \union {r} : f.type = contract.completion /\ SameStream(e, f)
             \/ \E j \in 1 .. Len(later) :
                  later[j].type = contract.completion /\ SameStream(e, later[j])
  <2>1. CASE i = 1
    <3>1. r.type = contract.completion /\ SameStream(e, r)
      BY <2>1, <1>1, <1>2 DEF SameStream
    <3>2. QED BY <3>1
  <2>2. CASE i # 1
    <3>1. i - 1 \in 1 .. Len(later) /\ later[i - 1] = rest[i]
      BY <2>2, <1>1
    <3>2. QED BY <3>1, <1>2
  <2>3. QED BY <2>1, <2>2
<1>3. ASSUME NEW contract \in AtomicBatches, NEW e \in view \union {r},
             e.type \in contract.members
      PROVE  \/ \E f \in view \union {r} : f.type = contract.completion /\ SameStream(e, f)
             \/ \E j \in 1 .. Len(later) :
                  later[j].type = contract.completion /\ SameStream(e, later[j])
  <2>1. CASE e \in view
    <3>1. CASE \E f \in view : f.type = contract.completion /\ SameStream(e, f)
      BY <3>1
    <3>2. CASE \E i \in 1 .. Len(rest) :
                 rest[i].type = contract.completion /\ SameStream(e, rest[i])
      BY <3>2, <1>2
    <3>3. QED BY <3>1, <3>2, <2>1, <1>3 DEF Completing
  <2>2. CASE e = r
    <3>1. 1 \in 1 .. Len(rest) /\ rest[1].type \in contract.members
      BY <2>2, <1>1, <1>3
    <3>2. PICK j \in 1 .. Len(rest) :
            rest[j].type = contract.completion /\ SameStream(rest[1], rest[j])
      BY <3>1 DEF Completing
    <3>3. SameStream(e, rest[j])
      BY <3>2, <2>2, <1>1 DEF SameStream
    <3>4. QED BY <3>2, <3>3, <1>2
  <2>3. QED BY <2>1, <2>2
<1>4. ASSUME NEW contract \in AtomicBatches, NEW i \in 1 .. Len(later),
             later[i].type \in contract.members
      PROVE  \E j \in i .. Len(later) :
               later[j].type = contract.completion /\ SameStream(later[i], later[j])
  <2>1. i + 1 \in 1 .. Len(rest) /\ later[i] = rest[i + 1]
    BY <1>1
  <2>2. PICK j \in i + 1 .. Len(rest) :
          rest[j].type = contract.completion /\ SameStream(rest[i + 1], rest[j])
    BY <2>1, <1>4 DEF Completing
  <2>3. j - 1 \in i .. Len(later) /\ j - 1 \in 1 .. Len(later) /\ (j - 1) + 1 = j
    BY <1>1
  <2>4. later[j - 1] = rest[j]
    BY <2>3, <1>1
  <2>5. QED BY <2>1, <2>2, <2>3, <2>4
<1> HIDE DEF later
<1>5. QED BY <1>3, <1>4 DEF Completing, later

LEMMA CompletionInvNext == IInv /\ CompletionInv /\ [Next]_vars => CompletionInv'
<1> SUFFICES ASSUME IInv, CompletionInv, [Next]_vars PROVE CompletionInv'
  OBVIOUS
<1>1. ASSUME UNCHANGED rows PROVE CompletionVisible'
  BY <1>1 DEF CompletionInv, CompletionVisible
<1>2. ASSUME NEW w \in Writers, Begin(w) PROVE CompletionInv'
  <2>1. UNCHANGED <<rows, draft, queue>> /\ writer' = w
    BY <1>2 DEF Begin
  <2>2. draft[w] = {} /\ queue[w] = << >>
    BY <1>2, NoWriterAssumption DEF IInv, OneWriter, Begin
  <2>3. View(writer)' = rows /\ queue[writer]' = << >>
    BY <2>1, <2>2 DEF View
  <2>4. Completing(rows, << >>)
    BY VisibleIsCompleting DEF CompletionInv
  <2>5. QED BY <1>1, <2>1, <2>3, <2>4 DEF CompletionInv
<1>3. ASSUME NEW w \in Writers, NEW batch \in Batches, Publish(w, batch) PROVE CompletionInv'
  <2>1. w = writer /\ w # NoWriter
    BY <1>3, NoWriterAssumption DEF IInv, OneWriter, Publish
  <2>2. UNCHANGED <<rows, draft, writer>> /\ View(writer)' = View(writer)
    BY <1>3 DEF Publish, View
  <2>3. Completing(View(w), << >>)
    BY <1>3, <2>1 DEF CompletionInv, Publish
  <2>4. CASE Publishable(batch)
    <3>1. queue[w]' = batch
      BY <2>4, <1>3 DEF Publish, IInv, TypeOK
    <3>2. batch \in Seq(Proposals)
      BY BatchesAssumption
    <3>3. Completing(View(w), batch)
      BY <2>3, <2>4, <3>2, PublishableCompletes
    <3>4. QED BY <1>1, <2>1, <2>2, <3>1, <3>3 DEF CompletionInv
  <2>5. CASE ~Publishable(batch)
    <3>1. UNCHANGED queue
      BY <2>5, <1>3 DEF Publish
    <3>2. QED BY <1>1, <2>1, <2>2, <3>1 DEF CompletionInv
  <2>6. QED BY <2>4, <2>5
<1>4. ASSUME NEW w \in Writers, AppendNew(w) PROVE CompletionInv'
  <2>1. w = writer /\ w # NoWriter
    BY <1>4, NoWriterAssumption DEF IInv, OneWriter, AppendNew
  <2> DEFINE r == NewRow(View(w), Head(queue[w]))
  <2>2. queue[w] \in Seq(Proposals) /\ queue[w] # << >>
    BY <1>4 DEF IInv, TypeOK, AppendNew
  <2>3. /\ UNCHANGED <<rows, writer>>
        /\ View(w)' = View(w) \union {r} /\ queue[w]' = Tail(queue[w])
    BY <1>4 DEF AppendNew, View, IInv, TypeOK
  <2>4. r.type = Head(queue[w]).type /\ SameStream(Head(queue[w]), r)
    BY DEF NewRow, SameStream
  <2>5. Completing(View(w), queue[w])
    BY <2>1 DEF CompletionInv
  <2> HIDE DEF r
  <2>6. Completing(View(w) \union {r}, Tail(queue[w]))
    BY <2>2, <2>4, <2>5, ConsumedCompletes
  <2>7. QED BY <1>1, <2>1, <2>3, <2>6 DEF CompletionInv
<1>5. ASSUME NEW w \in Writers, AppendExisting(w) PROVE CompletionInv'
  <2>1. w = writer /\ w # NoWriter
    BY <1>5, NoWriterAssumption DEF IInv, OneWriter, AppendExisting
  <2>2. queue[w] \in Seq(Proposals) /\ queue[w] # << >>
    BY <1>5 DEF IInv, TypeOK, AppendExisting
  <2>3. UNCHANGED <<rows, writer, draft>> /\ View(w)' = View(w)
    BY <1>5 DEF AppendExisting, View
  <2>4. Completing(View(w), queue[w])
    BY <2>1 DEF CompletionInv
  <2>5. PICK e \in View(w) :
          IF SameEvent(e, Head(queue[w]))
            THEN queue' = [queue EXCEPT ![w] = Tail(@)] /\ UNCHANGED phase
            ELSE phase' = [phase EXCEPT ![w] = "failed"] /\ UNCHANGED queue
    BY <1>5 DEF AppendExisting
  <2>6. CASE SameEvent(e, Head(queue[w]))
    <3>1. queue[w]' = Tail(queue[w])
      BY <2>5, <2>6 DEF IInv, TypeOK
    <3>2. e.type = Head(queue[w]).type /\ SameStream(Head(queue[w]), e)
      BY <2>6 DEF SameEvent, SameStream
    <3>3. Completing(View(w) \union {e}, Tail(queue[w]))
      BY <2>2, <2>4, <3>2, ConsumedCompletes
    <3>4. View(w) \union {e} = View(w)
      OBVIOUS
    <3>5. QED BY <1>1, <2>1, <2>3, <3>1, <3>3, <3>4 DEF CompletionInv
  <2>7. CASE ~SameEvent(e, Head(queue[w]))
    BY <1>1, <2>1, <2>3, <2>4, <2>5, <2>7 DEF CompletionInv
  <2>8. QED BY <2>6, <2>7
<1>6. ASSUME NEW w \in Writers, Commit(w) PROVE CompletionInv'
  <2>1. w = writer /\ w # NoWriter /\ queue[w] = << >>
    BY <1>6, NoWriterAssumption DEF IInv, OneWriter, Commit
  <2>2. rows' = View(w) /\ writer' = NoWriter
    BY <1>6 DEF Commit, EndTx, View
  <2>3. Completing(View(w), << >>)
    BY <2>1 DEF CompletionInv
  <2>4. Completing(rows', << >>) => CompletionVisible'
    BY NothingLeft DEF CompletionVisible, OfStream, SameStream
  <2>5. QED BY <2>2, <2>3, <2>4 DEF CompletionInv
<1>7. ASSUME UNCHANGED rows, writer' = NoWriter PROVE CompletionInv'
  BY <1>1, <1>7 DEF CompletionInv
<1>8. ASSUME NEW w \in Writers, Rollback(w) PROVE CompletionInv'
  BY <1>7, <1>8 DEF Rollback, EndTx
<1>9. ASSUME Crash PROVE CompletionInv'
  BY <1>7, <1>9 DEF Crash
<1>10. ASSUME NEW k \in Consumers, NEW z \in Zones, NEW t \in EventTypes,
              NEW expected \in 0 .. TypePosition(rows, z, t) + 1,
              NEW position \in 0 .. TypePosition(rows, z, t) + 1,
              Advance(k, z, t, expected, position)
       PROVE  CompletionInv'
  BY <1>7, <1>10 DEF Advance
<1>11. ASSUME UNCHANGED vars PROVE CompletionInv'
  BY <1>1, <1>11 DEF vars, CompletionInv, View
<1>12. QED
  BY <1>2, <1>3, <1>4, <1>5, <1>6, <1>8, <1>9, <1>10, <1>11 DEF Next

\* A reader of committed events that sees a member of an atomic batch sees its
\* completion on the same Stream: Publish lets in whole batches only, Append
\* leaves none of a batch out that is not there already, and COMMIT comes after
\* the last of them.
THEOREM CompletionCorrect == Spec => []CompletionVisible
<1>1. Init => CompletionInv
  BY DEF Init, CompletionInv, CompletionVisible
<1>2. CompletionInv => CompletionVisible
  BY DEF CompletionInv
<1>3. QED BY <1>1, <1>2, CompletionInvNext, Invariance, PTL DEF Spec

-----------------------------------------------------------------------------
(* Documents *)

Holds(u) == u \in publishing

\* A row lies under its own digest.
RowsNamed ==
  \A c \in DocumentContents : Docs!Recorded(c) => documents[c] \in Docs!Paths /\ documents[c][1] = c

\* What an upload is about to do is about a path, and a located file exists.
UploadsNamed ==
  \A u \in Uploaders :
    /\ upload[u].at # "idle" => upload[u].path \in Docs!Paths
    /\ upload[u].at \in {"located", "recorded"} => upload[u].path \in files

\* An upload is past the mutex with it, or it reuses what a row names.
HeldOrRecorded ==
  \A u \in Uploaders :
    upload[u].at \in {"located", "recorded"} =>
      \/ Holds(u)
      \/ ~upload[u].created /\ documents[upload[u].path[1]] = upload[u].path

\* One upload at a time is past the mutex with it.
OneHolder == \A u, v \in Uploaders : Holds(u) /\ Holds(v) => u = v

\* What an upload would remove is recorded by nobody.
DiscardsOwn ==
  \A u \in Uploaders :
    upload[u].created /\ upload[u].at = "located" =>
      Holds(u) /\ \A c \in DocumentContents : documents[c] # upload[u].path

\* An upload that has not published has created nothing.
CreatedLate == \A u \in Uploaders : upload[u].created => upload[u].at \in {"located", "recorded"}

DocumentsInv ==
  /\ Docs!TypeOK
  /\ Docs!ContentKept
  /\ RowsNamed
  /\ UploadsNamed
  /\ HeldOrRecorded
  /\ OneHolder
  /\ DiscardsOwn
  /\ CreatedLate


-----------------------------------------------------------------------------
(* Paths and rows *)

\* A path is a pair, so it is not NoPath, and it starts with a digest.
LEMMA PathsArePairs ==
  \A p \in Docs!Paths : p # Docs!NoPath /\ p[1] \in DocumentContents
BY DEF Docs!Paths, Docs!NoPath

\* A row that names a path is recorded, under the digest of the path.
LEMMA RowOfPath ==
  ASSUME RowsNamed, NEW c \in DocumentContents, documents[c] \in Docs!Paths
  PROVE  Docs!Recorded(c) /\ documents[c][1] = c
BY PathsArePairs DEF RowsNamed, Docs!Recorded

LEMMA DocumentsInit == Docs!Init => DocumentsInv
<1> SUFFICES ASSUME Docs!Init PROVE DocumentsInv
  OBVIOUS
<1>1. Docs!TypeOK
  BY DEF Docs!Init, Docs!TypeOK, Docs!Idle, Docs!Upload
<1>2. QED
  BY <1>1 DEF Docs!Init, DocumentsInv, Docs!ContentKept, RowsNamed, UploadsNamed,
     HeldOrRecorded,
     OneHolder,
     Holds, DiscardsOwn, CreatedLate, Docs!Recorded, Docs!Idle

-----------------------------------------------------------------------------
(* The operations *)

LEMMA PrepareInv ==
  ASSUME DocumentsInv, NEW u \in Uploaders, NEW p \in Docs!Paths, Docs!Prepare(u, p)
  PROVE  DocumentsInv'
<1> USE DEF DocumentsInv
<1>1. p[1] \in DocumentContents /\ p \in Docs!Paths
  BY PathsArePairs
<1>2. /\ \A v \in Uploaders \ {u} : upload'[v] = upload[v]
      /\ upload'[u] \in Docs!Upload
      /\ upload' \in [Uploaders -> Docs!Upload]
      /\ upload'[u].created = FALSE
      /\ upload'[u].path \in Docs!Paths
      /\ \/ upload'[u].at = "staged"
         \/ upload'[u].at = "located" /\ upload'[u].path \in files
            /\ documents[upload'[u].path[1]] = upload'[u].path
  <2>1. CASE Docs!Recorded(p[1])
    <3>1. documents[p[1]] \in Docs!Paths /\ documents[p[1]][1] = p[1] /\ documents[p[1]] \in files
      BY <1>1, <2>1 DEF RowsNamed, Docs!ContentKept
    <3>2. upload' = [upload EXCEPT ![u] = [at |-> "located", path |-> documents[p[1]],
                                              created |-> FALSE]]
      BY <2>1 DEF Docs!Prepare
    <3>3. QED
      BY <3>1, <3>2 DEF Docs!TypeOK, Docs!Upload
  <2>2. CASE ~Docs!Recorded(p[1])
    <3>1. upload' = [upload EXCEPT ![u] = [at |-> "staged", path |-> p, created |-> FALSE]]
      BY <2>2 DEF Docs!Prepare
    <3>2. QED
      BY <3>1, <1>1 DEF Docs!TypeOK, Docs!Upload
  <2>3. QED
    BY <2>1, <2>2
<1>3. UNCHANGED <<files, documents, publishing, crashes>>
  BY DEF Docs!Prepare
<1>4. Docs!TypeOK'
  BY <1>2, <1>3 DEF Docs!TypeOK, Docs!Prepare
<1>5. (Docs!ContentKept /\ RowsNamed /\ OneHolder)'
  BY <1>3 DEF Docs!ContentKept, RowsNamed, OneHolder, Holds, Docs!Recorded
<1>6. UploadsNamed' /\ CreatedLate'
  BY <1>2, <1>3 DEF UploadsNamed, CreatedLate
<1>7. HeldOrRecorded'
  BY <1>2, <1>3 DEF HeldOrRecorded, Holds
<1>8. DiscardsOwn'
  BY <1>2, <1>3 DEF DiscardsOwn, Holds
<1>9. QED
  BY <1>4, <1>5, <1>6, <1>7, <1>8

LEMMA PublishInv ==
  ASSUME DocumentsInv, NEW u \in Uploaders, Docs!Publish(u)
  PROVE  DocumentsInv'
<1> USE DEF DocumentsInv
<1> DEFINE p == upload[u].path
<1>1. /\ upload[u].at = "staged" /\ publishing = {}
      /\ publishing' = {u} /\ documents' = documents /\ files' = files \union {p}
      /\ begun' = begun /\ crashes' = crashes
  BY DEF Docs!Publish
<1>2. p \in Docs!Paths
  BY <1>1 DEF UploadsNamed
<1>3. /\ upload' \in [Uploaders -> Docs!Upload]
      /\ \A v \in Uploaders \ {u} : upload'[v] = upload[v]
      /\ upload'[u].at = "located" /\ upload'[u].path = p
      /\ upload'[u].created = (p \notin files)
  BY DEF Docs!Publish, Docs!TypeOK, Docs!Upload
<1> HIDE DEF p
<1>4. Docs!TypeOK'
  BY <1>1, <1>2, <1>3 DEF Docs!TypeOK
<1>5. (Docs!ContentKept /\ RowsNamed /\ OneHolder)'
  BY <1>1 DEF Docs!ContentKept, RowsNamed, OneHolder, Holds, Docs!Recorded
<1>6. UploadsNamed' /\ CreatedLate'
  BY <1>1, <1>2, <1>3 DEF UploadsNamed, CreatedLate
<1>7. HeldOrRecorded'
  BY <1>1, <1>3 DEF HeldOrRecorded, Holds
<1>8. DiscardsOwn'
  <2>1. \A c \in DocumentContents : p \notin files => documents[c] # p
    BY <1>2, RowOfPath DEF Docs!ContentKept
  <2>2. \A v \in Uploaders : ~(upload[v].created /\ upload[v].at = "located")
    BY <1>1 DEF DiscardsOwn, Holds
  <2>3. QED
    BY <1>1, <1>3, <2>1, <2>2 DEF DiscardsOwn, Holds
<1>9. QED
  BY <1>4, <1>5, <1>6, <1>7, <1>8

\* Recording changes no row an upload reuses, and none to a path that another
\* upload may still remove: the mutex is held by one of the two at most.
LEMMA RecordInv ==
  ASSUME DocumentsInv, NEW u \in Uploaders, Docs!Record(u)
  PROVE  DocumentsInv'
<1> USE DEF DocumentsInv
<1> DEFINE p == upload[u].path
<1>1. upload[u].at = "located" /\ UNCHANGED <<files, publishing, begun, crashes>>
  BY DEF Docs!Record
<1>2. p \in Docs!Paths /\ p[1] \in DocumentContents /\ p # Docs!NoPath /\ p \in files
  BY <1>1, PathsArePairs DEF UploadsNamed
<1>3. documents' = [documents EXCEPT ![p[1]] = IF @ = Docs!NoPath THEN p ELSE @]
  BY DEF Docs!Record
<1>4. /\ upload' \in [Uploaders -> Docs!Upload]
      /\ \A v \in Uploaders : upload'[v].path = upload[v].path
                              /\ upload'[v].created = upload[v].created
      /\ \A v \in Uploaders \ {u} : upload'[v].at = upload[v].at
      /\ upload'[u].at = "recorded"
  BY DEF Docs!Record, Docs!TypeOK, Docs!Upload
<1> HIDE DEF p
<1>5. /\ documents' \in [DocumentContents -> Docs!Paths \union {Docs!NoPath}]
      /\ \A c \in DocumentContents :
           documents'[c] = IF c = p[1] /\ documents[c] = Docs!NoPath THEN p ELSE documents[c]
  BY <1>2, <1>3 DEF Docs!TypeOK
<1>6. Docs!TypeOK'
  BY <1>1, <1>4, <1>5 DEF Docs!TypeOK
<1>7. (Docs!ContentKept /\ RowsNamed)'
  BY <1>1, <1>2, <1>5 DEF Docs!ContentKept, RowsNamed, Docs!Recorded
<1>8. UploadsNamed' /\ CreatedLate' /\ OneHolder'
  BY <1>1, <1>2, <1>4 DEF UploadsNamed, CreatedLate, OneHolder, Holds
<1>9. HeldOrRecorded'
  <2> SUFFICES ASSUME NEW v \in Uploaders, upload[v].at \in {"located", "recorded"}, ~Holds(v)
               PROVE  ~upload[v].created /\ documents'[upload[v].path[1]] = upload[v].path
    BY <1>1, <1>4 DEF HeldOrRecorded, Holds
  <2>1. ~upload[v].created /\ documents[upload[v].path[1]] = upload[v].path
    BY DEF HeldOrRecorded
  <2>2. upload[v].path[1] \in DocumentContents /\ upload[v].path # Docs!NoPath
    BY PathsArePairs DEF UploadsNamed
  <2>3. QED
    BY <1>5, <2>1, <2>2
<1>10. DiscardsOwn'
  <2> SUFFICES ASSUME NEW v \in Uploaders, v # u, upload[v].created, upload[v].at = "located",
                      NEW c \in DocumentContents
               PROVE  documents'[c] # upload[v].path
    BY <1>1, <1>4 DEF DiscardsOwn, Holds
  <2>1. Holds(v) /\ documents[c] # upload[v].path
    BY DEF DiscardsOwn
  <2>2. ~Holds(u)
    BY <2>1 DEF OneHolder
  <2>3. documents[p[1]] = p
    BY <1>1, <2>2 DEF HeldOrRecorded, p
  <2>4. QED
    BY <1>2, <1>5, <2>1, <2>3
<1>11. QED
  BY <1>6, <1>7, <1>8, <1>9, <1>10

\* An upload that ends, and the directory it leaves.
LEMMA EndInv ==
  ASSUME DocumentsInv, NEW u \in Uploaders,
         upload' = [upload EXCEPT ![u] = Docs!Idle],
         publishing' = Docs!Released(u),
         UNCHANGED <<documents, begun, crashes>>,
         files' \subseteq files,
         \A c \in DocumentContents : Docs!Recorded(c) => documents[c] \in files',
         \A v \in Uploaders \ {u} :
           upload[v].at \in {"located", "recorded"} => upload[v].path \in files'
  PROVE  DocumentsInv'
<1> USE DEF DocumentsInv
<1>1. /\ upload' \in [Uploaders -> Docs!Upload]
      /\ \A v \in Uploaders \ {u} : upload'[v] = upload[v]
      /\ upload'[u].at = "idle" /\ ~upload'[u].created
  BY DEF Docs!TypeOK, Docs!Upload, Docs!Idle
<1>2. \A v \in Uploaders \ {u} : Holds(v)' = Holds(v)
  BY DEF Holds, Docs!Released
<1>3. ~Holds(u)'
  BY DEF Holds, Docs!Released
<1>4. Docs!TypeOK'
  BY <1>1 DEF Docs!TypeOK, Docs!Released
<1>5. (Docs!ContentKept /\ RowsNamed)'
  BY DEF Docs!ContentKept, RowsNamed, Docs!Recorded
<1>6. UploadsNamed' /\ CreatedLate'
  BY <1>1 DEF UploadsNamed, CreatedLate
<1>7. OneHolder'
  BY <1>2, <1>3 DEF OneHolder
<1>8. HeldOrRecorded'
  BY <1>1, <1>2 DEF HeldOrRecorded
<1>9. DiscardsOwn'
  BY <1>1, <1>2 DEF DiscardsOwn
<1>10. QED
  BY <1>4, <1>5, <1>6, <1>7, <1>8, <1>9

LEMMA ConfirmInv ==
  ASSUME DocumentsInv, NEW u \in Uploaders, Docs!Confirm(u)
  PROVE  DocumentsInv'
BY EndInv DEF Docs!Confirm, DocumentsInv, Docs!ContentKept, UploadsNamed

\* The file is removed by its creator only, and no row and no other upload
\* has come to depend on it.
LEMMA DiscardInv ==
  ASSUME DocumentsInv, NEW u \in Uploaders, Docs!Discard(u)
  PROVE  DocumentsInv'
<1> USE DEF DocumentsInv
<1>1. CASE ~upload[u].created
  BY <1>1, EndInv DEF Docs!Discard, Docs!ContentKept, UploadsNamed
<1>2. CASE upload[u].created
  <2>1. upload[u].at = "located" /\ files' = files \ {upload[u].path}
    BY <1>2 DEF Docs!Discard, CreatedLate
  <2>2. Holds(u) /\ \A c \in DocumentContents : documents[c] # upload[u].path
    BY <1>2, <2>1 DEF DiscardsOwn
  <2>3. \A c \in DocumentContents : Docs!Recorded(c) => documents[c] \in files'
    BY <2>1, <2>2 DEF Docs!ContentKept
  <2>4. ASSUME NEW v \in Uploaders \ {u}, upload[v].at \in {"located", "recorded"}
        PROVE  upload[v].path \in files'
    <3>1. upload[v].path \in files /\ upload[v].path[1] \in DocumentContents
      BY <2>4, PathsArePairs DEF UploadsNamed
    <3>2. documents[upload[v].path[1]] = upload[v].path
      BY <2>2, <2>4 DEF HeldOrRecorded, OneHolder
    <3>3. QED
      BY <2>1, <2>2, <3>1, <3>2
  <2>5. QED
    BY <2>1, <2>3, <2>4, EndInv DEF Docs!Discard
<1>3. QED
  BY <1>1, <1>2

LEMMA CrashInv == DocumentsInv /\ Docs!Crash => DocumentsInv'
<1> SUFFICES ASSUME DocumentsInv, Docs!Crash PROVE DocumentsInv'
  OBVIOUS
<1>1. \A u \in Uploaders : upload'[u] = Docs!Idle
  BY DEF Docs!Crash
<1>2. Docs!TypeOK'
  BY DEF DocumentsInv, Docs!Crash, Docs!TypeOK, Docs!Idle, Docs!Upload
<1>3. QED
  BY <1>1, <1>2 DEF DocumentsInv, Docs!Crash, Docs!ContentKept, RowsNamed, UploadsNamed,
     HeldOrRecorded, OneHolder,
     Holds, DiscardsOwn, CreatedLate, Docs!Recorded, Docs!Idle

-----------------------------------------------------------------------------

LEMMA DocumentsStep == DocumentsInv /\ [Docs!Next]_Docs!vars => DocumentsInv'
<1> SUFFICES ASSUME DocumentsInv, [Docs!Next]_Docs!vars PROVE DocumentsInv'
  OBVIOUS
<1>1. CASE Docs!Crash
  BY <1>1, CrashInv
<1>2. ASSUME NEW u \in Uploaders,
             \/ \E p \in Docs!Paths : Docs!Prepare(u, p)
             \/ Docs!Publish(u) \/ Docs!Record(u) \/ Docs!Confirm(u) \/ Docs!Discard(u)
      PROVE  DocumentsInv'
  BY <1>2, PrepareInv, PublishInv, RecordInv, ConfirmInv, DiscardInv
<1>3. CASE UNCHANGED Docs!vars
  BY <1>3 DEF Docs!vars, DocumentsInv, Docs!TypeOK, Docs!ContentKept, RowsNamed, UploadsNamed,
     HeldOrRecorded, OneHolder,
     Holds, DiscardsOwn, CreatedLate, Docs!Recorded
<1>4. QED
  BY <1>1, <1>2, <1>3 DEF Docs!Next

\* Uploads are all that changes what they are about.
LEMMA DocumentsPart == [ServicesNext]_servicesVars => [Docs!Next]_(Docs!vars)
BY DEF ServicesNext, servicesVars, Only, docsVars, Docs!vars

LEMMA DocumentsInvariance == ServicesSpec => []DocumentsInv
<1>1. ServicesInit => DocumentsInv
  BY DocumentsInit DEF ServicesInit
<1>2. DocumentsInv /\ [ServicesNext]_servicesVars => DocumentsInv'
  BY DocumentsStep, DocumentsPart
<1>3. QED
  BY <1>1, <1>2, PTL DEF ServicesSpec

\* The content of a recorded Document is never removed, whatever uploads of
\* the same bytes run at the same time, fail or are stopped (content_store.go).
THEOREM RecordedContentKept == ServicesSpec => []ContentKept
<1>1. DocumentsInv => ContentKept
  BY DEF DocumentsInv, ContentKept
<1>2. QED
  BY <1>1, DocumentsInvariance, PTL

-----------------------------------------------------------------------------
(* Corpora: the invariant *)

\* The events the vector consumer has taken, the one it handles included.
Taken == IF assembler = "idle" THEN assembled ELSE assembled + 1

\* An event follows its record.
EventsFollow ==
  /\ recorded \in Seq(Documents) /\ prepared \in Seq(Documents)
  /\ Len(recorded) <= MaxRecorded /\ Len(prepared) <= Len(recorded)
  /\ chunked \in 0 .. Len(prepared) /\ assembled \in 0 .. Len(units)
  /\ chunker.at # "idle" => chunked < Len(prepared)
  /\ assembler # "idle" => assembled < Len(units)

\* A Corpora that is neither being built nor activated is empty.
EmptyAhead ==
  \A n \in Corp!Ids : n > current /\ n # building =>
    spans[n] = Corp!NoTexts /\ vectors[n] = Corp!NoTexts

\* The row of a Text is that of its own event, and counts its batches, unless a
\* Child's were merged over its first.
RowExact(d) ==
  /\ progress[d].source = 0 =>
       /\ progress[d] = Corp!NoProgress
       /\ building # 0 => spans[building][d] \in {0, TextBatches[d]}
  /\ progress[d].source # 0 =>
       /\ building # 0
       /\ progress[d].source \in 1 .. Len(prepared)
       /\ prepared[progress[d].source] = d
       /\ spans[building][d] = progress[d].next \/ Corp!MergedOver(d)
       /\ progress[d].next <= TextBatches[d]
       /\ IF progress[d].completed THEN progress[d].next = TextBatches[d]
          ELSE progress[d].next < TextBatches[d]

RowsExact == \A d \in Documents : RowExact(d)

\* A Text of the Current Corpora is in the one being built, or is chunked again.
Inherited ==
  building # 0 /\ current # 0 =>
    \A d \in Documents : spans[current][d] > 0 => spans[building][d] > 0 \/ Corp!Incomplete(d)

\* While batches are written their row is there and nobody activates.
WritesAlone ==
  chunker.at = "writing" =>
    /\ chunker.corpora = building
    /\ progress[Corp!Chunking].source = Corp!Source
    /\ ~progress[Corp!Chunking].completed
    /\ progress[Corp!Chunking].next = chunker.next

\* What was announced is activated or chunked completely into the building Corpora.
Announced ==
  \A k \in 1 .. Len(units) :
    /\ units[k].source \in 1 .. Len(prepared)
    /\ \/ /\ units[k].corpora \in 1 .. current
          /\ spans[units[k].corpora][prepared[units[k].source]] > 0
       \/ /\ units[k].corpora = building /\ building # 0
          /\ progress[prepared[units[k].source]].source = units[k].source
          /\ progress[prepared[units[k].source]].completed

\* A Corpora is activated for an event that announced a Text of it.
ActivatedForEvent == \A n \in 1 .. current : \E k \in 1 .. Len(units) : units[k].corpora = n

\* There are no vectors of chunks that are not there, but of those that are
\* written again.
VectorsOfChunks ==
  \A n \in Corp!Ids, d \in Documents :
    /\ n <= current => vectors[n][d] <= spans[n][d]
    /\ n = building => /\ vectors[n][d] <= TextBatches[d]
                       /\ vectors[n][d] > 0 => spans[n][d] > 0 \/ Corp!Incomplete(d)

\* The vector consumer has read all that was announced of a Corpora so far.
AllRead(n) ==
  /\ \E k \in 1 .. Taken : units[k].corpora = n
  /\ \A k \in 1 .. Len(units) : units[k].corpora = n => k <= Taken

\* The Text may have been merged after the vectors of Corpora n were built.
MergedLate(n, d) == vectors[n][d] = 0 /\ d \in boundary /\ ~Corp!AnnouncedFor(d, n)

\* After the last event of a Corpora that was announced so far, all of its
\* chunks have vectors, but for those that are being written or were merged.
Vectored ==
  \A n \in Corp!Ids : AllRead(n) =>
    \A d \in Documents :
      \/ spans[n][d] <= vectors[n][d]
      \/ n = building /\ Corp!Incomplete(d)
      \/ MergedLate(n, d)

Announcements == [source : 1 .. MaxRecorded, corpora : Corp!Ids]

Chunkers ==
  [at : {"idle", "merging", "writing", "done"}, corpora : 0 .. MaxCorpora, next : Nat,
   left : SUBSET boundary]

Shapes ==
  /\ units \in Seq(Announcements)
  /\ current \in 0 .. MaxCorpora /\ building \in {0, current + 1}
  /\ building <= MaxCorpora
  /\ spans \in [Corp!Ids -> [Documents -> Nat]]
  /\ progress \in [Documents -> Corp!Progress]
  /\ vectors \in [Corp!Ids -> [Documents -> Nat]]
  /\ boundary \in SUBSET ChildDocuments
  /\ chunker \in Chunkers
  /\ assembler \in {"idle", "built", "ready", "done"}

CorporaInv ==
  /\ Shapes /\ EventsFollow /\ EmptyAhead /\ RowsExact /\ Inherited /\ WritesAlone
  /\ Announced /\ ActivatedForEvent /\ VectorsOfChunks /\ Vectored
  /\ Corp!TextsWhole


LEMMA CorporaInit == Corp!Assumptions /\ Corp!Init => CorporaInv
<1> SUFFICES ASSUME Corp!Assumptions, Corp!Init PROVE CorporaInv
  OBVIOUS
<1> USE DEF Corp!Assumptions, Corp!Init, Corp!Ids, Corp!NoProgress, Corp!NoTexts, Corp!Idle
<1>1. Shapes
  BY DEF Shapes, Corp!Progress, Chunkers
<1>2. EventsFollow
  BY DEF EventsFollow
<1>3. EmptyAhead /\ RowsExact /\ Inherited
  BY DEF EmptyAhead, RowsExact, RowExact, Inherited
<1>4. WritesAlone /\ Announced /\ ActivatedForEvent
  BY DEF WritesAlone, Announced, ActivatedForEvent
<1>5. VectorsOfChunks /\ Vectored /\ Corp!TextsWhole
  BY DEF VectorsOfChunks, Vectored, Corp!TextsWhole, AllRead, Taken
<1>6. QED
  BY <1>1, <1>2, <1>3, <1>4, <1>5 DEF CorporaInv

\* Records and Texts: what was announced keeps its Text.
LEMMA ConversionInv ==
  ASSUME Corp!Assumptions, CorporaInv, (\E d \in Documents : Corp!RecordDocument(d)) \/ Corp!Convert
  PROVE  CorporaInv'
<1>1. /\ UNCHANGED <<units, chunked, assembled, current, building, spans, progress, vectors,
                     boundary, chunker, assembler>>
      /\ \/ prepared' = prepared
         \/ /\ recorded' = recorded /\ Len(prepared) < Len(recorded)
            /\ prepared' = Append(prepared, recorded[Len(prepared) + 1])
      /\ \/ recorded' = recorded
         \/ /\ prepared' = prepared /\ Len(recorded) < MaxRecorded
            /\ \E d \in Documents : recorded' = Append(recorded, d)
  BY DEF Corp!RecordDocument, Corp!Convert, Corp!ConvertDocument, Corp!AdvanceConversion,
     Corp!journalVars, Corp!stateVars,
         Corp!vectorVars
<1>2. /\ prepared' \in Seq(Documents)
      /\ recorded' \in Seq(Documents)
      /\ Len(prepared') <= Len(recorded') /\ Len(recorded') <= MaxRecorded
      /\ Len(prepared') >= Len(prepared)
      /\ \A i \in 1 .. Len(prepared) : prepared'[i] = prepared[i]
  <2>1. /\ prepared \in Seq(Documents)
        /\ recorded \in Seq(Documents)
        /\ Len(prepared) <= Len(recorded) /\ Len(recorded) <= MaxRecorded
        /\ MaxRecorded \in Nat
    BY DEF CorporaInv, EventsFollow, Corp!Assumptions
  <2>2. CASE prepared' = prepared
    BY <1>1, <2>1, <2>2
  <2>3. CASE prepared' # prepared
    <3>1. /\ recorded' = recorded /\ Len(prepared) < Len(recorded)
          /\ prepared' = Append(prepared, recorded[Len(prepared) + 1])
      BY <1>1, <2>3
    <3>2. recorded[Len(prepared) + 1] \in Documents
      BY <2>1, <3>1
    <3>3. QED
      BY <2>1, <3>1, <3>2
  <2>4. QED
    BY <2>2, <2>3
<1>3. EventsFollow'
  BY <1>1, <1>2 DEF CorporaInv, EventsFollow
<1>4. Shapes' /\ EmptyAhead' /\ Inherited' /\ ActivatedForEvent' /\ VectorsOfChunks'
      /\ Corp!TextsWhole'
  BY <1>1 DEF CorporaInv, Shapes, Chunkers, EmptyAhead, Inherited, ActivatedForEvent,
     VectorsOfChunks, Corp!TextsWhole, Corp!Incomplete
<1>5. RowsExact'
  <2>1. ASSUME NEW d \in Documents
        PROVE  RowExact(d)'
    <3>1. RowExact(d) /\ Len(prepared) \in Nat /\ Len(prepared') \in Nat
      BY <1>2 DEF CorporaInv, RowsExact, EventsFollow
    <3>2. QED
      BY <1>1, <1>2, <3>1 DEF RowExact, Corp!MergedOver
  <2>2. QED
    BY <2>1 DEF RowsExact
<1>6. WritesAlone'
  BY <1>1, <1>2 DEF CorporaInv, WritesAlone, Corp!Chunking, Corp!Source, EventsFollow
<1>7. Announced'
  <2>1. \A k \in 1 .. Len(units) : units[k].source \in 1 .. Len(prepared)
    BY DEF CorporaInv, Announced
  <2>2. \A k \in 1 .. Len(units) : prepared'[units[k].source] = prepared[units[k].source]
    BY <1>2, <2>1
  <2>3. \A k \in 1 .. Len(units) : units[k].source \in 1 .. Len(prepared')
    BY <1>2, <2>1 DEF CorporaInv, EventsFollow
  <2>4. QED
    BY <1>1, <2>2, <2>3 DEF CorporaInv, Announced
<1>8. Vectored'
  <2>1. \A k \in 1 .. Len(units) : prepared'[units[k].source] = prepared[units[k].source]
    BY <1>2 DEF CorporaInv, Announced
  <2>2. \A n \in Corp!Ids, d \in Documents : MergedLate(n, d) => MergedLate(n, d)'
    BY <1>1, <2>1 DEF MergedLate, Corp!AnnouncedFor
  <2>3. QED
    BY <1>1, <2>2 DEF CorporaInv, Vectored, AllRead, Taken, Corp!Incomplete
<1>9. QED
  BY <1>3, <1>4, <1>5, <1>6, <1>7, <1>8 DEF CorporaInv

\* A boundary that grows excuses more.
LEMMA AcceptInv ==
  ASSUME Corp!Assumptions, CorporaInv, Corp!AcceptChildCorpora
  PROVE  CorporaInv'
<1>1. /\ UNCHANGED <<recorded, prepared, units, chunked, assembled, current, building, spans,
                     progress, vectors, chunker, assembler>>
      /\ boundary \subseteq boundary' /\ boundary' \subseteq boundary \union ChildDocuments
  BY DEF Corp!AcceptChildCorpora, Corp!journalVars, Corp!stateVars, Corp!vectorVars
<1>2. Shapes' /\ EventsFollow' /\ EmptyAhead' /\ Inherited' /\ WritesAlone'
  BY <1>1 DEF CorporaInv, Shapes, Chunkers, EventsFollow, EmptyAhead, Inherited, WritesAlone,
     Corp!Incomplete, Corp!Chunking, Corp!Source
<1>3. RowsExact'
  <2>1. ASSUME NEW d \in Documents PROVE RowExact(d)'
    <3>1. Corp!MergedOver(d) => Corp!MergedOver(d)'
      BY <1>1 DEF Corp!MergedOver
    <3>2. RowExact(d)
      BY DEF CorporaInv, RowsExact
    <3>3. QED
      BY <1>1, <3>1, <3>2 DEF RowExact
  <2>2. QED
    BY <2>1 DEF RowsExact
<1>4. Announced' /\ ActivatedForEvent' /\ VectorsOfChunks' /\ Corp!TextsWhole'
  BY <1>1 DEF CorporaInv, Announced, ActivatedForEvent, VectorsOfChunks, Corp!TextsWhole,
     Corp!Incomplete
<1>5. Vectored'
  <2>1. \A n \in Corp!Ids, d \in Documents : MergedLate(n, d) => MergedLate(n, d)'
    BY <1>1 DEF MergedLate, Corp!AnnouncedFor
  <2>2. QED
    BY <1>1, <2>1 DEF CorporaInv, Vectored, AllRead, Taken, Corp!Incomplete
<1>6. QED
  BY <1>2, <1>3, <1>4, <1>5 DEF CorporaInv

\* The start and the ends of a delivery and a stop leave what is stored alone.
LEMMA DeliveryEndInv ==
  ASSUME Corp!Assumptions, CorporaInv,
         \/ Corp!BeginDelivery \/ Corp!FailChunking \/ Corp!AdvanceChunking
         \/ Corp!Restart
  PROVE  CorporaInv'
<1>1. /\ UNCHANGED <<recorded, prepared, units, assembled, current, building, spans, progress,
                     vectors, boundary>>
      /\ \/ chunker' = Corp!Idle
         \/ /\ chunker' = [at |-> "merging", corpora |-> 0, next |-> 0, left |-> boundary]
            /\ chunked < Len(prepared) /\ UNCHANGED <<chunked, assembler>>
      /\ \/ UNCHANGED <<chunked, assembler>>
         \/ chunked' = chunked + 1 /\ UNCHANGED assembler /\ chunker.at = "done"
         \/ assembler' = "idle" /\ UNCHANGED chunked
  BY DEF Corp!BeginDelivery, Corp!FailChunking, Corp!AdvanceChunking, Corp!Restart, Corp!journalVars,
     Corp!stateVars, Corp!vectorVars
<1>2. EventsFollow'
  BY <1>1 DEF CorporaInv, EventsFollow, Corp!Idle
<1>3. Shapes' /\ WritesAlone'
  <2>1. /\ boundary \in SUBSET ChildDocuments /\ 0 \in 0 .. MaxCorpora
        /\ assembler \in {"idle", "built", "ready", "done"}
    BY DEF CorporaInv, Shapes, Corp!Assumptions
  <2>2. Corp!Idle \in Chunkers
    BY <2>1 DEF Corp!Idle, Chunkers
  <2>3. chunker' \in Chunkers /\ chunker'.at # "writing"
    BY <1>1, <2>1, <2>2 DEF Chunkers, Corp!Idle
  <2>4. Chunkers' = Chunkers
    BY <1>1 DEF Chunkers
  <2>5. QED
    BY <1>1, <2>1, <2>3, <2>4 DEF CorporaInv, Shapes, WritesAlone
<1>4. EmptyAhead' /\ RowsExact' /\ Inherited' /\ Announced' /\ ActivatedForEvent'
  BY <1>1 DEF CorporaInv, EmptyAhead, RowsExact, RowExact, Inherited, Announced,
     ActivatedForEvent, Corp!Incomplete, Corp!MergedOver
<1>5. VectorsOfChunks' /\ Corp!TextsWhole'
  BY <1>1 DEF CorporaInv, VectorsOfChunks, Corp!TextsWhole, Corp!Incomplete
<1>6. ASSUME NEW n \in Corp!Ids, AllRead(n)' PROVE AllRead(n)
  <2>1. Taken' <= Taken /\ Taken \in Nat /\ Taken' \in Nat
    BY <1>1 DEF Taken, CorporaInv, EventsFollow
  <2>2. QED
    BY <1>1, <1>6, <2>1 DEF AllRead
<1>7. Vectored'
  BY <1>1, <1>6 DEF CorporaInv, Vectored, Corp!Incomplete, MergedLate, Corp!AnnouncedFor
<1>8. QED
  BY <1>2, <1>3, <1>4, <1>5, <1>7 DEF CorporaInv

LEMMA RecordVectorsInv ==
  ASSUME Corp!Assumptions, CorporaInv,
         \/ Corp!RecordVectors
         \/ /\ assembler = "ready" /\ (Corp!Done \/ Corp!Fail)
            /\ UNCHANGED <<Corp!journalVars, converted, chunked, assembled, boundary,
                           Corp!vectorVars, chunker>>
  PROVE  CorporaInv'
<1>1. /\ UNCHANGED <<recorded, prepared, units, chunked, assembled, current, building, spans,
                     progress, vectors, chunker, boundary>>
      /\ assembler \in {"built", "ready"} /\ assembler' \in {"idle", "ready", "done"}
  BY DEF Corp!RecordVectors, Corp!Done, Corp!Fail, Corp!journalVars, Corp!stateVars,
     Corp!vectorVars
<1>2. EventsFollow' /\ Shapes' /\ WritesAlone'
  BY <1>1 DEF CorporaInv, EventsFollow, Shapes, Chunkers, WritesAlone, Corp!Chunking, Corp!Source
<1>3. EmptyAhead' /\ RowsExact' /\ Inherited' /\ Announced' /\ ActivatedForEvent'
  BY <1>1 DEF CorporaInv, EmptyAhead, RowsExact, RowExact, Inherited, Announced,
     ActivatedForEvent, Corp!Incomplete, Corp!MergedOver
<1>4. VectorsOfChunks' /\ Corp!TextsWhole'
  BY <1>1 DEF CorporaInv, VectorsOfChunks, Corp!TextsWhole, Corp!Incomplete
<1>5. ASSUME NEW n \in Corp!Ids, AllRead(n)' PROVE AllRead(n)
  <2>1. Taken' <= Taken /\ Taken \in Nat /\ Taken' \in Nat
    BY <1>1 DEF Taken, CorporaInv, EventsFollow
  <2>2. QED
    BY <1>1, <1>5, <2>1 DEF AllRead
<1>6. Vectored'
  BY <1>1, <1>5 DEF CorporaInv, Vectored, Corp!Incomplete, MergedLate,
     Corp!AnnouncedFor
<1>7. QED
  BY <1>2, <1>3, <1>4, <1>6 DEF CorporaInv

LEMMA AdvanceAssemblyInv ==
  ASSUME Corp!Assumptions, CorporaInv, Corp!AdvanceAssembly
  PROVE  CorporaInv'
<1>1. /\ UNCHANGED <<recorded, prepared, units, chunked, current, building, spans,
                     progress, vectors, chunker, boundary>>
      /\ assembler = "done" /\ assembler' = "idle" /\ assembled' = assembled + 1
  BY DEF Corp!AdvanceAssembly, Corp!journalVars, Corp!stateVars, Corp!vectorVars
<1>2. EventsFollow' /\ Shapes' /\ WritesAlone'
  BY <1>1 DEF CorporaInv, EventsFollow, Shapes, Chunkers, WritesAlone, Corp!Chunking, Corp!Source
<1>3. EmptyAhead' /\ RowsExact' /\ Inherited' /\ Announced' /\ ActivatedForEvent'
  BY <1>1 DEF CorporaInv, EmptyAhead, RowsExact, RowExact, Inherited, Announced,
     ActivatedForEvent, Corp!Incomplete, Corp!MergedOver
<1>4. VectorsOfChunks' /\ Corp!TextsWhole'
  BY <1>1 DEF CorporaInv, VectorsOfChunks, Corp!TextsWhole, Corp!Incomplete
<1>5. Taken' = Taken
  BY <1>1 DEF Taken, CorporaInv, EventsFollow
<1>6. Vectored'
  BY <1>1, <1>5 DEF CorporaInv, Vectored, AllRead, Corp!Incomplete, MergedLate,
     Corp!AnnouncedFor
<1>7. QED
  BY <1>2, <1>3, <1>4, <1>6 DEF CorporaInv

LEMMA MaxOfTwo ==
  \A i, j \in Nat :
    Corp!Max({i, j}) \in {i, j} /\ Corp!Max({i, j}) >= i /\ Corp!Max({i, j}) >= j
<1> SUFFICES ASSUME NEW i \in Nat, NEW j \in Nat
             PROVE  /\ Corp!Max({i, j}) \in {i, j} /\ Corp!Max({i, j}) >= i /\ Corp!Max({i, j}) >= j
  OBVIOUS
<1>1. \E x \in {i, j} : \A y \in {i, j} : x >= y
  <2>1. CASE i >= j
    BY <2>1
  <2>2. CASE j >= i
    BY <2>2
  <2>3. QED
    BY <2>1, <2>2
<1>2. QED
  BY <1>1 DEF Corp!Max

LEMMA BuildVectorsInv ==
  ASSUME Corp!Assumptions, CorporaInv, Corp!BuildVectors
  PROVE  CorporaInv'
<1>1. /\ UNCHANGED <<recorded, prepared, units, chunked, assembled, current, building, spans,
                     progress, chunker, boundary>>
      /\ assembler = "idle" /\ assembler' = "built" /\ assembled < Len(units)
      /\ Corp!HandledId <= current \/ Corp!HandledId = building
      /\ vectors' = [vectors EXCEPT ![Corp!HandledId] =
                        [d \in Documents |-> Corp!Max({@[d], spans[Corp!HandledId][d]})]]
  BY DEF Corp!BuildVectors, Corp!journalVars, Corp!stateVars
<1>2. Corp!HandledId \in Corp!Ids /\ assembled + 1 \in 1 .. Len(units)
  <2>1. assembled + 1 \in 1 .. Len(units)
    BY <1>1 DEF CorporaInv, EventsFollow
  <2>2. units[assembled + 1] \in Announcements
    BY <2>1 DEF CorporaInv, Shapes
  <2>3. QED
    BY <2>1, <2>2 DEF Corp!HandledId, Corp!Handled, Announcements
<1>3. /\ \A n \in Corp!Ids \ {Corp!HandledId} : vectors'[n] = vectors[n]
      /\ \A d \in Documents :
           /\ vectors'[Corp!HandledId][d] \in {vectors[Corp!HandledId][d], spans[Corp!HandledId][d]}
           /\ vectors'[Corp!HandledId][d] >= spans[Corp!HandledId][d]
           /\ vectors'[Corp!HandledId][d] >= vectors[Corp!HandledId][d]
      /\ vectors' \in [Corp!Ids -> [Documents -> Nat]]
  <2>1. \A d \in Documents : vectors[Corp!HandledId][d] \in Nat /\ spans[Corp!HandledId][d] \in Nat
    BY <1>2 DEF CorporaInv, Shapes
  <2>2. \A d \in Documents : vectors'[Corp!HandledId][d] =
                              Corp!Max({vectors[Corp!HandledId][d], spans[Corp!HandledId][d]})
    BY <1>1, <1>2 DEF CorporaInv, Shapes
  <2>3. \A d \in Documents :
          Corp!Max({vectors[Corp!HandledId][d], spans[Corp!HandledId][d]}) \in Nat
    BY <2>1, MaxOfTwo
  <2>4. vectors' \in [Corp!Ids -> [Documents -> Nat]]
    BY <1>1, <1>2, <2>3 DEF CorporaInv, Shapes
  <2>5. \A n \in Corp!Ids \ {Corp!HandledId} : vectors'[n] = vectors[n]
    BY <1>1 DEF CorporaInv, Shapes
  <2>6. QED
    BY <2>1, <2>2, <2>4, <2>5, MaxOfTwo
<1>4. EventsFollow' /\ Shapes' /\ WritesAlone'
  BY <1>1, <1>3 DEF CorporaInv, EventsFollow, Shapes, Chunkers, WritesAlone, Corp!Chunking, Corp!Source
<1>5. RowsExact' /\ Inherited' /\ Announced' /\ ActivatedForEvent' /\ Corp!TextsWhole'
  BY <1>1 DEF CorporaInv, RowsExact, RowExact, Inherited, Announced, ActivatedForEvent,
     Corp!TextsWhole, Corp!Incomplete, Corp!MergedOver
<1>6. EmptyAhead'
  <2>1. ASSUME NEW n \in Corp!Ids, n > current, n # building PROVE vectors'[n] = vectors[n]
    <3>1. n # Corp!HandledId
      BY <1>1, <1>2, <2>1 DEF CorporaInv, Shapes, Corp!Ids, Corp!Assumptions
    <3>2. QED
      BY <1>3, <3>1
  <2>2. QED
    BY <1>1, <2>1 DEF CorporaInv, EmptyAhead
<1>7. VectorsOfChunks'
  <2> SUFFICES ASSUME NEW n \in Corp!Ids, NEW d \in Documents
               PROVE  /\ n <= current => vectors'[n][d] <= spans[n][d]
                      /\ n = building => /\ vectors'[n][d] <= TextBatches[d]
                                         /\ vectors'[n][d] > 0 =>
                                              spans[n][d] > 0 \/ Corp!Incomplete(d)
    BY <1>1 DEF VectorsOfChunks, Corp!Incomplete
  <2>1. n = building => spans[n][d] <= TextBatches[d]
    <3>1. n = building => building # 0
      BY DEF Corp!Ids, Corp!Assumptions
    <3>2. TextBatches[d] \in Nat /\ progress[d].next \in Nat
      BY DEF CorporaInv, Shapes, Corp!Progress, Corp!Assumptions
    <3>3. QED
      BY <3>1, <3>2 DEF CorporaInv, RowsExact, RowExact, Corp!MergedOver
  <2>2. QED
    BY <1>3, <2>1 DEF CorporaInv, VectorsOfChunks, Shapes
<1>8. Vectored'
  <2> SUFFICES ASSUME NEW n \in Corp!Ids, AllRead(n)', NEW d \in Documents
               PROVE  \/ spans[n][d] <= vectors'[n][d]
                      \/ n = building /\ Corp!Incomplete(d)
                      \/ vectors'[n][d] = 0 /\ d \in boundary /\ ~Corp!AnnouncedFor(d, n)
    BY <1>1 DEF Vectored, MergedLate, Corp!Incomplete, Corp!AnnouncedFor
  <2>1. CASE n = Corp!HandledId
    BY <1>3, <2>1
  <2>2. CASE n # Corp!HandledId
    <3>1. Taken = assembled /\ Taken' = assembled + 1 /\ assembled \in Nat
      BY <1>1 DEF Taken, CorporaInv, EventsFollow
    <3>2. units[assembled + 1].corpora # n
      BY <2>2 DEF Corp!HandledId, Corp!Handled
    <3>3. AllRead(n)
      BY <1>1, <3>1, <3>2 DEF AllRead
    <3>4. QED
      BY <1>3, <2>2, <3>3 DEF CorporaInv, Vectored, MergedLate
  <2>3. QED
    BY <2>1, <2>2
<1>9. QED
  BY <1>4, <1>5, <1>6, <1>7, <1>8 DEF CorporaInv

LEMMA ActivateInv ==
  ASSUME Corp!Assumptions, CorporaInv, assembler = "ready", building = Corp!HandledId,
         current # Corp!HandledId,
         \A d \in Documents : ~Corp!Incomplete(d), Corp!Activate(Corp!HandledId),
         UNCHANGED <<Corp!journalVars, converted, chunked, assembled, boundary, Corp!vectorVars,
                     chunker>>
  PROVE  CorporaInv'
<1>1. /\ UNCHANGED <<recorded, prepared, units, chunked, assembled, spans, vectors, chunker,
                     boundary>>
      /\ assembler' = "done" /\ current' = Corp!HandledId /\ building' = 0
      /\ progress' = [d \in Documents |-> Corp!NoProgress]
  BY DEF Corp!Activate, Corp!journalVars, Corp!vectorVars
<1>2. /\ assembled + 1 \in 1 .. Len(units)
      /\ units[assembled + 1].corpora = Corp!HandledId
      /\ Corp!HandledId \in Corp!Ids /\ Corp!HandledId = current + 1 /\ current \in Nat
  <2>1. assembled + 1 \in 1 .. Len(units)
    BY DEF CorporaInv, EventsFollow
  <2>2. units[assembled + 1] \in Announcements
    BY <2>1 DEF CorporaInv, Shapes
  <2>3. QED
    BY <2>1, <2>2 DEF Corp!HandledId, Corp!Handled, Announcements, CorporaInv, Shapes,
       Corp!Ids, Corp!Assumptions
<1>3. \A d \in Documents : /\ spans[Corp!HandledId][d] \in {0, TextBatches[d]}
                           /\ vectors[Corp!HandledId][d] <= spans[Corp!HandledId][d]
  <2> SUFFICES ASSUME NEW d \in Documents
               PROVE  /\ spans[Corp!HandledId][d] \in {0, TextBatches[d]}
                      /\ vectors[Corp!HandledId][d] <= spans[Corp!HandledId][d]
    OBVIOUS
  <2>1. building # 0
    BY <1>2
  <2>2. ~Corp!Incomplete(d) /\ TextBatches[d] \in Nat \ {0}
    BY DEF Corp!Assumptions
  <2>3. spans[Corp!HandledId][d] \in {0, TextBatches[d]}
    BY <2>1, <2>2 DEF CorporaInv, RowsExact, RowExact, Corp!Incomplete, Corp!MergedOver
  <2>4. vectors[Corp!HandledId][d] \in Nat /\ spans[Corp!HandledId][d] \in Nat
    BY <1>2 DEF CorporaInv, Shapes
  <2>5. QED
    BY <1>2, <2>2, <2>3, <2>4 DEF CorporaInv, VectorsOfChunks
<1>4. chunker.at # "writing"
  <2>1. chunker.at = "writing" => Corp!Chunking \in Documents
    BY DEF CorporaInv, EventsFollow, Corp!Chunking, Corp!Source
  <2>2. chunker.at = "writing" => Corp!Incomplete(Corp!Chunking)
    BY DEF CorporaInv, WritesAlone, Corp!Incomplete, Corp!Source, EventsFollow
  <2>3. QED
    BY <2>1, <2>2
<1>5. EventsFollow' /\ Shapes' /\ WritesAlone'
  <2>1. Corp!NoProgress \in Corp!Progress
    BY DEF Corp!NoProgress, Corp!Progress, Corp!Assumptions
  <2>2. EventsFollow' /\ WritesAlone'
    BY <1>1, <1>4 DEF CorporaInv, EventsFollow, WritesAlone
  <2>3. current' \in 0 .. MaxCorpora /\ building' \in {0, current' + 1} /\ building' <= MaxCorpora
    BY <1>1, <1>2 DEF Corp!Ids, Corp!Assumptions
  <2>4. QED
    BY <1>1, <2>1, <2>2, <2>3 DEF CorporaInv, Shapes, Chunkers
<1>6. EmptyAhead'
  <2> SUFFICES ASSUME NEW n \in Corp!Ids, n > current'
               PROVE  spans[n] = Corp!NoTexts /\ vectors[n] = Corp!NoTexts
    BY <1>1 DEF EmptyAhead
  <2>1. n > current /\ n # building
    BY <1>1, <1>2 DEF Corp!Ids, Corp!Assumptions
  <2>2. QED
    BY <2>1 DEF CorporaInv, EmptyAhead
<1>7. RowsExact' /\ Inherited'
  BY <1>1 DEF RowsExact, RowExact, Inherited, Corp!NoProgress
<1>8. Announced'
  <2> SUFFICES ASSUME NEW k \in 1 .. Len(units)
               PROVE  /\ units[k].source \in 1 .. Len(prepared)
                      /\ units[k].corpora \in 1 .. Corp!HandledId
                      /\ spans[units[k].corpora][prepared[units[k].source]] > 0
    BY <1>1 DEF Announced
  <2>1. units[k].source \in 1 .. Len(prepared)
    BY DEF CorporaInv, Announced
  <2>2. CASE units[k].corpora \in 1 .. current
    BY <1>2, <2>1, <2>2 DEF CorporaInv, Announced
  <2>3. CASE units[k].corpora \notin 1 .. current
    <3> DEFINE d == prepared[units[k].source]
    <3>1. /\ units[k].corpora = building
          /\ progress[d].source = units[k].source /\ progress[d].completed
      BY <2>3 DEF CorporaInv, Announced
    <3>2. d \in Documents
      BY <2>1 DEF CorporaInv, EventsFollow
    <3>3. progress[d].source # 0
      BY <2>1, <3>1 DEF CorporaInv, EventsFollow
    <3>4. spans[building][d] = TextBatches[d] /\ TextBatches[d] \in Nat \ {0}
      BY <3>1, <3>2, <3>3 DEF CorporaInv, RowsExact, RowExact, Corp!Assumptions,
         Corp!MergedOver
    <3>5. QED
      BY <1>2, <2>1, <3>1, <3>4
  <2>4. QED
    BY <2>2, <2>3
<1>9. ActivatedForEvent'
  <2> SUFFICES ASSUME NEW n \in 1 .. Corp!HandledId
               PROVE  \E k \in 1 .. Len(units) : units[k].corpora = n
    BY <1>1 DEF ActivatedForEvent
  <2>1. CASE n = Corp!HandledId
    BY <1>2, <2>1
  <2>2. CASE n \in 1 .. current
    BY <2>2 DEF CorporaInv, ActivatedForEvent
  <2>3. QED
    BY <1>2, <2>1, <2>2
<1>10. VectorsOfChunks'
  BY <1>1, <1>2, <1>3 DEF CorporaInv, VectorsOfChunks, Corp!Ids, Corp!Assumptions
<1>11. Vectored'
  <2> SUFFICES ASSUME NEW n \in Corp!Ids, AllRead(n)', NEW d \in Documents
               PROVE  spans[n][d] <= vectors[n][d] \/ MergedLate(n, d)
    BY <1>1 DEF Vectored, MergedLate, Corp!AnnouncedFor
  <2>1. AllRead(n)
    BY <1>1 DEF AllRead, Taken
  <2>2. QED
    BY <2>1 DEF CorporaInv, Vectored
<1>12. Corp!TextsWhole'
  <2> SUFFICES ASSUME NEW n \in 1 .. Corp!HandledId, NEW d \in Documents
               PROVE  /\ spans[n][d] \in {0, TextBatches[d]}
                      /\ n > 1 /\ spans[n - 1][d] > 0 => spans[n][d] > 0
    BY <1>1 DEF Corp!TextsWhole
  <2>1. CASE n \in 1 .. current
    BY <2>1 DEF CorporaInv, Corp!TextsWhole
  <2>2. CASE n = Corp!HandledId
    <3>1. n > 1 /\ spans[n - 1][d] > 0 => spans[n][d] > 0
      BY <1>2, <2>2 DEF CorporaInv, Inherited
    <3>2. QED
      BY <1>3, <2>2, <3>1
  <2>3. QED
    BY <1>2, <2>1, <2>2
<1>13. QED
  BY <1>5, <1>6, <1>7, <1>8, <1>9, <1>10, <1>11, <1>12 DEF CorporaInv

\* What BeginCorporaBuild leaves: the building Corpora holds what the rows and
\* the Current Corpora say.
LEMMA BegunBuild ==
  ASSUME Corp!Assumptions, CorporaInv, Corp!BuildId \in Corp!Ids
  PROVE  /\ Corp!BuildId = current + 1 /\ (building # 0 => Corp!BuildId = building)
         /\ Corp!Begun \in [Corp!Ids -> [Documents -> Nat]]
         /\ \A n \in Corp!Ids \ {Corp!BuildId} : Corp!Begun[n] = spans[n]
         /\ building # 0 => Corp!Begun = spans
         /\ \A d \in Documents :
              /\ progress[d].source = 0 => Corp!Begun[Corp!BuildId][d] \in {0, TextBatches[d]}
              /\ building = 0 => progress[d].source = 0
              /\ current # 0 /\ spans[current][d] > 0 =>
                   Corp!Begun[Corp!BuildId][d] > 0 \/ Corp!Incomplete(d)
              /\ vectors[Corp!BuildId][d] <= TextBatches[d]
              /\ vectors[Corp!BuildId][d] > 0 =>
                   Corp!Begun[Corp!BuildId][d] > 0 \/ Corp!Incomplete(d)
         /\ building = 0 => vectors[Corp!BuildId] = Corp!NoTexts
<1>1. Corp!BuildId = current + 1 /\ (building # 0 => Corp!BuildId = building) /\ current \in Nat
  BY DEF Corp!BuildId, CorporaInv, Shapes, Corp!Ids, Corp!Assumptions
<1>2. current # 0 => current \in Corp!Ids /\ current # Corp!BuildId
  BY <1>1 DEF Corp!Ids, Corp!Assumptions
<1>3. Corp!Begun \in [Corp!Ids -> [Documents -> Nat]]
      /\ (\A n \in Corp!Ids \ {Corp!BuildId} : Corp!Begun[n] = spans[n])
      /\ (building # 0 => Corp!Begun = spans)
      /\ (building = 0 /\ current = 0 => Corp!Begun = spans)
      /\ (building = 0 /\ current # 0 => Corp!Begun[Corp!BuildId] = spans[current])
  BY <1>1, <1>2 DEF Corp!Begun, CorporaInv, Shapes
<1>4. building = 0 => vectors[Corp!BuildId] = Corp!NoTexts /\ spans[Corp!BuildId] = Corp!NoTexts
  BY <1>1 DEF CorporaInv, EmptyAhead
<1>5. ASSUME NEW d \in Documents
      PROVE  /\ progress[d].source = 0 => Corp!Begun[Corp!BuildId][d] \in {0, TextBatches[d]}
             /\ building = 0 => progress[d].source = 0
             /\ current # 0 /\ spans[current][d] > 0 =>
                  Corp!Begun[Corp!BuildId][d] > 0 \/ Corp!Incomplete(d)
             /\ vectors[Corp!BuildId][d] <= TextBatches[d]
             /\ vectors[Corp!BuildId][d] > 0 =>
                  Corp!Begun[Corp!BuildId][d] > 0 \/ Corp!Incomplete(d)
  <2>1. TextBatches[d] \in Nat \ {0} /\ (building = 0 => progress[d].source = 0)
    BY DEF Corp!Assumptions, CorporaInv, RowsExact, RowExact
  <2>2. CASE building # 0
    BY <1>1, <1>3, <2>1, <2>2 DEF CorporaInv, RowsExact, RowExact, Inherited, VectorsOfChunks
  <2>3. CASE building = 0
    <3>1. current # 0 => spans[current][d] \in {0, TextBatches[d]}
      BY <1>1 DEF CorporaInv, Corp!TextsWhole
    <3>2. vectors[Corp!BuildId][d] = 0 /\ (current = 0 => Corp!Begun[Corp!BuildId][d] = 0)
      BY <1>3, <1>4, <2>3 DEF Corp!NoTexts
    <3>3. QED
      BY <1>3, <2>1, <2>3, <3>1, <3>2
  <2>4. QED
    BY <2>2, <2>3
<1>6. QED
  BY <1>1, <1>3, <1>4, <1>5


\* A transaction that begins the build, if none is begun, and writes the spans
\* of Text d and its row.
Writing(d) ==
  /\ Corp!BuildId \in Corp!Ids
  /\ UNCHANGED <<recorded, prepared, chunked, assembled, current, vectors, assembler, boundary>>
  /\ building' = Corp!BuildId
  /\ spans' \in [Corp!Ids -> [Documents -> Nat]]
  /\ \A n \in Corp!Ids \ {Corp!BuildId} : spans'[n] = spans[n]
  /\ \A c \in Documents \ {d} : spans'[Corp!BuildId][c] = Corp!Begun[Corp!BuildId][c]
  /\ progress' \in [Documents -> Corp!Progress]
  /\ \A c \in Documents \ {d} : progress'[c] = progress[c]
  /\ RowExact(d)'
  /\ spans'[Corp!BuildId][d] > 0 \/ Corp!Incomplete(d)'
  /\ progress[d].completed => progress'[d] = progress[d]
  /\ \/ /\ units' = units
        /\ \/ d \in boundary /\ progress'[d] = progress[d] /\ Corp!Begun[Corp!BuildId][d] = 0
           \/ Corp!Incomplete(d)'
           \/ progress'[d] = progress[d] /\ spans'[Corp!BuildId][d] = Corp!Begun[Corp!BuildId][d]
     \/ /\ units' = Append(units, [source |-> Corp!Source, corpora |-> Corp!BuildId])
        /\ Corp!Source \in 1 .. Len(prepared) /\ prepared[Corp!Source] = d
        /\ progress'[d].source = Corp!Source /\ progress'[d].completed
  /\ chunker' \in Chunkers
  /\ chunker'.at # "idle" => chunked < Len(prepared)
  /\ WritesAlone'

LEMMA WritingInv ==
  ASSUME Corp!Assumptions, CorporaInv, NEW d \in Documents, Writing(d)
  PROVE  CorporaInv'
<1>1. /\ Corp!BuildId \in Corp!Ids /\ building' = Corp!BuildId
      /\ UNCHANGED <<recorded, prepared, chunked, assembled, current, vectors, assembler,
                     boundary>>
      /\ \A n \in Corp!Ids \ {Corp!BuildId} : spans'[n] = spans[n]
      /\ \A c \in Documents \ {d} : spans'[Corp!BuildId][c] = Corp!Begun[Corp!BuildId][c]
      /\ \A c \in Documents \ {d} : progress'[c] = progress[c]
      /\ spans'[Corp!BuildId][d] > 0 \/ Corp!Incomplete(d)'
      /\ progress[d].completed => progress'[d] = progress[d]
  BY DEF Writing
<1>2. /\ Corp!BuildId = current + 1 /\ current \in Nat /\ Corp!BuildId # 0
      /\ building # 0 => Corp!BuildId = building /\ Corp!Begun = spans
      /\ \A c \in Documents :
           /\ progress[c].source = 0 => Corp!Begun[Corp!BuildId][c] \in {0, TextBatches[c]}
           /\ building = 0 => progress[c].source = 0
           /\ current # 0 /\ spans[current][c] > 0 =>
                Corp!Begun[Corp!BuildId][c] > 0 \/ Corp!Incomplete(c)
           /\ vectors[Corp!BuildId][c] <= TextBatches[c]
           /\ vectors[Corp!BuildId][c] > 0 =>
                Corp!Begun[Corp!BuildId][c] > 0 \/ Corp!Incomplete(c)
      /\ building = 0 => vectors[Corp!BuildId] = Corp!NoTexts
      /\ \A n \in 1 .. current : n \in Corp!Ids \ {Corp!BuildId}
  <2>1. Corp!BuildId = current + 1 /\ current \in Nat /\ Corp!BuildId # 0
    BY <1>1, BegunBuild DEF CorporaInv, Shapes, Corp!Assumptions
  <2>2. \A n \in 1 .. current : n \in Corp!Ids \ {Corp!BuildId}
    BY <1>1, <2>1 DEF Corp!Ids, Corp!Assumptions
  <2>3. QED
    BY <1>1, <2>1, <2>2, BegunBuild
<1>3. \A c \in Documents \ {d} : Corp!Incomplete(c)' <=> Corp!Incomplete(c)
  BY <1>1 DEF Corp!Incomplete
<1>4. /\ units' \in Seq(Announcements) /\ Len(units') >= Len(units) /\ Len(units) \in Nat
      /\ \A k \in 1 .. Len(units) : units'[k] = units[k]
      /\ Len(units') \in Nat
      /\ \A k \in 1 .. Len(units') : k \notin 1 .. Len(units) =>
           /\ units'[k] = [source |-> Corp!Source, corpora |-> Corp!BuildId]
           /\ Corp!Source \in 1 .. Len(prepared) /\ prepared[Corp!Source] = d
           /\ progress'[d].source = Corp!Source /\ progress'[d].completed
  <2>1. units \in Seq(Announcements) /\ Len(units) \in Nat
    BY DEF CorporaInv, Shapes
  <2>2. CASE units' = units
    BY <2>1, <2>2
  <2>3. CASE units' # units
    <3>1. /\ units' = Append(units, [source |-> Corp!Source, corpora |-> Corp!BuildId])
          /\ Corp!Source \in 1 .. Len(prepared) /\ prepared[Corp!Source] = d
          /\ progress'[d].source = Corp!Source /\ progress'[d].completed
      BY <2>3 DEF Writing
    <3>2. Corp!Source \in 1 .. MaxRecorded
      BY <3>1 DEF CorporaInv, EventsFollow, Corp!Assumptions
    <3>3. [source |-> Corp!Source, corpora |-> Corp!BuildId] \in Announcements
      BY <1>1, <3>2 DEF Announcements
    <3>4. QED
      BY <2>1, <3>1, <3>3
  <2>4. QED
    BY <2>2, <2>3
<1>5. Shapes'
  <2>1. Corp!BuildId <= MaxCorpora
    BY <1>1 DEF Corp!Ids, Corp!Assumptions
  <2>2. QED
    BY <1>1, <1>2, <1>4, <2>1 DEF CorporaInv, Shapes, Writing, Chunkers
<1>6. EventsFollow' /\ WritesAlone'
  BY <1>1, <1>4 DEF CorporaInv, EventsFollow, Writing
<1>7. EmptyAhead'
  <2> SUFFICES ASSUME NEW n \in Corp!Ids, n > current, n # Corp!BuildId
               PROVE  spans'[n] = Corp!NoTexts /\ vectors[n] = Corp!NoTexts
    BY <1>1 DEF EmptyAhead
  <2>1. n # building
    BY <1>2 DEF Corp!Ids, Corp!Assumptions
  <2>2. QED
    BY <1>1, <2>1 DEF CorporaInv, EmptyAhead
<1>8. RowsExact'
  <2> SUFFICES ASSUME NEW c \in Documents PROVE RowExact(c)'
    BY DEF RowsExact
  <2>1. CASE c = d
    BY <2>1 DEF Writing
  <2>2. CASE c # d
    <3>1. RowExact(c) /\ progress'[c] = progress[c]
      BY <1>1, <2>2 DEF CorporaInv, RowsExact
    <3>2. building # 0 => building' = building /\ spans'[building][c] = spans[building][c]
      BY <1>1, <1>2, <2>2
    <3>3. building # 0 => (Corp!MergedOver(c) => Corp!MergedOver(c)')
      BY <1>1, <3>1, <3>2 DEF Corp!MergedOver
    <3>4. CASE progress[c].source = 0
      BY <1>1, <1>2, <2>2, <3>1, <3>4 DEF RowExact
    <3>5. CASE progress[c].source # 0
      BY <1>1, <3>1, <3>2, <3>3, <3>5 DEF RowExact
    <3>6. QED
      BY <3>4, <3>5
  <2>3. QED
    BY <2>1, <2>2
<1>9. Inherited'
  <2> SUFFICES ASSUME current # 0, NEW c \in Documents, spans[current][c] > 0
               PROVE  spans'[Corp!BuildId][c] > 0 \/ Corp!Incomplete(c)'
    <3>1. current # 0 => spans'[current] = spans[current]
      <4>1. current # 0 => current \in 1 .. current
        BY <1>2
      <4>2. QED
        BY <1>1, <1>2, <4>1
    <3>2. QED
      BY <1>1, <3>1 DEF Inherited
  <2>1. QED
    BY <1>1, <1>2, <1>3
<1>10. Announced'
  <2> SUFFICES ASSUME NEW k \in 1 .. Len(units')
               PROVE  /\ units'[k].source \in 1 .. Len(prepared)
                      /\ \/ /\ units'[k].corpora \in 1 .. current
                            /\ spans'[units'[k].corpora][prepared[units'[k].source]] > 0
                         \/ /\ units'[k].corpora = Corp!BuildId
                            /\ progress'[prepared[units'[k].source]].source = units'[k].source
                            /\ progress'[prepared[units'[k].source]].completed
    BY <1>1, <1>2 DEF Announced
  <2>1. CASE k \notin 1 .. Len(units)
    BY <1>4, <2>1
  <2>2. CASE k \in 1 .. Len(units)
    <3>1. units'[k] = units[k] /\ units[k].source \in 1 .. Len(prepared)
      BY <1>4, <2>2 DEF CorporaInv, Announced
    <3>2. prepared[units[k].source] \in Documents
      BY <3>1 DEF CorporaInv, EventsFollow
    <3>3. CASE units[k].corpora \in 1 .. current
      <4>1. units[k].corpora \in Corp!Ids \ {Corp!BuildId} /\ units[k].corpora # building
        BY <1>2, <3>3
      <4>2. spans[units[k].corpora][prepared[units[k].source]] > 0
        BY <2>2, <4>1 DEF CorporaInv, Announced
      <4>3. QED
        BY <1>1, <3>1, <3>3, <4>1, <4>2
    <3>4. CASE units[k].corpora \notin 1 .. current
      <4>1. /\ units[k].corpora = Corp!BuildId
            /\ progress[prepared[units[k].source]].source = units[k].source
            /\ progress[prepared[units[k].source]].completed
        BY <1>2, <2>2, <3>4 DEF CorporaInv, Announced
      <4>2. progress'[prepared[units[k].source]] = progress[prepared[units[k].source]]
        BY <1>1, <3>2, <4>1
      <4>3. QED
        BY <3>1, <4>1, <4>2
    <3>5. QED
      BY <3>3, <3>4
  <2>3. QED
    BY <2>1, <2>2
<1>11. ActivatedForEvent'
  <2>1. \A n \in 1 .. current : \E k \in 1 .. Len(units') : units'[k].corpora = n
    BY <1>4 DEF CorporaInv, ActivatedForEvent
  <2>2. QED
    BY <1>1, <2>1 DEF ActivatedForEvent
<1>12. VectorsOfChunks'
  <2> SUFFICES ASSUME NEW n \in Corp!Ids, NEW c \in Documents
               PROVE  /\ n <= current => vectors[n][c] <= spans'[n][c]
                      /\ n = Corp!BuildId =>
                           /\ vectors[n][c] <= TextBatches[c]
                           /\ vectors[n][c] > 0 => spans'[n][c] > 0 \/ Corp!Incomplete(c)'
    BY <1>1 DEF VectorsOfChunks
  <2>1. n <= current => n # Corp!BuildId
    BY <1>2 DEF Corp!Ids, Corp!Assumptions
  <2>2. QED
    BY <1>1, <1>2, <1>3, <2>1 DEF CorporaInv, VectorsOfChunks
<1>13. Vectored'
  <2> SUFFICES ASSUME NEW n \in Corp!Ids, AllRead(n)', NEW c \in Documents
               PROVE  \/ spans'[n][c] <= vectors[n][c]
                      \/ n = Corp!BuildId /\ Corp!Incomplete(c)'
                      \/ MergedLate(n, c)'
    BY <1>1 DEF Vectored
  <2>1. Taken' = Taken /\ Taken \in Nat /\ Taken <= Len(units)
    BY <1>1 DEF Taken, CorporaInv, EventsFollow
  <2>2. AllRead(n)
    <3>1. PICK k \in 1 .. Taken : units'[k].corpora = n
      BY <2>1 DEF AllRead
    <3>2. k \in 1 .. Len(units) /\ units[k].corpora = n
      BY <1>4, <2>1, <3>1
    <3>3. ASSUME NEW i \in 1 .. Len(units), units[i].corpora = n PROVE i <= Taken
      <4>1. i \in 1 .. Len(units') /\ units'[i].corpora = n
        BY <1>4, <3>3
      <4>2. QED
        BY <2>1, <4>1 DEF AllRead
    <3>4. QED
      BY <3>1, <3>2, <3>3 DEF AllRead
  <2>3. CASE n # Corp!BuildId
    <3>1. n # building
      BY <1>2, <2>3 DEF Corp!Ids
    <3>2. spans[n][c] <= vectors[n][c] \/ MergedLate(n, c)
      BY <2>2, <3>1 DEF CorporaInv, Vectored
    <3>3. Corp!AnnouncedFor(c, n)' => Corp!AnnouncedFor(c, n)
      <4>1. SUFFICES ASSUME NEW k \in 1 .. Len(units'), units'[k].corpora = n,
                            prepared[units'[k].source] = c
                     PROVE  Corp!AnnouncedFor(c, n)
        BY <1>1 DEF Corp!AnnouncedFor
      <4>2. k \in 1 .. Len(units)
        BY <1>4, <2>3, <4>1
      <4>3. QED
        BY <1>4, <4>1, <4>2 DEF Corp!AnnouncedFor
    <3>4. MergedLate(n, c) => MergedLate(n, c)'
      BY <1>1, <3>3 DEF MergedLate
    <3>5. QED
      BY <1>1, <2>3, <3>2, <3>4
  <2>4. CASE n = Corp!BuildId
    <3>1. building # 0
      <4>1. PICK k \in 1 .. Taken : units[k].corpora = n
        BY <2>2 DEF AllRead
      <4>2. k \in 1 .. Len(units)
        BY <2>1, <1>4
      <4>3. units[k].corpora \in 1 .. current \/ building # 0
        BY <4>2 DEF CorporaInv, Announced
      <4>4. QED
        BY <1>2, <2>4, <4>1, <4>3
    <3>2. units' = units
      <4>1. SUFFICES ASSUME units' # units PROVE FALSE
        OBVIOUS
      <4>2. units' = Append(units, [source |-> Corp!Source, corpora |-> Corp!BuildId])
        BY <4>1 DEF Writing
      <4>3. Len(units') = Len(units) + 1 /\ units'[Len(units')].corpora = Corp!BuildId
        BY <4>2, <1>4 DEF CorporaInv, Shapes
      <4>4. Len(units') <= Taken
        BY <1>4, <2>1, <2>4, <4>3 DEF AllRead
      <4>5. QED
        BY <1>4, <2>1, <4>3, <4>4
    <3>3. spans[n][c] <= vectors[n][c] \/ Corp!Incomplete(c) \/ MergedLate(n, c)
      BY <2>2 DEF CorporaInv, Vectored
    <3>4. MergedLate(n, c) => MergedLate(n, c)'
      BY <1>1, <3>2 DEF MergedLate, Corp!AnnouncedFor
    <3>5. CASE c # d
      BY <1>1, <1>2, <1>3, <2>4, <3>1, <3>3, <3>4, <3>5
    <3>6. CASE c = d /\ progress'[d] = progress[d]
                    /\ spans'[Corp!BuildId][d] = Corp!Begun[Corp!BuildId][d]
      BY <1>2, <2>4, <3>1, <3>3, <3>4, <3>6 DEF Corp!Incomplete
    <3>7. CASE c = d /\ d \in boundary /\ progress'[d] = progress[d]
                    /\ Corp!Begun[Corp!BuildId][d] = 0
      <4>1. Corp!Incomplete(d) => Corp!Incomplete(d)'
        BY <3>7 DEF Corp!Incomplete
      <4>2. CASE ~Corp!Incomplete(d)
        <5>1. vectors[n][d] = 0
          <6>1. ~(vectors[n][d] > 0)
            BY <1>2, <2>4, <3>7, <4>2
          <6>2. vectors[n][d] \in Nat
            BY DEF CorporaInv, Shapes
          <6>3. QED
            BY <6>1, <6>2
        <5>2. progress[d].source = 0
          BY <1>2, <3>1, <3>7, <4>2
          DEF CorporaInv, RowsExact, RowExact, Corp!Incomplete, Corp!MergedOver, Corp!Assumptions
        <5>3. ~Corp!AnnouncedFor(d, n)
          <6>1. SUFFICES ASSUME NEW k \in 1 .. Len(units), units[k].corpora = n,
                                prepared[units[k].source] = d
                         PROVE  FALSE
            BY DEF Corp!AnnouncedFor
          <6>2. units[k].corpora \notin 1 .. current
            BY <1>2, <2>4, <6>1
          <6>3. units[k].source \in 1 .. Len(prepared) /\ progress[d].source = units[k].source
            BY <6>1, <6>2 DEF CorporaInv, Announced
          <6>4. QED
            BY <5>2, <6>3
        <5>4. MergedLate(n, d)
          BY <3>7, <5>1, <5>3 DEF MergedLate
        <5>5. QED
          BY <3>4, <3>7, <5>4
      <4>3. QED
        BY <2>4, <3>7, <4>1, <4>2
    <3>8. CASE c = d /\ Corp!Incomplete(d)'
      BY <2>4, <3>8
    <3>9. \/ d \in boundary /\ progress'[d] = progress[d] /\ Corp!Begun[Corp!BuildId][d] = 0
          \/ Corp!Incomplete(d)'
          \/ progress'[d] = progress[d] /\ spans'[Corp!BuildId][d] = Corp!Begun[Corp!BuildId][d]
      <4>1. units' # Append(units, [source |-> Corp!Source, corpora |-> Corp!BuildId])
        BY <3>2, <1>4 DEF CorporaInv, Shapes
      <4>2. QED
        BY <4>1 DEF Writing
    <3>10. QED
      BY <3>5, <3>6, <3>7, <3>8, <3>9
  <2>5. QED
    BY <2>3, <2>4
<1>14. Corp!TextsWhole'
  <2> SUFFICES ASSUME NEW n \in 1 .. current, NEW c \in Documents
               PROVE  /\ spans'[n][c] \in {0, TextBatches[c]}
                      /\ n > 1 /\ spans'[n - 1][c] > 0 => spans'[n][c] > 0
    BY <1>1 DEF Corp!TextsWhole
  <2>1. spans'[n] = spans[n] /\ (n > 1 => spans'[n - 1] = spans[n - 1])
    <3>1. n > 1 => n - 1 \in 1 .. current
      BY <1>2
    <3>2. QED
      BY <1>1, <1>2, <3>1
  <2>2. QED
    BY <2>1 DEF CorporaInv, Corp!TextsWhole
<1>15. QED
  BY <1>5, <1>6, <1>7, <1>8, <1>9, <1>10, <1>11, <1>12, <1>13, <1>14 DEF CorporaInv

\* A Text is merged beside its own row, which it completes or is merged over.
LEMMA MergeTextUnitsInv ==
  ASSUME Corp!Assumptions, CorporaInv, NEW d \in Documents, Corp!MergeTextUnits(d)
  PROVE  CorporaInv'
<1>1. /\ Corp!BuildId \in Corp!Ids /\ chunker.at = "merging" /\ d \in chunker.left
      /\ UNCHANGED <<recorded, prepared, units, chunked, assembled, current, progress, vectors,
                     assembler, boundary>>
      /\ building' = Corp!BuildId
      /\ Corp!Begun[Corp!BuildId][d] \in {0, TextBatches[d]}
      /\ spans' = [Corp!Begun EXCEPT ![Corp!BuildId][d] = TextBatches[d]]
      /\ chunker' = [chunker EXCEPT !.left = @ \ {d}]
  BY DEF Corp!MergeTextUnits, Corp!journalVars, Corp!vectorVars
<1>2. /\ Corp!Begun \in [Corp!Ids -> [Documents -> Nat]]
      /\ \A n \in Corp!Ids \ {Corp!BuildId} : Corp!Begun[n] = spans[n]
      /\ building # 0 => Corp!BuildId = building /\ Corp!Begun = spans
      /\ building = 0 => progress[d].source = 0
  BY <1>1, BegunBuild
<1>3. /\ TextBatches[d] \in Nat \ {0} /\ d \in boundary
      /\ chunker \in Chunkers /\ chunked < Len(prepared)
      /\ progress[d] \in Corp!Progress /\ Len(prepared) \in Nat
  <2>1. chunker \in Chunkers /\ progress[d] \in Corp!Progress
    BY DEF CorporaInv, Shapes
  <2>2. d \in boundary
    BY <1>1, <2>1 DEF Chunkers
  <2>3. chunked < Len(prepared) /\ Len(prepared) \in Nat
    BY <1>1 DEF CorporaInv, EventsFollow
  <2>4. TextBatches[d] \in Nat \ {0}
    BY DEF Corp!Assumptions
  <2>5. QED
    BY <2>1, <2>2, <2>3, <2>4
<1>4. /\ spans' \in [Corp!Ids -> [Documents -> Nat]]
      /\ spans'[Corp!BuildId][d] = TextBatches[d]
      /\ \A n \in Corp!Ids \ {Corp!BuildId} : spans'[n] = spans[n]
      /\ \A c \in Documents \ {d} : spans'[Corp!BuildId][c] = Corp!Begun[Corp!BuildId][c]
  BY <1>1, <1>2, <1>3
<1>5. chunker' \in Chunkers /\ chunker'.at = "merging"
  BY <1>1, <1>3 DEF Chunkers
<1>6. RowExact(d)'
  <2>1. CASE progress[d].source = 0
    BY <1>1, <1>3, <1>4, <2>1 DEF CorporaInv, RowsExact, RowExact
  <2>2. CASE progress[d].source # 0
    <3>1. building # 0 /\ Corp!BuildId = building /\ Corp!Begun = spans
      BY <1>2, <2>2
    <3>2. /\ spans[building][d] = progress[d].next \/ Corp!MergedOver(d)
          /\ spans[building][d] \in {0, TextBatches[d]}
          /\ progress[d].next \in Nat
      BY <1>1, <1>3, <2>2, <3>1 DEF CorporaInv, RowsExact, RowExact, Corp!Progress
    <3>3. ~progress[d].completed => progress[d].next = 0
      BY <1>3, <2>2, <3>2 DEF CorporaInv, RowsExact, RowExact, Corp!MergedOver
    <3>4. ~progress[d].completed => Corp!MergedOver(d)'
      BY <1>1, <1>3, <1>4, <3>1, <3>3 DEF Corp!MergedOver
    <3>5. progress[d].completed => progress[d].next = TextBatches[d]
      BY <2>2 DEF CorporaInv, RowsExact, RowExact
    <3>6. QED
      BY <1>1, <1>4, <2>2, <3>1, <3>4, <3>5 DEF CorporaInv, RowsExact, RowExact
  <2>3. QED
    BY <2>1, <2>2
<1>7. WritesAlone'
  BY <1>5 DEF WritesAlone
<1>8. spans'[Corp!BuildId][d] > 0
  BY <1>3, <1>4
<1>9. \/ Corp!Begun[Corp!BuildId][d] = 0
      \/ spans'[Corp!BuildId][d] = Corp!Begun[Corp!BuildId][d]
  BY <1>1, <1>4
<1>10. Writing(d)
  BY <1>1, <1>3, <1>4, <1>5, <1>6, <1>7, <1>8, <1>9 DEF Writing, CorporaInv, Shapes
<1>11. QED
  BY <1>10, WritingInv

LEMMA FirstRow ==
  \A e : [Corp!NoProgress EXCEPT !.source = e] =
          [source |-> e, next |-> 0, completed |-> FALSE]
<1>1. \A e, b : [[source |-> 0, next |-> 0, completed |-> b] EXCEPT !.source = e] =
                [source |-> e, next |-> 0, completed |-> b]
  OBVIOUS
<1>2. QED
  BY <1>1 DEF Corp!NoProgress

LEMMA OpenChunkingInv ==
  ASSUME Corp!Assumptions, CorporaInv, Corp!OpenChunking
  PROVE  CorporaInv'
<1>0. PICK d \in Documents : d = Corp!Chunking
  <2>1. chunked < Len(prepared)
    BY DEF Corp!OpenChunking, CorporaInv, EventsFollow
  <2>2. QED
    BY <2>1 DEF CorporaInv, EventsFollow, Corp!Chunking, Corp!Source
<1>1. /\ Corp!BuildId \in Corp!Ids /\ chunker.at = "merging" /\ chunked < Len(prepared)
      /\ UNCHANGED <<recorded, prepared, units, chunked, assembled, current, vectors, assembler,
                     boundary>>
      /\ building' = Corp!BuildId
  BY DEF Corp!OpenChunking, Corp!journalVars, Corp!vectorVars, CorporaInv, EventsFollow
<1>2. /\ Corp!Begun \in [Corp!Ids -> [Documents -> Nat]]
      /\ \A n \in Corp!Ids \ {Corp!BuildId} : Corp!Begun[n] = spans[n]
      /\ building # 0 => Corp!BuildId = building /\ Corp!Begun = spans
      /\ Corp!BuildId \in 1 .. MaxCorpora
  BY <1>1, BegunBuild DEF Corp!Ids
<1>3. /\ Corp!Source \in 1 .. Len(prepared) /\ Corp!Source \in 1 .. MaxRecorded
      /\ d = prepared[Corp!Source] /\ d \in Documents
      /\ TextBatches[d] \in Nat \ {0}
  BY <1>0, <1>1 DEF CorporaInv, EventsFollow, Corp!Source, Corp!Chunking, Corp!Assumptions
<1>4. CASE progress[d].source = Corp!Source
  <2>1. /\ spans' = Corp!Begun /\ progress' = progress
        /\ chunker' = [at |-> IF progress[d].completed THEN "done" ELSE "writing",
                       corpora |-> Corp!BuildId, next |-> progress[d].next, left |-> {}]
    BY <1>0, <1>3, <1>4 DEF Corp!OpenChunking
  <2>2. progress[d] \in Corp!Progress /\ progress[d].source # 0 /\ building # 0
    BY <1>3, <1>4 DEF CorporaInv, Shapes, RowsExact, RowExact
  <2>3. RowExact(d)'
    <3>1. Corp!BuildId = building /\ spans' = spans
      BY <1>2, <2>1, <2>2
    <3>2. Corp!MergedOver(d) => Corp!MergedOver(d)'
      BY <1>1, <2>1, <3>1 DEF Corp!MergedOver
    <3>3. QED
      BY <1>1, <2>1, <2>2, <3>1, <3>2 DEF CorporaInv, RowsExact, RowExact
  <2>4. WritesAlone'
    BY <1>0, <1>1, <1>4, <2>1 DEF WritesAlone, Corp!Chunking, Corp!Source
  <2>5. spans'[Corp!BuildId][d] > 0 \/ Corp!Incomplete(d)'
    BY <1>2, <1>3, <2>1, <2>2
    DEF CorporaInv, RowsExact, RowExact, Corp!Incomplete, Corp!MergedOver
  <2>6. chunker' \in Chunkers
    BY <1>2, <2>1, <2>2 DEF Corp!Progress, Chunkers
  <2>7. Writing(d)
    BY <1>1, <1>2, <2>1, <2>3, <2>4, <2>5, <2>6 DEF Writing, CorporaInv, Shapes
  <2>8. QED
    BY <1>3, <2>7, WritingInv
<1>5. CASE progress[d].source # Corp!Source
  <2>1. /\ progress[d].source = 0
        /\ spans' = [Corp!Begun EXCEPT ![Corp!BuildId][d] = 0]
        /\ progress' = [progress EXCEPT ![d] = [Corp!NoProgress EXCEPT !.source = Corp!Source]]
        /\ chunker' = [at |-> "writing", corpora |-> Corp!BuildId, next |-> 0, left |-> {}]
    BY <1>0, <1>3, <1>5 DEF Corp!OpenChunking
  <2>2. /\ progress' \in [Documents -> Corp!Progress]
        /\ progress'[d] = [source |-> Corp!Source, next |-> 0, completed |-> FALSE]
        /\ \A c \in Documents \ {d} : progress'[c] = progress[c]
    <3>1. [Corp!NoProgress EXCEPT !.source = Corp!Source] =
            [source |-> Corp!Source, next |-> 0, completed |-> FALSE]
      BY FirstRow
    <3>2. [source |-> Corp!Source, next |-> 0, completed |-> FALSE] \in Corp!Progress
      BY <1>3 DEF Corp!Progress, Corp!Assumptions
    <3>3. QED
      BY <1>3, <2>1, <3>1, <3>2 DEF CorporaInv, Shapes
  <2>3. /\ spans' \in [Corp!Ids -> [Documents -> Nat]]
        /\ spans'[Corp!BuildId][d] = 0
        /\ \A n \in Corp!Ids \ {Corp!BuildId} : spans'[n] = spans[n]
        /\ \A c \in Documents \ {d} : spans'[Corp!BuildId][c] = Corp!Begun[Corp!BuildId][c]
    BY <1>1, <1>2, <1>3, <2>1
  <2>4. RowExact(d)'
    BY <1>1, <1>2, <1>3, <2>2, <2>3 DEF RowExact
  <2>5. WritesAlone'
    BY <1>0, <1>1, <2>1, <2>2 DEF WritesAlone, Corp!Chunking, Corp!Source
  <2>6. Corp!Incomplete(d)'
    BY <1>3, <2>2 DEF Corp!Incomplete
  <2>7. ~progress[d].completed
    BY <1>3, <2>1 DEF CorporaInv, RowsExact, RowExact, Corp!NoProgress
  <2>8. chunker' \in Chunkers
    BY <1>2, <2>1 DEF Corp!Assumptions, Chunkers
  <2>9. Writing(d)
    BY <1>1, <2>2, <2>3, <2>4, <2>5, <2>6, <2>7, <2>8 DEF Writing
  <2>10. QED
    BY <1>3, <2>9, WritingInv
<1>6. QED
  BY <1>4, <1>5

LEMMA WritesInv ==
  ASSUME Corp!Assumptions, CorporaInv, Corp!WriteBatch \/ Corp!WriteFinal
  PROVE  CorporaInv'
<1>0. PICK d \in Documents : d = Corp!Chunking
  <2>1. chunked < Len(prepared)
    BY DEF Corp!WriteBatch, Corp!WriteFinal, CorporaInv, EventsFollow
  <2>2. QED
    BY <2>1 DEF CorporaInv, EventsFollow, Corp!Chunking, Corp!Source
<1> DEFINE complete == chunker.next + 1 = TextBatches[d]
<1>1. /\ UNCHANGED <<recorded, prepared, chunked, assembled, current, vectors, assembler, boundary>>
      /\ chunker.at = "writing" /\ building' = building
      /\ spans' = [spans EXCEPT ![building][d] = @ + 1]
      /\ spans[building][d] = chunker.next
      /\ progress[d].next = chunker.next /\ building = chunker.corpora
  BY <1>0 DEF Corp!WriteBatch, Corp!WriteFinal, Corp!Writes, Corp!journalVars, Corp!vectorVars
<1>2. /\ Corp!Source \in 1 .. Len(prepared) /\ d = prepared[Corp!Source] /\ d \in Documents
      /\ TextBatches[d] \in Nat \ {0} /\ chunked < Len(prepared)
  <2>1. /\ chunked < Len(prepared) /\ prepared \in Seq(Documents)
        /\ chunked \in 0 .. Len(prepared)
    BY <1>1 DEF CorporaInv, EventsFollow
  <2>2. Corp!Source \in 1 .. Len(prepared)
    BY <2>1 DEF Corp!Source
  <2>3. prepared[Corp!Source] \in Documents
    BY <2>1, <2>2
  <2>4. QED
    BY <1>0, <2>1, <2>2, <2>3 DEF Corp!Chunking, Corp!Assumptions
<1>3. /\ progress[d].source = Corp!Source /\ ~progress[d].completed /\ progress[d] \in Corp!Progress
      /\ progress[d].source # 0
  BY <1>0, <1>1, <1>2 DEF CorporaInv, Shapes, WritesAlone
<1>4. /\ building # 0 /\ spans[building][d] = progress[d].next /\ progress[d].next < TextBatches[d]
  BY <1>1, <1>2, <1>3 DEF CorporaInv, RowsExact, RowExact
<1>5. Corp!BuildId = building /\ building \in Corp!Ids /\ Corp!Begun = spans
  BY <1>4 DEF Corp!BuildId, Corp!Begun, CorporaInv, Shapes, Corp!Ids, Corp!Assumptions
<1>6. /\ complete \/ chunker.next + 1 < TextBatches[d]
      /\ progress' = [progress EXCEPT ![d].next = @ + 1, ![d].completed = complete]
      /\ chunker' = [chunker EXCEPT !.at = IF complete THEN "done" ELSE "writing", !.next = @ + 1]
  <2>1. chunker.next \in Nat /\ chunker = [chunker EXCEPT !.at = "writing"]
    BY <1>1 DEF CorporaInv, Shapes, Chunkers
  <2>2. CASE Corp!WriteBatch
    <3>1. ~complete /\ chunker.next + 1 < TextBatches[d]
      BY <1>0, <1>2, <2>1, <2>2 DEF Corp!WriteBatch
    <3>2. progress' = [progress EXCEPT ![d].next = @ + 1, ![d].completed = FALSE]
      BY <1>0, <2>2 DEF Corp!WriteBatch, Corp!Writes
    <3>3. chunker' = [chunker EXCEPT !.next = @ + 1]
      BY <2>2 DEF Corp!WriteBatch
    <3>4. QED
      BY <2>1, <3>1, <3>2, <3>3
  <2>3. CASE Corp!WriteFinal
    <3>1. complete
      BY <1>0, <2>3 DEF Corp!WriteFinal
    <3>2. progress' = [progress EXCEPT ![d].next = @ + 1, ![d].completed = TRUE]
      BY <1>0, <2>3 DEF Corp!WriteFinal, Corp!Writes
    <3>3. chunker' = [chunker EXCEPT !.at = "done", !.next = @ + 1]
      BY <2>3 DEF Corp!WriteFinal
    <3>4. QED
      BY <2>1, <3>1, <3>2, <3>3
  <2>4. QED
    BY <2>2, <2>3
<1> HIDE DEF complete
<1>7. /\ progress' \in [Documents -> Corp!Progress]
      /\ progress'[d] = [source |-> Corp!Source, next |-> chunker.next + 1, completed |-> complete]
      /\ \A c \in Documents \ {d} : progress'[c] = progress[c]
  <2>1. complete \in BOOLEAN
    BY DEF complete
  <2>2. [source |-> Corp!Source, next |-> chunker.next + 1, completed |-> complete]
          \in Corp!Progress
    BY <1>1, <1>3, <2>1 DEF Corp!Progress
  <2>3. progress'[d] = [source |-> Corp!Source, next |-> chunker.next + 1, completed |-> complete]
    BY <1>1, <1>2, <1>3, <1>6 DEF CorporaInv, Shapes, Corp!Progress
  <2>4. QED
    BY <1>2, <1>6, <2>2, <2>3 DEF CorporaInv, Shapes
<1>8. /\ spans' \in [Corp!Ids -> [Documents -> Nat]]
      /\ spans'[building][d] = chunker.next + 1
      /\ \A n \in Corp!Ids \ {building} : spans'[n] = spans[n]
      /\ \A c \in Documents \ {d} : spans'[building][c] = spans[building][c]
  BY <1>1, <1>2, <1>4, <1>5 DEF CorporaInv, Shapes
<1>9. chunker.next \in Nat /\ (~complete => chunker.next + 1 < TextBatches[d])
  BY <1>1, <1>2, <1>4, <1>6 DEF CorporaInv, Shapes, Chunkers, complete
<1>10. RowExact(d)'
  <2>1. complete => chunker.next + 1 = TextBatches[d]
    BY DEF complete
  <2>2. QED
    BY <1>1, <1>2, <1>4, <1>7, <1>8, <1>9, <2>1 DEF RowExact
<1>11. chunker' \in Chunkers
       /\ chunker'.corpora = chunker.corpora /\ chunker'.next = chunker.next + 1
       /\ (chunker'.at = "writing" => ~complete)
  <2>1. chunker \in Chunkers
    BY DEF CorporaInv, Shapes
  <2>2. chunker' = [at |-> IF complete THEN "done" ELSE "writing", corpora |-> chunker.corpora,
                    next |-> chunker.next + 1, left |-> chunker.left]
    BY <1>6, <2>1 DEF Chunkers
  <2>3. QED
    BY <1>1, <2>1, <2>2 DEF Chunkers
<1>12. WritesAlone'
  BY <1>0, <1>1, <1>7, <1>11 DEF WritesAlone, Corp!Chunking, Corp!Source
<1>13. /\ \/ units' = units /\ Corp!Incomplete(d)'
          \/ units' = Append(units, [source |-> Corp!Source, corpora |-> Corp!BuildId]) /\ complete
  <2>1. CASE Corp!WriteBatch
    <3>1. units' = units /\ ~complete
      BY <1>0, <1>2, <1>9, <2>1 DEF Corp!WriteBatch, Corp!journalVars, complete
    <3>2. QED
      BY <1>2, <1>7, <3>1 DEF Corp!Incomplete
  <2>2. CASE Corp!WriteFinal
    BY <1>0, <1>5, <2>2 DEF Corp!WriteFinal, complete
  <2>3. QED
    BY <2>1, <2>2
<1>14. Writing(d)
  <2>1. spans'[Corp!BuildId][d] > 0
    BY <1>5, <1>8, <1>9
  <2>2. progress'[d].source = Corp!Source /\ (complete => progress'[d].completed)
    BY <1>7
  <2>3. QED
    BY <1>1, <1>2, <1>3, <1>5, <1>7, <1>8, <1>10, <1>11, <1>12, <1>13, <2>1, <2>2 DEF Writing
<1>15. QED
  BY <1>2, <1>14, WritingInv

LEMMA CorporaStep == Corp!Assumptions /\ CorporaInv /\ [Corp!Next]_(Corp!vars) => CorporaInv'
<1> SUFFICES ASSUME Corp!Assumptions, CorporaInv, [Corp!Next]_(Corp!vars) PROVE CorporaInv'
  OBVIOUS
<1>1. CASE (\E d \in Documents : Corp!RecordDocument(d)) \/ Corp!Convert
  BY <1>1, ConversionInv
<1>2. CASE Corp!AcceptChildCorpora
  BY <1>2, AcceptInv
<1>3. CASE Corp!Chunk
  BY <1>3, MergeTextUnitsInv, OpenChunkingInv, WritesInv, DeliveryEndInv DEF Corp!Chunk
<1>4. CASE Corp!Assemble
  <2>1. CASE Corp!BuildVectors
    BY <2>1, BuildVectorsInv
  <2>2. CASE Corp!RecordVectors
    BY <2>2, RecordVectorsInv
  <2>3. CASE Corp!CompleteCorpora
    <3>1. CASE Corp!Done \/ Corp!Fail
      BY <2>3, <3>1, RecordVectorsInv DEF Corp!CompleteCorpora
    <3>2. CASE ~(Corp!Done \/ Corp!Fail)
      BY <2>3, <3>2, ActivateInv DEF Corp!CompleteCorpora
    <3>3. QED
      BY <3>1, <3>2
  <2>4. CASE Corp!AdvanceAssembly
    BY <2>4, AdvanceAssemblyInv
  <2>5. QED
    BY <1>4, <2>1, <2>2, <2>3, <2>4 DEF Corp!Assemble
<1>5. CASE Corp!Restart
  BY <1>5, DeliveryEndInv
<1>6. CASE UNCHANGED Corp!vars
  <2>1. Shapes' /\ EventsFollow' /\ WritesAlone'
    BY <1>6 DEF Corp!vars, Corp!journalVars, Corp!stateVars, Corp!vectorVars, CorporaInv,
       Shapes, Chunkers, EventsFollow, WritesAlone, Corp!Chunking, Corp!Source
  <2>2. EmptyAhead' /\ RowsExact' /\ Inherited' /\ Announced' /\ ActivatedForEvent'
        /\ Corp!TextsWhole'
    BY <1>6 DEF Corp!vars, Corp!journalVars, Corp!stateVars, Corp!vectorVars, CorporaInv,
       EmptyAhead, RowsExact, RowExact, Inherited, Announced, ActivatedForEvent,
       Corp!TextsWhole, Corp!Incomplete, Corp!MergedOver
  <2>3. VectorsOfChunks' /\ Vectored'
    BY <1>6 DEF Corp!vars, Corp!journalVars, Corp!stateVars, Corp!vectorVars, CorporaInv,
       VectorsOfChunks, Vectored, AllRead, Taken, Corp!Incomplete, MergedLate,
       Corp!AnnouncedFor
  <2>4. QED
    BY <2>1, <2>2, <2>3 DEF CorporaInv
<1>7. QED
  BY <1>1, <1>2, <1>3, <1>4, <1>5, <1>6 DEF Corp!Next

LEMMA CorporaWholeFollows == Corp!Assumptions /\ CorporaInv => Corp!CorporaWhole
<1> SUFFICES ASSUME Corp!Assumptions, CorporaInv PROVE Corp!CorporaWhole
  OBVIOUS
<1>1. \A k \in 1 .. Len(units) :
        units[k].corpora <= current => spans[units[k].corpora][prepared[units[k].source]] > 0
  <2> SUFFICES ASSUME NEW k \in 1 .. Len(units), units[k].corpora <= current
               PROVE  spans[units[k].corpora][prepared[units[k].source]] > 0
    OBVIOUS
  <2>1. ~(units[k].corpora = building /\ building # 0)
    BY DEF CorporaInv, Shapes
  <2>2. QED
    BY <2>1 DEF CorporaInv, Announced
<1>2. ASSUME NEW n \in 1 .. current, \A k \in assembled + 1 .. Len(units) : units[k].corpora # n,
             NEW d \in Documents
      PROVE  vectors[n][d] = spans[n][d] \/ MergedLate(n, d)
  <2>1. n \in Corp!Ids /\ n # building /\ n <= current
    BY DEF CorporaInv, Shapes, Corp!Ids, Corp!Assumptions
  <2>2. PICK k \in 1 .. Len(units) : units[k].corpora = n
    BY DEF CorporaInv, ActivatedForEvent
  <2>3. assembled \in Nat /\ Taken \in Nat /\ assembled <= Taken
    BY DEF CorporaInv, EventsFollow, Taken
  <2>4. \A i \in 1 .. Len(units) : units[i].corpora = n => i <= assembled
    BY <1>2, <2>3
  <2>5. AllRead(n)
    BY <2>2, <2>3, <2>4 DEF AllRead
  <2>6. /\ spans[n][d] <= vectors[n][d] \/ MergedLate(n, d)
        /\ vectors[n][d] <= spans[n][d]
    BY <2>1, <2>5 DEF CorporaInv, Vectored, VectorsOfChunks
  <2>7. QED
    BY <2>1, <2>6 DEF CorporaInv, Shapes
<1>3. Corp!VectorsWhole
  BY <1>1, <1>2 DEF Corp!VectorsWhole, MergedLate
<1>4. Corp!ProgressExact
  BY DEF CorporaInv, RowsExact, RowExact, Corp!ProgressExact
<1>5. QED
  BY <1>3, <1>4 DEF CorporaInv, Corp!CorporaWhole

LEMMA CorporaPart == [ServicesNext]_servicesVars => [Corp!Next]_(Corp!vars)
BY DEF ServicesNext, servicesVars, Only, corpVars, Corp!vars, Corp!journalVars, Corp!stateVars,
       Corp!vectorVars

LEMMA CorporaInvariance == ServicesSpec => []CorporaInv
<1>1. ServicesInit => CorporaInv
  BY CorporaInit, CorporaAssumptions DEF ServicesInit
<1>2. CorporaInv /\ [ServicesNext]_servicesVars => CorporaInv'
  BY CorporaStep, CorporaPart, CorporaAssumptions
<1>3. QED
  BY <1>1, <1>2, PTL DEF ServicesSpec

\* A Corpora becomes Current with every Text it holds chunked completely, with
\* all Texts of the one before and with vectors for all that was announced of
\* it, wherever the two consumers stop and start and whichever of the Documents
\* a Child has too: but for the Texts that were merged after their progress was
\* opened, the rows count what is stored (text_unit_preparation.go,
\* corpora_assembly.go).
THEOREM ActivatedWhole == ServicesSpec => []CorporaWhole
<1>1. CorporaInv => CorporaWhole
  BY CorporaWholeFollows, CorporaAssumptions DEF CorporaWhole
<1>2. QED
  BY <1>1, CorporaInvariance, PTL
=============================================================================
