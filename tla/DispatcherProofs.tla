-------------------------- MODULE DispatcherProofs --------------------------
(***************************************************************************)
(* Proofs about one Consumer of the Journal Dispatcher, for any Zones,     *)
(* registered keys and journals.  Positions count the events of one        *)
(* EventType, handled events are known by their place in the Zone, and a   *)
(* continuation is handled without moving any position: the invariant says *)
(* what the positions still prove about the handled events.  That the      *)
(* sequences of an EventType have no gap gives the refinement of Delivery. *)
(* Then proofs about the publication of Epochs and about the vector store, *)
(* other parts of Pipeline.                                                *)
(***************************************************************************)
EXTENDS Pipeline, SequenceTheorems, FiniteSetTheorems, WellFoundedInduction, TLAPS

\* The EventType of the key the loop is at.
WalkedType == Keys[loop.key]

\* Event i was handled as the continuation of one handled before.
Followed(z, i) ==
  /\ <<z, journal[z][i].cause>> \in handled
  /\ i \in NextOnStream(z, journal[z][i].cause)

\* The event the walk stands at has been dealt with.
Passing(z, i) ==
  /\ loop.pc \in {"following", "advancing"}
  /\ z = loop.zone
  /\ i \in OfType(z, WalkedType)
  /\ Sequence(z, i) = loop.position

HandledExist ==
  \A z \in Zones : \A i : <<z, i>> \in handled => i \in DOMAIN journal[z]

PositionsBounded ==
  \A z \in Zones, t \in EventTypes : positions[z][t] <= TypePosition(z, t)

\* Everything behind a position is handled, or of a version nobody handles.
BehindHandled ==
  \A z \in Zones : \A i \in DOMAIN journal[z] :
    (Registered(journal[z][i]) /\ Sequence(z, i) < positions[z][journal[z][i].type])
      => <<z, i>> \in handled

\* The walk's own position is the durable one, and does not pass its bound.
WalkBounded ==
  loop.pc \in {"walking", "following", "advancing"} =>
    /\ loop.position = positions[loop.zone][WalkedType]
    /\ loop.through <= TypePosition(loop.zone, WalkedType)
    /\ loop.pc # "walking" => loop.position < loop.through

PassedHandled ==
  \A i : (Passing(loop.zone, i) /\ Registered(journal[loop.zone][i])) => <<loop.zone, i>> \in handled

CurrentHandled == loop.pc = "following" => <<loop.zone, loop.current>> \in handled

\* Why an event is handled, before the first restart.
HandledWhy ==
  restarts = 0 => \A z \in Zones : \A i : <<z, i>> \in handled =>
    \/ Sequence(z, i) < positions[z][journal[z][i].type]
    \/ Followed(z, i)
    \/ Passing(z, i)

IInv ==
  /\ TypeOK
  /\ HandledExist
  /\ PositionsBounded
  /\ BehindHandled
  /\ WalkBounded
  /\ PassedHandled
  /\ CurrentHandled
  /\ HandledWhy
  /\ AheadOnlyAsContinuation

-----------------------------------------------------------------------------
(* Counting the events of a type *)

LEMMA KeysTyped ==
  /\ Len(Keys) \in Nat /\ 1 \in 1 .. Len(Keys)
  /\ \A k \in 1 .. Len(Keys) : Keys[k] \in KeyTypes /\ Keys[k] \in EventTypes
  BY KeysAssumption

LEMMA WalkedTyped ==
  ASSUME TypeOK
  PROVE  WalkedType \in KeyTypes /\ WalkedType \in EventTypes /\ loop.zone \in Zones
  BY KeysTyped DEF TypeOK, WalkedType

LEMMA EventsTyped ==
  ASSUME TypeOK, NEW z \in Zones
  PROVE  /\ Len(journal[z]) \in Nat /\ DOMAIN journal[z] = 1 .. Len(journal[z])
         /\ \A i \in DOMAIN journal[z] : i \in Nat /\ journal[z][i] \in Events
  BY DEF TypeOK

LEMMA OfTypeFinite ==
  ASSUME TypeOK, NEW z \in Zones, NEW t
  PROVE  IsFiniteSet(OfType(z, t)) /\ TypePosition(z, t) \in Nat
<1>1. IsFiniteSet(1 .. Len(journal[z]))
  BY EventsTyped, FS_Interval
<1>2. OfType(z, t) \subseteq 1 .. Len(journal[z])
  BY EventsTyped DEF OfType
<1>3. IsFiniteSet(OfType(z, t))
  BY <1>1, <1>2, FS_Subset
<1> QED
  BY <1>3, FS_CardinalityType DEF TypePosition

(* The events of a type before event i: what Sequence counts.               *)
Before(z, i) == {j \in OfType(z, journal[z][i].type) : j < i}

LEMMA BeforeFinite ==
  ASSUME TypeOK, NEW z \in Zones, NEW i
  PROVE  /\ IsFiniteSet(Before(z, i))
         /\ Sequence(z, i) = Cardinality(Before(z, i))
         /\ Sequence(z, i) \in Nat
<1>1. Before(z, i) \in SUBSET OfType(z, journal[z][i].type)
  BY DEF Before
<1>2. IsFiniteSet(Before(z, i))
  BY <1>1, OfTypeFinite, FS_Subset
<1> QED
  BY <1>2, FS_CardinalityType DEF Before, Sequence

(* Sequences grow with the events of their type: no two events share one.   *)
LEMMA SequenceOrdered ==
  ASSUME TypeOK, NEW z \in Zones, NEW t, NEW i \in OfType(z, t), NEW j \in OfType(z, t), j < i
  PROVE  Sequence(z, j) < Sequence(z, i)
<1>1. i \in Nat /\ j \in Nat /\ journal[z][i].type = t /\ journal[z][j].type = t
  BY EventsTyped DEF OfType
<1>2. Before(z, j) \in SUBSET Before(z, i)
  BY <1>1, EventsTyped DEF Before, OfType
<1>3. j \in Before(z, i) /\ j \notin Before(z, j)
  BY <1>1 DEF Before
<1>4. Cardinality(Before(z, j)) <= Cardinality(Before(z, i)) /\ Cardinality(Before(z, i)) # Cardinality(Before(z, j))
  BY <1>2, <1>3, BeforeFinite, FS_Subset
<1> QED
  BY <1>4, BeforeFinite

LEMMA SequenceUnique ==
  ASSUME TypeOK, NEW z \in Zones, NEW t, NEW i \in OfType(z, t), NEW j \in OfType(z, t),
         Sequence(z, i) = Sequence(z, j)
  PROVE  i = j
<1>1. i \in Nat /\ j \in Nat
  BY EventsTyped DEF OfType
<1>2. Sequence(z, i) \in Nat
  BY BeforeFinite
<1>3. ~(i < j) /\ ~(j < i)
  BY <1>2, SequenceOrdered
<1> QED
  BY <1>1, <1>3

-----------------------------------------------------------------------------
(* What a producer's commit leaves alone *)

LEMMA PublishGrows ==
  ASSUME TypeOK, NEW z \in Zones, NEW t \in EventTypes, NEW v \in Versions, NEW s \in Streams,
         NEW cause \in 0 .. MaxEvents, Publish(z, t, v, s, cause), NEW y \in Zones
  PROVE  /\ journal' \in [Zones -> Seq(Events)]
         /\ DOMAIN journal[y] \subseteq DOMAIN journal'[y]
         /\ \A i \in DOMAIN journal[y] : journal'[y][i] = journal[y][i]
         /\ \A i \in DOMAIN journal'[y] \ DOMAIN journal[y] :
              /\ y = z /\ i \in Nat
              /\ DOMAIN journal'[y] = DOMAIN journal[y] \union {i}
              /\ \A j \in DOMAIN journal[y] : j < i
<1> DEFINE e == [type |-> t, version |-> v, stream |-> s, cause |-> cause]
<1>1. e \in Events
  <2>1. cause \in Nat
    BY BoundsAssumption
  <2> QED
    BY <2>1 DEF Events
<1>2. journal' = [journal EXCEPT ![z] = Append(@, e)]
  BY DEF Publish
<1>3. journal \in [Zones -> Seq(Events)]
  BY DEF TypeOK
<1>4. Append(journal[z], e) \in Seq(Events)
  BY <1>1, <1>3
<1>5. journal' \in [Zones -> Seq(Events)] /\ journal'[z] = Append(journal[z], e)
  BY <1>2, <1>3, <1>4
<1>6. CASE y = z
  <2>1. /\ DOMAIN journal[y] = 1 .. Len(journal[y]) /\ Len(journal[y]) \in Nat
        /\ DOMAIN journal'[y] = 1 .. Len(journal[y]) + 1
        /\ \A i \in 1 .. Len(journal[y]) : journal'[y][i] = journal[y][i]
    BY <1>1, <1>3, <1>5, <1>6
  <2> QED
    BY <1>5, <1>6, <2>1
<1>7. CASE y # z
  <2>1. journal'[y] = journal[y]
    BY <1>2, <1>3, <1>7
  <2> QED
    BY <1>5, <2>1
<1> QED
  BY <1>6, <1>7

LEMMA PublishKeeps ==
  ASSUME TypeOK, NEW z \in Zones, NEW t \in EventTypes, NEW v \in Versions, NEW s \in Streams,
         NEW cause \in 0 .. MaxEvents, Publish(z, t, v, s, cause), NEW y \in Zones
  PROVE  /\ \A i \in DOMAIN journal[y] : Sequence(y, i)' = Sequence(y, i)
         /\ \A u : OfType(y, u) \subseteq OfType(y, u)' /\ TypePosition(y, u) <= TypePosition(y, u)'
         /\ \A i \in DOMAIN journal'[y] \ DOMAIN journal[y] :
              Sequence(y, i)' = TypePosition(y, journal'[y][i].type)
         /\ \A c \in DOMAIN journal[y] : NextOnStream(y, c) \subseteq NextOnStream(y, c)'
<1> DEFINE old == DOMAIN journal[y]
<1>1. old \subseteq DOMAIN journal'[y] /\ \A i \in old : i \in Nat /\ journal'[y][i] = journal[y][i]
  BY PublishGrows, EventsTyped
<1>2. \A i \in DOMAIN journal'[y] \ old :
        i \in Nat /\ DOMAIN journal'[y] = old \union {i} /\ \A j \in old : j < i
  BY PublishGrows
<1>3. ASSUME NEW i \in old PROVE Sequence(y, i)' = Sequence(y, i)
  <2>1. Before(y, i)' = Before(y, i)
    BY <1>1, <1>2, <1>3 DEF Before, OfType
  <2> QED
    BY <2>1 DEF Before, Sequence
<1>4. ASSUME NEW u PROVE OfType(y, u) \subseteq OfType(y, u)' /\ TypePosition(y, u) <= TypePosition(y, u)'
  <2>1. OfType(y, u) \in SUBSET OfType(y, u)'
    BY <1>1 DEF OfType
  <2>2. IsFiniteSet(OfType(y, u)')
    <3>1. journal' \in [Zones -> Seq(Events)]
      BY PublishGrows
    <3>2. DOMAIN journal'[y] = 1 .. Len(journal'[y]) /\ Len(journal'[y]) \in Int
      BY <3>1
    <3>3. IsFiniteSet(1 .. Len(journal'[y]))
      BY <3>2, FS_Interval
    <3>4. OfType(y, u)' \in SUBSET (1 .. Len(journal'[y]))
      BY <3>2 DEF OfType
    <3> QED
      BY <3>3, <3>4, FS_Subset
  <2> QED
    BY <2>1, <2>2, FS_Subset DEF TypePosition
<1>5. ASSUME NEW i \in DOMAIN journal'[y] \ old
      PROVE  Sequence(y, i)' = TypePosition(y, journal'[y][i].type)
  <2>1. Before(y, i)' = OfType(y, journal'[y][i].type)
    BY <1>1, <1>2, <1>5 DEF Before, OfType
  <2> QED
    BY <2>1 DEF Before, Sequence, TypePosition
<1>6. ASSUME NEW c \in old, NEW i \in NextOnStream(y, c) PROVE i \in NextOnStream(y, c)'
  <2>1. i \in old /\ i > c /\ journal[y][i].stream = journal[y][c].stream
    BY <1>6 DEF NextOnStream
  <2>2. \A k \in old : (k > c /\ journal[y][k].stream = journal[y][c].stream) => i <= k
    BY <1>6 DEF NextOnStream
  <2>3. \A k \in DOMAIN journal'[y] : (k > c /\ journal'[y][k].stream = journal'[y][c].stream) => i <= k
    BY <1>1, <1>2, <2>1, <2>2
  <2> QED
    BY <1>1, <2>1, <2>3 DEF NextOnStream
<1> QED
  BY <1>3, <1>4, <1>5, <1>6
-----------------------------------------------------------------------------
(* Types *)

LEMMA ScanTyped ==
  ASSUME NEW key \in 1 .. Len(Keys)
  PROVE  /\ Scan(key).pc = "scanning"
         /\ Scan(key) \in [pc : {"scanning", "bounding", "walking", "following", "advancing", "sleeping"},
                          key : 1 .. Len(Keys), zone : Zones,
                          position : Nat, through : Nat, current : Nat]
  BY ZonesAssumption DEF Scan

LEMMA StepTyped == TypeOK /\ [Next]_vars => TypeOK'
<1> SUFFICES ASSUME TypeOK, [Next]_vars PROVE TypeOK'
  OBVIOUS
<1> USE DEF TypeOK
<1>1. ASSUME NEW z \in Zones, NEW t \in EventTypes, NEW v \in Versions, NEW s \in Streams,
             NEW cause \in 0 .. MaxEvents, Publish(z, t, v, s, cause)
      PROVE  TypeOK'
  <2>1. journal' \in [Zones -> Seq(Events)]
    BY <1>1, PublishGrows
  <2> QED
    BY <1>1, <2>1 DEF Publish
<1>2. ASSUME NEW z \in Zones, PickZone(z) PROVE TypeOK'
  BY <1>2 DEF PickZone
<1>3. CASE NothingPending
  <2>1. CASE loop.key < Len(Keys)
    <3>1. loop.key + 1 \in 1 .. Len(Keys)
      BY <2>1, KeysTyped
    <3> QED
      BY <1>3, <2>1, <3>1, ScanTyped DEF NothingPending
  <2>2. CASE ~(loop.key < Len(Keys))
    BY <1>3, <2>2, KeysTyped, ScanTyped DEF NothingPending
  <2> QED
    BY <2>1, <2>2
<1>4. CASE Poll
  BY <1>4, KeysTyped, ScanTyped DEF Poll
<1>5. CASE Bound
  <2>1. positions[loop.zone][WalkedType] \in Nat /\ TypePosition(loop.zone, WalkedType) \in Nat
    BY WalkedTyped, OfTypeFinite
  <2> QED
    BY <1>5, <2>1 DEF Bound, WalkedType
<1>6. CASE EndOfType
  BY <1>6, KeysTyped, ScanTyped DEF EndOfType
<1>7. ASSUME NEW i \in 1 .. MaxEvents, Take(i) PROVE TypeOK'
  <2>1. i \in Nat /\ loop.zone \in Zones
    BY BoundsAssumption
  <2>2. handled' \subseteq Zones \X Nat
    BY <1>7, <2>1 DEF Take
  <2>3. loop' = [loop EXCEPT !.pc = "following", !.current = i]
    BY <1>7 DEF Take
  <2>4. loop' \in [pc : {"scanning", "bounding", "walking", "following", "advancing", "sleeping"},
                   key : 1 .. Len(Keys), zone : Zones,
                   position : Nat, through : Nat, current : Nat]
    BY <2>1, <2>3
  <2> QED
    BY <1>7, <2>2, <2>4 DEF Take
<1>8. ASSUME NEW i \in 1 .. MaxEvents, SkipVersion(i) PROVE TypeOK'
  BY <1>8 DEF SkipVersion
<1>9. CASE EndOfStream
  BY <1>9 DEF EndOfStream
<1>10. CASE AdvancePosition
  <2>1. positions' \in [Zones -> [EventTypes -> Nat]]
    <3>1. positions' = [positions EXCEPT ![loop.zone][WalkedType] = loop.position + 1]
      BY <1>10 DEF AdvancePosition, WalkedType
    <3>2. loop.position + 1 \in Nat /\ positions \in [Zones -> [EventTypes -> Nat]]
      OBVIOUS
    <3> QED
      BY <3>1, <3>2, WalkedTyped
  <2>2. loop' \in [pc : {"scanning", "bounding", "walking", "following", "advancing", "sleeping"},
                   key : 1 .. Len(Keys), zone : Zones,
                   position : Nat, through : Nat, current : Nat]
    <3>1. loop' = [loop EXCEPT !.pc = "walking", !.position = loop.position + 1, !.current = 0]
      BY <1>10 DEF AdvancePosition
    <3>2. loop.position + 1 \in Nat
      OBVIOUS
    <3> QED
      BY <3>1, <3>2
  <2> QED
    BY <1>10, <2>1, <2>2 DEF AdvancePosition
<1>11. CASE Restart
  <2>1. loop' = Scan(1) /\ restarts' \in Nat
    BY <1>11 DEF Restart
  <2> QED
    BY <1>11, <2>1, KeysTyped, ScanTyped DEF Restart
<1>12. CASE UNCHANGED vars
  BY <1>12 DEF vars
<1> QED
  BY <1>1, <1>2, <1>3, <1>4, <1>5, <1>6, <1>7, <1>8, <1>9, <1>10, <1>11, <1>12 DEF Next, Walk,
     Handle, Follow
-----------------------------------------------------------------------------
(* Steps that leave the journal alone *)

LEMMA JournalKept ==
  ASSUME journal' = journal
  PROVE  /\ \A z, i : Sequence(z, i)' = Sequence(z, i)
         /\ \A z, t : OfType(z, t)' = OfType(z, t) /\ TypePosition(z, t)' = TypePosition(z, t)
         /\ \A z, i : NextOnStream(z, i)' = NextOnStream(z, i)
<1>1. \A z, t : OfType(z, t)' = OfType(z, t)
  BY DEF OfType
<1>2. \A z, i : Sequence(z, i)' = Sequence(z, i)
  BY <1>1 DEF Sequence
<1>3. \A z, i : NextOnStream(z, i)' = NextOnStream(z, i)
  BY DEF NextOnStream
<1> QED
  BY <1>1, <1>2, <1>3 DEF TypePosition

(* Steps of the loop alone keep what is said about the durable state.       *)
LEMMA LoopOnly ==
  ASSUME IInv, UNCHANGED <<journal, positions, handled>>
  PROVE  /\ HandledExist' /\ PositionsBounded' /\ BehindHandled' /\ AheadOnlyAsContinuation'
         /\ \A z, i : Followed(z, i)' <=> Followed(z, i)
<1>1. HandledExist'
  BY DEF IInv, HandledExist
<1>2. PositionsBounded'
  BY JournalKept DEF IInv, PositionsBounded
<1>3. BehindHandled'
  BY JournalKept DEF IInv, BehindHandled, Registered
<1>4. AheadOnlyAsContinuation'
  BY JournalKept DEF IInv, AheadOnlyAsContinuation, Registered
<1>5. \A z, i : Followed(z, i)' <=> Followed(z, i)
  BY JournalKept DEF Followed
<1> QED
  BY <1>1, <1>2, <1>3, <1>4, <1>5

(* The loop leaves a walk, or has not begun one.                            *)
LEMMA NotWalking ==
  ASSUME IInv, UNCHANGED <<journal, positions, handled>>,
         loop'.pc \notin {"walking", "following", "advancing"},
         loop.pc \notin {"following", "advancing"} \/ restarts' # 0, restarts' = 0 => restarts = 0
  PROVE  WalkBounded' /\ PassedHandled' /\ CurrentHandled' /\ HandledWhy'
<1>1. WalkBounded' /\ PassedHandled' /\ CurrentHandled'
  BY DEF WalkBounded, PassedHandled, Passing, CurrentHandled
<1>2. HandledWhy'
  <2> SUFFICES ASSUME restarts' = 0, NEW z \in Zones, NEW i, <<z, i>> \in handled
               PROVE  (Sequence(z, i) < positions[z][journal[z][i].type])' \/ Followed(z, i)'
    BY DEF HandledWhy
  <2>1. Sequence(z, i) < positions[z][journal[z][i].type] \/ Followed(z, i)
    BY DEF IInv, HandledWhy, Passing
  <2> QED
    BY <2>1, JournalKept, LoopOnly
<1> QED
  BY <1>1, <1>2

(* The loop stays where it is in a walk, behind the event.                  *)
LEMMA StillPassing ==
  ASSUME journal' = journal, loop'.pc \in {"following", "advancing"},
         loop'.zone = loop.zone, loop'.key = loop.key, loop'.position = loop.position
  PROVE  /\ WalkedType' = WalkedType
         /\ \A z, i : Passing(z, i) => Passing(z, i)'
         /\ \A z, i : (z = loop.zone /\ i \in OfType(z, WalkedType) /\ Sequence(z, i) = loop.position) <=> Passing(z, i)'
  BY JournalKept DEF Passing, WalkedType

LEMMA LoopSteps ==
  ASSUME IInv, TypeOK', UNCHANGED <<journal, positions, handled>>,
         \/ (\E z \in Zones : PickZone(z)) \/ NothingPending \/ Poll \/ Bound \/ EndOfType
         \/ (\E i \in 1 .. MaxEvents : SkipVersion(i)) \/ EndOfStream \/ Restart
  PROVE  IInv'
<1>1. HandledExist' /\ PositionsBounded' /\ BehindHandled' /\ AheadOnlyAsContinuation'
  BY LoopOnly
<1>2. TypeOK
  BY DEF IInv
<1> SUFFICES WalkBounded' /\ PassedHandled' /\ CurrentHandled' /\ HandledWhy'
  BY <1>1 DEF IInv
<1>3. ASSUME NEW z \in Zones, PickZone(z) PROVE WalkBounded' /\ PassedHandled' /\ CurrentHandled' /\ HandledWhy'
  <2>1. loop.pc = "scanning" /\ loop'.pc = "bounding" /\ restarts' = restarts
    BY <1>2, <1>3 DEF PickZone, TypeOK
  <2> QED
    BY <2>1, NotWalking
<1>4. CASE NothingPending
  <2>1. loop.pc = "scanning" /\ loop'.pc \in {"scanning", "sleeping"} /\ restarts' = restarts
    BY <1>4 DEF NothingPending, Scan
  <2> QED
    BY <2>1, NotWalking
<1>5. CASE Poll
  <2>1. loop.pc = "sleeping" /\ loop'.pc = "scanning" /\ restarts' = restarts
    BY <1>5 DEF Poll, Scan
  <2> QED
    BY <2>1, NotWalking
<1>6. CASE EndOfType
  <2>1. loop.pc = "walking" /\ loop'.pc = "scanning" /\ restarts' = restarts
    BY <1>6 DEF EndOfType, Scan
  <2> QED
    BY <2>1, NotWalking
<1>7. CASE Restart
  <2>1. loop'.pc = "scanning" /\ restarts' = restarts + 1 /\ restarts \in Nat
    BY <1>2, <1>7 DEF Restart, Scan, TypeOK
  <2> QED
    BY <2>1, NotWalking
<1>8. CASE Bound
  <2>1. /\ loop.pc = "bounding" /\ loop'.pc = "walking" /\ loop'.zone = loop.zone /\ loop'.key = loop.key
        /\ loop'.position = positions[loop.zone][WalkedType] /\ restarts' = restarts
        /\ loop'.through = TypePosition(loop.zone, WalkedType)
    BY <1>2, <1>8 DEF Bound, TypeOK, WalkedType
  <2>2. WalkBounded'
    <3>1. TypePosition(loop.zone, WalkedType) \in Nat
      BY <1>2, WalkedTyped, OfTypeFinite
    <3> QED
      BY <2>1, <3>1, JournalKept DEF WalkBounded, WalkedType
  <2>3. PassedHandled' /\ CurrentHandled'
    BY <2>1 DEF PassedHandled, Passing, CurrentHandled
  <2>4. HandledWhy'
    BY <2>1, JournalKept, LoopOnly DEF IInv, HandledWhy, Passing
  <2> QED
    BY <2>2, <2>3, <2>4
<1>9. ASSUME NEW k \in 1 .. MaxEvents, SkipVersion(k)
      PROVE  WalkBounded' /\ PassedHandled' /\ CurrentHandled' /\ HandledWhy'
  <2>1. /\ loop.pc = "walking" /\ loop' = [loop EXCEPT !.pc = "advancing"] /\ restarts' = restarts
        /\ loop.position < loop.through
        /\ k \in OfType(loop.zone, WalkedType) /\ Sequence(loop.zone, k) = loop.position
        /\ ~Registered(journal[loop.zone][k])
    BY <1>9 DEF SkipVersion, At, WalkedType
  <2>2. /\ loop'.pc = "advancing" /\ loop'.zone = loop.zone /\ loop'.key = loop.key
        /\ loop'.position = loop.position /\ loop'.through = loop.through
    BY <1>2, <2>1 DEF TypeOK
  <2>3. WalkBounded' /\ CurrentHandled'
    BY <2>1, <2>2, StillPassing, JournalKept DEF IInv, WalkBounded, CurrentHandled
  <2>4. PassedHandled'
    <3> SUFFICES ASSUME NEW i, Passing(loop.zone, i)'
                 PROVE  ~Registered(journal[loop.zone][i])
      BY <2>2 DEF PassedHandled, Registered
    <3>1. i \in OfType(loop.zone, WalkedType) /\ Sequence(loop.zone, i) = loop.position
      BY <2>2, StillPassing
    <3>2. i = k
      BY <1>2, <2>1, <3>1, WalkedTyped, SequenceUnique
    <3> QED
      BY <2>1, <3>2
  <2>5. HandledWhy'
    BY <2>1, <2>2, JournalKept, LoopOnly DEF IInv, HandledWhy, Passing
  <2> QED
    BY <2>3, <2>4, <2>5
<1>10. CASE EndOfStream
  <2>1. loop.pc = "following" /\ loop' = [loop EXCEPT !.pc = "advancing"] /\ restarts' = restarts
    BY <1>10 DEF EndOfStream
  <2>2. /\ loop'.pc = "advancing" /\ loop'.zone = loop.zone /\ loop'.key = loop.key
        /\ loop'.position = loop.position /\ loop'.through = loop.through
    BY <1>2, <2>1 DEF TypeOK
  <2>3. WalkBounded' /\ CurrentHandled'
    BY <2>1, <2>2, StillPassing, JournalKept DEF IInv, WalkBounded, CurrentHandled
  <2>4. PassedHandled'
    BY <2>1, <2>2, StillPassing DEF IInv, PassedHandled, Passing, Registered
  <2>5. HandledWhy'
    BY <2>1, <2>2, StillPassing, JournalKept, LoopOnly DEF IInv, HandledWhy
  <2> QED
    BY <2>3, <2>4, <2>5
<1> QED
  BY <1>3, <1>4, <1>5, <1>6, <1>7, <1>8, <1>9, <1>10
-----------------------------------------------------------------------------
(* Steps that change the durable state *)

LEMMA PublishStep ==
  ASSUME IInv, TypeOK', NEW z \in Zones, NEW t \in EventTypes, NEW v \in Versions, NEW s \in Streams,
         NEW cause \in 0 .. MaxEvents, Publish(z, t, v, s, cause)
  PROVE  IInv'
<1>1. TypeOK /\ UNCHANGED <<positions, handled, loop, restarts>>
  BY DEF IInv, Publish
<1>2. \A y \in Zones :
        /\ DOMAIN journal[y] \subseteq DOMAIN journal'[y]
        /\ \A i \in DOMAIN journal[y] : journal'[y][i] = journal[y][i]
        /\ \A i \in DOMAIN journal'[y] \ DOMAIN journal[y] : \A j \in DOMAIN journal[y] : j < i
  BY <1>1, PublishGrows
<1>3. \A y \in Zones :
        /\ \A i \in DOMAIN journal[y] : Sequence(y, i)' = Sequence(y, i)
        /\ \A u : OfType(y, u) \subseteq OfType(y, u)' /\ TypePosition(y, u) <= TypePosition(y, u)'
        /\ \A i \in DOMAIN journal'[y] \ DOMAIN journal[y] :
             Sequence(y, i)' = TypePosition(y, journal'[y][i].type)
        /\ \A c \in DOMAIN journal[y] : NextOnStream(y, c) \subseteq NextOnStream(y, c)'
  BY <1>1, PublishKeeps
<1>4. \A y \in Zones, u \in EventTypes :
        TypePosition(y, u) \in Nat /\ TypePosition(y, u)' \in Nat /\ positions[y][u] \in Nat
        /\ positions[y][u] <= TypePosition(y, u)
  <2>1. ASSUME NEW y \in Zones, NEW u \in EventTypes PROVE TypePosition(y, u)' \in Nat
    <3>1. DOMAIN journal'[y] = 1 .. Len(journal'[y]) /\ Len(journal'[y]) \in Int
      BY DEF TypeOK
    <3>2. IsFiniteSet(1 .. Len(journal'[y]))
      BY <3>1, FS_Interval
    <3>3. OfType(y, u)' \in SUBSET (1 .. Len(journal'[y]))
      BY <3>1 DEF OfType
    <3>4. IsFiniteSet(OfType(y, u)')
      BY <3>2, <3>3, FS_Subset
    <3> QED
      BY <3>4, FS_CardinalityType DEF TypePosition
  <2>2. ASSUME NEW y \in Zones, NEW u \in EventTypes PROVE TypePosition(y, u) \in Nat
    BY <1>1, OfTypeFinite
  <2> QED
    BY <1>1, <2>1, <2>2 DEF IInv, TypeOK, PositionsBounded
<1> PICK zone \in Zones, walked \in EventTypes :
      zone = loop.zone /\ walked = WalkedType /\ loop'.zone = zone /\ WalkedType' = walked
  BY <1>1, WalkedTyped DEF WalkedType
<1>5. HandledExist'
  BY <1>1, <1>2 DEF IInv, HandledExist
<1>6. PositionsBounded'
  <2> SUFFICES ASSUME NEW y \in Zones, NEW u \in EventTypes
               PROVE  positions[y][u] <= TypePosition(y, u)'
    BY <1>1 DEF PositionsBounded
  <2> QED
    BY <1>3, <1>4
<1>7. BehindHandled'
  <2> SUFFICES ASSUME NEW y \in Zones, NEW i \in DOMAIN journal'[y], Registered(journal'[y][i]),
                      Sequence(y, i)' < positions[y][journal'[y][i].type]
               PROVE  <<y, i>> \in handled
    BY <1>1 DEF BehindHandled, Registered
  <2>1. CASE i \in DOMAIN journal[y]
    <3>1. journal'[y][i] = journal[y][i] /\ Sequence(y, i)' = Sequence(y, i)
      BY <1>2, <1>3, <2>1
    <3> QED
      BY <2>1, <3>1 DEF IInv, BehindHandled
  <2>2. CASE i \notin DOMAIN journal[y]
    <3>1. journal'[y][i].type \in EventTypes
      BY KeysAssumption DEF Registered
    <3>2. Sequence(y, i)' = TypePosition(y, journal'[y][i].type)
      BY <1>3, <2>2
    <3> QED
      BY <1>4, <3>1, <3>2
  <2> QED
    BY <2>1, <2>2
<1>8. WalkBounded'
  <2>1. TypePosition(zone, walked) <= TypePosition(zone, walked)'
    BY <1>3
  <2>2. loop.through \in Nat
    BY <1>1 DEF TypeOK
  <2> QED
    BY <1>1, <1>4, <2>1, <2>2 DEF IInv, WalkBounded
<1>9. PassedHandled'
  <2> SUFFICES ASSUME NEW i, Passing(zone, i)', Registered(journal'[zone][i])
               PROVE  <<zone, i>> \in handled
    BY <1>1 DEF PassedHandled, Registered
  <2>1. /\ loop.pc \in {"following", "advancing"} /\ Sequence(zone, i)' = loop.position
        /\ i \in DOMAIN journal'[zone] /\ journal'[zone][i].type = walked
    BY <1>1 DEF Passing, OfType
  <2>2. loop.position \in Nat /\ loop.through \in Nat
    BY <1>1 DEF TypeOK
  <2>3. i \in DOMAIN journal[zone]
    <3> SUFFICES ASSUME i \notin DOMAIN journal[zone] PROVE FALSE
      OBVIOUS
    <3>1. loop.position = TypePosition(zone, walked)
      BY <1>3, <2>1
    <3>2. loop.position < loop.through /\ loop.through <= TypePosition(zone, walked)
      BY <2>1 DEF IInv, WalkBounded
    <3> QED
      BY <1>4, <2>2, <3>1, <3>2
  <2>4. journal'[zone][i] = journal[zone][i] /\ Sequence(zone, i)' = Sequence(zone, i)
    BY <1>2, <1>3, <2>3
  <2>5. Passing(zone, i) /\ Registered(journal[zone][i])
    BY <2>1, <2>3, <2>4 DEF Passing, OfType
  <2> QED
    BY <2>5 DEF IInv, PassedHandled
<1>10. CurrentHandled'
  BY <1>1 DEF IInv, CurrentHandled
<1>11. \A y \in Zones : \A i : <<y, i>> \in handled /\ Followed(y, i) => Followed(y, i)'
  BY <1>1, <1>2, <1>3 DEF IInv, HandledExist, Followed
<1>12. HandledWhy'
  <2> SUFFICES ASSUME restarts = 0, NEW y \in Zones, NEW i, <<y, i>> \in handled
               PROVE  \/ Sequence(y, i)' < positions[y][journal'[y][i].type]
                      \/ Followed(y, i)' \/ Passing(y, i)'
    BY <1>1 DEF HandledWhy
  <2>1. i \in DOMAIN journal[y]
    BY DEF IInv, HandledExist
  <2>2. journal'[y][i] = journal[y][i] /\ Sequence(y, i)' = Sequence(y, i)
    BY <1>2, <1>3, <2>1
  <2>3. Passing(y, i) => Passing(y, i)'
    BY <1>1, <1>3, <2>2 DEF Passing, WalkedType
  <2> QED
    BY <1>11, <2>2, <2>3 DEF IInv, HandledWhy
<1>13. AheadOnlyAsContinuation'
  <2> SUFFICES ASSUME NEW y \in Zones, NEW i \in DOMAIN journal'[y], <<y, i>> \in handled
               PROVE  \/ \A j \in OfType(y, journal[y][i].type)' :
                           (j < i /\ Registered(journal'[y][j])) => <<y, j>> \in handled
                      \/ Followed(y, i)'
    BY <1>1 DEF AheadOnlyAsContinuation, Registered, Followed
  <2>1. i \in DOMAIN journal[y] /\ i \in Nat
    BY <1>1, EventsTyped DEF IInv, HandledExist
  <2>2. \/ \A j \in OfType(y, journal[y][i].type) :
              (j < i /\ Registered(journal[y][j])) => <<y, j>> \in handled
        \/ Followed(y, i)
    BY <2>1 DEF IInv, AheadOnlyAsContinuation, Followed
  <2>3. ASSUME NEW j \in OfType(y, journal[y][i].type)', j < i
        PROVE  j \in OfType(y, journal[y][i].type) /\ journal'[y][j] = journal[y][j]
    <3>1. j \in DOMAIN journal'[y] /\ journal'[y][j].type = journal'[y][i].type
      BY <2>3 DEF OfType
    <3>2. j \in Nat
      <4>1. journal' \in [Zones -> Seq(Events)]
        BY DEF TypeOK
      <4>2. DOMAIN journal'[y] = 1 .. Len(journal'[y])
        BY <4>1
      <4> QED
        BY <3>1, <4>2
    <3>3. j \in DOMAIN journal[y]
      BY <1>2, <2>1, <2>3, <3>1, <3>2
    <3> QED
      BY <1>2, <2>1, <3>1, <3>3 DEF OfType
  <2> QED
    BY <1>11, <2>2, <2>3
<1> QED
  BY <1>5, <1>6, <1>7, <1>8, <1>9, <1>10, <1>12, <1>13 DEF IInv
(* What is handled stays handled.                                           *)
LEMMA TakeKeeps ==
  ASSUME IInv, NEW k, Take(k), loop.zone \in Zones, k \in DOMAIN journal[loop.zone]
  PROVE  /\ HandledExist' /\ PositionsBounded' /\ BehindHandled' /\ CurrentHandled'
         /\ <<loop.zone, k>> \in handled'
         /\ \A z, i : <<z, i>> \in handled' <=> (<<z, i>> \in handled \/ (z = loop.zone /\ i = k))
         /\ \A z, i : Followed(z, i) => Followed(z, i)'
<1>1. /\ UNCHANGED <<journal, positions, restarts>> /\ handled' = handled \union {<<loop.zone, k>>}
      /\ loop'.zone = loop.zone /\ loop'.current = k
  BY DEF Take, IInv, TypeOK
<1>2. \A z, i : <<z, i>> \in handled' <=> (<<z, i>> \in handled \/ (z = loop.zone /\ i = k))
  BY <1>1
<1>3. \A z, i : Followed(z, i) => Followed(z, i)'
  BY <1>1, JournalKept DEF Followed
<1>4. HandledExist'
  BY <1>1, <1>2 DEF IInv, HandledExist
<1>5. PositionsBounded'
  BY <1>1, JournalKept DEF IInv, PositionsBounded
<1>6. BehindHandled'
  BY <1>1, JournalKept DEF IInv, BehindHandled, Registered
<1>7. CurrentHandled'
  BY <1>1, <1>2 DEF CurrentHandled
<1> QED
  BY <1>2, <1>3, <1>4, <1>5, <1>6, <1>7

LEMMA HandleStep ==
  ASSUME IInv, TypeOK', NEW k \in 1 .. MaxEvents, Handle(k)
  PROVE  IInv'
<1>1. TypeOK /\ WalkedType \in EventTypes /\ loop.zone \in Zones
  BY WalkedTyped DEF IInv
<1>2. /\ loop.pc = "walking" /\ loop.position < loop.through
      /\ k \in OfType(loop.zone, WalkedType) /\ Sequence(loop.zone, k) = loop.position
      /\ UNCHANGED <<journal, positions, restarts>>
  BY DEF Handle, At, Take, WalkedType
<1>3. /\ loop'.pc = "following" /\ loop'.zone = loop.zone /\ loop'.key = loop.key
      /\ loop'.position = loop.position /\ loop'.through = loop.through
  BY <1>1 DEF Handle, Take, TypeOK
<1>4. k \in DOMAIN journal[loop.zone] /\ journal[loop.zone][k].type = WalkedType
  BY <1>2 DEF OfType
<1>5. /\ HandledExist' /\ PositionsBounded' /\ BehindHandled' /\ CurrentHandled'
      /\ <<loop.zone, k>> \in handled'
      /\ \A z, i : <<z, i>> \in handled' <=> (<<z, i>> \in handled \/ (z = loop.zone /\ i = k))
      /\ \A z, i : Followed(z, i) => Followed(z, i)'
  BY <1>1, <1>4, TakeKeeps DEF Handle
<1>6. WalkBounded'
  BY <1>2, <1>3, StillPassing, JournalKept DEF IInv, WalkBounded
<1>7. PassedHandled'
  <2> SUFFICES ASSUME NEW i, Passing(loop.zone, i)' PROVE <<loop.zone, i>> \in handled'
    BY <1>3 DEF PassedHandled
  <2>1. i \in OfType(loop.zone, WalkedType) /\ Sequence(loop.zone, i) = loop.position
    BY <1>2, <1>3, StillPassing
  <2>2. i = k
    BY <1>1, <1>2, <2>1, SequenceUnique
  <2> QED
    BY <1>5, <2>2
<1>8. HandledWhy'
  <2> SUFFICES ASSUME restarts = 0, NEW z \in Zones, NEW i, <<z, i>> \in handled'
               PROVE  \/ Sequence(z, i) < positions[z][journal[z][i].type]
                      \/ Followed(z, i)' \/ Passing(z, i)'
    BY <1>2, JournalKept DEF HandledWhy
  <2>1. CASE <<z, i>> \in handled
    BY <1>2, <1>5, <2>1 DEF IInv, HandledWhy, Passing
  <2>2. CASE z = loop.zone /\ i = k
    BY <1>2, <1>3, <2>2, StillPassing
  <2> QED
    BY <1>5, <2>1, <2>2
<1>9. AheadOnlyAsContinuation'
  <2> SUFFICES ASSUME NEW z \in Zones, NEW i \in DOMAIN journal[z], <<z, i>> \in handled'
               PROVE  \/ \A j \in OfType(z, journal[z][i].type) :
                           (j < i /\ Registered(journal[z][j])) => <<z, j>> \in handled'
                      \/ Followed(z, i)'
    <3>1. journal' = journal
      BY <1>2
    <3>2. \A z, i : Followed(z, i)' <=> (<<z, journal[z][i].cause>> \in handled' /\ i \in NextOnStream(z, journal[z][i].cause))
      BY <3>1, JournalKept DEF Followed
    <3> QED
      BY <3>1, <3>2, JournalKept DEF AheadOnlyAsContinuation, Registered
  <2>1. CASE <<z, i>> \in handled
    BY <1>5, <2>1 DEF IInv, AheadOnlyAsContinuation, Followed
  <2>2. CASE z = loop.zone /\ i = k
    <3> SUFFICES ASSUME NEW j \in OfType(loop.zone, WalkedType), j < k, Registered(journal[loop.zone][j])
                 PROVE  <<loop.zone, j>> \in handled
      BY <1>4, <1>5, <2>2
    <3>1. Sequence(loop.zone, j) < positions[loop.zone][WalkedType]
      BY <1>1, <1>2, SequenceOrdered DEF IInv, WalkBounded
    <3> QED
      BY <1>1, <3>1 DEF IInv, BehindHandled, OfType
  <2> QED
    BY <1>5, <2>1, <2>2
<1> QED
  BY <1>5, <1>6, <1>7, <1>8, <1>9 DEF IInv

LEMMA FollowStep ==
  ASSUME IInv, TypeOK', NEW k \in 1 .. MaxEvents, Follow(k)
  PROVE  IInv'
<1>1. TypeOK /\ WalkedType \in EventTypes /\ loop.zone \in Zones
  BY WalkedTyped DEF IInv
<1>2. /\ loop.pc = "following" /\ Continues(k) /\ UNCHANGED <<journal, positions, restarts>>
  BY DEF Follow, Take
<1>3. /\ loop'.pc = "following" /\ loop'.zone = loop.zone /\ loop'.key = loop.key
      /\ loop'.position = loop.position /\ loop'.through = loop.through
  BY <1>1 DEF Follow, Take, TypeOK
<1>4. k \in DOMAIN journal[loop.zone]
  BY <1>2 DEF Continues, NextOnStream
<1>5. /\ HandledExist' /\ PositionsBounded' /\ BehindHandled' /\ CurrentHandled'
      /\ <<loop.zone, k>> \in handled'
      /\ \A z, i : <<z, i>> \in handled' <=> (<<z, i>> \in handled \/ (z = loop.zone /\ i = k))
      /\ \A z, i : Followed(z, i) => Followed(z, i)'
  BY <1>1, <1>4, TakeKeeps DEF Follow
<1>6. Followed(loop.zone, k)'
  <2>1. Followed(loop.zone, k)
    BY <1>2 DEF IInv, CurrentHandled, Continues, Followed
  <2>2. <<loop.zone, journal[loop.zone][k].cause>> \in handled' /\ k \in NextOnStream(loop.zone, journal[loop.zone][k].cause)
    BY <1>5, <2>1 DEF Followed
  <2> QED
    BY <1>2, <1>3, <2>2, JournalKept DEF Followed
<1>7. WalkBounded'
  BY <1>2, <1>3, StillPassing, JournalKept DEF IInv, WalkBounded
<1>8. PassedHandled'
  <2> SUFFICES ASSUME NEW i, Passing(loop.zone, i)', Registered(journal[loop.zone][i])
               PROVE  <<loop.zone, i>> \in handled'
    BY <1>2, <1>3 DEF PassedHandled, Registered
  <2>1. Passing(loop.zone, i)
    BY <1>2, <1>3, StillPassing DEF Passing
  <2> QED
    BY <1>5, <2>1 DEF IInv, PassedHandled
<1>9. HandledWhy'
  <2> SUFFICES ASSUME restarts = 0, NEW z \in Zones, NEW i, <<z, i>> \in handled'
               PROVE  \/ Sequence(z, i) < positions[z][journal[z][i].type]
                      \/ Followed(z, i)' \/ Passing(z, i)'
    BY <1>2, JournalKept DEF HandledWhy
  <2>1. CASE <<z, i>> \in handled
    BY <1>2, <1>3, <1>5, <2>1, StillPassing DEF IInv, HandledWhy
  <2>2. CASE z = loop.zone /\ i = k
    BY <1>3, <1>6, <2>2
  <2> QED
    BY <1>5, <2>1, <2>2
<1>10. AheadOnlyAsContinuation'
  <2> SUFFICES ASSUME NEW z \in Zones, NEW i \in DOMAIN journal[z], <<z, i>> \in handled'
               PROVE  \/ \A j \in OfType(z, journal[z][i].type) :
                           (j < i /\ Registered(journal[z][j])) => <<z, j>> \in handled'
                      \/ Followed(z, i)'
    <3>1. journal' = journal
      BY <1>2
    <3>2. \A z, i : Followed(z, i)' <=> (<<z, journal[z][i].cause>> \in handled' /\ i \in NextOnStream(z, journal[z][i].cause))
      BY <3>1, JournalKept DEF Followed
    <3> QED
      BY <3>1, <3>2, JournalKept DEF AheadOnlyAsContinuation, Registered
  <2>1. CASE <<z, i>> \in handled
    BY <1>5, <2>1 DEF IInv, AheadOnlyAsContinuation, Followed
  <2>2. CASE z = loop.zone /\ i = k
    BY <1>3, <1>6, <2>2
  <2> QED
    BY <1>5, <2>1, <2>2
<1> QED
  BY <1>5, <1>7, <1>8, <1>9, <1>10 DEF IInv

LEMMA AdvanceStep ==
  ASSUME IInv, TypeOK', AdvancePosition
  PROVE  IInv'
<1>1. TypeOK /\ WalkedType \in EventTypes /\ loop.zone \in Zones
  BY WalkedTyped DEF IInv
<1>2. /\ loop.pc = "advancing" /\ positions[loop.zone][WalkedType] = loop.position
      /\ loop.position + 1 <= TypePosition(loop.zone, WalkedType)
      /\ positions' = [positions EXCEPT ![loop.zone][WalkedType] = loop.position + 1]
      /\ UNCHANGED <<journal, handled, restarts>>
  BY DEF AdvancePosition, WalkedType
<1>3. /\ loop'.pc = "walking" /\ loop'.zone = loop.zone /\ loop'.key = loop.key
      /\ loop'.position = loop.position + 1 /\ loop'.through = loop.through /\ loop.position \in Nat
  BY <1>1 DEF AdvancePosition, TypeOK
<1>4. /\ positions'[loop.zone][WalkedType] = loop.position + 1
      /\ \A z \in Zones, t \in EventTypes :
           (z # loop.zone \/ t # WalkedType) => positions'[z][t] = positions[z][t]
  BY <1>1, <1>2 DEF TypeOK
<1>5. HandledExist' /\ PassedHandled' /\ CurrentHandled'
  BY <1>2, <1>3 DEF IInv, HandledExist, PassedHandled, Passing, CurrentHandled
<1>6. PositionsBounded'
  BY <1>2, <1>4, JournalKept DEF IInv, PositionsBounded
<1>7. WalkBounded'
  BY <1>2, <1>3, <1>4, JournalKept DEF IInv, WalkBounded, WalkedType
<1>8. BehindHandled'
  <2> SUFFICES ASSUME NEW z \in Zones, NEW i \in DOMAIN journal[z], Registered(journal[z][i]),
                      Sequence(z, i) < positions'[z][journal[z][i].type]
               PROVE  <<z, i>> \in handled
    BY <1>2, JournalKept DEF BehindHandled, Registered
  <2>1. journal[z][i].type \in EventTypes /\ Sequence(z, i) \in Nat
    BY <1>1, EventsTyped, BeforeFinite DEF Events
  <2>2. CASE z = loop.zone /\ journal[z][i].type = WalkedType
    <3>1. CASE Sequence(z, i) < loop.position
      BY <1>2, <2>2, <3>1 DEF IInv, BehindHandled
    <3>2. CASE Sequence(z, i) = loop.position
      BY <1>2, <2>2, <3>2 DEF IInv, PassedHandled, Passing, OfType
    <3> QED
      BY <1>3, <1>4, <2>1, <2>2, <3>1, <3>2
  <2>3. CASE ~(z = loop.zone /\ journal[z][i].type = WalkedType)
    BY <1>4, <2>1, <2>3 DEF IInv, BehindHandled
  <2> QED
    BY <2>2, <2>3
<1>9. HandledWhy'
  <2> SUFFICES ASSUME restarts = 0, NEW z \in Zones, NEW i, <<z, i>> \in handled
               PROVE  Sequence(z, i) < positions'[z][journal[z][i].type] \/ Followed(z, i)
    BY <1>2, JournalKept DEF HandledWhy, Followed
  <2>1. i \in DOMAIN journal[z]
    BY DEF IInv, HandledExist
  <2>2. journal[z][i].type \in EventTypes /\ Sequence(z, i) \in Nat
    BY <1>1, <2>1, EventsTyped, BeforeFinite DEF Events
  <2>3. CASE Sequence(z, i) < positions[z][journal[z][i].type]
    BY <1>2, <1>3, <1>4, <2>2, <2>3
  <2>4. CASE Passing(z, i)
    BY <1>3, <1>4, <2>4 DEF Passing, OfType
  <2> QED
    BY <2>3, <2>4 DEF IInv, HandledWhy
<1>10. AheadOnlyAsContinuation'
  BY <1>2, JournalKept DEF IInv, AheadOnlyAsContinuation, Registered
<1> QED
  BY <1>5, <1>6, <1>7, <1>8, <1>9, <1>10 DEF IInv

-----------------------------------------------------------------------------
(* The invariant, and what follows from it *)

LEMMA InitIInv == Init => IInv
<1> SUFFICES ASSUME Init PROVE IInv
  OBVIOUS
<1>1. loop.pc = "scanning" /\ handled = {} /\ restarts = 0
  BY DEF Init, Scan
<1>2. \A z \in Zones : journal[z] = << >> /\ DOMAIN journal[z] = {}
  BY DEF Init
<1>3. TypeOK
  <2>1. journal \in [Zones -> Seq(Events)]
    <3>1. << >> \in Seq(Events)
      OBVIOUS
    <3> QED
      BY <3>1 DEF Init
  <2>2. positions \in [Zones -> [EventTypes -> Nat]]
    BY DEF Init
  <2> QED
    BY <1>1, <2>1, <2>2, KeysTyped, ScanTyped DEF Init, TypeOK
<1>4. PositionsBounded
  <2> SUFFICES ASSUME NEW z \in Zones, NEW t \in EventTypes PROVE positions[z][t] <= TypePosition(z, t)
    BY DEF PositionsBounded
  <2>1. positions[z][t] = 0 /\ TypePosition(z, t) \in Nat
    BY <1>3, OfTypeFinite DEF Init
  <2> QED
    BY <2>1
<1> QED
  BY <1>1, <1>2, <1>3, <1>4 DEF IInv, HandledExist, BehindHandled, WalkBounded, PassedHandled,
     Passing,
     CurrentHandled, HandledWhy, AheadOnlyAsContinuation

\* What is known of handled events from the positions and the state of the
\* walk is kept by every step of the loop.
THEOREM Invariance == Spec => []IInv
<1>1. IInv /\ [Next]_vars => IInv'
  <2> SUFFICES ASSUME IInv, [Next]_vars PROVE IInv'
    OBVIOUS
  <2>1. TypeOK'
    BY StepTyped DEF IInv
  <2>2. CASE UNCHANGED vars
    BY <2>2, JournalKept, LoopOnly, <2>1
       DEF vars, IInv, WalkBounded, WalkedType, PassedHandled, Passing, CurrentHandled,
       HandledWhy, Registered
  <2>3. CASE Restart \/ (\E z \in Zones : PickZone(z)) \/ NothingPending \/ Poll \/ Bound \/ EndOfType
             \/ (\E i \in 1 .. MaxEvents : SkipVersion(i)) \/ EndOfStream
    <3>1. UNCHANGED <<journal, positions, handled>>
      BY <2>3 DEF Restart, PickZone, NothingPending, Poll, Bound, EndOfType, SkipVersion,
         EndOfStream
    <3> QED
      BY <2>1, <2>3, <3>1, LoopSteps
  <2> QED
    BY <2>1, <2>2, <2>3, PublishStep, HandleStep, FollowStep, AdvanceStep DEF Next, Walk
<1> QED
  BY <1>1, InitIInv, PTL DEF Spec

\* The types of Dispatcher.tla are kept.
THEOREM TypeCorrect == Spec => []TypeOK
<1>1. IInv => TypeOK
  BY DEF IInv
<1> QED
  BY <1>1, Invariance, PTL

\* An effect runs ahead of an earlier event of its EventType only as the
\* direct continuation of an event already handled.
THEOREM OnlyContinuationsAhead == Spec => []AheadOnlyAsContinuation
<1>1. IInv => AheadOnlyAsContinuation
  BY DEF IInv
<1> QED
  BY <1>1, Invariance, PTL

\* Without a restart, a walk meets an event a second time only when it was
\* handled before as such a continuation.
THEOREM WalkedAtMostOnce == Spec => []WalkedOnce
<1>1. IInv => WalkedOnce
  <2> SUFFICES ASSUME IInv, NEW i \in 1 .. MaxEvents, At(i), restarts = 0, <<loop.zone, i>> \in handled
               PROVE  Followed(loop.zone, i) /\ journal[loop.zone][i].cause # 0
    BY DEF WalkedOnce, Followed
  <2>1. TypeOK /\ loop.zone \in Zones
    BY DEF IInv, TypeOK
  <2>2. /\ loop.pc = "walking" /\ i \in OfType(loop.zone, WalkedType)
        /\ Sequence(loop.zone, i) = loop.position /\ journal[loop.zone][i].type = WalkedType
    BY DEF At, WalkedType, OfType
  <2>3. ~(Sequence(loop.zone, i) < positions[loop.zone][WalkedType]) /\ ~Passing(loop.zone, i)
    BY <2>2, <2>1 DEF IInv, WalkBounded, Passing, TypeOK
  <2>4. Followed(loop.zone, i)
    BY <2>1, <2>2, <2>3 DEF IInv, HandledWhy
  <2>5. journal[loop.zone][i].cause \in DOMAIN journal[loop.zone]
    BY <2>1, <2>4 DEF IInv, HandledExist, Followed
  <2> QED
    BY <2>1, <2>4, <2>5, EventsTyped
<1> QED
  BY <1>1, Invariance, PTL

-----------------------------------------------------------------------------
(* The delivery every consumer is promised *)

(* The sequences of a type have no gap: LogOf names an event at each of     *)
(* them.                                                                    *)
NoGaps ==
  \A z \in Zones, t \in EventTypes :
    \A n \in 0 .. TypePosition(z, t) - 1 : \E i \in OfType(z, t) : Sequence(z, i) = n

LEMMA PublishExtends ==
  ASSUME TypeOK, NEW z \in Zones, NEW t \in EventTypes, NEW v \in Versions, NEW s \in Streams,
         NEW cause \in 0 .. MaxEvents, Publish(z, t, v, s, cause)
  PROVE  /\ \E i \in DOMAIN journal'[z] \ DOMAIN journal[z] :
              /\ OfType(z, t)' = OfType(z, t) \union {i} /\ journal'[z][i].version = v
              /\ Sequence(z, i)' = TypePosition(z, t)
         /\ TypePosition(z, t)' = TypePosition(z, t) + 1
         /\ \A y \in Zones, u \in EventTypes :
              <<y, u>> # <<z, t>> => OfType(y, u)' = OfType(y, u) /\ TypePosition(y, u)' = TypePosition(y, u)
<1> DEFINE e == [type |-> t, version |-> v, stream |-> s, cause |-> cause]
<1> PICK k : k = Len(journal[z]) + 1
  OBVIOUS
<1>1. e \in Events
  <2>1. cause \in Nat
    BY BoundsAssumption
  <2> QED
    BY <2>1 DEF Events
<1>2. journal' = [journal EXCEPT ![z] = Append(@, e)] /\ journal \in [Zones -> Seq(Events)]
  BY DEF Publish, TypeOK
<1>3. /\ DOMAIN journal[z] = 1 .. Len(journal[z]) /\ Len(journal[z]) \in Nat
      /\ DOMAIN journal'[z] = DOMAIN journal[z] \union {k} /\ k \notin DOMAIN journal[z]
      /\ journal'[z][k] = e
      /\ \A i \in DOMAIN journal[z] : journal'[z][i] = journal[z][i]
  <2>1. journal'[z] = Append(journal[z], e) /\ journal[z] \in Seq(Events)
    BY <1>2
  <2> QED
    BY <1>1, <2>1
<1>4. OfType(z, t)' = OfType(z, t) \union {k} /\ k \notin OfType(z, t)
  BY <1>3 DEF OfType
<1>5. Sequence(z, k)' = TypePosition(z, t)
  <2>1. k \in DOMAIN journal'[z] \ DOMAIN journal[z] /\ journal'[z][k].type = t
    BY <1>3
  <2>2. \A i \in DOMAIN journal'[z] \ DOMAIN journal[z] : Sequence(z, i)' = TypePosition(z, journal'[z][i].type)
    BY PublishKeeps
  <2> QED
    BY <2>1, <2>2
<1>6. TypePosition(z, t)' = TypePosition(z, t) + 1
  <2>1. IsFiniteSet(OfType(z, t))
    BY OfTypeFinite
  <2>2. Cardinality(OfType(z, t) \union {k}) = Cardinality(OfType(z, t)) + 1
    BY <1>4, <2>1, FS_AddElement
  <2> QED
    BY <1>4, <2>2 DEF TypePosition
<1>7. ASSUME NEW y \in Zones, NEW u \in EventTypes, <<y, u>> # <<z, t>>
      PROVE  OfType(y, u)' = OfType(y, u)
  <2>1. CASE y = z
    BY <1>3, <1>7, <2>1 DEF OfType
  <2>2. CASE y # z
    <3>1. journal'[y] = journal[y]
      BY <1>2, <2>2
    <3> QED
      BY <3>1 DEF OfType
  <2> QED
    BY <2>1, <2>2
<1>8. \A y \in Zones, u \in EventTypes :
        <<y, u>> # <<z, t>> => OfType(y, u)' = OfType(y, u) /\ TypePosition(y, u)' = TypePosition(y, u)
  BY <1>7 DEF TypePosition
<1>9. k \in DOMAIN journal'[z] \ DOMAIN journal[z] /\ journal'[z][k].version = v
  BY <1>3
<1>10. \E i \in DOMAIN journal'[z] \ DOMAIN journal[z] :
         /\ OfType(z, t)' = OfType(z, t) \union {i} /\ journal'[z][i].version = v
         /\ Sequence(z, i)' = TypePosition(z, t)
  BY <1>4, <1>5, <1>9
<1> QED
  BY <1>6, <1>8, <1>10

LEMMA NoGapsInvariance == Spec => []NoGaps
<1>1. Init => NoGaps
  <2> SUFFICES ASSUME Init, NEW z \in Zones, NEW t \in EventTypes PROVE TypePosition(z, t) = 0
    BY DEF NoGaps
  <2>1. OfType(z, t) = {}
    BY DEF Init, OfType
  <2> QED
    BY <2>1, FS_EmptySet DEF TypePosition
<1>2. TypeOK /\ NoGaps /\ [Next]_vars => NoGaps'
  <2> SUFFICES ASSUME TypeOK, NoGaps, [Next]_vars PROVE NoGaps'
    OBVIOUS
  <2>1. CASE UNCHANGED journal
    BY <2>1, JournalKept DEF NoGaps
  <2>2. ASSUME NEW z \in Zones, NEW t \in EventTypes, NEW v \in Versions, NEW s \in Streams,
               NEW cause \in 0 .. MaxEvents, Publish(z, t, v, s, cause)
        PROVE  NoGaps'
    <3> SUFFICES ASSUME NEW y \in Zones, NEW u \in EventTypes, NEW n \in 0 .. TypePosition(y, u)' - 1
                 PROVE  \E i \in OfType(y, u)' : Sequence(y, i)' = n
      BY DEF NoGaps
    <3>1. OfType(y, u) \subseteq OfType(y, u)' /\ \A i \in OfType(y, u) : Sequence(y, i)' = Sequence(y, i)
      BY <2>2, PublishKeeps DEF OfType
    <3>2. CASE n \in 0 .. TypePosition(y, u) - 1
      BY <3>1, <3>2 DEF NoGaps
    <3>3. CASE n \notin 0 .. TypePosition(y, u) - 1
      <4>1. TypePosition(y, u) \in Nat /\ TypePosition(z, t) \in Nat
        BY OfTypeFinite
      <4>2. y = z /\ u = t /\ n = TypePosition(z, t)
        BY <2>2, <3>3, <4>1, PublishExtends
      <4> QED
        BY <2>2, <4>2, PublishExtends
    <3> QED
      BY <3>2, <3>3
  <2>3. ASSUME ~(\E z \in Zones, t \in EventTypes, v \in Versions, s \in Streams :
                   \E cause \in 0 .. MaxEvents : Publish(z, t, v, s, cause))
        PROVE  UNCHANGED journal
    BY <2>3 DEF Next, Walk, PickZone, NothingPending, Poll, Bound, EndOfType, Handle,
       SkipVersion,
       Follow, Take, EndOfStream, AdvancePosition, Restart, vars
  <2> QED
    BY <2>1, <2>2, <2>3
<1> QED
  BY <1>1, <1>2, TypeCorrect, PTL DEF Spec

(* LogOf tells the version of the event at each sequence.                   *)
LogTold ==
  \A z \in Zones, t \in EventTypes :
    /\ DOMAIN LogOf(z, t) = 1 .. TypePosition(z, t) /\ TypePosition(z, t) \in Nat
    /\ Len(LogOf(z, t)) = TypePosition(z, t)
    /\ \A i \in OfType(z, t) :
         Sequence(z, i) < TypePosition(z, t) => LogOf(z, t)[Sequence(z, i) + 1] = journal[z][i].version

LEMMA LogEntries == TypeOK => LogTold
<1> SUFFICES ASSUME TypeOK, NEW z \in Zones, NEW t \in EventTypes
             PROVE  /\ DOMAIN LogOf(z, t) = 1 .. TypePosition(z, t) /\ TypePosition(z, t) \in Nat
                    /\ Len(LogOf(z, t)) = TypePosition(z, t)
                    /\ \A i \in OfType(z, t) :
                         Sequence(z, i) < TypePosition(z, t) =>
                           LogOf(z, t)[Sequence(z, i) + 1] = journal[z][i].version
  BY DEF LogTold
<1>1. TypePosition(z, t) \in Nat /\ DOMAIN LogOf(z, t) = 1 .. TypePosition(z, t)
  BY OfTypeFinite DEF LogOf
<1>2. Len(LogOf(z, t)) = TypePosition(z, t)
  BY <1>1
<1>3. ASSUME NEW i \in OfType(z, t), Sequence(z, i) < TypePosition(z, t)
      PROVE  LogOf(z, t)[Sequence(z, i) + 1] = journal[z][i].version
  <2> DEFINE m == Sequence(z, i) + 1
             found == CHOOSE j \in OfType(z, t) : Sequence(z, j) = m - 1
  <2>1. Sequence(z, i) \in Nat
    BY BeforeFinite
  <2>2. m \in 1 .. TypePosition(z, t) /\ m - 1 = Sequence(z, i)
    BY <1>1, <1>3, <2>1
  <2>3. found \in OfType(z, t) /\ Sequence(z, found) = Sequence(z, i)
    BY <2>2
  <2>4. found = i
    BY <2>3, SequenceUnique
  <2>5. LogOf(z, t)[m] = journal[z][found].version
    BY <2>2 DEF LogOf
  <2> QED
    BY <2>4, <2>5
<1> QED
  BY <1>1, <1>2, <1>3

(* Every event's sequence is before the end of its type.                    *)
LEMMA SequenceBelow ==
  ASSUME TypeOK, NEW z \in Zones, NEW t, NEW i \in OfType(z, t)
  PROVE  Sequence(z, i) \in Nat /\ Sequence(z, i) < TypePosition(z, t)
<1>1. i \in Nat /\ journal[z][i].type = t
  BY EventsTyped DEF OfType
<1>2. Before(z, i) \in SUBSET OfType(z, t) /\ i \notin Before(z, i)
  BY <1>1 DEF Before
<1>3. /\ Cardinality(Before(z, i)) <= Cardinality(OfType(z, t))
      /\ Cardinality(Before(z, i)) # Cardinality(OfType(z, t))
  BY <1>2, OfTypeFinite, FS_Subset
<1> QED
  BY <1>3, BeforeFinite, OfTypeFinite DEF TypePosition

LEMMA OneMore ==
  ASSUME NEW entries, NEW n \in Nat, NEW v \in entries,
         NEW log \in [1 .. n -> entries], NEW later \in [1 .. n + 1 -> entries],
         \A m \in 1 .. n : later[m] = log[m], later[n + 1] = v
  PROVE  later = Append(log, v)
<1>1. later \in Seq(entries) /\ Len(later) = n + 1 /\ log \in Seq(entries) /\ Len(log) = n
  OBVIOUS
<1>2. Append(log, v) \in Seq(entries) /\ Len(Append(log, v)) = n + 1
  BY <1>1
<1>3. \A m \in 1 .. n + 1 : Append(log, v)[m] = later[m]
  BY <1>1
<1> QED
  BY <1>1, <1>2, <1>3, SeqEqual

(* A committed event of a registered EventType is one of Delivery.tla's log *)
(* of it; one of another EventType is not in it.                            *)
LEMMA PublishMaps ==
  ASSUME IInv, NoGaps, NEW z \in Zones, NEW t \in EventTypes, NEW v \in Versions, NEW s \in Streams,
         NEW cause \in 0 .. MaxEvents, Publish(z, t, v, s, cause)
  PROVE  Promise!Next \/ UNCHANGED Promise!vars
<1>1. TypeOK /\ HandledExist /\ KeyTypes \subseteq EventTypes
  BY KeysAssumption DEF IInv
<1>2. LogTold /\ LogTold'
  <2>1. TypeOK'
    BY <1>1, StepTyped DEF Next
  <2>2. TypeOK' => LogTold'
    BY LogEntries, PTL
  <2> QED
    BY <1>1, <2>1, <2>2, LogEntries
<1>3. PICK i \in DOMAIN journal'[z] \ DOMAIN journal[z] :
        /\ OfType(z, t)' = OfType(z, t) \union {i} /\ journal'[z][i].version = v
        /\ Sequence(z, i)' = TypePosition(z, t)
  BY <1>1, PublishExtends
<1>4. ASSUME NEW y \in Zones, NEW u \in EventTypes, NEW m \in 1 .. TypePosition(y, u)
      PROVE  LogOf(y, u)'[m] = LogOf(y, u)[m]
  <2>1. TypePosition(y, u) \in Nat /\ TypePosition(y, u) <= TypePosition(y, u)' /\ m - 1 \in 0 .. TypePosition(y, u) - 1
    BY <1>1, OfTypeFinite, PublishKeeps
  <2>2. PICK j \in OfType(y, u) : Sequence(y, j) = m - 1
    BY <2>1 DEF NoGaps
  <2>3. j \in DOMAIN journal[y] /\ j \in OfType(y, u)' /\ Sequence(y, j)' = m - 1
    BY <1>1, <2>2, PublishKeeps DEF OfType
  <2>4. journal'[y][j] = journal[y][j]
    BY <1>1, <2>3, PublishGrows
  <2>5. LogOf(y, u)[m] = journal[y][j].version
    <3>1. \A k \in OfType(y, u) : Sequence(y, k) < TypePosition(y, u) =>
            LogOf(y, u)[Sequence(y, k) + 1] = journal[y][k].version
      BY <1>2 DEF LogTold
    <3>2. m - 1 < TypePosition(y, u) /\ (m - 1) + 1 = m
      BY <2>1
    <3> QED
      BY <2>2, <3>1, <3>2
  <2>6. LogOf(y, u)'[m] = journal'[y][j].version
    <3>1. \A k \in OfType(y, u)' : Sequence(y, k)' < TypePosition(y, u)' =>
            LogOf(y, u)'[Sequence(y, k)' + 1] = journal'[y][k].version
      BY <1>2 DEF LogTold
    <3>2. TypePosition(y, u)' \in Nat
      BY <1>2 DEF LogTold
    <3>3. m - 1 < TypePosition(y, u)' /\ (m - 1) + 1 = m
      BY <2>1, <3>2
    <3> QED
      BY <2>3, <3>1, <3>3
  <2> QED
    BY <2>4, <2>5, <2>6
<1>5. ASSUME NEW y \in Zones, NEW u \in EventTypes, <<y, u>> # <<z, t>> PROVE LogOf(y, u)' = LogOf(y, u)
  <2>1. TypePosition(y, u)' = TypePosition(y, u)
    BY <1>1, <1>5, PublishExtends
  <2> QED
    BY <1>4, <2>1 DEF LogOf
<1>6. LogOf(z, t)' = Append(LogOf(z, t), v)
  <2> DEFINE p == TypePosition(z, t)
  <2>1. p \in Nat /\ TypePosition(z, t)' = p + 1
    BY <1>1, OfTypeFinite, PublishExtends
  <2>2. LogOf(z, t)'[p + 1] = v
    <3>1. \A j \in OfType(z, t)' : Sequence(z, j)' < TypePosition(z, t)' =>
            LogOf(z, t)'[Sequence(z, j)' + 1] = journal'[z][j].version
      BY <1>2 DEF LogTold
    <3>2. i \in OfType(z, t)' /\ Sequence(z, i)' = p /\ p < TypePosition(z, t)'
      BY <1>3, <2>1
    <3> QED
      BY <1>3, <3>1, <3>2
  <2>3. \A m \in 1 .. p : LogOf(z, t)'[m] = LogOf(z, t)[m]
    BY <1>4
  <2> DEFINE entries == {LogOf(z, t)[m] : m \in 1 .. p} \union {LogOf(z, t)'[m] : m \in 1 .. p + 1}
  <2>4. LogOf(z, t) \in [1 .. p -> entries] /\ LogOf(z, t)' \in [1 .. p + 1 -> entries]
    <3>1. LogOf(z, t) \in [1 .. p -> entries]
      BY DEF LogOf
    <3>2. LogOf(z, t)' \in [1 .. p + 1 -> entries]
      BY <2>1 DEF LogOf
    <3> QED
      BY <3>1, <3>2
  <2>5. v \in entries
    BY <2>1, <2>2
  <2> HIDE DEF p, entries
  <2> QED
    BY <2>1, <2>2, <2>3, <2>4, <2>5, OneMore
<1>7. DeliveredPositions' = DeliveredPositions
  BY DEF Publish, DeliveredPositions
<1>8. DeliveredResults' = DeliveredResults
  <2>1. \A h \in handled : h[1] \in Zones /\ h[2] \in DOMAIN journal[h[1]]
    BY <1>1 DEF HandledExist, TypeOK
  <2>2. \A h \in handled : /\ journal'[h[1]][h[2]] = journal[h[1]][h[2]]
                            /\ Sequence(h[1], h[2])' = Sequence(h[1], h[2])
    BY <1>1, <2>1, PublishGrows, PublishKeeps
  <2> QED
    BY <2>2 DEF Publish, DeliveredResults
<1>9. CASE t \in KeyTypes
  <2>1. DeliveredLog' = [DeliveredLog EXCEPT ![z][t] = Append(@, v)]
    BY <1>1, <1>5, <1>6, <1>9 DEF DeliveredLog
  <2>2. Promise!Publish(z, t, v)
    BY <1>7, <1>8, <2>1 DEF Promise!Publish
  <2> QED
    BY <1>9, <2>2 DEF Promise!Next
<1>10. CASE t \notin KeyTypes
  <2>1. DeliveredLog' = DeliveredLog
    BY <1>1, <1>5, <1>10 DEF DeliveredLog
  <2> QED
    BY <1>7, <1>8, <2>1 DEF Promise!vars
<1> QED
  BY <1>9, <1>10

(* An event handled, walked to or followed, has its effect.                 *)
LEMMA TakeMaps ==
  ASSUME IInv, NoGaps, NEW i \in DOMAIN journal[loop.zone], Registered(journal[loop.zone][i]), Take(i),
         DeliveredLog' = DeliveredLog, DeliveredPositions' = DeliveredPositions
  PROVE  Promise!Next
<1> DEFINE z == loop.zone
           t == journal[z][i].type
           n == Sequence(z, i)
<1>1. TypeOK /\ z \in Zones /\ t \in KeyTypes /\ t \in EventTypes /\ i \in OfType(z, t)
  BY KeysAssumption DEF IInv, TypeOK, Registered, OfType
<1>2. n \in Nat /\ n < TypePosition(z, t) /\ TypePosition(z, t) \in Nat
  BY <1>1, SequenceBelow, OfTypeFinite
<1>3. DeliveredLog[z][t] = LogOf(z, t)
  BY <1>1 DEF DeliveredLog
<1>4. Promise!Handles(z, t, n)
  BY <1>1, <1>2, <1>3, LogEntries DEF LogTold, Promise!Handles, Registered
<1>5. n \in 0 .. Len(DeliveredLog[z][t])
  BY <1>1, <1>2, <1>3, LogEntries DEF LogTold
<1>6. DeliveredResults' = DeliveredResults \union {<<z, t, n>>}
  <2> DEFINE Result(h) == <<h[1], journal[h[1]][h[2]].type, Sequence(h[1], h[2])>>
  <2>1. journal' = journal /\ handled' = handled \union {<<z, i>>}
    BY DEF Take
  <2>2. \A h : Result(h)' = Result(h)
    BY <2>1, JournalKept
  <2>3. DeliveredResults = {Result(h) : h \in handled} /\ DeliveredResults' = {Result(h)' : h \in handled'}
    BY DEF DeliveredResults
  <2>4. Result(<<z, i>>) = <<z, t, n>>
    OBVIOUS
  <2> HIDE DEF Result
  <2> QED
    BY <2>1, <2>2, <2>3, <2>4
<1>7. Promise!Effect(z, t, n)
  BY <1>4, <1>6 DEF Promise!Effect
<1> QED
  BY <1>1, <1>5, <1>7 DEF Promise!Next

(* The position passes an event only behind its effect.                     *)
LEMMA AdvanceMaps ==
  ASSUME IInv, NoGaps, AdvancePosition, DeliveredLog' = DeliveredLog, DeliveredResults' = DeliveredResults
  PROVE  Promise!Next
<1> DEFINE z == loop.zone
           t == WalkedType
           n == loop.position
<1>1. TypeOK /\ z \in Zones /\ t \in KeyTypes /\ t \in EventTypes
  BY WalkedTyped DEF IInv
<1>2. /\ loop.pc = "advancing" /\ n = positions[z][t] /\ n \in Nat
      /\ TypePosition(z, t) \in Nat /\ n < TypePosition(z, t)
      /\ positions' = [positions EXCEPT ![z][t] = n + 1]
  BY <1>1, OfTypeFinite DEF AdvancePosition, WalkedType, TypeOK
<1>3. DeliveredLog[z][t] = LogOf(z, t) /\ DeliveredPositions[z][t] = n
  BY <1>1, <1>2 DEF DeliveredLog, DeliveredPositions
<1>4. PICK i \in OfType(z, t) : Sequence(z, i) = n
  BY <1>1, <1>2 DEF NoGaps
<1>5. journal[z][i].type = t /\ LogOf(z, t)[n + 1] = journal[z][i].version
  BY <1>1, <1>2, <1>4, LogEntries DEF LogTold, OfType
<1>6. ASSUME Promise!Handles(z, t, n) PROVE <<z, t, n>> \in DeliveredResults
  <2>1. Registered(journal[z][i])
    BY <1>1, <1>3, <1>5, <1>6 DEF Promise!Handles, Registered
  <2>2. <<z, i>> \in handled
    BY <1>2, <1>4, <2>1 DEF IInv, PassedHandled, Passing
  <2> QED
    BY <1>4, <1>5, <2>2 DEF DeliveredResults
<1>7. DeliveredPositions' = [DeliveredPositions EXCEPT ![z][t] = n + 1]
  BY <1>1, <1>2, KeysAssumption DEF DeliveredPositions, TypeOK
<1>8. Promise!Pass(z, t)
  BY <1>1, <1>2, <1>3, <1>6, <1>7, LogEntries DEF LogTold, Promise!Pass
<1> QED
  BY <1>1, <1>8 DEF Promise!Next

\* The Dispatcher gives its Consumer the delivery every consumer is promised:
\* an effect at least once for each event of its keys, and never a position
\* behind an event of theirs without it.
THEOREM Refinement == Spec => ImplementsDelivery
<1> USE KeysAssumption
<1>1. Init => Promise!Init
  <2> SUFFICES ASSUME Init PROVE Promise!Init
    OBVIOUS
  <2>1. ASSUME NEW z \in Zones, NEW t \in KeyTypes PROVE LogOf(z, t) = << >>
    <3>1. OfType(z, t) = {}
      BY DEF Init, OfType
    <3>2. TypePosition(z, t) = 0
      BY <3>1, FS_EmptySet DEF TypePosition
    <3> QED
      BY <3>2 DEF LogOf
  <2>2. DeliveredLog = [z \in Zones |-> [t \in KeyTypes |-> << >>]]
    BY <2>1 DEF DeliveredLog
  <2>3. DeliveredPositions = [z \in Zones |-> [t \in KeyTypes |-> 0]]
    BY DEF Init, DeliveredPositions
  <2>4. DeliveredResults = {}
    BY DEF Init, DeliveredResults
  <2> QED
    BY <2>2, <2>3, <2>4 DEF Promise!Init
<1>2. IInv /\ NoGaps /\ [Next]_vars => [Promise!Next]_(Promise!vars)
  <2> SUFFICES ASSUME IInv, NoGaps, [Next]_vars PROVE [Promise!Next]_(Promise!vars)
    OBVIOUS
  <2>1. TypeOK
    BY DEF IInv
  <2>2. ASSUME UNCHANGED journal PROVE DeliveredLog' = DeliveredLog
    <3>1. \A z, t : LogOf(z, t)' = LogOf(z, t)
      BY <2>2 DEF LogOf, OfType, Sequence, TypePosition
    <3> QED
      BY <3>1 DEF DeliveredLog
  <2>3. ASSUME UNCHANGED <<journal, handled>> PROVE DeliveredResults' = DeliveredResults
    BY <2>3, JournalKept DEF DeliveredResults
  <2>4. ASSUME UNCHANGED positions PROVE DeliveredPositions' = DeliveredPositions
    BY <2>4 DEF DeliveredPositions
  <2>5. ASSUME UNCHANGED <<journal, positions, handled>> PROVE UNCHANGED Promise!vars
    BY <2>2, <2>3, <2>4, <2>5 DEF Promise!vars
  <2>6. ASSUME NEW z \in Zones, NEW t \in EventTypes, NEW v \in Versions, NEW s \in Streams,
               NEW cause \in 0 .. MaxEvents, Publish(z, t, v, s, cause)
        PROVE  Promise!Next \/ UNCHANGED Promise!vars
    BY <2>1, <2>6, PublishMaps
  <2>7. ASSUME NEW i \in DOMAIN journal[loop.zone], Registered(journal[loop.zone][i]), Take(i)
        PROVE  Promise!Next
    BY <2>1, <2>2, <2>4, <2>7, TakeMaps DEF Take
  <2>8. ASSUME AdvancePosition PROVE Promise!Next
    BY <2>2, <2>3, <2>8, AdvanceMaps DEF AdvancePosition
  <2>9. CASE UNCHANGED vars
    BY <2>5, <2>9 DEF vars
  <2>10. CASE Restart \/ (\E z \in Zones : PickZone(z)) \/ NothingPending \/ Poll \/ Bound \/ EndOfType
              \/ (\E i \in 1 .. MaxEvents : SkipVersion(i)) \/ EndOfStream
    <3>1. UNCHANGED <<journal, positions, handled>>
      BY <2>10 DEF Restart, PickZone, NothingPending, Poll, Bound, EndOfType, SkipVersion,
         EndOfStream
    <3> QED
      BY <2>5, <3>1
  <2>11. ASSUME NEW i \in 1 .. MaxEvents, Handle(i) \/ Follow(i) PROVE Promise!Next
    <3>1. i \in DOMAIN journal[loop.zone] /\ Registered(journal[loop.zone][i]) /\ Take(i)
      BY <2>11 DEF Handle, At, OfType, Follow, Continues, NextOnStream
    <3> QED
      BY <2>7, <3>1
  <2> QED
    BY <2>6, <2>8, <2>9, <2>10, <2>11 DEF Next, Walk
<1> QED
  BY <1>1, <1>2, Invariance, NoGapsInvariance, PTL DEF Spec, Promise!Spec, ImplementsDelivery

-----------------------------------------------------------------------------
(* Epoch publication *)

\* Where an event has been served up to: no further than the EventType goes,
\* and an activation no further than it was started for.
CursorsBounded ==
  /\ cursors["epoch.structures"] <= Len(structures)
  /\ cursors["epoch.vectors"] <= Len(indexed)
  /\ through.structures <= Len(structures)
  /\ through.vectors <= Len(indexed)
  /\ pc["vectors"] = "built" => cursors["vectors"] < Len(published)

\* A Manifest is that of a Corpora whose Knowledge is complete and of no later
\* Knowledge than there is, and was published after those before it.
ManifestsExtracted ==
  /\ \A i \in 1 .. Len(published) :
       /\ published[i].corpora \in 1 .. Corpora
       /\ extracted[published[i].corpora] = Units
       /\ published[i].knowledge <= version
  /\ \A i, j \in 1 .. Len(published) :
       i <= j => published[i].knowledge <= published[j].knowledge

\* What is derived is derived from a Manifest that was published.
DerivedFromPublished ==
  /\ \A i \in 1 .. Len(structures) : structures[i] \in Pub!Range(published)
  /\ \A j \in 1 .. Len(indexed) : indexed[j].boundary \in Pub!Range(published)

\* One of the two loops of Epoch publication stands before an event.
Serving == Pub!ServesStructures \/ Pub!ServesVectors

\* What serving the event leaves behind: its Epoch, or no other half that has
\* been served already.
Served ==
  pc["epoch"] = "handled" =>
    /\ Serving
    /\ \/ Pub!HasEpoch(Pub!Joining)
       \/ /\ Pub!ServesStructures
          /\ \A j \in 1 .. cursors["epoch.vectors"] : indexed[j].boundary # Pub!Joining
       \/ /\ ~Pub!ServesStructures
          /\ \A i \in 1 .. cursors["epoch.structures"] : structures[i] # Pub!Joining

\* What JoinEvent has found holds until the transaction.
Publishing ==
  pc["epoch"] = "publishing" =>
    /\ Serving
    /\ ~Pub!HasEpoch(Pub!Joining)
    /\ Pub!Ready(Pub!Joining)
    /\ Pub!Indexed(Pub!Joining)

PublicationInv ==
  /\ Pub!TypeOK
  /\ CursorsBounded
  /\ ManifestsExtracted
  /\ DerivedFromPublished
  /\ Served
  /\ Publishing
  /\ Pub!EpochsReady
  /\ Pub!JoinComplete

-----------------------------------------------------------------------------

LEMMA ElementIn ==
  ASSUME NEW S, NEW q \in Seq(S), NEW n \in 1 .. Len(q)
  PROVE  q[n] \in S
  OBVIOUS

LEMMA AppendIn ==
  ASSUME NEW S, NEW q \in Seq(S), NEW x \in S
  PROVE  Append(q, x) \in Seq(S)
  OBVIOUS

LEMMA PublicationStart == Pub!BoundsAssumption /\ Pub!Init => PublicationInv
<1> SUFFICES ASSUME Pub!BoundsAssumption, Pub!Init PROVE PublicationInv
  OBVIOUS
<1>1. Pub!TypeOK
  BY DEF Pub!BoundsAssumption, Pub!TypeOK, Pub!Init, Pub!Boundaries, Pub!Consumers, Pub!Actions
<1>2. /\ published = <<>> /\ structures = <<>> /\ indexed = <<>> /\ epochs = <<>>
      /\ cursors["epoch.structures"] = 0 /\ cursors["epoch.vectors"] = 0
      /\ pc["vectors"] = "idle" /\ pc["epoch"] = "idle"
      /\ through.structures = 0 /\ through.vectors = 0
  BY DEF Pub!Init, Pub!Consumers, Pub!Actions
<1>3. CursorsBounded /\ ManifestsExtracted /\ DerivedFromPublished
  BY <1>2 DEF CursorsBounded, ManifestsExtracted, DerivedFromPublished
<1>4. Served /\ Publishing /\ Pub!JoinComplete
  BY <1>2 DEF Served, Publishing, Pub!JoinComplete
<1>5. Pub!EpochsReady
  BY <1>2 DEF Pub!EpochsReady, Pub!IsInjective
<1> QED
  BY <1>1, <1>3, <1>4, <1>5 DEF PublicationInv

\* The event that is served is one of its EventType.
LEMMA ServedEvent ==
  ASSUME Pub!TypeOK, CursorsBounded, Serving
  PROVE  /\ Pub!Joining \in Pub!Boundaries
         /\ Pub!ServesStructures => /\ cursors["epoch.structures"] + 1 \in 1 .. Len(structures)
                                /\ Pub!Joining = structures[cursors["epoch.structures"] + 1]
         /\ ~Pub!ServesStructures => /\ cursors["epoch.vectors"] + 1 \in 1 .. Len(indexed)
                                 /\ Pub!Joining = indexed[cursors["epoch.vectors"] + 1].boundary
<1>1. /\ cursors["epoch.structures"] \in Nat /\ cursors["epoch.vectors"] \in Nat
      /\ through.structures \in Nat /\ through.vectors \in Nat
  BY DEF Pub!TypeOK, Pub!Consumers
<1>2. CASE Pub!ServesStructures
  BY <1>1, <1>2 DEF Pub!TypeOK, CursorsBounded, Pub!Joining, Pub!ServesStructures
<1>3. CASE ~Pub!ServesStructures
  <2>1. cursors["epoch.vectors"] + 1 \in 1 .. Len(indexed)
    BY <1>1, <1>3 DEF Pub!TypeOK, CursorsBounded, Pub!ServesVectors, Serving
  <2>2. indexed[cursors["epoch.vectors"] + 1] \in [boundary : Pub!Boundaries, at : Nat]
    BY <2>1, ElementIn DEF Pub!TypeOK
  <2> QED
    BY <1>3, <2>1, <2>2 DEF Pub!Joining
<1> QED
  BY <1>2, <1>3

LEMMA TypeKept ==
  ASSUME Pub!BoundsAssumption, PublicationInv, [Pub!Next]_(Pub!vars)
  PROVE  Pub!TypeOK'
<1> USE DEF PublicationInv
<1>1. CASE Pub!CompleteCorpora
  BY <1>1 DEF Pub!CompleteCorpora, Pub!TypeOK, Pub!derivedVars, Pub!epochVars, Pub!processVars
<1>2. CASE Pub!ChangeKnowledge
  BY <1>2 DEF Pub!ChangeKnowledge, Pub!TypeOK, Pub!derivedVars, Pub!epochVars, Pub!processVars
<1>3. ASSUME NEW c \in 1 .. Corpora, Pub!ExtractUnit(c) PROVE Pub!TypeOK'
  <2>1. extracted' \in [1 .. Corpora -> 0 .. Units] /\ version' \in Nat
    <3>1. extracted[c] \in 0 .. Units /\ extracted[c] < Units
      BY <1>3 DEF Pub!ExtractUnit, Pub!TypeOK
    <3>2. extracted[c] + 1 \in 0 .. Units
      BY <3>1 DEF Pub!BoundsAssumption
    <3> QED
      BY <1>3, <3>2 DEF Pub!ExtractUnit, Pub!TypeOK
  <2> QED
    BY <1>3, <2>1 DEF Pub!ExtractUnit, Pub!TypeOK, Pub!derivedVars, Pub!epochVars,
       Pub!processVars
<1>4. ASSUME NEW c \in 1 .. Corpora, Pub!PublishKnowledge(c) PROVE Pub!TypeOK'
  <2>1. Pub!Boundary(c, version) \in Pub!Boundaries
    BY DEF Pub!Boundary, Pub!Boundaries, Pub!TypeOK
  <2>2. published' \in Seq(Pub!Boundaries)
    <3>1. published \in Seq(Pub!Boundaries)
      BY DEF Pub!TypeOK
    <3>2. published' = published \/ published' = Append(published, Pub!Boundary(c, version))
      BY <1>4 DEF Pub!PublishKnowledge
    <3> QED
      BY <2>1, <3>1, <3>2, AppendIn
  <2>3. pc' \in [Pub!Actions -> {"idle", "built", "joining", "publishing", "handled"}]
        /\ alive' \in BOOLEAN
    BY <1>4 DEF Pub!PublishKnowledge, Pub!TypeOK, Pub!Goto, Pub!Stop
  <2> QED
    BY <1>4, <2>2, <2>3 DEF Pub!PublishKnowledge, Pub!TypeOK, Pub!derivedVars, Pub!epochVars
<1>5. ASSUME NEW a \in Pub!Actions, NEW k \in Pub!Consumers, Pub!Advance(a, k) PROVE Pub!TypeOK'
  BY <1>5 DEF Pub!Advance, Pub!TypeOK, Pub!Goto, Pub!knowledgeVars, Pub!derivedVars,
     Pub!epochVars, Pub!processVars
<1>6. ASSUME NEW n \in 1 .. Corpora, Pub!BuildVectors(n) PROVE Pub!TypeOK'
  <2>1. n \in 1 .. Len(published)
    BY <1>6 DEF Pub!BuildVectors, Pub!At, Pub!TypeOK, Pub!Consumers
  <2>2. published[n].knowledge \in Nat
    <3>1. published[n] \in Pub!Boundaries
      BY <2>1 DEF Pub!TypeOK
    <3> QED
      BY <3>1 DEF Pub!Boundaries
  <2> QED
    BY <1>6, <2>2 DEF Pub!BuildVectors, Pub!At, Pub!TypeOK, Pub!Goto, Pub!knowledgeVars,
       Pub!epochVars, Pub!processVars
<1>7. CASE Pub!PublishVectors
  <2>1. cursors["vectors"] + 1 \in 1 .. Len(published)
    BY <1>7 DEF Pub!PublishVectors, CursorsBounded, Pub!TypeOK, Pub!Consumers
  <2>2. Pub!IndexedEvent(published[cursors["vectors"] + 1]) \in [boundary : Pub!Boundaries, at : Nat]
    BY <2>1 DEF Pub!IndexedEvent, Pub!TypeOK
  <2>3. indexed' \in Seq([boundary : Pub!Boundaries, at : Nat])
    <3>1. indexed \in Seq([boundary : Pub!Boundaries, at : Nat])
      BY DEF Pub!TypeOK
    <3>2. indexed' = indexed
          \/ indexed' = Append(indexed, Pub!IndexedEvent(published[cursors["vectors"] + 1]))
      BY <1>7 DEF Pub!PublishVectors
    <3> QED
      BY <2>2, <3>1, <3>2, AppendIn
  <2>4. pc' \in [Pub!Actions -> {"idle", "built", "joining", "publishing", "handled"}]
        /\ alive' \in BOOLEAN
    BY <1>7 DEF Pub!PublishVectors, Pub!TypeOK, Pub!Goto, Pub!Stop
  <2> QED
    BY <1>7, <2>3, <2>4 DEF Pub!PublishVectors, Pub!TypeOK, Pub!knowledgeVars, Pub!epochVars
<1>8. ASSUME NEW n \in 1 .. Corpora, Pub!DeriveStructure(n) PROVE Pub!TypeOK'
  <2>1. n \in 1 .. Len(published)
    BY <1>8 DEF Pub!DeriveStructure, Pub!At, Pub!TypeOK, Pub!Consumers
  <2>2. structures' \in Seq(Pub!Boundaries)
    BY <1>8, <2>1 DEF Pub!DeriveStructure, Pub!TypeOK
  <2>3. pc' \in [Pub!Actions -> {"idle", "built", "joining", "publishing", "handled"}]
    BY <1>8 DEF Pub!DeriveStructure, Pub!TypeOK, Pub!Goto
  <2> QED
    BY <1>8, <2>2, <2>3 DEF Pub!DeriveStructure, Pub!TypeOK, Pub!knowledgeVars, Pub!epochVars,
       Pub!processVars
<1>9. CASE Pub!StartPublication
  <2>1. through' \in [structures : Nat, vectors : Nat]
    BY <1>9 DEF Pub!StartPublication, Pub!TypeOK
  <2>2. pc' \in [Pub!Actions -> {"idle", "built", "joining", "publishing", "handled"}]
    BY <1>9 DEF Pub!StartPublication, Pub!TypeOK, Pub!Goto
  <2> QED
    BY <1>9, <2>1, <2>2 DEF Pub!StartPublication, Pub!TypeOK, Pub!knowledgeVars,
       Pub!derivedVars, Pub!processVars
<1>10. CASE Pub!JoinEvent
  <2>1. expected' \in Nat /\ alive' \in BOOLEAN
    <3>1. Len(epochs) \in Nat /\ expected \in Nat
      BY DEF Pub!TypeOK
    <3>2. expected' = expected \/ expected' = Len(epochs)
      BY <1>10 DEF Pub!JoinEvent
    <3>3. alive' = alive \/ alive' = FALSE
      BY <1>10 DEF Pub!JoinEvent, Pub!Stop
    <3> QED
      BY <3>1, <3>2, <3>3 DEF Pub!TypeOK
  <2>2. pc' \in [Pub!Actions -> {"idle", "built", "joining", "publishing", "handled"}]
    BY <1>10 DEF Pub!JoinEvent, Pub!TypeOK, Pub!Goto
  <2> QED
    BY <1>10, <2>1, <2>2 DEF Pub!JoinEvent, Pub!TypeOK, Pub!knowledgeVars, Pub!derivedVars
<1>11. CASE Pub!PublishEpoch
  <2>1. Pub!Joining \in Pub!Boundaries
    BY <1>11, ServedEvent DEF Pub!PublishEpoch, Publishing
  <2>2. epochs' \in Seq(Pub!Boundaries) /\ alive' \in BOOLEAN
    <3>1. epochs \in Seq(Pub!Boundaries)
      BY DEF Pub!TypeOK
    <3>2. epochs' = epochs \/ epochs' = Append(epochs, Pub!Joining)
      BY <1>11 DEF Pub!PublishEpoch
    <3>3. alive' \in BOOLEAN
      BY <1>11 DEF Pub!PublishEpoch, Pub!Stop, Pub!TypeOK
    <3> QED
      BY <2>1, <3>1, <3>2, <3>3, AppendIn
  <2>3. pc' \in [Pub!Actions -> {"idle", "built", "joining", "publishing", "handled"}]
    BY <1>11 DEF Pub!PublishEpoch, Pub!TypeOK, Pub!Goto
  <2> QED
    BY <1>11, <2>2, <2>3 DEF Pub!PublishEpoch, Pub!TypeOK, Pub!knowledgeVars, Pub!derivedVars
<1>12. CASE Pub!AdvancePublication
  <2>1. cursors' \in [Pub!Consumers -> Nat]
    BY <1>12 DEF Pub!AdvancePublication, Pub!TypeOK, Pub!Consumers
  <2>2. pc' \in [Pub!Actions -> {"idle", "built", "joining", "publishing", "handled"}]
    BY <1>12 DEF Pub!AdvancePublication, Pub!TypeOK, Pub!Goto
  <2> QED
    BY <1>12, <2>1, <2>2 DEF Pub!AdvancePublication, Pub!TypeOK, Pub!knowledgeVars,
       Pub!derivedVars, Pub!epochVars,
       Pub!processVars
<1>13. CASE Pub!EndPublication
  BY <1>13 DEF Pub!EndPublication, Pub!TypeOK, Pub!Goto, Pub!knowledgeVars, Pub!derivedVars,
     Pub!epochVars, Pub!processVars
<1>14. CASE Pub!Restart
  BY <1>14 DEF Pub!Restart, Pub!TypeOK, Pub!knowledgeVars, Pub!derivedVars, Pub!epochVars
<1>15. CASE UNCHANGED Pub!vars
  BY <1>15 DEF Pub!TypeOK, Pub!vars, Pub!knowledgeVars, Pub!derivedVars, Pub!epochVars,
     Pub!processVars
<1> QED
  BY <1>1, <1>2, <1>3, <1>4, <1>5, <1>6, <1>7, <1>8, <1>9, <1>10, <1>11, <1>12, <1>13, <1>14,
     <1>15 DEF Pub!Next, Pub!Extraction, Pub!VectorIndexing, Pub!Derivation, Pub!EpochPublication, Pub!Actions, Pub!Consumers

\* What a step adds: a Manifest of now, of a Corpora that is complete;
LEMMA PublishedGrows ==
  ASSUME PublicationInv, [Pub!Next]_(Pub!vars)
  PROVE  \/ published' = published
         \/ /\ version' = version /\ extracted' = extracted
            /\ \E c \in 1 .. Corpora :
                 extracted[c] = Units /\ published' = Append(published, Pub!Boundary(c, version))
  BY DEF Pub!Next, Pub!Extraction, Pub!VectorIndexing, Pub!Derivation, Pub!EpochPublication,
     Pub!CompleteCorpora,
     Pub!ChangeKnowledge, Pub!ExtractUnit, Pub!PublishKnowledge, Pub!Advance,
     Pub!BuildVectors, Pub!PublishVectors,
     Pub!DeriveStructure, Pub!StartPublication, Pub!JoinEvent, Pub!PublishEpoch,
     Pub!AdvancePublication,
     Pub!EndPublication, Pub!Restart, Pub!vars, Pub!knowledgeVars

\* vectors or a Structure of a Manifest that is published;
LEMMA IndexedGrows ==
  ASSUME PublicationInv, [Pub!Next]_(Pub!vars)
  PROVE  \/ indexed' = indexed
         \/ \E b \in Pub!Range(published) : indexed' = Append(indexed, Pub!IndexedEvent(b))
<1>1. CASE Pub!PublishVectors
  <2>1. cursors["vectors"] + 1 \in 1 .. Len(published)
    BY <1>1 DEF Pub!PublishVectors, PublicationInv, CursorsBounded, Pub!TypeOK, Pub!Consumers
  <2>2. published[cursors["vectors"] + 1] \in Pub!Range(published)
    BY <2>1 DEF Pub!Range, PublicationInv, Pub!TypeOK
  <2> QED
    BY <1>1, <2>2 DEF Pub!PublishVectors
<1>2. CASE ~Pub!PublishVectors
  BY <1>2 DEF Pub!Next, Pub!Extraction, Pub!VectorIndexing, Pub!Derivation,
     Pub!EpochPublication, Pub!CompleteCorpora,
     Pub!ChangeKnowledge, Pub!ExtractUnit, Pub!PublishKnowledge, Pub!Advance, Pub!BuildVectors,
     Pub!DeriveStructure, Pub!StartPublication, Pub!JoinEvent, Pub!PublishEpoch,
     Pub!AdvancePublication,
     Pub!EndPublication, Pub!Restart, Pub!vars, Pub!derivedVars
<1> QED
  BY <1>1, <1>2

LEMMA StructuresGrow ==
  ASSUME PublicationInv, [Pub!Next]_(Pub!vars)
  PROVE  \/ structures' = structures
         \/ \E b \in Pub!Range(published) : structures' = Append(structures, b)
<1>1. ASSUME NEW n \in 1 .. Corpora, Pub!DeriveStructure(n)
      PROVE  \/ structures' = structures
             \/ \E b \in Pub!Range(published) : structures' = Append(structures, b)
  <2>1. n \in 1 .. Len(published)
    BY <1>1 DEF Pub!DeriveStructure, Pub!At, PublicationInv, Pub!TypeOK, Pub!Consumers
  <2>2. published[n] \in Pub!Range(published)
    BY <2>1 DEF Pub!Range, PublicationInv, Pub!TypeOK
  <2> QED
    BY <1>1, <2>2 DEF Pub!DeriveStructure
<1>2. CASE ~\E n \in 1 .. Corpora : Pub!DeriveStructure(n)
  BY <1>2 DEF Pub!Next, Pub!Extraction, Pub!VectorIndexing, Pub!Derivation,
     Pub!EpochPublication, Pub!CompleteCorpora,
     Pub!ChangeKnowledge, Pub!ExtractUnit, Pub!PublishKnowledge, Pub!Advance,
     Pub!BuildVectors, Pub!PublishVectors,
     Pub!StartPublication, Pub!JoinEvent, Pub!PublishEpoch, Pub!AdvancePublication,
     Pub!EndPublication, Pub!Restart, Pub!vars, Pub!derivedVars
<1> QED
  BY <1>1, <1>2

\* and an Epoch of the boundary that is served.
LEMMA EpochsGrow ==
  ASSUME [Pub!Next]_(Pub!vars)
  PROVE  \/ epochs' = epochs
         \/ Pub!PublishEpoch /\ expected = Len(epochs) /\ epochs' = Append(epochs, Pub!Joining)
  BY DEF Pub!Next, Pub!Extraction, Pub!VectorIndexing, Pub!Derivation, Pub!EpochPublication,
     Pub!CompleteCorpora,
     Pub!ChangeKnowledge, Pub!ExtractUnit, Pub!PublishKnowledge, Pub!Advance,
     Pub!BuildVectors, Pub!PublishVectors,
     Pub!DeriveStructure, Pub!StartPublication, Pub!JoinEvent, Pub!PublishEpoch,
     Pub!AdvancePublication,
     Pub!EndPublication, Pub!Restart, Pub!vars, Pub!derivedVars, Pub!epochVars

\* Appending keeps what is there at its place.
LEMMA Appended ==
  ASSUME NEW S, NEW log \in Seq(S), NEW x
  PROVE  /\ Len(Append(log, x)) = Len(log) + 1
         /\ \A i \in 1 .. Len(log) : Append(log, x)[i] = log[i]
         /\ Append(log, x)[Len(log) + 1] = x
         /\ Pub!Range(Append(log, x)) = Pub!Range(log) \union {x}
<1>1. Append(log, x) \in Seq(S \union {x}) /\ log \in Seq(S \union {x})
  OBVIOUS
<1>2. /\ Len(Append(log, x)) = Len(log) + 1
      /\ \A i \in 1 .. Len(log) : Append(log, x)[i] = log[i]
      /\ Append(log, x)[Len(log) + 1] = x
      /\ DOMAIN Append(log, x) = 1 .. Len(log) + 1 /\ DOMAIN log = 1 .. Len(log)
      /\ Len(log) \in Nat
  BY <1>1
<1>3. ASSUME NEW y \in Pub!Range(Append(log, x)) PROVE y \in Pub!Range(log) \union {x}
  <2>1. PICK i \in 1 .. Len(log) + 1 : y = Append(log, x)[i]
    BY <1>2, <1>3 DEF Pub!Range
  <2>2. i \in 1 .. Len(log) \/ i = Len(log) + 1
    BY <1>2
  <2> QED
    BY <1>2, <2>1, <2>2 DEF Pub!Range
<1>4. ASSUME NEW y \in Pub!Range(log) \union {x} PROVE y \in Pub!Range(Append(log, x))
  <2>1. CASE y = x
    <3>1. Len(log) + 1 \in 1 .. Len(log) + 1
      BY <1>2
    <3> QED
      BY <1>2, <2>1, <3>1 DEF Pub!Range
  <2>2. CASE y \in Pub!Range(log)
    <3>1. PICK i \in 1 .. Len(log) : y = log[i]
      BY <1>2, <2>2 DEF Pub!Range
    <3>2. i \in 1 .. Len(log) + 1
      BY <1>2
    <3> QED
      BY <1>2, <3>1, <3>2 DEF Pub!Range
  <2> QED
    BY <1>4, <2>1, <2>2
<1> QED
  BY <1>2, <1>3, <1>4

\* The logs only grow, and each keeps what it has at its place.
Kept(log, later) ==
  /\ Len(log) <= Len(later)
  /\ \A i \in 1 .. Len(log) : later[i] = log[i]
  /\ Pub!Range(log) \subseteq Pub!Range(later)

LEMMA KeptAppended ==
  ASSUME NEW S, NEW log \in Seq(S)
  PROVE  Kept(log, log) /\ \A x : Kept(log, Append(log, x))
  BY Appended DEF Kept

LEMMA LengthsNumbers ==
  ASSUME Pub!BoundsAssumption, PublicationInv, [Pub!Next]_(Pub!vars)
  PROVE  /\ Len(published) \in Nat /\ Len(published') \in Nat
         /\ Len(indexed) \in Nat /\ Len(indexed') \in Nat
         /\ Len(structures) \in Nat /\ Len(structures') \in Nat
<1>1. Pub!TypeOK /\ Pub!TypeOK'
  BY TypeKept DEF PublicationInv
<1>2. \A S : \A q \in Seq(S) : Len(q) \in Nat
  OBVIOUS
<1> QED
  BY <1>1, <1>2 DEF Pub!TypeOK

LEMMA LogsKept ==
  ASSUME PublicationInv, [Pub!Next]_(Pub!vars)
  PROVE  /\ Kept(published, published') /\ Kept(indexed, indexed')
         /\ Kept(structures, structures') /\ Kept(epochs, epochs')
         /\ namespaces \subseteq namespaces'
<1>1. /\ published \in Seq(Pub!Boundaries) /\ structures \in Seq(Pub!Boundaries)
      /\ epochs \in Seq(Pub!Boundaries) /\ indexed \in Seq([boundary : Pub!Boundaries, at : Nat])
  BY DEF PublicationInv, Pub!TypeOK
<1>2. namespaces \subseteq namespaces'
  BY DEF Pub!Next, Pub!Extraction, Pub!VectorIndexing, Pub!Derivation, Pub!EpochPublication,
     Pub!CompleteCorpora,
     Pub!ChangeKnowledge, Pub!ExtractUnit, Pub!PublishKnowledge, Pub!Advance,
     Pub!BuildVectors, Pub!PublishVectors,
     Pub!DeriveStructure, Pub!StartPublication, Pub!JoinEvent, Pub!PublishEpoch,
     Pub!AdvancePublication,
     Pub!EndPublication, Pub!Restart, Pub!vars, Pub!derivedVars
<1>3. Kept(published, published')
  BY <1>1, PublishedGrows, KeptAppended
<1>4. Kept(indexed, indexed')
  BY <1>1, IndexedGrows, KeptAppended
<1>5. Kept(structures, structures')
  BY <1>1, StructuresGrow, KeptAppended
<1>6. Kept(epochs, epochs')
  BY <1>1, EpochsGrow, KeptAppended
<1> QED
  BY <1>2, <1>3, <1>4, <1>5, <1>6

\* Epoch publication stands still while the other Actions move.
Rests ==
  /\ UNCHANGED <<epochs, through, expected>>
  /\ pc'["epoch"] = pc["epoch"]
  /\ cursors'["epoch.structures"] = cursors["epoch.structures"]
  /\ cursors'["epoch.vectors"] = cursors["epoch.vectors"]

LEMMA OthersMove ==
  ASSUME Pub!TypeOK, [Pub!Next]_(Pub!vars)
  PROVE  Rests \/ Pub!EpochPublication \/ Pub!Restart
<1>1. ASSUME NEW a \in {"extraction", "vectors", "derivation"}, Pub!Advance(a, a)
      PROVE  Rests
  BY <1>1 DEF Pub!Advance, Pub!Goto, Rests, Pub!TypeOK, Pub!Consumers, Pub!Actions,
     Pub!epochVars
<1>2. ASSUME NEW c \in 1 .. Corpora, Pub!ExtractUnit(c) \/ Pub!PublishKnowledge(c)
      PROVE  Rests
  BY <1>2 DEF Pub!ExtractUnit, Pub!PublishKnowledge, Pub!Goto, Rests, Pub!TypeOK,
     Pub!Consumers, Pub!Actions, Pub!epochVars
<1>3. ASSUME NEW n \in 1 .. Corpora, Pub!BuildVectors(n) \/ Pub!DeriveStructure(n)
      PROVE  Rests
  BY <1>3 DEF Pub!BuildVectors, Pub!DeriveStructure, Pub!Goto, Rests, Pub!TypeOK,
     Pub!Consumers, Pub!Actions, Pub!epochVars
<1>4. Pub!PublishVectors => Rests
  BY DEF Pub!PublishVectors, Pub!Goto, Rests, Pub!TypeOK, Pub!Consumers, Pub!Actions,
     Pub!epochVars
<1>5. Pub!CompleteCorpora \/ Pub!ChangeKnowledge \/ UNCHANGED Pub!vars => Rests
  BY DEF Pub!CompleteCorpora, Pub!ChangeKnowledge, Pub!vars, Rests, Pub!epochVars
<1> QED
  BY <1>1, <1>2, <1>3, <1>4, <1>5 DEF Pub!Next, Pub!Extraction, Pub!VectorIndexing,
     Pub!Derivation

\* An event keeps its place, so the one that is served stays the same.
LEMMA ServedStays ==
  ASSUME PublicationInv, [Pub!Next]_(Pub!vars), Serving, through' = through,
         cursors'["epoch.structures"] = cursors["epoch.structures"],
         cursors'["epoch.vectors"] = cursors["epoch.vectors"]
  PROVE  /\ Serving' /\ Pub!Joining' = Pub!Joining
         /\ Pub!ServesStructures' <=> Pub!ServesStructures
<1>1. Serving' /\ (Pub!ServesStructures' <=> Pub!ServesStructures)
  BY DEF Serving, Pub!ServesStructures, Pub!ServesVectors
<1>2. CASE Pub!ServesStructures
  <2>1. structures'[cursors["epoch.structures"] + 1] = structures[cursors["epoch.structures"] + 1]
    BY <1>2, LogsKept, ServedEvent DEF Kept, PublicationInv
  <2> QED
    BY <1>1, <1>2, <2>1 DEF Pub!Joining
<1>3. CASE ~Pub!ServesStructures
  <2>1. indexed'[cursors["epoch.vectors"] + 1] = indexed[cursors["epoch.vectors"] + 1]
    BY <1>3, LogsKept, ServedEvent DEF Kept, PublicationInv
  <2> QED
    BY <1>1, <1>3, <2>1 DEF Pub!Joining
<1> QED
  BY <1>1, <1>2, <1>3

\* What a boundary has, it keeps.
LEMMA HalvesStay ==
  ASSUME Pub!BoundsAssumption, PublicationInv, [Pub!Next]_(Pub!vars), NEW b
  PROVE  /\ Pub!Indexed(b) => Pub!Indexed(b)'
         /\ Pub!Prepared(b) => Pub!Prepared(b)'
         /\ Pub!HasEpoch(b) => Pub!HasEpoch(b)'
         /\ b \in Pub!Range(published) => b \in Pub!Range(published')
         /\ Pub!Ready(b) => Pub!Ready(b)'
<1>1. Kept(indexed, indexed') /\ Len(indexed) \in Nat /\ Len(indexed') \in Nat
  BY LogsKept, LengthsNumbers
<1>2. ASSUME Pub!Indexed(b) PROVE Pub!Indexed(b)'
  <2>1. PICK j \in 1 .. Len(indexed) : indexed[j].boundary = b
    BY <1>2 DEF Pub!Indexed
  <2>2. j \in 1 .. Len(indexed') /\ indexed'[j] = indexed[j]
    BY <1>1 DEF Kept
  <2> QED
    BY <2>1, <2>2 DEF Pub!Indexed
<1> QED
  BY <1>2, LogsKept DEF Kept, Pub!Prepared, Pub!HasEpoch, Pub!Ready

LEMMA CursorsKept ==
  ASSUME Pub!BoundsAssumption, PublicationInv, [Pub!Next]_(Pub!vars)
  PROVE  CursorsBounded'
<1> DEFINE s == cursors["epoch.structures"]
           v == cursors["epoch.vectors"]
<1>0. /\ s \in Nat /\ v \in Nat /\ through.structures \in Nat /\ through.vectors \in Nat
      /\ Len(structures) \in Nat /\ Len(indexed) \in Nat /\ Len(published) \in Nat
      /\ Len(structures') \in Nat /\ Len(indexed') \in Nat /\ Len(published') \in Nat
      /\ Len(structures) <= Len(structures') /\ Len(indexed) <= Len(indexed')
      /\ Len(published) <= Len(published') /\ cursors["vectors"] \in Nat
  <2>1. /\ s \in Nat /\ v \in Nat /\ through.structures \in Nat /\ through.vectors \in Nat
        /\ cursors["vectors"] \in Nat
    BY DEF PublicationInv, Pub!TypeOK, Pub!Consumers
  <2> QED
    BY <2>1, LogsKept, LengthsNumbers DEF Kept
<1>1. /\ cursors'["epoch.structures"] <= Len(structures')
      /\ cursors'["epoch.vectors"] <= Len(indexed')
      /\ through'.structures <= Len(structures')
      /\ through'.vectors <= Len(indexed')
  <2>1. CASE Rests \/ Pub!Restart \/ Pub!JoinEvent \/ Pub!PublishEpoch \/ Pub!EndPublication
    BY <1>0, <2>1 DEF Rests, Pub!Restart, Pub!JoinEvent, Pub!PublishEpoch, Pub!EndPublication,
       PublicationInv,
       CursorsBounded, Pub!epochVars
  <2>2. CASE Pub!StartPublication
    BY <1>0, <2>2 DEF Pub!StartPublication, PublicationInv, CursorsBounded
  <2>3. CASE Pub!AdvancePublication
    <3>1. Serving
      BY <2>3 DEF Pub!AdvancePublication, PublicationInv, Served
    <3>2. CASE Pub!ServesStructures
      BY <1>0, <2>3, <3>2 DEF Pub!AdvancePublication, PublicationInv, CursorsBounded,
         Pub!ServesStructures, Pub!TypeOK,
         Pub!Consumers, Pub!epochVars
    <3>3. CASE ~Pub!ServesStructures
      BY <1>0, <2>3, <3>1, <3>3 DEF Pub!AdvancePublication, PublicationInv, CursorsBounded,
         Serving,
         Pub!ServesVectors, Pub!TypeOK, Pub!Consumers, Pub!epochVars
    <3> QED
      BY <3>2, <3>3
  <2> QED
    BY <2>1, <2>2, <2>3, OthersMove DEF Pub!EpochPublication, PublicationInv
<1>2. ASSUME pc'["vectors"] = "built" PROVE cursors'["vectors"] < Len(published')
  <2>1. CASE \E n \in 1 .. Corpora : Pub!BuildVectors(n)
    BY <1>0, <2>1 DEF Pub!BuildVectors, Pub!At
  <2>2. CASE pc["vectors"] = "built" /\ cursors'["vectors"] = cursors["vectors"]
    BY <1>0, <2>2 DEF PublicationInv, CursorsBounded
  <2>3. pc["vectors"] = "built" \/ \E n \in 1 .. Corpora : Pub!BuildVectors(n)
    BY <1>2 DEF PublicationInv, Pub!TypeOK, Pub!Actions, Pub!Goto, Pub!knowledgeVars,
       Pub!Next, Pub!Extraction, Pub!VectorIndexing, Pub!Derivation, Pub!EpochPublication,
       Pub!CompleteCorpora,
     Pub!ChangeKnowledge, Pub!ExtractUnit, Pub!PublishKnowledge, Pub!Advance,
     Pub!BuildVectors, Pub!PublishVectors,
     Pub!DeriveStructure, Pub!StartPublication, Pub!JoinEvent, Pub!PublishEpoch,
     Pub!AdvancePublication,
     Pub!EndPublication, Pub!Restart, Pub!vars
  <2>4. pc["vectors"] = "built" => cursors'["vectors"] = cursors["vectors"]
    BY <1>2 DEF PublicationInv, Pub!TypeOK, Pub!Actions, Pub!Consumers, Pub!Goto, Pub!Next,
       Pub!Extraction, Pub!VectorIndexing, Pub!Derivation, Pub!EpochPublication,
       Pub!CompleteCorpora,
     Pub!ChangeKnowledge, Pub!ExtractUnit, Pub!PublishKnowledge, Pub!Advance,
     Pub!BuildVectors, Pub!PublishVectors,
     Pub!DeriveStructure, Pub!StartPublication, Pub!JoinEvent, Pub!PublishEpoch,
     Pub!AdvancePublication,
     Pub!EndPublication, Pub!Restart, Pub!vars
  <2> QED
    BY <2>1, <2>2, <2>3, <2>4
<1> QED
  BY <1>1, <1>2 DEF CursorsBounded

LEMMA ManifestsKept ==
  ASSUME Pub!BoundsAssumption, PublicationInv, [Pub!Next]_(Pub!vars)
  PROVE  ManifestsExtracted'
<1>1. /\ version \in Nat /\ version' \in Nat /\ version <= version'
      /\ published \in Seq(Pub!Boundaries) /\ Len(published) \in Nat
      /\ \A i \in 1 .. Len(published) : published[i].knowledge \in Nat
  <2>1. version \in Nat /\ version' \in Nat /\ published \in Seq(Pub!Boundaries)
    BY TypeKept DEF PublicationInv, Pub!TypeOK
  <2>2. version <= version'
    BY <2>1 DEF Pub!knowledgeVars, Pub!Next, Pub!Extraction, Pub!VectorIndexing,
       Pub!Derivation, Pub!EpochPublication, Pub!CompleteCorpora,
     Pub!ChangeKnowledge, Pub!ExtractUnit, Pub!PublishKnowledge, Pub!Advance,
     Pub!BuildVectors, Pub!PublishVectors,
     Pub!DeriveStructure, Pub!StartPublication, Pub!JoinEvent, Pub!PublishEpoch,
     Pub!AdvancePublication,
     Pub!EndPublication, Pub!Restart, Pub!vars
  <2>3. \A i \in 1 .. Len(published) : published[i].knowledge \in Nat
    <3> TAKE i \in 1 .. Len(published)
    <3>1. published[i] \in Pub!Boundaries
      BY <2>1
    <3> QED
      BY <3>1 DEF Pub!Boundaries
  <2> QED
    BY <2>1, <2>2, <2>3
<1>2. \A c \in 1 .. Corpora : extracted[c] = Units => extracted'[c] = Units
  <2> SUFFICES ASSUME NEW c \in 1 .. Corpora, extracted[c] = Units PROVE extracted'[c] = Units
    OBVIOUS
  <2>1. ASSUME NEW d \in 1 .. Corpora, Pub!ExtractUnit(d) PROVE extracted'[c] = Units
    <3>1. d # c
      BY <2>1 DEF Pub!ExtractUnit, PublicationInv, Pub!TypeOK
    <3> QED
      BY <2>1, <3>1 DEF Pub!ExtractUnit, PublicationInv, Pub!TypeOK
  <2>2. CASE extracted' = extracted
    BY <2>2
  <2>3. extracted' = extracted \/ \E d \in 1 .. Corpora : Pub!ExtractUnit(d)
    BY DEF Pub!knowledgeVars, Pub!Next, Pub!Extraction, Pub!VectorIndexing, Pub!Derivation,
       Pub!EpochPublication, Pub!CompleteCorpora,
     Pub!ChangeKnowledge, Pub!ExtractUnit, Pub!PublishKnowledge, Pub!Advance,
     Pub!BuildVectors, Pub!PublishVectors,
     Pub!DeriveStructure, Pub!StartPublication, Pub!JoinEvent, Pub!PublishEpoch,
     Pub!AdvancePublication,
     Pub!EndPublication, Pub!Restart, Pub!vars
  <2> QED
    BY <2>1, <2>2, <2>3
<1>3. CASE published' = published
  <2>1. ASSUME NEW i \in 1 .. Len(published)
        PROVE  /\ published[i].corpora \in 1 .. Corpora
               /\ extracted'[published[i].corpora] = Units
               /\ published[i].knowledge <= version'
    <3>1. /\ published[i].corpora \in 1 .. Corpora
          /\ extracted[published[i].corpora] = Units
          /\ published[i].knowledge <= version
      BY <2>1 DEF PublicationInv, ManifestsExtracted
    <3>2. published[i].knowledge \in Nat
      BY <1>1, <2>1
    <3> QED
      BY <1>1, <1>2, <3>1, <3>2
  <2> QED
    BY <1>3, <2>1 DEF PublicationInv, ManifestsExtracted
<1>4. ASSUME NEW c \in 1 .. Corpora, extracted[c] = Units, version' = version,
             published' = Append(published, Pub!Boundary(c, version))
      PROVE  ManifestsExtracted'
  <2>1. /\ Len(published') = Len(published) + 1
        /\ \A i \in 1 .. Len(published) : published'[i] = published[i]
        /\ published'[Len(published) + 1].corpora = c
        /\ published'[Len(published) + 1].knowledge = version
    BY <1>1, <1>4, Appended DEF Pub!Boundary
  <2>2. \A i \in 1 .. Len(published') : i \in 1 .. Len(published) \/ i = Len(published) + 1
    BY <1>1, <2>1
  <2>3. \A i \in 1 .. Len(published') :
          /\ published'[i].corpora \in 1 .. Corpora
          /\ extracted'[published'[i].corpora] = Units
          /\ published'[i].knowledge <= version'
    BY <1>1, <1>2, <1>4, <2>1, <2>2 DEF PublicationInv, ManifestsExtracted
  <2>4. ASSUME NEW i \in 1 .. Len(published'), NEW j \in 1 .. Len(published'), i <= j
        PROVE  published'[i].knowledge <= published'[j].knowledge
    <3>1. CASE j = Len(published) + 1
      BY <1>4, <2>1, <2>3, <3>1
    <3>2. CASE j \in 1 .. Len(published)
      <4>1. i \in 1 .. Len(published)
        BY <1>1, <2>4, <3>2
      <4> QED
        BY <2>1, <2>4, <3>2, <4>1 DEF PublicationInv, ManifestsExtracted
    <3> QED
      BY <2>2, <3>1, <3>2
  <2> QED
    BY <2>3, <2>4 DEF ManifestsExtracted
<1> QED
  BY <1>3, <1>4, PublishedGrows

LEMMA DerivedKept ==
  ASSUME Pub!BoundsAssumption, PublicationInv, [Pub!Next]_(Pub!vars)
  PROVE  DerivedFromPublished'
<1>1. /\ structures \in Seq(Pub!Boundaries) /\ indexed \in Seq([boundary : Pub!Boundaries, at : Nat])
      /\ Len(structures) \in Nat /\ Len(indexed) \in Nat
      /\ Pub!Range(published) \subseteq Pub!Range(published')
  BY LogsKept DEF PublicationInv, Pub!TypeOK, Kept
<1>2. ASSUME NEW i \in 1 .. Len(structures') PROVE structures'[i] \in Pub!Range(published')
  <2>1. CASE structures' = structures
    BY <1>1, <1>2, <2>1 DEF PublicationInv, DerivedFromPublished
  <2>2. ASSUME NEW b \in Pub!Range(published), structures' = Append(structures, b)
        PROVE  structures'[i] \in Pub!Range(published')
    <3>1. i \in 1 .. Len(structures) \/ i = Len(structures) + 1
      BY <1>1, <1>2, <2>2, Appended
    <3> QED
      BY <1>1, <2>2, <3>1, Appended DEF PublicationInv, DerivedFromPublished
  <2> QED
    BY <2>1, <2>2, StructuresGrow
<1>3. ASSUME NEW j \in 1 .. Len(indexed') PROVE indexed'[j].boundary \in Pub!Range(published')
  <2>1. CASE indexed' = indexed
    BY <1>1, <1>3, <2>1 DEF PublicationInv, DerivedFromPublished
  <2>2. ASSUME NEW b \in Pub!Range(published), indexed' = Append(indexed, Pub!IndexedEvent(b))
        PROVE  indexed'[j].boundary \in Pub!Range(published')
    <3>1. j \in 1 .. Len(indexed) \/ j = Len(indexed) + 1
      BY <1>1, <1>3, <2>2, Appended
    <3> QED
      BY <1>1, <2>2, <3>1, Appended DEF PublicationInv, DerivedFromPublished, Pub!IndexedEvent
  <2> QED
    BY <2>1, <2>2, IndexedGrows
<1> QED
  BY <1>2, <1>3 DEF DerivedFromPublished

LEMMA ServedKept ==
  ASSUME Pub!BoundsAssumption, PublicationInv, [Pub!Next]_(Pub!vars)
  PROVE  Served'
<1> SUFFICES ASSUME pc'["epoch"] = "handled"
             PROVE  /\ Serving'
                    /\ \/ Pub!HasEpoch(Pub!Joining)'
                       \/ /\ Pub!ServesStructures'
                          /\ \A j \in 1 .. cursors'["epoch.vectors"] : indexed'[j].boundary # Pub!Joining'
                       \/ /\ ~Pub!ServesStructures'
                          /\ \A i \in 1 .. cursors'["epoch.structures"] : structures'[i] # Pub!Joining'
  BY DEF Served
<1>0. /\ cursors["epoch.structures"] \in Nat /\ cursors["epoch.vectors"] \in Nat
      /\ Len(structures) \in Nat /\ Len(indexed) \in Nat
      /\ cursors["epoch.structures"] <= Len(structures)
      /\ cursors["epoch.vectors"] <= Len(indexed)
  BY DEF PublicationInv, Pub!TypeOK, Pub!Consumers, CursorsBounded
<1>1. /\ \A j \in 1 .. cursors["epoch.vectors"] : indexed'[j] = indexed[j]
      /\ \A i \in 1 .. cursors["epoch.structures"] : structures'[i] = structures[i]
  BY <1>0, LogsKept DEF Kept
<1>2. CASE Rests
  <2>1. pc["epoch"] = "handled" /\ Serving
    BY <1>2 DEF Rests, PublicationInv, Served
  <2>2. Serving' /\ Pub!Joining' = Pub!Joining /\ (Pub!ServesStructures' <=> Pub!ServesStructures)
    BY <1>2, <2>1, ServedStays DEF Rests
  <2>3. Pub!HasEpoch(Pub!Joining) => Pub!HasEpoch(Pub!Joining)'
    BY <2>2, LogsKept DEF Kept, Pub!HasEpoch
  <2> QED
    BY <1>1, <1>2, <2>1, <2>2, <2>3 DEF Rests, PublicationInv, Served
<1>3. CASE Pub!JoinEvent
  <2>1. /\ Serving
        /\ ~Pub!Joined(Pub!Joining) \/ Pub!HasEpoch(Pub!Joining)
        /\ UNCHANGED <<structures, indexed, epochs, through, cursors>>
    BY <1>3 DEF Pub!JoinEvent, Serving, Pub!Goto, PublicationInv, Pub!TypeOK, Pub!Actions,
       Pub!derivedVars
  <2>2. Serving' /\ Pub!Joining' = Pub!Joining /\ (Pub!ServesStructures' <=> Pub!ServesStructures)
    BY <1>3, <2>1, ServedStays DEF Pub!JoinEvent, Serving
  <2>3. CASE Pub!HasEpoch(Pub!Joining)
    BY <2>1, <2>2, <2>3 DEF Pub!HasEpoch
  <2>4. CASE ~Pub!Joined(Pub!Joining) /\ Pub!ServesStructures
    <3>1. \A j \in 1 .. Len(indexed) : indexed[j].boundary # Pub!Joining
      BY <2>4 DEF Pub!Joined, Pub!Indexed
    <3> QED
      BY <1>0, <2>1, <2>2, <2>4, <3>1
  <2>5. CASE ~Pub!Joined(Pub!Joining) /\ ~Pub!ServesStructures
    <3>1. \A i \in 1 .. Len(structures) : structures[i] # Pub!Joining
      BY <2>5 DEF Pub!Joined, Pub!Prepared, Pub!Range, PublicationInv, Pub!TypeOK
    <3> QED
      BY <1>0, <2>1, <2>2, <2>5, <3>1
  <2> QED
    BY <2>1, <2>3, <2>4, <2>5
<1>4. CASE Pub!PublishEpoch
  <2>1. Serving /\ UNCHANGED <<through, cursors>> /\ epochs' = Append(epochs, Pub!Joining)
    BY <1>4 DEF Pub!PublishEpoch, PublicationInv, Publishing, Pub!TypeOK, Pub!Actions
  <2>2. Serving' /\ Pub!Joining' = Pub!Joining
    BY <2>1, ServedStays
  <2>3. Pub!Joining \in Pub!Range(epochs')
    BY <2>1, Appended DEF PublicationInv, Pub!TypeOK
  <2> QED
    BY <2>2, <2>3 DEF Pub!HasEpoch
<1>5. ~(Pub!StartPublication \/ Pub!AdvancePublication \/ Pub!EndPublication \/ Pub!Restart)
  BY DEF Pub!StartPublication, Pub!AdvancePublication, Pub!EndPublication, Pub!Restart,
     Pub!Goto, PublicationInv,
     Pub!TypeOK, Pub!Actions
<1> QED
  BY <1>2, <1>3, <1>4, <1>5, OthersMove DEF Pub!EpochPublication, PublicationInv

LEMMA PublishingKept ==
  ASSUME Pub!BoundsAssumption, PublicationInv, [Pub!Next]_(Pub!vars)
  PROVE  Publishing'
<1> SUFFICES ASSUME pc'["epoch"] = "publishing"
             PROVE  /\ Serving' /\ ~Pub!HasEpoch(Pub!Joining)' /\ Pub!Ready(Pub!Joining)' /\ Pub!Indexed(Pub!Joining)'
  BY DEF Publishing
<1>1. CASE Rests
  <2>1. /\ pc["epoch"] = "publishing" /\ Serving
        /\ ~Pub!HasEpoch(Pub!Joining) /\ Pub!Ready(Pub!Joining) /\ Pub!Indexed(Pub!Joining)
    BY <1>1 DEF Rests, PublicationInv, Publishing
  <2>2. Serving' /\ Pub!Joining' = Pub!Joining
    BY <1>1, <2>1, ServedStays DEF Rests
  <2>3. PICK b : b = Pub!Joining
    OBVIOUS
  <2>4. Pub!Ready(b)' /\ Pub!Indexed(b)' /\ ~Pub!HasEpoch(b)'
    BY <1>1, <2>1, <2>3, HalvesStay DEF Rests, Pub!HasEpoch
  <2>5. Pub!Joining' = b
    BY <2>2, <2>3
  <2> QED
    BY <2>2, <2>4, <2>5 DEF Pub!Ready, Pub!Indexed, Pub!HasEpoch, Pub!Prepared
<1>2. CASE Pub!JoinEvent
  <2>1. /\ Serving /\ Pub!Joined(Pub!Joining) /\ ~Pub!HasEpoch(Pub!Joining) /\ Pub!Ready(Pub!Joining)
        /\ UNCHANGED <<structures, indexed, namespaces, epochs, through, cursors>>
    BY <1>2 DEF Pub!JoinEvent, Serving, Pub!Goto, PublicationInv, Pub!TypeOK, Pub!Actions,
       Pub!derivedVars
  <2>2. Serving' /\ Pub!Joining' = Pub!Joining
    BY <2>1, ServedStays
  <2>3. Pub!Indexed(Pub!Joining)
    <3>1. CASE Pub!ServesStructures
      BY <2>1, <3>1 DEF Pub!Joined
    <3>2. CASE ~Pub!ServesStructures
      BY <2>1, <3>2, ServedEvent DEF Pub!Indexed, PublicationInv
    <3> QED
      BY <3>1, <3>2
  <2> QED
    BY <2>1, <2>2, <2>3 DEF Pub!Ready, Pub!Indexed, Pub!HasEpoch, Pub!Prepared
<1>3. ~(Pub!StartPublication \/ Pub!PublishEpoch \/ Pub!AdvancePublication \/ Pub!EndPublication \/ Pub!Restart)
      \/ Rests
  BY DEF Pub!StartPublication, Pub!PublishEpoch, Pub!AdvancePublication, Pub!EndPublication,
     Pub!Restart, Pub!Goto,
     PublicationInv, Pub!TypeOK, Pub!Actions, Rests
<1> QED
  BY <1>1, <1>2, <1>3, OthersMove DEF Pub!EpochPublication, PublicationInv

LEMMA EpochsKept ==
  ASSUME Pub!BoundsAssumption, PublicationInv, [Pub!Next]_(Pub!vars)
  PROVE  Pub!EpochsReady'
<1>0. epochs \in Seq(Pub!Boundaries) /\ Len(epochs) \in Nat /\ DOMAIN epochs = 1 .. Len(epochs)
  BY DEF PublicationInv, Pub!TypeOK
<1>1. ASSUME pc'["epoch"] = "publishing" PROVE expected' = Len(epochs')
  <2>1. CASE Rests
    BY <1>1, <2>1 DEF Rests, PublicationInv, Pub!EpochsReady
  <2>2. CASE Pub!JoinEvent
    BY <1>1, <2>2 DEF Pub!JoinEvent, Pub!Goto, PublicationInv, Pub!TypeOK, Pub!Actions,
       Pub!EpochsReady
  <2>3. ~(Pub!StartPublication \/ Pub!PublishEpoch \/ Pub!AdvancePublication \/ Pub!EndPublication \/ Pub!Restart)
        \/ Rests
    BY <1>1 DEF Pub!StartPublication, Pub!PublishEpoch, Pub!AdvancePublication,
       Pub!EndPublication, Pub!Restart, Pub!Goto,
       PublicationInv, Pub!TypeOK, Pub!Actions, Rests
  <2> QED
    BY <2>1, <2>2, <2>3, OthersMove DEF Pub!EpochPublication, PublicationInv
<1>2. \A b : /\ b \in Pub!Range(published) => b \in Pub!Range(published')
             /\ Pub!Ready(b) => Pub!Ready(b)'
             /\ Pub!Indexed(b) => Pub!Indexed(b)'
  BY HalvesStay
<1>3. CASE epochs' = epochs
  <2>1. ASSUME NEW i \in 1 .. Len(epochs')
        PROVE  epochs'[i] \in Pub!Range(published') /\ Pub!Ready(epochs[i])' /\ Pub!Indexed(epochs[i])'
    <3>1. epochs'[i] = epochs[i]
      BY <1>3
    <3>2. PICK b : b = epochs[i]
      OBVIOUS
    <3>3. b \in Pub!Range(published) /\ Pub!Ready(b) /\ Pub!Indexed(b)
      BY <1>3, <2>1, <3>2 DEF PublicationInv, Pub!EpochsReady
    <3>4. b \in Pub!Range(published') /\ Pub!Ready(b)' /\ Pub!Indexed(b)'
      BY <1>2, <3>3
    <3> QED
      BY <3>1, <3>2, <3>4 DEF Pub!Ready, Pub!Indexed, Pub!Prepared
  <2> QED
    BY <1>1, <1>3, <2>1 DEF PublicationInv, Pub!EpochsReady, Pub!IsInjective
<1>4. CASE Pub!PublishEpoch /\ epochs' = Append(epochs, Pub!Joining)
  <2>1. Serving /\ ~Pub!HasEpoch(Pub!Joining) /\ Pub!Ready(Pub!Joining) /\ Pub!Indexed(Pub!Joining)
    BY <1>4 DEF Pub!PublishEpoch, PublicationInv, Publishing
  <2>2. Pub!Joining \in Pub!Range(published)
    BY <2>1, ServedEvent DEF PublicationInv, DerivedFromPublished
  <2>3. /\ Len(epochs') = Len(epochs) + 1
        /\ \A i \in 1 .. Len(epochs) : epochs'[i] = epochs[i]
        /\ epochs'[Len(epochs) + 1] = Pub!Joining
        /\ DOMAIN epochs' = 1 .. Len(epochs')
    BY <1>0, <1>4, Appended, TypeKept DEF Pub!TypeOK
  <2>4. \A i \in 1 .. Len(epochs') : i \in 1 .. Len(epochs) \/ i = Len(epochs) + 1
    BY <1>0, <2>3
  <2>5. \A i \in 1 .. Len(epochs) : epochs[i] # Pub!Joining
    BY <1>0, <2>1 DEF Pub!HasEpoch, Pub!Range
  <2>6. Pub!IsInjective(epochs')
    BY <1>0, <2>3, <2>4, <2>5 DEF Pub!IsInjective, PublicationInv, Pub!EpochsReady
  <2>7. ASSUME NEW i \in 1 .. Len(epochs')
        PROVE  epochs'[i] \in Pub!Range(published') /\ Pub!Ready(epochs[i])' /\ Pub!Indexed(epochs[i])'
    <3>1. PICK b : b = epochs'[i]
      OBVIOUS
    <3>2. b \in Pub!Range(published) /\ Pub!Ready(b) /\ Pub!Indexed(b)
      BY <2>1, <2>2, <2>3, <2>4, <3>1 DEF PublicationInv, Pub!EpochsReady
    <3>3. b \in Pub!Range(published') /\ Pub!Ready(b)' /\ Pub!Indexed(b)'
      BY <1>2, <3>2
    <3> QED
      BY <3>1, <3>3 DEF Pub!Ready, Pub!Indexed, Pub!Prepared
  <2> QED
    BY <1>1, <2>6, <2>7 DEF Pub!EpochsReady
<1> QED
  BY <1>3, <1>4, EpochsGrow

LEMMA JoinKept ==
  ASSUME Pub!BoundsAssumption, PublicationInv, [Pub!Next]_(Pub!vars)
  PROVE  Pub!JoinComplete'
<1>0. /\ cursors["epoch.structures"] \in Nat /\ cursors["epoch.vectors"] \in Nat
      /\ Len(structures) \in Nat /\ Len(indexed) \in Nat
      /\ cursors["epoch.structures"] <= Len(structures)
      /\ cursors["epoch.vectors"] <= Len(indexed)
  BY DEF PublicationInv, Pub!TypeOK, Pub!Consumers, CursorsBounded
<1>1. /\ \A j \in 1 .. cursors["epoch.vectors"] : indexed'[j] = indexed[j]
      /\ \A i \in 1 .. cursors["epoch.structures"] : structures'[i] = structures[i]
      /\ Pub!Range(epochs) \subseteq Pub!Range(epochs')
  BY <1>0, LogsKept DEF Kept
<1>2. CASE Rests \/ Pub!Restart \/ Pub!StartPublication \/ Pub!JoinEvent \/ Pub!PublishEpoch \/ Pub!EndPublication
  <2>1. /\ cursors'["epoch.structures"] = cursors["epoch.structures"]
        /\ cursors'["epoch.vectors"] = cursors["epoch.vectors"]
    BY <1>2 DEF Rests, Pub!Restart, Pub!StartPublication, Pub!JoinEvent, Pub!PublishEpoch,
       Pub!EndPublication
  <2> QED
    BY <1>1, <2>1 DEF PublicationInv, Pub!JoinComplete
<1>3. CASE Pub!AdvancePublication
  <2>1. /\ Serving /\ UNCHANGED <<structures, indexed, epochs, published>>
        /\ \/ Pub!HasEpoch(Pub!Joining)
           \/ /\ Pub!ServesStructures
              /\ \A j \in 1 .. cursors["epoch.vectors"] : indexed[j].boundary # Pub!Joining
           \/ /\ ~Pub!ServesStructures
              /\ \A i \in 1 .. cursors["epoch.structures"] : structures[i] # Pub!Joining
    BY <1>3 DEF Pub!AdvancePublication, PublicationInv, Served, Pub!derivedVars,
       Pub!epochVars, Pub!knowledgeVars
  <2>2. CASE Pub!ServesStructures
    <3>1. /\ cursors'["epoch.structures"] = cursors["epoch.structures"] + 1
          /\ cursors'["epoch.vectors"] = cursors["epoch.vectors"]
          /\ structures[cursors["epoch.structures"] + 1] = Pub!Joining
      BY <1>3, <2>1, <2>2, ServedEvent DEF Pub!AdvancePublication, PublicationInv, Pub!TypeOK,
         Pub!Consumers
    <3>2. \A i \in 1 .. cursors'["epoch.structures"] :
            i \in 1 .. cursors["epoch.structures"] \/ i = cursors["epoch.structures"] + 1
      BY <1>0, <3>1
    <3> QED
      BY <2>1, <2>2, <3>1, <3>2 DEF PublicationInv, Pub!JoinComplete, Pub!HasEpoch
  <2>3. CASE ~Pub!ServesStructures
    <3>1. /\ cursors'["epoch.vectors"] = cursors["epoch.vectors"] + 1
          /\ cursors'["epoch.structures"] = cursors["epoch.structures"]
          /\ indexed[cursors["epoch.vectors"] + 1].boundary = Pub!Joining
      BY <1>3, <2>1, <2>3, ServedEvent DEF Pub!AdvancePublication, PublicationInv, Pub!TypeOK,
         Pub!Consumers
    <3>2. \A j \in 1 .. cursors'["epoch.vectors"] :
            j \in 1 .. cursors["epoch.vectors"] \/ j = cursors["epoch.vectors"] + 1
      BY <1>0, <3>1
    <3> QED
      BY <2>1, <2>3, <3>1, <3>2 DEF PublicationInv, Pub!JoinComplete, Pub!HasEpoch
  <2> QED
    BY <2>2, <2>3
<1> QED
  BY <1>2, <1>3, OthersMove DEF Pub!EpochPublication, PublicationInv

LEMMA PublicationKept == Pub!BoundsAssumption /\ PublicationInv /\ [Pub!Next]_(Pub!vars) => PublicationInv'
  BY TypeKept, CursorsKept, ManifestsKept, DerivedKept, ServedKept, PublishingKept, EpochsKept,
     JoinKept DEF PublicationInv

LEMMA PublicationPart == [PipelineNext]_pipelineVars => [Pub!Next]_(Pub!vars)
BY DEF PipelineNext, pipelineVars, Only, pubVars, Pub!vars, Pub!knowledgeVars, Pub!derivedVars,
   Pub!epochVars, Pub!processVars

LEMMA PublicationInvariance == PipelineSpec => []PublicationInv
<1>1. PipelineInit => PublicationInv
  BY PublicationStart, PublicationBounds DEF PipelineInit
<1>2. PublicationInv /\ [PipelineNext]_pipelineVars => PublicationInv'
  BY PublicationKept, PublicationPart, PublicationBounds
<1>3. QED
  BY <1>1, <1>2, PTL DEF PipelineSpec

\* Nothing is lost where vectors and Structure are joined, an Epoch binds what is
\* there and Manifests are published in the order they were current, whichever
\* half comes second and wherever the process stops (epoch/adapter/journal).
THEOREM EpochsAreJoined == PipelineSpec => []EpochsJoined
<1>1. PublicationInv => EpochsJoined
  BY DEF PublicationInv, EpochsJoined, ManifestsExtracted, Pub!ManifestsInOrder
<1>2. QED
  BY <1>1, PublicationInvariance, PTL

-----------------------------------------------------------------------------
(* The vector store *)

LessThan == {ns \in Nat \X Nat : ns[1] < ns[2]}

\* Every set of naturals has a least member.
LEMMA Least ==
  ASSUME NEW T, T \subseteq Nat, T # {}
  PROVE  \E n \in T : \A m \in T : n <= m
<1>1. IsWellFoundedOn(LessThan, Nat)
  BY NatLessThanWellFounded DEF LessThan, OpToRel
<1>2. PICK n \in T : \A m \in T : <<m, n>> \notin LessThan
  BY <1>1, WFMin
<1>3. \A m \in T : ~(m < n)
  BY <1>2 DEF LessThan
<1>4. QED
  BY <1>3

\* Vectors has operators of its own for what FiniteSets defines.
LEMMA SameCounting ==
  ASSUME NEW S
  PROVE  Vec!Cardinality(S) = Cardinality(S) /\ (Vec!IsFiniteSet(S) <=> IsFiniteSet(S))
BY DEF Vec!Cardinality, Cardinality, Vec!IsFiniteSet, IsFiniteSet

Below(S, x) == {y \in S : y < x}
Rank(S, x) == Vec!Cardinality(Below(S, x))

\* A greater number has a greater rank, and every rank is that of one number.
LEMMA RankGrows ==
  ASSUME NEW S \in SUBSET Nat, IsFiniteSet(S), NEW x \in S, NEW z \in S, x < z
  PROVE  Rank(S, x) \in Nat /\ Rank(S, z) \in Nat /\ Rank(S, x) < Rank(S, z)
<1>1. IsFiniteSet(Below(S, x)) /\ IsFiniteSet(Below(S, z))
  BY FS_Subset DEF Below
<1>2. x \in Nat /\ z \in Nat /\ \A y \in S : y \in Nat /\ (y < x => y < z)
  OBVIOUS
<1>3. Below(S, x) \in SUBSET Below(S, z) /\ x \in Below(S, z) /\ x \notin Below(S, x)
  <2>1. \A y \in Below(S, x) : y \in Below(S, z)
    BY <1>2 DEF Below
  <2>2. x \in Below(S, z) /\ x \notin Below(S, x)
    BY <1>2 DEF Below
  <2>3. QED
    BY <2>1, <2>2
<1>4. Cardinality(Below(S, x)) \in Nat /\ Cardinality(Below(S, z)) \in Nat
      /\ Cardinality(Below(S, x)) <= Cardinality(Below(S, z))
      /\ Cardinality(Below(S, x)) # Cardinality(Below(S, z))
  BY <1>1, <1>3, FS_Subset, FS_CardinalityType
<1>5. QED
  BY <1>4, SameCounting DEF Rank

LEMMA RankBound ==
  ASSUME NEW S \in SUBSET Nat, IsFiniteSet(S), NEW x \in S
  PROVE  Rank(S, x) \in 0 .. Cardinality(S) - 1 /\ Cardinality(S) \in Nat
<1>1. Below(S, x) \in SUBSET S /\ Below(S, x) # S
  BY DEF Below
<1>2. IsFiniteSet(Below(S, x)) /\ Cardinality(Below(S, x)) \in Nat /\ Cardinality(S) \in Nat
      /\ Cardinality(Below(S, x)) <= Cardinality(S) /\ Cardinality(Below(S, x)) # Cardinality(S)
  BY <1>1, FS_Subset, FS_CardinalityType
<1>3. QED
  BY <1>2, SameCounting DEF Rank

LEMMA RankOnce ==
  ASSUME NEW S \in SUBSET Nat, IsFiniteSet(S), NEW x \in S, NEW z \in S, Rank(S, x) = Rank(S, z)
  PROVE  x = z
<1>1. ~(x < z) /\ ~(z < x)
  BY RankGrows
<1>2. QED
  BY <1>1

LEMMA RankOnto ==
  ASSUME NEW S \in SUBSET Nat, IsFiniteSet(S), NEW n \in 1 .. Cardinality(S)
  PROVE  \E x \in S : Rank(S, x) = n - 1
<1> DEFINE N == Cardinality(S)
           f == [x \in S |-> Rank(S, x) + 1]
<1>1. N \in Nat
  BY FS_CardinalityType
<1>2. f \in Injection(S, 1 .. N)
  <2>1. f \in [S -> 1 .. N]
    BY RankBound
  <2>2. \A x, z \in S : f[x] = f[z] => x = z
    BY RankBound, RankOnce
  <2>3. QED
    BY <2>1, <2>2 DEF Injection, IsInjective
<1>3. IsFiniteSet(1 .. N) /\ Cardinality(1 .. N) = N
  BY <1>1, FS_Interval
<1>4. f \in Surjection(S, 1 .. N)
  BY <1>2, <1>3, FS_Injection
<1>5. PICK x \in S : f[x] = n
  BY <1>4 DEF Surjection
<1>6. QED
  BY <1>5, RankBound

Increasing(s) == \A i, j \in 1 .. Len(s) : i < j => s[i] < s[j]

\* Ascending gives every number of a set once, in their order.
LEMMA AscendingLists ==
  ASSUME NEW S \in SUBSET Nat, IsFiniteSet(S)
  PROVE  /\ Vec!Ascending(S) \in Seq(S) /\ Len(Vec!Ascending(S)) = Cardinality(S)
         /\ Increasing(Vec!Ascending(S))
         /\ \A x \in S : \E i \in 1 .. Len(Vec!Ascending(S)) : Vec!Ascending(S)[i] = x
<1> DEFINE N == Cardinality(S)
           a == [n \in 1 .. N |-> CHOOSE x \in S : Rank(S, x) = n - 1]
<1>1. Vec!Ascending(S) = a
  <2>1. Vec!Ascending(S) = [n \in 1 .. Vec!Cardinality(S) |-> CHOOSE x \in S : Rank(S, x) = n - 1]
    BY DEF Vec!Ascending, Rank, Below
  <2>2. QED
    BY <2>1, SameCounting
<1>2. N \in Nat
  BY FS_CardinalityType
<1>3. \A n \in 1 .. N : a[n] \in S /\ Rank(S, a[n]) = n - 1
  BY RankOnto
<1>4. a \in Seq(S) /\ Len(a) = N
  BY <1>2, <1>3
<1> HIDE DEF a
<1>5. ASSUME NEW i \in 1 .. N, NEW j \in 1 .. N, i < j PROVE a[i] < a[j]
  <2>1. a[i] \in S /\ a[j] \in S /\ Rank(S, a[i]) < Rank(S, a[j])
    BY <1>3, <1>5
  <2>2. Rank(S, a[i]) \in Nat /\ Rank(S, a[j]) \in Nat /\ a[i] \in Nat /\ a[j] \in Nat
    <3>1. Rank(S, a[i]) \in 0 .. N - 1 /\ Rank(S, a[j]) \in 0 .. N - 1
      BY <2>1, RankBound
    <3>2. \A x \in S : x \in Nat
      OBVIOUS
    <3>3. a[i] \in Nat /\ a[j] \in Nat
      BY <2>1, <3>2
    <3>4. QED
      BY <1>2, <3>1, <3>3
  <2>3. ~(Rank(S, a[j]) < Rank(S, a[i])) /\ Rank(S, a[i]) # Rank(S, a[j])
    BY <2>1, <2>2
  <2>4. ~(a[j] < a[i])
    BY <2>1, <2>3, RankGrows
  <2>5. a[i] # a[j]
    BY <2>3
  <2>6. QED
    BY <2>2, <2>4, <2>5
<1>6. ASSUME NEW x \in S PROVE \E i \in 1 .. N : a[i] = x
  <2>1. Rank(S, x) + 1 \in 1 .. N /\ (Rank(S, x) + 1) - 1 = Rank(S, x)
    BY RankBound
  <2>2. PICK i \in 1 .. N : i = Rank(S, x) + 1
    BY <2>1
  <2>3. a[i] \in S /\ Rank(S, a[i]) = Rank(S, x)
    BY <1>3, <2>1, <2>2
  <2>4. a[i] = x
    <3> DEFINE y == a[i]
    <3>1. y \in S /\ Rank(S, y) = Rank(S, x)
      BY <2>3
    <3> HIDE DEF y
    <3>2. y = x
      BY <3>1, RankOnce
    <3>3. QED
      BY <3>2 DEF y
  <2>5. QED
    BY <2>4
<1>7. QED
  BY <1>1, <1>4, <1>5, <1>6 DEF Increasing

\* Only one sequence does.
LEMMA AscendingOnly ==
  ASSUME NEW s \in Seq(Nat), Increasing(s)
  PROVE  s = Vec!Ascending({s[i] : i \in 1 .. Len(s)}) /\ IsFiniteSet({s[i] : i \in 1 .. Len(s)})
<1> DEFINE S == {s[i] : i \in 1 .. Len(s)}
           First(n) == [i \in 1 .. n |-> s[i]]
<1>1. S \in SUBSET Nat /\ Len(s) \in Nat
  OBVIOUS
<1>2. ASSUME NEW n \in 0 .. Len(s)
      PROVE  IsFiniteSet({s[i] : i \in 1 .. n}) /\ Cardinality({s[i] : i \in 1 .. n}) = n
  <2>1. IsFiniteSet(1 .. n) /\ Cardinality(1 .. n) = n
    BY FS_Interval
  <2>2. First(n) \in Bijection(1 .. n, {s[i] : i \in 1 .. n})
    <3>1. \A i, j \in 1 .. n : s[i] = s[j] => i = j
      BY DEF Increasing
    <3>2. First(n) \in [1 .. n -> {s[i] : i \in 1 .. n}]
      OBVIOUS
    <3>3. \A x \in {s[i] : i \in 1 .. n} : \E i \in 1 .. n : First(n)[i] = x
      OBVIOUS
    <3>4. QED
      BY <3>1, <3>2, <3>3 DEF Bijection, Injection, Surjection, IsInjective
  <2>3. QED
    BY <2>1, <2>2, FS_Bijection DEF ExistsBijection
<1>3. IsFiniteSet(S) /\ Cardinality(S) = Len(s)
  <2>1. Len(s) \in 0 .. Len(s)
    BY <1>1
  <2>2. QED
    BY <1>2, <2>1
<1>4. ASSUME NEW n \in 1 .. Len(s) PROVE Rank(S, s[n]) = n - 1
  <2>1. Below(S, s[n]) = {s[i] : i \in 1 .. n - 1}
    <3>1. \A i \in 1 .. Len(s) : s[i] < s[n] <=> i < n
      BY DEF Increasing
    <3>2. QED
      BY <3>1 DEF Below
  <2>2. n - 1 \in 0 .. Len(s)
    OBVIOUS
  <2>3. QED
    BY <2>1, <2>2, <1>2, SameCounting DEF Rank
<1> HIDE DEF S
<1>5. LET t == Vec!Ascending(S) IN
        t \in Seq(S) /\ Len(t) = Len(s) /\ Increasing(t)
  BY <1>1, <1>3, AscendingLists
<1>6. ASSUME NEW n \in 1 .. Len(s) PROVE Vec!Ascending(S)[n] = s[n]
  <2>1. Vec!Ascending(S)[n] = CHOOSE x \in S : Rank(S, x) = n - 1
    <3>1. Vec!Ascending(S) = [k \in 1 .. Vec!Cardinality(S) |-> CHOOSE x \in S : Rank(S, x) = k - 1]
      BY DEF Vec!Ascending, Rank, Below
    <3>2. QED
      BY <1>3, <3>1, SameCounting
  <2>2. s[n] \in S /\ Rank(S, s[n]) = n - 1
    BY <1>4 DEF S
  <2>3. \A x \in S : Rank(S, x) = n - 1 => x = s[n]
    BY <1>1, <1>3, <2>2, RankOnce
  <2>4. QED
    BY <2>1, <2>2, <2>3
<1>7. s = Vec!Ascending(S)
  BY <1>1, <1>5, <1>6
<1>8. QED
  BY <1>3, <1>7 DEF S

\* What is left of a list behind a number that it has been read up to.
LEMMA RestOfPages ==
  ASSUME NEW s \in Seq(Nat \ {0}), Increasing(s), NEW k \in 0 .. Len(s),
         NEW after, after = IF k = 0 THEN 0 ELSE s[k]
  PROVE  Vec!Ascending({x \in Vec!ToSet(s) : x > after}) = SubSeq(s, k + 1, Len(s))
<1> DEFINE rest == [i \in 1 .. Len(s) - k |-> s[k + i]]
<1>1. Len(s) \in Nat /\ \A i \in 1 .. Len(s) : s[i] \in Nat /\ s[i] > 0
  OBVIOUS
<1>2. rest \in Seq(Nat) /\ Len(rest) = Len(s) - k
  BY <1>1
<1>3. Increasing(rest)
  BY <1>1, <1>2 DEF Increasing
<1>4. \A i \in 1 .. Len(s) : s[i] > after <=> i > k
  BY <1>1 DEF Increasing
<1>5. {x \in Vec!ToSet(s) : x > after} = {rest[i] : i \in 1 .. Len(rest)}
  <2>1. Vec!ToSet(s) = {s[i] : i \in 1 .. Len(s)}
    BY DEF Vec!ToSet
  <2>2. ASSUME NEW x \in Vec!ToSet(s), x > after PROVE \E i \in 1 .. Len(rest) : x = rest[i]
    <3>1. PICK n \in 1 .. Len(s) : x = s[n]
      BY <2>1
    <3>2. n > k
      BY <1>4, <2>2, <3>1
    <3>3. n - k \in 1 .. Len(rest) /\ rest[n - k] = s[k + (n - k)] /\ k + (n - k) = n
      BY <1>1, <1>2, <3>2
    <3>4. QED
      BY <3>1, <3>3
  <2>3. ASSUME NEW i \in 1 .. Len(rest) PROVE rest[i] \in Vec!ToSet(s) /\ rest[i] > after
    <3>1. k + i \in 1 .. Len(s) /\ k + i > k /\ rest[i] = s[k + i]
      BY <1>1, <1>2
    <3>2. QED
      BY <1>4, <2>1, <3>1
  <2>4. QED
    BY <2>2, <2>3
<1>6. rest = SubSeq(s, k + 1, Len(s))
  <2>1. SubSeq(s, k + 1, Len(s)) \in Seq(Nat \ {0}) /\ Len(SubSeq(s, k + 1, Len(s))) = Len(s) - k
        /\ \A i \in 1 .. Len(s) - k : SubSeq(s, k + 1, Len(s))[i] = s[k + i]
    BY <1>1
  <2>2. \A i \in 1 .. Len(s) - k : rest[i] = s[k + i]
    OBVIOUS
  <2> HIDE DEF rest
  <2>3. rest \in Seq(Nat) /\ SubSeq(s, k + 1, Len(s)) \in Seq(Nat)
    BY <1>2, <2>1
  <2>4. QED
    BY <1>2, <2>1, <2>2, <2>3, SeqEqual
<1> HIDE DEF rest
<1>7. QED
  BY <1>2, <1>3, <1>5, <1>6, AscendingOnly

\* The loop of batches: f[n] is where the batch of the text at n starts.
StartOf(s, f, n) == IF n > 1 /\ Vec!Fits(s, f[n - 1], n) THEN f[n - 1] ELSE n
IsStarts(s, f, n) == f = [i \in 1 .. n |-> StartOf(s, f, i)]

LEMMA StartsExist ==
  ASSUME NEW s, NEW n \in Nat
  PROVE  \E f : IsStarts(s, f, n)
<1> DEFINE T == {k \in Nat : ~ \E f : IsStarts(s, f, k)}
<1>1. SUFFICES ASSUME T # {} PROVE FALSE
  OBVIOUS
<1>2. PICK k \in T : \A j \in T : k <= j
  BY <1>1, Least
<1>3. k \in Nat /\ ~ \E f : IsStarts(s, f, k)
  OBVIOUS
<1>4. k # 0
  <2>1. IsStarts(s, [i \in 1 .. 0 |-> 0], 0)
    BY DEF IsStarts
  <2>2. QED
    BY <1>3, <2>1
<1>5. k - 1 \in Nat /\ k - 1 \notin T
  BY <1>2, <1>3, <1>4
<1>6. PICK f : IsStarts(s, f, k - 1)
  BY <1>5
<1> DEFINE g == [i \in 1 .. k |-> IF i = k THEN StartOf(s, f, k) ELSE f[i]]
<1>7. \A i \in 1 .. k : i # k => i \in 1 .. k - 1
  BY <1>3
<1>8. \A i \in 1 .. k - 1 : f[i] = StartOf(s, f, i)
  BY <1>6 DEF IsStarts
<1>9. ASSUME NEW i \in 1 .. k PROVE g[i] = StartOf(s, g, i)
  <2>1. i > 1 => g[i - 1] = f[i - 1]
    BY <1>3
  <2>2. StartOf(s, g, i) = StartOf(s, f, i)
    BY <2>1 DEF StartOf
  <2>3. QED
    BY <1>7, <1>8, <2>2
<1>10. g = [i \in 1 .. k |-> g[i]]
  OBVIOUS
<1> HIDE DEF g
<1>11. g = [i \in 1 .. k |-> StartOf(s, g, i)]
  BY <1>9, <1>10
<1>12. QED
  BY <1>3, <1>11 DEF IsStarts

LEMMA StartsUnfold ==
  ASSUME NEW s, Len(s) \in Nat, DOMAIN s = 1 .. Len(s)
  PROVE  /\ DOMAIN Vec!Starts(s) = 1 .. Len(s)
         /\ \A n \in 1 .. Len(s) : Vec!Starts(s)[n] = StartOf(s, Vec!Starts(s), n)
<1> DEFINE f == CHOOSE g : g = [i \in DOMAIN s |-> IF i > 1 /\ Vec!Fits(s, g[i - 1], i) THEN g[i - 1] ELSE i]
<1>1. Vec!Starts(s) = f
  BY DEF Vec!Starts
<1>2. \E g : g = [i \in DOMAIN s |-> IF i > 1 /\ Vec!Fits(s, g[i - 1], i) THEN g[i - 1] ELSE i]
  <2>1. PICK g : IsStarts(s, g, Len(s))
    BY StartsExist
  <2>2. QED
    BY <2>1 DEF IsStarts, StartOf
<1>3. f = [i \in DOMAIN s |-> IF i > 1 /\ Vec!Fits(s, f[i - 1], i) THEN f[i - 1] ELSE i]
  BY <1>2
<1> HIDE DEF f
<1>4. DOMAIN f = 1 .. Len(s) /\ \A n \in 1 .. Len(s) : f[n] = StartOf(s, f, n)
  BY <1>3 DEF StartOf
<1>5. QED
  BY <1>1, <1>4

\* The texts of a batch stand side by side.
LEMMA BatchTogether ==
  ASSUME NEW s, Len(s) \in Nat, DOMAIN s = 1 .. Len(s), NEW n \in 1 .. Len(s)
  PROVE  /\ Vec!Starts(s)[n] \in 1 .. n
         /\ \A i \in Vec!Starts(s)[n] .. n : Vec!Starts(s)[i] = Vec!Starts(s)[n]
<1> DEFINE f == Vec!Starts(s)
           Together(k) == f[k] \in 1 .. k /\ \A i \in f[k] .. k : f[i] = f[k]
           T == {k \in 1 .. Len(s) : ~Together(k)}
<1>1. SUFFICES ASSUME T # {} PROVE FALSE
  OBVIOUS
<1>2. PICK k \in T : \A j \in T : k <= j
  <2>1. T \subseteq Nat
    OBVIOUS
  <2> HIDE DEF T
  <2>2. QED
    BY <1>1, <2>1, Least
<1>3. k \in 1 .. Len(s) /\ ~Together(k) /\ f[k] = StartOf(s, f, k)
  BY <1>2, StartsUnfold
<1> HIDE DEF f
<1>4. CASE k > 1 /\ Vec!Fits(s, f[k - 1], k)
  <2>1. f[k] = f[k - 1]
    BY <1>3, <1>4 DEF StartOf
  <2>2. k - 1 \in 1 .. Len(s) /\ ~(k <= k - 1)
    BY <1>3, <1>4
  <2>3. f[k - 1] \in 1 .. k - 1 /\ \A i \in f[k - 1] .. k - 1 : f[i] = f[k - 1]
    BY <1>2, <2>2
  <2>4. \A i \in f[k] .. k : i = k \/ i \in f[k - 1] .. k - 1
    BY <1>3, <2>1, <2>3
  <2>5. f[k] \in 1 .. k
    BY <1>3, <2>1, <2>3
  <2>6. \A i \in f[k] .. k : f[i] = f[k]
    BY <2>1, <2>3, <2>4
  <2>7. QED
    BY <1>3, <2>5, <2>6
<1>5. CASE ~(k > 1 /\ Vec!Fits(s, f[k - 1], k))
  <2>1. f[k] = k
    BY <1>3, <1>5 DEF StartOf
  <2>2. QED
    BY <1>3, <2>1
<1>6. QED
  BY <1>4, <1>5

\* Whatever the batches are, every ID gets the answer to its own text.
LEMMA OwnAnswers ==
  ASSUME NEW s \in Seq(Ids), NEW sample
  PROVE  Vec!Generated(s, sample) =
           [n \in 1 .. Len(s) |-> [id |-> s[n], values |-> [of |-> s[n], sample |-> sample[s[n]]]]]
<1>1. Len(s) \in Nat /\ DOMAIN s = 1 .. Len(s)
  OBVIOUS
<1>2. ASSUME NEW n \in 1 .. Len(s)
      PROVE  Vec!Answer(Vec!Batch(s, Vec!Starts(s)[n]), sample)[n - Vec!Starts(s)[n] + 1]
               = [of |-> s[n], sample |-> sample[s[n]]]
  <2> DEFINE start == Vec!Starts(s)[n]
             texts == {i \in DOMAIN s : Vec!Starts(s)[i] = start}
  <2>1. start \in 1 .. n /\ \A i \in start .. n : Vec!Starts(s)[i] = start
    BY <1>1, BatchTogether
  <2>2. Vec!Batch(s, start) = [k \in 1 .. Cardinality(texts) |-> s[start + k - 1]]
    BY SameCounting DEF Vec!Batch
  <2> HIDE DEF start
  <2>3. start .. n \in SUBSET texts /\ texts \in SUBSET (1 .. Len(s))
    BY <1>1, <2>1
  <2>4. IsFiniteSet(1 .. Len(s)) /\ Cardinality(start .. n) = n - start + 1
    BY <1>1, <2>1, FS_Interval
  <2> HIDE DEF texts
  <2>5. IsFiniteSet(texts)
    BY <2>3, <2>4, FS_Subset
  <2>6. Cardinality(start .. n) <= Cardinality(texts) /\ Cardinality(texts) \in Nat
    BY <2>3, <2>5, FS_Subset, FS_CardinalityType
  <2>7. n - start + 1 \in 1 .. Cardinality(texts)
    BY <2>1, <2>4, <2>6
  <2>8. start + (n - start + 1) - 1 = n
    BY <2>1
  <2>9. DOMAIN Vec!Batch(s, start) = 1 .. Cardinality(texts) /\ Vec!Batch(s, start)[n - start + 1] = s[n]
    BY <2>2, <2>7, <2>8
  <2>10. Vec!Answer(Vec!Batch(s, start), sample)[n - start + 1] = [of |-> s[n], sample |-> sample[s[n]]]
    BY <2>7, <2>9 DEF Vec!Answer
  <2>11. QED
    BY <2>10 DEF start
<1>3. Vec!Generated(s, sample) =
        [n \in 1 .. Len(s) |->
           [id |-> s[n],
            values |-> Vec!Answer(Vec!Batch(s, Vec!Starts(s)[n]), sample)[n - Vec!Starts(s)[n] + 1]]]
  BY <1>1 DEF Vec!Generated
<1>4. QED
  BY <1>2, <1>3

Values == [of : Ids, sample : Samples]
OwnVectors == {v \in [id : Ids, values : Values] : v.values.of = v.id}

\* The cache has one vector per ID, of its text and of one dimension.
Cached(e, d) ==
  /\ e = [id \in DOMAIN e |-> e[id]] /\ DOMAIN e \subseteq Ids
  /\ \A id \in DOMAIN e : e[id] \in Values /\ e[id].of = id /\ e[id].sample.dimension = d

\* Members and index rows name each other, by rowids that are not shared.
Indexed(e, m, x) ==
  /\ IsFiniteSet(m)
  /\ \A member \in m : member.id \in Nat /\ member.vector \in Ids
  /\ \A row \in x : row.vector \in DOMAIN e /\ row.values = e[row.vector]
  /\ {[id |-> row.id, space |-> row.space, vector |-> row.vector] : row \in x} = m
  /\ \A left, right \in m : left.id = right.id => left = right

Adding(c) ==
  \/ add[c] = Vec!Ended
  \/ add[c] \in [at : {"generate", "store"}, name : Names, missing : SUBSET Ids,
                 vectors : Seq(OwnVectors)]

\* A reader has read the first IDs of its list and goes on behind the last.
Paging(e) ==
  /\ e = [open |-> TRUE, ids |-> e.ids, rows |-> e.rows, after |-> e.after,
          read |-> e.read, more |-> e.more, found |-> e.found]
  /\ e.ids \in Seq(Ids) /\ Increasing(e.ids)
  /\ e.read \in Seq(Ids) /\ Len(e.read) <= Len(e.ids)
  /\ \A i \in 1 .. Len(e.read) : e.read[i] = e.ids[i]
  /\ e.after = IF Len(e.read) = 0 THEN 0 ELSE e.ids[Len(e.read)]
  /\ e.more \in BOOLEAN /\ (~e.more => Len(e.read) = Len(e.ids))
  /\ \A row \in e.rows : row.vector \in Vec!ToSet(e.ids)
  /\ e.found \subseteq Vec!ToSet(e.ids)

StoredInv ==
  /\ dimension \in Nat
  /\ Cached(embedding, dimension)
  /\ Indexed(embedding, members, rows)
  /\ \A member \in members : \E space \in spaces : space.id = member.space

VectorsInv ==
  /\ StoredInv
  /\ add = [c \in Callers |-> add[c]] /\ \A c \in Callers : Adding(c)
  /\ reader = [r \in Readers |-> reader[r]]
  /\ \A r \in Readers : reader[r] = Vec!Closed \/ Paging(reader[r])

LEMMA VectorsStart == Vec!Init => VectorsInv
<1> SUFFICES ASSUME Vec!Init PROVE VectorsInv
  OBVIOUS
<1>1. DOMAIN embedding = {} /\ embedding = [id \in {} |-> embedding[id]]
  BY DEF Vec!Init
<1>2. Cached(embedding, dimension)
  BY <1>1 DEF Cached
<1>3. Indexed(embedding, members, rows)
  BY FS_EmptySet DEF Vec!Init, Indexed
<1>4. QED
  BY <1>2, <1>3 DEF Vec!Init, VectorsInv, StoredInv, Adding

\* A rowid is taken that no row has.
LEMMA NextIsNew ==
  ASSUME NEW m, IsFiniteSet(m), \A member \in m : member.id \in Nat
  PROVE  Vec!NextId(m) \in Nat /\ \A member \in m : member.id < Vec!NextId(m)
<1> DEFINE taken == {member.id : member \in m}
           S == {0} \cup taken
           f == [member \in m |-> member.id]
<1>1. f \in Surjection(m, taken)
  BY DEF Surjection
<1>2. IsFiniteSet(taken)
  BY <1>1, FS_Surjection
<1>3. IsFiniteSet(S) /\ S \in SUBSET Nat /\ 0 \in S /\ S = taken \cup {0}
  BY <1>2, FS_AddElement
<1> HIDE DEF S, f, taken
<1>4. \E n \in S : \A x \in S : n >= x
  <2> DEFINE a == Vec!Ascending(S)
  <2>1. /\ a \in Seq(S) /\ Increasing(a)
        /\ \A x \in S : \E i \in 1 .. Len(a) : a[i] = x
    BY <1>3, AscendingLists
  <2> HIDE DEF a
  <2>2. Len(a) \in Nat /\ Len(a) # 0
    BY <1>3, <2>1
  <2>3. Len(a) \in 1 .. Len(a) /\ \A i \in 1 .. Len(a) : a[i] \in S /\ a[i] \in Nat
    <3>1. \A x \in S : x \in Nat
      BY <1>3
    <3>2. \A i \in 1 .. Len(a) : a[i] \in S
      BY <2>1
    <3>3. QED
      BY <2>2, <3>1, <3>2
  <2>4. \A i \in 1 .. Len(a) : a[Len(a)] >= a[i]
    <3>1. ASSUME NEW i \in 1 .. Len(a) PROVE a[Len(a)] >= a[i]
      <4>1. i = Len(a) \/ i < Len(a)
        BY <2>2
      <4>2. a[i] \in Nat /\ a[Len(a)] \in Nat
        BY <2>3
      <4>3. i < Len(a) => a[i] < a[Len(a)]
        BY <2>1, <2>3 DEF Increasing
      <4>4. QED
        BY <4>1, <4>2, <4>3
    <3>2. QED
      BY <3>1
  <2>5. QED
    BY <2>1, <2>3, <2>4
<1>5. Vec!Max(S) \in S /\ \A x \in S : Vec!Max(S) >= x
  BY <1>4 DEF Vec!Max
<1>6. Vec!NextId(m) = 1 + Vec!Max(S)
  BY DEF Vec!NextId, S, taken
<1>7. \A member \in m : member.id \in S
  BY DEF S, taken
<1>8. \A x \in S : x \in Nat
  BY <1>3
<1>9. Vec!Max(S) \in Nat /\ Vec!NextId(m) \in Nat
  BY <1>5, <1>6, <1>8
<1>10. ASSUME NEW member \in m PROVE member.id < Vec!NextId(m)
  <2>1. member.id \in Nat /\ Vec!Max(S) >= member.id
    BY <1>5, <1>7
  <2>2. QED
    BY <1>6, <1>9, <2>1
<1>11. QED
  BY <1>9, <1>10

DbRecord(db) ==
  db = [embedding |-> db.embedding, members |-> db.members, indexed |-> db.indexed, clash |-> db.clash]

Sound(db, d) ==
  /\ DbRecord(db)
  /\ Cached(db.embedding, d) /\ Indexed(db.embedding, db.members, db.indexed)

LEMMA StoredKeeps ==
  ASSUME NEW e, NEW d, Cached(e, d), NEW v \in OwnVectors, v.values.sample.dimension = d
  PROVE  /\ Cached(Vec!Stored(e, v), d) /\ v.id \in DOMAIN Vec!Stored(e, v)
         /\ DOMAIN e \subseteq DOMAIN Vec!Stored(e, v)
         /\ \A id \in DOMAIN e : Vec!Stored(e, v)[id] = e[id]
<1> DEFINE t == Vec!Stored(e, v)
<1>1. t = [id \in DOMAIN e \cup {v.id} |-> IF id \in DOMAIN e THEN e[id] ELSE v.values]
  BY DEF Vec!Stored
<1> HIDE DEF t
<1>2. DOMAIN t = DOMAIN e \cup {v.id} /\ t = [id \in DOMAIN t |-> t[id]]
  BY <1>1
<1>3. \A id \in DOMAIN t : t[id] = IF id \in DOMAIN e THEN e[id] ELSE v.values
  BY <1>1
<1>4. v.id \in Ids /\ v.values \in Values /\ v.values.of = v.id
  BY DEF OwnVectors
<1>5. Cached(t, d)
  BY <1>2, <1>3, <1>4 DEF Cached
<1>6. QED
  BY <1>2, <1>3, <1>5 DEF t

LEMMA RetainKeeps ==
  ASSUME NEW db, NEW d, Sound(db, d), NEW space, NEW v \in OwnVectors,
         v.values.sample.dimension = d
  PROVE  /\ Sound(Vec!Retain(db, space, v), d)
         /\ \A member \in Vec!Retain(db, space, v).members :
              member \in db.members \/ member.space = space
<1> DEFINE e == Vec!Stored(db.embedding, v)
           n == Vec!NextId(db.members)
           new == [id |-> n, space |-> space, vector |-> v.id]
           row == [id |-> n, space |-> space, vector |-> v.id, values |-> e[v.id]]
<1>1. /\ Cached(e, d) /\ v.id \in DOMAIN e /\ v.id \in Ids
      /\ DOMAIN db.embedding \subseteq DOMAIN e
      /\ \A id \in DOMAIN db.embedding : e[id] = db.embedding[id]
  BY StoredKeeps DEF Sound, OwnVectors
<1>2. CASE \E member \in db.members : member.space = space /\ member.vector = v.id
  <2>1. Vec!Retain(db, space, v) = [db EXCEPT !.embedding = e]
    BY <1>2 DEF Vec!Retain
  <2> HIDE DEF e
  <2>2. Vec!Retain(db, space, v) = [embedding |-> e, members |-> db.members,
                                    indexed |-> db.indexed, clash |-> db.clash]
    BY <2>1 DEF Sound, DbRecord
  <2>3. Indexed(e, db.members, db.indexed)
    BY <1>1 DEF Sound, Indexed
  <2>4. QED
    BY <1>1, <2>2, <2>3 DEF Sound, DbRecord
<1>3. CASE ~\E member \in db.members : member.space = space /\ member.vector = v.id
  <2> DEFINE clash == db.clash \/ \E other \in db.indexed : other.id = n
  <2>1. Vec!Retain(db, space, v) =
          [embedding |-> e, members |-> db.members \cup {new},
           indexed |-> db.indexed \cup {row}, clash |-> clash]
    BY <1>3 DEF Vec!Retain
  <2>2. n \in Nat /\ \A member \in db.members : member.id < n
    BY NextIsNew DEF Sound, Indexed
  <2> HIDE DEF e, n, clash
  <2>3. IsFiniteSet(db.members \cup {new})
    BY FS_AddElement DEF Sound, Indexed
  <2>4. {[id |-> x.id, space |-> x.space, vector |-> x.vector] : x \in db.indexed \cup {row}}
          = {[id |-> x.id, space |-> x.space, vector |-> x.vector] : x \in db.indexed} \cup {new}
    <3>1. [id |-> row.id, space |-> row.space, vector |-> row.vector] = new
      OBVIOUS
    <3> HIDE DEF row, new
    <3>2. QED
      BY <3>1
  <2>5. \A left, right \in db.members \cup {new} : left.id = right.id => left = right
    BY <2>2 DEF Sound, Indexed
  <2>6. \A x \in db.indexed \cup {row} : x.vector \in DOMAIN e /\ x.values = e[x.vector]
    BY <1>1 DEF Sound, Indexed
  <2>7. Indexed(e, db.members \cup {new}, db.indexed \cup {row})
    <3>1. \A member \in db.members \cup {new} : member.id \in Nat /\ member.vector \in Ids
      BY <1>1, <2>2 DEF Sound, Indexed
    <3>2. {[id |-> x.id, space |-> x.space, vector |-> x.vector] : x \in db.indexed} = db.members
      BY DEF Sound, Indexed
    <3> HIDE DEF new, row
    <3>3. QED
      BY <2>3, <2>4, <2>5, <2>6, <3>1, <3>2 DEF Indexed
  <2>8. new.space = space
    OBVIOUS
  <2> HIDE DEF new, row
  <2>9. QED
    BY <1>1, <2>1, <2>7, <2>8 DEF Sound, DbRecord
<1>4. QED
  BY <1>2, <1>3

\* The loop of Store.Add: f[n] is the database after the first n vectors.
Committed == [embedding |-> embedding, members |-> members, indexed |-> rows, clash |-> FALSE]
After(space, s, f, n) == IF n = 0 THEN Committed ELSE Vec!Retain(f[n - 1], space, s[n])
IsRetaining(space, s, f, n) == f = [i \in 0 .. n |-> After(space, s, f, i)]

LEMMA RetainingExists ==
  ASSUME NEW space, NEW s, NEW n \in Nat
  PROVE  \E f : IsRetaining(space, s, f, n)
<1> DEFINE T == {k \in Nat : ~ \E f : IsRetaining(space, s, f, k)}
<1>1. SUFFICES ASSUME T # {} PROVE FALSE
  OBVIOUS
<1>2. PICK k \in T : \A j \in T : k <= j
  BY <1>1, Least
<1>3. k \in Nat /\ ~ \E f : IsRetaining(space, s, f, k)
  OBVIOUS
<1>4. k # 0
  <2>1. IsRetaining(space, s, [i \in 0 .. 0 |-> Committed], 0)
    BY DEF IsRetaining, After
  <2>2. QED
    BY <1>3, <2>1
<1>5. k - 1 \in Nat /\ k - 1 \notin T
  BY <1>2, <1>3, <1>4
<1>6. PICK f : IsRetaining(space, s, f, k - 1)
  BY <1>5
<1> DEFINE g == [i \in 0 .. k |-> IF i = k THEN After(space, s, f, k) ELSE f[i]]
<1>7. \A i \in 0 .. k : i # k => i \in 0 .. k - 1
  BY <1>3
<1>8. \A i \in 0 .. k - 1 : f[i] = After(space, s, f, i)
  BY <1>6 DEF IsRetaining
<1>9. ASSUME NEW i \in 0 .. k PROVE g[i] = After(space, s, g, i)
  <2>1. i # 0 => g[i - 1] = f[i - 1]
    BY <1>3
  <2>2. After(space, s, g, i) = After(space, s, f, i)
    BY <2>1 DEF After
  <2>3. QED
    BY <1>7, <1>8, <2>2
<1>10. g = [i \in 0 .. k |-> g[i]]
  OBVIOUS
<1> HIDE DEF g
<1>11. g = [i \in 0 .. k |-> After(space, s, g, i)]
  BY <1>9, <1>10
<1>12. QED
  BY <1>3, <1>11 DEF IsRetaining

\* The members of a database are old ones or of the Namespace that is added to.
LEMMA AllRetained ==
  ASSUME NEW space, NEW s \in Seq(OwnVectors), NEW d, Sound(Committed, d),
         \A n \in 1 .. Len(s) : s[n].values.sample.dimension = d
  PROVE  /\ Sound(Vec!RetainAll(space, s), d)
         /\ \A member \in Vec!RetainAll(space, s).members :
              member \in members \/ member.space = space
<1> DEFINE f == CHOOSE g : g = [i \in 0 .. Len(s) |->
                   IF i = 0 THEN [embedding |-> embedding, members |-> members,
                                  indexed |-> rows, clash |-> FALSE]
                            ELSE Vec!Retain(g[i - 1], space, s[i])]
           Good(k) == /\ Sound(f[k], d)
                      /\ \A member \in f[k].members : member \in members \/ member.space = space
           T == {k \in 0 .. Len(s) : ~Good(k)}
<1>1. Vec!RetainAll(space, s) = f[Len(s)]
  BY DEF Vec!RetainAll
<1>2. Len(s) \in Nat /\ Len(s) \in 0 .. Len(s) /\ \A n \in 1 .. Len(s) : s[n] \in OwnVectors
  OBVIOUS
<1>3. \E g : g = [i \in 0 .. Len(s) |->
                   IF i = 0 THEN [embedding |-> embedding, members |-> members,
                                  indexed |-> rows, clash |-> FALSE]
                            ELSE Vec!Retain(g[i - 1], space, s[i])]
  <2>1. PICK g : IsRetaining(space, s, g, Len(s))
    BY <1>2, RetainingExists
  <2>2. QED
    BY <2>1 DEF IsRetaining, After, Committed
<1>4. f = [i \in 0 .. Len(s) |->
             IF i = 0 THEN [embedding |-> embedding, members |-> members,
                            indexed |-> rows, clash |-> FALSE]
                      ELSE Vec!Retain(f[i - 1], space, s[i])]
  BY <1>3
<1> HIDE DEF f
<1>5. f[0] = Committed
  BY <1>2, <1>4 DEF Committed
<1>6. \A i \in 1 .. Len(s) : f[i] = Vec!Retain(f[i - 1], space, s[i])
  <2>1. ASSUME NEW i \in 1 .. Len(s) PROVE f[i] = Vec!Retain(f[i - 1], space, s[i])
    <3>1. i \in 0 .. Len(s) /\ i # 0
      BY <1>2
    <3>2. QED
      BY <1>4, <3>1
  <2>2. QED
    BY <2>1
<1>7. T = {}
  <2>1. SUFFICES ASSUME T # {} PROVE FALSE
    OBVIOUS
  <2>2. PICK k \in T : \A j \in T : k <= j
    <3>1. T \subseteq Nat
      OBVIOUS
    <3> HIDE DEF T
    <3>2. QED
      BY <2>1, <3>1, Least
  <2>3. k \in 0 .. Len(s) /\ ~Good(k)
    BY <2>2
  <2>4. Good(0)
    BY <1>5 DEF Committed
  <2>5. k \in 1 .. Len(s) /\ k - 1 \in 0 .. Len(s) /\ ~(k <= k - 1)
    <3> HIDE DEF Good
    <3>1. QED
      BY <1>2, <2>3, <2>4
  <2>6. Good(k - 1)
    <3> HIDE DEF Good
    <3>1. QED
      BY <2>2, <2>5
  <2>7. /\ Sound(Vec!Retain(f[k - 1], space, s[k]), d)
        /\ \A member \in Vec!Retain(f[k - 1], space, s[k]).members :
             member \in f[k - 1].members \/ member.space = space
    BY <1>2, <2>5, <2>6, RetainKeeps
  <2>8. Good(k)
    BY <1>6, <2>5, <2>6, <2>7
  <2>9. QED
    BY <2>3, <2>8
<1>8. Good(Len(s))
  <2> HIDE DEF Good
  <2>1. QED
    BY <1>2, <1>7
<1>9. QED
  BY <1>1, <1>8

-----------------------------------------------------------------------------

\* What no step but StoreAdd, Delete and those of the process does to tables.
LEMMA CallChanges ==
  ASSUME VectorsInv, NEW c \in Callers, NEW value, add' = [add EXCEPT ![c] = value],
         value = Vec!Ended \/ value \in [at : {"generate", "store"}, name : Names, missing : SUBSET Ids,
                                          vectors : Seq(OwnVectors)]
  PROVE  add' = [d \in Callers |-> add'[d]] /\ \A d \in Callers : Adding(d)'
<1>1. \A d \in Callers : add'[d] = IF d = c THEN value ELSE add[d]
  BY DEF VectorsInv
<1>2. add' = [d \in Callers |-> add'[d]]
  BY DEF VectorsInv
<1>3. QED
  BY <1>1, <1>2 DEF VectorsInv, Adding

LEMMA ReaderChanges ==
  ASSUME VectorsInv, NEW r \in Readers, NEW value, reader' = [reader EXCEPT ![r] = value],
         value = Vec!Closed \/ Paging(value)
  PROVE  /\ reader' = [q \in Readers |-> reader'[q]]
         /\ \A q \in Readers : reader'[q] = Vec!Closed \/ Paging(reader'[q])
<1>1. \A q \in Readers : reader'[q] = IF q = r THEN value ELSE reader[q]
  BY DEF VectorsInv
<1>2. reader' = [q \in Readers |-> reader'[q]]
  BY DEF VectorsInv
<1>3. QED
  BY <1>1, <1>2 DEF VectorsInv

LEMMA TablesStay ==
  ASSUME StoredInv, UNCHANGED <<dimension, embedding, members, rows, spaces>>
  PROVE  StoredInv'
BY DEF StoredInv, Cached, Indexed

LEMMA BeginKeeps ==
  ASSUME VectorsInv, NEW c \in Callers, NEW name \in Names, NEW ids \in SUBSET Ids,
         Vec!Begin(c, name, ids)
  PROVE  VectorsInv'
<1> DEFINE missing == ids \ DOMAIN embedding
           hits == Vec!Ascending(ids \cap DOMAIN embedding)
           at == IF missing = {} THEN "store" ELSE "generate"
           value == [at |-> at, name |-> name, missing |-> missing, vectors |-> Vec!Lookup(ids)]
<1>1. IsFiniteSet(Ids) /\ Ids \in SUBSET Nat
  BY VectorAssumptions, SameCounting DEF Vec!Assumptions
<1>2. /\ IsFiniteSet(ids \cap DOMAIN embedding) /\ ids \cap DOMAIN embedding \in SUBSET Nat
  BY <1>1, FS_Subset
<1>3. hits \in Seq(ids \cap DOMAIN embedding)
  BY <1>2, AscendingLists
<1>4. Vec!Lookup(ids) = [n \in DOMAIN hits |-> [id |-> hits[n], values |-> embedding[hits[n]]]]
  BY DEF Vec!Lookup
<1> HIDE DEF hits
<1>5. DOMAIN hits = 1 .. Len(hits) /\ Len(hits) \in Nat
      /\ \A n \in 1 .. Len(hits) : hits[n] \in ids /\ hits[n] \in DOMAIN embedding
  BY <1>3
<1>6. ASSUME NEW n \in 1 .. Len(hits)
      PROVE  [id |-> hits[n], values |-> embedding[hits[n]]] \in OwnVectors
  <2>1. hits[n] \in Ids /\ embedding[hits[n]] \in Values /\ embedding[hits[n]].of = hits[n]
    BY <1>5 DEF VectorsInv, StoredInv, Cached
  <2>2. QED
    BY <2>1 DEF OwnVectors
<1>7. Vec!Lookup(ids) \in Seq(OwnVectors)
  BY <1>4, <1>5, <1>6
<1>8. value \in [at : {"generate", "store"}, name : Names, missing : SUBSET Ids, vectors : Seq(OwnVectors)]
  BY <1>7
<1>9. add' = [add EXCEPT ![c] = value] /\ UNCHANGED <<reader, dimension, embedding, members, rows, spaces>>
  BY DEF Vec!Begin, Vec!tables
<1> HIDE DEF value
<1>10. QED
  BY <1>8, <1>9, CallChanges, TablesStay DEF VectorsInv, Paging

LEMMA GenerateKeeps ==
  ASSUME VectorsInv, NEW c \in Callers, Vec!Generate(c)
  PROVE  VectorsInv'
<1>1. PICK sample \in [add[c].missing -> Samples] :
        add' = [add EXCEPT ![c] =
             IF Vec!OneDimension(Vec!Generated(Vec!Ascending(add[c].missing), sample))
               THEN [at |-> "store", name |-> add[c].name, missing |-> add[c].missing,
                     vectors |-> add[c].vectors \o Vec!Generated(Vec!Ascending(add[c].missing), sample)]
               ELSE Vec!Ended]
  BY DEF Vec!Generate
<1> DEFINE k == add[c]
           s == Vec!Ascending(k.missing)
           made == Vec!Generated(s, sample)
           value == IF Vec!OneDimension(made)
                      THEN [at |-> "store", name |-> k.name, missing |-> k.missing,
                            vectors |-> k.vectors \o made]
                      ELSE Vec!Ended
<1>2. k \in [at : {"generate", "store"}, name : Names, missing : SUBSET Ids, vectors : Seq(OwnVectors)]
  BY DEF VectorsInv, Adding, Vec!Ended, Vec!Generate
<1>3. IsFiniteSet(Ids) /\ Ids \in SUBSET Nat
  BY VectorAssumptions, SameCounting DEF Vec!Assumptions
<1>4. IsFiniteSet(k.missing) /\ k.missing \in SUBSET Nat /\ k.missing \in SUBSET Ids
  <2>1. k.missing \in SUBSET Ids
    BY <1>2
  <2> HIDE DEF k
  <2>2. QED
    BY <1>3, <2>1, FS_Subset
<1>5. s \in Seq(k.missing)
  <2> HIDE DEF k
  <2>1. QED
    BY <1>4, AscendingLists
<1>6. made \in Seq(OwnVectors)
  <2> HIDE DEF k, s
  <2>1. s \in Seq(Ids) /\ Len(s) \in Nat /\ \A n \in 1 .. Len(s) : s[n] \in k.missing /\ s[n] \in Ids
    BY <1>4, <1>5
  <2>2. made = [n \in 1 .. Len(s) |-> [id |-> s[n], values |-> [of |-> s[n], sample |-> sample[s[n]]]]]
    BY <2>1, OwnAnswers
  <2>3. \A n \in 1 .. Len(s) : sample[s[n]] \in Samples
    BY <1>1, <2>1 DEF k
  <2>4. \A n \in 1 .. Len(s) :
          [id |-> s[n], values |-> [of |-> s[n], sample |-> sample[s[n]]]] \in OwnVectors
    BY <2>1, <2>3 DEF OwnVectors, Values
  <2>5. QED
    BY <2>1, <2>2, <2>4
<1>7. add' = [add EXCEPT ![c] = value] /\ UNCHANGED <<reader, dimension, embedding, members, rows, spaces>>
  <2>1. UNCHANGED <<reader, dimension, embedding, members, rows, spaces>>
    BY DEF Vec!Generate, Vec!tables
  <2>2. add' = [add EXCEPT ![c] = value]
    BY <1>1
  <2>3. QED
    BY <2>1, <2>2
<1> HIDE DEF made, k
<1>8. value = Vec!Ended \/ value \in [at : {"generate", "store"}, name : Names, missing : SUBSET Ids,
                                      vectors : Seq(OwnVectors)]
  <2>1. k.vectors \o made \in Seq(OwnVectors)
    BY <1>2, <1>6
  <2>2. QED
    BY <1>2, <2>1
<1> HIDE DEF value
<1>9. QED
  BY <1>7, <1>8, CallChanges, TablesStay DEF VectorsInv, Paging

LEMMA StoreAddKeeps ==
  ASSUME VectorsInv, NEW c \in Callers, Vec!StoreAdd(c)
  PROVE  VectorsInv'
<1> DEFINE s == add[c].vectors
           fixed == IF dimension = 0 THEN Vec!Dimension(s) ELSE dimension
           retained == Vec!RetainNamespace(add[c].name)
           space == Vec!GetNamespace(retained, add[c].name)
           db == Vec!RetainAll(space.id, s)
           accepted == Vec!OneDimension(s) /\ Vec!Dimension(s) \in {0, fixed} /\ ~db.clash
<1>1. /\ add[c].at = "store" /\ add' = [add EXCEPT ![c] = Vec!Ended]
      /\ reader' = reader
      /\ IF accepted
           THEN /\ dimension' = fixed /\ spaces' = retained
                /\ embedding' = db.embedding /\ members' = db.members /\ rows' = db.indexed
           ELSE UNCHANGED <<dimension, spaces, embedding, members, rows>>
  BY DEF Vec!StoreAdd
<1>2. add[c].vectors \in Seq(OwnVectors)
  BY <1>1 DEF VectorsInv, Adding, Vec!Ended
<1>3. (add' = [d \in Callers |-> add'[d]] /\ \A d \in Callers : Adding(d)')
      /\ reader' = [r \in Readers |-> reader'[r]]
      /\ \A r \in Readers : reader'[r] = Vec!Closed \/ Paging(reader'[r])
  BY <1>1, CallChanges DEF VectorsInv
<1>4. CASE ~accepted
  BY <1>1, <1>3, <1>4, TablesStay DEF VectorsInv
<1>5. CASE accepted
  <2>1. Len(s) \in Nat /\ \A n \in 1 .. Len(s) : s[n] \in OwnVectors
    BY <1>2
  <2>2. \A n \in 1 .. Len(s) : /\ s[n].values.sample.dimension = Vec!Dimension(s)
                               /\ s[n].values.sample.dimension \in Nat \ {0}
    <3>1. \A n \in 1 .. Len(s) : s[n].values.sample \in Samples
      BY <2>1 DEF OwnVectors, Values
    <3>2. \A n \in 1 .. Len(s) : s[n].values.sample.dimension = Vec!Dimension(s)
      BY <1>5, <1>2 DEF Vec!OneDimension
    <3>3. QED
      BY <3>1, <3>2, VectorAssumptions DEF Vec!Assumptions
  <2>3. Vec!Dimension(s) \in Nat
    <3>1. CASE s = <<>>
      BY <3>1 DEF Vec!Dimension
    <3>2. CASE s # <<>>
      <4>1. 1 \in 1 .. Len(s)
        BY <1>2, <3>2
      <4>2. QED
        BY <2>2, <4>1
    <3>3. QED
      BY <3>1, <3>2
  <2>4. fixed \in Nat /\ \A n \in 1 .. Len(s) : s[n].values.sample.dimension = fixed
    <3> HIDE DEF s, db
    <3>1. dimension \in Nat
      BY DEF VectorsInv, StoredInv
    <3>2. Vec!Dimension(s) \in {0, fixed}
      BY <1>5
    <3>3. QED
      BY <2>2, <2>3, <3>1, <3>2
  <2>5. Cached(embedding, fixed)
    <3>1. CASE dimension = 0
      <4>1. \A id \in DOMAIN embedding : /\ embedding[id].sample \in Samples
                                         /\ embedding[id].sample.dimension = 0
        BY <3>1 DEF VectorsInv, StoredInv, Cached, Values
      <4>2. DOMAIN embedding = {}
        BY <4>1, VectorAssumptions DEF Vec!Assumptions
      <4>3. QED
        BY <4>2 DEF VectorsInv, StoredInv, Cached
    <3>2. CASE dimension # 0
      BY <3>2 DEF VectorsInv, StoredInv
    <3>3. QED
      BY <3>1, <3>2
  <2>6. Sound(Committed, fixed)
    BY <2>5 DEF Sound, DbRecord, Committed, VectorsInv, StoredInv
  <2> HIDE DEF fixed, s
  <2>7. Sound(db, fixed) /\ \A member \in db.members : member \in members \/ member.space = space.id
    BY <1>2, <2>4, <2>6, AllRetained DEF s
  <2> HIDE DEF db
  <2>8. spaces \subseteq retained /\ space \in retained
    <3>1. \E q \in retained : q.name = add[c].name
      <4>1. CASE Vec!Exists(add[c].name)
        BY <4>1 DEF Vec!RetainNamespace, Vec!Exists
      <4>2. CASE ~Vec!Exists(add[c].name)
        <5> DEFINE new == [id |-> Vec!NextId(spaces), name |-> add[c].name]
        <5>1. new \in retained
          BY <4>2 DEF Vec!RetainNamespace
        <5>2. new.name = add[c].name
          OBVIOUS
        <5>3. QED
          BY <5>1, <5>2
      <4>3. QED
        BY <4>1, <4>2
    <3>2. space \in retained
      BY <3>1 DEF Vec!GetNamespace
    <3>3. spaces \subseteq retained
      BY DEF Vec!RetainNamespace
    <3>4. QED
      BY <3>2, <3>3
  <2>9. \A member \in members : \E q \in spaces : q.id = member.space
    BY DEF VectorsInv, StoredInv
  <2> HIDE DEF retained, space
  <2>10. \A member \in db.members : \E q \in retained : q.id = member.space
    BY <2>7, <2>8, <2>9
  <2>11. /\ dimension' = fixed /\ spaces' = retained
         /\ embedding' = db.embedding /\ members' = db.members /\ rows' = db.indexed
    BY <1>1, <1>5
  <2>12. StoredInv'
    BY <2>4, <2>7, <2>10, <2>11 DEF StoredInv, Sound
  <2>13. QED
    BY <1>3, <2>12 DEF VectorsInv
<1>6. QED
  BY <1>4, <1>5

LEMMA FailKeeps ==
  ASSUME VectorsInv, NEW c \in Callers, Vec!Fail(c)
  PROVE  VectorsInv'
<1>1. add' = [add EXCEPT ![c] = Vec!Ended] /\ UNCHANGED <<reader, dimension, embedding, members, rows, spaces>>
  BY DEF Vec!Fail, Vec!tables
<1>2. QED
  BY <1>1, CallChanges, TablesStay DEF VectorsInv, Paging

LEMMA DeleteKeeps ==
  ASSUME VectorsInv, NEW name \in Names, Vec!Delete(name)
  PROVE  VectorsInv'
<1> DEFINE space == Vec!GetNamespace(spaces, name)
<1>1. /\ rows' = {row \in rows : row.space # space.id}
      /\ members' = {row \in members : row.space # space.id}
      /\ spaces' = spaces \ {space}
      /\ UNCHANGED <<dimension, embedding, add, reader>>
  BY DEF Vec!Delete, Vec!Without
<1> HIDE DEF space
<1>2. StoredInv
  BY DEF VectorsInv
<1>3. IsFiniteSet(members')
  BY <1>1, <1>2, FS_Subset DEF StoredInv, Indexed
<1>4. {[id |-> row.id, space |-> row.space, vector |-> row.vector] : row \in rows'} = members'
  <2>1. {[id |-> row.id, space |-> row.space, vector |-> row.vector] : row \in rows} = members
    BY <1>2 DEF StoredInv, Indexed
  <2>2. ASSUME NEW row \in rows' PROVE [id |-> row.id, space |-> row.space, vector |-> row.vector] \in members'
    BY <1>1, <2>1
  <2>3. ASSUME NEW member \in members'
        PROVE  \E row \in rows' : member = [id |-> row.id, space |-> row.space, vector |-> row.vector]
    <3>1. PICK row \in rows : member = [id |-> row.id, space |-> row.space, vector |-> row.vector]
      BY <1>1, <2>1
    <3>2. row \in rows'
      BY <1>1, <3>1
    <3>3. QED
      BY <3>1, <3>2
  <2>4. QED
    BY <2>2, <2>3
<1>5. Indexed(embedding, members', rows')
  BY <1>1, <1>2, <1>3, <1>4 DEF StoredInv, Indexed
<1>6. \A member \in members' : \E q \in spaces' : q.id = member.space
  BY <1>1, <1>2 DEF StoredInv
<1>7. StoredInv'
  BY <1>1, <1>2, <1>5, <1>6 DEF StoredInv
<1>8. QED
  BY <1>1, <1>7 DEF VectorsInv, Adding, Paging

LEMMA RestartKeeps ==
  ASSUME VectorsInv, NEW configured \in Models, Vec!Restart(configured)
  PROVE  VectorsInv'
<1>1. /\ add' = [c \in Callers |-> Vec!Ended] /\ reader' = [r \in Readers |-> Vec!Closed]
      /\ UNCHANGED <<dimension, embedding, members, rows, spaces>>
  BY DEF Vec!Restart, Vec!tables
<1>2. QED
  BY <1>1, TablesStay DEF VectorsInv, Adding

\* The list of a Namespace and its rows are of one moment.
LEMMA OpenKeeps ==
  ASSUME VectorsInv, NEW r \in Readers, NEW name \in Names, Vec!Open(r, name)
  PROVE  VectorsInv'
<1> DEFINE space == Vec!GetNamespace(spaces, name).id
           here == {member.vector : member \in {m \in members : m.space = space}}
           ids == Vec!Ascending(here)
           value == [open |-> TRUE, ids |-> ids, rows |-> {row \in rows : row.space = space},
                     after |-> 0, read |-> <<>>, more |-> TRUE, found |-> {}]
<1>1. /\ reader' = [reader EXCEPT ![r] = value]
      /\ UNCHANGED <<add, dimension, embedding, members, rows, spaces>>
  BY DEF Vec!Open, Vec!tables, Vec!ListNamespaceVectorIDs
<1>2. IsFiniteSet(Ids) /\ Ids \in SUBSET (Nat \ {0})
  BY VectorAssumptions, SameCounting DEF Vec!Assumptions
<1>3. here \in SUBSET Ids
  BY DEF VectorsInv, StoredInv, Indexed
<1> HIDE DEF space
<1>4. \A row \in rows : row.space = space => row.vector \in here
  <2>1. SUFFICES ASSUME NEW row \in rows, row.space = space PROVE row.vector \in here
    OBVIOUS
  <2> DEFINE member == [id |-> row.id, space |-> row.space, vector |-> row.vector]
  <2>2. member \in members
    BY DEF VectorsInv, StoredInv, Indexed
  <2>3. member.space = space /\ member.vector = row.vector
    BY <2>1
  <2> HIDE DEF member
  <2>4. QED
    BY <2>2, <2>3
<1> HIDE DEF here
<1>5. /\ ids \in Seq(here) /\ Increasing(ids)
      /\ \A x \in here : \E i \in 1 .. Len(ids) : ids[i] = x
  <2>1. IsFiniteSet(here) /\ here \in SUBSET Nat
    BY <1>2, <1>3, FS_Subset
  <2>2. QED
    BY <2>1, AscendingLists
<1> HIDE DEF ids
<1>6. ids \in Seq(Ids) /\ Len(ids) \in Nat
  BY <1>3, <1>5
<1>7. here \subseteq Vec!ToSet(ids)
  BY <1>5, <1>6 DEF Vec!ToSet
<1>8. Paging(value)
  <2>1. <<>> \in Seq(Ids) /\ Len(<<>>) = 0
    OBVIOUS
  <2>2. \A row \in value.rows : row.vector \in Vec!ToSet(ids)
    BY <1>4, <1>7
  <2>3. QED
    BY <1>5, <1>6, <2>1, <2>2 DEF Paging
<1> HIDE DEF value
<1>9. QED
  BY <1>1, <1>8, ReaderChanges, TablesStay DEF VectorsInv, Adding

LEMMA CloseKeeps ==
  ASSUME VectorsInv, NEW r \in Readers, Vec!Close(r)
  PROVE  VectorsInv'
<1>1. reader' = [reader EXCEPT ![r] = Vec!Closed] /\ UNCHANGED <<add, dimension, embedding, members, rows, spaces>>
  BY DEF Vec!Close, Vec!tables
<1>2. QED
  BY <1>1, ReaderChanges, TablesStay DEF VectorsInv, Adding

LEMMA SearchKeeps ==
  ASSUME VectorsInv, NEW r \in Readers, Vec!Search(r)
  PROVE  VectorsInv'
<1> DEFINE e == reader[r]
<1>1. Paging(e)
  BY DEF VectorsInv, Vec!Search, Vec!Closed
<1>2. PICK nearest \in SUBSET e.rows :
        reader' = [reader EXCEPT ![r].found = {row.vector : row \in nearest}]
  BY DEF Vec!Search, Vec!kSubset
<1> DEFINE found == {row.vector : row \in nearest}
           value == [open |-> TRUE, ids |-> e.ids, rows |-> e.rows, after |-> e.after,
                     read |-> e.read, more |-> e.more, found |-> found]
<1>3. found \subseteq Vec!ToSet(e.ids)
  BY <1>1 DEF Paging
<1> HIDE DEF found
<1>4. reader' = [reader EXCEPT ![r] = [e EXCEPT !.found = found]]
  BY <1>2 DEF found
<1> HIDE DEF e
<1>5. [e EXCEPT !.found = found] = value
  <2>1. PICK o, i, x, a, d, m, f :
          e = [open |-> o, ids |-> i, rows |-> x, after |-> a, read |-> d, more |-> m, found |-> f]
    BY <1>1 DEF Paging
  <2> DEFINE k == [open |-> o, ids |-> i, rows |-> x, after |-> a, read |-> d, more |-> m, found |-> f]
  <2>2. [k EXCEPT !.found = found]
          = [open |-> o, ids |-> i, rows |-> x, after |-> a, read |-> d, more |-> m, found |-> found]
    OBVIOUS
  <2>3. e = k
    BY <2>1
  <2> HIDE DEF k
  <2>4. [e EXCEPT !.found = found]
          = [open |-> o, ids |-> i, rows |-> x, after |-> a, read |-> d, more |-> m, found |-> found]
    BY <2>2, <2>3
  <2>5. e.open = TRUE
    BY <1>1 DEF Paging
  <2>6. e.open = o /\ e.ids = i /\ e.rows = x /\ e.after = a /\ e.read = d /\ e.more = m
    BY <2>1
  <2>7. QED
    BY <2>4, <2>5, <2>6
<1>6. Paging(value)
  BY <1>1, <1>3 DEF Paging
<1>7. UNCHANGED <<add, dimension, embedding, members, rows, spaces>>
  BY DEF Vec!Search, Vec!tables
<1> HIDE DEF value
<1>8. QED
  BY <1>4, <1>5, <1>6, <1>7, ReaderChanges, TablesStay DEF VectorsInv, Adding

\* A page goes on where the one before has ended.
LEMMA NextPageKeeps ==
  ASSUME VectorsInv, NEW r \in Readers, Vec!NextPage(r)
  PROVE  VectorsInv'
<1> DEFINE e == reader[r]
           rest == Vec!Ascending({id \in Vec!ToSet(e.ids) : id > e.after})
           size == Vec!Min({PageLimit, Len(rest)})
           page == SubSeq(rest, 1, size)
           read == e.read \o page
           after == IF page = <<>> THEN e.after ELSE Vec!Last(page)
           more == Len(rest) > PageLimit
           value == [open |-> TRUE, ids |-> e.ids, rows |-> e.rows, after |-> after,
                     read |-> read, more |-> more, found |-> e.found]
<1>1. Paging(e)
  <2>1. reader[r].open
    BY DEF Vec!NextPage
  <2>2. QED
    BY <2>1 DEF VectorsInv, Vec!Closed
<1>2. reader' = [reader EXCEPT ![r] = [e EXCEPT !.read = read, !.after = after, !.more = more]]
  BY DEF Vec!NextPage, VectorsInv
<1>3. UNCHANGED <<add, dimension, embedding, members, rows, spaces>>
  BY DEF Vec!NextPage, Vec!tables
<1> HIDE DEF e
<1> DEFINE k == Len(e.read)
           ids == e.ids
<1>4. /\ ids \in Seq(Nat \ {0}) /\ Increasing(ids) /\ Len(ids) \in Nat
      /\ k \in 0 .. Len(ids) /\ e.read \in Seq(Ids) /\ ids \in Seq(Ids)
      /\ \A i \in 1 .. k : e.read[i] = ids[i]
      /\ e.after = IF k = 0 THEN 0 ELSE ids[k]
  <2>1. Ids \subseteq Nat \ {0}
    BY VectorAssumptions DEF Vec!Assumptions
  <2>2. QED
    BY <1>1, <2>1 DEF Paging
<1>5. rest = SubSeq(ids, k + 1, Len(ids))
  <2> HIDE DEF k
  <2>1. QED
    BY <1>4, RestOfPages
<1> HIDE DEF rest, ids, k
<1>6. /\ rest \in Seq(Ids) /\ Len(rest) = Len(ids) - k
      /\ \A i \in 1 .. Len(rest) : rest[i] = ids[k + i]
  BY <1>4, <1>5
<1>7. /\ PageLimit \in Nat \ {0} /\ size \in 0 .. Len(rest)
      /\ size = IF Len(rest) <= PageLimit THEN Len(rest) ELSE PageLimit
  <2>1. PageLimit \in Nat \ {0} /\ Len(rest) \in Nat
    BY <1>6, VectorAssumptions DEF Vec!Assumptions
  <2>2. \E n \in {PageLimit, Len(rest)} : \A x \in {PageLimit, Len(rest)} : n <= x
    BY <2>1
  <2>3. size \in {PageLimit, Len(rest)} /\ \A x \in {PageLimit, Len(rest)} : size <= x
    BY <2>2 DEF Vec!Min
  <2> HIDE DEF size
  <2>4. QED
    BY <2>1, <2>3
<1> HIDE DEF size
<1>8. /\ page \in Seq(Ids) /\ Len(page) = size
      /\ \A i \in 1 .. size : page[i] = ids[k + i]
  BY <1>6, <1>7
<1> HIDE DEF page
<1>9. /\ read \in Seq(Ids) /\ Len(read) = k + size
      /\ \A i \in 1 .. k + size : read[i] = ids[i]
  <2>1. read \in Seq(Ids) /\ Len(read) = k + size
    BY <1>4, <1>8, ConcatProperties DEF k
  <2>2. ASSUME NEW i \in 1 .. k + size PROVE read[i] = ids[i]
    <3> k \in Nat /\ size \in Nat
      <4>1. k \in Nat
        BY <1>4
      <4>2. Len(rest) \in Nat
        BY <1>6
      <4>3. QED
        BY <1>7, <4>1, <4>2
    <3> i \in Nat /\ i \in 1 .. Len(e.read) + Len(page)
      <4>1. Len(page) = size
        BY <1>8
      <4>2. QED
        BY <4>1 DEF k
    <3> read[i] = IF i <= k THEN e.read[i] ELSE page[i - k]
      BY <1>4, <1>8, ConcatProperties DEF k
    <3>1. CASE i <= k
      <4>1. read[i] = e.read[i]
        BY <3>1
      <4>2. QED
        BY <1>4, <3>1, <4>1
    <3>2. CASE i > k
      <4>1. i - k \in 1 .. size /\ k + (i - k) = i
        BY <1>4, <1>7, <3>2
      <4>2. read[i] = page[i - k]
        BY <3>2
      <4>3. QED
        BY <1>8, <4>1, <4>2
    <3>3. QED
      BY <3>1, <3>2
  <2>3. QED
    BY <2>1, <2>2
<1> HIDE DEF read
<1>10. after = IF k + size = 0 THEN 0 ELSE ids[k + size]
  <2>1. CASE size = 0
    <3>1. page = <<>>
      BY <1>8, <2>1
    <3>2. QED
      BY <1>4, <2>1, <3>1
  <2>2. CASE size # 0
    <3>1. page # <<>> /\ size \in 1 .. size
      BY <1>7, <1>8, <2>2
    <3>2. Vec!Last(page) = ids[k + size]
      BY <1>8, <3>1 DEF Vec!Last
    <3>3. k + size # 0
      BY <1>4, <1>7, <2>2
    <3>4. QED
      BY <3>1, <3>2, <3>3
  <2>3. QED
    BY <2>1, <2>2
<1> HIDE DEF after
<1>11. k + size <= Len(ids) /\ (~more => k + size = Len(ids)) /\ more \in BOOLEAN
  BY <1>4, <1>6, <1>7
<1> HIDE DEF more
<1>12. [e EXCEPT !.read = read, !.after = after, !.more = more] = value
  <2>1. PICK o, i, x, a, d, m, f :
          e = [open |-> o, ids |-> i, rows |-> x, after |-> a, read |-> d, more |-> m, found |-> f]
    BY <1>1 DEF Paging
  <2> DEFINE c == [open |-> o, ids |-> i, rows |-> x, after |-> a, read |-> d, more |-> m, found |-> f]
  <2>2. [c EXCEPT !.read = read, !.after = after, !.more = more]
          = [open |-> o, ids |-> i, rows |-> x, after |-> after, read |-> read, more |-> more, found |-> f]
    <3>1. PICK nd, na, nm : nd = read /\ na = after /\ nm = more
      OBVIOUS
    <3> DEFINE b == [open |-> o, ids |-> i, rows |-> x, after |-> a, read |-> nd, more |-> m, found |-> f]
               g == [open |-> o, ids |-> i, rows |-> x, after |-> na, read |-> nd, more |-> m, found |-> f]
    <3>2. [c EXCEPT !.read = nd] = b
      OBVIOUS
    <3>3. [b EXCEPT !.after = na] = g
      OBVIOUS
    <3>4. [g EXCEPT !.more = nm]
            = [open |-> o, ids |-> i, rows |-> x, after |-> na, read |-> nd, more |-> nm, found |-> f]
      OBVIOUS
    <3> HIDE DEF b, c, g
    <3>5. QED
      BY <3>1, <3>2, <3>3, <3>4
  <2>3. e = c
    BY <2>1
  <2> HIDE DEF c
  <2>4. [e EXCEPT !.read = read, !.after = after, !.more = more]
          = [open |-> o, ids |-> i, rows |-> x, after |-> after, read |-> read, more |-> more, found |-> f]
    BY <2>2, <2>3
  <2>5. e.open = TRUE
    BY <1>1 DEF Paging
  <2>6. e.open = o /\ e.ids = i /\ e.rows = x /\ e.found = f
    BY <2>1
  <2>7. QED
    BY <2>4, <2>5, <2>6
<1>13. Paging(value)
  <2>1. \A row \in e.rows : row.vector \in Vec!ToSet(e.ids)
    BY <1>1 DEF Paging
  <2>2. e.found \subseteq Vec!ToSet(e.ids)
    BY <1>1 DEF Paging
  <2>3. QED
    BY <1>4, <1>9, <1>10, <1>11, <2>1, <2>2 DEF Paging, ids
<1> HIDE DEF value
<1>14. QED
  BY <1>2, <1>3, <1>12, <1>13, ReaderChanges, TablesStay DEF VectorsInv, Adding

-----------------------------------------------------------------------------

LEMMA VectorsStep == VectorsInv /\ [Vec!Next]_(Vec!vars) => VectorsInv'
<1> SUFFICES ASSUME VectorsInv, [Vec!Next]_(Vec!vars) PROVE VectorsInv'
  OBVIOUS
<1>1. CASE UNCHANGED Vec!vars
  BY <1>1, TablesStay DEF Vec!vars, VectorsInv, Adding
<1>2. ASSUME NEW c \in Callers,
             \/ \E name \in Names, ids \in SUBSET Ids : Vec!Begin(c, name, ids)
             \/ Vec!Generate(c) \/ Vec!StoreAdd(c) \/ Vec!Fail(c)
      PROVE  VectorsInv'
  BY <1>2, BeginKeeps, GenerateKeeps, StoreAddKeeps, FailKeeps
<1>3. ASSUME NEW r \in Readers,
             \/ \E name \in Names : Vec!Open(r, name)
             \/ Vec!NextPage(r) \/ Vec!Search(r) \/ Vec!Close(r)
      PROVE  VectorsInv'
  BY <1>3, OpenKeeps, NextPageKeeps, SearchKeeps, CloseKeeps
<1>4. QED
  BY <1>1, <1>2, <1>3, DeleteKeeps, RestartKeeps DEF Vec!Next

LEMMA VectorsPart == [PipelineNext]_pipelineVars => [Vec!Next]_(Vec!vars)
BY DEF PipelineNext, pipelineVars, Only, vecVars, Vec!vars

LEMMA VectorsInvariance == PipelineSpec => []VectorsInv
<1>1. PipelineInit => VectorsInv
  BY VectorsStart DEF PipelineInit
<1>2. VectorsInv /\ [PipelineNext]_pipelineVars => VectorsInv'
  BY VectorsStep, VectorsPart
<1>3. QED
  BY <1>1, <1>2, PTL DEF PipelineSpec

LEMMA PagesAreWhole == VectorsInv => Vec!PagesWhole
<1> SUFFICES ASSUME VectorsInv, NEW r \in Readers, reader[r].open
             PROVE  /\ Vec!IsPrefix(reader[r].read, reader[r].ids)
                    /\ ~reader[r].more => reader[r].read = reader[r].ids
                    /\ reader[r].found \subseteq Vec!ToSet(reader[r].ids)
  BY DEF Vec!PagesWhole
<1> DEFINE e == reader[r]
<1>1. Paging(e)
  BY DEF VectorsInv, Vec!Closed
<1> HIDE DEF e
<1>2. /\ e.read \in Seq(Ids) /\ e.ids \in Seq(Ids) /\ Len(e.read) <= Len(e.ids)
      /\ Len(e.read) \in Nat /\ Len(e.ids) \in Nat
      /\ \A i \in 1 .. Len(e.read) : e.read[i] = e.ids[i]
  BY <1>1 DEF Paging
<1> DEFINE n == Len(e.read)
           left == SubSeq(e.read, 1, n)
           right == SubSeq(e.ids, 1, n)
<1>3. left \in Seq(Ids) /\ right \in Seq(Ids) /\ Len(left) = n /\ Len(right) = n
      /\ \A i \in 1 .. n : left[i] = e.read[i] /\ right[i] = e.ids[i]
  BY <1>2
<1>4. left = right
  <2> HIDE DEF left, right
  <2>1. QED
    BY <1>2, <1>3, SeqEqual
<1>5. ~e.more => e.read = e.ids
  BY <1>1, <1>2, SeqEqual DEF Paging
<1>6. QED
  BY <1>1, <1>2, <1>4, <1>5 DEF Vec!IsPrefix, Paging, e

\* Whatever adds, deletions, failures, stops and pages interleave, a Namespace
\* has exactly the index rows of its members, an ID means one vector of its own
\* text, and a reader pages through the members of one moment
\* (semantic/adapter/sqlite).
THEOREM VectorsCorrect == PipelineSpec => []VectorsKept
<1>1. VectorsInv => VectorsKept
  <2> SUFFICES ASSUME VectorsInv PROVE VectorsKept
    OBVIOUS
  <2>1. Vec!IndexWhole
    BY DEF VectorsInv, StoredInv, Indexed, Vec!IndexWhole
  <2>2. Vec!OneVectorPerId
    BY DEF VectorsInv, StoredInv, Indexed, Cached, Vec!OneVectorPerId
  <2>3. QED
    BY <2>1, <2>2, PagesAreWhole DEF VectorsKept, Vec!VectorsKept
<1>2. QED
  BY <1>1, VectorsInvariance, PTL
=============================================================================
