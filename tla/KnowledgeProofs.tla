--------------------------- MODULE KnowledgeProofs ---------------------------
(***************************************************************************)
(* Proofs about Knowledge.tla for any objects, references, contents,       *)
(* Sources, Agents and batches.  The inductive invariant is the            *)
(* conjunction of the properties and of one more fact, that a Candidate    *)
(* always stands against a Version that exists.                            *)
(***************************************************************************)
EXTENDS Knowledge, SequenceTheorems, TLAPS

\* A Candidate N.x stands against one of the formal Versions.
BasesExist ==
  \A k \in candidates : k.base \in 1 .. Base(k.object)

IInv ==
  /\ TypeOK
  /\ ReferencesActive
  /\ OnePendingPerKey
  /\ BasesExist
  /\ ReplacedOnlyWhenDecided

-----------------------------------------------------------------------------
(* Sequences of Versions *)

\* Adding a Source to Current changes neither content nor tombstones.
LEMMA ConfirmedVersions ==
  ASSUME NEW vs \in Seq(VersionType), vs # << >>, NEW s \in Sources
  PROVE  /\ Confirmed(vs, s) \in Seq(VersionType)
         /\ Len(Confirmed(vs, s)) = Len(vs) /\ Confirmed(vs, s) # << >>
         /\ \A i \in 1 .. Len(vs) : Confirmed(vs, s)[i].deleted = vs[i].deleted
<1>1. Len(vs) \in 1 .. Len(vs) /\ Len(vs) \in Nat
  BY EmptySeq, LenProperties
<1> DEFINE n == Len(vs)
           v == [vs[n] EXCEPT !.sources = @ \union {s}]
<1>2. vs[n] \in VersionType
  BY <1>1, ElementOfSeq
<1>3. v \in VersionType /\ v.deleted = vs[n].deleted
  BY <1>2 DEF VersionType
<1>4. Confirmed(vs, s) = [vs EXCEPT ![n] = v]
  BY DEF Confirmed
<1>5. n \in 1 .. Len(vs)
  BY <1>1
<1> HIDE DEF v, n
<1> DEFINE us == [vs EXCEPT ![n] = v]
<1>6. /\ us \in Seq(VersionType) /\ Len(us) = Len(vs)
      /\ \A i \in 1 .. Len(vs) : us[i] = IF i = n THEN v ELSE vs[i]
  BY <1>3, <1>5, ExceptSeq
<1>7. QED
  BY <1>1, <1>3, <1>4, <1>6, EmptySeq, LenProperties

\* A formal Version goes behind all others.
LEMMA AppendedVersions ==
  ASSUME NEW vs \in Seq(VersionType), NEW v \in VersionType
  PROVE  /\ Append(vs, v) \in Seq(VersionType)
         /\ Len(Append(vs, v)) = Len(vs) + 1 /\ Append(vs, v) # << >>
         /\ \A i \in 1 .. Len(vs) : Append(vs, v)[i] = vs[i]
         /\ Append(vs, v)[Len(vs) + 1] = v
BY AppendProperties, LenProperties, EmptySeq

\* Version and Candidate build rows of their types.
LEMMA RowTypes ==
  ASSUME NEW c \in Contents, NEW s \in Sources
  PROVE  /\ \A d \in BOOLEAN : Version(c, d, s) \in VersionType /\ Version(c, d, s).deleted = d
         /\ \A o \in Objects, b \in Nat : Candidate(o, b, c, s) \in CandidateType
BY DEF Version, VersionType, Candidate, CandidateType

\* The numbers of the formal Versions.
LEMMA BaseTypes ==
  ASSUME TypeOK, NEW o \in Objects
  PROVE  /\ versions[o] \in Seq(VersionType)
         /\ Base(o) \in Nat
         /\ Bound(o) => Base(o) \in 1 .. Base(o) /\ Current(o) \in VersionType
         /\ SubmissionBase(o) \in Nat
<1>1. versions[o] \in Seq(VersionType)
  BY DEF TypeOK
<1>2. Base(o) \in Nat
  BY <1>1, LenProperties DEF Base
<1>3. Bound(o) => Base(o) \in 1 .. Base(o)
  BY <1>1, <1>2, EmptySeq, LenProperties DEF Base, Bound
<1>4. Bound(o) => Current(o) \in VersionType
  BY <1>1, <1>3, ElementOfSeq DEF Base, Current
<1>5. QED
  BY <1>1, <1>2, <1>3, <1>4 DEF SubmissionBase

-----------------------------------------------------------------------------
(* Init *)

LEMMA InitInv == Init => IInv
<1> SUFFICES ASSUME Init PROVE IInv
  OBVIOUS
<1>1. TypeOK
  <2>1. versions \in [Objects -> Seq(VersionType)]
    BY EmptySeq DEF Init
  <2>2. reviews \in [Agents -> ReviewType]
    BY DEF Init, ReviewType
  <2>3. QED
    BY <2>1, <2>2 DEF Init, TypeOK
<1>2. ReferencesActive
  BY DEF Init, ReferencesActive, Active, Bound
<1>3. QED
  BY <1>1, <1>2 DEF Init, IInv, OnePendingPerKey, BasesExist, ReplacedOnlyWhenDecided

-----------------------------------------------------------------------------
(* Submission *)

\* What the batch leaves of each object's Versions: its first, or the same
\* Versions with one more Source.
LEMMA SubmittedVersions ==
  ASSUME TypeOK, NEW s \in Sources, NEW batch \in Batches,
         NEW first \in [{o \in DOMAIN batch : ~Bound(o)} -> Contents],
         Submit(s, batch, first), NEW o \in Objects
  PROVE  /\ versions'[o] \in Seq(VersionType)
         /\ Bound(o) => /\ Bound(o)' /\ Base(o)' = Base(o)
                        /\ \A i \in 1 .. Base(o) : versions'[o][i].deleted = versions[o][i].deleted
         /\ ~Bound(o) /\ o \in DOMAIN batch => Bound(o)' /\ Base(o)' = 1 /\ ~Current(o)'.deleted
         /\ ~Bound(o) /\ o \notin DOMAIN batch => ~Bound(o)'
<1>1. versions[o] \in Seq(VersionType) /\ (Bound(o) => Base(o) \in 1 .. Base(o))
  BY BaseTypes
<1>2. versions'[o] = IF o \in DOMAIN batch THEN Submitted(o, s, batch, first) ELSE versions[o]
  BY DEF Submit
<1>3. CASE Bound(o) /\ o \in DOMAIN batch /\ Active(o) /\ Current(o).content \in batch[o]
  <2>1. versions'[o] = Confirmed(versions[o], s)
    BY <1>2, <1>3 DEF Submitted
  <2>2. versions[o] # << >>
    BY <1>3 DEF Bound
  <2>3. QED
    BY <1>1, <1>3, <2>1, <2>2, ConfirmedVersions DEF Bound, Base
<1>4. CASE Bound(o) /\ ~(o \in DOMAIN batch /\ Active(o) /\ Current(o).content \in batch[o])
  <2>1. versions'[o] = versions[o]
    BY <1>2, <1>4 DEF Submitted
  <2>2. QED
    BY <1>1, <1>4, <2>1 DEF Bound, Base
<1>5. CASE ~Bound(o) /\ o \in DOMAIN batch
  <2> DEFINE v == Version(first[o], FALSE, s)
  <2>1. v \in VersionType /\ ~v.deleted
    BY <1>5, RowTypes
  <2>2. versions'[o] = <<v>>
    BY <1>2, <1>5 DEF Submitted
  <2> HIDE DEF v
  <2>3. <<v>> \in Seq(VersionType) /\ Len(<<v>>) = 1 /\ <<v>>[1] = v /\ <<v>> # << >>
    BY <2>1
  <2>4. QED
    BY <1>5, <2>1, <2>2, <2>3 DEF Bound, Base, Current
<1>6. CASE ~Bound(o) /\ o \notin DOMAIN batch
  BY <1>1, <1>2, <1>6 DEF Bound
<1>7. QED
  BY <1>3, <1>4, <1>5, <1>6

\* A Submission makes exactly the new identities of its batch active.
LEMMA SubmittedActive ==
  ASSUME TypeOK, NEW s \in Sources, NEW batch \in Batches,
         NEW first \in [{o \in DOMAIN batch : ~Bound(o)} -> Contents],
         Submit(s, batch, first), NEW o \in Objects
  PROVE  Active(o)' <=> Active(o) \/ (o \in DOMAIN batch /\ ~Bound(o))
<1>1. Bound(o) => Base(o) \in 1 .. Base(o)
  BY BaseTypes
<1>2. CASE Bound(o)
  BY <1>1, <1>2, SubmittedVersions DEF Active, Current
<1>3. CASE ~Bound(o)
  BY <1>3, SubmittedVersions DEF Active, Current
<1>4. QED
  BY <1>2, <1>3

\* Candidates of before, with one more Source or not, and the opened ones.
LEMMA SubmittedCandidates ==
  ASSUME TypeOK, NEW s \in Sources, NEW batch \in Batches,
         NEW first \in [{o \in DOMAIN batch : ~Bound(o)} -> Contents],
         Submit(s, batch, first), NEW j \in candidates'
  PROVE  /\ j \in CandidateType
         /\ \/ j \in Opened(s, batch, first)
            \/ \E k \in candidates :
                 /\ Key(j) = Key(k) /\ j.object = k.object /\ j.base = k.base
                 /\ j.content = k.content /\ j.resolvedBy = k.resolvedBy
                 /\ j = IF Reused(k, batch, first) THEN [k EXCEPT !.sources = @ \union {s}] ELSE k
<1>1. CASE j \in Opened(s, batch, first)
  <2>1. PICK o \in DOMAIN batch :
          \E c \in Unmatched(o, batch, first) : j = Candidate(o, SubmissionBase(o), c, s)
    BY <1>1 DEF Opened
  <2>2. PICK c \in Unmatched(o, batch, first) : j = Candidate(o, SubmissionBase(o), c, s)
    BY <2>1
  <2>3. o \in Objects /\ batch[o] \subseteq Contents
    BY BatchesAssumption
  <2>4. c \in Contents
    BY <2>3 DEF Unmatched, Conflicting
  <2>5. QED
    BY <1>1, <2>2, <2>3, <2>4, BaseTypes, RowTypes
<1>2. CASE j \notin Opened(s, batch, first)
  <2>1. PICK k \in candidates :
          j = IF Reused(k, batch, first) THEN [k EXCEPT !.sources = @ \union {s}] ELSE k
    BY <1>2 DEF Submit
  <2>2. k \in CandidateType
    BY DEF TypeOK
  <2>3. /\ j \in CandidateType /\ j.object = k.object /\ j.base = k.base
        /\ j.content = k.content /\ j.resolvedBy = k.resolvedBy
    BY <2>1, <2>2 DEF CandidateType
  <2>4. QED
    BY <2>1, <2>3 DEF Key
<1>3. QED
  BY <1>1, <1>2

\* An opened Candidate, its place and what it does not repeat.
LEMMA OpenedCandidates ==
  ASSUME TypeOK, NEW s \in Sources, NEW batch \in Batches, NEW first,
         NEW j \in Opened(s, batch, first)
  PROVE  /\ j.object \in DOMAIN batch /\ j.object \in Objects
         /\ j.base = SubmissionBase(j.object)
         /\ j = Candidate(j.object, j.base, j.content, s)
         /\ \A k \in candidates : k.resolvedBy = Pending => Key(k) # Key(j)
<1>1. PICK o \in DOMAIN batch :
        \E c \in Unmatched(o, batch, first) : j = Candidate(o, SubmissionBase(o), c, s)
  BY DEF Opened
<1>2. PICK c \in Unmatched(o, batch, first) : j = Candidate(o, SubmissionBase(o), c, s)
  BY <1>1
<1>3. j.object = o /\ j.base = SubmissionBase(o) /\ j.content = c
  BY <1>2 DEF Candidate
<1>4. \A k \in candidates : k.resolvedBy = Pending => Key(k) # Key(j)
  BY <1>3 DEF Unmatched, PendingAt, Key
<1>5. QED
  BY <1>2, <1>3, <1>4, BatchesAssumption

LEMMA SubmitInv ==
  ASSUME IInv, NEW s \in Sources, NEW batch \in Batches,
         NEW first \in [{o \in DOMAIN batch : ~Bound(o)} -> Contents],
         Submit(s, batch, first)
  PROVE  IInv'
<1> USE DEF IInv
<1>1. TypeOK'
  <2>1. versions' \in [Objects -> Seq(VersionType)]
    BY SubmittedVersions DEF Submit
  <2>2. candidates' \subseteq CandidateType
    BY SubmittedCandidates
  <2>3. DOMAIN answers' = Sources /\ reviews' \in [Agents -> ReviewType]
    BY DEF Submit, TypeOK
  <2>4. QED
    BY <2>1, <2>2, <2>3 DEF TypeOK
<1>2. ReferencesActive'
  <2>1. SUFFICES ASSUME NEW o \in Objects, Active(o)', NEW r \in Refs[o]
                 PROVE  Active(r)'
    BY DEF ReferencesActive
  <2>2. r \in Objects
    BY RefsAssumption
  <2>3. CASE Active(o)
    BY <2>2, <2>3, SubmittedActive DEF ReferencesActive
  <2>4. CASE o \in DOMAIN batch /\ ~Bound(o)
    <3>1. Active(r) \/ (r \in DOMAIN batch /\ ~Bound(r))
      BY <2>4 DEF Submit, Acceptable
    <3>2. QED
      BY <2>2, <3>1, SubmittedActive
  <2>5. QED
    BY <2>1, <2>3, <2>4, SubmittedActive
<1>3. OnePendingPerKey'
  <2>1. SUFFICES ASSUME NEW j \in candidates', NEW k \in candidates',
                        j.resolvedBy = Pending, k.resolvedBy = Pending, Key(j) = Key(k)
                 PROVE  j = k
    BY DEF OnePendingPerKey, Key
  <2>2. CASE j \in Opened(s, batch, first) /\ k \in Opened(s, batch, first)
    BY <2>1, <2>2, OpenedCandidates DEF Key
  <2>3. CASE j \in Opened(s, batch, first) /\ k \notin Opened(s, batch, first)
    BY <2>1, <2>3, OpenedCandidates, SubmittedCandidates
  <2>4. CASE j \notin Opened(s, batch, first) /\ k \in Opened(s, batch, first)
    BY <2>1, <2>4, OpenedCandidates, SubmittedCandidates
  <2>5. CASE j \notin Opened(s, batch, first) /\ k \notin Opened(s, batch, first)
    <3>1. PICK p \in candidates :
            /\ Key(j) = Key(p) /\ j.resolvedBy = p.resolvedBy
            /\ j = IF Reused(p, batch, first) THEN [p EXCEPT !.sources = @ \union {s}] ELSE p
      BY <2>5, SubmittedCandidates
    <3>2. PICK q \in candidates :
            /\ Key(k) = Key(q) /\ k.resolvedBy = q.resolvedBy
            /\ k = IF Reused(q, batch, first) THEN [q EXCEPT !.sources = @ \union {s}] ELSE q
      BY <2>5, SubmittedCandidates
    <3>3. p = q
      BY <2>1, <3>1, <3>2 DEF OnePendingPerKey
    <3>4. QED
      BY <3>1, <3>2, <3>3
  <2>6. QED
    BY <2>2, <2>3, <2>4, <2>5
<1>4. \A k \in candidates' :
        /\ k.object \in Objects
        /\ k.base \in 1 .. Base(k.object)'
        /\ k.base < Base(k.object)' => Bound(k.object) /\ k \notin Opened(s, batch, first)
  <2>1. SUFFICES ASSUME NEW k \in candidates'
                 PROVE  /\ k.object \in Objects
                        /\ k.base \in 1 .. Base(k.object)'
                        /\ k.base < Base(k.object)' => Bound(k.object) /\ k \notin Opened(s, batch, first)
    OBVIOUS
  <2>2. k.object \in Objects
    BY SubmittedCandidates DEF CandidateType
  <2>3. CASE k \in Opened(s, batch, first)
    <3>1. k.object \in DOMAIN batch /\ k.base = SubmissionBase(k.object)
      BY <2>3, OpenedCandidates
    <3>2. k.base \in 1 .. Base(k.object)' /\ ~(k.base < Base(k.object)')
      BY <2>2, <3>1, SubmittedVersions, BaseTypes DEF SubmissionBase
    <3>3. QED
      BY <2>2, <3>2
  <2>4. CASE k \notin Opened(s, batch, first)
    <3>1. PICK p \in candidates : k.object = p.object /\ k.base = p.base
      BY <2>4, SubmittedCandidates
    <3>2. k.base \in 1 .. Base(k.object)
      BY <3>1 DEF BasesExist
    <3>3. Bound(k.object)
      BY <2>2, <3>2, BaseTypes, EmptySeq DEF Bound, Base
    <3>4. QED
      BY <2>2, <2>4, <3>2, <3>3, SubmittedVersions
  <2>5. QED
    BY <2>3, <2>4
<1>5. BasesExist'
  BY <1>4 DEF BasesExist
<1>6. ReplacedOnlyWhenDecided'
  <2>1. SUFFICES ASSUME NEW k \in candidates', k.resolvedBy = Pending, k.base < Base(k.object)'
                 PROVE  versions'[k.object][k.base + 1].deleted
    BY DEF ReplacedOnlyWhenDecided
  <2>2. k.object \in Objects /\ Bound(k.object) /\ k \notin Opened(s, batch, first)
    BY <1>4, <2>1
  <2>3. PICK p \in candidates : k.object = p.object /\ k.base = p.base /\ k.resolvedBy = p.resolvedBy
    BY <2>2, SubmittedCandidates
  <2>4. Base(k.object)' = Base(k.object) /\ Base(k.object) \in Nat
    BY <2>2, SubmittedVersions, BaseTypes
  <2>5. k.base \in Nat /\ k.base + 1 \in 1 .. Base(k.object)
    BY <2>1, <2>3, <2>4 DEF BasesExist
  <2>6. versions[k.object][k.base + 1].deleted
    BY <2>1, <2>3, <2>4 DEF ReplacedOnlyWhenDecided
  <2>7. QED
    BY <2>2, <2>5, <2>6, SubmittedVersions
<1>7. QED
  BY <1>1, <1>2, <1>3, <1>5, <1>6

-----------------------------------------------------------------------------
(* Resolution and Deletion *)

\* What a finished review holds.
LEMMA ReadReviews ==
  ASSUME TypeOK, NEW a \in Agents, reviews[a].pc = "read"
  PROVE  reviews[a].object \in Objects /\ reviews[a].base \in Nat
<1>1. reviews[a] \in ReviewType
  BY DEF TypeOK
<1>2. CASE reviews[a] = NoReview
  BY <1>2 DEF NoReview
<1>3. CASE reviews[a] \in [pc : {"reading"}, object : Objects, base : Nat]
  BY <1>3
<1>4. CASE reviews[a] \in [pc : {"read"}, object : Objects, base : Nat,
                          expected : SUBSET [content : Contents, sources : SUBSET Sources]]
  BY <1>4
<1>5. QED
  BY <1>1, <1>2, <1>3, <1>4 DEF ReviewType

\* A Resolution touches the Versions of its object alone and leaves it active.
LEMMA ResolvedVersions ==
  ASSUME TypeOK, NEW a \in Agents, NEW s \in Sources, NEW final \in Contents,
         Resolve(a, s, final), NEW o, o = reviews[a].object
  PROVE  /\ o \in Objects /\ Active(o)'
         /\ versions' \in [Objects -> Seq(VersionType)]
         /\ \A q \in Objects : q # o => versions'[q] = versions[q]
         /\ Base(o)' \in {Base(o), Base(o) + 1}
         /\ \A i \in 1 .. Base(o) : versions'[o][i].deleted = versions[o][i].deleted
<1> DEFINE keeps == Active(o) /\ Current(o).content = final
           new == Version(final, FALSE, s)
<1>1. o \in Objects
  BY ReadReviews DEF Resolve
<1>2. versions[o] \in Seq(VersionType) /\ Base(o) \in Nat /\ (Bound(o) => Base(o) \in 1 .. Base(o))
  BY <1>1, BaseTypes
<1>3. new \in VersionType /\ ~new.deleted
  BY RowTypes
<1>4. versions' = [versions EXCEPT ![o] =
        IF keeps THEN Confirmed(@, s) ELSE Append(@, new)]
  BY DEF Resolve
<1>5. versions'[o] = IF keeps THEN Confirmed(versions[o], s) ELSE Append(versions[o], new)
  BY <1>1, <1>4 DEF TypeOK
<1>6. \A q \in Objects : q # o => versions'[q] = versions[q]
  BY <1>4 DEF TypeOK
<1>7. /\ versions'[o] \in Seq(VersionType) /\ Active(o)' /\ Base(o)' \in {Base(o), Base(o) + 1}
      /\ \A i \in 1 .. Base(o) : versions'[o][i].deleted = versions[o][i].deleted
  <2> HIDE DEF new
  <2>1. CASE keeps
    <3>1. versions[o] # << >> /\ versions'[o] = Confirmed(versions[o], s)
      BY <1>5, <2>1 DEF Active, Bound
    <3>2. /\ versions'[o] \in Seq(VersionType) /\ versions'[o] # << >>
          /\ Len(versions'[o]) = Len(versions[o])
          /\ \A i \in 1 .. Len(versions[o]) : versions'[o][i].deleted = versions[o][i].deleted
      BY <1>2, <3>1, ConfirmedVersions
    <3>3. Base(o)' = Base(o) /\ Base(o) \in 1 .. Base(o)
      BY <1>2, <3>1, <3>2 DEF Base, Bound
    <3>4. Active(o)'
      BY <2>1, <3>2, <3>3 DEF Active, Bound, Base, Current
    <3>5. QED
      BY <3>2, <3>3, <3>4 DEF Base
  <2>2. CASE ~keeps
    <3>1. versions'[o] = Append(versions[o], new)
      BY <1>5, <2>2
    <3>2. /\ versions'[o] \in Seq(VersionType) /\ versions'[o] # << >>
          /\ Len(versions'[o]) = Len(versions[o]) + 1
          /\ \A i \in 1 .. Len(versions[o]) : versions'[o][i] = versions[o][i]
          /\ versions'[o][Len(versions[o]) + 1] = new
      <4>1. /\ Append(versions[o], new) \in Seq(VersionType) /\ Append(versions[o], new) # << >>
            /\ Len(Append(versions[o], new)) = Len(versions[o]) + 1
            /\ \A i \in 1 .. Len(versions[o]) : Append(versions[o], new)[i] = versions[o][i]
            /\ Append(versions[o], new)[Len(versions[o]) + 1] = new
        BY <1>2, <1>3, AppendedVersions
      <4>2. QED
        BY <3>1, <4>1, Zenon
    <3>3. Base(o)' = Base(o) + 1
      BY <3>2 DEF Base
    <3>4. Active(o)'
      BY <1>3, <3>2 DEF Active, Bound, Base, Current
    <3>5. QED
      BY <3>2, <3>3, <3>4 DEF Base
  <2>3. QED
    BY <2>1, <2>2
<1>8. versions' \in [Objects -> Seq(VersionType)]
  BY <1>4, <1>6, <1>7 DEF TypeOK
<1>9. QED
  BY <1>1, <1>6, <1>7, <1>8

\* A Deletion touches the Versions of its object alone, leaves it inactive
\* and puts a tombstone on the Version it replaces.
LEMMA DeletedVersions ==
  ASSUME TypeOK, NEW s \in Sources, NEW o \in Objects, NEW expected, Delete(s, o, expected)
  PROVE  /\ ~Active(o)'
         /\ versions' \in [Objects -> Seq(VersionType)]
         /\ \A q \in Objects : q # o => versions'[q] = versions[q]
         /\ Base(o)' \in {Base(o), Base(o) + 1}
         /\ \A i \in 1 .. Base(o) : versions'[o][i].deleted = versions[o][i].deleted
         /\ Base(o)' = Base(o) + 1 => versions'[o][Base(o) + 1].deleted
<1> DEFINE new == Version(Current(o).content, TRUE, s)
<1>1. /\ versions[o] \in Seq(VersionType) /\ Base(o) \in Nat /\ Bound(o)
      /\ Base(o) \in 1 .. Base(o) /\ Current(o) \in VersionType
  BY BaseTypes DEF Delete
<1>2. new \in VersionType /\ new.deleted
  <2>1. Current(o).content \in Contents
    BY <1>1 DEF VersionType
  <2>2. QED
    BY <2>1, RowTypes
<1>3. versions' = [versions EXCEPT ![o] =
        IF Active(o) THEN Append(@, new) ELSE Confirmed(@, s)]
  BY DEF Delete
<1>4. versions'[o] = IF Active(o) THEN Append(versions[o], new) ELSE Confirmed(versions[o], s)
  BY <1>3 DEF TypeOK
<1>5. \A q \in Objects : q # o => versions'[q] = versions[q]
  BY <1>3 DEF TypeOK
<1>6. /\ versions'[o] \in Seq(VersionType) /\ ~Active(o)' /\ Base(o)' \in {Base(o), Base(o) + 1}
      /\ \A i \in 1 .. Base(o) : versions'[o][i].deleted = versions[o][i].deleted
      /\ Base(o)' = Base(o) + 1 => versions'[o][Base(o) + 1].deleted
  <2> HIDE DEF new
  <2>1. CASE Active(o)
    BY <1>1, <1>2, <1>4, <2>1, AppendedVersions DEF Active, Bound, Base, Current
  <2>2. CASE ~Active(o)
    BY <1>1, <1>4, <2>2, ConfirmedVersions DEF Active, Bound, Base, Current
  <2>3. QED
    BY <2>1, <2>2
<1>7. versions' \in [Objects -> Seq(VersionType)]
  BY <1>3, <1>5, <1>6 DEF TypeOK
<1>8. QED
  BY <1>5, <1>6, <1>7

\* A Resolution decides every Candidate that is pending against Current, and
\* each one just as the Agent has read it.
LEMMA ResolvedCandidates ==
  ASSUME TypeOK, NEW a \in Agents, NEW s \in Sources, NEW final \in Contents,
         Resolve(a, s, final), NEW o, o = reviews[a].object
  PROVE  /\ candidates' = {IF Decided(k, reviews[a]) THEN [k EXCEPT !.resolvedBy = s] ELSE k :
                             k \in candidates}
         /\ reviews[a].base = Base(o)
         /\ \A k \in PendingAt(o, Base(o)) :
              /\ Decided(k, reviews[a])
              /\ [content |-> k.content, sources |-> k.sources] \in reviews[a].expected
<1>1. /\ candidates' = {IF Decided(k, reviews[a]) THEN [k EXCEPT !.resolvedBy = s] ELSE k :
                          k \in candidates}
      /\ StillConflict(reviews[a])
  BY DEF Resolve
<1>2. reviews[a].base = Base(o) /\ reviews[a].expected = Expectations(o, Base(o))
  BY <1>1 DEF StillConflict
<1>3. SUFFICES ASSUME NEW k \in PendingAt(o, Base(o))
               PROVE  /\ Decided(k, reviews[a])
                      /\ [content |-> k.content, sources |-> k.sources] \in reviews[a].expected
  BY <1>1, <1>2
<1> DEFINE x == [content |-> k.content, sources |-> k.sources]
<1>4. x \in reviews[a].expected /\ x.content = k.content
  BY <1>2 DEF Expectations
<1> HIDE DEF x
<1>5. Decided(k, reviews[a])
  BY <1>2, <1>4 DEF Decided
<1>6. QED
  BY <1>4, <1>5 DEF x

\* The rows of Candidates after a Resolution; what is pending is unchanged.
LEMMA ResolvedRows ==
  ASSUME TypeOK, NEW a \in Agents, NEW s \in Sources, NEW final \in Contents,
         Resolve(a, s, final), NEW j \in candidates'
  PROVE  /\ j \in CandidateType
         /\ \E k \in candidates : j.object = k.object /\ j.base = k.base
         /\ j.resolvedBy = Pending => j \in candidates /\ ~Decided(j, reviews[a])
<1>1. PICK k \in candidates :
        j = IF Decided(k, reviews[a]) THEN [k EXCEPT !.resolvedBy = s] ELSE k
  BY ResolvedCandidates
<1>2. k \in CandidateType
  BY DEF TypeOK
<1>3. j \in CandidateType /\ j.object = k.object /\ j.base = k.base
  BY <1>1, <1>2 DEF CandidateType
<1>4. j.resolvedBy = Pending => j = k /\ ~Decided(k, reviews[a])
  BY <1>1, <1>2, SourcesAssumption DEF CandidateType
<1>5. QED
  BY <1>3, <1>4

LEMMA ResolveInv ==
  ASSUME IInv, NEW a \in Agents, NEW s \in Sources, NEW final \in Contents,
         Resolve(a, s, final)
  PROVE  IInv'
<1> USE DEF IInv
<1>0. PICK o : o = reviews[a].object
  OBVIOUS
<1>1. /\ o \in Objects /\ Active(o)'
      /\ versions' \in [Objects -> Seq(VersionType)]
      /\ \A q \in Objects : q # o => versions'[q] = versions[q]
      /\ Base(o)' \in {Base(o), Base(o) + 1}
      /\ \A i \in 1 .. Base(o) : versions'[o][i].deleted = versions[o][i].deleted
  BY <1>0, ResolvedVersions
<1>2. \A q \in Objects : q # o => Base(q)' = Base(q) /\ (Active(q)' <=> Active(q))
  BY <1>1 DEF Base, Active, Bound, Current
<1>3. TypeOK'
  <2>1. candidates' \subseteq CandidateType
    BY ResolvedRows
  <2>2. DOMAIN answers' = Sources /\ reviews' \in [Agents -> ReviewType]
    BY DEF Resolve, TypeOK, ReviewType
  <2>3. QED
    BY <1>1, <2>1, <2>2 DEF TypeOK
<1>4. ReferencesActive'
  <2>1. SUFFICES ASSUME NEW q \in Objects, Active(q)', NEW r \in Refs[q]
                 PROVE  Active(r)'
    BY DEF ReferencesActive
  <2>2. r \in Objects
    BY RefsAssumption
  <2>3. CASE q = o
    <3>1. Active(r)
      BY <1>0, <2>3 DEF Resolve, StillConflict
    <3>2. QED
      BY <1>1, <1>2, <2>2, <3>1
  <2>4. CASE q # o
    BY <1>1, <1>2, <2>1, <2>2, <2>4 DEF ReferencesActive
  <2>5. QED
    BY <2>3, <2>4
<1>5. OnePendingPerKey'
  BY ResolvedRows DEF OnePendingPerKey, Key
<1>6. \A k \in candidates' : k.object \in Objects /\ k.base \in 1 .. Base(k.object)
  BY ResolvedRows DEF BasesExist, CandidateType
<1>7. \A q \in Objects : Base(q) \in Nat
  BY BaseTypes
<1>8. BasesExist'
  <2>1. SUFFICES ASSUME NEW k \in candidates' PROVE k.base \in 1 .. Base(k.object)'
    BY DEF BasesExist
  <2>2. CASE k.object = o
    BY <1>1, <1>6, <1>7, <2>2
  <2>3. CASE k.object # o
    BY <1>2, <1>6, <2>3
  <2>4. QED
    BY <2>2, <2>3
<1>9. ReplacedOnlyWhenDecided'
  <2>1. SUFFICES ASSUME NEW k \in candidates', k.resolvedBy = Pending, k.base < Base(k.object)'
                 PROVE  versions'[k.object][k.base + 1].deleted
    BY DEF ReplacedOnlyWhenDecided
  <2>2. /\ k \in candidates /\ ~Decided(k, reviews[a])
        /\ k.object \in Objects /\ k.base \in 1 .. Base(k.object) /\ Base(k.object) \in Nat
    BY <1>6, <1>7, <2>1, ResolvedRows
  <2>3. CASE k.object # o
    BY <1>1, <1>2, <2>1, <2>2, <2>3 DEF ReplacedOnlyWhenDecided
  <2>4. CASE k.object = o
    <3>1. k.base # Base(o)
      BY <1>0, <2>1, <2>2, <2>4, ResolvedCandidates DEF PendingAt
    <3>2. k.base < Base(o) /\ k.base + 1 \in 1 .. Base(o)
      BY <2>2, <2>4, <3>1
    <3>3. versions[o][k.base + 1].deleted
      BY <2>1, <2>2, <2>4, <3>2 DEF ReplacedOnlyWhenDecided
    <3>4. QED
      BY <1>1, <2>4, <3>2, <3>3
  <2>5. QED
    BY <2>3, <2>4
<1>10. QED
  BY <1>3, <1>4, <1>5, <1>8, <1>9

LEMMA DeleteInv ==
  ASSUME IInv, NEW s \in Sources, NEW o \in Objects, NEW expected, Delete(s, o, expected)
  PROVE  IInv'
<1> USE DEF IInv
<1>1. /\ ~Active(o)'
      /\ versions' \in [Objects -> Seq(VersionType)]
      /\ \A q \in Objects : q # o => versions'[q] = versions[q]
      /\ Base(o)' \in {Base(o), Base(o) + 1}
      /\ \A i \in 1 .. Base(o) : versions'[o][i].deleted = versions[o][i].deleted
      /\ Base(o)' = Base(o) + 1 => versions'[o][Base(o) + 1].deleted
  BY DeletedVersions
<1>2. \A q \in Objects : q # o => Base(q)' = Base(q) /\ (Active(q)' <=> Active(q))
  BY <1>1 DEF Base, Active, Bound, Current
<1>3. candidates' = candidates /\ reviews' = reviews /\ DOMAIN answers' = Sources
  BY DEF Delete, TypeOK
<1>4. TypeOK'
  BY <1>1, <1>3 DEF TypeOK
<1>5. ReferencesActive'
  <2>1. SUFFICES ASSUME NEW q \in Objects, Active(q)', NEW r \in Refs[q]
                 PROVE  Active(r)'
    BY DEF ReferencesActive
  <2>2. r \in Objects /\ q # o /\ Active(q) /\ Active(r)
    BY <1>1, <1>2, <2>1, RefsAssumption DEF ReferencesActive
  <2>3. r # o
    BY <2>2 DEF Delete, Dependents
  <2>4. QED
    BY <1>2, <2>2, <2>3
<1>6. OnePendingPerKey'
  BY <1>3 DEF OnePendingPerKey, Key
<1>7. \A k \in candidates :
        k.object \in Objects /\ k.base \in 1 .. Base(k.object) /\ Base(k.object) \in Nat
  BY BaseTypes DEF BasesExist, TypeOK, CandidateType
<1>8. BasesExist'
  <2>1. SUFFICES ASSUME NEW k \in candidates PROVE k.base \in 1 .. Base(k.object)'
    BY <1>3 DEF BasesExist
  <2>2. CASE k.object = o
    BY <1>1, <1>7, <2>2
  <2>3. CASE k.object # o
    BY <1>2, <1>7, <2>3
  <2>4. QED
    BY <2>2, <2>3
<1>9. ReplacedOnlyWhenDecided'
  <2>1. SUFFICES ASSUME NEW k \in candidates, k.resolvedBy = Pending, k.base < Base(k.object)'
                 PROVE  versions'[k.object][k.base + 1].deleted
    BY <1>3 DEF ReplacedOnlyWhenDecided
  <2>2. CASE k.object # o
    BY <1>1, <1>2, <1>7, <2>1, <2>2 DEF ReplacedOnlyWhenDecided
  <2>3. CASE k.object = o /\ k.base = Base(o)
    BY <1>1, <1>7, <2>1, <2>3
  <2>4. CASE k.object = o /\ k.base # Base(o)
    <3>1. k.base < Base(o) /\ k.base + 1 \in 1 .. Base(o)
      BY <1>7, <2>4
    <3>2. versions[o][k.base + 1].deleted
      BY <2>1, <2>4, <3>1 DEF ReplacedOnlyWhenDecided
    <3>3. QED
      BY <1>1, <2>4, <3>1, <3>2
  <2>5. QED
    BY <2>2, <2>3, <2>4
<1>10. QED
  BY <1>4, <1>5, <1>6, <1>8, <1>9

-----------------------------------------------------------------------------
(* Reviews and steps of nobody *)

\* A step that leaves Versions and Candidates alone.
LEMMA ReviewInv ==
  ASSUME IInv, UNCHANGED <<versions, candidates, answers>>, reviews' \in [Agents -> ReviewType]
  PROVE  IInv'
<1>1. TypeOK'
  BY DEF IInv, TypeOK
<1>2. ReferencesActive' /\ OnePendingPerKey' /\ BasesExist' /\ ReplacedOnlyWhenDecided'
  BY DEF IInv, ReferencesActive, OnePendingPerKey, BasesExist, ReplacedOnlyWhenDecided,
         Active, Bound, Current, Base, Key
<1>3. QED
  BY <1>1, <1>2 DEF IInv

LEMMA BeginReviewInv ==
  ASSUME IInv, NEW a \in Agents, NEW o \in Objects, BeginReview(a, o)
  PROVE  IInv'
<1> DEFINE r == [pc |-> "reading", object |-> o, base |-> Base(o)]
<1>1. r \in ReviewType
  BY BaseTypes DEF IInv, ReviewType
<1> HIDE DEF r
<1>2. reviews' = [reviews EXCEPT ![a] = r]
  BY DEF BeginReview, r
<1>3. reviews' \in [Agents -> ReviewType]
  BY <1>1, <1>2 DEF IInv, TypeOK
<1>4. QED
  BY <1>3, ReviewInv DEF BeginReview

LEMMA FinishReviewInv ==
  ASSUME IInv, NEW a \in Agents, FinishReview(a)
  PROVE  IInv'
<1> DEFINE o == reviews[a].object
           base == reviews[a].base
           r == [pc |-> "read", object |-> o, base |-> base, expected |-> Expectations(o, base)]
<1>1. o \in Objects /\ base \in Nat
  <2>1. reviews[a] \in ReviewType /\ reviews[a].pc = "reading"
    BY DEF IInv, TypeOK, FinishReview
  <2>2. CASE reviews[a] = NoReview
    BY <2>1, <2>2 DEF NoReview
  <2>3. CASE reviews[a] \in [pc : {"reading"}, object : Objects, base : Nat]
    BY <2>3
  <2>4. CASE reviews[a] \in [pc : {"read"}, object : Objects, base : Nat,
                            expected : SUBSET [content : Contents, sources : SUBSET Sources]]
    BY <2>1, <2>4
  <2>5. QED
    BY <2>1, <2>2, <2>3, <2>4 DEF ReviewType
<1>2. Expectations(o, base) \subseteq [content : Contents, sources : SUBSET Sources]
  BY DEF IInv, TypeOK, CandidateType, Expectations, PendingAt
<1>3. r \in ReviewType /\ NoReview \in ReviewType
  BY <1>1, <1>2 DEF ReviewType
<1>4. reviews' = [reviews EXCEPT ![a] = IF PendingAt(o, base) = {} THEN NoReview ELSE r]
  BY DEF FinishReview
<1> HIDE DEF r
<1>5. reviews' \in [Agents -> ReviewType]
  BY <1>3, <1>4 DEF IInv, TypeOK
<1>6. QED
  BY <1>5, ReviewInv DEF FinishReview

LEMMA RejectResolutionInv ==
  ASSUME IInv, NEW a \in Agents, RejectResolution(a)
  PROVE  IInv'
<1>1. reviews' \in [Agents -> ReviewType]
  BY DEF IInv, TypeOK, RejectResolution, ReviewType
<1>2. QED
  BY <1>1, ReviewInv DEF RejectResolution

-----------------------------------------------------------------------------
(* Theorems *)

LEMMA NextInv == IInv /\ [Next]_vars => IInv'
<1> SUFFICES ASSUME IInv, [Next]_vars PROVE IInv'
  OBVIOUS
<1>1. ASSUME NEW s \in Sources, NEW batch \in Batches,
             NEW first \in [{o \in DOMAIN batch : ~Bound(o)} -> Contents],
             Submit(s, batch, first)
      PROVE  IInv'
  BY <1>1, SubmitInv
<1>2. ASSUME NEW a \in Agents, NEW o \in Objects, BeginReview(a, o) PROVE IInv'
  BY <1>2, BeginReviewInv
<1>3. ASSUME NEW a \in Agents, FinishReview(a) PROVE IInv'
  BY <1>3, FinishReviewInv
<1>4. ASSUME NEW a \in Agents, NEW s \in Sources, NEW final \in Contents, Resolve(a, s, final)
      PROVE  IInv'
  BY <1>4, ResolveInv
<1>5. ASSUME NEW a \in Agents, RejectResolution(a) PROVE IInv'
  BY <1>5, RejectResolutionInv
<1>6. ASSUME NEW s \in Sources, NEW o \in Objects, NEW expected \in 1 .. Base(o), Delete(s, o, expected)
      PROVE  IInv'
  BY <1>6, DeleteInv
<1>7. CASE UNCHANGED vars
  BY <1>7, ReviewInv DEF vars, IInv, TypeOK
<1>8. QED
  BY <1>1, <1>2, <1>3, <1>4, <1>5, <1>6, <1>7 DEF Next, Steps

\* The invariant holds in every state of the store.
THEOREM Invariance == Spec => []IInv
BY InitInv, NextInv, PTL DEF Spec

\* Every stored row, answer and review has its shape.
THEOREM TypeCorrect == Spec => []TypeOK
BY Invariance, PTL DEF IInv

\* No Submission, Resolution or Deletion leaves an active Relation or Claim
\* without what it refers to: requireActiveRelationEndpoints, resolveSubject
\* and ActiveRelations check enough.
THEOREM ReferencesCorrect == Spec => []ReferencesActive
BY Invariance, PTL DEF IInv

\* ResolveEntityCandidate never meets two pending rows of one key.
THEOREM KeysCorrect == Spec => []OnePendingPerKey
BY Invariance, PTL DEF IInv

\* A Version with pending Candidates is replaced by a tombstone only.
THEOREM ReplacementCorrect == Spec => []ReplacedOnlyWhenDecided
BY Invariance, PTL DEF IInv

\* A pending Candidate that a Submission supports stays pending.
LEMMA SubmitKeepsPending ==
  ASSUME TypeOK, NEW s \in Sources, NEW batch, NEW first, Submit(s, batch, first),
         NEW k \in candidates, k.resolvedBy = Pending
  PROVE  \E j \in candidates' : j.resolvedBy = Pending /\ Key(j) = Key(k) /\ j.openedBy = k.openedBy
<1> DEFINE j == IF Reused(k, batch, first) THEN [k EXCEPT !.sources = @ \union {s}] ELSE k
<1>1. j \in candidates'
  BY DEF Submit
<1>2. k \in CandidateType
  BY DEF TypeOK
<1>3. j.resolvedBy = Pending /\ Key(j) = Key(k) /\ j.openedBy = k.openedBy
  BY <1>2 DEF CandidateType, Key
<1>4. QED
  BY <1>1, <1>3

LEMMA NextDecides == TypeOK /\ [Next]_vars => [DecidedAsRead]_vars
<1> SUFFICES ASSUME TypeOK, Next PROVE DecidedAsRead
  OBVIOUS
<1>1. ASSUME NEW s \in Sources, NEW batch \in Batches,
             NEW first \in [{o \in DOMAIN batch : ~Bound(o)} -> Contents],
             Submit(s, batch, first)
      PROVE  DecidedAsRead
  BY <1>1, SubmitKeepsPending DEF DecidedAsRead
<1>2. ASSUME NEW a \in Agents, NEW s \in Sources, NEW final \in Contents, Resolve(a, s, final)
      PROVE  DecidedAsRead
  <2>1. SUFFICES ASSUME NEW k \in candidates, k \notin candidates', k.resolvedBy = Pending
                 PROVE  /\ reviews[a].pc = "read" /\ reviews[a].object = k.object
                        /\ reviews[a].base = k.base /\ k.base = Base(k.object)
                        /\ [content |-> k.content, sources |-> k.sources] \in reviews[a].expected
    BY DEF DecidedAsRead
  <2>2. PICK o : o = reviews[a].object
    OBVIOUS
  <2>3. Decided(k, reviews[a])
    BY <1>2, <2>1, ResolvedCandidates
  <2>4. reviews[a].base = Base(o)
    BY <1>2, <2>2, ResolvedCandidates
  <2>5. k \in PendingAt(o, Base(o)) /\ k.object = o /\ k.base = Base(o)
    BY <2>2, <2>3, <2>4 DEF Decided, PendingAt
  <2>6. [content |-> k.content, sources |-> k.sources] \in reviews[a].expected
    BY <1>2, <2>2, <2>5, ResolvedCandidates
  <2>7. QED
    BY <1>2, <2>2, <2>4, <2>5, <2>6 DEF Resolve
<1>3. CASE candidates' = candidates
  BY <1>3 DEF DecidedAsRead
<1>4. QED
  BY <1>1, <1>2, <1>3 DEF Next, Steps, BeginReview, FinishReview, RejectResolution, Delete

\* Whatever is submitted between the review and the decision, no Candidate is
\* decided that the Agent has not read as it is.
THEOREM ReviewCorrect == Spec => ResolvedAsReviewed
BY TypeCorrect, NextDecides, PTL DEF Spec, ResolvedAsReviewed

-----------------------------------------------------------------------------
(* Repeated Sources *)

Places == UNION {{o} \X (1 .. Base(o)) : o \in Objects}

\* What a Source has made and confirmed, opened and supported, in its four parts.
CreatedOf(s) ==
  {p \in Places : /\ s \in versions[p[1]][p[2]].sources
                  /\ versions[p[1]][p[2]].createdBy = s}
ConfirmedOf(s) ==
  {p \in Places : /\ s \in versions[p[1]][p[2]].sources
                  /\ versions[p[1]][p[2]].createdBy # s}
OpenedOf(s) == {Key(k) : k \in {k \in candidates : s \in k.sources /\ k.openedBy = s}}
ReusedOf(s) == {Key(k) : k \in {k \in candidates : s \in k.sources /\ k.openedBy # s}}

\* A Source that has not been accepted is nowhere in the store.
Silent(s) ==
  /\ \A o \in Objects : \A i \in 1 .. Base(o) :
       s \notin versions[o][i].sources /\ versions[o][i].createdBy # s
  /\ \A k \in candidates : s \notin k.sources /\ k.openedBy # s

ReplayInv ==
  \A s \in Sources :
    IF answers[s] = Unused THEN Silent(s) ELSE StoredAnswer(s) = answers[s]

\* A transaction of Source s adds a Version to each object of made, confirms
\* Current of each object of confirmed, and leaves the others.
VersionsStep(s, made, confirmed) ==
  \A o \in Objects :
    /\ o \in made =>
         \E v \in VersionType :
           v.sources = {s} /\ v.createdBy = s /\ versions'[o] = Append(versions[o], v)
    /\ o \in confirmed =>
         o \notin made /\ Bound(o) /\ versions'[o] = Confirmed(versions[o], s)
    /\ o \notin made \union confirmed => versions'[o] = versions[o]

Supported(j, k, s, reused) ==
  /\ Key(j) = Key(k) /\ j.openedBy = k.openedBy
  /\ j.sources = IF k \in reused THEN k.sources \union {s} ELSE k.sources

\* It supports the Candidates of reused, opens those of opened, and keeps
\* every other one, resolved or not.
CandidatesStep(s, reused, opened) ==
  /\ reused \subseteq candidates /\ opened \subseteq candidates'
  /\ \A j \in opened : j.sources = {s} /\ j.openedBy = s
  /\ \A k \in candidates : \E j \in candidates' : Supported(j, k, s, reused)
  /\ \A j \in candidates' \ opened : \E k \in candidates : Supported(j, k, s, reused)

InParts ==
  \A s : StoredAnswer(s) =
    Answer(answers[s].kind, CreatedOf(s), ConfirmedOf(s), OpenedOf(s), ReusedOf(s))

LEMMA StoredAnswerParts == InParts
<1> SUFFICES ASSUME NEW s
             PROVE  StoredAnswer(s) =
               Answer(answers[s].kind, CreatedOf(s), ConfirmedOf(s), OpenedOf(s), ReusedOf(s))
  BY DEF InParts
<1>1. \A p : p \in UNION {{o} \X (1..Base(o)) : o \in Objects} <=> p \in Places
  BY DEF Places
<1> DEFINE formal == {p \in UNION {{o} \X (1..Base(o)) : o \in Objects} :
                        s \in versions[p[1]][p[2]].sources}
           supported == {k \in candidates : s \in k.sources}
<1>2. CreatedOf(s) = {p \in formal : versions[p[1]][p[2]].createdBy = s}
  BY DEF CreatedOf, Places
<1>3. ConfirmedOf(s) = {p \in formal : versions[p[1]][p[2]].createdBy # s}
  BY DEF ConfirmedOf, Places
<1>4. OpenedOf(s) = {Key(k) : k \in {k \in supported : k.openedBy = s}}
  BY DEF OpenedOf
<1>5. ReusedOf(s) = {Key(k) : k \in {k \in supported : k.openedBy # s}}
  BY DEF ReusedOf
<1> HIDE DEF formal, supported
<1>6. QED BY <1>2, <1>3, <1>4, <1>5 DEF StoredAnswer, formal, supported

LEMMA PlacesAre ==
  ASSUME NEW p
  PROVE  p \in Places <=> \E o \in Objects : \E i \in 1 .. Base(o) : p = <<o, i>>
BY DEF Places

\* Confirming Current adds the Source to its last row and nothing else.
LEMMA ConfirmedRows ==
  ASSUME NEW vs \in Seq(VersionType), vs # << >>, NEW s \in Sources
  PROVE  /\ Len(Confirmed(vs, s)) = Len(vs)
         /\ \A i \in 1 .. Len(vs) :
              /\ Confirmed(vs, s)[i].createdBy = vs[i].createdBy
              /\ Confirmed(vs, s)[i].sources =
                   IF i = Len(vs) THEN vs[i].sources \union {s} ELSE vs[i].sources
<1>1. Len(vs) \in 1 .. Len(vs) /\ Len(vs) \in Nat
  BY EmptySeq, LenProperties
<1> DEFINE n == Len(vs)
           v == [vs[n] EXCEPT !.sources = @ \union {s}]
<1>2. vs[n] \in VersionType
  BY <1>1, ElementOfSeq
<1>3. /\ v \in VersionType /\ v.createdBy = vs[n].createdBy
      /\ v.sources = vs[n].sources \union {s}
  BY <1>2 DEF VersionType
<1>4. Confirmed(vs, s) = [vs EXCEPT ![n] = v]
  BY DEF Confirmed
<1>5. n \in 1 .. Len(vs)
  BY <1>1
<1> HIDE DEF v
<1> DEFINE us == [vs EXCEPT ![n] = v]
<1>6. /\ Len(us) = Len(vs)
      /\ \A i \in 1 .. Len(vs) : us[i] = IF i = n THEN v ELSE vs[i]
  BY <1>3, <1>5, ExceptSeq
<1> HIDE DEF us
<1>7. QED
  BY <1>3, <1>4, <1>6 DEF us

\* What a transaction leaves of each row of each object.
LEMMA StepRows ==
  ASSUME TypeOK, NEW s \in Sources, NEW made, NEW confirmed,
         VersionsStep(s, made, confirmed), NEW o \in Objects
  PROVE  /\ Base(o) \in Nat
         /\ Base(o)' = IF o \in made THEN Base(o) + 1 ELSE Base(o)
         /\ o \in confirmed => o \notin made /\ Base(o) \in 1 .. Base(o)
         /\ \A i \in 1 .. Base(o) :
              /\ versions'[o][i].createdBy = versions[o][i].createdBy
              /\ versions'[o][i].sources =
                   IF o \in confirmed /\ i = Base(o)
                     THEN versions[o][i].sources \union {s} ELSE versions[o][i].sources
         /\ o \in made =>
              /\ versions'[o][Base(o) + 1].createdBy = s
              /\ versions'[o][Base(o) + 1].sources = {s}
<1>1. versions[o] \in Seq(VersionType) /\ Base(o) \in Nat /\ (Bound(o) => Base(o) \in 1 .. Base(o))
  BY BaseTypes
<1>2. CASE o \in made
  <2>1. o \notin confirmed
    BY <1>2 DEF VersionsStep
  <2>2. PICK v \in VersionType :
          v.sources = {s} /\ v.createdBy = s /\ versions'[o] = Append(versions[o], v)
    BY <1>2 DEF VersionsStep
  <2>3. /\ Len(Append(versions[o], v)) = Len(versions[o]) + 1
        /\ \A i \in 1 .. Len(versions[o]) : Append(versions[o], v)[i] = versions[o][i]
        /\ Append(versions[o], v)[Len(versions[o]) + 1] = v
    BY <1>1, AppendedVersions
  <2>4. /\ Base(o)' = Base(o) + 1
        /\ \A i \in 1 .. Base(o) : versions'[o][i] = versions[o][i]
        /\ versions'[o][Base(o) + 1] = v
    BY <2>2, <2>3 DEF Base
  <2>5. QED BY <1>1, <1>2, <2>1, <2>2, <2>4
<1>3. CASE o \in confirmed
  <2>1. o \notin made /\ Bound(o) /\ versions'[o] = Confirmed(versions[o], s)
    BY <1>3 DEF VersionsStep
  <2>2. versions[o] # << >>
    BY <2>1 DEF Bound
  <2> DEFINE vs == versions[o]
             ws == versions'[o]
  <2>3. /\ Len(ws) = Len(vs)
        /\ \A i \in 1 .. Len(vs) :
             /\ ws[i].createdBy = vs[i].createdBy
             /\ ws[i].sources =
                  IF i = Len(vs) THEN vs[i].sources \union {s} ELSE vs[i].sources
    <3>1. vs \in Seq(VersionType) /\ vs # << >> /\ ws = Confirmed(vs, s)
      BY <1>1, <2>1, <2>2
    <3> HIDE DEF vs, ws
    <3>2. QED BY <3>1, ConfirmedRows
  <2>4. Base(o) = Len(vs) /\ Base(o)' = Len(ws)
    BY DEF Base
  <2>5. QED BY <1>1, <1>3, <2>1, <2>3, <2>4
<1>4. CASE o \notin made \union confirmed
  <2>1. versions'[o] = versions[o]
    BY <1>4 DEF VersionsStep
  <2>2. QED BY <1>1, <1>4, <2>1 DEF Base
<1>5. QED BY <1>2, <1>3, <1>4

\* The rows of the others carry neither more nor less of a Source u.
LEMMA OtherPlaces ==
  ASSUME TypeOK, NEW s \in Sources, NEW made, NEW confirmed,
         VersionsStep(s, made, confirmed), NEW u \in Sources, u # s
  PROVE  /\ CreatedOf(u)' = CreatedOf(u) /\ ConfirmedOf(u)' = ConfirmedOf(u)
         /\ (\A o \in Objects : \A i \in 1 .. Base(o) :
               u \notin versions[o][i].sources /\ versions[o][i].createdBy # u)
            => (\A o \in Objects : \A i \in 1 .. Base(o)' :
                  u \notin versions'[o][i].sources /\ versions'[o][i].createdBy # u)
<1>1. ASSUME NEW o \in Objects, NEW i \in 1 .. Base(o)
      PROVE  /\ i \in 1 .. Base(o)'
             /\ u \in versions'[o][i].sources <=> u \in versions[o][i].sources
             /\ versions'[o][i].createdBy = versions[o][i].createdBy
  <2>1. Base(o) \in Nat /\ Base(o)' \in {Base(o), Base(o) + 1}
    BY StepRows
  <2>2. i \in 1 .. Base(o)'
    BY <2>1
  <2>3. /\ versions'[o][i].createdBy = versions[o][i].createdBy
        /\ versions'[o][i].sources =
             IF o \in confirmed /\ i = Base(o)
               THEN versions[o][i].sources \union {s} ELSE versions[o][i].sources
    BY StepRows
  <2>4. u \in versions'[o][i].sources <=> u \in versions[o][i].sources
    BY <2>3
  <2>5. QED BY <2>2, <2>3, <2>4
<1>2. ASSUME NEW o \in Objects, NEW i \in 1 .. Base(o)', i \notin 1 .. Base(o)
      PROVE  u \notin versions'[o][i].sources /\ versions'[o][i].createdBy # u
  <2>1. o \in made /\ i = Base(o) + 1
    <3>1. Base(o) \in Nat /\ Base(o)' = IF o \in made THEN Base(o) + 1 ELSE Base(o)
      BY StepRows
    <3>2. QED BY <3>1, <1>2
  <2>2. versions'[o][i].createdBy = s /\ versions'[o][i].sources = {s}
    BY <2>1, StepRows
  <2>3. QED BY <2>2
<1>3. ASSUME NEW p
      PROVE  /\ p \in CreatedOf(u)' <=> p \in CreatedOf(u)
             /\ p \in ConfirmedOf(u)' <=> p \in ConfirmedOf(u)
  <2>1. CASE p \in Places
    <3>1a. PICK o \in Objects : \E i \in 1 .. Base(o) : p = <<o, i>>
      BY <2>1, PlacesAre
    <3>1. PICK i \in 1 .. Base(o) : p = <<o, i>>
      BY <3>1a
    <3>2. p \in Places' /\ p[1] = o /\ p[2] = i
      BY <3>1, <1>1 DEF Places
    <3>3. QED BY <2>1, <3>1, <3>2, <1>1 DEF CreatedOf, ConfirmedOf
  <2>2. CASE p \notin Places
    <3>1. CASE p \in Places'
      <4>1a. PICK o \in Objects : \E i \in 1 .. Base(o)' : p = <<o, i>>
        BY <3>1 DEF Places
      <4>1. PICK i \in 1 .. Base(o)' : p = <<o, i>>
        BY <4>1a
      <4>2. i \notin 1 .. Base(o)
        BY <2>2, <4>1, PlacesAre
      <4>3. p[1] = o /\ p[2] = i
        BY <4>1
      <4>4. u \notin versions'[p[1]][p[2]].sources
        BY <4>1, <4>2, <4>3, <1>2
      <4>5. QED BY <2>2, <4>4 DEF CreatedOf, ConfirmedOf
    <3>2. CASE p \notin Places'
      BY <2>2, <3>2 DEF CreatedOf, ConfirmedOf
    <3>3. QED BY <3>1, <3>2
  <2>3. QED BY <2>1, <2>2
<1>4. CreatedOf(u)' = CreatedOf(u) /\ ConfirmedOf(u)' = ConfirmedOf(u)
  <2>1. /\ \A p : p \in CreatedOf(u)' <=> p \in CreatedOf(u)
        /\ \A p : p \in ConfirmedOf(u)' <=> p \in ConfirmedOf(u)
    BY <1>3
  <2>2. \A A, B : (\A p : p \in A <=> p \in B) => A = B
    OBVIOUS
  <2> DEFINE c == CreatedOf(u)
             d == ConfirmedOf(u)
             cc == CreatedOf(u)'
             dd == ConfirmedOf(u)'
  <2>3. /\ \A p : p \in cc <=> p \in c
        /\ \A p : p \in dd <=> p \in d
    BY <2>1
  <2> HIDE DEF c, d, cc, dd
  <2>4. cc = c /\ dd = d
    BY <2>3
  <2>5. QED BY <2>4 DEF c, d, cc, dd
<1>5. ASSUME \A o \in Objects : \A i \in 1 .. Base(o) :
               u \notin versions[o][i].sources /\ versions[o][i].createdBy # u,
             NEW o \in Objects, NEW i \in 1 .. Base(o)'
      PROVE  u \notin versions'[o][i].sources /\ versions'[o][i].createdBy # u
  <2>1. CASE i \in 1 .. Base(o)
    BY <2>1, <1>1, <1>5
  <2>2. CASE i \notin 1 .. Base(o)
    BY <2>2, <1>2
  <2>3. QED BY <2>1, <2>2
<1>6. QED BY <1>4, <1>5

\* A Source met for the first time has made and confirmed what its step did.
LEMMA OwnPlaces ==
  ASSUME TypeOK, NEW s \in Sources, NEW made, NEW confirmed,
         made \subseteq Objects, confirmed \subseteq Objects,
         VersionsStep(s, made, confirmed), Silent(s)
  PROVE  /\ CreatedOf(s)' = {<<o, Base(o) + 1>> : o \in made}
         /\ ConfirmedOf(s)' = {<<o, Base(o)>> : o \in confirmed}
<1>1. ASSUME NEW o \in Objects, NEW i \in 1 .. Base(o)'
      PROVE  /\ s \in versions'[o][i].sources <=>
                  (o \in made /\ i = Base(o) + 1) \/ (o \in confirmed /\ i = Base(o))
             /\ s \in versions'[o][i].sources =>
                  (versions'[o][i].createdBy = s <=> o \in made)
  <2>1. /\ Base(o) \in Nat /\ Base(o)' = IF o \in made THEN Base(o) + 1 ELSE Base(o)
        /\ o \in confirmed => o \notin made
    BY StepRows
  <2>2. CASE i \in 1 .. Base(o)
    <3>1. i # Base(o) + 1
      BY <2>1, <2>2
    <3>2. s \notin versions[o][i].sources /\ versions[o][i].createdBy # s
      BY <2>2 DEF Silent
    <3>3. /\ versions'[o][i].createdBy = versions[o][i].createdBy
          /\ versions'[o][i].sources =
               IF o \in confirmed /\ i = Base(o)
                 THEN versions[o][i].sources \union {s} ELSE versions[o][i].sources
      BY <2>2, StepRows
    <3>4. QED BY <2>1, <3>1, <3>2, <3>3
  <2>3. CASE i \notin 1 .. Base(o)
    <3>1. o \in made /\ i = Base(o) + 1 /\ i # Base(o)
      BY <2>1, <2>3
    <3>2. versions'[o][i].createdBy = s /\ versions'[o][i].sources = {s}
      BY <3>1, StepRows
    <3>3. QED BY <2>1, <3>1, <3>2
  <2>4. QED BY <2>2, <2>3
<1>2. ASSUME NEW p
      PROVE  p \in CreatedOf(s)' <=> p \in {<<o, Base(o) + 1>> : o \in made}
  <2>1. ASSUME p \in CreatedOf(s)' PROVE p \in {<<o, Base(o) + 1>> : o \in made}
    <3>1a. PICK o \in Objects : \E i \in 1 .. Base(o)' : p = <<o, i>>
      BY <2>1 DEF CreatedOf, Places
    <3>1. PICK i \in 1 .. Base(o)' : p = <<o, i>>
      BY <3>1a
    <3>2. s \in versions'[o][i].sources /\ versions'[o][i].createdBy = s
      BY <2>1, <3>1 DEF CreatedOf
    <3>3. o \in made
      BY <3>2, <1>1
    <3>4. o \notin confirmed
      BY <3>3, StepRows
    <3>5. i = Base(o) + 1
      BY <3>2, <3>4, <1>1
    <3>6. QED BY <3>1, <3>3, <3>5
  <2>2. ASSUME p \in {<<o, Base(o) + 1>> : o \in made} PROVE p \in CreatedOf(s)'
    <3>1. PICK o \in made : p = <<o, Base(o) + 1>>
      BY <2>2
    <3>2. o \in Objects /\ Base(o) + 1 \in 1 .. Base(o)'
      BY StepRows
    <3>3. /\ versions'[o][Base(o) + 1].createdBy = s
          /\ versions'[o][Base(o) + 1].sources = {s}
      BY StepRows
    <3>4. p \in Places' /\ p[1] = o /\ p[2] = Base(o) + 1
      BY <3>1, <3>2 DEF Places
    <3>5. QED BY <3>3, <3>4 DEF CreatedOf
  <2>3. QED BY <2>1, <2>2
<1>3. ASSUME NEW p
      PROVE  p \in ConfirmedOf(s)' <=> p \in {<<o, Base(o)>> : o \in confirmed}
  <2>1. ASSUME p \in ConfirmedOf(s)' PROVE p \in {<<o, Base(o)>> : o \in confirmed}
    <3>1a. PICK o \in Objects : \E i \in 1 .. Base(o)' : p = <<o, i>>
      BY <2>1 DEF ConfirmedOf, Places
    <3>1. PICK i \in 1 .. Base(o)' : p = <<o, i>>
      BY <3>1a
    <3>2. s \in versions'[o][i].sources /\ versions'[o][i].createdBy # s
      BY <2>1, <3>1 DEF ConfirmedOf
    <3>3. o \in confirmed /\ i = Base(o)
      BY <3>2, <1>1
    <3>4. QED BY <3>1, <3>3
  <2>2. ASSUME p \in {<<o, Base(o)>> : o \in confirmed} PROVE p \in ConfirmedOf(s)'
    <3>1. PICK o \in confirmed : p = <<o, Base(o)>>
      BY <2>2
    <3>2. o \in Objects /\ o \notin made /\ Base(o) \in 1 .. Base(o)'
      BY StepRows
    <3>3. s \in versions'[o][Base(o)].sources /\ versions'[o][Base(o)].createdBy # s
      BY <3>2, <1>1
    <3>4. p \in Places' /\ p[1] = o /\ p[2] = Base(o)
      BY <3>1, <3>2 DEF Places
    <3>5. QED BY <3>3, <3>4 DEF ConfirmedOf
  <2>3. QED BY <2>1, <2>2
<1> DEFINE c == CreatedOf(s)'
           d == ConfirmedOf(s)'
           e == {<<o, Base(o) + 1>> : o \in made}
           f == {<<o, Base(o)>> : o \in confirmed}
<1>4. (\A p : p \in c <=> p \in e) /\ (\A p : p \in d <=> p \in f)
  BY <1>2, <1>3
<1> HIDE DEF c, d, e, f
<1>5. c = e /\ d = f
  BY <1>4
<1>6. QED BY <1>5 DEF c, d, e, f

\* The same for Candidates: what a Source u opened or supported stays.
LEMMA OtherCandidates ==
  ASSUME NEW s \in Sources, NEW reused, NEW opened,
         CandidatesStep(s, reused, opened), NEW u \in Sources, u # s
  PROVE  /\ OpenedOf(u)' = OpenedOf(u) /\ ReusedOf(u)' = ReusedOf(u)
         /\ (\A k \in candidates : u \notin k.sources /\ k.openedBy # u)
            => (\A k \in candidates' : u \notin k.sources /\ k.openedBy # u)
<1>1. \A j, k : Supported(j, k, s, reused) =>
        /\ Key(j) = Key(k) /\ j.openedBy = k.openedBy
        /\ u \in j.sources <=> u \in k.sources
  BY DEF Supported
<1>2. /\ \A j \in opened : u \notin j.sources /\ j.openedBy # u
      /\ \A k \in candidates : \E j \in candidates' : Supported(j, k, s, reused)
      /\ \A j \in candidates' \ opened : \E k \in candidates : Supported(j, k, s, reused)
  BY DEF CandidatesStep
<1>3. \A p : p \in OpenedOf(u)' <=> p \in OpenedOf(u)
  BY <1>1, <1>2 DEF OpenedOf, Key
<1>4. \A p : p \in ReusedOf(u)' <=> p \in ReusedOf(u)
  BY <1>1, <1>2 DEF ReusedOf, Key
<1>5. (\A k \in candidates : u \notin k.sources /\ k.openedBy # u)
        => (\A k \in candidates' : u \notin k.sources /\ k.openedBy # u)
  BY <1>1, <1>2
<1> DEFINE c == OpenedOf(u)
           d == ReusedOf(u)
           cc == OpenedOf(u)'
           dd == ReusedOf(u)'
<1>6. (\A p : p \in cc <=> p \in c) /\ (\A p : p \in dd <=> p \in d)
  BY <1>3, <1>4
<1> HIDE DEF c, d, cc, dd
<1>7. cc = c /\ dd = d
  BY <1>6
<1>8. QED BY <1>5, <1>7 DEF c, d, cc, dd

LEMMA OwnCandidates ==
  ASSUME NEW s \in Sources, NEW reused, NEW opened,
         CandidatesStep(s, reused, opened), Silent(s)
  PROVE  /\ OpenedOf(s)' = {Key(k) : k \in opened}
         /\ ReusedOf(s)' = {Key(k) : k \in reused}
<1>1. \A k \in candidates : s \notin k.sources /\ k.openedBy # s
  BY DEF Silent
<1>2. \A j, k : Supported(j, k, s, reused) /\ k \in candidates =>
        /\ Key(j) = Key(k) /\ j.openedBy # s
        /\ s \in j.sources <=> k \in reused
  BY <1>1 DEF Supported
<1>3. /\ reused \subseteq candidates /\ opened \subseteq candidates'
      /\ \A j \in opened : s \in j.sources /\ j.openedBy = s
      /\ \A k \in candidates : \E j \in candidates' : Supported(j, k, s, reused)
      /\ \A j \in candidates' \ opened : \E k \in candidates : Supported(j, k, s, reused)
  BY DEF CandidatesStep
<1>4. \A p : p \in OpenedOf(s)' <=> p \in {Key(k) : k \in opened}
  BY <1>2, <1>3 DEF OpenedOf, Key
<1>5. \A p : p \in ReusedOf(s)' <=> p \in {Key(k) : k \in reused}
  BY <1>2, <1>3 DEF ReusedOf, Key
<1> DEFINE c == OpenedOf(s)'
           d == ReusedOf(s)'
           e == {Key(k) : k \in opened}
           f == {Key(k) : k \in reused}
<1>6. (\A p : p \in c <=> p \in e) /\ (\A p : p \in d <=> p \in f)
  BY <1>4, <1>5
<1> HIDE DEF c, d, e, f
<1>7. c = e /\ d = f
  BY <1>6
<1>8. QED BY <1>7 DEF c, d, e, f

\* One transaction of a Source: it is told what is stored of it afterwards, and
\* nothing that any other Source is told changes.
LEMMA SourceReplay ==
  ASSUME TypeOK, ReplayInv, NEW s \in Sources, answers[s] = Unused,
         NEW made, NEW confirmed, NEW reused, NEW opened, NEW kind, kind # "unused",
         made \subseteq Objects, confirmed \subseteq Objects,
         VersionsStep(s, made, confirmed), CandidatesStep(s, reused, opened),
         answers' = [answers EXCEPT ![s] =
           Answer(kind, {<<o, Base(o) + 1>> : o \in made}, {<<o, Base(o)>> : o \in confirmed},
                  {Key(k) : k \in opened}, {Key(k) : k \in reused})]
  PROVE  ReplayInv'
<1> DEFINE answer ==
      Answer(kind, {<<o, Base(o) + 1>> : o \in made}, {<<o, Base(o)>> : o \in confirmed},
             {Key(k) : k \in opened}, {Key(k) : k \in reused})
<1>0. InParts'
  BY StoredAnswerParts, PTL
<1>1. answers'[s] = answer /\ answer.kind = kind
  BY DEF TypeOK, Answer
<1>2. answer # Unused
  BY <1>1 DEF Unused
<1>3. Silent(s)
  BY DEF ReplayInv
<1>4. StoredAnswer(s)' = answer
  <2>1. /\ CreatedOf(s)' = {<<o, Base(o) + 1>> : o \in made}
        /\ ConfirmedOf(s)' = {<<o, Base(o)>> : o \in confirmed}
    BY <1>3, OwnPlaces
  <2>2. OpenedOf(s)' = {Key(k) : k \in opened} /\ ReusedOf(s)' = {Key(k) : k \in reused}
    BY <1>3, OwnCandidates
  <2>3. StoredAnswer(s)' =
          Answer(answers'[s].kind, CreatedOf(s)', ConfirmedOf(s)', OpenedOf(s)', ReusedOf(s)')
    BY <1>0 DEF InParts
  <2>4. answers'[s].kind = kind
    BY <1>1
  <2>5. QED BY <2>1, <2>2, <2>3, <2>4
<1> HIDE DEF answer
<1>5. ASSUME NEW u \in Sources, u # s
      PROVE  IF answers'[u] = Unused THEN Silent(u)' ELSE StoredAnswer(u)' = answers'[u]
  <2>1. answers'[u] = answers[u]
    BY <1>5 DEF TypeOK
  <2>2. /\ CreatedOf(u)' = CreatedOf(u) /\ ConfirmedOf(u)' = ConfirmedOf(u)
        /\ OpenedOf(u)' = OpenedOf(u) /\ ReusedOf(u)' = ReusedOf(u)
    BY <1>5, OtherPlaces, OtherCandidates
  <2>3. Silent(u) => Silent(u)'
    BY <1>5, OtherPlaces, OtherCandidates DEF Silent
  <2>4. StoredAnswer(u) =
          Answer(answers[u].kind, CreatedOf(u), ConfirmedOf(u), OpenedOf(u), ReusedOf(u))
    BY StoredAnswerParts DEF InParts
  <2>5. StoredAnswer(u)' =
          Answer(answers'[u].kind, CreatedOf(u)', ConfirmedOf(u)', OpenedOf(u)', ReusedOf(u)')
    BY <1>0 DEF InParts
  <2>6. StoredAnswer(u)' = StoredAnswer(u)
    BY <2>1, <2>2, <2>4, <2>5
  <2>7. QED BY <2>1, <2>3, <2>6 DEF ReplayInv
<1>6. QED BY <1>1, <1>2, <1>4, <1>5 DEF ReplayInv

LEMMA SubmitReplay ==
  ASSUME IInv, ReplayInv, NEW s \in Sources, NEW batch \in Batches,
         NEW first \in [{o \in DOMAIN batch : ~Bound(o)} -> Contents],
         Submit(s, batch, first)
  PROVE  ReplayInv'
<1> DEFINE made == {o \in DOMAIN batch : ~Bound(o)}
           confirmed == {o \in DOMAIN batch : Active(o) /\ Current(o).content \in batch[o]}
           reused == {k \in candidates : Reused(k, batch, first)}
           opened == Opened(s, batch, first)
<1>1. TypeOK /\ DOMAIN batch \subseteq Objects /\ answers[s] = Unused
  BY BatchesAssumption DEF IInv, Submit
<1>2. VersionsStep(s, made, confirmed)
  <2>1. SUFFICES ASSUME NEW o \in Objects
                 PROVE  /\ o \in made =>
                             \E v \in VersionType :
                               v.sources = {s} /\ v.createdBy = s /\ versions'[o] = Append(versions[o], v)
                        /\ o \in confirmed =>
                             o \notin made /\ Bound(o) /\ versions'[o] = Confirmed(versions[o], s)
                        /\ o \notin made \union confirmed => versions'[o] = versions[o]
    BY DEF VersionsStep
  <2>2. versions'[o] = IF o \in DOMAIN batch THEN Submitted(o, s, batch, first) ELSE versions[o]
    BY DEF Submit
  <2>3. CASE o \in made
    <3> DEFINE v == Version(first[o], FALSE, s)
    <3>1. v \in VersionType /\ v.sources = {s} /\ v.createdBy = s
      BY <2>3, RowTypes DEF Version
    <3>2. versions'[o] = <<v>> /\ versions[o] = << >>
      BY <2>2, <2>3 DEF Submitted, Bound
    <3>3. Append(<< >>, v) = <<v>>
      OBVIOUS
    <3> HIDE DEF v
    <3>4. o \notin confirmed
      BY <2>3 DEF Active
    <3>5. QED BY <2>3, <3>1, <3>2, <3>3, <3>4
  <2>4. CASE o \in confirmed
    BY <2>2, <2>4 DEF Submitted, Active
  <2>5. CASE o \notin made \union confirmed
    BY <2>2, <2>5 DEF Submitted
  <2>6. QED BY <2>3, <2>4, <2>5
<1>3. CandidatesStep(s, reused, opened)
  <2>1. reused \subseteq candidates /\ opened \subseteq candidates'
    BY DEF Submit
  <2>2. ASSUME NEW j \in opened PROVE j.sources = {s} /\ j.openedBy = s
    <3>1. j = Candidate(j.object, j.base, j.content, s)
      BY <1>1, OpenedCandidates
    <3>2. Candidate(j.object, j.base, j.content, s).sources = {s}
          /\ Candidate(j.object, j.base, j.content, s).openedBy = s
      BY DEF Candidate
    <3>3. QED BY <3>1, <3>2
  <2>3. \A k \in candidates : \A j :
          j = (IF Reused(k, batch, first) THEN [k EXCEPT !.sources = @ \union {s}] ELSE k) =>
            Supported(j, k, s, reused)
    <3>1. SUFFICES ASSUME NEW k \in candidates, NEW j,
                     j = IF k \in reused THEN [k EXCEPT !.sources = @ \union {s}] ELSE k
                   PROVE  Supported(j, k, s, reused)
      OBVIOUS
    <3>2. k \in CandidateType
      BY <1>1 DEF TypeOK
    <3> HIDE DEF reused
    <3>3. /\ j.object = k.object /\ j.base = k.base /\ j.content = k.content
          /\ j.openedBy = k.openedBy
          /\ j.sources = IF k \in reused THEN k.sources \union {s} ELSE k.sources
      BY <3>1, <3>2 DEF CandidateType
    <3>4. QED BY <3>3 DEF Supported, Key
  <2>4. candidates' =
          {IF Reused(k, batch, first) THEN [k EXCEPT !.sources = @ \union {s}] ELSE k :
             k \in candidates} \union opened
    BY DEF Submit
  <2> HIDE DEF reused, opened
  <2>5. QED BY <2>1, <2>2, <2>3, <2>4 DEF CandidatesStep
<1>4. answers' = [answers EXCEPT ![s] =
        Answer("submission", {<<o, Base(o) + 1>> : o \in made}, {<<o, Base(o)>> : o \in confirmed},
               {Key(k) : k \in opened}, {Key(k) : k \in reused})]
  <2>1. \A o \in made : Base(o) + 1 = 1
    BY DEF Bound, Base
  <2>2. {<<o, 1>> : o \in made} = {<<o, Base(o) + 1>> : o \in made}
    BY <2>1
  <2>3. answers' = [answers EXCEPT ![s] =
          Answer("submission", {<<o, 1>> : o \in made}, {<<o, Base(o)>> : o \in confirmed},
                 {Key(k) : k \in opened}, {Key(k) : k \in reused})]
    BY DEF Submit
  <2> HIDE DEF made, confirmed, opened, reused
  <2>4. QED BY <2>2, <2>3
<1>5. made \subseteq Objects /\ confirmed \subseteq Objects
  BY <1>1
<1> HIDE DEF made, confirmed, opened, reused
<1>6. QED BY <1>1, <1>2, <1>3, <1>4, <1>5, SourceReplay

\* A Resolution rewrites Candidates, but not what Sources they have.
LEMMA ResolveReplay ==
  ASSUME IInv, ReplayInv, NEW a \in Agents, NEW s \in Sources, NEW final \in Contents,
         Resolve(a, s, final)
  PROVE  ReplayInv'
<1> DEFINE o == reviews[a].object
           keeps == Active(o) /\ Current(o).content = final
           made == IF keeps THEN {} ELSE {o}
           confirmed == IF keeps THEN {o} ELSE {}
           v == Version(final, FALSE, s)
<1>1. TypeOK /\ answers[s] = Unused /\ o \in Objects
  BY ReadReviews DEF IInv, Resolve
<1>2. versions' = [versions EXCEPT ![o] =
        IF keeps THEN Confirmed(versions[o], s) ELSE Append(versions[o], v)]
  BY DEF Resolve
<1>3. v \in VersionType /\ v.sources = {s} /\ v.createdBy = s
  BY RowTypes DEF Version
<1>4. keeps => Bound(o)
  BY DEF Active
<1>5. answers' = [answers EXCEPT ![s] =
        Answer("resolution", IF keeps THEN {} ELSE {<<o, Base(o) + 1>>},
               IF keeps THEN {<<o, Base(o)>>} ELSE {}, {}, {})]
  <2>1. answers' = [answers EXCEPT ![s] =
          Answer("resolution",
            IF keeps THEN {} ELSE {<<o, IF keeps THEN Base(o) ELSE Base(o) + 1>>},
            IF keeps THEN {<<o, IF keeps THEN Base(o) ELSE Base(o) + 1>>} ELSE {}, {}, {})]
    BY DEF Resolve
  <2> HIDE DEF keeps, o
  <2>2. CASE keeps
    BY <2>1, <2>2
  <2>3. CASE ~keeps
    BY <2>1, <2>3
  <2>4. QED BY <2>2, <2>3
<1>6. CandidatesStep(s, {}, {})
  <2>1. candidates' = {IF Decided(k, reviews[a]) THEN [k EXCEPT !.resolvedBy = s] ELSE k :
                         k \in candidates}
    BY DEF Resolve
  <2>2. ASSUME NEW k \in candidates, NEW j,
               j = IF Decided(k, reviews[a]) THEN [k EXCEPT !.resolvedBy = s] ELSE k
        PROVE  Supported(j, k, s, {})
    <3>1. k \in CandidateType
      BY <1>1 DEF TypeOK
    <3>2. /\ j.object = k.object /\ j.base = k.base /\ j.content = k.content
          /\ j.openedBy = k.openedBy /\ j.sources = k.sources
      BY <2>2, <3>1 DEF CandidateType
    <3>3. QED BY <3>2 DEF Supported, Key
  <2>3. QED BY <2>1, <2>2 DEF CandidatesStep
<1> HIDE DEF o, keeps, v
<1>7. VersionsStep(s, made, confirmed)
  <2>1. ASSUME NEW q \in Objects, q # o PROVE versions'[q] = versions[q]
    BY <1>2, <2>1 DEF TypeOK
  <2>2. versions'[o] = IF keeps THEN Confirmed(versions[o], s) ELSE Append(versions[o], v)
    BY <1>1, <1>2 DEF TypeOK
  <2>3. CASE keeps
    BY <1>4, <2>1, <2>2, <2>3 DEF VersionsStep
  <2>4. CASE ~keeps
    BY <1>3, <2>1, <2>2, <2>4 DEF VersionsStep
  <2>5. QED BY <2>3, <2>4
<1>8. answers' = [answers EXCEPT ![s] =
        Answer("resolution", {<<q, Base(q) + 1>> : q \in made}, {<<q, Base(q)>> : q \in confirmed},
               {Key(k) : k \in {}}, {Key(k) : k \in {}})]
  <2>1. {Key(k) : k \in {}} = {}
    OBVIOUS
  <2>2. {<<q, Base(q) + 1>> : q \in made} = IF keeps THEN {} ELSE {<<o, Base(o) + 1>>}
    OBVIOUS
  <2>3. {<<q, Base(q)>> : q \in confirmed} = IF keeps THEN {<<o, Base(o)>>} ELSE {}
    OBVIOUS
  <2> HIDE DEF made, confirmed
  <2>4. QED BY <1>5, <2>1, <2>2, <2>3
<1>9. made \subseteq Objects /\ confirmed \subseteq Objects
  BY <1>1
<1> HIDE DEF made, confirmed
<1>10. QED BY <1>1, <1>6, <1>7, <1>8, <1>9, SourceReplay

LEMMA DeleteReplay ==
  ASSUME IInv, ReplayInv, NEW s \in Sources, NEW o \in Objects, NEW expected,
         Delete(s, o, expected)
  PROVE  ReplayInv'
<1> DEFINE made == IF Active(o) THEN {o} ELSE {}
           confirmed == IF Active(o) THEN {} ELSE {o}
           v == Version(Current(o).content, TRUE, s)
<1>1. TypeOK /\ answers[s] = Unused /\ Bound(o)
  BY DEF IInv, Delete
<1>2. versions' = [versions EXCEPT ![o] =
        IF Active(o) THEN Append(versions[o], v) ELSE Confirmed(versions[o], s)]
  BY DEF Delete
<1>3. v \in VersionType /\ v.sources = {s} /\ v.createdBy = s
  <2>1. Current(o) \in VersionType
    BY <1>1, BaseTypes
  <2>2. Current(o).content \in Contents
    BY <2>1 DEF VersionType
  <2>3. QED BY <2>2, RowTypes DEF Version
<1>4. CandidatesStep(s, {}, {})
  BY DEF Delete, CandidatesStep, Supported
<1> HIDE DEF v
<1>5. VersionsStep(s, made, confirmed)
  <2>1. ASSUME NEW q \in Objects, q # o PROVE versions'[q] = versions[q]
    BY <1>2, <2>1 DEF TypeOK
  <2>2. versions'[o] = IF Active(o) THEN Append(versions[o], v) ELSE Confirmed(versions[o], s)
    BY <1>1, <1>2 DEF TypeOK
  <2>3. CASE ~Active(o)
    BY <1>1, <2>1, <2>2, <2>3 DEF VersionsStep
  <2>4. CASE Active(o)
    BY <1>3, <2>1, <2>2, <2>4 DEF VersionsStep
  <2>5. QED BY <2>3, <2>4
<1>6. answers' = [answers EXCEPT ![s] =
        Answer("deletion", {<<q, Base(q) + 1>> : q \in made}, {<<q, Base(q)>> : q \in confirmed},
               {Key(k) : k \in {}}, {Key(k) : k \in {}})]
  <2>1. {Key(k) : k \in {}} = {}
    OBVIOUS
  <2>2. {<<q, Base(q) + 1>> : q \in made} = IF Active(o) THEN {<<o, Base(o) + 1>>} ELSE {}
    OBVIOUS
  <2>3. {<<q, Base(q)>> : q \in confirmed} = IF Active(o) THEN {} ELSE {<<o, Base(o)>>}
    OBVIOUS
  <2> HIDE DEF made, confirmed
  <2>4. QED BY <2>1, <2>2, <2>3 DEF Delete
<1>7. made \subseteq Objects /\ confirmed \subseteq Objects
  OBVIOUS
<1> HIDE DEF made, confirmed
<1>8. QED BY <1>1, <1>4, <1>5, <1>6, <1>7, SourceReplay

LEMMA NextReplay == IInv /\ ReplayInv /\ [Next]_vars => ReplayInv'
<1> SUFFICES ASSUME IInv, ReplayInv, [Next]_vars PROVE ReplayInv'
  OBVIOUS
<1>1. ASSUME UNCHANGED <<versions, candidates, answers>> PROVE ReplayInv'
  <2>1. ASSUME NEW s \in Sources
        PROVE  StoredAnswer(s)' = StoredAnswer(s) /\ (Silent(s)' <=> Silent(s))
    BY <1>1 DEF Silent, StoredAnswer, Base, Key
  <2>2. QED BY <1>1, <2>1 DEF ReplayInv
<1>2. ASSUME NEW a \in Agents, NEW o \in Objects, BeginReview(a, o) PROVE ReplayInv'
  BY <1>1, <1>2 DEF BeginReview
<1>3. ASSUME NEW a \in Agents, FinishReview(a) \/ RejectResolution(a) PROVE ReplayInv'
  BY <1>1, <1>3 DEF FinishReview, RejectResolution
<1>4. CASE UNCHANGED vars
  BY <1>1, <1>4 DEF vars
<1>5. QED
  BY <1>2, <1>3, <1>4, SubmitReplay, ResolveReplay, DeleteReplay DEF Next, Steps

\* SubmissionResult, ResolutionResult and DeletionResult read the answer to a
\* repeated Source from rows that every later Source may confirm, resolve or
\* supersede; what they find is always what the first caller was told.
THEOREM ReplayCorrect == Spec => []ReplayReturnsFirst
<1>1. Init => ReplayInv
  BY DEF Init, ReplayInv, Silent, Base
<1>2. ReplayInv => ReplayReturnsFirst
  BY DEF ReplayInv, ReplayReturnsFirst
<1>3. QED BY <1>1, <1>2, NextReplay, Invariance, PTL DEF Spec

=============================================================================
