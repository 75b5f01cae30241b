----------------------------- MODULE MCServices -----------------------------
(* Small values for every part of Services: two writers that race three       *)
(* batches, two that share an EventID (once with the same content, once with  *)
(* another) and an atomic one, racing uploads of two contents, two Documents  *)
(* of which a Child Zone may have one as well, Messages that repeat an ID, a  *)
(* Relation Chain of three Entities, two runners.                             *)
EXTENDS Services, TLC

CONSTANTS w1, w2, z1, z2, s1, s2, member, done, a, b, c, d, plain, other, k1

EventIn(z, id, s, t, content) ==
  [id |-> id, zone |-> z, stream |-> s, type |-> t, content |-> content]
Event(id, s, t, content) == EventIn(z1, id, s, t, content)

MCBatches ==
  { <<Event(a, s1, member, plain), Event(b, s1, done, plain)>>,
    <<Event(c, s1, member, plain), Event(b, s1, done, plain)>>,
    <<Event(c, s2, done, plain)>>,
    <<Event(b, s1, done, other)>>,
    <<Event(a, s1, member, plain)>>,
    <<EventIn(z2, d, s1, done, plain)>> }

MCAtomicBatches == { [members |-> {member}, completion |-> done] }

MCEventIDs == {a, b, c, d}
MCZones == {z1, z2}
MCStreams == {s1, s2}
MCTypes == {member, done}
MCContents == {plain, other}
MCWriters == {w1, w2}

CONSTANTS c1, c2, x, y, u1, u2, d1, d2, d3, o1, s, p1, q1, m1, m2, a1, a2,
          i1, i2, good, e1, e2, e3, r1, r2

TextsOfDocuments == d1 :> 3 @@ d2 :> 1

Message(id, text) == [id |-> id, text |-> text]

Conversations ==
  {<<Message(p1, x)>>, <<Message(q1, x), Message(p1, x)>>,
   <<Message(p1, y)>>, <<Message(p1, y), Message(q1, y)>>}

EndsOfRelations == r1 :> {e1, e2} @@ r2 :> {e2, e3}

FollowUpsOfBranches == {<<>>, <<x>>, <<y, s, d1>>}

CitedDatasets == {"Reports", "Sources"}

\* e3 is a part of e2 and e2 one of e1; the row of d1 does not fit a chunk.
PublishedReports == <<e1, d1, e2, e3>>
ParentOfReport == e1 :> s @@ d1 :> s @@ e2 :> e1 @@ e3 :> e2
LevelOfReport == e1 :> 0 @@ d1 :> 0 @@ e2 :> 1 @@ e3 :> 2
RankOfReport == e1 :> 1 @@ d1 :> 1 @@ e2 :> 0 @@ e3 :> 2
EntitiesOfReport == e1 :> {x} @@ d1 :> {x, y} @@ e2 :> {y} @@ e3 :> {x}
TextUnitsOfEntity == x :> {c1} @@ y :> {c1}
SizeOfReport == e1 :> 1 @@ d1 :> 3 @@ e2 :> 1 @@ e3 :> 1

Point(score, cites) == [score |-> score, cites |-> cites, size |-> 1]

ModelResponses ==
  {<<>>, <<Point(2, <<0>>)>>, <<Point(1, <<1>>), Point(2, <<0, 1>>)>>,
   <<Point(1, <<2>>), Point(0, <<>>)>>, <<Point(1, <<>>)>>}
=============================================================================
