---------------------------- MODULE SpacePoints ----------------------------
(***************************************************************************)
(* The space points of one drift chamber (THcDriftChamber.cxx).            *)
(*                                                                         *)
(* A chamber has six planes of wires in three directions.  A hit gives one *)
(* coordinate, along the direction of its plane, and a drift time.  Hits   *)
(* of planes that cross give a place; where places of several crossings    *)
(* agree there is a space point.  There are two ways of finding them, the  *)
(* old one (easy points, then combinations of crossings) and the new one   *)
(* (clusters of the U, X and V planes).  The points are then cleaned: poor *)
(* ones removed, those with several hits of a plane cloned, one hit chosen *)
(* for each plane, weak ones rejected.  Last, the drift times are          *)
(* corrected for the propagation along the wires.                          *)
(*                                                                         *)
(* Wire positions are integers and the directions of two planes span a     *)
(* unit square or are parallel, so that crossings are integers; places     *)
(* are kept in units of 1/Grain to hold the averages exactly.              *)
(***************************************************************************)
EXTENDS Integers, FiniteSets, SequencesExt

CONSTANTS
  Xsp, Ysp,           \* the direction of each plane: a wire of it has the coordinate
                      \* x * Xsp + y * Ysp
  XPlane, XPlaneP,    \* the two X planes, which an easy SOS-style point needs
  YPlane, YPlaneP,    \* the two Y planes, for an HMS-style chamber
  Setups,             \* how the chamber may be configured
  Events,             \* the hits an event may have, in the order of planes and wires
  NearWires,          \* how near two wires of parallel planes are to be one cluster
  MAX_NUMBER_PAIRS, MAX_SPACE_POINTS, MaxClones

Planes == DOMAIN Xsp
Grain == 24

ASSUME UnitGeometry ==
  /\ Cardinality(Planes) = 6 /\ DOMAIN Ysp = Planes
  /\ \A p, q \in Planes : Xsp[p] * Ysp[q] - Ysp[p] * Xsp[q] \in {-1, 0, 1}
  /\ Xsp[XPlane] = 1 /\ Ysp[XPlane] = 0 /\ Xsp[XPlaneP] = 1 /\ Ysp[XPlaneP] = 0
  /\ Xsp[YPlane] = 0 /\ Ysp[YPlane] = 1 /\ Xsp[YPlaneP] = 0 /\ Ysp[YPlaneP] = 1
ASSUME Limits ==
  /\ MAX_NUMBER_PAIRS \in Nat /\ MAX_SPACE_POINTS \in Nat \ {0} /\ MaxClones \in Nat

VARIABLES
  setup,      \* MinHits, MaxHits, MinCombos, Criterion, HMSStyle, RemovePoor, NewSearch, FixProp
  hits,       \* fHits
  time,       \* fTime of each hit
  points,     \* fSpacePoints up to fNSpacePoints
  easy,       \* fEasySpacePoint
  pc          \* the routine that comes next

vars == <<setup, hits, time, points, easy, pc>>

\* A space point; dist is the time each of its hits takes its drift distance from.
Point(x, y, combos, its) == [x |-> x, y |-> y, combos |-> combos, hits |-> its, dist |-> <<>>]

---------------------------------------------------------------------------
(* Geometry *)

Det(p, q) == Xsp[p] * Ysp[q] - Ysp[p] * Xsp[q]

\* where wire w of plane p meets wire v of plane q; the determinant is its own inverse
Crossing(p, w, q, v) ==
  [x |-> Det(p, q) * (w * Ysp[q] - v * Ysp[p]), y |-> Det(p, q) * (v * Xsp[p] - w * Xsp[q])]

Distance2(a, b) == (a.x - b.x) * (a.x - b.x) + (a.y - b.y) * (a.y - b.y)

\* k times the space point criterion in units of the points' places
Criterion(k) == k * setup.Criterion * Grain * Grain

\* the pairs of (1 .. m) \X (1 .. n), and those <<i, j>> of 1 .. n with i < j, in the order of
\* two nested loops
Grid(m, n) == [k \in 1 .. m * n |-> <<((k - 1) \div n) + 1, ((k - 1) % n) + 1>>]
Ordered(n) == SelectSeq(Grid(n, n), LAMBDA c : c[1] < c[2])

FirstN(s, n) == IF Len(s) <= n THEN s ELSE SubSeq(s, 1, n)

HitsOf(p) == {i \in DOMAIN hits : hits[i].plane = p}
InPlane(its, p) == SelectSeq(its, LAMBDA i : hits[i].plane = p)

---------------------------------------------------------------------------
(* The easy case: one hit in both planes that stand for a coordinate *)

Lead == IF setup.HMSStyle THEN <<YPlane, YPlaneP>> ELSE <<XPlane, XPlaneP>>

LooksEasy ==
  /\ Cardinality(HitsOf(Lead[1])) = 1 /\ Cardinality(HitsOf(Lead[2])) = 1
  /\ \A i \in HitsOf(Lead[1]), j \in HitsOf(Lead[2]) :
       (hits[i].pos - hits[j].pos) * (hits[i].pos - hits[j].pos) < setup.Criterion
  /\ Len(hits) <= 6

\* twice the coordinate the two lead planes give, and twice the other that hit i then gives
LeadPos(p) == hits[CHOOSE i \in HitsOf(p) : TRUE].pos
Leading == LeadPos(Lead[1]) + LeadPos(Lead[2])
Other(i) == LET p == hits[i].plane
            IN  IF setup.HMSStyle THEN (2 * hits[i].pos - Leading * Ysp[p]) * Xsp[p]
                                  ELSE (2 * hits[i].pos - Leading * Xsp[p]) * Ysp[p]
Others == SelectSeq([i \in DOMAIN hits |-> i], LAMBDA i : hits[i].plane \notin {Lead[1], Lead[2]})
MeanOther ==
  IF Others = <<>> THEN 0
  ELSE (FoldLeft(LAMBDA s, i : s + Other(i), 0, Others) * (Grain \div 2)) \div Len(Others)

\* FindEasySpacePoint_HMS and FindEasySpacePoint_SOS; fMaxDist is sqrt(criterion / 2)
EasyPoint ==
  LET lead == Leading * (Grain \div 2)
      all == [i \in DOMAIN hits |-> i]
      off(i) == MeanOther - Other(i) * (Grain \div 2)
      spread == \E i \in ToSet(Others) : 2 * off(i) * off(i) >= Criterion(1)
  IN  IF ~LooksEasy \/ spread THEN <<>>
      ELSE IF setup.HMSStyle THEN <<Point(MeanOther, lead, 0, all)>>
      ELSE <<Point(lead, MeanOther, 0, all)>>

---------------------------------------------------------------------------
(* The hard case: pairs of hits that cross, and pairs of these that agree *)

Pairs ==
  FirstN(SelectSeq(Ordered(Len(hits)), LAMBDA c : Det(hits[c[1]].plane, hits[c[2]].plane) # 0),
         MAX_NUMBER_PAIRS)

PlaceOf(c) == Crossing(hits[c[1]].plane, hits[c[1]].pos, hits[c[2]].plane, hits[c[2]].pos)

\* a combination: the four hits of two crossings that agree, and the place between them
Combos ==
  LET pairs == Pairs
      places == [k \in DOMAIN pairs |-> PlaceOf(pairs[k])]
      agree == SelectSeq(Ordered(Len(pairs)),
                         LAMBDA c : Distance2(places[c[1]], places[c[2]]) <= setup.Criterion)
      all == [k \in DOMAIN agree |->
                [its |-> pairs[agree[k][1]] \o pairs[agree[k][2]],
                 x |-> (places[agree[k][1]].x + places[agree[k][2]].x) * (Grain \div 2),
                 y |-> (places[agree[k][1]].y + places[agree[k][2]].y) * (Grain \div 2)]]
  IN  FirstN(all, 10 * MAX_NUMBER_PAIRS)

\* a mutant: the hits of a combination are added whether the list has them or not
AddHits_Twice(its, new) == its \o new

\* the hits of a combination that a list does not hold yet, once each
AddHits(its, new) == FoldLeft(LAMBDA s, i : IF i \in ToSet(s) THEN s ELSE Append(s, i), its, new)

\* a mutant: a combination that is near to a point gives it no hits
AddCombo_Ignore(pts, combo) ==
  IF /\ \A k \in DOMAIN pts : Distance2(combo, pts[k]) >= Criterion(3)
     /\ Len(pts) < MAX_SPACE_POINTS
  THEN Append(pts, Point(combo.x, combo.y, 1, AddHits(<<>>, combo.its)))
  ELSE pts

\* A combination goes to the first point it is near to, is ignored when it is rather near to one,
\* and is a new point otherwise.
AddCombo(pts, combo) ==
  LET near == {k \in DOMAIN pts : Distance2(combo, pts[k]) < Criterion(1)}
      first == CHOOSE k \in near : \A j \in near : k <= j
  IN  IF near # {}
      THEN [pts EXCEPT ![first].hits = AddHits(@, combo.its), ![first].combos = @ + 1]
      ELSE IF /\ \A k \in DOMAIN pts : Distance2(combo, pts[k]) >= Criterion(3)
              /\ Len(pts) < MAX_SPACE_POINTS
      THEN Append(pts, Point(combo.x, combo.y, 1, AddHits(<<>>, combo.its)))
      ELSE pts

HardPoints ==
  LET combos == Combos
      upTo[k \in 0 .. Len(combos)] == IF k = 0 THEN <<>> ELSE AddCombo(upTo[k - 1], combos[k])
  IN  upTo[Len(combos)]

---------------------------------------------------------------------------
(* The new search: clusters of parallel wires, one of each direction *)

\* A cluster <<i, j>>: two near hits of different parallel planes, or one hit twice that has
\* no such partner.  Planes 1 and 2 are U, 3 and 4 are X, 5 and 6 are V.
Partners(i, j) ==
  /\ hits[i].plane # hits[j].plane
  /\ Det(hits[i].plane, hits[j].plane) = 0
  /\ hits[i].pos - hits[j].pos \in 1 - NearWires .. NearWires - 1
Lonely(i) == \A j \in DOMAIN hits : ~Partners(i, j)
Clusters(view) ==
  SelectSeq(Grid(Len(hits), Len(hits)),
            LAMBDA c : /\ hits[c[1]].plane \in view
                       /\ \/ c[1] < c[2] /\ Partners(c[1], c[2])
                          \/ c[1] = c[2] /\ Lonely(c[1]))

ClusterHits(c) == AddHits(<<>>, c)
\* twice where two clusters cross
ClusterPlace(c, d) ==
  Crossing(hits[c[1]].plane, hits[c[1]].pos + hits[c[2]].pos,
           hits[d[1]].plane, hits[d[1]].pos + hits[d[2]].pos)

\* the crossings of U or V clusters with X clusters that have three hits or more
WithX(clusters, xs) ==
  LET grid == Grid(Len(clusters), Len(xs))
      all == [k \in DOMAIN grid |-> [c |-> clusters[grid[k][1]], x |-> xs[grid[k][2]]]]
  IN  SelectSeq(all, LAMBDA e : Len(ClusterHits(e.c)) + Len(ClusterHits(e.x)) > 2)

NewPoints ==
  LET xs == Clusters({3, 4})
      ux == WithX(Clusters({1, 2}), xs)
      vx == WithX(Clusters({5, 6}), xs)
      at(e) == ClusterPlace(e.c, e.x)
      its(u, v) == ClusterHits(u.c) \o ClusterHits(u.x) \o ClusterHits(v.c)
      good(u, v) == /\ u.x = v.x
                    /\ Distance2(at(u), at(v)) <= 4 * setup.Criterion
                    /\ Len(its(u, v)) >= setup.MinHits
      pairs == SelectSeq(Grid(Len(ux), Len(vx)), LAMBDA c : good(ux[c[1]], vx[c[2]]))
      mean(a, b) == (a + b) * (Grain \div 4)
      point(u, v) == Point(mean(at(u).x, at(v).x), mean(at(u).y, at(v).y), 1, its(u, v))
  IN  [k \in DOMAIN pairs |-> point(ux[pairs[k][1]], vx[pairs[k][2]])]

---------------------------------------------------------------------------
(* Cleaning the points *)

PlanesOf(its) == {hits[i].plane : i \in ToSet(its)}

\* DestroyPoorSpacePoints moves the points it keeps; a point that is moved loses its combinations
Rich(point) ==
  /\ Cardinality(PlanesOf(point.hits)) >= setup.MinHits
  /\ {YPlane, YPlaneP} \subseteq PlanesOf(point.hits)
Destroyed ==
  LET kept == SelectSeq([k \in DOMAIN points |-> k], LAMBDA k : Rich(points[k]))
      moved(k) == IF kept[k] = k THEN points[k] ELSE [points[kept[k]] EXCEPT !.combos = 0]
  IN  [k \in DOMAIN kept |-> moved(k)]

\* the planes by decreasing number of hits, as the exchanges of SpacePointMultiWire leave them
Maxplane(its) ==
  LET n(p) == Len(InPlane(its, p))
      exchange(o, c) == IF n(o[c[2]]) > n(o[c[1]])
                        THEN [o EXCEPT ![c[1]] = o[c[2]], ![c[2]] = o[c[1]]] ELSE o
  IN  FoldLeft(exchange, [p \in Planes |-> p], Ordered(Cardinality(Planes)))

\* the choices of one hit for each plane: of the three planes with the most hits any, of the
\* others the only one
Selections(its) ==
  LET order == Maxplane(its)
      n(k) == InPlane(its, order[k])
      ab == Grid(Len(n(1)), Len(n(2)))
      abc == Grid(Len(ab), Len(n(3)))
      rest == n(4) \o n(5) \o n(6)
  IN  [k \in DOMAIN abc |->
         <<n(1)[ab[abc[k][1]][1]], n(2)[ab[abc[k][1]][2]], n(3)[abc[k][2]]>> \o rest]

Multiple(its) == {p \in Planes : Len(InPlane(its, p)) > 1}
\* how many points the clones of a point are: the product of its planes' numbers of hits
Ways(its) ==
  LET order == Maxplane(its)
  IN  Len(InPlane(its, order[1])) * Len(InPlane(its, order[2])) * Len(InPlane(its, order[3]))
ToClone(its, total) ==
  /\ Cardinality(PlanesOf(its)) >= 4
  /\ Cardinality(Multiple(its)) \in 1 .. 3
  /\ total + Ways(its) - 1 < MaxClones

\* SpacePointMultiWire: the first choice takes the place of the point, the others are appended
CloneOne(pts, k) ==
  LET its == pts[k].hits
      choices == Selections(its)
      clones == [c \in DOMAIN choices |-> [pts[k] EXCEPT !.hits = choices[c]]]
  IN  IF ToClone(its, Len(pts)) THEN [pts EXCEPT ![k] = clones[1]] \o Tail(clones) ELSE pts
Cloned == FoldLeft(CloneOne, points, [k \in DOMAIN points |-> k])

\* ChooseSingleHit: of two hits of a plane the one with the longer time goes, or the later one
Beaten(its, j) ==
  \E k \in DOMAIN its : /\ k # j /\ hits[its[k]].plane = hits[its[j]].plane
                        /\ \/ k > j /\ time[its[j]] > time[its[k]]
                           \/ k < j /\ time[its[k]] <= time[its[j]]
Single(its) ==
  LET kept == SelectSeq([j \in DOMAIN its |-> j], LAMBDA j : ~Beaten(its, j))
  IN  [k \in DOMAIN kept |-> its[kept[k]]]

\* mutants: the number of hits does not count; an easy point needs combinations too
Accepted_FewHits(point) == point.combos >= setup.MinCombos \/ easy
Accepted_Combos(point) == point.combos >= setup.MinCombos /\ Len(point.hits) >= setup.MinHits

\* SelectSpacePoints
Accepted(point) == (point.combos >= setup.MinCombos \/ easy) /\ Len(point.hits) >= setup.MinHits

---------------------------------------------------------------------------
(* Correction of the drift times *)

\* The time a signal takes along its wire: a linear function of the coordinate of the point that
\* the wire measures least.
Correction(point, i) == IF Ysp[hits[i].plane] = 0 THEN point.y ELSE point.x

\* a mutant: the hits' times are not restored
CorrectPoint_Keep(s, k) ==
  LET its == points[k].hits
      corrected == [i \in DOMAIN hits |->
                      IF i \in ToSet(its) THEN s.time[i] - Correction(points[k], i) ELSE s.time[i]]
  IN  [s EXCEPT !.points[k].dist = [j \in DOMAIN its |-> corrected[its[j]]], !.time = corrected]

\* CorrectHitTimes on one point: either its own distances are kept with it and the hits stay as
\* they were, or the hits' times change, once more for each point they are in
CorrectPoint(s, k) ==
  LET its == points[k].hits
      corrected == [i \in DOMAIN hits |->
                      IF i \in ToSet(its) THEN s.time[i] - Correction(points[k], i) ELSE s.time[i]]
  IN  IF setup.FixProp
      THEN [s EXCEPT !.points[k].dist = [j \in DOMAIN its |-> corrected[its[j]]]]
      ELSE [s EXCEPT !.time = corrected]
Corrected == FoldLeft(CorrectPoint, [points |-> points, time |-> time], [k \in DOMAIN points |-> k])

---------------------------------------------------------------------------
(* The routines in the order of CoarseTrack *)

Init ==
  /\ setup \in Setups
  /\ hits = <<>> /\ time = <<>> /\ points = <<>> /\ easy = FALSE
  /\ pc = "idle"

\* ProcessHits, and the beginning of the search, which deletes the points of the event before
ProcessHits ==
  /\ pc = "idle"
  /\ \E e \in Events :
       /\ hits' = e
       /\ time' = [i \in DOMAIN e |-> e[i].time]
       /\ pc' = IF Len(e) >= setup.MinHits /\ Len(e) < setup.MaxHits THEN "find" ELSE "correct"
  /\ points' = <<>> /\ easy' = FALSE
  /\ UNCHANGED setup

NewFindSpacePoints ==
  /\ pc = "find" /\ setup.NewSearch
  /\ points' = NewPoints
  /\ pc' = "correct"
  /\ UNCHANGED <<setup, hits, time, easy>>

FindSpacePoints ==
  /\ pc = "find" /\ ~setup.NewSearch
  /\ LET found == EasyPoint
     IN  /\ easy' = (found # <<>>)
         /\ points' = IF found # <<>> THEN found ELSE HardPoints
  /\ pc' = IF points' = <<>> THEN "correct"
           ELSE IF ~setup.HMSStyle THEN "choose"
           ELSE IF setup.RemovePoor THEN "destroy" ELSE "clone"
  /\ UNCHANGED <<setup, hits, time>>

DestroyPoorSpacePoints ==
  /\ pc = "destroy"
  /\ points' = Destroyed
  /\ pc' = "clone"
  /\ UNCHANGED <<setup, hits, time, easy>>

\* an assertion ends the program when there is no point
SpacePointMultiWire ==
  /\ pc = "clone"
  /\ points' = Cloned
  /\ pc' = IF points = <<>> THEN "aborted" ELSE "choose"
  /\ UNCHANGED <<setup, hits, time, easy>>

ChooseSingleHit ==
  /\ pc = "choose"
  /\ points' = [k \in DOMAIN points |-> [points[k] EXCEPT !.hits = Single(@)]]
  /\ pc' = "select"
  /\ UNCHANGED <<setup, hits, time, easy>>

SelectSpacePoints ==
  /\ pc = "select"
  /\ points' = SelectSeq(points, Accepted)
  /\ pc' = "correct"
  /\ UNCHANGED <<setup, hits, time, easy>>

CorrectHitTimes ==
  /\ pc = "correct"
  /\ points' = Corrected.points
  /\ time' = Corrected.time
  /\ pc' = "done"
  /\ UNCHANGED <<setup, hits, easy>>

Next ==
  \/ ProcessHits
  \/ NewFindSpacePoints \/ FindSpacePoints
  \/ DestroyPoorSpacePoints \/ SpacePointMultiWire
  \/ ChooseSingleHit \/ SelectSpacePoints
  \/ CorrectHitTimes

Spec == Init /\ [][Next]_vars
---------------------------------------------------------------------------
(* Properties *)

\* A point holds hits of the event, each at most once, and the numbers of combinations and of
\* points are natural (AddHit, IncCombos, fNSpacePoints).
TypeInvariant ==
  /\ setup \in Setups /\ easy \in BOOLEAN
  /\ DOMAIN time = DOMAIN hits
  /\ \A k \in DOMAIN points :
       /\ points[k].combos \in Nat
       /\ ToSet(points[k].hits) \subseteq DOMAIN hits
       /\ IsInjective(points[k].hits)

\* Every combination of crossings is accounted for after the hard search: its hits are all in a
\* point it is near to, or it is rather near to a point, unless the list of points is full; a point
\* holds no hit that is in no combination near to it; and one place does not become two points
\* (FindHardSpacePoints, add_flag).
CombosAreCovered ==
  [][pc = "find" /\ ~setup.NewSearch /\ ~easy' =>
       LET combos == ToSet(Combos)
           found == ToSet(points')
       IN  /\ \A c \in combos :
                \/ Len(points') = MAX_SPACE_POINTS
                \/ \E p \in found :
                     \/ Distance2(c, p) < Criterion(1) /\ ToSet(c.its) \subseteq ToSet(p.hits)
                     \/ Distance2(c, p) >= Criterion(1) /\ Distance2(c, p) < Criterion(3)
           /\ \A p \in found : \A i \in ToSet(p.hits) :
                \E c \in combos : i \in ToSet(c.its) /\ Distance2(c, p) < Criterion(1)
           /\ \A j, k \in DOMAIN points' :
                j # k => Distance2(points'[j], points'[k]) >= Criterion(3)]_vars

\* The clones of a point are all choices of one hit for each of its planes, at the place and with
\* the combinations of the point; a point that is not cloned stays (SpacePointMultiWire).
ClonesAreAllChoices ==
  [][pc = "clone" =>
       LET same(p, q) == p.x = q.x /\ p.y = q.y /\ p.combos = q.combos
           choices(p) ==
             {S \in SUBSET ToSet(p.hits) :
                \A pl \in PlanesOf(p.hits) : Cardinality(S \intersect HitsOf(pl)) = 1}
           clones(p) == {ToSet(q.hits) : q \in {q \in ToSet(points') : same(p, q)}}
           alike(p) == {q \in ToSet(points) : same(p, q)}
       IN  /\ \A p \in ToSet(points) :
                p \in ToSet(points') \/ choices(p) \subseteq clones(p)
           /\ \A p \in ToSet(points) : \A S \in clones(p) :
                \E q \in alike(p) : S = ToSet(q.hits) \/ S \in choices(q)
           /\ Len(points') = Len(points) \/ Len(points') < MaxClones]_vars

\* When the chamber is done each point has hits of as many different planes as required, with none
\* twice, and those of both Y planes if poor points are removed (FindSpacePoints).
PointsAreStrong ==
  pc = "done" =>
    \A k \in DOMAIN points :
      LET planes == PlanesOf(points[k].hits)
      IN  /\ Cardinality(planes) = Len(points[k].hits)
          /\ Cardinality(planes) >= setup.MinHits
          /\ setup.RemovePoor /\ setup.HMSStyle /\ ~setup.NewSearch
               => {YPlane, YPlaneP} \subseteq planes

\* A particle that gives one hit in every plane, all through one place, and no other hit is around,
\* is found as one point with all its hits, at its place, by either search in either style of
\* chamber (NewFindSpacePoints, FindSpacePoints).
TrackIsFound ==
  pc = "done" /\ Len(hits) = Cardinality(Planes) /\ Len(hits) < setup.MaxHits =>
    \A x, y \in -2 .. 2 :
      (\A p \in Planes : \E i \in HitsOf(p) : hits[i].pos = x * Xsp[p] + y * Ysp[p]) =>
        /\ Len(points) = 1
        /\ points[1].x = x * Grain /\ points[1].y = y * Grain
        /\ ToSet(points[1].hits) = DOMAIN hits

\* With the correction kept in the points a hit has in each point the distance of its own time and
\* that point's place, however many points share it, and keeps the time it was measured with
\* (CorrectHitTimes).
DistancesAreOwn ==
  pc = "done" /\ setup.FixProp =>
    /\ \A i \in DOMAIN hits : time[i] = hits[i].time
    /\ \A k \in DOMAIN points : \A j \in DOMAIN points[k].hits :
         LET i == points[k].hits[j]
         IN  points[k].dist[j] = hits[i].time - Correction(points[k], i)

\* "assert (nsp_tot > 0)" (src/src/THcDriftChamber.cxx:1106)
AssertionHolds == pc # "aborted"
=============================================================================
