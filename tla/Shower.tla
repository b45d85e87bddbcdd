-------------------------------- MODULE Shower --------------------------------
(***************************************************************************)
(* THcShower: the calorimeter, of layers and perhaps an array behind them. *)
(* The blocks with energy are grouped to clusters of neighbours, separate  *)
(* in the layers and in the array, and a track has the energy of the       *)
(* clusters nearest to it.                                                 *)
(*                                                                         *)
(* A hit is <<column, row>>; the columns of the layers are the layers.  A  *)
(* row or a column of the array is 2 units wide.  Tracks go along z.       *)
(***************************************************************************)
EXTENDS Integers, SequencesExt, FiniteSetsExt

CONSTANTS
  NLayers, NRows,      \* the layers and the blocks of each
  NColumns,            \* of the array, which has NRows rows
  PedSlack, Margin,    \* see ShowerPlane
  Ycor(_, _),          \* the correction for a track at y, of a side or of "single" blocks
  CalSetups,           \* the parameters, as they may be set, and the bound MaxEvents
  CalEvents(_)         \* the events for a setup

VARIABLES setup, seen, event, det, pc

vars == <<setup, seen, event, det, pc>>

Layers == 1 .. NLayers
Rows == 1 .. NRows
Blocks == 1 .. NColumns * NRows

P == INSTANCE ShowerPlane
A == INSTANCE ShowerArray

SumOver(S, f(_)) == MapThenSumSet(f, S)
Magnitude(x) == IF x < 0 THEN -x ELSE x

---------------------------------------------------------------------------
(* Clusters *)

\* a side or a corner in common, or in the same row at most one block between
isNeighbour(h, k) ==
  \/ Magnitude(h[2] - k[2]) < 2 /\ Magnitude(h[1] - k[1]) < 2
  \/ h[2] = k[2] /\ Magnitude(h[1] - k[1]) < 3

\* Mutant: the neighbours of the first hit, and not theirs.
Cluster_OneTurn(h, H) == {h} \union {i \in H : isNeighbour(i, h)}

\* the hits that are found from a hit, turn after turn
Cluster(h, H) ==
  LET grow[n \in 0 .. Cardinality(H)] ==
        IF n = 0 THEN {h}
        ELSE grow[n - 1] \union {i \in H : \E k \in grow[n - 1] : isNeighbour(i, k)}
  IN  grow[Cardinality(H)]

\* The hits are in a set of pointers, so in the order of their addresses: each cluster
\* begins with the last hit of those that remain.
ClusterHits(order) ==
  FoldRight(LAMBDA h, acc :
              IF h \in acc.rest
              THEN LET c == Cluster(h, acc.rest)
                   IN  [rest |-> acc.rest \ c, list |-> Append(acc.list, c)]
              ELSE acc,
            order, [rest |-> ToSet(order), list |-> <<>>]).list

clE(cluster, E(_)) == SumOver(cluster, E)

\* the centre of gravity, far outside when there is no energy
Centre(cluster, E(_), x(_)) ==
  LET energy == clE(cluster, E)
  IN  IF energy = 0 THEN [num |-> -100, den |-> 1]
      ELSE [num |-> SumOver(cluster, LAMBDA h : E(h) * x(h)), den |-> energy]

\* the distance of a place from a point
Away(c, x) == [num |-> Magnitude(c.num - x * c.den), den |-> Magnitude(c.den)]
AtMost(a, limit) == a.num <= limit * a.den
Closer(a, b) == a.num * b.den < b.num * a.den

\* the nearest cluster, looked for backwards, and how many are near
NearestOf(list, distance(_), limit) ==
  FoldRight(LAMBDA i, best :
              IF AtMost(distance(i), limit)
              THEN [mclust |-> IF best.mclust = 0 \/ Closer(distance(i), distance(best.mclust))
                               THEN i ELSE best.mclust,
                    near |-> best.near + 1]
              ELSE best,
            [i \in DOMAIN list |-> i], [mclust |-> 0, near |-> 0])

---------------------------------------------------------------------------
(* The members *)

\* no golden track; mclust is 0 when there is one and no cluster is near it
NoMatch == [mclust |-> -1, etrack |-> 0, epr |-> 0, array |-> -1, size |-> 0]

Cleared ==
  [fNhits |-> 0, clusters |-> <<>>, arrayClusters |-> <<>>, fEtot |-> 0, fNtracks |-> 0,
   arrayTracks |-> 0, fClustSize |-> 0, energies |-> <<>>,
   best |-> NoMatch]     \* what is known of the golden track

NewShower ==
  [planes |-> [j \in Layers |-> P!NewPlane], array |-> A!NewArray,
   event |-> Cleared, fAnalyzePedestals |-> FALSE, fNPedestalEvents |-> 0,
   \* what is counted over the run: of the rows of the layers, and of the array
   stat |-> [rowTrk |-> [h \in Layers \X Rows |-> 0], rowHit |-> [h \in Layers \X Rows |-> 0],
             trk |-> [h \in (1 .. NColumns) \X Rows |-> 0],
             hit |-> [h \in (1 .. NColumns) \X Rows |-> 0]]]

\* Mutant: the match of the golden track outlives its cluster.
Clear_KeepBest(d) ==
  [d EXCEPT !.planes = [j \in Layers |-> P!Clear(@[j])], !.array = A!Clear(@),
            !.event = [Cleared EXCEPT !.best = d.event.best]]

Clear(d) ==
  [d EXCEPT !.planes = [j \in Layers |-> P!Clear(@[j])],
            !.array = IF setup.fHasArray THEN A!Clear(@) ELSE @, !.event = Cleared]

BlockOf(h) == (h[1] - 1) * NRows + h[2]
XPos(h) == 2 * h[2]
YPos(h) == 2 * h[1]

\* the energy of a hit of the layers, and of the array
HitE(d, h) == P!fEmean(d.planes[h[1]], h[2])
ArrayE(d, h) == d.array.fE[BlockOf(h)]

clX(d, cl) == Centre(cl, LAMBDA h : HitE(d, h), XPos)

\* the distance of an array cluster from a track, squared
ArrayAway(d, cl, tr) ==
  LET x == Away(Centre(cl, LAMBDA h : ArrayE(d, h), XPos), tr.x)
      y == Away(Centre(cl, LAMBDA h : ArrayE(d, h), YPos), tr.y)
  IN  [num |-> x.num * x.num + y.num * y.num, den |-> x.den * x.den]

---------------------------------------------------------------------------
(* Decode *)

DecodePedestals(d, e) ==
  [d EXCEPT !.planes = [j \in Layers |-> P!AccumulatePedestals(@[j], e.planes[j])],
            !.array = IF setup.fHasArray THEN A!AccumulatePedestals(@, e.array) ELSE @,
            !.fAnalyzePedestals = TRUE, !.fNPedestalEvents = @ + 1]

AnalyzePedestals(d) ==
  IF d.fAnalyzePedestals
  THEN [d EXCEPT !.planes = [j \in Layers |-> P!CalculatePedestals(@[j])],
                 !.array = IF setup.fHasArray THEN A!CalculatePedestals(@) ELSE @,
                 !.fAnalyzePedestals = FALSE]
  ELSE d

DecodeHits(d, e) ==
  [d EXCEPT !.planes = [j \in Layers |-> P!ProcessHits(@[j], e.planes[j])],
            !.array = IF setup.fHasArray THEN A!ProcessHits(@, e.array) ELSE @]

DecodeEvent(d, e) ==
  IF e.pedestal THEN DecodePedestals(Clear(d), e) ELSE DecodeHits(AnalyzePedestals(Clear(d)), e)

---------------------------------------------------------------------------
(* CoarseProcess *)

Energies(d, e) ==
  LET planes == [j \in Layers |-> P!CoarseProcessHits(d.planes[j], e.start)]
      array == IF setup.fHasArray THEN A!CoarseProcessHits(d.array, e.start) ELSE d.array
  IN  [d EXCEPT !.planes = planes, !.array = array,
                !.event.fEtot = SumOver(Layers, LAMBDA j : P!fEplane(planes[j]))
                                + IF setup.fHasArray THEN array.fEarray ELSE 0]

HitSet(d) == {h \in Layers \X Rows : P!IsHit(d.planes[h[1]], h[2])}
ArrayHits(d) ==
  {h \in (1 .. NColumns) \X Rows : setup.fHasArray /\ d.array.good[BlockOf(h)] > 0}

Clustered(d, order, arrayOrder) ==
  [d EXCEPT !.event.fNhits = Len(order), !.event.clusters = ClusterHits(order),
            !.event.arrayClusters = ClusterHits(arrayOrder)]

\* the clusters of a track, and how many are near; none outside the fiducial volume
MatchCluster(d, tr) ==
  IF setup.fvTest /\ ~tr.inside THEN [mclust |-> 0, near |-> 0]
  ELSE NearestOf(d.event.clusters, LAMBDA i : Away(clX(d, d.event.clusters[i]), tr.x), 1 + setup.fSlop)

MatchArray(d, tr) ==
  LET limit == 2 + setup.fSlop
  IN  IF setup.fvTest /\ ~tr.inside THEN [mclust |-> 0, near |-> 0]
      ELSE NearestOf(d.event.arrayClusters,
                     LAMBDA i : ArrayAway(d, d.event.arrayClusters[i], tr), limit * limit)

\* the energy of a cluster in a layer, of a side
clEplane(d, cl, j, s) == SumOver({h \in cl : h[1] = j}, LAMBDA h : d.planes[j][s].fE[h[2]])

\* the energy of the matching cluster in the first n layers, corrected
GetShEnergy(d, tr, n) ==
  LET mclust == MatchCluster(d, tr).mclust
      cl == d.event.clusters[mclust]
      layer(j) == IF j <= setup.fNegCols
                  THEN SumOver(P!Sides, LAMBDA s : clEplane(d, cl, j, s) * Ycor(tr.y, s))
                  ELSE clEplane(d, cl, j, "pos") * Ycor(tr.y, "single")
  IN  IF mclust = 0 THEN 0 ELSE SumOver(1 .. n, layer)

ArrayEnergy(d, tr) ==
  LET mclust == MatchArray(d, tr).mclust
  IN  IF mclust = 0 THEN 0 ELSE clE(d.event.arrayClusters[mclust], LAMBDA h : ArrayE(d, h))

\* fClustSize is of the cluster looked at last, the first of the list
LastLookedAt(d, tr) ==
  IF (setup.fvTest /\ ~tr.inside) \/ d.event.arrayClusters = <<>> THEN d.event.fClustSize
  ELSE Cardinality(d.event.arrayClusters[1])

TrackEnergy(d, e, i) ==
  LET tr == e.tracks[i]
  IN  [d EXCEPT !.event.energies = Append(@, GetShEnergy(d, tr, NLayers)
                                             + IF setup.fHasArray THEN ArrayEnergy(d, tr) ELSE 0),
                !.event.fNtracks = @ + MatchCluster(d, tr).near,
                !.event.arrayTracks = IF setup.fHasArray THEN @ + MatchArray(d, tr).near ELSE @,
                !.event.fClustSize = IF setup.fHasArray THEN LastLookedAt(d, tr) ELSE @]

Coarse(d, e, order, arrayOrder) ==
  FoldLeft(LAMBDA a, i : TrackEnergy(a, e, i),
           Clustered(Energies(d, e), order, arrayOrder), [i \in DOMAIN e.tracks |-> i])

---------------------------------------------------------------------------
(* FineProcess: what goes with the golden track, and the statistics.       *)

GoldenTrack(d, e) ==
  LET tr == e.tracks[e.golden]
      match == MatchCluster(d, tr)
      array == MatchArray(d, tr)
  IN  IF e.golden = 0 THEN d
      ELSE [d EXCEPT
              !.event.best = [mclust |-> match.mclust, etrack |-> d.event.energies[e.golden],
                              epr |-> GetShEnergy(d, tr, 1),
                              array |-> IF setup.fHasArray THEN array.mclust ELSE -1,
                              size |-> IF setup.fHasArray /\ array.mclust # 0
                                       THEN LastLookedAt(d, tr) ELSE 0],
              !.event.fNtracks = @ + 2 * match.near,
              !.event.arrayTracks = IF setup.fHasArray THEN @ + array.near ELSE @,
              !.event.fClustSize = IF setup.fHasArray THEN LastLookedAt(d, tr) ELSE @]

\* the blocks the first track goes through, if it passes the cuts
RowsPassed(e) ==
  LET tr == e.tracks[1]
  IN  IF tr.good THEN {h \in Layers \X Rows : /\ Magnitude(tr.x - XPos(h)) < setup.fStatSlop
                                              /\ tr.y > setup.fYPos[h[1]].right
                                              /\ tr.y < setup.fYPos[h[1]].left}
      ELSE {}
BlocksPassed(e) ==
  LET tr == e.tracks[1]
  IN  IF tr.good /\ setup.fHasArray
      THEN {h \in (1 .. NColumns) \X Rows : /\ Magnitude(tr.x - XPos(h)) < setup.fStatSlop
                                            /\ Magnitude(tr.y - YPos(h)) < setup.fStatSlop}
      ELSE {}

Count(counts, S) == [h \in DOMAIN counts |-> counts[h] + IF h \in S THEN 1 ELSE 0]

AccumulateStat(d, e) ==
  IF e.tracks = <<>> THEN d
  ELSE [d EXCEPT !.stat.rowTrk = Count(@, RowsPassed(e)),
                 !.stat.rowHit = Count(@, RowsPassed(e) \intersect HitSet(d)),
                 !.stat.trk = Count(@, BlocksPassed(e)),
                 !.stat.hit = Count(@, BlocksPassed(e) \intersect ArrayHits(d))]

Fine(d, e) == AccumulateStat(GoldenTrack(d, e), e)

---------------------------------------------------------------------------

NoEvent == [pedestal |-> TRUE]

Init ==
  /\ setup \in CalSetups
  /\ seen = 0 /\ event = NoEvent
  /\ det = NewShower /\ pc = "done"

Decode ==
  /\ pc = "done" /\ seen < setup.MaxEvents
  /\ event' \in CalEvents(setup)
  /\ det' = DecodeEvent(det, event')
  /\ pc' = IF event'.pedestal THEN "done" ELSE "decoded"
  /\ seen' = seen + 1
  /\ UNCHANGED setup

\* with the hits at whatever addresses
CoarseProcess ==
  /\ pc = "decoded"
  /\ \E order \in SetToSeqs(HitSet(Energies(det, event))) :
       \E arrayOrder \in SetToSeqs(ArrayHits(Energies(det, event))) :
         det' = Coarse(det, event, order, arrayOrder)
  /\ pc' = "coarse"
  /\ UNCHANGED <<setup, seen, event>>

FineProcess ==
  /\ pc = "coarse"
  /\ det' = Fine(det, event)
  /\ pc' = "done"
  /\ UNCHANGED <<setup, seen, event>>

Next == Decode \/ CoarseProcess \/ FineProcess

Spec == Init /\ [][Next]_vars

---------------------------------------------------------------------------
(* Properties.                                                             *)

TypeInvariant ==
  /\ seen \in 0 .. setup.MaxEvents /\ pc \in {"decoded", "coarse", "done"}
  /\ det.event.fNhits \in 0 .. NLayers * NRows /\ det.event.fEtot \in Int
  /\ ToSet(det.event.clusters) \subseteq SUBSET (Layers \X Rows)
  /\ ToSet(det.event.arrayClusters) \subseteq SUBSET ((1 .. NColumns) \X Rows)
  /\ det.event.best.mclust \in -1 .. Len(det.event.clusters)
  /\ det.event.best.array \in -1 .. Len(det.event.arrayClusters)
  /\ det.fAnalyzePedestals \in BOOLEAN

Analyzed == pc = "done" /\ ~event.pedestal
Clusters == pc = "coarse" \/ Analyzed

\* every pulse has a threshold of its own event
OwnThresholds ==
  /\ \A j \in Layers, s \in P!Sides :
       LET side == det.planes[j][s] IN DOMAIN side.pulses = P!Reports(side.pulses)
  /\ setup.fHasArray =>
       \A b \in DOMAIN event.array : event.array[b].pulses = <<>> => event.array[b].found = <<>>

\* What an event gives is what it gives in a calorimeter that has seen no event before,
\* if all pulses are reported ones (Clear, ProcessHits).
NothingStale ==
  Analyzed /\ setup.fADCMode = "dynamic" /\ ~setup.fUseSampWaveform /\ OwnThresholds =>
    LET fresh == Energies(DecodeHits(NewShower, event), event)
    IN  /\ det.event.fEtot = fresh.event.fEtot
        /\ UNION ToSet(det.event.clusters) = HitSet(fresh)
        /\ UNION ToSet(det.event.arrayClusters) = ArrayHits(fresh)
        /\ \A j \in Layers, b \in Rows : P!fEmean(det.planes[j], b) = P!fEmean(fresh.planes[j], b)

\* Once there were pedestal events, at every other event the pedestals and thresholds are
\* of all of them (Decode).
PedestalsAreCurrent ==
  Analyzed /\ det.fNPedestalEvents > 0 =>
    /\ \A j \in Layers : P!PedestalsAreCurrent(det.planes[j])
    /\ setup.fHasArray => A!PedestalsAreCurrent(det.array, event.array)

\* Every phototube has the pulse it should have (FillADC_DynamicPedestal).
PulsesAreChosen ==
  Clusters =>
    /\ \A j \in Layers : P!PulsesAreChosen(det.planes[j], event.planes[j], event.start)
    /\ setup.fHasArray => A!PulsesAreChosen(det.array, event.start)

\* The clusters partition the hits; hits of different clusters are not neighbours, and
\* a cluster cannot be parted without parting neighbours (ClusterHits).
AreComponents(list, H) ==
  /\ UNION ToSet(list) = H
  /\ \A i, j \in DOMAIN list : i # j =>
       /\ list[i] \intersect list[j] = {}
       /\ \A h \in list[i], k \in list[j] : ~isNeighbour(h, k)
  /\ \A i \in DOMAIN list : \A part \in SUBSET list[i] \ {{}, list[i]} :
       \E h \in part, k \in list[i] \ part : isNeighbour(h, k)
ClustersAreComponents ==
  Clusters =>
    /\ AreComponents(det.event.clusters, HitSet(det))
    /\ AreComponents(det.event.arrayClusters, ArrayHits(det))

\* The energy of the calorimeter is that of its clusters and of the blocks that are not
\* hits because their integrals are not positive.
EnergyIsOfClusters ==
  Clusters /\ setup.fADCMode = "dynamic" =>
    det.event.fEtot =
      SumOver(DOMAIN det.event.clusters, LAMBDA i : clE(det.event.clusters[i], LAMBDA h : HitE(det, h)))
      + SumOver((Layers \X Rows) \ HitSet(det), LAMBDA h : HitE(det, h))
      + IF setup.fHasArray
        THEN SumOver(DOMAIN det.event.arrayClusters,
                     LAMBDA i : clE(det.event.arrayClusters[i], LAMBDA h : ArrayE(det, h)))
             + SumOver({b \in Blocks : det.array.good[b] <= 0}, LAMBDA b : det.array.fE[b])
        ELSE 0

\* The golden track has a cluster if one is near, and no other is nearer; without one
\* it has no energy of the layers (MatchCluster, FineProcess).
MatchIsNearest ==
  Analyzed /\ event.golden # 0 =>
    LET best == det.event.best
        tr == event.tracks[event.golden]
        away(i) == Away(clX(det, det.event.clusters[i]), tr.x)
        outside == setup.fvTest /\ ~tr.inside
    IN  /\ best.mclust = 0 <=>
             outside \/ \A i \in DOMAIN det.event.clusters : ~AtMost(away(i), 1 + setup.fSlop)
        /\ best.mclust # 0 => \A i \in DOMAIN det.event.clusters : ~Closer(away(i), away(best.mclust))
        /\ best.mclust = 0 => best.epr = 0
        /\ best.mclust = 0 /\ ~setup.fHasArray => best.etrack = 0

\* What FineProcess counts is of the first track, if it passes the cuts.  In a layer that it
\* passes between the edges, the block nearest to it is counted if any is, and no layer
\* counts more than its neighbours; a block that is counted has a hit if it belongs to a
\* cluster.  The other steps count nothing (AccumulateStat).
MoreTracks(block) == det'.stat.rowTrk[block] - det.stat.rowTrk[block]
MoreHits(block) == det'.stat.rowHit[block] - det.stat.rowHit[block]
InClusters(clusters, block) == \E c \in ToSet(clusters) : block \in c
EfficienciesAreTrue ==
  /\ pc # "coarse" => det'.stat = det.stat
  /\ pc = "coarse" =>
       /\ \A j \in Layers :
            LET tr == event.tracks[1]
                counted == {b \in Rows : MoreTracks(<<j, b>>) # 0}
                away(b) == Magnitude(tr.x - XPos(<<j, b>>))
            IN  counted # {} =>
                  /\ event.tracks # <<>> /\ tr.good
                  /\ ~(tr.y <= setup.fYPos[j].right \/ setup.fYPos[j].left <= tr.y)
                  /\ \A b \in Rows : (\A k \in Rows : away(b) <= away(k)) => b \in counted
                  /\ \A b, k \in counted : Magnitude(b - k) <= 1
       /\ \A block \in Layers \X Rows :
            MoreHits(block) = IF InClusters(det.event.clusters, block) THEN MoreTracks(block) ELSE 0
       /\ \A block \in DOMAIN det.stat.trk :
            det'.stat.hit[block] - det.stat.hit[block] =
              IF InClusters(det.event.arrayClusters, block)
              THEN det'.stat.trk[block] - det.stat.trk[block] ELSE 0
=============================================================================
