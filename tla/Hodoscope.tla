------------------------------ MODULE Hodoscope ------------------------------
(***************************************************************************)
(* THcHodoscope: from the hits of the paddles of planes 1 .. 4 (x, y, x,   *)
(* y) the start time, the velocity, the time of each track and the test    *)
(* whether there should be a track.                                        *)
(*                                                                         *)
(* A hit has the ends whose TDC value is in range, whether both ends are   *)
(* good, their times at the focal plane (from the TDC, from the ADC), and  *)
(* the place along the paddle.  Light goes one unit of z in one of time;   *)
(* tracks are along z.  A track is where it is in each plane.              *)
(*                                                                         *)
(* fNumPlanesBetaCalc is 4.                                                *)
(***************************************************************************)
EXTENDS Integers, SequencesExt, FiniteSetsExt

CONSTANTS
  NBinsX,            \* the bins of hTime
  fTofTolerance,
  hTimeScanRange,    \* 10
  Apart,             \* 5, the distance of two peaks
  MinimumNum,        \* 2, a window with more may be a peak
  Enough,            \* 5, a peak with more is preferred
  Alike,             \* 4, the difference of numbers that are alike
  fStartTimeCenter,
  MaxNCluster,       \* 5
  HodoSetups,        \* the parameters, as they may be set, and the bound MaxEvents
  HodoEvents(_),     \* the events for a setup
  Histograms,        \* histograms to search for their peak alone
  StrayReads         \*   and the steps at which the value past the end matters

VARIABLES setup, seen, event, det, pc

vars == <<setup, seen, event, det, pc>>

Planes == 1 .. 4
Ends == {"pos", "neg"}

SumOver(S, f(_)) == MapThenSumSet(f, S)
Dist(a, b) == IF a < b THEN b - a ELSE a - b

\* the hits of all planes
Hits(e) == UNION {{<<ip, i>> : i \in DOMAIN e.planes[ip]} : ip \in Planes}
HitOf(e, h) == e.planes[h[1]][h[2]]

\* hTime, filled with the times of S, a set of places <<.., ..>> with a time each
Histogram(S, time(_)) == [b \in 1 .. NBinsX |-> Cardinality({s \in S : time(s) = b})]

InTolerance(time, peak) == Dist(time * peak.num, peak.sum) < fTofTolerance * peak.num

Position(p) == 2 * p
ZPos(h, paddle) == 4 * h[1] + ((paddle - 1) % 2)

NoFit == [num |-> 0, den |-> 0]

---------------------------------------------------------------------------
(* DetermineTimePeak: the time at which most ends of paddles fired.  A     *)
(* window slides over the histogram of their times; where its content      *)
(* stops growing there is a peak, of which the best is taken.  A peak is   *)
(* the number of entries in its window and the sum of their bins; its time *)
(* is the mean, sum / num.                                                 *)

Window(hist, nb) ==
  [num |-> MapThenSumSet(LAMBDA i : hist[i], nb .. nb + hTimeScanRange),
   sum |-> MapThenSumSet(LAMBDA i : i * hist[i], nb .. nb + hTimeScanRange)]

Near(p, q) == Dist(p.sum * q.num, q.sum * p.num) < Apart * p.num * q.num

\* A peak that has ended is new, or better than the last, or left out. Whether it is new
\* also depends on hpeakBin[ps], an element past the end of the vector.
EndPeak(peaks, save, stray) ==
  IF peaks = <<>> THEN <<save>>
  ELSE IF Near(save, Last(peaks))
       THEN IF save.num > Last(peaks).num THEN Append(Front(peaks), save) ELSE peaks
       ELSE IF stray THEN peaks ELSE Append(peaks, save)

Slide(hist, x, nb, strays) ==
  LET w == Window(hist, nb)
  IN  IF ~x.scanning
      THEN IF w.num > MinimumNum THEN [x EXCEPT !.scanning = TRUE, !.save = w] ELSE x
      ELSE IF w.num > x.save.num THEN [x EXCEPT !.save = w]
      ELSE [x EXCEPT !.scanning = FALSE, !.peaks = EndPeak(@, x.save, nb \in strays)]

Scan(hist, strays) ==
  FoldLeft(LAMBDA x, nb : Slide(hist, x, nb, strays),
           [peaks |-> <<>>, scanning |-> FALSE, save |-> [num |-> 0, sum |-> 0]],
           [nb \in 1 .. NBinsX - hTimeScanRange - 1 |-> nb])

\* One peak among the candidates: the first, one like them, or one much larger, which
\* then is the only one but is not flagged.
Consider(y, num, np) ==
  LET alike == Dist(num, y.best) <= Alike
  IN  IF num <= Enough \/ (num < y.best /\ ~alike) THEN y
      ELSE IF y.nfound = 0 THEN [best |-> num, index |-> np, flagged |-> {np}, nfound |-> 1]
      ELSE IF alike THEN [y EXCEPT !.flagged = @ \union {np}, !.nfound = @ + 1]
      ELSE [best |-> num, index |-> np, flagged |-> {}, nfound |-> 1]

\* the first of those closest to the expected time
Central(peaks, indices) ==
  LET off(p) == Dist(p.sum, fStartTimeCenter * p.num)
      closest == {i \in indices : \A j \in indices :
                    off(peaks[i]) * peaks[j].num <= off(peaks[j]) * peaks[i].num}
  IN  Min(closest)

BestPeak(peaks) ==
  LET y == FoldLeft(LAMBDA z, np : Consider(z, peaks[np].num, np),
                    [best |-> Enough, index |-> 0, flagged |-> {}, nfound |-> 0],
                    [np \in DOMAIN peaks |-> np])
  IN  IF y.nfound = 0 THEN Central(peaks, DOMAIN peaks)
      ELSE IF y.nfound = 1 THEN y.index ELSE Central(peaks, y.flagged)

NoPeak == [num |-> 0, sum |-> 0]

DetermineTimePeak(hist, strays) ==
  LET peaks == Scan(hist, strays).peaks
  IN  IF peaks = <<>> THEN NoPeak ELSE peaks[BestPeak(peaks)]

---------------------------------------------------------------------------
(* The velocity: a straight line through the times, weighted.              *)

Velocity(tmp, tmpDenom) == IF tmpDenom # 0 THEN [num |-> tmp, den |-> tmpDenom] ELSE NoFit

OfSums(sumW, sumT, sumZ, sumZZ, sumTZ) ==
  Velocity(sumW * sumZZ - sumZ * sumZ, sumW * sumTZ - sumZ * sumT)

\* The hits are records of a weight w, a time t and a place z; the velocity is num / den.
Fit(hits) ==
  OfSums(SumOver(hits, LAMBDA h : h.w), SumOver(hits, LAMBDA h : h.w * h.t), SumOver(hits, LAMBDA h : h.w * h.z),
         SumOver(hits, LAMBDA h : h.w * h.z * h.z), SumOver(hits, LAMBDA h : h.w * h.z * h.t))

\* one of the first two planes and one of the last two
FrontAndBack(P) == P \intersect {1, 2} # {} /\ P \intersect {3, 4} # {}

---------------------------------------------------------------------------
(* EstimateFocalPlaneTime *)

Cleared ==
  [fBeta |-> NoFit, fBetaNoTrk |-> NoFit, fGoodStartTime |-> FALSE,
   fStartTime |-> [sum |-> -1000, n |-> 1], fADCStartTime |-> "unset",
   fFPTimeAll |-> [sum |-> -1000, n |-> 1], twogoodtimes |-> {}, fNfptimes |-> 0,
   fFPTime |-> [ip \in Planes |-> 0], goodflags |-> <<>>, tracks |-> <<>>,
   clusters |-> [ip \in Planes |-> <<>>], scinpos |-> [ip \in Planes |-> <<>>],
   used |-> {}, fGoodScinHits |-> 0, fHitDistance |-> [ip \in Planes |-> <<>>]]

\* What stays when the event is cleared: the planes' fFptime and fNGoodHits, and
\* fGoodEventTOFCalib.
NewHodoscope ==
  [event |-> Cleared, fGoodEventTOFCalib |-> FALSE,
   planes |-> [ip \in Planes |-> [fFptime |-> [sum |-> 0, n |-> 0], fNGoodHits |-> 0]]]

\* the hits with both times near the peak
InTime(e, peak, source) ==
  {h \in Hits(e) : /\ HitOf(e, h).both
                   /\ \A s \in Ends : InTolerance(HitOf(e, h)[source][s], peak)}

PeakOf(e, source) ==
  DetermineTimePeak(
    Histogram({<<h, s>> : h \in {x \in Hits(e) : HitOf(e, x).both}, s \in Ends},
              LAMBDA p : HitOf(e, p[1])[source][p[2]]), e.strays)

PlaneOf(H, ip) == {h \in H : h[1] = ip}
PlanesOf(H) == {h[1] : h \in H}

\* the planes from the first with a good ADC time on: the number is not reset
AdcPlanes(H) == {ip \in Planes : \E jp \in PlanesOf(H) : jp <= ip}

FpTime(e, h) == (HitOf(e, h).fp["pos"] + HitOf(e, h).fp["neg"]) \div 2
SumAndNumber(S, f(_)) == [sum |-> SumOver(S, f), n |-> Cardinality(S)]

GoodHits(e, peak, source) == IF peak.num = 0 THEN {} ELSE InTime(e, peak, source)

\* with the hits that are good by their TDC, and those that are so by their ADC
WithGoodHits(d, e, hasPeak, good, adcGood) ==
  LET start == Cardinality(PlanesOf(good)) >= 3
      startTime == IF start THEN SumAndNumber(good, LAMBDA h : FpTime(e, h))
                   ELSE [sum |-> fStartTimeCenter, n |-> 1]
      fit == start /\ FrontAndBack(PlanesOf(good))
      z(h) == ZPos(h, HitOf(e, h).paddle)
  IN  [d EXCEPT
         !.planes = [ip \in Planes |->
            LET mine == PlaneOf(good, ip)
            IN  [fFptime |-> IF mine = {} THEN d.planes[ip].fFptime
                             ELSE SumAndNumber(mine, LAMBDA h : FpTime(e, h)),
                 fNGoodHits |-> IF hasPeak THEN Cardinality(mine) ELSE d.planes[ip].fNGoodHits]],
         !.fGoodEventTOFCalib =
            IF fit THEN \A ip \in Planes : Cardinality(PlaneOf(good, ip)) = 1 ELSE @,
         !.event.twogoodtimes = good,
         !.event.fNfptimes = Cardinality(good),
         !.event.fGoodStartTime = start,
         !.event.fStartTime = startTime, !.event.fFPTimeAll = startTime,
         !.event.fADCStartTime =
            IF ~start THEN "centre" ELSE IF Cardinality(AdcPlanes(adcGood)) >= 3 THEN "adc" ELSE @,
         !.event.fBetaNoTrk =
            IF fit THEN Fit({[h |-> h, w |-> 1, t |-> FpTime(e, h) + z(h), z |-> z(h)] : h \in good}) ELSE @]

WithPeaks(d, e, peak, adcPeak) ==
  WithGoodHits(d, e, peak.num # 0, GoodHits(e, peak, "fp"), IF peak.num = 0 THEN {} ELSE GoodHits(e, adcPeak, "adc"))

EstimateFocalPlaneTime(d, e) == WithPeaks(d, e, PeakOf(e, "fp"), PeakOf(e, "adc"))

---------------------------------------------------------------------------
(* CoarseProcess: each track *)

OnTrack(e, t, h) == Dist(Position(HitOf(e, h).paddle), t.at[h[1]]) < setup.fHodoSlop

\* the ends that have a time for the track; a single end only if it is asked for
TimedEnds(e, h) ==
  IF HitOf(e, h).tdc = Ends \/ setup.fTrackBetaIncludeSinglePmtHits THEN HitOf(e, h).tdc ELSE {}

Timed(e, t) ==
  {<<h, s>> : h \in {x \in Hits(e) : OnTrack(e, t, x)}, s \in Ends}
    \intersect UNION {{<<h, s>> : s \in TimedEnds(e, h)} : h \in Hits(e)}

InPeak(e, timed, peak) ==
  IF peak.num = 0 THEN {} ELSE {p \in timed : InTolerance(HitOf(e, p[1]).fp[p[2]], peak)}

Kept(e, timed) ==
  InPeak(e, timed, DetermineTimePeak(Histogram(timed, LAMBDA p : HitOf(e, p[1]).fp[p[2]]), e.strays))

\* The track, of the ends kept for it: its velocity and its time at the focal plane. The
\* good hits are those with an end kept, each with the number of its ends, twice its time
\* and twice its place.
TrackTimes(e, kept, startTime) ==
  LET good == {LET ends == {s \in Ends : <<h, s>> \in kept}
                   time == (2 * SumOver(ends, LAMBDA s : HitOf(e, h).fp[s])) \div Cardinality(ends)
                   z == 2 * ZPos(h, HitOf(e, h).paddle)
               IN  [plane |-> h[1], h |-> h, w |-> Cardinality(ends), time |-> time, t |-> time + z, z |-> z] :
                 h \in {p[1] : p \in kept}}
      planes == {h.plane : h \in good}
      mean(hits) == [sum |-> SumOver(hits, LAMBDA h : h.time), n |-> 2 * Cardinality(hits)]
  IN  [kept |-> kept, nPmtHit |-> Cardinality(kept),
       planes |-> [ip \in Planes |-> IF ip \in planes THEN mean({h \in good : h.plane = ip})
                                     ELSE [sum |-> 1000 * ip, n |-> 1]],
       fptime |-> IF Cardinality(planes) < 3 THEN startTime ELSE mean(good),
       beta |-> IF FrontAndBack(planes) THEN Fit(good) ELSE NoFit]

WithTracks(d, tracks) ==
  [d EXCEPT !.event.tracks = tracks,
            !.event.fFPTime = IF tracks = <<>> THEN @ ELSE Last(tracks).planes,
            !.event.fFPTimeAll = IF tracks = <<>> THEN @ ELSE Last(tracks).fptime]

TrackTimesOf(d, e) ==
  WithTracks(d, [t \in DOMAIN e.tracks |-> TrackTimes(e, Kept(e, Timed(e, e.tracks[t])), d.event.fStartTime)])

---------------------------------------------------------------------------
(* TrackEffTest: runs of paddles with two good times, and whether those of *)
(* the planes match.                                                       *)

\* The next hit joins the last cluster, or begins one; when there are too many the last
\* is begun again.
Join(cs, p, adjacent) ==
  IF cs # <<>> /\ adjacent THEN Append(Front(cs), Append(Last(cs), p))
  ELSE Append(IF Len(cs) = MaxNCluster THEN Front(cs) ELSE cs, <<p>>)

\* the paddles of a plane's hits with two good times, in the order of the hits
TwoGood(d, e, ip) ==
  LET good == SetToSortSeq({i \in DOMAIN e.planes[ip] : <<ip, i>> \in d.event.twogoodtimes}, <)
  IN  [i \in DOMAIN good |-> e.planes[ip][good[i]]]

Clusters(d, e, ip) ==
  FoldLeft(LAMBDA cs, h : Join(cs, h.paddle, cs # <<>> /\ h.paddle = Last(Last(cs)) + 1),
           <<>>, TwoGood(d, e, ip))

\* the mean position of a cluster, doubled
Middle(c) == Position(c[1]) + Position(Last(c))

\* inside the fiducial paddles, and not too wide
GoodCluster(c) == c[1] + Last(c) \in 2 * setup.lo .. 2 * setup.hi /\ Len(c) <= 3

Match(c, d) == Dist(Middle(c), Middle(d)) < 2 * setup.trackeff_scint_diff_max

GoodOnes(clusters, ip) == {i \in DOMAIN clusters[ip] : GoodCluster(clusters[ip][i])}

\* the test of the last pair of good clusters, which is the one that counts
LastPair(clusters, ip, jp) ==
  /\ GoodOnes(clusters, ip) # {} /\ GoodOnes(clusters, jp) # {}
  /\ Match(clusters[ip][Max(GoodOnes(clusters, ip))], clusters[jp][Max(GoodOnes(clusters, jp))])

UsedOnes(clusters, ip, jp) ==
  UNION {{<<ip, i>>, <<jp, j>>} : <<i, j>> \in
    {p \in GoodOnes(clusters, ip) \X GoodOnes(clusters, jp) : Match(clusters[ip][p[1]], clusters[jp][p[2]])}}

\* Mutant: in the last planes the clusters of the first are looked at.
MatchingPlanes_Same(clusters) ==
  LET hit == {ip \in Planes : GoodOnes(clusters, ip) # {}}
  IN  CASE Cardinality(hit) = 4 -> LastPair(clusters, 1, 3) /\ LastPair(clusters, 2, 2)
        [] setup.fTrackEffTestNScinPlanes = 3 /\ Cardinality(hit) = 3 ->
             /\ clusters[2] = <<>> => LastPair(clusters, 1, 3)
             /\ {1, 3} \subseteq hit \/ LastPair(clusters, 2, 4)
        [] OTHER -> FALSE

\* Four planes: the last pairs match in x and in y. Three: with two y planes, the last pair
\* matches in y, and x is taken as good; with two x planes y is taken as good, and x too
\* if there is any cluster in plane 2.
MatchingPlanes(clusters) ==
  LET hit == {ip \in Planes : GoodOnes(clusters, ip) # {}}
  IN  CASE Cardinality(hit) = 4 -> LastPair(clusters, 1, 3) /\ LastPair(clusters, 2, 4)
        [] setup.fTrackEffTestNScinPlanes = 3 /\ Cardinality(hit) = 3 ->
             /\ clusters[2] = <<>> => LastPair(clusters, 1, 3)
             /\ {1, 3} \subseteq hit \/ LastPair(clusters, 2, 4)
        [] OTHER -> FALSE

WithClusters(d, clusters) ==
  LET all == \A ip \in Planes : GoodOnes(clusters, ip) # {}
  IN  [d EXCEPT !.event.clusters = clusters,
                !.event.used = IF all THEN UsedOnes(clusters, 1, 3) \union UsedOnes(clusters, 2, 4) ELSE {},
                !.event.fGoodScinHits = IF MatchingPlanes(clusters) THEN 1 ELSE 0]

TrackEffTest(d, e) == WithClusters(d, [ip \in Planes |-> Clusters(d, e, ip)])

---------------------------------------------------------------------------
(* CalcCluster: pairs of paddles, and the pair of planes' clusters that    *)
(* belong together.                                                        *)

\* at most two adjacent paddles, in either order
Pairs(d, e, ip) ==
  FoldLeft(LAMBDA cs, h : Join(cs, h, cs # <<>> /\ Len(Last(cs)) = 1
                                      /\ Dist(Last(Last(cs)).paddle, h.paddle) = 1),
           <<>>, TwoGood(d, e, ip))

\* x and y of a cluster, doubled
Place(c, ip) ==
  LET across == (2 * SumOver(DOMAIN c, LAMBDA i : Position(c[i].paddle))) \div Len(c)
      along == (2 * SumOver(DOMAIN c, LAMBDA i : c[i].along)) \div Len(c)
  IN  IF ip \in {1, 3} THEN [x |-> across, y |-> along] ELSE [x |-> along, y |-> across]

\* Of candidates with a distance in x and one in y: the first if it is taken as it is, and
\* then each that is no further in both.
Nearest(cands, dx(_), dy(_), first) ==
  FoldLeft(LAMBDA best, c :
             IF \/ best = <<>> /\ (first \/ (dx(c) <= 2000 /\ dy(c) <= 2000))
                \/ best # <<>> /\ dx(c) <= dx(best) /\ dy(c) <= dy(best)
             THEN c ELSE best, <<>>, cands)

BestClusters(places) ==
  LET n(ip) == Len(places[ip])
      dist(p, q, a) == Dist(p[a], q[a])
      all(ip, jp) == FlattenSeq([i \in 1 .. n(ip) |-> [j \in 1 .. n(jp) |-> <<i, j>>]])
      two(ip) ==
        Nearest(all(ip, ip + 1), LAMBDA p : dist(places[ip][p[1]], places[ip + 1][p[2]], "x"),
                LAMBDA p : dist(places[ip][p[1]], places[ip + 1][p[2]], "y"), TRUE)
      first == [ip \in Planes |->
        LET low == IF ip \in {1, 2} THEN 1 ELSE 3
        IN  IF n(low) > 0 /\ n(low + 1) > 0 THEN two(low)[ip - low + 1] ELSE IF n(ip) = 1 THEN 1 ELSE 0]
      other == <<3, 4, 1, 2>>
      \* a plane without one takes that closest to the other plane of its kind
      fill(best, ip) ==
        IF n(ip) > 0 /\ best[ip] = 0 /\ best[other[ip]] > 0
        THEN LET at == places[other[ip]][best[other[ip]]]
                 near == Nearest([i \in 1 .. n(ip) |-> <<i>>], LAMBDA p : dist(places[ip][p[1]], at, "x"),
                                 LAMBDA p : dist(places[ip][p[1]], at, "y"), FALSE)
             IN  [best EXCEPT ![ip] = IF near = <<>> THEN 0 ELSE near[1]]
        ELSE best
  IN  FoldLeft(fill, first, <<1, 2, 3, 4>>)

PlacesOf(clusters, ip) == [i \in DOMAIN clusters |-> Place(clusters[i], ip)]

WithBest(d, places, best) ==
  [d EXCEPT !.event.scinpos = [ip \in Planes |-> IF best[ip] = 0 THEN <<>> ELSE <<places[ip][best[ip]]>>]]

WithPlaces(d, places) == WithBest(d, places, BestClusters(places))

CalcCluster(d, e) == WithPlaces(d, [ip \in Planes |-> PlacesOf(Pairs(d, e, ip), ip)])

---------------------------------------------------------------------------
(* FineProcess: the golden track's distance to the paddles. The good hits  *)
(* are those of fTOFCalc, which holds the last track's.                    *)

FineProcess(d, e) ==
  IF e.tracks = <<>> THEN d
  ELSE LET golden == e.tracks[e.golden]
           times == d.event.tracks[e.golden]
           bothGood == {h \in Hits(e) : \A s \in Ends : <<h, s>> \in Last(d.event.tracks).kept}
       IN  [d EXCEPT !.event.fBeta = times.beta, !.event.fFPTimeAll = times.fptime,
                     !.event.fHitDistance = [ip \in Planes |->
              LET mine == PlaneOf(bothGood, ip)
              IN  IF mine = {} THEN <<>>
                  ELSE <<<<golden.at[ip] * Cardinality(mine)
                             - SumOver(mine, LAMBDA h : Position(HitOf(e, h).paddle)), Cardinality(mine)>>>>]]

---------------------------------------------------------------------------

NoEvent == [planes |-> [ip \in Planes |-> <<>>], tracks |-> <<>>, golden |-> 0, strays |-> {}]

Init == setup \in HodoSetups /\ seen = 0 /\ event = NoEvent /\ det = NewHodoscope /\ pc = "done"

Clear(d) == [d EXCEPT !.event = Cleared]

Decode ==
  /\ pc = "done" /\ seen < setup.MaxEvents
  /\ event' \in HodoEvents(setup)
  /\ seen' = seen + 1 /\ pc' = "decoded"
  /\ det' = IF Hits(event') = {} THEN Clear(det) ELSE EstimateFocalPlaneTime(Clear(det), event')
  /\ UNCHANGED setup

CoarseProcess ==
  /\ pc = "decoded" /\ pc' = "coarse"
  /\ det' = CalcCluster(TrackEffTest(TrackTimesOf(det, event), event), event)
  /\ UNCHANGED <<setup, seen, event>>

Fine ==
  /\ pc = "coarse" /\ pc' = "done"
  /\ det' = FineProcess(det, event)
  /\ UNCHANGED <<setup, seen, event>>

Next == Decode \/ CoarseProcess \/ Fine

Spec == Init /\ [][Next]_vars

---------------------------------------------------------------------------

TypeInvariant ==
  /\ seen \in 0 .. setup.MaxEvents /\ pc \in {"decoded", "coarse", "done"}
  /\ det.event.twogoodtimes \subseteq Hits(event) /\ det.fGoodEventTOFCalib \in BOOLEAN
  /\ det.event.fGoodScinHits \in {0, 1}

Done == seen > 0 /\ pc = "done"

\* What an event gives does not depend on the one before it.
NothingStale ==
  Done => det.event = FineProcess(CalcCluster(TrackEffTest(TrackTimesOf(
            IF Hits(event) = {} THEN NewHodoscope ELSE EstimateFocalPlaneTime(NewHodoscope, event),
            event), event), event), event).event

\* A good start time comes from three planes, is that of hits whose ends agree, and no
\* hit that is used is further from the start time than twice the tolerance.
StartTimeIsOfThree ==
  Done /\ det.event.fGoodStartTime =>
    LET s == det.event.fStartTime
    IN  /\ Cardinality(PlanesOf(det.event.twogoodtimes)) >= 3
        /\ s.n = Cardinality(det.event.twogoodtimes) /\ s.n > 0
        /\ \A h \in det.event.twogoodtimes :
             /\ HitOf(event, h).both
             /\ \A e \in Ends : Dist(HitOf(event, h).fp[e] * s.n, s.sum) < 2 * fTofTolerance * s.n

\* The time of the golden track is a mean of times of its own paddles in three planes, or
\* the start time; with hits at the time of a particle of the expected velocity, it has
\* that velocity.
TrackTimeIsOwn ==
  Done /\ event.tracks # <<>> =>
    LET t == event.tracks[event.golden]
        own == {h \in Hits(event) : OnTrack(event, t, h)}
        times == UNION {{HitOf(event, h).fp[s] : s \in HitOf(event, h).tdc} : h \in own}
        f == det.event.fFPTimeAll
    IN  /\ \/ f = det.event.fStartTime
           \/ Cardinality(PlanesOf(own)) >= 3 /\ \E a, b \in times : a * f.n <= f.sum /\ f.sum <= b * f.n
        /\ Cardinality(times) = 1 /\ det.event.fBeta # NoFit => det.event.fBeta.num = det.event.fBeta.den

\* With one good cluster in each plane, the event should have a track when, and only when,
\* they match, front to back, in x and in y.
GoodHitsMatch ==
  Done /\ (\A ip \in Planes : Cardinality(GoodOnes(det.event.clusters, ip)) = 1) =>
    (det.event.fGoodScinHits = 1 <=>
       \A ip \in {1, 2} : \E i \in DOMAIN det.event.clusters[ip], j \in DOMAIN det.event.clusters[ip + 2] :
         /\ GoodCluster(det.event.clusters[ip][i]) /\ GoodCluster(det.event.clusters[ip + 2][j])
         /\ Match(det.event.clusters[ip][i], det.event.clusters[ip + 2][j]))

\* With hits in three planes the two of a kind among them match.
ThreePlanesMatch ==
  Done /\ det.event.fGoodScinHits = 1 =>
    \A ip \in {1, 2} :
      GoodOnes(det.event.clusters, ip) # {} /\ GoodOnes(det.event.clusters, ip + 2) # {} =>
        LastPair(det.event.clusters, ip, ip + 2)

\* The place of a plane's hit is a place of one of its clusters of one or two paddles with
\* good times; a plane that has just one such hit has its place.
PlacesAreOfClusters ==
  Done => \A ip \in Planes :
    LET hits == {i \in DOMAIN event.planes[ip] : <<ip, i>> \in det.event.twogoodtimes}
        at(i) == event.planes[ip][i]
        x(i) == IF ip \in {1, 3} THEN Position(at(i).paddle) ELSE at(i).along
    IN  det.event.scinpos[ip] # <<>> =>
          \E i, j \in hits : /\ Dist(at(i).paddle, at(j).paddle) <= 1
                             /\ det.event.scinpos[ip][1].x = x(i) + x(j)

---------------------------------------------------------------------------
(* DetermineTimePeak alone, for more histograms than the events have.     *)

PeakInit ==
  /\ setup = 0 /\ seen = 0 /\ pc = "scan"
  /\ event \in [hist : Histograms, strays : StrayReads] /\ det = NoPeak

Determine ==
  /\ pc = "scan" /\ pc' = "done"
  /\ det' = DetermineTimePeak(event.hist, event.strays)
  /\ UNCHANGED <<setup, seen, event>>

PeakNext == Determine

PeakTypes == det.num \in Nat /\ det.sum \in Nat /\ pc \in {"scan", "done"}

\* If a window holds enough entries, so does the peak that is taken, and it is not much
\* weaker than any; unless the scan ended on the way up, or a peak was dropped for the
\* value past the end. Candidates are alike to one of them, not to each other, hence twice.
PeakIsStrong ==
  LET largest == Max({Window(event.hist, nb).num : nb \in 1 .. NBinsX - hTimeScanRange - 1})
  IN  pc = "done" /\ event.strays = {} /\ ~Scan(event.hist, {}).scanning /\ largest > Enough =>
        det.num > Enough /\ largest <= det.num + 2 * Alike
=============================================================================
