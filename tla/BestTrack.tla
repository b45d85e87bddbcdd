------------------------------- MODULE BestTrack -------------------------------
(***************************************************************************)
(* THcHallCSpectrometer: which of the tracks of an event is the golden     *)
(* one.  FindVertices chooses with one of three methods and marks its      *)
(* choice by the index 0; TrackCalc takes the track with that index.       *)
(*                                                                         *)
(* A track has its number in the drift chambers, its chi2 and degrees of   *)
(* freedom, the prune tests it fails, whether it is inside the cuts on     *)
(* energy loss, velocity and energy, and the paddles of the last two       *)
(* planes (x2, y2) it goes through.                                        *)
(***************************************************************************)
EXTENDS Integers, SequencesExt, FiniteSetsExt

CONSTANTS
  TrackSetups,       \* the parameters, as they may be set, and the bound MaxEvents
  TrackEvents(_)     \* the events for a setup

VARIABLES setup, seen, event, det, pc

vars == <<setup, seen, event, det, pc>>

\* the tests of BestTrackUsingPrune, in their order
Tests == <<"xptar", "yptar", "ytar", "delta", "dipole", "beta", "ndof", "npmt", "betachi2",
           "fptime", "y2", "x2">>

\* 0 is no track: fGoodTrack is -1, fGoldenTrack is NULL.  fTrack.. are kept from event
\* to event.
NewSpectrometer ==
  [tracks |-> <<>>, index |-> <<>>, keep |-> {}, fGoodTrack |-> 0, fGoldenTrack |-> 0,
   fPruneSelect |-> -1, focalPlane |-> 0]

\* chi2 per degree of freedom is infinite without any; otherwise a comes before b
Smaller(a, b) == a.ndof > 0 /\ (b.ndof = 0 \/ a.chi2 * b.ndof < b.chi2 * a.ndof)

\* the first of the tracks of S with the smallest chi2 per degree, 0 if there is none
FirstSmallest(tracks, S) ==
  LET finite == {i \in S : tracks[i].ndof > 0}
      least == {i \in finite : \A j \in finite : ~Smaller(tracks[j], tracks[i])}
  IN  IF least = {} THEN 0 ELSE Min(least)

Chosen(tracks, best) == [i \in DOMAIN tracks |-> IF i = best THEN 0 ELSE 1]

---------------------------------------------------------------------------
(* The methods *)

\* the order of the tracks by their chi2
Sorted(tracks) == SortSeq(tracks, LAMBDA a, b : a.chi2 < b.chi2)

BestTrackSimple(d, e) ==
  LET tracks == IF setup.fTrSorting THEN Sorted(e.tracks) ELSE e.tracks
  IN  [d EXCEPT !.tracks = tracks, !.index = Chosen(tracks, 1)]

\* how far the paddle of a track is from the nearest one hit, 0 when none is hit
Distance(paddle, hit) ==
  IF hit = {} THEN 0
  ELSE Min({IF h < paddle THEN paddle - h ELSE h - paddle : h \in hit})

x2D(e, t) == IF Len(e.tracks) > 1 THEN Distance(t.x2, e.x2Hits) ELSE 0
y2D(e, t) == IF Len(e.tracks) > 1 THEN Distance(t.y2, e.y2Hits) ELSE 0

\* the next turn of the search for the track nearest to the hits
ScinTurn(e, best, i) ==
  LET t == e.tracks[i]
      x2Dmin == IF y2D(e, t) < best.y2 THEN 100 ELSE best.x2
      nearer == y2D(e, t) < best.y2 \/ x2D(e, t) < x2Dmin
      better == nearer \/ Smaller(t, e.tracks[best.good])
  IN  IF /\ t.ndof > setup.fSelNDegreesMin /\ t.inCuts
         /\ y2D(e, t) <= best.y2 /\ x2D(e, t) <= x2Dmin /\ better
      THEN [good |-> i, y2 |-> y2D(e, t), x2 |-> x2D(e, t)] ELSE best

\* the index is only set when no track passes the cuts
BestTrackUsingScin(d, e) ==
  LET best == FoldLeft(LAMBDA b, i : ScinTurn(e, b, i), [good |-> 0, y2 |-> 100, x2 |-> 100],
                       [i \in DOMAIN e.tracks |-> i])
      fallback == FirstSmallest(e.tracks, {i \in DOMAIN e.tracks : e.tracks[i].ndof > setup.fSelNDegreesMin})
  IN  IF e.tracks = <<>> THEN [d EXCEPT !.tracks = <<>>, !.index = <<>>]
      ELSE IF best.good # 0
      THEN [d EXCEPT !.tracks = e.tracks, !.index = [i \in DOMAIN e.tracks |-> setup.newIndex],
                     !.fGoodTrack = best.good, !.fGoldenTrack = best.good]
      ELSE [d EXCEPT !.tracks = e.tracks, !.index = Chosen(e.tracks, fallback),
                     !.fGoodTrack = fallback]

EnforcePruneLimits == [fPruneDf |-> Max({1, setup.fPruneDf})]

Fails(t, test) ==
  IF test = "ndof" THEN t.ndof < EnforcePruneLimits.fPruneDf ELSE test \in t.fails

\* the test on the exit of the dipole only counts when it is asked for
Counts(test) == test # "dipole" \/ setup.fPruneDipoleExit

\* Mutant: a test counts the good tracks among all, not among those that are left.
Prune_All(e, p, n) ==
  LET passing == {i \in DOMAIN e.tracks : ~Fails(e.tracks[i], Tests[n]) /\ Counts(Tests[n])}
      good == p.keep \intersect passing
  IN  [keep |-> IF passing # {} THEN good ELSE p.keep,
       select |-> IF Cardinality(good) = 1 /\ p.select = 0 /\ Len(e.tracks) > 1 THEN n ELSE p.select]

\* test n: the tracks that fail it go, unless all do
Prune(e, p, n) ==
  LET good == {i \in p.keep : ~Fails(e.tracks[i], Tests[n]) /\ Counts(Tests[n])}
  IN  [keep |-> IF good # {} THEN good ELSE p.keep,
       select |-> IF Cardinality(good) = 1 /\ p.select = 0 /\ Len(e.tracks) > 1 THEN n ELSE p.select]

\* without a track that has degrees of freedom the first one is taken
BestTrackUsingPrune(d, e) ==
  LET p == FoldLeft(LAMBDA q, n : Prune(e, q, n), [keep |-> DOMAIN e.tracks, select |-> 0],
                    [n \in DOMAIN Tests |-> n])
      best == Max({1, FirstSmallest(e.tracks, p.keep)})
  IN  IF e.tracks = <<>> THEN [d EXCEPT !.tracks = <<>>, !.index = <<>>, !.keep = {}]
      ELSE [d EXCEPT !.tracks = e.tracks, !.keep = p.keep, !.fGoodTrack = best,
                     !.index = Chosen(e.tracks, best),
                     !.fPruneSelect = IF p.select = 0 /\ Len(e.tracks) > 1 THEN Len(Tests) + 1
                                      ELSE p.select]

---------------------------------------------------------------------------
(* An event *)

Find(d, e) ==
  LET new == [d EXCEPT !.fPruneSelect = -1]
  IN  CASE setup.method = "simple" -> BestTrackSimple(new, e)
        [] setup.method = "prune" -> BestTrackUsingPrune(new, e)
        [] setup.method = "scin" -> BestTrackUsingScin(new, e)

\* the last track with index 0, or else the first; the focal plane's is then track 1
Calc(d) ==
  LET marked == {i \in DOMAIN d.index : d.index[i] = 0}
      golden == IF marked = {} THEN 1 ELSE Max(marked)
  IN  IF d.tracks = <<>> THEN [d EXCEPT !.fGoldenTrack = 0]
      ELSE [d EXCEPT !.fGoldenTrack = golden,
                     !.focalPlane = IF marked = {} THEN 1 ELSE d.tracks[golden].num]

Init ==
  /\ setup \in TrackSetups
  /\ seen = 0 /\ event = [tracks |-> <<>>]
  /\ det = NewSpectrometer /\ pc = "done"

FindVertices ==
  /\ pc = "done" /\ seen < setup.MaxEvents
  /\ event' \in TrackEvents(setup)
  /\ det' = Find(det, event')
  /\ pc' = "found" /\ seen' = seen + 1
  /\ UNCHANGED setup

TrackCalc ==
  /\ pc = "found"
  /\ det' = Calc(det)
  /\ pc' = "done"
  /\ UNCHANGED <<setup, seen, event>>

Next == FindVertices \/ TrackCalc

Spec == Init /\ [][Next]_vars

---------------------------------------------------------------------------
(* Properties.                                                             *)

TypeInvariant ==
  /\ seen \in 0 .. setup.MaxEvents /\ pc \in {"found", "done"}
  /\ DOMAIN det.index = DOMAIN det.tracks /\ det.keep \subseteq 1 .. Len(det.tracks)
  /\ det.fPruneSelect \in -1 .. Len(Tests) + 1

Analyzed == pc = "done" /\ event.tracks # <<>>

\* The golden track is the one its method promises.  Of the simple one, it has the
\* smallest chi2.
SimpleIsBest ==
  Analyzed /\ setup.method = "simple" /\ setup.fTrSorting =>
    \A t \in ToSet(event.tracks) : det.tracks[det.fGoldenTrack].chi2 <= t.chi2

\* a test of the first n in which track a is good and track b is not, all those before it
\* having the same result for both
Precedes(a, b, n) ==
  \E m \in 1 .. n :
    /\ Counts(Tests[m]) /\ ~Fails(a, Tests[m]) /\ Fails(b, Tests[m])
    /\ \A k \in 1 .. m - 1 : Counts(Tests[k]) => (Fails(a, Tests[k]) <=> Fails(b, Tests[k]))
LeftBy(n) == {i \in DOMAIN det.tracks : \A j \in DOMAIN det.tracks : ~Precedes(det.tracks[j], det.tracks[i], n)}

\* With pruning, a track is kept if and only if no track passes the first of the tests
\* that tell the two apart: an earlier test outweighs all those behind it, and a test that
\* all tracks left by then fail removes none.  The golden track has the smallest chi2 per
\* degree of those that are kept, and fPruneSelect is the first test that exactly one of
\* those left before it passes (BestTrackUsingPrune).
PruneIsBest ==
  Analyzed /\ setup.method = "prune" =>
    LET measured == {i \in det.keep : det.tracks[i].ndof > 0}
        golden == det.tracks[det.fGoldenTrack]
        single(n) == Counts(Tests[n]) /\ Cardinality({i \in LeftBy(n - 1) : ~Fails(det.tracks[i], Tests[n])}) = 1
    IN  /\ det.keep = LeftBy(Len(Tests)) /\ det.fGoldenTrack = det.fGoodTrack
        /\ measured # {} =>
             det.fGoldenTrack \in measured /\ \A i \in measured : ~Smaller(det.tracks[i], golden)
        /\ det.fPruneSelect = IF Len(det.tracks) = 1 THEN 0
                              ELSE Min({n \in DOMAIN Tests : single(n)} \union {Len(Tests) + 1})

\* Of the tracks inside the cuts the choice is nearest to a hit of y2, then to one of x2,
\* and then has the smallest chi2 (BestTrackUsingScin).
ScinIsBest ==
  pc = "found" /\ setup.method = "scin" =>
    LET allowed == {i \in DOMAIN event.tracks : event.tracks[i].inCuts /\ event.tracks[i].ndof > setup.fSelNDegreesMin}
        y(i) == y2D(event, event.tracks[i])
        x(i) == x2D(event, event.tracks[i])
        best == det.fGoodTrack
    IN  allowed # {} =>
          /\ best \in allowed
          /\ \A i \in allowed :
               /\ y(best) <= y(i) /\ (y(best) = y(i) => x(best) <= x(i))
               /\ y(best) = y(i) /\ x(best) = x(i) => ~Smaller(event.tracks[i], event.tracks[best])

BestTrackIsBest == SimpleIsBest /\ PruneIsBest /\ ScinIsBest

\* "Select as best track the track closest to a S2Y hit" (THcHallCSpectrometer.cxx:631)
SelectedIsGolden ==
  Analyzed /\ setup.method = "scin" /\ det.fGoodTrack # 0 => det.fGoldenTrack = det.fGoodTrack
=============================================================================
