------------------------------ MODULE DriftFit ------------------------------
(***************************************************************************)
(* The lines through the hits of the drift chambers: LeftRight             *)
(* (THcDriftChamber.cxx) and TrackFit (THcDC.cxx).                         *)
(*                                                                         *)
(* A drift time does not say on which side of its wire a particle passed.  *)
(* For each space point LeftRight tries the sides of all hits, fits a stub *)
(* to each choice and keeps the best; a hit can be in several points, with *)
(* a side in each.  Tracks copy the hits of their points; TrackFit fits a  *)
(* line to a track, and once more if the worst hit is too far from it.     *)
(*                                                                         *)
(* What a fit gives is an input: a line is what it was fitted to, and how  *)
(* far a coordinate is from it follows from the event.                     *)
(***************************************************************************)
EXTENDS Integers, FiniteSets, SequencesExt

CONSTANTS
  FitSetups,               \* the chambers, their points, and what is fitted
  NPlanes,                 \* planes of a chamber
  NUM_FPRAY,               \* parameters of a line
  YPlaneInd, YPlanePInd,   \* the planes that tell the sides of each other
  MinXP                    \* the largest slope of a stub with two planes missing

VARIABLES
  setup,
  isp,     \* the next point
  points,  \* sides and stub of the points
  hitLR,   \* the side the hit itself keeps (fLR)
  tracks,
  itrack, NLoops,
  pc

vars == <<setup, isp, points, hitLR, tracks, itrack, NLoops, pc>>

\* planes are numbered through both chambers
PlaneIndex(hit) == (hit.plane - 1) % NPlanes
ChamberOf(hit) == ((hit.plane - 1) \div NPlanes) + 1
AbsOf(n) == IF n < 0 THEN -n ELSE n

HitsOf(k) == setup.points[k]
AllHits == UNION {ToSet(HitsOf(k)) : k \in DOMAIN setup.points}

Init ==
  /\ setup \in FitSetups
  /\ isp = 1
  /\ points = [k \in DOMAIN setup.points |-> [lr |-> [i \in DOMAIN HitsOf(k) |-> 0], stub |-> FALSE]]
  /\ hitLR = [h \in AllHits |-> 0]
  /\ tracks = <<>> /\ itrack = 1 /\ NLoops = 0
  /\ pc = "stubs"

---------------------------------------------------------------------------
(* LeftRight *)

\* The hits that tell the sides of each other, if small angles are assumed: the two of
\* the Y planes, or of neighbouring planes that are less than half a cell apart.
Paired(hits) ==
  IF ~setup.SmallAngle THEN {}
  ELSE {<<i, j>> \in (DOMAIN hits) \X (DOMAIN hits) :
          IF setup.HMSStyle
          THEN PlaneIndex(hits[i]) = YPlaneInd /\ PlaneIndex(hits[j]) = YPlanePInd
          ELSE /\ PlaneIndex(hits[i]) % 2 = 0 /\ PlaneIndex(hits[j]) = PlaneIndex(hits[i]) + 1
               /\ AbsOf(hits[j].pos - hits[i].pos) <= 1}

\* the particle passed between the wires of a pair
Known(hits, i) ==
  IF \E j \in DOMAIN hits : <<i, j>> \in Paired(hits)
  THEN LET j == CHOOSE j \in DOMAIN hits : <<i, j>> \in Paired(hits) IN  IF hits[j].pos <= hits[i].pos THEN -1 ELSE 1
  ELSE IF \E j \in DOMAIN hits : <<j, i>> \in Paired(hits)
  THEN LET j == CHOOSE j \in DOMAIN hits : <<j, i>> \in Paired(hits) IN  IF hits[i].pos <= hits[j].pos THEN 1 ELSE -1
  ELSE 0

\* the choice of sides of a turn of the loop: the bits of its number, for the hits whose
\* side is not known
PlusMinus(hits, pmloop) ==
  [i \in DOMAIN hits |->
     IF Known(hits, i) # 0 THEN Known(hits, i)
     ELSE LET bit == Cardinality({j \in 1 .. i - 1 : Known(hits, j) = 0})
          IN  IF (pmloop \div 2 ^ bit) % 2 = 1 THEN 1 ELSE -1]
SideChoices(hits) ==
  [n \in 1 .. 2 ^ (Len(hits) - 2 * Cardinality(Paired(hits))) |-> PlusMinus(hits, n - 1)]

\* FindStub: a wrong side costs the distance of the hit, and each side leans the stub.
Chi2(hits, s) == FoldSet(LAMBDA i, n : n + setup.dist[hits[i].plane], 0,
                         {i \in DOMAIN hits : s[i] # setup.truth[hits[i].plane]})
XpFit(hits, s) == AbsOf(FoldSet(LAMBDA i, n : n + s[i] * setup.lean[PlaneIndex(hits[i]) + 1], 0, DOMAIN hits))

Nothing == [min |-> -1, best |-> <<>>, tmpmin |-> -1, tmp |-> <<>>, minxp |-> MinXP]

\* The smallest chi square of a stub that points where it should, and that of any other for want of one.
BestStub(hits) ==
  FoldLeft(LAMBDA b, s :
             LET chi2 == Chi2(hits, s) IN
             IF b.min >= 0 /\ chi2 >= b.min THEN b
             ELSE IF XpFit(hits, s) < setup.StubMaxXPDiff \/ setup.StubMaxXPDiff >= 100
             THEN [b EXCEPT !.min = chi2, !.best = s]
             ELSE IF b.tmpmin < 0 \/ chi2 < b.tmpmin THEN [b EXCEPT !.tmpmin = chi2, !.tmp = s] ELSE b,
           Nothing, SideChoices(hits))

\* With two planes missing, the flattest stub, if there is one that is flat enough.
FlatStub(hits) ==
  FoldLeft(LAMBDA b, s : IF XpFit(hits, s) > b.minxp THEN b
                         ELSE [b EXCEPT !.minxp = XpFit(hits, s), !.min = Chi2(hits, s), !.best = s],
           Nothing, SideChoices(hits))

PlanesHit(hits) == Cardinality({h.plane : h \in ToSet(hits)})

\* the sides that are kept, and none if no stub is
Sides(hits) ==
  LET found == IF PlanesHit(hits) >= NPlanes - (IF setup.HMSStyle THEN 1 ELSE 2) THEN BestStub(hits)
               ELSE IF PlanesHit(hits) >= NPlanes - 2 THEN FlatStub(hits) ELSE Nothing
  IN  IF found.best # <<>> THEN found.best ELSE found.tmp

\* the sides go to the point and to the hits, which may have been in a point before
LeftRight ==
  /\ pc = "stubs" /\ isp <= Len(points)
  /\ LET sides == Sides(HitsOf(isp))
         at(h) == CHOOSE i \in DOMAIN HitsOf(isp) : HitsOf(isp)[i] = h
     IN  IF sides = <<>> THEN UNCHANGED <<points, hitLR>>
         ELSE /\ points' = [points EXCEPT ![isp] = [lr |-> sides, stub |-> TRUE]]
              /\ hitLR' = [h \in AllHits |-> IF h \in ToSet(HitsOf(isp)) THEN sides[at(h)] ELSE hitLR[h]]
  /\ isp' = isp + 1
  /\ UNCHANGED <<setup, tracks, itrack, NLoops, pc>>

---------------------------------------------------------------------------
(* The tracks that are linked: points with a stub, alone or with each of   *)
(* the other chamber.  A hit comes with its side, and its distance in the  *)
(* point.                                                                  *)

Stubbed == SelectSeq([k \in DOMAIN points |-> k], LAMBDA k : points[k].stub)
InChamber(k, n) == ChamberOf(HitsOf(k)[1]) = n
Linked ==
  IF setup.SingleStub THEN [n \in DOMAIN Stubbed |-> <<Stubbed[n]>>]
  ELSE LET front == SelectSeq(Stubbed, LAMBDA k : InChamber(k, 1))
           back == SelectSeq(Stubbed, LAMBDA k : InChamber(k, 2))
       IN  FlattenSeq([n \in DOMAIN front |-> [m \in DOMAIN back |-> <<front[n], back[m]>>]])

AddSpacePoint(k) == [i \in DOMAIN HitsOf(k) |-> [hit |-> HitsOf(k)[i], dist |-> k, lr |-> points[k].lr[i]]]

NewTrack(pts) ==
  [points |-> pts, hits |-> FlattenSeq([n \in DOMAIN pts |-> AddSpacePoint(pts[n])]),
   line |-> {}, fitted |-> FALSE, residual |-> <<>>, double |-> <<>>]

LinkStubs ==
  /\ pc = "stubs" /\ isp > Len(points)
  /\ tracks' = [n \in DOMAIN Linked |-> NewTrack(Linked[n])]
  /\ pc' = "fit"
  /\ UNCHANGED <<setup, isp, points, hitLR, itrack, NLoops>>

---------------------------------------------------------------------------
(* TrackFit *)

\* The coordinate of a hit of a track: its wire, its side, and the point it has its distance
\* from.  Without the fixes, side and distance are those the hit itself has.
Coord(h) ==
  [hit |-> h.hit, lr |-> IF setup.FixLR THEN h.lr ELSE hitLR[h.hit],
   dist |-> IF setup.FixPropagation THEN h.dist ELSE 0]
Coords(t) == {Coord(h) : h \in ToSet(t.hits)}

\* how far the line is from a coordinate it is fitted to
Residual(c) ==
  setup.off[c.hit.plane] + IF c.lr = setup.truth[c.hit.plane] THEN 0 ELSE setup.dist[c.hit.plane]

\* the first of the worst hits
MaxResidHitIndex(t) ==
  CHOOSE i \in DOMAIN t.hits : \A j \in DOMAIN t.hits :
    LET ri == Residual(Coord(t.hits[i])) rj == Residual(Coord(t.hits[j])) IN  ri > rj \/ (ri = rj /\ i <= j)

NFree(t) == Len(t.hits) - NUM_FPRAY

\* Line and residuals, the latter by plane with the line and with the one without the
\* hit; a track that has not enough hits keeps what it had.
Fitted(t) ==
  IF NFree(t) <= 0 THEN [t EXCEPT !.fitted = FALSE]
  ELSE LET of(p) == CHOOSE c \in Coords(t) : c.hit.plane = p
           now == {c.hit.plane : c \in Coords(t)}
       IN  [t EXCEPT !.line = Coords(t), !.fitted = TRUE,
                     !.residual = [p \in now \union DOMAIN t.residual |->
                        IF p \in now THEN [line |-> Coords(t), without |-> Coords(t) \ {of(p)}] ELSE t.residual[p]]]

TooFar(t) ==
  /\ setup.TrackLargeResidCut # -1 /\ NFree(t) > 0
  /\ Residual(Coord(t.hits[MaxResidHitIndex(t)])) > setup.TrackLargeResidCut

\* The hit that is too far is removed, also after the second fit, which is the last.
TrackFit ==
  /\ pc = "fit" /\ itrack <= Len(tracks)
  /\ LET t == tracks[itrack]
         again == TooFar(t) /\ NLoops < 1
     IN  /\ tracks' = [tracks EXCEPT ![itrack] =
              [Fitted(t) EXCEPT !.hits = IF TooFar(t) THEN RemoveAt(@, MaxResidHitIndex(t)) ELSE @]]
         /\ itrack' = IF again THEN itrack ELSE itrack + 1
         /\ NLoops' = IF again THEN NLoops + 1 ELSE 0
  /\ UNCHANGED <<setup, isp, points, hitLR, pc>>

\* Residuals in a chamber from the line in the other; those of the first chamber are
\* taken from the first line too.
Double(t) == [p \in {h.hit.plane : h \in ToSet(t.hits)} |->
                [line |-> tracks[1].line, coord |-> CHOOSE c \in Coords(t) : c.hit.plane = p]]
DoubleResiduals ==
  /\ pc = "fit" /\ itrack > Len(tracks)
  /\ tracks' = IF /\ setup.SingleStub /\ Len(tracks) = 2
                  /\ ChamberOf(tracks[1].hits[1].hit) = 1 /\ ChamberOf(tracks[2].hits[1].hit) = 2
               THEN <<[tracks[1] EXCEPT !.double = Double(tracks[2])], [tracks[2] EXCEPT !.double = Double(tracks[1])]>>
               ELSE tracks
  /\ pc' = "done"
  /\ UNCHANGED <<setup, isp, points, hitLR, itrack, NLoops>>

Next == LeftRight \/ LinkStubs \/ TrackFit \/ DoubleResiduals

---------------------------------------------------------------------------

TypeInvariant ==
  /\ isp \in 1 .. Len(points) + 1 /\ itrack \in 1 .. Len(tracks) + 1 /\ NLoops \in 0 .. 1
  /\ \A k \in DOMAIN points : points[k].stub => \A i \in DOMAIN points[k].lr : points[k].lr[i] \in {-1, 1}
  /\ \A n \in DOMAIN tracks : tracks[n].fitted => tracks[n].line # {}
  /\ pc \in {"stubs", "fit", "done"}

\* all choices of sides that agree with what is known
Allowed(hits) == {s \in [DOMAIN hits -> {-1, 1}] : \A i \in DOMAIN hits : Known(hits, i) \in {0, s[i]}}
Best(s, hits, all) == s \in all /\ \A o \in all : Chi2(hits, s) <= Chi2(hits, o)

\* A point has the sides of the best stub of all, or of all that point where they should
\* if there is one; and no point is without stub whose planes suffice (LeftRight).
StubsAreBest ==
  pc = "fit" /\ itrack = 1 /\ NLoops = 0 =>
    \A k \in DOMAIN points :
      LET hits == HitsOf(k)
          all == Allowed(hits)
          missing == NPlanes - PlanesHit(hits)
          straight == {s \in all : XpFit(hits, s) < setup.StubMaxXPDiff}
          flat == {s \in all : XpFit(hits, s) <= MinXP}
      IN  CASE missing <= (IF setup.HMSStyle THEN 1 ELSE 2) ->
                 /\ points[k].stub
                 /\ Best(points[k].lr, hits, IF straight # {} THEN straight ELSE all)
            [] missing = 2 /\ setup.HMSStyle ->
                 /\ points[k].stub <=> flat # {}
                 /\ flat # {} => /\ points[k].lr \in flat
                                 /\ \A s \in flat : XpFit(hits, points[k].lr) <= XpFit(hits, s)
            [] OTHER -> ~points[k].stub

\* what the hits of a track have in its own points
Own(t) == UNION {ToSet(AddSpacePoint(k)) : k \in ToSet(t.points)}

\* A line goes through all hits of its track, each on the side and with the distance of the
\* track's own point even if the hit is in another point too, and through no other but the
\* one removed last; the hits removed, two at most, are those too far away, and none
\* that is farther is left after the last fit but one; the residuals are from this
\* line (TrackFit).
LinesAreOfTheHits ==
  pc = "done" =>
    \A n \in DOMAIN tracks :
      LET t == tracks[n]
          own == {[hit |-> h.hit, lr |-> h.lr, dist |-> h.dist] : h \in Own(t)}
          gone == {h.hit : h \in Own(t)} \ {h.hit : h \in ToSet(t.hits)}
          far(h) == \E o \in Own(t) : o.hit = h /\ Residual(Coord(o)) > setup.TrackLargeResidCut
      IN  /\ t.line # {} <=> Cardinality(Own(t)) > NUM_FPRAY
          /\ setup.FixLR /\ setup.FixPropagation => t.line \subseteq own
          /\ t.line # {} =>
               /\ {h.hit : h \in ToSet(t.hits)} \subseteq {c.hit : c \in t.line}
               /\ Cardinality({c.hit : c \in t.line}) <= Len(t.hits) + 1
               /\ \A h \in ToSet(t.hits) : t.residual[h.hit.plane].line = t.line
          /\ gone # {} => setup.TrackLargeResidCut # -1
          /\ \A h \in gone : far(h)
          /\ Cardinality(gone) <= 2
          /\ setup.TrackLargeResidCut # -1 /\ Cardinality(gone) < 2 /\ t.fitted =>
               \A h \in ToSet(t.hits) : ~far(h.hit)

\* The residuals of the first of two single stubs in the other chamber are of the hits the other
\* track has in the end, and from the last line of its own (TrackFit, fSingleStub).
DoublesAreOther ==
  pc = "done" /\ tracks # <<>> /\ tracks[1].double # <<>> =>
    /\ DOMAIN tracks[1].double = {h.hit.plane : h \in ToSet(tracks[2].hits)}
    /\ \A p \in DOMAIN tracks[1].double :
         /\ tracks[1].double[p].line = tracks[1].line
         /\ tracks[1].double[p].coord.hit \notin {h.hit : h \in Own(tracks[1])}
=============================================================================
