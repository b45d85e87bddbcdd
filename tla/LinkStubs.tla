----------------------------- MODULE LinkStubs -----------------------------
(***************************************************************************)
(* Linking the stubs of two drift chambers to tracks (THcDC.cxx).          *)
(*                                                                         *)
(* Each chamber has a list of space points; to most of them a stub, a      *)
(* short straight line, was fitted.  Two points of different chambers      *)
(* match when their stubs agree.  LinkStubs takes each point as a seed and *)
(* goes over the points after it: the first match makes a track, further   *)
(* ones make copies of the seed's tracks.  NewLinkStubs makes a track of   *)
(* each match, and of each pair if there is no match.  There is room for   *)
(* MAXTRACKS tracks.                                                       *)
(*                                                                         *)
(* Whether two stubs agree is an input, and so are the fits that failed.   *)
(***************************************************************************)
EXTENDS Integers, FiniteSets, SequencesExt

CONSTANTS
  Setups,         \* SingleStub, HMSStyle, NewLink: how the chambers may be configured
  Sizes,          \* the numbers of points <<n1, n2>> the chambers may have
  MAXTRACKS,
  ChamberLimit,   \* chamber 1 gives points to the list until it holds more than this
  ListLimit       \* and each chamber until it holds more than this, which is a higher limit

VARIABLES
  setup,
  size,       \* GetNSpacePoints of the chambers
  stubbed,    \* the points with a stub
  matches,    \* the pairs of points whose stubs agree
  tracks,     \* fDCTracks up to fNDCTracks, each the list of its points
  seed, next, \* isp1, isp2 of LinkStubs; the list is indexed from 1
  seedTracks, \* stub_tracks up to sptracks
  newtrack,
  pc

vars == <<setup, size, stubbed, matches, tracks, seed, next, seedTracks, newtrack, pc>>
input == <<setup, size, stubbed, matches>>

AtMost(n, limit) == IF n <= limit THEN n ELSE limit

\* A space point: its chamber (fNChamber) and its number there (fNChamber_spnum)
Points(ch, n) == [k \in 1 .. n |-> <<ch, k - 1>>]

\* The list fSp; a chamber stops after the point that makes it longer than its limit.
SpaceList ==
  LET n1 == AtMost(size[1], ChamberLimit + 1)
      n2 == AtMost(size[2], ListLimit + 1 - n1)
  IN  IF setup.NewLink THEN Points(1, size[1]) \o Points(2, size[2])
      ELSE Points(1, n1) \o Points(2, n2)
fNSp == Len(SpaceList)

\* two points whose stubs agree; a point without stub matches none
Match(p, q) == p \in stubbed /\ q \in stubbed /\ {p, q} \in matches

---------------------------------------------------------------------------
(* LinkStubs *)

Begin(pts1, pts2) ==
  /\ stubbed \in SUBSET (ToSet(pts1) \union ToSet(pts2))
  /\ matches \in SUBSET {{p, q} : p \in ToSet(pts1) \intersect stubbed,
                                  q \in ToSet(pts2) \intersect stubbed}
  /\ setup.SingleStub => matches = {}

Init ==
  /\ setup \in Setups /\ size \in Sizes
  /\ Begin(Points(1, size[1]), Points(2, size[2]))
  /\ tracks = <<>>
  /\ seed = 1 /\ next = 2 /\ seedTracks = <<>> /\ newtrack = TRUE
  /\ pc = IF setup.NewLink THEN "new" ELSE IF setup.SingleStub THEN "single" ELSE "seeds"

\* the seed is in a track already
Used(p) == \E t \in ToSet(tracks) : p \in ToSet(t)

\* a mutant: the inner loop leaves out every other point
Continue_Two == next' = next + 2 /\ UNCHANGED seed

\* the next turn of the inner loop
Continue == next' = next + 1 /\ UNCHANGED seed

\* the next seed, or the end
NextSeed ==
  /\ pc = "seeds" /\ seed < fNSp
  /\ next > fNSp \/ (newtrack /\ Used(SpaceList[seed]))
  /\ seed' = seed + 1 /\ next' = seed + 2
  /\ seedTracks' = <<>> /\ newtrack' = TRUE
  /\ UNCHANGED <<input, tracks, pc>>

Finish ==
  /\ pc = "seeds" /\ seed >= fNSp
  /\ pc' = "done"
  /\ UNCHANGED <<input, tracks, seed, next, seedTracks, newtrack>>

\* the two points of a turn of the inner loop
AtTurn ==
  /\ pc = "seeds" /\ seed < fNSp /\ next <= fNSp
  /\ ~(newtrack /\ Used(SpaceList[seed]))

NoMatch ==
  /\ AtTurn
  /\ SpaceList[seed][1] = SpaceList[next][1] \/ ~Match(SpaceList[seed], SpaceList[next])
  /\ Continue
  /\ UNCHANGED <<input, tracks, seedTracks, newtrack, pc>>

Matching ==
  /\ AtTurn
  /\ SpaceList[seed][1] # SpaceList[next][1]
  /\ Match(SpaceList[seed], SpaceList[next])

\* too many tracks: an HMS-style chamber gives up the event
GiveUp ==
  /\ tracks' = <<>> /\ pc' = "done"
  /\ UNCHANGED <<input, seed, next, seedTracks, newtrack>>

\* the first match of a seed
FirstMatch ==
  /\ Matching /\ newtrack /\ Len(tracks) < MAXTRACKS
  /\ tracks' = Append(tracks, <<SpaceList[seed], SpaceList[next]>>)
  /\ seedTracks' = <<Len(tracks) + 1>>
  /\ newtrack' = FALSE
  /\ Continue
  /\ UNCHANGED <<input, pc>>

FirstMatchTooMany ==
  /\ Matching /\ newtrack /\ Len(tracks) >= MAXTRACKS
  /\ IF setup.HMSStyle THEN GiveUp
     ELSE Continue /\ UNCHANGED <<input, tracks, seedTracks, newtrack, pc>>

\* A further match: each track of the seed so far that does not have the point is copied with the
\* point in the place of that of the same chamber.  The copies are of this seed too, and have it.
Replace(t, q) == [k \in DOMAIN t |-> IF t[k][1] = q[1] THEN q ELSE t[k]]
Copies ==
  LET old == SelectSeq(seedTracks, LAMBDA n : SpaceList[next] \notin ToSet(tracks[n]))
  IN  [k \in DOMAIN old |-> Replace(tracks[old[k]], SpaceList[next])]

FurtherMatch ==
  /\ Matching /\ ~newtrack
  /\ LET room == MAXTRACKS - Len(tracks)
         made == SubSeq(Copies, 1, AtMost(Len(Copies), room))
     IN  IF Len(Copies) > room /\ setup.HMSStyle THEN GiveUp
         ELSE /\ tracks' = tracks \o made
              /\ seedTracks' = seedTracks \o [k \in DOMAIN made |-> Len(tracks) + k]
              /\ Continue
              /\ UNCHANGED <<input, newtrack, pc>>

\* Each point with a stub is a track; one point too many, with a stub or without, and there is none.
SingleStubs ==
  /\ pc = "single"
  /\ LET good(n) == SelectSeq(SubSeq(SpaceList, 1, n), LAMBDA p : p \in stubbed)
         full == \E k \in 1 .. fNSp : Len(good(k - 1)) >= MAXTRACKS
     IN  tracks' = IF full THEN <<>> ELSE [k \in DOMAIN good(fNSp) |-> <<good(fNSp)[k]>>]
  /\ pc' = "done"
  /\ UNCHANGED <<input, seed, next, seedTracks, newtrack>>

---------------------------------------------------------------------------
(* NewLinkStubs *)

\* the pairs of a point of chamber 1 and one of chamber 2, in the order of two nested loops
AllPairs ==
  [k \in 1 .. size[1] * size[2] |->
     <<SpaceList[((k - 1) \div size[2]) + 1], SpaceList[size[1] + ((k - 1) % size[2]) + 1]>>]

NewLinkStubs ==
  /\ pc = "new"
  /\ LET linked == SelectSeq(AllPairs, LAMBDA c : Match(c[1], c[2]))
         pairs == IF linked # <<>> THEN linked ELSE AllPairs
     IN  tracks' = IF size[1] = 0 \/ size[2] = 0 THEN <<>>
                   ELSE SubSeq(pairs, 1, AtMost(Len(pairs), MAXTRACKS))
  /\ pc' = "done"
  /\ UNCHANGED <<input, seed, next, seedTracks, newtrack>>

Next ==
  \/ NextSeed \/ Finish
  \/ NoMatch \/ FirstMatch \/ FirstMatchTooMany \/ FurtherMatch
  \/ SingleStubs
  \/ NewLinkStubs

Spec == Init /\ [][Next]_vars

---------------------------------------------------------------------------
(* Properties *)

\* Tracks are lists of points of the list, there is room for them, and the tracks of a seed are
\* tracks with the seed in them (LinkStubs, stub_tracks).
TypeInvariant ==
  /\ Len(tracks) <= MAXTRACKS
  /\ \A t \in ToSet(tracks) : ToSet(t) \subseteq ToSet(SpaceList) /\ Len(t) \in 1 .. 2
  /\ pc = "seeds" => \A n \in ToSet(seedTracks) : SpaceList[seed] \in ToSet(tracks[n])

Listed == {m \in matches : m \subseteq ToSet(SpaceList)}

\* Every pair of points that match is a track, and every track is such a pair, or any pair in the
\* new search when none matches; unless the tracks are too many (LinkStubs, NewLinkStubs).
MatchesAreTracks ==
  pc = "done" /\ ~setup.SingleStub =>
    LET pairs == {ToSet(t) : t \in ToSet(tracks)}
    IN  /\ Listed # {} \/ ~setup.NewLink => pairs \subseteq Listed
        /\ pairs # {} /\ Len(tracks) < MAXTRACKS => Listed \subseteq pairs

\* the tracks the old search makes of all matches
Wanted ==
  LET degree(p) == Cardinality({m \in Listed : p \in m})
      seeds == SelectSeq(SpaceList, LAMBDA p : p[1] = 1 /\ degree(p) > 0)
  IN  FoldLeft(LAMBDA n, p : n + 2 ^ (degree(p) - 1), 0, seeds)

\* An event without tracks has no match, or is of an HMS-style chamber and has too many; and then
\* no part of its tracks is left (LinkStubs, the two ways to give up).  When each point is to be
\* a track, all points with a stub are, once each, or there are more points than room for tracks
\* (LinkStubs, fSingleStub).
GivenUpOnlyWhenFull ==
  pc = "done" /\ ~setup.NewLink =>
    IF setup.SingleStub
    THEN \/ tracks = <<>> /\ (fNSp > MAXTRACKS \/ stubbed = {})
         \/ /\ {<<p>> : p \in stubbed \intersect ToSet(SpaceList)} = ToSet(tracks)
            /\ IsInjective(tracks)
    ELSE /\ tracks = <<>> <=> Listed = {} \/ (setup.HMSStyle /\ Wanted > MAXTRACKS)
         /\ tracks # <<>> => Len(tracks) = AtMost(Wanted, MAXTRACKS)

\* "if there is another point in same chamber make a copy containing isp2 rather than other point
\* in same chamber" (src/src/THcDC.cxx:868-871): one copy for a match, so no two tracks are alike.
OneTrackForAPair == pc = "done" => IsInjective(tracks)
=============================================================================
