------------------------------- MODULE HodoEff -------------------------------
(***************************************************************************)
(* THcHodoEff: how often the paddle that the golden track passes has fired *)
(* and with which ends.                                                    *)
(*                                                                         *)
(* An event has the golden track, if there is one: the paddle of each      *)
(* plane that it is nearest to (hitCounter), whether it passes near its    *)
(* centre, whether it is good; and each plane's hits with their good ends. *)
(***************************************************************************)
EXTENDS Integers, SequencesExt, FiniteSetsExt

CONSTANTS
  fNPlanes, fNCounters,
  EffEvents,       \* the events
  MaxEffEvents     \* how many are analyzed

VARIABLES setup, seen, event, det, pc

vars == <<setup, seen, event, det, pc>>

EffPlanes == 1 .. fNPlanes
Counters == 1 .. fNCounters
Kinds == {"pos", "neg", "and", "or"}

NoCounts == [ip \in EffPlanes |-> [c \in Counters |-> 0]]

\* Begin, and the counts of ReadDatabase; fStatXHit has a place 0 and none for the last
\* counter, as hitcounter is there between 0 and fNCounters - 1
NewCounts ==
  [fStatTrk |-> NoCounts, fHodoEffi |-> [k \in Kinds |-> NoCounts],
   fStatHit |-> [k \in Kinds |-> [ip \in EffPlanes |-> [c \in 0 .. fNCounters - 1 |-> 0]]],
   fHitPlane |-> [ip \in EffPlanes |-> 0]]

---------------------------------------------------------------------------

\* how far from the track's paddle a hit may be: 0 if the paddle itself fired, 1 if the
\* next one did
CheckHit(hits, counter) ==
  LET off == {IF hits[i].paddle < counter THEN counter - hits[i].paddle ELSE hits[i].paddle - counter :
                i \in DOMAIN hits}
  IN  Min({2} \union off)

\* the paddle the hits are compared with
HitCounter(c) == IF c >= fNCounters THEN fNCounters - 1 ELSE IF c < 0 THEN 0 ELSE c

\* Mutant: the next paddle is as good as the track's own.
DidHit_Adjacent(track, ip, hits) ==
  LET near == {i \in DOMAIN hits : LET at == HitCounter(track.counter[ip])
                                       c == hits[i].paddle
                                   IN  (IF c < at THEN at - c ELSE c - at) <= 1}
  IN  IF near = {} THEN {} ELSE {Min(near)}

\* the first hit that is at the right place
DidHit(track, ip, hits) ==
  LET near == {i \in DOMAIN hits : LET at == HitCounter(track.counter[ip])
                                       c == hits[i].paddle
                                   IN  (IF c < at THEN at - c ELSE c - at)
                                         <= CheckHit(hits, track.counter[ip])}
  IN  IF near = {} THEN {} ELSE {Min(near)}

Looked(track, ip) == track.near[ip] /\ track.good

Fired(hit, k) ==
  CASE k = "and" -> hit.ends = {"pos", "neg"}
    [] k = "or" -> hit.ends # {}
    [] OTHER -> k \in hit.ends

Process(d, e) ==
  IF e.track = <<>> THEN d
  ELSE LET track == e.track[1]
           did(ip) == IF Looked(track, ip) THEN DidHit(track, ip, e.hits[ip]) ELSE {}
           n(ip, k) == Cardinality({i \in did(ip) : Fired(e.hits[ip][i], k)})
           add(counts, at(_), k) == [ip \in EffPlanes |-> [counts[ip] EXCEPT ![at(ip)] = @ + n(ip, k)]]
       IN  [fStatTrk |-> [ip \in EffPlanes |->
              [d.fStatTrk[ip] EXCEPT ![track.counter[ip]] = @ + (IF Looked(track, ip) THEN 1 ELSE 0)]],
            fHodoEffi |-> [k \in Kinds |-> add(d.fHodoEffi[k], LAMBDA ip : track.counter[ip], k)],
            fStatHit |-> [k \in Kinds |-> add(d.fStatHit[k], LAMBDA ip : HitCounter(track.counter[ip]), k)],
            fHitPlane |-> [ip \in EffPlanes |-> Cardinality(did(ip))]]

---------------------------------------------------------------------------

Init ==
  /\ setup = 0 /\ seen = 0 /\ pc = "done"
  /\ event = [track |-> <<>>, hits |-> [ip \in EffPlanes |-> <<>>]] /\ det = NewCounts

Analyze ==
  /\ seen < MaxEffEvents
  /\ event' \in EffEvents
  /\ seen' = seen + 1
  /\ det' = Process(det, event')
  /\ UNCHANGED <<setup, pc>>

Next == Analyze

Spec == Init /\ [][Next]_vars

---------------------------------------------------------------------------

TypeInvariant ==
  /\ seen \in 0 .. MaxEffEvents
  /\ \A ip \in EffPlanes, c \in Counters : det.fStatTrk[ip][c] \in 0 .. seen

\* An event counts for the paddle of its golden track and for no other, and once.  If the
\* track passes near the centre the ends counted are those of the first of the hits
\* nearest to it, at most two paddles away.  A track through the last paddle is
\* compared with the one before it, and a hit of the last paddle alone counts for none.
EfficienciesAreTrue ==
  \A ip \in EffPlanes, c \in Counters :
    LET hits == event'.hits[ip]
        more(k) == det'.fHodoEffi[k][ip][c] - det.fHodoEffi[k][ip][c]
        tracks == det'.fStatTrk[ip][c] - det.fStatTrk[ip][c]
        mine == event'.track # <<>> /\ event'.track[1].counter[ip] = c
        looked == mine /\ event'.track[1].near[ip] /\ event'.track[1].good
        far(i) == IF hits[i].paddle < c THEN c - hits[i].paddle ELSE hits[i].paddle - c
        near == {i \in DOMAIN hits : far(i) <= 2}
        nearest == {i \in near : \A j \in near : far(i) < far(j) \/ (far(i) = far(j) /\ i <= j)}
        ends == UNION {hits[i].ends : i \in nearest}
        none == \A k \in Kinds : more(k) = 0
    IN  /\ tracks = IF looked THEN 1 ELSE 0
        /\ ~looked => none
        /\ more("or") = more("pos") + more("neg") - more("and") /\ more("or") <= tracks
        /\ looked /\ c < fNCounters =>
             /\ {k \in {"pos", "neg"} : more(k) = 1} = ends
             /\ more("and") = IF ends = {"pos", "neg"} THEN 1 ELSE 0
        /\ c = fNCounters /\ (\A i \in DOMAIN hits : hits[i].paddle = c) => none
=============================================================================
