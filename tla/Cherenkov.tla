------------------------------ MODULE Cherenkov ------------------------------
(***************************************************************************)
(* THcCherenkov: the light seen by the phototubes of a gas Cherenkov.      *)
(* Pedestal events may come between the others; their values are collected *)
(* and turned to pedestals at the next other event.  Of the pulses of a    *)
(* tube the largest near the time of the hodoscope is taken, or one whose  *)
(* amplitude the module failed to give.                                    *)
(***************************************************************************)
EXTENDS PulseList, FiniteSetsExt

CONSTANTS
  Tubes,              \* the tubes, 1 .. fNelem
  CerRegions,         \* the mirror regions
  CerSetups,          \* the parameters, as they may be set; and the bounds MaxPedestals
                      \* on the pedestal events of a run, MaxEvents on the others
  CerEvents(_),       \* for each setup the events other than pedestal events
  CerPedestalEvents,  \* the values of the tubes in pedestal events
  PedSlack            \* 100

VARIABLES
  setup,
  seen,    \* the number of pedestal events and of others
  event,   \* the event being analysed
  det,     \* the members of the detector
  pc       \* which of the detector's methods was called last

vars == <<setup, seen, event, det, pc>>

NoEvent == [hits |-> <<>>]
IsPhysics(e) == "channels" \in DOMAIN e

Zero == [t \in Tubes |-> 0]

InitializePedestals ==
  [ped |-> [t \in Tubes |-> NewPedestal(setup.fPedLimit)],
   fPed |-> [t \in Tubes |-> Mean(NewPedestal(0))],
   fPedMean |-> [t \in Tubes |-> setup.fPedMean],
   fAnalyzePedestals |-> FALSE]

Clear(d) ==
  [d EXCEPT !.pulses = <<>>, !.good = Zero, !.mult = Zero, !.fNpe = Zero, !.fNpeSum = 0,
            !.fTotNumGoodAdcHits = 0, !.matched = {}, !.fired = {}]

NewDetector ==
  [pedestals |-> InitializePedestals, pulses |-> <<>>,
   good |-> Zero,    \* fAdcGoodElem + 1
   mult |-> Zero,    \* fGoodAdcMult
   fNpe |-> Zero, fNpeSum |-> 0, fTotNumGoodAdcHits |-> 0,
   matched |-> {},   \* the regions whose fNumTracksMatched is set
   fired |-> {}]

---------------------------------------------------------------------------
(* Pedestals *)

AccumulatePedestals(d, values) ==
  [d EXCEPT !.pedestals.ped = [t \in Tubes |->
     IF t \in DOMAIN values
     THEN AddToPedestal(@[t], values[t], setup.fMinPeds, PedSlack) ELSE @[t]]]

CalculatePedestals(d) ==
  LET p == d.pedestals
  IN  [d EXCEPT
         !.pedestals.fPed = [t \in Tubes |-> Mean(p.ped[t])],
         !.pedestals.fPedMean = [t \in Tubes |->
            IF setup.fMinPeds > 0 /\ p.ped[t].count > setup.fMinPeds
            THEN Mean(p.ped[t]) ELSE @[t]]]

\* Mutant: new pedestals are not looked at.
PedestalEvent_NotAnalyzed(d, e) == AccumulatePedestals(d, e.values)

PedestalEvent(d, e) ==
  [AccumulatePedestals(d, e.values) EXCEPT !.pedestals.fAnalyzePedestals = TRUE]

AnalyzePedestals(d) ==
  IF d.pedestals.fAnalyzePedestals
  THEN [CalculatePedestals(d) EXCEPT !.pedestals.fAnalyzePedestals = FALSE] ELSE d

---------------------------------------------------------------------------
(* An event *)

\* the list of pulses of the hits, which are in the order of the tubes
FillPulses(d, e) ==
  [d EXCEPT !.pulses =
     FlattenSeq([t \in Tubes |->
       ListOf(e.channels[t], t, setup.fAdcTdcOffset, setup.fPedDefault, setup.fUseSampWaveform)])]

DecodeEvent(d, e) ==
  IF IsPhysics(e) THEN FillPulses(AnalyzePedestals(Clear(d)), e) ELSE PedestalEvent(Clear(d), e)

\* the time from the pulse to the start time of the hodoscope
AdcTdcDiffTime(p, e) == e.start - p.time

InWindow(p, e) ==
  /\ AdcTdcDiffTime(p, e) > setup.fAdcTimeWindowMin
  /\ AdcTdcDiffTime(p, e) < setup.fAdcTimeWindowMax

\* the next turn of the search for the pulse of a tube
Prefer(best, d, i, e) ==
  LET p == d.pulses[i]
  IN  CASE p.flag \in {0, 3} /\ InWindow(p, e) /\ p.amp > best.amp -> [elem |-> i, amp |-> p.amp]
        [] p.flag = 1 -> [best EXCEPT !.elem = i]
        [] OTHER -> best

OfTube(d, t) == {i \in DOMAIN d.pulses : d.pulses[i].counter = t}

fAdcGoodElem(d, t, e) ==
  FoldLeft(LAMBDA best, i : Prefer(best, d, i, e), [elem |-> 0, amp |-> -1000],
           SetToSortSeq(OfTube(d, t), <)).elem

Coarse(d, e) ==
  LET good == [t \in Tubes |-> fAdcGoodElem(d, t, e)]
      hit == {t \in Tubes : good[t] # 0}
      npe == [t \in Tubes |-> IF t \in hit THEN setup.fGain * d.pulses[good[t]].int ELSE 0]
  IN  [d EXCEPT !.good = good, !.mult = [t \in Tubes |-> Cardinality(OfTube(d, t))],
                !.fNpe = npe, !.fNpeSum = @ + MapThenSumSet(LAMBDA t : npe[t], hit),
                !.fTotNumGoodAdcHits = @ + Cardinality(hit)]

\* the regions the best track goes through, if it passes the cuts
Fine(d, e) ==
  LET regions == IF IsPhysics(e) /\ e.track.good THEN e.track.regions ELSE {}
  IN  [d EXCEPT !.matched = @ \union regions,
                !.fired = IF d.fNpeSum > setup.fNpeThresh THEN @ \union regions ELSE @]

---------------------------------------------------------------------------

Init ==
  /\ setup \in CerSetups
  /\ seen = [pedestal |-> 0, physics |-> 0] /\ event = NoEvent
  /\ det = NewDetector /\ pc = "done"

Decode ==
  /\ pc = "done"
  /\ \/ seen.pedestal < setup.MaxPedestals /\ event' \in CerPedestalEvents
     \/ seen.physics < setup.MaxEvents /\ event' \in CerEvents(setup)
  /\ seen' = [seen EXCEPT ![IF IsPhysics(event') THEN "physics" ELSE "pedestal"] = @ + 1]
  /\ det' = DecodeEvent(det, event')
  /\ pc' = "decoded"
  /\ UNCHANGED setup

CoarseProcess ==
  /\ pc = "decoded"
  /\ det' = Coarse(det, event)
  /\ pc' = "coarse"
  /\ UNCHANGED <<setup, seen, event>>

FineProcess ==
  /\ pc = "coarse"
  /\ det' = Fine(det, event)
  /\ pc' = "done"
  /\ UNCHANGED <<setup, seen, event>>

Next == Decode \/ CoarseProcess \/ FineProcess

Spec == Init /\ [][Next]_vars

---------------------------------------------------------------------------
(* Properties.                                                             *)

TypeInvariant ==
  /\ seen \in [pedestal : 0 .. setup.MaxPedestals, physics : 0 .. setup.MaxEvents]
  /\ det.good \in [Tubes -> 0 .. Len(det.pulses)] /\ det.fNpe \in [Tubes -> Int]
  /\ det.fNpeSum \in Int /\ det.fTotNumGoodAdcHits \in 0 .. Cardinality(Tubes)
  /\ det.fired \subseteq det.matched /\ det.matched \subseteq CerRegions
  /\ det.pedestals.fAnalyzePedestals \in BOOLEAN
  /\ pc \in {"decoded", "coarse", "done"}

Analyzed == pc = "done" /\ event # NoEvent

\* What an event gives is what a detector gives that has seen no event before.
NothingStale ==
  Analyzed =>
    LET fresh == Fine(Coarse(DecodeEvent(NewDetector, event), event), event)
    IN  [fresh EXCEPT !.pedestals = det.pedestals] = det

\* After every other event the pedestals are of all pedestal events so far, and a
\* pedestal that comes from the parameters is replaced when there were enough.
PedestalsAreCurrent ==
  Analyzed /\ IsPhysics(event) =>
    \A t \in Tubes :
      LET p == det.pedestals
      IN  /\ p.fPed[t] = Mean(p.ped[t])
          /\ p.fPedMean[t] = IF p.ped[t].count > setup.fMinPeds /\ setup.fMinPeds > 0
                             THEN Mean(p.ped[t]) ELSE setup.fPedMean

Earliest(s, P(_)) == LET at == {i \in s : P(i)} IN IF at = {} THEN 0 ELSE Min(at)

\* Among the pulses of a tube the good one is the later of these two: the first of
\* the largest pulses in the time window, and the last pulse of failed amplitude.
\* The sum is over one pulse of each tube (CoarseProcess).
PulsesAreChosen ==
  Analyzed /\ IsPhysics(event) =>
    /\ \A t \in Tubes :
         LET timed == {i \in OfTube(det, t) : det.pulses[i].flag \in {0, 3} /\ InWindow(det.pulses[i], event)}
             largest(i) == \A j \in timed : det.pulses[j].amp <= det.pulses[i].amp
             failed == {i \in OfTube(det, t) : det.pulses[i].flag = 1}
         IN  det.good[t] = Max({0, Earliest(timed, largest)} \union failed)
    /\ det.fNpeSum = setup.fGain * MapThenSumSet(LAMBDA t : IF det.good[t] = 0 THEN 0
                                                            ELSE det.pulses[det.good[t]].int, Tubes)
=============================================================================
