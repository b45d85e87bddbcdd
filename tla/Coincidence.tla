----------------------------- MODULE Coincidence -----------------------------
(***************************************************************************)
(* The trigger detector (THcTrigDet.cxx), and the two modules that compare *)
(* its times with the tracks of the spectrometers: the coincidence time of *)
(* an electron and a hadron (THcCoinTime.cxx), and the time of a particle  *)
(* within the bunch spacing of the beam (THcRFTime.cxx).                   *)
(*                                                                         *)
(* All times are in the same unit.  A track has its time at the focal      *)
(* plane and, for each particle it may be, the time of flight to there.    *)
(***************************************************************************)
EXTENDS Integers, SequencesExt, FiniteSetsExt

CONSTANTS
  kBig,         \* the value of a quantity that is not known
  NotLoaded,    \* no EPICS event has come
  CoinSetups,   \* names, windows, offsets and the number of events and runs
  CoinEvents(_) \* the events of a setup

VARIABLES
  setup,
  seen,    \* [events, runs]
  event,   \* the channels of the trigger detector and the tracks
  det,     \* what the three modules hold
  pc

vars == <<setup, seen, event, det, pc>>

Species == {"e", "pi", "K", "p"}
Arms == {"SHMS", "HMS"}

\* the two triggers of a coincidence time, by their place in trigNames
Pair == [ROC1 |-> <<1, 2>>, ROC2 |-> <<3, 4>>, SHMS |-> <<1, 3>>, HMS |-> <<2, 4>>]
Kinds == DOMAIN Pair

Adcs == DOMAIN setup.adcWindow
Tdcs == DOMAIN setup.fTdcNames

NoAdc == [mult |-> 0, good |-> <<>>, sampMult |-> 0, samp |-> <<>>]
NoTdc == [mult |-> 0, time |-> 0, all |-> <<>>]
NoTimes == [s \in Species |-> kBig]

\* THcTrigDet::Clear, the Clear of the coincidence time, which leaves the raw times of
\* one trigger and those without a track, and that of the bunch time
Cleared(d) ==
  [d EXCEPT !.fTdcRefTime = kBig, !.adc = [c \in Adcs |-> NoAdc], !.tdc = [c \in Tdcs |-> NoTdc],
            !.raw = [k \in Kinds |-> IF k \in {"ROC1", "ROC2"} THEN kBig ELSE d.raw[k]],
            !.coin = [k \in Kinds |-> NoTimes],
            !.rf = [a \in Arms |-> NoTimes], !.rfAll = [a \in Arms |-> kBig]]

\* The channel of the last TDC with a name; 0 is the program's -1.
IdOf(name) == Max({0} \union {i \in Tdcs : setup.fTdcNames[i] = name})

\* THcTrigDet::ReadDatabase
TrigIds == [j \in 1 .. 4 |-> IdOf(setup.fTrigNames[j])]
RFIds == [SHMS |-> IdOf(setup.fRFNames[1]), HMS |-> IdOf(setup.fRFNames[2])]

\* THcRFTime::ReadDatabase: what the user set, or the default
InitialSpacing == IF setup.Bunch_Spacing_Override # 0 THEN setup.Bunch_Spacing_Override ELSE setup.DefaultSpacing

\* the offset of a particle, and if it has none that of the arm
RFOffset(arm, s) ==
  IF s \in DOMAIN setup.rfOffset[arm].of THEN setup.rfOffset[arm].of[s] ELSE setup.rfOffset[arm].all

Init ==
  /\ setup \in CoinSetups
  /\ seen = [events |-> 0, runs |-> 1] /\ event = <<>>
  /\ det = [fTdcRefTime |-> kBig, adc |-> [c \in Adcs |-> NoAdc], tdc |-> [c \in Tdcs |-> NoTdc],
            raw |-> [k \in Kinds |-> kBig], rawNoTrack |-> [k \in Kinds |-> kBig],
            coin |-> [k \in Kinds |-> NoTimes], rf |-> [a \in Arms |-> NoTimes],
            rfAll |-> [a \in Arms |-> kBig], epics |-> NotLoaded, Bunch_Spacing_Epics |-> NotLoaded,
            Bunch_Spacing |-> InitialSpacing, quiet |-> FALSE]
  /\ pc = "clear"

---------------------------------------------------------------------------
(* THcTrigDet::Decode                                                      *)

InWindow(t, w) == t >= w[1] /\ t <= w[2]
FirstIn(s, w) == SelectInSeq(s, LAMBDA p : InWindow(p.time, w))

Pulse(p, ped, offset) == <<[amp |-> p.amp, int |-> p.int, time |-> p.time + offset, ped |-> ped]>>
Choose(s, ped, w) == LET i == FirstIn(s, w) IN IF i = 0 THEN <<>> ELSE Pulse(s[i], ped, setup.fAdcTdcOffset)

\* The first pulse in the window, and of a waveform the first one there; this also
\* stands for the former if the module reported no pulse or only waveforms count.
DecodeAdc(ch, w) ==
  LET samp == IF ch.waveform THEN Choose(ch.found, ch.ped, w) ELSE <<>>
      replaces == samp # <<>> /\ (ch.pulses = <<>> \/ setup.fUseSampWaveform)
  IN  [mult |-> Len(ch.pulses), good |-> IF replaces THEN samp ELSE Choose(ch.pulses, ch.ped, w),
       sampMult |-> IF ch.waveform THEN Len(ch.found) ELSE 0, samp |-> samp]

Distance(t, w) == IF t >= w[1] THEN t - w[1] ELSE w[1] - t

\* The hit next to the low edge of the window, the first of several.
Closest(times, w) ==
  CHOOSE i \in DOMAIN times :
    \A j \in DOMAIN times : Distance(times[i], w) < Distance(times[j], w) \/
                            (Distance(times[i], w) = Distance(times[j], w) /\ i <= j)

\* The times in the window, sorted, and the first of them; without one the closest.
DecodeTdc(times, w) ==
  LET inside == SelectSeq(times, LAMBDA t : InWindow(t, w))
      taken == IF inside # <<>> THEN inside ELSE IF times # <<>> THEN <<times[Closest(times, w)]>> ELSE <<>>
      InTime(t) == t + setup.fTdcOffset
  IN  [mult |-> Len(times),
       time |-> IF taken = <<>> THEN 0 ELSE InTime(taken[1]),
       all |-> IF taken = <<>> THEN <<0>> ELSE SortSeq([i \in DOMAIN taken |-> InTime(taken[i])], LAMBDA s, t : s < t)]

\* the first channel of the hit list whose TDC has a hit and a reference time
RefTime(tdcs) ==
  LET with == {c \in DOMAIN tdcs : tdcs[c].times # <<>> /\ tdcs[c].ref # kBig}
  IN  IF with = {} THEN kBig ELSE tdcs[Min(with)].ref

\* warnings of the reference times are left out for the types in the list, or if
\* the spectrometer was not part of the trigger
IsQuiet(ev) ==
  IF setup.eventtypes # {} THEN ev.type \in setup.eventtypes ELSE ~ev.present

Decode ==
  /\ pc = "clear" /\ seen.events < setup.MaxEvents
  /\ \E ev \in CoinEvents(setup) :
       /\ event' = ev
       /\ det' = [Cleared(det) EXCEPT
            !.fTdcRefTime = RefTime(ev.tdcs), !.quiet = IsQuiet(ev),
            !.adc = [c \in Adcs |-> IF c \in DOMAIN ev.adcs THEN DecodeAdc(ev.adcs[c], setup.adcWindow[c]) ELSE NoAdc],
            !.tdc = [c \in Tdcs |-> IF c \in DOMAIN ev.tdcs THEN DecodeTdc(ev.tdcs[c].times, setup.tdcWindow) ELSE NoTdc]]
  /\ seen' = [seen EXCEPT !.events = @ + 1]
  /\ pc' = "coin"
  /\ UNCHANGED setup

\* Get_CT_Trigtime and Get_RF_TrigTime
TimeOf(d, id) == IF id = 0 THEN 0 ELSE d.tdc[id].time

---------------------------------------------------------------------------
(* THcCoinTime::Process                                                    *)

Track(arm) == event.tracks[arm]
Tracked == \A a \in Arms : Track(a) # <<>>
Measured == Tracked /\ \A a \in Arms : Track(a)[1].fp \notin {-1000, -2000}

ElecArm == IF setup.felecArmName = "H" THEN "HMS" ELSE "SHMS"
HadArm == IF setup.felecArmName = "H" THEN "SHMS" ELSE "HMS"
Flight(arm, s) == Track(arm)[1].flight[s]
FP(arm) == Track(arm)[1].fp

Trigger(d, k) == <<TimeOf(d, TrigIds[Pair[k][1]]), TimeOf(d, TrigIds[Pair[k][2]])>>

\* a mutant: the sign that is right for an electron in the SHMS
Sign_Fixed == -1

Sign == IF setup.felecArmName = "H" THEN 1 ELSE -1

CoinTime ==
  /\ pc = "coin"
  /\ det' = IF ~Measured \/ ~event.massOK THEN det
            ELSE LET raw == [k \in Kinds |-> (Trigger(det, k)[1] + FP("SHMS")) - (Trigger(det, k)[2] + FP("HMS"))]
                 IN  [det EXCEPT
                        !.raw = raw,
                        !.rawNoTrack = [k \in Kinds |-> Trigger(det, k)[1] - Trigger(det, k)[2]],
                        !.coin = [k \in Kinds |-> [s \in Species |->
                           raw[k] + Sign * (Flight(ElecArm, "e") - Flight(HadArm, s)) - setup.eHad_CT_Offset]]]
  /\ pc' = "rf"
  /\ UNCHANGED <<setup, seen, event>>

---------------------------------------------------------------------------
(* THcRFTime::Process                                                      *)

\* the remainder of C, which has the sign of a
FMod(a, b) == IF a >= 0 THEN a % b ELSE -((-a) % b)

Within(a, b) == FMod(FMod(a, b) + b, b)

\* The spacing of EPICS is taken the first time it is there, if it looks sensible
\* and the user has not set another.
TakeEpics(d) ==
  IF d.Bunch_Spacing_Epics = NotLoaded /\ d.epics # NotLoaded
  THEN [d EXCEPT !.Bunch_Spacing_Epics = d.epics,
                 !.Bunch_Spacing = IF d.epics \in setup.Sensible /\ setup.Bunch_Spacing_Override = 0
                                   THEN d.epics ELSE @]
  ELSE d

RFTime ==
  /\ pc = "rf"
  /\ LET d == TakeEpics(det)
         At(arm) == TimeOf(d, RFIds[arm]) - FP(arm)
     IN  det' = IF ~Measured THEN d
                ELSE [d EXCEPT
                        !.rfAll = [a \in Arms |-> Within(At(a) + setup.rfOffset[a].all, d.Bunch_Spacing)],
                        !.rf = [a \in Arms |-> [s \in Species |->
                           Within(At(a) + RFOffset(a, s) + Flight(a, s), d.Bunch_Spacing)]]]
  /\ pc' = "done"
  /\ UNCHANGED <<setup, seen, event>>

EndEvent ==
  /\ pc = "done"
  /\ pc' = "clear"
  /\ UNCHANGED <<setup, seen, event, det>>

\* an EPICS event, which may come anew with another value
LoadEpics ==
  /\ pc = "clear"
  /\ \E e \in setup.Epics \ {det.epics} : det' = [det EXCEPT !.epics = e]
  /\ UNCHANGED <<setup, seen, event, pc>>

\* Init for the next run reads the database anew; the constructor alone resets
\* Bunch_Spacing_Epics.
NextRun ==
  /\ pc = "clear" /\ seen.runs < setup.MaxRuns
  /\ det' = [det EXCEPT !.Bunch_Spacing = InitialSpacing]
  /\ seen' = [seen EXCEPT !.runs = @ + 1]
  /\ UNCHANGED <<setup, event, pc>>

Next == Decode \/ CoinTime \/ RFTime \/ EndEvent \/ LoadEpics \/ NextRun

Spec == Init /\ [][Next]_vars

---------------------------------------------------------------------------
(* Properties.                                                             *)

TypeInvariant ==
  /\ seen.events \in 0 .. setup.MaxEvents /\ seen.runs \in 1 .. setup.MaxRuns
  /\ DOMAIN det.adc = Adcs /\ DOMAIN det.tdc = Tdcs
  /\ \A k \in Kinds : DOMAIN det.coin[k] = Species
  /\ det.Bunch_Spacing \in Nat \ {0} /\ det.quiet \in BOOLEAN
  /\ pc \in {"clear", "coin", "rf", "done"}

Done == pc = "done"

\* Without a measured track in each arm no time is known but the raw times that
\* Clear leaves; channels without a hit hold nothing of earlier events.
NothingStale ==
  Done =>
    /\ ~Measured => /\ \A k \in Kinds, s \in Species : det.coin[k][s] = kBig
                    /\ \A a \in Arms : det.rfAll[a] = kBig /\ \A s \in Species : det.rf[a][s] = kBig
                    /\ det.raw["ROC1"] = kBig /\ det.raw["ROC2"] = kBig
    /\ \A c \in Tdcs \ DOMAIN event.tdcs : det.tdc[c].all = <<>>
    /\ \A c \in Adcs \ DOMAIN event.adcs : det.adc[c].good = <<>>

\* when a particle left the target, by a trigger of its arm
LeftTarget(time, arm, s) == time + FP(arm) - Flight(arm, s)
ParticleIn(arm, hadron) == IF arm = ElecArm THEN "e" ELSE hadron

\* The coincidence time of a particle is the difference of the times at which the two
\* left the target, that of the SHMS less that of the HMS, whichever arm has the
\* electron (THcCoinTime::Process).
CoincidenceIsTrue ==
  Done /\ Measured /\ event.massOK =>
    \A k \in Kinds, s \in Species :
      det.coin[k][s] = LeftTarget(Trigger(det, k)[1], "SHMS", ParticleIn("SHMS", s))
                         - LeftTarget(Trigger(det, k)[2], "HMS", ParticleIn("HMS", s)) - setup.eHad_CT_Offset

\* The spacing of the first run: the user's, that of the first EPICS event seen, or
\* the default.
RightSpacing ==
  CASE setup.Bunch_Spacing_Override # 0 -> setup.Bunch_Spacing_Override
    [] setup.Bunch_Spacing_Override = 0 /\ det.Bunch_Spacing_Epics \in setup.Sensible -> det.Bunch_Spacing_Epics
    [] OTHER -> setup.DefaultSpacing

\* In the first run a time within the bunch spacing is from 0 to the spacing, and
\* off by a whole number of bunches, however early the particle came
\* (THcRFTime::Process; in later runs the spacing of EPICS is not used again).
BunchTimesAreTrue ==
  Done /\ Measured /\ seen.runs = 1 =>
    \A a \in Arms, s \in Species :
      /\ det.rf[a][s] \in 0 .. RightSpacing - 1
      /\ (TimeOf(det, RFIds[a]) - FP(a) + RFOffset(a, s) + Flight(a, s) - det.rf[a][s]) % RightSpacing = 0

\* A channel's time is one of its hits, and in the window if any of them is; the
\* pulse taken is the first in its window, of the samples if only they have it.
TriggersAreChosen ==
  Done =>
    /\ \A c \in DOMAIN event.tdcs :
         LET times == event.tdcs[c].times
             raw == det.tdc[c].time - setup.fTdcOffset
         IN  times # <<>> =>
               /\ \E i \in DOMAIN times :
                    /\ raw = times[i]
                    /\ \A j \in 1 .. i - 1 : ~InWindow(times[j], setup.tdcWindow)
               /\ (\E i \in DOMAIN times : InWindow(times[i], setup.tdcWindow)) => InWindow(raw, setup.tdcWindow)
               /\ ToSet(det.tdc[c].all) \subseteq {times[i] + setup.fTdcOffset : i \in DOMAIN times}
    /\ \A c \in DOMAIN event.adcs :
         LET ch == event.adcs[c]
             window == setup.adcWindow[c]
             Some(s) == \E i \in DOMAIN s : InWindow(s[i].time, window)
         IN  /\ ~setup.fUseSampWaveform /\ Some(ch.pulses) =>
                  \E i \in DOMAIN ch.pulses : /\ det.adc[c].good[1].amp = ch.pulses[i].amp
                                              /\ \A j \in 1 .. i - 1 : ~InWindow(ch.pulses[j].time, window)
             /\ (det.adc[c].good = <<>>) = (~Some(ch.pulses) /\ (ch.waveform /\ (ch.pulses = <<>> \/ setup.fUseSampWaveform) => ~Some(ch.found)))
=============================================================================
