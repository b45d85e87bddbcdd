------------------------------- MODULE Raster -------------------------------
(***************************************************************************)
(* The beam at the target, from the raster's coils and the beam position   *)
(* monitors (THcRaster.cxx).                                               *)
(*                                                                         *)
(* The monitors are read by EPICS now and then; without their values, all  *)
(* of them zero, the last position is kept.  Positions at the target and   *)
(* angles are kept times SpanAC, the distance of monitors A and C; a count *)
(* of a coil is a unit of both.                                            *)
(***************************************************************************)
EXTENDS Integers, SequencesExt

CONSTANTS
  RasterSetups,   \* the parameters and the number of events
  RasterEvents(_),
  ZeroA, SpanAC,  \* fgbpma_zpos, and what it is more than fgbpmc_zpos
  MaxPedestals    \* 1000

VARIABLES setup, seen, event, det, pc

vars == <<setup, seen, event, det, pc>>

\* the coils in the order of their counters, and the monitors
Coils == <<"YA", "XA", "YB", "XB">>
Coil == ToSet(Coils)
Monitors == {"A", "B", "C"}
Nowhere == [x |-> 0, y |-> 0]

\* fPosition: without the raster, and with the coils A or B
Places == {"0", "A", "B"}
NoBeam == [at |-> [m \in Monitors |-> Nowhere], tar |-> Nowhere, angle |-> Nowhere, energy |-> 0]

\* ReadDatabase: without a position in the parameters that of EPICS is used
fFlag_use_EPICS_bpm == setup.beam = <<>>

Init ==
  /\ setup \in RasterSetups
  /\ seen = 0 /\ event = <<>> /\ pc = "decode"
  /\ det = [raw |-> [c \in Coil |-> 0], ped |-> [c \in Coil |-> 0], offset |-> setup.zero_offset,
            fNPedestalEvents |-> 0, fAnalyzePedestals |-> FALSE,
            bpm |-> [m \in Monitors |-> Nowhere], fEbeamEpics_read |-> 0, prev |-> NoBeam,
            adc |-> [c \in Coil |-> 0], tar |-> Nowhere, angle |-> Nowhere, fEbeamEpics |-> 0,
            position |-> [p \in Places |-> Nowhere], direction |-> Nowhere]

---------------------------------------------------------------------------
(* Decode                                                                  *)

\* The last value of a coil's channel; with no pulse, the integral of its samples.
Values(ch) == IF ch.pulses # <<>> THEN ch.pulses ELSE ch.samples
Latest(old, values) == [c \in Coil |-> IF c \in DOMAIN values /\ values[c] # <<>> THEN Last(values[c]) ELSE old[c]]

\* A pedestal event: of its pulses alone, and the last value of each channel stands
\* for all of them.
AccumulatePedestals(ev) ==
  /\ ev.pedestal /\ det.fNPedestalEvents < MaxPedestals
  /\ det' = [det EXCEPT !.ped = Latest(@, [c \in DOMAIN ev.coils |-> ev.coils[c].pulses]),
                        !.fAnalyzePedestals = TRUE, !.fNPedestalEvents = @ + 1]
  /\ pc' = "process"

CalculatePedestals(d) ==
  IF d.fAnalyzePedestals THEN [c \in Coil |-> d.ped[c] \div d.fNPedestalEvents] ELSE d.offset

\* the values EPICS has loaded by now
ReadEpics(d, epics) ==
  [d EXCEPT !.bpm = [m \in Monitors |-> IF m \in DOMAIN epics.bpm THEN epics.bpm[m] ELSE @[m]],
            !.fEbeamEpics_read = IF epics.energy # 0 THEN epics.energy ELSE @]

DecodeSignals(ev) ==
  /\ ~(ev.pedestal /\ det.fNPedestalEvents < MaxPedestals)
  /\ det' = ReadEpics([det EXCEPT !.offset = CalculatePedestals(det), !.fAnalyzePedestals = FALSE,
                                  !.raw = Latest(@, [c \in DOMAIN ev.coils |-> Values(ev.coils[c])])], ev.epics)
  /\ pc' = "process"

Decode ==
  /\ pc = "decode" /\ seen < setup.MaxEvents
  /\ \E ev \in RasterEvents(setup) :
       event' = ev /\ (AccumulatePedestals(ev) \/ DecodeSignals(ev))
  /\ seen' = seen + 1
  /\ UNCHANGED setup

---------------------------------------------------------------------------
(* Process                                                                 *)

Along(a, axis) == setup.slope[axis] * a[axis] + setup.off[axis]
Position(raw) == [x |-> Along(raw, "x"), y |-> Along(raw, "y")]

\* the beam through monitors A and C
BeamOf(d) ==
  LET at == [m \in Monitors |-> Position(d.bpm[m])]
      tar(axis) == SpanAC * at["A"][axis] - ZeroA * (at["A"][axis] - at["C"][axis])
      angle(axis) == at["C"][axis] - at["A"][axis]
  IN  [at |-> at, tar |-> [x |-> tar("x"), y |-> tar("y")], angle |-> [x |-> angle("x"), y |-> angle("y")],
       energy |-> d.fEbeamEpics_read]

checkBPM(d) == \A m \in Monitors : d.bpm[m] = Nowhere

\* the ramp of a coil, which turns the beam
Swing(d, c) == d.raw[c] - d.offset[c]

\* a mutant: the kept beam is not renewed
Kept_First(d) == IF checkBPM(d) \/ d.prev # NoBeam THEN d.prev ELSE BeamOf(d)

Kept(d) == IF checkBPM(d) THEN d.prev ELSE BeamOf(d)

\* X is to the right at the target in EPICS' system, to the left in the others.
Mirror(p) == [x |-> -p.x, y |-> p.y]

Swung(d, p, xCoil, yCoil) ==
  [x |-> p.x - Swing(d, xCoil) * SpanAC, y |-> p.y - Swing(d, yCoil) * SpanAC]

WithBeam(d, prev, tar, angle) ==
  [d EXCEPT
     !.prev = prev, !.fEbeamEpics = prev.energy,
     !.adc = [c \in Coil |-> Swing(d, c)],
     !.tar = tar, !.angle = angle,
     !.position = [p \in Places |->
        IF ~setup.fgusefr \/ p = "0" THEN Mirror(tar)
        ELSE IF p = "A" THEN Swung(d, Mirror(tar), "XA", "YA") ELSE Swung(d, Mirror(tar), "XB", "YB")],
     !.direction = IF setup.fgusefr THEN Swung(d, Mirror(angle), "XA", "YA") ELSE angle]

Process ==
  /\ pc = "process"
  /\ LET prev == Kept(det)
     IN  det' = IF fFlag_use_EPICS_bpm THEN WithBeam(det, prev, Mirror(prev.tar), Mirror(prev.angle))
                ELSE WithBeam(det, prev, setup.beam[1].tar, setup.beam[1].angle)
  /\ pc' = "decode"
  /\ UNCHANGED <<setup, seen, event>>

Next == Decode \/ Process

Spec == Init /\ [][Next]_vars

---------------------------------------------------------------------------
(* Properties.                                                             *)

TypeInvariant ==
  /\ seen \in 0 .. setup.MaxEvents
  /\ det.fNPedestalEvents \in 0 .. MaxPedestals /\ det.fAnalyzePedestals \in BOOLEAN
  /\ DOMAIN det.raw = Coil /\ DOMAIN det.bpm = Monitors
  /\ pc \in {"decode", "process"}

Done == pc = "decode" /\ seen > 0

\* where monitor m saw the beam last
SeenAt(m) == IF checkBPM(det) THEN det.prev.at[m] ELSE Position(event.epics.bpm[m])

\* With the raster in use and at rest, the beam that is handed to the spectrometers goes
\* through the positions last seen by monitors A and C, also when the monitors give
\* nothing now (THcRaster::Process; without fgusefr the angle in x has the sign of
\* the other system).
BeamIsStraight ==
  Done /\ fFlag_use_EPICS_bpm /\ setup.fgusefr /\ ~event.pedestal /\ DOMAIN event.epics.bpm = Monitors
    /\ Swing(det, "XA") = 0 /\ Swing(det, "YA") = 0 =>
      \A axis \in {"x", "y"} :
        /\ det.position["A"][axis] - ZeroA * det.direction[axis] = SpanAC * SeenAt("A")[axis]
        /\ det.position["0"][axis] - (ZeroA - SpanAC) * det.direction[axis] = SpanAC * SeenAt("C")[axis]

\* A coil is at rest at its pedestal: the offset of the parameters until the first
\* event after pedestal events, and then that of all those before, once.
PedestalsAreCurrent ==
  Done /\ ~event.pedestal =>
    det.offset = IF det.fNPedestalEvents = 0 THEN setup.zero_offset
                 ELSE [c \in Coil |-> det.ped[c] \div det.fNPedestalEvents]
=============================================================================
