-------------------------------- MODULE BPM --------------------------------
(***************************************************************************)
(* A beam position monitor with four antennas, x+, x-, y+ and y-           *)
(* (THcBPM.cxx).                                                           *)
(***************************************************************************)
EXTENDS PulseList

CONSTANTS
  BpmSetups,    \* fADCMode, the pedestals, the rotation and the number of events
  BpmEvents(_),
  PedSlack      \* 100

VARIABLES setup, seen, event, det, pc

vars == <<setup, seen, event, det, pc>>

Antennas == 1 .. 4
Axes == {1, 2}

\* Clear; an antenna without a signal has -1
Cleared ==
  [raw |-> [k \in Antennas |-> -1], cor |-> [k \in Antennas |-> -1],
   rot |-> [a \in Axes |-> <<0, 1>>], position |-> [a \in Axes |-> <<0, 1>>]]

Init ==
  /\ setup \in BpmSetups
  /\ seen = 0 /\ event = <<>> /\ pc = "decode"
  /\ det = [event |-> Cleared, peds |-> [k \in Antennas |-> NewPedestal(setup.fPedLimit)],
            fPed |-> [k \in Antennas |-> 0], fAnalyzePedestals |-> FALSE]

---------------------------------------------------------------------------
(* Decode                                                                  *)

\* the signals of a channel, raw and net of the pedestal of the event; without a pulse
\* the integral of the samples
Signals(ch) ==
  IF ch.pulses # <<>> THEN [i \in DOMAIN ch.pulses |-> [raw |-> ch.pulses[i].int, net |-> ch.pulses[i].int - ch.ped]]
  ELSE IF ch.waveform THEN <<[raw |-> ch.found[1].int, net |-> ch.found[1].int - ch.ped]>>
  ELSE <<>>

CalculatePedestals(d) ==
  [k \in Antennas |-> IF d.fAnalyzePedestals THEN Mean(d.peds[k]).sum \div Mean(d.peds[k]).n ELSE d.fPed[k]]

Subtract(fPed, k, s) ==
  CASE setup.fADCMode = "dynamic" -> s.net
    [] setup.fADCMode = "database" -> s.raw - setup.fPedestals[k]
    [] OTHER -> s.raw - fPed[k]

Fired(ev, k) == k \in DOMAIN ev.hits /\ Signals(ev.hits[k]) # <<>>

\* of several signals of an antenna the last one counts
WithSignals(d, ev, fPed) ==
  [d EXCEPT !.fPed = fPed, !.fAnalyzePedestals = FALSE,
            !.event.raw = [k \in Antennas |-> IF Fired(ev, k) THEN Last(Signals(ev.hits[k])).raw ELSE -1],
            !.event.cor = [k \in Antennas |-> IF Fired(ev, k) THEN Subtract(fPed, k, Last(Signals(ev.hits[k]))) ELSE -1]]

AccumulatePedestals(d, ev) ==
  [d EXCEPT !.fAnalyzePedestals = TRUE,
            !.peds = [k \in Antennas |-> IF k \in DOMAIN ev.hits
                                         THEN AddToPedestal(@[k], RawData(ev.hits[k]), setup.fMinPed, PedSlack)
                                         ELSE @[k]]]

Clear(d) == [d EXCEPT !.event = Cleared]

Decode ==
  /\ pc = "decode" /\ seen < setup.MaxEvents
  /\ \E ev \in BpmEvents(setup) :
       /\ event' = ev
       /\ det' = IF ev.pedestal THEN AccumulatePedestals(Clear(det), ev)
                 ELSE WithSignals(Clear(det), ev, CalculatePedestals(det))
  /\ seen' = seen + 1 /\ pc' = "process"
  /\ UNCHANGED setup

---------------------------------------------------------------------------
(* Process: the position is a fraction <<num, den>> of each axis.          *)

Fraction(ap, am) == IF ap + am # 0 THEN <<setup.fCalibRot * (ap - am), ap + am>> ELSE <<0, 1>>

\* the monitor is turned, and its centre is off
Turned(rot, a) ==
  LET r == setup.rotmatrix[a]
  IN  <<r[1] * rot[1][1] * rot[2][2] + r[2] * rot[2][1] * rot[1][2] + setup.fOffset[a] * rot[1][2] * rot[2][2],
        rot[1][2] * rot[2][2]>>

WithRot(d, rot) == [d EXCEPT !.event.rot = rot, !.event.position = [a \in Axes |-> Turned(rot, a)]]

Process ==
  /\ pc = "process"
  /\ det' = WithRot(det, [a \in Axes |-> Fraction(det.event.cor[2 * a - 1], det.event.cor[2 * a])])
  /\ pc' = "decode"
  /\ UNCHANGED <<setup, seen, event>>

Next == Decode \/ Process

Spec == Init /\ [][Next]_vars

---------------------------------------------------------------------------
(* Properties.                                                             *)

TypeInvariant ==
  /\ seen \in 0 .. setup.MaxEvents /\ pc \in {"decode", "process"}
  /\ det.fAnalyzePedestals \in BOOLEAN
  /\ \A k \in Antennas : det.event.raw[k] \in Int /\ det.peds[k].count \in Nat
  /\ \A a \in Axes : det.event.rot[a][2] # 0

Done == pc = "decode" /\ seen > 0

\* The antennas of an event are its own; an event of pedestals has none.
NothingStale ==
  Done => \A k \in Antennas :
            event.pedestal \/ ~Fired(event, k) => det.event.raw[k] = -1 /\ det.event.cor[k] = -1

\* After an event with signals the pedestals are those of all pedestal events so far.
PedestalsAreCurrent ==
  Done /\ ~event.pedestal =>
    \A k \in Antennas : det.fPed[k] = Mean(det.peds[k]).sum \div Mean(det.peds[k]).n

\* A beam in the middle gives as much above its pedestal to the antennas of a pair: with
\* such a signal in all four the position is the offset, and with any signals above
\* the pedestals it is within the reach of the antennas (THcBPM::Process).
PositionIsInside ==
  Done /\ ~event.pedestal /\ (\A k \in Antennas : Fired(event, k)) =>
    LET above(k) == LET s == Last(Signals(event.hits[k]))
                    IN  CASE setup.fADCMode = "dynamic" -> s.net
                          [] setup.fADCMode = "database" -> s.raw - setup.fPedestals[k]
                          [] OTHER -> s.raw - det.fPed[k]
    IN  /\ (\A k \in Antennas : above(k) > 0) =>
             \A a \in Axes : /\ det.event.rot[a][1] <= setup.fCalibRot * det.event.rot[a][2]
                             /\ -det.event.rot[a][1] <= setup.fCalibRot * det.event.rot[a][2]
        /\ above(1) = above(2) /\ above(3) = above(4) =>
             \A a \in Axes : det.event.position[a][1] = setup.fOffset[a] * det.event.position[a][2]
=============================================================================
