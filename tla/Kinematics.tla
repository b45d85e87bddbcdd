----------------------------- MODULE Kinematics -----------------------------
(***************************************************************************)
(* The kinematics of a coincidence event: a scattered electron             *)
(* (THcPrimaryKine.cxx) and the hadron (THcSecondaryKine.cxx), two modules *)
(* that run in the order of the replay script.                             *)
(*                                                                         *)
(* The momenta are vectors of integers that have an energy for each mass.  *)
(* Squares stand for the magnitudes and invariant masses; the angles and   *)
(* the components in the centre of mass are left out.                      *)
(***************************************************************************)
EXTENDS Integers, Sequences, Functions

CONSTANTS
  KineSetups,      \* the masses, the order of the modules and the number of events
  KineEvents(_),   \* the tracks of the two spectrometers, and the beam
  Mp,              \* mass of the proton for x_bj
  Hadrons,         \* the masses of the pion, the kaon and the proton
  kBig

VARIABLES setup, seen, event, det, pc

vars == <<setup, seen, event, det, pc>>

\* 4-vectors
Vect(p, e) == [p |-> p, e |-> e]
Plus(a, b) == Vect([i \in 1 .. 3 |-> a.p[i] + b.p[i]], a.e + b.e)
Minus(a, b) == Vect([i \in 1 .. 3 |-> a.p[i] - b.p[i]], a.e - b.e)
Mag2(p) == p[1] * p[1] + p[2] * p[2] + p[3] * p[3]
M2(a) == a.e * a.e - Mag2(a.p)
Energy(p, m) == CHOOSE e \in 0 .. (p[1] + p[2] + p[3] + m) : e * e = Mag2(p) + m * m
SetVectM(p, m) == Vect(p, Energy(p, m))
AtRest(m) == Vect(<<0, 0, 0>>, m)
Nothing == Vect(<<kBig, kBig, kBig>>, kBig)

\* THcPrimaryKine::Clear
NoPrimary ==
  [fDataValid |-> FALSE, fP0 |-> Nothing, fP1 |-> Nothing, fA |-> Nothing, fA1 |-> Nothing, fQ |-> Nothing,
   fQ2 |-> kBig, fOmega |-> kBig, fW2 |-> kBig, hasW |-> FALSE, fXbj |-> <<kBig, 1>>]

\* THcSecondaryKine::Clear; the missing masses keep those of an earlier event
NoSecondary(fMM) ==
  [fDataValid |-> FALSE, fX |-> Nothing, fB |-> Nothing, fPmiss2 |-> kBig, fMrecoil2 |-> kBig,
   fTX |-> kBig, fEmiss |-> kBig, fErecoil |-> kBig, fMandelS |-> kBig, fMandelT |-> kBig, fMandelU |-> kBig,
   fMM |-> fMM]

\* ReadDatabase replaces the target mass that was set; a mass that is not among the
\* parameters was never set.
Init ==
  /\ setup \in KineSetups
  /\ seen = 0 /\ event = <<>> /\ pc = "event"
  /\ \E fMA \in setup.gtargmass :
       det = [fMA |-> fMA, primary |-> NoPrimary, secondary |-> NoSecondary([h \in Hadrons |-> 0])]

---------------------------------------------------------------------------

\* The next event: all modules are cleared.
Clear ==
  /\ pc = "event" /\ seen < setup.MaxEvents
  /\ event' \in KineEvents(setup)
  /\ seen' = seen + 1 /\ pc' = setup.order[1]
  /\ det' = [det EXCEPT !.primary = NoPrimary, !.secondary = NoSecondary(@.fMM)]
  /\ UNCHANGED setup

After(module) == IF module = setup.order[1] THEN setup.order[2] ELSE "event"

\* THcPrimaryKine::Process
Electron(fP0, fP1, fA, fQ, fA1, fMp1) ==
  [fDataValid |-> TRUE, fP0 |-> fP0, fP1 |-> fP1, fA |-> fA, fA1 |-> fA1, fQ |-> fQ,
   fQ2 |-> -M2(fQ), fOmega |-> fQ.e, fW2 |-> M2(fMp1), hasW |-> M2(fMp1) > 0,
   fXbj |-> <<-M2(fQ), 2 * Mp * fQ.e>>]

Scattered(fP0, fP1, fA) ==
  Electron(fP0, fP1, fA, Minus(fP0, fP1), Plus(fA, Minus(fP0, fP1)), Plus(AtRest(Mp), Minus(fP0, fP1)))

Primary ==
  /\ pc = "primary"
  /\ det' = IF event.electron = <<>> THEN det
            ELSE [det EXCEPT !.primary = Scattered(SetVectM(event.beam, setup.fM),
                                                   SetVectM(event.electron, setup.fM), AtRest(det.fMA))]
  /\ pc' = After("primary")
  /\ UNCHANGED <<setup, seen, event>>

\* The missing mass squared if the hadron were one of mass h: the energy of a hadron of
\* the nominal mass is replaced; without a mass there is -1000.
MissingMass(p, fEmiss, fPmiss2, h) ==
  LET e == IF h = setup.fMX THEN fEmiss ELSE fEmiss + Energy(p, setup.fMX) - Energy(p, h)
      d == e * e - fPmiss2
  IN  IF setup.fMX = 0 THEN -1000 ELSE IF d < 0 THEN -d ELSE d

MandelU(fQ, fX, fB) == M2(Minus(fQ, fB))

Hadron(p1, fX, fB, fEmiss) ==
  [fDataValid |-> TRUE, fX |-> fX, fB |-> fB, fPmiss2 |-> Mag2(fB.p), fMrecoil2 |-> M2(fB),
   fTX |-> fX.e - setup.fMX, fEmiss |-> fEmiss, fErecoil |-> fB.e,
   fMandelS |-> M2(Plus(p1.fQ, p1.fA)), fMandelT |-> M2(Minus(p1.fQ, fX)), fMandelU |-> MandelU(p1.fQ, fX, fB),
   fMM |-> [h \in Hadrons |-> MissingMass(fX.p, fEmiss, Mag2(fB.p), h)]]

Detected(p1, fX) == Hadron(p1, fX, Minus(p1.fA1, fX), p1.fOmega + p1.fA.e - fX.e)

\* THcSecondaryKine::Process
Secondary ==
  /\ pc = "secondary"
  /\ det' = IF event.hadron = <<>> \/ ~det.primary.fDataValid THEN det
            ELSE [det EXCEPT !.secondary = Detected(det.primary, SetVectM(event.hadron, setup.fMX))]
  /\ pc' = After("secondary")
  /\ UNCHANGED <<setup, seen, event>>

Next == Clear \/ Primary \/ Secondary

Spec == Init /\ [][Next]_vars

---------------------------------------------------------------------------
(* Properties.                                                             *)

TypeInvariant ==
  /\ seen \in 0 .. setup.MaxEvents /\ pc \in {"event", "primary", "secondary"}
  /\ det.primary.fDataValid \in BOOLEAN /\ det.secondary.fDataValid \in BOOLEAN
  /\ DOMAIN det.secondary.fMM = Hadrons

\* The hadron's kinematics are never those of another event or of an event without a
\* scattered electron, in whichever order the modules run (the missing masses, which
\* Clear leaves, excepted).
NothingStale ==
  /\ det.secondary.fDataValid => det.primary.fDataValid
  /\ pc = "event" /\ seen > 0 =>
       /\ det.primary.fDataValid = (event.electron # <<>>)
       /\ ~det.primary.fDataValid => det.primary = NoPrimary
       /\ ~det.secondary.fDataValid => det.secondary = NoSecondary(det.secondary.fMM)
       /\ det.secondary.fDataValid =>
            det.secondary.fX.p = event.hadron /\ det.primary.fP1.p = event.electron

\* Energy and momentum are conserved at both vertices: the three invariants of the second
\* add up to the masses of its four particles, and the missing mass of each
\* hypothesis is that of what beam and target leave to a hadron of that mass
\* (THcSecondaryKine::Process, the four cases of the nominal mass).
KinematicsAreConserved ==
  det.secondary.fDataValid =>
    LET p1 == det.primary
        p2 == det.secondary
        left(h) == p1.fP0.e + det.fMA - p1.fP1.e - Energy(event.hadron, h)
    IN  /\ p2.fMandelS + p2.fMandelT + p2.fMandelU = M2(p1.fQ) + M2(p1.fA) + M2(p2.fX) + M2(p2.fB)
        /\ Plus(Plus(p1.fP1, p2.fX), p2.fB) = Plus(p1.fP0, p1.fA)
        /\ setup.fMX # 0 => \A h \in Hadrons :
             LET d == left(h) * left(h) - p2.fPmiss2 IN p2.fMM[h] \in {d, -d} /\ p2.fMM[h] >= 0
=============================================================================
