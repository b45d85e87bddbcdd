----------------------- MODULE HelicityDecoderProofs -----------------------
(***************************************************************************)
(* The decoder for every ring, delay, period and stream of events.  First  *)
(* its type invariant and safety: each stage of Decode is shown to keep a  *)
(* decoder Sound; the theorems follow action by action.                    *)
(* Then, that a decoder which is right tells the truth, and that in a      *)
(* run with the QRT flag the decoder, once it has the quartets and the     *)
(* bits right, keeps them right; and when nothing goes wrong in the run,   *)
(* it implements its abstract specification: no false lock before the      *)
(* first flag, no answer before the calibration and a true one after it.   *)
(* Without the flag, a decoder with four right reports stays right.  At a  *)
(* healthy rate, it calibrates in time with the flag, and without it locks *)
(* out of phase only on bits that are all alike.                           *)
(***************************************************************************)
EXTENDS HelicityDecoder, HelicityRingProofs

\* The types of the members, one by one: what has to be shown of a decoder
\* that was updated member by member.
Members(r) ==
  /\ r.fFirstEvProcessed \in BOOLEAN /\ r.fDisabled \in BOOLEAN
  /\ r.fFoundMPS \in BOOLEAN /\ r.fLastMPSTime \in Int /\ r.fIsNewCycle \in BOOLEAN
  /\ r.fNCycle \in Nat /\ r.fFirstCycle \in Int /\ r.fNQuartet \in Int
  /\ r.fNLastQuartet \in Int /\ r.fQuartet \in [0 .. 3 -> Helicity] /\ r.fnQrt \in Int
  /\ r.fFoundQuartet \in BOOLEAN /\ r.fHaveQRT \in BOOLEAN /\ r.fNQRTProblems \in Nat
  /\ r.fNBits \in 0 .. MAXBIT
  /\ r.fRingSeed_reported \in Seeds /\ r.fRingSeed_actual \in Seeds
  /\ r.fQuartetStartHelicity \in Helicity /\ r.fQuartetStartPredictedHelicity \in Helicity
  /\ r.fActualHelicity \in Helicity /\ r.fPredictedHelicity \in Helicity

SameShape(r, d) == DOMAIN r = DOMAIN d /\ r = [x \in DOMAIN r |-> r[x]]

LEMMA StateHasMembers ==
  ASSUME NEW d \in DecoderState
  PROVE  Members(d)
BY DEF DecoderState, Members

LEMMA MembersMakeState ==
  ASSUME NEW d \in DecoderState, NEW r, SameShape(r, d), Members(r)
  PROVE  r \in DecoderState
BY DEF DecoderState, Members, SameShape

\* What every stage keeps: the types, the order of the cycles, the tolerance
\* for QRT problems, and the two rings in step.
Sound(d) ==
  /\ HelDelay \in Nat
  /\ d \in DecoderState
  /\ d.fFirstCycle <= d.fNCycle
  /\ d.fHaveQRT => d.fNQRTProblems <= MaxQRTProblems
  /\ Calibrated(d) => d.fRingSeed_actual = Advance[HelDelay \div 4][d.fRingSeed_reported]

Quiet(d) == d.fActualHelicity # kUnknown => Calibrated(d)

\* What an update that leaves bits and rings alone has to keep.
LEMMA SoundUpdate ==
  ASSUME NEW d, Sound(d), NEW r, SameShape(r, d), Members(r),
         r.fFirstCycle <= r.fNCycle,
         r.fHaveQRT => r.fNQRTProblems <= MaxQRTProblems,
         \/ r.fNBits = 0
         \/ /\ r.fNBits = d.fNBits /\ r.fRingSeed_actual = d.fRingSeed_actual
            /\ r.fRingSeed_reported = d.fRingSeed_reported
  PROVE  Sound(r)
<1>1. r \in DecoderState
  BY MembersMakeState DEF Sound
<1> QED
  BY <1>1, RingAssumption DEF Sound, Calibrated

\* What an update has to leave alone to keep a decoder Sound.
Unmoved(r, d) ==
  /\ r.fNCycle = d.fNCycle /\ r.fFirstCycle = d.fFirstCycle
  /\ r.fHaveQRT = d.fHaveQRT /\ r.fNQRTProblems = d.fNQRTProblems
  /\ r.fNBits = d.fNBits /\ r.fRingSeed_actual = d.fRingSeed_actual
  /\ r.fRingSeed_reported = d.fRingSeed_reported

LEMMA UnmovedSound ==
  ASSUME NEW d, Sound(d), NEW r, SameShape(r, d), Members(r), Unmoved(r, d)
  PROVE  Sound(r)
BY SoundUpdate DEF Unmoved, Sound

LEMMA CountQuartetSound ==
  ASSUME NEW d, Sound(d)
  PROVE  Sound(CountQuartet(d))
<1> DEFINE r == CountQuartet(d)
<1>1. SameShape(r, d)
  BY DEF CountQuartet, SameShape
<1>2. Members(d)
  BY StateHasMembers DEF Sound
<1>3. Members(r)
  BY <1>2 DEF Members, CountQuartet, QuartetOf, Sound, DecoderState
<1>4. Unmoved(r, d)
  BY DEF CountQuartet, Sound, DecoderState, Unmoved
<1> HIDE DEF r
<1>5. Sound(r)
  BY <1>1, <1>3, <1>4, UnmovedSound
<1> QED
  BY <1>5 DEF r

LEMMA LockOnQRTSound ==
  ASSUME NEW d, Sound(d)
  PROVE  Sound(LockOnQRT(d))
<1> DEFINE r == LockOnQRT(d)
<1>1. SameShape(r, d)
  BY DEF LockOnQRT, SameShape
<1>2. Members(d)
  BY StateHasMembers DEF Sound
<1>3. Members(r)
  BY <1>2, RingAssumption DEF Members, LockOnQRT, Sound, DecoderState
<1>4. r.fNCycle = d.fNCycle /\ r.fFirstCycle = d.fNCycle /\ r.fNQRTProblems = 0 /\ r.fNBits = 0
  BY DEF LockOnQRT, Sound, DecoderState
<1> HIDE DEF r
<1>5. Sound(r)
  BY <1>1, <1>2, <1>3, <1>4, SoundUpdate, DecoderAssumption DEF Members
<1> QED
  BY <1>5 DEF r

\* Each sign an operator of the decoder produces is one of the three.
LEMMA HelicityTypes ==
  /\ \A b \in Bit : Sign(b) \in Helicity
  /\ kPlus \in Helicity /\ kMinus \in Helicity /\ kUnknown \in Helicity
  /\ \A h \in Helicity : -h \in Helicity
  /\ \A p \in Int, h \in Helicity : InQuartet(p, h) \in Helicity
<1>1. kPlus \in Helicity /\ kMinus \in Helicity /\ kUnknown \in Helicity
  BY DEF Helicity
<1>2. \A h \in Helicity : -h \in Helicity
  BY DEF Helicity, kPlus, kMinus, kUnknown
<1>3. \A p \in Int, h \in Helicity : InQuartet(p, h) \in Helicity
  BY <1>2 DEF InQuartet
<1>4. \A b \in Bit : Sign(b) \in Helicity
  BY <1>1 DEF Sign
<1> QED
  BY <1>1, <1>2, <1>3, <1>4

LEMMA FromRingsSound ==
  ASSUME NEW d, Sound(d)
  PROVE  Sound(FromRings(d)) /\ FromRings(d).fNBits = d.fNBits
<1> DEFINE r == FromRings(d)
<1>1. SameShape(r, d)
  BY DEF FromRings, SameShape
<1>2. Members(d)
  BY StateHasMembers DEF Sound
<1>3. /\ Sign(d.fRingSeed_actual[1]) \in Helicity
      /\ Sign(d.fRingSeed_reported[1]) \in Helicity
  BY <1>2, HelicityTypes, RingAssumption DEF Members, Seeds
<1>4. Members(r)
  <2>1. PhaseOf(d) \in Int
    BY <1>2 DEF PhaseOf, Members
  <2> QED
    BY <1>2, <1>3, <2>1, HelicityTypes DEF Members, FromRings, Sound, DecoderState
<1>5. Unmoved(r, d)
  BY DEF FromRings, Sound, DecoderState, Unmoved
<1> HIDE DEF r
<1>6. Sound(r)
  BY <1>1, <1>4, <1>5, UnmovedSound
<1> QED
  BY <1>5, <1>6 DEF r, Unmoved

LEMMA AdvanceRingsSound ==
  ASSUME NEW d, Sound(d), NEW n \in Nat
  PROVE  /\ Sound(AdvanceRings(d, n)) /\ AdvanceRings(d, n).fNBits = d.fNBits
         /\ AdvanceRings(d, n).fNCycle = d.fNCycle
         /\ AdvanceRings(d, n).fFirstCycle = d.fFirstCycle
<1> DEFINE r == AdvanceRings(d, n)
           k == HelDelay \div 4
<1>1. SameShape(r, d)
  BY DEF AdvanceRings, SameShape
<1>2. Members(d)
  BY StateHasMembers DEF Sound
<1>3. /\ Advance[n][d.fRingSeed_actual] \in Seeds
      /\ Advance[n][d.fRingSeed_reported] \in Seeds
  <2>1. d.fRingSeed_actual \in Seeds /\ d.fRingSeed_reported \in Seeds
    BY <1>2 DEF Members
  <2>2. \A s \in Seeds : Advance[n][s] \in Seeds
    BY AdvanceDefined
  <2> QED
    BY <2>1, <2>2
<1>4. Members(r)
  <2>1. PICK s \in Seeds, u \in Seeds : /\ s = Advance[n][d.fRingSeed_actual]
                                        /\ u = Advance[n][d.fRingSeed_reported]
    BY <1>3
  <2>2. r = [d EXCEPT !.fRingSeed_actual = s, !.fRingSeed_reported = u]
    BY <2>1 DEF AdvanceRings
  <2> HIDE DEF r
  <2>3. r \in DecoderState
    BY <2>2 DEF Sound, DecoderState
  <2> QED
    BY <2>3, StateHasMembers
<1>5. /\ r.fNCycle = d.fNCycle /\ r.fFirstCycle = d.fFirstCycle
      /\ r.fHaveQRT = d.fHaveQRT /\ r.fNQRTProblems = d.fNQRTProblems
      /\ r.fNBits = d.fNBits
      /\ r.fRingSeed_actual = Advance[n][d.fRingSeed_actual]
      /\ r.fRingSeed_reported = Advance[n][d.fRingSeed_reported]
  BY DEF AdvanceRings, Sound, DecoderState
<1>6. k \in Nat
  BY DEF Sound
<1>7. Calibrated(d) =>
        Advance[n][d.fRingSeed_actual] = Advance[k][Advance[n][d.fRingSeed_reported]]
  BY <1>2, <1>6, AdvanceCommutes DEF Sound, Members
<1>8. r \in DecoderState
  <2> HIDE DEF r
  <2> QED
    BY <1>1, <1>4, MembersMakeState DEF Sound
<1> HIDE DEF r
<1>9. Sound(r)
  BY <1>5, <1>7, <1>8 DEF Sound, Calibrated
<1> QED
  BY <1>5, <1>9 DEF r

EventSet == [time : Int, mps : BOOLEAN, qrt : BOOLEAN, reported : Helicity]

LEMMA PeriodsMissedType ==
  ASSUME NEW d, Sound(d), NEW e \in EventSet
  PROVE  PeriodsMissed(d, e) \in Nat
<1>1. d.fLastMPSTime \in Int /\ e.time \in Int /\ Period \in Nat /\ Period > 0
  BY StateHasMembers, DecoderAssumption DEF Sound, Members, EventSet
<1>2. \A x \in Int : x > Period => x \div Period \in Nat
  BY <1>1
<1> QED
  BY <1>1, <1>2 DEF PeriodsMissed

LEMMA SkipMissedSound ==
  ASSUME NEW d, Sound(d), NEW e \in EventSet, NEW missed \in Nat
  PROVE  Sound(SkipMissed(d, e, missed))
<1> SUFFICES ASSUME missed > 1
             PROVE  Sound(SkipMissed(d, e, missed))
  BY DEF SkipMissed
<1> DEFINE caught == [d EXCEPT !.fNCycle = @ + missed - 1]
           n == QuartetOf(caught) - QuartetOf(d)
           rep == e.reported
<1>1. Members(d) /\ rep \in Helicity /\ -rep \in Helicity
  BY StateHasMembers, HelicityTypes DEF Sound, EventSet
<1>2. /\ caught.fNCycle = d.fNCycle + missed - 1 /\ caught.fFirstCycle = d.fFirstCycle
      /\ caught.fHaveQRT = d.fHaveQRT /\ caught.fNQRTProblems = d.fNQRTProblems
      /\ caught.fNBits = d.fNBits /\ caught.fRingSeed_actual = d.fRingSeed_actual
      /\ caught.fRingSeed_reported = d.fRingSeed_reported
  BY DEF Sound, DecoderState
<1>3. Sound(caught)
  <2>1. SameShape(caught, d)
    BY DEF SameShape
  <2>2. Members(caught)
    BY <1>1 DEF Members, Sound, DecoderState
  <2> HIDE DEF caught
  <2> QED
    BY <1>1, <1>2, <2>1, <2>2, SoundUpdate DEF Sound, Members
<1>4. n \in Nat
  BY <1>1, <1>2 DEF Members, QuartetOf
<1>5. CASE ~Calibrated(d)
  <2> DEFINE r == [caught EXCEPT !.fActualHelicity = kUnknown, !.fQuartet[0] = rep, !.fQuartet[1] = 0]
  <2>1. SkipMissed(d, e, missed) = r
    BY <1>5 DEF SkipMissed
  <2>2. SameShape(r, caught)
    <3> HIDE DEF caught
    <3> QED
      BY DEF SameShape
  <2>3. Members(caught)
    BY <1>3, StateHasMembers DEF Sound
  <2>4. Members(r)
    <3> HIDE DEF caught
    <3> QED
      BY <1>1, <1>3, <2>3, HelicityTypes DEF Members, Sound, DecoderState, kUnknown
  <2>5. Unmoved(r, caught)
    <3> HIDE DEF caught
    <3> QED
      BY <1>3 DEF Sound, DecoderState, Unmoved
  <2> HIDE DEF r, caught
  <2>6. Sound(r)
    BY <1>3, <2>2, <2>4, <2>5, UnmovedSound
  <2> QED
    BY <2>1, <2>6
<1>6. CASE Calibrated(d)
  <2> DEFINE f == FromRings(AdvanceRings(caught, n))
             odd == PhaseOf(caught) \in {1, 3}
             r == [f EXCEPT !.fQuartet[0] = IF odd THEN rep ELSE -rep,
                            !.fQuartet[1] = -rep,
                            !.fQuartet[2] = IF odd THEN -rep ELSE rep]
  <2>1. SkipMissed(d, e, missed) = r
    BY <1>6 DEF SkipMissed
  <2>2. Sound(f)
    <3> HIDE DEF caught, n
    <3> QED
      BY <1>3, <1>4, AdvanceRingsSound, FromRingsSound
  <2>3. Members(f)
    BY <2>2, StateHasMembers DEF Sound
  <2> HIDE DEF f
  <2>4. SameShape(r, f)
    BY DEF SameShape
  <2>5. Members(r)
    BY <1>1, <2>2, <2>3 DEF Members, Sound, DecoderState
  <2>6. Unmoved(r, f)
    BY <2>2 DEF Sound, DecoderState, Unmoved
  <2> HIDE DEF r
  <2>7. Sound(r)
    BY <2>2, <2>4, <2>5, <2>6, UnmovedSound
  <2> QED
    BY <2>1, <2>7
<1> QED
  BY <1>5, <1>6

LEMMA CountCycleSound ==
  ASSUME NEW d, Sound(d), NEW e \in EventSet
  PROVE  Sound(CountCycle(d, e))
<1> DEFINE r == CountCycle(d, e)
<1>1. SameShape(r, d)
  BY DEF CountCycle, SameShape
<1>2. Members(d) /\ e.reported \in Helicity
  BY StateHasMembers DEF Sound, EventSet
<1>3. r.fQuartet \in [0 .. 3 -> Helicity]
  <2> DEFINE q == [i \in 0 .. 3 |-> IF i = 0 THEN e.reported ELSE d.fQuartet[i - 1]]
  <2>1. r.fQuartet = q
    BY DEF CountCycle, Sound, DecoderState
  <2>2. \A i \in 0 .. 3 : i # 0 => i - 1 \in 0 .. 3
    OBVIOUS
  <2>3. q \in [0 .. 3 -> Helicity]
    BY <1>2, <2>2 DEF Members
  <2> QED
    BY <2>1, <2>3
<1>4. Members(r)
  BY <1>2, <1>3 DEF Members, CountCycle, Sound, DecoderState
<1>5. /\ r.fNCycle = d.fNCycle + 1 /\ r.fFirstCycle = d.fFirstCycle
      /\ r.fHaveQRT = d.fHaveQRT /\ r.fNQRTProblems = d.fNQRTProblems
      /\ r.fNBits = d.fNBits /\ r.fRingSeed_actual = d.fRingSeed_actual
      /\ r.fRingSeed_reported = d.fRingSeed_reported
  BY DEF CountCycle, Sound, DecoderState
<1> HIDE DEF r
<1>6. Sound(r)
  BY <1>1, <1>2, <1>4, <1>5, SoundUpdate DEF Sound, Members
<1> QED
  BY <1>6 DEF r

\* A change of the problem counter and of the quartet counter alone.
LEMMA ProblemsSound ==
  ASSUME NEW d, Sound(d), NEW p \in Nat,
         d.fHaveQRT => p <= MaxQRTProblems
  PROVE  Sound([d EXCEPT !.fNQRTProblems = p])
<1> DEFINE r == [d EXCEPT !.fNQRTProblems = p]
<1>1. SameShape(r, d)
  BY DEF SameShape
<1>2. Members(d)
  BY StateHasMembers DEF Sound
<1>3. Members(r)
  BY <1>2 DEF Members, Sound, DecoderState
<1>4. /\ r.fNCycle = d.fNCycle /\ r.fFirstCycle = d.fFirstCycle
      /\ r.fHaveQRT = d.fHaveQRT /\ r.fNQRTProblems = p
      /\ r.fNBits = d.fNBits /\ r.fRingSeed_actual = d.fRingSeed_actual
      /\ r.fRingSeed_reported = d.fRingSeed_reported
  BY DEF Sound, DecoderState
<1> HIDE DEF r
<1>5. Sound(r)
  BY <1>1, <1>3, <1>4, SoundUpdate DEF Sound
<1> QED
  BY <1>5 DEF r

LEMMA TrackQRTSound ==
  ASSUME NEW d, Sound(d)
  PROVE  Sound(TrackQRT(d))
<1> DEFINE c == CountQuartet(d)
<1>1. Sound(c) /\ c.fNQRTProblems \in Nat
  BY CountQuartetSound, StateHasMembers DEF Sound, Members
<1>2. Sound(LockOnQRT(c))
  BY <1>1, LockOnQRTSound
<1>3. Sound([c EXCEPT !.fNQRTProblems = 0])
  BY <1>1, ProblemsSound, DecoderAssumption
<1>4. c.fNQRTProblems + 1 <= MaxQRTProblems => Sound([c EXCEPT !.fNQRTProblems = @ + 1])
  <2> SUFFICES ASSUME c.fNQRTProblems + 1 <= MaxQRTProblems
               PROVE  Sound([c EXCEPT !.fNQRTProblems = c.fNQRTProblems + 1])
    OBVIOUS
  <2>1. c.fNQRTProblems + 1 \in Nat
    BY <1>1 DEF Members
  <2> HIDE DEF c
  <2> QED
    BY <1>1, <2>1, ProblemsSound
<1>5. ~(c.fNQRTProblems + 1 > MaxQRTProblems) => c.fNQRTProblems + 1 <= MaxQRTProblems
  BY <1>1, DecoderAssumption
<1> QED
  BY <1>2, <1>3, <1>4, <1>5 DEF TrackQRT

LEMMA TrackWithoutQRTSound ==
  ASSUME NEW d, Sound(d)
  PROVE  Sound(TrackWithoutQRT(d))
<1> DEFINE c == CountQuartet(d)
           r == [c EXCEPT !.fNQRTProblems = @ + 1, !.fHaveQRT = FALSE, !.fNBits = 0,
                          !.fNLastQuartet = c.fNQuartet]
<1>1. Sound(c) /\ Members(c)
  BY CountQuartetSound, StateHasMembers DEF Sound
<1>2. Sound(r)
  <2> HIDE DEF c
  <2>1. SameShape(r, c)
    BY DEF SameShape
  <2>2. Members(r)
    BY <1>1, RingAssumption DEF Members, Sound, DecoderState
  <2>3. /\ r.fNCycle = c.fNCycle /\ r.fFirstCycle = c.fFirstCycle
        /\ ~r.fHaveQRT /\ r.fNBits = 0
    BY <1>1 DEF Sound, DecoderState
  <2> HIDE DEF r
  <2> QED
    BY <1>1, <2>1, <2>2, <2>3, SoundUpdate DEF Sound
<1>3. c.fNQRTProblems + 1 <= MaxQRTProblems => Sound([c EXCEPT !.fNQRTProblems = @ + 1])
  <2> SUFFICES ASSUME c.fNQRTProblems + 1 <= MaxQRTProblems
               PROVE  Sound([c EXCEPT !.fNQRTProblems = c.fNQRTProblems + 1])
    OBVIOUS
  <2>1. c.fNQRTProblems + 1 \in Nat
    BY <1>1 DEF Members
  <2> HIDE DEF c
  <2> QED
    BY <1>1, <2>1, ProblemsSound
<1>4. ~(c.fNQRTProblems + 1 > MaxQRTProblems) => c.fNQRTProblems + 1 <= MaxQRTProblems
  BY <1>1, DecoderAssumption DEF Members
<1> QED
  BY <1>1, <1>2, <1>3, <1>4 DEF TrackWithoutQRT

LEMMA SearchQuartetSound ==
  ASSUME NEW d, Sound(d)
  PROVE  Sound(SearchQuartet(d))
<1>1. Members(d) /\ QuartetOf(d) \in Int
  BY StateHasMembers DEF Sound, Members, QuartetOf
<1>2. CASE PhaseOf(d) # 3
  BY <1>2, CountQuartetSound DEF SearchQuartet
<1>3. CASE PhaseOf(d) = 3 /\ QuartetTest(d) /\ d.fFoundQuartet
  BY <1>3 DEF SearchQuartet
<1>4. CASE PhaseOf(d) = 3 /\ QuartetTest(d) /\ ~d.fFoundQuartet
  <2> DEFINE r == [d EXCEPT !.fNQuartet = QuartetOf(d), !.fNLastQuartet = QuartetOf(d) - 1,
                            !.fFoundQuartet = TRUE]
  <2>1. SearchQuartet(d) = r
    BY <1>4 DEF SearchQuartet
  <2>2. SameShape(r, d)
    BY DEF SameShape
  <2>3. Members(r)
    BY <1>1 DEF Members, Sound, DecoderState
  <2>4. Unmoved(r, d)
    BY DEF Unmoved, Sound, DecoderState
  <2> HIDE DEF r
  <2> QED
    BY <2>1, <2>2, <2>3, <2>4, UnmovedSound
<1>5. CASE PhaseOf(d) = 3 /\ ~QuartetTest(d)
  <2> DEFINE base == IF d.fNCycle - d.fFirstCycle > 4
                     THEN d.fFirstCycle + 4 * QuartetOf(d) ELSE d.fFirstCycle
             r == [d EXCEPT !.fFirstCycle = base + 1, !.fFoundQuartet = FALSE, !.fNBits = 0]
  <2>1. SearchQuartet(d) = r
    BY <1>5 DEF SearchQuartet
  <2>2. base \in Int /\ base + 1 <= d.fNCycle
    BY <1>1, <1>5 DEF Members, Sound, PhaseOf, QuartetOf
  <2>3. SameShape(r, d)
    BY DEF SameShape
  <2>4. Members(r) /\ r.fFirstCycle = base + 1 /\ r.fNCycle = d.fNCycle /\ r.fNBits = 0
        /\ r.fHaveQRT = d.fHaveQRT /\ r.fNQRTProblems = d.fNQRTProblems
    <3> HIDE DEF base
    <3> QED
      BY <1>1, <2>2, RingAssumption DEF Members, Sound, DecoderState
  <2> HIDE DEF r
  <2>5. Sound(r)
    BY <2>2, <2>3, <2>4, SoundUpdate DEF Sound
  <2> QED
    BY <2>1, <2>5
<1> QED
  BY <1>2, <1>3, <1>4, <1>5

LEMMA TrackQuartetSound ==
  ASSUME NEW d, Sound(d), NEW e \in EventSet
  PROVE  Sound(TrackQuartet(d, e))
BY TrackQRTSound, TrackWithoutQRTSound, SearchQuartetSound DEF TrackQuartet

LEMMA AdoptSeedSound ==
  ASSUME NEW d, Sound(d), NEW seed \in Seeds
  PROVE  Sound(AdoptSeed(d, seed)) /\ AdoptSeed(d, seed).fActualHelicity = d.fActualHelicity
<1> DEFINE r == AdoptSeed(d, seed)
           actual == Advance[HelDelay \div 4][seed]
<1>1. Members(d)
  BY StateHasMembers DEF Sound
<1>2. actual \in Seeds
  BY AdvanceDefined DEF Sound
<1>3. Sign(actual[1]) \in Helicity /\ Sign(seed[1]) \in Helicity
  BY <1>2, HelicityTypes, RingAssumption DEF Seeds
<1>4. SameShape(r, d)
  BY DEF AdoptSeed, SameShape
<1>5. Members(r)
  <2> HIDE DEF actual
  <2>1. r = [d EXCEPT !.fRingSeed_reported = seed, !.fRingSeed_actual = actual,
                      !.fQuartetStartHelicity = Sign(actual[1]),
                      !.fQuartetStartPredictedHelicity = Sign(seed[1]),
                      !.fNBits = MAXBIT]
    BY DEF AdoptSeed, actual
  <2> HIDE DEF r
  <2> QED
    BY <1>1, <1>2, <1>3, <2>1, RingAssumption DEF Members, Sound, DecoderState
<1>6. /\ r.fNCycle = d.fNCycle /\ r.fFirstCycle = d.fFirstCycle
      /\ r.fHaveQRT = d.fHaveQRT /\ r.fNQRTProblems = d.fNQRTProblems
      /\ r.fRingSeed_actual = actual /\ r.fRingSeed_reported = seed
      /\ r.fActualHelicity = d.fActualHelicity
  BY DEF AdoptSeed, Sound, DecoderState
<1>7. r \in DecoderState
  <2> HIDE DEF r
  <2> QED
    BY <1>4, <1>5, MembersMakeState DEF Sound
<1> HIDE DEF r
<1>8. Sound(r)
  BY <1>6, <1>7 DEF Sound
<1> QED
  BY <1>6, <1>8 DEF r

\* Bits are collected only by a decoder that is not calibrated, and none of it
\* gives a helicity.
LEMMA CollectBitSound ==
  ASSUME NEW d, Sound(d), ~Calibrated(d), NEW e \in EventSet, NEW scal \in SUBSET Seeds
  PROVE  /\ Sound(CollectBit(d, e, scal))
         /\ CollectBit(d, e, scal).fActualHelicity = d.fActualHelicity
<1> DEFINE old == IF d.fNBits = 0 THEN ZeroSeed ELSE d.fRingSeed_reported
           bit == IF InQuartet(PhaseOf(d), e.reported) = kPlus THEN 1 ELSE 0
           seed == PushBit(old, bit)
           nbits == d.fNBits + 1
           scalseed == CHOOSE s \in scal : TRUE
           none == [d EXCEPT !.fNBits = 0, !.fRingSeed_reported = ZeroSeed]
           more == [d EXCEPT !.fNBits = nbits, !.fRingSeed_reported = seed]
<1>1. Members(d)
  BY StateHasMembers DEF Sound
<1>2. ZeroSeed \in Seeds /\ old \in Seeds
  BY <1>1 DEF ZeroSeed, Seeds, Bit, Members
<1>3. seed \in Seeds
  BY <1>2, PushBitType DEF Bit
<1>4. d.fNBits \in 0 .. MAXBIT - 1
  BY <1>1, RingAssumption DEF Members, Calibrated
<1>5. Sound(none) /\ none.fActualHelicity = d.fActualHelicity
  <2>1. SameShape(none, d)
    BY DEF SameShape
  <2>2. Members(none)
    BY <1>1, <1>2, RingAssumption DEF Members, Sound, DecoderState
  <2>3. /\ none.fNCycle = d.fNCycle /\ none.fFirstCycle = d.fFirstCycle /\ none.fNBits = 0
        /\ none.fHaveQRT = d.fHaveQRT /\ none.fNQRTProblems = d.fNQRTProblems
        /\ none.fActualHelicity = d.fActualHelicity
    BY DEF Sound, DecoderState
  <2> HIDE DEF none
  <2> QED
    BY <2>1, <2>2, <2>3, SoundUpdate DEF Sound
<1>6. nbits # MAXBIT => Sound(more) /\ more.fActualHelicity = d.fActualHelicity
  <2> SUFFICES ASSUME nbits # MAXBIT
               PROVE  Sound(more) /\ more.fActualHelicity = d.fActualHelicity
    OBVIOUS
  <2> HIDE DEF seed
  <2>1. SameShape(more, d)
    BY DEF SameShape
  <2>2. nbits \in 0 .. MAXBIT /\ ~(nbits >= MAXBIT)
    BY <1>4, RingAssumption
  <2>3. Members(more)
    <3> HIDE DEF nbits
    <3> QED
      BY <1>1, <1>3, <2>2 DEF Members, Sound, DecoderState
  <2>4. /\ more.fNCycle = d.fNCycle /\ more.fFirstCycle = d.fFirstCycle /\ more.fNBits = nbits
        /\ more.fHaveQRT = d.fHaveQRT /\ more.fNQRTProblems = d.fNQRTProblems
        /\ more.fActualHelicity = d.fActualHelicity
    BY DEF Sound, DecoderState
  <2> HIDE DEF more, nbits
  <2>5. more \in DecoderState
    BY <2>1, <2>3, MembersMakeState DEF Sound
  <2> QED
    BY <2>2, <2>4, <2>5 DEF Sound, Calibrated
<1>7. /\ Sound(AdoptSeed(d, seed))
      /\ AdoptSeed(d, seed).fActualHelicity = d.fActualHelicity
  BY <1>3, AdoptSeedSound
<1>8. scal # {} => /\ Sound(AdoptSeed(d, RanBit30(scalseed)))
                   /\ AdoptSeed(d, RanBit30(scalseed)).fActualHelicity = d.fActualHelicity
  <2> SUFFICES ASSUME scal # {}
               PROVE  /\ Sound(AdoptSeed(d, RanBit30(scalseed)))
                      /\ AdoptSeed(d, RanBit30(scalseed)).fActualHelicity = d.fActualHelicity
    OBVIOUS
  <2>1. scalseed \in Seeds
    OBVIOUS
  <2> HIDE DEF scalseed
  <2>2. RanBit30(scalseed) \in Seeds
    BY <2>1, RanBit30Type
  <2> QED
    BY <2>2, AdoptSeedSound
<1> DEFINE Kept(r) == Sound(r) /\ r.fActualHelicity = d.fActualHelicity
<1>9. CASE e.reported = kUnknown
  <2>1. CollectBit(d, e, scal) = none
    BY <1>9 DEF CollectBit
  <2> QED
    BY <1>5, <2>1
<1>10. CASE e.reported # kUnknown /\ nbits = MAXBIT
  <2>1. CollectBit(d, e, scal) = AdoptSeed(d, seed)
    BY <1>10 DEF CollectBit
  <2> QED
    BY <1>7, <2>1
<1>11. CASE e.reported # kUnknown /\ nbits # MAXBIT /\ nbits > MinScalerBits /\ scal # {}
  <2>1. CollectBit(d, e, scal) = AdoptSeed(d, RanBit30(scalseed))
    BY <1>11 DEF CollectBit
  <2> QED
    BY <1>8, <1>11, <2>1
<1>12. CASE e.reported # kUnknown /\ nbits # MAXBIT /\ ~(nbits > MinScalerBits /\ scal # {})
  <2>1. CollectBit(d, e, scal) = more
    BY <1>12 DEF CollectBit
  <2> QED
    BY <1>6, <1>12, <2>1
<1> QED
  BY <1>9, <1>10, <1>11, <1>12

\* A prediction leaves the decoder calibrated, or without a helicity.
LEMMA PredictSound ==
  ASSUME NEW d, Sound(d), Calibrated(d), NEW e \in EventSet
  PROVE  Sound(Predict(d, e)) /\ Quiet(Predict(d, e))
<1>1. Members(d) /\ PhaseOf(d) \in Int
  BY StateHasMembers DEF Sound, Members, PhaseOf
<1>2. CASE PhaseOf(d) # 0
  <2> DEFINE r == [d EXCEPT
                    !.fActualHelicity = InQuartet(PhaseOf(d), d.fQuartetStartHelicity),
                    !.fPredictedHelicity =
                      InQuartet(PhaseOf(d), d.fQuartetStartPredictedHelicity)]
  <2>1. Predict(d, e) = r
    BY <1>2 DEF Predict
  <2>2. SameShape(r, d)
    BY DEF SameShape
  <2>3. Members(r)
    BY <1>1, HelicityTypes DEF Members, Sound, DecoderState
  <2>4. Unmoved(r, d)
    BY DEF Unmoved, Sound, DecoderState
  <2> HIDE DEF r
  <2>5. Sound(r)
    BY <2>2, <2>3, <2>4, UnmovedSound
  <2>6. Calibrated(r)
    BY <2>4 DEF Unmoved, Calibrated
  <2> QED
    BY <2>1, <2>5, <2>6 DEF Quiet
<1>3. CASE PhaseOf(d) = 0
  <2> DEFINE f == FromRings(AdvanceRings(d, 1))
             r == [f EXCEPT !.fNBits = 0,
                     !.fActualHelicity = kUnknown, !.fPredictedHelicity = kUnknown,
                     !.fQuartetStartHelicity = kUnknown,
                     !.fQuartetStartPredictedHelicity = kUnknown]
  <2>1. Sound(f) /\ f.fNBits = d.fNBits
    BY AdvanceRingsSound, FromRingsSound
  <2>2. Predict(d, e) \in {f, r}
    BY <1>3 DEF Predict
  <2>3. Members(f)
    BY <2>1, StateHasMembers DEF Sound
  <2> HIDE DEF f
  <2>4. SameShape(r, f)
    BY DEF SameShape
  <2>5. Members(r)
    BY <2>1, <2>3, HelicityTypes, RingAssumption DEF Members, Sound, DecoderState
  <2>6. /\ r.fNCycle = f.fNCycle /\ r.fFirstCycle = f.fFirstCycle /\ r.fNBits = 0
        /\ r.fHaveQRT = f.fHaveQRT /\ r.fNQRTProblems = f.fNQRTProblems
        /\ r.fActualHelicity = kUnknown
    BY <2>1 DEF Sound, DecoderState
  <2> HIDE DEF r
  <2>7. Sound(r) /\ Quiet(r)
    BY <2>1, <2>4, <2>5, <2>6, SoundUpdate DEF Sound, Quiet
  <2>8. Quiet(f)
    BY <2>1 DEF Quiet, Calibrated
  <2> QED
    BY <2>1, <2>2, <2>7, <2>8
<1> QED
  BY <1>2, <1>3

LEMMA LoadHelicitySound ==
  ASSUME NEW d, Sound(d), d.fActualHelicity = kUnknown,
         NEW e \in EventSet, NEW scal \in SUBSET Seeds
  PROVE  Sound(LoadHelicity(d, e, scal)) /\ Quiet(LoadHelicity(d, e, scal))
<1> DEFINE q == [d EXCEPT !.fnQrt = PhaseOf(d)]
           none == [q EXCEPT !.fNBits = 0]
<1>1. Members(d) /\ PhaseOf(d) \in Int
  BY StateHasMembers DEF Sound, Members, PhaseOf
<1>2. Sound(q) /\ q.fActualHelicity = kUnknown
  <2>1. SameShape(q, d)
    BY DEF SameShape
  <2>2. Members(q)
    BY <1>1 DEF Members, Sound, DecoderState
  <2>3. Unmoved(q, d) /\ q.fActualHelicity = d.fActualHelicity
    BY DEF Unmoved, Sound, DecoderState
  <2> HIDE DEF q
  <2> QED
    BY <2>1, <2>2, <2>3, UnmovedSound
<1>3. Members(q)
  BY <1>2, StateHasMembers DEF Sound
<1>4. Sound(none) /\ none.fActualHelicity = kUnknown
  <2> HIDE DEF q
  <2>1. SameShape(none, q)
    BY DEF SameShape
  <2>2. Members(none)
    BY <1>2, <1>3, RingAssumption DEF Members, Sound, DecoderState
  <2>3. /\ none.fNCycle = q.fNCycle /\ none.fFirstCycle = q.fFirstCycle /\ none.fNBits = 0
        /\ none.fHaveQRT = q.fHaveQRT /\ none.fNQRTProblems = q.fNQRTProblems
        /\ none.fActualHelicity = kUnknown
    BY <1>2 DEF Sound, DecoderState
  <2> HIDE DEF none
  <2> QED
    BY <1>2, <2>1, <2>2, <2>3, SoundUpdate DEF Sound
<1>5. \/ LoadHelicity(d, e, scal) \in {none, q}
      \/ Calibrated(q) /\ LoadHelicity(d, e, scal) = Predict(q, e)
      \/ ~Calibrated(q) /\ LoadHelicity(d, e, scal) = CollectBit(q, e, scal)
  BY DEF LoadHelicity
<1> HIDE DEF q, none
<1>6. Calibrated(q) => Sound(Predict(q, e)) /\ Quiet(Predict(q, e))
  BY <1>2, PredictSound
<1>7. ~Calibrated(q) => /\ Sound(CollectBit(q, e, scal))
                        /\ Quiet(CollectBit(q, e, scal))
  BY <1>2, CollectBitSound DEF Quiet
<1> QED
  BY <1>2, <1>4, <1>5, <1>6, <1>7 DEF Quiet

LEMMA NewCycleSound ==
  ASSUME NEW d, Sound(d), NEW e \in EventSet, NEW scal \in SUBSET Seeds, NEW missed \in Nat
  PROVE  Sound(NewCycle(d, e, scal, missed)) /\ Quiet(NewCycle(d, e, scal, missed))
<1> DEFINE tracked == TrackQuartet(CountCycle(SkipMissed(d, e, missed), e), e)
           blank == [tracked EXCEPT !.fActualHelicity = kUnknown]
           loaded == LoadHelicity(blank, e, scal)
           r == [loaded EXCEPT !.fLastMPSTime = @ + missed * Period, !.fIsNewCycle = FALSE]
<1>1. Sound(tracked)
  BY SkipMissedSound, CountCycleSound, TrackQuartetSound
<1>2. Sound(blank) /\ blank.fActualHelicity = kUnknown
  <2>1. Members(tracked)
    BY <1>1, StateHasMembers DEF Sound
  <2> HIDE DEF tracked
  <2>2. SameShape(blank, tracked)
    BY DEF SameShape
  <2>3. Members(blank)
    BY <1>1, <2>1, HelicityTypes DEF Members, Sound, DecoderState
  <2>4. Unmoved(blank, tracked) /\ blank.fActualHelicity = kUnknown
    BY <1>1 DEF Unmoved, Sound, DecoderState
  <2> HIDE DEF blank
  <2> QED
    BY <1>1, <2>2, <2>3, <2>4, UnmovedSound
<1>3. Sound(loaded) /\ Quiet(loaded)
  <2> HIDE DEF blank
  <2> QED
    BY <1>2, LoadHelicitySound
<1>4. NewCycle(d, e, scal, missed) = r
  BY DEF NewCycle
<1>5. missed * Period \in Int
  BY DecoderAssumption
<1>6. Members(loaded)
  BY <1>3, StateHasMembers DEF Sound
<1> HIDE DEF loaded
<1>7. SameShape(r, loaded)
  BY DEF SameShape
<1>8. Members(r)
  <2>1. loaded.fLastMPSTime + missed * Period \in Int
    BY <1>5, <1>6 DEF Members
  <2> QED
    BY <1>3, <1>6, <2>1 DEF Members, Sound, DecoderState
<1>9. Unmoved(r, loaded) /\ r.fActualHelicity = loaded.fActualHelicity
  BY <1>3 DEF Unmoved, Sound, DecoderState
<1> HIDE DEF r
<1>10. Sound(r)
  BY <1>3, <1>7, <1>8, <1>9, UnmovedSound
<1> QED
  BY <1>3, <1>4, <1>9, <1>10 DEF Quiet, Calibrated, Unmoved

---------------------------------------------------------------------------
(* The actions.                                                            *)

\* What each way through Decode keeps.
Safe(d) == Sound(d) /\ (HelDelay # 0 => Quiet(d))

\* The ways that leave bits and rings alone and give no helicity.
LEMMA SilentSafe ==
  ASSUME NEW d, Sound(d), NEW r, SameShape(r, d), Members(r), Unmoved(r, d),
         HelDelay # 0 => r.fActualHelicity = kUnknown
  PROVE  Safe(r)
BY UnmovedSound DEF Safe, Quiet

LEMMA DecodeInTimeSafe ==
  ASSUME Safe(dec), NEW e \in EventSet, DecodeInTime(e)
  PROVE  Safe(dec')
<1> DEFINE h == IF e.mps THEN kUnknown ELSE e.reported
<1>1. Sound(dec) /\ Members(dec) /\ dec' = [dec EXCEPT !.fActualHelicity = h] /\ HelDelay = 0
  BY StateHasMembers DEF Safe, Sound, DecodeInTime
<1>2. h \in Helicity
  BY HelicityTypes DEF EventSet
<1> HIDE DEF h
<1>3. Members(dec')
  BY <1>1, <1>2 DEF Members, Sound, DecoderState
<1>4. SameShape(dec', dec) /\ Unmoved(dec', dec)
  BY <1>1 DEF SameShape, Unmoved, Sound, DecoderState
<1> QED
  BY <1>1, <1>3, <1>4, SilentSafe

LEMMA DecodeMissedEventsSafe ==
  ASSUME Safe(dec), NEW skipped, DecodeMissedEvents(skipped)
  PROVE  Safe(dec')
<1>1. /\ Sound(dec) /\ Members(dec)
      /\ dec' = [dec EXCEPT !.fDisabled = TRUE, !.fActualHelicity = kUnknown]
  BY StateHasMembers DEF Safe, Sound, DecodeMissedEvents
<1>2. Members(dec') /\ dec'.fActualHelicity = kUnknown
  BY <1>1, HelicityTypes DEF Members, Sound, DecoderState
<1>3. SameShape(dec', dec) /\ Unmoved(dec', dec)
  BY <1>1 DEF SameShape, Unmoved, Sound, DecoderState
<1> QED
  BY <1>1, <1>2, <1>3, SilentSafe

\* DecodeDisabled and DecodeBeforeMPS only withdraw the helicity.
LEMMA WithdrawSafe ==
  ASSUME Safe(dec), dec' = [dec EXCEPT !.fActualHelicity = kUnknown]
  PROVE  Safe(dec')
<1>1. Sound(dec) /\ Members(dec)
  BY StateHasMembers DEF Safe, Sound
<1>2. Members(dec') /\ dec'.fActualHelicity = kUnknown
  BY <1>1, HelicityTypes DEF Members, Sound, DecoderState
<1>3. SameShape(dec', dec) /\ Unmoved(dec', dec)
  BY <1>1 DEF SameShape, Unmoved, Sound, DecoderState
<1> QED
  BY <1>1, <1>2, <1>3, SilentSafe

\* The cycle count restarts at zero: no first cycle was guessed before.
LEMMA DecodeFirstSafe ==
  ASSUME Safe(dec), dec.fFirstCycle <= 0, NEW e \in EventSet, DecodeFirst(e)
  PROVE  Safe(dec')
<1>1. /\ Sound(dec) /\ Members(dec) /\ e.time \in Int
      /\ dec' = [dec EXCEPT !.fFirstEvProcessed = TRUE, !.fLastMPSTime = e.time,
                   !.fActualHelicity = kUnknown, !.fPredictedHelicity = kUnknown,
                   !.fNCycle = 0, !.fFoundMPS = FALSE, !.fFoundQuartet = FALSE,
                   !.fIsNewCycle = FALSE, !.fNBits = 0]
  BY StateHasMembers DEF Safe, Sound, DecodeFirst, EventSet
<1>2. Members(dec') /\ dec'.fActualHelicity = kUnknown
  BY <1>1, HelicityTypes, RingAssumption DEF Members, Sound, DecoderState
<1>3. SameShape(dec', dec)
  BY <1>1 DEF SameShape
<1>4. /\ dec'.fNCycle = 0 /\ dec'.fFirstCycle = dec.fFirstCycle /\ dec'.fNBits = 0
      /\ dec'.fHaveQRT = dec.fHaveQRT /\ dec'.fNQRTProblems = dec.fNQRTProblems
  BY <1>1 DEF Sound, DecoderState
<1>5. Sound(dec')
  BY <1>1, <1>2, <1>3, <1>4, SoundUpdate DEF Sound
<1> QED
  BY <1>2, <1>5 DEF Safe, Quiet

LEMMA NintType ==
  ASSUME NEW x \in Int
  PROVE  Nint(x, Period) \in Int
<1>1. Period \in Nat /\ Period > 0
  BY DecoderAssumption
<1>2. x \div Period \in Int /\ x % Period \in Int
  BY <1>1
<1> QED
  BY <1>2 DEF Nint

LEMMA DecodeMPSSafe ==
  ASSUME Safe(dec), NEW e \in EventSet, NEW skipped, DecodeMPS(e, skipped)
  PROVE  Safe(dec')
<1> DEFINE missed == Nint(e.time - dec.fLastMPSTime, Period)
           blank == [dec EXCEPT !.fActualHelicity = kUnknown, !.fPredictedHelicity = kUnknown]
           early == (e.time + dec.fLastMPSTime + missed * Period) \div 2
           late == (dec.fLastMPSTime + e.time - missed * Period) \div 2
<1>1. Sound(dec) /\ Members(dec) /\ e.time \in Int
  BY StateHasMembers DEF Safe, Sound, EventSet
<1>2. missed \in Int /\ missed * Period \in Int
  <2>1. missed \in Int
    BY <1>1, NintType DEF Members
  <2> HIDE DEF missed
  <2> QED
    BY <2>1, DecoderAssumption
<1>3. early \in Int /\ late \in Int
  <2> HIDE DEF missed
  <2> QED
    BY <1>1, <1>2 DEF Members
<1>4. SameShape(blank, dec) /\ Unmoved(blank, dec)
  BY <1>1 DEF SameShape, Unmoved, Sound, DecoderState
<1>5. Members(blank) /\ blank.fActualHelicity = kUnknown /\ blank.fLastMPSTime = dec.fLastMPSTime
  BY <1>1, HelicityTypes DEF Members, Sound, DecoderState
<1>6. \/ dec' = [blank EXCEPT !.fFoundMPS = TRUE, !.fLastMPSTime = e.time]
      \/ dec' = [blank EXCEPT !.fIsNewCycle = TRUE, !.fLastMPSTime = early]
      \/ dec' = [blank EXCEPT !.fLastMPSTime = late]
  <2> HIDE DEF missed
  <2>1. dec' = IF ~dec.fFoundMPS
               THEN [blank EXCEPT !.fFoundMPS = TRUE, !.fLastMPSTime = e.time]
               ELSE IF missed < 1
               THEN [blank EXCEPT !.fIsNewCycle = TRUE,
                       !.fLastMPSTime = (e.time + @ + missed * Period) \div 2]
               ELSE [blank EXCEPT !.fLastMPSTime = (@ + e.time - missed * Period) \div 2]
    BY DEF DecodeMPS, missed
  <2> HIDE DEF blank
  <2> QED
    BY <1>5, <2>1
<1>7. Sound(blank)
  <2> HIDE DEF blank
  <2> QED
    BY <1>1, <1>4, <1>5, UnmovedSound
<1> HIDE DEF blank, early, late
<1>8. SameShape(dec', blank) /\ Unmoved(dec', blank)
  BY <1>6, <1>7 DEF SameShape, Unmoved, Sound, DecoderState
<1>9. Members(dec') /\ dec'.fActualHelicity = kUnknown
  <2>1. blank \in DecoderState
    BY <1>7 DEF Sound
  <2>2. dec' \in DecoderState /\ dec'.fActualHelicity = blank.fActualHelicity
    <3>1. CASE dec' = [blank EXCEPT !.fFoundMPS = TRUE, !.fLastMPSTime = e.time]
      BY <1>1, <2>1, <3>1 DEF DecoderState
    <3>2. CASE dec' = [blank EXCEPT !.fIsNewCycle = TRUE, !.fLastMPSTime = early]
      BY <1>3, <2>1, <3>2 DEF DecoderState
    <3>3. CASE dec' = [blank EXCEPT !.fLastMPSTime = late]
      BY <1>3, <2>1, <3>3 DEF DecoderState
    <3> QED
      BY <1>6, <3>1, <3>2, <3>3
  <2> QED
    BY <1>5, <2>2, StateHasMembers
<1> QED
  BY <1>7, <1>8, <1>9, SilentSafe

LEMMA DecodeSameCycleSafe ==
  ASSUME Safe(dec), NEW e \in EventSet, NEW skipped, DecodeSameCycle(e, skipped)
  PROVE  Safe(dec')
<1>1. CASE Calibrated(dec)
  <2>1. dec' = FromRings(dec)
    BY <1>1 DEF DecodeSameCycle
  <2>2. Sound(dec') /\ Calibrated(dec')
    BY <1>1, <2>1, FromRingsSound DEF Safe, Calibrated
  <2> QED
    BY <2>2 DEF Safe, Quiet
<1>2. CASE ~Calibrated(dec)
  BY <1>2, WithdrawSafe DEF DecodeSameCycle
<1> QED
  BY <1>1, <1>2

LEMMA DecodeNewCycleSafe ==
  ASSUME Safe(dec), NEW e \in EventSet, NEW skipped, NEW scal \in SUBSET Seeds,
         DecodeNewCycle(e, skipped, scal)
  PROVE  Safe(dec')
<1> DEFINE missed == PeriodsMissed(dec, e)
           seen == IF missed = 0 /\ Calibrated(dec) THEN FromRings(dec) ELSE dec
<1>1. missed \in Nat
  BY PeriodsMissedType DEF Safe
<1>2. Sound(seen)
  BY FromRingsSound DEF Safe
<1>3. dec' = NewCycle(seen, e, scal, missed)
  BY DEF DecodeNewCycle
<1> HIDE DEF missed, seen
<1> QED
  BY <1>1, <1>2, <1>3, NewCycleSound DEF Safe

---------------------------------------------------------------------------
(* Counting a window moves the time of the last MPS on by whole windows,   *)
(* and nothing else of what the other ways through Decode set.             *)

Kept(r, d) ==
  /\ r.fFirstEvProcessed = d.fFirstEvProcessed /\ r.fDisabled = d.fDisabled
  /\ r.fFoundMPS = d.fFoundMPS /\ r.fLastMPSTime = d.fLastMPSTime

LEMMA TrackQuartetKeeps ==
  ASSUME NEW d, Sound(d), NEW e \in EventSet
  PROVE  Kept(TrackQuartet(d, e), d)
<1> DEFINE c == CountQuartet(d)
<1>1. Sound(c) /\ Kept(c, d)
  BY CountQuartetSound DEF CountQuartet, Kept, Sound, DecoderState
<1>2. ASSUME NEW b, Sound(b) PROVE Kept(LockOnQRT(b), b)
  BY <1>2 DEF LockOnQRT, Kept, Sound, DecoderState
<1>3. Kept(TrackQRT(d), d)
  BY <1>1, <1>2 DEF TrackQRT, Kept, Sound, DecoderState
<1>4. Kept(TrackWithoutQRT(d), d)
  BY <1>1 DEF TrackWithoutQRT, Kept, Sound, DecoderState
<1>5. Kept(SearchQuartet(d), d)
  BY <1>1 DEF SearchQuartet, Kept, Sound, DecoderState
<1> QED
  BY <1>3, <1>4, <1>5 DEF TrackQuartet

LEMMA LoadHelicityKeeps ==
  ASSUME NEW d, Sound(d), d.fActualHelicity = kUnknown,
         NEW e \in EventSet, NEW scal \in SUBSET Seeds
  PROVE  Kept(LoadHelicity(d, e, scal), d)
<1> DEFINE q == [d EXCEPT !.fnQrt = PhaseOf(d)]
<1>1. q \in DecoderState /\ Kept(q, d)
  BY DEF Kept, Sound, DecoderState, PhaseOf
<1> HIDE DEF q
<1>2. ASSUME NEW b \in DecoderState, NEW seed PROVE Kept(AdoptSeed(b, seed), b)
  BY <1>2 DEF AdoptSeed, Kept, DecoderState
<1>3. Kept(CollectBit(q, e, scal), q)
  BY <1>1, <1>2 DEF CollectBit, Kept, DecoderState
<1>4. Kept(Predict(q, e), q)
  BY <1>1 DEF Predict, FromRings, AdvanceRings, Kept, DecoderState
<1>5. Kept([q EXCEPT !.fNBits = 0], q)
  BY <1>1 DEF Kept, DecoderState
<1> QED
  BY <1>1, <1>3, <1>4, <1>5 DEF LoadHelicity, Kept, q

LEMMA NewCycleKeeps ==
  ASSUME NEW d, Sound(d), NEW e \in EventSet, NEW scal \in SUBSET Seeds, NEW missed \in Nat
  PROVE  LET r == NewCycle(d, e, scal, missed)
         IN  /\ r.fFirstEvProcessed = d.fFirstEvProcessed /\ r.fDisabled = d.fDisabled
             /\ r.fFoundMPS = d.fFoundMPS
             /\ r.fLastMPSTime = d.fLastMPSTime + missed * Period
<1> DEFINE skip == SkipMissed(d, e, missed)
           counted == CountCycle(skip, e)
           tracked == TrackQuartet(counted, e)
           blank == [tracked EXCEPT !.fActualHelicity = kUnknown]
           loaded == LoadHelicity(blank, e, scal)
<1>1. Sound(skip) /\ Kept(skip, d)
  <2> DEFINE caught == [d EXCEPT !.fNCycle = @ + missed - 1]
  <2>1. Kept(skip, d)
    <3>1. Kept(caught, d) /\ DOMAIN caught = DOMAIN d
      BY DEF Kept, Sound, DecoderState
    <3>2. ASSUME NEW n
          PROVE  /\ Kept(FromRings(AdvanceRings(caught, n)), d)
                 /\ DOMAIN FromRings(AdvanceRings(caught, n)) = DOMAIN d
      BY <3>1 DEF FromRings, AdvanceRings, Kept, Sound, DecoderState
    <3> QED
      BY <3>1, <3>2 DEF SkipMissed, Kept, Sound, DecoderState
  <2> QED
    BY <2>1, SkipMissedSound
<1> HIDE DEF skip
<1>2. Sound(counted) /\ Kept(counted, d)
  <2>1. Sound(counted)
    BY <1>1, CountCycleSound
  <2>2. Kept(counted, skip)
    BY <1>1 DEF CountCycle, Kept, Sound, DecoderState
  <2> HIDE DEF counted
  <2> QED
    BY <1>1, <2>1, <2>2 DEF Kept
<1> HIDE DEF counted
<1>3. Sound(tracked) /\ Kept(tracked, d)
  BY <1>2, TrackQuartetSound, TrackQuartetKeeps DEF Kept
<1> HIDE DEF tracked
<1>4. Members(blank) /\ SameShape(blank, tracked) /\ Unmoved(blank, tracked)
  BY <1>3, StateHasMembers, HelicityTypes
  DEF Members, SameShape, Unmoved, Sound, DecoderState
<1>5. Sound(blank) /\ Kept(blank, d) /\ blank.fActualHelicity = kUnknown
  BY <1>3, <1>4, UnmovedSound DEF Kept, Sound, DecoderState
<1> HIDE DEF blank
<1>6. Sound(loaded) /\ Kept(loaded, d)
  BY <1>5, LoadHelicitySound, LoadHelicityKeeps DEF Kept
<1> QED
  BY <1>6 DEF NewCycle, Kept, Sound, DecoderState, loaded, blank, tracked, counted, skip

---------------------------------------------------------------------------
(* The inductive invariant.                                                *)

\* The guess of the first cycle moves only once the first event was seen.
UntouchedGuess == ~dec.fFirstEvProcessed => dec.fFirstCycle <= 0

BeamTypes ==
  /\ setup \in SetupType
  /\ win \in Nat /\ tick \in 0 .. Period - 1 /\ phase0 \in 0 .. 3
  /\ beam \in Seeds /\ faults \in Nat

IndInv == BeamTypes /\ Safe(dec) /\ UntouchedGuess

LEMMA SetupTypes ==
  ASSUME setup \in SetupType
  PROVE  /\ HelDelay \in Nat /\ setup.ScalerLags \subseteq Nat
         /\ setup.MaxGap \in Nat
BY DEF SetupType, HelDelay

LEMMA InitialInvariant == Init => IndInv
<1> SUFFICES ASSUME Init PROVE IndInv
  OBVIOUS
<1>1. ZeroSeed \in Seeds
  BY DEF ZeroSeed, Seeds, Bit
<1>2. dec \in DecoderState
  <2>1. [i \in 0 .. 3 |-> 0] \in [0 .. 3 -> Helicity]
    BY HelicityTypes DEF kUnknown
  <2>2. 0 \in 0 .. MAXBIT
    BY RingAssumption
  <2> QED
    BY <1>1, <2>1, <2>2, HelicityTypes DEF Init, DecoderState
<1>3. BeamTypes
  BY DecoderAssumption DEF Init, BeamTypes
<1>4. Safe(dec)
  BY <1>2, <1>3, SetupTypes, RingAssumption
  DEF Init, BeamTypes, Safe, Sound, Quiet, Calibrated
<1> QED
  BY <1>3, <1>4 DEF Init, IndInv, UntouchedGuess

\* The accelerator and the DAQ stay within their types, and so do the events.
LEMMA ArrivalTypes ==
  ASSUME BeamTypes, NEW g \in 0 .. setup.MaxGap, NEW tk \in EventTicks, NEW fault,
         Arrival(g, tk, fault)
  PROVE  BeamTypes' /\ Event(fault)' \in EventSet /\ ScalerOffers' \subseteq SUBSET Seeds
<1>1. TruePhase \in 0 .. 3 /\ (TruePhase + g) \div 4 \in Nat
  BY DecoderAssumption DEF BeamTypes, TruePhase
<1>2. beam' \in Seeds
  BY <1>1, AdvanceDefined DEF Arrival, BeamTypes
<1>3. BeamTypes'
  BY <1>2, DecoderAssumption DEF Arrival, BeamTypes
<1>4. ReportedHelicity' \in Helicity
  <2>1. beam'[1] \in Bit
    BY <1>2, RingAssumption DEF Seeds
  <2>2. TruePhase' \in Int
    BY <1>3 DEF BeamTypes, TruePhase
  <2> QED
    BY <2>1, <2>2, HelicityTypes DEF ReportedHelicity
<1>5. Event(fault)' \in EventSet
  <2>1. Event(fault)' = [time |-> win' * Period + tick',
                         mps |-> tick' < MPSTicks,
                         qrt |-> (HaveQRTSignal' /\ TruePhase' = 0) # (fault = "qrt"),
                         reported |-> IF fault = "report" THEN kUnknown
                                      ELSE ReportedHelicity']
    BY DEF Event
  <2>2. win' * Period + tick' \in Int
    BY <1>3, DecoderAssumption DEF BeamTypes
  <2>3. (IF fault = "report" THEN kUnknown ELSE ReportedHelicity') \in Helicity
    BY <1>4, HelicityTypes
  <2> QED
    BY <2>1, <2>2, <2>3 DEF EventSet
<1>6. ScalerOffers' \subseteq SUBSET Seeds
  <2>1. setup' = setup /\ setup.ScalerLags \subseteq Nat
    BY SetupTypes DEF BeamTypes, Arrival
  <2>2. \A lag \in Nat : Retreat[lag][beam'] \in Seeds
    BY <1>2, RetreatDefined
  <2> QED
    BY <2>1, <2>2 DEF ScalerOffers
<1> QED
  BY <1>3, <1>5, <1>6

\* Every way through Decode keeps the decoder safe and the guess untouched.
LEMMA DecodeKeepsInvariant ==
  ASSUME Safe(dec), UntouchedGuess, NEW e \in EventSet, NEW skipped,
         NEW scal \in SUBSET Seeds, Decode(e, skipped, scal)
  PROVE  Safe(dec') /\ UntouchedGuess'
<1>1. dec \in DecoderState
  BY DEF Safe, Sound
<1>2. CASE DecodeInTime(e)
  BY <1>1, <1>2, DecodeInTimeSafe DEF DecodeInTime, UntouchedGuess, DecoderState
<1>3. CASE DecodeMissedEvents(skipped)
  BY <1>1, <1>3, DecodeMissedEventsSafe DEF DecodeMissedEvents, UntouchedGuess, DecoderState
<1>4. CASE DecodeDisabled
  BY <1>1, <1>4, WithdrawSafe DEF DecodeDisabled, UntouchedGuess, DecoderState
<1>5. CASE DecodeFirst(e)
  BY <1>1, <1>5, DecodeFirstSafe DEF DecodeFirst, UntouchedGuess, DecoderState
<1>6. CASE DecodeMPS(e, skipped)
  BY <1>1, <1>6, DecodeMPSSafe DEF DecodeMPS, Running, UntouchedGuess, DecoderState
<1>7. CASE DecodeBeforeMPS(e, skipped)
  BY <1>1, <1>7, WithdrawSafe DEF DecodeBeforeMPS, Running, UntouchedGuess, DecoderState
<1>8. CASE DecodeSameCycle(e, skipped)
  BY <1>1, <1>8, DecodeSameCycleSafe
  DEF DecodeSameCycle, Running, FromRings, UntouchedGuess, DecoderState
<1>9. CASE DecodeNewCycle(e, skipped, scal)
  <2> DEFINE missed == PeriodsMissed(dec, e)
             seen == IF missed = 0 /\ Calibrated(dec) THEN FromRings(dec) ELSE dec
  <2>1. missed \in Nat
    BY PeriodsMissedType DEF Safe
  <2>2. Sound(seen) /\ Kept(seen, dec)
    BY <1>1, FromRingsSound DEF Safe, FromRings, Kept, DecoderState
  <2>3. dec' = NewCycle(seen, e, scal, missed) /\ dec.fFirstEvProcessed
    BY <1>9 DEF DecodeNewCycle, Running
  <2> HIDE DEF missed, seen
  <2>4. dec'.fFirstEvProcessed
    BY <2>1, <2>2, <2>3, NewCycleKeeps DEF Kept
  <2> QED
    BY <1>9, <2>4, DecodeNewCycleSafe DEF UntouchedGuess
<1> QED
  BY <1>2, <1>3, <1>4, <1>5, <1>6, <1>7, <1>8, <1>9 DEF Decode

LEMMA StepKeepsInvariant == IndInv /\ [Next]_vars => IndInv'
<1> SUFFICES ASSUME IndInv, [Next]_vars PROVE IndInv'
  OBVIOUS
<1>1. CASE Next
  <2>1. PICK g \in 0 .. setup.MaxGap, tk \in EventTicks, fault \in Faults,
             skipped \in {FALSE, setup.EventsMissed} :
          /\ Arrival(g, tk, fault)
          /\ \E scal \in ScalerOffers' : Decode(Event(fault)', skipped, scal)
    BY <1>1 DEF Next
  <2>2. BeamTypes' /\ Event(fault)' \in EventSet /\ ScalerOffers' \subseteq SUBSET Seeds
    BY <2>1, ArrivalTypes DEF IndInv
  <2>3. PICK scal \in SUBSET Seeds : Decode(Event(fault)', skipped, scal)
    BY <2>1, <2>2
  <2>4. Safe(dec') /\ UntouchedGuess'
    BY <2>2, <2>3, DecodeKeepsInvariant DEF IndInv
  <2>5. HelDelay' = HelDelay
    BY <2>1 DEF Arrival, HelDelay
  <2>6. Safe(dec)'
    BY <2>4, <2>5 DEF Safe, Sound, Quiet, Calibrated
  <2> QED
    BY <2>2, <2>4, <2>6 DEF IndInv
<1>2. CASE UNCHANGED vars
  <2>1. HelDelay' = HelDelay
    BY <1>2 DEF vars, HelDelay
  <2> QED
    BY <1>2, <2>1
    DEF vars, IndInv, BeamTypes, Safe, Sound, Quiet, Calibrated, UntouchedGuess
<1> QED
  BY <1>1, <1>2

LEMMA InvariantHolds == Spec => []IndInv
BY InitialInvariant, StepKeepsInvariant, PTL DEF Spec

LEMMA InvariantIsEnough ==
  IndInv => TypeInvariant /\ SeedsInStep /\ NoPrematureHelicity
BY DEF IndInv, BeamTypes, Safe, Sound, Quiet, TypeInvariant, SeedsInStep, NoPrematureHelicity

---------------------------------------------------------------------------
(* The theorems.                                                           *)

\* Whatever events THcHelicity::Decode is called with, its members keep their
\* types, the guess of the first cycle never runs ahead of the cycle count, and
\* no QRT phase outlives the problems tolerated for it.
THEOREM TypeCorrect == Spec => []TypeInvariant
BY InvariantHolds, InvariantIsEnough, PTL

\* The ring of the predicted report and the ring of the actual helicity, once
\* complete, stay apart by the delay, through missed windows, predictions that
\* fail and seeds taken from the scaler.
THEOREM RingsStayInStep == Spec => []SeedsInStep
BY InvariantHolds, InvariantIsEnough, PTL

\* No event is given a helicity before all the bits of the ring are known, so
\* the error the end of Decode tests for cannot occur.
THEOREM NeverPremature == Spec => []NoPrematureHelicity
BY InvariantHolds, InvariantIsEnough, PTL

---------------------------------------------------------------------------
(* A decoder that has the quartets and the bits right gives the right      *)
(* helicity, for every ring, delay of whole quartets, period and stream of *)
(* events: what it answers is computed from the ring for the phase of the  *)
(* window it counted last, and that is the window of the event.            *)

\* The report is delayed by whole quartets (the ring is only run on by those),
\* and MPS is up for at most half of a window: else nobody could tell whether
\* two events with MPS are of one window.
DelayIsWhole == \A s \in Setups : s.HelDelay % 4 = 0
MPSIsShort == 2 * MPSTicks <= Period

\* The last MPS, by the decoder's clock, was in window w.
MPSWindow(d, w) == \E m \in 0 .. MPSTicks - 1 : d.fLastMPSTime = Period * w + m

\* A calibrated decoder has the sign of the quartet from its ring.
Marked(d) == Calibrated(d) => d.fQuartetStartHelicity = Sign(d.fRingSeed_actual[1])

\* A helicity is computed from the ring, for the phase of the cycle count.
Computed(d) ==
  d.fActualHelicity # kUnknown =>
    Calibrated(d) /\ d.fActualHelicity = InQuartet(PhaseOf(d), Sign(d.fRingSeed_actual[1]))

---------------------------------------------------------------------------
(* The clock.                                                              *)

\* An event after the MPS of its window, seen by a clock that stands in the MPS
\* of window w: the windows between are counted.
LEMMA PeriodsAreCounted ==
  ASSUME NEW d, NEW e, NEW w \in Nat, NEW v \in Nat, NEW tk \in 0 .. Period - 1,
         MPSWindow(d, w), w <= v, e.time = v * Period + tk, tk >= MPSTicks
  PROVE  PeriodsMissed(d, e) = v - w
<1>1. PICK m \in 0 .. MPSTicks - 1 : d.fLastMPSTime = Period * w + m
  BY DEF MPSWindow
<1>2. Period \in Nat \ {0} /\ MPSTicks \in 1 .. Period - 1
  BY DecoderAssumption
<1>3. PICK n \in Nat : n = v - w
  OBVIOUS
<1>4. PICK r \in 1 .. Period - 1 : r = tk - m
  BY <1>1, <1>2
<1>5. e.time - d.fLastMPSTime = Period * n + r
  <2>1. v * Period = Period * w + Period * n
    BY <1>2, <1>3
  <2>2. Period * w \in Int /\ Period * n \in Int
    BY <1>2
  <2> QED
    BY <1>1, <1>2, <1>4, <2>1, <2>2
<1>6. (Period * n + r) \div Period = n
  BY <1>2, DivUnique
<1>7. CASE n = 0
  BY <1>2, <1>3, <1>5, <1>7 DEF PeriodsMissed
<1>8. CASE n # 0
  <2>1. Period * n >= Period
    BY <1>2, <1>8
  <2>2. Period * n \in Int
    BY <1>2
  <2>3. Period * n + r > Period
    BY <1>2, <2>1, <2>2
  <2> QED
    BY <1>3, <1>5, <1>6, <2>3 DEF PeriodsMissed
<1> QED
  BY <1>7, <1>8

\* Two events with MPS: the nearest whole number of periods is that of the windows
\* between them.
LEMMA PeriodsAreRounded ==
  ASSUME MPSIsShort, NEW n \in Int, NEW m \in 0 .. MPSTicks - 1, NEW tk \in 0 .. MPSTicks - 1
  PROVE  Nint(Period * n + (tk - m), Period) = n
<1>1. Period \in Nat \ {0} /\ MPSTicks \in 1 .. Period - 1 /\ 2 * MPSTicks <= Period
  BY DecoderAssumption DEF MPSIsShort
<1>2. CASE tk >= m
  <2>1. PICK r \in 0 .. Period - 1 : r = tk - m
    BY <1>1, <1>2
  <2>2. (Period * n + r) \div Period = n /\ (Period * n + r) % Period = r
    BY <1>1, DivUnique
  <2>3. ~(2 * r > Period) /\ ~(2 * r = Period)
    BY <1>1, <2>1
  <2> QED
    BY <2>1, <2>2, <2>3 DEF Nint
<1>3. CASE tk < m
  <2>1. PICK r \in 0 .. Period - 1 : r = Period + (tk - m)
    BY <1>1, <1>3
  <2>2. PICK k \in Int : k = n - 1
    OBVIOUS
  <2>3. (Period * k + r) \div Period = k /\ (Period * k + r) % Period = r
    BY <1>1, DivUnique
  <2>4. Period * n + (tk - m) = Period * k + r
    <3>1. Period * n = Period * k + Period
      BY <1>1, <2>2
    <3>2. Period * k \in Int
      BY <1>1
    <3> QED
      BY <1>1, <2>1, <3>1, <3>2
  <2>5. 2 * r > Period
    BY <1>1, <2>1
  <2>6. Nint(Period * k + r, Period) = k + 1
    BY <2>3, <2>5 DEF Nint
  <2> QED
    BY <2>2, <2>4, <2>6
<1> QED
  BY <1>2, <1>3

\* The middle of two times in the MPS of one window is in it too.
LEMMA MiddleOfMPS ==
  ASSUME NEW w \in Nat, NEW m \in 0 .. MPSTicks - 1, NEW tk \in 0 .. MPSTicks - 1
  PROVE  \E n \in 0 .. MPSTicks - 1 :
           ((Period * w + tk) + (Period * w + m)) \div 2 = Period * w + n
<1>1. Period \in Nat \ {0} /\ MPSTicks \in 1 .. Period - 1
  BY DecoderAssumption
<1>2. PICK s \in Int : s = Period * w
  BY <1>1
<1>3. ((s + tk) + (s + m)) \div 2 = s + ((tk + m) \div 2)
  BY <1>1
<1>4. (tk + m) \div 2 \in 0 .. MPSTicks - 1
  BY <1>1
<1> QED
  BY <1>2, <1>3, <1>4

---------------------------------------------------------------------------
(* The stages of NewCycle.                                                 *)

\* An update that starts the bits anew, or leaves them and the sign alone.
Marks(r, d) ==
  \/ r.fNBits = 0
  \/ /\ r.fNBits = d.fNBits /\ r.fRingSeed_actual = d.fRingSeed_actual
     /\ r.fQuartetStartHelicity = d.fQuartetStartHelicity

LEMMA MarksKeep ==
  ASSUME NEW d, Marked(d), NEW r, Marks(r, d)
  PROVE  Marked(r)
BY RingAssumption DEF Marks, Marked, Calibrated

\* The two ways to a helicity: from the rings, and, in the other windows of a
\* quartet, from the sign of the quartet.
LEMMA FromRingsAnswers ==
  ASSUME NEW d, Sound(d)
  PROVE  /\ Marked(FromRings(d))
         /\ Calibrated(d) => Computed(FromRings(d))
BY DEF FromRings, Marked, Computed, Calibrated, PhaseOf, Sound, DecoderState

LEMMA SkipMissedMarked ==
  ASSUME NEW d, Sound(d), Marked(d), NEW e \in EventSet, NEW missed \in Nat
  PROVE  Marked(SkipMissed(d, e, missed))
<1> DEFINE caught == [d EXCEPT !.fNCycle = @ + missed - 1]
           n == QuartetOf(caught) - QuartetOf(d)
           f == FromRings(AdvanceRings(caught, n))
<1>1. CASE missed <= 1
  BY <1>1 DEF SkipMissed
<1>2. CASE missed > 1 /\ ~Calibrated(d)
  BY <1>2 DEF SkipMissed, Marked, Calibrated, Sound, DecoderState
<1>3. CASE missed > 1 /\ Calibrated(d)
  <2>1. f.fQuartetStartHelicity = Sign(f.fRingSeed_actual[1])
    <3>1. caught \in [DOMAIN d -> UNION {{caught[x]} : x \in DOMAIN d}] /\ DOMAIN caught = DOMAIN d
      OBVIOUS
    <3> HIDE DEF caught, n
    <3> QED
      BY <3>1 DEF FromRings, AdvanceRings, Sound, DecoderState
  <2> DEFINE odd == PhaseOf(caught) \in {1, 3}
             rep == e.reported
  <2>2. SkipMissed(d, e, missed) =
          [f EXCEPT !.fQuartet[0] = IF odd THEN rep ELSE -rep, !.fQuartet[1] = -rep,
                    !.fQuartet[2] = IF odd THEN -rep ELSE rep]
    BY <1>3 DEF SkipMissed
  <2>3. DOMAIN f = DOMAIN d
    BY DEF FromRings, AdvanceRings
  <2> HIDE DEF f, odd, rep
  <2> QED
    BY <2>1, <2>2, <2>3 DEF Marked, Sound, DecoderState
<1>4. missed <= 1 \/ missed > 1
  OBVIOUS
<1> QED
  BY <1>1, <1>2, <1>3, <1>4

LEMMA TrackQuartetMarks ==
  ASSUME NEW d, Sound(d), NEW e \in EventSet
  PROVE  Marks(TrackQuartet(d, e), d)
<1> DEFINE c == CountQuartet(d)
<1>1. Sound(c)
  BY CountQuartetSound
<1>2. /\ c.fNBits = d.fNBits /\ c.fRingSeed_actual = d.fRingSeed_actual
      /\ c.fQuartetStartHelicity = d.fQuartetStartHelicity
  BY DEF CountQuartet, Sound, DecoderState
<1>3. ASSUME NEW b, Sound(b) PROVE LockOnQRT(b).fNBits = 0
  BY <1>3 DEF LockOnQRT, Sound, DecoderState
<1>4. Marks(TrackQRT(d), d)
  BY <1>1, <1>2, <1>3 DEF TrackQRT, Marks, Sound, DecoderState
<1>5. Marks(TrackWithoutQRT(d), d)
  BY <1>1, <1>2 DEF TrackWithoutQRT, Marks, Sound, DecoderState
<1>6. Marks(SearchQuartet(d), d)
  BY <1>1, <1>2 DEF SearchQuartet, Marks, Sound, DecoderState
<1> QED
  BY <1>4, <1>5, <1>6 DEF TrackQuartet

LEMMA CollectBitMarks ==
  ASSUME NEW d, Sound(d), ~Calibrated(d), NEW e \in EventSet, NEW scal \in SUBSET Seeds
  PROVE  Marked(CollectBit(d, e, scal))
<1>1. d \in DecoderState /\ d.fNBits \in 0 .. MAXBIT - 1
  BY RingAssumption, StateHasMembers DEF Sound, Members, Calibrated
<1>2. ASSUME NEW seed PROVE Marked(AdoptSeed(d, seed))
  BY <1>1 DEF AdoptSeed, Marked, DecoderState
<1>3. ~Calibrated([d EXCEPT !.fNBits = 0, !.fRingSeed_reported = ZeroSeed])
  BY <1>1, RingAssumption DEF Calibrated, DecoderState
<1>4. ASSUME NEW seed, d.fNBits + 1 # MAXBIT
      PROVE  ~Calibrated([d EXCEPT !.fNBits = d.fNBits + 1, !.fRingSeed_reported = seed])
  BY <1>1, <1>4, RingAssumption DEF Calibrated, DecoderState
<1> DEFINE old == IF d.fNBits = 0 THEN ZeroSeed ELSE d.fRingSeed_reported
           bit == IF InQuartet(PhaseOf(d), e.reported) = kPlus THEN 1 ELSE 0
           seed == PushBit(old, bit)
           turned == RanBit30(CHOOSE s \in scal : TRUE)
           none == [d EXCEPT !.fNBits = 0, !.fRingSeed_reported = ZeroSeed]
           more == [d EXCEPT !.fNBits = d.fNBits + 1, !.fRingSeed_reported = seed]
           nbits == d.fNBits + 1
<1>5. \/ CollectBit(d, e, scal) = none
      \/ CollectBit(d, e, scal) = AdoptSeed(d, seed)
      \/ CollectBit(d, e, scal) = AdoptSeed(d, turned)
      \/ nbits # MAXBIT /\ CollectBit(d, e, scal) = more
  <2>1. CASE e.reported = kUnknown
    BY <2>1 DEF CollectBit
  <2>2. CASE e.reported # kUnknown /\ nbits = MAXBIT
    BY <2>2 DEF CollectBit
  <2>3. CASE e.reported # kUnknown /\ nbits # MAXBIT /\ nbits > MinScalerBits /\ scal # {}
    BY <2>3 DEF CollectBit
  <2>4. CASE e.reported # kUnknown /\ nbits # MAXBIT /\ ~(nbits > MinScalerBits /\ scal # {})
    BY <2>4 DEF CollectBit
  <2> QED
    BY <2>1, <2>2, <2>3, <2>4
<1> HIDE DEF seed, turned
<1>6. ~Calibrated(none) /\ (nbits # MAXBIT => ~Calibrated(more))
  BY <1>3, <1>4
<1>7. Marked(none) /\ (nbits # MAXBIT => Marked(more))
  BY <1>6 DEF Marked
<1> HIDE DEF none, more, nbits
<1> QED
  BY <1>2, <1>5, <1>7

LEMMA PredictAnswers ==
  ASSUME NEW d, Sound(d), Marked(d), Calibrated(d), NEW e \in EventSet
  PROVE  Marked(Predict(d, e)) /\ Computed(Predict(d, e))
<1>1. CASE PhaseOf(d) # 0
  BY <1>1 DEF Predict, Marked, Computed, Calibrated, PhaseOf, Sound, DecoderState
<1>2. CASE PhaseOf(d) = 0
  <2> DEFINE a == AdvanceRings(d, 1)
             f == FromRings(a)
             r == [f EXCEPT !.fNBits = 0,
                     !.fActualHelicity = kUnknown, !.fPredictedHelicity = kUnknown,
                     !.fQuartetStartHelicity = kUnknown,
                     !.fQuartetStartPredictedHelicity = kUnknown]
  <2>1. Sound(a) /\ Calibrated(a)
    BY AdvanceRingsSound DEF Calibrated
  <2>2. Sound(f) /\ Marked(f) /\ Computed(f)
    <3> HIDE DEF a
    <3> QED
      BY <2>1, FromRingsAnswers, FromRingsSound
  <2>3. Predict(d, e) \in {f, r}
    BY <1>2 DEF Predict
  <2> HIDE DEF f
  <2>4. r.fNBits = 0 /\ r.fActualHelicity = kUnknown
    BY <2>2 DEF Sound, DecoderState
  <2>5. Marked(r) /\ Computed(r)
    BY <2>4, RingAssumption DEF Marked, Computed, Calibrated
  <2> QED
    BY <2>2, <2>3, <2>5
<1> QED
  BY <1>1, <1>2

LEMMA LoadHelicityAnswers ==
  ASSUME NEW d, Sound(d), Marked(d), d.fActualHelicity = kUnknown,
         NEW e \in EventSet, NEW scal \in SUBSET Seeds
  PROVE  Marked(LoadHelicity(d, e, scal)) /\ Computed(LoadHelicity(d, e, scal))
<1> DEFINE q == [d EXCEPT !.fnQrt = PhaseOf(d)]
           none == [q EXCEPT !.fNBits = 0]
<1>1. Members(d) /\ PhaseOf(d) \in Int
  BY StateHasMembers DEF Sound, Members, PhaseOf
<1>2. Sound(q) /\ Marked(q) /\ q.fActualHelicity = kUnknown
  <2>1. SameShape(q, d)
    BY DEF SameShape
  <2>2. Members(q)
    BY <1>1 DEF Members, Sound, DecoderState
  <2>3. Unmoved(q, d) /\ Marks(q, d) /\ q.fActualHelicity = kUnknown
    BY DEF Unmoved, Marks, Sound, DecoderState
  <2> HIDE DEF q
  <2> QED
    BY <2>1, <2>2, <2>3, UnmovedSound, MarksKeep
<1>3. \/ LoadHelicity(d, e, scal) \in {none, q}
      \/ Calibrated(q) /\ LoadHelicity(d, e, scal) = Predict(q, e)
      \/ ~Calibrated(q) /\ LoadHelicity(d, e, scal) = CollectBit(q, e, scal)
  BY DEF LoadHelicity
<1> HIDE DEF q
<1>4. none.fNBits = 0 /\ none.fActualHelicity = kUnknown
  BY <1>2 DEF Sound, DecoderState
<1>5. Marked(none) /\ Computed(none) /\ Computed(q)
  BY <1>2, <1>4, RingAssumption DEF Marked, Computed, Calibrated
<1> HIDE DEF none
<1>6. Calibrated(q) => Marked(Predict(q, e)) /\ Computed(Predict(q, e))
  BY <1>2, PredictAnswers
<1>7. ~Calibrated(q) => Marked(CollectBit(q, e, scal)) /\ Computed(CollectBit(q, e, scal))
  BY <1>2, CollectBitMarks, CollectBitSound DEF Computed
<1> QED
  BY <1>2, <1>3, <1>5, <1>6, <1>7

LEMMA NewCycleAnswers ==
  ASSUME NEW d, Sound(d), Marked(d), NEW e \in EventSet, NEW scal \in SUBSET Seeds,
         NEW missed \in Nat
  PROVE  Marked(NewCycle(d, e, scal, missed)) /\ Computed(NewCycle(d, e, scal, missed))
<1> DEFINE skip == SkipMissed(d, e, missed)
           counted == CountCycle(skip, e)
           tracked == TrackQuartet(counted, e)
           blank == [tracked EXCEPT !.fActualHelicity = kUnknown]
           loaded == LoadHelicity(blank, e, scal)
           r == [loaded EXCEPT !.fLastMPSTime = @ + missed * Period, !.fIsNewCycle = FALSE]
<1>1. Sound(skip) /\ Marked(skip)
  BY SkipMissedSound, SkipMissedMarked
<1> HIDE DEF skip
<1>2. Sound(counted) /\ Marked(counted)
  <2>1. Sound(counted)
    BY <1>1, CountCycleSound
  <2>2. Marks(counted, skip)
    BY <1>1 DEF CountCycle, Marks, Sound, DecoderState
  <2> HIDE DEF counted
  <2> QED
    BY <1>1, <2>1, <2>2, MarksKeep
<1> HIDE DEF counted
<1>3. Sound(tracked) /\ Marked(tracked)
  BY <1>2, TrackQuartetSound, TrackQuartetMarks, MarksKeep
<1> HIDE DEF tracked
<1>4. Members(blank) /\ SameShape(blank, tracked) /\ Unmoved(blank, tracked)
  BY <1>3, StateHasMembers, HelicityTypes
  DEF Members, SameShape, Unmoved, Sound, DecoderState
<1>5. Sound(blank) /\ Marked(blank) /\ blank.fActualHelicity = kUnknown
  <2>1. Marks(blank, tracked) /\ blank.fActualHelicity = kUnknown
    BY <1>3 DEF Marks, Sound, DecoderState
  <2> HIDE DEF blank
  <2> QED
    BY <1>3, <1>4, <2>1, UnmovedSound, MarksKeep
<1> HIDE DEF blank
<1>6. Sound(loaded) /\ Marked(loaded) /\ Computed(loaded)
  BY <1>5, LoadHelicitySound, LoadHelicityAnswers
<1> HIDE DEF loaded
<1>7. Marked(r) /\ Computed(r)
  BY <1>6 DEF Marked, Computed, Calibrated, PhaseOf, Sound, DecoderState
<1>8. NewCycle(d, e, scal, missed) = r
  BY DEF NewCycle, skip, counted, tracked, blank, loaded
<1> QED
  BY <1>7, <1>8

---------------------------------------------------------------------------
(* The ways through Decode, in delayed mode.                               *)

\* The clock stands in the MPS of some window up to v; an answer given at tick
\* tk of window v is computed for that window, and outside of its MPS.
TellsTruth(d, v, tk) ==
  /\ d.fFoundMPS => \E w \in 0 .. v : MPSWindow(d, w)
  /\ Marked(d) /\ Computed(d)
  /\ d.fActualHelicity # kUnknown => tk >= MPSTicks /\ ~d.fDisabled /\ MPSWindow(d, v)

\* The event at tick tk of window v.
EventAt(e, v, tk) ==
  /\ e \in EventSet /\ e.time = v * Period + tk /\ (e.mps <=> tk < MPSTicks)

\* The ways that give no answer.
LEMMA SilentTellsTruth ==
  ASSUME NEW d, NEW r, Marked(d), Marks(r, d), r.fActualHelicity = kUnknown,
         NEW v \in Nat, NEW tk, r.fFoundMPS => \E w \in 0 .. v : MPSWindow(r, w)
  PROVE  TellsTruth(r, v, tk)
BY MarksKeep DEF TellsTruth, Computed

\* A further event with MPS leaves the clock in its window, and begins a cycle only
\* when it is of that window.
LEMMA DecodeMPSKeepsWindow ==
  ASSUME MPSIsShort, dec \in DecoderState, dec.fFoundMPS,
         NEW w \in Nat, NEW v \in Nat, w <= v, MPSWindow(dec, w),
         NEW tk \in 0 .. Period - 1, NEW e, EventAt(e, v, tk),
         NEW skipped, DecodeMPS(e, skipped)
  PROVE  MPSWindow(dec', w) /\ (w # v => dec'.fIsNewCycle = dec.fIsNewCycle)
<1> DEFINE missed == Nint(e.time - dec.fLastMPSTime, Period)
           blank == [dec EXCEPT !.fActualHelicity = kUnknown, !.fPredictedHelicity = kUnknown]
<1>1. tk \in 0 .. MPSTicks - 1 /\ e.time = Period * v + tk
  BY DecoderAssumption DEF EventAt, DecodeMPS
<1>2. /\ blank \in DecoderState /\ blank.fLastMPSTime = dec.fLastMPSTime
      /\ blank.fIsNewCycle = dec.fIsNewCycle
  BY HelicityTypes DEF DecoderState
<1>3. dec' = IF missed < 1
             THEN [blank EXCEPT !.fIsNewCycle = TRUE,
                     !.fLastMPSTime = (e.time + @ + missed * Period) \div 2]
             ELSE [blank EXCEPT !.fLastMPSTime = (@ + e.time - missed * Period) \div 2]
  BY DEF DecodeMPS
<1> HIDE DEF blank
<1>4. PICK m \in 0 .. MPSTicks - 1 : dec.fLastMPSTime = Period * w + m
  BY DEF MPSWindow
<1>5. PICK n \in Nat : n = v - w
  OBVIOUS
<1>6. PICK s \in Int : s = Period * w
  BY DecoderAssumption
<1>7. PICK x \in Int : x = Period * n /\ x = n * Period
  BY DecoderAssumption
<1>8. e.time = s + x + tk
  <2>1. Period * v = Period * w + Period * n
    BY <1>5, DecoderAssumption
  <2> QED
    BY <1>1, <1>6, <1>7, <2>1
<1>9. missed = n
  <2>1. e.time - dec.fLastMPSTime = Period * n + (tk - m)
    BY <1>1, <1>4, <1>6, <1>7, <1>8, DecoderAssumption
  <2> QED
    BY <1>1, <2>1, PeriodsAreRounded
<1>10. PICK k \in 0 .. MPSTicks - 1 : ((s + tk) + (s + m)) \div 2 = s + k
  BY <1>1, <1>6, MiddleOfMPS
<1> HIDE DEF missed
<1>11. CASE missed < 1
  <2>1. x = 0 /\ missed * Period = 0
    BY <1>5, <1>7, <1>9, <1>11, DecoderAssumption
  <2>2. dec'.fLastMPSTime = (e.time + dec.fLastMPSTime + missed * Period) \div 2
    BY <1>2, <1>3, <1>11 DEF DecoderState
  <2>3. e.time + dec.fLastMPSTime + missed * Period = (s + tk) + (s + m)
    BY <1>1, <1>4, <1>6, <1>8, <2>1, DecoderAssumption
  <2>4. dec'.fLastMPSTime = s + k
    BY <1>10, <2>2, <2>3
  <2> QED
    BY <1>5, <1>6, <1>9, <1>11, <2>4 DEF MPSWindow
<1>12. CASE ~(missed < 1)
  <2>1. /\ dec'.fLastMPSTime = (dec.fLastMPSTime + e.time - missed * Period) \div 2
        /\ dec'.fIsNewCycle = dec.fIsNewCycle
    BY <1>2, <1>3, <1>12 DEF DecoderState
  <2>2. dec.fLastMPSTime + e.time - missed * Period = (s + tk) + (s + m)
    BY <1>1, <1>4, <1>6, <1>7, <1>8, <1>9, DecoderAssumption
  <2>3. dec'.fLastMPSTime = s + k
    BY <1>10, <2>1, <2>2
  <2> QED
    BY <1>6, <2>1, <2>3 DEF MPSWindow
<1> QED
  BY <1>11, <1>12

LEMMA DecodeMPSTellsTruth ==
  ASSUME MPSIsShort, Safe(dec), NEW u \in Nat, NEW v \in Nat, u <= v,
         NEW t, TellsTruth(dec, u, t), NEW tk \in 0 .. Period - 1,
         NEW e, EventAt(e, v, tk), NEW skipped, DecodeMPS(e, skipped)
  PROVE  TellsTruth(dec', v, tk)
<1>1. /\ dec \in DecoderState /\ Marked(dec) /\ tk \in 0 .. MPSTicks - 1
      /\ e.time = Period * v + tk
  BY DecoderAssumption DEF Safe, Sound, TellsTruth, EventAt, DecodeMPS
<1>2. Marks(dec', dec) /\ dec'.fActualHelicity = kUnknown
  BY <1>1 DEF DecodeMPS, Marks, DecoderState
<1>3. CASE ~dec.fFoundMPS
  <2>1. dec'.fLastMPSTime = Period * v + tk
    BY <1>1, <1>3 DEF DecodeMPS, DecoderState
  <2>2. MPSWindow(dec', v)
    BY <1>1, <2>1 DEF MPSWindow
  <2> QED
    BY <1>1, <1>2, <2>2, SilentTellsTruth
<1>4. CASE dec.fFoundMPS
  <2>1. PICK w \in 0 .. u : MPSWindow(dec, w)
    BY <1>4 DEF TellsTruth
  <2>2. w \in Nat /\ w \in 0 .. v
    BY <2>1
  <2>3. MPSWindow(dec', w)
    BY <1>1, <1>4, <2>1, <2>2, DecodeMPSKeepsWindow
  <2> QED
    BY <1>1, <1>2, <2>2, <2>3, SilentTellsTruth
<1> QED
  BY <1>3, <1>4

LEMMA DecodeSameCycleTellsTruth ==
  ASSUME Safe(dec), NEW u \in Nat, NEW v \in Nat, u <= v,
         NEW t, TellsTruth(dec, u, t), NEW tk \in 0 .. Period - 1,
         NEW e, EventAt(e, v, tk), NEW skipped, DecodeSameCycle(e, skipped)
  PROVE  TellsTruth(dec', v, tk)
<1>1. PICK w \in 0 .. u : MPSWindow(dec, w)
  BY DEF TellsTruth, DecodeSameCycle
<1>2. tk >= MPSTicks /\ e.time = v * Period + tk
  BY DecoderAssumption DEF EventAt, DecodeSameCycle
<1>3. PeriodsMissed(dec, e) = v - w
  BY <1>1, <1>2, PeriodsAreCounted
<1>4. w = v /\ MPSWindow(dec, v)
  BY <1>1, <1>3 DEF DecodeSameCycle
<1>5. dec \in DecoderState /\ Sound(dec)
  BY DEF Safe, Sound
<1>6. CASE Calibrated(dec)
  <2>1. dec' = FromRings(dec)
    BY <1>6 DEF DecodeSameCycle
  <2>2. dec'.fLastMPSTime = dec.fLastMPSTime /\ dec'.fDisabled = dec.fDisabled
    BY <1>5, <2>1 DEF FromRings, DecoderState
  <2>3. MPSWindow(dec', v) /\ ~dec'.fDisabled
    BY <1>4, <2>2 DEF MPSWindow, DecodeSameCycle, Running
  <2>4. Marked(dec') /\ Computed(dec')
    BY <1>5, <1>6, <2>1, FromRingsAnswers
  <2> QED
    BY <1>2, <2>3, <2>4 DEF TellsTruth
<1>7. CASE ~Calibrated(dec)
  <2>1. dec' = [dec EXCEPT !.fActualHelicity = kUnknown]
    BY <1>7 DEF DecodeSameCycle
  <2>2. /\ Marks(dec', dec) /\ dec'.fActualHelicity = kUnknown
        /\ dec'.fLastMPSTime = dec.fLastMPSTime
    BY <1>5, <2>1 DEF Marks, DecoderState
  <2>3. MPSWindow(dec', v)
    BY <1>4, <2>2 DEF MPSWindow
  <2> QED
    BY <2>2, <2>3, SilentTellsTruth DEF TellsTruth
<1> QED
  BY <1>6, <1>7

LEMMA DecodeNewCycleTellsTruth ==
  ASSUME Safe(dec), NEW u \in Nat, NEW v \in Nat, u <= v,
         NEW t, TellsTruth(dec, u, t), NEW tk \in 0 .. Period - 1,
         NEW e, EventAt(e, v, tk), NEW skipped, NEW scal \in SUBSET Seeds,
         DecodeNewCycle(e, skipped, scal)
  PROVE  TellsTruth(dec', v, tk)
<1> DEFINE missed == PeriodsMissed(dec, e)
           seen == IF missed = 0 /\ Calibrated(dec) THEN FromRings(dec) ELSE dec
<1>1. PICK w \in 0 .. u : MPSWindow(dec, w)
  BY DEF TellsTruth, DecodeNewCycle
<1>2. tk >= MPSTicks /\ e.time = v * Period + tk /\ e \in EventSet
  BY DecoderAssumption DEF EventAt, DecodeNewCycle
<1>3. missed = v - w /\ missed \in Nat
  BY <1>1, <1>2, PeriodsAreCounted
<1>4. Sound(seen) /\ Marked(seen) /\ Kept(seen, dec)
  <2>1. Sound(dec) /\ dec \in DecoderState /\ Marked(dec)
    BY DEF Safe, Sound, TellsTruth
  <2> QED
    BY <2>1, FromRingsSound, FromRingsAnswers DEF FromRings, Kept, DecoderState
<1>5. dec' = NewCycle(seen, e, scal, missed)
  BY DEF DecodeNewCycle
<1> HIDE DEF missed, seen
<1>6. Marked(dec') /\ Computed(dec')
  BY <1>2, <1>3, <1>4, <1>5, NewCycleAnswers
<1>7. dec'.fLastMPSTime = seen.fLastMPSTime + missed * Period /\ dec'.fDisabled = seen.fDisabled
  BY <1>2, <1>3, <1>4, <1>5, NewCycleKeeps
<1>8. MPSWindow(dec', v)
  <2>1. PICK m \in 0 .. MPSTicks - 1 : dec.fLastMPSTime = Period * w + m
    BY <1>1 DEF MPSWindow
  <2>2. Period * v = Period * w + missed * Period
    BY <1>1, <1>3, DecoderAssumption
  <2>3. Period * w \in Int /\ missed * Period \in Int
    BY <1>1, <1>3, DecoderAssumption
  <2>4. dec'.fLastMPSTime = Period * v + m
    BY <1>4, <1>7, <2>1, <2>2, <2>3, DecoderAssumption DEF Kept
  <2> QED
    BY <2>4 DEF MPSWindow
<1>9. ~dec'.fDisabled
  BY <1>4, <1>7 DEF Kept, DecodeNewCycle, Running
<1> QED
  BY <1>2, <1>6, <1>8, <1>9 DEF TellsTruth

LEMMA DecodeTellsTruth ==
  ASSUME MPSIsShort, HelDelay # 0, Safe(dec), NEW u \in Nat, NEW v \in Nat, u <= v,
         NEW t, TellsTruth(dec, u, t), NEW tk \in 0 .. Period - 1,
         NEW e, EventAt(e, v, tk), NEW skipped, NEW scal \in SUBSET Seeds,
         Decode(e, skipped, scal)
  PROVE  TellsTruth(dec', v, tk)
<1>1. dec \in DecoderState /\ Marked(dec) /\ (dec.fFoundMPS => \E w \in 0 .. v : MPSWindow(dec, w))
  BY DEF Safe, Sound, TellsTruth
<1>2. ASSUME Marks(dec', dec), dec'.fActualHelicity = kUnknown,
             dec'.fFoundMPS => dec.fFoundMPS /\ dec'.fLastMPSTime = dec.fLastMPSTime
      PROVE  TellsTruth(dec', v, tk)
  <2>1. dec'.fFoundMPS => \E w \in 0 .. v : MPSWindow(dec', w)
    BY <1>1, <1>2 DEF MPSWindow
  <2> QED
    BY <1>1, <1>2, <2>1, SilentTellsTruth
<1>3. CASE DecodeMissedEvents(skipped) \/ DecodeDisabled \/ DecodeBeforeMPS(e, skipped)
  BY <1>1, <1>2, <1>3
  DEF DecodeMissedEvents, DecodeDisabled, DecodeBeforeMPS, Marks, DecoderState
<1>4. CASE DecodeFirst(e)
  BY <1>1, <1>2, <1>4 DEF DecodeFirst, Marks, DecoderState
<1>5. CASE DecodeMPS(e, skipped)
  BY <1>5, DecodeMPSTellsTruth
<1>6. CASE DecodeSameCycle(e, skipped)
  BY <1>6, DecodeSameCycleTellsTruth
<1>7. CASE DecodeNewCycle(e, skipped, scal)
  BY <1>7, DecodeNewCycleTellsTruth
<1> QED
  BY <1>3, <1>4, <1>5, <1>6, <1>7 DEF Decode, DecodeInTime

---------------------------------------------------------------------------
(* The inductive invariant.                                                *)

\* In in-time mode the report is the helicity, outside of the MPS.
InTimeTrue ==
  /\ ~dec.fDisabled
  /\ dec.fActualHelicity # kUnknown =>
       tick >= MPSTicks /\ dec.fActualHelicity = ReportedHelicity

TruthInv ==
  /\ IndInv /\ setup \in Setups
  /\ IF HelDelay = 0 THEN InTimeTrue ELSE TellsTruth(dec, win, tick)

LEMMA InitialTruth == Init => TruthInv
<1> SUFFICES ASSUME Init PROVE TruthInv
  OBVIOUS
<1>1. /\ ~dec.fFoundMPS /\ dec.fNBits = 0 /\ dec.fActualHelicity = kUnknown
      /\ ~dec.fDisabled /\ setup \in Setups
  BY DEF Init
<1> QED
  BY <1>1, InitialInvariant, RingAssumption
  DEF TruthInv, InTimeTrue, TellsTruth, Marked, Computed, Calibrated

\* What the DAQ records of the event at a tick of a window.
LEMMA EventIsAtItsTime ==
  ASSUME BeamTypes', NEW fault, Event(fault)' \in EventSet
  PROVE  EventAt(Event(fault)', win', tick')
BY DEF BeamTypes, Event, EventAt

LEMMA StepKeepsTruth ==
  ASSUME MPSIsShort
  PROVE  TruthInv /\ [Next]_vars => TruthInv'
<1> SUFFICES ASSUME TruthInv, [Next]_vars PROVE TruthInv'
  OBVIOUS
<1>1. IndInv'
  BY StepKeepsInvariant DEF TruthInv
<1>2. CASE Next
  <2>1. PICK g \in 0 .. setup.MaxGap, tk \in EventTicks, fault \in Faults,
             skipped \in {FALSE, setup.EventsMissed} :
          /\ Arrival(g, tk, fault)
          /\ \E scal \in ScalerOffers' : Decode(Event(fault)', skipped, scal)
    BY <1>2 DEF Next
  <2>2. BeamTypes' /\ Event(fault)' \in EventSet /\ ScalerOffers' \subseteq SUBSET Seeds
    BY <2>1, ArrivalTypes DEF TruthInv, IndInv
  <2>3. PICK e \in EventSet : e = Event(fault)'
    BY <2>2
  <2>4. EventAt(e, win', tick')
    BY <2>2, <2>3, EventIsAtItsTime
  <2>5. PICK scal \in SUBSET Seeds : Decode(e, skipped, scal)
    BY <2>1, <2>2, <2>3
  <2>6. /\ setup' = setup /\ HelDelay' = HelDelay
        /\ win \in Nat /\ win' \in Nat /\ win <= win' /\ tick' \in 0 .. Period - 1
    <3>1. win' = win + g /\ setup' = setup /\ g \in Nat
      BY <2>1, SetupTypes DEF Arrival, TruthInv, IndInv, BeamTypes
    <3> QED
      BY <2>2, <3>1 DEF TruthInv, IndInv, BeamTypes, HelDelay
  <2>7. CASE HelDelay = 0
    <3>1. dec' = [dec EXCEPT !.fActualHelicity = IF e.mps THEN kUnknown ELSE e.reported]
      BY <2>5, <2>7
      DEF Decode, DecodeInTime, DecodeMissedEvents, DecodeDisabled, DecodeFirst, DecodeMPS,
          DecodeBeforeMPS, DecodeSameCycle, DecodeNewCycle, Running
    <3>2. /\ dec'.fDisabled = dec.fDisabled
          /\ dec'.fActualHelicity = IF e.mps THEN kUnknown ELSE e.reported
      BY <3>1 DEF TruthInv, IndInv, Safe, Sound, DecoderState
    <3>3. e.reported \in {kUnknown, ReportedHelicity'}
      BY <2>3 DEF Event
    <3>4. ~e.mps => tick' >= MPSTicks
      BY <2>4, <2>6, DecoderAssumption DEF EventAt
    <3> QED
      BY <1>1, <2>6, <2>7, <3>2, <3>3, <3>4 DEF TruthInv, InTimeTrue
  <2>8. CASE HelDelay # 0
    <3>1. TellsTruth(dec', win', tick')
      <4>1. Safe(dec) /\ TellsTruth(dec, win, tick)
        BY <2>8 DEF TruthInv, IndInv
      <4> QED
        BY <2>4, <2>5, <2>6, <2>8, <4>1, DecodeTellsTruth
    <3>2. TellsTruth(dec, win, tick)'
      BY <3>1 DEF TellsTruth, MPSWindow, Marked, Computed, Calibrated, PhaseOf
    <3> QED
      BY <1>1, <2>6, <2>8, <3>2 DEF TruthInv
  <2> QED
    BY <2>7, <2>8
<1>3. CASE UNCHANGED vars
  BY <1>1, <1>3
  DEF vars, TruthInv, HelDelay, InTimeTrue, ReportedHelicity, TruePhase,
      TellsTruth, MPSWindow, Marked, Computed, Calibrated, PhaseOf
<1> QED
  BY <1>2, <1>3

---------------------------------------------------------------------------
(* From the invariant to the truth.                                        *)

\* The delay does not move the phase, and moves the ring by its quartets.
LEMMA DelayOfQuartets ==
  ASSUME NEW p \in 0 .. 3, NEW k \in Nat, k % 4 = 0
  PROVE  (p + k) % 4 = p /\ (p + k) \div 4 = k \div 4
OBVIOUS

\* When the clock stands in the window of the event, the ring of the decoder's
\* window is that of the beam.
LEMMA WindowIsNow ==
  ASSUME BeamTypes, MPSWindow(dec, win)
  PROVE  WindowSeen = win /\ BeamSeen = beam
<1>1. PICK m \in 0 .. MPSTicks - 1 : dec.fLastMPSTime = Period * win + m
  BY DEF MPSWindow
<1>2. m \in 0 .. Period - 1 /\ win \in Int /\ phase0 \in Int
  BY DecoderAssumption DEF BeamTypes
<1>3. WindowSeen = win
  BY <1>1, <1>2, DivUnique, DecoderAssumption DEF WindowSeen
<1>4. (win + phase0) \div 4 - (WindowSeen + phase0) \div 4 = 0
  BY <1>2, <1>3
<1> QED
  BY <1>3, <1>4, RetreatDefined DEF BeamSeen, BeamTypes

\* Seeds are told apart by their bits.
LEMMA SeedsEqual ==
  ASSUME NEW r \in Seeds, NEW s \in Seeds, \A i \in 1 .. MAXBIT : r[i] = s[i]
  PROVE  r = s
<1>1. r = [i \in 1 .. MAXBIT |-> r[i]] /\ s = [i \in 1 .. MAXBIT |-> s[i]]
  BY DEF Seeds
<1> QED
  BY <1>1

LEMMA TruthIsEnough ==
  ASSUME DelayIsWhole, TruthInv
  PROVE  RightIsTrue
<1>1. BeamTypes /\ Sound(dec) /\ Members(dec) /\ HelDelay \in Nat /\ HelDelay % 4 = 0
  BY StateHasMembers, SetupTypes
  DEF TruthInv, IndInv, Safe, Sound, BeamTypes, DelayIsWhole, HelDelay
<1>2. TruePhase \in 0 .. 3
  BY <1>1 DEF BeamTypes, TruePhase
<1>3. TrueHelicity = InQuartet(TruePhase, Sign(Advance[HelDelay \div 4][beam][1]))
  BY <1>1, <1>2, DelayOfQuartets DEF TrueHelicity
<1>4. tick < MPSTicks \/ dec.fDisabled => dec.fActualHelicity = kUnknown
  BY DecoderAssumption, <1>1 DEF TruthInv, InTimeTrue, TellsTruth, BeamTypes
<1>5. CASE HelDelay = 0
  <2>1. HelDelay \div 4 = 0
    BY <1>5
  <2>2. Advance[0][beam] = beam
    BY <1>1, AdvanceDefined DEF BeamTypes
  <2>3. TrueHelicity = ReportedHelicity
    BY <1>3, <2>1, <2>2 DEF ReportedHelicity
  <2> QED
    BY <1>4, <1>5, <2>3 DEF TruthInv, InTimeTrue, RightIsTrue, TrueOrUnknown
<1>6. CASE HelDelay # 0
  <2>1. SUFFICES ASSUME Right, dec.fActualHelicity # kUnknown
                 PROVE  dec.fActualHelicity = TrueHelicity
    BY <1>4, <1>6 DEF RightIsTrue, TrueOrUnknown
  <2>2. /\ Calibrated(dec) /\ MPSWindow(dec, win)
        /\ dec.fActualHelicity = InQuartet(PhaseOf(dec), Sign(dec.fRingSeed_actual[1]))
    BY <1>6, <2>1 DEF TruthInv, TellsTruth, Computed
  <2>3. WindowSeen = win /\ BeamSeen = beam
    BY <1>1, <2>2, WindowIsNow
  <2>4. PhaseOf(dec) = TruePhase
    BY <2>1, <2>3 DEF Right, PhaseRight, TruePhase
  <2>5. dec.fRingSeed_reported = beam
    <3>1. dec.fNBits = MAXBIT
      BY <1>1, <2>2, RingAssumption DEF Calibrated, Members
    <3>2. \A i \in 1 .. MAXBIT : dec.fRingSeed_reported[i] = beam[i]
      BY <2>1, <2>3, <3>1 DEF Right
    <3>3. PICK r \in Seeds : r = dec.fRingSeed_reported
      BY <1>1 DEF Members
    <3>4. beam \in Seeds /\ \A i \in 1 .. MAXBIT : r[i] = beam[i]
      BY <1>1, <3>2, <3>3 DEF BeamTypes
    <3> QED
      BY <3>3, <3>4, SeedsEqual
  <2>6. dec.fRingSeed_actual = Advance[HelDelay \div 4][beam]
    BY <1>1, <2>2, <2>5 DEF Sound
  <2> QED
    BY <1>3, <2>2, <2>4, <2>6
<1> QED
  BY <1>5, <1>6

---------------------------------------------------------------------------
(* The theorem.                                                            *)

\* Through missed windows, settling times, failed predictions and seeds of the
\* scaler, an event that THcHelicity::Decode gives a helicity is given that of
\* the beam at the event as long as the decoder has the phase and the bits
\* right, and so it is in in-time mode; in the settling time and after an event
\* kept from Decode none is given.
THEOREM RightDecoderIsTrue ==
  ASSUME DelayIsWhole, MPSIsShort
  PROVE  Spec => []RightIsTrue
<1>1. Init => TruthInv
  BY InitialTruth
<1>2. TruthInv /\ [Next]_vars => TruthInv'
  BY StepKeepsTruth
<1>3. TruthInv => RightIsTrue
  BY TruthIsEnough
<1> QED
  BY <1>1, <1>2, <1>3, PTL DEF Spec

---------------------------------------------------------------------------
(* What a window does to a decoder that is right.                          *)

\* The bits collected or computed are those of a ring.
BitsAre(d, ring) == \A i \in 1 .. d.fNBits : d.fRingSeed_reported[i] = ring[i]

\* Quartets in phase by the QRT flag, and bits of a ring.
LockedAt(d, phase, ring) ==
  d.fFoundQuartet /\ d.fHaveQRT /\ PhaseOf(d) = phase /\ BitsAre(d, ring)

\* The sign of a bit is no unknown one, in any window of its quartet.
LEMMA SignIsKnown ==
  ASSUME NEW p, NEW bit
  PROVE  InQuartet(p, Sign(bit)) \in {-1, 1} /\ InQuartet(p, Sign(bit)) # kUnknown
<1>1. Sign(bit) \in {-1, 1}
  BY DEF Sign, kPlus, kMinus
<1> QED
  BY <1>1 DEF InQuartet, kUnknown

\* Two counts that agree in the phase cross the same quartets.
LEMMA QuartetsAgree ==
  ASSUME NEW x \in Int, NEW y \in Int, x % 4 = y % 4, NEW k \in Int
  PROVE  /\ (x + k) % 4 = (y + k) % 4
         /\ (x + k) \div 4 - x \div 4 = (y + k) \div 4 - y \div 4
OBVIOUS

\* A window more is a quartet more when it begins one.
LEMMA QuartetBegins ==
  ASSUME NEW x \in Int
  PROVE  (x + 1) \div 4 = (x \div 4) + (IF (x + 1) % 4 = 0 THEN 1 ELSE 0)
OBVIOUS

\* The pattern of a quartet, applied twice, is none: the report tells the sign of
\* its quartet.
LEMMA PatternTwice ==
  ASSUME NEW p, NEW bit \in Bit
  PROVE  (IF InQuartet(p, InQuartet(p, Sign(bit))) = kPlus THEN 1 ELSE 0) = bit
<1>1. Sign(bit) \in {1, -1} /\ (Sign(bit) = kPlus <=> bit = 1)
  BY DEF Sign, kPlus, kMinus, Bit
<1>2. InQuartet(p, InQuartet(p, Sign(bit))) = Sign(bit)
  BY <1>1 DEF InQuartet
<1> QED
  BY <1>1, <1>2 DEF Bit

\* The rings of a calibrated decoder are run on over the windows missed; the bits
\* of another stay as they are.
LEMMA SkipMissedCounts ==
  ASSUME NEW d, Sound(d), NEW e \in EventSet, NEW missed \in Nat, missed # 0
  PROVE  LET r == SkipMissed(d, e, missed)
         IN  /\ r.fNCycle = d.fNCycle + missed - 1 /\ r.fFirstCycle = d.fFirstCycle
             /\ r.fHaveQRT = d.fHaveQRT /\ r.fFoundQuartet = d.fFoundQuartet
             /\ r.fNQRTProblems = d.fNQRTProblems /\ r.fNQuartet = d.fNQuartet
             /\ r.fNBits = d.fNBits
             /\ r.fRingSeed_reported =
                  IF missed > 1 /\ Calibrated(d)
                  THEN Advance[QuartetOf(r) - QuartetOf(d)][d.fRingSeed_reported]
                  ELSE d.fRingSeed_reported
<1> DEFINE caught == [d EXCEPT !.fNCycle = @ + missed - 1]
           n == QuartetOf(caught) - QuartetOf(d)
           a == AdvanceRings(caught, n)
           f == FromRings(a)
<1>1. Members(d) /\ d \in DecoderState
  BY StateHasMembers DEF Sound
<1>2. CASE missed = 1
  BY <1>1, <1>2 DEF SkipMissed, Members
<1> DEFINE Same(r) ==
             /\ r.fNCycle = d.fNCycle + missed - 1 /\ r.fFirstCycle = d.fFirstCycle
             /\ r.fHaveQRT = d.fHaveQRT /\ r.fFoundQuartet = d.fFoundQuartet
             /\ r.fNQRTProblems = d.fNQRTProblems /\ r.fNQuartet = d.fNQuartet
             /\ r.fNBits = d.fNBits
<1>3. Same(caught) /\ caught.fRingSeed_reported = d.fRingSeed_reported /\ DOMAIN caught = DOMAIN d
  BY <1>1 DEF DecoderState
<1>4. CASE missed > 1 /\ ~Calibrated(d)
  <2>1. SkipMissed(d, e, missed) =
          [caught EXCEPT !.fActualHelicity = kUnknown, !.fQuartet[0] = e.reported, !.fQuartet[1] = 0]
    BY <1>4 DEF SkipMissed
  <2> HIDE DEF caught
  <2> QED
    BY <1>1, <1>3, <1>4, <2>1 DEF DecoderState
<1>5. CASE missed > 1 /\ Calibrated(d)
  <2> DEFINE odd == PhaseOf(caught) \in {1, 3}
             rep == e.reported
  <2>1. SkipMissed(d, e, missed) =
          [f EXCEPT !.fQuartet[0] = IF odd THEN rep ELSE -rep, !.fQuartet[1] = -rep,
                    !.fQuartet[2] = IF odd THEN -rep ELSE rep]
    BY <1>5 DEF SkipMissed
  <2> HIDE DEF caught, n
  <2>2. Same(a) /\ a.fRingSeed_reported = Advance[n][d.fRingSeed_reported] /\ DOMAIN a = DOMAIN d
    BY <1>1, <1>3 DEF AdvanceRings, DecoderState
  <2> HIDE DEF a, odd, rep
  <2>3. Same(f) /\ f.fRingSeed_reported = Advance[n][d.fRingSeed_reported] /\ DOMAIN f = DOMAIN d
    BY <1>1, <2>2 DEF FromRings, DecoderState
  <2> HIDE DEF f
  <2>4. /\ Same(SkipMissed(d, e, missed))
        /\ SkipMissed(d, e, missed).fRingSeed_reported = Advance[n][d.fRingSeed_reported]
    BY <1>1, <2>1, <2>3 DEF DecoderState
  <2>5. QuartetOf(SkipMissed(d, e, missed)) = QuartetOf(caught)
    BY <1>3, <2>4 DEF QuartetOf
  <2> QED
    BY <1>5, <2>4, <2>5 DEF n
<1>6. missed = 1 \/ missed > 1
  OBVIOUS
<1> QED
  BY <1>2, <1>4, <1>5, <1>6

\* In phase, or with problems left to tolerate, the lock is kept.
LEMMA LockIsKept ==
  ASSUME NEW d, Sound(d), d.fHaveQRT, NEW e \in EventSet,
         (e.qrt <=> PhaseOf(d) = 0) \/ d.fNQRTProblems + 1 <= MaxQRTProblems
  PROVE  LET r == TrackQuartet(d, e)
         IN  /\ r.fNCycle = d.fNCycle /\ r.fFirstCycle = d.fFirstCycle
             /\ r.fHaveQRT /\ r.fFoundQuartet = d.fFoundQuartet
             /\ r.fNQuartet = QuartetOf(d) /\ r.fNLastQuartet = d.fNQuartet
             /\ r.fNBits = d.fNBits /\ r.fRingSeed_reported = d.fRingSeed_reported
<1> DEFINE c == CountQuartet(d)
           Same(r) ==
             /\ r.fNCycle = d.fNCycle /\ r.fFirstCycle = d.fFirstCycle
             /\ r.fHaveQRT /\ r.fFoundQuartet = d.fFoundQuartet
             /\ r.fNQuartet = QuartetOf(d) /\ r.fNLastQuartet = d.fNQuartet
             /\ r.fNBits = d.fNBits /\ r.fRingSeed_reported = d.fRingSeed_reported
<1>1. Sound(c) /\ Same(c) /\ c.fNQRTProblems = d.fNQRTProblems /\ PhaseOf(c) = PhaseOf(d)
  BY CountQuartetSound DEF CountQuartet, PhaseOf, Sound, DecoderState
<1>2. c \in DecoderState /\ c.fNQRTProblems \in Nat
  BY <1>1, StateHasMembers DEF Sound, Members
<1> HIDE DEF c
<1>3. ASSUME NEW p PROVE Same([c EXCEPT !.fNQRTProblems = p])
  BY <1>1, <1>2 DEF DecoderState
<1>4. ~(e.qrt <=> PhaseOf(c) = 0) => ~(c.fNQRTProblems + 1 > MaxQRTProblems)
  BY <1>1, <1>2, DecoderAssumption
<1>5. CASE e.qrt
  BY <1>1, <1>3, <1>4, <1>5 DEF TrackQuartet, TrackQRT, c
<1>6. CASE ~e.qrt
  BY <1>1, <1>3, <1>4, <1>6 DEF TrackQuartet, TrackWithoutQRT, c
<1> QED
  BY <1>5, <1>6

\* The members LoadHelicity leaves alone.
Leaves(r, d) ==
  /\ r.fNCycle = d.fNCycle /\ r.fFirstCycle = d.fFirstCycle
  /\ r.fHaveQRT = d.fHaveQRT /\ r.fFoundQuartet = d.fFoundQuartet
  /\ r.fNQRTProblems = d.fNQRTProblems /\ r.fNQuartet = d.fNQuartet /\ r.fQuartet = d.fQuartet

LEMMA LoadHelicityLeaves ==
  ASSUME NEW d, Sound(d), NEW e \in EventSet, NEW scal \in SUBSET Seeds
  PROVE  Leaves(LoadHelicity(d, e, scal), d)
<1> DEFINE q == [d EXCEPT !.fnQrt = PhaseOf(d)]
<1>1. q \in DecoderState /\ Leaves(q, d)
  BY DEF Leaves, Sound, DecoderState, PhaseOf
<1> HIDE DEF q
<1>2. ASSUME NEW b \in DecoderState, NEW seed PROVE Leaves(AdoptSeed(b, seed), b)
  BY <1>2 DEF AdoptSeed, Leaves, DecoderState
<1>3. Leaves(CollectBit(q, e, scal), q)
  BY <1>1, <1>2 DEF CollectBit, Leaves, DecoderState
<1>4. Leaves(Predict(q, e), q)
  BY <1>1 DEF Predict, FromRings, AdvanceRings, Leaves, DecoderState
<1>5. Leaves([q EXCEPT !.fNBits = 0], q)
  BY <1>1 DEF Leaves, DecoderState
<1> QED
  BY <1>1, <1>3, <1>4, <1>5 DEF LoadHelicity, Leaves, q

\* The bit of the report is the newest of the ring, after the bits before it.
LEMMA CollectBitRight ==
  ASSUME NEW d, Sound(d), ~Calibrated(d), NEW e \in EventSet, NEW scal \in SUBSET Seeds,
         NEW ring \in Seeds, BitsAre(d, ring), NEW turned, turned = RanBit30(ring),
         e.reported \in {kUnknown, InQuartet(PhaseOf(d), Sign(turned[1]))},
         scal # {} => RanBit30(CHOOSE s \in scal : TRUE) = turned
  PROVE  BitsAre(CollectBit(d, e, scal), turned)
<1> DEFINE old == IF d.fNBits = 0 THEN ZeroSeed ELSE d.fRingSeed_reported
           bit == IF InQuartet(PhaseOf(d), e.reported) = kPlus THEN 1 ELSE 0
           seed == PushBit(old, bit)
           nbits == d.fNBits + 1
           scalseed == RanBit30(CHOOSE s \in scal : TRUE)
           none == [d EXCEPT !.fNBits = 0, !.fRingSeed_reported = ZeroSeed]
           more == [d EXCEPT !.fNBits = nbits, !.fRingSeed_reported = seed]
<1>1. d \in DecoderState /\ d.fNBits \in 0 .. MAXBIT - 1 /\ turned \in Seeds
  BY RingAssumption, StateHasMembers, RanBit30Type DEF Sound, Members, Calibrated
<1>2. e.reported # kUnknown => \A i \in 1 .. nbits : seed[i] = turned[i]
  <2> SUFFICES ASSUME e.reported # kUnknown, NEW i \in 1 .. nbits
               PROVE  seed[i] = turned[i]
    OBVIOUS
  <2>1. i \in 1 .. MAXBIT /\ (i # 1 => i - 1 \in 1 .. d.fNBits)
    BY <1>1, RingAssumption
  <2>2. seed[i] = IF i = 1 THEN bit ELSE old[i - 1]
    BY <2>1 DEF PushBit
  <2>3. i # 1 => turned[i] = ring[i - 1]
    BY <2>1 DEF RanBit30, PushBit
  <2>4. bit = turned[1]
    <3>1. turned[1] \in Bit
      BY <1>1, RingAssumption DEF Seeds
    <3> QED
      BY <3>1, PatternTwice
  <2>5. i # 1 => old[i - 1] = ring[i - 1]
    BY <1>1, <2>1 DEF BitsAre
  <2> HIDE DEF seed, bit, old
  <2> QED
    BY <2>2, <2>3, <2>4, <2>5
<1>3. ASSUME NEW s, \A i \in 1 .. MAXBIT : s[i] = turned[i]
      PROVE  BitsAre(AdoptSeed(d, s), turned)
  BY <1>1, <1>3 DEF AdoptSeed, BitsAre, DecoderState
<1> HIDE DEF seed, scalseed
<1>4. BitsAre(none, turned)
  BY <1>1 DEF BitsAre, DecoderState
<1>5. e.reported # kUnknown => BitsAre(more, turned)
  <2>1. more.fNBits = nbits /\ more.fRingSeed_reported = seed
    BY <1>1 DEF DecoderState
  <2> HIDE DEF more, nbits
  <2> QED
    BY <1>2, <2>1 DEF BitsAre
<1>6. CASE e.reported = kUnknown
  <2>1. CollectBit(d, e, scal) = none
    BY <1>6 DEF CollectBit
  <2> QED
    BY <1>4, <2>1
<1>7. CASE e.reported # kUnknown /\ nbits = MAXBIT
  <2>1. CollectBit(d, e, scal) = AdoptSeed(d, seed)
    BY <1>7 DEF CollectBit, seed
  <2> QED
    BY <1>2, <1>3, <1>7, <2>1
<1>8. CASE e.reported # kUnknown /\ nbits # MAXBIT /\ nbits > MinScalerBits /\ scal # {}
  <2>1. CollectBit(d, e, scal) = AdoptSeed(d, scalseed)
    BY <1>8 DEF CollectBit, scalseed
  <2>2. scalseed = turned
    BY <1>8 DEF scalseed
  <2> QED
    BY <1>3, <2>1, <2>2
<1>9. CASE e.reported # kUnknown /\ nbits # MAXBIT /\ ~(nbits > MinScalerBits /\ scal # {})
  <2>1. CollectBit(d, e, scal) = more
    BY <1>9 DEF CollectBit, seed
  <2> QED
    BY <1>5, <1>9, <2>1
<1> QED
  BY <1>6, <1>7, <1>8, <1>9

\* The prediction runs the ring on where a quartet begins.
LEMMA PredictRight ==
  ASSUME NEW d, Sound(d), Calibrated(d), NEW e \in EventSet,
         NEW ring \in Seeds, d.fRingSeed_reported = ring
  PROVE  BitsAre(Predict(d, e), IF PhaseOf(d) = 0 THEN RanBit30(ring) ELSE ring)
<1>1. d \in DecoderState
  BY DEF Sound
<1>2. CASE PhaseOf(d) # 0
  BY <1>1, <1>2 DEF Predict, BitsAre, DecoderState
<1>3. CASE PhaseOf(d) = 0
  <2> DEFINE a == AdvanceRings(d, 1)
             f == FromRings(a)
             r == [f EXCEPT !.fNBits = 0,
                     !.fActualHelicity = kUnknown, !.fPredictedHelicity = kUnknown,
                     !.fQuartetStartHelicity = kUnknown,
                     !.fQuartetStartPredictedHelicity = kUnknown]
  <2>1. Advance[1][ring] = RanBit30(ring)
    <3>1. Advance[0 + 1][ring] = RanBit30(Advance[0][ring])
      BY AdvanceDefined
    <3> QED
      BY <3>1, AdvanceDefined
  <2>2. f.fRingSeed_reported = RanBit30(ring) /\ DOMAIN f = DOMAIN d
    BY <1>1, <2>1 DEF FromRings, AdvanceRings, DecoderState
  <2>3. Predict(d, e) \in {f, r}
    BY <1>3 DEF Predict
  <2> HIDE DEF f
  <2>4. r.fNBits = 0
    BY <1>1, <2>2 DEF DecoderState
  <2>5. BitsAre(f, RanBit30(ring))
    BY <2>2 DEF BitsAre
  <2> HIDE DEF r
  <2>6. BitsAre(r, RanBit30(ring))
    BY <2>4 DEF BitsAre
  <2>7. BitsAre(Predict(d, e), RanBit30(ring))
    BY <2>3, <2>5, <2>6
  <2> QED
    BY <1>3, <2>7
<1> QED
  BY <1>2, <1>3

\* One, no or several quartets on, the bits that are kept are those of the ring.
LEMMA LoadHelicityRight ==
  ASSUME NEW d, Sound(d), d.fFoundQuartet, NEW e \in EventSet, NEW scal \in SUBSET Seeds,
         NEW ring \in Seeds, NEW n \in Nat, NEW now \in Seeds, now = Advance[n][ring],
         e.reported \in {kUnknown, InQuartet(PhaseOf(d), Sign(now[1]))},
         scal # {} => RanBit30(CHOOSE s \in scal : TRUE) = now,
         ~Calibrated(d) => BitsAre(d, ring) /\ d.fNQuartet - d.fNLastQuartet = n,
         Calibrated(d) => \E last \in Seeds :
                            /\ d.fRingSeed_reported = last
                            /\ now = IF PhaseOf(d) = 0 THEN RanBit30(last) ELSE last
  PROVE  BitsAre(LoadHelicity(d, e, scal), now)
<1> DEFINE q == [d EXCEPT !.fnQrt = PhaseOf(d)]
<1>1. Sound(q)
  <2>1. Members(d) /\ PhaseOf(d) \in Int
    BY StateHasMembers DEF Sound, Members, PhaseOf
  <2>2. SameShape(q, d)
    BY DEF SameShape
  <2>3. Members(q)
    BY <2>1 DEF Members, Sound, DecoderState
  <2>4. Unmoved(q, d)
    BY DEF Unmoved, Sound, DecoderState
  <2> HIDE DEF q
  <2> QED
    BY <2>2, <2>3, <2>4, UnmovedSound
<1>2. /\ q.fFoundQuartet /\ PhaseOf(q) = PhaseOf(d) /\ q.fNBits = d.fNBits
      /\ q.fNQuartet = d.fNQuartet /\ q.fNLastQuartet = d.fNLastQuartet
      /\ q.fRingSeed_reported = d.fRingSeed_reported
  BY DEF PhaseOf, Sound, DecoderState
<1>3. LoadHelicity(d, e, scal) =
        IF ~Calibrated(q) /\ q.fNQuartet - q.fNLastQuartet > 1 THEN [q EXCEPT !.fNBits = 0]
        ELSE IF ~q.fFoundQuartet THEN q
        ELSE IF Calibrated(q) THEN Predict(q, e)
        ELSE IF q.fNQuartet = q.fNLastQuartet THEN q
        ELSE CollectBit(q, e, scal)
  BY DEF LoadHelicity
<1> HIDE DEF q
<1>4. CASE Calibrated(q)
  <2>1. PICK last \in Seeds : /\ q.fRingSeed_reported = last
                              /\ now = IF PhaseOf(q) = 0 THEN RanBit30(last) ELSE last
    BY <1>2, <1>4 DEF Calibrated
  <2>2. BitsAre(Predict(q, e), now)
    BY <1>1, <1>4, <2>1, PredictRight
  <2> QED
    BY <1>2, <1>3, <1>4, <2>2
<1>5. CASE ~Calibrated(q)
  <2>1. BitsAre(q, ring) /\ q.fNQuartet - q.fNLastQuartet = n
    BY <1>2, <1>5 DEF Calibrated, BitsAre
  <2>2. q \in DecoderState /\ q.fNQuartet \in Int /\ q.fNLastQuartet \in Int
    BY <1>1, StateHasMembers DEF Sound, Members
  <2>3. CASE n > 1
    <3>1. LoadHelicity(d, e, scal) = [q EXCEPT !.fNBits = 0]
      BY <1>3, <1>5, <2>1, <2>3
    <3> QED
      BY <2>2, <3>1 DEF BitsAre, DecoderState
  <2>4. CASE n = 1
    <3>1. now = RanBit30(ring)
      <4>1. Advance[0 + 1][ring] = RanBit30(Advance[0][ring])
        BY AdvanceDefined
      <4> QED
        BY <2>4, <4>1, AdvanceDefined
    <3>2. BitsAre(CollectBit(q, e, scal), now)
      BY <1>1, <1>2, <1>5, <2>1, <3>1, CollectBitRight
    <3>3. q.fNQuartet # q.fNLastQuartet /\ ~(q.fNQuartet - q.fNLastQuartet > 1)
      BY <2>1, <2>2, <2>4
    <3> QED
      BY <1>2, <1>3, <1>5, <3>2, <3>3
  <2>5. CASE n = 0
    <3>1. now = ring
      BY <2>5, AdvanceDefined
    <3>2. q.fNQuartet = q.fNLastQuartet /\ ~(q.fNQuartet - q.fNLastQuartet > 1)
      BY <2>1, <2>2, <2>5
    <3>3. LoadHelicity(d, e, scal) = q
      BY <1>2, <1>3, <1>5, <3>2
    <3> QED
      BY <2>1, <3>1, <3>3
  <2> QED
    BY <2>3, <2>4, <2>5
<1> QED
  BY <1>4, <1>5

\* With a report, a decoder that has the quartets collects a bit for a further quartet.
LEMMA LoadHelicityCollects ==
  ASSUME NEW d, Sound(d), d.fFoundQuartet, ~Calibrated(d), NEW e \in EventSet,
         e.reported # kUnknown, NEW scal \in SUBSET Seeds,
         NEW n \in {0, 1}, d.fNQuartet - d.fNLastQuartet = n
  PROVE  LET r == LoadHelicity(d, e, scal)
         IN  Calibrated(r) \/ r.fNBits = d.fNBits + n
<1> DEFINE q == [d EXCEPT !.fnQrt = PhaseOf(d)]
<1>1. /\ q \in DecoderState /\ q.fNBits = d.fNBits /\ q.fNBits \in Nat
      /\ q.fFoundQuartet /\ ~Calibrated(q)
      /\ q.fNQuartet - q.fNLastQuartet = n /\ q.fNQuartet \in Int /\ q.fNLastQuartet \in Int
  <2>1. d \in DecoderState /\ PhaseOf(d) \in Int
    BY StateHasMembers DEF Sound, Members, PhaseOf
  <2> QED
    BY <2>1, RingAssumption DEF DecoderState, Calibrated
<1>2. LoadHelicity(d, e, scal) = IF q.fNQuartet = q.fNLastQuartet THEN q ELSE CollectBit(q, e, scal)
  BY <1>1 DEF LoadHelicity
<1> HIDE DEF q
<1>3. CASE n = 0
  <2>1. q.fNQuartet = q.fNLastQuartet /\ d.fNBits = d.fNBits + n
    BY <1>1, <1>3
  <2>2. LoadHelicity(d, e, scal) = q
    BY <1>2, <2>1
  <2> QED
    BY <1>1, <2>1, <2>2
<1>4. CASE n = 1
  <2> DEFINE r == CollectBit(q, e, scal)
  <2>1. ASSUME NEW seed PROVE AdoptSeed(q, seed).fNBits = MAXBIT
    BY <1>1 DEF AdoptSeed, DecoderState
  <2>2. ASSUME NEW nbits, NEW seed
        PROVE  [q EXCEPT !.fNBits = nbits, !.fRingSeed_reported = seed].fNBits = nbits
    BY <1>1 DEF DecoderState
  <2>3. r.fNBits \in {MAXBIT, q.fNBits + 1}
    BY <2>1, <2>2 DEF CollectBit
  <2>4. LoadHelicity(d, e, scal) = r
    BY <1>1, <1>2, <1>4
  <2> HIDE DEF r
  <2> QED
    BY <1>1, <1>4, <2>3, <2>4, RingAssumption DEF Calibrated
<1> QED
  BY <1>3, <1>4

\* What a window does to the counts of any decoder: a QRT phase that is kept has
\* its quartets counted, and a problem more only when the flag was out of phase.
Problems(r, d, wrong) ==
  r.fHaveQRT =>
    /\ r.fNQuartet = QuartetOf(r)
    /\ \/ r.fNQRTProblems = 0
       \/ /\ d.fHaveQRT /\ r.fFirstCycle = d.fFirstCycle
          /\ \/ r.fNQRTProblems = d.fNQRTProblems
             \/ wrong /\ r.fNQRTProblems = d.fNQRTProblems + 1

LEMMA TrackQuartetCounts ==
  ASSUME NEW d, Sound(d), NEW e \in EventSet
  PROVE  LET r == TrackQuartet(d, e)
         IN  r.fNCycle = d.fNCycle /\ Problems(r, d, ~(e.qrt <=> PhaseOf(d) = 0))
<1> DEFINE c == CountQuartet(d)
           wrong == ~(e.qrt <=> PhaseOf(d) = 0)
           Fine(r) == r.fNCycle = d.fNCycle /\ Problems(r, d, wrong)
<1>1. /\ Sound(c) /\ c \in DecoderState
      /\ c.fNCycle = d.fNCycle /\ c.fFirstCycle = d.fFirstCycle /\ c.fHaveQRT = d.fHaveQRT
      /\ c.fNQuartet = QuartetOf(c) /\ c.fNQRTProblems = d.fNQRTProblems
      /\ PhaseOf(c) = PhaseOf(d)
  <2>1. /\ c.fNCycle = d.fNCycle /\ c.fFirstCycle = d.fFirstCycle /\ c.fHaveQRT = d.fHaveQRT
        /\ c.fNQuartet = QuartetOf(d) /\ c.fNQRTProblems = d.fNQRTProblems
    BY DEF CountQuartet, Sound, DecoderState
  <2>2. Sound(c) /\ c \in DecoderState
    BY CountQuartetSound DEF Sound
  <2> HIDE DEF c
  <2> QED
    BY <2>1, <2>2 DEF PhaseOf, QuartetOf
<1> HIDE DEF c
<1>2. Fine(LockOnQRT(c))
  BY <1>1 DEF LockOnQRT, Problems, QuartetOf, DecoderState
<1>3. ASSUME NEW p, d.fHaveQRT,
             p = 0 \/ p = d.fNQRTProblems \/ (wrong /\ p = d.fNQRTProblems + 1)
      PROVE  Fine([c EXCEPT !.fNQRTProblems = p])
  <2> DEFINE r == [c EXCEPT !.fNQRTProblems = p]
  <2>1. /\ r.fNCycle = c.fNCycle /\ r.fFirstCycle = c.fFirstCycle
        /\ r.fNQuartet = c.fNQuartet /\ r.fNQRTProblems = p
    BY <1>1 DEF DecoderState
  <2> HIDE DEF r, wrong
  <2>2. Fine(r)
    BY <1>1, <1>3, <2>1 DEF Problems, QuartetOf
  <2> QED
    BY <2>2 DEF r
<1>4. d.fHaveQRT => Fine(c)
  BY <1>1 DEF Problems
<1> DEFINE away == [c EXCEPT !.fNQRTProblems = @ + 1, !.fHaveQRT = FALSE, !.fNBits = 0,
                             !.fNLastQuartet = c.fNQuartet]
<1>5. Fine(away)
  BY <1>1 DEF Problems, DecoderState
<1> HIDE DEF away
<1>6. CASE e.qrt
  <2>1. TrackQuartet(d, e) =
          IF ~d.fHaveQRT THEN LockOnQRT(c)
          ELSE IF PhaseOf(c) = 0 THEN [c EXCEPT !.fNQRTProblems = 0]
          ELSE IF c.fNQRTProblems + 1 > MaxQRTProblems THEN LockOnQRT(c)
          ELSE [c EXCEPT !.fNQRTProblems = c.fNQRTProblems + 1]
    BY <1>6 DEF TrackQuartet, TrackQRT, c
  <2>2. CASE ~d.fHaveQRT
    BY <1>2, <2>1, <2>2
  <2>3. CASE d.fHaveQRT /\ PhaseOf(c) = 0
    BY <1>3, <2>1, <2>3
  <2>4. CASE d.fHaveQRT /\ PhaseOf(c) # 0
    <3>1. wrong
      BY <1>1, <1>6, <2>4
    <3>2. PICK p : p = c.fNQRTProblems + 1
      OBVIOUS
    <3> HIDE DEF Fine, wrong
    <3>3. Fine([c EXCEPT !.fNQRTProblems = p])
      BY <1>1, <1>3, <2>4, <3>1, <3>2
    <3>4. Fine(TrackQuartet(d, e))
      BY <1>2, <2>1, <2>4, <3>2, <3>3
    <3> QED
      BY <3>4 DEF Fine, wrong
  <2> QED
    BY <2>2, <2>3, <2>4
<1>7. CASE ~e.qrt /\ d.fHaveQRT
  <2>1. TrackQuartet(d, e) =
          IF PhaseOf(c) # 0 THEN c
          ELSE IF c.fNQRTProblems + 1 > MaxQRTProblems THEN away
          ELSE [c EXCEPT !.fNQRTProblems = c.fNQRTProblems + 1]
    BY <1>7 DEF TrackQuartet, TrackWithoutQRT, c, away
  <2>2. CASE PhaseOf(c) # 0
    BY <1>4, <1>7, <2>1, <2>2
  <2>3. CASE PhaseOf(c) = 0
    <3>1. wrong
      BY <1>1, <1>7, <2>3
    <3>2. PICK p : p = c.fNQRTProblems + 1
      OBVIOUS
    <3> HIDE DEF Fine, wrong
    <3>3. Fine([c EXCEPT !.fNQRTProblems = p])
      BY <1>1, <1>3, <1>7, <3>1, <3>2
    <3>4. Fine(TrackQuartet(d, e))
      BY <1>5, <2>1, <2>3, <3>2, <3>3
    <3> QED
      BY <3>4 DEF Fine, wrong
  <2> QED
    BY <2>2, <2>3
<1>8. CASE ~e.qrt /\ ~d.fHaveQRT
  <2>1. TrackQuartet(d, e) = SearchQuartet(d)
    BY <1>8 DEF TrackQuartet
  <2>2. SearchQuartet(d).fNCycle = d.fNCycle /\ ~SearchQuartet(d).fHaveQRT
    BY <1>1, <1>8 DEF SearchQuartet, c, Sound, DecoderState
  <2> QED
    BY <2>1, <2>2 DEF Problems
<1> QED
  BY <1>6, <1>7, <1>8

\* The cycle count of NewCycle, and what it does to the counts.
LEMMA NewCycleCounts ==
  ASSUME NEW d, Sound(d), NEW e \in EventSet, NEW scal \in SUBSET Seeds, NEW missed \in Nat
  PROVE  LET r == NewCycle(d, e, scal, missed)
         IN  /\ r.fNCycle = d.fNCycle + (IF missed = 0 THEN 1 ELSE missed)
             /\ ~r.fIsNewCycle
             /\ Problems(r, d, ~(e.qrt <=>
                  ((d.fNCycle + (IF missed = 0 THEN 1 ELSE missed)) - d.fFirstCycle) % 4 = 0))
<1> DEFINE skip == SkipMissed(d, e, missed)
           counted == CountCycle(skip, e)
           tracked == TrackQuartet(counted, e)
           blank == [tracked EXCEPT !.fActualHelicity = kUnknown]
           loaded == LoadHelicity(blank, e, scal)
           r == [loaded EXCEPT !.fLastMPSTime = @ + missed * Period, !.fIsNewCycle = FALSE]
           n == d.fNCycle + (IF missed = 0 THEN 1 ELSE missed)
           wrong == ~(e.qrt <=> (n - d.fFirstCycle) % 4 = 0)
<1>1. /\ Sound(skip) /\ skip.fNCycle + 1 = n
      /\ skip.fFirstCycle = d.fFirstCycle /\ skip.fHaveQRT = d.fHaveQRT
      /\ skip.fNQRTProblems = d.fNQRTProblems
  <2>1. CASE missed = 0
    BY <2>1 DEF SkipMissed
  <2>2. CASE missed # 0
    <3>1. d.fNCycle \in Nat
      BY StateHasMembers DEF Sound, Members
    <3>2. /\ Sound(skip) /\ skip.fNCycle = d.fNCycle + missed - 1
          /\ skip.fFirstCycle = d.fFirstCycle /\ skip.fHaveQRT = d.fHaveQRT
          /\ skip.fNQRTProblems = d.fNQRTProblems
      BY <2>2, SkipMissedCounts, SkipMissedSound
    <3> HIDE DEF skip
    <3> QED
      BY <2>2, <3>1, <3>2
  <2> QED
    BY <2>1, <2>2
<1> HIDE DEF skip, n
<1>2. /\ Sound(counted) /\ counted.fNCycle = n /\ counted.fFirstCycle = d.fFirstCycle
      /\ counted.fHaveQRT = d.fHaveQRT /\ counted.fNQRTProblems = d.fNQRTProblems
  <2>1. Sound(counted)
    BY <1>1, CountCycleSound
  <2>2. /\ counted.fNCycle = n /\ counted.fFirstCycle = d.fFirstCycle
        /\ counted.fHaveQRT = d.fHaveQRT /\ counted.fNQRTProblems = d.fNQRTProblems
    BY <1>1 DEF CountCycle, Sound, DecoderState
  <2> QED
    BY <2>1, <2>2
<1> HIDE DEF counted
<1>3. Sound(tracked) /\ tracked.fNCycle = n /\ Problems(tracked, d, wrong)
  BY <1>2, TrackQuartetSound, TrackQuartetCounts DEF Problems, PhaseOf
<1> HIDE DEF tracked, wrong
<1>4. Members(blank) /\ SameShape(blank, tracked) /\ Unmoved(blank, tracked)
  BY <1>3, StateHasMembers, HelicityTypes
  DEF Members, SameShape, Unmoved, Sound, DecoderState
<1>5. Sound(blank) /\ Leaves(blank, tracked) /\ blank.fActualHelicity = kUnknown
  <2>1. Leaves(blank, tracked) /\ blank.fActualHelicity = kUnknown
    BY <1>3 DEF Leaves, Sound, DecoderState
  <2> HIDE DEF blank
  <2> QED
    BY <1>3, <1>4, <2>1, UnmovedSound
<1> HIDE DEF blank
<1>6. Sound(loaded) /\ Leaves(loaded, tracked)
  BY <1>5, LoadHelicitySound, LoadHelicityLeaves DEF Leaves
<1> HIDE DEF loaded
<1>7. Leaves(r, tracked) /\ ~r.fIsNewCycle
  BY <1>6 DEF Leaves, Sound, DecoderState
<1>8. NewCycle(d, e, scal, missed) = r
  BY DEF NewCycle, skip, counted, tracked, blank, loaded
<1> HIDE DEF r
<1>9. r.fNCycle = n /\ ~r.fIsNewCycle /\ Problems(r, d, wrong)
  BY <1>3, <1>7 DEF Leaves, Problems, QuartetOf
<1> QED
  BY <1>8, <1>9 DEF n, wrong, Problems

\* A new cycle loads the helicity of a decoder with the next phase, the last bits, and,
\* if it is calibrated, rings in the window before.
Loaded(r, blank, e, scal, missed) ==
  r = [LoadHelicity(blank, e, scal) EXCEPT
         !.fLastMPSTime = @ + missed * Period, !.fIsNewCycle = FALSE]

LEMMA NewCycleLoads ==
  ASSUME NEW d, Sound(d), Marked(d), d.fFoundQuartet, d.fHaveQRT, d.fNQuartet = QuartetOf(d),
         NEW y \in Int, PhaseOf(d) = y % 4, NEW missed \in Nat \ {0},
         NEW ring \in Seeds, BitsAre(d, ring), NEW now \in Seeds,
         now = Advance[(y + missed) \div 4 - y \div 4][ring],
         NEW e \in EventSet, NEW scal \in SUBSET Seeds,
         (e.qrt <=> (y + missed) % 4 = 0) \/ d.fNQRTProblems + 1 <= MaxQRTProblems
  PROVE  \E blank \in DecoderState :
           /\ Loaded(NewCycle(d, e, scal, missed), blank, e, scal, missed)
           /\ Sound(blank) /\ Marked(blank) /\ blank.fHaveQRT /\ blank.fFoundQuartet
           /\ PhaseOf(blank) = (y + missed) % 4 /\ blank.fActualHelicity = kUnknown
           /\ blank.fNBits = d.fNBits
           /\ ~Calibrated(blank) =>
                /\ BitsAre(blank, ring)
                /\ blank.fNQuartet - blank.fNLastQuartet = (y + missed) \div 4 - y \div 4
           /\ Calibrated(blank) => \E last \in Seeds :
                /\ blank.fRingSeed_reported = last
                /\ now = IF PhaseOf(blank) = 0 THEN RanBit30(last) ELSE last
<1> DEFINE skip == SkipMissed(d, e, missed)
           counted == CountCycle(skip, e)
           tracked == TrackQuartet(counted, e)
           blank == [tracked EXCEPT !.fActualHelicity = kUnknown]
           n == (y + missed) \div 4 - y \div 4
           before == (y + (missed - 1)) \div 4 - y \div 4
<1>1. PICK x \in Int : x = d.fNCycle - d.fFirstCycle /\ x % 4 = y % 4
  BY StateHasMembers DEF Sound, Members, PhaseOf
<1>2. d.fNCycle \in Nat /\ d.fFirstCycle \in Int /\ d.fNBits \in 0 .. MAXBIT
      /\ d.fRingSeed_reported \in Seeds
  BY StateHasMembers DEF Sound, Members
<1>3. /\ Sound(skip) /\ Marked(skip) /\ skip.fNCycle = d.fNCycle + missed - 1
      /\ skip.fFirstCycle = d.fFirstCycle /\ skip.fHaveQRT = d.fHaveQRT
      /\ skip.fFoundQuartet = d.fFoundQuartet
      /\ skip.fNQRTProblems = d.fNQRTProblems /\ skip.fNQuartet = d.fNQuartet
      /\ skip.fNBits = d.fNBits
      /\ skip.fRingSeed_reported =
           IF missed > 1 /\ Calibrated(d)
           THEN Advance[QuartetOf(skip) - QuartetOf(d)][d.fRingSeed_reported]
           ELSE d.fRingSeed_reported
  <2>1. missed \in Nat /\ missed # 0
    OBVIOUS
  <2>2. Sound(skip) /\ Marked(skip)
    BY <2>1, SkipMissedSound, SkipMissedMarked
  <2>3. /\ skip.fNCycle = d.fNCycle + missed - 1
        /\ skip.fFirstCycle = d.fFirstCycle /\ skip.fHaveQRT = d.fHaveQRT
        /\ skip.fFoundQuartet = d.fFoundQuartet
        /\ skip.fNQRTProblems = d.fNQRTProblems /\ skip.fNQuartet = d.fNQuartet
        /\ skip.fNBits = d.fNBits
        /\ skip.fRingSeed_reported =
             IF missed > 1 /\ Calibrated(d)
             THEN Advance[QuartetOf(skip) - QuartetOf(d)][d.fRingSeed_reported]
             ELSE d.fRingSeed_reported
    BY <2>1, SkipMissedCounts, Zenon
  <2> QED
    BY <2>2, <2>3
<1> HIDE DEF skip
<1>4. QuartetOf(skip) - QuartetOf(d) = before /\ before \in Nat
  <2>1. skip.fNCycle - skip.fFirstCycle = x + (missed - 1)
    BY <1>1, <1>2, <1>3
  <2>2. PICK k \in Int : k = missed - 1
    OBVIOUS
  <2>3. (x + k) \div 4 - x \div 4 = (y + k) \div 4 - y \div 4
    BY <1>1, QuartetsAgree
  <2>4. before \in Nat
    OBVIOUS
  <2> QED
    BY <1>1, <2>1, <2>2, <2>3, <2>4 DEF QuartetOf
<1>5. Calibrated(d) => d.fRingSeed_reported = ring /\ skip.fRingSeed_reported = Advance[before][ring]
  <2> SUFFICES ASSUME Calibrated(d)
               PROVE  d.fRingSeed_reported = ring /\ skip.fRingSeed_reported = Advance[before][ring]
    OBVIOUS
  <2>1. d.fNBits = MAXBIT
    BY <1>2, RingAssumption DEF Calibrated
  <2>2. \A i \in 1 .. MAXBIT : d.fRingSeed_reported[i] = ring[i]
    BY <2>1 DEF BitsAre
  <2>3. d.fRingSeed_reported = ring
    <3>1. PICK s \in Seeds : s = d.fRingSeed_reported
      BY <1>2
    <3> QED
      BY <2>2, <3>1, SeedsEqual
  <2>4. missed = 1 => before = 0 /\ Advance[0][ring] = ring
    BY AdvanceDefined
  <2> QED
    BY <1>3, <1>4, <2>3, <2>4
<1>6. n = before + (IF (y + missed) % 4 = 0 THEN 1 ELSE 0) /\ n \in Nat
  <2>1. PICK k \in Int : k = y + (missed - 1) /\ k + 1 = y + missed
    OBVIOUS
  <2> QED
    BY <1>4, <2>1, QuartetBegins
<1>7. /\ Sound(counted) /\ Marked(counted) /\ counted.fNCycle = d.fNCycle + missed
      /\ counted.fFirstCycle = d.fFirstCycle /\ counted.fHaveQRT /\ counted.fFoundQuartet
      /\ counted.fNQRTProblems = d.fNQRTProblems /\ counted.fNQuartet = d.fNQuartet
      /\ counted.fNBits = d.fNBits /\ counted.fRingSeed_reported = skip.fRingSeed_reported
  <2>1. skip.fNCycle + 1 = d.fNCycle + missed
    BY <1>2, <1>3
  <2>2. Sound(counted) /\ Marked(counted)
    <3>1. Marks(counted, skip)
      BY <1>3 DEF CountCycle, Marks, Sound, DecoderState
    <3> HIDE DEF counted
    <3>2. Marked(counted)
      BY <1>3, <3>1, MarksKeep
    <3> QED
      BY <1>3, <3>2, CountCycleSound DEF counted
  <2>3. /\ counted.fNCycle = d.fNCycle + missed
        /\ counted.fFirstCycle = d.fFirstCycle /\ counted.fHaveQRT /\ counted.fFoundQuartet
        /\ counted.fNQRTProblems = d.fNQRTProblems /\ counted.fNQuartet = d.fNQuartet
        /\ counted.fNBits = d.fNBits /\ counted.fRingSeed_reported = skip.fRingSeed_reported
    BY <1>3, <2>1 DEF CountCycle, Sound, DecoderState
  <2> QED
    BY <2>2, <2>3
<1> HIDE DEF counted
<1>8. PhaseOf(counted) = (y + missed) % 4 /\ QuartetOf(counted) - QuartetOf(d) = n
  <2>1. counted.fNCycle - counted.fFirstCycle = x + missed
    BY <1>1, <1>2, <1>7
  <2> QED
    BY <1>1, <2>1, QuartetsAgree DEF PhaseOf, QuartetOf
<1> HIDE DEF before, n
<1>9. /\ Sound(tracked) /\ Marked(tracked) /\ tracked.fHaveQRT /\ tracked.fFoundQuartet
      /\ PhaseOf(tracked) = (y + missed) % 4
      /\ tracked.fNQuartet - tracked.fNLastQuartet = n
      /\ tracked.fNBits = d.fNBits /\ tracked.fRingSeed_reported = skip.fRingSeed_reported
  <2>1. (e.qrt <=> PhaseOf(counted) = 0) \/ counted.fNQRTProblems + 1 <= MaxQRTProblems
    BY <1>7, <1>8
  <2>2. Sound(tracked) /\ Marked(tracked)
    BY <1>7, TrackQuartetSound, TrackQuartetMarks, MarksKeep
  <2> QED
    BY <1>7, <1>8, <2>1, <2>2, LockIsKept DEF PhaseOf
<1> HIDE DEF tracked
<1>10. Members(blank) /\ SameShape(blank, tracked) /\ Unmoved(blank, tracked)
  BY <1>9, StateHasMembers, HelicityTypes
  DEF Members, SameShape, Unmoved, Sound, DecoderState
<1>11. /\ Sound(blank) /\ Marked(blank) /\ blank.fHaveQRT /\ blank.fFoundQuartet
       /\ PhaseOf(blank) = (y + missed) % 4
       /\ blank.fNQuartet - blank.fNLastQuartet = n
       /\ blank.fNBits = d.fNBits /\ blank.fRingSeed_reported = skip.fRingSeed_reported
       /\ blank.fActualHelicity = kUnknown
  <2>1. /\ blank.fActualHelicity = kUnknown
        /\ Leaves(blank, tracked) /\ blank.fNLastQuartet = tracked.fNLastQuartet
        /\ blank.fNBits = tracked.fNBits
        /\ blank.fRingSeed_reported = tracked.fRingSeed_reported
        /\ Marks(blank, tracked)
    BY <1>9 DEF Leaves, Marks, Sound, DecoderState
  <2> HIDE DEF blank
  <2> QED
    BY <1>9, <1>10, <2>1, UnmovedSound, MarksKeep DEF Leaves, PhaseOf
<1> HIDE DEF blank
<1>12. ~Calibrated(blank) => BitsAre(blank, ring)
  BY <1>3, <1>11 DEF BitsAre, Calibrated
<1>13. Calibrated(blank) => \E last \in Seeds :
         /\ blank.fRingSeed_reported = last
         /\ now = IF PhaseOf(blank) = 0 THEN RanBit30(last) ELSE last
  <2> SUFFICES ASSUME Calibrated(blank)
               PROVE  \E last \in Seeds :
                        /\ blank.fRingSeed_reported = last
                        /\ now = IF PhaseOf(blank) = 0 THEN RanBit30(last) ELSE last
    OBVIOUS
  <2>1. PICK last \in Seeds : last = Advance[before][ring]
    BY <1>4, AdvanceDefined
  <2>2. blank.fRingSeed_reported = last
    BY <1>5, <1>11, <2>1 DEF Calibrated
  <2>3. now = Advance[n][ring]
    BY DEF n
  <2>4. (y + missed) % 4 = 0 => now = RanBit30(last)
    BY <1>4, <1>6, <2>1, <2>3, AdvanceDefined
  <2>5. (y + missed) % 4 # 0 => now = last
    BY <1>4, <1>6, <2>1, <2>3
  <2> QED
    BY <1>11, <2>2, <2>4, <2>5
<1>14. Loaded(NewCycle(d, e, scal, missed), blank, e, scal, missed)
  BY DEF NewCycle, Loaded, skip, counted, tracked, blank
<1>15. blank.fNQuartet - blank.fNLastQuartet = (y + missed) \div 4 - y \div 4
  BY <1>11 DEF n
<1>16. blank \in DecoderState
  BY <1>11 DEF Sound
<1> QED
  BY <1>11, <1>12, <1>13, <1>14, <1>15, <1>16

LEMMA LoadedFrom ==
  ASSUME NEW l \in DecoderState, NEW missed \in Nat, NEW r,
         r = [l EXCEPT !.fLastMPSTime = @ + missed * Period, !.fIsNewCycle = FALSE]
  PROVE  /\ Leaves(r, l) /\ r.fNBits = l.fNBits /\ r.fRingSeed_reported = l.fRingSeed_reported
         /\ r.fActualHelicity = l.fActualHelicity /\ r.fQuartet = l.fQuartet
BY DEF Leaves, DecoderState

\* A decoder that is right stays so over a window: v windows on from phase y, the
\* ring of the beam has moved on by the quartets crossed.
LEMMA NewCycleRight ==
  ASSUME NEW d, Sound(d), Marked(d), d.fFoundQuartet, d.fHaveQRT, d.fNQuartet = QuartetOf(d),
         NEW y \in Int, PhaseOf(d) = y % 4, NEW missed \in Nat \ {0},
         NEW ring \in Seeds, BitsAre(d, ring), NEW now \in Seeds,
         now = Advance[(y + missed) \div 4 - y \div 4][ring],
         NEW e \in EventSet,
         e.reported \in {kUnknown, InQuartet((y + missed) % 4, Sign(now[1]))},
         (e.qrt <=> (y + missed) % 4 = 0) \/ d.fNQRTProblems + 1 <= MaxQRTProblems,
         NEW scal \in SUBSET Seeds,
         scal # {} => RanBit30(CHOOSE s \in scal : TRUE) = now
  PROVE  LockedAt(NewCycle(d, e, scal, missed), (y + missed) % 4, now)
<1> DEFINE r == NewCycle(d, e, scal, missed)
<1>1. PICK blank \in DecoderState :
        /\ Loaded(r, blank, e, scal, missed)
        /\ Sound(blank) /\ blank.fHaveQRT /\ blank.fFoundQuartet
        /\ PhaseOf(blank) = (y + missed) % 4 /\ blank.fActualHelicity = kUnknown
        /\ ~Calibrated(blank) =>
             /\ BitsAre(blank, ring)
             /\ blank.fNQuartet - blank.fNLastQuartet = (y + missed) \div 4 - y \div 4
        /\ Calibrated(blank) => \E last \in Seeds :
             /\ blank.fRingSeed_reported = last
             /\ now = IF PhaseOf(blank) = 0 THEN RanBit30(last) ELSE last
  BY NewCycleLoads
<1> HIDE DEF r
<1>2. PICK n \in Nat : n = (y + missed) \div 4 - y \div 4
  BY missed \in Nat
<1> DEFINE loaded == LoadHelicity(blank, e, scal)
<1>3. /\ Sound(loaded) /\ BitsAre(loaded, now) /\ loaded.fHaveQRT /\ loaded.fFoundQuartet
      /\ PhaseOf(loaded) = (y + missed) % 4
  <2>1. now = Advance[n][ring]
    BY <1>2
  <2>2. ~Calibrated(blank) => BitsAre(blank, ring) /\ blank.fNQuartet - blank.fNLastQuartet = n
    BY <1>1, <1>2
  <2>3. e.reported \in {kUnknown, InQuartet(PhaseOf(blank), Sign(now[1]))}
    BY <1>1
  <2>4. Sound(blank) /\ blank.fFoundQuartet /\ (Calibrated(blank) => \E last \in Seeds :
             /\ blank.fRingSeed_reported = last
             /\ now = IF PhaseOf(blank) = 0 THEN RanBit30(last) ELSE last)
    BY <1>1
  <2>5. BitsAre(loaded, now)
    BY <2>1, <2>2, <2>3, <2>4, LoadHelicityRight
  <2>6. Sound(loaded) /\ Leaves(loaded, blank)
    <3>0. Sound(blank) /\ blank.fActualHelicity = kUnknown
      BY <1>1
    <3>1. Sound(loaded)
      BY <3>0, LoadHelicitySound
    <3>2. Leaves(loaded, blank)
      BY <3>0, LoadHelicityLeaves
    <3> QED
      BY <3>1, <3>2
  <2>7. PhaseOf(loaded) = PhaseOf(blank)
    BY <2>6 DEF Leaves, PhaseOf
  <2> HIDE DEF loaded
  <2> QED
    BY <1>1, <2>5, <2>6, <2>7 DEF Leaves
<1>4. r = [loaded EXCEPT !.fLastMPSTime = @ + missed * Period, !.fIsNewCycle = FALSE]
  BY <1>1 DEF Loaded
<1> HIDE DEF loaded
<1>5. /\ Leaves(r, loaded) /\ r.fNBits = loaded.fNBits
      /\ r.fRingSeed_reported = loaded.fRingSeed_reported
  <2>1. loaded \in DecoderState /\ missed \in Nat
    BY <1>3 DEF Sound
  <2> QED
    BY <1>4, <2>1 DEF Leaves, DecoderState
<1>6. r.fFoundQuartet /\ r.fHaveQRT /\ PhaseOf(r) = (y + missed) % 4 /\ BitsAre(r, now)
  BY <1>3, <1>5 DEF Leaves, PhaseOf, BitsAre
<1> QED
  BY <1>6 DEF r, LockedAt

---------------------------------------------------------------------------
(* What Decode does to the counts, in delayed mode.                        *)

\* The members that only a new cycle, or the first event, changes.
Standing(r, d) ==
  /\ r.fNCycle = d.fNCycle /\ r.fFirstCycle = d.fFirstCycle
  /\ r.fHaveQRT = d.fHaveQRT /\ r.fFoundQuartet = d.fFoundQuartet
  /\ r.fNQRTProblems = d.fNQRTProblems
  /\ r.fNQuartet = d.fNQuartet /\ r.fNLastQuartet = d.fNLastQuartet
  /\ r.fNBits = d.fNBits /\ r.fRingSeed_reported = d.fRingSeed_reported
  /\ r.fQuartet = d.fQuartet
  /\ r.fFirstEvProcessed = d.fFirstEvProcessed /\ r.fFoundMPS = d.fFoundMPS
  /\ r.fIsNewCycle = d.fIsNewCycle

\* Cycles are only counted once the MPS was found, each after the MPS of its window;
\* a QRT phase has its quartets counted, and as long as it is right, only wrong flags
\* are problems.
Counted(d, v, tk, wrong) ==
  /\ d.fFoundQuartet \/ d.fHaveQRT => d.fNCycle > 0
  /\ d.fNCycle > 0 =>
       /\ d.fFirstEvProcessed /\ d.fFoundMPS /\ ~d.fIsNewCycle
       /\ MPSWindow(d, v) => tk >= MPSTicks
  /\ d.fHaveQRT => d.fNQuartet = QuartetOf(d)
  /\ HaveQRTSignal /\ d.fHaveQRT
       /\ PhaseOf(d) = (d.fLastMPSTime \div Period + phase0) % 4 => d.fNQRTProblems <= wrong

\* Nothing was counted yet; or all stands, the clock in its window; or a new cycle is
\* counted, in a later window if any was counted before.
Waits(r, d) ==
  /\ r.fNCycle = 0 /\ ~r.fFoundQuartet /\ ~r.fHaveQRT
  /\ r.fNBits \in {0, d.fNBits} /\ r.fQuartet = d.fQuartet

Stays(u) == Standing(dec', dec) /\ \E w \in 0 .. u : MPSWindow(dec, w) /\ MPSWindow(dec', w)

Counts(u, v, tk, e, scal) ==
  /\ tk >= MPSTicks /\ MPSWindow(dec', v) /\ dec.fFirstEvProcessed /\ dec.fFoundMPS
  /\ \E w \in 0 .. u, seen \in DecoderState :
       /\ MPSWindow(dec, w) /\ Sound(seen) /\ Marked(seen)
       /\ Standing(seen, dec) /\ Kept(seen, dec)
       /\ dec' = NewCycle(seen, e, scal, v - w)
       /\ dec.fNCycle > 0 => w < v

\* The missed periods added, the clock stands in the MPS of the event's window.
LEMMA ClockCatchesUp ==
  ASSUME NEW d, NEW r, NEW w \in Nat, NEW v \in Nat, w <= v, MPSWindow(d, w),
         r.fLastMPSTime = d.fLastMPSTime + (v - w) * Period
  PROVE  MPSWindow(r, v)
<1>1. PICK m \in 0 .. MPSTicks - 1 : d.fLastMPSTime = Period * w + m
  BY DEF MPSWindow
<1>2. PICK missed \in Nat : missed = v - w
  OBVIOUS
<1>3. Period * v = Period * w + missed * Period
  BY <1>2, DecoderAssumption
<1>4. Period * w \in Int /\ missed * Period \in Int
  BY <1>2, DecoderAssumption
<1>5. r.fLastMPSTime = Period * v + m
  BY <1>1, <1>2, <1>3, <1>4, DecoderAssumption
<1> QED
  BY <1>5 DEF MPSWindow

LEMMA DecodeOutcomes ==
  ASSUME MPSIsShort, HelDelay # 0, Safe(dec), NEW u \in Nat, NEW v \in Nat, u <= v,
         NEW t \in Int, TellsTruth(dec, u, t), NEW f, Counted(dec, u, t, f),
         NEW tk \in 0 .. Period - 1, u = v => t <= tk,
         NEW e, EventAt(e, v, tk), NEW skipped, NEW scal \in SUBSET Seeds,
         Decode(e, skipped, scal)
  PROVE  \/ dec.fNCycle = 0 /\ Waits(dec', dec)
         \/ dec.fNCycle > 0 /\ Stays(u)
         \/ Counts(u, v, tk, e, scal)
<1>1. dec \in DecoderState /\ Sound(dec) /\ dec.fNCycle \in Nat
  BY StateHasMembers DEF Safe, Sound, Members
<1>2. ASSUME Standing(dec', dec), dec'.fLastMPSTime = dec.fLastMPSTime
      PROVE  \/ dec.fNCycle = 0 /\ Waits(dec', dec)
             \/ dec.fNCycle > 0 /\ Stays(u)
  <2>1. CASE dec.fNCycle = 0
    BY <1>2, <2>1 DEF Waits, Standing, Counted
  <2>2. CASE dec.fNCycle > 0
    <3>1. PICK w \in 0 .. u : MPSWindow(dec, w)
      BY <2>2 DEF TellsTruth, Counted
    <3> QED
      BY <1>2, <2>2, <3>1 DEF Stays, MPSWindow
  <2> QED
    BY <1>1, <2>1, <2>2
<1>3. CASE DecodeMissedEvents(skipped) \/ DecodeDisabled \/ DecodeBeforeMPS(e, skipped)
  <2>1. Standing(dec', dec) /\ dec'.fLastMPSTime = dec.fLastMPSTime
    BY <1>1, <1>3
    DEF DecodeMissedEvents, DecodeDisabled, DecodeBeforeMPS, Standing, DecoderState
  <2> QED
    BY <1>2, <2>1
<1>4. CASE DecodeFirst(e)
  <2>1. /\ dec'.fNCycle = 0 /\ ~dec'.fFoundQuartet /\ dec'.fHaveQRT = dec.fHaveQRT
        /\ dec'.fNBits = 0 /\ dec'.fQuartet = dec.fQuartet
    BY <1>1, <1>4 DEF DecodeFirst, DecoderState
  <2>2. ~(dec.fNCycle > 0)
    BY <1>4 DEF DecodeFirst, Counted
  <2> QED
    BY <1>1, <2>1, <2>2 DEF Waits, Counted
<1>5. CASE DecodeMPS(e, skipped)
  <2> DEFINE Alike(r) ==
        /\ r.fNCycle = dec.fNCycle /\ r.fFirstCycle = dec.fFirstCycle
        /\ r.fHaveQRT = dec.fHaveQRT /\ r.fFoundQuartet = dec.fFoundQuartet
        /\ r.fNQRTProblems = dec.fNQRTProblems
        /\ r.fNQuartet = dec.fNQuartet /\ r.fNLastQuartet = dec.fNLastQuartet
        /\ r.fNBits = dec.fNBits /\ r.fRingSeed_reported = dec.fRingSeed_reported
        /\ r.fFirstEvProcessed = dec.fFirstEvProcessed /\ r.fQuartet = dec.fQuartet
  <2>1. Alike(dec') /\ (dec.fFoundMPS => dec'.fFoundMPS = dec.fFoundMPS)
    BY <1>1, <1>5 DEF DecodeMPS, DecoderState
  <2>2. CASE dec.fNCycle = 0
    BY <2>1, <2>2 DEF Waits, Counted
  <2>3. CASE dec.fNCycle > 0
    <3>1. dec.fFoundMPS
      BY <2>3 DEF Counted
    <3>2. PICK w \in 0 .. u : MPSWindow(dec, w)
      BY <3>1 DEF TellsTruth
    <3>3. w # v
      <4>1. w = v => u = v
        BY <3>2
      <4>2. u = v /\ MPSWindow(dec, u) => t >= MPSTicks /\ t <= tk
        BY <2>3 DEF Counted
      <4>3. tk < MPSTicks
        BY <1>5 DEF DecodeMPS, EventAt
      <4> QED
        BY <3>2, <4>1, <4>2, <4>3, DecoderAssumption
    <3>4. w \in Nat /\ w <= v
      BY <3>2
    <3>5. MPSWindow(dec', w) /\ dec'.fIsNewCycle = dec.fIsNewCycle
      BY <1>1, <1>5, <3>1, <3>2, <3>3, <3>4, DecodeMPSKeepsWindow
    <3>6. Standing(dec', dec)
      BY <2>1, <3>1, <3>5 DEF Standing
    <3> QED
      BY <2>3, <3>2, <3>5, <3>6 DEF Stays
  <2> QED
    BY <1>1, <2>2, <2>3
<1>6. CASE DecodeSameCycle(e, skipped)
  <2>1. Standing(dec', dec) /\ dec'.fLastMPSTime = dec.fLastMPSTime
    BY <1>1, <1>6 DEF DecodeSameCycle, FromRings, Standing, DecoderState
  <2> QED
    BY <1>2, <2>1
<1>7. CASE DecodeNewCycle(e, skipped, scal)
  <2> DEFINE missed == PeriodsMissed(dec, e)
             seen == IF missed = 0 /\ Calibrated(dec) THEN FromRings(dec) ELSE dec
  <2>1. PICK w \in 0 .. u : MPSWindow(dec, w)
    BY <1>7 DEF TellsTruth, DecodeNewCycle
  <2>2. tk >= MPSTicks /\ e.time = v * Period + tk /\ e \in EventSet
    BY <1>7, DecoderAssumption DEF EventAt, DecodeNewCycle
  <2>3. missed = v - w
    BY <2>1, <2>2, PeriodsAreCounted
  <2>4. Sound(seen) /\ Marked(seen) /\ Standing(seen, dec) /\ Kept(seen, dec)
    <3>1. Sound(FromRings(dec)) /\ Marked(FromRings(dec)) /\ Marked(dec)
      BY <1>1, FromRingsSound, FromRingsAnswers DEF TellsTruth
    <3>2. Standing(FromRings(dec), dec) /\ Kept(FromRings(dec), dec)
      BY <1>1 DEF FromRings, Standing, Kept, DecoderState
    <3>3. Standing(dec, dec) /\ Kept(dec, dec)
      BY DEF Standing, Kept
    <3> QED
      BY <1>1, <3>1, <3>2, <3>3
  <2>5. /\ dec' = NewCycle(seen, e, scal, missed) /\ (missed > 0 \/ dec.fIsNewCycle)
        /\ dec.fFirstEvProcessed /\ dec.fFoundMPS
    BY <1>7 DEF DecodeNewCycle, Running
  <2> HIDE DEF missed, seen
  <2>6. dec.fNCycle > 0 => w < v
    BY <2>1, <2>3, <2>5 DEF Counted
  <2>7. MPSWindow(dec', v)
    <3>1. missed \in Nat
      BY <2>1, <2>3
    <3>2. dec'.fLastMPSTime = dec.fLastMPSTime + missed * Period
      BY <2>2, <2>4, <2>5, <3>1, NewCycleKeeps DEF Kept
    <3> QED
      BY <2>1, <2>3, <3>2, ClockCatchesUp
  <2> QED
    BY <2>1, <2>2, <2>3, <2>4, <2>5, <2>6, <2>7 DEF Counts, Sound
<1> QED
  BY <1>3, <1>4, <1>5, <1>6, <1>7 DEF Decode, DecodeInTime

---------------------------------------------------------------------------
(* The counts are kept.                                                    *)

LEMMA WindowOfMPS ==
  ASSUME NEW d, NEW w \in Int, MPSWindow(d, w)
  PROVE  d.fLastMPSTime \div Period = w
<1>1. PICK m \in 0 .. MPSTicks - 1 : d.fLastMPSTime = Period * w + m
  BY DEF MPSWindow
<1> QED
  BY <1>1, DivUnique, DecoderAssumption

\* The event of an accelerator at window v and its tick, and what is wrong with it.
LEMMA DecodeKeepsCounts ==
  ASSUME MPSIsShort, HelDelay # 0, BeamTypes, Safe(dec), NEW u \in Nat, NEW v \in Nat, u <= v,
         NEW t \in Int, TellsTruth(dec, u, t), NEW f \in Nat, Counted(dec, u, t, f),
         NEW tk \in 0 .. Period - 1, u = v => t <= tk,
         NEW e, EventAt(e, v, tk), NEW skipped, NEW scal \in SUBSET Seeds,
         Decode(e, skipped, scal),
         NEW g \in Nat, f <= g,
         HaveQRTSignal /\ ~(e.qrt <=> (v + phase0) % 4 = 0) => f + 1 <= g
  PROVE  Counted(dec', v, tk, g)
<1>1. \/ dec.fNCycle = 0 /\ Waits(dec', dec)
      \/ dec.fNCycle > 0 /\ Stays(u)
      \/ Counts(u, v, tk, e, scal)
  BY DecodeOutcomes
<1>2. dec \in DecoderState /\ Members(dec) /\ phase0 \in Int
  BY StateHasMembers DEF Safe, Sound, BeamTypes
<1>3. CASE Waits(dec', dec)
  BY <1>3 DEF Waits, Counted
<1>4. CASE dec.fNCycle > 0 /\ Stays(u)
  <2>1. PICK w \in 0 .. u : MPSWindow(dec, w) /\ MPSWindow(dec', w)
    BY <1>4 DEF Stays
  <2>2. dec.fLastMPSTime \div Period = w /\ dec'.fLastMPSTime \div Period = w
    BY <2>1, WindowOfMPS
  <2>3. Standing(dec', dec)
    BY <1>4 DEF Stays
  <2>4. MPSWindow(dec', v) => tk >= MPSTicks
    <3> SUFFICES ASSUME MPSWindow(dec', v) PROVE tk >= MPSTicks
      OBVIOUS
    <3>1. w = v
      BY <2>2, WindowOfMPS
    <3>2. u = v /\ t >= MPSTicks
      BY <1>4, <2>1, <3>1 DEF Counted
    <3>3. t <= tk /\ t >= MPSTicks
      BY <3>2
    <3> QED
      BY <3>3, DecoderAssumption
  <2>5. dec.fNQRTProblems <= f => dec.fNQRTProblems <= g
    BY <1>2 DEF Members
  <2> QED
    BY <2>2, <2>3, <2>4, <2>5 DEF Standing, Counted, PhaseOf, QuartetOf
<1>5. CASE Counts(u, v, tk, e, scal)
  <2>1. PICK w \in 0 .. u, seen \in DecoderState :
          /\ MPSWindow(dec, w) /\ Sound(seen) /\ Standing(seen, dec) /\ Kept(seen, dec)
          /\ dec' = NewCycle(seen, e, scal, v - w)
          /\ dec.fNCycle > 0 => w < v
    BY <1>5 DEF Counts
  <2>2. PICK missed \in Nat : missed = v - w
    BY <2>1
  <2>3. PICK n \in Nat : n = dec.fNCycle + (IF missed = 0 THEN 1 ELSE missed) /\ n > 0
    BY <1>2 DEF Members
  <2> DEFINE wrong == ~(e.qrt <=> (n - dec.fFirstCycle) % 4 = 0)
  <2>4. dec'.fNCycle = n /\ ~dec'.fIsNewCycle /\ Problems(dec', dec, wrong)
    BY <2>1, <2>2, <2>3, NewCycleCounts DEF EventAt, Standing, Problems
  <2>5. /\ dec'.fFirstEvProcessed /\ dec'.fFoundMPS
    BY <1>5, <2>1, <2>2, NewCycleKeeps DEF EventAt, Counts, Kept
  <2>6. dec'.fLastMPSTime \div Period = v /\ tk >= MPSTicks
    BY <1>5, WindowOfMPS DEF Counts
  <2>7. HaveQRTSignal /\ dec'.fHaveQRT /\ PhaseOf(dec') = (v + phase0) % 4
          => dec'.fNQRTProblems <= g
    <3> SUFFICES ASSUME HaveQRTSignal, dec'.fHaveQRT, PhaseOf(dec') = (v + phase0) % 4
                 PROVE  dec'.fNQRTProblems <= g
      OBVIOUS
    <3>1. CASE dec'.fNQRTProblems = 0
      BY <3>1
    <3>2. CASE dec'.fNQRTProblems # 0
      <4>1. /\ dec.fHaveQRT /\ dec'.fFirstCycle = dec.fFirstCycle
            /\ \/ dec'.fNQRTProblems = dec.fNQRTProblems
               \/ wrong /\ dec'.fNQRTProblems = dec.fNQRTProblems + 1
        BY <2>4, <3>2 DEF Problems
      <4>2. dec.fNCycle > 0 /\ missed # 0
        BY <2>1, <2>2, <4>1 DEF Counted
      <4>3. PICK x \in Int : x = dec.fNCycle - dec.fFirstCycle /\ n - dec.fFirstCycle = x + missed
        BY <1>2, <2>3, <4>2 DEF Members
      <4>4. (x + missed) % 4 = (v + phase0) % 4
        BY <2>4, <4>1, <4>3 DEF PhaseOf
      <4>5. x % 4 = (w + phase0) % 4
        BY <1>2, <2>1, <2>2, <4>4
      <4>6. dec.fNQRTProblems <= f
        <5>1. dec.fLastMPSTime \div Period = w
          BY <2>1, WindowOfMPS
        <5> QED
          BY <4>1, <4>3, <4>5, <5>1 DEF Counted, PhaseOf
      <4>7. wrong => f + 1 <= g
        BY <4>3, <4>4
      <4> QED
        BY <1>2, <4>1, <4>6, <4>7 DEF Members
    <3> QED
      BY <3>1, <3>2
  <2>8. dec'.fHaveQRT => dec'.fNQuartet = QuartetOf(dec')
    BY <2>4 DEF Problems
  <2> HIDE DEF wrong
  <2> QED
    BY <2>3, <2>4, <2>5, <2>6, <2>7, <2>8 DEF Counted
<1> QED
  BY <1>1, <1>3, <1>4, <1>5

---------------------------------------------------------------------------
(* What a step does to a decoder that is right.                            *)

\* No run has more faults than QRT problems are tolerated, and a good seed of the
\* scaler is that of the quartet before the one reported.
FaultsAreTolerated == \A s \in Setups : s.MaxFaults <= MaxQRTProblems
SeedIsOneBehind == \A s \in Setups : s.ScalerLags \subseteq {1}

KeptInv ==
  /\ TruthInv
  /\ IF HelDelay = 0 THEN ~dec.fFoundQuartet ELSE Counted(dec, win, tick, faults)

\* Right, in a run with the QRT flag, of a clock that stands in window w, with the ring
\* of the beam there.
RightAt(d, w, ring) == LockedAt(d, (w + phase0) % 4, ring)

\* The quartets before a window.
QuartetsTo(w) == (w + phase0) \div 4

LEMMA RightIsAt ==
  ASSUME HaveQRTSignal, NEW w \in Int, MPSWindow(dec, w)
  PROVE  Right <=> RightAt(dec, w, Retreat[QuartetsTo(win) - QuartetsTo(w)][beam])
BY WindowOfMPS DEF Right, PhaseRight, WindowSeen, BeamSeen, RightAt, LockedAt, BitsAre, QuartetsTo

\* The ring of the beam in a window x since, from that in window w.
LEMMA BeamMoves ==
  ASSUME BeamTypes, NEW w \in 0 .. win, NEW g \in Nat, NEW x \in w .. win + g,
         NEW now \in Seeds, now = Advance[(TruePhase + g) \div 4][beam]
  PROVE  Retreat[QuartetsTo(win + g) - QuartetsTo(x)][now] =
           Advance[QuartetsTo(x) - QuartetsTo(w)][Retreat[QuartetsTo(win) - QuartetsTo(w)][beam]]
<1>1. /\ win \in Nat /\ phase0 \in 0 .. 3 /\ beam \in Seeds
      /\ w \in Nat /\ x \in Nat /\ w <= win /\ w <= x /\ x <= win + g
  BY DEF BeamTypes
<1>2. PICK k \in Nat : k = QuartetsTo(win) - QuartetsTo(w)
  BY <1>1 DEF QuartetsTo
<1>3. PICK n \in Nat : n = (TruePhase + g) \div 4
  BY <1>1 DEF TruePhase
<1>4. PICK p \in Nat : p = QuartetsTo(win + g) - QuartetsTo(x)
  BY <1>1 DEF QuartetsTo
<1>5. PICK j \in Nat : j = QuartetsTo(x) - QuartetsTo(w)
  BY <1>1 DEF QuartetsTo
<1>6. n + k = p + j
  <2>1. n = QuartetsTo(win + g) - QuartetsTo(win)
    BY <1>1, <1>3 DEF TruePhase, QuartetsTo
  <2>2. QuartetsTo(win + g) \in Int /\ QuartetsTo(win) \in Int
        /\ QuartetsTo(w) \in Int /\ QuartetsTo(x) \in Int
    BY <1>1 DEF QuartetsTo
  <2> QED
    BY <1>2, <1>4, <1>5, <2>1, <2>2
<1>7. PICK b \in Seeds : b = Retreat[k][beam]
  BY <1>1, RetreatDefined
<1>8. PICK c \in Seeds : c = Advance[j][b]
  BY AdvanceDefined
<1>9. now = Advance[p][c]
  <2>1. beam = Advance[k][b]
    BY <1>1, <1>7, AdvanceUndoesRetreat
  <2>2. now = Advance[n + k][b]
    <3>1. Advance[n + k][b] = Advance[n][Advance[k][b]]
      BY AdvanceSum
    <3> QED
      BY <1>3, <2>1, <3>1
  <2>3. now = Advance[p + j][b]
    BY <1>6, <2>2
  <2>4. Advance[p + j][b] = Advance[p][Advance[j][b]]
    BY AdvanceSum
  <2> QED
    BY <1>8, <2>3, <2>4
<1>10. Retreat[p][now] = c
  BY <1>9, RetreatUndoesAdvance
<1> QED
  BY <1>2, <1>4, <1>5, <1>7, <1>8, <1>10

\* What is wrong with a flag is a fault.
LEMMA FlagIsFault ==
  ASSUME BeamTypes, NEW g \in 0 .. setup.MaxGap, NEW tk \in EventTicks, NEW fault \in Faults,
         Arrival(g, tk, fault)
  PROVE  /\ faults' \in Nat /\ faults <= faults'
         /\ HaveQRTSignal' /\ ~(Event(fault)'.qrt <=> (win' + phase0) % 4 = 0) =>
              faults + 1 <= faults' /\ faults + 1 <= setup.MaxFaults
<1>1. faults \in Nat /\ setup.MaxFaults \in Nat /\ phase0' = phase0
  BY DEF BeamTypes, SetupType, Arrival
<1>2. faults' = (IF fault = "none" THEN faults ELSE faults + 1)
      /\ (fault # "none" => faults < setup.MaxFaults)
  BY DEF Arrival
<1>3. HaveQRTSignal' => (Event(fault)'.qrt <=> ((win' + phase0) % 4 = 0) # (fault = "qrt"))
  BY <1>1 DEF Event, TruePhase
<1>4. HaveQRTSignal' /\ ~(Event(fault)'.qrt <=> (win' + phase0) % 4 = 0) => fault = "qrt"
  BY <1>3
<1> QED
  BY <1>1, <1>2, <1>4

LEMMA DecodeKeepsRight ==
  ASSUME MPSIsShort, HelDelay # 0, HaveQRTSignal, BeamTypes,
         setup \in Setups, Safe(dec),
         TellsTruth(dec, win, tick), Counted(dec, win, tick, faults), Right,
         NEW g \in Nat, win' = win + g, phase0' = phase0,
         beam' = Advance[(TruePhase + g) \div 4][beam],
         NEW tk \in 0 .. Period - 1, g = 0 => tick <= tk,
         NEW e, EventAt(e, win', tk),
         e.reported \in {kUnknown, InQuartet((win' + phase0) % 4, Sign(beam'[1]))},
         ~(e.qrt <=> (win' + phase0) % 4 = 0) =>
           FaultsAreTolerated /\ faults + 1 <= setup.MaxFaults,
         NEW skipped, NEW scal \in SUBSET Seeds,
         scal # {} => RanBit30(CHOOSE s \in scal : TRUE) = beam',
         Decode(e, skipped, scal)
  PROVE  \E w \in 0 .. win' :
           MPSWindow(dec', w) /\ RightAt(dec', w, Retreat[QuartetsTo(win') - QuartetsTo(w)][beam'])
<1>1. /\ win \in Nat /\ win' \in Nat /\ tick \in Int /\ phase0 \in 0 .. 3 /\ beam \in Seeds
      /\ dec \in DecoderState /\ Members(dec) /\ win <= win' /\ (win = win' => tick <= tk)
  BY StateHasMembers DEF BeamTypes, Safe, Sound
<1>2. beam' \in Seeds
  <2>1. (TruePhase + g) \div 4 \in Nat
    BY <1>1 DEF TruePhase
  <2> QED
    BY <1>1, <2>1, AdvanceDefined
<1>3. dec.fFoundQuartet /\ dec.fHaveQRT /\ dec.fNCycle > 0
  BY DEF Right, Counted
<1>4. \/ Stays(win)
      \/ Counts(win, win', tk, e, scal)
  BY <1>1, <1>3, DecodeOutcomes
<1>5. PICK w \in 0 .. win : MPSWindow(dec, w)
  BY <1>3 DEF Counted, TellsTruth
<1>6. PICK ring \in Seeds : ring = Retreat[QuartetsTo(win) - QuartetsTo(w)][beam]
  <2>1. QuartetsTo(win) - QuartetsTo(w) \in Nat
    BY <1>1 DEF QuartetsTo
  <2> QED
    BY <1>1, <2>1, RetreatDefined
<1>7. RightAt(dec, w, ring)
  BY <1>5, <1>6, RightIsAt
<1>8. ASSUME NEW x \in w .. win'
      PROVE  Retreat[QuartetsTo(win') - QuartetsTo(x)][beam'] =
               Advance[QuartetsTo(x) - QuartetsTo(w)][ring]
  BY <1>2, <1>6, BeamMoves
<1>9. CASE Stays(win)
  <2>1. PICK y \in 0 .. win : MPSWindow(dec, y) /\ MPSWindow(dec', y)
    BY <1>9 DEF Stays
  <2>2. y = w
    BY <1>5, <2>1, WindowOfMPS
  <2>3. w \in w .. win' /\ QuartetsTo(w) - QuartetsTo(w) = 0
    BY <1>1 DEF QuartetsTo
  <2>4. Retreat[QuartetsTo(win') - QuartetsTo(w)][beam'] = ring
    BY <1>8, <2>3, AdvanceDefined
  <2>5. RightAt(dec', w, ring)
    BY <1>7, <1>9 DEF Stays, Standing, RightAt, LockedAt, BitsAre, PhaseOf
  <2> QED
    BY <1>1, <2>1, <2>2, <2>4, <2>5
<1>10. CASE Counts(win, win', tk, e, scal)
  <2>1. PICK z \in 0 .. win, seen \in DecoderState :
          /\ MPSWindow(dec, z) /\ Sound(seen) /\ Marked(seen) /\ Standing(seen, dec)
          /\ dec' = NewCycle(seen, e, scal, win' - z)
          /\ dec.fNCycle > 0 => z < win'
    BY <1>10 DEF Counts
  <2>2. z = w
    BY <1>5, <2>1, WindowOfMPS
  <2>3. PICK missed \in Nat \ {0} : missed = win' - w /\ w + missed = win'
    BY <1>1, <1>3, <2>1, <2>2
  <2>4. PICK y \in Int : y = w + phase0 /\ y + missed = win' + phase0
    BY <1>1, <2>3
  <2>5. beam' = Advance[(y + missed) \div 4 - y \div 4][ring]
    <3>1. win' \in w .. win' /\ QuartetsTo(win') - QuartetsTo(win') = 0
      <4>1. w \in Int /\ w <= win'
        BY <1>1
      <4>2. PICK q \in Int : q = QuartetsTo(win')
        BY <1>1 DEF QuartetsTo
      <4> QED
        BY <1>1, <4>1, <4>2
    <3>2. QuartetsTo(win') - QuartetsTo(w) = (y + missed) \div 4 - y \div 4
      BY <2>4 DEF QuartetsTo
    <3>3. Retreat[QuartetsTo(win') - QuartetsTo(win')][beam'] = beam'
      BY <1>2, <3>1, RetreatDefined
    <3>4. Retreat[QuartetsTo(win') - QuartetsTo(win')][beam'] =
            Advance[QuartetsTo(win') - QuartetsTo(w)][ring]
      BY <1>8, <3>1
    <3> QED
      BY <3>2, <3>3, <3>4
  <2>6. /\ seen.fFoundQuartet /\ seen.fHaveQRT /\ seen.fNQuartet = QuartetOf(seen)
        /\ PhaseOf(seen) = y % 4 /\ BitsAre(seen, ring)
        /\ seen.fNQRTProblems = dec.fNQRTProblems
    BY <1>3, <1>7, <2>1, <2>4
    DEF RightAt, LockedAt, BitsAre, Standing, PhaseOf, QuartetOf, Counted
  <2>7. (e.qrt <=> (y + missed) % 4 = 0) \/ seen.fNQRTProblems + 1 <= MaxQRTProblems
    <3> SUFFICES ASSUME ~(e.qrt <=> (y + missed) % 4 = 0)
                 PROVE  dec.fNQRTProblems + 1 <= MaxQRTProblems
      BY <2>6
    <3>1. FaultsAreTolerated /\ faults + 1 <= setup.MaxFaults
      BY <2>4
    <3>2. setup.MaxFaults <= MaxQRTProblems /\ setup.MaxFaults \in Nat /\ faults \in Nat
      BY <3>1 DEF FaultsAreTolerated, BeamTypes, SetupType
    <3>3. dec.fNQRTProblems <= faults
      <4>1. dec.fLastMPSTime \div Period = w
        BY <1>5, WindowOfMPS
      <4> QED
        BY <1>7, <4>1 DEF RightAt, LockedAt, Counted
    <3> QED
      BY <1>1, <3>1, <3>2, <3>3, DecoderAssumption DEF Members
  <2>8. e.reported \in {kUnknown, InQuartet((y + missed) % 4, Sign(beam'[1]))} /\ e \in EventSet
    BY <2>4 DEF EventAt
  <2>9. PICK now \in Seeds : now = beam'
    BY <1>2
  <2>10. /\ dec'.fFoundQuartet /\ dec'.fHaveQRT /\ PhaseOf(dec') = (y + missed) % 4
         /\ BitsAre(dec', now)
    <3>1. dec' = NewCycle(seen, e, scal, missed)
      BY <2>1, <2>2, <2>3
    <3>2. now = Advance[(y + missed) \div 4 - y \div 4][ring]
      BY <2>5, <2>9
    <3>3. e.reported \in {kUnknown, InQuartet((y + missed) % 4, Sign(now[1]))}
      BY <2>8, <2>9
    <3>4. scal # {} => RanBit30(CHOOSE s \in scal : TRUE) = now
      BY <2>9
    <3>5. Sound(seen) /\ Marked(seen) /\ e \in EventSet
      BY <2>1, <2>8
    <3>6. /\ seen.fFoundQuartet /\ seen.fHaveQRT /\ seen.fNQuartet = QuartetOf(seen)
          /\ PhaseOf(seen) = y % 4 /\ BitsAre(seen, ring)
      BY <2>6
    <3>7. LockedAt(NewCycle(seen, e, scal, missed), (y + missed) % 4, now)
      BY <2>7, <3>2, <3>3, <3>4, <3>5, <3>6, NewCycleRight
    <3> QED
      BY <3>1, <3>7 DEF LockedAt
  <2>11. Retreat[QuartetsTo(win') - QuartetsTo(win')][beam'] = beam'
    <3>1. QuartetsTo(win') - QuartetsTo(win') = 0
      BY <1>1 DEF QuartetsTo
    <3> QED
      BY <1>2, <3>1, RetreatDefined
  <2>12. MPSWindow(dec', win') /\ win' \in 0 .. win'
    BY <1>1, <1>10 DEF Counts
  <2> QED
    BY <2>4, <2>9, <2>10, <2>11, <2>12 DEF RightAt, LockedAt
<1> QED
  BY <1>4, <1>9, <1>10

\* A seed one quartet behind the beam, run on by one, is the beam's.
LEMMA OfferIsBeam ==
  ASSUME SeedIsOneBehind, setup' \in Setups, beam' \in Seeds, NEW scal \in ScalerOffers', scal # {}
  PROVE  RanBit30(CHOOSE s \in scal : TRUE) = beam'
<1>1. PICK lag \in setup'.ScalerLags : scal = {Retreat[lag][beam']}
  BY DEF ScalerOffers
<1>2. lag = 1
  BY DEF SeedIsOneBehind
<1>3. Retreat[0 + 1][beam'] = PrevSeed(Retreat[0][beam'])
  BY RetreatDefined
<1>4. Retreat[1][beam'] = PrevSeed(beam')
  BY <1>3, RetreatDefined
<1>5. (CHOOSE s \in scal : TRUE) = PrevSeed(beam')
  BY <1>1, <1>2, <1>4
<1> QED
  BY <1>5, RanUndoesPrev

\* A step, as far as the lemmas above ask: the event e, g windows on, what the scaler
\* offers, and whether an event was kept from Decode.
StepOf(e, g, scal, skipped) ==
  /\ EventAt(e, win', tick') /\ Decode(e, skipped, scal)
  /\ setup' = setup /\ phase0' = phase0 /\ win' = win + g
  /\ win \in Nat /\ tick \in Int /\ tick' \in 0 .. Period - 1 /\ (g = 0 => tick <= tick')
  /\ beam' = Advance[(TruePhase + g) \div 4][beam]
  /\ e.reported \in {kUnknown, InQuartet((win' + phase0) % 4, Sign(beam'[1]))}
  /\ faults \in Nat /\ faults' \in Nat /\ faults <= faults'
  /\ HaveQRTSignal /\ ~(e.qrt <=> (win' + phase0) % 4 = 0) =>
       faults + 1 <= faults' /\ faults + 1 <= setup.MaxFaults
  /\ SeedIsOneBehind => (scal # {} => RanBit30(CHOOSE s \in scal : TRUE) = beam')
  /\ setup.MaxFaults = 0 => e.reported # kUnknown /\ faults' = faults
  /\ setup.ScalerLags = {} => scal = {}
  /\ faults' = faults => /\ e.reported # kUnknown
                         /\ e.qrt <=> HaveQRTSignal /\ (win' + phase0) % 4 = 0
  /\ skipped => setup.EventsMissed

LEMMA ArrivalIsStep ==
  ASSUME TruthInv, NEW g \in 0 .. setup.MaxGap, NEW tk \in EventTicks, NEW fault \in Faults,
         NEW skipped \in {FALSE, setup.EventsMissed}, NEW scal \in ScalerOffers',
         Arrival(g, tk, fault), Decode(Event(fault)', skipped, scal)
  PROVE  /\ g \in Nat /\ scal \in SUBSET Seeds /\ skipped \in BOOLEAN
         /\ \E e \in EventSet : StepOf(e, g, scal, skipped)
<1>2. BeamTypes /\ setup \in Setups
  BY DEF TruthInv, IndInv
<1>3. BeamTypes' /\ Event(fault)' \in EventSet /\ ScalerOffers' \subseteq SUBSET Seeds
  BY <1>2, ArrivalTypes
<1>4. PICK e \in EventSet : e = Event(fault)'
  BY <1>3
<1>5. EventAt(e, win', tick')
  BY <1>3, <1>4, EventIsAtItsTime
<1>6. Decode(e, skipped, scal)
  BY <1>4
<1>7. /\ setup' = setup /\ phase0' = phase0 /\ win' = win + g /\ g \in Nat
      /\ win \in Nat /\ tick \in Int /\ tick' \in 0 .. Period - 1 /\ (g = 0 => tick <= tick')
      /\ beam' = Advance[(TruePhase + g) \div 4][beam]
  BY <1>2, <1>3, SetupTypes, DecoderAssumption DEF Arrival, BeamTypes
<1>8. e.reported \in {kUnknown, InQuartet((win' + phase0) % 4, Sign(beam'[1]))}
  BY <1>4, <1>7 DEF Event, ReportedHelicity, TruePhase
<1>9. HaveQRTSignal' = HaveQRTSignal /\ faults \in Nat
  BY <1>2, <1>7 DEF HaveQRTSignal, BeamTypes
<1>10. /\ faults' \in Nat /\ faults <= faults'
       /\ HaveQRTSignal /\ ~(e.qrt <=> (win' + phase0) % 4 = 0) =>
            faults + 1 <= faults' /\ faults + 1 <= setup.MaxFaults
  <2>1. /\ faults' \in Nat /\ faults <= faults'
        /\ HaveQRTSignal' /\ ~(Event(fault)'.qrt <=> (win' + phase0) % 4 = 0) =>
             faults + 1 <= faults' /\ faults + 1 <= setup.MaxFaults
    BY <1>2, FlagIsFault
  <2>2. e.qrt = Event(fault)'.qrt
    BY <1>4
  <2> QED
    BY <1>9, <2>1, <2>2
<1>11. SeedIsOneBehind => (scal # {} => RanBit30(CHOOSE s \in scal : TRUE) = beam')
  <2>1. setup' \in Setups /\ beam' \in Seeds
    BY <1>2, <1>3, <1>7 DEF BeamTypes
  <2> QED
    BY <2>1, OfferIsBeam
<1>12. scal \in SUBSET Seeds /\ skipped \in BOOLEAN
  BY <1>2, <1>3 DEF BeamTypes, SetupType
<1>13. setup.MaxFaults = 0 => e.reported # kUnknown /\ faults' = faults
  <2>1. setup.MaxFaults = 0 => fault = "none" /\ faults' = faults
    BY <1>9 DEF Arrival
  <2>2. fault = "none" => e.reported = InQuartet(TruePhase', Sign(beam'[1]))
    BY <1>4 DEF Event, ReportedHelicity
  <2> QED
    BY <2>1, <2>2, SignIsKnown
<1>14. skipped => setup.EventsMissed
  OBVIOUS
<1>15. faults' = faults => /\ e.reported # kUnknown
                           /\ e.qrt <=> HaveQRTSignal /\ (win' + phase0) % 4 = 0
  <2>1. faults' = faults => fault = "none"
    BY <1>9 DEF Arrival
  <2>2. fault = "none" => e.reported = InQuartet(TruePhase', Sign(beam'[1]))
    BY <1>4 DEF Event, ReportedHelicity
  <2>3. fault = "none" => (e.qrt <=> HaveQRTSignal' /\ TruePhase' = 0)
    BY <1>4 DEF Event
  <2>4. TruePhase' = (win' + phase0) % 4
    BY <1>7 DEF TruePhase
  <2> QED
    BY <1>9, <2>1, <2>2, <2>3, <2>4, SignIsKnown
<1>16. setup.ScalerLags = {} => scal = {}
  BY <1>7 DEF ScalerOffers
<1>17. StepOf(e, g, scal, skipped)
  BY <1>5, <1>6, <1>7, <1>8, <1>9, <1>10, <1>11, <1>13, <1>14, <1>15, <1>16 DEF StepOf
<1> QED
  BY <1>7, <1>12, <1>17

LEMMA StepIs ==
  ASSUME TruthInv, Next
  PROVE  \E g \in Nat, scal \in SUBSET Seeds, skipped \in BOOLEAN, e \in EventSet :
           StepOf(e, g, scal, skipped)
<1>1. PICK g \in 0 .. setup.MaxGap, tk \in EventTicks, fault \in Faults,
           skipped \in {FALSE, setup.EventsMissed} :
        /\ Arrival(g, tk, fault)
        /\ \E scal \in ScalerOffers' : Decode(Event(fault)', skipped, scal)
  BY DEF Next
<1>2. PICK scal \in ScalerOffers' : Decode(Event(fault)', skipped, scal)
  BY <1>1
<1>3. /\ g \in Nat /\ scal \in SUBSET Seeds /\ skipped \in BOOLEAN
      /\ \E e \in EventSet : StepOf(e, g, scal, skipped)
  BY <1>1, <1>2, ArrivalIsStep
<1> QED
  BY <1>3

LEMMA InitialCounts == Init => KeptInv
<1> SUFFICES ASSUME Init PROVE KeptInv
  OBVIOUS
<1>1. ~dec.fFoundQuartet /\ ~dec.fHaveQRT /\ dec.fNCycle = 0
  BY DEF Init
<1> QED
  BY <1>1, InitialTruth DEF KeptInv, Counted

LEMMA StepKeepsCounts ==
  ASSUME MPSIsShort
  PROVE  KeptInv /\ [Next]_vars => KeptInv'
<1> SUFFICES ASSUME KeptInv, [Next]_vars PROVE KeptInv'
  OBVIOUS
<1>1. TruthInv'
  BY StepKeepsTruth DEF KeptInv
<1>2. CASE Next
  <2>1. PICK g \in Nat, scal \in SUBSET Seeds, skipped \in BOOLEAN, e \in EventSet :
          /\ EventAt(e, win', tick') /\ Decode(e, skipped, scal)
          /\ setup' = setup /\ phase0' = phase0 /\ win' = win + g
          /\ win \in Nat /\ tick \in Int /\ tick' \in 0 .. Period - 1 /\ (g = 0 => tick <= tick')
          /\ faults \in Nat /\ faults' \in Nat /\ faults <= faults'
          /\ HaveQRTSignal /\ ~(e.qrt <=> (win' + phase0) % 4 = 0) =>
               faults + 1 <= faults' /\ faults + 1 <= setup.MaxFaults
    BY <1>2, StepIs DEF KeptInv, StepOf
  <2>2. HelDelay' = HelDelay /\ HaveQRTSignal' = HaveQRTSignal
    BY <2>1 DEF HelDelay, HaveQRTSignal
  <2>3. win' \in Nat /\ win <= win' /\ (win = win' => tick <= tick')
    BY <2>1
  <2>4. BeamTypes /\ Safe(dec) /\ dec \in DecoderState
    BY DEF KeptInv, TruthInv, IndInv, Safe, Sound
  <2>5. CASE HelDelay = 0
    <3>1. dec' = [dec EXCEPT !.fActualHelicity = IF e.mps THEN kUnknown ELSE e.reported]
      BY <2>1, <2>5
      DEF Decode, DecodeInTime, DecodeMissedEvents, DecodeDisabled, DecodeFirst, DecodeMPS,
          DecodeBeforeMPS, DecodeSameCycle, DecodeNewCycle, Running
    <3>2. dec'.fFoundQuartet = dec.fFoundQuartet
      BY <2>4, <3>1 DEF DecoderState
    <3> QED
      BY <1>1, <2>2, <2>5, <3>2 DEF KeptInv
  <2>6. CASE HelDelay # 0
    <3>1. TellsTruth(dec, win, tick) /\ Counted(dec, win, tick, faults)
      BY <2>6 DEF KeptInv, TruthInv
    <3>2. Counted(dec', win', tick', faults')
      BY <2>1, <2>3, <2>4, <2>6, <3>1, DecodeKeepsCounts
    <3>3. Counted(dec, win, tick, faults)'
      BY <2>1, <2>2, <3>2 DEF Counted, MPSWindow, PhaseOf, QuartetOf
    <3> QED
      BY <1>1, <2>2, <2>6, <3>3 DEF KeptInv
  <2> QED
    BY <2>5, <2>6
<1>3. CASE UNCHANGED vars
  BY <1>1, <1>3
  DEF vars, KeptInv, HelDelay, HaveQRTSignal, Counted, MPSWindow, PhaseOf, QuartetOf
<1> QED
  BY <1>2, <1>3

LEMMA RightIsLater ==
  ASSUME setup' = setup, phase0' = phase0, HaveQRTSignal, NEW w \in 0 .. win',
         MPSWindow(dec', w), RightAt(dec', w, Retreat[QuartetsTo(win') - QuartetsTo(w)][beam'])
  PROVE  Right'
<1>1. WindowSeen' = w
  BY WindowOfMPS DEF WindowSeen
<1>2. BeamSeen' = Retreat[QuartetsTo(win') - QuartetsTo(w)][beam']
  BY <1>1 DEF BeamSeen, QuartetsTo
<1> QED
  BY <1>1, <1>2 DEF Right, PhaseRight, RightAt, LockedAt, BitsAre, PhaseOf, HaveQRTSignal

LEMMA StepKeepsRight ==
  ASSUME MPSIsShort, FaultsAreTolerated, SeedIsOneBehind, KeptInv, [Next]_vars,
         HaveQRTSignal, Right
  PROVE  Right'
<1>1. CASE Next
  <2>1. PICK g \in Nat, scal \in SUBSET Seeds, skipped \in BOOLEAN, e \in EventSet :
          /\ EventAt(e, win', tick') /\ Decode(e, skipped, scal)
          /\ setup' = setup /\ phase0' = phase0 /\ win' = win + g
          /\ win \in Nat /\ tick' \in 0 .. Period - 1 /\ (g = 0 => tick <= tick')
          /\ beam' = Advance[(TruePhase + g) \div 4][beam]
          /\ e.reported \in {kUnknown, InQuartet((win' + phase0) % 4, Sign(beam'[1]))}
          /\ ~(e.qrt <=> (win' + phase0) % 4 = 0) =>
               FaultsAreTolerated /\ faults + 1 <= setup.MaxFaults
          /\ scal # {} => RanBit30(CHOOSE s \in scal : TRUE) = beam'
    BY <1>1, StepIs DEF KeptInv, StepOf
  <2>2. HelDelay # 0 /\ TellsTruth(dec, win, tick) /\ Counted(dec, win, tick, faults)
    BY DEF KeptInv, TruthInv, Right
  <2>3. BeamTypes /\ setup \in Setups /\ Safe(dec)
    BY DEF KeptInv, TruthInv, IndInv
  <2>4. PICK w \in 0 .. win' :
          MPSWindow(dec', w) /\ RightAt(dec', w, Retreat[QuartetsTo(win') - QuartetsTo(w)][beam'])
    BY <2>1, <2>2, <2>3, DecodeKeepsRight
  <2> QED
    BY <2>1, <2>4, RightIsLater
<1>2. CASE UNCHANGED vars
  BY <1>2 DEF vars, Right, PhaseRight, WindowSeen, BeamSeen, PhaseOf, HaveQRTSignal
<1> QED
  BY <1>1, <1>2

\* In a run with the QRT flag, a decoder that has the quartets and the bits right
\* keeps them, whatever windows it misses: wrong flags up to the number that is
\* tolerated, unknown reports, predictions and good seeds of the scaler never turn it
\* into one that is wrong.
THEOREM RightDecoderStaysRight ==
  ASSUME MPSIsShort, FaultsAreTolerated, SeedIsOneBehind
  PROVE  Spec => RightIsKept
<1>1. Init => KeptInv
  BY InitialCounts
<1>2. KeptInv /\ [Next]_vars => KeptInv'
  BY StepKeepsCounts
<1>3. KeptInv /\ [Next]_vars => [HaveQRTSignal /\ Right => Right']_vars
  BY StepKeepsRight
<1> QED
  BY <1>1, <1>2, <1>3, PTL DEF Spec, RightIsKept

---------------------------------------------------------------------------
(* Before the first QRT flag: no quartet is found in the reports.          *)

\* Of the last four reports, the one before the first window counted or before a gap
\* is none, and that before it none or made up: p windows are known at most in a row,
\* as the window of phase 0 would have had the flag.
NoQuartetYet(f, p) ==
  /\ p # 0
  /\ \/ f[2] = 0 /\ f[1] \in {0, f[0]}
     \/ p >= 2 /\ f[3] = 0 /\ f[2] \in {0, f[1]}
     \/ p = 3 /\ f[3] \in {0, f[2]}

Shifted(f, rep) == [i \in 0 .. 3 |-> IF i = 0 THEN rep ELSE f[i - 1]]

LEMMA NoQuartetIsFound ==
  ASSUME NEW f \in [0 .. 3 -> Helicity], NEW p \in 0 .. 3, NoQuartetYet(f, p)
  PROVE  f[0] + f[3] - f[1] - f[2] \notin {4, -4}
<1>1. /\ f[0] \in {-1, 0, 1} /\ f[1] \in {-1, 0, 1} /\ f[2] \in {-1, 0, 1}
      /\ f[3] \in {-1, 0, 1}
  BY DEF Helicity, kPlus, kMinus, kUnknown
<1> QED
  BY <1>1 DEF NoQuartetYet

\* A report more, of the next window or behind a gap, does not complete a quartet.
LEMMA ReportAfterWindow ==
  ASSUME NEW f \in [0 .. 3 -> Helicity], NEW p \in 0 .. 3, NoQuartetYet(f, p),
         NEW rep \in Helicity, (p + 1) % 4 # 0
  PROVE  NoQuartetYet(Shifted(f, rep), (p + 1) % 4)
<1>1. p \in {1, 2} /\ (p + 1) % 4 = p + 1
  BY DEF NoQuartetYet
<1>2. /\ Shifted(f, rep)[0] = rep /\ Shifted(f, rep)[1] = f[0]
      /\ Shifted(f, rep)[2] = f[1] /\ Shifted(f, rep)[3] = f[2]
  BY DEF Shifted
<1> QED
  BY <1>1, <1>2 DEF NoQuartetYet

LEMMA ReportAfterGap ==
  ASSUME NEW f \in [0 .. 3 -> Helicity], NEW rep \in Helicity, NEW p, p # 0,
         \/ f[0] = rep /\ f[1] = 0
         \/ f[0] = 0 /\ f[1] = 0
  PROVE  NoQuartetYet(Shifted(f, rep), p)
<1>1. Shifted(f, rep)[0] = rep /\ Shifted(f, rep)[1] = f[0] /\ Shifted(f, rep)[2] = f[1]
  BY DEF Shifted
<1> QED
  BY <1>1 DEF NoQuartetYet

\* A decoder that has seen no QRT flag, its last window at phase p.
LostAt(d, p) ==
  /\ ~d.fHaveQRT /\ ~d.fFoundQuartet /\ d.fNBits = 0
  /\ IF d.fNCycle = 0 THEN \A i \in 0 .. 3 : d.fQuartet[i] = 0
     ELSE NoQuartetYet(d.fQuartet, p)

LEMMA NoBitsNotCalibrated ==
  ASSUME NEW d, d.fNBits = 0
  PROVE  ~Calibrated(d)
BY RingAssumption DEF Calibrated

LEMMA SkipMissedSearches ==
  ASSUME NEW d, Sound(d), NEW p, LostAt(d, p), NEW e \in EventSet, NEW missed \in Nat
  PROVE  LET r == SkipMissed(d, e, missed)
         IN  /\ ~r.fHaveQRT /\ ~r.fFoundQuartet /\ r.fNBits = 0
             /\ r.fNCycle \in Nat /\ r.fQuartet \in [0 .. 3 -> Helicity]
             /\ IF missed <= 1 THEN r.fQuartet = d.fQuartet
                ELSE r.fQuartet[0] = e.reported /\ r.fQuartet[1] = 0
<1>1. ~Calibrated(d) /\ Members(d) /\ d \in DecoderState
  BY NoBitsNotCalibrated, StateHasMembers DEF LostAt, Sound
<1>2. CASE missed <= 1
  BY <1>1, <1>2 DEF SkipMissed, LostAt, Members
<1>3. CASE ~(missed <= 1)
  <2> DEFINE r == SkipMissed(d, e, missed)
  <2>1. r = [d EXCEPT !.fNCycle = @ + missed - 1, !.fActualHelicity = kUnknown,
                      !.fQuartet[0] = e.reported, !.fQuartet[1] = 0]
    BY <1>1, <1>3 DEF SkipMissed, Calibrated, DecoderState
  <2>2. /\ r.fHaveQRT = d.fHaveQRT /\ r.fFoundQuartet = d.fFoundQuartet
        /\ r.fNBits = d.fNBits /\ r.fNCycle = d.fNCycle + missed - 1
        /\ r.fQuartet = [d.fQuartet EXCEPT ![0] = e.reported, ![1] = 0]
    BY <1>1, <2>1 DEF DecoderState
  <2> HIDE DEF r
  <2>3. e.reported \in Helicity /\ 0 \in Helicity
    BY DEF EventSet, Helicity, kUnknown
  <2>4. /\ r.fQuartet \in [0 .. 3 -> Helicity]
        /\ r.fQuartet[0] = e.reported /\ r.fQuartet[1] = 0
    BY <1>1, <2>2, <2>3 DEF Members
  <2>5. r.fNCycle \in Nat
    BY <1>1, <1>3, <2>2 DEF Members
  <2> QED
    BY <1>3, <2>2, <2>4, <2>5 DEF LostAt, r
<1> QED
  BY <1>2, <1>3
\* A window without the flag leaves the decoder searching.
LEMMA SearchGoesOn ==
  ASSUME NEW d, Sound(d), NEW p \in 0 .. 3, LostAt(d, p), d.fNCycle > 0,
         NEW e \in EventSet, ~e.qrt
  PROVE  LET r == TrackQuartet(d, e)
         IN  /\ r.fNCycle = d.fNCycle /\ r.fQuartet = d.fQuartet
             /\ ~r.fHaveQRT /\ ~r.fFoundQuartet /\ r.fNBits = 0
<1>1. d \in DecoderState /\ Members(d)
  BY StateHasMembers DEF Sound
<1>2. ~QuartetTest(d)
  <2>1. NoQuartetYet(d.fQuartet, p) /\ d.fQuartet \in [0 .. 3 -> Helicity]
    BY <1>1 DEF LostAt, Members
  <2> QED
    BY <2>1, NoQuartetIsFound DEF QuartetTest
<1>3. TrackQuartet(d, e) = SearchQuartet(d)
  BY DEF TrackQuartet, LostAt
<1>4. CASE PhaseOf(d) # 3
  BY <1>1, <1>3, <1>4 DEF SearchQuartet, CountQuartet, LostAt, DecoderState
<1>5. CASE PhaseOf(d) = 3
  BY <1>1, <1>2, <1>3, <1>5 DEF SearchQuartet, LostAt, DecoderState
<1> QED
  BY <1>4, <1>5

\* The first flag sets the phase.
LEMMA FlagLocks ==
  ASSUME NEW d, Sound(d), ~d.fHaveQRT, NEW e \in EventSet, e.qrt
  PROVE  LET r == TrackQuartet(d, e)
         IN  /\ r.fHaveQRT /\ r.fFoundQuartet /\ r.fNBits = 0 /\ PhaseOf(r) = 0
             /\ r.fNQuartet - r.fNLastQuartet = 1
<1>1. d \in DecoderState /\ Members(d)
  BY StateHasMembers DEF Sound
<1>2. TrackQuartet(d, e) = LockOnQRT(CountQuartet(d))
  BY DEF TrackQuartet, TrackQRT
<1> DEFINE r == LockOnQRT(CountQuartet(d))
<1>3. /\ r.fHaveQRT /\ r.fFoundQuartet /\ r.fNBits = 0 /\ r.fFirstCycle = r.fNCycle
      /\ r.fNCycle = d.fNCycle /\ r.fNQuartet = 0 /\ r.fNLastQuartet = -1
  BY <1>1 DEF LockOnQRT, CountQuartet, DecoderState
<1> HIDE DEF r
<1> QED
  BY <1>1, <1>2, <1>3 DEF Members, PhaseOf, r

\* A decoder without the quartets loads nothing.
LEMMA LoadHelicityWaits ==
  ASSUME NEW d, Sound(d), ~d.fFoundQuartet, d.fNBits = 0, NEW e, NEW scal
  PROVE  LET r == LoadHelicity(d, e, scal)
         IN  /\ r.fNCycle = d.fNCycle /\ r.fQuartet = d.fQuartet /\ r.fHaveQRT = d.fHaveQRT
             /\ ~r.fFoundQuartet /\ r.fNBits = 0
BY DEF LoadHelicity, Sound, DecoderState

\* A new cycle either goes on searching or, with the flag, finds the quartets.
LEMMA NewCycleSearches ==
  ASSUME NEW d, Sound(d), NEW p \in 0 .. 3, LostAt(d, p), NEW missed \in Nat,
         NEW q \in 0 .. 3, d.fNCycle # 0 => missed # 0 /\ q = (p + missed) % 4,
         NEW e \in EventSet, e.qrt <=> q = 0,
         NEW now \in Seeds, e.reported \in {kUnknown, InQuartet(q, Sign(now[1]))},
         NEW scal \in SUBSET Seeds,
         scal # {} => RanBit30(CHOOSE s \in scal : TRUE) = now
  PROVE  LET r == NewCycle(d, e, scal, missed)
         IN  IF q = 0 THEN LockedAt(r, 0, now) /\ (e.reported # kUnknown => r.fNBits >= 1)
             ELSE LostAt(r, q)
<1> DEFINE skip == SkipMissed(d, e, missed)
           counted == CountCycle(skip, e)
           tracked == TrackQuartet(counted, e)
           blank == [tracked EXCEPT !.fActualHelicity = kUnknown]
           loaded == LoadHelicity(blank, e, scal)
           r == [loaded EXCEPT !.fLastMPSTime = @ + missed * Period, !.fIsNewCycle = FALSE]
<1>1. NewCycle(d, e, scal, missed) = r
  BY DEF NewCycle, skip, counted, tracked, blank, loaded
<1>2. /\ Sound(skip) /\ ~skip.fHaveQRT /\ ~skip.fFoundQuartet /\ skip.fNBits = 0
      /\ skip.fNCycle \in Nat /\ skip.fQuartet \in [0 .. 3 -> Helicity]
      /\ IF missed <= 1 THEN skip.fQuartet = d.fQuartet
         ELSE skip.fQuartet[0] = e.reported /\ skip.fQuartet[1] = 0
  BY SkipMissedSound, SkipMissedSearches
<1> HIDE DEF skip
<1>3. /\ ~counted.fHaveQRT /\ ~counted.fFoundQuartet /\ counted.fNBits = 0
      /\ counted.fNCycle = skip.fNCycle + 1 /\ counted.fQuartet = Shifted(skip.fQuartet, e.reported)
  BY <1>2 DEF CountCycle, Shifted, Sound, DecoderState
<1>4. Sound(counted) /\ counted.fNCycle > 0
  BY <1>2, <1>3, CountCycleSound
<1> HIDE DEF counted
<1>5. q # 0 => LostAt(counted, q)
  <2> SUFFICES ASSUME q # 0 PROVE NoQuartetYet(Shifted(skip.fQuartet, e.reported), q)
    BY <1>3, <1>4 DEF LostAt
  <2>1. e.reported \in Helicity
    BY DEF EventSet
  <2>2. CASE missed > 1
    BY <1>2, <2>1, <2>2, ReportAfterGap
  <2>3. CASE missed <= 1 /\ d.fNCycle = 0
    <3>1. skip.fQuartet[0] = 0 /\ skip.fQuartet[1] = 0
      BY <1>2, <2>3 DEF LostAt
    <3> QED
      BY <1>2, <2>1, <3>1, ReportAfterGap
  <2>4. CASE missed <= 1 /\ d.fNCycle # 0
    <3>1. missed = 1 /\ q = (p + 1) % 4
      BY <2>4
    <3>2. NoQuartetYet(skip.fQuartet, p)
      BY <1>2, <2>4 DEF LostAt
    <3> QED
      BY <1>2, <2>1, <3>1, <3>2, ReportAfterWindow
  <2> QED
    BY <2>2, <2>3, <2>4
<1>6. Sound(tracked)
  BY <1>4, TrackQuartetSound
<1>7. q = 0 => /\ tracked.fHaveQRT /\ tracked.fFoundQuartet /\ tracked.fNBits = 0
               /\ PhaseOf(tracked) = 0 /\ tracked.fNQuartet - tracked.fNLastQuartet = 1
  BY <1>3, <1>4, FlagLocks
<1>8. q # 0 => /\ tracked.fNCycle = counted.fNCycle /\ tracked.fQuartet = counted.fQuartet
               /\ ~tracked.fHaveQRT /\ ~tracked.fFoundQuartet /\ tracked.fNBits = 0
  BY <1>4, <1>5, SearchGoesOn
<1> HIDE DEF tracked
<1>9. /\ Sound(blank) /\ Leaves(blank, tracked) /\ blank.fNLastQuartet = tracked.fNLastQuartet
      /\ blank.fNBits = tracked.fNBits /\ blank.fQuartet = tracked.fQuartet
      /\ blank.fActualHelicity = kUnknown
  <2>1. Members(blank) /\ SameShape(blank, tracked) /\ Unmoved(blank, tracked)
    BY <1>6, StateHasMembers, HelicityTypes
    DEF Members, SameShape, Unmoved, Sound, DecoderState
  <2>2. /\ Leaves(blank, tracked) /\ blank.fNLastQuartet = tracked.fNLastQuartet
        /\ blank.fNBits = tracked.fNBits /\ blank.fQuartet = tracked.fQuartet
        /\ blank.fActualHelicity = kUnknown
    BY <1>6 DEF Leaves, Sound, DecoderState
  <2> HIDE DEF blank
  <2> QED
    BY <1>6, <2>1, <2>2, UnmovedSound
<1> HIDE DEF blank
<1>10. Sound(loaded)
  BY <1>9, LoadHelicitySound
<1>11. q = 0 => LockedAt(loaded, 0, now) /\ (e.reported # kUnknown => loaded.fNBits >= 1)
  <2> SUFFICES ASSUME q = 0
               PROVE  LockedAt(loaded, 0, now) /\ (e.reported # kUnknown => loaded.fNBits >= 1)
    OBVIOUS
  <2>1. PICK ring \in Seeds : ring = PrevSeed(now)
    BY PrevSeedType
  <2>2. now = Advance[1][ring]
    <3>1. Advance[0 + 1][ring] = RanBit30(Advance[0][ring])
      BY <2>1, AdvanceDefined
    <3> QED
      BY <2>1, <3>1, AdvanceDefined, RanUndoesPrev
  <2>3. blank.fNBits = 0 /\ blank.fFoundQuartet /\ blank.fHaveQRT /\ PhaseOf(blank) = 0
        /\ blank.fNQuartet - blank.fNLastQuartet = 1
    BY <1>7, <1>9 DEF Leaves, PhaseOf
  <2>4. ~Calibrated(blank) /\ BitsAre(blank, ring)
    BY <2>3, NoBitsNotCalibrated DEF BitsAre
  <2>5. e.reported \in {kUnknown, InQuartet(PhaseOf(blank), Sign(now[1]))}
    BY <2>3
  <2>6. Sound(blank) /\ 1 \in Nat
    BY <1>9
  <2>7. BitsAre(loaded, now)
    BY <2>2, <2>3, <2>4, <2>5, <2>6, LoadHelicityRight
  <2>8. Leaves(loaded, blank)
    BY <1>9, LoadHelicityLeaves
  <2>9. e.reported # kUnknown => loaded.fNBits >= 1
    <3> SUFFICES ASSUME e.reported # kUnknown PROVE loaded.fNBits >= 1
      OBVIOUS
    <3>1. Calibrated(loaded) \/ loaded.fNBits = blank.fNBits + 1
      BY <2>3, <2>4, <2>6, LoadHelicityCollects
    <3> QED
      BY <1>10, <2>3, <3>1, RingAssumption, StateHasMembers DEF Sound, Members, Calibrated
  <2> QED
    BY <2>3, <2>7, <2>8, <2>9 DEF LockedAt, Leaves, PhaseOf
<1>12. q # 0 => LostAt(loaded, q)
  <2> SUFFICES ASSUME q # 0 PROVE LostAt(loaded, q)
    OBVIOUS
  <2>1. /\ blank.fNCycle = counted.fNCycle /\ blank.fQuartet = counted.fQuartet
        /\ ~blank.fHaveQRT /\ ~blank.fFoundQuartet /\ blank.fNBits = 0
    BY <1>8, <1>9 DEF Leaves
  <2>2. /\ loaded.fNCycle = counted.fNCycle /\ loaded.fQuartet = counted.fQuartet
        /\ ~loaded.fHaveQRT /\ ~loaded.fFoundQuartet /\ loaded.fNBits = 0
    BY <1>9, <2>1, LoadHelicityWaits
  <2> QED
    BY <1>4, <1>5, <2>2 DEF LostAt
<1> HIDE DEF loaded
<1>13. /\ Leaves(r, loaded) /\ r.fNBits = loaded.fNBits
       /\ r.fRingSeed_reported = loaded.fRingSeed_reported /\ r.fQuartet = loaded.fQuartet
  <2>1. loaded \in DecoderState
    BY <1>10 DEF Sound
  <2> QED
    BY <2>1, LoadedFrom
<1> HIDE DEF r
<1>14. q = 0 => LockedAt(r, 0, now) /\ (e.reported # kUnknown => r.fNBits >= 1)
  BY <1>11, <1>13 DEF LockedAt, Leaves, PhaseOf, BitsAre
<1>15. q # 0 => LostAt(r, q)
  BY <1>12, <1>13 DEF LostAt, Leaves
<1> QED
  BY <1>1, <1>14, <1>15
---------------------------------------------------------------------------
(* No answer before the calibration, one for each event after it.          *)

LEMMA LoadHelicityIsSilent ==
  ASSUME NEW d, Sound(d), ~Calibrated(d), d.fActualHelicity = kUnknown,
         NEW e \in EventSet, NEW scal \in SUBSET Seeds
  PROVE  LoadHelicity(d, e, scal).fActualHelicity = kUnknown
<1> DEFINE q == [d EXCEPT !.fnQrt = PhaseOf(d)]
           none == [q EXCEPT !.fNBits = 0]
<1>1. Sound(q) /\ ~Calibrated(q) /\ q.fActualHelicity = kUnknown
  <2>1. SameShape(q, d)
    BY DEF SameShape
  <2>2. Members(q)
    <3>1. Members(d) /\ PhaseOf(d) \in Int
      BY StateHasMembers DEF Sound, Members, PhaseOf
    <3> QED
      BY <3>1 DEF Members, Sound, DecoderState
  <2>3. Unmoved(q, d) /\ q.fActualHelicity = kUnknown
    BY DEF Unmoved, Sound, DecoderState
  <2> HIDE DEF q
  <2> QED
    BY <2>1, <2>2, <2>3, UnmovedSound DEF Unmoved, Calibrated
<1>2. \/ LoadHelicity(d, e, scal) \in {none, q}
      \/ LoadHelicity(d, e, scal) = CollectBit(q, e, scal)
  BY <1>1 DEF LoadHelicity
<1> HIDE DEF q
<1>3. none.fActualHelicity = kUnknown
  BY <1>1 DEF Sound, DecoderState
<1> HIDE DEF none
<1> QED
  BY <1>1, <1>2, <1>3, CollectBitSound

LEMMA NewCycleIsSilent ==
  ASSUME NEW d, Sound(d), ~Calibrated(d), NEW e \in EventSet, NEW scal \in SUBSET Seeds,
         NEW missed \in Nat
  PROVE  NewCycle(d, e, scal, missed).fActualHelicity = kUnknown
<1> DEFINE skip == SkipMissed(d, e, missed)
           counted == CountCycle(skip, e)
           tracked == TrackQuartet(counted, e)
           blank == [tracked EXCEPT !.fActualHelicity = kUnknown]
           loaded == LoadHelicity(blank, e, scal)
           r == [loaded EXCEPT !.fLastMPSTime = @ + missed * Period, !.fIsNewCycle = FALSE]
<1>1. NewCycle(d, e, scal, missed) = r
  BY DEF NewCycle, skip, counted, tracked, blank, loaded
<1>2. Sound(skip) /\ ~Calibrated(skip)
  <2>1. CASE missed # 0
    BY <2>1, SkipMissedSound, SkipMissedCounts DEF Calibrated
  <2>2. CASE missed = 0
    BY <2>2 DEF SkipMissed
  <2> QED
    BY <2>1, <2>2
<1> HIDE DEF skip
<1>3. Sound(counted) /\ ~Calibrated(counted)
  <2>1. counted.fNBits = skip.fNBits
    BY <1>2 DEF CountCycle, Sound, DecoderState
  <2> QED
    BY <1>2, <2>1, CountCycleSound DEF Calibrated
<1> HIDE DEF counted
<1>4. Sound(tracked) /\ ~Calibrated(tracked)
  <2>1. tracked.fNBits = 0 \/ tracked.fNBits = counted.fNBits
    BY <1>3, TrackQuartetMarks DEF Marks
  <2> QED
    BY <1>3, <2>1, TrackQuartetSound, RingAssumption DEF Calibrated
<1> HIDE DEF tracked
<1>5. Sound(blank) /\ ~Calibrated(blank) /\ blank.fActualHelicity = kUnknown
  <2>1. Members(blank) /\ SameShape(blank, tracked) /\ Unmoved(blank, tracked)
    BY <1>4, StateHasMembers, HelicityTypes
    DEF Members, SameShape, Unmoved, Sound, DecoderState
  <2>2. blank.fActualHelicity = kUnknown
    BY <1>4 DEF Sound, DecoderState
  <2> HIDE DEF blank
  <2> QED
    BY <1>4, <2>1, <2>2, UnmovedSound DEF Unmoved, Calibrated
<1> HIDE DEF blank
<1>6. loaded \in DecoderState /\ loaded.fActualHelicity = kUnknown
  BY <1>5, LoadHelicityIsSilent, LoadHelicitySound DEF Sound
<1> HIDE DEF loaded
<1>7. r.fActualHelicity = kUnknown
  BY <1>6, LoadedFrom
<1> QED
  BY <1>1, <1>7

LEMMA DecodeIsSilent ==
  ASSUME HelDelay # 0, Safe(dec), ~Calibrated(dec),
         NEW e \in EventSet, NEW skipped, NEW scal \in SUBSET Seeds, Decode(e, skipped, scal)
  PROVE  dec'.fActualHelicity = kUnknown
<1>1. dec \in DecoderState /\ Sound(dec)
  BY DEF Safe, Sound
<1>2. CASE DecodeMissedEvents(skipped) \/ DecodeDisabled \/ DecodeBeforeMPS(e, skipped)
  BY <1>1, <1>2 DEF DecodeMissedEvents, DecodeDisabled, DecodeBeforeMPS, DecoderState
<1>3. CASE DecodeFirst(e)
  BY <1>1, <1>3 DEF DecodeFirst, DecoderState
<1>4. CASE DecodeMPS(e, skipped)
  BY <1>1, <1>4 DEF DecodeMPS, DecoderState
<1>5. CASE DecodeSameCycle(e, skipped)
  BY <1>1, <1>5 DEF DecodeSameCycle, DecoderState
<1>6. CASE DecodeNewCycle(e, skipped, scal)
  <2>1. dec' = NewCycle(dec, e, scal, PeriodsMissed(dec, e))
    BY <1>6 DEF DecodeNewCycle
  <2> QED
    BY <1>1, <2>1, NewCycleIsSilent, PeriodsMissedType
<1> QED
  BY <1>2, <1>3, <1>4, <1>5, <1>6 DEF Decode, DecodeInTime

LEMMA DecodeStaysEnabled ==
  ASSUME Safe(dec), ~dec.fDisabled,
         NEW e \in EventSet, NEW scal \in SUBSET Seeds, Decode(e, FALSE, scal)
  PROVE  ~dec'.fDisabled
<1>1. dec \in DecoderState /\ Sound(dec)
  BY DEF Safe, Sound
<1>2. CASE DecodeInTime(e) \/ DecodeBeforeMPS(e, FALSE) \/ DecodeFirst(e)
  BY <1>1, <1>2 DEF DecodeInTime, DecodeBeforeMPS, DecodeFirst, DecoderState
<1>3. CASE DecodeMPS(e, FALSE)
  BY <1>1, <1>3 DEF DecodeMPS, DecoderState
<1>4. CASE DecodeSameCycle(e, FALSE)
  BY <1>1, <1>4 DEF DecodeSameCycle, FromRings, DecoderState
<1>5. CASE DecodeNewCycle(e, FALSE, scal)
  <2> DEFINE missed == PeriodsMissed(dec, e)
             seen == IF missed = 0 /\ Calibrated(dec) THEN FromRings(dec) ELSE dec
  <2>1. dec' = NewCycle(seen, e, scal, missed)
    BY <1>5 DEF DecodeNewCycle
  <2>2. Sound(seen) /\ seen.fDisabled = dec.fDisabled
    BY <1>1, FromRingsSound DEF FromRings, DecoderState
  <2>3. missed \in Nat
    BY <1>1, PeriodsMissedType
  <2> HIDE DEF missed, seen
  <2> QED
    BY <2>1, <2>2, <2>3, NewCycleKeeps
<1> QED
  BY <1>2, <1>3, <1>4, <1>5 DEF Decode, DecodeMissedEvents, DecodeDisabled

\* A prediction that comes true is an answer.
LEMMA LoadHelicityAnswersAll ==
  ASSUME NEW d, Sound(d), Marked(d), Calibrated(d), d.fFoundQuartet,
         NEW e \in EventSet, NEW scal \in SUBSET Seeds,
         PhaseOf(d) = 0 => e.reported = InQuartet(0, Sign(RanBit30(d.fRingSeed_reported)[1]))
  PROVE  LET r == LoadHelicity(d, e, scal)
         IN  Calibrated(r) /\ r.fActualHelicity # kUnknown
<1> DEFINE q == [d EXCEPT !.fnQrt = PhaseOf(d)]
<1>1. q \in DecoderState /\ Calibrated(q) /\ PhaseOf(q) = PhaseOf(d) /\ q.fFoundQuartet
      /\ q.fRingSeed_reported = d.fRingSeed_reported /\ q.fRingSeed_reported \in Seeds
      /\ q.fQuartetStartHelicity = Sign(d.fRingSeed_actual[1])
  <2>1. d \in DecoderState /\ PhaseOf(d) \in Int
    BY StateHasMembers DEF Sound, Members, PhaseOf
  <2> QED
    BY <2>1 DEF DecoderState, Calibrated, PhaseOf, Marked
<1>2. LoadHelicity(d, e, scal) = Predict(q, e)
  BY <1>1 DEF LoadHelicity
<1> HIDE DEF q
<1>3. CASE PhaseOf(q) # 0
  <2> DEFINE r == Predict(q, e)
  <2>1. r.fNBits = q.fNBits /\ r.fActualHelicity = InQuartet(PhaseOf(q), Sign(d.fRingSeed_actual[1]))
    BY <1>1, <1>3 DEF Predict, DecoderState
  <2> HIDE DEF r
  <2> QED
    BY <1>1, <1>2, <2>1, SignIsKnown DEF Calibrated, r
<1>4. CASE PhaseOf(q) = 0
  <2> DEFINE a == AdvanceRings(q, 1)
             r == FromRings(a)
  <2>1. /\ a \in DecoderState /\ a.fNBits = q.fNBits /\ PhaseOf(a) = 0
        /\ a.fRingSeed_reported = RanBit30(q.fRingSeed_reported)
    <3>1. Advance[0 + 1][q.fRingSeed_reported] = RanBit30(q.fRingSeed_reported)
      BY <1>1, AdvanceDefined
    <3>2. PICK s \in Seeds : s = Advance[1][q.fRingSeed_reported]
      BY <1>1, AdvanceDefined DEF DecoderState
    <3>3. PICK u \in Seeds : u = Advance[1][q.fRingSeed_actual]
      BY <1>1, AdvanceDefined DEF DecoderState
    <3>4. a = [q EXCEPT !.fRingSeed_reported = s, !.fRingSeed_actual = u]
      BY <1>1, <3>2, <3>3 DEF AdvanceRings, DecoderState
    <3> HIDE DEF a
    <3>5. /\ a \in DecoderState /\ a.fNBits = q.fNBits /\ a.fRingSeed_reported = s
          /\ a.fNCycle = q.fNCycle /\ a.fFirstCycle = q.fFirstCycle
      <4>1. q \in DecoderState
        BY <1>1
      <4>2. a \in DecoderState
        BY <3>4, <4>1 DEF DecoderState
      <4> QED
        BY <3>4, <4>1, <4>2 DEF DecoderState
    <3> QED
      BY <1>4, <3>1, <3>2, <3>5 DEF PhaseOf
  <2> HIDE DEF a
  <2>2. /\ r.fNBits = a.fNBits
        /\ r.fPredictedHelicity = InQuartet(0, Sign(a.fRingSeed_reported[1]))
        /\ r.fActualHelicity = InQuartet(0, Sign(a.fRingSeed_actual[1]))
    BY <2>1 DEF FromRings, DecoderState
  <2>3. Predict(q, e) = IF r.fPredictedHelicity = e.reported THEN r ELSE Predict(q, e)
    BY <1>4 DEF Predict, a
  <2> HIDE DEF r
  <2>4. r.fPredictedHelicity = e.reported
    BY <1>1, <1>4, <2>1, <2>2
  <2> QED
    BY <1>1, <1>2, <2>1, <2>2, <2>3, <2>4, SignIsKnown DEF Calibrated
<1> QED
  BY <1>3, <1>4
\* A decoder that is right and calibrated stays calibrated over an event without fault,
\* and gives it a helicity after its MPS.
LEMMA DecodeAnswers ==
  ASSUME HelDelay # 0, Safe(dec), Marked(dec), ~dec.fDisabled, Calibrated(dec),
         dec.fFirstEvProcessed, dec.fFoundMPS, ~dec.fIsNewCycle,
         dec.fNQuartet = QuartetOf(dec), phase0 \in 0 .. 3,
         NEW w \in Nat, NEW v \in Nat, w <= v, MPSWindow(dec, w),
         NEW ring \in Seeds, RightAt(dec, w, ring),
         NEW now \in Seeds, now = Advance[QuartetsTo(v) - QuartetsTo(w)][ring],
         NEW tk \in 0 .. Period - 1, NEW e, EventAt(e, v, tk),
         e.qrt <=> (v + phase0) % 4 = 0,
         e.reported = InQuartet((v + phase0) % 4, Sign(now[1])),
         NEW scal \in SUBSET Seeds, Decode(e, FALSE, scal)
  PROVE  Calibrated(dec') /\ (tk >= MPSTicks => dec'.fActualHelicity # kUnknown)
<1>1. dec \in DecoderState /\ Sound(dec)
  BY DEF Safe, Sound
<1>2. /\ e \in EventSet /\ e.time = v * Period + tk /\ (e.mps <=> tk < MPSTicks)
  BY DEF EventAt
<1>3. CASE e.mps
  <2>1. DecodeMPS(e, FALSE)
    BY <1>3
    DEF Decode, DecodeInTime, DecodeMissedEvents, DecodeDisabled, DecodeFirst,
        DecodeBeforeMPS, DecodeSameCycle, DecodeNewCycle
  <2>2. dec'.fNBits = dec.fNBits
    BY <1>1, <2>1 DEF DecodeMPS, DecoderState
  <2> QED
    BY <1>2, <1>3, <2>2, DecoderAssumption DEF Calibrated
<1>4. CASE ~e.mps
  <2>1. tk >= MPSTicks
    BY <1>2, <1>4, DecoderAssumption
  <2>2. PICK missed \in Nat : missed = v - w /\ PeriodsMissed(dec, e) = missed
    BY <1>2, <2>1, PeriodsAreCounted
  <2>3. IF missed = 0 THEN dec' = FromRings(dec) ELSE dec' = NewCycle(dec, e, scal, missed)
    <3> DEFINE m == PeriodsMissed(dec, e)
               seen == IF m = 0 /\ Calibrated(dec) THEN FromRings(dec) ELSE dec
    <3>1. \/ m = 0 /\ dec' = FromRings(dec)
          \/ m > 0 /\ dec' = NewCycle(seen, e, scal, m)
      BY <1>4
      DEF Decode, DecodeInTime, DecodeMissedEvents, DecodeDisabled, DecodeFirst,
          DecodeBeforeMPS, DecodeMPS, DecodeSameCycle, DecodeNewCycle
    <3>2. m = missed
      BY <2>2
    <3> HIDE DEF m
    <3>3. missed > 0 => seen = dec
      BY <3>2
    <3> HIDE DEF seen
    <3> QED
      BY <3>1, <3>2, <3>3
  <2>4. CASE missed = 0
    <3>1. dec' = FromRings(dec)
      BY <2>3, <2>4
    <3>2. /\ FromRings(dec).fNBits = dec.fNBits
          /\ FromRings(dec).fActualHelicity = InQuartet(PhaseOf(dec), Sign(dec.fRingSeed_actual[1]))
      BY <1>1 DEF FromRings, DecoderState
    <3> QED
      BY <3>1, <3>2, SignIsKnown DEF Calibrated
  <2>5. CASE missed # 0
    <3> DEFINE r == NewCycle(dec, e, scal, missed)
    <3>1. dec' = r
      BY <2>3, <2>5
    <3>2. PICK y \in Int : y = w + phase0 /\ y + missed = v + phase0
      BY <2>2
    <3>3. now = Advance[(y + missed) \div 4 - y \div 4][ring]
      BY <3>2 DEF QuartetsTo
    <3>4. /\ dec.fFoundQuartet /\ dec.fHaveQRT /\ PhaseOf(dec) = y % 4 /\ BitsAre(dec, ring)
      BY <3>2 DEF RightAt, LockedAt
    <3>5. (e.qrt <=> (y + missed) % 4 = 0) \/ dec.fNQRTProblems + 1 <= MaxQRTProblems
      BY <3>2
    <3>6. missed \in Nat \ {0}
      BY <2>5
    <3>7. PICK blank \in DecoderState :
            /\ Loaded(r, blank, e, scal, missed)
            /\ Sound(blank) /\ Marked(blank) /\ blank.fHaveQRT /\ blank.fFoundQuartet
            /\ PhaseOf(blank) = (y + missed) % 4 /\ blank.fActualHelicity = kUnknown
            /\ blank.fNBits = dec.fNBits
            /\ Calibrated(blank) => \E last \in Seeds :
                 /\ blank.fRingSeed_reported = last
                 /\ now = IF PhaseOf(blank) = 0 THEN RanBit30(last) ELSE last
      BY <1>1, <1>2, <3>3, <3>4, <3>5, <3>6, NewCycleLoads
    <3> HIDE DEF r
    <3> DEFINE loaded == LoadHelicity(blank, e, scal)
    <3>8. Calibrated(blank)
      BY <3>7 DEF Calibrated
    <3>9. PhaseOf(blank) = 0 => e.reported = InQuartet(0, Sign(RanBit30(blank.fRingSeed_reported)[1]))
      BY <3>2, <3>7, <3>8
    <3>10. Calibrated(loaded) /\ loaded.fActualHelicity # kUnknown
      BY <1>2, <3>7, <3>8, <3>9, LoadHelicityAnswersAll
    <3>11. Sound(loaded)
      BY <1>2, <3>7, LoadHelicitySound
    <3>12. r = [loaded EXCEPT !.fLastMPSTime = @ + missed * Period, !.fIsNewCycle = FALSE]
      BY <3>7 DEF Loaded
    <3> HIDE DEF loaded
    <3>13. r.fNBits = loaded.fNBits /\ r.fActualHelicity = loaded.fActualHelicity
      <4>1. PICK l \in DecoderState : l = loaded
        BY <3>11 DEF Sound
      <4>2. r = [l EXCEPT !.fLastMPSTime = @ + missed * Period, !.fIsNewCycle = FALSE]
        BY <3>12, <4>1
      <4>3. r.fNBits = l.fNBits /\ r.fActualHelicity = l.fActualHelicity
        BY <4>2 DEF DecoderState
      <4> QED
        BY <4>1, <4>3
    <3> QED
      BY <3>1, <3>10, <3>13 DEF Calibrated
  <2> QED
    BY <2>4, <2>5
<1> QED
  BY <1>3, <1>4

\* An event without fault leaves a decoder that searches searching, or right.
LEMMA DecodeSearches ==
  ASSUME MPSIsShort, HelDelay # 0, BeamTypes, Safe(dec), NEW u \in Nat, NEW v \in Nat, u <= v,
         NEW t \in Int, TellsTruth(dec, u, t), NEW f, Counted(dec, u, t, f),
         NEW tk \in 0 .. Period - 1, u = v => t <= tk,
         NEW e, EventAt(e, v, tk), NEW skipped, NEW scal \in SUBSET Seeds,
         Decode(e, skipped, scal),
         LostAt(dec, (dec.fLastMPSTime \div Period + phase0) % 4),
         e.qrt <=> (v + phase0) % 4 = 0,
         NEW now \in Seeds, e.reported \in {kUnknown, InQuartet((v + phase0) % 4, Sign(now[1]))},
         scal # {} => RanBit30(CHOOSE s \in scal : TRUE) = now
  PROVE  \/ LostAt(dec', (dec'.fLastMPSTime \div Period + phase0) % 4)
         \/ /\ MPSWindow(dec', v) /\ LockedAt(dec', (v + phase0) % 4, now)
            /\ e.reported # kUnknown => dec'.fNBits >= 1
<1>1. \/ dec.fNCycle = 0 /\ Waits(dec', dec)
      \/ dec.fNCycle > 0 /\ Stays(u)
      \/ Counts(u, v, tk, e, scal)
  BY DecodeOutcomes
<1>2. phase0 \in 0 .. 3 /\ e \in EventSet
  BY DEF BeamTypes, EventAt
<1>3. CASE dec.fNCycle = 0 /\ Waits(dec', dec)
  BY <1>3 DEF Waits, LostAt
<1>4. CASE dec.fNCycle > 0 /\ Stays(u)
  <2>1. PICK w \in 0 .. u : MPSWindow(dec, w) /\ MPSWindow(dec', w)
    BY <1>4 DEF Stays
  <2>2. dec.fLastMPSTime \div Period = w /\ dec'.fLastMPSTime \div Period = w
    BY <2>1, WindowOfMPS
  <2> QED
    BY <1>4, <2>2 DEF Stays, Standing, LostAt
<1>5. CASE Counts(u, v, tk, e, scal)
  <2>1. PICK w \in 0 .. u, seen \in DecoderState :
          /\ MPSWindow(dec, w) /\ Sound(seen) /\ Standing(seen, dec)
          /\ dec' = NewCycle(seen, e, scal, v - w)
          /\ dec.fNCycle > 0 => w < v
    BY <1>5 DEF Counts
  <2>2. PICK missed \in Nat : missed = v - w
    BY <2>1
  <2>3. PICK p \in 0 .. 3 : p = (w + phase0) % 4
    BY <1>2
  <2>4. PICK q \in 0 .. 3 : q = (v + phase0) % 4
    BY <1>2
  <2>5. q = (p + missed) % 4
    <3>1. PICK y \in Int : y = w + phase0 /\ y + missed = v + phase0
      BY <1>2, <2>2
    <3>2. p \in Int /\ p % 4 = y % 4
      BY <2>3, <3>1
    <3> QED
      BY <2>4, <3>1, <3>2, QuartetsAgree
  <2>6. LostAt(seen, p)
    <3>1. dec.fLastMPSTime \div Period = w
      BY <2>1, WindowOfMPS
    <3> QED
      BY <2>1, <2>3, <3>1 DEF Standing, LostAt
  <2>7. seen.fNCycle # 0 => missed # 0 /\ q = (p + missed) % 4
    <3>1. dec.fNCycle \in Nat
      BY StateHasMembers DEF Safe, Sound, Members
    <3> QED
      BY <2>1, <2>2, <2>5, <3>1 DEF Standing
  <2> DEFINE r == NewCycle(seen, e, scal, missed)
  <2>8. (e.qrt <=> q = 0) /\ e.reported \in {kUnknown, InQuartet(q, Sign(now[1]))}
    BY <2>4
  <2>9. IF q = 0 THEN LockedAt(r, 0, now) /\ (e.reported # kUnknown => r.fNBits >= 1)
        ELSE LostAt(r, q)
    BY <1>2, <2>1, <2>6, <2>7, <2>8, NewCycleSearches
  <2>10. dec' = r
    BY <2>1, <2>2
  <2> HIDE DEF r
  <2>11. MPSWindow(dec', v) /\ dec'.fLastMPSTime \div Period = v
    BY <1>5, WindowOfMPS DEF Counts
  <2> QED
    BY <2>4, <2>9, <2>10, <2>11
<1> QED
  BY <1>1, <1>3, <1>4, <1>5
---------------------------------------------------------------------------
(* The decoder implements its abstract specification.                      *)

\* The report is delayed, the QRT flag recorded, each event decoded without fault, and a
\* seed the scaler offers is one quartet behind.
HealthyRuns ==
  \A s \in Setups : /\ s.HelDelay # 0 /\ s.HaveQRTSignal /\ s.MaxFaults = 0
                    /\ ~s.EventsMissed /\ s.ScalerLags \subseteq {1}

\* From the first flag on the decoder is right; before, it has found nothing.
HealthyInv ==
  /\ KeptInv /\ ~dec.fDisabled
  /\ IF dec.fHaveQRT THEN Right
     ELSE LostAt(dec, (dec.fLastMPSTime \div Period + phase0) % 4)

LEMMA HealthyRunsAre ==
  ASSUME HealthyRuns
  PROVE  /\ FaultsAreTolerated /\ SeedIsOneBehind
         /\ setup \in Setups => /\ HelDelay # 0 /\ HaveQRTSignal /\ setup.MaxFaults = 0
                                /\ ~setup.EventsMissed
<1>1. MaxQRTProblems \in Nat
  BY DecoderAssumption
<1> QED
  BY <1>1 DEF HealthyRuns, FaultsAreTolerated, SeedIsOneBehind, HelDelay, HaveQRTSignal

LEMMA LockIsRight ==
  ASSUME phase0' = phase0, phase0 \in 0 .. 3, win' \in Nat, beam' \in Seeds,
         MPSWindow(dec', win'), LockedAt(dec', (win' + phase0) % 4, beam')
  PROVE  Right'
<1>1. WindowSeen' = win'
  BY WindowOfMPS DEF WindowSeen
<1>2. BeamSeen' = beam'
  <2>1. PICK w \in Nat : w = win' /\ w + phase0 \in Int
    OBVIOUS
  <2>2. (w + phase0) \div 4 \in Int
    BY <2>1
  <2>3. (w + phase0) \div 4 - (w + phase0) \div 4 = 0
    BY <2>2
  <2> QED
    BY <1>1, <2>1, <2>3, RetreatDefined DEF BeamSeen
<1> QED
  BY <1>1, <1>2 DEF Right, PhaseRight, LockedAt, BitsAre, PhaseOf

\* A step of a run without fault.
LEMMA HealthyStepIs ==
  ASSUME HealthyRuns, HealthyInv, Next
  PROVE  \E g \in Nat, scal \in SUBSET Seeds, e \in EventSet :
           /\ EventAt(e, win', tick') /\ Decode(e, FALSE, scal)
           /\ setup' = setup /\ phase0' = phase0 /\ win' = win + g
           /\ win \in Nat /\ tick \in Int /\ tick' \in 0 .. Period - 1 /\ (g = 0 => tick <= tick')
           /\ beam' \in Seeds /\ beam' = Advance[(TruePhase + g) \div 4][beam]
           /\ e.reported = InQuartet((win' + phase0) % 4, Sign(beam'[1]))
           /\ e.qrt <=> (win' + phase0) % 4 = 0
           /\ scal # {} => RanBit30(CHOOSE s \in scal : TRUE) = beam'
<1>1. TruthInv /\ setup \in Setups /\ BeamTypes
  BY DEF HealthyInv, KeptInv, TruthInv, IndInv
<1>2. /\ SeedIsOneBehind /\ HelDelay # 0 /\ HaveQRTSignal /\ setup.MaxFaults = 0
      /\ ~setup.EventsMissed
  BY <1>1, HealthyRunsAre
<1>3. PICK g \in Nat, scal \in SUBSET Seeds, skipped \in BOOLEAN, e \in EventSet :
        StepOf(e, g, scal, skipped)
  BY <1>1, StepIs
<1>4. e.qrt <=> (win' + phase0) % 4 = 0
  <2> SUFFICES ASSUME ~(e.qrt <=> (win' + phase0) % 4 = 0) PROVE FALSE
    OBVIOUS
  <2>1. faults + 1 <= setup.MaxFaults
    BY <1>2, <1>3 DEF StepOf
  <2> QED
    BY <1>2, <1>3, <2>1 DEF StepOf
<1>5. Decode(e, FALSE, scal)
  <2>1. skipped = FALSE
    BY <1>2, <1>3 DEF StepOf
  <2> QED
    BY <1>3, <2>1 DEF StepOf
<1>6. beam' \in Seeds
  <2>1. (TruePhase + g) \div 4 \in Nat /\ beam \in Seeds
    BY <1>1, <1>3 DEF StepOf, TruePhase, BeamTypes
  <2> QED
    BY <1>3, <2>1, AdvanceDefined DEF StepOf
<1>7. /\ EventAt(e, win', tick')
      /\ setup' = setup /\ phase0' = phase0 /\ win' = win + g
      /\ win \in Nat /\ tick \in Int /\ tick' \in 0 .. Period - 1 /\ (g = 0 => tick <= tick')
      /\ beam' = Advance[(TruePhase + g) \div 4][beam]
      /\ e.reported = InQuartet((win' + phase0) % 4, Sign(beam'[1]))
      /\ scal # {} => RanBit30(CHOOSE s \in scal : TRUE) = beam'
  BY <1>2, <1>3 DEF StepOf
<1> WITNESS g \in Nat, scal \in SUBSET Seeds, e \in EventSet
<1> QED
  BY <1>4, <1>5, <1>6, <1>7

LEMMA InitialHealthy == Init => HealthyInv
<1> SUFFICES ASSUME Init PROVE HealthyInv
  OBVIOUS
<1>1. /\ ~dec.fDisabled /\ ~dec.fHaveQRT /\ ~dec.fFoundQuartet /\ dec.fNBits = 0
      /\ dec.fNCycle = 0 /\ \A i \in 0 .. 3 : dec.fQuartet[i] = 0
  BY DEF Init
<1> QED
  BY <1>1, InitialCounts DEF HealthyInv, LostAt

LEMMA StepKeepsHealthy ==
  ASSUME HealthyRuns, MPSIsShort, HealthyInv, [Next]_vars
  PROVE  HealthyInv'
<1>1. KeptInv'
  BY StepKeepsCounts DEF HealthyInv
<1>2. setup \in Setups /\ BeamTypes /\ Safe(dec)
  BY DEF HealthyInv, KeptInv, TruthInv, IndInv
<1>3. FaultsAreTolerated /\ SeedIsOneBehind /\ HelDelay # 0 /\ HaveQRTSignal
  BY <1>2, HealthyRunsAre
<1>4. CASE Next
  <2>1. PICK g \in Nat, scal \in SUBSET Seeds, e \in EventSet :
          /\ EventAt(e, win', tick') /\ Decode(e, FALSE, scal)
          /\ setup' = setup /\ phase0' = phase0 /\ win' = win + g
          /\ win \in Nat /\ tick \in Int /\ tick' \in 0 .. Period - 1 /\ (g = 0 => tick <= tick')
          /\ beam' \in Seeds
          /\ e.reported = InQuartet((win' + phase0) % 4, Sign(beam'[1]))
          /\ e.qrt <=> (win' + phase0) % 4 = 0
          /\ scal # {} => RanBit30(CHOOSE s \in scal : TRUE) = beam'
    BY <1>4, HealthyStepIs
  <2>2. ~dec'.fDisabled
    BY <1>2, <2>1, DecodeStaysEnabled DEF HealthyInv
  <2>3. CASE dec.fHaveQRT
    <3>1. Right'
      BY <1>3, <2>3, StepKeepsRight DEF HealthyInv
    <3>2. dec'.fHaveQRT
      BY <1>3, <2>1, <3>1 DEF Right, HaveQRTSignal
    <3> QED
      BY <1>1, <2>2, <3>1, <3>2 DEF HealthyInv
  <2>4. CASE ~dec.fHaveQRT
    <3>1. TellsTruth(dec, win, tick) /\ Counted(dec, win, tick, faults)
      BY <1>3 DEF HealthyInv, KeptInv, TruthInv
    <3>2. LostAt(dec, (dec.fLastMPSTime \div Period + phase0) % 4)
      BY <2>4 DEF HealthyInv
    <3>3. /\ win' \in Nat /\ win <= win' /\ (win = win' => tick <= tick')
          /\ phase0 \in 0 .. 3 /\ MaxQRTProblems \in Nat
      BY <1>2, <2>1, DecoderAssumption DEF BeamTypes
    <3>4. PICK now \in Seeds : now = beam'
      BY <2>1
    <3>5. /\ e.reported \in {kUnknown, InQuartet((win' + phase0) % 4, Sign(now[1]))}
          /\ scal # {} => RanBit30(CHOOSE s \in scal : TRUE) = now
      BY <2>1, <3>4
    <3>6. \/ LostAt(dec', (dec'.fLastMPSTime \div Period + phase0) % 4)
          \/ MPSWindow(dec', win') /\ LockedAt(dec', (win' + phase0) % 4, now)
      BY <1>2, <1>3, <2>1, <3>1, <3>2, <3>3, <3>5, DecodeSearches
    <3>7. CASE LostAt(dec', (dec'.fLastMPSTime \div Period + phase0) % 4)
      <4>1. LostAt(dec, (dec.fLastMPSTime \div Period + phase0) % 4)'
        BY <2>1, <3>7 DEF LostAt
      <4> QED
        BY <1>1, <2>2, <3>7, <4>1 DEF HealthyInv, LostAt
    <3>8. CASE MPSWindow(dec', win') /\ LockedAt(dec', (win' + phase0) % 4, now)
      <4>1. Right'
        BY <2>1, <3>3, <3>4, <3>8, LockIsRight
      <4> QED
        BY <1>1, <2>2, <3>8, <4>1 DEF HealthyInv, LockedAt
    <3> QED
      BY <3>6, <3>7, <3>8
  <2> QED
    BY <2>3, <2>4
<1>5. CASE UNCHANGED vars
  BY <1>1, <1>5
  DEF vars, HealthyInv, LostAt, Right, PhaseRight, WindowSeen, BeamSeen, PhaseOf, HaveQRTSignal
<1> QED
  BY <1>4, <1>5
\* The initial state is one of the abstract specification.
LEMMA InitialOracle ==
  ASSUME Init
  PROVE  Oracle!Init
<1>1. dec.fNBits = 0 /\ dec.fActualHelicity = kUnknown
  BY DEF Init
<1>2. ~Calibrated(dec)
  BY <1>1, NoBitsNotCalibrated
<1>3. TrueHelicity \in {-1, 1}
  BY SignIsKnown DEF TrueHelicity
<1> QED
  BY <1>1, <1>2, <1>3 DEF Oracle!Init, Oracle!Signs, Oracle!Unknown, kUnknown

\* An event is a step of Search or of Answer.
LEMMA StepIsOracle ==
  ASSUME HealthyRuns, MPSIsShort, HealthyInv, RightIsTrue', Next
  PROVE  Oracle!Next
<1>1. /\ setup \in Setups /\ BeamTypes /\ Safe(dec) /\ KeptInv
      /\ FaultsAreTolerated /\ SeedIsOneBehind /\ HelDelay # 0 /\ HaveQRTSignal
  BY HealthyRunsAre DEF HealthyInv, KeptInv, TruthInv, IndInv
<1>2. PICK g \in Nat, scal \in SUBSET Seeds, e \in EventSet :
        /\ EventAt(e, win', tick') /\ Decode(e, FALSE, scal)
        /\ setup' = setup /\ phase0' = phase0 /\ win' = win + g
        /\ win \in Nat /\ tick' \in 0 .. Period - 1
        /\ beam' \in Seeds /\ beam' = Advance[(TruePhase + g) \div 4][beam]
        /\ e.reported = InQuartet((win' + phase0) % 4, Sign(beam'[1]))
        /\ e.qrt <=> (win' + phase0) % 4 = 0
  BY HealthyStepIs
<1>3. TrueHelicity' \in {-1, 1} /\ (tick < MPSTicks)' \in BOOLEAN
  BY SignIsKnown DEF TrueHelicity
<1>4. CASE ~Calibrated(dec)
  <2>1. dec'.fActualHelicity = kUnknown
    BY <1>1, <1>2, <1>4, DecodeIsSilent
  <2>2. Calibrated(dec)' \in BOOLEAN
    BY DEF Calibrated
  <2> QED
    BY <1>3, <1>4, <2>1, <2>2 DEF Oracle!Next, Oracle!Search, Oracle!Signs, Oracle!Unknown, kUnknown
<1>5. CASE Calibrated(dec)
  <2>1. Right /\ ~dec.fDisabled
    BY <1>5, NoBitsNotCalibrated DEF HealthyInv, LostAt
  <2>2. TellsTruth(dec, win, tick) /\ Counted(dec, win, tick, faults)
    BY <1>1 DEF KeptInv, TruthInv
  <2>3. /\ dec.fHaveQRT /\ dec.fFirstEvProcessed /\ dec.fFoundMPS /\ ~dec.fIsNewCycle
        /\ dec.fNQuartet = QuartetOf(dec) /\ Marked(dec)
    BY <1>1, <2>1, <2>2 DEF Right, Counted, TellsTruth
  <2>4. PICK w \in 0 .. win : MPSWindow(dec, w)
    BY <2>2, <2>3 DEF TellsTruth
  <2>5. /\ win' \in Nat /\ phase0 \in 0 .. 3 /\ beam \in Seeds /\ w \in Nat /\ w <= win'
        /\ win' \in w .. win + g
    BY <1>1, <1>2, <2>4 DEF BeamTypes
  <2>6. PICK ring \in Seeds : ring = Retreat[QuartetsTo(win) - QuartetsTo(w)][beam]
    <3>1. QuartetsTo(win) - QuartetsTo(w) \in Nat
      BY <1>2, <2>4, <2>5 DEF QuartetsTo
    <3> QED
      BY <2>5, <3>1, RetreatDefined
  <2>7. RightAt(dec, w, ring)
    BY <1>1, <2>1, <2>4, <2>6, RightIsAt
  <2>8. beam' = Advance[QuartetsTo(win') - QuartetsTo(w)][ring]
    <3>1. Retreat[QuartetsTo(win + g) - QuartetsTo(win')][beam'] =
            Advance[QuartetsTo(win') - QuartetsTo(w)][ring]
      BY <1>1, <1>2, <2>4, <2>5, <2>6, BeamMoves
    <3>2. QuartetsTo(win + g) - QuartetsTo(win') = 0
      <4>1. PICK x \in Nat : x = win' /\ x + phase0 \in Int
        BY <2>5
      <4>2. QuartetsTo(x) \in Int
        BY <4>1 DEF QuartetsTo
      <4>3. QuartetsTo(x) - QuartetsTo(x) = 0
        BY <4>2
      <4> QED
        BY <1>2, <4>1, <4>3
    <3> QED
      BY <1>2, <3>1, <3>2, RetreatDefined
  <2>9. PICK now \in Seeds : now = beam'
    BY <1>2
  <2>10. Calibrated(dec') /\ (tick' >= MPSTicks => dec'.fActualHelicity # kUnknown)
    <3>1. /\ now = Advance[QuartetsTo(win') - QuartetsTo(w)][ring]
          /\ e.reported = InQuartet((win' + phase0) % 4, Sign(now[1]))
      BY <1>2, <2>8, <2>9
    <3> QED
      BY <1>1, <1>2, <1>5, <2>1, <2>3, <2>4, <2>5, <2>7, <3>1, DecodeAnswers
  <2>11. Right'
    BY <1>1, <2>1, StepKeepsRight
  <2>12. dec'.fActualHelicity \in {kUnknown, TrueHelicity'}
    BY <2>11 DEF RightIsTrue, TrueOrUnknown
  <2>13. tick' < MPSTicks => dec'.fActualHelicity = kUnknown
    BY DEF RightIsTrue
  <2>14. tick' < MPSTicks \/ tick' >= MPSTicks
    BY <1>2, DecoderAssumption
  <2>15. dec'.fActualHelicity = IF tick' < MPSTicks THEN kUnknown ELSE TrueHelicity'
    BY <2>10, <2>12, <2>13, <2>14
  <2>16. Calibrated(dec)' = Calibrated(dec)
    BY <1>5, <2>10 DEF Calibrated
  <2> QED
    BY <1>3, <1>5, <2>15, <2>16
    DEF Oracle!Next, Oracle!Answer, Oracle!Signs, Oracle!Unknown, kUnknown
<1> QED
  BY <1>4, <1>5

\* In a run with the QRT flag in which nothing goes wrong, THcHelicity::Decode keeps what
\* it promises, whatever windows have no event: no answer before the calibration, which
\* is never lost, and the sign of the beam for every event after it.
THEOREM DecoderImplementsOracle ==
  ASSUME HealthyRuns, DelayIsWhole, MPSIsShort
  PROVE  Spec => ImplementsOracle
<1>1. Init => HealthyInv /\ Oracle!Init
  BY InitialHealthy, InitialOracle
<1>2. HealthyInv /\ [Next]_vars => HealthyInv'
  BY StepKeepsHealthy
<1>3. Spec => []RightIsTrue
  BY RightDecoderIsTrue
<1>4. HealthyInv /\ RightIsTrue' /\ [Next]_vars => [Oracle!Next]_(Oracle!vars)
  <2> SUFFICES ASSUME HealthyInv, RightIsTrue', [Next]_vars
               PROVE  [Oracle!Next]_(Oracle!vars)
    OBVIOUS
  <2>1. CASE Next
    BY <2>1, StepIsOracle
  <2>2. CASE UNCHANGED vars
    BY <2>2 DEF vars, Oracle!vars, TrueHelicity, TruePhase, HelDelay, Calibrated
  <2> QED
    BY <2>1, <2>2
<1> QED
  BY <1>1, <1>2, <1>3, <1>4, PTL DEF Spec, ImplementsOracle, Oracle!Spec

---------------------------------------------------------------------------
(* Without the QRT flag: the quartet test of the last four reports.        *)

\* The reports of the windows of a quartet up to phase p, whose first sign is s.
ReportsAre(f, p, s) == \A i \in 0 .. p : f[i] = InQuartet(p - i, s)

\* They are right, or a hole in them lets the test at the end of the quartet fail.
Reported(f, p, s) == ReportsAre(f, p, s) \/ (p # 3 /\ NoQuartetYet(f, p))

AllKnown(f) == \A i \in 0 .. 3 : f[i] # kUnknown

Passes(f) == f[0] + f[3] - f[1] - f[2] \in {4, -4}

\* At the end of a quartet the test passes when the reports are right, and only then if
\* the last one is.
LEMMA TestTellsReports ==
  ASSUME NEW f \in [0 .. 3 -> Helicity], NEW s \in {-1, 1}, f[0] = InQuartet(3, s)
  PROVE  Passes(f) <=> ReportsAre(f, 3, s)
<1>1. /\ f[0] \in {-1, 0, 1} /\ f[1] \in {-1, 0, 1} /\ f[2] \in {-1, 0, 1}
      /\ f[3] \in {-1, 0, 1} /\ f[0] = s
  BY DEF Helicity, kPlus, kMinus, kUnknown, InQuartet
<1>2. ReportsAre(f, 3, s) <=> f[0] = s /\ f[1] = -s /\ f[2] = -s /\ f[3] = s
  <2>1. /\ InQuartet(3 - 0, s) = s /\ InQuartet(3 - 1, s) = -s
        /\ InQuartet(3 - 2, s) = -s /\ InQuartet(3 - 3, s) = s
    BY DEF InQuartet
  <2> QED
    BY <2>1 DEF ReportsAre
<1>3. f[0] + f[3] - f[1] - f[2] \in {4, -4} <=> f[0] = s /\ f[1] = -s /\ f[2] = -s /\ f[3] = s
  <2>1. CASE s = 1
    BY <1>1, <2>1
  <2>2. CASE s = -1
    BY <1>1, <2>2
  <2> QED
    BY <2>1, <2>2
<1> QED
  BY <1>2, <1>3 DEF Passes

\* A window more of the same quartet.
LEMMA ReportsGoOn ==
  ASSUME NEW f \in [0 .. 3 -> Helicity], NEW p \in 0 .. 3, NEW s \in {-1, 1},
         ReportsAre(f, p, s), p # 3
  PROVE  ReportsAre(Shifted(f, InQuartet(p + 1, s)), p + 1, s)
<1> DEFINE g == Shifted(f, InQuartet(p + 1, s))
<1> SUFFICES ASSUME NEW i \in 0 .. p + 1 PROVE g[i] = InQuartet(p + 1 - i, s)
  BY DEF ReportsAre
<1>1. CASE i = 0
  BY <1>1 DEF Shifted
<1>2. CASE i # 0
  <2>1. i - 1 \in 0 .. p /\ i \in 0 .. 3
    BY <1>2
  <2>2. f[i - 1] = InQuartet(p - (i - 1), s) /\ g[i] = f[i - 1]
    BY <1>2, <2>1 DEF ReportsAre, Shifted
  <2>3. p - (i - 1) = p + 1 - i
    BY <2>1
  <2> QED
    BY <2>2, <2>3
<1> QED
  BY <1>1, <1>2

\* The reports made up for the windows missed are those of the quartet.
MadeUp(f, q, rep) ==
  /\ f[0] = (IF (q + 3) % 4 \in {1, 3} THEN rep ELSE -rep)
  /\ f[1] = -rep
  /\ f[2] = (IF (q + 3) % 4 \in {1, 3} THEN -rep ELSE rep)

LEMMA MadeUpAreReports ==
  ASSUME NEW f \in [0 .. 3 -> Helicity], NEW q \in 0 .. 3, NEW s \in {-1, 1},
         MadeUp(f, q, InQuartet(q, s))
  PROVE  LET g == Shifted(f, InQuartet(q, s)) IN ReportsAre(g, q, s) /\ AllKnown(g)
<1> DEFINE rep == InQuartet(q, s)
           g == Shifted(f, rep)
<1>1. g[0] = rep /\ g[1] = f[0] /\ g[2] = f[1] /\ g[3] = f[2]
  BY DEF Shifted
<1>2. rep \in {-1, 1} /\ rep = IF q \in {0, 3} THEN s ELSE -s
  BY DEF InQuartet
<1>3. (q + 3) % 4 \in {1, 3} <=> q \in {0, 2}
  OBVIOUS
<1>4. f[0] = (IF q \in {0, 2} THEN rep ELSE -rep) /\ f[1] = -rep
      /\ f[2] = (IF q \in {0, 2} THEN -rep ELSE rep)
  BY <1>3 DEF MadeUp
<1> HIDE DEF g, rep
<1>5. AllKnown(g)
  BY <1>1, <1>2, <1>4 DEF AllKnown, kUnknown
<1>6. ReportsAre(g, q, s)
  <2>1. CASE q = 0
    <3>1. g[0] = InQuartet(0 - 0, s)
      BY <1>1, <1>2, <2>1 DEF InQuartet
    <3> QED
      BY <2>1, <3>1 DEF ReportsAre
  <2>2. CASE q = 1
    <3>1. g[0] = InQuartet(1 - 0, s) /\ g[1] = InQuartet(1 - 1, s)
      BY <1>1, <1>2, <1>4, <2>2 DEF InQuartet
    <3> QED
      BY <2>2, <3>1 DEF ReportsAre
  <2>3. CASE q = 2
    <3>1. g[0] = InQuartet(2 - 0, s) /\ g[1] = InQuartet(2 - 1, s) /\ g[2] = InQuartet(2 - 2, s)
      BY <1>1, <1>2, <1>4, <2>3 DEF InQuartet
    <3> QED
      BY <2>3, <3>1 DEF ReportsAre
  <2>4. CASE q = 3
    <3>1. /\ g[0] = InQuartet(3 - 0, s) /\ g[1] = InQuartet(3 - 1, s)
          /\ g[2] = InQuartet(3 - 2, s) /\ g[3] = InQuartet(3 - 3, s)
      BY <1>1, <1>2, <1>4, <2>4 DEF InQuartet
    <3> QED
      BY <2>4, <3>1 DEF ReportsAre
  <2> QED
    BY <2>1, <2>2, <2>3, <2>4
<1> QED
  BY <1>5, <1>6 DEF g, rep

\* What a gap leaves of the last reports, by whether the decoder is calibrated.
LEMMA SkipMissedReports ==
  ASSUME NEW d, Sound(d), NEW e \in EventSet, NEW missed \in Nat, missed > 1,
         NEW y \in Int, PhaseOf(d) = y % 4, NEW q \in 0 .. 3, q = (y + missed) % 4
  PROVE  LET f == SkipMissed(d, e, missed).fQuartet
         IN  IF Calibrated(d) THEN MadeUp(f, q, e.reported) ELSE f[0] = e.reported /\ f[1] = 0
<1> DEFINE caught == [d EXCEPT !.fNCycle = @ + missed - 1]
           skip == SkipMissed(d, e, missed)
<1>1. d \in DecoderState /\ Members(d)
  BY StateHasMembers DEF Sound
<1>2. caught.fNCycle = d.fNCycle + missed - 1 /\ caught.fFirstCycle = d.fFirstCycle
      /\ caught.fQuartet = d.fQuartet /\ caught.fNBits = d.fNBits /\ caught \in DecoderState
  <2>1. d.fNCycle + missed - 1 \in Nat
    BY <1>1 DEF Members
  <2> QED
    BY <1>1, <2>1 DEF DecoderState
<1>3. PhaseOf(caught) = (q + 3) % 4
  <2>1. PICK x \in Int : x = d.fNCycle - d.fFirstCycle /\ x % 4 = y % 4
    BY <1>1 DEF Members, PhaseOf
  <2>2. caught.fNCycle - caught.fFirstCycle = x + (missed - 1)
    BY <1>1, <1>2, <2>1 DEF Members
  <2>3. (x + (missed - 1)) % 4 = (q + 3) % 4
    BY <2>1
  <2> QED
    BY <2>2, <2>3 DEF PhaseOf
<1>4. CASE ~Calibrated(d)
  <2>1. skip = [caught EXCEPT !.fActualHelicity = kUnknown,
                              !.fQuartet[0] = e.reported, !.fQuartet[1] = 0]
    BY <1>2, <1>4 DEF SkipMissed, Calibrated
  <2>2. skip.fQuartet = [d.fQuartet EXCEPT ![0] = e.reported, ![1] = 0]
    BY <1>2, <2>1 DEF DecoderState
  <2> HIDE DEF skip
  <2>3. skip.fQuartet[0] = e.reported /\ skip.fQuartet[1] = 0
    BY <1>1, <2>2 DEF Members
  <2> QED
    BY <1>4, <2>3 DEF skip
<1>5. CASE Calibrated(d)
  <2> DEFINE b == FromRings(AdvanceRings(caught, QuartetOf(caught) - QuartetOf(d)))
             c == PhaseOf(caught)
             rep == e.reported
  <2>1. b.fQuartet = d.fQuartet
    BY <1>2 DEF FromRings, AdvanceRings, DecoderState
  <2>2. skip = [b EXCEPT !.fQuartet[0] = IF c \in {1, 3} THEN rep ELSE -rep,
                         !.fQuartet[1] = -rep,
                         !.fQuartet[2] = IF c \in {1, 3} THEN -rep ELSE rep]
    BY <1>2, <1>5 DEF SkipMissed, Calibrated
  <2>3. "fQuartet" \in DOMAIN b
    BY <1>2 DEF FromRings, AdvanceRings, DecoderState
  <2> HIDE DEF b, c, skip
  <2>4. skip.fQuartet = [d.fQuartet EXCEPT ![0] = IF c \in {1, 3} THEN rep ELSE -rep,
                                           ![1] = -rep,
                                           ![2] = IF c \in {1, 3} THEN -rep ELSE rep]
    BY <2>1, <2>2, <2>3
  <2>5. d.fQuartet \in [0 .. 3 -> Helicity]
    BY <1>1 DEF Members
  <2>6. MadeUp(skip.fQuartet, q, rep)
    BY <1>3, <2>4, <2>5 DEF MadeUp, c
  <2> QED
    BY <1>5, <2>6 DEF skip
<1> QED
  BY <1>4, <1>5

\* The search finds a quartet, or keeps it, by the test at the end of one.
LEMMA SearchOutcome ==
  ASSUME NEW d, Sound(d)
  PROVE  LET r == SearchQuartet(d)
         IN  /\ r.fQuartet = d.fQuartet /\ r.fHaveQRT = d.fHaveQRT
             /\ r.fFoundQuartet =>
                  /\ PhaseOf(r) = PhaseOf(d)
                  /\ IF PhaseOf(d) = 3 THEN Passes(d.fQuartet) ELSE d.fFoundQuartet
             /\ d.fFoundQuartet /\ (PhaseOf(d) = 3 => Passes(d.fQuartet)) =>
                  /\ r.fFoundQuartet /\ PhaseOf(r) = PhaseOf(d)
                  /\ r.fNBits = d.fNBits /\ r.fRingSeed_reported = d.fRingSeed_reported
<1>1. d \in DecoderState
  BY DEF Sound
<1>2. QuartetTest(d) <=> Passes(d.fQuartet)
  BY DEF QuartetTest, Passes
<1>3. CASE PhaseOf(d) # 3
  <2> DEFINE r == CountQuartet(d)
  <2>1. SearchQuartet(d) = r
    BY <1>3 DEF SearchQuartet
  <2>2. /\ r.fQuartet = d.fQuartet /\ r.fHaveQRT = d.fHaveQRT
        /\ r.fFoundQuartet = d.fFoundQuartet
        /\ r.fNCycle = d.fNCycle /\ r.fFirstCycle = d.fFirstCycle
        /\ r.fNBits = d.fNBits /\ r.fRingSeed_reported = d.fRingSeed_reported
    BY <1>1 DEF CountQuartet, DecoderState
  <2> HIDE DEF r
  <2> QED
    BY <1>3, <2>1, <2>2 DEF PhaseOf
<1>4. CASE PhaseOf(d) = 3 /\ ~QuartetTest(d)
  <2> DEFINE r == SearchQuartet(d)
  <2>1. r.fQuartet = d.fQuartet /\ r.fHaveQRT = d.fHaveQRT /\ r.fFoundQuartet = FALSE
    BY <1>1, <1>4 DEF SearchQuartet, DecoderState
  <2> HIDE DEF r
  <2> QED
    BY <1>2, <1>4, <2>1 DEF r
<1>5. CASE PhaseOf(d) = 3 /\ QuartetTest(d)
  <2>1. CASE d.fFoundQuartet
    <3>1. SearchQuartet(d) = d
      BY <1>5, <2>1 DEF SearchQuartet
    <3> QED
      BY <1>2, <1>5, <2>1, <3>1
  <2>2. CASE ~d.fFoundQuartet
    <3> DEFINE r == SearchQuartet(d)
    <3>1. /\ r.fQuartet = d.fQuartet /\ r.fHaveQRT = d.fHaveQRT
          /\ r.fNCycle = d.fNCycle /\ r.fFirstCycle = d.fFirstCycle
      BY <1>1, <1>5, <2>2 DEF SearchQuartet, DecoderState
    <3> HIDE DEF r
    <3> QED
      BY <1>2, <1>5, <2>2, <3>1 DEF PhaseOf, r
  <2> QED
    BY <2>1, <2>2
<1> QED
  BY <1>3, <1>4, <1>5

\* The count of a window and its report.
LEMMA CountCycleReports ==
  ASSUME NEW d, Sound(d), NEW e \in EventSet
  PROVE  LET r == CountCycle(d, e)
         IN  /\ Sound(r) /\ r.fQuartet = Shifted(d.fQuartet, e.reported)
             /\ r.fNCycle = d.fNCycle + 1 /\ r.fFirstCycle = d.fFirstCycle
             /\ r.fHaveQRT = d.fHaveQRT /\ r.fFoundQuartet = d.fFoundQuartet
             /\ r.fNBits = d.fNBits /\ r.fRingSeed_reported = d.fRingSeed_reported
             /\ r.fNQRTProblems = d.fNQRTProblems /\ Marks(r, d)
<1> DEFINE r == CountCycle(d, e)
<1>1. /\ r.fQuartet = Shifted(d.fQuartet, e.reported)
      /\ r.fNCycle = d.fNCycle + 1 /\ r.fFirstCycle = d.fFirstCycle
      /\ r.fHaveQRT = d.fHaveQRT /\ r.fFoundQuartet = d.fFoundQuartet
      /\ r.fNBits = d.fNBits /\ r.fRingSeed_reported = d.fRingSeed_reported
      /\ r.fNQRTProblems = d.fNQRTProblems /\ Marks(r, d)
  BY DEF CountCycle, Shifted, Marks, Sound, DecoderState
<1>2. Sound(r)
  BY CountCycleSound
<1> QED
  BY <1>1, <1>2

\* A window without the flag: the quartet is found, if it is, with the reports right,
\* or as before with one report more.
LEMMA NewCycleReports ==
  ASSUME NEW d, Sound(d), ~d.fHaveQRT, NEW e \in EventSet, ~e.qrt, NEW scal \in SUBSET Seeds,
         NEW missed \in Nat, NEW y \in Int, d.fFoundQuartet => missed # 0,
         NEW q \in 0 .. 3, q = (y + missed) % 4, NEW s \in {-1, 1}, e.reported = InQuartet(q, s),
         d.fFoundQuartet /\ PhaseOf(d) = y % 4 /\ missed = 1 /\ q # 0 =>
           Reported(d.fQuartet, y % 4, s)
  PROVE  LET r == NewCycle(d, e, scal, missed)
         IN  /\ ~r.fHaveQRT
             /\ r.fFoundQuartet /\ PhaseOf(r) = q => Reported(r.fQuartet, q, s)
<1> DEFINE skip == SkipMissed(d, e, missed)
           counted == CountCycle(skip, e)
           tracked == TrackQuartet(counted, e)
           blank == [tracked EXCEPT !.fActualHelicity = kUnknown]
           loaded == LoadHelicity(blank, e, scal)
           r == [loaded EXCEPT !.fLastMPSTime = @ + missed * Period, !.fIsNewCycle = FALSE]
           g == Shifted(skip.fQuartet, e.reported)
<1>1. NewCycle(d, e, scal, missed) = r
  BY DEF NewCycle, skip, counted, tracked, blank, loaded
<1>2. e.reported \in Helicity /\ d \in DecoderState /\ d.fQuartet \in [0 .. 3 -> Helicity]
      /\ d.fNCycle \in Nat /\ d.fFirstCycle \in Int
  BY StateHasMembers DEF EventSet, Sound, Members
<1>3. /\ Sound(skip) /\ ~skip.fHaveQRT /\ skip.fFoundQuartet = d.fFoundQuartet
      /\ missed # 0 => skip.fNCycle = d.fNCycle + missed - 1 /\ skip.fFirstCycle = d.fFirstCycle
      /\ missed <= 1 => skip = d
  <2>1. Sound(skip)
    BY SkipMissedSound
  <2>2. missed <= 1 => skip = d
    BY DEF SkipMissed
  <2>3. missed # 0 => /\ skip.fNCycle = d.fNCycle + missed - 1 /\ skip.fFirstCycle = d.fFirstCycle
                      /\ skip.fHaveQRT = d.fHaveQRT /\ skip.fFoundQuartet = d.fFoundQuartet
    BY SkipMissedCounts, Zenon
  <2> HIDE DEF skip
  <2> QED
    BY <2>1, <2>2, <2>3
<1>4. missed > 1 => LET f == skip.fQuartet
                    IN  PhaseOf(d) = y % 4 =>
                          IF Calibrated(d) THEN MadeUp(f, q, e.reported)
                          ELSE f[0] = e.reported /\ f[1] = 0
  BY SkipMissedReports
<1> HIDE DEF skip
<1>5. /\ Sound(counted) /\ counted.fQuartet = g /\ ~counted.fHaveQRT
      /\ counted.fFoundQuartet = d.fFoundQuartet
      /\ counted.fNCycle = skip.fNCycle + 1 /\ counted.fFirstCycle = skip.fFirstCycle
  BY <1>3, CountCycleReports
<1> HIDE DEF counted
<1>6. g[0] = e.reported /\ g \in [0 .. 3 -> Helicity] /\ skip.fQuartet \in [0 .. 3 -> Helicity]
  <2>1. counted.fQuartet \in [0 .. 3 -> Helicity] /\ skip.fQuartet \in [0 .. 3 -> Helicity]
    BY <1>3, <1>5, StateHasMembers DEF Sound, Members
  <2> QED
    BY <1>5, <2>1 DEF Shifted
<1>7. /\ Sound(tracked) /\ tracked.fQuartet = g /\ ~tracked.fHaveQRT
      /\ tracked.fFoundQuartet =>
           /\ PhaseOf(tracked) = PhaseOf(counted)
           /\ IF PhaseOf(counted) = 3 THEN Passes(g) ELSE d.fFoundQuartet
  <2>1. tracked = SearchQuartet(counted)
    BY <1>5 DEF TrackQuartet
  <2> QED
    BY <1>5, <2>1, TrackQuartetSound, SearchOutcome
<1> HIDE DEF tracked
<1>8. Sound(blank) /\ Leaves(blank, tracked) /\ blank.fActualHelicity = kUnknown
  <2>1. Members(blank) /\ SameShape(blank, tracked) /\ Unmoved(blank, tracked)
    BY <1>7, StateHasMembers, HelicityTypes
    DEF Members, SameShape, Unmoved, Sound, DecoderState
  <2>2. Leaves(blank, tracked) /\ blank.fActualHelicity = kUnknown
    BY <1>7 DEF Leaves, Sound, DecoderState
  <2> HIDE DEF blank
  <2> QED
    BY <1>7, <2>1, <2>2, UnmovedSound
<1> HIDE DEF blank
<1>9. Sound(loaded) /\ Leaves(loaded, blank)
  BY <1>8, LoadHelicitySound, LoadHelicityLeaves
<1> HIDE DEF loaded
<1>10. Leaves(r, loaded)
  BY <1>9, LoadedFrom DEF Sound
<1> HIDE DEF r, g
<1>11. /\ ~r.fHaveQRT /\ r.fQuartet = g
       /\ r.fFoundQuartet = tracked.fFoundQuartet /\ PhaseOf(r) = PhaseOf(tracked)
  BY <1>7, <1>8, <1>9, <1>10 DEF Leaves, PhaseOf
<1>12. ASSUME tracked.fFoundQuartet, PhaseOf(counted) = q
       PROVE  Reported(g, q, s)
  <2>1. CASE q = 0
    <3>1. g[0] = InQuartet(0 - 0, s)
      BY <1>6, <2>1
    <3> QED
      BY <2>1, <3>1 DEF Reported, ReportsAre
  <2>2. CASE q = 3
    BY <1>6, <1>7, <1>12, <2>2, TestTellsReports DEF Reported
  <2>3. CASE q \in {1, 2}
    <3>1. d.fFoundQuartet /\ missed # 0
      BY <1>7, <1>12, <2>3
    <3>2. PhaseOf(d) = y % 4
      <4>1. PICK x \in Int : x = d.fNCycle - d.fFirstCycle
        BY <1>2
      <4>2. counted.fNCycle - counted.fFirstCycle = x + missed
        BY <1>2, <1>3, <1>5, <3>1, <4>1
      <4>3. (x + missed) % 4 = (y + missed) % 4
        BY <1>12, <4>2 DEF PhaseOf
      <4>4. x % 4 = y % 4
        BY <4>3
      <4> QED
        BY <4>1, <4>4 DEF PhaseOf
    <3>3. CASE missed > 1 /\ Calibrated(d)
      BY <1>4, <1>6, <3>2, <3>3, MadeUpAreReports DEF Reported, g
    <3>4. CASE missed > 1 /\ ~Calibrated(d)
      <4>1. skip.fQuartet[0] = e.reported /\ skip.fQuartet[1] = 0
        BY <1>4, <3>2, <3>4
      <4>2. NoQuartetYet(g, q)
        BY <1>2, <1>6, <2>3, <4>1, ReportAfterGap DEF g
      <4> QED
        BY <2>3, <4>2 DEF Reported
    <3>5. CASE missed <= 1
      <4>1. PICK p \in 0 .. 3 : p = y % 4 /\ q = p + 1
        BY <2>3, <3>1, <3>5
      <4>2. Reported(d.fQuartet, p, s) /\ g = Shifted(d.fQuartet, InQuartet(p + 1, s))
        BY <1>3, <2>3, <3>1, <3>2, <3>5, <4>1 DEF g
      <4>3. CASE ReportsAre(d.fQuartet, p, s)
        BY <1>2, <2>3, <4>1, <4>2, <4>3, ReportsGoOn DEF Reported
      <4>4. CASE NoQuartetYet(d.fQuartet, p)
        <5>1. (p + 1) % 4 = p + 1 /\ p + 1 # 0
          BY <2>3, <4>1
        <5>2. NoQuartetYet(g, p + 1)
          BY <1>2, <2>3, <4>1, <4>2, <4>4, <5>1, ReportAfterWindow
        <5> QED
          BY <2>3, <4>1, <5>2 DEF Reported
      <4> QED
        BY <4>2, <4>3, <4>4 DEF Reported
    <3> QED
      BY <3>3, <3>4, <3>5
  <2> QED
    BY <2>1, <2>2, <2>3
<1> QED
  BY <1>1, <1>7, <1>11, <1>12

\* A decoder with the windows counted, after those in between were skipped: its ring is
\* that of the beam in the window before.
CaughtUp(r, skip, d, e, phase, now) ==
  /\ Sound(r) /\ Marked(r) /\ Calibrated(r) /\ PhaseOf(r) = phase
  /\ r.fHaveQRT = d.fHaveQRT /\ r.fFoundQuartet = d.fFoundQuartet
  /\ Sound(skip) /\ r.fQuartet = Shifted(skip.fQuartet, e.reported)
  /\ \E last \in Seeds :
       /\ r.fRingSeed_reported = last
       /\ now = IF PhaseOf(r) = 0 THEN RanBit30(last) ELSE last

LEMMA CalibratedCounts ==
  ASSUME NEW d, Sound(d), Marked(d), Calibrated(d), NEW y \in Int, PhaseOf(d) = y % 4,
         NEW missed \in Nat \ {0}, NEW ring \in Seeds, BitsAre(d, ring), NEW now \in Seeds,
         now = Advance[(y + missed) \div 4 - y \div 4][ring], NEW e \in EventSet
  PROVE  CaughtUp(CountCycle(SkipMissed(d, e, missed), e), SkipMissed(d, e, missed),
                  d, e, (y + missed) % 4, now)
<1> DEFINE skip == SkipMissed(d, e, missed)
           r == CountCycle(skip, e)
           before == (y + (missed - 1)) \div 4 - y \div 4
<1>1. /\ d.fNCycle \in Nat /\ d.fFirstCycle \in Int /\ d.fNBits \in 0 .. MAXBIT
      /\ d.fRingSeed_reported \in Seeds
  BY StateHasMembers DEF Sound, Members
<1>2. missed \in Nat /\ missed # 0
  OBVIOUS
<1>3. Sound(skip) /\ Marked(skip)
  BY <1>2, SkipMissedSound, SkipMissedMarked
<1>4. /\ skip.fNCycle = d.fNCycle + missed - 1 /\ skip.fFirstCycle = d.fFirstCycle
      /\ skip.fHaveQRT = d.fHaveQRT /\ skip.fFoundQuartet = d.fFoundQuartet
      /\ skip.fNBits = d.fNBits
      /\ skip.fRingSeed_reported =
           IF missed > 1 /\ Calibrated(d)
           THEN Advance[QuartetOf(skip) - QuartetOf(d)][d.fRingSeed_reported]
           ELSE d.fRingSeed_reported
  BY <1>2, SkipMissedCounts, Zenon
<1> HIDE DEF skip
<1>5. /\ Sound(r) /\ r.fQuartet = Shifted(skip.fQuartet, e.reported)
      /\ r.fNCycle = skip.fNCycle + 1 /\ r.fFirstCycle = skip.fFirstCycle
      /\ r.fHaveQRT = skip.fHaveQRT /\ r.fFoundQuartet = skip.fFoundQuartet
      /\ r.fNBits = skip.fNBits /\ r.fRingSeed_reported = skip.fRingSeed_reported
      /\ Marks(r, skip)
  BY <1>3, CountCycleReports
<1> HIDE DEF r
<1>6. Marked(r) /\ Calibrated(r)
  BY <1>3, <1>4, <1>5, MarksKeep DEF Calibrated
<1>7. PICK x \in Int : x = d.fNCycle - d.fFirstCycle /\ x % 4 = y % 4
  BY <1>1 DEF PhaseOf
<1>8. QuartetOf(skip) - QuartetOf(d) = before /\ before \in Nat
  <2>1. skip.fNCycle - skip.fFirstCycle = x + (missed - 1)
    BY <1>1, <1>4, <1>7
  <2>2. PICK k \in Int : k = missed - 1
    OBVIOUS
  <2>3. (x + k) \div 4 - x \div 4 = (y + k) \div 4 - y \div 4
    BY <1>7, QuartetsAgree
  <2>4. before \in Nat
    OBVIOUS
  <2> QED
    BY <1>7, <2>1, <2>2, <2>3, <2>4 DEF QuartetOf
<1>9. PhaseOf(r) = (y + missed) % 4
  <2>1. r.fNCycle - r.fFirstCycle = x + missed
    BY <1>1, <1>4, <1>5, <1>7
  <2> QED
    BY <1>7, <2>1, QuartetsAgree DEF PhaseOf
<1>10. (y + missed) \div 4 - y \div 4 = before + (IF (y + missed) % 4 = 0 THEN 1 ELSE 0)
  <2>1. PICK k \in Int : k = y + (missed - 1) /\ k + 1 = y + missed
    OBVIOUS
  <2> QED
    BY <1>8, <2>1, QuartetBegins
<1> HIDE DEF before
<1>11. PICK last \in Seeds : last = Advance[before][ring]
  BY <1>8, AdvanceDefined
<1>12. r.fRingSeed_reported = last
  <2>1. d.fNBits = MAXBIT
    BY <1>1, RingAssumption DEF Calibrated
  <2>2. d.fRingSeed_reported = ring
    <3>1. PICK s \in Seeds : s = d.fRingSeed_reported
      BY <1>1
    <3>2. \A i \in 1 .. MAXBIT : s[i] = ring[i]
      BY <2>1, <3>1 DEF BitsAre
    <3> QED
      BY <3>1, <3>2, SeedsEqual
  <2>3. missed = 1 => before = 0 /\ Advance[0][ring] = ring
    BY AdvanceDefined DEF before
  <2> QED
    BY <1>4, <1>5, <1>8, <1>11, <2>2, <2>3
<1>13. now = IF PhaseOf(r) = 0 THEN RanBit30(last) ELSE last
  <2>1. (y + missed) % 4 = 0 => now = RanBit30(last)
    BY <1>8, <1>10, <1>11, AdvanceDefined
  <2>2. (y + missed) % 4 # 0 => now = last
    BY <1>8, <1>10, <1>11
  <2> QED
    BY <1>9, <2>1, <2>2
<1> QED
  BY <1>3, <1>4, <1>5, <1>6, <1>9, <1>12, <1>13 DEF skip, r, CaughtUp

\* Found, in phase, with all bits and four reports.
SettledAt(d, phase, ring) ==
  /\ d.fFoundQuartet /\ PhaseOf(d) = phase /\ Calibrated(d) /\ BitsAre(d, ring)
  /\ AllKnown(d.fQuartet)

\* The flag is that of phase q; without one, the reports up to phase p do not deceive.
FlagFits(d, e, q, p, s) ==
  IF d.fHaveQRT THEN e.qrt <=> q = 0 ELSE ~e.qrt /\ Reported(d.fQuartet, p, s)

\* An event without fault in a later window leaves it so.
LEMMA NewCycleSettled ==
  ASSUME NEW d, Sound(d), Marked(d), NEW y \in Int, NEW ring \in Seeds,
         SettledAt(d, y % 4, ring), NEW missed \in Nat \ {0}, NEW now \in Seeds,
         now = Advance[(y + missed) \div 4 - y \div 4][ring], NEW e \in EventSet,
         NEW q \in 0 .. 3, q = (y + missed) % 4, e.reported = InQuartet(q, Sign(now[1])),
         FlagFits(d, e, q, y % 4, Sign(ring[1])), NEW scal \in SUBSET Seeds
  PROVE  /\ SettledAt(NewCycle(d, e, scal, missed), q, now)
         /\ NewCycle(d, e, scal, missed).fHaveQRT = d.fHaveQRT
<1> DEFINE skip == SkipMissed(d, e, missed)
           counted == CountCycle(skip, e)
           tracked == TrackQuartet(counted, e)
           blank == [tracked EXCEPT !.fActualHelicity = kUnknown]
           loaded == LoadHelicity(blank, e, scal)
           r == [loaded EXCEPT !.fLastMPSTime = @ + missed * Period, !.fIsNewCycle = FALSE]
           s == Sign(now[1])
           g == Shifted(skip.fQuartet, e.reported)
<1>1. NewCycle(d, e, scal, missed) = r
  BY DEF NewCycle, skip, counted, tracked, blank, loaded
<1>2. /\ d.fFoundQuartet /\ PhaseOf(d) = y % 4 /\ Calibrated(d) /\ BitsAre(d, ring)
      /\ AllKnown(d.fQuartet) /\ d.fQuartet \in [0 .. 3 -> Helicity] /\ s \in {-1, 1}
      /\ e.reported \in {-1, 1}
  BY StateHasMembers, SignIsKnown DEF SettledAt, Sound, Members, Sign, kPlus, kMinus
<1>3. /\ Sound(counted) /\ Marked(counted) /\ Calibrated(counted) /\ PhaseOf(counted) = q
      /\ counted.fHaveQRT = d.fHaveQRT /\ counted.fFoundQuartet = d.fFoundQuartet
      /\ Sound(skip) /\ counted.fQuartet = g
      /\ \E last \in Seeds :
           /\ counted.fRingSeed_reported = last
           /\ now = IF PhaseOf(counted) = 0 THEN RanBit30(last) ELSE last
  <2>1. /\ Sound(counted) /\ Marked(counted) /\ Calibrated(counted)
        /\ PhaseOf(counted) = (y + missed) % 4
        /\ counted.fHaveQRT = d.fHaveQRT /\ counted.fFoundQuartet = d.fFoundQuartet
        /\ Sound(skip) /\ counted.fQuartet = g
        /\ \E last \in Seeds :
             /\ counted.fRingSeed_reported = last
             /\ now = IF PhaseOf(counted) = 0 THEN RanBit30(last) ELSE last
    <3> HIDE DEF counted, skip, s
    <3>1. CaughtUp(counted, skip, d, e, (y + missed) % 4, now)
      BY <1>2, CalibratedCounts DEF counted, skip
    <3> QED
      BY <3>1 DEF CaughtUp
  <2> QED
    BY <2>1
<1>4. missed > 1 => MadeUp(skip.fQuartet, q, e.reported)
  <2> SUFFICES ASSUME missed > 1 PROVE MadeUp(skip.fQuartet, q, e.reported)
    OBVIOUS
  <2>1. missed \in Nat
    OBVIOUS
  <2> QED
    BY <1>2, <2>1, SkipMissedReports
<1>5. missed <= 1 => skip = d
  BY DEF SkipMissed
<1> HIDE DEF skip, counted
<1>6. g \in [0 .. 3 -> Helicity] /\ g[0] = e.reported /\ skip.fQuartet \in [0 .. 3 -> Helicity]
  <2>1. counted.fQuartet \in [0 .. 3 -> Helicity] /\ skip.fQuartet \in [0 .. 3 -> Helicity]
    BY <1>3, StateHasMembers DEF Sound, Members
  <2>2. g[0] = e.reported
    BY DEF Shifted
  <2>3. g = counted.fQuartet
    BY <1>3
  <2> HIDE DEF g
  <2> QED
    BY <2>1, <2>2, <2>3
<1>7. AllKnown(g)
  <2>1. CASE missed > 1
    BY <1>2, <1>4, <1>6, <2>1, MadeUpAreReports DEF g
  <2>2. CASE missed <= 1
    BY <1>2, <1>5, <2>2 DEF AllKnown, Shifted, kUnknown
  <2> QED
    BY <2>1, <2>2
<1>8. ~d.fHaveQRT /\ q = 3 => Passes(g)
  <2> SUFFICES ASSUME ~d.fHaveQRT, q = 3 PROVE ReportsAre(g, 3, s)
    BY <1>2, <1>6, TestTellsReports
  <2>1. CASE missed > 1
    BY <1>2, <1>4, <1>6, <2>1, MadeUpAreReports DEF g
  <2>2. CASE missed <= 1
    <3>1. missed = 1 /\ y % 4 = 2 /\ (y + missed) \div 4 - y \div 4 = 0
      BY <2>2
    <3>2. now = ring
      BY <3>1, AdvanceDefined
    <3>3. ~NoQuartetYet(d.fQuartet, 2)
      BY <1>2 DEF NoQuartetYet, AllKnown, kUnknown
    <3>4. ReportsAre(d.fQuartet, 2, s)
      BY <3>1, <3>2, <3>3 DEF Reported, FlagFits
    <3>5. g = Shifted(d.fQuartet, InQuartet(2 + 1, s))
      BY <1>5, <3>1
    <3>6. ReportsAre(Shifted(d.fQuartet, InQuartet(2 + 1, s)), 2 + 1, s)
      BY <1>2, <3>4, ReportsGoOn
    <3> QED
      BY <3>5, <3>6
  <2> QED
    BY <2>1, <2>2
<1>9. /\ Sound(tracked) /\ Marked(tracked) /\ tracked.fFoundQuartet
      /\ tracked.fHaveQRT = d.fHaveQRT /\ PhaseOf(tracked) = q /\ Calibrated(tracked)
      /\ tracked.fRingSeed_reported = counted.fRingSeed_reported /\ tracked.fQuartet = g
  <2>1. Sound(tracked) /\ Marked(tracked)
    BY <1>3, TrackQuartetSound, TrackQuartetMarks, MarksKeep
  <2>2. CASE d.fHaveQRT
    <3>1. /\ tracked.fNCycle = counted.fNCycle /\ tracked.fFirstCycle = counted.fFirstCycle
          /\ tracked.fHaveQRT /\ tracked.fFoundQuartet = counted.fFoundQuartet
          /\ tracked.fNBits = counted.fNBits
          /\ tracked.fRingSeed_reported = counted.fRingSeed_reported
      BY <1>3, <2>2, LockIsKept DEF FlagFits
    <3>2. tracked.fQuartet = counted.fQuartet
      BY <1>3 DEF TrackQuartet, TrackQRT, TrackWithoutQRT, SearchQuartet, CountQuartet,
                  LockOnQRT, Sound, DecoderState
    <3> QED
      BY <1>2, <1>3, <2>1, <2>2, <3>1, <3>2 DEF PhaseOf, Calibrated
  <2>3. CASE ~d.fHaveQRT
    <3>1. tracked = SearchQuartet(counted)
      BY <1>3, <2>3 DEF TrackQuartet, FlagFits
    <3>2. counted.fFoundQuartet /\ (PhaseOf(counted) = 3 => Passes(counted.fQuartet))
      BY <1>2, <1>3, <1>8, <2>3
    <3> QED
      BY <1>3, <2>1, <2>3, <3>1, <3>2, SearchOutcome DEF Calibrated
  <2> QED
    BY <2>2, <2>3
<1> HIDE DEF tracked
<1>10. /\ Sound(blank) /\ Marked(blank) /\ blank.fActualHelicity = kUnknown
       /\ Leaves(blank, tracked) /\ blank.fNBits = tracked.fNBits
       /\ blank.fRingSeed_reported = tracked.fRingSeed_reported
  <2>1. Members(blank) /\ SameShape(blank, tracked) /\ Unmoved(blank, tracked)
    BY <1>9, StateHasMembers, HelicityTypes
    DEF Members, SameShape, Unmoved, Sound, DecoderState
  <2>2. /\ Leaves(blank, tracked) /\ blank.fActualHelicity = kUnknown
        /\ blank.fNBits = tracked.fNBits
        /\ blank.fRingSeed_reported = tracked.fRingSeed_reported
        /\ Marks(blank, tracked)
    BY <1>9 DEF Leaves, Marks, Sound, DecoderState
  <2> HIDE DEF blank
  <2> QED
    BY <1>9, <2>1, <2>2, UnmovedSound, MarksKeep
<1> HIDE DEF blank
<1>11. Calibrated(blank) /\ blank.fFoundQuartet /\ PhaseOf(blank) = q
  BY <1>9, <1>10 DEF Leaves, PhaseOf, Calibrated
<1>12. PICK last \in Seeds :
         blank.fRingSeed_reported = last /\ now = IF q = 0 THEN RanBit30(last) ELSE last
  BY <1>3, <1>9, <1>10
<1>13. LoadHelicity(blank, e, scal) = LoadHelicity(blank, e, {})
  <2>1. Calibrated([blank EXCEPT !.fnQrt = PhaseOf(blank)])
    BY <1>10, <1>11 DEF Calibrated, Sound, DecoderState
  <2> QED
    BY <1>10, <1>11, <2>1 DEF LoadHelicity, Sound, DecoderState
<1>14. Sound(loaded) /\ Leaves(loaded, blank)
  BY <1>10, LoadHelicitySound, LoadHelicityLeaves
<1>15. BitsAre(loaded, now)
  <2>1. PICK n \in Nat : n = (y + missed) \div 4 - y \div 4
    BY missed \in Nat
  <2>2. BitsAre(LoadHelicity(blank, e, {}), now)
    <3>1. {} \in SUBSET Seeds /\ ({} # {} => RanBit30(CHOOSE t \in {} : TRUE) = now)
      OBVIOUS
    <3> QED
      <4>1. now = Advance[n][ring]
        BY <2>1
      <4>2. e.reported \in {kUnknown, InQuartet(PhaseOf(blank), Sign(now[1]))}
        BY <1>11
      <4>3. \E l \in Seeds : /\ blank.fRingSeed_reported = l
                             /\ now = IF PhaseOf(blank) = 0 THEN RanBit30(l) ELSE l
        BY <1>11, <1>12
      <4> QED
        BY <1>10, <1>11, <3>1, <4>1, <4>2, <4>3, LoadHelicityRight
  <2> QED
    BY <1>13, <2>2
<1>16. Calibrated(loaded)
  BY <1>10, <1>11, <1>12, LoadHelicityAnswersAll
<1> HIDE DEF loaded
<1>17. /\ Leaves(r, loaded) /\ r.fNBits = loaded.fNBits
       /\ r.fRingSeed_reported = loaded.fRingSeed_reported
  <2>1. loaded \in DecoderState
    BY <1>14 DEF Sound
  <2> QED
    BY <2>1, LoadedFrom
<1> HIDE DEF r, g
<1>18. SettledAt(r, q, now)
  <2>1. r.fFoundQuartet /\ PhaseOf(r) = q /\ r.fQuartet = g
    BY <1>9, <1>11, <1>10, <1>14, <1>17 DEF Leaves, PhaseOf
  <2> QED
    BY <1>7, <1>15, <1>16, <1>17, <2>1 DEF SettledAt, BitsAre, Calibrated
<1>19. r.fHaveQRT = d.fHaveQRT
  BY <1>9, <1>10, <1>14, <1>17 DEF Leaves
<1> QED
  BY <1>1, <1>18, <1>19

\* The ring of the beam in a window w passed.
RingIn(w) == Retreat[QuartetsTo(win) - QuartetsTo(w)][beam]

LEMMA RingMoves ==
  ASSUME BeamTypes, NEW w \in 0 .. win, NEW g \in Nat, win' = win + g, phase0' = phase0,
         beam' = Advance[(TruePhase + g) \div 4][beam]
  PROVE  /\ beam' \in Seeds /\ RingIn(w) \in Seeds /\ w \in 0 .. win' /\ win' \in 0 .. win'
         /\ RingIn(w)' = RingIn(w)
         /\ beam' = Advance[(win' + phase0) \div 4 - (w + phase0) \div 4][RingIn(w)]
         /\ Retreat[QuartetsTo(win') - QuartetsTo(win')][beam'] = beam'
<1>1. /\ win \in Nat /\ win' \in Nat /\ phase0 \in 0 .. 3 /\ beam \in Seeds
      /\ w \in Nat /\ w <= win /\ win <= win'
  BY DEF BeamTypes
<1>2. beam' \in Seeds
  <2>1. (TruePhase + g) \div 4 \in Nat
    BY <1>1 DEF TruePhase
  <2> QED
    BY <1>1, <2>1, AdvanceDefined
<1>3. PICK ring \in Seeds : ring = RingIn(w)
  <2>1. QuartetsTo(win) - QuartetsTo(w) \in Nat
    BY <1>1 DEF QuartetsTo
  <2> QED
    BY <1>1, <2>1, RetreatDefined DEF RingIn
<1>4. ASSUME NEW x \in w .. win'
      PROVE  Retreat[QuartetsTo(win') - QuartetsTo(x)][beam'] =
               Advance[QuartetsTo(x) - QuartetsTo(w)][ring]
  BY <1>2, <1>3, BeamMoves DEF RingIn
<1>5. PICK q \in Int : q = QuartetsTo(win')
  BY <1>1 DEF QuartetsTo
<1>6. Retreat[QuartetsTo(win') - QuartetsTo(win')][beam'] = beam'
  <2>1. QuartetsTo(win') - QuartetsTo(win') = 0
    BY <1>5
  <2>2. Retreat[0][beam'] = beam'
    BY <1>2, RetreatDefined
  <2> QED
    BY <2>1, <2>2
<1>7. beam' = Advance[QuartetsTo(win') - QuartetsTo(w)][ring]
  <2>1. win' \in w .. win'
    BY <1>1
  <2> QED
    BY <1>4, <1>6, <2>1
<1>8. Retreat[QuartetsTo(win') - QuartetsTo(w)][beam'] = ring
  <2>1. w \in w .. win' /\ QuartetsTo(w) - QuartetsTo(w) = 0
    BY <1>1 DEF QuartetsTo
  <2> QED
    BY <1>4, <2>1, AdvanceDefined
<1>9. RingIn(w)' = ring
  BY <1>8 DEF RingIn, QuartetsTo
<1> QED
  BY <1>1, <1>2, <1>3, <1>6, <1>7, <1>9 DEF QuartetsTo

\* Of a decoder without a flag: the reports of the quartet it found.
Searches(d, p, ring) ==
  /\ ~d.fHaveQRT
  /\ d.fFoundQuartet /\ PhaseOf(d) = p => Reported(d.fQuartet, p, Sign(ring[1]))

\* The clock stands in window w.
WhereItIs(d, w) == d.fFoundQuartet => MPSWindow(d, w)

\* An event without flag or fault, of a decoder that has seen no flag.
LEMMA DecodeSearchesOn ==
  ASSUME MPSIsShort, HelDelay # 0, BeamTypes, Safe(dec),
         TellsTruth(dec, win, tick), Counted(dec, win, tick, faults),
         NEW w \in 0 .. win, WhereItIs(dec, w), Searches(dec, (w + phase0) % 4, RingIn(w)),
         NEW g \in Nat, win' = win + g, phase0' = phase0,
         beam' = Advance[(TruePhase + g) \div 4][beam],
         NEW tk \in 0 .. Period - 1, g = 0 => tick <= tk, tick \in Int,
         NEW e, EventAt(e, win', tk), ~e.qrt,
         e.reported = InQuartet((win' + phase0) % 4, Sign(beam'[1])),
         NEW skipped, NEW scal \in SUBSET Seeds, Decode(e, skipped, scal)
  PROVE  \E x \in 0 .. win' :
           WhereItIs(dec', x) /\ Searches(dec', (x + phase0) % 4, RingIn(x)')
<1>1. /\ win \in Nat /\ win' \in Nat /\ phase0 \in 0 .. 3 /\ win <= win'
      /\ (win = win' => tick <= tk) /\ dec \in DecoderState
  BY DEF BeamTypes, Safe, Sound
<1>2. /\ beam' \in Seeds /\ RingIn(w) \in Seeds /\ w \in 0 .. win' /\ win' \in 0 .. win'
      /\ RingIn(w)' = RingIn(w)
      /\ beam' = Advance[(win' + phase0) \div 4 - (w + phase0) \div 4][RingIn(w)]
      /\ Retreat[QuartetsTo(win') - QuartetsTo(win')][beam'] = beam'
  BY RingMoves
<1>3. \/ dec.fNCycle = 0 /\ Waits(dec', dec)
      \/ dec.fNCycle > 0 /\ Stays(win)
      \/ Counts(win, win', tk, e, scal)
  BY <1>1, DecodeOutcomes
<1>4. CASE Waits(dec', dec)
  BY <1>2, <1>4 DEF Waits, WhereItIs, Searches
<1>5. CASE Stays(win)
  <2>1. PICK z \in 0 .. win : MPSWindow(dec, z) /\ MPSWindow(dec', z)
    BY <1>5 DEF Stays
  <2>2. dec.fFoundQuartet => z = w
    BY <2>1, WindowOfMPS DEF WhereItIs
  <2>3. WhereItIs(dec', w) /\ Searches(dec', (w + phase0) % 4, RingIn(w)')
    BY <1>2, <1>5, <2>1, <2>2 DEF Stays, Standing, WhereItIs, Searches, PhaseOf
  <2> QED
    BY <1>2, <2>3
<1>6. CASE Counts(win, win', tk, e, scal)
  <2>1. PICK z \in 0 .. win, seen \in DecoderState :
          /\ MPSWindow(dec, z) /\ Sound(seen) /\ Standing(seen, dec)
          /\ dec' = NewCycle(seen, e, scal, win' - z)
          /\ dec.fNCycle > 0 => z < win'
    BY <1>6 DEF Counts
  <2>2. PICK missed \in Nat : missed = win' - z
    BY <1>1, <2>1
  <2>3. PICK y \in Int : y = z + phase0 /\ y + missed = win' + phase0
    BY <1>1, <2>2
  <2>4. PICK q \in 0 .. 3 : q = (y + missed) % 4
    OBVIOUS
  <2>5. PICK s \in {-1, 1} : s = Sign(beam'[1])
    BY DEF Sign, kPlus, kMinus
  <2>6. dec.fFoundQuartet => z = w /\ missed # 0
    BY <2>1, <2>2, WindowOfMPS DEF WhereItIs, Counted
  <2>7. ASSUME seen.fFoundQuartet, PhaseOf(seen) = y % 4, missed = 1, q # 0
        PROVE  Reported(seen.fQuartet, y % 4, s)
    <3>1. dec.fFoundQuartet /\ PhaseOf(dec) = y % 4 /\ dec.fQuartet = seen.fQuartet
      BY <2>1, <2>7 DEF Standing, PhaseOf
    <3>2. Reported(dec.fQuartet, y % 4, Sign(RingIn(w)[1]))
      BY <2>3, <2>6, <3>1 DEF Searches
    <3>3. (win' + phase0) \div 4 - (w + phase0) \div 4 = 0
      BY <2>3, <2>4, <2>6, <2>7, <3>1
    <3>4. beam' = RingIn(w)
      BY <1>2, <3>3, AdvanceDefined
    <3> QED
      BY <2>5, <3>1, <3>2, <3>4
  <2> DEFINE r == NewCycle(seen, e, scal, missed)
  <2>8. e \in EventSet /\ e.reported = InQuartet(q, s)
    BY <2>3, <2>4, <2>5 DEF EventAt
  <2>9. ~seen.fHaveQRT /\ (seen.fFoundQuartet => missed # 0)
    BY <2>1, <2>6 DEF Standing, Searches
  <2>10. ~r.fHaveQRT /\ (r.fFoundQuartet /\ PhaseOf(r) = q => Reported(r.fQuartet, q, s))
    BY <2>1, <2>4, <2>7, <2>8, <2>9, NewCycleReports
  <2>11. dec' = r
    BY <2>1, <2>2
  <2> HIDE DEF r
  <2>12. MPSWindow(dec', win')
    BY <1>6 DEF Counts
  <2>13. Searches(dec', (win' + phase0) % 4, beam')
    BY <2>3, <2>4, <2>5, <2>10, <2>11 DEF Searches
  <2>14. PICK v \in 0 .. win' : v = win'
    BY <1>2
  <2>15. RingIn(v)' = beam'
    BY <1>2, <2>14 DEF RingIn, QuartetsTo
  <2>16. WhereItIs(dec', v) /\ Searches(dec', (v + phase0) % 4, RingIn(v)')
    BY <2>12, <2>13, <2>14, <2>15 DEF WhereItIs
  <2> QED
    BY <2>16
<1> QED
  BY <1>3, <1>4, <1>5, <1>6

\* An event without fault, of a decoder that has settled.
LEMMA DecodeStaysSettled ==
  ASSUME MPSIsShort, HelDelay # 0, BeamTypes, Safe(dec),
         TellsTruth(dec, win, tick), Counted(dec, win, tick, faults),
         NEW w \in 0 .. win, MPSWindow(dec, w), SettledAt(dec, (w + phase0) % 4, RingIn(w)),
         NEW g \in Nat, win' = win + g, phase0' = phase0,
         beam' = Advance[(TruePhase + g) \div 4][beam],
         NEW tk \in 0 .. Period - 1, g = 0 => tick <= tk, tick \in Int,
         NEW e, EventAt(e, win', tk),
         e.reported = InQuartet((win' + phase0) % 4, Sign(beam'[1])),
         dec.fHaveQRT => (e.qrt <=> (win' + phase0) % 4 = 0),
         ~dec.fHaveQRT => ~e.qrt /\ Searches(dec, (w + phase0) % 4, RingIn(w)),
         NEW skipped, NEW scal \in SUBSET Seeds, Decode(e, skipped, scal)
  PROVE  /\ dec'.fHaveQRT = dec.fHaveQRT
         /\ \E x \in 0 .. win' :
              MPSWindow(dec', x) /\ SettledAt(dec', (x + phase0) % 4, RingIn(x)')
<1>1. /\ win \in Nat /\ win' \in Nat /\ phase0 \in 0 .. 3 /\ win <= win'
      /\ (win = win' => tick <= tk) /\ dec \in DecoderState
  BY DEF BeamTypes, Safe, Sound
<1>2. /\ beam' \in Seeds /\ RingIn(w) \in Seeds /\ w \in 0 .. win' /\ win' \in 0 .. win'
      /\ RingIn(w)' = RingIn(w)
      /\ beam' = Advance[(win' + phase0) \div 4 - (w + phase0) \div 4][RingIn(w)]
      /\ Retreat[QuartetsTo(win') - QuartetsTo(win')][beam'] = beam'
  BY RingMoves
<1>3. dec.fNCycle > 0
  BY DEF SettledAt, Counted
<1>4. Stays(win) \/ Counts(win, win', tk, e, scal)
  BY <1>1, <1>3, DecodeOutcomes
<1>5. CASE Stays(win)
  <2>1. PICK z \in 0 .. win : MPSWindow(dec, z) /\ MPSWindow(dec', z)
    BY <1>5 DEF Stays
  <2>2. z = w
    BY <2>1, WindowOfMPS
  <2>3. SettledAt(dec', (w + phase0) % 4, RingIn(w)') /\ dec'.fHaveQRT = dec.fHaveQRT
    BY <1>2, <1>5 DEF Stays, Standing, SettledAt, PhaseOf, Calibrated, BitsAre
  <2> QED
    BY <1>2, <2>1, <2>2, <2>3
<1>6. CASE Counts(win, win', tk, e, scal)
  <2>1. PICK z \in 0 .. win, seen \in DecoderState :
          /\ MPSWindow(dec, z) /\ Sound(seen) /\ Marked(seen) /\ Standing(seen, dec)
          /\ dec' = NewCycle(seen, e, scal, win' - z)
          /\ dec.fNCycle > 0 => z < win'
    BY <1>6 DEF Counts
  <2>2. z = w
    BY <2>1, WindowOfMPS
  <2>3. PICK missed \in Nat \ {0} : missed = win' - w
    BY <1>1, <1>3, <2>1, <2>2
  <2>4. PICK y \in Int : y = w + phase0 /\ y + missed = win' + phase0
    BY <1>1, <2>3
  <2>5. PICK q \in 0 .. 3 : q = (y + missed) % 4
    OBVIOUS
  <2>6. PICK now \in Seeds : now = beam'
    BY <1>2
  <2>7. PICK ring \in Seeds : ring = RingIn(w)
    BY <1>2
  <2>8. SettledAt(seen, y % 4, ring) /\ seen.fHaveQRT = dec.fHaveQRT
    BY <2>1, <2>4, <2>7 DEF Standing, SettledAt, PhaseOf, Calibrated, BitsAre
  <2>9. now = Advance[(y + missed) \div 4 - y \div 4][ring]
    BY <1>2, <2>4, <2>6, <2>7
  <2>10. e \in EventSet /\ e.reported = InQuartet(q, Sign(now[1]))
    BY <2>4, <2>5, <2>6 DEF EventAt
  <2>11. FlagFits(seen, e, q, y % 4, Sign(ring[1]))
    <3>1. CASE dec.fHaveQRT
      BY <2>4, <2>5, <2>8, <3>1 DEF FlagFits
    <3>2. CASE ~dec.fHaveQRT
      <4>1. seen.fQuartet = dec.fQuartet /\ dec.fFoundQuartet /\ PhaseOf(dec) = y % 4
        BY <2>1, <2>4 DEF Standing, SettledAt
      <4> QED
        BY <2>4, <2>7, <2>8, <3>2, <4>1 DEF Searches, FlagFits
    <3> QED
      BY <3>1, <3>2
  <2> DEFINE r == NewCycle(seen, e, scal, missed)
  <2>12. Sound(seen) /\ Marked(seen)
    BY <2>1
  <2>13. SettledAt(r, q, now) /\ r.fHaveQRT = seen.fHaveQRT
    BY <2>5, <2>8, <2>9, <2>10, <2>11, <2>12, NewCycleSettled
  <2>14. dec' = r
    BY <2>1, <2>2, <2>3
  <2> HIDE DEF r
  <2>15. MPSWindow(dec', win')
    BY <1>6 DEF Counts
  <2>16. PICK v \in 0 .. win' : v = win'
    BY <1>2
  <2>17. RingIn(v)' = beam'
    BY <1>2, <2>16 DEF RingIn, QuartetsTo
  <2>18. MPSWindow(dec', v) /\ SettledAt(dec', (v + phase0) % 4, RingIn(v)')
    BY <2>4, <2>5, <2>6, <2>13, <2>14, <2>15, <2>16, <2>17
  <2> QED
    BY <2>8, <2>13, <2>14, <2>18
<1> QED
  BY <1>4, <1>5, <1>6

\* Without the QRT flag and faults, the reports of a quartet that was found in phase are
\* right up to now, or it will be given up at its end.
UnflaggedInv ==
  /\ KeptInv
  /\ HelDelay # 0 /\ ~HaveQRTSignal /\ faults = 0 =>
       \E w \in 0 .. win : WhereItIs(dec, w) /\ Searches(dec, (w + phase0) % 4, RingIn(w))

LEMMA InitialUnflagged == Init => UnflaggedInv
<1> SUFFICES ASSUME Init PROVE UnflaggedInv
  OBVIOUS
<1>1. ~dec.fFoundQuartet /\ ~dec.fHaveQRT /\ win = 0
  BY DEF Init
<1>2. WhereItIs(dec, 0) /\ Searches(dec, (0 + phase0) % 4, RingIn(0)) /\ 0 \in 0 .. win
  BY <1>1 DEF WhereItIs, Searches
<1> QED
  BY <1>2, InitialCounts DEF UnflaggedInv

\* A step into a state that is still without fault.
FaultlessStep(e, g, scal, skipped) ==
  /\ EventAt(e, win', tick') /\ Decode(e, skipped, scal)
  /\ setup' = setup /\ phase0' = phase0 /\ win' = win + g
  /\ win \in Nat /\ tick \in Int /\ tick' \in 0 .. Period - 1 /\ (g = 0 => tick <= tick')
  /\ beam' = Advance[(TruePhase + g) \div 4][beam]
  /\ e.reported = InQuartet((win' + phase0) % 4, Sign(beam'[1]))
  /\ e.qrt <=> HaveQRTSignal /\ (win' + phase0) % 4 = 0
  /\ faults = 0

LEMMA StepIsFaultless ==
  ASSUME NEW e, NEW g, NEW scal, NEW skipped, StepOf(e, g, scal, skipped), faults' = 0
  PROVE  FaultlessStep(e, g, scal, skipped)
<1>1. faults = 0 /\ faults' = faults
  BY DEF StepOf
<1>2. e.reported # kUnknown /\ (e.qrt <=> HaveQRTSignal /\ (win' + phase0) % 4 = 0)
  BY <1>1 DEF StepOf
<1>3. e.reported = InQuartet((win' + phase0) % 4, Sign(beam'[1]))
  BY <1>2 DEF StepOf
<1> QED
  BY <1>1, <1>2, <1>3 DEF StepOf, FaultlessStep

LEMMA FaultlessStepIs ==
  ASSUME KeptInv, Next, faults' = 0
  PROVE  \E g \in Nat, scal \in SUBSET Seeds, skipped \in BOOLEAN, e \in EventSet :
           FaultlessStep(e, g, scal, skipped)
BY StepIs, StepIsFaultless DEF KeptInv

LEMMA StepKeepsUnflagged ==
  ASSUME MPSIsShort
  PROVE  UnflaggedInv /\ [Next]_vars => UnflaggedInv'
<1> SUFFICES ASSUME UnflaggedInv, [Next]_vars PROVE UnflaggedInv'
  OBVIOUS
<1>1. KeptInv /\ KeptInv'
  BY StepKeepsCounts DEF UnflaggedInv
<1>2. CASE Next
  <2> SUFFICES ASSUME HelDelay' # 0, ~HaveQRTSignal', faults' = 0
               PROVE  \E x \in 0 .. win' :
                        WhereItIs(dec, x)' /\ Searches(dec, (x + phase0) % 4, RingIn(x))'
    BY <1>1 DEF UnflaggedInv
  <2>1. PICK g \in Nat, scal \in SUBSET Seeds, skipped \in BOOLEAN, e \in EventSet :
          FaultlessStep(e, g, scal, skipped)
    BY <1>1, <1>2, FaultlessStepIs
  <2>2. HelDelay' = HelDelay /\ HaveQRTSignal' = HaveQRTSignal
    BY <2>1 DEF FaultlessStep, HelDelay, HaveQRTSignal
  <2>3. faults = 0
    BY <2>1 DEF FaultlessStep
  <2>4. PICK w \in 0 .. win : WhereItIs(dec, w) /\ Searches(dec, (w + phase0) % 4, RingIn(w))
    BY <2>2, <2>3 DEF UnflaggedInv
  <2>5. ~e.qrt
    BY <2>1, <2>2 DEF FaultlessStep
  <2>6. /\ BeamTypes /\ Safe(dec) /\ TellsTruth(dec, win, tick)
        /\ Counted(dec, win, tick, faults)
    BY <1>1, <2>2 DEF KeptInv, TruthInv, IndInv
  <2>7. /\ EventAt(e, win', tick') /\ Decode(e, skipped, scal) /\ HelDelay # 0
        /\ win' = win + g /\ phase0' = phase0
        /\ tick \in Int /\ tick' \in 0 .. Period - 1 /\ (g = 0 => tick <= tick')
        /\ beam' = Advance[(TruePhase + g) \div 4][beam]
        /\ e.reported = InQuartet((win' + phase0) % 4, Sign(beam'[1]))
    BY <2>1, <2>2 DEF FaultlessStep
  <2>8. PICK x \in 0 .. win' :
          WhereItIs(dec', x) /\ Searches(dec', (x + phase0) % 4, RingIn(x)')
    BY <2>4, <2>5, <2>6, <2>7, DecodeSearchesOn
  <2>9. WhereItIs(dec, x)' /\ Searches(dec, (x + phase0) % 4, RingIn(x))'
    BY <2>7, <2>8 DEF WhereItIs, Searches, MPSWindow, PhaseOf
  <2> QED
    BY <2>8, <2>9
<1>3. CASE UNCHANGED vars
  BY <1>1, <1>3
  DEF vars, UnflaggedInv, HelDelay, HaveQRTSignal, WhereItIs, Searches, MPSWindow, PhaseOf,
      RingIn, QuartetsTo
<1> QED
  BY <1>2, <1>3

LEMMA SettledIsAt ==
  ASSUME NEW w \in Int, MPSWindow(dec, w)
  PROVE  Settled <=> /\ SettledAt(dec, (w + phase0) % 4, RingIn(w))
                     /\ HaveQRTSignal => dec.fHaveQRT
BY WindowOfMPS
DEF Settled, SettledAt, AllKnown, Right, PhaseRight, WindowSeen, BeamSeen, BitsAre, RingIn,
    QuartetsTo

LEMMA StepKeepsSettled ==
  ASSUME MPSIsShort, UnflaggedInv, [Next]_vars, Settled, faults' = 0
  PROVE  Settled'
<1>1. KeptInv
  BY DEF UnflaggedInv
<1>2. HelDelay # 0 /\ TellsTruth(dec, win, tick) /\ Counted(dec, win, tick, faults)
  BY <1>1 DEF KeptInv, TruthInv, Settled, Right
<1>3. PICK w \in 0 .. win : MPSWindow(dec, w)
  BY <1>2 DEF Settled, Right, Counted, TellsTruth
<1>4. /\ SettledAt(dec, (w + phase0) % 4, RingIn(w))
      /\ HaveQRTSignal => dec.fHaveQRT
  BY <1>3, SettledIsAt
<1>5. CASE Next
  <2>1. PICK g \in Nat, scal \in SUBSET Seeds, skipped \in BOOLEAN, e \in EventSet :
          FaultlessStep(e, g, scal, skipped)
    BY <1>1, <1>5, FaultlessStepIs
  <2>2. HaveQRTSignal' = HaveQRTSignal
    BY <2>1 DEF FaultlessStep, HaveQRTSignal
  <2>3. faults = 0
    BY <2>1 DEF FaultlessStep
  <2>4. /\ EventAt(e, win', tick') /\ Decode(e, skipped, scal)
        /\ setup' = setup /\ win' = win + g /\ phase0' = phase0
        /\ tick \in Int /\ tick' \in 0 .. Period - 1 /\ (g = 0 => tick <= tick')
        /\ beam' = Advance[(TruePhase + g) \div 4][beam]
        /\ e.reported = InQuartet((win' + phase0) % 4, Sign(beam'[1]))
        /\ e.qrt <=> HaveQRTSignal /\ (win' + phase0) % 4 = 0
    BY <2>1 DEF FaultlessStep
  <2>5. ~HaveQRTSignal => ~e.qrt /\ Searches(dec, (w + phase0) % 4, RingIn(w))
    <3> SUFFICES ASSUME ~HaveQRTSignal
                 PROVE  ~e.qrt /\ Searches(dec, (w + phase0) % 4, RingIn(w))
      OBVIOUS
    <3>1. PICK z \in 0 .. win : WhereItIs(dec, z) /\ Searches(dec, (z + phase0) % 4, RingIn(z))
      BY <1>2, <2>3 DEF UnflaggedInv
    <3>2. z = w
      BY <1>3, <1>4, <3>1, WindowOfMPS DEF WhereItIs, SettledAt
    <3> QED
      BY <2>4, <3>1, <3>2
  <2>6. dec.fHaveQRT => (e.qrt <=> (win' + phase0) % 4 = 0)
    BY <2>4, <2>5 DEF Searches
  <2>7. ~dec.fHaveQRT => ~e.qrt /\ Searches(dec, (w + phase0) % 4, RingIn(w))
    BY <1>4, <2>5
  <2>8. BeamTypes /\ Safe(dec)
    BY <1>1 DEF KeptInv, TruthInv, IndInv
  <2>9. /\ dec'.fHaveQRT = dec.fHaveQRT
        /\ \E x \in 0 .. win' :
             MPSWindow(dec', x) /\ SettledAt(dec', (x + phase0) % 4, RingIn(x)')
    BY <1>2, <1>3, <1>4, <2>4, <2>6, <2>7, <2>8, DecodeStaysSettled
  <2>10. PICK x \in 0 .. win' :
           MPSWindow(dec', x) /\ SettledAt(dec', (x + phase0) % 4, RingIn(x)')
    BY <2>9
  <2>11. WindowSeen' = x
    BY <2>10, WindowOfMPS DEF WindowSeen
  <2>12. HaveQRTSignal' => dec'.fHaveQRT
    BY <1>4, <2>2, <2>9
  <2>13. RingIn(x)' = BeamSeen'
    BY <2>4, <2>11 DEF BeamSeen, RingIn, QuartetsTo
  <2> QED
    BY <2>4, <2>10, <2>11, <2>12, <2>13
    DEF Settled, SettledAt, AllKnown, Right, PhaseRight, BitsAre, PhaseOf, Calibrated
<1>6. CASE UNCHANGED vars
  BY <1>6
  DEF vars, Settled, Right, PhaseRight, WindowSeen, BeamSeen, PhaseOf, HaveQRTSignal, Calibrated
<1> QED
  BY <1>5, <1>6

\* As long as the inputs are right, a decoder that is right, calibrated, and has four
\* reports stays so, with the QRT flag or without it, over any windows it misses.
THEOREM SettledDecoderStaysSettled ==
  ASSUME MPSIsShort
  PROVE  Spec => SettledIsKept
<1>1. Init => UnflaggedInv
  BY InitialUnflagged
<1>2. UnflaggedInv /\ [Next]_vars => UnflaggedInv'
  BY StepKeepsUnflagged
<1>3. UnflaggedInv /\ [Next]_vars => [Settled /\ faults' = 0 => Settled']_vars
  BY StepKeepsSettled
<1> QED
  BY <1>1, <1>2, <1>3, PTL DEF Spec, SettledIsKept

---------------------------------------------------------------------------
(* The calibration at a healthy rate, in a run with the QRT flag.          *)

\* At tick tk of window v: the clock stands in the MPS of this window or, until the
\* first event after the MPS, of the one before; the first cycle is counted early.
OnTime(d, v, tk) ==
  /\ ~d.fFirstEvProcessed => v = 0 /\ tk < MPSTicks
  /\ ~d.fFoundMPS => v = 0
  /\ d.fFoundMPS => \E w \in 0 .. v : /\ MPSWindow(d, w) /\ w >= v - 1
                                      /\ tk >= MPSTicks => w = v
                                      /\ d.fNCycle = 0 => w <= 1

LEMMA DecodeIsOnTime ==
  ASSUME MPSIsShort, HelDelay # 0, Safe(dec), ~dec.fDisabled,
         NEW u \in Nat, NEW v \in u .. u + 1, NEW t \in Int, OnTime(dec, u, t),
         NEW tk \in 0 .. Period - 1, v # u => t >= MPSTicks /\ tk < MPSTicks,
         NEW e, EventAt(e, v, tk), NEW scal \in SUBSET Seeds, Decode(e, FALSE, scal)
  PROVE  OnTime(dec', v, tk)
<1>1. /\ dec \in DecoderState /\ Sound(dec) /\ v \in Nat /\ e \in EventSet
      /\ e.time = Period * v + tk /\ (e.mps <=> tk < MPSTicks) /\ MPSTicks \in Nat
  BY DecoderAssumption DEF Safe, Sound, EventAt
<1>2. ASSUME dec.fFoundMPS
      PROVE  \E w \in 0 .. u : /\ MPSWindow(dec, w) /\ w >= v - 1 /\ w \in 0 .. v
                               /\ tk >= MPSTicks => v = u
                               /\ t >= MPSTicks => w = u
                               /\ dec.fNCycle = 0 => w <= 1
  <2>1. PICK w \in 0 .. u : /\ MPSWindow(dec, w) /\ w >= u - 1
                            /\ t >= MPSTicks => w = u
                            /\ dec.fNCycle = 0 => w <= 1
    BY <1>2 DEF OnTime
  <2>2. w >= v - 1 /\ w \in 0 .. v /\ (tk >= MPSTicks => v = u)
    BY <1>1, <2>1
  <2> QED
    BY <2>1, <2>2
<1>3. CASE DecodeFirst(e)
  <2>1. dec'.fFirstEvProcessed /\ ~dec'.fFoundMPS
    BY <1>1, <1>3 DEF DecodeFirst, DecoderState
  <2>2. u = 0 /\ ~(t >= MPSTicks)
    BY <1>1, <1>3 DEF DecodeFirst, OnTime
  <2>3. v = 0
    BY <2>2
  <2> QED
    BY <2>1, <2>3 DEF OnTime
<1>4. CASE DecodeMPS(e, FALSE)
  <2>1. /\ dec'.fFirstEvProcessed /\ dec'.fFoundMPS /\ dec'.fNCycle = dec.fNCycle
        /\ tk \in 0 .. MPSTicks - 1
    BY <1>1, <1>4 DEF DecodeMPS, Running, DecoderState
  <2>2. CASE ~dec.fFoundMPS
    <3>1. dec'.fLastMPSTime = Period * v + tk
      BY <1>1, <1>4, <2>2 DEF DecodeMPS, DecoderState
    <3>2. MPSWindow(dec', v)
      BY <2>1, <3>1 DEF MPSWindow
    <3>3. v \in 0 .. v /\ v <= 1
      BY <2>2 DEF OnTime
    <3> QED
      BY <2>1, <3>2, <3>3 DEF OnTime
  <2>3. CASE dec.fFoundMPS
    <3>1. PICK w \in 0 .. u : /\ MPSWindow(dec, w) /\ w >= v - 1 /\ w \in 0 .. v
                              /\ dec.fNCycle = 0 => w <= 1
      BY <1>2, <2>3
    <3>2. w \in Nat /\ w <= v
      BY <3>1
    <3>3. MPSWindow(dec', w)
      BY <1>1, <1>4, <2>3, <3>1, <3>2, DecodeMPSKeepsWindow
    <3>4. ~(tk >= MPSTicks)
      BY <1>1, <2>1
    <3> QED
      BY <2>1, <3>1, <3>3, <3>4 DEF OnTime
  <2> QED
    BY <2>2, <2>3
<1>5. CASE DecodeBeforeMPS(e, FALSE)
  <2>1. dec'.fFirstEvProcessed /\ ~dec'.fFoundMPS
    BY <1>1, <1>5 DEF DecodeBeforeMPS, Running, DecoderState
  <2>2. u = 0 /\ ~(tk < MPSTicks)
    BY <1>1, <1>5 DEF DecodeBeforeMPS, OnTime
  <2>3. v = 0
    BY <2>2
  <2> QED
    BY <2>1, <2>3 DEF OnTime
<1>6. CASE DecodeSameCycle(e, FALSE)
  <2>1. PICK w \in 0 .. u : /\ MPSWindow(dec, w) /\ w \in 0 .. v
                            /\ dec.fNCycle = 0 => w <= 1
    BY <1>2, <1>6 DEF DecodeSameCycle
  <2>2. tk >= MPSTicks /\ e.time = v * Period + tk
    BY <1>1, <1>6, DecoderAssumption DEF DecodeSameCycle
  <2>3. PeriodsMissed(dec, e) = v - w
    BY <1>1, <2>1, <2>2, PeriodsAreCounted
  <2>4. w = v
    BY <1>1, <1>6, <2>1, <2>3 DEF DecodeSameCycle
  <2>5. /\ dec'.fFirstEvProcessed /\ dec'.fFoundMPS /\ dec'.fNCycle = dec.fNCycle
        /\ dec'.fLastMPSTime = dec.fLastMPSTime
    BY <1>1, <1>6 DEF DecodeSameCycle, FromRings, Running, DecoderState
  <2>6. MPSWindow(dec', v) /\ v \in 0 .. v
    BY <2>1, <2>4, <2>5 DEF MPSWindow
  <2> QED
    BY <1>1, <2>1, <2>4, <2>5, <2>6 DEF OnTime
<1>7. CASE DecodeNewCycle(e, FALSE, scal)
  <2> DEFINE missed == PeriodsMissed(dec, e)
             seen == IF missed = 0 /\ Calibrated(dec) THEN FromRings(dec) ELSE dec
  <2>1. PICK w \in 0 .. u : MPSWindow(dec, w) /\ w \in 0 .. v
    BY <1>2, <1>7 DEF DecodeNewCycle
  <2>2. tk >= MPSTicks /\ e.time = v * Period + tk
    BY <1>1, <1>7, DecoderAssumption DEF DecodeNewCycle
  <2>3. missed = v - w /\ missed \in Nat
    BY <1>1, <2>1, <2>2, PeriodsAreCounted
  <2>4. /\ Sound(seen) /\ seen.fLastMPSTime = dec.fLastMPSTime /\ seen.fNCycle \in Nat
        /\ seen.fFirstEvProcessed = dec.fFirstEvProcessed /\ seen.fFoundMPS = dec.fFoundMPS
    BY <1>1, FromRingsSound DEF FromRings, DecoderState
  <2>5. dec' = NewCycle(seen, e, scal, missed) /\ dec.fFirstEvProcessed /\ dec.fFoundMPS
    BY <1>7 DEF DecodeNewCycle, Running
  <2> HIDE DEF missed, seen
  <2>6. /\ dec'.fLastMPSTime = dec.fLastMPSTime + missed * Period
        /\ dec'.fFirstEvProcessed /\ dec'.fFoundMPS
    <3> DEFINE next == NewCycle(seen, e, scal, missed)
    <3>1. dec' = next /\ Sound(seen) /\ missed \in Nat /\ e \in EventSet
      BY <1>1, <2>3, <2>4, <2>5
    <3>2. /\ next.fFirstEvProcessed = seen.fFirstEvProcessed
          /\ next.fFoundMPS = seen.fFoundMPS
          /\ next.fLastMPSTime = seen.fLastMPSTime + missed * Period
      BY <3>1, NewCycleKeeps
    <3> HIDE DEF next
    <3>3. /\ dec'.fFirstEvProcessed = seen.fFirstEvProcessed
          /\ dec'.fFoundMPS = seen.fFoundMPS
          /\ dec'.fLastMPSTime = seen.fLastMPSTime + missed * Period
      BY <3>1, <3>2
    <3> QED
      BY <2>4, <2>5, <3>3
  <2>7. dec'.fNCycle # 0
    <3>1. dec'.fNCycle = seen.fNCycle + (IF missed = 0 THEN 1 ELSE missed)
      BY <1>1, <2>3, <2>4, <2>5, NewCycleCounts
    <3> QED
      BY <2>3, <2>4, <3>1
  <2>8. MPSWindow(dec', v) /\ v \in 0 .. v /\ v >= v - 1
    BY <1>1, <2>1, <2>3, <2>6, ClockCatchesUp
  <2> QED
    BY <2>6, <2>7, <2>8 DEF OnTime
<1> QED
  BY <1>3, <1>4, <1>5, <1>6, <1>7
  DEF Decode, DecodeInTime, DecodeMissedEvents, DecodeDisabled

\* A window with a report of a decoder that has the quartets: a bit more for a quartet more.
LEMMA NewCycleCollects ==
  ASSUME NEW d, Sound(d), Marked(d), d.fFoundQuartet, d.fHaveQRT, d.fNQuartet = QuartetOf(d),
         ~Calibrated(d), NEW y \in Int, PhaseOf(d) = y % 4, NEW ring \in Seeds, BitsAre(d, ring),
         NEW e \in EventSet, e.reported # kUnknown, e.qrt <=> (y + 1) % 4 = 0,
         NEW scal \in SUBSET Seeds
  PROVE  LET r == NewCycle(d, e, scal, 1)
         IN  Calibrated(r) \/ r.fNBits = d.fNBits + ((y + 1) \div 4 - y \div 4)
<1> DEFINE r == NewCycle(d, e, scal, 1)
<1>1. PICK n \in {0, 1} : n = (y + 1) \div 4 - y \div 4
  OBVIOUS
<1>2. PICK now \in Seeds : now = Advance[n][ring]
  BY AdvanceDefined
<1>3. PICK blank \in DecoderState :
        /\ Loaded(r, blank, e, scal, 1)
        /\ Sound(blank) /\ blank.fFoundQuartet /\ blank.fNBits = d.fNBits
        /\ blank.fActualHelicity = kUnknown
        /\ ~Calibrated(blank) => blank.fNQuartet - blank.fNLastQuartet = (y + 1) \div 4 - y \div 4
  <2>1. PICK missed \in Nat \ {0} : missed = 1
    OBVIOUS
  <2>2. /\ now = Advance[(y + missed) \div 4 - y \div 4][ring]
        /\ (e.qrt <=> (y + missed) % 4 = 0) \/ d.fNQRTProblems + 1 <= MaxQRTProblems
    BY <1>1, <1>2, <2>1
  <2>3. \E blank \in DecoderState :
          /\ Loaded(NewCycle(d, e, scal, missed), blank, e, scal, missed)
          /\ Sound(blank) /\ Marked(blank) /\ blank.fHaveQRT /\ blank.fFoundQuartet
          /\ PhaseOf(blank) = (y + missed) % 4 /\ blank.fActualHelicity = kUnknown
          /\ blank.fNBits = d.fNBits
          /\ ~Calibrated(blank) =>
               /\ BitsAre(blank, ring)
               /\ blank.fNQuartet - blank.fNLastQuartet = (y + missed) \div 4 - y \div 4
          /\ Calibrated(blank) => \E last \in Seeds :
               /\ blank.fRingSeed_reported = last
               /\ now = IF PhaseOf(blank) = 0 THEN RanBit30(last) ELSE last
    BY <2>2, NewCycleLoads
  <2> QED
    BY <2>1, <2>3
<1> HIDE DEF r
<1> DEFINE loaded == LoadHelicity(blank, e, scal)
<1>4. ~Calibrated(blank)
  BY <1>3 DEF Calibrated
<1>5. Calibrated(loaded) \/ loaded.fNBits = blank.fNBits + n
  <2>1. blank.fNQuartet - blank.fNLastQuartet = n
    BY <1>1, <1>3, <1>4
  <2> QED
    BY <1>3, <1>4, <2>1, LoadHelicityCollects
<1>6. Sound(loaded)
  BY <1>3, LoadHelicitySound
<1>7. r = [loaded EXCEPT !.fLastMPSTime = @ + 1 * Period, !.fIsNewCycle = FALSE]
  BY <1>3 DEF Loaded
<1> HIDE DEF loaded
<1>8. r.fNBits = loaded.fNBits
  BY <1>6, <1>7 DEF Sound, DecoderState
<1>9. Calibrated(r) \/ r.fNBits = d.fNBits + ((y + 1) \div 4 - y \div 4)
  BY <1>1, <1>3, <1>5, <1>8 DEF Calibrated
<1> QED
  BY <1>9 DEF r

\* With the clock in window w: the first flag came in one of the windows 1 to 5, and
\* each quartet since gave a bit.
InPace(d, w) ==
  IF d.fHaveQRT THEN Calibrated(d) \/ d.fNBits >= QuartetsTo(w) - QuartetsTo(5) + 1
  ELSE \A x \in 2 .. w : (x + phase0) % 4 # 0

\* An event without fault of a decoder that is right.
LEMMA DecodeCollects ==
  ASSUME MPSIsShort, HelDelay # 0, HaveQRTSignal, BeamTypes, Safe(dec), ~dec.fDisabled,
         tick \in Int, TellsTruth(dec, win, tick), Counted(dec, win, tick, faults),
         OnTime(dec, win, tick), Right,
         \A w \in 0 .. win : dec.fFoundMPS /\ MPSWindow(dec, w) => InPace(dec, w),
         NEW g \in {0, 1}, win' = win + g, phase0' = phase0,
         beam' = Advance[(TruePhase + g) \div 4][beam],
         NEW tk \in 0 .. Period - 1, IF g = 0 THEN tick <= tk ELSE tk < MPSTicks,
         NEW e, EventAt(e, win', tk), e.qrt <=> (win' + phase0) % 4 = 0,
         e.reported = InQuartet((win' + phase0) % 4, Sign(beam'[1])),
         NEW scal \in SUBSET Seeds, Decode(e, FALSE, scal),
         NEW x \in 0 .. win', MPSWindow(dec', x)
  PROVE  Calibrated(dec') \/ dec'.fNBits >= QuartetsTo(x) - QuartetsTo(5) + 1
<1>1. /\ win \in Nat /\ win' \in Nat /\ phase0 \in 0 .. 3 /\ win <= win' /\ Sound(dec)
      /\ (win = win' => tick <= tk) /\ e \in EventSet /\ g \in Nat /\ MPSTicks \in Nat
  BY DecoderAssumption DEF BeamTypes, Safe, EventAt
<1>2. dec.fHaveQRT /\ dec.fFoundQuartet /\ dec.fNCycle > 0 /\ Marked(dec)
  BY DEF Right, Counted, TellsTruth
<1>3. dec.fFirstEvProcessed /\ dec.fFoundMPS /\ ~dec.fIsNewCycle /\ dec.fNQuartet = QuartetOf(dec)
  BY <1>2 DEF Counted
<1>4. PICK w \in 0 .. win : MPSWindow(dec, w) /\ w >= win - 1
  BY <1>3 DEF OnTime
<1>5. /\ beam' \in Seeds /\ RingIn(w) \in Seeds
      /\ beam' = Advance[(win' + phase0) \div 4 - (w + phase0) \div 4][RingIn(w)]
  BY <1>1, <1>4, RingMoves
<1>6. RightAt(dec, w, RingIn(w))
  BY <1>4, RightIsAt DEF RingIn
<1>7. Calibrated(dec) \/ dec.fNBits >= QuartetsTo(w) - QuartetsTo(5) + 1
  BY <1>2, <1>3, <1>4 DEF InPace
<1>8. CASE Calibrated(dec)
  <2>1. PICK now \in Seeds : now = beam'
    BY <1>5
  <2>2. PICK v \in Nat : v = win'
    BY <1>1
  <2>3. /\ now = Advance[QuartetsTo(v) - QuartetsTo(w)][RingIn(w)]
        /\ e.reported = InQuartet((v + phase0) % 4, Sign(now[1]))
        /\ EventAt(e, v, tk) /\ (e.qrt <=> (v + phase0) % 4 = 0)
        /\ w \in Nat /\ w <= v
    BY <1>1, <1>4, <1>5, <2>1, <2>2 DEF QuartetsTo
  <2>4. Calibrated(dec')
    BY <1>1, <1>2, <1>3, <1>4, <1>5, <1>6, <1>8, <2>3, DecodeAnswers
  <2> QED
    BY <2>4
<1>9. CASE ~Calibrated(dec)
  <2>1. \/ dec.fNCycle = 0 /\ Waits(dec', dec)
        \/ dec.fNCycle > 0 /\ Stays(win)
        \/ Counts(win, win', tk, e, scal)
    BY <1>1, DecodeOutcomes
  <2>2. CASE Stays(win)
    <3>1. PICK y \in 0 .. win : MPSWindow(dec, y) /\ MPSWindow(dec', y)
      BY <2>2 DEF Stays
    <3>2. y = w /\ y = x
      BY <1>4, <3>1, WindowOfMPS
    <3>3. dec'.fNBits = dec.fNBits
      BY <2>2 DEF Stays, Standing
    <3> QED
      BY <1>7, <1>9, <3>2, <3>3
  <2>3. CASE Counts(win, win', tk, e, scal)
    <3>1. PICK z \in 0 .. win, seen \in DecoderState :
            /\ MPSWindow(dec, z) /\ Sound(seen) /\ Marked(seen) /\ Standing(seen, dec)
            /\ dec' = NewCycle(seen, e, scal, win' - z)
            /\ dec.fNCycle > 0 => z < win'
      BY <2>3 DEF Counts
    <3>2. z = w
      BY <1>4, <3>1, WindowOfMPS
    <3>3. x = win'
      BY <1>1, <2>3, WindowOfMPS DEF Counts
    <3>4. g = 0
      BY <1>1, <2>3 DEF Counts
    <3>5. win' - z = 1 /\ w + 1 = win'
      BY <1>1, <1>2, <1>4, <3>1, <3>2, <3>4
    <3>6. PICK y \in Int : y = w + phase0 /\ y + 1 = win' + phase0
      BY <1>1, <3>5
    <3>7. /\ seen.fFoundQuartet /\ seen.fHaveQRT /\ seen.fNQuartet = QuartetOf(seen)
          /\ PhaseOf(seen) = y % 4 /\ BitsAre(seen, RingIn(w))
          /\ ~Calibrated(seen) /\ seen.fNBits = dec.fNBits
      BY <1>2, <1>3, <1>6, <1>9, <3>1, <3>6
      DEF RightAt, LockedAt, BitsAre, Standing, PhaseOf, QuartetOf, Calibrated
    <3>8. e.reported # kUnknown /\ (e.qrt <=> (y + 1) % 4 = 0)
      BY <3>6, SignIsKnown
    <3>9. Calibrated(dec') \/ dec'.fNBits = seen.fNBits + ((y + 1) \div 4 - y \div 4)
      BY <1>1, <1>5, <3>1, <3>5, <3>7, <3>8, NewCycleCollects
    <3>10. QuartetsTo(x) - QuartetsTo(w) = (y + 1) \div 4 - y \div 4
      BY <3>3, <3>6 DEF QuartetsTo
    <3>11. /\ QuartetsTo(x) \in Int /\ QuartetsTo(w) \in Int /\ QuartetsTo(5) \in Int
           /\ dec.fNBits \in Int
      BY <1>1, StateHasMembers DEF QuartetsTo, Sound, Members
    <3> QED
      BY <1>7, <1>9, <3>7, <3>9, <3>10, <3>11
  <2> QED
    BY <1>2, <2>1, <2>2, <2>3
<1> QED
  BY <1>8, <1>9

\* One of the windows 2 to 5 is the first of a quartet.
LEMMA FlagComesEarly ==
  ASSUME phase0 \in 0 .. 3, NEW w \in Nat, w >= 5
  PROVE  \E x \in 2 .. w : (x + phase0) % 4 = 0
<1>1. PICK x \in 2 .. 5 : (x + phase0) % 4 = 0
  <2>1. (5 + 3) % 4 = 0 /\ (4 + 0) % 4 = 0 /\ (3 + 1) % 4 = 0 /\ (2 + 2) % 4 = 0
    OBVIOUS
  <2> QED
    BY <2>1
<1>2. x \in 2 .. w
  OBVIOUS
<1> QED
  BY <1>1, <1>2

\* An event without fault of a decoder that searches.
LEMMA DecodeFindsFlag ==
  ASSUME MPSIsShort, HelDelay # 0, BeamTypes, Safe(dec), UntouchedGuess,
         ~dec.fDisabled, ~dec.fHaveQRT,
         tick \in Int, TellsTruth(dec, win, tick), Counted(dec, win, tick, faults),
         OnTime(dec, win, tick),
         LostAt(dec, (dec.fLastMPSTime \div Period + phase0) % 4),
         \A w \in 0 .. win : dec.fFoundMPS /\ MPSWindow(dec, w) => InPace(dec, w),
         NEW g \in {0, 1}, win' = win + g, phase0' = phase0,
         NEW tk \in 0 .. Period - 1, IF g = 0 THEN tick <= tk ELSE tick >= MPSTicks /\ tk < MPSTicks,
         NEW e, EventAt(e, win', tk), e.qrt <=> (win' + phase0) % 4 = 0,
         NEW now \in Seeds, e.reported = InQuartet((win' + phase0) % 4, Sign(now[1])),
         NEW scal \in SUBSET Seeds, scal # {} => RanBit30(CHOOSE s \in scal : TRUE) = now,
         Decode(e, FALSE, scal)
  PROVE  /\ \/ LostAt(dec', (dec'.fLastMPSTime \div Period + phase0) % 4)
            \/ MPSWindow(dec', win') /\ LockedAt(dec', (win' + phase0) % 4, now)
         /\ \A x \in 0 .. win' : dec'.fFoundMPS /\ MPSWindow(dec', x) => InPace(dec', x)
<1>1. /\ win \in Nat /\ win' \in Nat /\ win' \in win .. win + 1 /\ phase0 \in 0 .. 3
      /\ win <= win' /\ (win = win' => tick <= tk) /\ Sound(dec) /\ MPSTicks \in Nat
      /\ (win' # win => tick >= MPSTicks /\ tk < MPSTicks)
  BY DecoderAssumption DEF BeamTypes, Safe
<1>2. e.reported # kUnknown /\ e.reported \in {kUnknown, InQuartet((win' + phase0) % 4, Sign(now[1]))}
  BY SignIsKnown
<1>3. \/ LostAt(dec', (dec'.fLastMPSTime \div Period + phase0) % 4)
      \/ /\ MPSWindow(dec', win') /\ LockedAt(dec', (win' + phase0) % 4, now)
         /\ dec'.fNBits >= 1
  <2>1. \/ LostAt(dec', (dec'.fLastMPSTime \div Period + phase0) % 4)
        \/ /\ MPSWindow(dec', win') /\ LockedAt(dec', (win' + phase0) % 4, now)
           /\ e.reported # kUnknown => dec'.fNBits >= 1
    BY <1>1, <1>2, DecodeSearches, ZenonT(40)
  <2> QED
    BY <1>2, <2>1
<1>4. OnTime(dec', win', tk)
  BY <1>1, DecodeIsOnTime
<1>5. \/ dec.fNCycle = 0 /\ Waits(dec', dec)
      \/ dec.fNCycle > 0 /\ Stays(win)
      \/ Counts(win, win', tk, e, scal)
  BY <1>1, DecodeOutcomes
<1>6. ASSUME NEW x \in 0 .. win', dec'.fFoundMPS, MPSWindow(dec', x)
      PROVE  InPace(dec', x)
  <2>1. dec'.fNCycle = 0 => x <= 1
    BY <1>4, <1>6, WindowOfMPS DEF OnTime
  <2>2. ~dec'.fHaveQRT /\ x <= 1 => InPace(dec', x)
    BY <1>1 DEF InPace
  <2>3. CASE dec.fNCycle = 0 /\ Waits(dec', dec)
    BY <2>1, <2>2, <2>3 DEF Waits
  <2>4. CASE dec.fNCycle > 0 /\ Stays(win)
    <3>1. PICK y \in 0 .. win : MPSWindow(dec, y) /\ MPSWindow(dec', y)
      BY <2>4 DEF Stays
    <3>2. y = x
      BY <1>6, <3>1, WindowOfMPS
    <3>3. ~dec'.fHaveQRT
      BY <2>4 DEF Stays, Standing
    <3>4. InPace(dec, y)
      BY <2>4, <3>1 DEF Counted
    <3> QED
      BY <3>2, <3>3, <3>4 DEF InPace
  <2>5. CASE Counts(win, win', tk, e, scal)
    <3>1. tk >= MPSTicks /\ MPSWindow(dec', win') /\ dec.fFoundMPS
      BY <2>5 DEF Counts
    <3>2. win' = win
      BY <1>1, <3>1
    <3>3. x = win'
      BY <1>1, <1>6, <3>1, WindowOfMPS
    <3>4. PICK z \in 0 .. win : MPSWindow(dec, z) /\ z >= win - 1
      BY <3>1 DEF OnTime
    <3>5. \A y \in 2 .. z : (y + phase0) % 4 # 0
      BY <3>1, <3>4 DEF InPace
    <3>6. CASE LostAt(dec', (dec'.fLastMPSTime \div Period + phase0) % 4)
      <4>1. CASE dec'.fNCycle = 0
        BY <2>1, <2>2, <3>6, <4>1 DEF LostAt
      <4>2. CASE dec'.fNCycle # 0
        <5>1. dec'.fLastMPSTime \div Period = x
          BY <1>6, WindowOfMPS
        <5>2. (x + phase0) % 4 # 0
          BY <3>6, <4>2, <5>1 DEF LostAt, NoQuartetYet
        <5>3. ASSUME NEW y \in 2 .. x PROVE (y + phase0) % 4 # 0
          <6>1. y \in 2 .. z \/ y = x
            BY <1>1, <3>2, <3>3, <3>4
          <6> QED
            BY <3>5, <5>2, <6>1
        <5> QED
          BY <3>6, <5>3 DEF LostAt, InPace
      <4> QED
        BY <4>1, <4>2
    <3>7. CASE LockedAt(dec', (win' + phase0) % 4, now) /\ dec'.fNBits >= 1
      <4>1. x <= 5
        <5> SUFFICES ASSUME x > 5 PROVE FALSE
          BY <1>1
        <5>1. z \in Nat /\ z >= 5
          BY <1>1, <3>2, <3>3, <3>4
        <5> QED
          BY <1>1, <3>5, <5>1, FlagComesEarly
      <4>2. QuartetsTo(x) - QuartetsTo(5) + 1 <= 1
        <5>1. PICK a \in Int : a = x + phase0
          BY <1>1
        <5>2. PICK b \in Int : b = 5 + phase0
          BY <1>1
        <5>3. a \div 4 <= b \div 4
          BY <1>1, <4>1, <5>1, <5>2
        <5> QED
          BY <5>1, <5>2, <5>3 DEF QuartetsTo
      <4>3. dec'.fNBits \in Int /\ QuartetsTo(x) \in Int /\ QuartetsTo(5) \in Int
        <5>1. Safe(dec')
          BY <1>1, DecodeKeepsInvariant DEF EventAt
        <5> QED
          BY <1>1, <5>1, StateHasMembers DEF Safe, Sound, Members, QuartetsTo
      <4> QED
        BY <3>7, <4>2, <4>3 DEF LockedAt, InPace
    <3> QED
      BY <1>3, <3>6, <3>7
  <2> QED
    BY <1>5, <2>3, <2>4, <2>5
<1> QED
  BY <1>3, <1>6

\* Until the first fault the decoder is on time, and its calibration is in pace.
SteadyInv ==
  /\ KeptInv /\ ~dec.fDisabled
  /\ HelDelay # 0 /\ HaveQRTSignal /\ faults = 0 =>
       /\ OnTime(dec, win, tick)
       /\ IF dec.fHaveQRT THEN Right
          ELSE LostAt(dec, (dec.fLastMPSTime \div Period + phase0) % 4)
       /\ \A w \in 0 .. win : dec.fFoundMPS /\ MPSWindow(dec, w) => InPace(dec, w)

LEMMA InitialSteady == Init => SteadyInv
<1> SUFFICES ASSUME Init PROVE SteadyInv
  OBVIOUS
<1>1. /\ ~dec.fDisabled /\ ~dec.fFoundMPS /\ ~dec.fHaveQRT /\ ~dec.fFoundQuartet
      /\ dec.fNBits = 0 /\ dec.fNCycle = 0 /\ \A i \in 0 .. 3 : dec.fQuartet[i] = 0
      /\ win = 0 /\ tick = 0
  BY DEF Init
<1>2. OnTime(dec, win, tick)
  BY <1>1, DecoderAssumption DEF OnTime
<1> QED
  BY <1>1, <1>2, InitialCounts DEF SteadyInv, LostAt

\* A steady step is one of the decoder's, with an event from each window at least.
LEMMA SteadyStepIs ==
  ASSUME TruthInv, SteadyNext
  PROVE  /\ Next
         /\ \E g \in {0, 1}, scal \in SUBSET Seeds, e \in EventSet :
              /\ StepOf(e, g, scal, FALSE)
              /\ g = 1 => tick >= MPSTicks /\ tick' < MPSTicks
<1>1. PICK g \in 0 .. setup.MaxGap, tk \in EventTicks, fault \in Faults :
        /\ g <= 1
        /\ g = 1 => tick >= MPSTicks /\ tk < MPSTicks
        /\ Arrival(g, tk, fault)
        /\ \E scal \in ScalerOffers' : Decode(Event(fault)', FALSE, scal)
  BY DEF SteadyNext
<1>2. PICK scal \in ScalerOffers' : Decode(Event(fault)', FALSE, scal)
  BY <1>1
<1>3. /\ g \in Nat /\ scal \in SUBSET Seeds
      /\ \E e \in EventSet : StepOf(e, g, scal, FALSE)
  <2>1. FALSE \in {FALSE, setup.EventsMissed}
    OBVIOUS
  <2> QED
    BY <1>1, <1>2, <2>1, ArrivalIsStep
<1>4. g \in {0, 1} /\ tick' = tk
  BY <1>1, <1>3 DEF Arrival
<1>5. Next
  BY <1>1 DEF Next
<1> QED
  BY <1>1, <1>3, <1>4, <1>5

LEMMA StepKeepsSteady ==
  ASSUME MPSIsShort, SeedIsOneBehind
  PROVE  SteadyInv /\ [SteadyNext]_vars => SteadyInv'
<1> SUFFICES ASSUME SteadyInv, [SteadyNext]_vars PROVE SteadyInv'
  OBVIOUS
<1>1. /\ KeptInv /\ TruthInv /\ BeamTypes /\ Safe(dec) /\ UntouchedGuess
      /\ setup \in Setups
  BY DEF SteadyInv, KeptInv, TruthInv, IndInv
<1>2. CASE SteadyNext
  <2>1. PICK g \in {0, 1}, scal \in SUBSET Seeds, e \in EventSet :
          /\ StepOf(e, g, scal, FALSE)
          /\ g = 1 => tick >= MPSTicks /\ tick' < MPSTicks
    BY <1>1, <1>2, SteadyStepIs
  <2>2. KeptInv'
    BY <1>1, <1>2, SteadyStepIs, StepKeepsCounts
  <2>3. ~dec'.fDisabled
    BY <1>1, <2>1, DecodeStaysEnabled DEF SteadyInv, StepOf
  <2> SUFFICES ASSUME HelDelay' # 0, HaveQRTSignal', faults' = 0
               PROVE  /\ OnTime(dec, win, tick)'
                      /\ IF dec'.fHaveQRT THEN Right'
                         ELSE LostAt(dec, (dec.fLastMPSTime \div Period + phase0) % 4)'
                      /\ \A w \in 0 .. win' :
                           dec'.fFoundMPS /\ MPSWindow(dec, w)' => InPace(dec, w)'
    BY <2>2, <2>3 DEF SteadyInv
  <2>4. HelDelay' = HelDelay /\ HaveQRTSignal' = HaveQRTSignal
    BY <2>1 DEF StepOf, HelDelay, HaveQRTSignal
  <2>5. FaultlessStep(e, g, scal, FALSE)
    BY <2>1, StepIsFaultless
  <2>6. /\ EventAt(e, win', tick') /\ Decode(e, FALSE, scal)
        /\ setup' = setup /\ phase0' = phase0 /\ win' = win + g /\ g \in Nat
        /\ win \in Nat /\ tick \in Int /\ tick' \in 0 .. Period - 1
        /\ IF g = 0 THEN tick <= tick' ELSE tick >= MPSTicks /\ tick' < MPSTicks
        /\ beam' = Advance[(TruePhase + g) \div 4][beam]
        /\ e.reported = InQuartet((win' + phase0) % 4, Sign(beam'[1]))
        /\ (e.qrt <=> (win' + phase0) % 4 = 0) /\ faults = 0
    <3>1. HaveQRTSignal /\ g \in Nat
      BY <2>4
    <3>2. IF g = 0 THEN tick <= tick' ELSE tick >= MPSTicks /\ tick' < MPSTicks
      BY <2>1, <2>5 DEF FaultlessStep
    <3> QED
      BY <2>5, <3>1, <3>2 DEF FaultlessStep
  <2>7. scal # {} => RanBit30(CHOOSE s \in scal : TRUE) = beam'
    BY <2>1 DEF StepOf
  <2>8. /\ HelDelay # 0 /\ HaveQRTSignal /\ ~dec.fDisabled
        /\ TellsTruth(dec, win, tick) /\ Counted(dec, win, tick, faults)
        /\ OnTime(dec, win, tick)
        /\ IF dec.fHaveQRT THEN Right
           ELSE LostAt(dec, (dec.fLastMPSTime \div Period + phase0) % 4)
        /\ \A w \in 0 .. win : dec.fFoundMPS /\ MPSWindow(dec, w) => InPace(dec, w)
    BY <1>1, <2>4, <2>6 DEF SteadyInv, KeptInv, TruthInv
  <2>9. /\ win' \in Nat /\ win' \in win .. win + 1 /\ win <= win' /\ phase0 \in 0 .. 3
        /\ (win = win' => tick <= tick')
        /\ (win' # win => tick >= MPSTicks /\ tick' < MPSTicks)
    BY <1>1, <2>6 DEF BeamTypes
  <2>10. beam' \in Seeds
    <3>1. (TruePhase + g) \div 4 \in Nat
      BY <2>6, <2>9 DEF TruePhase
    <3> QED
      BY <1>1, <2>6, <3>1, AdvanceDefined DEF BeamTypes
  <2>11. OnTime(dec, win, tick)'
    <3>1. OnTime(dec', win', tick')
      BY <1>1, <2>6, <2>8, <2>9, DecodeIsOnTime
    <3> QED
      BY <3>1 DEF OnTime, MPSWindow
  <2>12. CASE dec.fHaveQRT
    <3>1. \E w \in 0 .. win' :
            MPSWindow(dec', w) /\ RightAt(dec', w, Retreat[QuartetsTo(win') - QuartetsTo(w)][beam'])
      BY <1>1, <2>6, <2>7, <2>8, <2>9, <2>12, DecodeKeepsRight
    <3>2. Right'
      BY <2>6, <2>8, <3>1, RightIsLater
    <3>3. dec'.fHaveQRT
      BY <3>2 DEF Right
    <3>4. ASSUME NEW w \in 0 .. win', MPSWindow(dec', w)
          PROVE  Calibrated(dec') \/ dec'.fNBits >= QuartetsTo(w) - QuartetsTo(5) + 1
      BY <1>1, <2>6, <2>8, <2>9, <2>12, <3>4, DecodeCollects
    <3>5. \A w \in 0 .. win' : dec'.fFoundMPS /\ MPSWindow(dec, w)' => InPace(dec, w)'
      BY <2>6, <3>3, <3>4 DEF MPSWindow, InPace, QuartetsTo, Calibrated
    <3> QED
      BY <2>11, <3>2, <3>3, <3>5
  <2>13. CASE ~dec.fHaveQRT
    <3>1. PICK now \in Seeds : now = beam'
      BY <2>10
    <3>2. /\ e.reported = InQuartet((win' + phase0) % 4, Sign(now[1]))
          /\ scal # {} => RanBit30(CHOOSE s \in scal : TRUE) = now
      BY <2>6, <2>7, <3>1
    <3>3. /\ \/ LostAt(dec', (dec'.fLastMPSTime \div Period + phase0) % 4)
             \/ MPSWindow(dec', win') /\ LockedAt(dec', (win' + phase0) % 4, now)
          /\ \A x \in 0 .. win' : dec'.fFoundMPS /\ MPSWindow(dec', x) => InPace(dec', x)
      BY <1>1, <2>6, <2>8, <2>9, <2>13, <3>2, DecodeFindsFlag
    <3>4. \A w \in 0 .. win' : dec'.fFoundMPS /\ MPSWindow(dec, w)' => InPace(dec, w)'
      BY <2>6, <3>3 DEF MPSWindow, InPace, QuartetsTo, Calibrated
    <3>5. CASE LostAt(dec', (dec'.fLastMPSTime \div Period + phase0) % 4)
      <4>1. LostAt(dec, (dec.fLastMPSTime \div Period + phase0) % 4)'
        BY <2>6, <3>5 DEF LostAt
      <4> QED
        BY <2>11, <3>4, <3>5, <4>1 DEF LostAt
    <3>6. CASE MPSWindow(dec', win') /\ LockedAt(dec', (win' + phase0) % 4, now)
      <4>1. Right'
        BY <2>6, <2>9, <2>10, <3>1, <3>6, LockIsRight
      <4> QED
        BY <2>11, <3>4, <3>6, <4>1 DEF LockedAt
    <3> QED
      BY <3>3, <3>5, <3>6
  <2> QED
    BY <2>12, <2>13
<1>3. CASE UNCHANGED vars
  <2>1. KeptInv'
    BY <1>1, <1>3, StepKeepsCounts
  <2> QED
    BY <1>3, <2>1
    DEF vars, SteadyInv, HelDelay, HaveQRTSignal, OnTime, MPSWindow, InPace, QuartetsTo, LostAt,
        Right, PhaseRight, WindowSeen, BeamSeen, PhaseOf, Calibrated
<1> QED
  BY <1>2, <1>3

\* From window 4 * (MAXBIT + 1) on, the clock stands at most one window behind, and a
\* decoder in pace has all the bits.
LEMMA SteadyIsEnough == SteadyInv => SteadyCalibration
<1> SUFFICES ASSUME SteadyInv, HelDelay # 0, HaveQRTSignal, faults = 0, win >= 4 * (MAXBIT + 1)
             PROVE  Calibrated(dec)
  BY DEF SteadyCalibration
<1>1. /\ win \in Nat /\ phase0 \in 0 .. 3 /\ MAXBIT \in Nat \ {0}
      /\ dec.fNBits \in 0 .. MAXBIT
  BY RingAssumption, StateHasMembers
  DEF SteadyInv, KeptInv, TruthInv, IndInv, BeamTypes, Safe, Sound, Members
<1>2. OnTime(dec, win, tick) /\ dec.fFoundMPS
  BY <1>1 DEF SteadyInv, OnTime
<1>3. PICK w \in 0 .. win : MPSWindow(dec, w) /\ w >= win - 1
  BY <1>2 DEF OnTime
<1>4. InPace(dec, w) /\ w \in Nat /\ w >= 4 * MAXBIT + 3
  <2>1. InPace(dec, w)
    BY <1>2, <1>3 DEF SteadyInv
  <2>2. w \in Nat /\ w >= 4 * MAXBIT + 3
    BY <1>1, <1>3
  <2> QED
    BY <2>1, <2>2
<1>5. dec.fHaveQRT
  <2>1. w >= 5
    BY <1>1, <1>4
  <2> QED
    BY <1>1, <1>4, <2>1, FlagComesEarly DEF InPace
<1>6. QuartetsTo(w) - QuartetsTo(5) + 1 >= MAXBIT
  <2>1. PICK x \in Nat : x = 4 * MAXBIT + 3 + phase0
    BY <1>1
  <2>2. PICK y \in Nat : y = w + phase0 /\ x <= y
    BY <1>1, <1>4, <2>1
  <2>3. x \div 4 <= y \div 4
    BY <2>2
  <2>4. x \div 4 - (5 + phase0) \div 4 + 1 >= MAXBIT
    BY <1>1, <2>1
  <2> QED
    BY <1>1, <2>2, <2>3, <2>4 DEF QuartetsTo
<1>7. QuartetsTo(w) \in Int /\ QuartetsTo(5) \in Int
  BY <1>1, <1>4 DEF QuartetsTo
<1> QED
  BY <1>1, <1>4, <1>5, <1>6, <1>7 DEF InPace, Calibrated

\* At a healthy trigger rate, in a run with the QRT flag and a delayed report, a decoder
\* that met no fault is calibrated after a quartet for each bit and one to start, for
\* every length of the ring, of the window and of its MPS, and wherever in a quartet the
\* run begins.
THEOREM SteadyDecoderCalibrates ==
  ASSUME MPSIsShort, SeedIsOneBehind
  PROVE  SteadySpec => []SteadyCalibration
<1>1. Init => SteadyInv
  BY InitialSteady
<1>2. SteadyInv /\ [SteadyNext]_vars => SteadyInv'
  BY StepKeepsSteady
<1>3. SteadyInv => SteadyCalibration
  BY SteadyIsEnough
<1> QED
  BY <1>1, <1>2, <1>3, PTL DEF SteadySpec

---------------------------------------------------------------------------
(* The search at a healthy rate, in a run without the QRT flag.            *)

\* The last reports up to phase p of the quartet that ring signs: those before it are of
\* the quartet before, and those from before the first event are not known.
ReportsOf(f, p, ring) ==
  \A i \in 0 .. 3 :
    f[i] \in {kUnknown, InQuartet((p - i) % 4, Sign(ring[IF i <= p THEN 1 ELSE 2]))}

\* A window on, the ring turns where a quartet begins.
LEMMA ReportsMoveOn ==
  ASSUME MAXBIT > 1, NEW f, NEW p \in 0 .. 3, NEW ring \in Seeds, ReportsOf(f, p, ring),
         NEW q \in 0 .. 3, q = (p + 1) % 4,
         NEW now \in Seeds, now = IF q = 0 THEN RanBit30(ring) ELSE ring
  PROVE  ReportsOf(Shifted(f, InQuartet(q, Sign(now[1]))), q, now)
<1> DEFINE g == Shifted(f, InQuartet(q, Sign(now[1])))
<1> SUFFICES ASSUME NEW i \in 0 .. 3
             PROVE  g[i] \in {kUnknown, InQuartet((q - i) % 4, Sign(now[IF i <= q THEN 1 ELSE 2]))}
  BY DEF ReportsOf
<1>1. CASE i = 0
  <2>1. (q - i) % 4 = q /\ i <= q
    BY <1>1
  <2>2. g[i] = InQuartet(q, Sign(now[1]))
    BY <1>1 DEF Shifted
  <2> QED
    BY <2>1, <2>2
<1>2. CASE i # 0
  <2>1. PICK j \in 0 .. 3 : j = i - 1
    BY <1>2
  <2>2. g[i] = f[j]
    BY <1>2, <2>1 DEF Shifted
  <2>3. f[j] \in {kUnknown, InQuartet((p - j) % 4, Sign(ring[IF j <= p THEN 1 ELSE 2]))}
    BY DEF ReportsOf
  <2>4. (p - j) % 4 = (q - i) % 4
    BY <2>1
  <2>5. ring[IF j <= p THEN 1 ELSE 2] = now[IF i <= q THEN 1 ELSE 2]
    <3>1. CASE q = 0
      <4>1. p = 3 /\ j <= p /\ ~(i <= q)
        BY <1>2, <3>1
      <4>2. 2 \in 1 .. MAXBIT /\ 2 - 1 = 1
        BY RingAssumption
      <4>3. now[2] = ring[1]
        BY <3>1, <4>2 DEF RanBit30, PushBit
      <4> QED
        BY <4>1, <4>3
    <3>2. CASE q # 0
      <4>1. q = p + 1
        BY <3>2
      <4>2. j <= p <=> i <= q
        BY <2>1, <4>1
      <4> QED
        BY <3>2, <4>2
    <3> QED
      BY <3>1, <3>2
  <2> QED
    BY <2>2, <2>3, <2>4, <2>5
<1> QED
  BY <1>1, <1>2

\* The sum of the test, where two signs meet.
FourAlike(a, b, c, d) == a + d - b - c \in {4, -4}

LEMMA WhereSignsMeet ==
  ASSUME NEW s \in {-1, 1}, NEW z \in {-1, 1}, NEW a, NEW b, NEW c, NEW d,
         FourAlike(a, b, c, d)
  PROVE  /\ ~(a \in {0, s} /\ b \in {0, z} /\ c \in {0, -z} /\ d \in {0, -z})
         /\ ~(a \in {0, -s} /\ b \in {0, -s} /\ c \in {0, s} /\ d \in {0, z})
         /\ a \in {0, -s} /\ b \in {0, s} /\ c \in {0, z} /\ d \in {0, -z} => s = z
<1>1. CASE s = 1 /\ z = 1
  BY <1>1 DEF FourAlike
<1>2. CASE s = 1 /\ z = -1
  BY <1>2 DEF FourAlike
<1>3. CASE s = -1 /\ z = 1
  BY <1>3 DEF FourAlike
<1>4. CASE s = -1 /\ z = -1
  BY <1>4 DEF FourAlike
<1> QED
  BY <1>1, <1>2, <1>3, <1>4

\* The phase i windows before.
LEMMA PhaseBefore ==
  ASSUME NEW p \in 0 .. 3, NEW i \in 0 .. 3
  PROVE  (p - i) % 4 = IF i <= p THEN p - i ELSE p + 4 - i
<1>1. (p + 4 - i) % 4 = (p - i) % 4
  OBVIOUS
<1>2. \A x \in 0 .. 3 : x % 4 = x
  OBVIOUS
<1>3. CASE i <= p
  <2>1. p - i \in 0 .. 3
    BY <1>3
  <2> QED
    BY <1>2, <1>3, <2>1
<1>4. CASE ~(i <= p)
  <2>1. p + 4 - i \in 0 .. 3
    BY <1>4
  <2> QED
    BY <1>1, <1>2, <1>4, <2>1
<1> QED
  BY <1>3, <1>4

\* At any place but the end of a quartet the test passes only in its second window, and
\* only when the quartet has the sign of the one before.
LEMMA TestOutOfPhase ==
  ASSUME NEW f, NEW p \in 0 .. 3, NEW ring \in Seeds, ReportsOf(f, p, ring), Passes(f)
  PROVE  p = 3 \/ (p = 1 /\ (MAXBIT > 1 => ring[2] = ring[1]))
<1> DEFINE At(i, phase, sign) == f[i] \in {0, IF phase \in {0, 3} THEN sign ELSE -sign}
<1>1. PICK s \in {-1, 1} : s = Sign(ring[1])
  BY DEF Sign, kPlus, kMinus
<1>2. PICK z \in {-1, 1} : z = Sign(ring[2])
  BY DEF Sign, kPlus, kMinus
<1>3. ASSUME NEW i \in 0 .. 3
      PROVE  At(i, (p - i) % 4, IF i <= p THEN s ELSE z)
  BY <1>1, <1>2 DEF ReportsOf, InQuartet, kUnknown
<1>4. FourAlike(f[0], f[1], f[2], f[3])
  BY DEF Passes, FourAlike
<1> HIDE DEF At
<1>5. /\ At(0, (p - 0) % 4, IF 0 <= p THEN s ELSE z)
      /\ At(1, (p - 1) % 4, IF 1 <= p THEN s ELSE z)
      /\ At(2, (p - 2) % 4, IF 2 <= p THEN s ELSE z)
      /\ At(3, (p - 3) % 4, IF 3 <= p THEN s ELSE z)
  <2>1. 0 \in 0 .. 3 /\ 1 \in 0 .. 3 /\ 2 \in 0 .. 3 /\ 3 \in 0 .. 3
    OBVIOUS
  <2> QED
    BY <1>3, <2>1, Zenon
<1>6. CASE p = 0
  <2>1. /\ (p - 0) % 4 = 0 /\ (p - 1) % 4 = 3 /\ (p - 2) % 4 = 2 /\ (p - 3) % 4 = 1
        /\ 0 <= p /\ ~(1 <= p) /\ ~(2 <= p) /\ ~(3 <= p)
    BY <1>6, PhaseBefore
  <2>2. At(0, 0, s) /\ At(1, 3, z) /\ At(2, 2, z) /\ At(3, 1, z)
    BY <1>5, <2>1
  <2>3. f[0] \in {0, s} /\ f[1] \in {0, z} /\ f[2] \in {0, -z} /\ f[3] \in {0, -z}
    BY <2>2 DEF At
  <2> QED
    BY <1>1, <1>2, <1>4, <2>3, WhereSignsMeet
<1>7. CASE p = 1
  <2>1. /\ (p - 0) % 4 = 1 /\ (p - 1) % 4 = 0 /\ (p - 2) % 4 = 3 /\ (p - 3) % 4 = 2
        /\ 0 <= p /\ 1 <= p /\ ~(2 <= p) /\ ~(3 <= p)
    BY <1>7, PhaseBefore
  <2>2. At(0, 1, s) /\ At(1, 0, s) /\ At(2, 3, z) /\ At(3, 2, z)
    BY <1>5, <2>1
  <2>3. f[0] \in {0, -s} /\ f[1] \in {0, s} /\ f[2] \in {0, z} /\ f[3] \in {0, -z}
    BY <2>2 DEF At
  <2>4. s = z
    BY <1>1, <1>2, <1>4, <2>3, WhereSignsMeet
  <2>5. MAXBIT > 1 => ring[2] = ring[1]
    <3> SUFFICES ASSUME MAXBIT > 1 PROVE ring[2] = ring[1]
      OBVIOUS
    <3>1. ring[1] \in Bit /\ ring[2] \in Bit
      BY RingAssumption DEF Seeds
    <3> QED
      BY <1>1, <1>2, <2>4, <3>1 DEF Sign, kPlus, kMinus, Bit
  <2> QED
    BY <1>7, <2>5
<1>8. CASE p = 2
  <2>1. /\ (p - 0) % 4 = 2 /\ (p - 1) % 4 = 1 /\ (p - 2) % 4 = 0 /\ (p - 3) % 4 = 3
        /\ 0 <= p /\ 1 <= p /\ 2 <= p /\ ~(3 <= p)
    BY <1>8, PhaseBefore
  <2>2. At(0, 2, s) /\ At(1, 1, s) /\ At(2, 0, s) /\ At(3, 3, z)
    BY <1>5, <2>1
  <2>3. f[0] \in {0, -s} /\ f[1] \in {0, -s} /\ f[2] \in {0, s} /\ f[3] \in {0, z}
    BY <2>2 DEF At
  <2> QED
    BY <1>1, <1>2, <1>4, <2>3, WhereSignsMeet
<1> QED
  BY <1>6, <1>7, <1>8

\* What the search makes of a window counted: the quartets are counted, or a quartet that
\* was found is confirmed, or one is found, or there is none.
Confirmed(r, d) == d.fFoundQuartet /\ PhaseOf(d) = 3 /\ Passes(d.fQuartet) /\ r = d

IsFound(r, d) ==
  /\ ~d.fFoundQuartet /\ PhaseOf(d) = 3 /\ Passes(d.fQuartet)
  /\ r.fFoundQuartet /\ r.fFirstCycle = d.fFirstCycle /\ r.fNBits = d.fNBits
  /\ r.fNQuartet = QuartetOf(d) /\ r.fNLastQuartet = QuartetOf(d) - 1

GoesOn(r, d) ==
  /\ PhaseOf(d) # 3
  /\ r.fFoundQuartet = d.fFoundQuartet /\ r.fFirstCycle = d.fFirstCycle /\ r.fNBits = d.fNBits
  /\ r.fNQuartet = QuartetOf(d) /\ r.fNLastQuartet = d.fNQuartet

LEMMA SearchIs ==
  ASSUME NEW d, Sound(d)
  PROVE  LET r == SearchQuartet(d)
         IN  /\ r.fQuartet = d.fQuartet /\ r.fHaveQRT = d.fHaveQRT /\ r.fNCycle = d.fNCycle
             /\ \/ GoesOn(r, d) \/ Confirmed(r, d) \/ IsFound(r, d)
                \/ ~r.fFoundQuartet /\ r.fNBits = 0
<1> DEFINE r == SearchQuartet(d)
<1>1. d \in DecoderState
  BY DEF Sound
<1>2. QuartetTest(d) <=> Passes(d.fQuartet)
  BY DEF QuartetTest, Passes
<1>3. r.fQuartet = d.fQuartet /\ r.fHaveQRT = d.fHaveQRT /\ r.fNCycle = d.fNCycle
  BY <1>1 DEF SearchQuartet, CountQuartet, DecoderState
<1>4. CASE PhaseOf(d) # 3
  <2>1. r = CountQuartet(d)
    BY <1>4 DEF SearchQuartet
  <2>2. GoesOn(CountQuartet(d), d)
    BY <1>1, <1>4 DEF CountQuartet, GoesOn, DecoderState
  <2> HIDE DEF r
  <2> QED
    BY <1>3, <2>1, <2>2 DEF r
<1>5. CASE PhaseOf(d) = 3 /\ ~QuartetTest(d)
  <2>1. ~r.fFoundQuartet /\ r.fNBits = 0
    BY <1>1, <1>5 DEF SearchQuartet, DecoderState
  <2> HIDE DEF r
  <2> QED
    BY <1>3, <2>1 DEF r
<1>6. CASE PhaseOf(d) = 3 /\ QuartetTest(d) /\ d.fFoundQuartet
  <2>1. r = d
    BY <1>6 DEF SearchQuartet
  <2> QED
    BY <1>2, <1>6, <2>1 DEF Confirmed
<1>7. CASE PhaseOf(d) = 3 /\ QuartetTest(d) /\ ~d.fFoundQuartet
  <2>1. r = [d EXCEPT !.fNQuartet = QuartetOf(d), !.fNLastQuartet = QuartetOf(d) - 1,
                      !.fFoundQuartet = TRUE]
    BY <1>7 DEF SearchQuartet
  <2>2. /\ r.fFoundQuartet /\ r.fFirstCycle = d.fFirstCycle /\ r.fNBits = d.fNBits
        /\ r.fNQuartet = QuartetOf(d) /\ r.fNLastQuartet = QuartetOf(d) - 1
    BY <1>1, <2>1 DEF DecoderState
  <2> HIDE DEF r
  <2> QED
    BY <1>2, <1>3, <1>7, <2>2 DEF IsFound, r
<1> QED
  BY <1>4, <1>5, <1>6, <1>7

\* What a report does to the bits, when the scaler offers no seed.
LEMMA LoadIs ==
  ASSUME NEW d, Sound(d), d.fActualHelicity = kUnknown, NEW e \in EventSet, e.reported # kUnknown
  PROVE  LET r == LoadHelicity(d, e, {})
         IN  /\ Sound(r) /\ Leaves(r, d) /\ r.fNLastQuartet = d.fNLastQuartet
             /\ ~d.fFoundQuartet \/ Calibrated(d) => r.fNBits \in {0, d.fNBits}
             /\ d.fFoundQuartet /\ ~Calibrated(d) =>
                  /\ d.fNQuartet = d.fNLastQuartet => r.fNBits = d.fNBits
                  /\ d.fNQuartet - d.fNLastQuartet = 1 => r.fNBits = d.fNBits + 1
<1> DEFINE q == [d EXCEPT !.fnQrt = PhaseOf(d)]
           r == LoadHelicity(d, e, {})
<1>1. /\ q \in DecoderState /\ q.fNBits = d.fNBits /\ q.fNBits \in Nat
      /\ q.fFoundQuartet = d.fFoundQuartet /\ q.fNQuartet = d.fNQuartet
      /\ q.fNLastQuartet = d.fNLastQuartet /\ q.fNQuartet \in Int /\ q.fNLastQuartet \in Int
  <2>1. d \in DecoderState /\ PhaseOf(d) \in Int
    BY StateHasMembers DEF Sound, Members, PhaseOf
  <2> QED
    BY <2>1, RingAssumption DEF DecoderState
<1>2. r = IF ~Calibrated(q) /\ q.fNQuartet - q.fNLastQuartet > 1 THEN [q EXCEPT !.fNBits = 0]
          ELSE IF ~q.fFoundQuartet THEN q
          ELSE IF Calibrated(q) THEN Predict(q, e)
          ELSE IF q.fNQuartet = q.fNLastQuartet THEN q
          ELSE CollectBit(q, e, {})
  BY DEF LoadHelicity
<1>3. Sound(r) /\ Leaves(r, d)
  BY LoadHelicitySound, LoadHelicityLeaves
<1> HIDE DEF q, r
<1>4. LET b == [q EXCEPT !.fNBits = 0] IN b.fNBits = 0 /\ b.fNLastQuartet = q.fNLastQuartet
  BY <1>1 DEF DecoderState
<1>5. Predict(q, e).fNBits \in {0, q.fNBits} /\ Predict(q, e).fNLastQuartet = q.fNLastQuartet
  BY <1>1 DEF Predict, FromRings, AdvanceRings, DecoderState
<1>6. CollectBit(q, e, {}).fNBits = q.fNBits + 1
      /\ CollectBit(q, e, {}).fNLastQuartet = q.fNLastQuartet
  <2>1. ASSUME NEW seed
        PROVE  AdoptSeed(q, seed).fNBits = MAXBIT
               /\ AdoptSeed(q, seed).fNLastQuartet = q.fNLastQuartet
    BY <1>1 DEF AdoptSeed, DecoderState
  <2>2. ASSUME NEW n, NEW seed
        PROVE  LET b == [q EXCEPT !.fNBits = n, !.fRingSeed_reported = seed]
               IN  b.fNBits = n /\ b.fNLastQuartet = q.fNLastQuartet
    BY <1>1 DEF DecoderState
  <2> QED
    BY <2>1, <2>2 DEF CollectBit
<1>7. Calibrated(q) <=> Calibrated(d)
  BY <1>1 DEF Calibrated
<1>8. r.fNLastQuartet = d.fNLastQuartet
  BY <1>1, <1>2, <1>4, <1>5, <1>6
<1>9. ~d.fFoundQuartet \/ Calibrated(d) => r.fNBits \in {0, d.fNBits}
  BY <1>1, <1>2, <1>4, <1>5, <1>7
<1>10. ASSUME d.fFoundQuartet, ~Calibrated(d)
       PROVE  /\ d.fNQuartet = d.fNLastQuartet => r.fNBits = d.fNBits
              /\ d.fNQuartet - d.fNLastQuartet = 1 => r.fNBits = d.fNBits + 1
  <2>1. CASE d.fNQuartet = d.fNLastQuartet
    <3>1. ~(q.fNQuartet - q.fNLastQuartet > 1) /\ ~(d.fNQuartet - d.fNLastQuartet = 1)
      BY <1>1, <2>1
    <3> QED
      BY <1>1, <1>2, <1>7, <1>10, <2>1, <3>1
  <2>2. CASE d.fNQuartet - d.fNLastQuartet = 1
    <3>1. ~(q.fNQuartet - q.fNLastQuartet > 1) /\ q.fNQuartet # q.fNLastQuartet
          /\ d.fNQuartet # d.fNLastQuartet
      BY <1>1, <2>2
    <3> QED
      BY <1>1, <1>2, <1>6, <1>7, <1>10, <3>1
  <2> QED
    BY <2>1, <2>2
<1> QED
  BY <1>3, <1>8, <1>9, <1>10 DEF r

AllAlike(ring, a, b) == \A i \in a .. b : ring[i] = ring[a]

\* The bits of the quartets of which n bits were collected two windows out of phase: a bit
\* is taken in the third window of a quartet, and the test that lets it be taken, in the
\* second, compares the quartet with the one before.
BitsAlike(n, p, ring) ==
  IF p \in {2, 3} THEN AllAlike(ring, 1, n)
  ELSE IF p = 0 THEN AllAlike(ring, 2, n + 1)
  ELSE AllAlike(ring, 1, n + 1)

\* A quartet that was found is counted, and it is in phase or two windows out of it.
Collecting(d, p, ring) ==
  /\ ~d.fHaveQRT /\ (~d.fFoundQuartet => d.fNBits = 0)
  /\ ReportsOf(d.fQuartet, p, ring)
  /\ d.fFoundQuartet =>
       /\ d.fNQuartet = QuartetOf(d)
       /\ PhaseOf(d) \in {1, 2} => d.fNLastQuartet = d.fNQuartet
       /\ PhaseOf(d) # p => /\ PhaseOf(d) = (p + 2) % 4
                            /\ ~Calibrated(d) => BitsAlike(d.fNBits, p, ring)

\* The same of the window before, seen from a window of phase q.
BitsBefore(n, q, now) ==
  IF q = 3 THEN AllAlike(now, 1, n)
  ELSE IF q \in {0, 1} THEN AllAlike(now, 2, n + 1)
  ELSE AllAlike(now, 1, n + 1)

CollectingBefore(d, q, now) ==
  d.fFoundQuartet =>
    /\ d.fNQuartet = QuartetOf(d)
    /\ PhaseOf(d) \in {1, 2} => d.fNLastQuartet = d.fNQuartet
    /\ (PhaseOf(d) + 1) % 4 # q => /\ (PhaseOf(d) + 1) % 4 = (q + 2) % 4
                                   /\ ~Calibrated(d) => BitsBefore(d.fNBits, q, now)

LEMMA WindowBefore ==
  ASSUME MAXBIT > 1, NEW d, Sound(d), NEW p \in 0 .. 3, NEW ring \in Seeds, Collecting(d, p, ring),
         NEW q \in 0 .. 3, q = (p + 1) % 4,
         NEW now \in Seeds, now = IF q = 0 THEN RanBit30(ring) ELSE ring
  PROVE  CollectingBefore(d, q, now)
<1> SUFFICES ASSUME d.fFoundQuartet PROVE CollectingBefore(d, q, now)
  BY DEF CollectingBefore
<1>1. d.fNBits \in 0 .. MAXBIT /\ PhaseOf(d) \in 0 .. 3
  BY StateHasMembers DEF Sound, Members, PhaseOf
<1>2. ASSUME (PhaseOf(d) + 1) % 4 # q
      PROVE  /\ (PhaseOf(d) + 1) % 4 = (q + 2) % 4
             /\ ~Calibrated(d) => BitsBefore(d.fNBits, q, now)
  <2>1. PhaseOf(d) # p
    BY <1>2
  <2>2. PhaseOf(d) = (p + 2) % 4 /\ (~Calibrated(d) => BitsAlike(d.fNBits, p, ring))
    BY <2>1 DEF Collecting
  <2>3. (PhaseOf(d) + 1) % 4 = (q + 2) % 4
    <3>1. PICK c \in 0 .. 3 : c = PhaseOf(d)
      BY <1>1
    <3> QED
      BY <2>2, <3>1
  <2>4. ASSUME ~Calibrated(d) PROVE BitsBefore(d.fNBits, q, now)
    <3>1. PICK n \in 0 .. MAXBIT - 1 : n = d.fNBits
      BY <1>1, <2>4, RingAssumption DEF Calibrated
    <3>2. BitsAlike(n, p, ring)
      BY <2>2, <2>4, <3>1
    <3>3. CASE q = 0
      <4>1. p = 3
        BY <3>3
      <4>2. ASSUME NEW i \in 2 .. n + 1 PROVE now[i] = now[2]
        <5>1. i \in 1 .. MAXBIT /\ i # 1 /\ i - 1 \in 1 .. n /\ 2 \in 1 .. MAXBIT /\ 2 - 1 = 1
          BY RingAssumption
        <5>2. now[i] = ring[i - 1] /\ now[2] = ring[1]
          BY <3>3, <5>1 DEF RanBit30, PushBit
        <5> QED
          BY <3>2, <4>1, <5>1, <5>2 DEF BitsAlike, AllAlike
      <4> QED
        BY <3>1, <3>3, <4>2 DEF BitsBefore, AllAlike
    <3>4. CASE q # 0
      <4>1. q = p + 1
        BY <3>4
      <4> QED
        BY <3>1, <3>2, <3>4, <4>1 DEF BitsAlike, BitsBefore
    <3> QED
      BY <3>3, <3>4
  <2> QED
    BY <2>3, <2>4
<1> QED
  BY <1>2 DEF CollectingBefore, Collecting

\* What a window at the phase of the decoder's count does to it, in a run without the flag
\* and without a scaler.
Steps(r, d, c, f) ==
  /\ PhaseOf(r) = c /\ r.fNQuartet = QuartetOf(r)
  /\ c \in {1, 2} => r.fNLastQuartet = r.fNQuartet
  /\ c = 3 => Passes(f)
  /\ IF ~d.fFoundQuartet THEN c = 3 /\ r.fNBits = 1
     ELSE IF Calibrated(d) THEN r.fNBits \in {0, d.fNBits}
     ELSE r.fNBits = d.fNBits + (IF c = 0 THEN 1 ELSE 0)

LEMMA NewCycleSteps ==
  ASSUME NEW d, Sound(d), ~d.fHaveQRT, MAXBIT > 1, ~d.fFoundQuartet => d.fNBits = 0,
         d.fFoundQuartet => /\ d.fNQuartet = QuartetOf(d)
                            /\ PhaseOf(d) \in {1, 2} => d.fNLastQuartet = d.fNQuartet,
         NEW e \in EventSet, ~e.qrt, e.reported # kUnknown, NEW missed \in {0, 1}
  PROVE  LET r == NewCycle(d, e, {}, missed)
             f == Shifted(d.fQuartet, e.reported)
         IN  /\ ~r.fHaveQRT /\ r.fQuartet = f
             /\ IF r.fFoundQuartet THEN Steps(r, d, (PhaseOf(d) + 1) % 4, f) ELSE r.fNBits = 0
<1> DEFINE counted == CountCycle(d, e)
           tracked == TrackQuartet(counted, e)
           blank == [tracked EXCEPT !.fActualHelicity = kUnknown]
           loaded == LoadHelicity(blank, e, {})
           r == [loaded EXCEPT !.fLastMPSTime = @ + missed * Period, !.fIsNewCycle = FALSE]
           f == Shifted(d.fQuartet, e.reported)
<1>1. NewCycle(d, e, {}, missed) = r
  <2>1. SkipMissed(d, e, missed) = d
    BY DEF SkipMissed
  <2> QED
    BY <2>1 DEF NewCycle, counted, tracked, blank, loaded
<1>2. d \in DecoderState /\ d.fNCycle \in Nat /\ d.fFirstCycle \in Int /\ d.fNBits \in 0 .. MAXBIT
  BY StateHasMembers DEF Sound, Members
<1>3. /\ Sound(counted) /\ counted.fQuartet = f /\ ~counted.fHaveQRT
      /\ counted.fFoundQuartet = d.fFoundQuartet /\ counted.fNBits = d.fNBits
      /\ counted.fNCycle = d.fNCycle + 1 /\ counted.fFirstCycle = d.fFirstCycle
      /\ counted.fNQuartet = d.fNQuartet /\ counted.fNLastQuartet = d.fNLastQuartet
  <2>1. counted.fNQuartet = d.fNQuartet /\ counted.fNLastQuartet = d.fNLastQuartet
    BY <1>2 DEF CountCycle, DecoderState
  <2> HIDE DEF counted
  <2> QED
    BY <2>1, CountCycleReports DEF counted
<1> HIDE DEF counted, f
<1>4. PICK c \in 0 .. 3 : /\ c = PhaseOf(counted) /\ c = (PhaseOf(d) + 1) % 4
                          /\ PhaseOf(d) \in 0 .. 3
                          /\ QuartetOf(counted) = QuartetOf(d) + (IF c = 0 THEN 1 ELSE 0)
                          /\ QuartetOf(d) \in Int
  <2>1. PICK x \in Int : x = d.fNCycle - d.fFirstCycle
    BY <1>2
  <2>2. counted.fNCycle - counted.fFirstCycle = x + 1
    BY <1>2, <1>3, <2>1
  <2>3. ((x % 4) + 1) % 4 = (x + 1) % 4
    OBVIOUS
  <2>4. (x + 1) \div 4 = x \div 4 + (IF (x + 1) % 4 = 0 THEN 1 ELSE 0)
    OBVIOUS
  <2> QED
    BY <2>1, <2>2, <2>3, <2>4 DEF PhaseOf, QuartetOf
<1>5. /\ Sound(tracked) /\ tracked.fQuartet = f /\ ~tracked.fHaveQRT
      /\ tracked.fNCycle = counted.fNCycle
      /\ \/ GoesOn(tracked, counted) \/ Confirmed(tracked, counted) \/ IsFound(tracked, counted)
         \/ ~tracked.fFoundQuartet /\ tracked.fNBits = 0
  <2>1. tracked = SearchQuartet(counted)
    BY <1>3 DEF TrackQuartet
  <2> QED
    BY <1>3, <2>1, TrackQuartetSound, SearchIs
<1> HIDE DEF tracked
<1>6. /\ Sound(blank) /\ Leaves(blank, tracked) /\ blank.fActualHelicity = kUnknown
      /\ blank.fNBits = tracked.fNBits /\ blank.fNLastQuartet = tracked.fNLastQuartet
  <2>1. Members(blank) /\ SameShape(blank, tracked) /\ Unmoved(blank, tracked)
    BY <1>5, StateHasMembers, HelicityTypes
    DEF Members, SameShape, Unmoved, Sound, DecoderState
  <2>2. /\ Leaves(blank, tracked) /\ blank.fActualHelicity = kUnknown
        /\ blank.fNBits = tracked.fNBits /\ blank.fNLastQuartet = tracked.fNLastQuartet
    BY <1>5 DEF Leaves, Sound, DecoderState
  <2> HIDE DEF blank
  <2> QED
    BY <1>5, <2>1, <2>2, UnmovedSound
<1> HIDE DEF blank
<1>7. /\ Sound(loaded) /\ Leaves(loaded, blank) /\ loaded.fNLastQuartet = blank.fNLastQuartet
      /\ ~blank.fFoundQuartet \/ Calibrated(blank) => loaded.fNBits \in {0, blank.fNBits}
      /\ blank.fFoundQuartet /\ ~Calibrated(blank) =>
           /\ blank.fNQuartet = blank.fNLastQuartet => loaded.fNBits = blank.fNBits
           /\ blank.fNQuartet - blank.fNLastQuartet = 1 => loaded.fNBits = blank.fNBits + 1
  BY <1>6, LoadIs
<1> HIDE DEF loaded
<1>8. Leaves(r, loaded) /\ r.fNBits = loaded.fNBits /\ r.fNLastQuartet = loaded.fNLastQuartet
  <2>1. loaded \in DecoderState
    BY <1>7 DEF Sound
  <2>2. r.fNLastQuartet = loaded.fNLastQuartet
    BY <2>1 DEF DecoderState
  <2>3. missed \in Nat
    OBVIOUS
  <2> QED
    BY <2>1, <2>2, <2>3, LoadedFrom
<1> HIDE DEF r
<1>9. /\ ~r.fHaveQRT /\ r.fQuartet = f /\ r.fFoundQuartet = tracked.fFoundQuartet
      /\ r.fNQuartet = tracked.fNQuartet /\ r.fNLastQuartet = tracked.fNLastQuartet
      /\ PhaseOf(r) = PhaseOf(tracked) /\ QuartetOf(r) = QuartetOf(tracked)
      /\ ~tracked.fFoundQuartet \/ Calibrated(tracked) => r.fNBits \in {0, tracked.fNBits}
      /\ tracked.fFoundQuartet /\ ~Calibrated(tracked) =>
           /\ tracked.fNQuartet = tracked.fNLastQuartet => r.fNBits = tracked.fNBits
           /\ tracked.fNQuartet - tracked.fNLastQuartet = 1 => r.fNBits = tracked.fNBits + 1
  BY <1>5, <1>6, <1>7, <1>8 DEF Leaves, PhaseOf, QuartetOf, Calibrated
<1>10. CASE ~tracked.fFoundQuartet
  <2>1. tracked.fNBits = 0
    BY <1>3, <1>5, <1>10 DEF GoesOn, Confirmed, IsFound
  <2> QED
    BY <1>1, <1>9, <1>10, <2>1 DEF f
<1>11. CASE tracked.fFoundQuartet
  <2>1. GoesOn(tracked, counted) \/ Confirmed(tracked, counted) \/ IsFound(tracked, counted)
    BY <1>5, <1>11
  <2>2. /\ tracked.fFirstCycle = counted.fFirstCycle /\ PhaseOf(tracked) = c
        /\ QuartetOf(tracked) = QuartetOf(counted) /\ tracked.fNBits = d.fNBits
        /\ Calibrated(tracked) <=> Calibrated(d)
    BY <1>3, <1>4, <1>5, <2>1 DEF GoesOn, Confirmed, IsFound, PhaseOf, QuartetOf, Calibrated
  <2>3. Steps(r, d, c, f)
    <3>1. CASE GoesOn(tracked, counted)
      <4>1. /\ c # 3 /\ d.fFoundQuartet /\ tracked.fNQuartet = QuartetOf(counted)
            /\ tracked.fNLastQuartet = QuartetOf(d)
        BY <1>3, <1>4, <1>11, <3>1 DEF GoesOn
      <4>2. CASE c = 0
        <5>1. tracked.fNQuartet - tracked.fNLastQuartet = 1
          BY <1>4, <4>1, <4>2
        <5> QED
          BY <1>9, <1>11, <2>2, <4>1, <4>2, <5>1 DEF Steps
      <4>3. CASE c # 0
        <5>1. tracked.fNQuartet = tracked.fNLastQuartet
          BY <1>4, <4>1, <4>3
        <5> QED
          BY <1>2, <1>9, <1>11, <2>2, <4>1, <4>3, <5>1 DEF Steps
      <4> QED
        BY <4>2, <4>3
    <3>2. CASE Confirmed(tracked, counted)
      <4>1. c = 3 /\ d.fFoundQuartet /\ tracked.fNQuartet = d.fNQuartet
            /\ tracked.fNLastQuartet = d.fNLastQuartet /\ Passes(f)
        BY <1>3, <1>4, <3>2 DEF Confirmed
      <4>2. PhaseOf(d) = 2
        BY <1>4, <4>1
      <4>3. tracked.fNQuartet = tracked.fNLastQuartet /\ tracked.fNQuartet = QuartetOf(counted)
        BY <1>4, <4>1, <4>2
      <4> QED
        BY <1>2, <1>9, <1>11, <2>2, <4>1, <4>3 DEF Steps
    <3>3. CASE IsFound(tracked, counted)
      <4>1. c = 3 /\ ~d.fFoundQuartet /\ tracked.fNQuartet = QuartetOf(counted)
            /\ tracked.fNLastQuartet = QuartetOf(counted) - 1 /\ Passes(f)
        BY <1>3, <1>4, <3>3 DEF IsFound
      <4>2. tracked.fNQuartet - tracked.fNLastQuartet = 1 /\ d.fNBits = 0 /\ ~Calibrated(d)
        BY <1>4, <4>1, RingAssumption DEF Calibrated
      <4> QED
        BY <1>2, <1>9, <1>11, <2>2, <4>1, <4>2 DEF Steps
    <3> QED
      BY <2>1, <3>1, <3>2, <3>3
  <2> QED
    BY <1>1, <1>4, <1>9, <1>11, <2>3 DEF f
<1> QED
  BY <1>10, <1>11

\* A step at the phase of the accelerator, or two windows out of it: the bits taken out of
\* phase are alike.
LEMMA StepsCollect ==
  ASSUME MAXBIT > 1, NEW d, Sound(d), NEW r, Sound(r), NEW q \in 0 .. 3, NEW now \in Seeds,
         ReportsOf(r.fQuartet, q, now), CollectingBefore(d, q, now),
         Steps(r, d, (PhaseOf(d) + 1) % 4, r.fQuartet), PhaseOf(r) # q
  PROVE  /\ PhaseOf(r) = (q + 2) % 4
         /\ ~Calibrated(r) => BitsAlike(r.fNBits, q, now)
         /\ ~Calibrated(d) /\ Calibrated(r) => AllAlike(now, 1, MAXBIT)
<1>1. d.fNBits \in 0 .. MAXBIT /\ PhaseOf(d) \in 0 .. 3 /\ r.fNBits \in 0 .. MAXBIT
  BY StateHasMembers DEF Sound, Members, PhaseOf
<1>2. PICK c \in 0 .. 3 : c = PhaseOf(r) /\ c = (PhaseOf(d) + 1) % 4
  BY <1>1 DEF Steps
<1>3. c = 3 => q = 1 /\ now[2] = now[1]
  BY <1>2, TestOutOfPhase DEF Steps
<1>4. CASE ~d.fFoundQuartet
  <2>1. c = 3 /\ r.fNBits = 1
    BY <1>2, <1>4 DEF Steps
  <2>2. ~Calibrated(r)
    BY <2>1, RingAssumption DEF Calibrated
  <2>3. AllAlike(now, 1, 2)
    BY <1>3, <2>1 DEF AllAlike
  <2> QED
    BY <1>2, <1>3, <2>1, <2>2, <2>3 DEF BitsAlike
<1>5. CASE d.fFoundQuartet
  <2>1. c = (q + 2) % 4 /\ (~Calibrated(d) => BitsBefore(d.fNBits, q, now))
    BY <1>2, <1>5 DEF CollectingBefore
  <2>2. CASE Calibrated(d)
    <3>1. r.fNBits \in {0, d.fNBits}
      BY <1>2, <1>5, <2>2 DEF Steps
    <3>2. ~Calibrated(r) => r.fNBits = 0
      BY <2>2, <3>1 DEF Calibrated
    <3>3. BitsAlike(0, q, now)
      BY DEF BitsAlike, AllAlike
    <3> QED
      BY <1>2, <2>1, <2>2, <3>2, <3>3
  <2>3. CASE ~Calibrated(d)
    <3>1. PICK n \in 0 .. MAXBIT - 1 : n = d.fNBits
      BY <1>1, <2>3, RingAssumption DEF Calibrated
    <3>2. BitsBefore(n, q, now) /\ r.fNBits = n + (IF c = 0 THEN 1 ELSE 0)
      BY <1>2, <1>5, <2>1, <2>3, <3>1 DEF Steps
    <3>3. CASE c = 0
      <4>1. q = 2
        BY <2>1, <3>3
      <4>2. AllAlike(now, 1, n + 1) /\ r.fNBits = n + 1
        BY <3>2, <3>3, <4>1 DEF BitsBefore
      <4>3. Calibrated(r) => n + 1 = MAXBIT
        BY <1>1, <4>2, RingAssumption DEF Calibrated
      <4> QED
        BY <1>2, <2>1, <4>1, <4>2, <4>3 DEF BitsAlike
    <3>4. CASE c # 0
      <4>1. r.fNBits = n /\ ~Calibrated(r)
        BY <3>1, <3>2, <3>4, RingAssumption DEF Calibrated
      <4>2. BitsAlike(n, q, now)
        <5>1. CASE c = 3
          <6>1. q = 1 /\ now[2] = now[1] /\ AllAlike(now, 2, n + 1)
            BY <1>3, <3>2, <5>1 DEF BitsBefore
          <6>2. ASSUME NEW i \in 1 .. n + 1 PROVE now[i] = now[1]
            <7>1. i = 1 \/ i \in 2 .. n + 1
              OBVIOUS
            <7> QED
              BY <6>1, <7>1 DEF AllAlike
          <6> QED
            BY <6>1, <6>2 DEF BitsAlike, AllAlike
        <5>2. CASE c \in {1, 2}
          <6>1. (c = 1 /\ q = 3) \/ (c = 2 /\ q = 0)
            BY <2>1, <5>2
          <6> QED
            BY <3>2, <6>1 DEF BitsBefore, BitsAlike
        <5> QED
          BY <3>4, <5>1, <5>2
      <4> QED
        BY <1>2, <2>1, <4>1, <4>2
    <3> QED
      BY <3>3, <3>4
  <2> QED
    BY <2>2, <2>3
<1> QED
  BY <1>4, <1>5

\* What ends the calibration out of phase.
FalseLock(r, d, q) == ~Calibrated(d) /\ Calibrated(r) /\ PhaseOf(r) # q

LEMMA NewCycleCollecting ==
  ASSUME MAXBIT > 1, NEW d, Sound(d), ~d.fHaveQRT, ~d.fFoundQuartet => d.fNBits = 0,
         NEW e \in EventSet, ~e.qrt, NEW missed \in {0, 1},
         NEW q \in 0 .. 3, NEW now \in Seeds, e.reported = InQuartet(q, Sign(now[1])),
         ReportsOf(Shifted(d.fQuartet, e.reported), q, now), CollectingBefore(d, q, now)
  PROVE  LET r == NewCycle(d, e, {}, missed)
         IN  /\ Collecting(r, q, now)
             /\ FalseLock(r, d, q) => AllAlike(now, 1, MAXBIT)
<1> DEFINE r == NewCycle(d, e, {}, missed)
           f == Shifted(d.fQuartet, e.reported)
<1>1. e.reported # kUnknown
  BY SignIsKnown
<1>2. /\ ~r.fHaveQRT /\ r.fQuartet = f
      /\ IF r.fFoundQuartet THEN Steps(r, d, (PhaseOf(d) + 1) % 4, f) ELSE r.fNBits = 0
  BY <1>1, NewCycleSteps DEF CollectingBefore
<1>3. Sound(r)
  BY NewCycleSound
<1> HIDE DEF r, f
<1>4. ReportsOf(r.fQuartet, q, now)
  BY <1>2 DEF f
<1>5. CASE ~r.fFoundQuartet
  <2>1. ~Calibrated(r)
    BY <1>2, <1>5, RingAssumption DEF Calibrated
  <2>2. Collecting(r, q, now)
    BY <1>2, <1>4, <1>5 DEF Collecting
  <2> QED
    BY <2>1, <2>2 DEF FalseLock, r
<1>6. CASE r.fFoundQuartet
  <2>1. Steps(r, d, (PhaseOf(d) + 1) % 4, r.fQuartet)
    BY <1>2, <1>6
  <2>2. r.fNQuartet = QuartetOf(r) /\ (PhaseOf(r) \in {1, 2} => r.fNLastQuartet = r.fNQuartet)
    BY <2>1 DEF Steps
  <2>3. PhaseOf(r) # q => /\ PhaseOf(r) = (q + 2) % 4
                          /\ ~Calibrated(r) => BitsAlike(r.fNBits, q, now)
                          /\ ~Calibrated(d) /\ Calibrated(r) => AllAlike(now, 1, MAXBIT)
    BY <1>3, <1>4, <2>1, StepsCollect
  <2>4. Collecting(r, q, now)
    BY <1>2, <1>4, <1>6, <2>2, <2>3 DEF Collecting
  <2> QED
    BY <2>3, <2>4 DEF FalseLock, r
<1> QED
  BY <1>5, <1>6

\* Nothing was counted yet.
Untaught(d) ==
  /\ ~d.fHaveQRT /\ ~d.fFoundQuartet /\ d.fNBits = 0
  /\ \A i \in 0 .. 3 : d.fQuartet[i] = kUnknown

\* The decoder, the window its clock stands in, and the ring of that window.
InSearch(d, w, ring) ==
  IF d.fNCycle = 0 THEN Untaught(d)
  ELSE MPSWindow(d, w) /\ Collecting(d, (w + phase0) % 4, ring)

\* The first window counted, or the one after the last.
LEMMA CountCollects ==
  ASSUME MAXBIT > 1, phase0 \in 0 .. 3, NEW d, Sound(d), NEW w \in Nat, NEW ring \in Seeds,
         NEW v \in Nat, NEW now \in Seeds,
         now = Advance[(v + phase0) \div 4 - (w + phase0) \div 4][ring],
         NEW missed \in {0, 1},
         IF d.fNCycle = 0 THEN Untaught(d)
         ELSE missed = 1 /\ v = w + 1 /\ Collecting(d, (w + phase0) % 4, ring),
         NEW q \in 0 .. 3, q = (v + phase0) % 4,
         NEW e \in EventSet, ~e.qrt, e.reported = InQuartet(q, Sign(now[1]))
  PROVE  LET r == NewCycle(d, e, {}, missed)
         IN  /\ r.fNCycle # 0 /\ Collecting(r, q, now)
             /\ FalseLock(r, d, q) => AllAlike(now, 1, MAXBIT)
<1>1. d.fNCycle \in Nat
  BY StateHasMembers DEF Sound, Members
<1>2. /\ ~d.fHaveQRT /\ (~d.fFoundQuartet => d.fNBits = 0)
      /\ ReportsOf(Shifted(d.fQuartet, e.reported), q, now) /\ CollectingBefore(d, q, now)
  <2>1. CASE d.fNCycle = 0
    <3>1. ReportsOf(Shifted(d.fQuartet, e.reported), q, now)
      <4> DEFINE f == Shifted(d.fQuartet, e.reported)
      <4>1. f[0] = InQuartet((q - 0) % 4, Sign(now[1])) /\ 0 <= q
        BY DEF Shifted
      <4>2. ASSUME NEW i \in 1 .. 3 PROVE f[i] = kUnknown
        <5>1. PICK j \in 0 .. 3 : j = i - 1
          OBVIOUS
        <5>2. f[i] = d.fQuartet[j]
          BY <5>1 DEF Shifted
        <5> QED
          BY <2>1, <5>2 DEF Untaught
      <4> HIDE DEF f
      <4>3. \A i \in 0 .. 3 : i = 0 \/ i \in 1 .. 3
        OBVIOUS
      <4>4. ReportsOf(f, q, now)
        BY <4>1, <4>2, <4>3 DEF ReportsOf
      <4> QED
        BY <4>4 DEF f
    <3> QED
      BY <2>1, <3>1 DEF Untaught, CollectingBefore
  <2>2. CASE d.fNCycle # 0
    <3>1. PICK y \in Int : y = w + phase0 /\ v + phase0 = y + 1
      BY <2>2
    <3>2. PICK p \in 0 .. 3 : p = y % 4
      OBVIOUS
    <3>3. q = (p + 1) % 4
      <4>1. ((y % 4) + 1) % 4 = (y + 1) % 4
        OBVIOUS
      <4> QED
        BY <3>1, <3>2, <4>1
    <3>4. now = IF q = 0 THEN RanBit30(ring) ELSE ring
      <4>1. (v + phase0) \div 4 - (w + phase0) \div 4 = IF q = 0 THEN 1 ELSE 0
        BY <3>1, QuartetBegins
      <4>2. Advance[0][ring] = ring /\ Advance[1][ring] = RanBit30(ring)
        BY AdvanceDefined
      <4> QED
        BY <4>1, <4>2
    <3>5. Collecting(d, p, ring)
      BY <2>2, <3>1, <3>2
    <3>6. ReportsOf(Shifted(d.fQuartet, e.reported), q, now)
      BY <3>3, <3>4, <3>5, ReportsMoveOn DEF Collecting
    <3>7. CollectingBefore(d, q, now)
      BY <3>3, <3>4, <3>5, WindowBefore
    <3> QED
      BY <3>5, <3>6, <3>7 DEF Collecting
  <2> QED
    BY <2>1, <2>2
<1>3. NewCycle(d, e, {}, missed).fNCycle = d.fNCycle + 1
  <2>1. missed \in Nat /\ {} \in SUBSET Seeds /\ (IF missed = 0 THEN 1 ELSE missed) = 1
    OBVIOUS
  <2> QED
    BY <2>1, NewCycleCounts
<1>4. NewCycle(d, e, {}, missed).fNCycle # 0
  BY <1>1, <1>3
<1> QED
  BY <1>2, <1>4, NewCycleCollecting

\* An event without flag or fault, at a healthy rate.
LEMMA DecodeCollectsBits ==
  ASSUME MPSIsShort, MAXBIT > 1, HelDelay # 0, BeamTypes, Safe(dec), tick \in Int,
         TellsTruth(dec, win, tick), Counted(dec, win, tick, faults), OnTime(dec, win, tick),
         NEW w \in 0 .. win, InSearch(dec, w, RingIn(w)),
         NEW g \in {0, 1}, win' = win + g, phase0' = phase0,
         beam' = Advance[(TruePhase + g) \div 4][beam],
         NEW tk \in 0 .. Period - 1, IF g = 0 THEN tick <= tk ELSE tk < MPSTicks,
         NEW e, EventAt(e, win', tk), ~e.qrt,
         e.reported = InQuartet((win' + phase0) % 4, Sign(beam'[1])),
         Decode(e, FALSE, {})
  PROVE  /\ \E x \in 0 .. win' : InSearch(dec', x, RingIn(x)')
         /\ ~Calibrated(dec) /\ Calibrated(dec') =>
              /\ MPSWindow(dec', win')
              /\ PhaseOf(dec') # (win' + phase0) % 4 => AllAlike(beam', 1, MAXBIT)
<1>1. /\ win \in Nat /\ win' \in Nat /\ phase0 \in 0 .. 3 /\ win <= win'
      /\ (win = win' => tick <= tk) /\ dec \in DecoderState /\ e \in EventSet
      /\ g \in Nat /\ MPSTicks \in Nat /\ {} \in SUBSET Seeds /\ dec.fNBits \in 0 .. MAXBIT
      /\ dec.fNCycle \in Nat
  BY DecoderAssumption, StateHasMembers DEF BeamTypes, Safe, Sound, EventAt, Members
<1>2. /\ beam' \in Seeds /\ RingIn(w) \in Seeds /\ w \in 0 .. win' /\ win' \in 0 .. win'
      /\ RingIn(w)' = RingIn(w)
      /\ beam' = Advance[(win' + phase0) \div 4 - (w + phase0) \div 4][RingIn(w)]
      /\ Retreat[QuartetsTo(win') - QuartetsTo(win')][beam'] = beam'
  BY <1>1, RingMoves
<1>3. \/ dec.fNCycle = 0 /\ Waits(dec', dec)
      \/ dec.fNCycle > 0 /\ Stays(win)
      \/ Counts(win, win', tk, e, {})
  BY <1>1, DecodeOutcomes
<1>4. CASE dec.fNCycle = 0 /\ Waits(dec', dec)
  <2>1. InSearch(dec', w, RingIn(w)') /\ dec'.fNBits = 0
    BY <1>4 DEF Waits, InSearch, Untaught
  <2>2. ~Calibrated(dec')
    BY <2>1, RingAssumption DEF Calibrated
  <2> QED
    BY <1>2, <2>1, <2>2
<1>5. CASE dec.fNCycle > 0 /\ Stays(win)
  <2>1. PICK z \in 0 .. win : MPSWindow(dec, z) /\ MPSWindow(dec', z)
    BY <1>5 DEF Stays
  <2>2. z = w /\ MPSWindow(dec, w)
    BY <1>1, <1>5, <2>1, WindowOfMPS DEF InSearch
  <2>3. InSearch(dec', w, RingIn(w)')
    BY <1>1, <1>2, <1>5, <2>1, <2>2
    DEF Stays, Standing, InSearch, Collecting, PhaseOf, QuartetOf, Calibrated
  <2>4. Calibrated(dec') <=> Calibrated(dec)
    BY <1>5 DEF Stays, Standing, Calibrated
  <2> QED
    BY <1>2, <2>3, <2>4
<1>6. CASE Counts(win, win', tk, e, {})
  <2>1. PICK z \in 0 .. win, seen \in DecoderState :
          /\ MPSWindow(dec, z) /\ Sound(seen) /\ Standing(seen, dec)
          /\ dec' = NewCycle(seen, e, {}, win' - z)
          /\ dec.fNCycle > 0 => z < win'
    BY <1>6 DEF Counts
  <2>2. g = 0 /\ win' = win
    BY <1>1, <1>6 DEF Counts
  <2>3. z >= win - 1
    <3>1. PICK y \in 0 .. win : MPSWindow(dec, y) /\ y >= win - 1
      BY <1>6 DEF OnTime, Counts
    <3>2. y = z
      BY <2>1, <3>1, WindowOfMPS
    <3> QED
      BY <3>1, <3>2
  <2>4. PICK missed \in {0, 1} : missed = win' - z
    BY <1>1, <2>1, <2>2, <2>3
  <2>5. IF seen.fNCycle = 0 THEN Untaught(seen)
        ELSE missed = 1 /\ win' = w + 1 /\ Collecting(seen, (w + phase0) % 4, RingIn(w))
    <3>1. CASE dec.fNCycle = 0
      BY <2>1, <3>1 DEF InSearch, Standing, Untaught
    <3>2. CASE dec.fNCycle # 0
      <4>1. z = w /\ z < win'
        BY <1>1, <2>1, <3>2, WindowOfMPS DEF InSearch
      <4>2. missed = 1 /\ win' = w + 1
        BY <1>1, <2>4, <4>1
      <4>3. Collecting(seen, (w + phase0) % 4, RingIn(w))
        BY <2>1, <3>2 DEF InSearch, Standing, Collecting, PhaseOf, QuartetOf, Calibrated
      <4> QED
        BY <2>1, <3>2, <4>2, <4>3 DEF Standing
    <3> QED
      BY <3>1, <3>2
  <2>6. PICK q \in 0 .. 3 : q = (win' + phase0) % 4
    BY <1>1
  <2>7. PICK now \in Seeds : now = beam'
    BY <1>2
  <2>8. PICK v \in Nat : v = win'
    BY <1>1
  <2> DEFINE r == NewCycle(seen, e, {}, missed)
  <2>9. /\ r.fNCycle # 0 /\ Collecting(r, q, now)
        /\ FalseLock(r, seen, q) => AllAlike(now, 1, MAXBIT)
    <3>1. PICK ring \in Seeds : ring = RingIn(w)
      BY <1>2
    <3>2. PICK x \in Nat : x = w
      BY <1>1
    <3>3. /\ now = Advance[(v + phase0) \div 4 - (x + phase0) \div 4][ring]
          /\ e.reported = InQuartet(q, Sign(now[1])) /\ q = (v + phase0) % 4
      BY <1>2, <2>6, <2>7, <2>8, <3>1, <3>2
    <3>4. IF seen.fNCycle = 0 THEN Untaught(seen)
          ELSE missed = 1 /\ v = x + 1 /\ Collecting(seen, (x + phase0) % 4, ring)
      BY <2>5, <2>8, <3>1, <3>2
    <3>5. phase0 \in 0 .. 3 /\ Sound(seen) /\ e \in EventSet
      BY <1>1, <2>1
    <3>6. LET s == NewCycle(seen, e, {}, missed)
          IN  /\ s.fNCycle # 0 /\ Collecting(s, q, now)
              /\ FalseLock(s, seen, q) => AllAlike(now, 1, MAXBIT)
      BY <3>3, <3>4, <3>5, CountCollects, ZenonT(120)
    <3> QED
      BY <3>6
  <2>10. dec' = r
    BY <2>1, <2>4
  <2> HIDE DEF r
  <2>11. MPSWindow(dec', win')
    BY <1>6 DEF Counts
  <2>12. v \in 0 .. win' /\ RingIn(v)' = beam'
    BY <1>2, <2>8 DEF RingIn, QuartetsTo
  <2>13. InSearch(dec', v, RingIn(v)')
    BY <2>6, <2>7, <2>8, <2>9, <2>10, <2>11, <2>12 DEF InSearch
  <2>14. Calibrated(seen) <=> Calibrated(dec)
    BY <2>1 DEF Standing, Calibrated
  <2> QED
    BY <2>6, <2>7, <2>9, <2>10, <2>11, <2>12, <2>13, <2>14 DEF FalseLock
<1> QED
  BY <1>3, <1>4, <1>5, <1>6

\* Without the flag nothing else goes wrong, and the scaler offers no seed.
UnflaggedRuns ==
  \A s \in Setups : ~s.HaveQRTSignal => s.MaxFaults = 0 /\ s.ScalerLags = {}

\* The decoder is on time, and what it collected out of phase is alike.
SearchInv ==
  /\ KeptInv /\ ~dec.fDisabled
  /\ HelDelay # 0 /\ ~HaveQRTSignal =>
       OnTime(dec, win, tick) /\ \E w \in 0 .. win : InSearch(dec, w, RingIn(w))

LEMMA InitialSearch == Init => SearchInv
<1> SUFFICES ASSUME Init PROVE SearchInv
  OBVIOUS
<1>1. /\ ~dec.fDisabled /\ ~dec.fFoundMPS /\ ~dec.fHaveQRT /\ ~dec.fFoundQuartet
      /\ dec.fNBits = 0 /\ dec.fNCycle = 0 /\ \A i \in 0 .. 3 : dec.fQuartet[i] = kUnknown
      /\ win = 0 /\ tick = 0
  BY DEF Init, kUnknown
<1>2. OnTime(dec, win, tick)
  BY <1>1, DecoderAssumption DEF OnTime
<1>3. 0 \in 0 .. win /\ InSearch(dec, 0, RingIn(0))
  BY <1>1 DEF InSearch, Untaught
<1> QED
  BY <1>1, <1>2, <1>3, InitialCounts DEF SearchInv

\* A steady step of a run without the flag.
LEMMA SearchStep ==
  ASSUME MPSIsShort, UnflaggedRuns, MAXBIT > 1, SearchInv, SteadyNext,
         HelDelay # 0, ~HaveQRTSignal
  PROVE  /\ OnTime(dec, win, tick)' /\ \E w \in 0 .. win' : InSearch(dec, w, RingIn(w))'
         /\ ~Calibrated(dec) /\ Calibrated(dec)' /\ ~PhaseRight' => AllAlike(beam', 1, MAXBIT)
<1>1. /\ KeptInv /\ TruthInv /\ BeamTypes /\ Safe(dec) /\ setup \in Setups /\ ~dec.fDisabled
      /\ TellsTruth(dec, win, tick) /\ Counted(dec, win, tick, faults)
      /\ OnTime(dec, win, tick)
  BY DEF SearchInv, KeptInv, TruthInv, IndInv
<1>2. PICK g \in {0, 1}, scal \in SUBSET Seeds, e \in EventSet :
        /\ StepOf(e, g, scal, FALSE)
        /\ g = 1 => tick >= MPSTicks /\ tick' < MPSTicks
  BY <1>1, SteadyStepIs
<1>3. setup.MaxFaults = 0 /\ setup.ScalerLags = {}
  BY <1>1 DEF UnflaggedRuns, HaveQRTSignal
<1>4. scal = {} /\ ~e.qrt /\ e.reported # kUnknown
  BY <1>2, <1>3 DEF StepOf
<1>5. /\ EventAt(e, win', tick') /\ Decode(e, FALSE, {})
      /\ setup' = setup /\ phase0' = phase0 /\ win' = win + g
      /\ win \in Nat /\ tick \in Int /\ tick' \in 0 .. Period - 1
      /\ IF g = 0 THEN tick <= tick' ELSE tick >= MPSTicks /\ tick' < MPSTicks
      /\ beam' = Advance[(TruePhase + g) \div 4][beam]
      /\ e.reported = InQuartet((win' + phase0) % 4, Sign(beam'[1]))
  BY <1>2, <1>4 DEF StepOf
<1>6. OnTime(dec, win, tick)'
  <2>1. /\ win' \in win .. win + 1 /\ {} \in SUBSET Seeds
        /\ (win' # win => tick >= MPSTicks /\ tick' < MPSTicks)
    BY <1>5
  <2>2. OnTime(dec', win', tick')
    BY <1>1, <1>5, <2>1, DecodeIsOnTime
  <2> QED
    BY <2>2 DEF OnTime, MPSWindow
<1>7. PICK y \in 0 .. win : InSearch(dec, y, RingIn(y))
  BY DEF SearchInv
<1>8. /\ \E x \in 0 .. win' : InSearch(dec', x, RingIn(x)')
      /\ ~Calibrated(dec) /\ Calibrated(dec') =>
           /\ MPSWindow(dec', win')
           /\ PhaseOf(dec') # (win' + phase0) % 4 => AllAlike(beam', 1, MAXBIT)
  <2>1. PICK tk \in 0 .. Period - 1 : tk = tick'
    BY <1>5
  <2>2. /\ IF g = 0 THEN tick <= tk ELSE tk < MPSTicks
        /\ EventAt(e, win', tk)
    BY <1>5, <2>1
  <2> QED
    BY <1>1, <1>4, <1>5, <1>7, <2>2, DecodeCollectsBits
<1>9. \E w \in 0 .. win' : InSearch(dec, w, RingIn(w))'
  <2>1. PICK x \in 0 .. win' : InSearch(dec', x, RingIn(x)')
    BY <1>8
  <2>2. InSearch(dec, x, RingIn(x))'
    BY <1>5, <2>1
    DEF InSearch, Untaught, MPSWindow, Collecting, PhaseOf, QuartetOf, Calibrated
  <2> QED
    BY <2>2
<1>10. ASSUME ~Calibrated(dec), Calibrated(dec)', ~PhaseRight'
       PROVE  AllAlike(beam', 1, MAXBIT)
  <2>1. MPSWindow(dec', win') /\ win' \in Int
    BY <1>5, <1>8, <1>10 DEF Calibrated
  <2>2. dec'.fLastMPSTime \div Period = win'
    BY <2>1, WindowOfMPS
  <2>3. PhaseOf(dec') # (win' + phase0) % 4
    BY <1>5, <1>10, <2>2 DEF PhaseRight, WindowSeen, PhaseOf
  <2> QED
    BY <1>8, <1>10, <2>3 DEF Calibrated
<1> QED
  BY <1>6, <1>9, <1>10

LEMMA StepKeepsSearch ==
  ASSUME MPSIsShort, UnflaggedRuns, MAXBIT > 1
  PROVE  SearchInv /\ [SteadyNext]_vars => SearchInv'
<1> SUFFICES ASSUME SearchInv, [SteadyNext]_vars PROVE SearchInv'
  OBVIOUS
<1>1. KeptInv /\ TruthInv /\ Safe(dec) /\ ~dec.fDisabled
  BY DEF SearchInv, KeptInv, TruthInv, IndInv
<1>2. CASE SteadyNext
  <2>1. KeptInv'
    BY <1>1, <1>2, SteadyStepIs, StepKeepsCounts
  <2>2. PICK g \in {0, 1}, scal \in SUBSET Seeds, e \in EventSet : StepOf(e, g, scal, FALSE)
    BY <1>1, <1>2, SteadyStepIs
  <2>3. ~dec'.fDisabled
    BY <1>1, <2>2, DecodeStaysEnabled DEF StepOf
  <2>4. HelDelay' = HelDelay /\ HaveQRTSignal' = HaveQRTSignal
    BY <2>2 DEF StepOf, HelDelay, HaveQRTSignal
  <2>5. HelDelay # 0 /\ ~HaveQRTSignal =>
          OnTime(dec, win, tick)' /\ \E w \in 0 .. win' : InSearch(dec, w, RingIn(w))'
    BY <1>2, SearchStep
  <2> QED
    BY <2>1, <2>3, <2>4, <2>5 DEF SearchInv
<1>3. CASE UNCHANGED vars
  <2>1. KeptInv'
    BY <1>1, <1>3, StepKeepsCounts
  <2> QED
    BY <1>3, <2>1
    DEF vars, SearchInv, HelDelay, HaveQRTSignal, OnTime, MPSWindow, InSearch, Untaught,
        Collecting, PhaseOf, QuartetOf, Calibrated, RingIn, QuartetsTo
<1> QED
  BY <1>2, <1>3

\* In the mode without a delay there are no bits.
LEMMA InTimeNeverCalibrates ==
  ASSUME KeptInv, SteadyNext, HelDelay = 0
  PROVE  Calibrated(dec)' <=> Calibrated(dec)
<1>1. dec \in DecoderState
  BY DEF KeptInv, TruthInv, IndInv, Safe, Sound
<1>2. PICK e : DecodeInTime(e)
  BY DEF SteadyNext, Decode, DecodeMissedEvents, DecodeDisabled, DecodeFirst, DecodeMPS,
         DecodeBeforeMPS, DecodeSameCycle, DecodeNewCycle, Running
<1>3. dec'.fNBits = dec.fNBits
  BY <1>1, <1>2 DEF DecodeInTime, DecoderState
<1> QED
  BY <1>3 DEF Calibrated

\* Without the QRT flag, at a healthy rate: a calibration that is completed out of phase
\* was made of bits that are all alike, for every length of the ring and every seed. The
\* test of the quartets only passes out of phase two windows off, between quartets alike,
\* and each bit is taken after such a test.
THEOREM FalseLocksHaveEqualBits ==
  ASSUME MPSIsShort, UnflaggedRuns
  PROVE  SteadySpec => FalseLockNeedsEqualBits
<1> DEFINE Locks == ~HaveQRTSignal /\ ~Calibrated(dec) /\ Calibrated(dec)' /\ ~PhaseRight'
           Equal == \A i \in 1 .. MAXBIT : beam'[i] = beam'[1]
<1>1. CASE MAXBIT > 1
  <2>1. Init => SearchInv
    BY InitialSearch
  <2>2. SearchInv /\ [SteadyNext]_vars => SearchInv'
    BY <1>1, StepKeepsSearch
  <2>3. SearchInv /\ [SteadyNext]_vars => [Locks => Equal]_vars
    <3> SUFFICES ASSUME SearchInv, SteadyNext, Locks PROVE Equal
      BY DEF vars
    <3>1. HelDelay # 0
      BY InTimeNeverCalibrates DEF SearchInv
    <3>2. AllAlike(beam', 1, MAXBIT)
      BY <1>1, <3>1, SearchStep
    <3> QED
      BY <3>2 DEF AllAlike
  <2> QED
    BY <2>1, <2>2, <2>3, PTL DEF SteadySpec, FalseLockNeedsEqualBits
<1>2. CASE ~(MAXBIT > 1)
  <2>1. [SteadyNext]_vars => [Locks => Equal]_vars
    <3>1. \A i \in 1 .. MAXBIT : i = 1
      BY <1>2, RingAssumption
    <3> QED
      BY <3>1
  <2> QED
    BY <2>1, PTL DEF SteadySpec, FalseLockNeedsEqualBits
<1> QED
  BY <1>1, <1>2

=============================================================================
