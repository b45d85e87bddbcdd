------------------------- MODULE HelicityScalerProofs -------------------------
(***************************************************************************)
(* The helicity given to a read is that of its window, for every ring and  *)
(* every offset of the quartet bit, while no read is lost and again some   *)
(* quartets after a loss; and a quartet that counts is whole.              *)
(***************************************************************************)
EXTENDS HelicityScaler, HelicityRingProofs, TLAPS

\* The first bit of a seed may be of an inner window of its quartet, and the opposite of
\* what it should be. It is the oldest when the seed is full, and makes the bit of the
\* next turn wrong; that one must not reach the bits of the two turns after it, which
\* the helicities are taken from. Nor is one bit a seed.
FirstBitIsForgotten ==
  /\ MAXBIT > 1
  /\ \A s \in HScalerSetups : s.Offset % 4 \in {0, 3} \/ {1, 2} \intersect Taps = {}

Reads == [ispos : BOOLEAN, isquartet : BOOLEAN, cond : Conditions]

\* The read of the delayed event, which may be saved that much early.
FinalRead(r) == win + Disorder >= LastWindow /\ \E cond \in Conditions : r = ReadOf(LastWindow + 1, cond)

\* What is left to read of the run.
TypesInv ==
  /\ HScalerTypeInvariant /\ setup \in HScalerSetups
  /\ hs.fHelicityCycleOffset = setup.Offset /\ hs.fNTrigsInBuf \in 0 .. BankReads
  /\ ~finished => /\ win <= LastWindow
                  /\ \A r \in final : FinalRead(r)

\* The reads since the first cycle, which is ahead of the read in which a negative offset
\* was applied.
Since(d) == d.fNTriggers - d.fFirstCycle

\* The helicity that a seed gives to a read in a phase.
HelicityFrom(seed, phase) ==
  InQuartet((phase + 1) % 4, Sign(RanBits(IF phase = 3 THEN 3 ELSE 2, seed)[1]))

\* What holds of the handler whatever was read.
HandlerInv(d) ==
  /\ ~Quarteted(d) => d.fFirstCycle = -100 /\ d.fNBits = 0
  /\ Quarteted(d) => /\ Since(d) >= 0 \/ Since(d) >= d.fHelicityCycleOffset
                     /\ Since(d) < 0 => d.fNBits <= 1
  /\ d.actualHelicity = IF d.fNBits < MAXBIT THEN 0 ELSE HelicityFrom(d.fRingSeed_reported, Since(d) % 4)
  /\ d.actualHelicity # 0 => d.quartetphase = (Since(d) + 1) % 4

\* The n newest bits of a seed are those of a ring.
Agree(s, b, n) == \A i \in 1 .. MAXBIT : i <= n => s[i] = b[i]

Outer(offset) == offset % 4 \in {0, 3}

\* The quartets are in phase p, and the bits those of ring b, perhaps but the first.
InStep(d, p, b) ==
  Quarteted(d) =>
    /\ Since(d) % 4 = p
    /\ Agree(d.fRingSeed_reported, b, IF Outer(d.fHelicityCycleOffset) THEN d.fNBits ELSE d.fNBits - 1)

\* The reads that have joined the present quartet: without a gap, each with its own
\* time and charge.
Joined(d) ==
  \A i \in 0 .. 3 : d.fHaveCycle[i] =>
    /\ d.actualHelicity # 0 /\ i <= d.quartetphase /\ (i > 0 => d.fHaveCycle[i - 1])
    /\ d.fTimeCycle[i] = (d.fNTriggers - d.quartetphase) + i /\ d.fChargeCycle[i] = d.fTimeCycle[i]

\* n windows after reads were lost: the quartets are out of phase and will be checked
\* before long, or looked for, or right, and so is a bit for each that has passed.
Recovering(d, p, b, n) ==
  /\ Quarteted(d) /\ Since(d) % 4 # p => n <= (Since(d) - d.fHelicityCycleOffset) % 4
  /\ ~Quarteted(d) => n <= 3 + ((p - d.fHelicityCycleOffset) % 4)
  /\ Quarteted(d) /\ Since(d) % 4 = p =>
       \E k \in 0 .. d.fNBits : Agree(d.fRingSeed_reported, b, k) /\ n <= (4 * k) + 3 + p

IndInv ==
  /\ TypesInv /\ HandlerInv(hs)
  /\ lost = 0 => InStep(hs, PhaseAt(win), beam) /\ Joined(hs)
  /\ setup.Offset \in {0, 3} =>
       Recovering(hs, PhaseAt(win), beam, (win - setup.LastLoss) + 1)

---------------------------------------------------------------------------
(* The ring and its windows.                                               *)

LEMMA RanBitsAre ==
  ASSUME NEW s \in Seeds
  PROVE  /\ RanBits(0, s) = s /\ RanBits(1, s) = RanBit30(s)
         /\ RanBits(2, s) = RanBit30(RanBit30(s)) /\ RanBits(3, s) = RanBit30(RanBit30(RanBit30(s)))
         /\ \A n \in 0 .. 3 : RanBits(n, s) \in Seeds
<1>1. /\ RanBits(0, s) = s /\ RanBits(1, s) = RanBit30(s)
      /\ RanBits(2, s) = RanBit30(RanBit30(s)) /\ RanBits(3, s) = RanBit30(RanBit30(RanBit30(s)))
  BY DEF RanBits
<1>2. RanBit30(s) \in Seeds /\ RanBit30(RanBit30(s)) \in Seeds /\ RanBit30(RanBit30(RanBit30(s))) \in Seeds
  <2>1. RanBit30(s) \in Seeds
    BY RanBit30Type
  <2>2. RanBit30(RanBit30(s)) \in Seeds
    BY <2>1, RanBit30Type
  <2> QED
    BY <2>1, <2>2, RanBit30Type
<1>3. \A n \in 0 .. 3 : n = 0 \/ n = 1 \/ n = 2 \/ n = 3
  OBVIOUS
<1> QED
  BY <1>1, <1>2, <1>3

\* A turn more, as far as the operator reaches.
LEMMA RanBitsFirst ==
  ASSUME NEW s \in Seeds, NEW n \in 0 .. 2
  PROVE  RanBits(n, RanBit30(s)) = RanBits(n + 1, s)
<1>1. RanBit30(s) \in Seeds
  BY RanBit30Type
<1>2. n = 0 \/ n = 1 \/ n = 2
  OBVIOUS
<1>3. CASE n = 0
  BY <1>1, <1>3, RanBitsAre
<1>4. CASE n = 1
  BY <1>1, <1>4, RanBitsAre
<1>5. CASE n = 2
  BY <1>1, <1>5, RanBitsAre
<1> QED
  BY <1>2, <1>3, <1>4, <1>5

LEMMA SignIs ==
  ASSUME NEW bit \in Bit
  PROVE  /\ Sign(bit) \in {-1, 1} /\ (Sign(bit) = 1 <=> bit = 1)
         /\ \A p \in 0 .. 3 : InQuartet(p, Sign(bit)) \in {-1, 1}
<1>1. Sign(bit) \in {-1, 1} /\ (Sign(bit) = 1 <=> bit = 1)
  BY DEF Bit, Sign
<1>2. ASSUME NEW p \in 0 .. 3 PROVE InQuartet(p, Sign(bit)) \in {-1, 1}
  BY <1>1 DEF InQuartet
<1> QED
  BY <1>1, <1>2

\* The ring in phase p and the one of the next window.
Turned(p, b) == IF p = 3 THEN RanBit30(b) ELSE b

LEMMA NextWindow ==
  ASSUME win \in Nat, phase0 \in 0 .. 3, beam \in Seeds
  PROVE  /\ PhaseAt(win) \in 0 .. 3 /\ PhaseAt(win + 1) = (PhaseAt(win) + 1) % 4
         /\ RingAt(win + 1) = Turned(PhaseAt(win), beam) /\ Turned(PhaseAt(win), beam) \in Seeds
<1>1. PhaseAt(win) \in 0 .. 3 /\ PhaseAt(win + 1) = (PhaseAt(win) + 1) % 4
  BY DEF PhaseAt
<1>2. QuartetsOn(win + 1) = IF PhaseAt(win) = 3 THEN 1 ELSE 0
  BY <1>1 DEF QuartetsOn
<1>3. RingAt(win + 1) = Turned(PhaseAt(win), beam)
  BY <1>2, RanBitsAre DEF RingAt, Turned
<1>4. Turned(PhaseAt(win), beam) \in Seeds
  BY RanBit30Type DEF Turned
<1> QED
  BY <1>1, <1>3, <1>4

\* Nine windows on are two quartets and a window.
LEMMA NineWindowsOn ==
  ASSUME win \in Nat, phase0 \in 0 .. 3, beam \in Seeds
  PROVE  TrueHelicityAt(win) = HelicityFrom(beam, PhaseAt(win))
<1>1. PhaseAt(win) \in 0 .. 3 /\ PhaseAt(win + 9) = (PhaseAt(win) + 1) % 4
  BY DEF PhaseAt
<1>2. QuartetsOn(win + 9) = IF PhaseAt(win) = 3 THEN 3 ELSE 2
  BY <1>1 DEF QuartetsOn
<1> QED
  BY <1>1, <1>2 DEF TrueHelicityAt, HelicityFrom, RingAt

\* A helicity is a sign.
LEMMA HelicityIsSign ==
  ASSUME NEW s \in Seeds, NEW p \in 0 .. 3
  PROVE  HelicityFrom(s, p) \in {-1, 1}
<1> DEFINE n == IF p = 3 THEN 3 ELSE 2
<1>1. RanBits(n, s) \in Seeds
  BY RanBitsAre
<1>2. RanBits(n, s)[1] \in Bit
  BY <1>1, RingAssumption DEF Seeds
<1>3. (p + 1) % 4 \in 0 .. 3
  OBVIOUS
<1> QED
  BY <1>2, <1>3, SignIs DEF HelicityFrom

\* Seeds that agree but for their oldest bit have the same bit two and three turns on.
LEMMA OldestIsForgotten ==
  ASSUME NEW s \in Seeds, NEW b \in Seeds, {1, 2} \intersect Taps = {}, Agree(s, b, MAXBIT - 1)
  PROVE  \A n \in {2, 3} : RanBits(n, s)[1] = RanBits(n, b)[1]
<1> DEFINE On(r) == {t \in Taps : r[t] = 1}
<1>1. MAXBIT \in Nat /\ 3 <= MAXBIT /\ Taps \subseteq 1 .. MAXBIT /\ \A t \in Taps : t >= 3
  BY RingAssumption
<1>2. ASSUME NEW r \in Seeds
      PROVE  /\ RanBit30(r) \in Seeds /\ RanBit30(r)[1] = Parity(Cardinality(On(r)))
             /\ \A i \in 2 .. MAXBIT : RanBit30(r)[i] = r[i - 1]
  <2>1. RanBit30(r) \in Seeds
    BY RanBit30Type
  <2>2. RanBit30(r) = [i \in 1 .. MAXBIT |-> IF i = 1 THEN Parity(Cardinality(On(r))) ELSE r[i - 1]]
    BY DEF RanBit30, PushBit
  <2> QED
    BY <1>1, <2>1, <2>2
<1> DEFINE s1 == RanBit30(s)  b1 == RanBit30(b)
           s2 == RanBit30(s1) b2 == RanBit30(b1)
           s3 == RanBit30(s2) b3 == RanBit30(b2)
<1>3. s1 \in Seeds /\ b1 \in Seeds /\ \A i \in 2 .. MAXBIT : s1[i] = b1[i]
  <2>1. \A i \in 2 .. MAXBIT : s[i - 1] = b[i - 1]
    BY <1>1 DEF Agree
  <2>2. /\ \A i \in 2 .. MAXBIT : s1[i] = s[i - 1]
        /\ \A i \in 2 .. MAXBIT : b1[i] = b[i - 1]
    BY <1>2
  <2> QED
    BY <1>2, <2>1, <2>2
<1>4. On(s1) = On(b1)
  <2>1. \A t \in Taps : s1[t] = b1[t]
    <3>1. \A t \in Taps : t \in 2 .. MAXBIT
      BY <1>1
    <3> QED
      BY <1>3, <3>1
  <2> HIDE DEF s1, b1
  <2> QED
    BY <2>1
<1>5. /\ s2 \in Seeds /\ b2 \in Seeds /\ s2[1] = b2[1]
      /\ \A i \in 3 .. MAXBIT : s2[i] = b2[i]
  <2>1. /\ s2 \in Seeds /\ s2[1] = Parity(Cardinality(On(s1)))
        /\ \A i \in 2 .. MAXBIT : s2[i] = s1[i - 1]
    BY <1>2, <1>3
  <2>2. /\ b2 \in Seeds /\ b2[1] = Parity(Cardinality(On(b1)))
        /\ \A i \in 2 .. MAXBIT : b2[i] = b1[i - 1]
    BY <1>2, <1>3
  <2>3. \A i \in 3 .. MAXBIT : s1[i - 1] = b1[i - 1]
    BY <1>1, <1>3
  <2>4. \A i \in 3 .. MAXBIT : i \in 2 .. MAXBIT
    OBVIOUS
  <2> HIDE DEF s1, b1, s2, b2, On
  <2> QED
    BY <1>4, <2>1, <2>2, <2>3, <2>4
<1>6. On(s2) = On(b2)
  <2>1. \A t \in Taps : s2[t] = b2[t]
    <3>1. \A t \in Taps : t \in 3 .. MAXBIT
      BY <1>1
    <3> QED
      BY <1>5, <3>1
  <2> HIDE DEF s2, b2
  <2> QED
    BY <2>1
<1>7. s3[1] = b3[1]
  <2>1. s3[1] = Parity(Cardinality(On(s2)))
    BY <1>2, <1>5
  <2>2. b3[1] = Parity(Cardinality(On(b2)))
    BY <1>2, <1>5
  <2> QED
    BY <1>6, <2>1, <2>2
<1>8. RanBits(2, s) = s2 /\ RanBits(2, b) = b2 /\ RanBits(3, s) = s3 /\ RanBits(3, b) = b3
  BY RanBitsAre
<1> HIDE DEF s2, b2, s3, b3
<1> QED
  BY <1>5, <1>7, <1>8

LEMMA SeedsAgree ==
  ASSUME NEW s \in Seeds, NEW b \in Seeds, Agree(s, b, MAXBIT)
  PROVE  s = b
BY RingAssumption DEF Seeds, Agree

\* A read of later windows is the same when it is looked at one window on.
LEMMA LaterReads ==
  ASSUME win \in Nat, phase0 \in 0 .. 3, beam \in Seeds, NEW w \in Nat, win < w, w <= win + 9,
         win' = win + 1, beam' = RingAt(win + 1), phase0' = phase0,
         hs'.fHelicityCycleOffset = hs.fHelicityCycleOffset, NEW cond
  PROVE  ReadOf(w, cond)' = ReadOf(w, cond)
<1> DEFINE p == PhaseAt(win)
<1>1. /\ p \in 0 .. 3 /\ PhaseAt(win + 1) = (p + 1) % 4
      /\ RingAt(win + 1) = IF p = 3 THEN RanBit30(beam) ELSE beam
  BY NextWindow DEF Turned
<1>2. PhaseAt(w)' = PhaseAt(w) /\ PhaseAt(win)' = (p + 1) % 4
  BY <1>1 DEF PhaseAt
<1>3. QuartetsOn(w) \in 0 .. 3 /\ QuartetsOn(w)' = IF p = 3 THEN QuartetsOn(w) - 1 ELSE QuartetsOn(w)
  <2>1. QuartetsOn(w) = (p + (w - win)) \div 4 /\ QuartetsOn(w)' = (((p + 1) % 4) + (w - (win + 1))) \div 4
    BY <1>2 DEF QuartetsOn
  <2>2. QuartetsOn(w) \in 0 .. 3
    BY <1>1, <2>1
  <2>3. CASE p = 3
    <3>1. (p + 1) % 4 = 0
      BY <2>3
    <3> QED
      BY <2>1, <2>2, <2>3, <3>1
  <2>4. CASE p # 3
    <3>1. (p + 1) % 4 = p + 1
      BY <1>1, <2>4
    <3>2. (p + 1) + (w - (win + 1)) = p + (w - win)
      BY <1>1
    <3> QED
      BY <2>1, <2>2, <2>4, <3>1, <3>2
  <2> QED
    BY <2>3, <2>4
<1>4. RingAt(w)' = RingAt(w)
  <2>1. RingAt(w)' = RanBits(QuartetsOn(w)', beam') /\ RingAt(w) = RanBits(QuartetsOn(w), beam)
    BY DEF RingAt
  <2>2. CASE p = 3
    <3>1. QuartetsOn(w) - 1 \in 0 .. 2
      <4>1. (3 + (w - win)) \div 4 >= 1
        OBVIOUS
      <4> QED
        BY <1>3, <2>2, <4>1 DEF QuartetsOn
    <3>2. RanBits(QuartetsOn(w) - 1, RanBit30(beam)) = RanBits((QuartetsOn(w) - 1) + 1, beam)
      BY <3>1, RanBitsFirst
    <3>3. (QuartetsOn(w) - 1) + 1 = QuartetsOn(w)
      BY <1>3
    <3> QED
      BY <1>1, <1>3, <2>1, <2>2, <3>2, <3>3
  <2>3. CASE p # 3
    BY <1>1, <1>3, <2>1, <2>3
  <2> QED
    BY <2>2, <2>3
<1> QED
  BY <1>2, <1>4 DEF ReadOf

---------------------------------------------------------------------------
(* What the analysis of a read does, stage by stage: from record d to      *)
(* record x.                                                               *)

BitTaken(d, r, x) ==
  /\ x.fRingSeed_reported = PushBit(d.fRingSeed_reported, IF r.ispos THEN 1 ELSE 0)
  /\ x.fNBits = d.fNBits + 1
SameBits(d, x) ==
  x.fFirstCycle = d.fFirstCycle /\ x.fNBits = d.fNBits /\ x.fRingSeed_reported = d.fRingSeed_reported

\* The quartet bit in the quartets that run, in a phase, is checked and missed.
Missed(d, r, phase) == ~r.isquartet /\ phase = d.fHelicityCycleOffset /\ phase \in {0, 3}

FirstQuartet(d, r, x) ==
  /\ ~Quarteted(d) /\ r.isquartet
  /\ x.fFirstCycle = x.fNTriggers - x.fHelicityCycleOffset /\ BitTaken(d, r, x)
StillSearching(d, r, x) == ~Quarteted(d) /\ ~r.isquartet /\ SameBits(d, x)
GivenUp(d, r, x, phase) ==
  /\ Quarteted(d) /\ Missed(d, r, phase)
  /\ x.fFirstCycle = -100 /\ x.fNBits = 0 /\ x.fRingSeed_reported = ZeroSeed
NextBit(d, r, x, phase) ==
  /\ Quarteted(d) /\ ~Missed(d, r, phase) /\ phase = 0
  /\ x.fFirstCycle = d.fFirstCycle /\ BitTaken(d, r, x)
NoBit(d, r, x, phase) == Quarteted(d) /\ ~Missed(d, r, phase) /\ phase # 0 /\ SameBits(d, x)

Outcome(d, r, x, phase) ==
  \/ FirstQuartet(d, r, x)
  \/ StillSearching(d, r, x)
  \/ GivenUp(d, r, x, phase)
  \/ NextBit(d, r, x, phase)
  \/ NoBit(d, r, x, phase)

\* The phase that is used from there on.
PhaseUsed(d, r, phase) == IF ~Quarteted(d) /\ r.isquartet THEN d.fHelicityCycleOffset ELSE phase

\* The members that a stage leaves alone.
SameRun(d, x) == x.fHelicityCycleOffset = d.fHelicityCycleOffset /\ x.fNTriggers = d.fNTriggers /\ x.fNTrigsInBuf = d.fNTrigsInBuf
SameQuartet(d, x) ==
  /\ x.fHaveCycle = d.fHaveCycle /\ x.fChargeCycle = d.fChargeCycle /\ x.fTimeCycle = d.fTimeCycle
  /\ x.fQuartetCount = d.fQuartetCount

LEMMA RemainderIs ==
  ASSUME NEW n \in Int
  PROVE  /\ Rem4(n) \in -3 .. 3 /\ (n >= 0 => Rem4(n) = n % 4)
         /\ (n \in -3 .. 3 => Rem4(n) = n)
BY DEF Rem4

LEMMA RestartIs ==
  ASSUME NEW d \in ScalerState
  PROVE  /\ Restart(d) \in ScalerState /\ SameRun(d, Restart(d)) /\ SameQuartet(d, Restart(d))
         /\ Restart(d).fFirstCycle = -100 /\ Restart(d).fNBits = 0
         /\ Restart(d).fRingSeed_reported = ZeroSeed /\ Restart(d).quartetphase = d.quartetphase
<1>1. ZeroSeed \in Seeds
  BY DEF ZeroSeed, Seeds, Bit
<1>2. Restart(d) \in ScalerState
  <2>1. ASSUME NEW s \in Seeds, NEW n \in Nat, NEW i \in Int
        PROVE  [d EXCEPT !.fNBits = n, !.fFirstCycle = i,
                         !.fRingSeed_reported = s, !.fRingSeed_actual = s] \in ScalerState
    BY DEF ScalerState
  <2>2. 0 \in Nat /\ -100 \in Int
    OBVIOUS
  <2> QED
    BY <1>1, <2>1, <2>2, Zenon DEF Restart
<1>3. /\ SameRun(d, Restart(d)) /\ SameQuartet(d, Restart(d))
      /\ Restart(d).quartetphase = d.quartetphase
  BY DEF Restart, ScalerState, SameRun, SameQuartet
<1>4. /\ Restart(d).fFirstCycle = -100 /\ Restart(d).fNBits = 0
      /\ Restart(d).fRingSeed_reported = ZeroSeed
  BY DEF Restart, ScalerState
<1> QED
  BY <1>2, <1>3, <1>4

LEMMA ShiftInIs ==
  ASSUME NEW d \in ScalerState, NEW r \in Reads
  PROVE  /\ ShiftIn(d, r) \in ScalerState /\ SameRun(d, ShiftIn(d, r)) /\ SameQuartet(d, ShiftIn(d, r))
         /\ BitTaken(d, r, ShiftIn(d, r)) /\ ShiftIn(d, r).fFirstCycle = d.fFirstCycle
         /\ ShiftIn(d, r).quartetphase = d.quartetphase
<1> DEFINE bit == IF r.ispos THEN 1 ELSE 0
<1>1. d.fRingSeed_reported \in Seeds /\ bit \in Bit
  BY DEF ScalerState, Bit
<1>2. PushBit(d.fRingSeed_reported, bit) \in Seeds
  BY <1>1, PushBitType
<1> DEFINE x == ShiftIn(d, r)
<1>3. x = [d EXCEPT !.fRingSeed_reported = PushBit(d.fRingSeed_reported, bit), !.fNBits = d.fNBits + 1]
  BY DEF ShiftIn, ScalerState
<1> HIDE DEF bit, x
<1>4. x \in ScalerState
  <2>1. ASSUME NEW s \in Seeds, NEW n \in Nat
        PROVE  [d EXCEPT !.fRingSeed_reported = s, !.fNBits = n] \in ScalerState
    BY DEF ScalerState
  <2>2. d.fNBits + 1 \in Nat
    BY DEF ScalerState
  <2> QED
    BY <1>2, <1>3, <2>1, <2>2, Zenon
<1>5. SameRun(d, x) /\ SameQuartet(d, x) /\ x.fFirstCycle = d.fFirstCycle /\ x.quartetphase = d.quartetphase
  BY <1>3 DEF ScalerState, SameRun, SameQuartet
<1>6. BitTaken(d, r, x)
  BY <1>3 DEF ScalerState, BitTaken, bit
<1> QED
  BY <1>4, <1>5, <1>6 DEF x

LEMMA TrackPhaseIs ==
  ASSUME NEW d \in ScalerState, NEW r \in Reads, NEW phase, phase = Rem4(d.fNTriggers - d.fFirstCycle)
  PROVE  /\ TrackPhase(d, r) \in ScalerState
         /\ SameRun(d, TrackPhase(d, r)) /\ SameQuartet(d, TrackPhase(d, r))
         /\ Outcome(d, r, TrackPhase(d, r), phase)
         /\ TrackPhase(d, r).quartetphase = PhaseUsed(d, r, phase)
<1> DEFINE c == [d EXCEPT !.quartetphase = phase]
           sh == ShiftIn(c, r)
           t == TrackPhase(d, r)
           first == d.fNTriggers - d.fHelicityCycleOffset
           f == [sh EXCEPT !.fFirstCycle = first, !.quartetphase = Rem4(d.fNTriggers - first)]
<1>1. phase \in -3 .. 3 /\ d.fHelicityCycleOffset \in -3 .. 3 /\ d.fNTriggers \in Nat /\ first \in Int
  <2>1. d.fHelicityCycleOffset \in -3 .. 3 /\ d.fNTriggers \in Nat /\ d.fFirstCycle \in Int
    BY DEF ScalerState
  <2> QED
    BY <2>1, RemainderIs
<1>2. /\ c \in ScalerState /\ SameRun(d, c) /\ SameQuartet(d, c) /\ SameBits(d, c)
      /\ c.quartetphase = phase
  BY <1>1 DEF ScalerState, SameRun, SameQuartet, SameBits
<1>3. /\ sh \in ScalerState /\ SameRun(d, sh) /\ SameQuartet(d, sh)
      /\ BitTaken(d, r, sh) /\ sh.fFirstCycle = d.fFirstCycle /\ sh.quartetphase = phase
  <2> HIDE DEF c
  <2> QED
    BY <1>2, ShiftInIs DEF SameRun, SameQuartet, SameBits, BitTaken
<1>4. /\ f \in ScalerState /\ SameRun(d, f) /\ SameQuartet(d, f) /\ BitTaken(d, r, f)
      /\ f.fFirstCycle = first /\ f.quartetphase = d.fHelicityCycleOffset
  <2>1. Rem4(d.fNTriggers - first) = d.fHelicityCycleOffset
    <3>1. d.fNTriggers - first = d.fHelicityCycleOffset
      BY <1>1
    <3> QED
      BY <1>1, <3>1, RemainderIs
  <2> HIDE DEF sh, first
  <2> QED
    BY <1>1, <1>3, <2>1 DEF ScalerState, SameRun, SameQuartet, BitTaken
<1>5. t = IF Quarteted(d)
          THEN IF phase = 0
               THEN IF ~r.isquartet /\ d.fHelicityCycleOffset = 0 THEN Restart(sh) ELSE sh
               ELSE IF phase = 3 /\ d.fHelicityCycleOffset = 3 /\ ~r.isquartet THEN Restart(c) ELSE c
          ELSE IF r.isquartet THEN f ELSE c
  BY DEF TrackPhase
<1>6. CASE Quarteted(d) /\ Missed(d, r, phase)
  <2>1. t = Restart(sh) \/ t = Restart(c)
    <3> HIDE DEF sh, c, f
    <3> QED
      BY <1>5, <1>6 DEF Missed
  <2>2. ASSUME NEW e \in ScalerState, t = Restart(e), SameRun(d, e), SameQuartet(d, e), e.quartetphase = phase
        PROVE  /\ t \in ScalerState /\ SameRun(d, t) /\ SameQuartet(d, t)
               /\ GivenUp(d, r, t, phase) /\ t.quartetphase = phase
    BY <1>6, <2>2, RestartIs DEF SameRun, SameQuartet, GivenUp
  <2>3. /\ t \in ScalerState /\ SameRun(d, t) /\ SameQuartet(d, t)
        /\ GivenUp(d, r, t, phase) /\ t.quartetphase = phase
    <3> HIDE DEF sh, c, f
    <3> QED
      BY <1>2, <1>3, <2>1, <2>2
  <2> QED
    BY <1>6, <2>3 DEF Outcome, PhaseUsed
<1>7. CASE Quarteted(d) /\ ~Missed(d, r, phase) /\ phase = 0
  <2> HIDE DEF sh, c, f
  <2>1. t = sh
    BY <1>5, <1>7 DEF Missed
  <2>2. NextBit(d, r, t, phase)
    BY <1>3, <1>7, <2>1 DEF NextBit
  <2> QED
    BY <1>3, <1>7, <2>1, <2>2 DEF Outcome, PhaseUsed
<1>8. CASE Quarteted(d) /\ ~Missed(d, r, phase) /\ phase # 0
  <2> HIDE DEF sh, c, f
  <2>1. t = c
    BY <1>5, <1>8 DEF Missed
  <2>2. NoBit(d, r, t, phase)
    BY <1>2, <1>8, <2>1 DEF NoBit
  <2> QED
    BY <1>2, <1>8, <2>1, <2>2 DEF Outcome, PhaseUsed
<1>9. CASE ~Quarteted(d) /\ r.isquartet
  <2> HIDE DEF sh, c, f
  <2>1. t = f
    BY <1>5, <1>9
  <2>2. FirstQuartet(d, r, t)
    BY <1>4, <1>9, <2>1 DEF FirstQuartet, SameRun
  <2> QED
    BY <1>4, <1>9, <2>1, <2>2 DEF Outcome, PhaseUsed
<1>10. CASE ~Quarteted(d) /\ ~r.isquartet
  <2> HIDE DEF sh, c, f
  <2>1. t = c
    BY <1>5, <1>10
  <2>2. StillSearching(d, r, t)
    BY <1>2, <1>10, <2>1 DEF StillSearching
  <2> QED
    BY <1>2, <1>10, <2>1, <2>2 DEF Outcome, PhaseUsed
<1> QED
  BY <1>6, <1>7, <1>8, <1>9, <1>10

SameHelicity(d, x) == x.actualHelicity = d.actualHelicity /\ x.quartetphase = d.quartetphase

\* The helicity for the bits of d and a phase q.
HelicityGiven(d, q, x) ==
  /\ x.actualHelicity = IF d.fNBits < MAXBIT THEN 0 ELSE HelicityFrom(d.fRingSeed_reported, q)
  /\ x.quartetphase = IF d.fNBits < MAXBIT THEN q ELSE (q + 1) % 4

LEMMA AssignHelicityIs ==
  ASSUME NEW d \in ScalerState
  PROVE  /\ AssignHelicity(d) \in ScalerState
         /\ SameRun(d, AssignHelicity(d)) /\ SameQuartet(d, AssignHelicity(d)) /\ SameBits(d, AssignHelicity(d))
         /\ HelicityGiven(d, d.quartetphase, AssignHelicity(d))
<1> DEFINE x == AssignHelicity(d)
           n == IF d.quartetphase = 3 THEN 3 ELSE 2
           actual == RanBits(n, d.fRingSeed_reported)
           phase == (d.quartetphase + 1) % 4
           sign == InQuartet(phase, Sign(actual[1]))
<1>1. ZeroSeed \in Seeds
  BY DEF ZeroSeed, Seeds, Bit
<1>2. d.fRingSeed_reported \in Seeds /\ d.quartetphase \in -3 .. 3 /\ d.fNBits \in Nat
  BY DEF ScalerState
<1>3. CASE d.fNBits < MAXBIT
  <2>1. ASSUME NEW s \in Seeds, NEW h \in {-1, 0, 1}
        PROVE  [d EXCEPT !.actualHelicity = h, !.fRingSeed_actual = s] \in ScalerState
    BY DEF ScalerState
  <2>2. x = [d EXCEPT !.actualHelicity = 0, !.fRingSeed_actual = ZeroSeed] /\ 0 \in {-1, 0, 1}
    BY <1>3 DEF AssignHelicity
  <2>3. x \in ScalerState
    BY <1>1, <2>1, <2>2, Zenon
  <2>4. SameRun(d, x) /\ SameQuartet(d, x) /\ SameBits(d, x)
    BY <2>2 DEF ScalerState, SameRun, SameQuartet, SameBits
  <2>5. HelicityGiven(d, d.quartetphase, x)
    BY <1>3, <2>2 DEF ScalerState, HelicityGiven
  <2> QED
    BY <2>3, <2>4, <2>5
<1>4. CASE ~(d.fNBits < MAXBIT)
  <2>1. actual \in Seeds /\ phase \in 0 .. 3
    BY <1>2, RanBitsAre
  <2>2. sign = HelicityFrom(d.fRingSeed_reported, d.quartetphase)
    BY DEF HelicityFrom
  <2>3. sign \in {-1, 0, 1}
    <3>1. actual[1] \in Bit
      BY <2>1, RingAssumption DEF Seeds
    <3> QED
      BY <2>1, <3>1, SignIs
  <2>4. x = [d EXCEPT !.fRingSeed_actual = actual, !.quartetphase = phase, !.actualHelicity = sign]
    BY <1>4 DEF AssignHelicity
  <2> HIDE DEF x, actual, phase, sign
  <2>5. x \in ScalerState
    <3>1. phase \in -3 .. 3
      BY <2>1
    <3>2. ASSUME NEW s \in Seeds, NEW h \in {-1, 0, 1}, NEW q \in -3 .. 3
          PROVE  [d EXCEPT !.fRingSeed_actual = s, !.quartetphase = q, !.actualHelicity = h] \in ScalerState
      BY DEF ScalerState
    <3> QED
      BY <2>1, <2>3, <2>4, <3>1, <3>2, Zenon
  <2>6. SameRun(d, x) /\ SameQuartet(d, x) /\ SameBits(d, x)
    BY <2>4 DEF ScalerState, SameRun, SameQuartet, SameBits
  <2>7. HelicityGiven(d, d.quartetphase, x)
    <3>1. x.actualHelicity = sign /\ x.quartetphase = phase
      BY <2>4 DEF ScalerState
    <3> QED
      BY <1>4, <2>2, <3>1 DEF HelicityGiven, phase
  <2> QED
    BY <2>5, <2>6, <2>7 DEF x
<1> QED
  BY <1>3, <1>4

LEMMA CountTriggerIs ==
  ASSUME NEW d \in ScalerState
  PROVE  /\ CountTrigger(d) \in ScalerState
         /\ SameRun(d, CountTrigger(d)) /\ SameQuartet(d, CountTrigger(d)) /\ SameBits(d, CountTrigger(d))
         /\ SameHelicity(d, CountTrigger(d))
<1> DEFINE x == CountTrigger(d)
           plus == [d EXCEPT !.fNTriggersPlus = d.fNTriggersPlus + 1]
           minus == [d EXCEPT !.fNTriggersMinus = d.fNTriggersMinus + 1]
<1>1. x = d \/ x = plus \/ x = minus
  BY DEF CountTrigger, ScalerState
<1>2. plus \in ScalerState /\ minus \in ScalerState
  BY DEF ScalerState
<1>3. ASSUME NEW y \in {d, plus, minus}
      PROVE  SameRun(d, y) /\ SameQuartet(d, y) /\ SameBits(d, y) /\ SameHelicity(d, y)
  BY DEF ScalerState, SameRun, SameQuartet, SameBits, SameHelicity
<1> HIDE DEF plus, minus
<1> QED
  BY <1>1, <1>2, <1>3

LEMMA MeasureChargeIs ==
  ASSUME NEW d \in ScalerState, NEW r \in Reads
  PROVE  /\ MeasureCharge(d, r) \in ScalerState
         /\ SameRun(d, MeasureCharge(d, r)) /\ SameQuartet(d, MeasureCharge(d, r)) /\ SameBits(d, MeasureCharge(d, r))
         /\ SameHelicity(d, MeasureCharge(d, r))
         /\ r.cond = "beam" => MeasureCharge(d, r).fBCM_delta_charge = d.fNTriggers
<1> DEFINE x == MeasureCharge(d, r)
           n == IF r.cond = "dead" THEN d.fBCM_delta_charge ELSE d.fNTriggers
<1>1. x = [d EXCEPT !.fBCM_delta_charge = n] /\ n \in Nat
  BY DEF MeasureCharge, ScalerState
<1>2. r.cond = "beam" => n = d.fNTriggers
  OBVIOUS
<1> HIDE DEF x, n
<1>3. x \in ScalerState
  BY <1>1 DEF ScalerState
<1>4. SameRun(d, x) /\ SameQuartet(d, x) /\ SameBits(d, x) /\ SameHelicity(d, x)
  BY <1>1 DEF ScalerState, SameRun, SameQuartet, SameBits, SameHelicity
<1>5. r.cond = "beam" => x.fBCM_delta_charge = d.fNTriggers
  BY <1>1, <1>2 DEF ScalerState
<1> QED
  BY <1>3, <1>4, <1>5 DEF x

\* Whether a read joins the quartet in phase q, given those that have.
Taken(have, r, q) == r.cond = "beam" /\ (q = 0 \/ have[q - 1])

\* Read r, of phase q, joins the quartet or breaks it.
QuartetGoesOn(d, r, x, q) ==
  /\ \A i \in 0 .. 3 :
       x.fHaveCycle[i] =
         IF i = q /\ Taken(d.fHaveCycle, r, q) THEN TRUE ELSE IF q = 0 THEN FALSE ELSE d.fHaveCycle[i]
  /\ \A i \in 0 .. 3 :
       IF i = q /\ Taken(d.fHaveCycle, r, q)
       THEN x.fTimeCycle[i] = x.fNTriggers /\ x.fChargeCycle[i] = x.fNTriggers
       ELSE x.fTimeCycle[i] = d.fTimeCycle[i] /\ x.fChargeCycle[i] = d.fChargeCycle[i]
  /\ x.fQuartetCount # d.fQuartetCount => q = 3 /\ x.fHaveCycle[3]

QuartetAdded(d, r, x) ==
  IF x.actualHelicity = 0 THEN SameQuartet(d, x) ELSE QuartetGoesOn(d, r, x, x.quartetphase)

LEMMA AddToQuartetIs ==
  ASSUME NEW d \in ScalerState, NEW r \in Reads, d.actualHelicity # 0 => d.quartetphase \in 0 .. 3,
         r.cond = "beam" => d.fBCM_delta_charge = d.fNTriggers
  PROVE  /\ AddToQuartet(d, r) \in ScalerState
         /\ SameRun(d, AddToQuartet(d, r)) /\ SameBits(d, AddToQuartet(d, r)) /\ SameHelicity(d, AddToQuartet(d, r))
         /\ QuartetAdded(d, r, AddToQuartet(d, r))
<1> DEFINE x == AddToQuartet(d, r)
           q == d.quartetphase
           have == IF q = 0 THEN [i \in 0 .. 3 |-> FALSE] ELSE d.fHaveCycle
           taken == r.cond = "beam" /\ (q = 0 \/ have[q - 1])
           joined == [have EXCEPT ![q] = TRUE]
           charge == [d.fChargeCycle EXCEPT ![q] = d.fBCM_delta_charge]
           time == [d.fTimeCycle EXCEPT ![q] = d.fNTriggers]
           in == [d EXCEPT !.fHaveCycle = joined, !.fChargeCycle = charge, !.fTimeCycle = time]
           out == [d EXCEPT !.fHaveCycle = have]
           e == IF taken THEN in ELSE out
           more == [e EXCEPT !.fQuartetCount = e.fQuartetCount + 1]
<1>1. CASE d.actualHelicity = 0
  <2>1. x = d
    BY <1>1 DEF AddToQuartet
  <2> QED
    BY <1>1, <2>1 DEF SameRun, SameBits, SameHelicity, QuartetAdded, SameQuartet
<1>2. CASE d.actualHelicity # 0
  <2>1. /\ q \in 0 .. 3 /\ d.fNTriggers \in Nat /\ d.fBCM_delta_charge \in Nat
        /\ d.fHaveCycle \in [0 .. 3 -> BOOLEAN]
        /\ d.fChargeCycle \in [0 .. 3 -> Nat] /\ d.fTimeCycle \in [0 .. 3 -> Nat]
    BY <1>2 DEF ScalerState
  <2>2. have \in [0 .. 3 -> BOOLEAN]
    BY <2>1
  <2>3. /\ joined \in [0 .. 3 -> BOOLEAN]
        /\ charge \in [0 .. 3 -> Nat] /\ time \in [0 .. 3 -> Nat]
    BY <2>1, <2>2
  <2>4. x = IF q = 3 /\ e.fHaveCycle[3] THEN more ELSE e
    BY <1>2 DEF AddToQuartet, ScalerState
  <2>5. in \in ScalerState /\ out \in ScalerState
    <3>1. ASSUME NEW h \in [0 .. 3 -> BOOLEAN], NEW c \in [0 .. 3 -> Nat], NEW t \in [0 .. 3 -> Nat]
          PROVE  /\ [d EXCEPT !.fHaveCycle = h, !.fChargeCycle = c, !.fTimeCycle = t] \in ScalerState
                 /\ [d EXCEPT !.fHaveCycle = h] \in ScalerState
      BY DEF ScalerState
    <3> QED
      BY <2>2, <2>3, <3>1, Zenon
  <2>6. /\ SameRun(d, in) /\ SameBits(d, in) /\ SameHelicity(d, in) /\ in.fQuartetCount = d.fQuartetCount
        /\ SameRun(d, out) /\ SameBits(d, out) /\ SameHelicity(d, out) /\ out.fQuartetCount = d.fQuartetCount
    <3> HIDE DEF have, joined, charge, time
    <3> QED
      BY DEF ScalerState, SameRun, SameBits, SameHelicity
  <2>7. /\ in.fHaveCycle = joined /\ in.fChargeCycle = charge /\ in.fTimeCycle = time
        /\ out.fHaveCycle = have /\ out.fChargeCycle = d.fChargeCycle /\ out.fTimeCycle = d.fTimeCycle
    <3> HIDE DEF have, joined, charge, time
    <3> QED
      BY DEF ScalerState
  <2>8. taken <=> Taken(d.fHaveCycle, r, q)
    BY DEF Taken
  <2> HIDE DEF in, out, x, taken
  <2>9. /\ e \in ScalerState /\ SameRun(d, e) /\ SameBits(d, e) /\ SameHelicity(d, e)
        /\ e.fQuartetCount = d.fQuartetCount
        /\ e.fHaveCycle = IF taken THEN joined ELSE have
        /\ e.fChargeCycle = IF taken THEN charge ELSE d.fChargeCycle
        /\ e.fTimeCycle = IF taken THEN time ELSE d.fTimeCycle
    BY <2>5, <2>6, <2>7
  <2> HIDE DEF e
  <2>10. /\ x \in ScalerState /\ SameRun(e, x) /\ SameBits(e, x) /\ SameHelicity(e, x)
         /\ x.fHaveCycle = e.fHaveCycle /\ x.fChargeCycle = e.fChargeCycle /\ x.fTimeCycle = e.fTimeCycle
         /\ x.fQuartetCount # e.fQuartetCount => q = 3 /\ e.fHaveCycle[3]
    <3>1. more \in ScalerState
      BY <2>9 DEF ScalerState
    <3>2. /\ SameRun(e, more) /\ SameBits(e, more) /\ SameHelicity(e, more)
          /\ more.fHaveCycle = e.fHaveCycle /\ more.fChargeCycle = e.fChargeCycle /\ more.fTimeCycle = e.fTimeCycle
      BY <2>9 DEF ScalerState, SameRun, SameBits, SameHelicity
    <3>3. SameRun(e, e) /\ SameBits(e, e) /\ SameHelicity(e, e)
      BY DEF SameRun, SameBits, SameHelicity
    <3> HIDE DEF more
    <3> QED
      BY <2>4, <2>9, <3>1, <3>2, <3>3
  <2>11. SameRun(d, x) /\ SameBits(d, x) /\ SameHelicity(d, x)
    BY <2>9, <2>10 DEF SameRun, SameBits, SameHelicity
  <2>12. QuartetGoesOn(d, r, x, q)
    <3>1. \A i \in 0 .. 3 :
             x.fHaveCycle[i] =
               IF i = q /\ Taken(d.fHaveCycle, r, q) THEN TRUE ELSE IF q = 0 THEN FALSE ELSE d.fHaveCycle[i]
      <4>1. \A i \in 0 .. 3 : have[i] = IF q = 0 THEN FALSE ELSE d.fHaveCycle[i]
        OBVIOUS
      <4>2. \A i \in 0 .. 3 : joined[i] = IF i = q THEN TRUE ELSE have[i]
        BY <2>2
      <4>3. x.fHaveCycle = IF taken THEN joined ELSE have
        BY <2>9, <2>10
      <4> HIDE DEF have, joined, charge, time
      <4>4. CASE taken
        BY <2>8, <4>1, <4>2, <4>3, <4>4
      <4>5. CASE ~taken
        BY <2>8, <4>1, <4>3, <4>5
      <4> QED
        BY <4>4, <4>5
    <3>2. \A i \in 0 .. 3 :
             IF i = q /\ Taken(d.fHaveCycle, r, q)
             THEN x.fTimeCycle[i] = x.fNTriggers /\ x.fChargeCycle[i] = x.fNTriggers
             ELSE x.fTimeCycle[i] = d.fTimeCycle[i] /\ x.fChargeCycle[i] = d.fChargeCycle[i]
      <4>1. Taken(d.fHaveCycle, r, q) => d.fBCM_delta_charge = d.fNTriggers
        BY DEF Taken
      <4>2. x.fNTriggers = d.fNTriggers
        BY <2>11 DEF SameRun
      <4>3. taken =>
              /\ \A i \in 0 .. 3 : x.fTimeCycle[i] = IF i = q THEN d.fNTriggers ELSE d.fTimeCycle[i]
              /\ \A i \in 0 .. 3 :
                   x.fChargeCycle[i] = IF i = q THEN d.fBCM_delta_charge ELSE d.fChargeCycle[i]
        BY <2>1, <2>9, <2>10
      <4>4. ~taken => x.fTimeCycle = d.fTimeCycle /\ x.fChargeCycle = d.fChargeCycle
        BY <2>9, <2>10
      <4> HIDE DEF charge, time, have, joined
      <4> QED
        BY <2>8, <4>1, <4>2, <4>3, <4>4
    <3>3. x.fQuartetCount # d.fQuartetCount => q = 3 /\ x.fHaveCycle[3]
      BY <2>9, <2>10
    <3> QED
      BY <3>1, <3>2, <3>3 DEF QuartetGoesOn
  <2>13. QuartetAdded(d, r, x)
    BY <1>2, <2>11, <2>12 DEF QuartetAdded, SameHelicity
  <2> QED
    BY <2>10, <2>11, <2>13 DEF x
<1> QED
  BY <1>1, <1>2

\* The phase in which the next read is taken up.
PhaseNow(d) == Rem4((d.fNTriggers + 1) - d.fFirstCycle)

\* The whole analysis of read r.
Analysed(d, r, x) ==
  /\ x.fHelicityCycleOffset = d.fHelicityCycleOffset
  /\ x.fNTriggers = d.fNTriggers + 1
  /\ Outcome(d, r, x, PhaseNow(d))
  /\ HelicityGiven(x, PhaseUsed(d, r, PhaseNow(d)), x)
  /\ QuartetAdded(d, r, x)

LEMMA AnalysisIs ==
  ASSUME NEW d \in ScalerState, NEW r \in Reads, d.fNTrigsInBuf + 1 <= HistorySize
  PROVE  /\ AnalyzeHelicityScaler(d, r) \in ScalerState
         /\ Analysed(d, r, AnalyzeHelicityScaler(d, r))
         /\ AnalyzeHelicityScaler(d, r).fNTrigsInBuf = d.fNTrigsInBuf + 1
<1> DEFINE phase == PhaseNow(d)
           c == [d EXCEPT !.fNTrigsInBuf = @ + 1, !.fNTriggers = @ + 1]
           t == TrackPhase(c, r)
           a == AssignHelicity(t)
           h == CountTrigger(a)
           m == MeasureCharge(h, r)
           x == AddToQuartet(m, r)
<1>1. /\ c \in ScalerState /\ SameQuartet(d, c) /\ SameBits(d, c)
      /\ c.fHelicityCycleOffset = d.fHelicityCycleOffset
      /\ c.fNTriggers = d.fNTriggers + 1 /\ c.fNTrigsInBuf = d.fNTrigsInBuf + 1
  <2>1. /\ d.fNTriggers \in Nat /\ d.fNTrigsInBuf \in Nat /\ HistorySize \in Nat
    BY HScalerAssumption DEF ScalerState
  <2>2. PICK n \in Nat, k \in 0 .. HistorySize : n = d.fNTriggers + 1 /\ k = d.fNTrigsInBuf + 1
    BY <2>1
  <2>3. c = [d EXCEPT !.fNTrigsInBuf = k, !.fNTriggers = n]
    BY <2>2 DEF ScalerState
  <2> HIDE DEF c
  <2>4. /\ c \in ScalerState /\ SameQuartet(d, c) /\ SameBits(d, c)
        /\ c.fHelicityCycleOffset = d.fHelicityCycleOffset
        /\ c.fNTriggers = n /\ c.fNTrigsInBuf = k
    BY <2>3 DEF ScalerState, SameQuartet, SameBits
  <2> QED
    BY <2>2, <2>4
<1> HIDE DEF c
<1>2. phase = Rem4(c.fNTriggers - c.fFirstCycle)
  BY <1>1 DEF PhaseNow, SameBits
<1> HIDE DEF phase
<1>3. /\ t \in ScalerState /\ SameRun(c, t) /\ SameQuartet(c, t) /\ Outcome(c, r, t, phase)
      /\ t.quartetphase = PhaseUsed(c, r, phase)
  BY <1>1, <1>2, TrackPhaseIs
<1> HIDE DEF t
<1>4. /\ a \in ScalerState /\ SameRun(t, a) /\ SameQuartet(t, a) /\ SameBits(t, a)
      /\ HelicityGiven(t, t.quartetphase, a)
  BY <1>3, AssignHelicityIs
<1> HIDE DEF a
<1>5. /\ h \in ScalerState /\ SameRun(a, h) /\ SameQuartet(a, h) /\ SameBits(a, h)
      /\ SameHelicity(a, h)
  BY <1>4, CountTriggerIs
<1> HIDE DEF h
<1>6. /\ m \in ScalerState /\ SameRun(h, m) /\ SameQuartet(h, m) /\ SameBits(h, m)
      /\ SameHelicity(h, m)
      /\ r.cond = "beam" => m.fBCM_delta_charge = h.fNTriggers
  BY <1>5, MeasureChargeIs
<1> HIDE DEF m
<1>7. /\ SameQuartet(d, m) /\ SameRun(c, m) /\ SameBits(t, m)
      /\ HelicityGiven(t, t.quartetphase, m)
  <2>1. SameQuartet(d, m)
    BY <1>1, <1>3, <1>4, <1>5, <1>6 DEF SameQuartet
  <2>2. SameRun(c, m)
    BY <1>3, <1>4, <1>5, <1>6 DEF SameRun
  <2>3. SameBits(t, m)
    BY <1>4, <1>5, <1>6 DEF SameBits
  <2>4. HelicityGiven(t, t.quartetphase, m)
    BY <1>4, <1>5, <1>6 DEF SameHelicity, HelicityGiven
  <2> QED
    BY <2>1, <2>2, <2>3, <2>4
<1>8. m.actualHelicity # 0 => m.quartetphase \in 0 .. 3
  <2>1. t.quartetphase \in -3 .. 3
    BY <1>3 DEF ScalerState
  <2> QED
    BY <1>7, <2>1 DEF HelicityGiven
<1>9. /\ x \in ScalerState /\ SameRun(m, x) /\ SameBits(m, x) /\ SameHelicity(m, x)
      /\ QuartetAdded(m, r, x)
  <2>1. r.cond = "beam" => m.fBCM_delta_charge = m.fNTriggers
    BY <1>6 DEF SameRun
  <2> QED
    BY <1>6, <1>8, <2>1, AddToQuartetIs
<1> HIDE DEF x
<1>10. /\ x.fHelicityCycleOffset = d.fHelicityCycleOffset
       /\ x.fNTriggers = d.fNTriggers + 1 /\ x.fNTrigsInBuf = d.fNTrigsInBuf + 1
  BY <1>1, <1>7, <1>9 DEF SameRun
<1>11. SameBits(t, x) /\ x.fHelicityCycleOffset = t.fHelicityCycleOffset /\ x.fNTriggers = t.fNTriggers
  BY <1>1, <1>3, <1>7, <1>9, <1>10 DEF SameBits, SameRun
<1>12. Outcome(d, r, x, phase)
  <2>1. FirstQuartet(c, r, t) => FirstQuartet(d, r, x)
    BY <1>1, <1>11 DEF FirstQuartet, Quarteted, BitTaken, SameBits
  <2>2. StillSearching(c, r, t) => StillSearching(d, r, x)
    BY <1>1, <1>11 DEF StillSearching, Quarteted, SameBits
  <2>3. GivenUp(c, r, t, phase) => GivenUp(d, r, x, phase)
    BY <1>1, <1>11 DEF GivenUp, Missed, Quarteted, SameBits
  <2>4. NextBit(c, r, t, phase) => NextBit(d, r, x, phase)
    BY <1>1, <1>11 DEF NextBit, Missed, BitTaken, Quarteted, SameBits
  <2>5. NoBit(c, r, t, phase) => NoBit(d, r, x, phase)
    BY <1>1, <1>11 DEF NoBit, Missed, Quarteted, SameBits
  <2> QED
    BY <1>3, <2>1, <2>2, <2>3, <2>4, <2>5 DEF Outcome
<1>13. HelicityGiven(x, PhaseUsed(d, r, phase), x)
  <2>1. t.quartetphase = PhaseUsed(d, r, phase)
    BY <1>1, <1>3 DEF PhaseUsed, Quarteted, SameBits
  <2>2. x.actualHelicity = m.actualHelicity /\ x.quartetphase = m.quartetphase
    BY <1>9 DEF SameHelicity
  <2>3. x.fNBits = t.fNBits /\ x.fRingSeed_reported = t.fRingSeed_reported
    BY <1>11 DEF SameBits
  <2> QED
    BY <1>7, <2>1, <2>2, <2>3 DEF HelicityGiven
<1>14. QuartetAdded(d, r, x)
  <2>1. CASE x.actualHelicity = 0
    BY <1>7, <1>9, <2>1 DEF QuartetAdded, SameQuartet
  <2>2. CASE x.actualHelicity # 0
    <3>1. QuartetGoesOn(m, r, x, x.quartetphase)
      BY <1>9, <2>2 DEF QuartetAdded
    <3>2. QuartetGoesOn(d, r, x, x.quartetphase)
      <4>1. /\ m.fHaveCycle = d.fHaveCycle /\ m.fTimeCycle = d.fTimeCycle
            /\ m.fChargeCycle = d.fChargeCycle /\ m.fQuartetCount = d.fQuartetCount
        BY <1>7 DEF SameQuartet
      <4>2. \A i \in 0 .. 3 :
              x.fHaveCycle[i] = IF i = x.quartetphase /\ Taken(d.fHaveCycle, r, x.quartetphase)
                                THEN TRUE ELSE IF x.quartetphase = 0 THEN FALSE ELSE d.fHaveCycle[i]
        BY <3>1, <4>1 DEF QuartetGoesOn
      <4>3. \A i \in 0 .. 3 :
              IF i = x.quartetphase /\ Taken(d.fHaveCycle, r, x.quartetphase)
              THEN x.fTimeCycle[i] = x.fNTriggers /\ x.fChargeCycle[i] = x.fNTriggers
              ELSE x.fTimeCycle[i] = d.fTimeCycle[i] /\ x.fChargeCycle[i] = d.fChargeCycle[i]
        BY <3>1, <4>1 DEF QuartetGoesOn
      <4>4. x.fQuartetCount # d.fQuartetCount => x.quartetphase = 3 /\ x.fHaveCycle[3]
        BY <3>1, <4>1 DEF QuartetGoesOn
      <4> QED
        BY <4>2, <4>3, <4>4 DEF QuartetGoesOn
    <3> QED
      BY <2>2, <3>2 DEF QuartetAdded
  <2> QED
    BY <2>1, <2>2
<1>15. AnalyzeHelicityScaler(d, r) = x
  BY DEF AnalyzeHelicityScaler, x, m, h, a, t, c
<1> QED
  BY <1>9, <1>10, <1>12, <1>13, <1>14, <1>15 DEF Analysed, phase

\* A new bank makes no difference but to the history.
LEMMA NewBankIs ==
  ASSUME NEW d \in ScalerState, NEW r, NEW x, NEW s, s = [d EXCEPT !.fNTrigsInBuf = 0]
  PROVE  /\ s \in ScalerState /\ s.fNTrigsInBuf = 0
         /\ Analysed(s, r, x) => Analysed(d, r, x)
<1>1. s \in ScalerState /\ s.fNTrigsInBuf = 0
  <2>1. 0 \in 0 .. HistorySize
    BY HScalerAssumption
  <2> QED
    BY <2>1 DEF ScalerState
<1>2. /\ s.fHelicityCycleOffset = d.fHelicityCycleOffset /\ s.fNTriggers = d.fNTriggers
      /\ SameBits(d, s) /\ SameQuartet(d, s)
  BY DEF ScalerState, SameBits, SameQuartet
<1>3. PhaseNow(s) = PhaseNow(d) /\ (Quarteted(s) <=> Quarteted(d))
  BY <1>2 DEF PhaseNow, Quarteted, SameBits
<1>4. Outcome(s, r, x, PhaseNow(d)) => Outcome(d, r, x, PhaseNow(d))
  <2>1. FirstQuartet(s, r, x) => FirstQuartet(d, r, x)
    BY <1>2, <1>3 DEF FirstQuartet, BitTaken, SameBits
  <2>2. StillSearching(s, r, x) => StillSearching(d, r, x)
    BY <1>2, <1>3 DEF StillSearching, SameBits
  <2>3. GivenUp(s, r, x, PhaseNow(d)) => GivenUp(d, r, x, PhaseNow(d))
    BY <1>2, <1>3 DEF GivenUp, Missed
  <2>4. NextBit(s, r, x, PhaseNow(d)) => NextBit(d, r, x, PhaseNow(d))
    BY <1>2, <1>3 DEF NextBit, Missed, BitTaken, SameBits
  <2>5. NoBit(s, r, x, PhaseNow(d)) => NoBit(d, r, x, PhaseNow(d))
    BY <1>2, <1>3 DEF NoBit, Missed, SameBits
  <2> QED
    BY <2>1, <2>2, <2>3, <2>4, <2>5 DEF Outcome
<1>5. PhaseUsed(s, r, PhaseNow(d)) = PhaseUsed(d, r, PhaseNow(d))
  BY <1>2, <1>3 DEF PhaseUsed
<1>6. QuartetAdded(s, r, x) => QuartetAdded(d, r, x)
  <2>1. /\ s.fHaveCycle = d.fHaveCycle /\ s.fTimeCycle = d.fTimeCycle
        /\ s.fChargeCycle = d.fChargeCycle /\ s.fQuartetCount = d.fQuartetCount
    BY <1>2 DEF SameQuartet
  <2>2. ASSUME NEW q, QuartetGoesOn(s, r, x, q) PROVE QuartetGoesOn(d, r, x, q)
    <3>1. \A i \in 0 .. 3 :
            x.fHaveCycle[i] = IF i = q /\ Taken(d.fHaveCycle, r, q)
                              THEN TRUE ELSE IF q = 0 THEN FALSE ELSE d.fHaveCycle[i]
      BY <2>1, <2>2 DEF QuartetGoesOn
    <3>2. \A i \in 0 .. 3 :
            IF i = q /\ Taken(d.fHaveCycle, r, q)
            THEN x.fTimeCycle[i] = x.fNTriggers /\ x.fChargeCycle[i] = x.fNTriggers
            ELSE x.fTimeCycle[i] = d.fTimeCycle[i] /\ x.fChargeCycle[i] = d.fChargeCycle[i]
      BY <2>1, <2>2 DEF QuartetGoesOn
    <3>3. x.fQuartetCount # d.fQuartetCount => q = 3 /\ x.fHaveCycle[3]
      BY <2>1, <2>2 DEF QuartetGoesOn
    <3> QED
      BY <3>1, <3>2, <3>3 DEF QuartetGoesOn
  <2>3. SameQuartet(s, x) => SameQuartet(d, x)
    BY <2>1 DEF SameQuartet
  <2> QED
    BY <2>2, <2>3 DEF QuartetAdded
<1> QED
  BY <1>1, <1>2, <1>3, <1>4, <1>5, <1>6 DEF Analysed

---------------------------------------------------------------------------
(* The steps.                                                              *)

\* Read r, of the next window, is analysed.
ReadTaken(r) ==
  /\ r \in Reads /\ \E cond \in Conditions : r = ReadOf(win + 1, cond)
  /\ hs' \in ScalerState /\ Analysed(hs, r, hs') /\ hs'.fNTrigsInBuf \in 0 .. BankReads
  /\ MoveTo(win + 1)
  /\ UNCHANGED <<setup, phase0, lost, final>>
  /\ ~finished' => win < LastWindow /\ ~finished

\* At most the final read is saved.
NothingRead ==
  /\ UNCHANGED <<setup, win, phase0, beam, lost, hs>>
  /\ ~finished' => ~finished /\ \A r \in final' : r \in final \/ FinalRead(r)

LEMMA ReadIs ==
  ASSUME win \in Nat, NEW cond \in Conditions, NEW w \in Nat
  PROVE  ReadOf(w, cond) \in Reads
BY DEF ReadOf, Reads

\* Every step is one of three.
LEMMA StepsAre ==
  ASSUME TypesInv, [HScalerNext]_hscalerVars
  PROVE  (\E r : ReadTaken(r)) \/ LoseRead \/ NothingRead
<1>1. /\ win \in Nat /\ hs \in ScalerState /\ hs.fNTrigsInBuf \in 0 .. BankReads
      /\ BankReads \in Nat /\ HistorySize \in Nat /\ 1 <= BankReads /\ BankReads <= HistorySize
  BY HScalerAssumption DEF TypesInv, HScalerTypeInvariant
<1>2. ASSUME NEW r, NEW cond \in Conditions, r = ReadOf(win + 1, cond),
             NEW start, start = hs \/ start = [hs EXCEPT !.fNTrigsInBuf = 0],
             start.fNTrigsInBuf + 1 <= BankReads, hs' = AnalyzeHelicityScaler(start, r)
      PROVE  /\ r \in Reads /\ \E co \in Conditions : r = ReadOf(win + 1, co)
             /\ hs' \in ScalerState /\ Analysed(hs, r, hs') /\ hs'.fNTrigsInBuf \in 0 .. BankReads
  <2>1. r \in Reads
    BY <1>1, <1>2, ReadIs
  <2>2. start \in ScalerState /\ (Analysed(start, r, hs') => Analysed(hs, r, hs'))
    <3>1. CASE start = hs
      BY <1>1, <3>1
    <3>2. CASE start = [hs EXCEPT !.fNTrigsInBuf = 0]
      BY <1>1, <3>2, NewBankIs
    <3> QED
      BY <1>2, <3>1, <3>2
  <2>3. start.fNTrigsInBuf \in Nat
    BY <1>1, <2>2 DEF ScalerState
  <2>4. start.fNTrigsInBuf + 1 <= HistorySize
    BY <1>1, <1>2, <2>3
  <2>5. hs' \in ScalerState /\ Analysed(start, r, hs') /\ hs'.fNTrigsInBuf = start.fNTrigsInBuf + 1
    BY <1>2, <2>1, <2>2, <2>4, AnalysisIs
  <2> QED
    BY <1>1, <1>2, <2>1, <2>2, <2>3, <2>5
<1>3. ASSUME NEW newBank \in BOOLEAN, NEW cond \in Conditions, AnalyzeRead(newBank, cond)
      PROVE  ReadTaken(ReadOf(win + 1, cond))
  <2> DEFINE start == IF newBank THEN [hs EXCEPT !.fNTrigsInBuf = 0] ELSE hs
  <2>1. start.fNTrigsInBuf + 1 <= BankReads
    <3>1. CASE newBank = TRUE
      <4>1. start.fNTrigsInBuf = 0
        BY <1>1, <3>1, NewBankIs
      <4> QED
        BY <1>1, <4>1
    <3>2. CASE newBank = FALSE
      BY <1>1, <1>3, <3>2 DEF AnalyzeRead
    <3> QED
      BY <3>1, <3>2
  <2>2. hs' = AnalyzeHelicityScaler(start, ReadOf(win + 1, cond))
    BY <1>3 DEF AnalyzeRead
  <2>3. start = hs \/ start = [hs EXCEPT !.fNTrigsInBuf = 0]
    OBVIOUS
  <2> HIDE DEF start
  <2>4. /\ ReadOf(win + 1, cond) \in Reads /\ \E co \in Conditions : ReadOf(win + 1, cond) = ReadOf(win + 1, co)
        /\ hs' \in ScalerState /\ Analysed(hs, ReadOf(win + 1, cond), hs')
        /\ hs'.fNTrigsInBuf \in 0 .. BankReads
    BY <1>2, <2>1, <2>2, <2>3
  <2>5. /\ MoveTo(win + 1) /\ UNCHANGED <<setup, phase0, lost, final, finished>>
        /\ win < LastWindow /\ ~finished
    BY <1>3 DEF AnalyzeRead
  <2> QED
    BY <2>4, <2>5 DEF ReadTaken
<1>4. ASSUME EndReads, final # {} PROVE \E r : ReadTaken(r)
  <2> DEFINE r == CHOOSE r \in final : TRUE
             start == [hs EXCEPT !.fNTrigsInBuf = 0]
  <2>1. r \in final
    BY <1>4
  <2>2. ~finished /\ win = LastWindow /\ finished'
    BY <1>4 DEF EndReads
  <2>3. PICK cond \in Conditions : r = ReadOf(win + 1, cond)
    BY <2>1, <2>2 DEF TypesInv, FinalRead
  <2>4. hs' = AnalyzeHelicityScaler(start, r) /\ MoveTo(win + 1) /\ UNCHANGED <<setup, phase0, lost, final>>
    BY <1>4 DEF EndReads
  <2>5. start.fNTrigsInBuf + 1 <= BankReads
    <3>1. start.fNTrigsInBuf = 0
      BY <1>1, NewBankIs
    <3> QED
      BY <1>1, <3>1
  <2> HIDE DEF r, start
  <2>6. /\ r \in Reads /\ \E co \in Conditions : r = ReadOf(win + 1, co)
        /\ hs' \in ScalerState /\ Analysed(hs, r, hs') /\ hs'.fNTrigsInBuf \in 0 .. BankReads
    BY <1>2, <2>3, <2>4, <2>5 DEF start
  <2> QED
    BY <2>2, <2>4, <2>6 DEF ReadTaken
<1>5. ASSUME EndReads, final = {} PROVE NothingRead
  BY <1>5 DEF EndReads, NothingRead
<1>6. ASSUME NEW cond \in Conditions, SaveFinalRead(cond) PROVE NothingRead
  <2>1. UNCHANGED <<setup, win, phase0, beam, lost, hs, finished>> /\ ~finished
    BY <1>6 DEF SaveFinalRead
  <2>2. \A r \in final' : FinalRead(r)
    BY <1>6 DEF SaveFinalRead, FinalRead
  <2> QED
    BY <2>1, <2>2 DEF NothingRead
<1>7. ASSUME UNCHANGED hscalerVars PROVE NothingRead
  BY <1>7 DEF hscalerVars, NothingRead
<1> QED
  BY <1>3, <1>4, <1>5, <1>6, <1>7 DEF HScalerNext

\* What the read of a window finds of its bank, its helicity and the run.
LEMMA TypesStep ==
  ASSUME TypesInv, [HScalerNext]_hscalerVars
  PROVE  TypesInv'
<1>1. /\ setup \in SetupType /\ win \in Nat /\ phase0 \in 0 .. 3 /\ beam \in Seeds /\ lost \in Nat
      /\ LastWindow \in Nat /\ Disorder \in 0 .. 8
  BY HScalerAssumption DEF TypesInv, HScalerTypeInvariant, SetupType, LastWindow
<1>2. finished' \in BOOLEAN
  BY Zenon DEF TypesInv, HScalerTypeInvariant, HScalerNext, hscalerVars, AnalyzeRead, LoseRead,
               SaveFinalRead, EndReads
<1>3. ASSUME win' = win + 1, beam' = RingAt(win + 1), UNCHANGED <<setup, phase0, final>>,
             hs'.fHelicityCycleOffset = hs.fHelicityCycleOffset, ~finished' => win < LastWindow /\ ~finished
      PROVE  /\ win' \in Nat /\ beam' \in Seeds
             /\ ~finished' => win' <= LastWindow' /\ \A r \in final' : FinalRead(r)'
  <2>1. beam' \in Seeds
    BY <1>1, <1>3, NextWindow
  <2>2. ASSUME ~finished', NEW r \in final PROVE FinalRead(r)'
    <3>1. win < LastWindow /\ FinalRead(r)
      BY <1>3, <2>2 DEF TypesInv
    <3>2. PICK cond \in Conditions : r = ReadOf(LastWindow + 1, cond)
      BY <3>1 DEF FinalRead
    <3>3. win < LastWindow + 1 /\ LastWindow + 1 <= win + 9 /\ LastWindow + 1 \in Nat
      BY <1>1, <3>1 DEF FinalRead
    <3>4. ReadOf(LastWindow + 1, cond)' = ReadOf(LastWindow + 1, cond)
      <4>1. LastWindow' = LastWindow
        BY <1>3 DEF LastWindow
      <4>2. PICK w \in Nat : w = LastWindow + 1
        BY <3>3
      <4>3. ReadOf(w, cond)' = ReadOf(w, cond)
        BY <1>1, <1>3, <3>3, <4>2, LaterReads
      <4> QED
        BY <4>1, <4>2, <4>3
    <3>5. win' + Disorder >= LastWindow'
      BY <1>1, <1>3, <3>1 DEF FinalRead, LastWindow
    <3> QED
      BY <3>2, <3>4, <3>5 DEF FinalRead
  <2> QED
    BY <1>1, <1>3, <2>1, <2>2 DEF LastWindow
<1>4. ASSUME NEW r, ReadTaken(r) PROVE TypesInv'
  <2>1. hs'.fHelicityCycleOffset = hs.fHelicityCycleOffset /\ hs' \in ScalerState /\ hs'.fNTrigsInBuf \in 0 .. BankReads
    BY <1>4 DEF ReadTaken, Analysed
  <2>2. /\ win' = win + 1 /\ beam' = RingAt(win + 1) /\ UNCHANGED <<setup, phase0, lost, final>>
        /\ ~finished' => win < LastWindow /\ ~finished
    BY <1>4 DEF ReadTaken, MoveTo
  <2>3. /\ win' \in Nat /\ beam' \in Seeds
        /\ ~finished' => win' <= LastWindow' /\ \A e \in final' : FinalRead(e)'
    BY <1>3, <2>1, <2>2
  <2>4. hs'.actualHelicity # 0 => hs'.quartetphase \in 0 .. 3
    <3>1. hs \in ScalerState
      BY DEF TypesInv, HScalerTypeInvariant
    <3>2. PhaseUsed(hs, r, PhaseNow(hs)) \in -3 .. 3
      BY <3>1, RemainderIs DEF ScalerState, PhaseUsed, PhaseNow
    <3>3. HelicityGiven(hs', PhaseUsed(hs, r, PhaseNow(hs)), hs')
      BY <1>4 DEF ReadTaken, Analysed
    <3> QED
      BY <3>2, <3>3 DEF HelicityGiven
  <2> QED
    BY <1>1, <1>2, <2>1, <2>2, <2>3, <2>4 DEF TypesInv, HScalerTypeInvariant
<1>5. ASSUME LoseRead PROVE TypesInv'
  <2>1. /\ win' = win + 1 /\ beam' = RingAt(win + 1) /\ UNCHANGED <<setup, phase0, final, hs, finished>>
        /\ win < LastWindow /\ ~finished /\ lost' = lost + 1
    BY <1>5 DEF LoseRead, MoveTo
  <2>2. /\ win' \in Nat /\ beam' \in Seeds
        /\ ~finished' => win' <= LastWindow' /\ \A r \in final' : FinalRead(r)'
    BY <1>3, <2>1
  <2> QED
    BY <1>1, <1>2, <2>1, <2>2 DEF TypesInv, HScalerTypeInvariant
<1>6. ASSUME NothingRead PROVE TypesInv'
  <2>1. /\ UNCHANGED <<setup, win, phase0, beam, lost, hs>>
        /\ ~finished' => ~finished /\ \A r \in final' : r \in final \/ FinalRead(r)
    BY <1>6 DEF NothingRead
  <2>2. ASSUME NEW r PROVE FinalRead(r)' <=> FinalRead(r)
    BY <2>1 DEF FinalRead, ReadOf, LastWindow, RingAt, PhaseAt, QuartetsOn
  <2>3. ~finished' => win' <= LastWindow' /\ \A r \in final' : FinalRead(r)'
    BY <2>1, <2>2 DEF TypesInv, LastWindow
  <2> QED
    BY <1>2, <2>1, <2>3 DEF TypesInv, HScalerTypeInvariant
<1> QED
  BY <1>4, <1>5, <1>6, StepsAre

LEMMA TypesInit == HScalerInit => TypesInv
<1> SUFFICES ASSUME HScalerInit PROVE TypesInv
  OBVIOUS
<1>1. /\ setup \in HScalerSetups /\ setup \in SetupType /\ LastWindow \in Nat
      /\ BankReads \in Nat /\ HistorySize \in Nat
  BY HScalerAssumption DEF HScalerInit, LastWindow, SetupType
<1>2. hs = NewScaler(setup.Offset) /\ setup.Offset \in -3 .. 3
  BY <1>1 DEF HScalerInit, SetupType
<1>3. hs \in ScalerState
  <2>1. ZeroSeed \in Seeds
    BY DEF ZeroSeed, Seeds, Bit
  <2>2. -100 \in Int /\ 0 \in 0 .. HistorySize /\ 0 \in -3 .. 3 /\ 0 \in {-1, 0, 1}
    BY <1>1
  <2>3. /\ [i \in 0 .. 3 |-> FALSE] \in [0 .. 3 -> BOOLEAN]
        /\ [i \in 0 .. 3 |-> 0] \in [0 .. 3 -> Nat]
    OBVIOUS
  <2> QED
    BY <1>2, <2>1, <2>2, <2>3 DEF NewScaler, ScalerState
<1>4. hs.fHelicityCycleOffset = setup.Offset /\ hs.fNTrigsInBuf = 0 /\ hs.actualHelicity = 0
  BY <1>2 DEF NewScaler
<1>5. /\ win = 0 /\ lost = 0 /\ final = {} /\ finished = FALSE /\ phase0 \in 0 .. 3 /\ beam \in Seeds
  BY DEF HScalerInit
<1>6. finished \in BOOLEAN /\ win \in Nat /\ lost \in Nat /\ win <= LastWindow /\ \A r \in final : FinalRead(r)
  <2>1. finished \in BOOLEAN /\ \A r \in final : FinalRead(r)
    BY <1>5, Zenon
  <2>2. win \in Nat /\ lost \in Nat /\ win <= LastWindow
    BY <1>1, <1>5
  <2> QED
    BY <2>1, <2>2
<1>7. HScalerTypeInvariant
  BY <1>1, <1>3, <1>4, <1>5, <1>6 DEF HScalerTypeInvariant
<1>8. hs.fNTrigsInBuf \in 0 .. BankReads
  BY <1>1, <1>4
<1> QED
  BY <1>1, <1>4, <1>6, <1>7, <1>8 DEF TypesInv

\* The types hold in every state: THcHelicityScaler's history never overruns, and
\* a read with a helicity has a phase that indexes the arrays of the quartet.
THEOREM HScalerTypes == HScalerSpec => []HScalerTypeInvariant
<1>1. HScalerInit => TypesInv
  BY TypesInit
<1>2. TypesInv /\ [HScalerNext]_hscalerVars => TypesInv'
  BY TypesStep
<1>3. TypesInv => HScalerTypeInvariant
  BY DEF TypesInv
<1> QED
  BY <1>1, <1>2, <1>3, PTL DEF HScalerSpec

---------------------------------------------------------------------------
(* What a read does to the phase and to the helicity.                      *)

\* The outcomes by what they leave, with the phase counted from the first cycle.
LEMMA OutcomesAre ==
  ASSUME NEW d \in ScalerState, NEW r \in Reads, NEW x \in ScalerState,
         HandlerInv(d), Analysed(d, r, x)
  PROVE  \/ /\ FirstQuartet(d, r, x) /\ Quarteted(x) /\ Since(x) = d.fHelicityCycleOffset /\ x.fNBits = 1
         \/ /\ StillSearching(d, r, x) \/ GivenUp(d, r, x, PhaseNow(d))
            /\ ~Quarteted(x) /\ x.fFirstCycle = -100 /\ x.fNBits = 0
         \/ /\ NextBit(d, r, x, PhaseNow(d)) /\ Quarteted(x) /\ Since(x) = Since(d) + 1
            /\ Since(x) >= 0 /\ Since(x) % 4 = 0 /\ PhaseUsed(d, r, PhaseNow(d)) = 0
         \/ /\ NoBit(d, r, x, PhaseNow(d)) /\ Quarteted(x) /\ Since(x) = Since(d) + 1
            /\ Since(x) % 4 # 0
            /\ Since(x) >= 0 => PhaseUsed(d, r, PhaseNow(d)) = Since(x) % 4
<1> DEFINE phase == PhaseNow(d)
<1>1. /\ d.fNTriggers \in Nat /\ d.fFirstCycle \in Int /\ d.fHelicityCycleOffset \in -3 .. 3 /\ d.fNBits \in Nat
      /\ x.fNTriggers = d.fNTriggers + 1 /\ x.fHelicityCycleOffset = d.fHelicityCycleOffset
      /\ x.fFirstCycle \in Int
  BY DEF ScalerState, Analysed
<1>2. /\ phase = Rem4(Since(d) + 1) /\ Since(d) \in Int
      /\ x.fFirstCycle = d.fFirstCycle => Since(x) = Since(d) + 1
  <2>1. (d.fNTriggers + 1) - d.fFirstCycle = (d.fNTriggers - d.fFirstCycle) + 1
    BY <1>1
  <2> QED
    BY <1>1, <2>1 DEF PhaseNow, Since
<1>3. /\ Since(d) + 1 >= 0 => phase = (Since(d) + 1) % 4
      /\ Quarteted(d) /\ Since(d) + 1 < 0 => phase = Since(d) + 1
  <2>1. Quarteted(d) /\ Since(d) + 1 < 0 => Since(d) + 1 \in -3 .. 3
    BY <1>1, <1>2 DEF HandlerInv
  <2>2. Since(d) + 1 \in Int
    BY <1>2
  <2> QED
    BY <1>2, <2>1, <2>2, RemainderIs
<1> HIDE DEF phase
<1>4. CASE FirstQuartet(d, r, x)
  <2>1. x.fFirstCycle = x.fNTriggers - d.fHelicityCycleOffset /\ x.fNBits = d.fNBits + 1 /\ d.fNBits = 0
    BY <1>1, <1>4 DEF FirstQuartet, BitTaken, HandlerInv
  <2>2. x.fFirstCycle >= -10 /\ x.fNTriggers - x.fFirstCycle = d.fHelicityCycleOffset
    BY <1>1, <2>1
  <2> QED
    BY <1>4, <2>1, <2>2 DEF Quarteted, Since
<1>5. CASE StillSearching(d, r, x)
  BY <1>5 DEF StillSearching, SameBits, HandlerInv, Quarteted
<1>6. CASE GivenUp(d, r, x, phase)
  BY <1>6 DEF GivenUp, Quarteted, phase
<1>7. CASE NextBit(d, r, x, phase)
  <2>1. Quarteted(d) /\ phase = 0 /\ x.fFirstCycle = d.fFirstCycle
    BY <1>7 DEF NextBit
  <2>2. Since(x) >= 0 /\ Since(x) % 4 = 0 /\ Since(x) = Since(d) + 1
    BY <1>2, <1>3, <2>1
  <2>3. PhaseUsed(d, r, phase) = 0 /\ Quarteted(x)
    BY <2>1 DEF PhaseUsed, Quarteted
  <2> QED
    BY <1>7, <2>2, <2>3 DEF phase
<1>8. CASE NoBit(d, r, x, phase)
  <2>1. Quarteted(d) /\ phase # 0 /\ x.fFirstCycle = d.fFirstCycle
    BY <1>8 DEF NoBit, SameBits
  <2>2. /\ Since(x) = Since(d) + 1
        /\ Since(x) % 4 # 0
        /\ Since(x) >= 0 => phase = Since(x) % 4
    <3>1. Since(x) = Since(d) + 1 /\ (Since(x) >= 0 => phase = Since(x) % 4)
      BY <1>2, <1>3, <2>1
    <3>2. Since(x) < 0 => Since(x) \in -3 .. -1
      BY <1>1, <1>2, <2>1, <3>1 DEF HandlerInv
    <3> QED
      BY <1>2, <2>1, <3>1, <3>2
  <2>3. PhaseUsed(d, r, phase) = phase /\ Quarteted(x)
    BY <2>1 DEF PhaseUsed, Quarteted
  <2> QED
    BY <1>8, <2>2, <2>3 DEF phase
<1> QED
  BY <1>4, <1>5, <1>6, <1>7, <1>8 DEF Analysed, Outcome, phase

LEMMA HandlerStep ==
  ASSUME NEW d \in ScalerState, NEW r \in Reads, NEW x \in ScalerState, MAXBIT > 1,
         HandlerInv(d), Analysed(d, r, x)
  PROVE  HandlerInv(x)
<1> DEFINE q == PhaseUsed(d, r, PhaseNow(d))
<1>1. /\ Since(d) \in Int /\ Since(x) \in Int /\ x.fNBits \in Nat /\ d.fNBits \in Nat /\ MAXBIT \in Nat
      /\ x.fHelicityCycleOffset = d.fHelicityCycleOffset /\ d.fHelicityCycleOffset \in -3 .. 3
  BY RingAssumption DEF ScalerState, Since, Analysed
<1>2. /\ ~Quarteted(x) => x.fFirstCycle = -100 /\ x.fNBits = 0
      /\ Quarteted(x) => /\ Since(x) >= 0 \/ Since(x) >= x.fHelicityCycleOffset
                         /\ Since(x) < 0 => x.fNBits <= 1
      /\ Quarteted(x) /\ Since(x) >= 0 => q = Since(x) % 4 \/ x.fNBits <= 1
  <2>1. CASE FirstQuartet(d, r, x) /\ Quarteted(x) /\ Since(x) = d.fHelicityCycleOffset /\ x.fNBits = 1
    BY <1>1, <2>1
  <2>2. CASE ~Quarteted(x) /\ x.fFirstCycle = -100 /\ x.fNBits = 0
    BY <2>2
  <2>3. CASE /\ NextBit(d, r, x, PhaseNow(d)) /\ Quarteted(x) /\ Since(x) = Since(d) + 1
             /\ Since(x) >= 0 /\ Since(x) % 4 = 0 /\ q = 0
    BY <1>1, <2>3
  <2>4. CASE /\ NoBit(d, r, x, PhaseNow(d)) /\ Quarteted(x) /\ Since(x) = Since(d) + 1
             /\ Since(x) >= 0 => q = Since(x) % 4
    <3>1. x.fNBits = d.fNBits /\ Quarteted(d)
      BY <2>4 DEF NoBit, SameBits
    <3>2. /\ Since(d) >= 0 \/ Since(d) >= d.fHelicityCycleOffset
          /\ Since(d) < 0 => d.fNBits <= 1
      BY <3>1 DEF HandlerInv
    <3> QED
      BY <1>1, <2>4, <3>1, <3>2
  <2> HIDE DEF q
  <2> QED
    BY <2>1, <2>2, <2>3, <2>4, OutcomesAre DEF q
<1>3. HelicityGiven(x, q, x)
  BY DEF Analysed
<1> HIDE DEF q
<1>4. CASE x.fNBits < MAXBIT
  BY <1>2, <1>3, <1>4 DEF HelicityGiven, HandlerInv
<1>5. CASE ~(x.fNBits < MAXBIT)
  <2>1. q = Since(x) % 4
    BY <1>1, <1>2, <1>5
  <2>2. (q + 1) % 4 = (Since(x) + 1) % 4
    BY <1>1, <2>1
  <2> QED
    BY <1>2, <1>3, <1>5, <2>1, <2>2 DEF HelicityGiven, HandlerInv
<1> QED
  BY <1>4, <1>5

---------------------------------------------------------------------------
(* In step with the quartets.                                              *)

\* Read r in phase p of a quartet signed by ring b.
ReadFrom(d, r, p, b) ==
  /\ r.isquartet <=> p = d.fHelicityCycleOffset % 4
  /\ p \in {0, 3} => (r.ispos <=> b[1] = 1)

LEMMA ReadsAre ==
  ASSUME win \in Nat, phase0 \in 0 .. 3, beam \in Seeds, NEW r, ReadTaken(r)
  PROVE  ReadFrom(hs, r, (PhaseAt(win) + 1) % 4, Turned(PhaseAt(win), beam))
<1> DEFINE p == (PhaseAt(win) + 1) % 4
           b == Turned(PhaseAt(win), beam)
<1>1. PhaseAt(win + 1) = p /\ RingAt(win + 1) = b /\ b \in Seeds /\ p \in 0 .. 3
  BY NextWindow
<1>2. b[1] \in Bit
  BY <1>1, RingAssumption DEF Seeds
<1> HIDE DEF p, b
<1>3. PICK cond \in Conditions : r = ReadOf(win + 1, cond)
  BY DEF ReadTaken
<1>4. r.isquartet = (p = hs.fHelicityCycleOffset % 4) /\ r.ispos = (InQuartet(p, Sign(b[1])) = 1)
  BY <1>1, <1>3 DEF ReadOf
<1>5. p \in {0, 3} => (InQuartet(p, Sign(b[1])) = 1 <=> b[1] = 1)
  BY <1>2, SignIs DEF InQuartet
<1> QED
  BY <1>4, <1>5 DEF ReadFrom, p, b

\* A bit of the ring pushed in on both sides.
LEMMA PushAgrees ==
  ASSUME NEW s \in Seeds, NEW b \in Seeds, NEW n \in Int, Agree(s, b, n),
         NEW bit \in Bit, bit = RanBit30(b)[1]
  PROVE  Agree(PushBit(s, bit), RanBit30(b), n + 1)
<1>1. MAXBIT \in Nat
  BY RingAssumption
<1>2. ASSUME NEW i \in 1 .. MAXBIT, i <= n + 1 PROVE PushBit(s, bit)[i] = RanBit30(b)[i]
  <2>1. CASE i = 1
    BY <2>1 DEF PushBit
  <2>2. CASE i # 1
    <3>1. i - 1 \in 1 .. MAXBIT /\ i - 1 <= n
      BY <1>1, <1>2, <2>2
    <3>2. PushBit(s, bit)[i] = s[i - 1] /\ RanBit30(b)[i] = b[i - 1]
      BY <2>2 DEF RanBit30, PushBit
    <3>3. s[i - 1] = b[i - 1]
      BY <3>1 DEF Agree
    <3> QED
      BY <3>2, <3>3
  <2> QED
    BY <2>1, <2>2
<1> QED
  BY <1>2 DEF Agree

\* The newest bit after a read in an outer phase.
LEMMA BitTakenIs ==
  ASSUME NEW d \in ScalerState, NEW r \in Reads, NEW x, BitTaken(d, r, x),
         NEW p \in {0, 3}, NEW b \in Seeds, ReadFrom(d, r, p, b)
  PROVE  \E bit \in Bit : bit = b[1] /\ x.fRingSeed_reported = PushBit(d.fRingSeed_reported, bit)
<1>1. b[1] \in Bit
  BY RingAssumption DEF Seeds
<1>2. (IF r.ispos THEN 1 ELSE 0) = b[1]
  BY <1>1 DEF ReadFrom, Bit
<1> QED
  BY <1>1, <1>2 DEF BitTaken

LEMMA InStepStep ==
  ASSUME NEW d \in ScalerState, NEW r \in Reads, NEW x \in ScalerState,
         HandlerInv(d), Analysed(d, r, x),
         NEW p \in 0 .. 3, NEW b \in Seeds, InStep(d, p, b),
         ReadFrom(d, r, (p + 1) % 4, Turned(p, b))
  PROVE  InStep(x, (p + 1) % 4, Turned(p, b))
<1> DEFINE p2 == (p + 1) % 4
           b2 == Turned(p, b)
           have == IF Outer(d.fHelicityCycleOffset) THEN d.fNBits ELSE d.fNBits - 1
<1>1. /\ Since(d) \in Int /\ Since(x) \in Int /\ d.fNBits \in Nat /\ x.fNBits \in Nat
      /\ d.fHelicityCycleOffset \in -3 .. 3 /\ x.fHelicityCycleOffset = d.fHelicityCycleOffset
      /\ d.fRingSeed_reported \in Seeds
  BY DEF ScalerState, Since, Analysed
<1>2. b2 \in Seeds /\ p2 \in 0 .. 3 /\ (p2 = 0 <=> p = 3)
  BY RanBit30Type DEF Turned
<1>3. Quarteted(d) => Since(d) % 4 = p /\ Agree(d.fRingSeed_reported, b, have)
  BY DEF InStep
<1>4. CASE FirstQuartet(d, r, x) /\ Quarteted(x) /\ Since(x) = d.fHelicityCycleOffset /\ x.fNBits = 1
  <2>1. Since(x) % 4 = p2
    BY <1>4 DEF ReadFrom, FirstQuartet
  <2>2. ASSUME Outer(d.fHelicityCycleOffset) PROVE Agree(x.fRingSeed_reported, b2, 1)
    <3>1. p2 \in {0, 3}
      BY <1>4, <2>1, <2>2 DEF Outer
    <3>2. PICK bit \in Bit : bit = b2[1] /\ x.fRingSeed_reported = PushBit(d.fRingSeed_reported, bit)
      <4> HIDE DEF p2, b2
      <4> QED
        BY <1>2, <1>4, <3>1, BitTakenIs DEF FirstQuartet, p2, b2
    <3>3. x.fRingSeed_reported[1] = b2[1]
      BY <3>2, RingAssumption DEF PushBit
    <3>4. \A i \in 1 .. MAXBIT : i <= 1 => i = 1
      BY RingAssumption
    <3> QED
      BY <3>3, <3>4 DEF Agree
  <2>3. Agree(x.fRingSeed_reported, b2, 0)
    <3>1. \A i \in 1 .. MAXBIT : ~(i <= 0)
      BY RingAssumption
    <3> QED
      BY <3>1 DEF Agree
  <2>4. x.fNBits - 1 = 0
    BY <1>4
  <2> HIDE DEF p2, b2
  <2>5. InStep(x, p2, b2)
    BY <1>1, <1>4, <2>1, <2>2, <2>3, <2>4 DEF InStep
  <2> QED
    BY <2>5 DEF p2, b2
<1>5. CASE ~Quarteted(x)
  BY <1>5 DEF InStep
<1>6. CASE /\ NextBit(d, r, x, PhaseNow(d)) /\ Quarteted(x) /\ Since(x) = Since(d) + 1
           /\ Since(x) % 4 = 0
  <2>1. Quarteted(d) /\ x.fNBits = d.fNBits + 1 /\ BitTaken(d, r, x)
    BY <1>6 DEF NextBit, BitTaken
  <2>2. Since(x) % 4 = p2 /\ p2 = 0 /\ p = 3 /\ b2 = RanBit30(b)
    BY <1>1, <1>2, <1>3, <1>6, <2>1 DEF Turned
  <2> HIDE DEF p2, b2
  <2>3. PICK bit \in Bit : bit = b2[1] /\ x.fRingSeed_reported = PushBit(d.fRingSeed_reported, bit)
    BY <1>2, <2>1, <2>2, BitTakenIs DEF p2, b2
  <2>4. have \in Int /\ Agree(d.fRingSeed_reported, b, have)
    BY <1>1, <1>3, <2>1
  <2> HIDE DEF have
  <2>5. Agree(x.fRingSeed_reported, b2, have + 1)
    BY <1>1, <2>2, <2>3, <2>4, PushAgrees
  <2>6. have + 1 = IF Outer(x.fHelicityCycleOffset) THEN x.fNBits ELSE x.fNBits - 1
    BY <1>1, <2>1 DEF have
  <2>7. InStep(x, p2, b2)
    BY <2>2, <2>5, <2>6 DEF InStep
  <2> QED
    BY <2>7 DEF p2, b2
<1>7. CASE /\ NoBit(d, r, x, PhaseNow(d)) /\ Quarteted(x) /\ Since(x) = Since(d) + 1
           /\ Since(x) % 4 # 0
  <2>1. Quarteted(d) /\ x.fNBits = d.fNBits /\ x.fRingSeed_reported = d.fRingSeed_reported
    BY <1>7 DEF NoBit, SameBits
  <2>2. Since(x) % 4 = p2 /\ p # 3 /\ b2 = b
    BY <1>1, <1>2, <1>3, <1>7, <2>1 DEF Turned
  <2> HIDE DEF p2, b2
  <2>3. InStep(x, p2, b2)
    BY <1>1, <1>3, <2>1, <2>2 DEF InStep
  <2> QED
    BY <2>3 DEF p2, b2
<1> QED
  BY <1>4, <1>5, <1>6, <1>7, OutcomesAre

\* A seed in step is not given up: the quartet bit is where it is looked for.
LEMMA FullSeedStays ==
  ASSUME NEW d \in ScalerState, NEW r \in Reads, NEW x \in ScalerState, MAXBIT > 1,
         HandlerInv(d), Analysed(d, r, x), d.fNBits >= MAXBIT,
         NEW p \in 0 .. 3, NEW b, InStep(d, p, b), ReadFrom(d, r, (p + 1) % 4, Turned(p, b))
  PROVE  Quarteted(x) /\ Since(x) = Since(d) + 1 /\ x.fNBits >= MAXBIT
<1>1. /\ Since(d) \in Int /\ d.fNTriggers \in Nat /\ d.fFirstCycle \in Int /\ MAXBIT \in Nat
      /\ d.fNBits \in Nat /\ d.fHelicityCycleOffset \in -3 .. 3
  BY RingAssumption DEF ScalerState, Since
<1>2. Quarteted(d) /\ Since(d) >= 0 /\ Since(d) % 4 = p
  BY <1>1 DEF HandlerInv, InStep
<1>3. PhaseNow(d) = (p + 1) % 4
  <2>1. (d.fNTriggers + 1) - d.fFirstCycle = Since(d) + 1 /\ Since(d) + 1 \in Int /\ Since(d) + 1 >= 0
    BY <1>1, <1>2 DEF Since
  <2>2. PhaseNow(d) = (Since(d) + 1) % 4
    BY <2>1, RemainderIs DEF PhaseNow
  <2> QED
    BY <1>1, <1>2, <2>2
<1>4. ~GivenUp(d, r, x, PhaseNow(d))
  BY <1>1, <1>3 DEF GivenUp, Missed, ReadFrom
<1>5. CASE NextBit(d, r, x, PhaseNow(d)) /\ Quarteted(x) /\ Since(x) = Since(d) + 1
  BY <1>1, <1>5 DEF NextBit, BitTaken
<1>6. CASE NoBit(d, r, x, PhaseNow(d)) /\ Quarteted(x) /\ Since(x) = Since(d) + 1
  BY <1>6 DEF NoBit, SameBits
<1> QED
  BY <1>2, <1>4, <1>5, <1>6, OutcomesAre DEF FirstQuartet, StillSearching

\* With the fourth read of a quartet its four reads are in.
WholeReads(x) ==
  \A i \in 0 .. 3 : /\ x.fTimeCycle[i] = (x.fNTriggers - 3) + i
                    /\ x.fChargeCycle[i] = x.fTimeCycle[i]

LEMMA JoinedStep ==
  ASSUME NEW d \in ScalerState, NEW r \in Reads, NEW x \in ScalerState, MAXBIT > 1,
         HandlerInv(d), Analysed(d, r, x), Joined(d),
         NEW p \in 0 .. 3, NEW b, InStep(d, p, b), ReadFrom(d, r, (p + 1) % 4, Turned(p, b))
  PROVE  Joined(x) /\ (x.fQuartetCount # d.fQuartetCount => WholeReads(x))
<1>1. /\ MAXBIT \in Nat /\ d.fNBits \in Nat /\ x.fNBits \in Nat /\ Since(d) \in Int
      /\ d.fNTriggers \in Nat /\ x.fNTriggers = d.fNTriggers + 1
      /\ d.fHaveCycle \in [0 .. 3 -> BOOLEAN] /\ x.fHaveCycle \in [0 .. 3 -> BOOLEAN]
  BY RingAssumption DEF ScalerState, Since, Analysed
<1>2. HandlerInv(x) /\ QuartetAdded(d, r, x)
  BY HandlerStep DEF Analysed
<1>3. d.actualHelicity # 0 => d.fNBits >= MAXBIT /\ d.quartetphase = (Since(d) + 1) % 4
  BY <1>1 DEF HandlerInv
<1>4. d.actualHelicity # 0 => Quarteted(x) /\ Since(x) = Since(d) + 1 /\ x.fNBits >= MAXBIT
  BY <1>3, FullSeedStays
<1>5. CASE x.actualHelicity = 0
  <2>1. ~(x.fNBits >= MAXBIT)
    <3>1. ASSUME x.fNBits >= MAXBIT PROVE FALSE
      <4>1. x.actualHelicity = HelicityFrom(x.fRingSeed_reported, Since(x) % 4)
        BY <1>1, <1>2, <3>1 DEF HandlerInv
      <4>2. Since(x) % 4 \in 0 .. 3 /\ x.fRingSeed_reported \in Seeds
        BY DEF ScalerState, Since
      <4> QED
        BY <1>5, <4>1, <4>2, HelicityIsSign
    <3> QED
      BY <3>1
  <2>2. d.actualHelicity = 0 /\ SameQuartet(d, x)
    BY <1>2, <1>4, <1>5, <2>1 DEF QuartetAdded
  <2> QED
    BY <2>2 DEF Joined, SameQuartet
<1>6. CASE x.actualHelicity # 0
  <2> DEFINE q == x.quartetphase
  <2>1. QuartetGoesOn(d, r, x, q) /\ q = (Since(x) + 1) % 4 /\ q \in 0 .. 3
    <3>1. Since(x) \in Int
      BY DEF ScalerState, Since
    <3> QED
      BY <1>2, <1>6, <3>1 DEF QuartetAdded, HandlerInv
  <2>2. d.actualHelicity # 0 /\ q # 0 => q = d.quartetphase + 1 /\ d.quartetphase \in 0 .. 2
    BY <1>1, <1>3, <1>4, <2>1
  <2> HIDE DEF q
  <2>3. ASSUME NEW i \in 0 .. 3, x.fHaveCycle[i]
        PROVE  /\ i <= q /\ (i > 0 => x.fHaveCycle[i - 1])
               /\ x.fTimeCycle[i] = (x.fNTriggers - q) + i /\ x.fChargeCycle[i] = x.fTimeCycle[i]
    <3>1. CASE i = q /\ Taken(d.fHaveCycle, r, q)
      <4>1. x.fTimeCycle[i] = x.fNTriggers /\ x.fChargeCycle[i] = x.fNTriggers
        BY <2>1, <3>1 DEF QuartetGoesOn
      <4>2. ASSUME i > 0 PROVE x.fHaveCycle[i - 1]
        <5>1. d.fHaveCycle[q - 1] /\ q - 1 \in 0 .. 3 /\ q - 1 # q /\ q # 0
          BY <2>1, <3>1, <4>2 DEF Taken
        <5> QED
          BY <2>1, <3>1, <5>1 DEF QuartetGoesOn
      <4>3. (x.fNTriggers - q) + i = x.fNTriggers
        BY <1>1, <2>1, <3>1
      <4> QED
        BY <2>1, <3>1, <4>1, <4>2, <4>3
    <3>2. CASE ~(i = q /\ Taken(d.fHaveCycle, r, q))
      <4>1. q # 0 /\ d.fHaveCycle[i] /\ x.fTimeCycle[i] = d.fTimeCycle[i] /\ x.fChargeCycle[i] = d.fChargeCycle[i]
        BY <2>1, <2>3, <3>2 DEF QuartetGoesOn
      <4>2. /\ d.actualHelicity # 0 /\ i <= d.quartetphase /\ (i > 0 => d.fHaveCycle[i - 1])
            /\ d.fTimeCycle[i] = (d.fNTriggers - d.quartetphase) + i /\ d.fChargeCycle[i] = d.fTimeCycle[i]
        BY <4>1 DEF Joined
      <4>3. q = d.quartetphase + 1 /\ d.quartetphase \in 0 .. 2
        BY <2>2, <4>1, <4>2
      <4>4. i > 0 => x.fHaveCycle[i - 1]
        <5>1. i > 0 => i - 1 \in 0 .. 3 /\ i - 1 # q
          BY <4>2, <4>3
        <5> QED
          BY <2>1, <4>1, <4>2, <5>1 DEF QuartetGoesOn
      <4>5. (d.fNTriggers - d.quartetphase) + i = (x.fNTriggers - q) + i
        BY <1>1, <4>3
      <4> QED
        BY <2>1, <4>1, <4>2, <4>3, <4>4, <4>5
    <3> QED
      BY <3>1, <3>2
  <2>4. Joined(x)
    BY <1>6, <2>3 DEF Joined, q
  <2>5. ASSUME x.fQuartetCount # d.fQuartetCount PROVE WholeReads(x)
    <3>1. q = 3 /\ x.fHaveCycle[3]
      BY <2>1, <2>5 DEF QuartetGoesOn
    <3>2. x.fHaveCycle[2]
      BY <2>3, <3>1
    <3>3. x.fHaveCycle[1]
      BY <2>3, <3>2
    <3>4. x.fHaveCycle[0]
      BY <2>3, <3>3
    <3>5. \A i \in 0 .. 3 : x.fHaveCycle[i]
      <4>1. \A i \in 0 .. 3 : i = 0 \/ i = 1 \/ i = 2 \/ i = 3
        OBVIOUS
      <4> QED
        BY <3>1, <3>2, <3>3, <3>4, <4>1
    <3> QED
      BY <2>3, <3>1, <3>5 DEF WholeReads
  <2> QED
    BY <2>4, <2>5
<1> QED
  BY <1>5, <1>6

---------------------------------------------------------------------------
(* After reads were lost.                                                  *)

\* A read more of quartets that are looked for, or out of phase, or right.
LEMMA RecoveringStep ==
  ASSUME NEW d \in ScalerState, NEW r \in Reads, NEW x \in ScalerState,
         HandlerInv(d), Analysed(d, r, x), d.fHelicityCycleOffset \in {0, 3},
         NEW p \in 0 .. 3, NEW b \in Seeds, ReadFrom(d, r, (p + 1) % 4, Turned(p, b)),
         NEW n \in Int, Recovering(d, p, b, n)
  PROVE  Recovering(x, (p + 1) % 4, Turned(p, b), n + 1)
<1> DEFINE p2 == (p + 1) % 4
           b2 == Turned(p, b)
           f == d.fHelicityCycleOffset
<1>1. /\ Since(d) \in Int /\ Since(x) \in Int /\ d.fNBits \in Nat /\ x.fNBits \in Nat
      /\ f \in {0, 3} /\ x.fHelicityCycleOffset = f /\ d.fRingSeed_reported \in Seeds
      /\ d.fNTriggers \in Nat /\ d.fFirstCycle \in Int
  BY DEF ScalerState, Since, Analysed
<1>2. b2 \in Seeds /\ p2 \in 0 .. 3 /\ (p2 = 0 <=> p = 3)
  BY RanBit30Type DEF Turned
<1>3. Quarteted(d) => Since(d) >= 0 /\ PhaseNow(d) = (Since(d) + 1) % 4
  <2>1. Quarteted(d) => Since(d) >= 0
    BY <1>1 DEF HandlerInv
  <2>2. (d.fNTriggers + 1) - d.fFirstCycle = Since(d) + 1
    BY <1>1 DEF Since
  <2>3. Since(d) + 1 \in Int /\ (Since(d) >= 0 => Since(d) + 1 >= 0)
    BY <1>1
  <2>4. Quarteted(d) => Rem4(Since(d) + 1) = (Since(d) + 1) % 4
    BY <2>1, <2>3, RemainderIs
  <2> QED
    BY <2>1, <2>2, <2>4 DEF PhaseNow
<1>4. r.isquartet <=> p2 = f
  BY <1>1, <1>2 DEF ReadFrom
<1>5. Quarteted(d) /\ ~Missed(d, r, PhaseNow(d)) /\ PhaseNow(d) = f => p2 = f
  BY <1>1, <1>4 DEF Missed
<1>6. CASE FirstQuartet(d, r, x) /\ Quarteted(x) /\ Since(x) = f /\ x.fNBits = 1
  <2>1. p2 = f /\ Since(x) % 4 = p2 /\ ~Quarteted(d) /\ BitTaken(d, r, x)
    BY <1>1, <1>2, <1>4, <1>6 DEF FirstQuartet
  <2>2. n + 1 <= ((4 * 1) + 3) + p2
    <3>1. n <= 3 + ((p - f) % 4)
      BY <2>1 DEF Recovering
    <3> QED
      BY <1>1, <2>1, <3>1
  <2>3. Agree(x.fRingSeed_reported, b2, 1)
    <3>1. p2 \in {0, 3}
      BY <1>1, <2>1
    <3>2. PICK bit \in Bit : bit = b2[1] /\ x.fRingSeed_reported = PushBit(d.fRingSeed_reported, bit)
      <4> HIDE DEF p2, b2, f
      <4> QED
        BY <1>2, <2>1, <3>1, BitTakenIs DEF p2, b2
    <3>3. x.fRingSeed_reported[1] = b2[1]
      BY <3>2, RingAssumption DEF PushBit
    <3>4. \A i \in 1 .. MAXBIT : i <= 1 => i = 1
      BY RingAssumption
    <3> QED
      BY <3>3, <3>4 DEF Agree
  <2> HIDE DEF p2, b2, f
  <2>4. Recovering(x, p2, b2, n + 1)
    <3>1. 1 \in 0 .. x.fNBits
      BY <1>6
    <3>2. n + 1 <= (4 * 1) + 3 + p2
      BY <1>2, <2>2
    <3> QED
      BY <1>6, <2>1, <2>3, <3>1, <3>2 DEF Recovering
  <2> QED
    BY <2>4 DEF p2, b2
<1>7. CASE (StillSearching(d, r, x) \/ GivenUp(d, r, x, PhaseNow(d))) /\ ~Quarteted(x)
  <2>1. n + 1 <= 3 + ((p2 - f) % 4)
    <3>1. CASE StillSearching(d, r, x)
      <4>1. p2 # f /\ n <= 3 + ((p - f) % 4)
        BY <1>4, <3>1 DEF StillSearching, Recovering
      <4>2. (p2 - f) % 4 = ((p - f) % 4) + 1
        BY <1>1, <4>1
      <4> QED
        BY <1>1, <4>1, <4>2
    <3>2. CASE GivenUp(d, r, x, PhaseNow(d))
      <4>1. Quarteted(d) /\ p2 # f /\ PhaseNow(d) = f
        BY <1>4, <3>2 DEF GivenUp, Missed
      <4>2. Since(d) % 4 # p
        BY <1>1, <1>3, <4>1
      <4>3. n <= (Since(d) - f) % 4
        BY <4>1, <4>2 DEF Recovering
      <4>4. n <= 3 /\ (p2 - f) % 4 >= 1
        BY <1>1, <1>2, <4>1, <4>3
      <4> QED
        BY <1>1, <1>2, <4>4
    <3> QED
      BY <1>7, <3>1, <3>2
  <2> HIDE DEF p2, b2, f
  <2>2. Recovering(x, p2, b2, n + 1)
    BY <1>1, <1>7, <2>1 DEF Recovering
  <2> QED
    BY <2>2 DEF p2, b2
<1>8. ASSUME Quarteted(d), Quarteted(x), Since(x) = Since(d) + 1, ~Missed(d, r, PhaseNow(d)),
             Since(d) % 4 # p
      PROVE  Recovering(x, p2, b2, n + 1)
  <2>1. Since(x) % 4 # p2
    BY <1>1, <1>8
  <2>2. Since(x) % 4 # f
    BY <1>1, <1>3, <1>5, <1>8, <2>1
  <2>3. n <= (Since(d) - f) % 4
    BY <1>8 DEF Recovering
  <2>4. (Since(x) - f) % 4 = ((Since(d) - f) % 4) + 1
    BY <1>1, <1>8, <2>2
  <2>5. n + 1 <= (Since(x) - f) % 4
    BY <1>1, <2>3, <2>4
  <2> HIDE DEF p2, b2, f
  <2> QED
    BY <1>1, <1>8, <2>1, <2>5 DEF Recovering
<1>9. CASE /\ NextBit(d, r, x, PhaseNow(d)) /\ Quarteted(x) /\ Since(x) = Since(d) + 1
           /\ Since(x) % 4 = 0
  <2>1. /\ Quarteted(d) /\ ~Missed(d, r, PhaseNow(d))
        /\ x.fNBits = d.fNBits + 1 /\ BitTaken(d, r, x)
    BY <1>9 DEF NextBit, BitTaken
  <2>2. CASE Since(d) % 4 # p
    BY <1>8, <1>9, <2>1, <2>2
  <2>3. CASE Since(d) % 4 = p
    <3>1. Since(x) % 4 = p2 /\ p2 = 0 /\ p = 3 /\ b2 = RanBit30(b)
      BY <1>1, <1>2, <1>9, <2>3 DEF Turned
    <3> HIDE DEF p2, b2
    <3>2. PICK bit \in Bit : bit = b2[1] /\ x.fRingSeed_reported = PushBit(d.fRingSeed_reported, bit)
      BY <1>2, <2>1, <3>1, BitTakenIs DEF p2, b2
    <3>3. PICK k \in 0 .. d.fNBits : Agree(d.fRingSeed_reported, b, k) /\ n <= (4 * k) + 3 + p
      BY <2>1, <2>3 DEF Recovering
    <3>4. k \in Int
      BY <3>3
    <3>5. Agree(x.fRingSeed_reported, b2, k + 1)
      BY <1>1, <3>1, <3>2, <3>3, <3>4, PushAgrees
    <3>6. k + 1 \in 0 .. x.fNBits
      BY <1>1, <2>1, <3>3
    <3>7. n + 1 <= (4 * (k + 1)) + 3 + p2
      BY <3>1, <3>3, <3>4
    <3>8. Recovering(x, p2, b2, n + 1)
      BY <1>9, <3>1, <3>5, <3>6, <3>7 DEF Recovering
    <3> QED
      BY <3>8 DEF p2, b2
  <2> QED
    BY <2>2, <2>3
<1>10. CASE /\ NoBit(d, r, x, PhaseNow(d)) /\ Quarteted(x) /\ Since(x) = Since(d) + 1
            /\ Since(x) % 4 # 0
  <2>1. /\ Quarteted(d) /\ ~Missed(d, r, PhaseNow(d))
        /\ x.fNBits = d.fNBits /\ x.fRingSeed_reported = d.fRingSeed_reported
    BY <1>10 DEF NoBit, SameBits
  <2>2. CASE Since(d) % 4 # p
    BY <1>8, <1>10, <2>1, <2>2
  <2>3. CASE Since(d) % 4 = p
    <3>1. Since(x) % 4 = p2 /\ p2 = p + 1 /\ b2 = b
      BY <1>1, <1>2, <1>10, <2>3 DEF Turned
    <3>2. PICK k \in 0 .. d.fNBits : Agree(d.fRingSeed_reported, b, k) /\ n <= (4 * k) + 3 + p
      BY <2>1, <2>3 DEF Recovering
    <3>3. n + 1 <= (4 * k) + 3 + p2
      BY <1>1, <3>1, <3>2
    <3> HIDE DEF p2, b2
    <3>4. Recovering(x, p2, b2, n + 1)
      BY <1>10, <2>1, <3>1, <3>2, <3>3 DEF Recovering
    <3> QED
      BY <3>4 DEF p2, b2
  <2> QED
    BY <2>2, <2>3
<1> HIDE DEF p2, b2
<1>11. Recovering(x, p2, b2, n + 1)
  BY <1>6, <1>7, <1>9, <1>10, OutcomesAre DEF p2, b2
<1> QED
  BY <1>11 DEF p2, b2

---------------------------------------------------------------------------
(* The handler and its run.                                                *)

LEMMA IndInvInit ==
  ASSUME MAXBIT > 1, HScalerInit
  PROVE  IndInv
<1>1. TypesInv
  BY TypesInit
<1>2. /\ hs.fFirstCycle = -100 /\ hs.fNBits = 0 /\ hs.actualHelicity = 0
      /\ hs.fHaveCycle = [i \in 0 .. 3 |-> FALSE]
  BY DEF HScalerInit, NewScaler
<1>3. ~Quarteted(hs) /\ 0 < MAXBIT
  BY <1>2, RingAssumption DEF Quarteted
<1>4. HandlerInv(hs)
  BY <1>2, <1>3 DEF HandlerInv
<1>5. InStep(hs, PhaseAt(win), beam) /\ Joined(hs)
  BY <1>2, <1>3 DEF InStep, Joined
<1>6. ASSUME setup.Offset \in {0, 3}
      PROVE  Recovering(hs, PhaseAt(win), beam, (win - setup.LastLoss) + 1)
  <2>1. win = 0 /\ setup.LastLoss \in Nat /\ phase0 \in 0 .. 3 /\ hs.fHelicityCycleOffset \in {0, 3}
    BY <1>1, <1>6 DEF HScalerInit, TypesInv, HScalerTypeInvariant, SetupType
  <2>2. PhaseAt(win) \in 0 .. 3
    BY <2>1 DEF PhaseAt
  <2>3. (win - setup.LastLoss) + 1 <= 3 + ((PhaseAt(win) - hs.fHelicityCycleOffset) % 4)
    BY <2>1, <2>2
  <2> QED
    BY <1>3, <2>3 DEF Recovering
<1> QED
  BY <1>1, <1>4, <1>5, <1>6 DEF IndInv

LEMMA IndInvStep ==
  ASSUME MAXBIT > 1, IndInv, [HScalerNext]_hscalerVars
  PROVE  IndInv' /\ (lost = 0 => WholeQuartet)
<1> DEFINE p == PhaseAt(win)
           n == (win - setup.LastLoss) + 1
<1>1. TypesInv'
  BY TypesStep DEF IndInv
<1>2. /\ hs \in ScalerState /\ win \in Nat /\ phase0 \in 0 .. 3 /\ beam \in Seeds /\ lost \in Nat
      /\ setup.LastLoss \in Nat /\ hs.fHelicityCycleOffset = setup.Offset /\ HandlerInv(hs)
  BY DEF IndInv, TypesInv, HScalerTypeInvariant, SetupType
<1>3. p \in 0 .. 3 /\ n \in Int
  BY <1>2, NextWindow
<1>4. ASSUME NEW r, ReadTaken(r) PROVE IndInv' /\ (lost = 0 => WholeQuartet)
  <2>1. /\ r \in Reads /\ hs' \in ScalerState /\ Analysed(hs, r, hs')
        /\ win' = win + 1 /\ beam' = RingAt(win + 1) /\ UNCHANGED <<setup, phase0, lost>>
    BY <1>4 DEF ReadTaken, MoveTo
  <2>2. ReadFrom(hs, r, (p + 1) % 4, Turned(p, beam))
    BY <1>2, <1>4, ReadsAre
  <2>3. PhaseAt(win)' = (p + 1) % 4 /\ beam' = Turned(p, beam) /\ (win - setup.LastLoss)' + 1 = n + 1
    <3>1. PhaseAt(win)' = PhaseAt(win + 1)
      BY <2>1 DEF PhaseAt
    <3>2. (win - setup.LastLoss)' + 1 = n + 1
      BY <1>2, <2>1
    <3> QED
      BY <1>2, <2>1, <3>1, <3>2, NextWindow
  <2> HIDE DEF p, n
  <2>4. HandlerInv(hs')
    BY <1>2, <2>1, HandlerStep
  <2>5. ASSUME lost = 0
        PROVE  /\ InStep(hs', PhaseAt(win)', beam') /\ Joined(hs')
               /\ hs'.fQuartetCount # hs.fQuartetCount => WholeReads(hs')
    <3>1. InStep(hs, p, beam) /\ Joined(hs)
      BY <2>5 DEF IndInv, p
    <3>2. InStep(hs', (p + 1) % 4, Turned(p, beam))
      BY <1>2, <1>3, <2>1, <2>2, <3>1, InStepStep
    <3>3. Joined(hs') /\ (hs'.fQuartetCount # hs.fQuartetCount => WholeReads(hs'))
      BY <1>2, <1>3, <2>1, <2>2, <3>1, JoinedStep
    <3> QED
      BY <2>3, <3>2, <3>3
  <2>6. ASSUME setup'.Offset \in {0, 3}
        PROVE  Recovering(hs', PhaseAt(win)', beam', (win - setup.LastLoss)' + 1)
    <3>1. hs.fHelicityCycleOffset \in {0, 3} /\ Recovering(hs, p, beam, n)
      BY <1>2, <2>1, <2>6 DEF IndInv, p, n
    <3>2. Recovering(hs', (p + 1) % 4, Turned(p, beam), n + 1)
      BY <1>2, <1>3, <2>1, <2>2, <3>1, RecoveringStep
    <3> QED
      BY <2>3, <3>2
  <2>7. lost = 0 => WholeQuartet
    <3>1. ASSUME lost = 0, hs'.fQuartetCount # hs.fQuartetCount PROVE WholeReads(hs')
      BY <2>5, <3>1
    <3> QED
      BY <3>1 DEF WholeReads, WholeQuartet
  <2> QED
    BY <1>1, <2>1, <2>4, <2>5, <2>6, <2>7 DEF IndInv
<1>5. ASSUME LoseRead PROVE IndInv' /\ (lost = 0 => WholeQuartet)
  <2>1. /\ win' = win + 1 /\ beam' = RingAt(win + 1) /\ lost' = lost + 1 /\ win + 1 < setup.LastLoss
        /\ UNCHANGED <<setup, phase0, hs>>
    BY <1>5 DEF LoseRead, MoveTo
  <2>2. PhaseAt(win)' \in 0 .. 3 /\ (win - setup.LastLoss)' + 1 \in Int /\ (win - setup.LastLoss)' + 1 <= 0
    <3>1. PhaseAt(win)' = PhaseAt(win + 1)
      BY <2>1 DEF PhaseAt
    <3>2. PhaseAt(win + 1) \in 0 .. 3
      BY <1>2 DEF PhaseAt
    <3>3. (win - setup.LastLoss)' + 1 = ((win + 1) - setup.LastLoss) + 1
      BY <2>1
    <3> QED
      BY <1>2, <2>1, <3>1, <3>2, <3>3
  <2>3. ASSUME NEW q \in 0 .. 3, NEW m \in Int, m <= 0, hs.fHelicityCycleOffset \in {0, 3}, NEW b
        PROVE  Recovering(hs, q, b, m)
    <3>1. Since(hs) \in Int /\ hs.fNBits \in Nat
      BY <1>2 DEF ScalerState, Since
    <3>2. m <= (Since(hs) - hs.fHelicityCycleOffset) % 4
      BY <2>3, <3>1
    <3>3. m <= 3 + ((q - hs.fHelicityCycleOffset) % 4)
      BY <2>3
    <3>4. 0 \in 0 .. hs.fNBits /\ Agree(hs.fRingSeed_reported, b, 0) /\ m <= (4 * 0) + 3 + q
      <4>1. \A i \in 1 .. MAXBIT : ~(i <= 0)
        BY RingAssumption
      <4> QED
        BY <2>3, <3>1, <4>1 DEF Agree
    <3> QED
      BY <3>2, <3>3, <3>4 DEF Recovering
  <2>4. setup'.Offset \in {0, 3} => Recovering(hs', PhaseAt(win)', beam', (win - setup.LastLoss)' + 1)
    BY <1>2, <2>1, <2>2, <2>3
  <2>5. lost' # 0 /\ WholeQuartet
    BY <1>2, <2>1 DEF WholeQuartet
  <2> QED
    BY <1>1, <1>2, <2>1, <2>4, <2>5 DEF IndInv
<1>6. ASSUME NothingRead PROVE IndInv' /\ (lost = 0 => WholeQuartet)
  <2>1. UNCHANGED <<setup, win, phase0, beam, lost, hs>>
    BY <1>6 DEF NothingRead
  <2>2. PhaseAt(win)' = PhaseAt(win) /\ (win - setup.LastLoss)' + 1 = (win - setup.LastLoss) + 1
    BY <2>1 DEF PhaseAt
  <2>3. WholeQuartet
    BY <2>1 DEF WholeQuartet
  <2> QED
    BY <1>1, <2>1, <2>2, <2>3 DEF IndInv
<1> QED
  BY <1>4, <1>5, <1>6, StepsAre DEF IndInv

\* What IndInv says of the reads.
LEMMA HelicityFollows ==
  ASSUME FirstBitIsForgotten, IndInv
  PROVE  HelicityIsTrue
<1> DEFINE p == PhaseAt(win)
           seed == hs.fRingSeed_reported
<1>1. /\ hs \in ScalerState /\ win \in Nat /\ phase0 \in 0 .. 3 /\ beam \in Seeds
      /\ setup \in HScalerSetups /\ setup.LastLoss \in Nat /\ setup.Offset \in -3 .. 3
      /\ hs.fHelicityCycleOffset = setup.Offset /\ HandlerInv(hs)
  BY DEF IndInv, TypesInv, HScalerTypeInvariant, SetupType
<1>2. /\ p \in 0 .. 3 /\ TrueHelicityAt(win) = HelicityFrom(beam, p)
      /\ seed \in Seeds /\ hs.fNBits \in Nat /\ MAXBIT \in Nat /\ MAXBIT > 1 /\ Since(hs) \in Int
  BY <1>1, NextWindow, NineWindowsOn, RingAssumption DEF ScalerState, Since, FirstBitIsForgotten
<1>3. hs.fNBits >= MAXBIT => Quarteted(hs) /\ hs.actualHelicity = HelicityFrom(seed, Since(hs) % 4)
  BY <1>1, <1>2 DEF HandlerInv
<1>4. hs.fNBits < MAXBIT => hs.actualHelicity = 0
  BY <1>1, <1>2 DEF HandlerInv
<1>5. ASSUME lost = 0, hs.fNBits >= MAXBIT
      PROVE  /\ Since(hs) % 4 = p
             /\ Agree(seed, beam, IF Outer(setup.Offset) THEN hs.fNBits ELSE hs.fNBits - 1)
  BY <1>1, <1>3, <1>5 DEF IndInv, InStep
<1>6. ASSUME NEW k \in Nat, k >= MAXBIT, Agree(seed, beam, k) PROVE seed = beam
  <2>1. Agree(seed, beam, MAXBIT)
    BY <1>2, <1>6 DEF Agree
  <2> QED
    BY <1>1, <1>2, <2>1, SeedsAgree
<1>7. ASSUME lost = 0, hs.fNBits >= MAXBIT, Outer(setup.Offset) PROVE seed = beam
  BY <1>2, <1>5, <1>6, <1>7
<1>8. ReadsAreTrue
  <2>1. SUFFICES ASSUME lost = 0, hs.fNBits >= MAXBIT PROVE HelicityFrom(seed, p) = HelicityFrom(beam, p)
    BY <1>2, <1>3, <1>4, <1>5 DEF ReadsAreTrue
  <2>2. CASE Outer(setup.Offset)
    BY <1>7, <2>1, <2>2
  <2>3. CASE ~Outer(setup.Offset)
    <3>1. {1, 2} \intersect Taps = {}
      BY <1>1, <2>3 DEF FirstBitIsForgotten, Outer
    <3>2. Agree(seed, beam, hs.fNBits - 1)
      BY <1>5, <2>1, <2>3
    <3>3. Agree(seed, beam, MAXBIT - 1)
      BY <1>2, <2>1, <3>2 DEF Agree
    <3>4. \A n \in {2, 3} : RanBits(n, seed)[1] = RanBits(n, beam)[1]
      BY <1>1, <1>2, <3>1, <3>3, OldestIsForgotten
    <3> QED
      BY <3>4 DEF HelicityFrom
  <2> QED
    BY <2>2, <2>3
<1>9. SeedIsTrue
  BY <1>7 DEF SeedIsTrue, Outer
<1>10. RightAgain
  <2>1. SUFFICES ASSUME setup.Offset \in {0, 3}, win >= setup.LastLoss + (4 * (MAXBIT + 2))
                 PROVE  hs.actualHelicity = HelicityFrom(beam, p)
    BY <1>2 DEF RightAgain
  <2> DEFINE n == (win - setup.LastLoss) + 1
  <2>2. Recovering(hs, p, beam, n)
    BY <2>1 DEF IndInv
  <2>3. n \in Int /\ n >= (4 * MAXBIT) + 9
    BY <1>1, <1>2, <2>1
  <2> HIDE DEF n, p
  <2>4. Quarteted(hs)
    BY <1>1, <1>2, <2>1, <2>2, <2>3 DEF Recovering
  <2>5. Since(hs) % 4 = p
    <3>1. (Since(hs) - hs.fHelicityCycleOffset) % 4 <= 3
      BY <1>1, <1>2
    <3> QED
      BY <1>1, <1>2, <2>1, <2>2, <2>3, <2>4, <3>1 DEF Recovering
  <2>6. PICK k \in 0 .. hs.fNBits : Agree(seed, beam, k) /\ n <= (4 * k) + 3 + p
    BY <2>2, <2>4, <2>5 DEF Recovering
  <2>7. k \in Nat /\ k >= MAXBIT /\ hs.fNBits >= MAXBIT
    BY <1>2, <2>3, <2>6
  <2> QED
    BY <1>3, <1>6, <2>5, <2>6, <2>7
<1> QED
  BY <1>8, <1>9, <1>10 DEF HelicityIsTrue

\* While no read is lost a read is given the helicity of its window or none, and the
\* seed that THcHelicity takes for good is the ring's; and once the bits are all from
\* after the last loss the helicities are right again (AnalyzeHelicityScaler, DELAY9).
\* The taps of the source, of which 7 is the first, keep the hypothesis for every offset.
THEOREM HelicitiesAreTrue ==
  ASSUME FirstBitIsForgotten
  PROVE  HScalerSpec => []HelicityIsTrue
<1>1. MAXBIT > 1
  BY DEF FirstBitIsForgotten
<1>2. HScalerInit => IndInv
  BY <1>1, IndInvInit
<1>3. IndInv /\ [HScalerNext]_hscalerVars => IndInv'
  BY <1>1, IndInvStep
<1>4. IndInv => HelicityIsTrue
  BY HelicityFollows
<1> QED
  BY <1>2, <1>3, <1>4, PTL DEF HScalerSpec

\* While no read is lost, a quartet that enters the asymmetries is made of four reads
\* in a row, each with its own time and charge (the fHaveCycle of AnalyzeHelicityScaler).
THEOREM QuartetsAreWhole ==
  ASSUME MAXBIT > 1
  PROVE  HScalerSpec => QuartetIsWholeUnlessLost
<1>1. HScalerInit => IndInv
  BY IndInvInit
<1>2. IndInv /\ [HScalerNext]_hscalerVars => IndInv'
  BY IndInvStep
<1>3. IndInv /\ [HScalerNext]_hscalerVars => [lost = 0 => WholeQuartet]_hscalerVars
  BY IndInvStep
<1> QED
  BY <1>1, <1>2, <1>3, PTL DEF HScalerSpec, QuartetIsWholeUnlessLost
===============================================================================
