------------------------- MODULE HelicityRingProofs -------------------------
(***************************************************************************)
(* What holds of the bit ring for every length and every choice of taps.   *)
(***************************************************************************)
EXTENDS HelicityRing, NatLemmas, FiniteSetTheorems

\* ParityOf and the pushes stay in their sets.
LEMMA ParityType ==
  ASSUME NEW n \in Int
  PROVE  Parity(n) \in Bit
BY DEF Parity, Bit

LEMMA PushBitType ==
  ASSUME NEW s \in Seeds, NEW b \in Bit
  PROVE  PushBit(s, b) \in Seeds
BY RingAssumption DEF PushBit, Seeds

LEMMA TapsFinite ==
  ASSUME NEW T \in SUBSET (1 .. MAXBIT)
  PROVE  IsFiniteSet(T) /\ Cardinality(T) \in Nat
<1>1. IsFiniteSet(1 .. MAXBIT)
  BY FS_Interval, RingAssumption
<1>2. IsFiniteSet(T)
  BY <1>1, FS_Subset
<1> QED
  BY <1>2, FS_CardinalityType

LEMMA RanBit30Type ==
  ASSUME NEW s \in Seeds
  PROVE  RanBit30(s) \in Seeds
<1> DEFINE On == {t \in Taps : s[t] = 1}
<1>1. Cardinality(On) \in Nat
  BY TapsFinite, RingAssumption
<1>2. Parity(Cardinality(On)) \in Bit
  BY <1>1, ParityType
<1> QED
  BY <1>2, PushBitType DEF RanBit30

LEMMA PrevSeedType ==
  ASSUME NEW s \in Seeds
  PROVE  PrevSeed(s) \in Seeds
<1> DEFINE Rest == {t \in Taps \ {MAXBIT} : s[t + 1] = 1}
<1>1. Cardinality(Rest) \in Nat
  BY TapsFinite, RingAssumption
<1>2. s[1] + Cardinality(Rest) \in Nat
  BY <1>1, RingAssumption DEF Seeds, Bit
<1>3. Parity(s[1] + Cardinality(Rest)) \in Bit
  BY <1>2, ParityType
<1>4. \A i \in 1 .. MAXBIT : i < MAXBIT => i + 1 \in 1 .. MAXBIT
  BY RingAssumption
<1> QED
  BY <1>3, <1>4 DEF PrevSeed, Seeds

\* One turn of GetSeed30's loop undoes one step of RanBit30: no step of the
\* ring loses information.
THEOREM PrevUndoesRan ==
  ASSUME NEW s \in Seeds
  PROVE  PrevSeed(RanBit30(s)) = s
<1> DEFINE On == {t \in Taps : s[t] = 1}
           Others == {t \in Taps \ {MAXBIT} : s[t] = 1}
           r == RanBit30(s)
<1>1. IsFiniteSet(Others) /\ Cardinality(Others) \in Nat /\ Cardinality(On) \in Nat
  BY TapsFinite, RingAssumption
<1>2. r[1] = Parity(Cardinality(On)) /\ \A i \in 1 .. MAXBIT : i # 1 => r[i] = s[i - 1]
  BY RingAssumption DEF RanBit30, PushBit
<1>3. Cardinality(On) = Cardinality(Others) + s[MAXBIT]
  <2>1. s[MAXBIT] \in {0, 1}
    BY RingAssumption DEF Seeds, Bit
  <2>2. CASE s[MAXBIT] = 1
    <3>1. On = Others \cup {MAXBIT}
      BY <2>2, RingAssumption
    <3>2. MAXBIT \notin Others
      OBVIOUS
    <3> QED
      BY <1>1, <2>2, <3>1, <3>2, FS_AddElement
  <2>3. CASE s[MAXBIT] = 0
    <3>1. On = Others
      BY <2>3
    <3> QED
      BY <1>1, <2>3, <3>1
  <2> QED
    BY <2>1, <2>2, <2>3
<1>4. {t \in Taps \ {MAXBIT} : r[t + 1] = 1} = Others
  <2>1. \A t \in Taps \ {MAXBIT} : t + 1 \in 1 .. MAXBIT /\ t + 1 # 1 /\ (t + 1) - 1 = t
    BY RingAssumption
  <2>2. \A t \in Taps \ {MAXBIT} : r[t + 1] = s[t]
    BY <1>2, <2>1
  <2> QED
    BY <2>2
<1>5. Parity(r[1] + Cardinality(Others)) = s[MAXBIT]
  <2>1. s[MAXBIT] \in {0, 1}
    BY RingAssumption DEF Seeds, Bit
  <2> QED
    BY <1>1, <1>2, <1>3, <2>1 DEF Parity
<1>6. \A i \in 1 .. MAXBIT : i < MAXBIT => r[i + 1] = s[i]
  <2>1. \A i \in 1 .. MAXBIT : i < MAXBIT => i + 1 \in 1 .. MAXBIT /\ i + 1 # 1 /\ (i + 1) - 1 = i
    BY RingAssumption
  <2> QED
    BY <1>2, <2>1
<1>7. \A i \in 1 .. MAXBIT :
        (IF i < MAXBIT THEN r[i + 1]
         ELSE Parity(r[1] + Cardinality({t \in Taps \ {MAXBIT} : r[t + 1] = 1}))) = s[i]
  <2> HIDE DEF r, Others
  <2> QED
    BY <1>4, <1>5, <1>6, RingAssumption
<1>8. PrevSeed(r) = [i \in 1 .. MAXBIT |-> s[i]]
  BY <1>7 DEF PrevSeed
<1> QED
  BY <1>8 DEF Seeds

\* And a step of RanBit30 undoes a turn of GetSeed30's loop: the seed that
\* THcHelicity makes of the scaler's, one quartet behind, is that of the beam.
THEOREM RanUndoesPrev ==
  ASSUME NEW s \in Seeds
  PROVE  RanBit30(PrevSeed(s)) = s
<1> DEFINE p == PrevSeed(s)
           On == {t \in Taps : p[t] = 1}
           Others == {t \in Taps \ {MAXBIT} : p[t] = 1}
           Shifted == {t \in Taps \ {MAXBIT} : s[t + 1] = 1}
<1>1. IsFiniteSet(Others) /\ Cardinality(Others) \in Nat
  BY TapsFinite, RingAssumption
<1>2. /\ p[MAXBIT] = Parity(s[1] + Cardinality(Shifted))
      /\ \A i \in 1 .. MAXBIT : i < MAXBIT => p[i] = s[i + 1]
  BY RingAssumption DEF PrevSeed
<1>3. Others = Shifted
  <2>1. \A t \in Taps \ {MAXBIT} : p[t] = s[t + 1]
    <3>1. \A t \in Taps \ {MAXBIT} : t \in 1 .. MAXBIT /\ t < MAXBIT
      BY RingAssumption
    <3> QED
      BY <1>2, <3>1
  <2> QED
    BY <2>1
<1>4. p[MAXBIT] \in {0, 1} /\ s[1] \in {0, 1}
  BY PrevSeedType, RingAssumption DEF Seeds, Bit
<1>5. Cardinality(On) = Cardinality(Others) + p[MAXBIT]
  <2> HIDE DEF p
  <2>1. CASE p[MAXBIT] = 1
    <3>1. On = Others \cup {MAXBIT} /\ MAXBIT \notin Others
      BY <2>1, RingAssumption
    <3> QED
      BY <1>1, <2>1, <3>1, FS_AddElement
  <2>2. CASE p[MAXBIT] = 0
    <3>1. On = Others
      BY <2>2
    <3> HIDE DEF On, Others
    <3> QED
      BY <1>1, <2>2, <3>1
  <2> QED
    BY <1>4, <2>1, <2>2
<1>6. Parity(Cardinality(On)) = s[1]
  <2> HIDE DEF p, On, Others, Shifted
  <2> QED
    BY <1>1, <1>2, <1>3, <1>4, <1>5 DEF Parity
<1>7. \A i \in 1 .. MAXBIT : i # 1 => p[i - 1] = s[i]
  <2>1. \A i \in 1 .. MAXBIT :
          i # 1 => i - 1 \in 1 .. MAXBIT /\ i - 1 < MAXBIT /\ (i - 1) + 1 = i
    BY RingAssumption
  <2> QED
    BY <1>2, <2>1
<1>8. \A i \in 1 .. MAXBIT : (IF i = 1 THEN Parity(Cardinality(On)) ELSE p[i - 1]) = s[i]
  <2> HIDE DEF p, On
  <2> QED
    BY <1>6, <1>7
<1>9. RanBit30(p) = [i \in 1 .. MAXBIT |-> s[i]]
  BY <1>8 DEF RanBit30, PushBit
<1> QED
  BY <1>9 DEF Seeds

---------------------------------------------------------------------------
(* Advance and Retreat, the iterates.                                      *)

\* Advance is the function its recursive definition describes, and maps seeds
\* to seeds.
THEOREM AdvanceDefined ==
  /\ Advance \in [Nat -> [Seeds -> Seeds]]
  /\ Advance[0] = [s \in Seeds |-> s]
  /\ \A n \in Nat, s \in Seeds : Advance[n + 1][s] = RanBit30(Advance[n][s])
<1> DEFINE f == [s \in Seeds |-> RanBit30(s)]
           Turns(g) == [n \in Nat |-> IF n = 0 THEN [s \in Seeds |-> s]
                                      ELSE [s \in Seeds |-> RanBit30(g[n - 1][s])]]
<1>1. f \in [Seeds -> Seeds]
  BY RanBit30Type
<1>2. PICK g \in [Nat -> [Seeds -> Seeds]] :
        g = [n \in Nat |-> IF n = 0 THEN [s \in Seeds |-> s]
                           ELSE [s \in Seeds |-> f[g[n - 1][s]]]]
  <2> HIDE DEF f
  <2> QED
    BY <1>1, IterationDefined
<1>3. \A n \in Nat, s \in Seeds : n # 0 => f[g[n - 1][s]] = RanBit30(g[n - 1][s])
  <2>1. \A n \in Nat : n # 0 => n - 1 \in Nat
    OBVIOUS
  <2>2. \A n \in Nat, s \in Seeds : g[n][s] \in Seeds
    OBVIOUS
  <2> QED
    BY <2>1, <2>2
<1>4. g = Turns(g)
  <2> HIDE DEF f
  <2>1. ASSUME NEW n \in Nat, n # 0
        PROVE  [s \in Seeds |-> f[g[n - 1][s]]] = [s \in Seeds |-> RanBit30(g[n - 1][s])]
    BY <1>3, <2>1
  <2> QED
    BY <1>2, <2>1
<1>5. Advance = Turns(Advance)
  <2>1. Advance = CHOOSE h : h = Turns(h)
    BY DEF Advance
  <2> HIDE DEF Turns
  <2> QED
    BY <1>4, <2>1
<1>6. Advance[0] = [s \in Seeds |-> s]
  BY <1>5
<1>7. \A n \in Nat : Advance[n + 1] = [s \in Seeds |-> RanBit30(Advance[n][s])]
  <2> SUFFICES ASSUME NEW n \in Nat
               PROVE  Advance[n + 1] = [s \in Seeds |-> RanBit30(Advance[n][s])]
    OBVIOUS
  <2>1. n + 1 \in Nat /\ n + 1 # 0 /\ (n + 1) - 1 = n
    OBVIOUS
  <2>2. Turns(Advance)[n + 1] = [s \in Seeds |-> RanBit30(Advance[n][s])]
    BY <2>1
  <2> HIDE DEF Turns
  <2> QED
    BY <1>5, <2>2
<1> DEFINE T == {n \in Nat : Advance[n] \in [Seeds -> Seeds]}
<1>8. \A n \in Nat : n \in T
  <2>1. 0 \in T
    BY <1>6
  <2>2. ASSUME NEW n \in Nat, n \in T
        PROVE  n + 1 \in T
    <3>1. \A s \in Seeds : Advance[n][s] \in Seeds
      BY <2>2
    <3>2. \A s \in Seeds : RanBit30(Advance[n][s]) \in Seeds
      BY <3>1, RanBit30Type
    <3>3. [s \in Seeds |-> RanBit30(Advance[n][s])] \in [Seeds -> Seeds]
      BY <3>2
    <3>4. Advance[n + 1] \in [Seeds -> Seeds]
      BY <1>7, <3>3
    <3> QED
      BY <3>4
  <2> HIDE DEF T
  <2> QED
    BY <2>1, <2>2, SetInduction
<1>9. Advance = [n \in Nat |-> Advance[n]]
  BY <1>5
<1> HIDE DEF Turns
<1>10. Advance \in [Nat -> [Seeds -> Seeds]]
  BY <1>8, <1>9
<1>11. \A n \in Nat, s \in Seeds : Advance[n + 1][s] = RanBit30(Advance[n][s])
  BY <1>7
<1> QED
  BY <1>6, <1>10, <1>11

\* So is Retreat.
THEOREM RetreatDefined ==
  /\ Retreat \in [Nat -> [Seeds -> Seeds]]
  /\ Retreat[0] = [s \in Seeds |-> s]
  /\ \A n \in Nat, s \in Seeds : Retreat[n + 1][s] = PrevSeed(Retreat[n][s])
<1> DEFINE f == [s \in Seeds |-> PrevSeed(s)]
           Turns(g) == [n \in Nat |-> IF n = 0 THEN [s \in Seeds |-> s]
                                      ELSE [s \in Seeds |-> PrevSeed(g[n - 1][s])]]
<1>1. f \in [Seeds -> Seeds]
  BY PrevSeedType
<1>2. PICK g \in [Nat -> [Seeds -> Seeds]] :
        g = [n \in Nat |-> IF n = 0 THEN [s \in Seeds |-> s]
                           ELSE [s \in Seeds |-> f[g[n - 1][s]]]]
  <2> HIDE DEF f
  <2> QED
    BY <1>1, IterationDefined
<1>3. \A n \in Nat, s \in Seeds : n # 0 => f[g[n - 1][s]] = PrevSeed(g[n - 1][s])
  <2>1. \A n \in Nat : n # 0 => n - 1 \in Nat
    OBVIOUS
  <2>2. \A n \in Nat, s \in Seeds : g[n][s] \in Seeds
    OBVIOUS
  <2> QED
    BY <2>1, <2>2
<1>4. g = Turns(g)
  <2> HIDE DEF f
  <2>1. ASSUME NEW n \in Nat, n # 0
        PROVE  [s \in Seeds |-> f[g[n - 1][s]]] = [s \in Seeds |-> PrevSeed(g[n - 1][s])]
    BY <1>3, <2>1
  <2> QED
    BY <1>2, <2>1
<1>5. Retreat = Turns(Retreat)
  <2>1. Retreat = CHOOSE h : h = Turns(h)
    BY DEF Retreat
  <2> HIDE DEF Turns
  <2> QED
    BY <1>4, <2>1
<1>6. Retreat[0] = [s \in Seeds |-> s]
  BY <1>5
<1>7. \A n \in Nat : Retreat[n + 1] = [s \in Seeds |-> PrevSeed(Retreat[n][s])]
  <2> SUFFICES ASSUME NEW n \in Nat
               PROVE  Retreat[n + 1] = [s \in Seeds |-> PrevSeed(Retreat[n][s])]
    OBVIOUS
  <2>1. n + 1 \in Nat /\ n + 1 # 0 /\ (n + 1) - 1 = n
    OBVIOUS
  <2>2. Turns(Retreat)[n + 1] = [s \in Seeds |-> PrevSeed(Retreat[n][s])]
    BY <2>1
  <2> HIDE DEF Turns
  <2> QED
    BY <1>5, <2>2
<1> DEFINE T == {n \in Nat : Retreat[n] \in [Seeds -> Seeds]}
<1>8. \A n \in Nat : n \in T
  <2>1. 0 \in T
    BY <1>6
  <2>2. ASSUME NEW n \in Nat, n \in T
        PROVE  n + 1 \in T
    <3>1. \A s \in Seeds : Retreat[n][s] \in Seeds
      BY <2>2
    <3>2. \A s \in Seeds : PrevSeed(Retreat[n][s]) \in Seeds
      BY <3>1, PrevSeedType
    <3>3. [s \in Seeds |-> PrevSeed(Retreat[n][s])] \in [Seeds -> Seeds]
      BY <3>2
    <3>4. Retreat[n + 1] \in [Seeds -> Seeds]
      BY <1>7, <3>3
    <3> QED
      BY <3>4
  <2> HIDE DEF T
  <2> QED
    BY <2>1, <2>2, SetInduction
<1>9. Retreat = [n \in Nat |-> Retreat[n]]
  BY <1>5
<1> HIDE DEF Turns
<1>10. Retreat \in [Nat -> [Seeds -> Seeds]]
  BY <1>8, <1>9
<1>11. \A n \in Nat, s \in Seeds : Retreat[n + 1][s] = PrevSeed(Retreat[n][s])
  BY <1>7
<1> QED
  BY <1>6, <1>10, <1>11


\* Advancing by n and then by m is advancing by their sum.
LEMMA AdvanceSum ==
  ASSUME NEW m \in Nat, NEW n \in Nat, NEW s \in Seeds
  PROVE  Advance[m + n][s] = Advance[m][Advance[n][s]]
<1> DEFINE T == {k \in Nat : Advance[k + n][s] = Advance[k][Advance[n][s]]}
<1>1. Advance[n][s] \in Seeds
  BY AdvanceDefined
<1>2. 0 \in T
  BY <1>1, AdvanceDefined
<1>3. ASSUME NEW k \in Nat, k \in T
      PROVE  k + 1 \in T
  <2>1. (k + 1) + n = (k + n) + 1 /\ k + n \in Nat
    OBVIOUS
  <2>2. Advance[(k + n) + 1][s] = RanBit30(Advance[k + n][s])
    BY <2>1, AdvanceDefined
  <2>3. Advance[k + 1][Advance[n][s]] = RanBit30(Advance[k][Advance[n][s]])
    BY <1>1, AdvanceDefined
  <2> QED
    BY <1>3, <2>1, <2>2, <2>3
<1>4. \A k \in Nat : k \in T
  <2> HIDE DEF T
  <2> QED
    BY <1>2, <1>3, SetInduction
<1> QED
  BY <1>4

\* Two advances commute: the rings of the decoder may move on in any order.
THEOREM AdvanceCommutes ==
  ASSUME NEW m \in Nat, NEW n \in Nat, NEW s \in Seeds
  PROVE  Advance[m][Advance[n][s]] = Advance[n][Advance[m][s]]
<1>1. m + n = n + m
  OBVIOUS
<1> QED
  BY <1>1, AdvanceSum

\* The last step may be made first.
LEMMA AdvanceFirst ==
  ASSUME NEW n \in Nat, NEW s \in Seeds
  PROVE  Advance[n + 1][s] = Advance[n][RanBit30(s)]
<1>1. Advance[0 + 1][s] = RanBit30(Advance[0][s])
  BY AdvanceDefined
<1>2. Advance[1][s] = RanBit30(s)
  BY <1>1, AdvanceDefined
<1> QED
  BY <1>2, AdvanceSum

\* However far the ring ran, running it back finds the seed it started from:
\* what GetSeed30 prints is the seed of MAXBIT quartets ago.
THEOREM RetreatUndoesAdvance ==
  ASSUME NEW n \in Nat, NEW s \in Seeds
  PROVE  Retreat[n][Advance[n][s]] = s
<1> DEFINE T == {k \in Nat : \A r \in Seeds : Retreat[k][Advance[k][r]] = r}
<1>1. 0 \in T
  BY AdvanceDefined, RetreatDefined
<1>2. ASSUME NEW k \in Nat, k \in T
      PROVE  k + 1 \in T
  <2> SUFFICES ASSUME NEW r \in Seeds
               PROVE  Retreat[k + 1][Advance[k + 1][r]] = r
    OBVIOUS
  <2>1. RanBit30(r) \in Seeds
    BY RanBit30Type
  <2>2. Advance[k + 1][r] = Advance[k][RanBit30(r)]
    BY AdvanceFirst
  <2>3. Retreat[k][Advance[k + 1][r]] = RanBit30(r)
    BY <1>2, <2>1, <2>2
  <2>4. Advance[k + 1][r] \in Seeds
    BY AdvanceDefined
  <2>5. Retreat[k + 1][Advance[k + 1][r]] = PrevSeed(Retreat[k][Advance[k + 1][r]])
    BY <2>4, RetreatDefined
  <2> QED
    BY <2>3, <2>5, PrevUndoesRan
<1>3. \A k \in Nat : k \in T
  <2> HIDE DEF T
  <2> QED
    BY <1>1, <1>2, SetInduction
<1> QED
  BY <1>3

\* And running on what was run back.
THEOREM AdvanceUndoesRetreat ==
  ASSUME NEW n \in Nat, NEW s \in Seeds
  PROVE  Advance[n][Retreat[n][s]] = s
<1> DEFINE T == {k \in Nat : Advance[k][Retreat[k][s]] = s}
<1>1. 0 \in T
  BY AdvanceDefined, RetreatDefined
<1>2. ASSUME NEW k \in Nat, k \in T
      PROVE  k + 1 \in T
  <2>1. PICK r \in Seeds : r = Retreat[k][s]
    BY RetreatDefined
  <2>2. Retreat[k + 1][s] = PrevSeed(r) /\ PrevSeed(r) \in Seeds
    BY <2>1, RetreatDefined, PrevSeedType
  <2>3. Advance[k + 1][PrevSeed(r)] = Advance[k][r]
    BY <2>2, AdvanceFirst, RanUndoesPrev
  <2> QED
    BY <1>2, <2>1, <2>2, <2>3
<1>3. \A k \in Nat : k \in T
  <2> HIDE DEF T
  <2> QED
    BY <1>1, <1>2, SetInduction
<1> QED
  BY <1>3
=============================================================================
