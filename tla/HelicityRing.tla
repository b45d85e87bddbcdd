--------------------------- MODULE HelicityRing ---------------------------
(***************************************************************************)
(* The pseudo random bit ring of the helicity generator, as THcHelicity    *)
(* and THcHelicityScaler recompute it.  A seed is the last MAXBIT bits of  *)
(* the sequence, bit 1 the newest (the least significant bit of the        *)
(* source's integer).  The source has MAXBIT = 30, Taps = {7, 28, 29, 30}. *)
(***************************************************************************)
EXTENDS Integers, FiniteSets

CONSTANTS
  MAXBIT,   \* fMAXBIT, the number of bits of a seed
  Taps      \* the bit positions whose exclusive or is the next bit

ASSUME RingAssumption ==
  /\ MAXBIT \in Nat \ {0}
  /\ Taps \subseteq 1 .. MAXBIT
  /\ MAXBIT \in Taps

Bit == {0, 1}
Seeds == [1 .. MAXBIT -> Bit]
ZeroSeed == [i \in 1 .. MAXBIT |-> 0]

\* ((seed << 1) | bit) & mask : the oldest bit falls out.
PushBit(seed, bit) ==
  [i \in 1 .. MAXBIT |-> IF i = 1 THEN bit ELSE seed[i - 1]]

Parity(n) == n % 2

RanBit30(seed) ==
  PushBit(seed, Parity(Cardinality({t \in Taps : seed[t] = 1})))

\* One turn of the loop of GetSeed30: the newest bit is dropped and the bit
\* that had fallen out is recovered from the parity it contributed to.
PrevSeed(seed) ==
  [i \in 1 .. MAXBIT |->
     IF i < MAXBIT THEN seed[i + 1]
     ELSE Parity(seed[1] + Cardinality({t \in Taps \ {MAXBIT} : seed[t + 1] = 1}))]

\* n applications of RanBit30, as a function of the seed.
Advance[n \in Nat] ==
  IF n = 0 THEN [s \in Seeds |-> s]
  ELSE [s \in Seeds |-> RanBit30(Advance[n - 1][s])]

\* n applications of PrevSeed; GetSeed30 makes 30 of them.
Retreat[n \in Nat] ==
  IF n = 0 THEN [s \in Seeds |-> s]
  ELSE [s \in Seeds |-> PrevSeed(Retreat[n - 1][s])]

GetSeed30(seed) == Retreat[MAXBIT][seed]
===========================================================================
