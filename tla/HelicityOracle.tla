--------------------------- MODULE HelicityOracle ---------------------------
(***************************************************************************)
(* What the helicity decoder promises the analyses that use it.  It may    *)
(* say nothing about the first events, but it never lies; from the event   *)
(* on that completes its calibration it answers each event outside of the  *)
(* settling time with the sign of the beam at that event, and it never     *)
(* loses the calibration.                                                  *)
(***************************************************************************)
EXTENDS Integers

VARIABLES
  sign,      \* the sign of the beam at the current event
  settling,  \* whether the event falls in the settling time of its window
  locked,    \* whether the decoder is calibrated
  answer     \* the helicity given to the event: -1, 1, or 0 for unknown

vars == <<sign, settling, locked, answer>>

Unknown == 0
Signs == {-1, 1}

Init ==
  /\ sign \in Signs /\ settling \in BOOLEAN
  /\ ~locked /\ answer = Unknown

\* Not calibrated: the event may complete the calibration, but gets no answer.
Search ==
  /\ ~locked
  /\ locked' \in BOOLEAN
  /\ answer' = Unknown

Answer ==
  /\ locked
  /\ locked' = locked
  /\ answer' = IF settling' THEN Unknown ELSE sign'

Next ==
  /\ sign' \in Signs /\ settling' \in BOOLEAN
  /\ Search \/ Answer

Spec == Init /\ [][Next]_vars
=============================================================================
