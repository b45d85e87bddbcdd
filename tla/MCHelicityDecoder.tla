------------------------- MODULE MCHelicityDecoder -------------------------
(***************************************************************************)
(* The setups the decoder is checked with.                                 *)
(***************************************************************************)
EXTENDS HelicityDecoder

\* A run with the QRT flag, a delay of two quartets, every event decoded and
\* no faults; the other setups say in what they differ.
Plain(gap, windows) ==
  [HelDelay |-> 8, HaveQRTSignal |-> TRUE, EventsMissed |-> FALSE, ScalerLags |-> {},
   MaxGap |-> gap, MaxWindow |-> windows, MaxFaults |-> 0, LastFault |-> 0]

\* Windows without events, and the scaler's seed one quartet behind.
MCHealthy == {[Plain(3, 13) EXCEPT !.ScalerLags = {1}]}

\* One wrong flag or report; events Decode never sees; windows without events
\* in a run before the QRT flag was recorded; in-time mode.
MCTroubled ==
  {[Plain(1, 12) EXCEPT !.MaxFaults = 1, !.LastFault = 12],
   [Plain(2, 10) EXCEPT !.EventsMissed = TRUE],
   [Plain(3, 13) EXCEPT !.HaveQRTSignal = FALSE],
   [Plain(1, 8) EXCEPT !.HelDelay = 0, !.MaxFaults = 1, !.LastFault = 8]}

\* A fault in the first twelve windows and time to recover; and the search for
\* the quartets in a run without the QRT flag.
MCSteady ==
  {[Plain(1, 32) EXCEPT !.MaxFaults = 1, !.LastFault = 12],
   [Plain(1, 32) EXCEPT !.HaveQRTSignal = FALSE]}
===========================================================================
