--------------------------- MODULE TimeSyncFilter ---------------------------
(***************************************************************************)
(* THcTimeSyncEvtHandler as a filter: it writes a new data file in which   *)
(* the TDC banks of one crate stand in the events they belong to.  Noise   *)
(* fills the banks of two events; from then on the data of an event is     *)
(* found one event later, until a sync event empties the TDCs.  The        *)
(* handler holds each event back, puts the bank of the next one into it    *)
(* and writes it.                                                          *)
(*                                                                         *)
(* read, prev and slip describe the DAQ; h holds the members of the        *)
(* handler, out the file written.  A bank is the set of the events whose   *)
(* data it holds, whether it is longer than fBadSyncSizeTrigger, and the   *)
(* TDCs in it.                                                             *)
(***************************************************************************)
EXTENDS Integers, Sequences, FiniteSets

CONSTANTS
  Tdcs,         \* the TDCs of the crate fBadROC
  fResync,      \* whether a sync event ends the correction
  NoiseAtSync,  \* whether the noise may begin in a sync event
  MaxEvents,    \* bound: events in the file
  MaxSlips      \* bound: times the noise comes

ASSUME FilterAssumption ==
  /\ Tdcs # {} /\ {fResync, NoiseAtSync} \subseteq BOOLEAN
  /\ MaxEvents \in Nat /\ MaxSlips \in Nat

VARIABLES
  read,   \* number of events read
  prev,   \* the last physics event read, 0 before the first
  slip,   \* what the TDCs are: "aligned", "noisy", or "late" by one event
  noisy,  \* the events in which noise began
  closed, \* whether the file was read to its end
  h, out

filterVars == <<read, prev, slip, noisy, closed, h, out>>

NoBank == [of |-> {0}, large |-> FALSE, tdcs |-> {}]
Banks == [of : SUBSET (1 .. MaxEvents), large : BOOLEAN, tdcs : SUBSET Tdcs]
NoEvent == [id |-> 0, other |-> FALSE, bank |-> NoBank]

---------------------------------------------------------------------------
(* The data acquisition.                                                   *)

\* A large bank with TDCs missing is the sign of noise; the first bank of the
\* file has all TDCs.
Ordinary(of) ==
  {b \in [of : {of}, large : BOOLEAN, tdcs : {Tdcs, {}}] :
     /\ b.tdcs # Tdcs => ~b.large
     /\ h.fFirstTdcCheck => b.tdcs = Tdcs}

Noise(large, tdcs) == [of |-> {}, large |-> large, tdcs |-> tdcs]

\* The banks of an event in which noise begins, and of any other, which may be missing.
NoisyBanks == {Noise(TRUE, tdcs) : tdcs \in (SUBSET Tdcs) \ {{}, Tdcs}}

BanksAfter(sync) ==
  CASE slip = "aligned" -> Ordinary({read + 1})
    [] slip = "noisy" /\ ~sync -> {Noise(large, tdcs) : large \in BOOLEAN, tdcs \in (SUBSET Tdcs) \ {{}}}
    [] slip = "noisy" /\ sync -> Ordinary({read + 1})
    [] slip = "late" /\ ~sync -> Ordinary({prev})
    [] slip = "late" /\ sync -> Ordinary({prev, read + 1})

BanksNow(sync, begins) == IF begins THEN NoisyBanks ELSE {NoBank} \union BanksAfter(sync)

SlipAfter(sync, begins) ==
  CASE sync -> "aligned"
    [] ~sync /\ begins -> "noisy"
    [] ~sync /\ ~begins /\ slip = "aligned" -> "aligned"
    [] OTHER -> "late"

---------------------------------------------------------------------------
(* THcTimeSyncEvtHandler::Analyze.                                         *)

\* AllTdcsPresent: the first bank tells which TDCs there are.  It returns zero
\* when all of them are present.
TdcsMissing(d, b) == ~d.fFirstTdcCheck /\ b.tdcs # d.fTdcMask

\* Mutant: the size of the bank does not matter.
CheckBank_AnySize(d, b) ==
  IF b = NoBank THEN d
  ELSE [d EXCEPT !.fFirstTdcCheck = FALSE,
                 !.fTdcMask = IF d.fFirstTdcCheck THEN b.tdcs ELSE @,
                 !.fSlippage = IF TdcsMissing(d, b) THEN 1 ELSE @]

\* The bank of fBadROC: a large one with TDCs missing begins the correction.
CheckBank(d, b) ==
  IF b = NoBank THEN d
  ELSE [d EXCEPT !.fFirstTdcCheck = FALSE,
                 !.fTdcMask = IF d.fFirstTdcCheck THEN b.tdcs ELSE @,
                 !.fSlippage = IF TdcsMissing(d, b) /\ b.large THEN 1 ELSE @]

\* The event held back, with the bank of the present one.
Corrected(d, b) ==
  [d.fLastEvent EXCEPT !.bank = IF @ = NoBank THEN NoBank ELSE b]

\* Correcting: a sync event is written too, and the correction ends.
WriteDelayed(d, e, sync) ==
  IF sync /\ fResync
  THEN /\ out' = out \o <<Corrected(d, e.bank), e>>
       /\ h' = [d EXCEPT !.fSlippage = 0, !.fLastEvent = NoEvent]
  ELSE /\ out' = Append(out, Corrected(d, e.bank))
       /\ h' = [d EXCEPT !.fLastEvent = e]

\* A correction without a bank to put in reads through a null pointer.
NullBank(d, e) == d.fLastEvent.bank # NoBank /\ e.bank = NoBank

WriteEvent(d, e, sync) ==
  CASE d.fSlippage = 0 ->
         /\ out' = Append(out, e)
         /\ h' = d
    [] d.fSlippage > 0 /\ d.fLastEvent = NoEvent ->
         /\ UNCHANGED out
         /\ h' = [d EXCEPT !.fLastEvent = e]
    [] d.fSlippage > 0 /\ d.fLastEvent # NoEvent ->
         IF NullBank(d, e) THEN UNCHANGED out /\ h' = [d EXCEPT !.crashed = TRUE]
         ELSE WriteDelayed(d, e, sync)

---------------------------------------------------------------------------

FilterInit ==
  /\ read = 0 /\ prev = 0 /\ slip = "aligned" /\ noisy = {} /\ closed = FALSE
  /\ h = [fSlippage |-> 0, fLastEvent |-> NoEvent, fFirstTdcCheck |-> TRUE,
          fTdcMask |-> {}, crashed |-> FALSE]
  /\ out = <<>>

Reading == ~closed /\ ~h.crashed /\ read < MaxEvents

\* An event of a type the handler checks.
AnalyzeEvent(sync, begins) ==
  /\ Reading
  /\ begins => /\ slip = "aligned" /\ ~h.fFirstTdcCheck
               /\ Cardinality(noisy) < MaxSlips /\ (sync => NoiseAtSync)
  /\ \E b \in BanksNow(sync, begins) :
       WriteEvent(CheckBank(h, b), [id |-> read + 1, other |-> FALSE, bank |-> b], sync)
  /\ slip' = SlipAfter(sync, begins)
  /\ noisy' = IF begins THEN noisy \union {read + 1} ELSE noisy
  /\ read' = read + 1 /\ prev' = read + 1
  /\ UNCHANGED closed

\* An event of another type is copied as it is.
PassThrough ==
  /\ Reading
  /\ out' = Append(out, [id |-> read + 1, other |-> TRUE, bank |-> NoBank])
  /\ read' = read + 1
  /\ UNCHANGED <<prev, slip, noisy, closed, h>>

\* The output file is closed; an event held back is not written.
CloseFile ==
  /\ ~closed /\ ~h.crashed
  /\ closed' = TRUE
  /\ UNCHANGED <<read, prev, slip, noisy, h, out>>

FilterNext ==
  \/ \E sync, begins \in BOOLEAN : AnalyzeEvent(sync, begins)
  \/ PassThrough
  \/ CloseFile

FilterSpec == FilterInit /\ [][FilterNext]_filterVars

---------------------------------------------------------------------------
(* Properties.                                                             *)

FilterTypeInvariant ==
  /\ read \in 0 .. MaxEvents /\ prev \in 0 .. read /\ closed \in BOOLEAN
  /\ slip \in {"aligned", "noisy", "late"} /\ noisy \subseteq 1 .. MaxEvents
  /\ h.fSlippage \in {0, 1} /\ h.fFirstTdcCheck \in BOOLEAN /\ h.fTdcMask \subseteq Tdcs
  /\ h.crashed \in BOOLEAN
  /\ \A e \in {h.fLastEvent} \union {out[i] : i \in DOMAIN out} :
       e.id \in 0 .. read /\ e.bank \in Banks \union {NoBank}

\* Every event in the new file has its own TDC data in its bank (what the file
\* is written for); the event in which noise began lost its data.
OwnData ==
  \A i \in DOMAIN out :
    out[i].bank # NoBank /\ out[i].id \notin noisy => out[i].id \in out[i].bank.of

\* No event is lost or written twice: all but the one held back are in the file,
\* unless a missing bank ended the program.
NoneLost ==
  LET held == IF h.fLastEvent = NoEvent THEN {} ELSE {h.fLastEvent.id}
  IN  h.crashed \/ /\ Len(out) + Cardinality(held) = read
                   /\ {out[i].id : i \in DOMAIN out} \union held = 1 .. read

\* What the corrected file is for: every event, with data of its own (THcTimeSyncEvtHandler).
FileIsCorrected == OwnData /\ NoneLost
===========================================================================
