----------------------------- MODULE ScalerMap -----------------------------
(***************************************************************************)
(* The map of the scalers and of the variables they fill                   *)
(* (THcScalerEvtHandler.cxx, Init).                                        *)
(*                                                                         *)
(* A map file names variables, each with the slot and the channel it is    *)
(* read from, and scalers, each with the header its data begin with.  When *)
(* the file has been read the variables are given the scalers of their     *)
(* slots, and the scalers the one that has the clock.                      *)
(***************************************************************************)
EXTENDS Integers, SequencesExt

CONSTANTS
  ScalerFiles, \* what may be read: the lines of a file, and whether only the banks count
  Models       \* the scalers that are known by their model

VARIABLES
  setup,
  at,        \* the next line
  scalerloc, \* the variables
  scalers,
  clock,     \* the place of the scaler with the clock, its channel and its frequency
  found,     \* the crates and the modules whose data are looked at
  pc

vars == <<setup, at, scalerloc, scalers, clock, found, pc>>

Init ==
  /\ setup \in ScalerFiles
  /\ at = 1 /\ scalerloc = <<>> /\ scalers = <<>>
  /\ clock = [fNormIdx |-> 0, fClockChan |-> -1, fClockFreq |-> 1]
  /\ found = [fRocSet |-> {}, fModuleSet |-> {}]
  /\ pc = "read"

---------------------------------------------------------------------------
(* The file.  Places are counted from one, and zero is none.               *)

HasLine == pc = "read" /\ at <= Len(setup.lines)
Line == setup.lines[at]

ICOUNT == 1
ICHARGE == 4
ITIME == 5
ICUT == 6

\* its scaler is not known yet: it is given the first for now
AddVars(name, l, ikind) ==
  [name |-> name, slot |-> l.slot, chan |-> l.chan, kind |-> ikind, index |-> 1]

\* counts, charges and times are there a second time, for the time with beam
Variable ==
  /\ HasLine /\ Line.k = "variable" /\ Line.words > 4
  /\ scalerloc' = scalerloc \o <<AddVars(<<Line.name>>, Line, Line.kind)>> \o
       (IF Line.kind \in {ICOUNT, ITIME, ICHARGE}
        THEN <<AddVars(<<Line.name, "Cut">>, Line, ICUT + Line.kind)>> ELSE <<>>)
  /\ at' = at + 1
  /\ UNCHANGED <<setup, scalers, clock, found, pc>>

\* a line has a clock only if it has its channel and its frequency
ClockOf(l) == IF l.words > 8 THEN l.clkchan ELSE -1

\* The scaler of a known model, and the header, which goes to the last scaler there is.
Added(l) ==
  LET new == IF l.model \in Models
             THEN Append(scalers, [slot |-> l.slot, header |-> 0, clock |-> -1, norm |-> 0]) ELSE scalers
      n == Len(new)
  IN  IF n = 0 THEN new
      ELSE [new EXCEPT ![n].header = l.header, ![n].clock = IF ClockOf(l) >= 0 THEN ClockOf(l) ELSE @]

Map ==
  /\ HasLine /\ Line.k = "map" /\ Line.words > 6
  /\ scalers' = Added(Line)
  /\ found' = IF Line.model \notin Models THEN found
              ELSE [fRocSet |-> found.fRocSet \union IF setup.fOnlyBanks THEN {} ELSE {Line.crate},
                    fModuleSet |-> found.fModuleSet \union {Line.model}]
  /\ clock' = [fNormIdx |-> IF ClockOf(Line) >= 0 /\ scalers' # <<>> THEN Len(scalers') ELSE clock.fNormIdx,
               fClockChan |-> IF Line.words > 8 THEN Line.clkchan ELSE clock.fClockChan,
               fClockFreq |-> IF Line.words > 8 THEN Line.clkfreq ELSE clock.fClockFreq]
  /\ at' = at + 1
  /\ UNCHANGED <<setup, scalerloc, pc>>

\* a line that is too short is left out without a word
TooShort ==
  /\ HasLine /\ Line.words <= IF Line.k = "map" THEN 6 ELSE 4
  /\ at' = at + 1
  /\ UNCHANGED <<setup, scalerloc, scalers, clock, found, pc>>

---------------------------------------------------------------------------
(* After the last line.                                                    *)

\* all other scalers are normalised with the one that has the clock
LoadNormScaler ==
  /\ pc = "read" /\ ~HasLine
  /\ scalers' = IF clock.fNormIdx = 0 THEN scalers
                ELSE [i \in DOMAIN scalers |->
                        IF i = clock.fNormIdx THEN scalers[i] ELSE [scalers[i] EXCEPT !.norm = clock.fNormIdx]]
  /\ pc' = "defined"
  /\ UNCHANGED <<setup, at, scalerloc, clock, found>>

\* the last scaler of its slot, and the first of all for a slot without one
IndexOf(v) ==
  LET own == {i \in DOMAIN scalers : scalers[i].slot = v.slot}
  IN  IF own = {} THEN v.index ELSE CHOOSE i \in own : \A j \in own : j <= i

\* Without a scaler the search for slots that are there twice counts to one less than
\* none, without end; a compiler may leave out such a loop.
LinkVariables ==
  /\ pc = "defined"
  /\ pc' \in IF scalers = <<>> THEN {"hang", "linked"} ELSE {"linked"}
  /\ scalerloc' = IF pc' = "hang" THEN scalerloc
                  ELSE [i \in DOMAIN scalerloc |-> [scalerloc[i] EXCEPT !.index = IndexOf(scalerloc[i])]]
  /\ UNCHANGED <<setup, at, scalers, clock, found>>

Next == Variable \/ Map \/ TooShort \/ LoadNormScaler \/ LinkVariables

---------------------------------------------------------------------------

TypeInvariant ==
  /\ at \in 1 .. Len(setup.lines) + 1
  /\ clock.fNormIdx \in 0 .. Len(scalers)
  /\ \A i \in DOMAIN scalers : scalers[i].norm \in 0 .. Len(scalers)
  /\ \A i \in DOMAIN scalerloc : scalerloc[i].index >= 1
  /\ pc \in {"read", "defined", "linked", "hang"}

Whole(k, words) == {n \in DOMAIN setup.lines : setup.lines[n].k = k /\ setup.lines[n].words > words}
Read(n) == setup.lines[n]
Known == {n \in Whole("map", 6) : Read(n).model \in Models}
LastOf(lines) == CHOOSE n \in lines : \A m \in lines : m <= n
\* the next scaler in the file is one that nobody knows
Overwritten(m) == \E u \in Whole("map", 6) \ Known : u > m /\ \A k \in Known : k < u => k <= m

\* A variable, and the one of it with beam, is read from the channel of its line, from the
\* last scaler that the file has in the slot: its data begin with the header of its own
\* line, unless a scaler nobody knows comes next, and it has the clock if no later
\* line has one.
VariablesAreMapped ==
  pc = "linked" =>
    \A n \in Whole("variable", 4) :
      LET own == {m \in Known : Read(m).slot = Read(n).slot}
          m == LastOf(own)
          clocks == {c \in Known : Read(c).words > 8 /\ Read(c).clkchan >= 0}
      IN  own # {} =>
            \E i \in DOMAIN scalerloc :
              LET v == scalerloc[i] IN
                /\ v.name = <<Read(n).name>> /\ v.chan = Read(n).chan /\ v.kind = Read(n).kind
                /\ v.kind \in {1, 4, 5} =>
                     \E j \in DOMAIN scalerloc : scalerloc[j] = [v EXCEPT !.name = Append(@, "Cut"), !.kind = @ + 6]
                /\ scalers[v.index].slot = Read(n).slot
                /\ Overwritten(m) \/ scalers[v.index].header = Read(m).header
                /\ Whole("map", 6) = Known /\ clocks # {} =>
                     /\ clock.fClockChan = Read(LastOf(Whole("map", 8))).clkchan
                     /\ LastOf(clocks) = m => v.index = clock.fNormIdx /\ scalers[v.index].norm = 0
                     /\ LastOf(clocks) # m => scalers[v.index].norm = clock.fNormIdx
=============================================================================
