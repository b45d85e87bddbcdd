----------------------------- MODULE DetectorMap -----------------------------
(***************************************************************************)
(* The map from the channels of the DAQ to those of the detectors          *)
(* (THcDetectorMap.cxx).                                                   *)
(*                                                                         *)
(* Load reads a map file: settings, which hold for the lines after them,   *)
(* and channels.  FillMap gives a detector its channels, slot by slot, as  *)
(* ranges of channels that go to consecutive counters.                     *)
(***************************************************************************)
EXTENDS Integers, FiniteSets, SequencesExt

CONSTANT MapSetups \* what may be loaded: the files, one after the other, and the detector asked for

VARIABLES
  setup,
  at,      \* the file being read, and its next line
  rd,      \* the settings in force
  fTable,  \* the channels of the file
  fIDMap,  \* the names of the detectors and their numbers, of all files
  detmap,  \* the ranges given to the detector
  pc

vars == <<setup, at, rd, fTable, fIDMap, detmap, pc>>

NoSettings ==
  [roc |-> 0, slot |-> 0, detector |-> 0, nsubadd |-> 0, bsub |-> 0, model |-> 0,
   refchan |-> -1, refindex |-> -1]

Init ==
  /\ setup \in MapSetups
  /\ at = <<1, 1>> /\ rd = NoSettings
  /\ fTable = <<>> /\ fIDMap = <<>> /\ detmap = <<>>
  /\ pc = "load"

---------------------------------------------------------------------------
(* Load.  A line is an "id" of a detector in a comment, a setting by its   *)
(* name, with the second value of a slot, or a "channel".                  *)

Line == setup.files[at[1]][at[2]]
HasLine == pc = "load" /\ at[2] <= Len(setup.files[at[1]])
NextLine == <<at[1], at[2] + 1>>

\* names are kept from file to file
NewId ==
  /\ HasLine /\ Line.k = "id"
  /\ fIDMap' = Append(fIDMap, [name |-> Line.name, id |-> Line.id])
  /\ at' = NextLine
  /\ UNCHANGED <<setup, rd, fTable, detmap, pc>>

\* the module a number of channels stands for; a module of 64 by its bit
Model(nsubadd, bsub) ==
  IF nsubadd = 96 THEN 1877
  ELSE IF nsubadd = 64 /\ bsub = 16 THEN 1872
  ELSE IF nsubadd = 64 /\ bsub = 17 THEN 1881 ELSE 0

\* A new detector, roc or slot has no reference time yet, but for one given
\* with the slot.
Set(s, l) ==
  CASE l.k = "detector" -> [s EXCEPT !.detector = l.v, !.refindex = -1, !.refchan = -1]
    [] l.k = "roc" -> [s EXCEPT !.roc = l.v, !.refindex = -1, !.refchan = -1]
    [] l.k = "slot" -> [s EXCEPT !.slot = l.v, !.refindex = -1, !.refchan = l.v2]
    [] OTHER -> [s EXCEPT ![l.k] = l.v]

Setting ==
  /\ HasLine /\ Line.k \notin {"id", "channel"}
  /\ LET s == Set(rd, Line) IN  rd' = [s EXCEPT !.model = Model(s.nsubadd, s.bsub)]
  /\ at' = NextLine
  /\ UNCHANGED <<setup, fTable, fIDMap, detmap, pc>>

NewChannel ==
  /\ HasLine /\ Line.k = "channel"
  /\ fTable' = Append(fTable,
       [roc |-> rd.roc, slot |-> rd.slot, did |-> rd.detector, model |-> rd.model, refchan |-> rd.refchan,
        refindex |-> rd.refindex, channel |-> Line.channel, plane |-> Line.plane,
        counter |-> Line.counter, signal |-> Line.signal])
  /\ at' = NextLine
  /\ UNCHANGED <<setup, rd, fIDMap, detmap, pc>>

\* the next file: the channels are dropped, and the settings
NextFile ==
  /\ pc = "load" /\ ~HasLine
  /\ IF at[1] < Len(setup.files)
     THEN at' = <<at[1] + 1, 1>> /\ rd' = NoSettings /\ fTable' = <<>> /\ pc' = pc
     ELSE pc' = "loaded" /\ UNCHANGED <<at, rd, fTable>>
  /\ UNCHANGED <<setup, fIDMap, detmap>>

---------------------------------------------------------------------------
(* FillMap *)

\* the number of the first entry of the name; a name that is not there has 0
Did ==
  LET named == {i \in DOMAIN fIDMap : fIDMap[i].name = setup.name}
  IN  IF named = {} THEN 0 ELSE fIDMap[CHOOSE i \in named : \A j \in named : i <= j].id

Mine == SelectSeq(fTable, LAMBDA c : c.did = Did)
SameSlot(c, d) == c.roc = d.roc /\ c.slot = d.slot

\* the slots, in the order in which the map names them
Slots == SelectSeq([i \in DOMAIN Mine |-> i], LAMBDA i : \A j \in 1 .. i - 1 : ~SameSlot(Mine[i], Mine[j]))

\* the channels of a slot by their number, those of one number as the map has them
ChannelsOf(i) ==
  LET own == {j \in DOMAIN Mine : SameSlot(Mine[i], Mine[j])}
  IN  [k \in 1 .. Cardinality(own) |->
         Mine[CHOOSE j \in own :
                Cardinality({n \in own : Mine[n].channel < Mine[j].channel \/
                                         (Mine[n].channel = Mine[j].channel /\ n < j)}) = k - 1]]

\* the next channel goes on with the range
Continues(c, d) ==
  /\ d.channel = c.channel + 1 /\ d.counter = c.counter + 1
  /\ d.plane = c.plane /\ d.signal = c.signal
  /\ d.refchan = c.refchan /\ d.refindex = c.refindex

\* a range from the channels i to j of a slot, of the model of its first channel
AddModule(list, i, j, model) ==
  [roc |-> list[i].roc, slot |-> list[i].slot, lo |-> list[i].channel, hi |-> list[j].channel,
   first |-> list[i].counter, model |-> model, refindex |-> list[j].refindex,
   refchan |-> list[j].refchan, plane |-> list[j].plane, signal |-> list[j].signal]

Grouped(list, model) ==
  LET starts == SelectSeq([i \in DOMAIN list |-> i], LAMBDA i : i = 1 \/ ~Continues(list[i - 1], list[i]))
  IN  [g \in DOMAIN starts |->
         AddModule(list, starts[g], IF g = Len(starts) THEN Len(list) ELSE starts[g + 1] - 1, model)]

FillMap ==
  /\ pc = "loaded"
  /\ detmap' = FlattenSeq([g \in DOMAIN Slots |-> Grouped(ChannelsOf(Slots[g]), Mine[Slots[g]].model)])
  /\ pc' = "filled"
  /\ UNCHANGED <<setup, at, rd, fTable, fIDMap>>

Next == NewId \/ Setting \/ NewChannel \/ NextFile \/ FillMap

---------------------------------------------------------------------------

TypeInvariant ==
  /\ at[1] \in DOMAIN setup.files /\ at[2] \in 1 .. Len(setup.files[at[1]]) + 1
  /\ rd.model \in {0, 1872, 1877, 1881} /\ rd.refchan \in Int /\ rd.refindex \in Int
  /\ Len(fTable) < at[2]
  /\ \A i \in DOMAIN detmap : detmap[i].lo <= detmap[i].hi
  /\ pc \in {"load", "loaded", "filled"}

(* What the last file says of the channel in its line n.                   *)

LastFile == setup.files[Len(setup.files)]
\* the last line before n that sets a thing, and a value if there is none
Before(n, kinds) == {i \in 1 .. n - 1 : LastFile[i].k \in kinds}
Latest(n, kinds, none) ==
  LET b == Before(n, kinds) IN  IF b = {} THEN none ELSE LastFile[CHOOSE i \in b : \A j \in b : j <= i].v

\* the reference given after the last line that begins a detector, roc or slot
RefOf(n, kind, none) ==
  LET begins == Before(n, {"detector", "roc", "slot"})
      given == {i \in Before(n, {kind}) : \A j \in begins : j < i}
      begin == CHOOSE i \in begins : \A j \in begins : j <= i
  IN  IF given # {} THEN LastFile[CHOOSE i \in given : \A j \in given : j <= i].v
      ELSE IF kind = "refchan" /\ begins # {} /\ LastFile[begin].k = "slot" THEN LastFile[begin].v2 ELSE none

\* the number a detector has in the files
TheId ==
  LET all == FlattenSeq(setup.files)
      named == SelectSeq(all, LAMBDA l : l.k = "id" /\ l.name = setup.name)
  IN  IF named = <<>> THEN 0 ELSE Head(named).id

OfDetector == {n \in DOMAIN LastFile : LastFile[n].k = "channel" /\ Latest(n, {"detector"}, 0) = TheId}

\* a channel of a range is the one in line n
IsChannel(m, c, n) ==
  LET l == LastFile[n]
  IN  /\ c = l.channel /\ m.first + (c - m.lo) = l.counter /\ m.plane = l.plane /\ m.signal = l.signal
      /\ m.roc = Latest(n, {"roc"}, 0) /\ m.slot = Latest(n, {"slot"}, 0)
      /\ m.refchan = RefOf(n, "refchan", -1) /\ m.refindex = RefOf(n, "refindex", -1)

\* The detector gets its channels and no others, each once, to the plane, the
\* counter and the signal of its line, with the reference that holds for it:
\* neither the settings nor the ranges mix channels up.
ChannelsAreMapped ==
  pc = "filled" =>
    /\ \A n \in OfDetector : \E i \in DOMAIN detmap : \E c \in detmap[i].lo .. detmap[i].hi :
         IsChannel(detmap[i], c, n)
    /\ \A i \in DOMAIN detmap : \A c \in detmap[i].lo .. detmap[i].hi :
         \E n \in OfDetector : IsChannel(detmap[i], c, n)
    /\ FoldLeft(LAMBDA sum, m : sum + m.hi - m.lo + 1, 0, detmap) = Cardinality(OfDetector)
=============================================================================
