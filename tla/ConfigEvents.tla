---------------------------- MODULE ConfigEvents ----------------------------
(***************************************************************************)
(* The configuration events of the DAQ (THcConfigEvtHandler.cxx).          *)
(*                                                                         *)
(* At the start of a run each crate sends an event with blocks of words:   *)
(* the set-up of its FADC250s, followed by the thresholds of its slots,    *)
(* of its 1190 TDCs, and of the trigger interface.  Analyze takes block    *)
(* after block, and publishes what the crate has as parameters, which are  *)
(* references to the stored values.  The prescale factors go to the run.   *)
(*                                                                         *)
(* A word is a tag and a number.                                           *)
(***************************************************************************)
EXTENDS Integers, SequencesExt

CONSTANTS
  NTHR, NPS,     \* the numbers of thresholds of a slot and of prescales
  NFadc,         \* the number of values in the block of the FADC250s
  ConfigSetups,  \* the sequences of events, each the blocks of a crate, and the words cut off
  Checked        \* does the build check its assertions?

VARIABLES
  setup,
  now,            \* the event being analysed
  ip,
  fCrateInfoMap,  \* the configuration of each crate that sent an event
  published,      \* the names of the parameters
  ps_factors,     \* Prescales of the run
  pc

vars == <<setup, now, ip, fCrateInfoMap, published, ps_factors, pc>>

---------------------------------------------------------------------------
(* The words of the DAQ                                                    *)

Word(tag, n) == [tag |-> tag, n |-> n]
Data(values) == [i \in DOMAIN values |-> Word("data", values[i])]

\* a version of 0 stands for a word that is none
Version(v) == Word(IF v > 0 THEN "version" ELSE "unknown", v)

\* The trailer of an FADC250 block is one more header of such a block, of level 255.
BlockWords(b) ==
  CASE b.k = "fadc" -> <<Word("fadc", b.level), Version(b.version)>> \o Data(b.values) \o <<Word("fadc", 255)>>
    [] b.k = "thr"  -> <<Word("thr", b.slot)>> \o Data(b.values) \o <<Word("thr end", b.slot)>>
    [] b.k = "caen" -> <<Word("caen", 0), Version(b.version)>> \o Data(b.values) \o <<Word("caen end", 0)>>
    [] b.k = "ti"   -> <<Word("ti", 0), Version(b.version)>> \o Data(b.values) \o <<Word("ti end", 0)>>

AllWords(e) == FlattenSeq([k \in DOMAIN e.blocks |-> BlockWords(e.blocks[k])])
EventWords(e) == SubSeq(AllWords(e), 1, Len(AllWords(e)) - e.cut)

Words == EventWords(setup[now])
roc == setup[now].roc
cinfo == fCrateInfoMap[roc]
GetRawData(i) == Words[i].n

---------------------------------------------------------------------------

NoConfig ==
  [FADC250 |-> [present |-> FALSE, level |-> 0, values |-> <<>>], thresholds |-> [slot \in {} |-> <<>>],
   CAEN1190 |-> [present |-> FALSE, values |-> <<>>],
   TI |-> [present |-> FALSE, nped |-> 0, scaler_period |-> 0, sync_count |-> 0,
           prescales |-> [i \in 1 .. NPS |-> 0], factors |-> [i \in 1 .. NPS |-> 0]]]

Init ==
  /\ setup \in ConfigSetups
  /\ now = 0 /\ ip = 1
  /\ fCrateInfoMap = [c \in {} |-> NoConfig]
  /\ published = {}
  /\ ps_factors = [i \in 1 .. NPS |-> 0]
  /\ pc = "event"

\* a mutant: a new event of a crate replaces all that came before
WithCrate_New(infos, c) == [d \in DOMAIN infos \union {c} |-> IF d = c THEN NoConfig ELSE infos[d]]

\* a crate keeps what it has
WithCrate(infos, c) == [d \in DOMAIN infos \union {c} |-> IF d \in DOMAIN infos THEN infos[d] ELSE NoConfig]

Analyze ==
  /\ pc = "event" /\ now < Len(setup)
  /\ now' = now + 1 /\ ip' = 1 /\ pc' = "blocks"
  /\ fCrateInfoMap' = WithCrate(fCrateInfoMap, setup[now + 1].roc)
  /\ UNCHANGED <<setup, published, ps_factors>>

\* the block at ip, whose last word is at "last"
At(tag) == pc = "blocks" /\ ip <= Len(Words) /\ Words[ip].tag = tag
Values(first, n) == [i \in 1 .. n |-> GetRawData(first + i - 1)]
Keep == UNCHANGED <<setup, now, published, ps_factors>>
GiveUp == ip' = Len(Words) + 1 /\ pc' = "blocks" /\ UNCHANGED fCrateInfoMap

\* The block has 14 words; of an unknown version it is passed over.
DecodeFADC250Config ==
  /\ At("fadc") /\ Keep
  /\ IF ip + NFadc + 2 > Len(Words) THEN GiveUp
     ELSE /\ IF Words[ip + 1].tag = "version"
             THEN fCrateInfoMap' = [fCrateInfoMap EXCEPT ![roc].FADC250 =
                    [present |-> TRUE, level |-> GetRawData(ip), values |-> Values(ip + 2, NFadc)]]
             ELSE UNCHANGED fCrateInfoMap
          /\ ip' = ip + NFadc + 3
          /\ pc' = IF ip' <= Len(Words) /\ Words[ip'].tag = "thr" THEN "thresholds" ELSE "blocks"

\* the thresholds of one slot
Thresholds ==
  /\ pc = "thresholds" /\ Keep
  /\ IF ip + NTHR + 1 > Len(Words) THEN GiveUp
     ELSE /\ fCrateInfoMap' = [fCrateInfoMap EXCEPT ![roc].thresholds =
               [s \in DOMAIN @ \union {GetRawData(ip)} |->
                  IF s = GetRawData(ip) THEN Values(ip + 1, NTHR) ELSE @[s]]]
          /\ ip' = ip + NTHR + 2
          /\ pc' = IF ip' <= Len(Words) /\ Words[ip'].tag = "thr" THEN "thresholds" ELSE "blocks"

DecodeCAEN1190Config ==
  /\ At("caen") /\ Keep
  /\ IF ip + 5 > Len(Words) \/ Words[ip + 1].tag # "version" THEN GiveUp
     ELSE /\ fCrateInfoMap' = [fCrateInfoMap EXCEPT ![roc].CAEN1190 =
               [present |-> TRUE, values |-> Values(ip + 2, 3)]]
          /\ ip' = ip + 6 /\ pc' = pc

\* the factor of a prescale, given as an exponent; -1: the trigger is off
Factor(ps) == IF ps = 0 THEN 1 ELSE IF ps \in 1 .. 16 THEN 2 ^ (ps - 1) + 1 ELSE -1

\* The length is asked for twice, each time one word less than the block has;
\* between the two the number of pedestal events is stored.
TakePrescales(at, period, sync) ==
  LET ps == Values(at, NPS)
  IN  /\ fCrateInfoMap' = [fCrateInfoMap EXCEPT ![roc].TI =
           [present |-> TRUE, nped |-> GetRawData(ip + 2), scaler_period |-> period, sync_count |-> sync,
            prescales |-> ps, factors |-> [i \in 1 .. NPS |-> Factor(ps[i])]]]
      /\ ip' = at + NPS + 1
      /\ pc' = IF at + NPS > Len(Words) /\ Checked THEN "aborted" ELSE "blocks"

DecodeTIConfig ==
  /\ At("ti") /\ Keep
  /\ IF ip + 2 + NPS > Len(Words) \/ Words[ip + 1].tag # "version" THEN GiveUp
     ELSE IF GetRawData(ip + 1) < 2 THEN TakePrescales(ip + 3, 2, -1)
     ELSE IF ip + 3 + 1 + NPS > Len(Words)
     THEN /\ fCrateInfoMap' = [fCrateInfoMap EXCEPT ![roc].TI.present = TRUE, ![roc].TI.nped = GetRawData(ip + 2)]
          /\ ip' = Len(Words) + 1 /\ pc' = pc
     ELSE TakePrescales(ip + 5, GetRawData(ip + 3), GetRawData(ip + 4))

\* any other word ends the event
Unknown == pc = "blocks" /\ ip <= Len(Words) /\ Words[ip].tag \notin {"fadc", "caen", "ti"}

\* Parameters are made for each slot with thresholds, for the TDCs and for the
\* trigger interface, whose names do not say of which crate.
MakeParms ==
  /\ pc = "blocks" /\ (ip > Len(Words) \/ Unknown)
  /\ published' = published
       \union (IF cinfo.FADC250.present THEN {<<"adc", roc, s>> : s \in DOMAIN cinfo.thresholds} ELSE {})
       \union (IF cinfo.CAEN1190.present THEN {<<"tdc", roc, 0>>} ELSE {})
       \union (IF cinfo.TI.present THEN {<<"ti", 0, 0>>} ELSE {})
  /\ ps_factors' = IF cinfo.TI.present THEN cinfo.TI.factors ELSE ps_factors
  /\ pc' = "event"
  /\ UNCHANGED <<setup, now, ip, fCrateInfoMap>>

Next == Analyze \/ DecodeFADC250Config \/ Thresholds \/ DecodeCAEN1190Config \/ DecodeTIConfig \/ MakeParms

\* what detectors ask for: a value of the FADC250s, or -1
GetFadc(crate, i) ==
  IF crate \in DOMAIN fCrateInfoMap /\ fCrateInfoMap[crate].FADC250.present
  THEN fCrateInfoMap[crate].FADC250.values[i] ELSE -1

---------------------------------------------------------------------------

TypeInvariant ==
  /\ now \in 0 .. Len(setup) /\ ip \in 1 .. (IF now = 0 THEN 1 ELSE Len(Words) + 2)
  /\ \A c \in DOMAIN fCrateInfoMap :
       /\ \A s \in DOMAIN fCrateInfoMap[c].thresholds : Len(fCrateInfoMap[c].thresholds[s]) = NTHR
       /\ Len(fCrateInfoMap[c].TI.factors) = NPS
  /\ Len(ps_factors) = NPS
  /\ pc \in {"event", "blocks", "thresholds", "aborted"}

(* The blocks that arrived, told from the blocks and not from the words.   *)

Ends(e, k) == FoldLeft(LAMBDA n, b : n + Len(BlockWords(b)), 0, SubSeq(setup[e].blocks, 1, k))
Whole(e, k) == Ends(e, k) <= Len(AllWords(setup[e])) - setup[e].cut

\* Analyze comes to the block: blocks of thresholds need one of the FADC250s before
\* them, and after an unknown version of the others it gives up.
Reached(e, k) ==
  /\ \A j \in 1 .. k : setup[e].blocks[j].k = "thr" => j > 1 /\ setup[e].blocks[j - 1].k \in {"fadc", "thr"}
  /\ \A j \in 1 .. k - 1 : Whole(e, j) /\ (setup[e].blocks[j].k \in {"caen", "ti"} => setup[e].blocks[j].version > 0)

Blocks == UNION {{<<e, k>> : k \in DOMAIN setup[e].blocks} : e \in 1 .. now}
Later(p, q) == p[1] > q[1] \/ (p[1] = q[1] /\ p[2] > q[2])
Block(p) == setup[p[1]].blocks[p[2]]
Arrived(kind, c, slot) ==
  {p \in Blocks : setup[p[1]].roc = c /\ Block(p).k = kind /\ (kind = "thr" => Block(p).slot = slot) /\
                  (kind # "thr" => Block(p).version > 0) /\ Reached(p[1], p[2]) /\ Whole(p[1], p[2])}
Newest(blocks) == Block(CHOOSE p \in blocks : \A q \in blocks \ {p} : Later(p, q))

\* a block of the trigger interface that was cut, with nothing whole after it
CutTI(c) ==
  \E p \in Blocks : /\ setup[p[1]].roc = c /\ Block(p).k = "ti" /\ Reached(p[1], p[2]) /\ ~Whole(p[1], p[2])
                    /\ \A q \in Arrived("ti", c, 0) : Later(p, q)

\* the factors of a trigger interface: 2^(n - 1) + 1 for n > 0
FactorsOf(b) ==
  LET ps == SubSeq(b.values, Len(b.values) - NPS + 1, Len(b.values))
  IN  [i \in 1 .. NPS |-> CASE ps[i] = 0 -> 1 [] ps[i] = 1 -> 2 [] ps[i] = 2 -> 3 [] ps[i] = 5 -> 17 [] OTHER -> -1]

\* After each event every crate has what its last whole blocks say, a block cut
\* off has changed nothing (but for one of the trigger interface, of which the
\* first value may be stored), the parameters that are published are those of
\* the blocks that came, and the run has the factors of the last interface.
ConfigurationIsSent ==
  pc = "event" =>
    /\ \A c \in DOMAIN fCrateInfoMap :
         LET info == fCrateInfoMap[c]
             fadc == Arrived("fadc", c, 0)
             caen == Arrived("caen", c, 0)
             ti == Arrived("ti", c, 0)
         IN  /\ info.FADC250.present = (fadc # {})
             /\ fadc # {} => info.FADC250.level = Newest(fadc).level /\ info.FADC250.values = Newest(fadc).values
             /\ DOMAIN info.thresholds = {s \in 1 .. 20 : Arrived("thr", c, s) # {}}
             /\ \A s \in DOMAIN info.thresholds : info.thresholds[s] = Newest(Arrived("thr", c, s)).values
             /\ info.CAEN1190.present = (caen # {})
             /\ caen # {} => info.CAEN1190.values = Newest(caen).values
             /\ ti # {} => info.TI.present /\ (~CutTI(c) =>
                  /\ info.TI.factors = FactorsOf(Newest(ti))
                  /\ info.TI.nped = Head(Newest(ti).values)
                  /\ info.TI.sync_count = IF Newest(ti).version < 2 THEN -1 ELSE Newest(ti).values[3])
             /\ info.TI.present => ti # {} \/ CutTI(c)
             /\ (<<"ti", 0, 0>> \in published) <=> \E d \in DOMAIN fCrateInfoMap : fCrateInfoMap[d].TI.present
    /\ \A c \in DOMAIN fCrateInfoMap : \A s \in 1 .. 20 :
         <<"adc", c, s>> \in published <=> GetFadc(c, 1) # -1 /\ Arrived("thr", c, s) # {}
    /\ now > 0 /\ Arrived("ti", roc, 0) # {} /\ ~CutTI(roc) => ps_factors = FactorsOf(Newest(Arrived("ti", roc, 0)))
=============================================================================
