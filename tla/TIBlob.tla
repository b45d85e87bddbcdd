------------------------------- MODULE TIBlob -------------------------------
(***************************************************************************)
(* The words of a trigger interface (TIBlobModule.cxx).                    *)
(*                                                                         *)
(* A bank holds a block: two block headers, the events, a trailer, and     *)
(* filler words.  LoadBank finds the events, and if there are several the  *)
(* first is loaded at once and the others when LoadNextEvBuffer is called. *)
(* An event has a header, its number, the time if the block has times, and *)
(* up to two optional words.  Of one optional word only its content or a   *)
(* hint of the user tells which it is.                                     *)
(*                                                                         *)
(* Only words of this module's slot are in the banks.                      *)
(***************************************************************************)
EXTENDS Integers, SequencesExt

CONSTANTS
  BlobSetups, \* the banks, with what is lost at their ends, and the hint fWord4Type
  Magic       \* counter bits that look like trigger bits

VARIABLES
  setup,
  now,     \* the number of banks read
  p,       \* the next word of the bank
  evtblk,  \* where the events begin, and the trailer
  rd,      \* ibeg, blksz, fHasTimestamp, fNfill, and index_buffer
  fData,   \* the data that is available of the event loaded last
  got,     \* the events of the bank loaded so far, and the words they were said to have
  pc

vars == <<setup, now, p, evtblk, rd, fData, got, pc>>

kTriggerType == "type"    kTriggerNum == "number"   kTimestamp == "time"
kCounterBits == "counter" kTriggerBits == "bits"

---------------------------------------------------------------------------
(* The banks of the DAQ.  An event is a function of the data it has.       *)

Word(tag, n) == [tag |-> tag, n |-> n, time |-> FALSE]
Optional(e, kind) == IF kind \in DOMAIN e THEN <<Word(kind, e[kind])>> ELSE <<>>
Body(e) ==
  <<Word(kTriggerNum, e[kTriggerNum])>> \o Optional(e, kTimestamp) \o Optional(e, kCounterBits)
    \o Optional(e, kTriggerBits)
\* the header of an event has the number of words after it
EventWords(e) == <<[tag |-> "event", n |-> Len(Body(e)), type |-> e[kTriggerType]]>> \o Body(e)

Block(b) ==
  LET events == FlattenSeq([i \in DOMAIN b.events |-> EventWords(b.events[i])])
  IN  <<Word("header", Len(b.events)), [tag |-> "header 2", n |-> Len(b.events), time |-> b.time]>>
        \o events \o <<Word("trailer", Len(events) + 3)>>
BankWords(b) ==
  LET all == [i \in 1 .. b.garbage |-> Word("garbage", i)] \o Block(b) \o [i \in 1 .. b.fill |-> Word("filler", 0)]
                \o [i \in 1 .. b.trailing |-> Word("garbage", i)]
  IN  SubSeq(all, 1, Len(all) - b.cut)

bank == setup.banks[now]
Words == BankWords(bank)

---------------------------------------------------------------------------

Cleared == [ibeg |-> 0, blksz |-> 0, fHasTimestamp |-> TRUE, fNfill |-> 0, index |-> 0]
NoData == [kind \in {} |-> 0]

Init ==
  /\ setup \in BlobSetups
  /\ now = 0 /\ p = 0 /\ evtblk = <<>> /\ rd = Cleared /\ fData = NoData /\ got = <<>>
  /\ pc = "next"

\* A new bank, after Clear: the headers have to be there.
LoadBank ==
  /\ pc = "next" /\ now < Len(setup.banks)
  /\ now' = now + 1
  /\ LET words == BankWords(setup.banks[now + 1])
         headers == {i \in DOMAIN words : words[i].tag = "header"}
         first == CHOOSE i \in headers : \A j \in headers : i <= j
         ok == Len(words) >= 5 /\ headers # {} /\ first < Len(words) /\ words[first + 1].tag = "header 2"
     IN  IF ok THEN /\ p' = first + 2 /\ pc' = "scan"
                    /\ rd' = [Cleared EXCEPT !.ibeg = first, !.blksz = words[first].n,
                                             !.fHasTimestamp = words[first + 1].time]
         ELSE p' = 0 /\ pc' = "next" /\ rd' = Cleared
  /\ evtblk' = <<>> /\ fData' = NoData /\ got' = <<>>
  /\ UNCHANGED setup

\* the header of the next event
ScanEvent ==
  /\ pc = "scan" /\ Len(evtblk) < rd.blksz /\ p <= Len(Words)
  /\ IF Words[p].tag = "event" /\ Words[p].n >= 1
     THEN evtblk' = Append(evtblk, p) /\ p' = p + Words[p].n + 1 /\ pc' = "scan"
     ELSE pc' = "next" /\ UNCHANGED <<evtblk, p>>
  /\ UNCHANGED <<setup, now, rd, fData, got>>

\* Fewer events than the header says: the bank is not used.
TooFewEvents ==
  /\ pc = "scan" /\ Len(evtblk) < rd.blksz /\ p > Len(Words)
  /\ pc' = "next"
  /\ UNCHANGED <<setup, now, p, evtblk, rd, fData, got>>

\* The place after the last event is taken for the trailer, and is not compared
\* with the length of the bank: after a bank that was cut it is outside.
TrailerOutside ==
  /\ pc = "scan" /\ Len(evtblk) = rd.blksz /\ p > Len(Words)
  /\ pc' = "outside"
  /\ UNCHANGED <<setup, now, p, evtblk, rd, fData, got>>

\* the filler words after the trailer
Fillers(at) ==
  LET others == {i \in at + 1 .. Len(Words) : Words[i].tag # "filler"}
  IN  IF others = {} THEN Len(Words) - at ELSE (CHOOSE i \in others : \A j \in others : i <= j) - at - 1

Trailer ==
  /\ pc = "scan" /\ Len(evtblk) = rd.blksz /\ p <= Len(Words)
  /\ evtblk' = Append(evtblk, p)
  /\ rd' = [rd EXCEPT !.fNfill = Fillers(p)]
  /\ pc' = "events"
  /\ UNCHANGED <<setup, now, p, fData, got>>

---------------------------------------------------------------------------
(* LoadSlot *)

IsTrigBits(w) == w.tag = kTriggerBits \/ w.n = Magic

\* what the words at the end of an event are
OptionalKinds(words) ==
  CASE Len(words) = 2 -> <<kCounterBits, kTriggerBits>>
    [] Len(words) = 1 ->
         IF setup.hint = kTriggerBits \/ (setup.hint = "none" /\ IsTrigBits(words[1]))
         THEN <<kTriggerBits>> ELSE <<kCounterBits>>
    [] OTHER -> <<>>

Loaded(at) ==
  LET n == Words[at].n + 1
      fixed == <<kTriggerNum>> \o (IF rd.fHasTimestamp THEN <<kTimestamp>> ELSE <<>>)
      rest == SubSeq(Words, at + 1 + Len(fixed), at + n - 1)
      kinds == fixed \o OptionalKinds(rest)
  IN  [kind \in {kTriggerType} \union ToSet(kinds) |->
         IF kind = kTriggerType THEN Words[at].type
         ELSE Words[at + (CHOOSE i \in DOMAIN kinds : kinds[i] = kind)].n]

\* An event of more than five words, or without the time it should have, is not loaded.
Usable(n) == n <= 5 /\ ~(n = 2 /\ rd.fHasTimestamp)

\* The next event: with the first the words of the headers are counted, with the
\* last those of the trailer and the fillers.
LoadNextEvBuffer ==
  /\ pc = "events" /\ rd.index + 1 < Len(evtblk)
  /\ LET at == evtblk[rd.index + 1]
         n == Words[at].n + 1
         last == rd.index + 2 = Len(evtblk)
     IN  /\ fData' = IF Usable(n) THEN Loaded(at) ELSE NoData
         /\ got' = Append(got, [data |-> fData',
                                words |-> (IF Usable(n) THEN n ELSE 0) + (IF rd.index = 0 THEN 2 ELSE 0) +
                                          (IF last THEN 1 + rd.fNfill ELSE 0)])
         /\ rd' = [rd EXCEPT !.index = @ + 1]
         /\ pc' = IF last THEN "next" ELSE "events"
  /\ UNCHANGED <<setup, now, p, evtblk>>

Next == LoadBank \/ ScanEvent \/ TooFewEvents \/ TrailerOutside \/ Trailer \/ LoadNextEvBuffer

---------------------------------------------------------------------------

TypeInvariant ==
  /\ now \in 0 .. Len(setup.banks) /\ p \in Nat
  /\ \A i \in 2 .. Len(evtblk) : evtblk[i - 1] < evtblk[i]
  /\ rd.fHasTimestamp \in BOOLEAN /\ rd.index \in 0 .. Len(evtblk)
  /\ DOMAIN fData \subseteq {kTriggerType, kTriggerNum, kTimestamp, kCounterBits, kTriggerBits}
  /\ pc \in {"next", "scan", "events", "outside"}

\* Which optional word an event has is known: by the hint, or because its
\* counter bits are not those that look like trigger bits.
Known(e) ==
  {kCounterBits, kTriggerBits} \subseteq DOMAIN e
    \/ CASE setup.hint = kCounterBits -> kTriggerBits \notin DOMAIN e
         [] setup.hint = kTriggerBits -> kCounterBits \notin DOMAIN e
         [] OTHER -> kCounterBits \in DOMAIN e => e[kCounterBits] # Magic

\* The events of a bank are loaded one by one with what they hold, none twice and
\* none of another bank; the words counted are those of the block and the fillers.
\* A bank that was cut gives no event.
BlocksAreLoaded ==
  pc \in {"next", "events"} /\ now > 0 =>
    /\ Len(got) <= Len(bank.events)
    /\ \A i \in DOMAIN got : Known(bank.events[i]) => got[i].data = bank.events[i]
    /\ pc = "next" /\ (bank.cut = 0 \/ bank.cut <= bank.fill) /\ bank.trailing = 0 =>
         /\ Len(got) = Len(bank.events)
         /\ FoldLeft(LAMBDA n, g : n + g.words, 0, got) = Len(Block(bank)) + bank.fill - bank.cut
    /\ pc = "next" /\ bank.cut > bank.fill + bank.trailing => got = <<>>
=============================================================================
