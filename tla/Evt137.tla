------------------------------- MODULE Evt137 -------------------------------
(***************************************************************************)
(* The configuration texts of event type 137 (THcEvt137Handler.cxx).       *)
(*                                                                         *)
(* The text of a crate has a line for each setting: a name and its values. *)
(* A line with the name SlotKey says to which slot the lines from there on *)
(* belong.  A setting is stored under its name, crate and slot; stored     *)
(* again it replaces what was there.  The settings become parameters after *)
(* each text, and are written to a tree at the end.                        *)
(***************************************************************************)
EXTENDS Integers, FiniteSets, Sequences, FiniteSetTheorems, TLAPS

CONSTANTS
  TextSetups, \* the sequences of texts, each with its crate and lines [key, vals], and fMakeParms
  SlotKey,    \* FADC250_SLOT
  NoSlot

VARIABLES
  setup,
  fNDecoded,       \* the texts analysed
  at,              \* the line of the next text that comes next
  slot,
  fConfigDataMap,  \* the settings by name, crate and slot
  fCounter,        \* the lines stored so far
  parms,           \* the parameters defined
  tree             \* the branches written at the end: scalars and arrays

vars == <<setup, fNDecoded, at, slot, fConfigDataMap, fCounter, parms, tree>>

NoSettings == [key \in {} |-> <<>>]

Init ==
  /\ setup \in TextSetups
  /\ fNDecoded = 0 /\ at = 1 /\ slot = NoSlot
  /\ fConfigDataMap = NoSettings /\ fCounter = 0 /\ parms = NoSettings
  /\ tree = [scalars |-> {}, arrays |-> {}, written |-> FALSE]

Text == setup.texts[fNDecoded + 1]
Line == Text.lines[at]
InText == fNDecoded < Len(setup.texts) /\ at <= Len(Text.lines)

\* the slot of a line
SlotOf(s, l) == IF l.key = SlotKey THEN l.vals[1] ELSE s

AnalyzeLine ==
  /\ InText
  /\ slot' = SlotOf(slot, Line)
  /\ LET new_key == <<Line.key, Text.roc, slot'>>
     IN  fConfigDataMap' = [key \in DOMAIN fConfigDataMap \union {new_key} |->
                              IF key = new_key THEN Line.vals ELSE fConfigDataMap[key]]
  /\ fCounter' = fCounter + 1
  /\ at' = at + 1
  /\ UNCHANGED <<setup, fNDecoded, parms, tree>>

\* At the end of the text the parameters are defined anew, all of them: those
\* of settings that were replaced refer to what is gone.
MakeParms ==
  /\ fNDecoded < Len(setup.texts) /\ at > Len(Text.lines)
  /\ parms' = IF setup.fMakeParms THEN fConfigDataMap ELSE parms
  /\ fNDecoded' = fNDecoded + 1 /\ at' = 1 /\ slot' = NoSlot
  /\ UNCHANGED <<setup, fConfigDataMap, fCounter, tree>>

\* The values of the branches are kept in vectors made for fCounter of them.
SaveConfigData ==
  /\ fNDecoded = Len(setup.texts) /\ ~tree.written
  /\ tree' = [scalars |-> {key \in DOMAIN fConfigDataMap : Len(fConfigDataMap[key]) = 1},
              arrays |-> {key \in DOMAIN fConfigDataMap : Len(fConfigDataMap[key]) # 1}, written |-> TRUE]
  /\ UNCHANGED <<setup, fNDecoded, at, slot, fConfigDataMap, fCounter, parms>>

Next == AnalyzeLine \/ MakeParms \/ SaveConfigData

Spec == Init /\ [][Next]_vars

\* The windows are given in ns, and asked for in samples of 4 ns.
Sample(key, crate, s) ==
  IF <<key, crate, s>> \in DOMAIN fConfigDataMap THEN fConfigDataMap[<<key, crate, s>>][1] \div 4 ELSE -1

---------------------------------------------------------------------------

TypeInvariant ==
  /\ fNDecoded \in 0 .. Len(setup.texts) /\ at \in Nat \ {0}
  /\ \A key \in DOMAIN fConfigDataMap : fConfigDataMap[key] \in Seq(Int)
  /\ tree.written \in BOOLEAN

\* the lines read, of the texts done and the text at hand
Read ==
  UNION {{<<t, n>> : n \in 1 .. (IF t <= fNDecoded THEN Len(setup.texts[t].lines) ELSE at - 1)} :
           t \in 1 .. (IF InText \/ at > 1 THEN fNDecoded + 1 ELSE fNDecoded)}
LineOf(p) == setup.texts[p[1]].lines[p[2]]

\* the slot named last in a text of those, up to the line
SlotIn(texts, p) ==
  LET lines == texts[p[1]].lines
      named == {n \in 1 .. p[2] : lines[n].key = SlotKey}
  IN  IF named = {} THEN NoSlot ELSE lines[CHOOSE n \in named : \A m \in named : m <= n].vals[1]
SlotAt(p) == SlotIn(setup.texts, p)
KeyAt(p) == <<LineOf(p).key, setup.texts[p[1]].roc, SlotAt(p)>>
LaterLine(p, q) == p[1] > q[1] \/ (p[1] = q[1] /\ p[2] >= q[2])

\* Each setting has the values of the last line for its name, crate and slot;
\* after a text the parameters are those settings, none of an earlier text left;
\* and the vectors of the tree have room for all of them.
SettingsAreLatest ==
  /\ DOMAIN fConfigDataMap = {KeyAt(p) : p \in Read}
  /\ \A key \in DOMAIN fConfigDataMap :
       LET same == {p \in Read : KeyAt(p) = key}
       IN  \A p \in same : (\A q \in same : LaterLine(p, q)) => fConfigDataMap[key] = LineOf(p).vals
  /\ setup.fMakeParms /\ at = 1 => parms = fConfigDataMap
  /\ Cardinality(tree.scalars) <= fCounter /\ Cardinality(tree.arrays) <= fCounter
---------------------------------------------------------------------------
(* The settings are the latest for all texts.                              *)

\* What is assumed of the texts: they and their lines are finite.
TextsAreLines ==
  \A s \in TextSetups :
    /\ Len(s.texts) \in Nat
    /\ \A t \in 1 .. Len(s.texts) :
         /\ Len(s.texts[t].lines) \in Nat
         /\ \A n \in 1 .. Len(s.texts[t].lines) : s.texts[t].lines[n].vals \in Seq(Int)

\* The invariant: where the analysis is, the slot it has, and that every setting
\* stored was counted.
AtLine ==
  /\ setup \in TextSetups
  /\ fNDecoded \in 0 .. Len(setup.texts)
  /\ at \in Nat \ {0}
  /\ fNDecoded < Len(setup.texts) => at <= Len(Text.lines) + 1
  /\ fNDecoded = Len(setup.texts) => at = 1
  /\ slot = IF at = 1 THEN NoSlot ELSE SlotAt(<<fNDecoded + 1, at - 1>>)

AllCounted ==
  /\ fCounter \in Nat
  /\ IsFiniteSet(DOMAIN fConfigDataMap) /\ Cardinality(DOMAIN fConfigDataMap) <= fCounter
  /\ tree.scalars \in SUBSET DOMAIN fConfigDataMap /\ tree.arrays \in SUBSET DOMAIN fConfigDataMap

IndInv == TypeInvariant /\ SettingsAreLatest /\ AtLine /\ AllCounted

\* The lines read are those of the texts done, and those of the next before the line.
ReadIsBefore ==
  /\ Read \subseteq (1 .. Len(setup.texts)) \X (Nat \ {0})
  /\ \A t \in 1 .. Len(setup.texts), n \in Nat \ {0} :
       <<t, n>> \in Read <=> \/ t <= fNDecoded /\ n <= Len(setup.texts[t].lines)
                             \/ t = fNDecoded + 1 /\ n < at

LEMMA ReadIs == TextsAreLines /\ AtLine => ReadIsBefore
<1> SUFFICES ASSUME TextsAreLines, AtLine PROVE ReadIsBefore
  OBVIOUS
<1>1. /\ Len(setup.texts) \in Nat
      /\ \A t \in 1 .. Len(setup.texts) : Len(setup.texts[t].lines) \in Nat
  BY DEF TextsAreLines, AtLine
<1> DEFINE last == IF InText \/ at > 1 THEN fNDecoded + 1 ELSE fNDecoded
           upTo(t) == IF t <= fNDecoded THEN Len(setup.texts[t].lines) ELSE at - 1
<1>2. last \in Nat /\ last <= Len(setup.texts)
  BY <1>1 DEF AtLine, InText
<1>3. \A t \in 1 .. last : t <= fNDecoded \/ t = fNDecoded + 1
  BY <1>1 DEF AtLine
<1>4. ASSUME NEW t \in 1 .. Len(setup.texts), NEW n \in Nat \ {0}
      PROVE  t \in 1 .. last /\ n \in 1 .. upTo(t)
               <=> \/ t <= fNDecoded /\ n <= Len(setup.texts[t].lines)
                   \/ t = fNDecoded + 1 /\ n < at
  <2>1. fNDecoded \in Nat /\ fNDecoded <= last /\ last <= fNDecoded + 1 /\ at \in Nat \ {0}
    BY <1>1 DEF AtLine
  <2>2. CASE t <= fNDecoded
    BY <1>1, <2>1, <2>2
  <2>3. CASE t = fNDecoded + 1
    <3>1. n < at => last = fNDecoded + 1
      BY <2>1
    <3> QED
      BY <2>1, <2>3, <3>1
  <2>4. CASE t > fNDecoded + 1
    BY <2>1, <2>4
  <2> QED
    BY <2>1, <2>2, <2>3, <2>4
<1>5. Read = UNION {{<<t, n>> : n \in 1 .. upTo(t)} : t \in 1 .. last}
  BY DEF Read
<1>6. \A t \in 1 .. last : upTo(t) \in Int
  BY <1>1, <1>2 DEF AtLine
<1> HIDE DEF last, upTo
<1>7. ASSUME NEW p \in Read
      PROVE  \E t \in 1 .. last : \E n \in 1 .. upTo(t) : p = <<t, n>>
  BY <1>5
<1>8. ASSUME NEW t \in 1 .. last, NEW n \in 1 .. upTo(t)
      PROVE  <<t, n>> \in Read
  BY <1>5
<1>9. Read \subseteq (1 .. Len(setup.texts)) \X (Nat \ {0})
  <2> SUFFICES ASSUME NEW p \in Read PROVE p \in (1 .. Len(setup.texts)) \X (Nat \ {0})
    OBVIOUS
  <2>1. PICK t \in 1 .. last : \E n \in 1 .. upTo(t) : p = <<t, n>>
    BY <1>7
  <2>2. PICK n \in 1 .. upTo(t) : p = <<t, n>>
    BY <2>1
  <2> QED
    BY <1>1, <1>2, <1>6, <2>2
<1>10. ASSUME NEW t \in 1 .. Len(setup.texts), NEW n \in Nat \ {0}
       PROVE  <<t, n>> \in Read <=> t \in 1 .. last /\ n \in 1 .. upTo(t)
  BY <1>7, <1>8
<1> QED
  BY <1>4, <1>9, <1>10 DEF ReadIsBefore

\* The slot of a line: the one it names, or that of the line before it.
LEMMA SlotIs ==
  ASSUME NEW texts, NEW t, NEW n \in Nat \ {0}
  PROVE  SlotIn(texts, <<t, n>>) = SlotOf(IF n = 1 THEN NoSlot ELSE SlotIn(texts, <<t, n - 1>>),
                                          texts[t].lines[n])
<1> DEFINE line == texts[t].lines
           named(k) == {m \in 1 .. k : line[m].key = SlotKey}
           final(k) == CHOOSE m \in named(k) : \A l \in named(k) : l <= m
<1>1. ASSUME NEW k \in Int
      PROVE  SlotIn(texts, <<t, k>>) = IF named(k) = {} THEN NoSlot ELSE line[final(k)].vals[1]
  BY DEF SlotIn
<1>2. CASE line[n].key = SlotKey
  <2>1. n \in named(n) /\ \A m \in named(n) : m \in Int /\ m <= n
    BY <1>2
  <2>2. final(n) = n
    <3>1. final(n) \in named(n) /\ \A l \in named(n) : l <= final(n)
      BY <2>1
    <3> HIDE DEF final, named
    <3> QED
      BY <2>1, <3>1
  <2> QED
    BY <1>1, <1>2, <2>1, <2>2 DEF SlotOf
<1>3. CASE line[n].key # SlotKey
  <2>1. named(n) = named(n - 1)
    BY <1>3
  <2>2. n = 1 => named(n) = {}
    BY <2>1
  <2>3. n \in Int /\ n - 1 \in Int
    OBVIOUS
  <2> HIDE DEF named
  <2>4. final(n) = final(n - 1)
    BY <2>1
  <2> HIDE DEF final, line
  <2>5. SlotIn(texts, <<t, n>>) = SlotIn(texts, <<t, n - 1>>)
    BY <1>1, <2>1, <2>3, <2>4
  <2>6. n = 1 => SlotIn(texts, <<t, n>>) = NoSlot
    BY <1>1, <2>2, <2>3
  <2> USE DEF line
  <2> QED
    BY <1>3, <2>5, <2>6 DEF SlotOf
<1> QED
  BY <1>2, <1>3

LEMMA ReadIsNext == ASSUME TextsAreLines, AtLine' PROVE ReadIsBefore'
BY ReadIs, PTL

\* A line is stored over the earlier lines for its name, crate and slot.
LEMMA LineKeeps ==
  ASSUME TextsAreLines, IndInv, AnalyzeLine
  PROVE  IndInv'
<1> DEFINE r == <<fNDecoded + 1, at>>
<1>1. /\ fNDecoded \in Nat /\ at \in Nat \ {0} /\ Len(setup.texts) \in Nat
      /\ fNDecoded + 1 \in 1 .. Len(setup.texts)
      /\ Len(Text.lines) \in Nat /\ at \in 1 .. Len(Text.lines)
      /\ Line.vals \in Seq(Int) /\ Line = setup.texts[fNDecoded + 1].lines[at]
      /\ setup \in TextSetups
  <2>1. /\ setup \in TextSetups /\ fNDecoded \in 0 .. Len(setup.texts) /\ at \in Nat \ {0}
        /\ fNDecoded < Len(setup.texts) /\ at <= Len(Text.lines)
    BY DEF IndInv, AtLine, AnalyzeLine, InText
  <2>2. Len(setup.texts) \in Nat
    BY <2>1 DEF TextsAreLines
  <2>3. fNDecoded \in Nat /\ fNDecoded + 1 \in 1 .. Len(setup.texts)
    BY <2>1, <2>2
  <2>4. Len(Text.lines) \in Nat
    BY <2>1, <2>3 DEF TextsAreLines, Text
  <2>5. at \in 1 .. Len(Text.lines)
    BY <2>1, <2>4
  <2>6. Line.vals \in Seq(Int) /\ Line = setup.texts[fNDecoded + 1].lines[at]
    BY <2>1, <2>3, <2>5 DEF TextsAreLines, Text, Line
  <2> QED
    BY <2>1, <2>2, <2>3, <2>4, <2>5, <2>6
<1>2. /\ setup' = setup /\ fNDecoded' = fNDecoded /\ at' = at + 1 /\ slot' = SlotOf(slot, Line)
      /\ parms' = parms /\ tree' = tree /\ fCounter' = fCounter + 1
  BY DEF AnalyzeLine
<1>3. slot' = SlotAt(r)
  <2>1. SlotAt(r) = SlotOf(IF at = 1 THEN NoSlot ELSE SlotAt(<<fNDecoded + 1, at - 1>>), Line)
    BY <1>1, SlotIs DEF SlotAt
  <2> QED
    BY <1>2, <2>1 DEF IndInv, AtLine
<1>4. KeyAt(r) = <<Line.key, Text.roc, slot'>> /\ LineOf(r) = Line
  BY <1>3 DEF KeyAt, LineOf, Line, Text
<1>5. \A p : KeyAt(p)' = KeyAt(p) /\ LineOf(p)' = LineOf(p) /\ SlotAt(p)' = SlotAt(p)
  BY <1>2 DEF KeyAt, LineOf, SlotAt
<1>6. AtLine'
  <2>1. Text' = Text
    BY <1>2 DEF Text
  <2>2. fNDecoded' + 1 = fNDecoded + 1 /\ at' - 1 = at /\ at' \in Nat \ {0} /\ at' # 1
    BY <1>1, <1>2
  <2> QED
    BY <1>1, <1>2, <1>3, <2>1, <2>2 DEF AtLine, SlotAt
<1>7. Read' = Read \union {r}
  <2>1. ReadIsBefore
    BY ReadIs DEF IndInv
  <2>2. ReadIsBefore'
    BY <1>6, ReadIsNext
  <2>3. ASSUME NEW t \in 1 .. Len(setup.texts), NEW n \in Nat \ {0}
        PROVE  <<t, n>> \in Read' <=> <<t, n>> \in Read \union {r}
    <3>1. <<t, n>> \in Read <=> \/ t <= fNDecoded /\ n <= Len(setup.texts[t].lines)
                                \/ t = fNDecoded + 1 /\ n < at
      BY <2>1 DEF ReadIsBefore
    <3>2. <<t, n>> \in Read' <=> \/ t <= fNDecoded /\ n <= Len(setup.texts[t].lines)
                                 \/ t = fNDecoded + 1 /\ n < at + 1
      BY <1>2, <2>2 DEF ReadIsBefore
    <3> QED
      BY <1>1, <3>1, <3>2
  <2>4. /\ Read' \subseteq (1 .. Len(setup.texts)) \X (Nat \ {0})
        /\ Read \union {r} \subseteq (1 .. Len(setup.texts)) \X (Nat \ {0})
    BY <1>1, <1>2, <2>1, <2>2 DEF ReadIsBefore
  <2> HIDE DEF r
  <2> QED
    BY <2>3, <2>4
<1>8. \A p \in Read : LaterLine(r, p) /\ ~LaterLine(p, r)
  <2>1. ReadIsBefore
    BY ReadIs DEF IndInv
  <2>2. \A p \in Read : /\ p[1] \in Nat /\ p[2] \in Nat
                        /\ p[1] <= fNDecoded \/ (p[1] = fNDecoded + 1 /\ p[2] < at)
    BY <1>1, <2>1 DEF ReadIsBefore
  <2> QED
    BY <1>1, <2>2 DEF LaterLine
<1> DEFINE map == fConfigDataMap
<1>9. /\ DOMAIN map' = DOMAIN map \union {KeyAt(r)}
      /\ \A key \in DOMAIN map' : map'[key] = IF key = KeyAt(r) THEN Line.vals ELSE map[key]
  BY <1>4 DEF AnalyzeLine
<1>10. DOMAIN map' = {KeyAt(p)' : p \in Read'}
  BY <1>5, <1>7, <1>9 DEF IndInv, SettingsAreLatest
<1> HIDE DEF r
<1>11. ASSUME NEW key \in DOMAIN map', NEW p \in Read', KeyAt(p) = key,
              \A q \in Read' : KeyAt(q) = key => LaterLine(p, q)
       PROVE  map'[key] = LineOf(p).vals
  <2>1. CASE key = KeyAt(r)
    <3>1. p = r
      BY <1>7, <1>8, <1>11, <2>1
    <3> QED
      BY <1>4, <1>9, <2>1, <3>1
  <2>2. CASE key # KeyAt(r)
    <3>1. p \in Read /\ key \in DOMAIN map
      BY <1>7, <1>9, <1>11, <2>2
    <3>2. map[key] = LineOf(p).vals
      BY <1>7, <1>11, <3>1 DEF IndInv, SettingsAreLatest
    <3> QED
      BY <1>9, <2>2, <3>2
  <2> QED
    BY <2>1, <2>2
<1>12. AllCounted'
  <2>1. /\ fCounter \in Nat /\ IsFiniteSet(DOMAIN map) /\ Cardinality(DOMAIN map) <= fCounter
        /\ tree.scalars \in SUBSET DOMAIN map /\ tree.arrays \in SUBSET DOMAIN map
    BY DEF IndInv, AllCounted
  <2>2. /\ IsFiniteSet(DOMAIN map') /\ Cardinality(DOMAIN map) \in Nat
        /\ Cardinality(DOMAIN map') <= Cardinality(DOMAIN map) + 1
        /\ Cardinality(DOMAIN map') \in Nat
    BY <1>9, <2>1, FS_AddElement, FS_CardinalityType
  <2>3. Cardinality(DOMAIN map') <= fCounter'
    BY <1>2, <2>1, <2>2
  <2> QED
    BY <1>2, <1>9, <2>1, <2>2, <2>3 DEF AllCounted
<1>13. Cardinality(tree'.scalars) <= fCounter' /\ Cardinality(tree'.arrays) <= fCounter'
  <2>1. \A T \in SUBSET DOMAIN map' :
          Cardinality(T) <= Cardinality(DOMAIN map') /\ Cardinality(T) \in Nat
    BY <1>12, FS_Subset, FS_CardinalityType DEF AllCounted
  <2> QED
    BY <1>12, <2>1, FS_CardinalityType DEF AllCounted
<1>14. SettingsAreLatest'
  <2>1. at' # 1
    BY <1>1, <1>2
  <2> QED
    BY <1>5, <1>10, <1>11, <1>13, <2>1 DEF SettingsAreLatest, LaterLine
<1>15. TypeInvariant'
  <2>1. \A key \in DOMAIN map' : map'[key] \in Seq(Int)
    BY <1>1, <1>9 DEF IndInv, TypeInvariant
  <2> QED
    BY <1>1, <1>2, <2>1 DEF IndInv, TypeInvariant
<1> QED
  BY <1>6, <1>12, <1>14, <1>15 DEF IndInv

\* The parameters are defined at the end of a text, whose lines were all stored.
LEMMA ParmsKeep ==
  ASSUME TextsAreLines, IndInv, MakeParms
  PROVE  IndInv'
<1>1. /\ setup' = setup /\ fNDecoded' = fNDecoded + 1 /\ at' = 1 /\ slot' = NoSlot
      /\ fConfigDataMap' = fConfigDataMap /\ fCounter' = fCounter /\ tree' = tree
      /\ setup.fMakeParms => parms' = fConfigDataMap
  BY DEF MakeParms
<1>2. /\ Len(setup.texts) \in Nat /\ fNDecoded \in 0 .. Len(setup.texts) - 1
      /\ at \in Nat \ {0} /\ at = Len(setup.texts[fNDecoded + 1].lines) + 1
      /\ \A t \in 1 .. Len(setup.texts) : Len(setup.texts[t].lines) \in Nat
  <2>1. /\ setup \in TextSetups /\ fNDecoded \in 0 .. Len(setup.texts) /\ at \in Nat \ {0}
        /\ fNDecoded < Len(setup.texts) /\ at <= Len(Text.lines) + 1 /\ at > Len(Text.lines)
    BY DEF IndInv, AtLine, MakeParms
  <2>2. /\ Len(setup.texts) \in Nat
        /\ \A t \in 1 .. Len(setup.texts) : Len(setup.texts[t].lines) \in Nat
    BY <2>1 DEF TextsAreLines
  <2>3. fNDecoded + 1 \in 1 .. Len(setup.texts) /\ fNDecoded \in 0 .. Len(setup.texts) - 1
    BY <2>1, <2>2
  <2>4. Len(Text.lines) \in Nat /\ Text = setup.texts[fNDecoded + 1]
    BY <2>2, <2>3 DEF Text
  <2>5. at = Len(Text.lines) + 1
    BY <2>1, <2>4
  <2> QED
    BY <2>1, <2>2, <2>3, <2>4, <2>5
<1>3. AtLine'
  <2>1. fNDecoded' < Len(setup'.texts) => at' <= Len(Text'.lines) + 1
    <3>1. fNDecoded' < Len(setup.texts) => fNDecoded' + 1 \in 1 .. Len(setup.texts)
      BY <1>1, <1>2
    <3> QED
      BY <1>1, <1>2, <3>1 DEF Text
  <2> QED
    BY <1>1, <1>2, <2>1 DEF IndInv, AtLine
<1>4. Read' = Read
  <2>1. ReadIsBefore
    BY ReadIs DEF IndInv
  <2>2. ReadIsBefore'
    BY <1>3, ReadIsNext
  <2>3. ASSUME NEW t \in 1 .. Len(setup.texts), NEW n \in Nat \ {0}
        PROVE  <<t, n>> \in Read' <=> <<t, n>> \in Read
    <3>1. <<t, n>> \in Read <=> \/ t <= fNDecoded /\ n <= Len(setup.texts[t].lines)
                                \/ t = fNDecoded + 1 /\ n < at
      BY <2>1 DEF ReadIsBefore
    <3>2. <<t, n>> \in Read' <=> \/ t <= fNDecoded + 1 /\ n <= Len(setup.texts[t].lines)
                                 \/ t = fNDecoded + 2 /\ n < 1
      BY <1>1, <1>2, <2>2 DEF ReadIsBefore
    <3>3. Len(setup.texts[t].lines) \in Nat
      BY <1>2
    <3> QED
      BY <1>2, <3>1, <3>2, <3>3
  <2>4. /\ Read' \subseteq (1 .. Len(setup.texts)) \X (Nat \ {0})
        /\ Read \subseteq (1 .. Len(setup.texts)) \X (Nat \ {0})
    BY <1>1, <2>1, <2>2 DEF ReadIsBefore
  <2> DEFINE places == (1 .. Len(setup.texts)) \X (Nat \ {0})
  <2>5. \A p \in places : p \in Read' <=> p \in Read
    BY <2>3
  <2> HIDE DEF places
  <2> QED
    BY <2>4, <2>5 DEF places
<1>5. \A p : KeyAt(p)' = KeyAt(p) /\ LineOf(p)' = LineOf(p)
  BY <1>1 DEF KeyAt, LineOf, SlotAt
<1>6. SettingsAreLatest'
  BY <1>1, <1>4, <1>5 DEF IndInv, SettingsAreLatest, LaterLine
<1> QED
  BY <1>1, <1>2, <1>3, <1>6 DEF IndInv, TypeInvariant, AllCounted

\* What is written to the tree is stored, so that there was room for it.
LEMMA SaveKeeps ==
  ASSUME TextsAreLines, IndInv, SaveConfigData
  PROVE  IndInv'
<1>1. /\ setup' = setup /\ fNDecoded' = fNDecoded /\ at' = at /\ slot' = slot
      /\ fConfigDataMap' = fConfigDataMap /\ fCounter' = fCounter /\ parms' = parms
      /\ tree'.scalars \in SUBSET DOMAIN fConfigDataMap
      /\ tree'.arrays \in SUBSET DOMAIN fConfigDataMap
      /\ tree'.written \in BOOLEAN
  BY DEF SaveConfigData
<1>2. \A T \in SUBSET DOMAIN fConfigDataMap : Cardinality(T) <= fCounter
  <2>1. \A T \in SUBSET DOMAIN fConfigDataMap :
          Cardinality(T) <= Cardinality(DOMAIN fConfigDataMap) /\ Cardinality(T) \in Nat
    BY FS_Subset, FS_CardinalityType DEF IndInv, AllCounted
  <2> QED
    BY <2>1, FS_CardinalityType DEF IndInv, AllCounted
<1>3. AtLine' /\ Read' = Read
  BY <1>1 DEF IndInv, AtLine, Text, SlotAt, Read, InText
<1>4. \A p : KeyAt(p)' = KeyAt(p) /\ LineOf(p)' = LineOf(p)
  BY <1>1 DEF KeyAt, LineOf, SlotAt
<1>5. SettingsAreLatest'
  BY <1>1, <1>2, <1>3, <1>4 DEF IndInv, SettingsAreLatest, LaterLine
<1> QED
  BY <1>1, <1>3, <1>5 DEF IndInv, TypeInvariant, AllCounted

LEMMA StartsLatest == ASSUME TextsAreLines, Init PROVE IndInv
<1>1. /\ setup \in TextSetups /\ Len(setup.texts) \in Nat
      /\ fNDecoded = 0 /\ at = 1 /\ slot = NoSlot /\ fCounter = 0
      /\ DOMAIN fConfigDataMap = {} /\ parms = fConfigDataMap
      /\ tree.scalars = {} /\ tree.arrays = {} /\ tree.written \in BOOLEAN
  BY DEF Init, NoSettings, TextsAreLines
<1>2. AtLine
  <2>1. 0 < Len(setup.texts) => 0 + 1 \in 1 .. Len(setup.texts)
    BY <1>1
  <2>2. 0 < Len(setup.texts) => Len(Text.lines) \in Nat
    BY <1>1, <2>1 DEF TextsAreLines, Text
  <2> QED
    BY <1>1, <2>2 DEF AtLine
<1>3. Read = {}
  <2>1. ReadIsBefore
    BY <1>2, ReadIs
  <2>2. ASSUME NEW t \in 1 .. Len(setup.texts), NEW n \in Nat \ {0}
        PROVE  <<t, n>> \notin Read
    <3>1. ~(t <= 0) /\ ~(n < 1)
      BY <1>1
    <3> QED
      BY <1>1, <2>1, <3>1 DEF ReadIsBefore
  <2> QED
    BY <2>1, <2>2 DEF ReadIsBefore
<1>4. IsFiniteSet({}) /\ Cardinality({}) = 0
  BY FS_EmptySet
<1> QED
  BY <1>1, <1>2, <1>3, <1>4 DEF IndInv, TypeInvariant, SettingsAreLatest, AllCounted

\* For all texts, of whatever crates, lines and slots: each setting has the values of
\* the last line for its name, crate and slot, after a text the parameters are those
\* settings, and the vectors of the tree have room for them.
THEOREM SettingsAreTheLatest ==
  ASSUME TextsAreLines
  PROVE  Spec => [](TypeInvariant /\ SettingsAreLatest)
<1>1. Init => IndInv
  BY StartsLatest
<1>2. IndInv /\ [Next]_vars => IndInv'
  <2> SUFFICES ASSUME IndInv, [Next]_vars PROVE IndInv'
    OBVIOUS
  <2>1. CASE AnalyzeLine
    BY <2>1, LineKeeps
  <2>2. CASE MakeParms
    BY <2>2, ParmsKeep
  <2>3. CASE SaveConfigData
    BY <2>3, SaveKeeps
  <2>4. CASE UNCHANGED vars
    <3>1. /\ setup' = setup /\ fNDecoded' = fNDecoded /\ at' = at /\ slot' = slot
          /\ fConfigDataMap' = fConfigDataMap /\ fCounter' = fCounter /\ parms' = parms
          /\ tree' = tree
      BY <2>4 DEF vars
    <3>2. /\ AtLine' /\ Read' = Read
          /\ \A p : KeyAt(p)' = KeyAt(p) /\ LineOf(p)' = LineOf(p)
      BY <3>1 DEF IndInv, AtLine, Text, Read, InText, KeyAt, LineOf, SlotAt
    <3>3. SettingsAreLatest'
      BY <3>1, <3>2 DEF IndInv, SettingsAreLatest, LaterLine
    <3> QED
      BY <3>1, <3>2, <3>3 DEF IndInv, TypeInvariant, AllCounted
  <2> QED
    BY <2>1, <2>2, <2>3, <2>4 DEF Next
<1>3. IndInv => TypeInvariant /\ SettingsAreLatest
  BY DEF IndInv
<1> QED
  BY <1>1, <1>2, <1>3, PTL DEF Spec
=============================================================================
