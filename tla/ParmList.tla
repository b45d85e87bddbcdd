------------------------------ MODULE ParmList ------------------------------
(***************************************************************************)
(* The parameter files of a replay and the values a detector asks for      *)
(* (THcParmList.cxx).                                                      *)
(*                                                                         *)
(* Load reads a file line by line, with the files it includes.  If it      *)
(* reads for a run, a line of numbers in the first file says for which     *)
(* runs the lines after it are.  A line of values goes to the variable     *)
(* named before its "=", or after the values of the line before if it has  *)
(* none; the variable grows, and becomes a double, as needed.              *)
(* LoadParmValues copies what a list of requests names, one by one.        *)
(*                                                                         *)
(* Comments, quotes and white space are left out: a line is a record.      *)
(* Values are in halves, so that a double can lie between two integers.    *)
(***************************************************************************)
EXTENDS Integers, FiniteSetsExt, SequencesExt

CONSTANT ParmSetups \* what may be loaded: run, files and the list of requests

VARIABLES
  setup,
  ifiles,   \* the open files, each with the number of its next line
  log,      \* what was interpreted so far: the line, and the variables before it
  rd,       \* InRunRange, varname, currentindex
  parms,    \* the numerical variables: is it a double, and its values
  TextList, \* the text variables
  got,      \* what LoadParmValues copied, one entry for each request done
  pc

vars == <<setup, ifiles, log, rd, parms, TextList, got, pc>>

NoVars == [n \in {} |-> <<>>]

Init ==
  /\ setup \in ParmSetups
  /\ ifiles = <<[name |-> "top", line |-> 1]>>
  /\ log = <<>>
  /\ rd = [InRunRange |-> setup.run <= 0, varname |-> "", currentindex |-> 0]
  /\ parms = NoVars /\ TextList = NoVars
  /\ got = <<>>
  /\ pc = "load"

---------------------------------------------------------------------------
(* Lines: "include" with a file, "blank", "numbers" with ranges <<a, b>>,  *)
(* "values" with a name or "" and items, "string" with a name and a text.  *)
(* An item is a number of kind "int" or "float", or an expression: the     *)
(* value of a variable, "ref", plus a number.                              *)

TopFile == ifiles[Len(ifiles)]
Lines == setup.files[TopFile.name]
Line == Lines[TopFile.line]
NextLine == [ifiles EXCEPT ![Len(ifiles)].line = @ + 1]

\* a file is at its end: back to the one that included it
EndOfFile ==
  /\ pc = "load" /\ ifiles # <<>> /\ TopFile.line > Len(Lines)
  /\ ifiles' = Front(ifiles)
  /\ pc' = IF Len(ifiles) = 1 THEN "loaded" ELSE "load"
  /\ UNCHANGED <<setup, log, rd, parms, TextList, got>>

HasLine == pc = "load" /\ ifiles # <<>> /\ TopFile.line <= Len(Lines)

\* An include is obeyed for every run; a file that cannot be opened is passed over.
Include ==
  /\ HasLine /\ Line.k = "include"
  /\ ifiles' = IF Line.file \in DOMAIN setup.files
               THEN Append(NextLine, [name |-> Line.file, line |-> 1]) ELSE NextLine
  /\ UNCHANGED <<setup, log, rd, parms, TextList, got, pc>>

\* a line of run numbers: only in the first file, and only for a run
IsRanges == Line.k = "numbers" /\ setup.run > 0 /\ Len(ifiles) = 1

InRange(l) == \E r \in ToSet(l.ranges) : setup.run \in r[1] .. r[2]

RunRanges ==
  /\ HasLine /\ IsRanges
  /\ rd' = [rd EXCEPT !.InRunRange = InRange(Line)]
  /\ ifiles' = NextLine
  /\ UNCHANGED <<setup, log, parms, TextList, got, pc>>

Skip ==
  /\ HasLine
  /\ Line.k = "blank" \/ (Line.k \notin {"include", "blank"} /\ ~IsRanges /\ ~rd.InRunRange)
  /\ ifiles' = NextLine
  /\ UNCHANGED <<setup, log, rd, parms, TextList, got, pc>>

Interpreted == HasLine /\ Line.k \in {"numbers", "values", "string"} /\ ~IsRanges /\ rd.InRunRange

\* a string; the values of a line after it would go to a number of the same name
AddString ==
  /\ Interpreted /\ Line.k = "string"
  /\ rd' = [rd EXCEPT !.varname = Line.name, !.currentindex = 0]
  /\ TextList' = [n \in DOMAIN TextList \union {Line.name} |->
                    IF n = Line.name THEN Line.text ELSE TextList[n]]
  /\ log' = Append(log, [line |-> Line, seen |-> parms])
  /\ ifiles' = NextLine
  /\ UNCHANGED <<setup, parms, got, pc>>

\* A range of runs that stands for values is a difference of two numbers.
Items(l) ==
  IF l.k = "numbers"
  THEN [i \in DOMAIN l.ranges |->
          IF l.ranges[i][1] = l.ranges[i][2] THEN [t |-> "int", v |-> 2 * l.ranges[i][1]]
          ELSE [t |-> "number", v |-> 2 * (l.ranges[i][1] - l.ranges[i][2])]]
  ELSE l.items

\* THaFormula, with the variables known so far; -1 if it names none of them
Eval(item, known) ==
  IF item.t # "ref" THEN item.v
  ELSE IF item.name \in DOMAIN known THEN known[item.name].v[1] + item.v ELSE -2

\* a mutant: a continuation goes to the start
ValueIndex_Start(l) == 0

\* Where the first value of the line goes: a name starts anew.
ValueIndex(l) == IF l.k = "values" /\ l.name # "" THEN 0 ELSE rd.currentindex
VarName(l) == IF l.k = "values" /\ l.name # "" THEN l.name ELSE rd.varname

\* The array is made longer if it has to be; other values stay.
NewValues(old, at, new) ==
  [i \in 1 .. Max({Len(old), at + Len(new)}) |->
     IF i \in at + 1 .. at + Len(new) THEN new[i - at] ELSE old[i]]

AddValues ==
  /\ Interpreted /\ Line.k # "string"
  /\ LET name == VarName(Line)
         at == ValueIndex(Line)
         new == [i \in DOMAIN Items(Line) |-> Eval(Items(Line)[i], parms)]
         float == \E item \in ToSet(Items(Line)) : item.t # "int"
         old == IF name \in DOMAIN parms THEN parms[name] ELSE [double |-> FALSE, v |-> <<>>]
     IN  /\ parms' = [n \in DOMAIN parms \union {name} |->
                        IF n # name THEN parms[n]
                        ELSE [double |-> old.double \/ float, v |-> NewValues(old.v, at, new)]]
         /\ rd' = [rd EXCEPT !.varname = name, !.currentindex = at + Len(new)]
  /\ log' = Append(log, [line |-> Line, seen |-> parms])
  /\ ifiles' = NextLine
  /\ UNCHANGED <<setup, TextList, got, pc>>

---------------------------------------------------------------------------
(* LoadParmValues *)

\* TMath::Nint of a value: half way goes to the even number
Nint(v) == LET up == (v + 1) \div 2 IN  IF v % 2 = 0 THEN v ELSE 2 * (IF up % 2 = 0 THEN up ELSE up - 1)

Copied(parm, q, n) == [i \in 1 .. n |-> IF q.type = "int" /\ parm.double THEN Nint(parm.v[i]) ELSE parm.v[i]]

Request == setup.list[Len(got) + 1]
NElem(q) == IF q.nelem > 1 THEN q.nelem ELSE 1

\* A numerical variable hides a text of its name.
Found ==
  /\ Request.name \in DOMAIN parms
  /\ Request.type # "string"
  /\ Len(parms[Request.name].v) >= NElem(Request)
  /\ got' = Append(got, Copied(parms[Request.name], Request, NElem(Request)))
  /\ pc' = pc

FoundText ==
  /\ Request.name \in DOMAIN TextList \ DOMAIN parms
  /\ Request.type = "string"
  /\ got' = Append(got, TextList[Request.name])
  /\ pc' = pc

\* more elements than there are: the program ends
TooShort ==
  /\ Request.name \in DOMAIN parms
  /\ Request.type # "string"
  /\ Len(parms[Request.name].v) < NElem(Request)
  /\ pc' = "exit" /\ got' = got

\* what is not there, or is of the wrong kind, keeps its value; if it is not
\* optional the requests after it are not looked at.
\* A text asked for as a number is reported, and counts as found.
Missing ==
  /\ Request.name \in DOMAIN parms => Request.type = "string"
  /\ Request.name \notin DOMAIN parms => ~(Request.name \in DOMAIN TextList /\ Request.type = "string")
  /\ IF Request.optional \/ Request.name \in DOMAIN TextList \ DOMAIN parms
     THEN got' = Append(got, <<>>) /\ pc' = pc
     ELSE got' = got /\ pc' = "thrown"

LoadParmValues ==
  /\ pc = "loaded" /\ Len(got) < Len(setup.list)
  /\ Found \/ FoundText \/ TooShort \/ Missing
  /\ UNCHANGED <<setup, ifiles, log, rd, parms, TextList>>

Next == EndOfFile \/ Include \/ RunRanges \/ Skip \/ AddString \/ AddValues \/ LoadParmValues

---------------------------------------------------------------------------

TypeInvariant ==
  /\ \A f \in ToSet(ifiles) : f.name \in DOMAIN setup.files /\ f.line \in 1 .. Len(setup.files[f.name]) + 1
  /\ rd.InRunRange \in BOOLEAN /\ rd.currentindex \in Nat
  /\ \A n \in DOMAIN parms : parms[n].double \in BOOLEAN /\ parms[n].v \in Seq(Int)
  /\ Len(got) <= Len(setup.list)
  /\ pc \in {"load", "loaded", "thrown", "exit"}

(* The lines a run should get, in order, written without reading.          *)

Plain(l) == l.k \in {"values", "string", "numbers"}
Body(f) == SelectSeq(setup.files[f], Plain)
Opens(l) == l.k = "include" /\ l.file \in DOMAIN setup.files
Inner(f) ==
  FlattenSeq([i \in DOMAIN setup.files[f] |->
    LET l == setup.files[f][i]
    IN  IF Opens(l) THEN Body(l.file) ELSE IF Plain(l) THEN <<l>> ELSE <<>>])

\* The line i of the first file is for the run: of the lines of numbers before
\* it the last one names the run.
ForRun(i) ==
  LET ranges == {j \in 1 .. i - 1 : setup.files["top"][j].k = "numbers"}
  IN  setup.run <= 0 \/ (ranges # {} /\ InRange(setup.files["top"][Max(ranges)]))

ForTheRun ==
  FlattenSeq([i \in DOMAIN setup.files["top"] |->
    LET l == setup.files["top"][i]
    IN  IF ~ForRun(i) THEN <<>> ELSE IF Opens(l) THEN Inner(l.file)
        ELSE IF Plain(l) /\ (l.k = "numbers" => setup.run <= 0) THEN <<l>> ELSE <<>>])

(* The variable and the place of each value of the lines interpreted.      *)

Starts(j) == log[j].line.k = "string" \/ (log[j].line.k = "values" /\ log[j].line.name # "")
NameLine(j) == Max({k \in 1 .. j : Starts(k)})
Count(j) == IF log[j].line.k = "string" THEN 0 ELSE Len(Items(log[j].line))
Offset(j) == FoldFunctionOnSet(+, 0, [k \in DOMAIN log |-> Count(k)], NameLine(j) .. j - 1)
Covers(j, n, i) == log[NameLine(j)].line.name = n /\ i - Offset(j) \in 1 .. Count(j)
Covering(n, i) == {j \in DOMAIN log : Covers(j, n, i)}
Of(n) == {j \in DOMAIN log : Count(j) > 0 /\ log[NameLine(j)].line.name = n}

\* What a variable holds is what the lines for the run say: each value is that
\* of the last line that has one for its place, counted from the line with the
\* name, an expression is worked out with the variables as they were then, and
\* one value that is no integer makes all of them doubles.
ParametersAreTheFiles ==
  pc = "loaded" =>
    /\ [j \in DOMAIN log |-> log[j].line] = ForTheRun
    /\ DOMAIN parms = {log[NameLine(j)].line.name : j \in {k \in DOMAIN log : Count(k) > 0}}
    /\ \A n \in DOMAIN parms :
         /\ Len(parms[n].v) = Max({Offset(j) + Count(j) : j \in Of(n)})
         /\ parms[n].double = (\E j \in Of(n) : \E item \in ToSet(Items(log[j].line)) : item.t # "int")
         /\ \A i \in DOMAIN parms[n].v :
              LET j == Max(Covering(n, i))
              IN  parms[n].v[i] = Eval(Items(log[j].line)[i - Offset(j)], log[j].seen)

\* What a request gets is the variable's, to the nearest integer if it asks for
\* integers: never more than half away, and even if half way.
RequestsAreServed ==
  \A k \in DOMAIN got :
    LET q == setup.list[k]
    IN  q.type # "string" /\ q.name \in DOMAIN parms =>
          \A i \in 1 .. NElem(q) :
            LET d == got[k][i] - parms[q.name].v[i]
            IN  IF q.type = "int" THEN got[k][i] % 2 = 0 /\ d \in -1 .. 1 /\ (d # 0 => got[k][i] % 4 = 0)
                ELSE d = 0
=============================================================================
