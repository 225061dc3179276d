----------------------------- MODULE Statements -----------------------------
(***************************************************************************)
(* The statement parser (sc1.c from statement() to delwhile()) with the     *)
(* table of local symbols (sc2.c): what is generated for the body of a      *)
(* function, and what that code does with the frame of the function.        *)
(*                                                                          *)
(* A body is its syntax tree.  Expressions are leaves: they have a number   *)
(* and the names they read; what they compute is module Expressions.  The   *)
(* parser's global variables are a record, so that a statement is a         *)
(* function from records to records.  Layout warnings, documentation, tags  *)
(* other than "has a destructor" and the dimensions that only the data of   *)
(* an array depends on are left out.                                        *)
(***************************************************************************)
EXTENDS Integers, Sequences, SequencesExt, FiniteSetsExt, Functions

CONSTANTS
  Bodies,      \* the functions
  Values,      \* what an expression can evaluate to; 0 is false
  Decisions,   \* bound: expressions that are evaluated for a decision
  Loops        \* wqTABSZ / wqSIZE: loops that may be active at once

VARIABLES
  body,        \* the function
  c,           \* the parser
  m            \* the machine
vars == <<body, c, m>>

-----------------------------------------------------------------------------
(* The table of local symbols, the latest symbol first.  "slot" says where  *)
(* a variable is: the slot-th cell of the frame, or if it is static or an   *)
(* argument minus its number; "level" is the nesting level of the array a   *)
(* symbol is a dimension of, "compound" its own.                            *)

Argument == [n |-> "p", ident |-> "variable", id |-> 99, slot |-> -99, compound |-> 0, level |-> 0,
             dtor |-> FALSE, cells |-> 1, offset |-> 0, child |-> FALSE, read |-> TRUE,
             written |-> TRUE, defined |-> TRUE]

Parser ==
  [loc |-> <<Argument>>, nest |-> 0, declared |-> 0, wq |-> <<>>, last |-> "none", labels |-> 0,
   rettype |-> {}, says |-> {}, code |-> <<>>, done |-> FALSE]

Emit(p, code) == [p EXCEPT !.code = @ \o code]
Say(p, is, n, id) == IF is THEN [p EXCEPT !.says = @ \cup {<<n, id>>}] ELSE p
Last1(p, st) == [p EXCEPT !.last = st]
Getlabel(p) == [p EXCEPT !.labels = @ + 1]
Setlabel(l) == <<<<"label", l>>>>
Jumplabel(l) == <<<<"jump", l>>>>
Modstk(n) == IF n = 0 THEN <<>> ELSE <<<<"stack", n>>>>
Setstk(n) == <<<<"setstk", n>>>>

(* findloc(): the deepest symbol of that name; 0 if there is none           *)
Findloc(p, n) == SelectInSeq(p.loc, LAMBDA s : s.n = n /\ ~s.child)
Addsym(p, s) == [p EXCEPT !.loc = <<s>> \o @]
Mark(p, k, what) == [p EXCEPT !.loc[k] = IF what = "read" THEN [@ EXCEPT !.read = TRUE] ELSE [@ EXCEPT !.written = TRUE]]

(* The symbols that a loop over the table visits before it finds one of a   *)
(* lower level than it looks for.                                           *)
Visited(loc, Level(_), level) ==
  LET stop == SelectInSeq(loc, LAMBDA s : Level(s) < level) IN
  IF stop = 0 THEN loc ELSE SubSeq(loc, 1, stop - 1)
Get_actual_compound(s) == s.level
Compound_of(s) == s.compound

Delete_symbolsToo(p, level, delete_labels) ==       \* mutant: labels as well
  [p EXCEPT !.loc = SubSeq(@, Len(Visited(@, Get_actual_compound, level)) + 1, Len(@))]
Delete_symbols(p, level, delete_labels) ==
  LET visited == Visited(p.loc, Get_actual_compound, level) IN
  [p EXCEPT !.loc = SelectSeq(visited, LAMBDA s : s.ident = "label" /\ ~delete_labels)
                    \o SubSeq(@, Len(visited) + 1, Len(@))]

(* Where the data of a symbol is, after the tables of addresses             *)
Data(s) == IF s.slot <= 0 THEN s.slot ELSE s.slot - s.offset

IsObject(s) == s.ident \in {"variable", "array"} /\ s.dtor
DestructedAll(p, level) ==                          \* mutant: whatever the level
  SelectSeq(p.loc, IsObject)
Destructed(p, level) == SelectSeq(Visited(p.loc, Compound_of, level), IsObject)
Calls(syms) == [k \in DOMAIN syms |-> <<"destroy", Data(syms[k]), syms[k].cells>>]
Destruction(syms) == IF syms = <<>> THEN <<>> ELSE <<<<"push.pri">>>> \o Calls(syms) \o <<<<"pop.pri">>>>

(* address() marks what it loads as read.                                   *)
Addressed(p, syms) ==
  [p EXCEPT !.loc = [k \in DOMAIN @ |-> IF @[k] \in Range(syms) THEN [@[k] EXCEPT !.read = TRUE] ELSE @[k]]]
Destructsymbols(p, level) ==
  LET syms == Destructed(p, level) IN Emit(Addressed(p, syms), Destruction(syms))

(* A label that is never defined, symbols that are never used               *)
Unused(s, testlabs) ==
  CASE s.ident = "label" -> IF ~testlabs THEN {} ELSE IF ~s.defined THEN {<<19, s.id>>}
                            ELSE IF ~s.read THEN {<<203, s.id>>} ELSE {}
    [] s.ident = "const" -> IF s.read THEN {} ELSE {<<203, s.id>>}
    [] s.child -> {}
    [] OTHER -> IF ~s.read /\ ~s.written THEN {<<203, s.id>>} ELSE IF ~s.read THEN {<<204, s.id>>} ELSE {}
Testsymbols(p, level, testlabs) ==
  [p EXCEPT !.says = @ \cup UNION {Unused(s, testlabs) : s \in Range(Visited(p.loc, Get_actual_compound, level))}]

-----------------------------------------------------------------------------
(* Expressions: the names are looked up where the expression is parsed.     *)

Use(p, n) ==
  LET k == Findloc(p, n) IN
  IF k = 0 THEN Say(p, TRUE, 17, 0)
  ELSE IF p.loc[k].ident = "label" THEN Say(p, TRUE, 29, 0) ELSE Mark(p, k, "read")

Slots(p, names) == [k \in DOMAIN names |-> Data(p.loc[Findloc(p, names[k])])]
(* An instruction that stands for the code of an expression: it knows the   *)
(* cells it reads and how many locals the parser thinks there are.          *)
Doexpr(p, what, id, uses) ==
  LET known == SelectSeq(uses, LAMBDA n : Findloc(p, n) # 0)
  IN Emit(FoldLeft(Use, p, uses), <<<<what, id, Slots(p, known), p.declared>>>>)

(* test(): jump to the label if the expression is false, or with "invert"   *)
(* if it is true.  A constant leaves no test; "always" is no condition.     *)
Test(p, e, label, invert) ==
  IF e.op = "always" THEN p
  ELSE IF e.op = "const" THEN (IF e.v # 0 THEN p ELSE Emit(Say(p, TRUE, 205, 0), Jumplabel(label)))
  ELSE LET user == IF e.user THEN <<<<"user!">>>> ELSE <<>>
           jump == IF invert # e.user THEN "jnz" ELSE "jzer"
       IN Emit(Doexpr(p, "test", e.id, e.uses), user \o <<<<jump, label>>>>)
Endless(e) == e.op = "const" /\ e.v # 0

-----------------------------------------------------------------------------
(* declloc() *)

Product(dims) == FoldLeft(LAMBDA a, b : a * b, 1, dims)
(* The cells of an array with its tables of addresses; calc_array_datasize  *)
Total(dims) == FoldLeft(LAMBDA n, d : d * (1 + n), 0, Reverse(dims))
Datasize(dims) == FoldLeft(LAMBDA n, d : IF n = 0 THEN d ELSE d * d * n, 0, Reverse(dims))
Dataoffset(dims) == Total(dims) - Product(dims)

Declared(s, p, slot) ==
  [n |-> s.n, ident |-> IF s.dims = <<>> THEN "variable" ELSE "array", id |-> s.id, slot |-> slot,
   compound |-> p.nest, level |-> p.nest, dtor |-> s.dtor,
   cells |-> IF s.dims = <<>> THEN 1 ELSE Datasize(s.dims),
   offset |-> IF s.dims = <<>> THEN 0 ELSE Dataoffset(s.dims),
   child |-> FALSE, read |-> FALSE, written |-> FALSE, defined |-> TRUE]

(* addvariable(): a symbol for each dimension; only the first one gets the  *)
(* nesting level.                                                           *)
Addvariable(p, s, slot) ==
  LET sym == Declared(s, p, slot)
      part(k) == LET dims == SubSeq(s.dims, k, Len(s.dims)) IN
                 [sym EXCEPT !.compound = 0, !.child = TRUE, !.cells = Datasize(dims), !.offset = Dataoffset(dims)]
      parts == [k \in 1 .. Len(s.dims) - 1 |-> part(Len(s.dims) + 1 - k)]
  IN [p EXCEPT !.loc = parts \o <<sym>> \o @]

(* A local variable: its place in the frame and its first value, by the     *)
(* initialiser or zero; an array is filled.                                 *)
Reserved(p, s, size) ==
  Emit(Addvariable([p EXCEPT !.declared = @ + size], s, p.declared + size), Modstk(-size))
Written(p, n) == Mark(p, Findloc(p, n), "written")
Initialised(p, s) == IF s.init = <<>> THEN p ELSE Written(Doexpr(p, "eval", s.id, s.init), s.n)
Stored(p, s) == Emit(p, <<<<"stor.s", p.declared, s.id>>>>)
Cleared(p, s, size) == Written(Emit(p, <<<<"fill", p.declared, s.id, Dataoffset(s.dims), size>>>>), s.n)

Declloc(p, s) ==
  LET size == IF s.dims = <<>> THEN 1 ELSE Total(s.dims)
      prior == Findloc(p, s.n)
      checked == Say(p, prior # 0 /\ p.loc[prior].compound = p.nest, 21, s.id)
  IN IF s.op = "static" THEN Addvariable(checked, s, -s.id)
     ELSE IF s.dims = <<>> THEN Stored(Initialised(Reserved(checked, s, size), s), s)
     ELSE Cleared(Reserved(checked, s, size), s, size)

Decl_const(p, s) ==
  Addsym(p, [Argument EXCEPT !.n = s.n, !.ident = "const", !.id = s.id, !.slot = -s.id, !.compound = p.nest, !.level = p.nest,
                             !.read = FALSE])

-----------------------------------------------------------------------------
(* The loops that are active: where break and continue go to, and how many  *)
(* locals there are.                                                        *)

Addwhile(p) ==
  LET q == Say(p, Len(p.wq) >= Loops - 1, 102, 0) IN
  [q EXCEPT !.labels = @ + 2,
            !.wq = Append(@, [brk |-> p.declared, cont |-> p.declared, loop |-> p.labels, exit |-> p.labels + 1])]
Delwhile(p) == [p EXCEPT !.wq = Front(@)]
Readwhile(p) == Last(p.wq)

Leave(p, declared, label) ==
  Emit(Destructsymbols(p, p.nest), Modstk(p.declared - declared) \o Jumplabel(label))
Dobreak(p) == IF p.wq = <<>> THEN Say(p, TRUE, 24, 0) ELSE Leave(p, Readwhile(p).brk, Readwhile(p).exit)
Docont(p) == IF p.wq = <<>> THEN Say(p, TRUE, 24, 0) ELSE Leave(p, Readwhile(p).cont, Readwhile(p).loop)

RECURSIVE Statement(_, _)

(* What is done with a block's symbols at its end                           *)
CloseScope(p, save_decl) ==
  Delete_symbols([Testsymbols(p, p.nest, FALSE) EXCEPT !.declared = save_decl], p.nest, FALSE)

Unreachable(p, count, s) == Say(p, count > 0 /\ p.last \in {"return", "break", "continue"}, 225, 0)

EndCompound(p, inside) ==
  LET destructed == IF inside.last = "return" THEN inside ELSE Destructsymbols(inside, inside.nest)
      removed == IF inside.last \in {"return", "goto"} THEN destructed
                 ELSE Emit(destructed, Modstk(inside.declared - p.declared))
  IN [CloseScope(removed, p.declared) EXCEPT !.nest = p.nest]
Compound(p, ss) ==
  LET one(q, k) == Statement(Unreachable(q, k - 1, ss[k]), ss[k])
  IN EndCompound(p, FoldLeft(one, [p EXCEPT !.nest = @ + 1], [k \in DOMAIN ss |-> k]))

EndIf(false, flab2, last) ==
  Last1(Emit(false, Setlabel(flab2)), IF false.last = last THEN last ELSE "if")
Doelse(true, flab1, s) ==
  LET flab2 == true.labels
      skipped == IF true.last \in {"return", "goto"} THEN true ELSE Emit(true, Jumplabel(flab2))
  IN EndIf(Statement(Emit(Getlabel(skipped), Setlabel(flab1)), s), flab2, true.last)
Doif(p, s) ==
  LET flab1 == p.labels
      tested == Say(Test(Getlabel(p), s.c, flab1, FALSE), Endless(s.c), 206, 0)
      true == Statement(tested, s.a)
  IN IF s.op = "if" THEN Last1(Emit(true, Setlabel(flab1)), "if") ELSE Doelse(true, flab1, s.b)

Dowhile(p, s) ==
  LET q == Addwhile(p)  w == Readwhile(q)
      r == Statement(Test(Emit(q, Setlabel(w.loop)), s.c, w.exit, FALSE), s.body)
  IN Delwhile(Emit(r, Jumplabel(w.loop) \o Setlabel(w.exit)))

DodoAgain(p, s) ==                                  \* mutant: continue skips the test
  LET q == Addwhile(p)  w == Readwhile(q)
      r == Statement(Emit(q, Setlabel(w.loop)), s.body)
  IN Delwhile(Emit(Test(r, s.c, w.exit, FALSE), Jumplabel(w.loop) \o Setlabel(w.exit)))
Dodo(p, s) ==
  LET q == Addwhile(p)  w == Readwhile(q)
      top == q.labels
      r == Emit(Statement(Emit(Getlabel(q), Setlabel(top)), s.body), Setlabel(w.loop))
  IN Delwhile(Emit(Test(r, s.c, w.exit, FALSE), Jumplabel(top) \o Setlabel(w.exit)))

(* The third expression is parsed after the second one and its code put in  *)
(* front of it (sSTARTREORDER).                                             *)
Third(p, step) == IF step.op = "nothing" THEN p ELSE Doexpr(p, "eval", step.id, step.uses)
Reordered(first, second, step) ==
  [Third([second EXCEPT !.code = <<>>], step) EXCEPT !.code = first.code \o @ \o second.code]
Forinit(p, init) ==
  CASE init.op = "new" -> Declloc([p EXCEPT !.nest = @ + 1], init)
    [] init.op = "expr" -> Doexpr(p, "eval", init.id, init.uses)
    [] OTHER -> p
Forhead(p, skiplab, s) ==
  LET w == Readwhile(p)
      first == [Emit(p, Jumplabel(skiplab) \o Setlabel(w.loop)) EXCEPT
                  !.wq = Append(Front(@), [w EXCEPT !.brk = p.declared, !.cont = p.declared])]
      second == Test(Emit([first EXCEPT !.code = <<>>], Setlabel(skiplab)), s.c, w.exit, FALSE)
  IN Reordered(first, second, s.step)
Forbody(p, s) ==
  LET w == Readwhile(p) IN Delwhile(Emit(Statement(p, s), Jumplabel(w.loop) \o Setlabel(w.exit)))
EndFor(p, r) ==
  LET closed == Emit(Destructsymbols(r, r.nest), Modstk(r.declared - p.declared))
  IN IF r.nest = p.nest THEN r ELSE [CloseScope(closed, p.declared) EXCEPT !.nest = p.nest]
Dofor(p, s) ==
  LET q == Addwhile(p)
  IN EndFor(p, Forbody(Forhead(Forinit(Getlabel(q), s.init), q.labels, s), s.body))

(* doswitch(): the table is sorted; ranges are one entry a value.  "sw" is  *)
(* the parser with the table and the label of the latest case.              *)
IsDefault(case) == case.default
Docase(sw, s, k) ==
  LET case == s.cases[k]
      lbl_case == sw.p.labels
      after == \E j \in 1 .. k - 1 : IsDefault(s.cases[j])
      double == \E v \in case.vals : \E e \in sw.table : e[1] = v
      labelled == Emit(Say(Getlabel(sw.p), after, IF IsDefault(case) THEN 16 ELSE 15, 0), Setlabel(lbl_case))
  IN [p |-> Emit(Statement(Say(labelled, double, 40, 0), case.body), Jumplabel(sw.exit)),
      table |-> sw.table \cup (case.vals \X {lbl_case}), label |-> lbl_case, exit |-> sw.exit]
EndSwitch(sw, lbl_table, swdefault) ==
  LET default == IF swdefault THEN sw.label ELSE sw.exit
      casetbl == SetToSortSeq(sw.table, LAMBDA a, b : a[1] < b[1])
  IN Emit(sw.p, Setlabel(lbl_table) \o <<<<"casetbl", casetbl, default>>>> \o Setlabel(sw.exit))
Doswitch(p, s) ==
  LET lbl_table == p.labels
      q == Emit(Doexpr([p EXCEPT !.labels = @ + 2], "test", s.id, s.uses), <<<<"switch", lbl_table>>>>)
      one(sw, k) == Docase(sw, s, k)
      none == [p |-> q, table |-> {}, label |-> 0, exit |-> lbl_table + 1]
  IN EndSwitch(FoldLeft(one, none, [k \in DOMAIN s.cases |-> k]), lbl_table, \E k \in DOMAIN s.cases : IsDefault(s.cases[k]))

(* doassert(), if assertions are checked (sCHKBOUNDS)                       *)
Doassert(p, s) ==
  LET flab1 == p.labels
      tested == Test(Getlabel(p), s.c, flab1, TRUE)
  IN Emit(Say(tested, Endless(s.c), 206, 0), <<<<"halt", "assertion">>>> \o Setlabel(flab1))

(* Labels: added where they are first seen, in a goto or on their own       *)
Fetchlab(p, l, id) ==
  LET k == Findloc(p, l) IN
  IF k # 0 THEN Say(p, p.loc[k].ident # "label", 19, id)
  ELSE Addsym(Getlabel(p), [Argument EXCEPT !.n = l, !.ident = "label", !.id = id, !.slot = p.labels,
                              !.compound = p.nest, !.level = p.nest, !.read = FALSE, !.defined = FALSE])

Dogoto(p, s) ==
  LET q == Fetchlab(p, s.l, s.id)  k == Findloc(q, s.l) IN Mark(Emit(q, Jumplabel(q.loc[k].slot)), k, "read")
DolabelBare(p, s) ==                                \* mutant: without setstk()
  LET q == Fetchlab(p, s.l, s.id)  k == Findloc(q, s.l) IN
  [Emit(q, Setlabel(q.loc[k].slot)) EXCEPT !.loc[k].defined = TRUE]
Dolabel(p, s) ==
  LET q == Fetchlab(p, s.l, s.id)  k == Findloc(q, s.l) IN
  [Emit(q, Setlabel(q.loc[k].slot) \o Setstk(p.declared)) EXCEPT !.loc[k].defined = TRUE]

Doreturn(p, s) ==
  LET q == IF s.id = 0 THEN Say(p, "value" \in p.rettype, 209, 0)
           ELSE Say(Doexpr(p, "eval", s.id, s.uses), "none" \in p.rettype, 78, 0)
      typed == [q EXCEPT !.rettype = @ \cup {IF s.id = 0 THEN "none" ELSE "value"}]
  IN Emit(Destructsymbols(typed, 0), Modstk(p.declared) \o <<<<"retn">>>>)

Doexit(p, s) ==
  Emit(Destructsymbols(Doexpr(p, "eval", s.id, s.uses), 0), <<<<"halt", "exit">>>>)
Dosleep(p, s) == Emit(Doexpr(p, "eval", s.id, s.uses), <<<<"sleep">>>>)

(* state (condition) name: the entry function is called at once             *)
Dostate(p, s) ==
  LET flabel == p.labels
      tested == Test(Getlabel(p), s.c, flabel, FALSE)
      switched == <<<<"eval", s.id, <<>>, p.declared>>>>
  IN IF s.c.op = "always" THEN Emit(p, switched) ELSE Emit(tested, switched \o Setlabel(flabel))

(* statement(): what kind of statement came last is told by lastst, which a *)
(* declaration of constants leaves alone.  At the end nothing is parsed     *)
(* any more; the test also makes TLC evaluate p before it goes down.        *)
Statement(p, s) ==
  IF p.done THEN p ELSE
  CASE s.op = "expr"  -> Last1(Doexpr(p, "eval", s.id, s.uses), "expr")
    [] s.op \in {"new", "static"} -> Last1(Declloc(p, s), "new")
    [] s.op = "const" -> Decl_const(p, s)
    [] s.op = "block" -> IF s.ss = <<>> THEN Last1(p, "emptyblock") ELSE Compound(p, s.ss)
    [] s.op \in {"if", "ifelse"} -> Doif(p, s)
    [] s.op = "while" -> Last1(Dowhile(p, s), "while")
    [] s.op = "do"    -> Last1(Dodo(p, s), "do")
    [] s.op = "for"   -> Last1(Dofor(p, s), "for")
    [] s.op = "switch" -> Last1(Doswitch(p, s), "switch")
    [] s.op = "goto"  -> Last1(Dogoto(p, s), "goto")
    [] s.op = "label" -> Last1(Dolabel(p, s), "label")
    [] s.op = "return" -> Last1(Doreturn(p, s), "return")
    [] s.op = "break" -> Last1(Dobreak(p), "break")
    [] s.op = "continue" -> Last1(Docont(p), "continue")
    [] s.op = "exit"  -> Last1(Doexit(p, s), "exit")
    [] s.op = "sleep" -> Last1(Dosleep(p, s), "sleep")
    [] s.op = "assert" -> Last1(Doassert(p, s), "assert")
    [] s.op = "state" -> Last1(Dostate(p, s), "state")

(* newfunc() from the statement to the end of the function                  *)
EndFunction(p) ==
  LET q == [Emit(p, Modstk(p.declared)) EXCEPT !.declared = 0]
  IN IF p.last \in {"return", "goto"} THEN q
     ELSE Say(Emit(q, <<<<"retn">>>>), "value" \in p.rettype, 209, 0)
Forgotten(p) == [Delete_symbols(Testsymbols(p, 0, TRUE), 0, TRUE) EXCEPT !.done = TRUE]
Newfunc(s) == Forgotten(EndFunction(Statement(Parser, s)))

-----------------------------------------------------------------------------
(* The machine.  A cell of the frame holds the number of the declaration    *)
(* that has initialised it, 0 if nothing has.                               *)

Cell(slot) == IF slot <= 0 THEN -slot ELSE IF slot \in DOMAIN m.stack THEN m.stack[slot] ELSE 0
Step(n) == [n EXCEPT !.pc = @ + 1]
Goto(n, l) == [n EXCEPT !.pc = CHOOSE k \in DOMAIN c.code : c.code[k] = <<"label", l>>]
Stop(why) == [m EXCEPT !.end = why]

Frame(n) == IF n <= Len(m.stack) THEN [m EXCEPT !.stack = SubSeq(@, 1, n)]
            ELSE [m EXCEPT !.stack = @ \o [k \in 1 .. n - Len(m.stack) |-> 0]]
Filled(slot, id, index, total) ==
  [m EXCEPT !.stack = [k \in DOMAIN @ |->
     IF k \in slot - total + 1 .. slot THEN (IF k > slot - index THEN 0 ELSE id) ELSE @[k]]]
Case(table, default) ==
  LET hit == {e \in Range(table) : e[1] = m.pri} IN IF hit = {} THEN default ELSE (CHOOSE e \in hit : TRUE)[2]

Instruction == c.code[m.pc]
Running == c.done /\ m.end = "none"
Errors == {e \in c.says : e[1] < 200}

(* Instructions that decide nothing                                         *)
Executed ==
  LET i == Instruction IN
  CASE i[1] = "stack"  -> Step(Frame(Len(m.stack) - i[2]))
    [] i[1] = "setstk" -> Step(Frame(i[2]))
    [] i[1] = "stor.s" -> Step([m EXCEPT !.stack[i[2]] = i[3]])
    [] i[1] = "fill"   -> Step(Filled(i[2], i[3], i[4], i[5]))
    [] i[1] = "eval"   -> Step([m EXCEPT !.trace = Append(@, <<i[2], [k \in DOMAIN i[3] |-> Cell(i[3][k])]>>),
                                          !.uneven = @ \/ Len(m.stack) # i[4]])
    [] i[1] = "destroy" -> Step([m EXCEPT !.trace = Append(@, <<0, <<Cell(i[2]), i[3]>>>>)])
    [] i[1] = "push.pri" -> Step([m EXCEPT !.stack = Append(@, 0)])
    [] i[1] = "pop.pri" -> Step(Frame(Len(m.stack) - 1))
    [] i[1] = "user!"  -> Step([m EXCEPT !.pri = IF @ = 0 THEN 1 ELSE 0])
    [] i[1] = "jump"   -> Goto(m, i[2])
    [] i[1] = "jzer"   -> IF m.pri = 0 THEN Goto(m, i[2]) ELSE Step(m)
    [] i[1] = "jnz"    -> IF m.pri # 0 THEN Goto(m, i[2]) ELSE Step(m)
    [] i[1] = "switch" -> Goto(m, i[2])
    [] i[1] = "casetbl" -> Goto(m, Case(i[2], i[3]))
    [] i[1] = "retn"   -> IF m.stack = <<>> THEN Stop("return") ELSE Stop("frame")
    [] i[1] = "halt"   -> Stop(i[2])
    [] OTHER -> Step(m)

Init ==
  /\ body \in Bodies
  /\ c = Parser
  /\ m = [pc |-> 1, stack |-> <<>>, pri |-> 0, trace |-> <<>>, chosen |-> <<>>, uneven |-> FALSE, end |-> "none"]

Generate == ~c.done /\ c' = Newfunc(body) /\ UNCHANGED <<body, m>>

Execute ==
  /\ Running /\ Errors = {} /\ m.pc <= Len(c.code) /\ Instruction[1] # "test"
  /\ m' = Executed
  /\ UNCHANGED <<body, c>>

(* An expression that something depends on evaluates to anything.           *)
Decide ==
  /\ Running /\ Errors = {} /\ m.pc <= Len(c.code) /\ Instruction[1] = "test"
  /\ LET i == Instruction
         seen == <<i[2], [k \in DOMAIN i[3] |-> Cell(i[3][k])]>>
     IN IF Len(m.chosen) = Decisions THEN m' = Stop("undecided")
        ELSE \E v \in Values : m' = Step([m EXCEPT !.pri = v, !.chosen = Append(@, v), !.trace = Append(@, seen),
                                                   !.uneven = @ \/ Len(m.stack) # i[4]])
  /\ UNCHANGED <<body, c>>

(* There is no instruction left: the next function would be executed.       *)
RunOn ==
  /\ Running /\ Errors = {} /\ m.pc > Len(c.code)
  /\ m' = Stop("ran on")
  /\ UNCHANGED <<body, c>>

Next == Generate \/ Execute \/ Decide \/ RunOn
Spec == Init /\ [][Next]_vars
=============================================================================
