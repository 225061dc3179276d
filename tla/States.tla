------------------------------- MODULE States -------------------------------
(***************************************************************************)
(* Automata and states: the tables of scstate.c, filled by getstates() and  *)
(* attachstatelist() as newfunc() and funcstub() meet the definitions, in   *)
(* both passes; state_conflict() between the passes; the selectors, stubs   *)
(* and jump tables that writeleader() writes before the second pass;        *)
(* the code of the "state" statement (dostate()); and the program running.  *)
(*                                                                          *)
(* The programs are those of module Automata.  Old-style prototypes, and    *)
(* operators and natives with states (an error) are left out.               *)
(***************************************************************************)
EXTENDS Integers, Sequences, FiniteSets, SequencesExt

CONSTANTS
  Programs,    \* the programs that are compiled
  FuncNames,   \* the names of the functions in them
  CellBytes    \* sizeof(cell)

EntryFunc == "entry"     \* uENTRYFUNC

(* An item names a state, and an automaton or none; a definition with an    *)
(* empty list is a fall-back; what is called is defined, and it is not the  *)
(* entry function.                                                          *)
StateNames == STRING \ {""}
Definition == [f : FuncNames, kind : {"none", "fallback", "list"}, forward : BOOLEAN,
               items : Seq([machine : STRING, state : StateNames])]

ASSUME ProgramsAssumption ==
  EntryFunc \in FuncNames /\ \A p \in Programs :
    /\ p.defs \in Seq(Definition)
    /\ \A k \in DOMAIN p.defs : p.defs[k].kind = "list" <=> p.defs[k].items # <<>>
    /\ p.changes \subseteq STRING \X StateNames
    /\ \A f \in p.calls : f \in FuncNames /\ \E k \in DOMAIN p.defs : p.defs[k].f = f /\ ~p.defs[k].forward
    /\ EntryFunc \notin p.calls

VARIABLES
  program,
  pass,       \* sc_status: "first" or "write"; "run" when the program runs, "halted" after that
  pos,        \* the definition that is parsed
  item,       \* the item of its list that comes next
  fsa,        \* the automaton the items so far belong to
  list,       \* the ids of the states so far
  automata,   \* sc_automaton_tab
  states,     \* sc_state_tab
  lists,      \* statelist_tab
  attached,   \* for each function its "states": list ids and whether they are placed
  defined,    \* the functions with the flag uDEFINE
  bodies,     \* what is written: the label, a function and a list id, and the definition
  table,      \* the stubs of the functions with states
  address,    \* the cells of the selectors
  setters,    \* the code of the "state" statements
  says,       \* the errors and warnings: number, function and state
  data,       \* the data section: the selectors and a variable
  stack,      \* what main() has on the stack
  did         \* the definitions run last, as in Automata

parser == <<pass, pos, item, fsa, list>>
tables == <<automata, states, lists>>
symbols == <<attached, defined>>
output == <<bodies, table, address, setters, says>>
machine == <<data, stack, did>>
vars == <<program, parser, tables, symbols, output, machine>>

Anonymous == ""
NoState == ""
GlobalValue == 5
Nothing == <<"nothing", {}>>
Locals == <<0, 0>>       \* of main()

NoFsa == -1
Stateless == 0     \* the list id of a definition without states
Fallback == -1     \* the list id of "<>"
Nostate == -2      \* the label lbl_nostate
Beyond == -3       \* what follows a jump table

-----------------------------------------------------------------------------
(* scstate.c *)

(* The "last" of the find functions, to which they add one for a new id.    *)
Lowest(S) == CHOOSE n \in S \cup {0} : \A k \in S : n <= k     \* mutant
Highest(S) == CHOOSE n \in S \cup {0} : \A k \in S : k <= n

Automaton_add(as, name) ==
  IF \E a \in as : a.name = name THEN as
  ELSE as \cup {[name |-> name, index |-> Highest({a.index : a \in as}) + 1]}

IdsOf(ss, f) == {s.value : s \in {t \in ss : t.fsa = f}}

State_add(ss, name, f) ==
  IF \E s \in ss : s.fsa = f /\ s.name = name THEN ss
  ELSE ss \cup {[name |-> name, fsa |-> f, value |-> Highest(IdsOf(ss, f)) + 1]}

Automaton_find(as, name) == CHOOSE a \in as : a.name = name
State_find(ss, name, f) == CHOOSE s \in ss : s.fsa = f /\ s.name = name

(* The list is kept sorted, for the order of the items does not matter.     *)
InsertionPoint(l, id) ==
  CHOOSE n \in 1 .. Len(l) + 1 : /\ \A k \in 1 .. n - 1 : l[k] < id
                                 /\ n <= Len(l) => l[n] >= id
State_buildlist(l, id) == InsertAt(l, InsertionPoint(l, id), id)

State_addlist(ls, l, f) ==
  IF \E c \in ls : c.fsa = f /\ c.states = l THEN ls
  ELSE ls \cup {[id |-> Highest({c.id : c \in ls}) + 1, fsa |-> f, states |-> l]}

State_getlist(id) == CHOOSE c \in lists : c.id = id
State_inlist(id, value) == value \in Range(State_getlist(id).states)

(* Two definitions of a function                                            *)
ConflictSame(f, id1, id2) ==     \* mutant: the same list only
  LET src == State_getlist(id1)  tgt == State_getlist(id2) IN
  (IF src.fsa # tgt.fsa /\ f # EntryFunc THEN {<<83, f, "">>} ELSE {})
  \cup (IF src.states = tgt.states THEN {<<84, f, "">>} ELSE {})
Conflict(f, id1, id2) ==
  LET src == State_getlist(id1)  tgt == State_getlist(id2) IN
  (IF src.fsa # tgt.fsa /\ f # EntryFunc THEN {<<83, f, "">>} ELSE {})
  \cup (IF Range(src.states) \cap Range(tgt.states) # {} THEN {<<84, f, "">>} ELSE {})

State_conflict ==
  LET pairs(f) == {x \in (DOMAIN attached[f]) \X (DOMAIN attached[f]) :
                     x[1] < x[2] /\ Fallback \notin {attached[f][x[1]].id, attached[f][x[2]].id}}
  IN UNION {UNION {Conflict(f, attached[f][x[1]].id, attached[f][x[2]].id) : x \in pairs(f)}
            : f \in FuncNames}

-----------------------------------------------------------------------------
(* The parser; sc1.c *)

Def == program.defs[pos]
Parsing == pass \in {"first", "write"} /\ pos <= Len(program.defs)
Used(f) == f = EntryFunc \/ f \in program.calls     \* uREAD, known after the first pass

(* error(): in the first pass nothing is reported.                          *)
Reported(es) == IF pass = "write" THEN says \cup es ELSE says

(* getstates(): an item of the list.  A new automaton gets a state without  *)
(* a name first.                                                            *)
Item ==
  /\ Parsing /\ Def.kind = "list" /\ item <= Len(Def.items)
  /\ LET i == Def.items[item]
         named == fsa = NoFsa \/ i.machine # Anonymous
         as == IF named THEN Automaton_add(automata, i.machine) ELSE automata
         f == IF named THEN Automaton_find(as, i.machine).index ELSE fsa
         ss == State_add(IF as = automata THEN states ELSE State_add(states, "", f), i.state, f)
     IN /\ automata' = as
        /\ states' = ss
        /\ fsa' = f
        /\ list' = State_buildlist(list, State_find(ss, i.state, f).value)
        /\ says' = Reported(IF fsa \notin {NoFsa, f} THEN {<<83, Def.f, "">>} ELSE {})
  /\ item' = item + 1
  /\ UNCHANGED <<program, pass, pos, lists, symbols, bodies, table, address, setters, machine>>

(* attachstatelist(): the list's code address is set when it is placed.     *)
Attach(s, id) ==
  IF id = Stateless THEN s
  ELSE IF \E k \in DOMAIN s : s[k].id = id
  THEN [k \in DOMAIN s |-> IF s[k].id = id THEN [s[k] EXCEPT !.placed = TRUE] ELSE s[k]]
  ELSE Append(s, [id |-> id, placed |-> TRUE])

AttachErrors(f, id) ==
  LET s == attached[f] IN
  {<<n, f, "">> : n \in
     (IF f \in defined /\ (s = <<>> \/ id = Stateless) THEN {21} ELSE {})
     \cup (IF \E k \in DOMAIN s : id # Stateless /\ s[k].id = id /\ s[k].placed THEN {84} ELSE {})
     \cup (IF id = Fallback /\ \A k \in DOMAIN s : s[k].id = Fallback THEN {85} ELSE {})}

(* The end of the list, and the rest of newfunc() or funcstub(): the label  *)
(* of a list id is put before the body of the function.                     *)
Define ==
  /\ Parsing /\ (Def.kind = "list" => item > Len(Def.items))
  /\ LET f == Def.f
         ls == IF Def.kind = "list" THEN State_addlist(lists, list, fsa) ELSE lists
         id == CASE Def.kind = "none" -> Stateless
                 [] Def.kind = "fallback" -> Fallback
                 [] Def.kind = "list" -> (CHOOSE c \in ls : c.fsa = fsa /\ c.states = list).id
     IN /\ lists' = ls
        /\ IF Def.forward
           THEN /\ says' = Reported(IF id # Stateless THEN {<<231, f, "">>} ELSE {})
                /\ UNCHANGED <<symbols, bodies>>
           ELSE /\ says' = Reported(AttachErrors(f, id))
                /\ attached' = [attached EXCEPT ![f] = Attach(@, id)]
                /\ defined' = defined \cup {f}
                /\ bodies' = IF pass = "write" /\ Used(f)
                             THEN bodies \cup {[f |-> f, id |-> id, def |-> pos]} ELSE bodies
  /\ pos' = pos + 1 /\ item' = 1 /\ fsa' = NoFsa /\ list' = <<>>
  /\ UNCHANGED <<program, pass, automata, states, table, address, setters, machine>>

-----------------------------------------------------------------------------
(* writeleader(); sc4.c *)

Stateful == {f \in FuncNames : Used(f) /\ attached[f] # <<>>}

(* The list that tells the automaton: the second one after the fall-back.   *)
FirstList(s) == IF s[1].id = Fallback /\ Len(s) > 1 THEN s[2].id ELSE s[1].id

Stubbed == {f \in Stateful : f # EntryFunc /\ FirstList(attached[f]) # Fallback}

StatesOfAll(f) == states     \* mutant: those of other automata as well
StatesOf(f) == {s \in states : s.fsa = State_getlist(FirstList(attached[f])).fsa}

(* The first list of the function that the state is in                      *)
LabelsOf(f, value) == {k \in DOMAIN attached[f] : attached[f][k].id # Fallback
                                                    /\ State_inlist(attached[f][k].id, value)}
LabelOf(f, value) ==
  attached[f][CHOOSE k \in LabelsOf(f, value) : \A j \in LabelsOf(f, value) : k <= j].id

HasFallback(f) == \E k \in DOMAIN attached[f] : attached[f][k].id = Fallback

(* What statecount counts: all that stands in the lists                     *)
Items(s) == UNION {{k} \X DOMAIN State_getlist(s[k].id).states : k \in {j \in DOMAIN s : s[j].id # Fallback}}

Stub(f) ==
  [fsa     |-> State_getlist(FirstList(attached[f])).fsa,
   default |-> IF HasFallback(f) THEN Fallback ELSE Nostate,
   count   |-> Cardinality(Items(attached[f])),
   cases   |-> {[value |-> s.value, id |-> LabelOf(f, s.value)]
                : s \in {t \in StatesOf(f) : LabelsOf(f, t.value) # {}}}]

Unimplemented(f) == {<<230, f, s.name>> : s \in {t \in StatesOf(f) : LabelsOf(f, t.value) = {}}}

(* The selectors have addresses of their own only if a function that is     *)
(* used has states.                                                         *)
Ordinal(a) == Cardinality({b \in automata : b.index < a.index})
Selectors == IF Stateful = {} THEN 0 ELSE Cardinality(automata)
Addresses == [x \in {a.index : a \in automata} |->
                IF Stateful = {} THEN 0 ELSE Ordinal(CHOOSE a \in automata : a.index = x)]

(* Between the passes: state_conflict(), delete_symbols(), writeleader().   *)
SecondPass ==
  /\ pass = "first" /\ pos > Len(program.defs)
  /\ pass' = "write" /\ pos' = 1
  /\ says' = State_conflict \cup UNION {Unimplemented(f) : f \in {g \in Stubbed : ~HasFallback(g)}}
  /\ defined' = {}
  /\ attached' = [f \in FuncNames |-> [k \in DOMAIN attached[f] |->
                                         [attached[f][k] EXCEPT !.placed = FALSE]]]
  /\ table' = [f \in Stubbed |-> Stub(f)]
  /\ address' = Addresses
  /\ UNCHANGED <<program, item, fsa, list, tables, bodies, setters, machine>>

-----------------------------------------------------------------------------
(* dostate(): the value is stored in the selector and the entry function    *)
(* that lists the state is called, without a number of arguments.           *)

Known(c) == \E a \in automata : a.name = c[1] /\ \E s \in states : s.fsa = a.index /\ s.name = c[2]

DostateAny(c) ==     \* mutant: an entry function for the same id in another automaton
  LET f == Automaton_find(automata, c[1]).index
      value == State_find(states, c[2], f).value
      s == attached[EntryFunc]
      ks == {k \in DOMAIN s : s[k].id # Fallback /\ State_inlist(s[k].id, value)}
  IN [cell |-> address[f], value |-> value,
      entry |-> IF ks = {} THEN Stateless ELSE s[CHOOSE k \in ks : \A j \in ks : k <= j].id]
Dostate(c) ==
  LET f == Automaton_find(automata, c[1]).index
      value == State_find(states, c[2], f).value
      s == attached[EntryFunc]
      ks == {k \in DOMAIN s : s[k].id # Fallback /\ State_getlist(s[k].id).fsa = f
                              /\ State_inlist(s[k].id, value)}
  IN [cell |-> address[f], value |-> value,
      entry |-> IF ks = {} THEN Stateless ELSE s[CHOOSE k \in ks : \A j \in ks : k <= j].id]

(* The last function is main(), with the "state" statements and the calls.  *)
Finish ==
  /\ pass = "write" /\ pos > Len(program.defs)
  /\ pass' = "run"
  /\ setters' = [c \in {d \in program.changes : Known(d)} |-> Dostate(c)]
  /\ says' = says \cup {<<IF \E a \in automata : a.name = c[1] THEN 87 ELSE 86, c[1], c[2]>>
                        : c \in {d \in program.changes : ~Known(d)}}
  /\ data' = [k \in 0 .. Selectors |-> IF k = Selectors THEN GlobalValue ELSE 0]
  /\ stack' = Locals
  /\ UNCHANGED <<program, pos, item, fsa, list, tables, symbols, bodies, table, address, did>>

Errors == {e \in says : e[1] < 200}
Running == pass = "run" /\ Errors = {}
Placed(f, id) == {b.def : b \in {x \in bodies : x.f = f /\ x.id = id}}

(* A call is "push.c" of the arguments' bytes and "call"; "retn" removes    *)
(* them.  Without the number it takes what is on the stack for it.          *)
Returned(s) ==
  LET n == s[Len(s)] \div CellBytes + 1 IN
  IF s = <<>> \/ n > Len(s) THEN <<>> ELSE SubSeq(s, 1, Len(s) - n)

Enter(c) ==
  /\ Running
  /\ data' = [data EXCEPT ![setters[c].cell] = setters[c].value]
  /\ IF setters[c].entry = Stateless
     THEN did' = <<EntryFunc, {}>> /\ stack' = stack
     ELSE did' = <<EntryFunc, Placed(EntryFunc, setters[c].entry)>> /\ stack' = Returned(stack)
  /\ UNCHANGED <<program, parser, tables, symbols, output>>

(* "switch": the cases that the table counts are looked through.            *)
Switch(t, value) ==
  IF \E c \in t.cases : c.value = value THEN {c.id : c \in {d \in t.cases : d.value = value}}
  ELSE {t.default} \cup (IF t.count > Cardinality(t.cases) THEN {Beyond} ELSE {})

Targets(f) ==
  IF attached[f] = <<>> THEN {Stateless} ELSE Switch(table[f], data[address[table[f].fsa]])

Call(f) ==
  /\ Running
  /\ \E id \in Targets(f) :
       /\ did' = <<f, Placed(f, id)>>
       /\ pass' = IF id \in {Nostate, Beyond} THEN "halted" ELSE "run"
  /\ UNCHANGED <<program, pos, item, fsa, list, tables, symbols, output, data, stack>>

-----------------------------------------------------------------------------
Init ==
  /\ program \in Programs
  /\ pass = "first" /\ pos = 1 /\ item = 1 /\ fsa = NoFsa /\ list = <<>>
  /\ automata = {[name |-> Anonymous, index |-> 0]} /\ states = {} /\ lists = {}
  /\ attached = [f \in FuncNames |-> <<>>] /\ defined = {}
  /\ bodies = {} /\ table = <<>> /\ address = <<>> /\ setters = <<>> /\ says = {}
  /\ data = <<>> /\ stack = <<>> /\ did = Nothing

Next ==
  \/ Item \/ Define \/ SecondPass \/ Finish
  \/ \E c \in program.changes : Enter(c)
  \/ \E f \in program.calls : Call(f)

Spec == Init /\ [][Next]_vars

-----------------------------------------------------------------------------
(* What the tables stand for, and the programs that the code does not treat *)
(* as it should.                                                            *)

Compiled == pass \in {"run", "halted"}

Decoded(m) ==
  LET a == Automaton_find(automata, m)
      there == {s \in states : Stateful # {} /\ s.fsa = a.index /\ s.value = data[address[a.index]]}
  IN IF there = {} THEN NoState ELSE (CHOOSE s \in there : TRUE).name

MachineOf(d, k) ==
  LET named == {j \in 1 .. k : d.items[j].machine # Anonymous} IN
  IF named = {} THEN Anonymous
  ELSE d.items[CHOOSE j \in named : \A i \in named : i <= j].machine
Machines(ks) == UNION {{MachineOf(program.defs[k], i) : i \in DOMAIN program.defs[k].items} : k \in ks}
DefsOf(f) == {k \in DOMAIN program.defs : program.defs[k].f = f /\ ~program.defs[k].forward}

(* A definition without states before one with states                       *)
Mixed == \E f \in FuncNames : \E i, j \in DefsOf(f) :
  i < j /\ program.defs[i].kind = "none" /\ program.defs[j].kind # "none"
(* A list that has a state twice                                            *)
Repeated == \E k \in DOMAIN program.defs : LET d == program.defs[k] IN
  \E i, j \in DOMAIN d.items : i # j /\ MachineOf(d, i) = MachineOf(d, j)
                               /\ d.items[i].state = d.items[j].state
(* Entry functions for more than one automaton                              *)
EntryMachines == \E m, n \in Machines(DefsOf(EntryFunc)) : m # n
(* "state" statements, but no function with states that is used             *)
Unselected == program.changes # {} /\ \A k \in DOMAIN program.defs :
  Used(program.defs[k].f) /\ ~program.defs[k].forward => program.defs[k].kind = "none"

Kept == Compiled /\ Errors = {} /\ ~Mixed /\ ~Repeated /\ ~Unselected

Promise == INSTANCE Automata WITH
  stage   <- IF ~Kept THEN "idle" ELSE IF pass = "run" THEN "running" ELSE "halted",
  current <- [m \in {Anonymous} \cup Machines(DOMAIN program.defs) |-> IF Kept THEN Decoded(m) ELSE NoState],
  global  <- IF Kept THEN data[Selectors] ELSE GlobalValue,
  did     <- IF Kept THEN did ELSE Nothing

(* A program that is compiled runs as its definitions say: every call runs  *)
(* the implementation for the state the automaton was brought into last,    *)
(* whatever states other automata are in, "state" runs the entry function   *)
(* of that very state and touches nothing but its selector.  It relates     *)
(* getstates(), writeleader() and dostate() to the language.                *)
KeepsPromise == Promise!Spec

(* A program has errors exactly if it is not well-formed: an implementation *)
(* that is never reached, or that hides another, is found (state_conflict() *)
(* and attachstatelist(), errors 21 and 83 to 87).                          *)
ConflictsExact ==
  Compiled /\ ~Mixed /\ ~Repeated /\ ~EntryMachines
    => (Errors = {} <=> Promise!WellFormed(program))

(* Warning 230 is given for exactly the states in which a call stops the    *)
(* program (writeleader()); the state without a name, which a named         *)
(* automaton has but no statement can enter, is one of them.                *)
WarnedExact ==
  Compiled /\ Errors = {} /\ ~Mixed =>
    \A f \in DOMAIN table : \A s \in {t \in states : t.fsa = table[f].fsa} :
      LET m == (CHOOSE a \in automata : a.index = s.fsa).name
          in == [n \in {a.name : a \in automata} |-> IF n = m THEN s.name ELSE NoState]
      IN <<230, f, s.name>> \in says <=> Promise!Implementation(program, f, in) = {}

(* Within an automaton a name and an id stand for one state, 0 for none; a  *)
(* list id stands for one set of states: what the selectors and the jump    *)
(* tables are compared with, although each list looks up its ids anew       *)
(* (automaton_add(), state_add() and state_addlist()).                      *)
IdsUnique ==
  /\ \A a, b \in automata : a.name = b.name \/ a.index = b.index => a = b
  /\ \A s, t \in states : s.fsa = t.fsa /\ (s.name = t.name \/ s.value = t.value) => s = t
  /\ \A s \in states : s.value > 0
  /\ \A c, d \in lists : c.id = d.id \/ (c.fsa = d.fsa /\ c.states = d.states) => c = d

(* A function that is called finds the number of its arguments above the    *)
(* return address (the frame layout that sc4.c gives), so that "retn" takes *)
(* away what the call has pushed: main() keeps its locals, whatever states  *)
(* it brings the automata into.                                             *)
StackKept == pass = "run" => stack = Locals
=============================================================================
