------------------------------ MODULE Automata ------------------------------
(***************************************************************************)
(* What a program with automata promises: an automaton is in one of its     *)
(* states, or in none to begin with; a "state" statement brings it into     *)
(* another and calls the entry function of that state; and a call of a      *)
(* function runs the implementation for the state its automaton is in,      *)
(* the fall-back if no implementation lists that state, or stops the        *)
(* program.                                                                 *)
(*                                                                          *)
(* A program is the sequence of its definitions, the functions it calls     *)
(* from outside of them, in any order and as often as it likes, and the     *)
(* "state" statements it has.  A definition is of a function "f"; its kind  *)
(* is "none" (no states), "fallback" (the list is empty) or "list"; an item *)
(* of the list is a state, with the name of the automaton or without.       *)
(***************************************************************************)
EXTENDS Integers, Sequences

VARIABLES
  program,
  stage,      \* "idle", "running" or "halted"
  current,    \* the state of each automaton
  global,     \* a variable the program does not assign to
  did         \* what happened last: the definitions that were run

Anonymous == ""      \* the name of the automaton that has none
NoState == ""        \* no state is called so
EntryFunc == "entry" \* uENTRYFUNC
GlobalValue == 5
Nothing == <<"nothing", {}>>

(* An item without an automaton is of the one named before it in the list.  *)
MachineOf(d, k) ==
  LET named == {j \in 1 .. k : d.items[j].machine # Anonymous} IN
  IF named = {} THEN Anonymous
  ELSE d.items[CHOOSE j \in named : \A i \in named : i <= j].machine

Pairs(d) == {<<MachineOf(d, k), d.items[k].state>> : k \in DOMAIN d.items}
PairsOf(p) == UNION {Pairs(p.defs[k]) : k \in DOMAIN p.defs}
MachinesOf(p) == {Anonymous} \cup {c[1] : c \in PairsOf(p)}
Defs(p, f) == {k \in DOMAIN p.defs : p.defs[k].f = f /\ ~p.defs[k].forward}

(* The implementations of f while the automata are in the states "at"; one  *)
(* at most in a program that is well-formed.                                *)
Listed(p, f, at) == {k \in Defs(p, f) : \E c \in Pairs(p.defs[k]) : at[c[1]] = c[2]}
Implementation(p, f, at) ==
  IF Listed(p, f, at) # {} THEN Listed(p, f, at)
  ELSE {k \in Defs(p, f) : p.defs[k].kind # "list"}

-----------------------------------------------------------------------------
(* Every list names one automaton, and so do all the lists of a function,   *)
(* the entry function excepted; no two items of a function are the same;    *)
(* a fall-back is one, beside a list; a function without states is defined  *)
(* once; a "state" statement names a state there is.                        *)
WellFormed(p) ==
  LET Fs == {p.defs[k].f : k \in DOMAIN p.defs}
      kind(f, what) == {k \in Defs(p, f) : p.defs[k].kind = what}
      items(k) == {<<k, i>> : i \in DOMAIN p.defs[k].items}
      pair(x) == <<MachineOf(p.defs[x[1]], x[2]), p.defs[x[1]].items[x[2]].state>>
  IN /\ \A k \in DOMAIN p.defs : \A c, d \in Pairs(p.defs[k]) : c[1] = d[1]
     /\ \A f \in Fs :
          LET all == UNION {items(k) : k \in Defs(p, f)} IN
          /\ f # EntryFunc => \A x, y \in all : pair(x)[1] = pair(y)[1]
          /\ \A x, y \in all : x # y => pair(x) # pair(y)
          /\ \A k \in kind(f, "fallback") : kind(f, "fallback") = {k} /\ kind(f, "list") # {}
          /\ \A k \in kind(f, "none") : Defs(p, f) = {k}
     /\ p.changes \subseteq PairsOf(p)

-----------------------------------------------------------------------------
Init ==
  /\ stage = "idle" /\ did = Nothing /\ global = GlobalValue
  /\ current = [m \in MachinesOf(program) |-> NoState]

Start == stage = "idle" /\ stage' = "running" /\ UNCHANGED <<program, current, global, did>>

Enter(c) ==
  /\ stage = "running" /\ c \in program.changes
  /\ current' = [current EXCEPT ![c[1]] = c[2]]
  /\ did' = <<EntryFunc, {k \in Defs(program, EntryFunc) : c \in Pairs(program.defs[k])}>>
  /\ UNCHANGED <<program, stage, global>>

Call(f) ==
  /\ stage = "running" /\ f \in program.calls
  /\ did' = <<f, Implementation(program, f, current)>>
  /\ stage' = IF did'[2] = {} THEN "halted" ELSE "running"
  /\ UNCHANGED <<program, current, global>>

Next == Start \/ (\E c \in program.changes : Enter(c)) \/ (\E f \in program.calls : Call(f))
Spec == Init /\ [][Next]_<<program, stage, current, global, did>>
=============================================================================
