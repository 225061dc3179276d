------------------------------ MODULE MCStates ------------------------------
(***************************************************************************)
(* The programs: all sequences of up to three of the definitions below, of  *)
(* a function, another, which is in a named automaton, and entry(); with    *)
(* "state" statements for all the states they name; and some with others.   *)
(***************************************************************************)
EXTENDS States

It(m, s) == [machine |-> m, state |-> s]
D(f, kind, items) == [f |-> f, kind |-> kind, items |-> items, forward |-> FALSE]
L(f, items) == D(f, "list", items)

MCFuncNames == {"foo", "bar", "entry"}

Definitions ==
  {D("foo", "none", <<>>), D("foo", "fallback", <<>>),
   L("foo", <<It("", "x")>>), L("foo", <<It("", "y")>>), L("foo", <<It("", "x"), It("", "x")>>),
   L("foo", <<It("", "y"), It("", "x")>>), L("foo", <<It("", "x"), It("", "y")>>),
   L("foo", <<It("", "x"), It("a", "y")>>),
   L("bar", <<It("a", "y"), It("", "x")>>), L("bar", <<It("a", "y")>>), D("bar", "fallback", <<>>),
   L("bar", <<It("", "y")>>),
   L("entry", <<It("", "x")>>), L("entry", <<It("a", "y")>>), D("entry", "fallback", <<>>),
   [L("foo", <<It("a", "z")>>) EXCEPT !.forward = TRUE]}

Program(ds, calls, changes) ==
  [defs |-> ds,
   calls |-> calls \cap {ds[k].f : k \in {j \in DOMAIN ds : ~ds[j].forward}},
   changes |-> changes]

PairsIn(ds) == UNION {{<<MachineOf(ds[k], i), ds[k].items[i].state>> : i \in DOMAIN ds[k].items}
                      : k \in DOMAIN ds}

Short == UNION {[1 .. n -> Definitions] : n \in 1 .. 2}
Long == [1 .. 3 -> Definitions]

MCPrograms ==
  {Program(ds, {"foo", "bar"}, PairsIn(ds)) : ds \in Short \cup Long}
  \cup {Program(ds, {}, PairsIn(ds)) : ds \in Short}
  \cup {Program(ds, {"foo", "bar"}, {<<"", "y">>, <<"a", "y">>}) : ds \in Short}
=============================================================================
