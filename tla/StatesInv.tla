----------------------------- MODULE StatesInv ------------------------------
(***************************************************************************)
(* The inductive invariant of States: what the tables of scstate.c say of  *)
(* the definitions that have been read, in both passes, and what the       *)
(* errors and warnings so far have to do with the program.                 *)
(***************************************************************************)
EXTENDS States

(***************************************************************************)
(* The tables                                                              *)
(***************************************************************************)
(* The tables separately, each with a bound of its ids: a new id is one     *)
(* more than the highest, and there is a highest one as there is a bound.   *)
AutomataOK(at) ==
  /\ \A a \in at : a.index \in Nat
  /\ \E n \in Nat : \A a \in at : a.index <= n
  /\ \A a, b \in at : a.name = b.name \/ a.index = b.index => a = b

StatesOK(ss) ==
  /\ \A s \in ss : s.value \in Nat \ {0}
  /\ \E n \in Nat : \A s \in ss : s.value <= n
  /\ \A s, t \in ss : s.fsa = t.fsa /\ (s.name = t.name \/ s.value = t.value) => s = t

ListsOK(ls) ==
  /\ \A c \in ls : c.id \in Nat \ {0}
  /\ \E n \in Nat : \A c \in ls : c.id <= n
  /\ \A c, d \in ls : c.id = d.id \/ (c.fsa = d.fsa /\ c.states = d.states) => c = d

TablesInv == AutomataOK(automata) /\ StatesOK(states) /\ ListsOK(lists)

(***************************************************************************)
(* What the tables say of a definition                                     *)
(***************************************************************************)
\* v is the id of the state st of the automaton m
Has(at, ss, m, st, v) ==
  \E a \in at, s \in ss : a.name = m /\ s.fsa = a.index /\ s.name = st /\ s.value = v

\* x is the automaton after n items of d
FsaAt(at, d, n, x) ==
  IF n = 0 THEN x = NoFsa ELSE \E a \in at : a.name = MachineOf(d, n) /\ a.index = x

\* getstates() makes the list l of the first n items of d
Gathers(at, ss, d, L, i) ==
  \E v \in Nat : /\ Has(at, ss, MachineOf(d, i), d.items[i].state, v)
                 /\ L[i] = State_buildlist(L[i - 1], v)
Gather(at, ss, d, n, l) ==
  \E L \in [0 .. n -> Seq(Nat)] :
    L[0] = <<>> /\ L[n] = l /\ \A i \in 1 .. n : Gathers(at, ss, d, L, i)

\* the list id of the definition d
ListedAs(at, ss, d, c) ==
  FsaAt(at, d, Len(d.items), c.fsa) /\ Gather(at, ss, d, Len(d.items), c.states)
IsId(at, ss, ls, d, id) ==
  \/ d.kind = "none" /\ id = Stateless
  \/ d.kind = "fallback" /\ id = Fallback
  \/ d.kind = "list" /\ \E c \in ls : c.id = id /\ ListedAs(at, ss, d, c)
IdOf(k, id) == IsId(automata, states, lists, program.defs[k], id)

\* the definitions that have been read in some pass
Seen == IF pass = "first" THEN pos - 1 ELSE Len(program.defs)
\* the definitions of f with states
Implements(f) == {k \in DefsOf(f) : program.defs[k].kind # "none"}

(***************************************************************************)
(* The invariant                                                           *)
(***************************************************************************)
TypeOK ==
  /\ program \in Programs
  /\ pass \in {"first", "write", "run", "halted"}
  /\ pos \in 1 .. Len(program.defs) + 1
  /\ list \in Seq(Nat) /\ \A c \in lists : c.states \in Seq(Nat)
  /\ attached \in [FuncNames -> Seq([id : Int, placed : BOOLEAN])]

ItemInv ==
  IF pos <= Len(program.defs)
  THEN /\ item \in 1 .. Len(Def.items) + 1 /\ FsaAt(automata, Def, item - 1, fsa)
       /\ Gather(automata, states, Def, item - 1, list)
  ELSE item = 1 /\ fsa = NoFsa /\ list = <<>>

\* every definition that has been read is in the tables, and every state with a name is from one
KnownInv == \A k \in 1 .. Seen : \E id \in Int : IdOf(k, id)
OriginInv ==
  \A s \in states : s.name # "" =>
    \E k \in DOMAIN program.defs : \E i \in DOMAIN program.defs[k].items :
      Has(automata, states, MachineOf(program.defs[k], i), program.defs[k].items[i].state, s.value)
      /\ s.name = program.defs[k].items[i].state
      /\ \E a \in automata : a.name = MachineOf(program.defs[k], i) /\ a.index = s.fsa

\* the ids attached to f are those of its definitions, each once
AttachedInv ==
  \A f \in FuncNames :
    /\ \A k \in Implements(f) : k <= Seen => \E x \in DOMAIN attached[f] : IdOf(k, attached[f][x].id)
    /\ \A x \in DOMAIN attached[f] : \E k \in Implements(f) : IdOf(k, attached[f][x].id)
    /\ \A x, y \in DOMAIN attached[f] : attached[f][x].id = attached[f][y].id => x = y

\* what this pass has met
MetInv ==
  \A f \in FuncNames :
    /\ f \in defined <=> \E k \in DefsOf(f) : k < pos
    /\ \A x \in DOMAIN attached[f] :
         attached[f][x].placed <=> \E k \in Implements(f) : k < pos /\ IdOf(k, attached[f][x].id)

\* what has been written for f is from the tables, which do not change any more
WarnedBy(f, n) ==
  /\ f \in Stubbed /\ ~HasFallback(f)
  /\ \E t \in StatesOf(f) : t.name = n /\ LabelsOf(f, t.value) = {}
TableOf(f) == table[f].fsa = State_getlist(FirstList(attached[f])).fsa
WarnedInv ==
  pass # "first" =>
    /\ DOMAIN table = Stubbed
    /\ \A f \in Stubbed : TableOf(f)
    /\ \A f \in FuncNames : \A n : <<230, f, n>> \in says <=> WarnedBy(f, n)

(* Nothing that is well-formed, with one automaton for entry(), is refused. *)
ItemsOf(k) == DOMAIN program.defs[k].items
PairOf(k, i) == <<MachineOf(program.defs[k], i), program.defs[k].items[i].state>>
KindOf(k) == program.defs[k].kind

OneEach == \A k \in DOMAIN program.defs : \A i, j \in ItemsOf(k) : PairOf(k, i)[1] = PairOf(k, j)[1]
OneMachineAll(f) ==
  \A j, k \in DefsOf(f) : \A i \in ItemsOf(j), n \in ItemsOf(k) : PairOf(j, i)[1] = PairOf(k, n)[1]
SameMachine(f) == f # EntryFunc => OneMachineAll(f)
NoneTwice(f) ==
  \A j, k \in DefsOf(f) : \A i \in ItemsOf(j), n \in ItemsOf(k) : PairOf(j, i) = PairOf(k, n) => j = k /\ i = n
FallbackOnce(f) ==
  \A k \in DefsOf(f) : KindOf(k) = "fallback" =>
    /\ \A j \in DefsOf(f) : KindOf(j) = "fallback" => j = k
    /\ \E j \in DefsOf(f) : KindOf(j) = "list"
NoneAlone(f) == \A k \in DefsOf(f) : KindOf(k) = "none" => \A j \in DefsOf(f) : j = k
Reachable == \A c \in program.changes : \E k \in DOMAIN program.defs : \E i \in ItemsOf(k) : c = PairOf(k, i)
Fine ==
  /\ OneEach /\ Reachable
  /\ \A f \in FuncNames : OneMachineAll(f) /\ NoneTwice(f) /\ FallbackOnce(f) /\ NoneAlone(f)
SoundInv ==
  /\ pass = "first" => says = {}
  /\ Fine => Errors = {}

(* What has passed without error is as it should be.                       *)
OneMachine(d, n) == \A i, j \in 1 .. n : MachineOf(d, i) = MachineOf(d, j)
MachinesOK ==
  \A k \in DOMAIN program.defs :
    /\ k < pos => OneMachine(program.defs[k], Len(program.defs[k].items))
    /\ k = pos => OneMachine(program.defs[k], item - 1)
DefinitionsOK ==
  \A f \in FuncNames : \A k \in DefsOf(f) : k < pos =>
    /\ KindOf(k) = "none" => DefsOf(f) \cap 1 .. k - 1 = {}
    /\ KindOf(k) = "fallback" => \E j \in DefsOf(f) : KindOf(j) = "list"
    /\ \A j \in Implements(f) \cap 1 .. k - 1, id \in Int :
         k \in Implements(f) => ~(IdOf(j, id) /\ IdOf(k, id))
ChangesOK == \A c \in program.changes : Known(c)
CompleteInv ==
  pass # "first" /\ Errors = {} =>
    /\ MachinesOK /\ DefinitionsOK /\ State_conflict = {}
    /\ Compiled => ChangesOK
CompiledInv == Compiled => pos = Len(program.defs) + 1

DefsInv ==
  /\ TypeOK /\ ItemInv /\ KnownInv /\ OriginInv /\ AttachedInv /\ MetInv
  /\ WarnedInv /\ SoundInv /\ CompleteInv /\ CompiledInv

(***************************************************************************)
(* What has been written, and the program running                          *)
(***************************************************************************)
FiniteInv ==
  /\ IsFiniteSet(automata) /\ IsFiniteSet(states)
  /\ \E a \in automata : a.name = Anonymous

\* a label is put before the bodies of the definitions that have its id
BodiesInv ==
  \A f \in FuncNames, id \in Int :
    Placed(f, id) = {k \in DefsOf(f) : pass # "first" /\ Used(f) /\ k < pos /\ IdOf(k, id)}

StubsInv == pass # "first" => table = [f \in Stubbed |-> Stub(f)] /\ address = Addresses

DataInv ==
  IF Compiled
  THEN /\ setters = [c \in {d \in program.changes : Known(d)} |-> Dostate(c)]
       /\ data \in [0 .. Selectors -> Int]
       /\ ~Unselected => data[Selectors] = GlobalValue
  ELSE did = Nothing

WrittenInv == FiniteInv /\ BodiesInv /\ StubsInv /\ DataInv
=============================================================================
