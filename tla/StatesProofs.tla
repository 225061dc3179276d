---------------------------- MODULE StatesProofs ----------------------------
(***************************************************************************)
(* Proofs about automata and states, for whatever programs are compiled:     *)
(*                                                                          *)
(* - UniqueIds: however often getstates() looks up a name or a list, an id   *)
(*   stands for one automaton, one state of its automaton, one list.        *)
(* - ConflictsAreExact and WarningsAreExact: what the compiler says of a     *)
(*   program is right, compared with the predicates of module Automata.     *)
(*   Both follow from the invariant DefsInv of module StatesInv, whose parts *)
(*   have a lemma each (NextType ... NextCompiled), about all the steps.     *)
(* - PromiseKept: the program that has been compiled runs as the language    *)
(*   says.  It needs what has been written as well (WrittenInv): then every *)
(*   step maps to a step of module Automata or to a stutter (StartMaps,      *)
(*   EnterMaps, CallMaps and StepMaps).                                      *)
(***************************************************************************)
EXTENDS StatesInv, SequenceTheorems, FiniteSetTheorems, WellFoundedInduction, TLAPS

-----------------------------------------------------------------------------
(***************************************************************************)
(* The tables: scstate.c                                                    *)
(***************************************************************************)
(* Of a set of ids that has a bound the find functions know the highest.    *)
LEMMA HighestBounds ==
  ASSUME NEW S \in SUBSET Nat, NEW n \in Nat, \A k \in S : k <= n
  PROVE  Highest(S) \in Nat /\ \A k \in S : k <= Highest(S)
<1> DEFINE U == {u \in Nat : \A k \in S : k <= u}
<1>1. PICK x \in U : \A y \in U : ~(<<y, x>> \in OpToRel(<, Nat))
  <2>1. n \in U /\ U \subseteq Nat
    OBVIOUS
  <2>2. IsWellFoundedOn(OpToRel(<, Nat), Nat)
    BY NatLessThanWellFounded
  <2> QED
    BY <2>1, <2>2, WFMin, Zenon
<1>2. x \in S \cup {0}
  <2> SUFFICES ASSUME x \notin S, x # 0 PROVE FALSE
    OBVIOUS
  <2>1. x - 1 \in U /\ x - 1 \in Nat /\ x \in Nat /\ x - 1 < x
    OBVIOUS
  <2>2. <<x - 1, x>> \in OpToRel(<, Nat)
    BY <2>1, Zenon DEF OpToRel
  <2> QED
    BY <1>1, <2>1, <2>2, Zenon
<1>3. \E m \in S \cup {0} : \A k \in S : k <= m
  BY <1>2
<1>4. Highest(S) \in S \cup {0} /\ \A k \in S : k <= Highest(S)
  BY <1>3, Zenon DEF Highest
<1>5. S \cup {0} \subseteq Nat
  OBVIOUS
<1> QED
  BY <1>4, <1>5, Zenon

(* automaton_add() and state_add() give a new name an id that was not used. *)
LEMMA Automaton_addKeeps ==
  ASSUME NEW at, NEW name, AutomataOK(at)
  PROVE  AutomataOK(Automaton_add(at, name))
<1> DEFINE S == {a.index : a \in at}
           new == [name |-> name, index |-> Highest(S) + 1]
<1>1. CASE \E a \in at : a.name = name
  BY <1>1 DEF Automaton_add
<1>2. CASE ~\E a \in at : a.name = name
  <2>1. Automaton_add(at, name) = at \cup {new}
    BY <1>2 DEF Automaton_add
  <2>2. PICK n \in Nat : \A a \in at : a.index <= n
    BY DEF AutomataOK
  <2>3. S \in SUBSET Nat /\ \A k \in S : k <= n
    BY <2>2 DEF AutomataOK
  <2>4. PICK h \in Nat : h = Highest(S) /\ \A k \in S : k <= h
    BY <2>2, <2>3, HighestBounds, Zenon
  <2>5. new.name = name /\ new.index = h + 1
    BY <2>4
  <2> HIDE DEF new
  <2>6. \A a \in at : a.index \in Nat /\ a.index < new.index /\ a.name # new.name
    <3> SUFFICES ASSUME NEW a \in at PROVE a.index \in Nat /\ a.index < new.index /\ a.name # new.name
      OBVIOUS
    <3>1. a.index \in Nat /\ a.index \in S
      BY Zenon DEF AutomataOK
    <3>2. a.index <= h
      BY <2>4, <3>1, Zenon
    <3>3. a.name # new.name
      BY <1>2, <2>5, Zenon
    <3> HIDE DEF S
    <3> QED
      BY <2>5, <3>1, <3>2, <3>3
  <2>7. \A a \in at \cup {new} : a.index \in Nat /\ a.index <= new.index
    BY <2>5, <2>6
  <2>8. \A a, b \in at \cup {new} : a.name = b.name \/ a.index = b.index => a = b
    BY <2>5, <2>6 DEF AutomataOK
  <2>9. AutomataOK(at \cup {new})
    BY <2>5, <2>7, <2>8 DEF AutomataOK
  <2> QED
    BY <2>1, <2>9
<1> QED
  BY <1>1, <1>2

(* state_add() keeps the states, and their ids, apart within an automaton.  *)
LEMMA State_addKeeps ==
  ASSUME NEW ss, NEW name, NEW f, StatesOK(ss)
  PROVE  StatesOK(State_add(ss, name, f))
<1> DEFINE S == IdsOf(ss, f)
           new == [name |-> name, fsa |-> f, value |-> Highest(S) + 1]
<1>1. CASE \E s \in ss : s.fsa = f /\ s.name = name
  BY <1>1 DEF State_add
<1>2. CASE ~\E s \in ss : s.fsa = f /\ s.name = name
  <2>1. State_add(ss, name, f) = ss \cup {new}
    BY <1>2 DEF State_add
  <2>2. PICK n \in Nat : \A s \in ss : s.value <= n
    BY DEF StatesOK
  <2>3. S \in SUBSET Nat /\ \A k \in S : k <= n
    <3>1. \A k \in S : \E s \in ss : k = s.value
      BY DEF IdsOf
    <3>2. \A s \in ss : s.value \in Nat
      BY DEF StatesOK
    <3> QED
      BY <2>2, <3>1, <3>2
  <2>4. PICK h \in Nat : h = Highest(S) /\ \A k \in S : k <= h
    BY <2>2, <2>3, HighestBounds, Zenon
  <2>5. new.name = name /\ new.fsa = f /\ new.value = h + 1
    BY <2>4
  <2> HIDE DEF new
  <2>6. \A s \in ss : s.fsa = f => s.value < new.value /\ s.name # new.name
    <3> SUFFICES ASSUME NEW s \in ss, s.fsa = f PROVE s.value < new.value /\ s.name # new.name
      OBVIOUS
    <3>1. s.value \in Nat /\ s.value \in S
      BY Zenon DEF StatesOK, IdsOf
    <3>2. s.value <= h
      BY <2>4, <3>1, Zenon
    <3>3. s.name # new.name
      BY <1>2, <2>5, Zenon
    <3> HIDE DEF S
    <3> QED
      BY <2>5, <3>1, <3>2, <3>3
  <2>7. \E m \in Nat : \A s \in ss \cup {new} : s.value <= m
    <3>1. \A s \in ss \cup {new} : s.value <= n + new.value
      BY <2>2, <2>5 DEF StatesOK
    <3> QED
      BY <2>2, <2>5, <3>1
  <2>8. \A s, t \in ss \cup {new} : s.fsa = t.fsa /\ (s.name = t.name \/ s.value = t.value) => s = t
    BY <2>5, <2>6 DEF StatesOK
  <2>9. StatesOK(ss \cup {new})
    BY <2>5, <2>7, <2>8 DEF StatesOK
  <2> QED
    BY <2>1, <2>9
<1> QED
  BY <1>1, <1>2

(* state_addlist() gives a list of states that it does not find a new id.   *)
LEMMA State_addlistKeeps ==
  ASSUME NEW ls, NEW l, NEW f, ListsOK(ls)
  PROVE  ListsOK(State_addlist(ls, l, f))
<1> DEFINE S == {c.id : c \in ls}
           new == [id |-> Highest(S) + 1, fsa |-> f, states |-> l]
<1>1. CASE \E c \in ls : c.fsa = f /\ c.states = l
  BY <1>1 DEF State_addlist
<1>2. CASE ~\E c \in ls : c.fsa = f /\ c.states = l
  <2>1. State_addlist(ls, l, f) = ls \cup {new}
    BY <1>2 DEF State_addlist
  <2>2. PICK n \in Nat : \A c \in ls : c.id <= n
    BY DEF ListsOK
  <2>3. S \in SUBSET Nat /\ \A k \in S : k <= n
    BY <2>2 DEF ListsOK
  <2>4. PICK h \in Nat : h = Highest(S) /\ \A k \in S : k <= h
    BY <2>2, <2>3, HighestBounds, Zenon
  <2>5. new.fsa = f /\ new.states = l /\ new.id = h + 1
    BY <2>4
  <2> HIDE DEF new
  <2>6. \A c \in ls : c.id \in Nat /\ c.id < new.id /\ ~(c.fsa = new.fsa /\ c.states = new.states)
    <3> SUFFICES ASSUME NEW c \in ls
                 PROVE  c.id \in Nat /\ c.id < new.id /\ ~(c.fsa = new.fsa /\ c.states = new.states)
      OBVIOUS
    <3>1. c.id \in Nat /\ c.id \in S
      BY Zenon DEF ListsOK
    <3>2. c.id <= h
      BY <2>4, <3>1, Zenon
    <3>3. ~(c.fsa = new.fsa /\ c.states = new.states)
      BY <1>2, <2>5, Zenon
    <3> HIDE DEF S
    <3> QED
      BY <2>5, <3>1, <3>2, <3>3
  <2>7. \A c \in ls \cup {new} : c.id \in Nat \ {0} /\ c.id <= new.id
    BY <2>5, <2>6 DEF ListsOK
  <2>8. \A c, d \in ls \cup {new} : c.id = d.id \/ (c.fsa = d.fsa /\ c.states = d.states) => c = d
    BY <2>5, <2>6 DEF ListsOK
  <2>9. ListsOK(ls \cup {new})
    BY <2>5, <2>7, <2>8 DEF ListsOK
  <2> QED
    BY <2>1, <2>9
<1> QED
  BY <1>1, <1>2

(* The tables are empty, but for the anonymous automaton.                   *)
LEMMA InitTables == Init => TablesInv
<1> SUFFICES ASSUME Init PROVE TablesInv
  OBVIOUS
<1> DEFINE a0 == [name |-> Anonymous, index |-> 0]
<1>1. automata = {a0} /\ a0.index = 0 /\ states = {} /\ lists = {}
  BY DEF Init
<1> HIDE DEF a0
<1>2. AutomataOK(automata)
  <2>1. \A a \in automata : a.index \in Nat /\ a.index <= 0
    BY <1>1
  <2>2. \A a, b \in automata : a = b
    BY <1>1
  <2> QED
    BY <2>1, <2>2 DEF AutomataOK
<1>3. StatesOK(states) /\ ListsOK(lists)
  <2>1. 0 \in Nat
    OBVIOUS
  <2> QED
    BY <1>1, <2>1, Zenon DEF StatesOK, ListsOK
<1> QED
  BY <1>2, <1>3 DEF TablesInv

(* Only an item and the end of a list change the tables; they add to them.  *)
LEMMA NextTables == TablesInv /\ [Next]_vars => TablesInv'
<1> SUFFICES ASSUME TablesInv, [Next]_vars PROVE TablesInv'
  OBVIOUS
<1> USE DEF TablesInv
<1>1. CASE Item
  <2> DEFINE i == Def.items[item]
             named == fsa = NoFsa \/ i.machine # Anonymous
             at == IF named THEN Automaton_add(automata, i.machine) ELSE automata
             f == IF named THEN Automaton_find(at, i.machine).index ELSE fsa
             s1 == IF at = automata THEN states ELSE State_add(states, "", f)
  <2>1. automata' = at /\ states' = State_add(s1, i.state, f) /\ lists' = lists
    BY <1>1, Zenon DEF Item
  <2>2. AutomataOK(at)
    BY Automaton_addKeeps, Zenon
  <2>3. StatesOK(s1)
    BY State_addKeeps, Zenon
  <2>4. StatesOK(State_add(s1, i.state, f))
    BY <2>3, State_addKeeps, Zenon
  <2> QED
    BY <2>1, <2>2, <2>4, Zenon DEF AutomataOK, StatesOK, ListsOK
<1>2. CASE Define
  <2> DEFINE ls == IF Def.kind = "list" THEN State_addlist(lists, list, fsa) ELSE lists
  <2>1. lists' = ls /\ automata' = automata /\ states' = states
    BY <1>2, Zenon DEF Define
  <2>2. ListsOK(ls)
    BY State_addlistKeeps, Zenon
  <2> QED
    BY <2>1, <2>2, Zenon DEF AutomataOK, StatesOK, ListsOK
<1>3. CASE UNCHANGED tables
  BY <1>3, Zenon DEF tables, AutomataOK, StatesOK, ListsOK
<1>4. CASE SecondPass \/ Finish
  BY <1>3, <1>4, Zenon DEF SecondPass, Finish
<1>5. ASSUME NEW c \in program.changes, Enter(c) PROVE TablesInv'
  BY <1>3, <1>5, Zenon DEF Enter
<1>6. ASSUME NEW f \in program.calls, Call(f) PROVE TablesInv'
  BY <1>3, <1>6, Zenon DEF Call
<1>7. CASE UNCHANGED vars
  BY <1>3, <1>7, Zenon DEF vars
<1> QED
  BY <1>1, <1>2, <1>4, <1>5, <1>6, <1>7, Zenon DEF Next

(* The tables are so in every state of every compilation.                   *)
LEMMA TablesInvariant == Spec => []TablesInv
  BY InitTables, NextTables, PTL DEF Spec

(* IdsUnique for every set of programs: the selector of an automaton holds  *)
(* the id of one state of it, and a label belongs to one list of states.    *)
THEOREM UniqueIds == Spec => []IdsUnique
<1>1. TablesInv => IdsUnique
  <2> SUFFICES ASSUME TablesInv PROVE IdsUnique
    OBVIOUS
  <2>1. \A s \in states : s.value > 0
    BY DEF TablesInv, StatesOK
  <2> QED
    BY <2>1, Zenon DEF TablesInv, AutomataOK, StatesOK, ListsOK, IdsUnique
<1> QED
  BY <1>1, TablesInvariant, PTL

-----------------------------------------------------------------------------
(***************************************************************************)
(* What the tables say of a definition                                      *)
(***************************************************************************)
(* A set of natural numbers that is not empty has a least element.          *)
LEMMA LeastElement ==
  ASSUME NEW U \in SUBSET Nat, U # {}
  PROVE  \E x \in U : \A y \in U : x <= y
<1>1. PICK x \in U : \A y \in U : ~(<<y, x>> \in OpToRel(<, Nat))
  BY NatLessThanWellFounded, WFMin, Zenon
<1>2. \A y \in U : ~(y < x)
  BY <1>1, Zenon DEF OpToRel
<1> QED
  BY <1>2

(* The items up to the k-th that name an automaton                          *)
Named(d, k) == {j \in 1 .. k : d.items[j].machine # Anonymous}
(* The automaton of an item is the one it names, or that of the item        *)
(* before it.                                                               *)
LEMMA MachineStep ==
  ASSUME NEW d, NEW n \in Nat \ {0}
  PROVE  MachineOf(d, n) = IF d.items[n].machine # Anonymous THEN d.items[n].machine
                           ELSE IF n = 1 THEN Anonymous ELSE MachineOf(d, n - 1)
<1>0. \A k : MachineOf(d, k) = IF Named(d, k) = {} THEN Anonymous
                ELSE d.items[CHOOSE j \in Named(d, k) : \A i \in Named(d, k) : i <= j].machine
  BY DEF MachineOf, Named
<1>1. CASE d.items[n].machine # Anonymous
  <2>1. n \in Named(d, n) /\ \A i \in Named(d, n) : i <= n /\ i \in Nat
    BY <1>1 DEF Named
  <2> DEFINE j0 == CHOOSE j \in Named(d, n) : \A i \in Named(d, n) : i <= j
  <2>2. j0 \in Named(d, n) /\ \A i \in Named(d, n) : i <= j0
    BY <2>1, Zenon
  <2>3. j0 = n
    <3> HIDE DEF j0
    <3> QED
      BY <2>1, <2>2
  <2> QED
    BY <1>0, <1>1, <2>1, <2>3
<1>2. CASE d.items[n].machine = Anonymous
  <2>1. Named(d, n) = Named(d, n - 1)
    BY <1>2 DEF Named
  <2>2. MachineOf(d, n) = MachineOf(d, n - 1)
    BY <1>0, <2>1
  <2>3. n = 1 => MachineOf(d, n) = Anonymous
    <3>1. n = 1 => Named(d, n) = {}
      BY <1>2 DEF Named
    <3> QED
      BY <1>0, <3>1
  <2> QED
    BY <1>2, <2>2, <2>3
<1> QED
  BY <1>1, <1>2

(* state_buildlist() adds the id to the list and nothing else.              *)
LEMMA BuildlistAdds ==
  ASSUME NEW l \in Seq(Nat), NEW v \in Nat
  PROVE  /\ State_buildlist(l, v) \in Seq(Nat)
         /\ Range(State_buildlist(l, v)) = Range(l) \cup {v}
         /\ IsInjective(l) /\ v \notin Range(l) => IsInjective(State_buildlist(l, v))
<1> DEFINE U == {n \in 1 .. Len(l) + 1 : n <= Len(l) => l[n] >= v}
           p == InsertionPoint(l, v)
<1>1. p \in 1 .. Len(l) + 1
  <2>1. Len(l) + 1 \in U /\ U \in SUBSET Nat
    OBVIOUS
  <2>2. PICK n \in U : \A y \in U : n <= y
    BY <2>1, LeastElement, Zenon
  <2>3. n \in 1 .. Len(l) + 1 /\ (n <= Len(l) => l[n] >= v)
    OBVIOUS
  <2>4. \A k \in 1 .. n - 1 : l[k] < v
    <3> SUFFICES ASSUME NEW k \in 1 .. n - 1, ~(l[k] < v) PROVE FALSE
      OBVIOUS
    <3>1. k \in U /\ k < n
      BY <2>3
    <3> QED
      BY <2>2, <2>3, <3>1
  <2> QED
    BY <2>3, <2>4 DEF InsertionPoint
<1> HIDE DEF p
<1> DEFINE a == SubSeq(l, 1, p - 1)
           b == SubSeq(l, p, Len(l))
<1>2. /\ a \in Seq(Nat) /\ Len(a) = p - 1 /\ \A i \in 1 .. p - 1 : a[i] = l[i]
  <2>1. \A i \in 1 .. p - 1 : l[i] \in Nat
    BY <1>1
  <2> QED
    BY <1>1, <2>1, SubSeqProperties
<1>3. /\ b \in Seq(Nat) /\ Len(b) = Len(l) - p + 1 /\ \A i \in 1 .. Len(l) - p + 1 : b[i] = l[p + i - 1]
  <2>1. \A i \in p .. Len(l) : l[i] \in Nat
    BY <1>1
  <2> QED
    BY <1>1, <2>1, SubSeqProperties
<1> HIDE DEF a, b
<1>4. <<v>> \in Seq(Nat) /\ Len(<<v>>) = 1 /\ <<v>>[1] = v
  OBVIOUS
<1> DEFINE c == a \o <<v>>
<1>5. c \in Seq(Nat) /\ Len(c) = p /\ \A i \in 1 .. p : c[i] = IF i <= p - 1 THEN l[i] ELSE v
  BY <1>1, <1>2, <1>4, ConcatProperties
<1> HIDE DEF c
<1> DEFINE s == c \o b
<1>6. /\ s \in Seq(Nat) /\ Len(s) = Len(l) + 1
      /\ \A i \in 1 .. Len(l) + 1 : s[i] = IF i <= p THEN c[i] ELSE b[i - p]
  <2>1. /\ s \in Seq(Nat) /\ Len(s) = Len(c) + Len(b)
        /\ \A i \in 1 .. Len(c) + Len(b) : s[i] = IF i <= Len(c) THEN c[i] ELSE b[i - Len(c)]
    BY <1>3, <1>5, ConcatProperties
  <2>2. Len(c) = p /\ Len(c) + Len(b) = Len(l) + 1
    BY <1>1, <1>3, <1>5
  <2> HIDE DEF s
  <2> QED
    BY <2>1, <2>2
<1>7. State_buildlist(l, v) = s
  BY DEF State_buildlist, InsertAt, p, a, b, c
<1> HIDE DEF s
<1>8. \A i \in 1 .. Len(l) + 1 : s[i] = IF i < p THEN l[i] ELSE IF i = p THEN v ELSE l[i - 1]
  <2> TAKE i \in 1 .. Len(l) + 1
  <2>1. CASE i <= p
    BY <1>1, <1>5, <1>6, <2>1
  <2>2. CASE i > p
    <3>1. i - p \in 1 .. Len(l) - p + 1 /\ p + (i - p) - 1 = i - 1
      BY <1>1, <2>2
    <3>2. s[i] = b[i - p] /\ b[i - p] = l[p + (i - p) - 1]
      BY <1>1, <1>3, <1>6, <2>2, <3>1
    <3> QED
      BY <1>1, <2>2, <3>1, <3>2
  <2> QED
    BY <1>1, <2>1, <2>2
<1>9. Range(s) = {s[i] : i \in 1 .. Len(l) + 1} /\ Range(l) = {l[i] : i \in 1 .. Len(l)}
  BY <1>6 DEF Range
<1>10. Range(s) \subseteq Range(l) \cup {v}
  <2> SUFFICES ASSUME NEW i \in 1 .. Len(l) + 1 PROVE s[i] \in {l[j] : j \in 1 .. Len(l)} \cup {v}
    BY <1>9
  <2>1. i < p => i \in 1 .. Len(l)
    BY <1>1
  <2>2. i > p => i - 1 \in 1 .. Len(l)
    BY <1>1
  <2> QED
    BY <1>1, <1>8, <2>1, <2>2
<1>11. v \in Range(s)
  BY <1>1, <1>8, <1>9
<1>12. ASSUME NEW j \in 1 .. Len(l) PROVE l[j] \in Range(s)
  <2>1. CASE j < p
    BY <1>8, <1>9, <2>1
  <2>2. CASE j >= p
    <3>1. j + 1 \in 1 .. Len(l) + 1 /\ j + 1 > p /\ (j + 1) - 1 = j
      BY <1>1, <2>2
    <3>2. s[j + 1] = l[j]
      BY <1>1, <1>8, <3>1
    <3> QED
      BY <1>9, <3>1, <3>2
  <2> QED
    BY <1>1, <2>1, <2>2
<1>13. ASSUME IsInjective(l), v \notin Range(l) PROVE IsInjective(s)
  <2> SUFFICES ASSUME NEW i \in 1 .. Len(l) + 1, NEW j \in 1 .. Len(l) + 1, s[i] = s[j], i < j PROVE FALSE
    BY <1>6 DEF IsInjective
  <2>1. \A x \in 1 .. Len(l) : l[x] # v
    BY <1>9, <1>13
  <2>2. \A x, y \in 1 .. Len(l) : l[x] = l[y] => x = y
    BY <1>13 DEF IsInjective
  <2>3. \A x \in 1 .. Len(l) + 1 :
          (x < p => s[x] = l[x]) /\ (x = p => s[x] = v) /\ (x > p => s[x] = l[x - 1])
    BY <1>1, <1>8
  <2>4. /\ i < p => i \in 1 .. Len(l)
        /\ j < p => j \in 1 .. Len(l)
        /\ i > p => i - 1 \in 1 .. Len(l)
        /\ j > p => j - 1 \in 1 .. Len(l)
    BY <1>1
  <2>5. CASE j < p
    BY <1>1, <2>2, <2>3, <2>4, <2>5
  <2>6. CASE j = p
    BY <1>1, <2>1, <2>3, <2>4, <2>6
  <2>7. CASE j > p /\ i < p
    <3>1. l[i] = l[j - 1] /\ i \in 1 .. Len(l) /\ j - 1 \in 1 .. Len(l)
      BY <1>1, <2>3, <2>4, <2>7
    <3>2. i = j - 1
      BY <2>2, <3>1
    <3> QED
      BY <1>1, <2>7, <3>2
  <2>8. CASE j > p /\ i = p
    BY <1>1, <2>1, <2>3, <2>4, <2>8
  <2>9. CASE j > p /\ i > p
    <3>1. l[i - 1] = l[j - 1] /\ i - 1 \in 1 .. Len(l) /\ j - 1 \in 1 .. Len(l)
      BY <1>1, <2>3, <2>4, <2>9
    <3>2. i - 1 = j - 1
      BY <2>2, <3>1
    <3> QED
      BY <3>2
  <2> QED
    BY <1>1, <2>5, <2>6, <2>7, <2>8, <2>9
<1> QED
  BY <1>6, <1>7, <1>9, <1>10, <1>11, <1>12, <1>13

(* A state has one id, and an id of an automaton stands for one state.      *)
LEMMA HasUnique ==
  ASSUME NEW at, NEW ss, AutomataOK(at), StatesOK(ss), NEW m, NEW st, NEW v, Has(at, ss, m, st, v)
  PROVE  /\ \A w : Has(at, ss, m, st, w) => w = v
         /\ \A su : Has(at, ss, m, su, v) => su = st
         /\ v \in Nat
BY Zenon DEF Has, AutomataOK, StatesOK

(* Tables that grow keep what they had.                                     *)
LEMMA HasGrows ==
  ASSUME NEW at, NEW ss, NEW at2, NEW ss2, at \subseteq at2, ss \subseteq ss2,
         NEW m, NEW st, NEW v, Has(at, ss, m, st, v)
  PROVE  Has(at2, ss2, m, st, v)
BY Zenon DEF Has

(* The automaton that an item is of stays when automata are added.          *)
LEMMA FsaGrows ==
  ASSUME NEW at, NEW at2, at \subseteq at2, NEW d, NEW n, NEW x, FsaAt(at, d, n, x)
  PROVE  FsaAt(at2, d, n, x)
BY Zenon DEF FsaAt

(* The list that the items make stays when tables grow.                     *)
LEMMA GatherGrows ==
  ASSUME NEW at, NEW ss, NEW at2, NEW ss2, at \subseteq at2, ss \subseteq ss2,
         NEW d, NEW n, NEW l, Gather(at, ss, d, n, l)
  PROVE  Gather(at2, ss2, d, n, l)
<1>1. PICK f \in [0 .. n -> Seq(Nat)] :
        f[0] = <<>> /\ f[n] = l /\ \A i \in 1 .. n : Gathers(at, ss, d, f, i)
  BY Zenon DEF Gather
<1>2. \A i \in 1 .. n : Gathers(at2, ss2, d, f, i)
  <2> SUFFICES ASSUME NEW i \in 1 .. n PROVE Gathers(at2, ss2, d, f, i)
    OBVIOUS
  <2>1. PICK v \in Nat : Has(at, ss, MachineOf(d, i), d.items[i].state, v)
                         /\ f[i] = State_buildlist(f[i - 1], v)
    BY <1>1, Zenon DEF Gathers
  <2>2. Has(at2, ss2, MachineOf(d, i), d.items[i].state, v)
    BY <2>1, HasGrows
  <2> QED
    BY <2>1, <2>2, Zenon DEF Gathers
<1> QED
  BY <1>1, <1>2, Zenon DEF Gather

(* The id of a definition stays when tables grow.                           *)
LEMMA IdGrows ==
  ASSUME NEW at, NEW ss, NEW ls, NEW at2, NEW ss2, NEW ls2,
         at \subseteq at2, ss \subseteq ss2, ls \subseteq ls2, NEW d, NEW id, IsId(at, ss, ls, d, id)
  PROVE  IsId(at2, ss2, ls2, d, id)
<1>1. \A c : ListedAs(at, ss, d, c) => ListedAs(at2, ss2, d, c)
  BY FsaGrows, GatherGrows, Zenon DEF ListedAs
<1> QED
  BY <1>1, Zenon DEF IsId

(* The list of no item, and the list of one item more.                      *)
LEMMA GatherNone == ASSUME NEW at, NEW ss, NEW d PROVE Gather(at, ss, d, 0, <<>>)
<1> DEFINE f == [i \in 0 .. 0 |-> <<>>]
<1>1. f \in [0 .. 0 -> Seq(Nat)] /\ f[0] = <<>> /\ 1 .. 0 = {}
  BY EmptySeq
<1> QED
  BY <1>1, Zenon DEF Gather

(* One more item adds its id to the list.                                   *)
LEMMA GatherMore ==
  ASSUME NEW at, NEW ss, NEW d, NEW n \in Nat \ {0}, NEW l, Gather(at, ss, d, n - 1, l),
         NEW v \in Nat, Has(at, ss, MachineOf(d, n), d.items[n].state, v)
  PROVE  Gather(at, ss, d, n, State_buildlist(l, v))
<1>1. PICK f \in [0 .. n - 1 -> Seq(Nat)] :
        f[0] = <<>> /\ f[n - 1] = l /\ \A i \in 1 .. n - 1 : Gathers(at, ss, d, f, i)
  BY Zenon DEF Gather
<1> DEFINE g == [i \in 0 .. n |-> IF i = n THEN State_buildlist(l, v) ELSE f[i]]
<1>2. l \in Seq(Nat)
  BY <1>1
<1>3. State_buildlist(l, v) \in Seq(Nat)
  BY <1>2, BuildlistAdds
<1>4. g \in [0 .. n -> Seq(Nat)] /\ g[0] = <<>> /\ g[n] = State_buildlist(l, v)
  BY <1>1, <1>3
<1>5. \A i \in 0 .. n - 1 : g[i] = f[i]
  OBVIOUS
<1> HIDE DEF g
<1>6. ASSUME NEW i \in 1 .. n PROVE Gathers(at, ss, d, g, i)
  <2>1. CASE i = n
    <3>1. g[i - 1] = l
      BY <1>1, <1>5, <2>1
    <3> QED
      BY <1>4, <2>1, <3>1, Zenon DEF Gathers
  <2>2. CASE i # n
    <3>1. i \in 1 .. n - 1 /\ g[i] = f[i] /\ g[i - 1] = f[i - 1]
      BY <1>5, <2>2
    <3> QED
      BY <1>1, <3>1, Zenon DEF Gathers
  <2> QED
    BY <2>1, <2>2
<1> QED
  BY <1>4, <1>6, Zenon DEF Gather

(* The items of a definition make one list.                                 *)
LEMMA GatherUnique ==
  ASSUME NEW at, NEW ss, AutomataOK(at), StatesOK(ss), NEW d, NEW n \in Nat,
         NEW k, NEW l, Gather(at, ss, d, n, k), Gather(at, ss, d, n, l)
  PROVE  k = l
<1>1. PICK f \in [0 .. n -> Seq(Nat)] :
        f[0] = <<>> /\ f[n] = k /\ \A i \in 1 .. n : Gathers(at, ss, d, f, i)
  BY Zenon DEF Gather
<1>2. PICK g \in [0 .. n -> Seq(Nat)] :
        g[0] = <<>> /\ g[n] = l /\ \A i \in 1 .. n : Gathers(at, ss, d, g, i)
  BY Zenon DEF Gather
<1> DEFINE U == {i \in 0 .. n : f[i] # g[i]}
<1>3. U = {}
  <2> SUFFICES ASSUME U # {} PROVE FALSE
    OBVIOUS
  <2>1. U \in SUBSET Nat
    OBVIOUS
  <2>2. PICK i \in U : \A y \in U : i <= y
    BY <2>1, LeastElement, Zenon
  <2>3. i \in 1 .. n /\ i - 1 \in 0 .. n /\ ~(i <= i - 1)
    BY <1>1, <1>2
  <2>4. f[i - 1] = g[i - 1]
    BY <2>2, <2>3
  <2>5. PICK v \in Nat : Has(at, ss, MachineOf(d, i), d.items[i].state, v)
                         /\ f[i] = State_buildlist(f[i - 1], v)
    BY <1>1, <2>3, Zenon DEF Gathers
  <2>6. PICK w \in Nat : Has(at, ss, MachineOf(d, i), d.items[i].state, w)
                         /\ g[i] = State_buildlist(g[i - 1], w)
    BY <1>2, <2>3, Zenon DEF Gathers
  <2>7. v = w
    BY <2>5, <2>6, HasUnique, Zenon
  <2>8. f[i] = g[i]
    BY <2>4, <2>5, <2>6, <2>7, Zenon
  <2> QED
    BY <2>2, <2>8
<1>4. n \in 0 .. n
  OBVIOUS
<1> QED
  BY <1>1, <1>2, <1>3, <1>4

(* Its elements are the ids of the states of the items.                     *)
LEMMA GatherRange ==
  ASSUME NEW at, NEW ss, AutomataOK(at), StatesOK(ss), NEW d, NEW n \in Nat, NEW l, Gather(at, ss, d, n, l)
  PROVE  /\ l \in Seq(Nat)
         /\ \A v : v \in Range(l) <=> \E i \in 1 .. n : Has(at, ss, MachineOf(d, i), d.items[i].state, v)
         /\ \A i \in 1 .. n : \E v \in Range(l) : Has(at, ss, MachineOf(d, i), d.items[i].state, v)
<1>1. PICK f \in [0 .. n -> Seq(Nat)] :
        f[0] = <<>> /\ f[n] = l /\ \A i \in 1 .. n : Gathers(at, ss, d, f, i)
  BY Zenon DEF Gather
<1> DEFINE Of(i, v) == Has(at, ss, MachineOf(d, i), d.items[i].state, v)
           OK(m) == \A v : v \in Range(f[m]) <=> \E i \in 1 .. m : Of(i, v)
           U == {m \in 0 .. n : ~OK(m)}
<1>2. \A i \in 1 .. n : \E v \in Nat : Of(i, v) /\ f[i] = State_buildlist(f[i - 1], v)
  BY <1>1, Zenon DEF Gathers
<1>3. \A i, v, w : Of(i, v) /\ Of(i, w) => v = w
  BY HasUnique, Zenon
<1> HIDE DEF Of
<1>4. U = {}
  <2> SUFFICES ASSUME U # {} PROVE FALSE
    OBVIOUS
  <2>1. U \in SUBSET Nat
    OBVIOUS
  <2>2. PICK m \in U : \A y \in U : m <= y
    BY <2>1, LeastElement, Zenon
  <2>3. m \in 0 .. n /\ ~OK(m)
    OBVIOUS
  <2>4. m # 0
    <3>1. Range(f[0]) = {} /\ 1 .. 0 = {}
      BY <1>1 DEF Range
    <3> QED
      BY <2>3, <3>1
  <2>5. m \in 1 .. n /\ m - 1 \in 0 .. n /\ ~(m <= m - 1) /\ 1 .. m = (1 .. m - 1) \cup {m}
    BY <2>3, <2>4
  <2>6. OK(m - 1)
    BY <2>2, <2>5
  <2>7. PICK v \in Nat : Of(m, v) /\ f[m] = State_buildlist(f[m - 1], v)
    BY <1>2, <2>5
  <2>8. Range(f[m]) = Range(f[m - 1]) \cup {v}
    BY <1>1, <2>5, <2>7, BuildlistAdds
  <2>9. OK(m)
    <3> SUFFICES ASSUME NEW w PROVE w \in Range(f[m]) <=> \E i \in 1 .. m : Of(i, w)
      OBVIOUS
    <3>1. w \in Range(f[m]) <=> w \in Range(f[m - 1]) \/ w = v
      BY <2>8
    <3>2. w \in Range(f[m - 1]) <=> \E i \in 1 .. m - 1 : Of(i, w)
      BY <2>6
    <3>3. Of(m, w) <=> w = v
      BY <1>3, <2>7, Zenon
    <3>4. (\E i \in 1 .. m : Of(i, w)) <=> (\E i \in 1 .. m - 1 : Of(i, w)) \/ Of(m, w)
      BY <2>5
    <3> QED
      BY <3>1, <3>2, <3>3, <3>4, Zenon
  <2> QED
    BY <2>3, <2>9
<1>5. n \in 0 .. n
  OBVIOUS
<1>6. OK(n) /\ l \in Seq(Nat)
  BY <1>1, <1>4, <1>5
<1>7. \A i \in 1 .. n : \E v \in Range(l) : Of(i, v)
  BY <1>1, <1>2, <1>6, Zenon
<1> QED
  BY <1>1, <1>6, <1>7, Zenon DEF Of

(* A definition has one automaton, one list and so one id.                  *)
LEMMA FsaUnique ==
  ASSUME NEW at, AutomataOK(at), NEW d, NEW n, NEW x, NEW y, FsaAt(at, d, n, x), FsaAt(at, d, n, y)
  PROVE  x = y
BY Zenon DEF FsaAt, AutomataOK

(* IsIdUnique for the tables there are                                      *)
LEMMA IdUnique ==
  ASSUME TablesInv, TypeOK, NEW k \in DOMAIN program.defs, NEW i, NEW j, IdOf(k, i), IdOf(k, j)
  PROVE  i = j
<1> DEFINE d == program.defs[k]
<1>0. d \in Definition /\ Len(d.items) \in Nat
  <2>1. d \in Definition
    BY ProgramsAssumption DEF TypeOK
  <2>2. d.items \in Seq([machine : STRING, state : StateNames])
    BY <2>1 DEF Definition
  <2> QED
    BY <2>1, <2>2
<1>1. CASE d.kind # "list"
  BY <1>1 DEF IdOf, IsId
<1>2. CASE d.kind = "list"
  <2>1. PICK b \in lists : b.id = i /\ ListedAs(automata, states, d, b)
    BY <1>2 DEF IdOf, IsId
  <2>2. PICK c \in lists : c.id = j /\ ListedAs(automata, states, d, c)
    BY <1>2 DEF IdOf, IsId
  <2> HIDE DEF d
  <2>3. b.fsa = c.fsa
    BY <2>1, <2>2, FsaUnique, Zenon DEF ListedAs, TablesInv
  <2>4. b.states = c.states
    BY <1>0, <2>1, <2>2, GatherUnique, Zenon DEF ListedAs, TablesInv
  <2> QED
    BY <2>1, <2>2, <2>3, <2>4, Zenon DEF TablesInv, ListsOK
<1> QED
  BY <1>1, <1>2

(* The kind of a definition, from its id.                                   *)
LEMMA IdKind ==
  ASSUME TablesInv, NEW k, NEW id, IdOf(k, id)
  PROVE  /\ id \in Int
         /\ id = Stateless <=> program.defs[k].kind = "none"
         /\ id = Fallback <=> program.defs[k].kind = "fallback"
         /\ id \in Nat \ {0} <=> program.defs[k].kind = "list"
         /\ program.defs[k].kind = "list" =>
              \E c \in lists : /\ c.id = id /\ State_getlist(id) = c
                               /\ ListedAs(automata, states, program.defs[k], c)
<1>1. program.defs[k].kind \in {"none", "fallback"}
      => \/ program.defs[k].kind = "none" /\ id = Stateless
         \/ program.defs[k].kind = "fallback" /\ id = Fallback
  BY Zenon DEF IdOf, IsId
<1>2. CASE program.defs[k].kind = "list"
  <2>1. PICK c \in lists : c.id = id /\ ListedAs(automata, states, program.defs[k], c)
    BY <1>2 DEF IdOf, IsId
  <2>2. id \in Nat \ {0}
    BY <2>1, Zenon DEF TablesInv, ListsOK
  <2>3. State_getlist(id) = c
    BY <2>1, Zenon DEF State_getlist, TablesInv, ListsOK
  <2> QED
    BY <1>2, <2>1, <2>2, <2>3 DEF Stateless, Fallback
<1>3. CASE program.defs[k].kind # "list"
  <2>1. program.defs[k].kind \in {"none", "fallback"}
    BY <1>3 DEF IdOf, IsId
  <2> QED
    <3> DEFINE kind == program.defs[k].kind
    <3> HIDE DEF kind
    <3>1. \/ kind = "none" /\ id = Stateless
          \/ kind = "fallback" /\ id = Fallback
      BY <1>1, <2>1 DEF kind
    <3>2. CASE kind = "none" /\ id = Stateless
      BY <3>2 DEF kind, Stateless, Fallback
    <3>3. CASE kind = "fallback" /\ id = Fallback
      BY <3>3 DEF kind, Stateless, Fallback
    <3> QED
      BY <3>1, <3>2, <3>3
<1> QED
  BY <1>2, <1>3

-----------------------------------------------------------------------------
(***************************************************************************)
(* What a step does                                                         *)
(***************************************************************************)
(* What is looked up after it was added is there, with its name.            *)
LEMMA AutomatonAdded ==
  ASSUME NEW at, NEW name
  PROVE  /\ at \subseteq Automaton_add(at, name)
         /\ Automaton_find(Automaton_add(at, name), name) \in Automaton_add(at, name)
         /\ Automaton_find(Automaton_add(at, name), name).name = name
         /\ (\E a \in at : a.name = name) => Automaton_add(at, name) = at
<1> DEFINE new == [name |-> name, index |-> Highest({a.index : a \in at}) + 1]
<1>1. new.name = name
  OBVIOUS
<1>2. Automaton_add(at, name) = IF \E a \in at : a.name = name THEN at ELSE at \cup {new}
  BY DEF Automaton_add
<1> HIDE DEF new
<1>3. \E a \in Automaton_add(at, name) : a.name = name
  BY <1>1, <1>2
<1> QED
  BY <1>2, <1>3 DEF Automaton_find

(* state_add() adds the state at most, and state_find() finds it.           *)
LEMMA StateAdded ==
  ASSUME NEW ss, NEW name, NEW f
  PROVE  /\ ss \subseteq State_add(ss, name, f)
         /\ State_find(State_add(ss, name, f), name, f) \in State_add(ss, name, f)
         /\ State_find(State_add(ss, name, f), name, f).name = name
         /\ State_find(State_add(ss, name, f), name, f).fsa = f
         /\ \A s \in State_add(ss, name, f) : s \in ss \/ (s.name = name /\ s.fsa = f)
         /\ (\E s \in ss : s.fsa = f /\ s.name = name) => State_add(ss, name, f) = ss
<1> DEFINE new == [name |-> name, fsa |-> f, value |-> Highest(IdsOf(ss, f)) + 1]
<1>1. new.name = name /\ new.fsa = f
  OBVIOUS
<1>2. State_add(ss, name, f) = IF \E s \in ss : s.fsa = f /\ s.name = name THEN ss ELSE ss \cup {new}
  BY DEF State_add
<1> HIDE DEF new
<1>3. \E s \in State_add(ss, name, f) : s.fsa = f /\ s.name = name
  BY <1>1, <1>2
<1> QED
  BY <1>1, <1>2, <1>3 DEF State_find

(* state_addlist() adds the list at most, and its id is found.              *)
LEMMA ListAdded ==
  ASSUME NEW ls, NEW l, NEW f
  PROVE  /\ ls \subseteq State_addlist(ls, l, f)
         /\ LET c == CHOOSE c \in State_addlist(ls, l, f) : c.fsa = f /\ c.states = l
            IN  c \in State_addlist(ls, l, f) /\ c.fsa = f /\ c.states = l
         /\ \A c \in State_addlist(ls, l, f) : c \in ls \/ (c.fsa = f /\ c.states = l)
         /\ (\E c \in ls : c.fsa = f /\ c.states = l) => State_addlist(ls, l, f) = ls
<1> DEFINE new == [id |-> Highest({c.id : c \in ls}) + 1, fsa |-> f, states |-> l]
<1>1. new.fsa = f /\ new.states = l
  OBVIOUS
<1>2. State_addlist(ls, l, f) = IF \E c \in ls : c.fsa = f /\ c.states = l THEN ls ELSE ls \cup {new}
  BY DEF State_addlist
<1> HIDE DEF new
<1>3. \E c \in State_addlist(ls, l, f) : c.fsa = f /\ c.states = l
  BY <1>1, <1>2
<1> QED
  BY <1>1, <1>2, <1>3

(* The definition that is read.                                             *)
LEMMA DefFacts ==
  ASSUME TypeOK, NEW k \in DOMAIN program.defs
  PROVE  /\ program.defs[k].f \in FuncNames
         /\ program.defs[k].kind \in {"none", "fallback", "list"}
         /\ program.defs[k].forward \in BOOLEAN
         /\ Len(program.defs[k].items) \in Nat
         /\ DOMAIN program.defs[k].items = 1 .. Len(program.defs[k].items)
         /\ program.defs[k].kind = "list" <=> Len(program.defs[k].items) # 0
         /\ \A i \in 1 .. Len(program.defs[k].items) :
              program.defs[k].items[i].state \in StateNames
<1> DEFINE d == program.defs[k]
           Item0 == [machine : STRING, state : StateNames]
<1>1. d \in Definition /\ (d.kind = "list" <=> d.items # <<>>)
  BY ProgramsAssumption DEF TypeOK
<1>2. /\ d.f \in FuncNames /\ d.kind \in {"none", "fallback", "list"} /\ d.forward \in BOOLEAN
      /\ d.items \in Seq(Item0)
  BY <1>1 DEF Definition
<1> HIDE DEF d
<1>3. /\ Len(d.items) \in Nat /\ DOMAIN d.items = 1 .. Len(d.items) /\ (d.items # <<>> <=> Len(d.items) # 0)
      /\ \A i \in 1 .. Len(d.items) : d.items[i] \in Item0
  <2> DEFINE l == d.items
             T == Item0
  <2>1. l \in Seq(T)
    BY <1>2
  <2> HIDE DEF l, T
  <2>2. Len(l) \in Nat /\ DOMAIN l = 1 .. Len(l) /\ (l # <<>> <=> Len(l) # 0) /\ \A i \in 1 .. Len(l) : l[i] \in T
    BY <2>1
  <2> QED
    BY <2>2 DEF l, T
<1>4. \A i \in 1 .. Len(d.items) : d.items[i].state \in StateNames
  BY <1>3
<1> QED
  BY <1>1, <1>2, <1>3, <1>4 DEF d

(* The definitions are numbered from one.                                   *)
LEMMA DefsDomain == ASSUME TypeOK PROVE DOMAIN program.defs = 1 .. Len(program.defs) /\ Len(program.defs) \in Nat
  BY ProgramsAssumption DEF TypeOK

(* What getstates() does with an item, in either pass.                      *)
Met(a, v) ==
  /\ a \in automata' /\ a.name = MachineOf(Def, item) /\ a.index = fsa'
  /\ v \in Nat /\ Has(automata', states', MachineOf(Def, item), Def.items[item].state, v)
  /\ list' = State_buildlist(list, v)
  /\ \A s \in states' : s \in states \/ s.name = "" \/ (s.name = Def.items[item].state /\ s.fsa = a.index
                                                        /\ s.value = v)

(* What Item does: the tables have the item then, and in the second pass    *)
(* had it before.                                                           *)
LEMMA ItemEffect ==
  ASSUME TablesInv, TypeOK, ItemInv, KnownInv, Item
  PROVE  /\ pos \in DOMAIN program.defs /\ item \in 1 .. Len(Def.items) /\ Def.kind = "list"
         /\ automata \subseteq automata' /\ states \subseteq states' /\ lists' = lists
         /\ pass # "first" => automata' = automata /\ states' = states
         /\ says' = Reported(IF fsa \notin {NoFsa, fsa'} THEN {<<83, Def.f, "">>} ELSE {})
         /\ \E a, v : Met(a, v)
<1> DEFINE i == Def.items[item]
           named == fsa = NoFsa \/ i.machine # Anonymous
           at == IF named THEN Automaton_add(automata, i.machine) ELSE automata
           f == IF named THEN Automaton_find(at, i.machine).index ELSE fsa
           s1 == IF at = automata THEN states ELSE State_add(states, "", f)
           ss == State_add(s1, i.state, f)
           s == State_find(ss, i.state, f)
           owner == MachineOf(Def, item)
<1>1. /\ automata' = at /\ states' = ss /\ lists' = lists /\ fsa' = f
      /\ list' = State_buildlist(list, s.value)
      /\ says' = Reported(IF fsa \notin {NoFsa, f} THEN {<<83, Def.f, "">>} ELSE {})
      /\ Parsing /\ Def.kind = "list" /\ item <= Len(Def.items)
  BY Zenon DEF Item
<1>a. IF named THEN at = Automaton_add(automata, i.machine) /\ f = Automaton_find(at, i.machine).index
      ELSE at = automata /\ f = fsa
  OBVIOUS
<1>b. IF at = automata THEN s1 = states ELSE s1 = State_add(states, "", f)
  OBVIOUS
<1>c. ss = State_add(s1, i.state, f) /\ s = State_find(ss, i.state, f)
  OBVIOUS
<1> HIDE DEF at, f, s1, ss, s
<1> DEFINE added == Automaton_add(automata, i.machine)
           blank == State_add(states, "", f)
           both == State_add(s1, i.state, f)
<1>d. /\ automata \subseteq added /\ Automaton_find(added, i.machine) \in added
      /\ Automaton_find(added, i.machine).name = i.machine
      /\ (\E a \in automata : a.name = i.machine) => added = automata
  BY AutomatonAdded
<1>e. states \subseteq blank /\ \A t \in blank : t \in states \/ (t.name = "" /\ t.fsa = f)
  BY StateAdded
<1>f. /\ s1 \subseteq both /\ State_find(both, i.state, f) \in both
      /\ State_find(both, i.state, f).name = i.state /\ State_find(both, i.state, f).fsa = f
      /\ \A t \in both : t \in s1 \/ (t.name = i.state /\ t.fsa = f)
      /\ (\E t \in s1 : t.fsa = f /\ t.name = i.state) => both = s1
  BY StateAdded
<1> HIDE DEF added, blank, both
<1>2. pos \in DOMAIN program.defs /\ pos <= Len(program.defs)
  <2>1. pos <= Len(program.defs) /\ pos \in 1 .. Len(program.defs) + 1
    BY <1>1 DEF Parsing, TypeOK
  <2> QED
    BY <2>1, DefsDomain
<1>3. /\ item \in 1 .. Len(Def.items) + 1 /\ FsaAt(automata, Def, item - 1, fsa)
      /\ Gather(automata, states, Def, item - 1, list)
  BY <1>2, Zenon DEF ItemInv
<1>4. item \in Nat \ {0} /\ item \in 1 .. Len(Def.items)
  <2>1. Len(Def.items) \in Nat
    BY <1>2, DefFacts, Zenon DEF Def
  <2>2. QED
    <3>1. item <= Len(Def.items)
      BY <1>1, Zenon
    <3> HIDE DEF i
    <3> QED
      BY <1>3, <2>1, <3>1
<1>5. item = 1 <=> fsa = NoFsa
  <2>1. item = 1 => fsa = NoFsa
    BY <1>3 DEF FsaAt
  <2>2. item # 1 => fsa # NoFsa
    <3> SUFFICES ASSUME item # 1 PROVE fsa # NoFsa
      OBVIOUS
    <3>1. item - 1 # 0
      BY <1>4
    <3>2. PICK a \in automata : a.index = fsa
      BY <1>3, <3>1, Zenon DEF FsaAt
    <3>3. a.index \in Nat
      BY Zenon DEF TablesInv, AutomataOK
    <3> QED
      BY <3>2, <3>3 DEF NoFsa
  <2> QED
    BY <2>1, <2>2
<1>13. IF named THEN owner = i.machine ELSE owner = MachineOf(Def, item - 1) /\ item - 1 # 0
  <2>1. owner = IF i.machine # Anonymous THEN i.machine
                ELSE IF item = 1 THEN Anonymous ELSE MachineOf(Def, item - 1)
    BY <1>4, MachineStep
  <2>2. item - 1 # 0 <=> item # 1
    BY <1>4
  <2> HIDE DEF owner, i
  <2> QED
    BY <1>5, <2>1, <2>2
<1> HIDE DEF owner
<1>14. \E a \in at : a.name = owner /\ a.index = f
  <2>1. CASE named
    BY <1>a, <1>d, <1>13, <2>1 DEF added
  <2>2. CASE ~named
    <3>1. \E a \in automata : a.name = MachineOf(Def, item - 1) /\ a.index = fsa
      BY <1>3, <1>13, <2>2, Zenon DEF FsaAt
    <3> QED
      BY <1>a, <1>13, <2>2, <3>1, Zenon
  <2> QED
    BY <2>1, <2>2
<1>6. PICK a \in at : a.name = owner /\ a.index = f
  BY <1>14, Zenon
<1>7. automata \subseteq at
  BY <1>a, <1>d DEF added
<1>8. states \subseteq s1 /\ \A t \in s1 : t \in states \/ t.name = ""
  BY <1>b, <1>e DEF blank
<1>9. s1 \subseteq ss /\ s \in ss /\ s.name = i.state /\ s.fsa = f
      /\ \A t \in ss : t \in s1 \/ (t.name = i.state /\ t.fsa = f)
  BY <1>c, <1>f DEF both
<1>10. AutomataOK(at) /\ StatesOK(ss)
  <2>1. AutomataOK(at)
    BY <1>a, Automaton_addKeeps, Zenon DEF TablesInv
  <2>2. StatesOK(s1)
    BY <1>b, State_addKeeps, Zenon DEF TablesInv
  <2> QED
    BY <1>c, <2>1, <2>2, State_addKeeps, Zenon
<1>11. Met(a, s.value)
  <2>1. s.value \in Nat
    BY <1>9, <1>10 DEF StatesOK
  <2>2. Has(at, ss, owner, i.state, s.value)
    BY <1>6, <1>9, Zenon DEF Has
  <2>3. \A t \in ss : t \in states \/ t.name = "" \/ (t.name = i.state /\ t.fsa = a.index /\ t.value = s.value)
    <3> TAKE t \in ss
    <3>1. t.name = i.state /\ t.fsa = f => t = s
      BY <1>9, <1>10, Zenon DEF StatesOK
    <3> QED
      BY <1>6, <1>8, <1>9, <3>1, Zenon
  <2> QED
    BY <1>1, <1>6, <2>1, <2>2, <2>3, Zenon DEF Met, owner
<1>12. ASSUME pass # "first" PROVE at = automata /\ ss = states
  <2>1. pos \in 1 .. Seen
    BY <1>2, <1>12, DefsDomain DEF Seen
  <2>2. PICK id \in Int : IdOf(pos, id)
    BY <2>1, Zenon DEF KnownInv
  <2>3. PICK c \in lists : ListedAs(automata, states, Def, c)
    BY <1>1, <2>2 DEF IdOf, IsId, Def
  <2>4. \E v : Has(automata, states, owner, i.state, v)
    <3>1. Gather(automata, states, Def, Len(Def.items), c.states)
      BY <2>3, Zenon DEF ListedAs
    <3>2. Len(Def.items) \in Nat
      BY <1>2, DefFacts, Zenon DEF Def
    <3> QED
      BY <1>4, <3>1, <3>2, GatherRange, Zenon DEF TablesInv, owner
  <2>5. PICK b \in automata, t \in states : b.name = owner /\ t.fsa = b.index /\ t.name = i.state
    BY <2>4, Zenon DEF Has
  <2>6. at = automata
    BY <1>a, <1>d, <1>13, <2>5 DEF added
  <2>7. b = a
    BY <1>6, <2>5, <2>6, Zenon DEF TablesInv, AutomataOK
  <2> QED
    BY <1>6, <1>b, <1>c, <1>f, <2>5, <2>6, <2>7 DEF both
<1>15. states \subseteq ss
  BY <1>8, <1>9, Zenon
<1> QED
  BY <1>1, <1>2, <1>4, <1>7, <1>11, <1>12, <1>15, Zenon

(* What newfunc() and funcstub() do at the end of a list, in either pass:   *)
(* "id" is the list id of the definition.                                   *)
Places(f, id) ==
  IF Def.forward
  THEN /\ says' = Reported(IF id # Stateless THEN {<<231, f, "">>} ELSE {})
       /\ attached' = attached /\ defined' = defined /\ bodies' = bodies
  ELSE /\ says' = Reported(AttachErrors(f, id))
       /\ attached' = [attached EXCEPT ![f] = Attach(@, id)]
       /\ defined' = defined \cup {f}
       /\ bodies' = IF pass = "write" /\ Used(f) THEN bodies \cup {[f |-> f, id |-> id, def |-> pos]} ELSE bodies

(* What Define does: the tables have the list then, and the definition its  *)
(* id.                                                                      *)
LEMMA DefineEffect ==
  ASSUME TablesInv, TypeOK, ItemInv, KnownInv, Define
  PROVE  /\ pos \in DOMAIN program.defs /\ pass \in {"first", "write"}
         /\ Def.kind = "list" => item - 1 = Len(Def.items)
         /\ automata' = automata /\ states' = states /\ lists \subseteq lists'
         /\ pass # "first" => lists' = lists
         /\ \A c \in lists' : c \in lists \/ c.states = list
         /\ \E id \in Int : IsId(automata, states, lists', Def, id) /\ Places(Def.f, id)
<1> DEFINE ls == IF Def.kind = "list" THEN State_addlist(lists, list, fsa) ELSE lists
           found == CHOOSE c \in ls : c.fsa = fsa /\ c.states = list
           id == CASE Def.kind = "none" -> Stateless
                   [] Def.kind = "fallback" -> Fallback
                   [] Def.kind = "list" -> found.id
<1>1. /\ Parsing /\ (Def.kind = "list" => item > Len(Def.items))
      /\ lists' = ls /\ automata' = automata /\ states' = states /\ Places(Def.f, id)
  BY Zenon DEF Define, Places, symbols
<1>a. IF Def.kind = "list" THEN ls = State_addlist(lists, list, fsa) ELSE ls = lists
  OBVIOUS
<1>b. /\ Def.kind = "none" => id = Stateless
      /\ Def.kind = "fallback" => id = Fallback
      /\ Def.kind = "list" => id = found.id
  BY "none" # "fallback", "none" # "list", "fallback" # "list"
<1> DEFINE more == State_addlist(lists, list, fsa)
<1>c. /\ lists \subseteq more
      /\ LET c == CHOOSE c \in more : c.fsa = fsa /\ c.states = list
         IN  c \in more /\ c.fsa = fsa /\ c.states = list
      /\ \A c \in more : c \in lists \/ (c.fsa = fsa /\ c.states = list)
      /\ (\E c \in lists : c.fsa = fsa /\ c.states = list) => more = lists
  BY ListAdded
<1>d. Def.kind = "list" => ls = more /\ found \in more /\ found.fsa = fsa /\ found.states = list
  BY <1>c
<1> HIDE DEF ls, found, id, more
<1>2. pos \in DOMAIN program.defs /\ pos <= Len(program.defs) /\ pass \in {"first", "write"}
  <2>1. pos <= Len(program.defs) /\ pos \in 1 .. Len(program.defs) + 1 /\ pass \in {"first", "write"}
    BY <1>1 DEF Parsing, TypeOK
  <2> QED
    BY <2>1, DefsDomain
<1>3. /\ item \in 1 .. Len(Def.items) + 1 /\ FsaAt(automata, Def, item - 1, fsa)
      /\ Gather(automata, states, Def, item - 1, list)
  BY <1>2, Zenon DEF ItemInv
<1>4. Len(Def.items) \in Nat /\ Def.kind \in {"none", "fallback", "list"}
  BY <1>2, DefFacts, Zenon DEF Def
<1>5. Def.kind = "list" => item - 1 = Len(Def.items)
  <2>1. Def.kind = "list" => item > Len(Def.items)
    BY <1>1, Zenon
  <2> QED
    BY <1>3, <1>4, <2>1
<1>6. Def.kind = "list" => ListedAs(automata, states, Def, found) /\ found \in lists'
  BY <1>1, <1>3, <1>5, <1>d, Zenon DEF ListedAs
<1>7. IsId(automata, states, lists', Def, id)
  BY <1>4, <1>6, <1>b, Zenon DEF IsId
<1>8. ListsOK(ls)
  BY <1>a, State_addlistKeeps, Zenon DEF TablesInv
<1>9. id \in Int
  <2>1. Def.kind = "list" => found \in ls
    BY <1>d, Zenon
  <2> QED
    BY <1>4, <1>b, <1>8, <2>1 DEF ListsOK, Stateless, Fallback
<1>10. ASSUME pass # "first" PROVE ls = lists
  <2>1. CASE Def.kind = "list"
    <3>1. pos \in 1 .. Seen
      BY <1>2, <1>10, DefsDomain DEF Seen
    <3>2. PICK i0 \in Int : IdOf(pos, i0)
      BY <3>1, Zenon DEF KnownInv
    <3>3. PICK c \in lists : ListedAs(automata, states, Def, c)
      BY <2>1, <3>2 DEF IdOf, IsId, Def
    <3>4. FsaAt(automata, Def, Len(Def.items), c.fsa) /\ Gather(automata, states, Def, Len(Def.items), c.states)
      BY <3>3, Zenon DEF ListedAs
    <3>5. FsaAt(automata, Def, Len(Def.items), fsa) /\ Gather(automata, states, Def, Len(Def.items), list)
      BY <1>3, <1>5, <2>1, Zenon
    <3>6. c.fsa = fsa
      BY <3>4, <3>5, FsaUnique, Zenon DEF TablesInv
    <3>7. c.states = list
      BY <1>4, <3>4, <3>5, GatherUnique, Zenon DEF TablesInv
    <3> QED
      BY <1>c, <1>d, <2>1, <3>6, <3>7, Zenon
  <2>2. CASE Def.kind # "list"
    BY <1>a, <2>2, Zenon
  <2> QED
    BY <2>1, <2>2
<1>11. lists \subseteq ls /\ \A c \in ls : c \in lists \/ c.states = list
  <2>1. ls = more \/ ls = lists
    BY <1>a, Zenon DEF more
  <2> QED
    BY <1>c, <2>1
<1> QED
  BY <1>1, <1>2, <1>5, <1>7, <1>9, <1>10, <1>11, Zenon

(* A definition has one id, whatever the tables.                            *)
LEMMA IsIdUnique ==
  ASSUME NEW at, NEW ss, NEW ls, AutomataOK(at), StatesOK(ss), ListsOK(ls),
         NEW d, Len(d.items) \in Nat, NEW i, NEW j, IsId(at, ss, ls, d, i), IsId(at, ss, ls, d, j)
  PROVE  i = j
<1>1. CASE d.kind # "list"
  BY <1>1 DEF IsId
<1>2. CASE d.kind = "list"
  <2>1. PICK b \in ls : b.id = i /\ ListedAs(at, ss, d, b)
    BY <1>2 DEF IsId
  <2>2. PICK c \in ls : c.id = j /\ ListedAs(at, ss, d, c)
    BY <1>2 DEF IsId
  <2>3. b.fsa = c.fsa
    BY <2>1, <2>2, FsaUnique, Zenon DEF ListedAs
  <2>4. b.states = c.states
    BY <2>1, <2>2, GatherUnique, Zenon DEF ListedAs
  <2> QED
    BY <2>1, <2>2, <2>3, <2>4, Zenon DEF ListsOK
<1> QED
  BY <1>1, <1>2

(* The tables only grow, and after the first pass they do not change.       *)
LEMMA NextGrows ==
  ASSUME TablesInv, TypeOK, ItemInv, KnownInv, [Next]_vars
  PROVE  /\ program' = program
         /\ automata \subseteq automata' /\ states \subseteq states' /\ lists \subseteq lists'
         /\ pass # "first" => automata' = automata /\ states' = states /\ lists' = lists
<1>1. CASE Item
  <2>1. program' = program
    BY <1>1, Zenon DEF Item
  <2> QED
    BY <1>1, <2>1, ItemEffect
<1>2. CASE Define
  <2>1. program' = program
    BY <1>2, Zenon DEF Define
  <2> QED
    BY <1>2, <2>1, DefineEffect
<1>3. CASE UNCHANGED <<program, tables>>
  BY <1>3 DEF tables
<1>4. CASE SecondPass \/ Finish
  BY <1>3, <1>4, Zenon DEF SecondPass, Finish
<1>5. ASSUME NEW c \in program.changes, Enter(c) PROVE UNCHANGED <<program, tables>>
  BY <1>5, Zenon DEF Enter
<1>6. ASSUME NEW f \in program.calls, Call(f) PROVE UNCHANGED <<program, tables>>
  BY <1>6, Zenon DEF Call
<1>7. CASE UNCHANGED vars
  BY <1>3, <1>7, Zenon DEF vars
<1> QED
  BY <1>1, <1>2, <1>3, <1>4, <1>5, <1>6, <1>7, Zenon DEF Next

(* The ids of what has been read stay as they are.                          *)
LEMMA IdKept ==
  ASSUME TablesInv, TypeOK, ItemInv, KnownInv, [Next]_vars, NEW k \in 1 .. Seen, NEW id
  PROVE  IdOf(k, id)' <=> IdOf(k, id)
<1>0. TablesInv'
  BY NextTables
<1>1. /\ program' = program
      /\ automata \subseteq automata' /\ states \subseteq states' /\ lists \subseteq lists'
  BY NextGrows
<1>2. \A i : IsId(automata, states, lists, program.defs[k], i)
             => IsId(automata', states', lists', program.defs[k], i)
  BY <1>1, IdGrows
<1>3. PICK i0 \in Int : IsId(automata, states, lists, program.defs[k], i0)
  BY Zenon DEF KnownInv, IdOf
<1>4. k \in DOMAIN program.defs
  BY DefsDomain DEF Seen, TypeOK
<1>5. Len(program.defs[k].items) \in Nat
  BY <1>4, DefFacts, Zenon
<1>6. IsId(automata', states', lists', program.defs[k], id) => id = i0
  BY <1>0, <1>2, <1>3, <1>5, IsIdUnique, Zenon DEF TablesInv
<1> QED
  BY <1>1, <1>2, <1>3, <1>6, Zenon DEF IdOf

(* The steps that read no definition.                                       *)
Idle ==
  /\ UNCHANGED <<program, pos, item, fsa, list, automata, states, lists, attached, defined>>
  /\ pass' = pass \/ (pass # "first" /\ pass' \in {"run", "halted"})

(* The steps that the tables do not tell apart are one case.                *)
LEMMA NextCases == ASSUME [Next]_vars PROVE Item \/ Define \/ SecondPass \/ Idle
<1>1. CASE Finish
  <2>1. pass = "write" /\ pass' = "run" /\ UNCHANGED <<program, pos, item, fsa, list, tables, symbols>>
    BY <1>1, Zenon DEF Finish
  <2> QED
    BY <2>1 DEF Idle, tables, symbols
<1>2. ASSUME NEW c \in program.changes, Enter(c) PROVE Idle
  <2>1. UNCHANGED <<program, parser, tables, symbols>>
    BY <1>2, Zenon DEF Enter
  <2> QED
    BY <2>1 DEF Idle, parser, tables, symbols
<1>3. ASSUME NEW f \in program.calls, Call(f) PROVE Idle
  <2>1. UNCHANGED <<program, pos, item, fsa, list, tables, symbols>>
    BY <1>3, Zenon DEF Call
  <2>2. pass = "run" /\ \E id \in Targets(f) : pass' = IF id \in {Nostate, Beyond} THEN "halted" ELSE "run"
    BY <1>3, Zenon DEF Call, Running
  <2> QED
    BY <2>1, <2>2 DEF Idle, tables, symbols
<1>4. CASE UNCHANGED vars
  BY <1>4 DEF vars, Idle, parser, tables, symbols
<1> QED
  BY <1>1, <1>2, <1>3, <1>4, Zenon DEF Next

(* attachstatelist() adds an id that is not there, and marks it as placed.  *)
Entries == [id : Int, placed : BOOLEAN]
Adds(s, id, t) ==
  /\ \A x \in DOMAIN s : /\ x \in DOMAIN t /\ t[x].id = s[x].id
                         /\ t[x].placed <=> s[x].placed \/ s[x].id = id
  /\ \A x \in DOMAIN t : x \in DOMAIN s \/ (t[x].id = id /\ t[x].placed)
  /\ \E x \in DOMAIN t : t[x].id = id
  /\ (\E x \in DOMAIN s : s[x].id = id) => DOMAIN t = DOMAIN s
  /\ (\A x \in DOMAIN s : s[x].id # id) => \E z : DOMAIN t \subseteq DOMAIN s \cup {z}

(* attachstatelist() adds the id or marks it as placed.                     *)
LEMMA AttachEffect ==
  ASSUME NEW s, NEW id, NEW t, s \in Seq(Entries), id \in Int, t = Attach(s, id)
  PROVE  /\ t \in Seq(Entries)
         /\ id = Stateless => t = s
         /\ id # Stateless => Adds(s, id, t)
<1>0. \A x \in DOMAIN s : s[x].id \in Int /\ s[x].placed \in BOOLEAN /\ s[x] \in Entries
  <2>1. \A x \in DOMAIN s : s[x] \in Entries
    OBVIOUS
  <2>2. \A e \in Entries : e.id \in Int /\ e.placed \in BOOLEAN
    BY DEF Entries
  <2> QED
    BY <2>1, <2>2, Zenon
<1>1. CASE id = Stateless
  BY <1>1 DEF Attach
<1>2. CASE id # Stateless /\ \E k \in DOMAIN s : s[k].id = id
  <2> DEFINE u == [k \in DOMAIN s |-> IF s[k].id = id THEN [s[k] EXCEPT !.placed = TRUE] ELSE s[k]]
  <2>1. t = u
    BY <1>2 DEF Attach
  <2>2. DOMAIN u = DOMAIN s
    OBVIOUS
  <2>3. \A x \in DOMAIN s : u[x] \in Entries /\ u[x].id = s[x].id /\ (s[x].id = id => u[x].placed = TRUE)
                            /\ (s[x].id # id => u[x] = s[x])
    <3> SUFFICES ASSUME NEW x \in DOMAIN s
                 PROVE  /\ u[x] \in Entries /\ u[x].id = s[x].id /\ (s[x].id = id => u[x].placed = TRUE)
                        /\ (s[x].id # id => u[x] = s[x])
      BY Zenon
    <3>1. u[x] = IF s[x].id = id THEN [s[x] EXCEPT !.placed = TRUE] ELSE s[x]
      OBVIOUS
    <3>2. s[x] \in Entries
      BY <1>0
    <3> HIDE DEF u
    <3> QED
      BY <3>1, <3>2 DEF Entries
  <2> HIDE DEF u
  <2>4. u \in Seq(Entries)
    <3>1. DOMAIN s = 1 .. Len(s) /\ Len(s) \in Nat
      OBVIOUS
    <3>2. u = [x \in 1 .. Len(s) |-> u[x]]
      BY <2>2, <3>1 DEF u
    <3> QED
      BY <2>3, <3>1, <3>2
  <2>5. \A x \in DOMAIN s : u[x].placed <=> s[x].placed \/ s[x].id = id
    BY <2>3, Zenon
  <2> QED
    BY <1>2, <2>1, <2>2, <2>3, <2>4, <2>5, Zenon DEF Adds
<1>3. CASE id # Stateless /\ ~\E k \in DOMAIN s : s[k].id = id
  <2> DEFINE e == [id |-> id, placed |-> TRUE]
             u == Append(s, e)
  <2>1. t = u
    BY <1>3 DEF Attach
  <2>2. e \in Entries /\ e.id = id /\ e.placed = TRUE
    BY DEF Entries
  <2> HIDE DEF e
  <2>3. u \in Seq(Entries) /\ DOMAIN u = DOMAIN s \cup {Len(s) + 1} /\ u[Len(s) + 1] = e
        /\ \A x \in DOMAIN s : u[x] = s[x]
    BY <2>2
  <2> HIDE DEF u
  <2>4. \A x \in DOMAIN s : u[x].placed <=> s[x].placed \/ s[x].id = id
    BY <1>3, <2>3, Zenon
  <2>5. \A x \in DOMAIN u : x \in DOMAIN s \/ x = Len(s) + 1
    BY <2>3
  <2>6. Len(s) + 1 \in DOMAIN u
    BY <2>3
  <2>7. \A x \in DOMAIN s : x \in DOMAIN u
    BY <2>3
  <2>8. u[Len(s) + 1].id = id /\ u[Len(s) + 1].placed
    BY <2>2, <2>3, Zenon
  <2>9. DOMAIN u \subseteq DOMAIN s \cup {Len(s) + 1}
    BY <2>3
  <2>10. \A x \in DOMAIN u : x \in DOMAIN s \/ (u[x].id = id /\ u[x].placed)
    BY <2>5, <2>8, Zenon
  <2>11. \E z : DOMAIN u \subseteq DOMAIN s \cup {z}
    BY <2>9, Zenon
  <2> QED
    BY <1>3, <2>1, <2>3, <2>4, <2>6, <2>7, <2>8, <2>10, <2>11, Zenon DEF Adds
<1> QED
  BY <1>1, <1>2, <1>3, Zenon

(* What is attached to the functions after a definition.                    *)
LEMMA PlacesEffect ==
  ASSUME TypeOK, pos \in DOMAIN program.defs, NEW id \in Int, Places(Def.f, id)
  PROVE  /\ attached' \in [FuncNames -> Seq(Entries)]
         /\ \A g \in FuncNames : attached'[g] = IF g = Def.f /\ ~Def.forward THEN Attach(attached[g], id)
                                                ELSE attached[g]
         /\ defined' = IF Def.forward THEN defined ELSE defined \cup {Def.f}
<1>1. Def.f \in FuncNames /\ Def.forward \in BOOLEAN
  BY DefFacts, Zenon DEF Def
<1>2. attached \in [FuncNames -> Seq(Entries)]
  BY DEF TypeOK, Entries
<1>3. Attach(attached[Def.f], id) \in Seq(Entries)
  BY <1>1, <1>2, AttachEffect
<1>4. CASE Def.forward
  BY <1>2, <1>4 DEF Places
<1>5. CASE ~Def.forward
  BY <1>1, <1>2, <1>3, <1>5 DEF Places
<1> QED
  BY <1>4, <1>5

(* What SecondPass does to the parser and the functions: no id is placed    *)
(* any more.                                                                *)
LEMMA SecondPassEffect ==
  ASSUME TypeOK, ItemInv, SecondPass
  PROVE  /\ pass = "first" /\ pass' = "write" /\ pos = Len(program.defs) + 1 /\ pos' = 1
         /\ UNCHANGED <<program, item, fsa, list, automata, states, lists>>
         /\ item = 1 /\ fsa = NoFsa /\ list = <<>>
         /\ defined' = {} /\ attached' \in [FuncNames -> Seq(Entries)]
         /\ \A f \in FuncNames : /\ DOMAIN attached'[f] = DOMAIN attached[f]
                                 /\ \A x \in DOMAIN attached[f] : /\ attached'[f][x].id = attached[f][x].id
                                                                  /\ ~attached'[f][x].placed
<1>1. /\ pass = "first" /\ pass' = "write" /\ pos > Len(program.defs) /\ pos' = 1
      /\ UNCHANGED <<program, item, fsa, list, tables>> /\ defined' = {}
      /\ attached' = [f \in FuncNames |-> [k \in DOMAIN attached[f] |->
                                            [attached[f][k] EXCEPT !.placed = FALSE]]]
  BY Zenon DEF SecondPass
<1>2. pos = Len(program.defs) + 1 /\ ~(pos <= Len(program.defs))
  BY <1>1, DefsDomain DEF TypeOK
<1>3. item = 1 /\ fsa = NoFsa /\ list = <<>>
  BY <1>2, Zenon DEF ItemInv
<1>4. ASSUME NEW f \in FuncNames
      PROVE  /\ attached'[f] \in Seq(Entries) /\ DOMAIN attached'[f] = DOMAIN attached[f]
             /\ \A x \in DOMAIN attached[f] : /\ attached'[f][x].id = attached[f][x].id
                                              /\ ~attached'[f][x].placed
  <2> DEFINE s == attached[f]
             t == [k \in DOMAIN s |-> [s[k] EXCEPT !.placed = FALSE]]
  <2>1. attached'[f] = t /\ s \in Seq(Entries)
    BY <1>1 DEF TypeOK, Entries
  <2>2. \A x \in DOMAIN s : s[x] \in Entries
    BY <2>1
  <2>3. DOMAIN t = DOMAIN s /\ \A x \in DOMAIN s : t[x] \in Entries /\ t[x].id = s[x].id /\ t[x].placed = FALSE
    BY <2>2 DEF Entries
  <2>4. DOMAIN s = 1 .. Len(s) /\ Len(s) \in Nat
    BY <2>1
  <2>5. t = [x \in 1 .. Len(s) |-> t[x]]
    BY <2>4
  <2> HIDE DEF s, t
  <2>6. t \in Seq(Entries)
    BY <2>3, <2>4, <2>5
  <2> QED
    BY <2>1, <2>3, <2>6, Zenon DEF s
<1>5. attached' \in [FuncNames -> Seq(Entries)]
  <2>1. attached' = [f \in FuncNames |-> attached'[f]]
    BY <1>1
  <2> QED
    BY <1>4, <2>1
<1> QED
  BY <1>1, <1>2, <1>3, <1>4, <1>5 DEF tables

-----------------------------------------------------------------------------
(***************************************************************************)
(* The definitions that have been read: getstates()                         *)
(***************************************************************************)
(* Every step keeps the types.                                              *)
LEMMA NextType ==
  ASSUME TablesInv, TypeOK, ItemInv, KnownInv, [Next]_vars
  PROVE  TypeOK'
<1>0. program' = program /\ DOMAIN program.defs = 1 .. Len(program.defs) /\ Len(program.defs) \in Nat
  BY NextGrows, DefsDomain
<1>1. CASE Item
  <2>1. UNCHANGED <<pass, pos, lists, attached>>
    BY <1>1, Zenon DEF Item, symbols
  <2>2. PICK a, v : Met(a, v)
    BY <1>1, ItemEffect
  <2>3. v \in Nat /\ list' = State_buildlist(list, v)
    BY <2>2, Zenon DEF Met
  <2>4. list' \in Seq(Nat)
    BY <2>3, BuildlistAdds DEF TypeOK
  <2> QED
    BY <1>0, <2>1, <2>4 DEF TypeOK
<1>2. CASE Define
  <2>1. pass' = pass /\ pos' = pos + 1 /\ list' = <<>>
    BY <1>2, Zenon DEF Define
  <2>2. pos \in DOMAIN program.defs /\ \A c \in lists' : c \in lists \/ c.states = list
    BY <1>2, DefineEffect
  <2>3. PICK id \in Int : Places(Def.f, id)
    BY <1>2, DefineEffect, Zenon
  <2>4. attached' \in [FuncNames -> Seq(Entries)]
    BY <2>2, <2>3, PlacesEffect
  <2>5. \A c \in lists' : c.states \in Seq(Nat)
    BY <2>2, Zenon DEF TypeOK
  <2>6. pos' \in 1 .. Len(program.defs) + 1
    BY <1>0, <2>1, <2>2
  <2> QED
    BY <1>0, <2>1, <2>4, <2>5, <2>6, EmptySeq DEF TypeOK, Entries
<1>3. CASE SecondPass
  <2>1. /\ pass' = "write" /\ pos' = 1 /\ UNCHANGED <<list, lists>>
        /\ attached' \in [FuncNames -> Seq(Entries)]
    BY <1>3, SecondPassEffect
  <2> QED
    BY <1>0, <2>1 DEF TypeOK, Entries
<1>4. CASE Idle
  BY <1>4 DEF TypeOK, Idle
<1> QED
  BY <1>1, <1>2, <1>3, <1>4, NextCases

(* Every step keeps what is known of the list that is read.                 *)
LEMMA NextItem ==
  ASSUME TablesInv, TypeOK, ItemInv, KnownInv, [Next]_vars
  PROVE  ItemInv'
<1>0. program' = program /\ DOMAIN program.defs = 1 .. Len(program.defs) /\ Len(program.defs) \in Nat
      /\ automata \subseteq automata' /\ states \subseteq states'
  BY NextGrows, DefsDomain
<1>1. CASE Item
  <2>1. pos' = pos /\ item' = item + 1
    BY <1>1, Zenon DEF Item
  <2>2. pos \in DOMAIN program.defs /\ item \in 1 .. Len(Def.items)
    BY <1>1, ItemEffect
  <2>3. Len(Def.items) \in Nat
    BY <2>2, DefFacts, Zenon DEF Def
  <2>4. PICK a, v : Met(a, v)
    BY <1>1, ItemEffect
  <2>5. item \in Nat \ {0} /\ item' - 1 = item /\ item' \in 1 .. Len(Def.items) + 1 /\ item # 0
    BY <2>1, <2>2, <2>3
  <2>6. FsaAt(automata', Def, item' - 1, fsa')
    BY <2>4, <2>5, Zenon DEF Met, FsaAt
  <2>7. pos <= Len(program.defs)
    BY <1>0, <2>2
  <2>8. Gather(automata', states', Def, item' - 1, list')
    <3>1. Gather(automata, states, Def, item - 1, list)
      BY <2>7, Zenon DEF ItemInv
    <3>2. Gather(automata', states', Def, item - 1, list)
      BY <1>0, <3>1, GatherGrows
    <3>3. v \in Nat /\ Has(automata', states', MachineOf(Def, item), Def.items[item].state, v)
          /\ list' = State_buildlist(list, v)
      BY <2>4, Zenon DEF Met
    <3>4. Gather(automata', states', Def, item, State_buildlist(list, v))
      BY <2>5, <3>2, <3>3, GatherMore
    <3> QED
      BY <2>5, <3>3, <3>4, Zenon
  <2>9. Def' = Def
    BY <1>0, <2>1, Zenon DEF Def
  <2> QED
    BY <2>1, <2>5, <2>6, <2>7, <2>8, <2>9, <1>0, Zenon DEF ItemInv
<1>2. CASE item' = 1 /\ fsa' = NoFsa /\ list' = <<>> /\ pos' \in Nat
  <2>1. item' - 1 = 0
    BY <1>2
  <2>2. FsaAt(automata', Def', item' - 1, fsa')
    BY <1>2, <2>1 DEF FsaAt
  <2>3. Gather(automata', states', Def', item' - 1, list')
    BY <1>2, <2>1, GatherNone
  <2>4. pos' <= Len(program'.defs) => item' \in 1 .. Len(Def'.items) + 1
    <3> SUFFICES ASSUME pos' <= Len(program'.defs) PROVE item' \in 1 .. Len(Def'.items) + 1
      OBVIOUS
    <3>1. CASE pos' \in DOMAIN program.defs
      <4>1. Len(program.defs[pos'].items) \in Nat
        BY <3>1, DefFacts
      <4> QED
        BY <1>0, <1>2, <4>1 DEF Def
    <3>2. CASE pos' = 0
      <4>1. TypeOK'
        BY NextType
      <4> QED
        BY <1>0, <3>2, <4>1 DEF TypeOK
    <3> QED
      BY <1>0, <1>2, <3>1, <3>2
  <2> QED
    BY <1>2, <2>2, <2>3, <2>4, Zenon DEF ItemInv
<1>3. CASE Define
  <2>1. item' = 1 /\ fsa' = NoFsa /\ list' = <<>> /\ pos' = pos + 1
    BY <1>3, Zenon DEF Define
  <2> QED
    BY <1>0, <1>2, <2>1 DEF TypeOK
<1>4. CASE SecondPass
  BY <1>2, <1>4, SecondPassEffect
<1>5. CASE Idle
  BY <1>5 DEF ItemInv, Idle, Def
<1> QED
  BY <1>1, <1>3, <1>4, <1>5, NextCases

(* How far the definitions have been read.                                  *)
LEMMA NextSeen ==
  ASSUME TablesInv, TypeOK, ItemInv, KnownInv, [Next]_vars
  PROVE  /\ Seen \in 0 .. Len(program.defs) /\ Seen' = IF Define /\ pass = "first" THEN pos ELSE Seen
         /\ pass = "first" => Seen = pos - 1
         /\ pass # "first" => Seen = Len(program.defs)
         /\ \A k \in 1 .. Len(program.defs) : k < pos => k \in 1 .. Seen
<1>0. program' = program /\ DOMAIN program.defs = 1 .. Len(program.defs) /\ Len(program.defs) \in Nat
      /\ pos \in 1 .. Len(program.defs) + 1
  BY NextGrows, DefsDomain DEF TypeOK
<1>1. /\ Seen \in 0 .. Len(program.defs)
      /\ pass = "first" => Seen = pos - 1
      /\ pass # "first" => Seen = Len(program.defs)
      /\ \A k \in 1 .. Len(program.defs) : k < pos => k \in 1 .. Seen
  BY <1>0 DEF Seen
<1>2. CASE Item
  <2>1. UNCHANGED <<pass, pos>> /\ ~Define
    <3>1. UNCHANGED <<pass, pos>> /\ Def.kind = "list" /\ item <= Len(Def.items)
      BY <1>2, Zenon DEF Item
    <3>2. Define => pos' = pos + 1
      BY Zenon DEF Define
    <3> QED
      BY <1>0, <3>1, <3>2
  <2> QED
    BY <1>0, <1>1, <2>1 DEF Seen
<1>3. CASE Define
  <2>1. pass' = pass /\ pos' = pos + 1
    BY <1>3, Zenon DEF Define
  <2> QED
    BY <1>0, <1>1, <1>3, <2>1 DEF Seen
<1>4. CASE SecondPass
  <2>1. pass = "first" /\ pass' = "write" /\ pos = Len(program.defs) + 1 /\ pos' = 1
    BY <1>4, SecondPassEffect
  <2>2. ~Define
    <3>1. Define => pos' = pos + 1
      BY Zenon DEF Define
    <3> QED
      BY <1>0, <2>1, <3>1
  <2> QED
    BY <1>0, <1>1, <2>1, <2>2 DEF Seen
<1>5. CASE Idle
  <2>1. ~Define
    <3>1. Define => pos' = pos + 1
      BY Zenon DEF Define
    <3> QED
      BY <1>0, <1>5, <3>1 DEF Idle
  <2> QED
    BY <1>0, <1>1, <1>5, <2>1 DEF Idle, Seen
<1> QED
  BY <1>2, <1>3, <1>4, <1>5, NextCases

(* Every step keeps the ids of the definitions that have been read.         *)
LEMMA NextKnown ==
  ASSUME TablesInv, TypeOK, ItemInv, KnownInv, [Next]_vars
  PROVE  KnownInv'
<1>1. /\ Seen \in 0 .. Len(program.defs) /\ Seen' = IF Define /\ pass = "first" THEN pos ELSE Seen
      /\ pass = "first" => Seen = pos - 1
  BY NextSeen
<1>2. \A k \in 1 .. Seen : \E id \in Int : IdOf(k, id)'
  BY IdKept, Zenon DEF KnownInv
<1>3. CASE Define /\ pass = "first"
  <2>1. PICK id \in Int : IsId(automata, states, lists', Def, id)
    BY <1>3, DefineEffect, Zenon
  <2>2. automata' = automata /\ states' = states /\ program' = program
    BY <1>3, DefineEffect, NextGrows, Zenon
  <2>3. IsId(automata', states', lists', program'.defs[pos], id)
    BY <2>1, <2>2, Zenon DEF Def
  <2> SUFFICES ASSUME NEW k \in 1 .. pos PROVE \E i \in Int : IdOf(k, i)'
    BY <1>1, <1>3, Zenon DEF KnownInv
  <2>4. CASE k = pos
    BY <2>3, <2>4, Zenon DEF IdOf
  <2>5. CASE k # pos
    <3>1. k \in 1 .. Seen
      BY <1>1, <1>3, <2>5 DEF TypeOK
    <3> QED
      BY <1>2, <3>1
  <2> QED
    BY <2>4, <2>5
<1>4. CASE ~(Define /\ pass = "first")
  BY <1>1, <1>2, <1>4, Zenon DEF KnownInv
<1> QED
  BY <1>3, <1>4

(* Every step keeps the origin of the states.                               *)
LEMMA NextOrigin ==
  ASSUME TablesInv, TypeOK, ItemInv, KnownInv, OriginInv, [Next]_vars
  PROVE  OriginInv'
<1>0. program' = program /\ automata \subseteq automata' /\ states \subseteq states'
  BY NextGrows
<1> DEFINE From(at, ss, s, k, i) ==
             /\ Has(at, ss, MachineOf(program.defs[k], i), program.defs[k].items[i].state, s.value)
             /\ s.name = program.defs[k].items[i].state
             /\ \E a \in at : a.name = MachineOf(program.defs[k], i) /\ a.index = s.fsa
<1>1. \A s, k, i : From(automata, states, s, k, i) => From(automata', states', s, k, i)
  <2> SUFFICES ASSUME NEW s, NEW k, NEW i, From(automata, states, s, k, i)
               PROVE  From(automata', states', s, k, i)
    BY Zenon
  <2>1. Has(automata', states', MachineOf(program.defs[k], i), program.defs[k].items[i].state, s.value)
    BY <1>0, HasGrows
  <2> QED
    BY <1>0, <2>1, Zenon
<1>2. \A s \in states : s.name # "" =>
        \E k \in DOMAIN program.defs : \E i \in DOMAIN program.defs[k].items : From(automata, states, s, k, i)
  BY Zenon DEF OriginInv
<1>3. OriginInv' <=> \A s \in states' : s.name # "" =>
        \E k \in DOMAIN program.defs : \E i \in DOMAIN program.defs[k].items : From(automata', states', s, k, i)
  BY <1>0, Zenon DEF OriginInv
<1>4. CASE states' = states
  <2> HIDE DEF From
  <2> QED
    BY <1>1, <1>2, <1>3, <1>4, Zenon
<1>5. CASE Item
  <2>1. PICK a, v : Met(a, v)
    BY <1>5, ItemEffect
  <2>2. pos \in DOMAIN program.defs /\ item \in 1 .. Len(Def.items)
    BY <1>5, ItemEffect
  <2>3. item \in DOMAIN Def.items
    BY <2>2, DefFacts DEF Def
  <2>4. /\ a \in automata' /\ a.name = MachineOf(Def, item)
        /\ Has(automata', states', MachineOf(Def, item), Def.items[item].state, v)
        /\ \A s \in states' : s \in states \/ s.name = "" \/ (s.name = Def.items[item].state /\ s.fsa = a.index
                                                              /\ s.value = v)
    BY <2>1, Zenon DEF Met
  <2>5. ASSUME NEW s \in states', s.name # "", s \notin states PROVE From(automata', states', s, pos, item)
    BY <2>4, <2>5, Zenon DEF Def
  <2> HIDE DEF From
  <2> QED
    BY <1>1, <1>2, <1>3, <2>2, <2>3, <2>5, Zenon DEF Def
<1>6. CASE Define
  BY <1>4, <1>6, DefineEffect
<1>7. CASE SecondPass
  BY <1>4, <1>7, SecondPassEffect
<1>8. CASE Idle
  BY <1>4, <1>8 DEF Idle
<1> QED
  BY <1>5, <1>6, <1>7, <1>8, NextCases

-----------------------------------------------------------------------------
(***************************************************************************)
(* The ids of a function: attachstatelist()                                 *)
(***************************************************************************)
(* The ids after a step                                                     *)
IdAfter(k, id) == IsId(automata', states', lists', program.defs[k], id)

(* After a step the definitions have the ids they had before.               *)
LEMMA AfterFacts ==
  ASSUME TablesInv, TypeOK, ItemInv, KnownInv, [Next]_vars
  PROVE  /\ program' = program
         /\ \A k, id : IdOf(k, id)' <=> IdAfter(k, id)
         /\ \A k, id : IdOf(k, id) => IdAfter(k, id)
         /\ \A k \in 1 .. Seen : \A id : IdAfter(k, id) => IdOf(k, id)
         /\ \A k \in DOMAIN program.defs : \A i, j : IdAfter(k, i) /\ IdAfter(k, j) => i = j
         /\ \A k : IdAfter(k, Stateless) => program.defs[k].kind = "none"
         /\ \A k, id : program.defs[k].kind = "none" /\ IdAfter(k, id) => id = Stateless
         /\ \A f : DefsOf(f)' = DefsOf(f) /\ Implements(f)' = Implements(f)
<1>1. /\ program' = program
      /\ automata \subseteq automata' /\ states \subseteq states' /\ lists \subseteq lists'
  BY NextGrows
<1>2. \A k, id : IdOf(k, id)' <=> IdAfter(k, id)
  BY <1>1, Zenon DEF IdOf, IdAfter
<1>3. \A k, id : IdOf(k, id) => IdAfter(k, id)
  BY <1>1, IdGrows DEF IdOf, IdAfter
<1>4. \A k \in 1 .. Seen : \A id : IdAfter(k, id) => IdOf(k, id)
  BY <1>2, IdKept, Zenon
<1>5. TablesInv'
  BY NextTables
<1>6. \A k \in DOMAIN program.defs : \A i, j : IdAfter(k, i) /\ IdAfter(k, j) => i = j
  <2>1. \A k \in DOMAIN program.defs : Len(program.defs[k].items) \in Nat
    BY DefFacts
  <2> QED
    BY <1>5, <2>1, IsIdUnique DEF IdAfter, TablesInv
<1>7. \A k : IdAfter(k, Stateless) => program.defs[k].kind = "none"
  BY <1>5 DEF IdAfter, IsId, Stateless, Fallback, TablesInv, ListsOK
<1>8. \A k, id : program.defs[k].kind = "none" /\ IdAfter(k, id) => id = Stateless
  BY DEF IdAfter, IsId
<1>9. \A f : DefsOf(f)' = DefsOf(f) /\ Implements(f)' = Implements(f)
  BY <1>1 DEF DefsOf, Implements
<1> QED
  BY <1>1, <1>2, <1>3, <1>4, <1>6, <1>7, <1>8, <1>9, Zenon

(* The definitions of a function with states are among its definitions.     *)
LEMMA ImplementsIn == ASSUME NEW f PROVE Implements(f) \subseteq DefsOf(f) /\ DefsOf(f) \subseteq DOMAIN program.defs
  BY DEF Implements, DefsOf

(* With the definition itself or not: what Define has to do with f.         *)
LEMMA DefineCases ==
  ASSUME TablesInv, TypeOK, ItemInv, KnownInv, Define
  PROVE  \E id \in Int :
           /\ IdAfter(pos, id) /\ (id = Stateless <=> Def.kind = "none") /\ Places(Def.f, id)
           /\ attached' \in [FuncNames -> Seq(Entries)]
           /\ defined' = IF Def.forward THEN defined ELSE defined \cup {Def.f}
           /\ \A f \in FuncNames :
                IF pos \in DefsOf(f) THEN attached'[f] = Attach(attached[f], id)
                ELSE attached'[f] = attached[f]
           /\ \A f \in FuncNames : /\ pos \in DefsOf(f) <=> f = Def.f /\ ~Def.forward
                                   /\ pos \in Implements(f) <=> pos \in DefsOf(f) /\ id # Stateless
           /\ pos \in DOMAIN program.defs /\ pass \in {"first", "write"} /\ pos' = pos + 1
<1>1. /\ pos \in DOMAIN program.defs /\ pass \in {"first", "write"}
      /\ automata' = automata /\ states' = states
  BY DefineEffect
<1>2. PICK id \in Int : IsId(automata, states, lists', Def, id) /\ Places(Def.f, id)
  BY DefineEffect, Zenon
<1>3. IdAfter(pos, id)
  BY <1>1, <1>2, Zenon DEF IdAfter, Def
<1>4. [Next]_vars
  BY DEF Next
<1>5. id = Stateless <=> Def.kind = "none"
  BY <1>3, <1>4, AfterFacts, Zenon DEF Def
<1>6. /\ attached' \in [FuncNames -> Seq(Entries)]
      /\ \A g \in FuncNames : attached'[g] = IF g = Def.f /\ ~Def.forward THEN Attach(attached[g], id)
                                             ELSE attached[g]
      /\ defined' = IF Def.forward THEN defined ELSE defined \cup {Def.f}
  BY <1>1, <1>2, PlacesEffect
<1>7. \A f \in FuncNames : pos \in DefsOf(f) <=> f = Def.f /\ ~Def.forward
  BY <1>1 DEF DefsOf, Def
<1>8. \A f \in FuncNames : pos \in Implements(f) <=> pos \in DefsOf(f) /\ id # Stateless
  BY <1>5 DEF Implements, Def
<1>9. pos' = pos + 1
  BY Zenon DEF Define
<1> QED
  BY <1>1, <1>2, <1>3, <1>5, <1>6, <1>7, <1>8, <1>9, Zenon

AttachedTo(f) ==
  /\ \A k \in Implements(f) : k <= Seen => \E x \in DOMAIN attached[f] : IdOf(k, attached[f][x].id)
  /\ \A x \in DOMAIN attached[f] : \E k \in Implements(f) : IdOf(k, attached[f][x].id)
  /\ \A x, y \in DOMAIN attached[f] : attached[f][x].id = attached[f][y].id => x = y

(* Every step keeps the ids attached to a function those of its             *)
(* definitions.                                                             *)
LEMMA NextAttached ==
  ASSUME TablesInv, TypeOK, ItemInv, KnownInv, AttachedInv, [Next]_vars
  PROVE  AttachedInv'
<1> SUFFICES ASSUME NEW f \in FuncNames PROVE AttachedTo(f)'
  BY Zenon DEF AttachedInv, AttachedTo
<1>0. DOMAIN program.defs = 1 .. Len(program.defs) /\ Len(program.defs) \in Nat
  BY DefsDomain
<1>a. AttachedTo(f)
  BY Zenon DEF AttachedInv, AttachedTo
<1>b. /\ program' = program /\ Implements(f)' = Implements(f)
      /\ \A k, id : IdOf(k, id)' <=> IdAfter(k, id)
      /\ \A k, id : IdOf(k, id) => IdAfter(k, id)
      /\ \A k \in 1 .. Seen : \A id : IdAfter(k, id) => IdOf(k, id)
      /\ \A k \in DOMAIN program.defs : \A i, j : IdAfter(k, i) /\ IdAfter(k, j) => i = j
  BY AfterFacts, Zenon
<1>c. AttachedTo(f)' <=>
        /\ \A k \in Implements(f) : k <= Seen' => \E x \in DOMAIN attached'[f] : IdAfter(k, attached'[f][x].id)
        /\ \A x \in DOMAIN attached'[f] : \E k \in Implements(f) : IdAfter(k, attached'[f][x].id)
        /\ \A x, y \in DOMAIN attached'[f] : attached'[f][x].id = attached'[f][y].id => x = y
  BY <1>b, Zenon DEF AttachedTo
<1>d. Seen' = IF Define /\ pass = "first" THEN pos ELSE Seen
  BY NextSeen
<1>1. CASE /\ DOMAIN attached'[f] = DOMAIN attached[f] /\ Seen' = Seen
           /\ \A x \in DOMAIN attached[f] : attached'[f][x].id = attached[f][x].id
  BY <1>a, <1>b, <1>c, <1>1, Zenon DEF AttachedTo
<1>2. CASE Item
  <2>1. attached' = attached
    BY <1>2, Zenon DEF Item, symbols
  <2>2. ~Define
    <3>1. pos' = pos /\ pos \in 1 .. Len(program.defs) + 1 /\ (Define => pos' = pos + 1)
      BY <1>2, Zenon DEF Item, Define, TypeOK
    <3> QED
      BY <1>0, <3>1
  <2> QED
    BY <1>1, <1>d, <2>1, <2>2
<1>3. CASE SecondPass
  <2>1. /\ DOMAIN attached'[f] = DOMAIN attached[f]
        /\ \A x \in DOMAIN attached[f] : attached'[f][x].id = attached[f][x].id
        /\ pos = Len(program.defs) + 1 /\ pos' = 1
    BY <1>3, SecondPassEffect
  <2>2. ~Define
    <3>1. Define => pos' = pos + 1
      BY Zenon DEF Define
    <3> QED
      BY <1>0, <2>1, <3>1
  <2> QED
    BY <1>1, <1>d, <2>1, <2>2
<1>4. CASE Idle
  <2>1. ~Define
    <3>1. pos' = pos /\ pos \in 1 .. Len(program.defs) + 1 /\ (Define => pos' = pos + 1)
      BY <1>4, Zenon DEF Idle, Define, TypeOK
    <3> QED
      BY <1>0, <3>1
  <2> QED
    BY <1>1, <1>4, <1>d, <2>1 DEF Idle
<1>5. CASE Define
  <2>1. PICK id \in Int :
           /\ IdAfter(pos, id)
           /\ IF pos \in DefsOf(f) THEN attached'[f] = Attach(attached[f], id) ELSE attached'[f] = attached[f]
           /\ pos \in Implements(f) <=> pos \in DefsOf(f) /\ id # Stateless
    BY <1>5, DefineCases, Zenon
  <2>2. \A k \in Implements(f) : k <= Seen' => k = pos \/ k <= Seen
    <3> SUFFICES ASSUME NEW k \in Implements(f), k <= Seen', k # pos PROVE k <= Seen
      OBVIOUS
    <3>1. k \in Nat
      BY <1>0, ImplementsIn
    <3>2. pass = "first" => Seen = pos - 1
      BY NextSeen
    <3> QED
      BY <1>d, <3>1, <3>2 DEF TypeOK
  <2>3. CASE pos \notin Implements(f)
    <3>1. attached'[f] = attached[f]
      <4>1. attached[f] \in Seq(Entries)
        BY DEF TypeOK, Entries
      <4> QED
        BY <2>1, <2>3, <4>1, AttachEffect
    <3> QED
      BY <1>a, <1>b, <1>c, <2>2, <2>3, <3>1, Zenon DEF AttachedTo
  <2>4. CASE pos \in Implements(f)
    <3> DEFINE s == attached[f]
               t == attached'[f]
    <3>1. s \in Seq(Entries) /\ id # Stateless /\ t = Attach(s, id)
      <4>1. s \in Seq(Entries)
        BY DEF TypeOK, Entries
      <4> QED
        BY <2>1, <2>4, <4>1, Zenon
    <3>2. /\ \A x \in DOMAIN s : x \in DOMAIN t /\ t[x].id = s[x].id
          /\ \A x \in DOMAIN t : x \in DOMAIN s \/ t[x].id = id
          /\ \E x \in DOMAIN t : t[x].id = id
          /\ (\E x \in DOMAIN s : s[x].id = id) => DOMAIN t = DOMAIN s
          /\ (\A x \in DOMAIN s : s[x].id # id) => \E z : DOMAIN t \subseteq DOMAIN s \cup {z}
      <4> HIDE DEF s, t
      <4>1. Adds(s, id, t)
        BY <3>1, AttachEffect, Zenon
      <4> QED
        BY <4>1, Zenon DEF Adds
    <3>3. \A k \in Implements(f) : k <= Seen' => \E x \in DOMAIN t : IdAfter(k, t[x].id)
      BY <1>a, <1>b, <2>1, <2>2, <3>2, Zenon DEF AttachedTo
    <3>4. \A x \in DOMAIN t : \E k \in Implements(f) : IdAfter(k, t[x].id)
      BY <1>a, <1>b, <2>1, <2>4, <3>2, Zenon DEF AttachedTo
    <3>5. \A x, y \in DOMAIN t : t[x].id = t[y].id => x = y
      <4>0. \A x, y \in DOMAIN s : s[x].id = s[y].id => x = y
        BY <1>a, Zenon DEF AttachedTo
      <4> HIDE DEF s, t
      <4>1. CASE \E x \in DOMAIN s : s[x].id = id
        BY <3>2, <4>0, <4>1, Zenon
      <4>2. CASE \A x \in DOMAIN s : s[x].id # id
        <5>1. PICK z : DOMAIN t \subseteq DOMAIN s \cup {z}
          BY <3>2, <4>2, Zenon
        <5> QED
          BY <3>2, <4>0, <4>2, <5>1
      <4> QED
        BY <4>1, <4>2, Zenon
    <3> QED
      BY <1>c, <3>3, <3>4, <3>5, Zenon
  <2> QED
    BY <2>3, <2>4
<1> QED
  BY <1>2, <1>3, <1>4, <1>5, NextCases

MetOf(f) ==
  /\ f \in defined <=> \E k \in DefsOf(f) : k < pos
  /\ \A x \in DOMAIN attached[f] :
       attached[f][x].placed <=> \E k \in Implements(f) : k < pos /\ IdOf(k, attached[f][x].id)

(* Every step keeps what this pass has met.                                 *)
LEMMA NextMet ==
  ASSUME TablesInv, TypeOK, ItemInv, KnownInv, AttachedInv, MetInv, [Next]_vars
  PROVE  MetInv'
<1> SUFFICES ASSUME NEW f \in FuncNames PROVE MetOf(f)'
  BY Zenon DEF MetInv, MetOf
<1>0. /\ DOMAIN program.defs = 1 .. Len(program.defs) /\ Len(program.defs) \in Nat
      /\ pos \in 1 .. Len(program.defs) + 1
  BY DefsDomain DEF TypeOK
<1>a. MetOf(f)
  BY Zenon DEF MetInv, MetOf
<1>b. /\ program' = program /\ Implements(f)' = Implements(f) /\ DefsOf(f)' = DefsOf(f)
      /\ \A k, id : IdOf(k, id)' <=> IdAfter(k, id)
      /\ \A k, id : IdOf(k, id) => IdAfter(k, id)
      /\ \A k \in 1 .. Seen : \A id : IdAfter(k, id) => IdOf(k, id)
      /\ \A k \in DOMAIN program.defs : \A i, j : IdAfter(k, i) /\ IdAfter(k, j) => i = j
  BY AfterFacts, Zenon
<1>c. MetOf(f)' <=>
        /\ f \in defined' <=> \E k \in DefsOf(f) : k < pos'
        /\ \A x \in DOMAIN attached'[f] :
             attached'[f][x].placed <=> \E k \in Implements(f) : k < pos' /\ IdAfter(k, attached'[f][x].id)
  BY <1>b, Zenon DEF MetOf
<1>d. \A k \in Implements(f) : k \in Nat /\ k \in DOMAIN program.defs /\ (k < pos => k \in 1 .. Seen)
  BY <1>0, NextSeen, ImplementsIn
<1>1. CASE UNCHANGED <<pos, attached, defined>>
  BY <1>a, <1>b, <1>c, <1>d, <1>1, Zenon DEF MetOf
<1>2. CASE Item
  BY <1>1, <1>2, Zenon DEF Item, symbols
<1>3. CASE SecondPass
  <2>1. /\ DOMAIN attached'[f] = DOMAIN attached[f] /\ pos' = 1 /\ defined' = {}
        /\ \A x \in DOMAIN attached[f] : ~attached'[f][x].placed
    BY <1>3, SecondPassEffect
  <2>2. \A k \in DOMAIN program.defs : ~(k < pos')
    BY <1>0, <2>1
  <2> QED
    BY <1>c, <2>1, <2>2, ImplementsIn, Zenon
<1>4. CASE Idle
  BY <1>1, <1>4 DEF Idle
<1>5. CASE Define
  <2>1. PICK id \in Int :
           /\ IdAfter(pos, id)
           /\ defined' = IF Def.forward THEN defined ELSE defined \cup {Def.f}
           /\ IF pos \in DefsOf(f) THEN attached'[f] = Attach(attached[f], id) ELSE attached'[f] = attached[f]
           /\ pos \in Implements(f) <=> pos \in DefsOf(f) /\ id # Stateless
           /\ pos \in DefsOf(f) <=> f = Def.f /\ ~Def.forward
           /\ pos \in DOMAIN program.defs /\ pos' = pos + 1
    BY <1>5, DefineCases, Zenon
  <2>2. \A k \in DOMAIN program.defs : k < pos' <=> k < pos \/ k = pos
    BY <1>0, <2>1
  <2>3. f \in defined' <=> \E k \in DefsOf(f) : k < pos'
    <3>1. f \in defined' <=> f \in defined \/ pos \in DefsOf(f)
      BY <2>1
    <3> QED
      BY <1>a, <2>1, <2>2, <3>1, ImplementsIn, Zenon DEF MetOf
  <2>4. \A i : (\E k \in Implements(f) : k < pos' /\ IdAfter(k, i))
               <=> (\E k \in Implements(f) : k < pos /\ IdOf(k, i)) \/ (pos \in Implements(f) /\ i = id)
    BY <1>b, <1>d, <2>1, <2>2, Zenon
  <2>5. CASE pos \notin Implements(f)
    <3>1. attached'[f] = attached[f]
      <4>1. attached[f] \in Seq(Entries)
        BY DEF TypeOK, Entries
      <4> QED
        BY <2>1, <2>5, <4>1, AttachEffect
    <3> QED
      BY <1>a, <1>c, <2>3, <2>4, <2>5, <3>1, Zenon DEF MetOf
  <2>6. CASE pos \in Implements(f)
    <3> DEFINE s == attached[f]
               t == attached'[f]
    <3>1. s \in Seq(Entries) /\ id # Stateless /\ t = Attach(s, id)
      <4>1. s \in Seq(Entries)
        BY DEF TypeOK, Entries
      <4> QED
        BY <2>1, <2>6, <4>1, Zenon
    <3>2. /\ \A x \in DOMAIN s : t[x].id = s[x].id /\ (t[x].placed <=> s[x].placed \/ s[x].id = id)
          /\ \A x \in DOMAIN t : x \in DOMAIN s \/ (t[x].id = id /\ t[x].placed)
      <4> HIDE DEF s, t
      <4>1. Adds(s, id, t)
        BY <3>1, AttachEffect, Zenon
      <4> QED
        BY <4>1, Zenon DEF Adds
    <3>3. \A x \in DOMAIN t : t[x].placed <=>
             (\E k \in Implements(f) : k < pos /\ IdOf(k, t[x].id)) \/ t[x].id = id
      BY <1>a, <3>2, Zenon DEF MetOf
    <3> QED
      BY <1>c, <2>3, <2>4, <2>6, <3>3, Zenon
  <2> QED
    BY <2>5, <2>6
<1> QED
  BY <1>2, <1>3, <1>4, <1>5, NextCases

-----------------------------------------------------------------------------
(***************************************************************************)
(* What the second pass does not change: warning 230                        *)
(***************************************************************************)
(* What writeleader() and state_conflict() look at is the ids, not whether  *)
(* they are placed.                                                         *)
SameIds ==
  /\ UNCHANGED <<program, automata, states, lists>>
  /\ attached' \in [FuncNames -> Seq(Entries)]
  /\ \A f \in FuncNames : /\ DOMAIN attached'[f] = DOMAIN attached[f]
                          /\ \A x \in DOMAIN attached[f] : attached'[f][x].id = attached[f][x].id

(* What is read off the lists of a function does not change then.           *)
LEMMA SameLists ==
  ASSUME TypeOK, SameIds
  PROVE  /\ \A id : State_getlist(id)' = State_getlist(id)
         /\ \A f \in FuncNames : HasFallback(f)' <=> HasFallback(f)
         /\ \A f \in FuncNames : \A v : LabelsOf(f, v)' = LabelsOf(f, v)
         /\ Stubbed' = Stubbed /\ Stubbed \subseteq FuncNames
         /\ \A f \in Stubbed : /\ FirstList(attached'[f]) = FirstList(attached[f])
                               /\ StatesOf(f)' = StatesOf(f)
         /\ State_conflict' = State_conflict /\ Stateful' = Stateful
<1>1. \A id : State_getlist(id)' = State_getlist(id)
  BY DEF SameIds, State_getlist
<1>3. \A f \in FuncNames : HasFallback(f)' <=> HasFallback(f)
  BY DEF SameIds, HasFallback
<1>4. \A f \in FuncNames : \A v : LabelsOf(f, v)' = LabelsOf(f, v)
  <2> SUFFICES ASSUME NEW f \in FuncNames, NEW v PROVE LabelsOf(f, v)' = LabelsOf(f, v)
    OBVIOUS
  <2> DEFINE Labels(s, ls) == {k \in DOMAIN s : s[k].id # Fallback
                                 /\ v \in Range((CHOOSE c \in ls : c.id = s[k].id).states)}
  <2>1. LabelsOf(f, v) = Labels(attached[f], lists) /\ LabelsOf(f, v)' = Labels(attached'[f], lists')
    BY Zenon DEF LabelsOf, State_inlist, State_getlist
  <2>2. Labels(attached'[f], lists) = Labels(attached[f], lists)
    BY DEF SameIds
  <2> HIDE DEF Labels
  <2> QED
    BY <2>1, <2>2 DEF SameIds
<1>5. ASSUME NEW f \in FuncNames
      PROVE  /\ attached'[f] = <<>> <=> attached[f] = <<>>
             /\ attached[f] # <<>> => FirstList(attached'[f]) = FirstList(attached[f])
  <2> DEFINE s == attached[f]
             t == attached'[f]
  <2>1. s \in Seq(Entries) /\ t \in Seq(Entries) /\ DOMAIN t = DOMAIN s /\ \A x \in DOMAIN s : t[x].id = s[x].id
    BY DEF SameIds, TypeOK, Entries
  <2> HIDE DEF s, t
  <2>2. Len(s) \in Nat /\ Len(t) \in Nat /\ DOMAIN s = 1 .. Len(s) /\ DOMAIN t = 1 .. Len(t)
    BY <2>1
  <2>3. Len(t) = Len(s)
    BY <2>1, <2>2
  <2>4. t = <<>> <=> s = <<>>
    BY <2>1, <2>2, <2>3
  <2>5. s # <<>> => FirstList(t) = FirstList(s)
    <3> SUFFICES ASSUME s # <<>> PROVE FirstList(t) = FirstList(s)
      OBVIOUS
    <3>1. 1 \in DOMAIN s /\ (Len(s) > 1 => 2 \in DOMAIN s)
      BY <2>1, <2>2
    <3> QED
      BY <2>1, <2>3, <3>1 DEF FirstList
  <2> QED
    BY <2>4, <2>5 DEF s, t
<1>6. Stubbed' = Stubbed /\ Stubbed \subseteq FuncNames /\ Stateful' = Stateful
      /\ \A f \in Stubbed : attached[f] # <<>>
  <2>1. \A f : Used(f)' <=> Used(f)
    BY DEF SameIds, Used
  <2>2. Stateful' = Stateful /\ Stateful \subseteq FuncNames /\ \A f \in Stateful : attached[f] # <<>>
    BY <1>5, <2>1 DEF Stateful
  <2> QED
    BY <1>5, <2>2 DEF Stubbed
<1>7. \A f \in Stubbed : /\ FirstList(attached'[f]) = FirstList(attached[f])
                         /\ StatesOf(f)' = StatesOf(f)
  <2> SUFFICES ASSUME NEW f \in Stubbed
               PROVE  FirstList(attached'[f]) = FirstList(attached[f]) /\ StatesOf(f)' = StatesOf(f)
    OBVIOUS
  <2>1. FirstList(attached'[f]) = FirstList(attached[f])
    BY <1>5, <1>6
  <2> DEFINE Those(ls, ss, id) == {t \in ss : t.fsa = (CHOOSE c \in ls : c.id = id).fsa}
  <2>2. StatesOf(f) = Those(lists, states, FirstList(attached[f]))
        /\ StatesOf(f)' = Those(lists', states', FirstList(attached'[f]))
    BY Zenon DEF StatesOf, State_getlist
  <2> HIDE DEF Those
  <2> QED
    BY <2>1, <2>2 DEF SameIds
<1>8. State_conflict' = State_conflict
  <2> DEFINE Listed(ls, i) == CHOOSE c \in ls : c.id = i
             Two(ls, f, i, j) ==
               (IF Listed(ls, i).fsa # Listed(ls, j).fsa /\ f # EntryFunc THEN {<<83, f, "">>} ELSE {})
               \cup (IF Range(Listed(ls, i).states) \cap Range(Listed(ls, j).states) # {} THEN {<<84, f, "">>} ELSE {})
             Both(s) == {x \in (DOMAIN s) \X (DOMAIN s) :
                           x[1] < x[2] /\ Fallback \notin {s[x[1]].id, s[x[2]].id}}
             Of(ls, s, f) == UNION {Two(ls, f, s[x[1]].id, s[x[2]].id) : x \in Both(s)}
  <2>1. /\ State_conflict = UNION {Of(lists, attached[f], f) : f \in FuncNames}
        /\ State_conflict' = UNION {Of(lists', attached'[f], f) : f \in FuncNames}
    BY Zenon DEF State_conflict, Conflict, State_getlist
  <2>2. ASSUME NEW f \in FuncNames PROVE Of(lists', attached'[f], f) = Of(lists, attached[f], f)
    <3>1. lists' = lists
      BY DEF SameIds
    <3>2. Both(attached'[f]) = Both(attached[f])
      BY DEF SameIds
    <3>3. \A x \in Both(attached[f]) : /\ attached'[f][x[1]].id = attached[f][x[1]].id
                                       /\ attached'[f][x[2]].id = attached[f][x[2]].id
      BY DEF SameIds
    <3> HIDE DEF Two, Both
    <3> QED
      BY <3>1, <3>2, <3>3
  <2> HIDE DEF Of
  <2> QED
    BY <2>1, <2>2
<1> QED
  BY <1>1, <1>3, <1>4, <1>6, <1>7, <1>8

(* The numbers of the messages                                              *)
LEMMA ConflictNumbers == \A e \in State_conflict : e[1] \in {83, 84}
<1>1. ASSUME NEW f, NEW i, NEW j, NEW e \in Conflict(f, i, j) PROVE e[1] \in {83, 84}
  <2>1. e = <<83, f, "">> \/ e = <<84, f, "">>
    BY Zenon DEF Conflict
  <2>2. <<83, f, "">>[1] = 83 /\ <<84, f, "">>[1] = 84
    OBVIOUS
  <2> QED
    BY <2>1, <2>2, Zenon
<1>2. ASSUME NEW e \in State_conflict PROVE \E f, i, j : e \in Conflict(f, i, j)
  BY DEF State_conflict
<1>3. SUFFICES ASSUME NEW e \in State_conflict PROVE e[1] \in {83, 84}
  OBVIOUS
<1>4. PICK f, i, j : e \in Conflict(f, i, j)
  BY <1>2
<1> QED
  BY <1>1, <1>4

(* In the second pass everything is attached already.                       *)
LEMMA SecondSame ==
  ASSUME TablesInv, TypeOK, ItemInv, KnownInv, AttachedInv, [Next]_vars,
         SecondPass \/ (pass # "first" /\ Define) \/ (pass # "first" /\ Item) \/ Idle
  PROVE  SameIds
<1>1. CASE SecondPass
  <2>1. program' = program
    BY NextGrows
  <2> QED
    BY <1>1, <2>1, SecondPassEffect DEF SameIds
<1>2. CASE pass # "first" /\ Item
  <2>1. attached' = attached
    BY <1>2, Zenon DEF Item, symbols
  <2> QED
    BY <1>2, <2>1, NextGrows DEF SameIds, TypeOK, Entries
<1>3. CASE Idle
  BY <1>3 DEF Idle, SameIds, TypeOK, Entries
<1>4. CASE pass # "first" /\ Define
  <2>1. UNCHANGED <<program, automata, states, lists>>
    BY <1>4, NextGrows
  <2>2. PICK id \in Int :
           /\ IdAfter(pos, id)
           /\ attached' \in [FuncNames -> Seq(Entries)]
           /\ \A f \in FuncNames :
                IF pos \in DefsOf(f) THEN attached'[f] = Attach(attached[f], id)
                ELSE attached'[f] = attached[f]
           /\ \A f \in FuncNames : pos \in Implements(f) <=> pos \in DefsOf(f) /\ id # Stateless
           /\ pos \in DOMAIN program.defs
    BY <1>4, DefineCases, Zenon
  <2>3. ASSUME NEW f \in FuncNames
        PROVE  /\ DOMAIN attached'[f] = DOMAIN attached[f]
               /\ \A x \in DOMAIN attached[f] : attached'[f][x].id = attached[f][x].id
    <3>1. attached[f] \in Seq(Entries)
      BY DEF TypeOK, Entries
    <3>2. CASE pos \notin DefsOf(f)
      BY <2>2, <3>2
    <3>3. CASE pos \in DefsOf(f) /\ id = Stateless
      <4>1. attached'[f] = attached[f]
        BY <2>2, <3>1, <3>3, AttachEffect, Zenon
      <4> QED
        BY <4>1
    <3>4. CASE pos \in DefsOf(f) /\ id # Stateless
      <4>1. Adds(attached[f], id, attached'[f])
        BY <2>2, <3>1, <3>4, AttachEffect, Zenon
      <4>2. pos \in Implements(f) /\ pos <= Seen /\ pos \in 1 .. Seen
        <5>1. pass # "first" => Seen = Len(program.defs)
          BY NextSeen
        <5> QED
          BY <1>4, <2>2, <3>4, <5>1, DefsDomain
      <4>3. PICK x \in DOMAIN attached[f] : IdOf(pos, attached[f][x].id)
        BY <4>2, Zenon DEF AttachedInv
      <4>4. attached[f][x].id = id
        BY <2>2, <4>3, AfterFacts, Zenon
      <4> QED
        BY <4>1, <4>3, <4>4, Zenon DEF Adds
    <3> QED
      BY <3>2, <3>3, <3>4
  <2> QED
    BY <2>1, <2>2, <2>3 DEF SameIds
<1> QED
  BY <1>1, <1>2, <1>3, <1>4

(* The second pass gives errors and warning 231, but no warning 230.        *)
LEMMA Numbers ==
  ASSUME NEW n, NEW f, NEW s, NEW m, NEW g, NEW t
  PROVE  /\ <<n, f, s>> = <<m, g, t>> <=> n = m /\ f = g /\ s = t
         /\ <<n, f, s>>[1] = n
OBVIOUS

Other(e) == \E n, f, s : e = <<n, f, s>> /\ n # 230
Plain(n, f) == <<n, f, "">>
(* The other errors and warnings are none of that number.                   *)
LEMMA OtherNumber == \A n : n # 230 => \A f, s : Other(<<n, f, s>>)
  BY Zenon DEF Other

(* Those without a state                                                    *)
LEMMA OtherPlain == \A n : n # 230 => \A f : Other(Plain(n, f))
  BY OtherNumber, Zenon DEF Plain

(* Those of attachstatelist()                                               *)
LEMMA AttachPlain == ASSUME NEW f, NEW id, NEW e \in AttachErrors(f, id) PROVE \E n \in {21, 84, 85} : e = Plain(n, f)
  BY DEF AttachErrors, Plain

(* They are none of that number.                                            *)
LEMMA AttachOther == ASSUME NEW f, NEW id, NEW e \in AttachErrors(f, id) PROVE Other(e)
<1>1. PICK n \in {21, 84, 85} : e = Plain(n, f)
  BY AttachPlain, Zenon
<1>2. n # 230
  OBVIOUS
<1>3. Other(Plain(n, f))
  BY <1>2, OtherPlain
<1> QED
  BY <1>1, <1>3

(* Nor are those of newfunc() and funcstub().                               *)
LEMMA DefineOther ==
  ASSUME NEW f, NEW forward, NEW id
  PROVE  \A e \in IF forward THEN (IF id # Stateless THEN {Plain(231, f)} ELSE {}) ELSE AttachErrors(f, id) : Other(e)
<1>1. Other(Plain(231, f))
  BY OtherPlain
<1> QED
  BY <1>1, AttachOther

(* In the second pass warning 230 is not given.                             *)
LEMMA NothingWarned ==
  ASSUME TablesInv, TypeOK, ItemInv, KnownInv, [Next]_vars, pass # "first"
  PROVE  table' = table /\ \A f, n : <<230, f, n>> \in says' <=> <<230, f, n>> \in says
<1>1. CASE table' = table /\ \E S : says' = says \cup S /\ \A e \in S : Other(e)
  <2>1. PICK S : says' = says \cup S /\ \A e \in S : Other(e)
    BY <1>1
  <2>2. \A f, n : ~Other(<<230, f, n>>)
    BY Numbers, Zenon DEF Other
  <2> QED
    BY <1>1, <2>1, <2>2
<1>0. says = says \cup {}
  OBVIOUS
<1>2. CASE Item
  <2> DEFINE S == IF fsa \notin {NoFsa, fsa'} THEN {Plain(83, Def.f)} ELSE {}
  <2>1. table' = table
    BY <1>2, Zenon DEF Item
  <2>2. says' = says \cup S \/ says' = says
    BY <1>2, ItemEffect, Zenon DEF Reported, Plain
  <2>3. \A e \in S : Other(e)
    <3>1. Other(Plain(83, Def.f))
      BY OtherPlain
    <3> QED
      BY <3>1
  <2> HIDE DEF S
  <2> QED
    BY <1>0, <1>1, <2>1, <2>2, <2>3, Zenon
<1>3. CASE Define
  <2>1. table' = table
    BY <1>3, Zenon DEF Define
  <2>2. PICK id \in Int : Places(Def.f, id)
    BY <1>3, DefineEffect, Zenon
  <2> DEFINE S == IF Def.forward THEN (IF id # Stateless THEN {Plain(231, Def.f)} ELSE {})
                  ELSE AttachErrors(Def.f, id)
  <2>3. says' = says \cup S \/ says' = says
    BY <2>2, Zenon DEF Places, Reported, Plain
  <2>4. \A e \in S : Other(e)
    BY DefineOther
  <2> HIDE DEF S
  <2> QED
    BY <1>0, <1>1, <2>1, <2>3, <2>4, Zenon
<1>4. CASE SecondPass
  BY <1>4, SecondPassEffect
<1>5. CASE Finish
  <2> DEFINE N(c) == IF \E a \in automata : a.name = c[1] THEN 87 ELSE 86
             S == {<<N(c), c[1], c[2]>> : c \in {d \in program.changes : ~Known(d)}}
  <2>1. table' = table /\ says' = says \cup S
    BY <1>5, Zenon DEF Finish
  <2>2. \A c : N(c) = 86 \/ N(c) = 87
    BY Zenon
  <2>3. \A c : N(c) # 230
    BY <2>2
  <2> HIDE DEF N
  <2>4. \A e \in S : Other(e)
    BY <2>3, OtherNumber
  <2> HIDE DEF S
  <2> QED
    BY <1>1, <2>1, <2>4, Zenon
<1>6. CASE UNCHANGED output
  BY <1>6 DEF output
<1>7. ASSUME NEW c \in program.changes, Enter(c) PROVE UNCHANGED output
  BY <1>7, Zenon DEF Enter
<1>8. ASSUME NEW f \in program.calls, Call(f) PROVE UNCHANGED output
  BY <1>8, Zenon DEF Call
<1>9. CASE UNCHANGED vars
  BY <1>6, <1>9, Zenon DEF vars
<1> QED
  BY <1>2, <1>3, <1>4, <1>5, <1>6, <1>7, <1>8, <1>9, Zenon DEF Next

(* Which of the cases a step is, and that it does not change the first pass *)
LEMMA LaterSame ==
  ASSUME TablesInv, TypeOK, ItemInv, KnownInv, AttachedInv, [Next]_vars, pass # "first"
  PROVE  SameIds /\ pass' # "first"
<1>1. CASE Item
  BY <1>1, SecondSame, Zenon DEF Item
<1>2. CASE Define
  BY <1>2, SecondSame, Zenon DEF Define
<1>3. CASE SecondPass
  BY <1>3, SecondPassEffect
<1>4. CASE Idle
  BY <1>4, SecondSame DEF Idle
<1> QED
  BY <1>1, <1>2, <1>3, <1>4, NextCases

(* Who is to be warned does not change then.                                *)
LEMMA SameWarnings ==
  ASSUME TypeOK, SameIds, NEW f, NEW n
  PROVE  WarnedBy(f, n)' <=> WarnedBy(f, n)
BY SameLists, Zenon DEF WarnedBy

(* Every step keeps warning 230 as it should be.                            *)
LEMMA NextWarned ==
  ASSUME TablesInv, TypeOK, ItemInv, KnownInv, AttachedInv, WarnedInv, [Next]_vars
  PROVE  WarnedInv'
<1> DEFINE Placed0 == /\ DOMAIN table' = Stubbed
                      /\ \A f \in Stubbed : table'[f].fsa = State_getlist(FirstList(attached[f])).fsa
                      /\ \A f \in FuncNames : \A n : <<230, f, n>> \in says' <=> WarnedBy(f, n)
<1>1. ASSUME SameIds, Placed0 PROVE WarnedInv'
  <2>1. /\ \A id : State_getlist(id)' = State_getlist(id)
        /\ Stubbed' = Stubbed
        /\ \A f \in Stubbed : FirstList(attached'[f]) = FirstList(attached[f])
    BY <1>1, SameLists, Zenon
  <2>2. \A f, n : WarnedBy(f, n)' <=> WarnedBy(f, n)
    BY <1>1, SameWarnings, Zenon
  <2>3. ASSUME NEW f \in Stubbed PROVE TableOf(f)'
    <3>1. lists' = lists
      BY <1>1 DEF SameIds
    <3> DEFINE Listed(ls, i) == (CHOOSE c \in ls : c.id = i).fsa
    <3>2. table'[f].fsa = Listed(lists, FirstList(attached[f]))
      BY <1>1, Zenon DEF State_getlist
    <3>3. table'[f].fsa = Listed(lists', FirstList(attached'[f]))
      BY <2>1, <3>1, <3>2
    <3> QED
      BY <3>3, Zenon DEF State_getlist, TableOf
  <2> QED
    BY <1>1, <2>1, <2>2, <2>3, Zenon DEF WarnedInv
<1>2. CASE pass # "first"
  <2>1. SameIds
    BY <1>2, LaterSame
  <2>2. table' = table /\ \A f, n : <<230, f, n>> \in says' <=> <<230, f, n>> \in says
    BY <1>2, NothingWarned
  <2>3. Placed0
    BY <1>2, <2>2, Zenon DEF WarnedInv, TableOf
  <2> QED
    BY <1>1, <2>1, <2>3, Zenon
<1>3. CASE SecondPass
  <2>1. SameIds
    BY <1>3, SecondSame
  <2> DEFINE Some == {g \in Stubbed : ~HasFallback(g)}
  <2>2. /\ says' = State_conflict \cup UNION {Unimplemented(f) : f \in Some}
        /\ table' = [f \in Stubbed |-> Stub(f)]
    BY <1>3, Zenon DEF SecondPass
  <2>3. DOMAIN table' = Stubbed /\ \A f \in Stubbed : table'[f].fsa = State_getlist(FirstList(attached[f])).fsa
    BY <2>2 DEF Stub
  <2>4. ASSUME NEW f, NEW n PROVE <<230, f, n>> \in says' <=> WarnedBy(f, n)
    <3>1. <<230, f, n>> \notin State_conflict
      <4>1. <<230, f, n>>[1] = 230 /\ 230 \notin {83, 84}
        OBVIOUS
      <4> QED
        BY <4>1, ConflictNumbers, Zenon
    <3>2. <<230, f, n>> \in says' <=> \E g \in Some : <<230, f, n>> \in Unimplemented(g)
      <4> HIDE DEF Some
      <4> QED
        BY <2>2, <3>1
    <3>3. \A g : <<230, f, n>> \in Unimplemented(g) <=>
             g = f /\ \E t \in StatesOf(g) : t.name = n /\ LabelsOf(g, t.value) = {}
      <4> SUFFICES ASSUME NEW g PROVE <<230, f, n>> \in Unimplemented(g) <=>
             g = f /\ \E t \in StatesOf(g) : t.name = n /\ LabelsOf(g, t.value) = {}
        OBVIOUS
      <4>1. <<230, f, n>> \in Unimplemented(g) <=>
              \E t \in StatesOf(g) : LabelsOf(g, t.value) = {} /\ <<230, f, n>> = <<230, g, t.name>>
        BY DEF Unimplemented
      <4>2. \A t : <<230, f, n>> = <<230, g, t.name>> <=> f = g /\ n = t.name
        BY Numbers
      <4> QED
        BY <4>1, <4>2, Zenon
    <3> QED
      BY <3>2, <3>3, Zenon DEF WarnedBy
  <2> HIDE DEF Some
  <2> QED
    BY <1>1, <2>1, <2>3, <2>4, Zenon
<1>4. CASE pass = "first" /\ ~SecondPass
  <2>1. pass' = "first"
    BY <1>4, NextCases, Zenon DEF Item, Define, Idle
  <2> QED
    BY <2>1 DEF WarnedInv
<1> QED
  BY <1>2, <1>3, <1>4

-----------------------------------------------------------------------------
(***************************************************************************)
(* What it takes to be well-formed, of the definitions one by one           *)
(***************************************************************************)
(* The functions, their definitions of a kind, and their items              *)
Fs == {program.defs[k].f : k \in DOMAIN program.defs}
Kinds(f, what) == {k \in DefsOf(f) : KindOf(k) = what}
All(f) == UNION {{<<k, i>> : i \in ItemsOf(k)} : k \in DefsOf(f)}

(* The predicate of module Automata in terms of the definitions one by one  *)
LEMMA WellFormedMeans ==
  ASSUME TypeOK
  PROVE  Promise!WellFormed(program) <=>
           /\ OneEach /\ Reachable
           /\ \A f \in FuncNames : SameMachine(f) /\ NoneTwice(f) /\ FallbackOnce(f) /\ NoneAlone(f)
<1> DEFINE Pairs(k) == {PairOf(k, i) : i \in ItemsOf(k)}
<1>1. Promise!WellFormed(program) <=>
        /\ \A k \in DOMAIN program.defs : \A c, d \in Pairs(k) : c[1] = d[1]
        /\ \A f \in Fs :
             /\ f # EntryFunc => \A x, y \in All(f) : PairOf(x[1], x[2])[1] = PairOf(y[1], y[2])[1]
             /\ \A x, y \in All(f) : x # y => PairOf(x[1], x[2]) # PairOf(y[1], y[2])
             /\ \A k \in Kinds(f, "fallback") : Kinds(f, "fallback") = {k} /\ Kinds(f, "list") # {}
             /\ \A k \in Kinds(f, "none") : DefsOf(f) = {k}
        /\ program.changes \subseteq UNION {Pairs(k) : k \in DOMAIN program.defs}
  BY Zenon DEF Promise!WellFormed, Promise!Pairs, Promise!PairsOf, Promise!Defs, Promise!MachineOf, Promise!Anonymous,
         Promise!EntryFunc, MachineOf, Anonymous, EntryFunc, PairOf, ItemsOf, KindOf, DefsOf, Fs, Kinds, All
<1>2. (\A k \in DOMAIN program.defs : \A c, d \in Pairs(k) : c[1] = d[1]) <=> OneEach
  BY Zenon DEF OneEach
<1>3. program.changes \subseteq UNION {Pairs(k) : k \in DOMAIN program.defs} <=> Reachable
  BY DEF Reachable
<1> HIDE DEF Pairs
<1>4. Fs \subseteq FuncNames /\ \A f \in FuncNames : f \notin Fs => DefsOf(f) = {}
  <2>1. \A k \in DOMAIN program.defs : program.defs[k].f \in FuncNames
    BY DefFacts
  <2> QED
    BY <2>1 DEF Fs, DefsOf
<1>5. \A f \in FuncNames : f \notin Fs => SameMachine(f) /\ NoneTwice(f) /\ FallbackOnce(f) /\ NoneAlone(f)
  BY <1>4, Zenon DEF SameMachine, OneMachineAll, NoneTwice, FallbackOnce, NoneAlone
<1>6. ASSUME NEW f
      PROVE  /\ \A x \in All(f) : \E k \in DefsOf(f) : \E i \in ItemsOf(k) : x = <<k, i>>
             /\ \A k \in DefsOf(f) : \A i \in ItemsOf(k) : <<k, i>> \in All(f)
  BY DEF All
<1>11. \A j, i : <<j, i>>[1] = j /\ <<j, i>>[2] = i
  OBVIOUS
<1>12. \A j, i, k, n : <<j, i>> = <<k, n>> => j = k /\ i = n
  OBVIOUS
<1>7. ASSUME NEW f
      PROVE  SameMachine(f)
             <=> (f # EntryFunc => \A x, y \in All(f) : PairOf(x[1], x[2])[1] = PairOf(y[1], y[2])[1])
  <2> DEFINE M(k, i) == PairOf(k, i)[1]
             L == \A x, y \in All(f) : M(x[1], x[2]) = M(y[1], y[2])
             R == \A j, k \in DefsOf(f) : \A i \in ItemsOf(j), n \in ItemsOf(k) : M(j, i) = M(k, n)
  <2>1. ASSUME L PROVE R
    <3> SUFFICES ASSUME NEW j \in DefsOf(f), NEW k \in DefsOf(f), NEW i \in ItemsOf(j), NEW n \in ItemsOf(k)
                 PROVE  M(j, i) = M(k, n)
      OBVIOUS
    <3>1. <<j, i>> \in All(f) /\ <<k, n>> \in All(f)
      BY <1>6, Zenon
    <3> HIDE DEF M
    <3> QED
      BY <1>11, <2>1, <3>1, Zenon
  <2>2. ASSUME R PROVE L
    <3> SUFFICES ASSUME NEW x \in All(f), NEW y \in All(f) PROVE M(x[1], x[2]) = M(y[1], y[2])
      OBVIOUS
    <3>1. PICK j \in DefsOf(f) : \E i \in ItemsOf(j) : x = <<j, i>>
      BY <1>6, Zenon
    <3>a. PICK i \in ItemsOf(j) : x = <<j, i>>
      BY <3>1
    <3>2. PICK k \in DefsOf(f) : \E n \in ItemsOf(k) : y = <<k, n>>
      BY <1>6, Zenon
    <3>b. PICK n \in ItemsOf(k) : y = <<k, n>>
      BY <3>2
    <3>3. x[1] = j /\ x[2] = i /\ y[1] = k /\ y[2] = n
      BY <1>11, <3>a, <3>b
    <3> HIDE DEF M
    <3>4. M(j, i) = M(k, n)
      BY <2>2, Zenon
    <3> QED
      BY <3>a, <3>b, <3>3, <3>4, Zenon
  <2> QED
    BY <2>1, <2>2, Zenon DEF SameMachine, OneMachineAll
<1>8. ASSUME NEW f
      PROVE  NoneTwice(f) <=> \A x, y \in All(f) : x # y => PairOf(x[1], x[2]) # PairOf(y[1], y[2])
  <2> DEFINE M(k, i) == PairOf(k, i)
             L == \A x, y \in All(f) : x # y => M(x[1], x[2]) # M(y[1], y[2])
             R == \A j, k \in DefsOf(f) : \A i \in ItemsOf(j), n \in ItemsOf(k) :
                    M(j, i) = M(k, n) => j = k /\ i = n
  <2>1. ASSUME L PROVE R
    <3> SUFFICES ASSUME NEW j \in DefsOf(f), NEW k \in DefsOf(f), NEW i \in ItemsOf(j), NEW n \in ItemsOf(k),
                        M(j, i) = M(k, n)
                 PROVE  j = k /\ i = n
      OBVIOUS
    <3>1. <<j, i>> \in All(f) /\ <<k, n>> \in All(f)
      BY <1>6, Zenon
    <3> HIDE DEF M
    <3>2. <<j, i>> = <<k, n>>
      BY <1>11, <2>1, <3>1, Zenon
    <3> QED
      BY <1>12, <3>2, Zenon
  <2>2. ASSUME R PROVE L
    <3> SUFFICES ASSUME NEW x \in All(f), NEW y \in All(f), M(x[1], x[2]) = M(y[1], y[2]) PROVE x = y
      OBVIOUS
    <3>1. PICK j \in DefsOf(f) : \E i \in ItemsOf(j) : x = <<j, i>>
      BY <1>6, Zenon
    <3>a. PICK i \in ItemsOf(j) : x = <<j, i>>
      BY <3>1
    <3>2. PICK k \in DefsOf(f) : \E n \in ItemsOf(k) : y = <<k, n>>
      BY <1>6, Zenon
    <3>b. PICK n \in ItemsOf(k) : y = <<k, n>>
      BY <3>2
    <3>3. x[1] = j /\ x[2] = i /\ y[1] = k /\ y[2] = n
      BY <1>11, <3>a, <3>b
    <3> HIDE DEF M
    <3>4. M(j, i) = M(k, n) => j = k /\ i = n
      BY <2>2, Zenon
    <3> QED
      BY <3>a, <3>b, <3>3, <3>4, Zenon
  <2> QED
    BY <2>1, <2>2, Zenon DEF NoneTwice
<1>9. ASSUME NEW f
      PROVE  FallbackOnce(f) <=>
               \A k \in Kinds(f, "fallback") : Kinds(f, "fallback") = {k} /\ Kinds(f, "list") # {}
  BY DEF FallbackOnce, Kinds
<1>10. ASSUME NEW f
       PROVE  NoneAlone(f) <=> \A k \in Kinds(f, "none") : DefsOf(f) = {k}
  BY DEF NoneAlone, Kinds
<1> QED
  BY <1>1, <1>2, <1>3, <1>4, <1>5, <1>7, <1>8, <1>9, <1>10, Zenon

-----------------------------------------------------------------------------
(***************************************************************************)
(* The lists of a function: state_conflict()                                *)
(***************************************************************************)
(* A list in the tables: its states are those of the items, of the          *)
(* automaton of the last one.                                               *)
HasPair(k, i, v) == Has(automata, states, PairOf(k, i)[1], PairOf(k, i)[2], v)
LastOf(k) == Len(program.defs[k].items)

(* The automaton and the state of an item                                   *)
LEMMA PairParts ==
  ASSUME NEW k, NEW i
  PROVE  PairOf(k, i)[1] = MachineOf(program.defs[k], i) /\ PairOf(k, i)[2] = program.defs[k].items[i].state
BY DEF PairOf

(* Items that have both in common are the same.                             *)
LEMMA PairEqual ==
  ASSUME NEW j, NEW i, NEW k, NEW n, PairOf(j, i)[1] = PairOf(k, n)[1], PairOf(j, i)[2] = PairOf(k, n)[2]
  PROVE  PairOf(j, i) = PairOf(k, n)
BY DEF PairOf

(* A list has the ids of the items of its definition, and is of the         *)
(* automaton of the last.                                                   *)
LEMMA ListElements ==
  ASSUME TablesInv, TypeOK, NEW k \in DOMAIN program.defs, KindOf(k) = "list", NEW id, IdOf(k, id)
  PROVE  /\ ItemsOf(k) = 1 .. LastOf(k) /\ LastOf(k) \in ItemsOf(k)
         /\ State_getlist(id) \in lists /\ State_getlist(id).id = id
         /\ \A v : v \in Range(State_getlist(id).states) <=> \E i \in ItemsOf(k) : HasPair(k, i, v)
         /\ \A i \in ItemsOf(k) : \E v \in Range(State_getlist(id).states) : HasPair(k, i, v)
         /\ \E a \in automata : a.name = PairOf(k, LastOf(k))[1] /\ a.index = State_getlist(id).fsa
<1>1. /\ Len(program.defs[k].items) \in Nat /\ Len(program.defs[k].items) # 0
      /\ DOMAIN program.defs[k].items = 1 .. Len(program.defs[k].items)
  BY DefFacts DEF KindOf
<1>2. PICK c \in lists : /\ c.id = id /\ State_getlist(id) = c
                         /\ ListedAs(automata, states, program.defs[k], c)
  BY IdKind DEF KindOf
<1>3. /\ FsaAt(automata, program.defs[k], LastOf(k), c.fsa)
      /\ Gather(automata, states, program.defs[k], LastOf(k), c.states)
  BY <1>2, Zenon DEF ListedAs, LastOf
<1>4. ItemsOf(k) = 1 .. LastOf(k) /\ LastOf(k) \in ItemsOf(k) /\ LastOf(k) # 0 /\ LastOf(k) \in Nat
  BY <1>1 DEF ItemsOf, LastOf
<1> DEFINE Of(i, v) == Has(automata, states, MachineOf(program.defs[k], i), program.defs[k].items[i].state, v)
<1>5. /\ \A v : v \in Range(c.states) <=> \E i \in 1 .. LastOf(k) : Of(i, v)
      /\ \A i \in 1 .. LastOf(k) : \E v \in Range(c.states) : Of(i, v)
  BY <1>3, <1>4, GatherRange, Zenon DEF TablesInv
<1>6. \A i, v : Of(i, v) <=> HasPair(k, i, v)
  BY PairParts, Zenon DEF HasPair
<1> HIDE DEF Of
<1>7. \E a \in automata : a.name = PairOf(k, LastOf(k))[1] /\ a.index = c.fsa
  BY <1>3, <1>4, PairParts, Zenon DEF FsaAt
<1> QED
  BY <1>2, <1>4, <1>5, <1>6, <1>7, Zenon

(* Two items with one state                                                 *)
LEMMA SharedState ==
  ASSUME TablesInv, NEW j, NEW i, NEW k, NEW n, NEW v, HasPair(j, i, v), HasPair(k, n, v),
         PairOf(j, i)[1] = PairOf(k, n)[1]
  PROVE  PairOf(j, i) = PairOf(k, n)
<1>1. PairOf(j, i)[2] = PairOf(k, n)[2]
  <2> DEFINE m == PairOf(j, i)[1]
             st == PairOf(j, i)[2]
             su == PairOf(k, n)[2]
  <2>1. Has(automata, states, m, st, v) /\ Has(automata, states, m, su, v)
    BY Zenon DEF HasPair
  <2> HIDE DEF m, st, su
  <2>2. su = st
    BY <2>1, HasUnique, Zenon DEF TablesInv
  <2> QED
    BY <2>2 DEF st, su
<1> QED
  BY <1>1, PairEqual

(* Two lists are of one automaton if the last items of their definitions    *)
(* are.                                                                     *)
LEMMA SameFsa ==
  ASSUME TablesInv, TypeOK, NEW j \in DOMAIN program.defs, NEW k \in DOMAIN program.defs,
         KindOf(j) = "list", KindOf(k) = "list", NEW x, NEW y, IdOf(j, x), IdOf(k, y)
  PROVE  State_getlist(x).fsa = State_getlist(y).fsa <=> PairOf(j, LastOf(j))[1] = PairOf(k, LastOf(k))[1]
<1>1. PICK a \in automata : a.name = PairOf(j, LastOf(j))[1] /\ a.index = State_getlist(x).fsa
  BY ListElements, Zenon
<1>2. PICK b \in automata : b.name = PairOf(k, LastOf(k))[1] /\ b.index = State_getlist(y).fsa
  BY ListElements, Zenon
<1> QED
  BY <1>1, <1>2, Zenon DEF TablesInv, AutomataOK

(* The ids that are attached are those of fall-backs and of lists.          *)
LEMMA AttachedIs ==
  ASSUME TablesInv, TypeOK, AttachedInv, NEW f \in FuncNames, NEW x \in DOMAIN attached[f]
  PROVE  \E k \in DefsOf(f) : /\ k \in DOMAIN program.defs /\ k \in Implements(f) /\ IdOf(k, attached[f][x].id)
                              /\ KindOf(k) = IF attached[f][x].id = Fallback THEN "fallback" ELSE "list"
                              /\ attached[f][x].id # Stateless
<1>1. PICK k \in Implements(f) : IdOf(k, attached[f][x].id)
  BY Zenon DEF AttachedInv
<1>2. k \in DefsOf(f) /\ k \in DOMAIN program.defs /\ KindOf(k) # "none"
  BY ImplementsIn DEF Implements, KindOf
<1>3. KindOf(k) \in {"none", "fallback", "list"}
  BY <1>2, DefFacts DEF KindOf
<1>4. /\ attached[f][x].id = Stateless <=> KindOf(k) = "none"
      /\ attached[f][x].id = Fallback <=> KindOf(k) = "fallback"
  BY <1>1, IdKind, Zenon DEF KindOf
<1> QED
  BY <1>1, <1>2, <1>3, <1>4

(* state_conflict() finds nothing exactly if no two lists are in conflict.  *)
LEMMA ConflictMeans ==
  ASSUME TypeOK
  PROVE  State_conflict = {} <=>
           \A f \in FuncNames : \A x, y \in DOMAIN attached[f] :
             x # y /\ attached[f][x].id # Fallback /\ attached[f][y].id # Fallback
             => Conflict(f, attached[f][x].id, attached[f][y].id) = {}
<1> DEFINE Both(s) == {z \in (DOMAIN s) \X (DOMAIN s) : z[1] < z[2] /\ Fallback \notin {s[z[1]].id, s[z[2]].id}}
           Of(f) == UNION {Conflict(f, attached[f][z[1]].id, attached[f][z[2]].id) : z \in Both(attached[f])}
<1>1. State_conflict = UNION {Of(f) : f \in FuncNames}
  BY Zenon DEF State_conflict
<1>2. ASSUME NEW f \in FuncNames
      PROVE  Of(f) = {} <=>
               \A x, y \in DOMAIN attached[f] :
                 x # y /\ attached[f][x].id # Fallback /\ attached[f][y].id # Fallback
                 => Conflict(f, attached[f][x].id, attached[f][y].id) = {}
  <2> DEFINE s == attached[f]
             N(i, j) == Conflict(f, i, j) = {}
  <2>1. \A i, j : N(i, j) <=> N(j, i)
    BY DEF Conflict
  <2>2. DOMAIN s \subseteq Nat
    BY DEF TypeOK
  <2>3. Of(f) = {} <=> \A z \in Both(s) : N(s[z[1]].id, s[z[2]].id)
    <3> HIDE DEF Both
    <3> QED
      OBVIOUS
  <2>4. (\A z \in Both(s) : N(s[z[1]].id, s[z[2]].id))
        <=> \A x, y \in DOMAIN s : x < y /\ s[x].id # Fallback /\ s[y].id # Fallback => N(s[x].id, s[y].id)
    <3>1. \A z \in Both(s) : /\ z[1] \in DOMAIN s /\ z[2] \in DOMAIN s /\ z[1] < z[2]
                             /\ s[z[1]].id # Fallback /\ s[z[2]].id # Fallback
      OBVIOUS
    <3>2. \A x, y \in DOMAIN s : x < y /\ s[x].id # Fallback /\ s[y].id # Fallback
            => <<x, y>> \in Both(s) /\ <<x, y>>[1] = x /\ <<x, y>>[2] = y
      OBVIOUS
    <3> HIDE DEF Both, N, s
    <3>3. ASSUME \A z \in Both(s) : N(s[z[1]].id, s[z[2]].id), NEW x \in DOMAIN s, NEW y \in DOMAIN s,
                 x < y /\ s[x].id # Fallback /\ s[y].id # Fallback
          PROVE  N(s[x].id, s[y].id)
      BY <3>2, <3>3
    <3> QED
      BY <3>1, <3>3, Zenon
  <2> HIDE DEF N, Of, Both
  <2>5. \A x, y \in DOMAIN s : x # y => x < y \/ y < x
    BY <2>2
  <2>6. \A x, y \in DOMAIN s : x < y => x # y
    BY <2>2
  <2> HIDE DEF s
  <2>7. Of(f) = {} <=> \A x, y \in DOMAIN s : x # y /\ s[x].id # Fallback /\ s[y].id # Fallback => N(s[x].id, s[y].id)
    BY <2>1, <2>3, <2>4, <2>5, <2>6, Zenon
  <2> QED
    BY <2>7 DEF s, N
<1> HIDE DEF Of
<1>3. State_conflict = {} <=> \A f \in FuncNames : Of(f) = {}
  BY <1>1
<1> QED
  BY <1>2, <1>3, Zenon

(* A program that is well-formed, with one automaton for its entry          *)
(* functions: the definitions of a function are of one automaton.           *)
LEMMA EntryMeans ==
  ASSUME ~EntryMachines, NEW f, SameMachine(f)
  PROVE  OneMachineAll(f)
<1>1. CASE f # EntryFunc
  BY <1>1, Zenon DEF SameMachine, OneMachineAll
<1>2. CASE f = EntryFunc
  <2> SUFFICES ASSUME NEW j \in DefsOf(f), NEW k \in DefsOf(f), NEW i \in ItemsOf(j), NEW n \in ItemsOf(k)
               PROVE  PairOf(j, i)[1] = PairOf(k, n)[1]
    BY DEF OneMachineAll
  <2>1. \A l \in DefsOf(f) : \A q \in ItemsOf(l) : MachineOf(program.defs[l], q) \in Machines(DefsOf(f))
    BY DEF Machines, ItemsOf
  <2>2. PairOf(j, i)[1] \in Machines(DefsOf(f)) /\ PairOf(k, n)[1] \in Machines(DefsOf(f))
    BY <2>1, PairParts
  <2> QED
    BY <1>2, <2>2, Zenon DEF EntryMachines
<1> QED
  BY <1>1, <1>2

(* Two definitions of a function whose lists share a state are one.         *)
LEMMA Apart ==
  ASSUME TablesInv, TypeOK, NEW f, OneMachineAll(f), NoneTwice(f), NEW j \in DefsOf(f), NEW k \in DefsOf(f),
         KindOf(j) = "list", KindOf(k) = "list", NEW x, NEW y, IdOf(j, x), IdOf(k, y),
         NEW v, v \in Range(State_getlist(x).states), v \in Range(State_getlist(y).states)
  PROVE  j = k
<1>0. j \in DOMAIN program.defs /\ k \in DOMAIN program.defs
  BY ImplementsIn
<1>1. PICK i \in ItemsOf(j) : HasPair(j, i, v)
  BY <1>0, ListElements, Zenon
<1>2. PICK n \in ItemsOf(k) : HasPair(k, n, v)
  BY <1>0, ListElements, Zenon
<1>3. PairOf(j, i)[1] = PairOf(k, n)[1]
  BY Zenon DEF OneMachineAll
<1>4. PairOf(j, i) = PairOf(k, n)
  BY <1>1, <1>2, <1>3, SharedState
<1> QED
  BY <1>4, Zenon DEF NoneTwice

(* Without a state in two of them the lists of a function have no           *)
(* conflict.                                                                *)
LEMMA NoConflict ==
  ASSUME TablesInv, TypeOK, AttachedInv,
         \A f \in FuncNames : OneMachineAll(f) /\ NoneTwice(f)
  PROVE  State_conflict = {}
<1> SUFFICES ASSUME NEW f \in FuncNames, NEW x \in DOMAIN attached[f], NEW y \in DOMAIN attached[f],
                    x # y, attached[f][x].id # Fallback, attached[f][y].id # Fallback
             PROVE  Conflict(f, attached[f][x].id, attached[f][y].id) = {}
  BY ConflictMeans
<1> DEFINE a == attached[f][x].id
           b == attached[f][y].id
<1>1. PICK j \in DefsOf(f) : j \in DOMAIN program.defs /\ IdOf(j, a) /\ KindOf(j) = "list"
  BY AttachedIs
<1>2. PICK k \in DefsOf(f) : k \in DOMAIN program.defs /\ IdOf(k, b) /\ KindOf(k) = "list"
  BY AttachedIs
<1>3. a # b
  BY Zenon DEF AttachedInv
<1> HIDE DEF a, b
<1>4. j # k
  BY <1>1, <1>2, <1>3, IdUnique
<1>5. State_getlist(a).fsa = State_getlist(b).fsa
  <2>1. LastOf(j) \in ItemsOf(j) /\ LastOf(k) \in ItemsOf(k)
    BY <1>1, <1>2, ListElements
  <2>2. PairOf(j, LastOf(j))[1] = PairOf(k, LastOf(k))[1]
    BY <2>1, Zenon DEF OneMachineAll
  <2> QED
    BY <1>1, <1>2, <2>2, SameFsa
<1>6. Range(State_getlist(a).states) \cap Range(State_getlist(b).states) = {}
  <2> SUFFICES ASSUME NEW v, v \in Range(State_getlist(a).states), v \in Range(State_getlist(b).states)
               PROVE  FALSE
    OBVIOUS
  <2> QED
    BY <1>1, <1>2, <1>4, Apart
<1> QED
  BY <1>5, <1>6 DEF Conflict, a, b

-----------------------------------------------------------------------------
(***************************************************************************)
(* Well-formed programs have no errors                                      *)
(***************************************************************************)
(* A program that is well-formed, with one automaton for entry()            *)
LEMMA FineMeans ==
  ASSUME TypeOK, ~EntryMachines, Promise!WellFormed(program)
  PROVE  Fine
BY WellFormedMeans, EntryMeans, Zenon DEF Fine

(* getstates(): the items of a list are of one automaton.                   *)
LEMMA ItemSound ==
  ASSUME TablesInv, TypeOK, ItemInv, KnownInv, Item, OneEach
  PROVE  fsa \in {NoFsa, fsa'}
<1> SUFFICES ASSUME fsa # NoFsa PROVE fsa = fsa'
  OBVIOUS
<1>1. /\ pos \in DOMAIN program.defs /\ item \in 1 .. Len(Def.items)
      /\ automata \subseteq automata' /\ \E a, v : Met(a, v)
  BY ItemEffect
<1>2. pos <= Len(program.defs) /\ Len(Def.items) \in Nat /\ DOMAIN Def.items = 1 .. Len(Def.items)
  BY <1>1, DefsDomain, DefFacts DEF Def
<1>3. FsaAt(automata, Def, item - 1, fsa)
  BY <1>2, Zenon DEF ItemInv
<1>4. item - 1 # 0 /\ \E a \in automata : a.name = MachineOf(Def, item - 1) /\ a.index = fsa
  BY <1>3, Zenon DEF FsaAt
<1>5. item \in ItemsOf(pos) /\ item - 1 \in ItemsOf(pos)
  BY <1>1, <1>2, <1>4 DEF ItemsOf, Def
<1>6. MachineOf(Def, item) = MachineOf(Def, item - 1)
  <2>1. PairOf(pos, item)[1] = PairOf(pos, item - 1)[1]
    BY <1>1, <1>5, Zenon DEF OneEach
  <2> QED
    BY <2>1, PairParts DEF Def
<1>7. PICK b \in automata' : b.name = MachineOf(Def, item) /\ b.index = fsa'
  BY <1>1, Zenon DEF Met
<1>8. TablesInv'
  BY NextTables DEF Next
<1> QED
  BY <1>1, <1>4, <1>6, <1>7, <1>8, Zenon DEF TablesInv, AutomataOK

(* attachstatelist() has three errors, each with its own condition.         *)
Twice(f, id) == f \in defined /\ (attached[f] = <<>> \/ id = Stateless)
Again(f, id) == \E x \in DOMAIN attached[f] : id # Stateless /\ attached[f][x].id = id /\ attached[f][x].placed
Only(f, id) == id = Fallback /\ \A x \in DOMAIN attached[f] : attached[f][x].id = Fallback

(* attachstatelist() gives an error if one of the three conditions holds.   *)
LEMMA ErrorsMean ==
  ASSUME NEW f, NEW id
  PROVE  AttachErrors(f, id) = {} <=> ~Twice(f, id) /\ ~Again(f, id) /\ ~Only(f, id)
BY DEF AttachErrors, Twice, Again, Only

(* When a definition is read in the second pass                             *)
LEMMA ReadAgain ==
  ASSUME TablesInv, TypeOK, ItemInv, KnownInv, AttachedInv, MetInv, pass # "first",
         NEW f \in FuncNames, pos \in DefsOf(f), NEW id, IdOf(pos, id)
  PROVE  /\ pos \in DOMAIN program.defs
         /\ Twice(f, id) <=> KindOf(pos) = "none" /\ \E k \in DefsOf(f) : k < pos
         /\ Again(f, id) <=> KindOf(pos) # "none" /\ \E k \in Implements(f) : k < pos /\ IdOf(k, id)
         /\ Only(f, id) <=> KindOf(pos) = "fallback" /\ \A k \in DefsOf(f) : KindOf(k) # "list"
<1>0. pos \in DOMAIN program.defs /\ \A k \in DefsOf(f) : k \in DOMAIN program.defs
  BY ImplementsIn
<1>1. Seen = Len(program.defs) /\ \A k \in DOMAIN program.defs : k <= Seen
  BY DefsDomain DEF Seen
<1>2. \A k \in Implements(f) : \E x \in DOMAIN attached[f] : IdOf(k, attached[f][x].id)
  BY <1>0, <1>1, ImplementsIn, Zenon DEF AttachedInv
<1>3. /\ id = Stateless <=> KindOf(pos) = "none"
      /\ id = Fallback <=> KindOf(pos) = "fallback"
  BY IdKind, Zenon DEF KindOf
<1>4. pos \in Implements(f) <=> KindOf(pos) # "none"
  BY DEF Implements, KindOf
<1>5. attached[f] = <<>> => KindOf(pos) = "none"
  <2>1. attached[f] = <<>> => DOMAIN attached[f] = {}
    OBVIOUS
  <2> QED
    BY <1>2, <1>4, <2>1, Zenon
<1>6. Twice(f, id) <=> KindOf(pos) = "none" /\ \E k \in DefsOf(f) : k < pos
  BY <1>3, <1>5, Zenon DEF Twice, MetInv
<1>7. Again(f, id) <=> KindOf(pos) # "none" /\ \E k \in Implements(f) : k < pos /\ IdOf(k, id)
  <2>1. ASSUME Again(f, id) PROVE KindOf(pos) # "none" /\ \E k \in Implements(f) : k < pos /\ IdOf(k, id)
    BY <1>3, <2>1, Zenon DEF Again, MetInv
  <2>2. ASSUME KindOf(pos) # "none", NEW k \in Implements(f), k < pos, IdOf(k, id) PROVE Again(f, id)
    <3>1. PICK x \in DOMAIN attached[f] : IdOf(k, attached[f][x].id)
      BY <1>2
    <3>2. attached[f][x].id = id
      BY <1>0, <2>2, <3>1, IdUnique, ImplementsIn
    <3> QED
      BY <1>3, <2>2, <3>1, <3>2, Zenon DEF Again, MetInv
  <2> QED
    BY <2>1, <2>2, Zenon
<1>8. Only(f, id) <=> KindOf(pos) = "fallback" /\ \A k \in DefsOf(f) : KindOf(k) # "list"
  <2>1. ASSUME id = Fallback, NEW k \in DefsOf(f), KindOf(k) = "list" PROVE ~Only(f, id)
    <3>1. k \in Implements(f)
      BY <2>1 DEF Implements, KindOf
    <3>2. PICK x \in DOMAIN attached[f] : IdOf(k, attached[f][x].id)
      BY <1>2, <3>1
    <3>3. attached[f][x].id # Fallback
      <4>1. KindOf(k) # "fallback"
        BY <2>1
      <4> QED
        BY <3>2, <4>1, IdKind, Zenon DEF KindOf
    <3> QED
      BY <3>3, Zenon DEF Only
  <2>2. ASSUME id = Fallback, \A k \in DefsOf(f) : KindOf(k) # "list", NEW x \in DOMAIN attached[f]
        PROVE  attached[f][x].id = Fallback
    BY <2>2, AttachedIs
  <2> QED
    BY <1>3, <2>1, <2>2, Zenon DEF Only
<1> QED
  BY <1>0, <1>6, <1>7, <1>8, Zenon

(* A definition of a well-formed program is attached without error.         *)
LEMMA AttachSound ==
  ASSUME TablesInv, TypeOK, ItemInv, KnownInv, AttachedInv, MetInv, pass # "first",
         NEW f \in FuncNames, pos \in DefsOf(f), NEW id, IdOf(pos, id),
         OneMachineAll(f), NoneTwice(f), FallbackOnce(f), NoneAlone(f)
  PROVE  AttachErrors(f, id) = {}
<1>0. pos \in DOMAIN program.defs /\ \A k \in DefsOf(f) : k \in DOMAIN program.defs /\ (k < pos => k # pos)
  BY ImplementsIn DEF TypeOK
<1>1. ~Twice(f, id)
  BY <1>0, ReadAgain, Zenon DEF NoneAlone
<1>2. ~Again(f, id)
  <2> SUFFICES ASSUME KindOf(pos) # "none", NEW k \in Implements(f), k < pos, IdOf(k, id) PROVE FALSE
    BY ReadAgain
  <2>1. k \in DefsOf(f) /\ k \in DOMAIN program.defs /\ k # pos
    BY <1>0, ImplementsIn
  <2>2. KindOf(pos) \in {"none", "fallback", "list"} /\ KindOf(k) \in {"none", "fallback", "list"}
    BY <1>0, <2>1, DefFacts DEF KindOf
  <2>3. KindOf(k) = KindOf(pos)
    <3>1. /\ (id = Stateless <=> KindOf(k) = "none") /\ (id = Fallback <=> KindOf(k) = "fallback")
          /\ (id = Stateless <=> KindOf(pos) = "none") /\ (id = Fallback <=> KindOf(pos) = "fallback")
      BY IdKind, Zenon DEF KindOf
    <3> QED
      BY <2>2, <3>1
  <2>4. KindOf(pos) # "fallback"
    BY <2>1, <2>3, Zenon DEF FallbackOnce
  <2>5. KindOf(pos) = "list" /\ KindOf(k) = "list"
    BY <2>2, <2>3, <2>4
  <2>6. LastOf(pos) \in ItemsOf(pos) /\ \A i \in ItemsOf(pos) : \E v : v \in Range(State_getlist(id).states)
    BY <1>0, <2>5, ListElements, Zenon
  <2>7. PICK v : v \in Range(State_getlist(id).states)
    BY <2>6
  <2> QED
    BY <2>1, <2>5, <2>7, Apart
<1>3. ~Only(f, id)
  BY ReadAgain, Zenon DEF FallbackOnce
<1> QED
  BY <1>1, <1>2, <1>3, ErrorsMean

(* A state that is listed somewhere is known to the "state" statements.     *)
LEMMA ChangesSound ==
  ASSUME TablesInv, TypeOK, KnownInv, pass # "first", Reachable
  PROVE  \A c \in program.changes : Known(c)
<1> SUFFICES ASSUME NEW c \in program.changes PROVE Known(c)
  OBVIOUS
<1>1. PICK k \in DOMAIN program.defs : \E i \in ItemsOf(k) : c = PairOf(k, i)
  BY Zenon DEF Reachable
<1>2. PICK i \in ItemsOf(k) : c = PairOf(k, i)
  BY <1>1
<1>3. k \in 1 .. Seen
  BY DefsDomain DEF Seen
<1>4. PICK id \in Int : IdOf(k, id)
  BY <1>3, Zenon DEF KnownInv
<1>5. KindOf(k) = "list"
  <2>1. /\ Len(program.defs[k].items) \in Nat /\ DOMAIN program.defs[k].items = 1 .. Len(program.defs[k].items)
        /\ program.defs[k].kind = "list" <=> Len(program.defs[k].items) # 0
    BY DefFacts
  <2>2. i \in 1 .. Len(program.defs[k].items)
    BY <2>1 DEF ItemsOf
  <2> QED
    BY <2>1, <2>2 DEF KindOf
<1>6. PICK v : HasPair(k, i, v)
  BY <1>4, <1>5, ListElements, Zenon
<1> QED
  BY <1>2, <1>6, Zenon DEF HasPair, Has, Known

(* The number of an error without a state                                   *)
LEMMA PlainNumber == \A n, f : Plain(n, f)[1] = n
  BY DEF Plain

(* What a well-formed program is depends on the program only.               *)
LEMMA SameFine == ASSUME program' = program PROVE Fine' <=> Fine
<1>1. /\ \A f : DefsOf(f)' = DefsOf(f) /\ Implements(f)' = Implements(f)
      /\ \A k : ItemsOf(k)' = ItemsOf(k) /\ KindOf(k)' = KindOf(k)
      /\ \A k, i : PairOf(k, i)' = PairOf(k, i)
  BY DEF DefsOf, Implements, ItemsOf, KindOf, PairOf
<1>2. (OneEach <=> OneEach') /\ (Reachable <=> Reachable')
  BY <1>1, Zenon DEF OneEach, Reachable
<1>3. \A f : OneMachineAll(f) <=> OneMachineAll(f)'
  <2> SUFFICES ASSUME NEW f PROVE OneMachineAll(f) <=> OneMachineAll(f)'
    OBVIOUS
  <2>1. /\ DefsOf(f)' = DefsOf(f)
        /\ \A j, k \in DefsOf(f) : \A i \in ItemsOf(j), n \in ItemsOf(k) :
             PairOf(j, i)' = PairOf(j, i) /\ PairOf(k, n)' = PairOf(k, n)
    BY <1>1, Zenon
  <2> QED
    BY <1>1, <2>1 DEF OneMachineAll
<1>5. \A f : NoneTwice(f) <=> NoneTwice(f)'
  <2> SUFFICES ASSUME NEW f PROVE NoneTwice(f) <=> NoneTwice(f)'
    OBVIOUS
  <2> QED
    BY <1>1 DEF NoneTwice
<1>4. \A f : (FallbackOnce(f) <=> FallbackOnce(f)') /\ (NoneAlone(f) <=> NoneAlone(f)')
  BY <1>1, Zenon DEF FallbackOnce, NoneAlone
<1> QED
  BY <1>2, <1>3, <1>5, <1>4, Zenon DEF Fine

(* What Define gives in the second pass.                                    *)
LEMMA DefineSays ==
  ASSUME TablesInv, TypeOK, ItemInv, KnownInv, pass # "first", Define
  PROVE  \E id \in Int :
           /\ IdOf(pos, id) /\ pos \in DOMAIN program.defs /\ Def.f \in FuncNames
           /\ IF Def.forward THEN says' = says \/ says' = says \cup {Plain(231, Def.f)}
              ELSE pos \in DefsOf(Def.f) /\ says' = says \cup AttachErrors(Def.f, id)
<1>1. PICK id \in Int :
        /\ IdAfter(pos, id) /\ Places(Def.f, id)
        /\ \A f \in FuncNames : pos \in DefsOf(f) <=> f = Def.f /\ ~Def.forward
        /\ pos \in DOMAIN program.defs /\ pass \in {"first", "write"}
  BY DefineCases, Zenon
<1>2. pos \in 1 .. Seen
  BY <1>1, DefsDomain DEF Seen
<1>3. IdOf(pos, id)
  <2>1. [Next]_vars
    BY DEF Next
  <2> QED
    BY <1>1, <1>2, <2>1, AfterFacts, Zenon
<1>4. Def.f \in FuncNames
  BY <1>1, DefFacts DEF Def
<1>5. pass = "write"
  BY <1>1
<1>6. CASE Def.forward
  <2>0. Plain(231, Def.f) = <<231, Def.f, "">>
    BY Zenon DEF Plain
  <2>1. says' = says \cup (IF id # Stateless THEN {Plain(231, Def.f)} ELSE {})
    BY <1>1, <1>5, <1>6, <2>0, Zenon DEF Places, Reported
  <2>2. says' = says \/ says' = says \cup {Plain(231, Def.f)}
    BY <2>1
  <2> QED
    BY <1>1, <1>3, <1>4, <1>6, <2>2, Zenon
<1>7. CASE ~Def.forward
  <2>1. says' = says \cup AttachErrors(Def.f, id)
    BY <1>1, <1>5, <1>7, Zenon DEF Places, Reported
  <2> QED
    BY <1>1, <1>3, <1>4, <1>7, <2>1, Zenon
<1> QED
  BY <1>6, <1>7

(* What SecondPass gives: warnings beside the conflicts                     *)
LEMMA SecondSays ==
  ASSUME SecondPass
  PROVE  \E W : says' = State_conflict \cup W /\ \A e \in W : ~(e[1] < 200)
<1> DEFINE W == UNION {Unimplemented(f) : f \in {g \in Stubbed : ~HasFallback(g)}}
<1>1. says' = State_conflict \cup W
  BY Zenon DEF SecondPass
<1>2. \A e \in W : \E f, n : e = <<230, f, n>>
  BY DEF Unimplemented
<1>3. \A f, n : <<230, f, n>>[1] = 230
  OBVIOUS
<1> HIDE DEF W
<1>4. ASSUME NEW e \in W PROVE ~(e[1] < 200)
  <2>1. e[1] = 230
    <3>1. PICK f, n : e = <<230, f, n>>
      BY <1>2
    <3> QED
      BY <1>3, <3>1
  <2> QED
    BY <2>1
<1> QED
  BY <1>1, <1>4, Zenon

(* What Finish gives: something exactly if a state is not known             *)
LEMMA FinishSays ==
  ASSUME Finish
  PROVE  \E S : /\ says' = says \cup S /\ \A e \in S : e[1] < 200
                /\ S = {} <=> \A c \in program.changes : Known(c)
<1> DEFINE N(c) == IF \E a \in automata : a.name = c[1] THEN 87 ELSE 86
           S == {<<N(c), c[1], c[2]>> : c \in {d \in program.changes : ~Known(d)}}
<1>1. says' = says \cup S
  BY Zenon DEF Finish
<1>2. \A c : N(c) \in Int /\ N(c) < 200
  OBVIOUS
<1>3. \A n, s, t : <<n, s, t>>[1] = n
  OBVIOUS
<1> HIDE DEF N
<1>4. \A e \in S : e[1] < 200
  <2> SUFFICES ASSUME NEW c PROVE <<N(c), c[1], c[2]>>[1] < 200
    OBVIOUS
  <2> QED
    BY <1>2, <1>3
<1>5. S = {} <=> \A c \in program.changes : Known(c)
  OBVIOUS
<1> HIDE DEF S
<1> QED
  BY <1>1, <1>4, <1>5, Zenon

(* Every step keeps well-formed programs without errors.                    *)
LEMMA NextSound ==
  ASSUME TablesInv, TypeOK, ItemInv, KnownInv, AttachedInv, MetInv, SoundInv, [Next]_vars
  PROVE  SoundInv'
<1>0. program' = program
  BY NextGrows
<1>a. Fine' <=> Fine
  BY <1>0, SameFine
<1>b. pass = "first" => says = {}
  BY DEF SoundInv
<1>c. Fine => Errors = {}
  BY DEF SoundInv
<1>d. \A n, f : Plain(n, f)[1] = n
  BY PlainNumber
<1>1. CASE says' = says /\ (pass' = "first" => pass = "first")
  <2>1. Errors' = Errors
    BY <1>1 DEF Errors
  <2> QED
    BY <1>1, <1>a, <1>b, <1>c, <2>1, Zenon DEF SoundInv
<1>2. CASE pass' # "first" /\ (Fine => \A e \in says' : e \in says \/ ~(e[1] < 200))
  <2>1. Fine => Errors' = {}
    BY <1>2, <1>c DEF Errors
  <2> QED
    BY <1>2, <1>a, <2>1, Zenon DEF SoundInv
<1>3. CASE Item
  <2>1. pass' = pass /\ says' = Reported(IF fsa \notin {NoFsa, fsa'} THEN {<<83, Def.f, "">>} ELSE {})
    <3>1. pass' = pass
      BY <1>3, Zenon DEF Item
    <3> QED
      BY <1>3, <3>1, ItemEffect
  <2>2. CASE pass = "first"
    BY <1>1, <2>1, <2>2, "first" # "write" DEF Reported
  <2>3. CASE pass # "first"
    <3>1. Fine => says' = says \/ says' = says \cup {}
      <4> SUFFICES ASSUME Fine PROVE says' = says \/ says' = says \cup {}
        OBVIOUS
      <4>1. fsa \in {NoFsa, fsa'}
        BY <1>3, ItemSound DEF Fine
      <4> QED
        BY <2>1, <4>1, Zenon DEF Reported
    <3> QED
      BY <1>2, <2>1, <2>3, <3>1
  <2> QED
    BY <2>2, <2>3
<1>4. CASE Define
  <2>1. pass' = pass
    BY <1>4, Zenon DEF Define
  <2>2. CASE pass = "first"
    <3>1. \E id \in Int : Places(Def.f, id)
      BY <1>4, DefineEffect, Zenon
    <3>2. says' = says
      BY <2>2, <3>1, "first" # "write", Zenon DEF Places, Reported
    <3> QED
      BY <1>1, <2>1, <3>2
  <2>3. CASE pass # "first"
    <3>1. PICK id \in Int :
           /\ IdOf(pos, id) /\ pos \in DOMAIN program.defs /\ Def.f \in FuncNames
           /\ IF Def.forward THEN says' = says \/ says' = says \cup {Plain(231, Def.f)}
              ELSE pos \in DefsOf(Def.f) /\ says' = says \cup AttachErrors(Def.f, id)
      BY <1>4, <2>3, DefineSays, Zenon
    <3>2. CASE Def.forward
      <4>1. ~(Plain(231, Def.f)[1] < 200)
        BY <1>d
      <4>2. \A e \in says' : e \in says \/ e = Plain(231, Def.f)
        BY <3>1, <3>2
      <4> QED
        BY <1>2, <2>1, <2>3, <4>1, <4>2, Zenon
    <3>3. CASE ~Def.forward
      <4>1. Fine => AttachErrors(Def.f, id) = {}
        BY <2>3, <3>1, <3>3, AttachSound DEF Fine
      <4>2. Fine => \A e \in says' : e \in says
        BY <3>1, <3>3, <4>1
      <4> QED
        BY <1>2, <2>1, <2>3, <4>2, Zenon
    <3> QED
      BY <3>2, <3>3
  <2> QED
    BY <2>2, <2>3
<1>5. CASE SecondPass
  <2>1. pass' = "write"
    BY <1>5, SecondPassEffect
  <2>2. PICK W : says' = State_conflict \cup W /\ \A e \in W : ~(e[1] < 200)
    BY <1>5, SecondSays
  <2>3. Fine => State_conflict = {}
    BY NoConflict, Zenon DEF Fine
  <2> QED
    BY <1>2, <2>1, <2>2, <2>3
<1>6. CASE Finish
  <2>1. pass = "write" /\ pass' = "run"
    BY <1>6, Zenon DEF Finish
  <2>2. PICK S : says' = says \cup S /\ (S = {} <=> \A c \in program.changes : Known(c))
    BY <1>6, FinishSays, Zenon
  <2>3. Fine => S = {}
    BY <2>1, <2>2, ChangesSound, Zenon DEF Fine
  <2> QED
    BY <1>2, <2>1, <2>2, <2>3
<1>7. ASSUME NEW c \in program.changes, Enter(c) PROVE SoundInv'
  <2>1. UNCHANGED <<parser, output>>
    BY <1>7, Zenon DEF Enter
  <2> QED
    BY <1>1, <2>1 DEF parser, output
<1>8. ASSUME NEW f \in program.calls, Call(f) PROVE SoundInv'
  <2>1. UNCHANGED output /\ pass = "run" /\ \E id : pass' = IF id \in {Nostate, Beyond} THEN "halted" ELSE "run"
    BY <1>8, Zenon DEF Call, Running
  <2> QED
    BY <1>1, <2>1 DEF output
<1>9. CASE UNCHANGED vars
  BY <1>1, <1>9 DEF vars, parser, output
<1> QED
  BY <1>3, <1>4, <1>5, <1>6, <1>7, <1>8, <1>9, Zenon DEF Next

(* Errors are kept.                                                         *)
LEMMA ErrorsStay ==
  ASSUME TablesInv, TypeOK, ItemInv, KnownInv, [Next]_vars, pass # "first"
  PROVE  says \subseteq says' /\ (Errors' = {} => Errors = {} /\ \A e \in says' : ~(e[1] < 200))
<1>1. says \subseteq says'
  <2>1. CASE Item
    BY <2>1, ItemEffect, Zenon DEF Reported
  <2>2. CASE Define
    <3>1. PICK id \in Int : Places(Def.f, id)
      BY <2>2, DefineEffect, Zenon
    <3> QED
      BY <3>1, Zenon DEF Places, Reported
  <2>3. CASE SecondPass
    BY <2>3, Zenon DEF SecondPass
  <2>4. CASE Finish
    <3>1. PICK S : says' = says \cup S
      BY <2>4, FinishSays, Zenon
    <3> QED
      BY <3>1
  <2>5. ASSUME NEW c \in program.changes, Enter(c) PROVE says' = says
    BY <2>5, Zenon DEF Enter, output
  <2>6. ASSUME NEW f \in program.calls, Call(f) PROVE says' = says
    BY <2>6, Zenon DEF Call, output
  <2>7. CASE UNCHANGED vars
    BY <2>7, Zenon DEF vars, output
  <2> QED
    BY <2>1, <2>2, <2>3, <2>4, <2>5, <2>6, <2>7 DEF Next
<1> QED
  BY <1>1 DEF Errors

-----------------------------------------------------------------------------
(***************************************************************************)
(* What has passed without error is as it should be                         *)
(***************************************************************************)
(* A list is of one automaton if no item of it is an error.                 *)
MachinesAt(n, m) ==
  \A k \in DOMAIN program.defs :
    /\ k < n => OneMachine(program.defs[k], Len(program.defs[k].items))
    /\ k = n => OneMachine(program.defs[k], m - 1)

(* An item of another automaton is an error.                                *)
LEMMA MachinesStay ==
  ASSUME TablesInv, TypeOK, ItemInv, KnownInv, [Next]_vars, pass # "first", MachinesOK,
         Errors' = {}
  PROVE  MachinesOK'
<1>1. program' = program
  BY NextGrows
<1>2. MachinesAt(pos, item) /\ (MachinesAt(pos', item') => MachinesOK')
  BY <1>1 DEF MachinesOK, MachinesAt
<1>3. CASE Item
  <2>1. /\ pos \in DOMAIN program.defs /\ item \in 1 .. Len(Def.items)
        /\ automata' = automata /\ \E a, v : Met(a, v)
    BY <1>3, ItemEffect
  <2>2. pos <= Len(program.defs) /\ Len(Def.items) \in Nat
    BY <2>1, DefsDomain, DefFacts DEF Def
  <2>3. pos' = pos /\ item' = item + 1 /\ pass = "write"
    BY <1>3, Zenon DEF Item, Parsing
  <2>4. fsa \in {NoFsa, fsa'}
    <3> SUFFICES ASSUME fsa \notin {NoFsa, fsa'} PROVE FALSE
      OBVIOUS
    <3>1. says' = says \cup {Plain(83, Def.f)}
      <4>1. says' = Reported({Plain(83, Def.f)})
        BY <1>3, ItemEffect, Zenon DEF Plain
      <4> QED
        BY <2>3, <4>1, Zenon DEF Reported
    <3>2. Plain(83, Def.f)[1] = 83
      BY PlainNumber
    <3>3. ~(Plain(83, Def.f)[1] < 200)
      BY <3>1, ErrorsStay
    <3> QED
      BY <3>2, <3>3
  <2>5. item = 1 \/ MachineOf(Def, item) = MachineOf(Def, item - 1)
    <3> SUFFICES ASSUME item # 1 PROVE MachineOf(Def, item) = MachineOf(Def, item - 1)
      OBVIOUS
    <3>1. item - 1 # 0 /\ FsaAt(automata, Def, item - 1, fsa)
      BY <2>1, <2>2 DEF ItemInv
    <3>2. PICK a \in automata : a.name = MachineOf(Def, item - 1) /\ a.index = fsa
      BY <3>1, Zenon DEF FsaAt
    <3>3. PICK b \in automata : b.name = MachineOf(Def, item) /\ b.index = fsa'
      BY <2>1, Zenon DEF Met
    <3>4. fsa \in Nat
      BY <3>2, Zenon DEF TablesInv, AutomataOK
    <3>5. fsa = fsa'
      BY <2>4, <3>4 DEF NoFsa
    <3> QED
      BY <3>2, <3>3, <3>5, Zenon DEF TablesInv, AutomataOK
  <2>6. OneMachine(Def, item - 1)
    BY <1>2, <2>1, Zenon DEF MachinesAt, Def
  <2>7. OneMachine(Def, item)
    <3>1. item \in Nat \ {0}
      BY <2>1, <2>2
    <3> HIDE DEF Def
    <3> QED
      BY <2>5, <2>6, <3>1 DEF OneMachine
  <2>8. (item + 1) - 1 = item
    BY <2>1, <2>2
  <2>9. MachinesAt(pos, item + 1)
    BY <1>2, <2>7, <2>8, Zenon DEF MachinesAt, Def
  <2> QED
    BY <1>2, <2>3, <2>9
<1>4. CASE Define
  <2>1. /\ pos \in DOMAIN program.defs /\ (Def.kind = "list" => item - 1 = Len(Def.items))
    BY <1>4, DefineEffect
  <2>2. pos' = pos + 1 /\ item' = 1
    BY <1>4, Zenon DEF Define
  <2>3. \A k \in DOMAIN program.defs : k \in Nat
    BY DefsDomain
  <2>4. OneMachine(Def, Len(Def.items))
    <3>1. CASE Def.kind = "list"
      BY <1>2, <2>1, <3>1, Zenon DEF MachinesAt, Def
    <3>2. CASE Def.kind # "list"
      <4>1. Len(Def.items) = 0
        BY <2>1, <3>2, DefFacts DEF Def
      <4> QED
        BY <4>1 DEF OneMachine
    <3> QED
      BY <3>1, <3>2
  <2>5. \A d : OneMachine(d, 1 - 1)
    BY DEF OneMachine
  <2>6. \A k \in DOMAIN program.defs : k < pos + 1 => k < pos \/ k = pos
    BY <2>1, <2>3
  <2>7. MachinesAt(pos + 1, 1)
    BY <1>2, <2>4, <2>5, <2>6, Zenon DEF MachinesAt, Def
  <2> QED
    BY <1>2, <2>2, <2>7
<1>5. CASE Idle
  BY <1>2, <1>5, Zenon DEF Idle
<1>6. CASE SecondPass
  BY <1>6, Zenon DEF SecondPass
<1> QED
  BY <1>3, <1>4, <1>5, <1>6, NextCases

(* What a definition that was read without error is                         *)
DefinitionOK(f, k) ==
  /\ KindOf(k) = "none" => DefsOf(f) \cap 1 .. k - 1 = {}
  /\ KindOf(k) = "fallback" => \E j \in DefsOf(f) : KindOf(j) = "list"
  /\ \A j \in Implements(f) \cap 1 .. k - 1, id \in Int :
       k \in Implements(f) => ~(IdOf(j, id) /\ IdOf(k, id))

(* A definition that is as it should be stays so.                           *)
LEMMA DefinitionStays ==
  ASSUME TablesInv, TypeOK, ItemInv, KnownInv, [Next]_vars, pass # "first",
         NEW f \in FuncNames, NEW k \in DefsOf(f), DefinitionOK(f, k)
  PROVE  DefinitionOK(f, k)'
<1>1. /\ DefsOf(f)' = DefsOf(f) /\ Implements(f)' = Implements(f) /\ program' = program
  BY AfterFacts
<1>2. \A j \in DefsOf(f) : \A id : IdOf(j, id)' <=> IdOf(j, id)
  <2>1. \A j \in DefsOf(f) : j \in 1 .. Seen
    BY ImplementsIn, DefsDomain DEF Seen
  <2> QED
    BY <2>1, AfterFacts, Zenon
<1>3. \A j : KindOf(j)' = KindOf(j)
  BY <1>1 DEF KindOf
<1>4. Implements(f) \subseteq DefsOf(f)
  BY ImplementsIn
<1> QED
  BY <1>1, <1>2, <1>3, <1>4 DEF DefinitionOK

(* The definitions that are read without error are as they should be.       *)
LEMMA DefinitionsStay ==
  ASSUME TablesInv, TypeOK, ItemInv, KnownInv, AttachedInv, MetInv, [Next]_vars, pass # "first",
         DefinitionsOK, Errors' = {}
  PROVE  DefinitionsOK'
<1>1. \A f \in FuncNames : DefsOf(f)' = DefsOf(f) /\ \A k \in DefsOf(f) : k \in DOMAIN program.defs /\ k \in Nat
  BY AfterFacts, ImplementsIn, DefsDomain
<1>2. \A f \in FuncNames : \A k \in DefsOf(f) : k < pos => DefinitionOK(f, k)
  BY Zenon DEF DefinitionsOK, DefinitionOK
<1>3. (\A f \in FuncNames : \A k \in DefsOf(f)' : k < pos' => DefinitionOK(f, k)') => DefinitionsOK'
  BY Zenon DEF DefinitionsOK, DefinitionOK
<1>4. CASE \A f \in FuncNames : \A k \in DefsOf(f) : k < pos' => k < pos
  BY <1>1, <1>2, <1>3, <1>4, DefinitionStays, Zenon
<1>5. CASE Define
  <2>1. PICK id \in Int :
           /\ IdOf(pos, id) /\ pos \in DOMAIN program.defs /\ Def.f \in FuncNames
           /\ IF Def.forward THEN says' = says \/ says' = says \cup {Plain(231, Def.f)}
              ELSE pos \in DefsOf(Def.f) /\ says' = says \cup AttachErrors(Def.f, id)
    BY <1>5, DefineSays, Zenon
  <2>2. pos' = pos + 1 /\ pos \in Nat
    <3>1. pos' = pos + 1 /\ pos \in DOMAIN program.defs
      BY <1>5, <2>1, Zenon DEF Define
    <3> QED
      BY <3>1, DefsDomain
  <2>3. \A f \in FuncNames : \A k \in DefsOf(f) : k < pos' => k < pos \/ k = pos
    BY <1>1, <2>2
  <2>4. ASSUME NEW f \in FuncNames, pos \in DefsOf(f) PROVE DefinitionOK(f, pos)
    <3>1. f = Def.f /\ ~Def.forward
      BY <2>4 DEF DefsOf, Def
    <3>2. AttachErrors(f, id) = {}
      <4>1. \A e \in AttachErrors(f, id) : FALSE
        <5> SUFFICES ASSUME NEW e \in AttachErrors(f, id) PROVE FALSE
          OBVIOUS
        <5>1. PICK n \in {21, 84, 85} : e = Plain(n, f)
          BY AttachPlain
        <5>2. e[1] = n
          BY <5>1, PlainNumber
        <5>3. e \in says'
          BY <2>1, <3>1
        <5>4. ~(e[1] < 200)
          BY <5>3, ErrorsStay
        <5> QED
          BY <5>1, <5>2, <5>4
      <4> QED
        BY <4>1
    <3>3. ~Twice(f, id) /\ ~Again(f, id) /\ ~Only(f, id)
      BY <3>2, ErrorsMean
    <3>4. KindOf(pos) = "none" => DefsOf(f) \cap 1 .. pos - 1 = {}
      <4>1. KindOf(pos) = "none" => \A k \in DefsOf(f) : ~(k < pos)
        BY <2>1, <2>4, <3>3, ReadAgain, Zenon
      <4> QED
        BY <2>2, <4>1
    <3>5. KindOf(pos) = "fallback" => \E j \in DefsOf(f) : KindOf(j) = "list"
      BY <2>1, <2>4, <3>3, ReadAgain, Zenon
    <3>6. ASSUME NEW j \in Implements(f) \cap 1 .. pos - 1, NEW x \in Int,
                 pos \in Implements(f), IdOf(j, x), IdOf(pos, x)
          PROVE  FALSE
      <4>1. x = id
        BY <2>1, <3>6, IdUnique, Zenon
      <4>2. j < pos
        BY <2>2
      <4>3. KindOf(pos) # "none"
        BY <3>6 DEF Implements, KindOf
      <4> QED
        BY <2>1, <2>4, <3>3, <3>6, <4>1, <4>2, <4>3, ReadAgain, Zenon
    <3> QED
      BY <3>4, <3>5, <3>6, Zenon DEF DefinitionOK
  <2> QED
    BY <1>1, <1>2, <1>3, <2>3, <2>4, DefinitionStays, Zenon
<1>6. CASE Item
  BY <1>4, <1>6, Zenon DEF Item
<1>7. CASE Idle
  BY <1>4, <1>7, Zenon DEF Idle
<1>8. CASE SecondPass
  BY <1>8, Zenon DEF SecondPass
<1> QED
  BY <1>5, <1>6, <1>7, <1>8, NextCases

(* A "state" statement that is known stays known.                           *)
LEMMA SameKnown == ASSUME UNCHANGED <<program, automata, states>> PROVE ChangesOK' <=> ChangesOK
BY Zenon DEF ChangesOK, Known

(* Every step keeps what has passed without error as it should be.          *)
LEMMA NextComplete ==
  ASSUME TablesInv, TypeOK, ItemInv, KnownInv, AttachedInv, MetInv, CompleteInv, [Next]_vars
  PROVE  CompleteInv'
<1>0. program' = program
  BY NextGrows
<1>1. CASE pass # "first"
  <2> SUFFICES ASSUME Errors' = {}
               PROVE  /\ MachinesOK' /\ DefinitionsOK' /\ State_conflict' = {}
                      /\ Compiled' => ChangesOK'
    BY DEF CompleteInv
  <2>1. Errors = {}
    BY <1>1, ErrorsStay
  <2>2. MachinesOK /\ DefinitionsOK /\ State_conflict = {} /\ (Compiled => ChangesOK)
    BY <1>1, <2>1, Zenon DEF CompleteInv
  <2>3. MachinesOK' /\ DefinitionsOK'
    BY <1>1, <2>2, MachinesStay, DefinitionsStay, Zenon
  <2>4. State_conflict' = {}
    BY <1>1, <2>2, LaterSame, SameLists
  <2>5. UNCHANGED <<program, automata, states>>
    BY <1>0, <1>1, NextGrows
  <2>6. CASE Finish
    <3>1. PICK S : /\ says' = says \cup S /\ \A e \in S : e[1] < 200
                   /\ S = {} <=> \A c \in program.changes : Known(c)
      BY <2>6, FinishSays, Zenon
    <3>2. S = {}
      BY <1>1, <3>1, ErrorsStay
    <3>3. ChangesOK
      BY <3>1, <3>2, Zenon DEF ChangesOK
    <3> QED
      BY <2>3, <2>4, <2>5, <3>3, SameKnown
  <2>7. CASE Compiled' => Compiled
    BY <2>2, <2>3, <2>4, <2>5, <2>7, SameKnown
  <2>8. CASE Item \/ Define
    <3>1. pass' = pass
      BY <2>8, Zenon DEF Item, Define
    <3> QED
      BY <2>7, <3>1 DEF Compiled
  <2>9. ASSUME NEW c \in program.changes, Enter(c) PROVE Compiled' => Compiled
    <3>1. UNCHANGED parser
      BY <2>9, Zenon DEF Enter
    <3> QED
      BY <3>1 DEF parser, Compiled
  <2>10. ASSUME NEW f \in program.calls, Call(f) PROVE Compiled' => Compiled
    <3>1. pass = "run"
      BY <2>10, Zenon DEF Call, Running
    <3> QED
      BY <3>1 DEF Compiled
  <2>11. CASE UNCHANGED vars
    <3>1. Compiled' => Compiled
      BY <2>11 DEF vars, parser, Compiled
    <3> QED
      BY <2>7, <3>1
  <2>12. CASE SecondPass
    BY <1>1, <2>12, Zenon DEF SecondPass
  <2> QED
    BY <2>6, <2>7, <2>8, <2>9, <2>10, <2>11, <2>12, Zenon DEF Next
<1>2. CASE pass = "first" /\ ~SecondPass
  <2>1. pass' = "first"
    <3>1. CASE Item \/ Define
      BY <1>2, <3>1, Zenon DEF Item, Define
    <3>2. CASE Idle
      BY <1>2, <3>2, Zenon DEF Idle
    <3> QED
      BY <1>2, <3>1, <3>2, NextCases
  <2> QED
    BY <2>1, Zenon DEF CompleteInv
<1>3. CASE SecondPass
  <2> SUFFICES ASSUME Errors' = {}
               PROVE  /\ MachinesOK' /\ DefinitionsOK' /\ State_conflict' = {}
                      /\ ~Compiled'
    BY Zenon DEF CompleteInv
  <2>1. pass' = "write" /\ pos' = 1 /\ item' = 1
    <3>1. pass' = "write" /\ pos' = 1 /\ item' = item /\ item = 1
      BY <1>3, SecondPassEffect
    <3> QED
      BY <3>1
  <2>2. ~Compiled'
    BY <2>1 DEF Compiled
  <2>3. MachinesOK'
    <3>1. \A k \in DOMAIN program.defs : ~(k < 1)
      BY DefsDomain
    <3>2. \A d : OneMachine(d, 1 - 1)
      BY DEF OneMachine
    <3>3. MachinesAt(1, 1)
      BY <3>1, <3>2, Zenon DEF MachinesAt
    <3> QED
      BY <1>0, <2>1, <3>3 DEF MachinesOK, MachinesAt
  <2>4. DefinitionsOK'
    <3>1. \A f : \A k \in DefsOf(f) : ~(k < 1)
      BY ImplementsIn, DefsDomain
    <3>2. \A f : DefsOf(f)' = DefsOf(f)
      BY AfterFacts
    <3> QED
      BY <2>1, <3>1, <3>2, Zenon DEF DefinitionsOK
  <2>5. State_conflict' = {}
    <3>1. State_conflict' = State_conflict
      BY <1>3, SecondSame, SameLists
    <3>2. PICK W : says' = State_conflict \cup W
      BY <1>3, SecondSays, Zenon
    <3>3. \A e \in State_conflict : e \in says' /\ e[1] < 200
      BY <3>2, ConflictNumbers
    <3>4. State_conflict = {}
      BY <3>3 DEF Errors
    <3> QED
      BY <3>1, <3>4
  <2> QED
    BY <2>2, <2>3, <2>4, <2>5
<1> QED
  BY <1>1, <1>2, <1>3

(* The program runs when all its definitions have been read.                *)
LEMMA NextCompiled ==
  ASSUME TablesInv, TypeOK, ItemInv, KnownInv, CompiledInv, [Next]_vars
  PROVE  CompiledInv'
<1>0. program' = program
  BY NextGrows
<1>1. CASE pos' = pos /\ (Compiled' => Compiled)
  BY <1>0, <1>1 DEF CompiledInv
<1>2. CASE Finish
  <2>1. pos > Len(program.defs) /\ pos' = pos
    BY <1>2, Zenon DEF Finish
  <2> QED
    BY <1>0, <2>1 DEF CompiledInv, TypeOK
<1>3. CASE Item
  <2>1. pos' = pos /\ pass' = pass
    BY <1>3, Zenon DEF Item
  <2> QED
    BY <1>1, <2>1 DEF Compiled
<1>4. CASE Define
  <2>1. pass \in {"first", "write"} /\ pass' = pass
    BY <1>4, Zenon DEF Define, Parsing
  <2> QED
    BY <2>1 DEF CompiledInv, Compiled
<1>5. CASE SecondPass
  <2>1. pass' = "write"
    BY <1>5, Zenon DEF SecondPass
  <2> QED
    BY <2>1 DEF CompiledInv, Compiled
<1>6. ASSUME NEW c \in program.changes, Enter(c) PROVE CompiledInv'
  <2>1. UNCHANGED parser
    BY <1>6, Zenon DEF Enter
  <2> QED
    BY <1>1, <2>1 DEF parser, Compiled
<1>7. ASSUME NEW f \in program.calls, Call(f) PROVE CompiledInv'
  <2>1. pass = "run" /\ pos' = pos
    BY <1>7, Zenon DEF Call, Running
  <2> QED
    BY <1>1, <2>1 DEF Compiled
<1>8. CASE UNCHANGED vars
  BY <1>1, <1>8 DEF vars, parser, Compiled
<1> QED
  BY <1>2, <1>3, <1>4, <1>5, <1>6, <1>7, <1>8, Zenon DEF Next

-----------------------------------------------------------------------------
(***************************************************************************)
(* The invariant                                                            *)
(***************************************************************************)
(* At first nothing has been read.                                          *)
LEMMA InitDefs == Init => DefsInv
<1> SUFFICES ASSUME Init PROVE DefsInv
  OBVIOUS
<1>0. program \in Programs /\ pass = "first" /\ pos = 1 /\ item = 1 /\ fsa = NoFsa /\ list = <<>>
      /\ states = {} /\ lists = {} /\ attached = [f \in FuncNames |-> <<>>] /\ defined = {} /\ says = {}
  BY Zenon DEF Init
<1>1. TypeOK
  <2>1. Len(program.defs) \in Nat
    BY <1>0, ProgramsAssumption
  <2>2. pos \in 1 .. Len(program.defs) + 1
    BY <1>0, <2>1
  <2>3. attached \in [FuncNames -> Seq(Entries)]
    BY <1>0
  <2>4. list \in Seq(Nat) /\ \A c \in lists : c.states \in Seq(Nat)
    BY <1>0
  <2> QED
    BY <1>0, <2>2, <2>3, <2>4 DEF TypeOK, Entries
<1>2. DOMAIN program.defs = 1 .. Len(program.defs) /\ Len(program.defs) \in Nat
  BY <1>1, DefsDomain
<1>3. ItemInv
  <2>1. CASE pos <= Len(program.defs)
    <3>1. pos \in DOMAIN program.defs
      BY <1>0, <1>2, <2>1
    <3>2. Len(Def.items) \in Nat
      BY <1>1, <3>1, DefFacts DEF Def
    <3>3. item \in 1 .. Len(Def.items) + 1 /\ item - 1 = 0
      BY <1>0, <3>2
    <3>4. FsaAt(automata, Def, 0, fsa) /\ Gather(automata, states, Def, 0, list)
      BY <1>0, GatherNone, Zenon DEF FsaAt
    <3> QED
      BY <2>1, <3>3, <3>4 DEF ItemInv
  <2>2. CASE ~(pos <= Len(program.defs))
    BY <1>0, <2>2 DEF ItemInv
  <2> QED
    BY <2>1, <2>2
<1>4. 1 .. Seen = {}
  BY <1>0 DEF Seen
<1>5. KnownInv /\ OriginInv
  BY <1>0, <1>4 DEF KnownInv, OriginInv
<1>6. \A f \in FuncNames : DOMAIN attached[f] = {}
  BY <1>0
<1>7. \A f : \A k \in DefsOf(f) : ~(k < 1) /\ ~(k <= Seen)
  BY <1>0, <1>2, ImplementsIn DEF Seen
<1>8. \A f : Implements(f) \subseteq DefsOf(f)
  BY ImplementsIn
<1>9. AttachedInv
  BY <1>6, <1>7, <1>8, Zenon DEF AttachedInv
<1>10. MetInv
  BY <1>0, <1>6, <1>7, Zenon DEF MetInv
<1>11. WarnedInv /\ SoundInv
  BY <1>0 DEF WarnedInv, SoundInv, Errors
<1>12. CompleteInv /\ CompiledInv
  BY <1>0 DEF CompleteInv, CompiledInv, Compiled
<1> QED
  BY <1>1, <1>3, <1>5, <1>9, <1>10, <1>11, <1>12 DEF DefsInv

(* Every step keeps the invariant.                                          *)
LEMMA NextDefs == ASSUME TablesInv, DefsInv, [Next]_vars PROVE DefsInv'
BY NextType, NextItem, NextKnown, NextOrigin, NextAttached, NextMet, NextWarned, NextSound,
   NextComplete, NextCompiled, Zenon DEF DefsInv

(* The tables, the definitions that have been read and what has been said   *)
(* of them agree in every state.                                            *)
LEMMA DefsInvariant == Spec => [](TablesInv /\ DefsInv)
<1>1. Init => TablesInv /\ DefsInv
  BY InitTables, InitDefs
<1>2. TablesInv /\ DefsInv /\ [Next]_vars => TablesInv' /\ DefsInv'
  BY NextTables, NextDefs, Zenon
<1> QED
  BY <1>1, <1>2, PTL DEF Spec

-----------------------------------------------------------------------------
(***************************************************************************)
(* Programs without errors are well-formed                                  *)
(***************************************************************************)
(* What is known of a program that is compiled                              *)
LEMMA PassedFacts ==
  ASSUME TablesInv, DefsInv, Compiled
  PROVE  /\ pass # "first" /\ \A k \in DOMAIN program.defs : k \in Nat /\ k < pos
         /\ \A f : \A k \in DefsOf(f) : k \in DOMAIN program.defs
         /\ \A f \in FuncNames : \A k \in Implements(f) : \E x \in DOMAIN attached[f] : IdOf(k, attached[f][x].id)
         /\ \A k \in DOMAIN program.defs : KindOf(k) \in {"none", "fallback", "list"}
         /\ \A k \in DOMAIN program.defs : \A i \in ItemsOf(k) : KindOf(k) = "list"
         /\ Errors = {} =>
              /\ \A k \in DOMAIN program.defs : OneMachine(program.defs[k], Len(program.defs[k].items))
              /\ \A f \in FuncNames : \A k \in DefsOf(f) : DefinitionOK(f, k)
              /\ State_conflict = {} /\ ChangesOK
<1>1. pass # "first"
  BY DEF Compiled
<1>2. TypeOK /\ AttachedInv /\ CompleteInv /\ pos = Len(program.defs) + 1
  BY DEF DefsInv, CompiledInv
<1>3. /\ \A k \in DOMAIN program.defs : k \in Nat /\ k < pos /\ k <= Len(program.defs)
      /\ Seen = Len(program.defs)
  BY <1>1, <1>2, DefsDomain DEF Seen
<1>4. \A f : \A k \in DefsOf(f) : k \in DOMAIN program.defs
  BY ImplementsIn
<1>5. \A f \in FuncNames : \A k \in Implements(f) : \E x \in DOMAIN attached[f] : IdOf(k, attached[f][x].id)
  <2>1. \A f : \A k \in Implements(f) : k <= Seen
    BY <1>3, ImplementsIn
  <2> QED
    BY <1>2, <2>1, Zenon DEF AttachedInv
<1>6. \A k \in DOMAIN program.defs : KindOf(k) \in {"none", "fallback", "list"}
  BY <1>2, DefFacts DEF KindOf
<1>7. \A k \in DOMAIN program.defs : \A i \in ItemsOf(k) : KindOf(k) = "list"
  <2> SUFFICES ASSUME NEW k \in DOMAIN program.defs, NEW i \in ItemsOf(k) PROVE KindOf(k) = "list"
    OBVIOUS
  <2>1. /\ Len(program.defs[k].items) \in Nat /\ DOMAIN program.defs[k].items = 1 .. Len(program.defs[k].items)
        /\ program.defs[k].kind = "list" <=> Len(program.defs[k].items) # 0
    BY <1>2, DefFacts
  <2>2. i \in 1 .. Len(program.defs[k].items)
    BY <2>1 DEF ItemsOf
  <2> QED
    BY <2>1, <2>2 DEF KindOf
<1>8. ASSUME Errors = {}
      PROVE  /\ \A k \in DOMAIN program.defs : OneMachine(program.defs[k], Len(program.defs[k].items))
             /\ \A f \in FuncNames : \A k \in DefsOf(f) : DefinitionOK(f, k)
             /\ State_conflict = {} /\ ChangesOK
  <2>1. MachinesOK /\ DefinitionsOK /\ State_conflict = {} /\ ChangesOK
    BY <1>1, <1>2, <1>8, Zenon DEF CompleteInv
  <2> QED
    BY <1>3, <1>4, <2>1, Zenon DEF MachinesOK, DefinitionsOK, DefinitionOK
<1> QED
  BY <1>1, <1>3, <1>4, <1>5, <1>6, <1>7, <1>8, Zenon

(* Two lists of a function, entry() excepted, are of one automaton, and no  *)
(* state is in both.                                                        *)
LEMMA TwoLists ==
  ASSUME TablesInv, DefsInv, Compiled, Errors = {},
         NEW f \in FuncNames, NEW j \in DefsOf(f), NEW k \in DefsOf(f), KindOf(j) = "list", KindOf(k) = "list"
  PROVE  /\ f # EntryFunc => PairOf(j, LastOf(j))[1] = PairOf(k, LastOf(k))[1]
         /\ j # k => \A i \in ItemsOf(j), n \in ItemsOf(k) : PairOf(j, i) # PairOf(k, n)
<1>0. TypeOK /\ j \in DOMAIN program.defs /\ k \in DOMAIN program.defs /\ j \in Nat /\ k \in Nat
  BY PassedFacts DEF DefsInv
<1>1. j \in Implements(f) /\ k \in Implements(f)
  BY DEF Implements, KindOf
<1>2. PICK x \in DOMAIN attached[f] : IdOf(j, attached[f][x].id)
  BY <1>1, PassedFacts
<1>3. PICK y \in DOMAIN attached[f] : IdOf(k, attached[f][y].id)
  BY <1>1, PassedFacts
<1> DEFINE a == attached[f][x].id
           b == attached[f][y].id
<1>4. IdOf(j, a) /\ IdOf(k, b)
  BY <1>2, <1>3
<1>5. a # Fallback /\ b # Fallback /\ a \in Int /\ b \in Int
  <2>1. KindOf(j) # "fallback" /\ KindOf(k) # "fallback"
    OBVIOUS
  <2> QED
    BY <1>4, <2>1, IdKind, Zenon DEF KindOf
<1>6. x # y => Conflict(f, a, b) = {}
  <2>1. State_conflict = {}
    BY PassedFacts
  <2> QED
    BY <1>0, <1>5, <2>1, ConflictMeans
<1>7. x = y => a = b
  OBVIOUS
<1> HIDE DEF a, b
<1>8. f # EntryFunc => State_getlist(a).fsa = State_getlist(b).fsa
  BY <1>6, <1>7 DEF Conflict
<1>9. f # EntryFunc => PairOf(j, LastOf(j))[1] = PairOf(k, LastOf(k))[1]
  BY <1>0, <1>4, <1>8, SameFsa
<1>10. ASSUME j # k, NEW i \in ItemsOf(j), NEW n \in ItemsOf(k), PairOf(j, i) = PairOf(k, n) PROVE FALSE
  <2>1. PICK v \in Range(State_getlist(a).states) : HasPair(j, i, v)
    BY <1>0, <1>4, ListElements
  <2>2. PICK w \in Range(State_getlist(b).states) : HasPair(k, n, w)
    BY <1>0, <1>4, ListElements
  <2>3. v = w
    <3>1. HasPair(j, i, w)
      BY <1>10, <2>2, Zenon DEF HasPair
    <3>2. AutomataOK(automata) /\ StatesOK(states)
      BY DEF TablesInv
    <3> QED
      BY <2>1, <3>1, <3>2, HasUnique, Zenon DEF HasPair
  <2>4. x = y
    <3> SUFFICES ASSUME x # y PROVE FALSE
      OBVIOUS
    <3>1. Range(State_getlist(a).states) \cap Range(State_getlist(b).states) = {}
      BY <1>6 DEF Conflict
    <3> QED
      BY <2>1, <2>2, <2>3, <3>1
  <2>5. IdOf(j, a) /\ IdOf(k, a)
    BY <1>4, <1>7, <2>4
  <2>6. DefinitionOK(f, j) /\ DefinitionOK(f, k)
    BY PassedFacts
  <2>7. CASE j < k
    <3>1. j \in 1 .. k - 1
      BY <1>0, <2>7, DefsDomain
    <3> QED
      BY <1>1, <1>5, <2>5, <2>6, <3>1, Zenon DEF DefinitionOK
  <2>8. CASE k < j
    <3>1. k \in 1 .. j - 1
      BY <1>0, <2>8, DefsDomain
    <3> QED
      BY <1>1, <1>5, <2>5, <2>6, <3>1, Zenon DEF DefinitionOK
  <2> QED
    BY <1>0, <1>10, <2>7, <2>8
<1> QED
  BY <1>9, <1>10, Zenon

(* Every list is of one automaton.                                          *)
LEMMA PassedOneEach == ASSUME TablesInv, DefsInv, Compiled, Errors = {} PROVE OneEach
<1> SUFFICES ASSUME NEW k \in DOMAIN program.defs, NEW i \in ItemsOf(k), NEW j \in ItemsOf(k)
             PROVE  PairOf(k, i)[1] = PairOf(k, j)[1]
  BY Zenon DEF OneEach
<1>1. OneMachine(program.defs[k], Len(program.defs[k].items))
  BY PassedFacts
<1>2. ItemsOf(k) = 1 .. Len(program.defs[k].items)
  BY DefFacts DEF ItemsOf, DefsInv
<1>3. MachineOf(program.defs[k], i) = MachineOf(program.defs[k], j)
  BY <1>1, <1>2, Zenon DEF OneMachine
<1> QED
  BY <1>3, PairParts

(* A fall-back is one, beside a list.                                       *)
LEMMA PassedFallback ==
  ASSUME TablesInv, DefsInv, Compiled, Errors = {}, NEW f \in FuncNames
  PROVE  FallbackOnce(f)
<1> SUFFICES ASSUME NEW k \in DefsOf(f), KindOf(k) = "fallback"
             PROVE  /\ \A j \in DefsOf(f) : KindOf(j) = "fallback" => j = k
                    /\ \E j \in DefsOf(f) : KindOf(j) = "list"
  BY Zenon DEF FallbackOnce
<1>1. \A j \in DefsOf(f) : DefinitionOK(f, j) /\ j \in DOMAIN program.defs /\ j \in Nat
  BY PassedFacts
<1>2. ASSUME NEW i \in DefsOf(f), NEW j \in DefsOf(f), KindOf(i) = "fallback", KindOf(j) = "fallback", i < j
      PROVE  FALSE
  <2>1. IdOf(i, Fallback) /\ IdOf(j, Fallback)
    BY <1>2 DEF IdOf, IsId, KindOf
  <2>2. i \in Implements(f) /\ j \in Implements(f)
    BY <1>2 DEF Implements, KindOf
  <2>3. i \in 1 .. j - 1 /\ Fallback \in Int
    BY <1>1, <1>2, DefsDomain DEF DefsInv, Fallback
  <2> QED
    BY <1>1, <2>1, <2>2, <2>3, Zenon DEF DefinitionOK
<1>3. \A j \in DefsOf(f) : KindOf(j) = "fallback" => j = k
  <2> SUFFICES ASSUME NEW j \in DefsOf(f), KindOf(j) = "fallback", j # k PROVE FALSE
    OBVIOUS
  <2>1. j < k \/ k < j
    BY <1>1
  <2> QED
    BY <1>2, <2>1
<1> QED
  BY <1>1, <1>3, Zenon DEF DefinitionOK

(* A definition without states is the only one of its function.             *)
LEMMA PassedNone ==
  ASSUME TablesInv, DefsInv, Compiled, Errors = {}, ~Mixed, NEW f \in FuncNames
  PROVE  NoneAlone(f)
<1> SUFFICES ASSUME NEW k \in DefsOf(f), KindOf(k) = "none", NEW j \in DefsOf(f), j # k PROVE FALSE
  BY Zenon DEF NoneAlone
<1>1. \A i \in DefsOf(f) : DefinitionOK(f, i) /\ i \in DOMAIN program.defs /\ i \in Nat
  BY PassedFacts
<1>2. j \in 1 .. k - 1 \/ (k \in 1 .. j - 1 /\ k < j)
  <2>1. j \in 1 .. Len(program.defs) /\ k \in 1 .. Len(program.defs) /\ Len(program.defs) \in Nat
    BY <1>1, DefsDomain DEF DefsInv
  <2> QED
    BY <2>1
<1>3. j \notin 1 .. k - 1
  BY <1>1 DEF DefinitionOK
<1>4. KindOf(j) # "none"
  BY <1>1, <1>2, <1>3 DEF DefinitionOK
<1> QED
  BY <1>2, <1>3, <1>4, Zenon DEF Mixed, KindOf

(* Every "state" statement names a state of a list.                         *)
LEMMA PassedReachable == ASSUME TablesInv, DefsInv, Compiled, Errors = {} PROVE Reachable
<1> SUFFICES ASSUME NEW c \in program.changes
             PROVE  \E k \in DOMAIN program.defs : \E i \in ItemsOf(k) : c = PairOf(k, i)
  BY Zenon DEF Reachable
<1>1. Known(c)
  BY PassedFacts, Zenon DEF ChangesOK
<1>2. PICK a \in automata : a.name = c[1] /\ \E s \in states : s.fsa = a.index /\ s.name = c[2]
  BY <1>1, Zenon DEF Known
<1>3. PICK s \in states : s.fsa = a.index /\ s.name = c[2]
  BY <1>2
<1>4. c = <<c[1], c[2]>> /\ c[2] # ""
  <2>1. c \in STRING \X StateNames
    BY ProgramsAssumption DEF DefsInv, TypeOK
  <2>2. c = <<c[1], c[2]>> /\ c[2] \in StateNames
    BY <2>1
  <2>3. "" \notin StateNames
    BY DEF StateNames
  <2> QED
    BY <2>2, <2>3
<1>5. PICK k \in DOMAIN program.defs : \E i \in DOMAIN program.defs[k].items :
        /\ s.name = program.defs[k].items[i].state
        /\ \E b \in automata : b.name = MachineOf(program.defs[k], i) /\ b.index = s.fsa
  BY <1>3, <1>4, Zenon DEF DefsInv, OriginInv
<1>6. PICK i \in DOMAIN program.defs[k].items :
        /\ s.name = program.defs[k].items[i].state
        /\ \E b \in automata : b.name = MachineOf(program.defs[k], i) /\ b.index = s.fsa
  BY <1>5
<1>7. MachineOf(program.defs[k], i) = c[1]
  BY <1>2, <1>3, <1>6, Zenon DEF TablesInv, AutomataOK
<1>8. PairOf(k, i) = <<c[1], c[2]>>
  BY <1>3, <1>6, <1>7, Zenon DEF PairOf
<1> QED
  BY <1>4, <1>8, Zenon DEF ItemsOf

(* The errors are those of the programs that are not well-formed.           *)
LEMMA ExactConflicts == ASSUME TablesInv, DefsInv PROVE ConflictsExact
<1> SUFFICES ASSUME Compiled, ~Mixed, ~Repeated, ~EntryMachines
             PROVE  Errors = {} <=> Promise!WellFormed(program)
  BY Zenon DEF ConflictsExact
<1>0. TypeOK /\ SoundInv
  BY DEF DefsInv
<1>1. ASSUME Promise!WellFormed(program) PROVE Errors = {}
  BY <1>0, <1>1, FineMeans, Zenon DEF SoundInv
<1>2. ASSUME Errors = {} PROVE Promise!WellFormed(program)
  <2>1. OneEach /\ Reachable
    BY <1>2, PassedOneEach, PassedReachable
  <2>2. ASSUME NEW f \in FuncNames PROVE SameMachine(f)
    <3> SUFFICES ASSUME f # EntryFunc, NEW j \in DefsOf(f), NEW k \in DefsOf(f),
                        NEW i \in ItemsOf(j), NEW n \in ItemsOf(k)
                 PROVE  PairOf(j, i)[1] = PairOf(k, n)[1]
      BY Zenon DEF SameMachine, OneMachineAll
    <3>1. j \in DOMAIN program.defs /\ k \in DOMAIN program.defs /\ KindOf(j) = "list" /\ KindOf(k) = "list"
      BY PassedFacts
    <3>2. PairOf(j, LastOf(j))[1] = PairOf(k, LastOf(k))[1]
      BY <1>2, <3>1, TwoLists
    <3>3. LastOf(j) \in ItemsOf(j) /\ LastOf(k) \in ItemsOf(k)
      BY <1>0, <3>1, DefFacts DEF LastOf, ItemsOf, KindOf
    <3> QED
      BY <2>1, <3>1, <3>2, <3>3, Zenon DEF OneEach
  <2>3. ASSUME NEW f \in FuncNames PROVE NoneTwice(f)
    <3> SUFFICES ASSUME NEW j \in DefsOf(f), NEW k \in DefsOf(f), NEW i \in ItemsOf(j), NEW n \in ItemsOf(k),
                        PairOf(j, i) = PairOf(k, n)
                 PROVE  j = k /\ i = n
      BY Zenon DEF NoneTwice
    <3>1. j \in DOMAIN program.defs /\ k \in DOMAIN program.defs /\ KindOf(j) = "list" /\ KindOf(k) = "list"
      BY PassedFacts
    <3>2. j = k
      BY <1>2, <3>1, TwoLists
    <3>3. /\ MachineOf(program.defs[j], i) = MachineOf(program.defs[k], n)
          /\ program.defs[j].items[i].state = program.defs[k].items[n].state
      BY PairParts
    <3> QED
      BY <3>1, <3>2, <3>3, Zenon DEF Repeated, ItemsOf
  <2> QED
    BY <1>0, <1>2, <2>1, <2>2, <2>3, PassedFallback, PassedNone, WellFormedMeans
<1> QED
  BY <1>1, <1>2

(* A program has errors exactly if it is not well-formed (ConflictsExact);   *)
(* state_conflict(), getstates(), attachstatelist() and dostate().          *)
THEOREM ConflictsAreExact == Spec => []ConflictsExact
BY DefsInvariant, ExactConflicts, PTL

-----------------------------------------------------------------------------
(***************************************************************************)
(* Warning 230 is for the states without an implementation: writeleader()   *)
(***************************************************************************)
(* The table of a function is of the automaton that all its lists are of.   *)
IsMachine(f, a) ==
  /\ a \in automata /\ a.index = State_getlist(FirstList(attached[f])).fsa
  /\ \A k \in DefsOf(f) : \A i \in ItemsOf(k) : PairOf(k, i)[1] = a.name

(* The list that tells the automaton of a function with a table             *)
LEMMA FirstOne ==
  ASSUME TablesInv, DefsInv, NEW f \in Stubbed
  PROVE  /\ f \in FuncNames /\ f # EntryFunc
         /\ \E k \in DefsOf(f) : IdOf(k, FirstList(attached[f])) /\ KindOf(k) = "list" /\ k \in DOMAIN program.defs
<1>0. f \in FuncNames /\ f # EntryFunc /\ attached[f] # <<>> /\ FirstList(attached[f]) # Fallback
  BY DEF Stubbed, Stateful
<1>1. attached[f] \in Seq(Entries)
  BY <1>0 DEF DefsInv, TypeOK, Entries
<1>2. \E x \in DOMAIN attached[f] : FirstList(attached[f]) = attached[f][x].id
  <2> DEFINE s == attached[f]
  <2>1. s \in Seq(Entries) /\ s # <<>>
    BY <1>0, <1>1
  <2> HIDE DEF s
  <2>2. 1 \in DOMAIN s /\ (Len(s) > 1 => 2 \in DOMAIN s)
    BY <2>1
  <2>3. \E x \in DOMAIN s : FirstList(s) = s[x].id
    BY <2>2 DEF FirstList
  <2> QED
    BY <2>3 DEF s
<1>3. PICK x \in DOMAIN attached[f] : FirstList(attached[f]) = attached[f][x].id
  BY <1>2
<1>4. TypeOK /\ AttachedInv
  BY DEF DefsInv
<1>5. PICK k \in DefsOf(f) : /\ k \in DOMAIN program.defs /\ IdOf(k, attached[f][x].id)
                             /\ KindOf(k) = IF attached[f][x].id = Fallback THEN "fallback" ELSE "list"
  BY <1>0, <1>4, AttachedIs
<1> QED
  BY <1>0, <1>3, <1>5

(* There is such an automaton.                                              *)
LEMMA TheMachine ==
  ASSUME TablesInv, DefsInv, Compiled, Errors = {}, NEW f \in Stubbed
  PROVE  \E a : IsMachine(f, a)
<1>0. f \in FuncNames /\ f # EntryFunc
  BY FirstOne
<1>1. PICK k \in DefsOf(f) : IdOf(k, FirstList(attached[f])) /\ KindOf(k) = "list" /\ k \in DOMAIN program.defs
  BY FirstOne
<1>2. TypeOK
  BY DEF DefsInv
<1>3. PICK a \in automata : a.name = PairOf(k, LastOf(k))[1] /\ a.index = State_getlist(FirstList(attached[f])).fsa
  BY <1>1, <1>2, ListElements
<1>4. ASSUME NEW j \in DefsOf(f), NEW i \in ItemsOf(j) PROVE PairOf(j, i)[1] = a.name
  <2>1. j \in DOMAIN program.defs /\ KindOf(j) = "list"
    BY PassedFacts
  <2>2. PairOf(j, LastOf(j))[1] = PairOf(k, LastOf(k))[1]
    BY <1>0, <1>1, <2>1, TwoLists
  <2>3. LastOf(j) \in ItemsOf(j)
    BY <1>2, <2>1, DefFacts DEF LastOf, ItemsOf, KindOf
  <2>4. PairOf(j, i)[1] = PairOf(j, LastOf(j))[1]
    BY <2>1, <2>3, PassedOneEach, Zenon DEF OneEach
  <2> QED
    BY <1>3, <2>2, <2>4
<1> QED
  BY <1>3, <1>4, Zenon DEF IsMachine

(* A label stands for an item of a list of the function.                    *)
LEMMA LabelMeans ==
  ASSUME TablesInv, DefsInv, Compiled, Errors = {}, NEW f \in Stubbed,
         NEW a, IsMachine(f, a), NEW s \in states, s.fsa = a.index
  PROVE  LabelsOf(f, s.value) # {} <=>
           \E k \in DefsOf(f) : \E i \in ItemsOf(k) : PairOf(k, i)[1] = a.name /\ PairOf(k, i)[2] = s.name
<1>0. f \in FuncNames /\ TypeOK /\ AttachedInv /\ AutomataOK(automata) /\ StatesOK(states)
  BY FirstOne DEF DefsInv, TablesInv
<1>1. ASSUME NEW k \in DefsOf(f), NEW i \in ItemsOf(k), NEW v, HasPair(k, i, v)
      PROVE  v = s.value <=> PairOf(k, i)[2] = s.name
  <2>1. PICK b \in automata : b.name = PairOf(k, i)[1] /\
               \E t \in states : t.fsa = b.index /\ t.name = PairOf(k, i)[2] /\ t.value = v
    BY <1>1, Zenon DEF HasPair, Has
  <2>2. PICK t \in states : t.fsa = b.index /\ t.name = PairOf(k, i)[2] /\ t.value = v
    BY <2>1
  <2>3. PairOf(k, i)[1] = a.name /\ a \in automata
    BY Zenon DEF IsMachine
  <2>4. b = a
    BY <1>0, <2>1, <2>3, Zenon DEF AutomataOK
  <2>5. t.fsa = s.fsa
    BY <2>2, <2>4
  <2> QED
    BY <1>0, <2>2, <2>5, Zenon DEF StatesOK
<1>2. ASSUME NEW x \in LabelsOf(f, s.value)
      PROVE  \E k \in DefsOf(f) : \E i \in ItemsOf(k) : PairOf(k, i)[1] = a.name /\ PairOf(k, i)[2] = s.name
  <2>1. x \in DOMAIN attached[f] /\ attached[f][x].id # Fallback
        /\ s.value \in Range(State_getlist(attached[f][x].id).states)
    BY DEF LabelsOf, State_inlist
  <2>2. PICK k \in DefsOf(f) : k \in DOMAIN program.defs /\ IdOf(k, attached[f][x].id) /\ KindOf(k) = "list"
    BY <1>0, <2>1, AttachedIs
  <2>3. PICK i \in ItemsOf(k) : HasPair(k, i, s.value)
    BY <1>0, <2>1, <2>2, ListElements
  <2>4. PairOf(k, i)[2] = s.name
    BY <1>1, <2>3
  <2> QED
    BY <2>4, Zenon DEF IsMachine
<1>3. ASSUME NEW k \in DefsOf(f), NEW i \in ItemsOf(k), PairOf(k, i)[2] = s.name
      PROVE  LabelsOf(f, s.value) # {}
  <2>1. k \in DOMAIN program.defs /\ KindOf(k) = "list"
    BY PassedFacts
  <2>2. k \in Implements(f)
    BY <2>1 DEF Implements, KindOf
  <2>3. PICK x \in DOMAIN attached[f] : IdOf(k, attached[f][x].id)
    BY <1>0, <2>2, PassedFacts
  <2>4. PICK v \in Range(State_getlist(attached[f][x].id).states) : HasPair(k, i, v)
    BY <1>0, <2>1, <2>3, ListElements
  <2>5. v = s.value
    BY <1>1, <1>3, <2>4
  <2>6. attached[f][x].id # Fallback
    <3>1. KindOf(k) # "fallback"
      BY <2>1
    <3> QED
      BY <2>3, <3>1, IdKind, Zenon DEF KindOf
  <2> QED
    BY <2>4, <2>5, <2>6 DEF LabelsOf, State_inlist
<1> QED
  BY <1>2, <1>3

(* What the language says                                                   *)
LEMMA ImplementationMeans ==
  ASSUME NEW f, NEW at
  PROVE  Promise!Implementation(program, f, at) = {} <=>
           /\ \A k \in DefsOf(f) : KindOf(k) = "list"
           /\ \A k \in DefsOf(f) : \A i \in ItemsOf(k) : at[PairOf(k, i)[1]] # PairOf(k, i)[2]
<1>1. Promise!Defs(program, f) = DefsOf(f)
  BY Zenon DEF Promise!Defs, DefsOf
<1>2. \A k : Promise!Pairs(program.defs[k]) = {PairOf(k, i) : i \in ItemsOf(k)}
  BY Zenon DEF Promise!Pairs, Promise!MachineOf, Promise!Anonymous, MachineOf, Anonymous, PairOf, ItemsOf
<1>3. Promise!Listed(program, f, at) = {} <=>
        \A k \in DefsOf(f) : \A i \in ItemsOf(k) : at[PairOf(k, i)[1]] # PairOf(k, i)[2]
  <2>1. \A k : (\E c \in Promise!Pairs(program.defs[k]) : at[c[1]] = c[2]) <=>
               \E i \in ItemsOf(k) : at[PairOf(k, i)[1]] = PairOf(k, i)[2]
    <3> SUFFICES ASSUME NEW k
                 PROVE  (\E c \in Promise!Pairs(program.defs[k]) : at[c[1]] = c[2]) <=>
                        \E i \in ItemsOf(k) : at[PairOf(k, i)[1]] = PairOf(k, i)[2]
      OBVIOUS
    <3>1. \A c : c \in Promise!Pairs(program.defs[k]) <=> \E i \in ItemsOf(k) : c = PairOf(k, i)
      BY <1>2, Zenon
    <3> QED
      BY <3>1, Zenon
  <2>2. Promise!Listed(program, f, at) =
          {k \in DefsOf(f) : \E c \in Promise!Pairs(program.defs[k]) : at[c[1]] = c[2]}
    BY <1>1, Zenon DEF Promise!Listed
  <2> QED
    BY <2>1, <2>2, Zenon
<1>4. Promise!Implementation(program, f, at) = {} <=>
        /\ Promise!Listed(program, f, at) = {}
        /\ \A k \in DefsOf(f) : program.defs[k].kind = "list"
  BY <1>1, Zenon DEF Promise!Implementation
<1> QED
  BY <1>3, <1>4, Zenon DEF KindOf

(* All the definitions of a function in a table are lists but the fall-back.*)
LEMMA FallbackMeans ==
  ASSUME TablesInv, DefsInv, Compiled, Errors = {}, ~Mixed, NEW f \in Stubbed
  PROVE  ~HasFallback(f) <=> \A k \in DefsOf(f) : KindOf(k) = "list"
<1>0. f \in FuncNames /\ TypeOK /\ AttachedInv
  BY FirstOne DEF DefsInv
<1>1. ASSUME HasFallback(f) PROVE \E k \in DefsOf(f) : KindOf(k) # "list"
  <2>1. PICK x \in DOMAIN attached[f] : attached[f][x].id = Fallback
    BY <1>1, Zenon DEF HasFallback
  <2>2. \E k \in DefsOf(f) : KindOf(k) = "fallback"
    BY <1>0, <2>1, AttachedIs
  <2> QED
    BY <2>2
<1>2. ASSUME NEW k \in DefsOf(f), KindOf(k) # "list" PROVE HasFallback(f)
  <2>1. PICK j \in DefsOf(f) : KindOf(j) = "list"
    BY FirstOne
  <2>2. KindOf(k) # "none"
    BY <1>0, <1>2, <2>1, PassedNone, Zenon DEF NoneAlone
  <2>3. KindOf(k) = "fallback" /\ k \in Implements(f)
    BY <1>2, <2>2, PassedFacts DEF Implements, KindOf
  <2>4. PICK x \in DOMAIN attached[f] : IdOf(k, attached[f][x].id)
    BY <1>0, <2>3, PassedFacts
  <2>5. attached[f][x].id = Fallback
    BY <2>3, <2>4, IdKind, Zenon DEF KindOf
  <2> QED
    BY <2>5, Zenon DEF HasFallback
<1> QED
  BY <1>1, <1>2, Zenon

(* The warnings are those of the states without an implementation.          *)
LEMMA ExactWarnings == ASSUME TablesInv, DefsInv PROVE WarnedExact
<1> SUFFICES ASSUME Compiled, Errors = {}, ~Mixed, NEW f \in DOMAIN table,
                    NEW s \in states, s.fsa = table[f].fsa
             PROVE  LET m == (CHOOSE a \in automata : a.index = s.fsa).name
                        in == [n \in {a.name : a \in automata} |-> IF n = m THEN s.name ELSE NoState]
                    IN <<230, f, s.name>> \in says <=> Promise!Implementation(program, f, in) = {}
  BY Zenon DEF WarnedExact
<1> DEFINE m == (CHOOSE a \in automata : a.index = s.fsa).name
           in == [n \in {a.name : a \in automata} |-> IF n = m THEN s.name ELSE NoState]
<1>0. pass # "first"
  BY DEF Compiled
<1>1. /\ f \in Stubbed /\ TableOf(f)
      /\ \A g \in FuncNames : \A n : <<230, g, n>> \in says <=> WarnedBy(g, n)
  BY <1>0, Zenon DEF DefsInv, WarnedInv
<1>2. PICK a : IsMachine(f, a)
  BY <1>1, TheMachine
<1>3. a \in automata /\ a.index = s.fsa /\ a.index = State_getlist(FirstList(attached[f])).fsa
  BY <1>1, <1>2, Zenon DEF IsMachine, TableOf
<1>4. (CHOOSE b \in automata : b.index = s.fsa) = a
  BY <1>3, Zenon DEF TablesInv, AutomataOK
<1>5. m = a.name
  BY <1>4
<1>6. <<230, f, s.name>> \in says <=> ~HasFallback(f) /\ LabelsOf(f, s.value) = {}
  <2>1. f \in FuncNames
    BY <1>1, FirstOne
  <2>2. <<230, f, s.name>> \in says <=> WarnedBy(f, s.name)
    BY <1>1, <2>1
  <2>3. \A t \in StatesOf(f) : t.name = s.name <=> t = s
    BY <1>3, Zenon DEF StatesOf, TablesInv, StatesOK
  <2>4. s \in StatesOf(f)
    BY <1>3, Zenon DEF StatesOf
  <2> QED
    BY <1>1, <2>2, <2>3, <2>4, Zenon DEF WarnedBy
<1>7. \A k \in DefsOf(f) : \A i \in ItemsOf(k) : in[PairOf(k, i)[1]] = PairOf(k, i)[2] <=> PairOf(k, i)[2] = s.name
  <2> SUFFICES ASSUME NEW k \in DefsOf(f), NEW i \in ItemsOf(k)
               PROVE  in[PairOf(k, i)[1]] = PairOf(k, i)[2] <=> PairOf(k, i)[2] = s.name
    OBVIOUS
  <2>1. PairOf(k, i)[1] = m
    BY <1>2, <1>5, Zenon DEF IsMachine
  <2>2. m \in {b.name : b \in automata}
    BY <1>3, <1>5
  <2>3. in[m] = s.name
    BY <2>2
  <2> QED
    BY <2>1, <2>3
<1>8. LabelsOf(f, s.value) = {} <=>
        \A k \in DefsOf(f) : \A i \in ItemsOf(k) : in[PairOf(k, i)[1]] # PairOf(k, i)[2]
  <2> HIDE DEF in
  <2>1. \A k \in DefsOf(f) : \A i \in ItemsOf(k) : PairOf(k, i)[1] = a.name
    BY <1>2, Zenon DEF IsMachine
  <2> QED
    BY <1>1, <1>2, <1>3, <1>7, <2>1, LabelMeans
<1>9. <<230, f, s.name>> \in says <=> Promise!Implementation(program, f, in) = {}
  <2> HIDE DEF in
  <2>1. ~HasFallback(f) <=> \A k \in DefsOf(f) : KindOf(k) = "list"
    BY <1>1, FallbackMeans
  <2> QED
    BY <1>6, <1>8, <2>1, ImplementationMeans, Zenon
<1> QED
  BY <1>9

(* Warning 230 is for exactly the states in which a call stops the program  *)
(* (WarnedExact); writeleader().                                            *)
THEOREM WarningsAreExact == Spec => []WarnedExact
BY DefsInvariant, ExactWarnings, PTL

-----------------------------------------------------------------------------
(***************************************************************************)
(* What has been written: WrittenInv                                        *)
(***************************************************************************)
(* A table gets one entry at a time.                                        *)
LEMMA TableFinite ==
  ASSUME NEW at, NEW name, NEW ss, NEW f, IsFiniteSet(at), IsFiniteSet(ss)
  PROVE  IsFiniteSet(Automaton_add(at, name)) /\ IsFiniteSet(State_add(ss, name, f))
<1>1. IsFiniteSet(Automaton_add(at, name))
  BY FS_AddElement DEF Automaton_add
<1>2. IsFiniteSet(State_add(ss, name, f))
  BY FS_AddElement DEF State_add
<1> QED
  BY <1>1, <1>2

(* Every table stays finite, and keeps the automaton without a name.        *)
LEMMA NextFinite ==
  ASSUME TablesInv, TypeOK, ItemInv, KnownInv, FiniteInv, [Next]_vars
  PROVE  FiniteInv'
<1>1. \E a \in automata' : a.name = Anonymous
  BY NextGrows DEF FiniteInv
<1>2. CASE UNCHANGED <<automata, states>>
  BY <1>1, <1>2 DEF FiniteInv
<1>3. CASE Item
  <2> DEFINE i == Def.items[item]
             named == fsa = NoFsa \/ i.machine # Anonymous
             at == IF named THEN Automaton_add(automata, i.machine) ELSE automata
             f == IF named THEN Automaton_find(at, i.machine).index ELSE fsa
             ss == IF at = automata THEN states ELSE State_add(states, "", f)
  <2>1. automata' = at /\ states' = State_add(ss, i.state, f)
    BY <1>3, Zenon DEF Item
  <2>2. IsFiniteSet(at)
    BY TableFinite DEF FiniteInv
  <2> HIDE DEF at, f, i
  <2>3. IsFiniteSet(ss)
    BY TableFinite DEF FiniteInv
  <2> HIDE DEF ss
  <2>4. IsFiniteSet(State_add(ss, i.state, f))
    BY <2>2, <2>3, TableFinite
  <2> QED
    BY <1>1, <2>1, <2>2, <2>4 DEF FiniteInv
<1>4. CASE Define
  BY <1>2, <1>4, DefineEffect
<1>5. CASE SecondPass
  BY <1>2, <1>5, SecondPassEffect DEF FiniteInv, TypeOK
<1>6. CASE Idle
  BY <1>2, <1>6 DEF Idle
<1> QED
  BY <1>3, <1>4, <1>5, <1>6, NextCases

(* What has been written of a function                                      *)
ReadWith(f, id) == {k \in DefsOf(f) : pass # "first" /\ Used(f) /\ k < pos /\ IdOf(k, id)}

(* A body is written with the label of its definition's id.                 *)
LEMMA NextBodies ==
  ASSUME TablesInv, TypeOK, ItemInv, KnownInv, BodiesInv, [Next]_vars
  PROVE  BodiesInv'
<1>0. /\ program' = program /\ \A f : DefsOf(f)' = DefsOf(f) /\ DefsOf(f) \subseteq DOMAIN program.defs
      /\ \A k, id : IdOf(k, id)' <=> IdAfter(k, id)
      /\ \A k \in 1 .. Seen : \A id : IdAfter(k, id) <=> IdOf(k, id)
      /\ \A k \in DOMAIN program.defs : \A i, j : IdAfter(k, i) /\ IdAfter(k, j) => i = j
  BY AfterFacts, ImplementsIn, Zenon
<1>1. DOMAIN program.defs = 1 .. Len(program.defs) /\ Len(program.defs) \in Nat
      /\ pos \in 1 .. Len(program.defs) + 1 /\ pass \in {"first", "write", "run", "halted"}
  BY DefsDomain DEF TypeOK
<1>2. \A k \in DOMAIN program.defs : k < pos => k \in 1 .. Seen
  BY <1>1, NextSeen
<1>3. \A f : Used(f)' <=> Used(f)
  BY <1>0, Zenon DEF Used
<1> SUFFICES ASSUME NEW f \in FuncNames, NEW id \in Int
             PROVE  Placed(f, id)' = ReadWith(f, id)'
  BY Zenon DEF BodiesInv, ReadWith
<1>4. Placed(f, id) = ReadWith(f, id)
  BY Zenon DEF BodiesInv, ReadWith
<1>5. ReadWith(f, id)' = {k \in DefsOf(f) : pass' # "first" /\ Used(f) /\ k < pos' /\ IdAfter(k, id)}
  BY <1>0, <1>3, Zenon DEF ReadWith
<1>6. ReadWith(f, id) = {k \in DefsOf(f) : pass # "first" /\ Used(f) /\ k < pos /\ IdAfter(k, id)}
  BY <1>0, <1>2 DEF ReadWith
<1>7. CASE bodies' = bodies /\ pos' = pos /\ (pass' = "first" <=> pass = "first")
  <2>1. Placed(f, id)' = Placed(f, id)
    BY <1>7, Zenon DEF Placed
  <2> QED
    BY <1>4, <1>5, <1>6, <1>7, <2>1
<1>8. CASE Item
  BY <1>7, <1>8, Zenon DEF Item
<1>9. CASE Define
  <2>1. PICK i \in Int :
           /\ IdAfter(pos, i) /\ Places(Def.f, i) /\ pos \in DOMAIN program.defs /\ pos' = pos + 1
           /\ pass \in {"first", "write"}
           /\ \A g \in FuncNames : pos \in DefsOf(g) <=> g = Def.f /\ ~Def.forward
    BY <1>9, DefineCases, Zenon
  <2>2. pass' = pass
    BY <1>9, Zenon DEF Define
  <2> DEFINE new == pass = "write" /\ ~Def.forward /\ Used(Def.f)
  <2>3. bodies' = IF new THEN bodies \cup {[f |-> Def.f, id |-> i, def |-> pos]} ELSE bodies
    BY <2>1, Zenon DEF Places
  <2>4. Placed(f, id)' = IF new /\ Def.f = f /\ i = id THEN Placed(f, id) \cup {pos} ELSE Placed(f, id)
    <3> DEFINE e == [f |-> Def.f, id |-> i, def |-> pos]
               Of(bs) == {b.def : b \in {x \in bs : x.f = f /\ x.id = id}}
    <3>1. e.f = Def.f /\ e.id = i /\ e.def = pos
      OBVIOUS
    <3>2. Placed(f, id) = Of(bodies) /\ Placed(f, id)' = Of(bodies')
      BY Zenon DEF Placed
    <3>3. bodies' = IF new THEN bodies \cup {e} ELSE bodies
      BY <2>3
    <3> HIDE DEF e, new
    <3>4. Of(bodies \cup {e}) = IF e.f = f /\ e.id = id THEN Of(bodies) \cup {e.def} ELSE Of(bodies)
      OBVIOUS
    <3> HIDE DEF Of
    <3> QED
      BY <3>1, <3>2, <3>3, <3>4
  <2>5. ReadWith(f, id)' = IF new /\ Def.f = f /\ i = id THEN ReadWith(f, id) \cup {pos} ELSE ReadWith(f, id)
    <3>1. \A k \in DefsOf(f) : k < pos' <=> k < pos \/ k = pos
      BY <1>0, <1>1, <2>1
    <3>2. IdAfter(pos, id) <=> i = id
      BY <1>0, <2>1, Zenon
    <3>3. pos \in DefsOf(f) <=> f = Def.f /\ ~Def.forward
      BY <2>1
    <3>4. pass # "first" <=> pass = "write"
      BY <2>1
    <3>5. ~(pos < pos)
      BY <1>1
    <3> QED
      BY <1>5, <1>6, <2>2, <3>1, <3>2, <3>3, <3>4, <3>5
  <2> QED
    BY <1>4, <2>4, <2>5
<1>10. CASE SecondPass
  <2>1. pass = "first" /\ pos' = 1
    BY <1>10, SecondPassEffect
  <2>2. Placed(f, id) = {}
    BY <1>4, <2>1 DEF ReadWith
  <2>3. Placed(f, id)' = Placed(f, id)
    BY <1>10, Zenon DEF SecondPass, Placed
  <2>4. \A k \in DefsOf(f) : ~(k < 1)
    BY <1>0, <1>1
  <2>5. ReadWith(f, id)' = {}
    BY <1>5, <2>1, <2>4
  <2> QED
    BY <2>2, <2>3, <2>5
<1>11. CASE Finish
  <2>1. bodies' = bodies /\ pos' = pos /\ pass = "write" /\ pass' = "run"
    BY <1>11, Zenon DEF Finish
  <2> QED
    BY <1>7, <2>1
<1>12. ASSUME NEW c \in program.changes, Enter(c) PROVE Placed(f, id)' = ReadWith(f, id)'
  <2>1. UNCHANGED parser /\ UNCHANGED output
    BY <1>12, Zenon DEF Enter
  <2> QED
    BY <1>7, <2>1 DEF parser, output
<1>13. ASSUME NEW g \in program.calls, Call(g) PROVE Placed(f, id)' = ReadWith(f, id)'
  <2>1. UNCHANGED <<pos, output>> /\ pass = "run" /\ \E t : pass' = IF t \in {Nostate, Beyond} THEN "halted" ELSE "run"
    BY <1>13, Zenon DEF Call, Running
  <2> QED
    BY <1>7, <2>1 DEF output
<1>14. CASE UNCHANGED vars
  BY <1>7, <1>14 DEF vars, parser, output
<1> QED
  BY <1>8, <1>9, <1>10, <1>11, <1>12, <1>13, <1>14, Zenon DEF Next

(* The first label of a state is one of its labels.                         *)
LEMMA LabelIs ==
  ASSUME TypeOK, NEW f \in FuncNames, NEW v, LabelsOf(f, v) # {}
  PROVE  \E k \in LabelsOf(f, v) : k \in DOMAIN attached[f] /\ LabelOf(f, v) = attached[f][k].id
                                  /\ k = CHOOSE x \in LabelsOf(f, v) : \A y \in LabelsOf(f, v) : x <= y
<1>1. DOMAIN attached[f] \in SUBSET Nat /\ LabelsOf(f, v) \in SUBSET (DOMAIN attached[f])
  <2>1. attached[f] \in Seq(Entries)
    BY DEF TypeOK, Entries
  <2> QED
    BY <2>1 DEF LabelsOf
<1>2. \E x \in LabelsOf(f, v) : \A y \in LabelsOf(f, v) : x <= y
  BY <1>1, LeastElement
<1> DEFINE k == CHOOSE x \in LabelsOf(f, v) : \A y \in LabelsOf(f, v) : x <= y
<1>3. k \in LabelsOf(f, v)
  BY <1>2, Zenon
<1>4. LabelOf(f, v) = attached[f][k].id
  BY Zenon DEF LabelOf
<1> QED
  BY <1>1, <1>3, <1>4

(* The stubs and the selectors do not change with what has been placed.     *)
LEMMA SameStubs ==
  ASSUME TypeOK, SameIds
  PROVE  /\ \A f \in Stubbed : Stub(f)' = Stub(f)
         /\ Addresses' = Addresses /\ Selectors' = Selectors
<1>0. automata' = automata /\ Stateful' = Stateful
  BY SameLists DEF SameIds
<1>1. Addresses' = Addresses /\ Selectors' = Selectors
  BY <1>0, Zenon DEF Addresses, Selectors, Ordinal
<1>2. ASSUME NEW f \in Stubbed PROVE Stub(f)' = Stub(f)
  <2>0. /\ f \in FuncNames /\ FirstList(attached'[f]) = FirstList(attached[f]) /\ StatesOf(f)' = StatesOf(f)
        /\ \A v : LabelsOf(f, v)' = LabelsOf(f, v)
        /\ HasFallback(f)' <=> HasFallback(f)
        /\ \A id : State_getlist(id)' = State_getlist(id)
    BY SameLists
  <2>1. DOMAIN attached'[f] = DOMAIN attached[f] /\ \A x \in DOMAIN attached[f] : attached'[f][x].id = attached[f][x].id
    BY <2>0 DEF SameIds
  <2>2. ASSUME NEW v, LabelsOf(f, v) # {} PROVE LabelOf(f, v)' = LabelOf(f, v)
    <3> DEFINE k == CHOOSE x \in LabelsOf(f, v) : \A y \in LabelsOf(f, v) : x <= y
    <3>1. k \in DOMAIN attached[f] /\ LabelOf(f, v) = attached[f][k].id
      BY <2>0, <2>2, LabelIs
    <3> DEFINE First(S) == CHOOSE x \in S : \A y \in S : x <= y
    <3>2. LabelOf(f, v)' = attached'[f][First(LabelsOf(f, v)')].id
      BY Zenon DEF LabelOf
    <3>3. k = First(LabelsOf(f, v))
      OBVIOUS
    <3> HIDE DEF First, k
    <3> QED
      BY <2>0, <2>1, <3>1, <3>2, <3>3
  <2>3. Items(attached[f])' = Items(attached[f])
    <3> DEFINE In(s, ls) == UNION {{k} \X DOMAIN (CHOOSE c \in ls : c.id = s[k].id).states : k \in {j \in DOMAIN s : s[j].id # Fallback}}
    <3>1. Items(attached[f]) = In(attached[f], lists) /\ Items(attached[f])' = In(attached'[f], lists')
      BY Zenon DEF Items, State_getlist
    <3>2. lists' = lists
      BY DEF SameIds
    <3>3. In(attached'[f], lists) = In(attached[f], lists)
      BY <2>1
    <3> HIDE DEF In
    <3> QED
      BY <3>1, <3>2, <3>3
  <2> DEFINE cases == {[value |-> s.value, id |-> LabelOf(f, s.value)]
                       : s \in {t \in StatesOf(f) : LabelsOf(f, t.value) # {}}}
  <2>4. cases' = cases
    BY <2>0, <2>2
  <2> DEFINE stub(c, d, n, cs) == [fsa |-> c.fsa, default |-> d, count |-> Cardinality(n), cases |-> cs]
  <2>5. Stub(f) = stub(State_getlist(FirstList(attached[f])), IF HasFallback(f) THEN Fallback ELSE Nostate, Items(attached[f]), cases)
    BY DEF Stub
  <2>6. Stub(f)' = stub(State_getlist(FirstList(attached[f]))', IF HasFallback(f)' THEN Fallback ELSE Nostate, Items(attached[f])', cases')
    BY DEF Stub
  <2>7. State_getlist(FirstList(attached[f]))' = State_getlist(FirstList(attached[f]))
    BY <2>0, Zenon DEF State_getlist
  <2>8. (IF HasFallback(f)' THEN Fallback ELSE Nostate) = IF HasFallback(f) THEN Fallback ELSE Nostate
    BY <2>0
  <2> HIDE DEF stub, cases
  <2> QED
    BY <2>8, <2>3, <2>4, <2>5, <2>6, <2>7
<1> QED
  BY <1>1, <1>2

(* What writeleader() writes stays right, for the tables do not change.     *)
LEMMA NextStubs ==
  ASSUME TablesInv, TypeOK, ItemInv, KnownInv, AttachedInv, StubsInv, [Next]_vars
  PROVE  StubsInv'
<1>1. CASE SecondPass
  <2>1. SameIds
    BY <1>1, SecondSame
  <2>2. table' = [f \in Stubbed |-> Stub(f)] /\ address' = Addresses
    BY <1>1, Zenon DEF SecondPass
  <2>3. Stubbed' = Stubbed
    BY <2>1, SameLists
  <2>4. table' = [f \in Stubbed' |-> Stub(f)']
    BY <2>1, <2>2, <2>3, SameStubs
  <2> QED
    BY <2>1, <2>2, <2>4, SameStubs, Zenon DEF StubsInv
<1>2. CASE pass # "first"
  <2>1. SameIds /\ Stubbed' = Stubbed
    BY <1>2, LaterSame, SameLists
  <2>2. table' = table /\ address' = address
    <3>1. ASSUME NEW c \in program.changes, Enter(c) PROVE UNCHANGED output
      BY <3>1, Zenon DEF Enter
    <3>2. ASSUME NEW g \in program.calls, Call(g) PROVE UNCHANGED output
      BY <3>2, Zenon DEF Call
    <3>3. CASE UNCHANGED output
      BY <3>3 DEF output
    <3>4. CASE Item \/ Define \/ Finish
      BY <3>4, Zenon DEF Item, Define, Finish
    <3>5. CASE UNCHANGED vars
      BY <3>5 DEF vars, output
    <3>6. CASE SecondPass
      BY <1>2, <3>6, Zenon DEF SecondPass
    <3> QED
      BY <3>1, <3>2, <3>3, <3>4, <3>5, <3>6, Zenon DEF Next
  <2>3. table = [f \in Stubbed |-> Stub(f)] /\ address = Addresses
    BY <1>2, Zenon DEF StubsInv
  <2>4. table' = [f \in Stubbed' |-> Stub(f)']
    BY <2>1, <2>2, <2>3, SameStubs
  <2> QED
    BY <2>1, <2>2, <2>3, <2>4, SameStubs, Zenon DEF StubsInv
<1>3. CASE pass = "first" /\ ~SecondPass
  <2>1. pass' = "first"
    <3>1. CASE Item \/ Define
      BY <1>3, <3>1, Zenon DEF Item, Define
    <3>2. CASE Idle
      BY <1>3, <3>2 DEF Idle
    <3> QED
      BY <1>3, <3>1, <3>2, NextCases
  <2> QED
    BY <2>1 DEF StubsInv
<1> QED
  BY <1>1, <1>2, <1>3

(* The selectors have cells of their own, before the cell of the variable.  *)
LEMMA OrdinalsApart ==
  ASSUME AutomataOK(automata), IsFiniteSet(automata), NEW a \in automata
  PROVE  /\ Cardinality(automata) \in Nat /\ Ordinal(a) \in 0 .. Cardinality(automata) - 1
         /\ \A b \in automata : b # a => Ordinal(b) # Ordinal(a)
<1> DEFINE Below(x) == {b \in automata : b.index < x.index}
<1>0. \A x \in automata : x.index \in Nat
  BY DEF AutomataOK
<1>1. \A x \in automata : Ordinal(x) = Cardinality(Below(x))
  BY Zenon DEF Ordinal
<1>2. ASSUME NEW x \in automata, NEW S \in SUBSET automata, Below(x) \cup {x} \subseteq S
      PROVE  Ordinal(x) \in Nat /\ Cardinality(S) \in Nat /\ Ordinal(x) < Cardinality(S)
  <2>1. x \notin Below(x)
    BY <1>0
  <2> HIDE DEF Below
  <2>2. IsFiniteSet(S) /\ Below(x) \in SUBSET S /\ Below(x) \cup {x} \in SUBSET S
    BY <1>2, FS_Subset
  <2>3. IsFiniteSet(Below(x))
    BY <2>2, FS_Subset
  <2>4. Cardinality(Below(x) \cup {x}) = Cardinality(Below(x)) + 1
    BY <2>1, <2>3, FS_AddElement
  <2>5. Cardinality(Below(x) \cup {x}) <= Cardinality(S)
    BY <2>2, FS_Subset
  <2>6. Cardinality(Below(x)) \in Nat /\ Cardinality(S) \in Nat
    BY <2>2, <2>3, FS_CardinalityType
  <2> QED
    BY <1>1, <2>4, <2>5, <2>6
<1>3. Ordinal(a) \in Nat /\ Cardinality(automata) \in Nat /\ Ordinal(a) < Cardinality(automata)
  BY <1>2
<1>4. ASSUME NEW x \in automata, NEW y \in automata, x.index < y.index PROVE Ordinal(x) < Ordinal(y) /\ Ordinal(x) \in Nat /\ Ordinal(y) \in Nat
  <2>1. Below(x) \cup {x} \subseteq Below(y) /\ Below(y) \in SUBSET automata
    BY <1>0, <1>4
  <2> HIDE DEF Below
  <2> QED
    BY <1>1, <1>2, <2>1
<1>5. ASSUME NEW b \in automata, b # a PROVE Ordinal(b) # Ordinal(a)
  <2>1. b.index # a.index
    BY <1>5, Zenon DEF AutomataOK
  <2>2. b.index < a.index \/ a.index < b.index
    BY <1>0, <2>1
  <2> QED
    BY <1>4, <2>2
<1> QED
  BY <1>3, <1>5

(* The cells of the selectors, in a program that has any                    *)
LEMMA CellOf ==
  ASSUME TablesInv, FiniteInv, StubsInv, pass # "first", Stateful # {}, NEW a \in automata
  PROVE  /\ Selectors \in Nat /\ address[a.index] \in 0 .. Selectors - 1
         /\ \A b \in automata : b # a => address[b.index] # address[a.index]
<1>1. \A x \in automata : address[x.index] = Ordinal(x)
  <2> SUFFICES ASSUME NEW x \in automata PROVE address[x.index] = Ordinal(x)
    OBVIOUS
  <2>1. (CHOOSE y \in automata : y.index = x.index) = x
    BY Zenon DEF TablesInv, AutomataOK
  <2>2. address = Addresses /\ x.index \in {y.index : y \in automata}
    BY DEF StubsInv
  <2> QED
    BY <2>1, <2>2, Zenon DEF Addresses
<1>2. Selectors = Cardinality(automata)
  BY DEF Selectors
<1> QED
  BY <1>1, <1>2, OrdinalsApart DEF TablesInv, FiniteInv

(* The number of selectors is where the variable has its cell.              *)
LEMMA SelectorsNat == ASSUME FiniteInv PROVE Selectors \in Nat
BY FS_CardinalityType DEF FiniteInv, Selectors

(* A program with "state" statements that is not Unselected has selectors.  *)
LEMMA HasSelectors ==
  ASSUME TablesInv, DefsInv, Compiled, ~Unselected, program.changes # {}
  PROVE  Stateful # {}
<1>1. PICK k \in DOMAIN program.defs :
        Used(program.defs[k].f) /\ ~program.defs[k].forward /\ program.defs[k].kind # "none"
  BY Zenon DEF Unselected
<1> DEFINE f == program.defs[k].f
<1>2. f \in FuncNames
  BY DefFacts DEF DefsInv
<1>3. k \in Implements(f)
  BY <1>1 DEF Implements, DefsOf
<1>4. \E x \in DOMAIN attached[f] : IdOf(k, attached[f][x].id)
  BY <1>2, <1>3, PassedFacts
<1>5. attached[f] # <<>>
  BY <1>4
<1> QED
  BY <1>1, <1>2, <1>5 DEF Stateful

(* What "state" is compiled to                                              *)
IsState(c, a, s) ==
  a \in automata /\ s \in states /\ a.name = c[1] /\ s.fsa = a.index /\ s.name = c[2]
LEMMA KnownIs == ASSUME NEW c PROVE Known(c) <=> \E a, s : IsState(c, a, s)
BY Zenon DEF Known, IsState

(* Such a setter has the cell and the id of that very state.                *)
LEMMA SetterOf ==
  ASSUME TablesInv, NEW c, NEW a, NEW s, IsState(c, a, s)
  PROVE  /\ Automaton_find(automata, c[1]) = a /\ State_find(states, c[2], a.index) = s
         /\ Dostate(c).cell = address[a.index] /\ Dostate(c).value = s.value /\ s.value \in Nat \ {0}
<1>1. Automaton_find(automata, c[1]) = a
  BY Zenon DEF IsState, TablesInv, AutomataOK, Automaton_find
<1>2. State_find(states, c[2], a.index) = s
  BY Zenon DEF IsState, TablesInv, StatesOK, State_find
<1>3. s.value \in Nat \ {0}
  BY Zenon DEF IsState, TablesInv, StatesOK
<1> QED
  BY <1>1, <1>2, <1>3 DEF Dostate

(* What the machine has been given does not change.                         *)
SettersOK == setters = [c \in {d \in program.changes : Known(d)} |-> Dostate(c)]
LEMMA SameSetters ==
  ASSUME UNCHANGED <<program, automata, states, attached, lists, address>>
  PROVE  /\ \A c : Known(c)' <=> Known(c)
         /\ \A c : Dostate(c)' = Dostate(c)
         /\ Unselected' <=> Unselected
<1>1. \A c : Known(c)' <=> Known(c)
  BY Zenon DEF Known
<1>2. \A c : Dostate(c)' = Dostate(c)
  BY DEF Dostate, Automaton_find, State_find, State_getlist, State_inlist
<1>3. Unselected' <=> Unselected
  BY Zenon DEF Unselected, Used
<1> QED
  BY <1>1, <1>2, <1>3, Zenon

(* A setter of a program that runs                                          *)
LEMMA SetterIs ==
  ASSUME TablesInv, DefsInv, WrittenInv, Compiled, Errors = {}, NEW c \in program.changes
  PROVE  \E a, s : IsState(c, a, s) /\ setters[c] = Dostate(c)
<1>1. Known(c)
  BY PassedFacts DEF ChangesOK
<1>2. setters[c] = Dostate(c)
  BY <1>1 DEF WrittenInv, DataInv
<1> QED
  BY <1>1, <1>2, KnownIs, Zenon

(* "state" stores the id of the state in the selector, nowhere else.        *)
LEMMA NextData ==
  ASSUME TablesInv, DefsInv, WrittenInv, [Next]_vars
  PROVE  DataInv'
<1>0. /\ FiniteInv /\ StubsInv /\ DataInv /\ Selectors \in Nat
      /\ TypeOK /\ ItemInv /\ KnownInv /\ AttachedInv
      /\ program' = program
  BY SelectorsNat, NextGrows DEF WrittenInv, DefsInv
<1>1. pass # "first" => Selectors' = Selectors
  <2>1. pass # "first" => SameIds
    BY <1>0, LaterSame
  <2> QED
    BY <1>0, <2>1, SameStubs
<1>2. CASE Finish
  <2>1. /\ pass' = "run" /\ pass = "write" /\ UNCHANGED <<program, tables, symbols, address>>
        /\ setters' = [c \in {d \in program.changes : Known(d)} |-> Dostate(c)]
        /\ data' = [k \in 0 .. Selectors |-> IF k = Selectors THEN GlobalValue ELSE 0]
    BY <1>2, Zenon DEF Finish
  <2>2. UNCHANGED <<program, automata, states, attached, lists, address>>
    BY <2>1 DEF tables, symbols
  <2>3. setters' = [c \in {d \in program'.changes : Known(d)'} |-> Dostate(c)']
    BY <2>1, <2>2, SameSetters
  <2>4. Selectors' = Selectors
    BY <1>1, <2>1
  <2>5. data' \in [0 .. Selectors -> Int] /\ data'[Selectors] = GlobalValue
    BY <1>0, <2>1 DEF GlobalValue
  <2>6. data' \in [0 .. Selectors' -> Int] /\ data'[Selectors'] = GlobalValue
    BY <2>4, <2>5
  <2>7. Compiled'
    BY <2>1 DEF Compiled
  <2> QED
    BY <2>3, <2>6, <2>7, Zenon DEF DataInv
<1>3. CASE /\ UNCHANGED <<program, automata, states, attached, lists, address, setters>>
           /\ Compiled /\ Compiled' /\ data' \in [0 .. Selectors -> Int]
           /\ ~Unselected => data'[Selectors] = GlobalValue
  <2>1. /\ setters = [c \in {d \in program.changes : Known(d)} |-> Dostate(c)]
        /\ pass # "first"
    BY <1>0, <1>3 DEF DataInv, Compiled
  <2>2. setters' = [c \in {d \in program'.changes : Known(d)'} |-> Dostate(c)']
    BY <1>3, <2>1, SameSetters
  <2>3. Selectors' = Selectors
    BY <1>1, <2>1
  <2>4. data' \in [0 .. Selectors' -> Int] /\ (~Unselected' => data'[Selectors'] = GlobalValue)
    BY <1>3, <2>3, SameSetters
  <2> QED
    BY <1>3, <2>2, <2>4, Zenon DEF DataInv
<1>4. ASSUME NEW c \in program.changes, Enter(c) PROVE DataInv'
  <2>1. /\ pass = "run" /\ Errors = {} /\ UNCHANGED <<program, parser, tables, symbols, output>>
        /\ data' = [data EXCEPT ![setters[c].cell] = setters[c].value]
    BY <1>4, Zenon DEF Enter, Running
  <2>2. UNCHANGED <<program, automata, states, attached, lists, address, setters>> /\ Compiled /\ Compiled'
    BY <2>1 DEF tables, symbols, output, parser, Compiled
  <2>3. PICK a, s : IsState(c, a, s) /\ setters[c] = Dostate(c)
    BY <2>1, <2>2, SetterIs, Zenon
  <2>4. setters[c].cell = address[a.index] /\ setters[c].value = s.value /\ s.value \in Nat
    BY <2>3, SetterOf
  <2>5. data \in [0 .. Selectors -> Int] /\ (~Unselected => data[Selectors] = GlobalValue)
    BY <1>0, <2>2, Zenon DEF DataInv
  <2>6. data' \in [0 .. Selectors -> Int]
    <3>1. data' = [data EXCEPT ![address[a.index]] = s.value]
      BY <2>1, <2>4, Zenon
    <3>2. data \in [0 .. Selectors -> Int] /\ s.value \in Int
      BY <2>4, <2>5
    <3> QED
      BY <3>1, <3>2
  <2>7. ASSUME ~Unselected PROVE data'[Selectors] = GlobalValue
    <3>1. Stateful # {}
      BY <2>2, <2>7, HasSelectors
    <3>2. a \in automata /\ pass # "first"
      BY <2>1, <2>3, Zenon DEF IsState
    <3>3. address[a.index] \in 0 .. Selectors - 1
      BY <1>0, <3>1, <3>2, CellOf
    <3> QED
      BY <1>0, <2>1, <2>4, <2>5, <2>7, <3>3
  <2> QED
    BY <1>3, <2>2, <2>6, <2>7
<1>5. ASSUME NEW f \in program.calls, Call(f) PROVE DataInv'
  <2>1. /\ pass = "run" /\ UNCHANGED <<program, tables, symbols, output, data>>
        /\ \E t : pass' = IF t \in {Nostate, Beyond} THEN "halted" ELSE "run"
    BY <1>5, Zenon DEF Call, Running
  <2>2. UNCHANGED <<program, automata, states, attached, lists, address, setters>> /\ Compiled /\ Compiled'
    BY <2>1 DEF tables, symbols, output, Compiled
  <2> QED
    BY <1>0, <1>3, <2>1, <2>2, Zenon DEF DataInv
<1>6. CASE UNCHANGED vars
  <2>1. UNCHANGED <<program, automata, states, attached, lists, address, setters, data, did, pass>>
    BY <1>6 DEF vars, tables, symbols, output, machine, parser
  <2>2. CASE Compiled
    <3>1. Compiled'
      BY <2>1, <2>2 DEF Compiled
    <3> QED
      BY <1>0, <1>3, <2>1, <2>2, <3>1, Zenon DEF DataInv
  <2>3. CASE ~Compiled
    BY <1>0, <2>1, <2>3 DEF DataInv, Compiled
  <2> QED
    BY <2>2, <2>3
<1>7. CASE ~Compiled /\ ~Compiled' /\ did' = did
  BY <1>0, <1>7, Zenon DEF DataInv
<1>8. CASE Item \/ Define
  <2>1. Parsing /\ pass' = pass /\ UNCHANGED machine
    BY <1>8, Zenon DEF Item, Define
  <2> QED
    BY <1>7, <2>1 DEF machine, Parsing, Compiled
<1>9. CASE SecondPass
  <2>1. pass = "first" /\ pass' = "write" /\ UNCHANGED machine
    BY <1>9, Zenon DEF SecondPass
  <2> QED
    BY <1>7, <2>1 DEF machine, Compiled
<1> QED
  BY <1>2, <1>4, <1>5, <1>6, <1>8, <1>9, Zenon DEF Next

(* Nothing has been written to begin with.                                  *)
LEMMA InitWritten == Init => WrittenInv
<1> SUFFICES ASSUME Init PROVE WrittenInv
  OBVIOUS
<1>1. /\ automata = {[name |-> Anonymous, index |-> 0]} /\ states = {} /\ bodies = {}
      /\ pass = "first" /\ did = Nothing
  BY Zenon DEF Init
<1>2. FiniteInv
  <2>1. IsFiniteSet({} \cup {[name |-> Anonymous, index |-> 0]}) /\ IsFiniteSet({})
    BY FS_EmptySet, FS_AddElement
  <2>2. [name |-> Anonymous, index |-> 0].name = Anonymous
    OBVIOUS
  <2> QED
    BY <1>1, <2>1, <2>2 DEF FiniteInv
<1>3. BodiesInv
  BY <1>1 DEF BodiesInv, Placed
<1>4. StubsInv /\ DataInv
  BY <1>1 DEF StubsInv, DataInv, Compiled
<1> QED
  BY <1>2, <1>3, <1>4 DEF WrittenInv

(* The whole invariant                                                      *)
LEMMA WrittenInvariant == Spec => [](TablesInv /\ DefsInv /\ WrittenInv)
<1>1. TablesInv /\ DefsInv /\ WrittenInv /\ [Next]_vars => WrittenInv'
  BY NextFinite, NextBodies, NextStubs, NextData, Zenon DEF WrittenInv, DefsInv
<1> QED
  BY <1>1, InitWritten, DefsInvariant, PTL DEF Spec

-----------------------------------------------------------------------------
(***************************************************************************)
(* The jump tables                                                          *)
(***************************************************************************)
(* The list of different items of one automaton is without repetitions.     *)
LEMMA GatherDistinct ==
  ASSUME NEW at, NEW ss, AutomataOK(at), StatesOK(ss), NEW d, NEW n \in Nat, NEW l, Gather(at, ss, d, n, l),
         \A i, j \in 1 .. n : MachineOf(d, i) = MachineOf(d, j) /\ (d.items[i].state = d.items[j].state => i = j)
  PROVE  IsInjective(l)
<1>1. PICK f \in [0 .. n -> Seq(Nat)] :
        f[0] = <<>> /\ f[n] = l /\ \A i \in 1 .. n : Gathers(at, ss, d, f, i)
  BY Zenon DEF Gather
<1> DEFINE Of(i, v) == Has(at, ss, MachineOf(d, i), d.items[i].state, v)
           OK(m) == IsInjective(f[m]) /\ \A v \in Range(f[m]) : \E i \in 1 .. m : Of(i, v)
           U == {m \in 0 .. n : ~OK(m)}
<1>2. \A i \in 1 .. n : \E v \in Nat : Of(i, v) /\ f[i] = State_buildlist(f[i - 1], v)
  BY <1>1, Zenon DEF Gathers
<1>3. \A i, j \in 1 .. n : \A v : Of(i, v) /\ Of(j, v) => i = j
  <2> SUFFICES ASSUME NEW i \in 1 .. n, NEW j \in 1 .. n, NEW v, Of(i, v), Of(j, v) PROVE i = j
    OBVIOUS
  <2>1. MachineOf(d, i) = MachineOf(d, j) /\ (d.items[i].state = d.items[j].state => i = j)
    OBVIOUS
  <2>2. Has(at, ss, MachineOf(d, i), d.items[j].state, v)
    BY <2>1
  <2>3. d.items[i].state = d.items[j].state
    BY <2>2, HasUnique
  <2> QED
    BY <2>1, <2>3
<1> HIDE DEF Of
<1>4. U = {}
  <2> SUFFICES ASSUME U # {} PROVE FALSE
    OBVIOUS
  <2>1. U \in SUBSET Nat
    OBVIOUS
  <2>2. PICK m \in U : \A y \in U : m <= y
    BY <2>1, LeastElement, Zenon
  <2>3. m \in 0 .. n /\ ~OK(m)
    OBVIOUS
  <2>4. m # 0
    <3>1. Range(f[0]) = {} /\ IsInjective(f[0])
      BY <1>1 DEF Range, IsInjective
    <3> QED
      BY <2>3, <3>1
  <2>5. m \in 1 .. n /\ m - 1 \in 0 .. n /\ ~(m <= m - 1) /\ 1 .. m = (1 .. m - 1) \cup {m} /\ m \notin 1 .. m - 1
        /\ 1 .. m - 1 \subseteq 1 .. n
    BY <2>3, <2>4
  <2>6. OK(m - 1)
    BY <2>2, <2>5
  <2>7. PICK v \in Nat : Of(m, v) /\ f[m] = State_buildlist(f[m - 1], v)
    BY <1>2, <2>5
  <2>8. v \notin Range(f[m - 1])
    BY <1>3, <2>5, <2>6, <2>7
  <2>9. f[m - 1] \in Seq(Nat)
    BY <1>1, <2>5
  <2>10. Range(f[m]) = Range(f[m - 1]) \cup {v} /\ IsInjective(f[m])
    BY <2>6, <2>7, <2>8, <2>9, BuildlistAdds
  <2>11. OK(m)
    BY <2>5, <2>6, <2>7, <2>10
  <2> QED
    BY <2>3, <2>11
<1>5. n \in 0 .. n
  OBVIOUS
<1> QED
  BY <1>1, <1>4, <1>5

(* So a list of states has no state twice, if the definition has none.      *)
LEMMA DistinctList ==
  ASSUME TablesInv, DefsInv, Compiled, Errors = {}, ~Repeated,
         NEW k \in DOMAIN program.defs, KindOf(k) = "list", NEW id, IdOf(k, id)
  PROVE  IsInjective(State_getlist(id).states)
<1> DEFINE d == program.defs[k]
<1>0. AutomataOK(automata) /\ StatesOK(states) /\ TypeOK
  BY DEF TablesInv, DefsInv
<1>1. PICK c \in lists : State_getlist(id) = c /\ ListedAs(automata, states, d, c)
  BY IdKind DEF KindOf
<1>2. Len(d.items) \in Nat /\ DOMAIN d.items = 1 .. Len(d.items)
  BY <1>0, DefFacts
<1>3. \A i, j \in 1 .. Len(d.items) : MachineOf(d, i) = MachineOf(d, j)
  BY PassedFacts DEF OneMachine
<1>4. \A i, j \in 1 .. Len(d.items) : d.items[i].state = d.items[j].state => i = j
  BY <1>2, <1>3, Zenon DEF Repeated
<1>5. Gather(automata, states, d, Len(d.items), c.states)
  BY <1>1, Zenon DEF ListedAs
<1> HIDE DEF d
<1>6. IsInjective(c.states)
  BY <1>0, <1>2, <1>3, <1>4, <1>5, GatherDistinct
<1> QED
  BY <1>1, <1>6

(* A state is in one of the lists of a function.                            *)
InList(f, x, v) == /\ x \in DOMAIN attached[f] /\ attached[f][x].id # Fallback
                   /\ v \in Range(State_getlist(attached[f][x].id).states)
LEMMA OneLabel ==
  ASSUME TablesInv, DefsInv, Compiled, Errors = {}, NEW f \in FuncNames, NEW x, NEW y, NEW v,
         InList(f, x, v), InList(f, y, v)
  PROVE  x = y
<1> SUFFICES ASSUME x # y PROVE FALSE
  OBVIOUS
<1>1. TypeOK /\ State_conflict = {}
  BY PassedFacts DEF DefsInv
<1>2. Conflict(f, attached[f][x].id, attached[f][y].id) = {}
  BY <1>1, ConflictMeans, Zenon DEF InList
<1>3. Range(State_getlist(attached[f][x].id).states) \cap Range(State_getlist(attached[f][y].id).states) # {}
  BY Zenon DEF InList
<1> QED
  BY <1>2, <1>3, Zenon DEF Conflict

(* The items of a state, and the list it is in                              *)
IsPair(k, i, a, s) == PairOf(k, i)[1] = a.name /\ PairOf(k, i)[2] = s.name
Lists(f, a, s) == {k \in DefsOf(f) : \E i \in ItemsOf(k) : IsPair(k, i, a, s)}
IsLabel(f, a, s, x) == InList(f, x, s.value) /\ State_getlist(attached[f][x].id).fsa = a.index

(* The id of an item is that of a state if the item has its name.           *)
LEMMA PairHas ==
  ASSUME TablesInv, NEW a \in automata, NEW s \in states, s.fsa = a.index, NEW k, NEW i, NEW v,
         HasPair(k, i, v), PairOf(k, i)[1] = a.name
  PROVE  v = s.value <=> PairOf(k, i)[2] = s.name
<1>1. PICK b \in automata : b.name = PairOf(k, i)[1] /\
               \E t \in states : t.fsa = b.index /\ t.name = PairOf(k, i)[2] /\ t.value = v
  BY Zenon DEF HasPair, Has
<1>2. PICK t \in states : t.fsa = b.index /\ t.name = PairOf(k, i)[2] /\ t.value = v
  BY <1>1
<1>3. b = a
  BY <1>1, Zenon DEF TablesInv, AutomataOK
<1>4. t.fsa = s.fsa
  BY <1>2, <1>3
<1> QED
  BY <1>2, <1>4, Zenon DEF TablesInv, StatesOK

(* A list is of an automaton if its items name the automaton.               *)
LEMMA ListFsa ==
  ASSUME TablesInv, DefsInv, Compiled, Errors = {}, NEW k \in DOMAIN program.defs, KindOf(k) = "list",
         NEW id, IdOf(k, id), NEW a \in automata, NEW i \in ItemsOf(k)
  PROVE  State_getlist(id).fsa = a.index <=> PairOf(k, i)[1] = a.name
<1>0. TypeOK
  BY DEF DefsInv
<1>1. PICK b \in automata : b.name = PairOf(k, LastOf(k))[1] /\ b.index = State_getlist(id).fsa
  BY <1>0, ListElements
<1>2. PairOf(k, LastOf(k))[1] = PairOf(k, i)[1]
  <2>1. LastOf(k) \in ItemsOf(k)
    BY <1>0, ListElements
  <2> QED
    BY <2>1, PassedOneEach, Zenon DEF OneEach
<1>3. b.name = a.name \/ b.index = a.index => b = a
  BY Zenon DEF TablesInv, AutomataOK
<1> QED
  BY <1>1, <1>2, <1>3, Zenon

(* A definition that lists a state has an id that is a label of it.         *)
LEMMA HasLabel ==
  ASSUME TablesInv, DefsInv, Compiled, Errors = {}, NEW f \in FuncNames,
         NEW a \in automata, NEW s \in states, s.fsa = a.index, NEW k \in Lists(f, a, s)
  PROVE  \E x : IsLabel(f, a, s, x) /\ IdOf(k, attached[f][x].id)
<1>0. TypeOK /\ k \in DefsOf(f)
  BY DEF DefsInv, Lists
<1>1. PICK i \in ItemsOf(k) : IsPair(k, i, a, s)
  BY DEF Lists
<1>2. k \in DOMAIN program.defs /\ KindOf(k) = "list"
  BY <1>0, PassedFacts
<1>3. k \in Implements(f)
  BY <1>0, <1>2 DEF Implements, KindOf
<1>4. PICK x \in DOMAIN attached[f] : IdOf(k, attached[f][x].id)
  BY <1>3, PassedFacts
<1>5. PICK v \in Range(State_getlist(attached[f][x].id).states) : HasPair(k, i, v)
  BY <1>0, <1>2, <1>4, ListElements
<1>6. v = s.value
  BY <1>1, <1>5, PairHas DEF IsPair
<1>7. attached[f][x].id # Fallback
  <2>1. KindOf(k) # "fallback"
    BY <1>2
  <2> QED
    BY <1>4, <2>1, IdKind, Zenon DEF KindOf
<1>8. State_getlist(attached[f][x].id).fsa = a.index
  BY <1>1, <1>2, <1>4, ListFsa, Zenon DEF IsPair
<1> QED
  BY <1>4, <1>5, <1>6, <1>7, <1>8, Zenon DEF IsLabel, InList

(* What is placed is what has been read, once the program is compiled.      *)
LEMMA PlacedIs ==
  ASSUME TablesInv, DefsInv, BodiesInv, Compiled, NEW f \in FuncNames, Used(f), NEW id \in Int
  PROVE  Placed(f, id) = {k \in DefsOf(f) : IdOf(k, id)}
<1>1. Placed(f, id) = {k \in DefsOf(f) : pass # "first" /\ Used(f) /\ k < pos /\ IdOf(k, id)}
  BY Zenon DEF BodiesInv
<1>2. pass # "first" /\ \A k \in DefsOf(f) : k < pos
  BY PassedFacts
<1> QED
  BY <1>1, <1>2

(* What is written with the label of a state is the definitions that list it.*)
LEMMA PlacedMeans ==
  ASSUME TablesInv, DefsInv, WrittenInv, Compiled, Errors = {}, NEW f \in FuncNames, Used(f),
         NEW a \in automata, NEW s \in states, s.fsa = a.index, NEW x, IsLabel(f, a, s, x)
  PROVE  Placed(f, attached[f][x].id) = Lists(f, a, s) /\ attached[f][x].id \in Nat \ {0} /\ Lists(f, a, s) # {}
<1> DEFINE id == attached[f][x].id
<1>0. TypeOK /\ AttachedInv /\ BodiesInv /\ x \in DOMAIN attached[f] /\ id # Fallback
      /\ s.value \in Range(State_getlist(id).states) /\ State_getlist(id).fsa = a.index
  BY DEF DefsInv, WrittenInv, IsLabel, InList
<1>1. PICK k0 \in DefsOf(f) : k0 \in DOMAIN program.defs /\ IdOf(k0, id) /\ KindOf(k0) = "list" /\ id # Stateless
  BY <1>0, AttachedIs
<1>2. id \in Nat \ {0}
  BY <1>1, IdKind, Zenon DEF KindOf
<1>3. Placed(f, id) = {k \in DefsOf(f) : IdOf(k, id)}
  BY <1>0, <1>2, PlacedIs
<1>4. ASSUME NEW k \in DefsOf(f), IdOf(k, id) PROVE k \in Lists(f, a, s)
  <2>1. k \in DOMAIN program.defs /\ KindOf(k) = "list"
    BY <1>2, <1>4, IdKind, PassedFacts DEF KindOf
  <2>2. PICK i \in ItemsOf(k) : HasPair(k, i, s.value)
    BY <1>0, <1>4, <2>1, ListElements
  <2>3. PairOf(k, i)[1] = a.name
    BY <1>0, <1>4, <2>1, ListFsa, Zenon
  <2>4. PairOf(k, i)[2] = s.name
    BY <2>2, <2>3, PairHas
  <2> QED
    BY <2>3, <2>4, Zenon DEF Lists, IsPair
<1>5. ASSUME NEW k \in Lists(f, a, s) PROVE IdOf(k, id)
  <2>1. PICK y : IsLabel(f, a, s, y) /\ IdOf(k, attached[f][y].id)
    BY HasLabel, Zenon
  <2>2. y = x
    BY <2>1, OneLabel, Zenon DEF IsLabel
  <2> QED
    BY <2>1, <2>2
<1>6. Lists(f, a, s) \subseteq DefsOf(f)
  BY DEF Lists
<1> HIDE DEF id
<1>7. Placed(f, id) = Lists(f, a, s)
  BY <1>3, <1>4, <1>5, <1>6
<1>8. k0 \in Lists(f, a, s)
  BY <1>1, <1>4
<1> QED
  BY <1>2, <1>7, <1>8 DEF id

(* What the language says: Automata                                         *)
LEMMA PromiseMeans ==
  ASSUME NEW f
  PROVE  /\ Promise!Defs(program, f) = DefsOf(f)
         /\ \A k, c : c \in Promise!Pairs(program.defs[k]) <=> \E i \in ItemsOf(k) : c = PairOf(k, i)
         /\ \A at : Promise!Listed(program, f, at) =
                    {k \in DefsOf(f) : \E i \in ItemsOf(k) : at[PairOf(k, i)[1]] = PairOf(k, i)[2]}
         /\ \A at : Promise!Implementation(program, f, at) =
                    IF Promise!Listed(program, f, at) # {} THEN Promise!Listed(program, f, at)
                    ELSE {k \in DefsOf(f) : KindOf(k) # "list"}
<1>1. Promise!Defs(program, f) = DefsOf(f)
  BY Zenon DEF Promise!Defs, DefsOf
<1>2. \A k : Promise!Pairs(program.defs[k]) = {PairOf(k, i) : i \in ItemsOf(k)}
  BY Zenon DEF Promise!Pairs, Promise!MachineOf, Promise!Anonymous, MachineOf, Anonymous, PairOf, ItemsOf
<1>3. \A k, c : c \in Promise!Pairs(program.defs[k]) <=> \E i \in ItemsOf(k) : c = PairOf(k, i)
  BY <1>2, Zenon
<1>4. ASSUME NEW at
      PROVE  Promise!Listed(program, f, at) =
                    {k \in DefsOf(f) : \E i \in ItemsOf(k) : at[PairOf(k, i)[1]] = PairOf(k, i)[2]}
  <2>1. Promise!Listed(program, f, at) =
          {k \in DefsOf(f) : \E c \in Promise!Pairs(program.defs[k]) : at[c[1]] = c[2]}
    BY <1>1, Zenon DEF Promise!Listed
  <2>2. \A k : (\E c \in Promise!Pairs(program.defs[k]) : at[c[1]] = c[2]) <=>
               \E i \in ItemsOf(k) : at[PairOf(k, i)[1]] = PairOf(k, i)[2]
    BY <1>3, Zenon
  <2> QED
    BY <2>1, <2>2, Zenon
<1>5. \A at : Promise!Implementation(program, f, at) =
                    IF Promise!Listed(program, f, at) # {} THEN Promise!Listed(program, f, at)
                    ELSE {k \in DefsOf(f) : KindOf(k) # "list"}
  BY <1>1, Zenon DEF Promise!Implementation, KindOf
<1> QED
  BY <1>1, <1>3, <1>4, <1>5

(* The state of an automaton is read off its selector.                      *)
In(a, s, dt) == Stateful # {} /\ s \in states /\ s.fsa = a.index /\ s.value = dt[address[a.index]]
DecodedFrom(dt, m) ==
  LET a == Automaton_find(automata, m)
      there == {s \in states : Stateful # {} /\ s.fsa = a.index /\ s.value = dt[address[a.index]]}
  IN IF there = {} THEN NoState ELSE (CHOOSE s \in there : TRUE).name
(* An automaton is in a state exactly if its selector holds the id of it.   *)
LEMMA DecodedIs ==
  ASSUME TablesInv, NEW a \in automata, NEW dt
  PROVE  /\ \A s : In(a, s, dt) => DecodedFrom(dt, a.name) = s.name
         /\ (\A s : ~In(a, s, dt)) => DecodedFrom(dt, a.name) = NoState
<1>1. Automaton_find(automata, a.name) = a
  BY Zenon DEF TablesInv, AutomataOK, Automaton_find
<1> DEFINE there == {s \in states : Stateful # {} /\ s.fsa = a.index /\ s.value = dt[address[a.index]]}
<1>2. DecodedFrom(dt, a.name) = IF there = {} THEN NoState ELSE (CHOOSE s \in there : TRUE).name
  BY <1>1 DEF DecodedFrom
<1>3. \A s : s \in there <=> In(a, s, dt)
  BY Zenon DEF In
<1>4. \A s, t : In(a, s, dt) /\ In(a, t, dt) => s = t
  BY Zenon DEF In, TablesInv, StatesOK
<1> HIDE DEF there
<1>5. ASSUME NEW s, In(a, s, dt) PROVE DecodedFrom(dt, a.name) = s.name
  <2>1. s \in there /\ there # {}
    BY <1>3, <1>5
  <2>2. (CHOOSE t \in there : TRUE) \in there
    BY <2>1, Zenon
  <2>3. (CHOOSE t \in there : TRUE) = s
    BY <1>3, <1>4, <1>5, <2>2, Zenon
  <2> QED
    BY <1>2, <2>1, <2>3
<1>6. ASSUME \A s : ~In(a, s, dt) PROVE DecodedFrom(dt, a.name) = NoState
  <2>1. there = {}
    BY <1>3, <1>6
  <2> QED
    BY <1>2, <2>1
<1> QED
  BY <1>5, <1>6

(* The same after a step                                                    *)
LEMMA DecodedLater ==
  ASSUME UNCHANGED <<automata, states, address>>, Stateful' = Stateful, NEW m
  PROVE  Decoded(m) = DecodedFrom(data, m) /\ Decoded(m)' = DecodedFrom(data', m)
<1>1. Decoded(m) = DecodedFrom(data, m)
  BY Zenon DEF Decoded, DecodedFrom
<1>2. Decoded(m)' = DecodedFrom(data', m)
  BY DEF Decoded, DecodedFrom, Automaton_find
<1> QED
  BY <1>1, <1>2

(* Every automaton that is named is in the table.                           *)
MachinesIn == {Anonymous} \cup Machines(DOMAIN program.defs)
LEMMA MachineIn ==
  ASSUME TablesInv, DefsInv, FiniteInv, pass # "first", NEW m \in MachinesIn
  PROVE  \E a \in automata : a.name = m
<1>0. TypeOK /\ KnownInv
  BY DEF DefsInv
<1>1. CASE m = Anonymous
  BY <1>1 DEF FiniteInv
<1>2. CASE m # Anonymous
  <2>1. \E k \in DOMAIN program.defs : \E i \in ItemsOf(k) : m = MachineOf(program.defs[k], i)
    BY <1>2 DEF MachinesIn, Machines, ItemsOf
  <2>2. PICK k \in DOMAIN program.defs : \E i \in ItemsOf(k) : m = MachineOf(program.defs[k], i)
    BY <2>1
  <2>3. PICK i \in ItemsOf(k) : m = MachineOf(program.defs[k], i)
    BY <2>2
  <2>4. k \in 1 .. Seen
    BY <1>0, DefsDomain DEF Seen
  <2>5. PICK id \in Int : IdOf(k, id)
    BY <1>0, <2>4, Zenon DEF KnownInv
  <2>6. KindOf(k) = "list"
    BY <1>0, DefFacts DEF KindOf, ItemsOf
  <2>7. \E v : HasPair(k, i, v)
    BY <1>0, <2>5, <2>6, ListElements
  <2>8. PairOf(k, i)[1] = m
    BY <2>3, PairParts
  <2> QED
    BY <2>7, <2>8, Zenon DEF HasPair, Has
<1> QED
  BY <1>1, <1>2

(* A jump table counts the cases it has, unless a list has a state twice.   *)
CasesOf(f) == {[value |-> s.value, id |-> LabelOf(f, s.value)]
               : s \in {t \in StatesOf(f) : LabelsOf(f, t.value) # {}}}
(* A jump table has finitely many cases.                                    *)
LEMMA CasesFinite == ASSUME FiniteInv, NEW f PROVE IsFiniteSet(CasesOf(f)) /\ Cardinality(CasesOf(f)) \in Nat
<1> DEFINE S == {t \in StatesOf(f) : LabelsOf(f, t.value) # {}}
           T == CasesOf(f)
           g == [s \in S |-> [value |-> s.value, id |-> LabelOf(f, s.value)]]
<1>1. S \in SUBSET states /\ IsFiniteSet(states)
  BY DEF StatesOf, FiniteInv
<1>2. g \in Surjection(S, T)
  BY DEF Surjection, CasesOf
<1> HIDE DEF S, T, g
<1>3. IsFiniteSet(T)
  BY <1>1, <1>2, FS_Subset, FS_Surjection
<1> QED
  BY <1>3, FS_CardinalityType DEF T

(* statecount is the number of cases, in a program without errors.          *)
LEMMA CountRight ==
  ASSUME TablesInv, DefsInv, FiniteInv, Compiled, Errors = {}, ~Repeated, NEW f \in Stubbed
  PROVE  ~(Cardinality(Items(attached[f])) > Cardinality(CasesOf(f)))
<1> DEFINE s == attached[f]
           S == Items(s)
           T == CasesOf(f)
           St(x) == State_getlist(s[x].id).states
           W(y) == St(y[1])[y[2]]
<1>0. f \in FuncNames /\ TypeOK /\ AttachedInv
  BY FirstOne DEF DefsInv
<1>1. PICK a : IsMachine(f, a)
  BY TheMachine
<1>2. ASSUME NEW y \in S
      PROVE  /\ y[1] \in DOMAIN s /\ s[y[1]].id # Fallback /\ y[2] \in DOMAIN St(y[1])
             /\ y = <<y[1], y[2]>>
  BY DEF Items
<1>3. ASSUME NEW y \in S PROVE InList(f, y[1], W(y))
  <2>1. W(y) \in Range(St(y[1]))
    BY <1>2 DEF Range
  <2> QED
    BY <1>2, <2>1, Zenon DEF InList
<1>4. ASSUME NEW y \in S PROVE [value |-> W(y), id |-> LabelOf(f, W(y))] \in T
  <2> DEFINE x == y[1]
             w == W(y)
  <2>1. x \in DOMAIN s /\ s[x].id # Fallback /\ w \in Range(St(x))
    BY <1>3, Zenon DEF InList
  <2>2. PICK k \in DefsOf(f) : k \in DOMAIN program.defs /\ IdOf(k, s[x].id) /\ KindOf(k) = "list"
    BY <1>0, <2>1, AttachedIs
  <2> HIDE DEF w, x
  <2>3. PICK i \in ItemsOf(k) : HasPair(k, i, w)
    BY <1>0, <2>1, <2>2, ListElements
  <2>4. PICK b \in automata : b.name = PairOf(k, i)[1] /\ \E t \in states : t.fsa = b.index /\ t.value = w
    BY <2>3, Zenon DEF HasPair, Has
  <2>5. b = a
    <3>1. b.name = a.name /\ a \in automata
      BY <1>1, <2>4, Zenon DEF IsMachine
    <3> QED
      BY <3>1, Zenon DEF TablesInv, AutomataOK
  <2>6. PICK t \in states : t.fsa = a.index /\ t.value = w
    BY <2>4, <2>5
  <2>7. t \in StatesOf(f)
    BY <1>1, <2>6, Zenon DEF StatesOf, IsMachine
  <2>8. x \in LabelsOf(f, w)
    BY <2>1, Zenon DEF LabelsOf, State_inlist
  <2>9. [value |-> w, id |-> LabelOf(f, w)] \in T
    BY <2>6, <2>7, <2>8 DEF CasesOf
  <2> QED
    BY <2>9 DEF w
<1>5. ASSUME NEW y \in S, NEW z \in S, W(y) = W(z) PROVE y = z
  <2>1. InList(f, y[1], W(y)) /\ InList(f, z[1], W(y))
    BY <1>3, <1>5, Zenon
  <2>2. y[1] = z[1]
    BY <1>0, <2>1, OneLabel, Zenon
  <2>3. y[1] \in DOMAIN s /\ s[y[1]].id # Fallback
    BY <1>2
  <2>4. PICK k \in DefsOf(f) : k \in DOMAIN program.defs /\ IdOf(k, s[y[1]].id) /\ KindOf(k) = "list"
    BY <1>0, <2>3, AttachedIs
  <2>5. IsInjective(St(y[1]))
    BY <2>4, DistinctList
  <2>6. y[2] = z[2]
    BY <1>2, <1>5, <2>2, <2>5, Zenon DEF IsInjective
  <2> QED
    BY <1>2, <2>2, <2>6, Zenon
<1> DEFINE h == [y \in S |-> [value |-> W(y), id |-> LabelOf(f, W(y))]]
<1> HIDE DEF S, T, W
<1>6. h \in Injection(S, T)
  <2>1. h \in [S -> T]
    BY <1>4
  <2>2. \A y, z \in S : h[y] = h[z] => y = z
    BY <1>5
  <2> HIDE DEF h
  <2> QED
    BY <2>1, <2>2 DEF Injection, IsInjective
<1> HIDE DEF h
<1>7. IsFiniteSet(T) /\ Cardinality(T) \in Nat
  BY CasesFinite DEF T
<1>8. IsFiniteSet(S) /\ Cardinality(S) <= Cardinality(T)
  BY <1>6, <1>7, FS_Injection
<1>9. Cardinality(S) \in Nat
  BY <1>8, FS_CardinalityType
<1>10. ~(Cardinality(S) > Cardinality(T))
  BY <1>7, <1>8, <1>9
<1> QED
  BY <1>10 DEF S, T

(* A function that is called and has states has a table.                    *)
LEMMA CalledFacts ==
  ASSUME TypeOK, NEW f \in program.calls
  PROVE  f \in FuncNames /\ f # EntryFunc /\ Used(f) /\ DefsOf(f) # {}
<1>1. /\ \A g \in program.calls : g \in FuncNames /\ \E k \in DOMAIN program.defs : program.defs[k].f = g /\ ~program.defs[k].forward
      /\ EntryFunc \notin program.calls
  BY ProgramsAssumption, Zenon DEF TypeOK
<1>2. f # EntryFunc /\ Used(f)
  BY <1>1, Zenon DEF Used
<1> QED
  BY <1>1, <1>2 DEF DefsOf

(* It is Stubbed if states have been attached to it.                        *)
LEMMA CalledStubbed ==
  ASSUME TablesInv, DefsInv, Compiled, Errors = {}, NEW f \in program.calls, attached[f] # <<>>
  PROVE  f \in Stubbed
<1>0. f \in FuncNames /\ f # EntryFunc /\ Used(f) /\ TypeOK /\ AttachedInv
  BY CalledFacts DEF DefsInv
<1> DEFINE s == attached[f]
<1>1. s \in Seq(Entries) /\ s # <<>> /\ \A x, y \in DOMAIN s : s[x].id = s[y].id => x = y
  BY <1>0 DEF TypeOK, Entries, AttachedInv
<1>2. \E l \in DefsOf(f) : KindOf(l) = "list"
  <2>1. 1 \in DOMAIN s
    <3> HIDE DEF s
    <3> QED
      BY <1>1
  <2>2. PICK j \in DefsOf(f) : KindOf(j) = IF s[1].id = Fallback THEN "fallback" ELSE "list"
    BY <1>0, <2>1, AttachedIs
  <2>3. FallbackOnce(f)
    BY <1>0, PassedFallback
  <2> QED
    BY <2>2, <2>3, Zenon DEF FallbackOnce
<1>3. PICK l \in DefsOf(f) : KindOf(l) = "list"
  BY <1>2
<1>4. l \in Implements(f)
  BY <1>3 DEF Implements, KindOf
<1>5. PICK x \in DOMAIN s : IdOf(l, s[x].id)
  BY <1>0, <1>4, PassedFacts
<1>6. s[x].id # Fallback
  <2>1. KindOf(l) # "fallback"
    BY <1>3
  <2> QED
    BY <1>5, <2>1, IdKind, Zenon DEF KindOf
<1>7. FirstList(s) # Fallback
  <2> HIDE DEF s
  <2>1. DOMAIN s = 1 .. Len(s) /\ Len(s) \in Nat
    BY <1>1
  <2>2. CASE s[1].id = Fallback
    <3>1. x # 1 /\ Len(s) > 1 /\ 1 \in DOMAIN s /\ 2 \in DOMAIN s
      BY <1>5, <1>6, <2>1, <2>2
    <3>2. s[2].id # Fallback
      BY <1>1, <2>2, <3>1
    <3> QED
      BY <2>2, <3>1, <3>2 DEF FirstList
  <2>3. CASE s[1].id # Fallback
    BY <2>3 DEF FirstList
  <2> QED
    BY <2>2, <2>3
<1> QED
  BY <1>0, <1>1, <1>7 DEF Stubbed, Stateful

(* Where the mapping sees the automata                                      *)
Current == [m \in {Anonymous} \cup Machines(DOMAIN program.defs) |-> IF Kept THEN Decoded(m) ELSE NoState]
LEMMA CurrentIs ==
  ASSUME Kept
  PROVE  /\ \A k \in DOMAIN program.defs : \A i \in ItemsOf(k) :
              PairOf(k, i)[1] \in MachinesIn /\ Current[PairOf(k, i)[1]] = Decoded(PairOf(k, i)[1])
         /\ \A f : Promise!Listed(program, f, Current) =
                    {k \in DefsOf(f) : \E i \in ItemsOf(k) : Decoded(PairOf(k, i)[1]) = PairOf(k, i)[2]}
<1>1. ASSUME NEW k \in DOMAIN program.defs, NEW i \in ItemsOf(k)
      PROVE  PairOf(k, i)[1] \in MachinesIn /\ Current[PairOf(k, i)[1]] = Decoded(PairOf(k, i)[1])
  <2> DEFINE m == PairOf(k, i)[1]
  <2>1. m = MachineOf(program.defs[k], i)
    BY PairParts
  <2> HIDE DEF m
  <2>2. m \in MachinesIn
    BY <2>1 DEF MachinesIn, Machines, ItemsOf
  <2>3. Current[m] = Decoded(m)
    BY <2>2 DEF Current, MachinesIn
  <2> QED
    BY <2>2, <2>3 DEF m
<1>2. ASSUME NEW f
      PROVE  Promise!Listed(program, f, Current) =
                    {k \in DefsOf(f) : \E i \in ItemsOf(k) : Decoded(PairOf(k, i)[1]) = PairOf(k, i)[2]}
  <2>1. Promise!Listed(program, f, Current) =
          {k \in DefsOf(f) : \E i \in ItemsOf(k) : Current[PairOf(k, i)[1]] = PairOf(k, i)[2]}
    BY PromiseMeans
  <2>2. DefsOf(f) \subseteq DOMAIN program.defs
    BY ImplementsIn
  <2> HIDE DEF Current
  <2> QED
    BY <1>1, <2>1, <2>2
<1> QED
  BY <1>1, <1>2

(* A call runs the implementation for the state the automaton is in.        *)
LEMMA CallMeans ==
  ASSUME TablesInv, DefsInv, WrittenInv, Kept, NEW f \in program.calls, NEW id \in Targets(f)
  PROVE  /\ Placed(f, id) = Promise!Implementation(program, f, Current)
         /\ id \in {Nostate, Beyond} <=> Promise!Implementation(program, f, Current) = {}
<1> DEFINE Listed == {k \in DefsOf(f) : \E i \in ItemsOf(k) : Decoded(PairOf(k, i)[1]) = PairOf(k, i)[2]}
           Others == {k \in DefsOf(f) : KindOf(k) # "list"}
           Impl == Promise!Implementation(program, f, Current)
<1>0. /\ Compiled /\ Errors = {} /\ ~Mixed /\ ~Repeated /\ pass # "first"
      /\ f \in FuncNames /\ f # EntryFunc /\ Used(f) /\ DefsOf(f) # {}
      /\ TypeOK /\ AttachedInv /\ FiniteInv /\ BodiesInv /\ StubsInv
      /\ DefsOf(f) \subseteq DOMAIN program.defs
  BY CalledFacts, PassedFacts, ImplementsIn DEF Kept, DefsInv, WrittenInv
<1>1. Impl = IF Listed # {} THEN Listed ELSE Others
  <2>1. Promise!Listed(program, f, Current) = Listed
    BY CurrentIs
  <2>2. Impl = IF Promise!Listed(program, f, Current) # {} THEN Promise!Listed(program, f, Current) ELSE Others
    BY PromiseMeans
  <2> QED
    BY <2>1, <2>2
<1>2. \A k \in DefsOf(f) : \A i \in ItemsOf(k) : KindOf(k) = "list"
  BY <1>0, PassedFacts
<1>3. \A i \in Int : Placed(f, i) = {k \in DefsOf(f) : IdOf(k, i)}
  BY <1>0, PlacedIs
<1>4. CASE attached[f] = <<>>
  <2>1. id = Stateless
    BY <1>4 DEF Targets
  <2>2. \A k \in DefsOf(f) : KindOf(k) = "none"
    <3> SUFFICES ASSUME NEW k \in DefsOf(f), KindOf(k) # "none" PROVE FALSE
      OBVIOUS
    <3>1. k \in Implements(f)
      BY DEF Implements, KindOf
    <3>2. \E x \in DOMAIN attached[f] : IdOf(k, attached[f][x].id)
      BY <1>0, <3>1, PassedFacts
    <3> QED
      BY <1>4, <3>2
  <2>3. Listed = {} /\ Others = DefsOf(f)
    BY <1>2, <2>2
  <2>4. \A k \in DefsOf(f) : IdOf(k, Stateless)
    BY <2>2, Zenon DEF IdOf, IsId, KindOf
  <2>5. Placed(f, Stateless) = DefsOf(f)
    BY <1>3, <2>4 DEF Stateless
  <2> HIDE DEF Listed, Others, Impl
  <2>6. Impl = DefsOf(f) /\ Placed(f, id) = Impl
    BY <1>1, <2>1, <2>3, <2>5
  <2>7. id \notin {Nostate, Beyond}
    BY <2>1 DEF Stateless, Nostate, Beyond
  <2> QED
    BY <1>0, <2>6, <2>7 DEF Impl
<1>5. CASE attached[f] # <<>>
  <2>1. f \in Stubbed
    BY <1>0, <1>5, CalledStubbed
  <2>2. PICK a : IsMachine(f, a)
    BY <1>0, <2>1, TheMachine
  <2>3. /\ a \in automata /\ a.index = State_getlist(FirstList(attached[f])).fsa
        /\ \A k \in DefsOf(f) : \A i \in ItemsOf(k) : PairOf(k, i)[1] = a.name
    BY <2>2, Zenon DEF IsMachine
  <2>4. Stateful # {}
    BY <2>1 DEF Stubbed
  <2> DEFINE v == data[address[a.index]]
             cases == CasesOf(f)
  <2>5. /\ table[f].fsa = a.index /\ table[f].cases = cases
        /\ table[f].default = IF HasFallback(f) THEN Fallback ELSE Nostate
        /\ table[f].count = Cardinality(Items(attached[f]))
    <3>1. table[f] = Stub(f)
      BY <1>0, <2>1 DEF StubsInv
    <3> QED
      BY <2>3, <3>1 DEF Stub, CasesOf
  <2>6. id \in Switch(table[f], v)
    BY <1>5, <2>5 DEF Targets
  <2>7. \A s : In(a, s, data) <=> s \in StatesOf(f) /\ s.value = v
    BY <2>3, <2>4, Zenon DEF In, StatesOf
  <2>8. Decoded(a.name) = DecodedFrom(data, a.name)
    BY Zenon DEF Decoded, DecodedFrom
  <2>9. Listed = {k \in DefsOf(f) : \E i \in ItemsOf(k) : Decoded(a.name) = PairOf(k, i)[2]}
    BY <2>3, Zenon
  <2> HIDE DEF Listed, Others, Impl, v
  <2>10. ASSUME NEW s \in StatesOf(f), s.value = v, LabelsOf(f, v) # {}
         PROVE  Placed(f, id) = Impl /\ id \notin {Nostate, Beyond} /\ Impl # {}
    <3>1. s \in states /\ s.fsa = a.index
      BY <2>3, <2>10, Zenon DEF StatesOf
    <3>2. PICK x \in LabelsOf(f, v) : x \in DOMAIN attached[f] /\ LabelOf(f, v) = attached[f][x].id
      BY <1>0, <2>10, LabelIs, Zenon
    <3>3. id = attached[f][x].id
      <4>1. \E c \in cases : c.value = v
        <5> DEFINE c == [value |-> s.value, id |-> LabelOf(f, s.value)]
        <5>1. c \in cases
          BY <2>10 DEF CasesOf
        <5>2. c.value = v
          BY <2>10
        <5> QED
          BY <5>1, <5>2
      <4>2. \A c \in cases : c.value = v => c.id = LabelOf(f, v)
        BY DEF CasesOf
      <4> HIDE DEF cases
      <4>3. Switch(table[f], v) = {c.id : c \in {d \in cases : d.value = v}}
        BY <2>5, <4>1, Zenon DEF Switch
      <4> QED
        BY <2>6, <3>2, <4>2, <4>3
    <3>4. InList(f, x, s.value)
      BY <2>10, <3>2, Zenon DEF InList, LabelsOf, State_inlist
    <3>5. State_getlist(attached[f][x].id).fsa = a.index
      <4>1. attached[f][x].id # Fallback /\ s.value \in Range(State_getlist(attached[f][x].id).states)
        BY <3>4, Zenon DEF InList
      <4>2. PICK k \in DefsOf(f) : k \in DOMAIN program.defs /\ IdOf(k, attached[f][x].id) /\ KindOf(k) = "list"
        BY <1>0, <3>2, <4>1, AttachedIs
      <4>3. PICK i \in ItemsOf(k) : HasPair(k, i, s.value)
        BY <1>0, <4>1, <4>2, ListElements
      <4> QED
        BY <1>0, <2>3, <4>2, <4>3, ListFsa, Zenon
    <3>6. IsLabel(f, a, s, x)
      BY <3>4, <3>5, Zenon DEF IsLabel
    <3>7. Placed(f, id) = Lists(f, a, s) /\ id \in Nat \ {0} /\ Lists(f, a, s) # {}
      BY <1>0, <2>3, <3>1, <3>3, <3>6, PlacedMeans, Zenon
    <3>8. Decoded(a.name) = s.name
      BY <2>3, <2>7, <2>8, <2>10, DecodedIs, Zenon
    <3>9. Listed = Lists(f, a, s)
      BY <2>3, <2>9, <3>8 DEF Lists, IsPair
    <3> QED
      BY <1>1, <3>7, <3>9 DEF Nostate, Beyond
  <2>11. ASSUME \A s \in StatesOf(f) : s.value = v => LabelsOf(f, v) = {}
         PROVE  Placed(f, id) = Impl /\ (id \in {Nostate, Beyond} <=> Impl = {})
    <3>1. id = IF HasFallback(f) THEN Fallback ELSE Nostate
      <4>1. \A c \in cases : c.value # v
        BY <2>11 DEF CasesOf
      <4>2. ~(table[f].count > Cardinality(table[f].cases))
        BY <1>0, <2>1, <2>5, CountRight
      <4> HIDE DEF cases
      <4>3. Switch(table[f], v) = {table[f].default} \cup (IF table[f].count > Cardinality(table[f].cases) THEN {Beyond} ELSE {})
        BY <2>5, <4>1, Zenon DEF Switch
      <4> QED
        BY <2>5, <2>6, <4>2, <4>3
    <3>2. Listed = {}
      <4> SUFFICES ASSUME NEW k \in DefsOf(f), NEW i \in ItemsOf(k), Decoded(a.name) = PairOf(k, i)[2] PROVE FALSE
        BY <2>9, Zenon
      <4>1. PairOf(k, i)[2] # NoState
        <5>1. PairOf(k, i)[2] = program.defs[k].items[i].state
          BY PairParts
        <5>2. program.defs[k].items[i].state \in StateNames
          BY <1>0, DefFacts DEF ItemsOf
        <5> QED
          BY <5>1, <5>2 DEF StateNames, NoState
      <4>2. PICK s : In(a, s, data)
        BY <2>3, <2>8, <4>1, DecodedIs, Zenon
      <4>3. s.name = PairOf(k, i)[2]
        BY <2>3, <2>8, <4>2, DecodedIs, Zenon
      <4>4. s \in StatesOf(f) /\ s.value = v /\ s \in states /\ s.fsa = a.index
        BY <2>7, <4>2, Zenon DEF In
      <4>5. LabelsOf(f, s.value) # {}
        BY <1>0, <2>1, <2>2, <2>3, <4>3, <4>4, LabelMeans
      <4> QED
        BY <2>11, <4>4, <4>5
    <3>3. Impl = Others
      BY <1>1, <3>2
    <3>4. \E l \in DefsOf(f) : KindOf(l) = "list"
      BY <2>1, FirstOne
    <3>5. \A k \in DefsOf(f) : KindOf(k) \in {"list", "fallback"}
      <4>1. NoneAlone(f)
        BY <1>0, PassedNone
      <4>2. \A k \in DefsOf(f) : KindOf(k) \in {"none", "list", "fallback"}
        BY <1>0, PassedFacts
      <4> QED
        BY <3>4, <4>1, <4>2 DEF NoneAlone
    <3>6. ~HasFallback(f) <=> \A k \in DefsOf(f) : KindOf(k) = "list"
      BY <1>0, <2>1, FallbackMeans
    <3>7. CASE HasFallback(f)
      <4>1. id = Fallback /\ Others # {}
        BY <3>1, <3>6, <3>7 DEF Others
      <4>2. \A k \in DefsOf(f) : IdOf(k, Fallback) <=> KindOf(k) # "list"
        <5>1. \A k \in DefsOf(f) : IdOf(k, Fallback) => KindOf(k) = "fallback"
          BY IdKind, Zenon DEF KindOf
        <5>2. \A k \in DefsOf(f) : KindOf(k) = "fallback" => IdOf(k, Fallback)
          BY Zenon DEF IdOf, IsId, KindOf
        <5> QED
          BY <3>5, <5>1, <5>2
      <4>3. Placed(f, Fallback) = Others
        BY <1>3, <4>2 DEF Fallback, Others
      <4> QED
        BY <3>3, <4>1, <4>3 DEF Fallback, Nostate, Beyond
    <3>8. CASE ~HasFallback(f)
      <4>1. id = Nostate /\ Others = {}
        BY <3>1, <3>6, <3>8 DEF Others
      <4>2. \A k \in DefsOf(f) : ~IdOf(k, Nostate)
        <5> SUFFICES ASSUME NEW k \in DefsOf(f), IdOf(k, Nostate) PROVE FALSE
          OBVIOUS
        <5>1. Nostate \in Nat \ {0} <=> KindOf(k) = "list"
          BY IdKind, Zenon DEF KindOf
        <5>2. Nostate = Fallback <=> KindOf(k) = "fallback"
          BY IdKind, Zenon DEF KindOf
        <5> QED
          BY <3>5, <5>1, <5>2 DEF Nostate, Fallback
      <4>3. Placed(f, Nostate) = {}
        BY <1>3, <4>2 DEF Nostate
      <4> QED
        BY <3>3, <4>1, <4>3
    <3> QED
      BY <3>7, <3>8
  <2> QED
    BY <2>10, <2>11, Zenon DEF Impl
<1> QED
  BY <1>4, <1>5

(* "state" runs the entry functions that list the state.                    *)
LEMMA EnterMeans ==
  ASSUME TablesInv, DefsInv, WrittenInv, Compiled, Errors = {}, NEW c, NEW a, NEW s, IsState(c, a, s)
  PROVE  (IF Dostate(c).entry = Stateless THEN {} ELSE Placed(EntryFunc, Dostate(c).entry)) = Lists(EntryFunc, a, s)
<1> DEFINE t == attached[EntryFunc]
           ks == {k \in DOMAIN t : t[k].id # Fallback /\ State_getlist(t[k].id).fsa = a.index
                                     /\ State_inlist(t[k].id, s.value)}
           e == Dostate(c).entry
<1>0. /\ EntryFunc \in FuncNames /\ Used(EntryFunc) /\ TypeOK /\ AttachedInv
      /\ a \in automata /\ s \in states /\ s.fsa = a.index
  BY ProgramsAssumption, Zenon DEF Used, DefsInv, IsState
<1>1. e = IF ks = {} THEN Stateless ELSE t[CHOOSE k \in ks : \A j \in ks : k <= j].id
  <2> DEFINE Of(f, v) == {k \in DOMAIN t : t[k].id # Fallback /\ State_getlist(t[k].id).fsa = f
                                             /\ State_inlist(t[k].id, v)}
             Entry(f, v) == IF Of(f, v) = {} THEN Stateless ELSE t[CHOOSE k \in Of(f, v) : \A j \in Of(f, v) : k <= j].id
             b == Automaton_find(automata, c[1])
  <2>1. e = Entry(b.index, State_find(states, c[2], b.index).value)
    BY DEF Dostate
  <2>2. b = a /\ State_find(states, c[2], a.index) = s
    BY SetterOf
  <2>3. Entry(a.index, s.value) = IF ks = {} THEN Stateless ELSE t[CHOOSE k \in ks : \A j \in ks : k <= j].id
    BY Zenon
  <2> HIDE DEF Entry, b, e, ks
  <2> QED
    BY <2>1, <2>2, <2>3
<1>2. \A x : x \in ks <=> IsLabel(EntryFunc, a, s, x)
  BY Zenon DEF IsLabel, InList, State_inlist
<1>3. CASE ks = {}
  <2>1. Lists(EntryFunc, a, s) = {}
    <3> SUFFICES ASSUME NEW k \in Lists(EntryFunc, a, s) PROVE FALSE
      OBVIOUS
    <3>1. \E x : IsLabel(EntryFunc, a, s, x)
      BY <1>0, HasLabel, Zenon
    <3> HIDE DEF ks
    <3> QED
      BY <1>2, <1>3, <3>1
  <2> HIDE DEF ks, e
  <2> QED
    BY <1>1, <1>3, <2>1 DEF e
<1>4. CASE ks # {}
  <2> DEFINE x == CHOOSE k \in ks : \A j \in ks : k <= j
  <2>1. \E k \in ks : \A j \in ks : k <= j
    <3>1. t \in Seq(Entries)
      BY <1>0 DEF TypeOK, Entries
    <3>2. ks \in SUBSET Nat
      BY <3>1
    <3> HIDE DEF ks
    <3> QED
      BY <1>4, <3>2, LeastElement
  <2>2. x \in ks
    BY <2>1, Zenon
  <2>3. e = t[x].id
    BY <1>1, <1>4, Zenon
  <2> HIDE DEF ks, x, e
  <2>4. IsLabel(EntryFunc, a, s, x)
    BY <1>2, <2>2
  <2>5. Placed(EntryFunc, e) = Lists(EntryFunc, a, s) /\ e \in Nat \ {0}
    BY <1>0, <2>3, <2>4, PlacedMeans, Zenon
  <2>6. e # Stateless
    BY <2>5 DEF Stateless
  <2> QED
    BY <2>5, <2>6 DEF e
<1> QED
  BY <1>3, <1>4

(* These are the entry functions the language means.                        *)
LEMMA ChangeIsPair ==
  ASSUME TablesInv, DefsInv, Compiled, Errors = {}, NEW c \in program.changes, NEW a, NEW s, IsState(c, a, s)
  PROVE  /\ {k \in Promise!Defs(program, EntryFunc) : c \in Promise!Pairs(program.defs[k])} = Lists(EntryFunc, a, s)
         /\ \E k \in DOMAIN program.defs : \E i \in ItemsOf(k) : c = PairOf(k, i)
<1>1. PICK k0 \in DOMAIN program.defs : \E i \in ItemsOf(k0) : c = PairOf(k0, i)
  BY PassedReachable, Zenon DEF Reachable
<1>2. PICK i0 \in ItemsOf(k0) : c = PairOf(k0, i0)
  BY <1>1
<1>3. c[1] = a.name /\ c[2] = s.name
  BY Zenon DEF IsState
<1>4. \A k, i : c = PairOf(k, i) <=> IsPair(k, i, a, s)
  BY <1>2, <1>3, PairEqual DEF IsPair
<1>5. \A k : c \in Promise!Pairs(program.defs[k]) <=> \E i \in ItemsOf(k) : c = PairOf(k, i)
  BY PromiseMeans
<1>6. Promise!Defs(program, EntryFunc) = DefsOf(EntryFunc)
  BY PromiseMeans
<1> QED
  BY <1>1, <1>4, <1>5, <1>6, Zenon DEF Lists

-----------------------------------------------------------------------------
(***************************************************************************)
(* Every step is one of the language, or none                               *)
(***************************************************************************)
(* The other variables of Automata                                          *)
Stage == IF ~Kept THEN "idle" ELSE IF pass = "run" THEN "running" ELSE "halted"
Global == IF Kept THEN data[Selectors] ELSE GlobalValue
Did == IF Kept THEN did ELSE Nothing

(* A program that is not kept is idle.                                      *)
LEMMA NotKept ==
  /\ ~Kept => /\ Stage = "idle" /\ Global = GlobalValue /\ Did = Nothing
              /\ Current = [m \in MachinesIn |-> NoState]
  /\ ~Kept' => /\ Stage' = "idle" /\ Global' = GlobalValue /\ Did' = Nothing
               /\ Current' = [m \in MachinesIn' |-> NoState]
BY DEF Stage, Global, Did, Current, MachinesIn

(* A step leaves the program, and what is said of its text, as they are.    *)
LEMMA SameProgram ==
  ASSUME program' = program
  PROVE  MachinesIn' = MachinesIn /\ (Mixed' <=> Mixed) /\ (Repeated' <=> Repeated) /\ (Unselected' <=> Unselected)
<1>1. MachinesIn' = MachinesIn
  BY DEF MachinesIn, Machines, MachineOf
<1>2. Mixed' <=> Mixed
  BY Zenon DEF Mixed, DefsOf
<1>3. Repeated' <=> Repeated
  BY DEF Repeated
<1>4. Unselected' <=> Unselected
  BY Zenon DEF Unselected, Used
<1> QED
  BY <1>1, <1>2, <1>3, <1>4

(* The initial states are initial states of the language.                   *)
LEMMA InitMaps == Init => Promise!Init
<1> SUFFICES ASSUME Init PROVE Promise!Init
  OBVIOUS
<1>1. ~Kept
  <2>1. pass = "first"
    BY Zenon DEF Init
  <2> QED
    BY <2>1 DEF Kept, Compiled
<1>2. Stage = "idle" /\ Global = GlobalValue /\ Did = Nothing /\ Current = [m \in MachinesIn |-> NoState]
  BY <1>1, NotKept
<1>3. Promise!MachinesOf(program) = MachinesIn
  <2> DEFINE ListedMachines == {c[1] : c \in Promise!PairsOf(program)}
  <2>1. \A m : m \in ListedMachines <=> \E c \in Promise!PairsOf(program) : m = c[1]
    OBVIOUS
  <2>2. ListedMachines = Machines(DOMAIN program.defs)
    <3>1. Promise!PairsOf(program) = UNION {Promise!Pairs(program.defs[k]) : k \in DOMAIN program.defs}
      BY Zenon DEF Promise!PairsOf
    <3>2. \A c : c \in Promise!PairsOf(program) <=> \E k \in DOMAIN program.defs : c \in Promise!Pairs(program.defs[k])
      BY <3>1
    <3>3. \A k, c : c \in Promise!Pairs(program.defs[k]) <=> \E i \in ItemsOf(k) : c = PairOf(k, i)
      BY PromiseMeans
    <3>4. \A m : m \in Machines(DOMAIN program.defs)
                <=> \E k \in DOMAIN program.defs : \E i \in ItemsOf(k) : m = MachineOf(program.defs[k], i)
      BY DEF Machines, ItemsOf
    <3>5. \A k, i : PairOf(k, i)[1] = MachineOf(program.defs[k], i)
      BY PairParts
    <3> HIDE DEF ListedMachines
    <3>6. ASSUME NEW m \in ListedMachines PROVE m \in Machines(DOMAIN program.defs)
      <4>1. PICK c \in Promise!PairsOf(program) : m = c[1]
        BY <2>1
      <4>2. PICK k \in DOMAIN program.defs : c \in Promise!Pairs(program.defs[k])
        BY <3>2
      <4>3. PICK i \in ItemsOf(k) : c = PairOf(k, i)
        BY <3>3, <4>2
      <4> QED
        BY <3>4, <3>5, <4>1, <4>3
    <3>7. ASSUME NEW m \in Machines(DOMAIN program.defs) PROVE m \in ListedMachines
      <4>1. PICK k \in DOMAIN program.defs : \E i \in ItemsOf(k) : m = MachineOf(program.defs[k], i)
        BY <3>4
      <4>2. PICK i \in ItemsOf(k) : m = MachineOf(program.defs[k], i)
        BY <4>1
      <4>3. PairOf(k, i) \in Promise!PairsOf(program)
        BY <3>2, <3>3, Zenon
      <4>4. m = PairOf(k, i)[1]
        BY <3>5, <4>2, Zenon
      <4> QED
        BY <2>1, <4>3, <4>4, Zenon
    <3> QED
      BY <3>6, <3>7
  <2>3. Promise!MachinesOf(program) = {Promise!Anonymous} \cup {c[1] : c \in Promise!PairsOf(program)}
    BY Zenon DEF Promise!MachinesOf
  <2>4. Promise!Anonymous = Anonymous
    BY Zenon DEF Promise!Anonymous, Anonymous
  <2> QED
    BY <2>2, <2>3, <2>4 DEF MachinesIn
<1>4. Promise!GlobalValue = GlobalValue /\ Promise!Nothing = Nothing /\ Promise!NoState = NoState
  BY Zenon DEF Promise!GlobalValue, GlobalValue, Promise!Nothing, Nothing, Promise!NoState, NoState
<1>5. Promise!Init <=> /\ Stage = "idle" /\ Did = Promise!Nothing /\ Global = Promise!GlobalValue
                       /\ Current = [m \in Promise!MachinesOf(program) |-> Promise!NoState]
  BY Zenon DEF Promise!Init, Stage, Did, Global, Current
<1> QED
  BY <1>2, <1>3, <1>4, <1>5, Zenon

(* The steps of a program that runs                                         *)
LEMMA RunFacts ==
  ASSUME TypeOK, AttachedInv, UNCHANGED <<program, tables, symbols, address, says>>, Compiled'
  PROVE  /\ UNCHANGED <<automata, states, address>> /\ Stateful' = Stateful /\ Selectors' = Selectors
         /\ MachinesIn' = MachinesIn /\ (Compiled => (Kept' <=> Kept))
         /\ Kept' => /\ Current' = [m \in MachinesIn |-> DecodedFrom(data', m)]
                     /\ Global' = data'[Selectors] /\ Did' = did' /\ Errors = {} /\ ~Unselected
<1>1. UNCHANGED <<automata, states, address, attached, lists, program, says>>
  BY DEF tables, symbols
<1>2. SameIds
  BY <1>1 DEF SameIds, TypeOK, Entries
<1>3. Stateful' = Stateful /\ Selectors' = Selectors
  BY <1>2, SameLists, SameStubs
<1>4. MachinesIn' = MachinesIn /\ (Mixed' <=> Mixed) /\ (Repeated' <=> Repeated) /\ (Unselected' <=> Unselected)
  BY <1>1, SameProgram
<1>5. Errors' = Errors
  BY <1>1, Zenon DEF Errors
<1>6. Compiled => (Kept' <=> Kept)
  BY <1>4, <1>5, Zenon DEF Kept
<1>7. ASSUME Kept'
      PROVE  /\ Current' = [m \in MachinesIn |-> DecodedFrom(data', m)]
             /\ Global' = data'[Selectors] /\ Did' = did' /\ Errors = {} /\ ~Unselected
  <2>1. Global' = data'[Selectors] /\ Did' = did'
    BY <1>3, <1>7 DEF Global, Did
  <2>2. Errors = {} /\ ~Unselected
    BY <1>4, <1>5, <1>7, Zenon DEF Kept
  <2>3. \A m : Decoded(m)' = DecodedFrom(data', m)
    BY <1>1, <1>3, DecodedLater
  <2>4. Current' = [m \in MachinesIn' |-> Decoded(m)']
    BY <1>7 DEF Current, MachinesIn
  <2> QED
    BY <1>4, <2>1, <2>2, <2>3, <2>4
<1> QED
  BY <1>1, <1>3, <1>4, <1>6, <1>7

(* The same before a step                                                   *)
LEMMA CurrentNow ==
  ASSUME Kept
  PROVE  /\ Current = [m \in MachinesIn |-> DecodedFrom(data, m)]
         /\ Global = data[Selectors] /\ Did = did
<1>1. \A m : Decoded(m) = DecodedFrom(data, m)
  BY Zenon DEF Decoded, DecodedFrom
<1> QED
  BY <1>1 DEF Current, MachinesIn, Global, Did

(* The program starts when it is compiled, in no state at all.              *)
LEMMA StartMaps ==
  ASSUME TablesInv, DefsInv, WrittenInv, Finish, Kept'
  PROVE  Promise!Start
<1>0. /\ TypeOK /\ AttachedInv /\ FiniteInv /\ StubsInv /\ DataInv /\ Selectors \in Nat
  BY SelectorsNat DEF DefsInv, WrittenInv
<1>1. /\ pass = "write" /\ pass' = "run" /\ UNCHANGED <<program, tables, symbols, address, did>>
      /\ data' = [k \in 0 .. Selectors |-> IF k = Selectors THEN GlobalValue ELSE 0]
  BY Zenon DEF Finish
<1>2. ~Kept /\ ~Compiled /\ Compiled' /\ did = Nothing
  BY <1>0, <1>1 DEF Kept, Compiled, DataInv
<1>3. Stage = "idle" /\ Global = GlobalValue /\ Did = Nothing /\ Current = [m \in MachinesIn |-> NoState]
  BY <1>2, NotKept
<1>4. Stage' = "running" /\ Did' = Nothing
  BY <1>1, <1>2 DEF Stage, Did
<1>5. UNCHANGED <<automata, states, address, attached, lists>>
  BY <1>1 DEF tables, symbols
<1>6. SameIds
  BY <1>1, <1>5, <1>0 DEF SameIds, TypeOK, Entries
<1>7. Stateful' = Stateful /\ Selectors' = Selectors /\ MachinesIn' = MachinesIn
  BY <1>0, <1>1, <1>6, SameLists, SameStubs, SameProgram
<1>8. Global' = GlobalValue
  <2>1. Global' = data'[Selectors']
    BY DEF Global
  <2> QED
    BY <1>0, <1>1, <1>7, <2>1
<1>9. Current' = [m \in MachinesIn |-> NoState]
  <2>1. \A m : Decoded(m)' = DecodedFrom(data', m)
    BY <1>5, <1>7, DecodedLater
  <2>2. Current' = [m \in MachinesIn' |-> Decoded(m)']
    BY DEF Current, MachinesIn
  <2>3. ASSUME NEW m \in MachinesIn PROVE DecodedFrom(data', m) = NoState
    <3>1. pass # "first"
      BY <1>1
    <3>2. PICK a \in automata : a.name = m
      BY <1>0, <3>1, MachineIn
    <3>3. ASSUME NEW s, In(a, s, data') PROVE FALSE
      <4>1. Stateful # {} /\ s \in states /\ s.value = data'[address[a.index]]
        BY <3>3, Zenon DEF In
      <4>2. address[a.index] \in 0 .. Selectors - 1
        BY <1>0, <3>1, <4>1, CellOf
      <4>3. data'[address[a.index]] = 0
        BY <1>0, <1>1, <4>2
      <4>4. s.value # 0
        BY <4>1 DEF TablesInv, StatesOK
      <4> QED
        BY <4>1, <4>3, <4>4
    <3> QED
      BY <3>2, <3>3, DecodedIs
  <2> QED
    BY <1>7, <2>1, <2>2, <2>3
<1>10. Promise!Start <=> Stage = "idle" /\ Stage' = "running" /\ UNCHANGED <<program, Current, Global, Did>>
  BY Zenon DEF Promise!Start, Stage, Current, Global, Did
<1> QED
  BY <1>1, <1>3, <1>4, <1>8, <1>9, <1>10

(* "state" changes one automaton and no other.                              *)
LEMMA EnterMaps ==
  ASSUME TablesInv, DefsInv, WrittenInv, Kept, NEW c \in program.changes, Enter(c)
  PROVE  Promise!Enter(c)
<1>0. /\ TypeOK /\ AttachedInv /\ FiniteInv /\ StubsInv /\ DataInv /\ Selectors \in Nat
      /\ Compiled /\ Errors = {} /\ ~Unselected /\ pass # "first"
  BY SelectorsNat DEF DefsInv, WrittenInv, Kept, Compiled
<1>1. /\ pass = "run" /\ UNCHANGED <<program, parser, tables, symbols, output>>
      /\ data' = [data EXCEPT ![setters[c].cell] = setters[c].value]
      /\ did' = <<EntryFunc, IF setters[c].entry = Stateless THEN {} ELSE Placed(EntryFunc, setters[c].entry)>>
  BY Zenon DEF Enter, Running
<1>2. pass' = pass /\ Compiled' /\ UNCHANGED <<program, tables, symbols, address, says>>
  BY <1>0, <1>1 DEF parser, output, Compiled
<1>3. Kept' /\ MachinesIn' = MachinesIn
  BY <1>0, <1>2, RunFacts
<1>4. Stage = "running" /\ Stage' = "running"
  BY <1>1, <1>2, <1>3 DEF Stage
<1>5. /\ Current' = [m \in MachinesIn |-> DecodedFrom(data', m)] /\ Global' = data'[Selectors] /\ Did' = did'
      /\ Current = [m \in MachinesIn |-> DecodedFrom(data, m)] /\ Global = data[Selectors]
  BY <1>0, <1>2, <1>3, RunFacts, CurrentNow
<1>6. PICK a, s : IsState(c, a, s) /\ setters[c] = Dostate(c)
  BY <1>0, SetterIs, Zenon
<1>7. /\ a \in automata /\ s \in states /\ a.name = c[1] /\ s.fsa = a.index /\ s.name = c[2]
  BY <1>6, Zenon DEF IsState
<1>8. data' = [data EXCEPT ![address[a.index]] = s.value] /\ data \in [0 .. Selectors -> Int]
  <2>1. setters[c].cell = address[a.index] /\ setters[c].value = s.value
    BY <1>6, SetterOf
  <2>2. data \in [0 .. Selectors -> Int]
    BY <1>0, Zenon DEF DataInv
  <2> QED
    BY <1>1, <2>1, <2>2, Zenon
<1>9. Stateful # {}
  BY <1>0, HasSelectors
<1>10. /\ address[a.index] \in 0 .. Selectors - 1
       /\ \A b \in automata : address[b.index] \in 0 .. Selectors - 1 /\ (b # a => address[b.index] # address[a.index])
  BY <1>0, <1>7, <1>9, CellOf
<1>11. data'[address[a.index]] = s.value /\ data'[Selectors] = data[Selectors]
       /\ \A b \in automata : b # a => data'[address[b.index]] = data[address[b.index]]
  BY <1>0, <1>8, <1>10
<1>12. DecodedFrom(data', c[1]) = c[2]
  <2>1. In(a, s, data')
    BY <1>7, <1>9, <1>11, Zenon DEF In
  <2> QED
    BY <1>7, <2>1, DecodedIs, Zenon
<1>13. ASSUME NEW m \in MachinesIn, m # c[1] PROVE DecodedFrom(data', m) = DecodedFrom(data, m)
  <2>1. PICK b \in automata : b.name = m
    BY <1>0, MachineIn
  <2>2. b # a
    BY <1>7, <1>13, <2>1
  <2>3. \A t : In(b, t, data') <=> In(b, t, data)
    BY <1>11, <2>2, Zenon DEF In
  <2>4. CASE \E t : In(b, t, data)
    <3>1. PICK t : In(b, t, data)
      BY <2>4
    <3>2. DecodedFrom(data, b.name) = t.name /\ DecodedFrom(data', b.name) = t.name
      BY <2>3, <3>1, DecodedIs, Zenon
    <3> QED
      BY <2>1, <3>2
  <2>5. CASE \A t : ~In(b, t, data)
    <3>1. DecodedFrom(data, b.name) = NoState /\ DecodedFrom(data', b.name) = NoState
      BY <2>3, <2>5, DecodedIs
    <3> QED
      BY <2>1, <3>1
  <2> QED
    BY <2>4, <2>5
<1>14. Current' = [Current EXCEPT ![c[1]] = c[2]]
  <2> DEFINE D(m) == DecodedFrom(data, m)
             E(m) == DecodedFrom(data', m)
  <2>1. \A m \in MachinesIn : E(m) = IF m = c[1] THEN c[2] ELSE D(m)
    BY <1>12, <1>13
  <2>2. Current = [m \in MachinesIn |-> D(m)] /\ Current' = [m \in MachinesIn |-> E(m)]
    BY <1>5
  <2> HIDE DEF D, E
  <2> QED
    BY <2>1, <2>2
<1>15. Did' = <<EntryFunc, {k \in Promise!Defs(program, EntryFunc) : c \in Promise!Pairs(program.defs[k])}>>
  <2>1. did' = <<EntryFunc, IF Dostate(c).entry = Stateless THEN {} ELSE Placed(EntryFunc, Dostate(c).entry)>>
    BY <1>1, <1>6, Zenon
  <2>2. (IF Dostate(c).entry = Stateless THEN {} ELSE Placed(EntryFunc, Dostate(c).entry)) = Lists(EntryFunc, a, s)
    BY <1>0, <1>6, EnterMeans
  <2>3. {k \in Promise!Defs(program, EntryFunc) : c \in Promise!Pairs(program.defs[k])} = Lists(EntryFunc, a, s)
    BY <1>0, <1>6, ChangeIsPair
  <2> QED
    BY <1>5, <2>1, <2>2, <2>3, Zenon
<1>16. Promise!EntryFunc = EntryFunc
  BY Zenon DEF Promise!EntryFunc, EntryFunc
<1>17. Promise!Enter(c) <=>
         /\ Stage = "running" /\ c \in program.changes /\ Current' = [Current EXCEPT ![c[1]] = c[2]]
         /\ Did' = <<EntryFunc, {k \in Promise!Defs(program, EntryFunc) : c \in Promise!Pairs(program.defs[k])}>>
         /\ program' = program /\ Stage' = Stage /\ Global' = Global
  BY <1>16, Zenon DEF Promise!Enter, Stage, Current, Global, Did
<1>18. program' = program /\ Global' = Global
  BY <1>1, <1>5, <1>11
<1> QED
  BY <1>4, <1>14, <1>15, <1>17, <1>18, Zenon

(* A call changes nothing, or stops the program.                            *)
LEMMA CallMaps ==
  ASSUME TablesInv, DefsInv, WrittenInv, Kept, NEW f \in program.calls, Call(f)
  PROVE  Promise!Call(f)
<1> DEFINE Impl == Promise!Implementation(program, f, Current)
<1>0. TypeOK /\ AttachedInv /\ Compiled
  BY DEF DefsInv, Kept
<1>1. pass = "run" /\ UNCHANGED <<program, tables, symbols, output, data>>
  BY Zenon DEF Call, Running
<1>2. PICK id \in Targets(f) : did' = <<f, Placed(f, id)>> /\ pass' = IF id \in {Nostate, Beyond} THEN "halted" ELSE "run"
  BY Zenon DEF Call
<1>3. Compiled' /\ UNCHANGED <<program, tables, symbols, address, says>>
  BY <1>1, <1>2 DEF output, Compiled
<1>4. Kept'
  BY <1>0, <1>3, RunFacts
<1>5. Placed(f, id) = Impl /\ (id \in {Nostate, Beyond} <=> Impl = {})
  BY CallMeans
<1> HIDE DEF Impl
<1>6. Did' = <<f, Impl>> /\ Did'[2] = Impl
  <2>1. Did' = did'
    BY <1>0, <1>3, <1>4, RunFacts
  <2> QED
    BY <1>2, <1>5, <2>1
<1>7. Stage = "running" /\ Stage' = IF Impl = {} THEN "halted" ELSE "running"
  BY <1>1, <1>2, <1>4, <1>5 DEF Stage
<1>8. Current' = Current /\ Global' = Global
  <2>1. /\ Current' = [m \in MachinesIn |-> DecodedFrom(data', m)] /\ Global' = data'[Selectors]
        /\ Current = [m \in MachinesIn |-> DecodedFrom(data, m)] /\ Global = data[Selectors]
    BY <1>0, <1>3, <1>4, RunFacts, CurrentNow
  <2> QED
    BY <1>1, <2>1
<1>9. Promise!Call(f) <=>
        /\ Stage = "running" /\ f \in program.calls /\ Did' = <<f, Impl>>
        /\ Stage' = IF Did'[2] = {} THEN "halted" ELSE "running"
        /\ program' = program /\ Current' = Current /\ Global' = Global
  BY Zenon DEF Promise!Call, Stage, Current, Global, Did, Impl
<1> QED
  BY <1>1, <1>6, <1>7, <1>8, <1>9

(* Every step                                                               *)
LEMMA StepMaps ==
  ASSUME TablesInv, DefsInv, WrittenInv, [Next]_vars
  PROVE  [Promise!Next]_<<program, Stage, Current, Global, Did>>
<1>0. TypeOK /\ AttachedInv /\ ItemInv /\ KnownInv
  BY DEF DefsInv
<1>1. program' = program
  BY <1>0, NextGrows
<1>2. CASE ~Kept /\ ~Kept'
  <2>1. MachinesIn' = MachinesIn
    BY <1>1, SameProgram
  <2> QED
    BY <1>1, <1>2, <2>1, NotKept
<1>3. CASE Finish /\ Kept'
  BY <1>3, StartMaps, Zenon DEF Promise!Next
<1>4. CASE (Item \/ Define \/ SecondPass \/ Finish) /\ ~(Finish /\ Kept')
  <2>1. pass \in {"first", "write"} /\ (Finish \/ pass' \in {"first", "write"})
    <3>1. CASE Item \/ Define
      <4>1. Parsing /\ pass' = pass
        BY <3>1, Zenon DEF Item, Define
      <4> QED
        BY <4>1 DEF Parsing
    <3>2. CASE SecondPass
      <4>1. pass = "first" /\ pass' = "write"
        BY <3>2, Zenon DEF SecondPass
      <4> QED
        BY <4>1
    <3>3. CASE Finish
      <4>1. pass = "write"
        BY <3>3, Zenon DEF Finish
      <4> QED
        BY <3>3, <4>1
    <3> QED
      BY <1>4, <3>1, <3>2, <3>3
  <2> QED
    BY <1>2, <1>4, <2>1 DEF Kept, Compiled
<1>5. ASSUME NEW c \in program.changes, Enter(c)
      PROVE  Promise!Enter(c) \/ (~Kept /\ ~Kept')
  <2>1. pass = "run" /\ UNCHANGED <<program, parser, tables, symbols, output>>
    BY <1>5, Zenon DEF Enter, Running
  <2>2. Compiled /\ Compiled' /\ UNCHANGED <<program, tables, symbols, address, says>>
    BY <2>1 DEF parser, output, Compiled
  <2> QED
    BY <1>0, <1>5, <2>2, RunFacts, EnterMaps
<1>6. ASSUME NEW f \in program.calls, Call(f)
      PROVE  Promise!Call(f) \/ (~Kept /\ ~Kept')
  <2>1. /\ pass = "run" /\ UNCHANGED <<program, tables, symbols, output>>
        /\ \E t : pass' = IF t \in {Nostate, Beyond} THEN "halted" ELSE "run"
    BY <1>6, Zenon DEF Call, Running
  <2>2. Compiled /\ Compiled' /\ UNCHANGED <<program, tables, symbols, address, says>>
    BY <2>1 DEF output, Compiled
  <2> QED
    BY <1>0, <1>6, <2>2, RunFacts, CallMaps
<1>7. CASE UNCHANGED vars
  <2>1. UNCHANGED <<program, pass, tables, symbols, address, says, data, did>>
    BY <1>7 DEF vars, parser, output, machine
  <2>2. CASE ~Compiled
    <3>1. ~Kept /\ ~Kept'
      BY <2>1, <2>2 DEF Kept, Compiled
    <3> QED
      BY <1>2, <3>1
  <2>3. CASE Compiled /\ Kept
    <3>1. Compiled'
      BY <2>1, <2>3 DEF Compiled
    <3>2. Kept'
      BY <1>0, <2>1, <2>3, <3>1, RunFacts
    <3>3. /\ Current' = [m \in MachinesIn |-> DecodedFrom(data', m)] /\ Global' = data'[Selectors] /\ Did' = did'
          /\ Current = [m \in MachinesIn |-> DecodedFrom(data, m)] /\ Global = data[Selectors] /\ Did = did
      BY <1>0, <2>1, <2>3, <3>1, <3>2, RunFacts, CurrentNow
    <3>4. Stage' = Stage
      BY <2>1, <2>3, <3>2 DEF Stage
    <3> QED
      BY <2>1, <3>3, <3>4
  <2>4. CASE Compiled /\ ~Kept
    <3>1. Compiled'
      BY <2>1, <2>4 DEF Compiled
    <3>2. ~Kept'
      BY <1>0, <2>1, <2>4, <3>1, RunFacts
    <3> QED
      BY <1>2, <2>4, <3>2
  <2> QED
    BY <2>2, <2>3, <2>4
<1>8. CASE \E c \in program.changes : Enter(c)
  <2>1. PICK c \in program.changes : Enter(c)
    BY <1>8
  <2>2. Promise!Enter(c) \/ (~Kept /\ ~Kept')
    BY <1>5, <2>1
  <2>3. CASE Promise!Enter(c)
    BY <2>3, Zenon DEF Promise!Next
  <2> QED
    BY <1>2, <2>2, <2>3
<1>9. CASE \E f \in program.calls : Call(f)
  <2>1. PICK f \in program.calls : Call(f)
    BY <1>9
  <2>2. Promise!Call(f) \/ (~Kept /\ ~Kept')
    BY <1>6, <2>1
  <2>3. CASE Promise!Call(f)
    BY <2>3, Zenon DEF Promise!Next
  <2> QED
    BY <1>2, <2>2, <2>3
<1> QED
  BY <1>3, <1>4, <1>7, <1>8, <1>9 DEF Next

(* A program that is compiled without errors runs as module Automata says:  *)
(* every call runs the implementation for the state its automaton was       *)
(* brought into last, whatever states the others are in, and "state" runs   *)
(* the entry function of that very state and touches nothing but its        *)
(* selector; getstates(), writeleader() and dostate().                      *)
THEOREM PromiseKept == Spec => KeepsPromise
<1>1. TablesInv /\ DefsInv /\ WrittenInv /\ [Next]_vars
      => [Promise!Next]_<<program, Stage, Current, Global, Did>>
  BY StepMaps
<1> QED
  BY <1>1, InitMaps, WrittenInvariant, PTL DEF Spec, KeepsPromise, Promise!Spec, Stage, Current, Global, Did
=============================================================================
