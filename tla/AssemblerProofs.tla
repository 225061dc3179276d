-------------------------- MODULE AssemblerProofs ---------------------------
(***************************************************************************)
(* Every step of the two passes keeps every part of GeneratorInv, for      *)
(* every program and every set of variables and functions; the assembler   *)
(* keeps its part of the invariant, and the finished image has the five    *)
(* properties of module Assembler. First what the operators of Generator   *)
(* and its actions do: the offsets of the assembler lines, the effect of   *)
(* each action on each variable, the lines it adds to the file, and where  *)
(* an object lies in a queue of cells. Then one lemma for each part of the *)
(* invariant; where a part has to be looked at action by action, one for   *)
(* each of those. The assembler comes last.                                *)
(***************************************************************************)
EXTENDS AssemblerInv, SequenceTheorems, WellFoundedInduction, TLAPS

(* A set of natural numbers that is not empty has a least element: what an *)
(* induction over the length of the file needs.                            *)
LEMMA LeastElement ==
  ASSUME NEW U \in SUBSET Nat, U # {}
  PROVE  \E x \in U : \A y \in U : x <= y
<1>1. IsWellFoundedOn(OpToRel(<, Nat), Nat)
  BY NatLessThanWellFounded
<1>2. PICK x \in U : \A y \in U : ~(<<y, x>> \in OpToRel(<, Nat))
  BY <1>1, WFMin, Zenon
<1>3. \A y \in U : ~(y < x)
  BY <1>2, Zenon DEF OpToRel
<1> QED
  BY <1>3

-----------------------------------------------------------------------------
(***************************************************************************)
(* Sums and offsets                                                        *)
(***************************************************************************)

(* The sums before each place of a sequence begin with zero and grow by    *)
(* one element at a time.                                                  *)
LEMMA BeforeFacts ==
  ASSUME NEW w \in Seq(Nat)
  PROVE  /\ Before(w) \in [0 .. Len(w) -> Nat]
         /\ Before(w)[0] = 0
         /\ \A m \in 1 .. Len(w) : Before(w)[m] = Before(w)[m - 1] + w[m]
<1> DEFINE Sums(n, g) == g[0] = 0 /\ \A m \in 1 .. n : g[m] = g[m - 1] + w[m]
           Summed(n) == \E g \in [0 .. n -> Nat] : Sums(n, g)
           U == {n \in 0 .. Len(w) : ~Summed(n)}
<1>1. Summed(0)
  <2>1. [i \in 0 .. 0 |-> 0] \in [0 .. 0 -> Nat] /\ Sums(0, [i \in 0 .. 0 |-> 0])
    OBVIOUS
  <2> QED
    BY <2>1
<1>2. ASSUME NEW n \in 0 .. Len(w), n > 0, Summed(n - 1) PROVE Summed(n)
  <2>1. PICK g \in [0 .. n - 1 -> Nat] : Sums(n - 1, g)
    BY <1>2
  <2> DEFINE h == [m \in 0 .. n |-> IF m = n THEN g[n - 1] + w[n] ELSE g[m]]
  <2>2. w[n] \in Nat /\ g[n - 1] \in Nat
    BY <1>2
  <2>3. h \in [0 .. n -> Nat]
    BY <2>2
  <2>4. Sums(n, h)
    BY <1>2, <2>1
  <2> QED
    BY <2>3, <2>4
<1> HIDE DEF Summed
<1>3. Summed(Len(w))
  <2> SUFFICES ASSUME ~Summed(Len(w)) PROVE FALSE
    OBVIOUS
  <2>1. U \in SUBSET Nat /\ Len(w) \in U
    OBVIOUS
  <2>2. PICK x \in U : \A y \in U : x <= y
    BY <2>1, LeastElement, Zenon
  <2>3. x > 0
    BY <1>1, <2>2
  <2>4. x - 1 \in 0 .. Len(w) /\ x - 1 \notin U
    BY <2>2, <2>3
  <2> QED
    BY <1>2, <2>2, <2>3, <2>4
<1>4. PICK g \in [0 .. Len(w) -> Nat] : Sums(Len(w), g)
  BY <1>3 DEF Summed
<1>5. g = [m \in 0 .. Len(w) |-> IF m = 0 THEN 0 ELSE g[m - 1] + w[m]]
  BY <1>4
<1>6. Before(w) = [m \in 0 .. Len(w) |-> IF m = 0 THEN 0 ELSE Before(w)[m - 1] + w[m]]
  BY <1>5, Zenon DEF Before
<1> QED
  <2> DEFINE b == Before(w)
  <2>1. b = [m \in 0 .. Len(w) |-> IF m = 0 THEN 0 ELSE b[m - 1] + w[m]]
    BY <1>6
  <2> HIDE DEF b
  <2>2. b[0] = 0 /\ \A m \in 1 .. Len(w) : b[m] = b[m - 1] + w[m]
    BY <2>1
  <2>3. b \in [0 .. Len(w) -> Nat]
    <3> DEFINE V == {n \in 0 .. Len(w) : b[n] \notin Nat}
    <3> SUFFICES ASSUME V # {} PROVE FALSE
      BY <2>1
    <3>1. PICK x \in V : \A y \in V : x <= y
      <4>1. V \in SUBSET Nat
        OBVIOUS
      <4> HIDE DEF V
      <4> QED
        BY <4>1, LeastElement, Zenon
    <3>2. x > 0 /\ x - 1 \in 0 .. Len(w) /\ x - 1 \notin V
      BY <2>2, <3>1
    <3> QED
      BY <2>2, <3>1, <3>2
  <2> QED
    BY <2>2, <2>3 DEF b

(* The sums do not decrease.                                               *)
LEMMA BeforeMonotone ==
  ASSUME NEW w \in Seq(Nat), NEW i \in 0 .. Len(w), NEW j \in i .. Len(w)
  PROVE  Before(w)[i] <= Before(w)[j]
<1> DEFINE b == Before(w)
           U == {n \in i .. Len(w) : ~(b[i] <= b[n])}
<1>1. /\ \A m \in 0 .. Len(w) : b[m] \in Nat
      /\ \A m \in 1 .. Len(w) : b[m] = b[m - 1] + w[m]
  <2>1. b \in [0 .. Len(w) -> Nat] /\ \A m \in 1 .. Len(w) : b[m] = b[m - 1] + w[m]
    BY BeforeFacts
  <2> QED
    BY <2>1
<1> HIDE DEF b
<1>2. U = {}
  <2> SUFFICES ASSUME U # {} PROVE FALSE
    OBVIOUS
  <2>1. U \in SUBSET Nat
    OBVIOUS
  <2>2. PICK x \in U : \A y \in U : x <= y
    BY <2>1, LeastElement, Zenon
  <2>3. b[i] \in Nat /\ x # i
    BY <1>1, <2>2
  <2>4. x > i /\ x - 1 \in i .. Len(w) /\ x - 1 \notin U
    BY <2>2, <2>3
  <2>5. x - 1 \in 0 .. Len(w) /\ x \in 1 .. Len(w)
    BY <2>4
  <2>6. w[x] \in Nat /\ b[x] = b[x - 1] + w[x] /\ b[x - 1] \in Nat
    BY <1>1, <2>5
  <2> QED
    BY <2>2, <2>3, <2>4, <2>6
<1> QED
  BY <1>2 DEF b

(* The sums at the places of a prefix are those of the prefix alone.       *)
LEMMA BeforePrefix ==
  ASSUME NEW w \in Seq(Nat), NEW x \in Seq(Nat), Len(w) <= Len(x),
         \A i \in 1 .. Len(w) : x[i] = w[i]
  PROVE  \A m \in 0 .. Len(w) : Before(x)[m] = Before(w)[m]
<1> DEFINE b == Before(w)
           c == Before(x)
           U == {n \in 0 .. Len(w) : c[n] # b[n]}
<1>1. b[0] = 0 /\ \A m \in 1 .. Len(w) : b[m] = b[m - 1] + w[m]
  BY BeforeFacts
<1>2. c[0] = 0 /\ \A m \in 1 .. Len(x) : c[m] = c[m - 1] + x[m]
  BY BeforeFacts
<1> HIDE DEF b, c
<1>3. U = {}
  <2> SUFFICES ASSUME U # {} PROVE FALSE
    OBVIOUS
  <2>1. U \in SUBSET Nat
    OBVIOUS
  <2>2. PICK u \in U : \A y \in U : u <= y
    BY <2>1, LeastElement, Zenon
  <2>3. u > 0 /\ u - 1 \in 0 .. Len(w) /\ u - 1 \notin U
    BY <1>1, <1>2, <2>2
  <2> QED
    BY <1>1, <1>2, <2>2, <2>3
<1> QED
  BY <1>3 DEF b, c

(* Behind a first sequence the sums go on from its total.                  *)
LEMMA BeforeConcat ==
  ASSUME NEW w \in Seq(Nat), NEW x \in Seq(Nat)
  PROVE  \A m \in 0 .. Len(x) : Before(w \o x)[Len(w) + m] = Before(w)[Len(w)] + Before(x)[m]
<1> DEFINE b == Before(w)[Len(w)]
           c == Before(x)
           d == Before(w \o x)
           U == {n \in 0 .. Len(x) : d[Len(w) + n] # b + c[n]}
<1>1. w \o x \in Seq(Nat) /\ Len(w \o x) = Len(w) + Len(x) /\ Len(w) \in Nat /\ Len(x) \in Nat
      /\ (\A i \in 1 .. Len(w) : (w \o x)[i] = w[i])
      /\ \A i \in 1 .. Len(x) : (w \o x)[Len(w) + i] = x[i]
  BY ConcatProperties
<1>2. d[Len(w)] = b
  <2>1. Len(w) <= Len(w \o x) /\ Len(w) \in 0 .. Len(w)
    BY <1>1
  <2>2. \A m \in 0 .. Len(w) : Before(w \o x)[m] = Before(w)[m]
    BY <1>1, <2>1, BeforePrefix
  <2> QED
    BY <2>1, <2>2
<1>3. b \in Nat
  BY BeforeFacts, <1>1
<1>4. c[0] = 0 /\ (\A m \in 1 .. Len(x) : c[m] = c[m - 1] + x[m])
      /\ \A m \in 0 .. Len(x) : c[m] \in Nat
  BY BeforeFacts
<1>5. \A m \in 1 .. Len(w) + Len(x) : d[m] = d[m - 1] + (w \o x)[m]
  BY <1>1, BeforeFacts
<1> HIDE DEF b, c, d
<1>6. U = {}
  <2> SUFFICES ASSUME U # {} PROVE FALSE
    OBVIOUS
  <2>1. U \in SUBSET Nat
    OBVIOUS
  <2>2. PICK u \in U : \A y \in U : u <= y
    BY <2>1, LeastElement, Zenon
  <2>3. u # 0
    BY <1>1, <1>2, <1>3, <1>4, <2>2
  <2>4. u - 1 \in 0 .. Len(x) /\ u - 1 \notin U /\ u \in 1 .. Len(x)
    BY <2>2, <2>3
  <2>5. d[Len(w) + (u - 1)] = b + c[u - 1]
    BY <2>4
  <2>6. d[Len(w) + u] = d[Len(w) + (u - 1)] + x[u]
    <3>1. Len(w) + u \in 1 .. Len(w) + Len(x) /\ (Len(w) + u) - 1 = Len(w) + (u - 1)
      BY <1>1, <2>4
    <3> QED
      BY <1>1, <1>5, <2>4, <3>1
  <2>7. c[u] = c[u - 1] + x[u] /\ c[u - 1] \in Nat /\ x[u] \in Nat
    BY <1>4, <2>4
  <2> QED
    BY <1>3, <2>2, <2>5, <2>6, <2>7
<1> QED
  BY <1>6 DEF b, c, d

(* A line of the assembler file gives a natural number of cells to the     *)
(* code and to the data.                                                   *)
LEMMA LineCells ==
  ASSUME NEW l \in Line
  PROVE  CodeCells(l) \in Nat /\ DataCells(l) \in Nat
BY DEF Line, CodeCells, DataCells, InCode

\* the cells of code of each line
CodeWeights(lines) == [i \in 1 .. Len(lines) |-> CodeCells(lines[i])]

\* the cells of data of each line
DataWeights(lines) == [i \in 1 .. Len(lines) |-> DataCells(lines[i])]

(* A function on 1 .. n is a sequence of length n.                         *)
LEMMA FunctionIsSeq ==
  ASSUME NEW S, NEW n \in Nat, NEW f \in [1 .. n -> S]
  PROVE  f \in Seq(S) /\ Len(f) = n
OBVIOUS

(* The cells of the lines, as sequences of numbers.                        *)
LEMMA Weights ==
  ASSUME NEW lines \in Seq(Line)
  PROVE  /\ CodeWeights(lines) \in Seq(Nat) /\ Len(CodeWeights(lines)) = Len(lines)
         /\ DataWeights(lines) \in Seq(Nat) /\ Len(DataWeights(lines)) = Len(lines)
         /\ CodeAt(lines) = Before(CodeWeights(lines))
         /\ DataAt(lines) = Before(DataWeights(lines))
         /\ \A i \in 1 .. Len(lines) : /\ CodeWeights(lines)[i] = CodeCells(lines[i])
                                       /\ DataWeights(lines)[i] = DataCells(lines[i])
<1>1. \A i \in 1 .. Len(lines) : CodeCells(lines[i]) \in Nat /\ DataCells(lines[i]) \in Nat
  BY LineCells
<1>2. CodeWeights(lines) \in [1 .. Len(lines) -> Nat] /\ DataWeights(lines) \in [1 .. Len(lines) -> Nat]
  BY <1>1 DEF CodeWeights, DataWeights
<1>3. Len(lines) \in Nat
  OBVIOUS
<1>4. /\ CodeWeights(lines) \in Seq(Nat) /\ Len(CodeWeights(lines)) = Len(lines)
      /\ DataWeights(lines) \in Seq(Nat) /\ Len(DataWeights(lines)) = Len(lines)
  BY <1>2, <1>3, FunctionIsSeq
<1> QED
  BY <1>4 DEF CodeWeights, DataWeights, CodeAt, DataAt

(* The offsets of the lines: both begin with zero, grow by the cells of    *)
(* each line and never decrease.                                           *)
LEMMA Offsets ==
  ASSUME NEW lines \in Seq(Line)
  PROVE  /\ \A m \in 0 .. Len(lines) : CodeAt(lines)[m] \in Nat /\ DataAt(lines)[m] \in Nat
         /\ CodeAt(lines)[0] = 0 /\ DataAt(lines)[0] = 0
         /\ \A m \in 1 .. Len(lines) :
              /\ CodeAt(lines)[m] = CodeAt(lines)[m - 1] + CodeCells(lines[m])
              /\ DataAt(lines)[m] = DataAt(lines)[m - 1] + DataCells(lines[m])
         /\ \A m \in 0 .. Len(lines) : \A n \in m .. Len(lines) :
              CodeAt(lines)[m] <= CodeAt(lines)[n] /\ DataAt(lines)[m] <= DataAt(lines)[n]
<1> DEFINE c == CodeWeights(lines)
           d == DataWeights(lines)
<1>1. /\ c \in Seq(Nat) /\ Len(c) = Len(lines) /\ d \in Seq(Nat) /\ Len(d) = Len(lines)
      /\ CodeAt(lines) = Before(c) /\ DataAt(lines) = Before(d)
      /\ \A i \in 1 .. Len(lines) : c[i] = CodeCells(lines[i]) /\ d[i] = DataCells(lines[i])
  BY Weights
<1> HIDE DEF c, d
<1>2. /\ Before(c) \in [0 .. Len(lines) -> Nat] /\ Before(d) \in [0 .. Len(lines) -> Nat]
      /\ Before(c)[0] = 0 /\ Before(d)[0] = 0
      /\ \A m \in 1 .. Len(lines) : Before(c)[m] = Before(c)[m - 1] + c[m]
      /\ \A m \in 1 .. Len(lines) : Before(d)[m] = Before(d)[m - 1] + d[m]
  BY <1>1, BeforeFacts
<1>3. \A m \in 0 .. Len(lines) : \A n \in m .. Len(lines) :
        Before(c)[m] <= Before(c)[n] /\ Before(d)[m] <= Before(d)[n]
  BY <1>1, BeforeMonotone
<1> QED
  BY <1>1, <1>2, <1>3

(* A sequence that agrees with u and then with v is their concatenation.   *)
LEMMA ConcatEqual ==
  ASSUME NEW S, NEW u \in Seq(S), NEW v \in Seq(S), NEW w \in Seq(S),
         Len(w) = Len(u) + Len(v),
         \A i \in 1 .. Len(u) : w[i] = u[i],
         \A i \in 1 .. Len(v) : w[Len(u) + i] = v[i]
  PROVE  w = u \o v
<1>1. /\ u \o v \in Seq(S) /\ Len(u \o v) = Len(u) + Len(v)
      /\ \A i \in 1 .. Len(u) + Len(v) :
           (u \o v)[i] = IF i <= Len(u) THEN u[i] ELSE v[i - Len(u)]
  BY ConcatProperties
<1>2. \A i \in 1 .. Len(w) : (u \o v)[i] = w[i]
  <2> TAKE i \in 1 .. Len(w)
  <2>1. i \in 1 .. Len(u) + Len(v) /\ Len(u) \in Nat /\ Len(v) \in Nat
    OBVIOUS
  <2>2. CASE i <= Len(u)
    BY <1>1, <2>1, <2>2
  <2>3. CASE i > Len(u)
    <3>1. i - Len(u) \in 1 .. Len(v) /\ Len(u) + (i - Len(u)) = i
      BY <2>1, <2>3
    <3>2. w[i] = v[i - Len(u)]
      BY <3>1
    <3> QED
      BY <1>1, <2>1, <2>3, <3>2
  <2> QED
    BY <2>1, <2>2, <2>3
<1> QED
  BY <1>1, <1>2, SeqEqual

(* The sums of such a sequence, by those of its two parts.                 *)
LEMMA BeforeSplit ==
  ASSUME NEW u \in Seq(Nat), NEW v \in Seq(Nat), NEW w \in Seq(Nat),
         Len(w) = Len(u) + Len(v),
         \A i \in 1 .. Len(u) : w[i] = u[i],
         \A i \in 1 .. Len(v) : w[Len(u) + i] = v[i]
  PROVE  /\ \A m \in 0 .. Len(u) : Before(w)[m] = Before(u)[m]
         /\ \A m \in 0 .. Len(v) : Before(w)[Len(u) + m] = Before(u)[Len(u)] + Before(v)[m]
<1>1. w = u \o v
  BY ConcatEqual
<1>2. Len(u) <= Len(w)
  OBVIOUS
<1> QED
  BY <1>1, <1>2, BeforePrefix, BeforeConcat

(* Lines appended to a file leave the offsets before them alone, and have  *)
(* their own behind its sums.                                              *)
LEMMA OffsetsConcat ==
  ASSUME NEW s \in Seq(Line), NEW t \in Seq(Line)
  PROVE  /\ s \o t \in Seq(Line)
         /\ \A m \in 0 .. Len(s) : CodeAt(s \o t)[m] = CodeAt(s)[m] /\ DataAt(s \o t)[m] = DataAt(s)[m]
         /\ \A m \in 0 .. Len(t) : /\ CodeAt(s \o t)[Len(s) + m] = CodeSum(s) + CodeAt(t)[m]
                                   /\ DataAt(s \o t)[Len(s) + m] = DataSum(s) + DataAt(t)[m]
         /\ CodeSum(s \o t) = CodeSum(s) + CodeSum(t)
         /\ DataSum(s \o t) = DataSum(s) + DataSum(t)
<1>1. /\ s \o t \in Seq(Line) /\ Len(s \o t) = Len(s) + Len(t) /\ Len(s) \in Nat /\ Len(t) \in Nat
      /\ (\A i \in 1 .. Len(s) : (s \o t)[i] = s[i])
      /\ \A i \in 1 .. Len(t) : (s \o t)[Len(s) + i] = t[i]
  BY ConcatProperties
<1>3. /\ \A m \in 0 .. Len(s) : CodeAt(s \o t)[m] = CodeAt(s)[m]
      /\ \A m \in 0 .. Len(t) : CodeAt(s \o t)[Len(s) + m] = CodeSum(s) + CodeAt(t)[m]
  <2>1. \A i \in 1 .. Len(s) : CodeWeights(s \o t)[i] = CodeWeights(s)[i]
    BY <1>1 DEF CodeWeights
  <2>2. \A i \in 1 .. Len(t) : CodeWeights(s \o t)[Len(s) + i] = CodeWeights(t)[i]
    BY <1>1 DEF CodeWeights
  <2>3. /\ CodeWeights(s) \in Seq(Nat) /\ CodeWeights(t) \in Seq(Nat) /\ CodeWeights(s \o t) \in Seq(Nat)
        /\ Len(CodeWeights(s)) = Len(s) /\ Len(CodeWeights(t)) = Len(t)
        /\ Len(CodeWeights(s \o t)) = Len(s) + Len(t)
        /\ CodeAt(s) = Before(CodeWeights(s)) /\ CodeAt(t) = Before(CodeWeights(t))
        /\ CodeAt(s \o t) = Before(CodeWeights(s \o t))
    BY <1>1, Weights
  <2> DEFINE u == CodeWeights(s)
             v == CodeWeights(t)
             w == CodeWeights(s \o t)
  <2> HIDE DEF u, v, w
  <2>4. /\ u \in Seq(Nat) /\ v \in Seq(Nat) /\ w \in Seq(Nat)
        /\ Len(w) = Len(u) + Len(v)
        /\ \A i \in 1 .. Len(u) : w[i] = u[i]
        /\ \A i \in 1 .. Len(v) : w[Len(u) + i] = v[i]
    BY <2>1, <2>2, <2>3 DEF u, v, w
  <2>5. /\ \A m \in 0 .. Len(u) : Before(w)[m] = Before(u)[m]
        /\ \A m \in 0 .. Len(v) : Before(w)[Len(u) + m] = Before(u)[Len(u)] + Before(v)[m]
    BY <2>4, BeforeSplit
  <2> QED
    BY <2>3, <2>5 DEF CodeSum, u, v, w
<1>4. /\ \A m \in 0 .. Len(s) : DataAt(s \o t)[m] = DataAt(s)[m]
      /\ \A m \in 0 .. Len(t) : DataAt(s \o t)[Len(s) + m] = DataSum(s) + DataAt(t)[m]
  <2>1. \A i \in 1 .. Len(s) : DataWeights(s \o t)[i] = DataWeights(s)[i]
    BY <1>1 DEF DataWeights
  <2>2. \A i \in 1 .. Len(t) : DataWeights(s \o t)[Len(s) + i] = DataWeights(t)[i]
    BY <1>1 DEF DataWeights
  <2>3. /\ DataWeights(s) \in Seq(Nat) /\ DataWeights(t) \in Seq(Nat) /\ DataWeights(s \o t) \in Seq(Nat)
        /\ Len(DataWeights(s)) = Len(s) /\ Len(DataWeights(t)) = Len(t)
        /\ Len(DataWeights(s \o t)) = Len(s) + Len(t)
        /\ DataAt(s) = Before(DataWeights(s)) /\ DataAt(t) = Before(DataWeights(t))
        /\ DataAt(s \o t) = Before(DataWeights(s \o t))
    BY <1>1, Weights
  <2> DEFINE u == DataWeights(s)
             v == DataWeights(t)
             w == DataWeights(s \o t)
  <2> HIDE DEF u, v, w
  <2>4. /\ u \in Seq(Nat) /\ v \in Seq(Nat) /\ w \in Seq(Nat)
        /\ Len(w) = Len(u) + Len(v)
        /\ \A i \in 1 .. Len(u) : w[i] = u[i]
        /\ \A i \in 1 .. Len(v) : w[Len(u) + i] = v[i]
    BY <2>1, <2>2, <2>3 DEF u, v, w
  <2>5. /\ \A m \in 0 .. Len(u) : Before(w)[m] = Before(u)[m]
        /\ \A m \in 0 .. Len(v) : Before(w)[Len(u) + m] = Before(u)[Len(u)] + Before(v)[m]
    BY <2>4, BeforeSplit
  <2> QED
    BY <2>3, <2>5 DEF DataSum, u, v, w
<1>5. CodeSum(s \o t) = CodeSum(s) + CodeSum(t) /\ DataSum(s \o t) = DataSum(s) + DataSum(t)
  BY <1>1, <1>3, <1>4 DEF CodeSum, DataSum
<1> QED
  BY <1>1, <1>3, <1>4, <1>5

-----------------------------------------------------------------------------
(***************************************************************************)
(* The makers of cells, objects and lines                                  *)
(***************************************************************************)

(* What a token is about is of the kind its operation calls for: a         *)
(* variable to declare or to use, a function to define or to call.         *)
LEMMA TokenFacts ==
  ASSUME GTypeOK, NEW i \in 1 .. Len(program)
  PROVE  /\ program[i].op \in {"align", "end", "while", "endwhile", "literal", "static",
                               "global", "use", "call", "function"}
         /\ program[i].op \in {"global", "use"} => program[i].of \in Vars
         /\ program[i].op \in {"call", "function"} => program[i].of \in Funcs
         /\ program[i].op = "function" => program[i].default \in Vars \cup {ArrayDefault, None}
<1>1. program[i] \in Token
  BY DEF GTypeOK
<1> QED
  BY <1>1 DEF Token

(* writetrailer() pads to a multiple of the alignment.                     *)
LEMMA Aligned ==
  ASSUME NEW n \in Nat
  PROVE  /\ ToAlign(n) \in Nat /\ ToAlign(n) < DataAlign
         /\ (n + ToAlign(n)) % DataAlign = 0
<1>1. DataAlign \in Nat \ {0}
  BY GeneratorAssumption
<1> DEFINE r == n % DataAlign
           q == n \div DataAlign
<1>2. r \in 0 .. DataAlign - 1 /\ q \in Nat /\ n = DataAlign * q + r
  BY <1>1
<1>3. ToAlign(n) = IF r = 0 THEN 0 ELSE DataAlign - r
  <2>1. CASE r = 0
    BY <1>1, <2>1 DEF ToAlign
  <2>2. CASE r # 0
    <3>1. DataAlign - r \in 0 .. DataAlign - 1
      BY <1>1, <1>2, <2>2
    <3>2. (DataAlign - r) % DataAlign = DataAlign - r
      BY <1>1, <3>1
    <3> QED
      BY <2>2, <3>2 DEF ToAlign
  <2> QED
    BY <2>1, <2>2
<1> HIDE DEF r, q
<1>4. CASE r = 0
  <2>1. n + ToAlign(n) = n
    BY <1>3, <1>4
  <2> QED
    BY <1>1, <1>3, <1>4, <2>1 DEF r
<1>5. CASE r # 0
  <2>1. n + ToAlign(n) = DataAlign * (q + 1)
    BY <1>1, <1>2, <1>3, <1>5
  <2>2. (DataAlign * (q + 1)) % DataAlign = 0
    BY <1>1, <1>2
  <2> QED
    BY <1>1, <1>2, <1>3, <1>5, <2>1, <2>2
<1> QED
  BY <1>4, <1>5

(* Cells() makes as many cells as it is told to.                           *)
LEMMA CellsTyped ==
  ASSUME NEW object \in Object, NEW n \in Nat
  PROVE  /\ Cells(object, n) \in Seq(Cell) /\ Len(Cells(object, n)) = n
         /\ \A k \in 1 .. n : Cells(object, n)[k] = [of |-> object, k |-> k - 1]
<1>1. \A k \in 1 .. n : [of |-> object, k |-> k - 1] \in Cell
  BY DEF Cell
<1>2. Cells(object, n) \in [1 .. n -> Cell]
  BY <1>1 DEF Cells
<1> QED
  BY <1>2, FunctionIsSeq DEF Cells

(* The four makers of objects make objects.                                *)
LEMMA ObjectTypes ==
  /\ \A v \in Vars : Variable(v) \in Object /\ Named(v) \in Object
  /\ \A i \in Nat : Literal(i) \in Object
  /\ \A f \in Funcs : Default(f) \in Object
  /\ Padding \in Object
BY DEF Object, Variable, Named, Literal, Default, Padding

(* The makers of assembler lines make lines.                               *)
LEMMA LineTypes ==
  /\ \A n \in Nat : Instr(n) \in Line /\ Jump(n) \in Line /\ Label(n) \in Line
  /\ \A f \in Funcs : Proc(f) \in Line /\ CallTo(f) \in Line
  /\ \A object \in Object, a \in Int : Address(object, a) \in Line /\ LdConst(object, a) \in Line
  /\ \A cells \in Seq(Cell) : Dump(cells) \in Line /\ Dumped(cells) \in Seq(Line)
<1>1. \A n \in Nat : Instr(n) \in Line /\ Jump(n) \in Line /\ Label(n) \in Line
  BY DEF Line, Instr, Jump, Label
<1>2. \A f \in Funcs : Proc(f) \in Line /\ CallTo(f) \in Line
  BY DEF Line, Proc, CallTo
<1>3. \A object \in Object, a \in Int : Address(object, a) \in Line /\ LdConst(object, a) \in Line
  BY DEF Line, Address, LdConst
<1>4. \A cells \in Seq(Cell) : Dump(cells) \in Line
  BY DEF Line, Dump
<1>5. \A cells \in Seq(Cell) : Dumped(cells) \in Seq(Line)
  BY <1>4 DEF Dumped
<1> QED
  BY <1>1, <1>2, <1>3, <1>4, <1>5

-----------------------------------------------------------------------------
(***************************************************************************)
(* What each action does, variable by variable: the actions without their  *)
(* LET definitions, and with the facts the guard gives.                    *)
(***************************************************************************)

\* the step appends these lines to the file
Grown(new) == new \in Seq(Line) /\ asm' = asm \o new

\* what filewrite() lets through
Filed(status, lines) == IF status = "write" THEN lines ELSE <<>>

\* the padding of an aligned declaration at address n
Pad(n) == IF sc_alignnext THEN Cells(Padding, ToAlign(n)) ELSE <<>>

\* the lines each action hands to filewrite()
GlobalLines == Dumped(Pad(glb_declared)) \o Dumped(Cells(Variable(token.of), CellsOf[token.of]))
FunctionLines == <<Proc(token.of)>> \o (IF sc_alignnext THEN <<Instr(9)>> ELSE <<>>)
EndLines == <<Instr(1), Instr(1)>> \o Dumped(litq)
UseLine == Address(Variable(token.of), addr[token.of])
LiteralLine == LdConst(Literal(pos), litidx + glb_declared)
StaticLine == Address(Literal(pos), litidx + Len(Pad(glb_declared + litidx)) + glb_declared)
ArgAddr == IF Places(token.of) THEN litidx + glb_declared ELSE defaddr[token.of]
ArgObject == IF default[token.of] = ArrayDefault THEN Default(token.of) ELSE Named(default[token.of])
ArgLines == IF default[token.of] = None THEN <<>> ELSE <<LdConst(ArgObject, ArgAddr), Instr(1)>>
CallLines == ArgLines \o <<Instr(2), CallTo(token.of)>>
TrailerLines == [i \in 1 .. ToAlign(code_idx) |-> Instr(1)] \o Dumped(Cells(Padding, ToAlign(glb_declared)))

(* A sequence without its last element: the stack of the open loops after  *)
(* one of them is closed.                                                  *)
LEMMA DropLast ==
  ASSUME NEW S, NEW s \in Seq(S), s # <<>>
  PROVE  /\ SubSeq(s, 1, Len(s) - 1) \in Seq(S) /\ Len(SubSeq(s, 1, Len(s) - 1)) = Len(s) - 1
         /\ \A n \in 1 .. Len(s) - 1 : SubSeq(s, 1, Len(s) - 1)[n] = s[n]
<1> DEFINE k == Len(s) - 1
<1>1. k \in Int /\ k >= 0 /\ 1 \in Int /\ \A i \in 1 .. k : s[i] \in S
  OBVIOUS
<1> HIDE DEF k
<1>2. /\ SubSeq(s, 1, k) \in Seq(S)
      /\ Len(SubSeq(s, 1, k)) = IF 1 <= k THEN k - 1 + 1 ELSE 0
      /\ \A i \in 1 .. k - 1 + 1 : SubSeq(s, 1, k)[i] = s[1 + i - 1]
  BY <1>1, SubSeqProperties
<1>3. Len(SubSeq(s, 1, k)) = k /\ \A i \in 1 .. k : SubSeq(s, 1, k)[i] = s[i]
  <2>1. k - 1 + 1 = k /\ \A i \in 1 .. k : 1 + i - 1 = i
    BY <1>1
  <2> QED
    BY <1>1, <1>2, <2>1
<1> QED
  BY <1>2, <1>3 DEF k

(* The assumption on the constants, part by part.                          *)
LEMMA Sizes ==
  /\ LitSize \in Nat \ {0} /\ \A v \in Vars : CellsOf[v] \in Nat \ {0}
  /\ Roots \subseteq Funcs /\ Vars \cap Funcs = {}
  /\ None \notin Funcs \cup Vars /\ ArrayDefault \notin Vars \cup {None}
BY GeneratorAssumption

(* Every action that parses a token is at a legal token of that kind and   *)
(* moves one token on.                                                     *)
LEMMA Progress ==
  ASSUME GTypeOK, NEW op, Parsing(op)
  PROVE  /\ program' = program /\ phase = "parse" /\ phase' = "parse" /\ pos' = pos + 1 /\ pos \in Nat
         /\ pos + 1 \in 1 .. Len(program) /\ token = program[pos + 1] /\ token.op = op /\ Legal(token)
         /\ op \in {"global", "use"} => token.of \in Vars
         /\ op \in {"call", "function"} => token.of \in Funcs
         /\ op = "function" => token.default \in Vars \cup {ArrayDefault, None}
<1>1. /\ program' = program /\ phase = "parse" /\ phase' = "parse" /\ pos' = pos + 1
      /\ pos < Len(program) /\ program[pos + 1].op = op /\ Legal(program[pos + 1])
  BY DEF Parsing
<1>2. pos \in 0 .. Len(program) /\ Len(program) \in Nat
  BY DEF GTypeOK
<1>3. pos + 1 \in 1 .. Len(program) /\ pos \in Nat
  BY <1>1, <1>2
<1> QED
  BY <1>1, <1>3, TokenFacts DEF token

(* The padding of an aligned declaration consists of cells.                *)
LEMMA PadTyped ==
  ASSUME NEW n \in Nat
  PROVE  Pad(n) \in Seq(Cell)
<1>1. Cells(Padding, ToAlign(n)) \in Seq(Cell)
  BY Aligned, CellsTyped, ObjectTypes
<1> QED
  BY <1>1 DEF Pad

(* filewrite() appends lines or leaves the file alone, by the status.      *)
LEMMA GrownBy ==
  ASSUME asm \in Seq(Line), NEW status, NEW lines \in Seq(Line), asm' = Written(status, lines)
  PROVE  Grown(Filed(status, lines))
<1>1. CASE status = "write"
  BY <1>1 DEF Grown, Filed, Written
<1>2. CASE status # "write"
  <2>1. asm' = asm /\ Filed(status, lines) = <<>>
    BY <1>2 DEF Filed, Written
  <2>2. asm \o <<>> = asm
    BY ConcatEmptySeq
  <2> QED
    BY <2>1, <2>2 DEF Grown
<1> QED
  BY <1>1, <1>2

(* declglb(), variable by variable: what a global declaration does to each *)
(* part of the state.                                                      *)
LEMMA GlobalEffect ==
  ASSUME GTypeOK, DeclGlb
  PROVE  /\ Parsing("global") /\ token.of \in Vars /\ GlobalLines \in Seq(Line)
         /\ Grown(Filed(IF token.of \in used THEN sc_status
                        ELSE IF sc_status = "write" THEN "skip" ELSE sc_status, GlobalLines))
         /\ addr' = [addr EXCEPT ![token.of] = glb_declared]
         /\ defined' = defined \cup {token.of}
         /\ glb_declared' = IF sc_status = "write" /\ token.of \notin used THEN glb_declared
                            ELSE glb_declared + CellsOf[token.of]
         /\ sc_alignnext' = FALSE
         /\ UNCHANGED <<sc_status, used, prototyped, refer, default, defaddr,
                        code_idx, sc_labnum, litq, curfunc, saved, wq>>
<1>1. Parsing("global")
  BY DEF DeclGlb
<1>2. token.of \in Vars
  BY <1>1, Progress
<1>3. GlobalLines \in Seq(Line)
  <2>1. Pad(glb_declared) \in Seq(Cell)
    BY PadTyped DEF GTypeOK
  <2>2. Cells(Variable(token.of), CellsOf[token.of]) \in Seq(Cell)
    BY <1>2, Sizes, CellsTyped, ObjectTypes
  <2> QED
    BY <2>1, <2>2, LineTypes, ConcatProperties DEF GlobalLines
<1>4. /\ asm' = Written(IF sc_status = "write" /\ token.of \notin used THEN "skip" ELSE sc_status, GlobalLines)
      /\ addr' = [addr EXCEPT ![token.of] = glb_declared]
      /\ defined' = defined \cup {token.of}
      /\ glb_declared' = IF sc_status = "write" /\ token.of \notin used THEN glb_declared
                         ELSE glb_declared + CellsOf[token.of]
  BY Zenon DEF DeclGlb, GlobalLines, Pad
<1>5. Grown(Filed(IF sc_status = "write" /\ token.of \notin used THEN "skip" ELSE sc_status, GlobalLines))
  BY <1>3, <1>4, GrownBy, Zenon DEF GTypeOK
<1>6. sc_alignnext' = FALSE
      /\ UNCHANGED <<sc_status, used, prototyped, refer, default, defaddr,
                     code_idx, sc_labnum, litq, curfunc, saved, wq>>
  BY DEF DeclGlb
<1> QED
  BY <1>1, <1>2, <1>3, <1>4, <1>5, <1>6

(* newfunc() up to the body, variable by variable.                         *)
LEMMA FunctionEffect ==
  ASSUME GTypeOK, NewFunc
  PROVE  /\ Parsing("function") /\ token.of \in Funcs
         /\ token.default \in Vars \cup {ArrayDefault, None}
         /\ FunctionLines \in Seq(Line) /\ Grown(Filed(sc_status', FunctionLines))
         /\ used' = used \cup ({token.of} \cap Roots)
                         \cup (IF sc_status = "write" THEN {token.default} \cap Vars ELSE {})
         /\ sc_status' = IF sc_status = "write" /\ token.of \notin used' THEN "skip" ELSE sc_status
         /\ saved' = IF sc_status = "write" /\ token.of \notin used'
                     THEN [code |-> code_idx, data |-> glb_declared] ELSE saved
         /\ addr' = [addr EXCEPT ![token.of] = code_idx]
         /\ prototyped' = prototyped \cup {token.of}
         /\ default' = IF token.of \in prototyped THEN default
                       ELSE [default EXCEPT ![token.of] = token.default]
         /\ defaddr' = IF token.of \in prototyped THEN defaddr
                       ELSE [defaddr EXCEPT ![token.of] =
                               IF token.default \in Vars THEN addr[token.default] ELSE -1]
         /\ defined' = defined \cup {token.of} /\ curfunc' = token.of
         /\ code_idx' = code_idx + 1 + (IF sc_alignnext THEN 9 ELSE 0)
         /\ sc_alignnext' = FALSE
         /\ UNCHANGED <<refer, glb_declared, sc_labnum, litq, wq>>
<1>1. Parsing("function")
  BY DEF NewFunc
<1>2. token.of \in Funcs /\ token.default \in Vars \cup {ArrayDefault, None}
  BY <1>1, Progress
<1>3. FunctionLines \in Seq(Line)
  BY <1>2, LineTypes, ConcatProperties DEF FunctionLines
<1>4. /\ used' = used \cup ({token.of} \cap Roots)
                     \cup (IF sc_status = "write" THEN {token.default} \cap Vars ELSE {})
      /\ sc_status' = IF sc_status = "write" /\ token.of \notin used' THEN "skip" ELSE sc_status
      /\ saved' = IF sc_status = "write" /\ token.of \notin used'
                  THEN [code |-> code_idx, data |-> glb_declared] ELSE saved
      /\ asm' = Written(sc_status', FunctionLines)
  BY Zenon DEF NewFunc, FunctionLines
<1>5. /\ addr' = [addr EXCEPT ![token.of] = code_idx]
      /\ defined' = defined \cup {token.of} /\ curfunc' = token.of
      /\ code_idx' = code_idx + 1 + (IF sc_alignnext THEN 9 ELSE 0)
      /\ sc_alignnext' = FALSE
      /\ UNCHANGED <<refer, glb_declared, sc_labnum, litq, wq>>
      /\ DeclArgs(token.of, token.default)
  BY Zenon DEF NewFunc
<1>6. Grown(Filed(sc_status', FunctionLines))
  BY <1>3, <1>4, GrownBy, Zenon DEF GTypeOK
<1>7. /\ prototyped' = prototyped \cup {token.of}
      /\ default' = IF token.of \in prototyped THEN default
                    ELSE [default EXCEPT ![token.of] = token.default]
      /\ defaddr' = IF token.of \in prototyped THEN defaddr
                    ELSE [defaddr EXCEPT ![token.of] =
                            IF token.default \in Vars THEN addr[token.default] ELSE -1]
  BY <1>5, Zenon DEF DeclArgs
<1> QED
  BY <1>1, <1>2, <1>3, <1>4, <1>5, <1>6, <1>7

(* newfunc() after the body, variable by variable.                         *)
LEMMA EndEffect ==
  ASSUME GTypeOK, EndFunc
  PROVE  /\ Parsing("end") /\ EndLines \in Seq(Line) /\ Grown(Filed(sc_status, EndLines))
         /\ curfunc # None /\ wq = <<>>
         /\ litq' = <<>> /\ curfunc' = None
         /\ sc_status' = IF sc_status = "skip" THEN "write" ELSE sc_status
         /\ code_idx' = IF sc_status = "skip" THEN saved.code ELSE code_idx + 2
         /\ glb_declared' = IF sc_status = "skip" THEN saved.data ELSE glb_declared + litidx
         /\ UNCHANGED <<used, defined, prototyped, refer, addr, default, defaddr,
                        sc_labnum, sc_alignnext, saved, wq>>
<1>1. /\ Parsing("end") /\ litq' = <<>> /\ curfunc' = None /\ Settle
      /\ asm' = Written(sc_status, EndLines)
      /\ UNCHANGED <<symbols, sc_labnum, sc_alignnext, saved, wq>>
  BY Zenon DEF EndFunc, EndLines
<1>2. EndLines \in Seq(Line)
  <2>1. <<Instr(1), Instr(1)>> \in Seq(Line) /\ Dumped(litq) \in Seq(Line)
    BY LineTypes DEF GTypeOK
  <2> QED
    BY <2>1, ConcatProperties DEF EndLines
<1>3. Grown(Filed(sc_status, EndLines))
  BY <1>1, <1>2, GrownBy, Zenon DEF GTypeOK
<1>4. curfunc # None /\ wq = <<>>
  <2>1. Legal(token) /\ token.op = "end"
    BY <1>1, Progress
  <2> QED
    BY <2>1 DEF Legal
<1>5. /\ sc_status' = IF sc_status = "skip" THEN "write" ELSE sc_status
      /\ code_idx' = IF sc_status = "skip" THEN saved.code ELSE code_idx + 2
      /\ glb_declared' = IF sc_status = "skip" THEN saved.data ELSE glb_declared + litidx
  BY <1>1 DEF Settle
<1> QED
  BY <1>1, <1>2, <1>3, <1>4, <1>5 DEF symbols

(* A global variable in an expression, variable by variable.               *)
LEMMA UseEffect ==
  ASSUME GTypeOK, Use
  PROVE  /\ Parsing("use") /\ token.of \in Vars /\ token.of \in defined /\ curfunc # None
         /\ <<UseLine>> \in Seq(Line) /\ Grown(Filed(sc_status, <<UseLine>>))
         /\ code_idx' = code_idx + 2
         /\ used' = used \cup {token.of}
         /\ refer' = [refer EXCEPT ![token.of] = refer[token.of] \cup {curfunc}]
         /\ UNCHANGED <<sc_status, defined, prototyped, addr, default, defaddr,
                        glb_declared, sc_labnum, sc_alignnext, litq, curfunc, saved, wq>>
<1>1. /\ Parsing("use")
      /\ asm' = Written(sc_status, <<UseLine>>) /\ code_idx' = code_idx + 2
      /\ Mark(token.of)
      /\ UNCHANGED <<sc_status, defined, prototyped, addr, default, defaddr,
                     glb_declared, sc_labnum, sc_alignnext, litq, curfunc, saved, wq>>
  BY Zenon DEF Use, UseLine, Emit
<1>2. token.of \in Vars /\ token.op = "use" /\ Legal(token)
  BY <1>1, Progress
<1>3. token.of \in defined /\ curfunc # None
  BY <1>2 DEF Legal
<1>4. <<UseLine>> \in Seq(Line)
  <2>1. addr[token.of] \in Int
    BY <1>2 DEF GTypeOK
  <2> QED
    BY <1>2, <2>1, LineTypes, ObjectTypes DEF UseLine
<1>5. Grown(Filed(sc_status, <<UseLine>>))
  BY <1>1, <1>4, GrownBy, Zenon DEF GTypeOK
<1>6. used' = used \cup {token.of} /\ refer' = [refer EXCEPT ![token.of] = refer[token.of] \cup {curfunc}]
  BY <1>1, <1>3 DEF Mark
<1> QED
  BY <1>1, <1>2, <1>3, <1>4, <1>5, <1>6

(* A literal in an expression, variable by variable.                       *)
LEMMA LiteralEffect ==
  ASSUME GTypeOK, PlaceLiteral
  PROVE  /\ Parsing("literal") /\ curfunc # None
         /\ <<LiteralLine>> \in Seq(Line) /\ Grown(Filed(sc_status, <<LiteralLine>>))
         /\ code_idx' = code_idx + (IF litidx + glb_declared = 0 THEN 1 ELSE 2)
         /\ Cells(Literal(pos), LitSize) \in Seq(Cell)
         /\ litq' = litq \o Cells(Literal(pos), LitSize)
         /\ UNCHANGED <<sc_status, used, defined, prototyped, refer, addr, default, defaddr,
                        glb_declared, sc_labnum, sc_alignnext, curfunc, saved, wq>>
<1>1. /\ Parsing("literal")
      /\ asm' = Written(sc_status, <<LiteralLine>>)
      /\ code_idx' = code_idx + (IF litidx + glb_declared = 0 THEN 1 ELSE 2)
      /\ litq' = litq \o Cells(Literal(pos), LitSize)
      /\ UNCHANGED <<sc_status, symbols, glb_declared, sc_labnum, sc_alignnext, curfunc, saved, wq>>
  BY Zenon DEF PlaceLiteral, LiteralLine, Emit
<1>2. pos \in Nat /\ token.op = "literal" /\ Legal(token)
  BY <1>1, Progress
<1>3. curfunc # None
  BY <1>2 DEF Legal
<1>4. <<LiteralLine>> \in Seq(Line)
  <2>1. litidx + glb_declared \in Int
    BY DEF GTypeOK, litidx
  <2> QED
    BY <1>2, <2>1, LineTypes, ObjectTypes DEF LiteralLine
<1>5. Grown(Filed(sc_status, <<LiteralLine>>))
  BY <1>1, <1>4, GrownBy, Zenon DEF GTypeOK
<1>6. Cells(Literal(pos), LitSize) \in Seq(Cell)
  BY <1>2, Sizes, ObjectTypes, CellsTyped
<1> QED
  BY <1>1, <1>2, <1>3, <1>4, <1>5, <1>6 DEF symbols

(* A static local, variable by variable.                                   *)
LEMMA StaticEffect ==
  ASSUME GTypeOK, StaticLocal
  PROVE  /\ Parsing("static") /\ curfunc # None
         /\ <<StaticLine>> \in Seq(Line) /\ Grown(Filed(sc_status, <<StaticLine>>))
         /\ code_idx' = code_idx + 2
         /\ Pad(glb_declared + litidx) \in Seq(Cell)
         /\ Cells(Literal(pos), LitSize) \in Seq(Cell)
         /\ litq' = litq \o Pad(glb_declared + litidx) \o Cells(Literal(pos), LitSize)
         /\ sc_alignnext' = FALSE
         /\ UNCHANGED <<sc_status, used, defined, prototyped, refer, addr, default, defaddr,
                        glb_declared, sc_labnum, curfunc, saved, wq>>
<1>1. /\ Parsing("static")
      /\ asm' = Written(sc_status, <<StaticLine>>)
      /\ code_idx' = code_idx + 2
      /\ litq' = litq \o Pad(glb_declared + litidx) \o Cells(Literal(pos), LitSize)
  BY Zenon DEF StaticLocal, StaticLine, Pad, Emit
<1>2. pos \in Nat /\ token.op = "static" /\ Legal(token)
  BY <1>1, Progress
<1>3. curfunc # None
  BY <1>2 DEF Legal
<1>4. Pad(glb_declared + litidx) \in Seq(Cell)
  <2>1. glb_declared + litidx \in Nat
    BY DEF GTypeOK, litidx
  <2> QED
    BY <2>1, PadTyped
<1>5. <<StaticLine>> \in Seq(Line)
  <2>1. litidx + Len(Pad(glb_declared + litidx)) + glb_declared \in Int
    BY <1>4 DEF GTypeOK, litidx
  <2> QED
    BY <1>2, <2>1, LineTypes, ObjectTypes DEF StaticLine
<1>6. Grown(Filed(sc_status, <<StaticLine>>))
  BY <1>1, <1>5, GrownBy, Zenon DEF GTypeOK
<1>7. Cells(Literal(pos), LitSize) \in Seq(Cell)
  BY <1>2, Sizes, ObjectTypes, CellsTyped
<1>8. sc_alignnext' = FALSE
      /\ UNCHANGED <<sc_status, used, defined, prototyped, refer, addr, default, defaddr,
                     glb_declared, sc_labnum, curfunc, saved, wq>>
  BY DEF StaticLocal, symbols
<1> QED
  BY <1>1, <1>3, <1>4, <1>5, <1>6, <1>7, <1>8

(* callfunction(), variable by variable; the argument's default array is   *)
(* placed by Places() only.                                                *)
LEMMA CallEffect ==
  ASSUME GTypeOK, Call
  PROVE  /\ Parsing("call") /\ token.of \in Funcs /\ curfunc # None
         /\ token.of \in prototyped \/ sc_status = "first"
         /\ ArgAddr \in Int
         /\ default[token.of] # None => ArgObject \in Object
         /\ ArgLines \in Seq(Line) /\ CallLines \in Seq(Line) /\ Grown(Filed(sc_status, CallLines))
         /\ code_idx' = code_idx + (IF default[token.of] = None THEN 4 ELSE IF ArgAddr = 0 THEN 6 ELSE 7)
         /\ addr' = IF token.of \in prototyped \cup defined THEN addr
                    ELSE [addr EXCEPT ![token.of] = code_idx]
         /\ Cells(Default(token.of), LitSize) \in Seq(Cell)
         /\ litq' = IF Places(token.of) THEN litq \o Cells(Default(token.of), LitSize) ELSE litq
         /\ defaddr' = [defaddr EXCEPT ![token.of] = ArgAddr]
         /\ used' = IF sc_status = "skip" THEN used ELSE used \cup {token.of}
         /\ refer' = IF sc_status = "skip" THEN refer
                     ELSE [refer EXCEPT ![token.of] = refer[token.of] \cup {curfunc}]
         /\ UNCHANGED <<sc_status, defined, prototyped, default,
                        glb_declared, sc_labnum, sc_alignnext, curfunc, saved, wq>>
<1>1. /\ Parsing("call")
      /\ asm' = Written(sc_status, CallLines)
      /\ code_idx' = code_idx + (IF default[token.of] = None THEN 4 ELSE IF ArgAddr = 0 THEN 6 ELSE 7)
      /\ addr' = IF token.of \in prototyped \cup defined THEN addr
                 ELSE [addr EXCEPT ![token.of] = code_idx]
      /\ litq' = IF Places(token.of) THEN litq \o Cells(Default(token.of), LitSize) ELSE litq
      /\ defaddr' = [defaddr EXCEPT ![token.of] = ArgAddr]
      /\ MarkCall(token.of)
      /\ UNCHANGED <<sc_status, defined, prototyped, default,
                     glb_declared, sc_labnum, sc_alignnext, curfunc, saved, wq>>
  BY Zenon DEF Call, CallLines, ArgLines, ArgAddr, ArgObject, Emit
<1>2. token.of \in Funcs /\ token.op = "call" /\ Legal(token)
  BY <1>1, Progress
<1>3. curfunc # None /\ (token.of \in prototyped \/ sc_status = "first")
  BY <1>2 DEF Legal
<1>4. ArgAddr \in Int
  BY <1>2 DEF ArgAddr, GTypeOK, litidx
<1>5. default[token.of] # None => ArgObject \in Object
  <2>1. default[token.of] \in Vars \cup {ArrayDefault, None}
    BY <1>2 DEF GTypeOK
  <2> QED
    BY <1>2, <2>1, ObjectTypes DEF ArgObject
<1>6. ArgLines \in Seq(Line)
  <2>1. CASE default[token.of] = None
    BY <2>1 DEF ArgLines
  <2>2. CASE default[token.of] # None
    <3>1. LdConst(ArgObject, ArgAddr) \in Line /\ Instr(1) \in Line
      BY <1>4, <1>5, <2>2, LineTypes
    <3> QED
      BY <2>2, <3>1 DEF ArgLines
  <2> QED
    BY <2>1, <2>2
<1>7. CallLines \in Seq(Line)
  <2>1. <<Instr(2), CallTo(token.of)>> \in Seq(Line)
    BY <1>2, LineTypes
  <2> QED
    BY <1>6, <2>1, ConcatProperties DEF CallLines
<1>8. Grown(Filed(sc_status, CallLines))
  BY <1>1, <1>7, GrownBy, Zenon DEF GTypeOK
<1>9. Cells(Default(token.of), LitSize) \in Seq(Cell)
  BY <1>2, Sizes, ObjectTypes, CellsTyped
<1>10. /\ used' = IF sc_status = "skip" THEN used ELSE used \cup {token.of}
       /\ refer' = IF sc_status = "skip" THEN refer
                   ELSE [refer EXCEPT ![token.of] = refer[token.of] \cup {curfunc}]
  BY <1>1, <1>3 DEF MarkCall, Mark
<1> QED
  BY <1>1, <1>2, <1>3, <1>4, <1>5, <1>6, <1>7, <1>8, <1>9, <1>10

WhileLines == <<Label(sc_labnum), Instr(2), Jump(sc_labnum + 1)>>

(* dowhile() up to the body, variable by variable.                         *)
LEMMA WhileEffect ==
  ASSUME GTypeOK, While
  PROVE  /\ Parsing("while") /\ curfunc # None
         /\ WhileLines \in Seq(Line) /\ Grown(Filed(sc_status, WhileLines))
         /\ code_idx' = code_idx + 4
         /\ sc_labnum' = sc_labnum + 2 /\ wq' = Append(wq, sc_labnum)
         /\ UNCHANGED <<sc_status, used, defined, prototyped, refer, addr, default, defaddr,
                        glb_declared, sc_alignnext, litq, curfunc, saved>>
<1>1. /\ Parsing("while")
      /\ asm' = Written(sc_status, WhileLines) /\ code_idx' = code_idx + 4
      /\ sc_labnum' = sc_labnum + 2 /\ wq' = Append(wq, sc_labnum)
      /\ UNCHANGED <<sc_status, symbols, glb_declared, sc_alignnext, litq, curfunc, saved>>
  BY Zenon DEF While, WhileLines, Emit
<1>2. token.op = "while" /\ Legal(token)
  BY <1>1, Progress
<1>3. curfunc # None
  BY <1>2 DEF Legal
<1>4. WhileLines \in Seq(Line)
  <2>1. sc_labnum \in Nat /\ sc_labnum + 1 \in Nat
    BY DEF GTypeOK
  <2> QED
    BY <2>1, LineTypes DEF WhileLines
<1>5. Grown(Filed(sc_status, WhileLines))
  BY <1>1, <1>4, GrownBy, Zenon DEF GTypeOK
<1> QED
  BY <1>1, <1>3, <1>4, <1>5 DEF symbols

Loop == wq[Len(wq)]
EndWhileLines == <<Jump(Loop), Label(Loop + 1)>>

(* dowhile() after the body, variable by variable; the loop it closes is   *)
(* the innermost.                                                          *)
LEMMA EndWhileEffect ==
  ASSUME GTypeOK, EndWhile
  PROVE  /\ Parsing("endwhile") /\ curfunc # None /\ wq # <<>> /\ Loop \in Nat
         /\ EndWhileLines \in Seq(Line) /\ Grown(Filed(sc_status, EndWhileLines))
         /\ code_idx' = code_idx + 2
         /\ wq' = SubSeq(wq, 1, Len(wq) - 1) /\ wq' \in Seq(Nat) /\ Len(wq') = Len(wq) - 1
         /\ \A n \in 1 .. Len(wq) - 1 : wq'[n] = wq[n]
         /\ UNCHANGED <<sc_status, used, defined, prototyped, refer, addr, default, defaddr,
                        glb_declared, sc_labnum, sc_alignnext, litq, curfunc, saved>>
<1>1. /\ Parsing("endwhile")
      /\ asm' = Written(sc_status, EndWhileLines) /\ code_idx' = code_idx + 2
      /\ wq' = SubSeq(wq, 1, Len(wq) - 1)
      /\ UNCHANGED <<sc_status, symbols, glb_declared, sc_labnum, sc_alignnext, litq, curfunc, saved>>
  BY Zenon DEF EndWhile, EndWhileLines, Loop, Emit
<1>2. token.op = "endwhile" /\ Legal(token)
  BY <1>1, Progress
<1>3. curfunc # None /\ wq # <<>>
  BY <1>2 DEF Legal
<1>4. wq \in Seq(Nat)
  BY DEF GTypeOK
<1>5. Loop \in Nat
  BY <1>3, <1>4 DEF Loop
<1>6. EndWhileLines \in Seq(Line)
  <2>1. Loop + 1 \in Nat
    BY <1>5
  <2> QED
    BY <1>5, <2>1, LineTypes DEF EndWhileLines
<1>7. Grown(Filed(sc_status, EndWhileLines))
  BY <1>1, <1>6, GrownBy, Zenon DEF GTypeOK
<1>8. wq' \in Seq(Nat) /\ Len(wq') = Len(wq) - 1 /\ \A n \in 1 .. Len(wq) - 1 : wq'[n] = wq[n]
  BY <1>1, <1>3, <1>4, DropLast
<1> QED
  BY <1>1, <1>3, <1>5, <1>6, <1>7, <1>8 DEF symbols

(* What happens between the two passes, variable by variable.              *)
LEMMA BeginEffect ==
  ASSUME GTypeOK, BeginWritePass
  PROVE  /\ phase = "parse" /\ pos = Len(program) /\ sc_status = "first" /\ curfunc = None
         /\ used' = used \ Unused
         /\ refer' = [s \in Vars \cup Funcs |-> refer[s] \ Dead]
         /\ defined' = {} /\ pos' = 0 /\ sc_status' = "write"
         /\ asm' = <<Instr(2)>> /\ Instr(2) \in Line /\ code_idx' = 2
         /\ glb_declared' = 0 /\ sc_labnum' = 0 /\ sc_alignnext' = FALSE
         /\ litq' = <<>> /\ wq' = <<>>
         /\ UNCHANGED <<program, phase, prototyped, addr, default, defaddr, curfunc, saved>>
<1>1. Instr(2) \in Line
  BY LineTypes
<1> QED
  BY <1>1 DEF BeginWritePass

(* writetrailer(), variable by variable.                                   *)
LEMMA TrailerEffect ==
  ASSUME GTypeOK, EndWritePass
  PROVE  /\ phase = "parse" /\ pos = Len(program) /\ sc_status = "write" /\ curfunc = None
         /\ TrailerLines \in Seq(Line) /\ Grown(TrailerLines)
         /\ code_idx' = code_idx + ToAlign(code_idx)
         /\ glb_declared' = glb_declared + ToAlign(glb_declared)
         /\ phase' = "assemble"
         /\ UNCHANGED <<program, pos, sc_status, used, defined, prototyped, refer, addr, default, defaddr,
                        sc_labnum, sc_alignnext, litq, curfunc, saved, wq>>
<1>1. /\ phase = "parse" /\ pos = Len(program) /\ sc_status = "write" /\ curfunc = None
      /\ asm' = (asm \o [i \in 1 .. ToAlign(code_idx) |-> Instr(1)])
                  \o Dumped(Cells(Padding, ToAlign(glb_declared)))
      /\ code_idx' = code_idx + ToAlign(code_idx)
      /\ glb_declared' = glb_declared + Len(Cells(Padding, ToAlign(glb_declared)))
      /\ phase' = "assemble"
      /\ UNCHANGED <<program, pos, sc_status, symbols, sc_labnum, sc_alignnext, litq, curfunc, saved, wq>>
  BY Zenon DEF EndWritePass
<1>2. glb_declared \in Nat /\ code_idx \in Nat /\ asm \in Seq(Line)
  BY DEF GTypeOK
<1>3. ToAlign(glb_declared) \in Nat /\ ToAlign(code_idx) \in Nat
  BY <1>2, Aligned
<1>4. /\ Cells(Padding, ToAlign(glb_declared)) \in Seq(Cell)
      /\ Len(Cells(Padding, ToAlign(glb_declared))) = ToAlign(glb_declared)
  BY <1>3, CellsTyped, ObjectTypes
<1>5. [i \in 1 .. ToAlign(code_idx) |-> Instr(1)] \in Seq(Line)
  <2>1. [i \in 1 .. ToAlign(code_idx) |-> Instr(1)] \in [1 .. ToAlign(code_idx) -> Line]
    BY LineTypes
  <2> QED
    BY <1>3, <2>1, FunctionIsSeq
<1>6. Dumped(Cells(Padding, ToAlign(glb_declared))) \in Seq(Line)
  BY <1>4, LineTypes
<1>7. TrailerLines \in Seq(Line) /\ Grown(TrailerLines)
  <2> DEFINE t == [i \in 1 .. ToAlign(code_idx) |-> Instr(1)]
             u == Dumped(Cells(Padding, ToAlign(glb_declared)))
  <2>1. t \in Seq(Line) /\ u \in Seq(Line) /\ asm' = (asm \o t) \o u /\ TrailerLines = t \o u
    BY <1>1, <1>5, <1>6 DEF TrailerLines
  <2> HIDE DEF t, u
  <2>2. (asm \o t) \o u = asm \o (t \o u)
    BY <1>2, <2>1, ConcatAssociative
  <2>3. t \o u \in Seq(Line)
    BY <2>1, ConcatProperties
  <2> QED
    BY <2>1, <2>2, <2>3 DEF Grown
<1> QED
  BY <1>1, <1>4, <1>7 DEF symbols

-----------------------------------------------------------------------------
(***************************************************************************)
(* The cells of what is filed                                              *)
(***************************************************************************)

(* What a step that appends lines does to the file and to its offsets.     *)
LEMMA Appended ==
  ASSUME asm \in Seq(Line), NEW new, Grown(new)
  PROVE  /\ asm' \in Seq(Line) /\ Len(asm) \in Nat /\ Len(new) \in Nat
         /\ Len(asm') = Len(asm) + Len(new)
         /\ \A m \in 1 .. Len(asm) : asm'[m] = asm[m]
         /\ \A k \in 1 .. Len(new) : asm'[Len(asm) + k] = new[k]
         /\ \A m \in 1 .. Len(asm') :
              m \in 1 .. Len(asm) \/ \E k \in 1 .. Len(new) : m = Len(asm) + k
         /\ \A m \in 0 .. Len(asm) : /\ CodeAt(asm')[m] = CodeAt(asm)[m]
                                     /\ DataAt(asm')[m] = DataAt(asm)[m]
         /\ \A k \in 0 .. Len(new) : /\ CodeAt(asm')[Len(asm) + k] = CodeSum(asm) + CodeAt(new)[k]
                                     /\ DataAt(asm')[Len(asm) + k] = DataSum(asm) + DataAt(new)[k]
         /\ CodeSum(asm') = CodeSum(asm) + CodeSum(new)
         /\ DataSum(asm') = DataSum(asm) + DataSum(new)
<1>1. new \in Seq(Line) /\ asm' = asm \o new
  BY DEF Grown
<1>2. /\ asm \o new \in Seq(Line) /\ Len(asm \o new) = Len(asm) + Len(new)
      /\ Len(asm) \in Nat /\ Len(new) \in Nat
      /\ (\A i \in 1 .. Len(asm) : (asm \o new)[i] = asm[i])
      /\ \A i \in 1 .. Len(new) : (asm \o new)[Len(asm) + i] = new[i]
  BY <1>1, ConcatProperties
<1>3. \A m \in 1 .. Len(asm) + Len(new) :
        m \in 1 .. Len(asm) \/ \E k \in 1 .. Len(new) : m = Len(asm) + k
  <2> TAKE m \in 1 .. Len(asm) + Len(new)
  <2>1. CASE m <= Len(asm)
    BY <1>2, <2>1
  <2>2. CASE m > Len(asm)
    <3>1. m - Len(asm) \in 1 .. Len(new) /\ m = Len(asm) + (m - Len(asm))
      BY <1>2, <2>2
    <3> QED
      BY <3>1
  <2> QED
    BY <1>2, <2>1, <2>2
<1> QED
  BY <1>1, <1>2, <1>3, OffsetsConcat

(* No lines, no cells.                                                     *)
LEMMA SumOfNone ==
  CodeSum(<<>>) = 0 /\ DataSum(<<>>) = 0
<1>1. <<>> \in Seq(Line)
  OBVIOUS
<1> QED
  BY <1>1, Offsets DEF CodeSum, DataSum

(* The cells of a single line.                                             *)
LEMMA SumOfOne ==
  ASSUME NEW l \in Line
  PROVE  CodeSum(<<l>>) = CodeCells(l) /\ DataSum(<<l>>) = DataCells(l)
<1> DEFINE s == <<l>>
<1>1. s \in Seq(Line) /\ Len(s) = 1 /\ s[1] = l
  OBVIOUS
<1>2. 1 \in 1 .. Len(s)
  BY <1>1
<1> HIDE DEF s
<1>3. /\ CodeAt(s)[1] = CodeAt(s)[1 - 1] + CodeCells(s[1]) /\ CodeAt(s)[0] = 0
      /\ DataAt(s)[1] = DataAt(s)[1 - 1] + DataCells(s[1]) /\ DataAt(s)[0] = 0
  BY <1>1, <1>2, Offsets
<1>4. CodeCells(l) \in Nat /\ DataCells(l) \in Nat
  BY LineCells
<1>5. CodeSum(s) = CodeCells(l) /\ DataSum(s) = DataCells(l)
  BY <1>1, <1>3, <1>4 DEF CodeSum, DataSum
<1> QED
  BY <1>5 DEF s

(* The cells of lines behind lines.                                        *)
LEMMA SumConcat ==
  ASSUME NEW s \in Seq(Line), NEW t \in Seq(Line), NEW u \in Seq(Line), Len(u) = Len(s) + Len(t),
         \A i \in 1 .. Len(s) : u[i] = s[i],
         \A i \in 1 .. Len(t) : u[Len(s) + i] = t[i]
  PROVE  CodeSum(u) = CodeSum(s) + CodeSum(t) /\ DataSum(u) = DataSum(s) + DataSum(t)
<1>1. u = s \o t
  BY ConcatEqual
<1>2. /\ CodeSum(s \o t) = CodeSum(s) + CodeSum(t)
      /\ DataSum(s \o t) = DataSum(s) + DataSum(t)
  BY OffsetsConcat
<1> QED
  BY <1>1, <1>2, Zenon

(* The cells of two lines.                                                 *)
LEMMA SumOfTwo ==
  ASSUME NEW k \in Line, NEW l \in Line
  PROVE  /\ CodeSum(<<k, l>>) = CodeCells(k) + CodeCells(l)
         /\ DataSum(<<k, l>>) = DataCells(k) + DataCells(l)
<1> DEFINE s == <<k>>
           t == <<l>>
           u == <<k, l>>
<1>1. /\ s \in Seq(Line) /\ t \in Seq(Line) /\ u \in Seq(Line) /\ Len(u) = Len(s) + Len(t)
      /\ \A i \in 1 .. Len(s) : u[i] = s[i]
      /\ \A i \in 1 .. Len(t) : u[Len(s) + i] = t[i]
  <2>1. s \in Seq(Line) /\ t \in Seq(Line) /\ u \in Seq(Line)
    OBVIOUS
  <2>2. Len(s) = 1 /\ Len(t) = 1 /\ Len(u) = 2 /\ s[1] = k /\ t[1] = l /\ u[1] = k /\ u[2] = l
    OBVIOUS
  <2> HIDE DEF s, t, u
  <2>3. \A i \in 1 .. 1 : i = 1
    OBVIOUS
  <2> QED
    BY <2>1, <2>2, <2>3
<1>2. CodeSum(s) = CodeCells(k) /\ DataSum(s) = DataCells(k)
      /\ CodeSum(t) = CodeCells(l) /\ DataSum(t) = DataCells(l)
  BY SumOfOne
<1> HIDE DEF s, t, u
<1>3. CodeSum(u) = CodeSum(s) + CodeSum(t) /\ DataSum(u) = DataSum(s) + DataSum(t)
  BY <1>1, SumConcat
<1>4. /\ CodeSum(u) = CodeCells(k) + CodeCells(l)
      /\ DataSum(u) = DataCells(k) + DataCells(l)
  BY <1>2, <1>3, Zenon
<1> QED
  BY <1>4 DEF u

(* The cells of three lines.                                               *)
LEMMA SumOfThree ==
  ASSUME NEW j \in Line, NEW k \in Line, NEW l \in Line
  PROVE  /\ CodeSum(<<j, k, l>>) = CodeCells(j) + CodeCells(k) + CodeCells(l)
         /\ DataSum(<<j, k, l>>) = DataCells(j) + DataCells(k) + DataCells(l)
<1> DEFINE s == <<j, k>>
           t == <<l>>
           u == <<j, k, l>>
<1>1. /\ s \in Seq(Line) /\ t \in Seq(Line) /\ u \in Seq(Line) /\ Len(u) = Len(s) + Len(t)
      /\ \A i \in 1 .. Len(s) : u[i] = s[i]
      /\ \A i \in 1 .. Len(t) : u[Len(s) + i] = t[i]
  OBVIOUS
<1>2. CodeSum(s) = CodeCells(j) + CodeCells(k) /\ DataSum(s) = DataCells(j) + DataCells(k)
      /\ CodeSum(t) = CodeCells(l) /\ DataSum(t) = DataCells(l)
  BY SumOfOne, SumOfTwo
<1> HIDE DEF s, t, u
<1>3. CodeSum(u) = CodeSum(s) + CodeSum(t) /\ DataSum(u) = DataSum(s) + DataSum(t)
  BY <1>1, SumConcat
<1>4. CodeSum(u) = CodeCells(j) + CodeCells(k) + CodeCells(l)
      /\ DataSum(u) = DataCells(j) + DataCells(k) + DataCells(l)
  BY <1>2, <1>3, Zenon
<1> QED
  BY <1>4 DEF u

(* The cells of the padding that writetrailer() adds to the code.          *)
LEMMA SumOfMany ==
  ASSUME NEW n \in Nat
  PROVE  /\ [i \in 1 .. n |-> Instr(1)] \in Seq(Line)
         /\ CodeSum([i \in 1 .. n |-> Instr(1)]) = n /\ DataSum([i \in 1 .. n |-> Instr(1)]) = 0
<1> DEFINE s == [i \in 1 .. n |-> Instr(1)]
<1>1. s \in [1 .. n -> Line]
  BY LineTypes
<1>2. s \in Seq(Line) /\ Len(s) = n
  BY <1>1, FunctionIsSeq
<1>3. \A i \in 1 .. n : CodeCells(s[i]) = 1 /\ DataCells(s[i]) = 0
  BY DEF CodeCells, DataCells, InCode, Instr
<1> HIDE DEF s
<1>4. /\ CodeAt(s)[0] = 0 /\ DataAt(s)[0] = 0
      /\ \A m \in 1 .. n : CodeAt(s)[m] = CodeAt(s)[m - 1] + 1 /\ DataAt(s)[m] = DataAt(s)[m - 1] + 0
  BY <1>2, <1>3, Offsets
<1> DEFINE U == {m \in 0 .. n : ~(CodeAt(s)[m] = m /\ DataAt(s)[m] = 0)}
<1>5. U = {}
  <2> SUFFICES ASSUME U # {} PROVE FALSE
    OBVIOUS
  <2>1. PICK x \in U : \A y \in U : x <= y
    <3>1. U \in SUBSET Nat
      OBVIOUS
    <3> HIDE DEF U
    <3> QED
      BY <3>1, LeastElement, Zenon
  <2>2. x > 0 /\ x - 1 \in 0 .. n /\ x - 1 \notin U
    BY <1>4, <2>1
  <2>3. x \in 1 .. n /\ CodeAt(s)[x - 1] = x - 1 /\ DataAt(s)[x - 1] = 0
    BY <2>1, <2>2
  <2> QED
    BY <1>4, <2>1, <2>3
<1>6. CodeSum(s) = n /\ DataSum(s) = 0
  BY <1>2, <1>5 DEF CodeSum, DataSum
<1> QED
  BY <1>2, <1>6 DEF s

(* The cells of a dump; nothing is dumped for an empty queue.              *)
LEMMA SumOfDump ==
  ASSUME NEW cells \in Seq(Cell)
  PROVE  CodeSum(Dumped(cells)) = 0 /\ DataSum(Dumped(cells)) = Len(cells)
<1>1. CASE cells = <<>>
  BY <1>1, SumOfNone DEF Dumped
<1>2. CASE cells # <<>>
  <2>1. Dump(cells) \in Line /\ CodeCells(Dump(cells)) = 0 /\ DataCells(Dump(cells)) = Len(cells)
    BY LineTypes DEF Dump, CodeCells, DataCells, InCode
  <2>2. Dumped(cells) = <<Dump(cells)>>
    BY <1>2 DEF Dumped
  <2> QED
    BY <2>1, <2>2, SumOfOne
<1> QED
  BY <1>1, <1>2

(* The cells of each kind of line.                                         *)
LEMMA LineSizes ==
  /\ \A n \in Nat : /\ CodeCells(Instr(n)) = n /\ DataCells(Instr(n)) = 0
                    /\ CodeCells(Jump(n)) = 2 /\ DataCells(Jump(n)) = 0
                    /\ CodeCells(Label(n)) = 0 /\ DataCells(Label(n)) = 0
  /\ \A f \in Funcs : /\ CodeCells(Proc(f)) = 1 /\ DataCells(Proc(f)) = 0
                      /\ CodeCells(CallTo(f)) = 2 /\ DataCells(CallTo(f)) = 0
  /\ \A object, a : /\ CodeCells(Address(object, a)) = 2 /\ DataCells(Address(object, a)) = 0
                    /\ CodeCells(LdConst(object, a)) = IF a = 0 THEN 1 ELSE 2
                    /\ DataCells(LdConst(object, a)) = 0
BY DEF CodeCells, DataCells, InCode, Instr, Jump, Label, Proc, CallTo, Address, LdConst

(* A global declaration files its cells and its padding as data.           *)
LEMMA SumOfGlobal ==
  ASSUME GTypeOK, DeclGlb
  PROVE  /\ CodeSum(GlobalLines) = 0
         /\ DataSum(GlobalLines) = Len(Pad(glb_declared)) + CellsOf[token.of]
<1>1. Pad(glb_declared) \in Seq(Cell)
  BY PadTyped DEF GTypeOK
<1>2. token.of \in Vars
  BY GlobalEffect
<1>3. Cells(Variable(token.of), CellsOf[token.of]) \in Seq(Cell)
      /\ Len(Cells(Variable(token.of), CellsOf[token.of])) = CellsOf[token.of]
  BY <1>2, Sizes, CellsTyped, ObjectTypes
<1>4. /\ Dumped(Pad(glb_declared)) \in Seq(Line)
      /\ Dumped(Cells(Variable(token.of), CellsOf[token.of])) \in Seq(Line)
  BY <1>1, <1>3, LineTypes
<1>5. /\ CodeSum(Dumped(Pad(glb_declared))) = 0
      /\ DataSum(Dumped(Pad(glb_declared))) = Len(Pad(glb_declared))
      /\ CodeSum(Dumped(Cells(Variable(token.of), CellsOf[token.of]))) = 0
      /\ DataSum(Dumped(Cells(Variable(token.of), CellsOf[token.of]))) = CellsOf[token.of]
  BY <1>1, <1>3, SumOfDump
<1> DEFINE t == Dumped(Pad(glb_declared))
           u == Dumped(Cells(Variable(token.of), CellsOf[token.of]))
<1>6. GlobalLines = t \o u
  BY DEF GlobalLines
<1> HIDE DEF t, u
<1>7. CodeSum(t \o u) = CodeSum(t) + CodeSum(u) /\ DataSum(t \o u) = DataSum(t) + DataSum(u)
  BY <1>4, OffsetsConcat DEF t, u
<1> QED
  BY <1>5, <1>6, <1>7 DEF t, u

(* newfunc() files as many cells of code as it adds to code_idx.           *)
LEMMA SumOfFunction ==
  ASSUME GTypeOK, NewFunc
  PROVE  CodeSum(FunctionLines) = 1 + (IF sc_alignnext THEN 9 ELSE 0) /\ DataSum(FunctionLines) = 0
<1> DEFINE t == <<Proc(token.of)>>
           u == IF sc_alignnext THEN <<Instr(9)>> ELSE <<>>
<1>1. Proc(token.of) \in Line /\ Instr(9) \in Line
  BY FunctionEffect, LineTypes
<1>2. t \in Seq(Line) /\ u \in Seq(Line)
  BY <1>1
<1>3. CodeSum(t) = 1 /\ DataSum(t) = 0
  BY <1>1, FunctionEffect, SumOfOne, LineSizes
<1>4. CodeSum(u) = (IF sc_alignnext THEN 9 ELSE 0) /\ DataSum(u) = 0
  BY <1>1, SumOfOne, SumOfNone, LineSizes
<1>5. FunctionLines = t \o u
  BY DEF FunctionLines
<1> HIDE DEF t, u
<1> QED
  BY <1>2, <1>3, <1>4, <1>5, OffsetsConcat

(* The end of a function files as many cells as are added to code_idx and  *)
(* to glb_declared.                                                        *)
LEMMA SumOfEnd ==
  ASSUME GTypeOK
  PROVE  CodeSum(EndLines) = 2 /\ DataSum(EndLines) = litidx
<1> DEFINE t == <<Instr(1), Instr(1)>>
           u == Dumped(litq)
<1>1. litq \in Seq(Cell)
  BY DEF GTypeOK
<1>2. t \in Seq(Line) /\ u \in Seq(Line)
  BY <1>1, LineTypes
<1>3. CodeSum(t) = 2 /\ DataSum(t) = 0
  BY LineTypes, SumOfTwo, LineSizes
<1>4. CodeSum(u) = 0 /\ DataSum(u) = litidx
  BY <1>1, SumOfDump DEF litidx
<1>5. EndLines = t \o u /\ litidx \in Nat
  BY <1>1 DEF EndLines, litidx
<1> HIDE DEF t, u
<1> QED
  BY <1>2, <1>3, <1>4, <1>5, OffsetsConcat

(* A call files as many cells of code as are added to code_idx, with or    *)
(* without a default value.                                                *)
LEMMA SumOfCall ==
  ASSUME GTypeOK, Call
  PROVE  /\ CodeSum(CallLines) = IF default[token.of] = None THEN 4 ELSE IF ArgAddr = 0 THEN 6 ELSE 7
         /\ DataSum(CallLines) = 0
<1> DEFINE u == <<Instr(2), CallTo(token.of)>>
<1>1. token.of \in Funcs /\ ArgAddr \in Int /\ ArgLines \in Seq(Line)
  BY CallEffect
<1>2. u \in Seq(Line) /\ CodeSum(u) = 4 /\ DataSum(u) = 0
  <2>1. Instr(2) \in Line /\ CallTo(token.of) \in Line
    BY <1>1, LineTypes
  <2> QED
    BY <1>1, <2>1, SumOfTwo, LineSizes
<1>3. CodeSum(ArgLines) = (IF default[token.of] = None THEN 0 ELSE IF ArgAddr = 0 THEN 2 ELSE 3)
      /\ DataSum(ArgLines) = 0
  <2>1. CASE default[token.of] = None
    BY <2>1, SumOfNone DEF ArgLines
  <2>2. CASE default[token.of] # None
    <3>1. LdConst(ArgObject, ArgAddr) \in Line /\ Instr(1) \in Line
      BY <1>1, <2>2, CallEffect, LineTypes
    <3>2. ArgLines = <<LdConst(ArgObject, ArgAddr), Instr(1)>>
      BY <2>2 DEF ArgLines
    <3> QED
      BY <2>2, <3>1, <3>2, SumOfTwo, LineSizes
  <2> QED
    BY <2>1, <2>2
<1>4. CallLines = ArgLines \o u
  BY DEF CallLines
<1> HIDE DEF u
<1>5. CodeSum(CallLines) = CodeSum(ArgLines) + CodeSum(u) /\ DataSum(CallLines) = DataSum(ArgLines) + DataSum(u)
  BY <1>1, <1>2, <1>4, OffsetsConcat
<1> QED
  BY <1>2, <1>3, <1>5

(* writetrailer() files as many cells as it adds to both counters.         *)
LEMMA SumOfTrailer ==
  ASSUME GTypeOK
  PROVE  CodeSum(TrailerLines) = ToAlign(code_idx) /\ DataSum(TrailerLines) = ToAlign(glb_declared)
<1> DEFINE t == [i \in 1 .. ToAlign(code_idx) |-> Instr(1)]
           u == Dumped(Cells(Padding, ToAlign(glb_declared)))
<1>1. ToAlign(code_idx) \in Nat /\ ToAlign(glb_declared) \in Nat
  BY Aligned DEF GTypeOK
<1>2. t \in Seq(Line) /\ CodeSum(t) = ToAlign(code_idx) /\ DataSum(t) = 0
  BY <1>1, SumOfMany
<1>3. u \in Seq(Line) /\ CodeSum(u) = 0 /\ DataSum(u) = ToAlign(glb_declared)
  BY <1>1, CellsTyped, ObjectTypes, LineTypes, SumOfDump
<1>4. TrailerLines = t \o u
  BY DEF TrailerLines
<1> HIDE DEF t, u
<1> QED
  BY <1>1, <1>2, <1>3, <1>4, OffsetsConcat

(* A line written while the output is off leaves the file alone.           *)
LEMMA Unfiled ==
  ASSUME asm \in Seq(Line), NEW lines, Grown(Filed("skip", lines))
  PROVE  asm' = asm
<1>1. asm' = asm \o <<>>
  BY DEF Grown, Filed
<1> QED
  BY <1>1, ConcatEmptySeq

\* the step adds nothing but lines of these kinds
Adds(ops) == \E new : Grown(new) /\ \A k \in 1 .. Len(new) : new[k].op \in ops

-----------------------------------------------------------------------------
(***************************************************************************)
(* Which lines a step adds                                                 *)
(***************************************************************************)

(* The kinds of lines a step adds, from those it hands to filewrite().     *)
LEMMA FiledKinds ==
  ASSUME NEW ops, NEW lines \in Seq(Line), \A k \in 1 .. Len(lines) : lines[k].op \in ops,
         NEW status, Grown(Filed(status, lines))
  PROVE  Adds(ops)
<1>1. \A k \in 1 .. Len(Filed(status, lines)) : Filed(status, lines)[k].op \in ops
  BY DEF Filed
<1> QED
  BY <1>1, Zenon DEF Adds

(* A dump is a dump line or nothing.                                       *)
LEMMA DumpKind ==
  ASSUME NEW cells \in Seq(Cell)
  PROVE  Dumped(cells) \in Seq(Line) /\ \A k \in 1 .. Len(Dumped(cells)) : Dumped(cells)[k].op = "dump"
<1>1. Dumped(cells) \in Seq(Line)
  BY LineTypes
<1> QED
  BY <1>1 DEF Dumped, Dump

(* The kinds of lines in a concatenation.                                  *)
LEMMA ConcatKinds ==
  ASSUME NEW ops, NEW s \in Seq(Line), NEW t \in Seq(Line),
         \A k \in 1 .. Len(s) : s[k].op \in ops, \A k \in 1 .. Len(t) : t[k].op \in ops
  PROVE  \A k \in 1 .. Len(s \o t) : (s \o t)[k].op \in ops
BY ConcatProperties

(* Which kinds of lines each action adds to the file: most parts of the    *)
(* invariant speak of one kind of line and survive the actions that add    *)
(* none of it.                                                             *)
LEMMA KindsAdded ==
  ASSUME GTypeOK
  PROVE  /\ PragmaAlign \/ SyntaxError \/ Unfinished => Adds({})
         /\ DeclGlb => Adds({"dump"})
         /\ NewFunc => Adds({"proc", "instr"})
         /\ EndFunc => Adds({"instr", "dump"})
         /\ Use \/ PlaceLiteral \/ StaticLocal => Adds({"address"})
         /\ Call => Adds({"address", "instr", "call"})
         /\ While \/ EndWhile => Adds({"label", "instr", "jump"})
         /\ EndWritePass => Adds({"instr", "dump"})
<1>0. asm \in Seq(Line) /\ litq \in Seq(Cell) /\ glb_declared \in Nat /\ code_idx \in Nat
  BY DEF GTypeOK
<1>1. CASE PragmaAlign \/ SyntaxError \/ Unfinished
  <2>1. asm' = asm
    BY <1>1 DEF PragmaAlign, SyntaxError, Unfinished, generator
  <2>2. asm \o <<>> = asm /\ <<>> \in Seq(Line)
    BY <1>0, ConcatEmptySeq
  <2>3. Grown(<<>>) /\ \A k \in 1 .. Len(<<>>) : <<>>[k].op \in {}
    BY <2>1, <2>2 DEF Grown
  <2> QED
    BY <2>3, Zenon DEF Adds
<1>2. ASSUME DeclGlb PROVE Adds({"dump"})
  <2>1. /\ Dumped(Pad(glb_declared)) \in Seq(Line)
        /\ \A k \in 1 .. Len(Dumped(Pad(glb_declared))) : Dumped(Pad(glb_declared))[k].op = "dump"
    BY <1>0, PadTyped, DumpKind
  <2>2. Cells(Variable(token.of), CellsOf[token.of]) \in Seq(Cell)
    BY <1>2, GlobalEffect, Sizes, ObjectTypes, CellsTyped
  <2> DEFINE s == Dumped(Pad(glb_declared))
             t == Dumped(Cells(Variable(token.of), CellsOf[token.of]))
  <2>3. t \in Seq(Line) /\ \A k \in 1 .. Len(t) : t[k].op = "dump"
    BY <2>2, DumpKind
  <2>4. GlobalLines = s \o t
    BY DEF GlobalLines
  <2> HIDE DEF s, t
  <2>5. \A k \in 1 .. Len(s \o t) : (s \o t)[k].op \in {"dump"}
    BY <2>1, <2>3, ConcatKinds DEF s
  <2>6. \A k \in 1 .. Len(GlobalLines) : GlobalLines[k].op \in {"dump"}
    BY <2>4, <2>5
  <2> QED
    BY <1>2, <2>6, GlobalEffect, FiledKinds
<1>3. ASSUME NewFunc PROVE Adds({"proc", "instr"})
  <2>1. FunctionLines \in Seq(Line) /\ Grown(Filed(sc_status', FunctionLines))
    BY <1>3, FunctionEffect
  <2>2. \A k \in 1 .. Len(FunctionLines) : FunctionLines[k].op \in {"proc", "instr"}
    BY DEF FunctionLines, Proc, Instr
  <2> QED
    BY <2>1, <2>2, FiledKinds
<1>4. ASSUME EndFunc PROVE Adds({"instr", "dump"})
  <2> DEFINE s == <<Instr(1), Instr(1)>>
             t == Dumped(litq)
  <2>1. s \in Seq(Line)
    BY LineTypes
  <2>2. \A k \in 1 .. Len(s) : s[k].op \in {"instr", "dump"}
    BY DEF Instr
  <2>3. t \in Seq(Line) /\ \A k \in 1 .. Len(t) : t[k].op \in {"instr", "dump"}
    BY <1>0, DumpKind
  <2>4. EndLines = s \o t
    BY DEF EndLines
  <2> HIDE DEF s, t
  <2>5. \A k \in 1 .. Len(s \o t) : (s \o t)[k].op \in {"instr", "dump"}
    BY <2>1, <2>2, <2>3, ConcatKinds
  <2>6. \A k \in 1 .. Len(EndLines) : EndLines[k].op \in {"instr", "dump"}
    BY <2>4, <2>5
  <2> QED
    BY <1>4, <2>6, EndEffect, FiledKinds
<1>5. ASSUME Use \/ PlaceLiteral \/ StaticLocal PROVE Adds({"address"})
  <2>1. ASSUME NEW l, l.op = "address", <<l>> \in Seq(Line), Grown(Filed(sc_status, <<l>>))
        PROVE  Adds({"address"})
    <3>1. \A k \in 1 .. Len(<<l>>) : <<l>>[k].op \in {"address"}
      BY <2>1
    <3> QED
      BY <2>1, <3>1, FiledKinds
  <2>2. UseLine.op = "address" /\ LiteralLine.op = "address" /\ StaticLine.op = "address"
    BY DEF UseLine, LiteralLine, StaticLine, Address, LdConst
  <2> QED
    BY <1>5, <2>1, <2>2, UseEffect, LiteralEffect, StaticEffect
<1>6. ASSUME Call PROVE Adds({"address", "instr", "call"})
  <2> DEFINE t == <<Instr(2), CallTo(token.of)>>
  <2>1. ArgLines \in Seq(Line) /\ CallLines \in Seq(Line) /\ token.of \in Funcs
    BY <1>6, CallEffect
  <2>2. \A k \in 1 .. Len(ArgLines) : ArgLines[k].op \in {"address", "instr", "call"}
    BY DEF ArgLines, LdConst, Address, Instr
  <2>3. t \in Seq(Line)
    BY <2>1, LineTypes
  <2>4. \A k \in 1 .. Len(t) : t[k].op \in {"address", "instr", "call"}
    BY DEF Instr, CallTo
  <2>5. CallLines = ArgLines \o t
    BY DEF CallLines
  <2> HIDE DEF t
  <2>6. \A k \in 1 .. Len(ArgLines \o t) : (ArgLines \o t)[k].op \in {"address", "instr", "call"}
    BY <2>1, <2>2, <2>3, <2>4, ConcatKinds
  <2>7. \A k \in 1 .. Len(CallLines) : CallLines[k].op \in {"address", "instr", "call"}
    BY <2>5, <2>6
  <2> QED
    BY <1>6, <2>1, <2>7, CallEffect, FiledKinds
<1>7. ASSUME While \/ EndWhile PROVE Adds({"label", "instr", "jump"})
  <2>1. \A k \in 1 .. Len(WhileLines) : WhileLines[k].op \in {"label", "instr", "jump"}
    BY DEF WhileLines, Label, Instr, Jump
  <2>2. \A k \in 1 .. Len(EndWhileLines) : EndWhileLines[k].op \in {"label", "instr", "jump"}
    BY DEF EndWhileLines, Label, Jump
  <2> QED
    BY <1>7, <2>1, <2>2, WhileEffect, EndWhileEffect, FiledKinds
<1>8. ASSUME EndWritePass PROVE Adds({"instr", "dump"})
  <2> DEFINE s == [i \in 1 .. ToAlign(code_idx) |-> Instr(1)]
             t == Dumped(Cells(Padding, ToAlign(glb_declared)))
  <2>1. ToAlign(code_idx) \in Nat /\ ToAlign(glb_declared) \in Nat
    BY <1>0, Aligned
  <2>2. s \in Seq(Line) /\ Len(s) = ToAlign(code_idx)
    BY <2>1, SumOfMany
  <2>3. \A k \in 1 .. Len(s) : s[k].op \in {"instr", "dump"}
    BY <2>2 DEF Instr
  <2>4. t \in Seq(Line) /\ \A k \in 1 .. Len(t) : t[k].op \in {"instr", "dump"}
    <3>1. Cells(Padding, ToAlign(glb_declared)) \in Seq(Cell)
      BY <2>1, CellsTyped, ObjectTypes
    <3> QED
      BY <3>1, DumpKind
  <2>5. TrailerLines = s \o t
    BY DEF TrailerLines
  <2> HIDE DEF s, t
  <2>6. \A k \in 1 .. Len(s \o t) : (s \o t)[k].op \in {"instr", "dump"}
    BY <2>2, <2>3, <2>4, ConcatKinds
  <2>7. \A k \in 1 .. Len(TrailerLines) : TrailerLines[k].op \in {"instr", "dump"}
    BY <2>5, <2>6
  <2> QED
    BY <1>8, <2>7, TrailerEffect, Zenon DEF Adds
<1> QED
  BY <1>1, <1>2, <1>3, <1>4, <1>5, <1>6, <1>7, <1>8

(* The lines that were in the file stay, at their offsets.                 *)
LEMMA OldLines ==
  ASSUME asm \in Seq(Line), NEW ops, Adds(ops)
  PROVE  /\ \A m \in 1 .. Len(asm) : /\ m \in 1 .. Len(asm') /\ asm'[m] = asm[m]
                                     /\ CodeAt(asm')[m - 1] = CodeAt(asm)[m - 1]
                                     /\ DataAt(asm')[m - 1] = DataAt(asm)[m - 1]
         /\ \A m \in 1 .. Len(asm') : m \in 1 .. Len(asm) \/ asm'[m].op \in ops
<1>1. PICK new : Grown(new) /\ \A k \in 1 .. Len(new) : new[k].op \in ops
  BY Zenon DEF Adds
<1>2. /\ Len(asm) \in Nat /\ Len(new) \in Nat /\ Len(asm') = Len(asm) + Len(new)
      /\ \A m \in 1 .. Len(asm) : asm'[m] = asm[m]
      /\ \A k \in 1 .. Len(new) : asm'[Len(asm) + k] = new[k]
      /\ \A m \in 1 .. Len(asm') :
           m \in 1 .. Len(asm) \/ \E k \in 1 .. Len(new) : m = Len(asm) + k
      /\ \A m \in 0 .. Len(asm) : /\ CodeAt(asm')[m] = CodeAt(asm)[m]
                                  /\ DataAt(asm')[m] = DataAt(asm)[m]
  BY <1>1, Appended
<1>3. \A m \in 1 .. Len(asm) : m \in 1 .. Len(asm') /\ m - 1 \in 0 .. Len(asm)
  BY <1>2
<1>4. \A m \in 1 .. Len(asm') : m \in 1 .. Len(asm) \/ asm'[m].op \in ops
  BY <1>1, <1>2
<1> QED
  BY <1>2, <1>3, <1>4

(* A kind of line that is not added has the same lines as before.          *)
LEMMA SameLines ==
  ASSUME asm \in Seq(Line), NEW ops, Adds(ops), NEW op, op \notin ops
  PROVE  /\ Lines(op)' = Lines(op)
         /\ \A m \in Lines(op) : asm'[m] = asm[m]
<1>1. /\ \A m \in 1 .. Len(asm) : m \in 1 .. Len(asm') /\ asm'[m] = asm[m]
      /\ \A m \in 1 .. Len(asm') : m \in 1 .. Len(asm) \/ asm'[m].op \in ops
  BY OldLines
<1>2. Lines(op)' = {j \in 1 .. Len(asm') : asm'[j].op = op}
  BY DEF Lines
<1>3. \A m : m \in Lines(op)' <=> m \in Lines(op)
  BY <1>1, <1>2 DEF Lines
<1> QED
  BY <1>1, <1>3 DEF Lines

(* The lines of one kind after a step: the old ones and those that were    *)
(* appended.                                                               *)
LEMMA NewLines ==
  ASSUME asm \in Seq(Line), NEW new, Grown(new), NEW op
  PROVE  /\ \A m \in Lines(op) : m \in Lines(op)' /\ asm'[m] = asm[m]
         /\ \A m \in Lines(op)' : \/ m \in Lines(op) /\ asm'[m] = asm[m]
                                  \/ \E k \in 1 .. Len(new) : m = Len(asm) + k /\ asm'[m] = new[k] /\ new[k].op = op
         /\ \A k \in 1 .. Len(new) : new[k].op = op => Len(asm) + k \in Lines(op)' /\ asm'[Len(asm) + k] = new[k]
<1>1. /\ Len(asm) \in Nat /\ Len(new) \in Nat
      /\ Len(asm') = Len(asm) + Len(new)
      /\ \A m \in 1 .. Len(asm) : asm'[m] = asm[m]
      /\ \A k \in 1 .. Len(new) : asm'[Len(asm) + k] = new[k]
      /\ \A m \in 1 .. Len(asm') :
           m \in 1 .. Len(asm) \/ \E k \in 1 .. Len(new) : m = Len(asm) + k
  BY Appended
<1>2. Lines(op)' = {j \in 1 .. Len(asm') : asm'[j].op = op} /\ Lines(op) = {j \in 1 .. Len(asm) : asm[j].op = op}
  BY DEF Lines
<1>3. \A m \in 1 .. Len(asm) : m \in 1 .. Len(asm')
  BY <1>1
<1>4. \A k \in 1 .. Len(new) : Len(asm) + k \in 1 .. Len(asm')
  BY <1>1
<1> QED
  BY <1>1, <1>2, <1>3, <1>4

(* The cells of a dump line.                                               *)
LEMMA DumpedCells ==
  ASSUME NEW cells \in Seq(Cell)
  PROVE  \A k \in 1 .. Len(Dumped(cells)) : Dumped(cells)[k].cells = cells
BY DEF Dumped, Dump

(* Cells made for an object belong to an object of its kind.               *)
LEMMA ObjectKinds ==
  ASSUME NEW n \in Nat, NEW f, NEW v, NEW k
  PROVE  /\ \A c \in 1 .. Len(Cells(Literal(v), n)) : Cells(Literal(v), n)[c].of.kind = "literal"
         /\ \A c \in 1 .. Len(Cells(Default(f), n)) : Cells(Default(f), n)[c].of.kind = "default"
         /\ \A c \in 1 .. Len(Cells(Padding, n)) : Cells(Padding, n)[c].of.kind = "padding"
         /\ \A c \in 1 .. Len(Cells(Variable(v), n)) : Cells(Variable(v), n)[c].of = Variable(v)
BY DEF Cells, Literal, Default, Padding, Variable

-----------------------------------------------------------------------------
(***************************************************************************)
(* Where objects lie                                                       *)
(***************************************************************************)

(* Every object has at least one cell.                                     *)
LEMMA ObjectSizes ==
  ASSUME NEW object \in Object
  PROVE  SizeOf(object) \in Nat /\ SizeOf(object) > 0
<1>1. LitSize \in Nat \ {0} /\ \A v \in Vars : CellsOf[v] \in Nat \ {0}
  BY Sizes
<1>2. object.kind \in {"variable", "named"} => object.id \in Vars
  BY DEF Object
<1> QED
  BY <1>1, <1>2 DEF SizeOf

(* No object lies in an empty queue.                                       *)
LEMMA NothingHeld ==
  ASSUME NEW object \in Object, NEW o
  PROVE  ~Holds(<<>>, o, object)
<1>1. SizeOf(object) \in Nat /\ SizeOf(object) > 0
  BY ObjectSizes
<1>2. Len(<<>>) = 0
  OBVIOUS
<1> QED
  BY <1>1, <1>2 DEF Holds

(* An object stays where it is when cells are appended behind it.          *)
LEMMA HoldsLonger ==
  ASSUME NEW s \in Seq(Cell), NEW t \in Seq(Cell), NEW object \in Object, NEW o, Holds(s, o, object)
  PROVE  Holds(s \o t, o, object)
<1>0. SizeOf(object) \in Nat /\ SizeOf(object) > 0
  BY ObjectSizes
<1> DEFINE z == SizeOf(object)
<1>1. o \in 0 .. Len(s) - z /\ \A k \in 0 .. z - 1 : s[o + k + 1] = [of |-> object, k |-> k]
  BY DEF Holds
<1>2. /\ Len(s \o t) = Len(s) + Len(t) /\ Len(s) \in Nat /\ Len(t) \in Nat
      /\ \A i \in 1 .. Len(s) : (s \o t)[i] = s[i]
  BY ConcatProperties
<1> HIDE DEF z
<1>3. \A k \in 0 .. z - 1 : o + k + 1 \in 1 .. Len(s)
  BY <1>0, <1>1, <1>2 DEF z
<1>4. o \in 0 .. Len(s \o t) - z
  BY <1>0, <1>1, <1>2 DEF z
<1>5. \A k \in 0 .. z - 1 : (s \o t)[o + k + 1] = [of |-> object, k |-> k]
  BY <1>1, <1>2, <1>3
<1> QED
  BY <1>4, <1>5 DEF Holds, z

(* An object that is appended begins where the cells before it ended.      *)
LEMMA HoldsAppended ==
  ASSUME NEW s \in Seq(Cell), NEW object \in Object
  PROVE  Holds(s \o Cells(object, SizeOf(object)), Len(s), object)
<1>0. SizeOf(object) \in Nat /\ SizeOf(object) > 0
  BY ObjectSizes
<1> DEFINE z == SizeOf(object)
           t == Cells(object, z)
<1>1. t \in Seq(Cell) /\ Len(t) = z /\ \A k \in 1 .. z : t[k] = [of |-> object, k |-> k - 1]
  BY <1>0, CellsTyped
<1> HIDE DEF z, t
<1>2. /\ Len(s \o t) = Len(s) + Len(t) /\ Len(s) \in Nat
      /\ \A i \in 1 .. Len(t) : (s \o t)[Len(s) + i] = t[i]
  BY <1>1, ConcatProperties
<1>3. Len(s) \in 0 .. Len(s \o t) - z
  BY <1>0, <1>1, <1>2 DEF z
<1>4. ASSUME NEW k \in 0 .. z - 1
      PROVE  (s \o t)[Len(s) + k + 1] = [of |-> object, k |-> k]
  <2>1. k + 1 \in 1 .. z /\ (k + 1) - 1 = k /\ Len(s) + k + 1 = Len(s) + (k + 1)
    BY <1>0, <1>2 DEF z
  <2> QED
    BY <1>1, <1>2, <2>1
<1> QED
  BY <1>3, <1>4 DEF Holds, t, z

-----------------------------------------------------------------------------
(***************************************************************************)
(* Types                                                                   *)
(***************************************************************************)

\* the parts of GTypeOK
SymbolsTyped ==
  /\ used \subseteq Vars \cup Funcs /\ defined \subseteq Vars \cup Funcs
  /\ prototyped \subseteq Funcs
  /\ refer \in [Vars \cup Funcs -> SUBSET Funcs]
  /\ addr \in [Vars \cup Funcs -> Int]
  /\ default \in [Funcs -> Vars \cup {ArrayDefault, None}]
  /\ defaddr \in [Funcs -> Int]

CountersTyped ==
  /\ code_idx \in Nat /\ glb_declared \in Nat /\ sc_labnum \in Nat
  /\ sc_alignnext \in BOOLEAN /\ curfunc \in Funcs \cup {None}
  /\ sc_status \in {"first", "write", "skip"}
  /\ saved \in [code : Nat, data : Nat] /\ wq \in Seq(Nat)

PlaceTyped ==
  /\ program \in Seq(Token) /\ pos \in 0 .. Len(program)
  /\ phase \in {"parse", "assemble", "labels", "code", "data", "done", "rejected"}

(* GTypeOK, in the groups in which its proof goes.                         *)
LEMMA GTypeParts ==
  GTypeOK <=> SymbolsTyped /\ CountersTyped /\ PlaceTyped /\ litq \in Seq(Cell) /\ asm \in Seq(Line)
BY DEF GTypeOK, SymbolsTyped, CountersTyped, PlaceTyped

(* An action that parses a token keeps the types of the place in the       *)
(* program.                                                                *)
LEMMA PlaceTypeKept ==
  ASSUME GTypeOK, NEW op, Parsing(op)
  PROVE  PlaceTyped'
<1>1. program' = program /\ phase' = "parse" /\ pos' = pos + 1 /\ pos + 1 \in 1 .. Len(program)
  BY Progress
<1> QED
  BY <1>1, GTypeParts DEF PlaceTyped

(* A file that grows by lines is a file of lines.                          *)
LEMMA GrownTyped ==
  ASSUME asm \in Seq(Line), NEW status, NEW lines \in Seq(Line), Grown(Filed(status, lines))
  PROVE  asm' \in Seq(Line)
BY ConcatProperties DEF Grown

(* Every step of the parser keeps the types.                               *)
LEMMA TypeKept == ASSUME GTypeOK, Parse PROVE GTypeOK'
<1> SUFFICES /\ SymbolsTyped' /\ CountersTyped' /\ PlaceTyped'
             /\ litq' \in Seq(Cell) /\ asm' \in Seq(Line)
  BY Zenon DEF GTypeOK, SymbolsTyped, CountersTyped, PlaceTyped
<1>0. SymbolsTyped /\ CountersTyped /\ PlaceTyped /\ litq \in Seq(Cell) /\ asm \in Seq(Line)
  BY GTypeParts
<1>1. ASSUME NEW status, NEW lines \in Seq(Line), Grown(Filed(status, lines))
      PROVE  asm' \in Seq(Line)
  BY <1>0, <1>1, GrownTyped
<1>2. litidx \in Nat
  BY <1>0 DEF litidx
<1>3. CASE PragmaAlign
  BY <1>0, <1>3, PlaceTypeKept DEF PragmaAlign, SymbolsTyped, CountersTyped, symbols
<1>4. CASE DeclGlb
  <2>1. PlaceTyped' /\ asm' \in Seq(Line)
    BY <1>1, <1>4, GlobalEffect, PlaceTypeKept, Zenon
  <2>2. /\ token.of \in Vars /\ CellsOf[token.of] \in Nat
        /\ addr' = [addr EXCEPT ![token.of] = glb_declared] /\ defined' = defined \cup {token.of}
        /\ glb_declared' \in {glb_declared, glb_declared + CellsOf[token.of]}
        /\ sc_alignnext' = FALSE
        /\ UNCHANGED <<sc_status, used, prototyped, refer, default, defaddr,
                       code_idx, sc_labnum, litq, curfunc, saved, wq>>
    BY <1>4, GlobalEffect, Sizes
  <2>3. SymbolsTyped'
    BY <1>0, <2>2 DEF SymbolsTyped, CountersTyped
  <2>4. CountersTyped'
    <3>1. glb_declared' \in Nat
      BY <1>0, <2>2 DEF CountersTyped
    <3>2. /\ sc_alignnext' = FALSE
          /\ UNCHANGED <<sc_status, code_idx, sc_labnum, curfunc, saved, wq>>
      BY <2>2
    <3> QED
      BY <1>0, <3>1, <3>2 DEF CountersTyped
  <2> QED
    BY <1>0, <2>1, <2>2, <2>3, <2>4
<1>5. CASE NewFunc
  <2>1. PlaceTyped' /\ asm' \in Seq(Line)
    BY <1>1, <1>5, FunctionEffect, PlaceTypeKept, Zenon
  <2>2. /\ token.of \in Funcs /\ token.default \in Vars \cup {ArrayDefault, None}
        /\ used' = used \cup ({token.of} \cap Roots)
                        \cup (IF sc_status = "write" THEN {token.default} \cap Vars ELSE {})
        /\ addr' = [addr EXCEPT ![token.of] = code_idx]
        /\ prototyped' = prototyped \cup {token.of}
        /\ default' = IF token.of \in prototyped THEN default
                      ELSE [default EXCEPT ![token.of] = token.default]
        /\ defaddr' = IF token.of \in prototyped THEN defaddr
                      ELSE [defaddr EXCEPT ![token.of] =
                              IF token.default \in Vars THEN addr[token.default] ELSE -1]
        /\ defined' = defined \cup {token.of}
        /\ UNCHANGED <<refer, litq>>
    BY <1>5, FunctionEffect
  <2>3. /\ sc_status' \in {"skip", sc_status}
        /\ saved' \in {[code |-> code_idx, data |-> glb_declared], saved}
        /\ curfunc' = token.of /\ code_idx' \in {code_idx + 1 + 9, code_idx + 1 + 0}
        /\ sc_alignnext' = FALSE /\ UNCHANGED <<glb_declared, sc_labnum, wq>>
    BY <1>5, FunctionEffect
  <2>4. SymbolsTyped'
    <3>1. token.default \in Vars => addr[token.default] \in Int
      BY <1>0 DEF SymbolsTyped
    <3> QED
      BY <1>0, <2>2, <3>1 DEF SymbolsTyped, CountersTyped
  <2>5. CountersTyped'
    <3>1. code_idx' \in Nat /\ saved' \in [code : Nat, data : Nat]
      BY <1>0, <2>3 DEF CountersTyped
    <3>2. token.of \in Funcs
      BY <2>2
    <3> QED
      BY <1>0, <2>3, <3>1, <3>2 DEF CountersTyped
  <2> QED
    BY <1>0, <2>1, <2>2, <2>4, <2>5
<1>6. CASE EndFunc
  <2>1. PlaceTyped' /\ asm' \in Seq(Line)
    BY <1>1, <1>6, EndEffect, PlaceTypeKept, Zenon
  <2>2. SymbolsTyped' /\ litq' \in Seq(Cell)
    BY <1>0, <1>6, EndEffect DEF SymbolsTyped
  <2>3. CountersTyped'
    BY <1>0, <1>2, <1>6, EndEffect DEF CountersTyped
  <2> QED
    BY <2>1, <2>2, <2>3
<1>7. CASE Use
  <2>1. PlaceTyped' /\ asm' \in Seq(Line)
    BY <1>1, <1>7, UseEffect, PlaceTypeKept, Zenon
  <2>2. /\ token.of \in Vars /\ used' = used \cup {token.of} /\ code_idx' = code_idx + 2
        /\ refer' = [refer EXCEPT ![token.of] = refer[token.of] \cup {curfunc}] /\ curfunc # None
        /\ UNCHANGED <<sc_status, defined, prototyped, addr, default, defaddr,
                       glb_declared, sc_labnum, sc_alignnext, litq, curfunc, saved, wq>>
    BY <1>7, UseEffect
  <2>3. SymbolsTyped'
    BY <1>0, <2>2 DEF SymbolsTyped, CountersTyped
  <2>4. CountersTyped'
    BY <1>0, <2>2 DEF CountersTyped
  <2> QED
    BY <1>0, <2>1, <2>2, <2>3, <2>4
<1>8. CASE PlaceLiteral
  <2>1. PlaceTyped' /\ asm' \in Seq(Line)
    BY <1>1, <1>8, LiteralEffect, PlaceTypeKept, Zenon
  <2>2. litq' \in Seq(Cell)
    BY <1>0, <1>8, LiteralEffect, ConcatProperties
  <2>3. SymbolsTyped' /\ CountersTyped'
    BY <1>0, <1>8, LiteralEffect DEF SymbolsTyped, CountersTyped
  <2> QED
    BY <2>1, <2>2, <2>3
<1>9. CASE StaticLocal
  <2>1. PlaceTyped' /\ asm' \in Seq(Line)
    BY <1>1, <1>9, StaticEffect, PlaceTypeKept, Zenon
  <2>2. litq' \in Seq(Cell)
    BY <1>0, <1>9, StaticEffect, ConcatProperties
  <2>3. SymbolsTyped' /\ CountersTyped'
    BY <1>0, <1>9, StaticEffect DEF SymbolsTyped, CountersTyped
  <2> QED
    BY <2>1, <2>2, <2>3
<1>10. CASE Call
  <2>1. PlaceTyped' /\ asm' \in Seq(Line)
    BY <1>1, <1>10, CallEffect, PlaceTypeKept, Zenon
  <2>2. litq' \in Seq(Cell)
    <3>1. /\ litq' = IF Places(token.of) THEN litq \o Cells(Default(token.of), LitSize) ELSE litq
          /\ Cells(Default(token.of), LitSize) \in Seq(Cell)
      BY <1>10, CallEffect, Zenon
    <3> QED
      BY <1>0, <3>1, ConcatProperties
  <2>3. /\ token.of \in Funcs /\ ArgAddr \in Int
        /\ addr' = IF token.of \in prototyped \cup defined THEN addr
                   ELSE [addr EXCEPT ![token.of] = code_idx]
        /\ defaddr' = [defaddr EXCEPT ![token.of] = ArgAddr]
        /\ used' = IF sc_status = "skip" THEN used ELSE used \cup {token.of}
        /\ refer' = IF sc_status = "skip" THEN refer
                    ELSE [refer EXCEPT ![token.of] = refer[token.of] \cup {curfunc}]
        /\ UNCHANGED <<sc_status, defined, prototyped, default,
                       glb_declared, sc_labnum, sc_alignnext, curfunc, saved, wq>>
    BY <1>10, CallEffect, Zenon
  <2>4. SymbolsTyped'
    <3>1. curfunc \in Funcs
      BY <1>0, <1>10, CallEffect DEF CountersTyped
    <3>2. refer' \in [Vars \cup Funcs -> SUBSET Funcs] /\ used' \subseteq Vars \cup Funcs
      BY <1>0, <2>3, <3>1 DEF SymbolsTyped
    <3>3. addr' \in [Vars \cup Funcs -> Int] /\ defaddr' \in [Funcs -> Int]
      BY <1>0, <2>3 DEF SymbolsTyped, CountersTyped
    <3> QED
      BY <1>0, <2>3, <3>2, <3>3 DEF SymbolsTyped
  <2>5. CountersTyped'
    BY <1>0, <1>10, CallEffect DEF CountersTyped
  <2> QED
    BY <2>1, <2>2, <2>4, <2>5
<1>11. CASE While
  <2>1. PlaceTyped' /\ asm' \in Seq(Line)
    BY <1>1, <1>11, WhileEffect, PlaceTypeKept, Zenon
  <2>2. SymbolsTyped' /\ litq' \in Seq(Cell)
    BY <1>0, <1>11, WhileEffect DEF SymbolsTyped
  <2>3. CountersTyped'
    <3>1. /\ sc_labnum' = sc_labnum + 2 /\ wq' = Append(wq, sc_labnum) /\ code_idx' = code_idx + 4
          /\ UNCHANGED <<sc_status, glb_declared, sc_alignnext, curfunc, saved>>
      BY <1>11, WhileEffect, Zenon
    <3>2. wq' \in Seq(Nat)
      BY <1>0, <3>1, AppendProperties DEF CountersTyped
    <3> QED
      BY <1>0, <3>1, <3>2 DEF CountersTyped
  <2> QED
    BY <2>1, <2>2, <2>3
<1>12. CASE EndWhile
  <2>1. PlaceTyped' /\ asm' \in Seq(Line)
    BY <1>1, <1>12, EndWhileEffect, PlaceTypeKept, Zenon
  <2>2. SymbolsTyped' /\ litq' \in Seq(Cell)
    BY <1>0, <1>12, EndWhileEffect DEF SymbolsTyped
  <2>3. CountersTyped'
    BY <1>0, <1>12, EndWhileEffect DEF CountersTyped
  <2> QED
    BY <2>1, <2>2, <2>3
<1>13. CASE SyntaxError \/ Unfinished
  BY <1>0, <1>13 DEF SyntaxError, Unfinished, SymbolsTyped, CountersTyped, PlaceTyped, symbols, generator
<1>14. CASE BeginWritePass
  <2>1. asm' \in Seq(Line) /\ litq' \in Seq(Cell)
    <3>1. asm' = <<Instr(2)>> /\ Instr(2) \in Line /\ litq' = <<>>
      BY <1>14, BeginEffect, Zenon
    <3> QED
      BY <3>1
  <2>4. PlaceTyped'
    <3>1. pos' = 0 /\ UNCHANGED <<program, phase>>
      BY <1>14, BeginEffect, Zenon
    <3>2. 0 \in 0 .. Len(program)
      BY <1>0 DEF PlaceTyped
    <3> QED
      BY <1>0, <3>1, <3>2, Zenon DEF PlaceTyped
  <2>2. SymbolsTyped'
    BY <1>0, <1>14, BeginEffect DEF SymbolsTyped
  <2>3. CountersTyped'
    BY <1>0, <1>14, BeginEffect DEF CountersTyped
  <2> QED
    BY <2>1, <2>2, <2>3, <2>4
<1>15. CASE EndWritePass
  <2>1. asm' \in Seq(Line)
    BY <1>0, <1>15, TrailerEffect, ConcatProperties DEF Grown
  <2>2. SymbolsTyped' /\ PlaceTyped' /\ litq' \in Seq(Cell)
    BY <1>0, <1>15, TrailerEffect DEF SymbolsTyped, PlaceTyped
  <2>3. CountersTyped'
    <3>1. ToAlign(code_idx) \in Nat /\ ToAlign(glb_declared) \in Nat
      BY <1>0, Aligned DEF CountersTyped
    <3> QED
      BY <1>0, <1>15, <3>1, TrailerEffect DEF CountersTyped
  <2> QED
    BY <2>1, <2>2, <2>3
<1> QED
  BY <1>3, <1>4, <1>5, <1>6, <1>7, <1>8, <1>9, <1>10, <1>11, <1>12, <1>13, <1>14, <1>15 DEF Parse

-----------------------------------------------------------------------------
(***************************************************************************)
(* The place in the program                                                *)
(***************************************************************************)

(* A waiting #pragma align is followed by nothing that would have taken    *)
(* it.                                                                     *)
LEMMA AlignKept ==
  ASSUME GTypeOK, AlignInv, Parse
  PROVE  AlignInv'
<1>1. CASE UNCHANGED <<program, pos, sc_alignnext>>
  BY <1>1 DEF AlignInv
<1>2. ASSUME sc_alignnext' = FALSE
      PROVE  AlignInv'
  BY <1>2 DEF AlignInv
<1>3. CASE PragmaAlign
  <2>1. Parsing("align")
    BY <1>3 DEF PragmaAlign
  <2>2. program' = program /\ pos' = pos + 1 /\ pos \in Nat /\ program[pos + 1].op = "align"
    BY <2>1, Progress
  <2>3. pos + 1 \in 1 .. pos' /\ \A k \in pos + 1 + 1 .. pos' : FALSE
    BY <2>2
  <2> QED
    BY <2>2, <2>3 DEF AlignInv
<1>4. ASSUME NEW op, Parsing(op), op \notin {"global", "function", "static"}, sc_alignnext' = sc_alignnext
      PROVE  AlignInv'
  <2>1. program' = program /\ pos' = pos + 1 /\ pos \in Nat /\ program[pos + 1].op = op
    BY <1>4, Progress
  <2>2. SUFFICES ASSUME sc_alignnext
                 PROVE  \E i \in 1 .. pos + 1 :
                          /\ program[i].op = "align"
                          /\ \A k \in i + 1 .. pos + 1 : program[k].op \notin {"global", "function", "static"}
    BY <1>4, <2>1 DEF AlignInv
  <2>3. PICK i \in 1 .. pos : /\ program[i].op = "align"
                              /\ \A k \in i + 1 .. pos : program[k].op \notin {"global", "function", "static"}
    BY <2>2 DEF AlignInv
  <2>4. \A k \in i + 1 .. pos + 1 : k \in i + 1 .. pos \/ k = pos + 1
    BY <2>1
  <2>5. i \in 1 .. pos + 1
    BY <2>1
  <2> QED
    BY <1>4, <2>1, <2>3, <2>4, <2>5
<1>5. CASE DeclGlb \/ NewFunc \/ StaticLocal \/ BeginWritePass
  BY <1>2, <1>5 DEF DeclGlb, NewFunc, StaticLocal, BeginWritePass
<1>6. CASE EndFunc
  BY <1>4, <1>6 DEF EndFunc
<1>7. CASE Use
  BY <1>4, <1>7 DEF Use
<1>8. CASE PlaceLiteral
  BY <1>4, <1>8 DEF PlaceLiteral
<1>9. CASE Call
  <2>1. Parsing("call") /\ sc_alignnext' = sc_alignnext
    BY <1>9 DEF Call
  <2> QED
    BY <1>4, <2>1
<1>10. CASE While
  BY <1>4, <1>10 DEF While
<1>11. CASE EndWhile
  <2>1. Parsing("endwhile") /\ sc_alignnext' = sc_alignnext
    BY <1>11 DEF EndWhile
  <2> QED
    BY <1>4, <2>1
<1>12. CASE SyntaxError \/ Unfinished \/ EndWritePass
  BY <1>1, <1>12 DEF SyntaxError, Unfinished, EndWritePass, generator
<1> QED
  BY <1>3, <1>5, <1>6, <1>7, <1>8, <1>9, <1>10, <1>11, <1>12 DEF Parse

(* In a program without an aligned global, declglb() never pads.           *)
LEMMA NoPadding ==
  ASSUME GTypeOK, AlignInv, DeclGlb, ~AlignedGlobal
  PROVE  sc_alignnext = FALSE
<1>1. /\ pos + 1 \in 1 .. Len(program) /\ pos \in Nat /\ program[pos + 1].op = "global"
  <2>1. Parsing("global")
    BY DEF DeclGlb
  <2> QED
    BY <2>1, Progress
<1>2. ASSUME sc_alignnext PROVE FALSE
  <2>1. PICK i \in 1 .. pos : /\ program[i].op = "align"
                              /\ \A k \in i + 1 .. pos : program[k].op \notin {"global", "function", "static"}
    BY <1>2 DEF AlignInv
  <2>2. i \in 1 .. Len(program) /\ i < pos + 1 /\ \A k \in (i + 1) .. ((pos + 1) - 1) : k \in i + 1 .. pos
    BY <1>1
  <2> QED
    BY <1>1, <2>1, <2>2 DEF AlignedGlobal
<1>3. sc_alignnext \in BOOLEAN
  BY DEF GTypeOK
<1> QED
  BY <1>2, <1>3

(* Which function the token after the next one lies in.                    *)
LEMMA InNext ==
  ASSUME NEW h, NEW i \in Nat, i > 0
  PROVE  /\ In(h, i) /\ program[i].op \notin {"function", "end"} => In(h, i + 1)
         /\ program[i].op = "function" /\ program[i].of = h => In(h, i + 1)
         /\ In(h, i + 1) => \/ program[i].op = "function" /\ program[i].of = h
                            \/ In(h, i) /\ program[i].op \notin {"function", "end"}
<1>1. ASSUME In(h, i), program[i].op \notin {"function", "end"}
      PROVE  In(h, i + 1)
  <2>1. PICK k \in 1 .. i - 1 :
          /\ program[k].op = "function" /\ program[k].of = h
          /\ \A n \in k + 1 .. i - 1 : program[n].op \notin {"function", "end"}
    BY <1>1 DEF In
  <2>2. k \in 1 .. (i + 1) - 1 /\ \A n \in k + 1 .. (i + 1) - 1 : n \in k + 1 .. i - 1 \/ n = i
    OBVIOUS
  <2>3. \A n \in k + 1 .. (i + 1) - 1 : program[n].op \notin {"function", "end"}
    BY <1>1, <2>1, <2>2
  <2> QED
    BY <2>1, <2>2, <2>3 DEF In
<1>2. ASSUME program[i].op = "function", program[i].of = h
      PROVE  In(h, i + 1)
  <2>1. i \in 1 .. (i + 1) - 1 /\ \A n \in i + 1 .. (i + 1) - 1 : FALSE
    OBVIOUS
  <2> QED
    BY <1>2, <2>1 DEF In
<1>3. ASSUME In(h, i + 1)
      PROVE  \/ program[i].op = "function" /\ program[i].of = h
             \/ In(h, i) /\ program[i].op \notin {"function", "end"}
  <2>1. PICK k \in 1 .. (i + 1) - 1 :
          /\ program[k].op = "function" /\ program[k].of = h
          /\ \A n \in k + 1 .. (i + 1) - 1 : program[n].op \notin {"function", "end"}
    BY <1>3 DEF In
  <2>2. CASE k = i
    BY <2>1, <2>2
  <2>3. CASE k # i
    <3>1. k \in 1 .. i - 1 /\ i \in k + 1 .. (i + 1) - 1
      BY <2>3
    <3>2. \A n \in k + 1 .. i - 1 : n \in k + 1 .. (i + 1) - 1
      BY <3>1
    <3>3. In(h, i)
      BY <2>1, <3>1, <3>2 DEF In
    <3> QED
      BY <2>1, <3>1, <3>3
  <2> QED
    BY <2>2, <2>3
<1> QED
  BY <1>1, <1>2, <1>3

(* A token lies in the body of at most one function.                       *)
LEMMA InUnique ==
  ASSUME NEW h, NEW g, NEW i \in Nat, In(h, i), In(g, i)
  PROVE  h = g
<1>1. PICK k \in 1 .. i - 1 :
        /\ program[k].op = "function" /\ program[k].of = h
        /\ \A n \in k + 1 .. i - 1 : program[n].op \notin {"function", "end"}
  BY DEF In
<1>2. PICK m \in 1 .. i - 1 :
        /\ program[m].op = "function" /\ program[m].of = g
        /\ \A n \in m + 1 .. i - 1 : program[n].op \notin {"function", "end"}
  BY DEF In
<1>3. ~(k < m) /\ ~(m < k)
  BY <1>1, <1>2
<1> QED
  BY <1>1, <1>2, <1>3

\* a step that neither begins nor ends a function and declares no global
Statement(op) ==
  /\ Parsing(op) /\ op \notin {"global", "function", "end"}
  /\ sc_status' = sc_status /\ defined' = defined /\ prototyped' = prototyped /\ curfunc' = curfunc
  /\ curfunc # None \/ (op = "align" /\ wq' = wq /\ litq' = litq)

\* a step that ends the parsing
Rest ==
  /\ phase' # "parse"
  /\ UNCHANGED <<program, pos, sc_status, symbols, sc_labnum, sc_alignnext, litq, curfunc, saved, wq>>

(* Every step of the parser is a statement, one of the three kinds of      *)
(* declaration, the turn to the write pass, or leaves the symbols and the  *)
(* place in the program alone.                                             *)
LEMMA StepKind ==
  ASSUME GTypeOK, Parse
  PROVE  (\E op : Statement(op)) \/ DeclGlb \/ NewFunc \/ EndFunc \/ BeginWritePass \/ Rest
<1>1. CASE PragmaAlign
  <2>1. Statement("align")
    BY <1>1 DEF PragmaAlign, symbols, Statement
  <2> QED
    BY <2>1
<1>2. CASE Use
  <2>1. Statement("use")
    BY <1>2, UseEffect DEF Statement
  <2> QED
    BY <2>1
<1>3. CASE PlaceLiteral
  <2>1. Statement("literal")
    BY <1>3, LiteralEffect DEF Statement
  <2> QED
    BY <2>1
<1>4. CASE StaticLocal
  <2>1. Parsing("static") /\ curfunc # None
    BY <1>4, StaticEffect
  <2>2. sc_status' = sc_status /\ defined' = defined /\ prototyped' = prototyped /\ curfunc' = curfunc
    BY <1>4 DEF StaticLocal, symbols
  <2>3. Statement("static")
    BY <2>1, <2>2 DEF Statement
  <2> QED
    BY <2>3
<1>5. CASE Call
  <2>1. Statement("call")
    BY <1>5, CallEffect DEF Statement
  <2> QED
    BY <2>1
<1>6. CASE While
  <2>1. Statement("while")
    BY <1>6, WhileEffect DEF Statement
  <2> QED
    BY <2>1
<1>7. CASE EndWhile
  <2>1. Statement("endwhile")
    BY <1>7, EndWhileEffect DEF Statement
  <2> QED
    BY <2>1
<1>8. CASE SyntaxError \/ Unfinished \/ EndWritePass
  BY <1>8 DEF SyntaxError, Unfinished, EndWritePass, symbols, generator, Rest
<1> QED
  BY <1>1, <1>2, <1>3, <1>4, <1>5, <1>6, <1>7, <1>8, Zenon DEF Parse

(* Every step keeps PlaceInv: in particular a function's end empties the   *)
(* literal queue, and finds no open loop.                                  *)
LEMMA PlaceKept ==
  ASSUME GTypeOK, PlaceInv, Parse
  PROVE  PlaceInv'
<1>0. OutsideInv /\ InsideInv /\ DefinedInv /\ PrototypedInv /\ pos \in Nat
  BY DEF GTypeOK, PlaceInv
<1> SUFFICES OutsideInv' /\ InsideInv' /\ DefinedInv' /\ PrototypedInv'
  BY Zenon DEF PlaceInv
<1>1. ASSUME NEW op, Parsing(op), defined \subseteq defined',
             op \in {"function", "global"} => token.of \in defined'
      PROVE  DefinedInv'
  <2>1. program' = program /\ pos' = pos + 1 /\ program[pos + 1].op = op /\ token = program[pos + 1]
    BY <1>1, Progress
  <2>2. \A i \in 1 .. pos + 1 : i \in 1 .. pos \/ i = pos + 1
    BY <1>0
  <2> QED
    BY <1>0, <1>1, <2>1, <2>2 DEF DefinedInv
<1>2. ASSUME NEW op, Parsing(op), prototyped' = prototyped
      PROVE  PrototypedInv'
  <2>1. program' = program
    BY <1>2, Progress
  <2> QED
    BY <1>0, <1>2, <2>1 DEF PrototypedInv
<1>3. ASSUME NEW op, Statement(op)
      PROVE  OutsideInv' /\ InsideInv' /\ DefinedInv' /\ PrototypedInv'
  <2>1. program' = program /\ pos' = pos + 1 /\ program[pos + 1].op = op
    BY <1>3, Progress DEF Statement
  <2>2. OutsideInv'
    BY <1>0, <1>3 DEF OutsideInv, Statement
  <2>3. InsideInv'
    <3>1. CASE curfunc = None
      BY <1>3, <3>1 DEF InsideInv, Statement
    <3>2. CASE curfunc # None
      <4>1. In(curfunc, pos + 1) /\ pos + 1 \in Nat /\ pos + 1 > 0
        BY <1>0, <3>2 DEF InsideInv
      <4>2. program[pos + 1].op \notin {"function", "end"}
        BY <1>3, <2>1 DEF Statement
      <4>3. In(curfunc, pos + 1 + 1)
        BY <4>1, <4>2, InNext
      <4>4. In(curfunc', pos' + 1)
        BY <1>3, <2>1, <4>3 DEF Statement
      <4> QED
        BY <2>1, <4>4 DEF InsideInv, In
    <3> QED
      BY <3>1, <3>2
  <2> QED
    BY <1>1, <1>2, <1>3, <2>2, <2>3 DEF Statement
<1>4. CASE DeclGlb
  <2>1. Parsing("global") /\ defined' = defined \cup {token.of}
        /\ UNCHANGED <<sc_status, prototyped, litq, curfunc, wq>>
    BY <1>4, GlobalEffect
  <2>2. OutsideInv'
    BY <1>0, <2>1 DEF OutsideInv
  <2>3. InsideInv'
    <3>1. curfunc = None
      <4>1. token.op = "global" /\ Legal(token)
        BY <2>1, Progress
      <4> QED
        BY <4>1 DEF Legal
    <3> QED
      BY <2>1, <3>1 DEF InsideInv
  <2> QED
    BY <1>1, <1>2, <2>1, <2>2, <2>3
<1>5. CASE NewFunc
  <2>1. Parsing("function") /\ defined' = defined \cup {token.of} /\ curfunc' = token.of
        /\ prototyped' = prototyped \cup {token.of} /\ token.of \in Funcs
    BY <1>5, FunctionEffect
  <2>2. /\ program' = program /\ pos' = pos + 1 /\ token = program[pos + 1] /\ token.op = "function"
        /\ pos + 1 \in 1 .. Len(program)
    BY <2>1, Progress
  <2>3. curfunc' # None
    BY <2>1, Sizes
  <2>4. InsideInv'
    <3>1. In(token.of, pos + 1 + 1)
      <4>1. pos + 1 \in Nat /\ pos + 1 > 0
        BY <1>0
      <4> QED
        BY <2>2, <4>1, InNext
    <3>2. In(curfunc', pos' + 1)
      BY <2>1, <2>2, <3>1
    <3> QED
      BY <2>2, <3>2 DEF InsideInv, In
  <2>5. PrototypedInv'
    BY <1>0, <2>1, <2>2 DEF PrototypedInv
  <2> QED
    BY <1>1, <2>1, <2>3, <2>4, <2>5 DEF OutsideInv
<1>6. CASE EndFunc
  <2>1. Parsing("end") /\ curfunc' = None /\ wq' = <<>> /\ litq' = <<>>
        /\ sc_status' # "skip" /\ UNCHANGED <<defined, prototyped>>
    BY <1>6, EndEffect
  <2> QED
    BY <1>1, <1>2, <2>1 DEF OutsideInv, InsideInv
<1>7. CASE BeginWritePass
  <2>1. /\ curfunc' = None /\ sc_status' = "write" /\ wq' = <<>> /\ litq' = <<>> /\ pos' = 0
        /\ UNCHANGED <<program, prototyped>>
    BY <1>7, BeginEffect
  <2> QED
    BY <1>0, <2>1 DEF OutsideInv, InsideInv, DefinedInv, PrototypedInv
<1>8. CASE Rest
  <2>1. UNCHANGED <<program, pos, sc_status, defined, prototyped, curfunc, wq, litq>>
    BY <1>8, Zenon DEF Rest, symbols
  <2> QED
    BY <1>0, <2>1, Zenon DEF OutsideInv, InsideInv, DefinedInv, PrototypedInv, In
<1> QED
  BY <1>3, <1>4, <1>5, <1>6, <1>7, <1>8, StepKind

-----------------------------------------------------------------------------
(***************************************************************************)
(* The skimming pass                                                       *)
(***************************************************************************)

(* reduce_referrers() finds the greatest set of functions that are no      *)
(* roots and to which only each other refer.                               *)
LEMMA DeadFacts ==
  /\ Dead \subseteq Funcs \ Roots
  /\ \A f \in Funcs \ Roots : refer[f] \subseteq Dead <=> f \in Dead
<1>1. Prunes(Dead)
  BY Zenon DEF Prunes, Dead
<1>2. Dead \subseteq Funcs \ Roots
  <2>1. Prunes(Funcs \ Roots) /\ Funcs \ Roots \in SUBSET Funcs
    BY Zenon DEF Prunes
  <2> QED
    BY <2>1, Zenon DEF Dead
<1>3. \A f \in Dead : refer[f] \subseteq Dead
  <2> DEFINE D == {f \in Dead : refer[f] \subseteq Dead}
  <2>1. Prunes(D)
    BY <1>1, Zenon DEF Prunes
  <2>2. D \in SUBSET Funcs
    BY <1>2
  <2>3. Dead \subseteq D
    <3> HIDE DEF D
    <3> QED
      BY <2>1, <2>2, Zenon DEF Dead
  <2> QED
    BY <2>3
<1> QED
  BY <1>1, <1>2, <1>3, Zenon DEF Prunes

(* The skimming pass writes nothing.                                       *)
LEMMA NothingFiled ==
  ASSUME asm = <<>>, NEW lines, Grown(Filed("first", lines))
  PROVE  asm' = <<>>
BY DEF Grown, Filed

(* The skimming pass only ends by BeginWritePass.                          *)
LEMMA FirstStays ==
  ASSUME GTypeOK, Parse, sc_status' = "first"
  PROVE  sc_status = "first" /\ ~BeginWritePass
<1>1. CASE DeclGlb
  BY <1>1 DEF DeclGlb, BeginWritePass
<1>2. CASE NewFunc
  BY <1>2, FunctionEffect DEF BeginWritePass
<1>3. CASE EndFunc
  BY <1>3, EndEffect DEF BeginWritePass
<1>4. ~BeginWritePass
  BY DEF BeginWritePass
<1>5. CASE Rest
  BY <1>4, <1>5 DEF Rest
<1>6. ASSUME NEW op, Statement(op) PROVE sc_status = "first"
  BY <1>6 DEF Statement
<1> QED
  BY <1>1, <1>2, <1>3, <1>4, <1>5, <1>6, StepKind

(* Every step keeps FirstInv: no default array is placed before the write  *)
(* pass.                                                                   *)
LEMMA FirstKept ==
  ASSUME GTypeOK, FirstInv, Parse
  PROVE  FirstInv'
<1> SUFFICES ASSUME sc_status' = "first"
             PROVE  /\ asm' = <<>>
                    /\ \A f \in Funcs : default'[f] = ArrayDefault => defaddr'[f] = -1
                    /\ \A i \in 1 .. pos' : program'[i].op = "function" => program'[i].of \in prototyped'
  BY DEF FirstInv
<1>0. /\ sc_status = "first" /\ ~BeginWritePass /\ asm = <<>>
      /\ \A f \in Funcs : default[f] = ArrayDefault => defaddr[f] = -1
      /\ \A i \in 1 .. pos : program[i].op = "function" => program[i].of \in prototyped
      /\ default \in [Funcs -> Vars \cup {ArrayDefault, None}] /\ defaddr \in [Funcs -> Int]
  BY FirstStays DEF FirstInv, GTypeOK
<1>1. ASSUME NEW op, Parsing(op), prototyped \subseteq prototyped',
             op = "function" => token.of \in prototyped'
      PROVE  \A i \in 1 .. pos' : program'[i].op = "function" => program'[i].of \in prototyped'
  <2>1. /\ program' = program /\ pos' = pos + 1 /\ program[pos + 1].op = op /\ token = program[pos + 1]
        /\ pos \in Nat
    BY <1>1, Progress
  <2>2. \A i \in 1 .. pos + 1 : i \in 1 .. pos \/ i = pos + 1
    BY <2>1
  <2> QED
    BY <1>0, <1>1, <2>1, <2>2
<1>2. ASSUME NEW op, Parsing(op), UNCHANGED <<prototyped, default, defaddr>>, op # "function",
             NEW lines, Grown(Filed("first", lines))
      PROVE  /\ asm' = <<>>
             /\ \A f \in Funcs : default'[f] = ArrayDefault => defaddr'[f] = -1
             /\ \A i \in 1 .. pos' : program'[i].op = "function" => program'[i].of \in prototyped'
  <2>1. asm' = <<>>
    BY <1>0, <1>2, NothingFiled
  <2> QED
    BY <1>0, <1>1, <1>2, <2>1
<1>3. CASE PragmaAlign
  <2>1. Parsing("align") /\ UNCHANGED <<prototyped, default, defaddr, asm>>
    BY <1>3, Zenon DEF PragmaAlign, symbols
  <2> QED
    BY <1>0, <1>1, <2>1
<1>4. CASE DeclGlb
  <2>1. /\ Parsing("global") /\ prototyped' = prototyped /\ default' = default /\ defaddr' = defaddr
        /\ Grown(Filed("first", GlobalLines))
    BY <1>0, <1>4, GlobalEffect
  <2> QED
    BY <1>2, <2>1
<1>5. CASE NewFunc
  <2>1. /\ Parsing("function") /\ token.of \in Funcs /\ prototyped' = prototyped \cup {token.of}
        /\ default' = IF token.of \in prototyped THEN default
                      ELSE [default EXCEPT ![token.of] = token.default]
        /\ defaddr' = IF token.of \in prototyped THEN defaddr
                      ELSE [defaddr EXCEPT ![token.of] =
                              IF token.default \in Vars THEN addr[token.default] ELSE -1]
        /\ Grown(Filed("first", FunctionLines))
    BY <1>5, FunctionEffect, Zenon
  <2>2. asm' = <<>>
    BY <1>0, <2>1, NothingFiled
  <2>3. \A f \in Funcs : default'[f] = ArrayDefault => defaddr'[f] = -1
    BY <1>0, <2>1, Sizes
  <2> QED
    BY <1>1, <2>1, <2>2, <2>3
<1>6. CASE EndFunc
  <2>1. /\ Parsing("end") /\ prototyped' = prototyped /\ default' = default /\ defaddr' = defaddr
        /\ Grown(Filed("first", EndLines))
    BY <1>0, <1>6, EndEffect
  <2> QED
    BY <1>2, <2>1
<1>7. CASE Use
  <2>1. /\ Parsing("use") /\ prototyped' = prototyped /\ default' = default /\ defaddr' = defaddr
        /\ Grown(Filed("first", <<UseLine>>))
    BY <1>0, <1>7, UseEffect
  <2> QED
    BY <1>2, <2>1
<1>8. CASE PlaceLiteral
  <2>1. /\ Parsing("literal") /\ prototyped' = prototyped /\ default' = default /\ defaddr' = defaddr
        /\ Grown(Filed("first", <<LiteralLine>>))
    BY <1>0, <1>8, LiteralEffect
  <2> QED
    BY <1>2, <2>1
<1>9. CASE StaticLocal
  <2>1. /\ Parsing("static") /\ prototyped' = prototyped /\ default' = default /\ defaddr' = defaddr
        /\ Grown(Filed("first", <<StaticLine>>))
    BY <1>0, <1>9, StaticEffect
  <2> QED
    BY <1>2, <2>1
<1>10. CASE Call
  <2>1. /\ Parsing("call") /\ token.of \in Funcs /\ prototyped' = prototyped /\ default' = default
        /\ defaddr' = [defaddr EXCEPT ![token.of] = ArgAddr]
        /\ Grown(Filed("first", CallLines))
    BY <1>0, <1>10, CallEffect
  <2>2. ArgAddr = defaddr[token.of]
    BY <1>0 DEF ArgAddr, Places
  <2>3. defaddr' = defaddr
    BY <1>0, <2>1, <2>2
  <2> QED
    BY <1>2, <2>1, <2>3
<1>11. CASE While
  <2>1. /\ Parsing("while") /\ prototyped' = prototyped /\ default' = default /\ defaddr' = defaddr
        /\ Grown(Filed("first", WhileLines))
    BY <1>0, <1>11, WhileEffect
  <2> QED
    BY <1>2, <2>1
<1>12. CASE EndWhile
  <2>1. /\ Parsing("endwhile") /\ prototyped' = prototyped /\ default' = default /\ defaddr' = defaddr
        /\ Grown(Filed("first", EndWhileLines))
    BY <1>0, <1>12, EndWhileEffect
  <2> QED
    BY <1>2, <2>1
<1>13. CASE SyntaxError \/ Unfinished
  BY <1>0, <1>13 DEF SyntaxError, Unfinished, symbols, generator
<1>14. ~EndWritePass
  BY <1>0 DEF EndWritePass
<1> QED
  BY <1>0, <1>3, <1>4, <1>5, <1>6, <1>7, <1>8, <1>9, <1>10, <1>11, <1>12, <1>13, <1>14 DEF Parse

\* a step that marks nothing but what newfunc() marks
Silent(op) == Parsing(op) /\ op \notin {"use", "call"} /\ refer' = refer /\ (used' = used \/ NewFunc)

\* a step that marks what it refers to
Marking(op) ==
  /\ Parsing(op) /\ curfunc # None /\ curfunc' = curfunc /\ defined' = defined /\ sc_status' = sc_status
  /\ \/ op = "use" /\ token.of \in Vars /\ token.of \in defined
     \/ op = "call" /\ token.of \in Funcs
  /\ \/ /\ used' = used \cup {token.of}
        /\ refer' = [refer EXCEPT ![token.of] = refer[token.of] \cup {curfunc}]
        /\ op = "call" => sc_status # "skip"
     \/ op = "call" /\ sc_status = "skip" /\ used' = used /\ refer' = refer

(* A step of the parser marks a symbol as used by the current function,    *)
(* marks none, or begins the write pass.                                   *)
LEMMA MarkKind ==
  ASSUME GTypeOK, Parse
  PROVE  \/ \E op : Silent(op)
         \/ \E op : Marking(op)
         \/ program' = program /\ pos' = pos /\ used' = used /\ refer' = refer
         \/ BeginWritePass
<1>1. CASE PragmaAlign
  <2>1. Silent("align")
    BY <1>1 DEF PragmaAlign, symbols, Silent
  <2> QED
    BY <2>1
<1>2. CASE DeclGlb
  <2>1. Silent("global")
    BY <1>2, GlobalEffect DEF Silent
  <2> QED
    BY <2>1
<1>3. CASE NewFunc
  <2>1. Silent("function")
    BY <1>3, FunctionEffect DEF Silent
  <2> QED
    BY <2>1
<1>4. CASE EndFunc
  <2>1. Silent("end")
    BY <1>4, EndEffect DEF Silent
  <2> QED
    BY <2>1
<1>5. CASE Use
  <2>1. Marking("use")
    BY <1>5, UseEffect DEF Marking
  <2> QED
    BY <2>1
<1>6. CASE PlaceLiteral
  <2>1. Silent("literal")
    BY <1>6, LiteralEffect DEF Silent
  <2> QED
    BY <2>1
<1>7. CASE StaticLocal
  <2>1. Silent("static")
    BY <1>7 DEF StaticLocal, symbols, Silent
  <2> QED
    BY <2>1
<1>8. CASE Call
  <2>1. /\ Parsing("call") /\ token.of \in Funcs /\ curfunc # None
        /\ used' = IF sc_status = "skip" THEN used ELSE used \cup {token.of}
        /\ refer' = IF sc_status = "skip" THEN refer
                    ELSE [refer EXCEPT ![token.of] = refer[token.of] \cup {curfunc}]
        /\ curfunc' = curfunc /\ defined' = defined /\ sc_status' = sc_status
    BY <1>8, CallEffect
  <2>2. Marking("call")
    BY <2>1 DEF Marking
  <2> QED
    BY <2>2
<1>9. CASE While
  <2>1. Silent("while")
    BY <1>9, WhileEffect DEF Silent
  <2> QED
    BY <2>1
<1>10. CASE EndWhile
  <2>1. Silent("endwhile")
    BY <1>10, EndWhileEffect DEF Silent
  <2> QED
    BY <2>1
<1>11. CASE SyntaxError \/ Unfinished \/ EndWritePass
  BY <1>11 DEF SyntaxError, Unfinished, EndWritePass, symbols
<1> QED
  BY <1>1, <1>2, <1>3, <1>4, <1>5, <1>6, <1>7, <1>8, <1>9, <1>10, <1>11, Zenon DEF Parse

(* The operators on the program say the same in the next state.            *)
LEMMA RefersKept ==
  ASSUME program' = program
  PROVE  \A h, i, s : RefersIn(h, i, s)' <=> RefersIn(h, i, s)
BY DEF RefersIn, Refers, In

(* Every step keeps ReferInv: markusage() records each reference and       *)
(* nothing else.                                                           *)
LEMMA ReferKept ==
  ASSUME GTypeOK, PlaceInv, ReferInv, Parse
  PROVE  ReferInv'
<1> SUFFICES ASSUME sc_status' = "first"
             PROVE  ReferredInv' /\ ReferrersInv' /\ UsedInv'
  BY Zenon DEF ReferInv
<1>0. /\ sc_status = "first" /\ ~BeginWritePass
      /\ ReferredInv /\ ReferrersInv /\ UsedInv /\ InsideInv
      /\ refer \in [Vars \cup Funcs -> SUBSET Funcs] /\ used \subseteq Vars \cup Funcs
      /\ curfunc \in Funcs \cup {None} /\ pos \in Nat
  BY FirstStays DEF GTypeOK, PlaceInv, ReferInv
<1>1. ASSUME NEW op, Silent(op)
      PROVE  ReferredInv' /\ ReferrersInv' /\ UsedInv'
  <2>1. /\ program' = program /\ pos' = pos + 1 /\ program[pos + 1].op = op
        /\ refer' = refer /\ op \notin {"use", "call"} /\ (used' = used \/ NewFunc)
    BY <1>1, Progress DEF Silent
  <2>2. used \subseteq used' /\ \A s \in used' : s \in used \/ s \in Roots
    <3>1. CASE NewFunc
      BY <1>0, <3>1, FunctionEffect
    <3> QED
      BY <2>1, <3>1
  <2>3. \A i \in 1 .. pos + 1 : i \in 1 .. pos \/ i = pos + 1
    BY <1>0
  <2>4. \A h, i, s : RefersIn(h, i, s)' <=> RefersIn(h, i, s)
    BY <2>1, RefersKept
  <2>5. \A h, s : ~RefersIn(h, pos + 1, s)
    BY <2>1 DEF RefersIn, Refers
  <2>6. ReferredInv'
    BY <1>0, <2>1, <2>2, <2>3, <2>4, <2>5 DEF ReferredInv
  <2>7. ReferrersInv'
    BY <1>0, <2>1, <2>2, <2>4 DEF ReferrersInv
  <2>8. UsedInv'
    BY <1>0, <2>1, <2>2 DEF UsedInv
  <2> QED
    BY <2>6, <2>7, <2>8
<1>2. ASSUME NEW op, Marking(op)
      PROVE  ReferredInv' /\ ReferrersInv' /\ UsedInv'
  <2>1. /\ program' = program /\ pos' = pos + 1 /\ program[pos + 1].op = op
        /\ token = program[pos + 1] /\ pos + 1 \in 1 .. Len(program)
    BY <1>2, Progress DEF Marking
  <2>2. /\ token.of \in Vars \cup Funcs /\ op \in {"use", "call"} /\ curfunc # None
        /\ used' = used \cup {token.of}
        /\ refer' = [refer EXCEPT ![token.of] = refer[token.of] \cup {curfunc}]
    BY <1>0, <1>2 DEF Marking
  <2> DEFINE x == token.of
  <2>3. refer' \in [Vars \cup Funcs -> SUBSET Funcs] /\ x \in Vars \cup Funcs
        /\ \A s \in Vars \cup Funcs : refer'[s] = IF s = x THEN refer[s] \cup {curfunc} ELSE refer[s]
    BY <1>0, <2>2
  <2>4. \A i \in 1 .. pos + 1 : i \in 1 .. pos \/ i = pos + 1
    BY <1>0
  <2>5. \A h, i, s : RefersIn(h, i, s)' <=> RefersIn(h, i, s)
    BY <2>1, RefersKept
  <2>6. RefersIn(curfunc, pos + 1, x)
    BY <1>0, <2>1, <2>2 DEF RefersIn, Refers, InsideInv
  <2>7. \A h, s : RefersIn(h, pos + 1, s) => h = curfunc /\ s = x
    BY <1>0, <2>1, <2>6, InUnique DEF RefersIn, Refers
  <2>8. used' = used \cup {x}
    BY <2>2
  <2> HIDE DEF x
  <2>9. ReferredInv'
    <3>1. ASSUME NEW i \in 1 .. pos + 1, NEW h \in Funcs, NEW s \in Vars \cup Funcs, RefersIn(h, i, s)
          PROVE  h \in refer'[s] /\ s \in used'
      <4>1. CASE i \in 1 .. pos
        BY <1>0, <2>3, <2>8, <3>1, <4>1 DEF ReferredInv
      <4>2. CASE i = pos + 1
        BY <2>3, <2>7, <2>8, <3>1, <4>2
      <4> QED
        BY <2>4, <4>1, <4>2
    <3> QED
      BY <2>1, <2>5, <3>1 DEF ReferredInv
  <2>10. ReferrersInv'
    BY <1>0, <2>1, <2>3, <2>5, <2>6, <2>8 DEF ReferrersInv
  <2>11. UsedInv'
    BY <1>0, <2>3, <2>8 DEF UsedInv
  <2> QED
    BY <2>9, <2>10, <2>11
<1>3. CASE program' = program /\ pos' = pos /\ used' = used /\ refer' = refer
  BY <1>0, <1>3, RefersKept DEF ReferredInv, ReferrersInv, UsedInv
<1> QED
  BY <1>0, <1>1, <1>2, <1>3, MarkKind

-----------------------------------------------------------------------------
(***************************************************************************)
(* Alive functions                                                         *)
(***************************************************************************)

(* Who is alive does not change while the program is written: a use counts *)
(* only inside an alive function, and what it refers to is alive already.  *)
LEMMA AliveStays ==
  ASSUME GTypeOK, PlaceInv, AliveInv, Parse, sc_status # "first"
  PROVE  /\ Alive' = Alive /\ used \subseteq used' /\ sc_status' # "first"
         /\ \A s \in used' : s \in used \/ s \in Roots \/ s \in Vars \cap defined
<1>0. /\ AliveRefers /\ SkipsDead /\ InsideInv
      /\ curfunc \in Funcs \cup {None} /\ used \subseteq Vars \cup Funcs
  BY DEF GTypeOK, PlaceInv, AliveInv
<1>1. sc_status' # "first"
  BY FirstStays
<1>2. ASSUME NEW op, Silent(op)
      PROVE  /\ used \subseteq used' /\ used' \cap Funcs \subseteq used \cup Roots
             /\ \A s \in used' : s \in used \/ s \in Roots \/ s \in Vars \cap defined
  <2>1. CASE NewFunc
    <3>1. used' = used \cup ({token.of} \cap Roots)
                       \cup (IF sc_status = "write" THEN {token.default} \cap Vars ELSE {})
      BY <2>1, FunctionEffect
    <3>2. Legal(token) /\ token.op = "function"
      BY <2>1, FunctionEffect, Progress
    <3>3. token.default \in Vars => token.default \in defined
      BY <3>2 DEF Legal
    <3> QED
      BY <3>1, <3>3, Sizes
  <2> QED
    BY <1>2, <2>1 DEF Silent
<1>3. ASSUME NEW op, Marking(op)
      PROVE  /\ used \subseteq used' /\ used' \cap Funcs \subseteq used \cup Roots
             /\ \A s \in used' : s \in used \/ s \in Roots \/ s \in Vars \cap defined
  <2>1. /\ program[pos + 1].op = op /\ token = program[pos + 1] /\ pos + 1 \in 1 .. Len(program)
    BY <1>3, Progress DEF Marking
  <2>2. CASE op = "use"
    BY <1>3, <2>2, Sizes DEF Marking
  <2>3. CASE op = "call" /\ sc_status # "skip"
    <3>1. curfunc \in Alive /\ token.of \in Funcs
      BY <1>0, <1>3, <2>3 DEF SkipsDead, Marking
    <3>2. RefersIn(curfunc, pos + 1, token.of)
      BY <1>0, <1>3, <2>1, <2>3 DEF RefersIn, Refers, InsideInv, Marking
    <3>3. token.of \in used
      BY <1>0, <2>1, <3>1, <3>2 DEF AliveRefers
    <3> QED
      BY <1>3, <2>3, <3>3 DEF Marking
  <2>4. CASE op = "call" /\ sc_status = "skip"
    BY <1>3, <2>4 DEF Marking
  <2> QED
    BY <1>3, <2>2, <2>3, <2>4 DEF Marking
<1>4. ~BeginWritePass
  BY DEF BeginWritePass
<1>5. /\ used \subseteq used' /\ used' \cap Funcs \subseteq used \cup Roots
      /\ \A s \in used' : s \in used \/ s \in Roots \/ s \in Vars \cap defined
  BY <1>2, <1>3, <1>4, MarkKind
<1> QED
  BY <1>1, <1>5, Sizes DEF Alive

(* What delete_symbols() leaves used is what the functions that survive    *)
(* refer to.                                                               *)
LEMMA ReduceReferrers ==
  ASSUME GTypeOK, ReferInv, FirstInv, BeginWritePass
  PROVE  /\ \A h \in Alive' : h \in Funcs \ Dead
         /\ \A h \in Funcs \ Dead : h \in Alive'
         /\ AliveRefers' /\ UsedByAlive' /\ AllPrototyped'
<1>0. /\ sc_status = "first" /\ pos = Len(program) /\ program' = program
      /\ used' = used \ Unused /\ defined' = {} /\ prototyped' = prototyped
      /\ refer \in [Vars \cup Funcs -> SUBSET Funcs] /\ used \subseteq Vars \cup Funcs
      /\ Roots \subseteq Funcs /\ Vars \cap Funcs = {}
  BY BeginEffect, Sizes DEF GTypeOK
<1>1. ReferredInv /\ ReferrersInv /\ UsedInv
  BY <1>0 DEF ReferInv
<1>2. /\ Dead \subseteq Funcs \ Roots
      /\ \A f \in Funcs \ Roots : refer[f] \subseteq Dead <=> f \in Dead
  BY DeadFacts
<1>3. Unused = Dead \cup {v \in Vars : refer[v] \subseteq Dead}
  BY DEF Unused
<1>4. Alive' = ((used \ Unused) \cap Funcs) \cup Roots
  BY <1>0 DEF Alive
<1>5. \A h \in Alive' : h \in Funcs \ Dead
  BY <1>0, <1>2, <1>3, <1>4
<1>6. ASSUME NEW h \in Funcs \ Dead
      PROVE  h \in Alive'
  <2>1. CASE h \in Roots
    BY <1>4, <2>1
  <2>2. CASE h \notin Roots
    <3>1. PICK g \in refer[h] : g \notin Dead
      BY <1>2, <1>6, <2>2
    <3>2. h \in used
      BY <1>1, <1>6, <3>1 DEF ReferrersInv
    <3>3. h \notin Unused
      BY <1>0, <1>3, <1>6
    <3> QED
      BY <1>4, <1>6, <3>2, <3>3
  <2> QED
    BY <2>1, <2>2
<1>7. \A h, i, s : RefersIn(h, i, s)' <=> RefersIn(h, i, s)
  BY <1>0, RefersKept
<1>8. AliveRefers'
  <2>1. ASSUME NEW i \in 1 .. Len(program), NEW h \in Alive', NEW s \in Vars \cup Funcs, RefersIn(h, i, s)
        PROVE  s \in used \ Unused
    <3>1. h \in Funcs \ Dead
      BY <1>5
    <3>2. h \in refer[s] /\ s \in used
      BY <1>0, <1>1, <2>1, <3>1 DEF ReferredInv
    <3>3. s \notin Dead
      BY <1>2, <3>1, <3>2
    <3> QED
      BY <1>3, <3>1, <3>2, <3>3
  <2> QED
    BY <1>0, <1>7, <2>1 DEF AliveRefers
<1>9. UsedByAlive'
  <2>1. ASSUME NEW s \in used \ Unused, s \notin Roots
        PROVE  \E i \in 1 .. Len(program), h \in Alive' : RefersIn(h, i, s)
    <3>1. PICK h \in refer[s] : h \notin Dead
      BY <1>0, <1>2, <1>3, <2>1
    <3>2. s \in Vars \cup Funcs /\ h \in Funcs
      BY <1>0, <2>1, <3>1
    <3>3. h \in Alive'
      BY <1>6, <3>1, <3>2
    <3>4. PICK i \in 1 .. Len(program) : RefersIn(h, i, s)
      BY <1>1, <3>1, <3>2 DEF ReferrersInv
    <3> QED
      BY <3>3, <3>4
  <2> QED
    BY <1>0, <1>7, <2>1 DEF UsedByAlive
<1>10. AllPrototyped'
  BY <1>0 DEF AllPrototyped, FirstInv
<1> QED
  BY <1>5, <1>6, <1>8, <1>9, <1>10

(* Every step keeps AliveInv: it is established by BeginWritePass and kept *)
(* by the write pass.                                                      *)
LEMMA AliveKept ==
  ASSUME GTypeOK, PlaceInv, FirstInv, ReferInv, AliveInv, Parse
  PROVE  AliveInv'
<1> SUFFICES ASSUME sc_status' # "first"
             PROVE  AliveRefers' /\ UsedByAlive' /\ SkipsDead' /\ AllPrototyped'
  BY Zenon DEF AliveInv
<1>1. CASE BeginWritePass
  <2>1. curfunc' = None
    BY <1>1, BeginEffect
  <2> QED
    BY <1>1, <2>1, ReduceReferrers DEF SkipsDead
<1>2. CASE ~BeginWritePass
  <2>1. sc_status # "first"
    <3>1. CASE NewFunc
      BY <3>1, FunctionEffect
    <3>2. CASE DeclGlb
      BY <3>2, GlobalEffect
    <3>3. CASE EndFunc
      BY <3>3, EndEffect
    <3>4. CASE Rest
      BY <3>4 DEF Rest
    <3>5. ASSUME NEW op, Statement(op) PROVE sc_status # "first"
      BY <3>5 DEF Statement
    <3> QED
      BY <1>2, <3>1, <3>2, <3>3, <3>4, <3>5, StepKind
  <2>2. /\ AliveRefers /\ UsedByAlive /\ SkipsDead /\ AllPrototyped /\ OutsideInv
    BY <2>1 DEF PlaceInv, AliveInv
  <2>3. /\ Alive' = Alive /\ used \subseteq used'
        /\ \A s \in used' : s \in used \/ s \in Roots \/ s \in Vars \cap defined
    BY <2>1, AliveStays
  <2>4. program' = program /\ defined \subseteq defined' /\ prototyped \subseteq prototyped'
    <3>1. CASE NewFunc
      BY <3>1, FunctionEffect, Progress
    <3>2. CASE DeclGlb
      BY <3>2, GlobalEffect, Progress
    <3>3. CASE EndFunc
      BY <3>3, EndEffect, Progress
    <3>4. CASE Rest
      BY <3>4 DEF Rest, symbols
    <3>5. ASSUME NEW op, Statement(op)
          PROVE  program' = program /\ defined \subseteq defined' /\ prototyped \subseteq prototyped'
      BY <3>5, Progress DEF Statement
    <3> QED
      BY <1>2, <3>1, <3>2, <3>3, <3>4, <3>5, StepKind
  <2>5. \A h, i, s : RefersIn(h, i, s)' <=> RefersIn(h, i, s)
    BY <2>4, RefersKept
  <2>6. AliveRefers'
    BY <2>2, <2>3, <2>4, <2>5 DEF AliveRefers
  <2>7. UsedByAlive'
    BY <2>2, <2>3, <2>4, <2>5 DEF UsedByAlive
  <2>8. AllPrototyped'
    BY <2>2, <2>4 DEF AllPrototyped
  <2>9. SkipsDead'
    <3>1. CASE NewFunc
      <4>1. /\ token.of \in Funcs /\ curfunc' = token.of
            /\ sc_status' = IF sc_status = "write" /\ token.of \notin used' THEN "skip" ELSE sc_status
            /\ used' = used \cup ({token.of} \cap Roots)
                            \cup (IF sc_status = "write" THEN {token.default} \cap Vars ELSE {})
        BY <3>1, FunctionEffect
      <4>2. sc_status = "write"
        <5>1. curfunc = None
          <6>1. Legal(token) /\ token.op = "function"
            BY <3>1, FunctionEffect, Progress
          <6> QED
            BY <6>1 DEF Legal
        <5> QED
          BY <2>1, <2>2, <5>1 DEF OutsideInv, GTypeOK
      <4>3. token.of \in Alive' <=> token.of \in used'
        BY <4>1, Sizes DEF Alive
      <4> QED
        BY <4>1, <4>2, <4>3 DEF SkipsDead
    <3>2. CASE DeclGlb
      BY <2>2, <2>3, <3>2, GlobalEffect DEF SkipsDead
    <3>3. CASE EndFunc
      BY <3>3, EndEffect DEF SkipsDead
    <3>4. CASE Rest
      BY <2>2, <2>3, <3>4 DEF Rest, SkipsDead
    <3>5. ASSUME NEW op, Statement(op) PROVE SkipsDead'
      BY <2>2, <2>3, <3>5 DEF Statement, SkipsDead
    <3> QED
      BY <1>2, <3>1, <3>2, <3>3, <3>4, <3>5, StepKind
  <2> QED
    BY <2>6, <2>7, <2>8, <2>9
<1> QED
  BY <1>1, <1>2

-----------------------------------------------------------------------------
(***************************************************************************)
(* The counters and the file                                               *)
(***************************************************************************)

(* A step that files the cells it counts keeps the counters in step with   *)
(* the file, and so does one that files nothing while a function is        *)
(* skipped.                                                                *)
LEMMA FiledAsCounted ==
  ASSUME asm \in Seq(Line), CodeSum(asm) = CodeCount, NEW k, k => DataSum(asm) = DataCount,
         sc_status \in {"write", "skip"}, sc_status' = sc_status, saved' = saved,
         NEW lines, Grown(Filed(sc_status, lines)),
         code_idx' = code_idx + CodeSum(lines),
         glb_declared' = glb_declared + DataSum(lines)
  PROVE  CodeSum(asm') = CodeCount' /\ (k => DataSum(asm') = DataCount')
<1>1. CASE sc_status = "skip"
  BY <1>1, Unfiled DEF CodeCount, DataCount
<1>2. CASE sc_status = "write"
  <2>1. Grown(lines)
    BY <1>2 DEF Filed
  <2>2. CodeSum(asm') = CodeSum(asm) + CodeSum(lines) /\ DataSum(asm') = DataSum(asm) + DataSum(lines)
    BY <2>1, Appended
  <2> QED
    BY <1>2, <2>2 DEF CodeCount, DataCount
<1> QED
  BY <1>1, <1>2

(* The program does not change.                                            *)
LEMMA ProgramKept ==
  ASSUME GTypeOK, Parse
  PROVE  program' = program /\ (AlignedGlobal' <=> AlignedGlobal)
<1>1. program' = program
  BY StepKind, Progress, BeginEffect, GlobalEffect, FunctionEffect, EndEffect, Zenon
     DEF Statement, Rest
<1> QED
  BY <1>1, Zenon DEF AlignedGlobal

(* Every step keeps FileInv; the end of a skipped function sets both       *)
(* counters back to what the file holds.                                   *)
LEMMA FileKept ==
  ASSUME GTypeOK, PlaceInv, AlignInv, FileInv, Parse
  PROVE  FileInv'
<1>0. asm \in Seq(Line) /\ OutsideInv /\ glb_declared \in Nat /\ code_idx \in Nat
      /\ sc_status \in {"first", "write", "skip"} /\ litidx \in Nat /\ litq \in Seq(Cell)
  BY DEF GTypeOK, litidx, PlaceInv
<1> DEFINE k == ~AlignedGlobal
<1>1. k' <=> k
  BY ProgramKept
<1> SUFFICES ASSUME sc_status' # "first"
             PROVE  CodeSum(asm') = CodeCount' /\ (k => DataSum(asm') = DataCount')
  BY <1>1 DEF FileInv, CodeCount, DataCount
<1>2. CASE BeginWritePass
  <2>1. asm' = <<Instr(2)>> /\ Instr(2) \in Line /\ sc_status' = "write" /\ code_idx' = 2 /\ glb_declared' = 0
    BY <1>2, BeginEffect
  <2> QED
    BY <2>1, SumOfOne, LineSizes DEF CodeCount, DataCount
<1>3. CASE sc_status # "first"
  <2> HIDE DEF k
  <2>0. /\ CodeSum(asm) = CodeCount /\ (k => DataSum(asm) = DataCount)
        /\ sc_status \in {"write", "skip"} /\ ~BeginWritePass
    BY <1>0, <1>3, BeginEffect DEF k, FileInv
  <2>1. ASSUME NEW lines, Grown(Filed(sc_status, lines)), sc_status' = sc_status, saved' = saved,
               code_idx' = code_idx + CodeSum(lines), glb_declared' = glb_declared + DataSum(lines)
        PROVE  CodeSum(asm') = CodeCount' /\ (k => DataSum(asm') = DataCount')
    BY <1>0, <2>0, <2>1, FiledAsCounted
  <2>2. ASSUME UNCHANGED <<asm, sc_status, saved, code_idx, glb_declared>>
        PROVE  CodeSum(asm') = CodeCount' /\ (k => DataSum(asm') = DataCount')
    BY <2>0, <2>2 DEF CodeCount, DataCount
  <2>3. CASE PragmaAlign
    BY <2>2, <2>3 DEF PragmaAlign
  <2>4. CASE DeclGlb
    <3>1. curfunc = None /\ token.of \in Vars
      <4>1. Legal(token) /\ token.op = "global"
        BY <2>4, GlobalEffect, Progress
      <4> QED
        BY <2>4, <4>1, GlobalEffect DEF Legal
    <3>2. sc_status = "write"
      BY <2>0, <1>0, <3>1 DEF OutsideInv
    <3>3. sc_status' = sc_status /\ code_idx' = code_idx /\ saved' = saved
      BY <2>4, GlobalEffect
    <3>4. CASE token.of \notin used
      <4>1. Grown(Filed("skip", GlobalLines)) /\ glb_declared' = glb_declared
        BY <2>4, <3>2, <3>4, GlobalEffect
      <4>2. asm' = asm
        BY <1>0, <4>1, Unfiled
      <4> QED
        BY <2>2, <3>3, <4>1, <4>2
    <3>5. CASE token.of \in used
      <4>1. Grown(GlobalLines) /\ glb_declared' = glb_declared + CellsOf[token.of]
        BY <2>4, <3>2, <3>5, GlobalEffect DEF Filed
      <4>2. CodeSum(asm') = CodeSum(asm) + CodeSum(GlobalLines)
            /\ DataSum(asm') = DataSum(asm) + DataSum(GlobalLines)
        BY <1>0, <4>1, Appended
      <4>3. CodeSum(GlobalLines) = 0 /\ DataSum(GlobalLines) = Len(Pad(glb_declared)) + CellsOf[token.of]
        BY <2>4, SumOfGlobal
      <4>4. k => Len(Pad(glb_declared)) = 0
        <5>1. k => sc_alignnext = FALSE
          BY <2>4, NoPadding DEF k
        <5> QED
          BY <5>1 DEF Pad
      <4>5. CellsOf[token.of] \in Nat
        BY <3>1, Sizes
      <4> QED
        BY <1>0, <2>0, <3>2, <3>3, <4>1, <4>2, <4>3, <4>4, <4>5 DEF CodeCount, DataCount
    <3> QED
      BY <3>4, <3>5
  <2>5. CASE NewFunc
    <3>1. sc_status = "write"
      <4>1. Legal(token) /\ token.op = "function"
        BY <2>5, FunctionEffect, Progress
      <4>2. curfunc = None
        BY <4>1 DEF Legal
      <4> QED
        BY <2>0, <1>0, <4>2 DEF OutsideInv
    <3>2. /\ sc_status' = IF token.of \notin used' THEN "skip" ELSE sc_status
          /\ saved' = IF token.of \notin used' THEN [code |-> code_idx, data |-> glb_declared] ELSE saved
          /\ Grown(Filed(sc_status', FunctionLines))
          /\ code_idx' = code_idx + 1 + (IF sc_alignnext THEN 9 ELSE 0)
          /\ glb_declared' = glb_declared
      BY <2>5, <3>1, FunctionEffect
    <3>3. CASE token.of \notin used'
      <4>1. asm' = asm /\ sc_status' = "skip" /\ saved' = [code |-> code_idx, data |-> glb_declared]
        BY <1>0, <3>2, <3>3, Unfiled
      <4> QED
        BY <2>0, <3>1, <4>1 DEF CodeCount, DataCount
    <3>4. CASE token.of \in used'
      <4>1. Grown(FunctionLines) /\ sc_status' = "write"
        BY <3>1, <3>2, <3>4 DEF Filed
      <4>2. CodeSum(asm') = CodeSum(asm) + CodeSum(FunctionLines)
            /\ DataSum(asm') = DataSum(asm) + DataSum(FunctionLines)
        BY <1>0, <4>1, Appended
      <4>3. CodeSum(FunctionLines) = 1 + (IF sc_alignnext THEN 9 ELSE 0) /\ DataSum(FunctionLines) = 0
        BY <2>5, SumOfFunction
      <4> QED
        BY <1>0, <2>0, <3>1, <3>2, <4>1, <4>2, <4>3 DEF CodeCount, DataCount
    <3> QED
      BY <3>3, <3>4
  <2>6. CASE EndFunc
    <3>1. /\ sc_status' = IF sc_status = "skip" THEN "write" ELSE sc_status
          /\ code_idx' = IF sc_status = "skip" THEN saved.code ELSE code_idx + 2
          /\ glb_declared' = IF sc_status = "skip" THEN saved.data ELSE glb_declared + litidx
          /\ Grown(Filed(sc_status, EndLines)) /\ saved' = saved
      BY <2>6, EndEffect
    <3>2. CASE sc_status = "skip"
      <4>1. asm' = asm
        BY <1>0, <3>1, <3>2, Unfiled
      <4> QED
        BY <2>0, <3>1, <3>2, <4>1 DEF CodeCount, DataCount
    <3>3. CASE sc_status = "write"
      <4>1. CodeSum(EndLines) = 2 /\ DataSum(EndLines) = litidx
        BY SumOfEnd
      <4> QED
        BY <2>1, <3>1, <3>3, <4>1
    <3> QED
      BY <2>0, <3>2, <3>3
  <2>7. CASE Use
    <3>1. CodeSum(<<UseLine>>) = 2 /\ DataSum(<<UseLine>>) = 0
      <4>1. UseLine \in Line
        <5>1. token.of \in Vars /\ addr[token.of] \in Int
          BY <2>7, UseEffect DEF GTypeOK
        <5> QED
          BY <5>1, LineTypes, ObjectTypes DEF UseLine
      <4> QED
        BY <4>1, SumOfOne, LineSizes DEF UseLine
    <3>2. /\ Grown(Filed(sc_status, <<UseLine>>)) /\ code_idx' = code_idx + 2
          /\ UNCHANGED <<sc_status, saved, glb_declared>>
      BY <2>7, UseEffect
    <3> QED
      BY <1>0, <2>1, <3>1, <3>2
  <2>8. CASE PlaceLiteral
    <3>1. CodeSum(<<LiteralLine>>) = (IF litidx + glb_declared = 0 THEN 1 ELSE 2) /\ DataSum(<<LiteralLine>>) = 0
      <4>1. LiteralLine \in Line
        <5>1. pos \in Nat /\ litidx + glb_declared \in Int
          BY <1>0, <2>8, LiteralEffect, Progress
        <5> QED
          BY <5>1, LineTypes, ObjectTypes DEF LiteralLine
      <4> QED
        BY <4>1, SumOfOne, LineSizes DEF LiteralLine
    <3>2. /\ Grown(Filed(sc_status, <<LiteralLine>>))
          /\ code_idx' = code_idx + (IF litidx + glb_declared = 0 THEN 1 ELSE 2)
          /\ UNCHANGED <<sc_status, saved, glb_declared>>
      BY <2>8, LiteralEffect
    <3> QED
      BY <1>0, <2>1, <3>1, <3>2
  <2>9. CASE StaticLocal
    <3>1. CodeSum(<<StaticLine>>) = 2 /\ DataSum(<<StaticLine>>) = 0
      <4>1. StaticLine \in Line
        <5>1. pos \in Nat
          BY <2>9, StaticEffect, Progress
        <5>2. litidx + Len(Pad(glb_declared + litidx)) + glb_declared \in Int
          BY <1>0, <2>9, StaticEffect
        <5> QED
          BY <5>1, <5>2, LineTypes, ObjectTypes DEF StaticLine
      <4> QED
        BY <4>1, SumOfOne, LineSizes DEF StaticLine
    <3>2. /\ Grown(Filed(sc_status, <<StaticLine>>)) /\ code_idx' = code_idx + 2
          /\ UNCHANGED <<sc_status, saved, glb_declared>>
      BY <2>9, StaticEffect
    <3> QED
      BY <1>0, <2>1, <3>1, <3>2
  <2>10. CASE Call
    <3>1. /\ CodeSum(CallLines) = IF default[token.of] = None THEN 4 ELSE IF ArgAddr = 0 THEN 6 ELSE 7
          /\ DataSum(CallLines) = 0
      BY <2>10, SumOfCall
    <3>2. /\ Grown(Filed(sc_status, CallLines))
          /\ code_idx' = code_idx + (IF default[token.of] = None THEN 4 ELSE IF ArgAddr = 0 THEN 6 ELSE 7)
          /\ UNCHANGED <<sc_status, saved, glb_declared>>
      BY <2>10, CallEffect
    <3> QED
      BY <1>0, <2>1, <3>1, <3>2
  <2>11. CASE While
    <3>1. CodeSum(WhileLines) = 4 /\ DataSum(WhileLines) = 0
      <4>1. sc_labnum \in Nat /\ sc_labnum + 1 \in Nat
        BY DEF GTypeOK
      <4>2. Label(sc_labnum) \in Line /\ Instr(2) \in Line /\ Jump(sc_labnum + 1) \in Line
        BY <4>1, LineTypes
      <4> QED
        BY <4>1, <4>2, SumOfThree, LineSizes DEF WhileLines
    <3>2. /\ Grown(Filed(sc_status, WhileLines)) /\ code_idx' = code_idx + 4
          /\ UNCHANGED <<sc_status, saved, glb_declared>>
      BY <2>11, WhileEffect
    <3> QED
      BY <1>0, <2>1, <3>1, <3>2
  <2>12. CASE EndWhile
    <3>1. CodeSum(EndWhileLines) = 2 /\ DataSum(EndWhileLines) = 0
      <4>1. Loop \in Nat /\ Loop + 1 \in Nat
        BY <2>12, EndWhileEffect
      <4>2. Jump(Loop) \in Line /\ Label(Loop + 1) \in Line
        BY <4>1, LineTypes
      <4> QED
        BY <4>1, <4>2, SumOfTwo, LineSizes DEF EndWhileLines
    <3>2. /\ Grown(Filed(sc_status, EndWhileLines)) /\ code_idx' = code_idx + 2
          /\ UNCHANGED <<sc_status, saved, glb_declared>>
      BY <2>12, EndWhileEffect
    <3> QED
      BY <1>0, <2>1, <3>1, <3>2
  <2>13. CASE SyntaxError \/ Unfinished
    BY <2>2, <2>13 DEF SyntaxError, Unfinished, generator
  <2>14. CASE EndWritePass
    <3>1. CodeSum(TrailerLines) = ToAlign(code_idx) /\ DataSum(TrailerLines) = ToAlign(glb_declared)
      BY SumOfTrailer
    <3>2. /\ Grown(TrailerLines) /\ sc_status = "write"
          /\ code_idx' = code_idx + ToAlign(code_idx)
          /\ glb_declared' = glb_declared + ToAlign(glb_declared)
          /\ UNCHANGED <<sc_status, saved>>
      BY <2>14, TrailerEffect
    <3>3. Grown(Filed(sc_status, TrailerLines))
      BY <3>2 DEF Filed
    <3> QED
      BY <2>1, <3>1, <3>2, <3>3
  <2> QED
    BY <2>0, <2>3, <2>4, <2>5, <2>6, <2>7, <2>8, <2>9, <2>10, <2>11, <2>12, <2>13, <2>14 DEF Parse
<1>4. CASE sc_status = "first" /\ ~BeginWritePass
  <2>1. ASSUME NEW op, Statement(op) PROVE FALSE
    BY <1>4, <2>1 DEF Statement
  <2> QED
    BY <1>4, <2>1, StepKind, GlobalEffect, FunctionEffect, EndEffect DEF Rest
<1> QED
  BY <1>2, <1>3, <1>4

-----------------------------------------------------------------------------
(***************************************************************************)
(* Calls                                                                   *)
(***************************************************************************)

(* A reference that is written comes from an alive function.               *)
LEMMA Referenced ==
  ASSUME GTypeOK, PlaceInv, AliveInv, NEW op \in {"use", "call"}, Parsing(op),
         sc_status = "write", curfunc # None
  PROVE  /\ curfunc \in Alive /\ RefersIn(curfunc, pos + 1, token.of)
         /\ token.of \in used /\ pos + 1 \in 1 .. Len(program)
<1>1. /\ AliveRefers /\ SkipsDead /\ InsideInv
  BY DEF PlaceInv, AliveInv
<1>2. /\ program[pos + 1].op = op /\ token = program[pos + 1] /\ pos + 1 \in 1 .. Len(program)
      /\ token.of \in Vars \cup Funcs
  BY Progress
<1>3. curfunc \in Alive
  BY <1>1 DEF SkipsDead
<1>4. RefersIn(curfunc, pos + 1, token.of)
  BY <1>1, <1>2 DEF RefersIn, Refers, InsideInv
<1> QED
  BY <1>1, <1>2, <1>3, <1>4 DEF AliveRefers

(* A declaration stands outside of functions, where nothing is skipped or  *)
(* pending.                                                                *)
LEMMA FunctionStatus ==
  ASSUME GTypeOK, PlaceInv, DeclGlb \/ NewFunc
  PROVE  curfunc = None /\ token.of \notin defined /\ sc_status \in {"first", "write"} /\ wq = <<>> /\ litq = <<>>
<1>1. Legal(token) /\ token.op \in {"global", "function"}
  BY GlobalEffect, FunctionEffect, Progress
<1>2. curfunc = None /\ token.of \notin defined
  BY <1>1 DEF Legal
<1> QED
  BY <1>2 DEF OutsideInv, GTypeOK, PlaceInv

(* Alive symbols are functions.                                            *)
LEMMA AliveFunctions ==
  ASSUME GTypeOK
  PROVE  Alive \subseteq Funcs
BY Sizes DEF Alive

(* A function that has been written keeps its proc line at its address.    *)
LEMMA ProcsStay ==
  ASSUME asm \in Seq(Line), ProcsThere, NEW ops, Adds(ops), Alive' = Alive,
         NEW f \in defined \cap Alive, addr'[f] = addr[f]
  PROVE  \E m \in 1 .. Len(asm') : asm'[m] = Proc(f) /\ CodeAt(asm')[m - 1] = addr'[f]
<1>1. PICK m \in 1 .. Len(asm) : asm[m] = Proc(f) /\ CodeAt(asm)[m - 1] = addr[f]
  BY DEF ProcsThere
<1>2. m \in 1 .. Len(asm') /\ asm'[m] = asm[m] /\ CodeAt(asm')[m - 1] = CodeAt(asm)[m - 1]
  BY OldLines
<1> QED
  BY <1>1, <1>2

(* A step that adds no call and no function keeps CallInv.                 *)
LEMMA CallFrame ==
  ASSUME GTypeOK, CallsAlive, ProcsThere, Alive' = Alive, prototyped \subseteq prototyped',
         NEW ops, Adds(ops), "call" \notin ops,
         \A f \in defined' \cap Alive : f \in defined /\ addr'[f] = addr[f]
  PROVE  CallsAlive' /\ ProcsThere'
<1>0. asm \in Seq(Line)
  BY DEF GTypeOK
<1>1. /\ Lines("call")' = Lines("call")
      /\ \A m \in Lines("call") : asm'[m] = asm[m]
  BY <1>0, SameLines
<1>2. CallsAlive'
  BY <1>1 DEF CallsAlive
<1>3. ProcsThere'
  BY <1>0, ProcsStay DEF ProcsThere
<1> QED
  BY <1>2, <1>3

(* Every step keeps CallInv; a function gets its final address when it is  *)
(* declared in the write pass.                                             *)
LEMMA CallKept ==
  ASSUME GTypeOK, PlaceInv, FirstInv, AliveInv, FileInv, CallInv, Parse
  PROVE  CallInv'
<1> SUFFICES ASSUME sc_status' # "first"
             PROVE  CallsAlive' /\ ProcsThere'
  BY Zenon DEF CallInv
<1>0. asm \in Seq(Line) /\ addr \in [Vars \cup Funcs -> Int]
  BY DEF GTypeOK
<1>1. CASE BeginWritePass
  <2>1. asm' = <<Instr(2)>> /\ defined' = {}
    BY <1>1, BeginEffect
  <2>2. Lines("call")' = {}
    BY <2>1 DEF Lines, Instr
  <2> QED
    BY <2>1, <2>2 DEF CallsAlive, ProcsThere
<1>2. CASE sc_status # "first"
  <2>0. /\ CallsAlive /\ ProcsThere /\ Alive' = Alive
        /\ Alive \subseteq Funcs /\ CodeSum(asm) = CodeCount
    BY <1>2, AliveStays, AliveFunctions DEF FileInv, CallInv
  <2>1. ASSUME prototyped' = prototyped, defined' = defined, addr' = addr,
               NEW ops, Adds(ops), "call" \notin ops
        PROVE  CallsAlive' /\ ProcsThere'
    BY <2>0, <2>1, CallFrame
  <2>2. CASE PragmaAlign \/ SyntaxError \/ Unfinished
    <3>1. prototyped' = prototyped /\ defined' = defined /\ addr' = addr
      BY <2>2 DEF PragmaAlign, SyntaxError, Unfinished, symbols
    <3> QED
      BY <2>1, <2>2, <3>1, KindsAdded
  <2>3. CASE DeclGlb
    <3>1. /\ token.of \in Vars /\ prototyped' = prototyped /\ defined' = defined \cup {token.of}
          /\ addr' = [addr EXCEPT ![token.of] = glb_declared] /\ Adds({"dump"})
      BY <2>3, GlobalEffect, KindsAdded
    <3>2. \A f \in defined' \cap Alive : f \in defined /\ addr'[f] = addr[f]
      BY <1>0, <2>0, <3>1, Sizes
    <3> QED
      BY <2>0, <3>1, <3>2, CallFrame
  <2>4. CASE NewFunc
    <3>1. /\ token.of \in Funcs /\ prototyped' = prototyped \cup {token.of}
          /\ defined' = defined \cup {token.of}
          /\ addr' = [addr EXCEPT ![token.of] = code_idx] /\ Adds({"proc", "instr"})
      BY <2>4, FunctionEffect, KindsAdded
    <3>2. /\ Lines("call")' = Lines("call")
          /\ \A m \in Lines("call") : asm'[m] = asm[m]
      BY <1>0, <3>1, SameLines
    <3>3. CallsAlive'
      BY <2>0, <3>1, <3>2 DEF CallsAlive
    <3>4. sc_status = "write" /\ token.of \notin defined
      BY <1>2, <2>4, FunctionStatus
    <3>5. ASSUME token.of \in Alive
          PROVE  \E m \in 1 .. Len(asm') : asm'[m] = Proc(token.of) /\ CodeAt(asm')[m - 1] = addr'[token.of]
      <4>1. token.of \in used'
        BY <2>0, <3>1, <3>5, <2>4, FunctionEffect DEF Alive
      <4>2. sc_status' = "write" /\ Grown(FunctionLines) /\ FunctionLines \in Seq(Line)
        BY <2>4, <3>4, <4>1, FunctionEffect DEF Filed
      <4>3. Len(FunctionLines) > 0 /\ FunctionLines[1] = Proc(token.of) /\ Len(FunctionLines) \in Nat
        BY <4>2 DEF FunctionLines
      <4>4. /\ Len(asm) \in Nat /\ Len(asm') = Len(asm) + Len(FunctionLines)
            /\ \A k \in 1 .. Len(FunctionLines) : asm'[Len(asm) + k] = FunctionLines[k]
            /\ \A m \in 0 .. Len(asm) : CodeAt(asm')[m] = CodeAt(asm)[m]
        BY <1>0, <4>2, Appended
      <4>5. Len(asm) + 1 \in 1 .. Len(asm') /\ asm'[Len(asm) + 1] = Proc(token.of)
        BY <4>3, <4>4
      <4>6. CodeAt(asm')[(Len(asm) + 1) - 1] = code_idx
        <5>1. CodeAt(asm')[Len(asm)] = CodeSum(asm) /\ (Len(asm) + 1) - 1 = Len(asm)
          BY <4>4 DEF CodeSum
        <5> QED
          BY <2>0, <3>4, <5>1 DEF CodeCount
      <4>7. addr'[token.of] = code_idx
        BY <1>0, <3>1
      <4> QED
        BY <4>5, <4>6, <4>7
    <3>6. ProcsThere'
      <4>1. ASSUME NEW f \in defined \cap Alive
            PROVE  \E m \in 1 .. Len(asm') : asm'[m] = Proc(f) /\ CodeAt(asm')[m - 1] = addr'[f]
        <5>1. addr'[f] = addr[f]
          BY <1>0, <2>0, <3>1, <3>4, <4>1
        <5> QED
          BY <1>0, <2>0, <3>1, <5>1, ProcsStay
      <4> QED
        BY <2>0, <3>1, <3>5, <4>1 DEF ProcsThere
    <3> QED
      BY <3>3, <3>6
  <2>5. CASE EndFunc
    <3>1. prototyped' = prototyped /\ defined' = defined /\ addr' = addr
      BY <2>5, EndEffect
    <3> QED
      BY <2>1, <2>5, <3>1, KindsAdded
  <2>6. CASE Use \/ PlaceLiteral \/ StaticLocal
    <3>1. prototyped' = prototyped /\ defined' = defined /\ addr' = addr
      BY <2>6 DEF Use, PlaceLiteral, StaticLocal, symbols
    <3> QED
      BY <2>1, <2>6, <3>1, KindsAdded
  <2>7. CASE Call
    <3>1. /\ Parsing("call") /\ token.of \in Funcs /\ curfunc # None /\ token.of \in prototyped
          /\ prototyped' = prototyped /\ defined' = defined
          /\ CallLines \in Seq(Line) /\ Grown(Filed(sc_status, CallLines))
      BY <1>2, <2>7, CallEffect
    <3>2. addr' = addr
      BY <3>1, <2>7, CallEffect
    <3>3. Adds({"address", "instr", "call"})
      BY <2>7, KindsAdded
    <3>4. ProcsThere'
      BY <1>0, <2>0, <3>1, <3>2, <3>3, ProcsStay DEF ProcsThere
    <3>5. CASE sc_status = "skip"
      <4>1. asm' = asm
        BY <1>0, <3>1, <3>5, Unfiled
      <4>2. Lines("call")' = Lines("call")
        BY <4>1 DEF Lines
      <4> QED
        BY <2>0, <3>1, <3>4, <4>1, <4>2 DEF CallsAlive
    <3>6. CASE sc_status = "write"
      <4>1. token.of \in Alive
        BY <3>1, <3>6, Referenced DEF Alive
      <4>2. \A k \in 1 .. Len(CallLines) : CallLines[k].op = "call" => CallLines[k].to = token.of
        <5> DEFINE t == <<Instr(2), CallTo(token.of)>>
        <5>1. CallLines = ArgLines \o t /\ ArgLines \in Seq(Line) /\ t \in Seq(Line)
          BY <2>7, <3>1, CallEffect, LineTypes DEF CallLines
        <5>2. \A k \in 1 .. Len(ArgLines) : ArgLines[k].op # "call"
          BY DEF ArgLines, LdConst, Address, Instr
        <5>3. \A k \in 1 .. Len(t) : t[k].op = "call" => t[k].to = token.of
          BY DEF Instr, CallTo
        <5> HIDE DEF t
        <5> QED
          BY <5>1, <5>2, <5>3, ConcatProperties
      <4>3. Grown(CallLines)
        BY <3>1, <3>6 DEF Filed
      <4>4. \A m \in Lines("call")' : (m \in Lines("call") /\ asm'[m] = asm[m]) \/ asm'[m].to = token.of
        <5>1. /\ \A m \in 1 .. Len(asm) : asm'[m] = asm[m]
              /\ \A k \in 1 .. Len(CallLines) : asm'[Len(asm) + k] = CallLines[k]
              /\ \A m \in 1 .. Len(asm') :
                   m \in 1 .. Len(asm) \/ \E k \in 1 .. Len(CallLines) : m = Len(asm) + k
          BY <1>0, <4>3, Appended
        <5> QED
          BY <4>2, <5>1 DEF Lines
      <4>5. CallsAlive'
        BY <2>0, <3>1, <4>1, <4>4 DEF CallsAlive
      <4> QED
        BY <3>4, <4>5
    <3> QED
      BY <1>2, <3>5, <3>6 DEF GTypeOK
  <2>8. CASE While \/ EndWhile
    <3>1. prototyped' = prototyped /\ defined' = defined /\ addr' = addr
      BY <2>8 DEF While, EndWhile, symbols
    <3> QED
      BY <2>1, <2>8, <3>1, KindsAdded
  <2>9. CASE EndWritePass
    <3>1. prototyped' = prototyped /\ defined' = defined /\ addr' = addr
      BY <2>9, TrailerEffect
    <3> QED
      BY <2>1, <2>9, <3>1, KindsAdded
  <2>10. ~BeginWritePass
    BY <1>2 DEF BeginWritePass
  <2> QED
    BY <2>2, <2>3, <2>4, <2>5, <2>6, <2>7, <2>8, <2>9, <2>10 DEF Parse
<1>3. CASE sc_status = "first" /\ ~BeginWritePass
  <2>1. ASSUME NEW op, Statement(op) PROVE FALSE
    BY <1>3, <2>1 DEF Statement
  <2> QED
    BY <1>3, <2>1, StepKind, GlobalEffect, FunctionEffect, EndEffect DEF Rest
<1> QED
  BY <1>1, <1>2, <1>3

-----------------------------------------------------------------------------
(***************************************************************************)
(* Labels                                                                  *)
(***************************************************************************)

(* A step that leaves labels, jumps and loops alone keeps LabelInv.        *)
LEMMA LabelFrame ==
  ASSUME GTypeOK, LoopsOpen, LabelsOnce, JumpsLabelled, LoopsLabelled,
         NEW ops, Adds(ops), "label" \notin ops, "jump" \notin ops,
         wq' = wq, sc_labnum' = sc_labnum, sc_status' = sc_status \/ wq = <<>>
  PROVE  LoopsOpen' /\ LabelsOnce' /\ JumpsLabelled' /\ LoopsLabelled'
<1>0. asm \in Seq(Line)
  BY DEF GTypeOK
<1>1. /\ Lines("label")' = Lines("label") /\ Lines("jump")' = Lines("jump")
      /\ \A m \in Lines("label") : asm'[m] = asm[m]
      /\ \A m \in Lines("jump") : asm'[m] = asm[m]
  BY <1>0, SameLines
<1>2. LoopsOpen'
  BY DEF LoopsOpen
<1>3. LabelsOnce'
  BY <1>1 DEF LabelsOnce
<1>4. CASE wq = <<>>
  <2>1. \A n \in 1 .. Len(wq) : FALSE
    BY <1>4
  <2> QED
    BY <1>1, <1>2, <1>3, <2>1 DEF JumpsLabelled, LoopsLabelled
<1>5. CASE sc_status' = sc_status
  BY <1>1, <1>2, <1>3, <1>5 DEF JumpsLabelled, LoopsLabelled
<1> QED
  BY <1>4, <1>5

(* Labels are natural numbers.                                             *)
LEMMA LabelTypes ==
  ASSUME GTypeOK
  PROVE  \A m \in 1 .. Len(asm) : asm[m].op \in {"label", "jump"} => asm[m].to \in Nat
<1>1. \A m \in 1 .. Len(asm) : asm[m] \in Line
  BY DEF GTypeOK
<1> QED
  BY <1>1 DEF Line

(* A new loop gets two labels no line has, sets the first and jumps to the *)
(* second.                                                                 *)
LEMMA LabelKeptWhile ==
  ASSUME GTypeOK, LoopsOpen, LabelsOnce, JumpsLabelled, LoopsLabelled, While,
         sc_status \in {"write", "skip"}
  PROVE  LoopsOpen' /\ LabelsOnce' /\ JumpsLabelled' /\ LoopsLabelled'
<1>0. asm \in Seq(Line) /\ wq \in Seq(Nat) /\ sc_labnum \in Nat /\ Len(wq) \in Nat
  BY DEF GTypeOK
<1>1. /\ sc_labnum' = sc_labnum + 2 /\ wq' = Append(wq, sc_labnum) /\ sc_status' = sc_status
      /\ WhileLines \in Seq(Line) /\ Grown(Filed(sc_status, WhileLines))
  BY WhileEffect
<1>2. /\ Len(wq') = Len(wq) + 1 /\ wq'[Len(wq) + 1] = sc_labnum
      /\ \A n \in 1 .. Len(wq) : wq'[n] = wq[n] /\ wq[n] \in Nat
      /\ \A n \in 1 .. Len(wq') : n \in 1 .. Len(wq) \/ n = Len(wq) + 1
  BY <1>0, <1>1
<1>3. LoopsOpen'
  <2>1. ASSUME NEW n \in 1 .. Len(wq'), NEW k \in 1 .. n - 1
        PROVE  wq'[k] + 2 <= wq'[n]
    <3>1. CASE n \in 1 .. Len(wq)
      <4>1. k \in 1 .. Len(wq)
        BY <1>0, <2>1, <3>1
      <4> QED
        BY <1>2, <2>1, <3>1, <4>1 DEF LoopsOpen
    <3>2. CASE n = Len(wq) + 1
      <4>1. k \in 1 .. Len(wq)
        BY <1>0, <2>1, <3>2
      <4> QED
        BY <1>2, <2>1, <3>2, <4>1 DEF LoopsOpen
    <3> QED
      BY <1>2, <3>1, <3>2
  <2>2. \A n \in 1 .. Len(wq') : wq'[n] + 2 <= sc_labnum'
    BY <1>0, <1>1, <1>2 DEF LoopsOpen
  <2> QED
    BY <2>1, <2>2 DEF LoopsOpen
<1>4. \A m \in 1 .. Len(asm) : asm[m].op \in {"label", "jump"} => asm[m].to \in Nat
  BY LabelTypes
<1>5. CASE sc_status = "skip"
  <2>1. asm' = asm
    BY <1>0, <1>1, <1>5, Unfiled
  <2>2. Lines("label")' = Lines("label") /\ Lines("jump")' = Lines("jump")
    BY <2>1 DEF Lines
  <2>3. LabelsOnce'
    <3>1. ASSUME NEW m \in Lines("label"), NEW n \in 1 .. Len(wq')
          PROVE  asm[m].to # wq'[n] + 1 /\ asm[m].to < sc_labnum'
      <4>1. asm[m].to \in Nat /\ asm[m].to < sc_labnum
        BY <1>4 DEF LabelsOnce, Lines
      <4>2. CASE n \in 1 .. Len(wq)
        BY <1>0, <1>1, <1>2, <4>1, <4>2 DEF LabelsOnce
      <4>3. CASE n = Len(wq) + 1
        BY <1>0, <1>1, <1>2, <4>1, <4>3
      <4> QED
        BY <1>2, <4>2, <4>3
    <3>2. \A m \in Lines("label") : asm[m].to < sc_labnum'
      BY <1>0, <1>1, <1>4 DEF LabelsOnce, Lines
    <3> QED
      BY <2>1, <2>2, <3>1, <3>2 DEF LabelsOnce
  <2>4. JumpsLabelled' /\ LoopsLabelled'
    BY <1>1, <1>5, <2>1, <2>2 DEF JumpsLabelled, LoopsLabelled
  <2> QED
    BY <1>3, <2>3, <2>4
<1>6. CASE sc_status = "write"
  <2>1. Grown(WhileLines)
    BY <1>1, <1>6 DEF Filed
  <2>2. /\ Len(asm) \in Nat /\ Len(asm') = Len(asm) + 3
        /\ \A m \in 1 .. Len(asm) : asm'[m] = asm[m]
        /\ asm'[Len(asm) + 1] = Label(sc_labnum)
        /\ asm'[Len(asm) + 2] = Instr(2)
        /\ asm'[Len(asm) + 3] = Jump(sc_labnum + 1)
    <3>1. /\ Len(asm) \in Nat /\ Len(asm') = Len(asm) + Len(WhileLines)
          /\ \A m \in 1 .. Len(asm) : asm'[m] = asm[m]
          /\ \A k \in 1 .. Len(WhileLines) : asm'[Len(asm) + k] = WhileLines[k]
      BY <1>0, <2>1, Appended
    <3>2. /\ Len(WhileLines) = 3 /\ WhileLines[1] = Label(sc_labnum) /\ WhileLines[2] = Instr(2)
          /\ WhileLines[3] = Jump(sc_labnum + 1)
      BY DEF WhileLines
    <3> QED
      BY <3>1, <3>2
  <2>3. \A m : m \in Lines("label")' <=> m \in Lines("label") \/ m = Len(asm) + 1
    BY <2>2 DEF Lines, Label, Instr, Jump
  <2>4. \A m : m \in Lines("jump")' <=> m \in Lines("jump") \/ m = Len(asm) + 3
    BY <2>2 DEF Lines, Label, Instr, Jump
  <2>5. /\ asm'[Len(asm) + 1].to = sc_labnum /\ asm'[Len(asm) + 3].to = sc_labnum + 1
        /\ \A m \in Lines("label") : asm'[m] = asm[m] /\ m # Len(asm) + 1
        /\ \A m \in Lines("jump") : asm'[m] = asm[m]
    BY <2>2 DEF Lines, Label, Jump
  <2>6. \A m \in Lines("label") : asm[m].to \in Nat /\ asm[m].to < sc_labnum
    BY <1>4 DEF LabelsOnce, Lines
  <2>7. LabelsOnce'
    <3>1. ASSUME NEW m \in Lines("label")'
          PROVE  /\ asm'[m].to < sc_labnum'
                 /\ \A n \in 1 .. Len(wq') : asm'[m].to # wq'[n] + 1
                 /\ \A n \in Lines("label")' : asm'[n].to = asm'[m].to => n = m
      <4>1. CASE m \in Lines("label")
        <5>1. asm'[m].to < sc_labnum'
          BY <1>0, <1>1, <2>5, <2>6, <4>1
        <5>2. \A n \in 1 .. Len(wq) : asm'[m].to # wq'[n] + 1
          BY <1>2, <2>5, <4>1 DEF LabelsOnce
        <5>3. asm'[m].to # wq'[Len(wq) + 1] + 1
          BY <1>0, <1>2, <2>5, <2>6, <4>1
        <5>4. \A n \in Lines("label") : asm'[n].to = asm'[m].to => n = m
          BY <2>5, <4>1 DEF LabelsOnce
        <5>5. asm'[Len(asm) + 1].to # asm'[m].to
          BY <1>0, <2>5, <2>6, <4>1
        <5> QED
          BY <1>2, <2>3, <5>1, <5>2, <5>3, <5>4, <5>5
      <4>2. CASE m = Len(asm) + 1
        <5>1. asm'[m].to = sc_labnum
          BY <2>5, <4>2
        <5>2. \A n \in 1 .. Len(wq) : sc_labnum # wq'[n] + 1
          <6>1. \A n \in 1 .. Len(wq) : wq'[n] = wq[n] /\ wq[n] \in Nat /\ wq[n] + 2 <= sc_labnum
            BY <1>2 DEF LoopsOpen
          <6> QED
            BY <1>0, <6>1
        <5>3. \A n \in Lines("label") : asm'[n].to # sc_labnum
          BY <1>0, <2>5, <2>6
        <5> QED
          BY <1>0, <1>1, <1>2, <2>3, <4>2, <5>1, <5>2, <5>3
      <4> QED
        BY <2>3, <4>1, <4>2
    <3> QED
      BY <3>1 DEF LabelsOnce
  <2>8. JumpsLabelled'
    <3>1. ASSUME NEW j \in Lines("jump")'
          PROVE  \/ \E m \in Lines("label")' : asm'[m].to = asm'[j].to
                 \/ \E n \in 1 .. Len(wq') : asm'[j].to = wq'[n] + 1
      <4>1. CASE j \in Lines("jump")
        BY <1>2, <2>3, <2>5, <4>1 DEF JumpsLabelled
      <4>2. CASE j = Len(asm) + 3
        <5>1. asm'[j].to = sc_labnum + 1
          BY <2>5, <4>2
        <5>2. Len(wq) + 1 \in 1 .. Len(wq') /\ wq'[Len(wq) + 1] = sc_labnum
          BY <1>0, <1>2
        <5>3. asm'[j].to = wq'[Len(wq) + 1] + 1
          BY <5>1, <5>2
        <5> QED
          BY <5>2, <5>3
      <4> QED
        BY <2>4, <4>1, <4>2
    <3> QED
      BY <1>1, <1>6, <3>1 DEF JumpsLabelled
  <2>9. LoopsLabelled'
    <3>1. ASSUME NEW n \in 1 .. Len(wq')
          PROVE  \E m \in Lines("label")' : asm'[m].to = wq'[n]
      <4>1. CASE n \in 1 .. Len(wq)
        BY <1>2, <1>6, <2>3, <2>5, <4>1 DEF LoopsLabelled
      <4>2. CASE n = Len(wq) + 1
        BY <1>2, <2>3, <2>5, <4>2
      <4> QED
        BY <1>2, <4>1, <4>2
    <3> QED
      BY <3>1 DEF LoopsLabelled
  <2> QED
    BY <1>3, <2>7, <2>8, <2>9
<1> QED
  BY <1>5, <1>6

(* The end of a loop sets the second label; the loop's first one is        *)
(* already there.                                                          *)
LEMMA LabelKeptEnd ==
  ASSUME GTypeOK, LoopsOpen, LabelsOnce, JumpsLabelled, LoopsLabelled, EndWhile,
         sc_status \in {"write", "skip"}
  PROVE  LoopsOpen' /\ LabelsOnce' /\ JumpsLabelled' /\ LoopsLabelled'
<1>0. asm \in Seq(Line) /\ wq \in Seq(Nat) /\ sc_labnum \in Nat /\ Len(wq) \in Nat
  BY DEF GTypeOK
<1>1. /\ sc_labnum' = sc_labnum /\ sc_status' = sc_status /\ wq # <<>> /\ Loop \in Nat
      /\ Len(wq') = Len(wq) - 1 /\ \A n \in 1 .. Len(wq) - 1 : wq'[n] = wq[n]
      /\ EndWhileLines \in Seq(Line) /\ Grown(Filed(sc_status, EndWhileLines))
  BY EndWhileEffect
<1>2. /\ Len(wq) \in 1 .. Len(wq) /\ Loop = wq[Len(wq)]
      /\ \A n \in 1 .. Len(wq') : n \in 1 .. Len(wq) /\ n # Len(wq) /\ wq'[n] = wq[n] /\ wq[n] \in Nat
      /\ \A n \in 1 .. Len(wq) : n \in 1 .. Len(wq') \/ n = Len(wq)
  BY <1>0, <1>1 DEF Loop
<1>3. LoopsOpen'
  <2>1. \A n \in 1 .. Len(wq') : \A k \in 1 .. n - 1 : k \in 1 .. Len(wq')
    BY <1>0, <1>1
  <2> QED
    BY <1>1, <1>2, <2>1 DEF LoopsOpen
<1>4. \A m \in 1 .. Len(asm) : asm[m].op \in {"label", "jump"} => asm[m].to \in Nat
  BY LabelTypes
<1>5. CASE sc_status = "skip"
  <2>1. asm' = asm
    BY <1>0, <1>1, <1>5, Unfiled
  <2>2. Lines("label")' = Lines("label") /\ Lines("jump")' = Lines("jump")
    BY <2>1 DEF Lines
  <2>3. LabelsOnce'
    BY <1>1, <1>2, <2>1, <2>2 DEF LabelsOnce
  <2>4. JumpsLabelled' /\ LoopsLabelled'
    BY <1>1, <1>5, <2>1, <2>2 DEF JumpsLabelled, LoopsLabelled
  <2> QED
    BY <1>3, <2>3, <2>4
<1>6. CASE sc_status = "write"
  <2>1. Grown(EndWhileLines)
    BY <1>1, <1>6 DEF Filed
  <2>2. /\ Len(asm) \in Nat /\ Len(asm') = Len(asm) + 2
        /\ \A m \in 1 .. Len(asm) : asm'[m] = asm[m]
        /\ asm'[Len(asm) + 1] = Jump(Loop)
        /\ asm'[Len(asm) + 2] = Label(Loop + 1)
    <3>1. /\ Len(asm) \in Nat /\ Len(asm') = Len(asm) + Len(EndWhileLines)
          /\ \A m \in 1 .. Len(asm) : asm'[m] = asm[m]
          /\ \A k \in 1 .. Len(EndWhileLines) : asm'[Len(asm) + k] = EndWhileLines[k]
      BY <1>0, <2>1, Appended
    <3>2. Len(EndWhileLines) = 2 /\ EndWhileLines[1] = Jump(Loop) /\ EndWhileLines[2] = Label(Loop + 1)
      BY DEF EndWhileLines
    <3> QED
      BY <3>1, <3>2
  <2>3. \A m : m \in Lines("label")' <=> m \in Lines("label") \/ m = Len(asm) + 2
    BY <2>2 DEF Lines, Label, Jump
  <2>4. \A m : m \in Lines("jump")' <=> m \in Lines("jump") \/ m = Len(asm) + 1
    BY <2>2 DEF Lines, Label, Jump
  <2>5. /\ asm'[Len(asm) + 2].to = Loop + 1 /\ asm'[Len(asm) + 1].to = Loop
        /\ \A m \in Lines("label") : asm'[m] = asm[m] /\ m # Len(asm) + 2
        /\ \A m \in Lines("jump") : asm'[m] = asm[m]
    BY <2>2 DEF Lines, Label, Jump
  <2>6. \A m \in Lines("label") : asm[m].to \in Nat /\ asm[m].to < sc_labnum /\ asm[m].to # Loop + 1
    BY <1>2, <1>4 DEF LabelsOnce, Lines
  <2>7. Loop + 2 <= sc_labnum /\ \A n \in 1 .. Len(wq') : wq[n] + 2 <= Loop
    <3>1. \A n \in 1 .. Len(wq') : n \in 1 .. Len(wq) - 1
      BY <1>1
    <3> QED
      BY <1>0, <1>2, <3>1 DEF LoopsOpen
  <2>8. LabelsOnce'
    <3>1. ASSUME NEW m \in Lines("label")'
          PROVE  /\ asm'[m].to < sc_labnum'
                 /\ \A n \in 1 .. Len(wq') : asm'[m].to # wq'[n] + 1
                 /\ \A n \in Lines("label")' : asm'[n].to = asm'[m].to => n = m
      <4>1. CASE m \in Lines("label")
        <5>1. asm'[m].to < sc_labnum'
          BY <1>1, <2>5, <2>6, <4>1
        <5>2. \A n \in 1 .. Len(wq') : asm'[m].to # wq'[n] + 1
          BY <1>2, <2>5, <4>1 DEF LabelsOnce
        <5>3. \A n \in Lines("label") : asm'[n].to = asm'[m].to => n = m
          BY <2>5, <4>1 DEF LabelsOnce
        <5>4. asm'[Len(asm) + 2].to # asm'[m].to
          BY <2>5, <2>6, <4>1
        <5> QED
          BY <2>3, <5>1, <5>2, <5>3, <5>4
      <4>2. CASE m = Len(asm) + 2
        <5>1. asm'[m].to = Loop + 1
          BY <2>5, <4>2
        <5>2. \A n \in 1 .. Len(wq') : Loop + 1 # wq'[n] + 1
          BY <1>1, <1>2, <2>7
        <5>3. \A n \in Lines("label") : asm'[n].to # Loop + 1
          BY <2>5, <2>6
        <5>4. Loop + 1 < sc_labnum'
          BY <1>0, <1>1, <2>7
        <5> QED
          BY <2>3, <4>2, <5>1, <5>2, <5>3, <5>4
      <4> QED
        BY <2>3, <4>1, <4>2
    <3> QED
      BY <3>1 DEF LabelsOnce
  <2>9. JumpsLabelled'
    <3>1. ASSUME NEW j \in Lines("jump")'
          PROVE  \/ \E m \in Lines("label")' : asm'[m].to = asm'[j].to
                 \/ \E n \in 1 .. Len(wq') : asm'[j].to = wq'[n] + 1
      <4>1. CASE j \in Lines("jump") /\ \E m \in Lines("label") : asm[m].to = asm[j].to
        BY <2>3, <2>5, <4>1
      <4>2. ASSUME j \in Lines("jump"), NEW n \in 1 .. Len(wq), asm[j].to = wq[n] + 1
            PROVE  \/ \E m \in Lines("label")' : asm'[m].to = asm'[j].to
                   \/ \E i \in 1 .. Len(wq') : asm'[j].to = wq'[i] + 1
        <5>1. CASE n = Len(wq)
          BY <1>2, <2>3, <2>5, <4>2, <5>1
        <5>2. CASE n \in 1 .. Len(wq')
          BY <1>2, <2>5, <4>2, <5>2
        <5> QED
          BY <1>2, <5>1, <5>2
      <4>3. CASE j = Len(asm) + 1
        <5>1. PICK m \in Lines("label") : asm[m].to = wq[Len(wq)]
          BY <1>2, <1>6 DEF LoopsLabelled
        <5> QED
          BY <1>2, <2>3, <2>5, <4>3, <5>1
      <4> QED
        BY <2>4, <4>1, <4>2, <4>3 DEF JumpsLabelled
    <3> QED
      BY <1>1, <1>6, <3>1 DEF JumpsLabelled
  <2>10. LoopsLabelled'
    BY <1>2, <1>6, <2>3, <2>5 DEF LoopsLabelled
  <2> QED
    BY <1>3, <2>8, <2>9, <2>10
<1> QED
  BY <1>5, <1>6

(* Every step keeps LabelInv; a function cannot end within a loop.         *)
LEMMA LabelKept ==
  ASSUME GTypeOK, PlaceInv, LabelInv, Parse
  PROVE  LabelInv'
<1> SUFFICES ASSUME sc_status' # "first"
             PROVE  LoopsOpen' /\ LabelsOnce' /\ JumpsLabelled' /\ LoopsLabelled'
  BY Zenon DEF LabelInv
<1>1. CASE BeginWritePass
  <2>1. asm' = <<Instr(2)>> /\ wq' = <<>>
    BY <1>1, BeginEffect
  <2>2. Lines("label")' = {} /\ Lines("jump")' = {} /\ \A n \in 1 .. Len(wq') : FALSE
    BY <2>1 DEF Lines, Instr
  <2> QED
    BY <2>2 DEF LoopsOpen, LabelsOnce, JumpsLabelled, LoopsLabelled
<1>2. CASE sc_status # "first"
  <2>0. /\ LoopsOpen /\ LabelsOnce /\ JumpsLabelled /\ LoopsLabelled
        /\ sc_status \in {"write", "skip"} /\ ~BeginWritePass
    BY <1>2, BeginEffect DEF GTypeOK, LabelInv
  <2>1. ASSUME wq' = wq, sc_labnum' = sc_labnum, sc_status' = sc_status \/ wq = <<>>,
               NEW ops, Adds(ops), "label" \notin ops, "jump" \notin ops
        PROVE  LoopsOpen' /\ LabelsOnce' /\ JumpsLabelled' /\ LoopsLabelled'
    BY <2>0, <2>1, LabelFrame
  <2>2. CASE PragmaAlign \/ SyntaxError \/ Unfinished
    <3>1. wq' = wq /\ sc_labnum' = sc_labnum /\ sc_status' = sc_status
      BY <2>2 DEF PragmaAlign, SyntaxError, Unfinished, generator
    <3> QED
      BY <2>1, <2>2, <3>1, KindsAdded
  <2>3. CASE DeclGlb
    BY <2>1, <2>3, GlobalEffect, KindsAdded
  <2>4. CASE NewFunc
    BY <2>1, <2>4, FunctionEffect, FunctionStatus, KindsAdded
  <2>5. CASE EndFunc
    BY <2>1, <2>5, EndEffect, KindsAdded
  <2>6. CASE Use \/ PlaceLiteral \/ StaticLocal
    <3>1. wq' = wq /\ sc_labnum' = sc_labnum /\ sc_status' = sc_status
      BY <2>6 DEF Use, PlaceLiteral, StaticLocal
    <3> QED
      BY <2>1, <2>6, <3>1, KindsAdded
  <2>7. CASE Call
    <3>1. wq' = wq /\ sc_labnum' = sc_labnum /\ sc_status' = sc_status
      BY <2>7, CallEffect
    <3> QED
      BY <2>1, <2>7, <3>1, KindsAdded
  <2>8. CASE While
    BY <2>0, <2>8, LabelKeptWhile
  <2>9. CASE EndWhile
    BY <2>0, <2>9, LabelKeptEnd
  <2>10. CASE EndWritePass
    <3>1. wq' = wq /\ sc_labnum' = sc_labnum /\ sc_status' = sc_status
      BY <2>10, TrailerEffect
    <3> QED
      BY <2>1, <2>10, <3>1, KindsAdded
  <2> QED
    BY <2>0, <2>2, <2>3, <2>4, <2>5, <2>6, <2>7, <2>8, <2>9, <2>10, Zenon DEF Parse
<1>3. CASE sc_status = "first" /\ ~BeginWritePass
  <2>1. ASSUME NEW op, Statement(op) PROVE FALSE
    BY <1>3, <2>1 DEF Statement
  <2> QED
    BY <1>3, <2>1, StepKind, GlobalEffect, FunctionEffect, EndEffect DEF Rest
<1> QED
  BY <1>1, <1>2, <1>3

-----------------------------------------------------------------------------
(***************************************************************************)
(* Nothing idle                                                            *)
(***************************************************************************)

(* Only literals, default arrays and padding come into the literal queue.  *)
LEMMA LiteralsKept ==
  ASSUME GTypeOK, LiteralsOnly, Parse
  PROVE  LiteralsOnly'
<1>0. litq \in Seq(Cell) /\ litidx \in Nat /\ glb_declared \in Nat /\ LitSize \in Nat
  BY Sizes DEF GTypeOK, litidx
<1>1. CASE litq' = litq
  BY <1>1 DEF LiteralsOnly
<1>2. CASE litq' = <<>>
  BY <1>2 DEF LiteralsOnly
<1>3. ASSUME NEW s \in Seq(Cell), \A c \in 1 .. Len(s) : s[c].of.kind # "variable", litq' = litq \o s
      PROVE  LiteralsOnly'
  <2>1. /\ Len(litq') = Len(litq) + Len(s) /\ Len(litq) \in Nat /\ Len(s) \in Nat
        /\ \A c \in 1 .. Len(litq) : litq'[c] = litq[c]
        /\ \A c \in 1 .. Len(s) : litq'[Len(litq) + c] = s[c]
    BY <1>0, <1>3, ConcatProperties
  <2>2. ASSUME NEW c \in 1 .. Len(litq') PROVE litq'[c].of.kind # "variable"
    <3>1. CASE c \in 1 .. Len(litq)
      BY <2>1, <3>1 DEF LiteralsOnly
    <3>2. CASE c > Len(litq)
      <4>1. c - Len(litq) \in 1 .. Len(s) /\ c = Len(litq) + (c - Len(litq))
        BY <2>1, <3>2
      <4> QED
        BY <1>3, <2>1, <4>1
    <3> QED
      BY <2>1, <3>1, <3>2
  <2> QED
    BY <2>2 DEF LiteralsOnly
<1>4. CASE PlaceLiteral
  <2>1. Cells(Literal(pos), LitSize) \in Seq(Cell) /\ litq' = litq \o Cells(Literal(pos), LitSize)
    BY <1>4, LiteralEffect
  <2>2. \A c \in 1 .. Len(Cells(Literal(pos), LitSize)) : Cells(Literal(pos), LitSize)[c].of.kind # "variable"
    BY <1>0, ObjectKinds
  <2> QED
    BY <1>3, <2>1, <2>2
<1>5. CASE StaticLocal
  <2> DEFINE p == Pad(glb_declared + litidx)
             s == Cells(Literal(pos), LitSize)
  <2>1. p \in Seq(Cell) /\ s \in Seq(Cell) /\ litq' = litq \o p \o s
    BY <1>5, StaticEffect
  <2>2. \A c \in 1 .. Len(s) : s[c].of.kind # "variable"
    BY <1>0, ObjectKinds
  <2>3. \A c \in 1 .. Len(p) : p[c].of.kind # "variable"
    <3>1. glb_declared + litidx \in Nat
      BY <1>0
    <3>2. ToAlign(glb_declared + litidx) \in Nat
      BY <3>1, Aligned
    <3> QED
      BY <3>2, ObjectKinds DEF Pad
  <2> HIDE DEF p, s
  <2>4. p \o s \in Seq(Cell) /\ \A c \in 1 .. Len(p \o s) : (p \o s)[c].of.kind # "variable"
    BY <2>1, <2>2, <2>3, ConcatProperties
  <2>5. litq' = litq \o (p \o s)
    BY <1>0, <2>1
  <2> QED
    BY <1>3, <2>4, <2>5
<1>6. CASE Call
  <2>1. /\ token.of \in Funcs /\ Cells(Default(token.of), LitSize) \in Seq(Cell)
        /\ litq' = IF Places(token.of) THEN litq \o Cells(Default(token.of), LitSize) ELSE litq
    BY <1>6, CallEffect
  <2>2. \A c \in 1 .. Len(Cells(Default(token.of), LitSize)) :
           Cells(Default(token.of), LitSize)[c].of.kind # "variable"
    BY <1>0, ObjectKinds
  <2> QED
    BY <1>1, <1>3, <2>1, <2>2
<1>7. CASE PragmaAlign \/ DeclGlb \/ NewFunc \/ Use
  BY <1>1, <1>7, Zenon DEF PragmaAlign, DeclGlb, NewFunc, Use
<1>8. CASE While \/ EndWhile \/ EndWritePass
  BY <1>1, <1>8, Zenon DEF While, EndWhile, EndWritePass
<1>9. CASE SyntaxError \/ Unfinished
  BY <1>1, <1>9, Zenon DEF SyntaxError, Unfinished, generator
<1>10. CASE EndFunc \/ BeginWritePass
  BY <1>2, <1>10, EndEffect, BeginEffect
<1> QED
  BY <1>4, <1>5, <1>6, <1>7, <1>8, <1>9, <1>10, Zenon DEF Parse

(* What is wanted in the write pass does not change.                       *)
LEMMA IdleFrame ==
  ASSUME GTypeOK, PlaceInv, AliveInv, sc_status # "first", Parse
  PROVE  /\ Alive' = Alive /\ program' = program /\ Alive \subseteq Funcs
         /\ \A h, i, s : RefersIn(h, i, s)' <=> RefersIn(h, i, s)
         /\ \A s : Wanted(s)' <=> Wanted(s)
         /\ \A l : CellsWanted(l)' <=> CellsWanted(l)
<1>1. Alive' = Alive /\ program' = program /\ Alive \subseteq Funcs
  BY AliveStays, ProgramKept, AliveFunctions
<1>2. \A h, i, s : RefersIn(h, i, s)' <=> RefersIn(h, i, s)
  BY <1>1, RefersKept
<1>3. \A s : Wanted(s)' <=> Wanted(s)
  BY <1>1, <1>2, Zenon DEF Wanted
<1>4. \A l : CellsWanted(l)' <=> CellsWanted(l)
  BY <1>3, Zenon DEF CellsWanted
<1> QED
  BY <1>1, <1>2, <1>3, <1>4

(* A step that adds no function keeps ProcsAlive.                          *)
LEMMA ProcsFrame ==
  ASSUME GTypeOK, ProcsAlive, Alive' = Alive, NEW ops, Adds(ops), "proc" \notin ops
  PROVE  ProcsAlive'
<1>1. Lines("proc")' = Lines("proc") /\ \A m \in Lines("proc") : asm'[m] = asm[m]
  BY SameLines DEF GTypeOK
<1> QED
  BY <1>1 DEF ProcsAlive

(* A step that dumps nothing keeps DumpsWanted.                            *)
LEMMA DumpsFrame ==
  ASSUME GTypeOK, DumpsWanted, \A l : CellsWanted(l)' <=> CellsWanted(l),
         NEW ops, Adds(ops), "dump" \notin ops
  PROVE  DumpsWanted'
<1>1. Lines("dump")' = Lines("dump") /\ \A m \in Lines("dump") : asm'[m] = asm[m]
  BY SameLines DEF GTypeOK
<1> QED
  BY <1>1, Zenon DEF DumpsWanted, CellsWanted

(* A step whose dumps are wanted keeps DumpsWanted.                        *)
LEMMA DumpsGrown ==
  ASSUME GTypeOK, DumpsWanted, \A s : Wanted(s)' <=> Wanted(s), NEW new, Grown(new),
         \A k \in 1 .. Len(new) : new[k].op = "dump" => CellsWanted(new[k])
  PROVE  DumpsWanted'
<1>1. \A m \in Lines("dump")' : \/ m \in Lines("dump") /\ asm'[m] = asm[m]
                                \/ \E k \in 1 .. Len(new) : asm'[m] = new[k] /\ new[k].op = "dump"
  BY NewLines DEF GTypeOK
<1>2. ASSUME NEW m \in Lines("dump")', NEW c \in 1 .. Len(asm'[m].cells),
             asm'[m].cells[c].of.kind = "variable"
      PROVE  Wanted(asm'[m].cells[c].of.id)
  <2>1. CASE m \in Lines("dump") /\ asm'[m] = asm[m]
    BY <1>2, <2>1, Zenon DEF DumpsWanted, CellsWanted
  <2>2. ASSUME NEW k \in 1 .. Len(new), asm'[m] = new[k], new[k].op = "dump"
        PROVE  Wanted(asm'[m].cells[c].of.id)
    BY <1>2, <2>2, Zenon DEF CellsWanted
  <2> QED
    BY <1>1, <2>1, <2>2
<1> QED
  BY <1>2, Zenon DEF DumpsWanted, CellsWanted

(* A reference that has its line keeps it.                                 *)
LEMMA AnswerStays ==
  ASSUME GTypeOK, program' = program, NEW ops, Adds(ops)
  PROVE  \A i, s : Answered(i, s) => Answered(i, s)'
<1>1. PICK new : Grown(new)
  BY Zenon DEF Adds
<1>2. /\ \A m \in Lines("call") : m \in Lines("call")' /\ asm'[m] = asm[m]
      /\ \A m \in Lines("address") : m \in Lines("address")' /\ asm'[m] = asm[m]
  BY <1>1, NewLines DEF GTypeOK
<1> QED
  BY <1>2, Zenon DEF Answered

(* A step keeps ReferencesFiled if it adds the line of the reference it    *)
(* passes.                                                                 *)
LEMMA ReferencesStay ==
  ASSUME GTypeOK, ReferencesFiled, program' = program, Alive' = Alive, NEW ops, Adds(ops),
         \/ pos' = pos
         \/ /\ pos' = pos + 1
            /\ \A i, h, s : i = pos + 1 /\ h \in Alive /\ RefersIn(h, i, s) => Answered(i, s)'
  PROVE  ReferencesFiled'
<1>0. pos \in Nat
  BY DEF GTypeOK
<1>1. \A h, i, s : RefersIn(h, i, s)' <=> RefersIn(h, i, s)
  BY RefersKept
<1>2. \A i, s : Answered(i, s) => Answered(i, s)'
  BY AnswerStays
<1>3. ASSUME NEW i \in 1 .. pos', NEW h \in Alive, NEW s \in Vars \cup Funcs, RefersIn(h, i, s)
      PROVE  Answered(i, s)'
  <2>1. CASE i \in 1 .. pos
    <3>1. Answered(i, s)
      BY <1>3, <2>1, Zenon DEF ReferencesFiled
    <3> QED
      BY <1>2, <3>1, Zenon
  <2>2. CASE pos' = pos + 1 /\ i = pos + 1
    BY <1>3, <2>2
  <2>3. i \in 1 .. pos \/ (pos' = pos + 1 /\ i = pos + 1)
    BY <1>0
  <2> QED
    BY <2>1, <2>2, <2>3
<1> QED
  BY <1>1, <1>3, Zenon DEF ReferencesFiled

(* A token that is neither a use nor a call refers to nothing.             *)
LEMMA NoReference ==
  ASSUME program[pos + 1].op \notin {"use", "call"}
  PROVE  \A h, s : ~RefersIn(h, pos + 1, s)
BY DEF RefersIn, Refers

(* declglb() writes only variables that an alive function refers to.       *)
LEMMA GlobalWanted ==
  ASSUME GTypeOK, PlaceInv, AliveInv, DumpsWanted, sc_status # "first",
         \A s : Wanted(s)' <=> Wanted(s), DeclGlb
  PROVE  DumpsWanted'
<1>0. /\ token.of \in Vars /\ GlobalLines \in Seq(Line) /\ asm \in Seq(Line) /\ glb_declared \in Nat
      /\ Grown(Filed(IF token.of \in used THEN sc_status
                     ELSE IF sc_status = "write" THEN "skip" ELSE sc_status, GlobalLines))
      /\ token.of \notin defined /\ sc_status = "write"
  BY GlobalEffect, FunctionStatus DEF GTypeOK
<1>1. CASE token.of \notin used
  <2>1. Grown(Filed("skip", GlobalLines))
    BY <1>0, <1>1
  <2>2. asm' = asm
    BY <1>0, <2>1, Unfiled
  <2> QED
    BY <2>2, Zenon DEF DumpsWanted, CellsWanted, Lines
<1>2. CASE token.of \in used
  <2>1. Grown(GlobalLines)
    BY <1>0, <1>2 DEF Filed
  <2>2. Wanted(token.of)
    <3>1. UsedByAlive
      BY DEF AliveInv
    <3>2. token.of \notin Roots
      BY <1>0, Sizes
    <3> QED
      BY <1>0, <1>2, <3>1, <3>2 DEF UsedByAlive, Wanted
  <2> DEFINE p == Pad(glb_declared)
             q == Cells(Variable(token.of), CellsOf[token.of])
  <2>3. p \in Seq(Cell) /\ q \in Seq(Cell)
    BY <1>0, PadTyped, Sizes, ObjectTypes, CellsTyped
  <2>4. \A c \in 1 .. Len(p) : p[c].of.kind = "padding"
    <3>1. ToAlign(glb_declared) \in Nat
      BY <1>0, Aligned
    <3> QED
      BY <3>1, ObjectKinds DEF Pad
  <2>5. \A c \in 1 .. Len(q) : q[c].of = Variable(token.of)
    <3>1. CellsOf[token.of] \in Nat
      BY <1>0, Sizes
    <3>2. Len(q) = CellsOf[token.of]
      BY <3>1 DEF Cells
    <3> QED
      BY <3>1, <3>2 DEF Cells
  <2> DEFINE s == Dumped(p)
             t == Dumped(q)
  <2>6. s \in Seq(Line) /\ t \in Seq(Line) /\ GlobalLines = s \o t
        /\ (\A k \in 1 .. Len(s) : s[k].cells = p) /\ (\A k \in 1 .. Len(t) : t[k].cells = q)
    BY <2>3, DumpKind, DumpedCells DEF GlobalLines
  <2> HIDE DEF p, q, s, t
  <2>7. \A k \in 1 .. Len(GlobalLines) : GlobalLines[k].cells = p \/ GlobalLines[k].cells = q
    BY <2>6, ConcatProperties
  <2>8. \A l : l.cells = p => CellsWanted(l)
    BY <2>4 DEF CellsWanted
  <2>9. \A l : l.cells = q => CellsWanted(l)
    BY <2>2, <2>5 DEF CellsWanted, Variable
  <2>10. \A k \in 1 .. Len(GlobalLines) : GlobalLines[k].op = "dump" => CellsWanted(GlobalLines[k])
    BY <2>7, <2>8, <2>9, Zenon
  <2> QED
    BY <2>1, <2>10, DumpsGrown
<1> QED
  BY <1>1, <1>2

(* The end of a function and writetrailer() dump no variable.              *)
LEMMA EndWanted ==
  ASSUME GTypeOK, LiteralsOnly, DumpsWanted,
         \A s : Wanted(s)' <=> Wanted(s), EndFunc \/ EndWritePass
  PROVE  DumpsWanted'
<1>0. asm \in Seq(Line) /\ litq \in Seq(Cell) /\ glb_declared \in Nat /\ code_idx \in Nat
  BY DEF GTypeOK
<1>1. ASSUME NEW s \in Seq(Line), NEW cells \in Seq(Cell), \A k \in 1 .. Len(s) : s[k].op = "instr",
             \A c \in 1 .. Len(cells) : cells[c].of.kind # "variable",
             Grown(s \o Dumped(cells)) \/ asm' = asm
      PROVE  DumpsWanted'
  <2> DEFINE t == Dumped(cells)
  <2>1. t \in Seq(Line) /\ \A k \in 1 .. Len(t) : t[k].cells = cells
    BY DumpKind, DumpedCells
  <2> HIDE DEF t
  <2>2. \A k \in 1 .. Len(s \o t) : (s \o t)[k].op = "dump" => (s \o t)[k].cells = cells
    BY <1>1, <2>1, ConcatProperties
  <2>3. \A l : l.cells = cells => CellsWanted(l)
    BY <1>1 DEF CellsWanted
  <2>4. CASE Grown(s \o t)
    <3>1. \A k \in 1 .. Len(s \o t) : (s \o t)[k].op = "dump" => CellsWanted((s \o t)[k])
      BY <2>2, <2>3, Zenon
    <3> QED
      BY <2>4, <3>1, DumpsGrown
  <2>5. CASE asm' = asm
    BY <2>5, Zenon DEF DumpsWanted, CellsWanted, Lines
  <2> QED
    BY <1>1, <2>4, <2>5 DEF t
<1>2. CASE EndFunc
  <2>1. Grown(Filed(sc_status, EndLines))
    BY <1>2, EndEffect
  <2>2. Grown(EndLines) \/ asm' = asm
    BY <1>0, <2>1, ConcatEmptySeq DEF Filed, Grown
  <2>3. <<Instr(1), Instr(1)>> \in Seq(Line) /\ \A k \in 1 .. Len(<<Instr(1), Instr(1)>>) : <<Instr(1), Instr(1)>>[k].op = "instr"
    <3>1. Instr(1) \in Line
      BY LineTypes
    <3> QED
      BY <3>1 DEF Instr
  <2> QED
    BY <1>0, <1>1, <2>2, <2>3 DEF LiteralsOnly, EndLines
<1>3. CASE EndWritePass
  <2> DEFINE s == [i \in 1 .. ToAlign(code_idx) |-> Instr(1)]
             q == Cells(Padding, ToAlign(glb_declared))
  <2>1. ToAlign(code_idx) \in Nat /\ ToAlign(glb_declared) \in Nat
    BY <1>0, Aligned
  <2>2. s \in Seq(Line) /\ Len(s) = ToAlign(code_idx)
    BY <2>1, SumOfMany
  <2>3. \A k \in 1 .. Len(s) : s[k].op = "instr"
    BY <2>2 DEF Instr
  <2>4. q \in Seq(Cell) /\ \A c \in 1 .. Len(q) : q[c].of.kind # "variable"
    BY <2>1, CellsTyped, ObjectTypes, ObjectKinds
  <2>5. Grown(s \o Dumped(q))
    BY <1>3, TrailerEffect DEF TrailerLines
  <2> HIDE DEF s, q
  <2> QED
    BY <1>1, <2>2, <2>3, <2>4, <2>5
<1> QED
  BY <1>2, <1>3

(* In a skipped function no alive one refers to anything.                  *)
LEMMA SkippedRefers ==
  ASSUME GTypeOK, PlaceInv, AliveInv, sc_status = "skip"
  PROVE  \A i, h, s : i = pos + 1 /\ h \in Alive => ~RefersIn(h, i, s)
<1>1. OutsideInv /\ InsideInv /\ SkipsDead /\ pos \in Nat
  BY DEF GTypeOK, PlaceInv, AliveInv
<1>2. curfunc # None /\ curfunc \notin Alive /\ In(curfunc, pos + 1)
  BY <1>1 DEF OutsideInv, InsideInv, SkipsDead
<1>3. ASSUME NEW h \in Alive, NEW s, RefersIn(h, pos + 1, s) PROVE FALSE
  <2>1. In(h, pos + 1)
    BY <1>3 DEF RefersIn
  <2>2. h = curfunc
    BY <1>1, <1>2, <2>1, InUnique
  <2> QED
    BY <1>2, <1>3, <2>2
<1> QED
  BY <1>3

(* A reference from an alive function gets its line.                       *)
LEMMA ReferenceAnswered ==
  ASSUME GTypeOK, PlaceInv, AliveInv, sc_status # "first", Use \/ Call
  PROVE  \A i, h, s : i = pos + 1 /\ h \in Alive /\ RefersIn(h, i, s) => Answered(i, s)'
<1>0. asm \in Seq(Line) /\ sc_status \in {"write", "skip"}
  BY DEF GTypeOK
<1>1. CASE sc_status = "skip"
  BY <1>1, SkippedRefers
<1>2. CASE sc_status = "write"
  <2>1. SUFFICES ASSUME NEW i, NEW s, i = pos + 1, program[i].of = s
                 PROVE  Answered(i, s)'
    BY Zenon DEF RefersIn, Refers
  <2>2. CASE Use
    <3>1. /\ program' = program /\ program[pos + 1].op = "use" /\ token = program[pos + 1]
          /\ Grown(<<UseLine>>)
      BY <1>2, <2>2, UseEffect, Progress DEF Filed
    <3>2. UseLine.op = "address" /\ UseLine.to = Variable(token.of) /\ Len(<<UseLine>>) = 1 /\ <<UseLine>>[1] = UseLine
      BY DEF UseLine, Address
    <3>3. \A k \in 1 .. Len(<<UseLine>>) : <<UseLine>>[k].op = "address" =>
             Len(asm) + k \in Lines("address")' /\ asm'[Len(asm) + k] = <<UseLine>>[k]
      BY <1>0, <3>1, NewLines
    <3>4. Len(asm) + 1 \in Lines("address")' /\ asm'[Len(asm) + 1] = UseLine
      BY <3>2, <3>3
    <3>5. program'[i].op = "use" /\ Variable(s) = Variable(token.of)
      BY <2>1, <3>1
    <3>6. \E m \in Lines("address")' : asm'[m].to = Variable(s)
      BY <3>2, <3>4, <3>5
    <3> QED
      BY <3>5, <3>6, Zenon DEF Answered
  <2>3. CASE Call
    <3>1. /\ program' = program /\ program[pos + 1].op = "call" /\ token = program[pos + 1]
          /\ Grown(CallLines) /\ CallLines \in Seq(Line) /\ ArgLines \in Seq(Line)
      BY <1>2, <2>3, CallEffect, Progress DEF Filed
    <3>2. \E k \in 1 .. Len(CallLines) : CallLines[k].op = "call" /\ CallLines[k].to = token.of
      <4> DEFINE t == <<Instr(2), CallTo(token.of)>>
      <4>1. t \in Seq(Line) /\ Len(t) = 2 /\ t[2].op = "call" /\ t[2].to = token.of /\ CallLines = ArgLines \o t
        <5>1. Instr(2) \in Line /\ CallTo(token.of) \in Line
          BY <2>3, CallEffect, LineTypes
        <5> QED
          BY <5>1 DEF CallTo, CallLines
      <4> HIDE DEF t
      <4>2. /\ Len(CallLines) = Len(ArgLines) + 2 /\ Len(ArgLines) \in Nat
            /\ CallLines[Len(ArgLines) + 2] = t[2]
        <5>1. /\ Len(ArgLines \o t) = Len(ArgLines) + Len(t)
              /\ \A k \in 1 .. Len(t) : (ArgLines \o t)[Len(ArgLines) + k] = t[k]
          <6>1. ArgLines \in Seq(Line) /\ t \in Seq(Line)
            BY <3>1, <4>1
          <6> QED
            BY <6>1, ConcatProperties
        <5>2. 2 \in 1 .. Len(t)
          BY <4>1
        <5> QED
          BY <3>1, <4>1, <5>1, <5>2
      <4>3. Len(ArgLines) + 2 \in 1 .. Len(CallLines)
        BY <4>2
      <4> QED
        BY <4>1, <4>2, <4>3
    <3>3. PICK k \in 1 .. Len(CallLines) : CallLines[k].op = "call" /\ CallLines[k].to = token.of
      BY <3>2
    <3>4. Len(asm) + k \in Lines("call")' /\ asm'[Len(asm) + k] = CallLines[k]
      BY <1>0, <3>1, <3>3, NewLines
    <3>5. program'[i].op = "call" /\ s = token.of
      BY <2>1, <3>1
    <3>6. \E m \in Lines("call")' : asm'[m].to = s
      BY <3>3, <3>4, <3>5
    <3> QED
      BY <3>5, <3>6, Zenon DEF Answered
  <2> QED
    BY <2>2, <2>3
<1> QED
  BY <1>0, <1>1, <1>2

(* Every step keeps IdleInv.                                               *)
LEMMA IdleKept ==
  ASSUME GTypeOK, PlaceInv, FirstInv, AliveInv, IdleInv, Parse
  PROVE  IdleInv'
<1> SUFFICES ASSUME sc_status' # "first"
             PROVE  ProcsAlive' /\ LiteralsOnly' /\ DumpsWanted' /\ ReferencesFiled'
  BY Zenon DEF IdleInv
<1>0. asm \in Seq(Line)
  BY DEF GTypeOK
<1>1. CASE BeginWritePass
  <2>1. asm' = <<Instr(2)>> /\ litq' = <<>> /\ pos' = 0
    BY <1>1, BeginEffect
  <2>2. Lines("proc")' = {} /\ Lines("dump")' = {}
    BY <2>1 DEF Lines, Instr
  <2>3. \A i \in 1 .. pos' : FALSE
    BY <2>1
  <2> QED
    BY <2>1, <2>2, <2>3 DEF ProcsAlive, LiteralsOnly, DumpsWanted, ReferencesFiled
<1>2. CASE sc_status # "first"
  <2>0. /\ ProcsAlive /\ LiteralsOnly /\ DumpsWanted /\ ReferencesFiled
        /\ Alive' = Alive /\ program' = program
        /\ (\A s : Wanted(s)' <=> Wanted(s))
        /\ \A l : CellsWanted(l)' <=> CellsWanted(l)
    BY <1>2, IdleFrame DEF IdleInv
  <2>1. LiteralsOnly'
    BY <2>0, LiteralsKept
  <2>2. ASSUME NEW op, Parsing(op), op \notin {"use", "call"}, NEW ops, Adds(ops)
        PROVE  ReferencesFiled'
    <3>1. pos' = pos + 1 /\ program[pos + 1].op \notin {"use", "call"}
      BY <2>2, Progress
    <3>2. \A i, h, s : i = pos + 1 => ~RefersIn(h, i, s)
      BY <3>1, NoReference
    <3> QED
      BY <2>0, <2>2, <3>1, <3>2, ReferencesStay
  <2>3. ASSUME pos' = pos, NEW ops, Adds(ops)
        PROVE  ReferencesFiled'
    BY <2>0, <2>3, ReferencesStay
  <2>4. ASSUME NEW ops, Adds(ops), "proc" \notin ops, "dump" \notin ops
        PROVE  ProcsAlive' /\ DumpsWanted'
    BY <2>0, <2>4, ProcsFrame, DumpsFrame
  <2>5. CASE PragmaAlign
    <3>1. Parsing("align") /\ Adds({})
      BY <2>5, KindsAdded DEF PragmaAlign
    <3> QED
      BY <2>1, <2>2, <2>4, <3>1
  <2>6. CASE SyntaxError \/ Unfinished
    <3>1. pos' = pos /\ Adds({})
      BY <2>6, KindsAdded DEF SyntaxError, Unfinished
    <3> QED
      BY <2>1, <2>3, <2>4, <3>1
  <2>7. CASE DeclGlb
    <3>1. Parsing("global") /\ Adds({"dump"})
      BY <2>7, GlobalEffect, KindsAdded
    <3>2. ProcsAlive'
      BY <2>0, <3>1, ProcsFrame
    <3>3. DumpsWanted'
      BY <1>2, <2>0, <2>7, GlobalWanted
    <3> QED
      BY <2>1, <2>2, <3>1, <3>2, <3>3
  <2>8. CASE NewFunc
    <3>1. Parsing("function") /\ Adds({"proc", "instr"}) /\ token.of \in Funcs
          /\ FunctionLines \in Seq(Line) /\ Grown(Filed(sc_status', FunctionLines))
          /\ sc_status' = IF sc_status = "write" /\ token.of \notin used' THEN "skip" ELSE sc_status
      BY <2>8, FunctionEffect, KindsAdded
    <3>2. DumpsWanted'
      BY <2>0, <3>1, DumpsFrame
    <3>3. ProcsAlive'
      <4>1. CASE token.of \in used'
        <5>1. token.of \in Alive
          BY <2>0, <3>1, <4>1 DEF Alive
        <5>2. \A k \in 1 .. Len(FunctionLines) : FunctionLines[k].op = "proc" => FunctionLines[k].to = token.of
          BY DEF FunctionLines, Proc, Instr
        <5>3. sc_status = "write"
          BY <1>2, <2>8, FunctionStatus
        <5>4. Grown(FunctionLines)
          BY <3>1, <4>1, <5>3 DEF Filed
        <5>5. \A m \in Lines("proc")' : (m \in Lines("proc") /\ asm'[m] = asm[m]) \/ asm'[m].to = token.of
          <6>1. \A m \in Lines("proc")' : \/ m \in Lines("proc") /\ asm'[m] = asm[m]
                  \/ \E k \in 1 .. Len(FunctionLines) : m = Len(asm) + k /\ asm'[m] = FunctionLines[k]
                                                         /\ FunctionLines[k].op = "proc"
            BY <1>0, <5>4, NewLines
          <6> QED
            BY <5>2, <6>1
        <5> QED
          BY <2>0, <5>1, <5>5 DEF ProcsAlive
      <4>2. CASE token.of \notin used'
        <5>1. asm' = asm
          <6>1. sc_status = "write"
            BY <1>2, <2>8, FunctionStatus
          <6>2. Grown(Filed("skip", FunctionLines))
            BY <3>1, <4>2, <6>1
          <6> QED
            BY <1>0, <6>2, Unfiled
        <5> QED
          BY <2>0, <5>1 DEF ProcsAlive, Lines
      <4> QED
        BY <4>1, <4>2
    <3> QED
      BY <2>1, <2>2, <3>1, <3>2, <3>3
  <2>9. CASE EndFunc
    <3>1. Parsing("end") /\ Adds({"instr", "dump"})
      BY <2>9, EndEffect, KindsAdded
    <3>2. ProcsAlive'
      BY <2>0, <3>1, ProcsFrame
    <3>3. DumpsWanted'
      BY <2>0, <2>9, EndWanted
    <3> QED
      BY <2>1, <2>2, <3>1, <3>2, <3>3
  <2>10. CASE Use \/ Call
    <3>1. /\ pos' = pos + 1 /\ Adds({"address", "instr", "call"})
      <4>1. CASE Use
        <5>1. Adds({"address"}) /\ Parsing("use")
          BY <4>1, KindsAdded, UseEffect
        <5>2. Adds({"address", "instr", "call"})
          BY <5>1 DEF Adds
        <5> QED
          BY <5>1, <5>2, Progress
      <4>2. CASE Call
        BY <4>2, KindsAdded, CallEffect, Progress
      <4> QED
        BY <2>10, <4>1, <4>2
    <3>2. \A i, h, s : i = pos + 1 /\ h \in Alive /\ RefersIn(h, i, s) => Answered(i, s)'
      BY <1>2, <2>10, ReferenceAnswered
    <3>3. ReferencesFiled'
      BY <2>0, <3>1, <3>2, ReferencesStay
    <3> QED
      BY <2>1, <2>4, <3>1, <3>3
  <2>11. CASE PlaceLiteral
    <3>1. Parsing("literal") /\ Adds({"address"})
      BY <2>11, LiteralEffect, KindsAdded
    <3> QED
      BY <2>1, <2>2, <2>4, <3>1
  <2>12. CASE StaticLocal
    <3>1. Parsing("static") /\ Adds({"address"})
      BY <2>12, StaticEffect, KindsAdded
    <3> QED
      BY <2>1, <2>2, <2>4, <3>1
  <2>13. CASE While
    <3>1. Parsing("while") /\ Adds({"label", "instr", "jump"})
      BY <2>13, WhileEffect, KindsAdded
    <3> QED
      BY <2>1, <2>2, <2>4, <3>1
  <2>14. CASE EndWhile
    <3>1. Parsing("endwhile") /\ Adds({"label", "instr", "jump"})
      BY <2>14, EndWhileEffect, KindsAdded
    <3> QED
      BY <2>1, <2>2, <2>4, <3>1
  <2>15. CASE EndWritePass
    <3>1. pos' = pos /\ Adds({"instr", "dump"})
      BY <2>15, TrailerEffect, KindsAdded
    <3>2. ProcsAlive'
      BY <2>0, <3>1, ProcsFrame
    <3>3. DumpsWanted'
      BY <2>0, <2>15, EndWanted
    <3> QED
      BY <2>1, <2>3, <3>1, <3>2, <3>3
  <2>16. ~BeginWritePass
    BY <1>2 DEF BeginWritePass
  <2> QED
    BY <2>5, <2>6, <2>7, <2>8, <2>9, <2>10, <2>11, <2>12, <2>13, <2>14, <2>15, <2>16, Zenon DEF Parse
<1>3. CASE sc_status = "first" /\ ~BeginWritePass
  <2>1. ASSUME NEW op, Statement(op) PROVE FALSE
    BY <1>3, <2>1 DEF Statement
  <2> QED
    BY <1>3, <2>1, StepKind, GlobalEffect, FunctionEffect, EndEffect DEF Rest
<1> QED
  BY <1>1, <1>2, <1>3

-----------------------------------------------------------------------------
(***************************************************************************)
(* Where addresses lead                                                    *)
(***************************************************************************)

(* What has been dumped stays where it is.                                 *)
LEMMA PlacedStays ==
  ASSUME asm \in Seq(Line), NEW ops, Adds(ops)
  PROVE  \A object, a : Placed(object, a) => Placed(object, a)'
<1>1. ASSUME NEW object, NEW a, Placed(object, a) PROVE Placed(object, a)'
  <2>1. PICK m \in Lines("dump") : Holds(asm[m].cells, a - DataAt(asm)[m - 1], object)
    BY <1>1 DEF Placed
  <2>2. m \in 1 .. Len(asm) /\ asm[m].op = "dump"
    BY <2>1 DEF Lines
  <2>3. m \in 1 .. Len(asm') /\ asm'[m] = asm[m] /\ DataAt(asm')[m - 1] = DataAt(asm)[m - 1]
    BY <2>2, OldLines
  <2>4. m \in Lines("dump")'
    BY <2>2, <2>3 DEF Lines
  <2>5. Holds(asm'[m].cells, a - DataAt(asm')[m - 1], object)
    BY <2>1, <2>3
  <2>6. \E n \in Lines("dump")' : Holds(asm'[n].cells, a - DataAt(asm')[n - 1], object)
    BY <2>4, <2>5
  <2> QED
    BY <2>6, Zenon DEF Placed, Holds
<1> QED
  BY <1>1

(* What waits in the queue keeps its address while glb_declared stands     *)
(* still.                                                                  *)
LEMMA PendingStays ==
  ASSUME GTypeOK, sc_status' = sc_status, glb_declared' = glb_declared,
         NEW s \in Seq(Cell), litq' = litq \o s \/ litq' = litq
  PROVE  \A object \in Object : \A a : Pending(object, a) => Pending(object, a)'
<1>1. ASSUME NEW object \in Object, NEW a, Pending(object, a) PROVE Pending(object, a)'
  <2>1. sc_status = "write" /\ Holds(litq, a - glb_declared, object) /\ litq \in Seq(Cell)
    BY <1>1 DEF Pending, GTypeOK
  <2>2. Holds(litq', a - glb_declared, object)
    BY <2>1, HoldsLonger
  <2>3. Holds(litq', a - glb_declared', object)
    BY <2>2
  <2> QED
    BY <2>1, <2>3, Zenon DEF Pending, Holds
<1> QED
  BY <1>1

(* An object that is dumped lies behind the data that was in the file.     *)
LEMMA NewlyPlaced ==
  ASSUME asm \in Seq(Line), NEW new, Grown(new), NEW k \in 1 .. Len(new), new[k].op = "dump",
         NEW object, NEW a, NEW o,
         a = DataSum(asm) + DataAt(new)[k - 1] + o, o \in Int, DataSum(asm) \in Nat,
         Holds(new[k].cells, o, object)
  PROVE  \A b : b = a => Placed(object, b)'
<1>1. /\ Len(asm) \in Nat /\ Len(new) \in Nat
      /\ Len(asm') = Len(asm) + Len(new)
      /\ \A i \in 1 .. Len(new) : asm'[Len(asm) + i] = new[i]
      /\ \A i \in 0 .. Len(new) : DataAt(asm')[Len(asm) + i] = DataSum(asm) + DataAt(new)[i]
  BY Appended
<1> DEFINE m == Len(asm) + k
<1>2. new \in Seq(Line) /\ k \in Nat /\ k - 1 \in 0 .. Len(new)
  BY <1>1 DEF Grown
<1>3. DataAt(new)[k - 1] \in Nat
  BY <1>2, Offsets
<1>4. m \in 1 .. Len(asm') /\ m - 1 = Len(asm) + (k - 1) /\ asm'[m] = new[k]
  BY <1>1, <1>2
<1>5. DataAt(asm')[m - 1] = DataSum(asm) + DataAt(new)[k - 1]
  BY <1>1, <1>2, <1>4
<1>6. m \in Lines("dump")'
  BY <1>4 DEF Lines
<1> HIDE DEF m
<1>7. a - DataAt(asm')[m - 1] = o
  BY <1>3, <1>5
<1>8. Holds(asm'[m].cells, a - DataAt(asm')[m - 1], object)
  BY <1>4, <1>7
<1>9. ASSUME NEW b, b = a PROVE Placed(object, b)'
  <2>1. \E n \in Lines("dump")' : Holds(asm'[n].cells, b - DataAt(asm')[n - 1], object)
    BY <1>6, <1>8, <1>9
  <2> QED
    BY <2>1, Zenon DEF Placed, Holds
<1> QED
  BY <1>9

(* A step keeps the landing of addresses if what was there stays there,    *)
(* and what it loads, declares or places is there.                         *)
LEMMA DataFrame ==
  ASSUME GTypeOK, AddressesLead, GlobalsPlaced, DefaultsPlaced,
         \A object \in Object, a \in Int : There(object, a) => There(object, a)',
         \A s : Wanted(s)' <=> Wanted(s),
         NEW ops, Adds(ops),
         \A m \in Lines("address")' :
           \/ m \in Lines("address") /\ asm'[m] = asm[m]
           \/ asm'[m].to.kind = "named"
           \/ \A object, a : object = asm'[m].to /\ a = asm'[m].val => There(object, a)',
         \A v \in defined' \cap Vars :
           \/ v \in defined /\ addr'[v] = addr[v]
           \/ Wanted(v) => \A a : a = addr'[v] => Placed(Variable(v), a)',
         default' = default,
         \A f \in Funcs : default[f] = ArrayDefault =>
           \/ defaddr'[f] = defaddr[f]
           \/ \A a : a = defaddr'[f] => There(Default(f), a)'
  PROVE  AddressesLead' /\ GlobalsPlaced' /\ DefaultsPlaced'
<1>0. /\ asm \in Seq(Line) /\ addr \in [Vars \cup Funcs -> Int] /\ defaddr \in [Funcs -> Int]
  BY DEF GTypeOK
<1>1. \A object, a : Placed(object, a) => Placed(object, a)'
  BY <1>0, PlacedStays
<1>2. \A m \in Lines("address") : asm[m].to \in Object /\ asm[m].val \in Int
  <2>1. \A m \in Lines("address") : asm[m] \in Line /\ asm[m].op = "address"
    BY <1>0 DEF Lines
  <2> QED
    BY <2>1 DEF Line
<1>3. AddressesLead'
  <2>1. ASSUME NEW m \in Lines("address")', asm'[m].to.kind # "named",
               NEW object, NEW a, object = asm'[m].to, a = asm'[m].val
        PROVE  There(object, a)'
    <3>1. CASE m \in Lines("address") /\ asm'[m] = asm[m]
      <4>1. object \in Object /\ a \in Int /\ There(object, a)
        BY <1>2, <2>1, <3>1 DEF AddressesLead
      <4> QED
        BY <4>1
    <3> QED
      BY <2>1, <3>1
  <2> QED
    BY <2>1, Zenon DEF AddressesLead
<1>4. GlobalsPlaced'
  <2>1. ASSUME NEW v \in defined' \cap Vars, Wanted(v), NEW a, a = addr'[v]
        PROVE  Placed(Variable(v), a)'
    <3>1. CASE v \in defined /\ addr'[v] = addr[v]
      <4>1. Placed(Variable(v), a)
        BY <2>1, <3>1 DEF GlobalsPlaced
      <4> QED
        BY <1>1, <4>1
    <3> QED
      BY <2>1, <3>1
  <2> QED
    BY <2>1, Zenon DEF GlobalsPlaced
<1>5. DefaultsPlaced'
  <2>1. ASSUME NEW f \in Funcs, default[f] = ArrayDefault, NEW a, a = defaddr'[f], a # -1
        PROVE  There(Default(f), a)'
    <3>1. CASE defaddr'[f] = defaddr[f]
      <4>1. There(Default(f), a) /\ Default(f) \in Object /\ a \in Int
        BY <1>0, <2>1, <3>1, ObjectTypes DEF DefaultsPlaced
      <4> QED
        BY <4>1
    <3> QED
      BY <2>1, <3>1
  <2> QED
    BY <2>1, Zenon DEF DefaultsPlaced
<1> QED
  BY <1>3, <1>4, <1>5

(* A step that keeps glb_declared and at most lengthens the queue moves no *)
(* object.                                                                 *)
LEMMA ThereStays ==
  ASSUME GTypeOK, sc_status' = sc_status, glb_declared' = glb_declared,
         NEW s \in Seq(Cell), litq' = litq \o s \/ litq' = litq, NEW ops, Adds(ops)
  PROVE  \A object \in Object, a \in Int : There(object, a) => There(object, a)'
<1>1. /\ \A object, a : Placed(object, a) => Placed(object, a)'
      /\ \A object \in Object : \A a : Pending(object, a) => Pending(object, a)'
  BY PlacedStays, PendingStays DEF GTypeOK
<1> QED
  BY <1>1, Zenon DEF There

(* Nor does a step that finds the queue empty or unwritten.                *)
LEMMA EmptyQueue ==
  ASSUME GTypeOK, litq = <<>> \/ sc_status = "skip", NEW ops, Adds(ops)
  PROVE  \A object \in Object, a \in Int : There(object, a) => There(object, a)'
<1>1. \A object, a : Placed(object, a) => Placed(object, a)'
  BY PlacedStays DEF GTypeOK
<1>2. \A object \in Object : \A a : ~Pending(object, a)
  BY NothingHeld DEF Pending
<1> QED
  BY <1>1, <1>2, Zenon DEF There

(* A step that adds no address line has the old ones.                      *)
LEMMA NoAddresses ==
  ASSUME GTypeOK, NEW ops, Adds(ops), "address" \notin ops
  PROVE  \A m \in Lines("address")' : m \in Lines("address") /\ asm'[m] = asm[m]
<1>1. Lines("address")' = Lines("address") /\ \A m \in Lines("address") : asm'[m] = asm[m]
  BY SameLines DEF GTypeOK
<1> QED
  BY <1>1

(* A step that loads nothing and declares nothing keeps the landing of     *)
(* addresses.                                                              *)
LEMMA DataQuiet ==
  ASSUME GTypeOK, ObjectsLanded, \A s : Wanted(s)' <=> Wanted(s),
         \A object \in Object, a \in Int : There(object, a) => There(object, a)',
         NEW ops, Adds(ops), "address" \notin ops,
         addr' = addr, defined' = defined, default' = default, defaddr' = defaddr
  PROVE  ObjectsLanded'
<1>1. \A m \in Lines("address")' : m \in Lines("address") /\ asm'[m] = asm[m]
  BY NoAddresses
<1>2. AddressesLead /\ GlobalsPlaced /\ DefaultsPlaced
  BY DEF ObjectsLanded
<1>3. AddressesLead' /\ GlobalsPlaced' /\ DefaultsPlaced'
  BY <1>1, <1>2, DataFrame
<1> QED
  BY <1>3, Zenon DEF ObjectsLanded

(* The statements without data do.                                         *)
LEMMA DataQuietSteps ==
  ASSUME GTypeOK, ObjectsLanded, \A s : Wanted(s)' <=> Wanted(s),
         PragmaAlign \/ SyntaxError \/ Unfinished \/ While \/ EndWhile
  PROVE  ObjectsLanded'
<1>1. /\ sc_status' = sc_status /\ glb_declared' = glb_declared /\ litq' = litq
      /\ addr' = addr /\ defined' = defined /\ default' = default /\ defaddr' = defaddr
  BY Zenon DEF PragmaAlign, SyntaxError, Unfinished, While, EndWhile, symbols, generator
<1>2. \E ops : Adds(ops) /\ "address" \notin ops
  <2>1. CASE While \/ EndWhile
    <3>1. Adds({"label", "instr", "jump"}) /\ "address" \notin {"label", "instr", "jump"}
      BY <2>1, KindsAdded
    <3> QED
      BY <3>1
  <2>2. CASE PragmaAlign \/ SyntaxError \/ Unfinished
    BY <2>2, KindsAdded
  <2> QED
    BY <2>1, <2>2
<1>3. PICK ops : Adds(ops) /\ "address" \notin ops
  BY <1>2
<1>4. <<>> \in Seq(Cell)
  OBVIOUS
<1>5. \A object \in Object, a \in Int : There(object, a) => There(object, a)'
  BY <1>1, <1>3, <1>4, ThereStays
<1> QED
  BY <1>1, <1>3, <1>5, DataQuiet

(* declglb() dumps a wanted variable where its address says, unless        *)
(* padding it does not count lies before it.                               *)
LEMMA DataGlobal ==
  ASSUME GTypeOK, PlaceInv, AliveInv, AlignInv, FileInv, ObjectsLanded, ~AlignedGlobal, sc_status # "first",
         \A s : Wanted(s)' <=> Wanted(s), DeclGlb
  PROVE  ObjectsLanded'
<1>0. /\ token.of \in Vars /\ GlobalLines \in Seq(Line) /\ asm \in Seq(Line) /\ glb_declared \in Nat
      /\ addr \in [Vars \cup Funcs -> Int]
      /\ Grown(Filed(IF token.of \in used THEN sc_status
                     ELSE IF sc_status = "write" THEN "skip" ELSE sc_status, GlobalLines))
      /\ addr' = [addr EXCEPT ![token.of] = glb_declared]
      /\ defined' = defined \cup {token.of} /\ default' = default /\ defaddr' = defaddr
      /\ token.of \notin defined /\ sc_status = "write" /\ litq = <<>>
      /\ Adds({"dump"})
  BY GlobalEffect, FunctionStatus, KindsAdded DEF GTypeOK
<1>1. \A object \in Object, a \in Int : There(object, a) => There(object, a)'
  BY <1>0, EmptyQueue
<1>2. \A m \in Lines("address")' : m \in Lines("address") /\ asm'[m] = asm[m]
  BY <1>0, NoAddresses
<1>3. ASSUME NEW v, v = token.of, Wanted(v)
      PROVE  \A a : a = glb_declared => Placed(Variable(v), a)'
  <2>1. token.of \in used
    <3>1. AliveRefers
      BY DEF AliveInv
    <3> QED
      BY <1>0, <1>3, <3>1 DEF AliveRefers, Wanted
  <2>2. Grown(GlobalLines)
    BY <1>0, <2>1 DEF Filed
  <2> DEFINE object == Variable(v)
             q == Cells(object, SizeOf(object))
  <2>3. object \in Object /\ SizeOf(object) = CellsOf[token.of] /\ SizeOf(object) \in Nat /\ SizeOf(object) > 0
    <3>1. object \in Object
      BY <1>0, <1>3, ObjectTypes
    <3> QED
      BY <1>3, <3>1, ObjectSizes DEF SizeOf, Variable
  <2>4. q \in Seq(Cell) /\ Len(q) > 0
    BY <2>3, CellsTyped
  <2>5. GlobalLines = <<Dump(q)>>
    <3>1. sc_alignnext = FALSE
      BY NoPadding
    <3>2. Pad(glb_declared) = <<>>
      BY <3>1 DEF Pad
    <3>3. Dumped(Pad(glb_declared)) = <<>>
      BY <3>2 DEF Dumped
    <3>4. GlobalLines = <<>> \o Dumped(q)
      BY <1>3, <2>3, <3>3 DEF GlobalLines
    <3>5. Dumped(q) = <<Dump(q)>>
      BY <2>4 DEF Dumped
    <3>6. Dumped(q) \in Seq(Line)
      BY <2>4, DumpKind
    <3> HIDE DEF q
    <3> QED
      BY <3>4, <3>5, <3>6, ConcatEmptySeq
  <2>6. Holds(<<>> \o q, Len(<<>>), object)
    <3>1. <<>> \in Seq(Cell)
      OBVIOUS
    <3> QED
      BY <2>3, <3>1, HoldsAppended
  <2> HIDE DEF q, object
  <2>7. Holds(q, 0, object)
    <3>1. <<>> \o q = q /\ Len(<<>>) = 0
      BY <2>4, ConcatEmptySeq
    <3> QED
      BY <2>6, <3>1
  <2>8. Len(GlobalLines) = 1 /\ GlobalLines[1] = Dump(q)
    BY <2>5
  <2>9. 1 \in 1 .. Len(GlobalLines) /\ GlobalLines[1].op = "dump" /\ GlobalLines[1].cells = q
    BY <2>8 DEF Dump
  <2>10. DataAt(GlobalLines)[0] = 0 /\ 1 - 1 = 0
    BY <1>0, Offsets
  <2>11. DataSum(asm) = glb_declared
    BY <1>0 DEF FileInv, DataCount
  <2>12. /\ glb_declared = DataSum(asm) + DataAt(GlobalLines)[1 - 1] + 0 /\ 0 \in Int /\ DataSum(asm) \in Nat
         /\ Holds(GlobalLines[1].cells, 0, object)
    BY <1>0, <2>7, <2>9, <2>10, <2>11
  <2>13. \A b : b = glb_declared => Placed(object, b)'
    BY <1>0, <2>2, <2>9, <2>12, NewlyPlaced
  <2> QED
    BY <2>13 DEF object
<1>4. \A v \in defined' \cap Vars :
        \/ v \in defined /\ addr'[v] = addr[v]
        \/ Wanted(v) => \A a : a = addr'[v] => Placed(Variable(v), a)'
  <2>1. ASSUME NEW v \in defined' \cap Vars, v # token.of
        PROVE  v \in defined /\ addr'[v] = addr[v]
    BY <1>0, <2>1
  <2>2. addr'[token.of] = glb_declared
    BY <1>0
  <2>3. ASSUME NEW v \in defined' \cap Vars, v = token.of, Wanted(v), NEW a, a = addr'[v]
        PROVE  Placed(Variable(v), a)'
    <3>1. a = glb_declared
      BY <2>2, <2>3
    <3> QED
      BY <1>3, <2>3, <3>1
  <2> QED
    BY <2>1, <2>3
<1>5. AddressesLead /\ GlobalsPlaced /\ DefaultsPlaced
  BY DEF ObjectsLanded
<1>6. AddressesLead' /\ GlobalsPlaced' /\ DefaultsPlaced'
  BY <1>0, <1>1, <1>2, <1>4, <1>5, DataFrame
<1> QED
  BY <1>6, Zenon DEF ObjectsLanded

(* newfunc() finds the queue empty.                                        *)
LEMMA DataFunction ==
  ASSUME GTypeOK, PlaceInv, AliveInv, ObjectsLanded, sc_status # "first",
         \A s : Wanted(s)' <=> Wanted(s), NewFunc
  PROVE  ObjectsLanded'
<1>0. /\ token.of \in Funcs /\ Vars \cap Funcs = {} /\ addr \in [Vars \cup Funcs -> Int]
      /\ addr' = [addr EXCEPT ![token.of] = code_idx] /\ defined' = defined \cup {token.of}
      /\ litq = <<>> /\ Adds({"proc", "instr"})
  BY FunctionEffect, FunctionStatus, KindsAdded, Sizes DEF GTypeOK
<1>1. token.of \in prototyped
  <2>1. AllPrototyped
    BY DEF AliveInv
  <2>2. pos + 1 \in 1 .. Len(program) /\ token = program[pos + 1] /\ token.op = "function"
    BY FunctionEffect, Progress
  <2> QED
    BY <2>1, <2>2 DEF AllPrototyped
<1>2. default' = default /\ defaddr' = defaddr
  BY <1>1, FunctionEffect
<1>3. \A object \in Object, a \in Int : There(object, a) => There(object, a)'
  BY <1>0, EmptyQueue
<1>4. \A m \in Lines("address")' : m \in Lines("address") /\ asm'[m] = asm[m]
  BY <1>0, NoAddresses
<1>5. \A v \in defined' \cap Vars : v \in defined /\ addr'[v] = addr[v]
  BY <1>0
<1>6. AddressesLead /\ GlobalsPlaced /\ DefaultsPlaced
  BY DEF ObjectsLanded
<1>7. AddressesLead' /\ GlobalsPlaced' /\ DefaultsPlaced'
  BY <1>0, <1>2, <1>3, <1>4, <1>5, <1>6, DataFrame
<1> QED
  BY <1>7, Zenon DEF ObjectsLanded

(* The end of a function dumps the queue exactly where its objects were    *)
(* expected.                                                               *)
LEMMA DataEnd ==
  ASSUME GTypeOK, FileInv, ~AlignedGlobal, ObjectsLanded, sc_status # "first",
         \A s : Wanted(s)' <=> Wanted(s), EndFunc
  PROVE  ObjectsLanded'
<1>0. /\ asm \in Seq(Line) /\ litq \in Seq(Cell) /\ glb_declared \in Nat
      /\ addr' = addr /\ defined' = defined /\ default' = default /\ defaddr' = defaddr
      /\ Grown(Filed(sc_status, EndLines)) /\ EndLines \in Seq(Line) /\ Adds({"instr", "dump"})
  BY EndEffect, KindsAdded DEF GTypeOK
<1>1. \A object, a : Placed(object, a) => Placed(object, a)'
  BY <1>0, PlacedStays
<1>2. ASSUME NEW object \in Object, NEW a \in Int, Pending(object, a)
      PROVE  Placed(object, a)'
  <2>1. sc_status = "write" /\ Holds(litq, a - glb_declared, object)
    BY <1>2 DEF Pending
  <2>2. litq # <<>>
    BY <2>1, NothingHeld
  <2>3. Grown(EndLines)
    BY <1>0, <2>1 DEF Filed
  <2>4. EndLines = <<Instr(1), Instr(1)>> \o <<Dump(litq)>> /\ Dump(litq) \in Line /\ Instr(1) \in Line
    BY <1>0, <2>2, LineTypes DEF EndLines, Dumped, Dump
  <2>5. Len(EndLines) = 3 /\ EndLines[1] = Instr(1) /\ EndLines[2] = Instr(1) /\ EndLines[3] = Dump(litq)
    BY <2>4
  <2>6. 1 \in 1 .. Len(EndLines) /\ 2 \in 1 .. Len(EndLines) /\ 3 \in 1 .. Len(EndLines)
        /\ 1 - 1 = 0 /\ 2 - 1 = 1 /\ 3 - 1 = 2
    BY <2>5
  <2>7. DataCells(Instr(1)) = 0
    BY LineSizes
  <2>8. DataAt(EndLines)[3 - 1] = 0
    <3>1. /\ DataAt(EndLines)[0] = 0
          /\ \A m \in 1 .. Len(EndLines) : DataAt(EndLines)[m] = DataAt(EndLines)[m - 1] + DataCells(EndLines[m])
      BY <1>0, Offsets
    <3>2. DataAt(EndLines)[1] = 0
      BY <2>5, <2>6, <2>7, <3>1
    <3> QED
      BY <2>5, <2>6, <2>7, <3>1, <3>2
  <2>9. DataSum(asm) = glb_declared
    BY <2>1 DEF FileInv, DataCount
  <2>10. EndLines[3].op = "dump" /\ EndLines[3].cells = litq
    BY <2>5 DEF Dump
  <2> DEFINE o == a - glb_declared
  <2>11. a = DataSum(asm) + DataAt(EndLines)[3 - 1] + o /\ o \in Int /\ DataSum(asm) \in Nat
         /\ Holds(EndLines[3].cells, o, object)
    BY <1>0, <2>1, <2>8, <2>9, <2>10
  <2> HIDE DEF o
  <2>12. \A b : b = a => Placed(object, b)'
    BY <1>0, <2>3, <2>6, <2>10, <2>11, NewlyPlaced
  <2> QED
    BY <2>12
<1>3. \A object \in Object, a \in Int : There(object, a) => There(object, a)'
  BY <1>1, <1>2, Zenon DEF There
<1> QED
  BY <1>0, <1>3, DataQuiet

(* writetrailer() finds the queue empty.                                   *)
LEMMA DataTrailer ==
  ASSUME GTypeOK, PlaceInv, ObjectsLanded, \A s : Wanted(s)' <=> Wanted(s), EndWritePass
  PROVE  ObjectsLanded'
<1>1. /\ addr' = addr /\ defined' = defined /\ default' = default /\ defaddr' = defaddr
      /\ Adds({"instr", "dump"}) /\ curfunc = None
  BY TrailerEffect, KindsAdded
<1>2. litq = <<>>
  BY <1>1 DEF OutsideInv, PlaceInv
<1>3. \A object \in Object, a \in Int : There(object, a) => There(object, a)'
  BY <1>1, <1>2, EmptyQueue
<1> QED
  BY <1>1, <1>3, DataQuiet

(* The write pass begins with no address and no array placed.              *)
LEMMA DataBegin ==
  ASSUME FirstInv, BeginWritePass, GTypeOK
  PROVE  ObjectsLanded'
<1>1. /\ asm' = <<Instr(2)>> /\ defined' = {} /\ sc_status = "first"
      /\ default' = default /\ defaddr' = defaddr
  BY BeginEffect
<1>2. Lines("address")' = {}
  BY <1>1 DEF Lines, Instr
<1>3. \A f \in Funcs : default[f] = ArrayDefault => defaddr[f] = -1
  BY <1>1 DEF FirstInv
<1> QED
  BY <1>1, <1>2, <1>3, Zenon DEF ObjectsLanded, AddressesLead, GlobalsPlaced, DefaultsPlaced

(* A step inside a function keeps the landing of addresses if what it      *)
(* loads is there.                                                         *)
LEMMA DataLines ==
  ASSUME GTypeOK, ObjectsLanded, sc_status \in {"write", "skip"},
         \A s : Wanted(s)' <=> Wanted(s),
         NEW ops, Adds(ops), NEW new \in Seq(Line), Grown(Filed(sc_status, new)),
         \A object \in Object, a \in Int : There(object, a) => There(object, a)',
         addr' = addr, defined' = defined, default' = default,
         \A f \in Funcs : default[f] = ArrayDefault =>
           \/ defaddr'[f] = defaddr[f]
           \/ \A a : a = defaddr'[f] => There(Default(f), a)',
         sc_status = "write" =>
           \A k \in 1 .. Len(new) : new[k].op = "address" =>
             \/ new[k].to.kind = "named"
             \/ \A object, a : object = new[k].to /\ a = new[k].val => There(object, a)'
  PROVE  ObjectsLanded'
<1>0. asm \in Seq(Line)
  BY DEF GTypeOK
<1>1. \A m \in Lines("address")' :
           \/ m \in Lines("address") /\ asm'[m] = asm[m]
           \/ asm'[m].to.kind = "named"
           \/ \A object, a : object = asm'[m].to /\ a = asm'[m].val => There(object, a)'
  <2>1. CASE sc_status = "skip"
    <3>1. asm' = asm
      BY <1>0, <2>1, Unfiled
    <3> QED
      BY <3>1, Zenon DEF Lines
  <2>2. CASE sc_status = "write"
    <3>1. Grown(new)
      BY <2>2 DEF Filed
    <3>2. \A m \in Lines("address")' : \/ m \in Lines("address") /\ asm'[m] = asm[m]
            \/ \E k \in 1 .. Len(new) : m = Len(asm) + k /\ asm'[m] = new[k] /\ new[k].op = "address"
      BY <1>0, <3>1, NewLines
    <3>3. ASSUME NEW m \in Lines("address")', NEW k \in 1 .. Len(new), asm'[m] = new[k], new[k].op = "address",
                 asm'[m].to.kind # "named", NEW object, NEW a, object = asm'[m].to, a = asm'[m].val
          PROVE  There(object, a)'
      <4>1. new[k].to.kind # "named" /\ object = new[k].to /\ a = new[k].val
        BY <3>3
      <4> QED
        BY <2>2, <3>3, <4>1
    <3> QED
      BY <3>2, <3>3
  <2> QED
    BY <2>1, <2>2
<1>2. AddressesLead /\ GlobalsPlaced /\ DefaultsPlaced
  BY DEF ObjectsLanded
<1>3. \A v \in defined' \cap Vars : v \in defined /\ addr'[v] = addr[v]
  OBVIOUS
<1>4. AddressesLead' /\ GlobalsPlaced' /\ DefaultsPlaced'
  BY <1>1, <1>2, <1>3, DataFrame
<1> QED
  BY <1>4, Zenon DEF ObjectsLanded

(* An object appended to the queue is there, at glb_declared plus the      *)
(* length of the queue before it.                                          *)
LEMMA NewlyPending ==
  ASSUME GTypeOK, sc_status = "write", sc_status' = sc_status, glb_declared' = glb_declared,
         NEW t \in Seq(Cell), NEW object \in Object,
         litq' = litq \o t \o Cells(object, SizeOf(object)),
         NEW a, a = litidx + Len(t) + glb_declared
  PROVE  There(object, a)'
<1>1. litq \in Seq(Cell) /\ glb_declared \in Nat /\ Len(litq) \in Nat /\ Len(t) \in Nat
  BY DEF GTypeOK
<1>2. litq \o t \in Seq(Cell) /\ Len(litq \o t) = Len(litq) + Len(t)
  BY <1>1, ConcatProperties
<1>3. Holds(litq', Len(litq \o t), object)
  BY <1>2, HoldsAppended
<1>4. a - glb_declared' = Len(litq \o t)
  BY <1>1, <1>2 DEF litidx
<1>5. sc_status' = "write" /\ Holds(litq', a - glb_declared', object)
  BY <1>3, <1>4
<1>6. Pending(object, a)'
  BY <1>5, Zenon DEF Pending, Holds
<1> QED
  BY <1>6, Zenon DEF There

(* A variable that is used in an alive function has been dumped at its     *)
(* address.                                                                *)
LEMMA DataUse ==
  ASSUME GTypeOK, PlaceInv, AliveInv, ObjectsLanded, sc_status # "first",
         \A s : Wanted(s)' <=> Wanted(s), Use
  PROVE  ObjectsLanded'
<1>0. /\ token.of \in Vars /\ token.of \in defined /\ curfunc # None /\ sc_status \in {"write", "skip"}
      /\ Parsing("use") /\ <<UseLine>> \in Seq(Line) /\ Grown(Filed(sc_status, <<UseLine>>))
      /\ sc_status' = sc_status /\ addr' = addr /\ defined' = defined /\ default' = default /\ defaddr' = defaddr
      /\ glb_declared' = glb_declared /\ litq' = litq /\ Adds({"address"}) /\ <<>> \in Seq(Cell)
      /\ asm \in Seq(Line)
  BY UseEffect, KindsAdded DEF GTypeOK
<1>1. \A object \in Object, a \in Int : There(object, a) => There(object, a)'
  BY <1>0, ThereStays
<1>2. ASSUME sc_status = "write", NEW object, NEW a, object = UseLine.to, a = UseLine.val
      PROVE  There(object, a)'
  <2>1. Wanted(token.of)
    <3>1. curfunc \in Alive /\ RefersIn(curfunc, pos + 1, token.of) /\ pos + 1 \in 1 .. Len(program)
      BY <1>0, <1>2, Referenced
    <3> QED
      BY <3>1, Zenon DEF Wanted
  <2>2. object = Variable(token.of) /\ a = addr[token.of]
    BY <1>2 DEF UseLine, Address
  <2>3. Placed(object, a)
    BY <1>0, <2>1, <2>2 DEF ObjectsLanded, GlobalsPlaced
  <2>4. Placed(object, a)'
    BY <1>0, <2>3, PlacedStays
  <2> QED
    BY <2>4, Zenon DEF There
<1>3. \A k \in 1 .. Len(<<UseLine>>) : <<UseLine>>[k] = UseLine
  OBVIOUS
<1>4. sc_status = "write" =>
        \A k \in 1 .. Len(<<UseLine>>) : \A object, a :
          object = <<UseLine>>[k].to /\ a = <<UseLine>>[k].val => There(object, a)'
  BY <1>2, <1>3
<1> QED
  BY <1>0, <1>1, <1>4, DataLines

(* A literal is loaded from where it is queued.                            *)
LEMMA DataLiteral ==
  ASSUME GTypeOK, ObjectsLanded, sc_status # "first",
         \A s : Wanted(s)' <=> Wanted(s), PlaceLiteral
  PROVE  ObjectsLanded'
<1> DEFINE q == Cells(Literal(pos), LitSize)
<1>0. /\ sc_status \in {"write", "skip"} /\ pos \in Nat
      /\ <<LiteralLine>> \in Seq(Line) /\ Grown(Filed(sc_status, <<LiteralLine>>))
      /\ sc_status' = sc_status /\ addr' = addr /\ defined' = defined /\ default' = default /\ defaddr' = defaddr
      /\ glb_declared' = glb_declared /\ q \in Seq(Cell) /\ litq' = litq \o q /\ Adds({"address"})
      /\ litidx \in Nat /\ glb_declared \in Nat /\ litq \in Seq(Cell)
  BY LiteralEffect, KindsAdded DEF GTypeOK, litidx
<1> HIDE DEF q
<1>1. \A object \in Object, a \in Int : There(object, a) => There(object, a)'
  BY <1>0, ThereStays
<1>2. ASSUME sc_status = "write", NEW object, NEW a, object = LiteralLine.to, a = LiteralLine.val
      PROVE  There(object, a)'
  <2>1. object = Literal(pos) /\ a = litidx + glb_declared
    BY <1>2 DEF LiteralLine, LdConst, Address
  <2>2. object \in Object /\ q = Cells(object, SizeOf(object))
    BY <1>0, <2>1, ObjectTypes DEF SizeOf, Literal, q
  <2>3. <<>> \in Seq(Cell) /\ Len(<<>>) = 0 /\ litq \o <<>> = litq
    BY <1>0, ConcatEmptySeq
  <2>4. litq' = litq \o <<>> \o Cells(object, SizeOf(object)) /\ a = litidx + Len(<<>>) + glb_declared
    BY <1>0, <2>1, <2>2, <2>3
  <2> QED
    BY <1>0, <1>2, <2>2, <2>3, <2>4, NewlyPending
<1>3. \A k \in 1 .. Len(<<LiteralLine>>) : <<LiteralLine>>[k] = LiteralLine
  OBVIOUS
<1>4. sc_status = "write" =>
        \A k \in 1 .. Len(<<LiteralLine>>) : \A object, a :
          object = <<LiteralLine>>[k].to /\ a = <<LiteralLine>>[k].val => There(object, a)'
  BY <1>2, <1>3
<1> QED
  BY <1>0, <1>1, <1>4, DataLines

(* So is a static local, behind its padding.                               *)
LEMMA DataStatic ==
  ASSUME GTypeOK, ObjectsLanded, sc_status # "first",
         \A s : Wanted(s)' <=> Wanted(s), StaticLocal
  PROVE  ObjectsLanded'
<1> DEFINE q == Cells(Literal(pos), LitSize)
           p == Pad(glb_declared + litidx)
<1>0. /\ litidx \in Nat /\ glb_declared \in Nat /\ litq \in Seq(Cell)
      /\ sc_status \in {"write", "skip"} /\ pos \in Nat
  BY DEF GTypeOK, litidx
<1>6. /\ <<StaticLine>> \in Seq(Line) /\ Grown(Filed(sc_status, <<StaticLine>>))
      /\ sc_status' = sc_status /\ addr' = addr /\ defined' = defined /\ default' = default /\ defaddr' = defaddr
      /\ glb_declared' = glb_declared /\ p \in Seq(Cell) /\ q \in Seq(Cell)
      /\ litq' = litq \o p \o q /\ Adds({"address"})
  BY StaticEffect, KindsAdded
<1>1. StaticLine = Address(Literal(pos), litidx + Len(p) + glb_declared)
  BY DEF StaticLine
<1> HIDE DEF p, q
<1>2. \A object \in Object, a \in Int : There(object, a) => There(object, a)'
  <2>1. p \o q \in Seq(Cell) /\ litq' = litq \o (p \o q)
    BY <1>0, <1>6, ConcatProperties, ConcatAssociative
  <2> QED
    BY <1>0, <1>6, <2>1, ThereStays
<1>3. ASSUME sc_status = "write", NEW object, NEW a, object = StaticLine.to, a = StaticLine.val
      PROVE  There(object, a)'
  <2>1. object = Literal(pos) /\ a = litidx + Len(p) + glb_declared
    BY <1>1, <1>3 DEF Address
  <2>2. object \in Object /\ q = Cells(object, SizeOf(object))
    BY <1>0, <1>6, <2>1, ObjectTypes DEF SizeOf, Literal, q
  <2> QED
    BY <1>0, <1>6, <1>3, <2>1, <2>2, NewlyPending
<1>4. \A k \in 1 .. Len(<<StaticLine>>) : <<StaticLine>>[k] = StaticLine
  OBVIOUS
<1>5. sc_status = "write" =>
        \A k \in 1 .. Len(<<StaticLine>>) : \A object, a :
          object = <<StaticLine>>[k].to /\ a = <<StaticLine>>[k].val => There(object, a)'
  BY <1>3, <1>4
<1> QED
  BY <1>0, <1>6, <1>2, <1>5, DataLines

(* A default array is loaded from where the first written call has placed  *)
(* it; a skipped call places nothing.                                      *)
LEMMA DataCall ==
  ASSUME GTypeOK, ObjectsLanded, sc_status # "first",
         \A s : Wanted(s)' <=> Wanted(s), Call
  PROVE  ObjectsLanded'
<1>0. /\ litidx \in Nat /\ glb_declared \in Nat /\ litq \in Seq(Cell)
      /\ sc_status \in {"write", "skip"} /\ defaddr \in [Funcs -> Int]
  BY DEF GTypeOK, litidx
<1>1. /\ token.of \in Funcs /\ token.of \in prototyped
      /\ CallLines \in Seq(Line) /\ Grown(Filed(sc_status, CallLines)) /\ ArgLines \in Seq(Line)
      /\ ArgAddr \in Int
      /\ sc_status' = sc_status /\ defined' = defined /\ default' = default
      /\ defaddr' = [defaddr EXCEPT ![token.of] = ArgAddr]
      /\ glb_declared' = glb_declared
      /\ Cells(Default(token.of), LitSize) \in Seq(Cell)
      /\ litq' = IF Places(token.of) THEN litq \o Cells(Default(token.of), LitSize) ELSE litq
  BY <1>0, CallEffect
<1>2. addr' = addr /\ Adds({"address", "instr", "call"}) /\ Default(token.of) \in Object
  BY <1>1, CallEffect, KindsAdded, ObjectTypes
<1>3. \A object \in Object, a \in Int : There(object, a) => There(object, a)'
  <2>1. litq' = litq \o Cells(Default(token.of), LitSize) \/ litq' = litq
    BY <1>1
  <2> QED
    BY <1>1, <1>2, <2>1, ThereStays
<1>4. Cells(Default(token.of), LitSize) = Cells(Default(token.of), SizeOf(Default(token.of)))
  BY DEF SizeOf, Default
  \* the array of the argument is there, if it has an address
<1>5. ASSUME default[token.of] = ArrayDefault, sc_status = "write", NEW object, NEW a,
             object = Default(token.of), a = ArgAddr
      PROVE  There(object, a)'
  <2>1. CASE Places(token.of)
    <3>1. ArgAddr = litidx + glb_declared
      BY <2>1 DEF ArgAddr
    <3>2. <<>> \in Seq(Cell) /\ Len(<<>>) = 0 /\ litq \o <<>> = litq
      BY <1>0, ConcatEmptySeq
    <3>3. litq' = litq \o <<>> \o Cells(object, SizeOf(object)) /\ a = litidx + Len(<<>>) + glb_declared
      BY <1>0, <1>1, <1>4, <1>5, <2>1, <3>1, <3>2
    <3> QED
      BY <1>1, <1>2, <1>5, <3>2, <3>3, NewlyPending
  <2>2. CASE ~Places(token.of)
    <3>1. a = defaddr[token.of] /\ a \in Int /\ a # -1
      BY <1>0, <1>1, <1>5, <2>2 DEF ArgAddr, Places
    <3>2. There(object, a)
      BY <1>1, <1>5, <3>1 DEF ObjectsLanded, DefaultsPlaced
    <3> QED
      BY <1>2, <1>3, <1>5, <3>1, <3>2
  <2> QED
    BY <2>1, <2>2
<1>6. ASSUME NEW f \in Funcs, default[f] = ArrayDefault, defaddr'[f] # defaddr[f], NEW a, a = defaddr'[f]
      PROVE  There(Default(f), a)'
  <2>1. f = token.of /\ a = ArgAddr
    BY <1>0, <1>1, <1>6
  <2>2. sc_status = "write"
    BY <1>6, <2>1 DEF ArgAddr, Places
  <2> QED
    BY <1>5, <1>6, <2>1, <2>2
<1>7. ASSUME sc_status = "write", NEW k \in 1 .. Len(CallLines), CallLines[k].op = "address",
             CallLines[k].to.kind # "named",
             NEW object, NEW a, object = CallLines[k].to, a = CallLines[k].val
      PROVE  There(object, a)'
  <2>1. default[token.of] # None /\ CallLines[k] = LdConst(ArgObject, ArgAddr)
    <3> DEFINE t == <<Instr(2), CallTo(token.of)>>
    <3>1. /\ t \in Seq(Line) /\ \A n \in 1 .. Len(t) : t[n].op # "address"
      <4>1. Instr(2) \in Line /\ CallTo(token.of) \in Line
        BY <1>1, LineTypes
      <4> QED
        BY <4>1 DEF Instr, CallTo
    <3>2. \A n \in 1 .. Len(ArgLines) :
            ArgLines[n].op = "address" => default[token.of] # None /\ ArgLines[n] = LdConst(ArgObject, ArgAddr)
      BY DEF ArgLines, Instr
    <3>3. CallLines = ArgLines \o t
      BY DEF CallLines
    <3> HIDE DEF t
    <3>4. \/ \E n \in 1 .. Len(ArgLines) : CallLines[k] = ArgLines[n]
          \/ \E n \in 1 .. Len(t) : CallLines[k] = t[n]
      BY <1>1, <1>7, <3>1, <3>3, ConcatProperties
    <3> QED
      BY <1>7, <3>1, <3>2, <3>4
  <2>2. object = ArgObject /\ a = ArgAddr
    BY <1>7, <2>1 DEF LdConst, Address
  <2>3. default[token.of] = ArrayDefault /\ object = Default(token.of)
    BY <1>7, <2>1, <2>2 DEF ArgObject, Named
  <2> QED
    BY <1>5, <1>7, <2>2, <2>3
<1> QED
  BY <1>0, <1>1, <1>2, <1>3, <1>6, <1>7, DataLines

(* Every step keeps DataInv.                                               *)
LEMMA DataKept ==
  ASSUME GTypeOK, PlaceInv, FirstInv, AliveInv, AlignInv, FileInv, DataInv, Parse
  PROVE  DataInv'
<1>0. AlignedGlobal' <=> AlignedGlobal
  BY ProgramKept
<1> SUFFICES ASSUME sc_status' # "first", ~AlignedGlobal
             PROVE  ObjectsLanded'
  BY <1>0, Zenon DEF DataInv
<1>1. CASE BeginWritePass
  BY <1>1, DataBegin
<1>2. CASE sc_status # "first"
  <2>1. ObjectsLanded /\ \A s : Wanted(s)' <=> Wanted(s)
    BY <1>2, IdleFrame DEF ObjectsLanded, DataInv
  <2>2. CASE PragmaAlign \/ SyntaxError \/ Unfinished \/ While \/ EndWhile
    BY <2>1, <2>2, DataQuietSteps
  <2>3. CASE DeclGlb
    BY <1>2, <2>1, <2>3, DataGlobal
  <2>4. CASE NewFunc
    BY <1>2, <2>1, <2>4, DataFunction
  <2>5. CASE EndFunc
    BY <1>2, <2>1, <2>5, DataEnd
  <2>6. CASE Use
    BY <1>2, <2>1, <2>6, DataUse
  <2>7. CASE PlaceLiteral
    BY <1>2, <2>1, <2>7, DataLiteral
  <2>8. CASE StaticLocal
    BY <1>2, <2>1, <2>8, DataStatic
  <2>9. CASE Call
    BY <1>2, <2>1, <2>9, DataCall
  <2>10. CASE EndWritePass
    BY <2>1, <2>10, DataTrailer
  <2>11. ~BeginWritePass
    BY <1>2 DEF BeginWritePass
  <2> QED
    BY <2>2, <2>3, <2>4, <2>5, <2>6, <2>7, <2>8, <2>9, <2>10, <2>11, Zenon DEF Parse
<1>3. CASE sc_status = "first" /\ ~BeginWritePass
  <2>1. ASSUME NEW op, Statement(op) PROVE FALSE
    BY <1>3, <2>1 DEF Statement
  <2> QED
    BY <1>3, <2>1, StepKind, GlobalEffect, FunctionEffect, EndEffect DEF Rest
<1> QED
  BY <1>1, <1>2, <1>3

-----------------------------------------------------------------------------
(***************************************************************************)
(* The parser as a whole                                                   *)
(***************************************************************************)

(* Every step of the parser keeps GeneratorInv.                            *)
LEMMA ParseKept ==
  ASSUME GeneratorInv, Parse
  PROVE  GeneratorInv'
<1>1. /\ GTypeOK /\ PlaceInv /\ FirstInv /\ ReferInv /\ AliveInv
      /\ AlignInv /\ FileInv /\ CallInv /\ LabelInv /\ IdleInv /\ DataInv
  BY Zenon DEF GeneratorInv
<1>2. GTypeOK' /\ PlaceInv' /\ FirstInv' /\ ReferInv' /\ AliveInv'
  BY <1>1, TypeKept, PlaceKept, FirstKept, ReferKept, AliveKept
<1>3. AlignInv' /\ FileInv' /\ CallInv' /\ LabelInv'
  BY <1>1, AlignKept, FileKept, CallKept, LabelKept
<1>4. IdleInv' /\ DataInv'
  BY <1>1, IdleKept, DataKept
<1> QED
  BY <1>2, <1>3, <1>4, Zenon DEF GeneratorInv

(* GeneratorInv holds at the beginning.                                    *)
LEMMA GeneratorInit ==
  ASSUME GInit
  PROVE  GeneratorInv
<1>0. /\ program \in Seq(Token) /\ pos = 0 /\ phase = "parse" /\ sc_status = "first"
      /\ used = {} /\ defined = {} /\ prototyped = {}
      /\ refer = [s \in Vars \cup Funcs |-> {}]
      /\ addr = [s \in Vars \cup Funcs |-> -1]
      /\ default = [f \in Funcs |-> None] /\ defaddr = [f \in Funcs |-> -1]
      /\ code_idx = 0 /\ glb_declared = 0 /\ sc_labnum = 0 /\ sc_alignnext = FALSE
      /\ litq = <<>> /\ curfunc = None /\ saved = [code |-> 0, data |-> 0] /\ wq = <<>>
      /\ asm = <<>>
  BY GeneratorAssumption DEF GInit
<1>1. GTypeOK
  <2>1. /\ program \in Seq(Token) /\ pos \in 0 .. Len(program)
        /\ phase \in {"parse", "assemble", "labels", "code", "data", "done", "rejected"}
        /\ sc_status \in {"first", "write", "skip"}
        /\ used \subseteq Vars \cup Funcs /\ defined \subseteq Vars \cup Funcs
        /\ prototyped \subseteq Funcs
    BY <1>0
  <2>2. /\ refer \in [Vars \cup Funcs -> SUBSET Funcs]
        /\ addr \in [Vars \cup Funcs -> Int]
        /\ default \in [Funcs -> Vars \cup {ArrayDefault, None}]
        /\ defaddr \in [Funcs -> Int]
    BY <1>0
  <2>3. /\ code_idx \in Nat /\ glb_declared \in Nat /\ sc_labnum \in Nat
        /\ sc_alignnext \in BOOLEAN
        /\ curfunc \in Funcs \cup {None}
        /\ saved \in [code : Nat, data : Nat]
    BY <1>0
  <2>4. litq \in Seq(Cell) /\ wq \in Seq(Nat) /\ asm \in Seq(Line)
    BY <1>0
  <2> QED
    BY <2>1, <2>2, <2>3, <2>4, Zenon DEF GTypeOK
<1>2. PlaceInv
  BY <1>0 DEF PlaceInv, OutsideInv, InsideInv, DefinedInv, PrototypedInv
<1>3. FirstInv
  BY <1>0 DEF FirstInv
<1>4. ReferInv
  BY <1>0 DEF ReferInv, ReferredInv, ReferrersInv, UsedInv
<1>5. AliveInv /\ FileInv /\ CallInv /\ LabelInv /\ IdleInv /\ DataInv
  BY <1>0 DEF AliveInv, FileInv, CallInv, LabelInv, IdleInv, DataInv
<1>6. AlignInv
  BY <1>0 DEF AlignInv
<1> QED
  BY <1>1, <1>2, <1>3, <1>4, <1>5, <1>6, Zenon DEF GeneratorInv

(* The parser hands over a finished file whose code is aligned.            *)
LEMMA Parsed ==
  ASSUME GTypeOK, StoreInv, Parse
  PROVE  StoreInv' /\ phase = "parse" /\ phase' \in {"parse", "rejected", "assemble"}
<1>1. CASE EndWritePass
  <2>1. /\ phase = "parse" /\ pos' = Len(program') /\ sc_status' = "write" /\ curfunc' = None
        /\ code_idx' = code_idx + ToAlign(code_idx) /\ phase' = "assemble" /\ code_idx \in Nat
    BY <1>1, TrailerEffect DEF GTypeOK
  <2>2. code_idx' % DataAlign = 0
    BY <2>1, Aligned
  <2> QED
    BY <2>1, <2>2 DEF StoreInv
<1>2. ASSUME phase = "parse", phase' \in {"parse", "rejected"}
      PROVE  StoreInv' /\ phase = "parse" /\ phase' \in {"parse", "rejected", "assemble"}
  BY <1>2 DEF StoreInv
<1>3. CASE SyntaxError \/ Unfinished
  BY <1>2, <1>3 DEF SyntaxError, Unfinished
<1>4. CASE BeginWritePass
  BY <1>2, <1>4, BeginEffect
<1>5. ASSUME NEW op, Parsing(op)
      PROVE  StoreInv' /\ phase = "parse" /\ phase' \in {"parse", "rejected", "assemble"}
  BY <1>2, <1>5, Progress
<1>6. CASE PragmaAlign \/ DeclGlb \/ NewFunc \/ EndFunc
  BY <1>5, <1>6, Zenon DEF PragmaAlign, DeclGlb, NewFunc, EndFunc
<1>7. CASE Use \/ PlaceLiteral \/ StaticLocal \/ Call
  BY <1>5, <1>7, Zenon DEF Use, PlaceLiteral, StaticLocal, Call
<1>8. CASE While \/ EndWhile
  BY <1>5, <1>8, Zenon DEF While, EndWhile
<1> QED
  BY <1>1, <1>3, <1>4, <1>6, <1>7, <1>8, Zenon DEF Parse

(* The assembler changes nothing of the parser's and only moves on.        *)
LEMMA AssembleFrame ==
  ASSUME Assemble
  PROVE  /\ UNCHANGED <<program, pos, sc_status, symbols, generator>>
         /\ phase \in {"assemble", "labels", "code", "data"}
         /\ phase' \in {"assemble", "labels", "code", "data", "done"}
<1>1. CASE Begin
  BY <1>1 DEF Begin
<1>2. ASSUME NEW pass \in {"labels", "code", "data"}, Reading(pass)
      PROVE  /\ UNCHANGED <<program, pos, sc_status, symbols, generator>>
             /\ phase = pass /\ phase' = pass
  BY <1>2, Zenon DEF Reading, genvars
<1>3. CASE Relocate \/ WriteCode \/ WriteData
  BY <1>2, <1>3 DEF Relocate, WriteCode, WriteData
<1>4. CASE CompactError
  BY <1>4 DEF CompactError
<1>5. CASE EndOfPass("labels", "code") \/ EndOfPass("code", "data") \/ EndOfPass("data", "done")
  BY <1>5 DEF EndOfPass
<1> QED
  BY <1>1, <1>3, <1>4, <1>5, Zenon DEF Assemble

(* GeneratorInv does not depend on the assembler's variables.              *)
LEMMA GeneratorFrame ==
  ASSUME GeneratorInv, UNCHANGED <<program, pos, sc_status, symbols, generator>>,
         phase' \in {"parse", "assemble", "labels", "code", "data", "done", "rejected"}
  PROVE  GeneratorInv'
<1>1. /\ program' = program /\ pos' = pos /\ sc_status' = sc_status
      /\ used' = used /\ defined' = defined /\ prototyped' = prototyped /\ refer' = refer
      /\ addr' = addr /\ default' = default /\ defaddr' = defaddr
      /\ code_idx' = code_idx /\ glb_declared' = glb_declared /\ sc_labnum' = sc_labnum
      /\ sc_alignnext' = sc_alignnext /\ litq' = litq /\ curfunc' = curfunc /\ saved' = saved
      /\ wq' = wq /\ asm' = asm
  BY Zenon DEF symbols, generator
<1>2. GTypeOK' /\ AlignInv' /\ FirstInv'
  BY <1>1 DEF GeneratorInv, GTypeOK, AlignInv, FirstInv
<1>3. \A h, i, s : RefersIn(h, i, s)' <=> RefersIn(h, i, s)
  BY <1>1, Zenon DEF RefersIn, Refers, In
<1>4. PlaceInv'
  BY <1>1, Zenon DEF GeneratorInv, PlaceInv, OutsideInv, InsideInv, DefinedInv, PrototypedInv, In
<1>5. Alive' = Alive /\ Lines("call")' = Lines("call") /\ Lines("label")' = Lines("label")
      /\ Lines("jump")' = Lines("jump") /\ (AlignedGlobal' <=> AlignedGlobal)
  BY <1>1, Zenon DEF Alive, Lines, AlignedGlobal
<1>6. ReferInv'
  BY <1>1, <1>3 DEF GeneratorInv, ReferInv, ReferredInv, ReferrersInv, UsedInv
<1>7. AliveInv'
  BY <1>1, <1>3, <1>5
     DEF GeneratorInv, AliveInv, AliveRefers, UsedByAlive, SkipsDead, AllPrototyped
<1>8. FileInv' /\ CallInv'
  BY <1>1, <1>5, Zenon
     DEF GeneratorInv, FileInv, CodeCount, DataCount, CallInv, CallsAlive, ProcsThere
<1>9. LabelInv'
  BY <1>1, <1>5 DEF GeneratorInv, LabelInv, LoopsOpen, LabelsOnce, JumpsLabelled, LoopsLabelled
<1>10. /\ \A op : Lines(op)' = Lines(op)
       /\ \A s : Wanted(s)' <=> Wanted(s)
       /\ \A object, a : There(object, a)' <=> There(object, a)
       /\ \A object, a : Placed(object, a)' <=> Placed(object, a)
  <2>1. \A op : Lines(op)' = Lines(op)
    BY <1>1 DEF Lines
  <2>2. \A s : Wanted(s)' <=> Wanted(s)
    BY <1>1, <1>3, <1>5, Zenon DEF Wanted
  <2>3. \A object, a : Placed(object, a)' <=> Placed(object, a)
    BY <1>1, <2>1 DEF Placed, Holds
  <2>4. \A object, a : Pending(object, a)' <=> Pending(object, a)
    BY <1>1 DEF Pending, Holds
  <2>5. \A object, a : There(object, a)' <=> There(object, a)
    BY <2>3, <2>4, Zenon DEF There
  <2> QED
    BY <2>1, <2>2, <2>3, <2>5
<1>11. /\ \A l : CellsWanted(l)' <=> CellsWanted(l)
       /\ \A i, s : Answered(i, s)' <=> Answered(i, s)
  BY <1>1, <1>10, Zenon DEF CellsWanted, Answered
<1>12. /\ ProcsAlive' <=> ProcsAlive
       /\ LiteralsOnly' <=> LiteralsOnly
       /\ DumpsWanted' <=> DumpsWanted
  BY <1>1, <1>5, <1>10, <1>11, Zenon DEF ProcsAlive, LiteralsOnly, DumpsWanted, CellsWanted
<1>13. ReferencesFiled' <=> ReferencesFiled
  BY <1>1, <1>3, <1>5, <1>11, Zenon DEF ReferencesFiled
<1>14. IdleInv'
  BY <1>1, <1>12, <1>13, Zenon DEF GeneratorInv, IdleInv
<1>15. AddressesLead' <=> AddressesLead
  BY <1>1, <1>10, Zenon DEF AddressesLead
<1>16. (GlobalsPlaced' <=> GlobalsPlaced) /\ (DefaultsPlaced' <=> DefaultsPlaced)
  BY <1>1, <1>10, Zenon DEF GlobalsPlaced, DefaultsPlaced
<1>17. DataInv'
  BY <1>1, <1>5, <1>15, <1>16, Zenon DEF GeneratorInv, DataInv, ObjectsLanded
<1> QED
  BY <1>2, <1>4, <1>6, <1>7, <1>8, <1>9, <1>14, <1>17, Zenon DEF GeneratorInv

-----------------------------------------------------------------------------
(***************************************************************************)
(* The assembler                                                           *)
(***************************************************************************)

(* Every step of the assembler keeps StoreInv.                             *)
LEMMA StoreKept ==
  ASSUME StoreInv, Assemble
  PROVE  StoreInv'
<1>1. /\ UNCHANGED <<program, pos, sc_status, symbols, generator>>
      /\ phase \in {"assemble", "labels", "code", "data"}
  BY AssembleFrame
<1>2. program' = program /\ pos' = pos /\ sc_status' = sc_status /\ curfunc' = curfunc /\ code_idx' = code_idx
  BY <1>1, Zenon DEF generator
<1> QED
  BY <1>1, <1>2 DEF StoreInv

(* What the invariant reads of the parser's state is the same after a step *)
(* of the assembler.                                                       *)
LEMMA AssemblerFrame ==
  ASSUME Assemble
  PROVE  /\ asm' = asm /\ addr' = addr /\ sc_labnum' = sc_labnum
         /\ code_idx' = code_idx /\ glb_declared' = glb_declared /\ defined' = defined
         /\ CodeAt(asm)' = CodeAt(asm) /\ DataAt(asm)' = DataAt(asm)
         /\ \A op : Lines(op)' = Lines(op)
         /\ \A f : EntryOf(f)' = EntryOf(f)
<1>1. UNCHANGED <<program, pos, sc_status, symbols, generator>>
  BY AssembleFrame
<1>2. /\ asm' = asm /\ addr' = addr /\ sc_labnum' = sc_labnum
      /\ code_idx' = code_idx /\ glb_declared' = glb_declared /\ defined' = defined
  BY <1>1, Zenon DEF symbols, generator
<1>3. CodeAt(asm)' = CodeAt(asm) /\ DataAt(asm)' = DataAt(asm)
  BY <1>2, Zenon
<1>4. \A op : Lines(op)' = Lines(op)
  BY <1>2, Zenon DEF Lines
<1>5. \A f : EntryOf(f)' = EntryOf(f)
  BY <1>2, Zenon DEF EntryOf
<1> QED
  BY <1>2, <1>3, <1>4, <1>5

(* A pass reads the next line and moves on by its cells.                   *)
LEMMA ReadingEffect ==
  ASSUME NEW pass, Reading(pass), asm \in Seq(Line), LineInv, pass \in {"labels", "code", "data"}
  PROVE  /\ phase = pass /\ phase' = pass /\ line' = line + 1 /\ hdr' = hdr
         /\ line \in Nat /\ line + 1 \in 1 .. Len(asm) /\ line \in 0 .. Len(asm)
         /\ current = asm[line + 1] /\ current \in Line
         /\ \A m \in 1 .. line + 1 : m \in 1 .. line \/ m = line + 1
         /\ CodeAt(asm)[line + 1] = CodeAt(asm)[line] + CodeCells(current)
         /\ DataAt(asm)[line + 1] = DataAt(asm)[line] + DataCells(current)
         /\ CodeAt(asm)[line] \in Nat /\ DataAt(asm)[line] \in Nat
<1>1. phase = pass /\ phase' = pass /\ line' = line + 1 /\ hdr' = hdr /\ line < Len(asm)
  BY Zenon DEF Reading, genvars
<1>2. line \in 0 .. Len(asm) /\ Len(asm) \in Nat
  BY <1>1 DEF LineInv
<1>3. /\ line \in Nat /\ line + 1 \in 1 .. Len(asm) /\ (line + 1) - 1 = line
      /\ \A m \in 1 .. line + 1 : m \in 1 .. line \/ m = line + 1
  BY <1>1, <1>2
<1>4. current = asm[line + 1] /\ current \in Line
  BY <1>3 DEF current
<1> QED
  BY <1>1, <1>2, <1>3, <1>4, Offsets

(* Every step of the assembler keeps HeaderInv.                            *)
LEMMA HeaderKept ==
  ASSUME HeaderInv, Assemble
  PROVE  HeaderInv'
<1>0. /\ code_idx' = code_idx /\ glb_declared' = glb_declared /\ \A f : EntryOf(f)' = EntryOf(f)
  BY AssemblerFrame
<1>1. CASE Begin
  <2>1. hdr' = [code |-> code_idx, data |-> glb_declared,
                functions |-> [f \in Funcs |-> EntryOf(f)]]
    BY <1>1, Zenon DEF Begin, EntryOf
  <2> QED
    BY <1>0, <2>1 DEF HeaderInv
<1>2. CASE hdr' = hdr /\ (phase \in {"labels", "code", "data"} \/ phase' = "assemble")
  BY <1>0, <1>2 DEF HeaderInv
<1>3. CASE CompactError
  BY <1>2, <1>3 DEF CompactError
<1>4. ASSUME NEW pass \in {"labels", "code", "data"}, Reading(pass)
      PROVE  HeaderInv'
  BY <1>2, <1>4 DEF Reading
<1>5. CASE Relocate \/ WriteCode \/ WriteData
  BY <1>4, <1>5 DEF Relocate, WriteCode, WriteData
<1>6. CASE EndOfPass("labels", "code") \/ EndOfPass("code", "data") \/ EndOfPass("data", "done")
  BY <1>2, <1>6 DEF EndOfPass
<1> QED
  BY <1>1, <1>3, <1>5, <1>6, Zenon DEF Assemble

(* Every step of the assembler keeps LineInv.                              *)
LEMMA LineKept ==
  ASSUME asm \in Seq(Line), LineInv, Assemble
  PROVE  LineInv'
<1>0. asm' = asm /\ Len(asm) \in Nat
  BY AssemblerFrame
<1>1. CASE Begin
  BY <1>0, <1>1 DEF Begin, LineInv
<1>2. CASE CompactError
  BY <1>2 DEF CompactError, LineInv
<1>3. ASSUME NEW pass \in {"labels", "code", "data"}, Reading(pass)
      PROVE  LineInv'
  BY <1>0, <1>3, ReadingEffect DEF LineInv
<1>4. CASE Relocate \/ WriteCode \/ WriteData
  BY <1>3, <1>4 DEF Relocate, WriteCode, WriteData
<1>5. CASE EndOfPass("labels", "code") \/ EndOfPass("code", "data") \/ EndOfPass("data", "done")
  BY <1>0, <1>5 DEF EndOfPass, LineInv
<1> QED
  BY <1>1, <1>2, <1>4, <1>5, Zenon DEF Assemble

(* Every label has its place in the table, and no other label has the      *)
(* same.                                                                   *)
LEMMA LabelsInTable ==
  ASSUME GTypeOK, StoreInv, LabelInv, phase \in {"assemble", "labels", "code", "data", "done"}
  PROVE  /\ \A m \in Lines("label") : m \in 1 .. Len(asm) /\ asm[m].to \in 0 .. sc_labnum - 1
         /\ \A m, n \in Lines("label") : asm[n].to = asm[m].to => n = m
<1>1. sc_status = "write"
  BY DEF StoreInv
<1>2. LabelsOnce /\ sc_labnum \in Nat
  BY <1>1 DEF GTypeOK, LabelInv
<1>3. \A m \in Lines("label") : m \in 1 .. Len(asm) /\ asm[m].to \in Nat
  BY LabelTypes DEF Lines
<1> QED
  BY <1>2, <1>3 DEF LabelsOnce

(* Every step keeps TableInv: the label pass enters each label at the      *)
(* cells of code before it.                                                *)
LEMMA TableKept ==
  ASSUME GTypeOK, StoreInv, LabelInv, LineInv, TableInv, Assemble
  PROVE  TableInv'
<1>0. /\ asm' = asm /\ sc_labnum' = sc_labnum /\ CodeAt(asm)' = CodeAt(asm)
      /\ Lines("label")' = Lines("label")
      /\ asm \in Seq(Line) /\ Len(asm) \in Nat /\ sc_labnum \in Nat
  BY AssemblerFrame DEF GTypeOK
<1>1. /\ \A m \in Lines("label") : m \in 1 .. Len(asm) /\ asm[m].to \in 0 .. sc_labnum - 1
      /\ \A m, n \in Lines("label") : asm[n].to = asm[m].to => n = m
  BY LabelsInTable, AssembleFrame
<1>2. CASE Begin
  <2>1. /\ line' = 0 /\ codeindex' = 0 /\ lbltab' = [l \in 0 .. (sc_labnum - 1) |-> -1]
        /\ phase' = IF sc_labnum > 0 THEN "labels" ELSE "code"
    BY <1>2 DEF Begin
  <2>2. LabelsTo(0)'
    BY <1>0, <1>1 DEF LabelsTo
  <2>3. sc_labnum = 0 => LabelsTo(Len(asm))'
    BY <1>0, <1>1 DEF LabelsTo
  <2>4. lbltab' \in [0 .. sc_labnum' - 1 -> Int]
    BY <1>0, <2>1
  <2>5. CodeAt(asm)'[0] = 0
    BY <1>0, Offsets
  <2>6. CASE sc_labnum > 0
    BY <2>1, <2>2, <2>4, <2>5, <2>6 DEF TableInv
  <2>7. CASE sc_labnum = 0
    <3>1. phase' = "code" /\ LabelsTo(Len(asm))'
      BY <1>0, <2>1, <2>3, <2>7
    <3> QED
      BY <2>4, <3>1 DEF TableInv
  <2> QED
    BY <1>0, <2>6, <2>7
<1>3. CASE Relocate
  <2>1. /\ phase = "labels" /\ phase' = "labels" /\ line' = line + 1
        /\ line \in Nat /\ line + 1 \in 1 .. Len(asm)
        /\ current = asm[line + 1] /\ current \in Line
        /\ CodeAt(asm)[line + 1] = CodeAt(asm)[line] + CodeCells(current)
        /\ CodeAt(asm)[line] \in Nat
    BY <1>0, <1>3, ReadingEffect DEF Relocate
  <2>2. lbltab \in [0 .. sc_labnum - 1 -> Int] /\ codeindex = CodeAt(asm)[line] /\ LabelsTo(line)
    BY <2>1 DEF TableInv
  <2>3. \A m \in Lines("label") : m <= line + 1 => m <= line \/ m = line + 1
    BY <1>1, <2>1
  <2>4. SUFFICES /\ lbltab' \in [0 .. sc_labnum - 1 -> Int]
                 /\ codeindex' = CodeAt(asm)[line + 1]
                 /\ \A m \in Lines("label") : m <= line + 1 => lbltab'[asm[m].to] = CodeAt(asm)[m - 1]
    BY <1>0, <2>1 DEF TableInv, LabelsTo
  <2>5. CASE current.op = "label"
    <3>1. lbltab' = [lbltab EXCEPT ![current.to] = codeindex] /\ codeindex' = codeindex
      BY <1>3, <2>5 DEF Relocate
    <3>2. CodeCells(current) = 0 /\ line + 1 \in Lines("label")
      BY <2>1, <2>5 DEF CodeCells, InCode, Line, Lines
    <3>3. asm[line + 1].to \in 0 .. sc_labnum - 1 /\ asm[line + 1] = current /\ codeindex \in Int
      BY <1>1, <2>1, <2>2, <3>2
    <3>4. \A l \in 0 .. sc_labnum - 1 : lbltab'[l] = IF l = current.to THEN codeindex ELSE lbltab[l]
      BY <2>2, <3>1
    <3>5. ASSUME NEW m \in Lines("label"), m <= line + 1
          PROVE  lbltab'[asm[m].to] = CodeAt(asm)[m - 1]
      <4>1. CASE m = line + 1
        <5>1. m - 1 = line /\ asm[m].to = current.to
          BY <2>1, <3>3, <4>1
        <5> QED
          BY <2>2, <3>3, <3>4, <5>1
      <4>2. CASE m <= line
        <5>1. m # line + 1
          BY <2>1, <4>2
        <5>2. asm[m].to # current.to
          BY <1>1, <3>2, <3>3, <5>1
        <5> QED
          BY <1>1, <2>2, <3>4, <4>2, <5>2 DEF LabelsTo
      <4> QED
        BY <2>3, <3>5, <4>1, <4>2
    <3>6. lbltab' \in [0 .. sc_labnum - 1 -> Int]
      BY <2>2, <3>1, <3>3
    <3> QED
      BY <2>1, <2>2, <3>1, <3>2, <3>5, <3>6
  <2>6. CASE current.op # "label"
    <3>1. lbltab' = lbltab /\ codeindex' = codeindex + CodeCells(current)
      BY <1>3, <2>1, <2>2, <2>6 DEF Relocate, CodeCells
    <3>2. line + 1 \notin Lines("label")
      BY <2>1, <2>6 DEF Lines
    <3> QED
      BY <2>1, <2>2, <2>3, <3>1, <3>2 DEF LabelsTo
  <2> QED
    BY <2>5, <2>6
<1>4. ASSUME lbltab' = lbltab, LabelsTo(Len(asm)), phase' \in {"code", "data", "done"},
             lbltab \in [0 .. sc_labnum - 1 -> Int]
      PROVE  TableInv'
  BY <1>0, <1>4 DEF TableInv, LabelsTo
<1>5. CASE WriteCode \/ WriteData
  <2>1. lbltab' = lbltab /\ phase \in {"code", "data"} /\ phase' \in {"code", "data"}
    BY <1>0, <1>5, ReadingEffect DEF WriteCode, WriteData
  <2> QED
    BY <1>4, <2>1 DEF TableInv
<1>6. CASE CompactError
  BY <1>6 DEF CompactError, TableInv
<1>7. CASE EndOfPass("labels", "code")
  BY <1>4, <1>7 DEF EndOfPass, TableInv
<1>8. CASE EndOfPass("code", "data") \/ EndOfPass("data", "done")
  BY <1>4, <1>8 DEF EndOfPass, TableInv
<1> QED
  BY <1>2, <1>3, <1>5, <1>6, <1>7, <1>8, Zenon DEF Assemble

(* The operand of every line is an integer when the code is written.       *)
LEMMA OperandTyped ==
  ASSUME GTypeOK, StoreInv, LabelInv, PlaceInv, CallInv, TableInv, phase = "code", NEW m \in 1 .. Len(asm)
  PROVE  Operand(asm[m]) \in Int
<1>0. asm[m] \in Line /\ addr \in [Vars \cup Funcs -> Int] /\ lbltab \in [0 .. sc_labnum - 1 -> Int]
      /\ sc_status = "write" /\ wq = <<>>
  <2>1. curfunc = None /\ sc_status = "write"
    BY DEF StoreInv
  <2> QED
    BY <2>1 DEF GTypeOK, TableInv, OutsideInv, PlaceInv
<1>1. CASE asm[m].op = "jump"
  <2>1. \E n \in Lines("label") : asm[n].to = asm[m].to
    <3>1. JumpsLabelled /\ \A n \in 1 .. Len(wq) : FALSE
      BY <1>0 DEF LabelInv
    <3>2. m \in Lines("jump")
      BY <1>1 DEF Lines
    <3> QED
      BY <3>1, <3>2 DEF JumpsLabelled
  <2>2. asm[m].to \in 0 .. sc_labnum - 1
    BY <2>1, LabelsInTable
  <2> QED
    BY <1>0, <1>1, <2>2 DEF Operand
<1>2. CASE asm[m].op = "call"
  BY <1>0, <1>2 DEF Operand, Line
<1>3. CASE asm[m].op = "address"
  BY <1>0, <1>3 DEF Operand, Line
<1>4. CASE asm[m].op \notin {"jump", "call", "address"}
  BY <1>4 DEF Operand
<1> QED
  BY <1>1, <1>2, <1>3, <1>4

(* What has been written stays right while the label table does.           *)
LEMMA CodeFrame ==
  ASSUME NEW n, CodeOf(n), code' = code, Assemble, lbltab' = lbltab
  PROVE  CodeOf(n)'
<1>1. asm' = asm /\ addr' = addr /\ CodeAt(asm)' = CodeAt(asm)
  BY AssemblerFrame
<1>2. \A l : Operand(l)' = Operand(l)
  BY <1>1, Zenon DEF Operand
<1> QED
  BY <1>1, <1>2 DEF CodeOf

(* Every step keeps CodeInv, the assembly that begins again without        *)
(* compression included.                                                   *)
LEMMA CodeKept ==
  ASSUME GTypeOK, StoreInv, PlaceInv, CallInv, LabelInv, LineInv, TableInv, CodeInv, Assemble
  PROVE  CodeInv'
<1>0. /\ asm' = asm /\ CodeAt(asm)' = CodeAt(asm) /\ asm \in Seq(Line) /\ Len(asm) \in Nat
      /\ addr' = addr /\ code \in Seq(CodeCell) /\ CodeAt(asm)[0] = 0
  <2>1. asm \in Seq(Line)
    BY DEF GTypeOK
  <2> QED
    BY <2>1, AssemblerFrame, Offsets DEF CodeInv
<1>1. ASSUME code' = <<>>, phase' \in {"labels", "code"}, line' = 0
      PROVE  CodeInv'
  <2>1. CodeOf(0)'
    BY <1>0, <1>1 DEF CodeOf
  <2> QED
    BY <1>1, <2>1 DEF CodeInv
<1>2. CASE Begin
  <2>1. code' = <<>> /\ line' = 0 /\ phase' \in {"labels", "code"}
    BY <1>2 DEF Begin
  <2> QED
    BY <1>1, <2>1
<1>3. CASE Relocate
  <2>1. code' = code /\ phase = "labels" /\ phase' = "labels"
    BY <1>0, <1>3, ReadingEffect DEF Relocate
  <2>2. Len(code) = 0
    BY <1>0, <2>1 DEF CodeInv, CodeOf
  <2>3. CodeOf(0)'
    BY <1>0, <2>1, <2>2 DEF CodeOf
  <2> QED
    BY <1>0, <2>1, <2>3 DEF CodeInv
<1>4. CASE WriteCode
  <2>1. /\ phase = "code" /\ phase' = "code" /\ line' = line + 1
        /\ line \in Nat /\ line + 1 \in 1 .. Len(asm)
        /\ current = asm[line + 1] /\ current \in Line
        /\ CodeAt(asm)[line + 1] = CodeAt(asm)[line] + CodeCells(current)
        /\ CodeAt(asm)[line] \in Nat
    BY <1>0, <1>4, ReadingEffect DEF WriteCode
  <2>2. CodeOf(line) /\ lbltab' = lbltab
    BY <1>4, <2>1 DEF CodeInv, WriteCode
  <2>3. \A l : Operand(l)' = Operand(l)
    BY <1>0, <2>2, Zenon DEF Operand
  <2> DEFINE v == Operand(current)
             s == [k \in 1 .. current.size |-> [line |-> line + 1, val |-> v]]
  <2>4. v \in Int
    BY <2>1, OperandTyped
  <2>5. CASE ~InCode(current)
    <3>1. code' = code /\ CodeCells(current) = 0
      BY <1>4, <2>5 DEF WriteCode, CodeCells
    <3>2. CodeAt(asm)'[line'] = CodeAt(asm)[line] /\ \A i : i \in 1 .. line => i \in 1 .. line'
      BY <1>0, <2>1, <3>1
    <3>3. CodeOf(line)'
      BY <1>0, <2>2, <2>3, <3>1, <3>2 DEF CodeOf
    <3> QED
      BY <1>0, <2>1, <3>1, <3>3 DEF CodeInv
  <2>6. CASE InCode(current)
    <3>1. code' = code \o s /\ current.size \in Nat /\ CodeCells(current) = current.size
      BY <1>4, <2>1, <2>6 DEF WriteCode, CodeCells, InCode, Line
    <3>2. s \in [1 .. current.size -> CodeCell]
      BY <2>1, <2>4 DEF CodeCell
    <3>3. s \in Seq(CodeCell) /\ Len(s) = current.size
      BY <3>1, <3>2, FunctionIsSeq
    <3>4. \A k \in 1 .. Len(s) : s[k].line = line + 1 /\ s[k].val = Operand(asm[line + 1])
      BY <2>1, <3>3
    <3> HIDE DEF s
    <3>5. /\ code' \in Seq(CodeCell) /\ Len(code') = Len(code) + Len(s) /\ Len(code) \in Nat
          /\ \A t \in 1 .. Len(code) : code'[t] = code[t]
          /\ \A k \in 1 .. Len(s) : code'[Len(code) + k] = s[k]
      BY <1>0, <3>1, <3>3, ConcatProperties
    <3>6. Len(code) = CodeAt(asm)[line] /\ Len(code') = CodeAt(asm)[line + 1]
      BY <2>1, <2>2, <3>1, <3>3, <3>5 DEF CodeOf
    <3>7. ASSUME NEW t \in 1 .. Len(code')
          PROVE  /\ code'[t].line \in 1 .. line + 1
                 /\ CodeAt(asm)[code'[t].line - 1] < t /\ t <= CodeAt(asm)[code'[t].line]
                 /\ code'[t].val = Operand(asm[code'[t].line])
      <4>1. CASE t \in 1 .. Len(code)
        <5>1. /\ code[t].line \in 1 .. line
              /\ CodeAt(asm)[code[t].line - 1] < t /\ t <= CodeAt(asm)[code[t].line]
              /\ code[t].val = Operand(asm[code[t].line])
          BY <2>2, <4>1 DEF CodeOf
        <5>2. code[t].line \in 1 .. line + 1
          BY <2>1, <5>1
        <5> QED
          BY <3>5, <4>1, <5>1, <5>2
      <4>2. CASE t > Len(code)
        <5>1. t - Len(code) \in 1 .. Len(s) /\ t = Len(code) + (t - Len(code))
          BY <3>3, <3>5, <4>2
        <5>2. code'[t].line = line + 1 /\ code'[t].val = Operand(asm[line + 1])
          BY <3>4, <3>5, <5>1
        <5>3. (line + 1) - 1 = line /\ line + 1 \in 1 .. line + 1
          BY <2>1
        <5> QED
          BY <2>1, <3>6, <4>2, <5>2, <5>3
      <4> QED
        BY <3>5, <4>1, <4>2
    <3>8. CodeOf(line)'
      <4>1. Len(code') = CodeAt(asm')[line + 1]
        BY <1>0, <3>6
      <4> QED
        BY <1>0, <2>1, <2>3, <3>6, <3>7 DEF CodeOf
    <3> QED
      BY <1>0, <2>1, <3>5, <3>8 DEF CodeInv
  <2> QED
    BY <2>5, <2>6
<1>5. ASSUME code' = code, lbltab' = lbltab, CodeOf(Len(asm)), phase' \in {"data", "done"}
      PROVE  CodeInv'
  <2>1. CodeOf(Len(asm))'
    BY <1>0, <1>5, CodeFrame
  <2> QED
    BY <1>0, <1>5, <2>1 DEF CodeInv
<1>6. CASE WriteData
  <2>1. code' = code /\ lbltab' = lbltab /\ phase = "data" /\ phase' = "data"
    BY <1>0, <1>6, ReadingEffect DEF WriteData
  <2> QED
    BY <1>5, <2>1 DEF CodeInv
<1>7. CASE CompactError
  BY <1>7 DEF CompactError, CodeInv
<1>8. CASE EndOfPass("labels", "code")
  <2>1. phase = "labels" /\ phase' = "code" /\ line' = 0 /\ code' = code
    BY <1>8 DEF EndOfPass
  <2>2. CodeOf(0) /\ Len(code) = 0
    BY <1>0, <2>1 DEF CodeInv, CodeOf
  <2>3. CodeOf(0)'
    BY <1>0, <2>1, <2>2 DEF CodeOf
  <2> QED
    BY <1>0, <2>1, <2>3 DEF CodeInv
<1>9. CASE EndOfPass("code", "data") \/ EndOfPass("data", "done")
  <2>1. /\ code' = code /\ lbltab' = lbltab /\ phase' \in {"data", "done"}
        /\ phase \in {"code", "data"} /\ line = Len(asm)
    BY <1>9 DEF EndOfPass
  <2> QED
    BY <1>5, <2>1 DEF CodeInv
<1> QED
  BY <1>2, <1>3, <1>4, <1>6, <1>7, <1>8, <1>9, Zenon DEF Assemble

(* Every step keeps ImageInv.                                              *)
LEMMA ImageKept ==
  ASSUME GTypeOK, LineInv, ImageInv, Assemble
  PROVE  ImageInv'
<1>0. /\ asm' = asm /\ DataAt(asm)' = DataAt(asm) /\ asm \in Seq(Line) /\ Len(asm) \in Nat
      /\ data \in Seq(Cell) /\ DataAt(asm)[0] = 0
  <2>1. asm \in Seq(Line)
    BY DEF GTypeOK
  <2> QED
    BY <2>1, AssemblerFrame, Offsets DEF ImageInv
<1>1. ASSUME NEW n, DataOf(n), data' = data
      PROVE  DataOf(n)'
  BY <1>0, <1>1, Zenon DEF DataOf
<1>2. CASE Begin
  <2>1. data' = <<>> /\ phase' \in {"labels", "code"}
    BY <1>2 DEF Begin
  <2>2. DataOf(0)'
    BY <1>0, <2>1 DEF DataOf
  <2> QED
    BY <2>1, <2>2 DEF ImageInv
<1>3. CASE Relocate \/ WriteCode
  <2>1. data' = data /\ phase \in {"labels", "code"} /\ phase' \in {"labels", "code"}
    BY <1>0, <1>3, ReadingEffect DEF Relocate, WriteCode
  <2>2. DataOf(0)
    BY <2>1 DEF ImageInv
  <2>3. DataOf(0)'
    BY <1>1, <2>1, <2>2
  <2> QED
    BY <1>0, <2>1, <2>3 DEF ImageInv
<1>4. CASE WriteData
  <2>1. /\ phase = "data" /\ phase' = "data" /\ line' = line + 1
        /\ line \in Nat /\ line + 1 \in 1 .. Len(asm)
        /\ current = asm[line + 1] /\ current \in Line
        /\ \A m \in 1 .. line + 1 : m \in 1 .. line \/ m = line + 1
        /\ DataAt(asm)[line + 1] = DataAt(asm)[line] + DataCells(current)
        /\ DataAt(asm)[line] \in Nat
    BY <1>0, <1>4, ReadingEffect DEF WriteData
  <2>2. DataOf(line)
    BY <2>1 DEF ImageInv
  <2>3. CASE InCode(current)
    <3>1. data' = data /\ DataCells(asm[line + 1]) = 0 /\ DataCells(current) = 0
      BY <1>4, <2>1, <2>3 DEF WriteData, DataCells
    <3>2. \A c \in 1 .. DataCells(asm[line + 1]) : FALSE
      BY <3>1
    <3>3. \A m \in 1 .. line : m \in 1 .. line + 1
      BY <2>1
    <3>4. Len(data') = DataAt(asm)[line + 1]
      BY <2>1, <2>2, <3>1 DEF DataOf
    <3>5. \A m \in 1 .. line + 1 : \A c \in 1 .. DataCells(asm[m]) :
             data'[DataAt(asm)[m - 1] + c] = asm[m].cells[c]
      BY <2>1, <2>2, <3>1, <3>2 DEF DataOf
    <3>6. \A i \in 1 .. Len(data') : \E m \in 1 .. line + 1 : \E c \in 1 .. DataCells(asm[m]) :
             data'[i] = asm[m].cells[c]
      BY <2>2, <3>1, <3>3 DEF DataOf
    <3>7. DataOf(line)'
      BY <1>0, <2>1, <3>4, <3>5, <3>6, Zenon DEF DataOf
    <3> QED
      BY <1>0, <2>1, <3>1, <3>7 DEF ImageInv
  <2>4. CASE ~InCode(current)
    <3> DEFINE s == current.cells
    <3>1. data' = data \o s /\ s \in Seq(Cell) /\ DataCells(current) = Len(s)
      BY <1>4, <2>1, <2>4 DEF WriteData, DataCells, InCode, Line
    <3>2. s = asm[line + 1].cells /\ DataCells(asm[line + 1]) = Len(s)
      BY <2>1, <3>1
    <3> HIDE DEF s
    <3>3. /\ data' \in Seq(Cell) /\ Len(data') = Len(data) + Len(s) /\ Len(data) \in Nat /\ Len(s) \in Nat
          /\ \A t \in 1 .. Len(data) : data'[t] = data[t]
          /\ \A k \in 1 .. Len(s) : data'[Len(data) + k] = s[k]
      BY <1>0, <3>1, ConcatProperties
    <3>4. Len(data) = DataAt(asm)[line] /\ Len(data') = DataAt(asm)[line + 1]
      BY <2>1, <2>2, <3>1, <3>3 DEF DataOf
    <3>5. ASSUME NEW m \in 1 .. line + 1, NEW c \in 1 .. DataCells(asm[m])
          PROVE  data'[DataAt(asm)[m - 1] + c] = asm[m].cells[c]
      <4>1. CASE m \in 1 .. line
        <5>1. m \in 1 .. Len(asm) /\ m - 1 \in 0 .. Len(asm) /\ line \in 0 .. Len(asm) /\ line \in m .. Len(asm)
              /\ m \in 0 .. Len(asm)
          BY <1>0, <2>1, <4>1
        <5>2. DataAt(asm)[m] = DataAt(asm)[m - 1] + DataCells(asm[m]) /\ DataAt(asm)[m - 1] \in Nat
              /\ DataAt(asm)[m] <= DataAt(asm)[line] /\ DataCells(asm[m]) \in Nat
          <6>1. asm[m] \in Line
            BY <1>0, <5>1
          <6> QED
            BY <1>0, <5>1, <6>1, Offsets, LineCells
        <5>3. DataAt(asm)[m - 1] + c \in 1 .. Len(data)
          BY <2>1, <3>4, <5>2
        <5>4. data[DataAt(asm)[m - 1] + c] = asm[m].cells[c]
          BY <2>2, <4>1 DEF DataOf
        <5> QED
          BY <3>3, <5>3, <5>4
      <4>2. CASE m = line + 1
        <5>1. DataAt(asm)[m - 1] = Len(data)
          BY <2>1, <3>4, <4>2
        <5> QED
          BY <3>2, <3>3, <4>2, <5>1
      <4> QED
        BY <2>1, <4>1, <4>2
    <3>6. ASSUME NEW i \in 1 .. Len(data')
          PROVE  \E m \in 1 .. line + 1 : \E c \in 1 .. DataCells(asm[m]) : data'[i] = asm[m].cells[c]
      <4>1. CASE i \in 1 .. Len(data)
        <5>1. \A m \in 1 .. line : m \in 1 .. line + 1
          BY <2>1
        <5>2. PICK m \in 1 .. line : \E c \in 1 .. DataCells(asm[m]) : data[i] = asm[m].cells[c]
          BY <2>2, <4>1 DEF DataOf
        <5> QED
          BY <3>3, <4>1, <5>1, <5>2
      <4>2. CASE i > Len(data)
        <5>1. i - Len(data) \in 1 .. Len(s) /\ i = Len(data) + (i - Len(data))
          BY <3>3, <4>2
        <5>2. data'[i] = asm[line + 1].cells[i - Len(data)]
          BY <3>2, <3>3, <5>1
        <5>3. line + 1 \in 1 .. line + 1
          BY <2>1
        <5> QED
          BY <3>2, <5>1, <5>2, <5>3
      <4> QED
        BY <3>3, <4>1, <4>2
    <3>7. DataOf(line)'
      BY <1>0, <2>1, <3>4, <3>5, <3>6, Zenon DEF DataOf
    <3> QED
      BY <1>0, <2>1, <3>3, <3>7 DEF ImageInv
  <2> QED
    BY <2>3, <2>4
<1>5. CASE CompactError
  BY <1>5 DEF CompactError, ImageInv
<1>6. CASE EndOfPass("labels", "code")
  <2>1. data' = data /\ phase = "labels" /\ phase' = "code"
    BY <1>6 DEF EndOfPass
  <2>2. DataOf(0)'
    BY <1>1, <2>1 DEF ImageInv
  <2> QED
    BY <1>0, <2>1, <2>2 DEF ImageInv
<1>7. CASE EndOfPass("code", "data")
  <2>1. data' = data /\ phase = "code" /\ phase' = "data" /\ line' = 0
    BY <1>7 DEF EndOfPass
  <2>2. DataOf(0)
    BY <2>1 DEF ImageInv
  <2>3. DataOf(line)'
    BY <1>0, <2>1, <2>2, Zenon DEF DataOf
  <2> QED
    BY <1>0, <2>1, <2>3 DEF ImageInv
<1>8. CASE EndOfPass("data", "done")
  <2>1. data' = data /\ phase = "data" /\ phase' = "done" /\ line = Len(asm)
    BY <1>8 DEF EndOfPass
  <2>2. DataOf(Len(asm))
    BY <2>1 DEF ImageInv
  <2>3. DataOf(Len(asm))'
    BY <1>0, <2>1, <2>2, Zenon DEF DataOf
  <2> QED
    BY <1>0, <2>1, <2>3 DEF ImageInv
<1> QED
  BY <1>2, <1>3, <1>4, <1>5, <1>6, <1>7, <1>8, Zenon DEF Assemble

-----------------------------------------------------------------------------
(***************************************************************************)
(* The inductive invariant                                                 *)
(***************************************************************************)

(* The invariant holds at the beginning.                                   *)
LEMMA IInvInit ==
  ASSUME Init
  PROVE  IInv
<1>1. GeneratorInv /\ phase = "parse" /\ code = <<>> /\ data = <<>>
  BY GeneratorInit, Zenon DEF Init, GInit
<1>2. StoreInv /\ HeaderInv /\ LineInv /\ TableInv /\ CodeInv /\ ImageInv
  BY <1>1 DEF StoreInv, HeaderInv, LineInv, TableInv, CodeInv, ImageInv
<1> QED
  BY <1>1, <1>2, Zenon DEF IInv

(* It survives a stutter.                                                  *)
LEMMA IInvStutter ==
  ASSUME IInv, UNCHANGED vars
  PROVE  IInv'
<1>0. /\ GeneratorInv /\ StoreInv /\ HeaderInv /\ LineInv /\ TableInv /\ CodeInv /\ ImageInv
      /\ GTypeOK
  BY DEF IInv, GeneratorInv
<1>1. /\ UNCHANGED <<program, pos, sc_status, symbols, generator>> /\ phase' = phase
      /\ line' = line /\ codeindex' = codeindex /\ lbltab' = lbltab /\ code' = code /\ data' = data
      /\ hdr' = hdr
  BY Zenon DEF vars, genvars, assembler
<1>2. /\ pos' = pos /\ program' = program /\ sc_status' = sc_status /\ curfunc' = curfunc
      /\ code_idx' = code_idx /\ glb_declared' = glb_declared /\ defined' = defined /\ addr' = addr
      /\ asm' = asm /\ sc_labnum' = sc_labnum
  BY <1>1, Zenon DEF symbols, generator
<1>3. GeneratorInv'
  BY <1>0, <1>1, GeneratorFrame DEF GTypeOK
<1>4. StoreInv' /\ HeaderInv' /\ LineInv'
  BY <1>0, <1>1, <1>2 DEF StoreInv, HeaderInv, LineInv, EntryOf
<1>5. /\ \A l : Operand(l)' = Operand(l)
      /\ \A n : LabelsTo(n)' <=> LabelsTo(n)
      /\ \A n : DataOf(n)' <=> DataOf(n)
  BY <1>1, <1>2, Zenon DEF Operand, LabelsTo, Lines, DataOf
<1>6. \A n : CodeOf(n)' <=> CodeOf(n)
  BY <1>1, <1>2, <1>5, Zenon DEF CodeOf
<1>7. TableInv' /\ CodeInv' /\ ImageInv'
  BY <1>0, <1>1, <1>2, <1>5, <1>6, Zenon DEF TableInv, CodeInv, ImageInv
<1> QED
  BY <1>3, <1>4, <1>7, Zenon DEF IInv

(* It survives every step.                                                 *)
LEMMA IInvNext ==
  ASSUME IInv, Next
  PROVE  IInv'
<1>0. /\ GeneratorInv /\ StoreInv /\ HeaderInv /\ LineInv /\ TableInv /\ CodeInv /\ ImageInv
      /\ GTypeOK /\ PlaceInv /\ CallInv /\ LabelInv /\ asm \in Seq(Line)
  BY DEF IInv, GTypeOK, GeneratorInv
<1>1. CASE Compile
  <2>1. Parse /\ code' = code /\ data' = data
    BY <1>1, Zenon DEF Compile, assembler
  <2>2. GeneratorInv' /\ StoreInv' /\ phase' \in {"parse", "rejected", "assemble"}
    BY <1>0, <2>1, ParseKept, Parsed
  <2>3. HeaderInv' /\ LineInv' /\ TableInv' /\ CodeInv' /\ ImageInv'
    BY <1>0, <2>1, <2>2 DEF HeaderInv, LineInv, TableInv, CodeInv, ImageInv
  <2> QED
    BY <2>2, <2>3, Zenon DEF IInv
<1>2. CASE Assemble
  <2>1. GeneratorInv'
    BY <1>0, <1>2, AssembleFrame, GeneratorFrame
  <2>2. StoreInv' /\ HeaderInv' /\ LineInv' /\ TableInv' /\ CodeInv' /\ ImageInv'
    BY <1>0, <1>2, StoreKept, HeaderKept, LineKept, TableKept, CodeKept, ImageKept
  <2> QED
    BY <2>1, <2>2, Zenon DEF IInv
<1>3. CASE Finished
  BY <1>3, IInvStutter, Zenon DEF Finished
<1> QED
  BY <1>1, <1>2, <1>3, Zenon DEF Next

(* It is an invariant.                                                     *)
LEMMA IInvHolds == Spec => []IInv
<1>1. Init => IInv
  BY IInvInit
<1>2. IInv /\ [Next]_vars => IInv'
  BY IInvNext, IInvStutter
<1> QED
  BY <1>1, <1>2, PTL DEF Spec

-----------------------------------------------------------------------------
(***************************************************************************)
(* The finished image                                                      *)
(***************************************************************************)

(* What the invariant says of the finished image.                          *)
LEMMA AssembledFacts ==
  ASSUME IInv, Assembled
  PROVE  /\ asm \in Seq(Line) /\ Len(asm) \in Nat /\ code_idx \in Nat /\ wq = <<>> /\ sc_status = "write"
         /\ code_idx % DataAlign = 0 /\ pos = Len(program)
         /\ CodeSum(asm) = code_idx /\ (~AlignedGlobal => DataSum(asm) = glb_declared)
         /\ hdr.code = code_idx /\ hdr.data = glb_declared
         /\ \A f \in Funcs : hdr.functions[f] = EntryOf(f)
         /\ LabelsTo(Len(asm)) /\ CodeOf(Len(asm)) /\ DataOf(Len(asm))
         /\ code \in Seq(CodeCell) /\ data \in Seq(Cell)
         /\ Len(code) = CodeSum(asm) /\ Len(data) = DataSum(asm)
<1>1. /\ GTypeOK /\ PlaceInv /\ FileInv
      /\ StoreInv /\ HeaderInv /\ TableInv /\ CodeInv /\ ImageInv /\ phase = "done"
  BY DEF IInv, Assembled, GeneratorInv
<1>2. asm \in Seq(Line) /\ Len(asm) \in Nat /\ code_idx \in Nat
  BY <1>1 DEF GTypeOK
<1>3. sc_status = "write" /\ pos = Len(program) /\ curfunc = None /\ code_idx % DataAlign = 0
  BY <1>1 DEF StoreInv
<1>4. wq = <<>>
  BY <1>1, <1>3 DEF PlaceInv, OutsideInv
<1>5. CodeSum(asm) = code_idx /\ (~AlignedGlobal => DataSum(asm) = glb_declared)
  BY <1>1, <1>3 DEF FileInv, CodeCount, DataCount
<1>6. /\ hdr.code = code_idx /\ hdr.data = glb_declared
      /\ \A f \in Funcs : hdr.functions[f] = EntryOf(f)
      /\ LabelsTo(Len(asm)) /\ CodeOf(Len(asm)) /\ DataOf(Len(asm))
      /\ code \in Seq(CodeCell) /\ data \in Seq(Cell)
  BY <1>1 DEF HeaderInv, TableInv, CodeInv, ImageInv
<1>7. Len(code) = CodeSum(asm) /\ Len(data) = DataSum(asm)
  BY <1>6 DEF CodeOf, DataOf, CodeSum, DataSum
<1> QED
  BY <1>2, <1>3, <1>4, <1>5, <1>6, <1>7

(* In the finished code line m starts at its offset, and the cell there    *)
(* holds its operand.                                                      *)
LEMMA StartOf ==
  ASSUME IInv, Assembled, NEW m \in 1 .. Len(asm)
  PROVE  /\ CodeAt(asm)[m - 1] \in 0 .. Len(code)
         /\ Start(m) = CodeAt(asm)[m - 1]
         /\ CodeCells(asm[m]) > 0 =>
              /\ Start(m) \in 0 .. Len(code) - 1 /\ code[Start(m) + 1].line = m
              /\ OperandOf(m) = Operand(asm[m])
<1> DEFINE c == CodeAt(asm)
           S == c[m - 1]
<1>0. /\ asm \in Seq(Line) /\ Len(asm) \in Nat /\ CodeOf(Len(asm)) /\ Len(code) = c[Len(asm)]
      /\ m \in Nat /\ m > 0 /\ m <= Len(asm) /\ Len(code) \in Nat
  BY AssembledFacts DEF CodeSum
<1>1. \A n \in 0 .. Len(asm) : c[n] \in Nat
  BY <1>0, Offsets
<1>2. \A i, n \in 0 .. Len(asm) : i <= n => c[i] <= c[n]
  <2>1. \A i \in 0 .. Len(asm) : \A n \in i .. Len(asm) : c[i] <= c[n]
    BY <1>0, Offsets
  <2>2. \A i, n \in 0 .. Len(asm) : i <= n => n \in i .. Len(asm)
    BY <1>0
  <2> QED
    BY <2>1, <2>2
<1>3. c[m] = S + CodeCells(asm[m])
  BY <1>0, Offsets
<1>4. \A t \in 1 .. Len(code) :
        /\ code[t].line \in 1 .. Len(asm)
        /\ c[code[t].line - 1] < t /\ t <= c[code[t].line]
        /\ code[t].val = Operand(asm[code[t].line])
  BY <1>0 DEF CodeOf
<1>5. m \in 0 .. Len(asm) /\ m - 1 \in 0 .. Len(asm) /\ Len(asm) \in 0 .. Len(asm)
  BY <1>0
<1>6. S \in Nat /\ S <= Len(code) /\ c[m] \in Nat /\ c[m] <= Len(code)
  BY <1>0, <1>1, <1>2, <1>5
<1> HIDE DEF c, S
<1>7. \A t \in 1 .. Len(code) : t <= S => code[t].line < m
  <2>1. SUFFICES ASSUME NEW t \in 1 .. Len(code), t <= S, code[t].line >= m PROVE FALSE
    BY <1>0, <1>4
  <2> DEFINE L == code[t].line
  <2>2. L \in 1 .. Len(asm) /\ c[L - 1] < t
    BY <1>4
  <2>3. L - 1 \in 0 .. Len(asm) /\ m - 1 <= L - 1
    BY <1>0, <2>1, <2>2
  <2>4. S <= c[L - 1] /\ c[L - 1] \in Nat
    BY <1>1, <1>2, <1>5, <2>3 DEF S
  <2> QED
    BY <1>6, <2>1, <2>2, <2>4
<1>8. \A t \in 1 .. Len(code) : t > S => code[t].line >= m
  <2>1. SUFFICES ASSUME NEW t \in 1 .. Len(code), t > S, code[t].line < m PROVE FALSE
    BY <1>0, <1>4
  <2> DEFINE L == code[t].line
  <2>2. L \in 1 .. Len(asm) /\ t <= c[L]
    BY <1>4
  <2>3. L \in 0 .. Len(asm) /\ L <= m - 1
    BY <1>0, <2>1, <2>2
  <2>4. c[L] <= S /\ c[L] \in Nat
    BY <1>1, <1>2, <1>5, <2>3 DEF S
  <2> QED
    BY <1>6, <2>1, <2>2, <2>4
<1>9. Start(m) = S
  <2> DEFINE First(t) == /\ \A s \in 0 .. (t - 1) : code[s + 1].line < m
                         /\ t < Len(code) => code[t + 1].line >= m
  <2>1. S \in 0 .. Len(code) /\ First(S)
    <3>1. \A s \in 0 .. (S - 1) : s + 1 \in 1 .. Len(code) /\ s + 1 <= S
      BY <1>0, <1>6
    <3>2. S < Len(code) => S + 1 \in 1 .. Len(code) /\ S + 1 > S
      BY <1>0, <1>6
    <3> QED
      BY <1>6, <1>7, <1>8, <3>1, <3>2
  <2>2. ASSUME NEW t \in 0 .. Len(code), First(t) PROVE t = S
    <3>1. CASE t < S
      <4>1. t + 1 \in 1 .. Len(code) /\ t + 1 <= S /\ t < Len(code)
        BY <1>0, <1>6, <3>1
      <4>2. code[t + 1].line < m /\ code[t + 1].line >= m /\ code[t + 1].line \in Nat
        BY <1>4, <1>7, <2>2, <4>1
      <4> QED
        BY <1>0, <4>2
    <3>2. CASE S < t
      <4>1. S + 1 \in 1 .. Len(code) /\ S + 1 > S /\ S \in 0 .. (t - 1)
        BY <1>0, <1>6, <3>2
      <4>2. code[S + 1].line < m /\ code[S + 1].line >= m /\ code[S + 1].line \in Nat
        BY <1>4, <1>8, <2>2, <4>1
      <4> QED
        BY <1>0, <4>2
    <3> QED
      BY <1>6, <3>1, <3>2
  <2>3. Start(m) = CHOOSE t \in 0 .. Len(code) : First(t)
    BY Zenon DEF Start
  <2> HIDE DEF First
  <2> QED
    BY <2>1, <2>2, <2>3
<1>10. ASSUME CodeCells(asm[m]) > 0
       PROVE  /\ Start(m) \in 0 .. Len(code) - 1 /\ code[Start(m) + 1].line = m
              /\ OperandOf(m) = Operand(asm[m])
  <2>1. S + 1 \in 1 .. Len(code) /\ S + 1 > S /\ S + 1 <= c[m] /\ S \in 0 .. Len(code) - 1
    <3>1. CodeCells(asm[m]) \in Nat
      BY <1>0, LineCells
    <3> QED
      BY <1>0, <1>3, <1>6, <1>10, <3>1
  <2> DEFINE L == code[S + 1].line
  <2>2. L \in 1 .. Len(asm) /\ c[L - 1] < S + 1 /\ L >= m /\ code[S + 1].val = Operand(asm[L])
    BY <1>4, <1>8, <2>1
  <2>3. ASSUME L > m PROVE FALSE
    <3>1. L - 1 \in 0 .. Len(asm) /\ m <= L - 1
      BY <1>0, <2>2, <2>3
    <3>2. c[m] <= c[L - 1] /\ c[L - 1] \in Nat
      BY <1>1, <1>2, <1>5, <3>1
    <3> QED
      BY <1>6, <2>1, <2>2, <3>2
  <2>4. L = m
    BY <1>0, <2>2, <2>3
  <2> QED
    BY <1>9, <2>1, <2>2, <2>4 DEF OperandOf
<1> QED
  BY <1>6, <1>9, <1>10 DEF S, c

-----------------------------------------------------------------------------
(***************************************************************************)
(* The properties                                                          *)
(***************************************************************************)

(* HeaderSplits holds for every program of tokens: as many cells of code   *)
(* and data are written as newfunc(), declglb() and the emitters counted   *)
(* in code_idx and glb_declared, whatever was skipped, padded or assembled *)
(* twice.                                                                  *)
THEOREM HeaderSplitsHolds == Spec => []HeaderSplits
<1>1. ASSUME IInv PROVE HeaderSplits
  <2> SUFFICES ASSUME Assembled
               PROVE  /\ Len(code) = hdr.code /\ Len(code) % DataAlign = 0
                      /\ ~AlignedGlobal => Len(data) = hdr.data
    BY Zenon DEF HeaderSplits
  <2> QED
    BY <1>1, AssembledFacts
<1> QED
  BY <1>1, IInvHolds, PTL

(* JumpsLand holds: every jump that dowhile() emitted has exactly one      *)
(* label, and the assembler resolves it to the first instruction behind    *)
(* it.                                                                     *)
THEOREM JumpsLandHolds == Spec => []JumpsLand
<1>1. ASSUME IInv PROVE JumpsLand
  <2> SUFFICES ASSUME Assembled, NEW j \in Lines("jump")
               PROVE  \E m \in Lines("label") :
                        /\ asm[m].to = asm[j].to /\ OperandOf(j) = Start(m)
                        /\ \A n \in Lines("label") : asm[n].to = asm[m].to => n = m
    BY Zenon DEF JumpsLand
  <2>1. /\ wq = <<>> /\ sc_status = "write" /\ LabelsTo(Len(asm)) /\ asm \in Seq(Line) /\ LabelInv
    BY <1>1, AssembledFacts DEF IInv, GeneratorInv
  <2>2. JumpsLabelled /\ LabelsOnce /\ \A n \in 1 .. Len(wq) : FALSE
    BY <2>1 DEF LabelInv
  <2>3. PICK m \in Lines("label") : asm[m].to = asm[j].to
    BY <2>2 DEF JumpsLabelled
  <2>4. j \in 1 .. Len(asm) /\ asm[j].op = "jump" /\ asm[j] \in Line /\ m \in 1 .. Len(asm)
    BY <2>1, <2>3 DEF Lines
  <2>5. CodeCells(asm[j]) = 2 /\ Operand(asm[j]) = lbltab[asm[j].to]
    BY <2>4 DEF CodeCells, InCode, Line, Operand
  <2>6. OperandOf(j) = Operand(asm[j]) /\ Start(m) = CodeAt(asm)[m - 1]
    BY <1>1, <2>4, <2>5, StartOf
  <2>7. lbltab[asm[m].to] = CodeAt(asm)[m - 1]
    BY <2>1, <2>3, <2>4 DEF LabelsTo
  <2>8. \A n \in Lines("label") : asm[n].to = asm[m].to => n = m
    BY <2>2, <2>3 DEF LabelsOnce
  <2> QED
    BY <2>3, <2>5, <2>6, <2>7, <2>8
<1> QED
  BY <1>1, IInvHolds, PTL

(* CallsLand holds: every call and every entry of the function table leads *)
(* to the proc instruction of the function it names, although addresses of *)
(* the skimming pass are overwritten in the write pass.                    *)
THEOREM CallsLandHolds == Spec => []CallsLand
<1>1. ASSUME IInv PROVE CallsLand
  <2>1. ASSUME Assembled
        PROVE  /\ \A j \in Lines("call") : ProcAt(asm[j].to, OperandOf(j))
               /\ \A f \in Roots \cap defined : ProcAt(f, hdr.functions[f])
    <3>0. /\ GTypeOK /\ PlaceInv /\ CallInv /\ sc_status = "write" /\ pos = Len(program)
          /\ asm \in Seq(Line) /\ Roots \subseteq Funcs
          /\ \A f \in Funcs : hdr.functions[f] = EntryOf(f)
      BY <1>1, <2>1, AssembledFacts, Sizes DEF IInv, GeneratorInv
    <3>1. CallsAlive /\ ProcsThere
      BY <3>0 DEF CallInv
    <3>2. ASSUME NEW f \in defined \cap Alive
          PROVE  ProcAt(f, addr[f])
      <4>1. PICK m \in 1 .. Len(asm) : asm[m] = Proc(f) /\ CodeAt(asm)[m - 1] = addr[f]
        BY <3>1 DEF ProcsThere
      <4>2. CodeCells(asm[m]) = 1
        BY <4>1 DEF CodeCells, InCode, Proc
      <4>3. Start(m) = addr[f] /\ Start(m) \in 0 .. Len(code) - 1 /\ code[Start(m) + 1].line = m
        BY <1>1, <2>1, <4>1, <4>2, StartOf
      <4> QED
        BY <4>1, <4>3 DEF ProcAt
    <3>3. \A f \in prototyped : f \in defined
      BY <3>0 DEF PrototypedInv, DefinedInv, PlaceInv
    <3>4. ASSUME NEW j \in Lines("call")
          PROVE  ProcAt(asm[j].to, OperandOf(j))
      <4>1. asm[j].to \in defined \cap Alive
        BY <3>1, <3>3, <3>4 DEF CallsAlive
      <4>2. j \in 1 .. Len(asm) /\ asm[j].op = "call" /\ asm[j] \in Line
        BY <3>0 DEF Lines
      <4>3. CodeCells(asm[j]) = 2 /\ Operand(asm[j]) = addr[asm[j].to]
        BY <4>2 DEF CodeCells, InCode, Line, Operand
      <4>4. OperandOf(j) = addr[asm[j].to]
        BY <1>1, <2>1, <4>2, <4>3, StartOf
      <4> QED
        BY <3>2, <4>1, <4>4
    <3>5. ASSUME NEW f \in Roots \cap defined
          PROVE  ProcAt(f, hdr.functions[f])
      <4>1. hdr.functions[f] = addr[f] /\ f \in defined \cap Alive
        BY <3>0 DEF EntryOf, Alive
      <4> QED
        BY <3>2, <4>1
    <3> QED
      BY <3>4, <3>5
  <2> QED
    BY <2>1, Zenon DEF CallsLand
<1> QED
  BY <1>1, IInvHolds, PTL

(* NothingIdle holds: reduce_referrers() and the skipping of newfunc() and *)
(* declglb() leave no function and no variable in the image to which no    *)
(* line refers.                                                            *)
THEOREM NothingIdleHolds == Spec => []NothingIdle
<1>1. ASSUME IInv PROVE NothingIdle
  <2>1. SUFFICES ASSUME Assembled
                 PROVE  /\ \A j \in Lines("proc") : asm[j].to \in Roots
                             \/ \E i \in Lines("call") : asm[i].to = asm[j].to
                        /\ \A i \in 1 .. Len(data) : data[i].of.kind = "variable" =>
                             \E j \in Lines("address") : Meant(asm[j].to) = data[i].of
    BY Zenon DEF NothingIdle
  <2>2. /\ GTypeOK /\ AliveInv /\ IdleInv /\ sc_status = "write" /\ pos = Len(program)
        /\ asm \in Seq(Line) /\ DataOf(Len(asm)) /\ data \in Seq(Cell) /\ program \in Seq(Token)
    BY <1>1, <2>1, AssembledFacts DEF IInv, GTypeOK, GeneratorInv
  <2>3. ProcsAlive /\ DumpsWanted /\ ReferencesFiled /\ UsedByAlive
    BY <2>2 DEF AliveInv, IdleInv
  <2>4. Vars \cap Funcs = {} /\ Roots \subseteq Funcs
    BY Sizes
  <2>5. ASSUME NEW s \in Vars \cup Funcs, Wanted(s)
        PROVE  \/ s \in Funcs /\ \E m \in Lines("call") : asm[m].to = s
               \/ s \in Vars /\ \E m \in Lines("address") : asm[m].to = Variable(s)
    <3>1. PICK i \in 1 .. Len(program), h \in Alive : RefersIn(h, i, s)
      BY <2>5 DEF Wanted
    <3>2. Answered(i, s)
      BY <2>2, <2>3, <3>1 DEF ReferencesFiled
    <3>3. /\ program[i].op = "use" => program[i].of \in Vars
          /\ program[i].op = "call" => program[i].of \in Funcs
      BY <2>2, TokenFacts
    <3>4. program[i].of = s
      BY <3>1 DEF RefersIn, Refers
    <3> QED
      BY <3>2, <3>3, <3>4 DEF Answered
  <2>6. ASSUME NEW j \in Lines("proc"), asm[j].to \notin Roots
        PROVE  \E i \in Lines("call") : asm[i].to = asm[j].to
    <3>1. asm[j].to \in used \cap Funcs
      BY <2>3, <2>6 DEF ProcsAlive, Alive
    <3>2. asm[j].to \notin Vars
      BY <2>4, <3>1
    <3>3. Wanted(asm[j].to)
      BY <2>3, <2>6, <3>1, <3>2 DEF UsedByAlive, Wanted
    <3> QED
      BY <2>5, <3>1, <3>2, <3>3
  <2>7. ASSUME NEW i \in 1 .. Len(data), data[i].of.kind = "variable"
        PROVE  \E j \in Lines("address") : Meant(asm[j].to) = data[i].of
    <3>1. PICK m \in 1 .. Len(asm) : \E c \in 1 .. DataCells(asm[m]) : data[i] = asm[m].cells[c]
      BY <2>2 DEF DataOf
    <3>2. PICK c \in 1 .. DataCells(asm[m]) : data[i] = asm[m].cells[c]
      BY <3>1
    <3>3. asm[m].op = "dump" /\ DataCells(asm[m]) = Len(asm[m].cells)
      BY <3>2 DEF DataCells, InCode
    <3>4. m \in Lines("dump") /\ c \in 1 .. Len(asm[m].cells)
      BY <3>2, <3>3 DEF Lines
    <3>5. Wanted(data[i].of.id)
      BY <2>3, <2>7, <3>2, <3>4 DEF DumpsWanted, CellsWanted
    <3>6. data[i].of.id \in Vars /\ data[i].of = Variable(data[i].of.id)
      <4>1. data[i] \in Cell
        BY <2>2
      <4>2. data[i].of \in Object
        BY <4>1 DEF Cell
      <4> QED
        BY <2>7, <4>2 DEF Object, Variable
    <3>7. data[i].of.id \notin Funcs
      BY <2>4, <3>6
    <3>8. PICK j \in Lines("address") : asm[j].to = Variable(data[i].of.id)
      BY <2>5, <3>5, <3>6, <3>7
    <3>9. Meant(asm[j].to) = data[i].of
      BY <3>6, <3>8 DEF Meant, Variable
    <3> QED
      BY <3>8, <3>9
  <2> QED
    BY <2>6, <2>7
<1> QED
  BY <1>1, IInvHolds, PTL

(* DataLands holds: every address that is loaded leads to the whole object *)
(* it was meant for, through the literal queue, the default arrays of      *)
(* setdefarray() and the functions that were skipped.                      *)
THEOREM DataLandsHolds == Spec => []DataLands
<1>1. ASSUME IInv PROVE DataLands
  <2>1. SUFFICES ASSUME Assembled, ~AlignedGlobal, NEW j \in Lines("address"), asm[j].to.kind # "named"
                 PROVE  Leads(j)
    BY Zenon DEF DataLands
  <2>2. /\ GTypeOK /\ PlaceInv /\ DataInv /\ sc_status = "write"
        /\ asm \in Seq(Line) /\ Len(asm) \in Nat /\ DataOf(Len(asm)) /\ data \in Seq(Cell)
    BY <1>1, <2>1, AssembledFacts DEF IInv, GeneratorInv
  <2>3. litq = <<>>
    <3>1. curfunc = None
      BY <1>1, <2>1 DEF IInv, StoreInv, Assembled
    <3> QED
      BY <2>2, <3>1 DEF OutsideInv, PlaceInv
  <2>4. AddressesLead
    BY <2>1, <2>2 DEF DataInv, ObjectsLanded
  <2>5. /\ j \in 1 .. Len(asm) /\ asm[j].op = "address" /\ asm[j] \in Line
        /\ asm[j].to \in Object /\ asm[j].val \in Int
    <3>1. j \in 1 .. Len(asm) /\ asm[j].op = "address" /\ asm[j] \in Line
      BY <2>2 DEF Lines
    <3> QED
      BY <3>1 DEF Line
  <2> DEFINE object == asm[j].to
             a == asm[j].val
  <2>6. ~Pending(object, a)
    BY <2>3, <2>5, NothingHeld DEF Pending
  <2>7. Placed(object, a)
    BY <2>1, <2>4, <2>6 DEF AddressesLead, There
  <2>8. OperandOf(j) = a
    <3>1. CodeCells(asm[j]) > 0 /\ Operand(asm[j]) = a
      BY <2>5 DEF CodeCells, InCode, Operand, Line
    <3> QED
      BY <1>1, <2>1, <2>5, <3>1, StartOf
  <2>9. Meant(object) = object
    BY <2>1 DEF Meant
  <2>10. SizeOf(object) \in Nat /\ SizeOf(object) > 0
    BY <2>5, ObjectSizes
  <2> DEFINE z == SizeOf(object)
  <2>11. PICK m \in Lines("dump") : Holds(asm[m].cells, a - DataAt(asm)[m - 1], object)
    BY <2>7 DEF Placed
  <2>12. m \in 1 .. Len(asm) /\ DataCells(asm[m]) = Len(asm[m].cells) /\ asm[m].cells \in Seq(Cell)
    <3>1. m \in 1 .. Len(asm) /\ asm[m].op = "dump" /\ asm[m] \in Line
      BY <2>2 DEF Lines
    <3> QED
      BY <3>1 DEF DataCells, InCode, Line
  <2> DEFINE d == DataAt(asm)[m - 1]
             o == a - d
             n == Len(asm[m].cells)
  <2>13. d \in Nat /\ n \in Nat /\ d + n <= Len(data)
    <3>1. m - 1 \in 0 .. Len(asm) /\ m \in 0 .. Len(asm) /\ m \in Nat /\ m <= Len(asm) /\ Len(asm) \in 0 .. Len(asm)
      BY <2>2, <2>12
    <3>2. /\ DataAt(asm)[m - 1] \in Nat /\ DataAt(asm)[m] \in Nat
          /\ DataAt(asm)[m] = DataAt(asm)[m - 1] + DataCells(asm[m])
          /\ DataAt(asm)[m] <= DataAt(asm)[Len(asm)]
      <4>1. Len(asm) \in m .. Len(asm)
        BY <3>1
      <4> QED
        BY <2>2, <2>12, <3>1, <4>1, Offsets
    <3>3. Len(data) = DataAt(asm)[Len(asm)]
      BY <2>2 DEF DataOf
    <3> QED
      BY <2>12, <3>2, <3>3
  <2>14. o \in 0 .. n - z /\ \A k \in 0 .. z - 1 : asm[m].cells[o + k + 1] = [of |-> object, k |-> k]
    BY <2>11 DEF Holds
  <2>15. \A c \in 1 .. n : data[d + c] = asm[m].cells[c]
    BY <2>2, <2>12 DEF DataOf
  <2>17. o = a - d /\ a \in Int
    BY <2>5
  <2> HIDE DEF d, n, z, object, o, a
  <2>16. ASSUME NEW k \in 0 .. z - 1
         PROVE  a + k + 1 \in 1 .. Len(data) /\ data[a + k + 1] = [of |-> object, k |-> k]
    <3>1. z \in Nat /\ z > 0 /\ k \in Nat /\ k <= z - 1 /\ Len(data) \in Nat
      BY <2>2, <2>10 DEF z
    <3>2. o \in Int /\ o >= 0 /\ o <= n - z
      BY <2>13, <2>14, <3>1
    <3>3. o + k + 1 \in 1 .. n /\ d + (o + k + 1) = a + k + 1
      BY <2>13, <2>17, <3>1, <3>2
    <3>4. a + k + 1 \in 1 .. Len(data)
      BY <2>13, <3>1, <3>3
    <3> QED
      BY <2>14, <2>15, <3>3, <3>4
  <2> QED
    BY <2>8, <2>9, <2>16 DEF Leads, z, object, a
<1> QED
  BY <1>1, IInvHolds, PTL
=============================================================================
