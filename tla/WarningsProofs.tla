--------------------------- MODULE WarningsProofs ---------------------------
(***************************************************************************)
(* The properties of Warnings for every source and every number of         *)
(* skimming passes.  A pass begins with what the one before has left, so   *)
(* the argument is about the end of a pass: in a source that is scoped the *)
(* mask which was pushed first is the one the pass began with (BottomMask),*)
(* and it is back when all is popped.                                      *)
(***************************************************************************)
EXTENDS Warnings, SequenceTheorems, WellFoundedInduction, TLAPS

\* what has been said of the warning
State == [mask : BOOLEAN, stack : Seq(BOOLEAN), scoped : BOOLEAN]

\* the types of the variables the proofs need
TypeOK ==
  /\ source \in Seq(Items) /\ cmdmask \in BOOLEAN
  /\ mask \in BOOLEAN /\ stack \in Seq(BOOLEAN)
  /\ status \in {"statFIRST", "statWRITE", "cleanup", "done"}
  /\ at \in 1 .. Len(source) + 1

(* The enabled lines among the first n items: what is to be reported.      *)
Enabled(n) == {k \in 1 .. n : source[k] = "line" /\ ~Meaning[k].mask}

(* In a scoped source every pass reads what the text says, and each line   *)
(* that was passed in the write pass is reported if it is enabled.         *)
ScopedInv ==
  Scoped =>
    /\ status \in {"statFIRST", "statWRITE"} => mask = Meaning[at].mask /\ stack = Meaning[at].stack
    /\ status \in {"cleanup", "done"} => stack = <<>> /\ at = Len(source) + 1
    /\ errors = {}
    /\ warned = IF status = "statFIRST" THEN {} ELSE Enabled(at - 1)

(* In a source that only disables, the mask hides at least what the lines  *)
(* above say.                                                              *)
DisablesOnly == \A k \in DOMAIN source : source[k] \in {"disable", "line"}
HidingInv ==
  DisablesOnly =>
    /\ status # "done" => (cmdmask => mask) /\ (Meaning[at].mask => mask)
    /\ warned \subseteq Enabled(Len(source))

-----------------------------------------------------------------------------
(* What the text means                                                     *)

(* An item keeps the types of what was said before it.                     *)
LEMMA AfterType == ASSUME NEW m \in State, NEW item \in Items PROVE After(m, item) \in State
<1>1. m.mask \in BOOLEAN /\ m.stack \in Seq(BOOLEAN) /\ m.scoped \in BOOLEAN
  BY DEF State
<1>2. CASE item = "push"
  <2>1. Append(m.stack, m.mask) \in Seq(BOOLEAN)
    BY <1>1, AppendProperties
  <2>2. After(m, item) = [m EXCEPT !.stack = Append(m.stack, m.mask)]
    BY <1>2 DEF After
  <2> QED
    BY <1>1, <2>1, <2>2 DEF State
<1>3. CASE item = "pop" /\ m.stack = <<>>
  <2>1. After(m, item) = [m EXCEPT !.scoped = FALSE]
    BY <1>3 DEF After
  <2> QED
    BY <1>1, <2>1 DEF State
<1>4. CASE item = "pop" /\ m.stack # <<>>
  <2>1. Last(m.stack) \in BOOLEAN /\ Front(m.stack) \in Seq(BOOLEAN)
    BY <1>1, <1>4 DEF Last, Front
  <2>2. After(m, item) = [m EXCEPT !.mask = Last(m.stack), !.stack = Front(m.stack)]
    BY <1>4 DEF After
  <2> QED
    BY <1>1, <2>1, <2>2 DEF State
<1>5. CASE item \in {"enable", "disable"}
  <2>1. After(m, item) = [m EXCEPT !.mask = (item = "disable"), !.scoped = m.scoped /\ m.stack # <<>>]
    BY <1>5 DEF After
  <2>2. (item = "disable") \in BOOLEAN /\ (m.scoped /\ m.stack # <<>>) \in BOOLEAN
    OBVIOUS
  <2> QED
    BY <1>1, <2>1, <2>2 DEF State
<1>6. CASE item = "line"
  BY <1>6 DEF After
<1> QED
  BY <1>2, <1>3, <1>4, <1>5, <1>6 DEF Items, Pragmas

\* what the command line says, and what the items after it do
Start == [mask |-> cmdmask, stack |-> <<>>, scoped |-> TRUE]
Says(n, g) == g[1] = Start /\ \A k \in 1 .. n : g[k + 1] = After(g[k], source[k])

(* The meaning of a text exists: it begins with the command line, and each *)
(* item adds to what those above it say.                                   *)
LEMMA MeaningFacts ==
  ASSUME TypeOK
  PROVE  /\ Meaning \in [1 .. Len(source) + 1 -> State]
         /\ Meaning[1] = Start
         /\ \A k \in 1 .. Len(source) : Meaning[k + 1] = After(Meaning[k], source[k])
<1> DEFINE N == Len(source)
           Known(n) == \E g \in [1 .. n + 1 -> State] : Says(n, g)
           U == {n \in 0 .. N : ~Known(n)}
<1>0. N \in Nat /\ \A k \in 1 .. N : source[k] \in Items
  BY DEF TypeOK
<1>s. Start \in State
  BY DEF Start, State, TypeOK
<1> HIDE DEF N
<1>1. Known(0)
  <2>1. [i \in 1 .. 1 |-> Start] \in [1 .. 0 + 1 -> State] /\ Says(0, [i \in 1 .. 1 |-> Start])
    BY <1>s DEF Says
  <2> QED
    BY <2>1
<1>2. ASSUME NEW n \in 1 .. N, Known(n - 1) PROVE Known(n)
  <2>1. PICK g \in [1 .. (n - 1) + 1 -> State] : Says(n - 1, g)
    BY <1>2
  <2> DEFINE h == [k \in 1 .. n + 1 |-> IF k = n + 1 THEN After(g[n], source[n]) ELSE g[k]]
  <2>2. g[n] \in State /\ After(g[n], source[n]) \in State
    <3>1. g[n] \in State
      BY <1>0
    <3> QED
      BY <1>0, <3>1, AfterType
  <2>3. h \in [1 .. n + 1 -> State]
    BY <1>0, <2>2
  <2>4. Says(n, h)
    BY <1>0, <2>1 DEF Says
  <2> QED
    BY <2>3, <2>4
<1> HIDE DEF Known
<1>3. Known(N)
  <2> SUFFICES ASSUME ~Known(N) PROVE FALSE
    OBVIOUS
  <2>1. N \in U /\ U \subseteq Nat
    BY <1>0
  <2>2. PICK n \in U : \A y \in U : ~(<<y, n>> \in OpToRel(<, Nat))
    BY <2>1, NatLessThanWellFounded, WFMin, Zenon
  <2>3. n \in 0 .. N /\ ~Known(n)
    OBVIOUS
  <2>4. n # 0
    BY <1>1, <2>3
  <2>5. n \in 1 .. N /\ n - 1 \in 0 .. N /\ n - 1 \in Nat /\ n \in Nat /\ n - 1 < n
    BY <1>0, <2>3, <2>4
  <2>6. <<n - 1, n>> \in OpToRel(<, Nat)
    BY <2>5, Zenon DEF OpToRel
  <2>7. Known(n - 1)
    BY <2>2, <2>5, <2>6
  <2> QED
    BY <1>2, <2>3, <2>5, <2>7
<1>4. PICK g \in [1 .. N + 1 -> State] : Says(N, g)
  BY <1>3 DEF Known
<1> DEFINE Rule(m) == [k \in 1 .. N + 1 |-> IF k = 1 THEN Start ELSE After(m[k - 1], source[k - 1])]
<1>5. g = Rule(g)
  <2>1. \A k \in 1 .. N + 1 : g[k] = IF k = 1 THEN Start ELSE After(g[k - 1], source[k - 1])
    <3> SUFFICES ASSUME NEW k \in 1 .. N + 1, k # 1 PROVE g[k] = After(g[k - 1], source[k - 1])
      BY <1>4 DEF Says
    <3>1. k - 1 \in 1 .. N /\ (k - 1) + 1 = k
      BY <1>0
    <3> QED
      BY <1>4, <3>1 DEF Says
  <2> QED
    BY <2>1
<1>6. Meaning = Rule(Meaning)
  <2>1. Meaning = CHOOSE m : m = Rule(m)
    BY DEF Meaning, Start, N
  <2> HIDE DEF Rule
  <2> QED
    BY <1>5, <2>1, Zenon
<1> DEFINE M == Meaning
<1> HIDE DEF M
<1>7. /\ DOMAIN M = 1 .. N + 1
      /\ M[1] = Start
      /\ \A k \in 1 .. N : M[k + 1] = After(M[k], source[k])
  <2>1. M = Rule(M)
    BY <1>6 DEF M
  <2>2. M[1] = Start
    BY <1>0, <2>1
  <2>3. ASSUME NEW k \in 1 .. N PROVE M[k + 1] = After(M[k], source[k])
    <3>1. k + 1 \in 1 .. N + 1 /\ k + 1 # 1 /\ (k + 1) - 1 = k
      BY <1>0
    <3>2. Rule(M)[k + 1] = After(M[(k + 1) - 1], source[(k + 1) - 1])
      BY <3>1
    <3> QED
      BY <2>1, <3>1, <3>2
  <2> QED
    BY <2>1, <2>2, <2>3
<1>8. \A k \in 1 .. N + 1 : M[k] \in State
  <2> DEFINE V == {k \in 1 .. N + 1 : M[k] \notin State}
  <2> SUFFICES ASSUME V # {} PROVE FALSE
    OBVIOUS
  <2>1. V \subseteq Nat
    OBVIOUS
  <2>2. PICK n \in V : \A y \in V : ~(<<y, n>> \in OpToRel(<, Nat))
    BY <2>1, NatLessThanWellFounded, WFMin, Zenon
  <2>3. n # 1
    BY <1>7, <1>s
  <2>4. n - 1 \in 1 .. N /\ n - 1 \in Nat /\ n \in Nat /\ n - 1 < n /\ (n - 1) + 1 = n
    BY <1>0, <2>3
  <2>5. <<n - 1, n>> \in OpToRel(<, Nat)
    BY <2>4, Zenon DEF OpToRel
  <2>6. n - 1 \in 1 .. N + 1
    BY <1>0, <2>4
  <2>7. M[n - 1] \in State
    BY <2>2, <2>5, <2>6
  <2>8. M[n] = After(M[n - 1], source[n - 1])
    BY <1>7, <2>4
  <2>9. M[n] \in State
    BY <1>0, <2>4, <2>7, <2>8, AfterType
  <2> QED
    BY <2>2, <2>9
<1>9. M \in [1 .. N + 1 -> State]
  <2>1. M = [k \in 1 .. N + 1 |-> M[k]]
    <3>1. M = Rule(M)
      BY <1>6 DEF M
    <3> QED
      BY <3>1
  <2> QED
    BY <1>8, <2>1
<1> QED
  BY <1>7, <1>9 DEF M, N

(* Once the text is not well used it stays so.                             *)
LEMMA ScopedAll ==
  ASSUME TypeOK, Scoped
  PROVE  \A k \in 1 .. Len(source) + 1 : Meaning[k].scoped
<1> DEFINE N == Len(source)
           V == {d \in 0 .. N : ~Meaning[N + 1 - d].scoped}
<1>0. N \in Nat /\ \A k \in 1 .. N : source[k] \in Items
  BY DEF TypeOK
<1>1. /\ Meaning \in [1 .. N + 1 -> State] /\ Meaning[N + 1].scoped
      /\ \A k \in 1 .. N : Meaning[k + 1] = After(Meaning[k], source[k])
  BY MeaningFacts DEF Scoped
<1> HIDE DEF N
<1>2. ASSUME NEW k \in 1 .. N, Meaning[k + 1].scoped PROVE Meaning[k].scoped
  <2>1. Meaning[k] \in State /\ After(Meaning[k], source[k]).scoped /\ source[k] \in Items
    BY <1>0, <1>1, <1>2
  <2> DEFINE m == Meaning[k]
  <2> HIDE DEF m
  <2>2. m \in State /\ After(m, source[k]).scoped
    BY <2>1 DEF m
  <2>3. m.scoped
    BY <2>1, <2>2 DEF After, State, Items, Pragmas
  <2> QED
    BY <2>3 DEF m
<1>3. V = {}
  <2> SUFFICES ASSUME V # {} PROVE FALSE
    OBVIOUS
  <2>1. V \subseteq Nat
    OBVIOUS
  <2>2. PICK d \in V : \A y \in V : ~(<<y, d>> \in OpToRel(<, Nat))
    BY <2>1, NatLessThanWellFounded, WFMin, Zenon
  <2>3. d # 0
    BY <1>0, <1>1
  <2>4. d - 1 \in 0 .. N /\ d - 1 \in Nat /\ d \in Nat /\ d - 1 < d /\ N + 1 - d \in 1 .. N
        /\ N + 1 - (d - 1) = (N + 1 - d) + 1
    BY <1>0, <2>3
  <2>5. <<d - 1, d>> \in OpToRel(<, Nat)
    BY <2>4, Zenon DEF OpToRel
  <2>6. Meaning[N + 1 - (d - 1)].scoped
    BY <2>2, <2>4, <2>5
  <2>7. Meaning[N + 1 - d].scoped
    BY <1>2, <2>4, <2>6
  <2> QED
    BY <2>2, <2>7
<1>4. ASSUME NEW k \in 1 .. N + 1 PROVE Meaning[k].scoped
  <2>1. N + 1 - k \in 0 .. N /\ N + 1 - (N + 1 - k) = k
    BY <1>0
  <2> QED
    BY <1>3, <2>1
<1> QED
  BY <1>4 DEF N

(* The mask the text began with: it is below all that were pushed.         *)
Bottom(m) == IF m.stack = <<>> THEN m.mask ELSE m.stack[1]

(* A well used item does not change it.                                    *)
LEMMA BottomKept ==
  ASSUME NEW m \in State, NEW item \in Items, After(m, item).scoped
  PROVE  Bottom(After(m, item)) = Bottom(m)
<1>0. m.mask \in BOOLEAN /\ m.stack \in Seq(BOOLEAN) /\ m.scoped \in BOOLEAN
  BY DEF State
<1>1. CASE item = "push"
  <2>1. After(m, item).stack = Append(m.stack, m.mask)
    BY <1>1 DEF After, State
  <2>2. Append(m.stack, m.mask) # <<>>
    BY <1>0
  <2>3. Append(m.stack, m.mask)[1] = IF m.stack = <<>> THEN m.mask ELSE m.stack[1]
    BY <1>0
  <2> QED
    BY <2>1, <2>2, <2>3 DEF Bottom
<1>2. CASE item = "pop" /\ m.stack = <<>>
  BY <1>2 DEF After, State
<1>3. CASE item = "pop" /\ m.stack # <<>>
  <2>1. After(m, item).stack = Front(m.stack) /\ After(m, item).mask = Last(m.stack)
    BY <1>3 DEF After, State
  <2> DEFINE len == Len(m.stack)
  <2>5. len \in Nat \ {0}
    BY <1>0, <1>3
  <2> HIDE DEF len
  <2>6. len = 1 \/ len > 1
    BY <2>5
  <2>2. Len(m.stack) = 1 \/ Len(m.stack) > 1
    BY <2>6 DEF len
  <2>3. CASE Len(m.stack) = 1
    <3>1. Front(m.stack) = <<>> /\ Last(m.stack) = m.stack[1]
      BY <1>0, <2>3 DEF Front, Last
    <3> QED
      BY <1>3, <2>1, <3>1 DEF Bottom
  <2>4. CASE Len(m.stack) > 1
    <3>1. Front(m.stack) # <<>> /\ Front(m.stack)[1] = m.stack[1]
      BY <1>0, <2>4 DEF Front
    <3> QED
      BY <1>3, <2>1, <3>1 DEF Bottom
  <2> QED
    BY <2>2, <2>3, <2>4, Zenon
<1>4. CASE item \in {"enable", "disable"}
  <2>1. After(m, item).stack = m.stack /\ m.stack # <<>>
    BY <1>4 DEF After, State
  <2> QED
    BY <2>1 DEF Bottom
<1>5. CASE item = "line"
  BY <1>5 DEF After
<1> QED
  BY <1>1, <1>2, <1>3, <1>4, <1>5 DEF Items, Pragmas

(* A scoped text ends with the mask it began with: the next pass sees what *)
(* this one has seen.                                                      *)
LEMMA BottomMask == ASSUME TypeOK, Scoped PROVE Meaning[Len(source) + 1].mask = cmdmask
<1> DEFINE N == Len(source)
           V == {k \in 1 .. N + 1 : Bottom(Meaning[k]) # cmdmask}
<1>0. N \in Nat /\ \A k \in 1 .. N : source[k] \in Items
  BY DEF TypeOK
<1>1. /\ Meaning \in [1 .. N + 1 -> State] /\ Meaning[1] = Start
      /\ \A k \in 1 .. N : Meaning[k + 1] = After(Meaning[k], source[k])
      /\ \A k \in 1 .. N + 1 : Meaning[k].scoped
  BY MeaningFacts, ScopedAll
<1>2. Meaning[N + 1].stack = <<>>
  BY DEF Scoped
<1> HIDE DEF N
<1>3. V = {}
  <2> SUFFICES ASSUME V # {} PROVE FALSE
    OBVIOUS
  <2>1. V \subseteq Nat
    OBVIOUS
  <2>2. PICK n \in V : \A y \in V : ~(<<y, n>> \in OpToRel(<, Nat))
    BY <2>1, NatLessThanWellFounded, WFMin, Zenon
  <2>3. n # 1
    BY <1>1 DEF Start, Bottom
  <2>4. n - 1 \in 1 .. N /\ n - 1 \in Nat /\ n \in Nat /\ n - 1 < n /\ (n - 1) + 1 = n
        /\ n - 1 \in 1 .. N + 1
    BY <1>0, <2>3
  <2>5. <<n - 1, n>> \in OpToRel(<, Nat)
    BY <2>4, Zenon DEF OpToRel
  <2>6. Bottom(Meaning[n - 1]) = cmdmask
    BY <2>2, <2>4, <2>5
  <2>7. Meaning[n] = After(Meaning[n - 1], source[n - 1]) /\ Meaning[n].scoped
    BY <1>1, <2>4
  <2>8. Meaning[n - 1] \in State /\ source[n - 1] \in Items
    BY <1>0, <1>1, <2>4
  <2>9. Bottom(Meaning[n]) = Bottom(Meaning[n - 1])
    BY <2>7, <2>8, BottomKept, Zenon
  <2> QED
    BY <2>2, <2>6, <2>9
<1>4. N + 1 \in 1 .. N + 1
  BY <1>0
<1>5. Bottom(Meaning[N + 1]) = cmdmask
  BY <1>3, <1>4
<1> QED
  BY <1>2, <1>5 DEF Bottom, N
-----------------------------------------------------------------------------
(* The invariants                                                          *)

(* The variables have their types in every step.                           *)
LEMMA TypeKept == ASSUME TypeOK, [Next]_vars PROVE TypeOK'
<1> USE DEF TypeOK, program, Read, Reading, AtEnd
<1>1. CASE Push
  <2>1. stack' = Append(stack, mask) /\ stack' \in Seq(BOOLEAN)
    BY <1>1, AppendProperties DEF Push
  <2> QED
    BY <1>1, <2>1 DEF Push
<1>2. CASE Pop
  <2>1. mask' \in BOOLEAN /\ stack' \in Seq(BOOLEAN)
    <3>1. CASE stack = <<>>
      BY <1>2, <3>1 DEF Pop
    <3>2. CASE stack # <<>>
      BY <1>2, <3>2 DEF Pop, Last, Front
    <3> QED
      BY <3>1, <3>2
  <2> QED
    BY <1>2, <2>1 DEF Pop
<1>3. CASE Enable
  <2>1. mask' = FALSE /\ mask' \in BOOLEAN
    BY <1>3, Zenon DEF Enable
  <2>2. /\ source' = source /\ cmdmask' = cmdmask /\ stack' = stack /\ status' = status
        /\ at' = at + 1 /\ at <= Len(source)
    BY <1>3, Zenon DEF Enable
  <2> QED
    BY <2>1, <2>2
<1>4. CASE Disable
  BY <1>4 DEF Disable
<1>5. CASE Line
  BY <1>5 DEF Line
<1>6. CASE SkimAgain \/ BeginWrite
  BY <1>6 DEF SkimAgain, BeginWrite
<1>7. CASE EndWrite
  BY <1>7 DEF EndWrite
<1>8. CASE ClearStack
  <2>1. mask' = FALSE /\ mask' \in BOOLEAN
    BY <1>8, Zenon DEF ClearStack
  <2>2. /\ source' = source /\ cmdmask' = cmdmask /\ stack' = <<>> /\ status' = "done" /\ at' = at
    BY <1>8, Zenon DEF ClearStack
  <2> QED
    BY <2>1, <2>2
<1>9. CASE UNCHANGED vars
  BY <1>9 DEF vars
<1> QED
  BY <1>1, <1>2, <1>3, <1>4, <1>5, <1>6, <1>7, <1>8, <1>9 DEF Next

(* The text does not change, so neither does what it means.                *)
LEMMA SameText ==
  ASSUME [Next]_vars
  PROVE  /\ source' = source /\ cmdmask' = cmdmask /\ Meaning' = Meaning
         /\ Scoped' = Scoped /\ DisablesOnly' = DisablesOnly
         /\ \A n : Enabled(n)' = Enabled(n)
<1>1. source' = source /\ cmdmask' = cmdmask
  BY Zenon DEF Next, vars, program, Push, Pop, Enable, Disable, Line, SkimAgain, BeginWrite,
               EndWrite, ClearStack
<1>2. Meaning' = Meaning
  BY <1>1, Zenon DEF Meaning
<1> QED
  BY <1>1, <1>2, Zenon DEF Scoped, DisablesOnly, Enabled

\* an item of the text is read
ReadItem == Push \/ Pop \/ Enable \/ Disable \/ Line

(* What reading an item reports.                                           *)
LEMMA ReportedLines ==
  ASSUME TypeOK, ReadItem
  PROVE  /\ at \in 1 .. Len(source) /\ at' = at + 1 /\ status' = status
         /\ status \in {"statFIRST", "statWRITE"}
         /\ warned' = IF status = "statWRITE" /\ source[at] = "line" /\ ~mask
                      THEN warned \union {at} ELSE warned
<1>1. /\ at \in 1 .. Len(source) /\ at' = at + 1
      /\ status \in {"statFIRST", "statWRITE"}
  <2>1. \E item : Read(item)
    BY Zenon DEF ReadItem, Push, Pop, Enable, Disable, Line
  <2> QED
    BY <2>1 DEF Read, Reading, TypeOK
<1>2. CASE Push \/ Pop \/ Enable \/ Disable
  <2>1. source[at] # "line" /\ warned' = warned /\ status' = status
    BY <1>2 DEF Push, Pop, Enable, Disable, Read
  <2> QED
    BY <1>1, <2>1
<1>3. CASE Line
  BY <1>1, <1>3 DEF Line, Read
<1> QED
  BY <1>1, <1>2, <1>3 DEF ReadItem

(* Reading an item of a scoped text does to the mask and its stack what    *)
(* the text means, and nothing is reported but an enabled line.            *)
LEMMA ScopedRead ==
  ASSUME TypeOK, Scoped, ReadItem, mask = Meaning[at].mask, stack = Meaning[at].stack
  PROVE  /\ mask' = Meaning[at + 1].mask /\ stack' = Meaning[at + 1].stack
         /\ errors' = errors
<1> DEFINE m == Meaning[at]
           n == Meaning[at + 1]
<1>0. /\ at \in 1 .. Len(source) /\ source[at] \in Items
      /\ at \in 1 .. Len(source) + 1 /\ at + 1 \in 1 .. Len(source) + 1
  <2>1. at \in 1 .. Len(source)
    BY ReportedLines
  <2> QED
    BY <2>1 DEF TypeOK
<1>1. m \in State /\ n = After(m, source[at]) /\ n.scoped
  BY <1>0, MeaningFacts, ScopedAll
<1>2. mask = m.mask /\ stack = m.stack
  OBVIOUS
<1> HIDE DEF m, n
<1>3. CASE Push
  <2>1. source[at] = "push" /\ mask' = mask /\ stack' = Append(stack, mask) /\ errors' = errors
    BY <1>3, Zenon DEF Push, Read
  <2>2. n.mask = m.mask /\ n.stack = Append(m.stack, m.mask)
    BY <1>1, <2>1 DEF After, State
  <2> QED
    BY <1>2, <2>1, <2>2 DEF n
<1>4. CASE Pop
  <2>1. source[at] = "pop"
    BY <1>4, Zenon DEF Pop, Read
  <2>2. m.stack # <<>>
    BY <1>1, <2>1 DEF After, State
  <2>3. mask' = Last(stack) /\ stack' = Front(stack) /\ errors' = errors
    BY <1>2, <1>4, <2>2, Zenon DEF Pop
  <2>4. n.mask = Last(m.stack) /\ n.stack = Front(m.stack)
    BY <1>1, <2>1, <2>2 DEF After, State
  <2> QED
    BY <1>2, <2>3, <2>4 DEF n
<1>5. CASE Enable
  <2>1. source[at] = "enable" /\ mask' = FALSE /\ stack' = stack /\ errors' = errors
    BY <1>5, Zenon DEF Enable, Read
  <2>2. n.mask = FALSE /\ n.stack = m.stack
    BY <1>1, <2>1 DEF After, State
  <2> QED
    BY <1>2, <2>1, <2>2 DEF n
<1>6. CASE Disable
  <2>1. source[at] = "disable" /\ mask' = TRUE /\ stack' = stack /\ errors' = errors
    BY <1>6, Zenon DEF Disable, Read
  <2>2. n.mask = TRUE /\ n.stack = m.stack
    BY <1>1, <2>1 DEF After, State
  <2> QED
    BY <1>2, <2>1, <2>2 DEF n
<1>7. CASE Line
  <2>1. source[at] = "line" /\ mask' = mask /\ stack' = stack /\ errors' = errors
    BY <1>7, Zenon DEF Line, Read
  <2>2. n = m
    BY <1>1, <2>1 DEF After
  <2> QED
    BY <1>2, <2>1, <2>2 DEF n
<1> QED
  BY <1>3, <1>4, <1>5, <1>6, <1>7 DEF ReadItem

(* Every step keeps the masks of a scoped text what the text says.         *)
LEMMA ScopedKept == ASSUME TypeOK, ScopedInv, [Next]_vars PROVE ScopedInv'
<1> SUFFICES ASSUME Scoped PROVE
       /\ status' \in {"statFIRST", "statWRITE"} => mask' = Meaning[at'].mask /\ stack' = Meaning[at'].stack
       /\ status' \in {"cleanup", "done"} => stack' = <<>> /\ at' = Len(source) + 1
       /\ errors' = {}
       /\ warned' = IF status' = "statFIRST" THEN {} ELSE Enabled(at' - 1)
  BY SameText, Zenon DEF ScopedInv, Enabled
<1>0. /\ status \in {"statFIRST", "statWRITE"} => mask = Meaning[at].mask /\ stack = Meaning[at].stack
      /\ status \in {"cleanup", "done"} => stack = <<>> /\ at = Len(source) + 1
      /\ errors = {}
      /\ warned = IF status = "statFIRST" THEN {} ELSE Enabled(at - 1)
  BY Zenon DEF ScopedInv
<1>1. CASE ReadItem
  <2>1. /\ at \in 1 .. Len(source) /\ at' = at + 1 /\ status' = status
        /\ status \in {"statFIRST", "statWRITE"}
        /\ warned' = IF status = "statWRITE" /\ source[at] = "line" /\ ~mask
                     THEN warned \union {at} ELSE warned
    BY <1>1, ReportedLines
  <2>2. mask = Meaning[at].mask /\ stack = Meaning[at].stack
    BY <1>0, <2>1
  <2>3. mask' = Meaning[at + 1].mask /\ stack' = Meaning[at + 1].stack /\ errors' = errors
    BY <1>1, <2>2, ScopedRead
  <2>4. Enabled(at' - 1) = IF source[at] = "line" /\ ~mask THEN Enabled(at - 1) \union {at} ELSE Enabled(at - 1)
    <3>1. at \in Nat \ {0} /\ at' - 1 = at /\ 1 .. at = (1 .. at - 1) \union {at}
      BY <2>1
    <3> QED
      BY <2>2, <3>1, Zenon DEF Enabled
  <2>5. warned' = IF status' = "statFIRST" THEN {} ELSE Enabled(at' - 1)
    BY <1>0, <2>1, <2>4
  <2> QED
    BY <1>0, <2>1, <2>3, <2>5
<1>2. CASE SkimAgain \/ BeginWrite
  <2>1. /\ at = Len(source) + 1 /\ at' = 1 /\ status = "statFIRST"
        /\ status' \in {"statFIRST", "statWRITE"}
        /\ mask' = mask /\ stack' = stack /\ errors' = errors /\ warned' = warned
    BY <1>2, Zenon DEF SkimAgain, BeginWrite, AtEnd
  <2>2. mask = cmdmask /\ stack = <<>>
    BY <1>0, <2>1, BottomMask DEF Scoped
  <2>3. Meaning[1].mask = cmdmask /\ Meaning[1].stack = <<>>
    BY MeaningFacts DEF Start
  <2>4. Enabled(at' - 1) = {}
    BY <2>1 DEF Enabled
  <2> QED
    BY <1>0, <2>1, <2>2, <2>3, <2>4
<1>3. CASE EndWrite
  <2>1. /\ at = Len(source) + 1 /\ at' = at /\ status = "statWRITE" /\ status' = "cleanup"
        /\ stack' = stack /\ errors' = errors /\ warned' = warned
    BY <1>3, Zenon DEF EndWrite, AtEnd
  <2>2. stack = <<>>
    BY <1>0, <2>1 DEF Scoped
  <2> QED
    BY <1>0, <2>1, <2>2
<1>4. CASE ClearStack
  <2>1. /\ status = "cleanup" /\ status' = "done" /\ at' = at /\ warned' = warned
        /\ stack' = <<>> /\ (stack = <<>> => errors' = errors)
    BY <1>4, Zenon DEF ClearStack
  <2> QED
    BY <1>0, <2>1
<1>5. CASE UNCHANGED vars
  BY <1>0, <1>5, Zenon DEF vars
<1> QED
  BY <1>1, <1>2, <1>3, <1>4, <1>5 DEF Next, ReadItem

(* Every step keeps what a text that only disables hides.                  *)
LEMMA HidingKept == ASSUME TypeOK, HidingInv, [Next]_vars PROVE HidingInv'
<1> SUFFICES ASSUME DisablesOnly PROVE
       /\ status' # "done" => (cmdmask => mask') /\ (Meaning[at'].mask => mask')
       /\ warned' \subseteq Enabled(Len(source))
  BY SameText, Zenon DEF HidingInv, Enabled
<1>0. /\ status # "done" => (cmdmask => mask) /\ (Meaning[at].mask => mask)
      /\ warned \subseteq Enabled(Len(source))
  BY Zenon DEF HidingInv
<1>1. CASE ReadItem
  <2>1. /\ at \in 1 .. Len(source) /\ at' = at + 1 /\ status' = status /\ status # "done"
        /\ warned' = IF status = "statWRITE" /\ source[at] = "line" /\ ~mask
                     THEN warned \union {at} ELSE warned
    BY <1>1, ReportedLines
  <2>2. Meaning[at] \in State /\ Meaning[at + 1] = After(Meaning[at], source[at])
    BY <2>1, MeaningFacts DEF TypeOK
  <2>3. CASE source[at] = "disable"
    <3>1. mask' = TRUE
      BY <1>1, <2>3 DEF ReadItem, Push, Pop, Enable, Disable, Line, Read
    <3> QED
      BY <1>0, <2>1, <2>3, <3>1
  <2>4. CASE source[at] = "line"
    <3>1. mask' = mask
      BY <1>1, <2>4 DEF ReadItem, Push, Pop, Enable, Disable, Line, Read
    <3>2. Meaning[at + 1] = Meaning[at]
      BY <2>2, <2>4 DEF After
    <3>3. ~mask => at \in Enabled(Len(source))
      BY <1>0, <2>1, <2>4 DEF Enabled
    <3> QED
      BY <1>0, <2>1, <3>1, <3>2, <3>3
  <2> QED
    BY <2>1, <2>3, <2>4 DEF DisablesOnly, TypeOK
<1>2. CASE SkimAgain \/ BeginWrite
  <2>1. /\ at' = 1 /\ status = "statFIRST" /\ mask' = mask /\ warned' = warned
    BY <1>2, Zenon DEF SkimAgain, BeginWrite
  <2>2. Meaning[1].mask = cmdmask
    BY MeaningFacts DEF Start
  <2> QED
    BY <1>0, <2>1, <2>2
<1>3. CASE EndWrite
  BY <1>0, <1>3, Zenon DEF EndWrite
<1>4. CASE ClearStack
  BY <1>0, <1>4, Zenon DEF ClearStack
<1>5. CASE UNCHANGED vars
  BY <1>0, <1>5, Zenon DEF vars
<1> QED
  BY <1>1, <1>2, <1>3, <1>4, <1>5 DEF Next, ReadItem

\* the inductive invariant
IInv == TypeOK /\ ScopedInv /\ HidingInv

LEMMA IInvHolds == Spec => []IInv
<1>1. Init => IInv
  <2> SUFFICES ASSUME Init PROVE IInv
    OBVIOUS
  <2>1. TypeOK
    BY SourcesAssumption DEF Init, TypeOK
  <2>2. Meaning[1].mask = cmdmask /\ Meaning[1].stack = <<>>
    BY <2>1, MeaningFacts DEF Start
  <2>3. mask = cmdmask /\ stack = <<>> /\ status = "statFIRST" /\ at = 1 /\ errors = {} /\ warned = {}
    BY Zenon DEF Init
  <2> QED
    BY <2>1, <2>2, <2>3 DEF IInv, ScopedInv, HidingInv
<1>2. IInv /\ [Next]_vars => IInv'
  BY TypeKept, ScopedKept, HidingKept, Zenon DEF IInv
<1> QED
  BY <1>1, <1>2, PTL DEF Spec

(* ScopedPragmasExact for every source: pushwarnings() and popwarnings()   *)
(* make a pass independent of those before it, though nothing resets the   *)
(* mask between them.                                                      *)
THEOREM ScopedIsExact == Spec => []ScopedPragmasExact
<1>1. IInv => ScopedPragmasExact
  <2> SUFFICES ASSUME IInv, Scoped
               PROVE  /\ Reading => mask = Meaning[at].mask /\ stack = Meaning[at].stack
                      /\ status = "done" =>
                           /\ errors = {}
                           /\ warned = {k \in DOMAIN source : source[k] = "line" /\ ~Meaning[k].mask}
    BY Zenon DEF ScopedPragmasExact
  <2>1. source \in Seq(Items)
    BY Zenon DEF IInv, TypeOK
  <2>2. 1 .. (Len(source) + 1) - 1 = DOMAIN source
    BY <2>1
  <2> QED
    BY <2>2, Zenon DEF IInv, ScopedInv, Reading, Enabled
<1> QED
  BY <1>1, IInvHolds, PTL

(* OnlyHides for every source: pc_enablewarning() leaves a mask behind     *)
(* that can hide a warning of the next pass but not invent one.            *)
THEOREM HidesOnly == Spec => []OnlyHides
<1>1. IInv => OnlyHides
  BY DEF IInv, HidingInv, OnlyHides, DisablesOnly, Enabled, TypeOK
<1> QED
  BY <1>1, IInvHolds, PTL
=============================================================================
