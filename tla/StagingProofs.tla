----------------------------- MODULE StagingProofs -----------------------------
(***************************************************************************)
(* Every step of the parser and of stgstring() keeps WriteInv, for any      *)
(* number of arguments, frames and lines and any size of the buffer, and    *)
(* what follows for the assembler file.  First the tokens and their depth,  *)
(* then what a buffer that is good stays when a line, a mark, a bracket or a *)
(* frame is added or taken away (Good...), the parts stgstring() works      *)
(* through (...Part, ...Parts), the file and the code index (Keep...), one  *)
(* lemma for each action (...Step), and the theorems.                       *)
(***************************************************************************)
EXTENDS StagingInv, FiniteSetTheorems, SequenceTheorems, WellFoundedInduction, TLAPS

-----------------------------------------------------------------------------
(***************************************************************************)
(* Numbers                                                                  *)
(***************************************************************************)
LEMMA Least ==
  ASSUME NEW S \in SUBSET Nat, S # {}
  PROVE  \E x \in S : \A y \in S : x <= y
<1>1. IsWellFoundedOn(OpToRel(<, Nat), Nat)
  BY NatLessThanWellFounded
<1>2. PICK x \in S : \A y \in S : ~(<<y, x>> \in OpToRel(<, Nat))
  BY <1>1, WFMin, Zenon
<1>3. ASSUME NEW y \in S PROVE x <= y
  <2>1. ~(<<y, x>> \in OpToRel(<, Nat))
    BY <1>2, Zenon
  <2>2. x \in Nat /\ y \in Nat
    OBVIOUS
  <2>3. ~(y < x)
    BY <2>1, <2>2, Zenon DEF OpToRel
  <2> QED
    BY <2>2, <2>3
<1> QED
  BY <1>3

LEMMA Greatest ==
  ASSUME NEW S \in SUBSET Nat, S # {}, NEW m \in Nat, \A y \in S : y <= m
  PROVE  \E x \in S : \A y \in S : y <= x
<1> DEFINE T == {m - y : y \in S}
<1>1. T \in SUBSET Nat /\ T # {}
  <2>1. \A y \in S : m - y \in Nat
    OBVIOUS
  <2> QED
    BY <2>1
<1>2. PICK d \in T : \A z \in T : d <= z
  BY <1>1, Least, Zenon
<1>3. PICK x \in S : d = m - x
  OBVIOUS
<1>4. ASSUME NEW y \in S PROVE y <= x
  <2>1. m - y \in T
    OBVIOUS
  <2>2. d <= m - y
    BY <1>2, <2>1
  <2> QED
    BY <1>3, <2>2
<1> QED
  BY <1>4

-----------------------------------------------------------------------------
(***************************************************************************)
(* Tokens                                                                   *)
(***************************************************************************)
LEMMA TokenKinds ==
  ASSUME NEW s \in Seq(Tokens), NEW k \in 1 .. Len(s)
  PROVE  /\ s[k] = Start \/ s[k] = End \/ IsMark(s, k) \/ IsCode(s, k)
         /\ s[k] = Start => s[k] # End /\ ~IsMark(s, k) /\ ~IsCode(s, k)
         /\ s[k] = End => ~IsMark(s, k) /\ ~IsCode(s, k)
         /\ IsMark(s, k) => ~IsCode(s, k) /\ ArgAt(s, k) \in Nat
         /\ IsCode(s, k) => s[k].at \in Places
<1>1. s[k] \in Tokens
  OBVIOUS
<1>2. CASE s[k] \in {Start, End}
  BY <1>2 DEF Start, End, IsMark, IsCode
<1>3. CASE s[k] \in {Arg(i) : i \in Nat}
  BY <1>3 DEF Start, End, IsMark, IsCode, Arg, ArgAt
<1>4. CASE s[k] \in {Code(p) : p \in Places}
  <2> PICK p \in Places : s[k] = Code(p)
    BY <1>4
  <2> QED
    BY DEF Start, End, IsMark, IsCode, Code
<1> QED
  BY <1>1, <1>2, <1>3, <1>4 DEF Tokens

LEMMA TokenOf ==
  /\ Start \in Tokens /\ End \in Tokens
  /\ \A i \in Nat : Arg(i) \in Tokens
  /\ \A p \in Places : Code(p) \in Tokens
BY Zenon DEF Tokens

-----------------------------------------------------------------------------
(***************************************************************************)
(* Depth                                                                    *)
(***************************************************************************)
LEMMA DepthType ==
  ASSUME NEW s, NEW k \in Int
  PROVE  Depth(s, k) \in Int
<1> DEFINE A == {j \in 1 .. k : s[j] = Start}
           B == {j \in 1 .. k : s[j] = End}
<1>1. IsFiniteSet(1 .. k) /\ A \subseteq 1 .. k /\ B \subseteq 1 .. k
  BY FS_Interval
<1>2. Cardinality(A) \in Nat /\ Cardinality(B) \in Nat
  <2>1. IsFiniteSet(A) /\ IsFiniteSet(B)
    BY <1>1, FS_Subset
  <2> QED
    BY <2>1, FS_CardinalityType
<1>3. Depth(s, k) = Cardinality(A) - Cardinality(B)
  BY DEF Depth
<1> HIDE DEF A, B
<1> QED
  BY <1>2, <1>3

LEMMA DepthZero ==
  ASSUME NEW s
  PROVE  Depth(s, 0) = 0
<1>1. {j \in 1 .. 0 : s[j] = Start} = {} /\ {j \in 1 .. 0 : s[j] = End} = {}
  OBVIOUS
<1> QED
  BY <1>1, FS_EmptySet DEF Depth

LEMMA DepthStep ==
  ASSUME NEW s \in Seq(Tokens), NEW k \in 1 .. Len(s)
  PROVE  /\ s[k] = Start => Depth(s, k) = Depth(s, k - 1) + 1
         /\ s[k] = End => Depth(s, k) = Depth(s, k - 1) - 1
         /\ IsMark(s, k) \/ IsCode(s, k) => Depth(s, k) = Depth(s, k - 1)
<1> DEFINE A(i) == {j \in 1 .. i : s[j] = Start}
           B(i) == {j \in 1 .. i : s[j] = End}
<1>1. \A i \in Int : IsFiniteSet(A(i)) /\ IsFiniteSet(B(i))
  <2> SUFFICES ASSUME NEW i \in Int PROVE IsFiniteSet(A(i)) /\ IsFiniteSet(B(i))
    OBVIOUS
  <2>1. IsFiniteSet(1 .. i) /\ A(i) \subseteq 1 .. i /\ B(i) \subseteq 1 .. i
    BY FS_Interval
  <2> QED
    BY <2>1, FS_Subset
<1>2. \A i \in Int : Cardinality(A(i)) \in Nat /\ Cardinality(B(i)) \in Nat
  BY <1>1, FS_CardinalityType
<1>3. Depth(s, k) = Cardinality(A(k)) - Cardinality(B(k)) /\ Depth(s, k - 1) = Cardinality(A(k - 1)) - Cardinality(B(k - 1))
  BY DEF Depth
<1>4. k \notin A(k - 1) /\ k \notin B(k - 1) /\ k - 1 \in Int /\ k \in Int
  OBVIOUS
<1>5. Start # End
  BY DEF Start, End
<1>6. CASE s[k] = Start
  <2>1. A(k) = A(k - 1) \cup {k} /\ B(k) = B(k - 1)
    BY <1>5, <1>6
  <2>2. Cardinality(A(k)) = Cardinality(A(k - 1)) + 1
    BY <1>1, <1>4, <2>1, FS_AddElement
  <2> HIDE DEF A, B
  <2>3. Depth(s, k) = Depth(s, k - 1) + 1
    BY <1>2, <1>3, <1>4, <2>1, <2>2
  <2> QED
    BY <1>6, <2>3, TokenKinds
<1>7. CASE s[k] = End
  <2>1. B(k) = B(k - 1) \cup {k} /\ A(k) = A(k - 1)
    BY <1>5, <1>7
  <2>2. Cardinality(B(k)) = Cardinality(B(k - 1)) + 1
    BY <1>1, <1>4, <2>1, FS_AddElement
  <2> HIDE DEF A, B
  <2>3. Depth(s, k) = Depth(s, k - 1) - 1
    BY <1>2, <1>3, <1>4, <2>1, <2>2
  <2> QED
    BY <1>5, <1>7, <2>3, TokenKinds
<1>8. CASE s[k] # Start /\ s[k] # End
  <2>1. B(k) = B(k - 1) /\ A(k) = A(k - 1)
    BY <1>8
  <2> HIDE DEF A, B
  <2> QED
    BY <1>3, <1>8, <2>1
<1> QED
  BY <1>6, <1>7, <1>8

LEMMA DepthSame ==
  ASSUME NEW s, NEW t, NEW m \in Nat, \A k \in 1 .. m : s[k] = t[k],
         NEW k \in 0 .. m
  PROVE  Depth(s, k) = Depth(t, k)
<1>1. {j \in 1 .. k : s[j] = Start} = {j \in 1 .. k : t[j] = Start}
  OBVIOUS
<1>2. {j \in 1 .. k : s[j] = End} = {j \in 1 .. k : t[j] = End}
  OBVIOUS
<1> QED
  BY <1>1, <1>2 DEF Depth

-----------------------------------------------------------------------------
(***************************************************************************)
(* What is known of a buffer up to a position does not change when it       *)
(* changes behind it.                                                       *)
(***************************************************************************)
Same(s, t, m) == m \in Nat /\ m <= Len(s) /\ m <= Len(t) /\ \A k \in 1 .. m : s[k] = t[k]

(* What is said of the beginning of a buffer holds of every buffer that    *)
(* begins in the same way.                                                 *)
LEMMA SameTokens ==
  ASSUME NEW s, NEW t, NEW m, Same(s, t, m)
  PROVE  /\ m \in Nat
         /\ \A k \in 0 .. m : Depth(s, k) = Depth(t, k)
         /\ \A k \in 1 .. m : /\ s[k] = t[k] /\ ArgAt(s, k) = ArgAt(t, k)
                              /\ (IsMark(s, k) <=> IsMark(t, k)) /\ (IsCode(s, k) <=> IsCode(t, k))
<1>1. m \in Nat /\ \A k \in 1 .. m : s[k] = t[k]
  BY DEF Same
<1>2. \A k \in 0 .. m : Depth(s, k) = Depth(t, k)
  BY <1>1, DepthSame
<1> QED
  BY <1>1, <1>2 DEF IsMark, IsCode, ArgAt

LEMMA SameMarks ==
  ASSUME NEW s, NEW t, NEW m, Same(s, t, m), NEW a \in Nat \ {0}, NEW c \in Int, c <= m
  PROVE  /\ MarksTo(s, a, c) = MarksTo(t, a, c)
         /\ ArgsTo(s, a, c) = ArgsTo(t, a, c)
         /\ \A x : LastMark(s, a, c, x) <=> LastMark(t, a, c, x)
<1>1. MarksTo(s, a, c) = MarksTo(t, a, c)
  <2>1. ASSUME NEW k \in a .. c
        PROVE  (IsMark(s, k) /\ Depth(s, k) = Depth(s, a)) <=> (IsMark(t, k) /\ Depth(t, k) = Depth(t, a))
    <3>1. k \in 1 .. m /\ k \in 0 .. m /\ a \in 0 .. m
      BY SameTokens
    <3> QED
      BY <3>1, SameTokens
  <2> QED
    BY <2>1, Zenon DEF MarksTo
<1>2. \A k \in MarksTo(s, a, c) : ArgAt(s, k) = ArgAt(t, k)
  <2> SUFFICES ASSUME NEW k \in MarksTo(s, a, c) PROVE ArgAt(s, k) = ArgAt(t, k)
    OBVIOUS
  <2>1. k \in a .. c
    BY DEF MarksTo
  <2>2. k \in 1 .. m
    BY <2>1, SameTokens
  <2> QED
    BY <2>2, SameTokens
<1>3. ArgsTo(s, a, c) = ArgsTo(t, a, c)
  BY <1>1, <1>2 DEF ArgsTo
<1>4. \A x : LastMark(s, a, c, x) <=> LastMark(t, a, c, x)
  BY <1>1, Zenon DEF LastMark
<1> QED
  BY <1>1, <1>3, <1>4

LEMMA SameCloses ==
  ASSUME NEW s, NEW t, NEW m, Same(s, t, m), NEW a \in Nat \ {0}, NEW c \in 1 .. m, a <= c
  PROVE  Closes(s, a, c) <=> Closes(t, a, c)
<1>1. a - 1 \in 0 .. m /\ a \in 1 .. m /\ c \in 0 .. m /\ \A j \in a .. c - 1 : j \in 0 .. m
  BY SameTokens
<1>2. s[a] = t[a] /\ Depth(s, a - 1) = Depth(t, a - 1) /\ Depth(s, c) = Depth(t, c)
      /\ \A j \in a .. c - 1 : Depth(s, j) = Depth(t, j)
  BY <1>1, SameTokens
<1> QED
  BY <1>2 DEF Closes

LEMMA SameArguments ==
  ASSUME NEW s, NEW t, NEW m, Same(s, t, m), NEW l \in 1 .. m, NEW k \in 1 .. l
  PROVE  /\ SameArgument(t, k, l) => SameArgument(s, k, l)
         /\ \A x, y \in 1 .. l : Arguments(t, x, k, y, l) => Arguments(s, x, k, y, l)
<1>1. m \in Nat /\ \A j \in 1 .. l : j \in 1 .. m /\ j \in 0 .. m
  BY SameTokens
<1>2. \A j \in 1 .. l : Depth(s, j) = Depth(t, j) /\ (IsMark(s, j) <=> IsMark(t, j))
  BY <1>1, SameTokens
<1>3. SameArgument(t, k, l) => SameArgument(s, k, l)
  <2> SUFFICES ASSUME SameArgument(t, k, l) PROVE SameArgument(s, k, l)
    OBVIOUS
  <2>1. PICK b \in Int : /\ \A j \in k .. l : Depth(t, j) >= b /\ (IsMark(t, j) => Depth(t, j) > b)
                         /\ \E j \in k .. l : Depth(t, j) = b
    BY DEF SameArgument
  <2>2. \A j \in k .. l : j \in 1 .. l
    BY <1>1
  <2>3. /\ \A j \in k .. l : Depth(s, j) >= b /\ (IsMark(s, j) => Depth(s, j) > b)
        /\ \E j \in k .. l : Depth(s, j) = b
    BY <1>2, <2>1, <2>2
  <2> QED
    BY <2>3 DEF SameArgument
<1>4. ASSUME NEW x \in 1 .. l, NEW y \in 1 .. l, Arguments(t, x, k, y, l)
      PROVE  Arguments(s, x, k, y, l)
  <2>1. \A j \in Int : j \in x .. l \/ j \in x + 1 .. k \/ j \in y + 1 .. l => j \in 1 .. l
    BY <1>1
  <2>2. /\ k < y /\ Depth(t, x) = Depth(t, y) /\ \A j \in x .. l : Depth(t, j) >= Depth(t, x)
        /\ x < k /\ IsMark(t, x)
        /\ \A j \in x + 1 .. k : Depth(t, j) >= Depth(t, x) /\ (IsMark(t, j) => Depth(t, j) > Depth(t, x))
        /\ y < l /\ IsMark(t, y)
        /\ \A j \in y + 1 .. l : Depth(t, j) >= Depth(t, y) /\ (IsMark(t, j) => Depth(t, j) > Depth(t, y))
    BY <1>4 DEF Arguments, InArgumentOf
  <2>3. /\ Depth(s, x) = Depth(t, x) /\ Depth(s, y) = Depth(t, y) /\ IsMark(s, x) /\ IsMark(s, y)
    BY <1>2, <2>2
  <2>4. \A j \in x .. l : Depth(s, j) >= Depth(s, x)
    BY <1>2, <2>1, <2>2, <2>3
  <2>5. \A j \in x + 1 .. k : Depth(s, j) >= Depth(s, x) /\ (IsMark(s, j) => Depth(s, j) > Depth(s, x))
    BY <1>2, <2>1, <2>2, <2>3
  <2>6. \A j \in y + 1 .. l : Depth(s, j) >= Depth(s, y) /\ (IsMark(s, j) => Depth(s, j) > Depth(s, y))
    BY <1>2, <2>1, <2>2, <2>3
  <2> QED
    BY <2>2, <2>3, <2>4, <2>5, <2>6 DEF Arguments, InArgumentOf
<1> QED
  BY <1>3, <1>4

LEMMA SameSound ==
  ASSUME NEW s \in Seq(Tokens), NEW t \in Seq(Tokens), NEW m, Same(s, t, m), NEW l \in 1 .. m, SoundAt(s, l)
  PROVE  SoundAt(t, l)
<1>0. m \in Nat /\ m <= Len(s) /\ m <= Len(t) /\ l \in 0 .. m
  BY DEF Same
<1>1. NestedAt(t, l)
  <2>1. l > 1 => l - 1 \in 1 .. m
    BY <1>0
  <2>2. Stops(s, l) <=> Stops(t, l)
    BY <1>0, SameTokens DEF Stops
  <2>3. NestedAt(s, l)
    BY DEF SoundAt
  <2>4. /\ Depth(s, l) = Depth(t, l) /\ (IsMark(s, l) <=> IsMark(t, l)) /\ (l > 1 => s[l - 1] = t[l - 1])
    BY <1>0, <2>1, SameTokens
  <2> QED
    BY <2>2, <2>3, <2>4 DEF NestedAt
<1>2. ReplacedAt(t, l)
  <2> SUFFICES ASSUME IsMark(t, l), NEW x \in 1 .. l - 1,
                      IsMark(t, x), ArgAt(t, x) = ArgAt(t, l), Depth(t, x) = Depth(t, l),
                      \A j \in x .. l : Depth(t, j) >= Depth(t, x)
               PROVE  Stops(t, x + 1)
    BY DEF ReplacedAt
  <2>1. x \in 1 .. m /\ x + 1 \in 1 .. m /\ x \in 0 .. m /\ \A j \in x .. l : j \in 0 .. m
    BY <1>0
  <2>2. IsMark(s, l) /\ IsMark(s, x) /\ ArgAt(s, x) = ArgAt(s, l) /\ Depth(s, x) = Depth(s, l)
    BY <1>0, <2>1, SameTokens
  <2>3. \A j \in x .. l : Depth(s, j) >= Depth(s, x)
    BY <2>1, SameTokens
  <2>4. Stops(s, x + 1)
    BY <2>2, <2>3 DEF SoundAt, ReplacedAt
  <2>5. x + 1 \in DOMAIN s /\ x + 1 \in DOMAIN t
    BY <1>0, <2>1
  <2> QED
    BY <2>1, <2>4, <2>5, SameTokens DEF Stops
<1>3. CompleteAt(t, l)
  <2> SUFFICES ASSUME NEW a \in 1 .. l, Closes(t, a, l)
               PROVE  \E h \in 0 .. sMAXARGS : ArgsTo(t, a, l) = 0 .. h - 1
    BY DEF CompleteAt
  <2>1. Closes(s, a, l)
    BY <1>0, SameCloses
  <2>2. \E h \in 0 .. sMAXARGS : ArgsTo(s, a, l) = 0 .. h - 1
    BY <2>1 DEF SoundAt, CompleteAt
  <2>3. ArgsTo(s, a, l) = ArgsTo(t, a, l)
    BY <1>0, SameMarks
  <2> QED
    BY <2>2, <2>3
<1>4. OrderedAt(t, l)
  <2> SUFFICES ASSUME IsCode(t, l), NEW k \in 1 .. l - 1, IsCode(t, k)
               PROVE  /\ SameArgument(t, k, l) => Before(t[k].at, t[l].at)
                      /\ \A x, y \in 1 .. l : Arguments(t, x, k, y, l) =>
                           /\ ArgAt(t, x) > ArgAt(t, y) => Before(t[k].at, t[l].at)
                           /\ ArgAt(t, x) < ArgAt(t, y) => Before(t[l].at, t[k].at)
    BY Zenon DEF OrderedAt
  <2>1. k \in 1 .. m /\ k \in 1 .. l /\ \A j \in 1 .. l : j \in 1 .. m
    BY <1>0
  <2>2. IsCode(s, l) /\ IsCode(s, k) /\ s[k] = t[k] /\ s[l] = t[l] /\ \A x \in 1 .. l : ArgAt(s, x) = ArgAt(t, x)
    BY <2>1, SameTokens
  <2>3. /\ SameArgument(t, k, l) => SameArgument(s, k, l)
        /\ \A x, y \in 1 .. l : Arguments(t, x, k, y, l) => Arguments(s, x, k, y, l)
    BY <2>1, SameArguments
  <2>4. /\ SameArgument(s, k, l) => Before(s[k].at, s[l].at)
        /\ \A x, y \in 1 .. l : Arguments(s, x, k, y, l) =>
             /\ ArgAt(s, x) > ArgAt(s, y) => Before(s[k].at, s[l].at)
             /\ ArgAt(s, x) < ArgAt(s, y) => Before(s[l].at, s[k].at)
    BY <2>2 DEF SoundAt, OrderedAt
  <2> QED
    BY <2>2, <2>3, <2>4
<1> QED
  BY <1>1, <1>2, <1>3, <1>4 DEF SoundAt

-----------------------------------------------------------------------------
(***************************************************************************)
(* One token more                                                           *)
(***************************************************************************)
Appended(s, e, t, l) == s \in Seq(Tokens) /\ e \in Tokens /\ t = Append(s, e) /\ l = Len(s) + 1

LEMMA AppendedTokens ==
  ASSUME NEW s, NEW e, NEW t, NEW l, Appended(s, e, t, l)
  PROVE  /\ l \in Nat \ {0} /\ Len(s) = l - 1 /\ Len(t) = l /\ s \in Seq(Tokens) /\ t \in Seq(Tokens) /\ t[l] = e
         /\ DOMAIN s = 1 .. l - 1 /\ DOMAIN t = 1 .. l
         /\ Same(s, t, l - 1)
         /\ \A k \in 1 .. l - 1 : /\ t[k] = s[k] /\ ArgAt(t, k) = ArgAt(s, k)
                                  /\ (IsMark(t, k) <=> IsMark(s, k)) /\ (IsCode(t, k) <=> IsCode(s, k))
<1>1. s \in Seq(Tokens) /\ e \in Tokens /\ t = Append(s, e) /\ l = Len(s) + 1
  BY DEF Appended
<1>2. l \in Nat \ {0} /\ Len(s) = l - 1 /\ Len(t) = l /\ t \in Seq(Tokens) /\ t[l] = e
  BY <1>1
<1>3. DOMAIN s = 1 .. l - 1 /\ DOMAIN t = 1 .. l
  BY <1>1, <1>2
<1>4. \A k \in 1 .. l - 1 : t[k] = s[k]
  BY <1>1
<1>5. Same(s, t, l - 1)
  BY <1>2, <1>4 DEF Same
<1> QED
  BY <1>1, <1>2, <1>3, <1>5, SameTokens

LEMMA AppendedDepth ==
  ASSUME NEW s, NEW e, NEW t, NEW l, Appended(s, e, t, l)
  PROVE  /\ \A k \in 0 .. l - 1 : Depth(t, k) = Depth(s, k) /\ Depth(s, k) \in Int
         /\ Depth(t, l) \in Int
         /\ e = Start => Depth(t, l) = Depth(s, l - 1) + 1
         /\ e = End => Depth(t, l) = Depth(s, l - 1) - 1
         /\ IsMark(t, l) \/ IsCode(t, l) => Depth(t, l) = Depth(s, l - 1)
<1>1. /\ l \in Nat \ {0} /\ Len(s) = l - 1 /\ Len(t) = l /\ t \in Seq(Tokens) /\ t[l] = e
      /\ Same(s, t, l - 1)
  BY AppendedTokens
<1>2. \A k \in 0 .. l - 1 : Depth(t, k) = Depth(s, k)
  BY <1>1, SameTokens
<1>3. l - 1 \in 0 .. l - 1 /\ l \in 1 .. Len(t) /\ \A k \in 0 .. l : k \in Int
  BY <1>1
<1> QED
  BY <1>1, <1>2, <1>3, DepthStep, DepthType

(* The buffer is sound if it was before and is at its end.                  *)
LEMMA AppendedSound ==
  ASSUME NEW s, NEW e, NEW t, NEW l, Appended(s, e, t, l), Sound(s), SoundAt(t, l)
  PROVE  Sound(t)
<1>1. /\ s \in Seq(Tokens) /\ t \in Seq(Tokens) /\ Same(s, t, l - 1) /\ l \in Nat \ {0}
      /\ DOMAIN s = 1 .. l - 1 /\ DOMAIN t = 1 .. l
  BY AppendedTokens
<1>2. ASSUME NEW k \in 1 .. l - 1 PROVE SoundAt(t, k)
  BY <1>1, SameSound DEF Sound
<1>3. \A k \in 1 .. l : k \in 1 .. l - 1 \/ k = l
  BY <1>1
<1> QED
  BY <1>1, <1>2, <1>3 DEF Sound

-----------------------------------------------------------------------------
(***************************************************************************)
(* Frames                                                                   *)
(***************************************************************************)
LEMMA FrameType ==
  ASSUME NEW fs \in Seq(Frames), NEW j \in DOMAIN fs
  PROVE  /\ fs[j] \in Frames /\ j \in 1 .. Len(fs) /\ Len(fs) \in Nat
         /\ fs[j].index \in Nat /\ fs[j].arg \in Int /\ fs[j].at \in Nat /\ fs[j].nargs \in Nat
         /\ fs[j].formals \in Nat /\ fs[j].done \subseteq Int
         /\ fs[j].kind \in {"call", "defaults", "for", "save", "constant"}
         /\ (IsCall(fs[j]) /\ Opens(fs[j]) = 1) \/ (~IsCall(fs[j]) /\ Opens(fs[j]) = 0)
<1>1. fs[j] \in Frames /\ j \in 1 .. Len(fs) /\ Len(fs) \in Nat
  OBVIOUS
<1> QED
  BY <1>1 DEF Frames, Opens

(* For every bracket that is open at the end there is a frame.              *)
LEMMA FrameAt ==
  ASSUME NEW s \in Seq(Tokens), NEW fs \in Seq(Frames), Stacked(s, fs),
         NEW d \in Nat \ {0}, d <= Depth(s, Len(s))
  PROVE  \E g \in DOMAIN fs : IsCall(fs[g]) /\ Depth(s, fs[g].index) = d - 1
<1> DEFINE S == {j \in 0 .. Len(fs) : Depth(s, Base(s, fs, j + 1)) >= d}
<1>1. S \in SUBSET Nat /\ S # {}
  <2>1. Len(fs) + 1 \notin DOMAIN fs /\ Len(fs) \in 0 .. Len(fs)
    OBVIOUS
  <2>2. Base(s, fs, Len(fs) + 1) = Len(s)
    BY <2>1 DEF Base
  <2>3. Len(fs) \in S
    BY <2>1, <2>2
  <2> QED
    BY <2>3
<1>2. PICK j \in S : \A i \in S : j <= i
  BY <1>1, Least
<1>3. j # 0
  BY <1>2 DEF Stacked
<1>4. j \in DOMAIN fs /\ j - 1 \in 0 .. Len(fs) /\ j - 1 \notin S /\ j \in Nat
  <2>1. j \in 0 .. Len(fs) /\ Len(fs) \in Nat
    BY <1>2
  <2>2. j \in DOMAIN fs /\ j - 1 \in 0 .. Len(fs) /\ j \in Nat /\ ~(j <= j - 1)
    BY <1>3, <2>1
  <2> HIDE DEF S
  <2> QED
    BY <1>2, <2>2
<1>5. (j - 1) + 1 = j
  BY <1>4
<1>6. ~(Depth(s, fs[j].index) >= d)
  BY <1>4, <1>5 DEF Base
<1>7. Depth(s, Base(s, fs, j + 1)) >= d /\ Depth(s, Base(s, fs, j + 1)) = Depth(s, fs[j].index) + Opens(fs[j])
  BY <1>2, <1>4, Zenon DEF Stacked, StackedAt
<1>8. fs[j].index \in Int /\ ((IsCall(fs[j]) /\ Opens(fs[j]) = 1) \/ (~IsCall(fs[j]) /\ Opens(fs[j]) = 0))
  BY <1>4, FrameType
<1>9. Depth(s, fs[j].index) \in Int
  BY <1>8, DepthType
<1> HIDE DEF S
<1>10. IsCall(fs[j]) /\ Depth(s, fs[j].index) = d - 1
  BY <1>6, <1>7, <1>8, <1>9
<1> QED
  BY <1>4, <1>10

(* A call around the end of the buffer                                      *)
LEMMA CallFacts ==
  ASSUME NEW s \in Seq(Tokens), NEW fs \in Seq(Frames), Stacked(s, fs), NEW j \in DOMAIN fs, IsCall(fs[j])
  PROVE  /\ fs[j].index + 1 \in 1 .. Len(s) /\ s[fs[j].index + 1] = Start
         /\ Depth(s, fs[j].index) \in Int
         /\ Depth(s, fs[j].index + 1) = Depth(s, fs[j].index) + 1
         /\ \A k \in fs[j].index + 1 .. Len(s) : Depth(s, k) \in Int /\ Depth(s, k) >= Depth(s, fs[j].index) + 1
<1>1. fs[j].index \in Nat /\ Opens(fs[j]) = 1 /\ Len(s) \in Nat
  BY FrameType
<1>2. StackedAt(s, fs, j)
  BY DEF Stacked
<1>3. fs[j].index + 1 \in 1 .. Len(s) /\ s[fs[j].index + 1] = Start
  BY <1>1, <1>2 DEF StackedAt
<1>4. \A k \in fs[j].index + 1 .. Len(s) : k \in Int /\ Depth(s, k) >= Depth(s, fs[j].index) + 1
  BY <1>1, <1>2 DEF StackedAt
<1>5. (fs[j].index + 1) - 1 = fs[j].index
  BY <1>1
<1> QED
  BY <1>1, <1>3, <1>4, <1>5, DepthStep, DepthType

(* Of a call that goes on, its marks and what is known of them stay.        *)
LEMMA TakenKeeps ==
  ASSUME NEW s, NEW e, NEW t, NEW l, Appended(s, e, t, l),
         NEW f \in Frames, IsCall(f), f.index + 1 <= Len(s), Taken(s, f),
         IsMark(t, l) => Depth(t, l) # Depth(t, f.index + 1),
         Inside(f) \/ IsMark(t, l) \/ t[l] = End
  PROVE  Taken(t, f)
<1> DEFINE a == f.index + 1
           M == MarksTo(s, a, Len(s))
<1>1. /\ l \in Nat \ {0} /\ Len(s) = l - 1 /\ Len(t) = l /\ Same(s, t, l - 1)
      /\ DOMAIN s = 1 .. l - 1 /\ DOMAIN t = 1 .. l
      /\ \A k \in 1 .. l - 1 : /\ t[k] = s[k] /\ ArgAt(t, k) = ArgAt(s, k)
                               /\ (IsMark(t, k) <=> IsMark(s, k))
  BY AppendedTokens
<1>2. a \in Nat \ {0} /\ a <= l - 1 /\ f.arg \in Int /\ f.kind \in {"call", "defaults", "for"}
  BY <1>1 DEF Frames, IsCall
<1>3. MarksTo(t, a, l) = M
  <2>1. MarksTo(t, a, l - 1) = M
    BY <1>1, <1>2, SameMarks
  <2>2. \A k \in a .. l : k \in a .. l - 1 \/ k = l
    BY <1>1, <1>2
  <2>3. \A k \in a .. l - 1 : k \in a .. l
    BY <1>1, <1>2
  <2> QED
    BY <2>1, <2>2, <2>3, Zenon DEF MarksTo
<1>4. \A k \in M : k \in 1 .. l - 1 /\ ArgAt(t, k) = ArgAt(s, k)
  <2>1. \A k \in M : k \in 1 .. l - 1
    BY <1>1, <1>2 DEF MarksTo
  <2> QED
    BY <1>1, <2>1
<1>5. ArgsTo(t, a, l) = ArgsTo(s, a, Len(s))
  BY <1>3, <1>4 DEF ArgsTo
<1>6. \A m : LastMark(t, a, l, m) <=> LastMark(s, a, Len(s), m)
  BY <1>3, Zenon DEF LastMark
<1> DEFINE I == ArgsTo(s, a, Len(s))
<1>7. /\ I = {} => f.arg = NoArg
      /\ f.kind = "for" => f.arg \in {NoArg, 0, 1} /\ I = 0 .. f.arg
      /\ f.kind # "for" =>
          /\ f.done \subseteq I /\ f.formals <= MaxFormals
          /\ \E p \in 0 .. sMAXARGS :
               /\ f.kind = "call" /\ ~f.named => p = f.nargs
               /\ 0 .. p - 1 \subseteq I /\ I \subseteq (0 .. p - 1) \cup (0 .. f.formals - 1)
  BY Zenon DEF Taken
<1>8. I # {} => \E m \in DOMAIN s : LastMark(s, a, Len(s), m) /\ ArgAt(s, m) = f.arg
  BY DEF Taken
<1>9. I # {} => \E m \in DOMAIN t : LastMark(t, a, l, m) /\ ArgAt(t, m) = f.arg
  BY <1>1, <1>6, <1>8
<1>10. ASSUME f.kind # "for", NEW m \in M, ArgAt(t, m) \notin f.done
       PROVE  Stops(t, m + 1)
  <2>1. Stops(s, m + 1) /\ ArgAt(s, m) \notin f.done
    BY <1>4, <1>10 DEF Taken
  <2>2. CASE m = l - 1
    <3>1. m + 1 = l
      BY <1>1, <2>2
    <3>2. LastMark(s, a, Len(s), m)
      BY <1>1, <1>4, <2>2 DEF LastMark
    <3>3. I # {}
      BY DEF ArgsTo
    <3>4. PICK x \in DOMAIN s : LastMark(s, a, Len(s), x) /\ ArgAt(s, x) = f.arg
      BY <1>8, <3>3
    <3>5. x = m
      BY <1>4, <3>2, <3>4 DEF LastMark
    <3>6. ~Inside(f)
      BY <1>10, <2>1, <3>4, <3>5 DEF Inside
    <3> QED
      BY <3>1, <3>6 DEF Stops
  <2>3. CASE m # l - 1
    <3>1. m + 1 \in 1 .. l - 1 /\ m + 1 \in 1 .. l
      BY <1>1, <1>4, <2>3
    <3> QED
      BY <1>1, <2>1, <3>1 DEF Stops
  <2> QED
    BY <2>2, <2>3
<1>11. f.kind # "for" => \A m \in MarksTo(t, a, l) : ArgAt(t, m) \notin f.done => Stops(t, m + 1)
  BY <1>3, <1>10
<1> HIDE DEF I, a, M
<1> QED
  BY <1>1, <1>5, <1>7, <1>9, <1>11, Zenon DEF Taken, a, I

(* Every call is in an argument, so what comes next may be code.            *)
AllInside(fs) == \A j \in DOMAIN fs : Inside(fs[j])

(* When code may follow, the last token is not the beginning of a call.    *)
LEMMA NotAfterStart ==
  ASSUME NEW s \in Seq(Tokens), NEW fs \in Seq(Frames), Stacked(s, fs), Parsed(s, fs), AllInside(fs)
  PROVE  s # <<>> => s[Len(s)] # Start
<1> SUFFICES ASSUME s # <<>>, s[Len(s)] = Start PROVE FALSE
  OBVIOUS
<1>1. fs # <<>> /\ IsCall(Last(fs)) /\ Last(fs).index + 1 = Len(s)
  BY DEF Stacked
<1> DEFINE j == Len(fs)
<1>2. j \in DOMAIN fs /\ Last(fs) = fs[j]
  <2>1. Len(fs) \in 1 .. Len(fs)
    BY <1>1
  <2> QED
    BY <2>1 DEF Last
<1> HIDE DEF j
<1>3. Taken(s, fs[j]) /\ Inside(fs[j])
  BY <1>1, <1>2 DEF Parsed, AllInside
<1>4. Len(s) \in 1 .. Len(s) /\ ~IsMark(s, Len(s))
  BY TokenKinds
<1>5. MarksTo(s, Len(s), Len(s)) = {}
  BY <1>4 DEF MarksTo
<1>6. ArgsTo(s, fs[j].index + 1, Len(s)) = {}
  BY <1>1, <1>2, <1>5 DEF ArgsTo
<1>7. fs[j].arg = NoArg
  BY <1>3, <1>6 DEF Taken
<1>8. fs[j].kind # "for" => fs[j].done = {}
  BY <1>3, <1>6 DEF Taken
<1> QED
  BY <1>1, <1>2, <1>3, <1>7, <1>8 DEF Inside

(* A line or a mark of the innermost call                                   *)
SameFrame(f, g) ==
  /\ f.index = g.index /\ f.at = g.at
  /\ \/ f.kind = g.kind
     \/ f.kind = "call" /\ g.kind = "defaults"
  /\ ~IsCall(f) => g.arg = f.arg
SameStack(fs, gs) ==
  Len(fs) = Len(gs) /\ \A j \in DOMAIN fs : SameFrame(fs[j], gs[j]) /\ (j # Len(fs) => fs[j] = gs[j])

LEMMA SameStackFacts ==
  ASSUME NEW fs \in Seq(Frames), NEW gs \in Seq(Frames), SameStack(fs, gs)
  PROVE  /\ DOMAIN gs = DOMAIN fs
         /\ \A j \in DOMAIN fs : /\ gs[j].index = fs[j].index /\ gs[j].at = fs[j].at /\ Opens(gs[j]) = Opens(fs[j])
                                 /\ (IsCall(gs[j]) <=> IsCall(fs[j]))
                                 /\ (gs[j].kind = "for" <=> fs[j].kind = "for")
                                 /\ (gs[j].kind = "constant" <=> fs[j].kind = "constant")
<1>1. DOMAIN gs = DOMAIN fs
  BY DEF SameStack
<1>2. ASSUME NEW j \in DOMAIN fs
      PROVE  /\ gs[j].index = fs[j].index /\ gs[j].at = fs[j].at /\ Opens(gs[j]) = Opens(fs[j])
             /\ (IsCall(gs[j]) <=> IsCall(fs[j]))
             /\ (gs[j].kind = "for" <=> fs[j].kind = "for")
             /\ (gs[j].kind = "constant" <=> fs[j].kind = "constant")
  BY DEF SameStack, SameFrame, IsCall, Opens
<1> QED
  BY <1>1, <1>2

(* A token that leaves the frames open keeps them stacked.                 *)
LEMMA StackedToken ==
  ASSUME NEW s, NEW e, NEW t, NEW l, Appended(s, e, t, l),
         NEW fs \in Seq(Frames), NEW gs \in Seq(Frames), SameStack(fs, gs), Stacked(s, fs),
         IsCode(t, l) \/ (IsMark(t, l) /\ fs # <<>> /\ IsCall(fs[Len(fs)]))
  PROVE  Stacked(t, gs)
<1>1. /\ l \in Nat \ {0} /\ Len(s) = l - 1 /\ Len(t) = l /\ s \in Seq(Tokens) /\ t \in Seq(Tokens)
      /\ \A k \in 1 .. l - 1 : /\ t[k] = s[k] /\ (IsMark(t, k) <=> IsMark(s, k))
  BY AppendedTokens
<1>2. Depth(t, l) = Depth(s, l - 1) /\ \A k \in 0 .. l - 1 : Depth(t, k) = Depth(s, k) /\ Depth(s, k) \in Int
  BY AppendedDepth
<1>3. t[l] # Start
  <2>1. l \in 1 .. Len(t)
    BY <1>1
  <2> QED
    BY <1>1, <2>1, TokenKinds
<1>4. DOMAIN fs = 1 .. Len(fs) /\ DOMAIN gs = 1 .. Len(fs) /\ Len(gs) = Len(fs) /\ Len(fs) \in Nat
  BY DEF SameStack
<1>5. ASSUME NEW j \in 1 .. Len(fs) + 1
      PROVE  Depth(t, Base(t, gs, j)) = Depth(s, Base(s, fs, j))
  <2>1. CASE j \in DOMAIN fs
    <3>1. Base(t, gs, j) = fs[j].index /\ Base(s, fs, j) = fs[j].index
      BY <1>4, <2>1, SameStackFacts DEF Base
    <3>2. fs[j].index \in 0 .. l - 1
      BY <1>1, <2>1 DEF Stacked, StackedAt
    <3> QED
      BY <1>2, <3>1, <3>2
  <2>2. CASE j \notin DOMAIN fs
    <3>1. Base(t, gs, j) = l /\ Base(s, fs, j) = l - 1
      BY <1>1, <1>4, <2>2 DEF Base
    <3> QED
      BY <1>2, <3>1
  <2> QED
    BY <2>1, <2>2
<1>6. ASSUME NEW j \in DOMAIN fs
      PROVE  StackedAt(t, gs, j)
  <2> DEFINE f == fs[j]
             o == Opens(f)
  <2>1. /\ gs[j].index = f.index /\ Opens(gs[j]) = o /\ (IsCall(gs[j]) <=> IsCall(f))
        /\ (gs[j].kind = "for" <=> fs[j].kind = "for") /\ (gs[j].kind = "constant" <=> fs[j].kind = "constant")
    BY SameStackFacts
  <2>2. /\ f.index \in Nat /\ ((IsCall(f) /\ o = 1) \/ (~IsCall(f) /\ o = 0))
        /\ j \in Nat
    BY FrameType
  <2>3. StackedAt(s, fs, j)
    BY DEF Stacked
  <2>4. /\ f.index \in 0 .. l - 1 /\ (f.index > 0 => s[f.index] # Start)
        /\ f.kind \in {"for", "constant"} => j = 1 /\ f.index = 0
        /\ f.index + o <= l - 1
        /\ \A i \in DOMAIN fs : i > j => f.index + o <= fs[i].index
        /\ Depth(s, Base(s, fs, j + 1)) = Depth(s, f.index) + o
        /\ IsCall(f) => s[f.index + 1] = Start
        /\ ~IsCall(f) => f.arg = NoArg
    BY <1>1, <2>3, Zenon DEF StackedAt
  <2>5. \A k \in f.index + 1 .. l - 1 :
          /\ Depth(s, k) >= Depth(s, f.index) + o
          /\ ~IsCall(f) /\ IsMark(s, k) => Depth(s, k) > Depth(s, f.index)
    BY <1>1, <2>3, Zenon DEF StackedAt
  <2> HIDE DEF o
  <2>6. Depth(t, l) >= Depth(s, f.index) + o /\ Depth(s, f.index) \in Int /\ Depth(s, l - 1) \in Int
    <3>1. Depth(s, f.index) \in Int /\ Depth(s, l - 1) \in Int
      BY <1>1, <1>2, <2>4
    <3>2. CASE f.index = l - 1
      <4>1. o = 0
        BY <1>1, <2>2, <2>4, <3>2
      <4> QED
        BY <1>2, <3>1, <3>2, <4>1
    <3>3. CASE f.index # l - 1
      <4>1. l - 1 \in f.index + 1 .. l - 1
        BY <1>1, <2>2, <2>4, <3>3
      <4> QED
        BY <1>2, <2>5, <3>1, <4>1
    <3> QED
      BY <3>1, <3>2, <3>3
  <2>7. ASSUME ~IsCall(f), IsMark(t, l)
        PROVE  Depth(t, l) > Depth(s, f.index)
    <3> DEFINE g == fs[Len(fs)]
    <3>1. IsCall(g) /\ Len(fs) \in DOMAIN fs
      <4>1. l \in 1 .. Len(t)
        BY <1>1
      <4>2. ~IsCode(t, l)
        BY <1>1, <2>7, <4>1, TokenKinds
      <4>3. fs # <<>> => Len(fs) \in DOMAIN fs
        BY <1>4
      <4> QED
        BY <4>2, <4>3
    <3>2. j # Len(fs) /\ Len(fs) > j
      BY <1>4, <2>7, <3>1
    <3>3. f.index + o <= g.index
      BY <2>4, <3>1, <3>2
    <3>4. /\ Depth(s, g.index) \in Int
          /\ \A k \in g.index + 1 .. l - 1 : Depth(s, k) >= Depth(s, g.index) + 1
          /\ g.index + 1 \in 1 .. l - 1 /\ g.index \in Nat
      BY <1>1, <3>1, CallFacts, FrameType
    <3>5. Depth(s, l - 1) >= Depth(s, g.index) + 1
      <4>1. l - 1 \in g.index + 1 .. l - 1
        BY <1>1, <3>4
      <4> QED
        BY <3>4, <4>1
    <3>6. Depth(s, g.index) >= Depth(s, f.index)
      <4>1. CASE g.index = f.index
        BY <2>6, <4>1
      <4>2. CASE g.index # f.index
        <5>1. g.index \in f.index + 1 .. l - 1
          BY <1>1, <2>2, <3>3, <3>4, <4>2
        <5> QED
          BY <2>2, <2>5, <2>6, <3>4, <5>1
      <4> QED
        BY <4>1, <4>2
    <3> QED
      BY <1>2, <2>6, <3>4, <3>5, <3>6
  <2>8. \A k \in f.index + 1 .. l :
          /\ Depth(t, k) >= Depth(t, f.index) + o
          /\ ~IsCall(f) /\ IsMark(t, k) => Depth(t, k) > Depth(t, f.index)
    <3> SUFFICES ASSUME NEW k \in f.index + 1 .. l
                 PROVE  /\ Depth(t, k) >= Depth(t, f.index) + o
                        /\ ~IsCall(f) /\ IsMark(t, k) => Depth(t, k) > Depth(t, f.index)
      OBVIOUS
    <3>1. Depth(t, f.index) = Depth(s, f.index)
      BY <1>2, <2>4
    <3>2. CASE k = l
      BY <2>6, <2>7, <3>1, <3>2
    <3>3. CASE k # l
      <4>1. k \in 1 .. l - 1 /\ k \in 0 .. l - 1 /\ k \in f.index + 1 .. l - 1
        BY <1>1, <2>2, <3>3
      <4> QED
        BY <1>1, <1>2, <2>5, <3>1, <4>1
    <3> QED
      BY <3>2, <3>3
  <2>9. Depth(t, Base(t, gs, j + 1)) = Depth(t, f.index) + o
    <3>1. j + 1 \in 1 .. Len(fs) + 1
      BY <1>4
    <3> QED
      BY <1>2, <1>5, <2>4, <3>1
  <2>10. (f.index > 0 => t[f.index] # Start) /\ (IsCall(f) => t[f.index + 1] = Start)
    <3>1. (f.index > 0 => f.index \in 1 .. l - 1) /\ (IsCall(f) => f.index + 1 \in 1 .. l - 1)
      BY <1>1, <2>2, <2>4
    <3> QED
      BY <1>1, <2>4, <3>1
  <2>12. ~IsCall(f) => gs[j].arg = NoArg
    BY <2>4 DEF SameStack, SameFrame
  <2>13. f.index \in 0 .. Len(t) /\ f.index + o <= Len(t)
    BY <1>1, <2>2, <2>4
  <2>14. \A i \in DOMAIN gs : i > j => f.index + o <= gs[i].index
    BY <2>4, SameStackFacts
  <2>15. gs[j].kind \in {"for", "constant"} => j = 1 /\ f.index = 0
    BY <2>1, <2>4
  <2> HIDE DEF f
  <2> QED
    BY <1>1, <2>1, <2>8, <2>9, <2>10, <2>12, <2>13, <2>14, <2>15, Zenon DEF StackedAt
<1>7. Depth(t, Base(t, gs, 1)) = 0
  <2>1. 1 \in 1 .. Len(fs) + 1
    BY <1>4
  <2> QED
    BY <1>5, <2>1 DEF Stacked
<1> QED
  BY <1>1, <1>3, <1>4, <1>6, <1>7 DEF Stacked

(* The place of a line names the calls around it.                          *)
LEMMA PlaceType ==
  ASSUME NEW fs \in Seq(Frames), NEW m \in Nat
  PROVE  /\ Place(fs, m) \in Places /\ Len(Place(fs, m)) = Len(fs) + 1 /\ Line(Place(fs, m)) = m
         /\ DOMAIN Place(fs, m) = 1 .. Len(fs) + 1
         /\ Place(fs, m)[Len(fs) + 1] = <<m, 0>>
         /\ \A j \in DOMAIN fs : Place(fs, m)[j] = <<fs[j].at, -fs[j].arg>>
<1> DEFINE q == [j \in DOMAIN fs |-> <<fs[j].at, -fs[j].arg>>]
<1>1. \A j \in DOMAIN fs : fs[j].at \in Int /\ fs[j].arg \in Int
  BY FrameType
<1>2. \A j \in DOMAIN fs : <<fs[j].at, -fs[j].arg>> \in Int \X Int
  BY <1>1
<1>3. DOMAIN fs = 1 .. Len(fs) /\ Len(fs) \in Nat
  OBVIOUS
<1>4. q \in Seq(Int \X Int) /\ Len(q) = Len(fs)
  <2>1. q \in [1 .. Len(fs) -> Int \X Int]
    BY <1>2, <1>3
  <2> HIDE DEF q
  <2> QED
    BY <1>3, <2>1
<1>5. \A j \in DOMAIN fs : q[j] = <<fs[j].at, -fs[j].arg>>
  OBVIOUS
<1> HIDE DEF q
<1>6. Place(fs, m) = Append(q, <<m, 0>>)
  BY DEF Place, q
<1>7. <<m, 0>> \in Int \X Int
  OBVIOUS
<1>8. Append(q, <<m, 0>>) \in Seq(Int \X Int)
  BY <1>4, <1>7
<1>9. Len(Append(q, <<m, 0>>)) = Len(fs) + 1 /\ Append(q, <<m, 0>>)[Len(fs) + 1] = <<m, 0>>
  BY <1>4
<1>10. \A j \in DOMAIN fs : Append(q, <<m, 0>>)[j] = q[j]
  BY <1>3, <1>4
<1>11. DOMAIN Append(q, <<m, 0>>) = 1 .. Len(fs) + 1
  BY <1>4
<1>12. Place(fs, m) # <<>>
  BY <1>3, <1>6, <1>9
<1>13. Last(Place(fs, m)) = <<m, 0>>
  BY <1>6, <1>9 DEF Last
<1> QED
  BY <1>5, <1>6, <1>8, <1>9, <1>10, <1>11, <1>12, <1>13 DEF Places, Line

(* The last mark of a call, if there is one, is its argument.               *)
LEMMA LastArgument ==
  ASSUME NEW s \in Seq(Tokens), NEW fs \in Seq(Frames), Stacked(s, fs), Parsed(s, fs),
         NEW j \in DOMAIN fs, IsCall(fs[j]), NEW y \in Int, LastMark(s, fs[j].index + 1, Len(s), y)
  PROVE  fs[j].arg = ArgAt(s, y)
<1>1. Taken(s, fs[j]) /\ fs[j].index \in Nat
  BY FrameType DEF Parsed
<1>2. ArgsTo(s, fs[j].index + 1, Len(s)) # {}
  BY DEF LastMark, ArgsTo
<1>3. PICK x \in DOMAIN s : LastMark(s, fs[j].index + 1, Len(s), x) /\ ArgAt(s, x) = fs[j].arg
  BY <1>1, <1>2 DEF Taken
<1>4. x \in Int /\ y \in Int /\ x <= y /\ y <= x
  BY <1>3 DEF LastMark
<1>5. x = y
  BY <1>4
<1> QED
  BY <1>3, <1>5

LEMMA FirstBefore ==
  ASSUME NEW p \in Places, NEW q \in Places, NEW j \in DOMAIN p \cap DOMAIN q,
         \A h \in 1 .. j - 1 : p[h] = q[h],
         p[j][1] < q[j][1] \/ (p[j][1] = q[j][1] /\ p[j][2] < q[j][2])
  PROVE  Before(p, q)
BY DEF Before

(* A new line is ordered with all lines before it.                         *)
LEMMA LineOrdered ==
  ASSUME NEW s, NEW fs \in Seq(Frames), NEW m \in Nat, NEW t, NEW l, Appended(s, Code(Place(fs, m)), t, l),
         Good(s, fs), Numbered(s, fs, m)
  PROVE  OrderedAt(t, l)
<1> DEFINE q == Place(fs, m)
<1>1. /\ l \in Nat \ {0} /\ Len(s) = l - 1 /\ Len(t) = l /\ s \in Seq(Tokens) /\ t \in Seq(Tokens) /\ t[l] = Code(q)
      /\ DOMAIN s = 1 .. l - 1
      /\ \A k \in 1 .. l - 1 : /\ t[k] = s[k] /\ ArgAt(t, k) = ArgAt(s, k)
                               /\ (IsMark(t, k) <=> IsMark(s, k)) /\ (IsCode(t, k) <=> IsCode(s, k))
  BY AppendedTokens
<1>2. IsCode(t, l) /\ t[l].at = q
  BY <1>1 DEF IsCode, Code
<1>3. Depth(t, l) = Depth(s, l - 1) /\ \A k \in 0 .. l - 1 : Depth(t, k) = Depth(s, k) /\ Depth(s, k) \in Int
  BY <1>2, AppendedDepth
<1>4. Stacked(s, fs) /\ Parsed(s, fs) /\ Placed(s, fs)
  BY DEF Good
<1>5. /\ q \in Places /\ Line(q) = m
      /\ DOMAIN q = 1 .. Len(fs) + 1
      /\ q[Len(fs) + 1] = <<m, 0>>
      /\ \A j \in DOMAIN fs : q[j] = <<fs[j].at, -fs[j].arg>>
  BY PlaceType
<1>6. DOMAIN fs = 1 .. Len(fs) /\ Len(fs) \in Nat
  OBVIOUS
<1> HIDE DEF q
<1> SUFFICES ASSUME NEW k \in 1 .. l - 1, IsCode(t, k)
             PROVE  /\ SameArgument(t, k, l) => Before(t[k].at, t[l].at)
                    /\ \A x, y \in 1 .. l : Arguments(t, x, k, y, l) =>
                         /\ ArgAt(t, x) > ArgAt(t, y) => Before(t[k].at, t[l].at)
                         /\ ArgAt(t, x) < ArgAt(t, y) => Before(t[l].at, t[k].at)
  BY Zenon DEF OrderedAt
<1> DEFINE p == s[k].at
<1>7. IsCode(s, k) /\ t[k].at = p /\ k \in 1 .. Len(s) /\ k \in DOMAIN s /\ k \in Nat
  BY <1>1
<1>8. p \in Places
  BY <1>1, <1>7, TokenKinds
<1> HIDE DEF p
<1>9. Len(p) \in Nat \ {0} /\ DOMAIN p = 1 .. Len(p) /\ \A j \in 1 .. Len(p) : p[j] = <<p[j][1], p[j][2]>> /\ p[j][1] \in Int /\ p[j][2] \in Int
  <2>1. p \in Seq(Int \X Int) /\ p # <<>>
    BY <1>8 DEF Places
  <2>2. \A j \in 1 .. Len(p) : p[j] \in Int \X Int
    BY <2>1
  <2>3. Len(p) \in Nat \ {0} /\ DOMAIN p = 1 .. Len(p)
    BY <2>1
  <2> QED
    BY <2>2, <2>3
<1>10. Bounded(p) /\ \A j \in DOMAIN fs : fs[j].index < k => PlacedIn(s, k, fs[j], j)
  BY <1>4, <1>7 DEF Placed, p
<1>11. ASSUME NEW j \in DOMAIN fs, fs[j].index < k
       PROVE  j \in DOMAIN p /\ j + 1 \in DOMAIN p /\ p[j][1] = fs[j].at /\ q[j] = <<fs[j].at, -fs[j].arg>>
  BY <1>5, <1>6, <1>9, <1>10, <1>11 DEF PlacedIn, p
\* Frames around a frame around k: no mark of theirs comes after k.
<1>12. ASSUME NEW j \in DOMAIN fs, NEW i \in DOMAIN fs, i < j, fs[j].index < k
       PROVE  p[i] = q[i]
  <2>1. /\ fs[i].index \in Nat /\ fs[j].index \in Nat /\ fs[i].arg \in Int
        /\ (IsCall(fs[i]) /\ Opens(fs[i]) = 1) \/ (~IsCall(fs[i]) /\ Opens(fs[i]) = 0)
        /\ (IsCall(fs[j]) /\ Opens(fs[j]) = 1) \/ (~IsCall(fs[j]) /\ Opens(fs[j]) = 0)
    BY FrameType
  <2>2. StackedAt(s, fs, i) /\ StackedAt(s, fs, j)
    BY <1>4 DEF Stacked
  <2>3. fs[i].index + Opens(fs[i]) <= fs[j].index
    BY <1>12, <2>2, Zenon DEF StackedAt
  <2>4. fs[i].index < k
    BY <1>7, <1>12, <2>1, <2>3
  <2>5. PlacedIn(s, k, fs[i], i) /\ p[i] = <<p[i][1], p[i][2]>> /\ p[i][1] = fs[i].at /\ q[i] = <<fs[i].at, -fs[i].arg>>
    BY <1>9, <1>10, <1>11, <2>4
  <2>6. CASE ~IsCall(fs[i])
    <3>1. p[i][2] = -NoArg /\ fs[i].arg = NoArg
      BY <2>2, <2>5, <2>6 DEF PlacedIn, StackedAt, p
    <3> QED
      BY <2>5, <3>1
  <2>7. CASE IsCall(fs[i])
    <3> DEFINE a == fs[i].index + 1
    <3>1. PICK x \in DOMAIN s : LastMark(s, a, k, x) /\ p[i][2] = -ArgAt(s, x)
      BY <2>5, <2>7 DEF PlacedIn, p
    <3>2. Taken(s, fs[i])
      BY <1>4, <2>7 DEF Parsed
    <3>3. x \in MarksTo(s, a, Len(s)) /\ x \in a .. k
      BY <1>1, <1>7, <3>1 DEF LastMark, MarksTo
    <3>4. PICK y \in DOMAIN s : LastMark(s, a, Len(s), y) /\ ArgAt(s, y) = fs[i].arg
      BY <3>2, <3>3 DEF Taken, ArgsTo
    <3>5. y \in a .. Len(s) /\ IsMark(s, y) /\ Depth(s, y) = Depth(s, a)
      BY <3>4 DEF LastMark, MarksTo
    <3>6. /\ Depth(s, a) = Depth(s, fs[i].index) + 1 /\ Depth(s, fs[i].index) \in Int
          /\ \A z \in a .. Len(s) : Depth(s, z) \in Int /\ Depth(s, z) >= Depth(s, fs[i].index) + 1
      BY <1>1, <1>4, <2>7, CallFacts
    <3>7. y <= k
      <4> SUFFICES ASSUME k < y PROVE FALSE
        BY <1>7, <3>5
      <4>1. y \in fs[j].index + 1 .. Len(s)
        BY <1>1, <1>7, <1>12, <2>1, <3>5
      <4>2. /\ Depth(s, y) >= Depth(s, fs[j].index) + Opens(fs[j])
            /\ ~IsCall(fs[j]) => Depth(s, y) > Depth(s, fs[j].index)
        BY <2>2, <3>5, <4>1, Zenon DEF StackedAt
      <4>3. fs[j].index \in a .. Len(s)
        BY <1>1, <2>1, <2>2, <2>3, <2>7 DEF StackedAt
      <4>4. Depth(s, fs[j].index) \in Int /\ Depth(s, fs[j].index) >= Depth(s, fs[i].index) + 1
        BY <3>6, <4>3
      <4> QED
        BY <2>1, <3>5, <3>6, <4>2, <4>4
    <3>8. y \in MarksTo(s, a, k)
      <4>1. y \in a .. k
        BY <1>7, <2>1, <3>5, <3>7
      <4> QED
        BY <3>5, <4>1 DEF MarksTo
    <3>9. y <= x /\ x <= y
      BY <3>1, <3>3, <3>4, <3>8 DEF LastMark
    <3>10. x = y
      BY <1>1, <3>3, <3>5, <3>9
    <3> QED
      BY <2>5, <3>1, <3>4, <3>10
  <2> QED
    BY <2>6, <2>7
\* The first frame that k is not in, or the line itself
<1> DEFINE H == {h \in 1 .. Len(fs) + 1 : h \in DOMAIN fs => k <= fs[h].index}
<1>13. PICK h \in H : \A i \in H : h <= i
  <2>1. H \in SUBSET Nat /\ Len(fs) + 1 \in H
    BY <1>6
  <2> QED
    BY <2>1, Least
<1>14. h \in 1 .. Len(fs) + 1 /\ \A i \in 1 .. h - 1 : i \in DOMAIN fs /\ fs[i].index < k
  <2>1. h \in 1 .. Len(fs) + 1
    BY <1>13
  <2>2. ASSUME NEW i \in 1 .. h - 1 PROVE i \in DOMAIN fs /\ fs[i].index < k
    <3>1. i \in DOMAIN fs /\ i \in 1 .. Len(fs) + 1 /\ ~(h <= i)
      BY <1>6, <2>1
    <3>2. i \notin H
      BY <1>13, <3>1
    <3>3. fs[i].index \in Nat
      BY <3>1, FrameType
    <3> QED
      BY <1>7, <3>1, <3>2, <3>3
  <2> QED
    BY <2>1, <2>2
<1>15. h \in DOMAIN p /\ h \in DOMAIN q /\ p[h][1] < q[h][1]
  <2>1. h \in DOMAIN q /\ h \in Nat
    BY <1>5, <1>6, <1>14
  <2>2. h \in DOMAIN p
    <3>1. CASE h = 1
      BY <1>9, <3>1
    <3>2. CASE h # 1
      <4>1. h - 1 \in DOMAIN fs /\ fs[h - 1].index < k /\ (h - 1) + 1 = h
        BY <1>14, <3>2
      <4> QED
        BY <1>11, <4>1
    <3> QED
      BY <3>1, <3>2
  <2>3. p[h][1] <= Line(p) /\ p[h][1] \in Int
    BY <1>9, <1>10, <2>2 DEF Bounded
  <2>4. Line(p) \in Int
    <3>1. Len(p) \in 1 .. Len(p)
      BY <1>9
    <3> QED
      BY <1>9, <3>1 DEF Line, Last
  <2>5. Line(p) < m
    BY <1>7 DEF Numbered, p
  <2>6. CASE h \in DOMAIN fs
    <3>1. k <= fs[h].index
      BY <1>13, <2>6
    <3>2. Line(p) < fs[h].at
      BY <1>7, <2>6, <3>1 DEF Numbered, p
    <3>3. q[h][1] = fs[h].at /\ fs[h].at \in Int
      BY <1>5, <2>6, FrameType
    <3> QED
      BY <2>1, <2>2, <2>3, <2>4, <3>2, <3>3
  <2>7. CASE h \notin DOMAIN fs
    <3>1. h = Len(fs) + 1
      BY <1>6, <1>14, <2>7
    <3>2. q[h][1] = m
      BY <1>5, <3>1
    <3> QED
      BY <2>1, <2>2, <2>3, <2>4, <2>5, <3>2
  <2> QED
    BY <2>6, <2>7
<1>16. \A i \in 1 .. h - 2 : p[i] = q[i]
  <2> SUFFICES ASSUME NEW i \in 1 .. h - 2 PROVE p[i] = q[i]
    OBVIOUS
  <2>1. h - 1 \in 1 .. h - 1 /\ i \in 1 .. h - 1 /\ i < h - 1
    BY <1>14
  <2>2. h - 1 \in DOMAIN fs /\ i \in DOMAIN fs /\ fs[h - 1].index < k
    BY <1>14, <2>1
  <2> QED
    BY <1>12, <2>1, <2>2
<1> HIDE DEF H
<1>17. (\A i \in 1 .. h - 1 : p[i] = q[i]) => Before(p, q)
  BY <1>5, <1>8, <1>15, FirstBefore
<1>18. ASSUME NEW g \in DOMAIN fs, fs[g].index < k, p[g] # q[g]
       PROVE  /\ g = h - 1 /\ IsCall(fs[g])
              /\ p[g][2] > q[g][2] => Before(q, p)
              /\ p[g][2] < q[g][2] => Before(p, q)
  <2>1. g <= h - 1
    <3> SUFFICES ASSUME g > h - 1 PROVE FALSE
      BY <1>6, <1>14
    <3>1. g >= h /\ h \in DOMAIN fs
      BY <1>6, <1>14
    <3>2. k <= fs[h].index
      BY <1>13, <3>1 DEF H
    <3>3. g # h
      BY <1>18, <3>2, <3>1, <1>7, FrameType
    <3>4. StackedAt(s, fs, h) /\ g > h
      BY <1>4, <1>6, <3>1, <3>3 DEF Stacked
    <3>5. fs[h].index + Opens(fs[h]) <= fs[g].index
      BY <3>4, Zenon DEF StackedAt
    <3>6. /\ fs[h].index \in Nat /\ fs[g].index \in Nat /\ Opens(fs[h]) \in Nat
      BY <3>1, FrameType
    <3> QED
      BY <1>7, <1>18, <3>2, <3>5, <3>6
  <2>2. g = h - 1
    <3>1. g \in 1 .. h - 2 \/ g = h - 1
      BY <1>6, <1>14, <2>1
    <3> QED
      BY <1>16, <1>18, <3>1
  <2>3. IsCall(fs[g])
    <3> SUFFICES ASSUME ~IsCall(fs[g]) PROVE FALSE
      OBVIOUS
    <3>1. StackedAt(s, fs, g)
      BY <1>4 DEF Stacked
    <3>2. p[g][2] = -NoArg /\ fs[g].arg = NoArg
      BY <1>10, <1>18, <3>1 DEF PlacedIn, StackedAt, p
    <3>3. p[g] = <<p[g][1], p[g][2]>> /\ p[g][1] = fs[g].at /\ q[g] = <<fs[g].at, -fs[g].arg>>
      BY <1>9, <1>11, <1>18
    <3> QED
      BY <1>18, <3>2, <3>3
  <2>4. \A i \in 1 .. g - 1 : p[i] = q[i]
    <3>1. \A i \in 1 .. g - 1 : i \in 1 .. h - 2
      BY <1>6, <1>14, <2>2
    <3> QED
      BY <1>16, <3>1
  <2>5. g \in DOMAIN p /\ g \in DOMAIN q /\ p[g][1] = q[g][1]
    BY <1>5, <1>6, <1>11, <1>18
  <2>6. p[g][2] \in Int /\ q[g][2] \in Int
    <3>1. fs[g].arg \in Int /\ q[g] = <<fs[g].at, -fs[g].arg>>
      BY <1>5, FrameType
    <3> QED
      BY <1>9, <2>5, <3>1
  <2>7. p[g][2] > q[g][2] => Before(q, p)
    BY <1>5, <1>8, <2>4, <2>5, <2>6, FirstBefore
  <2>8. p[g][2] < q[g][2] => Before(p, q)
    BY <1>5, <1>8, <2>4, <2>5, <2>6, FirstBefore
  <2> QED
    BY <2>2, <2>3, <2>7, <2>8
\* What a frame around k says of k and of the new line
<1>19. ASSUME NEW g \in DOMAIN fs, IsCall(fs[g]), NEW x \in Int, LastMark(s, fs[g].index + 1, k, x)
       PROVE  p[g][2] = -ArgAt(s, x) /\ q[g][2] = -fs[g].arg /\ fs[g].index < k /\ ArgAt(s, x) \in Int /\ fs[g].arg \in Int
              /\ x \in fs[g].index + 1 .. k /\ IsMark(s, x)
  <2>1. x \in fs[g].index + 1 .. k /\ IsMark(s, x)
    BY <1>19 DEF LastMark, MarksTo
  <2>2. fs[g].index \in Nat /\ fs[g].arg \in Int
    BY FrameType
  <2>3. fs[g].index < k /\ x \in 1 .. Len(s)
    BY <1>7, <2>1, <2>2
  <2>4. PICK z \in DOMAIN s : LastMark(s, fs[g].index + 1, k, z) /\ p[g][2] = -ArgAt(s, z)
    BY <1>10, <1>19, <2>3 DEF PlacedIn, p
  <2>5. z \in Int /\ z <= x /\ x <= z
    BY <1>1, <1>19, <2>4 DEF LastMark
  <2>6. z = x
    BY <2>5
  <2>7. ArgAt(s, x) \in Int
    BY <1>1, <2>1, <2>3, TokenKinds
  <2> QED
    BY <1>11, <2>1, <2>2, <2>3, <2>4, <2>6, <2>7
<1>20. ASSUME SameArgument(t, k, l) PROVE Before(p, q)
  <2> SUFFICES ASSUME NEW g \in 1 .. h - 1, p[g] # q[g] PROVE FALSE
    BY <1>17
  <2>1. g \in DOMAIN fs /\ fs[g].index < k
    BY <1>14
  <2>2. IsCall(fs[g])
    BY <1>18, <2>1
  <2> DEFINE a == fs[g].index + 1
  <2>3. PICK x \in DOMAIN s : LastMark(s, a, k, x)
    BY <1>10, <2>1, <2>2 DEF PlacedIn
  <2>4. p[g][2] = -ArgAt(s, x) /\ q[g][2] = -fs[g].arg /\ x \in a .. k /\ IsMark(s, x)
    BY <1>1, <1>19, <2>1, <2>2, <2>3
  <2>5. /\ Depth(s, fs[g].index) \in Int /\ Depth(s, a) = Depth(s, fs[g].index) + 1
        /\ \A z \in a .. Len(s) : Depth(s, z) \in Int /\ Depth(s, z) >= Depth(s, fs[g].index) + 1
        /\ fs[g].index \in Nat
    BY <1>1, <1>4, <2>1, <2>2, CallFacts, FrameType
  <2>6. x \in MarksTo(s, a, Len(s))
    BY <1>1, <1>7, <2>3 DEF LastMark, MarksTo
  <2>7. Taken(s, fs[g])
    BY <1>4, <2>1, <2>2 DEF Parsed
  <2>8. PICK y \in DOMAIN s : LastMark(s, a, Len(s), y) /\ ArgAt(s, y) = fs[g].arg
    BY <2>6, <2>7 DEF Taken, ArgsTo
  <2>9. y # x
    <3>1. p[g] = <<p[g][1], p[g][2]>> /\ p[g][1] = fs[g].at /\ q[g] = <<fs[g].at, -fs[g].arg>>
      BY <1>9, <1>11, <2>1
    <3> QED
      BY <2>4, <2>8, <3>1
  <2>10. x <= y /\ y \in a .. Len(s) /\ IsMark(s, y) /\ Depth(s, y) = Depth(s, a)
    BY <2>6, <2>8 DEF LastMark, MarksTo
  <2>11. y > k
    <3> SUFFICES ASSUME y <= k PROVE FALSE
      BY <1>7, <2>10
    <3>1. y \in MarksTo(s, a, k)
      BY <1>7, <2>10 DEF MarksTo
    <3> QED
      BY <2>3, <2>4, <2>9, <2>10, <3>1 DEF LastMark
  <2>12. PICK b \in Int : /\ \A j \in k .. l : Depth(t, j) >= b /\ (IsMark(t, j) => Depth(t, j) > b)
                          /\ \E j \in k .. l : Depth(t, j) = b
    BY <1>20 DEF SameArgument
  <2>13. y \in k .. l /\ y \in 1 .. l - 1 /\ y \in 0 .. l - 1
    BY <1>1, <1>7, <2>10, <2>11
  <2>14. Depth(s, a) > b
    BY <1>1, <1>3, <2>10, <2>12, <2>13
  <2>15. PICK j \in k .. l : Depth(t, j) = b
    BY <2>12
  <2>16. Depth(t, j) >= Depth(s, a)
    <3>1. CASE j = l
      <4>1. l - 1 \in a .. Len(s)
        BY <1>1, <1>7, <2>1, <2>5
      <4> QED
        BY <1>3, <2>5, <3>1, <4>1
    <3>2. CASE j # l
      <4>1. j \in a .. Len(s) /\ j \in 0 .. l - 1
        BY <1>1, <1>7, <2>1, <2>5, <3>2
      <4> QED
        BY <1>3, <2>5, <4>1
    <3> QED
      BY <3>1, <3>2
  <2> QED
    BY <2>5, <2>14, <2>15, <2>16
<1>21. ASSUME NEW x \in 1 .. l, NEW y \in 1 .. l, Arguments(t, x, k, y, l)
       PROVE  /\ ArgAt(t, x) > ArgAt(t, y) => Before(p, q)
              /\ ArgAt(t, x) < ArgAt(t, y) => Before(q, p)
  <2>1. /\ k < y /\ Depth(t, x) = Depth(t, y) /\ \A j \in x .. l : Depth(t, j) >= Depth(t, x)
        /\ x < k /\ IsMark(t, x)
        /\ \A j \in x + 1 .. k : IsMark(t, j) => Depth(t, j) > Depth(t, x)
        /\ y < l /\ IsMark(t, y)
        /\ \A j \in y + 1 .. l : IsMark(t, j) => Depth(t, j) > Depth(t, y)
    BY <1>21 DEF Arguments, InArgumentOf
  <2>2. x \in 1 .. l - 1 /\ y \in 1 .. l - 1 /\ x \in 0 .. l - 1 /\ y \in 0 .. l - 1 /\ x \in x .. l
    BY <1>1, <2>1
  <2> DEFINE d == Depth(s, x)
  <2>3. /\ d \in Int /\ Depth(s, y) = d /\ \A j \in x .. l - 1 : Depth(s, j) >= d /\ j \in 1 .. l - 1
        /\ IsMark(s, x) /\ IsMark(s, y) /\ ArgAt(s, x) = ArgAt(t, x) /\ ArgAt(s, y) = ArgAt(t, y)
    <3>1. \A j \in x .. l - 1 : j \in x .. l /\ j \in 0 .. l - 1 /\ j \in 1 .. l - 1
      BY <1>1, <2>2
    <3> QED
      BY <1>1, <1>3, <2>1, <2>2, <3>1
  <2>4. d \in Nat \ {0} /\ d <= Depth(s, Len(s))
    <3>1. SoundAt(s, x)
      BY <1>1, <2>2 DEF Good, Sound
    <3>2. d >= 1
      BY <2>3, <3>1 DEF SoundAt, NestedAt
    <3>3. l - 1 \in x .. l - 1
      BY <1>1, <2>2
    <3> QED
      BY <1>1, <2>3, <3>2, <3>3
  <2>5. PICK g \in DOMAIN fs : IsCall(fs[g]) /\ Depth(s, fs[g].index) = d - 1
    BY <1>1, <1>4, <2>4, FrameAt, Zenon
  <2> DEFINE a == fs[g].index + 1
  <2>6. fs[g].index \in Nat /\ a \in 1 .. Len(s) /\ Depth(s, a) = d
        /\ \A z \in a .. Len(s) : Depth(s, z) \in Int /\ Depth(s, z) >= d
    BY <1>1, <1>4, <2>3, <2>5, CallFacts, FrameType
  <2>7. a <= x
    <3> SUFFICES ASSUME x <= fs[g].index PROVE FALSE
      BY <2>2, <2>6
    <3>1. fs[g].index \in x .. l - 1
      BY <1>1, <2>2, <2>6
    <3> QED
      BY <2>3, <2>5, <3>1
  <2>8. LastMark(s, a, k, x)
    <3>1. x \in MarksTo(s, a, k)
      <4>1. x \in a .. k
        BY <1>7, <2>1, <2>2, <2>6, <2>7
      <4> QED
        BY <2>3, <2>6, <4>1 DEF MarksTo
    <3>2. ASSUME NEW z \in MarksTo(s, a, k) PROVE z <= x
      <4> SUFFICES ASSUME z > x PROVE FALSE
        BY <2>2, <2>6 DEF MarksTo
      <4>1. z \in a .. k /\ IsMark(s, z) /\ Depth(s, z) = d
        BY <2>6 DEF MarksTo
      <4>2. z \in x + 1 .. k /\ z \in 1 .. l - 1 /\ z \in 0 .. l - 1
        BY <1>1, <1>7, <2>2, <2>6, <4>1
      <4> QED
        BY <1>1, <1>3, <2>1, <2>2, <2>3, <4>1, <4>2
    <3> QED
      BY <3>1, <3>2 DEF LastMark
  <2>9. LastMark(s, a, Len(s), y)
    <3>1. y \in MarksTo(s, a, Len(s))
      <4>1. y \in a .. Len(s)
        BY <1>1, <2>1, <2>2, <2>6, <2>7
      <4> QED
        BY <2>3, <2>6, <4>1 DEF MarksTo
    <3>2. ASSUME NEW z \in MarksTo(s, a, Len(s)) PROVE z <= y
      <4> SUFFICES ASSUME z > y PROVE FALSE
        BY <2>2, <2>6 DEF MarksTo
      <4>1. z \in a .. Len(s) /\ IsMark(s, z) /\ Depth(s, z) = d
        BY <2>6 DEF MarksTo
      <4>2. z \in y + 1 .. l /\ z \in 1 .. l - 1 /\ z \in 0 .. l - 1
        BY <1>1, <2>2, <2>6, <4>1
      <4> QED
        BY <1>1, <1>3, <2>1, <2>2, <2>3, <4>1, <4>2
    <3> QED
      BY <3>1, <3>2 DEF LastMark
  <2>10. fs[g].arg = ArgAt(s, y)
    BY <1>1, <1>4, <2>2, <2>5, <2>9, LastArgument
  <2>11. p[g][2] = -ArgAt(s, x) /\ q[g][2] = -ArgAt(s, y) /\ fs[g].index < k /\ ArgAt(s, x) \in Int /\ ArgAt(s, y) \in Int
    BY <1>19, <2>2, <2>5, <2>8, <2>10
  <2> QED
    BY <1>18, <2>3, <2>11
<1> QED
  BY <1>2, <1>7, <1>20, <1>21

(* Only the last open call can be closed by the next sENDREORDER.          *)
LEMMA ClosesAtEnd ==
  ASSUME NEW s \in Seq(Tokens), NEW a \in 1 .. Len(s), NEW c \in 1 .. Len(s), Closes(s, a, c)
  PROVE  s[c] = End /\ a < c
<1>1. s[a] = Start /\ a <= c /\ Depth(s, c) = Depth(s, a - 1) /\ \A j \in a .. c - 1 : Depth(s, j) > Depth(s, a - 1)
  BY DEF Closes
<1>2. /\ Depth(s, a) = Depth(s, a - 1) + 1
      /\ Depth(s, a) \in Int /\ Depth(s, a - 1) \in Int /\ Depth(s, c) \in Int /\ Depth(s, c - 1) \in Int
  BY <1>1, DepthStep, DepthType
<1>3. a # c
  BY <1>1, <1>2
<1>4. Depth(s, c) < Depth(s, c - 1)
  <2>1. c - 1 \in a .. c - 1
    BY <1>1, <1>3
  <2> QED
    BY <1>1, <1>2, <2>1
<1>5. s[c] = End
  BY <1>2, <1>4, DepthStep, TokenKinds
<1> QED
  BY <1>1, <1>3, <1>5

LEMMA DepthNat ==
  ASSUME NEW s \in Seq(Tokens), Sound(s), NEW k \in 0 .. Len(s)
  PROVE  Depth(s, k) \in Nat
<1>1. CASE k = 0
  BY <1>1, DepthZero
<1>2. CASE k # 0
  <2>1. k \in DOMAIN s
    BY <1>2
  <2>2. Depth(s, k) >= 0 /\ Depth(s, k) \in Int
    BY <2>1, DepthType DEF Sound, SoundAt, NestedAt
  <2> QED
    BY <2>2
<1> QED
  BY <1>1, <1>2

(* What the place of a line says of a frame stays true.                     *)
LEMMA PlacedInSame ==
  ASSUME NEW s \in Seq(Tokens), NEW t \in Seq(Tokens), NEW m, Same(s, t, m), NEW k \in 1 .. m, NEW j \in Nat,
         NEW f \in Frames, NEW g, SameFrame(f, g), PlacedIn(s, k, f, j)
  PROVE  PlacedIn(t, k, g, j)
<1>1. m \in Nat /\ m <= Len(t) /\ t[k] = s[k] /\ DOMAIN t = 1 .. Len(t) /\ Len(t) \in Nat
      /\ \A i \in 1 .. m : ArgAt(t, i) = ArgAt(s, i)
  BY SameTokens DEF Same
<1>2. f.index = g.index /\ f.at = g.at /\ (IsCall(f) <=> IsCall(g)) /\ f.index + 1 \in Nat \ {0}
  BY DEF SameFrame, IsCall, Frames
<1>3. CASE ~IsCall(f)
  BY <1>1, <1>2, <1>3 DEF PlacedIn
<1>4. CASE IsCall(f)
  <2>1. PICK x \in DOMAIN s : LastMark(s, f.index + 1, k, x) /\ s[k].at[j][2] = -ArgAt(s, x)
    BY <1>4 DEF PlacedIn
  <2>2. LastMark(t, f.index + 1, k, x)
    BY <1>1, <1>2, <2>1, SameMarks
  <2>3. x \in 1 .. m
    BY <1>1, <1>2, <2>1 DEF LastMark, MarksTo
  <2>4. x \in DOMAIN t /\ ArgAt(t, x) = ArgAt(s, x)
    BY <1>1, <2>3
  <2> QED
    BY <1>1, <1>2, <1>4, <2>1, <2>2, <2>4 DEF PlacedIn
<1> QED
  BY <1>3, <1>4

(* A token that is no line, or a mark, keeps the places.                   *)
LEMMA PlacedKeeps ==
  ASSUME NEW s, NEW e, NEW t, NEW l, Appended(s, e, t, l), NEW fs \in Seq(Frames), NEW gs, SameStack(fs, gs),
         DOMAIN fs = DOMAIN gs, Placed(s, fs), NEW k \in 1 .. l - 1, IsCode(t, k)
  PROVE  Bounded(t[k].at) /\ \A j \in DOMAIN gs : gs[j].index < k => PlacedIn(t, k, gs[j], j)
<1>1. t[k] = s[k] /\ IsCode(s, k) /\ k \in DOMAIN s
  BY AppendedTokens
<1>2. ASSUME NEW j \in DOMAIN fs, gs[j].index < k PROVE PlacedIn(t, k, gs[j], j)
  <2>1. SameFrame(fs[j], gs[j]) /\ fs[j].index < k /\ fs[j] \in Frames /\ j \in Nat
    BY <1>2 DEF SameStack, SameFrame
  <2>2. PlacedIn(s, k, fs[j], j)
    BY <1>1, <2>1 DEF Placed
  <2> QED
    BY <2>1, <2>2, AppendedTokens, PlacedInSame
<1> QED
  BY <1>1, <1>2 DEF Placed

LEMMA NumberedKeeps ==
  ASSUME NEW s, NEW e, NEW t, NEW l, Appended(s, e, t, l), NEW fs \in Seq(Frames), NEW gs, SameStack(fs, gs),
         DOMAIN fs = DOMAIN gs, \A j \in DOMAIN fs : fs[j].index <= Len(s), NEW m \in Nat, NEW m2 \in Nat, m <= m2, Numbered(s, fs, m),
         IsCode(t, l) => m \in Nat /\ Line(t[l].at) = m /\ m2 > m
  PROVE  Numbered(t, gs, m2)
<1>1. /\ l \in Nat \ {0} /\ Len(s) = l - 1 /\ DOMAIN s = 1 .. l - 1 /\ DOMAIN t = 1 .. l /\ s \in Seq(Tokens)
      /\ \A k \in 1 .. l - 1 : t[k] = s[k] /\ (IsCode(t, k) <=> IsCode(s, k))
  BY AppendedTokens
<1>2. ASSUME NEW k \in 1 .. l - 1, IsCode(s, k) PROVE Line(s[k].at) \in Int
  <2>1. s[k].at \in Seq(Int \X Int) /\ s[k].at # <<>>
    BY <1>1, <1>2, TokenKinds DEF Places
  <2>2. Len(s[k].at) \in 1 .. Len(s[k].at)
    BY <2>1
  <2>3. s[k].at[Len(s[k].at)] \in Int \X Int
    BY <2>1, <2>2
  <2> QED
    BY <2>3 DEF Line, Last
<1>3. \A k \in DOMAIN t : IsCode(t, k) => Line(t[k].at) < m2
  <2> SUFFICES ASSUME NEW k \in 1 .. l, IsCode(t, k) PROVE Line(t[k].at) < m2
    BY <1>1
  <2>1. CASE k = l
    BY <2>1
  <2>2. CASE k # l
    <3>1. k \in 1 .. l - 1
      BY <1>1, <2>2
    <3>2. IsCode(s, k) /\ t[k] = s[k] /\ Line(s[k].at) < m
      BY <1>1, <3>1 DEF Numbered
    <3> QED
      BY <1>2, <3>1, <3>2
  <2> QED
    BY <2>1, <2>2
<1>4. ASSUME NEW j \in DOMAIN fs
      PROVE  /\ gs[j].at <= m2
             /\ \A k \in DOMAIN t : IsCode(t, k) => (Line(t[k].at) < gs[j].at <=> k <= gs[j].index)
  <2>1. gs[j].at = fs[j].at /\ gs[j].index = fs[j].index /\ fs[j].at \in Nat
    BY FrameType DEF SameStack, SameFrame
  <2>2. fs[j].at <= m /\ \A k \in DOMAIN s : IsCode(s, k) => (Line(s[k].at) < fs[j].at <=> k <= fs[j].index)
    BY DEF Numbered
  <2> SUFFICES ASSUME NEW k \in 1 .. l, IsCode(t, k) PROVE Line(t[k].at) < fs[j].at <=> k <= fs[j].index
    BY <1>1, <2>1, <2>2
  <2>3. CASE k = l
    <3>1. fs[j].index \in Nat /\ fs[j].index <= l - 1
      BY <1>1, FrameType
    <3> QED
      BY <1>1, <2>1, <2>2, <2>3, <3>1
  <2>4. CASE k # l
    <3>1. k \in 1 .. l - 1
      BY <1>1, <2>4
    <3> QED
      BY <1>1, <2>2, <3>1
  <2> QED
    BY <2>3, <2>4
<1> QED
  BY <1>3, <1>4 DEF Numbered

-----------------------------------------------------------------------------
(***************************************************************************)
(* A line                                                                   *)
(***************************************************************************)
LEMMA GoodLine ==
  ASSUME NEW s, NEW fs \in Seq(Frames), NEW m \in Nat, NEW t, NEW l, Appended(s, Code(Place(fs, m)), t, l),
         Good(s, fs), AllInside(fs), Numbered(s, fs, m)
  PROVE  Good(t, fs) /\ Numbered(t, fs, m + 1)
<1>1. /\ l \in Nat \ {0} /\ Len(s) = l - 1 /\ Len(t) = l /\ s \in Seq(Tokens) /\ t \in Seq(Tokens)
      /\ t[l] = Code(Place(fs, m)) /\ DOMAIN s = 1 .. l - 1 /\ DOMAIN t = 1 .. l
      /\ \A k \in 1 .. l - 1 : t[k] = s[k]
  BY AppendedTokens
<1>2. IsCode(t, l) /\ t[l].at = Place(fs, m)
  BY <1>1 DEF IsCode, Code
<1>3. l \in 1 .. Len(t) /\ ~IsMark(t, l) /\ t[l] # End
  <2>1. l \in 1 .. Len(t)
    BY <1>1
  <2> QED
    BY <1>1, <1>2, <2>1, TokenKinds
<1>4. Stacked(s, fs) /\ Parsed(s, fs) /\ Placed(s, fs) /\ Sound(s)
  BY DEF Good
<1>5. SameStack(fs, fs)
  BY DEF SameStack, SameFrame
<1>6. Stacked(t, fs)
  BY <1>2, <1>4, <1>5, StackedToken
<1>7. Sound(t)
  <2>1. NestedAt(t, l)
    <3>1. Depth(t, l) >= 0
      <4>1. Depth(t, l) = Depth(s, l - 1)
        BY <1>2, AppendedDepth
      <4>2. l - 1 \in 0 .. Len(s)
        BY <1>1
      <4>3. Depth(s, l - 1) \in Nat
        BY <1>1, <1>4, <4>2, DepthNat
      <4> QED
        BY <4>1, <4>3
    <3>2. l > 1 => t[l - 1] # Start
      <4>1. l > 1 => s # <<>> /\ l - 1 \in 1 .. l - 1
        BY <1>1
      <4>2. s # <<>> => s[l - 1] # Start
        BY <1>1, <1>4, NotAfterStart
      <4> QED
        BY <1>1, <4>1, <4>2
    <3> QED
      BY <1>3, <3>1, <3>2 DEF NestedAt
  <2>2. ReplacedAt(t, l)
    BY <1>3 DEF ReplacedAt
  <2>3. CompleteAt(t, l)
    BY <1>1, <1>3, ClosesAtEnd DEF CompleteAt
  <2>4. OrderedAt(t, l)
    BY LineOrdered
  <2> QED
    BY <1>4, <2>1, <2>2, <2>3, <2>4, AppendedSound DEF SoundAt
<1>8. Parsed(t, fs)
  <2>1. ASSUME NEW j \in DOMAIN fs, IsCall(fs[j]) PROVE Taken(t, fs[j])
    <3>1. Taken(s, fs[j]) /\ Inside(fs[j]) /\ fs[j] \in Frames
      BY <1>4, <2>1 DEF Parsed, AllInside
    <3>2. fs[j].index + 1 <= Len(s)
      BY <1>1, <1>4, <2>1, CallFacts
    <3> QED
      BY <1>3, <2>1, <3>1, <3>2, TakenKeeps
  <2> QED
    BY <2>1 DEF Parsed, AllInside
<1>9. Placed(t, fs)
  <2>1. /\ Place(fs, m) \in Places /\ Len(Place(fs, m)) = Len(fs) + 1 /\ Line(Place(fs, m)) = m
        /\ DOMAIN Place(fs, m) = 1 .. Len(fs) + 1 /\ Place(fs, m)[Len(fs) + 1] = <<m, 0>>
        /\ \A j \in DOMAIN fs : Place(fs, m)[j] = <<fs[j].at, -fs[j].arg>>
    BY PlaceType
  <2>2. Bounded(Place(fs, m))
    <3> SUFFICES ASSUME NEW h \in 1 .. Len(fs) + 1 PROVE Place(fs, m)[h][1] <= m
      BY <2>1 DEF Bounded
    <3>1. CASE h = Len(fs) + 1
      BY <2>1, <3>1
    <3>2. CASE h # Len(fs) + 1
      <4>1. h \in DOMAIN fs
        BY <3>2
      <4>2. fs[h].at <= m
        BY <4>1 DEF Numbered
      <4> QED
        BY <2>1, <4>1, <4>2
    <3> QED
      BY <3>1, <3>2
  <2>3. ASSUME NEW j \in DOMAIN fs PROVE PlacedIn(t, l, fs[j], j)
    <3>1. Len(Place(fs, m)) > j /\ Place(fs, m)[j] = <<fs[j].at, -fs[j].arg>>
      BY <2>1
    <3>2. CASE ~IsCall(fs[j])
      <4>1. fs[j].arg = NoArg
        BY <1>4, <3>2 DEF Stacked, StackedAt
      <4> QED
        BY <1>2, <3>1, <3>2, <4>1 DEF PlacedIn
    <3>3. CASE IsCall(fs[j])
      <4> DEFINE a == fs[j].index + 1
      <4>1. Taken(t, fs[j]) /\ Inside(fs[j])
        BY <1>8, <3>3 DEF Parsed, AllInside
      <4>2. ArgsTo(t, a, l) # {}
        BY <1>1, <3>3, <4>1, Zenon DEF Taken, Inside
      <4>3. PICK x \in DOMAIN t : LastMark(t, a, l, x) /\ ArgAt(t, x) = fs[j].arg
        BY <1>1, <4>1, <4>2 DEF Taken
      <4> QED
        BY <1>2, <3>1, <3>3, <4>3 DEF PlacedIn
    <3> QED
      BY <3>2, <3>3
  <2> SUFFICES ASSUME NEW k \in 1 .. l, IsCode(t, k)
               PROVE  Bounded(t[k].at) /\ \A j \in DOMAIN fs : fs[j].index < k => PlacedIn(t, k, fs[j], j)
    BY <1>1 DEF Placed
  <2>4. CASE k = l
    BY <1>2, <2>2, <2>3, <2>4
  <2>5. CASE k # l
    <3>1. k \in 1 .. l - 1
      BY <1>1, <2>5
    <3> QED
      BY <1>4, <1>5, <3>1, PlacedKeeps
  <2> QED
    BY <2>4, <2>5
<1>10. Numbered(t, fs, m + 1)
  <2>1. Line(t[l].at) = m /\ m + 1 \in Nat /\ m <= m + 1 /\ m + 1 > m
    BY <1>2, PlaceType
  <2>2. \A j \in DOMAIN fs : fs[j].index <= Len(s)
    BY <1>4 DEF Stacked, StackedAt
  <2> QED
    BY <1>5, <2>1, <2>2, NumberedKeeps
<1> QED
  BY <1>6, <1>7, <1>8, <1>9, <1>10 DEF Good

-----------------------------------------------------------------------------
(***************************************************************************)
(* The mark of an argument                                                  *)
(***************************************************************************)
\* The call f is g when its argument i begins.
Takes(f, g, i) ==
  /\ SameFrame(f, g) /\ g.arg = i /\ g.formals = f.formals
  /\ IF f.kind = "for" THEN g.kind = "for" /\ i = f.arg + 1 /\ i <= 1
     ELSE /\ i \notin f.done /\ g.done \in {f.done, f.done \cup {i}}
          /\ \/ i < f.formals /\ (g.kind = "call" => g.named)
             \/ /\ f.kind = "call" /\ ~f.named /\ i = f.nargs /\ f.nargs < sMAXARGS
                /\ g.kind = "call" /\ g.nargs = i + 1

(* A mark keeps the books of its call.                                     *)
LEMMA TakenMark ==
  ASSUME NEW s, NEW i \in Nat, NEW t, NEW l, Appended(s, Arg(i), t, l),
         NEW f \in Frames, NEW g \in Frames, IsCall(f), Takes(f, g, i), Taken(s, f),
         f.index + 1 <= Len(s), Depth(t, l) = Depth(t, f.index + 1)
  PROVE  Taken(t, g)
<1> DEFINE a == f.index + 1
           M == MarksTo(s, a, Len(s))
           I == ArgsTo(s, a, Len(s))
<1>1. /\ l \in Nat \ {0} /\ Len(s) = l - 1 /\ Len(t) = l /\ Same(s, t, l - 1) /\ t[l] = Arg(i)
      /\ DOMAIN s = 1 .. l - 1 /\ DOMAIN t = 1 .. l
      /\ \A k \in 1 .. l - 1 : t[k] = s[k] /\ ArgAt(t, k) = ArgAt(s, k)
  BY AppendedTokens
<1>2. a \in Nat \ {0} /\ a <= l - 1 /\ g.index = f.index /\ f.arg \in Int /\ f.nargs \in Nat /\ f.formals \in Nat
      /\ (f.kind = "for" <=> g.kind = "for") /\ f.kind \in {"call", "defaults", "for"}
  BY <1>1 DEF Frames, IsCall, Takes, SameFrame
<1>3. IsMark(t, l) /\ ArgAt(t, l) = i
  BY <1>1 DEF IsMark, ArgAt, Arg
<1>4. MarksTo(t, a, l) = M \cup {l}
  <2>1. MarksTo(t, a, l - 1) = M
    BY <1>1, <1>2, SameMarks
  <2>2. \A k \in a .. l : k \in a .. l - 1 \/ k = l
    BY <1>1, <1>2
  <2>3. (\A k \in a .. l - 1 : k \in a .. l) /\ l \in a .. l
    BY <1>1, <1>2
  <2> QED
    BY <1>3, <2>1, <2>2, <2>3, Zenon DEF MarksTo
<1>5. \A k \in M : k \in 1 .. l - 1 /\ ArgAt(t, k) = ArgAt(s, k)
  <2>1. \A k \in M : k \in 1 .. l - 1
    BY <1>1, <1>2 DEF MarksTo
  <2> QED
    BY <1>1, <2>1
<1>6. ArgsTo(t, a, l) = I \cup {i}
  BY <1>3, <1>4, <1>5 DEF ArgsTo
<1>7. l \in DOMAIN t /\ LastMark(t, a, l, l) /\ ArgAt(t, l) = g.arg
  <2>1. \A k \in M \cup {l} : k <= l
    BY <1>1, <1>5
  <2> QED
    BY <1>1, <1>3, <1>4, <2>1 DEF LastMark, Takes
<1>8. CASE f.kind = "for"
  <2>1. g.arg = f.arg + 1 /\ g.arg \in {0, 1} /\ i = g.arg
    BY <1>2, <1>8 DEF Takes
  <2>2. I = 0 .. f.arg /\ f.arg \in {NoArg, 0, 1}
    BY <1>8 DEF Taken
  <2>3. 0 .. g.arg = (0 .. f.arg) \cup {g.arg}
    BY <1>2, <2>1, <2>2 DEF NoArg
  <2> HIDE DEF I
  <2>4. ArgsTo(t, a, l) = 0 .. g.arg
    BY <1>6, <2>1, <2>2, <2>3
  <2> QED
    BY <1>1, <1>2, <1>6, <1>7, <1>8, <2>1, <2>4, Zenon DEF Taken
<1>9. CASE f.kind # "for"
  <2>1. /\ f.done \subseteq I /\ f.formals <= MaxFormals
        /\ \A m \in M : ArgAt(s, m) \notin f.done => Stops(s, m + 1)
    BY <1>9 DEF Taken
  <2>2. PICK p \in 0 .. sMAXARGS :
               /\ f.kind = "call" /\ ~f.named => p = f.nargs
               /\ 0 .. p - 1 \subseteq I /\ I \subseteq (0 .. p - 1) \cup (0 .. f.formals - 1)
    BY <1>9, Zenon DEF Taken
  <2>3. /\ i \notin f.done /\ g.done \in {f.done, f.done \cup {i}} /\ g.formals = f.formals
        /\ \/ i < f.formals /\ (g.kind = "call" => g.named)
           \/ /\ f.kind = "call" /\ ~f.named /\ i = f.nargs /\ f.nargs < sMAXARGS
              /\ g.kind = "call" /\ g.nargs = i + 1
    BY <1>9, Zenon DEF Takes
  <2> HIDE DEF I
  <2>4. \E p2 \in 0 .. sMAXARGS :
               /\ g.kind = "call" /\ ~g.named => p2 = g.nargs
               /\ 0 .. p2 - 1 \subseteq I \cup {i} /\ I \cup {i} \subseteq (0 .. p2 - 1) \cup (0 .. f.formals - 1)
    <3>1. CASE i < f.formals /\ (g.kind = "call" => g.named)
      <4>1. i \in 0 .. f.formals - 1
        BY <1>2, <3>1
      <4>2. 0 .. p - 1 \subseteq I \cup {i} /\ I \cup {i} \subseteq (0 .. p - 1) \cup (0 .. f.formals - 1)
        BY <2>2, <4>1
      <4> QED
        BY <3>1, <4>2
    <3>2. CASE /\ f.kind = "call" /\ ~f.named /\ i = f.nargs /\ f.nargs < sMAXARGS
               /\ g.kind = "call" /\ g.nargs = i + 1
      <4>1. p = i /\ sMAXARGS \in Nat
        BY <2>2, <3>2, BoundsAssumption
      <4>2. i + 1 \in 0 .. sMAXARGS /\ 0 .. (i + 1) - 1 = (0 .. p - 1) \cup {i}
        BY <3>2, <4>1
      <4>3. 0 .. (i + 1) - 1 \subseteq I \cup {i} /\ I \cup {i} \subseteq (0 .. (i + 1) - 1) \cup (0 .. f.formals - 1)
        BY <2>2, <4>2
      <4> QED
        BY <3>2, <4>2, <4>3
    <3> QED
      BY <2>3, <3>1, <3>2
  <2>5. g.done \subseteq I \cup {i}
    BY <2>1, <2>3
  <2>6. ASSUME NEW m \in M \cup {l}, ArgAt(t, m) \notin g.done
        PROVE  Stops(t, m + 1)
    <3>1. CASE m = l
      <4>1. m + 1 \notin DOMAIN t
        BY <1>1, <3>1
      <4> QED
        BY <4>1 DEF Stops
    <3>2. CASE m # l
      <4>1. m \in M /\ ArgAt(t, m) = ArgAt(s, m) /\ m \in 1 .. l - 1
        BY <1>5, <2>6, <3>2
      <4>2. ArgAt(s, m) \notin f.done
        BY <2>3, <2>6, <4>1
      <4>3. Stops(s, m + 1)
        BY <2>1, <4>1, <4>2
      <4>4. CASE m + 1 = l
        BY <1>3, <4>4 DEF Stops
      <4>5. CASE m + 1 # l
        <5>1. m + 1 \in 1 .. l - 1
          BY <1>1, <4>1, <4>5
        <5>2. t[m + 1] = s[m + 1] /\ m + 1 \in DOMAIN s
          BY <1>1, <5>1
        <5> QED
          BY <4>3, <5>2 DEF Stops, IsMark
      <4> QED
        BY <4>4, <4>5
    <3> QED
      BY <3>1, <3>2
  <2>7. g.kind # "for" /\ g.formals <= MaxFormals
    BY <1>2, <1>9, <2>1, <2>3
  <2>8. \A m \in MarksTo(t, a, l) : ArgAt(t, m) \notin g.done => Stops(t, m + 1)
    BY <1>4, <2>6
  <2> HIDE DEF M
  <2>9. ArgsTo(t, a, l) # {} /\ ArgsTo(t, a, l) = I \cup {i}
    BY <1>6
  <2> QED
    BY <1>1, <1>2, <1>7, <2>3, <2>4, <2>5, <2>7, <2>8, <2>9, Zenon DEF Taken
<1> QED
  BY <1>8, <1>9

(* stgmark(sEXPRSTART + i) keeps the buffer good.                          *)
LEMMA GoodMark ==
  ASSUME NEW s, NEW i \in Nat, NEW t, NEW l, Appended(s, Arg(i), t, l),
         NEW fs \in Seq(Frames), fs # <<>>, NEW g \in Frames, IsCall(fs[Len(fs)]), Takes(fs[Len(fs)], g, i),
         NEW m \in Nat, Good(s, fs), Numbered(s, fs, m)
  PROVE  LET gs == [fs EXCEPT ![Len(fs)] = g]
         IN  Good(t, gs) /\ Numbered(t, gs, m) /\ gs \in Seq(Frames)
<1> DEFINE j == Len(fs)
           f == fs[j]
           gs == [fs EXCEPT ![j] = g]
           a == f.index + 1
<1>1. /\ l \in Nat \ {0} /\ Len(s) = l - 1 /\ Len(t) = l /\ s \in Seq(Tokens) /\ t \in Seq(Tokens) /\ t[l] = Arg(i)
      /\ DOMAIN s = 1 .. l - 1 /\ DOMAIN t = 1 .. l
      /\ \A k \in 1 .. l - 1 : /\ t[k] = s[k] /\ ArgAt(t, k) = ArgAt(s, k)
                               /\ (IsMark(t, k) <=> IsMark(s, k))
  BY AppendedTokens
<1>2. IsMark(t, l) /\ ArgAt(t, l) = i /\ l \in 1 .. Len(t)
  BY <1>1 DEF IsMark, ArgAt, Arg
<1>3. t[l] # End /\ ~IsCode(t, l)
  BY <1>1, <1>2, TokenKinds
<1>4. j \in DOMAIN fs /\ gs \in Seq(Frames) /\ Len(gs) = Len(fs) /\ DOMAIN gs = DOMAIN fs
      /\ gs[j] = g /\ \A h \in DOMAIN fs : h # j => gs[h] = fs[h]
  BY EmptySeq, ExceptSeq
<1>5. SameStack(fs, gs)
  BY <1>4 DEF SameStack, SameFrame, Takes
<1>6. Stacked(s, fs) /\ Parsed(s, fs) /\ Placed(s, fs) /\ Sound(s)
  BY DEF Good
<1>7. /\ a \in 1 .. l - 1 /\ s[a] = Start /\ Depth(s, f.index) \in Int
      /\ Depth(s, a) = Depth(s, f.index) + 1
      /\ \A k \in a .. l - 1 : Depth(s, k) \in Int /\ Depth(s, k) >= Depth(s, f.index) + 1
  BY <1>1, <1>4, <1>6, CallFacts
<1>8. Depth(t, l) = Depth(s, l - 1) /\ \A k \in 0 .. l - 1 : Depth(t, k) = Depth(s, k) /\ Depth(s, k) \in Int
  BY <1>2, AppendedDepth
<1>9. f \in Frames /\ f.index \in Nat
  BY <1>4, FrameType
<1>10. Depth(t, l) = Depth(s, a) /\ Depth(t, a) = Depth(s, a)
  <2>1. StackedAt(s, fs, j) /\ j + 1 \notin DOMAIN fs /\ Opens(f) = 1
    BY <1>4, <1>6, FrameType DEF Stacked
  <2>2. Depth(s, l - 1) = Depth(s, f.index) + 1
    BY <1>1, <2>1 DEF StackedAt, Base
  <2>3. a \in 0 .. l - 1
    BY <1>1, <1>7
  <2> QED
    BY <1>7, <1>8, <2>2, <2>3
<1> HIDE DEF gs
<1>11. Stacked(t, gs)
  BY <1>2, <1>4, <1>5, <1>6, StackedToken
<1>12. Sound(t)
  <2>1. NestedAt(t, l)
    <3>1. f.index \in 0 .. Len(s)
      BY <1>1, <1>7, <1>9
    <3>2. Depth(s, f.index) \in Nat
      BY <1>1, <1>6, <3>1, DepthNat
    <3>3. Depth(t, l) >= 1 /\ Depth(t, l) >= 0
      BY <1>7, <1>10, <3>2
    <3> QED
      BY <1>2, <3>3 DEF NestedAt, Stops
  <2>2. ReplacedAt(t, l)
    <3> SUFFICES ASSUME NEW x \in 1 .. l - 1, IsMark(t, x), ArgAt(t, x) = i, Depth(t, x) = Depth(t, l),
                        \A k \in x .. l : Depth(t, k) >= Depth(t, x)
                 PROVE  Stops(t, x + 1)
      BY <1>2 DEF ReplacedAt
    <3>1. x \in 0 .. l - 1 /\ IsMark(s, x) /\ ArgAt(s, x) = i /\ Depth(s, x) = Depth(s, a)
      BY <1>1, <1>8, <1>10
    <3>2. a <= x
      <4> SUFFICES ASSUME x <= f.index PROVE FALSE
        BY <1>9, <3>1
      <4>1. f.index \in x .. l /\ f.index \in 0 .. l - 1
        BY <1>1, <1>7, <1>9, <3>1
      <4>2. Depth(t, f.index) >= Depth(t, x)
        BY <4>1
      <4> QED
        BY <1>7, <1>8, <3>1, <4>1, <4>2
    <3>3. x \in MarksTo(s, a, Len(s))
      BY <1>1, <1>9, <3>1, <3>2 DEF MarksTo
    <3>4. Taken(s, f) /\ i \in ArgsTo(s, a, Len(s))
      BY <1>4, <1>6, <3>1, <3>3 DEF Parsed, ArgsTo
    <3>5. f.kind # "for"
      <4> SUFFICES ASSUME f.kind = "for" PROVE FALSE
        OBVIOUS
      <4>1. i \in 0 .. f.arg /\ i = f.arg + 1 /\ f.arg \in {NoArg, 0, 1}
        BY <3>4 DEF Taken, Takes
      <4> QED
        BY <4>1 DEF NoArg
    <3>6. i \notin f.done
      BY <3>5 DEF Takes
    <3>7. Stops(s, x + 1)
      BY <3>1, <3>3, <3>4, <3>5, <3>6 DEF Taken
    <3>8. CASE x + 1 = l
      BY <1>2, <3>8 DEF Stops
    <3>9. CASE x + 1 # l
      <4>1. x + 1 \in 1 .. l - 1
        BY <1>1, <3>9
      <4> QED
        BY <1>1, <3>7, <4>1 DEF Stops
    <3> QED
      BY <3>8, <3>9
  <2>3. CompleteAt(t, l)
    BY <1>1, <1>2, <1>3, ClosesAtEnd DEF CompleteAt
  <2>4. OrderedAt(t, l)
    BY <1>3 DEF OrderedAt
  <2> QED
    BY <1>6, <2>1, <2>2, <2>3, <2>4, AppendedSound DEF SoundAt
<1>13. Parsed(t, gs)
  <2> SUFFICES ASSUME NEW h \in DOMAIN fs
               PROVE  (IsCall(gs[h]) => Taken(t, gs[h])) /\ (h # j => Inside(gs[h]))
    BY <1>4 DEF Parsed
  <2>1. CASE h = j
    <3>1. Taken(s, f) /\ a <= Len(s)
      BY <1>1, <1>4, <1>6, <1>7 DEF Parsed
    <3>2. Taken(t, g)
      BY <1>9, <1>10, <3>1, TakenMark
    <3> QED
      BY <1>4, <2>1, <3>2
  <2>2. CASE h # j
    <3>1. gs[h] = fs[h] /\ Inside(fs[h])
      BY <1>4, <1>6, <2>2 DEF Parsed
    <3>2. ASSUME IsCall(fs[h]) PROVE Taken(t, fs[h])
      <4>1. Taken(s, fs[h]) /\ fs[h] \in Frames /\ fs[h].index \in Nat /\ Opens(fs[h]) = 1
        BY <1>6, <3>2, FrameType DEF Parsed
      <4>2. /\ fs[h].index + 1 \in 1 .. l - 1 /\ Depth(s, fs[h].index) \in Int
            /\ Depth(s, fs[h].index + 1) = Depth(s, fs[h].index) + 1
            /\ \A k \in fs[h].index + 1 .. l - 1 : Depth(s, k) \in Int /\ Depth(s, k) >= Depth(s, fs[h].index) + 1
        BY <1>1, <1>6, <3>2, CallFacts
      <4>3. h < j /\ StackedAt(s, fs, h)
        BY <1>4, <1>6, <2>2 DEF Stacked
      <4>4. fs[h].index + 1 <= f.index
        BY <1>4, <4>1, <4>3 DEF StackedAt
      <4>5. f.index \in fs[h].index + 1 .. l - 1
        BY <1>1, <1>7, <1>9, <4>1, <4>4
      <4>6. Depth(s, f.index) >= Depth(s, fs[h].index) + 1
        BY <4>2, <4>5
      <4>7. Depth(t, fs[h].index + 1) = Depth(s, fs[h].index + 1)
        BY <1>1, <1>8, <4>2
      <4>8. Depth(t, l) # Depth(t, fs[h].index + 1)
        BY <1>7, <1>10, <4>2, <4>6, <4>7
      <4>9. fs[h].index + 1 <= Len(s)
        BY <1>1, <4>2
      <4> QED
        BY <1>2, <3>2, <4>1, <4>8, <4>9, TakenKeeps
    <3> QED
      BY <3>1, <3>2
  <2> QED
    BY <2>1, <2>2
<1>14. Placed(t, gs)
  <2> SUFFICES ASSUME NEW k \in 1 .. l, IsCode(t, k)
               PROVE  Bounded(t[k].at) /\ \A h \in DOMAIN gs : gs[h].index < k => PlacedIn(t, k, gs[h], h)
    BY <1>1 DEF Placed
  <2>1. k \in 1 .. l - 1
    BY <1>1, <1>3
  <2> QED
    BY <1>4, <1>5, <1>6, <2>1, PlacedKeeps
<1>15. Numbered(t, gs, m)
  <2>1. \A h \in DOMAIN fs : fs[h].index <= Len(s)
    BY <1>6 DEF Stacked, StackedAt
  <2>2. m <= m /\ DOMAIN fs = DOMAIN gs
    BY <1>4
  <2> QED
    BY <1>3, <1>5, <2>1, <2>2, NumberedKeeps
<1> QED
  BY <1>4, <1>11, <1>12, <1>13, <1>14, <1>15 DEF Good, gs

-----------------------------------------------------------------------------
(***************************************************************************)
(* A frame is pushed                                                        *)
(***************************************************************************)
LEMMA PushFacts ==
  ASSUME NEW fs \in Seq(Frames), NEW f \in Frames
  PROVE  /\ Append(fs, f) \in Seq(Frames) /\ Len(Append(fs, f)) = Len(fs) + 1 /\ Len(fs) \in Nat
         /\ DOMAIN fs = 1 .. Len(fs) /\ DOMAIN Append(fs, f) = 1 .. Len(fs) + 1
         /\ Append(fs, f)[Len(fs) + 1] = f /\ \A h \in 1 .. Len(fs) : Append(fs, f)[h] = fs[h]
         /\ Append(fs, f) # <<>> /\ Last(Append(fs, f)) = f
<1>1. /\ Append(fs, f) \in Seq(Frames) /\ Len(Append(fs, f)) = Len(fs) + 1 /\ Len(fs) \in Nat
      /\ Append(fs, f)[Len(fs) + 1] = f /\ \A h \in 1 .. Len(fs) : Append(fs, f)[h] = fs[h]
  OBVIOUS
<1>2. DOMAIN fs = 1 .. Len(fs) /\ DOMAIN Append(fs, f) = 1 .. Len(fs) + 1
  BY <1>1
<1>3. Append(fs, f) # <<>>
  BY <1>1
<1> QED
  BY <1>1, <1>2, <1>3 DEF Last

LEMMA EndDepth ==
  ASSUME NEW s \in Seq(Tokens), NEW fs \in Seq(Frames), Stacked(s, fs), NEW j \in DOMAIN fs
  PROVE  /\ fs[j].index \in 0 .. Len(s) /\ Depth(s, fs[j].index) \in Int /\ Depth(s, Len(s)) \in Int
         /\ Depth(s, Len(s)) >= Depth(s, fs[j].index) + Opens(fs[j])
         /\ \A i \in DOMAIN fs : i > j => /\ Depth(s, fs[i].index) \in Int
                                          /\ Depth(s, fs[i].index) >= Depth(s, fs[j].index) + Opens(fs[j])
<1>1. fs[j].index \in Nat /\ ((IsCall(fs[j]) /\ Opens(fs[j]) = 1) \/ (~IsCall(fs[j]) /\ Opens(fs[j]) = 0)) /\ Len(s) \in Nat
  BY FrameType
<1>2. StackedAt(s, fs, j)
  BY DEF Stacked
<1>3. /\ fs[j].index + Opens(fs[j]) <= Len(s) /\ fs[j].index <= Len(s)
      /\ \A i \in DOMAIN fs : i > j => fs[j].index + Opens(fs[j]) <= fs[i].index
      /\ \A k \in fs[j].index + 1 .. Len(s) : Depth(s, k) >= Depth(s, fs[j].index) + Opens(fs[j])
  <2>1. fs[j].index \in 0 .. Len(s)
    BY <1>2 DEF StackedAt
  <2>2. /\ fs[j].index + Opens(fs[j]) <= Len(s)
        /\ \A i \in DOMAIN fs : i > j => fs[j].index + Opens(fs[j]) <= fs[i].index
        /\ \A k \in fs[j].index + 1 .. Len(s) : Depth(s, k) >= Depth(s, fs[j].index) + Opens(fs[j])
    BY <1>2, Zenon DEF StackedAt
  <2> QED
    BY <1>1, <2>1, <2>2
<1>4. ASSUME NEW c \in Nat, fs[j].index + Opens(fs[j]) <= c, c <= Len(s)
      PROVE  Depth(s, c) \in Int /\ Depth(s, c) >= Depth(s, fs[j].index) + Opens(fs[j])
  <2>1. Depth(s, c) \in Int
    BY DepthType
  <2>2. CASE c = fs[j].index
    BY <1>1, <1>4, <2>1, <2>2
  <2>3. CASE c # fs[j].index
    <3>1. c \in fs[j].index + 1 .. Len(s)
      BY <1>1, <1>4, <2>3
    <3> QED
      BY <1>3, <2>1, <3>1
  <2> QED
    BY <2>2, <2>3
<1>5. ASSUME NEW i \in DOMAIN fs, i > j
      PROVE  fs[i].index \in Nat /\ fs[i].index <= Len(s)
  BY <1>1, FrameType DEF Stacked, StackedAt
<1> QED
  BY <1>1, <1>3, <1>4, <1>5, DepthType

(* Frames at the base of the stack that is pushed on                        *)
LEMMA PushBase ==
  ASSUME NEW s \in Seq(Tokens), NEW t \in Seq(Tokens), Same(s, t, Len(s)),
         NEW fs \in Seq(Frames), NEW f \in Frames, f.index = Len(s), Stacked(s, fs),
         NEW h \in 1 .. Len(fs) + 1
  PROVE  Depth(t, Base(t, Append(fs, f), h)) = Depth(s, Base(s, fs, h))
<1>1. /\ Len(fs) \in Nat /\ DOMAIN fs = 1 .. Len(fs) /\ DOMAIN Append(fs, f) = 1 .. Len(fs) + 1
      /\ Append(fs, f)[Len(fs) + 1] = f /\ \A i \in 1 .. Len(fs) : Append(fs, f)[i] = fs[i]
  BY PushFacts
<1>2. \A k \in 0 .. Len(s) : Depth(s, k) = Depth(t, k)
  BY SameTokens
<1>3. Base(t, Append(fs, f), h) = Base(s, fs, h) /\ Base(s, fs, h) \in 0 .. Len(s)
  <2>1. CASE h = Len(fs) + 1
    BY <1>1, <2>1 DEF Base
  <2>2. CASE h # Len(fs) + 1
    <3>1. h \in 1 .. Len(fs)
      BY <1>1, <2>2
    <3>2. fs[h].index \in 0 .. Len(s)
      BY <1>1, <3>1, EndDepth
    <3>3. h \in DOMAIN Append(fs, f) /\ h \in DOMAIN fs
      BY <1>1, <3>1
    <3> QED
      BY <1>1, <3>1, <3>2, <3>3 DEF Base
  <2> QED
    BY <2>1, <2>2
<1> QED
  BY <1>2, <1>3

LEMMA NumberedMore ==
  ASSUME NEW s \in Seq(Tokens), NEW fs \in Seq(Frames), NEW m \in Nat, Numbered(s, fs, m)
  PROVE  Numbered(s, fs, m + 1)
<1>1. ASSUME NEW k \in DOMAIN s, IsCode(s, k) PROVE Line(s[k].at) < m + 1
  <2>1. k \in 1 .. Len(s)
    OBVIOUS
  <2>2. s[k].at \in Seq(Int \X Int) /\ s[k].at # <<>>
    BY <1>1, <2>1, TokenKinds DEF Places
  <2>3. Len(s[k].at) \in 1 .. Len(s[k].at)
    BY <2>2
  <2>4. s[k].at[Len(s[k].at)] \in Int \X Int
    BY <2>2, <2>3
  <2>5. Line(s[k].at) \in Int
    BY <2>4 DEF Line, Last
  <2>6. Line(s[k].at) < m
    BY <1>1 DEF Numbered
  <2> QED
    BY <2>5, <2>6
<1>2. ASSUME NEW j \in DOMAIN fs PROVE fs[j].at <= m + 1
  <2>1. fs[j].at <= m /\ fs[j].at \in Nat
    BY FrameType DEF Numbered
  <2> QED
    BY <2>1
<1> QED
  BY <1>1, <1>2 DEF Numbered

(* stgmark(sSTARTREORDER) keeps the buffer good.                           *)
LEMMA GoodStart ==
  ASSUME NEW s, NEW t, NEW l, Appended(s, Start, t, l), NEW fs \in Seq(Frames), NEW m \in Nat,
         Good(s, fs), AllInside(fs), Numbered(s, fs, m),
         NEW f \in Frames, IsCall(f), f.index = Len(s), f.at = m, f.arg = NoArg, f.nargs = 0, f.done = {},
         f.formals <= MaxFormals, f.kind = "for" => fs = <<>> /\ s = <<>>
  PROVE  Good(t, Append(fs, f)) /\ Numbered(t, Append(fs, f), m)
<1> DEFINE gs == Append(fs, f)
<1>1. /\ l \in Nat \ {0} /\ Len(s) = l - 1 /\ Len(t) = l /\ s \in Seq(Tokens) /\ t \in Seq(Tokens) /\ t[l] = Start
      /\ DOMAIN s = 1 .. l - 1 /\ DOMAIN t = 1 .. l /\ Same(s, t, l - 1)
      /\ \A k \in 1 .. l - 1 : /\ t[k] = s[k] /\ (IsMark(t, k) <=> IsMark(s, k))
  BY AppendedTokens
<1>2. l \in 1 .. Len(t) /\ ~IsMark(t, l) /\ t[l] # End /\ ~IsCode(t, l)
  <2>1. l \in 1 .. Len(t)
    BY <1>1
  <2> QED
    BY <1>1, <2>1, TokenKinds
<1>3. Stacked(s, fs) /\ Parsed(s, fs) /\ Placed(s, fs) /\ Sound(s)
  BY DEF Good
<1>4. /\ Depth(t, l) = Depth(s, l - 1) + 1 /\ Depth(s, l - 1) \in Int
      /\ \A k \in 0 .. l - 1 : Depth(t, k) = Depth(s, k) /\ Depth(s, k) \in Int
  <2>1. l - 1 \in 0 .. l - 1
    BY <1>1
  <2> QED
    BY <2>1, AppendedDepth
<1>5. /\ gs \in Seq(Frames) /\ Len(gs) = Len(fs) + 1 /\ Len(fs) \in Nat
      /\ DOMAIN fs = 1 .. Len(fs) /\ DOMAIN gs = 1 .. Len(fs) + 1
      /\ gs[Len(fs) + 1] = f /\ \A h \in 1 .. Len(fs) : gs[h] = fs[h]
      /\ gs # <<>> /\ Last(gs) = f
  BY PushFacts
<1>6. \A h \in 1 .. Len(fs) + 1 : Depth(t, Base(t, gs, h)) = Depth(s, Base(s, fs, h))
  BY <1>1, <1>3, PushBase
<1>7. Base(t, gs, Len(fs) + 2) = l
  BY <1>1, <1>5 DEF Base
<1>8. s # <<>> => s[l - 1] # Start
  BY <1>1, <1>3, NotAfterStart
<1>9. f.index = l - 1 /\ Opens(f) = 1 /\ f.kind # "constant"
  BY <1>1 DEF IsCall, Opens
<1> HIDE DEF gs
<1>10. ASSUME NEW h \in 1 .. Len(fs) PROVE StackedAt(t, gs, h)
  <2> DEFINE g == fs[h]
             o == Opens(g)
  <2>1. /\ g.index \in Nat /\ ((IsCall(g) /\ o = 1) \/ (~IsCall(g) /\ o = 0)) /\ gs[h] = g
        /\ g.index \in 0 .. l - 1
        /\ Depth(s, l - 1) >= Depth(s, g.index) + o
    BY <1>1, <1>3, <1>5, FrameType, EndDepth
  <2>2. StackedAt(s, fs, h)
    BY <1>3, <1>5 DEF Stacked
  <2>3. /\ (g.index > 0 => s[g.index] # Start)
        /\ g.kind \in {"for", "constant"} => h = 1 /\ g.index = 0
        /\ g.index + o <= l - 1
        /\ \A i \in DOMAIN fs : i > h => g.index + o <= fs[i].index
        /\ Depth(s, Base(s, fs, h + 1)) = Depth(s, g.index) + o
        /\ IsCall(g) => s[g.index + 1] = Start
        /\ ~IsCall(g) => g.arg = NoArg
        /\ \A k \in g.index + 1 .. l - 1 :
             /\ Depth(s, k) >= Depth(s, g.index) + o
             /\ ~IsCall(g) /\ IsMark(s, k) => Depth(s, k) > Depth(s, g.index)
    BY <1>1, <2>2, Zenon DEF StackedAt
  <2> HIDE DEF o
  <2>4. Depth(t, g.index) = Depth(s, g.index) /\ Depth(s, g.index) \in Int
    BY <1>4, <2>1
  <2>5. \A k \in g.index + 1 .. l :
             /\ Depth(t, k) >= Depth(t, g.index) + o
             /\ ~IsCall(g) /\ IsMark(t, k) => Depth(t, k) > Depth(t, g.index)
    <3> SUFFICES ASSUME NEW k \in g.index + 1 .. l
                 PROVE  /\ Depth(t, k) >= Depth(t, g.index) + o
                        /\ ~IsCall(g) /\ IsMark(t, k) => Depth(t, k) > Depth(t, g.index)
      OBVIOUS
    <3>1. CASE k = l
      BY <1>2, <1>4, <2>1, <2>4, <3>1
    <3>2. CASE k # l
      <4>1. k \in g.index + 1 .. l - 1 /\ k \in 1 .. l - 1 /\ k \in 0 .. l - 1
        BY <1>1, <2>1, <3>2
      <4> QED
        BY <1>1, <1>4, <2>3, <2>4, <4>1
    <3> QED
      BY <3>1, <3>2
  <2>6. Depth(t, Base(t, gs, h + 1)) = Depth(t, g.index) + o
    <3>1. h + 1 \in 1 .. Len(fs) + 1
      BY <1>5
    <3> QED
      BY <1>6, <2>3, <2>4, <3>1
  <2>7. (g.index > 0 => t[g.index] # Start) /\ (IsCall(g) => t[g.index + 1] = Start)
    <3>1. (g.index > 0 => g.index \in 1 .. l - 1) /\ (IsCall(g) => g.index + 1 \in 1 .. l - 1)
      BY <1>1, <2>1, <2>3
    <3> QED
      BY <1>1, <2>3, <3>1
  <2>8. g.index \in 0 .. l /\ g.index + o <= l
    BY <1>1, <2>1, <2>3
  <2>9. \A i \in DOMAIN gs : i > h => g.index + o <= gs[i].index
    <3> SUFFICES ASSUME NEW i \in 1 .. Len(fs) + 1, i > h PROVE g.index + o <= gs[i].index
      BY <1>5
    <3>1. CASE i = Len(fs) + 1
      BY <1>5, <1>9, <2>3, <3>1
    <3>2. CASE i # Len(fs) + 1
      <4>1. i \in 1 .. Len(fs)
        BY <1>5, <3>2
      <4> QED
        BY <1>5, <2>3, <4>1
    <3> QED
      BY <3>1, <3>2
  <2> HIDE DEF g
  <2> QED
    BY <1>1, <2>1, <2>3, <2>5, <2>6, <2>7, <2>8, <2>9, Zenon DEF StackedAt, o
<1>11. StackedAt(t, gs, Len(fs) + 1)
  <2>1. f.index \in 0 .. Len(t) /\ f.index + Opens(f) <= Len(t) /\ f.index + 1 = l
    BY <1>1, <1>9
  <2>2. f.index > 0 => t[f.index] # Start
    <3> SUFFICES ASSUME f.index > 0 PROVE t[f.index] # Start
      OBVIOUS
    <3>1. l - 1 \in 1 .. l - 1 /\ s # <<>>
      BY <1>1, <1>9
    <3> QED
      BY <1>1, <1>8, <1>9, <3>1
  <2>3. f.kind \in {"for", "constant"} => Len(fs) + 1 = 1 /\ f.index = 0
    <3>1. fs = <<>> => Len(fs) = 0
      OBVIOUS
    <3>2. s = <<>> => Len(s) = 0
      OBVIOUS
    <3> QED
      BY <1>1, <1>9, <3>1, <3>2
  <2>4. \A i \in DOMAIN gs : ~(i > Len(fs) + 1)
    BY <1>5
  <2>5. Depth(t, Base(t, gs, (Len(fs) + 1) + 1)) = Depth(t, f.index) + Opens(f)
    <3>1. (Len(fs) + 1) + 1 = Len(fs) + 2 /\ l - 1 \in 0 .. l - 1
      BY <1>1, <1>5
    <3> QED
      BY <1>4, <1>7, <1>9, <3>1
  <2>6. \A k \in f.index + 1 .. Len(t) : Depth(t, k) >= Depth(t, f.index) + Opens(f)
    <3>1. \A k \in f.index + 1 .. Len(t) : k = l
      BY <1>1, <1>9
    <3>2. l - 1 \in 0 .. l - 1
      BY <1>1
    <3>3. Depth(t, l) >= Depth(t, l - 1) + 1
      BY <1>4, <3>2
    <3> QED
      BY <1>9, <3>1, <3>3
  <2>7. t[f.index + 1] = Start
    BY <1>1, <2>1
  <2> QED
    BY <1>5, <2>1, <2>2, <2>3, <2>4, <2>5, <2>6, <2>7, Zenon DEF StackedAt
<1>12. Stacked(t, gs)
  <2>1. \A h \in DOMAIN gs : h \in 1 .. Len(fs) \/ h = Len(fs) + 1
    BY <1>5
  <2>2. Depth(t, Base(t, gs, 1)) = 0
    <3>1. 1 \in 1 .. Len(fs) + 1
      BY <1>5
    <3> QED
      BY <1>3, <1>6, <3>1 DEF Stacked
  <2>3. Last(gs).index + 1 = Len(t)
    BY <1>1, <1>5, <1>9
  <2> QED
    BY <1>5, <1>10, <1>11, <2>1, <2>2, <2>3 DEF Stacked
<1>13. Sound(t)
  <2>1. NestedAt(t, l)
    <3>1. Depth(t, l) >= 0
      <4>1. l - 1 \in 0 .. Len(s)
        BY <1>1
      <4>2. Depth(s, l - 1) \in Nat
        BY <1>1, <1>3, <4>1, DepthNat
      <4> QED
        BY <1>4, <4>2
    <3>2. l > 1 => t[l - 1] # Start
      <4>1. l > 1 => s # <<>> /\ l - 1 \in 1 .. l - 1
        BY <1>1
      <4> QED
        BY <1>1, <1>8, <4>1
    <3> QED
      BY <1>2, <3>1, <3>2 DEF NestedAt
  <2>2. ReplacedAt(t, l)
    BY <1>2 DEF ReplacedAt
  <2>3. CompleteAt(t, l)
    BY <1>1, <1>2, ClosesAtEnd DEF CompleteAt
  <2>4. OrderedAt(t, l)
    BY <1>2 DEF OrderedAt
  <2> QED
    BY <1>3, <2>1, <2>2, <2>3, <2>4, AppendedSound DEF SoundAt
<1>14. Parsed(t, gs)
  <2>1. ASSUME NEW h \in 1 .. Len(fs) PROVE (IsCall(gs[h]) => Taken(t, gs[h])) /\ Inside(gs[h])
    <3>1. gs[h] = fs[h] /\ h \in DOMAIN fs /\ Inside(fs[h]) /\ fs[h] \in Frames
      BY <1>5 DEF AllInside
    <3>2. ASSUME IsCall(fs[h]) PROVE Taken(t, fs[h])
      <4>1. Taken(s, fs[h]) /\ fs[h].index + 1 <= Len(s)
        BY <1>1, <1>3, <3>1, <3>2, CallFacts DEF Parsed
      <4> QED
        BY <1>2, <3>1, <3>2, <4>1, TakenKeeps
    <3> QED
      BY <3>1, <3>2
  <2>2. Taken(t, f)
    <3>1. f.index + 1 = l
      BY <1>1, <1>9
    <3>2. ASSUME NEW k \in l .. l, IsMark(t, k) PROVE FALSE
      <4>1. k = l
        BY <1>1
      <4> QED
        BY <1>2, <3>2, <4>1
    <3>3. MarksTo(t, l, l) = {}
      BY <3>2, Zenon DEF MarksTo
    <3>4. ArgsTo(t, l, l) = {}
      BY <3>3 DEF ArgsTo
    <3>5. 0 .. 0 - 1 = {} /\ 0 \in 0 .. sMAXARGS
      BY BoundsAssumption
    <3>6. \E p \in 0 .. sMAXARGS :
               /\ f.kind = "call" /\ ~f.named => p = f.nargs
               /\ 0 .. p - 1 \subseteq {} /\ {} \subseteq (0 .. p - 1) \cup (0 .. f.formals - 1)
      BY <3>5
    <3>7. f.arg \in {NoArg, 0, 1} /\ {} = 0 .. f.arg
      BY DEF NoArg
    <3> QED
      BY <1>1, <3>1, <3>3, <3>4, <3>6, <3>7, Zenon DEF Taken
  <2>3. \A h \in DOMAIN gs : h \in 1 .. Len(fs) \/ (h = Len(fs) + 1 /\ gs[h] = f /\ h = Len(gs))
    BY <1>5
  <2> QED
    BY <2>1, <2>2, <2>3 DEF Parsed
<1>15. SameStack(fs, fs)
  BY DEF SameStack, SameFrame
<1>16. ASSUME NEW k \in DOMAIN t, IsCode(t, k) PROVE k \in 1 .. l - 1
  BY <1>1, <1>2, <1>16
<1>17. ASSUME NEW h \in DOMAIN gs PROVE (h \in DOMAIN fs /\ gs[h] = fs[h]) \/ gs[h] = f
  BY <1>5
<1>18. Placed(t, gs)
  <2> SUFFICES ASSUME NEW k \in DOMAIN t, IsCode(t, k)
               PROVE  Bounded(t[k].at) /\ \A h \in DOMAIN gs : gs[h].index < k => PlacedIn(t, k, gs[h], h)
    BY DEF Placed
  <2>1. k \in 1 .. l - 1
    BY <1>16
  <2>2. Bounded(t[k].at) /\ \A h \in DOMAIN fs : fs[h].index < k => PlacedIn(t, k, fs[h], h)
    BY <1>3, <1>15, <2>1, PlacedKeeps
  <2>3. ~(f.index < k)
    BY <1>1, <1>9, <2>1
  <2> QED
    BY <1>17, <2>2, <2>3
<1>19. Numbered(t, gs, m)
  <2>1. Numbered(t, fs, m)
    <3>1. \A h \in DOMAIN fs : fs[h].index <= Len(s)
      BY <1>3 DEF Stacked, StackedAt
    <3>2. m <= m
      OBVIOUS
    <3> QED
      BY <1>2, <1>15, <3>1, <3>2, NumberedKeeps
  <2>2. \A k \in DOMAIN t : IsCode(t, k) => Line(t[k].at) < m /\ k <= f.index
    <3>1. \A k \in 1 .. l - 1 : k <= f.index
      BY <1>1, <1>9
    <3> QED
      BY <1>16, <2>1, <3>1 DEF Numbered
  <2>3. f.at <= m
    OBVIOUS
  <2> QED
    BY <1>17, <2>1, <2>2, <2>3 DEF Numbered
<1> QED
  BY <1>12, <1>13, <1>14, <1>18, <1>19 DEF Good, gs

(* stgget() keeps it good.                                                 *)
LEMMA GoodSave ==
  ASSUME NEW s \in Seq(Tokens), NEW fs \in Seq(Frames), NEW m \in Nat,
         Good(s, fs), AllInside(fs), Numbered(s, fs, m),
         NEW f \in Frames, ~IsCall(f), f.index = Len(s), f.at = m, f.arg = NoArg,
         f.kind = "constant" => fs = <<>> /\ s = <<>>
  PROVE  Good(s, Append(fs, f)) /\ Numbered(s, Append(fs, f), m)
<1> DEFINE gs == Append(fs, f)
           l == Len(s)
<1>1. l \in Nat /\ DOMAIN s = 1 .. l /\ Same(s, s, l)
  <2>1. l \in Nat /\ DOMAIN s = 1 .. l
    OBVIOUS
  <2> QED
    BY <2>1 DEF Same
<1>3. Stacked(s, fs) /\ Parsed(s, fs) /\ Placed(s, fs) /\ Sound(s)
  BY DEF Good
<1>5. /\ gs \in Seq(Frames) /\ Len(gs) = Len(fs) + 1 /\ Len(fs) \in Nat
      /\ DOMAIN fs = 1 .. Len(fs) /\ DOMAIN gs = 1 .. Len(fs) + 1
      /\ gs[Len(fs) + 1] = f /\ \A h \in 1 .. Len(fs) : gs[h] = fs[h]
      /\ gs # <<>> /\ Last(gs) = f
  BY PushFacts
<1>6. \A h \in 1 .. Len(fs) + 1 : Depth(s, Base(s, gs, h)) = Depth(s, Base(s, fs, h))
  BY <1>1, <1>3, PushBase
<1>7. Base(s, gs, Len(fs) + 2) = l
  BY <1>1, <1>5 DEF Base
<1>8. s # <<>> => s[l] # Start
  BY <1>1, <1>3, NotAfterStart
<1>9. f.index = l /\ Opens(f) = 0 /\ f.kind # "for"
  BY <1>1 DEF IsCall, Opens
<1> HIDE DEF gs
<1>10. ASSUME NEW h \in 1 .. Len(fs) PROVE StackedAt(s, gs, h)
  <2> DEFINE g == fs[h]
             o == Opens(g)
  <2>1. gs[h] = g /\ g.index + o <= l
    BY <1>3, <1>5 DEF Stacked, StackedAt
  <2>2. StackedAt(s, fs, h)
    BY <1>3, <1>5 DEF Stacked
  <2>3. \A i \in DOMAIN gs : i > h => g.index + o <= gs[i].index
    <3> SUFFICES ASSUME NEW i \in 1 .. Len(fs) + 1, i > h PROVE g.index + o <= gs[i].index
      BY <1>5
    <3>1. CASE i = Len(fs) + 1
      BY <1>5, <1>9, <2>1, <3>1
    <3>2. CASE i # Len(fs) + 1
      <4>1. i \in DOMAIN fs /\ gs[i] = fs[i]
        BY <1>5, <3>2
      <4>2. g.index + o <= fs[i].index
        BY <2>2, <4>1, Zenon DEF StackedAt
      <4> QED
        BY <4>1, <4>2
    <3> QED
      BY <3>1, <3>2
  <2>4. Depth(s, Base(s, gs, h + 1)) = Depth(s, g.index) + o
    <3>1. h + 1 \in 1 .. Len(fs) + 1
      BY <1>5
    <3>2. Depth(s, Base(s, fs, h + 1)) = Depth(s, g.index) + o
      BY <2>2, Zenon DEF StackedAt
    <3> QED
      BY <1>6, <3>1, <3>2
  <2> HIDE DEF g
  <2> QED
    BY <2>1, <2>2, <2>3, <2>4, Zenon DEF StackedAt, g
<1>11. StackedAt(s, gs, Len(fs) + 1)
  <2>1. f.index \in 0 .. Len(s) /\ f.index + Opens(f) <= Len(s)
    BY <1>1, <1>9
  <2>2. f.index > 0 => s[f.index] # Start
    <3>1. s = <<>> => l = 0
      OBVIOUS
    <3> QED
      BY <1>1, <1>8, <1>9, <3>1
  <2>3. f.kind \in {"for", "constant"} => Len(fs) + 1 = 1 /\ f.index = 0
    <3>1. fs = <<>> => Len(fs) = 0
      OBVIOUS
    <3>2. s = <<>> => Len(s) = 0
      OBVIOUS
    <3> QED
      BY <1>1, <1>9, <3>1, <3>2
  <2>4. \A i \in DOMAIN gs : ~(i > Len(fs) + 1)
    BY <1>5
  <2>5. Depth(s, Base(s, gs, (Len(fs) + 1) + 1)) = Depth(s, f.index) + Opens(f)
    <3>1. (Len(fs) + 1) + 1 = Len(fs) + 2
      BY <1>1, <1>5
    <3>2. Depth(s, l) \in Int
      BY <1>1, DepthType
    <3> QED
      BY <1>7, <1>9, <3>1, <3>2
  <2>6. \A k \in f.index + 1 .. Len(s) : FALSE
    BY <1>1, <1>9
  <2> QED
    BY <1>5, <2>1, <2>2, <2>3, <2>4, <2>5, <2>6, Zenon DEF StackedAt
<1>12. Stacked(s, gs)
  <2>1. \A h \in DOMAIN gs : h \in 1 .. Len(fs) \/ h = Len(fs) + 1
    BY <1>5
  <2>2. Depth(s, Base(s, gs, 1)) = 0
    <3>1. 1 \in 1 .. Len(fs) + 1
      BY <1>5
    <3> QED
      BY <1>3, <1>6, <3>1 DEF Stacked
  <2> QED
    BY <1>5, <1>8, <1>10, <1>11, <2>1, <2>2 DEF Stacked
<1>14. Parsed(s, gs)
  <2>1. ASSUME NEW h \in 1 .. Len(fs) PROVE (IsCall(gs[h]) => Taken(s, gs[h])) /\ Inside(gs[h])
    BY <1>3, <1>5 DEF AllInside, Parsed
  <2>2. \A h \in DOMAIN gs : h \in 1 .. Len(fs) \/ (h = Len(fs) + 1 /\ gs[h] = f /\ h = Len(gs))
    BY <1>5
  <2> QED
    BY <2>1, <2>2 DEF Parsed
<1>17. ASSUME NEW h \in DOMAIN gs PROVE (h \in DOMAIN fs /\ gs[h] = fs[h]) \/ gs[h] = f
  BY <1>5
<1>18. Placed(s, gs)
  <2>1. \A k \in DOMAIN s : ~(f.index < k)
    BY <1>1, <1>9
  <2> QED
    BY <1>3, <1>17, <2>1 DEF Placed
<1>19. Numbered(s, gs, m)
  <2>1. \A k \in DOMAIN s : k <= f.index
    BY <1>1, <1>9
  <2>2. f.at <= m
    OBVIOUS
  <2> QED
    BY <1>17, <2>1, <2>2 DEF Numbered
<1> QED
  BY <1>3, <1>12, <1>14, <1>18, <1>19 DEF Good, gs

-----------------------------------------------------------------------------
(***************************************************************************)
(* A frame is popped                                                        *)
(***************************************************************************)
LEMMA PopFacts ==
  ASSUME NEW fs \in Seq(Frames), fs # <<>>
  PROVE  /\ Front(fs) \in Seq(Frames) /\ Len(fs) \in Nat \ {0} /\ Len(Front(fs)) = Len(fs) - 1
         /\ DOMAIN fs = 1 .. Len(fs) /\ DOMAIN Front(fs) = 1 .. Len(fs) - 1 /\ Len(fs) \in DOMAIN fs
         /\ \A h \in 1 .. Len(fs) - 1 : Front(fs)[h] = fs[h] /\ h \in DOMAIN fs
         /\ Last(fs) = fs[Len(fs)] /\ fs[Len(fs)] \in Frames
<1>1. Len(fs) \in Nat \ {0} /\ DOMAIN fs = 1 .. Len(fs) /\ Len(fs) \in 1 .. Len(fs)
  BY EmptySeq
<1>2. \A i \in 1 .. Len(fs) - 1 : fs[i] \in Frames
  BY <1>1
<1>3. Front(fs) \in Seq(Frames) /\ Len(Front(fs)) = Len(fs) - 1 /\ \A h \in 1 .. Len(fs) - 1 : Front(fs)[h] = fs[h]
  <2>1. /\ SubSeq(fs, 1, Len(fs) - 1) \in Seq(Frames)
        /\ Len(SubSeq(fs, 1, Len(fs) - 1)) = IF 1 <= Len(fs) - 1 THEN (Len(fs) - 1) - 1 + 1 ELSE 0
        /\ \A i \in 1 .. (Len(fs) - 1) - 1 + 1 : SubSeq(fs, 1, Len(fs) - 1)[i] = fs[1 + i - 1]
    BY <1>1, <1>2, SubSeqProperties
  <2> QED
    BY <1>1, <2>1 DEF Front
<1> QED
  BY <1>1, <1>2, <1>3 DEF Last

(* The frame of an operand: its code stays, or is scrapped.                 *)
CutAt(s, fs, c) == c \in {Last(fs).index, Len(s)}

(* An operand that is kept, and one that is scrapped, leave it good.       *)
LEMMA GoodCut ==
  ASSUME NEW s \in Seq(Tokens), NEW t \in Seq(Tokens), NEW c \in Nat, Len(t) = c, Same(s, t, c),
         NEW fs \in Seq(Frames), NEW m \in Nat, fs # <<>>, Good(s, fs), Numbered(s, fs, m), ~IsCall(Last(fs)),
         CutAt(s, fs, c)
  PROVE  Good(t, Front(fs)) /\ Numbered(t, Front(fs), m)
<1> DEFINE gs == Front(fs)
           j == Len(fs)
           f == fs[j]
<1>1. /\ Len(s) \in Nat /\ c \in Nat /\ c <= Len(s) /\ DOMAIN s = 1 .. Len(s) /\ DOMAIN t = 1 .. c
      /\ \A k \in 1 .. c : /\ t[k] = s[k] /\ ArgAt(t, k) = ArgAt(s, k)
                           /\ (IsMark(t, k) <=> IsMark(s, k)) /\ (IsCode(t, k) <=> IsCode(s, k))
      /\ \A k \in 0 .. c : Depth(t, k) = Depth(s, k) /\ Depth(s, k) \in Int
  <2>1. Len(s) \in Nat /\ c \in Nat /\ c <= Len(s) /\ DOMAIN s = 1 .. Len(s) /\ DOMAIN t = 1 .. c
    BY DEF Same
  <2> QED
    BY <2>1, SameTokens, DepthType
<1>2. /\ gs \in Seq(Frames) /\ j \in Nat \ {0} /\ Len(gs) = j - 1
      /\ DOMAIN fs = 1 .. j /\ DOMAIN gs = 1 .. j - 1 /\ j \in DOMAIN fs
      /\ \A h \in 1 .. j - 1 : gs[h] = fs[h] /\ h \in DOMAIN fs
      /\ Last(fs) = f /\ f \in Frames
  BY PopFacts
<1>3. Stacked(s, fs) /\ Parsed(s, fs) /\ Placed(s, fs) /\ Sound(s)
  BY DEF Good
<1>4. StackedAt(s, fs, j) /\ f.index \in Nat /\ Opens(f) = 0 /\ ~IsCall(f) /\ Base(s, fs, j) = f.index /\ Base(s, fs, j + 1) = Len(s)
  BY <1>2, <1>3, FrameType DEF Stacked, Base
<1>5. /\ f.index <= c /\ f.index <= Len(s) /\ Depth(s, c) = Depth(s, f.index) /\ Depth(s, f.index) \in Int
      /\ c > 0 => s[c] # Start
      /\ \A k \in f.index + 1 .. Len(s) : IsMark(s, k) => Depth(s, k) > Depth(s, f.index)
  <2>1. /\ f.index \in 0 .. Len(s) /\ (f.index > 0 => s[f.index] # Start)
        /\ Depth(s, Len(s)) = Depth(s, f.index) + 0
        /\ \A k \in f.index + 1 .. Len(s) : IsMark(s, k) => Depth(s, k) > Depth(s, f.index)
    BY <1>4, Zenon DEF StackedAt
  <2>2. s # <<>> => s[Len(s)] # Start
    BY <1>2, <1>3, <1>4 DEF Stacked
  <2>3. Depth(s, f.index) \in Int
    BY <1>4, DepthType
  <2>4. PICK i \in Nat : i = f.index
    BY <1>4
  <2>5. c = i \/ c = Len(s)
    BY <1>2, <2>4, Zenon DEF CutAt
  <2>6. i \in 0 .. Len(s) /\ (i > 0 => s[i] # Start) /\ Depth(s, Len(s)) = Depth(s, i) + 0 /\ Depth(s, i) \in Int
    BY <2>1, <2>3, <2>4, Zenon
  <2>7. i <= Len(s) /\ i <= i /\ Depth(s, Len(s)) = Depth(s, i) /\ (Len(s) > 0 => s[Len(s)] # Start)
    <3>1. s = <<>> => Len(s) = 0
      OBVIOUS
    <3> QED
      BY <2>2, <2>6, <3>1
  <2>8. i <= c /\ Depth(s, c) = Depth(s, i) /\ (c > 0 => s[c] # Start)
    <3>1. CASE c = i
      BY <2>6, <2>7, <3>1, Zenon
    <3>2. CASE c = Len(s)
      BY <2>7, <3>2, Zenon
    <3> QED
      BY <2>5, <3>1, <3>2
  <2> QED
    BY <2>1, <2>3, <2>4, <2>7, <2>8, Zenon
<1> HIDE DEF gs
<1>6. \A h \in 1 .. j : Depth(t, Base(t, gs, h)) = Depth(s, Base(s, fs, h))
  <2> SUFFICES ASSUME NEW h \in 1 .. j PROVE Depth(t, Base(t, gs, h)) = Depth(s, Base(s, fs, h))
    OBVIOUS
  <2>1. CASE h = j
    <3>1. Base(t, gs, h) = c
      BY <1>2, <2>1 DEF Base
    <3>2. c \in 0 .. c
      BY <1>1
    <3> QED
      BY <1>1, <1>4, <1>5, <2>1, <3>1, <3>2
  <2>2. CASE h # j
    <3>1. h \in DOMAIN gs /\ h \in DOMAIN fs /\ gs[h] = fs[h] /\ j > h
      BY <1>2, <2>2
    <3>2. fs[h].index \in Nat /\ Opens(fs[h]) \in Nat
      BY <3>1, FrameType
    <3>3. fs[h].index + Opens(fs[h]) <= f.index
      <4>1. StackedAt(s, fs, h)
        BY <1>3, <3>1 DEF Stacked
      <4> QED
        BY <1>2, <3>1, <4>1, Zenon DEF StackedAt
    <3>4. fs[h].index \in 0 .. c
      BY <1>1, <1>4, <1>5, <3>2, <3>3
    <3> QED
      BY <1>1, <3>1, <3>4 DEF Base
  <2> QED
    BY <2>1, <2>2
<1>7. ASSUME NEW h \in 1 .. j - 1 PROVE StackedAt(t, gs, h)
  <2> DEFINE g == fs[h]
             o == Opens(g)
  <2>1. /\ g.index \in Nat /\ ((IsCall(g) /\ o = 1) \/ (~IsCall(g) /\ o = 0)) /\ gs[h] = g
        /\ h \in DOMAIN fs /\ j > h
    BY <1>2, FrameType
  <2>2. StackedAt(s, fs, h)
    BY <1>3, <2>1 DEF Stacked
  <2>3. /\ (g.index > 0 => s[g.index] # Start)
        /\ g.kind \in {"for", "constant"} => h = 1 /\ g.index = 0
        /\ \A i \in DOMAIN fs : i > h => g.index + o <= fs[i].index
        /\ Depth(s, Base(s, fs, h + 1)) = Depth(s, g.index) + o
        /\ IsCall(g) => s[g.index + 1] = Start
        /\ ~IsCall(g) => g.arg = NoArg
        /\ \A k \in g.index + 1 .. Len(s) :
             /\ Depth(s, k) >= Depth(s, g.index) + o
             /\ ~IsCall(g) /\ IsMark(s, k) => Depth(s, k) > Depth(s, g.index)
    BY <2>2, Zenon DEF StackedAt
  <2> HIDE DEF o
  <2>4. g.index + o <= f.index
    BY <1>2, <2>1, <2>3
  <2>5. g.index \in 0 .. c /\ g.index + o <= c
    BY <1>1, <1>4, <1>5, <2>1, <2>4
  <2>6. Depth(t, g.index) = Depth(s, g.index) /\ Depth(s, g.index) \in Int
    BY <1>1, <2>5
  <2>7. \A k \in g.index + 1 .. c :
             /\ Depth(t, k) >= Depth(t, g.index) + o
             /\ ~IsCall(g) /\ IsMark(t, k) => Depth(t, k) > Depth(t, g.index)
    <3> SUFFICES ASSUME NEW k \in g.index + 1 .. c
                 PROVE  /\ Depth(t, k) >= Depth(t, g.index) + o
                        /\ ~IsCall(g) /\ IsMark(t, k) => Depth(t, k) > Depth(t, g.index)
      OBVIOUS
    <3>1. k \in g.index + 1 .. Len(s) /\ k \in 1 .. c /\ k \in 0 .. c
      BY <1>1, <2>1
    <3> QED
      BY <1>1, <2>3, <2>6, <3>1
  <2>8. Depth(t, Base(t, gs, h + 1)) = Depth(t, g.index) + o
    <3>1. h + 1 \in 1 .. j
      BY <1>2
    <3> QED
      BY <1>6, <2>3, <2>6, <3>1
  <2>9. (g.index > 0 => t[g.index] # Start) /\ (IsCall(g) => t[g.index + 1] = Start)
    <3>1. (g.index > 0 => g.index \in 1 .. c) /\ (IsCall(g) => g.index + 1 \in 1 .. c)
      BY <1>1, <2>1, <2>5
    <3> QED
      BY <1>1, <2>3, <3>1
  <2>10. \A i \in DOMAIN gs : i > h => g.index + o <= gs[i].index
    BY <1>2, <2>3
  <2> HIDE DEF g
  <2> QED
    BY <2>1, <2>3, <2>5, <2>7, <2>8, <2>9, <2>10, Zenon DEF StackedAt, o
<1>8. Stacked(t, gs)
  <2>1. Depth(t, Base(t, gs, 1)) = 0
    <3>1. 1 \in 1 .. j
      BY <1>2
    <3> QED
      BY <1>3, <1>6, <3>1 DEF Stacked
  <2>2. t # <<>> => t[c] # Start
    <3>1. t # <<>> => c > 0 /\ c \in 1 .. c
      BY <1>1
    <3> QED
      BY <1>1, <1>5, <3>1
  <2> QED
    BY <1>2, <1>7, <2>1, <2>2 DEF Stacked
<1>9. Sound(t)
  <2> SUFFICES ASSUME NEW k \in 1 .. c PROVE SoundAt(t, k)
    BY <1>1 DEF Sound
  <2>1. SoundAt(s, k)
    BY <1>1, <1>3 DEF Sound
  <2> QED
    BY <2>1, SameSound
<1>10. Parsed(t, gs)
  <2> SUFFICES ASSUME NEW h \in 1 .. j - 1 PROVE (IsCall(fs[h]) => Taken(t, fs[h])) /\ Inside(fs[h])
    BY <1>2 DEF Parsed
  <2>1. Inside(fs[h])
    <3>1. h \in DOMAIN fs /\ h # Len(fs)
      BY <1>2
    <3> QED
      BY <1>3, <3>1, Zenon DEF Parsed
  <2>2. ASSUME IsCall(fs[h]) PROVE Taken(t, fs[h])
    <3> DEFINE g == fs[h]
               a == g.index + 1
    <3>1. Taken(s, g) /\ h \in DOMAIN fs /\ g.index \in Nat /\ Opens(g) = 1 /\ g.kind \in {"call", "defaults", "for"} /\ j > h
      BY <1>2, <1>3, <2>2, FrameType DEF Parsed, IsCall
    <3>2. /\ a \in 1 .. Len(s) /\ Depth(s, g.index) \in Int
          /\ Depth(s, a) = Depth(s, g.index) + 1
          /\ \A k \in a .. Len(s) : Depth(s, k) \in Int /\ Depth(s, k) >= Depth(s, g.index) + 1
      BY <1>3, <2>2, <3>1, CallFacts
    <3>3. a <= f.index
      BY <1>2, <1>3, <3>1 DEF Stacked, StackedAt
    <3>4. Depth(s, f.index) >= Depth(s, a)
      <4>1. f.index \in a .. Len(s)
        BY <1>1, <1>4, <1>5, <3>1, <3>3
      <4> QED
        BY <3>2, <4>1
    <3>5. MarksTo(t, a, c) = MarksTo(s, a, Len(s))
      <4>1. MarksTo(t, a, c) = MarksTo(s, a, c)
        <5>1. a \in Nat \ {0} /\ c \in Int /\ c <= c
          BY <1>1, <3>1
        <5> QED
          BY <5>1, SameMarks
      <4>2. ASSUME NEW k \in a .. Len(s), IsMark(s, k), Depth(s, k) = Depth(s, a) PROVE k \in a .. c
        <5>1. k <= f.index
          <6> SUFFICES ASSUME k > f.index PROVE FALSE
            BY <1>4, <3>1
          <6>1. k \in f.index + 1 .. Len(s)
            BY <1>1, <1>4, <3>1
          <6> QED
            BY <1>5, <3>2, <3>4, <4>2, <6>1
        <5> QED
          BY <1>1, <1>4, <1>5, <3>1, <5>1
      <4>3. \A k \in a .. c : k \in a .. Len(s)
        BY <1>1, <3>1
      <4>4. MarksTo(s, a, c) = MarksTo(s, a, Len(s))
        BY <4>2, <4>3, Zenon DEF MarksTo
      <4> QED
        BY <4>1, <4>4
    <3> DEFINE M == MarksTo(s, a, Len(s))
               I == ArgsTo(s, a, Len(s))
    <3>6. \A k \in M : k \in 1 .. c /\ ArgAt(t, k) = ArgAt(s, k)
      <4>1. \A k \in M : k \in a .. c
        BY <3>5, Zenon DEF MarksTo
      <4>2. \A k \in a .. c : k \in 1 .. c
        BY <1>1, <3>1
      <4> QED
        BY <1>1, <4>1, <4>2
    <3>7. ArgsTo(t, a, c) = I
      BY <3>5, <3>6 DEF ArgsTo
    <3>8. /\ I = {} => g.arg = NoArg
          /\ g.kind = "for" => g.arg \in {NoArg, 0, 1} /\ I = 0 .. g.arg
          /\ g.kind # "for" =>
              /\ g.done \subseteq I /\ g.formals <= MaxFormals
              /\ \E p \in 0 .. sMAXARGS :
                   /\ g.kind = "call" /\ ~g.named => p = g.nargs
                   /\ 0 .. p - 1 \subseteq I /\ I \subseteq (0 .. p - 1) \cup (0 .. g.formals - 1)
      BY <3>1, Zenon DEF Taken
    <3>9. I # {} => \E x \in DOMAIN t : LastMark(t, a, c, x) /\ ArgAt(t, x) = g.arg
      <4> SUFFICES ASSUME I # {} PROVE \E x \in DOMAIN t : LastMark(t, a, c, x) /\ ArgAt(t, x) = g.arg
        OBVIOUS
      <4>1. PICK x \in DOMAIN s : LastMark(s, a, Len(s), x) /\ ArgAt(s, x) = g.arg
        BY <3>1 DEF Taken
      <4>2. LastMark(t, a, c, x) /\ x \in M
        BY <3>5, <4>1, Zenon DEF LastMark
      <4>3. x \in DOMAIN t /\ ArgAt(t, x) = ArgAt(s, x)
        BY <1>1, <3>6, <4>2
      <4> QED
        BY <4>1, <4>2, <4>3
    <3>10. ASSUME g.kind # "for", NEW x \in M, ArgAt(t, x) \notin g.done PROVE Stops(t, x + 1)
      <4>1. ArgAt(s, x) \notin g.done /\ x \in 1 .. c
        BY <3>6, <3>10
      <4>2. Stops(s, x + 1)
        BY <3>1, <3>10, <4>1 DEF Taken
      <4>3. x + 1 \in DOMAIN t => x + 1 \in DOMAIN s /\ x + 1 \in 1 .. c
        BY <1>1, <4>1
      <4> QED
        BY <1>1, <4>2, <4>3 DEF Stops
    <3>11. g.kind # "for" => \A x \in MarksTo(t, a, c) : ArgAt(t, x) \notin g.done => Stops(t, x + 1)
      BY <3>5, <3>10
    <3> HIDE DEF I, M
    <3> QED
      BY <3>7, <3>8, <3>9, <3>11, Zenon DEF Taken
  <2> QED
    BY <2>1, <2>2
<1>11. Placed(t, gs)
  <2> SUFFICES ASSUME NEW k \in 1 .. c, IsCode(t, k)
               PROVE  Bounded(t[k].at) /\ \A h \in DOMAIN gs : gs[h].index < k => PlacedIn(t, k, gs[h], h)
    BY <1>1 DEF Placed
  <2>1. IsCode(s, k) /\ k \in DOMAIN s /\ t[k] = s[k]
    BY <1>1
  <2>2. ASSUME NEW h \in DOMAIN gs, gs[h].index < k PROVE PlacedIn(t, k, gs[h], h)
    <3>1. gs[h] = fs[h] /\ h \in DOMAIN fs /\ fs[h] \in Frames /\ h \in Nat
      BY <1>2
    <3>2. PlacedIn(s, k, fs[h], h)
      BY <1>3, <2>1, <2>2, <3>1 DEF Placed
    <3>3. SameFrame(fs[h], fs[h])
      BY DEF SameFrame
    <3> QED
      BY <3>1, <3>2, <3>3, PlacedInSame
  <2> QED
    BY <1>3, <2>1, <2>2 DEF Placed
<1>12. Numbered(t, gs, m)
  <2>1. \A k \in DOMAIN t : k \in DOMAIN s /\ t[k] = s[k] /\ (IsCode(t, k) <=> IsCode(s, k))
    BY <1>1
  <2> QED
    BY <1>2, <2>1 DEF Numbered
<1> QED
  BY <1>8, <1>9, <1>10, <1>11, <1>12 DEF Good, gs

(* A call is closed when it has all its arguments.                          *)
LEMMA GoodEnd ==
  ASSUME NEW s, NEW t, NEW l, Appended(s, End, t, l), NEW fs \in Seq(Frames), NEW m \in Nat, fs # <<>>,
         Good(s, fs), Numbered(s, fs, m), IsCall(Last(fs)),
         \E h \in 0 .. sMAXARGS : ArgsTo(s, Last(fs).index + 1, Len(s)) = 0 .. h - 1
  PROVE  Good(t, Front(fs)) /\ Numbered(t, Front(fs), m)
<1> DEFINE gs == Front(fs)
           j == Len(fs)
           f == fs[j]
           a == f.index + 1
<1>1. /\ l \in Nat \ {0} /\ Len(s) = l - 1 /\ Len(t) = l /\ s \in Seq(Tokens) /\ t \in Seq(Tokens) /\ t[l] = End
      /\ DOMAIN s = 1 .. l - 1 /\ DOMAIN t = 1 .. l /\ Same(s, t, l - 1)
      /\ \A k \in 1 .. l - 1 : /\ t[k] = s[k] /\ (IsMark(t, k) <=> IsMark(s, k)) /\ (IsCode(t, k) <=> IsCode(s, k))
  BY AppendedTokens
<1>2. l \in 1 .. Len(t) /\ ~IsMark(t, l) /\ t[l] # Start /\ ~IsCode(t, l)
  <2>1. l \in 1 .. Len(t)
    BY <1>1
  <2> QED
    BY <1>1, <2>1, TokenKinds
<1>3. Stacked(s, fs) /\ Parsed(s, fs) /\ Placed(s, fs) /\ Sound(s)
  BY DEF Good
<1>4. /\ gs \in Seq(Frames) /\ j \in Nat \ {0} /\ Len(gs) = j - 1
      /\ DOMAIN fs = 1 .. j /\ DOMAIN gs = 1 .. j - 1 /\ j \in DOMAIN fs
      /\ \A h \in 1 .. j - 1 : gs[h] = fs[h] /\ h \in DOMAIN fs
      /\ Last(fs) = f /\ f \in Frames
  BY PopFacts
<1>5. /\ Depth(t, l) = Depth(s, l - 1) - 1 /\ Depth(s, l - 1) \in Int
      /\ \A k \in 0 .. l - 1 : Depth(t, k) = Depth(s, k) /\ Depth(s, k) \in Int
  <2>1. l - 1 \in 0 .. l - 1
    BY <1>1
  <2> QED
    BY <2>1, AppendedDepth
<1>6. /\ a \in 1 .. l - 1 /\ s[a] = Start /\ Depth(s, f.index) \in Int /\ f.index \in Nat /\ f.index \in 0 .. l - 1
      /\ Depth(s, a) = Depth(s, f.index) + 1
      /\ \A k \in a .. l - 1 : Depth(s, k) \in Int /\ Depth(s, k) >= Depth(s, f.index) + 1
  <2>1. f.index \in Nat
    BY <1>4, FrameType
  <2>2. a \in 1 .. Len(s) => f.index \in 0 .. l - 1
    BY <1>1, <2>1
  <2> QED
    BY <1>1, <1>3, <1>4, <2>1, <2>2, CallFacts
<1>7. Depth(t, l) = Depth(s, f.index)
  <2>1. StackedAt(s, fs, j) /\ Opens(f) = 1 /\ Base(s, fs, j + 1) = Len(s)
    BY <1>3, <1>4, FrameType DEF Stacked, Base
  <2>2. Depth(s, l - 1) = Depth(s, f.index) + 1
    BY <1>1, <2>1 DEF StackedAt
  <2> QED
    BY <1>5, <1>6, <2>2
<1> HIDE DEF gs
<1>8. \A h \in 1 .. j : Depth(t, Base(t, gs, h)) = Depth(s, Base(s, fs, h))
  <2> SUFFICES ASSUME NEW h \in 1 .. j PROVE Depth(t, Base(t, gs, h)) = Depth(s, Base(s, fs, h))
    OBVIOUS
  <2>1. CASE h = j
    <3>1. Base(t, gs, h) = l /\ Base(s, fs, h) = f.index
      BY <1>1, <1>4, <2>1 DEF Base
    <3> QED
      BY <1>7, <3>1
  <2>2. CASE h # j
    <3>1. h \in DOMAIN gs /\ h \in DOMAIN fs /\ gs[h] = fs[h]
      BY <1>4, <2>2
    <3>2. fs[h].index \in 0 .. l - 1
      BY <1>1, <1>3, <3>1, EndDepth
    <3> QED
      BY <1>5, <3>1, <3>2 DEF Base
  <2> QED
    BY <2>1, <2>2
<1>9. ASSUME NEW h \in 1 .. j - 1 PROVE StackedAt(t, gs, h)
  <2> DEFINE g == fs[h]
             o == Opens(g)
  <2>1. /\ g.index \in Nat /\ ((IsCall(g) /\ o = 1) \/ (~IsCall(g) /\ o = 0)) /\ gs[h] = g
        /\ h \in DOMAIN fs /\ j > h
    BY <1>4, FrameType
  <2>2. StackedAt(s, fs, h)
    BY <1>3, <2>1 DEF Stacked
  <2>3. /\ g.index \in 0 .. l - 1 /\ g.index + o <= l - 1
        /\ (g.index > 0 => s[g.index] # Start)
        /\ g.kind \in {"for", "constant"} => h = 1 /\ g.index = 0
        /\ \A i \in DOMAIN fs : i > h => g.index + o <= fs[i].index
        /\ Depth(s, Base(s, fs, h + 1)) = Depth(s, g.index) + o
        /\ IsCall(g) => s[g.index + 1] = Start
        /\ ~IsCall(g) => g.arg = NoArg
        /\ \A k \in g.index + 1 .. l - 1 :
             /\ Depth(s, k) >= Depth(s, g.index) + o
             /\ ~IsCall(g) /\ IsMark(s, k) => Depth(s, k) > Depth(s, g.index)
    BY <1>1, <2>2, Zenon DEF StackedAt
  <2>4. Depth(s, f.index) >= Depth(s, g.index) + o
    BY <1>1, <1>3, <1>4, <2>1, EndDepth
  <2> HIDE DEF o
  <2>5. Depth(t, g.index) = Depth(s, g.index) /\ Depth(s, g.index) \in Int
    BY <1>5, <2>3
  <2>6. \A k \in g.index + 1 .. l :
             /\ Depth(t, k) >= Depth(t, g.index) + o
             /\ ~IsCall(g) /\ IsMark(t, k) => Depth(t, k) > Depth(t, g.index)
    <3> SUFFICES ASSUME NEW k \in g.index + 1 .. l
                 PROVE  /\ Depth(t, k) >= Depth(t, g.index) + o
                        /\ ~IsCall(g) /\ IsMark(t, k) => Depth(t, k) > Depth(t, g.index)
      OBVIOUS
    <3>1. CASE k = l
      BY <1>2, <1>7, <2>4, <2>5, <3>1
    <3>2. CASE k # l
      <4>1. k \in g.index + 1 .. l - 1 /\ k \in 1 .. l - 1 /\ k \in 0 .. l - 1
        BY <1>1, <2>1, <3>2
      <4> QED
        BY <1>1, <1>5, <2>3, <2>5, <4>1
    <3> QED
      BY <3>1, <3>2
  <2>7. Depth(t, Base(t, gs, h + 1)) = Depth(t, g.index) + o
    <3>1. h + 1 \in 1 .. j
      BY <1>4
    <3> QED
      BY <1>8, <2>3, <2>5, <3>1
  <2>8. (g.index > 0 => t[g.index] # Start) /\ (IsCall(g) => t[g.index + 1] = Start)
    <3>1. (g.index > 0 => g.index \in 1 .. l - 1) /\ (IsCall(g) => g.index + 1 \in 1 .. l - 1)
      BY <1>1, <2>1, <2>3
    <3> QED
      BY <1>1, <2>3, <3>1
  <2>9. g.index \in 0 .. l /\ g.index + o <= l
    BY <1>1, <2>1, <2>3
  <2>10. \A i \in DOMAIN gs : i > h => g.index + o <= gs[i].index
    BY <1>4, <2>3
  <2> HIDE DEF g
  <2> QED
    BY <1>1, <2>1, <2>3, <2>6, <2>7, <2>8, <2>9, <2>10, Zenon DEF StackedAt, o
<1>10. Stacked(t, gs)
  <2>1. Depth(t, Base(t, gs, 1)) = 0
    <3>1. 1 \in 1 .. j
      BY <1>4
    <3> QED
      BY <1>3, <1>8, <3>1 DEF Stacked
  <2> QED
    BY <1>1, <1>2, <1>4, <1>9, <2>1 DEF Stacked
<1>11. Sound(t)
  <2>1. NestedAt(t, l)
    <3>1. Depth(s, f.index) \in Nat
      BY <1>1, <1>3, <1>6, DepthNat
    <3>2. Stops(t, l)
      BY <1>1 DEF Stops
    <3> QED
      BY <1>2, <1>7, <3>1, <3>2 DEF NestedAt
  <2>2. ReplacedAt(t, l)
    BY <1>2 DEF ReplacedAt
  <2>3. CompleteAt(t, l)
    <3> SUFFICES ASSUME NEW b \in 1 .. l, Closes(t, b, l)
                 PROVE  \E h \in 0 .. sMAXARGS : ArgsTo(t, b, l) = 0 .. h - 1
      BY DEF CompleteAt
    <3>1. b < l /\ b \in 1 .. Len(t)
      BY <1>1, <1>2, ClosesAtEnd
    <3>2. b - 1 \in 0 .. l - 1 /\ \A k \in b .. l - 1 : k \in 0 .. l - 1
      BY <1>1, <3>1
    <3>3. Depth(s, b - 1) = Depth(s, f.index) /\ \A k \in b .. l - 1 : Depth(s, k) > Depth(s, f.index)
      BY <1>5, <1>7, <3>2 DEF Closes
    <3>4. ~(b <= f.index)
      <4> SUFFICES ASSUME b <= f.index PROVE FALSE
        OBVIOUS
      <4>1. f.index \in b .. l - 1
        BY <1>1, <1>6, <3>1
      <4> QED
        BY <1>6, <3>3, <4>1
    <3>5. ~(b > a)
      <4> SUFFICES ASSUME b > a PROVE FALSE
        OBVIOUS
      <4>1. b - 1 \in a .. l - 1
        BY <1>1, <1>6, <3>1
      <4> QED
        BY <1>6, <3>3, <4>1
    <3>6. b = a
      BY <1>6, <3>4, <3>5
    <3>7. MarksTo(t, a, l) = MarksTo(s, a, l - 1)
      <4>1. MarksTo(t, a, l - 1) = MarksTo(s, a, l - 1)
        <5>1. a \in Nat \ {0} /\ l - 1 \in Int /\ l - 1 <= l - 1
          BY <1>1, <1>6
        <5> QED
          BY <1>1, <5>1, SameMarks
      <4>2. (\A k \in a .. l - 1 : k \in a .. l) /\ \A k \in a .. l : k \in a .. l - 1 \/ k = l
        BY <1>1, <1>6
      <4>3. MarksTo(t, a, l) = MarksTo(t, a, l - 1)
        BY <1>2, <4>2, Zenon DEF MarksTo
      <4> QED
        BY <4>1, <4>3
    <3>8. \A k \in MarksTo(s, a, l - 1) : ArgAt(t, k) = ArgAt(s, k)
      <4>1. \A k \in MarksTo(s, a, l - 1) : k \in 1 .. l - 1
        BY <1>1, <1>6 DEF MarksTo
      <4> QED
        BY <4>1, AppendedTokens
    <3>9. ArgsTo(t, a, l) = ArgsTo(s, a, l - 1)
      BY <3>7, <3>8 DEF ArgsTo
    <3>10. PICK h \in 0 .. sMAXARGS : ArgsTo(s, a, l - 1) = 0 .. h - 1
      BY <1>1, <1>4
    <3> QED
      BY <3>6, <3>9, <3>10
  <2>4. OrderedAt(t, l)
    BY <1>2 DEF OrderedAt
  <2> QED
    BY <1>3, <2>1, <2>2, <2>3, <2>4, AppendedSound DEF SoundAt
<1>12. Parsed(t, gs)
  <2> SUFFICES ASSUME NEW h \in 1 .. j - 1 PROVE (IsCall(fs[h]) => Taken(t, fs[h])) /\ Inside(fs[h])
    BY <1>4 DEF Parsed
  <2>1. h \in DOMAIN fs /\ h # Len(fs) /\ fs[h] \in Frames
    BY <1>4
  <2>2. Inside(fs[h])
    BY <1>3, <2>1, Zenon DEF Parsed
  <2>3. ASSUME IsCall(fs[h]) PROVE Taken(t, fs[h])
    <3>1. Taken(s, fs[h]) /\ fs[h].index + 1 <= Len(s)
      BY <1>1, <1>3, <2>1, <2>3, CallFacts DEF Parsed
    <3> QED
      BY <1>1, <1>2, <2>1, <2>3, <3>1, TakenKeeps
  <2> QED
    BY <2>2, <2>3
<1>13. SameStack(fs, fs)
  BY DEF SameStack, SameFrame
<1>14. Placed(t, gs)
  <2> SUFFICES ASSUME NEW k \in DOMAIN t, IsCode(t, k)
               PROVE  Bounded(t[k].at) /\ \A h \in DOMAIN gs : gs[h].index < k => PlacedIn(t, k, gs[h], h)
    BY DEF Placed
  <2>1. k \in 1 .. l - 1
    BY <1>1, <1>2
  <2>2. Bounded(t[k].at) /\ \A h \in DOMAIN fs : fs[h].index < k => PlacedIn(t, k, fs[h], h)
    BY <1>3, <1>13, <2>1, PlacedKeeps
  <2> QED
    BY <1>4, <2>2
<1>15. Numbered(t, gs, m)
  <2>1. \A h \in DOMAIN fs : fs[h].index <= Len(s)
    BY <1>3 DEF Stacked, StackedAt
  <2>2. m <= m
    OBVIOUS
  <2>3. Numbered(t, fs, m)
    BY <1>2, <1>13, <2>1, <2>2, NumberedKeeps
  <2> QED
    BY <1>4, <2>3 DEF Numbered
<1> QED
  BY <1>10, <1>11, <1>12, <1>14, <1>15 DEF Good, gs

(* A call that has been parsed to its closing parenthesis has them.         *)
LEMMA AllArguments ==
  ASSUME NEW s \in Seq(Tokens), NEW fs \in Seq(Frames), NEW f \in Frames, IsCall(f), Taken(s, f),
         f.kind = "for" => f.arg = 1,
         f.kind # "for" => (0 .. f.formals - 1) \subseteq f.done
  PROVE  \E h \in 0 .. sMAXARGS : ArgsTo(s, f.index + 1, Len(s)) = 0 .. h - 1
<1> DEFINE I == ArgsTo(s, f.index + 1, Len(s))
<1>1. CASE f.kind = "for"
  <2>1. I = 0 .. 1
    BY <1>1 DEF Taken
  <2>2. 0 .. 1 = 0 .. 2 - 1 /\ 2 \in 0 .. sMAXARGS
    BY BoundsAssumption
  <2> QED
    BY <2>1, <2>2
<1>2. CASE f.kind # "for"
  <2>1. f.done \subseteq I /\ f.formals <= MaxFormals /\ f.formals \in Nat
    BY <1>2 DEF Taken, Frames
  <2>2. PICK p \in 0 .. sMAXARGS : 0 .. p - 1 \subseteq I /\ I \subseteq (0 .. p - 1) \cup (0 .. f.formals - 1)
    BY <1>2, Zenon DEF Taken
  <2> HIDE DEF I
  <2>3. I = (0 .. p - 1) \cup (0 .. f.formals - 1)
    BY <1>2, <2>1, <2>2
  <2>4. f.formals \in 0 .. sMAXARGS /\ p \in Int
    BY <2>1, BoundsAssumption
  <2>5. CASE p <= f.formals
    <3>1. I = 0 .. f.formals - 1
      BY <2>3, <2>4, <2>5
    <3> QED
      BY <2>4, <3>1 DEF I
  <2>6. CASE p > f.formals
    <3>1. I = 0 .. p - 1
      BY <2>3, <2>4, <2>6
    <3> QED
      BY <3>1 DEF I
  <2> QED
    BY <2>4, <2>5, <2>6
<1> QED
  BY <1>1, <1>2

-----------------------------------------------------------------------------
(***************************************************************************)
(* stgstring()                                                              *)
(***************************************************************************)
LEMMA PartFacts ==
  ASSUME NEW s \in Seq(Tokens), NEW p \in PartType, PartInv(s, p)
  PROVE  /\ p.start \in Nat \ {0} /\ p.end \in Nat /\ p.start <= p.end + 1 /\ p.end <= Len(s) /\ Len(s) \in Nat
         /\ Depth(s, p.start - 1) \in Int /\ Depth(s, p.end) = Depth(s, p.start - 1)
         /\ \A k \in p.start .. p.end :
              /\ k \in 1 .. Len(s) /\ Depth(s, k) \in Int /\ Depth(s, k) >= Depth(s, p.start - 1)
              /\ IsMark(s, k) => Depth(s, k) > Depth(s, p.start - 1)
<1>1. /\ 1 <= p.start /\ p.start <= p.end + 1 /\ p.end <= Len(s) /\ p.start \in Int /\ p.end \in Int /\ Len(s) \in Nat
      /\ Depth(s, p.end) = Depth(s, p.start - 1)
      /\ \A k \in p.start .. p.end : /\ Depth(s, k) >= Depth(s, p.start - 1)
                                     /\ IsMark(s, k) => Depth(s, k) > Depth(s, p.start - 1)
  BY DEF PartInv, PartType
<1>2. \A k \in p.start .. p.end : k \in 1 .. Len(s) /\ k \in Int
  BY <1>1
<1>3. p.start - 1 \in Int
  BY <1>1
<1> QED
  BY <1>1, <1>2, <1>3, DepthType

(* A call that begins in a part ends in it.                                 *)
LEMMA ClosingFacts ==
  ASSUME NEW s \in Seq(Tokens), NEW p \in PartType, PartInv(s, p), p.start <= p.end, s[p.start] = Start
  PROVE  LET a == p.start
             c == Closing(s, a)
         IN  a \in 1 .. Len(s) /\ c \in a + 1 .. p.end /\ Closes(s, a, c) /\ s[c] = End
<1> DEFINE a == p.start
           d == Depth(s, a - 1)
           S == {k \in a .. p.end : Depth(s, k) <= d}
           C(k) == Depth(s, k) = d /\ \A j \in a .. k - 1 : Depth(s, j) > d
<1>1. /\ a \in Nat \ {0} /\ p.end \in Nat /\ p.end <= Len(s) /\ Len(s) \in Nat /\ d \in Int /\ Depth(s, p.end) = d
      /\ \A k \in a .. p.end : k \in 1 .. Len(s) /\ Depth(s, k) \in Int /\ Depth(s, k) >= d
  BY PartFacts
<1>2. PICK c0 \in S : \A k \in S : c0 <= k
  <2>1. p.end \in S /\ S \in SUBSET Nat
    BY <1>1
  <2> QED
    BY <2>1, Least
<1>3. a \in 1 .. Len(s)
  BY <1>1
<1>4. c0 \in a .. p.end /\ c0 \in a .. Len(s) /\ Depth(s, c0) = d
  BY <1>1, <1>2
<1>5. \A j \in a .. c0 - 1 : Depth(s, j) > d
  <2> SUFFICES ASSUME NEW j \in a .. c0 - 1 PROVE Depth(s, j) > d
    OBVIOUS
  <2>1. j \in a .. p.end /\ ~(c0 <= j)
    BY <1>1, <1>4
  <2>2. j \notin S
    BY <1>2, <2>1
  <2> QED
    BY <1>1, <2>1, <2>2
<1>6. C(c0)
  BY <1>4, <1>5
<1> DEFINE c == Closing(s, a)
<1>7. c \in a .. Len(s) /\ C(c)
  <2>1. c = CHOOSE k \in a .. Len(s) : C(k)
    BY DEF Closing
  <2>2. \E k \in a .. Len(s) : C(k)
    BY <1>4, <1>6
  <2> HIDE DEF C, c
  <2> QED
    BY <2>1, <2>2, Zenon
<1>8. c <= c0
  <2> SUFFICES ASSUME c > c0 PROVE FALSE
    BY <1>1, <1>4, <1>7
  <2>1. c0 \in a .. c - 1
    BY <1>1, <1>4, <1>7
  <2> QED
    BY <1>1, <1>4, <1>7, <2>1
<1>9. Closes(s, a, c)
  BY <1>1, <1>7 DEF Closes
<1>10. c \in a .. p.end /\ c \in 1 .. Len(s)
  BY <1>1, <1>4, <1>7, <1>8
<1>11. s[c] = End /\ a < c
  BY <1>3, <1>9, <1>10, ClosesAtEnd
<1> QED
  BY <1>1, <1>3, <1>9, <1>10, <1>11

(* Of a call that is closed stgstring() finds all arguments.                *)
LEMMA DefinedFacts ==
  ASSUME NEW s \in Seq(Tokens), Sound(s), NEW a \in 1 .. Len(s), NEW c \in a + 1 .. Len(s), c = Closing(s, a), Closes(s, a, c)
  PROVE  /\ Marks(s, a) = MarksTo(s, a, c) /\ Indexes(s, a) = ArgsTo(s, a, c)
         /\ Argc(s, a) \in 0 .. sMAXARGS /\ Indexes(s, a) = 0 .. Argc(s, a) - 1 /\ Defined(s, a)
<1>1. Marks(s, a) = MarksTo(s, a, c)
  BY DEF Marks, MarksTo, IsMark
<1>2. Indexes(s, a) = ArgsTo(s, a, c)
  BY <1>1 DEF Indexes, ArgsTo
<1>3. PICK h \in 0 .. sMAXARGS : Indexes(s, a) = 0 .. h - 1
  <2>1. c \in DOMAIN s /\ a \in 1 .. c
    OBVIOUS
  <2>2. CompleteAt(s, c)
    BY <2>1 DEF Sound, SoundAt
  <2> QED
    BY <1>2, <2>1, <2>2 DEF CompleteAt
<1>4. h \in Nat /\ sMAXARGS \in Nat
  BY <1>3, BoundsAssumption
<1>5. Argc(s, a) = h
  <2>1. CASE Marks(s, a) = {}
    <3>1. Indexes(s, a) = {}
      BY <2>1 DEF Indexes
    <3>2. h = 0
      <4>1. h # 0 => 0 \in 0 .. h - 1
        BY <1>4
      <4> QED
        BY <1>3, <3>1, <4>1
    <3> QED
      BY <2>1, <3>2 DEF Argc
  <2>2. CASE Marks(s, a) # {}
    <3>1. Indexes(s, a) # {}
      BY <2>2 DEF Indexes
    <3>2. h - 1 \in 0 .. h - 1 /\ \A y \in 0 .. h - 1 : h - 1 >= y
      BY <1>3, <1>4, <3>1
    <3>3. \A x \in 0 .. h - 1 : (\A y \in 0 .. h - 1 : x >= y) => x = h - 1
      BY <3>2
    <3>4. Max(0 .. h - 1) = h - 1
      BY <3>2, <3>3, Zenon DEF Max
    <3> QED
      BY <1>3, <1>4, <2>2, <3>4 DEF Argc
  <2> QED
    BY <2>1, <2>2
<1> QED
  BY <1>1, <1>2, <1>3, <1>4, <1>5 DEF Defined

(* The part q of the argument i, between its last mark x and the next one   *)
(* or the end of the call, at y                                             *)
ArgumentIs(s, a, c, i, q, x, y) ==
  /\ x \in MarksTo(s, a, c) /\ y \in a + 1 .. c /\ x < y /\ y \in MarksTo(s, a, c) \cup {c}
  /\ q = Part(x + 1, y - 1)
  /\ ArgAt(s, x) = i /\ \A z \in MarksTo(s, a, c) : ArgAt(s, z) = i => z <= x
  /\ \A z \in MarksTo(s, a, c) : z > x => y <= z

(* The part of the last mark of an index ends before the next mark.         *)
LEMMA ArgumentFacts ==
  ASSUME NEW s \in Seq(Tokens), NEW a \in 1 .. Len(s), NEW c \in a + 1 .. Len(s), c = Closing(s, a), Closes(s, a, c),
         Marks(s, a) = MarksTo(s, a, c), NEW i \in Indexes(s, a)
  PROVE  \E x, y : ArgumentIs(s, a, c, i, Argument(s, a, i), x, y)
<1> DEFINE M == MarksTo(s, a, c)
           F == {k \in M : ArgAt(s, k) = i}
<1>1. a \in Nat /\ c \in Nat /\ Len(s) \in Nat
  OBVIOUS
<1>2. s[c] = End
  BY ClosesAtEnd
<1>3. \A z \in M : z \in a + 1 .. c - 1 /\ z \in Nat
  <2> SUFFICES ASSUME NEW z \in M PROVE z \in a + 1 .. c - 1
    BY <1>1
  <2>1. z \in a .. c /\ IsMark(s, z)
    BY DEF MarksTo
  <2>2. z # c /\ z # a
    BY <1>1, <1>2, <2>1, TokenKinds DEF Closes
  <2> QED
    BY <1>1, <2>1, <2>2
<1>4. F # {}
  BY DEF Indexes
<1> HIDE DEF M
<1>5. PICK x \in F : \A z \in F : z <= x
  <2>1. F \in SUBSET Nat /\ \A z \in F : z <= c
    BY <1>1, <1>3
  <2> QED
    BY <1>1, <1>4, <2>1, Greatest, Zenon
<1>6. Max(F) = x
  <2>1. \A z \in F : z \in Nat
    BY <1>3
  <2>2. \A z \in F : x >= z
    BY <1>5, <2>1
  <2>3. \A z \in F : (\A y \in F : z >= y) => z = x
    BY <1>5, <2>1
  <2> HIDE DEF F
  <2> QED
    BY <2>2, <2>3, Zenon DEF Max
<1> DEFINE G == {k \in M \cup {c} : k > x}
<1>7. PICK y \in G : \A z \in G : y <= z
  <2>1. x \in a + 1 .. c - 1 /\ x \in Nat
    BY <1>3
  <2>2. c > x
    BY <1>1, <2>1
  <2>3. c \in G
    BY <2>2
  <2>4. \A z \in G : z \in Nat
    BY <1>1, <1>3
  <2>5. G \in SUBSET Nat
    BY <2>4
  <2> HIDE DEF G
  <2> QED
    BY <2>3, <2>5, Least
<1>8. Min(G) = y
  <2>1. \A z \in G : z \in Nat
    BY <1>1, <1>3
  <2>2. \A z \in G : y <= z
    BY <1>7, <2>1
  <2>3. \A z \in G : (\A w \in G : z <= w) => z = y
    BY <1>7, <2>1
  <2> HIDE DEF G
  <2> QED
    BY <2>2, <2>3, Zenon DEF Min
<1>9. Argument(s, a, i) = Part(x + 1, y - 1)
  BY <1>6, <1>8 DEF Argument, M
<1>10. y \in a + 1 .. c
  BY <1>1, <1>3
<1>11. x \in M /\ ArgAt(s, x) = i /\ \A z \in M : ArgAt(s, z) = i => z <= x
  BY <1>5
<1>12. y \in M \cup {c} /\ x < y /\ \A z \in M : z > x => y <= z
  <2>1. x \in Nat /\ y \in Nat
    BY <1>1, <1>3
  <2> QED
    BY <1>7, <2>1
<1>13. ArgumentIs(s, a, c, i, Argument(s, a, i), x, y)
  BY <1>9, <1>10, <1>11, <1>12, Zenon DEF M, ArgumentIs
<1> QED
  BY <1>13

(* The tokens between two brackets that belong together                     *)
LEMMA BetweenFacts ==
  ASSUME NEW s \in Seq(Tokens), NEW a \in 1 .. Len(s), NEW c \in a + 1 .. Len(s), Closes(s, a, c)
  PROVE  /\ a \in Nat \ {0} /\ c \in Nat /\ a < c /\ c <= Len(s) /\ Len(s) \in Nat
         /\ Depth(s, a - 1) \in Int /\ Depth(s, a) = Depth(s, a - 1) + 1
         /\ s[a] = Start /\ s[c] = End
         /\ Depth(s, c) = Depth(s, a - 1) /\ Depth(s, c - 1) = Depth(s, a - 1) + 1
         /\ \A j \in a .. c - 1 : j \in 1 .. Len(s) /\ Depth(s, j) \in Int /\ Depth(s, j) >= Depth(s, a - 1) + 1
         /\ \A z \in MarksTo(s, a, c) : z \in a + 1 .. c - 1 /\ IsMark(s, z) /\ Depth(s, z) = Depth(s, a - 1) + 1
<1>1. a \in Nat \ {0} /\ c \in Nat /\ a < c /\ c <= Len(s) /\ Len(s) \in Nat /\ a - 1 \in Int /\ c \in 1 .. Len(s)
  OBVIOUS
<1>2. Depth(s, a - 1) \in Int
  BY <1>1, DepthType
<1>3. /\ s[a] = Start /\ Depth(s, c) = Depth(s, a - 1)
      /\ \A j \in a .. c - 1 : Depth(s, j) > Depth(s, a - 1)
  BY DEF Closes
<1>4. s[c] = End
  BY <1>1, ClosesAtEnd
<1>5. Depth(s, a) = Depth(s, a - 1) + 1
  BY <1>3, DepthStep
<1>6. Depth(s, c - 1) = Depth(s, a - 1) + 1
  <2>1. Depth(s, c) = Depth(s, c - 1) - 1 /\ Depth(s, c - 1) \in Int
    BY <1>1, <1>4, DepthStep, DepthType
  <2> QED
    BY <1>2, <1>3, <2>1
<1>7. \A j \in a .. c - 1 : j \in 1 .. Len(s) /\ Depth(s, j) \in Int /\ Depth(s, j) >= Depth(s, a - 1) + 1
  <2> SUFFICES ASSUME NEW j \in a .. c - 1
               PROVE  j \in 1 .. Len(s) /\ Depth(s, j) \in Int /\ Depth(s, j) >= Depth(s, a - 1) + 1
    OBVIOUS
  <2>1. j \in 1 .. Len(s) /\ j \in Int
    BY <1>1
  <2>2. Depth(s, j) \in Int
    BY <2>1, DepthType
  <2> QED
    BY <1>2, <1>3, <2>1, <2>2
<1>8. \A z \in MarksTo(s, a, c) : z \in a + 1 .. c - 1 /\ IsMark(s, z) /\ Depth(s, z) = Depth(s, a - 1) + 1
  <2> SUFFICES ASSUME NEW z \in MarksTo(s, a, c)
               PROVE  z \in a + 1 .. c - 1 /\ IsMark(s, z) /\ Depth(s, z) = Depth(s, a - 1) + 1
    OBVIOUS
  <2>1. z \in a .. c /\ IsMark(s, z) /\ Depth(s, z) = Depth(s, a)
    BY DEF MarksTo
  <2>2. z # c /\ z # a
    BY <1>1, <1>3, <1>4, <2>1, TokenKinds
  <2> QED
    BY <1>1, <1>5, <2>1, <2>2
<1> QED
  BY <1>1, <1>2, <1>3, <1>4, <1>5, <1>6, <1>7, <1>8

(* The tokens of an argument are a part stgstring() can be called for.     *)
LEMMA ArgumentPart ==
  ASSUME NEW s \in Seq(Tokens), NEW a \in 1 .. Len(s), NEW c \in a + 1 .. Len(s), Closes(s, a, c),
         NEW i, NEW q, NEW x, NEW y, ArgumentIs(s, a, c, i, q, x, y)
  PROVE  /\ x \in a + 1 .. c - 1 /\ y \in a + 1 .. c /\ x < y
         /\ q.start = x + 1 /\ q.end = y - 1 /\ q \in PartType /\ PartInv(s, q)
         /\ \A k \in x + 1 .. y - 1 : k \in a + 1 .. c - 1 /\ InArgumentOf(s, x, k)
<1> DEFINE d == Depth(s, a - 1)
<1>1. /\ a \in Nat \ {0} /\ c \in Nat /\ a < c /\ c <= Len(s) /\ Len(s) \in Nat /\ d \in Int
      /\ Depth(s, a) = d + 1 /\ s[a] = Start /\ s[c] = End /\ Depth(s, c) = d /\ Depth(s, c - 1) = d + 1
      /\ \A j \in a .. c - 1 : j \in 1 .. Len(s) /\ Depth(s, j) \in Int /\ Depth(s, j) >= d + 1
      /\ \A z \in MarksTo(s, a, c) : z \in a + 1 .. c - 1 /\ IsMark(s, z) /\ Depth(s, z) = d + 1
  BY BetweenFacts
<1> HIDE DEF d
<1>2. /\ x \in MarksTo(s, a, c) /\ y \in a + 1 .. c /\ x < y /\ y \in MarksTo(s, a, c) \cup {c}
      /\ q = Part(x + 1, y - 1)
      /\ \A z \in MarksTo(s, a, c) : z > x => y <= z
  BY DEF ArgumentIs
<1>3. x \in a + 1 .. c - 1 /\ IsMark(s, x) /\ Depth(s, x) = d + 1
  BY <1>1, <1>2
<1>4. q.start = x + 1 /\ q.end = y - 1 /\ q \in PartType
  BY <1>2, <1>3 DEF Part, PartType
<1>5. \A k \in x + 1 .. y - 1 : k \in a + 1 .. c - 1 /\ Depth(s, k) >= d + 1 /\ (IsMark(s, k) => Depth(s, k) > d + 1)
  <2> SUFFICES ASSUME NEW k \in x + 1 .. y - 1
               PROVE  k \in a + 1 .. c - 1 /\ Depth(s, k) >= d + 1 /\ (IsMark(s, k) => Depth(s, k) > d + 1)
    OBVIOUS
  <2>1. k \in a + 1 .. c - 1 /\ k \in a .. c /\ k > x /\ ~(y <= k)
    BY <1>1, <1>2, <1>3
  <2>2. Depth(s, k) >= d + 1 /\ Depth(s, k) \in Int
    BY <1>1, <2>1
  <2>3. IsMark(s, k) => Depth(s, k) # d + 1
    BY <1>1, <1>2, <2>1 DEF MarksTo
  <2> QED
    BY <1>1, <2>1, <2>2, <2>3
<1>6. Depth(s, y - 1) = d + 1
  <2>1. CASE y = c
    BY <1>1, <2>1
  <2>2. CASE y # c
    <3>1. y \in a + 1 .. c - 1 /\ IsMark(s, y) /\ Depth(s, y) = d + 1
      BY <1>1, <1>2, <2>2
    <3>2. y \in 1 .. Len(s)
      BY <1>1, <3>1
    <3> QED
      BY <3>1, <3>2, DepthStep
  <2> QED
    BY <2>1, <2>2
<1>7. PartInv(s, q)
  <2>1. q.start - 1 = x /\ q.start .. q.end = x + 1 .. y - 1
    BY <1>3, <1>4
  <2>2. 1 <= q.start /\ q.start <= q.end + 1 /\ q.end <= Len(s)
    BY <1>1, <1>2, <1>3, <1>4
  <2>3. Depth(s, q.end) = Depth(s, q.start - 1)
    BY <1>3, <1>4, <1>6, <2>1
  <2>4. \A k \in q.start .. q.end : /\ Depth(s, k) >= Depth(s, q.start - 1)
                                    /\ IsMark(s, k) => Depth(s, k) > Depth(s, q.start - 1)
    BY <1>3, <1>5, <2>1
  <2> QED
    BY <2>2, <2>3, <2>4 DEF PartInv
<1>8. \A k \in x + 1 .. y - 1 : InArgumentOf(s, x, k)
  <2> SUFFICES ASSUME NEW k \in x + 1 .. y - 1 PROVE InArgumentOf(s, x, k)
    OBVIOUS
  <2>1. x < k /\ \A j \in x + 1 .. k : j \in x + 1 .. y - 1
    BY <1>1, <1>2, <1>3
  <2> QED
    BY <1>3, <1>5, <2>1 DEF InArgumentOf
<1> QED
  BY <1>2, <1>3, <1>4, <1>5, <1>7, <1>8

(* Of two arguments the one with the higher index is written first, on      *)
(* whichever side of the other it is.                                       *)
LEMMA ArgumentPrecedes ==
  ASSUME NEW s \in Seq(Tokens), Sound(s), NEW a \in 1 .. Len(s), NEW c \in a + 1 .. Len(s), Closes(s, a, c),
         NEW i1 \in Int, NEW q1, NEW x1, NEW y1, ArgumentIs(s, a, c, i1, q1, x1, y1),
         NEW i2 \in Int, NEW q2, NEW x2, NEW y2, ArgumentIs(s, a, c, i2, q2, x2, y2),
         i1 > i2
  PROVE  Precedes(s, q1, q2)
<1> DEFINE d == Depth(s, a - 1)
<1>1. /\ a \in Nat \ {0} /\ c \in Nat /\ a < c /\ c <= Len(s) /\ Len(s) \in Nat /\ d \in Int
      /\ \A j \in a .. c - 1 : j \in 1 .. Len(s) /\ Depth(s, j) \in Int /\ Depth(s, j) >= d + 1
      /\ \A z \in MarksTo(s, a, c) : z \in a + 1 .. c - 1 /\ IsMark(s, z) /\ Depth(s, z) = d + 1
  BY BetweenFacts
<1> HIDE DEF d
<1>2. /\ x1 \in a + 1 .. c - 1 /\ y1 \in a + 1 .. c /\ x1 < y1 /\ q1.start = x1 + 1 /\ q1.end = y1 - 1
      /\ \A k \in x1 + 1 .. y1 - 1 : k \in a + 1 .. c - 1 /\ InArgumentOf(s, x1, k)
  BY ArgumentPart
<1>3. /\ x2 \in a + 1 .. c - 1 /\ y2 \in a + 1 .. c /\ x2 < y2 /\ q2.start = x2 + 1 /\ q2.end = y2 - 1
      /\ \A k \in x2 + 1 .. y2 - 1 : k \in a + 1 .. c - 1 /\ InArgumentOf(s, x2, k)
  BY ArgumentPart
<1>4. /\ x1 \in MarksTo(s, a, c) /\ ArgAt(s, x1) = i1 /\ \A z \in MarksTo(s, a, c) : z > x1 => y1 <= z
      /\ x2 \in MarksTo(s, a, c) /\ ArgAt(s, x2) = i2 /\ \A z \in MarksTo(s, a, c) : z > x2 => y2 <= z
  BY DEF ArgumentIs
<1>5. Depth(s, x1) = d + 1 /\ Depth(s, x2) = d + 1 /\ x1 # x2
  BY <1>1, <1>4
<1> SUFFICES ASSUME NEW k \in DOMAIN s, NEW l \in DOMAIN s, In(q1, k), In(q2, l)
             PROVE  k # l /\ (IsCode(s, k) /\ IsCode(s, l) => Before(s[k].at, s[l].at))
  BY DEF Precedes
<1>6. /\ k \in x1 + 1 .. y1 - 1 /\ k \in a + 1 .. c - 1 /\ InArgumentOf(s, x1, k)
      /\ l \in x2 + 1 .. y2 - 1 /\ l \in a + 1 .. c - 1 /\ InArgumentOf(s, x2, l)
  BY <1>2, <1>3 DEF In
<1>7. SoundAt(s, l) /\ SoundAt(s, k)
  BY DEF Sound
<1>8. CASE x1 < x2
  <2>1. y1 <= x2 /\ k < x2 /\ k < l /\ k \in 1 .. l - 1 /\ x1 \in 1 .. l /\ x2 \in 1 .. l
    <3>1. x1 \in Int /\ x2 \in Int /\ y1 \in Int /\ y2 \in Int /\ x1 >= 1 /\ x2 >= 1
      BY <1>1, <1>2, <1>3
    <3>2. y1 <= x2
      BY <1>4, <1>8, <3>1
    <3>3. k \in x1 + 1 .. y1 - 1 /\ l \in x2 + 1 .. y2 - 1
      BY <1>6
    <3> QED
      BY <1>8, <3>1, <3>2, <3>3
  <2>2. \A j \in x1 .. l : Depth(s, j) >= Depth(s, x1)
    BY <1>1, <1>2, <1>5, <1>6
  <2>3. Arguments(s, x1, k, x2, l)
    BY <1>5, <1>6, <2>1, <2>2 DEF Arguments
  <2>4. IsCode(s, k) /\ IsCode(s, l) => Before(s[k].at, s[l].at)
    BY <1>4, <1>7, <2>1, <2>3 DEF SoundAt, OrderedAt
  <2> QED
    BY <1>6, <2>1, <2>4
<1>9. CASE x2 < x1
  <2>1. y2 <= x1 /\ l < x1 /\ l < k /\ l \in 1 .. k - 1 /\ x1 \in 1 .. k /\ x2 \in 1 .. k
    <3>1. x1 \in Int /\ x2 \in Int /\ y1 \in Int /\ y2 \in Int /\ x1 >= 1 /\ x2 >= 1
      BY <1>1, <1>2, <1>3
    <3>2. y2 <= x1
      BY <1>4, <1>9, <3>1
    <3>3. k \in x1 + 1 .. y1 - 1 /\ l \in x2 + 1 .. y2 - 1
      BY <1>6
    <3> QED
      BY <1>9, <3>1, <3>2, <3>3
  <2>2. \A j \in x2 .. k : Depth(s, j) >= Depth(s, x2)
    BY <1>1, <1>3, <1>5, <1>6
  <2>3. Arguments(s, x2, l, x1, k)
    BY <1>5, <1>6, <2>1, <2>2 DEF Arguments
  <2>4. IsCode(s, k) /\ IsCode(s, l) => Before(s[k].at, s[l].at)
    BY <1>4, <1>7, <2>1, <2>3 DEF SoundAt, OrderedAt
  <2> QED
    BY <1>6, <2>1, <2>4
<1> QED
  BY <1>2, <1>3, <1>5, <1>8, <1>9

(* What comes behind a call is a part, and is written after its arguments.  *)
LEMMA RestPart ==
  ASSUME NEW s \in Seq(Tokens), NEW p \in PartType, PartInv(s, p),
         NEW a \in 1 .. Len(s), NEW c \in a + 1 .. Len(s), Closes(s, a, c), a = p.start, c <= p.end,
         NEW r, r = Part(c + 1, p.end)
  PROVE  r \in PartType /\ PartInv(s, r) /\ r.start = c + 1 /\ r.end = p.end
<1>1. /\ a \in Nat \ {0} /\ c \in Nat /\ a < c /\ Depth(s, c) = Depth(s, a - 1)
  BY BetweenFacts
<1>2. /\ p.end \in Nat /\ p.end <= Len(s) /\ Len(s) \in Nat /\ Depth(s, p.end) = Depth(s, a - 1)
      /\ \A k \in a .. p.end : /\ Depth(s, k) >= Depth(s, a - 1)
                               /\ IsMark(s, k) => Depth(s, k) > Depth(s, a - 1)
  BY PartFacts
<1>3. r.start = c + 1 /\ r.end = p.end /\ r \in PartType
  BY <1>1, <1>2 DEF Part, PartType
<1>4. r.start - 1 = c
  BY <1>1, <1>3
<1>5. \A k \in r.start .. r.end : k \in a .. p.end
  BY <1>1, <1>2, <1>3
<1>6. 1 <= r.start /\ r.start <= r.end + 1 /\ r.end <= Len(s)
  BY <1>1, <1>2, <1>3
<1> QED
  BY <1>1, <1>2, <1>3, <1>4, <1>5, <1>6 DEF PartInv

(* Arguments come before what is behind the call.                          *)
LEMMA ArgumentBeforeRest ==
  ASSUME NEW s \in Seq(Tokens), Sound(s), NEW p \in PartType, PartInv(s, p),
         NEW a \in 1 .. Len(s), NEW c \in a + 1 .. Len(s), Closes(s, a, c), a = p.start, c <= p.end,
         NEW r, r = Part(c + 1, p.end),
         NEW i, NEW q, NEW x, NEW y, ArgumentIs(s, a, c, i, q, x, y)
  PROVE  Precedes(s, q, r)
<1>1. /\ a \in Nat \ {0} /\ c \in Nat /\ a < c /\ Depth(s, c) = Depth(s, a - 1) /\ Depth(s, a - 1) \in Int
  BY BetweenFacts
<1>2. /\ p.end \in Nat /\ p.end <= Len(s) /\ Len(s) \in Nat
      /\ \A k \in a .. p.end : /\ Depth(s, k) >= Depth(s, a - 1)
                               /\ IsMark(s, k) => Depth(s, k) > Depth(s, a - 1)
  BY PartFacts
<1>3. /\ q.start = x + 1 /\ q.end = y - 1
      /\ \A k \in x + 1 .. y - 1 : k \in a + 1 .. c - 1 /\ InArgumentOf(s, x, k)
  BY ArgumentPart
<1>4. r.start = c + 1 /\ r.end = p.end
  BY RestPart
<1> SUFFICES ASSUME NEW k \in DOMAIN s, NEW l \in DOMAIN s, In(q, k), In(r, l)
             PROVE  k # l /\ (IsCode(s, k) /\ IsCode(s, l) => Before(s[k].at, s[l].at))
  BY DEF Precedes
<1>5. k \in a + 1 .. c - 1 /\ l \in c + 1 .. p.end
  BY <1>3, <1>4 DEF In
<1>6. k < l /\ k \in 1 .. l - 1 /\ c \in k .. l /\ k # l /\ \A j \in k .. l : j \in a .. p.end
  BY <1>1, <1>2, <1>5
<1>7. SameArgument(s, k, l)
  BY <1>1, <1>2, <1>6 DEF SameArgument
<1>8. SoundAt(s, l)
  BY DEF Sound
<1> QED
  BY <1>6, <1>7, <1>8 DEF SoundAt, OrderedAt

(* Every line of a call is in one of its arguments: nothing is between its  *)
(* beginning and the first mark, and what was replaced is empty.            *)
LEMMA LineInArgument ==
  ASSUME NEW s \in Seq(Tokens), Sound(s),
         NEW a \in 1 .. Len(s), NEW c \in a + 1 .. Len(s), Closes(s, a, c),
         NEW k \in a + 1 .. c - 1, IsCode(s, k)
  PROVE  \E x \in MarksTo(s, a, c) :
           /\ x < k
           /\ \A z \in MarksTo(s, a, c) : z > x => k < z
           /\ \A z \in MarksTo(s, a, c) : ArgAt(s, z) = ArgAt(s, x) => z <= x
<1> DEFINE d == Depth(s, a - 1)
           M == MarksTo(s, a, c)
           B == {z \in M : z < k}
<1>1. /\ a \in Nat \ {0} /\ c \in Nat /\ a < c /\ c <= Len(s) /\ Len(s) \in Nat /\ d \in Int
      /\ Depth(s, a) = d + 1 /\ s[a] = Start /\ s[c] = End
      /\ \A j \in a .. c - 1 : j \in 1 .. Len(s) /\ Depth(s, j) \in Int /\ Depth(s, j) >= d + 1
      /\ \A z \in M : z \in a + 1 .. c - 1 /\ IsMark(s, z) /\ Depth(s, z) = d + 1
  BY BetweenFacts
<1>2. \A z \in a + 1 .. c - 1 : IsMark(s, z) /\ Depth(s, z) = d + 1 => z \in M
  BY <1>1 DEF MarksTo
<1> HIDE DEF d, M
<1>3. k \in Int /\ k \in 1 .. Len(s) /\ ~IsMark(s, k) /\ s[k] # End /\ s[k] # Start
  BY <1>1, TokenKinds
(* A bracket or a mark in front of a line, at depth d + 1, has a mark or the *)
(* end behind it: then that mark is in front of the line, too.              *)
<1>4. ASSUME NEW z \in a .. k - 1, Depth(s, z) = d + 1, Stops(s, z + 1)
      PROVE  z + 1 \in B
  <2>1. z + 1 \in a + 1 .. c - 1 /\ z + 1 \in a .. c - 1 /\ z + 1 \in DOMAIN s /\ z + 1 <= k /\ (z + 1) - 1 = z /\ z + 1 \in 1 .. Len(s)
    BY <1>1, <1>3
  <2>2. IsMark(s, z + 1) \/ s[z + 1] = End
    BY <1>4, <2>1 DEF Stops
  <2>3. s[z + 1] # End
    <3> SUFFICES ASSUME s[z + 1] = End PROVE FALSE
      OBVIOUS
    <3>1. Depth(s, z + 1) = Depth(s, z) - 1
      BY <2>1, DepthStep
    <3>2. Depth(s, z + 1) >= d + 1
      BY <1>1, <2>1
    <3> QED
      BY <1>1, <1>4, <3>1, <3>2
  <2>4. Depth(s, z + 1) = d + 1
    BY <1>4, <2>1, <2>2, <2>3, DepthStep
  <2>5. z + 1 # k
    BY <1>3, <2>2, <2>3
  <2> QED
    BY <1>2, <1>3, <2>1, <2>2, <2>3, <2>4, <2>5
<1>5. B # {} /\ B \in SUBSET Nat /\ \A z \in B : z <= k
  <2>1. B \in SUBSET Nat /\ \A z \in B : z <= k
    BY <1>1, <1>3
  <2>2. a + 1 \in DOMAIN s /\ a + 1 > 1 /\ (a + 1) - 1 = a /\ a \in a .. k - 1
    BY <1>1, <1>3
  <2>3. NestedAt(s, a + 1)
    BY <2>2 DEF Sound, SoundAt
  <2>4. Stops(s, a + 1)
    BY <1>1, <2>2, <2>3 DEF NestedAt
  <2> QED
    BY <1>1, <1>4, <2>1, <2>2, <2>4
<1>6. k \in Nat
  BY <1>1, <1>3
<1>7. PICK x \in B : \A z \in B : z <= x
  <2> HIDE DEF B
  <2> QED
    BY <1>5, <1>6, Greatest
<1>8. x \in M /\ x < k /\ x \in a + 1 .. c - 1 /\ x \in Nat /\ IsMark(s, x) /\ Depth(s, x) = d + 1
  BY <1>1, <1>7
<1>9. \A z \in M : z > x => k < z
  <2> SUFFICES ASSUME NEW z \in M, z > x PROVE k < z
    OBVIOUS
  <2>1. z \in Int /\ z # k
    BY <1>1, <1>3
  <2>2. z \notin B
    BY <1>7, <1>8, <2>1
  <2> QED
    BY <1>3, <2>1, <2>2
<1>10. \A z \in M : ArgAt(s, z) = ArgAt(s, x) => z <= x
  <2> SUFFICES ASSUME NEW z \in M, ArgAt(s, z) = ArgAt(s, x), ~(z <= x) PROVE FALSE
    OBVIOUS
  <2>1. z \in a + 1 .. c - 1 /\ z \in DOMAIN s /\ IsMark(s, z) /\ Depth(s, z) = d + 1 /\ z > x /\ x \in 1 .. z - 1
    BY <1>1, <1>8
  <2>2. ReplacedAt(s, z)
    BY <2>1 DEF Sound, SoundAt
  <2>3. \A j \in x .. z : Depth(s, j) >= Depth(s, x)
    BY <1>1, <1>8, <2>1
  <2>4. Stops(s, x + 1)
    BY <1>8, <2>1, <2>2, <2>3 DEF ReplacedAt
  <2>5. x + 1 \in B
    BY <1>1, <1>3, <1>4, <1>8, <2>4
  <2> QED
    BY <1>7, <1>8, <2>5
<1> QED
  BY <1>8, <1>9, <1>10 DEF M

(* Smaller parts keep their order.                                         *)
LEMMA PrecedesParts ==
  ASSUME NEW s, NEW p, NEW q, NEW p2, NEW q2, Precedes(s, p, q),
         \A k \in DOMAIN s : (In(p2, k) => In(p, k)) /\ (In(q2, k) => In(q, k))
  PROVE  Precedes(s, p2, q2)
BY DEF Precedes

(* The arguments of a call in reverse and what is behind it, for the part  *)
(* that was the first                                                      *)
IsNewTodo(T, h, A, r, td, td2) ==
  /\ td2 \in Seq(T) /\ Len(td2) = h + Len(td) /\ Len(td) \in Nat \ {0} /\ td2 # <<>>
  /\ \A j \in 1 .. h : td2[j] = A[j]
  /\ td2[h + 1] = r
  /\ \A j \in h + 2 .. h + Len(td) : j - h \in 2 .. Len(td) /\ td2[j] = td[j - h]

LEMMA NewTodo ==
  ASSUME NEW T, NEW h \in Nat, NEW A, A \in [1 .. h -> T], NEW r \in T, NEW td \in Seq(T), td # <<>>
  PROVE  IsNewTodo(T, h, A, r, td, A \o <<r>> \o Tail(td))
<1> DEFINE td2 == A \o <<r>> \o Tail(td)
<1>1. A \in Seq(T) /\ Len(A) = h
  BY SMT
<1>2. Len(td) \in Nat \ {0} /\ Tail(td) \in Seq(T) /\ Len(Tail(td)) = Len(td) - 1
      /\ \A j \in 1 .. Len(td) - 1 : Tail(td)[j] = td[j + 1]
  OBVIOUS
<1> DEFINE B == A \o <<r>>
<1>3. B \in Seq(T) /\ Len(B) = h + 1 /\ B[h + 1] = r /\ \A j \in 1 .. h : B[j] = A[j]
  BY <1>1
<1>4. td2 = B \o Tail(td)
  OBVIOUS
<1> HIDE DEF B, td2
<1> DEFINE C == Tail(td)
<1> HIDE DEF C
<1>c. /\ td2 = B \o C /\ C \in Seq(T)
      /\ \A i \in 1 .. Len(B) + Len(C) : (B \o C)[i] = IF i <= Len(B) THEN B[i] ELSE C[i - Len(B)]
  <2>1. C \in Seq(T) /\ td2 = B \o C
    BY <1>2, <1>4 DEF C
  <2> QED
    BY <1>3, <2>1, ConcatProperties
<1>5. td2 \in Seq(T) /\ Len(td2) = h + Len(td)
  <2>1. Len(C) = Len(td) - 1
    BY <1>2 DEF C
  <2>2. Len(B \o C) = Len(B) + Len(C) /\ B \o C \in Seq(T)
    BY <1>3, <1>c, ConcatProperties
  <2> QED
    BY <1>2, <1>3, <1>c, <2>1, <2>2
<1>6. \A j \in 1 .. h + 1 : td2[j] = B[j]
  <2>1. Len(C) \in Nat
    BY <1>c
  <2> QED
    BY <1>3, <1>c, <2>1
<1>7. \A j \in h + 2 .. h + Len(td) : j - h \in 2 .. Len(td) /\ td2[j] = td[j - h]
  <2> SUFFICES ASSUME NEW j \in h + 2 .. h + Len(td) PROVE j - h \in 2 .. Len(td) /\ td2[j] = td[j - h]
    OBVIOUS
  <2>1. j - h \in 2 .. Len(td) /\ j - (h + 1) \in 1 .. Len(td) - 1 /\ (j - (h + 1)) + 1 = j - h
    BY <1>2
  <2>2. td2[j] = Tail(td)[j - (h + 1)]
    <3>1. Len(B) = h + 1 /\ Len(C) = Len(td) - 1
      BY <1>2, <1>3 DEF C
    <3>2. j \in 1 .. Len(B) + Len(C) /\ ~(j <= Len(B)) /\ j - Len(B) = j - (h + 1)
      BY <1>2, <3>1
    <3>3. td2[j] = C[j - (h + 1)]
      BY <1>c, <3>2
    <3> QED
      BY <3>3 DEF C
  <2> QED
    BY <1>2, <2>1, <2>2
<1>8. td2 # <<>>
  BY <1>2, <1>5
<1>9. \A j \in 1 .. h : td2[j] = A[j]
  BY <1>3, <1>6
<1>10. td2[h + 1] = r
  BY <1>3, <1>6
<1> QED
  BY <1>2, <1>5, <1>7, <1>8, <1>9, <1>10 DEF td2, IsNewTodo

Entered(s, td, p, h, c) ==
  [j \in 1 .. h |-> Argument(s, p.start, h - j)] \o <<Part(c + 1, p.end)>> \o Tail(td)

(* stgstring() goes into a call: nothing gets lost, and the order is that   *)
(* of execution.                                                            *)
LEMMA ReorderedParts ==
  ASSUME NEW s \in Seq(Tokens), Sound(s), NEW td \in Seq(PartType), td # <<>>, Parts(s, td),
         NEW p, p = Head(td), p.start <= p.end, s[p.start] = Start,
         NEW h, h = Argc(s, p.start), NEW c, c = Closing(s, p.start),
         NEW td2, td2 = Entered(s, td, p, h, c)
  PROVE  /\ td2 \in Seq(PartType) /\ td2 # <<>> /\ Parts(s, td2)
         /\ Waiting(s, td2) = Waiting(s, td)
<1> DEFINE a == p.start
           A == [j \in 1 .. h |-> Argument(s, a, h - j)]
           r == Part(c + 1, p.end)
           M == MarksTo(s, a, c)
<1>1. p = td[1] /\ p \in PartType /\ PartInv(s, p) /\ 1 \in DOMAIN td /\ DOMAIN td = 1 .. Len(td)
  BY DEF Parts
<1>2. a \in 1 .. Len(s) /\ c \in a + 1 .. p.end /\ Closes(s, a, c)
  BY <1>1, ClosingFacts
<1>3. c \in a + 1 .. Len(s) /\ c <= p.end /\ p.end \in Nat /\ a \in Nat /\ c \in Nat
  BY <1>1, <1>2, PartFacts
<1>4. /\ Marks(s, a) = M /\ h \in 0 .. sMAXARGS /\ Indexes(s, a) = 0 .. h - 1
  BY <1>2, <1>3, DefinedFacts
<1>5. h \in Nat
  BY <1>4, BoundsAssumption
<1>6. ASSUME NEW i \in 0 .. h - 1
      PROVE  \E x, y : ArgumentIs(s, a, c, i, Argument(s, a, i), x, y)
  <2>1. i \in Indexes(s, a)
    BY <1>4
  <2> QED
    BY <1>2, <1>3, <1>4, <2>1, ArgumentFacts, Zenon
<1> HIDE DEF M
<1>7. ASSUME NEW j \in 1 .. h
      PROVE  /\ h - j \in 0 .. h - 1 /\ A[j] = Argument(s, a, h - j)
             /\ A[j] \in PartType /\ PartInv(s, A[j]) /\ Precedes(s, A[j], r)
             /\ \A k : In(A[j], k) => In(p, k)
  <2>1. h - j \in 0 .. h - 1 /\ A[j] = Argument(s, a, h - j)
    BY <1>5
  <2>2. PICK x, y : ArgumentIs(s, a, c, h - j, A[j], x, y)
    BY <1>6, <2>1
  <2> HIDE DEF A
  <2>3. /\ x \in a + 1 .. c - 1 /\ y \in a + 1 .. c /\ A[j].start = x + 1 /\ A[j].end = y - 1
        /\ A[j] \in PartType /\ PartInv(s, A[j])
    BY <1>2, <1>3, <2>2, ArgumentPart
  <2>4. Precedes(s, A[j], r)
    BY <1>1, <1>2, <1>3, <2>2, ArgumentBeforeRest
  <2>5. \A k : In(A[j], k) => In(p, k)
    <3>1. x + 1 .. y - 1 \subseteq a .. p.end
      BY <1>3, <2>3
    <3> QED
      BY <2>3, <3>1 DEF In
  <2> QED
    BY <2>1, <2>3, <2>4, <2>5
<1>8. ASSUME NEW i \in 1 .. h, NEW j \in 1 .. h, i < j
      PROVE  Precedes(s, A[i], A[j])
  <2>1. h - i \in 0 .. h - 1 /\ h - j \in 0 .. h - 1 /\ h - i > h - j /\ h - i \in Int /\ h - j \in Int
    BY <1>5, <1>8
  <2>2. A[i] = Argument(s, a, h - i) /\ A[j] = Argument(s, a, h - j)
    OBVIOUS
  <2> HIDE DEF A
  <2>3. PICK x1, y1 : ArgumentIs(s, a, c, h - i, A[i], x1, y1)
    BY <1>6, <2>1, <2>2
  <2>4. PICK x2, y2 : ArgumentIs(s, a, c, h - j, A[j], x2, y2)
    BY <1>6, <2>1, <2>2
  <2> QED
    BY <1>2, <1>3, <2>1, <2>3, <2>4, ArgumentPrecedes
<1>9. r \in PartType /\ PartInv(s, r) /\ r.start = c + 1 /\ r.end = p.end
  BY <1>1, <1>2, <1>3, RestPart
<1>10. \A k : In(r, k) => In(p, k)
  BY <1>3, <1>9 DEF In
<1>11. A \in [1 .. h -> PartType]
  BY <1>7
<1>12. td2 = A \o <<r>> \o Tail(td)
  BY DEF Entered
<1> HIDE DEF A, r
<1>13. /\ td2 \in Seq(PartType) /\ Len(td2) = h + Len(td) /\ Len(td) \in Nat \ {0} /\ td2 # <<>>
       /\ \A j \in 1 .. h : td2[j] = A[j]
       /\ td2[h + 1] = r
       /\ \A j \in h + 2 .. h + Len(td) : j - h \in 2 .. Len(td) /\ td2[j] = td[j - h]
  <2>1. IsNewTodo(PartType, h, A, r, td, td2)
    BY <1>5, <1>9, <1>11, <1>12, NewTodo, Zenon
  <2> QED
    BY <2>1 DEF IsNewTodo
<1>14. DOMAIN td2 = 1 .. h + Len(td)
  BY <1>5, <1>13
<1>15. \A j \in DOMAIN td2 : j \in 1 .. h \/ j = h + 1 \/ (j \in h + 2 .. h + Len(td) /\ j - h \in DOMAIN td /\ j - h > 1)
  BY <1>1, <1>5, <1>13, <1>14
<1>16. \A j \in DOMAIN td2 : PartInv(s, td2[j])
  <2> SUFFICES ASSUME NEW j \in DOMAIN td2 PROVE PartInv(s, td2[j])
    OBVIOUS
  <2>1. CASE j \in 1 .. h
    BY <1>7, <1>13, <2>1
  <2>2. CASE j = h + 1
    BY <1>9, <1>13, <2>2
  <2>3. CASE j \in h + 2 .. h + Len(td) /\ j - h \in DOMAIN td
    BY <1>13, <2>3, Zenon DEF Parts
  <2> QED
    BY <1>15, <2>1, <2>2, <2>3
<1>17. \A i, j \in DOMAIN td2 : i < j => Precedes(s, td2[i], td2[j])
  <2> SUFFICES ASSUME NEW i \in DOMAIN td2, NEW j \in DOMAIN td2, i < j PROVE Precedes(s, td2[i], td2[j])
    OBVIOUS
  <2>0. i \in Int /\ j \in Int
    BY <1>5, <1>13, <1>14
  <2>1. CASE j \in 1 .. h
    <3>1. i \in 1 .. h
      BY <1>5, <1>14, <2>0, <2>1
    <3> QED
      BY <1>8, <1>13, <2>1, <3>1
  <2>2. CASE j = h + 1
    <3>1. i \in 1 .. h
      BY <1>5, <1>14, <2>0, <2>2
    <3> QED
      BY <1>7, <1>13, <2>2, <3>1
  <2>3. CASE j \in h + 2 .. h + Len(td) /\ j - h \in DOMAIN td /\ j - h > 1
    <3>1. td2[j] = td[j - h]
      BY <1>13, <2>3
    <3>2. CASE i \in 1 .. h + 1
      <4>1. Precedes(s, p, td[j - h])
        BY <1>1, <2>3 DEF Parts
      <4>2. \A k : In(td2[i], k) => In(p, k)
        <5>1. i \in 1 .. h \/ i = h + 1
          BY <1>5, <2>0, <3>2
        <5> QED
          BY <1>7, <1>10, <1>13, <5>1
      <4> QED
        BY <3>1, <4>1, <4>2, PrecedesParts
    <3>3. CASE i \in h + 2 .. h + Len(td) /\ i - h \in DOMAIN td
      <4>1. i - h < j - h
        BY <1>5, <2>0
      <4>2. Precedes(s, td[i - h], td[j - h])
        BY <2>3, <3>3, <4>1 DEF Parts
      <4> QED
        BY <1>13, <3>1, <3>3, <4>2
    <3>4. i \in 1 .. h + 1 \/ (i \in h + 2 .. h + Len(td) /\ i - h \in DOMAIN td)
      <4>1. i = h + 1 => i \in 1 .. h + 1
        BY <1>5
      <4>2. i \in 1 .. h => i \in 1 .. h + 1
        BY <1>5
      <4> QED
        BY <1>15, <4>1, <4>2
    <3> QED
      BY <3>2, <3>3, <3>4
  <2> QED
    BY <1>15, <2>1, <2>2, <2>3
<1>18. ASSUME NEW k \in DOMAIN s, IsCode(s, k)
       PROVE  (\E i \in DOMAIN td : In(td[i], k)) <=> \E i \in DOMAIN td2 : In(td2[i], k)
  <2>1. ASSUME NEW i \in DOMAIN td2, In(td2[i], k)
        PROVE  \E j \in DOMAIN td : In(td[j], k)
    <3>1. CASE i \in 1 .. h \/ i = h + 1
      BY <1>1, <1>7, <1>10, <1>13, <2>1, <3>1
    <3>2. CASE i \in h + 2 .. h + Len(td) /\ i - h \in DOMAIN td
      BY <1>13, <2>1, <3>2
    <3> QED
      BY <1>15, <3>1, <3>2
  <2>2. ASSUME NEW i \in DOMAIN td, i # 1, In(td[i], k)
        PROVE  \E j \in DOMAIN td2 : In(td2[j], k)
    <3>1. h + i \in h + 2 .. h + Len(td) /\ h + i \in DOMAIN td2 /\ (h + i) - h = i
      BY <1>1, <1>5, <1>14, <2>2
    <3>2. td2[h + i] = td[(h + i) - h]
      BY <1>13, <3>1
    <3>3. In(td2[h + i], k)
      BY <2>2, <3>1, <3>2
    <3> QED
      BY <3>1, <3>3
  <2>3. ASSUME In(p, k)
        PROVE  \E j \in DOMAIN td2 : In(td2[j], k)
    <3>1. k \in a .. p.end /\ k \in 1 .. Len(s)
      BY <2>3 DEF In
    <3>2. s[a] = Start /\ s[c] = End
      BY <1>2, <1>3, BetweenFacts
    <3>3. k # a /\ k # c
      BY <1>18, <3>1, <3>2, TokenKinds
    <3>4. CASE k > c
      <4>1. In(r, k)
        BY <1>3, <1>9, <3>1, <3>4 DEF In
      <4>2. h + 1 \in DOMAIN td2
        BY <1>5, <1>13, <1>14
      <4> QED
        BY <1>13, <4>1, <4>2
    <3>5. CASE k < c
      <4>1. k \in a + 1 .. c - 1
        BY <1>3, <3>1, <3>3, <3>5
      <4>2. PICK x \in M : /\ x < k
                           /\ \A z \in M : z > x => k < z
                           /\ \A z \in M : ArgAt(s, z) = ArgAt(s, x) => z <= x
        BY <1>2, <1>3, <1>18, <4>1, LineInArgument DEF M
      <4> DEFINE i == ArgAt(s, x)
      <4>3. i \in 0 .. h - 1
        BY <1>4 DEF Indexes
      <4> HIDE DEF i
      <4>4. PICK x1, y1 : ArgumentIs(s, a, c, i, Argument(s, a, i), x1, y1)
        BY <1>6, <4>3
      <4>5. /\ x1 \in M /\ y1 \in a + 1 .. c /\ x1 < y1 /\ y1 \in M \cup {c}
            /\ ArgAt(s, x1) = i /\ \A z \in M : ArgAt(s, z) = i => z <= x1
        BY <4>4 DEF ArgumentIs, M
      <4>6. x \in Nat /\ x1 \in Nat
        BY <1>2, <1>3, <4>5, BetweenFacts DEF M
      <4>7. x1 = x
        BY <4>2, <4>5, <4>6 DEF i
      <4>8. k < y1
        BY <1>3, <3>1, <3>5, <4>2, <4>5, <4>7
      <4>9. Argument(s, a, i).start = x1 + 1 /\ Argument(s, a, i).end = y1 - 1
        BY <1>2, <1>3, <4>4, ArgumentPart
      <4>10. In(Argument(s, a, i), k)
        BY <3>1, <4>2, <4>5, <4>6, <4>7, <4>8, <4>9 DEF In
      <4>11. h - i \in 1 .. h /\ h - (h - i) = i /\ h - i \in DOMAIN td2
        <5>1. i \in Int /\ Len(td) \in Nat
          BY <1>13, <4>3
        <5>2. h - i \in 1 .. h /\ h - (h - i) = i
          BY <1>5, <4>3, <5>1
        <5> QED
          BY <1>5, <1>14, <5>1, <5>2
      <4>12. A[h - i] = Argument(s, a, i)
        BY <4>11 DEF A
      <4> QED
        <5>1. td2[h - i] = Argument(s, a, i)
          BY <1>13, <4>11, <4>12
        <5> QED
          BY <4>10, <4>11, <5>1
    <3>6. k < c \/ k > c
      BY <1>3, <3>1, <3>3
    <3> QED
      BY <3>4, <3>5, <3>6
  <2> QED
    BY <1>1, <2>1, <2>2, <2>3
<1>19. Waiting(s, td2) = Waiting(s, td)
  BY <1>13, <1>18 DEF Waiting
<1> QED
  BY <1>13, <1>16, <1>17, <1>19 DEF Parts

(* Another part in place of the first                                      *)
IsNextTodo(T, r, td, td2) ==
  /\ td2 \in Seq(T) /\ Len(td2) = Len(td) /\ Len(td) \in Nat \ {0} /\ td2 # <<>>
  /\ td2[1] = r /\ \A j \in 2 .. Len(td) : td2[j] = td[j]

LEMMA NextTodo ==
  ASSUME NEW T, NEW r \in T, NEW td \in Seq(T), td # <<>>
  PROVE  IsNextTodo(T, r, td, <<r>> \o Tail(td))
<1> DEFINE B == <<r>>
           C == Tail(td)
           td2 == B \o C
<1>1. /\ Len(td) \in Nat \ {0} /\ C \in Seq(T) /\ Len(C) = Len(td) - 1
      /\ \A j \in 1 .. Len(td) - 1 : C[j] = td[j + 1]
  OBVIOUS
<1>2. B \in Seq(T) /\ Len(B) = 1 /\ B[1] = r
  OBVIOUS
<1> HIDE DEF B, C
<1>3. /\ td2 \in Seq(T) /\ Len(td2) = Len(B) + Len(C)
      /\ \A i \in 1 .. Len(B) + Len(C) : td2[i] = IF i <= Len(B) THEN B[i] ELSE C[i - Len(B)]
  BY <1>1, <1>2, ConcatProperties
<1> HIDE DEF td2
<1>4. Len(td2) = Len(td) /\ td2 # <<>> /\ td2[1] = r
  BY <1>1, <1>2, <1>3
<1>5. \A j \in 2 .. Len(td) : td2[j] = td[j]
  <2> SUFFICES ASSUME NEW j \in 2 .. Len(td) PROVE td2[j] = td[j]
    OBVIOUS
  <2>1. j \in 1 .. Len(B) + Len(C) /\ ~(j <= Len(B)) /\ j - Len(B) = j - 1 /\ j - 1 \in 1 .. Len(td) - 1 /\ (j - 1) + 1 = j
    BY <1>1, <1>2
  <2>2. td2[j] = C[j - 1]
    BY <1>3, <2>1
  <2> QED
    BY <1>1, <2>1, <2>2
<1> QED
  BY <1>1, <1>3, <1>4, <1>5 DEF td2, B, C, IsNextTodo

(* A block up to the next call has only lines, in the order of execution,   *)
(* and is written before the rest.                                          *)
Block(s, p, stop) == stop = Min({k \in p.start .. p.end : s[k] = Start} \union {p.end + 1})

LEMMA BlockFacts ==
  ASSUME NEW s \in Seq(Tokens), NEW p \in PartType, PartInv(s, p), p.start <= p.end, s[p.start] # Start,
         NEW stop, Block(s, p, stop)
  PROVE  /\ stop \in p.start + 1 .. p.end + 1
         /\ \A k \in p.start .. stop - 1 : k \in 1 .. Len(s) /\ IsCode(s, k) /\ Depth(s, k) = Depth(s, p.start - 1)
<1> DEFINE S == {k \in p.start .. p.end : s[k] = Start} \union {p.end + 1}
           b == Depth(s, p.start - 1)
<1>1. /\ p.start \in Nat \ {0} /\ p.end \in Nat /\ p.end <= Len(s) /\ Len(s) \in Nat /\ b \in Int
      /\ \A k \in p.start .. p.end : /\ k \in 1 .. Len(s) /\ Depth(s, k) \in Int /\ Depth(s, k) >= b
                                     /\ IsMark(s, k) => Depth(s, k) > b
  BY PartFacts
<1> HIDE DEF b
<1>2. PICK m \in S : \A k \in S : m <= k
  <2>1. S \in SUBSET Nat /\ S # {}
    BY <1>1
  <2> HIDE DEF S
  <2> QED
    BY <2>1, Least
<1>3. stop = m
  <2>1. \A k \in S : k \in Nat
    BY <1>1
  <2>2. \A z \in S : (\A w \in S : z <= w) => z = m
    BY <1>2, <2>1
  <2>3. stop = CHOOSE z \in S : \A w \in S : z <= w
    BY DEF Block, Min
  <2> HIDE DEF S
  <2> QED
    BY <1>2, <2>2, <2>3, Zenon
<1>4. stop \in p.start .. p.end + 1 /\ stop \in Int
  BY <1>1, <1>2, <1>3
<1>5. stop # p.start
  <2>1. p.start \notin S
    BY <1>1
  <2> QED
    BY <1>2, <1>3, <2>1
<1>6. \A k \in p.start .. stop - 1 : k \in p.start .. p.end /\ s[k] # Start
  <2> SUFFICES ASSUME NEW k \in p.start .. stop - 1 PROVE k \in p.start .. p.end /\ s[k] # Start
    OBVIOUS
  <2>1. k \in p.start .. p.end /\ ~(stop <= k)
    BY <1>1, <1>4
  <2>2. k \notin S
    BY <1>2, <1>3, <2>1
  <2> QED
    BY <2>1, <2>2
<1> DEFINE W == {k \in p.start .. stop - 1 : ~(IsCode(s, k) /\ Depth(s, k) = b)}
<1>7. W = {}
  <2> SUFFICES ASSUME W # {} PROVE FALSE
    OBVIOUS
  <2>1. W \in SUBSET Nat
    BY <1>1
  <2>2. PICK k \in W : \A l \in W : k <= l
    <3> HIDE DEF W
    <3> QED
      BY <2>1, Least
  <2>3. k \in p.start .. p.end /\ k \in 1 .. Len(s) /\ s[k] # Start /\ k \in p.start .. stop - 1
    BY <1>1, <1>6, <2>2
  <2>4. Depth(s, k - 1) = b
    <3>1. CASE k = p.start
      BY <3>1 DEF b
    <3>2. CASE k # p.start
      <4>1. k - 1 \in p.start .. stop - 1 /\ ~(k <= k - 1)
        BY <1>1, <1>4, <2>3, <3>2
      <4>2. k - 1 \notin W
        BY <2>2, <4>1
      <4> QED
        BY <4>1, <4>2
    <3> QED
      BY <3>1, <3>2
  <2>5. Depth(s, k) \in Int /\ Depth(s, k) >= b /\ (IsMark(s, k) => Depth(s, k) > b)
    BY <1>1, <2>3
  <2>6. s[k] # End /\ ~IsMark(s, k)
    BY <1>1, <2>3, <2>4, <2>5, DepthStep
  <2>7. IsCode(s, k)
    BY <2>3, <2>6, TokenKinds
  <2>8. Depth(s, k) = b
    BY <2>3, <2>4, <2>7, DepthStep
  <2> QED
    BY <2>2, <2>7, <2>8
<1>8. \A k \in p.start .. stop - 1 : k \in 1 .. Len(s) /\ IsCode(s, k) /\ Depth(s, k) = b
  BY <1>1, <1>6, <1>7
<1> QED
  BY <1>1, <1>4, <1>5, <1>8 DEF b

IsFirst(td, p) == p = Head(td)
IsRest(td, p, stop, td2) == td2 = <<Part(stop, p.end)>> \o Tail(td)

LEMMA BlockParts ==
  ASSUME NEW s \in Seq(Tokens), Sound(s), NEW td \in Seq(PartType), td # <<>>, Parts(s, td),
         NEW p, IsFirst(td, p), p.start <= p.end, s[p.start] # Start,
         NEW stop, Block(s, p, stop),
         NEW td2, IsRest(td, p, stop, td2)
  PROVE  /\ stop \in p.start + 1 .. p.end + 1 /\ p.start \in Nat \ {0} /\ p.end \in Nat
         /\ td2 \in Seq(PartType) /\ td2 # <<>> /\ Parts(s, td2)
         /\ p.start .. stop - 1 \subseteq Waiting(s, td)
         /\ Waiting(s, td2) = Waiting(s, td) \ (p.start .. stop - 1)
         /\ \A k, l \in p.start .. stop - 1 : k < l => Before(s[k].at, s[l].at)
         /\ \A k \in p.start .. stop - 1, l \in Waiting(s, td2) : Before(s[k].at, s[l].at)
<1> DEFINE a == p.start
           b == Depth(s, a - 1)
           r == Part(stop, p.end)
           B == a .. stop - 1
<1>1. p = td[1] /\ p \in PartType /\ PartInv(s, p) /\ 1 \in DOMAIN td /\ DOMAIN td = 1 .. Len(td)
  BY DEF Parts, IsFirst
<1>2. /\ stop \in a + 1 .. p.end + 1
      /\ \A k \in B : k \in 1 .. Len(s) /\ IsCode(s, k) /\ Depth(s, k) = b
  BY <1>1, BlockFacts
<1>3. /\ a \in Nat \ {0} /\ p.end \in Nat /\ p.end <= Len(s) /\ Len(s) \in Nat /\ b \in Int /\ Depth(s, p.end) = b
      /\ \A k \in a .. p.end : /\ k \in 1 .. Len(s) /\ Depth(s, k) \in Int /\ Depth(s, k) >= b
                               /\ IsMark(s, k) => Depth(s, k) > b
  BY <1>1, PartFacts
<1> HIDE DEF b
<1>4. /\ r \in PartType /\ r.start = stop /\ r.end = p.end /\ stop \in Nat
  BY <1>2, <1>3 DEF Part, PartType
<1>5. PartInv(s, r)
  <2>1. stop - 1 \in B
    BY <1>2, <1>3
  <2>2. Depth(s, r.start - 1) = b
    BY <1>2, <1>4, <2>1
  <2>3. \A k \in r.start .. r.end : k \in a .. p.end
    BY <1>2, <1>3, <1>4
  <2>4. 1 <= r.start /\ r.start <= r.end + 1 /\ r.end <= Len(s)
    BY <1>2, <1>3, <1>4
  <2> QED
    BY <1>3, <1>4, <2>2, <2>3, <2>4 DEF PartInv
<1>6. /\ \A k : In(r, k) => In(p, k)
      /\ \A k \in B : In(p, k) /\ ~In(r, k)
      /\ \A k : In(p, k) => k \in B \/ In(r, k)
  BY <1>2, <1>3, <1>4 DEF In
<1>7. IsNextTodo(PartType, r, td, td2)
  <2>1. IsNextTodo(PartType, r, td, <<r>> \o Tail(td))
    BY <1>4, NextTodo, Zenon
  <2> QED
    BY <2>1 DEF IsRest
<1> HIDE DEF r
<1>8. /\ td2 \in Seq(PartType) /\ Len(td2) = Len(td) /\ Len(td) \in Nat \ {0} /\ td2 # <<>>
      /\ td2[1] = r /\ \A j \in 2 .. Len(td) : td2[j] = td[j]
  BY <1>7 DEF IsNextTodo
<1>9. DOMAIN td2 = DOMAIN td /\ \A j \in DOMAIN td : j = 1 \/ (j \in 2 .. Len(td) /\ j > 1 /\ j # 1)
  BY <1>1, <1>8
<1>10. \A j \in DOMAIN td : \A k : In(td2[j], k) => In(td[j], k)
  BY <1>1, <1>6, <1>8, <1>9
<1>11. Parts(s, td2)
  <2>1. \A j \in DOMAIN td2 : PartInv(s, td2[j])
    BY <1>5, <1>8, <1>9 DEF Parts
  <2>2. \A i, j \in DOMAIN td2 : i < j => Precedes(s, td2[i], td2[j])
    <3> SUFFICES ASSUME NEW i \in DOMAIN td, NEW j \in DOMAIN td, i < j PROVE Precedes(s, td2[i], td2[j])
      BY <1>9
    <3>1. Precedes(s, td[i], td[j])
      BY DEF Parts
    <3> QED
      BY <1>10, <3>1, PrecedesParts
  <2> QED
    BY <2>1, <2>2 DEF Parts
<1>12. B \subseteq Waiting(s, td)
  <2> SUFFICES ASSUME NEW k \in B PROVE k \in Waiting(s, td)
    OBVIOUS
  <2>1. k \in DOMAIN s /\ IsCode(s, k) /\ In(td[1], k)
    BY <1>1, <1>2, <1>6
  <2> QED
    BY <1>1, <2>1 DEF Waiting
<1>13. ASSUME NEW k \in B, NEW j \in 2 .. Len(td) PROVE ~In(td[j], k)
  <2>1. j \in DOMAIN td /\ 1 < j
    BY <1>1
  <2>2. Precedes(s, td[1], td[j])
    BY <1>1, <2>1 DEF Parts
  <2>3. k \in DOMAIN s /\ In(td[1], k)
    BY <1>1, <1>2, <1>6
  <2> QED
    BY <2>2, <2>3 DEF Precedes
<1> HIDE DEF B
<1>14. Waiting(s, td2) = Waiting(s, td) \ B
  <2>1. ASSUME NEW k \in Waiting(s, td2) PROVE k \in Waiting(s, td) /\ k \notin B
    <3>1. PICK j \in DOMAIN td : In(td2[j], k)
      BY <1>8, <1>9, <2>1 DEF Waiting
    <3>2. k \in DOMAIN s /\ IsCode(s, k)
      BY <2>1 DEF Waiting
    <3>3. In(td[j], k)
      BY <1>10, <3>1
    <3>4. k \notin B
      BY <1>6, <1>8, <1>9, <1>13, <3>1
    <3> QED
      BY <3>2, <3>3, <3>4 DEF Waiting
  <2>2. ASSUME NEW k \in Waiting(s, td), k \notin B PROVE k \in Waiting(s, td2)
    <3>1. PICK j \in DOMAIN td : In(td[j], k)
      BY <2>2 DEF Waiting
    <3>2. k \in DOMAIN s /\ IsCode(s, k)
      BY <2>2 DEF Waiting
    <3>3. In(td2[j], k)
      BY <1>1, <1>6, <1>8, <1>9, <2>2, <3>1
    <3> QED
      BY <1>9, <3>2, <3>3 DEF Waiting
  <2> QED
    BY <2>1, <2>2
<1>15. ASSUME NEW k \in B, NEW l \in a .. p.end, IsCode(s, l), k < l
       PROVE  Before(s[k].at, s[l].at)
  <2>1. k \in a .. stop - 1
    BY DEF B
  <2>2. k \in a .. p.end /\ l \in 1 .. Len(s) /\ k \in 1 .. l - 1 /\ \A j \in k .. l : j \in a .. p.end
    BY <1>2, <1>3, <1>15, <2>1
  <2>3. Depth(s, k) = b /\ k \in k .. l /\ IsCode(s, k)
    BY <1>2, <1>3, <2>1, <2>2
  <2>4. SameArgument(s, k, l)
    BY <1>3, <2>2, <2>3 DEF SameArgument
  <2>5. SoundAt(s, l)
    BY <2>2 DEF Sound
  <2> QED
    BY <1>15, <2>2, <2>3, <2>4, <2>5 DEF SoundAt, OrderedAt
<1>16. \A k, l \in B : k < l => Before(s[k].at, s[l].at)
  <2>1. \A l \in B : l \in a .. p.end /\ IsCode(s, l)
    BY <1>2, <1>3 DEF B
  <2> QED
    BY <1>15, <2>1
<1>17. \A k \in B, l \in Waiting(s, td2) : Before(s[k].at, s[l].at)
  <2> SUFFICES ASSUME NEW k \in B, NEW l \in Waiting(s, td2) PROVE Before(s[k].at, s[l].at)
    OBVIOUS
  <2>1. l \in DOMAIN s /\ IsCode(s, l)
    BY DEF Waiting
  <2>2. PICK j \in DOMAIN td : In(td2[j], l)
    BY <1>8, <1>9 DEF Waiting
  <2>3. CASE j = 1
    <3>1. l \in stop .. p.end
      BY <1>4, <1>8, <2>2, <2>3 DEF In, r
    <3>2. l \in a .. p.end /\ k < l
      BY <1>2, <1>3, <1>4, <3>1 DEF B
    <3> QED
      BY <1>15, <2>1, <3>2
  <2>4. CASE j \in 2 .. Len(td) /\ j > 1
    <3>1. In(td[j], l)
      BY <1>10, <2>2
    <3>2. Precedes(s, td[1], td[j])
      BY <1>1, <2>4 DEF Parts
    <3>3. k \in DOMAIN s /\ IsCode(s, k) /\ In(td[1], k)
      BY <1>1, <1>2, <1>6 DEF B
    <3> QED
      BY <2>1, <3>1, <3>2, <3>3 DEF Precedes
  <2> QED
    BY <1>9, <2>3, <2>4
<1> QED
  BY <1>2, <1>3, <1>8, <1>11, <1>12, <1>14, <1>16, <1>17 DEF B

-----------------------------------------------------------------------------
(***************************************************************************)
(* The code index and the file                                              *)
(***************************************************************************)
All(s) == Codes(s, Len(s))

LEMMA CodesType ==
  ASSUME NEW s, NEW k \in Nat
  PROVE  IsFiniteSet(Codes(s, k)) /\ Cardinality(Codes(s, k)) \in Nat /\ \A j \in Codes(s, k) : j \in 1 .. k /\ IsCode(s, j)
<1>1. IsFiniteSet(1 .. k)
  BY FS_Interval
<1>2. Codes(s, k) \in SUBSET (1 .. k)
  BY DEF Codes
<1>3. IsFiniteSet(Codes(s, k))
  BY <1>1, <1>2, FS_Subset
<1> QED
  BY <1>2, <1>3, FS_CardinalityType DEF Codes

LEMMA WaitingAll ==
  ASSUME NEW s \in Seq(Tokens)
  PROVE  Waiting(s, <<>>) = All(s) /\ Len(s) \in Nat
BY DEF Waiting, All, Codes

LEMMA CodesSame ==
  ASSUME NEW s, NEW t, NEW m, Same(s, t, m), NEW k \in 0 .. m
  PROVE  Codes(s, k) = Codes(t, k) /\ \A j \in Codes(s, k) : s[j].at = t[j].at
<1>1. \A j \in 1 .. k : j \in 1 .. m
  BY DEF Same
<1>2. \A j \in 1 .. k : s[j] = t[j] /\ (IsCode(s, j) <=> IsCode(t, j))
  BY <1>1, SameTokens
<1> QED
  BY <1>2 DEF Codes

LEMMA CodesAppended ==
  ASSUME NEW s, NEW e, NEW t, NEW l, Appended(s, e, t, l)
  PROVE  /\ ~IsCode(t, l) => All(t) = All(s)
         /\ IsCode(t, l) => All(t) = All(s) \cup {l} /\ Cardinality(All(t)) = Cardinality(All(s)) + 1
         /\ \A k \in All(s) : k \in 1 .. l - 1 /\ s[k].at = t[k].at
         /\ Cardinality(All(s)) \in Nat
<1>1. /\ l \in Nat \ {0} /\ Len(s) = l - 1 /\ Len(t) = l
      /\ \A k \in 1 .. l - 1 : t[k] = s[k] /\ (IsCode(t, k) <=> IsCode(s, k))
  BY AppendedTokens
<1>2. l - 1 \in Nat /\ 1 .. l = (1 .. l - 1) \cup {l} /\ l \notin 1 .. l - 1
  BY <1>1
<1>3. IsFiniteSet(All(s)) /\ Cardinality(All(s)) \in Nat
  BY <1>1, <1>2, CodesType DEF All
<1>4. ~IsCode(t, l) => All(t) = All(s)
  BY <1>1, <1>2 DEF All, Codes
<1>5. IsCode(t, l) => All(t) = All(s) \cup {l}
  BY <1>1, <1>2 DEF All, Codes
<1>6. l \notin All(s)
  BY <1>1, <1>2 DEF All, Codes
<1>7. IsCode(t, l) => Cardinality(All(t)) = Cardinality(All(s)) + 1
  BY <1>3, <1>5, <1>6, FS_AddElement
<1>8. \A k \in All(s) : k \in 1 .. l - 1 /\ s[k].at = t[k].at
  BY <1>1 DEF All, Codes
<1> QED
  BY <1>3, <1>4, <1>5, <1>7, <1>8

(* A line of the file is before every line that is generated now.          *)
LEMMA OlderBefore ==
  ASSUME NEW p \in Places, NEW q \in Places, Bounded(p), NEW i \in Int, Line(p) < i, q[1][1] = i
  PROVE  Before(p, q)
<1>1. 1 \in DOMAIN p /\ 1 \in DOMAIN q /\ p[1] \in Int \X Int
  BY DEF Places
<1>2. p[1][1] <= Line(p) /\ p[1][1] \in Int
  BY <1>1 DEF Bounded
<1>3. Line(p) \in Int
  <2>1. p \in Seq(Int \X Int) /\ p # <<>>
    BY DEF Places
  <2>2. Len(p) \in DOMAIN p
    BY <2>1
  <2>3. p[Len(p)] \in Int \X Int
    BY <2>1, <2>2
  <2> QED
    BY <2>3 DEF Line, Last
<1>4. p[1][1] < q[1][1]
  BY <1>2, <1>3
<1>5. \A h \in 1 .. 1 - 1 : p[h] = q[h]
  OBVIOUS
<1> QED
  BY <1>1, <1>4, <1>5, FirstBefore

(* A file that is older than the frames, or than the line itself, is ahead  *)
(* of a new line.                                                           *)
LEMMA AheadPlace ==
  ASSUME NEW fl \in Seq(Places), NEW fs \in Seq(Frames), NEW m \in Nat, Older(fl, fs, m), fl # <<>>
  PROVE  Before(fl[Len(fl)], Place(fs, m))
<1> DEFINE q == Place(fs, m)
           p == fl[Len(fl)]
<1>1. Len(fl) \in DOMAIN fl /\ p \in Places
  OBVIOUS
<1>2. Bounded(p) /\ Line(p) < m /\ \A j \in DOMAIN fs : Line(p) < fs[j].at
  BY <1>1 DEF Older
<1>3. /\ q \in Places /\ q[Len(fs) + 1] = <<m, 0>> /\ \A j \in DOMAIN fs : q[j] = <<fs[j].at, -fs[j].arg>>
  BY PlaceType
<1> HIDE DEF q, p
<1>4. CASE fs = <<>>
  <2>1. q[1] = <<m, 0>>
    BY <1>3, <1>4
  <2> QED
    BY <1>1, <1>2, <1>3, <2>1, OlderBefore DEF p, q
<1>5. CASE fs # <<>>
  <2>1. 1 \in DOMAIN fs
    BY <1>5
  <2>2. q[1][1] = fs[1].at /\ fs[1].at \in Int
    BY <1>3, <2>1, FrameType
  <2>3. Line(p) < fs[1].at
    BY <1>2, <2>1
  <2> QED
    BY <1>1, <1>2, <1>3, <2>2, <2>3, OlderBefore DEF p, q
<1> QED
  BY <1>4, <1>5

(* All that holds of the buffer, the frames and the file while no code is   *)
(* being written                                                            *)
Quiet(s, fs, m, fl, sz, cx, kp, wr) ==
  /\ Good(s, fs) /\ Numbered(s, fs, m) /\ Older(fl, fs, m) /\ Ahead(fl, s, All(s))
  /\ wr => Accounts(fl, sz, s, All(s), fs, cx, kp)
QuietType(s, fs, m, fl, sz, cx, kp) ==
  /\ s \in Seq(Tokens) /\ fs \in Seq(Frames) /\ m \in Nat /\ fl \in Seq(Places) /\ sz \in Int /\ cx \in Int
  /\ kp \subseteq Places

LEMMA OlderMore ==
  ASSUME NEW fl \in Seq(Places), NEW fs \in Seq(Frames), NEW m \in Nat, Older(fl, fs, m)
  PROVE  Older(fl, fs, m + 1)
<1>1. \A k \in DOMAIN fl : Line(fl[k]) \in Int
  <2> SUFFICES ASSUME NEW k \in DOMAIN fl PROVE Line(fl[k]) \in Int
    OBVIOUS
  <2>1. fl[k] \in Seq(Int \X Int) /\ fl[k] # <<>>
    BY DEF Places
  <2>2. fl[k][Len(fl[k])] \in Int \X Int
    BY <2>1
  <2> QED
    BY <2>2 DEF Line, Last
<1> QED
  BY <1>1 DEF Older

LEMMA KeepMore ==
  ASSUME NEW s, NEW fs, NEW m, NEW fl, NEW sz, NEW cx, NEW kp, NEW wr,
         QuietType(s, fs, m, fl, sz, cx, kp), Quiet(s, fs, m, fl, sz, cx, kp, wr)
  PROVE  Quiet(s, fs, m + 1, fl, sz, cx, kp, wr)
BY OlderMore, NumberedMore DEF Quiet, QuietType

(* The code index of a frame stays that of the buffer in front of it.       *)
LEMMA AccountsAppended ==
  ASSUME NEW s, NEW e, NEW t, NEW l, Appended(s, e, t, l), NEW fs \in Seq(Frames), NEW gs, DOMAIN gs = DOMAIN fs,
         \A j \in DOMAIN fs : gs[j].index = fs[j].index /\ gs[j].cidx = fs[j].cidx /\ fs[j].index \in 0 .. Len(s),
         NEW fl, NEW sz \in Int, NEW cx, NEW kp, Accounts(fl, sz, s, All(s), fs, cx, kp)
  PROVE  /\ ~IsCode(t, l) => Accounts(fl, sz, t, All(t), gs, cx, kp)
         /\ IsCode(t, l) => Accounts(fl, sz, t, All(t), gs, cx + 1, kp \cup {t[l].at})
<1>1. /\ ~IsCode(t, l) => All(t) = All(s)
      /\ IsCode(t, l) => All(t) = All(s) \cup {l} /\ Cardinality(All(t)) = Cardinality(All(s)) + 1
      /\ \A k \in All(s) : k \in 1 .. l - 1 /\ s[k].at = t[k].at
      /\ Cardinality(All(s)) \in Nat
  BY CodesAppended
<1>2. Same(s, t, l - 1) /\ Len(s) = l - 1
  BY AppendedTokens
<1>3. \A j \in DOMAIN gs : gs[j].cidx = sz + Cardinality(Codes(t, gs[j].index))
  <2> SUFFICES ASSUME NEW j \in DOMAIN gs PROVE gs[j].cidx = sz + Cardinality(Codes(t, gs[j].index))
    OBVIOUS
  <2>1. Codes(s, fs[j].index) = Codes(t, fs[j].index)
    BY <1>2, CodesSame
  <2> QED
    BY <2>1 DEF Accounts
<1>4. {s[k].at : k \in All(s)} = {t[k].at : k \in All(s)}
  BY <1>1
<1>5. cx = sz + Cardinality(All(s)) /\ kp = Range(fl) \cup {s[k].at : k \in All(s)}
  BY DEF Accounts
<1>6. CASE ~IsCode(t, l)
  BY <1>1, <1>3, <1>4, <1>5, <1>6 DEF Accounts
<1>7. CASE IsCode(t, l)
  <2>1. cx + 1 = sz + Cardinality(All(t))
    BY <1>1, <1>5, <1>7
  <2>2. kp \cup {t[l].at} = Range(fl) \cup {t[k].at : k \in All(t)}
    BY <1>1, <1>4, <1>5, <1>7
  <2> QED
    BY <1>3, <1>7, <2>1, <2>2 DEF Accounts
<1> QED
  BY <1>6, <1>7

LEMMA StackedIndex ==
  ASSUME NEW s, NEW fs, Stacked(s, fs), NEW j \in DOMAIN fs
  PROVE  fs[j].index \in 0 .. Len(s)
BY DEF Stacked, StackedAt

(* A new line                                                               *)
LEMMA KeepLine ==
  ASSUME NEW s, NEW fs, NEW m, NEW fl, NEW sz, NEW cx, NEW kp, NEW wr,
         QuietType(s, fs, m, fl, sz, cx, kp), Quiet(s, fs, m, fl, sz, cx, kp, wr), AllInside(fs),
         NEW t, NEW l, Appended(s, Code(Place(fs, m)), t, l)
  PROVE  Quiet(t, fs, m + 1, fl, sz, cx + 1, kp \cup {Place(fs, m)}, wr)
<1> USE DEF QuietType
<1>1. Appended(s, Code(Place(fs, m)), t, l)
  OBVIOUS
<1>2. Good(t, fs) /\ Numbered(t, fs, m + 1)
  BY <1>1, GoodLine DEF Quiet
<1>3. Older(fl, fs, m + 1)
  BY OlderMore DEF Quiet
<1>4. t[l] = Code(Place(fs, m)) /\ IsCode(t, l) /\ t[l].at = Place(fs, m)
  BY <1>1, AppendedTokens DEF IsCode, Code
<1>a. All(t) = All(s) \cup {l} /\ \A k \in All(s) : s[k].at = t[k].at
  <2>1. /\ IsCode(t, l) => All(t) = All(s) \cup {l} /\ Cardinality(All(t)) = Cardinality(All(s)) + 1
        /\ \A k \in All(s) : k \in 1 .. l - 1 /\ s[k].at = t[k].at
    BY <1>1, CodesAppended
  <2> QED
    BY <1>4, <2>1
<1>5. Ahead(fl, t, All(t))
  <2> SUFFICES ASSUME fl # <<>>, NEW k \in All(t) PROVE Before(fl[Len(fl)], t[k].at)
    BY DEF Ahead
  <2>1. CASE k = l
    BY <1>4, <2>1, AheadPlace DEF Quiet
  <2>2. CASE k \in All(s)
    <3>1. s[k].at = t[k].at
      BY <1>a, <2>2
    <3> QED
      BY <2>2, <3>1 DEF Quiet, Ahead
  <2> QED
    BY <1>a, <2>1, <2>2
<1>6. wr => Accounts(fl, sz, t, All(t), fs, cx + 1, kp \cup {Place(fs, m)})
  <2>1. \A j \in DOMAIN fs : fs[j].index \in 0 .. Len(s)
    BY StackedIndex DEF Quiet, Good
  <2> QED
    BY <1>1, <1>4, <2>1, AccountsAppended DEF Quiet
<1> QED
  BY <1>2, <1>3, <1>5, <1>6 DEF Quiet

(* A mark is no line.                                                      *)
LEMMA AheadAppended ==
  ASSUME NEW s, NEW e, NEW t, NEW l, Appended(s, e, t, l), ~IsCode(t, l), NEW fl, Ahead(fl, s, All(s))
  PROVE  Ahead(fl, t, All(t))
<1>1. All(t) = All(s) /\ \A k \in All(s) : s[k].at = t[k].at
  <2>1. /\ ~IsCode(t, l) => All(t) = All(s)
        /\ \A k \in All(s) : k \in 1 .. l - 1 /\ s[k].at = t[k].at
    BY CodesAppended
  <2> QED
    BY <2>1
<1> QED
  BY <1>1 DEF Ahead

LEMMA OlderFrames ==
  ASSUME NEW fl, NEW fs, NEW gs, NEW m, Older(fl, fs, m),
         \A j \in DOMAIN gs : (j \in DOMAIN fs /\ gs[j].at = fs[j].at) \/ gs[j].at = m
  PROVE  Older(fl, gs, m)
BY DEF Older

(* A mark                                                                   *)
LEMMA KeepMark ==
  ASSUME NEW s, NEW fs, NEW m, NEW fl, NEW sz, NEW cx, NEW kp, NEW wr,
         QuietType(s, fs, m, fl, sz, cx, kp), Quiet(s, fs, m, fl, sz, cx, kp, wr),
         NEW i \in Nat, NEW t, NEW l, Appended(s, Arg(i), t, l),
         fs # <<>>, NEW g \in Frames, IsCall(fs[Len(fs)]), Takes(fs[Len(fs)], g, i), g.cidx = fs[Len(fs)].cidx
  PROVE  LET gs == [fs EXCEPT ![Len(fs)] = g]
         IN  Quiet(t, gs, m, fl, sz, cx, kp, wr) /\ gs \in Seq(Frames)
<1> DEFINE gs == [fs EXCEPT ![Len(fs)] = g]
<1>0. /\ s \in Seq(Tokens) /\ fs \in Seq(Frames) /\ m \in Nat /\ fl \in Seq(Places) /\ sz \in Int /\ cx \in Int
  BY DEF QuietType
<1>1. Good(t, gs) /\ Numbered(t, gs, m) /\ gs \in Seq(Frames)
  BY <1>0, GoodMark DEF Quiet
<1>2. g.at = fs[Len(fs)].at /\ g.index = fs[Len(fs)].index
  BY DEF Takes, SameFrame
<1>3. /\ DOMAIN gs = DOMAIN fs
      /\ \A j \in DOMAIN fs : gs[j].at = fs[j].at /\ gs[j].index = fs[j].index /\ gs[j].cidx = fs[j].cidx
  BY <1>0, <1>2
<1> HIDE DEF gs
<1>4. Older(fl, gs, m)
  BY <1>3, OlderFrames DEF Quiet
<1>5. ~IsCode(t, l)
  <2>1. t[l] = Arg(i)
    BY AppendedTokens
  <2> QED
    BY <2>1 DEF Arg, IsCode
<1>6. Ahead(fl, t, All(t))
  BY <1>5, AheadAppended DEF Quiet
<1>7. wr => Accounts(fl, sz, t, All(t), gs, cx, kp)
  <2> SUFFICES ASSUME wr PROVE Accounts(fl, sz, t, All(t), gs, cx, kp)
    OBVIOUS
  <2>1. \A j \in DOMAIN fs : fs[j].index \in 0 .. Len(s)
    BY StackedIndex DEF Quiet, Good
  <2>2. Accounts(fl, sz, s, All(s), fs, cx, kp)
    BY DEF Quiet
  <2> QED
    BY <1>0, <1>3, <1>5, <2>1, <2>2, AccountsAppended
<1>8. Quiet(t, gs, m, fl, sz, cx, kp, wr)
  BY <1>1, <1>4, <1>6, <1>7 DEF Quiet
<1> QED
  BY <1>1, <1>8 DEF gs

(* A frame remembers the code index at which it was opened.                *)
LEMMA AccountsPush ==
  ASSUME NEW s, NEW fs \in Seq(Frames), NEW f \in Frames, f.index = Len(s),
         NEW fl, NEW sz, NEW cx, NEW kp, f.cidx = cx, Accounts(fl, sz, s, All(s), fs, cx, kp)
  PROVE  Accounts(fl, sz, s, All(s), Append(fs, f), cx, kp)
<1> DEFINE gs == Append(fs, f)
<1>1. /\ Len(fs) \in Nat /\ DOMAIN fs = 1 .. Len(fs) /\ DOMAIN gs = 1 .. Len(fs) + 1
      /\ gs[Len(fs) + 1] = f /\ \A h \in 1 .. Len(fs) : gs[h] = fs[h]
  BY PushFacts
<1> HIDE DEF gs
<1>2. \A j \in DOMAIN gs : j \in DOMAIN fs \/ j = Len(fs) + 1
  BY <1>1
<1>3. \A j \in DOMAIN gs : gs[j].cidx = sz + Cardinality(Codes(s, gs[j].index))
  <2> SUFFICES ASSUME NEW j \in DOMAIN gs PROVE gs[j].cidx = sz + Cardinality(Codes(s, gs[j].index))
    OBVIOUS
  <2>1. CASE j \in DOMAIN fs
    BY <1>1, <2>1 DEF Accounts
  <2>2. CASE j = Len(fs) + 1
    BY <1>1, <2>2 DEF Accounts, All
  <2> QED
    BY <1>2, <2>1, <2>2
<1> QED
  BY <1>3 DEF gs, Accounts

LEMMA OlderPush ==
  ASSUME NEW fl, NEW fs \in Seq(Frames), NEW f \in Frames, NEW m, Older(fl, fs, m), f.at = m
  PROVE  Older(fl, Append(fs, f), m)
<1> DEFINE gs == Append(fs, f)
<1>1. /\ Len(fs) \in Nat /\ DOMAIN fs = 1 .. Len(fs) /\ DOMAIN gs = 1 .. Len(fs) + 1
      /\ gs[Len(fs) + 1] = f /\ \A h \in 1 .. Len(fs) : gs[h] = fs[h]
  BY PushFacts
<1> HIDE DEF gs
<1>2. \A j \in DOMAIN gs : j \in DOMAIN fs \/ j = Len(fs) + 1
  BY <1>1
<1>3. \A j \in DOMAIN gs : (j \in DOMAIN fs /\ gs[j].at = fs[j].at) \/ gs[j].at = m
  BY <1>1, <1>2
<1> QED
  BY <1>3, OlderFrames DEF gs

(* The beginning of a call or of a "for"                                    *)
LEMMA KeepStart ==
  ASSUME NEW s, NEW fs, NEW m, NEW fl, NEW sz, NEW cx, NEW kp, NEW wr,
         QuietType(s, fs, m, fl, sz, cx, kp), Quiet(s, fs, m, fl, sz, cx, kp, wr), AllInside(fs),
         NEW t, NEW l, Appended(s, Start, t, l),
         NEW f \in Frames, IsCall(f), f.index = Len(s), f.at = m, f.arg = NoArg, f.nargs = 0, f.done = {},
         f.formals <= MaxFormals, f.kind = "for" => fs = <<>> /\ s = <<>>, f.cidx = cx
  PROVE  Quiet(t, Append(fs, f), m, fl, sz, cx, kp, wr) /\ Append(fs, f) \in Seq(Frames)
<1> DEFINE gs == Append(fs, f)
<1>0. /\ s \in Seq(Tokens) /\ fs \in Seq(Frames) /\ m \in Nat /\ fl \in Seq(Places) /\ sz \in Int /\ cx \in Int
  BY DEF QuietType
<1>1. Good(t, gs) /\ Numbered(t, gs, m)
  BY <1>0, GoodStart DEF Quiet
<1>2. gs \in Seq(Frames)
  BY <1>0
<1>3. Older(fl, gs, m)
  BY <1>0, OlderPush DEF Quiet
<1>4. ~IsCode(t, l)
  <2>1. t[l] = Start
    BY AppendedTokens
  <2> QED
    BY <2>1 DEF Start, IsCode
<1>5. Ahead(fl, t, All(t))
  BY <1>4, AheadAppended DEF Quiet
<1>6. wr => Accounts(fl, sz, t, All(t), gs, cx, kp)
  <2> SUFFICES ASSUME wr PROVE Accounts(fl, sz, t, All(t), gs, cx, kp)
    OBVIOUS
  <2>1. \A j \in DOMAIN fs : fs[j].index \in 0 .. Len(s)
    BY StackedIndex DEF Quiet, Good
  <2>2. Accounts(fl, sz, s, All(s), gs, cx, kp)
    BY <1>0, AccountsPush DEF Quiet
  <2>3. /\ Len(fs) \in Nat /\ DOMAIN fs = 1 .. Len(fs) /\ DOMAIN gs = 1 .. Len(fs) + 1
        /\ gs[Len(fs) + 1] = f /\ \A h \in 1 .. Len(fs) : gs[h] = fs[h]
    BY <1>0, PushFacts
  <2>4. Len(s) \in 0 .. Len(s)
    BY <1>0
  <2> HIDE DEF gs
  <2>5. \A j \in DOMAIN gs : j \in DOMAIN fs \/ j = Len(fs) + 1
    BY <2>3
  <2>6. \A j \in DOMAIN gs : gs[j].index \in 0 .. Len(s)
    BY <2>1, <2>3, <2>4, <2>5
  <2> QED
    BY <1>0, <1>2, <1>4, <2>2, <2>6, AccountsAppended
<1> QED
  BY <1>1, <1>2, <1>3, <1>5, <1>6 DEF Quiet

(* A position to which code may be scrapped                                 *)
LEMMA KeepSave ==
  ASSUME NEW s, NEW fs, NEW m, NEW fl, NEW sz, NEW cx, NEW kp, NEW wr,
         QuietType(s, fs, m, fl, sz, cx, kp), Quiet(s, fs, m, fl, sz, cx, kp, wr), AllInside(fs),
         NEW f \in Frames, ~IsCall(f), f.index = Len(s), f.at = m, f.arg = NoArg,
         f.kind = "constant" => fs = <<>> /\ s = <<>>, f.cidx = cx
  PROVE  Quiet(s, Append(fs, f), m, fl, sz, cx, kp, wr)
<1> DEFINE gs == Append(fs, f)
<1>0. /\ s \in Seq(Tokens) /\ fs \in Seq(Frames) /\ m \in Nat /\ fl \in Seq(Places) /\ sz \in Int /\ cx \in Int
  BY DEF QuietType
<1>1. Good(s, gs) /\ Numbered(s, gs, m)
  BY <1>0, GoodSave DEF Quiet
<1>2. Older(fl, gs, m)
  BY <1>0, OlderPush DEF Quiet
<1>3. wr => Accounts(fl, sz, s, All(s), gs, cx, kp)
  BY <1>0, AccountsPush DEF Quiet
<1> QED
  BY <1>1, <1>2, <1>3 DEF Quiet

LEMMA OlderPop ==
  ASSUME NEW fl, NEW fs \in Seq(Frames), fs # <<>>, NEW m, Older(fl, fs, m)
  PROVE  Older(fl, Front(fs), m)
<1>1. \A j \in DOMAIN Front(fs) : j \in DOMAIN fs /\ Front(fs)[j] = fs[j]
  BY PopFacts
<1> QED
  BY <1>1, OlderFrames

LEMMA AccountsPop ==
  ASSUME NEW s, NEW fs \in Seq(Frames), fs # <<>>, NEW fl, NEW sz, NEW cx, NEW kp,
         Accounts(fl, sz, s, All(s), fs, cx, kp)
  PROVE  Accounts(fl, sz, s, All(s), Front(fs), cx, kp)
<1>1. \A j \in DOMAIN Front(fs) : j \in DOMAIN fs /\ Front(fs)[j] = fs[j]
  BY PopFacts
<1> QED
  BY <1>1 DEF Accounts

(* A position that is not needed any more                                   *)
LEMMA KeepKeep ==
  ASSUME NEW s, NEW fs, NEW m, NEW fl, NEW sz, NEW cx, NEW kp, NEW wr,
         QuietType(s, fs, m, fl, sz, cx, kp), Quiet(s, fs, m, fl, sz, cx, kp, wr),
         fs # <<>>, ~IsCall(Last(fs))
  PROVE  Quiet(s, Front(fs), m, fl, sz, cx, kp, wr)
<1>0. /\ s \in Seq(Tokens) /\ fs \in Seq(Frames) /\ m \in Nat /\ Len(s) \in Nat
  BY DEF QuietType
<1>1. Same(s, s, Len(s)) /\ CutAt(s, fs, Len(s))
  BY <1>0 DEF Same, CutAt
<1>2. Good(s, Front(fs)) /\ Numbered(s, Front(fs), m)
  BY <1>0, <1>1, GoodCut DEF Quiet
<1> QED
  BY <1>0, <1>2, OlderPop, AccountsPop DEF Quiet

(* The end of a call or of a "for"                                          *)
LEMMA KeepEnd ==
  ASSUME NEW s, NEW fs, NEW m, NEW fl, NEW sz, NEW cx, NEW kp, NEW wr,
         QuietType(s, fs, m, fl, sz, cx, kp), Quiet(s, fs, m, fl, sz, cx, kp, wr),
         NEW t, NEW l, Appended(s, End, t, l), fs # <<>>, IsCall(Last(fs)),
         \E h \in 0 .. sMAXARGS : ArgsTo(s, Last(fs).index + 1, Len(s)) = 0 .. h - 1
  PROVE  Quiet(t, Front(fs), m, fl, sz, cx, kp, wr)
<1>0. /\ s \in Seq(Tokens) /\ fs \in Seq(Frames) /\ m \in Nat /\ sz \in Int
  BY DEF QuietType
<1>1. Good(t, Front(fs)) /\ Numbered(t, Front(fs), m)
  BY <1>0, GoodEnd DEF Quiet
<1>2. ~IsCode(t, l)
  <2>1. t[l] = End
    BY AppendedTokens
  <2> QED
    BY <2>1 DEF End, IsCode
<1>3. Ahead(fl, t, All(t))
  BY <1>2, AheadAppended DEF Quiet
<1>4. wr => Accounts(fl, sz, t, All(t), Front(fs), cx, kp)
  <2> SUFFICES ASSUME wr PROVE Accounts(fl, sz, t, All(t), Front(fs), cx, kp)
    OBVIOUS
  <2>1. \A j \in DOMAIN fs : fs[j].index \in 0 .. Len(s)
    BY StackedIndex DEF Quiet, Good
  <2>2. Accounts(fl, sz, s, All(s), fs, cx, kp)
    BY DEF Quiet
  <2>3. Accounts(fl, sz, t, All(t), fs, cx, kp)
    BY <1>0, <1>2, <2>1, <2>2, AccountsAppended
  <2> QED
    BY <1>0, <2>3, AccountsPop
<1> QED
  BY <1>0, <1>1, <1>3, <1>4, OlderPop DEF Quiet

LEMMA CutSame ==
  ASSUME NEW s \in Seq(Tokens), NEW c \in 0 .. Len(s), NEW t, t = SubSeq(s, 1, c)
  PROVE  c \in Nat /\ t \in Seq(Tokens) /\ Len(t) = c /\ Same(s, t, c)
<1>1. c \in Nat /\ c <= Len(s) /\ Len(s) \in Nat
  OBVIOUS
<1>2. \A k \in 1 .. c : s[k] \in Tokens
  BY <1>1
<1>3. /\ t \in Seq(Tokens) /\ Len(t) = IF 1 <= c THEN c - 1 + 1 ELSE 0
      /\ \A k \in 1 .. c - 1 + 1 : t[k] = s[1 + k - 1]
  BY <1>1, <1>2, SubSeqProperties
<1> QED
  BY <1>1, <1>3 DEF Same

(* Code is scrapped: the buffer, the code index and the lines that are kept *)
(* are those of the position again.                                         *)
KeptBefore(kp, i) == {p \in kp : Line(p) < i}

(* stgdel(): the code index goes back to what it was when the frame was    *)
(* opened.                                                                 *)
LEMMA KeepScrap ==
  ASSUME NEW s, NEW fs, NEW m, NEW fl, NEW sz, NEW cx, NEW kp, NEW wr,
         QuietType(s, fs, m, fl, sz, cx, kp), Quiet(s, fs, m, fl, sz, cx, kp, wr),
         fs # <<>>, ~IsCall(Last(fs)),
         NEW f, f = Last(fs), NEW c \in Nat, c = f.index, NEW t \in Seq(Tokens), Len(t) = c, Same(s, t, c)
  PROVE  Quiet(t, Front(fs), m, fl, sz, f.cidx, KeptBefore(kp, f.at), wr)
<1>0. /\ s \in Seq(Tokens) /\ fs \in Seq(Frames) /\ m \in Nat /\ sz \in Int /\ Len(s) \in Nat
  BY DEF QuietType
<1>1. f = fs[Len(fs)] /\ Len(fs) \in DOMAIN fs /\ f.index \in Nat /\ f.index \in 0 .. Len(s)
  <2>1. f = fs[Len(fs)] /\ Len(fs) \in DOMAIN fs
    BY <1>0, PopFacts
  <2> QED
    BY <1>0, <2>1, FrameType, StackedIndex DEF Quiet, Good
<1>2. c = f.index
  OBVIOUS
<1>3. c <= Len(s) /\ CutAt(s, fs, c)
  BY <1>1 DEF CutAt
<1>4. Len(t) = c
  OBVIOUS
<1>5. Same(s, t, c)
  OBVIOUS
<1>6. Good(t, Front(fs)) /\ Numbered(t, Front(fs), m)
  BY <1>0, <1>3, <1>4, <1>5, GoodCut DEF Quiet
<1>7. All(t) = Codes(s, c) /\ \A k \in All(t) : s[k].at = t[k].at
  <2>1. c \in 0 .. c
    OBVIOUS
  <2> QED
    <3>1. Codes(s, c) = Codes(t, c) /\ \A k \in Codes(s, c) : s[k].at = t[k].at
      BY <1>5, <2>1, CodesSame
    <3>2. All(t) = Codes(t, c)
      BY <1>4 DEF All
    <3> QED
      BY <3>1, <3>2
<1>8. All(t) = {k \in All(s) : k <= c}
  <2>1. \A k \in 1 .. Len(s) : k <= c <=> k \in 1 .. c
    BY <1>0, <1>3
  <2>2. \A k \in 1 .. c : k \in 1 .. Len(s)
    BY <1>0, <1>3
  <2> QED
    BY <1>7, <2>1, <2>2 DEF All, Codes
<1>9. Ahead(fl, t, All(t))
  BY <1>7, <1>8 DEF Quiet, Ahead
<1>10. ASSUME wr PROVE Accounts(fl, sz, t, All(t), Front(fs), f.cidx, KeptBefore(kp, f.at))
  <2>1. Accounts(fl, sz, s, All(s), fs, cx, kp)
    BY <1>10 DEF Quiet
  <2>2. f.cidx = sz + Cardinality(All(t))
    BY <1>1, <1>2, <1>7, <2>1 DEF Accounts
  <2>3. \A j \in DOMAIN Front(fs) : /\ Front(fs)[j].cidx = sz + Cardinality(Codes(t, Front(fs)[j].index))
    <3> SUFFICES ASSUME NEW j \in DOMAIN Front(fs)
                 PROVE  Front(fs)[j].cidx = sz + Cardinality(Codes(t, Front(fs)[j].index))
      OBVIOUS
    <3>1. j \in DOMAIN fs /\ Front(fs)[j] = fs[j]
      BY <1>0, PopFacts
    <3>2. Front(fs)[j].index \in 0 .. c
      BY <1>4, <1>6, StackedIndex DEF Good
    <3>3. Codes(s, fs[j].index) = Codes(t, fs[j].index)
      BY <1>5, <3>1, <3>2, CodesSame
    <3> QED
      BY <2>1, <3>1, <3>3 DEF Accounts
  <2>4. KeptBefore(kp, f.at) = Range(fl) \cup {t[k].at : k \in All(t)}
    <3>1. kp = Range(fl) \cup {s[k].at : k \in All(s)}
      BY <2>1 DEF Accounts
    <3>2. \A p \in Range(fl) : Line(p) < f.at
      BY <1>1 DEF Quiet, Older, Range
    <3>3. \A k \in All(s) : Line(s[k].at) < f.at <=> k <= c
      <4>1. \A k \in All(s) : k \in DOMAIN s /\ IsCode(s, k)
        BY <1>0 DEF All, Codes
      <4> QED
        BY <1>1, <1>2, <4>1 DEF Quiet, Numbered
    <3>4. {t[k].at : k \in All(t)} = {s[k].at : k \in All(t)}
      BY <1>7
    <3> QED
      BY <1>8, <3>1, <3>2, <3>3, <3>4 DEF KeptBefore
  <2> QED
    BY <2>2, <2>3, <2>4 DEF Accounts
<1> QED
  BY <1>0, <1>6, <1>9, <1>10, OlderPop DEF Quiet

-----------------------------------------------------------------------------
(***************************************************************************)
(* The actions                                                              *)
(***************************************************************************)
Inv == TypeOK /\ OkInv

(* What the invariant says while the parser is at work, in terms of what   *)
(* its steps change                                                        *)
LEMMA Parsing ==
  ASSUME Inv, todo = <<>>
  PROVE  /\ QuietType(stgbuf, frames, n, file, size, code_idx, kept)
         /\ Quiet(stgbuf, frames, n, file, size, code_idx, kept, writing)
         /\ ~staging => stgbuf = <<>> /\ frames = <<>>
         /\ Begun(frames) /\ InSequence(file) /\ (~writing => file = <<>>)
<1>1. QuietType(stgbuf, frames, n, file, size, code_idx, kept)
  BY DEF Inv, TypeOK, QuietType
<1>2. Pending = All(stgbuf)
  BY WaitingAll DEF Inv, TypeOK, Pending
<1> QED
  BY <1>1, <1>2 DEF Inv, OkInv, FileInv, Quiet

(* What an action has to show                                               *)
LEMMA Concluded ==
  ASSUME QuietType(stgbuf', frames', n', file', size', code_idx', kept'),
         Quiet(stgbuf', frames', n', file', size', code_idx', kept', writing'),
         writing' \in BOOLEAN, staging' \in BOOLEAN,
         ~staging' => stgbuf' = <<>> /\ frames' = <<>>,
         Begun(frames'), InSequence(file'), ~writing' => file' = <<>>,
         todo' \in Seq(PartType), Parts(stgbuf', todo'), Waiting(stgbuf', todo') = All(stgbuf'),
         todo' # <<>> => frames' = <<>> /\ staging'
  PROVE  Inv'
<1>1. TypeOK'
  BY DEF TypeOK, QuietType
<1>2. Pending' = All(stgbuf')
  BY DEF Pending
<1>3. TodoInv'
  BY DEF TodoInv
<1>4. FileInv'
  BY <1>2 DEF FileInv, Quiet
<1>5. OkInv'
  BY <1>3, <1>4 DEF OkInv, Quiet
<1> QED
  BY <1>1, <1>5 DEF Inv

(* ... when nothing is being written                                        *)
LEMMA ConcludedParsing ==
  ASSUME QuietType(stgbuf', frames', n', file', size', code_idx', kept'),
         Quiet(stgbuf', frames', n', file', size', code_idx', kept', writing'),
         writing' \in BOOLEAN, staging' \in BOOLEAN,
         ~staging' => stgbuf' = <<>> /\ frames' = <<>>,
         Begun(frames'), InSequence(file'), ~writing' => file' = <<>>, todo' = <<>>
  PROVE  Inv'
<1>1. Parts(stgbuf', todo') /\ todo' \in Seq(PartType)
  BY DEF Parts
<1>2. Waiting(stgbuf', todo') = All(stgbuf')
  BY WaitingAll DEF QuietType
<1> QED
  BY <1>1, <1>2, Concluded

(* What Emit appends to the buffer, or to the file                         *)
LEMMA LineTokens ==
  ASSUME NEW p
  PROVE  [k \in DOMAIN <<p>> |-> Code(<<p>>[k])] = <<Code(p)>> /\ Range(<<p>>) = {p} /\ Len(<<p>>) = 1
BY DEF Range

LEMMA NoTokens ==
  [k \in DOMAIN <<>> |-> Code(<<>>[k])] = <<>> /\ Range(<<>>) = {} /\ Len(<<>>) = 0
BY DEF Range

AsTokens(marks, places) == marks \o [k \in DOMAIN places |-> Code(places[k])]

LEMMA TokensOfMark ==
  ASSUME NEW e
  PROVE  AsTokens(<<e>>, <<>>) = <<e>>
<1>1. <<e>> \in Seq({e})
  OBVIOUS
<1>2. <<e>> \o <<>> = <<e>>
  BY <1>1, ConcatEmptySeq
<1> QED
  BY <1>2, NoTokens DEF AsTokens

LEMMA TokensOfLine ==
  ASSUME NEW p
  PROVE  AsTokens(<<>>, <<p>>) = <<Code(p)>>
<1> DEFINE q == Code(p)
<1>1. <<q>> \in Seq({q})
  OBVIOUS
<1>2. <<>> \o <<q>> = <<q>>
  BY <1>1, ConcatEmptySeq
<1> QED
  BY <1>2, LineTokens DEF AsTokens

LEMMA TokensOfBoth ==
  ASSUME NEW e, NEW p
  PROVE  AsTokens(<<e>>, <<p>>) = <<e>> \o <<Code(p)>>
BY LineTokens DEF AsTokens

LEMMA Emitted ==
  ASSUME TypeOK, status = "ok", status' = "ok", NEW marks, NEW places, NEW bad, Emit(marks, places, bad)
  PROVE  /\ ~bad /\ writing' = writing /\ staging' = staging
         /\ staging => stgbuf' = stgbuf \o AsTokens(marks, places) /\ file' = file /\ size' = size
         /\ ~staging => /\ stgbuf' = stgbuf
                        /\ writing => file' = file \o places /\ size' = size + Len(places)
                        /\ ~writing => file' = file /\ size' = size
         /\ code_idx' = code_idx + Len(places) /\ kept' = kept \cup Range(places)
BY DEF Emit, Worse, output, AsTokens

LEMMA EmitMark ==
  ASSUME TypeOK, staging, status = "ok", status' = "ok", NEW e \in Tokens, NEW bad, Emit(<<e>>, <<>>, bad)
  PROVE  /\ Appended(stgbuf, e, stgbuf', Len(stgbuf) + 1) /\ ~bad
         /\ writing' = writing /\ staging' /\ file' = file /\ size' = size /\ code_idx' = code_idx /\ kept' = kept
<1>2. /\ ~bad /\ writing' = writing /\ staging' = staging
      /\ stgbuf' = stgbuf \o <<e>> /\ file' = file /\ size' = size
      /\ code_idx' = code_idx + Len(<<>>) /\ kept' = kept \cup Range(<<>>)
  BY Emitted, TokensOfMark
<1>3. stgbuf \in Seq(Tokens) /\ code_idx \in Int
  BY DEF TypeOK
<1>4. stgbuf' = Append(stgbuf, e)
  BY <1>2, <1>3
<1>5. code_idx' = code_idx /\ kept' = kept
  BY <1>2, <1>3, NoTokens
<1> QED
  BY <1>2, <1>3, <1>4, <1>5 DEF Appended

LEMMA EmitLine ==
  ASSUME TypeOK, staging, status = "ok", status' = "ok", NEW p \in Places, NEW bad, Emit(<<>>, <<p>>, bad)
  PROVE  /\ Appended(stgbuf, Code(p), stgbuf', Len(stgbuf) + 1) /\ ~bad
         /\ writing' = writing /\ staging' /\ file' = file /\ size' = size
         /\ code_idx' = code_idx + 1 /\ kept' = kept \cup {p}
<1>2. /\ ~bad /\ writing' = writing /\ staging' = staging
      /\ stgbuf' = stgbuf \o <<Code(p)>> /\ file' = file /\ size' = size
      /\ code_idx' = code_idx + Len(<<p>>) /\ kept' = kept \cup Range(<<p>>)
  BY Emitted, TokensOfLine
<1>3. stgbuf \in Seq(Tokens) /\ code_idx \in Int /\ Code(p) \in Tokens
  BY TokenOf DEF TypeOK
<1>4. stgbuf' = Append(stgbuf, Code(p))
  BY <1>2, <1>3
<1>5. code_idx' = code_idx + 1 /\ kept' = kept \cup {p}
  BY <1>2, LineTokens
<1> QED
  BY <1>2, <1>3, <1>4, <1>5 DEF Appended

LEMMA EmitBoth ==
  ASSUME TypeOK, staging, status = "ok", status' = "ok", NEW e \in Tokens, NEW p \in Places, NEW bad,
         Emit(<<e>>, <<p>>, bad)
  PROVE  /\ \E t \in Seq(Tokens) : /\ Appended(stgbuf, e, t, Len(stgbuf) + 1)
                                   /\ Appended(t, Code(p), stgbuf', Len(t) + 1)
         /\ ~bad
         /\ writing' = writing /\ staging' /\ file' = file /\ size' = size
         /\ code_idx' = code_idx + 1 /\ kept' = kept \cup {p}
<1>2. /\ ~bad /\ writing' = writing /\ staging' = staging
      /\ stgbuf' = stgbuf \o (<<e>> \o <<Code(p)>>) /\ file' = file /\ size' = size
      /\ code_idx' = code_idx + Len(<<p>>) /\ kept' = kept \cup Range(<<p>>)
  BY Emitted, TokensOfBoth
<1>3. stgbuf \in Seq(Tokens) /\ code_idx \in Int /\ Code(p) \in Tokens
  BY TokenOf DEF TypeOK
<1> DEFINE t == Append(stgbuf, e)
<1>4. stgbuf' = Append(t, Code(p)) /\ t \in Seq(Tokens)
  <2> DEFINE q == Code(p)
  <2>1. stgbuf' = stgbuf \o (<<e>> \o <<q>>) /\ stgbuf \in Seq(Tokens) /\ <<e>> \in Seq(Tokens) /\ <<q>> \in Seq(Tokens)
    BY <1>2, <1>3
  <2> HIDE DEF q
  <2>2. stgbuf' = (stgbuf \o <<e>>) \o <<q>>
    BY <2>1, ConcatAssociative
  <2>3. stgbuf \o <<e>> = t /\ t \in Seq(Tokens)
    BY <1>3
  <2> HIDE DEF t
  <2>4. t \o <<q>> = Append(t, q)
    BY <2>3
  <2> QED
    BY <2>2, <2>3, <2>4 DEF q
<1>5. code_idx' = code_idx + 1 /\ kept' = kept \cup {p}
  BY <1>2, LineTokens
<1>6. Appended(stgbuf, e, t, Len(stgbuf) + 1) /\ Appended(t, Code(p), stgbuf', Len(t) + 1)
  BY <1>3, <1>4 DEF Appended
<1> QED
  BY <1>2, <1>4, <1>5, <1>6

-----------------------------------------------------------------------------
(* Where code may follow, every call is inside of an argument.              *)
LEMMA TopFacts ==
  ASSUME TypeOK, frames # <<>>
  PROVE  Top = frames[Len(frames)] /\ Len(frames) \in DOMAIN frames /\ Top \in Frames
BY PopFacts DEF TypeOK, Top

(* Where code may be generated, every frame is in an argument.             *)
LEMMA InsideAll ==
  ASSUME TypeOK, Parsed(stgbuf, frames), Begun(frames), InArgument
  PROVE  AllInside(frames)
<1> SUFFICES ASSUME NEW j \in DOMAIN frames PROVE Inside(frames[j])
  BY DEF AllInside
<1>1. CASE j # Len(frames)
  BY <1>1 DEF Parsed
<1>2. CASE j = Len(frames)
  <2>1. frames # <<>>
    BY <1>2 DEF TypeOK
  <2>2. Top = frames[j]
    BY <1>2, <2>1, TopFacts
  <2>3. Top.kind # "defaults" /\ (Top.kind = "call" => Top.arg \in Top.done)
    BY <2>1 DEF InArgument
  <2> QED
    BY <2>2, <2>3 DEF Inside, Begun, IsCall
<1> QED
  BY <1>1, <1>2

LEMMA BegunPush ==
  ASSUME NEW fs \in Seq(Frames), NEW f \in Frames, Begun(fs), f.kind = "for" => f.arg # NoArg
  PROVE  Begun(Append(fs, f))
BY PushFacts DEF Begun

LEMMA BegunPop ==
  ASSUME NEW fs \in Seq(Frames), fs # <<>>, Begun(fs)
  PROVE  Begun(Front(fs))
BY PopFacts DEF Begun

LEMMA FrameIs ==
  ASSUME Inv, NEW kind \in {"call", "save", "constant", "for"}, NEW formals \in Nat
  PROVE  LET f == Frame(kind, formals)
         IN  /\ f \in Frames /\ f.kind = kind /\ f.index = Len(stgbuf) /\ f.at = n /\ f.arg = NoArg
             /\ f.nargs = 0 /\ f.done = {} /\ f.formals = formals /\ f.cidx = code_idx
BY DEF Inv, TypeOK, Frame, Frames, NoArg

LEMMA BeginStep ==
  ASSUME Inv, Begin
  PROVE  Inv'
<1>1. /\ QuietType(stgbuf, frames, n, file, size, code_idx, kept)
      /\ Quiet(stgbuf, frames, n, file, size, code_idx, kept, writing)
      /\ stgbuf = <<>> /\ frames = <<>>
      /\ Begun(frames) /\ InSequence(file) /\ (~writing => file = <<>>)
  BY Parsing DEF Begin, Running
<1>2. /\ stgbuf' = stgbuf /\ frames' = frames /\ n' = n /\ file' = file /\ size' = size /\ code_idx' = code_idx
      /\ kept' = kept /\ writing' = writing /\ staging' /\ todo' = <<>> /\ staging' \in BOOLEAN
  BY <1>1 DEF Begin, Running, output
<1>3. writing' \in BOOLEAN
  BY <1>2 DEF Inv, TypeOK
<1> QED
  BY <1>1, <1>2, <1>3, ConcludedParsing

LEMMA SaveStep ==
  ASSUME Inv, Save
  PROVE  Inv'
<1>1. /\ QuietType(stgbuf, frames, n, file, size, code_idx, kept)
      /\ Quiet(stgbuf, frames, n, file, size, code_idx, kept, writing)
      /\ Begun(frames) /\ InSequence(file) /\ (~writing => file = <<>>)
  BY Parsing DEF Save, Running
<1>2. /\ stgbuf' = stgbuf /\ n' = n /\ file' = file /\ size' = size /\ code_idx' = code_idx
      /\ kept' = kept /\ writing' = writing /\ staging' = staging /\ todo' = <<>>
  BY DEF Save, Running, output, buffer
<1>3. writing' \in BOOLEAN /\ staging' \in BOOLEAN /\ staging'
  BY <1>2 DEF Inv, TypeOK, Save
<1>4. AllInside(frames)
  BY <1>1, InsideAll DEF Inv, Save, Quiet, Good
<1> DEFINE f == Frame("save", 0)
<1>5. /\ f \in Frames /\ f.kind = "save" /\ f.index = Len(stgbuf) /\ f.at = n /\ f.arg = NoArg /\ f.cidx = code_idx
  BY FrameIs
<1>6. frames' = Append(frames, f)
  BY DEF Save
<1> HIDE DEF f
<1>7. ~IsCall(f)
  BY <1>5 DEF IsCall
<1>8. Quiet(stgbuf, Append(frames, f), n, file, size, code_idx, kept, writing)
  BY <1>1, <1>4, <1>5, <1>7, KeepSave
<1>9. frames \in Seq(Frames) /\ frames' \in Seq(Frames)
  BY <1>5, <1>6 DEF Inv, TypeOK
<1>10. QuietType(stgbuf', frames', n', file', size', code_idx', kept')
  BY <1>1, <1>2, <1>9 DEF QuietType
<1>11. Begun(frames')
  BY <1>1, <1>5, <1>6, <1>9, BegunPush
<1> QED
  BY <1>1, <1>2, <1>3, <1>6, <1>8, <1>10, <1>11, ConcludedParsing

LEMMA KeepStep ==
  ASSUME Inv, Keep
  PROVE  Inv'
<1>1. /\ QuietType(stgbuf, frames, n, file, size, code_idx, kept)
      /\ Quiet(stgbuf, frames, n, file, size, code_idx, kept, writing)
      /\ Begun(frames) /\ InSequence(file) /\ (~writing => file = <<>>)
      /\ staging
  BY Parsing DEF Keep, Running
<1>2. /\ stgbuf' = stgbuf /\ n' = n /\ file' = file /\ size' = size /\ code_idx' = code_idx
      /\ kept' = kept /\ writing' = writing /\ staging' = staging /\ todo' = <<>> /\ frames' = Front(frames)
  BY DEF Keep, Running, output, buffer
<1>3. writing' \in BOOLEAN /\ staging' \in BOOLEAN
  BY <1>2 DEF Inv, TypeOK
<1>4. frames # <<>> /\ ~IsCall(Last(frames)) /\ frames \in Seq(Frames)
  BY DEF Keep, Top, IsCall, Inv, TypeOK
<1>5. Front(frames) \in Seq(Frames)
  BY <1>4, PopFacts
<1>6. Quiet(stgbuf, Front(frames), n, file, size, code_idx, kept, writing)
  BY <1>1, <1>4, KeepKeep
<1>7. QuietType(stgbuf', frames', n', file', size', code_idx', kept')
  BY <1>1, <1>2, <1>5 DEF QuietType
<1>8. Begun(frames')
  BY <1>1, <1>2, <1>4, BegunPop
<1> QED
  BY <1>1, <1>2, <1>3, <1>6, <1>7, <1>8, ConcludedParsing

LEMMA ScrapStep ==
  ASSUME Inv, Scrap
  PROVE  Inv'
<1>1. /\ QuietType(stgbuf, frames, n, file, size, code_idx, kept)
      /\ Quiet(stgbuf, frames, n, file, size, code_idx, kept, writing)
      /\ Begun(frames) /\ InSequence(file) /\ (~writing => file = <<>>)
      /\ staging
  BY Parsing DEF Scrap, Running
<1> DEFINE f == Last(frames)
<1>2. /\ stgbuf' = SubSeq(stgbuf, 1, f.index) /\ n' = n /\ file' = file /\ size' = size /\ code_idx' = f.cidx
      /\ kept' = KeptBefore(kept, f.at)
      /\ writing' = writing /\ staging' = staging /\ todo' = <<>> /\ frames' = Front(frames)
  BY <1>1 DEF Scrap, Running, output, Top, KeptBefore
<1>3. writing' \in BOOLEAN /\ staging' \in BOOLEAN
  BY <1>2 DEF Inv, TypeOK
<1>4. frames # <<>> /\ ~IsCall(Last(frames)) /\ frames \in Seq(Frames) /\ stgbuf \in Seq(Tokens)
  BY DEF Scrap, Top, IsCall, Inv, TypeOK
<1>5. /\ Front(frames) \in Seq(Frames) /\ f = frames[Len(frames)] /\ Len(frames) \in DOMAIN frames /\ f \in Frames
  BY <1>4, PopFacts
<1>6. f.index \in 0 .. Len(stgbuf) /\ f.cidx \in Int
  <2>1. Stacked(stgbuf, frames)
    BY <1>1 DEF Quiet, Good
  <2> QED
    BY <1>5, <2>1, StackedIndex DEF Frames
<1> HIDE DEF f
<1>7. f.index \in Nat /\ stgbuf' \in Seq(Tokens) /\ Len(stgbuf') = f.index /\ Same(stgbuf, stgbuf', f.index)
  BY <1>2, <1>4, <1>6, CutSame
<1>8. Quiet(stgbuf', Front(frames), n, file, size, f.cidx, KeptBefore(kept, f.at), writing)
  <2>1. PICK c \in Nat : c = f.index
    BY <1>7
  <2>2. stgbuf' \in Seq(Tokens) /\ Len(stgbuf') = c /\ Same(stgbuf, stgbuf', c)
    BY <1>7, <2>1
  <2>3. f = Last(frames)
    BY DEF f
  <2> QED
    BY <1>1, <1>4, <2>1, <2>2, <2>3, KeepScrap
<1>9. QuietType(stgbuf', frames', n', file', size', code_idx', kept')
  BY <1>1, <1>2, <1>5, <1>6, <1>7 DEF QuietType, KeptBefore
<1>10. Begun(frames')
  BY <1>1, <1>2, <1>4, BegunPop
<1> QED
  BY <1>1, <1>2, <1>3, <1>8, <1>9, <1>10, ConcludedParsing

LEMMA BeginConstantStep ==
  ASSUME Inv, BeginConstant
  PROVE  Inv'
<1>1. /\ QuietType(stgbuf, frames, n, file, size, code_idx, kept)
      /\ Quiet(stgbuf, frames, n, file, size, code_idx, kept, writing)
      /\ stgbuf = <<>> /\ frames = <<>>
      /\ Begun(frames) /\ InSequence(file) /\ (~writing => file = <<>>)
  BY Parsing DEF BeginConstant, Running
<1> DEFINE f == Frame("constant", 0)
<1>2. /\ stgbuf' = stgbuf /\ frames' = <<f>> /\ n' = n /\ file' = file /\ size' = size /\ code_idx' = code_idx
      /\ kept' = kept /\ writing' = writing /\ staging' /\ todo' = <<>> /\ staging' \in BOOLEAN
  BY <1>1 DEF BeginConstant, Running, output
<1>3. writing' \in BOOLEAN
  BY <1>2 DEF Inv, TypeOK
<1>4. AllInside(frames)
  BY <1>1 DEF AllInside
<1>5. /\ f \in Frames /\ f.kind = "constant" /\ f.index = Len(stgbuf) /\ f.at = n /\ f.arg = NoArg /\ f.cidx = code_idx
  BY FrameIs
<1> HIDE DEF f
<1>6. frames' = Append(frames, f)
  BY <1>1, <1>2
<1>7. ~IsCall(f)
  BY <1>5 DEF IsCall
<1>8. Quiet(stgbuf, Append(frames, f), n, file, size, code_idx, kept, writing)
  BY <1>1, <1>4, <1>5, <1>7, KeepSave
<1>9. frames \in Seq(Frames) /\ frames' \in Seq(Frames)
  BY <1>5, <1>6 DEF Inv, TypeOK
<1>10. QuietType(stgbuf', frames', n', file', size', code_idx', kept')
  BY <1>1, <1>2, <1>9 DEF QuietType
<1>11. Begun(frames')
  BY <1>1, <1>5, <1>6, <1>9, BegunPush
<1> QED
  BY <1>1, <1>2, <1>3, <1>6, <1>8, <1>10, <1>11, ConcludedParsing

LEMMA FinishConstantStep ==
  ASSUME Inv, FinishConstant
  PROVE  Inv'
<1>1. /\ QuietType(stgbuf, frames, n, file, size, code_idx, kept)
      /\ Quiet(stgbuf, frames, n, file, size, code_idx, kept, writing)
      /\ Begun(frames) /\ InSequence(file) /\ (~writing => file = <<>>)
      /\ staging
  BY Parsing DEF FinishConstant, Running
<1> DEFINE f == Last(frames)
<1>2. /\ stgbuf' = <<>> /\ n' = n /\ file' = file /\ size' = size /\ code_idx' = f.cidx
      /\ kept' = KeptBefore(kept, f.at)
      /\ writing' = writing /\ staging' = FALSE /\ todo' = <<>> /\ frames' = <<>>
  BY <1>1 DEF FinishConstant, Running, output, Top, Unstage, KeptBefore
<1>3. writing' \in BOOLEAN /\ staging' \in BOOLEAN
  BY <1>2 DEF Inv, TypeOK
<1>4. frames # <<>> /\ ~IsCall(Last(frames)) /\ frames \in Seq(Frames) /\ stgbuf \in Seq(Tokens) /\ f.kind = "constant"
  BY DEF FinishConstant, Top, IsCall, Inv, TypeOK
<1>5. /\ f = frames[Len(frames)] /\ Len(frames) \in DOMAIN frames /\ f \in Frames
      /\ Len(Front(frames)) = Len(frames) - 1 /\ Front(frames) \in Seq(Frames)
  BY <1>4, PopFacts
<1>6. f.index = 0 /\ Len(frames) = 1 /\ f.cidx \in Int
  <2>1. Stacked(stgbuf, frames)
    BY <1>1 DEF Quiet, Good
  <2>2. f.kind \in {"for", "constant"} => Len(frames) = 1 /\ f.index = 0
    BY <1>5, <2>1 DEF Stacked, StackedAt
  <2> QED
    BY <1>4, <1>5, <2>2 DEF Frames
<1>7. Front(frames) = <<>>
  BY <1>5, <1>6
<1> HIDE DEF f
<1>8. f.index \in Nat /\ <<>> \in Seq(Tokens) /\ Len(<<>>) = f.index /\ Same(stgbuf, <<>>, f.index)
  BY <1>4, <1>6 DEF Same
<1>9. Quiet(<<>>, Front(frames), n, file, size, f.cidx, KeptBefore(kept, f.at), writing)
  <2>1. PICK c \in Nat : c = f.index
    BY <1>8
  <2>2. <<>> \in Seq(Tokens) /\ Len(<<>>) = c /\ Same(stgbuf, <<>>, c)
    BY <1>8, <2>1
  <2>3. f = Last(frames)
    BY DEF f
  <2> QED
    BY <1>1, <1>4, <2>1, <2>2, <2>3, KeepScrap
<1>10. QuietType(stgbuf', frames', n', file', size', code_idx', kept')
  BY <1>1, <1>2, <1>6, <1>8 DEF QuietType, KeptBefore
<1>11. Begun(frames')
  BY <1>2 DEF Begun
<1> QED
  BY <1>1, <1>2, <1>3, <1>7, <1>9, <1>10, <1>11, ConcludedParsing

(* A line that goes straight to the file                                    *)
LEMMA AppendFile ==
  ASSUME NEW fl \in Seq(Places), NEW q \in Places, InSequence(fl), fl # <<>> => Before(fl[Len(fl)], q)
  PROVE  LET gl == fl \o <<q>>
         IN  /\ gl \in Seq(Places) /\ Len(gl) = Len(fl) + 1 /\ InSequence(gl) /\ Range(gl) = Range(fl) \cup {q}
             /\ gl[Len(fl) + 1] = q /\ \A k \in 1 .. Len(fl) : gl[k] = fl[k]
<1> DEFINE gl == fl \o <<q>>
<1>1. /\ gl \in Seq(Places) /\ Len(gl) = Len(fl) + 1 /\ Len(fl) \in Nat /\ DOMAIN fl = 1 .. Len(fl)
      /\ DOMAIN gl = 1 .. Len(fl) + 1
      /\ gl[Len(fl) + 1] = q /\ \A k \in 1 .. Len(fl) : gl[k] = fl[k]
  OBVIOUS
<1> HIDE DEF gl
<1>2. InSequence(gl)
  <2> SUFFICES ASSUME NEW k \in 1 .. Len(gl) - 1 PROVE Before(gl[k], gl[k + 1])
    BY DEF InSequence
  <2>1. CASE k = Len(fl)
    <3>1. fl # <<>>
      BY <1>1, <2>1
    <3> QED
      BY <1>1, <2>1, <3>1
  <2>2. CASE k # Len(fl)
    <3>1. k \in 1 .. Len(fl) - 1 /\ k \in 1 .. Len(fl) /\ k + 1 \in 1 .. Len(fl)
      <4>1. Len(fl) \in Nat /\ Len(gl) - 1 = Len(fl)
        BY <1>1
      <4>2. k \in 1 .. Len(fl)
        BY <4>1
      <4> QED
        BY <2>2, <4>1, <4>2
    <3> QED
      BY <1>1, <3>1 DEF InSequence
  <2> QED
    BY <2>1, <2>2
<1>3. Range(gl) = Range(fl) \cup {q}
  <2>1. DOMAIN gl = DOMAIN fl \cup {Len(fl) + 1}
    BY <1>1
  <2> QED
    BY <1>1, <2>1 DEF Range
<1> QED
  BY <1>1, <1>2, <1>3 DEF gl

(* A line goes to the buffer, behind all others, or to the end of the      *)
(* file.                                                                   *)
LEMMA GenerateStep ==
  ASSUME Inv, Generate, status = "ok", status' = "ok"
  PROVE  Inv'
<1>1. /\ QuietType(stgbuf, frames, n, file, size, code_idx, kept)
      /\ Quiet(stgbuf, frames, n, file, size, code_idx, kept, writing)
      /\ (~staging => stgbuf = <<>> /\ frames = <<>>)
      /\ Begun(frames) /\ InSequence(file) /\ (~writing => file = <<>>)
  BY Parsing DEF Generate, Running
<1>2. AllInside(frames)
  BY <1>1, InsideAll DEF Inv, Generate, Quiet, Good
<1> DEFINE p == Place(frames, n)
<1>3. /\ Emit(<<>>, <<p>>, FALSE) /\ n' = n + 1 /\ frames' = frames /\ todo' = <<>>
  BY DEF Generate, Running
<1>4. p \in Places
  BY <1>1, PlaceType DEF QuietType
<1> HIDE DEF p
<1>5. TypeOK
  BY DEF Inv
<1>6. /\ writing \in BOOLEAN /\ staging \in BOOLEAN /\ stgbuf \in Seq(Tokens) /\ file \in Seq(Places) /\ kept \subseteq Places
      /\ size \in Int /\ code_idx \in Int /\ n \in Nat /\ frames \in Seq(Frames)
  BY DEF Inv, TypeOK
<1>7. CASE staging
  <2>1. /\ Appended(stgbuf, Code(p), stgbuf', Len(stgbuf) + 1)
        /\ writing' = writing /\ staging' /\ file' = file /\ size' = size
        /\ code_idx' = code_idx + 1 /\ kept' = kept \cup {p}
    BY <1>3, <1>4, <1>5, <1>7, EmitLine
  <2>2. Quiet(stgbuf', frames, n + 1, file, size, code_idx + 1, kept \cup {p}, writing)
    BY <1>1, <1>2, <2>1, KeepLine DEF p
  <2>3. QuietType(stgbuf', frames', n', file', size', code_idx', kept')
    BY <1>3, <1>4, <1>6, <2>1, AppendedTokens DEF QuietType
  <2>4. staging' \in BOOLEAN
    BY <1>3, <1>6, <1>7 DEF Emit
  <2> QED
    BY <1>1, <1>3, <1>6, <2>1, <2>2, <2>3, <2>4, ConcludedParsing
<1>8. CASE ~staging
  <2>1. /\ writing' = writing /\ staging' = staging /\ stgbuf' = stgbuf
        /\ writing => file' = file \o <<p>> /\ size' = size + 1
        /\ ~writing => file' = file /\ size' = size
        /\ code_idx' = code_idx + 1 /\ kept' = kept \cup {p}
    BY <1>3, <1>5, <1>8, Emitted, LineTokens
  <2>2. stgbuf = <<>> /\ frames = <<>> /\ n' \in Nat
    BY <1>1, <1>3, <1>6, <1>8
  <2>3. Quiet(<<>>, <<>>, n + 1, file, size, code_idx, kept, writing)
    BY <1>1, <2>2, KeepMore
  <2>4. file # <<>> => Before(file[Len(file)], p)
    BY <1>1, <1>6, AheadPlace DEF Quiet, p
  <2>5. Line(p) = n /\ Bounded(p)
    <3>1. /\ Len(p) = Len(frames) + 1 /\ Line(p) = n /\ p[Len(frames) + 1] = <<n, 0>> /\ DOMAIN p = 1 .. Len(frames) + 1
      BY <1>6, PlaceType DEF p
    <3>2. Len(frames) = 0
      BY <2>2
    <3>3. DOMAIN p = {1} /\ p[1] = <<n, 0>>
      BY <3>1, <3>2
    <3> QED
      <4>1. p[1][1] = n /\ n <= n
        BY <1>6, <3>3
      <4> QED
        BY <3>1, <3>3, <4>1 DEF Bounded
  <2>6. CASE ~writing
    <3>1. file' = file /\ size' = size
      BY <2>1, <2>6
    <3>2. Quiet(stgbuf', frames', n', file', size', code_idx', kept', writing')
      BY <1>3, <2>1, <2>2, <2>3, <2>6, <3>1 DEF Quiet
    <3>3. QuietType(stgbuf', frames', n', file', size', code_idx', kept')
      BY <1>3, <1>4, <1>6, <2>1, <2>2, <3>1 DEF QuietType
    <3> QED
      BY <1>1, <1>3, <1>6, <2>1, <2>2, <3>1, <3>2, <3>3, ConcludedParsing
  <2>7. CASE writing
    <3> DEFINE gl == file \o <<p>>
    <3>1. /\ gl \in Seq(Places) /\ Len(gl) = Len(file) + 1 /\ InSequence(gl) /\ Range(gl) = Range(file) \cup {p}
          /\ gl[Len(file) + 1] = p /\ \A k \in 1 .. Len(file) : gl[k] = file[k]
      BY <1>1, <1>4, <1>6, <2>4, AppendFile
    <3>2. file' = gl /\ size' = size + 1
      BY <2>1, <2>7
    <3> HIDE DEF gl
    <3>3. Older(gl, <<>>, n + 1)
      <4>1. DOMAIN gl = 1 .. Len(file) + 1 /\ DOMAIN file = 1 .. Len(file) /\ Len(file) \in Nat
        BY <1>6, <3>1
      <4>2. Older(file, <<>>, n + 1)
        BY <2>3 DEF Quiet
      <4> SUFFICES ASSUME NEW k \in DOMAIN gl PROVE Bounded(gl[k]) /\ Line(gl[k]) < n + 1
        BY DEF Older
      <4>3. CASE k = Len(file) + 1
        BY <1>6, <2>5, <3>1, <4>3
      <4>4. CASE k \in 1 .. Len(file)
        BY <3>1, <4>1, <4>2, <4>4 DEF Older
      <4> QED
        BY <4>1, <4>3, <4>4
    <3>4. All(<<>>) = {}
      BY DEF All, Codes
    <3>5. Ahead(gl, <<>>, All(<<>>))
      BY <3>4 DEF Ahead
    <3>6. Accounts(gl, size + 1, <<>>, All(<<>>), <<>>, code_idx + 1, kept \cup {p})
      <4>1. Accounts(file, size, <<>>, All(<<>>), <<>>, code_idx, kept)
        BY <2>3, <2>7 DEF Quiet
      <4>2. Cardinality(All(<<>>)) = 0
        BY <3>4, FS_EmptySet
      <4> QED
        BY <1>6, <3>1, <3>4, <4>1, <4>2 DEF Accounts
    <3>7. Quiet(stgbuf', frames', n', file', size', code_idx', kept', writing')
      BY <1>3, <2>1, <2>2, <2>3, <3>2, <3>3, <3>5, <3>6 DEF Quiet
    <3>8. QuietType(stgbuf', frames', n', file', size', code_idx', kept')
      BY <1>3, <1>4, <1>6, <2>1, <2>2, <3>1, <3>2 DEF QuietType
    <3> QED
      BY <1>1, <1>3, <1>6, <2>1, <2>2, <2>7, <3>1, <3>2, <3>7, <3>8, ConcludedParsing
  <2> QED
    BY <2>6, <2>7
<1> QED
  BY <1>7, <1>8

LEMMA OpenCallStep ==
  ASSUME Inv, OpenCall, status = "ok", status' = "ok"
  PROVE  Inv'
<1>1. /\ QuietType(stgbuf, frames, n, file, size, code_idx, kept)
      /\ Quiet(stgbuf, frames, n, file, size, code_idx, kept, writing)
      /\ Begun(frames) /\ InSequence(file) /\ (~writing => file = <<>>) /\ staging
  BY Parsing DEF OpenCall, Running
<1>2. AllInside(frames)
  BY <1>1, InsideAll DEF Inv, OpenCall, Quiet, Good
<1>3. PICK formals \in 0 .. MaxFormals : frames' = Append(frames, Frame("call", formals))
  BY DEF OpenCall
<1>4. /\ Emit(<<Start>>, <<>>, FALSE) /\ n' = n + 1 /\ todo' = <<>>
  BY DEF OpenCall, Running
<1>5. /\ writing \in BOOLEAN /\ staging \in BOOLEAN /\ stgbuf \in Seq(Tokens) /\ file \in Seq(Places) /\ kept \subseteq Places
      /\ size \in Int /\ code_idx \in Int /\ n \in Nat /\ frames \in Seq(Frames) /\ TypeOK
  BY DEF Inv, TypeOK
<1>6. formals \in Nat /\ formals <= MaxFormals
  BY BoundsAssumption
<1> DEFINE f == Frame("call", formals)
<1>7. /\ f \in Frames /\ f.kind = "call" /\ f.index = Len(stgbuf) /\ f.at = n /\ f.arg = NoArg /\ f.nargs = 0
      /\ f.done = {} /\ f.formals = formals /\ f.cidx = code_idx
  BY <1>6, FrameIs
<1>8. frames' = Append(frames, f)
  BY <1>3
<1> HIDE DEF f
<1>9. /\ Appended(stgbuf, Start, stgbuf', Len(stgbuf) + 1)
      /\ writing' = writing /\ staging' /\ file' = file /\ size' = size /\ code_idx' = code_idx /\ kept' = kept
  BY <1>1, <1>4, <1>5, EmitMark, TokenOf
<1>10. Quiet(stgbuf', Append(frames, f), n, file, size, code_idx, kept, writing) /\ Append(frames, f) \in Seq(Frames)
  BY <1>1, <1>2, <1>6, <1>7, <1>9, KeepStart DEF IsCall
<1>11. QuietType(stgbuf', Append(frames, f), n, file, size, code_idx, kept)
  BY <1>5, <1>9, <1>10, AppendedTokens DEF QuietType
<1>12. Quiet(stgbuf', frames', n', file', size', code_idx', kept', writing')
  BY <1>4, <1>8, <1>9, <1>10, <1>11, KeepMore
<1>13. QuietType(stgbuf', frames', n', file', size', code_idx', kept')
  BY <1>4, <1>5, <1>8, <1>9, <1>11 DEF QuietType
<1>14. Begun(frames')
  BY <1>1, <1>5, <1>7, <1>8, BegunPush
<1>15. staging' \in BOOLEAN
  BY <1>1, <1>4, <1>5 DEF Emit
<1> QED
  BY <1>1, <1>4, <1>5, <1>9, <1>12, <1>13, <1>14, <1>15, ConcludedParsing

LEMMA BegunSet ==
  ASSUME NEW fs \in Seq(Frames), NEW g, Begun(fs), g.kind = "for" => g.arg # NoArg
  PROVE  Begun([fs EXCEPT ![Len(fs)] = g])
<1>1. DOMAIN [fs EXCEPT ![Len(fs)] = g] = DOMAIN fs
  OBVIOUS
<1>2. \A j \in DOMAIN fs : [fs EXCEPT ![Len(fs)] = g][j] = IF j = Len(fs) THEN g ELSE fs[j]
  OBVIOUS
<1> QED
  BY <1>1, <1>2 DEF Begun

(* An argument of a call or of a "for" is marked.                          *)
LEMMA MarkStep ==
  ASSUME Inv, status = "ok", status' = "ok", todo = <<>>, todo' = <<>>, frames # <<>>, n' = n,
         NEW i \in Nat, NEW bad, Emit(<<Arg(i)>>, <<>>, bad),
         NEW g \in Frames, IsCall(Top), Takes(Top, g, i), g.cidx = Top.cidx, frames' = SetTop(g)
  PROVE  Inv'
<1>1. /\ QuietType(stgbuf, frames, n, file, size, code_idx, kept)
      /\ Quiet(stgbuf, frames, n, file, size, code_idx, kept, writing)
      /\ Begun(frames) /\ InSequence(file) /\ (~writing => file = <<>>) /\ staging
  BY Parsing
<1>2. /\ writing \in BOOLEAN /\ staging \in BOOLEAN /\ stgbuf \in Seq(Tokens) /\ file \in Seq(Places) /\ kept \subseteq Places
      /\ size \in Int /\ code_idx \in Int /\ n \in Nat /\ frames \in Seq(Frames) /\ TypeOK
  BY DEF Inv, TypeOK
<1>3. /\ Appended(stgbuf, Arg(i), stgbuf', Len(stgbuf) + 1)
      /\ writing' = writing /\ staging' /\ file' = file /\ size' = size /\ code_idx' = code_idx /\ kept' = kept
  BY <1>1, <1>2, EmitMark, TokenOf
<1>4. Top = frames[Len(frames)]
  BY <1>2, TopFacts
<1> DEFINE gs == [frames EXCEPT ![Len(frames)] = g]
<1>5. Quiet(stgbuf', gs, n, file, size, code_idx, kept, writing) /\ gs \in Seq(Frames)
  BY <1>1, <1>3, <1>4, KeepMark
<1>6. frames' = gs
  BY DEF SetTop
<1>7. Begun(gs)
  <2>1. g.kind = "for" => g.arg # NoArg
    BY DEF Takes, NoArg
  <2> QED
    BY <1>1, <1>2, <2>1, BegunSet
<1> HIDE DEF gs
<1>8. Quiet(stgbuf', frames', n', file', size', code_idx', kept', writing')
  BY <1>3, <1>5, <1>6
<1>9. QuietType(stgbuf', frames', n', file', size', code_idx', kept')
  BY <1>2, <1>3, <1>5, <1>6, AppendedTokens DEF QuietType
<1>10. staging' \in BOOLEAN
  BY <1>2 DEF Emit
<1> QED
  BY <1>1, <1>2, <1>3, <1>6, <1>7, <1>8, <1>9, <1>10, ConcludedParsing

LEMMA FrameExcept ==
  ASSUME NEW f \in Frames, NEW k \in Int, NEW m \in Nat, NEW b \in BOOLEAN, NEW D \in SUBSET Int
  PROVE  [f EXCEPT !.arg = k, !.nargs = m, !.named = b, !.done = D] \in Frames
BY DEF Frames

(* An argument that is no error                                             *)
LEMMA TakeStep ==
  ASSUME Inv, status = "ok", status' = "ok", InCall, NEW k \in Nat, NEW named \in BOOLEAN, NEW ignored \in BOOLEAN, NEW bad,
         TakeArgument(k, named, ignored, bad),
         ~bad => k \notin Top.done,
         ~bad => \/ named /\ k < Top.formals
                 \/ ~Top.named /\ k = Top.nargs /\ Top.nargs < sMAXARGS /\ ~named
  PROVE  Inv'
<1> DEFINE g == [Top EXCEPT !.arg = k, !.nargs = @ + 1, !.named = Top.named \/ named,
                            !.done = IF ignored THEN @ \ {k} ELSE @ \union {k}]
<1>1. /\ todo = <<>> /\ todo' = <<>> /\ frames # <<>> /\ n' = n /\ Emit(<<Arg(k)>>, <<>>, bad) /\ frames' = SetTop(g)
      /\ Top.kind = "call"
  BY DEF InCall, Running, TakeArgument
<1>2. TypeOK /\ staging /\ staging \in BOOLEAN
  <2>1. ~staging => frames = <<>>
    BY <1>1, Parsing
  <2> QED
    BY <1>1, <2>1 DEF Inv, TypeOK
<1>3. Top \in Frames
  BY <1>1, <1>2, TopFacts
<1>4. ~bad
  BY <1>1, <1>2, EmitMark, TokenOf
<1>5. g.done = Top.done \/ g.done = Top.done \cup {k}
  BY <1>3, <1>4 DEF Frames
<1>6. g \in Frames /\ g.cidx = Top.cidx
  <2>1. (IF ignored THEN Top.done \ {k} ELSE Top.done \union {k}) \subseteq Int
    BY <1>3 DEF Frames
  <2>2. (Top.named \/ named) \in BOOLEAN
    OBVIOUS
  <2>3. Top.nargs + 1 \in Nat
    BY <1>3 DEF Frames
  <2>4. g = [Top EXCEPT !.arg = k, !.nargs = Top.nargs + 1, !.named = Top.named \/ named,
                        !.done = IF ignored THEN Top.done \ {k} ELSE Top.done \union {k}]
    BY <1>3 DEF Frames
  <2> DEFINE D == IF ignored THEN Top.done \ {k} ELSE Top.done \union {k}
             b == Top.named \/ named
  <2>5. D \in SUBSET Int /\ b \in BOOLEAN /\ g = [Top EXCEPT !.arg = k, !.nargs = Top.nargs + 1, !.named = b, !.done = D]
    BY <2>1, <2>2, <2>4
  <2> HIDE DEF D, b, g
  <2>6. [Top EXCEPT !.arg = k, !.nargs = Top.nargs + 1, !.named = b, !.done = D] \in Frames
    <3>1. PICK m \in Nat : m = Top.nargs + 1
      BY <2>3
    <3>2. [Top EXCEPT !.arg = k, !.nargs = m, !.named = b, !.done = D] \in Frames
      <4>1. k \in Int
        OBVIOUS
      <4> QED
        BY <1>3, <2>5, <4>1, FrameExcept, Zenon
    <3> QED
      BY <3>1, <3>2
  <2>7. g \in Frames /\ Top.cidx = Top.cidx
    BY <2>5, <2>6
  <2> QED
    BY <1>3, <2>7 DEF g, Frames
<1>7. /\ g.kind = Top.kind /\ g.index = Top.index /\ g.at = Top.at /\ g.arg = k /\ g.formals = Top.formals
      /\ g.nargs = Top.nargs + 1 /\ g.named = (Top.named \/ named)
  BY <1>3 DEF Frames
<1> HIDE DEF g
<1>8. SameFrame(Top, g)
  BY <1>1, <1>7 DEF SameFrame, IsCall
<1>9. Takes(Top, g, k)
  BY <1>1, <1>4, <1>5, <1>7, <1>8 DEF Takes
<1>10. IsCall(Top)
  BY <1>1 DEF IsCall
<1> QED
  BY <1>1, <1>6, <1>9, <1>10, MarkStep

LEMMA PositionalStep ==
  ASSUME Inv, Positional, status = "ok", status' = "ok"
  PROVE  Inv'
<1>1. InCall /\ todo = <<>> /\ frames # <<>>
  BY DEF Positional, InCall, Running
<1>2. Top \in Frames
  BY <1>1, TopFacts DEF Inv
<1>3. PICK ignored \in BOOLEAN :
        TakeArgument(Top.nargs, FALSE, ignored,
                     \/ Top.named \/ Top.nargs >= sMAXARGS \/ Top.nargs \in Top.done
                     \/ ignored /\ Top.nargs >= Top.formals)
  BY DEF Positional
<1> DEFINE bad == \/ Top.named \/ Top.nargs >= sMAXARGS \/ Top.nargs \in Top.done
                  \/ ignored /\ Top.nargs >= Top.formals
<1>4. TakeArgument(Top.nargs, FALSE, ignored, bad)
  BY <1>3
<1>5. Top.nargs \in Nat /\ sMAXARGS \in Nat
  BY <1>2, BoundsAssumption DEF Frames
<1>6. ~bad => ~Top.named /\ Top.nargs < sMAXARGS /\ Top.nargs \notin Top.done
  BY <1>5
<1> HIDE DEF bad
<1> QED
  BY <1>1, <1>4, <1>5, <1>6, TakeStep

LEMMA NamedStep ==
  ASSUME Inv, Named, status = "ok", status' = "ok"
  PROVE  Inv'
<1>1. InCall /\ todo = <<>> /\ frames # <<>>
  BY DEF Named, InCall, Running
<1>2. Top \in Frames
  BY <1>1, TopFacts DEF Inv
<1>3. PICK k \in 0 .. Top.formals - 1, ignored \in BOOLEAN : TakeArgument(k, TRUE, ignored, k \in Top.done)
  BY DEF Named
<1> DEFINE bad == k \in Top.done
<1>4. TakeArgument(k, TRUE, ignored, bad)
  BY <1>3
<1>5. k \in Nat /\ k < Top.formals
  <2>1. Top.formals \in Nat
    BY <1>2 DEF Frames
  <2> QED
    BY <2>1
<1>6. ~bad => k \notin Top.done
  OBVIOUS
<1> HIDE DEF bad
<1> QED
  BY <1>1, <1>4, <1>5, <1>6, TakeStep

LEMMA ThirdExpressionStep ==
  ASSUME Inv, ThirdExpression, status = "ok", status' = "ok"
  PROVE  Inv'
<1> DEFINE g == [Top EXCEPT !.arg = 1]
<1>1. /\ todo = <<>> /\ todo' = <<>> /\ frames # <<>> /\ n' = n /\ Emit(<<Arg(1)>>, <<>>, FALSE) /\ frames' = SetTop(g)
      /\ Top.kind = "for" /\ Top.arg = 0
  BY DEF ThirdExpression, Running
<1>2. Top \in Frames
  BY <1>1, TopFacts DEF Inv
<1>3. /\ g \in Frames /\ g.cidx = Top.cidx /\ g.kind = "for" /\ g.index = Top.index /\ g.at = Top.at /\ g.arg = 1
      /\ g.formals = Top.formals
  BY <1>1, <1>2 DEF Frames
<1> HIDE DEF g
<1>4. SameFrame(Top, g)
  BY <1>1, <1>3 DEF SameFrame, IsCall
<1>5. Takes(Top, g, 1)
  BY <1>1, <1>3, <1>4 DEF Takes
<1>6. IsCall(Top)
  BY <1>1 DEF IsCall
<1> QED
  BY <1>1, <1>3, <1>5, <1>6, MarkStep

(* The mark of a default argument, and its line behind it                  *)
LEMMA DefaultArgumentStep ==
  ASSUME Inv, DefaultArgument, status = "ok", status' = "ok"
  PROVE  Inv'
<1>1. /\ QuietType(stgbuf, frames, n, file, size, code_idx, kept)
      /\ Quiet(stgbuf, frames, n, file, size, code_idx, kept, writing)
      /\ Begun(frames) /\ InSequence(file) /\ (~writing => file = <<>>) /\ staging
      /\ frames # <<>> /\ Top.kind \in {"call", "defaults"} /\ todo = <<>>
  BY Parsing DEF DefaultArgument, Closed, Running
<1>2. /\ writing \in BOOLEAN /\ staging \in BOOLEAN /\ stgbuf \in Seq(Tokens) /\ file \in Seq(Places) /\ kept \subseteq Places
      /\ size \in Int /\ code_idx \in Int /\ n \in Nat /\ frames \in Seq(Frames) /\ TypeOK
  BY DEF Inv, TypeOK
<1>3. Top \in Frames /\ Top = frames[Len(frames)] /\ Len(frames) \in DOMAIN frames
  BY <1>1, <1>2, TopFacts
<1>4. PICK k \in Missing, hasdefault \in BOOLEAN :
        LET taken == SetTop([Top EXCEPT !.kind = "defaults", !.arg = k, !.done = @ \union {k}])
        IN  /\ Emit(<<Arg(k)>>, IF hasdefault THEN <<Place(taken, n)>> ELSE <<>>, ~hasdefault)
            /\ frames' = taken
  BY DEF DefaultArgument
<1>5. n' = n + 1 /\ todo' = <<>>
  BY <1>1 DEF DefaultArgument
<1>6. k \in Nat /\ k \in Int /\ k < Top.formals /\ k \notin Top.done
  <2>1. Top.formals \in Nat
    BY <1>3 DEF Frames
  <2> QED
    BY <2>1 DEF Missing
<1> DEFINE g == [Top EXCEPT !.kind = "defaults", !.arg = k, !.done = @ \union {k}]
           gs == [frames EXCEPT ![Len(frames)] = g]
<1>7. /\ g \in Frames /\ g.cidx = Top.cidx /\ g.kind = "defaults" /\ g.index = Top.index /\ g.at = Top.at /\ g.arg = k
      /\ g.formals = Top.formals /\ g.done = Top.done \cup {k}
  BY <1>3, <1>6 DEF Frames
<1>8. frames' = gs
  BY <1>4 DEF SetTop
<1>9. hasdefault
  <2> SUFFICES ASSUME ~hasdefault PROVE FALSE
    OBVIOUS
  <2>1. Emit(<<Arg(k)>>, <<>>, ~hasdefault)
    BY <1>4
  <2>2. ~(~hasdefault)
    BY <1>1, <1>2, <1>6, <2>1, EmitMark, TokenOf
  <2> QED
    BY <2>2
<1>10. Emit(<<Arg(k)>>, <<Place(gs, n)>>, FALSE)
  BY <1>4, <1>9 DEF SetTop
<1> HIDE DEF g
<1>11. Takes(Top, g, k) /\ IsCall(Top)
  <2>1. SameFrame(Top, g)
    BY <1>1, <1>7 DEF SameFrame, IsCall
  <2> QED
    BY <1>1, <1>6, <1>7, <2>1 DEF Takes, IsCall
<1>12. gs \in Seq(Frames)
  <2>1. Len(frames) \in 1 .. Len(frames)
    BY <1>2, <1>3
  <2> QED
    BY <1>2, <1>7, <2>1, ExceptSeq
<1>13. Begun(gs)
  BY <1>1, <1>2, <1>7, BegunSet
<1>14. Place(gs, n) \in Places
  BY <1>2, <1>12, PlaceType
<1>15. PICK t \in Seq(Tokens) : /\ Appended(stgbuf, Arg(k), t, Len(stgbuf) + 1)
                                /\ Appended(t, Code(Place(gs, n)), stgbuf', Len(t) + 1)
  BY <1>1, <1>2, <1>6, <1>10, <1>14, EmitBoth, TokenOf
<1>16. /\ writing' = writing /\ staging' /\ file' = file /\ size' = size
       /\ code_idx' = code_idx + 1 /\ kept' = kept \cup {Place(gs, n)}
  BY <1>1, <1>2, <1>6, <1>10, <1>14, EmitBoth, TokenOf
<1>17. Quiet(t, gs, n, file, size, code_idx, kept, writing)
  BY <1>1, <1>3, <1>6, <1>7, <1>11, <1>15, KeepMark
<1>18. DOMAIN gs = DOMAIN frames /\ Len(gs) = Len(frames) /\ gs[Len(gs)] = g
  BY <1>2, <1>3
<1> HIDE DEF gs
<1>19. AllInside(gs)
  <2>1. \A j \in DOMAIN gs : j # Len(gs) => Inside(gs[j])
    BY <1>17 DEF Quiet, Good, Parsed
  <2>2. Inside(g)
    BY <1>7 DEF Inside, IsCall
  <2> QED
    BY <1>18, <2>1, <2>2 DEF AllInside
<1>20. QuietType(t, gs, n, file, size, code_idx, kept)
  BY <1>2, <1>12 DEF QuietType
<1>21. Quiet(stgbuf', frames', n', file', size', code_idx', kept', writing')
  <2>1. Quiet(stgbuf', gs, n + 1, file, size, code_idx + 1, kept \cup {Place(gs, n)}, writing)
    BY <1>15, <1>17, <1>19, <1>20, KeepLine
  <2> QED
    BY <1>5, <1>8, <1>16, <2>1
<1>22. QuietType(stgbuf', frames', n', file', size', code_idx', kept')
  <2>1. stgbuf' \in Seq(Tokens)
    BY <1>15, AppendedTokens
  <2> QED
    BY <1>2, <1>5, <1>8, <1>12, <1>14, <1>16, <2>1 DEF QuietType
<1>23. staging' \in BOOLEAN
  BY <1>2, <1>10 DEF Emit
<1> QED
  BY <1>1, <1>2, <1>5, <1>8, <1>13, <1>16, <1>21, <1>22, <1>23, ConcludedParsing

(* The call is behind all its arguments: none is missing.                  *)
LEMMA CloseCallStep ==
  ASSUME Inv, CloseCall, status = "ok", status' = "ok"
  PROVE  Inv'
<1>1. /\ QuietType(stgbuf, frames, n, file, size, code_idx, kept)
      /\ Quiet(stgbuf, frames, n, file, size, code_idx, kept, writing)
      /\ Begun(frames) /\ InSequence(file) /\ (~writing => file = <<>>) /\ staging
      /\ frames # <<>> /\ Top.kind \in {"call", "defaults"} /\ todo = <<>> /\ Missing = {}
  BY Parsing DEF CloseCall, Closed, Running
<1>2. /\ writing \in BOOLEAN /\ staging \in BOOLEAN /\ stgbuf \in Seq(Tokens) /\ file \in Seq(Places) /\ kept \subseteq Places
      /\ size \in Int /\ code_idx \in Int /\ n \in Nat /\ frames \in Seq(Frames) /\ TypeOK
  BY DEF Inv, TypeOK
<1>3. Top \in Frames /\ Top = frames[Len(frames)] /\ Len(frames) \in DOMAIN frames /\ Last(frames) = Top
  BY <1>1, <1>2, TopFacts DEF Top
<1> DEFINE gs == Front(frames)
           p == Place(gs, n)
<1>4. Emit(<<End>>, <<p>>, FALSE) /\ n' = n + 1 /\ frames' = gs /\ todo' = <<>>
  BY <1>1 DEF CloseCall
<1>5. /\ gs \in Seq(Frames) /\ DOMAIN gs = 1 .. Len(frames) - 1
      /\ \A h \in 1 .. Len(frames) - 1 : gs[h] = frames[h] /\ h \in DOMAIN frames /\ h # Len(frames)
  BY <1>1, <1>2, PopFacts
<1>6. IsCall(Last(frames))
  BY <1>1, <1>3 DEF IsCall
<1> HIDE DEF gs
<1>7. p \in Places
  BY <1>2, <1>5, PlaceType
<1>8. \E h \in 0 .. sMAXARGS : ArgsTo(stgbuf, Last(frames).index + 1, Len(stgbuf)) = 0 .. h - 1
  <2>1. Taken(stgbuf, Last(frames))
    BY <1>1, <1>3, <1>6 DEF Quiet, Good, Parsed
  <2>2. (0 .. Top.formals - 1) \subseteq Top.done
    BY <1>1 DEF Missing
  <2>3. Top.kind # "for"
    BY <1>1
  <2> QED
    BY <1>2, <1>3, <1>6, <2>1, <2>2, <2>3, AllArguments
<1>9. PICK t \in Seq(Tokens) : /\ Appended(stgbuf, End, t, Len(stgbuf) + 1)
                               /\ Appended(t, Code(p), stgbuf', Len(t) + 1)
  BY <1>1, <1>2, <1>4, <1>7, EmitBoth, TokenOf
<1>10. /\ writing' = writing /\ staging' /\ file' = file /\ size' = size
       /\ code_idx' = code_idx + 1 /\ kept' = kept \cup {p}
  BY <1>1, <1>2, <1>4, <1>7, EmitBoth, TokenOf
<1>11. Quiet(t, gs, n, file, size, code_idx, kept, writing)
  BY <1>1, <1>6, <1>8, <1>9, KeepEnd DEF gs
<1>12. AllInside(gs)
  BY <1>1, <1>5 DEF Quiet, Good, Parsed, AllInside
<1>13. QuietType(t, gs, n, file, size, code_idx, kept)
  BY <1>2, <1>5 DEF QuietType
<1>14. Quiet(stgbuf', frames', n', file', size', code_idx', kept', writing')
  <2>1. Quiet(stgbuf', gs, n + 1, file, size, code_idx + 1, kept \cup {p}, writing)
    BY <1>9, <1>11, <1>12, <1>13, KeepLine
  <2> QED
    BY <1>4, <1>10, <2>1
<1>15. QuietType(stgbuf', frames', n', file', size', code_idx', kept')
  <2>1. stgbuf' \in Seq(Tokens)
    BY <1>9, AppendedTokens
  <2> QED
    BY <1>2, <1>4, <1>5, <1>7, <1>10, <2>1 DEF QuietType
<1>16. staging' \in BOOLEAN
  BY <1>2, <1>4 DEF Emit
<1>17. Begun(frames')
  BY <1>1, <1>2, <1>4, BegunPop DEF gs
<1> QED
  BY <1>1, <1>2, <1>4, <1>10, <1>14, <1>15, <1>16, <1>17, ConcludedParsing

(* The whole buffer is what is to be written first.                         *)
LEMMA WholePart ==
  ASSUME NEW s \in Seq(Tokens), Sound(s), Stacked(s, <<>>), NEW td, td = <<Part(1, Len(s))>>
  PROVE  td \in Seq(PartType) /\ Parts(s, td) /\ Waiting(s, td) = All(s) /\ td # <<>>
<1> DEFINE p == Part(1, Len(s))
<1>1. Len(s) \in Nat /\ p.start = 1 /\ p.end = Len(s) /\ p \in PartType
  BY DEF Part, PartType
<1>2. Depth(s, 0) = 0 /\ Depth(s, Len(s)) = 0
  <2>1. Base(s, <<>>, 1) = Len(s)
    BY DEF Base
  <2> QED
    BY <2>1, DepthZero DEF Stacked
<1>3. PartInv(s, p)
  <2>1. p.start - 1 = 0
    BY <1>1
  <2>2. \A k \in p.start .. p.end : Depth(s, k) >= 0 /\ (IsMark(s, k) => Depth(s, k) > 0)
    <3> SUFFICES ASSUME NEW k \in p.start .. p.end PROVE Depth(s, k) >= 0 /\ (IsMark(s, k) => Depth(s, k) > 0)
      OBVIOUS
    <3>1. k \in DOMAIN s /\ k \in Int
      BY <1>1
    <3>2. NestedAt(s, k) /\ Depth(s, k) \in Int
      BY <3>1, DepthType DEF Sound, SoundAt
    <3> QED
      BY <3>2 DEF NestedAt
  <2> QED
    BY <1>1, <1>2, <2>1, <2>2 DEF PartInv
<1> HIDE DEF p
<1>4. td \in Seq(PartType) /\ td # <<>> /\ DOMAIN td = {1} /\ td[1] = p
  BY <1>1 DEF p
<1>5. Parts(s, td)
  BY <1>3, <1>4 DEF Parts
<1>6. Waiting(s, td) = All(s)
  <2>1. DOMAIN s = 1 .. Len(s)
    OBVIOUS
  <2> QED
    BY <1>1, <1>4, <2>1 DEF Waiting, All, Codes, In
<1> QED
  BY <1>4, <1>5, <1>6

LEMMA FinishStep ==
  ASSUME Inv, Finish
  PROVE  Inv'
<1>1. /\ QuietType(stgbuf, frames, n, file, size, code_idx, kept)
      /\ Quiet(stgbuf, frames, n, file, size, code_idx, kept, writing)
      /\ frames = <<>> /\ staging
      /\ Begun(frames) /\ InSequence(file) /\ (~writing => file = <<>>)
  BY Parsing DEF Finish, Running
<1>2. /\ stgbuf' = stgbuf /\ frames' = frames /\ n' = n /\ file' = file /\ size' = size /\ code_idx' = code_idx
      /\ kept' = kept /\ writing' = writing /\ staging' = staging /\ todo' = <<Part(1, Len(stgbuf))>>
  BY <1>1 DEF Finish, Running, output
<1>3. writing' \in BOOLEAN /\ staging' \in BOOLEAN
  BY <1>2 DEF Inv, TypeOK
<1>4. todo' \in Seq(PartType) /\ Parts(stgbuf, todo') /\ Waiting(stgbuf, todo') = All(stgbuf)
  <2>1. stgbuf \in Seq(Tokens) /\ Sound(stgbuf) /\ Stacked(stgbuf, <<>>)
    BY <1>1 DEF QuietType, Quiet, Good
  <2> QED
    BY <1>2, <2>1, WholePart
<1> QED
  BY <1>1, <1>2, <1>3, <1>4, Concluded

LEMMA BeginForStep ==
  ASSUME Inv, BeginFor
  PROVE  Inv'
<1>1. /\ QuietType(stgbuf, frames, n, file, size, code_idx, kept)
      /\ Quiet(stgbuf, frames, n, file, size, code_idx, kept, writing)
      /\ stgbuf = <<>> /\ frames = <<>>
      /\ Begun(frames) /\ InSequence(file) /\ (~writing => file = <<>>)
  BY Parsing DEF BeginFor, Running
<1> DEFINE f == Frame("for", 0)
           g == [f EXCEPT !.arg = 0]
<1>2. /\ stgbuf' = <<Start, Arg(0)>> /\ frames' = <<g>> /\ n' = n + 1 /\ file' = file /\ size' = size
      /\ code_idx' = code_idx /\ kept' = kept /\ writing' = writing /\ staging' = TRUE /\ todo' = <<>>
  BY <1>1 DEF BeginFor, Running, output
<1>3. /\ writing \in BOOLEAN /\ file \in Seq(Places) /\ kept \subseteq Places /\ size \in Int /\ code_idx \in Int /\ n \in Nat
  BY DEF Inv, TypeOK
<1>4. AllInside(frames)
  BY <1>1 DEF AllInside
<1>5. /\ f \in Frames /\ f.kind = "for" /\ f.index = Len(stgbuf) /\ f.at = n /\ f.arg = NoArg /\ f.cidx = code_idx
      /\ f.nargs = 0 /\ f.done = {} /\ f.formals = 0
  BY FrameIs
<1> HIDE DEF f
<1>6. /\ g \in Frames /\ g.kind = "for" /\ g.index = f.index /\ g.at = f.at /\ g.arg = 0 /\ g.cidx = f.cidx
      /\ g.formals = f.formals
  BY <1>5 DEF Frames
<1> HIDE DEF g
<1>7. IsCall(f)
  BY <1>5 DEF IsCall
<1> DEFINE t == Append(stgbuf, Start)
<1>8. /\ Appended(stgbuf, Start, t, Len(stgbuf) + 1) /\ t = <<Start>> /\ t \in Seq(Tokens)
  BY <1>1, TokenOf DEF Appended
<1>9. Append(frames, f) = <<f>>
  BY <1>1
<1>10. 0 <= MaxFormals
  BY BoundsAssumption
<1>11. Quiet(t, <<f>>, n, file, size, code_idx, kept, writing)
  <2>1. Quiet(t, Append(frames, f), n, file, size, code_idx, kept, writing)
    BY <1>1, <1>4, <1>5, <1>7, <1>8, <1>10, KeepStart
  <2> QED
    BY <1>9, <2>1
<1>12. Takes(f, g, 0)
  <2>1. SameFrame(f, g)
    BY <1>5, <1>6, <1>7 DEF SameFrame
  <2> QED
    BY <1>5, <1>6, <2>1 DEF Takes, NoArg
<1> HIDE DEF t
<1>13. QuietType(t, <<f>>, n, file, size, code_idx, kept)
  BY <1>3, <1>5, <1>8 DEF QuietType
<1>14. Appended(t, Arg(0), <<Start, Arg(0)>>, Len(t) + 1)
  <2>1. Arg(0) \in Tokens
    BY TokenOf
  <2> DEFINE a == Arg(0)
  <2> HIDE DEF a
  <2>2. <<Start, a>> = Append(t, a)
    BY <1>8
  <2> QED
    BY <1>8, <2>1, <2>2 DEF Appended, a
<1>15. Quiet(<<Start, Arg(0)>>, <<g>>, n, file, size, code_idx, kept, writing)
  <2> DEFINE fs == <<f>>
  <2>1. fs # <<>> /\ Len(fs) = 1 /\ fs[1] = f /\ [fs EXCEPT ![Len(fs)] = g] = <<g>>
    OBVIOUS
  <2>2. fs # <<>> /\ IsCall(fs[Len(fs)]) /\ Takes(fs[Len(fs)], g, 0) /\ g.cidx = fs[Len(fs)].cidx
    BY <1>6, <1>7, <1>12, <2>1
  <2> HIDE DEF fs
  <2>3. Quiet(t, fs, n, file, size, code_idx, kept, writing) /\ QuietType(t, fs, n, file, size, code_idx, kept)
    BY <1>11, <1>13 DEF fs
  <2>4. Quiet(<<Start, Arg(0)>>, [fs EXCEPT ![Len(fs)] = g], n, file, size, code_idx, kept, writing)
    BY <1>6, <1>14, <2>2, <2>3, KeepMark
  <2> QED
    BY <2>1, <2>4
<1>16. <<Start, Arg(0)>> \in Seq(Tokens) /\ <<g>> \in Seq(Frames)
  BY <1>6, TokenOf
<1>17. QuietType(<<Start, Arg(0)>>, <<g>>, n, file, size, code_idx, kept)
  BY <1>3, <1>16 DEF QuietType
<1>18. Quiet(<<Start, Arg(0)>>, <<g>>, n + 1, file, size, code_idx, kept, writing)
  BY <1>15, <1>17, KeepMore
<1>19. Begun(<<g>>)
  BY <1>6 DEF Begun, NoArg
<1>20. QuietType(stgbuf', frames', n', file', size', code_idx', kept')
  BY <1>2, <1>3, <1>16 DEF QuietType
<1> QED
  BY <1>1, <1>2, <1>3, <1>18, <1>19, <1>20, ConcludedParsing

(* Both expressions of a "for" are there when it is written.               *)
LEMMA FinishForStep ==
  ASSUME Inv, FinishFor, status = "ok", status' = "ok"
  PROVE  Inv'
<1>1. /\ QuietType(stgbuf, frames, n, file, size, code_idx, kept)
      /\ Quiet(stgbuf, frames, n, file, size, code_idx, kept, writing)
      /\ Begun(frames) /\ InSequence(file) /\ (~writing => file = <<>>) /\ staging
      /\ frames # <<>> /\ Top.kind = "for" /\ Top.arg = 1 /\ todo = <<>>
  BY Parsing DEF FinishFor, Running
<1>2. /\ writing \in BOOLEAN /\ staging \in BOOLEAN /\ stgbuf \in Seq(Tokens) /\ file \in Seq(Places) /\ kept \subseteq Places
      /\ size \in Int /\ code_idx \in Int /\ n \in Nat /\ frames \in Seq(Frames) /\ TypeOK
  BY DEF Inv, TypeOK
<1>3. Top \in Frames /\ Top = frames[Len(frames)] /\ Len(frames) \in DOMAIN frames /\ Last(frames) = Top
  BY <1>1, <1>2, TopFacts DEF Top
<1>4. Emit(<<End>>, <<>>, FALSE) /\ n' = n /\ frames' = <<>> /\ todo' = <<Part(1, Len(stgbuf'))>>
  BY <1>1 DEF FinishFor
<1>5. IsCall(Last(frames))
  BY <1>1, <1>3 DEF IsCall
<1>6. Front(frames) = <<>>
  <2>1. Len(frames) = 1
    BY <1>1, <1>3 DEF Quiet, Good, Stacked, StackedAt
  <2>2. Front(frames) \in Seq(Frames) /\ Len(Front(frames)) = Len(frames) - 1
    BY <1>1, <1>2, PopFacts
  <2> QED
    BY <2>1, <2>2
<1>7. \E h \in 0 .. sMAXARGS : ArgsTo(stgbuf, Last(frames).index + 1, Len(stgbuf)) = 0 .. h - 1
  <2>1. Taken(stgbuf, Last(frames))
    BY <1>1, <1>3, <1>5 DEF Quiet, Good, Parsed
  <2> QED
    BY <1>1, <1>2, <1>3, <1>5, <2>1, AllArguments
<1>8. /\ Appended(stgbuf, End, stgbuf', Len(stgbuf) + 1)
      /\ writing' = writing /\ staging' /\ file' = file /\ size' = size /\ code_idx' = code_idx /\ kept' = kept
  BY <1>1, <1>2, <1>4, EmitMark, TokenOf
<1>9. Quiet(stgbuf', <<>>, n, file, size, code_idx, kept, writing)
  <2>1. Quiet(stgbuf', Front(frames), n, file, size, code_idx, kept, writing)
    BY <1>1, <1>5, <1>7, <1>8, KeepEnd
  <2> QED
    BY <1>6, <2>1
<1>10. stgbuf' \in Seq(Tokens)
  BY <1>8, AppendedTokens
<1>11. QuietType(stgbuf', frames', n', file', size', code_idx', kept')
  BY <1>2, <1>4, <1>8, <1>10 DEF QuietType
<1>12. Begun(frames')
  BY <1>4 DEF Begun
<1>13. staging' \in BOOLEAN
  BY <1>2, <1>4 DEF Emit
<1>14. todo' \in Seq(PartType) /\ Parts(stgbuf', todo') /\ Waiting(stgbuf', todo') = All(stgbuf')
  <2>1. Sound(stgbuf') /\ Stacked(stgbuf', <<>>)
    BY <1>9 DEF Quiet, Good
  <2> QED
    BY <1>4, <1>10, <2>1, WholePart
<1> QED
  BY <1>1, <1>2, <1>4, <1>8, <1>9, <1>11, <1>12, <1>13, <1>14, Concluded

LEMMA EmptyGood ==
  ASSUME NEW m \in Nat
  PROVE  Good(<<>>, <<>>) /\ Numbered(<<>>, <<>>, m) /\ Waiting(<<>>, <<>>) = {} /\ Parts(<<>>, <<>>)
<1>1. Sound(<<>>)
  BY DEF Sound
<1>2. Stacked(<<>>, <<>>)
  <2>1. Base(<<>>, <<>>, 1) = 0
    BY DEF Base
  <2> QED
    BY <2>1, DepthZero DEF Stacked
<1>3. Parsed(<<>>, <<>>) /\ Placed(<<>>, <<>>)
  BY DEF Parsed, Placed
<1>4. Numbered(<<>>, <<>>, m) /\ Waiting(<<>>, <<>>) = {} /\ Parts(<<>>, <<>>)
  BY DEF Numbered, Waiting, Parts
<1> QED
  BY <1>1, <1>2, <1>3, <1>4 DEF Good

(* What the invariant says while stgstring() is at work                    *)
LEMMA WritingFacts ==
  ASSUME Inv, todo # <<>>
  PROVE  /\ stgbuf \in Seq(Tokens) /\ todo \in Seq(PartType) /\ Parts(stgbuf, todo) /\ frames = <<>> /\ staging
         /\ staging \in BOOLEAN /\ writing \in BOOLEAN
         /\ Good(stgbuf, <<>>) /\ Sound(stgbuf) /\ Numbered(stgbuf, <<>>, n) /\ Begun(<<>>)
         /\ (~writing => file = <<>>) /\ Older(file, <<>>, n) /\ InSequence(file) /\ Ahead(file, stgbuf, Waiting(stgbuf, todo))
         /\ writing => Accounts(file, size, stgbuf, Waiting(stgbuf, todo), <<>>, code_idx, kept)
BY DEF Inv, TypeOK, OkInv, TodoInv, FileInv, Pending, Good

(* The parts of a call are written in the place of the call.               *)
LEMMA ReorderStep ==
  ASSUME Inv, Reorder, status = "ok", status' = "ok"
  PROVE  Inv'
<1>1. /\ stgbuf \in Seq(Tokens) /\ todo \in Seq(PartType) /\ Parts(stgbuf, todo) /\ Sound(stgbuf) /\ todo # <<>>
  BY WritingFacts DEF Reorder, Writing
<1> DEFINE p == Head(todo)
           a == p.start
           h == Argc(stgbuf, a)
           c == Closing(stgbuf, a)
           td == Entered(stgbuf, todo, p, h, c)
<1>2. /\ p.start <= p.end /\ stgbuf[p.start] = Start /\ todo' = td
      /\ stgbuf' = stgbuf /\ frames' = frames /\ n' = n /\ file' = file /\ size' = size /\ code_idx' = code_idx
      /\ kept' = kept /\ writing' = writing /\ staging' = staging
  BY DEF Reorder, Now, output, Entered
<1>3. td \in Seq(PartType) /\ td # <<>> /\ Parts(stgbuf, td) /\ Waiting(stgbuf, td) = Waiting(stgbuf, todo)
  <2>1. \E q, i, e : /\ q = Head(todo) /\ q.start <= q.end /\ stgbuf[q.start] = Start
                      /\ i = Argc(stgbuf, q.start) /\ e = Closing(stgbuf, q.start) /\ td = Entered(stgbuf, todo, q, i, e)
    BY <1>2
  <2> HIDE DEF td
  <2> QED
    BY <1>1, <2>1, ReorderedParts
<1> HIDE DEF td
<1>4. TypeOK'
  BY <1>2, <1>3 DEF Inv, TypeOK
<1>5. frames = <<>> /\ staging
  BY <1>1, WritingFacts
<1>6. TodoInv'
  BY <1>2, <1>3, <1>5 DEF TodoInv
<1>7. Pending' = Pending
  BY <1>2, <1>3 DEF Pending
<1>8. FileInv'
  BY <1>2, <1>7 DEF Inv, OkInv, FileInv
<1>9. OkInv'
  BY <1>2, <1>6, <1>8 DEF Inv, OkInv
<1> QED
  BY <1>4, <1>9 DEF Inv

(* The end of a part; after the last one nothing waits.                    *)
LEMMA ReturnStep ==
  ASSUME Inv, Return
  PROVE  Inv'
<1>0. todo # <<>>
  BY DEF Return, Writing
<1>1. /\ stgbuf \in Seq(Tokens) /\ todo \in Seq(PartType) /\ Parts(stgbuf, todo) /\ frames = <<>> /\ staging
      /\ staging \in BOOLEAN /\ writing \in BOOLEAN
      /\ Good(stgbuf, <<>>) /\ Sound(stgbuf) /\ Numbered(stgbuf, <<>>, n) /\ Begun(<<>>)
      /\ (~writing => file = <<>>) /\ Older(file, <<>>, n) /\ InSequence(file) /\ Ahead(file, stgbuf, Waiting(stgbuf, todo))
      /\ writing => Accounts(file, size, stgbuf, Waiting(stgbuf, todo), <<>>, code_idx, kept)
  BY <1>0, WritingFacts
<1>2. /\ frames' = <<>> /\ n' = n /\ file' = file /\ size' = size /\ code_idx' = code_idx
      /\ kept' = kept /\ writing' = writing /\ todo' = Tail(todo)
      /\ ~(Head(todo).start <= Head(todo).end)
  <2>1. Head(todo).start > Head(todo).end /\ Head(todo) \in PartType
    BY <1>0, <1>1 DEF Return, Now
  <2>2. ~(Head(todo).start <= Head(todo).end)
    BY <2>1 DEF PartType
  <2> QED
    BY <1>1, <2>2 DEF Return, Now, output
<1>3. /\ Tail(todo) \in Seq(PartType) /\ Len(todo) \in Nat \ {0} /\ Len(Tail(todo)) = Len(todo) - 1 /\ Head(todo) = todo[1]
      /\ \A j \in 1 .. Len(todo) - 1 : Tail(todo)[j] = todo[j + 1]
      /\ DOMAIN todo = 1 .. Len(todo) /\ DOMAIN Tail(todo) = 1 .. Len(todo) - 1
  BY <1>0, <1>1
<1>4. \A k : ~In(todo[1], k)
  <2>1. todo[1] \in PartType
    BY <1>1, <1>3
  <2> QED
    BY <1>2, <1>3, <2>1 DEF In, PartType
<1>5. CASE Tail(todo) = <<>>
  <2>1. staging' = FALSE /\ stgbuf' = <<>>
    BY <1>5 DEF Return
  <2>2. Waiting(stgbuf, todo) = {}
    <3>1. \A i \in DOMAIN todo : i = 1
      BY <1>3, <1>5
    <3> QED
      BY <1>0, <1>4, <3>1 DEF Waiting
  <2>3. n' \in Nat /\ n \in Nat
    BY <1>2 DEF Inv, TypeOK
  <2>4. Good(<<>>, <<>>) /\ Numbered(<<>>, <<>>, n') /\ Waiting(<<>>, <<>>) = {} /\ Parts(<<>>, <<>>)
    BY <2>3, EmptyGood
  <2>5. TypeOK'
    <3>1. <<>> \in Seq(Tokens) /\ <<>> \in Seq(Frames) /\ FALSE \in BOOLEAN
      OBVIOUS
    <3>2. /\ writing \in BOOLEAN /\ file \in Seq(Places) /\ kept \subseteq Places /\ size \in Int /\ code_idx \in Int /\ n \in Nat
      BY DEF Inv, TypeOK
    <3> QED
      BY <1>2, <1>3, <2>1, <3>1, <3>2, Zenon DEF TypeOK
  <2>6. TodoInv'
    BY <1>2, <1>5, <2>1, <2>4 DEF TodoInv
  <2>7. Pending' = {}
    BY <1>2, <1>5, <2>1, <2>4 DEF Pending
  <2>8. Ahead(file', stgbuf', {})
    BY DEF Ahead
  <2>9. writing => Accounts(file', size', stgbuf', {}, frames', code_idx', kept')
    BY <1>1, <1>2, <2>2 DEF Accounts
  <2>10. FileInv'
    BY <1>1, <1>2, <2>7, <2>8, <2>9 DEF FileInv
  <2>11. OkInv'
    BY <1>1, <1>2, <2>1, <2>4, <2>6, <2>10 DEF OkInv
  <2> QED
    BY <2>5, <2>11 DEF Inv
<1>6. CASE Tail(todo) # <<>>
  <2>1. staging' = staging /\ stgbuf' = stgbuf
    BY <1>6 DEF Return
  <2>2. \A j \in DOMAIN Tail(todo) : Tail(todo)[j] = todo[j + 1] /\ j + 1 \in DOMAIN todo
    BY <1>3
  <2>3. \A i \in DOMAIN todo : i = 1 \/ (i - 1 \in DOMAIN Tail(todo) /\ Tail(todo)[i - 1] = todo[i])
    <3> SUFFICES ASSUME NEW i \in DOMAIN todo, i # 1 PROVE i - 1 \in DOMAIN Tail(todo) /\ Tail(todo)[i - 1] = todo[i]
      OBVIOUS
    <3>1. i - 1 \in 1 .. Len(todo) - 1 /\ (i - 1) + 1 = i
      BY <1>3
    <3> QED
      BY <1>3, <3>1
  <2>4. Waiting(stgbuf, Tail(todo)) = Waiting(stgbuf, todo)
    <3>1. ASSUME NEW k
          PROVE  (\E i \in DOMAIN todo : In(todo[i], k)) <=> \E i \in DOMAIN Tail(todo) : In(Tail(todo)[i], k)
      BY <1>4, <2>2, <2>3
    <3> QED
      BY <1>0, <1>6, <3>1 DEF Waiting
  <2>5. Parts(stgbuf, Tail(todo))
    <3>1. \A i \in DOMAIN Tail(todo) : PartInv(stgbuf, Tail(todo)[i])
      BY <1>1, <2>2 DEF Parts
    <3>2. \A i, j \in DOMAIN Tail(todo) : i < j => Precedes(stgbuf, Tail(todo)[i], Tail(todo)[j])
      <4> SUFFICES ASSUME NEW i \in DOMAIN Tail(todo), NEW j \in DOMAIN Tail(todo), i < j
                   PROVE  Precedes(stgbuf, Tail(todo)[i], Tail(todo)[j])
        OBVIOUS
      <4>1. i + 1 < j + 1
        BY <1>3
      <4> QED
        BY <1>1, <2>2, <4>1 DEF Parts
    <3> QED
      BY <3>1, <3>2 DEF Parts
  <2>6. TypeOK'
    BY <1>2, <1>3, <2>1 DEF Inv, TypeOK
  <2>7. TodoInv'
    BY <1>1, <1>2, <2>1, <2>5 DEF TodoInv
  <2>8. Pending' = Waiting(stgbuf, todo)
    BY <1>2, <2>1, <2>4 DEF Pending
  <2>9. FileInv'
    BY <1>1, <1>2, <2>1, <2>8 DEF FileInv
  <2>10. OkInv'
    BY <1>1, <1>2, <2>1, <2>7, <2>9 DEF OkInv
  <2> QED
    BY <2>6, <2>10 DEF Inv
<1> QED
  BY <1>5, <1>6

(* The lines of a block, behind those of the file                           *)
BlockLines(s, a, lines) == [j \in 1 .. lines |-> s[a - 1 + j].at]

Extended(fl, s, a, stop) == fl \o BlockLines(s, a, stop - a)
IsExtended(fl, s, a, stop, gl) ==
  /\ gl \in Seq(Places) /\ Len(gl) = Len(fl) + (stop - a) /\ Len(fl) \in Nat
  /\ \A k \in 1 .. Len(fl) : gl[k] = fl[k]
  /\ \A k \in a .. stop - 1 : gl[Len(fl) + 1 + k - a] = s[k].at
  /\ Range(gl) = Range(fl) \cup {s[k].at : k \in a .. stop - 1}
  /\ \A i \in DOMAIN gl : i \in 1 .. Len(fl) \/ (i - Len(fl) - 1 + a \in a .. stop - 1 /\ gl[i] = s[i - Len(fl) - 1 + a].at)

LEMMA AppendBlock ==
  ASSUME NEW fl \in Seq(Places), NEW s \in Seq(Tokens), NEW a \in Nat \ {0}, NEW stop \in Nat, a < stop,
         \A k \in a .. stop - 1 : k \in 1 .. Len(s) /\ IsCode(s, k)
  PROVE  IsExtended(fl, s, a, stop, Extended(fl, s, a, stop))
<1> DEFINE m == stop - a
           bl == BlockLines(s, a, m)
           gl == Extended(fl, s, a, stop)
<1>1. m \in Nat \ {0}
  OBVIOUS
<1>2. \A j \in 1 .. m : a - 1 + j \in a .. stop - 1 /\ s[a - 1 + j].at \in Places
  <2> SUFFICES ASSUME NEW j \in 1 .. m PROVE a - 1 + j \in a .. stop - 1 /\ s[a - 1 + j].at \in Places
    OBVIOUS
  <2>1. a - 1 + j \in a .. stop - 1
    BY <1>1
  <2>2. a - 1 + j \in 1 .. Len(s) /\ IsCode(s, a - 1 + j)
    BY <2>1
  <2> QED
    BY <2>1, <2>2, TokenKinds
<1> HIDE DEF m
<1>3. bl \in Seq(Places) /\ Len(bl) = m /\ \A j \in 1 .. m : bl[j] = s[a - 1 + j].at
  <2> DEFINE f == [j \in 1 .. m |-> s[a - 1 + j].at]
  <2>1. \A j \in 1 .. m : f[j] \in Places
    BY <1>2
  <2>2. f \in Seq(Places) /\ Len(f) = m
    <3>1. f \in [1 .. m -> Places]
      BY <1>2
    <3> HIDE DEF f
    <3> QED
      BY <1>1, <3>1
  <2>3. bl = f
    BY DEF BlockLines
  <2>4. \A j \in 1 .. m : f[j] = s[a - 1 + j].at
    OBVIOUS
  <2> HIDE DEF f
  <2> QED
    BY <2>2, <2>3, <2>4
<1>4. gl = fl \o bl
  BY DEF m, Extended
<1> HIDE DEF bl, gl
<1>5. /\ gl \in Seq(Places) /\ Len(gl) = Len(fl) + Len(bl)
      /\ \A i \in 1 .. Len(fl) + Len(bl) : gl[i] = IF i <= Len(fl) THEN fl[i] ELSE bl[i - Len(fl)]
  BY <1>3, <1>4, ConcatProperties
<1>6. Len(gl) = Len(fl) + (stop - a) /\ Len(fl) \in Nat /\ m = stop - a
  BY <1>3, <1>5 DEF m
<1>7. \A k \in 1 .. Len(fl) : gl[k] = fl[k]
  <2> SUFFICES ASSUME NEW k \in 1 .. Len(fl) PROVE gl[k] = fl[k]
    OBVIOUS
  <2>1. k \in 1 .. Len(fl) + Len(bl) /\ k <= Len(fl)
    BY <1>1, <1>3, <1>6
  <2> QED
    BY <1>5, <2>1
<1>8. \A j \in 1 .. m : gl[Len(fl) + j] = s[a - 1 + j].at
  <2> SUFFICES ASSUME NEW j \in 1 .. m PROVE gl[Len(fl) + j] = s[a - 1 + j].at
    OBVIOUS
  <2>1. Len(fl) + j \in 1 .. Len(fl) + Len(bl) /\ ~(Len(fl) + j <= Len(fl)) /\ (Len(fl) + j) - Len(fl) = j
    BY <1>1, <1>3, <1>6
  <2> QED
    BY <1>3, <1>5, <2>1
<1>9. \A k \in a .. stop - 1 : gl[Len(fl) + 1 + k - a] = s[k].at
  <2> SUFFICES ASSUME NEW k \in a .. stop - 1 PROVE gl[Len(fl) + 1 + k - a] = s[k].at
    OBVIOUS
  <2>1. k - a + 1 \in 1 .. m /\ Len(fl) + (k - a + 1) = Len(fl) + 1 + k - a /\ a - 1 + (k - a + 1) = k
    BY <1>6
  <2> QED
    BY <1>8, <2>1
<1>10. \A i \in DOMAIN gl : i \in 1 .. Len(fl) \/ (i - Len(fl) - 1 + a \in a .. stop - 1 /\ gl[i] = s[i - Len(fl) - 1 + a].at)
  <2> SUFFICES ASSUME NEW i \in DOMAIN gl, i \notin 1 .. Len(fl)
               PROVE  i - Len(fl) - 1 + a \in a .. stop - 1 /\ gl[i] = s[i - Len(fl) - 1 + a].at
    OBVIOUS
  <2>1. i \in 1 .. Len(fl) + (stop - a)
    BY <1>5, <1>6
  <2>2. i - Len(fl) - 1 + a \in a .. stop - 1 /\ Len(fl) + 1 + (i - Len(fl) - 1 + a) - a = i
    BY <1>6, <2>1
  <2> QED
    BY <1>9, <2>2
<1>11. Range(gl) = Range(fl) \cup {s[k].at : k \in a .. stop - 1}
  <2>1. DOMAIN gl = 1 .. Len(fl) + (stop - a) /\ DOMAIN fl = 1 .. Len(fl)
    BY <1>5, <1>6
  <2>2. \A k \in 1 .. Len(fl) : k \in DOMAIN gl
    BY <1>6, <2>1
  <2>3. \A k \in a .. stop - 1 : Len(fl) + 1 + k - a \in DOMAIN gl
    BY <1>6, <2>1
  <2>4. ASSUME NEW x \in Range(gl) PROVE x \in Range(fl) \cup {s[k].at : k \in a .. stop - 1}
    <3>1. PICK i \in DOMAIN gl : x = gl[i]
      BY DEF Range
    <3> QED
      BY <1>7, <1>10, <2>1, <3>1 DEF Range
  <2>5. ASSUME NEW x \in Range(fl) PROVE x \in Range(gl)
    <3>1. PICK i \in DOMAIN fl : x = fl[i]
      BY DEF Range
    <3> QED
      BY <1>7, <2>1, <2>2, <3>1 DEF Range
  <2>6. ASSUME NEW k \in a .. stop - 1 PROVE s[k].at \in Range(gl)
    BY <1>9, <2>3 DEF Range
  <2> QED
    BY <2>4, <2>5, <2>6
<1> QED
  BY <1>5, <1>6, <1>7, <1>9, <1>10, <1>11 DEF gl, IsExtended

LastPlace(fl) == fl[Len(fl)]

(* The lines of a block follow those of the file.                          *)
LEMMA BlockInSequence ==
  ASSUME NEW fl \in Seq(Places), NEW s \in Seq(Tokens), NEW a \in Nat \ {0}, NEW stop \in Nat, a < stop,
         \A k \in a .. stop - 1 : k \in 1 .. Len(s) /\ IsCode(s, k),
         InSequence(fl), fl # <<>> => Before(fl[Len(fl)], s[a].at),
         \A k, l \in a .. stop - 1 : k < l => Before(s[k].at, s[l].at)
  PROVE  InSequence(Extended(fl, s, a, stop)) /\ LastPlace(Extended(fl, s, a, stop)) = s[stop - 1].at
<1> DEFINE gl == Extended(fl, s, a, stop)
<1>0. IsExtended(fl, s, a, stop, gl)
  BY AppendBlock, Zenon
<1> HIDE DEF gl
<1>1. /\ gl \in Seq(Places) /\ Len(gl) = Len(fl) + (stop - a) /\ Len(fl) \in Nat
      /\ \A k \in 1 .. Len(fl) : gl[k] = fl[k]
      /\ \A k \in a .. stop - 1 : gl[Len(fl) + 1 + k - a] = s[k].at
  BY <1>0 DEF IsExtended
<1>2. gl[Len(gl)] = s[stop - 1].at
  <2>1. stop - 1 \in a .. stop - 1 /\ Len(fl) + 1 + (stop - 1) - a = Len(gl)
    BY <1>1
  <2> QED
    BY <1>1, <2>1
<1>3. InSequence(gl)
  <2> SUFFICES ASSUME NEW i \in 1 .. Len(gl) - 1 PROVE Before(gl[i], gl[i + 1])
    BY DEF InSequence
  <2>0. i \in 1 .. Len(fl) + (stop - a) - 1
    BY <1>1
  <2>1. CASE i < Len(fl)
    <3>1. i \in 1 .. Len(fl) /\ i + 1 \in 1 .. Len(fl) /\ i \in 1 .. Len(fl) - 1
      BY <1>1, <2>0, <2>1
    <3>2. gl[i] = fl[i] /\ gl[i + 1] = fl[i + 1]
      BY <1>1, <3>1
    <3> QED
      BY <3>1, <3>2 DEF InSequence
  <2>2. CASE i = Len(fl)
    <3>1. a \in a .. stop - 1 /\ Len(fl) + 1 + a - a = i + 1 /\ i \in 1 .. Len(fl)
      BY <1>1, <2>0, <2>2
    <3>2. gl[i] = fl[i] /\ gl[Len(fl) + 1 + a - a] = s[a].at
      BY <1>1, <3>1
    <3>3. fl # <<>>
      BY <3>1
    <3> QED
      BY <2>2, <3>1, <3>2, <3>3
  <2>3. CASE i > Len(fl)
    <3> DEFINE k == i - Len(fl) - 1 + a
    <3>1. /\ k \in a .. stop - 1 /\ k + 1 \in a .. stop - 1 /\ k < k + 1
          /\ Len(fl) + 1 + k - a = i /\ Len(fl) + 1 + (k + 1) - a = i + 1
      BY <1>1, <2>0, <2>3
    <3> HIDE DEF k
    <3>2. gl[i] = s[k].at /\ gl[i + 1] = s[k + 1].at
      BY <1>1, <3>1
    <3> QED
      BY <3>1, <3>2
  <2> QED
    BY <1>1, <2>0, <2>1, <2>2, <2>3
<1> QED
  BY <1>2, <1>3 DEF gl, LastPlace

(* A block is written; what the optimizer saves is taken from the code     *)
(* index.                                                                  *)
LEMMA StgoptStep ==
  ASSUME Inv, Stgopt
  PROVE  Inv'
<1>0. todo # <<>>
  BY DEF Stgopt, Writing
<1>1. /\ stgbuf \in Seq(Tokens) /\ todo \in Seq(PartType) /\ Parts(stgbuf, todo) /\ frames = <<>> /\ staging
      /\ staging \in BOOLEAN /\ writing \in BOOLEAN
      /\ Good(stgbuf, <<>>) /\ Sound(stgbuf) /\ Numbered(stgbuf, <<>>, n) /\ Begun(<<>>)
      /\ (~writing => file = <<>>) /\ Older(file, <<>>, n) /\ InSequence(file) /\ Ahead(file, stgbuf, Waiting(stgbuf, todo))
      /\ writing => Accounts(file, size, stgbuf, Waiting(stgbuf, todo), <<>>, code_idx, kept)
  BY <1>0, WritingFacts
<1> DEFINE p == Head(todo)
           a == p.start
           W == Waiting(stgbuf, todo)
<1>2. PICK stop : /\ Block(stgbuf, p, stop)
                  /\ todo' = <<Part(stop, p.end)>> \o Tail(todo)
                  /\ IF writing
                     THEN \E saved \in 0 .. stop - a - 1 :
                            /\ file' = Extended(file, stgbuf, a, stop)
                            /\ size' = size + (stop - a) - saved
                            /\ code_idx' = code_idx - saved
                     ELSE file' = file /\ size' = size /\ code_idx' = code_idx
  BY DEF Stgopt, Now, Block, BlockLines, Extended, output
<1>3. /\ a <= p.end /\ stgbuf[a] # Start /\ stgbuf' = stgbuf /\ frames' = <<>> /\ n' = n
      /\ kept' = kept /\ writing' = writing /\ staging' = staging
  BY <1>1 DEF Stgopt, Now
<1>4. /\ stop \in a + 1 .. p.end + 1 /\ a \in Nat \ {0} /\ p.end \in Nat
      /\ todo' \in Seq(PartType) /\ todo' # <<>> /\ Parts(stgbuf, todo')
      /\ a .. stop - 1 \subseteq W
      /\ Waiting(stgbuf, todo') = W \ (a .. stop - 1)
      /\ \A k, l \in a .. stop - 1 : k < l => Before(stgbuf[k].at, stgbuf[l].at)
      /\ \A k \in a .. stop - 1, l \in Waiting(stgbuf, todo') : Before(stgbuf[k].at, stgbuf[l].at)
  <2>1. IsFirst(todo, p) /\ IsRest(todo, p, stop, todo')
    BY <1>2 DEF IsFirst, IsRest
  <2>2. a <= p.end /\ stgbuf[a] # Start
    BY <1>3
  <2>3. Block(stgbuf, p, stop)
    BY <1>2
  <2> HIDE DEF p
  <2> QED
    BY <1>0, <1>1, <2>1, <2>2, <2>3, BlockParts
<1>5. stop \in Nat /\ a < stop /\ stop - a \in Nat
  BY <1>4
<1>6. W \in SUBSET (1 .. Len(stgbuf)) /\ \A k \in W : IsCode(stgbuf, k)
  BY <1>1 DEF Waiting
<1>7. \A k \in a .. stop - 1 : k \in 1 .. Len(stgbuf) /\ IsCode(stgbuf, k)
  BY <1>4, <1>6
<1> HIDE DEF p, W
<1>8. /\ file \in Seq(Places) /\ kept \subseteq Places /\ size \in Int /\ code_idx \in Int /\ n \in Nat
  BY DEF Inv, TypeOK
<1>9. TodoInv'
  BY <1>1, <1>3, <1>4 DEF TodoInv
<1>10. Pending' = W \ (a .. stop - 1)
  BY <1>3, <1>4 DEF Pending
<1>11. CASE ~writing
  <2>1. file' = file /\ size' = size /\ code_idx' = code_idx
    BY <1>2, <1>11
  <2>2. TypeOK'
    BY <1>1, <1>3, <1>4, <1>8, <2>1 DEF TypeOK
  <2>3. FileInv'
    BY <1>1, <1>3, <1>11, <2>1 DEF FileInv, Ahead
  <2>4. OkInv'
    BY <1>1, <1>3, <1>9, <2>3 DEF OkInv
  <2> QED
    BY <2>2, <2>4 DEF Inv
<1>12. CASE writing
  <2>1. PICK saved \in 0 .. stop - a - 1 : /\ file' = Extended(file, stgbuf, a, stop)
                                           /\ size' = size + (stop - a) - saved
                                           /\ code_idx' = code_idx - saved
    BY <1>2, <1>12
  <2>2. saved \in Int /\ size' \in Int /\ code_idx' \in Int
    BY <1>5, <1>8, <2>1
  <2>3. a \in W /\ \A l \in W : file # <<>> => Before(file[Len(file)], stgbuf[l].at)
    <3>1. a \in a .. stop - 1
      BY <1>4, <1>5
    <3> QED
      BY <1>1, <1>4, <3>1 DEF Ahead, W
  <2> DEFINE gl == Extended(file, stgbuf, a, stop)
  <2>4. /\ gl \in Seq(Places) /\ Len(gl) = Len(file) + (stop - a) /\ Len(file) \in Nat
        /\ \A k \in 1 .. Len(file) : gl[k] = file[k]
        /\ Range(gl) = Range(file) \cup {stgbuf[k].at : k \in a .. stop - 1}
        /\ \A i \in DOMAIN gl : \/ i \in 1 .. Len(file)
                                \/ i - Len(file) - 1 + a \in a .. stop - 1 /\ gl[i] = stgbuf[i - Len(file) - 1 + a].at
    <3>1. IsExtended(file, stgbuf, a, stop, gl)
      BY <1>1, <1>4, <1>5, <1>7, <1>8, AppendBlock
    <3> HIDE DEF gl
    <3> QED
      BY <3>1 DEF IsExtended
  <2>5. InSequence(gl) /\ gl[Len(gl)] = stgbuf[stop - 1].at
    <3>1. file # <<>> => Before(file[Len(file)], stgbuf[a].at)
      BY <2>3
    <3>2. InSequence(gl) /\ LastPlace(gl) = stgbuf[stop - 1].at
      BY <1>1, <1>4, <1>5, <1>7, <1>8, <3>1, BlockInSequence
    <3> QED
      BY <3>2 DEF LastPlace
  <2> HIDE DEF gl
  <2>6. file' = gl
    BY <2>1 DEF gl
  <2>7. Older(gl, <<>>, n)
    <3> SUFFICES ASSUME NEW i \in DOMAIN gl PROVE Bounded(gl[i]) /\ Line(gl[i]) < n
      BY DEF Older
    <3>1. CASE i \in 1 .. Len(file)
      <4>1. i \in DOMAIN file
        BY <1>8, <3>1
      <4> QED
        BY <1>1, <2>4, <3>1, <4>1 DEF Older
    <3>2. ASSUME NEW k \in a .. stop - 1, gl[i] = stgbuf[k].at PROVE Bounded(gl[i]) /\ Line(gl[i]) < n
      <4>1. k \in DOMAIN stgbuf /\ IsCode(stgbuf, k)
        BY <1>1, <1>7
      <4> QED
        BY <1>1, <3>2, <4>1 DEF Good, Placed, Numbered
    <3> QED
      BY <2>4, <3>1, <3>2
  <2>8. Ahead(gl, stgbuf, Pending')
    <3>1. stop - 1 \in a .. stop - 1
      BY <1>4, <1>5
    <3> QED
      BY <1>4, <1>10, <2>5, <3>1 DEF Ahead
  <2>9. Accounts(gl, size', stgbuf, Pending', <<>>, code_idx', kept)
    <3>1. code_idx = size + Cardinality(W) /\ kept = Range(file) \cup {stgbuf[k].at : k \in W}
      BY <1>1, <1>12 DEF Accounts, W
    <3>2. IsFiniteSet(W)
      <4>1. Len(stgbuf) \in Nat
        BY <1>1
      <4>2. IsFiniteSet(1 .. Len(stgbuf))
        BY <4>1, FS_Interval
      <4> QED
        BY <1>6, <4>2, FS_Subset
    <3> DEFINE B == a .. stop - 1
    <3>3. Cardinality(B) = stop - a
      <4>1. a \in Int /\ stop - 1 \in Int
        BY <1>4, <1>5
      <4>2. Cardinality(B) = IF a > stop - 1 THEN 0 ELSE (stop - 1) - a + 1
        BY <4>1, FS_Interval
      <4> QED
        BY <1>5, <1>4, <4>2
    <3>4. W \cap B = B
      BY <1>4
    <3>5. Cardinality(W \ B) = Cardinality(W) - Cardinality(W \cap B)
      BY <3>2, FS_Difference
    <3>6. Cardinality(W) \in Nat
      BY <3>2, FS_CardinalityType
    <3>7. code_idx' = size' + Cardinality(Pending')
      <4>1. Cardinality(Pending') = Cardinality(W) - (stop - a)
        BY <1>10, <3>3, <3>4, <3>5
      <4> QED
        BY <1>5, <1>8, <2>1, <2>2, <3>1, <3>6, <4>1
    <3>8. kept = Range(gl) \cup {stgbuf[k].at : k \in Pending'}
      <4>1. B \subseteq W /\ Pending' = W \ B
        BY <1>4, <1>10
      <4>2. Range(gl) = Range(file) \cup {stgbuf[k].at : k \in B}
        BY <2>4
      <4> HIDE DEF B
      <4> QED
        BY <3>1, <4>1, <4>2
    <3> QED
      BY <3>7, <3>8 DEF Accounts
  <2>10. TypeOK'
    <3>1. <<>> \in Seq(Frames)
      OBVIOUS
    <3> QED
      BY <1>1, <1>3, <1>4, <1>8, <2>2, <2>4, <2>6, <3>1, Zenon DEF TypeOK
  <2>11. FileInv'
    BY <1>1, <1>3, <1>12, <2>5, <2>6, <2>7, <2>8, <2>9 DEF FileInv
  <2>12. OkInv'
    BY <1>1, <1>3, <1>9, <2>11 DEF OkInv
  <2> QED
    BY <2>10, <2>12 DEF Inv
<1> QED
  BY <1>11, <1>12

(***************************************************************************)
(* The invariant                                                            *)
(***************************************************************************)
LEMMA StagingStart ==
  ASSUME Init
  PROVE  WriteInv
<1>1. /\ writing \in BOOLEAN /\ staging = FALSE
      /\ stgbuf = <<>> /\ todo = <<>> /\ file = <<>> /\ size = 0 /\ code_idx = 0
      /\ frames = <<>> /\ n = 1 /\ kept = {}
  BY DEF Init
<1>2. TypeOK
  <2>1. /\ <<>> \in Seq(Tokens) /\ <<>> \in Seq(PartType) /\ <<>> \in Seq(Places) /\ <<>> \in Seq(Frames)
        /\ {} \subseteq Places /\ FALSE \in BOOLEAN /\ 0 \in Int /\ 1 \in Nat
    OBVIOUS
  <2> QED
    BY <1>1, <2>1, Zenon DEF TypeOK
<1>3. Good(<<>>, <<>>) /\ Numbered(<<>>, <<>>, 1) /\ Waiting(<<>>, <<>>) = {} /\ Parts(<<>>, <<>>)
  BY EmptyGood
<1>4. Begun(<<>>) /\ Older(<<>>, <<>>, 1) /\ InSequence(<<>>) /\ Ahead(<<>>, <<>>, {})
  BY DEF Begun, Older, InSequence, Ahead
<1>5. Accounts(<<>>, 0, <<>>, {}, <<>>, 0, {})
  <2>1. Cardinality({}) = 0
    BY FS_EmptySet
  <2>2. Range(<<>>) = {}
    BY DEF Range
  <2> QED
    BY <2>1, <2>2 DEF Accounts
<1>6. Pending = {}
  BY <1>1, <1>3 DEF Pending
<1>7. TodoInv
  BY <1>1, <1>3 DEF TodoInv
<1>8. FileInv
  BY <1>1, <1>4, <1>5, <1>6 DEF FileInv
<1>9. OkInv
  BY <1>1, <1>3, <1>4, <1>7, <1>8 DEF OkInv
<1> QED
  BY <1>2, <1>9 DEF WriteInv

(* What went wrong stays wrong.                                             *)
LEMMA StaysOk ==
  ASSUME Next, status' = "ok"
  PROVE  status = "ok"
<1>1. \A bad : Worse(bad) = "ok" => status = "ok"
  BY DEF Worse
<1>2. \A marks, places, bad : Emit(marks, places, bad) => status = "ok"
  <2> SUFFICES ASSUME NEW marks, NEW places, NEW bad, Emit(marks, places, bad) PROVE status = "ok"
    OBVIOUS
  <2>1. \E b : status' = IF b THEN "fatal" ELSE Worse(bad)
    BY Zenon DEF Emit
  <2> QED
    BY <1>1, <2>1
<1>3. CASE Generate \/ OpenCall \/ Positional \/ Named \/ DefaultArgument \/ CloseCall \/ ThirdExpression \/ FinishFor
  BY <1>2, <1>3 DEF Generate, OpenCall, Positional, Named, TakeArgument, DefaultArgument, CloseCall, ThirdExpression, FinishFor
<1>4. CASE Begin \/ Save \/ Keep \/ Scrap \/ Finish \/ BeginConstant \/ FinishConstant \/ CutOff \/ BeginFor
  BY <1>4 DEF Begin, Save, Keep, Scrap, Finish, BeginConstant, FinishConstant, CutOff, BeginFor
<1>5. CASE Reorder \/ Stgopt \/ Return
  BY <1>5 DEF Reorder, Stgopt, Return
<1> QED
  BY <1>3, <1>4, <1>5 DEF Next

LEMMA StagingStep ==
  ASSUME WriteInv, [Next]_vars
  PROVE  WriteInv'
<1> SUFFICES ASSUME status' = "ok" PROVE Inv'
  BY DEF WriteInv, Inv
<1>1. CASE UNCHANGED vars
  <2>1. Inv
    BY <1>1 DEF WriteInv, Inv, vars
  <2> QED
    BY <1>1, <2>1 DEF vars, buffer, output, Inv, TypeOK, OkInv, TodoInv, FileInv, Pending
<1>2. CASE Next
  <2>1. status = "ok"
    BY <1>2, StaysOk
  <2>2. Inv
    BY <2>1 DEF WriteInv, Inv
  <2>3. ~CutOff
    BY DEF CutOff
  <2>4. CASE Begin \/ Generate \/ Save \/ Keep \/ Scrap \/ Finish
    BY <2>1, <2>2, <2>4, BeginStep, GenerateStep, SaveStep, KeepStep, ScrapStep, FinishStep
  <2>5. CASE BeginConstant \/ FinishConstant
    BY <2>2, <2>5, BeginConstantStep, FinishConstantStep
  <2>6. CASE OpenCall \/ Positional \/ Named \/ DefaultArgument \/ CloseCall
    BY <2>1, <2>2, <2>6, OpenCallStep, PositionalStep, NamedStep, DefaultArgumentStep, CloseCallStep
  <2>7. CASE BeginFor \/ ThirdExpression \/ FinishFor
    BY <2>1, <2>2, <2>7, BeginForStep, ThirdExpressionStep, FinishForStep
  <2>8. CASE Reorder \/ Stgopt \/ Return
    BY <2>1, <2>2, <2>8, ReorderStep, StgoptStep, ReturnStep
  <2> QED
    BY <1>2, <2>3, <2>4, <2>5, <2>6, <2>7, <2>8 DEF Next
<1> QED
  BY <1>1, <1>2

(* The buffer, the frames, the file and the code index of a program without *)
(* errors are those that WriteInv describes (Staging: every action).        *)
THEOREM StagingInvariant == Spec => []WriteInv
<1>1. Init => WriteInv
  BY StagingStart
<1>2. WriteInv /\ [Next]_vars => WriteInv'
  BY StagingStep
<1> QED
  BY <1>1, <1>2, PTL DEF Spec

LEMMA NothingPending ==
  ASSUME WriteInv, status = "ok", ~staging
  PROVE  Pending = {} /\ FileInv
<1>1. stgbuf = <<>> /\ FileInv
  BY DEF WriteInv, OkInv
<1>2. DOMAIN <<>> = {}
  OBVIOUS
<1> QED
  BY <1>1, <1>2 DEF Pending, Waiting

(* EveryLineWritten: stgout() loses no line, however the arguments were     *)
(* named, defaulted, nested or scrapped, and writes none twice.             *)
THEOREM LinesWritten == Spec => []EveryLineWritten
<1>1. WriteInv => EveryLineWritten
  <2> SUFFICES ASSUME WriteInv, writing, ~staging, status = "ok" PROVE Range(file) = kept
    BY DEF EveryLineWritten
  <2>1. Pending = {} /\ Accounts(file, size, stgbuf, Pending, frames, code_idx, kept)
    BY NothingPending DEF FileInv
  <2> QED
    BY <2>1 DEF Accounts
<1> QED
  BY <1>1, StagingInvariant, PTL

(* OrderOfExecution: stgstring() writes the lines in the order in which     *)
(* they are executed.                                                       *)
THEOREM LinesInOrder == Spec => []OrderOfExecution
<1>1. WriteInv => OrderOfExecution
  BY DEF WriteInv, OkInv, FileInv, InSequence, OrderOfExecution
<1> QED
  BY <1>1, StagingInvariant, PTL

(* CodeIndexExact: between expressions code_idx is the size of the code in  *)
(* the file, whatever stgdel() scrapped and stgopt() saved.                 *)
THEOREM CodeIndexIsSize == Spec => []CodeIndexExact
<1>1. WriteInv => CodeIndexExact
  <2> SUFFICES ASSUME WriteInv, writing, ~staging, status = "ok" PROVE code_idx = size
    BY DEF CodeIndexExact
  <2>1. Pending = {} /\ Accounts(file, size, stgbuf, Pending, frames, code_idx, kept) /\ size \in Int
    BY NothingPending DEF FileInv, WriteInv, TypeOK
  <2>2. Cardinality({}) = 0
    BY FS_EmptySet
  <2> QED
    BY <2>1, <2>2 DEF Accounts
<1> QED
  BY <1>1, StagingInvariant, PTL

(* UndefinedOnlyAfterError: in a program without errors every argument      *)
(* stgstring() reads has its mark and fits its stack.                       *)
THEOREM StackIsDefined == Spec => UndefinedOnlyAfterError
<1>1. ASSUME WriteInv, [Next]_vars, status' = "undefined", status = "ok" PROVE FALSE
  <2>1. Inv
    BY <1>1 DEF WriteInv, Inv
  <2>2. \A bad : Worse(bad) # "undefined"
    BY <1>1 DEF Worse
  <2>3. \A marks, places, bad : ~Emit(marks, places, bad)
    <3> SUFFICES ASSUME NEW marks, NEW places, NEW bad, Emit(marks, places, bad) PROVE FALSE
      OBVIOUS
    <3>1. \E b : status' = IF b THEN "fatal" ELSE Worse(bad)
      BY Zenon DEF Emit
    <3> QED
      BY <1>1, <2>2, <3>1
  <2>4. CASE UNCHANGED vars
    BY <1>1, <2>4 DEF vars
  <2>5. CASE Generate \/ OpenCall \/ Positional \/ Named \/ DefaultArgument \/ CloseCall \/ ThirdExpression \/ FinishFor
    BY <2>3, <2>5 DEF Generate, OpenCall, Positional, Named, TakeArgument, DefaultArgument, CloseCall, ThirdExpression, FinishFor
  <2>6. CASE Begin \/ Save \/ Keep \/ Scrap \/ Finish \/ BeginConstant \/ FinishConstant \/ CutOff \/ BeginFor
    BY <1>1, <2>6 DEF Begin, Save, Keep, Scrap, Finish, BeginConstant, FinishConstant, CutOff, BeginFor
  <2>7. CASE Stgopt \/ Return
    BY <1>1, <2>7 DEF Stgopt, Return
  <2>8. CASE Reorder
    <3>1. /\ stgbuf \in Seq(Tokens) /\ todo \in Seq(PartType) /\ Parts(stgbuf, todo) /\ Sound(stgbuf) /\ todo # <<>>
      BY <2>1, <2>8, WritingFacts DEF Reorder, Writing
    <3> DEFINE p == Head(todo)
               a == p.start
               c == Closing(stgbuf, a)
    <3>2. p = todo[1] /\ p \in PartType /\ 1 \in DOMAIN todo
      BY <3>1
    <3>3. PartInv(stgbuf, p) /\ p.start <= p.end /\ stgbuf[p.start] = Start /\ p.end \in Int
      BY <2>8, <3>1, <3>2 DEF Parts, Reorder, Now, PartType
    <3> HIDE DEF p
    <3>4. a \in 1 .. Len(stgbuf) /\ c \in a + 1 .. p.end /\ Closes(stgbuf, a, c)
      BY <3>1, <3>2, <3>3, ClosingFacts
    <3>5. c \in a + 1 .. Len(stgbuf)
      BY <3>1, <3>3, <3>4 DEF PartInv
    <3>6. Defined(stgbuf, a)
      <4>1. \E d : d = c /\ d \in a + 1 .. Len(stgbuf) /\ d = Closing(stgbuf, a) /\ Closes(stgbuf, a, d)
        BY <3>4, <3>5
      <4> HIDE DEF c
      <4> QED
        BY <3>1, <3>4, <4>1, DefinedFacts
    <3> QED
      BY <1>1, <2>8, <3>6 DEF Reorder, Now, p
  <2> QED
    BY <1>1, <2>4, <2>5, <2>6, <2>7, <2>8 DEF Next
<1>2. WriteInv /\ [Next]_vars => [status' = "undefined" => status # "ok"]_vars
  BY <1>1
<1> QED
  BY <1>2, StagingInvariant, PTL DEF Spec, UndefinedOnlyAfterError

=============================================================================
