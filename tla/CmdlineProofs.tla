---------------------------- MODULE CmdlineProofs ----------------------------
(***************************************************************************)
(* What the compiler is set to, for every command line and every set of     *)
(* configuration files.  The front end keeps the options by their keys and  *)
(* hands them over list by list; the compiler applies them one after the    *)
(* other.  Settings, Collected and Joined are folds over a sequence: they   *)
(* are first shown to take the steps of their rules, then every fact about  *)
(* them follows along the sequence (AllSequences).  The invariant says what *)
(* the lists keep of what has been read so far (Fits): read together they   *)
(* do to each setting what the whole text would.                            *)
(***************************************************************************)
EXTENDS Cmdline, FiniteSetTheorems, SequenceTheorems, WellFoundedInduction, TLAPS

-----------------------------------------------------------------------------
(***************************************************************************)
(* Folds.  A function over 0 .. N that takes a step at every number exists  *)
(* and is the only one: from the least number where it would fail.          *)
(***************************************************************************)
LEMMA Least ==
  ASSUME NEW S \in SUBSET Nat, S # {}
  PROVE  \E x \in S : \A y \in S : x <= y
<1>1. IsWellFoundedOn(OpToRel(<, Nat), Nat)
  BY NatLessThanWellFounded
<1>2. PICK x \in S : \A y \in S : ~(<<y, x>> \in OpToRel(<, Nat))
  BY <1>1, WFMin, Zenon
<1>3. ASSUME NEW y \in S PROVE x <= y
  <2>1. ~(<<y, x>> \in OpToRel(<, Nat))
    BY <1>2, Zenon
  <2>2. x \in Nat /\ y \in Nat
    OBVIOUS
  <2>3. ~(y < x)
    BY <2>1, <2>2, Zenon DEF OpToRel
  <2> QED
    BY <2>2, <2>3
<1> QED
  BY <1>3

IsFold(g, D, N, b, st) ==
  g \in [0 .. N -> D] /\ g[0] = b /\ \A k \in 1 .. N : g[k] = st[k][g[k - 1]]

LEMMA FoldExists ==
  ASSUME NEW N \in Nat, NEW D, NEW b \in D, NEW st \in [1 .. N -> [D -> D]]
  PROVE  \E g : IsFold(g, D, N, b, st)
<1> DEFINE Bad == {m \in 0 .. N : ~\E g : IsFold(g, D, m, b, st)}
<1>1. SUFFICES ASSUME Bad # {} PROVE FALSE
  <2>1. N \in 0 .. N
    OBVIOUS
  <2> QED
    BY <1>1, <2>1
<1>2. PICK m \in Bad : \A y \in Bad : m <= y
  <2>1. Bad \in SUBSET Nat
    OBVIOUS
  <2> HIDE DEF Bad
  <2> QED
    BY <1>1, <2>1, Least
<1>3. CASE m = 0
  <2>1. IsFold([k \in 0 .. 0 |-> b], D, 0, b, st)
    BY DEF IsFold
  <2> QED
    BY <1>2, <1>3, <2>1
<1>4. CASE m # 0
  <2>1. m \in 1 .. N /\ m - 1 \in 0 .. N /\ ~(m <= m - 1)
    BY <1>4
  <2>2. m - 1 \notin Bad
    BY <1>2, <2>1
  <2>3. PICK g : IsFold(g, D, m - 1, b, st)
    BY <2>1, <2>2
  <2>4. g \in [0 .. m - 1 -> D] /\ g[0] = b /\ \A k \in 1 .. m - 1 : g[k] = st[k][g[k - 1]]
    BY <2>3 DEF IsFold
  <2> DEFINE h == [k \in 0 .. m |-> IF k = m THEN st[m][g[m - 1]] ELSE g[k]]
  <2>5. \A k \in 0 .. m - 1 : k \in 0 .. m /\ k # m /\ h[k] = g[k]
    BY <2>1
  <2>6. h[m] = st[m][g[m - 1]] /\ m \in 0 .. m
    BY <2>1
  <2>7. g[m - 1] \in D /\ st[m][g[m - 1]] \in D
    <3>1. m - 1 \in 0 .. m - 1
      BY <2>1
    <3> QED
      BY <2>1, <2>4, <3>1
  <2>8. h \in [0 .. m -> D]
    <3>1. \A k \in 0 .. m : (IF k = m THEN st[m][g[m - 1]] ELSE g[k]) \in D
      <4> SUFFICES ASSUME NEW k \in 0 .. m, k # m PROVE g[k] \in D
        BY <2>7
      <4>1. k \in 0 .. m - 1
        BY <2>1
      <4> QED
        BY <2>4, <4>1
    <3> QED
      BY <3>1
  <2>9. h[0] = b
    BY <2>1, <2>4, <2>5
  <2> HIDE DEF h
  <2>10. ASSUME NEW k \in 1 .. m PROVE h[k] = st[k][h[k - 1]]
    <3>1. k - 1 \in 0 .. m - 1
      BY <2>1
    <3>2. h[k - 1] = g[k - 1]
      BY <2>5, <3>1
    <3>3. CASE k = m
      BY <2>6, <3>2, <3>3
    <3>4. CASE k # m
      <4>1. k \in 1 .. m - 1 /\ k \in 0 .. m - 1
        BY <2>1, <3>4
      <4> QED
        BY <2>4, <2>5, <3>2, <4>1
    <3> QED
      BY <3>3, <3>4
  <2>11. IsFold(h, D, m, b, st)
    BY <2>8, <2>9, <2>10 DEF IsFold
  <2> QED
    BY <1>2, <2>11
<1> QED
  BY <1>3, <1>4

(* Whatever takes the same steps is the same fold.                          *)
LEMMA FoldIs ==
  ASSUME NEW N \in Nat, NEW D, NEW b, NEW st, NEW g, IsFold(g, D, N, b, st),
         NEW f, f[0] = b, \A k \in 1 .. N : f[k - 1] \in D => f[k] = st[k][f[k - 1]]
  PROVE  f[N] = g[N]
<1> DEFINE Bad == {m \in 0 .. N : f[m] # g[m]}
<1>1. g \in [0 .. N -> D] /\ g[0] = b /\ \A k \in 1 .. N : g[k] = st[k][g[k - 1]]
  BY DEF IsFold
<1>2. Bad = {}
  <2> SUFFICES ASSUME Bad # {} PROVE FALSE
    OBVIOUS
  <2>1. PICK m \in Bad : \A y \in Bad : m <= y
    <3>1. Bad \in SUBSET Nat
      OBVIOUS
    <3> HIDE DEF Bad
    <3> QED
      BY <3>1, Least
  <2>2. m # 0
    BY <1>1, <2>1
  <2>3. m \in 1 .. N /\ m - 1 \in 0 .. N /\ ~(m <= m - 1)
    BY <2>2
  <2>4. f[m - 1] = g[m - 1] /\ g[m - 1] \in D
    BY <1>1, <2>1, <2>3
  <2> QED
    BY <1>1, <2>1, <2>3, <2>4
<1> QED
  BY <1>2

(* What comes behind the last step is the next step.                        *)
LEMMA FoldNext ==
  ASSUME NEW N \in Nat, NEW D, NEW b, NEW st, NEW su, NEW g, NEW h,
         IsFold(g, D, N, b, st), IsFold(h, D, N + 1, b, su),
         \A k \in 1 .. N : su[k] = st[k]
  PROVE  h[N + 1] = su[N + 1][g[N]]
<1>1. h[0] = b /\ \A k \in 1 .. N + 1 : h[k] = su[k][h[k - 1]]
  BY DEF IsFold
<1>2. \A k \in 1 .. N : k \in 1 .. N + 1
  OBVIOUS
<1>3. \A k \in 1 .. N : h[k - 1] \in D => h[k] = st[k][h[k - 1]]
  BY <1>1, <1>2
<1>4. h[N] = g[N]
  <2>1. h[0] = b
    BY <1>1
  <2> QED
    BY <1>3, <2>1, FoldIs
<1>5. N + 1 \in 1 .. N + 1 /\ (N + 1) - 1 = N
  OBVIOUS
<1> QED
  BY <1>1, <1>4, <1>5

LEMMA UpTo ==
  ASSUME NEW n \in Nat
  PROVE  n \in 0 .. n /\ n + 1 \in 1 .. n + 1
OBVIOUS

LEMMA SeqFacts ==
  ASSUME NEW E, NEW os \in Seq(E)
  PROVE  Len(os) \in Nat /\ \A k \in 1 .. Len(os) : os[k] \in E
BY LenProperties

LEMMA AppendFacts ==
  ASSUME NEW E, NEW os \in Seq(E), NEW o \in E
  PROVE  /\ Append(os, o) \in Seq(E) /\ Len(Append(os, o)) = Len(os) + 1
         /\ Append(os, o)[Len(os) + 1] = o
         /\ \A k \in 1 .. Len(os) : Append(os, o)[k] = os[k]
<1>1. /\ Append(os, o) \in Seq(E) /\ Len(Append(os, o)) = Len(os) + 1
      /\ Append(os, o)[Len(os) + 1] = o
  BY AppendProperties, Zenon
<1>2. \A i \in 1 .. Len(os) : Append(os, o)[i] = os[i]
  BY AppendProperties
<1> QED
  BY <1>1, <1>2

LEMMA AppendNotEmpty ==
  ASSUME NEW E, NEW os \in Seq(E), NEW o \in E
  PROVE  Append(os, o) # <<>>
BY AppendProperties, Zenon

(* A set of sequences that holds the empty one and whatever comes from one  *)
(* of its own by an element at the end holds them all.                      *)
LEMMA AllSequences ==
  ASSUME NEW E, NEW G, <<>> \in G,
         \A os \in Seq(E) : os \in G => \A o \in E : Append(os, o) \in G
  PROVE  Seq(E) \subseteq G
<1> DEFINE Bad == {m \in Nat : \E os \in Seq(E) : Len(os) = m /\ os \notin G}
<1>1. SUFFICES ASSUME NEW cs \in Seq(E), cs \notin G PROVE FALSE
  OBVIOUS
<1>2. PICK m \in Bad : \A y \in Bad : m <= y
  <2>1. Bad \in SUBSET Nat
    OBVIOUS
  <2>2. Len(cs) \in Bad
    BY <1>1, SeqFacts
  <2> HIDE DEF Bad
  <2> QED
    BY <2>1, <2>2, Least
<1>3. PICK os \in Seq(E) : Len(os) = m /\ os \notin G
  BY <1>2
<1>4. os # <<>>
  BY <1>3
<1>5. PICK bs \in Seq(E), o \in E : os = Append(bs, o)
  BY <1>3, <1>4, SequenceEmptyOrAppend
<1>6. bs \notin G
  BY <1>3, <1>5
<1>7. m - 1 \in Nat /\ Len(bs) = m - 1
  <2>1. m \in Nat /\ Len(bs) \in Nat /\ Len(os) = Len(bs) + 1
    BY <1>2, <1>5, SeqFacts, AppendFacts
  <2> QED
    BY <1>3, <1>5, <2>1
<1>8. m - 1 \in Bad
  BY <1>5, <1>6, <1>7
<1> QED
  BY <1>2, <1>7, <1>8

Values == (STRING \X BOOLEAN \X BOOLEAN) \cup {NoName, Empty}
SettingType ==
  [name : Values, off : BOOLEAN, ctrl : {"backslash", "caret"},
   number : Values \cup {Undefined}, text : Values \cup {Undefined}]
ParsedType == [options : [Keys -> Seq(Option)], defs : Option \cup {Undefined}]

LEMMA OptionFacts ==
  ASSUME NEW o \in Option
  PROVE  /\ o.key \in {"w", "o", "backslash", "caret", "T", "sym"}
         /\ o.val \in STRING /\ o.rest \in BOOLEAN /\ o.quoted \in BOOLEAN
         /\ Value(o) \in Values /\ Unquoted(o) \in Values
         /\ Value(o) # Undefined
BY TextAssumption DEF Option, Keys, Handed, Value, Unquoted, Values

(* What an option of one key sets, and what it sets it to: a part of the    *)
(* settings, which -\ and -^ share.                                         *)
Part(s, k) == CASE k = "w" -> s.off [] k = "o" -> s.name [] OTHER -> s.ctrl
Touches(j, k) == j = k \/ {j, k} = {"backslash", "caret"}
New(o, x) == CASE o.key = "w" -> Enable(x, o) [] o.key = "o" -> Unquoted(o) [] OTHER -> o.key

LEMMA TouchesFacts ==
  /\ \A k \in Handed : Touches(k, k) /\ ~Touches("T", k) /\ ~Touches("sym", k)
  /\ \A j \in Handed, k \in Handed :
       Touches(j, k) <=> j = k \/ (j \in {"backslash", "caret"} /\ k \in {"backslash", "caret"})
BY DEF Touches, Handed

LEMMA DefineFacts ==
  ASSUME NEW s \in SettingType, NEW o \in Option
  PROVE  /\ Define(s, o) \in SettingType
         /\ Define(s, o).name = s.name /\ Define(s, o).off = s.off /\ Define(s, o).ctrl = s.ctrl
         /\ Define(s, o).number = IF IsText(o) THEN s.number ELSE Value(o)
         /\ Define(s, o).text = IF IsText(o) /\ s.text = Undefined THEN Value(o) ELSE s.text
<1>1. Value(o) \in Values
  BY OptionFacts
<1>2. CASE IsText(o)
  <2>1. Define(s, o) = [s EXCEPT !.text = IF s.text = Undefined THEN Value(o) ELSE s.text]
    BY <1>2 DEF Define
  <2> QED
    BY <1>1, <1>2, <2>1 DEF SettingType
<1>3. CASE ~IsText(o)
  <2>1. Define(s, o) = [s EXCEPT !.number = Value(o)]
    BY <1>3 DEF Define
  <2> QED
    BY <1>1, <1>3, <2>1 DEF SettingType
<1> QED
  BY <1>2, <1>3

LEMMA ApplyFacts ==
  ASSUME NEW s \in SettingType, NEW o \in Option
  PROVE  /\ Apply(s, o) \in SettingType
         /\ \A k \in Handed :
              Part(Apply(s, o), k) = IF Touches(o.key, k) THEN New(o, Part(s, k)) ELSE Part(s, k)
         /\ Apply(s, o).number = IF o.key = "sym" /\ ~IsText(o) THEN Value(o) ELSE s.number
         /\ Apply(s, o).text = IF o.key = "sym" /\ IsText(o) /\ s.text = Undefined THEN Value(o) ELSE s.text
<1>1. s.off \in BOOLEAN
  BY DEF SettingType
<1>2. Enable(s.off, o) \in BOOLEAN
  BY <1>1 DEF Enable
<1>3. CASE o.key = "w"
  <2> DEFINE e == Enable(s.off, o)
  <2>1. Apply(s, o) = [s EXCEPT !.off = e]
    BY <1>3 DEF Apply
  <2>2. New(o, s.off) = e
    BY <1>3 DEF New
  <2> HIDE DEF e
  <2> QED
    BY <1>2, <1>3, <2>1, <2>2 DEF SettingType, Part, Touches, Handed, e
<1>4. CASE o.key = "o"
  <2>1. Apply(s, o) = [s EXCEPT !.name = Unquoted(o)]
    BY <1>4 DEF Apply
  <2>2. New(o, s.name) = Unquoted(o) /\ Unquoted(o) \in Values
    BY <1>4, OptionFacts DEF New
  <2> QED
    BY <1>4, <2>1, <2>2 DEF SettingType, Part, Touches, Handed
<1>5. CASE o.key = "sym"
  <2>1. Apply(s, o) = Define(s, o)
    BY <1>5 DEF Apply
  <2>2. \A k \in Handed : ~Touches(o.key, k)
    BY <1>5, TouchesFacts
  <2>3. \A k \in Handed : Part(Define(s, o), k) = Part(s, k)
    BY DefineFacts DEF Part
  <2> QED
    BY <1>5, <2>1, <2>2, <2>3, DefineFacts
<1>6. CASE o.key = "T"
  <2>1. Apply(s, o) = s
    BY <1>6 DEF Apply
  <2>2. \A k \in Handed : ~Touches(o.key, k)
    BY <1>6, TouchesFacts
  <2> QED
    BY <1>6, <2>1, <2>2
<1>7. CASE o.key \in {"backslash", "caret"}
  <2>1. Apply(s, o) = [s EXCEPT !.ctrl = o.key]
    BY <1>7 DEF Apply
  <2>2. \A k \in {"backslash", "caret"} : New(o, Part(s, k)) = o.key
    BY <1>7 DEF New
  <2> QED
    BY <1>7, <2>1, <2>2 DEF SettingType, Part, Touches, Handed
<1> QED
  BY <1>3, <1>4, <1>5, <1>6, <1>7, OptionFacts

LEMMA AddFacts ==
  ASSUME NEW p \in ParsedType, NEW o \in Option
  PROVE  /\ Add(p, o) \in ParsedType
         /\ \A k \in Keys : Add(p, o).options[k] = IF o.key = k THEN Append(p.options[k], o) ELSE p.options[k]
         /\ Add(p, o).defs = IF o.key = "sym" /\ p.defs = Undefined THEN o ELSE p.defs
<1>1. p.options \in [Keys -> Seq(Option)] /\ p.defs \in Option \cup {Undefined}
  BY DEF ParsedType
<1>2. CASE o.key = "sym"
  <2>1. Add(p, o) = [p EXCEPT !.defs = IF @ = Undefined THEN o ELSE @]
    BY <1>2 DEF Add
  <2>2. \A k \in Keys : o.key # k
    BY <1>2 DEF Keys, Handed
  <2> QED
    BY <1>1, <1>2, <2>1, <2>2 DEF ParsedType
<1>3. CASE o.key # "sym"
  <2>1. o.key \in Keys
    BY <1>3, OptionFacts DEF Keys, Handed
  <2>2. Add(p, o) = [p EXCEPT !.options[o.key] = Append(@, o)]
    BY <1>3 DEF Add
  <2> DEFINE q == [p.options EXCEPT ![o.key] = Append(@, o)]
  <2>3. q \in [Keys -> Seq(Option)] /\ \A k \in Keys : q[k] = IF o.key = k THEN Append(p.options[k], o) ELSE p.options[k]
    BY <1>1, <2>1
  <2>4. Add(p, o) = [p EXCEPT !.options = q]
    BY <2>2
  <2> HIDE DEF q
  <2> QED
    BY <1>1, <1>3, <2>3, <2>4 DEF ParsedType
<1> QED
  BY <1>2, <1>3

SettingsStep(os) == [k \in 1 .. Len(os) |-> [x \in SettingType |-> Apply(x, os[k])]]

LEMMA SettingsFold ==
  ASSUME NEW s \in SettingType, NEW os \in Seq(Option)
  PROVE  \E g : IsFold(g, SettingType, Len(os), s, SettingsStep(os)) /\ Settings(s, os) = g[Len(os)]
<1> DEFINE N == Len(os)
           st == SettingsStep(os)
           Rule(f) == [k \in 0 .. N |-> IF k = 0 THEN s ELSE Apply(f[k - 1], os[k])]
           F == CHOOSE f : f = Rule(f)
<1>1. N \in Nat /\ \A k \in 1 .. N : os[k] \in Option
  BY SeqFacts, Zenon
<1>2. \A k \in 1 .. N, x \in SettingType : Apply(x, os[k]) \in SettingType
  BY <1>1, ApplyFacts
<1>3. st \in [1 .. N -> [SettingType -> SettingType]] /\ \A k \in 1 .. N, x \in SettingType : st[k][x] = Apply(x, os[k])
  BY <1>2 DEF SettingsStep
<1> HIDE DEF N, st
<1>4. PICK g : IsFold(g, SettingType, N, s, st)
  <2>1. s \in SettingType
    OBVIOUS
  <2> QED
    BY <1>1, <1>3, <2>1, FoldExists, Zenon
<1>5. g \in [0 .. N -> SettingType] /\ g[0] = s /\ \A k \in 1 .. N : g[k] = st[k][g[k - 1]]
  BY <1>4 DEF IsFold
<1>6. \A k \in 0 .. N : g[k] = IF k = 0 THEN s ELSE Apply(g[k - 1], os[k])
  <2> SUFFICES ASSUME NEW k \in 0 .. N, k # 0 PROVE g[k] = Apply(g[k - 1], os[k])
    BY <1>5
  <2>1. k \in 1 .. N /\ k - 1 \in 0 .. N
    BY <1>1
  <2>2. g[k - 1] \in SettingType
    BY <1>5, <2>1
  <2> QED
    BY <1>3, <1>5, <2>1, <2>2
<1>7. g = Rule(g)
  <2>1. g = [k \in 0 .. N |-> g[k]]
    BY <1>5
  <2> QED
    BY <1>6, <2>1
<1>8. F = Rule(F)
  <2> HIDE DEF Rule
  <2> QED
    BY <1>7, Zenon
<1>9. F[0] = s /\ \A k \in 1 .. N : F[k] = Apply(F[k - 1], os[k])
  <2> DEFINE f == F
  <2> HIDE DEF f
  <2>1. f = [k \in 0 .. N |-> IF k = 0 THEN s ELSE Apply(f[k - 1], os[k])]
    BY <1>8 DEF f
  <2>2. 0 \in 0 .. N /\ \A k \in 1 .. N : k \in 0 .. N /\ k # 0
    BY <1>1
  <2>3. f[0] = s
    BY <2>1, <2>2
  <2>4. \A k \in 1 .. N : f[k] = Apply(f[k - 1], os[k])
    BY <2>1, <2>2
  <2> QED
    BY <2>3, <2>4 DEF f
<1>10. Settings(s, os) = F[N]
  BY DEF Settings, N
<1> HIDE DEF F, Rule
<1>11. \A k \in 1 .. N : F[k - 1] \in SettingType => F[k] = st[k][F[k - 1]]
  BY <1>3, <1>9
<1>12. F[N] = g[N]
  BY <1>1, <1>4, <1>9, <1>11, FoldIs
<1> QED
  BY <1>4, <1>10, <1>12 DEF N, st

LEMMA SettingsFacts ==
  ASSUME NEW s \in SettingType
  PROVE  /\ Settings(s, <<>>) = s
         /\ \A os \in Seq(Option) : Settings(s, os) \in SettingType
         /\ \A os \in Seq(Option), o \in Option : Settings(s, Append(os, o)) = Apply(Settings(s, os), o)
<1>1. Settings(s, <<>>) = s
  <2>1. <<>> \in Seq(Option) /\ Len(<<>>) = 0
    BY EmptySeq
  <2>2. PICK g : IsFold(g, SettingType, Len(<<>>), s, SettingsStep(<<>>)) /\ Settings(s, <<>>) = g[Len(<<>>)]
    BY <2>1, SettingsFold, Zenon
  <2>3. g[0] = s
    BY <2>2 DEF IsFold
  <2> QED
    BY <2>1, <2>2, <2>3
<1>2. ASSUME NEW os \in Seq(Option) PROVE Settings(s, os) \in SettingType
  <2>1. PICK g : IsFold(g, SettingType, Len(os), s, SettingsStep(os)) /\ Settings(s, os) = g[Len(os)]
    BY SettingsFold
  <2>2. Len(os) \in 0 .. Len(os)
    <3>1. Len(os) \in Nat
      BY SeqFacts, Zenon
    <3> QED
      BY <3>1, UpTo, Zenon
  <2>3. g \in [0 .. Len(os) -> SettingType]
    BY <2>1 DEF IsFold
  <2> QED
    BY <2>1, <2>2, <2>3
<1>3. ASSUME NEW os \in Seq(Option), NEW o \in Option PROVE Settings(s, Append(os, o)) = Apply(Settings(s, os), o)
  <2> DEFINE bs == Append(os, o)
             N == Len(os)
  <2>1. bs \in Seq(Option) /\ Len(bs) = N + 1 /\ bs[N + 1] = o
    BY AppendFacts, Zenon
  <2>2. \A k \in 1 .. N : bs[k] = os[k]
    BY AppendFacts
  <2>3. N \in Nat
    BY SeqFacts
  <2>4. PICK g : IsFold(g, SettingType, N, s, SettingsStep(os)) /\ Settings(s, os) = g[N]
    BY SettingsFold
  <2> HIDE DEF bs, N
  <2>5. PICK h : IsFold(h, SettingType, N + 1, s, SettingsStep(bs)) /\ Settings(s, bs) = h[N + 1]
    <3>1. \E h : IsFold(h, SettingType, Len(bs), s, SettingsStep(bs)) /\ Settings(s, bs) = h[Len(bs)]
      BY <2>1, SettingsFold
    <3> QED
      BY <2>1, <3>1
  <2>6. \A k \in 1 .. N : SettingsStep(bs)[k] = SettingsStep(os)[k]
    <3> SUFFICES ASSUME NEW k \in 1 .. N PROVE SettingsStep(bs)[k] = SettingsStep(os)[k]
      OBVIOUS
    <3>1. k \in 1 .. N + 1
      BY <2>3
    <3>2. SettingsStep(bs)[k] = [x \in SettingType |-> Apply(x, bs[k])]
      BY <2>1, <3>1 DEF SettingsStep
    <3>3. SettingsStep(os)[k] = [x \in SettingType |-> Apply(x, os[k])]
      BY DEF SettingsStep, N
    <3> QED
      BY <2>2, <3>2, <3>3
  <2>7. h[N + 1] = SettingsStep(bs)[N + 1][g[N]]
    <3>1. N \in Nat /\ IsFold(g, SettingType, N, s, SettingsStep(os)) /\ IsFold(h, SettingType, N + 1, s, SettingsStep(bs))
      BY <2>3, <2>4, <2>5, Zenon
    <3> DEFINE st == SettingsStep(os)
               su == SettingsStep(bs)
    <3>2. IsFold(g, SettingType, N, s, st) /\ IsFold(h, SettingType, N + 1, s, su) /\ \A k \in 1 .. N : su[k] = st[k]
      BY <3>1, <2>6, Zenon
    <3> HIDE DEF st, su
    <3>3. h[N + 1] = su[N + 1][g[N]]
      BY <3>1, <3>2, FoldNext
    <3> QED
      BY <3>3 DEF su
  <2>8. g[N] \in SettingType
    BY <1>2, <2>4
  <2>9. SettingsStep(bs)[N + 1][g[N]] = Apply(g[N], o)
    <3>1. N + 1 \in 1 .. Len(bs)
      BY <2>1, <2>3
    <3> QED
      BY <2>1, <2>8, <3>1 DEF SettingsStep
  <2> QED
    BY <2>4, <2>5, <2>7, <2>9 DEF bs
<1> QED
  BY <1>1, <1>2, <1>3

CollectedStep(os) == [k \in 1 .. Len(os) |-> [x \in ParsedType |-> Add(x, os[k])]]

LEMMA CollectedFold ==
  ASSUME NEW p \in ParsedType, NEW os \in Seq(Option)
  PROVE  \E g : IsFold(g, ParsedType, Len(os), p, CollectedStep(os)) /\ Collected(p, os) = g[Len(os)]
<1> DEFINE N == Len(os)
           st == CollectedStep(os)
           Rule(f) == [k \in 0 .. N |-> IF k = 0 THEN p ELSE Add(f[k - 1], os[k])]
           F == CHOOSE f : f = Rule(f)
<1>1. N \in Nat /\ \A k \in 1 .. N : os[k] \in Option
  BY SeqFacts, Zenon
<1>2. \A k \in 1 .. N, x \in ParsedType : Add(x, os[k]) \in ParsedType
  BY <1>1, AddFacts
<1>3. st \in [1 .. N -> [ParsedType -> ParsedType]] /\ \A k \in 1 .. N, x \in ParsedType : st[k][x] = Add(x, os[k])
  BY <1>2 DEF CollectedStep
<1> HIDE DEF N, st
<1>4. PICK g : IsFold(g, ParsedType, N, p, st)
  <2>1. p \in ParsedType
    OBVIOUS
  <2> QED
    BY <1>1, <1>3, <2>1, FoldExists, Zenon
<1>5. g \in [0 .. N -> ParsedType] /\ g[0] = p /\ \A k \in 1 .. N : g[k] = st[k][g[k - 1]]
  BY <1>4 DEF IsFold
<1>6. \A k \in 0 .. N : g[k] = IF k = 0 THEN p ELSE Add(g[k - 1], os[k])
  <2> SUFFICES ASSUME NEW k \in 0 .. N, k # 0 PROVE g[k] = Add(g[k - 1], os[k])
    BY <1>5
  <2>1. k \in 1 .. N /\ k - 1 \in 0 .. N
    BY <1>1
  <2>2. g[k - 1] \in ParsedType
    BY <1>5, <2>1
  <2> QED
    BY <1>3, <1>5, <2>1, <2>2
<1>7. g = Rule(g)
  <2>1. g = [k \in 0 .. N |-> g[k]]
    BY <1>5
  <2> QED
    BY <1>6, <2>1
<1>8. F = Rule(F)
  <2> HIDE DEF Rule
  <2> QED
    BY <1>7, Zenon
<1>9. F[0] = p /\ \A k \in 1 .. N : F[k] = Add(F[k - 1], os[k])
  <2> DEFINE f == F
  <2> HIDE DEF f
  <2>1. f = [k \in 0 .. N |-> IF k = 0 THEN p ELSE Add(f[k - 1], os[k])]
    BY <1>8 DEF f
  <2>2. 0 \in 0 .. N /\ \A k \in 1 .. N : k \in 0 .. N /\ k # 0
    BY <1>1
  <2>3. f[0] = p
    BY <2>1, <2>2
  <2>4. \A k \in 1 .. N : f[k] = Add(f[k - 1], os[k])
    BY <2>1, <2>2
  <2> QED
    BY <2>3, <2>4 DEF f
<1>10. Collected(p, os) = F[N]
  BY DEF Collected, N
<1> HIDE DEF F, Rule
<1>11. \A k \in 1 .. N : F[k - 1] \in ParsedType => F[k] = st[k][F[k - 1]]
  BY <1>3, <1>9
<1>12. F[N] = g[N]
  BY <1>1, <1>4, <1>9, <1>11, FoldIs
<1> QED
  BY <1>4, <1>10, <1>12 DEF N, st

LEMMA CollectedFacts ==
  ASSUME NEW p \in ParsedType
  PROVE  /\ Collected(p, <<>>) = p
         /\ \A os \in Seq(Option) : Collected(p, os) \in ParsedType
         /\ \A os \in Seq(Option), o \in Option : Collected(p, Append(os, o)) = Add(Collected(p, os), o)
<1>1. Collected(p, <<>>) = p
  <2>1. <<>> \in Seq(Option) /\ Len(<<>>) = 0
    BY EmptySeq
  <2>2. PICK g : IsFold(g, ParsedType, Len(<<>>), p, CollectedStep(<<>>)) /\ Collected(p, <<>>) = g[Len(<<>>)]
    BY <2>1, CollectedFold, Zenon
  <2>3. g[0] = p
    BY <2>2 DEF IsFold
  <2> QED
    BY <2>1, <2>2, <2>3
<1>2. ASSUME NEW os \in Seq(Option) PROVE Collected(p, os) \in ParsedType
  <2>1. PICK g : IsFold(g, ParsedType, Len(os), p, CollectedStep(os)) /\ Collected(p, os) = g[Len(os)]
    BY CollectedFold
  <2>2. Len(os) \in 0 .. Len(os)
    <3>1. Len(os) \in Nat
      BY SeqFacts, Zenon
    <3> QED
      BY <3>1, UpTo, Zenon
  <2>3. g \in [0 .. Len(os) -> ParsedType]
    BY <2>1 DEF IsFold
  <2> QED
    BY <2>1, <2>2, <2>3
<1>3. ASSUME NEW os \in Seq(Option), NEW o \in Option PROVE Collected(p, Append(os, o)) = Add(Collected(p, os), o)
  <2> DEFINE bs == Append(os, o)
             N == Len(os)
  <2>1. bs \in Seq(Option) /\ Len(bs) = N + 1 /\ bs[N + 1] = o
    BY AppendFacts, Zenon
  <2>2. \A k \in 1 .. N : bs[k] = os[k]
    BY AppendFacts
  <2>3. N \in Nat
    BY SeqFacts
  <2>4. PICK g : IsFold(g, ParsedType, N, p, CollectedStep(os)) /\ Collected(p, os) = g[N]
    BY CollectedFold
  <2> HIDE DEF bs, N
  <2>5. PICK h : IsFold(h, ParsedType, N + 1, p, CollectedStep(bs)) /\ Collected(p, bs) = h[N + 1]
    <3>1. \E h : IsFold(h, ParsedType, Len(bs), p, CollectedStep(bs)) /\ Collected(p, bs) = h[Len(bs)]
      BY <2>1, CollectedFold
    <3> QED
      BY <2>1, <3>1
  <2>6. \A k \in 1 .. N : CollectedStep(bs)[k] = CollectedStep(os)[k]
    <3> SUFFICES ASSUME NEW k \in 1 .. N PROVE CollectedStep(bs)[k] = CollectedStep(os)[k]
      OBVIOUS
    <3>1. k \in 1 .. N + 1
      BY <2>3
    <3>2. CollectedStep(bs)[k] = [x \in ParsedType |-> Add(x, bs[k])]
      BY <2>1, <3>1 DEF CollectedStep
    <3>3. CollectedStep(os)[k] = [x \in ParsedType |-> Add(x, os[k])]
      BY DEF CollectedStep, N
    <3> QED
      BY <2>2, <3>2, <3>3
  <2>7. h[N + 1] = CollectedStep(bs)[N + 1][g[N]]
    <3>1. N \in Nat /\ IsFold(g, ParsedType, N, p, CollectedStep(os)) /\ IsFold(h, ParsedType, N + 1, p, CollectedStep(bs))
      BY <2>3, <2>4, <2>5, Zenon
    <3> DEFINE st == CollectedStep(os)
               su == CollectedStep(bs)
    <3>2. IsFold(g, ParsedType, N, p, st) /\ IsFold(h, ParsedType, N + 1, p, su) /\ \A k \in 1 .. N : su[k] = st[k]
      BY <3>1, <2>6, Zenon
    <3> HIDE DEF st, su
    <3>3. h[N + 1] = su[N + 1][g[N]]
      BY <3>1, <3>2, FoldNext
    <3> QED
      BY <3>3 DEF su
  <2>8. g[N] \in ParsedType
    BY <1>2, <2>4
  <2>9. CollectedStep(bs)[N + 1][g[N]] = Add(g[N], o)
    <3>1. N + 1 \in 1 .. Len(bs)
      BY <2>1, <2>3
    <3> QED
      BY <2>1, <2>8, <3>1 DEF CollectedStep
  <2> QED
    BY <2>4, <2>5, <2>7, <2>9 DEF bs
<1> QED
  BY <1>1, <1>2, <1>3

JoinedStep(os) == [k \in 1 .. Len(os) |-> [x \in Seq(Option) |-> x \o os[k]]]

LEMMA JoinedFold ==
  ASSUME NEW os \in Seq(Seq(Option))
  PROVE  \E g : IsFold(g, Seq(Option), Len(os), <<>>, JoinedStep(os)) /\ Joined(os) = g[Len(os)]
<1> DEFINE N == Len(os)
           st == JoinedStep(os)
           Rule(f) == [k \in 0 .. N |-> IF k = 0 THEN <<>> ELSE f[k - 1] \o os[k]]
           F == CHOOSE f : f = Rule(f)
<1>1. N \in Nat /\ \A k \in 1 .. N : os[k] \in Seq(Option)
  BY SeqFacts, Zenon
<1>2. \A k \in 1 .. N, x \in Seq(Option) : x \o os[k] \in Seq(Option)
  BY <1>1, ConcatProperties
<1>3. st \in [1 .. N -> [Seq(Option) -> Seq(Option)]] /\ \A k \in 1 .. N, x \in Seq(Option) : st[k][x] = x \o os[k]
  BY <1>2 DEF JoinedStep
<1> HIDE DEF N, st
<1>4. PICK g : IsFold(g, Seq(Option), N, <<>>, st)
  <2>1. <<>> \in Seq(Option)
    BY EmptySeq
  <2> QED
    BY <1>1, <1>3, <2>1, FoldExists, Zenon
<1>5. g \in [0 .. N -> Seq(Option)] /\ g[0] = <<>> /\ \A k \in 1 .. N : g[k] = st[k][g[k - 1]]
  BY <1>4 DEF IsFold
<1>6. \A k \in 0 .. N : g[k] = IF k = 0 THEN <<>> ELSE g[k - 1] \o os[k]
  <2> SUFFICES ASSUME NEW k \in 0 .. N, k # 0 PROVE g[k] = g[k - 1] \o os[k]
    BY <1>5
  <2>1. k \in 1 .. N /\ k - 1 \in 0 .. N
    BY <1>1
  <2>2. g[k - 1] \in Seq(Option)
    BY <1>5, <2>1
  <2> QED
    BY <1>3, <1>5, <2>1, <2>2
<1>7. g = Rule(g)
  <2>1. g = [k \in 0 .. N |-> g[k]]
    BY <1>5
  <2> QED
    BY <1>6, <2>1
<1>8. F = Rule(F)
  <2> HIDE DEF Rule
  <2> QED
    BY <1>7, Zenon
<1>9. F[0] = <<>> /\ \A k \in 1 .. N : F[k] = F[k - 1] \o os[k]
  <2> DEFINE f == F
  <2> HIDE DEF f
  <2>1. f = [k \in 0 .. N |-> IF k = 0 THEN <<>> ELSE f[k - 1] \o os[k]]
    BY <1>8 DEF f
  <2>2. 0 \in 0 .. N /\ \A k \in 1 .. N : k \in 0 .. N /\ k # 0
    BY <1>1
  <2>3. f[0] = <<>>
    BY <2>1, <2>2
  <2>4. \A k \in 1 .. N : f[k] = f[k - 1] \o os[k]
    BY <2>1, <2>2
  <2> QED
    BY <2>3, <2>4 DEF f
<1>10. Joined(os) = F[N]
  BY DEF Joined, N
<1> HIDE DEF F, Rule
<1>11. \A k \in 1 .. N : F[k - 1] \in Seq(Option) => F[k] = st[k][F[k - 1]]
  BY <1>3, <1>9
<1>12. F[N] = g[N]
  BY <1>1, <1>4, <1>9, <1>11, FoldIs
<1> QED
  BY <1>4, <1>10, <1>12 DEF N, st

LEMMA JoinedFacts ==
         /\ Joined(<<>>) = <<>>
         /\ \A os \in Seq(Seq(Option)) : Joined(os) \in Seq(Option)
         /\ \A os \in Seq(Seq(Option)), o \in Seq(Option) : Joined(Append(os, o)) = Joined(os) \o o
<1>1. Joined(<<>>) = <<>>
  <2>1. <<>> \in Seq(Seq(Option)) /\ Len(<<>>) = 0
    BY EmptySeq
  <2>2. PICK g : IsFold(g, Seq(Option), Len(<<>>), <<>>, JoinedStep(<<>>)) /\ Joined(<<>>) = g[Len(<<>>)]
    BY <2>1, JoinedFold, Zenon
  <2>3. g[0] = <<>>
    BY <2>2 DEF IsFold
  <2> QED
    BY <2>1, <2>2, <2>3
<1>2. ASSUME NEW os \in Seq(Seq(Option)) PROVE Joined(os) \in Seq(Option)
  <2>1. PICK g : IsFold(g, Seq(Option), Len(os), <<>>, JoinedStep(os)) /\ Joined(os) = g[Len(os)]
    BY JoinedFold
  <2>2. Len(os) \in 0 .. Len(os)
    <3>1. Len(os) \in Nat
      BY SeqFacts, Zenon
    <3> QED
      BY <3>1, UpTo, Zenon
  <2>3. g \in [0 .. Len(os) -> Seq(Option)]
    BY <2>1 DEF IsFold
  <2> QED
    BY <2>1, <2>2, <2>3
<1>3. ASSUME NEW os \in Seq(Seq(Option)), NEW o \in Seq(Option) PROVE Joined(Append(os, o)) = Joined(os) \o o
  <2> DEFINE bs == Append(os, o)
             N == Len(os)
  <2>1. bs \in Seq(Seq(Option)) /\ Len(bs) = N + 1 /\ bs[N + 1] = o
    BY AppendFacts, Zenon
  <2>2. \A k \in 1 .. N : bs[k] = os[k]
    BY AppendFacts
  <2>3. N \in Nat
    BY SeqFacts
  <2>4. PICK g : IsFold(g, Seq(Option), N, <<>>, JoinedStep(os)) /\ Joined(os) = g[N]
    BY JoinedFold
  <2> HIDE DEF bs, N
  <2>5. PICK h : IsFold(h, Seq(Option), N + 1, <<>>, JoinedStep(bs)) /\ Joined(bs) = h[N + 1]
    <3>1. \E h : IsFold(h, Seq(Option), Len(bs), <<>>, JoinedStep(bs)) /\ Joined(bs) = h[Len(bs)]
      BY <2>1, JoinedFold
    <3> QED
      BY <2>1, <3>1
  <2>6. \A k \in 1 .. N : JoinedStep(bs)[k] = JoinedStep(os)[k]
    <3> SUFFICES ASSUME NEW k \in 1 .. N PROVE JoinedStep(bs)[k] = JoinedStep(os)[k]
      OBVIOUS
    <3>1. k \in 1 .. N + 1
      BY <2>3
    <3>2. JoinedStep(bs)[k] = [x \in Seq(Option) |-> x \o bs[k]]
      BY <2>1, <3>1 DEF JoinedStep
    <3>3. JoinedStep(os)[k] = [x \in Seq(Option) |-> x \o os[k]]
      BY DEF JoinedStep, N
    <3> QED
      BY <2>2, <3>2, <3>3
  <2>7. h[N + 1] = JoinedStep(bs)[N + 1][g[N]]
    <3>1. N \in Nat /\ IsFold(g, Seq(Option), N, <<>>, JoinedStep(os)) /\ IsFold(h, Seq(Option), N + 1, <<>>, JoinedStep(bs))
      BY <2>3, <2>4, <2>5, Zenon
    <3> DEFINE st == JoinedStep(os)
               su == JoinedStep(bs)
    <3>2. IsFold(g, Seq(Option), N, <<>>, st) /\ IsFold(h, Seq(Option), N + 1, <<>>, su) /\ \A k \in 1 .. N : su[k] = st[k]
      BY <3>1, <2>6, Zenon
    <3> HIDE DEF st, su
    <3>3. h[N + 1] = su[N + 1][g[N]]
      BY <3>1, <3>2, FoldNext
    <3> QED
      BY <3>3 DEF su
  <2>8. g[N] \in Seq(Option)
    BY <1>2, <2>4
  <2>9. JoinedStep(bs)[N + 1][g[N]] = g[N] \o o
    <3>1. N + 1 \in 1 .. Len(bs)
      BY <2>1, <2>3
    <3> QED
      BY <2>1, <2>8, <3>1 DEF JoinedStep
  <2> QED
    BY <2>4, <2>5, <2>7, <2>9 DEF bs
<1> QED
  BY <1>1, <1>2, <1>3

LEMMA SettingsEmpty ==
  ASSUME NEW s \in SettingType
  PROVE  Settings(s, <<>>) = s
BY SettingsFacts, Zenon

LEMMA SettingsType ==
  ASSUME NEW s \in SettingType, NEW os \in Seq(Option)
  PROVE  Settings(s, os) \in SettingType
BY SettingsFacts, Zenon

LEMMA SettingsAppend ==
  ASSUME NEW s \in SettingType, NEW os \in Seq(Option), NEW o \in Option
  PROVE  Settings(s, Append(os, o)) = Apply(Settings(s, os), o)
BY SettingsFacts, Zenon

LEMMA ConcatAppend ==
  ASSUME NEW E, NEW bs \in Seq(E), NEW os \in Seq(E), NEW o \in E
  PROVE  bs \o os \in Seq(E) /\ bs \o Append(os, o) = Append(bs \o os, o)
<1>1. <<o>> \in Seq(E)
  OBVIOUS
<1>2. Append(os, o) = os \o <<o>>
  BY AppendIsConcat, Zenon
<1>3. bs \o os \in Seq(E)
  BY ConcatProperties, Zenon
<1>4. Append(bs \o os, o) = (bs \o os) \o <<o>>
  BY <1>3, AppendIsConcat, Zenon
<1>5. (bs \o os) \o <<o>> = bs \o (os \o <<o>>)
  BY <1>1, ConcatAssociative
<1> QED
  BY <1>2, <1>3, <1>4, <1>5, Zenon

(* Options one after the other                                              *)
LEMMA SettingsConcat ==
  ASSUME NEW s \in SettingType, NEW bs \in Seq(Option), NEW os \in Seq(Option)
  PROVE  Settings(s, bs \o os) = Settings(Settings(s, bs), os)
<1> DEFINE G == {x \in Seq(Option) : Settings(s, bs \o x) = Settings(Settings(s, bs), x)}
<1>1. <<>> \in G
  <2>1. <<>> \in Seq(Option) /\ bs \o <<>> = bs
    BY EmptySeq, ConcatEmptySeq, Zenon
  <2>2. Settings(Settings(s, bs), <<>>) = Settings(s, bs)
    BY SettingsType, SettingsEmpty, Zenon
  <2> QED
    BY <2>1, <2>2
<1>2. ASSUME NEW x \in Seq(Option), x \in G, NEW o \in Option PROVE Append(x, o) \in G
  <2>1. bs \o x \in Seq(Option) /\ bs \o Append(x, o) = Append(bs \o x, o)
    BY ConcatAppend
  <2>2. Settings(s, bs \o Append(x, o)) = Apply(Settings(s, bs \o x), o)
    BY <2>1, SettingsAppend, Zenon
  <2>3. Settings(Settings(s, bs), Append(x, o)) = Apply(Settings(Settings(s, bs), x), o)
    BY SettingsType, SettingsAppend, Zenon
  <2>4. Settings(s, bs \o x) = Settings(Settings(s, bs), x)
    BY <1>2
  <2>5. Append(x, o) \in Seq(Option)
    BY AppendFacts, Zenon
  <2> QED
    BY <2>2, <2>3, <2>4, <2>5
<1>3. Seq(Option) \subseteq G
  <2> HIDE DEF G
  <2> QED
    BY <1>1, <1>2, AllSequences, Zenon
<1> QED
  BY <1>3

(* What options leave alone: the parts they do not touch, the constant      *)
(* without a definition, and its text without a text                        *)
LEMMA SettingsKeep ==
  ASSUME NEW s \in SettingType, NEW os \in Seq(Option)
  PROVE  /\ \A k \in Handed : (\A i \in 1 .. Len(os) : ~Touches(os[i].key, k)) => Part(Settings(s, os), k) = Part(s, k)
         /\ (\A i \in 1 .. Len(os) : os[i].key # "sym") => Settings(s, os).number = s.number
         /\ (\A i \in 1 .. Len(os) : os[i].key = "sym" => ~IsText(os[i])) => Settings(s, os).text = s.text
<1> DEFINE G == {x \in Seq(Option) :
      /\ \A k \in Handed : (\A i \in 1 .. Len(x) : ~Touches(x[i].key, k)) => Part(Settings(s, x), k) = Part(s, k)
      /\ (\A i \in 1 .. Len(x) : x[i].key # "sym") => Settings(s, x).number = s.number
      /\ (\A i \in 1 .. Len(x) : x[i].key = "sym" => ~IsText(x[i])) => Settings(s, x).text = s.text}
<1>1. <<>> \in G
  BY EmptySeq, SettingsEmpty
<1>2. ASSUME NEW x \in Seq(Option), x \in G, NEW o \in Option PROVE Append(x, o) \in G
  <2> DEFINE y == Append(x, o)
             u == Settings(s, x)
  <2>1. y \in Seq(Option) /\ u \in SettingType /\ Settings(s, y) = Apply(u, o)
    BY AppendFacts, SettingsType, SettingsAppend, Zenon
  <2>2. Len(x) \in Nat /\ Len(y) = Len(x) + 1 /\ y[Len(x) + 1] = o
    BY AppendFacts, SeqFacts, Zenon
  <2>3. \A i \in 1 .. Len(x) : y[i] = x[i]
    BY AppendFacts
  <2>4. /\ \A k \in Handed : (\A i \in 1 .. Len(x) : ~Touches(x[i].key, k)) => Part(u, k) = Part(s, k)
        /\ (\A i \in 1 .. Len(x) : x[i].key # "sym") => u.number = s.number
        /\ (\A i \in 1 .. Len(x) : x[i].key = "sym" => ~IsText(x[i])) => u.text = s.text
    BY <1>2
  <2> HIDE DEF y, u
  <2>5. Len(x) + 1 \in 1 .. Len(y) /\ \A i \in 1 .. Len(x) : i \in 1 .. Len(y)
    <3>1. \A n \in Nat : n + 1 \in 1 .. n + 1 /\ \A k \in 1 .. n : k \in 1 .. n + 1
      OBVIOUS
    <3> QED
      BY <2>2, <3>1
  <2>6. ASSUME NEW k \in Handed, \A i \in 1 .. Len(y) : ~Touches(y[i].key, k)
        PROVE  Part(Settings(s, y), k) = Part(s, k)
    <3>1. ~Touches(o.key, k) /\ \A i \in 1 .. Len(x) : ~Touches(x[i].key, k)
      BY <2>2, <2>3, <2>5, <2>6
    <3>2. Part(Apply(u, o), k) = Part(u, k)
      BY <2>1, <3>1, ApplyFacts
    <3> QED
      BY <2>1, <2>4, <3>1, <3>2
  <2>7. ASSUME \A i \in 1 .. Len(y) : y[i].key # "sym" PROVE Settings(s, y).number = s.number
    <3>1. o.key # "sym" /\ \A i \in 1 .. Len(x) : x[i].key # "sym"
      BY <2>2, <2>3, <2>5, <2>7
    <3>2. Apply(u, o).number = u.number
      BY <2>1, <3>1, ApplyFacts
    <3> QED
      BY <2>1, <2>4, <3>1, <3>2
  <2>8. ASSUME \A i \in 1 .. Len(y) : y[i].key = "sym" => ~IsText(y[i]) PROVE Settings(s, y).text = s.text
    <3>1. (o.key = "sym" => ~IsText(o)) /\ \A i \in 1 .. Len(x) : x[i].key = "sym" => ~IsText(x[i])
      BY <2>2, <2>3, <2>5, <2>8
    <3>2. Apply(u, o).text = u.text
      BY <2>1, <3>1, ApplyFacts
    <3> QED
      BY <2>1, <2>4, <3>1, <3>2
  <2> QED
    BY <2>1, <2>6, <2>7, <2>8 DEF y
<1>3. Seq(Option) \subseteq G
  <2> HIDE DEF G
  <2> QED
    BY <1>1, <1>2, AllSequences, Zenon
<1> QED
  BY <1>3

(* A part afterwards depends on this part before.                           *)
LEMMA SettingsSame ==
  ASSUME NEW s \in SettingType, NEW t \in SettingType, NEW os \in Seq(Option),
         NEW k \in Handed, Part(s, k) = Part(t, k)
  PROVE  Part(Settings(s, os), k) = Part(Settings(t, os), k)
<1> DEFINE G == {x \in Seq(Option) : Part(Settings(s, x), k) = Part(Settings(t, x), k)}
<1>1. <<>> \in G
  BY EmptySeq, SettingsEmpty
<1>2. ASSUME NEW x \in Seq(Option), x \in G, NEW o \in Option PROVE Append(x, o) \in G
  <2> DEFINE u == Settings(s, x)
             v == Settings(t, x)
  <2>1. Append(x, o) \in Seq(Option)
    BY AppendFacts, Zenon
  <2>2. u \in SettingType /\ v \in SettingType
    BY SettingsType, Zenon
  <2>3. Settings(s, Append(x, o)) = Apply(u, o) /\ Settings(t, Append(x, o)) = Apply(v, o)
    BY SettingsAppend, Zenon
  <2>4. Part(u, k) = Part(v, k)
    BY <1>2
  <2> HIDE DEF u, v
  <2>5. /\ Part(Apply(u, o), k) = IF Touches(o.key, k) THEN New(o, Part(u, k)) ELSE Part(u, k)
        /\ Part(Apply(v, o), k) = IF Touches(o.key, k) THEN New(o, Part(v, k)) ELSE Part(v, k)
    BY <2>2, ApplyFacts, Zenon
  <2> QED
    BY <2>1, <2>3, <2>4, <2>5
<1>3. Seq(Option) \subseteq G
  <2> HIDE DEF G
  <2> QED
    BY <1>1, <1>2, AllSequences, Zenon
<1> QED
  BY <1>3

KeyAt(os, k) == {i \in DOMAIN os : os[i].key = k}

(* What the parser keeps of the options it has read: for each key the       *)
(* options of this key alone, which do to their part of the settings what   *)
(* all of them would do when no other list touches it, and the first        *)
(* definition.                                                              *)
OneKeyEach(p) == \A k \in Keys : \A i \in 1 .. Len(p.options[k]) : p.options[k][i].key = k
AllKept(p, os) == \A k \in Keys : p.options[k] = <<>> => \A i \in 1 .. Len(os) : os[i].key # k
Alone(p, k) == \A j \in Handed \ {k} : Touches(j, k) => p.options[j] = <<>>
SameSettings(p, os) ==
  \A s \in SettingType, k \in Handed :
    Alone(p, k) => Part(Settings(s, os), k) = Part(Settings(s, p.options[k]), k)
FirstDefinition(p, os) ==
  IF p.defs = Undefined
  THEN \A i \in 1 .. Len(os) : os[i].key # "sym"
  ELSE \E i \in 1 .. Len(os) : /\ os[i].key = "sym" /\ p.defs = os[i]
                               /\ \A j \in 1 .. Len(os) : os[j].key = "sym" => i <= j
Counted(p, os) == IsFiniteSet(KeyAt(os, "T")) /\ Len(p.options["T"]) = Cardinality(KeyAt(os, "T"))

Fits(p, os) ==
  /\ p \in ParsedType
  /\ OneKeyEach(p) /\ AllKept(p, os) /\ SameSettings(p, os) /\ FirstDefinition(p, os)
  /\ Counted(p, os)

LEMMA KeptSeq ==
  ASSUME NEW p \in ParsedType, NEW k \in Keys
  PROVE  p.options[k] \in Seq(Option)
BY DEF ParsedType

LEMMA HandedKeys == Handed \subseteq Keys /\ "T" \in Keys
BY DEF Keys

LEMMA FitsAdd ==
  ASSUME NEW p, NEW os \in Seq(Option), Fits(p, os), NEW o \in Option
  PROVE  Fits(Add(p, o), Append(os, o))
<1> DEFINE q == Add(p, o)
           cs == Append(os, o)
<1>1. p \in ParsedType
  BY DEF Fits
<1>2. q \in ParsedType
  BY <1>1, AddFacts
<1>3. \A k \in Keys : q.options[k] = IF o.key = k THEN Append(p.options[k], o) ELSE p.options[k]
  BY <1>1, AddFacts
<1>4. q.defs = IF o.key = "sym" /\ p.defs = Undefined THEN o ELSE p.defs
  BY <1>1, AddFacts
<1>5. Len(os) \in Nat /\ Len(cs) = Len(os) + 1 /\ cs[Len(os) + 1] = o /\ cs \in Seq(Option)
  BY AppendFacts, SeqFacts, Zenon
<1>6. \A k \in 1 .. Len(os) : cs[k] = os[k]
  BY AppendFacts
<1>7. \A s \in SettingType : Settings(s, cs) = Apply(Settings(s, os), o)
  BY SettingsAppend, Zenon
<1>8. DOMAIN os = 1 .. Len(os) /\ DOMAIN cs = 1 .. Len(cs)
  BY <1>5, LenProperties, Zenon
<1>9. \A i \in 1 .. Len(cs) : i \in 1 .. Len(os) \/ i = Len(os) + 1
  BY <1>5
<1>10. \A i \in 1 .. Len(os) : i \in 1 .. Len(cs) /\ i # Len(os) + 1
  BY <1>5
<1>11. Len(os) + 1 \in 1 .. Len(cs)
  BY <1>5
<1> HIDE DEF q, cs
<1>12. OneKeyEach(q)
  <2> SUFFICES ASSUME NEW k \in Keys, NEW i \in 1 .. Len(q.options[k]) PROVE q.options[k][i].key = k
    BY DEF OneKeyEach
  <2> DEFINE a == p.options[k]
  <2>1. a \in Seq(Option) /\ \A j \in 1 .. Len(a) : a[j].key = k
    BY <1>1, KeptSeq DEF Fits, OneKeyEach
  <2> HIDE DEF a
  <2>2. CASE o.key = k
    <3>1. q.options[k] = Append(a, o)
      BY <1>3, <2>2 DEF a
    <3>2. Len(a) \in Nat /\ Len(Append(a, o)) = Len(a) + 1 /\ Append(a, o)[Len(a) + 1] = o
      BY <2>1, AppendFacts, SeqFacts, Zenon
    <3>3. \A j \in 1 .. Len(a) : Append(a, o)[j] = a[j]
      BY <2>1, AppendFacts, Zenon
    <3>4. i \in 1 .. Len(a) \/ i = Len(a) + 1
      BY <3>1, <3>2
    <3> QED
      BY <2>1, <2>2, <3>1, <3>2, <3>3, <3>4
  <2>3. CASE o.key # k
    BY <1>3, <2>1, <2>3 DEF a
  <2> QED
    BY <2>2, <2>3
<1>13. AllKept(q, cs)
  <2> SUFFICES ASSUME NEW k \in Keys, q.options[k] = <<>>, NEW i \in 1 .. Len(cs) PROVE cs[i].key # k
    BY DEF AllKept
  <2>1. p.options[k] \in Seq(Option)
    BY <1>1, KeptSeq
  <2>2. o.key # k
    <3>1. Append(p.options[k], o) # <<>>
      BY <2>1, AppendProperties, Zenon
    <3> QED
      BY <1>3, <3>1
  <2>3. p.options[k] = <<>>
    BY <1>3, <2>2
  <2>4. \A j \in 1 .. Len(os) : os[j].key # k
    BY <2>3 DEF Fits, AllKept
  <2> QED
    BY <1>5, <1>6, <1>9, <2>2, <2>4
<1>14. SameSettings(q, cs)
  <2> SUFFICES ASSUME NEW s \in SettingType, NEW k \in Handed, Alone(q, k)
               PROVE  Part(Settings(s, cs), k) = Part(Settings(s, q.options[k]), k)
    BY DEF SameSettings
  <2> DEFINE a == p.options[k]
             b == q.options[k]
  <2>1. a \in Seq(Option)
    BY <1>1, KeptSeq, HandedKeys
  <2>2. b = IF o.key = k THEN Append(a, o) ELSE a
    BY <1>3, HandedKeys
  <2>3. Alone(p, k) /\ (Touches(o.key, k) => o.key = k)
    <3>1. ASSUME NEW j \in Handed \ {k}, Touches(j, k) PROVE p.options[j] = <<>> /\ o.key # j
      <4>1. q.options[j] = <<>> /\ j \in Keys
        BY <3>1, HandedKeys DEF Alone
      <4>2. p.options[j] \in Seq(Option)
        BY <1>1, <4>1, KeptSeq
      <4>3. Append(p.options[j], o) # <<>>
        BY <4>2, AppendNotEmpty, Zenon
      <4> QED
        BY <1>3, <4>1, <4>3
    <3>2. Touches(o.key, k) => o.key \in Handed
      BY DEF Touches, Handed
    <3> QED
      BY <3>1, <3>2 DEF Alone
  <2>4. Part(Settings(s, os), k) = Part(Settings(s, a), k)
    BY <2>3 DEF Fits, SameSettings
  <2> DEFINE u == Settings(s, os)
             v == Settings(s, a)
  <2>5. u \in SettingType /\ v \in SettingType
    BY <2>1, SettingsType, Zenon
  <2>6. Settings(s, Append(a, o)) = Apply(v, o) /\ Settings(s, cs) = Apply(u, o)
    BY <1>7, <2>1, SettingsAppend, Zenon
  <2>7. Part(u, k) = Part(v, k) /\ Settings(s, a) = v
    BY <2>4
  <2> HIDE DEF a, b, u, v
  <2>8. /\ Part(Apply(u, o), k) = IF Touches(o.key, k) THEN New(o, Part(u, k)) ELSE Part(u, k)
        /\ Part(Apply(v, o), k) = IF Touches(o.key, k) THEN New(o, Part(v, k)) ELSE Part(v, k)
    BY <2>5, ApplyFacts, Zenon
  <2>9. CASE o.key = k
    BY <2>2, <2>6, <2>7, <2>8, <2>9 DEF b
  <2>10. CASE o.key # k
    <3>1. ~Touches(o.key, k)
      BY <2>3, <2>10
    <3> QED
      BY <2>2, <2>6, <2>7, <2>8, <2>10, <3>1 DEF b
  <2> QED
    BY <2>9, <2>10
<1>15. FirstDefinition(q, cs)
  <2>1. FirstDefinition(p, os)
    BY DEF Fits
  <2>2. o # Undefined
    BY TextAssumption
  <2>3. CASE p.defs = Undefined /\ o.key # "sym"
    BY <1>4, <1>5, <1>6, <1>9, <2>1, <2>3 DEF FirstDefinition
  <2>4. CASE p.defs = Undefined /\ o.key = "sym"
    <3>1. q.defs = o /\ q.defs # Undefined
      BY <1>4, <2>2, <2>4
    <3>2. \A j \in 1 .. Len(cs) : cs[j].key = "sym" => Len(os) + 1 <= j
      BY <1>5, <1>6, <1>9, <2>1, <2>4 DEF FirstDefinition
    <3>3. cs[Len(os) + 1].key = "sym" /\ q.defs = cs[Len(os) + 1]
      BY <1>5, <2>4, <3>1
    <3> QED
      BY <1>11, <3>1, <3>2, <3>3 DEF FirstDefinition
  <2>5. CASE p.defs # Undefined
    <3>1. q.defs = p.defs
      BY <1>4, <2>5
    <3>2. PICK i \in 1 .. Len(os) : /\ os[i].key = "sym" /\ p.defs = os[i]
                                    /\ \A j \in 1 .. Len(os) : os[j].key = "sym" => i <= j
      BY <2>1, <2>5 DEF FirstDefinition
    <3>3. i \in 1 .. Len(cs) /\ cs[i].key = "sym" /\ q.defs = cs[i]
      BY <1>6, <1>10, <3>1, <3>2
    <3>4. \A j \in 1 .. Len(cs) : cs[j].key = "sym" => i <= j
      BY <1>5, <1>6, <1>9, <3>2
    <3> QED
      BY <2>5, <3>1, <3>3, <3>4 DEF FirstDefinition
  <2> QED
    BY <2>3, <2>4, <2>5
<1>16. Counted(q, cs)
  <2> DEFINE a == p.options["T"]
             A == KeyAt(os, "T")
  <2>1. IsFiniteSet(A) /\ Len(a) = Cardinality(A) /\ a \in Seq(Option)
    BY <1>1, KeptSeq, HandedKeys DEF Fits, Counted
  <2>2. q.options["T"] = IF o.key = "T" THEN Append(a, o) ELSE a
    BY <1>3, HandedKeys
  <2>3. Len(os) + 1 \notin A
    BY <1>5, <1>8 DEF KeyAt
  <2>4. CASE o.key = "T"
    <3>1. KeyAt(cs, "T") = A \cup {Len(os) + 1}
      BY <1>5, <1>6, <1>8, <1>9, <1>10, <1>11, <2>4 DEF KeyAt
    <3> HIDE DEF A, a
    <3>2. IsFiniteSet(A \cup {Len(os) + 1}) /\ Cardinality(A \cup {Len(os) + 1}) = Cardinality(A) + 1
      BY <2>1, <2>3, FS_AddElement
    <3>3. Len(Append(a, o)) = Len(a) + 1
      BY <2>1, AppendFacts, Zenon
    <3> QED
      BY <2>1, <2>2, <2>4, <3>1, <3>2, <3>3 DEF Counted
  <2>5. CASE o.key # "T"
    <3>1. KeyAt(cs, "T") = A
      BY <1>5, <1>6, <1>8, <1>9, <1>10, <2>5 DEF KeyAt
    <3> HIDE DEF A, a
    <3> QED
      BY <2>1, <2>2, <2>5, <3>1 DEF Counted
  <2> QED
    BY <2>4, <2>5
<1>17. Fits(q, cs)
  BY <1>2, <1>12, <1>13, <1>14, <1>15, <1>16 DEF Fits
<1> QED
  BY <1>17 DEF q, cs

NothingParsed == [options |-> [k \in Keys |-> <<>>], defs |-> Undefined]

LEMMA FitsNothing == Fits(NothingParsed, <<>>)
<1> DEFINE p == NothingParsed
<1>1. <<>> \in Seq(Option) /\ Len(<<>>) = 0
  BY EmptySeq, Zenon
<1>2. p.options = [k \in Keys |-> <<>>] /\ p.defs = Undefined
  BY DEF NothingParsed
<1>3. \A k \in Keys : p.options[k] = <<>>
  BY <1>2
<1>4. p \in ParsedType
  BY <1>1 DEF NothingParsed, ParsedType
<1>5. Handed \subseteq Keys /\ "T" \in Keys
  BY HandedKeys
<1>6. KeyAt(<<>>, "T") = {}
  BY DEF KeyAt
<1> HIDE DEF p
<1>7. OneKeyEach(p) /\ AllKept(p, <<>>)
  BY <1>1, <1>3 DEF OneKeyEach, AllKept
<1>8. SameSettings(p, <<>>)
  BY <1>3, <1>5 DEF SameSettings
<1>9. FirstDefinition(p, <<>>)
  BY <1>1, <1>2 DEF FirstDefinition
<1>10. Counted(p, <<>>)
  BY <1>1, <1>3, <1>5, <1>6, FS_EmptySet DEF Counted
<1> QED
  BY <1>4, <1>7, <1>8, <1>9, <1>10 DEF Fits, p

LEMMA FitsCollected ==
  ASSUME NEW p, NEW bs \in Seq(Option), Fits(p, bs), NEW os \in Seq(Option)
  PROVE  Fits(Collected(p, os), bs \o os)
<1> DEFINE G == {x \in Seq(Option) : Fits(Collected(p, x), bs \o x)}
<1>1. p \in ParsedType
  BY DEF Fits
<1>2. <<>> \in G
  <2>1. <<>> \in Seq(Option) /\ bs \o <<>> = bs
    BY EmptySeq, ConcatEmptySeq, Zenon
  <2>2. Collected(p, <<>>) = p
    BY <1>1, CollectedFacts
  <2> QED
    BY <2>1, <2>2
<1>3. ASSUME NEW x \in Seq(Option), x \in G, NEW o \in Option PROVE Append(x, o) \in G
  <2>1. bs \o x \in Seq(Option) /\ bs \o Append(x, o) = Append(bs \o x, o)
    BY ConcatAppend
  <2>2. Collected(p, Append(x, o)) = Add(Collected(p, x), o)
    BY <1>1, CollectedFacts
  <2>3. Fits(Collected(p, x), bs \o x)
    BY <1>3
  <2>4. Fits(Add(Collected(p, x), o), Append(bs \o x, o))
    BY <2>1, <2>3, FitsAdd, Zenon
  <2>5. Append(x, o) \in Seq(Option)
    BY AppendFacts, Zenon
  <2> QED
    BY <2>1, <2>2, <2>4, <2>5
<1>4. Seq(Option) \subseteq G
  <2> HIDE DEF G
  <2> QED
    BY <1>2, <1>3, AllSequences, Zenon
<1> QED
  BY <1>4

(* The output name is the last one                                          *)
LEMMA SettingsLastName ==
  ASSUME NEW s \in SettingType, NEW os \in Seq(Option), os # <<>>,
         \A i \in 1 .. Len(os) : os[i].key = "o"
  PROVE  Settings(s, os).name = Unquoted(Last(os))
<1>1. PICK bs \in Seq(Option), o \in Option : os = Append(bs, o)
  BY SequenceEmptyOrAppend
<1>2. Len(bs) \in Nat /\ Len(os) = Len(bs) + 1 /\ os[Len(bs) + 1] = o
  BY <1>1, AppendFacts, SeqFacts, Zenon
<1>3. Last(os) = o
  BY <1>2 DEF Last
<1>4. Len(bs) + 1 \in 1 .. Len(bs) + 1
  BY <1>2, UpTo, Zenon
<1>5. o.key = "o"
  BY <1>2, <1>4
<1>6. Settings(s, os) = Apply(Settings(s, bs), o)
  BY <1>1, SettingsAppend
<1>7. Settings(s, bs) \in SettingType
  BY SettingsType
<1>8. Part(Apply(Settings(s, bs), o), "o") = New(o, Part(Settings(s, bs), "o"))
  <2>1. "o" \in Handed /\ Touches(o.key, "o")
    BY <1>5 DEF Handed, Touches
  <2> QED
    BY <1>7, <2>1, ApplyFacts
<1>9. Apply(Settings(s, bs), o).name = Unquoted(o)
  BY <1>5, <1>8 DEF Part, New
<1> QED
  BY <1>3, <1>6, <1>9

LEMMA JoinedType ==
  ASSUME NEW ss \in Seq(Seq(Option))
  PROVE  Joined(ss) \in Seq(Option)
BY JoinedFacts, Zenon

LEMMA JoinedAppend ==
  ASSUME NEW ss \in Seq(Seq(Option)), NEW os \in Seq(Option)
  PROVE  Joined(Append(ss, os)) = Joined(ss) \o os
BY JoinedFacts, Zenon

LEMMA JoinedOne ==
  ASSUME NEW os \in Seq(Option)
  PROVE  Joined(<<os>>) = os
<1>1. <<>> \in Seq(Seq(Option)) /\ Joined(<<>>) = <<>>
  BY EmptySeq, JoinedFacts, Zenon
<1>2. <<os>> = Append(<<>>, os)
  OBVIOUS
<1>3. Joined(Append(<<>>, os)) = <<>> \o os
  BY <1>1, JoinedAppend
<1>4. <<>> \o os = os
  BY ConcatEmptySeq, Zenon
<1> QED
  BY <1>2, <1>3, <1>4

(* Lines of one word each                                                   *)
LEMMA JoinedWords ==
  ASSUME NEW ss \in Seq(Seq(Option)), \A k \in 1 .. Len(ss) : Len(ss[k]) = 1
  PROVE  Len(Joined(ss)) = Len(ss) /\ \A k \in 1 .. Len(ss) : Joined(ss)[k] = ss[k][1]
<1> DEFINE G == {x \in Seq(Seq(Option)) : (\A k \in 1 .. Len(x) : Len(x[k]) = 1) =>
                    Len(Joined(x)) = Len(x) /\ \A k \in 1 .. Len(x) : Joined(x)[k] = x[k][1]}
<1>1. <<>> \in G
  <2>1. <<>> \in Seq(Seq(Option)) /\ Joined(<<>>) = <<>> /\ Len(<<>>) = 0
    BY EmptySeq, JoinedFacts, Zenon
  <2> QED
    BY <2>1
<1>2. ASSUME NEW x \in Seq(Seq(Option)), x \in G, NEW l \in Seq(Option) PROVE Append(x, l) \in G
  <2> DEFINE y == Append(x, l)
  <2>1. y \in Seq(Seq(Option)) /\ Len(x) \in Nat /\ Len(y) = Len(x) + 1 /\ y[Len(x) + 1] = l
    BY AppendFacts, SeqFacts, Zenon
  <2>2. \A k \in 1 .. Len(x) : y[k] = x[k]
    BY AppendFacts
  <2>3. Joined(y) = Joined(x) \o l
    BY JoinedAppend
  <2> HIDE DEF y
  <2> SUFFICES ASSUME \A k \in 1 .. Len(y) : Len(y[k]) = 1
               PROVE  Len(Joined(y)) = Len(y) /\ \A k \in 1 .. Len(y) : Joined(y)[k] = y[k][1]
    BY <2>1 DEF y
  <2>4. \A k \in 1 .. Len(x) : k \in 1 .. Len(y)
    BY <2>1
  <2>5. Len(Joined(x)) = Len(x) /\ \A k \in 1 .. Len(x) : Joined(x)[k] = x[k][1]
    BY <1>2, <2>2, <2>4
  <2>6. Len(x) + 1 \in 1 .. Len(y) /\ Len(l) = 1
    BY <2>1
  <2>7. Joined(x) \in Seq(Option)
    BY JoinedType
  <2> DEFINE a == Joined(x)
  <2>8. /\ Len(a \o l) = Len(a) + Len(l)
        /\ \A i \in 1 .. Len(a) + Len(l) : (a \o l)[i] = IF i <= Len(a) THEN a[i] ELSE l[i - Len(a)]
    BY <2>7, ConcatProperties
  <2>9. Len(a) = Len(x) /\ \A k \in 1 .. Len(x) : a[k] = x[k][1]
    BY <2>5
  <2>10. Joined(y) = a \o l
    BY <2>3
  <2> HIDE DEF a
  <2>11. Len(Joined(y)) = Len(y)
    BY <2>1, <2>6, <2>8, <2>9, <2>10
  <2>12. ASSUME NEW k \in 1 .. Len(y) PROVE Joined(y)[k] = y[k][1]
    <3>1. Joined(y)[k] = IF k <= Len(x) THEN a[k] ELSE l[k - Len(x)]
      BY <2>1, <2>6, <2>8, <2>9, <2>10
    <3>2. CASE k \in 1 .. Len(x)
      BY <2>1, <2>2, <2>9, <3>1, <3>2
    <3>3. CASE k = Len(x) + 1
      BY <2>1, <3>1, <3>3
    <3> QED
      BY <2>1, <3>2, <3>3
  <2> QED
    BY <2>11, <2>12
<1>3. Seq(Seq(Option)) \subseteq G
  <2> HIDE DEF G
  <2> QED
    BY <1>1, <1>2, AllSequences, Zenon
<1> QED
  BY <1>3

(* What build_arguments() hands over does to every part of the settings     *)
(* what the one list does that touches it, whatever the order of the lists. *)
LEMMA KeysOfConcat ==
  ASSUME NEW k, NEW x \in Seq(Option), NEW y \in Seq(Option),
         \A i \in 1 .. Len(x) : x[i].key # k, \A i \in 1 .. Len(y) : y[i].key # k
  PROVE  x \o y \in Seq(Option) /\ \A i \in 1 .. Len(x \o y) : (x \o y)[i].key # k
<1>1. x \o y \in Seq(Option) /\ Len(x \o y) = Len(x) + Len(y)
  BY ConcatProperties
<1>2. \A i \in 1 .. Len(x) + Len(y) : (x \o y)[i] = IF i <= Len(x) THEN x[i] ELSE y[i - Len(x)]
  BY ConcatProperties
<1>3. Len(x) \in Nat /\ Len(y) \in Nat
  BY SeqFacts, Zenon
<1>4. \A i \in 1 .. Len(x) + Len(y) : i \in 1 .. Len(x) \/ (~(i <= Len(x)) /\ i - Len(x) \in 1 .. Len(y))
  BY <1>3
<1>5. \A i \in 1 .. Len(x) : i <= Len(x)
  BY <1>3
<1> QED
  BY <1>1, <1>2, <1>4, <1>5

(* The lists joined one by one                                              *)
LEMMA JoinedSteps ==
  ASSUME NEW os \in Seq(Seq(Option))
  PROVE  \E g \in [0 .. Len(os) -> Seq(Option)] :
           /\ g[0] = <<>> /\ Joined(os) = g[Len(os)]
           /\ \A i \in 1 .. Len(os) : g[i] = g[i - 1] \o os[i]
<1>1. PICK g : IsFold(g, Seq(Option), Len(os), <<>>, JoinedStep(os)) /\ Joined(os) = g[Len(os)]
  BY JoinedFold
<1>2. /\ g \in [0 .. Len(os) -> Seq(Option)] /\ g[0] = <<>>
      /\ \A i \in 1 .. Len(os) : g[i] = JoinedStep(os)[i][g[i - 1]]
  BY <1>1 DEF IsFold
<1>3. ASSUME NEW i \in 1 .. Len(os) PROVE g[i] = g[i - 1] \o os[i]
  <2>1. Len(os) \in Nat
    BY SeqFacts, Zenon
  <2>2. i - 1 \in 0 .. Len(os)
    BY <2>1
  <2>3. g[i - 1] \in Seq(Option)
    BY <1>2, <2>2
  <2>4. JoinedStep(os)[i] = [x \in Seq(Option) |-> x \o os[i]]
    BY DEF JoinedStep
  <2>5. JoinedStep(os)[i][g[i - 1]] = g[i - 1] \o os[i]
    BY <2>3, <2>4
  <2> QED
    BY <1>2, <2>5
<1> QED
  BY <1>1, <1>2, <1>3

(* An order names every key once.                                           *)
LEMMA OrderFacts ==
  ASSUME NEW order \in Orders
  PROVE  /\ order \in Seq(Handed) /\ Len(order) = 4 /\ order \in [1 .. 4 -> Handed]
         /\ \A k \in Handed : \E i \in 1 .. 4 : order[i] = k /\ \A j \in 1 .. 4 : j # i => order[j] # k
<1>1. IsFiniteSet(Handed) /\ Cardinality(Handed) = 4
  <2>1. IsFiniteSet({}) /\ Cardinality({}) = 0
    BY FS_EmptySet
  <2> DEFINE A == {} \cup {"w"}
             B == A \cup {"o"}
             C == B \cup {"backslash"}
  <2>2. IsFiniteSet(A) /\ Cardinality(A) = 1
    BY <2>1, FS_AddElement
  <2>3. IsFiniteSet(B) /\ Cardinality(B) = 2
    <3>1. "o" \notin A
      OBVIOUS
    <3> HIDE DEF A
    <3> QED
      BY <2>2, <3>1, FS_AddElement
  <2>4. IsFiniteSet(C) /\ Cardinality(C) = 3
    <3>1. "backslash" \notin B
      OBVIOUS
    <3> HIDE DEF B
    <3> QED
      BY <2>3, <3>1, FS_AddElement
  <2>5. "caret" \notin C /\ Handed = C \cup {"caret"}
    BY DEF Handed
  <2> HIDE DEF C
  <2> QED
    BY <2>4, <2>5, FS_AddElement
<1>2. order \in [1 .. 4 -> Handed] /\ \A i, j \in 1 .. 4 : i # j => order[i] # order[j]
  BY <1>1 DEF Orders, SetToSeqs
<1>3. order \in Seq(Handed) /\ Len(order) = 4
  <2>1. \A m \in Nat : \A g \in [1 .. m -> Handed] : g \in Seq(Handed) /\ Len(g) = m
    BY SeqDef
  <2> QED
    BY <1>2, <2>1
<1>4. ASSUME NEW k \in Handed PROVE \E i \in 1 .. 4 : order[i] = k
  <2>1. /\ order[1] \in Handed /\ order[2] \in Handed /\ order[3] \in Handed /\ order[4] \in Handed
        /\ order[1] # order[2] /\ order[1] # order[3] /\ order[1] # order[4]
        /\ order[2] # order[3] /\ order[2] # order[4] /\ order[3] # order[4]
    BY <1>2
  <2>2. k = order[1] \/ k = order[2] \/ k = order[3] \/ k = order[4]
    BY <2>1 DEF Handed
  <2> QED
    BY <2>2
<1> QED
  BY <1>2, <1>3, <1>4

(* One list more: a part changes when it is the turn of its key.            *)
LEMMA OneList ==
  ASSUME NEW p \in ParsedType, OneKeyEach(p), NEW k \in Handed, Alone(p, k), NEW j \in Handed,
         NEW s \in SettingType, NEW t \in SettingType
  PROVE  /\ j # k => Part(Settings(t, p.options[j]), k) = Part(t, k)
         /\ j = k /\ Part(t, k) = Part(s, k)
              => Part(Settings(t, p.options[j]), k) = Part(Settings(s, p.options[k]), k)
<1> DEFINE a == p.options[j]
<1>1. a \in Seq(Option) /\ \A i \in 1 .. Len(a) : a[i].key = j
  BY KeptSeq, HandedKeys DEF OneKeyEach
<1>2. ASSUME j # k PROVE Part(Settings(t, a), k) = Part(t, k)
  <2>1. CASE Touches(j, k)
    <3>1. a = <<>>
      BY <1>2, <2>1 DEF Alone
    <3> QED
      BY <3>1, SettingsEmpty
  <2>2. CASE ~Touches(j, k)
    <3>1. \A i \in 1 .. Len(a) : ~Touches(a[i].key, k)
      BY <1>1, <2>2
    <3> HIDE DEF a
    <3> QED
      BY <1>1, <3>1, SettingsKeep
  <2> QED
    BY <2>1, <2>2
<1>3. ASSUME j = k, Part(t, k) = Part(s, k) PROVE Part(Settings(t, a), k) = Part(Settings(s, a), k)
  <2> HIDE DEF a
  <2> QED
    BY <1>1, <1>3, SettingsSame
<1> QED
  BY <1>2, <1>3

LEMMA OneOrder ==
  ASSUME NEW p \in ParsedType, OneKeyEach(p), NEW order \in Orders
  PROVE  /\ InOrder(order, p.options) \in Seq(Option)
         /\ \A i \in 1 .. Len(InOrder(order, p.options)) : InOrder(order, p.options)[i].key \in Handed
         /\ \A s \in SettingType, k \in Handed :
              Alone(p, k) => Part(Settings(s, InOrder(order, p.options)), k) = Part(Settings(s, p.options[k]), k)
<1> DEFINE os == [i \in 1 .. Len(order) |-> p.options[order[i]]]
           x == InOrder(order, p.options)
<1>1. /\ Len(order) = 4 /\ order \in [1 .. 4 -> Handed]
      /\ \A k \in Handed : \E i \in 1 .. 4 : order[i] = k /\ \A j \in 1 .. 4 : j # i => order[j] # k
  BY OrderFacts
<1>2. \A i \in 1 .. 4 : os[i] = p.options[order[i]] /\ os[i] \in Seq(Option)
  BY <1>1, KeptSeq, HandedKeys
<1>3. os \in Seq(Seq(Option)) /\ Len(os) = 4
  <2>1. os \in [1 .. 4 -> Seq(Option)]
    BY <1>1, <1>2
  <2>2. \A m \in Nat : \A g \in [1 .. m -> Seq(Option)] : g \in Seq(Seq(Option)) /\ Len(g) = m
    BY SeqDef
  <2> HIDE DEF os
  <2> QED
    BY <2>1, <2>2
<1>4. x = Joined(os)
  BY DEF InOrder
<1> HIDE DEF os, x
<1>5. PICK g \in [0 .. 4 -> Seq(Option)] : g[0] = <<>> /\ x = g[4] /\ \A i \in 1 .. 4 : g[i] = g[i - 1] \o os[i]
  BY <1>3, <1>4, JoinedSteps
<1>6. \A i \in 1 .. 4 : /\ g[i] = g[i - 1] \o os[i] /\ g[i - 1] \in Seq(Option) /\ g[i] \in Seq(Option)
  <2> SUFFICES ASSUME NEW i \in 1 .. 4 PROVE g[i - 1] \in Seq(Option) /\ g[i] \in Seq(Option)
    BY <1>5
  <2>1. i - 1 \in 0 .. 4 /\ i \in 0 .. 4
    OBVIOUS
  <2> QED
    BY <1>5, <2>1
<1>7. ASSUME NEW i \in 1 .. 4, NEW k, k \notin Handed PROVE \A j \in 1 .. Len(os[i]) : os[i][j].key # k
  <2>1. order[i] \in Handed /\ order[i] \in Keys
    BY <1>1, HandedKeys
  <2>2. os[i] = p.options[order[i]]
    BY <1>2
  <2>3. \A j \in 1 .. Len(p.options[order[i]]) : p.options[order[i]][j].key = order[i]
    BY <2>1, Zenon DEF OneKeyEach
  <2>4. order[i] # k
    BY <1>7, <2>1
  <2> QED
    BY <2>2, <2>3, <2>4
<1>8. ASSUME NEW k, k \notin Handed PROVE \A j \in 1 .. Len(x) : x[j].key # k
  <2>1. \A j \in 1 .. Len(g[0]) : g[0][j].key # k
    BY <1>5, EmptySeq
  <2>2. ASSUME NEW i \in 1 .. 4, \A j \in 1 .. Len(g[i - 1]) : g[i - 1][j].key # k
        PROVE  \A j \in 1 .. Len(g[i]) : g[i][j].key # k
    <3> DEFINE y == g[i - 1]
               z == os[i]
    <3>1. y \in Seq(Option) /\ z \in Seq(Option) /\ g[i] = y \o z
      BY <1>2, <1>6
    <3>2. /\ \A j \in 1 .. Len(y) : y[j].key # k
          /\ \A j \in 1 .. Len(z) : z[j].key # k
      BY <1>7, <1>8, <2>2
    <3> HIDE DEF y, z
    <3>3. \A j \in 1 .. Len(y \o z) : (y \o z)[j].key # k
      BY <3>1, <3>2, KeysOfConcat
    <3> QED
      BY <3>1, <3>3
  <2>3. 1 - 1 = 0 /\ 2 - 1 = 1 /\ 3 - 1 = 2 /\ 4 - 1 = 3
    OBVIOUS
  <2>4. \A j \in 1 .. Len(g[2]) : g[2][j].key # k
    <3>1. \A j \in 1 .. Len(g[1]) : g[1][j].key # k
      BY <2>1, <2>2, <2>3
    <3> QED
      BY <2>2, <2>3, <3>1
  <2>5. \A j \in 1 .. Len(g[4]) : g[4][j].key # k
    <3>1. \A j \in 1 .. Len(g[3]) : g[3][j].key # k
      BY <2>2, <2>3, <2>4
    <3> QED
      BY <2>2, <2>3, <3>1
  <2> QED
    BY <1>5, <2>5
<1>9. ASSUME NEW j \in 1 .. Len(x) PROVE x[j].key \in Handed
  <2>1. x[j].key # "T" /\ x[j].key # "sym"
    <3>1. "T" \notin Handed /\ "sym" \notin Handed
      BY DEF Handed
    <3> QED
      BY <1>8, <3>1
  <2>2. x[j] \in Option
    BY <1>5, <1>6, SeqFacts
  <2> QED
    BY <2>1, <2>2, OptionFacts DEF Handed
<1>10. ASSUME NEW s \in SettingType, NEW k \in Handed, Alone(p, k)
       PROVE  Part(Settings(s, x), k) = Part(Settings(s, p.options[k]), k)
  <2> DEFINE t(i) == Settings(s, g[i])
             end == Part(Settings(s, p.options[k]), k)
  <2>1. PICK i \in 1 .. 4 : order[i] = k /\ \A j \in 1 .. 4 : j # i => order[j] # k
    BY <1>1
  <2>2. t(0) = s
    BY <1>5, SettingsEmpty
  <2>3. \A n \in 0 .. 4 : t(n) \in SettingType
    BY <1>5, SettingsType
  <2>4. ASSUME NEW n \in 1 .. 4
        PROVE  /\ n # i => Part(t(n), k) = Part(t(n - 1), k)
               /\ n = i /\ Part(t(n - 1), k) = Part(s, k) => Part(t(n), k) = end
    <3>1. n - 1 \in 0 .. 4 /\ order[n] \in Handed
      BY <1>1
    <3>2. g[n - 1] \in Seq(Option) /\ os[n] \in Seq(Option) /\ t(n - 1) \in SettingType
      BY <1>2, <1>5, <2>3, <3>1
    <3>3. t(n) = Settings(t(n - 1), os[n])
      <4>1. g[n] = g[n - 1] \o os[n]
        BY <1>6
      <4>2. Settings(s, g[n - 1] \o os[n]) = Settings(Settings(s, g[n - 1]), os[n])
        BY <3>2, SettingsConcat
      <4> QED
        BY <4>1, <4>2
    <3>4. os[n] = p.options[order[n]]
      BY <1>2
    <3> DEFINE r == t(n - 1)
    <3>5. t(n) = Settings(r, p.options[order[n]]) /\ r \in SettingType
      BY <3>2, <3>3, <3>4
    <3> HIDE DEF r, t, end
    <3>6. /\ order[n] # k => Part(Settings(r, p.options[order[n]]), k) = Part(r, k)
          /\ order[n] = k /\ Part(r, k) = Part(s, k)
               => Part(Settings(r, p.options[order[n]]), k) = Part(Settings(s, p.options[k]), k)
      BY <1>10, <3>1, <3>5, OneList
    <3> QED
      BY <2>1, <3>5, <3>6 DEF r, end
  <2> HIDE DEF t, end
  <2>5. /\ 1 # i => Part(t(1), k) = Part(t(0), k)
        /\ 2 # i => Part(t(2), k) = Part(t(1), k)
        /\ 3 # i => Part(t(3), k) = Part(t(2), k)
        /\ 4 # i => Part(t(4), k) = Part(t(3), k)
        /\ 1 = i /\ Part(t(0), k) = Part(s, k) => Part(t(1), k) = end
        /\ 2 = i /\ Part(t(1), k) = Part(s, k) => Part(t(2), k) = end
        /\ 3 = i /\ Part(t(2), k) = Part(s, k) => Part(t(3), k) = end
        /\ 4 = i /\ Part(t(3), k) = Part(s, k) => Part(t(4), k) = end
    <3>1. 2 - 1 = 1 /\ 3 - 1 = 2 /\ 4 - 1 = 3 /\ 1 - 1 = 0
      OBVIOUS
    <3> QED
      BY <2>4, <3>1
  <2>6. Part(t(4), k) = end
    BY <2>1, <2>2, <2>5
  <2> QED
    BY <1>5, <2>6 DEF t, end
<1> QED
  BY <1>5, <1>6, <1>9, <1>10 DEF x

(* The definition handed over behind the options                            *)
LEMMA LastDefinition ==
  ASSUME NEW s \in SettingType, NEW x \in Seq(Option), \A i \in 1 .. Len(x) : x[i].key \in Handed,
         NEW d \in Option, d.key = "sym"
  PROVE  /\ Settings(s, x \o <<d>>).number = IF IsText(d) THEN s.number ELSE Value(d)
         /\ Settings(s, x \o <<d>>).text = IF IsText(d) /\ s.text = Undefined THEN Value(d) ELSE s.text
         /\ \A k \in Handed : Part(Settings(s, x \o <<d>>), k) = Part(Settings(s, x), k)
<1>1. x \o <<d>> = Append(x, d)
  BY AppendIsConcat, Zenon
<1> DEFINE t == Settings(s, x)
<1>2. Settings(s, Append(x, d)) = Apply(t, d) /\ t \in SettingType
  BY SettingsAppend, SettingsType
<1>3. \A i \in 1 .. Len(x) : x[i].key # "sym"
  BY DEF Handed
<1>4. t.number = s.number /\ t.text = s.text
  BY <1>3, SettingsKeep
<1> HIDE DEF t
<1>5. \A k \in Handed : ~Touches(d.key, k)
  BY TouchesFacts
<1>6. /\ Apply(t, d).number = IF IsText(d) THEN t.number ELSE Value(d)
      /\ Apply(t, d).text = IF IsText(d) /\ t.text = Undefined THEN Value(d) ELSE t.text
      /\ \A k \in Handed : Part(Apply(t, d), k) = Part(t, k)
  BY <1>2, <1>5, ApplyFacts
<1> QED
  BY <1>1, <1>2, <1>4, <1>6 DEF t

-----------------------------------------------------------------------------
(* The configuration files *)
LEMMA WordIsOption ==
  /\ Word \subseteq Option
  /\ \A l \in Seq(Word) \ {<<>>} : l \in Seq(Option) /\ WholeLine(l) \in Option
  /\ \A l \in Seq(Word) \ {<<>>} : Len(l) = 1 => WholeLine(l) = l[1]
<1>1. Word \subseteq Option /\ \A o \in Word : ~o.rest
  BY DEF Word
<1> SUFFICES ASSUME NEW l \in Seq(Word) \ {<<>>}
             PROVE  /\ l \in Seq(Option) /\ WholeLine(l) \in Option
                    /\ Len(l) = 1 => WholeLine(l) = l[1]
  BY <1>1
<1>2. l \in Seq(Option)
  BY <1>1, SeqMonotonic, Zenon
<1>3. l \in Seq(Word) /\ l # <<>>
  OBVIOUS
<1>4. Len(l) \in Nat \ {0}
  BY <1>3, EmptySeq
<1>5. 1 \in 1 .. Len(l)
  BY <1>4
<1>6. l[1] \in Word
  BY <1>3, <1>5, SeqFacts
<1> DEFINE a == l[1]
           r == Len(l) > 1
<1>7. a \in Option /\ a.rest = FALSE /\ r \in BOOLEAN
  BY <1>1, <1>6 DEF Option
<1>8. WholeLine(l) = [a EXCEPT !.rest = r]
  BY DEF WholeLine
<1>9. Len(l) = 1 => r = FALSE
  OBVIOUS
<1> HIDE DEF a, r
<1>10. [a EXCEPT !.rest = r] \in Option /\ (r = FALSE => [a EXCEPT !.rest = r] = a)
  BY <1>7 DEF Option
<1> QED
  BY <1>2, <1>8, <1>9, <1>10 DEF a

LEMMA FileFacts ==
  ASSUME NEW f \in ConfigFiles, f # NoFile
  PROVE  /\ f \in Seq(Seq(Option)) /\ LinesOf(f) \in Seq(Option) /\ Len(LinesOf(f)) = Len(f)
         /\ \A k \in 1 .. Len(f) : Len(f[k]) = 1 => LinesOf(f)[k] = f[k][1]
<1>1. f \in Seq(Seq(Word) \ {<<>>})
  BY TextAssumption
<1>2. Seq(Word) \ {<<>>} \subseteq Seq(Option)
  BY WordIsOption
<1>3. f \in Seq(Seq(Option))
  BY <1>1, <1>2, SeqMonotonic, Zenon
<1>4. Len(f) \in Nat /\ DOMAIN f = 1 .. Len(f)
  BY <1>1, LenProperties, Zenon
<1>5. \A k \in 1 .. Len(f) : f[k] \in Seq(Word) \ {<<>>}
  BY <1>1, SeqFacts
<1>6. LinesOf(f) = [k \in 1 .. Len(f) |-> WholeLine(f[k])]
  BY <1>4 DEF LinesOf
<1>7. \A k \in 1 .. Len(f) : WholeLine(f[k]) \in Option /\ (Len(f[k]) = 1 => WholeLine(f[k]) = f[k][1])
  BY <1>5, WordIsOption
<1>8. LinesOf(f) \in [1 .. Len(f) -> Option]
  BY <1>6, <1>7
<1>9. LinesOf(f) \in Seq(Option) /\ Len(LinesOf(f)) = Len(f)
  <2>1. \A n \in Nat : \A g \in [1 .. n -> Option] : g \in Seq(Option) /\ Len(g) = n
    BY SeqDef
  <2> QED
    BY <1>4, <1>8, <2>1
<1> QED
  BY <1>3, <1>6, <1>7, <1>9

(* The files the front end loads, as the options it reads from them         *)
Lines == [k \in DOMAIN Loaded |-> LinesOf(files[Loaded[k]])]
Present == \A k \in DOMAIN Loaded : files[Loaded[k]] # NoFile
ReadUpTo(j) == cmdline \o Joined(SubSeq(Lines, 1, j))

Parsed == [options |-> options, defs |-> defs]

(* Nothing has been refused and the front end is past its last file.        *)
Read == {"build", "setconfig", "coreconfig", "coreargs", "done"}

RequestInv == cmdline \in Seq(Word) /\ files \in [Configs -> ConfigFiles]

LoadInv ==
  \E j \in 0 .. Len(Loaded) :
    /\ configs \in Seq(Configs) /\ Len(configs) = Len(Loaded) - j
    /\ \A i \in 1 .. Len(configs) : configs[i] = Loaded[j + i]
    /\ Fits(Parsed, ReadUpTo(j))

ParserInv ==
  /\ pc = "parse" => Parsed = NothingParsed
  /\ pc = "resolve" => Fits(Parsed, cmdline)
  /\ pc = "load" => Present /\ LoadInv
  /\ pc \in Read => Present /\ Fits(Parsed, ReadUpTo(Len(Loaded)))

Listed == \E order \in Orders : args = InOrder(order, options) \o Definition

ArgumentsInv == pc \in Read \ {"build"} => Listed

CoreInv ==
  /\ pc \in {"parse", "resolve", "load", "build", "setconfig", "coreconfig"} => Core = Fresh
  /\ pc = "coreargs" => Core = Settings(Fresh, ConfigWords)
  /\ pc = "done" => Core = Settings(NameInput(Settings(Fresh, ConfigWords)), args)

PcInv == pc \in Read \cup {"parse", "resolve", "load", "refused", "undefined"}

SettingsInv == RequestInv /\ PcInv /\ ParserInv /\ ArgumentsInv /\ CoreInv

-----------------------------------------------------------------------------
LEMMA DefaultFacts ==
  ASSUME RequestInv
  PROVE  /\ DefaultConfig \in Seq(Configs)
         /\ DefaultConfig = <<>> \/ Len(DefaultConfig) = 1
         /\ \A k \in 1 .. Len(DefaultConfig) : files[DefaultConfig[k]] # NoFile
<1>1. "default" \in Configs /\ "pawn" \in Configs
  BY DEF Configs
<1>2. CASE files["default"] # NoFile
  <2>1. DefaultConfig = <<"default">>
    BY <1>2 DEF DefaultConfig
  <2> QED
    BY <1>1, <1>2, <2>1
<1>3. CASE files["default"] = NoFile /\ files["pawn"] # NoFile
  <2>1. DefaultConfig = <<"pawn">>
    BY <1>3 DEF DefaultConfig
  <2> QED
    BY <1>1, <1>3, <2>1
<1>4. CASE files["default"] = NoFile /\ files["pawn"] = NoFile
  <2>1. DefaultConfig = <<>>
    BY <1>4 DEF DefaultConfig
  <2> QED
    BY <2>1, EmptySeq
<1> QED
  BY <1>2, <1>3, <1>4

LEMMA GivenFinite ==
  ASSUME RequestInv, NEW k
  PROVE  IsFiniteSet(Given(k)) /\ Given(k) = KeyAt(cmdline, k) /\ Given(k) \subseteq 1 .. Len(cmdline)
         /\ DOMAIN cmdline = 1 .. Len(cmdline) /\ Len(cmdline) \in Nat
<1>1. DOMAIN cmdline = 1 .. Len(cmdline) /\ Len(cmdline) \in Nat
  BY LenProperties, Zenon DEF RequestInv
<1>2. Given(k) \subseteq 1 .. Len(cmdline)
  BY <1>1 DEF Given
<1>3. IsFiniteSet(1 .. Len(cmdline))
  BY <1>1, FS_Interval
<1> QED
  BY <1>1, <1>2, <1>3, FS_Subset DEF Given, KeyAt

LEMMA LoadedFacts ==
  ASSUME RequestInv
  PROVE  /\ Loaded \in Seq(Configs) /\ Len(Loaded) \in Nat /\ DOMAIN Loaded = 1 .. Len(Loaded)
         /\ Given("T") # {} => /\ Len(Loaded) = Cardinality(Given("T"))
                               /\ \A k \in 1 .. Len(Loaded) : Loaded[k] = "custom"
         /\ Given("T") = {} => Loaded = DefaultConfig
<1>1. CASE Given("T") # {}
  <2> DEFINE n == Cardinality(Given("T"))
  <2>1. n \in Nat
    BY GivenFinite, FS_CardinalityType
  <2>2. Loaded = [k \in 1 .. n |-> "custom"]
    BY <1>1 DEF Loaded
  <2> HIDE DEF n
  <2>3. "custom" \in Configs
    BY DEF Configs
  <2>4. Loaded \in Seq(Configs) /\ Len(Loaded) = n
    <3>1. \A m \in Nat : \A g \in [1 .. m -> Configs] : g \in Seq(Configs) /\ Len(g) = m
      BY SeqDef
    <3>2. Loaded \in [1 .. n -> Configs]
      BY <2>2, <2>3
    <3> QED
      BY <2>1, <3>1, <3>2
  <2> QED
    BY <1>1, <2>1, <2>2, <2>4 DEF n
<1>2. CASE Given("T") = {}
  <2>1. Loaded = DefaultConfig
    BY <1>2 DEF Loaded
  <2>2. DefaultConfig \in Seq(Configs)
    BY DefaultFacts
  <2> QED
    BY <1>2, <2>1, <2>2, LenProperties
<1> QED
  BY <1>1, <1>2

LEMMA LinesFacts ==
  ASSUME RequestInv, Present
  PROVE  /\ Lines \in Seq(Seq(Option)) /\ Len(Lines) = Len(Loaded)
         /\ \A k \in 1 .. Len(Loaded) : Lines[k] = LinesOf(files[Loaded[k]])
<1>1. Loaded \in Seq(Configs) /\ Len(Loaded) \in Nat /\ DOMAIN Loaded = 1 .. Len(Loaded)
  BY LoadedFacts
<1>2. ASSUME NEW k \in 1 .. Len(Loaded) PROVE LinesOf(files[Loaded[k]]) \in Seq(Option)
  <2>1. Loaded[k] \in Configs
    BY <1>1, SeqFacts
  <2>2. files[Loaded[k]] \in ConfigFiles /\ files[Loaded[k]] # NoFile
    BY <1>1, <2>1 DEF RequestInv, Present
  <2> QED
    BY <2>2, FileFacts
<1>3. Lines = [k \in 1 .. Len(Loaded) |-> LinesOf(files[Loaded[k]])]
  BY <1>1 DEF Lines
<1>4. Lines \in [1 .. Len(Loaded) -> Seq(Option)]
  BY <1>2, <1>3
<1>5. \A m \in Nat : \A g \in [1 .. m -> Seq(Option)] : g \in Seq(Seq(Option)) /\ Len(g) = m
  BY SeqDef
<1> QED
  BY <1>1, <1>3, <1>4, <1>5

LEMMA ReadType ==
  ASSUME RequestInv, Present, NEW j \in 0 .. Len(Loaded)
  PROVE  /\ cmdline \in Seq(Option) /\ SubSeq(Lines, 1, j) \in Seq(Seq(Option))
         /\ ReadUpTo(j) \in Seq(Option)
<1>1. cmdline \in Seq(Option)
  BY WordIsOption, SeqMonotonic, Zenon DEF RequestInv
<1>2. Lines \in Seq(Seq(Option)) /\ Len(Lines) = Len(Loaded) /\ Len(Loaded) \in Nat
  BY LinesFacts, LoadedFacts
<1>3. \A i \in 1 .. j : Lines[i] \in Seq(Option)
  <2>1. \A i \in 1 .. j : i \in 1 .. Len(Lines)
    BY <1>2
  <2>2. \A i \in 1 .. Len(Lines) : Lines[i] \in Seq(Option)
    BY <1>2, SeqFacts
  <2> QED
    BY <2>1, <2>2
<1>4. SubSeq(Lines, 1, j) \in Seq(Seq(Option))
  <2>1. 1 \in Int /\ j \in Int
    BY <1>2
  <2> QED
    BY <1>3, <2>1, SubSeqProperties
<1>5. Joined(SubSeq(Lines, 1, j)) \in Seq(Option)
  BY <1>4, JoinedType
<1> QED
  BY <1>1, <1>4, <1>5, ConcatProperties DEF ReadUpTo

LEMMA ReadNone ==
  ASSUME RequestInv
  PROVE  ReadUpTo(0) = cmdline
<1>1. SubSeq(Lines, 1, 0) = <<>>
  BY SubSeqEmpty
<1>2. Joined(<<>>) = <<>>
  BY JoinedFacts, Zenon
<1>3. cmdline \o <<>> = cmdline
  BY ConcatEmptySeq DEF RequestInv
<1> QED
  BY <1>1, <1>2, <1>3 DEF ReadUpTo

(* One more file                                                            *)
LEMMA ReadNext ==
  ASSUME RequestInv, Present, NEW j \in 0 .. Len(Loaded), j # Len(Loaded)
  PROVE  /\ LinesOf(files[Loaded[j + 1]]) \in Seq(Option)
         /\ ReadUpTo(j + 1) = ReadUpTo(j) \o LinesOf(files[Loaded[j + 1]])
<1>1. Lines \in Seq(Seq(Option)) /\ Len(Lines) = Len(Loaded) /\ Len(Loaded) \in Nat
  BY LinesFacts, LoadedFacts
<1>2. j + 1 \in 1 .. Len(Lines) /\ 1 \in 1 .. Len(Lines) /\ j + 1 \in 1 .. Len(Loaded) /\ (j + 1) - 1 = j
      /\ j + 1 \in 1 .. j + 1
  BY <1>1
<1> DEFINE l == Lines[j + 1]
           ls == SubSeq(Lines, 1, j)
<1>3. l \in Seq(Option)
  BY <1>1, <1>2, SeqFacts
<1>4. l = LinesOf(files[Loaded[j + 1]])
  BY <1>2, LinesFacts
<1>5. ls \in Seq(Seq(Option)) /\ cmdline \in Seq(Option)
  BY ReadType
<1>6. SubSeq(Lines, 1, j + 1) = ls \o <<l>>
  <2>1. SubSeq(Lines, 1, j + 1) = SubSeq(Lines, 1, (j + 1) - 1) \o <<Lines[j + 1]>>
    BY <1>1, <1>2, SubSeqRecursiveSecond
  <2> QED
    BY <1>2, <2>1
<1> HIDE DEF l, ls
<1>7. ls \o <<l>> = Append(ls, l)
  BY <1>3, <1>5, AppendIsConcat
<1>8. Joined(Append(ls, l)) = Joined(ls) \o l
  BY <1>3, <1>5, JoinedAppend
<1>9. Joined(ls) \in Seq(Option)
  BY <1>5, JoinedType
<1>10. (cmdline \o Joined(ls)) \o l = cmdline \o (Joined(ls) \o l)
  BY <1>3, <1>5, <1>9, ConcatAssociative
<1>11. ReadUpTo(j) = cmdline \o Joined(ls)
  BY DEF ReadUpTo, ls
<1>12. ReadUpTo(j + 1) = cmdline \o Joined(SubSeq(Lines, 1, j + 1))
  BY DEF ReadUpTo
<1> QED
  BY <1>3, <1>4, <1>6, <1>7, <1>8, <1>10, <1>11, <1>12

LEMMA ConfigWordsType ==
  ASSUME RequestInv
  PROVE  ConfigWords \in Seq(Option)
<1>1. CASE DefaultConfig = <<>>
  BY <1>1, EmptySeq DEF ConfigWords
<1>2. CASE DefaultConfig # <<>>
  <2>1. Len(DefaultConfig) = 1 /\ DefaultConfig \in Seq(Configs) /\ 1 \in 1 .. 1
    BY <1>2, DefaultFacts
  <2>2. DefaultConfig[1] \in Configs /\ files[DefaultConfig[1]] # NoFile
    BY <2>1, DefaultFacts, SeqFacts
  <2>3. files[DefaultConfig[1]] \in ConfigFiles
    BY <2>2 DEF RequestInv
  <2>4. files[DefaultConfig[1]] \in Seq(Seq(Option))
    BY <2>2, <2>3, FileFacts
  <2> QED
    BY <1>2, <2>4, JoinedType DEF ConfigWords, WordsOf
<1> QED
  BY <1>1, <1>2

LEMMA FreshType == Fresh \in SettingType
<1>1. Empty \in Values
  BY DEF Values
<1> QED
  BY <1>1 DEF Fresh, SettingType

LEMMA NameInputFacts ==
  ASSUME NEW s \in SettingType
  PROVE  /\ NameInput(s) \in SettingType
         /\ NameInput(s).name = IF s.name = Empty THEN NoName ELSE s.name
         /\ NameInput(s).off = s.off /\ NameInput(s).ctrl = s.ctrl
         /\ NameInput(s).number = s.number /\ NameInput(s).text = s.text
<1> DEFINE n == IF s.name = Empty THEN NoName ELSE s.name
<1>1. n \in Values
  BY DEF Values, SettingType
<1>2. NameInput(s) = [s EXCEPT !.name = n]
  BY DEF NameInput
<1> HIDE DEF n
<1> QED
  BY <1>1, <1>2 DEF SettingType, n

LEMMA ParsedSteps ==
  ASSUME NEW os, Collected(Parsed, os) \in ParsedType
  PROVE  Parse(os) => Parsed' = Collected(Parsed, os)
<1> DEFINE p == Collected(Parsed, os)
<1>1. p = [options |-> p.options, defs |-> p.defs]
  BY DEF ParsedType
<1>2. Parse(os) => options' = p.options /\ defs' = p.defs
  BY DEF Parse, Parsed
<1> HIDE DEF p
<1>3. Parse(os) => Parsed' = p
  BY <1>1, <1>2 DEF Parsed
<1> QED
  BY <1>3 DEF p

LEMMA CoreSteps ==
  ASSUME NEW s0, NEW os, Settings(s0, os) \in SettingType
  PROVE  ParseOptions(s0, os) => Core' = Settings(s0, os)
<1> DEFINE s == Settings(s0, os)
<1>1. s = [name |-> s.name, off |-> s.off, ctrl |-> s.ctrl, number |-> s.number, text |-> s.text]
  BY DEF SettingType
<1>2. ParseOptions(s0, os) =>
        /\ oname' = s.name /\ warnoff' = s.off /\ ctrl' = s.ctrl
        /\ number' = s.number /\ text' = s.text
  BY DEF ParseOptions
<1> HIDE DEF s
<1>3. ParseOptions(s0, os) => Core' = s
  BY <1>1, <1>2 DEF Core
<1> QED
  BY <1>3 DEF s

LEMMA InitHolds ==
  ASSUME Init
  PROVE  SettingsInv
<1>1. cmdline \in CommandLines /\ files \in [Configs -> ConfigFiles] /\ pc = "parse"
  BY DEF Init
<1>2. RequestInv
  BY <1>1, TextAssumption DEF RequestInv
<1>3. Parsed = NothingParsed /\ Core = Fresh
  BY DEF Init, Parsed, NothingParsed, Core, Fresh
<1>4. PcInv /\ ParserInv /\ ArgumentsInv /\ CoreInv
  BY <1>1, <1>3 DEF PcInv, ParserInv, ArgumentsInv, CoreInv, Read
<1> QED
  BY <1>2, <1>4 DEF SettingsInv

(* What follows from the request stays when the request does.               *)
LEMMA SameRequest ==
  ASSUME UNCHANGED <<cmdline, files, rooted>>
  PROVE  /\ RequestInv => RequestInv'
         /\ DefaultConfig' = DefaultConfig /\ Loaded' = Loaded /\ Lines' = Lines
         /\ (Present <=> Present') /\ ConfigWords' = ConfigWords
         /\ \A j : ReadUpTo(j)' = ReadUpTo(j)
<1>1. DefaultConfig' = DefaultConfig
  BY DEF DefaultConfig
<1>2. \A k : Given(k)' = Given(k)
  BY DEF Given
<1>3. Loaded' = Loaded
  BY <1>1, <1>2 DEF Loaded
<1>4. Lines' = Lines /\ (Present <=> Present')
  BY <1>3 DEF Lines, Present
<1>5. ConfigWords' = ConfigWords
  BY <1>1 DEF ConfigWords
<1>6. \A j : ReadUpTo(j)' = ReadUpTo(j)
  BY <1>4 DEF ReadUpTo
<1> QED
  BY <1>1, <1>3, <1>4, <1>5, <1>6 DEF RequestInv

LEMMA ParseCommandLineKeeps ==
  ASSUME SettingsInv, UNCHANGED <<cmdline, files, rooted>>, ParseCommandLine
  PROVE  SettingsInv'
<1>1. RequestInv'
  BY SameRequest DEF SettingsInv
<1>2. pc = "parse" /\ pc' = "resolve" /\ Parse(cmdline) /\ UNCHANGED core
  BY DEF ParseCommandLine
<1>3. Parsed = NothingParsed /\ Core = Fresh
  BY <1>2 DEF SettingsInv, ParserInv, CoreInv
<1>4. cmdline \in Seq(Option)
  BY WordIsOption, SeqMonotonic, Zenon DEF SettingsInv, RequestInv
<1>5. Fits(Collected(Parsed, cmdline), <<>> \o cmdline)
  BY <1>3, <1>4, FitsNothing, FitsCollected, EmptySeq
<1>6. <<>> \o cmdline = cmdline
  BY <1>4, ConcatEmptySeq, Zenon
<1>7. Fits(Collected(Parsed, cmdline), cmdline)
  BY <1>5, <1>6
<1>8. Parsed' = Collected(Parsed, cmdline)
  <2>1. Collected(Parsed, cmdline) \in ParsedType
    BY <1>7 DEF Fits
  <2> QED
    BY <1>2, <2>1, ParsedSteps
<1>9. Fits(Parsed', cmdline')
  BY <1>7, <1>8
<1>10. Core' = Fresh
  BY <1>2, <1>3 DEF Core, core
<1> QED
  BY <1>1, <1>2, <1>9, <1>10 DEF SettingsInv, PcInv, ParserInv, ArgumentsInv, CoreInv, Read

LEMMA ResolveConfigsKeeps ==
  ASSUME SettingsInv, UNCHANGED <<cmdline, files, rooted>>, ResolveConfigs
  PROVE  SettingsInv'
<1> USE DEF SettingsInv
<1>1. RequestInv /\ RequestInv'
  BY SameRequest
<1>2. pc = "resolve" /\ pc' = "load" /\ UNCHANGED <<options, defs, args, core>>
  BY DEF ResolveConfigs
<1>3. Fits(Parsed, cmdline) /\ Core = Fresh
  BY <1>2 DEF ParserInv, CoreInv
<1>4. Parsed' = Parsed /\ Core' = Core
  BY <1>2 DEF Parsed, Core, core
<1>5. "T" \in Keys /\ Parsed \in ParsedType
  BY <1>3, HandedKeys DEF Fits
<1> DEFINE ts == options["T"]
<1>6. Parsed.options["T"] = ts
  BY DEF Parsed
<1>7. ts \in Seq(Option)
  BY <1>5, <1>6, KeptSeq
<1>8. Len(ts) = Cardinality(Given("T")) /\ IsFiniteSet(Given("T"))
  BY <1>1, <1>3, <1>6, GivenFinite DEF Fits, Counted
<1>9. DOMAIN ts = 1 .. Len(ts) /\ Len(ts) \in Nat
  BY <1>7, LenProperties, Zenon
<1>10. ts = <<>> <=> Given("T") = {}
  <2>1. ts = <<>> => Len(ts) = 0
    BY EmptySeq
  <2>2. ts # <<>> => Len(ts) # 0
    BY <1>7, EmptySeq
  <2>3. Given("T") = {} => Cardinality(Given("T")) = 0
    BY FS_EmptySet
  <2>4. Cardinality(Given("T")) = 0 => Given("T") = {}
    BY <1>8, FS_EmptySet
  <2> QED
    BY <1>8, <2>1, <2>2, <2>3, <2>4
<1>11. configs' = Loaded /\ Present
  <2>1. CASE ts = <<>>
    <3>1. configs' = DefaultConfig
      BY <2>1 DEF ResolveConfigs
    <3>2. Loaded = DefaultConfig
      BY <1>1, <1>10, <2>1, LoadedFacts
    <3>3. Present
      <4>1. DOMAIN Loaded = 1 .. Len(DefaultConfig)
        BY <1>1, <3>2, LoadedFacts
      <4> QED
        BY <1>1, <3>2, <4>1, DefaultFacts DEF Present
    <3> QED
      BY <3>1, <3>2, <3>3
  <2>2. CASE ts # <<>>
    <3>1. /\ \A k \in DOMAIN ts : ts[k].val = "custom" /\ files["custom"] # NoFile
          /\ configs' = [k \in DOMAIN ts |-> "custom"]
      BY <2>2 DEF ResolveConfigs
    <3>2. Loaded = [k \in 1 .. Cardinality(Given("T")) |-> "custom"]
      BY <1>10, <2>2 DEF Loaded
    <3>3. configs' = Loaded
      BY <1>8, <1>9, <3>1, <3>2
    <3>4. 1 \in DOMAIN ts
      BY <1>7, <1>9, <2>2, EmptySeq
    <3>5. files["custom"] # NoFile
      BY <3>1, <3>4
    <3>6. Present
      BY <3>2, <3>5 DEF Present
    <3> QED
      BY <3>3, <3>6
  <2> QED
    BY <2>1, <2>2
<1>12. Loaded' = Loaded /\ Present' /\ ReadUpTo(0)' = cmdline
  BY <1>1, <1>11, SameRequest, ReadNone
<1>13. LoadInv'
  <2>1. Loaded \in Seq(Configs) /\ Len(Loaded) \in Nat
    BY <1>1, LoadedFacts
  <2>2. 0 \in 0 .. Len(Loaded) /\ Len(Loaded) = Len(Loaded) - 0 /\ \A i \in 1 .. Len(Loaded) : 0 + i = i
    BY <2>1
  <2>3. configs' \in Seq(Configs) /\ Len(configs') = Len(Loaded') - 0 /\ 0 \in 0 .. Len(Loaded')
    BY <1>11, <1>12, <2>1, <2>2
  <2>4. \A i \in 1 .. Len(configs') : configs'[i] = Loaded'[0 + i]
    BY <1>11, <1>12, <2>2
  <2>5. Fits(Parsed', ReadUpTo(0)')
    BY <1>3, <1>4, <1>12
  <2> QED
    BY <2>3, <2>4, <2>5 DEF LoadInv
<1>14. ParserInv'
  BY <1>2, <1>12, <1>13 DEF ParserInv, Read
<1>15. PcInv' /\ ArgumentsInv' /\ CoreInv'
  BY <1>2, <1>3, <1>4 DEF PcInv, ArgumentsInv, CoreInv, Read
<1> QED
  BY <1>1, <1>14, <1>15

LEMMA RefuseConfigKeeps ==
  ASSUME SettingsInv, UNCHANGED <<cmdline, files, rooted>>, RefuseConfig
  PROVE  SettingsInv'
<1>1. RequestInv'
  BY SameRequest DEF SettingsInv
<1>2. pc' = "refused"
  BY DEF RefuseConfig, Refuse
<1> QED
  BY <1>1, <1>2 DEF SettingsInv, PcInv, ParserInv, ArgumentsInv, CoreInv, Read

LEMMA LoadConfigKeeps ==
  ASSUME SettingsInv, UNCHANGED <<cmdline, files, rooted>>, LoadConfig
  PROVE  SettingsInv'
<1> USE DEF SettingsInv
<1>1. RequestInv /\ RequestInv'
  BY SameRequest
<1>2. /\ pc = "load" /\ pc' = "load" /\ configs # <<>> /\ configs' = Tail(configs) /\ UNCHANGED core
      /\ Parse(LinesOf(files[Head(configs)]))
  BY DEF LoadConfig
<1>3. Present /\ LoadInv /\ Core = Fresh
  BY <1>2 DEF ParserInv, CoreInv
<1>4. PICK j \in 0 .. Len(Loaded) :
        /\ configs \in Seq(Configs) /\ Len(configs) = Len(Loaded) - j
        /\ \A i \in 1 .. Len(configs) : configs[i] = Loaded[j + i]
        /\ Fits(Parsed, ReadUpTo(j))
  BY <1>3 DEF LoadInv
<1>5. Len(Loaded) \in Nat /\ Len(configs) \in Nat \ {0}
  BY <1>1, <1>2, <1>4, LoadedFacts, EmptySeq
<1>6. j # Len(Loaded) /\ j + 1 \in 0 .. Len(Loaded) /\ 1 \in 1 .. Len(configs)
  BY <1>4, <1>5
<1>7. Head(configs) = Loaded[j + 1]
  <2>1. Head(configs) = configs[1]
    <3>1. SubSeq(configs, 1, Len(configs)) = configs
      BY <1>4, SubSeqFull, Zenon
    <3>2. Len(configs) \in 1 .. Len(configs)
      BY <1>5
    <3>3. Head(SubSeq(configs, 1, Len(configs))) = configs[1]
      BY <1>4, <1>6, <3>2, HeadTailOfSubSeq
    <3> QED
      BY <3>1, <3>3
  <2> QED
    BY <1>4, <1>6, <2>1
<1> DEFINE l == LinesOf(files[Loaded[j + 1]])
<1>8. l \in Seq(Option) /\ ReadUpTo(j + 1) = ReadUpTo(j) \o l /\ ReadUpTo(j) \in Seq(Option)
  BY <1>1, <1>3, <1>6, ReadNext, ReadType
<1>9. Parse(l)
  BY <1>2, <1>7
<1> HIDE DEF l
<1>10. Fits(Collected(Parsed, l), ReadUpTo(j + 1))
  BY <1>4, <1>8, FitsCollected
<1>11. Parsed' = Collected(Parsed, l)
  <2>1. Collected(Parsed, l) \in ParsedType
    BY <1>10 DEF Fits
  <2> QED
    BY <1>9, <2>1, ParsedSteps
<1>12. /\ configs' \in Seq(Configs) /\ Len(configs') = Len(Loaded) - (j + 1)
       /\ \A i \in 1 .. Len(configs') : configs'[i] = Loaded[(j + 1) + i]
  <2>1. /\ configs' \in Seq(Configs) /\ Len(configs') = Len(configs) - 1
        /\ \A i \in 1 .. Len(configs') : configs'[i] = configs[i + 1]
    BY <1>2, <1>4, HeadTailProperties
  <2>2. ASSUME NEW i \in 1 .. Len(configs') PROVE configs'[i] = Loaded[(j + 1) + i]
    <3>1. i + 1 \in 1 .. Len(configs) /\ j + (i + 1) = (j + 1) + i
      BY <1>5, <2>1
    <3> QED
      BY <1>4, <2>1, <3>1
  <2>3. Len(configs) - 1 = Len(Loaded) - (j + 1)
    BY <1>4, <1>5
  <2> QED
    BY <2>1, <2>2, <2>3
<1>13. Loaded' = Loaded /\ Present' /\ ReadUpTo(j + 1)' = ReadUpTo(j + 1)
  BY <1>3, SameRequest
<1>14. LoadInv'
  <2>1. Fits(Parsed', ReadUpTo(j + 1)')
    BY <1>10, <1>11, <1>13
  <2> QED
    BY <1>6, <1>12, <1>13, <2>1 DEF LoadInv
<1>15. ParserInv'
  BY <1>2, <1>13, <1>14 DEF ParserInv, Read
<1>16. Core' = Core
  BY <1>2 DEF Core, core
<1>17. PcInv' /\ ArgumentsInv' /\ CoreInv'
  BY <1>2, <1>3, <1>16 DEF PcInv, ArgumentsInv, CoreInv, Read
<1> QED
  BY <1>1, <1>15, <1>17

LEMMA ConfigsLoadedKeeps ==
  ASSUME SettingsInv, UNCHANGED <<cmdline, files, rooted>>, ConfigsLoaded
  PROVE  SettingsInv'
<1> USE DEF SettingsInv
<1>1. RequestInv /\ RequestInv'
  BY SameRequest
<1>2. pc = "load" /\ pc' = "build" /\ configs = <<>> /\ UNCHANGED <<front, core>>
  BY DEF ConfigsLoaded
<1>3. Present /\ LoadInv /\ Core = Fresh
  BY <1>2 DEF ParserInv, CoreInv
<1>4. PICK j \in 0 .. Len(Loaded) : Len(configs) = Len(Loaded) - j /\ Fits(Parsed, ReadUpTo(j))
  BY <1>3 DEF LoadInv
<1>5. Len(configs) = 0 /\ Len(Loaded) \in Nat
  BY <1>1, <1>2, LoadedFacts, EmptySeq
<1>6. j = Len(Loaded)
  BY <1>4, <1>5
<1>7. Fits(Parsed, ReadUpTo(Len(Loaded)))
  BY <1>4, <1>6
<1>8. Parsed' = Parsed /\ Core' = Core
  BY <1>2 DEF Parsed, Core, front, core
<1>9. Loaded' = Loaded /\ Present' /\ ReadUpTo(Len(Loaded))' = ReadUpTo(Len(Loaded))
  <2>1. Loaded' = Loaded /\ Lines' = Lines /\ Present'
    BY <1>3, SameRequest
  <2> QED
    BY <2>1 DEF ReadUpTo
<1>10. Fits(Parsed', ReadUpTo(Len(Loaded))')
  BY <1>7, <1>8, <1>9
<1>11. ParserInv'
  BY <1>2, <1>9, <1>10 DEF ParserInv, Read
<1>12. PcInv' /\ ArgumentsInv' /\ CoreInv'
  BY <1>2, <1>3, <1>8 DEF PcInv, ArgumentsInv, CoreInv, Read
<1> QED
  BY <1>1, <1>11, <1>12

(* What stays of a front end that has read everything                       *)
LEMMA ReadStays ==
  ASSUME SettingsInv, UNCHANGED <<cmdline, files, rooted>>, UNCHANGED <<options, defs>>, pc \in Read
  PROVE  RequestInv' /\ Present' /\ Fits(Parsed, ReadUpTo(Len(Loaded)))'
<1>1. Parsed' = Parsed
  BY DEF Parsed
<1>2. Loaded' = Loaded /\ Lines' = Lines /\ (Present <=> Present') /\ RequestInv'
  BY SameRequest DEF SettingsInv
<1>3. Present /\ Fits(Parsed, ReadUpTo(Len(Loaded)))
  BY DEF SettingsInv, ParserInv
<1>4. ReadUpTo(Len(Loaded))' = ReadUpTo(Len(Loaded))
  BY <1>2 DEF ReadUpTo
<1> QED
  BY <1>1, <1>2, <1>3, <1>4

LEMMA ListedStays ==
  ASSUME UNCHANGED <<options, defs, args>>
  PROVE  Listed <=> Listed'
<1>1. Definition' = Definition
  BY DEF Definition
<1>2. \A order : InOrder(order, options)' = InOrder(order, options)
  BY DEF InOrder
<1> QED
  BY <1>1, <1>2 DEF Listed

LEMMA BuildArgumentsKeeps ==
  ASSUME SettingsInv, UNCHANGED <<cmdline, files, rooted>>, BuildArguments
  PROVE  SettingsInv'
<1> USE DEF SettingsInv
<1>1. /\ pc = "build" /\ pc' = "setconfig" /\ UNCHANGED <<configs, options, defs, core>>
      /\ \E order \in Orders : args' = InOrder(order, options) \o Definition
  BY DEF BuildArguments
<1>2. RequestInv' /\ Present' /\ Fits(Parsed, ReadUpTo(Len(Loaded)))'
  BY <1>1, ReadStays DEF Read
<1>3. Listed'
  <2>1. Definition' = Definition /\ options' = options
    BY <1>1 DEF Definition
  <2>2. \A order : InOrder(order, options)' = InOrder(order, options)
    BY <2>1 DEF InOrder
  <2> QED
    BY <1>1, <2>1, <2>2 DEF Listed
<1>4. Core = Fresh /\ Core' = Core
  BY <1>1 DEF CoreInv, Core, core
<1>5. ParserInv'
  BY <1>1, <1>2 DEF ParserInv
<1> QED
  BY <1>1, <1>2, <1>3, <1>4, <1>5 DEF PcInv, ArgumentsInv, CoreInv, Read

LEMMA SetConfigKeeps ==
  ASSUME SettingsInv, UNCHANGED <<cmdline, files, rooted>>, SetConfig
  PROVE  SettingsInv'
<1> USE DEF SettingsInv
<1>1. pc = "setconfig" /\ pc' \in {"coreconfig", "undefined"} /\ UNCHANGED <<front, core>>
  BY DEF SetConfig
<1>2. UNCHANGED <<options, defs, args>>
  BY <1>1 DEF front
<1>3. RequestInv' /\ Present' /\ Fits(Parsed, ReadUpTo(Len(Loaded)))'
  BY <1>1, <1>2, ReadStays DEF Read
<1>4. Listed'
  BY <1>1, <1>2, ListedStays DEF ArgumentsInv, Read
<1>5. Core = Fresh /\ Core' = Core
  BY <1>1 DEF CoreInv, Core, core
<1>6. ParserInv'
  BY <1>1, <1>3 DEF ParserInv
<1> QED
  BY <1>1, <1>3, <1>4, <1>5, <1>6 DEF PcInv, ArgumentsInv, CoreInv, Read

(* What the arguments do, in whichever order they are listed                *)
LEMMA ListedDoes ==
  ASSUME NEW bs, Fits(Parsed, bs), Listed, NEW s \in SettingType
  PROVE  /\ args \in Seq(Option) /\ \A i \in 1 .. Len(args) : args[i].key # "T"
         /\ \A k \in Handed : Alone(Parsed, k) => Part(Settings(s, args), k) = Part(Settings(s, options[k]), k)
         /\ defs # Undefined => /\ ~IsText(defs) => Settings(s, args).number = Value(defs)
                                /\ Settings(s, args).text =
                                     IF IsText(defs) /\ s.text = Undefined THEN Value(defs) ELSE s.text
<1> DEFINE d == Definition
<1>1. Parsed \in ParsedType /\ OneKeyEach(Parsed) /\ FirstDefinition(Parsed, bs)
  BY DEF Fits
<1>2. Parsed.options = options /\ Parsed.defs = defs
  BY DEF Parsed
<1>3. PICK order \in Orders : args = InOrder(order, options) \o d
  BY DEF Listed
<1> DEFINE x == InOrder(order, options)
<1>4. /\ x \in Seq(Option) /\ \A i \in 1 .. Len(x) : x[i].key \in Handed
      /\ \A k \in Handed : Alone(Parsed, k) => Part(Settings(s, x), k) = Part(Settings(s, options[k]), k)
  <2>1. InOrder(order, Parsed.options) = x
    BY <1>2
  <2> HIDE DEF x
  <2>2. /\ InOrder(order, Parsed.options) \in Seq(Option)
        /\ \A i \in 1 .. Len(InOrder(order, Parsed.options)) : InOrder(order, Parsed.options)[i].key \in Handed
        /\ \A k \in Handed : Alone(Parsed, k) =>
             Part(Settings(s, InOrder(order, Parsed.options)), k) = Part(Settings(s, Parsed.options[k]), k)
    BY <1>1, OneOrder
  <2> QED
    BY <1>2, <2>1, <2>2
<1> HIDE DEF x
<1>5. \A i \in 1 .. Len(x) : x[i].key # "T"
  BY <1>4 DEF Handed
<1>6. CASE defs = Undefined
  <2>1. args = x
    <3>1. d = <<>>
      BY <1>6 DEF Definition
    <3> QED
      BY <1>3, <1>4, <3>1, ConcatEmptySeq DEF x
  <2> QED
    BY <1>4, <1>5, <1>6, <2>1
<1>7. CASE defs # Undefined
  <2>1. defs \in Option /\ defs.key = "sym" /\ d = <<defs>>
    BY <1>1, <1>2, <1>7 DEF FirstDefinition, ParsedType, Definition
  <2> HIDE DEF d
  <2>2. args = x \o <<defs>>
    BY <1>3, <2>1 DEF x
  <2>3. <<defs>> \in Seq(Option) /\ Len(<<defs>>) = 1 /\ <<defs>>[1] = defs
    BY <2>1
  <2>4. \A i \in 1 .. Len(<<defs>>) : <<defs>>[i].key # "T"
    BY <2>1, <2>3
  <2>5. args \in Seq(Option) /\ \A i \in 1 .. Len(args) : args[i].key # "T"
    BY <1>4, <1>5, <2>2, <2>3, <2>4, KeysOfConcat
  <2>6. /\ Settings(s, args).number = IF IsText(defs) THEN s.number ELSE Value(defs)
        /\ Settings(s, args).text = IF IsText(defs) /\ s.text = Undefined THEN Value(defs) ELSE s.text
        /\ \A k \in Handed : Part(Settings(s, args), k) = Part(Settings(s, x), k)
    BY <1>4, <2>1, <2>2, LastDefinition
  <2> QED
    BY <1>4, <2>5, <2>6
<1> QED
  BY <1>6, <1>7

LEMMA CoreConfigKeeps ==
  ASSUME SettingsInv, UNCHANGED <<cmdline, files, rooted>>, CoreConfig
  PROVE  SettingsInv'
<1> USE DEF SettingsInv
<1>1. pc = "coreconfig" /\ pc' = "coreargs" /\ UNCHANGED front
  BY DEF CoreConfig
<1>2. UNCHANGED <<options, defs, args>>
  BY <1>1 DEF front
<1>3. RequestInv' /\ Present' /\ Fits(Parsed, ReadUpTo(Len(Loaded)))'
  BY <1>1, <1>2, ReadStays DEF Read
<1>4. Listed /\ Listed' /\ Fits(Parsed, ReadUpTo(Len(Loaded))) /\ Core = Fresh
  BY <1>1, <1>2, ListedStays DEF ArgumentsInv, ParserInv, CoreInv, Read
<1>5. args \in Seq(Option) /\ \A i \in 1 .. Len(args) : args[i].key # "T"
  BY <1>4, ListedDoes, FreshType
<1>6. ~\E k \in DOMAIN args : args[k].key = "T"
  BY <1>5, LenProperties
<1>7. ParseOptions(Core, ConfigWords)
  BY <1>6 DEF CoreConfig, ConfigWords
<1>8. Settings(Core, ConfigWords) \in SettingType
  BY <1>4, FreshType, ConfigWordsType, SettingsType
<1>9. Core' = Settings(Fresh, ConfigWords)
  BY <1>4, <1>7, <1>8, CoreSteps
<1>10. ConfigWords' = ConfigWords
  BY SameRequest
<1>11. ParserInv'
  BY <1>1, <1>3 DEF ParserInv
<1>12. CoreInv'
  BY <1>1, <1>9, <1>10 DEF CoreInv, Fresh
<1> QED
  BY <1>1, <1>3, <1>4, <1>11, <1>12 DEF PcInv, ArgumentsInv, Read

LEMMA CoreArgumentsKeeps ==
  ASSUME SettingsInv, UNCHANGED <<cmdline, files, rooted>>, CoreArguments
  PROVE  SettingsInv'
<1> USE DEF SettingsInv
<1>1. pc = "coreargs" /\ pc' = "done" /\ UNCHANGED front /\ ParseOptions(NameInput(Core), args)
  BY DEF CoreArguments
<1>2. UNCHANGED <<options, defs, args>>
  BY <1>1 DEF front
<1>3. RequestInv' /\ Present' /\ Fits(Parsed, ReadUpTo(Len(Loaded)))'
  BY <1>1, <1>2, ReadStays DEF Read
<1>4. Listed /\ Listed' /\ Fits(Parsed, ReadUpTo(Len(Loaded))) /\ Core = Settings(Fresh, ConfigWords)
  BY <1>1, <1>2, ListedStays DEF ArgumentsInv, ParserInv, CoreInv, Read
<1>5. NameInput(Core) \in SettingType
  BY <1>4, FreshType, ConfigWordsType, SettingsType, NameInputFacts
<1>6. args \in Seq(Option)
  BY <1>4, <1>5, ListedDoes
<1>7. Core' = Settings(NameInput(Core), args)
  BY <1>1, <1>5, <1>6, SettingsType, CoreSteps
<1>8. ConfigWords' = ConfigWords
  BY SameRequest
<1>9. ParserInv'
  BY <1>1, <1>3 DEF ParserInv
<1>10. CoreInv'
  BY <1>1, <1>2, <1>4, <1>7, <1>8 DEF CoreInv, Fresh
<1> QED
  BY <1>1, <1>3, <1>4, <1>9, <1>10 DEF PcInv, ArgumentsInv, Read

(* Everything the compiler is set to follows from what the front end has    *)
(* kept of what it has read.                                                *)
THEOREM SettingsInvariant == Spec => []SettingsInv
<1>1. Init => SettingsInv
  BY InitHolds
<1>2. SettingsInv /\ [Next]_vars => SettingsInv'
  <2> SUFFICES ASSUME SettingsInv, [Next]_vars PROVE SettingsInv'
    OBVIOUS
  <2>1. CASE Next
    BY <2>1, ParseCommandLineKeeps, ResolveConfigsKeeps, RefuseConfigKeeps, LoadConfigKeeps,
       ConfigsLoadedKeeps, BuildArgumentsKeeps, SetConfigKeeps, CoreConfigKeeps,
       CoreArgumentsKeeps DEF Next
  <2>2. CASE UNCHANGED vars
    <3>1. UNCHANGED <<cmdline, files, rooted, pc, configs, options, defs, args, oname, warnoff, ctrl, number, text>>
      BY <2>2 DEF vars, front, core
    <3>2. /\ RequestInv' /\ Loaded' = Loaded /\ Lines' = Lines /\ (Present <=> Present')
          /\ ConfigWords' = ConfigWords /\ \A j : ReadUpTo(j)' = ReadUpTo(j)
      BY <3>1, SameRequest DEF SettingsInv
    <3>3. Parsed' = Parsed /\ Core' = Core /\ (Listed <=> Listed')
      BY <3>1, ListedStays DEF Parsed, Core
    <3>4. ReadUpTo(Len(Loaded))' = ReadUpTo(Len(Loaded))
      BY <3>1, <3>2 DEF ReadUpTo
    <3>5. LoadInv => LoadInv'
      BY <3>1, <3>2, <3>3 DEF LoadInv
    <3>6. ParserInv'
      BY <3>1, <3>2, <3>3, <3>4, <3>5 DEF SettingsInv, ParserInv
    <3> QED
      BY <3>1, <3>2, <3>3, <3>6 DEF SettingsInv, PcInv, ArgumentsInv, CoreInv, Fresh
  <2> QED
    BY <2>1, <2>2
<1> QED
  BY <1>1, <1>2, PTL DEF Spec

(* The end: what the front end has read, and what the compiler is set to.   *)
Begun == NameInput(Settings(Fresh, ConfigWords))

LEMMA AtTheEnd ==
  ASSUME SettingsInv, pc = "done"
  PROVE  /\ RequestInv /\ Present /\ Fits(Parsed, ReadUpTo(Len(Loaded)))
         /\ Settings(Fresh, ConfigWords) \in SettingType /\ Begun \in SettingType
         /\ \A k \in Handed : Alone(Parsed, k) => Part(Core, k) = Part(Settings(Begun, options[k]), k)
         /\ defs # Undefined => /\ ~IsText(defs) => number = Value(defs)
                                /\ text = IF IsText(defs) /\ Begun.text = Undefined
                                          THEN Value(defs) ELSE Begun.text
<1>1. RequestInv /\ Present /\ Fits(Parsed, ReadUpTo(Len(Loaded)))
  BY DEF SettingsInv, ParserInv, Read
<1>2. Settings(Fresh, ConfigWords) \in SettingType /\ Begun \in SettingType
  BY <1>1, FreshType, ConfigWordsType, SettingsType, NameInputFacts DEF Begun
<1>3. Listed /\ Core = Settings(Begun, args)
  BY DEF SettingsInv, ArgumentsInv, CoreInv, Read, Begun
<1>4. Core.number = number /\ Core.text = text
  BY DEF Core
<1>5. /\ \A k \in Handed : Alone(Parsed, k) => Part(Settings(Begun, args), k) = Part(Settings(Begun, options[k]), k)
      /\ defs # Undefined => /\ ~IsText(defs) => Settings(Begun, args).number = Value(defs)
                             /\ Settings(Begun, args).text =
                                  IF IsText(defs) /\ Begun.text = Undefined THEN Value(defs) ELSE Begun.text
  BY <1>1, <1>2, <1>3, ListedDoes
<1> QED
  BY <1>1, <1>2, <1>3, <1>4, <1>5

(* No other list touches the name or the warning.                           *)
LEMMA AloneFacts ==
  ASSUME NEW p
  PROVE  /\ "w" \in Handed /\ "o" \in Handed /\ "backslash" \in Handed /\ "caret" \in Handed
         /\ Alone(p, "w") /\ Alone(p, "o")
         /\ p.options["backslash"] = <<>> => Alone(p, "caret")
         /\ p.options["caret"] = <<>> => Alone(p, "backslash")
BY TouchesFacts DEF Alone, Handed

-----------------------------------------------------------------------------
LEMMA NamesAgreeHolds ==
  ASSUME SettingsInv
  PROVE  NamesAgree
<1> SUFFICES ASSUME pc = "done", SameText
             PROVE  oname = PackagedName <=> PlainName
  BY DEF NamesAgree
<1> DEFINE s == Settings(Fresh, ConfigWords)
           y == options["o"]
<1>1. /\ RequestInv /\ Present /\ Fits(Parsed, ReadUpTo(Len(Loaded)))
      /\ s \in SettingType /\ Begun \in SettingType
  BY AtTheEnd
<1>2. Parsed \in ParsedType /\ "o" \in Handed /\ "o" \in Keys /\ Parsed.options = options
  BY <1>1, HandedKeys DEF Fits, Handed, Parsed
<1>3. y \in Seq(Option)
  BY <1>2, KeptSeq
<1>4. oname = Settings(Begun, y).name
  <2>1. Part(Core, "o") = Part(Settings(Begun, options["o"]), "o")
    BY AtTheEnd, AloneFacts
  <2> QED
    BY <2>1 DEF Part, Core
<1>5. CASE y # <<>>
  <2>1. \A i \in 1 .. Len(y) : y[i].key = "o"
    BY <1>1, <1>2 DEF Fits, OneKeyEach
  <2>2. oname = Unquoted(Last(y))
    <3> HIDE DEF s, y
    <3> QED
      BY <1>1, <1>3, <1>4, <1>5, <2>1, SettingsLastName
  <2>3. Last(y) \in Option
    <3>1. Len(y) \in Nat \ {0}
      BY <1>3, <1>5, EmptySeq
    <3>2. Len(y) \in 1 .. Len(y)
      BY <3>1
    <3> QED
      BY <1>3, <3>2, SeqFacts DEF Last
  <2>4. /\ PackagedName = IF Value(Last(y)) = Empty THEN NoName ELSE Value(Last(y))
        /\ PlainName <=> (Last(y).quoted => Last(y).rest) /\ Value(Last(y)) # Empty
    BY <1>5 DEF PackagedName, PlainName
  <2>5. ASSUME NEW o \in Option
        PROVE  /\ (o.quoted => o.rest) => Unquoted(o) = Value(o)
               /\ ~(o.quoted => o.rest) => Unquoted(o) # Value(o) /\ Value(o) # Empty
    <3>1. o.quoted \in BOOLEAN /\ o.rest \in BOOLEAN
      BY OptionFacts
    <3> QED
      BY <3>1 DEF Unquoted, Value, Empty
  <2>6. Empty # NoName
    BY DEF Empty, NoName
  <2> HIDE DEF y
  <2> QED
    BY <2>2, <2>3, <2>4, <2>5, <2>6
<1>6. CASE y = <<>>
  <2>1. PackagedName = NoName /\ Fresh.name = Empty /\ PlainName
    BY <1>6 DEF PackagedName, PlainName, Fresh
  <2>2. s.name = Fresh.name => (oname = PackagedName <=> PlainName)
    <3>1. Settings(Begun, y) = Begun
      BY <1>1, <1>6, SettingsEmpty
    <3>2. Begun.name = IF s.name = Empty THEN NoName ELSE s.name
      BY <1>1, NameInputFacts DEF Begun
    <3> HIDE DEF s
    <3> QED
      BY <1>4, <2>1, <3>1, <3>2
  <2>3. CASE DefaultConfig = <<>>
    <3>1. ConfigWords = <<>>
      BY <2>3 DEF ConfigWords
    <3>2. s = Fresh
      BY <3>1, SettingsEmpty, FreshType
    <3> QED
      BY <2>2, <3>2
  <2>4. CASE DefaultConfig # <<>>
    <3>0. /\ Given("T") = {}
          /\ \A c \in Configs : files[c] = NoFile \/ \A k \in DOMAIN files[c] : Len(files[c][k]) = 1
      BY DEF SameText
    <3>1. Loaded = DefaultConfig /\ Len(DefaultConfig) = 1 /\ DefaultConfig \in Seq(Configs) /\ 1 \in 1 .. 1
      BY <1>1, <2>4, <3>0, LoadedFacts, DefaultFacts
    <3> DEFINE f == files[DefaultConfig[1]]
    <3>2. DefaultConfig[1] \in Configs
      BY <3>1, SeqFacts
    <3>3. f \in ConfigFiles /\ f # NoFile
      BY <1>1, <3>1, <3>2, DefaultFacts DEF RequestInv
    <3>4. f \in Seq(Seq(Option)) /\ DOMAIN f = 1 .. Len(f)
      BY <3>3, FileFacts, LenProperties
    <3>5. \A k \in 1 .. Len(f) : Len(f[k]) = 1
      BY <3>0, <3>2, <3>3, <3>4
    <3>6. ConfigWords = Joined(f)
      BY <2>4 DEF ConfigWords, WordsOf
    <3>7. LinesOf(f) \in Seq(Option) /\ ReadUpTo(1) = cmdline \o LinesOf(f)
      <4>1. 0 \in 0 .. Len(Loaded) /\ 0 # Len(Loaded) /\ 0 + 1 = 1
        BY <3>1
      <4>2. LinesOf(files[Loaded[0 + 1]]) \in Seq(Option) /\ ReadUpTo(0 + 1) = ReadUpTo(0) \o LinesOf(files[Loaded[0 + 1]])
        BY <1>1, <4>1, ReadNext
      <4>3. ReadUpTo(0) = cmdline
        BY <1>1, ReadNone
      <4> QED
        BY <3>1, <4>1, <4>2, <4>3
    <3> DEFINE l == LinesOf(f)
               r == cmdline \o l
    <3>8. \A i \in 1 .. Len(r) : r[i].key # "o"
      BY <1>1, <1>2, <1>6, <3>1, <3>7 DEF Fits, AllKept
    <3>9. cmdline \in Seq(Option)
      BY <1>1, WordIsOption, SeqMonotonic, Zenon DEF RequestInv
    <3>10. Len(l) = Len(f) /\ \A k \in 1 .. Len(f) : l[k] = f[k][1]
      BY <3>3, <3>5, FileFacts
    <3>11. Len(Joined(f)) = Len(f) /\ \A k \in 1 .. Len(f) : Joined(f)[k] = f[k][1]
      BY <3>4, <3>5, JoinedWords
    <3>12. l \in Seq(Option) /\ Len(f) \in Nat /\ Joined(f) \in Seq(Option)
      BY <3>4, <3>7, SeqFacts, JoinedType
    <3> HIDE DEF f, l
    <3>13. ASSUME NEW k \in 1 .. Len(f) PROVE l[k].key # "o"
      <4>1. Len(cmdline) \in Nat
        BY <3>9, SeqFacts, Zenon
      <4>2. /\ Len(r) = Len(cmdline) + Len(l)
            /\ \A i \in 1 .. Len(cmdline) + Len(l) : r[i] = IF i <= Len(cmdline) THEN cmdline[i] ELSE l[i - Len(cmdline)]
        BY <3>9, <3>12, ConcatProperties
      <4> HIDE DEF r
      <4>3. /\ Len(cmdline) + k \in 1 .. Len(cmdline) + Len(l) /\ ~(Len(cmdline) + k <= Len(cmdline))
            /\ (Len(cmdline) + k) - Len(cmdline) = k
        BY <3>10, <3>12, <4>1
      <4>4. r[Len(cmdline) + k] = l[k]
        BY <4>2, <4>3
      <4> QED
        BY <3>8, <4>2, <4>3, <4>4
    <3>14. \A k \in 1 .. Len(Joined(f)) : Joined(f)[k].key # "o"
      BY <3>10, <3>11, <3>13
    <3>15. s.name = Fresh.name
      <4>1. \A k \in 1 .. Len(Joined(f)) : ~Touches(Joined(f)[k].key, "o")
        BY <3>14 DEF Touches
      <4>2. Part(Settings(Fresh, Joined(f)), "o") = Part(Fresh, "o")
        BY <1>2, <3>12, <4>1, FreshType, SettingsKeep
      <4> QED
        BY <3>6, <4>2 DEF Part
    <3> QED
      BY <2>2, <3>15
  <2> QED
    BY <2>3, <2>4
<1> QED
  BY <1>5, <1>6

(* Without -T and with one option per line, the packager looks for the      *)
(* image under the name the compiler gave it, if and only if the last -o    *)
(* has a value that is not in quotes.                                       *)
THEOREM SameName == Spec => []NamesAgree
BY SettingsInvariant, NamesAgreeHolds, PTL

-----------------------------------------------------------------------------
LEMMA CommandLineDefinesHolds ==
  ASSUME SettingsInv
  PROVE  CommandLineDefines
<1> SUFFICES ASSUME pc = "done", NEW i \in Given("sym"), \A j \in Given("sym") : i <= j,
                    \A k \in DOMAIN ConfigWords : ConfigWords[k].key = "sym" => ~IsText(ConfigWords[k])
             PROVE  Meaning = Value(cmdline[i])
  BY DEF CommandLineDefines
<1> DEFINE n == Len(Loaded)
           r == ReadUpTo(n)
           js == Joined(SubSeq(Lines, 1, n))
<1>1. /\ RequestInv /\ Present /\ Fits(Parsed, r)
      /\ defs # Undefined => /\ ~IsText(defs) => number = Value(defs)
                             /\ text = IF IsText(defs) /\ Begun.text = Undefined
                                       THEN Value(defs) ELSE Begun.text
  BY AtTheEnd
<1>2. cmdline \in Seq(Option) /\ js \in Seq(Option)
  <2>1. n \in 0 .. n
    BY <1>1, LoadedFacts, UpTo
  <2> QED
    BY <1>1, <2>1, ReadType, JoinedType
<1>3. r = cmdline \o js
  BY DEF ReadUpTo
<1>4. Len(cmdline) \in Nat /\ Len(js) \in Nat /\ DOMAIN cmdline = 1 .. Len(cmdline)
  BY <1>2, SeqFacts, LenProperties, Zenon
<1>5. FirstDefinition(Parsed, r) /\ Parsed.defs = defs
  BY <1>1 DEF Fits, Parsed
<1> HIDE DEF r, js, n
<1>6. Len(r) = Len(cmdline) + Len(js) /\ \A k \in 1 .. Len(cmdline) : k \in 1 .. Len(r) /\ r[k] = cmdline[k]
  <2>1. /\ Len(r) = Len(cmdline) + Len(js)
        /\ \A k \in 1 .. Len(cmdline) + Len(js) : r[k] = IF k <= Len(cmdline) THEN cmdline[k] ELSE js[k - Len(cmdline)]
    BY <1>2, <1>3, ConcatProperties
  <2> QED
    BY <1>4, <2>1
<1>7. \A k : k \in Given("sym") <=> k \in 1 .. Len(cmdline) /\ cmdline[k].key = "sym"
  BY <1>4 DEF Given
<1>8. i \in 1 .. Len(cmdline) /\ r[i].key = "sym" /\ i \in 1 .. Len(r)
  BY <1>6, <1>7
<1>9. PICK k \in 1 .. Len(r) : /\ r[k].key = "sym" /\ defs = r[k]
                               /\ \A j \in 1 .. Len(r) : r[j].key = "sym" => k <= j
  BY <1>5, <1>8 DEF FirstDefinition
<1>10. k = i
  <2>1. k <= i
    BY <1>8, <1>9
  <2>2. k \in 1 .. Len(cmdline)
    BY <1>4, <1>6, <1>8, <2>1
  <2>3. k \in Given("sym")
    BY <1>6, <1>7, <1>9, <2>2
  <2>4. i <= k
    BY <2>3
  <2> QED
    BY <1>4, <1>8, <2>1, <2>2, <2>4
<1>11. defs = cmdline[i]
  BY <1>6, <1>8, <1>9, <1>10
<1>12. cmdline[i] \in Word
  BY <1>1, <1>8, SeqFacts DEF RequestInv
<1>13. cmdline[i] \in Option /\ cmdline[i].rest = FALSE
  BY <1>12 DEF Word, Option
<1>14. defs # Undefined /\ Value(defs) # Undefined
  BY <1>11, <1>13, TextAssumption, OptionFacts
<1>15. Begun.text = Undefined
  <2>1. ConfigWords \in Seq(Option) /\ DOMAIN ConfigWords = 1 .. Len(ConfigWords)
    BY <1>1, ConfigWordsType, LenProperties
  <2>2. Settings(Fresh, ConfigWords).text = Fresh.text
    BY <2>1, FreshType, SettingsKeep
  <2>3. Settings(Fresh, ConfigWords) \in SettingType
    BY <2>1, FreshType, SettingsType
  <2>4. Begun.text = Settings(Fresh, ConfigWords).text
    BY <2>3, NameInputFacts DEF Begun
  <2> QED
    BY <2>2, <2>4 DEF Fresh
<1> QED
  BY <1>1, <1>11, <1>14, <1>15 DEF Meaning

(* A constant defined on the command line has the value given there first,  *)
(* unless the compiler's own configuration file gives it a text.            *)
THEOREM FirstDefined == Spec => []CommandLineDefines
BY SettingsInvariant, CommandLineDefinesHolds, PTL

-----------------------------------------------------------------------------
LEMMA OrderIrrelevantHolds ==
  ASSUME SettingsInv
  PROVE  OrderIrrelevant
<1> DEFINE j == Joined(Lines)
           t == Settings(Begun, cmdline \o j)
<1> SUFFICES ASSUME pc = "done"
             PROVE  /\ oname = t.name /\ warnoff = t.off
                    /\ options["backslash"] = <<>> \/ options["caret"] = <<>> => ctrl = t.ctrl
  BY DEF OrderIrrelevant, Lines, Begun
<1>1. /\ RequestInv /\ Present /\ Fits(Parsed, ReadUpTo(Len(Loaded))) /\ Begun \in SettingType
      /\ \A k \in Handed : Alone(Parsed, k) => Part(Core, k) = Part(Settings(Begun, options[k]), k)
  BY AtTheEnd
<1>2. Lines \in Seq(Seq(Option)) /\ Len(Lines) = Len(Loaded)
  BY <1>1, LinesFacts
<1>3. SubSeq(Lines, 1, Len(Loaded)) = Lines
  BY <1>2, SubSeqFull
<1>4. ReadUpTo(Len(Loaded)) = cmdline \o j
  BY <1>3 DEF ReadUpTo
<1> HIDE DEF j
<1>5. Parsed.options = options
  BY DEF Parsed
<1>6. ASSUME NEW k \in Handed, Alone(Parsed, k) PROVE Part(Core, k) = Part(t, k)
  <2>1. SameSettings(Parsed, cmdline \o j)
    BY <1>1, <1>4 DEF Fits
  <2>2. Part(t, k) = Part(Settings(Begun, options[k]), k)
    BY <1>1, <1>5, <1>6, <2>1 DEF SameSettings
  <2> QED
    BY <1>1, <1>6, <2>2
<1> HIDE DEF t
<1>7. Part(Core, "w") = Part(t, "w") /\ Part(Core, "o") = Part(t, "o")
  BY <1>6, AloneFacts
<1>8. options["backslash"] = <<>> => Part(Core, "caret") = Part(t, "caret")
  BY <1>5, <1>6, AloneFacts
<1>9. options["caret"] = <<>> => Part(Core, "backslash") = Part(t, "backslash")
  BY <1>5, <1>6, AloneFacts
<1> QED
  BY <1>7, <1>8, <1>9 DEF Part, Core

(* Whatever the order in which the options are handed over, the compiler is *)
(* set to what its own file, the command line and the loaded files say: but *)
(* for the control character when both -\ and -^ are given.                 *)
THEOREM AnyOrder == Spec => []OrderIrrelevant
BY SettingsInvariant, OrderIrrelevantHolds, PTL
==============================================================================
