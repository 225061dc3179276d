---------------------------- MODULE MCEvaluation ----------------------------
(* A program with one or two of everything that expressions can be made of, *)
(* and the expressions of up to three operands over it.                     *)
EXTENDS Evaluation

T == 1
Var(class, addr, tag) == [ident |-> "variable", vclass |-> class, addr |-> addr, tag |-> tag, dims |-> <<>>, const |-> FALSE]

(* Globals g, t, A[2] and M[2][2] at 0, 2, 4 and 8, the constant c at 24;   *)
(* default data at 20 and 26; the frame is at 34, with the local x under it *)
(* and the arguments &r = g and p[] = A above it.                           *)
MCSymbols ==
  [s \in {"x", "g", "t", "c", "r", "A", "M", "p"} |->
     CASE s = "g" -> Var("global", 0, 0)
       [] s = "t" -> Var("global", 2, T)
       [] s = "c" -> [Var("global", 24, 0) EXCEPT !.const = TRUE]
       [] s = "x" -> Var("local", -4, 0)
       [] s = "r" -> [Var("local", 2, 0) EXCEPT !.ident = "reference"]
       [] s = "A" -> [Var("global", 4, 0) EXCEPT !.ident = "array", !.dims = <<2>>]
       [] s = "M" -> [Var("global", 8, 0) EXCEPT !.ident = "array", !.dims = <<2, 2>>]
       [] s = "p" -> [Var("local", 4, 0) EXCEPT !.ident = "refarray", !.dims = <<2>>]]

Arg(kind, tag, default, addr) ==
  [kind |-> kind, tag |-> tag, default |-> default, dtag |-> 0, addr |-> addr, named |-> FALSE, const |-> FALSE]
Function(native, returns, args) == [native |-> native, returns |-> returns, tag |-> 0, args |-> args]

(* f(a), n(a, b = 2, &c = 3) and v(...) of the host, w(T:a, d[2] = { 5, 6 }),*)
(* u(d[]), k(), which returns an array, h(d[2] = A) and                     *)
(* q(const d[2] = { 8, 1 }, T:a = 2, T:b = T:3, const &e = 4).              *)
MCFuncs ==
  [f \in {<<n>> : n \in {"f", "n", "v", "w", "u", "k", "h", "q"}} |->
     CASE f[1] = "f" -> Function(FALSE, 0, <<Arg("value", 0, <<>>, 0)>>)
       [] f[1] = "n" -> Function(TRUE, 0, <<Arg("value", 0, <<>>, 0), Arg("value", 0, <<2>>, 0),
                                         Arg("reference", 0, <<3>>, 0)>>)
       [] f[1] = "v" -> Function(TRUE, 0, <<Arg("varargs", 0, <<>>, 0)>>)
       [] f[1] = "w" -> Function(FALSE, 0, <<Arg("value", T, <<>>, 0), Arg("array", 0, <<5, 6>>, 20)>>)
       [] f[1] = "u" -> Function(FALSE, 0, <<Arg("array", 0, <<>>, 0)>>)
       [] f[1] = "k" -> Function(FALSE, 2, <<>>)
       [] f[1] = "h" -> Function(FALSE, 0, <<[Arg("array", 0, <<9, -2>>, 4) EXCEPT !.named = TRUE]>>)
       [] f[1] = "q" -> Function(FALSE, 0, <<[Arg("array", 0, <<8, 1>>, 26) EXCEPT !.const = TRUE],
                                          Arg("value", T, <<2>>, 0), [Arg("value", T, <<3>>, 0) EXCEPT !.dtag = T],
                                          [Arg("reference", 0, <<4>>, 0) EXCEPT !.const = TRUE]>>)]

MCUserOps ==
  [o \in {<<"+", T, T>>, <<"+", T, 0>>, <<"-", T, 0>>, <<"<", T, T>>, <<"==", T, T>>, <<"=", 0, T>>,
          <<"!", T>>, <<"-", T>>, <<"++", T>>} |->
     IF o[1] \in {"<", "==", "!"} THEN 0 ELSE T]

Heap == {HeapBase + k * CellBytes : k \in 0 .. HeapCells - 1}
Memory(g, x) ==
  [a \in {2 * k : k \in 0 .. 20} \cup Heap |->
     CASE a = 0 -> g [] a = 2 -> 7 [] a = 4 -> 9 [] a = 6 -> -2
       [] a = 8 -> 4 [] a = 10 -> 6 [] a \in 12 .. 18 -> a
       [] a = 20 -> 5 [] a = 22 -> 6 [] a = 24 -> 5 [] a = 26 -> 8 [] a = 28 -> 1
       [] a = 30 -> x [] a = 36 -> 0 [] a = 38 -> 4
       [] OTHER -> 33]
MCMemories == {Memory(3, 0), Memory(-5, 1)}

C(n) == [op |-> "const", n |-> n, tag |-> 0]
TC(n) == [op |-> "const", n |-> n, tag |-> T]
S(s) == [op |-> "sym", s |-> s]
Idx(a, i) == [op |-> "index", a |-> a, i |-> i]
Fun(f, es) == [op |-> "call", f |-> <<f>>, es |-> es]
Row(os, es) == [op |-> "row", os |-> os, es |-> es]
Chain(os, es) == [op |-> "chain", os |-> os, es |-> es]
Logic(o, es) == [op |-> "skim", o |-> o, es |-> es]
If(c, a, b) == [op |-> "cond", c |-> c, a |-> a, b |-> b]
Un(o, e) == [op |-> "unary", o |-> o, e |-> e]
Inc(o, prefix, e) == [op |-> "step", o |-> o, prefix |-> prefix, e |-> e]
Set(o, l, r) == [op |-> "assign", o |-> o, l |-> l, r |-> r]
Tagged(tag, e) == [op |-> "tag", tag |-> tag, e |-> e]
Comma2(a, b) == [op |-> "comma", es |-> <<a, b>>]

x == S("x")  g == S("g")  t == S("t")  c0 == S("c")
xpp == Inc("++", FALSE, x)
Ax == Idx(S("A"), x)
A1 == Idx(S("A"), C(1))
Mxx == Idx(Idx(S("M"), x), x)
fx == Fun("f", <<x>>)

Leaves == {C(0), C(3), g, xpp, Ax, Mxx, fx}
Small == {C(3), x, xpp}
Lvalues == {x, g, S("r"), Ax, A1, Mxx, Idx(S("p"), x), t, Tagged(T, g)}
Nonzero == {C(3), C(-2), g}
Shift == {C(0), C(3), x}

Simple == Leaves \cup Lvalues
Unaries == {Un(o, e) : o \in {"~", "!", "-"}, e \in Simple \cup {Row(<<"+">>, <<C(1), C(2)>>)}}
Steps == {Inc(o, prefix, e) : o \in {"++", "--"}, prefix \in BOOLEAN, e \in Lvalues}
Divisions == {Row(<<o>>, <<a, b>>) : o \in {"/", "%"}, a \in Leaves \cup {C(-7)}, b \in Nonzero}
             \cup {Row(<<o>>, <<C(a), C(b)>>) : o \in {"/", "%"}, a \in {-64, 50, 63}, b \in {7, -7, 60}}
Shifts == {Row(<<o>>, <<a, b>>) : o \in {"<<", ">>", ">>>"}, a \in Leaves \cup {C(-7)}, b \in Shift}
Rows == {Row(<<o>>, <<a, b>>) : o \in {"*", "+", "-", "&", "^", "|", "==", "!="}, a \in Leaves, b \in Leaves}
Rows2 == {Row(<<o, q>>, <<a, b, c>>) : o \in {"+", "-"}, q \in {"+", "-"}, a \in Small, b \in Small, c \in Small}
         \cup {Row(<<o, q>>, <<a, b, C(3)>>) : o \in {"*"}, q \in {"/", "%"}, a \in Small, b \in Small}
Nested == {Row(<<o>>, <<Row(<<q>>, <<a, b>>), Un("-", c)>>)
             : o \in {"-", "+"}, q \in {"*", "-"}, a \in Small, b \in Small, c \in Small}
Chains == {Chain(<<o>>, <<a, b>>) : o \in {"<", "<=", ">", ">="}, a \in Leaves, b \in Leaves}
          \cup {Chain(<<o, q>>, <<a, b, c>>)
                  : o \in {"<", ">="}, q \in {"<", ">="}, a \in Small, b \in Small \cup {C(0)}, c \in Small}
          \cup {Chain(<<"<", "<", "<=">>, <<a, xpp, b, c>>) : a \in Small, b \in Small, c \in Small}
Logics == {Logic(o, <<a, b>>) : o \in {"||", "&&"}, a \in Leaves, b \in Leaves \cup {Fun("k", <<>>)}}
          \cup {Logic(o, <<a, b, c>>) : o \in {"||", "&&"}, a \in Small, b \in Small \cup {C(0)}, c \in Small}
          \cup {Logic("||", <<Logic("&&", <<a, b>>), Un("!", Logic(o, <<x, c>>))>>)
                  : o \in {"||", "&&"}, a \in Small, b \in Small, c \in Small}
Arrays == {S("A"), S("p"), Idx(S("M"), x), Fun("k", <<>>)}
Conditionals ==
  {If(c, a, b) : c \in {x, C(0), C(3)}, a \in Leaves, b \in Leaves}
  \cup {If(x, If(g, a, xpp), b) : a \in Small, b \in Small}
  \cup {Fun("u", <<If(x, a, b)>>) : a \in Arrays, b \in Arrays}
  \cup {If(x, Fun("u", <<Fun("k", <<>>)>>), C(1))}
Assignments ==
  {Set(o, l, r) : o \in {"", "+", "-", "*", "|"}, l \in Lvalues, r \in Leaves \cup {x, A1, TC(3), t, Un("-", A1)}}
  \cup {Set("", l, r) : l \in {S("A"), S("p"), Idx(S("M"), x)}, r \in Arrays \cup {If(x, S("A"), Fun("k", <<>>))}}
  \cup {Set("", S("M"), a) : a \in {S("M"), S("A")}} \cup {Set("", S("A"), g), Set("+", S("A"), S("p"))}
  \cup {Set(o, l, Set(q, k, C(3))) : o \in {"", "-"}, q \in {"", "+"}, l \in {x, Ax}, k \in {x, g, A1}}
Tags ==
  {Row(<<o>>, <<a, b>>) : o \in {"+", "-", "=="}, a \in {t, TC(3), fx}, b \in {t, TC(3), x}}
  \cup {Chain(<<"<">>, <<a, b>>) : a \in {t, TC(3)}, b \in {t, TC(3)}}
  \cup {Chain(<<"<", "<">>, <<a, b, t>>) : a \in {t, TC(3)}, b \in {t, Inc("++", TRUE, t)}}
  \cup {Row(<<"+", "+">>, <<t, Set("", t, x), t>>)}
Inputs == {C(3), x, S("r"), xpp, Ax, Row(<<"+">>, <<x, C(1)>>), Un("-", x), Un("-", Ax)}
Constants ==
  {Fun("v", <<a, b>>) : a \in {c0, Tagged(T, c0)}, b \in {c0, x, Un("-", c0)}} \cup {Fun("n", <<c0, Ignored, c0>>)}
  \cup {Set("", c0, x), Set("+", c0, x), Inc("++", TRUE, c0), Inc("--", FALSE, c0), Row(<<"+">>, <<c0, x>>)}
Calls ==
  {Fun("v", <<a, b>>) : a \in Inputs, b \in Inputs}
  \cup {Fun("n", <<a>>) : a \in Inputs}
  \cup {Fun("n", <<a, Ignored, b>>) : a \in {x, fx}, b \in Lvalues \ {t}}
  \cup {Fun("n", <<a, b, c>>) : a \in Small, b \in Small, c \in {g, Ax, C(3)}}
  \cup {Fun("w", <<a>>) : a \in {x, t, C(3), TC(3)}}
  \cup {Fun("w", <<a, b>>) : a \in {x, t}, b \in Arrays}
  \cup {Fun("u", <<a>>) : a \in Arrays \cup {x, A1}}
  \cup {Fun("q", <<>>), Fun("h", <<>>), Fun("h", <<S("p")>>), Row(<<"-">>, <<Fun("h", <<>>), A1>>)}
  \cup {Fun("q", <<a, b>>) : a \in {Ignored, S("A")}, b \in {Ignored, t, x}}
  \cup {Fun("q", <<a, Ignored, t, b>>) : a \in {Ignored, S("A")}, b \in {c0, x}}
  \cup {Fun("q", <<S("A"), Fun("q", <<>>)>>)}
  \cup {Fun("f", <<Fun("n", <<fx, Fun("u", <<Fun("k", <<>>)>>)>>)>>), Fun("f", <<>>), Fun("k", <<>>)}
Commas == {Comma2(a, b) : a \in {xpp, x, fx}, b \in {x, C(3), Set("", x, C(1))}}

MCExprs == Simple \cup Unaries \cup Steps \cup Divisions \cup Shifts \cup Rows \cup Rows2 \cup Nested
           \cup Chains \cup Logics \cup Conditionals \cup Assignments \cup Tags \cup Calls \cup Constants \cup Commas
=============================================================================
