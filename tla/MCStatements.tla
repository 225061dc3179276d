---------------------------- MODULE MCStatements ----------------------------
(* Bodies of functions: every statement within every other one, and longer  *)
(* ones that combine declarations, shadowing, jumps and destructors.        *)
EXTENDS Flow

Ex(id) == [op |-> "expr", id |-> id, uses |-> <<>>]
See(id, n) == [op |-> "expr", id |-> id, uses |-> <<n>>]
New(n, id) == [op |-> "new", n |-> n, id |-> id, dtor |-> FALSE, dims |-> <<>>, init |-> <<>>]
Set(n, id, from) == [New(n, id) EXCEPT !.init = <<from>>]
Obj(n, id) == [New(n, id) EXCEPT !.dtor = TRUE]
Arr(n, id, size) == [New(n, id) EXCEPT !.dims = <<size>>]
Static(s) == [s EXCEPT !.op = "static"]
Const(n, id) == [op |-> "const", n |-> n, id |-> id]
B(ss) == [op |-> "block", ss |-> ss]
T(id) == [op |-> "test", id |-> id, uses |-> <<>>, user |-> FALSE]
TSee(id, n) == [T(id) EXCEPT !.uses = <<n>>]
TUser(id) == [T(id) EXCEPT !.user = TRUE]
K(v) == [op |-> "const", v |-> v]
Always == [op |-> "always"]
If(c1, a) == [op |-> "if", c |-> c1, a |-> a]
IfElse(c1, a, b) == [op |-> "ifelse", c |-> c1, a |-> a, b |-> b]
While(c1, s) == [op |-> "while", c |-> c1, body |-> s]
DoWhile(s, c1) == [op |-> "do", c |-> c1, body |-> s]
For(i, c1, step, s) == [op |-> "for", init |-> i, c |-> c1, step |-> step, body |-> s]
Switch(id, cases) == [op |-> "switch", id |-> id, uses |-> <<>>, cases |-> cases]
OnCase(vals, s) == [vals |-> vals, default |-> FALSE, body |-> s]
Default(s) == [vals |-> {}, default |-> TRUE, body |-> s]
GoTo(l, id) == [op |-> "goto", l |-> l, id |-> id]
Lab(l, id) == [op |-> "label", l |-> l, id |-> id]
Ret == [op |-> "return", id |-> 0, uses |-> <<>>]
RetV(id, n) == [op |-> "return", id |-> id, uses |-> <<n>>]
Brk == [op |-> "break"]
Cont == [op |-> "continue"]
Exit(id) == [op |-> "exit", id |-> id, uses |-> <<>>]
Sleep(id) == [op |-> "sleep", id |-> id, uses |-> <<>>]
Check(c1) == [op |-> "assert", c |-> c1]
State(c1, id) == [op |-> "state", c |-> c1, id |-> id]

(* What a loop, a branch or a case can consist of; "d" keeps the numbers    *)
(* apart.                                                                   *)
Plain(d) == {Ex(d + 1), B(<<>>), RetV(d + 3, "p"), Exit(d + 2), Sleep(d + 2),
             B(<<New("x", d + 1), See(d + 2, "x")>>), B(<<Const("k", d + 3), See(d + 4, "k")>>),
             B(<<Const("k", d + 3)>>), B(<<Obj("o", d + 1), See(d + 2, "o"), RetV(d + 3, "o")>>),
             B(<<Set("x", d + 1, "a"), See(d + 2, "p")>>), B(<<Arr("v", d + 1, 2), Obj("o", d + 2), See(d + 3, "v")>>),
             Check(T(d + 1)), Check(K(0)), Check(K(1)), State(T(d + 1), d + 2), State(Always, d + 2),
             B(<<Static(Obj("o", d + 1)), See(d + 2, "o")>>),
             B(<<[Obj("o", d + 1) EXCEPT !.dims = <<2, 2>>], See(d + 2, "o")>>)}
Jumps(d) == {Brk, Cont, B(<<Ex(d + 1), Brk>>), B(<<Obj("o", d + 1), Cont>>),
             B(<<New("x", d + 1), If(TSee(d + 2, "x"), B(<<Obj("o", d + 3), Brk>>)), See(d + 4, "x")>>),
             B(<<Obj("o", d + 1), If(TUser(d + 2), Cont), See(d + 3, "o")>>),
             If(T(d + 1), Brk), IfElse(T(d + 1), Cont, Ex(d + 2)),
             Switch(d + 1, <<OnCase({1}, B(<<New("x", d + 2), Brk>>)), Default(Cont)>>)}
Branches(d, S) ==
  {If(T(d), s) : s \in S} \cup {IfElse(TUser(d), s, Ex(d + 9)) : s \in S}
  \cup {IfElse(T(d), RetV(d + 8, "p"), s) : s \in S} \cup {IfElse(T(d), s, s) : s \in S}
  \cup {Switch(d, <<OnCase({0, 2}, s), OnCase({1}, Ex(d + 9))>>) : s \in S}
  \cup {Switch(d, <<OnCase({2}, Ex(d + 8)), OnCase({0}, Ex(d + 9)), Default(s)>>) : s \in S}
Repeated(d, S) ==
  {While(TSee(d, "a"), s) : s \in S} \cup {DoWhile(s, T(d)) : s \in S}
  \cup {For(Nothing, T(d), Ex(d + 9), s) : s \in S}
  \cup {For(New("i", d + 8), TSee(d, "i"), See(d + 9, "i"), s) : s \in S}
  \cup {For(Obj("a", d + 8), T(d), Nothing, s) : s \in S}
  \cup {For(Ex(d + 8), Always, Nothing, B(<<If(T(d), Brk), s>>)) : s \in S \ {Cont}}

(* A function that reads what it has declared after the statement           *)
Whole(s) == B(<<New("a", 1), Obj("b", 2), s, New("z", 3), See(4, "a"), See(5, "z")>>)

Simple == {Whole(s) : s \in Plain(20) \cup Branches(20, Plain(40)) \cup Repeated(20, Plain(40))}
Looping == {Whole(s) : s \in Repeated(20, Jumps(40))}
Nested == {Whole(s) : s \in Repeated(20, {B(<<Obj("o", 36), t, See(37, "o")>>) : t \in Repeated(40, Jumps(60))})}
Within2 == {Whole(s) : s \in Branches(20, Branches(40, {RetV(61, "p"), Ex(61), B(<<Const("k", 61)>>), B(<<New("x", 61), See(62, "x")>>)}))}

(* Labels: forwards, backwards, into and out of blocks                      *)
Labelled == {Whole(s) : s \in {
  B(<<If(T(20), GoTo("l", 21)), Ex(22), Lab("l", 23), Ex(24)>>),
  B(<<Lab("l", 20), New("x", 21), If(TSee(22, "x"), GoTo("l", 23)), Ex(24)>>),
  B(<<New("x", 20), B(<<New("y", 21), If(T(22), GoTo("l", 23)), See(24, "y")>>), Lab("l", 25), See(26, "x")>>),
  B(<<B(<<Lab("l", 20), Ex(21)>>), If(T(22), GoTo("l", 23))>>),
  B(<<New("x", 20), If(T(21), GoTo("l", 22)), B(<<Ex(23), Lab("l", 24), See(25, "x")>>)>>),
  B(<<While(T(20), B(<<New("x", 21), Obj("o", 22), If(T(23), GoTo("l", 24))>>)), Lab("l", 25)>>),
  B(<<Lab("l", 20), Lab("k", 21), Ex(22), If(T(23), B(<<New("x", 24), GoTo("k", 25)>>))>>),
  B(<<Obj("o", 20), If(T(21), Ret), IfElse(T(22), B(<<New("x", 23), GoTo("l", 24)>>), Ret), Lab("l", 25), Ex(26)>>)}}

(* Names: hidden, hiding, never used                                        *)
Named == {B(ss) : ss \in {
  <<IfElse(T(1), RetV(2, "p"), B(<<Const("k", 3)>>))>>,
  <<New("x", 1), B(<<New("x", 2), See(3, "x")>>), See(4, "x")>>,
  <<New("x", 1), B(<<New("x", 2), See(3, "x")>>)>>,
  <<Set("x", 1, "p"), B(<<Set("y", 2, "x"), B(<<Const("x", 3), Set("y", 4, "x")>>)>>)>>,
  <<Const("x", 1), For(New("x", 2), TSee(3, "x"), Nothing, B(<<Arr("x", 4, 3), See(5, "x")>>))>>,
  <<Static(New("x", 1)), B(<<Static(New("x", 2)), See(3, "x"), Arr("y", 4, 2), New("x2", 5), See(6, "x2")>>), See(7, "x")>>,
  <<[Arr("v", 1, 2) EXCEPT !.dims = <<2, 3>>], New("w", 2), See(3, "w"), B(<<New("v", 4), See(5, "v")>>), See(6, "v")>>,
  <<Obj("o", 1), [Arr("v", 2, 2) EXCEPT !.dims = <<2, 3>>], See(3, "v")>>,
  <<Obj("o", 1), B(<<Obj("o", 2), [Obj("q", 3) EXCEPT !.dims = <<3>>], If(T(4), RetV(5, "o")), See(6, "q")>>), See(7, "o")>>}}

MCBodies == Simple \cup Looping \cup Nested \cup Within2 \cup Labelled \cup Named
=============================================================================
