----------------------------- MODULE Evaluation -----------------------------
(***************************************************************************)
(* What an expression means, without registers, stack and heap, and the     *)
(* properties of the code that module Expressions generates for it.         *)
(*                                                                          *)
(* A state is the memory, the calls made and whether the program has been   *)
(* stopped by a bad index or divisor; Meaning(e, s) is the value of e in s, *)
(* its tag, and the state after.  Operands are evaluated from the   *)
(* left to the right, the arguments of a call from the last to the first.   *)
(***************************************************************************)
EXTENDS Expressions

Result(v, tag, s) == [v |-> v, tag |-> tag, s |-> s]
At(addr, tag, dims, s) == [addr |-> addr, tag |-> tag, dims |-> dims, s |-> s]

(* A call of f, or of the user's operator f.                                *)
Invoke(f, args, tag, s) ==
  Result(Returned(f, args), tag,
         [s EXCEPT !.mem = Changed(f, args, @), !.calls = Append(@, <<f, Seen(f, args)>>)])
Operand(v) == [seen |-> <<v>>, addr |-> Temporary]

Binary(o, a, b, s) ==
  LET name == <<o, a.tag, b.tag>>  mirror == <<o, b.tag, a.tag>> IN
  IF name \in DOMAIN UserOps
  THEN Invoke(name, <<Operand(a.v), Operand(b.v)>>, UserOps[name], s)
  ELSE IF mirror \in DOMAIN UserOps /\ Commutative(o)
  THEN Invoke(mirror, <<Operand(b.v), Operand(a.v)>>, UserOps[mirror], s)
  ELSE IF o \in {"/", "%"} /\ b.v = 0 THEN Result(0, a.tag, [s EXCEPT !.trap = TRUE])
  ELSE Result(Apply(o, a.v, b.v), a.tag, s)

OnOne(o, a, s, otherwise) ==
  LET name == <<o, a.tag>> IN
  IF name \in DOMAIN UserOps THEN Invoke(name, <<Operand(a.v)>>, UserOps[name], s)
  ELSE Result(otherwise, a.tag, s)

(* The value as it is assigned to a place, or an argument, of that tag      *)
Converted(r, tag) ==
  LET name == <<"=", r.tag, tag>> IN
  IF name \in DOMAIN UserOps THEN Invoke(name, <<Operand(r.v)>>, UserOps[name], r.s) ELSE r

Read(a) == Result(a.s.mem[a.addr], a.tag, a.s)     \* what is at a place
Update(s, addr, v) == [s EXCEPT !.mem[addr] = v]
CellsAt(addr, n, s) == [k \in 1 .. n |-> s.mem[addr + (k - 1) * CellBytes]]

(* The element at the index i of an array                                   *)
Element(a, i) ==
  LET first == IF Len(a.dims) > 1 THEN a.addr + Head(a.dims) * CellBytes ELSE a.addr
      size == IF Len(a.dims) > 1 THEN a.dims[2] ELSE 1
  IN IF i.v \in 0 .. Head(a.dims) - 1
     THEN At(first + i.v * size * CellBytes, a.tag, Tail(a.dims), i.s)
     ELSE At(first, a.tag, Tail(a.dims), [i.s EXCEPT !.trap = TRUE])

RECURSIVE Meaning(_, _)

(* The place of an lvalue or an array                                       *)
RECURSIVE Place(_, _)
Place(e, s) ==
  CASE e.op = "sym" ->
         LET y == Symbols[e.s]
             a == IF y.vclass = "local" THEN Frame + y.addr ELSE y.addr
         IN At(IF y.ident \in {"reference", "refarray"} THEN s.mem[a] ELSE a, y.tag, y.dims, s)
    [] e.op = "tag" -> [Place(e.e, s) EXCEPT !.tag = e.tag]
    [] e.op = "cond" -> LET c == Meaning(e.c, s) IN Place(IF c.v # 0 THEN e.a ELSE e.b, c.s)
    [] e.op = "index" ->
         LET a == Place(e.a, s) IN Element(a, Meaning(e.i, a.s))

(* An array: what is in it, and where it is unless a function returns it    *)
RECURSIVE ArrayValue(_, _)
ArrayValue(e, s) ==
  CASE e.op = "call" ->
         LET r == Meaning(e, s) IN
         [seen |-> [k \in 1 .. Funcs[e.f].returns |-> Wrap(r.v + k)], addr |-> Temporary, s |-> r.s]
    [] e.op = "cond" -> LET c == Meaning(e.c, s) IN ArrayValue(IF c.v # 0 THEN e.a ELSE e.b, c.s)
    [] OTHER -> LET a == Place(e, s) IN
                [seen |-> CellsAt(a.addr, IF a.dims = <<>> THEN 2 ELSE Cells([dims |-> a.dims]), a.s),
                 addr |-> a.addr, s |-> a.s]

RECURSIVE Plain(_)
Plain(e) == e.op \in {"sym", "index"} \/ (e.op = "tag" /\ Plain(e.e))

(* A variable that is declared constant: a function that may change its     *)
(* argument gets the value only                                             *)
RECURSIVE Fixed(_)
Fixed(e) == \/ e.op = "sym" /\ Symbols[e.s].const
            \/ e.op = "tag" /\ Fixed(e.e)

Passed(formal, e, s) ==
  CASE formal.kind = "array" -> ArrayValue(e, s)
    [] formal.kind = "value" ->
         LET r == Converted(Meaning(e, s), formal.tag) IN
         [seen |-> <<r.v>>, addr |-> Temporary, s |-> r.s]
    [] formal.kind \in {"reference", "varargs"} /\ Plain(e) /\ (Fixed(e) => formal.const) ->
         LET a == Place(e, s) IN [seen |-> <<a.s.mem[a.addr]>>, addr |-> a.addr, s |-> a.s]
    [] OTHER -> LET r == Meaning(e, s) IN [seen |-> <<r.v>>, addr |-> Temporary, s |-> r.s]

(* An argument that is not given: no call can change a literal default      *)
DefaultArgument(formal, s) ==
  IF formal.kind = "value"
  THEN LET r == Converted(Result(Head(formal.default), formal.dtag, s), formal.tag) IN
       [seen |-> <<r.v>>, addr |-> Temporary, s |-> r.s]
  ELSE [seen |-> formal.default, addr |-> IF formal.named THEN formal.addr ELSE Temporary, s |-> s]

Called(f, es, s) ==
  LET nargs == Nargs(f, es)
      Take(acc, k) ==
        LET a == IF Given(es, k) THEN Passed(Formal(f, k), es[k], acc.s) ELSE DefaultArgument(Formal(f, k), acc.s)
        IN [args |-> <<a>> \o acc.args, s |-> a.s]
      all == FoldLeft(Take, [args |-> <<>>, s |-> s], [k \in 1 .. nargs |-> nargs + 1 - k])
      now(a) == IF a.addr = Temporary THEN a
                ELSE [a EXCEPT !.seen = CellsAt(a.addr, Len(a.seen), all.s)]   \* as the call finds it
  IN Invoke(f, [k \in 1 .. nargs |-> now(all.args[k])], Funcs[f].tag, all.s)

CopiedTo(to, from) ==
  LET cell(k) == to.addr + (k - 1) * CellBytes
      here(a) == {k \in DOMAIN from.seen : cell(k) = a}
  IN Result(0, 0, [from.s EXCEPT !.mem =
       [a \in DOMAIN @ |-> IF here(a) # {} THEN from.seen[CHOOSE k \in here(a) : TRUE] ELSE @[a]]])
Kept(to, new) == [new EXCEPT !.s = Update(new.s, to.addr, new.v)]
AssignedTo(to, e) ==
  IF to.dims # <<>> THEN CopiedTo(to, ArrayValue(e.r, to.s))
  ELSE LET right == Meaning(e.r, to.s)
           new == IF e.o = "" THEN right ELSE Binary(e.o, Read(to), right, right.s)
       IN Kept(to, Converted(new, to.tag))

(* !, ~ and -; ++ and -- before and after their operand                     *)
Changing(o, r) ==
  LET n == ApplyUnary(o, r.v)
      u == OnOne(o, r, r.s, n)
  IN IF o = "~" THEN [r EXCEPT !.v = n]
     ELSE IF o = "!" /\ <<"!", r.tag>> \notin DOMAIN UserOps THEN [u EXCEPT !.tag = BoolTag] ELSE u
Stepped(prefix, a, old, new) ==
  Result(IF prefix THEN new.v ELSE old.v, new.tag, Update(new.s, a.addr, new.v))
Stepping(o, prefix, a) ==
  LET old == Read(a)
  IN Stepped(prefix, a, old, OnOne(o, old, a.s, Wrap(old.v + IF o = "++" THEN 1 ELSE -1)))

Meaning(e, s) ==
  CASE e.op = "const" -> Result(e.n, e.tag, s)
    [] e.op \in {"sym", "index"} -> Read(Place(e, s))
    [] e.op = "tag"   -> [Meaning(e.e, s) EXCEPT !.tag = e.tag]
    [] e.op = "unary" -> Changing(e.o, Meaning(e.e, s))
    [] e.op = "step"  -> Stepping(e.o, e.prefix, Place(e.e, s))
    [] e.op = "row"   -> FoldLeft(LAMBDA acc, k : LET b == Meaning(e.es[k + 1], acc.s)
                                                      r == Binary(e.os[k], acc, b, b.s)
                                                  IN IF e.os[k] \in {"==", "!="} THEN [r EXCEPT !.tag = BoolTag] ELSE r,
                                  Meaning(Head(e.es), s), [k \in DOMAIN e.os |-> k])
    [] e.op = "chain" -> LET first == Meaning(Head(e.es), s)
                             Link(acc, k) == LET b == Meaning(e.es[k + 1], acc.last.s)
                                                 r == Binary(e.os[k], acc.last, b, b.s)
                                             IN [all |-> Apply("&", acc.all, r.v), last |-> [b EXCEPT !.s = r.s]]
                             end == FoldLeft(Link, [all |-> -1, last |-> first], [k \in DOMAIN e.os |-> k])
                         IN Result(end.all, BoolTag, end.last.s)
    [] e.op = "skim"  -> FoldLeft(LAMBDA acc, x : IF (acc.v # 0) = (e.o = "||") THEN acc
                                                  ELSE LET r == Meaning(x, acc.s) IN Result(Truth(r.v # 0), BoolTag, r.s),
                                  Result(Truth(e.o = "&&"), BoolTag, s), e.es)
    [] e.op = "cond"  -> LET c == Meaning(e.c, s) IN Meaning(IF c.v # 0 THEN e.a ELSE e.b, c.s)
    [] e.op = "comma" -> FoldLeft(LAMBDA acc, x : Meaning(x, acc.s), Result(0, 0, s), e.es)
    [] e.op = "assign" -> AssignedTo(Place(e.l, s), e)
    [] e.op = "call"  -> Called(e.f, e.es, s)

-----------------------------------------------------------------------------
(* Expressions the compiler is known to translate into something else; the  *)
(* README says what goes wrong with each.                                   *)

Sub(e) == CASE e.op = "index" -> {e.a, e.i}
            [] e.op \in {"tag", "unary", "step"} -> {e.e}
            [] e.op \in {"row", "chain", "skim", "comma"} -> Range(e.es)
            [] e.op = "call" -> Range(e.es) \ {Ignored}
            [] e.op = "cond" -> {e.c, e.a, e.b}
            [] e.op = "assign" -> {e.l, e.r}
            [] OTHER -> {}
RECURSIVE Parts(_)
Parts(e) == {e} \cup UNION {Parts(x) : x \in Sub(e)}

(* Each looks at an expression e and at what is known of its parts, val.    *)
NegatedCell(e, val) == e.op = "unary" /\ val[e].ident = "arraycell"

(* 1 < 2 < x                                                                *)
AdjacentConstants(e, val) ==
  e.op = "chain" /\ Len(e.os) > 1 /\ \E k \in DOMAIN e.os : IsConst(val[e.es[k]]) /\ IsConst(val[e.es[k + 1]])
(* f(-a[i]) where f has an argument without a fixed place: ... or an array  *)
NegatedCellArgument(e, val) ==
  e.op = "call" /\ \E k \in DOMAIN e.es : e.es[k] # Ignored /\ NegatedCell(e.es[k], val)
                     /\ Formal(e.f, k).kind \in {"varargs", "array"}
(* f(-c) where c is declared constant and f takes its argument as ...       *)
NegatedConstantArgument(e, val) ==
  e.op = "call" /\ \E k \in DOMAIN e.es : e.es[k] # Ignored /\ e.es[k].op = "unary"
                     /\ Formal(e.f, k).kind = "varargs" /\ Protected(Formal(e.f, k), val[e.es[k]])
(* 50 % 60, where the divisor is more than half of what a cell can hold;    *)
(* the operands may come from anywhere, so every expression with a division *)
(* and a constant of that size is left out.                                 *)
FoldedModulus(e) ==
  e.op \in {"row", "assign"} /\ \E x \in Parts(e) : x.op = "const" /\ Magnitude(x.n) > Half \div 2
    /\ \E y \in Parts(e) : y.op = "row" /\ (\E k \in DOMAIN y.os : y.os[k] \in {"/", "%"})
(* t++ where the user has redefined ++ and t is no array cell               *)
PostfixUserop(e, val) ==
  e.op = "step" /\ ~e.prefix /\ <<e.o, val[e.e].tag>> \in DOMAIN UserOps /\ val[e.e].ident # "arraycell"
(* t -= 1 where the user has redefined the assignment of 1 to t             *)
CompoundConversion(e, val) ==
  e.op = "assign" /\ e.o # "" /\ <<"=", val[e.r].tag, val[e.l].tag>> \in DOMAIN UserOps
(* (f(), 1)                                                                 *)
ConstantAfterComma(e, val) == e.op = "comma" /\ IsConst(val[e]) /\ val[e].effect
(* x && g() where g returns an array                                        *)
ConditionalArray(e, val) == e.op = "skim" /\ \E k \in 2 .. Len(e.es) : val[e.es[k]].heap > 0

Wrong(e, val) ==
  \/ AdjacentConstants(e, val) \/ NegatedCellArgument(e, val) \/ NegatedConstantArgument(e, val)
  \/ FoldedModulus(e)
  \/ PostfixUserop(e, val) \/ CompoundConversion(e, val) \/ ConstantAfterComma(e, val)
  \/ ConditionalArray(e, val)
Values == [x \in Parts(expr) |-> Parse(x, <<>>)]
Mistranslated == \E x \in Parts(expr) : Wrong(x, Values)

-----------------------------------------------------------------------------
(* Properties *)

Observable(mem) == [a \in {b \in DOMAIN mem : b < HeapBase} |-> mem[a]]
Intended == Meaning(expr, [mem |-> start, calls |-> <<>>, trap |-> FALSE])
IsScalar == ~IsArray(value) /\ ~(expr.op = "assign" /\ IsArray(Parse(expr.l, <<>>)))

Agrees(r) ==
  IF r.s.trap THEN m.fault \in {"bounds", "divide"}
  ELSE /\ m.fault = NoFault
       /\ IsScalar => m.pri = r.v
       /\ Observable(m.mem) = Observable(r.s.mem)
       /\ m.calls = r.s.calls
Faithful == Agrees(Intended)

(* The generated code computes the value of the expression, changes the     *)
(* variables and makes the calls the expression stands for, in this order,  *)
(* whatever is folded, scrapped, swapped or loaded late (plnge2(), skim(),  *)
(* check_userop(), callfunction()).                                         *)
CodeMeansExpression == Ran /\ ~Mistranslated => Faithful

(* When the expression is done, nothing is left on the stack or the heap,   *)
(* though arrays that functions return stay on the heap until the end and   *)
(* only one branch of a conditional is executed (decl_heap, hier13()).      *)
(* This is so even where the code computes something else than is meant.    *)
KeepsArray == \E x \in Parts(expr) : ConditionalArray(x, Values)
NothingLeft == Ran /\ m.fault = NoFault /\ ~KeepsArray => m.stack = <<>> /\ m.hea = HeapBase

(* The warning that an expression has no effect (215) is given by the value *)
(* of sideeffect; an expression that does something never gets it.          *)
UselessDoesNothing ==
  Ran /\ ~value.effect => m.calls = <<>> /\ Observable(m.mem) = Observable(start)
=============================================================================
