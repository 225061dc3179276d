---------------------------- MODULE Expressions ----------------------------
(***************************************************************************)
(* The expression parser and code generator (sc3.c, with the emitters of    *)
(* sc4.c): what the functions hier14() to hier1(), primary(), constant(),   *)
(* plnge*(), skim() and callfunction() generate for an expression, and what *)
(* that code does when the abstract machine runs it.                        *)
(*                                                                          *)
(* An expression is its syntax tree, the operators of one level of the      *)
(* hierarchy in one node, for they are parsed by one loop.  A parenthesised *)
(* operand goes through hier14() as any operand does in the end.  The       *)
(* functions return what the parser keeps in a "value" structure, together  *)
(* with the code that is in the staging buffer by then; stgdel() is a code  *)
(* that is not kept.  Packed characters, literal arrays, sizeof, tagof and  *)
(* expressions inside a test (sc_intest) are left out.                      *)
(***************************************************************************)
EXTENDS Machine, FiniteSetsExt, Functions

CONSTANTS
  Symbols,     \* the variables: their ident, class, address, tag, dimensions and uCONST
  Funcs,       \* the functions: their arguments and what they return; names are sequences
  UserOps,     \* the operators redefined for a tag, with the tag they return
  Memories,    \* the contents of the memory to begin with
  Exprs,       \* the expressions
  Garbage,     \* what PRI and ALT hold to begin with
  Limit        \* bound: instructions that are executed

VARIABLES
  expr,        \* the expression
  value,       \* what expression() knows of it
  code,        \* the code generated
  start,       \* the memory before
  m,           \* the machine
  steps        \* the instructions executed

vars == <<expr, value, code, start, m, steps>>

-----------------------------------------------------------------------------
(* The emitters of sc4.c *)

Ldconst(n, reg) == IF n = 0 THEN <<<<"zero." \o reg>>>> ELSE <<<<"const." \o reg, n>>>>
Pushreg(reg) == <<<<"push." \o reg>>>>
Popreg(reg) == <<<<"pop." \o reg>>>>
Modheap(n) == IF n = 0 THEN <<>> ELSE <<<<"heap", n * CellBytes>>>>
Setheap_pri == <<<<"heap", CellBytes>>, <<"stor.i">>, <<"move.pri">>>>
Memcopy(cells) == <<<<"movs", cells * CellBytes>>>>
Cell2addr == <<<<"shl.c.pri", CHOOSE k \in 0 .. CellBytes : 2 ^ k = CellBytes>>>>
Ffbounds(length) == <<<<"bounds", length - 1>>>>

Local(v) == Symbols[v.sym].vclass = "local"
Addr(v) == Symbols[v.sym].addr

Rvalue(v) ==
  CASE v.ident = "arraycell" -> <<<<"load.i">>>>
    [] v.ident = "reference" -> <<<<"lref.s.pri", Addr(v)>>>>
    [] OTHER -> <<<<IF Local(v) THEN "load.s.pri" ELSE "load.pri", Addr(v)>>>>

Store(v) ==
  CASE v.ident = "arraycell" -> <<<<"stor.i">>>>
    [] v.ident = "reference" -> <<<<"sref.s.pri", Addr(v)>>>>
    [] OTHER -> <<<<IF Local(v) THEN "stor.s.pri" ELSE "stor.pri", Addr(v)>>>>

Address(v) ==
  <<<<CASE Symbols[v.sym].ident \in {"refarray", "reference"} -> "load.s.pri"
        [] Local(v) -> "addr.pri"
        [] OTHER -> "const.pri", Addr(v)>>>>

(* inc() and dec(); what is "inc" or "dec"                                  *)
Step(what, v) ==
  CASE v.ident = "arraycell" -> <<<<what \o ".i">>>>
    [] v.ident = "reference" ->
         Pushreg("pri") \o Rvalue(v) \o <<<<what \o ".pri">>>> \o Store(v) \o Popreg("pri")
    [] OTHER -> <<<<IF Local(v) THEN what \o ".s" ELSE what, Addr(v)>>>>

Arithmetic(o) ==
  CASE o = "*" -> <<<<"smul">>>>
    [] o = "/" -> <<<<"sdiv.alt">>>>
    [] o = "%" -> <<<<"sdiv.alt">>, <<"move.pri">>>>
    [] o = "+" -> <<<<"add">>>>
    [] o = "-" -> <<<<"sub.alt">>>>

Bits(o) ==
  CASE o = "<<"  -> <<<<"xchg">>, <<"shl">>>>
    [] o = ">>"  -> <<<<"xchg">>, <<"sshr">>>>
    [] o = ">>>" -> <<<<"xchg">>, <<"shr">>>>
    [] o = "|"   -> <<<<"or">>>>
    [] o = "^"   -> <<<<"xor">>>>
    [] o = "&"   -> <<<<"and">>>>

Relation(o) ==
  CASE o = "==" -> <<<<"eq">>>>
    [] o = "!=" -> <<<<"neq">>>>
    [] o = "<"  -> <<<<"xchg">>, <<"sless">>>>
    [] o = "<=" -> <<<<"xchg">>, <<"sleq">>>>
    [] o = ">"  -> <<<<"xchg">>, <<"sgrtr">>>>
    [] o = ">=" -> <<<<"xchg">>, <<"sgeq">>>>

Oper(o) == CASE o \in {"*", "/", "%", "+", "-"} -> Arithmetic(o)
             [] o \in {"<<", ">>", ">>>", "|", "^", "&"} -> Bits(o)
             [] OTHER -> Relation(o)

Relop_prefix == <<<<"push.pri">>, <<"move.pri">>>>
Relop_suffix == <<<<"swap.alt">>, <<"and">>, <<"pop.alt">>>>

Unary(o) == <<<<CASE o = "!" -> "not" [] o = "-" -> "neg" [] o = "~" -> "invert">>>>

(* The number of arguments, the call and the room it leaves on the stack.   *)
Ffcall(f, native, n) ==
  <<<<"push.c", n * CellBytes>>>> \o
  IF native THEN <<<<"sysreq.c", f>>, <<"stack", (n + 1) * CellBytes>>>> ELSE <<<<"call", f>>>>

BoolTag == -1     \* pc_addtag("bool"); 0 is no tag
CommutativeMinus(o) == o \in {"+", "-", "*", "==", "!=", "&", "^", "|"}   \* mutant: one too many
Commutative(o) == o \in {"+", "*", "==", "!=", "&", "^", "|"}
Relational(o) == o \in {"<", "<=", ">", ">="}

-----------------------------------------------------------------------------
(* The "value" structure.  "lvalue" is what the functions of the hierarchy  *)
(* return, "idx" the constant indices of an array cell, "heap" the cells of *)
(* decl_heap, "says" the errors and warnings, "effect" is sideeffect.       *)

Clear_value ==
  [ident |-> "none", const |-> 0, sym |-> "", dims |-> <<>>, tag |-> 0, lvalue |-> FALSE,
   idx |-> <<>>, code |-> <<>>, heap |-> 0, says |-> {}, effect |-> FALSE, sofar |-> TRUE]

Unknown == <<-1>>     \* an index that is not constant
IsConst(v) == v.ident = "constexpr"
IsArray(v) == v.ident \in {"array", "refarray"}
Constant(v) == v.sym # "" /\ Symbols[v.sym].const          \* uCONST

(* What one parse adds to another: the messages, the side effects, the heap *)
WithOwnHeap(v, w) == [v EXCEPT !.says = @ \cup w.says, !.effect = @ \/ w.effect]   \* mutant
WithOwnEffect(v, w) == [v EXCEPT !.says = @ \cup w.says, !.heap = @ + w.heap]      \* mutant
With(v, w) == [v EXCEPT !.says = @ \cup w.says, !.effect = @ \/ w.effect, !.heap = @ + w.heap]
Say(v, c, n) == [v EXCEPT !.says = IF c THEN @ \cup {n} ELSE @]
Then(v, c) == [v EXCEPT !.code = @ \o c]

(* The code that loads an lvalue, and also a constant that is not loaded.   *)
Fetched(v) == IF v.lvalue THEN v.code \o Rvalue(v) ELSE v.code
Loaded(v) == IF IsConst(v) THEN v.code \o Ldconst(v.const, "pri") ELSE Fetched(v)

(* check_userop() for a binary operator or, with "=", for an assignment to  *)
(* lval: the user's operator gets the operands or, if only the other order  *)
(* of the tags is declared, the operands swapped.                           *)
NoUserop == [found |-> FALSE, tag |-> 0, code |-> <<>>]

Check_userop(o, tag1, tag2, lval) ==
  LET swap == <<o, tag1, tag2>> \notin DOMAIN UserOps
      name == IF swap THEN <<o, tag2, tag1>> ELSE <<o, tag1, tag2>>
      savealt == o = "=" /\ lval.ident = "arraycell"
      save == IF Relational(o) THEN Pushreg("pri")
              ELSE IF savealt THEN Pushreg("alt") ELSE <<>>
      params == IF o = "=" THEN Pushreg("pri")
                ELSE IF swap THEN Pushreg("alt") \o Pushreg("pri")
                ELSE Pushreg("pri") \o Pushreg("alt")
  IN IF (tag1 = 0 /\ tag2 = 0) \/ name \notin DOMAIN UserOps
        \/ (swap /\ (tag1 = tag2 \/ ~Commutative(o)))
     THEN NoUserop
     ELSE [found |-> TRUE, tag |-> UserOps[name],
           code |-> save \o params \o Ffcall(name, FALSE, IF o = "=" THEN 1 ELSE 2)
                    \o IF save = <<>> THEN <<>> ELSE Popreg("alt")]

Check_unary(o, lval) ==
  LET name == <<o, lval.tag>>
      cell == lval.ident = "arraycell"
      call == Pushreg("pri") \o Ffcall(name, FALSE, 1)
  IN IF lval.tag = 0 \/ name \notin DOMAIN UserOps THEN NoUserop
     ELSE [found |-> TRUE, tag |-> UserOps[name],
           code |-> IF o \in {"!", "-"} THEN call
                    ELSE (IF cell THEN Pushreg("pri") ELSE <<>>) \o Rvalue(lval) \o call
                         \o (IF cell THEN Popreg("alt") ELSE <<>>) \o Store(lval)
                         \o <<<<"move.pri">>>>]

-----------------------------------------------------------------------------
(* Constant expressions: calc() computes with C's operators, whose division *)
(* rounds towards zero, in a cell.                                          *)

Magnitude(n) == IF n < 0 THEN -n ELSE n
CQuotient(a, b) ==
  LET q == Magnitude(a) \div Magnitude(b) IN IF (a < 0) = (b < 0) THEN q ELSE -q
CRemainder(a, b) == a - b * CQuotient(a, b)
Truemodulus(a, b) == CRemainder(Wrap(CRemainder(a, b) + b), b)

Calc(left, o, right) ==
  CASE o = "/" -> Wrap(CQuotient(Wrap(left - Truemodulus(left, right)), right))
    [] o = "%" -> Truemodulus(left, right)
    [] OTHER -> Apply(o, left, right)

-----------------------------------------------------------------------------
(* plnge2(): an operator, its left operand l, whose code is generated, and  *)
(* its right operand r.  With o = "" the operator is generated later.       *)
(* The result is the left operand's value structure and the right one's,    *)
(* which may have changed places.                                           *)

Operands(o, l, r) ==
  IF IsConst(l) THEN l.code \o Loaded(r) \o Ldconst(l.const, "alt")
  ELSE IF IsConst(r) /\ Commutative(o) THEN l.code \o Ldconst(r.const, "alt")
  ELSE l.code \o Pushreg("pri") \o Loaded(r) \o Popreg("alt")

Folded(v, o, l, r) ==
  [Then(v, l.code) EXCEPT
     !.ident = "constexpr", !.sym = l.sym,
     !.const = IF Relational(o) THEN r.const ELSE Calc(l.const, o, r.const),
     !.sofar = @ /\ (Relational(o) => Apply(o, l.const, r.const) = 1)]
(* "both" is what the two parses have found out, "user" the user's operator *)
Operated(o, l, r, both, user) ==
  LET expression == Then([both EXCEPT !.ident = "expression"], Operands(o, l, r)) IN
  CASE user.found -> [Then(expression, user.code) EXCEPT !.tag = user.tag, !.effect = TRUE]
    [] ~user.found /\ IsConst(l) /\ IsConst(r) -> Folded(both, o, l, r)
    [] OTHER -> Then(expression, Oper(o))
Both(o, l, r, first) ==
  Say(With(With([Clear_value EXCEPT !.tag = first.tag, !.sofar = l.sofar], l), r),
      o # "" /\ (IsArray(l) \/ IsArray(r)), 33)

Plnge2(o, l, r) ==
  LET swapped == ~IsConst(l) /\ IsConst(r) /\ Commutative(o)
      l1 == IF swapped THEN r ELSE l
      r1 == IF swapped THEN l ELSE r
      both == Both(o, l, r, l1)
  IN IF o = "" THEN [l |-> Then(both, Operands(o, l, r)), r |-> r]
     ELSE [l |-> Operated(o, l, r, both, Check_userop(o, l1.tag, r1.tag, Clear_value)), r |-> r1]

RECURSIVE Parse(_, _)

(* plnge1(): a constant is loaded later.                                    *)
Late(v) == IF IsConst(v) THEN [v EXCEPT !.code = <<>>] ELSE v
Plnge1(e, p) == Late(Parse(e, p))

(* hier14() of an expression that is no assignment loads it here.           *)
Early(v) == IF IsConst(v) THEN [v EXCEPT !.code = Ldconst(v.const, "pri")] ELSE v
Hier14(e, p) == Early(Plnge1(e, p))

(* plnge(): a row of operators of one level, from the left to the right.    *)
RECURSIVE Plnge(_, _, _, _, _)
Plnge(os, es, p, l, k) ==
  IF k > Len(os) THEN l
  ELSE LET next == Plnge2(os[k], l, Plnge1(es[k + 1], Append(p, k + 1))).l
           equality == os[k] \in {"==", "!="}
       IN Plnge(os, es, p, [next EXCEPT !.tag = IF equality THEN BoolTag ELSE @], k + 1)

(* plnge_rel(): a chain of comparisons; from the second on the left operand *)
(* is the right operand of the one before, which is in ALT.                 *)
RECURSIVE Plnge_rel(_, _, _, _, _, _)
Plnge_rel(os, es, p, l, before, k) ==
  IF k > Len(os) THEN [l EXCEPT !.const = Truth(l.sofar), !.tag = BoolTag]
  ELSE LET left == IF k = 1 THEN l
                   ELSE [before EXCEPT !.code = l.code \o Relop_prefix, !.sofar = l.sofar,
                           !.says = l.says, !.effect = l.effect, !.heap = l.heap, !.lvalue = FALSE]
           r == Plnge1(es[k + 1], Append(p, k + 1))
           pair == Plnge2(os[k], left, r)
       IN Plnge_rel(os, es, p, IF k = 1 THEN pair.l ELSE Then(pair.l, Relop_suffix), pair.r, k + 1)

(* The first operand, loaded if it is an lvalue.                            *)
Rvalued(l) == IF l.lvalue THEN [Then(l, Rvalue(l)) EXCEPT !.lvalue = FALSE] ELSE l
FirstOperand(e, p) == Rvalued(Plnge1(e, Append(p, 1)))

(* skim() for || and &&: the first operand that decides drops out.          *)
Operandvalues(es, p) == [k \in DOMAIN es |-> Plnge1(es[k], Append(p, k))]
Skim(o, vs, p) ==
  LET drop == <<p, "drop">>
      end == <<p, "end">>
      jump == <<<<IF o = "||" THEN "jnz" ELSE "jzer", drop>>>>
      allconst == \A k \in DOMAIN vs : IsConst(vs[k])
      truth(k) == vs[k].const # 0
      result == FoldLeft(LAMBDA v, w : With(v, w), Clear_value, vs)
  IN [result EXCEPT
       !.tag = BoolTag,
       !.ident = IF allconst THEN "constexpr" ELSE "expression",
       !.const = IF ~allconst THEN 0
                 ELSE IF o = "||" THEN Truth(\E k \in DOMAIN vs : truth(k))
                 ELSE Truth(\A k \in DOMAIN vs : truth(k)),
       !.code = FlattenSeq([k \in DOMAIN vs |-> Loaded(vs[k]) \o jump])
                \o Ldconst(Truth(o = "&&"), "pri") \o <<<<"jump", end>>, <<"label", drop>>>>
                \o Ldconst(Truth(o = "||"), "pri") \o <<<<"label", end>>>>]

(* hier13(): the branch that uses less of the heap reserves the difference, *)
(* which the first pass has found out.                                      *)
Conditional(test, yes, no, p) ==
  LET most == IF yes.heap > no.heap THEN yes.heap ELSE no.heap
      else == <<p, "else">>
      end == <<p, "end">>
      result == Say(With(With(yes, no), test), IsArray(yes) # IsArray(no), 33)
  IN [Say(result, IsConst(test), IF test.const = 0 THEN 205 ELSE 206) EXCEPT
       !.ident = IF IsArray(yes) THEN "refarray" ELSE "expression",
       !.lvalue = FALSE,
       !.heap = test.heap + most,
       !.code = Loaded(test) \o <<<<"jzer", else>>>> \o Modheap(most - yes.heap) \o Loaded(yes)
                \o <<<<"jump", end>>, <<"label", else>>>> \o Modheap(most - no.heap) \o Loaded(no)
                \o <<<<"label", end>>>>]

-----------------------------------------------------------------------------
(* hier1() and primary(): variables and array elements *)

Primary(s) ==
  LET sym == Symbols[s]
      v == [Clear_value EXCEPT !.ident = sym.ident, !.sym = s, !.tag = sym.tag, !.dims = sym.dims]
  IN IF IsArray(v) THEN [v EXCEPT !.code = Address(v)] ELSE [v EXCEPT !.lvalue = TRUE]

(* ( a, b ): the value is the last one's; what is in the buffer is all of it *)
Comma(vs) ==
  LET said == FoldLeft(With, Clear_value, Front(vs)) IN
  [With(Last(vs), said) EXCEPT !.code = FlattenSeq([k \in DOMAIN vs |-> vs[k].code])]

(* a[i]; if a has more dimensions, the element holds the distance to the    *)
(* array it stands for.                                                     *)
Subscript(base, index) ==
  LET length == Head(base.dims)
      known == IsConst(index)
      offset == CASE known /\ index.const = 0 -> <<>>
                  [] known /\ index.const # 0 ->
                       Ldconst(index.const * CellBytes, "alt") \o <<<<"add">>>>
                  [] OTHER -> Pushreg("pri") \o Loaded(index) \o Ffbounds(length) \o Cell2addr
                              \o Popreg("alt") \o <<<<"add">>>>
      at == With(Then(base, offset), index)
      checked == Say(Say(at, IsArray(index), 33), known /\ index.const \notin 0 .. length - 1, 32)
      indexed == [checked EXCEPT
                    !.idx = IF known /\ @ # Unknown THEN Append(@, index.const) ELSE Unknown]
  IN IF ~IsArray(base) THEN Say(base, TRUE, 28)
     ELSE IF Len(base.dims) > 1
     THEN [Then(indexed, Pushreg("pri") \o <<<<"load.i">>>> \o Popreg("alt") \o <<<<"add">>>>)
             EXCEPT !.ident = "refarray", !.dims = Tail(@)]
     ELSE [indexed EXCEPT !.ident = "arraycell", !.lvalue = TRUE, !.const = 0]

(* hier2(): the unary operators.  The value structure stays what it was for *)
(* the operand, a constant, a variable or an array cell.                    *)
Unop(o, v) ==
  LET user == IF o = "~" THEN NoUserop ELSE Check_unary(o, v)
      tag == IF o = "!" THEN BoolTag ELSE v.tag
      x == [v EXCEPT !.lvalue = FALSE]
  IN IF user.found
     THEN [x EXCEPT !.ident = "expression", !.const = 0, !.tag = user.tag, !.effect = TRUE,
                    !.code = Fetched(v) \o user.code]
     ELSE [x EXCEPT !.const = ApplyUnary(o, @), !.tag = tag, !.code = Fetched(v) \o Unary(o)]

(* ++ and -- after their operand: the old value is saved while it changes.  *)
Postfix(v, change) ==
  IF v.ident = "arraycell"
  THEN Pushreg("pri") \o Rvalue(v) \o <<<<"swap.pri">>>> \o change \o Popreg("pri")
  ELSE Rvalue(v) \o change

(* ++ and --, before and after their operand *)
Increment(o, prefix, v) ==
  LET user == Check_unary(o, v)
      change == IF user.found THEN user.code ELSE Step(IF o = "++" THEN "inc" ELSE "dec", v)
  IN IF ~v.lvalue \/ Constant(v) THEN Say(v, TRUE, 22)
     ELSE [Then(v, IF prefix THEN change \o Rvalue(v) ELSE Postfix(v, change)) EXCEPT
             !.ident = "expression", !.lvalue = FALSE, !.effect = TRUE,
             !.tag = IF user.found THEN user.tag ELSE @]

-----------------------------------------------------------------------------
(* hier14(): assignments *)

Cells(v) == FoldLeft(LAMBDA n, d : d * (1 + n), 0, Reverse(v.dims))     \* array_totalsize()

ArrayAssignment(o, l, r) ==
  LET sized == IF Len(l.dims) = 1 THEN Head(r.dims) <= Head(l.dims) ELSE l.dims = r.dims
      error == CASE o # "" -> {23}
                 [] ~IsArray(r) -> {33}
                 [] Len(l.dims) # Len(r.dims) -> {48}
                 [] ~sized -> {47}
                 [] OTHER -> {}
      both == Plnge2("", l, r).l
  IN [Then(both, Memcopy(Cells(r))) EXCEPT
        !.ident = "expression", !.effect = TRUE, !.says = @ \cup error]

SelfAssignment(o, l, r) ==
  o = "" /\ l.sym = r.sym /\ l.ident = r.ident
  /\ IF l.ident = "arraycell" THEN l.idx = r.idx /\ l.idx # Unknown
     ELSE r.ident = "variable" /\ r.lvalue

(* "pair" is what plnge2() makes of the two sides.                          *)
Stored(o, l, pair) ==
  LET done == IF l.ident = "arraycell" /\ o # "" THEN Then(pair.l, Popreg("alt")) ELSE pair.l
      convert == Check_userop("=", pair.r.tag, l.tag, l)
  IN [Then(done, convert.code \o Store(l)) EXCEPT !.ident = "expression", !.lvalue = FALSE, !.effect = TRUE]

Assignment(o, l, r) ==
  LET cell == l.ident = "arraycell"
      pair == CASE cell /\ o = "" -> Plnge2("", l, r)
                [] cell /\ o # "" -> Plnge2(o, Then(l, Pushreg("pri") \o Rvalue(l)), r)
                [] ~cell /\ o = "" -> [l |-> With([l EXCEPT !.code = Loaded(r)], r), r |-> r]
                [] OTHER -> Plnge2(o, Then(l, Rvalue(l)), r)
  IN IF IsArray(l) THEN Say(ArrayAssignment(o, l, r), Constant(l), 22)
     ELSE IF ~l.lvalue \/ Constant(l) THEN Say(l, TRUE, 22)
     ELSE Say(Say(Stored(o, l, pair), IsArray(r), 6), SelfAssignment(o, l, r), 226)

-----------------------------------------------------------------------------
(* callfunction(): the code of an argument leaves a value or an address in  *)
(* PRI and pushes it; values without an address get a cell of the heap.     *)

ByAddress(v) ==
  CASE v.ident \in {"variable", "reference"} /\ v.lvalue -> [cells |-> 0, code |-> v.code \o Address(v)]
    [] v.ident \in {"variable", "reference"} /\ ~v.lvalue -> [cells |-> 1, code |-> v.code \o Setheap_pri]
    [] v.ident \in {"constexpr", "expression"} -> [cells |-> 1, code |-> v.code \o Setheap_pri]
    [] OTHER -> [cells |-> 0, code |-> v.code]

(* Through "..." a constant variable goes as a copy, so that the function   *)
(* cannot change it; the code takes it for granted that it is an lvalue.    *)
Protected(formal, v) == v.ident \in {"variable", "reference"} /\ Constant(v) /\ ~formal.const

Argument(formal, v) ==
  CASE formal.kind = "varargs" ->
         IF Protected(formal, v) THEN [cells |-> 1, code |-> v.code \o Rvalue(v) \o Setheap_pri]
         ELSE ByAddress(v)
    [] formal.kind = "value" ->
         [cells |-> 0,
          code |-> Fetched(v) \o Check_userop("=", v.tag, formal.tag, Clear_value).code]
    [] formal.kind = "reference" ->
         IF v.ident \in {"variable", "reference"} THEN ByAddress(v) ELSE [cells |-> 0, code |-> v.code]
    [] formal.kind = "array" -> [cells |-> 0, code |-> v.code]

ArgumentError(formal, v) ==
  CASE formal.kind = "value" /\ IsArray(v) -> {35}
    [] formal.kind = "reference" /\ ~v.lvalue -> {35}
    [] formal.kind = "array" /\ ~IsArray(v) /\ v.ident # "arraycell" -> {35}
    [] formal.kind \in {"reference", "array"} /\ Constant(v) /\ ~formal.const -> {35}
    [] OTHER -> {}

(* An argument that is not given: its default value.  A literal array is    *)
(* copied onto the heap if the function may write into it; the array that   *)
(* is the default by its name is passed itself (setdefarray()).  A value is *)
(* converted from the tag it was declared with as a value that is given.    *)
Default(formal) ==
  CASE formal.default = <<>> -> [cells |-> 0, code |-> <<>>]     \* an error
    [] formal.kind = "array" /\ (formal.const \/ formal.named) ->
         [cells |-> 0, code |-> Ldconst(formal.addr, "pri")]
    [] formal.kind = "array" /\ ~(formal.const \/ formal.named) ->
         LET size == Len(formal.default) IN
         [cells |-> size, code |-> Ldconst(formal.addr, "pri") \o Modheap(size)
                                   \o Memcopy(size) \o <<<<"move.pri">>>>]
    [] formal.kind = "reference" ->
         [cells |-> 1, code |-> <<<<"const.pri", Head(formal.default)>>>> \o Setheap_pri]
    [] OTHER ->
         [cells |-> 0, code |-> Ldconst(Head(formal.default), "pri")
                                \o Check_userop("=", formal.dtag, formal.tag, Clear_value).code]

Ignored == [op |-> "_"]

Formal(f, k) == LET args == Funcs[f].args IN IF k > Len(args) THEN Last(args) ELSE args[k]

(* The arguments are pushed from the last to the first, as stgstring()      *)
(* reorders them.  A hidden argument before them is the place for an array  *)
(* that is returned; it stays on the heap until the whole expression, or    *)
(* the call whose argument it is, is done.                                  *)
Nargs(f, es) ==
  LET fixed == Len(SelectSeq(Funcs[f].args, LAMBDA a : a.kind # "varargs")) IN
  IF Len(es) > fixed THEN Len(es) ELSE fixed
Given(es, k) == k <= Len(es) /\ es[k] # Ignored
Argumentvalues(f, es, p) ==
  [k \in 1 .. Nargs(f, es) |-> IF Given(es, k) THEN Hier14(es[k], Append(p, k)) ELSE Clear_value]

(* With the values vs and the code of the arguments                         *)
Callcode(f, vs, arg) ==
  LET nargs == Len(arg)
      heapalloc == FoldLeft(LAMBDA n, a : n + a.cells, 0, arg)
      inargs == FoldLeft(LAMBDA n, v : n + v.heap, 0, vs)
      hidden == Funcs[f].returns > 0
      pushed == FlattenSeq([k \in 1 .. nargs |-> arg[nargs + 1 - k].code \o Pushreg("pri")])
  IN (IF hidden THEN Modheap(Funcs[f].returns) \o Pushreg("alt") ELSE <<>>)
     \o pushed \o Ffcall(f, Funcs[f].native, nargs) \o Modheap(-heapalloc)
     \o (IF hidden THEN Popreg("pri") ELSE <<>>) \o Modheap(-inargs)

Callfunction(f, es, vs) ==
  LET arg(k) == IF Given(es, k) THEN Argument(Formal(f, k), vs[k]) ELSE Default(Formal(f, k))
      errors(k) == IF Given(es, k) THEN ArgumentError(Formal(f, k), vs[k])
                   ELSE IF Formal(f, k).default # <<>> THEN {}
                   ELSE {88} \cup IF k <= Len(es) THEN {34} ELSE {}
      returns == Funcs[f].returns
  IN [Clear_value EXCEPT
       !.ident = IF returns > 0 THEN "refarray" ELSE "expression",
       !.dims = IF returns > 0 THEN <<returns>> ELSE <<>>,
       !.tag = Funcs[f].tag,
       !.effect = TRUE,
       !.heap = returns,
       !.says = UNION {errors(k) \cup vs[k].says : k \in DOMAIN vs},
       !.code = Callcode(f, vs, [k \in DOMAIN vs |-> arg(k)])]

-----------------------------------------------------------------------------
Parse(e, p) ==
  CASE e.op = "const"  -> [Clear_value EXCEPT !.ident = "constexpr", !.const = e.n, !.tag = e.tag,
                                              !.code = Ldconst(e.n, "pri")]
    [] e.op = "sym"    -> Primary(e.s)
    [] e.op = "index"  -> Subscript(Parse(e.a, Append(p, 1)), Plnge1(e.i, Append(p, 2)))
    [] e.op = "call"   -> Callfunction(e.f, e.es, Argumentvalues(e.f, e.es, p))
    [] e.op = "comma"  -> Comma([k \in DOMAIN e.es |-> Hier14(e.es[k], Append(p, k))])
    [] e.op = "tag"    -> [Parse(e.e, p) EXCEPT !.tag = e.tag]
    [] e.op = "unary"  -> Unop(e.o, Hier14(e.e, p))
    [] e.op = "step"   -> Increment(e.o, e.prefix, Parse(e.e, p))
    [] e.op = "row"    -> Plnge(e.os, e.es, p, FirstOperand(Head(e.es), p), 1)
    [] e.op = "chain"  -> Plnge_rel(e.os, e.es, p, [FirstOperand(Head(e.es), p) EXCEPT !.sofar = TRUE],
                                    Clear_value, 1)
    [] e.op = "skim"   -> Skim(e.o, Operandvalues(e.es, p), p)
    [] e.op = "cond"   -> Conditional(Plnge1(e.c, Append(p, 1)), Plnge1(e.a, Append(p, 2)), Plnge1(e.b, Append(p, 3)), p)
    [] e.op = "assign" -> Assignment(e.o, Plnge1(e.l, Append(p, 1)), Plnge1(e.r, Append(p, 2)))

(* expression(): load the value and scrap what is left on the heap.         *)
Scrapped(v) == [v EXCEPT !.code = Fetched(v) \o Modheap(-v.heap)]
Expression(e) == Scrapped(Hier14(e, <<>>))

-----------------------------------------------------------------------------
(* What a function does: it looks at its arguments, changes those that are  *)
(* passed by reference and returns something that depends on all of them.   *)
(* Which functions there are is up to the program; these are as good as any *)
(* to tell their arguments and the order of the calls apart.  An argument   *)
(* is what is seen of it and the address it has, if it has one.  What is    *)
(* declared "const" is left alone.  A user's                                *)
(* operator is a function as well; where the compiler takes an operator for *)
(* commutative, the operands may come in either order.                      *)

Temporary == -1
Kind(f, k) == IF f \in DOMAIN Funcs THEN Formal(f, k).kind ELSE "value"
Writes(f, k) == Kind(f, k) # "value" /\ ~Formal(f, k).const
SumOf(s) == FoldLeft(LAMBDA a, b : a + b, 0, s)

Seen(f, args) ==
  LET obs == [k \in DOMAIN args |-> args[k].seen] IN
  IF f \notin DOMAIN Funcs /\ Len(args) = 2 /\ Commutative(f[1])
  THEN <<<<obs[1][1] + obs[2][1]>>, <<obs[1][1] * obs[2][1]>>>> ELSE obs

Returned(f, args) ==
  LET obs == Seen(f, args) IN Wrap(1 + SumOf([k \in DOMAIN obs |-> k * SumOf(obs[k])]))

Changed(f, args, mem) ==
  LET to == {args[k].addr : k \in {j \in DOMAIN args : Writes(f, j)}} IN
  [a \in DOMAIN mem |-> IF a \in to THEN Wrap(mem[a] + 1) ELSE mem[a]]

(* The machine's part of a call: the number of arguments is on top of the   *)
(* stack, the first argument under it, the hidden one under the last.       *)
MachineCall(f, native) ==
  LET top == Len(m.stack)
      n == Tip(m) \div CellBytes
      got(k) == m.stack[top - k]
      at(a, k) == m.mem[a + (k - 1) * CellBytes]
      arg == [k \in 1 .. n |->
                CASE Kind(f, k) = "value" -> [seen |-> <<got(k)>>, addr |-> Temporary]
                  [] Kind(f, k) = "array" -> [seen |-> <<at(got(k), 1), at(got(k), 2)>>, addr |-> got(k)]
                  [] OTHER -> [seen |-> <<at(got(k), 1)>>, addr |-> got(k)]]
      bad == \E k \in 1 .. n : Kind(f, k) # "value" /\ got(k) \notin DOMAIN m.mem
      result == Returned(f, arg)
      size == IF f \in DOMAIN Funcs THEN Funcs[f].returns ELSE 0
      place == [k \in 1 .. size |-> got(n + 1) + (k - 1) * CellBytes]
      mem == Changed(f, arg, m.mem)
  IN IF bad THEN Fault(m, "memory")
     ELSE [m EXCEPT
       !.mem = [a \in DOMAIN mem |->
                  IF \E k \in 1 .. size : place[k] = a
                  THEN Wrap(result + (CHOOSE k \in 1 .. size : place[k] = a)) ELSE mem[a]],
       !.calls = Append(@, <<f, Seen(f, arg)>>),
       !.pri = result, !.alt = Garbage, !.cip = @ + 1,
       !.stack = IF native THEN @ ELSE SubSeq(@, 1, top - n - 1)]

-----------------------------------------------------------------------------
Init ==
  /\ expr \in Exprs /\ start \in Memories
  /\ value = Clear_value /\ code = <<>>
  /\ m = Machine(start, Garbage)
  /\ steps = 0

(* The compiler, once: expression() within a statement.                     *)
Generate ==
  /\ value.ident = "none"
  /\ LET v == Expression(expr) IN value' = [v EXCEPT !.code = <<>>] /\ code' = v.code
  /\ UNCHANGED <<expr, start, m, steps>>

Errors == {n \in value.says : n < 200}
Runs == value.ident # "none" /\ Errors = {} /\ steps < Limit /\ ~Halted(m, code)
Ran == value.ident # "none" /\ Errors = {} /\ Halted(m, code)

Run ==
  /\ Runs /\ code[m.cip][1] \notin {"call", "sysreq.c"}
  /\ m' = Execute(m, code)
  /\ steps' = steps + 1
  /\ UNCHANGED <<expr, value, code, start>>

Call ==
  /\ Runs /\ code[m.cip][1] \in {"call", "sysreq.c"}
  /\ m' = MachineCall(code[m.cip][2], code[m.cip][1] = "sysreq.c")
  /\ steps' = steps + 1
  /\ UNCHANGED <<expr, value, code, start>>

Next == Generate \/ Run \/ Call
Spec == Init /\ [][Next]_vars
=============================================================================
