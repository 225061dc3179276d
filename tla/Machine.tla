------------------------------- MODULE Machine -------------------------------
(***************************************************************************)
(* The abstract machine, as far as the code generator of sc4.c uses it: a   *)
(* primary and an alternate register, a stack, a heap and a data memory.    *)
(* The machine is not part of the repository; its instructions do what the  *)
(* comments of sc4.c say of them.                                           *)
(*                                                                          *)
(* An instruction is a sequence: its name and, if it has one, its operand.  *)
(* A machine is a record; a step of it is a function from records to        *)
(* records, so that modules with machines of their own can use it.          *)
(***************************************************************************)
EXTENDS Integers, Sequences, SequencesExt, Bitwise

CONSTANTS
  CellBits,    \* width of a cell; PAWN_CELL_SIZE
  CellBytes,   \* sizeof(cell), the distance between the addresses of two cells
  Frame,       \* FRM, where the addresses of the locals start from
  HeapBase,    \* the heap grows upwards from here
  HeapCells    \* bound: cells the heap has room for

ASSUME MachineAssumption ==
  /\ CellBits \in Nat \ {0} /\ CellBytes \in Nat \ {0}
  /\ Frame \in Nat /\ HeapBase \in Nat /\ HeapCells \in Nat

Half == 2 ^ (CellBits - 1)
Cell == -Half .. Half - 1
Wrap(n) == ((n + Half) % (2 * Half)) - Half
Unsigned(n) == n % (2 * Half)
Truth(b) == IF b THEN 1 ELSE 0

-----------------------------------------------------------------------------
(* What the operators compute.  Division rounds down, for either sign.      *)

FloorDiv(a, b) == IF b > 0 THEN a \div b ELSE (-a) \div (-b)

Apply(o, a, b) ==
  CASE o = "*"   -> Wrap(a * b)
    [] o = "/"   -> Wrap(FloorDiv(a, b))
    [] o = "%"   -> a - b * FloorDiv(a, b)
    [] o = "+"   -> Wrap(a + b)
    [] o = "-"   -> Wrap(a - b)
    [] o = "<<"  -> Wrap(Unsigned(a) * 2 ^ b)
    [] o = ">>"  -> a \div 2 ^ b
    [] o = ">>>" -> Wrap(Unsigned(a) \div 2 ^ b)
    [] o = "&"   -> Wrap(Unsigned(a) & Unsigned(b))
    [] o = "^"   -> Wrap(Unsigned(a) ^^ Unsigned(b))
    [] o = "|"   -> Wrap(Unsigned(a) | Unsigned(b))
    [] o = "<="  -> Truth(a <= b)
    [] o = ">="  -> Truth(a >= b)
    [] o = "<"   -> Truth(a < b)
    [] o = ">"   -> Truth(a > b)
    [] o = "=="  -> Truth(a = b)
    [] o = "!="  -> Truth(a # b)

ApplyUnary(o, a) ==
  CASE o = "~" -> -a - 1
    [] o = "!" -> Truth(a = 0)
    [] o = "-" -> Wrap(-a)

-----------------------------------------------------------------------------
(* The machine.  "stack" is the stack above the frame, the top last; "hea"  *)
(* the address of the first free cell of the heap; "cip" the instruction to *)
(* be executed; "fault" is set by an instruction that cannot be executed.   *)

NoFault == "none"

Machine(mem, garbage) ==
  [pri |-> garbage, alt |-> garbage, stack |-> <<>>, hea |-> HeapBase,
   mem |-> mem, cip |-> 1, fault |-> NoFault, calls |-> <<>>]

Fault(m, what) == [m EXCEPT !.fault = what]
Next1(m) == [m EXCEPT !.cip = @ + 1]
Pri(m, v) == Next1([m EXCEPT !.pri = v])
Alt(m, v) == Next1([m EXCEPT !.alt = v])
Load(m, a) == IF a \in DOMAIN m.mem THEN Pri(m, m.mem[a]) ELSE Fault(m, "memory")
Save(m, a, v) ==
  IF a \in DOMAIN m.mem THEN Next1([m EXCEPT !.mem[a] = v]) ELSE Fault(m, "memory")
Deref(m, a) == m.mem[Frame + a]
Push(m, v) == Next1([m EXCEPT !.stack = Append(@, v)])
Tip(m) == Last(m.stack)
Popped(m) == [m EXCEPT !.stack = Front(@)]

(* A positive operand of "stack" removes cells, a negative one makes room   *)
(* for locals.                                                              *)
MoveStack(m, n) ==
  LET cells == n \div CellBytes IN
  IF cells > Len(m.stack) THEN Fault(m, "stack")
  ELSE Next1([m EXCEPT !.stack = IF cells >= 0 THEN SubSeq(@, 1, Len(@) - cells)
                                 ELSE @ \o [k \in 1 .. -cells |-> 0]])

MoveHeap(m, n) ==
  LET h == m.hea + n IN
  IF h < HeapBase \/ h > HeapBase + HeapCells * CellBytes THEN Fault(m, "heap")
  ELSE Alt([m EXCEPT !.hea = h], m.hea)

Copy(m, n) ==
  LET cells == {k \in 0 .. n - 1 : k % CellBytes = 0}
      from(a) == m.pri + (a - m.alt) IN
  IF \E k \in cells : {m.pri + k, m.alt + k} \subseteq DOMAIN m.mem
  THEN Next1([m EXCEPT !.mem =
         [a \in DOMAIN @ |-> IF a - m.alt \in cells THEN @[from(a)] ELSE @[a]]])
  ELSE Fault(m, "memory")

Jump(m, code, label) ==
  [m EXCEPT !.cip = CHOOSE k \in DOMAIN code : code[k] = <<"label", label>>]

Divide(m) ==
  IF m.pri = 0 THEN Fault(m, "divide")
  ELSE Alt(Pri(m, Apply("/", m.alt, m.pri)), Apply("%", m.alt, m.pri))

(* The instructions that compute PRI from PRI and ALT: the operator and     *)
(* whether ALT is the left operand.                                         *)
Computes ==
  [i \in {"smul", "add", "sub.alt", "or", "xor", "and", "eq", "neq", "shl", "sshr", "shr",
          "sless", "sleq", "sgrtr", "sgeq"} |->
     CASE i = "smul" -> "*" [] i = "add" -> "+" [] i = "sub.alt" -> "-"
       [] i = "or" -> "|" [] i = "xor" -> "^" [] i = "and" -> "&"
       [] i = "eq" -> "==" [] i = "neq" -> "!="
       [] i = "shl" -> "<<" [] i = "sshr" -> ">>" [] i = "shr" -> ">>>"
       [] i = "sless" -> "<" [] i = "sleq" -> "<=" [] i = "sgrtr" -> ">" [] i = "sgeq" -> ">="]

Compute(m, i) ==
  Pri(m, IF i = "sub.alt" THEN Apply("-", m.alt, m.pri) ELSE Apply(Computes[i], m.pri, m.alt))

(* One instruction, calls excepted: they are up to the modules that know    *)
(* the functions.                                                           *)
Execute(m, code) ==
  LET i == code[m.cip]  op == i[1]  n == i[2] IN
  IF op \in {"pop.pri", "pop.alt", "swap.pri", "swap.alt"} /\ m.stack = <<>>
  THEN Fault(m, "stack")
  ELSE
  CASE op \in DOMAIN Computes -> Compute(m, op)
    [] op = "sdiv.alt"   -> [Divide(m) EXCEPT !.cip = m.cip + 1]
    [] op = "not"        -> Pri(m, ApplyUnary("!", m.pri))
    [] op = "neg"        -> Pri(m, ApplyUnary("-", m.pri))
    [] op = "invert"     -> Pri(m, ApplyUnary("~", m.pri))
    [] op = "zero.pri"   -> Pri(m, 0)
    [] op = "zero.alt"   -> Alt(m, 0)
    [] op = "const.pri"  -> Pri(m, n)
    [] op = "const.alt"  -> Alt(m, n)
    [] op = "addr.pri"   -> Pri(m, Frame + n)
    [] op = "load.pri"   -> Load(m, n)
    [] op = "load.s.pri" -> Load(m, Frame + n)
    [] op = "lref.s.pri" -> Load(m, Deref(m, n))
    [] op = "load.i"     -> Load(m, m.pri)
    [] op = "stor.pri"   -> Save(m, n, m.pri)
    [] op = "stor.s.pri" -> Save(m, Frame + n, m.pri)
    [] op = "sref.s.pri" -> Save(m, Deref(m, n), m.pri)
    [] op = "stor.i"     -> Save(m, m.alt, m.pri)
    [] op = "movs"       -> Copy(m, n)
    [] op = "inc"        -> Save(m, n, Wrap(m.mem[n] + 1))
    [] op = "dec"        -> Save(m, n, Wrap(m.mem[n] - 1))
    [] op = "inc.s"      -> Save(m, Frame + n, Wrap(m.mem[Frame + n] + 1))
    [] op = "dec.s"      -> Save(m, Frame + n, Wrap(m.mem[Frame + n] - 1))
    [] op = "inc.i"      -> Save(m, m.pri, Wrap(m.mem[m.pri] + 1))
    [] op = "dec.i"      -> Save(m, m.pri, Wrap(m.mem[m.pri] - 1))
    [] op = "inc.pri"    -> Pri(m, Wrap(m.pri + 1))
    [] op = "dec.pri"    -> Pri(m, Wrap(m.pri - 1))
    [] op = "shl.c.pri"  -> Pri(m, Apply("<<", m.pri, n))
    [] op = "bounds"     -> IF Unsigned(m.pri) > n THEN Fault(m, "bounds") ELSE Next1(m)
    [] op = "move.pri"   -> Pri(m, m.alt)
    [] op = "xchg"       -> Alt([m EXCEPT !.pri = m.alt], m.pri)
    [] op = "push.pri"   -> Push(m, m.pri)
    [] op = "push.alt"   -> Push(m, m.alt)
    [] op = "push.c"     -> Push(m, n)
    [] op = "pop.pri"    -> Pri(Popped(m), Tip(m))
    [] op = "pop.alt"    -> Alt(Popped(m), Tip(m))
    [] op = "swap.pri"   -> Push(Popped([m EXCEPT !.pri = Tip(m)]), m.pri)
    [] op = "swap.alt"   -> Push(Popped([m EXCEPT !.alt = Tip(m)]), m.alt)
    [] op = "stack"      -> MoveStack(m, n)
    [] op = "heap"       -> MoveHeap(m, n)
    [] op = "label"      -> Next1(m)
    [] op = "jump"       -> Jump(m, code, n)
    [] op = "jzer"       -> IF m.pri = 0 THEN Jump(m, code, n) ELSE Next1(m)
    [] op = "jnz"        -> IF m.pri # 0 THEN Jump(m, code, n) ELSE Next1(m)

Halted(m, code) == m.fault # NoFault \/ m.cip > Len(code)
==============================================================================
