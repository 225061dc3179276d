----------------------------- MODULE Generator -----------------------------
(***************************************************************************)
(* The two passes of the compiler over a program without automata: what    *)
(* the declarations of sc1.c and the code emitters of sc3.c and sc4.c do   *)
(* to the symbol table, to the addresses and to the assembler file.        *)
(*                                                                         *)
(* The skimming pass only learns which symbols there are, who refers to    *)
(* them and what the arguments of a function look like; the write pass     *)
(* sees the same program again and writes the assembler file.  A function  *)
(* or a variable that nobody uses is parsed with its output switched off   *)
(* (statSKIP) and must leave no trace in the addresses.                    *)
(*                                                                         *)
(* A program is a sequence of tokens, each a declaration or a statement as *)
(* a whole; a cell is the unit of all sizes and addresses.  The order of   *)
(* the lines within one expression is the business of module Staging.      *)
(***************************************************************************)
EXTENDS Integers, Sequences, FiniteSets

CONSTANTS
  Vars,       \* global variables and arrays
  Funcs,      \* functions
  Roots,      \* main() and the public functions, used in any case
  None,       \* no function, no default value
  CellsOf,    \* [Vars -> number of cells]
  LitSize,    \* cells of a literal, a static local or a default array
  DataAlign,  \* sc_dataalign (option -A), in cells
  Programs    \* the programs of an instance

ArrayDefault == "array"   \* an argument whose default value is a literal array

Token ==
       [op : {"align", "end", "while", "endwhile", "literal", "static"}]
  \cup [op : {"global", "use"}, of : Vars]
  \cup [op : {"call"}, of : Funcs]
  \cup [op : {"function"}, of : Funcs, default : Vars \cup {ArrayDefault, None}]

ASSUME GeneratorAssumption ==
  /\ Roots \subseteq Funcs
  /\ Vars \cap Funcs = {}   \* one global table for both: a second declaration of a name is error 21
  /\ None \notin Funcs \cup Vars /\ ArrayDefault \notin Vars \cup {None}
  /\ CellsOf \in [Vars -> Nat \ {0}]
  /\ LitSize \in Nat \ {0} /\ DataAlign \in Nat \ {0}
  /\ Programs \subseteq Seq(Token)

VARIABLES
  program,       \* the source text
  pos,           \* tokens parsed in this pass
  phase,         \* "parse", the passes of the assembler, "done" or "rejected"
  sc_status,     \* "first", "write" or "skip"
  used,          \* symbols with uREAD or uWRITTEN
  defined,       \* symbols with uDEFINE
  prototyped,    \* functions with uPROTOTYPED: the argument list is final
  refer,         \* the functions that refer to a symbol
  addr,          \* the address of a symbol
  default,       \* the default value of the function's argument
  defaddr,       \* defvalue.array.addr of that argument, -1 if not yet known
  code_idx, glb_declared, sc_labnum, sc_alignnext,
  litq,          \* the literal queue; its length is litidx
  curfunc,       \* the function being parsed
  saved,         \* cidx and glbdecl of newfunc()
  wq,            \* the labels of the open loops
  asm            \* the assembler file

symbols   == <<used, defined, prototyped, refer, addr, default, defaddr>>
generator == <<code_idx, glb_declared, sc_labnum, sc_alignnext, litq, curfunc, saved, wq, asm>>
genvars   == <<program, pos, phase, sc_status, symbols, generator>>

litidx == Len(litq)

(***************************************************************************)
(* Data cells remember which object they belong to, so that it can be said *)
(* where an address leads.                                                 *)
(***************************************************************************)
Variable(v) == [kind |-> "variable", id |-> v]
Literal(i)  == [kind |-> "literal", id |-> i]    \* of the token at position i
Default(f)  == [kind |-> "default", id |-> f]
Named(v)    == [kind |-> "named", id |-> v]      \* a variable as a default value
Padding     == [kind |-> "padding", id |-> 0]
Cells(object, n) == [k \in 1..n |-> [of |-> object, k |-> k - 1]]
ToAlign(n) == (DataAlign - (n % DataAlign)) % DataAlign

Meant(object)  == IF object.kind = "named" THEN Variable(object.id) ELSE object
SizeOf(object) == IF object.kind \in {"variable", "named"} THEN CellsOf[object.id] ELSE LitSize

(***************************************************************************)
(* Lines of the assembler file.  "size" is what the assembler adds up for  *)
(* the line, in cells.                                                     *)
(***************************************************************************)
Instr(n)           == [op |-> "instr", size |-> n]
Proc(f)            == [op |-> "proc", size |-> 1, to |-> f]
CallTo(f)          == [op |-> "call", size |-> 2, to |-> f]
Jump(l)            == [op |-> "jump", size |-> 2, to |-> l]
Label(l)           == [op |-> "label", size |-> 0, to |-> l]
Address(object, a) == [op |-> "address", size |-> 2, to |-> object, val |-> a]
\* ldconst(): a zero is loaded by an instruction without an operand
LdConst(object, a) == [Address(object, a) EXCEPT !.size = IF a = 0 THEN 1 ELSE 2]
Dump(cells)        == [op |-> "dump", size |-> Len(cells), cells |-> cells]

\* nothing is dumped for an empty queue
Dumped(cells) == IF cells = <<>> THEN <<>> ELSE <<Dump(cells)>>

\* filewrite(): only the write pass leaves something in the file
Written(status, lines) == IF status = "write" THEN asm \o lines ELSE asm
Emit(lines, n) == asm' = Written(sc_status, lines) /\ code_idx' = code_idx + n

GInit ==
  /\ program \in Programs
  /\ pos = 0 /\ phase = "parse" /\ sc_status = "first"
  /\ used = {} /\ defined = {} /\ prototyped = {}
  /\ refer = [s \in Vars \cup Funcs |-> {}]
  /\ addr = [s \in Vars \cup Funcs |-> -1]
  /\ default = [f \in Funcs |-> None] /\ defaddr = [f \in Funcs |-> -1]
  /\ code_idx = 0 /\ glb_declared = 0 /\ sc_labnum = 0 /\ sc_alignnext = FALSE
  /\ litq = <<>> /\ curfunc = None /\ saved = [code |-> 0, data |-> 0] /\ wq = <<>>
  /\ asm = <<>>

(***************************************************************************)
(* What a program may say at this point; everything else is an error.      *)
(***************************************************************************)
Legal(t) ==
  CASE t.op = "align"    -> TRUE
    [] t.op = "global"   -> curfunc = None /\ t.of \notin defined
    [] t.op = "function" -> curfunc = None /\ t.of \notin defined
                            /\ (t.default \in Vars => t.default \in defined)
    [] t.op = "use"      -> curfunc # None /\ t.of \in defined
    [] t.op = "call"     -> curfunc # None /\ (t.of \in prototyped \/ sc_status = "first")
    [] t.op = "endwhile" -> curfunc # None /\ wq # <<>>
    [] t.op = "end"      -> curfunc # None /\ wq = <<>>
    [] OTHER             -> curfunc # None

Parsing(op) ==
  /\ phase = "parse" /\ pos < Len(program)
  /\ program[pos + 1].op = op /\ Legal(program[pos + 1])
  /\ pos' = pos + 1 /\ UNCHANGED <<program, phase>>
token == program[pos + 1]

\* An error of the write pass is counted, and nothing is assembled.
SyntaxError ==
  /\ phase = "parse" /\ pos < Len(program) /\ ~Legal(program[pos + 1])
  /\ phase' = "rejected"
  /\ UNCHANGED <<program, pos, sc_status, symbols, generator>>

\* markusage(): the referrer is recorded only inside a function
Mark(s) == /\ used' = used \cup {s}
           /\ refer' = [refer EXCEPT ![s] = IF curfunc = None THEN @ ELSE @ \cup {curfunc}]

PragmaAlign ==
  /\ Parsing("align")
  /\ sc_alignnext' = TRUE
  /\ UNCHANGED <<sc_status, symbols, code_idx, glb_declared, sc_labnum, litq, curfunc, saved, wq, asm>>

\* declglb(): the padding is dumped, but it is not counted in glb_declared.
DeclGlb ==
  /\ Parsing("global")
  /\ LET v == token.of
         skip == sc_status = "write" /\ v \notin used
         pad == IF sc_alignnext THEN Cells(Padding, ToAlign(glb_declared)) ELSE <<>>
     IN /\ asm' = Written(IF skip THEN "skip" ELSE sc_status,
                          Dumped(pad) \o Dumped(Cells(Variable(v), CellsOf[v])))
        /\ addr' = [addr EXCEPT ![v] = glb_declared]
        /\ defined' = defined \cup {v}
        /\ glb_declared' = IF skip THEN glb_declared ELSE glb_declared + CellsOf[v]
  /\ sc_alignnext' = FALSE
  /\ UNCHANGED <<sc_status, used, prototyped, refer, default, defaddr,
                 code_idx, sc_labnum, litq, curfunc, saved, wq>>

\* declargs() in the write pass compares the arguments with those of the
\* skimming pass and drops the new ones.
DeclArgs(f, d) ==
  /\ prototyped' = prototyped \cup {f}
  /\ IF f \in prototyped
     THEN UNCHANGED <<default, defaddr>>
     ELSE /\ default' = [default EXCEPT ![f] = d]
          /\ defaddr' = [defaddr EXCEPT ![f] = IF d \in Vars THEN addr[d] ELSE -1]

\* newfunc() up to the body
NewFunc ==
  /\ Parsing("function")
  /\ LET f == token.of
         d == token.default
         marked == used \cup ({f} \cap Roots)
                        \cup (IF sc_status = "write" THEN {d} \cap Vars ELSE {})
         skip == sc_status = "write" /\ f \notin marked
         status == IF skip THEN "skip" ELSE sc_status
         lines == <<Proc(f)>> \o (IF sc_alignnext THEN <<Instr(9)>> ELSE <<>>)
     IN /\ addr' = [addr EXCEPT ![f] = code_idx]
        /\ DeclArgs(f, d)
        /\ used' = marked
        /\ defined' = defined \cup {f}
        /\ sc_status' = status
        /\ saved' = IF skip THEN [code |-> code_idx, data |-> glb_declared] ELSE saved
        /\ curfunc' = f
        /\ asm' = Written(status, lines)
        /\ code_idx' = code_idx + 1 + (IF sc_alignnext THEN 9 ELSE 0)
  /\ sc_alignnext' = FALSE
  /\ UNCHANGED <<refer, glb_declared, sc_labnum, litq, wq>>

\* the bugs the properties must find
SettleKeepsData ==
  IF sc_status = "skip"
  THEN sc_status' = "write" /\ code_idx' = saved.code /\ glb_declared' = glb_declared + litidx
  ELSE /\ code_idx' = code_idx + 2 /\ glb_declared' = glb_declared + litidx
       /\ UNCHANGED sc_status
SettleKeepsCode ==
  IF sc_status = "skip"
  THEN sc_status' = "write" /\ code_idx' = code_idx + 2 /\ glb_declared' = saved.data
  ELSE /\ code_idx' = code_idx + 2 /\ glb_declared' = glb_declared + litidx
       /\ UNCHANGED sc_status

\* a skipped function takes its code and its literals back
Settle ==
  IF sc_status = "skip"
  THEN sc_status' = "write" /\ code_idx' = saved.code /\ glb_declared' = saved.data
  ELSE /\ code_idx' = code_idx + 2 /\ glb_declared' = glb_declared + litidx
       /\ UNCHANGED sc_status

\* newfunc() after the body: return, dump the literals, undo a skipped function
EndFunc ==
  /\ Parsing("end")
  /\ asm' = Written(sc_status, <<Instr(1), Instr(1)>> \o Dumped(litq))
  /\ litq' = <<>> /\ curfunc' = None
  /\ Settle
  /\ UNCHANGED <<symbols, sc_labnum, sc_alignnext, saved, wq>>

\* a global variable in an expression
Use ==
  /\ Parsing("use")
  /\ Emit(<<Address(Variable(token.of), addr[token.of])>>, 2)
  /\ Mark(token.of)
  /\ UNCHANGED <<sc_status, defined, prototyped, addr, default, defaddr,
                 glb_declared, sc_labnum, sc_alignnext, litq, curfunc, saved, wq>>

\* a string or an array between braces in an expression
PlaceLiteral ==
  /\ Parsing("literal")
  /\ LET a == litidx + glb_declared
     IN Emit(<<LdConst(Literal(pos), a)>>, IF a = 0 THEN 1 ELSE 2)
  /\ litq' = litq \o Cells(Literal(pos), LitSize)
  /\ UNCHANGED <<sc_status, symbols, glb_declared, sc_labnum, sc_alignnext, curfunc, saved, wq>>

\* declloc() of a static variable, and a statement that loads it
StaticLocal ==
  /\ Parsing("static")
  /\ LET pad == IF sc_alignnext THEN Cells(Padding, ToAlign(glb_declared + litidx)) ELSE <<>>
         cur_lit == litidx + Len(pad)
     IN /\ litq' = litq \o pad \o Cells(Literal(pos), LitSize)
        /\ Emit(<<Address(Literal(pos), cur_lit + glb_declared)>>, 2)
  /\ sc_alignnext' = FALSE
  /\ UNCHANGED <<sc_status, symbols, glb_declared, sc_labnum, curfunc, saved, wq>>

\* a bug DataLands must find: a skipped call places the array
PlacesWhenSkipped(f) == default[f] = ArrayDefault /\ sc_status # "first" /\ defaddr[f] < 0

\* setdefarray(): the default array is placed once, by the first call that is
\* really written.
Places(f) == default[f] = ArrayDefault /\ sc_status = "write" /\ defaddr[f] < 0

\* a bug NothingIdle must find
MarkCallAlways(f) == Mark(f)

MarkCall(f) == IF sc_status = "skip" THEN UNCHANGED <<used, refer>> ELSE Mark(f)

\* callfunction(): the use counts unless the call itself is skipped.
Call ==
  /\ Parsing("call")
  /\ LET f == token.of
         place == Places(f)
         a == IF place THEN litidx + glb_declared ELSE defaddr[f]
         object == IF default[f] = ArrayDefault THEN Default(f) ELSE Named(default[f])
         argument == IF default[f] = None THEN <<>> ELSE <<LdConst(object, a), Instr(1)>>
         size == IF default[f] = None THEN 4 ELSE IF a = 0 THEN 6 ELSE 7
     IN /\ addr' = IF f \in prototyped \cup defined THEN addr ELSE [addr EXCEPT ![f] = code_idx]
        /\ litq' = IF place THEN litq \o Cells(Default(f), LitSize) ELSE litq
        /\ defaddr' = [defaddr EXCEPT ![f] = a]
        /\ Emit(argument \o <<Instr(2), CallTo(f)>>, size)
        /\ MarkCall(f)
  /\ UNCHANGED <<sc_status, defined, prototyped, default,
                 glb_declared, sc_labnum, sc_alignnext, curfunc, saved, wq>>

\* dowhile(): up to the body, and after it
While ==
  /\ Parsing("while")
  /\ sc_labnum' = sc_labnum + 2
  /\ wq' = Append(wq, sc_labnum)
  /\ Emit(<<Label(sc_labnum), Instr(2), Jump(sc_labnum + 1)>>, 4)
  /\ UNCHANGED <<sc_status, symbols, glb_declared, sc_alignnext, litq, curfunc, saved>>

EndWhile ==
  /\ Parsing("endwhile")
  /\ LET loop == wq[Len(wq)] IN Emit(<<Jump(loop), Label(loop + 1)>>, 2)
  /\ wq' = SubSeq(wq, 1, Len(wq) - 1)
  /\ UNCHANGED <<sc_status, symbols, glb_declared, sc_labnum, sc_alignnext, litq, curfunc, saved>>

(***************************************************************************)
(* Between the passes.  A function that is not a root and to which only    *)
(* such functions refer is dead; a cycle of references keeps itself alive. *)
(***************************************************************************)
Prunes(D) == \A f \in Funcs \ Roots : refer[f] \subseteq D => f \in D
Dead == {f \in Funcs : \A D \in SUBSET Funcs : Prunes(D) => f \in D}
Unused == Dead \cup {v \in Vars : refer[v] \subseteq Dead}

\* reduce_referrers(), delete_symbols(), resetglobals() and writeleader()
BeginWritePass ==
  /\ phase = "parse" /\ pos = Len(program) /\ sc_status = "first" /\ curfunc = None
  /\ used' = used \ Unused
  /\ refer' = [s \in Vars \cup Funcs |-> refer[s] \ Dead]
  /\ defined' = {}
  /\ pos' = 0 /\ sc_status' = "write"
  /\ asm' = <<Instr(2)>> /\ code_idx' = 2
  /\ glb_declared' = 0 /\ sc_labnum' = 0 /\ sc_alignnext' = FALSE
  /\ litq' = <<>> /\ wq' = <<>>
  /\ UNCHANGED <<program, phase, prototyped, addr, default, defaddr, curfunc, saved>>

\* writetrailer(), and on to the assembler
EndWritePass ==
  /\ phase = "parse" /\ pos = Len(program) /\ sc_status = "write" /\ curfunc = None
  /\ LET pad == Cells(Padding, ToAlign(glb_declared))
     IN /\ asm' = asm \o [i \in 1..ToAlign(code_idx) |-> Instr(1)] \o Dumped(pad)
        /\ code_idx' = code_idx + ToAlign(code_idx)
        /\ glb_declared' = glb_declared + Len(pad)
  /\ phase' = "assemble"
  /\ UNCHANGED <<program, pos, sc_status, symbols, sc_labnum, sc_alignnext, litq, curfunc, saved, wq>>

\* the source ends within a function
Unfinished ==
  /\ phase = "parse" /\ pos = Len(program) /\ curfunc # None
  /\ phase' = "rejected"
  /\ UNCHANGED <<program, pos, sc_status, symbols, generator>>

Parse ==
  \/ PragmaAlign \/ DeclGlb \/ NewFunc \/ EndFunc
  \/ Use \/ PlaceLiteral \/ StaticLocal \/ Call \/ While \/ EndWhile
  \/ SyntaxError \/ Unfinished
  \/ BeginWritePass \/ EndWritePass
=============================================================================
