---------------------------- MODULE AssemblerInv ----------------------------
(***************************************************************************)
(* The inductive invariant of Generator and Assembler.  The properties of  *)
(* Assembler speak of the finished image only; what makes them true is     *)
(* said here of every state on the way: what the symbol table knows of the *)
(* program, what stands in the assembler file, and how much of it the      *)
(* assembler has read.                                                     *)
(***************************************************************************)
EXTENDS Assembler

(***************************************************************************)
(* Types                                                                   *)
(***************************************************************************)
Object ==
       [kind : {"variable", "named"}, id : Vars]
  \cup [kind : {"literal"}, id : Nat]
  \cup [kind : {"default"}, id : Funcs]
  \cup [kind : {"padding"}, id : {0}]
Cell == [of : Object, k : Nat]

Line ==
       [op : {"instr"}, size : Nat]
  \cup [op : {"proc"}, size : {1}, to : Funcs]
  \cup [op : {"call"}, size : {2}, to : Funcs]
  \cup [op : {"jump"}, size : {2}, to : Nat]
  \cup [op : {"label"}, size : {0}, to : Nat]
  \cup [op : {"address"}, size : {1, 2}, to : Object, val : Int]
  \cup [op : {"dump"}, size : Nat, cells : Seq(Cell)]

\* the types of the variables of Generator
GTypeOK ==
  /\ program \in Seq(Token) /\ pos \in 0 .. Len(program)
  /\ phase \in {"parse", "assemble", "labels", "code", "data", "done", "rejected"}
  /\ sc_status \in {"first", "write", "skip"}
  /\ used \subseteq Vars \cup Funcs /\ defined \subseteq Vars \cup Funcs
  /\ prototyped \subseteq Funcs
  /\ refer \in [Vars \cup Funcs -> SUBSET Funcs]
  /\ addr \in [Vars \cup Funcs -> Int]
  /\ default \in [Funcs -> Vars \cup {ArrayDefault, None}]
  /\ defaddr \in [Funcs -> Int]
  /\ code_idx \in Nat /\ glb_declared \in Nat /\ sc_labnum \in Nat
  /\ sc_alignnext \in BOOLEAN
  /\ litq \in Seq(Cell) /\ curfunc \in Funcs \cup {None}
  /\ saved \in [code : Nat, data : Nat]
  /\ wq \in Seq(Nat) /\ asm \in Seq(Line)

(***************************************************************************)
(* Offsets: the cells of code and of data that the first m lines give.     *)
(***************************************************************************)
CodeCells(l) == IF InCode(l) THEN l.size ELSE 0
DataCells(l) == IF InCode(l) THEN 0 ELSE Len(l.cells)
Before(w) == LET f[m \in 0 .. Len(w)] == IF m = 0 THEN 0 ELSE f[m - 1] + w[m] IN f
CodeAt(lines) == Before([i \in 1 .. Len(lines) |-> CodeCells(lines[i])])
DataAt(lines) == Before([i \in 1 .. Len(lines) |-> DataCells(lines[i])])
CodeSum(lines) == CodeAt(lines)[Len(lines)]
DataSum(lines) == DataAt(lines)[Len(lines)]

(***************************************************************************)
(* What the program says: token i lies in the body of function h, and is a *)
(* reference from h to s.                                                  *)
(***************************************************************************)
In(h, i) ==
  \E k \in 1 .. i - 1 :
    /\ program[k].op = "function" /\ program[k].of = h
    /\ \A n \in k + 1 .. i - 1 : program[n].op \notin {"function", "end"}
Refers(i, s) == program[i].op \in {"use", "call"} /\ program[i].of = s
RefersIn(h, i, s) == In(h, i) /\ Refers(i, s)

(***************************************************************************)
(* The place in the program: outside of a function nothing is pending and  *)
(* nothing is skipped; curfunc is the function the next token lies in; and *)
(* what has been declared is in the symbol table.                          *)
(***************************************************************************)
OutsideInv == curfunc = None => sc_status # "skip" /\ wq = <<>> /\ litq = <<>>
InsideInv == curfunc # None => In(curfunc, pos + 1)
PrototypedInv ==
  \A f \in prototyped : \E k \in 1 .. Len(program) : program[k].op = "function" /\ program[k].of = f
DefinedInv == \A i \in 1 .. pos : program[i].op \in {"function", "global"} => program[i].of \in defined
PlaceInv == OutsideInv /\ InsideInv /\ DefinedInv /\ PrototypedInv

(***************************************************************************)
(* The skimming pass leaves the file empty and no default array placed,    *)
(* and knows the arguments of every function it has seen.                  *)
(***************************************************************************)
FirstInv ==
  sc_status = "first" =>
    /\ asm = <<>>
    /\ \A f \in Funcs : default[f] = ArrayDefault => defaddr[f] = -1
    /\ \A i \in 1 .. pos : program[i].op = "function" => program[i].of \in prototyped

(***************************************************************************)
(* Its references: the referrers of a symbol are exactly the functions     *)
(* whose bodies refer to it, and what is used has one or is a root.        *)
(***************************************************************************)
ReferredInv ==
  \A i \in 1 .. pos, h \in Funcs, s \in Vars \cup Funcs :
    RefersIn(h, i, s) => h \in refer[s] /\ s \in used
ReferrersInv ==
  \A s \in Vars \cup Funcs : \A h \in refer[s] :
    s \in used /\ \E i \in 1 .. Len(program) : RefersIn(h, i, s)
UsedInv == \A s \in used : s \in Roots \/ refer[s] # {}
ReferInv == sc_status = "first" => ReferredInv /\ ReferrersInv /\ UsedInv

(***************************************************************************)
(* After it: the functions that are written are the alive ones.  What they *)
(* refer to is used, what is used they refer to (unless it is a root, or a *)
(* variable already written), and a function is skipped if and only if it  *)
(* is not alive.                                                           *)
(***************************************************************************)
Alive == (used \cap Funcs) \cup Roots
AliveRefers ==
  \A i \in 1 .. Len(program), h \in Alive, s \in Vars \cup Funcs : RefersIn(h, i, s) => s \in used
UsedByAlive ==
  \A s \in used : \/ s \in Roots \/ s \in Vars \cap defined
                  \/ \E i \in 1 .. Len(program), h \in Alive : RefersIn(h, i, s)
SkipsDead == curfunc # None => (sc_status = "skip" <=> curfunc \notin Alive)
AllPrototyped == \A i \in 1 .. Len(program) : program[i].op = "function" => program[i].of \in prototyped
AliveInv == sc_status # "first" => AliveRefers /\ UsedByAlive /\ SkipsDead /\ AllPrototyped

\* a #pragma align that is still waiting for its declaration
AlignInv ==
  sc_alignnext =>
    \E i \in 1 .. pos : /\ program[i].op = "align"
                        /\ \A k \in i + 1 .. pos : program[k].op \notin {"global", "function", "static"}

(***************************************************************************)
(* The counters agree with the file; while a function is skipped, those it *)
(* will be set back to do.                                                 *)
(***************************************************************************)
CodeCount == IF sc_status = "skip" THEN saved.code ELSE code_idx
DataCount == IF sc_status = "skip" THEN saved.data ELSE glb_declared
FileInv == sc_status # "first" => /\ CodeSum(asm) = CodeCount
                                  /\ ~AlignedGlobal => DataSum(asm) = DataCount

(***************************************************************************)
(* Calls: only alive functions are called, and an alive function that has  *)
(* been written has its proc line at its address.                          *)
(***************************************************************************)
CallsAlive == \A m \in Lines("call") : asm[m].to \in Alive \cap prototyped
ProcsThere ==
  \A f \in defined \cap Alive :
    \E m \in 1 .. Len(asm) : asm[m] = Proc(f) /\ CodeAt(asm)[m - 1] = addr[f]
CallInv == sc_status # "first" => CallsAlive /\ ProcsThere

(***************************************************************************)
(* Labels: the open loops have the labels wq[n] and wq[n] + 1, the second  *)
(* one not yet set; no label is set twice; and a jump has its label or     *)
(* leads out of an open loop.                                              *)
(***************************************************************************)
LoopsOpen ==
  \A n \in 1 .. Len(wq) : wq[n] + 2 <= sc_labnum /\ \A k \in 1 .. n - 1 : wq[k] + 2 <= wq[n]
LabelsOnce ==
  \A m \in Lines("label") :
    /\ asm[m].to < sc_labnum
    /\ \A n \in 1 .. Len(wq) : asm[m].to # wq[n] + 1
    /\ \A n \in Lines("label") : asm[n].to = asm[m].to => n = m
JumpsLabelled ==
  \A j \in Lines("jump") :
    \/ \E m \in Lines("label") : asm[m].to = asm[j].to
    \/ sc_status = "write" /\ \E n \in 1 .. Len(wq) : asm[j].to = wq[n] + 1
LoopsLabelled ==
  sc_status = "write" => \A n \in 1 .. Len(wq) : \E m \in Lines("label") : asm[m].to = wq[n]
LabelInv == sc_status # "first" => LoopsOpen /\ LabelsOnce /\ JumpsLabelled /\ LoopsLabelled

(***************************************************************************)
(* Nothing idle: the functions in the file are alive, the variables in it  *)
(* are wanted by an alive function, and every reference from an alive one  *)
(* that was passed has its line.                                           *)
(***************************************************************************)
Wanted(s) == \E i \in 1 .. Len(program), h \in Alive : RefersIn(h, i, s)
CellsWanted(l) == \A c \in 1 .. Len(l.cells) : l.cells[c].of.kind = "variable" => Wanted(l.cells[c].of.id)
ProcsAlive == \A m \in Lines("proc") : asm[m].to \in Alive
LiteralsOnly == \A c \in 1 .. Len(litq) : litq[c].of.kind # "variable"
DumpsWanted == \A m \in Lines("dump") : CellsWanted(asm[m])
Answered(i, s) ==
  \/ program[i].op = "call" /\ \E m \in Lines("call") : asm[m].to = s
  \/ program[i].op = "use" /\ \E m \in Lines("address") : asm[m].to = Variable(s)
ReferencesFiled ==
  \A i \in 1 .. pos, h \in Alive : \A s \in Vars \cup Funcs : RefersIn(h, i, s) => Answered(i, s)
IdleInv == sc_status # "first" => ProcsAlive /\ LiteralsOnly /\ DumpsWanted /\ ReferencesFiled

(***************************************************************************)
(* Where addresses lead: to an object that has been dumped there, or that  *)
(* waits in the literal queue of the function being written.               *)
(***************************************************************************)
Holds(cells, o, object) ==
  /\ o \in 0 .. Len(cells) - SizeOf(object)
  /\ \A k \in 0 .. SizeOf(object) - 1 : cells[o + k + 1] = [of |-> object, k |-> k]
Placed(object, a) ==
  \E m \in Lines("dump") : Holds(asm[m].cells, a - DataAt(asm)[m - 1], object)
Pending(object, a) == sc_status = "write" /\ Holds(litq, a - glb_declared, object)
There(object, a) == Placed(object, a) \/ Pending(object, a)
AddressesLead ==
  \A j \in Lines("address") : asm[j].to.kind # "named" => There(asm[j].to, asm[j].val)
GlobalsPlaced == \A v \in defined \cap Vars : Wanted(v) => Placed(Variable(v), addr[v])
DefaultsPlaced ==
  \A f \in Funcs : default[f] = ArrayDefault => defaddr[f] = -1 \/ There(Default(f), defaddr[f])
ObjectsLanded == AddressesLead /\ GlobalsPlaced /\ DefaultsPlaced
DataInv == sc_status # "first" /\ ~AlignedGlobal => ObjectsLanded

GeneratorInv ==
  /\ GTypeOK /\ PlaceInv /\ FirstInv /\ ReferInv /\ AliveInv
  /\ AlignInv /\ FileInv /\ CallInv /\ LabelInv /\ IdleInv /\ DataInv

(***************************************************************************)
(* The assembler: what the parser handed over, the header, and how far the *)
(* label table, the code and the data have been made.                      *)
(***************************************************************************)
StoreInv ==
  phase \notin {"parse", "rejected"} =>
    /\ sc_status = "write" /\ pos = Len(program) /\ curfunc = None
    /\ code_idx % DataAlign = 0

EntryOf(f) == IF f \in Roots \cap defined THEN addr[f] ELSE -1
HeaderInv ==
  phase \in {"labels", "code", "data", "done"} =>
    /\ hdr.code = code_idx /\ hdr.data = glb_declared
    /\ \A f \in Funcs : hdr.functions[f] = EntryOf(f)

LineInv == phase \in {"labels", "code", "data"} => line \in 0 .. Len(asm)

\* the labels of the first n lines
LabelsTo(n) == \A m \in Lines("label") : m <= n => lbltab[asm[m].to] = CodeAt(asm)[m - 1]
TableInv ==
  /\ phase \in {"labels", "code", "data", "done"} => lbltab \in [0 .. sc_labnum - 1 -> Int]
  /\ phase = "labels" => codeindex = CodeAt(asm)[line] /\ LabelsTo(line)
  /\ phase \in {"code", "data", "done"} => LabelsTo(Len(asm))

\* the cells of the first n lines
CodeOf(n) ==
  /\ Len(code) = CodeAt(asm)[n]
  /\ \A t \in 1 .. Len(code) :
       /\ code[t].line \in 1 .. n
       /\ CodeAt(asm)[code[t].line - 1] < t /\ t <= CodeAt(asm)[code[t].line]
       /\ code[t].val = Operand(asm[code[t].line])
CodeCell == [line : Nat \ {0}, val : Int]
CodeInv ==
  /\ code \in Seq(CodeCell)
  /\ phase = "labels" => CodeOf(0)
  /\ phase = "code" => CodeOf(line)
  /\ phase \in {"data", "done"} => CodeOf(Len(asm))

DataOf(n) ==
  /\ Len(data) = DataAt(asm)[n]
  /\ \A m \in 1 .. n : \A c \in 1 .. DataCells(asm[m]) : data[DataAt(asm)[m - 1] + c] = asm[m].cells[c]
  /\ \A i \in 1 .. Len(data) : \E m \in 1 .. n : \E c \in 1 .. DataCells(asm[m]) : data[i] = asm[m].cells[c]
ImageInv ==
  /\ data \in Seq(Cell)
  /\ phase \in {"labels", "code"} => DataOf(0)
  /\ phase = "data" => DataOf(line)
  /\ phase = "done" => DataOf(Len(asm))

IInv == GeneratorInv /\ StoreInv /\ HeaderInv /\ LineInv /\ TableInv /\ CodeInv /\ ImageInv
=============================================================================
