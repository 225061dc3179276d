----------------------------- MODULE Assembler -----------------------------
(***************************************************************************)
(* assemble() of sc6.c, fed by the two passes of module Generator: it      *)
(* reads the assembler file three times, for the labels, for the code and  *)
(* for the data, a line at a time.  With compact encoding it may find that *)
(* the encoded cells overtake their input; it then jumps back to its       *)
(* beginning and assembles once more without the encoding.  The image is   *)
(* modelled as the cells a loader sees; every code cell remembers its line *)
(* of the assembler file.                                                  *)
(***************************************************************************)
EXTENDS Generator

VARIABLES
  sc_compress,   \* compact encoding (option -C, #pragma compress)
  line,          \* lines of the assembler file read in this pass
  codeindex,     \* of the label pass
  lbltab,        \* -1 is what malloc() left there
  code, data,    \* the two segments of the image
  hdr            \* sizes of the segments and addresses of the functions

assembler == <<sc_compress, line, codeindex, lbltab, code, data, hdr>>
vars == <<genvars, assembler>>

NoHeader == [code |-> 0, data |-> 0, functions |-> [f \in Funcs |-> -1]]

Init ==
  /\ GInit
  /\ sc_compress \in BOOLEAN
  /\ line = 0 /\ codeindex = 0 /\ lbltab = <<>>
  /\ code = <<>> /\ data = <<>> /\ hdr = NoHeader

InCode(l) == l.op # "dump"

\* the tables and the header; the pointers to functions come from the symbols
Begin ==
  /\ phase = "assemble"
  /\ hdr' = [code |-> code_idx, data |-> glb_declared,
             functions |-> [f \in Funcs |-> IF f \in Roots \cap defined
                                            THEN addr[f] ELSE -1]]
  /\ code' = <<>> /\ data' = <<>> /\ line' = 0 /\ codeindex' = 0
  /\ lbltab' = [l \in 0..(sc_labnum - 1) |-> -1]
  /\ phase' = IF sc_labnum > 0 THEN "labels" ELSE "code"
  /\ UNCHANGED <<program, pos, sc_status, symbols, generator, sc_compress>>

Reading(pass) ==
  /\ phase = pass /\ line < Len(asm)
  /\ line' = line + 1
  /\ UNCHANGED <<genvars, sc_compress, hdr>>
current == asm[line + 1]

\* the bug JumpsLand must find: data counts as code
RelocateDumps ==
  /\ Reading("labels")
  /\ IF current.op = "label"
     THEN lbltab' = [lbltab EXCEPT ![current.to] = codeindex] /\ UNCHANGED codeindex
     ELSE codeindex' = codeindex + current.size /\ UNCHANGED lbltab
  /\ UNCHANGED <<code, data>>

\* a line of the label pass
Relocate ==
  /\ Reading("labels")
  /\ IF current.op = "label"
     THEN lbltab' = [lbltab EXCEPT ![current.to] = codeindex] /\ UNCHANGED codeindex
     ELSE /\ codeindex' = IF InCode(current) THEN codeindex + current.size ELSE codeindex
          /\ UNCHANGED lbltab
  /\ UNCHANGED <<code, data>>

\* parm0(), parm1(), do_call() and do_jump(); one value stands for the line
Operand(l) ==
  CASE l.op = "jump"    -> lbltab[l.to]
    [] l.op = "call"    -> addr[l.to]
    [] l.op = "address" -> l.val
    [] OTHER            -> 0

\* a line of the code pass
WriteCode ==
  /\ Reading("code")
  /\ code' = IF InCode(current)
             THEN code \o [k \in 1..current.size |-> [line |-> line + 1, val |-> Operand(current)]]
             ELSE code
  /\ UNCHANGED <<data, codeindex, lbltab>>

\* a line of the data pass
WriteData ==
  /\ Reading("data")
  /\ data' = IF InCode(current) THEN data ELSE data \o current.cells
  /\ UNCHANGED <<code, codeindex, lbltab>>

EndOfPass(pass, next) ==
  /\ phase = pass /\ line = Len(asm)
  /\ phase' = next /\ line' = 0
  /\ UNCHANGED <<program, pos, sc_status, symbols, generator,
                 sc_compress, codeindex, lbltab, code, data, hdr>>

\* write_encoded(): the encoded cells outgrow their input
CompactError ==
  /\ phase \in {"code", "data"} /\ sc_compress /\ line > 0
  /\ sc_compress' = FALSE /\ phase' = "assemble"
  /\ UNCHANGED <<program, pos, sc_status, symbols, generator,
                 line, codeindex, lbltab, code, data, hdr>>

Assemble ==
  \/ Begin \/ Relocate \/ WriteCode \/ WriteData \/ CompactError
  \/ EndOfPass("labels", "code") \/ EndOfPass("code", "data") \/ EndOfPass("data", "done")

\* Parsing leaves the assembler alone.
Compile == Parse /\ UNCHANGED assembler

\* The end; any other state without a successor is a deadlock.
Finished == phase \in {"done", "rejected"} /\ UNCHANGED vars

Next == Compile \/ Assemble \/ Finished
Spec == Init /\ [][Next]_vars

-----------------------------------------------------------------------------
Assembled == phase = "done"

Lines(op) == {j \in 1..Len(asm) : asm[j].op = op}
\* the first cell, counted from zero, that line m or a later line gave to the code
Start(m) == CHOOSE t \in 0..Len(code) :
              /\ \A s \in 0..(t - 1) : code[s + 1].line < m
              /\ t < Len(code) => code[t + 1].line >= m
OperandOf(j) == code[Start(j) + 1].val

\* A global declared under #pragma align: its padding is dumped and not counted.
AlignedGlobal ==
  \E i, j \in 1..Len(program) :
    /\ i < j /\ program[i].op = "align" /\ program[j].op = "global"
    /\ \A k \in (i + 1)..(j - 1) : program[k].op \notin {"global", "function", "static"}

(***************************************************************************)
(* The header tells the segments apart: as many cells of code and of data  *)
(* were written as the passes of the parser counted, whatever was skipped, *)
(* padded or assembled twice.                                              *)
(***************************************************************************)
HeaderSplits ==
  Assembled => /\ Len(code) = hdr.code /\ Len(code) % DataAlign = 0
               /\ ~AlignedGlobal => Len(data) = hdr.data

(***************************************************************************)
(* Every jump has exactly one label, and leads to the first instruction    *)
(* behind it.                                                              *)
(***************************************************************************)
JumpsLand ==
  Assembled => \A j \in Lines("jump") :
    \E m \in Lines("label") :
      /\ asm[m].to = asm[j].to /\ OperandOf(j) = Start(m)
      /\ \A n \in Lines("label") : asm[n].to = asm[m].to => n = m

(***************************************************************************)
(* Every call, and every entry of the function table, leads to the proc    *)
(* instruction of the function it names.                                   *)
(***************************************************************************)
ProcAt(f, a) == a \in 0..(Len(code) - 1) /\ asm[code[a + 1].line] = Proc(f)
CallsLand ==
  Assembled =>
    /\ \A j \in Lines("call") : ProcAt(asm[j].to, OperandOf(j))
    /\ \A f \in Roots \cap defined : ProcAt(f, hdr.functions[f])

(***************************************************************************)
(* Nothing idle is kept: whatever function or variable is in the image, a  *)
(* line of the file refers to it, or it is a root.  What only functions    *)
(* refer to that are skipped themselves is not kept alive by them.         *)
(***************************************************************************)
NothingIdle ==
  Assembled =>
    /\ \A j \in Lines("proc") : asm[j].to \in Roots
                                \/ \E i \in Lines("call") : asm[i].to = asm[j].to
    /\ \A i \in 1..Len(data) : data[i].of.kind = "variable" =>
         \E j \in Lines("address") : Meant(asm[j].to) = data[i].of

(***************************************************************************)
(* Every address of data leads to the whole of the object it was meant     *)
(* for, with two exceptions: a program with an aligned global, and a       *)
(* default value that names a global array, whose address is the one of    *)
(* the skimming pass.                                                      *)
(***************************************************************************)
Leads(j) ==
  LET object == Meant(asm[j].to)
      a == OperandOf(j)
  IN \A k \in 0..(SizeOf(object) - 1) :
       a + k + 1 \in 1..Len(data) /\ data[a + k + 1] = [of |-> object, k |-> k]
DataLands ==
  Assembled /\ ~AlignedGlobal =>
    \A j \in Lines("address") : asm[j].to.kind # "named" => Leads(j)
=============================================================================
