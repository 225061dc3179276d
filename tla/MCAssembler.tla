---------------------------- MODULE MCAssembler ----------------------------
EXTENDS Assembler
CONSTANTS var1, var2, fun1, fun2, mainfun

Global(x)      == <<[op |-> "global", of |-> x]>>
Function(x, d) == <<[op |-> "function", of |-> x, default |-> d]>>
Do(op)         == <<[op |-> op]>>
UseOf(x)       == <<[op |-> "use", of |-> x]>>
CallOf(x)      == <<[op |-> "call", of |-> x]>>

Globals  == {Global(var1), Global(var1) \o Global(var2), Do("align") \o Global(var1)}
Between  == {<<>>, Global(var2), Do("align")}
Bodies   == {<<>>, UseOf(var1), UseOf(var2) \o Do("literal"), CallOf(fun2), CallOf(fun2) \o CallOf(fun1),
             Do("while") \o UseOf(var1) \o Do("while") \o CallOf(fun1) \o Do("endwhile") \o Do("endwhile"),
             Do("align") \o Do("static")}

\* Two functions of every kind, and main() after them.
MCPrograms ==
  {a \o Function(fun1, d) \o b \o Do("end") \o c \o Function(fun2, e) \o b2 \o Do("end")
     \o Function(mainfun, None) \o b3 \o Do("end") :
     a \in Globals, d \in {None, ArrayDefault}, b \in Bodies, c \in Between,
     e \in {None, var1}, b2 \in Bodies, b3 \in Bodies}

MCCellsOf == [x \in Vars |-> IF x = var1 THEN 1 ELSE 2]
=============================================================================
