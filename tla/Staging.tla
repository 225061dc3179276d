-------------------------------- MODULE Staging --------------------------------
(***************************************************************************)
(* The staging buffer of sc7.c and the code that fills it: expressions,     *)
(* calls with positional, named, ignored and default arguments              *)
(* (callfunction() in sc3.c), the second and third expression of a "for"    *)
(* (dofor() in sc1.c), constant expressions that are scrapped, and an #if   *)
(* in the middle of an expression (preproc_expr() in sc2.c).                *)
(*                                                                          *)
(* A line of code is abstracted to its place: a sequence of pairs that puts *)
(* lines into the order in which they have to be executed.  A line counts   *)
(* for one unit of code; the optimizer joins lines.                         *)
(***************************************************************************)
EXTENDS Integers, Sequences, SequencesExt, FiniteSets

CONSTANTS
  sMAXARGS,     (* arguments a call may have; 127 in the source             *)
  sSTG_MAX,     (* size of the staging buffer, in tokens                    *)
  MaxFormals,   (* bound: arguments a function declares                     *)
  MaxNesting,   (* bound: frames of the parser inside one expression        *)
  MaxLines      (* bound: lines of code                                     *)

ASSUME BoundsAssumption ==
  /\ sMAXARGS \in Nat \ {0, 1} /\ sSTG_MAX \in Nat   (* a "for" has two parts *)
  /\ MaxFormals \in 0 .. sMAXARGS /\ MaxNesting \in Nat /\ MaxLines \in Nat

VARIABLES
  writing,    (* sc_status = statWRITE                                      *)
  staging,
  stgbuf,     (* stgbuf up to stgidx                                        *)
  todo,       (* the parts of it stgstring() still has to write, the next   *)
              (* one first; <<>> when stgstring() is not at work            *)
  file,       (* the lines in the assembler file                            *)
  size,       (* the code they assemble to                                  *)
  code_idx,
  frames,     (* the functions of the parser at work, innermost last        *)
  n,          (* numbers places in the order of the source                  *)
  kept,       (* history: places of the lines generated and not scrapped    *)
  status      (* "ok", "error" after an error, "cut" after error 57,        *)
              (* "fatal" after error 102, "undefined"                       *)

buffer == <<staging, stgbuf, todo>>
output == <<file, size>>
vars == <<writing, buffer, output, code_idx, frames, n, kept, status>>

-----------------------------------------------------------------------------
(* Tokens in the buffer *)

Start == [mark |-> "sSTARTREORDER", at |-> <<>>]
End   == [mark |-> "sENDREORDER", at |-> <<>>]
Arg(k)  == [mark |-> "sEXPRSTART", at |-> <<k>>]
Code(p) == [mark |-> "code", at |-> p]

(* Frames of the parser: a call and its arguments, a "for", or a position   *)
(* to which the code may be scrapped.                                       *)
NoArg == -1
Frame(kind, formals) ==
  [kind |-> kind, at |-> n, arg |-> NoArg, nargs |-> 0, formals |-> formals,
   done |-> {}, named |-> FALSE, index |-> Len(stgbuf), cidx |-> code_idx]

Top == Last(frames)
SetTop(f) == [frames EXCEPT ![Len(frames)] = f]

(* Where the k-th line belongs: in the calls around it, in each before the  *)
(* arguments with a lower index.                                            *)
Place(fs, k) == Append([j \in DOMAIN fs |-> <<fs[j].at, -fs[j].arg>>], <<k, 0>>)
Line(p) == Last(p)[1]

Before(p, q) ==
  \E j \in DOMAIN p \cap DOMAIN q :
    /\ \A h \in 1 .. j - 1 : p[h] = q[h]
    /\ p[j][1] < q[j][1] \/ (p[j][1] = q[j][1] /\ p[j][2] < q[j][2])

-----------------------------------------------------------------------------
Init ==
  /\ writing \in BOOLEAN /\ staging = FALSE
  /\ stgbuf = <<>> /\ todo = <<>> /\ file = <<>> /\ size = 0 /\ code_idx = 0
  /\ frames = <<>> /\ n = 1 /\ kept = {} /\ status = "ok"

Running == status \in {"ok", "error", "cut"} /\ todo = <<>>

(* Errors count in every pass here, although only the last prints them: the *)
(* calls that follow are the same.                                          *)
Worse(bad) == IF bad /\ status = "ok" THEN "error" ELSE status

(* stgmark() and stgwrite(): marks and behind them lines.  Without staging  *)
(* marks are dropped and lines go to the file.  Error 102 of                *)
(* grow_stgbuffer() ends the compilation.                                   *)
Emit(marks, places, bad) ==
  LET tokens == marks \o [k \in DOMAIN places |-> Code(places[k])]
      fits == Len(stgbuf) + Len(tokens) <= sSTG_MAX
  IN  /\ stgbuf' = IF staging /\ fits THEN stgbuf \o tokens ELSE stgbuf
      /\ status' = IF staging /\ ~fits THEN "fatal" ELSE Worse(bad)
      /\ IF writing /\ ~staging
         THEN file' = file \o places /\ size' = size + Len(places)
         ELSE UNCHANGED output
      /\ code_idx' = code_idx + Len(places)
      /\ kept' = kept \union Range(places)
      /\ UNCHANGED <<writing, staging>>

-----------------------------------------------------------------------------
(* stgstring(): what is left to do are parts of the buffer, for it calls    *)
(* itself for the arguments of a call, and goes on behind the call.         *)

Part(start, end) == [start |-> start, end |-> end]     \* both included

Depth(s, k) == Cardinality({j \in 1 .. k : s[j] = Start}) - Cardinality({j \in 1 .. k : s[j] = End})

(* The sENDREORDER that closes the sSTARTREORDER at a                       *)
Closing(s, a) ==
  CHOOSE k \in a .. Len(s) : Depth(s, k) = Depth(s, a - 1)
                             /\ \A j \in a .. k - 1 : Depth(s, j) > Depth(s, a - 1)

(* The positions of the marks of the call itself, not of calls inside it.   *)
Marks(s, a) == {k \in a .. Closing(s, a) : s[k].mark = "sEXPRSTART" /\ Depth(s, k) = Depth(s, a)}

ArgAt(s, k) == s[k].at[1]
Indexes(s, a) == {ArgAt(s, k) : k \in Marks(s, a)}
Argc(s, a) == IF Marks(s, a) = {} THEN 0 ELSE Max(Indexes(s, a)) + 1

(* A later mark of the same index replaces an earlier one.                  *)
Argument(s, a, i) ==
  LET first == Max({k \in Marks(s, a) : ArgAt(s, k) = i})
      next  == Min({k \in Marks(s, a) \union {Closing(s, a)} : k > first})
  IN  Part(first + 1, next - 1)

(* stack[] of stgstring() is not initialized: it is read for an index that  *)
(* has no mark, and overrun by an index of sMAXARGS.                        *)
Defined(s, a) == Indexes(s, a) = 0 .. Argc(s, a) - 1 /\ Argc(s, a) <= sMAXARGS

Writing == status \in {"ok", "error"} /\ todo # <<>>
Now == Head(todo)

(* Mutant: the arguments are written from left to right.                    *)
ReorderForward ==
  /\ Writing /\ Now.start <= Now.end /\ stgbuf[Now.start] = Start
  /\ LET a == Now.start IN
     IF Defined(stgbuf, a)
     THEN /\ todo' = [j \in 1 .. Argc(stgbuf, a) |-> Argument(stgbuf, a, j - 1)]
                       \o <<Part(Closing(stgbuf, a) + 1, Now.end)>> \o Tail(todo)
          /\ UNCHANGED status
     ELSE status' = "undefined" /\ UNCHANGED todo
  /\ UNCHANGED <<writing, staging, stgbuf, output, code_idx, frames, n, kept>>

(* A call: its arguments, the last one first, and what comes behind it      *)
Reorder ==
  /\ Writing /\ Now.start <= Now.end /\ stgbuf[Now.start] = Start
  /\ LET a == Now.start IN
     IF Defined(stgbuf, a)
     THEN /\ todo' = [j \in 1 .. Argc(stgbuf, a) |-> Argument(stgbuf, a, Argc(stgbuf, a) - j)]
                       \o <<Part(Closing(stgbuf, a) + 1, Now.end)>> \o Tail(todo)
          /\ UNCHANGED status
     ELSE status' = "undefined" /\ UNCHANGED todo
  /\ UNCHANGED <<writing, staging, stgbuf, output, code_idx, frames, n, kept>>

(* stgopt(), for a block up to the next call.  The optimizer works in the   *)
(* last pass and inside one block; it may be off, and what it finds depends *)
(* on the instructions: up to all lines of a block become one.              *)
Stgopt ==
  /\ Writing /\ Now.start <= Now.end /\ stgbuf[Now.start] # Start
  /\ LET stop == Min({k \in Now.start .. Now.end : stgbuf[k] = Start} \union {Now.end + 1})
         lines == stop - Now.start
     IN  /\ todo' = <<Part(stop, Now.end)>> \o Tail(todo)
         /\ IF writing
            THEN \E saved \in 0 .. lines - 1 :
                   /\ file' = file \o [j \in 1 .. lines |-> stgbuf[Now.start - 1 + j].at]
                   /\ size' = size + lines - saved
                   /\ code_idx' = code_idx - saved
            ELSE UNCHANGED <<output, code_idx>>
  /\ UNCHANGED <<writing, staging, stgbuf, frames, n, kept, status>>

(* The end of a part; after the last one stgout() returns, and staging is   *)
(* turned off: stgset(FALSE).                                               *)
Return ==
  /\ Writing /\ Now.start > Now.end
  /\ todo' = Tail(todo)
  /\ IF Tail(todo) = <<>> THEN staging' = FALSE /\ stgbuf' = <<>> ELSE UNCHANGED <<staging, stgbuf>>
  /\ UNCHANGED <<writing, output, code_idx, frames, n, kept, status>>

Unstage == staging' = FALSE /\ stgbuf' = <<>> /\ UNCHANGED todo

-----------------------------------------------------------------------------
(* Expressions *)

(* doexpr(), test(), declloc(): staging is turned on.                       *)
Begin ==
  /\ Running /\ frames = <<>> /\ ~staging
  /\ staging' = TRUE /\ stgbuf' = <<>> /\ UNCHANGED todo
  /\ UNCHANGED <<writing, output, code_idx, frames, n, kept, status>>

(* No code comes before the first argument, and none for "_".              *)
InArgument == frames # <<>> => Top.kind # "defaults" /\ (Top.kind = "call" => Top.arg \in Top.done)

(* A function of sc4.c: stgwrite() of one line, and the code index.         *)
Generate ==
  /\ Running /\ n <= MaxLines /\ InArgument
  /\ Emit(<<>>, <<Place(frames, n)>>, FALSE)
  /\ n' = n + 1
  /\ UNCHANGED <<frames, todo>>

(* stgget(): the position an operand starts at.                             *)
Save ==
  /\ Running /\ staging /\ Len(frames) < MaxNesting /\ InArgument
  /\ frames' = Append(frames, Frame("save", 0))
  /\ UNCHANGED <<writing, buffer, output, code_idx, n, kept, status>>

(* The operand is kept: it was not constant.                                *)
Keep ==
  /\ Running /\ frames # <<>> /\ Top.kind = "save"
  /\ frames' = Front(frames)
  /\ UNCHANGED <<writing, buffer, output, code_idx, n, kept, status>>

(* Mutant: the code index is not put back.                                  *)
ScrapOnly ==
  /\ Running /\ frames # <<>> /\ Top.kind = "save"
  /\ IF staging
     THEN stgbuf' = SubSeq(stgbuf, 1, Top.index) /\ kept' = {p \in kept : Line(p) < Top.at}
     ELSE UNCHANGED <<stgbuf, kept>>
  /\ frames' = Front(frames)
  /\ UNCHANGED <<writing, staging, todo, output, code_idx, n, status>>

(* Mutant: the whole buffer is scrapped.                                    *)
ScrapAll ==
  /\ Running /\ frames # <<>> /\ Top.kind = "save"
  /\ IF staging
     THEN /\ stgbuf' = <<>> /\ code_idx' = Top.cidx
          /\ kept' = {p \in kept : Line(p) < Top.at}
     ELSE UNCHANGED <<stgbuf, code_idx, kept>>
  /\ frames' = Front(frames)
  /\ UNCHANGED <<writing, staging, todo, output, n, status>>

(* stgdel(): the code of a constant operand is scrapped.                    *)
Scrap ==
  /\ Running /\ frames # <<>> /\ Top.kind = "save"
  /\ IF staging
     THEN /\ stgbuf' = SubSeq(stgbuf, 1, Top.index) /\ code_idx' = Top.cidx
          /\ kept' = {p \in kept : Line(p) < Top.at}
     ELSE UNCHANGED <<stgbuf, code_idx, kept>>
  /\ frames' = Front(frames)
  /\ UNCHANGED <<writing, staging, todo, output, n, status>>

(* The end of doexpr(), test(), declloc(): stgout(), then stgset(FALSE).    *)
Finish ==
  /\ Running /\ frames = <<>> /\ staging
  /\ todo' = <<Part(1, Len(stgbuf))>>
  /\ UNCHANGED <<writing, staging, stgbuf, output, code_idx, frames, n, kept, status>>

(* eval_constexpr() outside of an expression.                               *)
BeginConstant ==
  /\ Running /\ frames = <<>> /\ ~staging
  /\ staging' = TRUE /\ stgbuf' = <<>> /\ UNCHANGED todo
  /\ frames' = <<Frame("constant", 0)>>
  /\ UNCHANGED <<writing, output, code_idx, n, kept, status>>

FinishConstant ==
  /\ Running /\ frames # <<>> /\ Top.kind = "constant"
  /\ IF staging
     THEN code_idx' = Top.cidx /\ kept' = {p \in kept : Line(p) < Top.at}
     ELSE UNCHANGED <<code_idx, kept>>
  /\ frames' = <<>>
  /\ Unstage
  /\ UNCHANGED <<writing, output, n, status>>

(* preproc_expr(): an #if before the expression has ended, error 57.  The   *)
(* buffer is emptied and the code index kept; the parser goes on without    *)
(* staging.                                                                 *)
CutOff ==
  /\ Running /\ staging /\ (frames # <<>> => Top.kind # "defaults")
  /\ status' = "cut"
  /\ Unstage
  /\ UNCHANGED <<writing, output, code_idx, frames, n, kept>>

-----------------------------------------------------------------------------
(* Calls and "for" *)

OpenCall ==
  /\ Running /\ staging /\ Len(frames) < MaxNesting /\ InArgument /\ n <= MaxLines
  /\ Emit(<<Start>>, <<>>, FALSE)
  /\ \E formals \in 0 .. MaxFormals : frames' = Append(frames, Frame("call", formals))
  /\ n' = n + 1
  /\ UNCHANGED todo

InCall == Running /\ frames # <<>> /\ Top.kind = "call"

(* What every argument does: its mark, and its place in arglist[].  An      *)
(* ignored one is marked, but not done.                                     *)
TakeArgument(k, named, ignored, bad) ==
  /\ Emit(<<Arg(k)>>, <<>>, bad)
  /\ frames' = SetTop([Top EXCEPT !.arg = k, !.nargs = @ + 1,
                                  !.named = Top.named \/ named,
                                  !.done = IF ignored THEN @ \ {k} ELSE @ \union {k}])
  /\ UNCHANGED <<n, todo>>

(* Error 44 for a positional argument behind a named one, error 45 for one  *)
(* too many, error 58 for one that is set again: none of them is fatal.     *)
Positional ==
  /\ InCall /\ Top.nargs <= sMAXARGS
  /\ \E ignored \in BOOLEAN :
       TakeArgument(Top.nargs, FALSE, ignored,
                    \/ Top.named \/ Top.nargs >= sMAXARGS \/ Top.nargs \in Top.done
                    \/ ignored /\ Top.nargs >= Top.formals)

Named ==
  /\ InCall /\ Top.nargs <= sMAXARGS
  /\ \E k \in 0 .. Top.formals - 1, ignored \in BOOLEAN :
       TakeArgument(k, TRUE, ignored, k \in Top.done)

(* Behind the closing parenthesis: an argument that was left out or ignored *)
(* gets its mark and its default value, or error 88.  Two loops go through  *)
(* the arguments, the second for sizes and tags of others.                  *)
Closed == Running /\ frames # <<>> /\ Top.kind \in {"call", "defaults"}
Missing == (0 .. Top.formals - 1) \ Top.done

DefaultArgument ==
  /\ Closed
  /\ \E k \in Missing, hasdefault \in BOOLEAN :
       LET taken == SetTop([Top EXCEPT !.kind = "defaults", !.arg = k, !.done = @ \union {k}]) IN
       /\ Emit(<<Arg(k)>>, IF hasdefault THEN <<Place(taken, n)>> ELSE <<>>, ~hasdefault)
       /\ frames' = taken
  /\ n' = n + 1
  /\ UNCHANGED todo

(* Mutant: arguments may have been left out.                                *)
CloseCallEarly ==
  /\ Closed
  /\ Emit(<<End>>, <<Place(Front(frames), n)>>, FALSE)
  /\ n' = n + 1
  /\ frames' = Front(frames)
  /\ UNCHANGED todo

(* The call itself                                                          *)
CloseCall ==
  /\ Closed /\ Missing = {}
  /\ Emit(<<End>>, <<Place(Front(frames), n)>>, FALSE)
  /\ n' = n + 1
  /\ frames' = Front(frames)
  /\ UNCHANGED todo

(* dofor(): the second expression is marked as argument 0, the third as     *)
(* argument 1.                                                              *)
BeginFor ==
  /\ Running /\ frames = <<>> /\ ~staging /\ n <= MaxLines
  /\ staging' = TRUE /\ stgbuf' = <<Start, Arg(0)>>
  /\ frames' = <<[Frame("for", 0) EXCEPT !.arg = 0]>>
  /\ n' = n + 1
  /\ UNCHANGED <<writing, todo, output, code_idx, kept, status>>

ThirdExpression ==
  /\ Running /\ frames # <<>> /\ Top.kind = "for" /\ Top.arg = 0
  /\ Emit(<<Arg(1)>>, <<>>, FALSE)
  /\ frames' = SetTop([Top EXCEPT !.arg = 1])
  /\ UNCHANGED <<n, todo>>

(* stgout() does nothing if an #if has turned staging off.                  *)
FinishFor ==
  /\ Running /\ frames # <<>> /\ Top.kind = "for" /\ Top.arg = 1
  /\ Emit(<<End>>, <<>>, FALSE)
  /\ todo' = IF staging /\ status' # "fatal" THEN <<Part(1, Len(stgbuf'))>> ELSE <<>>
  /\ frames' = <<>>
  /\ UNCHANGED n

Next ==
  \/ Begin \/ Generate \/ Save \/ Keep \/ Scrap \/ Finish
  \/ BeginConstant \/ FinishConstant \/ CutOff
  \/ OpenCall \/ Positional \/ Named \/ DefaultArgument \/ CloseCall
  \/ BeginFor \/ ThirdExpression \/ FinishFor
  \/ Reorder \/ Stgopt \/ Return

Spec == Init /\ [][Next]_vars

-----------------------------------------------------------------------------
(* Properties *)

(* Between two expressions every line that was generated and not scrapped   *)
(* is in the assembler file, and no other line is.                          *)
EveryLineWritten ==
  writing /\ ~staging /\ status = "ok" => Range(file) = kept

(* The lines are in the order of execution, each of them once: arguments    *)
(* from right to left however they were named, defaults among them, calls   *)
(* inside arguments in their place, expression 3 of a "for" before 2.       *)
OrderOfExecution ==
  status = "ok" => \A k \in 1 .. Len(file) - 1 : Before(file[k], file[k + 1])

(* Where addresses of functions are taken, outside of expressions, the code *)
(* index is the size of the code in the file, although code was scrapped    *)
(* and optimized.                                                           *)
CodeIndexExact ==
  writing /\ ~staging /\ status = "ok" => code_idx = size

(* stgstring() only reads an argument that is not there, or writes behind   *)
(* its stack, in a program in which an error was found.                     *)
UndefinedOnlyAfterError ==
  [][status' = "undefined" => status # "ok"]_vars
=============================================================================
