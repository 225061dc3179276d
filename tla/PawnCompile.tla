----------------------------- MODULE PawnCompile -----------------------------
(***************************************************************************)
(* One call of pc_compile() (libs/pawn/compiler/legacy/core/src/sc1.c):     *)
(* the driver of the Pawn compiler, with the diagnostics engine error()     *)
(* (sc5.c) that may abandon it at any point with longjmp(), the parser stack *)
(* (sc2.c) on which readline() and doinclude() keep the files and parts of  *)
(* the parser keep flags, and the files and buffers the "cleanup" label has *)
(* to release.                                                              *)
(*                                                                          *)
(* The text of the source is abstracted to the events that reach the        *)
(* driver: a diagnostic, an include file, the begin or the end of an        *)
(* expression that keeps flags, the end of a file, #endinput, #pragma       *)
(* warning push/pop, and a request for another first pass.  One pass over   *)
(* the source yields at most MaxLines of them.                              *)
(***************************************************************************)
EXTENDS Integers, Sequences

CONSTANTS
  MaxErrors,   (* errors after which error() gives up; 25 in the source     *)
  MaxDepth,    (* bound: include files nested below the main file           *)
  MaxLines,    (* bound: source events in one pass                          *)
  MaxReparse,  (* bound: times one compilation asks for another first pass  *)
  Modes        (* which outputs are asked for: a subset of OutputModes      *)

OutputModes == {"image", "asm", "list"}   \* neither -a nor -l, -a, -l

ASSUME MaxErrorsAssumption  == MaxErrors \in Nat
ASSUME MaxDepthAssumption   == MaxDepth \in Nat
ASSUME MaxLinesAssumption   == MaxLines \in Nat
ASSUME MaxReparseAssumption == MaxReparse \in Nat
ASSUME ModesAssumption      == Modes \subseteq OutputModes

VARIABLES
  mode,       (* sc_asmfile / sc_listing                                    *)
  werror,     (* sc_warnings_are_errors (-E)                                *)
  tight,      (* does the program exceed the limit given with -X?           *)
  pc,         (* the step pc_compile() is about to take                     *)
  status,     (* sc_status                                                  *)
  reparse,    (* sc_reparse                                                 *)
  parsenum,   (* sc_parsenum                                                *)
  fuel,       (* source events left in this pass                            *)
  inpf,       (* the source being read: a handle, or NoFile for NULL        *)
  open,       (* the source handles that are open                           *)
  stack,      (* the parser stack, as far as stkidx                         *)
  calls,      (* what the routines that are in an expression will pop       *)
  outf,       (* the intermediate assembler file                            *)
  binf,       (* the local variable binf: "null" or "file"                  *)
  image,      (* the .amx file on disk                                      *)
  inpfname,   (* the buffer that names the current source                   *)
  litq,       (* the literal queue                                          *)
  warnstk,    (* entries on the #pragma warning push stack                  *)
  errflag, errnum, warnnum,
  errorcount, (* errors seen on one line                                    *)
  jmpcode,    (* what setjmp() returned last                                *)
  retcode,    (* what pc_compile() returns                                  *)
  late,       (* history: was a diagnostic issued after "cleanup" began?    *)
  crossed,    (* history: has a file ended an expression it did not begin,  *)
              (* or itself inside one that it began?                        *)
  misuse      (* history: released objects that were used or released again *)

options  == <<mode, werror, tight>>
passes   == <<status, reparse, parsenum>>
sources  == <<inpf, open, stack, calls, crossed>>
outputs  == <<outf, binf, image>>
buffers  == <<inpfname, litq>>
counters == <<errflag, errnum, warnnum, errorcount>>
vars == <<options, pc, passes, fuel, sources, outputs, buffers, warnstk,
          counters, jmpcode, retcode, late, misuse>>

NoFile == -1
Main   == 0                     \* the handle inpf_org
Handles == Main .. MaxDepth     \* a file and its level of inclusion

(* The items of the parser stack: a pointer to a file or to what belongs to *)
(* it, named by the handle; a number; and sc_intest or sc_allowtags.        *)
Number == -1
Flag   == -2
Items  == Handles \cup {Number, Flag}
CleanupSteps == {"cleanup", "assemble", "closeout", "limit", "release",
                 "warnstack", "exit"}
Steps == {"alloc", "options", "opensrc", "openasm", "openbin", "firstpass",
          "writepass", "parse", "endpass", "conflict", "trailer", "done",
         "undefined"}           \* nothing is known of what follows
         \cup CleanupSteps

FlagsOK ==
  /\ werror \in BOOLEAN /\ tight \in BOOLEAN /\ reparse \in BOOLEAN
  /\ errflag \in BOOLEAN /\ late \in BOOLEAN /\ crossed \in BOOLEAN

ValuesOK ==
  /\ mode \in Modes
  /\ pc \in Steps
  /\ status \in {"idle", "first", "write"}
  /\ parsenum \in 0 .. MaxReparse + 1
  /\ fuel \in 0 .. MaxLines
  /\ inpf \in Handles \cup {NoFile}
  /\ open \subseteq Handles
  /\ stack \in Seq(Items) /\ calls \in Seq({1, 2})
  /\ outf \in {"null", "open"} /\ binf \in {"null", "file"}
  /\ image \in {"absent", "stale", "partial", "complete", "short"}
  /\ inpfname \in {"null", "live", "freed"}
  /\ litq \in {"null", "live", "freed"}
  /\ warnstk \in Nat
  /\ errnum \in Nat /\ warnnum \in Nat /\ errorcount \in Nat
  /\ jmpcode \in {0, 2, 3} /\ retcode \in -1 .. 3
  /\ misuse \subseteq {"source", "inpfname", "litq"}

TypeOK == FlagsOK /\ ValuesOK

(* initglobals(), errorset(sRESET), lexinit(): no file is open, nothing is  *)
(* allocated, and an .amx file of an earlier run may or may not be there.   *)
Init ==
  /\ mode \in Modes /\ werror \in BOOLEAN /\ tight \in BOOLEAN
  /\ pc = "alloc"
  /\ status = "idle" /\ reparse = FALSE /\ parsenum = 0 /\ fuel = 0
  /\ inpf = NoFile /\ open = {} /\ stack = <<>> /\ calls = <<>>
  /\ outf = "null" /\ binf = "null" /\ image \in {"absent", "stale"}
  /\ inpfname = "null" /\ litq = "null"
  /\ warnstk = 0
  /\ errflag = FALSE /\ errnum = 0 /\ warnnum = 0 /\ errorcount = 0
  /\ jmpcode = 0 /\ retcode = -1
  /\ late = FALSE /\ crossed = FALSE /\ misuse = {}

-----------------------------------------------------------------------------
(* The diagnostics engine *)

Kinds == {"error", "fatal", "warning"}     \* below 100, 100..199, from 200

(* Mutant of Silenced: the skimming passes are not silent.                  *)
SilencedOnlyByErrflag(kind) == kind # "fatal" /\ errflag

(* The early return of error(): only fatal errors pass in a skimming pass   *)
(* or while the rest of an erroneous statement is being skipped.            *)
Silenced(kind) == kind # "fatal" /\ (errflag \/ status # "write")

Counted(kind) == kind # "warning" \/ werror

Errnum(kind) == IF Counted(kind) THEN errnum + 1 ELSE errnum

(* errorcount restarts when the line moved since the last diagnostic.       *)
ErrorCount(kind, moved) ==
  (IF moved THEN 0 ELSE errorcount) + (IF Counted(kind) THEN 1 ELSE 0)

(* Every diagnostic prints the name of the current source.                  *)
Printed ==
  /\ misuse' = IF inpfname = "freed" THEN misuse \cup {"inpfname"} ELSE misuse
  /\ late' = (late \/ pc \in CleanupSteps)

(* Mutant of Report: nobody counts the errors.                              *)
ReportWithoutLimit(kind, moved) ==
  /\ ~Silenced(kind)
  /\ kind # "fatal" /\ ErrorCount(kind, moved) < 3
  /\ errflag' = (errflag \/ kind = "error")
  /\ errnum' = Errnum(kind)
  /\ warnnum' = IF Counted(kind) THEN warnnum ELSE warnnum + 1
  /\ errorcount' = ErrorCount(kind, moved)
  /\ Printed
  /\ UNCHANGED <<outputs, jmpcode>>

(* error() prints the message and returns to its caller.                    *)
Report(kind, moved) ==
  /\ ~Silenced(kind)
  /\ kind # "fatal" /\ Errnum(kind) <= MaxErrors /\ ErrorCount(kind, moved) < 3
  /\ errflag' = (errflag \/ kind = "error")
  /\ errnum' = Errnum(kind)
  /\ warnnum' = IF Counted(kind) THEN warnnum ELSE warnnum + 1
  /\ errorcount' = ErrorCount(kind, moved)
  /\ Printed
  /\ UNCHANGED <<outputs, jmpcode>>

(* error() prints the message, closes the assembler file and jumps to       *)
(* setjmp(), which goes to "cleanup".  The third error on one line raises   *)
(* error 107 on top.  binf is a local variable of pc_compile() that was     *)
(* assigned after setjmp() and is not volatile: after the jump it holds its *)
(* value or the NULL it held before.                                        *)
Abort(kind, moved) ==
  LET tooMany == kind # "fatal" /\ Errnum(kind) <= MaxErrors
  IN /\ ~Silenced(kind)
     /\ \/ kind = "fatal"
        \/ Errnum(kind) > MaxErrors
        \/ ErrorCount(kind, moved) >= 3
     /\ errflag' = (errflag \/ kind = "error")
     /\ errnum' = IF tooMany THEN Errnum(kind) + 1 ELSE Errnum(kind)
     /\ errorcount' = IF tooMany THEN ErrorCount(kind, moved) ELSE errorcount
     /\ Printed
     /\ outf' = "null"
     /\ binf' \in {binf, "null"}
     /\ jmpcode' = 2
     /\ pc' = "cleanup"
     /\ UNCHANGED <<warnnum, image>>

(* What a diagnostic leaves alone, whether it returns or jumps.             *)
unraised == <<options, passes, sources, buffers, warnstk, retcode>>

Fatal == Abort("fatal", FALSE) /\ UNCHANGED <<unraised, fuel>>

(* Any diagnostic; when it returns, the caller goes on at step next.        *)
Raise(kind, moved, next) ==
  \/ Report(kind, moved) /\ pc' = next
  \/ Abort(kind, moved)

quiet == <<counters, jmpcode, late, misuse>>

-----------------------------------------------------------------------------
(* Before the first pass *)

AllocTables ==
  /\ pc = "alloc"
  /\ inpfname' = "live" /\ litq' = "live"
  /\ pc' = "options"
  /\ UNCHANGED <<options, passes, fuel, sources, outputs, warnstk, quiet, retcode>>

(* setopt(): the options are accepted, or about() prints the help text and  *)
(* jumps to setjmp() with code 3.                                           *)
ParseOptions ==
  /\ pc = "options"
  /\ \/ pc' = "opensrc" /\ jmpcode' = jmpcode
     \/ pc' = "cleanup" /\ jmpcode' = 3
  /\ UNCHANGED <<options, passes, fuel, sources, outputs, buffers, warnstk,
                 counters, late, misuse, retcode>>

OpenSource ==
  /\ pc = "opensrc"
  /\ open' = {Main} /\ pc' = "openasm"
  /\ UNCHANGED <<options, passes, fuel, inpf, stack, calls, crossed, outputs,
                 buffers, warnstk, quiet, retcode>>

OpenAsm ==
  /\ pc = "openasm"
  /\ outf' = "open" /\ pc' = "openbin"
  /\ UNCHANGED <<options, passes, fuel, sources, binf, image, buffers, warnstk,
                 quiet, retcode>>

(* pc_openbin() truncates the .amx file "for other programs to check".      *)
OpenBin ==
  /\ pc = "openbin"
  /\ IF mode = "image"
     THEN binf' = "file" /\ image' = "partial"
     ELSE UNCHANGED <<binf, image>>
  /\ pc' = "firstpass" /\ status' = "first"
  /\ UNCHANGED <<options, reparse, parsenum, fuel, sources, outf, buffers,
                 warnstk, quiet, retcode>>

(* Error 103, 100, 101 or 108 before there is anything to parse.  While the *)
(* tables are allocated, inpfname or litq may still be NULL.                *)
SetupFails ==
  /\ pc \in {"alloc", "options", "opensrc", "openasm", "openbin"}
  /\ IF pc = "alloc"
     THEN /\ Abort("fatal", FALSE)
          /\ inpfname' \in {"null", "live"}
          /\ litq' \in IF inpfname' = "null" THEN {"null"} ELSE {"null", "live"}
          /\ UNCHANGED <<options, passes, sources, warnstk, retcode, fuel>>
     ELSE Fatal

-----------------------------------------------------------------------------
(* A pass over the source *)

(* Both passes rewind the main file and forget that a statement was being   *)
(* skipped.  lexinit() empties the parser stack for the second pass; the    *)
(* first pass relies on readline() having done so.                          *)
BeginPass ==
  /\ inpf' = Main
  /\ fuel' = MaxLines
  /\ errflag' = FALSE
  /\ pc' = "parse"
  /\ UNCHANGED <<options, parsenum, open, calls, crossed, outputs, buffers,
                 warnstk, errnum, warnnum, errorcount, jmpcode, retcode, late,
                 misuse>>

(* Mutant of BeginFirstPass: sc_reparse is not reset.                       *)
BeginFirstPassAgain ==
  /\ pc = "firstpass"
  /\ status' = "first" /\ reparse' = reparse
  /\ stack' = stack
  /\ BeginPass

BeginFirstPass ==
  /\ pc = "firstpass"
  /\ status' = "first" /\ reparse' = FALSE
  /\ stack' = stack
  /\ BeginPass

BeginWritePass ==
  /\ pc = "writepass"
  /\ status' = "write" /\ reparse' = reparse
  /\ stack' = <<>>
  /\ BeginPass

(* One source event: what every action of the parser has in common.         *)
Event ==
  /\ pc = "parse" /\ fuel > 0
  /\ fuel' = fuel - 1

(* popstk(), n times over; the empty stack yields the number -1.            *)
Popped(n) == SubSeq(stack, 1, IF n <= Len(stack) THEN Len(stack) - n ELSE 0)
Item(n) == IF n <= Len(stack) THEN stack[Len(stack) + 1 - n] ELSE Number

(* inpf, inpfname and curlibrary; iflevel, icomment, fcurrent and fline.    *)
Frame(file) == <<file, file, file, Number, Number, Number, Number>>

(* plungequalifiedfile(): the state of the file that is read is pushed on   *)
(* the parser stack.                                                        *)
Plunge ==
  /\ Event /\ inpf # NoFile /\ inpf < MaxDepth
  /\ stack' = stack \o Frame(inpf)
  /\ inpf' = inpf + 1
  /\ open' = open \cup {inpf + 1}
  /\ UNCHANGED <<pc, options, passes, calls, crossed, outputs, buffers, warnstk,
                 quiet, retcode>>

(* test(), a conditional and a case label keep one flag on the parser       *)
(* stack, a parenthesis keeps two.                                          *)
OpenExpression ==
  /\ Event /\ inpf # NoFile
  /\ \E n \in {1, 2} : /\ stack' = stack \o [i \in 1 .. n |-> Flag]
                       /\ calls' = Append(calls, n)
  /\ UNCHANGED <<pc, options, passes, inpf, open, crossed, outputs, buffers,
                 warnstk, quiet, retcode>>

(* They take back as many items, whatever is there: what the file has       *)
(* pushed that the expression goes on in, if it began in another file.      *)
CloseExpression ==
  /\ Event /\ inpf # NoFile /\ calls # <<>>
  /\ LET n == calls[Len(calls)]
     IN /\ stack' = Popped(n)
        /\ crossed' = (crossed \/ \E i \in 1 .. n : Item(i) # Flag)
  /\ calls' = SubSeq(calls, 1, Len(calls) - 1)
  /\ UNCHANGED <<pc, options, passes, inpf, open, outputs, buffers, warnstk,
                 quiet, retcode>>

(* Mutants of CloseUnlessMain: the main file is closed as well; no file is. *)
CloseEvenMain ==
  /\ open' = open \ {inpf}
  /\ misuse' = IF inpf \in open THEN misuse ELSE misuse \cup {"source"}

CloseNone == UNCHANGED <<open, misuse>>

(* pc_closesrc(inpf), which both callers leave out for the main file.       *)
CloseUnlessMain ==
  /\ open' = IF inpf = Main THEN open ELSE open \ {inpf}
  /\ misuse' = IF inpf \in open THEN misuse ELSE misuse \cup {"source"}

(* Mutant of EndInput: inpf still points to the file that was closed.       *)
EndInputKeepsPointer ==
  /\ Event /\ inpf # NoFile
  /\ CloseUnlessMain
  /\ UNCHANGED <<pc, inpf, stack, calls, crossed, options, passes, outputs,
                 buffers, warnstk, counters, jmpcode, late, retcode>>

(* #endinput: the rest of the current file is not read.                     *)
EndInput ==
  /\ Event /\ inpf # NoFile
  /\ CloseUnlessMain
  /\ inpf' = NoFile
  /\ UNCHANGED <<pc, stack, calls, crossed, options, passes, outputs, buffers,
                 warnstk, counters, jmpcode, late, retcode>>

(* The seven items readline() pops are those of one file.                   *)
Restores(file) == \A i \in 5 .. 7 : Item(i) = file

(* readline() at the end of an include file: back to the file that was      *)
(* pushed, which is still open.                                             *)
PopFile ==
  /\ pc = "parse" /\ stack # <<>>
  /\ inpf' \in Handles /\ Restores(inpf')
  /\ IF inpf = NoFile THEN UNCHANGED <<open, misuse>> ELSE CloseUnlessMain
  /\ stack' = Popped(7)
  /\ UNCHANGED <<pc, fuel, calls, crossed, options, passes, outputs, buffers,
                 warnstk, counters, jmpcode, late, retcode>>

(* readline() finds something else: flags of an expression in which the     *)
(* file ends, the main file included, or what is left of a frame that an    *)
(* expression has taken items from.  Numbers, or the -1 of the empty stack, *)
(* become the pointers inpf and inpfname, which are used at once.           *)
LoseFile ==
  /\ pc = "parse" /\ stack # <<>>
  /\ \A file \in Handles : ~Restores(file)
  /\ pc' = "undefined"
  /\ crossed' = (crossed \/ Item(1) = Flag)
  /\ UNCHANGED <<fuel, inpf, open, stack, calls, options, passes, outputs, buffers,
                 warnstk, quiet, retcode>>

(* readline() when the parser stack is empty: reading ends.  The main file  *)
(* stays open.  An #if or a comment that was not closed is error 1.  What   *)
(* is in an expression returns with the -1 of the empty stack for its flags *)
(* before the pass ends.                                                    *)
StopReading ==
  /\ pc = "parse" /\ stack = <<>>
  /\ open' = IF inpf = Main THEN open ELSE open \ {inpf}
  /\ calls' = <<>>
  /\ \/ pc' = "endpass" /\ UNCHANGED <<outputs, quiet>>
     \/ Raise("error", TRUE, "endpass")
  /\ UNCHANGED <<options, passes, fuel, inpf, stack, crossed, buffers, warnstk,
                 retcode>>

(* A diagnostic in the source text.                                         *)
Diagnose ==
  /\ Event
  /\ \E kind \in Kinds, moved \in BOOLEAN : Raise(kind, moved, "parse")
  /\ UNCHANGED unraised

(* lex() reaches a semicolon or a keyword: the next diagnostic counts.      *)
Resynchronise ==
  /\ Event /\ errflag
  /\ errflag' = FALSE
  /\ UNCHANGED <<pc, options, passes, sources, outputs, buffers, warnstk, errnum,
                 warnnum, errorcount, jmpcode, retcode, late, misuse>>

(* A function whose result was used before its tag was known: the skimming  *)
(* pass has to be done again.                                               *)
RequestReparse ==
  /\ Event /\ status = "first" /\ parsenum < MaxReparse
  /\ reparse' = TRUE
  /\ UNCHANGED <<pc, options, status, parsenum, sources, outputs, buffers,
                 warnstk, quiet, retcode>>

PushWarnings ==
  /\ Event
  /\ warnstk' = warnstk + 1
  /\ UNCHANGED <<pc, options, passes, sources, outputs, buffers, quiet, retcode>>

(* Mutant of PopWarnings: the empty stack is popped.                        *)
PopWarningsUntested ==
  /\ Event
  /\ warnstk' = warnstk - 1
  /\ UNCHANGED <<pc, outputs, quiet, options, passes, sources, buffers, retcode>>

(* Error 97 when there is nothing to pop.                                   *)
PopWarnings ==
  /\ Event
  /\ IF warnstk > 0
     THEN warnstk' = warnstk - 1 /\ UNCHANGED <<pc, outputs, quiet>>
     ELSE /\ warnstk' = warnstk
          /\ \E moved \in BOOLEAN :
               \/ Raise("error", moved, "parse")
               \/ Silenced("error") /\ UNCHANGED <<pc, outputs, quiet>>
  /\ UNCHANGED <<options, passes, sources, buffers, retcode>>

-----------------------------------------------------------------------------
(* Between and after the passes *)

EndFirstPass ==
  /\ pc = "endpass" /\ status = "first"
  /\ parsenum' = IF parsenum <= MaxReparse THEN parsenum + 1 ELSE parsenum
  /\ IF reparse
     THEN pc' = "firstpass" /\ status' = status
     ELSE pc' = "conflict" /\ status' = "write"
  /\ UNCHANGED <<options, reparse, fuel, sources, outputs, buffers, warnstk, quiet,
                 retcode>>

(* state_conflict() and the report; a listing needs no second pass.         *)
EndSkimming ==
  /\ pc = "conflict"
  /\ LET next == IF mode = "list" THEN "cleanup" ELSE "writepass"
     IN \/ pc' = next /\ UNCHANGED <<outputs, quiet>>
        \/ Raise("error", TRUE, next)
  /\ UNCHANGED <<unraised, fuel>>

EndWritePass ==
  /\ pc = "endpass" /\ status = "write"
  /\ pc' = "trailer"
  /\ UNCHANGED <<fuel, unraised, outputs, quiet>>

(* writetrailer(), testsymbols() and error 13: unused symbols (warnings),   *)
(* missing functions and a missing entry point (errors).                    *)
TestSymbols ==
  /\ pc = "trailer"
  /\ \/ pc' = "cleanup" /\ fuel' = fuel /\ UNCHANGED <<outputs, quiet>>
     \/ /\ fuel > 0 /\ fuel' = fuel - 1
        /\ \E kind \in {"error", "warning"} : Raise(kind, TRUE, "trailer")
  /\ UNCHANGED unraised

-----------------------------------------------------------------------------
(* The label "cleanup": reached at the end, and by every jump *)

(* Mutants of CloseInput: a compilation with warnings is not assembled; one *)
(* that was abandoned is.                                                   *)
CloseInputUnlessWarned ==
  /\ pc = "cleanup"
  /\ open' = open \ {inpf}
  /\ misuse' = IF inpf # NoFile /\ inpf \notin open
               THEN misuse \cup {"source"} ELSE misuse
  /\ pc' = IF mode = "image" /\ errnum = 0 /\ warnnum = 0 /\ jmpcode = 0
           THEN "assemble" ELSE "closeout"
  /\ UNCHANGED <<options, passes, fuel, inpf, stack, calls, crossed, outputs,
                 buffers, warnstk, counters, jmpcode, retcode, late>>

(* The pointer is not set to NULL: a second visit closes the file again.    *)
CloseInput ==
  /\ pc = "cleanup"
  /\ open' = open \ {inpf}
  /\ misuse' = IF inpf # NoFile /\ inpf \notin open
               THEN misuse \cup {"source"} ELSE misuse
  /\ pc' = IF mode = "image" /\ errnum = 0 /\ jmpcode = 0
           THEN "assemble" ELSE "closeout"
  /\ UNCHANGED <<options, passes, fuel, inpf, stack, calls, crossed, outputs,
                 buffers, warnstk, counters, jmpcode, retcode, late>>

(* The image is written.  Without compaction the code that did not fit is   *)
(* written again from the start, after warning 232.                         *)
Assemble ==
  /\ pc = "assemble"
  /\ image' = "complete" /\ pc' = "closeout"
  /\ UNCHANGED <<unraised, fuel, outf, binf>>
  /\ \/ UNCHANGED quiet
     \/ /\ ~Silenced("warning") /\ Errnum("warning") <= MaxErrors
        /\ ErrorCount("warning", TRUE) < 3
        /\ errflag' = errflag
        /\ errnum' = Errnum("warning")
        /\ warnnum' = IF werror THEN warnnum ELSE warnnum + 1
        /\ errorcount' = ErrorCount("warning", TRUE)
        /\ jmpcode' = jmpcode
        /\ Printed

(* Errors 101, 103, 104 and 106 of the assembler, and a warning 232 that    *)
(* counts as one error too many.                                            *)
AssembleFails ==
  /\ pc = "assemble"
  /\ \E kind \in {"fatal", "warning"} : Abort(kind, TRUE)
  /\ UNCHANGED <<unraised, fuel>>

(* pc_closebin(): the file is deleted if there were errors.  What fclose()  *)
(* returns is not looked at: if it cannot write what is still buffered, the *)
(* file stays short.                                                        *)
Closed == CASE binf # "file"                                      -> {image}
            [] binf = "file" /\ errnum # 0                        -> {"absent"}
            [] binf = "file" /\ errnum = 0 /\ image = "complete"  -> {"complete", "short"}
            [] binf = "file" /\ errnum = 0 /\ image # "complete"  -> {image}

CloseOutputs ==
  /\ pc = "closeout"
  /\ outf' = "null" /\ binf' = "null"
  /\ image' \in Closed
  /\ pc' = "limit"
  /\ UNCHANGED <<unraised, fuel, quiet>>

(* Error 106 when the program is larger than -X allows: the jump leads back *)
(* to the first step of the cleanup.                                        *)
CheckLimit ==
  /\ pc = "limit"
  /\ IF errnum = 0 /\ tight
     THEN Fatal
     ELSE pc' = "release" /\ UNCHANGED <<unraised, fuel, outputs, quiet>>

(* free(inpfname) and free(litq), neither of which is set to NULL.          *)
Release ==
  /\ pc = "release"
  /\ inpfname' = IF inpfname = "null" THEN "null" ELSE "freed"
  /\ litq' = IF litq = "null" THEN "null" ELSE "freed"
  /\ misuse' = misuse \cup {b \in {"inpfname", "litq"} :
                              \/ b = "inpfname" /\ inpfname = "freed"
                              \/ b = "litq" /\ litq = "freed"}
  /\ pc' = "warnstack"
  /\ UNCHANGED <<options, passes, fuel, sources, outputs, warnstk, counters,
                 jmpcode, retcode, late>>

(* clear_warningstack(): error 96 for a push without a pop, with a name     *)
(* that was released before.                                                *)
ClearWarnings ==
  /\ pc = "warnstack"
  /\ \/ /\ warnstk = 0 \/ Silenced("error")
        /\ warnstk' = 0 /\ pc' = "exit"
        /\ UNCHANGED <<outputs, quiet>>
     \/ /\ warnstk > 0
        /\ \E moved \in BOOLEAN :
             \/ Report("error", moved) /\ pc' = "exit" /\ warnstk' = 0
             \/ Abort("error", moved) /\ warnstk' = warnstk
  /\ UNCHANGED <<options, passes, fuel, sources, buffers, retcode>>

Exit ==
  /\ pc = "exit"
  /\ retcode' = CASE errnum # 0                 -> 2
                  [] errnum = 0 /\ warnnum # 0 -> 1
                  [] OTHER                      -> jmpcode
  /\ pc' = "done"
  /\ UNCHANGED <<options, passes, fuel, sources, outputs, buffers, warnstk, quiet>>

-----------------------------------------------------------------------------
Setup == AllocTables \/ ParseOptions \/ OpenSource \/ OpenAsm \/ OpenBin \/ SetupFails

Parse == \/ BeginFirstPass \/ BeginWritePass
         \/ Plunge \/ OpenExpression \/ CloseExpression
         \/ EndInput \/ PopFile \/ LoseFile \/ StopReading
         \/ Diagnose \/ Resynchronise \/ RequestReparse
         \/ PushWarnings \/ PopWarnings
         \/ EndFirstPass \/ EndSkimming \/ EndWritePass \/ TestSymbols

Cleanup == \/ CloseInput \/ Assemble \/ AssembleFails \/ CloseOutputs
           \/ CheckLimit \/ Release \/ ClearWarnings \/ Exit

Next == Setup \/ Parse \/ Cleanup

(* pc_compile() is one thread of control that nothing blocks: it takes its  *)
(* next step as long as it has one.                                         *)
Spec == Init /\ [][Next]_vars
FairSpec == Spec /\ WF_vars(Next)

-----------------------------------------------------------------------------
(* Properties *)

Done == pc = "done"

(* The assembler has finished the image, whatever fclose() made of it.      *)
Assembled == image \in {"complete", "short"}

(* A return value of 0 or 1 from an ordinary compilation means that the     *)
(* .amx file is there and assembled to the end: PawnWrap::compile() takes   *)
(* it for success and lets the packager read the file.                      *)
SuccessMeansImage ==
  Done /\ mode = "image" /\ retcode \in {0, 1} => Assembled

(* Why it does: a jump comes with an error or, after the help text, before  *)
(* anything could be reported; and whoever leaves the assembler with no     *)
(* error and no jump has completed the image.                               *)
SuccessInv ==
  /\ jmpcode = 2 => errnum > 0
  /\ jmpcode = 3 => status = "idle"
  /\ jmpcode # 0 => pc \in CleanupSteps \cup {"done"}
  /\ status = "idle" => warnnum = 0
  /\ pc \in {"alloc", "options"} => status = "idle"
  /\ pc = "assemble" => mode = "image" /\ errnum = 0 /\ jmpcode = 0
  /\ /\ pc \in {"closeout", "limit", "release", "warnstack", "exit", "done"}
     /\ mode = "image" /\ errnum = 0 /\ jmpcode = 0
     => Assembled
  /\ Done => \/ errnum # 0 /\ retcode = 2
             \/ errnum = 0 /\ warnnum # 0 /\ retcode = 1
             \/ errnum = 0 /\ warnnum = 0 /\ retcode = jmpcode

(* What becomes of the .amx file on the way there: it is empty while the    *)
(* source is read and whenever the assembler starts, and pc_openbin() and   *)
(* the handle binf go with it.                                              *)
OutputInv ==
  /\ ~Done => retcode = -1
  /\ pc \in {"alloc", "options", "opensrc", "openasm", "openbin"}
     => image \in {"absent", "stale"}
  /\ binf = "file" => image \in {"partial", "complete"}
  /\ /\ pc \in {"firstpass", "writepass", "parse", "endpass", "conflict",
                "trailer", "cleanup", "assemble"}
     /\ mode = "image" /\ jmpcode = 0
     => image = "partial"

(* Nothing that was released is released again, closed again or printed, as *)
(* long as no diagnostic is issued once the cleanup has begun and every     *)
(* expression ends in the file it begins in.                                *)
MisuseOnlyWhenLate == misuse # {} => late \/ crossed

(* A compilation that ends by itself has closed every source file it        *)
(* opened, whatever was included, unless #endinput ended the main file or   *)
(* an expression ended in another file than it began in.                    *)
SourcesClosed == Done /\ jmpcode = 0 /\ inpf # NoFile /\ ~crossed => open = {}

(* The files readline() will return to.                                     *)
Pending == {stack[i] : i \in DOMAIN stack} \cap Handles

(* Flags of expressions and states of files share one stack that tells them *)
(* apart by their number only.  As long as every expression ends in the     *)
(* file it begins in, readline() finds the includer of the file that ended; *)
(* while the source is read, the file being read is open, and so is every   *)
(* file readline() will return to.                                          *)
IncludersOpen ==
  ~crossed =>
    /\ pc # "undefined"
    /\ pc = "parse" => /\ Pending \subseteq open
                       /\ inpf # NoFile => inpf \in open \ Pending

(* "If no more data can be read from the file, readline() attempts to pop   *)
(* off the previous file from the stack.  If that fails too, it sets        *)
(* freading to 0" (sc2.c:322): a file that ends leads back to the file      *)
(* before it or ends the reading.                                           *)
FilesEnd == pc # "undefined"

(* "In a two-pass compiler, an error should not be reported twice": until   *)
(* the skimming passes are over only a fatal error counts.                  *)
SkimmingIsSilent == status # "write" /\ jmpcode # 2 => errnum = 0 /\ warnnum = 0

(* error() gives up after MaxErrors errors; the jump and what the cleanup   *)
(* still reports add at most two.                                           *)
ErrorsBounded == errnum <= MaxErrors + 2

(* Why these hold.  Which pass the steps belong to: sc_status is statWRITE  *)
(* from the end of the skimming passes on, and no pass is begun after that. *)
PhaseInv ==
  /\ pc \in {"alloc", "options", "opensrc", "openasm", "openbin"} => status = "idle"
  /\ pc = "firstpass" => status = "first"
  /\ pc \in {"conflict", "writepass", "trailer"} => status = "write"
  /\ jmpcode = 0 /\ pc \in CleanupSteps \cup {"done"} => status = "write"

(* The n items s of the parser stack when every expression ended in its     *)
(* file: the file at level e has below[e] items below its own, the last of  *)
(* which restore the file at level e - 1; what it pushed itself are flags.  *)
Framed(s, n, d, below) ==
  /\ below[0] = 0
  /\ \A e \in 1 .. d : \A k \in 0 .. e - 1 : below[k] + 7 <= below[e]
  /\ \A e \in 1 .. d : \A i \in 1 .. 7 : s[below[e] - 7 + i] = Frame(e - 1)[i]
  /\ \A e \in 0 .. d : \A i \in 1 .. below[e] : s[i] < e
  /\ \A e \in 1 .. d : \A i \in below[e - 1] + 1 .. below[e] - 7 : s[i] = Flag
  /\ \A i \in below[d] + 1 .. n : s[i] = Flag

(* Which files are open: those on the parser stack and the one being read,  *)
(* until the first step of the cleanup; an include file that #endinput      *)
(* closed is no longer.                                                     *)
OpenAt(d) == IF inpf = NoFile /\ d > 0 THEN 0 .. d - 1 ELSE 0 .. d
Level(d) == /\ inpf \in {d, NoFile}
            /\ open = OpenAt(d)
            /\ \E below \in [0 .. d -> 0 .. Len(stack)] :
                 Framed(stack, Len(stack), d, below)

(* A pass that ends leaves the stack empty.                                 *)
SourceInv ==
  ~crossed =>
    /\ pc # "undefined"
    /\ pc \in {"alloc", "options", "opensrc"} => inpf = NoFile /\ stack = <<>> /\ open = {}
    /\ pc = "parse" => \E d \in Handles : Level(d)
    /\ pc \in {"openasm", "openbin", "firstpass", "writepass", "endpass", "conflict",
               "trailer"}
       => stack = <<>> /\ open = {Main} /\ inpf \in {Main, NoFile}
    /\ jmpcode = 0 /\ pc \in CleanupSteps \cup {"done"}
       => /\ inpf \in {Main, NoFile}
          /\ open = IF pc = "cleanup" THEN {Main} ELSE {Main} \ {inpf}

(* What was released: nothing before the cleanup, and on the first way      *)
(* through it only behind the step that releases it.                        *)
ReleaseInv ==
  /\ misuse # {} => late \/ crossed
  /\ pc \notin CleanupSteps \cup {"done"} => ~late
  /\ pc \notin {"warnstack", "exit", "done"} => late \/ "freed" \notin {inpfname, litq}
  /\ pc = "cleanup" => late \/ crossed \/ inpf = NoFile \/ inpf \in open

(* How many errors there are: at most MaxErrors until the first jump, which *)
(* adds at most one, as does a second one for a #pragma warning push; after *)
(* that error() is silent.                                                  *)
BoundInv ==
  /\ jmpcode # 2 => errnum <= MaxErrors
  /\ \/ errnum <= MaxErrors + 1
     \/ errflag /\ errnum <= MaxErrors + 2

(* pc_compile() returns, whatever the cleanup reports about itself, unless  *)
(* readline() has lost the file to return to.                               *)
Termination == <>(Done \/ pc = "undefined")

(* The promise the adapter builds on, with the compilation as its           *)
(* implementation.                                                          *)
Contract == INSTANCE CompileContract
              WITH phase <- IF Done THEN "done" ELSE "running"
KeepsContract == Contract!ContractSpec
=============================================================================
