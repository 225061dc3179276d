-------------------------------- MODULE Preproc --------------------------------
(***************************************************************************)
(* Conditional compilation and include files as sc2.c does them: command()  *)
(* on the directives, doinclude()/plungequalifiedfile() and readline() on   *)
(* the files.  The lines of the program are chosen as they are read.        *)
(***************************************************************************)
EXTENDS Integers, Sequences

CONSTANTS
  sCOMP_STACK,   (* nesting of #if sections                                 *)
  MaxDepth       (* bound: include files inside each other                  *)

ASSUME NestAssumption == sCOMP_STACK \in Nat \ {0}
ASSUME DepthAssumption == MaxDepth \in Nat

VARIABLES
  iflevel,     (* nesting level of #if sections                             *)
  skiplevel,   (* level at which skipping started                           *)
  ifstack,     (* bit fields of the levels                                  *)
  saved,       (* iflevel on the parser stack, for each including file      *)
  inpf,        (* FALSE after #endinput: the file is closed                 *)
  freading,
  msg,         (* the error the last line has raised, 0 for none            *)
  crossed      (* history: a file has used an #if section of a file that    *)
               (* includes it, or readline() has lost the file to return to *)

levels == <<iflevel, skiplevel, ifstack>>
input  == <<saved, inpf, freading>>
vars   == <<levels, input, msg, crossed>>

SKIPMODE == "SKIPMODE"
PARSEMODE == "PARSEMODE"

SKIPPING == skiplevel > 0 /\ SKIPMODE \in ifstack[skiplevel]

(* lexinit(); ifstack keeps what an earlier pass has left.                  *)
Init ==
  /\ iflevel = 0 /\ skiplevel = 0
  /\ ifstack \in [1 .. sCOMP_STACK -> SUBSET {SKIPMODE, PARSEMODE}]
  /\ saved = <<>> /\ inpf = TRUE /\ freading = TRUE
  /\ msg = 0 /\ crossed = FALSE

Reading == freading /\ inpf

Lowest == IF saved = <<>> THEN 0 ELSE saved[Len(saved)]

(* The section at work was opened by this file, or the history says so.     *)
Crosses == crossed' = (crossed \/ (saved # <<>> /\ iflevel <= Lowest))

SetMode(m) == ifstack' = [ifstack EXCEPT ![iflevel] = m]

-----------------------------------------------------------------------------
(* command() *)

(* Mutant: the level of the skipped section is not remembered.              *)
DoIfAlways ==
  /\ Reading /\ iflevel < sCOMP_STACK
  /\ iflevel' = iflevel + 1 /\ skiplevel' = iflevel + 1
  /\ \E val \in BOOLEAN :
       ifstack' = [ifstack EXCEPT ![iflevel + 1] = {IF val THEN PARSEMODE ELSE SKIPMODE}]
  /\ msg' = 0
  /\ UNCHANGED <<input, crossed>>

(* #if: inside a skipped part it is only counted.                           *)
DoIf ==
  /\ Reading /\ iflevel < sCOMP_STACK
  /\ iflevel' = iflevel + 1
  /\ IF SKIPPING
     THEN UNCHANGED <<skiplevel, ifstack>>
     ELSE /\ skiplevel' = iflevel + 1
          /\ \E val \in BOOLEAN :
               ifstack' = [ifstack EXCEPT ![iflevel + 1] = {IF val THEN PARSEMODE ELSE SKIPMODE}]
  /\ msg' = 0
  /\ UNCHANGED <<input, crossed>>

(* The table of levels is full: a fatal error, no line is read any more.    *)
DoIfOverflow ==
  /\ Reading /\ iflevel = sCOMP_STACK
  /\ msg' = 102 /\ freading' = FALSE
  /\ UNCHANGED <<levels, saved, inpf, crossed>>

(* Mutant: #elseif ignores what was compiled earlier in the section.        *)
DoElseIfAgain ==
  /\ Reading /\ iflevel > 0
  /\ \E val \in BOOLEAN : SetMode({IF val /\ skiplevel = iflevel THEN PARSEMODE ELSE SKIPMODE})
  /\ msg' = 0 /\ Crosses
  /\ UNCHANGED <<iflevel, skiplevel, input>>

(* #elseif: the expression only counts at the level that is skipped.        *)
DoElseIf ==
  /\ Reading /\ iflevel > 0
  /\ IF PARSEMODE \in ifstack[iflevel]
     THEN SetMode(ifstack[iflevel] \union {SKIPMODE})
     ELSE \E val \in BOOLEAN :
            /\ val => skiplevel = iflevel
            /\ SetMode({IF val THEN PARSEMODE ELSE SKIPMODE})
  /\ msg' = 0 /\ Crosses
  /\ UNCHANGED <<iflevel, skiplevel, input>>

(* #else.  The test for an earlier one is there, but HANDLED_ELSE is never  *)
(* set.                                                                     *)
DoElse ==
  /\ Reading /\ iflevel > 0
  /\ SetMode(IF PARSEMODE \in ifstack[iflevel]
             THEN ifstack[iflevel] \union {SKIPMODE}
             ELSE ifstack[iflevel] \ {SKIPMODE})
  /\ msg' = 0 /\ Crosses
  /\ UNCHANGED <<iflevel, skiplevel, input>>

DoEndIf ==
  /\ Reading /\ iflevel > 0
  /\ iflevel' = iflevel - 1
  /\ skiplevel' = IF iflevel - 1 < skiplevel THEN iflevel - 1 ELSE skiplevel
  /\ msg' = 0 /\ Crosses
  /\ UNCHANGED <<ifstack, input>>

(* #else, #elseif or #endif where no section is open.                       *)
NoMatchingIf ==
  /\ Reading /\ iflevel = 0
  /\ msg' = 26
  /\ UNCHANGED <<levels, input, crossed>>

(* #include of a file that is found and was not included before.            *)
DoInclude ==
  /\ Reading /\ ~SKIPPING /\ Len(saved) < MaxDepth
  /\ saved' = Append(saved, iflevel)
  /\ msg' = 0
  /\ UNCHANGED <<levels, inpf, freading, crossed>>

EndInput ==
  /\ Reading /\ ~SKIPPING
  /\ inpf' = FALSE /\ msg' = 0
  /\ UNCHANGED <<levels, saved, freading, crossed>>

-----------------------------------------------------------------------------
(* readline() at the end of a file, which can come after any line.  The     *)
(* levels are where plungequalifiedfile() has pushed them, unless the file  *)
(* ends inside an expression it began, or has ended one of another file:    *)
(* such expressions keep flags on the same stack (see PawnCompile).         *)

EndInclude ==
  /\ freading /\ saved # <<>>
  /\ iflevel' = Lowest /\ skiplevel' = Lowest
  /\ saved' = SubSeq(saved, 1, Len(saved) - 1)
  /\ inpf' = TRUE /\ msg' = 0
  /\ UNCHANGED <<ifstack, freading, crossed>>

EndMain ==
  /\ freading /\ saved = <<>>
  /\ freading' = FALSE
  /\ msg' = IF iflevel > 0 THEN 1 ELSE 0
  /\ UNCHANGED <<levels, saved, inpf, crossed>>

(* Whatever is on top of the stack is taken for the state of the includer.  *)
(* If the pointers are those of one of the files around this one, reading   *)
(* goes on there, with a level from the place of iflevel: that file's own,  *)
(* or a flag.  If not, nothing is known of what follows.                    *)
LoseFile ==
  /\ freading
  /\ crossed' = TRUE /\ msg' = 0
  /\ \/ freading' = FALSE /\ UNCHANGED <<iflevel, skiplevel, saved, inpf>>
     \/ \E n \in 0 .. Len(saved) - 1 :
          /\ saved' = SubSeq(saved, 1, n)
          /\ iflevel' \in {saved[n + 1], 0, 1} /\ skiplevel' = iflevel'
          /\ inpf' = TRUE /\ freading' = freading
  /\ UNCHANGED ifstack

Next ==
  \/ DoIf \/ DoIfOverflow \/ DoElseIf \/ DoElse \/ DoEndIf \/ NoMatchingIf
  \/ DoInclude \/ EndInput \/ EndInclude \/ EndMain \/ LoseFile

Spec == Init /\ [][Next]_vars

-----------------------------------------------------------------------------
(* Properties *)

(* The mode of a section, read from the levels and bit fields.              *)
ModeOf(k) ==
  CASE k > skiplevel -> "dead"
    [] k <= skiplevel /\ ifstack[k] = {} -> "else"
    [] k <= skiplevel /\ ifstack[k] = {PARSEMODE} -> "parse"
    [] k <= skiplevel /\ ifstack[k] = {SKIPMODE} -> "skip"
    [] k <= skiplevel /\ ifstack[k] = {SKIPMODE, PARSEMODE} -> "done"

Sections == INSTANCE Conditional
              WITH stack <- [k \in 1 .. iflevel |-> ModeOf(k)],
                   base <- saved, sound <- ~crossed

(* Two counters and one table, whose entries above skiplevel are stale,     *)
(* compile exactly the lines that nested sections select, in every file,    *)
(* until an include file touches a section of its including file or a file  *)
(* ends inside an expression.                                               *)
SelectsLines == Sections!ConditionalSpec

(* Outside skipped parts the two levels are equal, as readline() and        *)
(* plungequalifiedfile() assume when they save one and restore both; inside *)
(* one, every section around the skipped one is live.                       *)
LevelsAgree ==
  ~crossed =>
    /\ ~SKIPPING => skiplevel = iflevel
    /\ \A k \in 1 .. skiplevel - 1 : SKIPMODE \notin ifstack[k]

(* The values of the variables: skipping starts at a section that is open.  *)
TypeOK ==
  /\ iflevel \in 0 .. sCOMP_STACK /\ skiplevel \in 0 .. iflevel
  /\ ifstack \in [1 .. sCOMP_STACK -> SUBSET {SKIPMODE, PARSEMODE}]
  /\ saved \in Seq(0 .. sCOMP_STACK)
  /\ inpf \in BOOLEAN /\ freading \in BOOLEAN /\ crossed \in BOOLEAN
  /\ msg \in {0, 1, 26, 102}

(* Why the levels agree after the end of an include file as well, when both *)
(* get the one value that was saved: the sections that were open when a     *)
(* file was included are all live and stay so until its end, and a file     *)
(* that is included further in was included with at least as many.          *)
SavedInv ==
  ~crossed =>
    \A i \in 1 .. Len(saved) :
      /\ saved[i] <= skiplevel
      /\ \A k \in 1 .. saved[i] : SKIPMODE \notin ifstack[k]
      /\ \A j \in 1 .. i : saved[j] <= saved[i]
=============================================================================
