------------------------------ MODULE Conditional ------------------------------
(***************************************************************************)
(* What #if .. #elseif .. #else .. #endif promise: which lines are part of *)
(* the program, in a file and in the files it includes.  Preproc shows that*)
(* the two levels and the bit fields of command() (sc2.c) keep it.          *)
(***************************************************************************)
EXTENDS Integers, Sequences

(* Of an #if section: live because a condition is true; no condition was    *)
(* true yet; a condition was true earlier; live because of #else; the whole *)
(* section is inside a part that is left out.                               *)
Modes == {"parse", "skip", "done", "else", "dead"}

VARIABLES
  stack,    (* modes of the open #if sections, the innermost last           *)
  base,     (* how many were open in the including files, for each of them  *)
  sound     (* every file has only closed or changed sections of its own,   *)
            (* and leads back to its includer when it ends                  *)

conditional == <<stack, base, sound>>

Live(s) == s = <<>> \/ s[Len(s)] \in {"parse", "else"}

Opened == IF base = <<>> THEN 0 ELSE base[Len(base)]
Own == Len(stack) > Opened

ConditionalInit == stack = <<>> /\ base = <<>> /\ sound = TRUE

Change(m) == stack' = [stack EXCEPT ![Len(stack)] = m]

BeginIf(v) ==
  /\ stack' = Append(stack, CASE ~Live(stack) -> "dead"
                              [] Live(stack) /\ v -> "parse"
                              [] Live(stack) /\ ~v -> "skip")
  /\ UNCHANGED <<base, sound>>

(* After an #else, another #else or #elseif is an error: nothing is         *)
(* promised of the rest of that section.                                    *)
TurnElseIf(v) ==
  /\ Own
  /\ \E m \in Modes \ {"dead"} :
       /\ CASE stack[Len(stack)] = "skip" -> m = IF v THEN "parse" ELSE "skip"
            [] stack[Len(stack)] \in {"parse", "done"} -> m = "done"
            [] stack[Len(stack)] = "else" -> TRUE
            [] stack[Len(stack)] = "dead" -> FALSE
       /\ Change(m)
  /\ UNCHANGED <<base, sound>>

TurnElse ==
  /\ Own
  /\ \E m \in Modes \ {"dead"} :
       /\ CASE stack[Len(stack)] = "skip" -> m = "else"
            [] stack[Len(stack)] \in {"parse", "done"} -> m = "done"
            [] stack[Len(stack)] = "else" -> TRUE
            [] stack[Len(stack)] = "dead" -> FALSE
       /\ Change(m)
  /\ UNCHANGED <<base, sound>>

EndSection ==
  /\ Own
  /\ stack' = SubSeq(stack, 1, Len(stack) - 1)
  /\ UNCHANGED <<base, sound>>

(* Only a live line can include a file.                                     *)
EnterFile ==
  /\ Live(stack)
  /\ base' = Append(base, Len(stack))
  /\ UNCHANGED <<stack, sound>>

(* Sections left open end with their file.                                  *)
LeaveFile ==
  /\ base # <<>>
  /\ stack' = SubSeq(stack, 1, Opened)
  /\ base' = SubSeq(base, 1, Len(base) - 1)
  /\ UNCHANGED sound

(* A file closes or changes a section of a file that includes it.           *)
Cross == ~Own /\ base # <<>> /\ ~sound'

(* The end of a file leads to no file that is known, or to any of those     *)
(* around it.                                                               *)
LoseFile ==
  /\ ~sound'
  /\ \/ UNCHANGED <<stack, base>>
     \/ \E n \in 0 .. Len(base) - 1 : base' = SubSeq(base, 1, n)

ConditionalNext ==
  \/ ~sound /\ ~sound'
  \/ \E v \in BOOLEAN : BeginIf(v) \/ TurnElseIf(v)
  \/ TurnElse \/ EndSection \/ EnterFile \/ LeaveFile \/ Cross \/ LoseFile

ConditionalSpec == ConditionalInit /\ [][ConditionalNext]_conditional
=============================================================================
