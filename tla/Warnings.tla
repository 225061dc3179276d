-------------------------------- MODULE Warnings --------------------------------
(***************************************************************************)
(* The disabled warnings of sc5.c over the passes of pc_compile(): -w on    *)
(* the command line, #pragma warning push/pop/enable/disable in the source. *)
(* The source is read once per pass, and nothing puts the mask or its stack *)
(* back in between.  One warning is looked at, under which every line of    *)
(* the source could be reported.                                            *)
(***************************************************************************)
EXTENDS Integers, Sequences, SequencesExt

CONSTANTS
  Sources,     (* the sources: sequences of pragmas and lines               *)
  MaxPasses    (* bound: passes of the skimming loop                        *)

Pragmas == {"push", "pop", "enable", "disable"}
Items == Pragmas \union {"line"}

ASSUME SourcesAssumption == Sources \subseteq Seq(Items)
ASSUME PassesAssumption == MaxPasses \in Nat \ {0}

VARIABLES
  source,
  cmdmask,    (* -w has disabled the warning                                *)
  mask,       (* warndisable.mask                                           *)
  stack,      (* warndisable.next: the masks pushed, the latest last        *)
  status,     (* statFIRST, statWRITE, or what comes after                  *)
  pass,       (* skimming passes so far                                     *)
  at,         (* the item to be read next                                   *)
  errors,     (* errors that were reported                                  *)
  warned      (* lines that were reported                                   *)

program == <<source, cmdmask>>
vars == <<program, mask, stack, status, pass, at, errors, warned>>

(* clear_warningstack() of the compilation before has zeroed warndisable.   *)
Init ==
  /\ source \in Sources /\ cmdmask \in BOOLEAN
  /\ mask = cmdmask /\ stack = <<>>
  /\ status = "statFIRST" /\ pass = 1 /\ at = 1
  /\ errors = {} /\ warned = {}

Reading == status \in {"statFIRST", "statWRITE"} /\ at <= Len(source)

(* error(): errors and warnings are only reported in the last pass.         *)
Report(e) == errors' = IF status = "statWRITE" THEN errors \union {e} ELSE errors

Read(item) == Reading /\ source[at] = item /\ at' = at + 1

Push ==
  /\ Read("push")
  /\ stack' = Append(stack, mask)
  /\ UNCHANGED <<program, mask, status, pass, errors, warned>>

(* Mutant: the mask is not put back.                                        *)
PopOnly ==
  /\ Read("pop")
  /\ IF stack # <<>>
     THEN stack' = Front(stack) /\ errors' = errors
     ELSE Report(97) /\ stack' = stack
  /\ UNCHANGED <<program, mask, status, pass, warned>>

Pop ==
  /\ Read("pop")
  /\ IF stack # <<>>
     THEN mask' = Last(stack) /\ stack' = Front(stack) /\ errors' = errors
     ELSE Report(97) /\ UNCHANGED <<mask, stack>>
  /\ UNCHANGED <<program, status, pass, warned>>

Enable ==
  /\ Read("enable")
  /\ mask' = FALSE
  /\ UNCHANGED <<program, stack, status, pass, errors, warned>>

(* Mutant: it toggles, as -w without a sign does.                           *)
DisableToggles ==
  /\ Read("disable")
  /\ mask' = ~mask
  /\ UNCHANGED <<program, stack, status, pass, errors, warned>>

Disable ==
  /\ Read("disable")
  /\ mask' = TRUE
  /\ UNCHANGED <<program, stack, status, pass, errors, warned>>

Line ==
  /\ Read("line")
  /\ warned' = IF status = "statWRITE" /\ ~mask THEN warned \union {at} ELSE warned
  /\ UNCHANGED <<program, mask, stack, status, pass, errors>>

AtEnd == at = Len(source) + 1

(* sc_reparse: the source is skimmed again.                                 *)
SkimAgain ==
  /\ status = "statFIRST" /\ AtEnd /\ pass < MaxPasses
  /\ pass' = pass + 1 /\ at' = 1
  /\ UNCHANGED <<program, mask, stack, status, errors, warned>>

BeginWrite ==
  /\ status = "statFIRST" /\ AtEnd
  /\ status' = "statWRITE" /\ at' = 1
  /\ UNCHANGED <<program, mask, stack, pass, errors, warned>>

EndWrite ==
  /\ status = "statWRITE" /\ AtEnd
  /\ status' = "cleanup"
  /\ UNCHANGED <<program, mask, stack, pass, at, errors, warned>>

(* clear_warningstack(): sc_status is still statWRITE.                      *)
ClearStack ==
  /\ status = "cleanup" /\ status' = "done"
  /\ errors' = IF stack # <<>> THEN errors \union {96} ELSE errors
  /\ mask' = FALSE /\ stack' = <<>>
  /\ UNCHANGED <<program, pass, at, warned>>

Next ==
  \/ Push \/ Pop \/ Enable \/ Disable \/ Line
  \/ SkimAgain \/ BeginWrite \/ EndWrite \/ ClearStack

Spec == Init /\ [][Next]_vars

-----------------------------------------------------------------------------
(* Properties *)

(* What an item says: of the mask, of the masks pushed, and of whether they *)
(* are well used so far: no pop without push, and nothing enabled or        *)
(* disabled outside a push.                                                 *)
After(m, item) ==
  CASE item = "push" -> [m EXCEPT !.stack = Append(m.stack, m.mask)]
    [] item = "pop" /\ m.stack = <<>> -> [m EXCEPT !.scoped = FALSE]
    [] item = "pop" /\ m.stack # <<>> ->
         [m EXCEPT !.mask = Last(m.stack), !.stack = Front(m.stack)]
    [] item \in {"enable", "disable"} ->
         [m EXCEPT !.mask = (item = "disable"), !.scoped = m.scoped /\ m.stack # <<>>]
    [] item = "line" -> m

(* What the items above item k say.                                         *)
Meaning ==
  LET m[k \in 1 .. Len(source) + 1] ==
        IF k = 1 THEN [mask |-> cmdmask, stack |-> <<>>, scoped |-> TRUE]
        ELSE After(m[k - 1], source[k - 1])
  IN  m

(* Every change is inside a push that is popped in the same source.         *)
Scoped == LET m == Meaning[Len(source) + 1] IN m.scoped /\ m.stack = <<>>

(* In a source that changes the warnings only between a push and its pop,   *)
(* every pass sees at every line the mask that the lines above it say, so   *)
(* that the passes before do not show through; in the end it is reported    *)
(* exactly at its enabled lines, and its pushes and pops raise no error.    *)
ScopedPragmasExact ==
  Scoped =>
    /\ Reading => mask = Meaning[at].mask /\ stack = Meaning[at].stack
    /\ status = "done" =>
         /\ errors = {}
         /\ warned = {k \in DOMAIN source : source[k] = "line" /\ ~Meaning[k].mask}

(* A source without pop and push that only disables a warning never gets    *)
(* more reports than its text asks for: what a pass leaves behind can hide  *)
(* a warning but not invent one.                                            *)
OnlyHides ==
  (\A k \in DOMAIN source : source[k] \in {"disable", "line"}) /\ status = "done" =>
    warned \subseteq {k \in DOMAIN source : source[k] = "line" /\ ~Meaning[k].mask}
=============================================================================
