-------------------------- MODULE PawnCompileProofs --------------------------
(***************************************************************************)
(* What holds of PawnCompile for every error limit, include depth, program  *)
(* length and set of outputs.  The types are proved in two halves, the      *)
(* Boolean variables and the others, because one prover handles the former  *)
(* and another the latter.  The facts about error(), which most steps may   *)
(* call, come first: what it may touch, and what a jump or a return of it   *)
(* says of the state.                                                       *)
(***************************************************************************)
EXTENDS PawnCompile, SequenceTheorems, TLAPS

(* The Boolean variables stay Boolean, step by step.                        *)
LEMMA FlagsKept == ASSUME FlagsOK, [Next]_vars PROVE FlagsOK'
<1> USE DEF FlagsOK, options, passes, sources, outputs, buffers, counters, quiet, unraised
<1>1. CASE AllocTables
  BY <1>1 DEF AllocTables
<1>2. CASE ParseOptions
  BY <1>2 DEF ParseOptions
<1>3. CASE OpenSource
  BY <1>3 DEF OpenSource
<1>4. CASE OpenAsm
  BY <1>4 DEF OpenAsm
<1>5. CASE OpenBin
  BY <1>5 DEF OpenBin
<1>6. CASE SetupFails
  BY <1>6 DEF SetupFails, Raise, Report, Abort, Fatal, Silenced, Counted, Errnum, ErrorCount, Printed, Kinds
<1>7. CASE BeginFirstPass
  BY <1>7 DEF BeginFirstPass, BeginPass
<1>8. CASE BeginWritePass
  BY <1>8 DEF BeginWritePass, BeginPass
<1>9. CASE Plunge
  BY <1>9 DEF Plunge, Event
<1>10. CASE OpenExpression
  BY <1>10 DEF OpenExpression, Event
<1>11. CASE CloseExpression
  BY <1>11 DEF CloseExpression, Event
<1>12. CASE EndInput
  BY <1>12 DEF EndInput, Event, CloseUnlessMain
<1>13. CASE PopFile
  BY <1>13 DEF PopFile, CloseUnlessMain
<1>14. CASE LoseFile
  BY <1>14 DEF LoseFile
<1>15. CASE StopReading
  BY <1>15 DEF StopReading, Raise, Report, Abort, Fatal, Silenced, Counted, Errnum, ErrorCount, Printed, Kinds
<1>16. CASE Diagnose
  BY <1>16 DEF Diagnose, Event, Raise, Report, Abort, Fatal, Silenced, Counted, Errnum, ErrorCount, Printed, Kinds
<1>17. CASE Resynchronise
  BY <1>17 DEF Resynchronise, Event
<1>18. CASE RequestReparse
  BY <1>18 DEF RequestReparse, Event
<1>19. CASE PushWarnings
  BY <1>19 DEF PushWarnings, Event
<1>20. CASE PopWarnings
  BY <1>20 DEF PopWarnings, Event, Raise, Report, Abort, Fatal, Silenced, Counted, Errnum, ErrorCount, Printed, Kinds
<1>21. CASE EndFirstPass
  BY <1>21 DEF EndFirstPass
<1>22. CASE EndSkimming
  BY <1>22 DEF EndSkimming, Raise, Report, Abort, Fatal, Silenced, Counted, Errnum, ErrorCount, Printed, Kinds
<1>23. CASE EndWritePass
  BY <1>23 DEF EndWritePass
<1>24. CASE TestSymbols
  BY <1>24 DEF TestSymbols, Raise, Report, Abort, Fatal, Silenced, Counted, Errnum, ErrorCount, Printed, Kinds
<1>25. CASE CloseInput
  BY <1>25 DEF CloseInput
<1>26. CASE Assemble
  BY <1>26 DEF Assemble, Raise, Report, Abort, Fatal, Silenced, Counted, Errnum, ErrorCount, Printed, Kinds
<1>27. CASE AssembleFails
  BY <1>27 DEF AssembleFails, Raise, Report, Abort, Fatal, Silenced, Counted, Errnum, ErrorCount, Printed, Kinds
<1>28. CASE CloseOutputs
  BY <1>28 DEF CloseOutputs, Closed
<1>29. CASE CheckLimit
  BY <1>29 DEF CheckLimit, Raise, Report, Abort, Fatal, Silenced, Counted, Errnum, ErrorCount, Printed, Kinds
<1>30. CASE Release
  BY <1>30 DEF Release
<1>31. CASE ClearWarnings
  BY <1>31 DEF ClearWarnings, Raise, Report, Abort, Fatal, Silenced, Counted, Errnum, ErrorCount, Printed, Kinds
<1>32. CASE Exit
  BY <1>32 DEF Exit
<1>33. CASE UNCHANGED vars
  BY <1>33 DEF vars
<1> QED
  BY <1>1, <1>2, <1>3, <1>4, <1>5, <1>6, <1>7, <1>8, <1>9, <1>12, <1>13, <1>15, <1>16, <1>17, <1>18, <1>19, <1>20, <1>21, <1>22, <1>23, <1>24, <1>25, <1>26, <1>27, <1>28, <1>29, <1>30, <1>31, <1>32, <1>33, <1>10, <1>11, <1>14
  DEF Next, Setup, Parse, Cleanup

(* What error() counts are natural numbers.                                 *)
LEMMA CountsAreNatural ==
  ASSUME ValuesOK, NEW kind, NEW moved
  PROVE  Errnum(kind) \in Nat /\ ErrorCount(kind, moved) \in Nat
<1> USE DEF ValuesOK, Errnum, ErrorCount
<1>1. CASE Counted(kind)
  <2>1. CASE moved
    BY <1>1, <2>1
  <2>2. CASE ~moved
    BY <1>1, <2>2
  <2> QED
    BY <2>1, <2>2
<1>2. CASE ~Counted(kind)
  <2>1. CASE moved
    BY <1>2, <2>1
  <2>2. CASE ~moved
    BY <1>2, <2>2
  <2> QED
    BY <2>1, <2>2
<1> QED
  BY <1>1, <1>2

(* The variables a diagnostic may touch keep their types, whether error()   *)
(* returns or jumps.                                                        *)
DiagnosedOK ==
  /\ outf \in {"null", "open"} /\ binf \in {"null", "file"}
  /\ image \in {"absent", "stale", "partial", "complete", "short"}
  /\ errnum \in Nat /\ warnnum \in Nat /\ errorcount \in Nat
  /\ jmpcode \in {0, 2, 3}
  /\ misuse \subseteq {"source", "inpfname", "litq"}

LEMMA PrintedKeepsMisuse ==
  ASSUME ValuesOK, Printed
  PROVE  misuse' \subseteq {"source", "inpfname", "litq"}
BY DEF ValuesOK, Printed

LEMMA ReportTypes ==
  ASSUME ValuesOK, NEW kind, NEW moved, Report(kind, moved)
  PROVE  DiagnosedOK'
<1>1. errnum' \in Nat /\ errorcount' \in Nat
  BY CountsAreNatural DEF Report
<1>2. warnnum' \in Nat
  <2>1. CASE Counted(kind)
    BY <2>1 DEF ValuesOK, Report
  <2>2. CASE ~Counted(kind)
    BY <2>2 DEF ValuesOK, Report
  <2> QED
    BY <2>1, <2>2
<1>3. misuse' \subseteq {"source", "inpfname", "litq"}
  BY PrintedKeepsMisuse DEF Report
<1> QED
  BY <1>1, <1>2, <1>3 DEF ValuesOK, DiagnosedOK, Report, outputs

LEMMA AbortTypes ==
  ASSUME ValuesOK, NEW kind, NEW moved, Abort(kind, moved)
  PROVE  DiagnosedOK' /\ pc' = "cleanup"
<1>1. errnum' \in Nat /\ errorcount' \in Nat
  <2>1. Errnum(kind) \in Nat /\ ErrorCount(kind, moved) \in Nat
    BY CountsAreNatural
  <2>2. errnum' \in {Errnum(kind), Errnum(kind) + 1}
    BY Zenon DEF Abort
  <2>3. errorcount' \in {errorcount, ErrorCount(kind, moved)}
    BY Zenon DEF Abort
  <2> QED
    BY <2>1, <2>2, <2>3 DEF ValuesOK
<1>2. misuse' \subseteq {"source", "inpfname", "litq"}
  BY PrintedKeepsMisuse DEF Abort
<1>3. /\ outf' = "null" /\ binf' \in {binf, "null"} /\ jmpcode' = 2
      /\ pc' = "cleanup" /\ warnnum' = warnnum /\ image' = image
  BY Zenon DEF Abort
<1> QED
  BY <1>1, <1>2, <1>3 DEF ValuesOK, DiagnosedOK

LEMMA RaiseTypes ==
  ASSUME ValuesOK, NEW kind, NEW moved, NEW next \in Steps, Raise(kind, moved, next)
  PROVE  DiagnosedOK' /\ pc' \in Steps
<1>1. CASE Report(kind, moved) /\ pc' = next
  BY <1>1, ReportTypes
<1>2. CASE Abort(kind, moved)
  BY <1>2, AbortTypes DEF Steps, CleanupSteps
<1> QED
  BY <1>1, <1>2 DEF Raise

(* A step that raises nothing leaves the variables of error() alone.        *)
LEMMA QuietTypes ==
  ASSUME ValuesOK, UNCHANGED <<outputs, quiet>>
  PROVE  DiagnosedOK'
BY DEF ValuesOK, DiagnosedOK, outputs, quiet, counters

(* What popstk() leaves is a part of what was there.                         *)
LEMMA PoppedType == ASSUME TypeOK, NEW n \in Nat PROVE Popped(n) \in Seq(Items)
BY DEF TypeOK, ValuesOK, Popped

LEMMA ValuesKept == ASSUME TypeOK, [Next]_vars PROVE ValuesOK'
<1> USE MaxDepthAssumption, MaxLinesAssumption, MaxReparseAssumption
<1> USE DEF TypeOK, ValuesOK, Handles, Items, Number, Flag, Main, NoFile, Steps, CleanupSteps, options, passes, sources, outputs, buffers, counters, quiet, unraised
<1>1. CASE AllocTables
  BY <1>1 DEF AllocTables
<1>2. CASE ParseOptions
  BY <1>2 DEF ParseOptions
<1>3. CASE OpenSource
  BY <1>3 DEF OpenSource
<1>4. CASE OpenAsm
  BY <1>4 DEF OpenAsm
<1>5. CASE OpenBin
  BY <1>5 DEF OpenBin
<1>6. CASE SetupFails
  <2>1. Abort("fatal", FALSE)
    BY <1>6, Zenon DEF SetupFails, Fatal
  <2>2. DiagnosedOK' /\ pc' = "cleanup"
    BY <2>1, AbortTypes
  <2>3. inpfname' \in {"null", "live", "freed"} /\ litq' \in {"null", "live", "freed"}
    BY <1>6 DEF SetupFails, Fatal
  <2> QED
    BY <1>6, <2>2, <2>3 DEF SetupFails, Fatal, DiagnosedOK
<1>7. CASE BeginFirstPass
  BY <1>7 DEF BeginFirstPass, BeginPass
<1>8. CASE BeginWritePass
  BY <1>8 DEF BeginWritePass, BeginPass
<1>9. CASE Plunge
  <2>1. inpf \in 0 .. MaxDepth - 1
    BY <1>9 DEF Plunge
  <2>2. Frame(inpf) \in Seq(Items)
    BY <2>1 DEF Frame
  <2>3. stack' \in Seq(Items)
    BY <1>9, <2>2 DEF Plunge
  <2> QED
    BY <1>9, <2>1, <2>3 DEF Plunge, Event
<1>10. CASE OpenExpression
  <2>1. PICK n \in {1, 2} : /\ stack' = stack \o [i \in 1 .. n |-> Flag]
                           /\ calls' = Append(calls, n)
    BY <1>10 DEF OpenExpression
  <2>2. [i \in 1 .. n |-> Flag] \in Seq(Items)
    BY <2>1
  <2>3. stack' \in Seq(Items) /\ calls' \in Seq({1, 2})
    BY <2>1, <2>2
  <2> QED
    BY <1>10, <2>3 DEF OpenExpression, Event
<1>11. CASE CloseExpression
  <2>1. stack' \in Seq(Items)
    <3>1. calls[Len(calls)] \in Nat
      BY <1>11 DEF CloseExpression
    <3> QED
      BY <1>11, <3>1, PoppedType DEF CloseExpression
  <2>2. calls' \in Seq({1, 2})
    BY <1>11 DEF CloseExpression
  <2> QED
    BY <1>11, <2>1, <2>2 DEF CloseExpression, Event
<1>12. CASE EndInput
  BY <1>12 DEF EndInput, Event, CloseUnlessMain
<1>13. CASE PopFile
  <2>1. open' \subseteq open /\ misuse' \subseteq misuse \cup {"source"}
    BY <1>13, Zenon DEF PopFile, CloseUnlessMain
  <2>2. stack' \in Seq(Items)
    BY <1>13, PoppedType DEF PopFile
  <2> QED
    BY <1>13, <2>1, <2>2 DEF PopFile
<1>14. CASE LoseFile
  BY <1>14 DEF LoseFile
<1>15. CASE StopReading
  <2>1. DiagnosedOK' /\ pc' \in Steps
    BY <1>15, QuietTypes, RaiseTypes DEF StopReading
  <2>2. open' \subseteq open /\ calls' \in Seq({1, 2})
    BY <1>15 DEF StopReading
  <2> QED
    BY <1>15, <2>1, <2>2 DEF StopReading, DiagnosedOK
<1>16. CASE Diagnose
  <2>1. DiagnosedOK' /\ pc' \in Steps
    BY <1>16, RaiseTypes DEF Diagnose
  <2> QED
    BY <1>16, <2>1 DEF Diagnose, Event, DiagnosedOK
<1>17. CASE Resynchronise
  BY <1>17 DEF Resynchronise, Event
<1>18. CASE RequestReparse
  BY <1>18 DEF RequestReparse, Event
<1>19. CASE PushWarnings
  BY <1>19 DEF PushWarnings, Event
<1>20. CASE PopWarnings
  <2>1. DiagnosedOK' /\ pc' \in Steps
    BY <1>20, QuietTypes, RaiseTypes DEF PopWarnings, Event
  <2>2. warnstk' \in Nat
    BY <1>20 DEF PopWarnings
  <2> QED
    BY <1>20, <2>1, <2>2 DEF PopWarnings, Event, DiagnosedOK
<1>21. CASE EndFirstPass
  BY <1>21 DEF EndFirstPass
<1>22. CASE EndSkimming
  <2>1. DiagnosedOK' /\ pc' \in Steps
    BY <1>22, QuietTypes, RaiseTypes DEF EndSkimming
  <2> QED
    BY <1>22, <2>1 DEF EndSkimming, DiagnosedOK
<1>23. CASE EndWritePass
  BY <1>23 DEF EndWritePass
<1>24. CASE TestSymbols
  <2>1. DiagnosedOK' /\ pc' \in Steps
    BY <1>24, QuietTypes, RaiseTypes DEF TestSymbols
  <2>2. fuel' = fuel \/ (fuel > 0 /\ fuel' = fuel - 1)
    BY <1>24, Zenon DEF TestSymbols
  <2>3. fuel' \in 0 .. MaxLines
    BY <2>2
  <2>4. UNCHANGED unraised
    BY <1>24 DEF TestSymbols
  <2> QED
    BY <2>1, <2>3, <2>4 DEF DiagnosedOK
<1>25. CASE CloseInput
  BY <1>25 DEF CloseInput
<1>26. CASE Assemble
  <2>1. /\ errnum' \in {errnum, Errnum("warning")}
        /\ errorcount' \in {errorcount, ErrorCount("warning", TRUE)}
        /\ warnnum' \in {warnnum, warnnum + 1}
    BY <1>26, Zenon DEF Assemble
  <2>2. Errnum("warning") \in Nat /\ ErrorCount("warning", TRUE) \in Nat
    BY CountsAreNatural
  <2>3. errnum' \in Nat /\ errorcount' \in Nat
    BY <2>1, <2>2, Zenon
  <2>4. errnum' \in Nat /\ errorcount' \in Nat /\ warnnum' \in Nat
    BY <2>1, <2>3
  <2>5. misuse' \subseteq {"source", "inpfname", "litq"}
    BY <1>26, PrintedKeepsMisuse DEF Assemble
  <2> QED
    BY <1>26, <2>5, <2>4 DEF Assemble
<1>27. CASE AssembleFails
  <2>1. DiagnosedOK' /\ pc' = "cleanup"
    BY <1>27, AbortTypes DEF AssembleFails
  <2> QED
    BY <1>27, <2>1 DEF AssembleFails, DiagnosedOK
<1>28. CASE CloseOutputs
  BY <1>28 DEF CloseOutputs, Closed
<1>29. CASE CheckLimit
  <2>1. DiagnosedOK' /\ pc' \in Steps
    BY <1>29, QuietTypes, AbortTypes DEF CheckLimit, Fatal
  <2> QED
    BY <1>29, <2>1 DEF CheckLimit, Fatal, DiagnosedOK
<1>30. CASE Release
  BY <1>30 DEF Release
<1>31. CASE ClearWarnings
  <2>1. DiagnosedOK' /\ pc' \in Steps
    BY <1>31, QuietTypes, ReportTypes, AbortTypes DEF ClearWarnings
  <2>2. warnstk' \in Nat
    BY <1>31 DEF ClearWarnings
  <2> QED
    BY <1>31, <2>1, <2>2 DEF ClearWarnings, DiagnosedOK
<1>32. CASE Exit
  BY <1>32 DEF Exit
<1>33. CASE UNCHANGED vars
  BY <1>33 DEF vars
<1> QED
  BY <1>1, <1>2, <1>3, <1>4, <1>5, <1>6, <1>7, <1>8, <1>9, <1>12, <1>13, <1>15, <1>16, <1>17, <1>18, <1>19, <1>20, <1>21, <1>22, <1>23, <1>24, <1>25, <1>26, <1>27, <1>28, <1>29, <1>30, <1>31, <1>32, <1>33, <1>10, <1>11, <1>14
  DEF Next, Setup, Parse, Cleanup

-----------------------------------------------------------------------------
(* error() jumped.                                                          *)
Aborted ==
  /\ errnum' > 0 /\ jmpcode' = 2 /\ pc' = "cleanup"
  /\ binf' \in {binf, "null"}
  /\ UNCHANGED <<warnnum, image>>

(* error() printed something and returned.                                  *)
Reported ==
  /\ status = "write"
  /\ errnum' \in {errnum, errnum + 1}
  /\ UNCHANGED <<outputs, jmpcode>>

LEMMA AbortFacts ==
  ASSUME TypeOK, NEW kind \in Kinds, NEW moved, Abort(kind, moved)
  PROVE  Aborted
<1>1. /\ jmpcode' = 2 /\ pc' = "cleanup" /\ binf' \in {binf, "null"}
      /\ UNCHANGED <<warnnum, image>>
  BY Zenon DEF Abort
<1>2. Errnum(kind) \in Nat
  BY CountsAreNatural DEF TypeOK
<1>3. CASE kind = "fatal"
  <2>1. errnum' = Errnum(kind)
    BY <1>3, Zenon DEF Abort
  <2>2. Errnum(kind) = errnum + 1
    BY <1>3 DEF Errnum, Counted
  <2> QED
    BY <1>1, <2>1, <2>2 DEF TypeOK, ValuesOK, Aborted
<1>4. CASE kind # "fatal" /\ Errnum(kind) > MaxErrors
  <2>1. ~(Errnum(kind) <= MaxErrors)
    BY <1>2, <1>4, MaxErrorsAssumption
  <2>2. errnum' = Errnum(kind)
    BY <1>4, <2>1, Zenon DEF Abort
  <2> QED
    BY <1>1, <1>2, <1>4, <2>2, MaxErrorsAssumption DEF Aborted
<1>5. CASE kind # "fatal" /\ Errnum(kind) <= MaxErrors
  <2>1. errnum' = Errnum(kind) + 1
    BY <1>5, Zenon DEF Abort
  <2> QED
    BY <1>1, <1>2, <2>1 DEF Aborted
<1> QED
  BY <1>2, <1>3, <1>4, <1>5, MaxErrorsAssumption

LEMMA ReportFacts ==
  ASSUME TypeOK, NEW kind \in Kinds, NEW moved, Report(kind, moved)
  PROVE  Reported
<1>1. status = "write" /\ UNCHANGED <<outputs, jmpcode>>
  BY Zenon DEF Report, Silenced
<1>2. errnum' \in {errnum, errnum + 1}
  BY Zenon DEF Report, Errnum
<1> QED
  BY <1>1, <1>2 DEF Reported

LEMMA RaiseFacts ==
  ASSUME TypeOK, NEW kind \in Kinds, NEW moved, NEW next, Raise(kind, moved, next)
  PROVE  Aborted \/ (Reported /\ pc' = next)
BY AbortFacts, ReportFacts DEF Raise

(* Each step keeps the reason why success means an assembled image.         *)
LEMMA SuccessKept ==
  ASSUME TypeOK, SuccessInv, OutputInv, [Next]_vars
  PROVE  SuccessInv' /\ OutputInv'
<1> USE DEF TypeOK, ValuesOK, SuccessInv, OutputInv, Assembled, Done, CleanupSteps, options, passes, sources,
            outputs, buffers, counters, quiet, unraised
<1>1. CASE AllocTables
  BY <1>1 DEF AllocTables
<1>2. CASE ParseOptions
  BY <1>2 DEF ParseOptions
<1>3. CASE OpenSource
  BY <1>3 DEF OpenSource
<1>4. CASE OpenAsm
  BY <1>4 DEF OpenAsm
<1>5. CASE OpenBin
  BY <1>5 DEF OpenBin
<1>6. CASE SetupFails
  <2>1. Aborted
    BY <1>6, AbortFacts DEF SetupFails, Fatal, Kinds
  <2>2. UNCHANGED <<options, passes, retcode>>
    BY <1>6, Zenon DEF SetupFails, Fatal, unraised
  <2>3. pc # "done"
    BY <1>6 DEF SetupFails
  <2> QED
    BY <2>1, <2>2, <2>3 DEF Aborted
<1>7. CASE BeginFirstPass
  BY <1>7 DEF BeginFirstPass, BeginPass
<1>8. CASE BeginWritePass
  BY <1>8 DEF BeginWritePass, BeginPass
<1>9. CASE Plunge
  BY <1>9 DEF Plunge, Event
<1>10. CASE OpenExpression
  BY <1>10 DEF OpenExpression, Event
<1>11. CASE CloseExpression
  BY <1>11 DEF CloseExpression, Event
<1>12. CASE EndInput
  BY <1>12 DEF EndInput, Event, CloseUnlessMain
<1>13. CASE PopFile
  BY <1>13 DEF PopFile, CloseUnlessMain
<1>14. CASE LoseFile
  BY <1>14 DEF LoseFile
<1>15. CASE StopReading
  <2>1. \/ Aborted
        \/ Reported /\ pc' \in {"endpass"}
        \/ UNCHANGED <<outputs, quiet>> /\ pc' \in {"endpass"}
    BY <1>15, RaiseFacts, AbortFacts, ReportFacts DEF StopReading, Kinds
  <2>2. UNCHANGED <<options, passes, retcode>>
    BY <1>15 DEF StopReading
  <2>3. pc = "parse"
    BY <1>15 DEF StopReading
  <2>4. CASE Aborted
    BY <2>2, <2>4, <2>3 DEF Aborted
  <2>5. CASE Reported /\ pc' \in {"endpass"}
    BY <2>2, <2>5, <2>3 DEF Reported
  <2>6. CASE UNCHANGED <<outputs, quiet>> /\ pc' \in {"endpass"}
    BY <2>2, <2>6, <2>3
  <2> QED
    BY <2>1, <2>4, <2>5, <2>6
<1>16. CASE Diagnose
  <2>1. \/ Aborted
        \/ Reported /\ pc' \in {"parse"}
    BY <1>16, RaiseFacts, AbortFacts, ReportFacts DEF Diagnose, Event, Kinds
  <2>2. UNCHANGED <<options, passes, retcode>>
    BY <1>16 DEF Diagnose, Event
  <2>3. pc = "parse"
    BY <1>16 DEF Diagnose, Event
  <2>4. CASE Aborted
    BY <2>2, <2>4, <2>3 DEF Aborted
  <2>5. CASE Reported /\ pc' \in {"parse"}
    BY <2>2, <2>5, <2>3 DEF Reported
  <2> QED
    BY <2>1, <2>4, <2>5
<1>17. CASE Resynchronise
  BY <1>17 DEF Resynchronise, Event
<1>18. CASE RequestReparse
  BY <1>18 DEF RequestReparse, Event
<1>19. CASE PushWarnings
  BY <1>19 DEF PushWarnings, Event
<1>20. CASE PopWarnings
  <2>1. \/ Aborted
        \/ Reported /\ pc' \in {"parse"}
        \/ UNCHANGED <<outputs, quiet, pc>>
    BY <1>20, RaiseFacts, AbortFacts, ReportFacts DEF PopWarnings, Event, Kinds
  <2>2. UNCHANGED <<options, passes, retcode>>
    BY <1>20 DEF PopWarnings, Event
  <2>3. pc = "parse"
    BY <1>20 DEF PopWarnings, Event
  <2>4. CASE Aborted
    BY <2>2, <2>4, <2>3 DEF Aborted
  <2>5. CASE Reported /\ pc' \in {"parse"}
    BY <2>2, <2>5, <2>3 DEF Reported
  <2>6. CASE UNCHANGED <<outputs, quiet, pc>>
    BY <2>2, <2>6
  <2> QED
    BY <2>1, <2>4, <2>5, <2>6
<1>21. CASE EndFirstPass
  BY <1>21 DEF EndFirstPass
<1>22. CASE EndSkimming
  <2>1. \/ Aborted
        \/ Reported /\ pc' \in {"cleanup", "writepass"}
        \/ UNCHANGED <<outputs, quiet>> /\ pc' \in {"cleanup", "writepass"}
    BY <1>22, RaiseFacts, AbortFacts, ReportFacts DEF EndSkimming, Kinds
  <2>2. UNCHANGED <<options, passes, retcode>>
    BY <1>22 DEF EndSkimming
  <2>3. pc = "conflict"
    BY <1>22 DEF EndSkimming
  <2>4. CASE Aborted
    BY <2>2, <2>4, <2>3 DEF Aborted
  <2>5. CASE Reported /\ pc' \in {"cleanup", "writepass"}
    BY <2>2, <2>5, <2>3 DEF Reported
  <2>6. CASE UNCHANGED <<outputs, quiet>> /\ pc' \in {"cleanup", "writepass"}
    BY <2>2, <2>6, <2>3
  <2> QED
    BY <2>1, <2>4, <2>5, <2>6
<1>23. CASE EndWritePass
  BY <1>23 DEF EndWritePass
<1>24. CASE TestSymbols
  <2>1. \/ Aborted
        \/ Reported /\ pc' \in {"cleanup", "trailer"}
        \/ UNCHANGED <<outputs, quiet>> /\ pc' \in {"cleanup", "trailer"}
    BY <1>24, RaiseFacts, AbortFacts, ReportFacts DEF TestSymbols, Kinds
  <2>2. UNCHANGED <<options, passes, retcode>>
    BY <1>24 DEF TestSymbols
  <2>3. pc = "trailer"
    BY <1>24 DEF TestSymbols
  <2>4. CASE Aborted
    BY <2>2, <2>4, <2>3 DEF Aborted
  <2>5. CASE Reported /\ pc' \in {"cleanup", "trailer"}
    BY <2>2, <2>5, <2>3 DEF Reported
  <2>6. CASE UNCHANGED <<outputs, quiet>> /\ pc' \in {"cleanup", "trailer"}
    BY <2>2, <2>6, <2>3
  <2> QED
    BY <2>1, <2>4, <2>5, <2>6
<1>25. CASE CloseInput
  BY <1>25 DEF CloseInput
<1>26. CASE Assemble
  <2>1. warnnum' = warnnum \/ status = "write"
    BY <1>26, Zenon DEF Assemble, Silenced, quiet, counters
  <2>2. /\ image' = "complete" /\ pc' = "closeout" /\ pc = "assemble"
        /\ UNCHANGED <<jmpcode, options, passes, retcode>>
    BY <1>26, Zenon DEF Assemble, quiet, unraised
  <2> QED
    BY <2>1, <2>2
<1>27. CASE AssembleFails
  <2>1. Aborted
    BY <1>27, AbortFacts DEF AssembleFails, Kinds
  <2> QED
    BY <1>27, <2>1 DEF AssembleFails, Aborted
<1>28. CASE CloseOutputs
  BY <1>28 DEF CloseOutputs, Closed
<1>29. CASE CheckLimit
  <2>1. CASE errnum = 0 /\ tight
    <3>1. Aborted
      BY <1>29, <2>1, AbortFacts DEF CheckLimit, Fatal, Kinds
    <3> QED
      BY <1>29, <2>1, <3>1 DEF CheckLimit, Fatal, Aborted
  <2>2. CASE ~(errnum = 0 /\ tight)
    BY <1>29, <2>2 DEF CheckLimit
  <2> QED
    BY <2>1, <2>2
<1>30. CASE Release
  BY <1>30 DEF Release
<1>31. CASE ClearWarnings
  <2>1. \/ Aborted
        \/ Reported /\ pc' \in {"exit"}
        \/ UNCHANGED <<outputs, quiet>> /\ pc' \in {"exit"}
    BY <1>31, RaiseFacts, AbortFacts, ReportFacts DEF ClearWarnings, Kinds
  <2>2. UNCHANGED <<options, passes, retcode>>
    BY <1>31 DEF ClearWarnings
  <2>3. pc = "warnstack"
    BY <1>31 DEF ClearWarnings
  <2>4. CASE Aborted
    BY <2>2, <2>4, <2>3 DEF Aborted
  <2>5. CASE Reported /\ pc' \in {"exit"}
    BY <2>2, <2>5, <2>3 DEF Reported
  <2>6. CASE UNCHANGED <<outputs, quiet>> /\ pc' \in {"exit"}
    BY <2>2, <2>6, <2>3
  <2> QED
    BY <2>1, <2>4, <2>5, <2>6
<1>32. CASE Exit
  BY <1>32 DEF Exit
<1>33. CASE UNCHANGED vars
  BY <1>33 DEF vars
<1> QED
  BY <1>1, <1>2, <1>3, <1>4, <1>5, <1>6, <1>7, <1>8, <1>9, <1>12, <1>13, <1>15, <1>16, <1>17, <1>18, <1>19, <1>20, <1>21, <1>22, <1>23, <1>24, <1>25, <1>26, <1>27, <1>28, <1>29, <1>30, <1>31, <1>32, <1>33, <1>10, <1>11, <1>14
  DEF Next, Setup, Parse, Cleanup

-----------------------------------------------------------------------------
(* Every variable keeps its type, whatever is on the parser stack and       *)
(* whoever takes it from there: popstk() does not go below the empty stack, *)
(* nor does the stack of warnings.                                          *)
THEOREM TypeCorrect == Spec => []TypeOK
<1>1. Init => TypeOK
  <2> SUFFICES ASSUME Init PROVE TypeOK
    OBVIOUS
  <2>1. FlagsOK
    BY Zenon DEF Init, FlagsOK
  <2>2. ValuesOK
    BY MaxDepthAssumption, MaxLinesAssumption, MaxReparseAssumption
    DEF Init, ValuesOK, Handles, Main, NoFile, Steps, CleanupSteps
  <2> QED
    BY <2>1, <2>2 DEF TypeOK
<1>2. TypeOK /\ [Next]_vars => TypeOK'
  BY FlagsKept, ValuesKept DEF TypeOK
<1> QED
  BY <1>1, <1>2, PTL DEF Spec

LEMMA InvCorrect == Spec => [](TypeOK /\ SuccessInv /\ OutputInv)
<1>1. Init => SuccessInv /\ OutputInv
  BY DEF Init, SuccessInv, OutputInv, Done
<1>2. TypeOK /\ SuccessInv /\ OutputInv /\ [Next]_vars => SuccessInv' /\ OutputInv'
  BY SuccessKept
<1> QED
  BY <1>1, <1>2, TypeCorrect, PTL DEF Spec

(* When pc_compile() returns 0 or 1 and an image was asked for, the .amx    *)
(* file was assembled to the end.                                           *)
THEOREM SuccessCorrect == Spec => []SuccessMeansImage
<1>1. TypeOK /\ SuccessInv => SuccessMeansImage
  BY DEF TypeOK, ValuesOK, SuccessInv, SuccessMeansImage, Assembled, Done
<1> QED
  BY <1>1, InvCorrect, PTL

-----------------------------------------------------------------------------
(* What CompileContract does not see: error() leaves the .amx file alone,   *)
(* and does not end the compilation.                                        *)
LEMMA RaiseUnseen ==
  ASSUME NEW kind, NEW moved, NEW next, next # "done",
         \/ Raise(kind, moved, next)
         \/ Abort(kind, moved)
         \/ UNCHANGED <<outputs, quiet>> /\ pc' = next
  PROVE  pc' # "done" /\ image' = image
BY DEF Raise, Report, Abort, outputs

(* So do all steps but four.                                                *)
LEMMA Unseen ==
  ASSUME Next, ~OpenBin, ~Assemble, ~CloseOutputs, ~Exit
  PROVE  ~Done /\ ~Done' /\ UNCHANGED <<mode, image, retcode>>
<1> USE DEF Done, options, outputs, unraised
<1>1. CASE AllocTables \/ ParseOptions \/ OpenSource \/ OpenAsm
  BY <1>1 DEF AllocTables, ParseOptions, OpenSource, OpenAsm
<1>2. CASE SetupFails
  BY <1>2 DEF SetupFails, Fatal, Abort
<1>3. CASE BeginFirstPass \/ BeginWritePass
  BY <1>3 DEF BeginFirstPass, BeginWritePass, BeginPass
<1>4. CASE \/ Plunge \/ OpenExpression \/ CloseExpression \/ EndInput \/ PopFile
            \/ LoseFile
  BY <1>4 DEF Plunge, OpenExpression, CloseExpression, EndInput, PopFile, LoseFile, Event
<1>5. CASE StopReading
  BY <1>5, RaiseUnseen DEF StopReading
<1>6. CASE Diagnose
  BY <1>6, RaiseUnseen DEF Diagnose, Event
<1>7. CASE Resynchronise \/ RequestReparse \/ PushWarnings
  BY <1>7 DEF Resynchronise, RequestReparse, PushWarnings, Event
<1>8. CASE PopWarnings
  <2>1. pc' # "done" /\ image' = image
    BY <1>8, RaiseUnseen DEF PopWarnings, Event
  <2> QED
    BY <1>8, <2>1 DEF PopWarnings, Event
<1>9. CASE EndFirstPass \/ EndWritePass
  BY <1>9 DEF EndFirstPass, EndWritePass
<1>10. CASE EndSkimming
  <2>1. pc' # "done" /\ image' = image
    BY <1>10, RaiseUnseen DEF EndSkimming
  <2> QED
    BY <1>10, <2>1 DEF EndSkimming
<1>11. CASE TestSymbols
  <2>1. pc' # "done" /\ image' = image
    BY <1>11, RaiseUnseen DEF TestSymbols
  <2> QED
    BY <1>11, <2>1 DEF TestSymbols
<1>12. CASE CloseInput \/ Release
  BY <1>12 DEF CloseInput, Release
<1>13. CASE AssembleFails
  <2>1. pc' # "done" /\ image' = image
    BY <1>13, RaiseUnseen DEF AssembleFails
  <2> QED
    BY <1>13, <2>1 DEF AssembleFails
<1>14. CASE CheckLimit
  BY <1>14 DEF CheckLimit, Fatal, Abort
<1>15. CASE ClearWarnings
  <2>1. pc' # "done" /\ image' = image
    BY <1>15, RaiseUnseen DEF ClearWarnings, Report, Abort
  <2> QED
    BY <1>15, <2>1 DEF ClearWarnings
<1> QED
  BY <1>1, <1>2, <1>3, <1>4, <1>5, <1>6, <1>7, <1>8, <1>9, <1>10, <1>11, <1>12,
     <1>13, <1>14, <1>15
  DEF Next, Setup, Parse, Cleanup

LEMMA StepOfContract ==
  ASSUME TypeOK, SuccessInv, OutputInv, TypeOK', SuccessMeansImage', [Next]_vars
  PROVE  [Contract!ContractNext]_(Contract!contract)
<1> USE DEF Contract!contract, Contract!ContractNext, Done, options, outputs, unraised
<1>1. CASE OpenBin
  BY <1>1 DEF OpenBin, OutputInv, Contract!Truncate
<1>2. CASE Assemble
  <2>1. /\ pc = "assemble" /\ pc' = "closeout" /\ image' = "complete"
        /\ UNCHANGED <<mode, retcode>>
    BY <1>2, Zenon DEF Assemble
  <2>2. image = "partial"
    BY <2>1 DEF OutputInv, SuccessInv
  <2> QED
    BY <2>1, <2>2 DEF Contract!Complete
<1>3. CASE CloseOutputs
  BY <1>3 DEF CloseOutputs, Closed, OutputInv, Contract!Shorten, Contract!Discard
<1>4. CASE Exit
  <2>1. /\ pc = "exit" /\ pc' = "done" /\ UNCHANGED <<mode, image>>
    BY <1>4 DEF Exit
  <2>2. retcode' \in 0 .. 3
    BY <1>4 DEF Exit, TypeOK, ValuesOK
  <2>3. mode' = "image" /\ retcode' <= 1 => image' \in {"complete", "short"}
    BY <2>1, <2>2 DEF SuccessMeansImage, Assembled
  <2> QED
    BY <2>1, <2>2, <2>3
    DEF Contract!Return, Contract!Returns, Contract!Promise, Contract!Succeeded, Contract!Assembled
<1>5. CASE Next /\ ~OpenBin /\ ~Assemble /\ ~CloseOutputs /\ ~Exit
  BY <1>5, Unseen
<1>6. CASE UNCHANGED vars
  BY <1>6 DEF vars
<1> QED
  BY <1>1, <1>2, <1>3, <1>4, <1>5, <1>6

(* Every compilation is one that CompileContract allows: a return value and *)
(* an .amx file go together as the adapter expects, at every moment, not    *)
(* only at the end.                                                         *)
THEOREM ContractKept == Spec => KeepsContract
<1>1. Init => Contract!ContractInit
  BY ModesAssumption DEF Init, Done, Contract!ContractInit, OutputModes, Contract!OutputModes
<1>2. /\ TypeOK /\ SuccessInv /\ OutputInv /\ TypeOK' /\ SuccessMeansImage'
      /\ [Next]_vars
      => [Contract!ContractNext]_(Contract!contract)
  BY StepOfContract
<1> QED
  BY <1>1, <1>2, InvCorrect, SuccessCorrect, PTL
  DEF Spec, KeepsContract, Contract!ContractSpec

-----------------------------------------------------------------------------
(***************************************************************************)
(* The invariants of PawnCompile that explain its properties: which pass a  *)
(* step belongs to (PhaseInv), which source files are open (SourceInv),     *)
(* what the cleanup has released (ReleaseInv) and how many errors there are *)
(* (BoundInv), and the properties that follow from them.  Most steps may    *)
(* call error(), so what such a call amounts to is established once, for    *)
(* all of them, as Outcome.                                                 *)
(***************************************************************************)

(* What a call of error() amounts to *)

(* The steps in which error() may be called.                                 *)
DiagnosticStep ==
  \/ SetupFails \/ StopReading \/ Diagnose \/ PopWarnings \/ EndSkimming
  \/ TestSymbols \/ Assemble \/ AssembleFails \/ CheckLimit \/ ClearWarnings

(* Where such a step leads when error() prints nothing or returns.           *)
GoesOn ==
  \/ pc = "parse" /\ pc' = "parse"
  \/ pc = "parse" /\ pc' = "endpass" /\ stack = <<>>
  \/ pc = "conflict" /\ pc' \in {"writepass", "cleanup"}
  \/ pc = "trailer" /\ pc' \in {"trailer", "cleanup"}
  \/ pc = "assemble" /\ pc' = "closeout"
  \/ pc = "limit" /\ pc' = "release"
  \/ pc = "warnstack" /\ pc' = "exit"

(* What a printed diagnostic leaves in the history: it came late, or         *)
(* nothing that was released was used for it.                                *)
Recorded ==
  \/ pc \in CleanupSteps /\ late' = TRUE
  \/ /\ pc \notin CleanupSteps
     /\ late' <=> late
     /\ inpfname = "freed" \/ misuse' = misuse

(* The name of the source is the only released object a diagnostic uses.     *)
LEMMA PrintedRecorded == ASSUME Printed PROVE Recorded
<1>1. CASE pc \in CleanupSteps
  BY <1>1, Zenon DEF Printed, Recorded
<1>2. CASE pc \notin CleanupSteps
  BY <1>2, Zenon DEF Printed, Recorded
<1> QED
  BY <1>1, <1>2

(* What a step with a diagnostic amounts to for the invariants below: it     *)
(* goes on, or jumps to the cleanup; parser stack and sc_status are as       *)
(* before, and so are the files, unless an include file is the last to end;  *)
(* and only in the write pass, or with a jump, does a counter change.        *)
Outcome ==
  /\ pc # "done"
  /\ status' = status /\ inpf' = inpf /\ stack' = stack /\ crossed' = crossed
  /\ \/ open' = open
     \/ pc = "parse" /\ stack = <<>> /\ inpf # Main /\ open' = open \ {inpf}
  /\ \/ inpfname' = inpfname /\ litq' = litq
     \/ "freed" \notin {inpfname', litq'}
  /\ \/ jmpcode' = 2 /\ pc' = "cleanup" /\ Recorded
     \/ /\ jmpcode' = jmpcode /\ GoesOn
        /\ (late' = late /\ misuse' = misuse) \/ Recorded
  /\ jmpcode' = 2 \/ status = "write" \/ (errnum' = errnum /\ warnnum' = warnnum)

(* An abandoned compilation goes to the cleanup.                             *)
LEMMA AbortOutcome ==
  ASSUME NEW kind, NEW moved, Abort(kind, moved)
  PROVE  jmpcode' = 2 /\ pc' = "cleanup" /\ Recorded
<1>1. jmpcode' = 2 /\ pc' = "cleanup" /\ Printed
  BY Zenon DEF Abort
<1> QED
  BY <1>1, PrintedRecorded

(* A diagnostic that returns is printed in the write pass only.              *)
LEMMA ReportOutcome ==
  ASSUME NEW kind \in Kinds, NEW moved, Report(kind, moved)
  PROVE  jmpcode' = jmpcode /\ status = "write" /\ Recorded
<1>1. jmpcode' = jmpcode /\ status = "write" /\ Printed
  BY Zenon DEF Report, Silenced
<1> QED
  BY <1>1, PrintedRecorded

(* No diagnostic, no change of what the diagnostics count.                   *)
LEMMA QuietOutcome ==
  ASSUME UNCHANGED <<outputs, quiet>>
  PROVE  /\ jmpcode' = jmpcode /\ errnum' = errnum /\ warnnum' = warnnum
         /\ late' = late /\ misuse' = misuse
BY DEF quiet, counters

(* Every call site of error() has one of those outcomes.                     *)
LEMMA DiagnosticOutcome == DiagnosticStep => Outcome
<1> USE DEF Outcome, GoesOn, Kinds, unraised, passes, sources, buffers
<1>1. CASE SetupFails
  <2>1. Abort("fatal", FALSE)
    BY <1>1, Zenon DEF SetupFails, Fatal
  <2>2. jmpcode' = 2 /\ pc' = "cleanup" /\ Recorded
    BY <2>1, AbortOutcome
  <2>3. \/ inpfname' = inpfname /\ litq' = litq
        \/ "freed" \notin {inpfname', litq'}
    BY <1>1 DEF SetupFails, Fatal
  <2> QED
    BY <1>1, <2>2, <2>3, Zenon DEF SetupFails, Fatal
<1>2. CASE StopReading
  <2>1. /\ pc = "parse" /\ stack = <<>>
        /\ UNCHANGED <<passes, inpf, stack, crossed, buffers>>
    BY <1>2, Zenon DEF StopReading
  <2>2. open' = IF inpf = Main THEN open ELSE open \ {inpf}
    BY <1>2, Zenon DEF StopReading
  <2>3. CASE pc' = "endpass" /\ UNCHANGED <<outputs, quiet>>
    BY <2>1, <2>3, <2>2, QuietOutcome
  <2>4. CASE Raise("error", TRUE, "endpass")
    BY <2>1, <2>4, <2>2, ReportOutcome, AbortOutcome DEF Raise
  <2> QED
    BY <1>2, <2>3, <2>4, Zenon DEF StopReading
<1>3. CASE Diagnose
  <2>1. pc = "parse" /\ UNCHANGED unraised
    BY <1>3, Zenon DEF Diagnose, Event
  <2>2. PICK kind \in Kinds, moved \in BOOLEAN : Raise(kind, moved, "parse")
    BY <1>3, Zenon DEF Diagnose
  <2> QED
    BY <2>1, <2>2, ReportOutcome, AbortOutcome DEF Raise
<1>4. CASE PopWarnings
  <2>1. pc = "parse" /\ UNCHANGED <<passes, sources, buffers>>
    BY <1>4, Zenon DEF PopWarnings, Event
  <2>2. CASE UNCHANGED <<pc, outputs, quiet>>
    BY <2>1, <2>2, QuietOutcome
  <2>3. ASSUME NEW moved \in BOOLEAN, Raise("error", moved, "parse") PROVE Outcome
    BY <2>1, <2>3, ReportOutcome, AbortOutcome DEF Raise
  <2> QED
    BY <1>4, <2>2, <2>3, Zenon DEF PopWarnings
<1>5. CASE EndSkimming
  <2>1. pc = "conflict" /\ UNCHANGED unraised
    BY <1>5, Zenon DEF EndSkimming
  <2>2. PICK next \in {"cleanup", "writepass"} :
          \/ pc' = next /\ UNCHANGED <<outputs, quiet>>
          \/ Raise("error", TRUE, next)
    BY <1>5 DEF EndSkimming
  <2>3. CASE pc' = next /\ UNCHANGED <<outputs, quiet>>
    BY <2>1, <2>2, <2>3, QuietOutcome
  <2>4. CASE Raise("error", TRUE, next)
    BY <2>1, <2>2, <2>4, ReportOutcome, AbortOutcome DEF Raise
  <2> QED
    BY <2>2, <2>3, <2>4
<1>6. CASE TestSymbols
  <2>1. pc = "trailer" /\ UNCHANGED unraised
    BY <1>6, Zenon DEF TestSymbols
  <2>2. CASE pc' = "cleanup" /\ UNCHANGED <<outputs, quiet>>
    BY <2>1, <2>2, QuietOutcome
  <2>3. ASSUME NEW kind \in {"error", "warning"}, Raise(kind, TRUE, "trailer") PROVE Outcome
    BY <2>1, <2>3, ReportOutcome, AbortOutcome DEF Raise
  <2> QED
    BY <1>6, <2>2, <2>3, Zenon DEF TestSymbols
<1>7. CASE Assemble
  <2>1. pc = "assemble" /\ pc' = "closeout" /\ UNCHANGED unraised
    BY <1>7, Zenon DEF Assemble
  <2>2. CASE UNCHANGED quiet
    BY <2>1, <2>2 DEF quiet, counters
  <2>3. CASE ~Silenced("warning") /\ jmpcode' = jmpcode /\ Printed
    <3>1. status = "write" /\ Recorded
      BY <2>3, PrintedRecorded DEF Silenced
    <3> QED
      BY <2>1, <2>3, <3>1
  <2> QED
    BY <1>7, <2>2, <2>3, Zenon DEF Assemble
<1>8. CASE AssembleFails
  BY <1>8, AbortOutcome DEF AssembleFails
<1>9. CASE CheckLimit
  <2>1. CASE errnum = 0 /\ tight
    BY <1>9, <2>1, AbortOutcome DEF CheckLimit, Fatal
  <2>2. CASE ~(errnum = 0 /\ tight)
    BY <1>9, <2>2, QuietOutcome DEF CheckLimit
  <2> QED
    BY <2>1, <2>2
<1>10. CASE ClearWarnings
  <2>1. pc = "warnstack" /\ UNCHANGED <<passes, sources, buffers>>
    BY <1>10, Zenon DEF ClearWarnings
  <2>2. CASE pc' = "exit" /\ UNCHANGED <<outputs, quiet>>
    BY <2>1, <2>2, QuietOutcome
  <2>3. ASSUME NEW moved \in BOOLEAN, Report("error", moved), pc' = "exit" PROVE Outcome
    BY <2>1, <2>3, ReportOutcome
  <2>4. ASSUME NEW moved \in BOOLEAN, Abort("error", moved) PROVE Outcome
    BY <2>1, <2>4, AbortOutcome
  <2> QED
    BY <1>10, <2>2, <2>3, <2>4, Zenon DEF ClearWarnings
<1> QED
  BY <1>1, <1>2, <1>3, <1>4, <1>5, <1>6, <1>7, <1>8, <1>9, <1>10 DEF DiagnosticStep

(* No pass begins once sc_status is statWRITE, and no step before that       *)
(* counts a diagnostic that is not fatal.                                    *)
LEMMA PhaseKept ==
  ASSUME TypeOK, PhaseInv, SkimmingIsSilent, SuccessInv, [Next]_vars
  PROVE  PhaseInv' /\ SkimmingIsSilent'
<1> USE DEF PhaseInv, SkimmingIsSilent, CleanupSteps, options, passes, sources, outputs, buffers, counters, quiet, unraised
<1>1. CASE DiagnosticStep
  BY <1>1, DiagnosticOutcome DEF Outcome, GoesOn
<1>2. CASE AllocTables \/ ParseOptions \/ OpenSource \/ OpenAsm \/ OpenBin
  <2>1. CASE AllocTables
    BY <2>1 DEF AllocTables
  <2>2. CASE ParseOptions
    BY <2>2 DEF ParseOptions, SuccessInv
  <2>3. CASE OpenSource
    BY <2>3 DEF OpenSource
  <2>4. CASE OpenAsm
    BY <2>4 DEF OpenAsm
  <2>5. CASE OpenBin
    BY <2>5 DEF OpenBin
  <2> QED
    BY <1>2, <2>1, <2>2, <2>3, <2>4, <2>5
<1>3. CASE BeginFirstPass \/ BeginWritePass
  BY <1>3 DEF BeginFirstPass, BeginWritePass, BeginPass
<1>4. CASE \/ Plunge \/ OpenExpression \/ CloseExpression \/ EndInput \/ PopFile
            \/ LoseFile
  BY <1>4 DEF Plunge, OpenExpression, CloseExpression, EndInput, PopFile, LoseFile, Event
<1>5. CASE Resynchronise \/ RequestReparse \/ PushWarnings
  BY <1>5 DEF Resynchronise, RequestReparse, PushWarnings, Event
<1>6. CASE EndFirstPass \/ EndWritePass
  BY <1>6 DEF EndFirstPass, EndWritePass, SuccessInv
<1>7. CASE CloseInput \/ CloseOutputs \/ Release \/ Exit
  BY <1>7 DEF CloseInput, CloseOutputs, Release, Exit
<1>8. CASE UNCHANGED vars
  BY <1>8 DEF vars
<1> QED
  BY <1>1, <1>2, <1>3, <1>4, <1>5, <1>6, <1>7, <1>8 DEF Next, Setup, Parse, Cleanup, DiagnosticStep

-----------------------------------------------------------------------------
(* The parser stack as long as every expression ends in its file *)

(* An item that is no flag, on top of the stack, is the last of a frame.     *)
LEMMA FrameOnTop ==
  ASSUME NEW d \in Nat, NEW n \in Nat \ {0}, NEW s, s[n] # Flag,
         NEW below \in [0 .. d -> 0 .. n], Framed(s, n, d, below)
  PROVE  d > 0 /\ below[d] = n
<1>1. n \in Nat /\ n > 0
  OBVIOUS
<1>2. below[d] \in 0 .. n /\ below[0] = 0
  BY DEF Framed
<1>3. \A i \in below[d] + 1 .. n : s[i] = Flag
  BY DEF Framed
<1>4. ~(n \in below[d] + 1 .. n)
  BY <1>3, Zenon
<1> QED
  BY <1>1, <1>2, <1>4

(* The seven items up to the n-th are the frame of this file; the items      *)
(* readline() pops do not restore it; t is s with flags on or off its top.   *)
FrameEnds(s, n, file) == /\ \A i \in 1 .. 3 : s[n - 7 + i] = file
                         /\ \A i \in 4 .. 7 : s[n - 7 + i] = Number
Differs(s, n, file) == \E i \in 5 .. 7 : s[n + 1 - i] # file
Topped(t, m, s, n) == /\ \A i \in 1 .. m : i <= n => t[i] = s[i]
                      /\ \A i \in n + 1 .. m : t[i] = Flag

(* A frame that is restored is that of the file before.                      *)
LEMMA FrameItems ==
  ASSUME NEW d \in Nat, d > 0, NEW n \in Nat, NEW s,
         NEW below \in [0 .. d -> 0 .. n], Framed(s, n, d, below)
  PROVE  below[d] \in 7 .. n /\ FrameEnds(s, below[d], d - 1)
<1>1. below[d] \in 0 .. n /\ below[0] = 0 /\ n \in Nat
  BY DEF Framed
<1>2. below[0] + 7 <= below[d]
  <2>1. \A e \in 1 .. d : \A k \in 0 .. e - 1 : below[k] + 7 <= below[e]
    BY Zenon DEF Framed
  <2>2. d \in 1 .. d /\ 0 \in 0 .. d - 1
    OBVIOUS
  <2> QED
    BY <2>1, <2>2, Zenon
<1>3. \A i \in 1 .. 7 : s[below[d] - 7 + i] = Frame(d - 1)[i]
  <2>1. \A e \in 1 .. d : \A i \in 1 .. 7 : s[below[e] - 7 + i] = Frame(e - 1)[i]
    BY Zenon DEF Framed
  <2>2. d \in 1 .. d
    OBVIOUS
  <2> QED
    BY <2>1, <2>2, Zenon
<1>4. /\ \A i \in 1 .. 3 : Frame(d - 1)[i] = d - 1
      /\ \A i \in 4 .. 7 : Frame(d - 1)[i] = Number
  BY DEF Frame
<1> QED
  BY <1>1, <1>2, <1>3, <1>4 DEF FrameEnds

(* Under a flag, what readline() pops is never a frame.                      *)
LEMMA FlagOnTop ==
  ASSUME NEW d \in Nat, NEW n \in Nat \ {0}, NEW s, s[n] = Flag,
         NEW below \in [0 .. d -> 0 .. n], Framed(s, n, d, below),
         NEW file \in Nat, 7 <= n
  PROVE  Differs(s, n, file)
<1> USE DEF Differs
<1>1. n \in Nat /\ n > 0
  OBVIOUS
<1>2. below[d] \in 0 .. n /\ below[0] = 0
  BY DEF Framed
<1>3. CASE below[d] < n - 4
  <2>1. s[n - 4] = Flag
    BY <1>1, <1>2, <1>3 DEF Framed
  <2> QED
    BY <1>1, <2>1 DEF Flag
<1>4. CASE below[d] >= n - 4
  <2>1. d > 0
    BY <1>1, <1>2, <1>4
  <2>2. /\ below[d] \in 7 .. n
        /\ \A i \in 4 .. 7 : s[below[d] - 7 + i] = Number
    BY <2>1, FrameItems DEF FrameEnds
  <2>3. below[d] # n
    <3>1. s[below[d] - 7 + 7] = Number
      BY <2>2
    <3> QED
      BY <1>1, <1>2, <3>1 DEF Number, Flag
  <2>4. n - 4 - below[d] + 7 \in 4 .. 7
    <3>1. \A x, y \in Nat : x <= y /\ x >= y - 4 /\ x # y => y - 4 - x + 7 \in 4 .. 7
      OBVIOUS
    <3>2. /\ below[d] \in Nat /\ n \in Nat
          /\ below[d] <= n /\ below[d] >= n - 4 /\ below[d] # n
      BY <1>1, <1>2, <1>4, <2>3
    <3> QED
      BY <3>1, <3>2, Zenon
  <2>5. s[below[d] - 7 + (n - 4 - below[d] + 7)] = Number
    BY <2>2, <2>4
  <2>6. below[d] - 7 + (n - 4 - below[d] + 7) = n - 4
    BY <1>1, <1>2
  <2> QED
    BY <1>1, <2>5, <2>6 DEF Number
<1> QED
  BY <1>1, <1>2, <1>3, <1>4

(* plungequalifiedfile() puts a frame on top: the items t.                   *)
LEMMA FramePushed ==
  ASSUME NEW d \in Nat, NEW n \in Nat, NEW s,
         NEW below \in [0 .. d -> 0 .. n], Framed(s, n, d, below),
         \A i \in 1 .. n : s[i] \in Int,
         NEW t, \A i \in 1 .. n : t[i] = s[i],
         \A i \in 1 .. 7 : t[n + i] = Frame(d)[i]
  PROVE  \E b \in [0 .. d + 1 -> 0 .. n + 7] : Framed(t, n + 7, d + 1, b)
<1> DEFINE b == [e \in 0 .. d + 1 |-> IF e = d + 1 THEN n + 7 ELSE below[e]]
<1>1. b \in [0 .. d + 1 -> 0 .. n + 7]
  OBVIOUS
<1>2. \A e \in 0 .. d : b[e] = below[e] /\ below[e] \in 0 .. n
  OBVIOUS
<1>3. b[d + 1] = n + 7
  OBVIOUS
<1> HIDE DEF b
<1>4. \A i \in 1 .. n : s[i] < d
  <2> SUFFICES ASSUME NEW i \in 1 .. n PROVE s[i] < d
    OBVIOUS
  <2>1. below[d] \in 0 .. n
    OBVIOUS
  <2>2. CASE i \in 1 .. below[d]
    BY <2>2 DEF Framed
  <2>3. CASE i \in below[d] + 1 .. n
    BY <2>3 DEF Framed, Flag
  <2> QED
    BY <2>1, <2>2, <2>3
<1>5. b[0] = 0
  BY <1>2 DEF Framed
<1>6. ASSUME NEW e \in 1 .. d + 1, NEW k \in 0 .. e - 1 PROVE b[k] + 7 <= b[e]
  <2>1. CASE e = d + 1
    <3>1. b[k] \in 0 .. n
      BY <1>2, <2>1
    <3>2. b[e] = n + 7
      BY <1>3, <2>1, Zenon
    <3> QED
      BY <3>1, <3>2
  <2>2. CASE e \in 1 .. d
    <3>1. below[k] + 7 <= below[e]
      BY <2>2 DEF Framed
    <3>2. b[k] = below[k] /\ b[e] = below[e]
      BY <1>2, <2>2
    <3> QED
      BY <3>1, <3>2
  <2> QED
    BY <2>1, <2>2
<1>7. ASSUME NEW e \in 1 .. d + 1, NEW i \in 1 .. 7
      PROVE  t[b[e] - 7 + i] = Frame(e - 1)[i]
  <2>1. CASE e = d + 1
    <3>1. b[e] - 7 + i = n + i /\ e - 1 = d
      BY <1>3, <2>1
    <3>2. t[n + i] = Frame(d)[i]
      OBVIOUS
    <3> QED
      BY <3>1, <3>2, Zenon
  <2>2. CASE e \in 1 .. d
    <3>1. below[0] + 7 <= below[e] /\ below[0] = 0
      BY <2>2 DEF Framed
    <3>2. s[below[e] - 7 + i] = Frame(e - 1)[i]
      BY <2>2 DEF Framed
    <3>3. b[e] = below[e] /\ below[e] \in 0 .. n
      BY <1>2, <2>2
    <3>4. below[e] - 7 + i \in 1 .. n
      <4>1. \A x \in 0 .. n : 0 + 7 <= x => x - 7 + i \in 1 .. n
        OBVIOUS
      <4> QED
        BY <3>1, <3>3, <4>1, Zenon
    <3> QED
      BY <3>2, <3>3, <3>4
  <2> QED
    BY <2>1, <2>2
<1>8. ASSUME NEW e \in 0 .. d + 1, NEW i \in 1 .. b[e] PROVE t[i] < e
  <2>1. CASE e = d + 1 /\ i \in 1 .. n
    <3>1. t[i] = s[i] /\ s[i] < d
      BY <1>4, <2>1
    <3>2. s[i] \in Int
      BY <2>1
    <3> QED
      BY <2>1, <3>1, <3>2
  <2>2. CASE e = d + 1 /\ i \in n + 1 .. n + 7
    <3>1. i - n \in 1 .. 7 /\ n + (i - n) = i
      BY <2>2
    <3>2. t[i] = Frame(d)[i - n]
      BY <3>1
    <3>3. \A k \in 1 .. 7 : Frame(d)[k] < d + 1
      BY DEF Frame, Number
    <3> QED
      BY <2>2, <3>1, <3>2, <3>3
  <2>3. CASE e \in 0 .. d
    <3>1. i \in 1 .. below[e] /\ i \in 1 .. n
      BY <1>2, <2>3
    <3> QED
      BY <2>3, <3>1 DEF Framed
  <2> QED
    BY <1>3, <2>1, <2>2, <2>3
<1>9. ASSUME NEW e \in 1 .. d + 1, NEW i \in b[e - 1] + 1 .. b[e] - 7
      PROVE  t[i] = Flag
  <2>1. CASE e = d + 1
    <3>1. i \in below[d] + 1 .. n /\ i \in 1 .. n
      BY <1>2, <1>3, <2>1
    <3> QED
      BY <3>1 DEF Framed
  <2>2. CASE e \in 1 .. d
    <3>1. /\ b[e - 1] = below[e - 1] /\ below[e - 1] \in 0 .. n
          /\ b[e] = below[e] /\ below[e] \in 0 .. n
      <4>1. e - 1 \in 0 .. d /\ e \in 0 .. d
        BY <2>2
      <4> QED
        BY <1>2, <4>1, Zenon
    <3>2. i \in below[e - 1] + 1 .. below[e] - 7
      BY <3>1, Zenon
    <3>3. \A x, y \in 0 .. n : \A k \in x + 1 .. y - 7 : k \in 1 .. n
      OBVIOUS
    <3>4. i \in below[e - 1] + 1 .. below[e] - 7 /\ i \in 1 .. n
      BY <3>1, <3>2, <3>3, Zenon
    <3> QED
      BY <2>2, <3>4 DEF Framed
  <2> QED
    BY <2>1, <2>2
<1>10. \A i \in b[d + 1] + 1 .. n + 7 : t[i] = Flag
  BY <1>3
<1>11. Framed(t, n + 7, d + 1, b)
  BY <1>5, <1>6, <1>7, <1>8, <1>9, <1>10 DEF Framed
<1> QED
  BY <1>1, <1>11

(* The frames stay when flags are added to or taken from the top.            *)
LEMMA FlagsTopped ==
  ASSUME NEW d \in Nat, NEW n \in Nat, NEW s,
         NEW below \in [0 .. d -> 0 .. n], Framed(s, n, d, below),
         NEW m \in Nat, below[d] <= m, NEW t, Topped(t, m, s, n)
  PROVE  \E b \in [0 .. d -> 0 .. m] : Framed(t, m, d, b)
<1> USE DEF Topped
<1>1. ASSUME NEW e \in 0 .. d PROVE below[e] \in 0 .. m /\ below[e] <= n
  <2>1. CASE e = d
    BY <2>1
  <2>2. CASE e \in 0 .. d - 1
    <3>1. below[e] + 7 <= below[d]
      BY <2>2 DEF Framed
    <3> QED
      BY <3>1
  <2> QED
    BY <2>1, <2>2
<1>2. below \in [0 .. d -> 0 .. m]
  BY <1>1
<1>3. ASSUME NEW e \in 1 .. d, NEW i \in 1 .. 7
      PROVE  t[below[e] - 7 + i] = Frame(e - 1)[i]
  <2>1. below[0] + 7 <= below[e] /\ below[0] = 0
    BY DEF Framed
  <2>2. below[e] - 7 + i \in 1 .. m /\ below[e] - 7 + i <= n
    BY <1>1, <2>1
  <2>3. s[below[e] - 7 + i] = Frame(e - 1)[i]
    BY DEF Framed
  <2> QED
    BY <2>2, <2>3
<1>4. ASSUME NEW e \in 0 .. d, NEW i \in 1 .. below[e] PROVE t[i] < e
  <2>1. i \in 1 .. m /\ i <= n
    BY <1>1
  <2>2. s[i] < e
    BY DEF Framed
  <2> QED
    BY <2>1, <2>2
<1>5. ASSUME NEW e \in 1 .. d, NEW i \in below[e - 1] + 1 .. below[e] - 7
      PROVE  t[i] = Flag
  <2>1. i \in 1 .. m /\ i <= n
    BY <1>1
  <2>2. s[i] = Flag
    BY DEF Framed
  <2> QED
    BY <2>1, <2>2
<1>6. ASSUME NEW i \in below[d] + 1 .. m PROVE t[i] = Flag
  <2>1. CASE i <= n
    <3>1. i \in below[d] + 1 .. n /\ i \in 1 .. m
      BY <2>1
    <3> QED
      BY <2>1, <3>1 DEF Framed
  <2>2. CASE i > n
    BY <2>2
  <2> QED
    BY <2>1, <2>2
<1>7. below[0] = 0 /\ \A e \in 1 .. d : \A k \in 0 .. e - 1 : below[k] + 7 <= below[e]
  BY DEF Framed
<1>8. Framed(t, m, d, below)
  BY <1>3, <1>4, <1>5, <1>6, <1>7 DEF Framed
<1> QED
  BY <1>2, <1>8

(* readline() takes the frame on top away.                                   *)
LEMMA FramePopped ==
  ASSUME NEW d \in Nat, d > 0, NEW n \in Nat, NEW s,
         NEW below \in [0 .. d -> 0 .. n], Framed(s, n, d, below), below[d] = n
  PROVE  \E b \in [0 .. d - 1 -> 0 .. n - 7] : Framed(s, n - 7, d - 1, b)
<1> DEFINE b == [e \in 0 .. d - 1 |-> below[e]]
<1>1. ASSUME NEW e \in 0 .. d - 1 PROVE below[e] \in 0 .. n - 7
  <2>1. below[e] + 7 <= below[d]
    BY DEF Framed
  <2> QED
    BY <2>1
<1>2. b \in [0 .. d - 1 -> 0 .. n - 7] /\ \A e \in 0 .. d - 1 : b[e] = below[e]
  BY <1>1
<1> HIDE DEF b
<1>3. b[0] = 0
  BY <1>2 DEF Framed
<1>4. ASSUME NEW e \in 1 .. d - 1, NEW k \in 0 .. e - 1 PROVE b[k] + 7 <= b[e]
  <2>1. \A x \in 1 .. d : \A y \in 0 .. x - 1 : below[y] + 7 <= below[x]
    BY Zenon DEF Framed
  <2>2. e \in 1 .. d
    OBVIOUS
  <2>3. below[k] + 7 <= below[e]
    BY <2>1, <2>2, Zenon
  <2>4. b[k] = below[k] /\ b[e] = below[e]
    BY <1>2
  <2> QED
    BY <2>3, <2>4
<1>5. ASSUME NEW e \in 1 .. d - 1, NEW i \in 1 .. 7
      PROVE  s[b[e] - 7 + i] = Frame(e - 1)[i]
  <2>1. \A k \in 1 .. d : \A j \in 1 .. 7 : s[below[k] - 7 + j] = Frame(k - 1)[j]
    BY Zenon DEF Framed
  <2>2. e \in 1 .. d /\ b[e] = below[e]
    BY <1>2
  <2> QED
    BY <2>1, <2>2, Zenon
<1>6. ASSUME NEW e \in 0 .. d - 1, NEW i \in 1 .. b[e] PROVE s[i] < e
  <2>1. i \in 1 .. below[e]
    BY <1>2
  <2> QED
    BY <2>1 DEF Framed
<1>7. ASSUME NEW e \in 1 .. d - 1, NEW i \in b[e - 1] + 1 .. b[e] - 7 PROVE s[i] = Flag
  <2>1. i \in below[e - 1] + 1 .. below[e] - 7
    BY <1>2
  <2> QED
    BY <2>1 DEF Framed
<1>8. ASSUME NEW i \in b[d - 1] + 1 .. n - 7 PROVE s[i] = Flag
  <2>1. i \in below[d - 1] + 1 .. below[d] - 7
    BY <1>2
  <2> QED
    BY <2>1 DEF Framed
<1>9. Framed(s, n - 7, d - 1, b)
  BY <1>3, <1>4, <1>5, <1>6, <1>7, <1>8 DEF Framed
<1> QED
  BY <1>2, <1>9

(* An empty stack belongs to the main file.                                  *)
LEMMA EmptyStack ==
  ASSUME NEW d \in Nat, NEW s, NEW below \in [0 .. d -> 0 .. 0], Framed(s, 0, d, below)
  PROVE  d = 0
<1>1. ASSUME d > 0 PROVE FALSE
  <2>1. below[0] + 7 <= below[d]
    BY <1>1 DEF Framed
  <2> QED
    BY <1>1, <2>1
<1> QED
  BY <1>1

(* What the levels say about files, step by step.                            *)
LEMMA LevelKept ==
  ASSUME NEW d, Level(d), UNCHANGED <<inpf, open, stack>>
  PROVE  Level(d)'
BY DEF Level, OpenAt

LEMMA MainLevel ==
  ASSUME NEW d \in Handles, Level(d), stack = <<>>
  PROVE  d = 0 /\ inpf \in {Main, NoFile} /\ open = {Main}
<1>1. d \in Nat
  BY MaxDepthAssumption DEF Handles, Main
<1>2. Len(stack) = 0
  OBVIOUS
<1>3. PICK below \in [0 .. d -> 0 .. 0] : Framed(stack, 0, d, below)
  BY <1>2 DEF Level
<1>4. d = 0
  BY <1>1, <1>3, EmptyStack
<1> QED
  BY <1>4 DEF Level, OpenAt, Main, NoFile

(* A pass begins with the main file and nothing on the stack.                *)
LEMMA LevelBegins ==
  ASSUME stack' = <<>>, inpf' = Main, open' = {Main}
  PROVE  Level(Main)'
<1> DEFINE below == [e \in 0 .. 0 |-> 0]
<1>1. below \in [0 .. 0 -> 0 .. 0]
  OBVIOUS
<1>2. Framed(stack', 0, 0, below)
  BY DEF Framed
<1>3. Len(stack') = 0
  OBVIOUS
<1>4. \E b \in [0 .. 0 -> 0 .. Len(stack')] : Framed(stack', Len(stack'), 0, b)
  BY <1>1, <1>2, <1>3
<1>5. open' = 0 .. 0
  BY DEF Main
<1> QED
  BY <1>4, <1>5 DEF Level, OpenAt, Main, NoFile

LEMMA PlungeKeeps ==
  ASSUME TypeOK, NEW d \in Handles, Level(d), Plunge
  PROVE  \E e \in Handles : Level(e)'
<1>1. d \in Nat /\ d + 1 \in Handles /\ inpf = d
  BY MaxDepthAssumption DEF Plunge, Level, Handles, Main, NoFile
<1>2. stack' = stack \o Frame(d) /\ inpf' = d + 1 /\ open' = open \cup {d + 1}
  BY <1>1 DEF Plunge
<1>3. stack \in Seq(Items)
  BY DEF TypeOK, ValuesOK
<1>4. Frame(d) \in Seq(Items) /\ Len(Frame(d)) = 7
  BY DEF Frame, Items
<1>5. /\ Len(stack) \in Nat
      /\ \A i \in 1 .. Len(stack) : stack[i] \in Items
  BY <1>3
<1>6. /\ Len(stack') = Len(stack) + 7
      /\ \A i \in 1 .. Len(stack) : stack'[i] = stack[i]
      /\ \A i \in 1 .. 7 : stack'[Len(stack) + i] = Frame(d)[i]
  <2> DEFINE f == Frame(d)
  <2>1. stack' = stack \o f /\ f \in Seq(Items) /\ Len(f) = 7
    BY <1>2, <1>4
  <2> HIDE DEF f
  <2>2. /\ Len(stack') = Len(stack) + Len(f)
        /\ \A i \in 1 .. Len(stack) + Len(f) :
             stack'[i] = IF i <= Len(stack) THEN stack[i] ELSE f[i - Len(stack)]
    BY <1>3, <2>1, ConcatProperties, Zenon
  <2>3. /\ Len(stack') = Len(stack) + 7
        /\ \A i \in 1 .. Len(stack) : stack'[i] = stack[i]
    BY <1>5, <2>1, <2>2
  <2>4. ASSUME NEW i \in 1 .. 7 PROVE stack'[Len(stack) + i] = f[i]
    <3>1. /\ Len(stack) + i \in 1 .. Len(stack) + Len(f) /\ ~(Len(stack) + i <= Len(stack))
          /\ Len(stack) + i - Len(stack) = i
      BY <1>5, <2>1
    <3> QED
      BY <2>2, <3>1
  <2> QED
    BY <2>3, <2>4 DEF f
<1>7. \A i \in 1 .. Len(stack) : stack[i] \in Int
  BY <1>5, MaxDepthAssumption DEF Items, Handles, Main, Number, Flag
<1>8. PICK below \in [0 .. d -> 0 .. Len(stack)] : Framed(stack, Len(stack), d, below)
  BY DEF Level
<1>9. \E b \in [0 .. d + 1 -> 0 .. Len(stack) + 7] :
        Framed(stack', Len(stack) + 7, d + 1, b)
  BY <1>1, <1>5, <1>6, <1>7, <1>8, FramePushed, Zenon
<1>10. open' = 0 .. d + 1
  BY <1>1, <1>2 DEF Level, OpenAt, NoFile
<1>11. Level(d + 1)'
  <2>1. inpf' = d + 1 /\ d + 1 > 0 /\ d + 1 # NoFile
    BY <1>1, <1>2 DEF NoFile
  <2>2. open' = OpenAt(d + 1)'
    BY <1>10, <2>1 DEF OpenAt
  <2>3. \E b \in [0 .. d + 1 -> 0 .. Len(stack')] : Framed(stack', Len(stack'), d + 1, b)
    BY <1>6, <1>9, Zenon
  <2> QED
    BY <2>1, <2>2, <2>3 DEF Level
<1> QED
  BY <1>1, <1>11

LEMMA OpenExpressionKeeps ==
  ASSUME TypeOK, NEW d \in Handles, Level(d), OpenExpression
  PROVE  Level(d)'
<1>1. d \in Nat
  BY MaxDepthAssumption DEF Handles, Main
<1>2. PICK n \in {1, 2} : stack' = stack \o [i \in 1 .. n |-> Flag]
  BY DEF OpenExpression
<1>3. inpf' = inpf /\ open' = open
  BY DEF OpenExpression
<1>4. stack \in Seq(Items)
  BY DEF TypeOK, ValuesOK
<1> DEFINE flags == [i \in 1 .. n |-> Flag]
<1>5. flags \in Seq(Items) /\ Len(flags) = n /\ \A i \in 1 .. n : flags[i] = Flag
  BY DEF Items
<1> HIDE DEF flags
<1>6. /\ Len(stack) \in Nat /\ Len(stack') = Len(stack) + n
      /\ \A i \in 1 .. Len(stack) : stack'[i] = stack[i]
      /\ \A i \in Len(stack) + 1 .. Len(stack) + n : stack'[i] = flags[i - Len(stack)]
  BY <1>2, <1>4, <1>5 DEF flags
<1>7. Topped(stack', Len(stack'), stack, Len(stack))
  BY <1>5, <1>6 DEF Topped
<1>8. PICK below \in [0 .. d -> 0 .. Len(stack)] : Framed(stack, Len(stack), d, below)
  BY DEF Level
<1>9. below[d] <= Len(stack') /\ Len(stack') \in Nat
  <2>1. below[d] \in 0 .. Len(stack)
    BY <1>1, <1>8
  <2> QED
    BY <1>6, <2>1
<1>10. \E b \in [0 .. d -> 0 .. Len(stack')] : Framed(stack', Len(stack'), d, b)
  BY <1>1, <1>6, <1>7, <1>8, <1>9, FlagsTopped, Zenon
<1> QED
  BY <1>3, <1>10 DEF Level, OpenAt

(* A routine that takes back flags only leaves the frames alone.             *)
LEMMA CloseExpressionKeeps ==
  ASSUME TypeOK, NEW d \in Handles, Level(d), CloseExpression, ~crossed'
  PROVE  Level(d)'
<1>1. d \in Nat
  BY MaxDepthAssumption DEF Handles, Main
<1> DEFINE n == calls[Len(calls)]
           m == Len(stack) - n
<1>2. n \in {1, 2}
  BY DEF TypeOK, ValuesOK, CloseExpression
<1>3. stack' = Popped(n) /\ \A i \in 1 .. n : Item(i) = Flag
  BY DEF CloseExpression
<1>4. inpf' = inpf /\ open' = open
  BY DEF CloseExpression
<1>5. stack \in Seq(Items) /\ Len(stack) \in Nat
  BY DEF TypeOK, ValuesOK
<1> HIDE DEF n
<1>6. n <= Len(stack)
  <2>1. Item(n) = Flag
    BY <1>2, <1>3
  <2> QED
    BY <1>2, <1>5, <2>1 DEF Item, Flag, Number
<1>7. m \in Nat /\ Len(stack') = m /\ \A i \in 1 .. m : stack'[i] = stack[i]
  BY <1>2, <1>3, <1>5, <1>6 DEF Popped
<1>8. PICK below \in [0 .. d -> 0 .. Len(stack)] : Framed(stack, Len(stack), d, below)
  BY DEF Level
<1>9. below[d] \in 0 .. Len(stack)
  BY <1>1, <1>8
<1>10. below[d] <= m
  <2>1. SUFFICES ASSUME below[d] > m PROVE FALSE
    BY <1>7, <1>9
  <2>2. d > 0
    BY <1>7, <1>8, <2>1, <1>1 DEF Framed
  <2>3. below[d] \in 7 .. Len(stack) /\ FrameEnds(stack, below[d], d - 1)
    BY <1>1, <1>5, <1>8, <2>2, FrameItems, Zenon
  <2>4. stack[below[d]] = Number
    <3>1. below[d] - 7 + 7 = below[d] /\ 7 \in 4 .. 7
      BY <2>3
    <3> QED
      BY <2>3, <3>1, Zenon DEF FrameEnds
  <2>5. /\ Len(stack) + 1 - below[d] \in 1 .. n
        /\ Len(stack) + 1 - below[d] <= Len(stack)
        /\ Len(stack) + 1 - (Len(stack) + 1 - below[d]) = below[d]
    <3>1. \A x, y, z \in Int : x <= y /\ x > y - z /\ z <= y =>
            y + 1 - x \in 1 .. z /\ y + 1 - x <= y /\ y + 1 - (y + 1 - x) = x
      OBVIOUS
    <3>2. below[d] \in Int /\ below[d] <= Len(stack) /\ Len(stack) \in Int /\ n \in Int
      BY <1>2, <1>9, <1>5
    <3>3. below[d] > Len(stack) - n
      BY <2>1
    <3> QED
      BY <1>6, <3>1, <3>2, <3>3, Zenon
  <2>6. Item(Len(stack) + 1 - below[d]) = stack[below[d]]
    BY <2>5, Zenon DEF Item
  <2>7. Item(Len(stack) + 1 - below[d]) = Flag
    BY <1>3, <2>5, Zenon
  <2> QED
    BY <2>4, <2>6, <2>7 DEF Number, Flag
<1>11. Topped(stack', m, stack, Len(stack))
  BY <1>2, <1>5, <1>7 DEF Topped
<1>12. \E b \in [0 .. d -> 0 .. m] : Framed(stack', m, d, b)
  BY <1>1, <1>5, <1>7, <1>8, <1>10, <1>11, FlagsTopped, Zenon
<1> QED
  BY <1>4, <1>7, <1>12 DEF Level, OpenAt

LEMMA EndInputKeeps ==
  ASSUME NEW d \in Handles, Level(d), EndInput
  PROVE  Level(d)'
<1>1. d \in Nat /\ inpf = d /\ open = 0 .. d
  BY MaxDepthAssumption DEF EndInput, Event, Level, OpenAt, Handles, Main, NoFile
<1>2. inpf' = NoFile /\ stack' = stack
  BY DEF EndInput
<1>3. open' = IF inpf = Main THEN open ELSE open \ {inpf}
  BY DEF EndInput, CloseUnlessMain
<1>4. open' = IF d > 0 THEN 0 .. d - 1 ELSE 0 .. d
  <2>1. CASE d = 0
    BY <1>1, <1>3, <2>1 DEF Main
  <2>2. CASE d > 0
    <3>1. open' = (0 .. d) \ {d}
      BY <1>1, <1>3, <2>2 DEF Main
    <3> QED
      BY <1>1, <2>2, <3>1
  <2> QED
    BY <1>1, <2>1, <2>2
<1> QED
  BY <1>2, <1>4 DEF Level, OpenAt

(* Items that are popped leave those below them.                             *)
LEMMA PoppedItems ==
  ASSUME stack \in Seq(Items), NEW n \in Nat, n <= Len(stack)
  PROVE  /\ Len(Popped(n)) = Len(stack) - n
         /\ \A i \in 1 .. Len(stack) - n : Popped(n)[i] = stack[i]
<1>1. PICK k \in Nat : k = Len(stack) - n
  OBVIOUS
<1>2. Popped(n) = SubSeq(stack, 1, k)
  BY <1>1 DEF Popped
<1>3. \A i \in 1 .. k : stack[i] \in Items
  BY <1>1
<1>4. /\ Len(SubSeq(stack, 1, k)) = k
      /\ \A i \in 1 .. k : SubSeq(stack, 1, k)[i] = stack[i]
  BY <1>1, <1>3, SubSeqProperties
<1> QED
  BY <1>1, <1>2, <1>4

(* What readline() finds on a stack that is not empty, when no flag is on    *)
(* top: the file before.                                                     *)
LEMMA FrameFound ==
  ASSUME TypeOK, NEW d \in Handles, Level(d), stack # <<>>, Item(1) # Flag
  PROVE  /\ d > 0 /\ Restores(d - 1)
         /\ \E b \in [0 .. d - 1 -> 0 .. Len(Popped(7))] :
              Framed(Popped(7), Len(Popped(7)), d - 1, b)
<1>1. d \in Nat
  BY MaxDepthAssumption DEF Handles, Main
<1>2. stack \in Seq(Items) /\ Len(stack) \in Nat \ {0}
  BY DEF TypeOK, ValuesOK
<1>3. stack[Len(stack)] # Flag
  BY <1>2 DEF Item
<1>4. PICK below \in [0 .. d -> 0 .. Len(stack)] : Framed(stack, Len(stack), d, below)
  BY DEF Level
<1>5. d > 0 /\ below[d] = Len(stack)
  BY <1>1, <1>2, <1>3, <1>4, FrameOnTop, Zenon
<1>6. Len(stack) \in Nat
  BY <1>2
<1>7. below[d] \in 7 .. Len(stack) /\ FrameEnds(stack, below[d], d - 1)
  BY <1>1, <1>4, <1>5, <1>6, FrameItems, Zenon
<1>8. Restores(d - 1)
  <2> SUFFICES ASSUME NEW i \in 5 .. 7 PROVE Item(i) = d - 1
    BY DEF Restores
  <2>1. 8 - i \in 1 .. 3 /\ Len(stack) - 7 + (8 - i) = Len(stack) + 1 - i /\ i <= Len(stack)
    BY <1>5, <1>6, <1>7
  <2>2. stack[Len(stack) - 7 + (8 - i)] = d - 1
    BY <1>5, <1>7, <2>1, Zenon DEF FrameEnds
  <2> QED
    BY <2>1, <2>2, Zenon DEF Item
<1>9. \E b \in [0 .. d - 1 -> 0 .. Len(stack) - 7] : Framed(stack, Len(stack) - 7, d - 1, b)
  BY <1>1, <1>4, <1>5, <1>6, FramePopped, Zenon
<1>10. PICK b \in [0 .. d - 1 -> 0 .. Len(stack) - 7] :
         Framed(stack, Len(stack) - 7, d - 1, b)
  BY <1>9
<1> DEFINE t == Popped(7)
<1>11. 7 \in Nat /\ 7 <= Len(stack) /\ stack \in Seq(Items)
  BY <1>2, <1>5, <1>6, <1>7
<1>12. /\ Len(t) = Len(stack) - 7
       /\ \A i \in 1 .. Len(stack) - 7 : t[i] = stack[i]
  BY <1>11, PoppedItems, Zenon
<1> HIDE DEF t
<1>13. d - 1 \in Nat /\ Len(stack) - 7 \in Nat /\ b[d - 1] <= Len(stack) - 7
  BY <1>1, <1>5, <1>6, <1>7, <1>10
<1>14. Topped(t, Len(stack) - 7, stack, Len(stack) - 7)
  BY <1>12, <1>13 DEF Topped
<1>15. \E c \in [0 .. d - 1 -> 0 .. Len(stack) - 7] : Framed(t, Len(stack) - 7, d - 1, c)
  BY <1>10, <1>13, <1>14, FlagsTopped, Zenon
<1> QED
  BY <1>5, <1>8, <1>12, <1>15 DEF t

(* Under a flag it finds no file.                                            *)
LEMMA NoFileUnderFlag ==
  ASSUME TypeOK, NEW d \in Handles, Level(d), stack # <<>>, Item(1) = Flag,
         NEW file \in Handles
  PROVE  ~Restores(file)
<1>1. d \in Nat /\ file \in Nat
  BY MaxDepthAssumption DEF Handles, Main
<1>2. stack \in Seq(Items) /\ Len(stack) \in Nat \ {0}
  BY DEF TypeOK, ValuesOK
<1>3. stack[Len(stack)] = Flag
  BY <1>2 DEF Item
<1>4. PICK below \in [0 .. d -> 0 .. Len(stack)] : Framed(stack, Len(stack), d, below)
  BY DEF Level
<1>5. CASE 7 <= Len(stack)
  <2>1. Differs(stack, Len(stack), file)
    <3>1. Len(stack) \in Nat \ {0}
      BY <1>2
    <3> QED
      BY <1>1, <1>3, <1>4, <1>5, <3>1, FlagOnTop, Zenon
  <2>2. PICK i \in 5 .. 7 : stack[Len(stack) + 1 - i] # file
    BY <2>1 DEF Differs
  <2>3. Item(i) = stack[Len(stack) + 1 - i]
    BY <1>2, <1>5 DEF Item
  <2> QED
    BY <2>2, <2>3 DEF Restores
<1>6. CASE ~(7 <= Len(stack))
  BY <1>1, <1>2, <1>6 DEF Restores, Item, Number
<1> QED
  BY <1>5, <1>6

LEMMA PopFileKeeps ==
  ASSUME TypeOK, NEW d \in Handles, Level(d), PopFile
  PROVE  \E e \in Handles : Level(e)'
<1>1. inpf' \in Handles /\ Restores(inpf') /\ stack # <<>> /\ stack' = Popped(7)
  BY DEF PopFile
<1>2. Item(1) # Flag
  BY <1>1, NoFileUnderFlag
<1>3. /\ d > 0 /\ Restores(d - 1)
      /\ \E b \in [0 .. d - 1 -> 0 .. Len(stack')] :
           Framed(stack', Len(stack'), d - 1, b)
  BY <1>1, <1>2, FrameFound
<1>4. inpf' = d - 1
  <2>1. \A file : Restores(file) => Item(5) = file
    BY DEF Restores
  <2> QED
    BY <1>1, <1>3, <2>1
<1>5. d \in Nat
  BY MaxDepthAssumption DEF Handles, Main
<1>6. open' = 0 .. d - 1
  <2>1. CASE inpf = NoFile
    BY <1>3, <2>1 DEF PopFile, Level, OpenAt
  <2>2. CASE inpf # NoFile
    <3>1. inpf = d /\ open = 0 .. d /\ open' = open \ {d}
      BY <1>3, <1>5, <2>2 DEF PopFile, CloseUnlessMain, Level, OpenAt, Main
    <3> QED
      BY <1>3, <1>5, <3>1
  <2> QED
    BY <2>1, <2>2
<1>7. Level(d - 1)'
  <2>1. inpf' # NoFile
    BY <1>3, <1>4, <1>5 DEF NoFile
  <2> QED
    BY <1>3, <1>4, <1>6, <2>1 DEF Level, OpenAt
<1> QED
  BY <1>1, <1>4, <1>7

(* Every step keeps the files on the parser stack open, and no others: the   *)
(* end of an include file closes that file alone, #endinput the one being    *)
(* read, the cleanup the main file.                                          *)
LEMMA SourcesKept ==
  ASSUME TypeOK, SourceInv, SuccessInv, [Next]_vars
  PROVE  SourceInv'
<1> SUFFICES ASSUME ~crossed' PROVE SourceInv'
  BY DEF SourceInv
<1> USE DEF SourceInv, CleanupSteps, Main, NoFile, options, passes, sources, outputs, buffers, counters, quiet, unraised
<1>1. /\ pc = "parse" /\ ~crossed => \E d \in Handles : Level(d)
      /\ ~crossed => pc # "undefined"
  OBVIOUS
<1>2. CASE DiagnosticStep
  <2>1. Outcome
    BY <1>2, DiagnosticOutcome
  <2>2. UNCHANGED <<inpf, stack, crossed>>
    BY <2>1 DEF Outcome
  <2>3. open' = open
    <3>1. CASE pc = "parse" /\ stack = <<>> /\ inpf # Main /\ open' = open \ {inpf}
      <4>1. PICK d \in Handles : Level(d)
        BY <1>1, <2>2, <3>1
      <4>2. inpf \in {Main, NoFile} /\ open = {Main}
        BY <3>1, <4>1, MainLevel
      <4> QED
        BY <3>1, <4>2
    <3> QED
      BY <2>1, <3>1 DEF Outcome
  <2>4. CASE jmpcode' = 2 /\ pc' = "cleanup"
    BY <2>4
  <2>5. CASE jmpcode' = jmpcode /\ GoesOn
    <3>1. CASE pc = "parse" /\ pc' = "parse"
      <4>1. PICK d \in Handles : Level(d)
        BY <1>1, <2>2, <3>1
      <4>2. Level(d)'
        BY <2>2, <2>3, <4>1, LevelKept
      <4> QED
        BY <3>1, <4>2
    <3>2. CASE pc = "parse" /\ pc' = "endpass" /\ stack = <<>>
      <4>1. PICK d \in Handles : Level(d)
        BY <1>1, <2>2, <3>2
      <4>2. inpf \in {Main, NoFile} /\ open = {Main}
        BY <3>2, <4>1, MainLevel
      <4> QED
        BY <2>2, <2>3, <3>2, <4>2
    <3>3. CASE pc # "parse"
      BY <2>2, <2>3, <2>5, <3>3 DEF GoesOn
    <3> QED
      BY <2>5, <3>1, <3>2, <3>3 DEF GoesOn
  <2> QED
    BY <2>1, <2>4, <2>5 DEF Outcome
<1>3. CASE AllocTables \/ ParseOptions \/ OpenSource \/ OpenAsm \/ OpenBin
  <2>1. CASE AllocTables
    BY <2>1 DEF AllocTables
  <2>2. CASE ParseOptions
    BY <2>2 DEF ParseOptions
  <2>3. CASE OpenSource
    BY <2>3 DEF OpenSource
  <2>4. CASE OpenAsm
    BY <2>4 DEF OpenAsm
  <2>5. CASE OpenBin
    BY <2>5 DEF OpenBin
  <2> QED
    BY <1>3, <2>1, <2>2, <2>3, <2>4, <2>5
<1>4. CASE BeginFirstPass \/ BeginWritePass
  <2>1. /\ stack' = <<>> /\ inpf' = Main /\ open' = {Main} /\ pc' = "parse"
    BY <1>4 DEF BeginFirstPass, BeginWritePass, BeginPass
  <2>2. Level(Main)'
    BY <2>1, LevelBegins
  <2>3. Main \in Handles
    BY MaxDepthAssumption DEF Handles
  <2> QED
    BY <2>1, <2>2, <2>3
<1>5. CASE Plunge
  <2>1. pc = "parse" /\ pc' = "parse" /\ ~crossed
    BY <1>5 DEF Plunge, Event
  <2>2. \E e \in Handles : Level(e)'
    BY <1>1, <1>5, <2>1, PlungeKeeps
  <2> QED
    BY <2>1, <2>2
<1>6. CASE OpenExpression
  <2>1. pc = "parse" /\ pc' = "parse" /\ ~crossed
    BY <1>6 DEF OpenExpression, Event
  <2>2. \E e \in Handles : Level(e)'
    BY <1>1, <1>6, <2>1, OpenExpressionKeeps
  <2> QED
    BY <2>1, <2>2
<1>7. CASE CloseExpression
  <2>1. pc = "parse" /\ pc' = "parse" /\ ~crossed
    BY <1>7 DEF CloseExpression, Event
  <2>2. \E e \in Handles : Level(e)'
    BY <1>1, <1>7, <2>1, CloseExpressionKeeps
  <2> QED
    BY <2>1, <2>2
<1>8. CASE EndInput
  <2>1. pc = "parse" /\ pc' = "parse" /\ ~crossed
    BY <1>8 DEF EndInput, Event
  <2>2. \E e \in Handles : Level(e)'
    BY <1>1, <1>8, <2>1, EndInputKeeps
  <2> QED
    BY <2>1, <2>2
<1>9. CASE PopFile
  <2>1. pc = "parse" /\ pc' = "parse" /\ ~crossed
    BY <1>9 DEF PopFile
  <2>2. \E e \in Handles : Level(e)'
    BY <1>1, <1>9, <2>1, PopFileKeeps
  <2> QED
    BY <2>1, <2>2
<1>10. CASE LoseFile
  <2>1. /\ pc = "parse" /\ ~crossed /\ Item(1) # Flag /\ stack # <<>>
        /\ \A file \in Handles : ~Restores(file)
    BY <1>10 DEF LoseFile
  <2>2. PICK d \in Handles : Level(d)
    BY <1>1, <2>1
  <2>3. d > 0 /\ Restores(d - 1)
    BY <2>1, <2>2, FrameFound
  <2>4. d - 1 \in Handles
    BY <2>3, MaxDepthAssumption DEF Handles
  <2> QED
    BY <2>1, <2>3, <2>4
<1>11. CASE Resynchronise \/ RequestReparse \/ PushWarnings
  <2>1. /\ pc = "parse" /\ pc' = "parse" /\ ~crossed
        /\ UNCHANGED <<inpf, open, stack>>
    BY <1>11 DEF Resynchronise, RequestReparse, PushWarnings, Event
  <2>2. \E e \in Handles : Level(e)'
    BY <1>1, <2>1, LevelKept
  <2> QED
    BY <2>1, <2>2
<1>12. CASE EndFirstPass \/ EndWritePass
  BY <1>12 DEF EndFirstPass, EndWritePass, SuccessInv
<1>13. CASE CloseInput \/ CloseOutputs \/ Release \/ Exit
  BY <1>13 DEF CloseInput, CloseOutputs, Release, Exit
<1>14. CASE UNCHANGED vars
  <2>1. UNCHANGED <<pc, jmpcode, inpf, open, stack, crossed>>
    BY <1>14 DEF vars
  <2>2. CASE pc = "parse"
    <3>1. \E e \in Handles : Level(e)'
      BY <1>1, <2>1, <2>2, LevelKept
    <3> QED
      BY <2>1, <2>2, <3>1
  <2>3. CASE pc # "parse"
    BY <2>1, <2>3
  <2> QED
    BY <2>2, <2>3
<1> QED
  BY <1>2, <1>3, <1>4, <1>5, <1>6, <1>7, <1>8, <1>9, <1>10, <1>11, <1>12, <1>13, <1>14
  DEF Next, Setup, Parse, Cleanup, DiagnosticStep

(* The file being read is open until the cleanup.                            *)
LEMMA ReadFileOpen ==
  ASSUME TypeOK, SourceInv, ~crossed, pc \notin CleanupSteps \cup {"done"}
  PROVE  inpf = NoFile \/ inpf \in open
<1>1. CASE pc = "parse"
  <2>1. PICK d \in Handles : Level(d)
    BY <1>1 DEF SourceInv
  <2>2. d \in Nat
    BY MaxDepthAssumption DEF Handles, Main
  <2> QED
    BY <2>1, <2>2 DEF Level, OpenAt
<1>2. CASE pc # "parse"
  BY <1>2 DEF SourceInv, Main, NoFile, TypeOK, ValuesOK, Steps
<1> QED
  BY <1>1, <1>2

(* Nothing is released twice on the first way through the cleanup; there is  *)
(* a second way only after a diagnostic that came late.                      *)
LEMMA ReleaseKept ==
  ASSUME TypeOK, ReleaseInv, SourceInv, [Next]_vars
  PROVE  ReleaseInv'
<1> USE DEF ReleaseInv, CleanupSteps, NoFile, options, passes, sources, outputs, buffers, counters, quiet, unraised
<1>1. pc \notin CleanupSteps \cup {"done"} /\ ~crossed => inpf = NoFile \/ inpf \in open
  BY ReadFileOpen
<1>2. CASE DiagnosticStep
  <2>1. Outcome
    BY <1>2, DiagnosticOutcome
  <2>2. /\ inpf' = inpf /\ crossed' = crossed
        /\ (inpfname' = inpfname /\ litq' = litq) \/ "freed" \notin {inpfname', litq'}
    BY <2>1 DEF Outcome
  <2>3. open' = open \/ crossed
    <3>1. CASE pc = "parse" /\ stack = <<>> /\ open' = open \ {inpf} /\ ~crossed /\ inpf # Main
      <4>1. PICK d \in Handles : Level(d)
        BY <3>1 DEF SourceInv
      <4>2. inpf \in {Main, NoFile} /\ open = {Main}
        BY <3>1, <4>1, MainLevel
      <4> QED
        BY <3>1, <4>2 DEF Main
    <3> QED
      BY <2>1, <3>1 DEF Outcome
  <2>4. CASE pc' = "cleanup" /\ pc # "done" /\ Recorded
    BY <1>1, <2>2, <2>4, <2>3 DEF Recorded
  <2>5. CASE GoesOn /\ late' = late /\ misuse' = misuse
    BY <1>1, <2>2, <2>5, <2>3 DEF GoesOn
  <2>6. CASE GoesOn /\ Recorded
    BY <1>1, <2>2, <2>6, <2>3 DEF GoesOn, Recorded
  <2> QED
    BY <2>1, <2>4, <2>5, <2>6 DEF Outcome
<1>3. CASE AllocTables \/ ParseOptions \/ OpenSource \/ OpenAsm \/ OpenBin
  <2>1. CASE AllocTables
    BY <1>1, <2>1 DEF AllocTables
  <2>2. CASE ParseOptions
    BY <1>1, <2>2 DEF ParseOptions
  <2>3. CASE OpenSource
    BY <1>1, <2>3 DEF OpenSource
  <2>4. CASE OpenAsm
    BY <1>1, <2>4 DEF OpenAsm
  <2>5. CASE OpenBin
    BY <1>1, <2>5 DEF OpenBin
  <2> QED
    BY <1>3, <2>1, <2>2, <2>3, <2>4, <2>5
<1>4. CASE BeginFirstPass \/ BeginWritePass
  BY <1>4 DEF BeginFirstPass, BeginWritePass, BeginPass
<1>5. CASE Plunge
  BY <1>5 DEF Plunge, Event
<1>6. CASE EndInput
  BY <1>1, <1>6 DEF EndInput, Event, CloseUnlessMain
<1>7. CASE PopFile
  BY <1>1, <1>7 DEF PopFile, CloseUnlessMain
<1>8. CASE OpenExpression \/ CloseExpression \/ LoseFile
  <2>1. CASE OpenExpression
    BY <1>1, <2>1 DEF OpenExpression, Event
  <2>2. CASE CloseExpression
    BY <1>1, <2>2 DEF CloseExpression, Event
  <2>3. CASE LoseFile
    BY <1>1, <2>3 DEF LoseFile
  <2> QED
    BY <1>8, <2>1, <2>2, <2>3
<1>9. CASE Resynchronise \/ RequestReparse \/ PushWarnings
  BY <1>9 DEF Resynchronise, RequestReparse, PushWarnings, Event
<1>10. CASE EndFirstPass \/ EndWritePass
  BY <1>10 DEF EndFirstPass, EndWritePass
<1>11. CASE CloseInput \/ CloseOutputs \/ Release \/ Exit
  BY <1>11 DEF CloseInput, CloseOutputs, Release, Exit
<1>12. CASE UNCHANGED vars
  BY <1>12 DEF vars
<1> QED
  BY <1>2, <1>3, <1>4, <1>5, <1>6, <1>7, <1>9, <1>10, <1>11, <1>12, <1>8 DEF Next, Setup, Parse, Cleanup, DiagnosticStep

(* What a jump adds to the errors: one, or it reaches the limit from below.  *)
AbortBounded ==
  /\ errnum' \in Nat
  /\ errnum' <= MaxErrors + 1 \/ errnum' <= errnum + 1
(* error() counts a diagnostic once, and error 107 on top only while the     *)
(* limit is not reached.                                                     *)
LEMMA AbortBound ==
  ASSUME TypeOK, NEW kind \in Kinds, NEW moved, Abort(kind, moved)
  PROVE  AbortBounded
<1>1. Errnum(kind) \in {errnum, errnum + 1}
  BY Zenon DEF Errnum
<1>2. CASE kind # "fatal" /\ Errnum(kind) <= MaxErrors
  <2>1. errnum' = Errnum(kind) + 1
    BY <1>2, Zenon DEF Abort
  <2> QED
    BY <1>1, <1>2, <2>1, MaxErrorsAssumption DEF AbortBounded, TypeOK, ValuesOK
<1>3. CASE ~(kind # "fatal" /\ Errnum(kind) <= MaxErrors)
  <2>1. errnum' = Errnum(kind)
    BY <1>3, Zenon DEF Abort
  <2> QED
    BY <1>1, <2>1 DEF AbortBounded, TypeOK, ValuesOK
<1> QED
  BY <1>2, <1>3

(* A diagnostic that returns has not exceeded the limit.                     *)
LEMMA ReportBound ==
  ASSUME TypeOK, NEW kind \in Kinds, NEW moved, Report(kind, moved)
  PROVE  errnum' \in Nat /\ errnum' <= MaxErrors
<1>1. errnum' = Errnum(kind) /\ Errnum(kind) <= MaxErrors
  BY Zenon DEF Report
<1>2. Errnum(kind) \in Nat
  BY CountsAreNatural DEF TypeOK
<1> QED
  BY <1>1, <1>2

(* One jump adds at most one error to MaxErrors; a push without a pop,       *)
(* reported behind the cleanup, at most another one, after which errflag     *)
(* keeps error() silent for good.                                            *)
LEMMA BoundKept ==
  ASSUME TypeOK, BoundInv, SuccessInv, PhaseInv, SkimmingIsSilent, [Next]_vars
  PROVE  BoundInv'
<1> USE DEF BoundInv, options, passes, sources, outputs, buffers, counters, quiet, unraised
<1> USE MaxErrorsAssumption
<1>1. errnum \in Nat
  BY DEF TypeOK, ValuesOK
<1>2. ASSUME jmpcode = 0, NEW kind \in Kinds, NEW moved, Abort(kind, moved) PROVE BoundInv'
  <2>1. AbortBounded /\ jmpcode' = 2
    BY <1>2, AbortBound, AbortOutcome
  <2> QED
    BY <1>1, <1>2, <2>1 DEF AbortBounded
<1>3. ASSUME NEW kind \in Kinds, NEW moved, Report(kind, moved) PROVE BoundInv'
  <2>1. errnum' \in Nat /\ errnum' <= MaxErrors
    BY <1>3, ReportBound
  <2> QED
    BY <2>1
<1>4. ASSUME UNCHANGED <<errnum, errflag, jmpcode>> PROVE BoundInv'
  BY <1>4
<1>5. pc \notin CleanupSteps \cup {"done"} => jmpcode = 0
  BY Zenon DEF SuccessInv
<1>6. CASE SetupFails
  <2>1. Abort("fatal", FALSE) /\ "fatal" \in Kinds
    BY <1>6, Zenon DEF SetupFails, Fatal, Kinds
  <2>2. jmpcode = 0
    BY <1>6, <1>5 DEF SetupFails, CleanupSteps
  <2> QED
    BY <1>2, <2>1, <2>2
<1>7. CASE StopReading
  <2>1. jmpcode = 0 /\ "error" \in Kinds
    BY <1>7, <1>5 DEF StopReading, CleanupSteps, Kinds
  <2> QED
    BY <1>7, <1>2, <1>3, <1>4, <2>1 DEF StopReading, Raise
<1>8. CASE Diagnose
  <2>1. jmpcode = 0
    BY <1>8, <1>5 DEF Diagnose, Event, CleanupSteps
  <2> QED
    BY <1>8, <1>2, <1>3, <2>1 DEF Diagnose, Raise
<1>9. CASE PopWarnings
  <2>1. jmpcode = 0 /\ "error" \in Kinds
    BY <1>9, <1>5 DEF PopWarnings, Event, CleanupSteps, Kinds
  <2> QED
    BY <1>9, <1>2, <1>3, <1>4, <2>1 DEF PopWarnings, Raise
<1>10. CASE EndSkimming
  <2>1. jmpcode = 0 /\ "error" \in Kinds
    BY <1>10, <1>5 DEF EndSkimming, CleanupSteps, Kinds
  <2> QED
    BY <1>10, <1>2, <1>3, <1>4, <2>1 DEF EndSkimming, Raise
<1>11. CASE TestSymbols
  <2>1. jmpcode = 0 /\ {"error", "warning"} \subseteq Kinds
    BY <1>11, <1>5 DEF TestSymbols, CleanupSteps, Kinds
  <2> QED
    BY <1>11, <1>2, <1>3, <1>4, <2>1 DEF TestSymbols, Raise
<1>12. CASE Assemble
  <2>1. UNCHANGED quiet \/ (errnum' = Errnum("warning") /\ Errnum("warning") <= MaxErrors)
    BY <1>12, Zenon DEF Assemble
  <2>2. Errnum("warning") \in Nat
    BY CountsAreNatural DEF TypeOK
  <2> QED
    BY <1>4, <2>1, <2>2
<1>13. CASE AssembleFails
  <2>1. jmpcode = 0 /\ {"fatal", "warning"} \subseteq Kinds
    BY <1>13 DEF AssembleFails, SuccessInv, Kinds
  <2> QED
    BY <1>13, <1>2, <2>1 DEF AssembleFails
<1>14. CASE CheckLimit
  <2>1. CASE errnum = 0 /\ tight
    <3>1. Abort("fatal", FALSE) /\ "fatal" \in Kinds
      BY <1>14, <2>1 DEF CheckLimit, Fatal, Kinds
    <3>2. AbortBounded /\ jmpcode' = 2
      BY <3>1, AbortBound, AbortOutcome
    <3> QED
      BY <2>1, <3>2 DEF AbortBounded
  <2>2. CASE ~(errnum = 0 /\ tight)
    BY <1>14, <1>4, <2>2 DEF CheckLimit
  <2> QED
    BY <2>1, <2>2
<1>15. CASE ClearWarnings
  <2>1. ASSUME NEW moved \in BOOLEAN, Abort("error", moved) PROVE BoundInv'
    <3>1. ~errflag /\ errflag'
      BY <2>1, Zenon DEF Abort, Silenced
    <3>2. AbortBounded /\ jmpcode' = 2
      BY <2>1, AbortBound, AbortOutcome DEF Kinds
    <3> QED
      BY <1>1, <3>1, <3>2 DEF AbortBounded
  <2>2. "error" \in Kinds
    BY DEF Kinds
  <2> QED
    BY <1>15, <1>3, <1>4, <2>1, <2>2 DEF ClearWarnings
<1>16. CASE AllocTables \/ OpenSource \/ OpenAsm \/ OpenBin
  BY <1>16, <1>4 DEF AllocTables, OpenSource, OpenAsm, OpenBin
<1>17. CASE ParseOptions
  <2>1. jmpcode = 0
    BY <1>17, <1>5 DEF ParseOptions, CleanupSteps
  <2> QED
    BY <1>17, <2>1 DEF ParseOptions
<1>18. CASE BeginFirstPass \/ BeginWritePass
  <2>1. jmpcode = 0
    BY <1>18, <1>5 DEF BeginFirstPass, BeginWritePass, CleanupSteps
  <2> QED
    BY <1>1, <1>18, <2>1 DEF BeginFirstPass, BeginWritePass, BeginPass
<1>19. CASE \/ Plunge \/ OpenExpression \/ CloseExpression \/ EndInput \/ PopFile
             \/ LoseFile
  BY <1>19, <1>4 DEF Plunge, OpenExpression, CloseExpression, EndInput, PopFile, LoseFile, Event
<1>20. CASE Resynchronise
  <2>1. jmpcode = 0
    BY <1>20, <1>5 DEF Resynchronise, Event, CleanupSteps
  <2> QED
    BY <1>1, <1>20, <2>1 DEF Resynchronise
<1>21. CASE RequestReparse \/ PushWarnings \/ EndFirstPass \/ EndWritePass
  BY <1>21, <1>4 DEF RequestReparse, PushWarnings, EndFirstPass, EndWritePass, Event
<1>22. CASE CloseInput \/ CloseOutputs \/ Release \/ Exit
  BY <1>22, <1>4 DEF CloseInput, CloseOutputs, Release, Exit
<1>23. CASE UNCHANGED vars
  BY <1>23, <1>4 DEF vars
<1> QED
  BY <1>6, <1>7, <1>8, <1>9, <1>10, <1>11, <1>12, <1>13, <1>14, <1>15, <1>16, <1>17, <1>18, <1>19, <1>20, <1>21, <1>22, <1>23
  DEF Next, Setup, Parse, Cleanup

-----------------------------------------------------------------------------
(* The theorems *)

(* The invariants hold together: each relies on those named before it.      *)
DriverInv ==
  /\ TypeOK /\ SuccessInv /\ OutputInv
  /\ PhaseInv /\ SkimmingIsSilent /\ SourceInv /\ ReleaseInv /\ BoundInv

LEMMA DriverInvHolds == Spec => []DriverInv
<1>1. Init => PhaseInv /\ SkimmingIsSilent /\ SourceInv /\ ReleaseInv /\ BoundInv
  <2> SUFFICES ASSUME Init
               PROVE  PhaseInv /\ SkimmingIsSilent /\ SourceInv /\ ReleaseInv /\ BoundInv
    OBVIOUS
  <2>1. PhaseInv /\ SkimmingIsSilent
    BY DEF Init, PhaseInv, SkimmingIsSilent, CleanupSteps
  <2>2. SourceInv
    BY DEF Init, SourceInv, CleanupSteps, NoFile
  <2>3. ReleaseInv
    BY DEF Init, ReleaseInv, CleanupSteps, NoFile
  <2>4. BoundInv
    BY MaxErrorsAssumption DEF Init, BoundInv
  <2> QED
    BY <2>1, <2>2, <2>3, <2>4
<1>2. DriverInv /\ [Next]_vars
      => PhaseInv' /\ SkimmingIsSilent' /\ SourceInv' /\ ReleaseInv' /\ BoundInv'
  BY PhaseKept, SourcesKept, ReleaseKept, BoundKept DEF DriverInv
<1>3. TypeOK /\ SuccessInv /\ OutputInv /\ PhaseInv /\ SkimmingIsSilent
      /\ SourceInv /\ ReleaseInv /\ BoundInv <=> DriverInv
  BY DEF DriverInv
<1> QED
  BY <1>1, <1>2, <1>3, InvCorrect, PTL DEF Spec

(* "An error should not be reported twice": while the skimming passes run,  *)
(* error() counts nothing but a fatal error, whatever is in the source.     *)
THEOREM SkimmingSilent == Spec => []SkimmingIsSilent
<1>1. DriverInv => SkimmingIsSilent
  BY DEF DriverInv
<1> QED
  BY <1>1, DriverInvHolds, PTL

(* Flags of expressions and states of files share one stack.  As long as    *)
(* every expression ends in the file it begins in, readline() finds the     *)
(* state of the file it has to return to, and that file and all below it    *)
(* are open, at any include depth, with any number of expressions open in   *)
(* each file.                                                               *)
THEOREM IncludersStayOpen == Spec => []IncludersOpen
<1>1. DriverInv => IncludersOpen
  <2> SUFFICES ASSUME DriverInv, ~crossed, pc = "parse"
               PROVE  /\ Pending \subseteq open
                      /\ inpf # NoFile => inpf \in open \ Pending
    BY DEF IncludersOpen, DriverInv, SourceInv
  <2>1. PICK d \in Handles : Level(d)
    BY DEF DriverInv, SourceInv
  <2>2. d \in Nat
    BY MaxDepthAssumption DEF Handles, Main
  <2>3. stack \in Seq(Items) /\ Len(stack) \in Nat
    BY DEF DriverInv, TypeOK, ValuesOK
  <2>4. PICK below \in [0 .. d -> 0 .. Len(stack)] : Framed(stack, Len(stack), d, below)
    BY <2>1 DEF Level
  <2>5. ASSUME NEW i \in 1 .. Len(stack) PROVE stack[i] < d
    <3>1. below[d] \in 0 .. Len(stack)
      BY <2>2, <2>4
    <3>2. CASE i \in 1 .. below[d]
      BY <2>2, <2>4, <3>2 DEF Framed
    <3>3. CASE i \in below[d] + 1 .. Len(stack)
      BY <2>2, <2>4, <3>3 DEF Framed, Flag
    <3> QED
      BY <2>3, <3>1, <3>2, <3>3
  <2>6. ASSUME NEW file \in Pending PROVE file \in 0 .. d - 1
    <3>1. PICK i \in DOMAIN stack : file = stack[i]
      BY DEF Pending
    <3>2. i \in 1 .. Len(stack) /\ file \in Handles
      BY <2>3, <3>1 DEF Pending
    <3> QED
      BY <2>2, <2>5, <3>1, <3>2, MaxDepthAssumption DEF Handles, Main
  <2>7. \A file \in 0 .. d - 1 : file \in open
    BY <2>1, <2>2 DEF Level, OpenAt
  <2>8. inpf # NoFile => inpf = d /\ d \in open
    BY <2>1, <2>2 DEF Level, OpenAt, NoFile
  <2>9. d \notin Pending
    BY <2>2, <2>6
  <2> QED
    BY <2>6, <2>7, <2>8, <2>9
<1> QED
  BY <1>1, DriverInvHolds, PTL

(* A compilation that was not abandoned has closed every source file it     *)
(* opened, unless #endinput ended the main file or an expression ended in   *)
(* another file than it began in.                                           *)
THEOREM SourcesAreClosed == Spec => []SourcesClosed
<1>1. DriverInv => SourcesClosed
  BY DEF DriverInv, SourceInv, SourcesClosed, Done, Main, NoFile
<1> QED
  BY <1>1, DriverInvHolds, PTL

(* Nothing that was released is used, closed or released again before a     *)
(* diagnostic is issued from the cleanup itself, as long as every           *)
(* expression ends in the file it begins in.                                *)
THEOREM MisuseOnlyLate == Spec => []MisuseOnlyWhenLate
<1>1. DriverInv => MisuseOnlyWhenLate
  BY DEF DriverInv, ReleaseInv, MisuseOnlyWhenLate
<1> QED
  BY <1>1, DriverInvHolds, PTL

(* However many errors the source holds, and however often the cleanup is   *)
(* entered again, at most MaxErrors + 2 of them are counted.                *)
THEOREM ErrorsAreBounded == Spec => []ErrorsBounded
<1>1. DriverInv => ErrorsBounded
  BY MaxErrorsAssumption DEF DriverInv, TypeOK, ValuesOK, BoundInv, ErrorsBounded
<1> QED
  BY <1>1, DriverInvHolds, PTL
=============================================================================
