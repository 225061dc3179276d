---------------------------- MODULE PreprocProofs ----------------------------
(***************************************************************************)
(* What holds of Preproc for every nesting of sections and of include       *)
(* files.  LevelsAgree is not inductive: readline() restores both levels    *)
(* from one value, so SavedInv has to say that the sections below that      *)
(* value are still live.  The refinement of Conditional is proved action by *)
(* action, over SectionFacts: the mode of a section, read from its bits.    *)
(***************************************************************************)
EXTENDS Preproc, SequenceTheorems, TLAPS

-----------------------------------------------------------------------------
(* The invariants *)

(* The first n entries of a sequence.                                       *)
LEMMA PrefixProperties ==
  ASSUME NEW S, NEW s \in Seq(S), NEW n \in 0 .. Len(s)
  PROVE  /\ SubSeq(s, 1, n) \in Seq(S)
         /\ Len(SubSeq(s, 1, n)) = n
         /\ \A i \in 1 .. n : SubSeq(s, 1, n)[i] = s[i]
<1>1. \A i \in 1 .. n : s[i] \in S
  OBVIOUS
<1> QED
  BY <1>1, SubSeqProperties

(* The variables keep their types.                                          *)
LEMMA TypeKept == ASSUME TypeOK, [Next]_vars PROVE TypeOK'
<1> USE NestAssumption DEF TypeOK, levels, input, Reading
<1>1. CASE DoIf
  BY <1>1 DEF DoIf
<1>2. CASE DoIfOverflow
  BY <1>2 DEF DoIfOverflow
<1>3. CASE DoElseIf
  BY <1>3 DEF DoElseIf, SetMode, Crosses
<1>4. CASE DoElse
  BY <1>4 DEF DoElse, SetMode, Crosses
<1>5. CASE DoEndIf
  BY <1>5 DEF DoEndIf, Crosses
<1>6. CASE NoMatchingIf
  BY <1>6 DEF NoMatchingIf
<1>7. CASE DoInclude
  BY <1>7 DEF DoInclude
<1>8. CASE EndInput
  BY <1>8 DEF EndInput
<1>9. CASE EndInclude
  BY <1>9 DEF EndInclude, Lowest
<1>10. CASE EndMain
  BY <1>10 DEF EndMain
<1>11. CASE LoseFile
  <2>1. CASE UNCHANGED <<iflevel, skiplevel, saved, inpf>> /\ freading' = FALSE
    BY <1>11, <2>1 DEF LoseFile
  <2>2. CASE /\ freading' = freading /\ inpf' = TRUE
             /\ \E n \in 0 .. Len(saved) - 1 :
                  /\ saved' = SubSeq(saved, 1, n)
                  /\ iflevel' \in {saved[n + 1], 0, 1} /\ skiplevel' = iflevel'
    <3>1. PICK n \in 0 .. Len(saved) - 1 :
            /\ saved' = SubSeq(saved, 1, n)
            /\ iflevel' \in {saved[n + 1], 0, 1} /\ skiplevel' = iflevel'
      BY <2>2
    <3>2. n \in 0 .. Len(saved) /\ saved[n + 1] \in 0 .. sCOMP_STACK
      OBVIOUS
    <3>3. saved' \in Seq(0 .. sCOMP_STACK)
      BY <3>1, <3>2, PrefixProperties
    <3> QED
      BY <1>11, <2>2, <3>1, <3>2, <3>3 DEF LoseFile
  <2> QED
    BY <1>11, <2>1, <2>2 DEF LoseFile
<1>12. CASE UNCHANGED vars
  BY <1>12 DEF vars
<1> QED
  BY <1>1, <1>2, <1>3, <1>4, <1>5, <1>6, <1>7, <1>8, <1>9, <1>10, <1>11, <1>12 DEF Next

(* A line that changes or closes a section leaves the history clean only in *)
(* a section its own file has opened.                                       *)
LEMMA OwnSection ==
  ASSUME TypeOK, Crosses, ~crossed'
  PROVE  ~crossed /\ (saved = <<>> \/ iflevel > Lowest)
<1>1. ~crossed /\ ~(saved # <<>> /\ iflevel <= Lowest)
  BY Zenon DEF Crosses
<1> QED
  BY <1>1, NestAssumption DEF TypeOK, Lowest

(* Every file that is being included was included at a level no higher than *)
(* the one of the innermost file.                                           *)
LEMMA SavedBelowLowest ==
  ASSUME TypeOK, SavedInv, ~crossed, NEW i \in 1 .. Len(saved)
  PROVE  saved[i] <= Lowest /\ Lowest <= skiplevel
BY NestAssumption DEF TypeOK, SavedInv, Lowest

(* A change of the section the innermost file has opened last is one of no  *)
(* section that was open when a file was included.                          *)
LEMMA OwnLevelKept ==
  ASSUME TypeOK, LevelsAgree, SavedInv, ~crossed, saved = <<>> \/ iflevel > Lowest,
         UNCHANGED <<iflevel, skiplevel, saved>>,
         \A k \in 1 .. sCOMP_STACK : k # iflevel => ifstack'[k] = ifstack[k]
  PROVE  LevelsAgree' /\ SavedInv'
<1> USE NestAssumption DEF TypeOK
<1>1. /\ iflevel \in 0 .. sCOMP_STACK /\ skiplevel \in 0 .. iflevel
      /\ iflevel' = iflevel /\ skiplevel' = skiplevel /\ saved' = saved
  OBVIOUS
<1>2. \A i \in 1 .. Len(saved) : saved[i] < iflevel /\ saved[i] \in Nat
  <2> TAKE i \in 1 .. Len(saved)
  <2>1. saved # <<>> /\ saved[i] <= Lowest /\ saved[i] \in Nat
    BY SavedBelowLowest
  <2> QED
    BY <2>1 DEF Lowest
<1>3. SavedInv'
  BY <1>1, <1>2 DEF SavedInv
<1>4. SKIPPING /\ skiplevel < iflevel => SKIPPING'
  BY <1>1 DEF SKIPPING
<1>5. \A k \in 1 .. skiplevel - 1 : k # iflevel /\ k \in 1 .. sCOMP_STACK
  BY <1>1
<1> QED
  BY <1>1, <1>3, <1>4, <1>5 DEF LevelsAgree

(* The end of an include file pops one saved level.                         *)
LEMMA PopSaved ==
  ASSUME TypeOK, EndInclude
  PROVE  Len(saved') = Len(saved) - 1 /\ \A i \in 1 .. Len(saved') : saved'[i] = saved[i]
<1>1. saved \in Seq(0 .. sCOMP_STACK)
  BY DEF TypeOK
<1>2. saved' = SubSeq(saved, 1, Len(saved) - 1) /\ saved # <<>>
  BY DEF EndInclude
<1>3. Len(saved) - 1 \in 0 .. Len(saved)
  BY <1>1, <1>2
<1> QED
  BY <1>1, <1>2, <1>3, PrefixProperties

(* No directive, and no end of a file, sets the levels apart where lines     *)
(* are compiled.                                                             *)
LEMMA LevelsKept ==
  ASSUME TypeOK, LevelsAgree, SavedInv, [Next]_vars
  PROVE  LevelsAgree' /\ SavedInv'
<1> SUFFICES ASSUME ~crossed' PROVE LevelsAgree' /\ SavedInv'
  BY DEF LevelsAgree, SavedInv
<1> USE NestAssumption DEF TypeOK, LevelsAgree, SavedInv, SKIPPING, levels, input, Reading
<1>1. CASE DoIf
  <2>1. CASE SKIPPING
    BY <1>1, <2>1 DEF DoIf
  <2>2. CASE ~SKIPPING
    BY <1>1, <2>2 DEF DoIf
  <2> QED
    BY <2>1, <2>2
<1>2. CASE DoIfOverflow \/ EndMain
  BY <1>2 DEF DoIfOverflow, EndMain
<1>3. CASE DoElseIf
  <2>1. ~crossed /\ (saved = <<>> \/ iflevel > Lowest)
    BY <1>3, OwnSection DEF DoElseIf
  <2>2. \A k \in 1 .. sCOMP_STACK : k # iflevel => ifstack'[k] = ifstack[k]
    BY <1>3 DEF DoElseIf, SetMode
  <2>3. UNCHANGED <<iflevel, skiplevel, saved>>
    BY <1>3 DEF DoElseIf
  <2> QED
    BY <2>1, <2>2, <2>3, OwnLevelKept
<1>4. CASE DoElse
  <2>1. ~crossed /\ (saved = <<>> \/ iflevel > Lowest)
    BY <1>4, OwnSection DEF DoElse
  <2>2. \A k \in 1 .. sCOMP_STACK : k # iflevel => ifstack'[k] = ifstack[k]
    BY <1>4 DEF DoElse, SetMode
  <2>3. UNCHANGED <<iflevel, skiplevel, saved>>
    BY <1>4 DEF DoElse
  <2> QED
    BY <2>1, <2>2, <2>3, OwnLevelKept
<1>5. CASE DoEndIf
  <2>1. ~crossed /\ (saved = <<>> \/ iflevel > Lowest)
    BY <1>5, OwnSection DEF DoEndIf
  <2>2. UNCHANGED <<ifstack, saved>> /\ iflevel > 0 /\ iflevel' = iflevel - 1
        /\ skiplevel' = IF iflevel - 1 < skiplevel THEN iflevel - 1 ELSE skiplevel
    BY <1>5 DEF DoEndIf
  <2>3. \A i \in 1 .. Len(saved) : saved[i] <= skiplevel' /\ saved[i] \in Nat
    <3> TAKE i \in 1 .. Len(saved)
    <3>1. saved # <<>> /\ saved[i] <= Lowest /\ saved[i] \in Nat
      BY <2>1, SavedBelowLowest
    <3> QED
      BY <2>1, <2>2, <3>1, SavedBelowLowest DEF Lowest
  <2>4. SavedInv'
    BY <2>1, <2>2, <2>3
  <2>5. skiplevel' <= skiplevel /\ (~SKIPPING' => skiplevel' = iflevel')
    BY <2>1, <2>2
  <2> QED
    BY <2>1, <2>2, <2>4, <2>5
<1>6. CASE NoMatchingIf \/ EndInput
  BY <1>6 DEF NoMatchingIf, EndInput
<1>7. CASE DoInclude
  BY <1>7 DEF DoInclude
<1>8. CASE EndInclude
  <2>1. iflevel' = Lowest /\ skiplevel' = Lowest /\ ifstack' = ifstack /\ ~crossed
    BY <1>8 DEF EndInclude
  <2>2. Lowest = saved[Len(saved)] /\ Len(saved) > 0
    BY <1>8 DEF EndInclude, Lowest
  <2>3. Len(saved') = Len(saved) - 1 /\ \A i \in 1 .. Len(saved') : saved'[i] = saved[i]
    BY <1>8, PopSaved
  <2> QED
    BY <2>1, <2>2, <2>3
<1>9. CASE LoseFile
  BY <1>9 DEF LoseFile
<1>10. CASE UNCHANGED vars
  BY <1>10 DEF vars
<1> QED
  BY <1>1, <1>2, <1>3, <1>4, <1>5, <1>6, <1>7, <1>8, <1>9, <1>10 DEF Next

-----------------------------------------------------------------------------
(* The refinement of Conditional *)

(* The sections Conditional sees.                                           *)
Stack == [k \in 1 .. iflevel |-> ModeOf(k)]

(* The mode of a section, bit by bit.                                       *)
SectionFacts ==
  \A k \in 1 .. iflevel :
    /\ ModeOf(k) \in Sections!Modes
    /\ k > skiplevel <=> ModeOf(k) = "dead"
    /\ k <= skiplevel =>
         /\ PARSEMODE \in ifstack[k] <=> ModeOf(k) \in {"parse", "done"}
         /\ SKIPMODE \in ifstack[k] <=> ModeOf(k) \in {"skip", "done"}

(* The four bit fields are the four modes of a section that is not inside a  *)
(* part that is left out.                                                    *)
LEMMA SectionModes == TypeOK => SectionFacts
<1> SUFFICES ASSUME TypeOK, NEW k \in 1 .. iflevel
    PROVE
    /\ ModeOf(k) \in Sections!Modes
    /\ k > skiplevel <=> ModeOf(k) = "dead"
    /\ k <= skiplevel =>
         /\ PARSEMODE \in ifstack[k] <=> ModeOf(k) \in {"parse", "done"}
         /\ SKIPMODE \in ifstack[k] <=> ModeOf(k) \in {"skip", "done"}
  BY DEF SectionFacts
<1>1. k \in 1 .. sCOMP_STACK /\ k \in Nat /\ skiplevel \in Nat
  BY NestAssumption DEF TypeOK
<1>2. ifstack[k] \in {{}, {PARSEMODE}, {SKIPMODE}, {SKIPMODE, PARSEMODE}}
  <2>1. ifstack[k] \subseteq {SKIPMODE, PARSEMODE}
    BY <1>1 DEF TypeOK
  <2> QED
    BY <2>1
<1>3. PARSEMODE # SKIPMODE
  BY DEF PARSEMODE, SKIPMODE
<1> QED
  BY <1>1, <1>2, <1>3 DEF ModeOf, Sections!Modes

(* The sections, as a sequence.                                              *)
StackFacts ==
  /\ Stack \in Seq(Sections!Modes)
  /\ Len(Stack) = iflevel
  /\ \A k \in 1 .. iflevel : Stack[k] = ModeOf(k)

(* The sections are a sequence of modes, whatever is left above skiplevel.   *)
LEMMA StackIsSequence == TypeOK => StackFacts
<1> SUFFICES ASSUME TypeOK PROVE StackFacts
  OBVIOUS
<1>1. \A k \in 1 .. iflevel : ModeOf(k) \in Sections!Modes
  BY SectionModes DEF SectionFacts
<1>2. iflevel \in Nat
  BY NestAssumption DEF TypeOK
<1>3. Stack \in [1 .. iflevel -> Sections!Modes]
  BY <1>1 DEF Stack
<1>4. Stack \in Seq(Sections!Modes)
  BY <1>2, <1>3
<1> QED
  BY <1>2, <1>3, <1>4 DEF Stack, StackFacts

(* SKIPPING looks at one level, and yet says whether every section is live.  *)
LEMMA LiveIsNotSkipping ==
  ASSUME TypeOK, LevelsAgree, ~crossed
  PROVE  Sections!Live(Stack) <=> ~SKIPPING
<1>1. /\ Len(Stack) = iflevel /\ Stack \in Seq(Sections!Modes)
      /\ \A k \in 1 .. iflevel : Stack[k] = ModeOf(k)
  BY StackIsSequence DEF StackFacts
<1>2. iflevel \in Nat /\ skiplevel \in 0 .. iflevel
  BY NestAssumption DEF TypeOK
<1>3. CASE iflevel = 0
  BY <1>1, <1>2, <1>3 DEF Sections!Live, SKIPPING
<1>4. CASE iflevel > 0
  <2>1. Sections!Live(Stack) <=> ModeOf(iflevel) \in {"parse", "else"}
    BY <1>1, <1>4 DEF Sections!Live
  <2>2. ModeOf(iflevel) \in Sections!Modes /\ SectionFacts
    BY <1>2, <1>4, SectionModes DEF SectionFacts
  <2>3. CASE skiplevel = iflevel
    BY <1>2, <1>4, <2>1, <2>2, <2>3 DEF SectionFacts, Sections!Modes, SKIPPING
  <2>4. CASE skiplevel < iflevel
    BY <1>2, <1>4, <2>1, <2>2, <2>4 DEF SectionFacts, LevelsAgree
  <2> QED
    BY <1>2, <2>3, <2>4
<1> QED
  BY <1>2, <1>3, <1>4

(* The facts hold before and after a step.                                  *)
LEMMA FactsAround ==
  ASSUME TypeOK, [Next]_vars
  PROVE  /\ SectionFacts /\ StackFacts /\ SectionFacts' /\ StackFacts'
         /\ iflevel \in Nat /\ iflevel' \in Nat /\ skiplevel \in 0 .. iflevel
         /\ skiplevel' \in 0 .. iflevel'
<1>1. TypeOK'
  BY TypeKept
<1>2. (TypeOK => SectionFacts)' /\ (TypeOK => StackFacts)'
  BY SectionModes, StackIsSequence, PTL
<1> QED
  BY <1>1, <1>2, SectionModes, StackIsSequence, NestAssumption DEF TypeOK

(* A section whose bits and whose place below or above the skipped level    *)
(* are what they were has the mode it had.                                  *)
LEMMA SameMode ==
  ASSUME TypeOK, [Next]_vars, NEW k \in 1 .. iflevel, k \in 1 .. iflevel',
         k > skiplevel <=> k > skiplevel',
         k <= skiplevel => ifstack'[k] = ifstack[k]
  PROVE  Stack'[k] = Stack[k]
<1>1. SectionFacts /\ StackFacts /\ SectionFacts' /\ StackFacts'
      /\ skiplevel \in Int /\ skiplevel' \in Int
  BY FactsAround
<1>2. Stack[k] = ModeOf(k) /\ Stack'[k] = ModeOf(k)'
  BY <1>1 DEF StackFacts
<1> QED
  BY <1>1, <1>2 DEF SectionFacts, Sections!Modes

(* Three ways to recognize a sequence that was extended, cut off or changed  *)
(* in one place.                                                             *)
LEMMA AppendEqual ==
  ASSUME NEW S, NEW s \in Seq(S), NEW t \in Seq(S), NEW m \in S,
         Len(t) = Len(s) + 1, t[Len(s) + 1] = m,
         \A i \in 1 .. Len(s) : t[i] = s[i]
  PROVE  t = Append(s, m)
<1>1. /\ Append(s, m) \in Seq(S) /\ Len(Append(s, m)) = Len(t)
      /\ \A i \in 1 .. Len(t) : Append(s, m)[i] = t[i]
  BY AppendProperties
<1> QED
  BY <1>1, SeqEqual

LEMMA PrefixEqual ==
  ASSUME NEW S, NEW s \in Seq(S), NEW t \in Seq(S), Len(t) <= Len(s),
         \A i \in 1 .. Len(t) : t[i] = s[i]
  PROVE  t = SubSeq(s, 1, Len(t))
<1>1. Len(t) \in 0 .. Len(s)
  OBVIOUS
<1>2. /\ SubSeq(s, 1, Len(t)) \in Seq(S) /\ Len(SubSeq(s, 1, Len(t))) = Len(t)
      /\ \A i \in 1 .. Len(t) : SubSeq(s, 1, Len(t))[i] = s[i]
  BY <1>1, PrefixProperties
<1> QED
  BY <1>2, SeqEqual

LEMMA ExceptEqual ==
  ASSUME NEW S, NEW s \in Seq(S), NEW t \in Seq(S), NEW m \in S, NEW n \in 1 .. Len(s),
         Len(t) = Len(s), t[n] = m,
         \A i \in 1 .. Len(s) : i # n => t[i] = s[i]
  PROVE  t = [s EXCEPT ![n] = m]
<1>1. /\ [s EXCEPT ![n] = m] \in Seq(S) /\ Len([s EXCEPT ![n] = m]) = Len(s)
      /\ \A i \in 1 .. Len(s) : [s EXCEPT ![n] = m][i] = IF i = n THEN m ELSE s[i]
  BY ExceptSeq
<1> QED
  BY <1>1, SeqEqual

(* #if opens a section.                                                     *)
LEMMA IfOpens ==
  ASSUME TypeOK, LevelsAgree, ~crossed, DoIf
  PROVE  \E v \in BOOLEAN : Sections!BeginIf(v)
<1> [Next]_vars
  BY DEF Next
<1>1. /\ SectionFacts /\ StackFacts /\ SectionFacts' /\ StackFacts'
      /\ iflevel \in Nat /\ skiplevel \in 0 .. iflevel
  BY FactsAround
<1>2. iflevel' = iflevel + 1 /\ UNCHANGED <<saved, crossed>> /\ iflevel + 1 \in 1 .. sCOMP_STACK
  BY NestAssumption DEF DoIf, input, TypeOK
<1>3. Sections!Live(Stack) <=> ~SKIPPING
  BY LiveIsNotSkipping
<1>4. PICK top \in Nat : top = iflevel + 1
  BY <1>1
<1>5. Stack'[top] = ModeOf(top)' /\ top \in 1 .. iflevel'
  BY <1>1, <1>2, <1>4 DEF StackFacts
<1>6. CASE SKIPPING
  <2>1. skiplevel' = skiplevel /\ ifstack' = ifstack
    BY <1>6 DEF DoIf
  <2>2. Stack'[top] = "dead"
    BY <1>1, <1>2, <1>4, <1>5, <2>1 DEF SectionFacts
  <2>3. \A k \in 1 .. iflevel : Stack'[k] = Stack[k]
    BY <1>1, <1>2, <2>1, SameMode
  <2>4. Stack' = Append(Stack, "dead")
    BY <1>1, <1>2, <1>4, <2>2, <2>3, AppendEqual DEF StackFacts, Sections!Modes
  <2> QED
    BY <1>2, <1>3, <1>6, <2>4, Zenon DEF Sections!BeginIf, Stack
<1>7. CASE ~SKIPPING
  <2>1. PICK val \in BOOLEAN :
          ifstack' = [ifstack EXCEPT ![iflevel + 1] = {IF val THEN PARSEMODE ELSE SKIPMODE}]
    BY <1>7 DEF DoIf
  <2>2. skiplevel = iflevel /\ skiplevel' = iflevel + 1
    BY <1>7 DEF DoIf, LevelsAgree
  <2>3. ifstack'[top] = {IF val THEN PARSEMODE ELSE SKIPMODE}
        /\ \A k \in 1 .. iflevel : ifstack'[k] = ifstack[k]
    BY <1>1, <1>2, <1>4, <2>1 DEF TypeOK
  <2>4. Stack'[top] = IF val THEN "parse" ELSE "skip"
    BY <1>1, <1>4, <1>5, <2>2, <2>3 DEF SectionFacts, PARSEMODE, SKIPMODE, Sections!Modes
  <2>5. \A k \in 1 .. iflevel : Stack'[k] = Stack[k]
    BY <1>1, <1>2, <2>2, <2>3, SameMode
  <2>6. Stack' = Append(Stack, IF val THEN "parse" ELSE "skip")
    BY <1>1, <1>2, <1>4, <2>4, <2>5, AppendEqual DEF StackFacts, Sections!Modes
  <2> QED
    <3>1. CASE val
      BY <1>2, <1>3, <1>7, <2>6, <3>1, Zenon DEF Sections!BeginIf, Stack
    <3>2. CASE ~val
      BY <1>2, <1>3, <1>7, <2>6, <3>2, Zenon DEF Sections!BeginIf, Stack
    <3> QED
      BY <3>1, <3>2
<1> QED
  BY <1>6, <1>7

(* What counts as a section of the innermost file.                          *)
LEMMA OwnIsOpened ==
  ASSUME TypeOK
  PROVE  /\ Sections!Opened = Lowest /\ Lowest \in Nat
         /\ Sections!Own <=> iflevel > Lowest
<1>1. Sections!Opened = Lowest
  BY DEF Sections!Opened, Lowest
<1>2. Lowest \in Nat
  BY NestAssumption DEF TypeOK, Lowest
<1>3. Len(Stack) = iflevel
  BY StackIsSequence DEF StackFacts
<1> QED
  BY <1>1, <1>2, <1>3 DEF Sections!Own, Stack

(* #elseif and #else change the bits of the innermost section.  If it is    *)
(* inside a part that is left out, Conditional sees nothing of it.          *)
LEMMA TurnUnseen ==
  ASSUME TypeOK, [Next]_vars, skiplevel < iflevel, ~crossed, ~crossed',
         UNCHANGED <<iflevel, skiplevel, saved>>,
         \A k \in 1 .. sCOMP_STACK : k # iflevel => ifstack'[k] = ifstack[k]
  PROVE  UNCHANGED Sections!conditional
<1>1. SectionFacts /\ StackFacts /\ SectionFacts' /\ StackFacts'
      /\ iflevel \in Nat /\ skiplevel \in 0 .. iflevel /\ iflevel <= sCOMP_STACK
  BY FactsAround, NestAssumption DEF TypeOK
<1>2. \A k \in 1 .. iflevel : Stack'[k] = Stack[k]
  <2> TAKE k \in 1 .. iflevel
  <2>1. k \in 1 .. iflevel' /\ (k > skiplevel <=> k > skiplevel')
    OBVIOUS
  <2>2. k <= skiplevel => k # iflevel /\ k \in 1 .. sCOMP_STACK
    BY <1>1, NestAssumption
  <2> QED
    BY <2>1, <2>2, SameMode
<1>3. Stack' = Stack
  BY <1>1, <1>2, SeqEqual DEF StackFacts
<1> QED
  BY <1>3, Zenon DEF Sections!conditional, Stack

(* If the innermost section is the one that counts, its mode changes with    *)
(* its bits, and nothing else does.                                          *)
LEMMA TurnSeen ==
  ASSUME TypeOK, [Next]_vars, 0 < iflevel, skiplevel = iflevel,
         UNCHANGED <<iflevel, skiplevel, saved>>,
         \A k \in 1 .. sCOMP_STACK : k # iflevel => ifstack'[k] = ifstack[k]
  PROVE  /\ Stack' = [Stack EXCEPT ![Len(Stack)] = Stack'[iflevel]]
         /\ Len(Stack) = iflevel
         /\ Stack[iflevel] \in Sections!Modes \ {"dead"}
         /\ Stack'[iflevel] \in Sections!Modes \ {"dead"}
         /\ PARSEMODE \in ifstack[iflevel] <=> Stack[iflevel] \in {"parse", "done"}
         /\ SKIPMODE \in ifstack[iflevel] <=> Stack[iflevel] \in {"skip", "done"}
         /\ PARSEMODE \in ifstack'[iflevel] <=> Stack'[iflevel] \in {"parse", "done"}
         /\ SKIPMODE \in ifstack'[iflevel] <=> Stack'[iflevel] \in {"skip", "done"}
<1>1. SectionFacts /\ StackFacts /\ SectionFacts' /\ StackFacts'
      /\ iflevel \in Nat /\ iflevel <= sCOMP_STACK
  BY FactsAround, NestAssumption DEF TypeOK
<1>2. PICK top \in Nat : top = iflevel
  BY <1>1
<1>3. \A k \in 1 .. iflevel : k # iflevel => Stack'[k] = Stack[k]
  <2> TAKE k \in 1 .. iflevel
  <2> HAVE k # iflevel
  <2>1. k \in 1 .. iflevel' /\ (k > skiplevel <=> k > skiplevel')
    OBVIOUS
  <2>2. k \in 1 .. sCOMP_STACK
    BY <1>1, NestAssumption
  <2> QED
    BY <2>1, <2>2, SameMode
<1>4. Stack[top] = ModeOf(top) /\ Stack'[top] = ModeOf(top)' /\ top \in 1 .. iflevel
  BY <1>1, <1>2 DEF StackFacts
<1>5. Stack[top] \in Sections!Modes \ {"dead"} /\ Stack'[top] \in Sections!Modes \ {"dead"}
  BY <1>1, <1>2, <1>4 DEF SectionFacts
<1>6. Stack' = [Stack EXCEPT ![top] = Stack'[top]]
  BY <1>1, <1>2, <1>3, <1>4, <1>5, ExceptEqual DEF StackFacts
<1>7. /\ PARSEMODE \in ifstack[top] <=> Stack[top] \in {"parse", "done"}
      /\ SKIPMODE \in ifstack[top] <=> Stack[top] \in {"skip", "done"}
      /\ PARSEMODE \in ifstack'[top] <=> Stack'[top] \in {"parse", "done"}
      /\ SKIPMODE \in ifstack'[top] <=> Stack'[top] \in {"skip", "done"}
  BY <1>1, <1>2, <1>4 DEF SectionFacts
<1> QED
  BY <1>1, <1>2, <1>5, <1>6, <1>7 DEF StackFacts

(* #elseif is live only if nothing was live in its section before.           *)
LEMMA ElseIfTurns ==
  ASSUME TypeOK, LevelsAgree, DoElseIf, ~crossed'
  PROVE  \/ \E v \in BOOLEAN : Sections!TurnElseIf(v)
         \/ UNCHANGED Sections!conditional
<1> [Next]_vars
  BY DEF Next
<1>1. ~crossed /\ (saved = <<>> \/ iflevel > Lowest)
  BY OwnSection DEF DoElseIf
<1>2. UNCHANGED <<iflevel, skiplevel, saved>> /\ 0 < iflevel
  BY DEF DoElseIf, input
<1>3. \A k \in 1 .. sCOMP_STACK : k # iflevel => ifstack'[k] = ifstack[k]
  BY NestAssumption DEF DoElseIf, SetMode, TypeOK
<1>4. CASE skiplevel < iflevel
  BY <1>1, <1>2, <1>3, <1>4, TurnUnseen
<1>5. CASE skiplevel = iflevel
  <2> DEFINE m == Stack'[iflevel]
  <2>1. Sections!Own
    BY <1>1, <1>2, OwnIsOpened DEF Lowest
  <2>2. PICK v \in BOOLEAN :
          ifstack'[iflevel] = IF PARSEMODE \in ifstack[iflevel]
                              THEN ifstack[iflevel] \union {SKIPMODE}
                              ELSE {IF v THEN PARSEMODE ELSE SKIPMODE}
    <3>1. iflevel \in 1 .. sCOMP_STACK
      BY <1>2, NestAssumption DEF TypeOK
    <3>2. CASE PARSEMODE \in ifstack[iflevel]
      <4>1. ifstack' = [ifstack EXCEPT ![iflevel] = ifstack[iflevel] \union {SKIPMODE}]
        BY <3>2, Zenon DEF DoElseIf, SetMode
      <4> QED
        BY <3>1, <3>2, <4>1 DEF TypeOK
    <3>3. CASE PARSEMODE \notin ifstack[iflevel]
      <4>1. PICK val \in BOOLEAN :
              ifstack' = [ifstack EXCEPT ![iflevel] = {IF val THEN PARSEMODE ELSE SKIPMODE}]
        BY <3>3, Zenon DEF DoElseIf, SetMode
      <4> QED
        BY <3>1, <3>3, <4>1 DEF TypeOK
    <3> QED
      BY <3>2, <3>3
  <2>3. /\ Stack' = [Stack EXCEPT ![Len(Stack)] = m]
        /\ Len(Stack) = iflevel
        /\ Stack[iflevel] \in Sections!Modes \ {"dead"}
        /\ m \in Sections!Modes \ {"dead"}
        /\ PARSEMODE \in ifstack[iflevel] <=> Stack[iflevel] \in {"parse", "done"}
        /\ SKIPMODE \in ifstack[iflevel] <=> Stack[iflevel] \in {"skip", "done"}
        /\ PARSEMODE \in ifstack'[iflevel] <=> m \in {"parse", "done"}
        /\ SKIPMODE \in ifstack'[iflevel] <=> m \in {"skip", "done"}
    BY <1>2, <1>3, <1>5, TurnSeen
  <2>4. /\ Stack[iflevel] = "skip" => m = IF v THEN "parse" ELSE "skip"
        /\ Stack[iflevel] \in {"parse", "done"} => m = "done"
    BY <2>2, <2>3 DEF Sections!Modes, PARSEMODE, SKIPMODE
  <2>5. Sections!Change(m)
    BY <2>3, Zenon DEF Sections!Change, Stack
  <2>6. Sections!TurnElseIf(v)
    <3>1. UNCHANGED <<saved, ~crossed>>
      BY <1>1, <1>2
    <3> HIDE DEF m
    <3> DEFINE top == Stack[Len(Stack)]
    <3>2. /\ top \in Sections!Modes \ {"dead"}
          /\ top = "skip" => m = IF v THEN "parse" ELSE "skip"
          /\ top \in {"parse", "done"} => m = "done"
      BY <2>3, <2>4
    <3> DEFINE Turned == CASE top = "skip" -> m = IF v THEN "parse" ELSE "skip"
                           [] top \in {"parse", "done"} -> m = "done"
                           [] top = "else" -> TRUE
                           [] top = "dead" -> FALSE
    <3> HIDE DEF top
    <3>3. Turned
      BY <3>2 DEF Sections!Modes
    <3> QED
      BY <2>1, <2>3, <2>5, <3>1, <3>3, Zenon DEF Sections!TurnElseIf, Stack, top
  <2> QED
    BY <2>6
<1> QED
  BY <1>2, <1>4, <1>5, NestAssumption DEF TypeOK

(* #else is live if nothing was live in its section before.                  *)
LEMMA ElseTurns ==
  ASSUME TypeOK, LevelsAgree, DoElse, ~crossed'
  PROVE  Sections!TurnElse \/ UNCHANGED Sections!conditional
<1> [Next]_vars
  BY DEF Next
<1>1. ~crossed /\ (saved = <<>> \/ iflevel > Lowest)
  BY OwnSection DEF DoElse
<1>2. UNCHANGED <<iflevel, skiplevel, saved>> /\ 0 < iflevel
  BY DEF DoElse, input
<1>3. \A k \in 1 .. sCOMP_STACK : k # iflevel => ifstack'[k] = ifstack[k]
  BY NestAssumption DEF DoElse, SetMode, TypeOK
<1>4. CASE skiplevel < iflevel
  BY <1>1, <1>2, <1>3, <1>4, TurnUnseen
<1>5. CASE skiplevel = iflevel
  <2> DEFINE m == Stack'[iflevel]
  <2> DEFINE top == Stack[Len(Stack)]
  <2>1. Sections!Own
    BY <1>1, <1>2, OwnIsOpened DEF Lowest
  <2>2. ifstack'[iflevel] = IF PARSEMODE \in ifstack[iflevel]
                            THEN ifstack[iflevel] \union {SKIPMODE}
                            ELSE ifstack[iflevel] \ {SKIPMODE}
    <3>1. iflevel \in 1 .. sCOMP_STACK
      BY <1>2, NestAssumption DEF TypeOK
    <3> QED
      BY <3>1 DEF DoElse, SetMode, TypeOK
  <2>3. /\ Stack' = [Stack EXCEPT ![Len(Stack)] = m]
        /\ Len(Stack) = iflevel
        /\ Stack[iflevel] \in Sections!Modes \ {"dead"}
        /\ m \in Sections!Modes \ {"dead"}
        /\ PARSEMODE \in ifstack[iflevel] <=> Stack[iflevel] \in {"parse", "done"}
        /\ SKIPMODE \in ifstack[iflevel] <=> Stack[iflevel] \in {"skip", "done"}
        /\ PARSEMODE \in ifstack'[iflevel] <=> m \in {"parse", "done"}
        /\ SKIPMODE \in ifstack'[iflevel] <=> m \in {"skip", "done"}
    BY <1>2, <1>3, <1>5, TurnSeen
  <2>4. /\ top \in Sections!Modes \ {"dead"}
        /\ top = "skip" => m = "else"
        /\ top \in {"parse", "done"} => m = "done"
    BY <2>2, <2>3 DEF Sections!Modes, PARSEMODE, SKIPMODE
  <2>5. Sections!Change(m)
    BY <2>3, Zenon DEF Sections!Change, Stack
  <2>6. UNCHANGED <<saved, ~crossed>>
    BY <1>1, <1>2
  <2> DEFINE Turned == CASE top = "skip" -> m = "else"
                         [] top \in {"parse", "done"} -> m = "done"
                         [] top = "else" -> TRUE
                         [] top = "dead" -> FALSE
  <2> HIDE DEF m, top
  <2>7. Turned
    BY <2>4 DEF Sections!Modes
  <2> QED
    BY <2>1, <2>3, <2>5, <2>6, <2>7, Zenon DEF Sections!TurnElse, Stack, top
<1> QED
  BY <1>2, <1>4, <1>5, NestAssumption DEF TypeOK

(* #endif closes the innermost section, which the file itself has opened.   *)
LEMMA EndIfCloses ==
  ASSUME TypeOK, LevelsAgree, DoEndIf, ~crossed'
  PROVE  Sections!EndSection
<1> [Next]_vars
  BY DEF Next
<1>1. ~crossed /\ (saved = <<>> \/ iflevel > Lowest)
  BY OwnSection DEF DoEndIf
<1>2. /\ SectionFacts /\ StackFacts /\ SectionFacts' /\ StackFacts'
      /\ iflevel \in Nat /\ skiplevel \in 0 .. iflevel
  BY FactsAround
<1>3. /\ UNCHANGED <<saved, ifstack>> /\ 0 < iflevel /\ iflevel' = iflevel - 1
      /\ skiplevel' = IF iflevel - 1 < skiplevel THEN iflevel - 1 ELSE skiplevel
  BY DEF DoEndIf, input
<1>4. Sections!Own
  BY <1>1, <1>2, <1>3, OwnIsOpened DEF Lowest
<1>5. \A k \in 1 .. iflevel' : Stack'[k] = Stack[k]
  <2> TAKE k \in 1 .. iflevel'
  <2>1. k \in 1 .. iflevel /\ (k > skiplevel <=> k > skiplevel')
    BY <1>2, <1>3
  <2> QED
    BY <1>3, <2>1, SameMode
<1>6. Stack' = SubSeq(Stack, 1, Len(Stack'))
  BY <1>2, <1>3, <1>5, PrefixEqual DEF StackFacts
<1>7. Stack' = SubSeq(Stack, 1, Len(Stack) - 1)
  BY <1>2, <1>3, <1>6 DEF StackFacts
<1>8. UNCHANGED <<saved, ~crossed>>
  BY <1>1, <1>3
<1> QED
  BY <1>4, <1>7, <1>8, Zenon DEF Sections!EndSection, Stack

(* #include in a live line.                                                 *)
LEMMA IncludeEnters ==
  ASSUME TypeOK, LevelsAgree, DoInclude, ~crossed
  PROVE  Sections!EnterFile
<1>1. Sections!Live(Stack) /\ Len(Stack) = iflevel
  BY LiveIsNotSkipping, StackIsSequence DEF DoInclude, StackFacts
<1>2. UNCHANGED levels /\ UNCHANGED ~crossed /\ saved' = Append(saved, iflevel)
  BY DEF DoInclude
<1>3. Stack' = Stack
  BY <1>2 DEF levels, Stack, ModeOf
<1> QED
  BY <1>1, <1>2, <1>3, Zenon DEF Sections!EnterFile, Stack

(* At the end of an include file the sections are those that were open when *)
(* it was included, all of them live.                                       *)
LEMMA EndIncludeLeaves ==
  ASSUME TypeOK, SavedInv, EndInclude, ~crossed
  PROVE  Sections!LeaveFile
<1> [Next]_vars
  BY DEF Next
<1>1. /\ SectionFacts /\ StackFacts /\ SectionFacts' /\ StackFacts'
      /\ iflevel \in Nat /\ skiplevel \in 0 .. iflevel
  BY FactsAround
<1>2. /\ saved # <<>> /\ saved' = SubSeq(saved, 1, Len(saved) - 1)
      /\ iflevel' = Lowest /\ skiplevel' = Lowest /\ UNCHANGED <<ifstack, ~crossed>>
  BY DEF EndInclude
<1>3. Lowest \in 0 .. skiplevel
  <2>1. Len(saved) \in 1 .. Len(saved)
    BY <1>2 DEF TypeOK
  <2> QED
    BY <2>1, SavedBelowLowest, OwnIsOpened
<1>4. \A k \in 1 .. iflevel' : Stack'[k] = Stack[k]
  BY <1>1, <1>2, <1>3, SameMode
<1>5. Stack' = SubSeq(Stack, 1, Lowest)
  BY <1>1, <1>2, <1>3, <1>4, PrefixEqual DEF StackFacts
<1>6. Sections!Opened = Lowest
  BY OwnIsOpened
<1> QED
  BY <1>2, <1>5, <1>6, Zenon DEF Sections!LeaveFile, Stack

(* The history: once an include file has touched a section of its including *)
(* file it is never forgotten, and only a line that does so is remembered,  *)
(* or the end of a file that leads elsewhere.                               *)
LEMMA CrossedKept ==
  ASSUME TypeOK, [Next]_vars
  PROVE  /\ crossed => crossed'
         /\ ~crossed /\ crossed' => LoseFile \/ (saved # <<>> /\ ~(iflevel > Lowest))
<1>1. CASE DoElseIf \/ DoElse \/ DoEndIf
  <2>1. Crosses
    BY <1>1, Zenon DEF DoElseIf, DoElse, DoEndIf
  <2>2. CASE saved # <<>> /\ iflevel <= Lowest
    <3>1. crossed'
      BY <2>1, <2>2, Zenon DEF Crosses
    <3> QED
      BY <2>2, <3>1, OwnIsOpened, NestAssumption DEF TypeOK
  <2>3. CASE ~(saved # <<>> /\ iflevel <= Lowest)
    BY <2>1, <2>3, Zenon DEF Crosses
  <2> QED
    BY <2>2, <2>3
<1>2. CASE UNCHANGED crossed
  BY <1>2
<1>3. CASE LoseFile
  <2>1. crossed'
    <3>1. crossed' = TRUE
      BY <1>3 DEF LoseFile
    <3> QED
      BY <3>1
  <2> QED
    BY <1>3, <2>1, Zenon
<1>4. CASE ~(DoElseIf \/ DoElse \/ DoEndIf) /\ ~LoseFile
  BY <1>2, <1>4, Zenon
  DEF Next, vars, DoIf, DoIfOverflow, NoMatchingIf, DoInclude, EndInput, EndInclude, EndMain
<1> QED
  BY <1>1, <1>3, <1>4

(* The end of a file that readline() cannot take for what it is.             *)
LEMMA LoseFileLoses ==
  ASSUME LoseFile
  PROVE  Sections!LoseFile
<1>1. ~(~crossed)'
  BY DEF LoseFile
<1>2. CASE UNCHANGED <<iflevel, skiplevel, saved, ifstack>>
  BY <1>1, <1>2 DEF Sections!LoseFile, ModeOf
<1>3. CASE \E n \in 0 .. Len(saved) - 1 : saved' = SubSeq(saved, 1, n)
  BY <1>1, <1>3, Zenon DEF Sections!LoseFile
<1> QED
  BY <1>2, <1>3 DEF LoseFile

(* Every line, and every end of a file, is a step of Conditional or none.    *)
LEMMA StepOfSections ==
  ASSUME TypeOK, LevelsAgree, SavedInv, [Next]_vars
  PROVE  [Sections!ConditionalNext]_(Sections!conditional)
<1> USE DEF Sections!ConditionalNext
<1>1. CASE crossed
  BY <1>1, CrossedKept
<1>2. CASE ~crossed /\ crossed'
  <2>1. CASE saved # <<>> /\ ~(iflevel > Lowest)
    BY <1>2, <2>1, OwnIsOpened DEF Sections!Cross
  <2>2. CASE LoseFile
    BY <2>2, LoseFileLoses
  <2> QED
    BY <1>2, <2>1, <2>2, CrossedKept
<1>3. CASE ~crossed /\ ~crossed'
  <2>1. CASE DoIf
    BY <1>3, <2>1, IfOpens
  <2>2. CASE DoElseIf
    BY <1>3, <2>2, ElseIfTurns
  <2>3. CASE DoElse
    BY <1>3, <2>3, ElseTurns
  <2>4. CASE DoEndIf
    BY <1>3, <2>4, EndIfCloses
  <2>5. CASE DoInclude
    BY <1>3, <2>5, IncludeEnters
  <2>6. CASE EndInclude
    BY <1>3, <2>6, EndIncludeLeaves
  <2>7. CASE UNCHANGED <<levels, saved, crossed>>
    BY <2>7 DEF levels, ModeOf, Sections!conditional
  <2>8. CASE DoIfOverflow \/ NoMatchingIf \/ EndInput \/ EndMain \/ UNCHANGED vars
    BY <2>7, <2>8, Zenon DEF DoIfOverflow, NoMatchingIf, EndInput, EndMain, vars, input
  <2>9. ~LoseFile
    <3> SUFFICES ASSUME LoseFile PROVE FALSE
      OBVIOUS
    <3>1. crossed' = TRUE
      BY DEF LoseFile
    <3> QED
      BY <1>3, <3>1
  <2> QED
    BY <2>1, <2>2, <2>3, <2>4, <2>5, <2>6, <2>8, <2>9 DEF Next
<1> QED
  BY <1>1, <1>2, <1>3

-----------------------------------------------------------------------------
(* The theorems *)

(* The three invariants hold together.                                       *)
LEMMA LevelInvariants == Spec => [](TypeOK /\ LevelsAgree /\ SavedInv)
<1>1. Init => TypeOK /\ LevelsAgree /\ SavedInv
  <2> SUFFICES ASSUME Init PROVE TypeOK /\ LevelsAgree /\ SavedInv
    OBVIOUS
  <2>1. TypeOK
    <3>1. inpf \in BOOLEAN /\ freading \in BOOLEAN /\ crossed \in BOOLEAN
      BY Zenon DEF Init
    <3>2. saved \in Seq(0 .. sCOMP_STACK)
      BY EmptySeq, Zenon DEF Init
    <3>3. /\ iflevel \in 0 .. sCOMP_STACK /\ skiplevel \in 0 .. iflevel
          /\ ifstack \in [1 .. sCOMP_STACK -> SUBSET {SKIPMODE, PARSEMODE}]
          /\ msg \in {0, 1, 26, 102}
      BY NestAssumption DEF Init
    <3> QED
      BY <3>1, <3>2, <3>3 DEF TypeOK
  <2>2. LevelsAgree
    BY DEF Init, LevelsAgree
  <2>3. SavedInv
    BY DEF Init, SavedInv
  <2> QED
    BY <2>1, <2>2, <2>3
<1>2. TypeOK /\ LevelsAgree /\ SavedInv /\ [Next]_vars
      => TypeOK' /\ LevelsAgree' /\ SavedInv'
  BY TypeKept, LevelsKept
<1> QED
  BY <1>1, <1>2, PTL DEF Spec

(* Whatever is nested in whatever, iflevel and skiplevel are equal where    *)
(* lines are compiled, and every section around a skipped one is live.      *)
THEOREM LevelsAlwaysAgree == Spec => []LevelsAgree
BY LevelInvariants, PTL

(* For any depth of sections and of include files: command() and readline() *)
(* select the lines that nested #if sections select.                        *)
THEOREM SelectionCorrect == Spec => SelectsLines
<1>1. Init => Sections!ConditionalInit
  <2> SUFFICES ASSUME Init PROVE Sections!ConditionalInit
    OBVIOUS
  <2>1. Stack = <<>>
    BY DEF Init, Stack
  <2>2. saved = <<>> /\ ~crossed = TRUE
    BY DEF Init
  <2> QED
    BY <2>1, <2>2, Zenon DEF Sections!ConditionalInit, Stack
<1>2. TypeOK /\ LevelsAgree /\ SavedInv /\ [Next]_vars
      => [Sections!ConditionalNext]_(Sections!conditional)
  BY StepOfSections
<1> QED
  BY <1>1, <1>2, LevelInvariants, PTL DEF Spec, SelectsLines, Sections!ConditionalSpec
=============================================================================
