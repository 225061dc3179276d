---------------------------- MODULE AmxxpcProofs ----------------------------
(***************************************************************************)
(* What holds of Amxxpc for every number of inputs and every assignment of  *)
(* image paths to them.  FilesInv says what the files on disk are while an  *)
(* input is at work; the properties follow from it.                         *)
(***************************************************************************)
EXTENDS Amxxpc, TLAPS

(* The types, but for the two options.                                      *)
FilesOK ==
  /\ pathOf \in [1 .. Inputs -> Paths]
  /\ pc \in {"start", "compile", "read", "open", "write", "remove", "done"}
  /\ i \in 1 .. Inputs + 1
  /\ amx \in [Paths -> File] /\ amxx \in [Paths -> File]
  /\ loaded \in File
  /\ exit \in {"none", "success", "failure"}

OptionsOK == help \in BOOLEAN /\ keepsAmx \in BOOLEAN

(* The first input comes first, and a running input is one of the inputs.   *)
AtWork ==
  /\ pc = "start" => i = 1
  /\ pc \in {"compile", "read", "open", "write", "remove"} => i \in 1 .. Inputs

(* What an image may become is a file.                                      *)
LEMMA AfterIsFile ==
  ASSUME InputsAssumption, FilesOK, i \in 1 .. Inputs, NEW img \in Outcome!Images
  PROVE  After(img) \in File
<1>1. amx[Here] \in File
  BY DEF FilesOK, Here
<1>2. Absent \in File
  BY DEF Absent, File, States, EarlierRun, InputsAssumption
<1>3. img \in {"partial", "complete", "short"} => [state |-> img, from |-> i] \in File
  BY DEF File, States, EarlierRun, InputsAssumption
<1> QED
  BY <1>1, <1>2, <1>3 DEF After, Outcome!Images

LEMMA TypesKept ==
  ASSUME InputsAssumption, FilesOK, AtWork, [Next]_vars
  PROVE  FilesOK' /\ AtWork'
<1> USE DEF FilesOK, AtWork, InputsAssumption
<1>1. CASE Start
  BY <1>1 DEF Start, Stop, request
<1>2. CASE Compile
  <2>1. pc = "compile" /\ i \in 1 .. Inputs /\ UNCHANGED <<request, amxx, loaded>>
    BY <1>2 DEF Compile
  <2>2. PICK r \in Outcome!Returns, img \in Outcome!Images :
          /\ amx' = [amx EXCEPT ![Here] = After(img)]
          /\ \/ ~Outcome!Succeeded(r) /\ Stop("failure") /\ i' = i
             \/ Outcome!Succeeded(r) /\ i < Inputs /\ i' = i + 1 /\ UNCHANGED <<pc, exit>>
             \/ Outcome!Succeeded(r) /\ i = Inputs /\ keepsAmx /\ Stop("success") /\ i' = i
             \/ /\ Outcome!Succeeded(r) /\ i = Inputs /\ ~keepsAmx
                /\ pc' = "read" /\ i' = 1 /\ exit' = exit
    BY <1>2 DEF Compile
  <2>3. amx' \in [Paths -> File]
    BY <2>1, <2>2, AfterIsFile
  <2>4. \/ pc' = "done" /\ exit' \in {"success", "failure"} /\ i' = i
        \/ i < Inputs /\ i' = i + 1 /\ UNCHANGED <<pc, exit>>
        \/ pc' = "read" /\ i' = 1 /\ exit' = exit
    BY <2>1, <2>2 DEF Stop
  <2>5. pc' # "start" /\ (pc' # "done" => i' \in 1 .. Inputs) /\ i' \in 1 .. Inputs + 1
    BY <2>1, <2>4
  <2> QED
    BY <2>1, <2>3, <2>4, <2>5 DEF request
<1>3. CASE ReadAmx
  BY <1>3 DEF ReadAmx, Throw, Stop, request, Here
<1>4. CASE OpenAmxx
  <2>1. [state |-> "partial", from |-> loaded.from] \in File
    BY DEF File, States
  <2> QED
    BY <1>4, <2>1 DEF OpenAmxx, Throw, Stop, request
<1>5. CASE WriteAmxx
  BY <1>5 DEF WriteAmxx, Throw, Stop, request
<1>6. CASE RemoveAmx
  <2>1. Absent \in File
    BY DEF Absent, File, States, EarlierRun
  <2> QED
    BY <1>6, <2>1 DEF RemoveAmx, Throw, Stop, request
<1>7. CASE UNCHANGED vars
  BY <1>7 DEF vars, request
<1> QED
  BY <1>1, <1>2, <1>3, <1>4, <1>5, <1>6, <1>7 DEF Next

LEMMA RequestKept ==
  ASSUME [Next]_vars
  PROVE  UNCHANGED <<help, keepsAmx, pathOf>>
<1> USE DEF request
<1>1. CASE Start
  BY <1>1 DEF Start
<1>2. CASE Compile
  BY <1>2 DEF Compile
<1>3. CASE ReadAmx
  BY <1>3 DEF ReadAmx, Throw
<1>4. CASE OpenAmxx
  BY <1>4 DEF OpenAmxx, Throw
<1>5. CASE WriteAmxx
  BY <1>5 DEF WriteAmxx, Throw
<1>6. CASE RemoveAmx
  BY <1>6 DEF RemoveAmx, Throw
<1>7. CASE UNCHANGED vars
  BY <1>7 DEF vars
<1> QED
  BY <1>1, <1>2, <1>3, <1>4, <1>5, <1>6, <1>7 DEF Next

LEMMA TypesAtStart == ASSUME InputsAssumption, Init PROVE FilesOK /\ AtWork /\ OptionsOK
<1>1. Absent \in File /\ Leftover \in File
  BY DEF Absent, Leftover, File, States, EarlierRun, InputsAssumption
<1>2. FilesOK /\ AtWork
  BY <1>1 DEF Init, FilesOK, AtWork, InputsAssumption
<1>3. OptionsOK
  BY Zenon DEF Init, OptionsOK
<1> QED
  BY <1>2, <1>3

(* The files, the index and the exit code keep their types; the index is    *)
(* that of an input whenever one is at work.                                *)
THEOREM TypeCorrect == Spec => []TypeOK
<1>1. Init => FilesOK /\ AtWork /\ OptionsOK
  BY TypesAtStart, InputsAssumption
<1>2. FilesOK /\ AtWork /\ [Next]_vars => FilesOK' /\ AtWork'
  BY TypesKept, InputsAssumption
<1>3. OptionsOK /\ [Next]_vars => OptionsOK'
  BY RequestKept, Zenon DEF OptionsOK
<1>4. FilesOK /\ OptionsOK => TypeOK
  BY Zenon DEF FilesOK, OptionsOK, TypeOK
<1> QED
  BY <1>1, <1>2, <1>3, <1>4, PTL DEF Spec

-----------------------------------------------------------------------------
(* A successful compilation with an image makes the file of its input, and  *)
(* leaves the files of other paths alone.                                   *)
LEMMA CompiledImage ==
  ASSUME InputsAssumption, FilesOK, i \in 1 .. Inputs, pathOf' = pathOf, ~keepsAmx,
         NEW r, NEW img \in Outcome!Images, Outcome!Succeeded(r),
         Outcome!Promise(IF keepsAmx THEN "asm" ELSE "image", r, img),
         amx' = [amx EXCEPT ![Here] = After(img)],
         \A k \in 1 .. i - 1 : MadeFor(amx, k)
  PROVE  \A k \in 1 .. i : MadeFor(amx, k)'
<1>1. img \in Outcome!Assembled
  BY Zenon DEF Outcome!Promise
<1>2. After(img) = [state |-> img, from |-> i]
  BY <1>1 DEF After, Outcome!Assembled
<1>3. TAKE k \in 1 .. i
<1>4. k \in 1 .. Inputs
  BY DEF InputsAssumption
<1>5. CASE pathOf[k] = Here
  <2>1. amx'[pathOf[k]] = [state |-> img, from |-> i]
    BY <1>2, <1>4, <1>5 DEF FilesOK
  <2> QED
    BY <2>1, <1>1, <1>5 DEF MadeFor, Here
<1>6. CASE pathOf[k] # Here
  <2>1. k \in 1 .. i - 1
    BY <1>6 DEF Here
  <2>2. amx'[pathOf[k]] = amx[pathOf[k]]
    BY <1>4, <1>6 DEF FilesOK
  <2> QED
    BY <2>1, <2>2 DEF MadeFor
<1> QED
  BY <1>5, <1>6

(* An input whose image could be read has a path no input before it had.    *)
LEMMA FreshPath ==
  ASSUME FilesOK, FilesInv, pc \in {"open", "write", "remove"}
  PROVE  /\ \A k \in 1 .. i - 1 : pathOf[k] # Here
         /\ MadeFor(amx, i)
<1>1. amx[Here] # Absent /\ i \in 1 .. Inputs /\ Built(i - 1)
  BY DEF FilesInv, LoadedInv, PackageInv
<1>2. \A k \in 1 .. i - 1 : pathOf[k] # Here
  BY <1>1 DEF Built
<1>3. MadeFor(amx, i)
  BY <1>1 DEF FilesInv, PackageInv, Here, InputsAssumption, FilesOK
<1> QED
  BY <1>2, <1>3

(* Writing the package of an input leaves the finished ones alone.          *)
LEMMA BuiltKept ==
  ASSUME InputsAssumption, FilesOK, FilesInv, pc \in {"open", "write"}, NEW file,
         amxx' = [amxx EXCEPT ![Here] = file], UNCHANGED <<pathOf, i, amx>>
  PROVE  Built(i - 1)'
<1>1. Built(i - 1) /\ i \in 1 .. Inputs
  BY DEF FilesInv, PackageInv
<1>2. ASSUME NEW k \in 1 .. i - 1
      PROVE  amxx'[pathOf[k]] = amxx[pathOf[k]]
  BY <1>1, FreshPath DEF FilesOK, InputsAssumption
<1> QED
  BY <1>1, <1>2 DEF Built, MadeFor

(* With its image removed one more input is built.                          *)
LEMMA OneMoreBuilt ==
  ASSUME InputsAssumption, FilesOK, FilesInv, pc = "remove",
         amx' = [amx EXCEPT ![Here] = Absent], UNCHANGED <<pathOf, amxx>>
  PROVE  /\ \A k \in 1 .. i : MadeFor(amxx, k)' /\ amx'[pathOf[k]] = Absent
         /\ \A k, l \in 1 .. i : pathOf[k] = pathOf[l] => k = l
         /\ \A k \in i + 1 .. Inputs : amx'[pathOf[k]] = Absent \/ MadeFor(amx, k)'
<1>1. Built(i - 1) /\ i \in 1 .. Inputs
  BY DEF FilesInv, PackageInv
<1>2. amxx[Here] = amx[Here] /\ MadeFor(amx, i) /\ \A k \in 1 .. i - 1 : pathOf[k] # Here
  BY FreshPath DEF FilesInv, LoadedInv
<1>3. MadeFor(amxx, i)
  BY <1>2 DEF MadeFor, Here
<1>4. \A k \in 1 .. Inputs : amx'[pathOf[k]] = IF pathOf[k] = Here THEN Absent ELSE amx[pathOf[k]]
  BY DEF FilesOK
<1>5. ASSUME NEW k \in 1 .. i PROVE MadeFor(amxx, k)' /\ amx'[pathOf[k]] = Absent
  <2>1. CASE k = i
    BY <1>1, <1>3, <1>4, <2>1 DEF MadeFor, Here
  <2>2. CASE k \in 1 .. i - 1
    BY <1>1, <1>4, <2>2 DEF MadeFor, Built, InputsAssumption
  <2> QED
    BY <1>1, <2>1, <2>2
<1>6. ASSUME NEW k \in 1 .. i, NEW l \in 1 .. i, pathOf[k] = pathOf[l] PROVE k = l
  BY <1>1, <1>2, <1>6 DEF Built, Here
<1>7. ASSUME NEW k \in i + 1 .. Inputs PROVE amx'[pathOf[k]] = Absent \/ MadeFor(amx, k)'
  <2>1. k \in 1 .. Inputs /\ (amx[pathOf[k]] = Absent \/ MadeFor(amx, k))
    BY <1>1 DEF FilesInv, PackageInv, InputsAssumption
  <2>2. CASE pathOf[k] = Here
    BY <2>1, <2>2, <1>4
  <2>3. CASE pathOf[k] # Here
    BY <2>1, <2>3, <1>4 DEF MadeFor
  <2> QED
    BY <2>2, <2>3
<1> QED
  BY <1>5, <1>6, <1>7

(* An exception ends the run with a failure, and nothing is claimed of it.  *)
LEMMA FailureClaimsNothing ==
  ASSUME pc' = "done", exit' = "failure" PROVE FilesInv'
BY DEF FilesInv, CompileInv, PackageInv, LoadedInv, ExitInv

LEMMA FilesInvKept ==
  ASSUME InputsAssumption, FilesOK, AtWork, OptionsOK, FilesInv, [Next]_vars
  PROVE  FilesInv'
<1>1. UNCHANGED <<help, keepsAmx, pathOf>>
  BY RequestKept
<1>2. FilesOK' /\ AtWork'
  BY TypesKept
<1>3. CASE Start
  <2>1. CASE pc' = "compile" /\ exit' = exit
    <3>1. i' = 1 /\ pc = "start"
      BY <1>3 DEF Start, AtWork
    <3> QED
      BY <2>1, <3>1, <1>2 DEF FilesInv, CompileInv, PackageInv, LoadedInv, ExitInv, AtWork
  <2>2. CASE Stop("failure")
    BY <2>2, FailureClaimsNothing DEF Stop
  <2>3. CASE help /\ Stop("success")
    BY <1>1, <2>3 DEF Stop, FilesInv, CompileInv, PackageInv, LoadedInv, ExitInv
  <2> QED
    BY <1>3, <2>1, <2>2, <2>3 DEF Start
<1>4. CASE Compile
  <2>1. pc = "compile" /\ i \in 1 .. Inputs /\ exit = "none"
    BY <1>4 DEF Compile, AtWork, FilesInv, ExitInv
  <2>2. PICK r \in Outcome!Returns, img \in Outcome!Images :
          /\ Outcome!Promise(IF keepsAmx THEN "asm" ELSE "image", r, img)
          /\ amx' = [amx EXCEPT ![Here] = After(img)]
          /\ \/ ~Outcome!Succeeded(r) /\ Stop("failure") /\ i' = i
             \/ Outcome!Succeeded(r) /\ i < Inputs /\ i' = i + 1 /\ UNCHANGED <<pc, exit>>
             \/ Outcome!Succeeded(r) /\ i = Inputs /\ keepsAmx /\ Stop("success") /\ i' = i
             \/ /\ Outcome!Succeeded(r) /\ i = Inputs /\ ~keepsAmx
                /\ pc' = "read" /\ i' = 1 /\ exit' = exit
    BY <1>4 DEF Compile
  <2>3. ~keepsAmx /\ Outcome!Succeeded(r) => \A k \in 1 .. i : MadeFor(amx, k)'
    BY <2>1, <2>2, <1>1, CompiledImage DEF FilesInv, CompileInv
  <2>4. CASE Stop("failure")
    BY <2>4, FailureClaimsNothing DEF Stop
  <2>5. CASE Outcome!Succeeded(r) /\ i < Inputs /\ i' = i + 1 /\ UNCHANGED <<pc, exit>>
    <3>1. ~keepsAmx => \A k \in 1 .. i' - 1 : MadeFor(amx, k)'
      BY <2>1, <2>3, <2>5
    <3> QED
      BY <3>1, <2>1, <2>5, <1>1, <1>2 DEF FilesInv, CompileInv, PackageInv, LoadedInv, ExitInv, AtWork
  <2>6. CASE keepsAmx /\ Stop("success")
    BY <1>1, <2>6 DEF Stop, FilesInv, CompileInv, PackageInv, LoadedInv, ExitInv
  <2>7. CASE /\ Outcome!Succeeded(r) /\ i = Inputs /\ ~keepsAmx
             /\ pc' = "read" /\ i' = 1 /\ exit' = exit
    <3>1. \A k \in i' .. Inputs : MadeFor(amx, k)'
      BY <2>3, <2>7
    <3>2. Built(i - 1)'
      BY <2>7 DEF Built
    <3> QED
      BY <3>1, <3>2, <2>1, <2>7, <1>1, <1>2
      DEF FilesInv, CompileInv, PackageInv, LoadedInv, ExitInv, AtWork
  <2> QED
    BY <2>2, <2>4, <2>5, <2>6, <2>7
<1>5. CASE ReadAmx
  <2>1. CASE Throw
    BY <2>1, FailureClaimsNothing DEF Throw, Stop
  <2>2. CASE /\ pc = "read" /\ amx[Here] # Absent
             /\ loaded' = amx[Here] /\ pc' = "open"
             /\ UNCHANGED <<request, i, amx, amxx, exit>>
    <3>1. LoadedInv'
      BY <2>2, <1>1 DEF LoadedInv, Here
    <3>2. PackageInv'
      BY <2>2, <1>1 DEF FilesInv, PackageInv, Built, MadeFor
    <3>3. CompileInv' /\ ExitInv'
      BY <2>2, <1>1 DEF FilesInv, CompileInv, ExitInv
    <3> QED
      BY <3>1, <3>2, <3>3 DEF FilesInv
  <2> QED
    BY <1>5, <2>1, <2>2 DEF ReadAmx
<1>6. ASSUME NEW file, NEW next \in {"write", "remove"}, pc \in {"open", "write"}, pc' = next,
             amxx' = [amxx EXCEPT ![Here] = file], next = "remove" => file = loaded,
             UNCHANGED <<i, amx, loaded, exit>>
      PROVE  FilesInv'
  <2>1. Built(i - 1)'
    BY <1>1, <1>6, BuiltKept
  <2>2. PackageInv'
    BY <2>1, <1>1, <1>6 DEF FilesInv, PackageInv, MadeFor
  <2>3. Here' = Here /\ Here \in Paths
    BY <1>1, <1>6 DEF Here, FilesOK, FilesInv, PackageInv
  <2>4. LoadedInv'
    BY <2>3, <1>6 DEF FilesInv, LoadedInv, FilesOK
  <2>5. CompileInv' /\ ExitInv'
    BY <1>6 DEF FilesInv, CompileInv, ExitInv
  <2> QED
    BY <2>2, <2>4, <2>5 DEF FilesInv
<1>7. CASE OpenAmxx
  BY <1>6, <1>7, FailureClaimsNothing DEF OpenAmxx, Throw, Stop
<1>8. CASE WriteAmxx
  BY <1>6, <1>8, FailureClaimsNothing DEF WriteAmxx, Throw, Stop
<1>9. CASE RemoveAmx
  <2>1. CASE Throw
    BY <2>1, FailureClaimsNothing DEF Throw, Stop
  <2>2. CASE /\ pc = "remove" /\ amx' = [amx EXCEPT ![Here] = Absent] /\ i' = i + 1
             /\ IF i < Inputs THEN pc' = "read" /\ exit' = exit ELSE Stop("success")
             /\ UNCHANGED <<request, amxx, loaded>>
    <3>1. i \in 1 .. Inputs /\ ~keepsAmx /\ exit = "none"
      BY <2>2 DEF FilesInv, PackageInv, ExitInv
    <3>2. /\ \A k \in 1 .. i : MadeFor(amxx, k)' /\ amx'[pathOf[k]] = Absent
          /\ \A k, l \in 1 .. i : pathOf[k] = pathOf[l] => k = l
          /\ \A k \in i + 1 .. Inputs : amx'[pathOf[k]] = Absent \/ MadeFor(amx, k)'
      BY <2>2, <1>1, OneMoreBuilt
    <3>3. CASE i < Inputs /\ pc' = "read" /\ exit' = exit
      <4>1. Built(i - 1)'
        BY <3>1, <3>2, <2>2, <1>1 DEF Built
      <4>2. i' \in 1 .. Inputs
        BY <3>1, <3>3, <2>2 DEF InputsAssumption
      <4> QED
        BY <4>1, <4>2, <3>1, <3>2, <3>3, <2>2, <1>1
        DEF FilesInv, CompileInv, PackageInv, LoadedInv, ExitInv
    <3>4. CASE i = Inputs /\ Stop("success")
      <4>1. Built(Inputs)'
        BY <3>2, <3>4, <1>1 DEF Built
      <4> QED
        BY <4>1, <3>4 DEF Stop, FilesInv, CompileInv, PackageInv, LoadedInv, ExitInv
    <3> QED
      BY <2>2, <3>1, <3>3, <3>4 DEF InputsAssumption
  <2> QED
    BY <1>9, <2>1, <2>2 DEF RemoveAmx
<1>10. CASE UNCHANGED vars
  BY <1>10 DEF vars, request, FilesInv, CompileInv, PackageInv, LoadedInv, ExitInv, Built, MadeFor, Here
<1> QED
  BY <1>3, <1>4, <1>5, <1>7, <1>8, <1>9, <1>10 DEF Next

(* FilesInv holds throughout.                                               *)
LEMMA FilesInvHolds == Spec => [](FilesOK /\ AtWork /\ OptionsOK /\ FilesInv)
<1> DEFINE Inv == FilesOK /\ AtWork /\ OptionsOK /\ FilesInv
<1>1. Init => Inv
  <2>1. Init => FilesInv
    BY DEF Init, FilesInv, CompileInv, PackageInv, LoadedInv, ExitInv
  <2> QED
    BY <2>1, TypesAtStart, InputsAssumption
<1>2. Inv /\ [Next]_vars => Inv'
  <2>1. OptionsOK /\ [Next]_vars => OptionsOK'
    BY RequestKept, Zenon DEF OptionsOK
  <2> QED
    BY <2>1, TypesKept, FilesInvKept, InputsAssumption
<1> QED
  BY <1>1, <1>2, PTL DEF Spec

(* When the process reports success every input has a package made from     *)
(* that very input, whatever images the inputs share: application.cpp       *)
(* cannot report success if two of them do.                                 *)
THEOREM SuccessCorrect == Spec => []SuccessBuildsAll
<1>1. FilesOK /\ FilesInv => SuccessBuildsAll
  <2> SUFFICES ASSUME FilesOK, FilesInv, Packaged, NEW k \in 1 .. Inputs
               PROVE  /\ amxx[pathOf[k]].state \in Outcome!Assembled
                      /\ amxx[pathOf[k]].from = k
                      /\ amx[pathOf[k]] = Absent
    BY DEF SuccessBuildsAll
  <2>1. Built(Inputs)
    BY Zenon DEF FilesInv, ExitInv, Packaged
  <2>2. MadeFor(amxx, k) /\ amx[pathOf[k]] = Absent
    BY <2>1 DEF Built
  <2>3. PICK j \in 1 .. Inputs : pathOf[j] = pathOf[k] /\ amxx[pathOf[k]].from = j
    BY <2>2 DEF MadeFor
  <2>4. j = k
    BY <2>1, <2>3 DEF Built
  <2> QED
    BY <2>2, <2>3, <2>4 DEF MadeFor
<1> QED
  BY <1>1, FilesInvHolds, PTL

(* Packages of an earlier run are only touched when every image that is     *)
(* still to be packaged is of this run.                                     *)
THEOREM OldPackagesSafe == Spec => OldPackagesKept
<1>1. FilesOK /\ FilesInv /\ [Next]_vars =>
        [amxx' # amxx => \A k \in i .. Inputs :
           amx[pathOf[k]] = Absent \/ amx[pathOf[k]].from # EarlierRun]_vars
  <2> SUFFICES ASSUME FilesOK, FilesInv, Next, amxx' # amxx, NEW k \in i .. Inputs
               PROVE  amx[pathOf[k]] = Absent \/ amx[pathOf[k]].from # EarlierRun
    BY DEF vars
  <2>1. pc \in {"open", "write"}
    BY DEF Next, Start, Compile, ReadAmx, OpenAmxx, WriteAmxx, RemoveAmx, Throw
  <2>2. amx[pathOf[k]] = Absent \/ MadeFor(amx, k)
    BY <2>1 DEF FilesInv, PackageInv
  <2> QED
    BY <2>2 DEF MadeFor, EarlierRun, InputsAssumption
<1> QED
  BY <1>1, FilesInvHolds, PTL DEF Spec, OldPackagesKept

(* The packager removes an image only when its package holds all of it.     *)
THEOREM ImagesNotLost == Spec => NothingLost
<1>1. FilesOK /\ FilesInv /\ [Next]_vars =>
        [\A p \in Paths : pc = "remove" /\ amx'[p] # amx[p] => amxx[p] = amx[p]]_vars
  <2> SUFFICES ASSUME FilesOK, FilesInv, Next, NEW p \in Paths, pc = "remove", amx'[p] # amx[p]
               PROVE  amxx[p] = amx[p]
    BY DEF vars
  <2>1. amx' = [amx EXCEPT ![Here] = Absent]
    BY DEF Next, Start, Compile, ReadAmx, OpenAmxx, WriteAmxx, RemoveAmx, Throw
  <2>2. p = Here
    BY <2>1 DEF FilesOK
  <2> QED
    BY <2>2 DEF FilesInv, LoadedInv
<1> QED
  BY <1>1, FilesInvHolds, PTL DEF Spec, NothingLost
=============================================================================
