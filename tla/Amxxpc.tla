-------------------------------- MODULE Amxxpc --------------------------------
(***************************************************************************)
(* Application::run() (apps/amxxpc/src/application.cpp): every input is     *)
(* compiled, then every image is packaged, and main() turns an exception    *)
(* into a failure.  A compilation is what CompileContract promises of it.   *)
(* Inputs whose images have the same path meet here.                        *)
(***************************************************************************)
EXTENDS Integers, FiniteSets

CONSTANTS
  Inputs,    (* the number of input files                                   *)
  Paths      (* where images can be: the path without its extension         *)

ASSUME InputsAssumption == Inputs \in Nat

VARIABLES
  help,      (* -help or -? is among the options                            *)
  keepsAmx,  (* -a or -l is: there is nothing to package                    *)
  pathOf,    (* resolve_amx_path() of every input                           *)
  pc,
  i,         (* the input at work                                           *)
  amx, amxx, (* the .amx and .amxx file of every path                       *)
  loaded,    (* the image read_amx() returned                               *)
  exit       (* the exit code of the process                                *)

vars == <<help, keepsAmx, pathOf, pc, i, amx, amxx, loaded, exit>>
request == <<help, keepsAmx, pathOf>>

Outcome == INSTANCE CompileContract
             WITH mode <- IF keepsAmx THEN "asm" ELSE "image",
                  phase <- pc, image <- amx, retcode <- exit

States == {"absent", "partial", "complete", "short"}
EarlierRun == 0

(* A file on disk and the input it was made from.                           *)
File == [state : States, from : EarlierRun .. Inputs]
Absent == [state |-> "absent", from |-> EarlierRun]
Leftover == [state |-> "complete", from |-> EarlierRun]

TypeOK ==
  /\ help \in BOOLEAN /\ keepsAmx \in BOOLEAN
  /\ pathOf \in [1 .. Inputs -> Paths]
  /\ pc \in {"start", "compile", "read", "open", "write", "remove", "done"}
  /\ i \in 1 .. Inputs + 1
  /\ amx \in [Paths -> File] /\ amxx \in [Paths -> File]
  /\ loaded \in File
  /\ exit \in {"none", "success", "failure"}

Init ==
  /\ help \in BOOLEAN /\ keepsAmx \in BOOLEAN
  /\ pathOf \in [1 .. Inputs -> Paths]
  /\ pc = "start" /\ i = 1
  /\ amx \in [Paths -> {Absent, Leftover}] /\ amxx \in [Paths -> {Absent, Leftover}]
  /\ loaded = Absent
  /\ exit = "none"

Stop(code) == pc' = "done" /\ exit' = code

(* An exception leaves run(); main() prints it.                             *)
Throw == Stop("failure") /\ UNCHANGED <<request, i, amx, amxx, loaded>>

Here == pathOf[i]

-----------------------------------------------------------------------------
(* Mutant: the index starts one early.                                      *)
StartAtZero == pc = "start" /\ pc' = "compile" /\ i' = 0 /\ UNCHANGED <<request, amx, amxx, loaded, exit>>

(* The usage text, or no input files.                                       *)
Start ==
  /\ pc = "start"
  /\ IF help THEN Stop("success")
     ELSE IF Inputs = 0 THEN Stop("failure")
     ELSE pc' = "compile" /\ exit' = exit
  /\ UNCHANGED <<request, i, amx, amxx, loaded>>

(* What pc_compile() may make of the .amx file of an input.                 *)
After(img) ==
  IF img = "absent" THEN Absent
  ELSE IF img = "stale" THEN amx[Here]
  ELSE [state |-> img, from |-> i]

(* Mutant: packaging starts while inputs are still to be compiled.          *)
CompileOneShort ==
  /\ pc = "compile" /\ ~keepsAmx
  /\ amx' = [amx EXCEPT ![Here] = After("complete")]
  /\ IF i < Inputs - 1 THEN i' = i + 1 /\ pc' = pc ELSE i' = 1 /\ pc' = "read"
  /\ UNCHANGED <<request, amxx, loaded, exit>>

(* PawnWrap::compile(): all_of() goes on with the next file as long as the  *)
(* compiler returns 0 or 1.                                                 *)
Compile ==
  /\ pc = "compile"
  /\ \E r \in Outcome!Returns, img \in Outcome!Images :
       /\ Outcome!Promise(IF keepsAmx THEN "asm" ELSE "image", r, img)
       /\ keepsAmx => img = "stale"
       /\ amx' = [amx EXCEPT ![Here] = After(img)]
       /\ \/ ~Outcome!Succeeded(r) /\ Stop("failure") /\ i' = i
          \/ Outcome!Succeeded(r) /\ i < Inputs /\ i' = i + 1 /\ UNCHANGED <<pc, exit>>
          \/ Outcome!Succeeded(r) /\ i = Inputs /\ keepsAmx /\ Stop("success") /\ i' = i
          \/ /\ Outcome!Succeeded(r) /\ i = Inputs /\ ~keepsAmx
             /\ pc' = "read" /\ i' = 1 /\ exit' = exit
  /\ UNCHANGED <<request, amxx, loaded>>

(* Builder::read_amx(): the file is opened, its headers are checked, it is  *)
(* read to the end and closed before the output is touched.  The sizes in   *)
(* the headers are not compared with the size of the file.                  *)
ReadAmx ==
  /\ pc = "read"
  /\ \/ /\ amx[Here] # Absent
        /\ loaded' = amx[Here] /\ pc' = "open"
        /\ UNCHANGED <<request, i, amx, amxx, exit>>
     \/ Throw

(* Mutant: a write that fails goes unnoticed.                               *)
OpenAmxxOnly ==
  /\ pc = "open" /\ pc' = "remove"
  /\ amxx' = [amxx EXCEPT ![Here] = [state |-> "partial", from |-> loaded.from]]
  /\ UNCHANGED <<request, i, amx, loaded, exit>>

(* Writer::open() truncates; compress() may have failed before.             *)
OpenAmxx ==
  /\ pc = "open"
  /\ \/ /\ amxx' = [amxx EXCEPT ![Here] = [state |-> "partial", from |-> loaded.from]]
        /\ pc' = "write"
        /\ UNCHANGED <<request, i, amx, loaded, exit>>
     \/ Throw

(* Header, entry and body are written and the stream is closed: the package *)
(* is as whole as the image that was read.                                  *)
WriteAmxx ==
  /\ pc = "write"
  /\ \/ /\ amxx' = [amxx EXCEPT ![Here] = loaded]
        /\ pc' = "remove"
        /\ UNCHANGED <<request, i, amx, loaded, exit>>
     \/ Throw

(* Mutant: the intermediate file stays when the next one has its path.      *)
RemoveAmxUnlessShared ==
  /\ pc = "remove"
  /\ amx' = IF i < Inputs /\ pathOf[i + 1] = Here THEN amx ELSE [amx EXCEPT ![Here] = Absent]
  /\ i' = i + 1
  /\ IF i < Inputs THEN pc' = "read" /\ exit' = exit ELSE Stop("success")
  /\ UNCHANGED <<request, amxx, loaded>>

(* remove_file(), which tolerates a file that is not there.                 *)
RemoveAmx ==
  /\ pc = "remove"
  /\ \/ /\ amx' = [amx EXCEPT ![Here] = Absent]
        /\ i' = i + 1
        /\ IF i < Inputs THEN pc' = "read" /\ exit' = exit ELSE Stop("success")
        /\ UNCHANGED <<request, amxx, loaded>>
     \/ Throw

Next == Start \/ Compile \/ ReadAmx \/ OpenAmxx \/ WriteAmxx \/ RemoveAmx

Spec == Init /\ [][Next]_vars

-----------------------------------------------------------------------------
(* Why it works: what is true of the files when input i is at work *)

(* The file of input k is whole, and made from an input with k's path.      *)
MadeFor(file, k) ==
  /\ file[pathOf[k]].state \in Outcome!Assembled
  /\ \E j \in 1 .. Inputs : pathOf[j] = pathOf[k] /\ file[pathOf[k]].from = j

(* Up to n every input has its package, has lost its image, and has a path  *)
(* of its own: a second input with the path would have found no image.      *)
Built(n) ==
  /\ \A k \in 1 .. n : MadeFor(amxx, k) /\ amx[pathOf[k]] = Absent
  /\ \A k, l \in 1 .. n : pathOf[k] = pathOf[l] => k = l

CompileInv ==
  pc = "compile" => /\ i \in 1 .. Inputs
                    /\ ~keepsAmx => \A k \in 1 .. i - 1 : MadeFor(amx, k)

PackageInv ==
  pc \in {"read", "open", "write", "remove"} =>
    /\ ~keepsAmx /\ i \in 1 .. Inputs
    /\ Built(i - 1)
    /\ \A k \in i .. Inputs : amx[pathOf[k]] = Absent \/ MadeFor(amx, k)

LoadedInv ==
  pc \in {"open", "write", "remove"} =>
    /\ loaded = amx[Here] /\ loaded # Absent
    /\ pc = "remove" => amxx[Here] = loaded

ExitInv ==
  /\ pc # "done" => exit = "none"
  /\ exit = "success" => help \/ keepsAmx \/ Built(Inputs)

FilesInv == CompileInv /\ PackageInv /\ LoadedInv /\ ExitInv

-----------------------------------------------------------------------------
(* Properties *)

Packaged == exit = "success" /\ ~help /\ ~keepsAmx

(* When the process reports success, every input has a finished .amxx made  *)
(* from that very input (of all that reached the disk of its image), and no *)
(* intermediate .amx is left -- also when the paths of two inputs coincide. *)
SuccessBuildsAll ==
  Packaged => \A k \in 1 .. Inputs :
                /\ amxx[pathOf[k]].state \in Outcome!Assembled
                /\ amxx[pathOf[k]].from = k
                /\ amx[pathOf[k]] = Absent

(* No .amxx of an earlier run is touched unless all inputs were compiled:   *)
(* every image that is still to be packaged or was removed is of this run.  *)
OldPackagesKept ==
  [][amxx' # amxx => \A k \in i .. Inputs :
        amx[pathOf[k]] = Absent \/ amx[pathOf[k]].from # EarlierRun]_vars

(* An image is only removed once its package holds all of it.               *)
NothingLost ==
  [][\A p \in Paths :
       pc = "remove" /\ amx'[p] # amx[p] =>
         amxx[p] = amx[p]]_vars
=============================================================================
