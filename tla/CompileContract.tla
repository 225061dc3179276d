--------------------------- MODULE CompileContract ---------------------------
(***************************************************************************)
(* What one call of pc_compile() promises to PawnWrap::compile()            *)
(* (libs/pawn/compiler/legacy/adapter/src/compiler.cpp): a return value,    *)
(* and what has become of the .amx file by then.  The adapter takes 0 and 1 *)
(* for success.                                                             *)
(***************************************************************************)
EXTENDS Integers

OutputModes == {"image", "asm", "list"}   \* neither -a nor -l, -a, -l

(* "stale" is a file of an earlier run that has not been touched, "short"   *)
(* one that was written to the end but not flushed to the end: a full disk  *)
(* that shows when the file is closed goes unnoticed.                       *)
Images == {"absent", "stale", "partial", "complete", "short"}
Assembled == {"complete", "short"}

Succeeded(r) == r <= 1

(* The return values that may go with an image; after a failure the file    *)
(* may be anything.                                                         *)
Promise(m, r, img) == Succeeded(r) /\ m = "image" => img \in Assembled

(* pc_compile() returns 3 when it only printed its help text.               *)
Returns == 0 .. 3

VARIABLES mode, phase, image, retcode

contract == <<mode, phase, image, retcode>>

ContractInit ==
  /\ mode \in OutputModes
  /\ phase = "running" /\ retcode = -1
  /\ image \in {"absent", "stale"}

(* The .amx file is created or emptied.                                     *)
Truncate ==
  /\ phase = "running" /\ mode = "image" /\ image \in {"absent", "stale"}
  /\ image' = "partial"
  /\ UNCHANGED <<mode, phase, retcode>>

(* It is written to the end, closed at a full disk, or deleted.             *)
Complete ==
  /\ phase = "running" /\ image = "partial"
  /\ image' = "complete"
  /\ UNCHANGED <<mode, phase, retcode>>

Shorten ==
  /\ phase = "running" /\ image = "complete"
  /\ image' = "short"
  /\ UNCHANGED <<mode, phase, retcode>>

Discard ==
  /\ phase = "running" /\ image \in {"partial", "complete"}
  /\ image' = "absent"
  /\ UNCHANGED <<mode, phase, retcode>>

Return ==
  /\ phase = "running" /\ phase' = "done"
  /\ retcode' \in {r \in Returns : Promise(mode, r, image)}
  /\ UNCHANGED <<mode, image>>

ContractNext == Truncate \/ Complete \/ Shorten \/ Discard \/ Return

ContractSpec == ContractInit /\ [][ContractNext]_contract
=============================================================================
