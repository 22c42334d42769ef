---------------------------- MODULE ReplacedFile ----------------------------
(***************************************************************************)
(* How status.go publishes the status: the value is written beside the     *)
(* file and renamed over it; when the rename is refused the file is        *)
(* removed and the rename tried once more.  identity.go and cache.go save  *)
(* with the same calls in the same order.                                  *)
(*                                                                         *)
(* One action per system call, because others run and processes die in     *)
(* between.  Windows refuses to rename or remove a file somebody has open  *)
(* (Go opens files without FILE_SHARE_DELETE), but lets two processes      *)
(* write one file.                                                         *)
(***************************************************************************)
EXTENDS Integers

CONSTANTS
  Procs,
  None,          (* no such file                                           *)
  Torn,          (* a file whose writing has not been completed            *)
  File           (* the path                                               *)

VARIABLES
  file,          (* what is at the path: None, Torn, or a value            *)
  tmp,           (* what is at path + ".tmp"                               *)
  step,          (* where each process is                                  *)
  draft,         (* the value each process is saving                       *)
  reading        (* what somebody has open to read, or None                *)

contents == <<file, tmp>>

Goto(p, s) == step' = [step EXCEPT ![p] = s]

OpenTmp(p) ==
  /\ step[p] = "save"
  /\ tmp' = Torn
  /\ Goto(p, "writing")
  /\ UNCHANGED <<file, draft, reading>>

WriteTmp(p) ==
  /\ step[p] = "writing"
  /\ tmp' = draft[p]
  /\ Goto(p, "written")
  /\ UNCHANGED <<file, draft, reading>>

TmpIsOpen == \E q \in Procs : step[q] = "writing"
FileIsRead == reading = File

Renames == tmp # None /\ ~ TmpIsOpen /\ ~ FileIsRead

Replace(p) ==
  /\ Renames
  /\ file' = tmp /\ tmp' = None
  /\ Goto(p, "saved")

Rename(p) ==
  /\ step[p] = "written"
  /\ \/ Replace(p)
     \/ ~ Renames /\ Goto(p, "refused") /\ UNCHANGED contents
  /\ UNCHANGED <<draft, reading>>

RemoveFile(p) ==
  /\ step[p] = "refused"
  /\ \/ ~ FileIsRead /\ file' = None /\ Goto(p, "removed")
     \/ FileIsRead /\ Goto(p, "failing") /\ UNCHANGED file
  /\ UNCHANGED <<tmp, draft, reading>>

RenameAgain(p) ==
  /\ step[p] = "removed"
  /\ \/ Replace(p)
     \/ ~ Renames /\ Goto(p, "failing") /\ UNCHANGED contents
  /\ UNCHANGED <<draft, reading>>

RemoveTmp(p) ==
  /\ step[p] = "failing"
  /\ tmp' = IF TmpIsOpen THEN tmp ELSE None
  /\ Goto(p, "failed")
  /\ UNCHANGED <<file, draft, reading>>

Save(p) ==
  \/ OpenTmp(p) \/ WriteTmp(p)
  \/ Rename(p) \/ RemoveFile(p) \/ RenameAgain(p) \/ RemoveTmp(p)
=============================================================================
