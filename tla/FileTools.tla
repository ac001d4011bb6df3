----------------------------- MODULE FileTools -----------------------------
(***************************************************************************)
(* The tools that change the user's files: file_write, file_move and       *)
(* file_delete, one call after the other, with calls of the disk that fail *)
(* and the app ending between any two of them.  Paths are on one of two    *)
(* volumes; a rename only goes within one.  A file is a text and whether   *)
(* it is all there, or what wrote the part that is.                        *)
(***************************************************************************)
EXTENDS Naturals

CONSTANTS Paths, Away,  \* those on the other volume
          Texts, None,
          MaxCalls, MaxFailures, MaxCrashes  \* bounds

(* None is told from what the tools answer.                                *)
ToolsAssumption == None \notin {"ok", "copied", "error"}

VARIABLES file,   \* what is at each path
          temp,   \* file_write's sibling of its target
          call,   \* the call being executed, or the last one
          step,   \* where it is
          result, \* what it told the model, None meanwhile
          before, \* history: the files when it began
          calls, failures, crashes

vars == <<file, temp, call, step, result, before, calls, failures, crashes>>
bounds == <<calls, failures, crashes>>

Body(t, by) == [text |-> t, by |-> by]
Bodies == [text : Texts, by : {"whole", "write", "copy"}]
SameVolume(p, q) == (p \in Away) = (q \in Away)

Calls == [tool : {"write"}, to : Paths, text : Texts]
         \cup [tool : {"delete"}, from : Paths]
         \cup [tool : {"move"}, from : Paths, to : Paths]

Init ==
  /\ file \in [Paths -> {None} \cup {Body(t, "whole") : t \in Texts}]
  /\ temp = None /\ call = None /\ step = "idle" /\ result = None
  /\ before = file /\ calls = 0 /\ failures = 0 /\ crashes = 0

Call ==
  /\ step = "idle" /\ calls < MaxCalls /\ calls' = calls + 1
  /\ call' \in Calls /\ step' = call'.tool
  /\ result' = None /\ before' = file
  /\ UNCHANGED <<file, temp, failures, crashes>>

Goes(from, to) == step = from /\ step' = to /\ UNCHANGED result
Tells(what) == step' = "idle" /\ result' = what
Failing == failures < MaxFailures /\ failures' = failures + 1

(* ------------------------------ file_write ----------------------------- *)
Mut_OpensTemp ==
  /\ Goes("write", "fill")
  /\ file' = [file EXCEPT ![call.to] = Body(call.text, "write")]
  /\ temp' = Body(call.text, "write")
  /\ UNCHANGED <<call, before, bounds>>
OpensTemp ==
  /\ Goes("write", "fill")
  /\ temp' = Body(call.text, "write")
  /\ UNCHANGED <<file, call, before, bounds>>

FillsTemp ==
  /\ Goes("fill", "swap")
  /\ temp' = Body(call.text, "whole")
  /\ UNCHANGED <<file, call, before, bounds>>

SwapsIn ==
  /\ step = "swap" /\ Tells("ok")
  /\ file' = [file EXCEPT ![call.to] = temp] /\ temp' = None
  /\ UNCHANGED <<call, before, bounds>>

Mut_WriteFails ==
  /\ step \in {"write", "fill", "swap"} /\ Failing /\ Tells("error")
  /\ UNCHANGED <<temp, file, call, before, calls, crashes>>
WriteFails ==
  /\ step \in {"write", "fill", "swap"} /\ Failing /\ Tells("error")
  /\ temp' = None
  /\ UNCHANGED <<file, call, before, calls, crashes>>

(* ------------------------------ file_delete ---------------------------- *)
Deletes ==
  /\ step = "delete"
  /\ \/ file[call.from] = None /\ Tells("error") /\ UNCHANGED <<file, failures>>
     \/ file[call.from] # None /\ Failing /\ Tells("error") /\ UNCHANGED file
     \/ /\ file[call.from] # None /\ Tells("ok")
        /\ file' = [file EXCEPT ![call.from] = None] /\ UNCHANGED failures
  /\ UNCHANGED <<temp, call, before, calls, crashes>>

(* ------------------------------- file_move ----------------------------- *)
Stats ==
  /\ step = "move"
  /\ IF file[call.from] = None THEN Tells("error") ELSE Goes("move", "rename")
  /\ UNCHANGED <<file, temp, call, before, bounds>>

(* A rename onto itself does nothing and does not fail.                    *)
Renames ==
  /\ step = "rename" /\ SameVolume(call.from, call.to) /\ Tells("ok")
  /\ file' = IF call.from = call.to THEN file
             ELSE [file EXCEPT ![call.to] = file[call.from], ![call.from] = None]
  /\ UNCHANGED <<temp, call, before, bounds>>

(* Whatever it failed for, the move goes on with a copy.                   *)
RenameFails ==
  /\ Goes("rename", "copy") /\ call.from # call.to
  /\ IF SameVolume(call.from, call.to) THEN Failing ELSE UNCHANGED failures
  /\ UNCHANGED <<file, temp, call, before, calls, crashes>>

CopyOpens ==
  /\ Goes("copy", "copying")
  /\ file' = [file EXCEPT ![call.to] = Body(file[call.from].text, "copy")]
  /\ UNCHANGED <<temp, call, before, bounds>>

CopyEnds ==
  /\ Goes("copying", "remove")
  /\ file' = [file EXCEPT ![call.to] = file[call.from]]
  /\ UNCHANGED <<temp, call, before, bounds>>

Mut_CopyFails ==
  /\ step \in {"copy", "copying"} /\ Failing /\ Goes(step, "remove")
  /\ UNCHANGED <<file, temp, call, before, calls, crashes>>
(* What was written stays, unless the system takes it back.                *)
CopyFails ==
  /\ step \in {"copy", "copying"} /\ Failing /\ Tells("error")
  /\ \/ UNCHANGED file
     \/ step = "copying" /\ file' = [file EXCEPT ![call.to] = None]
  /\ UNCHANGED <<temp, call, before, calls, crashes>>

Removes ==
  /\ step = "remove" /\ Tells("ok")
  /\ file' = [file EXCEPT ![call.from] = None]
  /\ UNCHANGED <<temp, call, before, bounds>>

Mut_RemoveFails ==
  /\ step = "remove" /\ Failing /\ Tells("ok")
  /\ UNCHANGED <<file, temp, call, before, calls, crashes>>
RemoveFails ==
  /\ step = "remove" /\ Failing /\ Tells("copied")
  /\ UNCHANGED <<file, temp, call, before, calls, crashes>>

(* The app ends: nobody is told, and a sibling that is there stays.        *)
Crash ==
  /\ step # "idle" /\ crashes < MaxCrashes /\ crashes' = crashes + 1
  /\ step' = "idle" /\ temp' = None
  /\ UNCHANGED <<file, call, result, before, calls, failures>>

Next ==
  \/ Call
  \/ OpensTemp \/ FillsTemp \/ SwapsIn \/ WriteFails
  \/ Deletes
  \/ Stats \/ Renames \/ RenameFails
  \/ CopyOpens \/ CopyEnds \/ CopyFails \/ Removes \/ RemoveFails
  \/ Crash

Spec == Init /\ [][Next]_vars

(* ------------------------------ properties ----------------------------- *)
(* Types: a sibling of the target is there only while a write is.          *)
ToolsTypeOK ==
  /\ file \in [Paths -> Bodies \cup {None}] /\ temp \in Bodies \cup {None}
  /\ result \in {None, "ok", "copied", "error"}
  /\ temp # None => step \in {"fill", "swap"}

(* file_write.rs:35-37: "a crash mid-write leaves either the old content   *)
(* or the new, never a partial mix."                                       *)
WriteIsWhole ==
  \A p \in Paths : file[p] # None => file[p].by # "write"

(* Whatever fails and whenever the app ends, the file being moved is as it *)
(* was at one of its two places (file_move.rs:35-36: "the source is        *)
(* removed only after the destination write succeeds").                    *)
MoveKeepsTheFile ==
  call # None /\ call.tool = "move" /\ before[call.from] # None =>
    before[call.from] \in {file[call.from], file[call.to]}

Done ==
  CASE call.tool = "write" -> [before EXCEPT ![call.to] = Body(call.text, "whole")]
    [] call.tool = "delete" -> [before EXCEPT ![call.from] = None]
    [] call.tool = "move" ->
         IF call.from = call.to THEN before
         ELSE [before EXCEPT ![call.to] = before[call.from], ![call.from] = None]

(* What the model is told is what was done to the files, and to no other.  *)
ToldAsDone ==
  /\ result = "ok" => file = Done
  /\ result = "copied" => file = [before EXCEPT ![call.to] = before[call.from]]
  /\ result = "error" =>
       \A p \in Paths : file[p] = before[p] \/ (call.tool = "move" /\ p = call.to)

(* Whatever fails and whenever the app ends: a written file is the old or  *)
(* the new, a moved file is in one of its places, and the model is told    *)
(* what happened.                                                          *)
ToolsInv ==
  /\ ToolsTypeOK
  /\ WriteIsWhole
  /\ MoveKeepsTheFile
  /\ ToldAsDone
=============================================================================
