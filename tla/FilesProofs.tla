----------------------------- MODULE FilesProofs -----------------------------
(***************************************************************************)
(* Proofs about the files on disk, the models', the recipes', the user's   *)
(* and the old install's, about a recipe's run and about the server of the *)
(* local model, for every value of their constants: what is written, moved *)
(* or carried over is whole and in one place wherever it breaks off, what  *)
(* is loaded was verified, a run does its recipe's steps in order, and no  *)
(* server is left running.                                                 *)
(***************************************************************************)
EXTENDS MCFiles, SequenceTheorems, FiniteSetTheorems, TLAPS

-----------------------------------------------------------------------------
(* The tools that change files                                             *)

ToolTypes ==
  /\ file \in [Paths -> T!Bodies \cup {None}]
  /\ fileToolsBefore \in [Paths -> T!Bodies \cup {None}]
  /\ temp \in T!Bodies \cup {None}
  /\ fileToolsResult \in {None, "ok", "copied", "error"}
  /\ step \in {"idle", "write", "fill", "swap", "delete", "move", "rename", "copy",
               "copying", "remove"}
  /\ fileToolsCall # None => fileToolsCall \in T!Calls
  /\ step # "idle" => fileToolsCall \in T!Calls /\ fileToolsResult = None
  /\ fileToolsResult # None => fileToolsCall \in T!Calls

(* How far a write is: the target is as it was until the swap, which puts  *)
(* a whole sibling in its place.                                           *)
WriteSoFar ==
  /\ temp # None => step \in {"fill", "swap"}
  /\ step \in {"write", "fill", "swap"} =>
       fileToolsCall.tool = "write" /\ file = fileToolsBefore
  /\ step = "swap" => temp = T!Body(fileToolsCall.text, "whole")
  /\ \A p \in Paths : file[p] # None => file[p].by # "write"

(* How far a delete or a move is: nothing is changed before the copy, the  *)
(* copy changes its target only, and the source is removed from where the  *)
(* whole copy is.                                                          *)
MoveSoFar ==
  /\ step = "delete" => fileToolsCall.tool = "delete" /\ file = fileToolsBefore
  /\ step \in {"move", "rename", "copy", "copying", "remove"} => fileToolsCall.tool = "move"
  /\ step \in {"move", "rename", "copy"} => file = fileToolsBefore
  /\ step \in {"rename", "copy", "copying", "remove"} =>
       fileToolsBefore[fileToolsCall.from] # None
  /\ step \in {"copy", "copying", "remove"} => fileToolsCall.from # fileToolsCall.to
  /\ step = "copying" =>
       \A p \in Paths : p # fileToolsCall.to => file[p] = fileToolsBefore[p]
  /\ step = "remove" =>
       file = [fileToolsBefore EXCEPT ![fileToolsCall.to] = fileToolsBefore[fileToolsCall.from]]

ToolsHold ==
  /\ ToolTypes
  /\ WriteSoFar
  /\ MoveSoFar
  /\ T!MoveKeepsTheFile
  /\ T!ToldAsDone

(* A call has the fields of its tool.                                      *)
LEMMA CallFields ==
  ASSUME NEW c \in T!Calls
  PROVE  /\ c.tool \in {"write", "delete", "move"}
         /\ c.tool = "write" => c.to \in Paths /\ c.text \in Written
         /\ c.tool = "delete" => c.from \in Paths
         /\ c.tool = "move" => c.from \in Paths /\ c.to \in Paths
<1>1. CASE c \in [tool : {"write"}, to : Paths, text : Written]
  BY <1>1
<1>2. CASE c \in [tool : {"delete"}, from : Paths]
  BY <1>2
<1>3. CASE c \in [tool : {"move"}, from : Paths, to : Paths]
  BY <1>3
<1> QED BY <1>1, <1>2, <1>3 DEF T!Calls

(* A file that is put somewhere is one, and a body has the text and the    *)
(* hand it was made with.                                                  *)
LEMMA PutIsTyped ==
  ASSUME NEW f \in [Paths -> T!Bodies \cup {None}], NEW p \in Paths,
         NEW b \in T!Bodies \cup {None}
  PROVE  [f EXCEPT ![p] = b] \in [Paths -> T!Bodies \cup {None}]
  OBVIOUS

(* A body has the text and the hand it was made with.                      *)
LEMMA BodiesAreBodies ==
  /\ \A t \in Written, by \in {"whole", "write", "copy"} :
       T!Body(t, by) \in T!Bodies /\ T!Body(t, by).by = by
  /\ \A b \in T!Bodies : b.text \in Written
  BY DEF T!Body, T!Bodies

(* At first every file is whole and nothing was asked.                     *)
LEMMA ToolsInit ==
  ASSUME T!ToolsAssumption, T!Init
  PROVE  ToolsHold
<1>1. \A t \in Written : T!Body(t, "whole") \in T!Bodies /\ T!Body(t, "whole").by = "whole"
  BY BodiesAreBodies
<1>2. file \in [Paths -> {None} \cup {T!Body(t, "whole") : t \in Written}]
  BY DEF T!Init
<1>3. file \in [Paths -> T!Bodies \cup {None}]
  BY <1>1, <1>2
<1>4. \A p \in Paths : file[p] # None => file[p].by # "write"
  BY <1>1, <1>2
<1> QED
  BY <1>3, <1>4 DEF T!Init, T!ToolsAssumption, ToolsHold, ToolTypes, WriteSoFar, MoveSoFar,
    T!MoveKeepsTheFile, T!ToldAsDone

(* The call in execution has the fields of its tool.                       *)
LEMMA FieldsOfTheCall ==
  ASSUME ToolTypes, step # "idle"
  PROVE  /\ fileToolsCall.tool \in {"write", "delete", "move"}
         /\ fileToolsCall.tool = "write" => fileToolsCall.to \in Paths /\ fileToolsCall.text \in Written
         /\ fileToolsCall.tool = "delete" => fileToolsCall.from \in Paths
         /\ fileToolsCall.tool = "move" => fileToolsCall.from \in Paths /\ fileToolsCall.to \in Paths
BY CallFields DEF ToolTypes

(* Every step of a tool goes on from where the call is.                    *)
LEMMA ToolsStep ==
  ASSUME T!ToolsAssumption, ToolsHold, [T!Next]_(T!vars)
  PROVE  ToolTypes' /\ WriteSoFar' /\ MoveSoFar'
<1> USE DEF ToolsHold, T!ToolsAssumption, ToolTypes, WriteSoFar, MoveSoFar
<1>1. CASE T!Call
  BY <1>1, CallFields DEF T!Call
<1>2. CASE T!OpensTemp
  BY <1>2, FieldsOfTheCall, BodiesAreBodies DEF T!OpensTemp, T!Goes
<1>3. CASE T!FillsTemp
  BY <1>3, FieldsOfTheCall, BodiesAreBodies DEF T!FillsTemp, T!Goes
<1>4. CASE T!SwapsIn
  BY <1>4, FieldsOfTheCall, BodiesAreBodies DEF T!SwapsIn, T!Tells
<1>5. CASE T!WriteFails
  BY <1>5, FieldsOfTheCall, BodiesAreBodies DEF T!WriteFails, T!Failing, T!Tells
<1>6. CASE T!Deletes
  BY <1>6, FieldsOfTheCall, BodiesAreBodies DEF T!Deletes, T!Failing, T!Tells
<1>7. CASE T!Stats
  BY <1>7, FieldsOfTheCall, BodiesAreBodies DEF T!Stats, T!Goes, T!Tells
<1>8. CASE T!Renames
  BY <1>8, FieldsOfTheCall, BodiesAreBodies DEF T!Renames, T!Tells
<1>9. CASE T!RenameFails
  BY <1>9, FieldsOfTheCall, BodiesAreBodies DEF T!RenameFails, T!Goes
<1>10. CASE T!CopyOpens
  BY <1>10, FieldsOfTheCall, BodiesAreBodies DEF T!CopyOpens, T!Goes
<1>11. CASE T!CopyEnds
  BY <1>11, FieldsOfTheCall, BodiesAreBodies DEF T!CopyEnds, T!Goes
<1>12. CASE T!CopyFails
  BY <1>12, FieldsOfTheCall, BodiesAreBodies DEF T!CopyFails, T!Failing, T!Tells
<1>13. CASE T!Removes
  BY <1>13, FieldsOfTheCall, BodiesAreBodies DEF T!Removes, T!Tells
<1>14. CASE T!RemoveFails
  BY <1>14, FieldsOfTheCall, BodiesAreBodies DEF T!RemoveFails, T!Failing, T!Tells
<1>15. CASE T!Crash
  BY <1>15, FieldsOfTheCall, BodiesAreBodies DEF T!Crash
<1>16. CASE UNCHANGED T!vars
  BY <1>16 DEF T!vars
<1> QED BY <1>1, <1>2, <1>3, <1>4, <1>5, <1>6, <1>7, <1>8, <1>9, <1>10, <1>11, <1>12, <1>13,
           <1>14, <1>15, <1>16 DEF T!Next

(* What a write or a delete that succeeds has done, at the step it does.   *)
LEMMA DoneByWrite ==
  ASSUME fileToolsCall'.tool = "write"
  PROVE  T!Done' = [fileToolsBefore' EXCEPT ![fileToolsCall'.to] =
                      T!Body(fileToolsCall'.text, "whole")]
  BY DEF T!Done, T!Body

(* The same of a delete.                                                   *)
LEMMA DoneByDelete ==
  ASSUME fileToolsCall'.tool = "delete"
  PROVE  T!Done' = [fileToolsBefore' EXCEPT ![fileToolsCall'.from] = None]
  BY DEF T!Done

(* And what it tells the model is where the files are.                     *)
LEMMA ToolsMean ==
  ASSUME T!ToolsAssumption, ToolsHold, [T!Next]_(T!vars)
  PROVE  T!MoveKeepsTheFile' /\ T!ToldAsDone'
<1> USE DEF ToolsHold, T!ToolsAssumption, ToolTypes, WriteSoFar, MoveSoFar, T!MoveKeepsTheFile,
            T!ToldAsDone, T!Done
<1>1. CASE T!Call
  BY <1>1, CallFields DEF T!Call
<1>2. CASE T!OpensTemp
  BY <1>2, FieldsOfTheCall, BodiesAreBodies DEF T!OpensTemp, T!Goes
<1>3. CASE T!FillsTemp
  BY <1>3, FieldsOfTheCall, BodiesAreBodies DEF T!FillsTemp, T!Goes
<1>4. CASE T!SwapsIn
  <2>1. /\ fileToolsCall.tool = "write" /\ fileToolsCall.to \in Paths
        /\ file = fileToolsBefore /\ temp = T!Body(fileToolsCall.text, "whole")
        /\ fileToolsResult' = "ok" /\ UNCHANGED <<fileToolsCall, fileToolsBefore>>
        /\ file' = [file EXCEPT ![fileToolsCall.to] = temp]
    BY <1>4, FieldsOfTheCall DEF T!SwapsIn, T!Tells
  <2>2. T!Done' = [fileToolsBefore EXCEPT ![fileToolsCall.to] = T!Body(fileToolsCall.text, "whole")]
    BY <2>1, DoneByWrite
  <2>3. file' = T!Done'
    BY <2>1, <2>2
  <2> QED BY <2>1, <2>3
<1>5. CASE T!WriteFails
  BY <1>5, FieldsOfTheCall, BodiesAreBodies DEF T!WriteFails, T!Failing, T!Tells
<1>6. CASE T!Deletes
  <2>1. /\ fileToolsCall.tool = "delete" /\ fileToolsCall.from \in Paths
        /\ file = fileToolsBefore /\ UNCHANGED <<fileToolsCall, fileToolsBefore>>
    BY <1>6, FieldsOfTheCall DEF T!Deletes
  <2>2. CASE fileToolsResult' = "error" /\ UNCHANGED file
    BY <2>1, <2>2
  <2>3. CASE fileToolsResult' = "ok" /\ file' = [file EXCEPT ![fileToolsCall.from] = None]
    <3>1. T!Done' = [fileToolsBefore EXCEPT ![fileToolsCall.from] = None]
      BY <2>1, DoneByDelete
    <3>2. file' = T!Done'
      BY <2>1, <2>3, <3>1
    <3> QED BY <2>1, <2>3, <3>2
  <2> QED BY <1>6, <2>2, <2>3 DEF T!Deletes, T!Tells
<1>7. CASE T!Stats
  BY <1>7, FieldsOfTheCall, BodiesAreBodies DEF T!Stats, T!Goes, T!Tells
<1>8. CASE T!Renames
  BY <1>8, FieldsOfTheCall, BodiesAreBodies DEF T!Renames, T!Tells
<1>9. CASE T!RenameFails
  BY <1>9, FieldsOfTheCall, BodiesAreBodies DEF T!RenameFails, T!Goes
<1>10. CASE T!CopyOpens
  BY <1>10, FieldsOfTheCall, BodiesAreBodies DEF T!CopyOpens, T!Goes
<1>11. CASE T!CopyEnds
  BY <1>11, FieldsOfTheCall, BodiesAreBodies DEF T!CopyEnds, T!Goes
<1>12. CASE T!CopyFails
  BY <1>12, FieldsOfTheCall, BodiesAreBodies DEF T!CopyFails, T!Failing, T!Tells
<1>13. CASE T!Removes
  BY <1>13, FieldsOfTheCall, BodiesAreBodies DEF T!Removes, T!Tells
<1>14. CASE T!RemoveFails
  BY <1>14, FieldsOfTheCall, BodiesAreBodies DEF T!RemoveFails, T!Failing, T!Tells
<1>15. CASE T!Crash
  BY <1>15, FieldsOfTheCall, BodiesAreBodies DEF T!Crash
<1>16. CASE UNCHANGED T!vars
  BY <1>16 DEF T!vars
<1> QED BY <1>1, <1>2, <1>3, <1>4, <1>5, <1>6, <1>7, <1>8, <1>9, <1>10, <1>11, <1>12, <1>13,
           <1>14, <1>15, <1>16 DEF T!Next

-----------------------------------------------------------------------------
(* The data carried over                                                   *)

(* What each process remembers of what it read.                            *)
Readers ==
  /\ seen \in [Procs -> SUBSET Entries]
  /\ entry \in [Procs -> Entries \cup {None}]
  /\ had \subseteq Entries

(* Whoever is past the comparison has seen the new directory, and nobody   *)
(* removes it; whoever moves an entry has one.                             *)
PastTheLook ==
  \A p \in Procs :
    /\ pc[p] \in {"read", "merge", "move"} => newDir
    /\ pc[p] = "move" => entry[p] \in Entries

CarryHolds == C!CarryTypeOK /\ Readers /\ PastTheLook /\ C!NoEntryLost

(* At first the old entries are in the old directory.                      *)
LEMMA CarryInit ==
  ASSUME C!CarryAssumption, C!Init
  PROVE  CarryHolds
  BY DEF C!CarryAssumption, C!Init, CarryHolds, C!CarryTypeOK, Readers, PastTheLook,
    C!NoEntryLost, C!IsEmpty

(* A directory that is gone is empty, and no entry is of nobody.           *)
LEMMA CarryTypesStep ==
  ASSUME C!CarryAssumption, CarryHolds, [C!Next]_(C!vars)
  PROVE  C!CarryTypeOK'
<1> USE DEF CarryHolds, C!CarryAssumption, C!CarryTypeOK, Readers, PastTheLook, C!IsEmpty, C!disk
<1>1. ASSUME NEW p \in Procs,
             C!Start(p) \/ C!LooksAtOld(p) \/ C!LooksAtNew(p) \/ C!Fails(p)
               \/ C!Ends(p) \/ C!Crash(p)
      PROVE  C!CarryTypeOK'
  BY <1>1 DEF C!Start, C!LooksAtOld, C!LooksAtNew, C!Fails, C!Ends, C!Crash, C!Goes
<1>2. ASSUME NEW p \in Procs, C!RenamesAll(p)
      PROVE  C!CarryTypeOK'
  BY <1>2 DEF C!RenamesAll, C!Goes, C!IsEmpty
<1>3. ASSUME NEW p \in Procs, C!ReadsDir(p)
      PROVE  C!CarryTypeOK'
  BY <1>3 DEF C!ReadsDir, C!Goes
<1>4. ASSUME NEW p \in Procs, C!Moves(p)
      PROVE  C!CarryTypeOK'
  BY <1>4 DEF C!Moves, C!Goes
<1>5. ASSUME NEW p \in Procs, C!Tidies(p)
      PROVE  C!CarryTypeOK'
  BY <1>5 DEF C!Tidies, C!Goes
<1>6. ASSUME NEW p \in Procs, NEW n \in Entries, C!Looks(p, n)
      PROVE  C!CarryTypeOK'
  BY <1>6 DEF C!Looks
<1>7. ASSUME NEW p \in Procs, NEW n \in Entries, C!Saves(p, n)
      PROVE  C!CarryTypeOK'
  BY <1>7 DEF C!Saves
<1>8. CASE UNCHANGED C!vars
  BY <1>8 DEF C!vars
<1> QED BY <1>1, <1>2, <1>3, <1>4, <1>5, <1>6, <1>7, <1>8 DEF C!Next, C!Adopts

(* What a process remembers stays true whoever moves meanwhile.            *)
LEMMA ReadersStep ==
  ASSUME C!CarryAssumption, CarryHolds, [C!Next]_(C!vars)
  PROVE  Readers' /\ PastTheLook'
<1> USE DEF CarryHolds, C!CarryAssumption, C!CarryTypeOK, Readers, PastTheLook, C!disk
<1>1. ASSUME NEW p \in Procs,
             C!Start(p) \/ C!LooksAtOld(p) \/ C!LooksAtNew(p) \/ C!Fails(p)
               \/ C!Ends(p) \/ C!Crash(p)
      PROVE  Readers' /\ PastTheLook'
  BY <1>1 DEF C!Start, C!LooksAtOld, C!LooksAtNew, C!Fails, C!Ends, C!Crash, C!Goes
<1>2. ASSUME NEW p \in Procs, C!RenamesAll(p)
      PROVE  Readers' /\ PastTheLook'
  BY <1>2 DEF C!RenamesAll, C!Goes, C!IsEmpty
<1>3. ASSUME NEW p \in Procs, C!ReadsDir(p)
      PROVE  Readers' /\ PastTheLook'
  BY <1>3 DEF C!ReadsDir, C!Goes
<1>4. ASSUME NEW p \in Procs, C!Moves(p)
      PROVE  Readers' /\ PastTheLook'
  BY <1>4 DEF C!Moves, C!Goes
<1>5. ASSUME NEW p \in Procs, C!Tidies(p)
      PROVE  Readers' /\ PastTheLook'
  BY <1>5 DEF C!Tidies, C!Goes
<1>6. ASSUME NEW p \in Procs, NEW n \in Entries, C!Looks(p, n)
      PROVE  Readers' /\ PastTheLook'
  BY <1>6 DEF C!Looks
<1>7. ASSUME NEW p \in Procs, NEW n \in Entries, C!Saves(p, n)
      PROVE  Readers' /\ PastTheLook'
  BY <1>7 DEF C!Saves
<1>8. CASE UNCHANGED C!vars
  BY <1>8 DEF C!vars
<1> QED BY <1>1, <1>2, <1>3, <1>4, <1>5, <1>6, <1>7, <1>8 DEF C!Next, C!Adopts

(* Whoever moves it, an entry is in one of the two.                        *)
LEMMA EntriesStep ==
  ASSUME C!CarryAssumption, CarryHolds, [C!Next]_(C!vars)
  PROVE  C!NoEntryLost'
<1> USE DEF CarryHolds, C!CarryAssumption, C!CarryTypeOK, Readers, PastTheLook, C!NoEntryLost,
            C!disk
<1>1. ASSUME NEW p \in Procs,
             C!Start(p) \/ C!LooksAtOld(p) \/ C!LooksAtNew(p) \/ C!Fails(p)
               \/ C!Ends(p) \/ C!Crash(p)
      PROVE  C!NoEntryLost'
  BY <1>1 DEF C!Start, C!LooksAtOld, C!LooksAtNew, C!Fails, C!Ends, C!Crash, C!Goes
<1>2. ASSUME NEW p \in Procs, C!RenamesAll(p)
      PROVE  C!NoEntryLost'
  BY <1>2 DEF C!RenamesAll, C!Goes, C!IsEmpty
<1>3. ASSUME NEW p \in Procs, C!ReadsDir(p)
      PROVE  C!NoEntryLost'
  BY <1>3 DEF C!ReadsDir, C!Goes
<1>4. ASSUME NEW p \in Procs, C!Moves(p)
      PROVE  C!NoEntryLost'
  BY <1>4 DEF C!Moves, C!Goes
<1>5. ASSUME NEW p \in Procs, C!Tidies(p)
      PROVE  C!NoEntryLost'
  BY <1>5 DEF C!Tidies, C!Goes
<1>6. ASSUME NEW p \in Procs, NEW n \in Entries, C!Looks(p, n)
      PROVE  C!NoEntryLost'
  BY <1>6 DEF C!Looks
<1>7. ASSUME NEW p \in Procs, NEW n \in Entries, C!Saves(p, n)
      PROVE  C!NoEntryLost'
  BY <1>7 DEF C!Saves
<1>8. CASE UNCHANGED C!vars
  BY <1>8 DEF C!vars
<1> QED BY <1>1, <1>2, <1>3, <1>4, <1>5, <1>6, <1>7, <1>8 DEF C!Next, C!Adopts

(* An entry the new directory has is written over by nobody, where entries *)
(* are directories: a rename fails on one that is there by now.            *)
LEMMA NewStays ==
  ASSUME C!CarryAssumption, Solid, CarryHolds, [C!Next]_(C!vars),
         NEW n \in Entries, new[n] = "new"
  PROVE  new'[n] = "new"
<1> USE DEF CarryHolds, C!CarryAssumption, C!CarryTypeOK, PastTheLook, C!disk
<1>1. ASSUME NEW p \in Procs, C!RenamesAll(p)
      PROVE  new'[n] = "new"
  BY <1>1 DEF C!RenamesAll, C!IsEmpty
<1>2. ASSUME NEW p \in Procs, C!Moves(p)
      PROVE  new'[n] = "new"
  BY <1>2 DEF C!Moves, C!Goes
<1>3. ASSUME NEW p \in Procs, NEW m \in Entries, C!Saves(p, m)
      PROVE  new'[n] = "new"
  BY <1>3 DEF C!Saves
<1>4. CASE UNCHANGED new
  BY <1>4
<1> QED
  BY <1>1, <1>2, <1>3, <1>4 DEF C!Next, C!Adopts, C!Start, C!LooksAtOld, C!LooksAtNew,
    C!ReadsDir, C!Looks, C!Tidies, C!Fails, C!Ends, C!Crash, C!vars

-----------------------------------------------------------------------------
(* The server of the local model                                           *)

Slots == [pid : Nat, model : Served, port : Ports]

States == {"none", "starting", "loading", "healthy", "killed", "dead"}
Processes ==
  [st : States, model : Served \cup {None}, port : Ports \cup {None}, unread : Nat]

ServerTypes ==
  /\ procs \in [L!Pids -> Processes]
  /\ holder \in [Ports -> L!Pids \cup {L!Free, L!Other}]
  /\ spawns \in 0..MaxSpawns /\ files \subseteq Served
  /\ llamaServerSlot \in Slots \cup {None}

CallStates == {"idle", "asked", "picked", "waits", "has", "sent"}
Asked ==
  [at : CallStates, model : Served \cup {None}, port : Ports \cup {None},
   pid : Nat \cup {None}]

CallTypes == queue \in Seq(Askers) /\ llamaServerCall \in [Askers -> Asked]

(* The callers in the line are at the lock, once each; who starts a server *)
(* or waits for one is the first of them, and nothing is in the slot.      *)
Once(s) == \A i, j \in 1..Len(s) : s[i] = s[j] => i = j

InLine ==
  /\ Once(queue)
  /\ \A i \in 1..Len(queue) : llamaServerCall[queue[i]].at \in {"asked", "picked", "waits"}
  /\ \A c \in Askers : llamaServerCall[c].at \in {"picked", "waits"} =>
       queue # <<>> /\ queue[1] = c /\ llamaServerSlot = None

(* What a caller was told is of a process that was started for its model.  *)
Told ==
  \A c \in Askers :
    LET r == llamaServerCall[c]
    IN  /\ r.at # "idle" => r.model \in Served
        /\ r.at \in {"picked", "waits", "has", "sent"} => r.port \in Ports
        /\ r.at = "picked" => spawns < MaxSpawns
        /\ r.at \in {"waits", "has", "sent"} =>
             r.pid \in 1..spawns /\ procs[r.pid].model = r.model

InSlot ==
  llamaServerSlot # None =>
    llamaServerSlot.pid \in 1..spawns /\ procs[llamaServerSlot.pid].model = llamaServerSlot.model

(* A process not started yet is none, and one that binds has a port.       *)
Started ==
  \A p \in L!Pids :
    /\ p > spawns => procs[p].st = "none"
    /\ procs[p].st = "starting" => procs[p].port \in Ports
    /\ procs[p].unread \in 0..Pipe

Up(p) == procs[p].st \in {"loading", "healthy", "killed"}
Held == \A q \in Ports : holder[q] \in L!Pids => Up(holder[q]) /\ procs[holder[q]].port = q

ServerHolds ==
  /\ ServerTypes /\ CallTypes /\ InLine /\ Told /\ InSlot /\ Started /\ Held
  /\ L!NoServerLeft

(* What removing the element at position i leaves.                         *)
LEMMA RemoveAtProperties ==
  ASSUME NEW Elements, NEW s \in Seq(Elements), NEW i \in 1 .. Len(s)
  PROVE  /\ RemoveAt(s, i) \in Seq(Elements)
         /\ Len(RemoveAt(s, i)) = Len(s) - 1
         /\ \A j \in 1 .. Len(s) - 1 :
              RemoveAt(s, i)[j] = IF j < i THEN s[j] ELSE s[j + 1]
<1> DEFINE before == SubSeq(s, 1, i - 1)
           after == SubSeq(s, i + 1, Len(s))
<1>1. Len(s) \in Nat /\ \A j \in 1 .. Len(s) : s[j] \in Elements
  BY ElementOfSeq, LenProperties
<1>2. /\ before \in Seq(Elements)
      /\ Len(before) = i - 1
      /\ \A j \in 1 .. i - 1 : before[j] = s[j]
  <2>1. \A j \in 1 .. i - 1 : s[j] \in Elements
    BY <1>1
  <2>2. 1 \in Int /\ i - 1 \in Int
    BY <1>1
  <2> HIDE DEF before
  <2>3. /\ SubSeq(s, 1, i - 1) \in Seq(Elements)
        /\ Len(SubSeq(s, 1, i - 1)) = IF 1 <= i - 1 THEN i - 1 - 1 + 1 ELSE 0
        /\ \A j \in 1 .. i - 1 - 1 + 1 : SubSeq(s, 1, i - 1)[j] = s[1 + j - 1]
    BY <2>1, <2>2, SubSeqProperties
  <2>4. \A j \in 1 .. i - 1 : 1 + j - 1 = j /\ j \in 1 .. i - 1 - 1 + 1
    BY <1>1
  <2>5. (IF 1 <= i - 1 THEN i - 1 - 1 + 1 ELSE 0) = i - 1
    BY <1>1
  <2> QED BY <2>3, <2>4, <2>5 DEF before
<1>3. /\ after \in Seq(Elements)
      /\ Len(after) = Len(s) - i
      /\ \A j \in 1 .. Len(s) - i : after[j] = s[i + j]
  <2>1. \A j \in i + 1 .. Len(s) : s[j] \in Elements
    BY <1>1
  <2>2. i + 1 \in Int /\ Len(s) \in Int
    BY <1>1
  <2> HIDE DEF after
  <2>3. /\ SubSeq(s, i + 1, Len(s)) \in Seq(Elements)
        /\ Len(SubSeq(s, i + 1, Len(s)))
             = IF i + 1 <= Len(s) THEN Len(s) - (i + 1) + 1 ELSE 0
        /\ \A j \in 1 .. Len(s) - (i + 1) + 1 :
             SubSeq(s, i + 1, Len(s))[j] = s[i + 1 + j - 1]
    BY <2>1, <2>2, SubSeqProperties
  <2>4. \A j \in 1 .. Len(s) - i :
          i + 1 + j - 1 = i + j /\ j \in 1 .. Len(s) - (i + 1) + 1
    BY <1>1
  <2>5. (IF i + 1 <= Len(s) THEN Len(s) - (i + 1) + 1 ELSE 0) = Len(s) - i
    BY <1>1
  <2> QED BY <2>3, <2>4, <2>5 DEF after
<1>4. RemoveAt(s, i) = before \o after
  BY DEF RemoveAt
<1> HIDE DEF before, after
<1>5. /\ before \o after \in Seq(Elements)
      /\ Len(before \o after) = Len(before) + Len(after)
      /\ \A j \in 1 .. Len(before) + Len(after) :
           (before \o after)[j] =
             IF j <= Len(before) THEN before[j] ELSE after[j - Len(before)]
  BY <1>2, <1>3, ConcatProperties
<1>6. Len(before) + Len(after) = Len(s) - 1
  BY <1>1, <1>2, <1>3
<1>7. ASSUME NEW j \in 1 .. Len(s) - 1
      PROVE  (before \o after)[j] = IF j < i THEN s[j] ELSE s[j + 1]
  <2>1. CASE j < i
    BY <1>1, <1>2, <1>5, <1>6, <2>1
  <2>2. CASE ~(j < i)
    <3>1. j - (i - 1) \in 1 .. Len(s) - i /\ i + (j - (i - 1)) = j + 1
      BY <1>1, <2>2
    <3>2. (before \o after)[j] = after[j - (i - 1)]
      BY <1>1, <1>2, <1>5, <1>6, <2>2
    <3> QED BY <1>3, <2>2, <3>1, <3>2
  <2> QED BY <2>1, <2>2
<1> QED BY <1>4, <1>5, <1>6, <1>7

(* Who leaves the line is not in it any more, and the others are, once.    *)
LEMMA LeavesTheLine ==
  ASSUME NEW s \in Seq(Askers), Once(s), NEW i \in 1..Len(s)
  PROVE  LET r == RemoveAt(s, i)
         IN  /\ r \in Seq(Askers) /\ Once(r)
             /\ \A j \in 1..Len(r) : r[j] # s[i] /\ \E k \in 1..Len(s) : r[j] = s[k]
             /\ i # 1 => r # <<>> /\ r[1] = s[1]
<1> DEFINE r == RemoveAt(s, i)
<1>1. /\ r \in Seq(Askers) /\ Len(r) = Len(s) - 1 /\ Len(s) \in Nat
      /\ \A j \in 1..Len(s) - 1 : r[j] = IF j < i THEN s[j] ELSE s[j + 1]
  BY RemoveAtProperties, LenProperties
<1> HIDE DEF r
<1>2. Once(r)
  <2> SUFFICES ASSUME NEW j \in 1..Len(r), NEW k \in 1..Len(r), r[j] = r[k]
               PROVE  j = k
    BY DEF Once
  <2> DEFINE was(n) == IF n < i THEN n ELSE n + 1
  <2>1. /\ was(j) \in 1..Len(s) /\ was(k) \in 1..Len(s)
        /\ r[j] = s[was(j)] /\ r[k] = s[was(k)]
    BY <1>1
  <2>2. was(j) = was(k)
    BY <2>1 DEF Once
  <2> QED BY <1>1, <2>2
<1>3. \A j \in 1..Len(r) : r[j] # s[i] /\ \E k \in 1..Len(s) : r[j] = s[k]
  BY <1>1 DEF Once
<1>4. i # 1 => r # <<>> /\ r[1] = s[1]
  BY <1>1
<1> QED BY <1>1, <1>2, <1>3, <1>4 DEF r

(* The instance's RemoveAt is that of the library.                         *)
LEMMA SameRemoval == \A s, i : L!RemoveAt(s, i) = RemoveAt(s, i)
  BY DEF L!RemoveAt, RemoveAt

(* The first passes the lock on; who comes goes to the end.                *)
LEMMA PassesOn ==
  ASSUME NEW s \in Seq(Askers), Once(s), s # <<>>
  PROVE  /\ Tail(s) \in Seq(Askers) /\ Once(Tail(s)) /\ Head(s) = s[1] /\ s[1] \in Askers
         /\ \A j \in 1..Len(Tail(s)) : Tail(s)[j] # s[1] /\ \E k \in 1..Len(s) : Tail(s)[j] = s[k]
<1>1. /\ Tail(s) \in Seq(Askers) /\ Len(Tail(s)) = Len(s) - 1 /\ Len(s) \in Nat /\ Len(s) > 0
      /\ \A j \in 1..Len(Tail(s)) : Tail(s)[j] = s[j + 1]
      /\ Head(s) = s[1] /\ s[1] \in Askers
  BY HeadTailProperties, LenProperties, EmptySeq, ElementOfSeq
<1> QED BY <1>1 DEF Once

(* Who comes goes to the end, and is there once.                           *)
LEMMA ComesLast ==
  ASSUME NEW s \in Seq(Askers), Once(s), NEW c \in Askers,
         \A i \in 1..Len(s) : s[i] # c
  PROVE  LET r == Append(s, c)
         IN  /\ r \in Seq(Askers) /\ Once(r) /\ r # <<>>
             /\ \A j \in 1..Len(r) : r[j] = c \/ \E k \in 1..Len(s) : r[j] = s[k]
             /\ s # <<>> => r[1] = s[1]
<1> DEFINE r == Append(s, c)
<1>1. /\ r \in Seq(Askers) /\ Len(r) = Len(s) + 1 /\ Len(s) \in Nat
      /\ \A j \in 1..Len(s) : r[j] = s[j]
      /\ r[Len(s) + 1] = c
  BY AppendProperties, LenProperties
<1> HIDE DEF r
<1>2. Once(r)
  BY <1>1 DEF Once
<1>3. \A j \in 1..Len(r) : r[j] = c \/ \E k \in 1..Len(s) : r[j] = s[k]
  BY <1>1
<1>4. r # <<>> /\ (s # <<>> => r[1] = s[1])
  BY <1>1, EmptySeq
<1> QED BY <1>1, <1>2, <1>3, <1>4 DEF r

(* A process that comes to another state is still one.                     *)
LEMMA StaysAProcess ==
  ASSUME ServerTypes, NEW p \in L!Pids
  PROVE  /\ \A e \in Processes : [procs EXCEPT ![p] = e] \in [L!Pids -> Processes]
         /\ \A s \in States : [procs EXCEPT ![p].st = s] \in [L!Pids -> Processes]
         /\ \A u \in Nat : [procs EXCEPT ![p].unread = u] \in [L!Pids -> Processes]
         /\ procs[p].unread \in Nat /\ procs[p].st \in States
         /\ [procs[p] EXCEPT !.st = "dead"] \in Processes
<1>1. procs[p] \in Processes
  BY DEF ServerTypes
<1>2. \A s \in States : [procs[p] EXCEPT !.st = s] \in Processes
  BY <1>1 DEF Processes
<1>3. \A u \in Nat : [procs[p] EXCEPT !.unread = u] \in Processes
  BY <1>1 DEF Processes
<1> QED BY <1>1, <1>2, <1>3 DEF ServerTypes, Processes, States

(* And a caller that comes to another a caller.                            *)
LEMMA StaysACall ==
  ASSUME CallTypes, NEW c \in Askers
  PROVE  /\ L!Idle \in Asked
         /\ \A e \in Asked : [llamaServerCall EXCEPT ![c] = e] \in [Askers -> Asked]
         /\ \A a \in CallStates : [llamaServerCall EXCEPT ![c].at = a] \in [Askers -> Asked]
         /\ \A a \in CallStates, q \in Ports :
              [llamaServerCall EXCEPT ![c].at = a, ![c].port = q] \in [Askers -> Asked]
         /\ \A a \in CallStates, p \in Nat :
              [llamaServerCall EXCEPT ![c].at = a, ![c].pid = p] \in [Askers -> Asked]
         /\ \A a \in CallStates, q \in Ports, p \in Nat :
              [llamaServerCall EXCEPT ![c].at = a, ![c].port = q, ![c].pid = p]
                \in [Askers -> Asked]
         /\ llamaServerCall[c].at \in CallStates
<1>1. L!Idle \in Asked /\ llamaServerCall[c] \in Asked
  BY DEF L!Idle, Asked, CallStates, CallTypes
<1>2. \A a \in CallStates, q \in Ports \cup {None}, p \in Nat \cup {None} :
        [llamaServerCall[c] EXCEPT !.at = a, !.port = q, !.pid = p] \in Asked
  BY <1>1 DEF Asked
<1>3. \A e \in Asked : [llamaServerCall EXCEPT ![c] = e] \in [Askers -> Asked]
  BY DEF CallTypes
<1>4. \A a \in CallStates : [llamaServerCall[c] EXCEPT !.at = a] \in Asked
  BY <1>1 DEF Asked
<1>5. \A a \in CallStates, q \in Ports : [llamaServerCall[c] EXCEPT !.at = a, !.port = q] \in Asked
  BY <1>1 DEF Asked
<1>6. \A a \in CallStates, p \in Nat : [llamaServerCall[c] EXCEPT !.at = a, !.pid = p] \in Asked
  BY <1>1 DEF Asked
<1>7. \A a \in CallStates : [llamaServerCall EXCEPT ![c].at = a] \in [Askers -> Asked]
  BY <1>3, <1>4 DEF CallTypes
<1>8. \A a \in CallStates, q \in Ports :
        [llamaServerCall EXCEPT ![c].at = a, ![c].port = q] \in [Askers -> Asked]
  BY <1>3, <1>5 DEF CallTypes
<1>9. \A a \in CallStates, p \in Nat :
        [llamaServerCall EXCEPT ![c].at = a, ![c].pid = p] \in [Askers -> Asked]
  BY <1>3, <1>6 DEF CallTypes
<1>10. \A a \in CallStates, q \in Ports, p \in Nat :
         [llamaServerCall EXCEPT ![c].at = a, ![c].port = q, ![c].pid = p] \in [Askers -> Asked]
  BY <1>2, <1>3 DEF CallTypes
<1>11. llamaServerCall[c].at \in CallStates
  BY <1>1 DEF Asked
<1> QED BY <1>1, <1>3, <1>7, <1>8, <1>9, <1>10, <1>11

(* Dropping a process's handle ends it and changes nothing else of it.     *)
LEMMA KillsOne ==
  ASSUME ServerTypes, NEW p \in L!Pids
  PROVE  /\ L!Kill(p) \in [L!Pids -> Processes]
         /\ \A r \in L!Pids :
              /\ L!Kill(p)[r].model = procs[r].model /\ L!Kill(p)[r].port = procs[r].port
              /\ L!Kill(p)[r].unread = procs[r].unread
              /\ L!Kill(p)[r].st = IF r = p /\ L!Runs(p) THEN "killed" ELSE procs[r].st
<1>1. L!Kill(p) \in [L!Pids -> Processes]
  <2>1. (IF L!Runs(p) THEN "killed" ELSE procs[p].st) \in States
    BY StaysAProcess DEF States
  <2> QED BY <2>1, StaysAProcess DEF L!Kill
<1> QED BY <1>1 DEF ServerTypes, Processes, L!Kill

(* A process that is not started stays none if it is dropped.              *)
LEMMA KilledIsStarted ==
  ASSUME ServerTypes, Started, NEW p \in L!Pids
  PROVE  \A r \in L!Pids :
           /\ r > spawns => L!Kill(p)[r].st = "none"
           /\ L!Kill(p)[r].st = "starting" => L!Kill(p)[r].port \in Ports
           /\ L!Kill(p)[r].unread \in 0..Pipe
           /\ L!Kill(p)[r].model = procs[r].model /\ L!Kill(p)[r].port = procs[r].port
<1>1. p > spawns => ~L!Runs(p)
  BY DEF Started, L!Runs
<1> QED BY <1>1, KillsOne DEF Started

(* One caller is told something, and the others know what they knew.       *)
LEMMA TellsOne ==
  ASSUME Told, NEW c \in Askers,
         \A r \in 1..spawns : r \in 1..spawns' /\ procs'[r].model = procs[r].model,
         \A d \in Askers : d # c => llamaServerCall'[d] = llamaServerCall[d],
         spawns' = spawns \/ \A d \in Askers : llamaServerCall[d].at = "picked" => d = c,
         llamaServerCall'[c].at # "idle" => llamaServerCall'[c].model \in Served,
         llamaServerCall'[c].at \in {"picked", "waits", "has", "sent"} =>
           llamaServerCall'[c].port \in Ports,
         llamaServerCall'[c].at = "picked" => spawns' < MaxSpawns,
         llamaServerCall'[c].at \in {"waits", "has", "sent"} =>
           /\ llamaServerCall'[c].pid \in 1..spawns'
           /\ procs'[llamaServerCall'[c].pid].model = llamaServerCall'[c].model
  PROVE  Told'
  BY DEF Told

(* The ports are held as long as the processes that hold them are up.      *)
LEMMA StaysHeld ==
  ASSUME ServerTypes, Started, Held, holder' = holder,
         \A r \in 1..spawns : procs'[r].port = procs[r].port /\ (Up(r) => Up(r)')
  PROVE  Held'
<1>1. ASSUME NEW q \in Ports, holder[q] \in L!Pids
      PROVE  holder[q] \in 1..spawns
  BY <1>1 DEF ServerTypes, Started, Held, Up, L!Pids
<1> QED BY <1>1 DEF Held, Up

(* In the line are callers.                                                *)
LEMMA OfTheLine ==
  ASSUME CallTypes
  PROVE  \A i \in 1..Len(queue) : queue[i] \in Askers
  BY ElementOfSeq DEF CallTypes

(* What the server's invariant says of its types and of the callers.       *)
LEMMA ServerMeans ==
  ASSUME L!LlamaAssumption, ServerHolds
  PROVE  L!LlamaInv
<1>1. \A q \in Ports : holder[q] \in L!Pids =>
        L!Exists(holder[q]) /\ procs[holder[q]].port = q
  BY DEF ServerHolds, Held, Up, L!Exists, L!Runs
<1>2. \A p \in L!Pids : procs[p].unread \in 0..Pipe
  BY DEF ServerHolds, Started
<1>3. llamaServerSlot # None =>
        /\ llamaServerSlot.pid \in 1..spawns
        /\ procs[llamaServerSlot.pid].model = llamaServerSlot.model
  BY DEF ServerHolds, InSlot
<1>4. \A c \in Askers : llamaServerCall[c].at \in {"waits", "has", "sent"} =>
        /\ llamaServerCall[c].pid \in 1..spawns
        /\ procs[llamaServerCall[c].pid].model = llamaServerCall[c].model
  BY DEF ServerHolds, Told
<1> QED
  BY <1>1, <1>2, <1>3, <1>4
  DEF ServerHolds, L!LlamaInv, L!LlamaTypeOK, L!ServesTheModel

(* Of the processes that were started, what no step changes.               *)
OnceStarted ==
  \A r \in 1..spawns :
    r \in 1..spawns' /\ procs'[r].model = procs[r].model /\ procs'[r].port = procs[r].port

(* At first nothing was asked or started.                                  *)
LEMMA ServerInit ==
  ASSUME L!LlamaAssumption, L!Init
  PROVE  ServerHolds
<1>1. ServerTypes /\ InSlot /\ Started /\ Held /\ L!NoServerLeft
  BY DEF L!LlamaAssumption, L!Init, ServerTypes, InSlot, Started, Held, Up, L!NoServerLeft,
    Processes, States, L!Runs, L!NotStarted, L!Free, L!Pids
<1>2. CallTypes /\ InLine /\ Told
  <2>1. queue = <<>> /\ Len(queue) = 0 /\ <<>> \in Seq(Askers)
    BY DEF L!Init
  <2>2. \A c \in Askers : llamaServerCall[c] = L!Idle
    BY DEF L!Init
  <2> QED BY <2>1, <2>2 DEF L!Init, L!Idle, CallTypes, Asked, CallStates, InLine, Told, Once
<1> QED BY <1>1, <1>2 DEF ServerHolds

(* The types of the processes, the ports and the slot.                     *)
LEMMA ServerTypesStep ==
  ASSUME L!LlamaAssumption, ServerHolds, [L!Next]_(L!vars)
  PROVE  ServerTypes'
<1> USE DEF ServerHolds, L!LlamaAssumption, ServerTypes, InSlot, Told, InLine, Started, L!Pids,
            L!bounds
<1>1. ASSUME NEW c \in Askers, L!Replaces(c)
      PROVE  ServerTypes'
  BY <1>1, KillsOne DEF L!Replaces
<1>2. ASSUME NEW c \in Askers, L!Spawn(c)
      PROVE  ServerTypes'
  <2>1. spawns + 1 \in L!Pids /\ spawns + 1 \in 0..MaxSpawns
    BY <1>2 DEF L!Spawn
  <2>2. [L!NotStarted EXCEPT !.st = "starting", !.model = llamaServerCall[c].model,
                            !.port = llamaServerCall[c].port] \in Processes
    BY <1>2 DEF L!Spawn, L!NotStarted, Processes, States
  <2> QED BY <1>2, <2>1, <2>2, StaysAProcess DEF L!Spawn
<1>3. ASSUME NEW c \in Askers, L!Healthy(c)
      PROVE  ServerTypes'
  BY <1>3 DEF L!Healthy, Slots, L!Becomes
<1>4. ASSUME NEW c \in Askers, L!HealthTimeout(c)
      PROVE  ServerTypes'
  BY <1>4, KillsOne DEF L!HealthTimeout
<1>5. ASSUME NEW c \in Askers, L!Reply(c)
      PROVE  ServerTypes'
  <2>1. holder[llamaServerCall[c].port] \in L!Pids
    BY <1>5 DEF L!Reply
  <2>2. procs[holder[llamaServerCall[c].port]].unread + 1 \in Nat
    BY <2>1, StaysAProcess
  <2> QED BY <1>5, <2>1, <2>2, StaysAProcess DEF L!Reply
<1>6. ASSUME NEW c \in Askers, L!Cancel(c)
      PROVE  ServerTypes'
  BY <1>6, KillsOne DEF L!Cancel
<1>7. ASSUME NEW p \in L!Pids, L!Forward(p)
      PROVE  ServerTypes'
  <2>1. procs[p].unread - 1 \in Nat
    BY <1>7, StaysAProcess DEF L!Forward
  <2> QED BY <1>7, <2>1, StaysAProcess DEF L!Forward
<1>8. ASSUME NEW p \in L!Pids, L!Binds(p)
      PROVE  ServerTypes'
  <2>1. procs' \in [L!Pids -> Processes]
    <3>1. /\ [procs EXCEPT ![p].st = "loading"] \in [L!Pids -> Processes]
          /\ [procs EXCEPT ![p].st = "dead"] \in [L!Pids -> Processes]
      BY StaysAProcess DEF States
    <3>2. \/ procs' = [procs EXCEPT ![p].st = "loading"]
          \/ procs' = [procs EXCEPT ![p].st = "dead"]
      BY <1>8 DEF L!Binds
    <3> QED BY <3>1, <3>2
  <2>2. /\ holder' \in {holder, [holder EXCEPT ![procs[p].port] = p]}
        /\ UNCHANGED <<llamaServerSlot, spawns, files>>
    BY <1>8 DEF L!Binds, L!bounds
  <2>3. holder' \in [Ports -> L!Pids \cup {L!Free, L!Other}]
    BY <1>8, <2>2
  <2> QED BY <2>1, <2>2, <2>3
<1>9. ASSUME NEW p \in L!Pids, L!Loads(p)
      PROVE  ServerTypes'
  BY <1>9, StaysAProcess DEF L!Loads, States
<1>10. ASSUME NEW p \in L!Pids, L!Dies(p)
      PROVE  ServerTypes'
  BY <1>10, StaysAProcess DEF L!Dies, L!Freed, L!Free, States
<1>11. ASSUME NEW q \in Ports, L!OtherBinds(q)
      PROVE  ServerTypes'
  BY <1>11 DEF L!OtherBinds, L!Other, L!Free
<1>12. ASSUME NEW m \in Served, L!Delete(m)
      PROVE  ServerTypes'
  BY <1>12 DEF L!Delete
<1>13. ASSUME L!AppEnds
      PROVE  ServerTypes'
  <2>1. procs' \in [L!Pids -> Processes]
    BY <1>13, StaysAProcess DEF L!AppEnds
  <2> QED BY <1>13, <2>1 DEF L!AppEnds, L!Freed, L!Free
<1>14. CASE UNCHANGED <<procs, holder, spawns, files, llamaServerSlot>>
  BY <1>14
<1> QED
  BY <1>1, <1>2, <1>3, <1>4, <1>5, <1>6, <1>7, <1>8, <1>9, <1>10, <1>11, <1>12, <1>13,
    <1>14
  DEF L!Next, L!Readies, L!Waits, L!Calls, L!vars, L!Ensure, L!PickPort, L!Found,
    L!SpawnFails, L!Send, L!Broken

(* The types of the line and of what the callers are at.                   *)
LEMMA CallTypesStep ==
  ASSUME L!LlamaAssumption, ServerHolds, [L!Next]_(L!vars)
  PROVE  CallTypes'
<1> USE DEF ServerHolds, L!LlamaAssumption, CallTypes, ServerTypes, InLine, L!bounds
<1>1. ASSUME NEW c \in Askers, NEW m \in Served, L!Ensure(c, m)
      PROVE  CallTypes'
  <2>1. [L!Idle EXCEPT !.at = "asked", !.model = m] \in Asked
    BY DEF L!Idle, Asked, CallStates
  <2>2. queue' \in Seq(Askers)
    BY <1>1, AppendProperties DEF L!Ensure
  <2> QED BY <1>1, <2>1, <2>2, StaysACall DEF L!Ensure
<1>2. ASSUME NEW c \in Askers, NEW q \in Ports, L!PickPort(c, q)
      PROVE  CallTypes'
  BY <1>2, StaysACall DEF L!PickPort, L!Becomes, L!Leaves, CallStates
<1>3. ASSUME NEW c \in Askers, L!Found(c)
      PROVE  CallTypes'
  <2>1. queue' \in Seq(Askers)
    BY <1>3, HeadTailProperties DEF L!Found, L!HasLock
  <2>2. "has" \in CallStates /\ llamaServerSlot.port \in Ports /\ llamaServerSlot.pid \in Nat
    BY <1>3 DEF L!Found, CallStates, Slots
  <2>3. llamaServerCall' \in [Askers -> Asked]
    BY <1>3, <2>2, StaysACall DEF L!Found
  <2> QED BY <2>1, <2>3
<1>4. ASSUME NEW c \in Askers, L!SpawnFails(c)
      PROVE  CallTypes'
  <2>1. queue' \in Seq(Askers)
    BY <1>4, HeadTailProperties DEF L!SpawnFails, L!HasLock
  <2> QED BY <1>4, <2>1, StaysACall DEF L!SpawnFails, L!Becomes, L!Leaves, CallStates
<1>5. ASSUME NEW c \in Askers, L!Spawn(c)
      PROVE  CallTypes'
  <2>1. spawns + 1 \in Nat /\ "waits" \in CallStates
    BY DEF CallStates
  <2>2. [llamaServerCall EXCEPT ![c].at = "waits", ![c].pid = spawns + 1] \in [Askers -> Asked]
    BY <2>1, StaysACall
  <2> QED BY <1>5, <2>2 DEF L!Spawn
<1>6. ASSUME NEW c \in Askers, L!Healthy(c)
      PROVE  CallTypes'
  <2>1. queue' \in Seq(Askers)
    BY <1>6, HeadTailProperties DEF L!Healthy, L!HasLock
  <2> QED BY <1>6, <2>1, StaysACall DEF L!Healthy, L!Becomes, L!Leaves, CallStates
<1>7. ASSUME NEW c \in Askers, L!HealthTimeout(c)
      PROVE  CallTypes'
  <2>1. queue' \in Seq(Askers)
    BY <1>7, HeadTailProperties DEF L!HealthTimeout, L!HasLock
  <2> QED BY <1>7, <2>1, StaysACall DEF L!HealthTimeout, L!Becomes, L!Leaves, CallStates
<1>8. ASSUME NEW c \in Askers, L!Send(c)
      PROVE  CallTypes'
  <2>1. [llamaServerCall EXCEPT ![c].at = "sent"] \in [Askers -> Asked]
    BY StaysACall DEF CallStates
  <2>0. [llamaServerCall EXCEPT ![c] = L!Idle] \in [Askers -> Asked]
    BY StaysACall
  <2>2. \/ llamaServerCall' = [llamaServerCall EXCEPT ![c] = L!Idle]
        \/ llamaServerCall' = [llamaServerCall EXCEPT ![c].at = "sent"]
    BY <1>8 DEF L!Send, L!Becomes, L!Leaves
  <2>3. llamaServerCall' \in [Askers -> Asked]
    BY <2>0, <2>1, <2>2
  <2> QED BY <1>8, <2>3 DEF L!Send
<1>9. ASSUME NEW c \in Askers, L!Reply(c)
      PROVE  CallTypes'
  <2>1. [llamaServerCall EXCEPT ![c].at = "has"] \in [Askers -> Asked]
    BY StaysACall DEF CallStates
  <2>0. [llamaServerCall EXCEPT ![c] = L!Idle] \in [Askers -> Asked]
    BY StaysACall
  <2>2. \/ llamaServerCall' = [llamaServerCall EXCEPT ![c] = L!Idle]
        \/ llamaServerCall' = [llamaServerCall EXCEPT ![c].at = "has"]
    BY <1>9 DEF L!Reply, L!Becomes, L!Leaves
  <2>3. llamaServerCall' \in [Askers -> Asked]
    BY <2>0, <2>1, <2>2
  <2> QED BY <1>9, <2>3 DEF L!Reply
<1>10. ASSUME NEW c \in Askers, L!Broken(c)
      PROVE  CallTypes'
  BY <1>10, StaysACall DEF L!Broken, L!Becomes, L!Leaves, CallStates
<1>11. ASSUME NEW c \in Askers, L!Cancel(c)
      PROVE  CallTypes'
  <2>1. \A i \in 1..Len(queue) : RemoveAt(queue, i) \in Seq(Askers)
    BY RemoveAtProperties
  <2>2. queue' \in Seq(Askers)
    <3>1. queue' = queue \/ \E i \in 1..Len(queue) : queue' = RemoveAt(queue, i)
      BY <1>11, SameRemoval DEF L!Cancel
    <3> QED BY <2>1, <3>1
  <2> QED BY <1>11, <2>2, StaysACall DEF L!Cancel, L!Leaves
<1>12. ASSUME L!AppEnds
      PROVE  CallTypes'
  <2>1. queue' = <<>> /\ <<>> \in Seq(Askers)
    BY <1>12 DEF L!AppEnds
  <2>2. \A c \in Askers : L!Idle \in Asked
    BY StaysACall
  <2> QED BY <1>12, <2>1, <2>2 DEF L!AppEnds
<1>13. CASE UNCHANGED <<queue, llamaServerCall>>
  BY <1>13
<1> QED
  BY <1>1, <1>2, <1>3, <1>4, <1>5, <1>6, <1>7, <1>8, <1>9, <1>10, <1>11, <1>12, <1>13
  DEF L!Next, L!Readies, L!Waits, L!Calls, L!vars, L!Replaces, L!Forward, L!Binds,
    L!Loads, L!Dies, L!OtherBinds, L!Delete

(* Whoever comes, is done, gives up or is aborted, the line holds each     *)
(* caller at the lock once, and who starts a server or waits for one is    *)
(* the first of it.                                                        *)
LEMMA InLineStep ==
  ASSUME L!LlamaAssumption, ServerHolds, [L!Next]_(L!vars)
  PROVE  InLine'
<1> USE DEF ServerHolds, L!LlamaAssumption, InLine, CallTypes, L!bounds
<1>1. ASSUME NEW c \in Askers, NEW m \in Served, L!Ensure(c, m)
      PROVE  InLine'
  <2>1. /\ \A i \in 1..Len(queue) : queue[i] # c
        /\ queue' = Append(queue, c) /\ llamaServerSlot' = llamaServerSlot
        /\ llamaServerCall'[c].at = "asked"
        /\ \A d \in Askers : d # c => llamaServerCall'[d] = llamaServerCall[d]
    BY <1>1 DEF L!Ensure, L!Idle
  <2>2. /\ Once(queue') /\ queue' # <<>> /\ (queue # <<>> => queue'[1] = queue[1])
        /\ \A j \in 1..Len(queue') : queue'[j] = c \/ \E k \in 1..Len(queue) : queue'[j] = queue[k]
    BY <2>1, ComesLast
  <2> QED BY <2>1, <2>2, OfTheLine
<1>2. ASSUME NEW c \in Askers, NEW q \in Ports, L!PickPort(c, q)
      PROVE  InLine'
  <2>1. queue # <<>> /\ queue[1] = c /\ llamaServerSlot = None
    BY <1>2, PassesOn DEF L!PickPort, L!HasLock
  <2> QED BY <1>2, <2>1, OfTheLine DEF L!PickPort
<1>3. ASSUME NEW c \in Askers, L!Found(c)
      PROVE  InLine'
  <2>1. queue # <<>> /\ queue[1] = c
    BY <1>3, PassesOn DEF L!Found, L!HasLock
  <2>2. /\ queue' = Tail(queue)
        /\ \A d \in Askers : d # c => llamaServerCall'[d] = llamaServerCall[d]
        /\ llamaServerCall'[c].at \in {"idle", "has"}
    BY <1>3 DEF L!Found, L!Becomes, L!Leaves, L!Idle
  <2>3. /\ Once(queue')
        /\ \A j \in 1..Len(queue') : queue'[j] # c /\ \E k \in 1..Len(queue) : queue'[j] = queue[k]
    BY <2>1, <2>2, PassesOn
  <2>4. \A d \in Askers : llamaServerCall[d].at \in {"picked", "waits"} => d = c
    BY <2>1
  <2>5. \A j \in 1..Len(queue') : llamaServerCall'[queue'[j]].at \in {"asked", "picked", "waits"}
    BY <2>2, <2>3, OfTheLine
  <2> QED BY <2>2, <2>3, <2>4, <2>5
<1>4. ASSUME NEW c \in Askers, L!Replaces(c)
      PROVE  InLine'
  <2>1. llamaServerSlot' = None /\ UNCHANGED <<queue, llamaServerCall>>
    BY <1>4 DEF L!Replaces
  <2> QED BY <2>1
<1>5. ASSUME NEW c \in Askers, L!SpawnFails(c)
      PROVE  InLine'
  <2>1. queue # <<>> /\ queue[1] = c
    BY <1>5, PassesOn DEF L!SpawnFails, L!HasLock
  <2>2. /\ queue' = Tail(queue)
        /\ \A d \in Askers : d # c => llamaServerCall'[d] = llamaServerCall[d]
        /\ llamaServerCall'[c].at \in {"idle", "has"}
    BY <1>5 DEF L!SpawnFails, L!Becomes, L!Leaves, L!Idle
  <2>3. /\ Once(queue')
        /\ \A j \in 1..Len(queue') : queue'[j] # c /\ \E k \in 1..Len(queue) : queue'[j] = queue[k]
    BY <2>1, <2>2, PassesOn
  <2>4. \A d \in Askers : llamaServerCall[d].at \in {"picked", "waits"} => d = c
    BY <2>1
  <2>5. \A j \in 1..Len(queue') : llamaServerCall'[queue'[j]].at \in {"asked", "picked", "waits"}
    BY <2>2, <2>3, OfTheLine
  <2> QED BY <2>2, <2>3, <2>4, <2>5
<1>6. ASSUME NEW c \in Askers, L!Spawn(c)
      PROVE  InLine'
  <2>1. /\ llamaServerCall[c].at = "picked" /\ llamaServerCall'[c].at = "waits"
        /\ UNCHANGED <<queue, llamaServerSlot>>
        /\ \A d \in Askers : d # c => llamaServerCall'[d] = llamaServerCall[d]
    BY <1>6 DEF L!Spawn
  <2> QED BY <2>1, OfTheLine
<1>7. ASSUME NEW c \in Askers, L!Healthy(c)
      PROVE  InLine'
  <2>1. queue # <<>> /\ queue[1] = c
    BY <1>7, PassesOn DEF L!Healthy, L!HasLock
  <2>2. /\ queue' = Tail(queue)
        /\ \A d \in Askers : d # c => llamaServerCall'[d] = llamaServerCall[d]
        /\ llamaServerCall'[c].at \in {"idle", "has"}
    BY <1>7 DEF L!Healthy, L!Becomes, L!Leaves, L!Idle
  <2>3. /\ Once(queue')
        /\ \A j \in 1..Len(queue') : queue'[j] # c /\ \E k \in 1..Len(queue) : queue'[j] = queue[k]
    BY <2>1, <2>2, PassesOn
  <2>4. \A d \in Askers : llamaServerCall[d].at \in {"picked", "waits"} => d = c
    BY <2>1
  <2>5. \A j \in 1..Len(queue') : llamaServerCall'[queue'[j]].at \in {"asked", "picked", "waits"}
    BY <2>2, <2>3, OfTheLine
  <2> QED BY <2>2, <2>3, <2>4, <2>5
<1>8. ASSUME NEW c \in Askers, L!HealthTimeout(c)
      PROVE  InLine'
  <2>1. queue # <<>> /\ queue[1] = c
    BY <1>8, PassesOn DEF L!HealthTimeout, L!HasLock
  <2>2. /\ queue' = Tail(queue)
        /\ \A d \in Askers : d # c => llamaServerCall'[d] = llamaServerCall[d]
        /\ llamaServerCall'[c].at \in {"idle", "has"}
    BY <1>8 DEF L!HealthTimeout, L!Becomes, L!Leaves, L!Idle
  <2>3. /\ Once(queue')
        /\ \A j \in 1..Len(queue') : queue'[j] # c /\ \E k \in 1..Len(queue) : queue'[j] = queue[k]
    BY <2>1, <2>2, PassesOn
  <2>4. \A d \in Askers : llamaServerCall[d].at \in {"picked", "waits"} => d = c
    BY <2>1
  <2>5. \A j \in 1..Len(queue') : llamaServerCall'[queue'[j]].at \in {"asked", "picked", "waits"}
    BY <2>2, <2>3, OfTheLine
  <2> QED BY <2>2, <2>3, <2>4, <2>5
<1>9. ASSUME NEW c \in Askers, L!Send(c)
      PROVE  InLine'
  <2>1. \/ llamaServerCall' = [llamaServerCall EXCEPT ![c] = L!Idle]
        \/ llamaServerCall' = [llamaServerCall EXCEPT ![c].at = "sent"]
    BY <1>9 DEF L!Send, L!Becomes, L!Leaves
  <2>2. /\ llamaServerCall'[c].at \in {"idle", "has", "sent"}
        /\ \A d \in Askers : d # c => llamaServerCall'[d] = llamaServerCall[d]
    <3>1. CASE llamaServerCall' = [llamaServerCall EXCEPT ![c] = L!Idle]
      BY <3>1 DEF L!Idle
    <3>2. CASE llamaServerCall' = [llamaServerCall EXCEPT ![c].at = "sent"]
      BY <3>2
    <3> QED BY <2>1, <3>1, <3>2
  <2>3. (\A i \in 1..Len(queue) : queue[i] # c) /\ UNCHANGED <<queue, llamaServerSlot>>
    BY <1>9 DEF L!Send
  <2> QED BY <2>2, <2>3, OfTheLine
<1>10. ASSUME NEW c \in Askers, L!Reply(c)
      PROVE  InLine'
  <2>1. \/ llamaServerCall' = [llamaServerCall EXCEPT ![c] = L!Idle]
        \/ llamaServerCall' = [llamaServerCall EXCEPT ![c].at = "has"]
    BY <1>10 DEF L!Reply, L!Becomes, L!Leaves
  <2>2. /\ llamaServerCall'[c].at \in {"idle", "has", "sent"}
        /\ \A d \in Askers : d # c => llamaServerCall'[d] = llamaServerCall[d]
    <3>1. CASE llamaServerCall' = [llamaServerCall EXCEPT ![c] = L!Idle]
      BY <3>1 DEF L!Idle
    <3>2. CASE llamaServerCall' = [llamaServerCall EXCEPT ![c].at = "has"]
      BY <3>2
    <3> QED BY <2>1, <3>1, <3>2
  <2>3. (\A i \in 1..Len(queue) : queue[i] # c) /\ UNCHANGED <<queue, llamaServerSlot>>
    BY <1>10 DEF L!Reply
  <2> QED BY <2>2, <2>3, OfTheLine
<1>11. ASSUME NEW c \in Askers, L!Broken(c)
      PROVE  InLine'
  <2>1. \/ llamaServerCall' = [llamaServerCall EXCEPT ![c] = L!Idle]
        \/ llamaServerCall' = [llamaServerCall EXCEPT ![c].at = "has"]
    BY <1>11 DEF L!Broken, L!Becomes, L!Leaves
  <2>2. /\ llamaServerCall'[c].at \in {"idle", "has", "sent"}
        /\ \A d \in Askers : d # c => llamaServerCall'[d] = llamaServerCall[d]
    <3>1. CASE llamaServerCall' = [llamaServerCall EXCEPT ![c] = L!Idle]
      BY <3>1 DEF L!Idle
    <3>2. CASE llamaServerCall' = [llamaServerCall EXCEPT ![c].at = "has"]
      BY <3>2
    <3> QED BY <2>1, <3>1, <3>2
  <2>3. (\A i \in 1..Len(queue) : queue[i] # c) /\ UNCHANGED <<queue, llamaServerSlot>>
    BY <1>11 DEF L!Broken
  <2> QED BY <2>2, <2>3, OfTheLine
<1>12. ASSUME NEW c \in Askers, L!Cancel(c)
      PROVE  InLine'
  <2>1. /\ llamaServerCall'[c].at = "idle" /\ llamaServerSlot' = llamaServerSlot
        /\ \A d \in Askers : d # c => llamaServerCall'[d] = llamaServerCall[d]
    BY <1>12 DEF L!Cancel, L!Leaves, L!Idle
  <2>2. CASE (\A i \in 1..Len(queue) : queue[i] # c) /\ queue' = queue
    BY <2>1, <2>2, OfTheLine
  <2>3. ASSUME NEW i \in 1..Len(queue), queue[i] = c, queue' = RemoveAt(queue, i)
        PROVE  InLine'
    <3>1. /\ Once(queue')
          /\ \A j \in 1..Len(queue') : queue'[j] # c /\ \E k \in 1..Len(queue) : queue'[j] = queue[k]
          /\ i # 1 => queue' # <<>> /\ queue'[1] = queue[1]
      BY <2>3, LeavesTheLine
    <3>2. \A j \in 1..Len(queue') : llamaServerCall'[queue'[j]].at \in {"asked", "picked", "waits"}
      BY <2>1, <3>1, OfTheLine
    <3>3. ASSUME NEW d \in Askers, llamaServerCall'[d].at \in {"picked", "waits"}
          PROVE  queue' # <<>> /\ queue'[1] = d /\ llamaServerSlot' = None
      <4>1. d # c /\ queue # <<>> /\ queue[1] = d /\ llamaServerSlot = None
        BY <2>1, <3>3
      <4> QED BY <2>1, <2>3, <3>1, <4>1
    <3> QED BY <3>1, <3>2, <3>3
  <2> QED BY <1>12, <2>2, <2>3, SameRemoval DEF L!Cancel
<1>13. ASSUME L!AppEnds
      PROVE  InLine'
  <2>1. queue' = <<>> /\ Len(queue') = 0
    BY <1>13 DEF L!AppEnds
  <2>2. \A c \in Askers : llamaServerCall'[c].at = "idle"
    BY <1>13 DEF L!AppEnds, L!Idle
  <2> QED BY <2>1, <2>2 DEF Once
<1>14. CASE UNCHANGED <<queue, llamaServerCall, llamaServerSlot>>
  BY <1>14
<1> QED
  BY <1>1, <1>2, <1>3, <1>4, <1>5, <1>6, <1>7, <1>8, <1>9, <1>10, <1>11, <1>12, <1>13,
    <1>14
  DEF L!Next, L!Readies, L!Waits, L!Calls, L!vars, L!Forward, L!Binds, L!Loads, L!Dies,
    L!OtherBinds, L!Delete

(* A process that was started keeps its model and its port, and one that   *)
(* was not is none.                                                        *)
LEMMA StartedStep ==
  ASSUME L!LlamaAssumption, ServerHolds, [L!Next]_(L!vars)
  PROVE  Started' /\ OnceStarted
<1> USE DEF ServerHolds, L!LlamaAssumption, Started, OnceStarted, ServerTypes, Processes, InSlot,
            Told, L!Pids, L!bounds
<1>1. ASSUME NEW c \in Askers, L!Replaces(c)
      PROVE  Started' /\ OnceStarted
  <2>1. \/ procs' = procs \/ \E p \in L!Pids : procs' = L!Kill(p)
    BY <1>1 DEF L!Replaces
  <2>2. spawns' = spawns
    BY <1>1 DEF L!Replaces
  <2>3. CASE procs' = procs
    BY <2>2, <2>3
  <2>4. ASSUME NEW p \in L!Pids, procs' = L!Kill(p)
        PROVE  Started' /\ OnceStarted
    <3>1. \A r \in L!Pids :
            /\ r > spawns => procs'[r].st = "none"
            /\ procs'[r].st = "starting" => procs'[r].port \in Ports
            /\ procs'[r].unread \in 0..Pipe
            /\ procs'[r].model = procs[r].model /\ procs'[r].port = procs[r].port
      <4>1. ServerTypes /\ Started
        BY DEF ServerHolds
      <4> HIDE DEF L!Kill, ServerTypes, Started, ServerHolds
      <4> QED BY <2>4, <4>1, KilledIsStarted
    <3> QED BY <2>2, <3>1
  <2> QED BY <2>1, <2>3, <2>4
<1>2. ASSUME NEW c \in Askers, L!Spawn(c)
      PROVE  Started' /\ OnceStarted
  BY <1>2, StaysAProcess DEF L!Spawn, L!NotStarted
<1>3. ASSUME NEW c \in Askers, L!HealthTimeout(c)
      PROVE  Started' /\ OnceStarted
  <2>1. \/ procs' = procs \/ \E p \in L!Pids : procs' = L!Kill(p)
    BY <1>3 DEF L!HealthTimeout
  <2>2. spawns' = spawns
    BY <1>3 DEF L!HealthTimeout
  <2>3. CASE procs' = procs
    BY <2>2, <2>3
  <2>4. ASSUME NEW p \in L!Pids, procs' = L!Kill(p)
        PROVE  Started' /\ OnceStarted
    <3>1. \A r \in L!Pids :
            /\ r > spawns => procs'[r].st = "none"
            /\ procs'[r].st = "starting" => procs'[r].port \in Ports
            /\ procs'[r].unread \in 0..Pipe
            /\ procs'[r].model = procs[r].model /\ procs'[r].port = procs[r].port
      <4>1. ServerTypes /\ Started
        BY DEF ServerHolds
      <4> HIDE DEF L!Kill, ServerTypes, Started, ServerHolds
      <4> QED BY <2>4, <4>1, KilledIsStarted
    <3> QED BY <2>2, <3>1
  <2> QED BY <2>1, <2>3, <2>4
<1>4. ASSUME NEW c \in Askers, L!Reply(c)
      PROVE  Started' /\ OnceStarted
  <2> DEFINE p == holder[llamaServerCall[c].port]
  <2>1. /\ p \in L!Pids /\ procs[p].unread < Pipe /\ spawns' = spawns
        /\ procs' = [procs EXCEPT ![p].unread = @ + 1]
    BY <1>4 DEF L!Reply
  <2> HIDE DEF p
  <2> QED BY <2>1, StaysAProcess
<1>5. ASSUME NEW c \in Askers, L!Cancel(c)
      PROVE  Started' /\ OnceStarted
  <2>1. \/ procs' = procs \/ \E p \in L!Pids : procs' = L!Kill(p)
    BY <1>5 DEF L!Cancel
  <2>2. spawns' = spawns
    BY <1>5 DEF L!Cancel
  <2>3. CASE procs' = procs
    BY <2>2, <2>3
  <2>4. ASSUME NEW p \in L!Pids, procs' = L!Kill(p)
        PROVE  Started' /\ OnceStarted
    <3>1. \A r \in L!Pids :
            /\ r > spawns => procs'[r].st = "none"
            /\ procs'[r].st = "starting" => procs'[r].port \in Ports
            /\ procs'[r].unread \in 0..Pipe
            /\ procs'[r].model = procs[r].model /\ procs'[r].port = procs[r].port
      <4>1. ServerTypes /\ Started
        BY DEF ServerHolds
      <4> HIDE DEF L!Kill, ServerTypes, Started, ServerHolds
      <4> QED BY <2>4, <4>1, KilledIsStarted
    <3> QED BY <2>2, <3>1
  <2> QED BY <2>1, <2>3, <2>4
<1>6. ASSUME NEW p \in L!Pids, L!Forward(p)
      PROVE  Started' /\ OnceStarted
  <2>1. procs[p].unread \in 1..Pipe
    BY <1>6 DEF L!Forward
  <2>2. procs' = [procs EXCEPT ![p].unread = procs[p].unread - 1] /\ UNCHANGED spawns
    BY <1>6 DEF L!Forward
  <2>3. \A r \in L!Pids :
          /\ procs'[r].st = procs[r].st /\ procs'[r].model = procs[r].model
          /\ procs'[r].port = procs[r].port /\ procs'[r].unread \in 0..Pipe
    BY <2>1, <2>2
  <2> QED BY <2>2, <2>3
<1>7. ASSUME NEW p \in L!Pids, L!Binds(p)
      PROVE  Started' /\ OnceStarted
  <2>1. /\ procs[p].st = "starting" /\ spawns' = spawns
        /\ \/ procs' = [procs EXCEPT ![p].st = "loading"]
           \/ procs' = [procs EXCEPT ![p].st = "dead"]
    BY <1>7 DEF L!Binds
  <2>2. CASE procs' = [procs EXCEPT ![p].st = "loading"]
    BY <2>1, <2>2
  <2>3. CASE procs' = [procs EXCEPT ![p].st = "dead"]
    BY <2>1, <2>3
  <2> QED BY <2>1, <2>2, <2>3
<1>8. ASSUME NEW p \in L!Pids, L!Loads(p)
      PROVE  Started' /\ OnceStarted
  BY <1>8, StaysAProcess DEF L!Loads
<1>9. ASSUME NEW p \in L!Pids, L!Dies(p)
      PROVE  Started' /\ OnceStarted
  BY <1>9, StaysAProcess DEF L!Dies, L!Exists, L!Runs
<1>10. ASSUME L!AppEnds
      PROVE  Started' /\ OnceStarted
  <2>1. /\ spawns' = spawns
        /\ procs' = [p \in L!Pids |-> IF L!Exists(p) THEN [procs[p] EXCEPT !.st = "dead"] ELSE procs[p]]
    BY <1>10 DEF L!AppEnds
  <2> QED BY <2>1, StaysAProcess DEF L!Exists, L!Runs
<1>11. CASE UNCHANGED <<procs, spawns>>
  BY <1>11
<1> QED
  BY <1>1, <1>2, <1>3, <1>4, <1>5, <1>6, <1>7, <1>8, <1>9, <1>10, <1>11
  DEF L!Next, L!Readies, L!Waits, L!Calls, L!vars, L!Ensure, L!PickPort, L!Found,
    L!SpawnFails, L!Healthy, L!Send, L!Broken, L!OtherBinds, L!Delete

(* What callers and the slot know of a process stays true of it.           *)
LEMMA ToldStep ==
  ASSUME L!LlamaAssumption, ServerHolds, [L!Next]_(L!vars)
  PROVE  Told' /\ InSlot'
<1>0. \A r \in 1..spawns : r \in 1..spawns' /\ procs'[r].model = procs[r].model
  BY StartedStep DEF OnceStarted
<1>told. Told
  BY DEF ServerHolds
<1>types. /\ spawns \in 0..MaxSpawns /\ MaxSpawns \in Nat /\ procs \in [L!Pids -> Processes]
      /\ llamaServerSlot \in Slots \cup {None}
  BY DEF ServerHolds, ServerTypes, L!LlamaAssumption
<1> USE DEF ServerHolds, L!LlamaAssumption, Told, InSlot, CallTypes, Asked, L!bounds
<1>1. ASSUME NEW c \in Askers, NEW m \in Served, L!Ensure(c, m)
      PROVE  Told' /\ InSlot'
  <2>1. /\ UNCHANGED <<spawns, llamaServerSlot>> /\ llamaServerCall'[c].at = "asked"
        /\ llamaServerCall'[c].model \in Served
        /\ \A d \in Askers : d # c => llamaServerCall'[d] = llamaServerCall[d]
    BY <1>1 DEF L!Ensure, L!Idle
  <2> QED BY <1>0, <2>1, TellsOne
<1>2. ASSUME NEW c \in Askers, NEW q \in Ports, L!PickPort(c, q)
      PROVE  Told' /\ InSlot'
  <2>1. /\ UNCHANGED <<spawns, llamaServerSlot>> /\ llamaServerCall'[c].at = "picked"
        /\ llamaServerCall'[c].model \in Served /\ llamaServerCall'[c].port \in Ports
        /\ spawns < MaxSpawns
        /\ \A d \in Askers : d # c => llamaServerCall'[d] = llamaServerCall[d]
    BY <1>2 DEF L!PickPort
  <2> QED BY <1>0, <2>1, TellsOne
<1>3. ASSUME NEW c \in Askers, L!Found(c)
      PROVE  Told' /\ InSlot'
  <2>1. /\ UNCHANGED <<spawns, llamaServerSlot>>
        /\ llamaServerSlot.pid \in 1..spawns /\ llamaServerSlot.port \in Ports
        /\ procs[llamaServerSlot.pid].model = llamaServerCall[c].model
    BY <1>3, <1>types DEF L!Found, Slots
  <2>2. /\ llamaServerCall'[c].model = llamaServerCall[c].model /\ llamaServerCall[c].model \in Served
        /\ llamaServerCall'[c].port = llamaServerSlot.port
        /\ llamaServerCall'[c].pid = llamaServerSlot.pid /\ llamaServerCall'[c].at = "has"
        /\ \A d \in Askers : d # c => llamaServerCall'[d] = llamaServerCall[d]
    BY <1>3 DEF L!Found
  <2>3. /\ llamaServerCall'[c].port \in Ports /\ llamaServerCall'[c].pid \in 1..spawns'
        /\ procs'[llamaServerCall'[c].pid].model = llamaServerCall'[c].model
    BY <1>0, <2>1, <2>2
  <2>4. Told'
    <3> HIDE DEF Told
    <3> QED BY <1>0, <1>told, <2>1, <2>2, <2>3, TellsOne
  <2>5. InSlot'
    BY <1>0, <2>1
  <2> QED BY <2>4, <2>5
<1>4. ASSUME NEW c \in Askers, L!Replaces(c)
      PROVE  Told' /\ InSlot'
  BY <1>4, <1>0, <1>told DEF L!Replaces
<1>5. ASSUME NEW c \in Askers, L!SpawnFails(c)
      PROVE  Told' /\ InSlot'
  <2>1. /\ UNCHANGED <<spawns, llamaServerSlot>> /\ llamaServerCall'[c].at = "idle"
        /\ \A d \in Askers : d # c => llamaServerCall'[d] = llamaServerCall[d]
    BY <1>5 DEF L!SpawnFails, L!Leaves, L!Idle
  <2> QED BY <1>0, <2>1, TellsOne
<1>6. ASSUME NEW c \in Askers, L!Spawn(c)
      PROVE  Told' /\ InSlot'
  <2>1. /\ spawns < MaxSpawns /\ spawns + 1 \in L!Pids /\ spawns + 1 \in 1..spawns'
        /\ spawns' = spawns + 1 /\ llamaServerSlot' = llamaServerSlot
        /\ llamaServerCall[c].model \in Served /\ llamaServerCall[c].port \in Ports
    BY <1>6, <1>types DEF L!Spawn, L!Pids
  <2>2. procs'[spawns + 1].model = llamaServerCall[c].model
    BY <1>6, <1>types, <2>1 DEF L!Spawn, L!NotStarted
  <2>3. /\ llamaServerCall'[c].model = llamaServerCall[c].model
        /\ llamaServerCall'[c].port = llamaServerCall[c].port
        /\ llamaServerCall'[c].pid = spawns + 1 /\ llamaServerCall'[c].at = "waits"
        /\ \A d \in Askers : d # c => llamaServerCall'[d] = llamaServerCall[d]
    BY <1>6 DEF L!Spawn
  <2>4. \A d \in Askers : llamaServerCall[d].at = "picked" => d = c
    BY <1>6 DEF L!Spawn, InLine
  <2>5. /\ procs'[llamaServerCall'[c].pid].model = llamaServerCall'[c].model
        /\ llamaServerCall'[c].model \in Served /\ llamaServerCall'[c].port \in Ports
        /\ llamaServerCall'[c].pid \in 1..spawns'
    BY <2>1, <2>2, <2>3
  <2>6. Told'
    <3> HIDE DEF Told
    <3> QED BY <1>0, <1>told, <2>3, <2>4, <2>5, TellsOne
  <2>7. InSlot'
    BY <1>0, <2>1
  <2> QED BY <2>6, <2>7
<1>7. ASSUME NEW c \in Askers, L!Healthy(c)
      PROVE  Told' /\ InSlot'
  <2>1. /\ UNCHANGED spawns /\ llamaServerCall[c].at = "waits"
        /\ llamaServerSlot' = [pid |-> llamaServerCall[c].pid, model |-> llamaServerCall[c].model,
                                port |-> llamaServerCall[c].port]
        /\ llamaServerCall' = [llamaServerCall EXCEPT ![c].at = "has"]
    BY <1>7 DEF L!Healthy, L!Becomes
  <2>2. /\ llamaServerCall'[c].model = llamaServerCall[c].model
        /\ llamaServerCall'[c].port = llamaServerCall[c].port
        /\ llamaServerCall'[c].pid = llamaServerCall[c].pid /\ llamaServerCall'[c].at = "has"
        /\ \A d \in Askers : d # c => llamaServerCall'[d] = llamaServerCall[d]
    BY <2>1
  <2>3. Told'
    <3>1. /\ llamaServerCall[c].model \in Served /\ llamaServerCall[c].port \in Ports
          /\ llamaServerCall[c].pid \in 1..spawns
          /\ procs[llamaServerCall[c].pid].model = llamaServerCall[c].model
      BY <1>told, <2>1
    <3>2. /\ llamaServerCall'[c].model \in Served /\ llamaServerCall'[c].port \in Ports
          /\ llamaServerCall'[c].pid \in 1..spawns'
          /\ procs'[llamaServerCall'[c].pid].model = llamaServerCall'[c].model
      BY <1>0, <2>2, <3>1
    <3> HIDE DEF Told
    <3> QED BY <1>0, <1>told, <2>1, <2>2, <3>2, TellsOne
  <2>4. InSlot'
    BY <1>0, <1>told, <2>1
  <2> QED BY <2>3, <2>4
<1>8. ASSUME NEW c \in Askers, L!HealthTimeout(c)
      PROVE  Told' /\ InSlot'
  <2>1. /\ UNCHANGED <<spawns, llamaServerSlot>> /\ llamaServerCall'[c].at = "idle"
        /\ \A d \in Askers : d # c => llamaServerCall'[d] = llamaServerCall[d]
    BY <1>8 DEF L!HealthTimeout, L!Leaves, L!Idle
  <2> QED BY <1>0, <2>1, TellsOne
<1>9. ASSUME NEW c \in Askers, L!Send(c)
      PROVE  Told' /\ InSlot'
  <2>1. \/ llamaServerCall' = [llamaServerCall EXCEPT ![c] = L!Idle]
        \/ llamaServerCall' = [llamaServerCall EXCEPT ![c].at = "sent"]
    BY <1>9 DEF L!Send, L!Becomes, L!Leaves
  <2>2. llamaServerCall[c].at \in {"has", "sent"} /\ UNCHANGED <<spawns, llamaServerSlot>>
    BY <1>9 DEF L!Send
  <2>3. CASE llamaServerCall' = [llamaServerCall EXCEPT ![c] = L!Idle]
    <3>1. /\ llamaServerCall'[c].at = "idle"
        /\ \A d \in Askers : d # c => llamaServerCall'[d] = llamaServerCall[d]
      BY <2>3 DEF L!Idle
    <3> QED BY <1>0, <2>2, <3>1, TellsOne
  <2>4. CASE llamaServerCall' = [llamaServerCall EXCEPT ![c].at = "sent"]
    <3>1. /\ llamaServerCall'[c] = [llamaServerCall[c] EXCEPT !.at = "sent"]
        /\ \A d \in Askers : d # c => llamaServerCall'[d] = llamaServerCall[d]
      BY <2>4
    <3>2. /\ llamaServerCall'[c].at = "sent" /\ llamaServerCall'[c].pid = llamaServerCall[c].pid
          /\ llamaServerCall'[c].model = llamaServerCall[c].model
          /\ llamaServerCall'[c].port = llamaServerCall[c].port
      BY <3>1
    <3>3. /\ llamaServerCall'[c].model \in Served /\ llamaServerCall'[c].port \in Ports
          /\ llamaServerCall'[c].pid \in 1..spawns'
          /\ procs'[llamaServerCall'[c].pid].model = llamaServerCall'[c].model
      BY <1>0, <1>told, <2>2, <3>2
    <3> QED BY <1>0, <1>told, <2>2, <3>1, <3>2, <3>3, TellsOne
  <2> QED BY <2>1, <2>3, <2>4
<1>10. ASSUME NEW c \in Askers, L!Reply(c)
      PROVE  Told' /\ InSlot'
  <2>1. \/ llamaServerCall' = [llamaServerCall EXCEPT ![c] = L!Idle]
        \/ llamaServerCall' = [llamaServerCall EXCEPT ![c].at = "has"]
    BY <1>10 DEF L!Reply, L!Becomes, L!Leaves
  <2>2. llamaServerCall[c].at \in {"has", "sent"} /\ UNCHANGED <<spawns, llamaServerSlot>>
    BY <1>10 DEF L!Reply
  <2>3. CASE llamaServerCall' = [llamaServerCall EXCEPT ![c] = L!Idle]
    <3>1. /\ llamaServerCall'[c].at = "idle"
        /\ \A d \in Askers : d # c => llamaServerCall'[d] = llamaServerCall[d]
      BY <2>3 DEF L!Idle
    <3> QED BY <1>0, <2>2, <3>1, TellsOne
  <2>4. CASE llamaServerCall' = [llamaServerCall EXCEPT ![c].at = "has"]
    <3>1. /\ llamaServerCall'[c] = [llamaServerCall[c] EXCEPT !.at = "has"]
        /\ \A d \in Askers : d # c => llamaServerCall'[d] = llamaServerCall[d]
      BY <2>4
    <3>2. /\ llamaServerCall'[c].at = "has" /\ llamaServerCall'[c].pid = llamaServerCall[c].pid
          /\ llamaServerCall'[c].model = llamaServerCall[c].model
          /\ llamaServerCall'[c].port = llamaServerCall[c].port
      BY <3>1
    <3>3. /\ llamaServerCall'[c].model \in Served /\ llamaServerCall'[c].port \in Ports
          /\ llamaServerCall'[c].pid \in 1..spawns'
          /\ procs'[llamaServerCall'[c].pid].model = llamaServerCall'[c].model
      BY <1>0, <1>told, <2>2, <3>2
    <3> QED BY <1>0, <1>told, <2>2, <3>1, <3>2, <3>3, TellsOne
  <2> QED BY <2>1, <2>3, <2>4
<1>11. ASSUME NEW c \in Askers, L!Broken(c)
      PROVE  Told' /\ InSlot'
  <2>1. \/ llamaServerCall' = [llamaServerCall EXCEPT ![c] = L!Idle]
        \/ llamaServerCall' = [llamaServerCall EXCEPT ![c].at = "has"]
    BY <1>11 DEF L!Broken, L!Becomes, L!Leaves
  <2>2. llamaServerCall[c].at \in {"has", "sent"} /\ UNCHANGED <<spawns, llamaServerSlot>>
    BY <1>11 DEF L!Broken
  <2>3. CASE llamaServerCall' = [llamaServerCall EXCEPT ![c] = L!Idle]
    <3>1. /\ llamaServerCall'[c].at = "idle"
        /\ \A d \in Askers : d # c => llamaServerCall'[d] = llamaServerCall[d]
      BY <2>3 DEF L!Idle
    <3> QED BY <1>0, <2>2, <3>1, TellsOne
  <2>4. CASE llamaServerCall' = [llamaServerCall EXCEPT ![c].at = "has"]
    <3>1. /\ llamaServerCall'[c] = [llamaServerCall[c] EXCEPT !.at = "has"]
        /\ \A d \in Askers : d # c => llamaServerCall'[d] = llamaServerCall[d]
      BY <2>4
    <3>2. /\ llamaServerCall'[c].at = "has" /\ llamaServerCall'[c].pid = llamaServerCall[c].pid
          /\ llamaServerCall'[c].model = llamaServerCall[c].model
          /\ llamaServerCall'[c].port = llamaServerCall[c].port
      BY <3>1
    <3>3. /\ llamaServerCall'[c].model \in Served /\ llamaServerCall'[c].port \in Ports
          /\ llamaServerCall'[c].pid \in 1..spawns'
          /\ procs'[llamaServerCall'[c].pid].model = llamaServerCall'[c].model
      BY <1>0, <1>told, <2>2, <3>2
    <3> QED BY <1>0, <1>told, <2>2, <3>1, <3>2, <3>3, TellsOne
  <2> QED BY <2>1, <2>3, <2>4
<1>12. ASSUME NEW c \in Askers, L!Cancel(c)
      PROVE  Told' /\ InSlot'
  <2>1. /\ UNCHANGED <<spawns, llamaServerSlot>> /\ llamaServerCall'[c].at = "idle"
        /\ \A d \in Askers : d # c => llamaServerCall'[d] = llamaServerCall[d]
    BY <1>12 DEF L!Cancel, L!Leaves, L!Idle
  <2> QED BY <1>0, <2>1, TellsOne
<1>13. ASSUME L!AppEnds
      PROVE  Told' /\ InSlot'
  BY <1>13 DEF L!AppEnds, L!Idle
<1>14. CASE UNCHANGED <<llamaServerCall, llamaServerSlot, spawns>>
  BY <1>14, <1>0, <1>told
<1> QED
  BY <1>1, <1>2, <1>3, <1>4, <1>5, <1>6, <1>7, <1>8, <1>9, <1>10, <1>11, <1>12, <1>13,
    <1>14
  DEF L!Next, L!Readies, L!Waits, L!Calls, L!vars, L!Forward, L!Binds, L!Loads, L!Dies,
    L!OtherBinds, L!Delete

(* A port is held by a process that bound it and has not died.             *)
LEMMA HeldStep ==
  ASSUME L!LlamaAssumption, ServerHolds, [L!Next]_(L!vars)
  PROVE  Held'
<1>0. \A r \in 1..spawns : procs'[r].port = procs[r].port
  BY StartedStep DEF OnceStarted
<1>types. /\ spawns \in 0..MaxSpawns /\ MaxSpawns \in Nat /\ procs \in [L!Pids -> Processes]
      /\ holder \in [Ports -> L!Pids \cup {L!Free, L!Other}]
      /\ 1..spawns \subseteq L!Pids
      /\ ServerTypes /\ Started /\ Held
  BY DEF ServerHolds, ServerTypes, L!LlamaAssumption, L!Pids
<1> USE DEF ServerHolds, L!LlamaAssumption, L!bounds
<1>1. ASSUME NEW c \in Askers, L!Replaces(c)
      PROVE  Held'
  <2>1. holder' = holder /\ (procs' = procs \/ \E p \in L!Pids : procs' = L!Kill(p))
    BY <1>1, <1>types DEF L!Replaces, InSlot, Told
  <2>2. ASSUME NEW p \in L!Pids, procs' = L!Kill(p), NEW r \in 1..spawns, Up(r)
        PROVE  Up(r)'
    BY <1>types, <2>2, KillsOne DEF Up
  <2>3. ASSUME NEW r \in 1..spawns, Up(r)
        PROVE  Up(r)'
    BY <2>1, <2>2, <2>3 DEF Up
  <2> QED BY <1>0, <1>types, <2>1, <2>3, StaysHeld
<1>2. ASSUME NEW c \in Askers, L!Spawn(c)
      PROVE  Held'
  <2>1. holder' = holder /\ \A r \in 1..spawns : procs'[r] = procs[r]
    BY <1>2, <1>types DEF L!Spawn
  <2> QED BY <1>0, <1>types, <2>1, StaysHeld DEF Up
<1>3. ASSUME NEW c \in Askers, L!HealthTimeout(c)
      PROVE  Held'
  <2>1. holder' = holder /\ (procs' = procs \/ \E p \in L!Pids : procs' = L!Kill(p))
    BY <1>3, <1>types DEF L!HealthTimeout, InSlot, Told
  <2>2. ASSUME NEW p \in L!Pids, procs' = L!Kill(p), NEW r \in 1..spawns, Up(r)
        PROVE  Up(r)'
    BY <1>types, <2>2, KillsOne DEF Up
  <2>3. ASSUME NEW r \in 1..spawns, Up(r)
        PROVE  Up(r)'
    BY <2>1, <2>2, <2>3 DEF Up
  <2> QED BY <1>0, <1>types, <2>1, <2>3, StaysHeld
<1>4. ASSUME NEW c \in Askers, L!Reply(c)
      PROVE  Held'
  <2> DEFINE p == holder[llamaServerCall[c].port]
  <2>1. /\ p \in L!Pids /\ holder' = holder
        /\ procs' = [procs EXCEPT ![p].unread = @ + 1]
    BY <1>4 DEF L!Reply
  <2> HIDE DEF p
  <2>2. \A r \in 1..spawns : procs'[r].st = procs[r].st
    BY <1>types, <2>1
  <2> QED BY <1>0, <1>types, <2>1, <2>2, StaysHeld DEF Up
<1>5. ASSUME NEW c \in Askers, L!Cancel(c)
      PROVE  Held'
  <2>1. holder' = holder /\ (procs' = procs \/ \E p \in L!Pids : procs' = L!Kill(p))
    BY <1>5, <1>types DEF L!Cancel, InSlot, Told
  <2>2. ASSUME NEW p \in L!Pids, procs' = L!Kill(p), NEW r \in 1..spawns, Up(r)
        PROVE  Up(r)'
    BY <1>types, <2>2, KillsOne DEF Up
  <2>3. ASSUME NEW r \in 1..spawns, Up(r)
        PROVE  Up(r)'
    BY <2>1, <2>2, <2>3 DEF Up
  <2> QED BY <1>0, <1>types, <2>1, <2>3, StaysHeld
<1>6. ASSUME NEW p \in L!Pids, L!Forward(p)
      PROVE  Held'
  <2>1. holder' = holder /\ \A r \in 1..spawns : procs'[r].st = procs[r].st
    BY <1>6, <1>types DEF L!Forward
  <2> QED BY <1>0, <1>types, <2>1, StaysHeld DEF Up
<1>7. ASSUME NEW p \in L!Pids, L!Binds(p)
      PROVE  Held'
  <2>1. /\ ~Up(p) /\ p \in 1..spawns /\ procs[p].port \in Ports
        /\ \/ /\ holder' = [holder EXCEPT ![procs[p].port] = p]
              /\ procs' = [procs EXCEPT ![p].st = "loading"]
           \/ holder' = holder /\ procs' = [procs EXCEPT ![p].st = "dead"]
    BY <1>7, <1>types DEF L!Binds, Started, Up, L!Pids
  <2>2. CASE holder' = holder /\ procs' = [procs EXCEPT ![p].st = "dead"]
    <3>1. \A r \in 1..spawns : Up(r) => procs'[r] = procs[r]
      BY <1>types, <2>1, <2>2
    <3> QED BY <1>0, <1>types, <2>2, <3>1, StaysHeld DEF Up
  <2>3. CASE /\ holder' = [holder EXCEPT ![procs[p].port] = p]
             /\ procs' = [procs EXCEPT ![p].st = "loading"]
    <3>1. /\ Up(p)' /\ \A r \in L!Pids : Up(r) => Up(r)'
          /\ \A r \in L!Pids : procs'[r].port = procs[r].port
      BY <1>types, <2>1, <2>3 DEF Up
    <3>2. ASSUME NEW q \in Ports, holder'[q] \in L!Pids
          PROVE  Up(holder[q])' /\ procs'[holder'[q]].port = q
      BY <1>types, <2>1, <2>3, <3>1, <3>2 DEF Held, Up
    <3> QED BY <2>3, <3>1, <3>2 DEF Held, Up
  <2> QED BY <2>1, <2>2, <2>3
<1>8. ASSUME NEW p \in L!Pids, L!Loads(p)
      PROVE  Held'
  BY <1>8, <1>0, <1>types, StaysHeld DEF L!Loads, Up
<1>9. ASSUME NEW p \in L!Pids, L!Dies(p)
      PROVE  Held'
  <2>1. /\ \A q \in Ports : holder'[q] = IF holder[q] = p THEN L!Free ELSE holder[q]
        /\ \A r \in L!Pids : r # p => procs'[r] = procs[r]
    BY <1>9, <1>types DEF L!Dies, L!Freed
  <2> QED BY <1>types, <2>1 DEF Held, Up, L!Free, L!Pids
<1>10. ASSUME NEW q \in Ports, L!OtherBinds(q)
      PROVE  Held'
  BY <1>10, <1>types DEF L!OtherBinds, L!Other, Held, Up, L!Pids
<1>11. ASSUME L!AppEnds
      PROVE  Held'
  <2>1. \A q \in Ports : holder'[q] \notin L!Pids
    BY <1>11, <1>types DEF L!AppEnds, L!Freed, L!Free, L!Pids
  <2> QED BY <2>1 DEF Held
<1>12. CASE UNCHANGED <<procs, holder, spawns>>
  BY <1>12, <1>0, <1>types, StaysHeld DEF Up
<1> QED
  BY <1>1, <1>2, <1>3, <1>4, <1>5, <1>6, <1>7, <1>8, <1>9, <1>10, <1>11, <1>12
  DEF L!Next, L!Readies, L!Waits, L!Calls, L!vars, L!Ensure, L!PickPort, L!Found,
    L!SpawnFails, L!Healthy, L!Send, L!Broken, L!Delete

(* Whatever step it is, no process goes on that nobody has a handle of.    *)
LEMMA NoServerLeftStep ==
  ASSUME L!LlamaAssumption, ServerHolds, [L!Next]_(L!vars)
  PROVE  L!NoServerLeft'
<1>types. /\ spawns \in 0..MaxSpawns /\ MaxSpawns \in Nat /\ procs \in [L!Pids -> Processes]
      /\ llamaServerCall \in [Askers -> Asked]
      /\ 1..spawns \subseteq L!Pids
      /\ ServerTypes /\ L!NoServerLeft
  BY DEF ServerHolds, ServerTypes, CallTypes, L!LlamaAssumption, L!Pids
<1> USE DEF ServerHolds, L!LlamaAssumption, L!bounds
<1>1. ASSUME NEW c \in Askers, NEW m \in Served, L!Ensure(c, m)
      PROVE  L!NoServerLeft'
  <2>1. /\ UNCHANGED <<procs, llamaServerSlot>> /\ llamaServerCall[c].at # "waits"
        /\ \A d \in Askers : d # c => llamaServerCall'[d] = llamaServerCall[d]
    BY <1>1, <1>types DEF L!Ensure, L!Becomes, L!Leaves
  <2> QED BY <1>types, <2>1 DEF L!NoServerLeft, L!Runs
<1>2. ASSUME NEW c \in Askers, NEW q \in Ports, L!PickPort(c, q)
      PROVE  L!NoServerLeft'
  <2>1. /\ UNCHANGED <<procs, llamaServerSlot>> /\ llamaServerCall[c].at # "waits"
        /\ \A d \in Askers : d # c => llamaServerCall'[d] = llamaServerCall[d]
    BY <1>2, <1>types DEF L!PickPort, L!Becomes, L!Leaves
  <2> QED BY <1>types, <2>1 DEF L!NoServerLeft, L!Runs
<1>3. ASSUME NEW c \in Askers, L!Found(c)
      PROVE  L!NoServerLeft'
  <2>1. /\ UNCHANGED <<procs, llamaServerSlot>> /\ llamaServerCall[c].at # "waits"
        /\ \A d \in Askers : d # c => llamaServerCall'[d] = llamaServerCall[d]
    BY <1>3, <1>types DEF L!Found, L!Becomes, L!Leaves
  <2> QED BY <1>types, <2>1 DEF L!NoServerLeft, L!Runs
<1>4. ASSUME NEW c \in Askers, L!Replaces(c)
      PROVE  L!NoServerLeft'
  <2>1. /\ llamaServerSlot # None /\ procs' = L!Kill(llamaServerSlot.pid)
        /\ llamaServerSlot.pid \in L!Pids /\ llamaServerCall' = llamaServerCall
    BY <1>4, <1>types DEF L!Replaces, InSlot
  <2>2. \A r \in L!Pids : L!Runs(r)' => r # llamaServerSlot.pid /\ L!Runs(r)
    BY <1>types, <2>1, KillsOne DEF L!Runs
  <2> QED BY <1>types, <2>1, <2>2 DEF L!NoServerLeft
<1>5. ASSUME NEW c \in Askers, L!SpawnFails(c)
      PROVE  L!NoServerLeft'
  <2>1. /\ UNCHANGED <<procs, llamaServerSlot>> /\ llamaServerCall[c].at # "waits"
        /\ \A d \in Askers : d # c => llamaServerCall'[d] = llamaServerCall[d]
    BY <1>5, <1>types DEF L!SpawnFails, L!Becomes, L!Leaves
  <2> QED BY <1>types, <2>1 DEF L!NoServerLeft, L!Runs
<1>6. ASSUME NEW c \in Askers, L!Spawn(c)
      PROVE  L!NoServerLeft'
  <2>1. /\ spawns + 1 \in L!Pids /\ llamaServerSlot' = llamaServerSlot
        /\ \A r \in L!Pids : r # spawns + 1 => procs'[r] = procs[r]
        /\ llamaServerCall[c].at # "waits"
        /\ llamaServerCall'[c].at = "waits" /\ llamaServerCall'[c].pid = spawns + 1
        /\ \A d \in Askers : d # c => llamaServerCall'[d] = llamaServerCall[d]
    BY <1>6, <1>types DEF L!Spawn, Told, L!Pids
  <2> QED BY <1>types, <2>1 DEF L!NoServerLeft, L!Runs
<1>7. ASSUME NEW c \in Askers, L!Healthy(c)
      PROVE  L!NoServerLeft'
  <2>1. /\ procs' = procs /\ llamaServerCall[c].at = "waits" /\ llamaServerSlot = None
        /\ llamaServerSlot' = [pid |-> llamaServerCall[c].pid, model |-> llamaServerCall[c].model,
                                port |-> llamaServerCall[c].port]
    BY <1>7 DEF L!Healthy, InLine
  <2>2. llamaServerSlot' \in Slots /\ llamaServerSlot' # None
    BY <1>types, <2>1 DEF Told, Slots
  <2>3. \A d \in Askers : llamaServerCall[d].at = "waits" => d = c
    BY <2>1 DEF InLine
  <2> QED BY <2>1, <2>2, <2>3 DEF L!NoServerLeft, L!Runs
<1>8. ASSUME NEW c \in Askers, L!HealthTimeout(c)
      PROVE  L!NoServerLeft'
  <2>1. /\ llamaServerSlot' = llamaServerSlot
        /\ \/ procs' = procs /\ llamaServerCall[c].at # "waits"
           \/ procs' = L!Kill(llamaServerCall[c].pid) /\ llamaServerCall[c].pid \in L!Pids
        /\ \A d \in Askers : d # c => llamaServerCall'[d] = llamaServerCall[d]
    BY <1>8, <1>types DEF L!HealthTimeout, L!Leaves, Told
  <2>2. \A r \in L!Pids : L!Runs(r)' =>
          L!Runs(r) /\ (llamaServerCall[c].at = "waits" => r # llamaServerCall[c].pid)
    BY <1>types, <2>1, KillsOne DEF L!Runs
  <2> QED BY <1>types, <2>1, <2>2 DEF L!NoServerLeft
<1>9. ASSUME NEW c \in Askers, L!Send(c)
      PROVE  L!NoServerLeft'
  <2>1. /\ UNCHANGED <<procs, llamaServerSlot>> /\ llamaServerCall[c].at # "waits"
        /\ \A d \in Askers : d # c => llamaServerCall'[d] = llamaServerCall[d]
    BY <1>9, <1>types DEF L!Send, L!Becomes, L!Leaves
  <2> QED BY <1>types, <2>1 DEF L!NoServerLeft, L!Runs
<1>10. ASSUME NEW c \in Askers, L!Reply(c)
      PROVE  L!NoServerLeft'
  <2> DEFINE p == holder[llamaServerCall[c].port]
  <2>1. /\ p \in L!Pids /\ llamaServerSlot' = llamaServerSlot /\ llamaServerCall[c].at # "waits"
        /\ procs' = [procs EXCEPT ![p].unread = @ + 1]
        /\ \A d \in Askers : d # c => llamaServerCall'[d] = llamaServerCall[d]
    BY <1>10, <1>types DEF L!Reply, L!Becomes, L!Leaves
  <2> HIDE DEF p
  <2>2. \A r \in L!Pids : procs'[r].st = procs[r].st
    BY <1>types, <2>1
  <2> QED BY <1>types, <2>1, <2>2 DEF L!NoServerLeft, L!Runs
<1>11. ASSUME NEW c \in Askers, L!Broken(c)
      PROVE  L!NoServerLeft'
  <2>1. /\ UNCHANGED <<procs, llamaServerSlot>> /\ llamaServerCall[c].at # "waits"
        /\ \A d \in Askers : d # c => llamaServerCall'[d] = llamaServerCall[d]
    BY <1>11, <1>types DEF L!Broken, L!Becomes, L!Leaves
  <2> QED BY <1>types, <2>1 DEF L!NoServerLeft, L!Runs
<1>12. ASSUME NEW c \in Askers, L!Cancel(c)
      PROVE  L!NoServerLeft'
  <2>1. /\ llamaServerSlot' = llamaServerSlot
        /\ \/ procs' = procs /\ llamaServerCall[c].at # "waits"
           \/ procs' = L!Kill(llamaServerCall[c].pid) /\ llamaServerCall[c].pid \in L!Pids
        /\ \A d \in Askers : d # c => llamaServerCall'[d] = llamaServerCall[d]
    <3>1. llamaServerSlot' = llamaServerSlot /\ llamaServerCall' = [llamaServerCall EXCEPT ![c] = L!Idle]
      BY <1>12 DEF L!Cancel, L!Leaves
    <3>2. CASE llamaServerCall[c].at = "waits"
      BY <1>12, <1>types, <3>1, <3>2 DEF L!Cancel, Told
    <3>3. CASE llamaServerCall[c].at # "waits"
      BY <1>12, <1>types, <3>1, <3>3 DEF L!Cancel
    <3> QED BY <3>2, <3>3
  <2>2. \A r \in L!Pids : L!Runs(r)' =>
          L!Runs(r) /\ (llamaServerCall[c].at = "waits" => r # llamaServerCall[c].pid)
    BY <1>types, <2>1, KillsOne DEF L!Runs
  <2> QED BY <1>types, <2>1, <2>2 DEF L!NoServerLeft
<1>13. ASSUME NEW p \in L!Pids, L!Forward(p)
      PROVE  L!NoServerLeft'
  <2>1. /\ UNCHANGED <<llamaServerSlot, llamaServerCall>>
        /\ \A r \in L!Pids : L!Runs(r)' => L!Runs(r)
    BY <1>13, <1>types DEF L!Forward, L!Runs
  <2> QED BY <2>1 DEF L!NoServerLeft
<1>14. ASSUME NEW p \in L!Pids, L!Binds(p)
      PROVE  L!NoServerLeft'
  <2>1. /\ UNCHANGED <<llamaServerSlot, llamaServerCall>>
        /\ \A r \in L!Pids : L!Runs(r)' => L!Runs(r)
    BY <1>14, <1>types DEF L!Binds, L!Runs
  <2> QED BY <2>1 DEF L!NoServerLeft
<1>15. ASSUME NEW p \in L!Pids, L!Loads(p)
      PROVE  L!NoServerLeft'
  <2>1. /\ UNCHANGED <<llamaServerSlot, llamaServerCall>>
        /\ \A r \in L!Pids : L!Runs(r)' => L!Runs(r)
    BY <1>15, <1>types DEF L!Loads, L!Runs
  <2> QED BY <2>1 DEF L!NoServerLeft
<1>16. ASSUME NEW p \in L!Pids, L!Dies(p)
      PROVE  L!NoServerLeft'
  <2>1. /\ UNCHANGED <<llamaServerSlot, llamaServerCall>>
        /\ \A r \in L!Pids : L!Runs(r)' => L!Runs(r)
    BY <1>16, <1>types DEF L!Dies, L!Runs
  <2> QED BY <2>1 DEF L!NoServerLeft
<1>17. ASSUME L!AppEnds
      PROVE  L!NoServerLeft'
  <2>1. \A r \in L!Pids : ~L!Runs(r)'
    BY <1>17, <1>types DEF L!AppEnds, L!Exists, L!Runs
  <2> QED BY <2>1 DEF L!NoServerLeft
<1>18. CASE UNCHANGED <<procs, llamaServerSlot, llamaServerCall>>
  BY <1>18, <1>types DEF L!NoServerLeft, L!Runs
<1> QED
  BY <1>1, <1>2, <1>3, <1>4, <1>5, <1>6, <1>7, <1>8, <1>9, <1>10, <1>11, <1>12, <1>13,
    <1>14, <1>15, <1>16, <1>17, <1>18
  DEF L!Next, L!Readies, L!Waits, L!Calls, L!vars, L!OtherBinds, L!Delete

-----------------------------------------------------------------------------
(* The models' files                                                       *)

ModelBodies == {"none", "short", "good", "other", "own"}
ModelPcs == {"idle", "request", "receive", "check", "promote", "write"}
ModelTypes(k) ==
  /\ M(k)!FilesTypeOK
  /\ staging \in [pc : {"idle", "copy", "done"}, left : SUBSET k.bundled,
                  now : k.bundled \cup {"none"}, failed : SUBSET M(k)!Files]
  /\ get \in [{"jarvis", "gguf"} -> [pc : ModelPcs, got : ModelBodies,
                                     result : {"none", "ok", "failed"}]]

(* How far a staging, a classifier's download and the language model's are *)
(* (the one to stage is cut short, and what is to be written was checked). *)
ModelsSoFar ==
  /\ staging.now # "none" => disk[staging.now] = "short"
  /\ get["jarvis"].pc = "write" => get["jarvis"].got = "good"
  /\ get["gguf"].pc \in {"check", "promote"} =>
       partial = get["gguf"].got /\ get["gguf"].got # "none"
  /\ get["gguf"].pc = "promote" => ~pin.sha /\ anchor \in {"none", get["gguf"].got}

ModelsHold(k) == ModelTypes(k) /\ ModelsSoFar /\ M(k)!LoadsVerified /\ M(k)!ListedIsWhole

(* What is bundled is a file, and not the language model or a download.    *)
LEMMA WhatShips ==
  ASSUME NEW k, M(k)!ModelFilesAssumption
  PROVE  /\ k.bundled \subseteq M(k)!Files \ {"jarvis", "gguf"} /\ "none" \notin k.bundled
         /\ k.downloads \subseteq {"jarvis", "gguf"}
         /\ {"jarvis", "gguf"} \subseteq M(k)!Files
  BY DEF M!ModelFilesAssumption, M!Files

(* At first there are no files.                                            *)
LEMMA ModelsInit ==
  ASSUME NEW k, M(k)!ModelFilesAssumption, M(k)!Init
  PROVE  ModelsHold(k)
<1>1. ModelTypes(k)
  BY DEF ModelTypes, M!Init, M!FilesTypeOK, M!Bodies, ModelBodies, ModelPcs, M!Idle, M!NoStaging,
         M!Nothing
<1>2. ModelsSoFar
  BY DEF ModelsSoFar, M!Init, M!Idle, M!NoStaging
<1>3. M(k)!LoadsVerified
  BY DEF M!Init, M!Nothing, M!LoadsVerified
<1>4. M(k)!ListedIsWhole
  BY DEF M!Init, M!ListedIsWhole, M!Listed, M!GgufSized, M!Exists, M!Files
<1> QED BY <1>1, <1>2, <1>3, <1>4 DEF ModelsHold

(* Staging touches what ships only, and only what was not there.           *)
LEMMA StagingStep ==
  ASSUME NEW k, M(k)!ModelFilesAssumption, ModelsHold(k),
         M(k)!Launch \/ M(k)!Copied \/ M(k)!Staged \/ \E f \in k.bundled : M(k)!Stage(f)
  PROVE  /\ ModelsHold(k)' /\ UNCHANGED <<partial, anchor, pin, get, running, outside>>
         /\ disk'["jarvis"] = disk["jarvis"] /\ disk'["gguf"] = disk["gguf"]
         /\ \A f \in M(k)!Files : disk[f] = "own" => disk'[f] = "own"
<1>1. /\ staging \in [pc : {"idle", "copy", "done"}, left : SUBSET k.bundled,
                      now : k.bundled \cup {"none"}, failed : SUBSET M(k)!Files]
      /\ disk \in [M(k)!Files -> ModelBodies]
      /\ k.bundled \subseteq M(k)!Files \ {"jarvis", "gguf"} /\ "none" \notin k.bundled
  BY WhatShips DEF ModelsHold, ModelTypes, M!FilesTypeOK, M!Bodies, ModelBodies
<1> DEFINE Stays ==
      /\ UNCHANGED <<partial, anchor, pin, get, running, outside>>
      /\ staging' \in [pc : {"idle", "copy", "done"}, left : SUBSET k.bundled,
                       now : k.bundled \cup {"none"}, failed : SUBSET M(k)!Files]
      /\ disk' \in [M(k)!Files -> ModelBodies]
      /\ disk'["jarvis"] = disk["jarvis"] /\ disk'["gguf"] = disk["gguf"]
      /\ \A f \in M(k)!Files : disk[f] = "own" => disk'[f] = "own"
      /\ staging'.now # "none" => disk'[staging'.now] = "short"
<1>2. Stays
  <2>1. CASE M(k)!Launch
    BY <1>1, <2>1 DEF M!Launch, M!NoStaging
  <2>2. CASE M(k)!Staged
    BY <1>1, <2>2 DEF M!Staged, ModelsHold, ModelsSoFar
  <2>3. ASSUME NEW f \in k.bundled, M(k)!Stage(f)
        PROVE  Stays
    <3>1. /\ staging.now = "none" /\ UNCHANGED <<partial, anchor, pin, get, running, outside>>
          /\ \/ staging' = [staging EXCEPT !.left = staging.left \ {f}] /\ disk' = disk
             \/ /\ staging' = [staging EXCEPT !.now = f] /\ disk[f] = "none"
                /\ disk' = [disk EXCEPT ![f] = "short"]
      BY <2>3 DEF M!Stage, M!Put, M!Keeps, M!Exists
    <3>2. CASE staging' = [staging EXCEPT !.left = staging.left \ {f}] /\ disk' = disk
      BY <1>1, <3>1, <3>2
    <3>3. CASE /\ staging' = [staging EXCEPT !.now = f] /\ disk[f] = "none"
               /\ disk' = [disk EXCEPT ![f] = "short"]
      BY <1>1, <3>1, <3>3 DEF ModelBodies
    <3> QED BY <3>1, <3>2, <3>3
  <2>4. CASE M(k)!Copied
    <3>1. /\ staging.now # "none" /\ UNCHANGED <<partial, anchor, pin, get, running, outside>>
          /\ \/ /\ staging' = [staging EXCEPT !.left = staging.left \ {staging.now}, !.now = "none"]
                /\ disk' = [disk EXCEPT ![staging.now] = "good"]
             \/ /\ staging' = [staging EXCEPT !.left = staging.left \ M(k)!Together(staging.now),
                     !.now = "none",
                     !.failed = staging.failed \cup M(k)!Together(staging.now)]
                /\ disk' = disk
      BY <2>4 DEF M!Copied, M!Put
    <3>2. staging.now \in k.bundled /\ disk[staging.now] = "short"
      BY <1>1, <3>1 DEF ModelsHold, ModelsSoFar
    <3>3. M(k)!Together(staging.now) \subseteq M(k)!Files
      BY <1>1, <3>2 DEF M!Together, M!Files
    <3>4. CASE /\ staging' = [staging EXCEPT !.left = staging.left \ {staging.now}, !.now = "none"]
               /\ disk' = [disk EXCEPT ![staging.now] = "good"]
      <4>1. /\ staging'.now = "none"
            /\ staging' \in [pc : {"idle", "copy", "done"}, left : SUBSET k.bundled,
                             now : k.bundled \cup {"none"}, failed : SUBSET M(k)!Files]
        BY <1>1, <3>2, <3>4
      <4> DEFINE now == staging.now
      <4>2. /\ disk' = [disk EXCEPT ![now] = "good"] /\ now \in k.bundled /\ disk[now] = "short"
        BY <3>2, <3>4
      <4> HIDE DEF now
      <4>3. /\ disk' \in [M(k)!Files -> ModelBodies]
            /\ disk'["jarvis"] = disk["jarvis"] /\ disk'["gguf"] = disk["gguf"]
            /\ \A f \in M(k)!Files : disk[f] = "own" => disk'[f] = "own"
        BY <1>1, <4>2 DEF ModelBodies
      <4> QED BY <3>1, <4>1, <4>3
    <3>5. CASE /\ staging' = [staging EXCEPT !.left = staging.left \ M(k)!Together(staging.now),
                   !.now = "none", !.failed = staging.failed \cup M(k)!Together(staging.now)]
               /\ disk' = disk
      BY <1>1, <3>1, <3>3, <3>5
    <3> QED BY <3>1, <3>4, <3>5
  <2> QED BY <2>1, <2>2, <2>3, <2>4
<1>3. ModelTypes(k)'
  BY <1>2 DEF ModelsHold, ModelTypes, M!FilesTypeOK, M!Bodies, ModelBodies
<1>4. ModelsSoFar'
  BY <1>2 DEF ModelsHold, ModelsSoFar
<1>5. M(k)!LoadsVerified' /\ M(k)!ListedIsWhole'
  BY <1>2 DEF ModelsHold, M!LoadsVerified, M!ListedIsWhole, M!Listed, M!GgufSized, M!Exists
<1> QED BY <1>2, <1>3, <1>4, <1>5 DEF ModelsHold

(* A classifier is written over what is there once it was checked.         *)
LEMMA ClassifierStep ==
  ASSUME NEW k, M(k)!ModelFilesAssumption, ModelsHold(k),
         M(k)!InstallWake \/ M(k)!ReceiveWake \/ M(k)!WriteWake
  PROVE  /\ ModelsHold(k)' /\ UNCHANGED <<anchor, pin, staging, running, outside>>
         /\ \A f \in M(k)!Files : f # "jarvis" => disk'[f] = disk[f]
         /\ get'["gguf"] = get["gguf"]
         /\ M(k)!Succeeds("jarvis") => disk'["jarvis"] = "good"
<1>1. /\ disk \in [M(k)!Files -> ModelBodies] /\ {"jarvis", "gguf"} \subseteq M(k)!Files
      /\ get \in [{"jarvis", "gguf"} -> [pc : ModelPcs, got : ModelBodies,
                                         result : {"none", "ok", "failed"}]]
      /\ k.bundled \subseteq M(k)!Files \ {"jarvis", "gguf"}
      /\ staging.now \in k.bundled \cup {"none"}
  BY WhatShips DEF ModelsHold, ModelTypes, M!FilesTypeOK, M!Bodies, ModelBodies
<1> DEFINE Ended == [get EXCEPT !["jarvis"] = [pc |-> "idle", got |-> "none", result |-> "ok"]]
           Failed == [get EXCEPT !["jarvis"] = [pc |-> "idle", got |-> "none", result |-> "failed"]]
           Requests == [get EXCEPT !["jarvis"].pc = "request"]
           Writes == [get EXCEPT !["jarvis"] = [pc |-> "write", got |-> "good", result |-> "none"]]
<1>2. /\ UNCHANGED <<partial, anchor, pin, staging, running, outside>>
      /\ \/ disk' = disk /\ disk["jarvis"] = "good" /\ get' = Ended
         \/ disk' = disk /\ (get' = Requests \/ get' = Failed)
         \/ disk' = [disk EXCEPT !["jarvis"] = "short"] /\ get' = Writes
         \/ disk' = [disk EXCEPT !["jarvis"] = "good"] /\ get' = Ended
  <2>1. CASE M(k)!InstallWake
    BY <2>1 DEF M!InstallWake, M!End, M!Goto, M!Idle, M!Hashed
  <2>2. CASE M(k)!ReceiveWake
    BY <2>2 DEF M!ReceiveWake, M!End, M!AcceptWake, M!Put, M!Idle
  <2>3. CASE M(k)!WriteWake
    <3>1. get["jarvis"].got = "good"
      BY <2>3 DEF M!WriteWake, ModelsHold, ModelsSoFar
    <3> QED BY <2>3, <3>1 DEF M!WriteWake, M!End, M!Put, M!Idle
  <2> QED BY <2>1, <2>2, <2>3
<1>3. /\ get' \in [{"jarvis", "gguf"} -> [pc : ModelPcs, got : ModelBodies,
                                          result : {"none", "ok", "failed"}]]
      /\ get'["gguf"] = get["gguf"]
      /\ get'["jarvis"].pc = "write" => get'["jarvis"].got = "good"
  BY <1>1, <1>2 DEF ModelPcs, ModelBodies, ModelsHold, ModelsSoFar
<1>4. /\ disk' \in [M(k)!Files -> ModelBodies]
      /\ \A f \in M(k)!Files : f # "jarvis" => disk'[f] = disk[f]
  BY <1>1, <1>2 DEF ModelBodies
<1>5. M(k)!Succeeds("jarvis") => disk'["jarvis"] = "good"
  BY <1>1, <1>2 DEF M!Succeeds
<1>6. ModelTypes(k)'
  BY <1>2, <1>3, <1>4 DEF ModelsHold, ModelTypes, M!FilesTypeOK, M!Bodies, ModelBodies
<1>7. ModelsSoFar'
  <2>1. staging.now # "none" => disk'[staging.now] = disk[staging.now]
    BY <1>1, <1>4
  <2> QED BY <1>2, <1>3, <2>1 DEF ModelsHold, ModelsSoFar
<1>8. M(k)!LoadsVerified' /\ M(k)!ListedIsWhole'
  <2>1. disk'["gguf"] = disk["gguf"]
    BY <1>1, <1>4
  <2> QED BY <1>2, <2>1 DEF ModelsHold, M!LoadsVerified, M!ListedIsWhole, M!Listed, M!GgufSized,
                           M!Exists
<1> QED BY <1>2, <1>3, <1>4, <1>5, <1>6, <1>7, <1>8 DEF ModelsHold

(* The language model comes to its place whole, or not at all; what was    *)
(* there stays until then.                                                 *)
LEMMA GgufStep ==
  ASSUME NEW k, M(k)!ModelFilesAssumption, ModelsHold(k),
         \/ M(k)!InstallGguf \/ M(k)!RequestGguf \/ M(k)!ReceiveGguf \/ M(k)!PersistSha
         \/ M(k)!Promote \/ M(k)!DeleteGguf
  PROVE  /\ ModelsHold(k)' /\ UNCHANGED <<pin, staging, running, outside>>
         /\ \A f \in M(k)!Files : f # "gguf" => disk'[f] = disk[f]
         /\ get'["jarvis"] = get["jarvis"]
         /\ M(k)!OkIsRight /\ M(k)!KeepsTheListed
<1>1. /\ disk \in [M(k)!Files -> ModelBodies] /\ {"jarvis", "gguf"} \subseteq M(k)!Files
      /\ get \in [{"jarvis", "gguf"} -> [pc : ModelPcs, got : ModelBodies,
                                         result : {"none", "ok", "failed"}]]
      /\ k.bundled \subseteq M(k)!Files \ {"jarvis", "gguf"}
      /\ staging.now \in k.bundled \cup {"none"}
      /\ partial \in ModelBodies /\ anchor \in ModelBodies
      /\ pin \in [sha : BOOLEAN, size : BOOLEAN]
  BY WhatShips DEF ModelsHold, ModelTypes, M!FilesTypeOK, M!Bodies, ModelBodies
<1>2. ModelsSoFar
  BY DEF ModelsHold
<1>3. ASSUME /\ partial' \in ModelBodies /\ anchor' \in ModelBodies
             /\ UNCHANGED <<pin, staging, running, outside>>,
             NEW body \in ModelBodies, disk' = [disk EXCEPT !["gguf"] = body],
             NEW x \in [pc : ModelPcs, got : ModelBodies, result : {"none", "ok", "failed"}],
             get' = [get EXCEPT !["gguf"] = x],
             x.pc \in {"check", "promote"} => partial' = x.got /\ x.got # "none",
             x.pc = "promote" => ~pin.sha /\ anchor' \in {"none", x.got},
             (pin.sha /\ pin.size /\ M(k)!RightSize(body)) => body = "good" \/ body = disk["gguf"]
      PROVE  /\ ModelsHold(k)' /\ UNCHANGED <<pin, staging, running, outside>>
             /\ \A f \in M(k)!Files : f # "gguf" => disk'[f] = disk[f]
             /\ get'["jarvis"] = get["jarvis"] /\ get'["gguf"] = x /\ disk'["gguf"] = body
  <2>1. /\ disk' \in [M(k)!Files -> ModelBodies] /\ disk'["gguf"] = body
        /\ \A f \in M(k)!Files : f # "gguf" => disk'[f] = disk[f]
    BY <1>1, <1>3
  <2>2. /\ get' \in [{"jarvis", "gguf"} -> [pc : ModelPcs, got : ModelBodies,
                                            result : {"none", "ok", "failed"}]]
        /\ get'["jarvis"] = get["jarvis"] /\ get'["gguf"] = x
    BY <1>1, <1>3
  <2>3. ModelTypes(k)'
    BY <1>3, <2>1, <2>2 DEF ModelsHold, ModelTypes, M!FilesTypeOK, M!Bodies, ModelBodies
  <2>4. ModelsSoFar'
    <3>1. staging.now # "none" => disk'[staging.now] = disk[staging.now]
      BY <1>1, <2>1
    <3> QED BY <1>2, <1>3, <2>2, <3>1 DEF ModelsSoFar
  <2>5. M(k)!LoadsVerified'
    BY <1>3 DEF ModelsHold, M!LoadsVerified
  <2>6. M(k)!ListedIsWhole'
    BY <1>3, <2>1 DEF ModelsHold, M!ListedIsWhole, M!Listed, M!GgufSized, M!Exists, M!RightSize
  <2> QED BY <1>3, <2>1, <2>2, <2>3, <2>4, <2>5, <2>6 DEF ModelsHold

<1> DEFINE Right(body, x) ==
             x.result = "ok" /\ get["gguf"].result # "ok" =>
               IF pin.sha THEN body = "good"
               ELSE (pin.size => M(k)!RightSize(body)) /\ anchor' \in {"none", body}
           Usable(body) == body # "none" /\ (~pin.size \/ M(k)!RightSize(body))
<1>4. ASSUME UNCHANGED <<pin, staging, running, outside>>,
             get'["jarvis"] = get["jarvis"], NEW x, get'["gguf"] = x,
             NEW body, disk'["gguf"] = body, Right(body, x),
             body = disk["gguf"] \/ Usable(body) \/ M(k)!DeleteGguf
      PROVE  M(k)!OkIsRight /\ M(k)!KeepsTheListed
  <2>1. M(k)!OkIsRight
    BY <1>4 DEF M!OkIsRight, M!Succeeds
  <2>2. M(k)!KeepsTheListed
    BY <1>4 DEF M!KeepsTheListed, M!Listed, M!GgufSized, M!Exists
  <2> QED BY <2>1, <2>2
<1>5. /\ disk = [disk EXCEPT !["gguf"] = disk["gguf"]] /\ disk["gguf"] \in ModelBodies
      /\ get = [get EXCEPT !["gguf"] = get["gguf"]]
      /\ get["gguf"] \in [pc : ModelPcs, got : ModelBodies, result : {"none", "ok", "failed"}]
      /\ pin.sha \in BOOLEAN /\ pin.size \in BOOLEAN
  BY <1>1
<1> DEFINE was == get["gguf"]
           lies == disk["gguf"]
           ok == [pc |-> "idle", got |-> "none", result |-> "ok"]
           failed == [pc |-> "idle", got |-> "none", result |-> "failed"]
<1>6. /\ ok \in [pc : ModelPcs, got : ModelBodies, result : {"none", "ok", "failed"}]
      /\ failed \in [pc : ModelPcs, got : ModelBodies, result : {"none", "ok", "failed"}]
      /\ \A p \in ModelPcs : [was EXCEPT !.pc = p] \in
           [pc : ModelPcs, got : ModelBodies, result : {"none", "ok", "failed"}]
  BY <1>5 DEF ModelPcs, ModelBodies
<1>7. CASE M(k)!InstallGguf
  <2>1. UNCHANGED <<disk, partial, anchor, pin, staging, running, outside>>
    BY <1>7 DEF M!InstallGguf
  <2>2. CASE M(k)!Present /\ get' = [get EXCEPT !["gguf"] = ok]
    <3>1. ok.pc = "idle" /\ disk' = [disk EXCEPT !["gguf"] = lies]
      BY <1>5, <2>1
    <3>2. /\ ModelsHold(k)' /\ \A f \in M(k)!Files : f # "gguf" => disk'[f] = disk[f]
          /\ get'["jarvis"] = get["jarvis"] /\ get'["gguf"] = ok /\ disk'["gguf"] = lies
      BY <1>1, <1>3, <1>5, <1>6, <2>1, <2>2, <3>1
    <3>3. Right(lies, ok)
      BY <2>1, <2>2 DEF M!Present, M!GgufSized, M!PersistedShaMatches, M!Hashed
    <3> QED BY <1>4, <2>1, <3>2, <3>3
  <2>3. CASE get' = [get EXCEPT !["gguf"] = [was EXCEPT !.pc = "request"]]
    <3> DEFINE x == [was EXCEPT !.pc = "request"]
    <3>1. /\ x.pc = "request" /\ disk' = [disk EXCEPT !["gguf"] = lies] /\ x.result = was.result
          /\ x \in [pc : ModelPcs, got : ModelBodies, result : {"none", "ok", "failed"}]
      BY <1>5, <1>6, <2>1 DEF ModelPcs
    <3> HIDE DEF x
    <3>2. /\ ModelsHold(k)' /\ \A f \in M(k)!Files : f # "gguf" => disk'[f] = disk[f]
          /\ get'["jarvis"] = get["jarvis"] /\ get'["gguf"] = x /\ disk'["gguf"] = lies
      BY <1>1, <1>3, <1>5, <2>1, <2>3, <3>1 DEF x
    <3>3. Right(lies, x)
      BY <3>1
    <3> QED BY <1>4, <2>1, <3>2, <3>3
  <2> QED BY <1>7, <2>2, <2>3 DEF M!InstallGguf, M!End, M!Goto, M!Idle
<1>8. CASE M(k)!RequestGguf \/ M(k)!ReceiveGguf \/ M(k)!PersistSha
  <2>1. PICK x \in [pc : ModelPcs, got : ModelBodies, result : {"none", "ok", "failed"}] :
          /\ get' = [get EXCEPT !["gguf"] = x] /\ (x.result # "ok" \/ x.result = was.result)
          /\ x.pc \in {"check", "promote"} => partial' = x.got /\ x.got # "none"
          /\ x.pc = "promote" => ~pin.sha /\ anchor' \in {"none", x.got}
    <3>1. CASE M(k)!RequestGguf
      <4>1. \/ get' = [get EXCEPT !["gguf"] = [was EXCEPT !.pc = "receive"]]
            \/ get' = [get EXCEPT !["gguf"] = failed]
        BY <3>1 DEF M!RequestGguf, M!Goto, M!End, M!Idle
      <4>2. [was EXCEPT !.pc = "receive"].result = was.result
        BY <1>5
      <4>3. [was EXCEPT !.pc = "receive"].pc = "receive" /\ "receive" \in ModelPcs
        BY <1>5 DEF ModelPcs
      <4> QED BY <1>6, <4>1, <4>2, <4>3
    <3>2. CASE M(k)!ReceiveGguf
      <4>1. \/ \E body \in {"short", "good", "other"} :
                 /\ get' = [get EXCEPT !["gguf"] = [was EXCEPT !.pc = "check", !.got = body]]
                 /\ partial' = body
            \/ get' = [get EXCEPT !["gguf"] = failed]
        BY <1>1, <3>2 DEF M!ReceiveGguf, M!End, M!Idle
      <4>2. ASSUME NEW body \in {"short", "good", "other"}
            PROVE  /\ [was EXCEPT !.pc = "check", !.got = body].result = was.result
                   /\ [was EXCEPT !.pc = "check", !.got = body].pc = "check"
                   /\ [was EXCEPT !.pc = "check", !.got = body].got = body
                   /\ [was EXCEPT !.pc = "check", !.got = body] \in
                        [pc : ModelPcs, got : ModelBodies, result : {"none", "ok", "failed"}]
        BY <1>5 DEF ModelPcs, ModelBodies
      <4>3. CASE \E body \in {"short", "good", "other"} :
                   /\ get' = [get EXCEPT !["gguf"] = [was EXCEPT !.pc = "check", !.got = body]]
                   /\ partial' = body
        <5>1. PICK body \in {"short", "good", "other"} :
                /\ get' = [get EXCEPT !["gguf"] = [was EXCEPT !.pc = "check", !.got = body]]
                /\ partial' = body
          BY <4>3
        <5> QED BY <4>2, <5>1
      <4> QED BY <1>6, <4>1, <4>3
    <3>3. CASE M(k)!PersistSha
      <4>1. /\ was.pc = "check" /\ ~pin.sha /\ partial' = partial
            /\ \/ /\ get' = [get EXCEPT !["gguf"] = [was EXCEPT !.pc = "promote"]]
                  /\ anchor' = was.got
               \/ get' = [get EXCEPT !["gguf"] = failed]
        BY <3>3 DEF M!PersistSha, M!Goto, M!End, M!Idle
      <4>2. /\ [was EXCEPT !.pc = "promote"].result = was.result
            /\ [was EXCEPT !.pc = "promote"].got = was.got
            /\ [was EXCEPT !.pc = "promote"].pc = "promote" /\ "promote" \in ModelPcs
        BY <1>5 DEF ModelPcs
      <4>3. partial = was.got /\ was.got # "none"
        BY <1>2, <4>1 DEF ModelsSoFar
      <4> QED BY <1>6, <4>1, <4>2, <4>3
    <3> QED BY <1>8, <3>1, <3>2, <3>3
  <2>2. /\ UNCHANGED <<disk, pin, staging, running, outside>>
        /\ partial' \in ModelBodies /\ anchor' \in ModelBodies
    BY <1>1, <1>8 DEF M!RequestGguf, M!ReceiveGguf, M!PersistSha, M!Create, ModelBodies
  <2>3. disk' = [disk EXCEPT !["gguf"] = lies]
    BY <1>5, <2>2
  <2>4. /\ ModelsHold(k)' /\ \A f \in M(k)!Files : f # "gguf" => disk'[f] = disk[f]
        /\ get'["jarvis"] = get["jarvis"] /\ get'["gguf"] = x /\ disk'["gguf"] = lies
    BY <1>3, <1>5, <2>1, <2>2, <2>3
  <2>5. Right(lies, x)
    BY <2>1
  <2> QED BY <1>4, <2>2, <2>4, <2>5
<1>9. CASE M(k)!Promote
  <2>1. /\ was.pc = IF pin.sha THEN "check" ELSE "promote"
        /\ partial' = "none" /\ UNCHANGED <<anchor, pin, staging, running, outside>>
        /\ \/ /\ M(k)!Passes(was.got) /\ disk' = [disk EXCEPT !["gguf"] = partial]
              /\ get' = [get EXCEPT !["gguf"] = ok]
           \/ disk' = disk /\ get' = [get EXCEPT !["gguf"] = failed]
    BY <1>9 DEF M!Promote, M!Put, M!End, M!Idle
  <2>2. /\ partial = was.got /\ was.got # "none"
        /\ ~pin.sha => anchor \in {"none", was.got}
    BY <1>2, <2>1 DEF ModelsSoFar
  <2>3. CASE M(k)!Passes(was.got) /\ disk' = [disk EXCEPT !["gguf"] = partial]
             /\ get' = [get EXCEPT !["gguf"] = ok]
    <3>1. /\ ok.pc = "idle" /\ partial' \in ModelBodies /\ anchor' \in ModelBodies
          /\ (pin.sha /\ pin.size /\ M(k)!RightSize(partial)) => partial = "good"
      BY <1>1, <2>1, <2>2, <2>3 DEF M!Passes, ModelBodies
    <3>2. /\ ModelsHold(k)' /\ \A f \in M(k)!Files : f # "gguf" => disk'[f] = disk[f]
          /\ get'["jarvis"] = get["jarvis"] /\ get'["gguf"] = ok /\ disk'["gguf"] = partial
      BY <1>1, <1>3, <1>6, <2>1, <2>3, <3>1
    <3>3. Right(partial, ok) /\ Usable(partial)
      BY <2>1, <2>2, <2>3 DEF M!Passes
    <3> QED BY <1>4, <2>1, <3>2, <3>3
  <2>4. CASE disk' = disk /\ get' = [get EXCEPT !["gguf"] = failed]
    <3> DEFINE x == failed
    <3>1. /\ x \in [pc : ModelPcs, got : ModelBodies, result : {"none", "ok", "failed"}]
          /\ x.pc = "idle" /\ x.result = "failed" /\ get' = [get EXCEPT !["gguf"] = x]
      BY <1>6, <2>4
    <3>2. /\ partial' \in ModelBodies /\ anchor' \in ModelBodies
          /\ UNCHANGED <<pin, staging, running, outside>>
      BY <1>1, <2>1 DEF ModelBodies
    <3>3. disk' = [disk EXCEPT !["gguf"] = lies] /\ lies \in ModelBodies
      BY <1>5, <2>4
    <3> HIDE DEF x
    <3>4. /\ ModelsHold(k)' /\ \A f \in M(k)!Files : f # "gguf" => disk'[f] = disk[f]
          /\ get'["jarvis"] = get["jarvis"] /\ get'["gguf"] = x /\ disk'["gguf"] = lies
      BY <1>3, <3>1, <3>2, <3>3
    <3>5. Right(lies, x)
      BY <3>1
    <3> QED BY <1>4, <3>2, <3>4, <3>5
  <2> QED BY <2>1, <2>3, <2>4
<1>10. CASE M(k)!DeleteGguf
  <2>1. /\ disk' = [disk EXCEPT !["gguf"] = "none"] /\ anchor' = "none"
        /\ UNCHANGED <<partial, pin, staging, get, running, outside>>
        /\ partial' \in ModelBodies /\ "none" \in ModelBodies
    BY <1>1, <1>10 DEF M!DeleteGguf, M!Put, ModelBodies
  <2>2. /\ get' = [get EXCEPT !["gguf"] = was]
        /\ was.pc \in {"check", "promote"} => partial' = was.got /\ was.got # "none"
        /\ was.pc = "promote" => ~pin.sha /\ anchor' \in {"none", was.got}
        /\ ~M(k)!RightSize("none")
    BY <1>2, <1>5, <2>1 DEF ModelsSoFar, M!RightSize
  <2>3. /\ ModelsHold(k)' /\ \A f \in M(k)!Files : f # "gguf" => disk'[f] = disk[f]
        /\ get'["jarvis"] = get["jarvis"] /\ get'["gguf"] = was /\ disk'["gguf"] = "none"
    BY <1>3, <1>5, <2>1, <2>2
  <2>4. Right("none", was)
    OBVIOUS
  <2> QED BY <1>4, <1>10, <2>1, <2>3, <2>4
<1> QED BY <1>7, <1>8, <1>9, <1>10


(* What is loaded was verified; a quit leaves what is on the disk.         *)
LEMMA LoadingStep ==
  ASSUME NEW k, M(k)!ModelFilesAssumption, ModelsHold(k),
         M(k)!LoadVad \/ M(k)!EnsureLocalLlm \/ M(k)!Quit
           \/ \E c \in M(k)!Classifiers : M(k)!LoadWake(c)
  PROVE  /\ ModelsHold(k)' /\ UNCHANGED <<disk, partial, anchor, pin, outside>>
         /\ get' = get \/ get' = [f \in {"jarvis", "gguf"} |-> M(k)!Idle]
<1> DEFINE Engines == {"silero", "shared", "hey", "jarvis", "gguf"}
<1>1. /\ disk \in [M(k)!Files -> ModelBodies] /\ running \in [Engines -> SUBSET ModelBodies]
      /\ "vad" \in M(k)!Files /\ "mel" \in M(k)!Files /\ "embed" \in M(k)!Files
      /\ \A c \in M(k)!Classifiers : c \in Engines \ {"silero", "shared"} /\ c \in M(k)!Files
      /\ "gguf" \in M(k)!Files
      /\ DOMAIN M(k)!Nothing = Engines
  BY DEF ModelsHold, ModelTypes, M!FilesTypeOK, M!Bodies, ModelBodies, M!Nothing, M!Classifiers,
         M!Files
<1> DEFINE Loaded ==
      /\ UNCHANGED <<disk, partial, anchor, pin, staging, get, outside>>
      /\ running' \in [Engines -> SUBSET ModelBodies]
      /\ running'["silero"] \cup running'["shared"] \subseteq {"good"}
<1>2. running["silero"] \cup running["shared"] \subseteq {"good"}
  BY DEF ModelsHold, M!LoadsVerified
<1>3. ASSUME M(k)!LoadVad
      PROVE  Loaded
  <2>1. {disk[f] : f \in M(k)!FilesOf("silero")} = {"good"}
    BY <1>1, <1>3 DEF M!LoadVad, M!VerifiedDir, M!FilesOf, M!Hashed
  <2>2. /\ UNCHANGED <<disk, partial, anchor, pin, staging, get, outside>>
        /\ running' = [running EXCEPT !["silero"] = {"good"}]
    BY <1>3, <2>1 DEF M!LoadVad, M!Load
  <2> QED BY <1>1, <1>2, <2>2 DEF ModelBodies
<1>4. ASSUME M(k)!EnsureLocalLlm
      PROVE  Loaded
  <2>1. {disk[f] : f \in {"gguf"}} \in SUBSET ModelBodies
    BY <1>1
  <2>2. /\ UNCHANGED <<disk, partial, anchor, pin, staging, get, outside>>
        /\ running' = [running EXCEPT !["gguf"] = {disk[f] : f \in {"gguf"}}]
    BY <1>4 DEF M!EnsureLocalLlm, M!Load
  <2> QED BY <1>1, <1>2, <2>1, <2>2
<1>5. ASSUME NEW c \in M(k)!Classifiers, M(k)!LoadWake(c)
      PROVE  Loaded
  <2>1. {disk[f] : f \in M(k)!FilesOf("shared")} = {"good"}
    BY <1>1, <1>5 DEF M!LoadWake, M!VerifiedDir, M!FilesOf, M!Hashed
  <2>2. /\ UNCHANGED <<disk, partial, anchor, pin, staging, get, outside>>
        /\ running' = [running EXCEPT !["shared"] = {"good"}, ![c] = {disk[c]}]
    BY <1>5, <2>1 DEF M!LoadWake
  <2>3. {disk[c]} \in SUBSET ModelBodies /\ c \in Engines \ {"silero", "shared"}
    BY <1>1
  <2> QED BY <1>1, <1>2, <2>2, <2>3 DEF ModelBodies
<1>6. CASE M(k)!Quit
  <2>1. ModelTypes(k)'
    BY <1>6 DEF M!Quit, ModelsHold, ModelTypes, M!FilesTypeOK, M!Bodies, ModelBodies, ModelPcs,
                M!Idle, M!NoStaging, M!Nothing
  <2>2. ModelsSoFar' /\ M(k)!LoadsVerified'
    BY <1>6 DEF M!Quit, ModelsSoFar, M!Idle, M!NoStaging, M!Nothing, M!LoadsVerified
  <2>3. M(k)!ListedIsWhole'
    BY <1>6 DEF M!Quit, ModelsHold, M!ListedIsWhole, M!Listed, M!GgufSized, M!Exists
  <2> QED BY <1>6, <2>1, <2>2, <2>3 DEF M!Quit, ModelsHold
<1>7. ASSUME Loaded
      PROVE  ModelsHold(k)'
  <2>1. ModelTypes(k)'
    BY <1>1, <1>7 DEF ModelsHold, ModelTypes, M!FilesTypeOK, M!Bodies, ModelBodies
  <2>2. ModelsSoFar' /\ M(k)!LoadsVerified'
    BY <1>7 DEF ModelsHold, ModelsSoFar, M!LoadsVerified
  <2>3. M(k)!ListedIsWhole'
    BY <1>7 DEF ModelsHold, M!ListedIsWhole, M!Listed, M!GgufSized, M!Exists
  <2> QED BY <2>1, <2>2, <2>3 DEF ModelsHold
<1> QED BY <1>3, <1>4, <1>5, <1>6, <1>7

(* A change from outside is counted, and no file under way is changed.     *)
LEMMA OutsideStep ==
  ASSUME NEW k, M(k)!ModelFilesAssumption, ModelsHold(k),
         NEW f \in k.bundled \cup k.downloads, NEW body \in {"other", "own"}, M(k)!Outside(f, body)
  PROVE  ModelsHold(k)' /\ outside' # outside /\ get' = get
<1>1. /\ disk \in [M(k)!Files -> ModelBodies] /\ f \in M(k)!Files /\ outside \subseteq M(k)!Files
      /\ k.bundled \subseteq M(k)!Files \ {"jarvis", "gguf"}
  BY WhatShips DEF ModelsHold, ModelTypes, M!FilesTypeOK, M!Bodies, ModelBodies
<1>2. /\ disk' = [disk EXCEPT ![f] = body] /\ outside' = outside \cup {f} /\ staging.now # f
      /\ UNCHANGED <<partial, anchor, pin, staging, get, running>>
  BY DEF M!Outside, M!Put
<1>3. outside = {}
  <2>1. IsFiniteSet(M(k)!Files)
    <3>1. \A s, x : IsFiniteSet(s) => IsFiniteSet(s \cup {x})
      BY FS_AddElement
    <3>2. IsFiniteSet({})
      BY FS_EmptySet
    <3>3. IsFiniteSet(((((({} \cup {"vad"}) \cup {"mel"}) \cup {"embed"}) \cup {"hey"})
                       \cup {"jarvis"}) \cup {"gguf"})
      BY Zenon, <3>1, <3>2
    <3>4. M(k)!Files = (((((({} \cup {"vad"}) \cup {"mel"}) \cup {"embed"}) \cup {"hey"})
                        \cup {"jarvis"}) \cup {"gguf"})
      BY DEF M!Files
    <3> QED BY <3>3, <3>4
  <2>2. IsFiniteSet(outside)
    BY <1>1, <2>1, FS_Subset
  <2>3. M(k)!Cardinality(outside) = Cardinality(outside)
    BY Zenon DEF M!Cardinality, Cardinality
  <2>4. Cardinality(outside) < 1 /\ Cardinality(outside) \in Nat
    BY <2>2, <2>3, FS_CardinalityType DEF M!Outside
  <2>5. Cardinality(outside) = 0
    BY <2>4
  <2> QED BY <2>2, <2>5, FS_EmptySet
<1>4. /\ disk' \in [M(k)!Files -> ModelBodies] /\ outside' \subseteq M(k)!Files
      /\ staging.now # "none" => disk'[staging.now] = "short"
      /\ f # "gguf" => disk'["gguf"] = disk["gguf"]
  <2>1. staging.now \in k.bundled \cup {"none"} /\ (staging.now # "none" => disk[staging.now] = "short")
    BY DEF ModelsHold, ModelTypes, ModelsSoFar
  <2>2. body \in ModelBodies /\ "gguf" \in M(k)!Files
    BY DEF ModelBodies, M!Files
  <2> QED BY <1>1, <1>2, <2>1, <2>2
<1>5. ModelTypes(k)'
  BY <1>2, <1>4 DEF ModelsHold, ModelTypes, M!FilesTypeOK, M!Bodies, ModelBodies
<1>6. ModelsSoFar'
  BY <1>2, <1>4 DEF ModelsHold, ModelsSoFar
<1>7. M(k)!LoadsVerified'
  BY <1>2 DEF ModelsHold, M!LoadsVerified
<1>8. M(k)!ListedIsWhole'
  BY <1>2, <1>4 DEF ModelsHold, M!ListedIsWhole, M!Listed, M!GgufSized, M!Exists
<1> QED BY <1>2, <1>3, <1>5, <1>6, <1>7, <1>8 DEF ModelsHold

(* A step on the models' files, and what it may not do.                    *)
LEMMA ModelsStep ==
  ASSUME NEW k, M(k)!ModelFilesAssumption, ModelsHold(k), [M(k)!Next]_(M(k)!vars)
  PROVE  /\ ModelsHold(k)'
         /\ M(k)!OkIsRight /\ M(k)!KeepsTheListed
         /\ \A f \in M(k)!Files \ {"jarvis", "gguf"} :
              disk[f] = "own" /\ disk'[f] # "own" => outside' # outside
<1> DEFINE Kept == \A f \in M(k)!Files \ {"jarvis", "gguf"} :
                     disk[f] = "own" /\ disk'[f] # "own" => outside' # outside
<1>1. CASE M(k)!Launch \/ M(k)!Copied \/ M(k)!Staged \/ \E f \in k.bundled : M(k)!Stage(f)
  <2>1. /\ ModelsHold(k)' /\ UNCHANGED <<partial, anchor, pin, get, running, outside>>
        /\ disk'["jarvis"] = disk["jarvis"] /\ disk'["gguf"] = disk["gguf"]
        /\ \A f \in M(k)!Files : disk[f] = "own" => disk'[f] = "own"
    BY <1>1, StagingStep
  <2>2. M(k)!OkIsRight /\ M(k)!KeepsTheListed
    BY <2>1 DEF M!OkIsRight, M!Succeeds, M!KeepsTheListed, M!Listed, M!GgufSized, M!Exists
  <2> QED BY <2>1, <2>2
<1>2. CASE M(k)!InstallWake \/ M(k)!ReceiveWake \/ M(k)!WriteWake
  <2>1. /\ ModelsHold(k)' /\ UNCHANGED <<anchor, pin, staging, running, outside>>
        /\ \A f \in M(k)!Files : f # "jarvis" => disk'[f] = disk[f]
        /\ get'["gguf"] = get["gguf"]
        /\ M(k)!Succeeds("jarvis") => disk'["jarvis"] = "good"
    BY <1>2, ClassifierStep
  <2>2. disk'["gguf"] = disk["gguf"]
    BY <2>1 DEF M!Files
  <2>3. M(k)!OkIsRight /\ M(k)!KeepsTheListed
    BY <2>1, <2>2 DEF M!OkIsRight, M!Succeeds, M!KeepsTheListed, M!Listed, M!GgufSized, M!Exists
  <2> QED BY <2>1, <2>3
<1>3. CASE \/ M(k)!InstallGguf \/ M(k)!RequestGguf \/ M(k)!ReceiveGguf \/ M(k)!PersistSha
           \/ M(k)!Promote \/ M(k)!DeleteGguf
  <2>1. /\ ModelsHold(k)' /\ M(k)!OkIsRight /\ M(k)!KeepsTheListed
        /\ \A f \in M(k)!Files : f # "gguf" => disk'[f] = disk[f]
    BY <1>3, GgufStep
  <2> QED BY <2>1
<1>4. CASE M(k)!LoadVad \/ M(k)!EnsureLocalLlm \/ M(k)!Quit
             \/ \E c \in M(k)!Classifiers : M(k)!LoadWake(c)
  <2>1. /\ ModelsHold(k)' /\ UNCHANGED <<disk, partial, anchor, pin, outside>>
        /\ get' = get \/ get' = [f \in {"jarvis", "gguf"} |-> M(k)!Idle]
    BY <1>4, LoadingStep
  <2>2. M(k)!OkIsRight /\ M(k)!KeepsTheListed
    BY <2>1 DEF M!OkIsRight, M!Succeeds, M!Idle, M!KeepsTheListed, M!Listed, M!GgufSized, M!Exists
  <2> QED BY <2>1, <2>2
<1>5. ASSUME NEW f \in k.bundled \cup k.downloads, NEW body \in {"other", "own"},
             M(k)!Outside(f, body)
      PROVE  ModelsHold(k)' /\ M(k)!OkIsRight /\ M(k)!KeepsTheListed /\ Kept
  <2>1. ModelsHold(k)' /\ outside' # outside /\ get' = get
    BY <1>5, OutsideStep
  <2> QED BY <2>1 DEF M!OkIsRight, M!Succeeds, M!KeepsTheListed
<1>6. CASE UNCHANGED M(k)!vars
  <2>1. UNCHANGED <<disk, partial, anchor, pin, staging, get, running, outside>>
    BY <1>6 DEF M!vars
  <2>2. ModelTypes(k)' /\ ModelsSoFar'
    BY <2>1 DEF ModelsHold, ModelTypes, M!FilesTypeOK, ModelsSoFar
  <2>3. M(k)!LoadsVerified' /\ M(k)!ListedIsWhole'
    BY <2>1 DEF ModelsHold, M!LoadsVerified, M!ListedIsWhole, M!Listed, M!GgufSized, M!Exists
  <2>4. M(k)!OkIsRight /\ M(k)!KeepsTheListed
    BY <2>1 DEF M!OkIsRight, M!Succeeds, M!KeepsTheListed, M!Listed, M!GgufSized, M!Exists
  <2> QED BY <2>1, <2>2, <2>3, <2>4 DEF ModelsHold
<1> QED BY <1>1, <1>2, <1>3, <1>4, <1>5, <1>6 DEF M!Next


-----------------------------------------------------------------------------
(* The recipes on disk                                                     *)

(* A set of naturals has a least element.                                  *)
LEMMA LeastIsThere ==
  ASSUME NEW s, s \subseteq Nat, s # {}
  PROVE  \E x \in s : \A y \in s : x <= y
<1> DEFINE less == StrictSubsetOrdering(Nat)
           upTo == {1..x : x \in s}
<1>1. IsWellFoundedOn(less, FiniteSubsetsOf(Nat))
  BY FS_StrictSubsetOrderingWellFounded
<1>2. upTo \subseteq FiniteSubsetsOf(Nat) /\ upTo # {}
  <2>1. ASSUME NEW x \in s
        PROVE  1..x \in FiniteSubsetsOf(Nat)
    <3>1. IsFiniteSet(1..x) /\ 1..x \in SUBSET Nat
      BY FS_Interval
    <3> QED BY <3>1 DEF FiniteSubsetsOf
  <2> QED BY <2>1
<1> HIDE DEF less
<1>3. PICK u \in upTo : \A v \in upTo : ~(<<v, u>> \in less)
  BY <1>1, <1>2, WFMin
<1>4. PICK x \in s : u = 1..x
  OBVIOUS
<1>5. ASSUME NEW y \in s, y < x
      PROVE  FALSE
  <2>1. 1..y \in SUBSET Nat /\ 1..x \in SUBSET Nat /\ 1..y \subseteq 1..x
    BY <1>5
  <2>2. x \in 1..x /\ x \notin 1..y
    BY <1>5
  <2>3. <<1..y, 1..x>> \in less
    BY <2>1, <2>2 DEF less, StrictSubsetOrdering
  <2> QED BY <1>3, <1>4, <2>3
<1> QED BY <1>5

(* The first of some directories, in the order they are read, is one of    *)
(* them.                                                                   *)
LEMMA FirstIsOfThem ==
  ASSUME NEW k, S(k)!StoreAssumption, NEW dirs, dirs \subseteq S(k)!Names, dirs # {}
  PROVE  S(k)!FirstOf(dirs) \in dirs
<1> DEFINE places == {i \in DOMAIN DirOrder : DirOrder[i] \in dirs}
<1>1. DirOrder \in Seq(S(k)!Names) /\ S(k)!Names = {DirOrder[i] : i \in DOMAIN DirOrder}
  BY DEF S!StoreAssumption, S!Names, S!Members
<1>2. places \subseteq Nat /\ places # {}
  BY <1>1
<1>3. PICK x \in places : \A y \in places : x <= y
  BY <1>2, LeastIsThere
<1>4. (CHOOSE i \in places : \A j \in places : i <= j) \in places
  BY <1>3
<1> QED BY <1>4 DEF S!FirstOf

(* A call that is under way: what it found, and what it is to write where. *)
StoreStages == {"idle", "load", "make", "cut", "write", "remove", "read"}
Writing == {"make", "cut", "write"}
CallFits(k, d) ==
  /\ d = S(k)!Doing(d.at, d.by, d.dir, d.file) /\ d.at \in StoreStages
  /\ d.at = "load" => d.file.source \in {"user", "bundled"} /\ d.file.dir \in S(k)!Names
  /\ d.at \in Writing => d.dir \in S(k)!Names /\ d.file \in S(k)!Recipes
  /\ d.at = "remove" => d.file.source = "user" /\ d.file.dir \in S(k)!Names
  /\ d.at = "read" => d.dir \in S(k)!Names /\ d.by \in k.typed
CallIsSound(k, d) ==
  d.at \in Writing => d.file.id = d.dir /\ d.file.text \in {"one"}

StoreHolds(k) ==
  /\ bundled = Bundle /\ bundled \in [S(k)!Names -> S(k)!Files]
  /\ user \in [S(k)!Names -> S(k)!Files]
  /\ DOMAIN recipeStoreCall = S(k)!Callers
  /\ \A c \in S(k)!Callers : CallFits(k, recipeStoreCall[c])
StoreIsSound(k) ==
  /\ S(k)!NamedAfterId /\ S(k)!SavedIsSound
  /\ \A c \in S(k)!Callers : CallIsSound(k, recipeStoreCall[c])

(* A file that parses is a recipe.                                         *)
LEMMA RecipeFiles ==
  ASSUME NEW k
  PROVE  /\ \A f \in S(k)!Files : f.kind = "recipe" => f \in S(k)!Recipes
         /\ \A f \in S(k)!Recipes :
              /\ f \in S(k)!Files /\ f.kind = "recipe" /\ f.id \in S(k)!Names
              /\ f.text \in {"one", "bad"} /\ f.note \in k.notes \cup {NoNote}
              /\ f = S(k)!Recipe(f.id, f.text, f.note)
         /\ S(k)!NoDir \in S(k)!Files /\ S(k)!NoDir.kind = "none"
         /\ S(k)!EmptyDir \in S(k)!Files /\ S(k)!EmptyDir.kind = "empty"
         /\ S(k)!Broken \in S(k)!Files /\ S(k)!Broken.kind = "broken"
  BY DEF S!Files, S!Recipes, S!Recipe, S!NoDir, S!EmptyDir, S!Broken

(* What is found under an id is a recipe of that id.                       *)
LEMMA FoundIsThere ==
  ASSUME NEW k, S(k)!StoreAssumption, NEW id
  PROVE  LET found == S(k)!FindRecipeById(id)
         IN  found # S(k)!Missing =>
               /\ found.source \in {"user", "bundled"} /\ found.dir \in S(k)!Names
               /\ S(k)!File(found).kind = "recipe" /\ S(k)!File(found).id = id
<1> DEFINE mine == S(k)!WithId(user, id)
           theirs == S(k)!WithId(bundled, id)
<1>1. /\ \A d \in mine : d \in S(k)!Names /\ user[d].kind = "recipe" /\ user[d].id = id
      /\ \A d \in theirs : d \in S(k)!Names /\ bundled[d].kind = "recipe" /\ bundled[d].id = id
  BY DEF S!WithId, S!Parsed
<1>2. CASE mine # {}
  <2>1. S(k)!FirstOf(mine) \in mine
    BY <1>1, <1>2, FirstIsOfThem
  <2>2. S(k)!FindRecipeById(id) = [source |-> "user", dir |-> S(k)!FirstOf(mine)]
    BY <1>2 DEF S!FindRecipeById, S!Found
  <2> QED BY <1>1, <2>1, <2>2 DEF S!File
<1>3. CASE mine = {} /\ theirs # {}
  <2>1. S(k)!FirstOf(theirs) \in theirs
    BY <1>1, <1>3, FirstIsOfThem
  <2>2. S(k)!FindRecipeById(id) = [source |-> "bundled", dir |-> S(k)!FirstOf(theirs)]
    BY <1>3 DEF S!FindRecipeById, S!Found
  <2> QED BY <1>1, <2>1, <2>2 DEF S!File
<1>4. CASE mine = {} /\ theirs = {}
  BY <1>4 DEF S!FindRecipeById
<1> QED BY <1>2, <1>3, <1>4

(* The Hub's rows, what a command runs and what an edit finds are one.     *)
LEMMA IdsAreFiles ==
  ASSUME NEW k, S(k)!StoreAssumption
  PROVE  S(k)!OneFilePerId
<1> USE DEF S!IdsIn
<1>1. ASSUME NEW r \in S(k)!HubListings, ~r.error
      PROVE  S(k)!FindRecipeById(r.id) = S(k)!Found(r.source, r.dir)
  <2>1. CASE \E id \in S(k)!IdsIn(user) :
               r = S(k)!Row(id, "user", S(k)!FirstOf(S(k)!WithId(user, id)))
    BY <2>1 DEF S!Row, S!FindRecipeById, S!WithId
  <2>2. CASE \E id \in S(k)!IdsIn(bundled) \ S(k)!IdsIn(user) :
               r = S(k)!Row(id, "bundled", S(k)!FirstOf(S(k)!WithId(bundled, id)))
    BY <2>2 DEF S!Row, S!FindRecipeById, S!WithId
  <2> QED BY <1>1, <2>1, <2>2 DEF S!HubListings, S!ErrorRows, S!ErrorRow
<1>2. ASSUME NEW id \in S(k)!IdsIn(user)
      PROVE  /\ S(k)!FindRecipeById(id) # S(k)!Missing
             /\ S(k)!File(S(k)!FindRecipeById(id)) = user[S(k)!FirstOf(S(k)!WithId(user, id))]
  BY DEF S!FindRecipeById, S!WithId, S!Found, S!Missing, S!File
<1>3. ASSUME NEW id \in S(k)!IdsIn(bundled) \ S(k)!IdsIn(user)
      PROVE  /\ S(k)!FindRecipeById(id) # S(k)!Missing
             /\ S(k)!File(S(k)!FindRecipeById(id))
                  = bundled[S(k)!FirstOf(S(k)!WithId(bundled, id))]
  BY DEF S!FindRecipeById, S!WithId, S!Found, S!Missing, S!File
<1>4. ASSUME NEW f \in S(k)!CollectRecipes
      PROVE  S(k)!FindRecipeById(f.id) # S(k)!Missing /\ S(k)!File(S(k)!FindRecipeById(f.id)) = f
  <2>1. PICK id : /\ S(k)!FindRecipeById(id) # S(k)!Missing
                  /\ f = S(k)!File(S(k)!FindRecipeById(id))
    BY <1>2, <1>3 DEF S!CollectRecipes
  <2>2. f.id = id
    BY <2>1, FoundIsThere
  <2> QED BY <2>1, <2>2
<1>5. ASSUME NEW id, S(k)!FindRecipeById(id) # S(k)!Missing
      PROVE  S(k)!File(S(k)!FindRecipeById(id)) \in S(k)!CollectRecipes
  <2>1. id \in S(k)!IdsIn(user) \/ id \in S(k)!IdsIn(bundled) \ S(k)!IdsIn(user)
    BY <1>5 DEF S!FindRecipeById, S!WithId
  <2> QED BY <1>2, <1>3, <2>1 DEF S!CollectRecipes
<1> QED BY <1>1, <1>4, <1>5 DEF S!OneFilePerId

(* Every file of the user's has its row.                                   *)
LEMMA FilesAreListed ==
  ASSUME NEW k, StoreHolds(k)
  PROVE  S(k)!EveryFileListed
<1> SUFFICES ASSUME NEW d \in S(k)!Names, S(k)!IsFile(user[d])
             PROVE  \E r \in S(k)!HubListings :
                      /\ r.source = "user"
                      /\ IF user[d] = S(k)!Broken THEN r.dir = d /\ r.error
                                                  ELSE r.id = user[d].id /\ ~r.error
  BY DEF S!EveryFileListed
<1>1. user[d] \in S(k)!Files
  BY DEF StoreHolds
<1>2. CASE user[d] = S(k)!Broken
  <2>1. S(k)!ErrorRow("user", d) \in S(k)!HubListings
    BY <1>2, RecipeFiles DEF S!HubListings, S!ErrorRows
  <2> QED BY <1>2, <2>1 DEF S!ErrorRow
<1>3. CASE user[d] # S(k)!Broken
  <2>1. user[d].kind = "recipe"
    BY <1>1, <1>3 DEF S!IsFile, S!Files, S!Recipes, S!Recipe, S!NoDir, S!EmptyDir
  <2>2. user[d].id \in S(k)!IdsIn(user)
    BY <2>1 DEF S!IdsIn, S!Parsed
  <2> DEFINE row == S(k)!Row(user[d].id, "user", S(k)!FirstOf(S(k)!WithId(user, user[d].id)))
  <2>3. row \in S(k)!HubListings
    BY <2>2 DEF S!HubListings
  <2>4. row.source = "user" /\ row.id = user[d].id /\ ~row.error
    BY DEF S!Row
  <2> QED BY <1>3, <2>3, <2>4
<1> QED BY <1>2, <1>3

(* What a step of a call does: it goes on as far as CallFits says, and     *)
(* puts into the user's tree nothing but what it was to write there.       *)
StoreStep(k, c) ==
  \E d :
    /\ CallFits(k, d) /\ recipeStoreCall' = [recipeStoreCall EXCEPT ![c] = d]
    /\ bundled' = bundled
    /\ S(k)!HandsOff /\ StoreIsSound(k) => CallIsSound(k, d)
    /\ \/ user' = user
       \/ \E n \in S(k)!Names, f \in S(k)!Files :
            /\ user' = [user EXCEPT ![n] = f]
            /\ f.kind = "recipe" => /\ recipeStoreCall[c].at = "write"
                                    /\ n = recipeStoreCall[c].dir /\ f = recipeStoreCall[c].file

(* The calls that look an id up.                                           *)
LEMMA LookingUp ==
  ASSUME NEW k, S(k)!StoreAssumption, StoreHolds(k), NEW c \in S(k)!Callers, NEW id,
         \/ S(k)!DuplicateFind(c, id) \/ S(k)!DeleteFind(c, id)
         \/ \E note \in k.typed : S(k)!CommentFind(c, id, note)
  PROVE  StoreStep(k, c)
<1> DEFINE found == S(k)!FindRecipeById(id)
<1>1. found # S(k)!Missing => found.source \in {"user", "bundled"} /\ found.dir \in S(k)!Names
  BY FoundIsThere
<1>2. S(k)!OwnFile(found) => found.source = "user" /\ found # S(k)!Missing
  BY DEF S!OwnFile, S!Missing
<1>3. PICK d : /\ recipeStoreCall' = [recipeStoreCall EXCEPT ![c] = d]
               /\ UNCHANGED <<bundled, user>>
               /\ \/ d = [at |-> "load", by |-> "copy", dir |-> id, file |-> found]
                       /\ found # S(k)!Missing
                  \/ d = [at |-> "remove", by |-> "delete", dir |-> id, file |-> found]
                       /\ S(k)!OwnFile(found)
                  \/ /\ \E note \in k.typed :
                          d = [at |-> "read", by |-> note, dir |-> found.dir, file |-> found]
                     /\ S(k)!OwnFile(found)
  BY DEF S!DuplicateFind, S!DeleteFind, S!CommentFind, S!Becomes, S!Doing
<1> HIDE DEF found
<1>4. CallFits(k, d) /\ d.at \notin Writing
  BY <1>1, <1>2, <1>3 DEF CallFits, S!Doing, StoreStages, Writing
<1> QED BY <1>3, <1>4 DEF StoreStep, CallIsSound

(* The calls that read a file, and the save.                               *)
LEMMA ReadingIn ==
  ASSUME NEW k, S(k)!StoreAssumption, StoreHolds(k), NEW c \in S(k)!Callers,
         \/ S(k)!DuplicateLoad(c) \/ S(k)!CommentRead(c)
         \/ /\ c = "mcp"
            /\ \E id, i \in k.targets, t \in {"one", "bad"}, o \in BOOLEAN :
                 S(k)!Save(id, S(k)!Recipe(i, t, NoNote), o)
  PROVE  StoreStep(k, c)
<1> DEFINE was == recipeStoreCall[c]
<1>1. /\ user \in [S(k)!Names -> S(k)!Files] /\ bundled \in [S(k)!Names -> S(k)!Files]
      /\ CallFits(k, was)
  BY DEF StoreHolds
<1>2. ASSUME NEW d, recipeStoreCall' = [recipeStoreCall EXCEPT ![c] = d],
             UNCHANGED <<bundled, user>>, d.at = "idle" \/ d.at \in Writing, d.at \in StoreStages,
             d = S(k)!Doing(d.at, d.by, d.dir, d.file),
             d.at \in Writing => d.dir \in S(k)!Names /\ d.file \in S(k)!Recipes,
             S(k)!HandsOff /\ StoreIsSound(k) => CallIsSound(k, d)
      PROVE  StoreStep(k, c)
  BY <1>2 DEF StoreStep, CallFits, Writing
<1>3. CASE S(k)!DuplicateLoad(c)
  <2> DEFINE file0 == S(k)!File(was.file)
             into == S(k)!NextAvailable(file0.id)
             d == [at |-> "make", by |-> "copy", dir |-> into, file |-> [file0 EXCEPT !.id = into]]
  <2>1. CASE recipeStoreCall' = [recipeStoreCall EXCEPT ![c] = S(k)!Idle]
    BY <1>2, <1>3, <2>1 DEF S!DuplicateLoad, S!Idle, S!Doing, StoreStages, Writing, CallIsSound
  <2>2. CASE /\ recipeStoreCall' = [recipeStoreCall EXCEPT ![c] = d]
             /\ file0.kind = "recipe" /\ S(k)!CanCopy(file0.id)
    <3>1. /\ file0 \in S(k)!Files
          /\ (file0 = user[was.file.dir] \/ file0 = bundled[was.file.dir])
          /\ was.file.dir \in S(k)!Names
      BY <1>1, <1>3 DEF S!DuplicateLoad, CallFits, S!File
    <3>2. /\ file0 \in S(k)!Recipes /\ file0.id \in S(k)!Names
          /\ file0.text \in {"one", "bad"} /\ file0.note \in k.notes \cup {NoNote}
          /\ file0 = S(k)!Recipe(file0.id, file0.text, file0.note)
      BY <2>2, <3>1, RecipeFiles
    <3>3. into \in S(k)!Names
      <4> DEFINE free == {n \in S(k)!Members(CopyIds[file0.id]) : user[n] = S(k)!NoDir}
      <4>1. free \subseteq S(k)!Names
        BY <3>2 DEF S!StoreAssumption
      <4>2. free # {}
        BY <2>2 DEF S!CanCopy
      <4>3. S(k)!FirstOf(free) \in free
        BY <4>1, <4>2, FirstIsOfThem
      <4> QED BY <4>1, <4>3 DEF S!NextAvailable
    <3> HIDE DEF into, file0
    <3>4. [file0 EXCEPT !.id = into] = S(k)!Recipe(into, file0.text, file0.note)
      BY <3>2 DEF S!Recipe
    <3>5. S(k)!Recipe(into, file0.text, file0.note) \in S(k)!Recipes
      BY <3>2, <3>3 DEF S!Recipes, S!Recipe
    <3>6. /\ d.at = "make" /\ d.dir = into /\ d = S(k)!Doing(d.at, d.by, d.dir, d.file)
          /\ d.file = S(k)!Recipe(into, file0.text, file0.note)
      BY <3>4 DEF S!Doing
    <3>7. ASSUME S(k)!HandsOff, StoreIsSound(k)
          PROVE  file0.text \in {"one"}
      <4>1. CASE file0 = user[was.file.dir]
        BY <2>2, <3>1, <3>7, <4>1 DEF StoreIsSound, S!SavedIsSound, S!Parsed
      <4>2. CASE file0 = bundled[was.file.dir]
        BY <2>2, <3>1, <3>7, <4>2 DEF StoreHolds, S!HandsOff
      <4> QED BY <3>1, <4>1, <4>2
    <3>8. S(k)!HandsOff /\ StoreIsSound(k) => CallIsSound(k, d)
      BY <3>6, <3>7 DEF CallIsSound, S!Recipe
    <3>9. UNCHANGED <<bundled, user>>
      BY <1>3 DEF S!DuplicateLoad
    <3> HIDE DEF d
    <3> QED BY <1>2, <2>2, <3>3, <3>5, <3>6, <3>8, <3>9 DEF StoreStages, Writing
  <2> QED
    BY <1>3, <2>1, <2>2 DEF S!DuplicateLoad, S!Becomes, S!Doing, S!Copied
<1>4. CASE S(k)!CommentRead(c)
  <2> DEFINE file0 == user[was.dir]
             note == S(k)!Normalised(was.by)
             d == [at |-> "cut", by |-> "comment", dir |-> was.dir, file |-> [file0 EXCEPT !.note = note]]
  <2>1. CASE recipeStoreCall' = [recipeStoreCall EXCEPT ![c] = S(k)!Idle]
    BY <1>2, <1>4, <2>1 DEF S!CommentRead, S!Idle, S!Doing, StoreStages, Writing, CallIsSound
  <2>2. CASE /\ recipeStoreCall' = [recipeStoreCall EXCEPT ![c] = d]
             /\ file0.kind = "recipe" /\ file0.text \in {"one", "bad"} \cap {"one"}
    <3>1. was.dir \in S(k)!Names /\ was.by \in k.typed
      BY <1>1, <1>4 DEF S!CommentRead, CallFits
    <3>2. file0 \in S(k)!Recipes /\ file0.id \in S(k)!Names
          /\ file0 = S(k)!Recipe(file0.id, file0.text, file0.note)
      BY <1>1, <2>2, <3>1, RecipeFiles
    <3>3. note \in k.notes \cup {NoNote}
      BY <3>1 DEF S!Normalised, S!StoreAssumption
    <3>4. S(k)!HandsOff /\ StoreIsSound(k) => file0.id = was.dir
      BY <2>2, <3>1 DEF StoreIsSound, S!NamedAfterId, S!Parsed
    <3> HIDE DEF file0, note
    <3>5. [file0 EXCEPT !.note = note] = S(k)!Recipe(file0.id, file0.text, note)
      BY <3>2 DEF S!Recipe
    <3>6. S(k)!Recipe(file0.id, file0.text, note) \in S(k)!Recipes
      BY <2>2, <3>2, <3>3 DEF S!Recipes, S!Recipe
    <3>7. /\ d.at = "cut" /\ d.dir = was.dir /\ d = S(k)!Doing(d.at, d.by, d.dir, d.file)
          /\ d.file = S(k)!Recipe(file0.id, file0.text, note)
      BY <3>5 DEF S!Doing
    <3>8. S(k)!HandsOff /\ StoreIsSound(k) => CallIsSound(k, d)
      BY <2>2, <3>4, <3>7 DEF CallIsSound, S!Recipe
    <3>9. UNCHANGED <<bundled, user>>
      BY <1>4 DEF S!CommentRead
    <3> HIDE DEF d
    <3> QED BY <1>2, <2>2, <3>1, <3>6, <3>7, <3>8, <3>9 DEF StoreStages, Writing
  <2> QED BY <1>4, <2>1, <2>2 DEF S!CommentRead, S!Becomes, S!Doing
<1>5. ASSUME c = "mcp", NEW id \in k.targets, NEW i \in k.targets, NEW t \in {"one", "bad"},
             NEW o \in BOOLEAN, S(k)!Save(id, S(k)!Recipe(i, t, NoNote), o)
      PROVE  StoreStep(k, c)
  <2> DEFINE new0 == S(k)!Recipe(i, t, NoNote)
             d == [at |-> "make", by |-> IF o THEN "replace" ELSE "save", dir |-> id, file |-> new0]
  <2>1. /\ recipeStoreCall' = [recipeStoreCall EXCEPT ![c] = d]
        /\ UNCHANGED <<bundled, user>> /\ new0.id = id /\ new0.text \in {"one"}
    BY <1>5 DEF S!Save, S!MaySave, S!Becomes, S!Doing
  <2>2. new0 \in S(k)!Recipes /\ id \in S(k)!Names
    <3>1. i \in S(k)!Names /\ id \in S(k)!Names /\ NoNote \in k.notes \cup {NoNote}
      BY DEF S!StoreAssumption
    <3> QED BY <3>1 DEF S!Recipes
  <2> HIDE DEF new0
  <2>3. d.at = "make" /\ d.dir = id /\ d.file = new0 /\ d = S(k)!Doing(d.at, d.by, d.dir, d.file)
    BY DEF S!Doing
  <2> HIDE DEF d
  <2>4. CallIsSound(k, d)
    BY <2>1, <2>3 DEF CallIsSound
  <2> QED BY <1>2, <2>1, <2>2, <2>3, <2>4 DEF StoreStages, Writing
<1> QED BY <1>3, <1>4, <1>5

(* The calls that change the user's tree.                                  *)
LEMMA PuttingDown ==
  ASSUME NEW k, S(k)!StoreAssumption, StoreHolds(k), NEW c \in S(k)!Callers,
         S(k)!MakeDir(c) \/ S(k)!Truncate(c) \/ S(k)!Write(c) \/ S(k)!DeleteRemove(c)
  PROVE  StoreStep(k, c)
<1> DEFINE was == recipeStoreCall[c]
<1>1. /\ user \in [S(k)!Names -> S(k)!Files] /\ CallFits(k, was)
      /\ S(k)!HandsOff /\ StoreIsSound(k) => CallIsSound(k, was)
      /\ was = S(k)!Doing(was.at, was.by, was.dir, was.file)
  BY DEF StoreHolds, StoreIsSound, CallFits
<1>2. CASE S(k)!MakeDir(c)
  <2> DEFINE d == [was EXCEPT !.at = "cut"]
             f == IF user[was.dir] = S(k)!NoDir THEN S(k)!EmptyDir ELSE user[was.dir]
  <2>1. was.dir \in S(k)!Names /\ was.file \in S(k)!Recipes /\ was.at = "make"
    BY <1>1, <1>2 DEF S!MakeDir, CallFits, Writing
  <2>2. /\ d.at = "cut" /\ d.dir = was.dir /\ d.file = was.file
        /\ d = S(k)!Doing(d.at, d.by, d.dir, d.file)
    BY <1>1 DEF S!Doing
  <2>3. /\ recipeStoreCall' = [recipeStoreCall EXCEPT ![c] = d] /\ bundled' = bundled
        /\ user' = [user EXCEPT ![was.dir] = f]
    BY <1>2 DEF S!MakeDir, S!Becomes
  <2>4. user' = user \/ (f = S(k)!EmptyDir /\ f \in S(k)!Files /\ f.kind # "recipe")
    BY <1>1, <2>1, <2>3, RecipeFiles
  <2>5. S(k)!HandsOff /\ StoreIsSound(k) => CallIsSound(k, d)
    BY <1>1, <2>1, <2>2 DEF CallIsSound, Writing
  <2> HIDE DEF d, f
  <2>6. CallFits(k, d)
    BY <2>1, <2>2 DEF CallFits, StoreStages, Writing
  <2> QED BY <2>1, <2>3, <2>4, <2>5, <2>6 DEF StoreStep
<1>3. CASE S(k)!Truncate(c)
  <2> DEFINE d == [was EXCEPT !.at = "write"]
  <2>1. was.dir \in S(k)!Names /\ was.file \in S(k)!Recipes /\ was.at = "cut"
    BY <1>1, <1>3 DEF S!Truncate, CallFits, Writing
  <2>2. /\ d.at = "write" /\ d.dir = was.dir /\ d.file = was.file
        /\ d = S(k)!Doing(d.at, d.by, d.dir, d.file)
    BY <1>1 DEF S!Doing
  <2>3. S(k)!HandsOff /\ StoreIsSound(k) => CallIsSound(k, d)
    BY <1>1, <2>1, <2>2 DEF CallIsSound, Writing
  <2>4. bundled' = bundled /\ S(k)!Broken \in S(k)!Files /\ S(k)!Broken.kind # "recipe"
    BY <1>3, RecipeFiles DEF S!Truncate
  <2>5. \/ recipeStoreCall' = [recipeStoreCall EXCEPT ![c] = S(k)!Idle] /\ user' = user
        \/ /\ recipeStoreCall' = [recipeStoreCall EXCEPT ![c] = d]
           /\ user' = [user EXCEPT ![was.dir] = S(k)!Broken]
    BY <1>3 DEF S!Truncate, S!Becomes
  <2> HIDE DEF d
  <2>6. CallFits(k, d)
    BY <2>1, <2>2 DEF CallFits, StoreStages, Writing
  <2>7. CallFits(k, S(k)!Idle) /\ CallIsSound(k, S(k)!Idle)
    BY DEF CallFits, CallIsSound, S!Idle, S!Doing, StoreStages, Writing
  <2> QED BY <2>1, <2>3, <2>4, <2>5, <2>6, <2>7 DEF StoreStep
<1>4. CallFits(k, S(k)!Idle) /\ CallIsSound(k, S(k)!Idle)
  BY DEF CallFits, CallIsSound, S!Idle, S!Doing, StoreStages, Writing
<1>5. CASE S(k)!Write(c)
  <2> DEFINE f == IF user[was.dir] = S(k)!NoDir THEN user[was.dir] ELSE was.file
  <2>1. was.dir \in S(k)!Names /\ was.file \in S(k)!Recipes /\ was.at = "write"
    BY <1>1, <1>5 DEF S!Write, CallFits, Writing
  <2>2. /\ recipeStoreCall' = [recipeStoreCall EXCEPT ![c] = S(k)!Idle] /\ bundled' = bundled
        /\ user' = [user EXCEPT ![was.dir] = f]
    BY <1>5 DEF S!Write, S!Becomes
  <2>3. user' = user \/ (f = was.file /\ f \in S(k)!Files)
    BY <1>1, <2>1, <2>2, RecipeFiles
  <2> HIDE DEF f
  <2> QED BY <1>4, <2>1, <2>2, <2>3 DEF StoreStep
<1>6. CASE S(k)!DeleteRemove(c)
  <2>1. was.file.source = "user" /\ was.file.dir \in S(k)!Names
    BY <1>1, <1>6 DEF S!DeleteRemove, CallFits
  <2>2. /\ recipeStoreCall' = [recipeStoreCall EXCEPT ![c] = S(k)!Idle] /\ bundled' = bundled
        /\ user' = [user EXCEPT ![was.file.dir] = S(k)!NoDir]
    BY <1>6, <2>1 DEF S!DeleteRemove, S!Becomes, S!Emptied
  <2>3. S(k)!NoDir \in S(k)!Files /\ S(k)!NoDir.kind # "recipe"
    BY RecipeFiles
  <2> QED BY <1>4, <2>1, <2>2, <2>3 DEF StoreStep
<1> QED BY <1>2, <1>3, <1>5, <1>6

(* What a step on the recipes leaves.                                      *)
LEMMA RecipesStep ==
  ASSUME NEW k, S(k)!StoreAssumption, StoreHolds(k), [S(k)!Next]_(S(k)!vars)
  PROVE  /\ StoreHolds(k)' /\ bundled' = bundled
         /\ S(k)!HandsOff /\ StoreIsSound(k) => StoreIsSound(k)'
<1>1. ASSUME NEW c \in S(k)!Callers, StoreStep(k, c)
      PROVE  /\ StoreHolds(k)' /\ bundled' = bundled
             /\ S(k)!HandsOff /\ StoreIsSound(k) => StoreIsSound(k)'
  <2>1. PICK d :
          /\ CallFits(k, d) /\ recipeStoreCall' = [recipeStoreCall EXCEPT ![c] = d]
          /\ bundled' = bundled
          /\ S(k)!HandsOff /\ StoreIsSound(k) => CallIsSound(k, d)
          /\ \/ user' = user
             \/ \E n \in S(k)!Names, f \in S(k)!Files :
                  /\ user' = [user EXCEPT ![n] = f]
                  /\ f.kind = "recipe" => /\ recipeStoreCall[c].at = "write"
                                          /\ n = recipeStoreCall[c].dir
                                          /\ f = recipeStoreCall[c].file
    BY <1>1 DEF StoreStep
  <2>2. DOMAIN recipeStoreCall = S(k)!Callers
    BY DEF StoreHolds
  <2>3. /\ DOMAIN recipeStoreCall' = S(k)!Callers /\ recipeStoreCall'[c] = d
        /\ \A e \in S(k)!Callers : e # c => recipeStoreCall'[e] = recipeStoreCall[e]
    BY <2>1, <2>2
  <2>4. user \in [S(k)!Names -> S(k)!Files] /\ user' \in [S(k)!Names -> S(k)!Files]
    BY <2>1 DEF StoreHolds
  <2>5. StoreHolds(k)'
    BY <2>1, <2>3, <2>4 DEF StoreHolds
  <2>6. ASSUME S(k)!HandsOff, StoreIsSound(k)
        PROVE  StoreIsSound(k)'
    <3>1. \A e \in S(k)!Callers : CallIsSound(k, recipeStoreCall'[e])
      BY <2>1, <2>3, <2>6 DEF StoreIsSound
    <3>2. ASSUME NEW n \in S(k)!Names, user'[n].kind = "recipe"
          PROVE  user'[n].id = n /\ user'[n].text \in {"one"}
      <4>1. CASE user'[n] = user[n]
        BY <2>6, <3>2, <4>1 DEF StoreIsSound, S!NamedAfterId, S!SavedIsSound, S!Parsed
      <4>2. CASE user'[n] # user[n]
        <5>1. recipeStoreCall[c].at = "write" /\ n = recipeStoreCall[c].dir
              /\ user'[n] = recipeStoreCall[c].file
          BY <2>1, <2>4, <3>2, <4>2
        <5> QED BY <2>6, <5>1 DEF StoreIsSound, CallIsSound, Writing
      <4> QED BY <4>1, <4>2
    <3> QED BY <3>1, <3>2 DEF StoreIsSound, S!NamedAfterId, S!SavedIsSound, S!Parsed
  <2> QED BY <2>1, <2>5, <2>6
<1>2. ASSUME NEW n \in S(k)!Names, NEW f \in k.edits, S(k)!Edit(n, f)
      PROVE  /\ StoreHolds(k)' /\ bundled' = bundled /\ ~S(k)!HandsOff
  <2>1. f \in S(k)!Files /\ ~S(k)!HandsOff
    BY DEF S!StoreAssumption, S!HandsOff
  <2> QED BY <1>2, <2>1 DEF S!Edit, StoreHolds
<1>3. ASSUME NEW callers, S(k)!Quit(callers)
      PROVE  /\ StoreHolds(k)' /\ bundled' = bundled
             /\ S(k)!HandsOff /\ StoreIsSound(k) => StoreIsSound(k)'
  <2>1. /\ recipeStoreCall' = [c \in S(k)!Callers |->
                                IF c \in callers THEN S(k)!Idle ELSE recipeStoreCall[c]]
        /\ UNCHANGED <<bundled, user>>
    BY <1>3 DEF S!Quit
  <2>2. CallFits(k, S(k)!Idle) /\ CallIsSound(k, S(k)!Idle)
    BY DEF CallFits, CallIsSound, S!Idle, S!Doing, StoreStages, Writing
  <2>3. StoreHolds(k)'
    BY <2>1, <2>2 DEF StoreHolds
  <2>4. StoreIsSound(k) => StoreIsSound(k)'
    BY <2>1, <2>2 DEF StoreIsSound, S!NamedAfterId, S!SavedIsSound, S!Parsed
  <2> QED BY <2>1, <2>3, <2>4
<1>4. CASE UNCHANGED S(k)!vars
  BY <1>4 DEF S!vars, StoreHolds, StoreIsSound, S!NamedAfterId, S!SavedIsSound, S!Parsed
<1>5. k.hub \subseteq S(k)!Callers /\ "mcp" \in S(k)!Callers
  BY DEF S!Callers
<1>6. CASE \E c \in k.hub, id \in k.targets :
             \/ S(k)!DuplicateFind(c, id) \/ S(k)!DeleteFind(c, id)
             \/ \E n \in k.typed : S(k)!CommentFind(c, id, n)
  BY <1>1, <1>5, <1>6, LookingUp
<1>7. CASE \E c \in k.hub : S(k)!DuplicateLoad(c) \/ S(k)!DeleteRemove(c) \/ S(k)!CommentRead(c)
  BY <1>1, <1>5, <1>7, ReadingIn, PuttingDown
<1>8. CASE \E id, i \in k.targets, t \in {"one", "bad"}, o \in BOOLEAN :
             S(k)!Save(id, S(k)!Recipe(i, t, NoNote), o)
  BY <1>1, <1>5, <1>8, ReadingIn
<1>9. CASE \E c \in S(k)!Callers : S(k)!MakeDir(c) \/ S(k)!Truncate(c) \/ S(k)!Write(c)
  BY <1>1, <1>9, PuttingDown
<1> QED BY <1>2, <1>3, <1>4, <1>6, <1>7, <1>8, <1>9 DEF S!Next

-----------------------------------------------------------------------------
(* A run of a recipe                                                       *)

AList(s) == s \in Seq({s[i] : i \in DOMAIN s})
Running == {"step", "asking", "shell", "focus"}

(* A run of an installed recipe that has steps for this system.            *)
OnARecipe ==
  /\ \E i \in DOMAIN SomeRecipes : recipe = SomeRecipes[i]
  /\ R!Steps # None /\ done \in 0..Len(R!Steps)

(* How far a run is, in the order of its stages.                           *)
RunStages ==
  /\ at \in Running \cup {"idle", "over"} /\ poll \in 0..1
  /\ recipeRunResult \in R!Outcomes \cup {None} /\ (at = "over") = (recipeRunResult # None)
  /\ at = "idle" => who = None
  /\ at = "idle" \/ recipeRunResult \in {"planner", "no_steps"} =>
       R!NoRun /\ did = <<>> /\ asked = <<>> /\ done = 0
  /\ at = "idle" \/ recipeRunResult = "planner" => recipe = None
  /\ at # "idle" /\ recipeRunResult \notin {"planner", "no_steps"} => OnARecipe
  /\ recipeRunResult = "ok" => done = Len(R!Steps)
  /\ at \in {"asking", "shell"} => done < Len(R!Steps) /\ R!Here.kind = "run_shell" /\ ~R!Here.dry
  /\ at = "focus" => done < Len(R!Steps) /\ R!Here.kind = "wait_for_focus_change"

(* What was done, asked and bound so far.                                  *)
DoneSoFar == AList(did) /\ \E pos \in [DOMAIN did -> R!Visible] : R!DoneAt(pos)
AskedSoFar ==
  /\ AList(asked)
  /\ \A i \in DOMAIN asked : asked[i] \in [text : {asked[i].text}, allowed : BOOLEAN]
  /\ at = "asking" => asked # <<>>
  /\ at = "shell" \/ orphan => asked # <<>>
  /\ orphan => at = "over"
BoundSoFar ==
  \A j \in 1..done : R!Steps[j].binds # None => R!Steps[j].binds \in DOMAIN bound

RunHolds ==
  /\ RunStages
  /\ at # "idle" /\ recipeRunResult \notin {"planner", "no_steps"} => DoneSoFar /\ BoundSoFar
  /\ AskedSoFar /\ R!ShellsWereAllowed /\ R!ValidNeverUnbound

(* A list that grows by one.                                               *)
LEMMA OneMore ==
  ASSUME NEW s, AList(s), NEW e
  PROVE  /\ AList(Append(s, e)) /\ s \o <<e>> = Append(s, e) /\ s \o <<>> = s
         /\ Len(s) \in Nat /\ DOMAIN s = 1..Len(s)
         /\ DOMAIN Append(s, e) = 1..(Len(s) + 1) /\ Append(s, e)[Len(s) + 1] = e
         /\ Len(Append(s, e)) = Len(s) + 1 /\ Append(s, e) # <<>>
         /\ \A i \in 1..Len(s) : Append(s, e)[i] = s[i]
<1> DEFINE S0 == {s[i] : i \in DOMAIN s}
           t == Append(s, e)
<1>1. s \in Seq(S0)
  BY DEF AList
<1> HIDE DEF S0
<1>2. s \in Seq(S0 \cup {e}) /\ e \in S0 \cup {e}
  BY <1>1
<1>3. /\ t \in Seq(S0 \cup {e}) /\ s \o <<e>> = t /\ s \o <<>> = s
      /\ Len(s) \in Nat /\ DOMAIN s = 1..Len(s)
      /\ DOMAIN t = 1..(Len(s) + 1) /\ t[Len(s) + 1] = e /\ Len(t) = Len(s) + 1 /\ t # <<>>
      /\ \A i \in 1..Len(s) : t[i] = s[i]
  BY <1>2
<1>4. t \in [1..Len(t) -> S0 \cup {e}] /\ DOMAIN t = 1..Len(t) /\ Len(t) \in Nat
  BY <1>3, LenProperties
<1>5. t \in Seq({t[i] : i \in DOMAIN t})
  <2> HIDE DEF t
  <2> DEFINE T0 == {t[i] : i \in DOMAIN t}
  <2>1. t \in [1..Len(t) -> T0]
    BY <1>4
  <2> HIDE DEF T0
  <2>2. t \in Seq(T0)
    BY <1>4, <2>1, SeqDef
  <2> QED BY <2>2 DEF T0
<1> QED BY <1>3, <1>5 DEF AList

(* The steps of a run, and that what a spoken command runs is installed.   *)
LEMMA StepsAreAList ==
  ASSUME R!RunAssumption, OnARecipe
  PROVE  /\ Len(R!Steps) \in Nat /\ DOMAIN R!Steps = 1..Len(R!Steps)
         /\ \A i \in 1..Len(R!Steps) :
              /\ R!Steps[i].binds # None => R!Steps[i].kind \in {"clipboard_get_into", "run_shell"}
              /\ R!Steps[i].dry => R!Steps[i].kind = "run_shell"
<1>1. R!IsStepList(R!Steps)
  BY DEF R!RunAssumption, R!OSes, OnARecipe, R!Steps
<1> DEFINE list == R!Steps
<1>2. list # None
  BY DEF OnARecipe
<1>3. list \in Seq(R!ToSet(list))
      /\ \A i \in DOMAIN list :
           /\ list[i].binds # None => list[i].kind \in {"clipboard_get_into", "run_shell"}
           /\ list[i].dry => list[i].kind = "run_shell"
  BY <1>1, <1>2 DEF R!IsStepList
<1> HIDE DEF list
<1>4. Len(list) \in Nat /\ DOMAIN list = 1..Len(list)
  BY <1>3
<1> QED BY <1>3, <1>4 DEF list

(* The match a spoken command runs is one of the matches there are.        *)
LEMMA FirstHitIsOne ==
  ASSUME R!RunAssumption, NEW words, R!Hits(words) # {}
  PROVE  R!FirstHit(words) \in R!Hits(words)
<1> DEFINE hits == R!Hits(words)
           firsts == {h[1] : h \in hits}
<1>1. hits \subseteq (DOMAIN SomeRecipes) \X (1..2)
  BY DEF R!Hits
<1>2. DOMAIN SomeRecipes \subseteq Nat
  BY DEF R!RunAssumption
<1>3. PICK a \in firsts : \A b \in firsts : a <= b
  <2>1. firsts \subseteq Nat /\ firsts # {}
    BY <1>1, <1>2
  <2> QED BY <2>1, LeastIsThere
<1> DEFINE seconds == {h[2] : h \in {g \in hits : g[1] = a}}
<1>4. PICK c \in seconds : \A b \in seconds : c <= b
  <2>1. seconds \subseteq Nat /\ seconds # {}
    BY <1>1, <1>3
  <2> QED BY <2>1, LeastIsThere
<1>5. PICK h \in hits : h[1] = a /\ h[2] = c
  BY <1>4
<1>6. \A g \in hits : h[1] < g[1] \/ (h[1] = g[1] /\ h[2] <= g[2])
  <2> SUFFICES ASSUME NEW g \in hits
               PROVE  a < g[1] \/ (a = g[1] /\ c <= g[2])
    BY <1>5
  <2>1. g[1] \in firsts /\ g[1] \in Nat /\ a \in Nat /\ a <= g[1]
    BY <1>1, <1>2, <1>3
  <2>2. a = g[1] => g[2] \in seconds /\ c <= g[2]
    BY <1>4
  <2> QED BY <2>1, <2>2
<1> QED BY <1>6 DEF R!FirstHit

(* A run that begins.                                                      *)
LEMMA RunBegins ==
  ASSUME R!RunAssumption, RunHolds,
         \/ \E w \in SomeSaid : R!Command(w)
         \/ \E i \in DOMAIN SomeRecipes, a \in SomeGiven :
              R!HubRun(i, a) \/ \E s \in BOOLEAN : R!CliRun(i, a, s)
  PROVE  RunHolds'
<1>1. /\ at = "idle" /\ did = <<>> /\ asked = <<>> /\ done = 0 /\ recipe = None
      /\ poll \in 0..1 /\ ~orphan /\ recipeRunResult = None /\ None \notin R!Outcomes
  BY DEF RunHolds, RunStages, AskedSoFar, R!Command, R!HubRun, R!CliRun, R!RunAssumption
<1>2. /\ did' = <<>> /\ asked' = <<>> /\ done' = 0 /\ poll' = poll /\ ~orphan'
      /\ \/ at' = "over" /\ recipeRunResult' = "planner" /\ recipe' = None
         \/ /\ \E i \in DOMAIN SomeRecipes : recipe' = SomeRecipes[i]
            /\ \/ at' = "over" /\ recipeRunResult' = "no_steps" /\ R!Steps' = None
               \/ at' = "step" /\ recipeRunResult' = None /\ R!Steps' # None
  <2>1. ASSUME NEW w, R!Command(w)
        PROVE  <1>2!:
    <3>1. CASE R!Hits(w) = {}
      BY <1>1, <2>1, <3>1 DEF R!Command
    <3>2. CASE R!Hits(w) # {}
      <4> DEFINE h == R!FirstHit(w)
      <4>1. h \in R!Hits(w)
        BY <3>2, FirstHitIsOne
      <4>2. h[1] \in DOMAIN SomeRecipes
        BY <4>1 DEF R!Hits
      <4> DEFINE args == R!Args(SomeRecipes[h[1]].intents[h[2]], w)
      <4>3. R!Begin("command", SomeRecipes[h[1]], args)
        BY <2>1, <3>2 DEF R!Command
      <4> HIDE DEF h, args
      <4> QED BY <1>1, <4>2, <4>3 DEF R!Begin, R!Steps
    <3> QED BY <3>1, <3>2
  <2>2. ASSUME NEW i \in DOMAIN SomeRecipes, NEW a, NEW by, R!Begin(by, SomeRecipes[i], a)
        PROVE  <1>2!:
    BY <1>1, <2>2 DEF R!Begin, R!Steps
  <2> QED BY <2>1, <2>2 DEF R!HubRun, R!CliRun
<1>3. RunStages'
  <2>1. done' = 0 /\ (R!Steps' # None /\ (\E i \in DOMAIN SomeRecipes : recipe' = SomeRecipes[i])
                        => OnARecipe')
    <3>1. ASSUME R!Steps' # None, \E i \in DOMAIN SomeRecipes : recipe' = SomeRecipes[i]
          PROVE  OnARecipe'
      <4>1. R!IsStepList(R!Steps')
        BY <3>1 DEF R!RunAssumption, R!OSes, R!Steps
      <4> DEFINE list == R!Steps'
      <4>2. list \in Seq(R!ToSet(list))
        BY <3>1, <4>1 DEF R!IsStepList
      <4> HIDE DEF list
      <4>3. Len(list) \in Nat
        BY <4>2
      <4>4. Len(R!Steps') \in Nat
        BY <4>3 DEF list
      <4> QED BY <1>2, <3>1, <4>4 DEF OnARecipe
    <3> QED BY <1>2, <3>1
  <2>2. R!NoRun' <=> recipe' = None \/ R!Steps' = None
    BY DEF R!NoRun
  <2> QED BY <1>1, <1>2, <2>1, <2>2 DEF RunStages, Running, R!Outcomes
<1>4. DoneSoFar' /\ BoundSoFar'
  <2>1. AList(did')
    BY <1>2 DEF AList
  <2>2. R!Visible' = {} /\ did' = <<>>
    BY <1>2 DEF R!Visible
  <2>3. [i \in {} |-> 0] \in [DOMAIN did' -> R!Visible']
    BY <2>2
  <2> DEFINE none == [i \in {} |-> 0]
  <2>4. R!DoneAt(none)'
    BY <2>2 DEF R!DoneAt
  <2> HIDE DEF none
  <2>5. \E pos \in [DOMAIN did' -> R!Visible'] : R!DoneAt(pos)'
    BY <2>3, <2>4 DEF none
  <2>6. BoundSoFar'
    BY <1>2 DEF BoundSoFar
  <2> QED BY <2>1, <2>5, <2>6 DEF DoneSoFar
<1>5. AskedSoFar' /\ R!ShellsWereAllowed'
  BY <1>1, <1>2 DEF AskedSoFar, R!ShellsWereAllowed, AList
<1>6. R!ValidNeverUnbound'
  BY <1>1, <1>2 DEF R!ValidNeverUnbound, R!Outcomes
<1> QED BY <1>3, <1>4, <1>5, <1>6 DEF RunHolds

(* A name that is not bound, in a recipe that validates, is that of a      *)
(* parameter no value was given for.                                       *)
LEMMA UnboundIsAParameter ==
  ASSUME R!RunAssumption, OnARecipe, BoundSoFar, done < Len(R!Steps),
         NEW n \in R!Names(R!Here), n \notin DOMAIN bound,
         R!Valid(recipe), R!BoundBefore(recipe)
  PROVE  ~(R!Keys(recipe) \subseteq DOMAIN bound)
<1> SUFFICES ASSUME R!Keys(recipe) \subseteq DOMAIN bound
             PROVE  FALSE
  OBVIOUS
<1> DEFINE p == done + 1
<1>1. p \in 1..Len(R!Steps) /\ p \in DOMAIN R!Steps /\ R!Here = R!Steps[p]
  BY StepsAreAList DEF OnARecipe, R!Here
<1>2. n # R!Empty
  BY <1>1 DEF R!BoundBefore, R!Steps
<1>3. R!Here \in R!StepsOf(recipe)
  <2>1. R!Steps \in R!Lists(recipe)
    BY DEF OnARecipe, R!Lists, R!Steps, R!RunAssumption
  <2>2. R!Here \in R!ToSet(R!Steps)
    BY <1>1 DEF R!ToSet
  <2> QED BY <2>1, <2>2 DEF R!StepsOf
<1>4. n \in R!Used(recipe)
  BY <1>2, <1>3 DEF R!Used
<1>5. n \in R!Keys(recipe) \cup R!Locals(recipe)
  BY <1>4 DEF R!Valid, R!Issues, R!NameIssues
<1>6. n \in R!Locals(recipe) \ R!Keys(recipe)
  BY <1>5
<1>7. n \in {R!Steps[j].binds : j \in 1..(p - 1)}
  BY <1>1, <1>6 DEF R!BoundBefore, R!Steps
<1>8. p - 1 = done /\ n # None
  BY <1>6 DEF OnARecipe, R!Locals
<1> QED BY <1>7, <1>8 DEF BoundSoFar

(* A run that ends before its last step is done.                           *)
LEMMA RunFails ==
  ASSUME R!RunAssumption, RunHolds, at \in Running, at' = "over",
         recipeRunResult' \in R!Outcomes \ {"ok", "planner", "no_steps"},
         UNCHANGED <<did, done, bound, poll, asked, who, recipe>>,
         orphan' = orphan \/ at = "shell",
         recipeRunResult' = "unknown_interpolation" =>
           /\ done < Len(R!Steps) /\ R!Names(R!Here) \ DOMAIN bound # {}
  PROVE  RunHolds'
<1>1. /\ recipeRunResult = None /\ OnARecipe /\ poll \in 0..1 /\ None \notin R!Outcomes
  BY DEF RunHolds, RunStages, Running, R!RunAssumption, R!Outcomes
<1>2. R!Steps' = R!Steps /\ R!NoRun' = R!NoRun /\ OnARecipe'
  BY <1>1 DEF R!Steps, R!NoRun, OnARecipe
<1>3. RunStages'
  BY <1>1, <1>2 DEF RunStages, Running
<1>4. DoneSoFar' /\ BoundSoFar'
  <2>1. DoneSoFar /\ BoundSoFar
    BY <1>1 DEF RunHolds, Running, R!Outcomes
  <2>2. DoneSoFar'
    BY <1>2, <2>1 DEF DoneSoFar, R!Visible, R!DoneAt
  <2> QED BY <1>2, <2>1, <2>2 DEF BoundSoFar
<1>5. AskedSoFar'
  BY DEF RunHolds, AskedSoFar, Running
<1>6. R!ShellsWereAllowed'
  BY DEF RunHolds, R!ShellsWereAllowed, R!Allowed, Running, AskedSoFar
<1>7. R!ValidNeverUnbound'
  <2> SUFFICES ASSUME recipeRunResult' = "unknown_interpolation", R!Valid(recipe), R!BoundBefore(recipe)
               PROVE  ~(R!Keys(recipe) \subseteq DOMAIN bound)
    BY DEF R!ValidNeverUnbound
  <2>1. BoundSoFar
    BY <1>1 DEF RunHolds, Running, R!Outcomes
  <2> QED BY <1>1, <2>1, UnboundIsAParameter
<1> QED BY <1>2, <1>3, <1>4, <1>5, <1>6, <1>7 DEF RunHolds

(* A step that is done, and one that only dry runs.                        *)
LEMMA RunGoesOn ==
  ASSUME R!RunAssumption, RunHolds, at \in Running \ {"asking"}, done < Len(R!Steps),
         at' = "step", done' = done + 1, poll' = 0,
         UNCHANGED <<recipeRunResult, asked, who, recipe, orphan>>,
         \/ did' = did /\ R!Here.dry
         \/ \E a : /\ did' = Append(did, a) /\ a.kind = R!Here.kind /\ ~R!Here.dry
                   /\ a.kind = "run_shell" => at = "shell" /\ a.text = asked[Len(asked)].text,
         DOMAIN bound \subseteq DOMAIN bound',
         R!Here.binds # None => R!Here.binds \in DOMAIN bound'
  PROVE  RunHolds'
<1>1. /\ recipeRunResult = None /\ OnARecipe /\ None \notin R!Outcomes /\ ~orphan
      /\ DoneSoFar /\ BoundSoFar
  BY DEF RunHolds, RunStages, Running, R!RunAssumption, R!Outcomes, AskedSoFar
<1>2. R!Steps' = R!Steps /\ R!NoRun' = R!NoRun
  BY DEF R!Steps, R!NoRun
<1> DEFINE steps0 == R!Steps
           p == done + 1
<1>3. /\ done \in Nat /\ Len(steps0) \in Nat /\ p \in 1..Len(steps0) /\ p \in Nat /\ done' = p
      /\ R!Here = steps0[p] /\ \A i \in 1..p : i \in 1..done \/ i = p
  BY <1>1, StepsAreAList DEF OnARecipe, R!Here
<1>4. OnARecipe'
  BY <1>1, <1>2, <1>3 DEF OnARecipe
<1>5. RunStages'
  BY <1>1, <1>4 DEF RunStages, Running, R!Outcomes
<1>6. BoundSoFar'
  BY <1>1, <1>2, <1>3 DEF BoundSoFar
<1>7. PICK pos \in [DOMAIN did -> R!Visible] : R!DoneAt(pos)
  BY <1>1 DEF DoneSoFar
<1>8. /\ R!Visible = {i \in 1..done : ~steps0[i].dry} /\ R!Visible' = {i \in 1..p : ~steps0[i].dry}
  BY <1>2, <1>3 DEF R!Visible
<1>9. DoneSoFar'
  <2>1. CASE did' = did /\ R!Here.dry
    <3>1. R!Visible' = R!Visible
      BY <1>3, <1>8, <2>1
    <3>2. R!DoneAt(pos)'
      BY <1>2, <1>7, <2>1, <3>1 DEF R!DoneAt
    <3> QED BY <1>1, <1>7, <2>1, <3>1, <3>2 DEF DoneSoFar
  <2>2. ASSUME NEW a, did' = Append(did, a), a.kind = R!Here.kind, ~R!Here.dry
        PROVE  DoneSoFar'
    <3> DEFINE l == Len(did)
               m == l + 1
               pos2 == [i \in 1..m |-> IF i = m THEN p ELSE pos[i]]
    <3>1. /\ AList(did') /\ DOMAIN did = 1..l /\ DOMAIN did' = 1..m /\ did'[m] = a
          /\ \A i \in 1..l : did'[i] = did[i]
      BY <1>1, <2>2, OneMore DEF DoneSoFar
    <3>2. l \in Nat /\ m \in Nat /\ \A i \in 1..m : i \in 1..l \/ i = m
      BY <1>1, OneMore DEF DoneSoFar
    <3>3. \A i \in 1..l : pos[i] \in 1..done /\ ~steps0[pos[i]].dry /\ did[i].kind = steps0[pos[i]].kind
      BY <1>7, <1>8, <3>1 DEF R!DoneAt
    <3>4. \A i \in 1..l : i \in 1..m /\ i # m /\ i < m /\ i \in Nat
      BY <3>2
    <3>5. m \in 1..m
      BY <3>2
    <3>6. pos2[m] = p /\ \A i \in 1..l : pos2[i] = pos[i]
      BY <3>4, <3>5
    <3>7. pos2 \in [1..m -> R!Visible']
      BY <1>3, <1>8, <2>2, <3>2, <3>3
    <3> HIDE DEF pos2, m, l
    <3>8. \A i, j \in 1..m : i < j => pos2[i] < pos2[j]
      <4> SUFFICES ASSUME NEW i \in 1..m, NEW j \in 1..m, i < j
                   PROVE  pos2[i] < pos2[j]
        OBVIOUS
      <4>1. i \in 1..l /\ m \in Nat
        BY <3>2, <3>4
      <4>2. CASE j \in 1..l
        <5>1. pos[i] < pos[j]
          BY <1>7, <3>1, <4>1, <4>2 DEF R!DoneAt
        <5> QED BY <3>6, <4>1, <4>2, <5>1
      <4>3. CASE j = m
        <5>1. pos[i] \in 1..done /\ pos2[j] = p
          BY <3>3, <3>6, <4>1, <4>3
        <5> QED BY <1>3, <3>6, <4>1, <5>1
      <4> QED BY <3>2, <4>2, <4>3
    <3>9. \A i \in 1..m : did'[i].kind = steps0[pos2[i]].kind
      BY <1>3, <2>2, <3>1, <3>2, <3>3, <3>6
    <3>10. R!Visible' \subseteq {pos2[i] : i \in 1..m}
      <4>1. \A v \in R!Visible : \E i \in 1..l : pos[i] = v
        BY <1>7, <3>1 DEF R!DoneAt
      <4> SUFFICES ASSUME NEW v \in R!Visible'
                   PROVE  \E i \in 1..m : pos2[i] = v
        OBVIOUS
      <4>2. v = p \/ v \in R!Visible
        BY <1>3, <1>8
      <4> QED BY <3>4, <3>5, <3>6, <4>1, <4>2
    <3>11. PICK q \in [DOMAIN did' -> R!Visible'] : q = pos2
      BY <3>1, <3>7
    <3>12. R!DoneAt(q)'
      BY <1>2, <3>1, <3>8, <3>9, <3>10, <3>11 DEF R!DoneAt
    <3> QED BY <3>1, <3>11, <3>12 DEF DoneSoFar
  <2> QED BY <2>1, <2>2
<1>10. AskedSoFar'
  BY <1>1 DEF RunHolds, AskedSoFar, Running
<1>11. R!ShellsWereAllowed'
  <2>1. ~orphan' /\ at' = "step" /\ asked' = asked /\ who' = who
    BY <1>1
  <2>2. \A i \in DOMAIN asked : asked[i].allowed
    BY <1>1 DEF RunHolds, R!ShellsWereAllowed, Running
  <2>3. \A i \in DOMAIN did' : did'[i].kind = "run_shell" => R!Allowed(did'[i].text)
    <3>1. \A i \in DOMAIN did : did[i].kind = "run_shell" => R!Allowed(did[i].text)
      BY DEF RunHolds, R!ShellsWereAllowed
    <3>2. ASSUME NEW a, did' = Append(did, a),
                 a.kind = "run_shell" => at = "shell" /\ a.text = asked[Len(asked)].text
          PROVE  \A i \in DOMAIN did' : did'[i].kind = "run_shell" => R!Allowed(did'[i].text)
      <4> DEFINE l == Len(did)
      <4>1. /\ DOMAIN did = 1..l /\ DOMAIN did' = 1..(l + 1) /\ did'[l + 1] = a
            /\ \A i \in 1..l : did'[i] = did[i]
        BY <1>1, <3>2, OneMore DEF DoneSoFar
      <4>2. l \in Nat /\ \A i \in 1..(l + 1) : i \in 1..l \/ i = l + 1
        BY <1>1, OneMore DEF DoneSoFar
      <4>3. a.kind = "run_shell" => R!Allowed(a.text)
        <5> SUFFICES ASSUME at = "shell", a.text = asked[Len(asked)].text
                     PROVE  R!Allowed(a.text)
          BY <3>2
        <5> DEFINE q == Len(asked)
        <5>1. asked # <<>> /\ AList(asked)
          BY DEF RunHolds, AskedSoFar
        <5>2. q \in DOMAIN asked
          BY <5>1, EmptySeq DEF AList
        <5> QED BY <2>2, <5>2 DEF R!Allowed
      <4> QED BY <3>1, <4>1, <4>2, <4>3
    <3> QED BY <3>1, <3>2
  <2> QED BY <2>1, <2>2, <2>3 DEF R!ShellsWereAllowed, R!Allowed
<1>12. R!ValidNeverUnbound'
  BY <1>1 DEF R!ValidNeverUnbound, R!Outcomes
<1> QED BY <1>5, <1>6, <1>9, <1>10, <1>11, <1>12 DEF RunHolds

(* The run between two steps: a question, its answer, a poll, the end.     *)
LEMMA RunRests ==
  ASSUME R!RunAssumption, RunHolds, at \in Running, UNCHANGED <<did, done, bound, who, recipe, orphan>>,
         at' \in Running \cup {"over"}, poll' \in 0..1,
         recipeRunResult' = IF at' = "over" THEN "ok" ELSE None,
         at' = "over" => at = "step" /\ done = Len(R!Steps),
         at' \in {"asking", "shell"} =>
           done < Len(R!Steps) /\ R!Here.kind = "run_shell" /\ ~R!Here.dry,
         at' = "focus" => done < Len(R!Steps) /\ R!Here.kind = "wait_for_focus_change",
         AskedSoFar', R!ShellsWereAllowed'
  PROVE  RunHolds'
<1>1. /\ recipeRunResult = None /\ OnARecipe /\ None \notin R!Outcomes
      /\ DoneSoFar /\ BoundSoFar
  BY DEF RunHolds, RunStages, Running, R!RunAssumption, R!Outcomes, AskedSoFar
<1>2. R!Steps' = R!Steps /\ R!Here' = R!Here /\ OnARecipe'
  BY <1>1 DEF R!Steps, R!Here, OnARecipe
<1>3. RunStages'
  BY <1>1, <1>2 DEF RunStages, Running, R!Outcomes
<1>4. DoneSoFar' /\ BoundSoFar'
  <2>1. DoneSoFar'
    BY <1>1, <1>2 DEF DoneSoFar, R!Visible, R!DoneAt
  <2> QED BY <1>1, <1>2, <2>1 DEF BoundSoFar
<1>5. R!ValidNeverUnbound'
  BY <1>1 DEF R!ValidNeverUnbound, R!Outcomes
<1> QED BY <1>3, <1>4, <1>5 DEF RunHolds

(* A question that is asked, and one that is answered with yes.            *)
LEMMA RunAsks ==
  ASSUME R!RunAssumption, RunHolds, R!Ask \/ R!Answer(TRUE)
  PROVE  RunHolds'
<1>1. /\ AList(asked) /\ ~orphan /\ poll \in 0..1 /\ recipeRunResult = None
      /\ \A i \in DOMAIN asked : asked[i] \in [text : {asked[i].text}, allowed : BOOLEAN]
      /\ \A i \in DOMAIN asked : ~asked[i].allowed => i = Len(asked) /\ at \in {"asking", "over"}
      /\ \A i \in DOMAIN did : did[i].kind = "run_shell" => R!Allowed(did[i].text)
      /\ at = "asking" => asked # <<>> /\ done < Len(R!Steps) /\ R!Here.kind = "run_shell" /\ ~R!Here.dry
      /\ at \in Running
  BY DEF RunHolds, RunStages, AskedSoFar, R!ShellsWereAllowed, R!Ask, R!Answer, R!Stepping, Running
<1> DEFINE l == Len(asked)
<1>2. CASE R!Ask
  <2> DEFINE q == [text |-> R!Text, allowed |-> ~R!NeedsAnswer]
             m == l + 1
  <2>1. /\ at = "step" /\ asked' = Append(asked, q)
        /\ at' = IF R!NeedsAnswer THEN "asking" ELSE "shell"
        /\ done < Len(R!Steps) /\ R!Here.kind = "run_shell" /\ ~R!Here.dry
        /\ UNCHANGED <<did, done, bound, who, recipe, orphan, poll, recipeRunResult>>
    BY <1>2 DEF R!Ask, R!Stepping
  <2>2. /\ AList(asked') /\ DOMAIN asked' = 1..m /\ asked'[m] = q /\ Len(asked') = m
        /\ asked' # <<>> /\ DOMAIN asked = 1..l /\ \A i \in 1..l : asked'[i] = asked[i]
    BY <1>1, <2>1, OneMore
  <2>3. l \in Nat /\ m \in 1..m /\ \A i \in 1..m : i \in 1..l \/ i = m
    <3>1. l \in Nat
      BY <1>1, OneMore
    <3> QED BY <3>1
  <2>4. q.text = R!Text /\ q.allowed = ~R!NeedsAnswer /\ q \in [text : {q.text}, allowed : BOOLEAN]
    BY DEF R!NeedsAnswer
  <2> HIDE DEF q, m, l
  <2>5. \A i \in 1..m : asked'[i] \in [text : {asked'[i].text}, allowed : BOOLEAN]
    BY <1>1, <2>2, <2>3, <2>4
  <2>6. AskedSoFar'
    BY <1>1, <2>1, <2>2, <2>5 DEF AskedSoFar
  <2>7. \A i \in 1..l : asked[i].allowed
    BY <1>1, <2>1, <2>2
  <2>8. \A i \in 1..m : ~asked'[i].allowed => i = m /\ R!NeedsAnswer
    BY <2>2, <2>3, <2>4, <2>7
  <2>9. \A text : R!Allowed(text) => R!Allowed(text)'
    <3>1. \A i \in 1..l : i \in 1..m
      BY <2>3 DEF m
    <3> QED BY <2>2, <3>1 DEF R!Allowed
  <2>10. R!ShellsWereAllowed'
    BY <1>1, <2>1, <2>2, <2>4, <2>8, <2>9 DEF R!ShellsWereAllowed, R!NeedsAnswer
  <2> QED BY <1>1, <2>1, <2>6, <2>10, RunRests DEF Running
<1>3. CASE R!Answer(TRUE)
  <2>1. /\ at = "asking" /\ at' = "shell" /\ who # "cli"
        /\ asked' = [asked EXCEPT ![l].allowed = TRUE]
        /\ UNCHANGED <<did, done, bound, who, recipe, orphan, poll, recipeRunResult>>
    BY <1>3 DEF R!Answer
  <2>2. l \in Nat /\ DOMAIN asked = 1..l /\ l \in 1..l
    BY <1>1, <2>1, OneMore, EmptySeq DEF AList
  <2> DEFINE q == [asked[l] EXCEPT !.allowed = TRUE]
  <2>3. asked[l] \in [text : {asked[l].text}, allowed : BOOLEAN]
    BY <1>1, <2>2
  <2>4. asked' = [asked EXCEPT ![l] = q]
    BY <2>1
  <2>5. q.text = asked[l].text /\ q.allowed = TRUE /\ q \in [text : {q.text}, allowed : BOOLEAN]
    BY <2>3
  <2> HIDE DEF q
  <2>6. asked \in [1..l -> {asked[i] : i \in 1..l}]
    <3>1. asked \in Seq({asked[i] : i \in 1..l})
      BY <1>1, <2>2 DEF AList
    <3> QED BY <3>1, LenProperties
  <2>7. /\ DOMAIN asked' = 1..l /\ asked'[l] = q /\ \A i \in 1..l : i # l => asked'[i] = asked[i]
        /\ asked' = [i \in 1..l |-> asked'[i]]
    BY <2>2, <2>4, <2>6
  <2>8. AList(asked') /\ Len(asked') = l /\ asked' # <<>>
    <3> DEFINE T0 == {asked'[i] : i \in 1..l}
    <3>1. asked' \in [1..l -> T0]
      BY <2>7
    <3> HIDE DEF T0
    <3>2. asked' \in Seq(T0)
      BY <2>2, <3>1, SeqDef
    <3>3. Len(asked') = l /\ asked' # <<>>
      BY <2>2, <2>7, <3>2, LenProperties, EmptySeq
    <3> QED BY <2>7, <3>2, <3>3 DEF AList, T0
  <2>9. AskedSoFar'
    <3>1. \A i \in 1..l : asked'[i] \in [text : {asked'[i].text}, allowed : BOOLEAN]
      BY <1>1, <2>2, <2>5, <2>7
    <3> QED BY <1>1, <2>1, <2>7, <2>8, <3>1 DEF AskedSoFar
  <2>10. \A text : R!Allowed(text) => R!Allowed(text)'
    BY <2>2, <2>5, <2>7 DEF R!Allowed
  <2>11. \A i \in 1..l : asked'[i].allowed
    BY <1>1, <2>2, <2>5, <2>7
  <2>12. R!ShellsWereAllowed'
    BY <1>1, <2>1, <2>2, <2>7, <2>8, <2>10, <2>11 DEF R!ShellsWereAllowed
  <2> QED BY <1>1, <2>1, <2>9, <2>12, RunRests DEF Running
<1> QED BY <1>2, <1>3

(* The other steps of a run, and the moves of the focus.                   *)
LEMMA RunStep ==
  ASSUME R!RunAssumption, RunHolds, [R!Next]_(R!vars)
  PROVE  RunHolds'
<1>1. /\ at \in Running => recipeRunResult = None /\ OnARecipe
      /\ poll \in 0..1
      /\ at \in Running \ {"asking"} => (\A i \in DOMAIN asked : asked[i].allowed)
  BY DEF RunHolds, RunStages, Running, R!RunAssumption, R!Outcomes, R!ShellsWereAllowed
<1>2. ASSUME at \in Running, UNCHANGED <<did, done, bound, who, recipe, orphan, asked, recipeRunResult>>,
             at' = at \/ (at' = "focus" /\ R!Stepping({"wait_for_focus_change"})), poll' \in 0..1
      PROVE  RunHolds'
  <2>1. AskedSoFar' /\ R!ShellsWereAllowed'
    BY <1>2 DEF RunHolds, AskedSoFar, R!ShellsWereAllowed, R!Allowed, R!Stepping
  <2>2. /\ at \in {"asking", "shell"} =>
             done < Len(R!Steps) /\ R!Here.kind = "run_shell" /\ ~R!Here.dry
        /\ at = "focus" => done < Len(R!Steps) /\ R!Here.kind = "wait_for_focus_change"
    BY DEF RunHolds, RunStages
  <2> QED BY <1>1, <1>2, <2>1, <2>2, RunRests DEF Running, R!Stepping
<1>3. ASSUME NEW error, R!Fail(error), at \in Running,
             error \in R!Outcomes \ {"ok", "planner", "no_steps", "unknown_interpolation"},
             UNCHANGED <<asked, who, recipe>>, orphan' = orphan \/ at = "shell"
      PROVE  RunHolds'
  BY <1>3, RunFails DEF R!Fail, R!Outcomes
<1>4. CASE R!Unresolved
  <2>1. /\ at = "step" /\ done < Len(R!Steps) /\ R!Here.kind \in R!TextKinds /\ R!Unbound # {}
        /\ at' = "over" /\ recipeRunResult' = "unknown_interpolation"
        /\ UNCHANGED <<did, done, bound, poll, asked, who, recipe, orphan>>
    BY <1>4 DEF R!Unresolved, R!Stepping, R!Fail
  <2>2. R!Names(R!Here) \ DOMAIN bound # {}
    BY <2>1 DEF R!Names, R!Unbound
  <2> QED BY <2>1, <2>2, RunFails DEF Running, R!Outcomes
<1>5. CASE R!ClickLabel
  BY <1>3, <1>5 DEF R!ClickLabel, R!Stepping, Running, R!Outcomes
<1>6. ASSUME at \in Running, UNCHANGED <<recipeRunResult, asked, who, recipe, orphan>>,
             at # "asking", done < Len(R!Steps), NEW names,
             DOMAIN bound \subseteq DOMAIN names, R!Here.binds # None => R!Here.binds \in DOMAIN names,
             \/ R!Complete(<<>>, names) /\ R!Here.dry
             \/ \E text : R!Complete(<<R!Act(text)>>, names) /\ ~R!Here.dry
                            /\ (R!Here.kind = "run_shell" => at = "shell" /\ text = asked[Len(asked)].text)
      PROVE  RunHolds'
  <2>1. AList(did)
    BY <1>1, <1>6 DEF RunHolds, DoneSoFar, R!Outcomes, Running, R!RunAssumption
  <2>2. at' = "step" /\ done' = done + 1 /\ poll' = 0 /\ bound' = names
    BY <1>6 DEF R!Complete
  <2>3. CASE R!Complete(<<>>, names) /\ R!Here.dry
    <3>1. did' = did
      BY <2>1, <2>3, OneMore DEF R!Complete
    <3> QED BY <1>6, <2>2, <2>3, <3>1, RunGoesOn
  <2>4. ASSUME NEW text, R!Complete(<<R!Act(text)>>, names), ~R!Here.dry,
               R!Here.kind = "run_shell" => at = "shell" /\ text = asked[Len(asked)].text
        PROVE  RunHolds'
    <3> DEFINE a == R!Act(text)
    <3>1. a.kind = R!Here.kind /\ a.text = text
      BY DEF R!Act
    <3>2. did' = Append(did, a)
      BY <2>1, <2>4, OneMore DEF R!Complete
    <3> HIDE DEF a
    <3> QED BY <1>6, <2>2, <2>4, <3>1, <3>2, RunGoesOn
  <2> QED BY <1>6, <2>3, <2>4
<1>7. at \in Running /\ done < Len(R!Steps) =>
        /\ R!Here.binds # None => R!Here.kind \in {"clipboard_get_into", "run_shell"}
        /\ R!Here.dry => R!Here.kind = "run_shell"
  <2> SUFFICES ASSUME OnARecipe, done < Len(R!Steps)
               PROVE  <1>7!2
    BY <1>1
  <2>1. done + 1 \in 1..Len(R!Steps)
    BY StepsAreAList DEF OnARecipe
  <2> QED BY <2>1, StepsAreAList DEF R!Here
<1>8. \A value : /\ DOMAIN bound \subseteq DOMAIN R!Bind(R!Here.binds, value)
                 /\ R!Here.binds # None => R!Here.binds \in DOMAIN R!Bind(R!Here.binds, value)
  BY DEF R!Bind
<1>9. ASSUME NEW ok \in BOOLEAN, R!DoSimple(ok)
      PROVE  RunHolds'
  <2>1. /\ at = "step" /\ done < Len(R!Steps) /\ R!Here.kind \in R!Simple
        /\ IF ok THEN R!Complete(<<R!Act(R!Text)>>, bound) /\ UNCHANGED recipeRunResult
                 ELSE R!Fail("failed")
        /\ UNCHANGED <<who, recipe, asked, recipeRunBefore, focus, orphan>>
    BY <1>9 DEF R!DoSimple, R!Stepping
  <2>2. R!Here.binds = None /\ ~R!Here.dry /\ R!Here.kind # "run_shell"
    BY <1>7, <2>1 DEF Running, R!Simple
  <2>3. CASE ok
    BY <1>6, <2>1, <2>2, <2>3 DEF Running
  <2>4. CASE ~ok
    BY <1>3, <2>1, <2>4 DEF Running, R!Outcomes
  <2> QED BY <2>3, <2>4
<1>10. ASSUME NEW ok \in BOOLEAN, NEW value, R!ClipboardGet(value, ok)
       PROVE  RunHolds'
  <2>1. /\ at = "step" /\ done < Len(R!Steps) /\ R!Here.kind = "clipboard_get_into"
        /\ IF ok THEN R!Complete(<<R!Act(<<>>)>>, R!Bind(R!Here.binds, value)) /\ UNCHANGED recipeRunResult
                 ELSE R!Fail("failed")
        /\ UNCHANGED <<who, recipe, asked, recipeRunBefore, focus, orphan>>
    BY <1>10 DEF R!ClipboardGet, R!Stepping
  <2>2. ~R!Here.dry /\ R!Here.kind # "run_shell"
    BY <1>7, <2>1 DEF Running
  <2>3. CASE ok
    BY <1>6, <1>8, <2>1, <2>2, <2>3 DEF Running
  <2>4. CASE ~ok
    BY <1>3, <2>1, <2>4 DEF Running, R!Outcomes
  <2> QED BY <2>3, <2>4
<1>11. CASE R!DryRun
  <2>1. /\ at = "step" /\ done < Len(R!Steps) /\ R!Here.dry
        /\ R!Complete(<<>>, R!Bind(R!Here.binds, <<"(dry-run)">>))
        /\ UNCHANGED <<who, recipe, recipeRunResult, asked, recipeRunBefore, focus, orphan>>
    BY <1>11 DEF R!DryRun, R!Stepping
  <2> QED BY <1>6, <1>8, <2>1 DEF Running
<1>12. ASSUME NEW value, NEW how \in {"ok", "failed", "timeout"}, R!Shell(how, value)
       PROVE  RunHolds'
  <2>1. /\ at = "shell" /\ UNCHANGED <<who, recipe, asked, recipeRunBefore, focus>>
        /\ done < Len(R!Steps) /\ R!Here.kind = "run_shell" /\ ~R!Here.dry
    BY <1>12 DEF R!Shell, RunHolds, RunStages
  <2>2. CASE how = "ok"
    <3>1. /\ R!Complete(<<R!Act(asked[Len(asked)].text)>>, R!Bind(R!Here.binds, value))
          /\ UNCHANGED <<recipeRunResult, orphan>>
      BY <1>12, <2>2 DEF R!Shell
    <3> QED BY <1>6, <1>8, <2>1, <3>1 DEF Running
  <2>3. CASE how = "failed"
    <3>1. R!Fail("failed") /\ UNCHANGED orphan
      BY <1>12, <2>3 DEF R!Shell
    <3> QED BY <1>3, <2>1, <3>1 DEF Running, R!Outcomes
  <2>4. CASE how = "timeout"
    <3>1. R!Fail("timeout")
      BY <1>12, <2>4 DEF R!Shell
    <3> QED BY <1>3, <2>1, <3>1 DEF Running, R!Outcomes
  <2> QED BY <2>2, <2>3, <2>4
<1>13. ASSUME NEW how \in {"found", "error", "absent"}, R!WaitForWindow(how)
       PROVE  RunHolds'
  <2>1. /\ at = "step" /\ done < Len(R!Steps) /\ R!Here.kind = "wait_for_window"
        /\ UNCHANGED <<who, recipe, asked, recipeRunBefore, focus, orphan>>
    BY <1>13 DEF R!WaitForWindow, R!Stepping
  <2>2. R!Here.binds = None /\ ~R!Here.dry
    BY <1>7, <2>1 DEF Running
  <2>3. \/ R!Complete(<<R!Act(R!Text)>>, bound) /\ UNCHANGED recipeRunResult
        \/ \E error \in {"failed", "timeout"} : R!Fail(error)
        \/ ~(poll >= 1) /\ poll' = poll + 1 /\ UNCHANGED <<at, recipeRunResult, did, done, bound>>
    BY <1>13 DEF R!WaitForWindow, R!Expired
  <2>4. CASE R!Complete(<<R!Act(R!Text)>>, bound) /\ UNCHANGED recipeRunResult
    BY <1>6, <2>1, <2>2, <2>4 DEF Running
  <2>5. CASE \E error \in {"failed", "timeout"} : R!Fail(error)
    BY <1>3, <2>1, <2>5 DEF Running, R!Outcomes
  <2>6. CASE ~(poll >= 1) /\ poll' = poll + 1 /\ UNCHANGED <<at, recipeRunResult, did, done, bound>>
    <3>1. poll' \in 0..1
      BY <1>1, <2>6
    <3> QED BY <1>2, <2>1, <2>6, <3>1 DEF Running
  <2> QED BY <2>3, <2>4, <2>5, <2>6
<1>14. ASSUME NEW ok \in BOOLEAN, R!SnapshotFocus(ok)
       PROVE  RunHolds'
  <2>1. /\ at = "step" /\ R!Stepping({"wait_for_focus_change"})
        /\ UNCHANGED <<who, recipe, asked, focus, orphan>>
    BY <1>14 DEF R!SnapshotFocus, R!Stepping
  <2>2. CASE ok
    BY <1>1, <1>2, <1>14, <2>1, <2>2 DEF R!SnapshotFocus, Running
  <2>3. CASE ~ok
    BY <1>3, <1>14, <2>1, <2>3 DEF R!SnapshotFocus, Running, R!Outcomes
  <2> QED BY <2>2, <2>3
<1>15. ASSUME NEW ok \in BOOLEAN, R!PollFocus(ok)
       PROVE  RunHolds'
  <2>1. /\ at = "focus" /\ done < Len(R!Steps) /\ R!Here.kind = "wait_for_focus_change"
        /\ UNCHANGED <<who, recipe, asked, recipeRunBefore, focus, orphan>>
    BY <1>15 DEF R!PollFocus, RunHolds, RunStages
  <2>2. R!Here.binds = None /\ ~R!Here.dry
    BY <1>7, <2>1 DEF Running
  <2>3. \/ R!Complete(<<R!Act(<<>>)>>, bound) /\ UNCHANGED recipeRunResult
        \/ R!Fail("timeout")
        \/ ~(poll >= 1) /\ poll' = poll + 1 /\ UNCHANGED <<at, recipeRunResult, did, done, bound>>
    BY <1>15 DEF R!PollFocus, R!Expired
  <2>4. CASE R!Complete(<<R!Act(<<>>)>>, bound) /\ UNCHANGED recipeRunResult
    BY <1>6, <2>1, <2>2, <2>4 DEF Running
  <2>5. CASE R!Fail("timeout")
    BY <1>3, <2>1, <2>5 DEF Running, R!Outcomes
  <2>6. CASE ~(poll >= 1) /\ poll' = poll + 1 /\ UNCHANGED <<at, recipeRunResult, did, done, bound>>
    <3>1. poll' \in 0..1
      BY <1>1, <2>6
    <3> QED BY <1>2, <2>1, <2>6, <3>1 DEF Running
  <2> QED BY <2>3, <2>4, <2>5, <2>6
<1>16. ASSUME NEW ok \in BOOLEAN, R!Answer(ok)
       PROVE  RunHolds'
  <2>1. CASE ok
    <3>1. R!Answer(TRUE)
      BY <1>16, <2>1
    <3> QED BY <3>1, RunAsks
  <2>2. CASE ~ok
    <3>1. at = "asking" /\ R!Fail("denied") /\ UNCHANGED <<asked, who, recipe, recipeRunBefore, focus, orphan>>
      BY <1>16, <2>2 DEF R!Answer
    <3> QED BY <1>3, <3>1 DEF Running, R!Outcomes
  <2> QED BY <2>1, <2>2
<1>17. CASE R!Finish
  <2>1. AskedSoFar' /\ R!ShellsWereAllowed'
    BY <1>1, <1>17 DEF R!Finish, RunHolds, AskedSoFar, R!ShellsWereAllowed, R!Allowed, Running
  <2> QED BY <1>1, <1>17, <2>1, RunRests DEF R!Finish, Running
<1>18. ASSUME NEW e, R!FocusMoves(e)
       PROVE  RunHolds'
  BY <1>1, <1>2, <1>18 DEF R!FocusMoves, Running
<1>19. CASE UNCHANGED R!vars
  BY <1>19 DEF R!vars, RunHolds, RunStages, OnARecipe, DoneSoFar, BoundSoFar, AskedSoFar,
    R!ShellsWereAllowed, R!ValidNeverUnbound, R!Steps, R!NoRun, R!Here, R!Visible, R!DoneAt, R!Allowed
<1> QED
  BY <1>4, <1>5, <1>9, <1>10, <1>11, <1>12, <1>13, <1>14, <1>15, <1>16, <1>17, <1>18, <1>19,
    RunBegins, RunAsks DEF R!Next, R!Execute

(* Before anything runs, and what the facts of a run say of it.            *)
LEMMA RunInit ==
  ASSUME R!RunAssumption, R!Init
  PROVE  RunHolds
BY DEF R!Init, R!RunAssumption, RunHolds, RunStages, AskedSoFar, AList, R!ShellsWereAllowed,
  R!ValidNeverUnbound, R!NoRun, R!Outcomes, Running

(* And at any time.                                                        *)
LEMMA RunMeans ==
  ASSUME R!RunAssumption, RunHolds
  PROVE  R!RunInv
<1>1. R!RunTypeOK
  BY DEF RunHolds, RunStages, R!RunTypeOK, Running, OnARecipe, R!NoRun, R!Outcomes
<1>2. R!DidThePrefix
  BY DEF RunHolds, RunStages, R!DidThePrefix, DoneSoFar, R!NoRun
<1>3. R!PlannerOnlyOnMiss
  BY DEF RunHolds, RunStages, R!PlannerOnlyOnMiss
<1> QED BY <1>1, <1>2, <1>3 DEF R!RunInv, RunHolds

(* The recipes on disk before any call.                                    *)
LEMMA StoreInit ==
  ASSUME NEW k, S(k)!StoreAssumption, S(k)!Init
  PROVE  StoreHolds(k) /\ (S(k)!HandsOff => StoreIsSound(k))
<1>1. /\ bundled = Bundle /\ user = k.tree
      /\ recipeStoreCall = [c \in S(k)!Callers |-> S(k)!Idle]
  BY DEF S!Init
<1>2. Bundle \in [S(k)!Names -> S(k)!Files] /\ k.tree \in [S(k)!Names -> S(k)!Files]
  BY DEF S!StoreAssumption
<1>3. \A c \in S(k)!Callers : recipeStoreCall[c] = S(k)!Idle
  BY <1>1
<1>4. S(k)!Idle = S(k)!Doing("idle", "none", "none", S(k)!NoDir) /\ S(k)!Idle.at = "idle"
      /\ S(k)!Idle.by = "none" /\ S(k)!Idle.dir = "none" /\ S(k)!Idle.file = S(k)!NoDir
  BY DEF S!Idle, S!Doing
<1>5. CallFits(k, S(k)!Idle) /\ CallIsSound(k, S(k)!Idle)
  BY <1>4 DEF CallFits, CallIsSound, StoreStages, Writing
<1>6. StoreHolds(k)
  BY <1>1, <1>2, <1>3, <1>5 DEF StoreHolds
<1>7. ASSUME S(k)!HandsOff
      PROVE  StoreIsSound(k)
  BY <1>1, <1>3, <1>5, <1>7 DEF StoreIsSound, S!HandsOff, S!NamedAfterId, S!SavedIsSound, S!Parsed
<1> QED BY <1>6, <1>7

-----------------------------------------------------------------------------
(* What the run checks                                                     *)

(* A step of the whole is one of the part that runs.                       *)
LEMMA FilesPartStep ==
  ASSUME [Next]_vars
  PROVE  /\ part' = part
         /\ part = "tools" => [T!Next]_(T!vars)
         /\ part # "tools" => UNCHANGED T!vars
         /\ part = "carry" => [C!Next]_(C!vars)
         /\ part # "carry" => UNCHANGED C!vars
         /\ part = "server" => [L!Next]_(L!vars)
         /\ part = "load" => [M(Ships)!Next]_(M(Ships)!vars)
         /\ part = "download" => [M(Fetches)!Next]_(M(Fetches)!vars)
         /\ part \notin {"load", "download"} => UNCHANGED modelFilesVars
         /\ part = "recipe" => [R!Next]_(R!vars)
         /\ part = "store" => [S(Races)!Next]_(S(Races)!vars)
         /\ part = "edit" => [S(Edited)!Next]_(S(Edited)!vars)
         /\ part \notin {"store", "edit"} => UNCHANGED recipeStoreVars
<1>1. CASE Next
  BY <1>1 DEF Next, fileToolsVars, carryOverVars, T!vars, C!vars
<1>2. CASE UNCHANGED vars
  BY <1>2 DEF vars, fileToolsVars, carryOverVars, llamaServerVars, modelFilesVars,
    recipeRunVars, recipeStoreVars, T!vars, C!vars, L!vars, M!vars, R!vars, S!vars
<1> QED BY <1>1, <1>2

(* file_write, file_move and file_delete, and adopt_dir: whatever call of  *)
(* the disk fails and whenever the app ends, a file being written is the   *)
(* old or the new one, a file being moved is whole at one of its places,   *)
(* the model is told what was done, and an entry of the old install is in  *)
(* exactly one of the two directories, however many processes adopt it.    *)
THEOREM UserFilesAreKept == Spec => []UserFilesInv
<1> DEFINE Parted == (part = "tools" => ToolsHold) /\ (part = "carry" => CarryHolds)
<1>0. T!ToolsAssumption /\ C!CarryAssumption
  BY FilesAssumption
<1>1. Init => Parted
  BY <1>0, ToolsInit, CarryInit DEF Init
<1>2. Parted /\ [Next]_vars => Parted'
  <2> SUFFICES ASSUME Parted, [Next]_vars
               PROVE  Parted'
    OBVIOUS
  <2>1. ASSUME part' = "tools"
        PROVE  ToolsHold'
    <3>1. part = "tools" /\ [T!Next]_(T!vars)
      BY <2>1, FilesPartStep
    <3>2. ToolsHold
      BY <3>1
    <3> QED BY <1>0, <3>1, <3>2, ToolsStep, ToolsMean DEF ToolsHold
  <2>2. ASSUME part' = "carry"
        PROVE  CarryHolds'
    <3>1. part = "carry" /\ [C!Next]_(C!vars)
      BY <2>2, FilesPartStep
    <3>2. CarryHolds
      BY <3>1
    <3> QED BY <1>0, <3>1, <3>2, CarryTypesStep, ReadersStep, EntriesStep DEF CarryHolds
  <2> QED BY <2>1, <2>2
<1>3. Parted => UserFilesInv
  BY DEF ToolsHold, ToolTypes, WriteSoFar, CarryHolds, UserFilesInv, T!ToolsInv, T!ToolsTypeOK,
    T!WriteIsWhole, C!CarryInv
<1> QED BY <1>1, <1>2, <1>3, PTL DEF Spec

(* ready_llama_server and the processes it starts: however callers come,   *)
(* give up and are aborted, and whatever a process does, a caller is       *)
(* handed a server of the model it asked for, a port is held by a process  *)
(* that was told it, the server's log never overfills its pipe, and no     *)
(* process runs that is not in the slot or being waited for.               *)
THEOREM NoServerIsLeft == Spec => []LlamaInv
<1> DEFINE Kept == part = "server" => ServerHolds
<1>0. L!LlamaAssumption
  BY FilesAssumption
<1>1. Init => Kept
  BY <1>0, ServerInit DEF Init
<1>2. Kept /\ [Next]_vars => Kept'
  <2> SUFFICES ASSUME Kept, [Next]_vars, part' = "server"
               PROVE  ServerHolds'
    OBVIOUS
  <2>1. part = "server" /\ [L!Next]_(L!vars) /\ ServerHolds
    BY FilesPartStep
  <2> QED
    BY <1>0, <2>1, ServerTypesStep, CallTypesStep, InLineStep, StartedStep, ToldStep, HeldStep,
      NoServerLeftStep DEF ServerHolds
<1>3. Kept => LlamaInv
  BY <1>0, ServerMeans DEF LlamaInv
<1> QED BY <1>1, <1>2, <1>3, PTL DEF Spec

(* model.rs, wake.rs and vad.rs: wherever a staging, a download or the app *)
(* is cut off, and whatever is changed from outside, what the engines are  *)
(* loaded with was verified, and a language model that is listed as        *)
(* installed is the whole one, or its file was changed from outside.       *)
THEOREM WhatLoadsIsVerified == Spec => []ModelFilesInv
<1> DEFINE Kept == (part = "load" => ModelsHold(Ships)) /\ (part = "download" => ModelsHold(Fetches))
<1>0. M(Ships)!ModelFilesAssumption /\ M(Fetches)!ModelFilesAssumption
  BY FilesAssumption
<1>1. Init => Kept
  BY <1>0, ModelsInit DEF Init
<1>2. Kept /\ [Next]_vars => Kept'
  <2> SUFFICES ASSUME Kept, [Next]_vars
               PROVE  Kept'
    OBVIOUS
  <2>1. ASSUME part' = "load"
        PROVE  ModelsHold(Ships)'
    <3>1. part = "load" /\ [M(Ships)!Next]_(M(Ships)!vars) /\ ModelsHold(Ships)
      BY <2>1, FilesPartStep
    <3> QED BY <1>0, <3>1, ModelsStep
  <2>2. ASSUME part' = "download"
        PROVE  ModelsHold(Fetches)'
    <3>1. part = "download" /\ [M(Fetches)!Next]_(M(Fetches)!vars) /\ ModelsHold(Fetches)
      BY <2>2, FilesPartStep
    <3> QED BY <1>0, <3>1, ModelsStep
  <2> QED BY <2>1, <2>2
<1>3. Kept => ModelFilesInv
  BY DEF ModelFilesInv, ModelsHold, ModelTypes, M!ModelFilesInv
<1> QED BY <1>1, <1>2, <1>3, PTL DEF Spec

(* runtime.rs, cascade.rs, store.rs and the MCP server's save_recipe: a    *)
(* run does the host's steps in order up to the one that failed, runs no   *)
(* shell command that was not allowed as it stands, stops for no missing   *)
(* name in a recipe that validates and is not planned a second time; and   *)
(* however the Hub's calls, the MCP server, an editor and quits meet, an   *)
(* id is one file to all that look for it, no file is missing from the     *)
(* list, and without an editor a recipe lies under its id and validates.   *)
THEOREM RecipesAreDoneAsWritten == Spec => []RecipesInv
<1> DEFINE Kept == /\ part = "recipe" => RunHolds
                   /\ part = "store" => StoreHolds(Races) /\ StoreIsSound(Races)
                   /\ part = "edit" => StoreHolds(Edited)
<1>0. /\ R!RunAssumption /\ S(Races)!StoreAssumption /\ S(Races)!HandsOff
      /\ S(Edited)!StoreAssumption
  BY FilesAssumption
<1>1. Init => Kept
  BY <1>0, RunInit, StoreInit DEF Init
<1>2. Kept /\ [Next]_vars => Kept'
  <2> SUFFICES ASSUME Kept, [Next]_vars
               PROVE  Kept'
    OBVIOUS
  <2>1. ASSUME part' = "recipe"
        PROVE  RunHolds'
    <3>1. part = "recipe" /\ [R!Next]_(R!vars) /\ RunHolds
      BY <2>1, FilesPartStep
    <3> QED BY <1>0, <3>1, RunStep
  <2>2. ASSUME part' = "store"
        PROVE  StoreHolds(Races)' /\ StoreIsSound(Races)'
    <3>1. part = "store" /\ [S(Races)!Next]_(S(Races)!vars) /\ StoreHolds(Races)
          /\ StoreIsSound(Races)
      BY <2>2, FilesPartStep
    <3> QED BY <1>0, <3>1, RecipesStep
  <2>3. ASSUME part' = "edit"
        PROVE  StoreHolds(Edited)'
    <3>1. part = "edit" /\ [S(Edited)!Next]_(S(Edited)!vars) /\ StoreHolds(Edited)
      BY <2>3, FilesPartStep
    <3> QED BY <1>0, <3>1, RecipesStep
  <2> QED BY <2>1, <2>2, <2>3
<1>3. Kept => RecipesInv
  <2> SUFFICES ASSUME Kept
               PROVE  RecipesInv
    OBVIOUS
  <2>1. part = "recipe" => R!RunInv
    BY <1>0, RunMeans
  <2>2. ASSUME part = "store"
        PROVE  S(Races)!StoreInv
    <3>1. StoreHolds(Races) /\ StoreIsSound(Races)
      BY <2>2
    <3>2. S(Races)!StoreTypeOK
      BY <3>1 DEF StoreHolds, S!StoreTypeOK, CallFits, StoreStages
    <3> QED BY <1>0, <3>1, <3>2, IdsAreFiles, FilesAreListed DEF StoreIsSound, S!StoreInv
  <2>3. S(Edited)!OneFilePerId
    BY <1>0, IdsAreFiles
  <2>4. part = "edit" => S(Edited)!EveryFileListed
    BY FilesAreListed
  <2> QED BY <2>1, <2>2, <2>3, <2>4 DEF RecipesInv
<1> QED BY <1>1, <1>2, <1>3, PTL DEF Spec

(* legacy.rs:79: an entry the new directory already has wins. Where the    *)
(* entries are directories, no process that adopts the old install, alone  *)
(* or beside others, replaces one that was made in the new.                *)
THEOREM NewEntriesWin == Solid => (Spec => C!NewWins)
<1> SUFFICES ASSUME Solid
             PROVE  Spec => C!NewWins
  OBVIOUS
<1> DEFINE Carried == part = "carry" => CarryHolds
<1>0. C!CarryAssumption
  BY FilesAssumption
<1>1. Init => Carried
  BY <1>0, CarryInit DEF Init
<1>2. Carried /\ [Next]_vars => Carried'
  <2> SUFFICES ASSUME Carried, [Next]_vars, part' = "carry"
               PROVE  CarryHolds'
    OBVIOUS
  <2>1. part = "carry" /\ [C!Next]_(C!vars) /\ CarryHolds
    BY FilesPartStep
  <2> QED BY <1>0, <2>1, CarryTypesStep, ReadersStep, EntriesStep DEF CarryHolds
<1>3. Carried /\ [Next]_vars
        => [\A n \in Entries : new[n] = "new" => new'[n] = "new"]_(C!vars)
  <2> SUFFICES ASSUME Carried, [Next]_vars, ~UNCHANGED C!vars,
                      NEW n \in Entries, new[n] = "new"
               PROVE  new'[n] = "new"
    OBVIOUS
  <2>1. part = "carry" /\ [C!Next]_(C!vars) /\ CarryHolds
    BY FilesPartStep
  <2> QED BY <1>0, <2>1, NewStays
<1> QED BY <1>1, <1>2, <1>3, PTL DEF Spec, C!NewWins

(* A step of the models' files keeps what the steps of both runs keep.     *)
LEMMA ModelsKeep ==
  ASSUME NEW k, k \in {Ships, Fetches}, ModelsHold(k), [M(k)!Next]_(M(k)!vars)
  PROVE  M(Ships)!OwnIsKept /\ M(Fetches)!OkIsRight /\ M(Fetches)!KeepsTheListed
<1>1. M(k)!ModelFilesAssumption
  BY FilesAssumption
<1>2. /\ M(k)!OkIsRight /\ M(k)!KeepsTheListed
      /\ \A f \in M(k)!Files \ {"jarvis", "gguf"} :
           disk[f] = "own" /\ disk'[f] # "own" => outside' # outside
  BY <1>1, ModelsStep
<1>3. M(Ships)!OwnIsKept
  BY <1>2 DEF M!OwnIsKept, M!Files, Ships
<1>4. M(Fetches)!OkIsRight
  BY <1>2 DEF M!OkIsRight, M!Succeeds, M!RightSize
<1>5. M(Fetches)!KeepsTheListed
  BY <1>2 DEF M!KeepsTheListed, M!Listed, M!DeleteGguf, M!RightSize, M!GgufSized, M!Exists, M!Put
<1> QED BY <1>3, <1>4, <1>5

(* store.rs, commands.rs, model.rs, wake.rs and legacy.rs, step by step: no *)
(* call changes a starter; a model file of the user's own is replaced only *)
(* from outside; an install that reports success left the file it was      *)
(* asked for, and a listed model stays usable until it is deleted; where   *)
(* the entries are directories, those of the new directory win.            *)
THEOREM StepsKeepFiles == Solid => (Spec => FilesSteps)
<1> SUFFICES ASSUME Solid
             PROVE  Spec => FilesSteps
  OBVIOUS
<1> DEFINE Kept == /\ part = "store" => StoreHolds(Races)
                   /\ part = "edit" => StoreHolds(Edited)
                   /\ part = "load" => ModelsHold(Ships)
                   /\ part = "download" => ModelsHold(Fetches)
           Starters == S(Races)!StartersUntouched
           Downloads == M(Ships)!OwnIsKept /\ M(Fetches)!OkIsRight /\ M(Fetches)!KeepsTheListed
<1>0. /\ S(Races)!StoreAssumption /\ S(Edited)!StoreAssumption
      /\ M(Ships)!ModelFilesAssumption /\ M(Fetches)!ModelFilesAssumption
  BY FilesAssumption
<1>1. Init => Kept
  BY <1>0, StoreInit, ModelsInit DEF Init
<1>2. Kept /\ [Next]_vars => Kept' /\ Starters /\ Downloads
  <2> SUFFICES ASSUME Kept, [Next]_vars
               PROVE  Kept' /\ Starters /\ Downloads
    OBVIOUS
  <2>1. part' = part
    BY FilesPartStep
  <2>2. (part = "store" => StoreHolds(Races)') /\ (part = "edit" => StoreHolds(Edited)')
        /\ bundled' = bundled
    <3>1. ASSUME part = "store"
          PROVE  StoreHolds(Races)' /\ bundled' = bundled
      BY <1>0, <3>1, FilesPartStep, RecipesStep
    <3>2. ASSUME part = "edit"
          PROVE  StoreHolds(Edited)' /\ bundled' = bundled
      BY <1>0, <3>2, FilesPartStep, RecipesStep
    <3>3. part \notin {"store", "edit"} => bundled' = bundled
      BY FilesPartStep DEF recipeStoreVars
    <3> QED BY <3>1, <3>2, <3>3
  <2>3. (part = "load" => ModelsHold(Ships)') /\ (part = "download" => ModelsHold(Fetches)')
        /\ Downloads
    <3>1. ASSUME part = "load"
          PROVE  ModelsHold(Ships)' /\ Downloads
      BY <1>0, <3>1, FilesPartStep, ModelsStep, ModelsKeep
    <3>2. ASSUME part = "download"
          PROVE  ModelsHold(Fetches)' /\ Downloads
      BY <1>0, <3>2, FilesPartStep, ModelsStep, ModelsKeep
    <3>3. part \notin {"load", "download"} => Downloads
      <4> SUFFICES ASSUME part \notin {"load", "download"}
                   PROVE  Downloads
        OBVIOUS
      <4>1. UNCHANGED <<disk, partial, anchor, pin, staging, get, running, outside>>
        BY FilesPartStep DEF modelFilesVars
      <4>2. M(Fetches)!Listed("gguf")' = M(Fetches)!Listed("gguf")
        BY <4>1 DEF M!Listed, M!RightSize, M!GgufSized, M!Exists
      <4> QED BY <4>1, <4>2 DEF M!OwnIsKept, M!OkIsRight, M!Succeeds, M!KeepsTheListed
    <3> QED BY <3>1, <3>2, <3>3
  <2>4. Starters
    BY <2>2 DEF S!StartersUntouched
  <2> QED BY <2>1, <2>2, <2>3, <2>4
<1>3. Spec => [][Starters]_vars /\ [][Downloads]_vars
  BY <1>1, <1>2, PTL DEF Spec
<1>4. Spec => C!NewWins
  BY NewEntriesWin
<1> QED BY <1>3, <1>4 DEF FilesSteps
==============================================================================
