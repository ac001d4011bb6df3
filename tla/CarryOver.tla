----------------------------- MODULE CarryOver -----------------------------
(***************************************************************************)
(* The data of the install before the rename, adopted by whoever starts    *)
(* first.  Every process (the app, a second instance of it, the MCP        *)
(* server, the command line) calls adopt_dir on its way up and then uses   *)
(* the new directory; a process may end anywhere, and any call on the disk *)
(* may fail.                                                               *)
(***************************************************************************)
EXTENDS Naturals

CONSTANTS Procs, Names,
          Solid,   \* entries are directories, which a rename does not replace
          Replaces,  \* a rename replaces an empty directory
          MaxFailures, MaxCrashes,  \* bounds
          None

(* None is told from an entry.                                             *)
CarryAssumption == None \notin {"old", "new"}

VARIABLES oldDir, newDir,  \* the directories exist
          old, new,  \* their entries: None, "old" or "new", by who wrote them
          pc,        \* where each process is in adopt_dir
          seen,      \* read_dir: entries still to be looked at
          entry,     \* the entry being moved
          kept,      \* an entry stayed behind
          had,       \* history: what there was to carry over
          failures, crashes

vars == <<oldDir, newDir, old, new, pc, seen, entry, kept, had, failures, crashes>>
disk == <<oldDir, newDir, old, new>>

Init ==
  /\ had \in SUBSET Names
  /\ oldDir \in {TRUE} /\ old = [n \in Names |-> IF n \in had THEN "old" ELSE None]
  /\ newDir \in BOOLEAN
  /\ new \in [Names -> {None, "new"}] /\ (newDir \/ \A n \in Names : new[n] = None)
  /\ pc = [p \in Procs |-> "off"]
  /\ seen = [p \in Procs |-> {}] /\ entry = [p \in Procs |-> None]
  /\ kept = [p \in Procs |-> FALSE]
  /\ failures = 0 /\ crashes = 0

Goes(p, from, to) == pc[p] = from /\ pc' = [pc EXCEPT ![p] = to]
IsEmpty(dir) == \A n \in Names : dir[n] = None

Start(p) ==
  /\ Goes(p, "off", "look")
  /\ kept' = [kept EXCEPT ![p] = FALSE]
  /\ UNCHANGED <<disk, seen, entry, had, failures, crashes>>

(* An error is logged, and the process goes on with what there is.         *)
Fails(p) ==
  /\ pc[p] \in {"rename", "read", "move"}
  /\ failures < MaxFailures /\ failures' = failures + 1
  /\ pc' = [pc EXCEPT ![p] = "runs"]
  /\ UNCHANGED <<disk, seen, entry, kept, had, crashes>>

LooksAtOld(p) ==
  /\ Goes(p, "look", IF oldDir THEN "compare" ELSE "runs")
  /\ UNCHANGED <<disk, seen, entry, kept, had, failures, crashes>>

LooksAtNew(p) ==
  /\ Goes(p, "compare", IF newDir THEN "read" ELSE "rename")
  /\ UNCHANGED <<disk, seen, entry, kept, had, failures, crashes>>

Mut_RenamesAll(p) ==
  /\ Goes(p, "rename", "runs")
  /\ IF oldDir THEN new' = old /\ newDir' = TRUE /\ oldDir' = FALSE ELSE UNCHANGED <<new, newDir, oldDir>>
  /\ UNCHANGED <<old, seen, entry, kept, had, failures, crashes>>
(* In one step, unless somebody was faster.                                *)
RenamesAll(p) ==
  /\ Goes(p, "rename", "runs")
  /\ IF oldDir /\ (newDir => Replaces /\ IsEmpty(new))
     THEN /\ new' = old /\ newDir' = TRUE
          /\ old' = [n \in Names |-> None] /\ oldDir' = FALSE
     ELSE UNCHANGED disk
  /\ UNCHANGED <<seen, entry, kept, had, failures, crashes>>

ReadsDir(p) ==
  /\ Goes(p, "read", IF oldDir THEN "merge" ELSE "runs")
  /\ seen' = [seen EXCEPT ![p] = {n \in Names : oldDir /\ old[n] # None}]
  /\ UNCHANGED <<disk, entry, kept, had, failures, crashes>>

Mut_Looks(p, n) ==
  /\ pc[p] = "merge" /\ n \in seen[p]
  /\ seen' = [seen EXCEPT ![p] = @ \ {n}]
  /\ pc' = [pc EXCEPT ![p] = "move"] /\ entry' = [entry EXCEPT ![p] = n]
  /\ UNCHANGED <<kept, disk, had, failures, crashes>>
(* An entry that the new directory has stays; one that is gone by now may  *)
(* not be listed any more.                                                 *)
Looks(p, n) ==
  /\ pc[p] = "merge" /\ n \in seen[p]
  /\ seen' = [seen EXCEPT ![p] = @ \ {n}]
  /\ \/ /\ new[n] # None /\ kept' = [kept EXCEPT ![p] = TRUE]
        /\ UNCHANGED <<pc, entry>>
     \/ /\ new[n] = None
        /\ pc' = [pc EXCEPT ![p] = "move"] /\ entry' = [entry EXCEPT ![p] = n]
        /\ UNCHANGED kept
     \/ old[n] = None /\ UNCHANGED <<pc, entry, kept>>
  /\ UNCHANGED <<disk, had, failures, crashes>>

Mut_Moves(p) ==
  LET n == entry[p] IN
  /\ Goes(p, "move", IF old[n] # None THEN "merge" ELSE "runs")
  /\ IF old[n] # None THEN /\ new' = [new EXCEPT ![n] = old[n]]
                           /\ old' = [old EXCEPT ![n] = None]
                      ELSE UNCHANGED <<old, new>>
  /\ entry' = [entry EXCEPT ![p] = None]
  /\ UNCHANGED <<oldDir, newDir, seen, kept, had, failures, crashes>>
(* The rename, some time after the look: a file that is there by now is    *)
(* replaced, a directory makes it fail.                                    *)
Moves(p) ==
  LET n == entry[p]
      goes == old[n] # None /\ ~(Solid /\ new[n] # None) IN
  /\ Goes(p, "move", IF goes THEN "merge" ELSE "runs")
  /\ IF goes THEN /\ new' = [new EXCEPT ![n] = old[n]]
                  /\ old' = [old EXCEPT ![n] = None]
             ELSE UNCHANGED <<old, new>>
  /\ entry' = [entry EXCEPT ![p] = None]
  /\ UNCHANGED <<oldDir, newDir, seen, kept, had, failures, crashes>>

Mut_Tidies(p) ==
  /\ Goes(p, "merge", "runs") /\ seen[p] = {}
  /\ oldDir' = FALSE /\ old' = [n \in Names |-> None]
  /\ UNCHANGED <<newDir, new, seen, entry, kept, had, failures, crashes>>
Mut_TidiesNot(p) ==
  /\ Goes(p, "merge", "runs") /\ seen[p] = {}
  /\ UNCHANGED <<disk, seen, entry, kept, had, failures, crashes>>
(* remove_dir_if_empty.                                                    *)
Tidies(p) ==
  /\ Goes(p, "merge", "runs") /\ seen[p] = {}
  /\ oldDir' = (oldDir /\ (kept[p] \/ ~IsEmpty(old)))
  /\ UNCHANGED <<newDir, old, new, seen, entry, kept, had, failures, crashes>>

(* What a running process makes in the new directory.                      *)
Saves(p, n) ==
  /\ pc[p] = "runs" /\ new[n] = None
  /\ new' = [new EXCEPT ![n] = "new"] /\ newDir' = TRUE
  /\ UNCHANGED <<oldDir, old, pc, seen, entry, kept, had, failures, crashes>>

Ends(p) ==
  /\ Goes(p, "runs", "off")
  /\ UNCHANGED <<disk, seen, entry, kept, had, failures, crashes>>

Crash(p) ==
  /\ pc[p] \notin {"off", "runs"} /\ crashes < MaxCrashes /\ crashes' = crashes + 1
  /\ pc' = [pc EXCEPT ![p] = "off"]
  /\ UNCHANGED <<disk, seen, entry, kept, had, failures>>

Adopts(p) ==
  \/ LooksAtOld(p) \/ LooksAtNew(p) \/ RenamesAll(p) \/ ReadsDir(p)
  \/ \E n \in Names : Looks(p, n)
  \/ Moves(p) \/ Tidies(p)

Next == \E p \in Procs :
  \/ Start(p) \/ Adopts(p) \/ Fails(p) \/ Ends(p) \/ Crash(p)
  \/ \E n \in Names : Saves(p, n)

(* Processes run, end and are started again.                               *)
Fairness == \A p \in Procs : WF_vars(Adopts(p)) /\ WF_vars(Start(p) \/ Ends(p))

Spec == Init /\ [][Next]_vars
FairSpec == Spec /\ Fairness

(* ------------------------------ properties ----------------------------- *)
(* Only what was carried over is in the new directory under the old        *)
(* install's hand, and a directory that is gone has nothing in it.         *)
CarryTypeOK ==
  /\ old \in [Names -> {None, "old"}] /\ new \in [Names -> {None, "old", "new"}]
  /\ pc \in [Procs -> {"off", "look", "compare", "rename", "read", "merge", "move", "runs"}]
  /\ (~oldDir => IsEmpty(old)) /\ (~newDir => IsEmpty(new))
  /\ \A n \in Names : (old[n] = "old" \/ new[n] = "old") => n \in had

(* legacy.rs:83-84: "On an error the remaining entries stay in `old`, and  *)
(* the next call picks them up."  Whoever ends, fails or meets another on  *)
(* the way, each entry is in exactly one of the two.                       *)
NoEntryLost ==
  \A n \in had : (old[n] = "old") # (new[n] = "old")

(* legacy.rs:79: "An entry `new` already has wins, and the old copy stays."*)
NewWins == [][\A n \in Names : new[n] = "new" => new'[n] = "new"]_vars

(* Started often enough, the app has all that it had, and the old          *)
(* directory is there only for what it still holds.                        *)
AllCarried == <>[](\A n \in had : new[n] # None)

(* The old directory is not left behind empty.                             *)
OldIsTidied == <>[](oldDir => ~IsEmpty(old))

(* Each entry is in exactly one of the two directories, whoever else       *)
(* adopts and wherever it breaks off.                                      *)
CarryInv ==
  /\ CarryTypeOK
  /\ NoEntryLost
=============================================================================
