---------------------------- MODULE LlamaServer ----------------------------
(***************************************************************************)
(* llama-server: the process that serves the local model of command mode.  *)
(* A caller (a take, or the prompt test of the settings) asks for the      *)
(* server of a model, is given the address of a port, and sends its        *)
(* requests there.  One process at a time, for one model: another model    *)
(* replaces it.                                                            *)
(*                                                                         *)
(* The port is picked before the process is started and bound by the       *)
(* process later; another program may bind it in between.  A process that  *)
(* is killed goes on for a while; one may also die by itself.  Processes   *)
(* are numbered in the order they are started.                             *)
(***************************************************************************)
EXTENDS Integers, Sequences, FiniteSets, SequencesExt

CONSTANTS Callers, Models, Ports,
          Pipe,        \* log lines that fit the pipe of the server's output
          MaxSpawns,   \* bound: processes started
          MaxCalls,    \* bound: calls made
          MaxOthers,   \* bound: ports another program binds
          None

(* None is told from what a slot holds.                                    *)
LlamaAssumption ==
  /\ Pipe \in Nat \ {0} /\ MaxSpawns \in Nat
  /\ None \notin [pid : Nat, model : Models, port : Ports]

VARIABLES procs,   \* the processes
          holder,  \* of a port: the process that bound it, Other or Free
          slot,    \* LlamaServerState: [pid, model, port] or None
          queue,   \* the callers of ready_llama_server, the first holds the lock
          call,    \* of a caller: what it is at
          files,   \* the models that are on the disk
          spawns, calls, others, app

vars == <<procs, holder, slot, queue, call, files, spawns, calls, others, app>>
bounds == <<spawns, calls, others>>

Pids == 1..MaxSpawns
Free == 0
Other == -1
Idle == [at |-> "idle", model |-> None, port |-> None, pid |-> None]
NotStarted == [st |-> "none", model |-> None, port |-> None, unread |-> 0]

Init ==
  /\ procs = [p \in Pids |-> NotStarted]
  /\ holder = [q \in Ports |-> Free]
  /\ slot = None /\ queue = <<>>
  /\ call = [c \in Callers |-> Idle]
  /\ files \in SUBSET Models
  /\ spawns = 0 /\ calls = 0 /\ others = 0 /\ app = "up"

Runs(p) == procs[p].st \in {"starting", "loading", "healthy"}
Exists(p) == Runs(p) \/ procs[p].st = "killed"
(* Drop asks the system to end the process and does not wait for it.       *)
Kill(p) == [procs EXCEPT ![p].st = IF Runs(p) THEN "killed" ELSE @]
HasLock(c) == queue # <<>> /\ Head(queue) = c
Becomes(c, at) == call' = [call EXCEPT ![c].at = at]
Leaves(c) == call' = [call EXCEPT ![c] = Idle]

(* -------------------------- asking for a server ------------------------ *)
(* ensure_local_llm_base_url: a model that is not there is an error before *)
(* the lock, as is a binary that is not there.                             *)
Ensure(c, m) ==
  /\ app = "up" /\ call[c].at = "idle" /\ calls < MaxCalls
  /\ m \in files
  /\ calls' = calls + 1
  /\ call' = [call EXCEPT ![c] = [Idle EXCEPT !.at = "asked", !.model = m]]
  /\ queue' = Append(queue, c)
  /\ UNCHANGED <<procs, holder, slot, files, spawns, others, app>>

Mut_Found(c) ==
  /\ call[c].at = "asked" /\ HasLock(c)
  /\ slot # None
  /\ call' = [call EXCEPT ![c].at = "has", ![c].port = slot.port, ![c].pid = slot.pid]
  /\ queue' = Tail(queue)
  /\ UNCHANGED <<procs, holder, slot, files, bounds, app>>

Found(c) ==
  /\ call[c].at = "asked" /\ HasLock(c)
  /\ slot # None /\ slot.model = call[c].model
  /\ call' = [call EXCEPT ![c].at = "has", ![c].port = slot.port, ![c].pid = slot.pid]
  /\ queue' = Tail(queue)
  /\ UNCHANGED <<procs, holder, slot, files, bounds, app>>

Mut_Replaces(c) ==
  /\ call[c].at = "asked" /\ HasLock(c)
  /\ slot # None /\ slot.model # call[c].model
  /\ slot' = None
  /\ UNCHANGED <<procs, holder, queue, call, files, bounds, app>>

(* The callers keep the address only, so the slot's is the last reference. *)
Replaces(c) ==
  /\ call[c].at = "asked" /\ HasLock(c)
  /\ slot # None /\ slot.model # call[c].model
  /\ slot' = None
  /\ procs' = Kill(slot.pid)
  /\ UNCHANGED <<holder, queue, call, files, bounds, app>>

(* The file may have been deleted since, and the start may fail.           *)
SpawnFails(c) ==
  /\ call[c].at = "asked" /\ HasLock(c) /\ slot = None
  /\ Leaves(c)
  /\ queue' = Tail(queue)
  /\ UNCHANGED <<procs, holder, slot, files, bounds, app>>

PickPort(c, q) ==
  /\ call[c].at = "asked" /\ HasLock(c) /\ slot = None
  /\ call[c].model \in files /\ spawns < MaxSpawns
  /\ holder[q] = Free
  /\ call' = [call EXCEPT ![c].at = "picked", ![c].port = q]
  /\ UNCHANGED <<procs, holder, slot, queue, files, bounds, app>>

Spawn(c) ==
  /\ call[c].at = "picked"
  /\ spawns' = spawns + 1
  /\ procs' = [procs EXCEPT ![spawns + 1] =
       [NotStarted EXCEPT !.st = "starting", !.model = call[c].model, !.port = call[c].port]]
  /\ call' = [call EXCEPT ![c].at = "waits", ![c].pid = spawns + 1]
  /\ UNCHANGED <<holder, slot, queue, files, calls, others, app>>

Serves(p) == procs[p].st = "healthy"

(* What answers on the port with a success counts as the server.           *)
AnswersHealth(q) ==
  \/ holder[q] = Other
  \/ holder[q] \in Pids /\ Serves(holder[q])

Healthy(c) ==
  /\ call[c].at = "waits" /\ AnswersHealth(call[c].port)
  /\ slot' = [pid |-> call[c].pid, model |-> call[c].model, port |-> call[c].port]
  /\ Becomes(c, "has")
  /\ queue' = Tail(queue)
  /\ UNCHANGED <<procs, holder, files, bounds, app>>

(* Two minutes pass: the poll of the port does not see a process that died.*)
HealthTimeout(c) ==
  /\ call[c].at = "waits" /\ ~AnswersHealth(call[c].port)
  /\ procs' = Kill(call[c].pid)
  /\ Leaves(c)
  /\ queue' = Tail(queue)
  /\ UNCHANGED <<holder, slot, files, bounds, app>>

(* ----------------------------- its requests ---------------------------- *)
Send(c) ==
  /\ call[c].at = "has"
  /\ IF holder[call[c].port] = Free THEN Leaves(c) ELSE Becomes(c, "sent")
  /\ UNCHANGED <<procs, holder, slot, queue, files, bounds, app>>

(* Each request logs: a full pipe would block the server in its write.     *)
Reply(c) ==
  LET p == holder[call[c].port]
  IN  /\ call[c].at = "sent" /\ p \in Pids
      /\ Serves(p) /\ procs[p].unread < Pipe
      /\ procs' = [procs EXCEPT ![p].unread = @ + 1]
      /\ \/ Leaves(c)
         \/ Becomes(c, "has")
      /\ UNCHANGED <<holder, slot, queue, files, bounds, app>>

(* The connection breaks, or what holds the port speaks something else.    *)
Broken(c) ==
  /\ call[c].at = "sent"
  /\ ~(holder[call[c].port] \in Pids /\ Serves(holder[call[c].port]))
  /\ Leaves(c)
  /\ UNCHANGED <<procs, holder, slot, queue, files, bounds, app>>

(* forward_llama_lines, which takes each line off the pipe.                *)
Forward(p) ==
  /\ procs[p].unread > 0
  /\ procs' = [procs EXCEPT ![p].unread = @ - 1]
  /\ UNCHANGED <<holder, slot, queue, call, files, bounds, app>>

Mut_Cancel(c) ==
  /\ call[c].at # "idle"
  /\ Leaves(c)
  /\ procs' = IF call[c].at = "waits" THEN Kill(call[c].pid) ELSE procs
  /\ UNCHANGED <<holder, slot, queue, files, bounds, app>>

(* The caller's task is aborted: it leaves the line for the lock, and a    *)
(* child it was waiting for is killed as it is dropped.                    *)
Cancel(c) ==
  /\ call[c].at # "idle"
  /\ Leaves(c)
  /\ procs' = IF call[c].at = "waits" THEN Kill(call[c].pid) ELSE procs
  /\ \/ \E i \in 1..Len(queue) : queue[i] = c /\ queue' = RemoveAt(queue, i)
     \/ (\A i \in 1..Len(queue) : queue[i] # c) /\ UNCHANGED queue
  /\ UNCHANGED <<holder, slot, files, bounds, app>>

(* ------------------------------ the processes -------------------------- *)
(* The bind may find the port taken; the process then ends.                *)
Binds(p) ==
  /\ procs[p].st = "starting"
  /\ IF holder[procs[p].port] = Free
     THEN /\ holder' = [holder EXCEPT ![procs[p].port] = p]
          /\ procs' = [procs EXCEPT ![p].st = "loading"]
     ELSE holder' = holder /\ procs' = [procs EXCEPT ![p].st = "dead"]
  /\ UNCHANGED <<slot, queue, call, files, bounds, app>>

Loads(p) ==
  /\ procs[p].st = "loading"
  /\ procs' = [procs EXCEPT ![p].st = "healthy"]
  /\ UNCHANGED <<holder, slot, queue, call, files, bounds, app>>

Mut_Freed(dead) == holder
Freed(dead) == [q \in Ports |-> IF holder[q] \in dead THEN Free ELSE holder[q]]

(* By itself, or as it was killed.                                         *)
Dies(p) ==
  /\ Exists(p)
  /\ procs' = [procs EXCEPT ![p].st = "dead"]
  /\ holder' = Freed({p})
  /\ UNCHANGED <<slot, queue, call, files, bounds, app>>

OtherBinds(q) ==
  /\ holder[q] = Free /\ others < MaxOthers
  /\ holder' = [holder EXCEPT ![q] = Other]
  /\ others' = others + 1
  /\ UNCHANGED <<procs, slot, queue, call, files, spawns, calls, app>>

(* delete_local_llm removes the files and does nothing else.               *)
Delete(m) ==
  /\ app = "up" /\ m \in files
  /\ files' = files \ {m}
  /\ UNCHANGED <<procs, holder, slot, queue, call, bounds, app>>

(* The job ends every process with the app.                                *)
AppEnds ==
  /\ app = "up"
  /\ app' = "gone"
  /\ procs' = [p \in Pids |-> IF Exists(p) THEN [procs[p] EXCEPT !.st = "dead"] ELSE procs[p]]
  /\ holder' = Freed(Pids)
  /\ slot' = None /\ queue' = <<>>
  /\ call' = [c \in Callers |-> Idle]
  /\ UNCHANGED <<files, bounds>>

Readies(c) == \/ Found(c) \/ Replaces(c) \/ SpawnFails(c) \/ Spawn(c)
              \/ \E q \in Ports : PickPort(c, q)
Waits(c) == Healthy(c) \/ HealthTimeout(c)
Calls(c) == Send(c) \/ Reply(c) \/ Broken(c)

Next ==
  \/ \E c \in Callers : \/ \E m \in Models : Ensure(c, m)
                        \/ Readies(c) \/ Waits(c) \/ Calls(c) \/ Cancel(c)
  \/ \E p \in Pids : Forward(p) \/ Binds(p) \/ Loads(p) \/ Dies(p)
  \/ \E q \in Ports : OtherBinds(q)
  \/ \E m \in Models : Delete(m)
  \/ AppEnds

(* The runtime goes on with what it can, the wait has its two minutes, a   *)
(* killed process ends, a healthy one answers if its pipe takes the log,   *)
(* and a chain of requests comes to its end.  Nothing makes a process bind *)
(* or load.                                                                *)
Fairness ==
  /\ \A c \in Callers : /\ WF_vars(Readies(c)) /\ WF_vars(Waits(c)) /\ WF_vars(Calls(c))
                        /\ SF_vars(Reply(c) /\ Leaves(c))
  /\ \A p \in Pids : /\ WF_vars(Forward(p))
                     /\ WF_vars(procs[p].st = "killed" /\ Dies(p))

Spec == Init /\ [][Next]_vars /\ Fairness

(* ------------------------------ properties ----------------------------- *)
(* Types: a port is held by a process that exists and was told that port.  *)
LlamaTypeOK ==
  /\ \A q \in Ports : holder[q] \in Pids => Exists(holder[q]) /\ procs[holder[q]].port = q
  /\ slot # None => slot.pid \in 1..spawns /\ procs[slot.pid].model = slot.model
  /\ \A c \in Callers : call[c].at \in {"waits", "has", "sent"} => call[c].pid \in 1..spawns
  /\ \A p \in Pids : procs[p].unread \in 0..Pipe

(* No process runs that is not in the slot or being waited for: not after  *)
(* a swap, a start that failed, an abort in the middle, or the app's end.  *)
NoServerLeft ==
  \A p \in Pids : Runs(p) =>
    \/ slot # None /\ slot.pid = p
    \/ \E c \in Callers : call[c].at = "waits" /\ call[c].pid = p

(* A caller is handed the server of the model it asked for, however many   *)
(* ask for however many models at once.                                    *)
ServesTheModel ==
  \A c \in Callers : call[c].at \in {"has", "sent"} => procs[call[c].pid].model = call[c].model

(* However callers come, give up and are aborted, every call ends: the     *)
(* lock is always passed on, and the server's log never stops it.          *)
ServerCallsEnd == \A c \in Callers : call[c].at # "idle" ~> call[c].at = "idle"

(* A caller is handed a server of its own model, and no server is left     *)
(* running.                                                                *)
LlamaInv ==
  /\ LlamaTypeOK
  /\ NoServerLeft
  /\ ServesTheModel
=============================================================================
