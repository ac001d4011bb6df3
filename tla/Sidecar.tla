------------------------------ MODULE Sidecar ------------------------------
(***************************************************************************)
(* The speech-to-text sidecar: a process the app starts on first use,      *)
(* which prints a token and a port, and is called with that token from     *)
(* then on.  There are two states that hold one: the app's, behind the     *)
(* debug surface, and the dictation worker's, which its preview thread     *)
(* shares.                                                                 *)
(*                                                                         *)
(* Processes are numbered in the order they are started; the token a       *)
(* process mints is its number.  A process prints the lines of a script,   *)
(* loads its model, logs a line to its standard error for every decode,    *)
(* and may die at any time.                                                *)
(***************************************************************************)
EXTENDS Naturals, Sequences, FiniteSets

CONSTANTS Callers,     \* of "debug", "final", "preview"
          Scripts,     \* what a process may print: "noise", "token", "port"
          Pipe,        \* log lines that fit the pipe nobody reads
          MaxSpawns,   \* bound: processes started
          MaxCalls,    \* bound: calls made
          None

PipeAssumption ==
  /\ Pipe \in Nat \ {0} /\ MaxSpawns \in Nat
  /\ None \notin Nat /\ None \notin [pid : Nat, token : Nat]

VARIABLES procs,   \* the processes
          slot,    \* of an owner: [pid, token] of its sidecar, or None
          queue,   \* of an owner: the callers of ready_sidecar, the first holds the lock
          call,    \* of a caller: what it is at
          spawns, calls, app

vars == <<procs, slot, queue, call, spawns, calls, app>>

Pids == 1..MaxSpawns
Owners == {"app", "worker"}
OwnerOf(c) == IF c = "debug" THEN "app" ELSE "worker"

Idle == [at |-> "idle", kind |-> None, pid |-> None, token |-> None]
NotStarted == [st |-> "none", owner |-> None, script |-> <<>>, ready |-> FALSE,
               logged |-> 0]

Init ==
  /\ procs = [p \in Pids |-> NotStarted]
  /\ slot = [o \in Owners |-> None]
  /\ queue = [o \in Owners |-> <<>>]
  /\ call = [c \in Callers |-> Idle]
  /\ spawns = 0 /\ calls = 0 /\ app = "up"

Alive(p) == procs[p].st = "alive"
Kill(p) == [procs EXCEPT ![p].st = "dead"]
Frees(c) == [queue EXCEPT ![OwnerOf(c)] = Tail(@)]
HasLock(c) == queue[OwnerOf(c)] # <<>> /\ Head(queue[OwnerOf(c)]) = c

(* A call ends, with an answer or an error.                                *)
Ends(c) == call' = [call EXCEPT ![c] = Idle]

(* ----------------------------- the lifecycle --------------------------- *)
Ask(c, kind) ==
  /\ app = "up" /\ call[c].at = "idle" /\ calls < MaxCalls
  /\ c = "debug" => kind = "health"
  /\ c = "preview" => kind = "decode"
  /\ calls' = calls + 1
  /\ call' = [call EXCEPT ![c] = [Idle EXCEPT !.at = "asked", !.kind = kind]]
  /\ queue' = [queue EXCEPT ![OwnerOf(c)] = Append(@, c)]
  /\ UNCHANGED <<procs, slot, spawns, app>>

(* The slot of a ready sidecar is looked at under the lock, and nothing    *)
(* but the slot: not whether its process still runs.                       *)
Found(c) ==
  /\ call[c].at = "asked" /\ HasLock(c)
  /\ slot[OwnerOf(c)] # None
  /\ call' = [call EXCEPT ![c].at = "has", ![c].pid = slot[OwnerOf(c)].pid,
                          ![c].token = slot[OwnerOf(c)].token]
  /\ queue' = Frees(c)
  /\ UNCHANGED <<procs, slot, spawns, calls, app>>

Command(c, script) ==
  [NotStarted EXCEPT !.st = "alive", !.owner = OwnerOf(c), !.script = script]

Mut_Spawn(c, script) ==
  /\ call[c].at = "asked"
  /\ slot[OwnerOf(c)] = None /\ spawns < MaxSpawns
  /\ spawns' = spawns + 1
  /\ procs' = [procs EXCEPT ![spawns + 1] = Command(c, script)]
  /\ call' = [call EXCEPT ![c].at = "handshake", ![c].pid = spawns + 1, ![c].token = None]
  /\ UNCHANGED <<slot, queue, calls, app>>

(* The process is started and, on Windows, put into the job that kills it  *)
(* with the app.                                                           *)
Spawn(c, script) ==
  /\ call[c].at = "asked" /\ HasLock(c)
  /\ slot[OwnerOf(c)] = None /\ spawns < MaxSpawns
  /\ spawns' = spawns + 1
  /\ procs' = [procs EXCEPT ![spawns + 1] = Command(c, script)]
  /\ call' = [call EXCEPT ![c].at = "handshake", ![c].pid = spawns + 1, ![c].token = None]
  /\ UNCHANGED <<slot, queue, calls, app>>

(* No interpreter on the path, or the process could not be started.        *)
SpawnFails(c) ==
  /\ call[c].at = "asked" /\ HasLock(c) /\ slot[OwnerOf(c)] = None
  /\ queue' = Frees(c)
  /\ Ends(c)
  /\ UNCHANGED <<procs, slot, spawns, calls, app>>

Mut_GivesUp(c) ==
  /\ procs' = procs
  /\ queue' = Frees(c)
  /\ Ends(c)
  /\ UNCHANGED <<slot, spawns, calls, app>>

GivesUp(c) ==
  /\ procs' = Kill(call[c].pid)
  /\ queue' = Frees(c)
  /\ Ends(c)
  /\ UNCHANGED <<slot, spawns, calls, app>>

ParsesAsToken(line) == line = "token"
ParsesAsPort(line) == line = "port"

Mut_ReadsLine(c) ==
  LET p == call[c].pid
      line == Head(procs[p].script)
      rest == [procs EXCEPT ![p].script = Tail(@)]
  IN  /\ call[c].at = "handshake" /\ procs[p].script # <<>>
      /\ IF ParsesAsPort(line)
         THEN /\ slot' = [slot EXCEPT ![OwnerOf(c)] = [pid |-> p, token |-> call[c].token]]
              /\ call' = [call EXCEPT ![c].at = "has"]
              /\ queue' = Frees(c)
              /\ procs' = rest
              /\ UNCHANGED <<spawns, calls, app>>
         ELSE /\ procs' = rest
              /\ call' = [call EXCEPT ![c].token = IF ParsesAsToken(line) THEN p ELSE @]
              /\ UNCHANGED <<slot, queue, spawns, calls, app>>

(* HandshakeReader::push, for each line: the token is kept, the port makes *)
(* the sidecar, a port before a token is an error, all else is passed over.*)
ReadsLine(c) ==
  LET p == call[c].pid
      line == Head(procs[p].script)
      rest == [procs EXCEPT ![p].script = Tail(@)]
  IN  /\ call[c].at = "handshake" /\ procs[p].script # <<>>
      /\ IF ParsesAsPort(line)
         THEN IF call[c].token = None
              THEN GivesUp(c)
              ELSE /\ slot' = [slot EXCEPT ![OwnerOf(c)] =
                                 [pid |-> p, token |-> call[c].token]]
                   /\ call' = [call EXCEPT ![c].at = "has"]
                   /\ queue' = Frees(c)
                   /\ procs' = rest
                   /\ UNCHANGED <<spawns, calls, app>>
         ELSE /\ procs' = rest
              /\ call' = [call EXCEPT ![c].token = IF ParsesAsToken(line) THEN p ELSE @]
              /\ UNCHANGED <<slot, queue, spawns, calls, app>>

Mut_HandshakeFails(c) ==
  /\ call[c].at = "handshake" /\ procs[call[c].pid].script = <<>>
  /\ ~Alive(call[c].pid)
  /\ GivesUp(c)

(* The process ended, or was silent for eight seconds.                     *)
HandshakeFails(c) ==
  /\ call[c].at = "handshake" /\ procs[call[c].pid].script = <<>>
  /\ GivesUp(c)

(* ------------------------------- the calls ----------------------------- *)
(* Sidecar::client connects anew for each call.                            *)
Connect(c) ==
  /\ call[c].at = "has"
  /\ IF Alive(call[c].pid)
     THEN call' = [call EXCEPT ![c].at = "sent"]
     ELSE Ends(c)
  /\ UNCHANGED <<procs, slot, queue, spawns, calls, app>>

HealthAnswered(c) ==
  /\ call[c].at = "sent" /\ call[c].kind = "health"
  /\ Alive(call[c].pid)
  /\ Ends(c)
  /\ UNCHANGED <<procs, slot, queue, spawns, calls, app>>

(* A decode is refused until the model is there, and then logs what *)
(* language it took it for: with the pipe full that write blocks, and the  *)
(* decode with it.                                                         *)
Refused(c) ==
  /\ call[c].at = "sent" /\ call[c].kind = "decode"
  /\ Alive(call[c].pid) /\ ~procs[call[c].pid].ready
  /\ Ends(c)
  /\ UNCHANGED <<procs, slot, queue, spawns, calls, app>>

Mut_CanLog(p) == procs[p].logged <= Pipe
CanLog(p) == procs[p].logged < Pipe

Transcribed(c) ==
  LET p == call[c].pid
  IN  /\ call[c].at = "sent" /\ call[c].kind = "decode"
      /\ Alive(p) /\ procs[p].ready /\ CanLog(p)
      /\ procs' = [procs EXCEPT ![p].logged = @ + 1]
      /\ Ends(c)
      /\ UNCHANGED <<slot, queue, spawns, calls, app>>

Broken(c) ==
  /\ call[c].at = "sent" /\ ~Alive(call[c].pid)
  /\ Ends(c)
  /\ UNCHANGED <<procs, slot, queue, spawns, calls, app>>

(* ------------------------------ the process ---------------------------- *)
WarmsUp(p) ==
  /\ Alive(p) /\ ~procs[p].ready
  /\ procs' = [procs EXCEPT ![p].ready = TRUE]
  /\ UNCHANGED <<slot, queue, call, spawns, calls, app>>

(* What it had printed by then may still be read.                          *)
Dies(p) ==
  /\ Alive(p)
  /\ \E n \in 0..Len(procs[p].script) :
       procs' = [Kill(p) EXCEPT ![p].script = SubSeq(@, 1, n)]
  /\ UNCHANGED <<slot, queue, call, spawns, calls, app>>

(* The app ends, also abruptly: the job's handle is closed with it, and    *)
(* every process in the job is killed.                                     *)
JobCloses == [p \in Pids |-> IF Alive(p) THEN Kill(p)[p] ELSE procs[p]]

AppEnds ==
  /\ app = "up"
  /\ app' = "gone"
  /\ procs' = JobCloses
  /\ slot' = [o \in Owners |-> None]
  /\ queue' = [o \in Owners |-> <<>>]
  /\ call' = [c \in Callers |-> Idle]
  /\ UNCHANGED <<spawns, calls>>

Finds(c) == Found(c) \/ (\E script \in Scripts : Spawn(c, script)) \/ SpawnFails(c)
Handshakes(c) == ReadsLine(c) \/ HandshakeFails(c)
Answers(c) == HealthAnswered(c) \/ Refused(c) \/ Transcribed(c) \/ Broken(c)

Next ==
  \/ \E c \in Callers : \/ \E kind \in {"health", "decode"} : Ask(c, kind)
                        \/ Finds(c) \/ Handshakes(c) \/ Connect(c) \/ Answers(c)
  \/ \E p \in Pids : WarmsUp(p) \/ Dies(p)
  \/ AppEnds

(* The runtime goes on with what it can, reads are bounded by the eight    *)
(* seconds, and the sidecar answers what it can answer.  Nothing makes a   *)
(* process die or load its model.                                          *)
Fairness == \A c \in Callers :
  WF_vars(Finds(c)) /\ WF_vars(Handshakes(c)) /\ WF_vars(Connect(c)) /\ WF_vars(Answers(c))

Spec == Init /\ [][Next]_vars /\ Fairness

(* ------------------------------ properties ----------------------------- *)
(* Types: a slot and a call name a process that was started.               *)
SidecarTypeOK ==
  /\ \A p \in Pids : procs[p].st \in {"none", "alive", "dead"} /\ procs[p].logged \in 0..Pipe
  /\ \A o \in Owners : slot[o] # None => procs[slot[o].pid].st # "none"
  /\ \A c \in Callers : /\ call[c].at \in {"idle", "asked", "handshake", "has", "sent"}
                        /\ call[c].at \in {"handshake", "has", "sent"} => call[c].pid \in 1..spawns

(* No process runs on that nobody holds: it is in a slot or being waited   *)
(* for, however its start ended, and none outlives the app.                *)
NoSidecarLeft ==
  \A p \in Pids : Alive(p) =>
    \/ \E o \in Owners : slot[o] # None /\ slot[o].pid = p
    \/ \E c \in Callers : call[c].at = "handshake" /\ call[c].pid = p

(* However many ask at once, an owner never has two processes: each would  *)
(* load the model again.                                                   *)
OneEach == \A o \in Owners : Cardinality({p \in Pids : Alive(p) /\ procs[p].owner = o}) <= 1

(* A call carries the token of the process it goes to, across deaths,      *)
(* failed handshakes and new starts.                                       *)
CarriesItsToken ==
  \A c \in Callers : call[c].at \in {"has", "sent"} => call[c].token = call[c].pid

(* Every call ends, with an answer or an error.                            *)
SidecarCallsEnd == \A c \in Callers : call[c].at # "idle" ~> call[c].at = "idle"

(* An owner has one sidecar at a time, each is called with its own token,  *)
(* and none is left running.                                               *)
SidecarInv ==
  /\ SidecarTypeOK
  /\ NoSidecarLeft
  /\ OneEach
  /\ CarriesItsToken
=============================================================================
