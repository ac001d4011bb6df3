---------------------------- MODULE AgentEndpoint ----------------------------
(***************************************************************************)
(* The life of the agents' listener: the pipe or socket, the bridge file   *)
(* that leads a hook to it (agent_bridge/endpoint.rs, server.rs's Bridge), *)
(* and the Hub's commands that start and stop it with the hooks' settings  *)
(* (agent_hooks.rs).  A bridge is one Bridge value, named by its number;   *)
(* its task's abort is asked for at once and takes effect later.           *)
(***************************************************************************)
EXTENDS Naturals

CONSTANTS
  Agents,      \* "claude", "codex"
  Threads,     \* agent_hooks_apply calls, and the start-up's own look
  Unix,        \* a socket of a fixed name, or a pipe of a random one
  Others,      \* another Ottid may run beside this one
  MaxBridges   \* bound: bridges started

EndpointAssumption == {Unix, Others} \subseteq BOOLEAN /\ MaxBridges \in Nat

VARIABLES
  installed,   \* agents whose settings hold the hook
  pc,          \* where each command stands
  mine, other, \* the bridge in this Ottid's slot, and in the other's; 0: none
  life,        \* each bridge: "unused", "up", "broken", "draining", "gone", "killed"
  file, sock,  \* the bridge the file names; the one bound to the socket's path
  removing,    \* this Ottid's bridge whose file is being removed, and whether it may be
  removingToo, \* the same of the other Ottid
  failed       \* the last start of this Ottid's listener failed

vars == <<installed, pc, mine, other, life, file, sock, removing, removingToo, failed>>

Bridges == 1..MaxBridges
None == [bridge |-> 0, remove |-> FALSE]

Init ==
  /\ installed \in SUBSET Agents /\ mine = 0 /\ other = 0
  /\ pc \in {[t \in Threads |-> IF t = s THEN "look" ELSE "idle"] : s \in Threads}
  /\ life = [k \in Bridges |-> "unused"] /\ file = 0 /\ sock = 0
  /\ removing = None /\ removingToo = None /\ failed = FALSE

Mut_At(t, from, to) == pc[t] = from /\ pc' = [pc EXCEPT ![t] =
                                             IF to = "remove" THEN "idle" ELSE to]
At(t, from, to) == pc[t] = from /\ pc' = [pc EXCEPT ![t] = to]
Fresh(k) == life[k] = "unused" /\ \A j \in Bridges : j < k => life[j] # "unused"

(* claude_settings::apply wrote the file (HookSettings).                   *)
Apply(t) ==
  /\ At(t, "idle", "look")
  /\ \E agent \in Agents : installed' \in {installed \cup {agent}, installed \ {agent}}
  /\ UNCHANGED <<mine, other, life, file, sock, removing, removingToo, failed>>

(* start_if_installed reads both agents' settings, outside the slot's lock.*)
Mut_Wanted == installed = Agents
Mut_Seen == mine # 0 \/ installed # {}
Wanted == installed # {}
Look(t) ==
  /\ At(t, "look", IF Wanted THEN "start" ELSE "stop")
  /\ UNCHANGED <<installed, mine, other, life, file, sock, removing, removingToo, failed>>

Unlocked == removing = None

(* Bind over whatever socket is there, then write the file to a temporary  *)
(* name and rename it.                                                     *)
Binds(k) ==
  Fresh(k) /\ life' = [life EXCEPT ![k] = "up"] /\ sock' = IF Unix THEN k ELSE sock
Writes(k) == file' = k
Opens(k) == Binds(k) /\ Writes(k)

(* No token, no directory, no endpoint, or a file that was not written:    *)
(* the listener, if it was bound, is dropped again.                        *)
OpenFails == UNCHANGED <<life, file>> /\ sock' \in (IF Unix THEN {sock, 0} ELSE {sock})

AlreadyUp(t) ==
  /\ At(t, "start", "idle") /\ Unlocked /\ mine # 0
  /\ UNCHANGED <<installed, mine, other, life, file, sock, removing, removingToo, failed>>

StartBridge(t) ==
  /\ At(t, "start", "idle") /\ Unlocked /\ mine = 0
  /\ \/ OpenFails /\ failed' = TRUE /\ UNCHANGED mine
     \/ \E k \in Bridges : Opens(k) /\ mine' = k /\ failed' = FALSE
  /\ UNCHANGED <<installed, other, removing, removingToo>>

NothingToStop(t) ==
  /\ At(t, "stop", "idle") /\ Unlocked /\ mine = 0
  /\ UNCHANGED <<installed, mine, other, life, file, sock, removing, removingToo, failed>>

(* Bridge::drop: the stop signal and the abort, then the file: read it,    *)
(* and remove it if its endpoint is this bridge's own.                     *)
Endpoint(k) == IF Unix THEN 0 ELSE k
Mut_Removal(k) == [bridge |-> k, remove |-> file # 0 /\ file # k]
Removal(k) == [bridge |-> k, remove |-> file # 0 /\ Endpoint(file) = Endpoint(k)]
Aborted(k) == life' = [life EXCEPT ![k] = IF @ = "up" THEN "draining" ELSE "gone"]

StopBridge(t) ==
  /\ At(t, "stop", "remove") /\ Unlocked /\ mine # 0
  /\ removing' = Removal(mine) /\ mine' = 0 /\ Aborted(mine)
  /\ UNCHANGED <<installed, other, file, sock, removingToo, failed>>

RemoveFile(t) ==
  /\ At(t, "remove", "idle") /\ removing' = None
  /\ file' = IF removing.remove THEN 0 ELSE file
  /\ UNCHANGED <<installed, mine, other, life, sock, removingToo, failed>>

(* The runtime drops the aborted task and its listener with it, which      *)
(* unlinks the socket's path.                                              *)
Drained(k) ==
  /\ life[k] = "draining" /\ life' = [life EXCEPT ![k] = "gone"]
  /\ sock' = IF Unix THEN 0 ELSE sock
  /\ UNCHANGED <<installed, pc, mine, other, file, removing, removingToo, failed>>

(* No fresh pipe instance could be made: the accept loop returns.          *)
Breaks(k) ==
  /\ ~Unix /\ life[k] = "up" /\ life' = [life EXCEPT ![k] = "broken"]
  /\ UNCHANGED <<installed, pc, mine, other, file, sock, removing, removingToo, failed>>

(* The process dies and starts again: the file and the path stay.          *)
Crash ==
  /\ removing' = None /\ mine' = 0 /\ failed' = FALSE
  /\ life' = [k \in Bridges |-> IF \/ k # other /\ life[k] \in {"up", "broken", "draining"}
                                   \/ k = removing.bridge
                                THEN "killed" ELSE life[k]]
  /\ pc' \in {[t \in Threads |-> IF t = s THEN "look" ELSE "idle"] : s \in Threads}
  /\ UNCHANGED <<installed, other, file, sock, removingToo>>

OtherStarts ==
  /\ Others /\ other = 0 /\ removingToo = None
  /\ \E k \in Bridges : Opens(k) /\ other' = k
  /\ UNCHANGED <<installed, pc, mine, removing, removingToo, failed>>
OtherStops ==
  /\ other # 0 /\ removingToo' = Removal(other) /\ other' = 0 /\ Aborted(other)
  /\ UNCHANGED <<installed, pc, mine, file, sock, removing, failed>>
OtherRemoves ==
  /\ removingToo # None /\ removingToo' = None
  /\ file' = IF removingToo.remove THEN 0 ELSE file
  /\ UNCHANGED <<installed, pc, mine, other, life, sock, removing, failed>>

Next ==
  \/ \E t \in Threads : Apply(t) \/ Look(t) \/ AlreadyUp(t) \/ StartBridge(t)
                        \/ NothingToStop(t) \/ StopBridge(t) \/ RemoveFile(t)
  \/ \E k \in Bridges : Drained(k) \/ Breaks(k)
  \/ Crash \/ OtherStarts \/ OtherStops \/ OtherRemoves
Spec == Init /\ [][Next]_vars

-----------------------------------------------------------------------------
(* Types: the slots, the endpoint file and the socket name bridges, and a  *)
(* removal is recorded exactly while a command is in it.                   *)
BrokerTypeOK ==
  /\ installed \subseteq Agents /\ {mine, other, file, sock} \subseteq 0..MaxBridges
  /\ pc \in [Threads -> {"idle", "look", "start", "stop", "remove"}]
  /\ life \in [Bridges -> {"unused", "up", "broken", "draining", "gone", "killed"}]
  /\ (removing # None) = (\E t \in Threads : pc[t] = "remove")

Settled ==
  /\ \A t \in Threads : pc[t] = "idle"
  /\ removingToo = None /\ \A k \in Bridges : life[k] # "draining"
Reads(k) == file = k
Reaches(k) == life[k] = "up" /\ (Unix => sock = k)

(* "The listener runs only while the hook is installed ... started by the  *)
(* Hub's install" (agent_hooks.rs:7): once the commands have settled, a    *)
(* hook that is installed finds the listener through the bridge file,      *)
(* unless it failed to start or broke.                                     *)
ServedWhileInstalled ==
  Settled /\ installed # {} /\ ~failed /\ (mine # 0 => life[mine] # "broken")
  => mine # 0 /\ Reads(mine) /\ Reaches(mine)

(* "Without the hook, Ottid has no listener" (agent_hooks.rs:9).           *)
NoListenerWithoutHook == Settled /\ installed = {} => mine = 0

(* "Stopping on exit deletes the bridge file, and the token with it"       *)
(* (agent_hooks.rs:15): the file never names a bridge that was stopped.    *)
NoTokenLeftBehind == Settled /\ file # 0 => life[file] # "gone"

(* Once all commands have settled, a listener runs exactly while a hook is *)
(* installed, and no token outlives its listener.                          *)
ListenerInv ==
  /\ BrokerTypeOK
  /\ ServedWhileInstalled
  /\ NoListenerWithoutHook
  /\ NoTokenLeftBehind
=============================================================================
