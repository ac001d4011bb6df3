----------------------------- MODULE AgentBridge -----------------------------
(***************************************************************************)
(* One permission request from an agent's hook process to the approval     *)
(* card and back (packages/shared-rust/src/agent_bridge: client.rs,        *)
(* server.rs, auth.rs, wire.rs, hook.rs, runner.rs), with the listener's   *)
(* slots, both ends' time limits, Ottid stopping, crashing or restarting,  *)
(* and the agent leaving.  Time is counted down by Tick, one unit a        *)
(* handshake step; a limit that has run out is acted on before time goes   *)
(* on.  A MAC is the session it covers: the token and both nonces, which   *)
(* are the connection's own.                                               *)
(***************************************************************************)
EXTENDS Naturals, Sequences, FiniteSets

CONSTANTS
  Hooks,            \* hook processes, each with one request
  Sizes,            \* sizes of a request's body
  Kinds, Builds,    \* "permission", "codex", "activity"; whether of this build (BOOLEAN)
  Parents,          \* whether the agent's process can be watched: "alive", "unknown"
  MacLen, MaxAsk,   \* bytes of a MAC; the frame cap of a request
  MaxConnections,
  Handshake, ServerWait, ClientWait, HookTimeout,
  MaxStarts         \* bound: times Ottid starts its listener

TimesAssumption ==
  /\ {Handshake, ServerWait, ClientWait, HookTimeout} \subseteq Nat \ {0}
  /\ Handshake <= ServerWait /\ ServerWait + Handshake <= ClientWait
  /\ 2 * Handshake + ClientWait < HookTimeout

SlotsAssumption == IsFiniteSet(Hooks) /\ MaxConnections \in Nat

VARIABLES
  hook,       \* each hook process
  conn,       \* the listener's end of each hook's connection
  up,         \* the token of the running listener, 0 without one
  file,       \* the token in the bridge file, 0 without one
  starts,
  installed   \* the hook is in the agent's settings

vars == <<hook, conn, up, file, starts, installed>>

Waits == {"connecting", "challenge", "asking"}
Serves == {"hello", "ask", "deciding"}
Running(h) == hook[h].pc \in Waits
Serving(h) == conn[h].pc \in Serves
Taken == {h \in Hooks : Serving(h)}

Init ==
  /\ hook = [h \in Hooks |-> [pc |-> "idle", kind |-> "permission", same |-> TRUE, size |-> 0,
                              left |-> 0, age |-> 0, token |-> 0, parent |-> "alive",
                              out |-> "none"]]
  /\ conn = [h \in Hooks |-> [pc |-> "none", left |-> 0, token |-> 0, toServer |-> <<>>,
                              toHook |-> <<>>, card |-> "none", refused |-> "none"]]
  /\ up = 0 /\ file = 0 /\ starts = 0 /\ installed = TRUE

-----------------------------------------------------------------------------
(* The hook process.                                                       *)
Hook(h, r) == hook' = [hook EXCEPT ![h] = r]
Conn(h, r) == conn' = [conn EXCEPT ![h] = r]
Ended(h, out) == [hook[h] EXCEPT !.pc = "done", !.left = 0, !.out = out]
HookOnly == UNCHANGED <<conn, up, file, starts, installed>>
ConnOnly == UNCHANGED <<hook, up, file, starts, installed>>
Link == UNCHANGED <<up, file, starts, installed>>

(* A permission request or a notification of activity, from a hook of this *)
(* build or another.  Input the card cannot show, or that is over the      *)
(* frame cap with its MAC, goes no further.                                *)
Mut_Fits(size) == size <= MaxAsk
Fits(size) == MacLen + size <= MaxAsk

Start(h) ==
  /\ hook[h].pc = "idle"
  /\ \E kind \in Kinds, same \in Builds, size \in Sizes, parent \in Parents :
       Hook(h, [hook[h] EXCEPT !.pc = "file", !.kind = kind, !.same = same, !.size = size,
                               !.parent = parent])
  /\ HookOnly

(* parse refused the input, or the request is too large.                   *)
Unfit(h) ==
  /\ hook[h].pc = "file"
  /\ Hook(h, Ended(h, "input")) /\ HookOnly

ReadFile(h) ==
  /\ hook[h].pc = "file" /\ Fits(hook[h].size)
  /\ Hook(h, IF file = 0 THEN Ended(h, "absent")
             ELSE [hook[h] EXCEPT !.pc = "connecting", !.token = file, !.left = Handshake])
  /\ HookOnly

(* Nobody listens, the pipe is not Ottid's, or stays busy for the time.    *)
ConnectFails(h) ==
  /\ hook[h].pc = "connecting" /\ (up = 0 \/ up # hook[h].token \/ hook[h].left = 0)
  /\ Hook(h, Ended(h, "connect")) /\ HookOnly

Connect(h) ==
  /\ hook[h].pc = "connecting" /\ up # 0
  /\ Hook(h, [hook[h] EXCEPT !.pc = "challenge", !.left = Handshake])
  /\ Conn(h, [conn[h] EXCEPT !.pc = "queued", !.token = up, !.toServer = <<"hello">>])
  /\ Link

(* A reader has what was sent, or sees the end once everything is read.    *)
HookReads(h) == conn[h].toHook # <<>>
HookSeesEnd(h) == conn[h].toHook = <<>> /\ conn[h].pc = "closed"

(* check_proof: the listener holds the token of the bridge file.           *)
Mut_Proves(h) == TRUE
Proves(h) == conn[h].token = hook[h].token

Wait(kind) == IF kind = "activity" THEN Handshake ELSE ClientWait
Mut_AskLimit(kind) == IF kind = "activity" THEN Handshake ELSE HookTimeout
AskLimit(kind) == Wait(kind)

ReadChallenge(h) ==
  /\ hook[h].pc = "challenge" /\ HookReads(h)
  /\ IF Proves(h)
     THEN /\ Hook(h, [hook[h] EXCEPT !.pc = "asking", !.left = AskLimit(hook[h].kind)])
          /\ Conn(h, [conn[h] EXCEPT !.toHook = Tail(@), !.toServer = Append(@, "ask")])
     ELSE Hook(h, Ended(h, "unproven")) /\ Conn(h, [conn[h] EXCEPT !.toHook = Tail(@)])
  /\ Link

(* The answer's MAC is this exchange's.                                    *)
ReadAnswer(h) ==
  /\ hook[h].pc = "asking" /\ HookReads(h)
  /\ Hook(h, Ended(h, Head(conn[h].toHook))) /\ Conn(h, [conn[h] EXCEPT !.toHook = Tail(@)])
  /\ Link

ReadEnd(h) ==
  /\ hook[h].pc \in {"challenge", "asking"} /\ HookSeesEnd(h)
  /\ Hook(h, Ended(h, "closed")) /\ HookOnly

HookTimesOut(h) ==
  /\ hook[h].pc \in {"challenge", "asking"} /\ hook[h].left = 0
  /\ ~HookReads(h) /\ ~HookSeesEnd(h)
  /\ Hook(h, Ended(h, "timeout")) /\ HookOnly

(* parent_gone is watched only while the answer is awaited, and never      *)
(* where the parent cannot be opened.                                      *)
Cancelled(h) ==
  /\ hook[h].pc = "asking" /\ hook[h].kind # "activity" /\ hook[h].parent = "gone"
  /\ Hook(h, Ended(h, "cancelled")) /\ HookOnly

AgentLeaves(h) ==
  /\ hook[h].parent = "alive" /\ hook[h].pc # "done"
  /\ Hook(h, [hook[h] EXCEPT !.parent = "gone"]) /\ HookOnly

-----------------------------------------------------------------------------
(* The listener.                                                           *)
Closed(h, why) == [conn[h] EXCEPT !.pc = "closed", !.left = 0, !.refused = why,
                                  !.card = IF @ = "open" THEN "withdrawn" ELSE @]
Reply(h, answer) ==
  [conn[h] EXCEPT !.pc = "closed", !.left = 0, !.toHook = <<answer>>,
                  !.card = IF @ = "open" THEN "withdrawn" ELSE @]

(* Only this listener's connections; one past the cap is closed at once.   *)
Mut_Slots == {h \in Hooks : conn[h].pc \in Serves \/ conn[h].refused = "handshake"}
Slots == Taken
Free == Cardinality(Slots) < MaxConnections

Accept(h) ==
  /\ conn[h].pc = "queued" /\ up = conn[h].token
  /\ Conn(h, IF Free THEN [conn[h] EXCEPT !.pc = "hello", !.left = Handshake]
             ELSE Closed(h, "full"))
  /\ ConnOnly

ServerReads(h) == conn[h].toServer # <<>>
HookGone(h) == hook[h].pc = "done"

(* The hello: another protocol version is refused, else the challenge.     *)
ReadHello(h) ==
  /\ conn[h].pc = "hello" /\ ServerReads(h)
  /\ Conn(h, IF hook[h].same
             THEN [conn[h] EXCEPT !.pc = "ask", !.left = Handshake, !.toServer = Tail(@),
                                  !.toHook = <<"challenge">>]
             ELSE Closed(h, "version"))
  /\ ConnOnly

(* The request: its cap, its MAC.  An activity, an agent whose hook is not *)
(* installed or a Codex request without the opt-in is answered "ask".      *)
Shown(h) == installed /\ hook[h].kind # "activity"
Admits(h) == MacLen + hook[h].size <= MaxAsk

ReadAsk(h) ==
  /\ conn[h].pc = "ask" /\ ServerReads(h)
  /\ \/ ~Admits(h) /\ Conn(h, Closed(h, "size"))
     \/ Admits(h) /\ conn[h].token # hook[h].token /\ Conn(h, Closed(h, "token"))
     \/ /\ Admits(h) /\ conn[h].token = hook[h].token /\ Shown(h)
        /\ Conn(h, [conn[h] EXCEPT !.pc = "deciding", !.left = ServerWait, !.card = "open",
                                   !.toServer = Tail(@)])
     \/ /\ Admits(h) /\ conn[h].token = hook[h].token
        /\ (~Shown(h) \/ hook[h].kind = "codex") /\ Conn(h, Reply(h, "ask"))
  /\ ConnOnly

Mut_LimitOver(h) == conn[h].left = 0 /\ ~HookGone(h)
LimitOver(h) == conn[h].left = 0 \/ HookGone(h)

(* A handshake message did not come in time, or the connection broke.      *)
ServerGivesUp(h) ==
  /\ conn[h].pc \in {"hello", "ask"} /\ ~ServerReads(h) /\ LimitOver(h)
  /\ Conn(h, Closed(h, "handshake")) /\ ConnOnly

(* The card: the user's answer, or none.                                   *)
Answer(h) ==
  /\ conn[h].pc = "deciding" /\ conn[h].card = "open"
  /\ \E card \in {"allow", "deny", "unanswered"} : Conn(h, [conn[h] EXCEPT !.card = card])
  /\ ConnOnly

Mut_HookAnswer(card) == IF card = "open" THEN "allow" ELSE card
HookAnswer(card) == IF card \in {"allow", "deny"} THEN card ELSE "ask"

SendAnswer(h) ==
  /\ conn[h].pc = "deciding" /\ (conn[h].card # "open" \/ conn[h].left = 0)
  /\ Conn(h, Reply(h, HookAnswer(conn[h].card))) /\ ConnOnly

(* Anything from the hook, or its end, withdraws the request.              *)
Mut_SeesGone(h) == ServerReads(h)
SeesGone(h) == HookGone(h) \/ ServerReads(h)
Withdraw(h) ==
  /\ conn[h].pc = "deciding" /\ SeesGone(h) /\ Conn(h, Closed(h, "gone")) /\ ConnOnly

(* The stop signal, or the listener's own end for a client still queued.   *)
StopSeen(h) ==
  /\ conn[h].pc \in Serves \cup {"queued"} /\ up # conn[h].token
  /\ Conn(h, Closed(h, "stopped")) /\ ConnOnly

-----------------------------------------------------------------------------
(* Ottid.                                                                  *)
BridgeStarts ==
  /\ up = 0 /\ starts < MaxStarts /\ installed
  /\ up' = starts + 1 /\ starts' = up' /\ file' = up' /\ UNCHANGED <<hook, conn, installed>>

BridgeStops ==
  /\ up # 0 /\ up' = 0 /\ file' = 0 /\ installed' \in {installed, FALSE}
  /\ UNCHANGED <<hook, conn, starts>>

(* The process dies: every connection with it, and the file stays.         *)
Crash ==
  /\ up # 0 /\ up' = 0
  /\ conn' = [h \in Hooks |-> IF conn[h].pc \in {"none", "closed"} THEN conn[h]
                              ELSE Closed(h, "stopped")]
  /\ UNCHANGED <<hook, file, starts, installed>>

(* A limit that ran out, or an end that woke the listener's select: both   *)
(* are acted on within a unit of time.                                     *)
Woken(h) == Serving(h) /\ (HookGone(h) \/ up # conn[h].token)
Due(h) == Woken(h) \/ (Running(h) /\ hook[h].left = 0) \/ (Serving(h) /\ conn[h].left = 0)

Tick ==
  /\ \E h \in Hooks : Running(h) \/ Serving(h)
  /\ \A h \in Hooks : ~Due(h)
  /\ hook' = [h \in Hooks |-> IF Running(h)
                              THEN [hook[h] EXCEPT !.left = @ - 1, !.age = @ + 1] ELSE hook[h]]
  /\ conn' = [h \in Hooks |-> IF Serving(h) THEN [conn[h] EXCEPT !.left = @ - 1] ELSE conn[h]]
  /\ Link

Mut_HookStep(h) ==
  \/ Unfit(h) \/ ReadFile(h) \/ Connect(h) \/ ReadChallenge(h)
  \/ ReadAnswer(h) \/ ReadEnd(h) \/ HookTimesOut(h) \/ Cancelled(h)
HookStep(h) ==
  \/ Unfit(h) \/ ReadFile(h) \/ ConnectFails(h) \/ Connect(h) \/ ReadChallenge(h)
  \/ ReadAnswer(h) \/ ReadEnd(h) \/ HookTimesOut(h) \/ Cancelled(h)
ServerStep(h) ==
  \/ Accept(h) \/ ReadHello(h) \/ ReadAsk(h) \/ ServerGivesUp(h) \/ SendAnswer(h)
  \/ Withdraw(h) \/ StopSeen(h)

Next ==
  \/ \E h \in Hooks : Start(h) \/ AgentLeaves(h) \/ Answer(h) \/ HookStep(h) \/ ServerStep(h)
  \/ BridgeStarts \/ BridgeStops \/ Crash \/ Tick

(* Both processes run, and time passes; the user owes nothing.             *)
Fairness ==
  /\ WF_vars(Tick)
  /\ \A h \in Hooks : WF_vars(HookStep(h)) /\ WF_vars(ServerStep(h))
Spec == Init /\ [][Next]_vars /\ Fairness

-----------------------------------------------------------------------------
(* Types: each hook and connection stands at one of its steps, within its  *)
(* limit, and no more slots are taken than there are.                      *)
BridgeTypeOK ==
  /\ \A h \in Hooks :
       /\ hook[h].pc \in {"idle", "file", "done"} \cup Waits
       /\ conn[h].pc \in {"none", "queued", "closed"} \cup Serves
       /\ hook[h].left \in 0..ClientWait /\ conn[h].left \in 0..ServerWait
       /\ conn[h].card \in {"none", "open", "allow", "deny", "unanswered", "withdrawn"}
  /\ {up, file} \subseteq 0..starts /\ Cardinality(Taken) <= MaxConnections

(* "nothing here ever allows or denies on its own" (client.rs): the hook   *)
(* prints a decision only if the user made that one, for this request,     *)
(* whichever of the answer, the time limits, a stop and a restart wins.    *)
DecisionIsTheUsers ==
  \A h \in Hooks : hook[h].out \in {"allow", "deny"} => conn[h].card = hook[h].out

(* "the listener's challenge proves it holds the token before the client   *)
(* says what Claude Code wants to run" (auth.rs): across restarts and      *)
(* stale bridge files, a request reaches only the Ottid whose file it read.*)
SaidOnlyToItsOttid ==
  \A h \in Hooks :
    hook[h].pc = "asking" \/ "ask" \in {conn[h].toServer[i] : i \in 1..Len(conn[h].toServer)}
    => conn[h].token = hook[h].token

(* A request of this build's hook that passed the hook's own limits is     *)
(* never refused for its size or its token once it is sent.                *)
SentIsAdmitted ==
  \A h \in Hooks : conn[h].refused \notin {"size", "token"}

(* "ottid-hook always gives up first" (mod.rs:99): however the steps and   *)
(* their limits add up, the hook is done before the agent would kill it.   *)
GivesUpFirst == \A h \in Hooks : Running(h) => hook[h].age < HookTimeout

(* A card whose hook is gone, or whose Ottid stopped, comes down, and not  *)
(* only when its own wait has run out.                                     *)
CardComesDown ==
  \A h \in Hooks :
    conn[h].card = "open" /\ (hook[h].pc = "done" \/ up # conn[h].token)
    ~> conn[h].card # "open"

(* However the connections before it ended, a hook is turned away only     *)
(* while every slot serves a connection now.                               *)
TurnedAwayOnlyAtCap ==
  \A h \in Hooks : conn'[h].refused = "full" /\ conn[h].refused # "full"
                   => Cardinality(Taken) = MaxConnections

(* Every hook that started ends, with or without an Ottid at the other     *)
(* end, and every slot comes back.                                         *)
HooksEnd == \A h \in Hooks : hook[h].pc \notin {"idle", "done"} ~> hook[h].pc = "done"

(* A connection, however it ends, gives its slot back.                     *)
SlotsComeBack == \A h \in Hooks : Serving(h) ~> ~Serving(h)

(* A decision is the one the user made for that request, a request is told *)
(* only to the Ottid of its file, what is sent is admitted, and the hook   *)
(* gives up before its agent does.                                         *)
BridgeInv ==
  /\ BridgeTypeOK
  /\ DecisionIsTheUsers
  /\ SaidOnlyToItsOttid
  /\ SentIsAdmitted
  /\ GivesUpFirst
=============================================================================
