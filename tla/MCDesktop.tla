------------------------------ MODULE MCDesktop ------------------------------
(***************************************************************************)
(* Parts of the desktop app that act at once with the user, with one       *)
(* another's threads or with other processes: the approval hotkeys and the *)
(* hold, with two requests and a hold of one tick and with two presses and *)
(* a hold of two; the card's page and the overlay, with two requests that  *)
(* pass over the card while its page loads and with the user showing and   *)
(* hiding the overlay from its menu; the keychain; the global hotkeys; and *)
(* the bridge to the agents and its listener. The parts share no state; a  *)
(* behaviour is one of a single part, and the run takes each in turn.      *)
(***************************************************************************)
EXTENDS Naturals, Sequences, FiniteSets

CONSTANTS Parts, Exclusive, MaxFaults, NoKey, Error

(* Two threads on a keychain that may fail, and one on a sound keychain.    *)
Moves == [keys |-> {"k1", "k2"}, threads |-> {"t1", "t2"}, alone |-> Exclusive,
          faults |-> MaxFaults, writes |-> 3]
Reads == [keys |-> {"k1", "k2"}, threads |-> {"t1"}, alone |-> TRUE, faults |-> 0,
          writes |-> 4]

DefaultChords ==
  [s \in {"dictation", "command"} |-> IF s = "dictation" THEN "space" ELSE "backquote"]

(* Two chords to choose besides the defaults, twice, and a page that is     *)
(* mounted again.                                                           *)
Binds == [chords |-> {"space", "backquote", "debugging", "y", "f8", "f9"},
          debug |-> "debugging", card |-> "y", default |-> DefaultChords,
          choices |-> {"f8", "f9"}, overlapping |-> FALSE, rebinds |-> 2, mounts |-> 1]

(* A hook of any kind and build, whose agent may leave, and Ottid started  *)
(* twice; and two hooks of activity for one slot.                          *)
Asks == [hooks |-> {"h1"}, sizes |-> {2, 3},
         kinds |-> {"permission", "codex", "activity"}, builds |-> {TRUE, FALSE},
         parents |-> {"alive", "unknown"}, mac |-> 1, ask |-> 3, connections |-> 1,
         handshake |-> 1, server |-> 2, client |-> 3, timeout |-> 6, starts |-> 2]
Crowd == [hooks |-> {"h1", "h2"}, sizes |-> {1}, kinds |-> {"activity"},
          builds |-> {TRUE}, parents |-> {"unknown"}, mac |-> 1, ask |-> 3,
          connections |-> 1, handshake |-> 1, server |-> 2, client |-> 3,
          timeout |-> 6, starts |-> 1]

(* The Hub's commands on a pipe of this Ottid's own; and on a socket, with  *)
(* the start-up's own look and another Ottid beside this one.               *)
Pipe == [agents |-> {"claude", "codex"}, threads |-> {"hub"}, unix |-> FALSE,
         others |-> FALSE, bridges |-> 3]
Socket == [agents |-> {"claude", "codex"}, threads |-> {"hub", "start"}, unix |-> TRUE,
           others |-> TRUE, bridges |-> 2]

VARIABLES
  part,  \* the part that runs
  approvalKeysEntries, approvalKeysNextId, approvalKeysFate, mainDown,
  modsDown, upFor, messages, pressing, pollers, releases, presses,
  held, looks, answers, pressedFor,  \* ApprovalKeys
  approvalSideEntries, approvalSideNextId, approvalSideFate, approvalSideCalls,
  inChanged, keys, revealed, timerFor, timers, visible, forgets, wish,
  choices, page, current, heard, approvalSideEvents, card, inView, reported,
  reports, seen,  \* ApprovalSide
  keychainKey, old, env, carry, keychainCall, faults, writes,
  promised, stale,  \* Keychain
  setting, events, loading, want, registered, calls, holder,
  clash, rebinds, mounts,  \* Hotkeys
  hook, conn, up, agentBridgeFile, starts, agentBridgeInstalled,  \* AgentBridge
  agentEndpointInstalled, pc, mine, other, life, agentEndpointFile,
  sock, removing, removingToo, failed  \* AgentEndpoint

approvalKeysVars == <<approvalKeysEntries, approvalKeysNextId, approvalKeysFate,
  mainDown, modsDown, upFor, messages, pressing, pollers, releases, presses, held,
  looks, answers, pressedFor>>
approvalSideVars == <<approvalSideEntries, approvalSideNextId, approvalSideFate,
  approvalSideCalls, inChanged, keys, revealed, timerFor, timers, visible, forgets,
  wish, choices, page, current, heard, approvalSideEvents, card, inView, reported,
  reports, seen>>
keychainVars == <<keychainKey, old, env, carry, keychainCall, faults, writes,
  promised, stale>>
hotkeysVars == <<setting, events, loading, want, registered, calls,
  holder, clash, rebinds, mounts>>
agentBridgeVars == <<hook, conn, up, agentBridgeFile, starts, agentBridgeInstalled>>
agentEndpointVars == <<agentEndpointInstalled, pc, mine, other, life,
  agentEndpointFile, sock, removing, removingToo, failed>>
vars == <<part, approvalKeysVars, approvalSideVars, keychainVars, hotkeysVars,
  agentBridgeVars, agentEndpointVars>>

K == INSTANCE ApprovalKeysProofs WITH ArmDelay <- 0, Timeout <- 1, MaxRequests <- 2,
       Hold <- 1, MaxPresses <- 1, MaxInFlight <- 1, entries <- approvalKeysEntries,
       nextId <- approvalKeysNextId, fate <- approvalKeysFate
H == INSTANCE ApprovalKeysProofs WITH ArmDelay <- 1, Timeout <- 2, MaxRequests <- 1,
       Hold <- 2, MaxPresses <- 2, MaxInFlight <- 1, entries <- approvalKeysEntries,
       nextId <- approvalKeysNextId, fate <- approvalKeysFate
L == INSTANCE ApprovalSideProofs WITH ArmDelay <- 1, Timeout <- 2, MaxRequests <- 2,
       MaxChoices <- 0, entries <- approvalSideEntries,
       nextId <- approvalSideNextId, fate <- approvalSideFate,
       calls <- approvalSideCalls, events <- approvalSideEvents
S == INSTANCE ApprovalSideProofs WITH ArmDelay <- 1, Timeout <- 2, MaxRequests <- 1,
       MaxChoices <- 1, entries <- approvalSideEntries,
       nextId <- approvalSideNextId, fate <- approvalSideFate,
       calls <- approvalSideCalls, events <- approvalSideEvents
C(k) == INSTANCE Keychain WITH Keys <- k.keys, Threads <- k.threads,
          Exclusive <- k.alone, MaxFaults <- k.faults, MaxWrites <- k.writes,
          key <- keychainKey, call <- keychainCall, None <- NoKey
G(k) == INSTANCE Hotkeys WITH Chords <- k.chords, Debug <- k.debug,
          CardChord <- k.card, Dictation <- "dictation", Command <- "command",
          Default <- k.default, Choices <- k.choices, Overlapping <- k.overlapping,
          MaxRebinds <- k.rebinds, MaxMounts <- k.mounts
B(k) == INSTANCE AgentBridge WITH Hooks <- k.hooks, Sizes <- k.sizes,
          Kinds <- k.kinds, Builds <- k.builds, Parents <- k.parents,
          MacLen <- k.mac, MaxAsk <- k.ask, MaxConnections <- k.connections,
          Handshake <- k.handshake, ServerWait <- k.server, ClientWait <- k.client,
          HookTimeout <- k.timeout, MaxStarts <- k.starts, file <- agentBridgeFile,
          installed <- agentBridgeInstalled
E(k) == INSTANCE AgentEndpoint WITH Agents <- k.agents, Threads <- k.threads,
          Unix <- k.unix, Others <- k.others, MaxBridges <- k.bridges,
          installed <- agentEndpointInstalled, file <- agentEndpointFile

ASSUME DesktopAssumption ==
  /\ K!HoldAssumption
  /\ H!HoldAssumption
  /\ L!ChoiceAssumption
  /\ S!ChoiceAssumption
  /\ C(Moves)!KeychainAssumption
  /\ C(Reads)!KeychainAssumption
  /\ G(Binds)!HotkeysAssumption
  /\ B(Asks)!TimesAssumption /\ B(Asks)!SlotsAssumption
  /\ B(Crowd)!TimesAssumption /\ B(Crowd)!SlotsAssumption
  /\ E(Pipe)!EndpointAssumption
  /\ E(Socket)!EndpointAssumption

(* Each part in its initial states; the parts that do not run rest in one  *)
(* of them.                                                                *)
Init ==
  /\ part \in Parts
  /\ CASE part = "hold" -> H!Init
       [] OTHER -> K!Init
  /\ CASE part = "live" -> L!Init /\ ~visible
       [] part = "side" -> S!Init
       [] OTHER -> L!Init
  /\ part \notin {"live", "side"} => visible
  /\ CASE part = "reads" -> C(Reads)!Init
       [] OTHER -> C(Moves)!Init
  /\ part \notin {"keychain", "reads"} => old = NoKey /\ env = NoKey /\ ~carry
  /\ G(Binds)!Init
  /\ part # "hotkeys" =>
       setting = DefaultChords /\ \A c \in {"f8", "f9"} : holder[c] = "free"
  /\ CASE part = "cap" -> B(Crowd)!Init
       [] OTHER -> B(Asks)!Init
  /\ CASE part = "others" -> E(Socket)!Init
       [] OTHER -> E(Pipe)!Init
  /\ part \notin {"listener", "others"} =>
       agentEndpointInstalled = {} /\ pc["hub"] = "look"

Next ==
  /\ UNCHANGED part
  /\ CASE part = "keys" -> K!Next
       [] part = "hold" -> H!Next
       [] OTHER -> UNCHANGED approvalKeysVars
  /\ CASE part = "live" -> L!Next
       [] part = "side" -> S!Next
       [] OTHER -> UNCHANGED approvalSideVars
  /\ CASE part = "keychain" -> C(Moves)!Next
       [] part = "reads" -> C(Reads)!Next
       [] OTHER -> UNCHANGED keychainVars
  /\ IF part = "hotkeys" THEN G(Binds)!Next ELSE UNCHANGED hotkeysVars
  /\ CASE part = "bridge" -> B(Asks)!Next
       [] part = "cap" -> B(Crowd)!Next
       [] OTHER -> UNCHANGED agentBridgeVars
  /\ CASE part = "listener" -> E(Pipe)!Next
       [] part = "others" -> E(Socket)!Next
       [] OTHER -> UNCHANGED agentEndpointVars

(* Each part with the fairness of its own specification.                   *)
Fairness ==
  /\ WF_approvalKeysVars(part = "hold" /\ H!TimePasses)
  /\ \A press \in H!Press :
       /\ WF_approvalKeysVars(part = "hold" /\ H!Look([press |-> press, saw |-> "nothing"]))
       /\ \A saw \in {"down", "up"} :
            WF_approvalKeysVars(part = "hold" /\ H!Check([press |-> press, saw |-> saw]))
  /\ WF_approvalSideVars(part = "live" /\ L!ChangedStep)
  /\ \A id \in L!Id : WF_approvalSideVars(part = "live" /\ L!TimerFires(id))
  /\ WF_approvalSideVars(part = "live" /\ L!TimePasses)
  /\ WF_agentBridgeVars(part = "bridge" /\ B(Asks)!Tick)
  /\ WF_agentBridgeVars(part = "bridge" /\ B(Asks)!HookStep("h1"))
  /\ WF_agentBridgeVars(part = "bridge" /\ B(Asks)!ServerStep("h1"))

Spec == Init /\ [][Next]_vars /\ Fairness

-----------------------------------------------------------------------------
(* A hold allows the request the chord was pressed for, and no other       *)
(* (spawn_hold, HoldCheck::Allow).                                         *)
AllowsWhatWasPressedFor ==
  /\ (part = "keys" => K!KeysTypeOK)
  /\ (part = "keys" => K!AllowsWhatWasPressedFor)
  /\ (part = "hold" => H!KeysTypeOK)
  /\ (part = "hold" => H!AllowsWhatWasPressedFor)

(* Once every call of `changed` has returned, hotkeys, timer, card and     *)
(* overlay agree with the queue, and the overlay is left as the user had   *)
(* it.                                                                     *)
InLineWithQueue ==
  /\ (part = "live" => L!SideTypeOK)
  /\ (part = "live" => L!InLineWithQueue)
  /\ (part = "live" => L!CardInLine)
  /\ (part = "live" => L!OverlayAsTheUserLeftIt)
  /\ (part = "side" => S!SideTypeOK)
  /\ (part = "side" => S!InLineWithQueue)
  /\ (part = "side" => S!CardInLine)

(* What is allowed was in view for the arm delay, and what the card shows  *)
(* as armed can be allowed: the two clocks never contradict each other.    *)
AllowedWasSeen ==
  /\ (part = "live" => L!AllowedWasSeen)
  /\ (part = "live" => L!ArmedCanBeAllowed)
  /\ (part = "side" => S!AllowedWasSeen)
  /\ (part = "side" => S!ArmedCanBeAllowed)

(* Moving a key loses neither it nor a newer one, leaves no copy that a    *)
(* removal does not reach, and brings no removed key back.                 *)
KeychainInv ==
  /\ (part = "keychain" => C(Moves)!KeyIsKept)
  /\ (part = "keychain" => C(Moves)!NoStaleCopy)
  /\ (part = "reads" => C(Reads)!KeychainInv)

(* Once the calls are answered, the chords are those of the last setting,  *)
(* none fires nothing, and dictation has one that can be had.              *)
HotkeysInv == part = "hotkeys" => G(Binds)!HotkeysInv

(* A hook's decision is the one the user made for its request, what it     *)
(* says goes only to the Ottid of its file and is admitted there, and it   *)
(* gives up before its agent does; a listener runs exactly while a hook is *)
(* installed.                                                              *)
BridgeInv ==
  /\ (part = "bridge" => B(Asks)!BridgeInv)
  /\ (part = "cap" => B(Crowd)!BridgeInv)
  /\ (part = "listener" => E(Pipe)!ListenerInv)
  /\ (part = "others" => E(Socket)!BrokerTypeOK)
  /\ (part = "others" => E(Socket)!NoTokenLeftBehind)

(* A user who has let go of any key of the chord does not allow, whatever  *)
(* became of the release event (the doc of Hold).                          *)
LetGoNeverAllows == H!LetGoNeverAllows

(* No press is left waiting and no request is left on the screen.          *)
CardEnds ==
  /\ (part = "hold" => H!EveryHoldEnds)
  /\ (part = "live" => L!ShownRequestEnds)

(* The old entry stays where it is not carried over, a read returns what   *)
(* is stored, the card keeps its chord, a hook is turned away only at the  *)
(* cap; and every hook, slot and card of an agent goes.                    *)
DesktopBehaviour ==
  /\ [][C(Moves)!OldStays]_keychainVars
  /\ [][part = "reads" => C(Reads)!ReadIsStored]_keychainVars
  /\ [][G(Binds)!CardKeepsItsChord]_hotkeysVars
  /\ [][part = "cap" => B(Crowd)!TurnedAwayOnlyAtCap]_agentBridgeVars
  /\ (part = "bridge" => B(Asks)!CardComesDown)
  /\ (part = "bridge" => B(Asks)!SlotsComeBack)
  /\ (part = "bridge" => B(Asks)!HooksEnd)

(* A key the user has and did not replace or remove is in one of the       *)
(* entries.                                                                *)
KeyIsKept == part = "keychain" => C(Moves)!KeyIsKept
==============================================================================
