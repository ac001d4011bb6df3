------------------------------- MODULE MCVoice -------------------------------
(***************************************************************************)
(* What a spoken take goes through: the microphone, the detector of its    *)
(* end, the worker that types it, the process that transcribes it, the     *)
(* wake words that open it and the mute of Discord. The parts share no     *)
(* state; a behaviour is one of a single part, and the run takes each in   *)
(* turn.                                                                   *)
(***************************************************************************)
EXTENDS Naturals, Sequences, FiniteSets

CONSTANTS
  Parts,          \* the parts the run takes
  None,
  Modes, MaxFailures, MaxTake, MaxCommands,      \* of Dictation
  Silence, Hold, MinSpeech, NoSpeech, Margin,
  MaxFrames, MaxTakes                            \* of Endpoint

VARIABLES
  part,  \* the part that runs
  dictationPc, dictationQueue, sent, dictationOpen, failures, mode,
  suppress, lease, mic, dictationGate, vad, spoken, ticks,
  dictationShown, clip, saved, spoilt, wake,  \* Dictation
  stream, microphoneOpen, rate, pos, pending, ready, buffer, cursor,
  microphoneHeard, take, fed,  \* Microphone
  e, context, takes, endpointHeard, judged,  \* Endpoint
  settings, installed, generation, listening, wakeWordShown, worker,
  wakeWordGate, chunks, fired,  \* WakeWord
  discordMutePc, helper, active, down, setup, alive, begun,  \* DiscordMute
  procs, slot, sidecarQueue, call, spawns, calls, app  \* Sidecar

dictationVars == <<dictationPc, dictationQueue, sent, dictationOpen, failures, mode,
  suppress, lease, mic, dictationGate, vad, spoken, ticks, dictationShown, clip,
  saved, spoilt, wake>>
microphoneVars == <<stream, microphoneOpen, rate, pos, pending, ready, buffer,
  cursor, microphoneHeard, take, fed>>
endpointVars == <<e, context, takes, endpointHeard, judged>>
wakeWordVars == <<settings, installed, generation, listening, wakeWordShown, worker,
  wakeWordGate, chunks, fired>>
discordMuteVars == <<discordMutePc, helper, active, down, setup, alive, begun>>
sidecarVars == <<procs, slot, sidecarQueue, call, spawns, calls, app>>
vars == <<part, dictationVars, microphoneVars, endpointVars, wakeWordVars,
  discordMuteVars, sidecarVars>>

(* The wake words while settings are saved, and while they are heard; and  *)
(* the sidecar of calls that end, and one whose pipe they fill.            *)
Reloads == [models |-> {"a"}, keep |-> 1, reloads |-> 2, chunks |-> 0]
Hears == [models |-> {"a", "b"}, keep |-> 2, reloads |-> 2, chunks |-> 8]
Drains == [callers |-> {"final", "preview"}, pipe |-> 4, spawns |-> 2, calls |-> 3]
Fills ==
  [callers |-> {"debug", "final", "preview"}, pipe |-> 1, spawns |-> 2, calls |-> 2]

D == INSTANCE Dictation WITH pc <- dictationPc, queue <- dictationQueue,
       open <- dictationOpen, gate <- dictationGate, shown <- dictationShown
M == INSTANCE Microphone WITH Rates <- {<<3, 1>>, <<3, 2>>, <<1, 1>>, <<1, 2>>},
       MaxChunk <- 3, MaxSamples <- 6, MaxStreams <- 2, open <- microphoneOpen,
       heard <- microphoneHeard
E == INSTANCE Endpoint WITH heard <- endpointHeard
W(k) == INSTANCE WakeWord WITH Models <- k.models, Keep <- k.keep,
          MaxReloads <- k.reloads, MaxChunks <- k.chunks, shown <- wakeWordShown,
          gate <- wakeWordGate
Q == INSTANCE DiscordMute WITH Takers <- {"worker", "test"}, Setups <- {"setup"},
       MaxLeases <- 4, pc <- discordMutePc
S(k) == INSTANCE Sidecar WITH Callers <- k.callers, Pipe <- k.pipe, MaxSpawns <- k.spawns,
          MaxCalls <- k.calls, None <- None, queue <- sidecarQueue,
          Scripts <- {<<"noise", "token", "port">>, <<"port", "token">>, <<"token">>}

ASSUME VoiceAssumption ==
  /\ D!DictationAssumption
  /\ E!EndpointAssumption
  /\ W(Reloads)!WakeAssumption
  /\ W(Hears)!WakeAssumption
  /\ S(Drains)!PipeAssumption
  /\ S(Fills)!PipeAssumption

(* Each part in its initial states; the parts that do not run rest in one  *)
(* of them.                                                                *)
Init ==
  /\ part \in Parts
  /\ D!Init
  /\ part # "dictation" => suppress /\ vad = "running" /\ clip = "text"
  /\ M!Init
  /\ part # "microphone" => rate = <<1, 1>>
  /\ E!Init
  /\ CASE part = "hear" -> W(Hears)!Init /\ installed = {"a", "b"}
                  /\ settings \in [W(Hears)!SlotModes -> [enabled : {TRUE}, model : {"a", "b"}]]
       [] OTHER -> W(Reloads)!Init
  /\ part \notin {"wake", "hear"} =>
       installed = {} /\ settings =
         [s \in W(Reloads)!SlotModes |-> [enabled |-> FALSE, model |-> W(Reloads)!NoModel]]
  /\ Q!Init
  /\ CASE part = "sidecar" -> S(Fills)!Init
       [] OTHER -> S(Drains)!Init

Next ==
  /\ UNCHANGED part
  /\ IF part = "dictation" THEN D!Next ELSE UNCHANGED dictationVars
  /\ IF part = "microphone" THEN M!Next ELSE UNCHANGED microphoneVars
  /\ IF part = "endpoint" THEN E!Next ELSE UNCHANGED endpointVars
  /\ CASE part = "wake" -> W(Reloads)!Next /\ UNCHANGED wakeWordGate
       [] part = "hear" -> W(Hears)!Next /\ UNCHANGED settings /\ generation' <= 1
       [] OTHER -> UNCHANGED wakeWordVars
  /\ IF part = "discord" THEN Q!Next
     ELSE UNCHANGED discordMuteVars
  /\ CASE part = "ends" -> S(Drains)!Next
       [] part = "sidecar" -> S(Fills)!Next
       [] OTHER -> UNCHANGED sidecarVars

(* Each part with the fairness of its own specification.                   *)
Fairness ==
  /\ WF_dictationVars(part = "dictation" /\ D!Worker)
  /\ \A g \in 1..2 : WF_wakeWordVars(part = "wake" /\ W(Reloads)!Exit(g))
  /\ \A t \in {"worker", "test"} :
       /\ WF_discordMuteVars(part = "discord" /\ Q!Helper(t))
       /\ WF_discordMuteVars(part = "discord" /\ Q!Dropping(t))
  /\ \A c \in {"final", "preview"} :
       /\ WF_sidecarVars(part = "ends" /\ S(Drains)!Finds(c))
       /\ WF_sidecarVars(part = "ends" /\ S(Drains)!Handshakes(c))
       /\ WF_sidecarVars(part = "ends" /\ S(Drains)!Connect(c))
       /\ WF_sidecarVars(part = "ends" /\ S(Drains)!Answers(c))

Spec == Init /\ [][Next]_vars /\ Fairness

-----------------------------------------------------------------------------
(* Whichever of its exits a take leaves by, the worker rests with all it   *)
(* took given back and the clipboard is the user's; and the detector ends  *)
(* a take by the rule on its whole history, its speech kept.               *)
TakeInv ==
  /\ (part = "dictation" => D!DictationInv)
  /\ (part = "endpoint" => E!EndpointInv)

(* The microphone gives the whole take once, resampled as one stream.      *)
HearingInv == part = "microphone" => M!MicrophoneInv

(* The wake words over reloads, superseded workers and takes: what is      *)
(* shown as armed, scored and fired is the current worker's and of one     *)
(* side of the gate.                                                       *)
WakeInv ==
  /\ (part = "wake" => W(Reloads)!WakeInv)
  /\ (part = "hear" => W(Hears)!WakeInv)

(* The processes of a take: the Discord key is down only while a helper    *)
(* holds it, a sidecar is called with its own token, and no helper or      *)
(* sidecar is left behind.                                                 *)
HelpersInv ==
  /\ (part = "discord" => Q!DiscordInv)
  /\ (part = "sidecar" => S(Fills)!SidecarInv)
  /\ (part = "ends" => S(Drains)!SidecarInv)

(* A lease taken is kept until its take ends, a stop returns the whole     *)
(* take, and all that is begun ends: takes, superseded workers, held keys, *)
(* calls of the sidecar.                                                   *)
VoiceBehaviour ==
  /\ D!LeaseKept
  /\ M!TakeIsWhole
  /\ (part = "dictation" => D!TakeEnds)
  /\ (part = "wake" => W(Reloads)!SupersededLeaves)
  /\ (part = "discord" => Q!KeyComesUp)
  /\ (part = "ends" => S(Drains)!SidecarCallsEnd)
==============================================================================
