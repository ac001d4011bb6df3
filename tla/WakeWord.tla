------------------------------ MODULE WakeWord ------------------------------
(***************************************************************************)
(* The wake-word worker (apps/desktop/src-tauri/src/wakeword.rs) and the   *)
(* pure parts of packages/shared-rust/src/wake.rs: the slots it loads from *)
(* the settings, the rolling audio each slot scores, the debounced trigger *)
(* and the armed state that workers of successive generations report.      *)
(***************************************************************************)
EXTENDS Naturals, Sequences, FiniteSets

CONSTANTS
  Models,      \* classifiers the settings may name
  Keep,        \* AUDIO_KEEP, in chunks: less than this and the score is 0
  MaxReloads,  \* bound: generations
  MaxChunks    \* bound: chunks heard in a behaviour

SlotModes == {"dictation", "command"}

VARIABLES
  settings,    \* [enabled, model] of each slot, as the store has them
  installed,   \* classifiers on disk
  generation, listening,   \* Armed
  shown,       \* the last wake:armed event (the overlay's belief)
  worker,      \* generation -> [pc, running, slots, suspended, opened]
  gate,        \* is_capturing or is_speaking
  chunks,      \* chunks delivered so far
  fired        \* detections: the slot and the chunks its score was made of

vars == <<settings, installed, generation, listening, shown, worker, gate, chunks, fired>>

NoModel == "none"
Gens == 1..MaxReloads

WakeAssumption ==
  /\ NoModel \notin Models /\ Keep \in Nat \ {0}
  /\ MaxReloads \in Nat /\ MaxChunks \in Nat

(* A slot: its classifier, the chunks in its rolling buffer (each with     *)
(* whether the gate was up when it was captured), and its Trigger.         *)
NewSlot(m) == [model |-> m, audio |-> <<>>, over |-> 0, fired |-> FALSE, now |-> FALSE]
NoSlots == [s \in {} |-> NewSlot(NoModel)]

Idle == [pc |-> "none", running |-> "no", slots |-> NoSlots, suspended |-> FALSE]

Init ==
  /\ settings \in [SlotModes -> [enabled : BOOLEAN, model : Models \cup {NoModel}]]
  /\ installed \in SUBSET Models
  /\ generation = 0 /\ listening = FALSE /\ shown = FALSE
  /\ worker = [g \in Gens |-> Idle] /\ gate = FALSE /\ chunks = 0 /\ fired = {}

(* Armed::report: only the current generation, only a change; the event is *)
(* emitted under the same lock.                                            *)
Mut_Report(g, on) == listening' = on /\ shown' = on
Report(g, on) ==
  IF g # generation \/ on = listening THEN UNCHANGED <<listening, shown>>
  ELSE listening' = on /\ shown' = on

(* WakeController::reload, called when the settings were saved; the thread *)
(* may fail to start.  A superseded worker may be inside recv_timeout: it  *)
(* still handles one chunk ("last") before it looks at its flag.           *)
Mut_Superseded == worker
Superseded == [g \in Gens |-> 
                  [worker[g] EXCEPT !.running = IF @ = "yes" THEN "last" ELSE @]]

Reload(spawned) ==
  /\ generation < MaxReloads /\ generation' = generation + 1
  /\ worker' = [Superseded EXCEPT ![generation'] =
                  IF spawned THEN [Idle EXCEPT !.pc = "load", !.running = "yes"] ELSE Idle]
  /\ IF spawned \/ ~listening THEN UNCHANGED <<listening, shown>>
                              ELSE listening' = FALSE /\ shown' = FALSE
  /\ UNCHANGED <<settings, installed, gate, chunks, fired>>

Save(s, on, m) ==
  /\ settings' = [settings EXCEPT ![s] = [enabled |-> on, model |-> m]]
  /\ UNCHANGED <<installed, generation, listening, shown, worker, gate, chunks, fired>>

(* SlotEngine::load for each slot; the command slot is off when it names   *)
(* the classifier of an enabled dictation slot.                            *)
Loads(s) == settings[s].enabled /\ settings[s].model \in installed

Mut_LoadedModes == {s \in SlotModes : Loads(s)}
LoadedModes ==
  LET d == settings["dictation"]
      c == settings["command"]
      same == d.enabled /\ c.enabled /\ d.model # NoModel /\ d.model = c.model
  IN {s \in SlotModes : Loads(s) /\ ~(s = "command" /\ same)}

At(g, pc) == worker[g].pc = pc
Stops(g) == worker' = [worker EXCEPT ![g].pc = "stopping"]

Mut_Load(g) ==
  /\ At(g, "load")
  /\ worker' = [worker EXCEPT ![g].slots = [s \in LoadedModes |-> NewSlot(settings[s].model)],
                              ![g].pc = IF LoadedModes = {} THEN "idle" ELSE "open"]
  /\ UNCHANGED <<settings, installed, generation, listening, shown, gate, chunks, fired>>
Load(g) ==
  /\ At(g, "load")
  /\ worker' = [worker EXCEPT ![g].slots =
                  [s \in LoadedModes |-> NewSlot(settings[s].model)],
                              ![g].pc = IF LoadedModes = {} THEN "stopping" ELSE "open"]
  /\ UNCHANGED <<settings, installed, generation, listening, shown, gate, chunks, fired>>

OpenMic(g, ok) ==
  /\ At(g, "open")
  /\ IF ok THEN Report(g, TRUE) /\ worker' = [worker EXCEPT ![g].pc = "listen"]
           ELSE Stops(g) /\ UNCHANGED <<listening, shown>>
  /\ UNCHANGED <<settings, installed, generation, gate, chunks, fired>>

(* The running flag went down, or the stream ended.                        *)
Leave(g) ==
  /\ At(g, "listen") /\ Stops(g)
  /\ UNCHANGED <<settings, installed, generation, listening, shown, gate, chunks, fired>>

(* The drop guard reports, whichever way the worker left.                  *)
StoppedListening(g) ==
  /\ At(g, "stopping") /\ worker' = [worker EXCEPT ![g] = Idle] /\ Report(g, FALSE)
  /\ UNCHANGED <<settings, installed, generation, gate, chunks, fired>>

SetGate ==
  /\ gate' = ~gate
  /\ UNCHANGED <<settings, installed, generation, listening, shown, worker, chunks, fired>>

(* WakeWord::observe keeps the last Keep chunks; until they fill, the      *)
(* score is 0.  Trigger::observe debounces: two scores in a row, then      *)
(* nothing until one falls below the threshold.                            *)
Rolled(audio, c) == IF Len(audio) = Keep THEN Append(Tail(audio), c) ELSE Append(audio, c)

Mut_Fires(t) == t.over >= 2
Fires(t) == t.over >= 2 /\ ~t.fired

Scored(slot, c, high) ==
  LET audio == Rolled(slot.audio, c)
      over == IF high /\ Len(audio) = Keep THEN slot.over + 1 ELSE 0
      t == [slot EXCEPT !.audio = audio, !.over = over,
                        !.fired = IF over = 0 THEN FALSE ELSE @]
  IN [t EXCEPT !.fired = @ \/ Fires(t), !.now = Fires(t)]

Mut_ResetSlots(w) == [w EXCEPT !.suspended = TRUE]
ResetSlots(w) ==
  [w EXCEPT !.suspended = TRUE,
            !.slots = [s \in DOMAIN w.slots |-> [w.slots[s] EXCEPT !.audio = <<>>]]]

(* One chunk from the microphone; "high" are the slots whose classifier    *)
(* would score this audio over its threshold.                              *)
Chunk(g, high) ==
  /\ At(g, "listen") /\ worker[g].running # "no" /\ chunks < MaxChunks
  /\ chunks' = chunks + 1
  /\ LET w == [worker[g] EXCEPT !.running = IF @ = "last" THEN "no" ELSE @]
         after == [s \in DOMAIN w.slots |-> Scored(w.slots[s], chunks', s \in high)]
     IN IF gate
        THEN /\ worker' = [worker EXCEPT ![g] = IF w.suspended THEN w ELSE ResetSlots(w)]
             /\ UNCHANGED fired
        ELSE /\ worker' = [worker EXCEPT ![g] = [w EXCEPT !.slots = after, !.suspended = FALSE]]
             /\ fired' = fired \cup {[gen |-> g, slot |-> s, from |-> Head(after[s].audio),
                                      at |-> chunks'] :
                                       s \in {x \in DOMAIN after : after[x].now}}
  /\ UNCHANGED <<settings, installed, generation, listening, shown, gate>>

WorkerStep(g) ==
  \/ Load(g) \/ Leave(g) \/ StoppedListening(g)
  \/ \E ok \in BOOLEAN : OpenMic(g, ok)
  \/ \E high \in SUBSET SlotModes : Chunk(g, high)

Next ==
  \/ \E ok \in BOOLEAN : Reload(ok)
  \/ \E s \in SlotModes, on \in BOOLEAN, m \in Models \cup {NoModel} : Save(s, on, m)
  \/ SetGate
  \/ \E g \in Gens : WorkerStep(g)

(* The worker wakes at least every POLL: a superseded one leaves, and one  *)
(* that is leaving reports.                                                *)
Exit(g) == Load(g) \/ (worker[g].running # "yes" /\ Leave(g)) \/ StoppedListening(g)
           \/ \E ok \in BOOLEAN : OpenMic(g, ok)
Spec == Init /\ [][Next]_vars /\ \A g \in Gens : WF_vars(Exit(g))

-----------------------------------------------------------------------------
(* Types: each worker stands at one of its steps, with slots of the two    *)
(* modes.                                                                  *)
WakeTypeOK ==
  /\ generation \in 0..MaxReloads /\ {listening, shown, gate} \subseteq BOOLEAN
  /\ \A g \in Gens : /\ worker[g].pc \in {"none", "load", "open", "listen", "stopping"}
                     /\ DOMAIN worker[g].slots \subseteq SlotModes

(* Whatever superseded workers still do, armed is never shown while no     *)
(* worker of the current generation listens, except while it is still      *)
(* coming up after a reload; and never contradicts the event.              *)
ArmedIsTrue ==
  /\ shown = listening
  /\ (listening /\ generation > 0) =>
       worker[generation].pc \in {"load", "open", "listen", "stopping"}
  /\ (~listening /\ generation > 0) => worker[generation].pc # "listen"

(* One generation owns the microphone: a worker that was superseded stops  *)
(* by itself.                                                              *)
SupersededLeaves ==
  \A g \in Gens : (At(g, "listen") /\ g < generation) ~> ~At(g, "listen")

(* The same classifier never drives both slots: one utterance would open a *)
(* take of each mode, and the second press would end the first.            *)
SlotsAreApart ==
  \A g \in Gens : LET w == worker[g] IN
    \A s, t \in DOMAIN w.slots : w.slots[s].model = w.slots[t].model => s = t

(* A detection is never made of audio from both sides of a take: the       *)
(* chunks it was scored on are consecutive.                                *)
NoAudioAcrossTheGate == \A f \in fired : f.at - f.from = Keep - 1

(* One utterance fires once: between two detections of a slot its score    *)
(* fell below the threshold, so they are at least three chunks apart.      *)
FiresOncePerUtterance ==
  \A f, h \in fired : (f.gen = h.gen /\ f.slot = h.slot /\ f.at < h.at) => h.at - f.at >= 3

(* Over reloads, superseded workers and takes: armed is shown as it is,    *)
(* two slots never share a model, no audio is scored across a take, and an *)
(* utterance fires once.                                                   *)
WakeInv ==
  /\ WakeTypeOK
  /\ ArmedIsTrue
  /\ SlotsAreApart
  /\ NoAudioAcrossTheGate
  /\ FiresOncePerUtterance
=============================================================================
