----------------------------- MODULE Dictation -----------------------------
(***************************************************************************)
(* The dictation worker (apps/desktop/src-tauri/src/dictation.rs): the     *)
(* model wait, the queue of key commands, one take from the press that     *)
(* opens it to the text pasted at the cursor (inject.rs), the suppression  *)
(* lease it may need (discord_mute.rs) and the capture gate the wake-word  *)
(* worker reads.  Streaming re-decodes are module Streaming, the detector  *)
(* is module Endpoint, the lease's helper process is module DiscordMute.   *)
(***************************************************************************)
EXTENDS Naturals, Sequences

CONSTANTS
  Modes,          \* the take modes: "Inject" and, in command builds, "Command"
  MaxFailures,    \* MAX_SIDECAR_FAILURES
  MaxTake,        \* MAX_TAKE, in ticks of the capture loop
  MaxCommands     \* bound: key and wake commands in a behaviour

DictationAssumption ==
  /\ Modes \subseteq {"Inject", "Command"} /\ "Inject" \in Modes
  /\ {MaxFailures, MaxTake, MaxCommands} \subseteq Nat \ {0}

VARIABLES
  pc,         \* where run_worker stands
  queue,      \* the channel: commands not yet received
  sent,       \* commands sent so far (bounds the run)
  open,       \* the channel still has its sender
  failures,   \* unreachable_polls of wait_for_model
  mode,       \* the open take's mode
  suppress,   \* the user asked for Discord suppression
  lease,      \* the worker holds a suppression lease
  mic,        \* AudioCapture's stream runs
  gate,       \* Gates.is_capturing
  vad,        \* the detector: "none", "running", "failed"
  spoken,     \* Endpointer.heard_speech
  ticks,      \* capture-loop timeouts in this take
  shown,      \* the last dictation:state emitted
  clip,       \* what the clipboard holds
  saved,      \* ClipboardSnapshot
  spoilt,     \* the user's clipboard could not be given back (for ClipboardBack)
  wake        \* wake detections whose trigger is still deferred

vars == <<pc, queue, sent, open, failures, mode, suppress, lease, mic, gate,
          vad, spoken, ticks, shown, clip, saved, spoilt, wake>>
take == <<mode, lease, mic, vad, spoken, ticks>>
board == <<clip, saved, spoilt>>

Mut_Press(m, by) == [kind |-> "press", mode |-> by, by |-> by]
Press(m, by) == [kind |-> "press", mode |-> m, by |-> by]
Release == [kind |-> "release", mode |-> "Inject", by |-> "key"]
Commands == {Press(m, by) : m \in Modes, by \in {"key", "wake"}} \cup {Release}

States == {"preparing", "idle", "capturing", "transcribing", "error"}
Contents == {"text", "image", "other", "transcript"}

(* Types: the worker stands at one of its steps, within its bounds.        *)
DictationTypeOK ==
  /\ pc \in {"wait", "poll", "rest", "lease", "start", "gate", "listen", "finish",
             "decode", "deliver", "paste", "restore", "dwell", "gone"}
  /\ queue \in Seq(Commands) /\ sent \in 0..MaxCommands /\ open \in BOOLEAN
  /\ failures \in 0..MaxFailures /\ mode \in Modes /\ ticks \in 0..MaxTake
  /\ {suppress, lease, mic, gate, spoken} \subseteq BOOLEAN
  /\ vad \in {"none", "running", "failed"} /\ shown \in States
  /\ clip \in Contents /\ saved \in Contents \cup {"nothing"}
  /\ wake \in Seq(Modes) /\ spoilt \in BOOLEAN

Init ==
  /\ pc = "wait" /\ queue = <<>> /\ sent = 0 /\ open = TRUE /\ failures = 0
  /\ mode = "Inject" /\ suppress \in BOOLEAN /\ lease = FALSE /\ mic = FALSE
  /\ gate = FALSE /\ vad \in {"none", "running"} /\ spoken = FALSE /\ ticks = 0
  /\ shown = "preparing" /\ clip \in {"text", "other"} /\ saved = "nothing"
  /\ spoilt = FALSE /\ wake = <<>>

-----------------------------------------------------------------------------
(* The senders: the two hotkeys' commands and the wake-word triggers.      *)

Send(c) == /\ open /\ sent < MaxCommands
           /\ queue' = Append(queue, c) /\ sent' = sent + 1

KeyPressed(m) ==
  /\ Send(Press(m, "key"))
  /\ UNCHANGED <<pc, open, failures, take, suppress, gate, shown, board, wake>>

KeyReleased ==
  /\ Send(Release)
  /\ UNCHANGED <<pc, open, failures, take, suppress, gate, shown, board, wake>>

(* A slot fires while the gate is down; the trigger itself is deferred by  *)
(* CHIME_BLEED_GUARD in a task of its own.                                 *)
WakeDetected(m) ==
  /\ ~gate /\ open /\ Len(wake) + sent < MaxCommands
  /\ wake' = Append(wake, m)
  /\ UNCHANGED <<pc, queue, sent, open, failures, take, suppress, gate, shown, board>>

WakeTrigger ==
  /\ wake # <<>> /\ Send(Press(Head(wake), "wake")) /\ wake' = Tail(wake)
  /\ UNCHANGED <<pc, open, failures, take, suppress, gate, shown, board>>

(* The application drops the channel: it is shutting down.                 *)
Close ==
  /\ open /\ open' = FALSE /\ wake' = <<>>
  /\ UNCHANGED <<pc, queue, sent, failures, take, suppress, gate, shown, board>>

(* The user changes discordMute.enabled; before_take reads it per take.    *)
SetSuppress ==
  /\ suppress' = ~suppress
  /\ UNCHANGED <<pc, queue, sent, open, failures, take, gate, shown, board, wake>>

-----------------------------------------------------------------------------
(* wait_for_model: commands are dropped, health is polled.                 *)

Closed == queue = <<>> /\ ~open

WaitDrop ==
  /\ pc = "wait" /\ queue # <<>> /\ queue' = Tail(queue)
  /\ UNCHANGED <<pc, sent, open, failures, take, suppress, gate, shown, board, wake>>

WaitPoll ==
  /\ pc = "wait" /\ queue = <<>> /\ pc' = IF open THEN "poll" ELSE "gone"
  /\ UNCHANGED <<queue, sent, open, failures, take, suppress, gate, shown, board, wake>>

(* The answer: "preparing" (reachable), "down", or an end: ready, failed.  *)
Health(answer) ==
  /\ pc = "poll"
  /\ failures' = CASE answer = "preparing" -> 0
                   [] answer = "down" -> failures + 1
                   [] OTHER -> failures
  /\ IF answer = "end" \/ failures' = MaxFailures
     THEN pc' = "rest" /\ shown' = "idle"
     ELSE pc' = "wait" /\ UNCHANGED shown
  /\ UNCHANGED <<queue, sent, open, take, suppress, gate, board, wake>>

-----------------------------------------------------------------------------
(* run_worker's loop.  Rest is the top of the loop: the gate goes down,    *)
(* and a lease the iteration held has been dropped.                        *)

Mut_BackToRest == pc' = "rest" /\ lease' = FALSE /\ UNCHANGED gate
BackToRest == pc' = "rest" /\ lease' = FALSE /\ gate' = FALSE

Receive ==
  /\ pc = "rest" /\ queue # <<>> /\ queue' = Tail(queue)
  /\ LET c == Head(queue) IN
     IF c.kind = "release" THEN UNCHANGED <<pc, mode>>
                           ELSE pc' = "lease" /\ mode' = c.mode
  /\ UNCHANGED <<sent, open, failures, suppress, lease, mic, gate, vad, spoken,
                 ticks, shown, board, wake>>

Shutdown ==
  /\ pc = "rest" /\ Closed /\ pc' = "gone"
  /\ UNCHANGED <<queue, sent, open, failures, take, suppress, gate, shown, board, wake>>

BeforeTake(ok) ==
  /\ pc = "lease"
  /\ IF suppress /\ ~ok
     THEN pc' = "dwell" /\ shown' = "error" /\ UNCHANGED lease
     ELSE pc' = "start" /\ lease' = suppress /\ UNCHANGED shown
  /\ UNCHANGED <<queue, sent, open, failures, mode, suppress, mic, gate, vad,
                 spoken, ticks, board, wake>>

CaptureStart(ok) ==
  /\ pc = "start"
  /\ IF ok THEN pc' = "gate" /\ mic' = TRUE /\ UNCHANGED <<lease, gate, shown>>
           ELSE BackToRest /\ shown' = "idle" /\ UNCHANGED mic
  /\ UNCHANGED <<queue, sent, open, failures, mode, suppress, vad, spoken, ticks,
                 board, wake>>

Mut_RaiseGate ==
  /\ pc = "gate" /\ pc' = "listen" /\ shown' = "capturing"
  /\ spoken' = FALSE /\ ticks' = 0 /\ vad' = IF vad = "none" THEN "none" ELSE "running"
  /\ UNCHANGED <<queue, sent, open, failures, mode, suppress, lease, mic, gate, board, wake>>
RaiseGate ==
  /\ pc = "gate" /\ pc' = "listen" /\ gate' = TRUE /\ shown' = "capturing"
  /\ spoken' = FALSE /\ ticks' = 0 /\ vad' = IF vad = "none" THEN "none" ELSE "running"
  /\ UNCHANGED <<queue, sent, open, failures, mode, suppress, lease, mic, board, wake>>

(* listen: any press ends the take, whatever its mode; the tap's key-up    *)
(* does not.                                                               *)
Hear ==
  /\ pc = "listen" /\ queue # <<>> /\ queue' = Tail(queue)
  /\ pc' = IF Head(queue).kind = "press" THEN "finish" ELSE "listen"
  /\ UNCHANGED <<sent, open, failures, take, suppress, gate, shown, board, wake>>

Disconnected ==
  /\ pc = "listen" /\ Closed /\ pc' = "finish"
  /\ UNCHANGED <<queue, sent, open, failures, take, suppress, gate, shown, board, wake>>

(* The backstop on a take's length.                                        *)
Mut_Capped == FALSE
Capped == ticks' >= MaxTake

(* A timeout of the command channel: the chunk goes through the detector,  *)
(* which may hear speech, end the take or fail; then the cap.              *)
Tick(heard, outcome) ==
  /\ pc = "listen" /\ queue = <<>> /\ open /\ ticks < MaxTake /\ ticks' = ticks + 1
  /\ (vad # "running") => (outcome = "go" /\ ~heard)
  /\ spoken' = (spoken \/ heard)
  /\ vad' = IF outcome = "fail" THEN "failed" ELSE vad
  /\ pc' = IF outcome = "end" \/ Capped THEN "finish" ELSE "listen"
  /\ UNCHANGED <<queue, sent, open, failures, mode, suppress, lease, mic, gate,
                 shown, board, wake>>

(* finish_take and the quarter-second floor: without a detector the whole  *)
(* take stands, with one it must have heard speech.                        *)
Mut_Worth(long) == long
Worth(long) == long /\ (vad = "running" => spoken)

FinishTake(long) ==
  /\ pc = "finish" /\ mic' = FALSE
  /\ IF Worth(long)
     THEN pc' = "decode" /\ shown' = "transcribing" /\ UNCHANGED <<lease, gate>>
     ELSE BackToRest /\ shown' = "idle"
  /\ UNCHANGED <<queue, sent, open, failures, mode, suppress, vad, spoken, ticks,
                 board, wake>>

Fail == pc' = "dwell" /\ shown' = "error"

Mut_Decode(ok) ==
  /\ pc = "decode" /\ lease' = FALSE
  /\ IF ok THEN pc' = "deliver" /\ UNCHANGED shown ELSE Fail
  /\ UNCHANGED <<queue, sent, open, failures, mode, suppress, mic, vad, spoken, ticks,
                 gate, board, wake>>
Decode(ok) ==
  /\ pc = "decode"
  /\ IF ok THEN pc' = "deliver" /\ UNCHANGED shown ELSE Fail
  /\ UNCHANGED <<queue, sent, open, failures, take, suppress, gate, board, wake>>

(* The text goes to the command dispatcher, or to the clipboard to be      *)
(* pasted; an empty one is not pasted.                                     *)
Dispatch ==
  /\ pc = "deliver" /\ mode = "Command" /\ shown' = "idle" /\ BackToRest
  /\ UNCHANGED <<queue, sent, open, failures, mode, suppress, mic, vad, spoken,
                 ticks, board, wake>>

Mut_Snapshot == clip' = "transcript" /\ saved' = clip'
Snapshot == saved' = clip /\ clip' = "transcript"

Inject(empty, ok) ==
  /\ pc = "deliver" /\ mode = "Inject"
  /\ CASE empty -> shown' = "idle" /\ BackToRest /\ UNCHANGED board
       [] ~empty /\ ok -> /\ Snapshot /\ pc' = "paste" /\ UNCHANGED <<lease, gate, shown, spoilt>>
       [] OTHER -> Fail /\ UNCHANGED <<lease, gate, board>>
  /\ UNCHANGED <<queue, sent, open, failures, mode, suppress, mic, vad, spoken,
                 ticks, wake>>

Paste(ok) ==
  /\ pc = "paste"
  /\ IF ok THEN pc' = "restore" /\ UNCHANGED <<shown, spoilt>> ELSE Fail /\ spoilt' = TRUE
  /\ UNCHANGED <<queue, sent, open, failures, take, suppress, gate, clip, saved, wake>>

Restore ==
  /\ pc = "restore" /\ shown' = "idle" /\ BackToRest
  /\ clip' = IF saved = "other" THEN clip ELSE saved
  /\ saved' = "nothing" /\ spoilt' = (spoilt \/ saved = "other")
  /\ UNCHANGED <<queue, sent, open, failures, mode, suppress, mic, vad, spoken,
                 ticks, wake>>

(* signal_error's dwell ends.                                              *)
DwellEnds ==
  /\ pc = "dwell" /\ shown' = "idle" /\ BackToRest /\ saved' = "nothing"
  /\ UNCHANGED <<queue, sent, open, failures, mode, suppress, mic, vad, spoken,
                 ticks, clip, spoilt, wake>>

-----------------------------------------------------------------------------
Listening ==
  \/ Hear \/ Disconnected
  \/ \E heard \in BOOLEAN, outcome \in {"go", "end", "fail"} : Tick(heard, outcome)

Worker ==
  \/ WaitDrop \/ WaitPoll \/ \E answer \in {"preparing", "down", "end"} : Health(answer)
  \/ Receive \/ Shutdown \/ RaiseGate \/ Listening \/ Dispatch \/ Restore \/ DwellEnds
  \/ \E ok \in BOOLEAN : \/ BeforeTake(ok) \/ CaptureStart(ok) \/ FinishTake(ok)
                         \/ Decode(ok) \/ Paste(ok)
                         \/ \E empty \in BOOLEAN : Inject(empty, ok)

Environment ==
  \/ \E m \in Modes : KeyPressed(m) \/ WakeDetected(m)
  \/ KeyReleased \/ WakeTrigger \/ Close \/ SetSuppress

Next == Worker \/ Environment

(* The worker is a thread that never blocks outside recv, the sidecar call *)
(* (which has a timeout) and bounded sleeps.                               *)
Spec == Init /\ [][Next]_vars
FairSpec == Spec /\ WF_vars(Worker)

-----------------------------------------------------------------------------
(* The worker never rests (or leaves) with the microphone open, the lease  *)
(* held, the gate up or a stale state shown, by whichever of its dozen     *)
(* exits the take ended.                                                   *)
RestsClean ==
  pc \in {"rest", "gone"} =>
     ~mic /\ ~lease /\ ~gate /\ shown \in {"idle", "preparing"}

(* "Requested suppression unavailable: never start capture"                *)
(* (dictation.rs:370): a microphone that opened under the setting has its  *)
(* lease, and keeps it until the text is delivered, whatever the setting   *)
(* becomes meanwhile.                                                      *)
LeaseKept == [][(lease /\ ~lease') => pc' = "rest" /\ ~mic']_vars

(* The wake gate is up whenever the microphone is open, but for the one    *)
(* step in which the worker has started it and not yet raised the gate.    *)
GateCoversMic == (mic /\ pc \notin {"gate"}) => gate

(* A take in which the detector ran and heard no speech types nothing and  *)
(* leaves the clipboard alone, though it may have been ended by a press.   *)
SilenceTypesNothing ==
  pc \in {"decode", "deliver", "paste", "restore"} => (vad = "running" => spoken)

(* Between takes the clipboard holds what the user had, unless the         *)
(* snapshot could not read it (a file list) or a paste failed.             *)
ClipboardBack == (pc = "rest" /\ clip = "transcript") => spoilt

(* Every press that finds the worker at rest is taken up, and whatever     *)
(* happens in the take the worker comes back for the next one.             *)
TakeEnds == (pc = "listen") ~> (pc \in {"rest", "gone"})

(* Whichever of its exits a take leaves by: the worker rests with all it   *)
(* took given back, the gate covers the open microphone, silence types     *)
(* nothing, and the clipboard is the user's again.                         *)
DictationInv ==
  /\ DictationTypeOK
  /\ RestsClean
  /\ GateCoversMic
  /\ SilenceTypesNothing
  /\ ClipboardBack
=============================================================================
