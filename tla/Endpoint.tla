----------------------------- MODULE Endpoint ------------------------------
(***************************************************************************)
(* The end-of-utterance detector of packages/shared-rust/src/vad.rs: the   *)
(* Silero model's state between frames and the pure Endpointer over its    *)
(* scores.  A score is abstracted to the band the Endpointer compares it   *)
(* with: "quiet", "energy" (below the speech threshold) or "speech".       *)
(* Durations are counted in 32 ms frames.                                  *)
(***************************************************************************)
EXTENDS Naturals, Sequences, FiniteSets

CONSTANTS
  Silence, Hold, MinSpeech, NoSpeech,   \* EndpointConfig, in frames
  Margin,                               \* dictation.rs TAIL_MARGIN, in frames
  MaxFrames, MaxTakes                   \* bounds of a run

EndpointAssumption ==
  {Silence, Hold, MinSpeech, NoSpeech, Margin, MaxFrames, MaxTakes} \subseteq Nat \ {0}

VARIABLES
  e,        \* the Endpointer
  context,  \* the take whose audio SileroVad's context and state carry, 0 if none
  takes,    \* takes begun
  heard,    \* the bands observed in this take, in order
  judged    \* takes whose context a frame of this take was scored with

vars == <<e, context, takes, heard, judged>>

Bands == {"quiet", "energy", "speech"}
Never == MaxFrames + 1

Mut_New == [frames |-> 0, speech |-> 0, lastSpeech |-> Never + 1, lastEnergy |-> Never, ended |-> FALSE]
New == [frames |-> 0, speech |-> 0, lastSpeech |-> Never, lastEnergy |-> Never,
        ended |-> FALSE]

(* decide, for the frame just counted at index idx.                        *)
Mut_Decide(r, idx) ==
  IF r.lastSpeech = Never THEN r.frames >= NoSpeech
  ELSE idx - r.lastEnergy >= Silence
Decide(r, idx) ==
  IF r.lastSpeech = Never THEN r.frames >= NoSpeech
  ELSE \/ idx - r.lastEnergy >= Silence
       \/ idx - r.lastSpeech >= Hold

Mut_Observe(r, band) ==
  LET idx == r.frames
      next == [r EXCEPT !.frames = @ + 1, !.speech = IF band = "quiet" THEN @ ELSE @ + 1,
                        !.lastSpeech = IF band = "speech" THEN idx ELSE @,
                        !.lastEnergy = IF band = "quiet" THEN @ ELSE idx]
  IN IF r.ended THEN r ELSE [next EXCEPT !.ended = Decide(next, idx)]
Observe(r, band) ==
  LET idx == r.frames
      next == [r EXCEPT !.frames = @ + 1,
                        !.speech = IF band = "speech" THEN @ + 1 ELSE @,
                        !.lastSpeech = IF band = "speech" THEN idx ELSE @,
                        !.lastEnergy = IF band = "quiet" THEN @ ELSE idx]
  IN IF r.ended THEN r ELSE [next EXCEPT !.ended = Decide(next, idx)]

HeardSpeech(r) == r.speech >= MinSpeech

(* finish_take's cut: the frames of the take that are transcribed.         *)
Mut_Keep(r) == r.speech + Margin
Keep(r) == (IF r.lastSpeech = Never THEN 0 ELSE r.lastSpeech + 1) + Margin

Init == e = New /\ context = 0 /\ takes = 0 /\ heard = <<>> /\ judged = {}

(* SileroVad::reset and a fresh Endpointer open each take.                 *)
Mut_Reset == UNCHANGED context
Reset == context' = 0

Begin ==
  /\ takes < MaxTakes /\ takes' = takes + 1
  /\ e' = New /\ Reset /\ heard' = <<>> /\ judged' = {}

(* SileroVad::observe scores a frame with the context of the previous one. *)
Frame(band) ==
  /\ takes > 0 /\ ~e.ended /\ Len(heard) < MaxFrames
  /\ judged' = judged \cup {context} /\ context' = takes
  /\ e' = Observe(e, band) /\ heard' = Append(heard, band)
  /\ UNCHANGED takes

Next == Begin \/ \E b \in Bands : Frame(b)
Spec == Init /\ [][Next]_vars

-----------------------------------------------------------------------------
(* Types: the counters of frames stay within the take, and results are of  *)
(* takes that were begun.                                                  *)
EndpointTypeOK ==
  /\ e \in [frames : 0..MaxFrames, speech : 0..MaxFrames,
            lastSpeech : 0..Never, lastEnergy : 0..Never, ended : BOOLEAN]
  /\ {context, takes} \subseteq 0..MaxTakes /\ heard \in Seq(Bands)
  /\ judged \subseteq 0..MaxTakes

(* What the rule of vad.rs:210-216 says of a whole history: the utterance  *)
(* is over at n when nothing was said for NoSpeech frames, or when speech  *)
(* was followed by Silence frames of clean silence, or by Hold frames      *)
(* without speech however much energy they had.                            *)
Over(n) ==
  LET spoken == {i \in 1..n : heard[i] = "speech"} IN
  \/ spoken = {} /\ n >= NoSpeech
  \/ spoken # {} /\ n > Silence /\ \A i \in (n - Silence + 1)..n : heard[i] = "quiet"
  \/ spoken # {} /\ n > Hold /\ \A i \in (n - Hold + 1)..n : heard[i] # "speech"

(* The counters of the Endpointer decide exactly what the rule says of the *)
(* frames heard: it ends at the first frame that is over, and not before.  *)
EndsByTheRule ==
  /\ e.ended <=> Over(Len(heard))
  /\ \A n \in 1..(Len(heard) - 1) : ~Over(n)

(* No frame in which speech was heard is cut off the take.                 *)
KeepsSpeech == \A i \in 1..Len(heard) : heard[i] = "speech" => i <= Keep(e)

(* A take is discarded only if fewer than MinSpeech frames had speech.     *)
DiscardsOnlySilence ==
  HeardSpeech(e) <=> Cardinality({i \in 1..Len(heard) : heard[i] = "speech"}) >= MinSpeech

(* A frame is never scored with what an earlier take left in the model.    *)
NoCarryOver == judged \subseteq {0, takes}

(* A take ends when the rule on its whole history says so, what is kept of *)
(* it holds its speech, only silence is thrown away, and no take hears     *)
(* another.                                                                *)
EndpointInv ==
  /\ EndpointTypeOK
  /\ EndsByTheRule
  /\ KeepsSpeech
  /\ DiscardsOnlySilence
  /\ NoCarryOver
=============================================================================
